--------------------------- MODULE OpenCodeCapture ---------------------------
(***************************************************************************)
(* The collector's tailer of OpenCode (collector/src/capture/opencode.rs): *)
(* every 400 ms it reads the parts OpenCode has written since the cursor,  *)
(* a time in milliseconds and a part id, and sends what they show; it ends *)
(* the sessions that have been idle.  OpenCode writes and rewrites parts   *)
(* meanwhile, several in one millisecond.                                  *)
(*                                                                         *)
(* Part ids are numbers in the order SQLite compares them in; 0 is "".     *)
(* What a part shows is known by the time of its last change.              *)
(***************************************************************************)
EXTENDS Naturals, SequencesExt

CONSTANTS
  Sessions,
  MaxPart,     \* bound: parts are numbered from 1
  SessionOf,   \* the OpenCode session of a part
  Silent,      \* parts that show nothing
  MaxClock,    \* bound: time
  Limit,       \* LIMIT of the query
  SeenMax,     \* SEEN_CACHE_MAX
  IdleAfter,   \* idle_end_after()
  Faults       \* "db", a query; "cut", a text whose 4096th byte is inside a
               \* character; "pump", the channel closes

Parts == 1 .. MaxPart
Time == 0 .. MaxClock

VARIABLES
  clock,
  row,      \* the part table: part -> time_updated
  pc,       \* the tailer's place in run()
  cursor,   \* last_time_updated, last_part_id
  seen,     \* seen_part_updates
  active,   \* source_sessions: session -> last_seen_ms
  out,      \* the contents of this poll still to be sent
  starts,   \* sessions whose start is still to be sent -> contents before it
  due,      \* the idle sessions still to be ended
  told,     \* history: what the frames sent say of a session
  got,      \* history: the change of a part that was sent last; 0 for none
  newest,   \* history: the change sent last of all
  late,     \* history: parts whose last change will be passed over
  disorder  \* history: a change was sent after a later one, or twice

sourceVars == <<clock, row>>
tailerVars == <<cursor, seen, active>>
historyVars == <<got, newest, late, disorder>>
frameVars == <<out, starts, due>>
vars == <<sourceVars, pc, tailerVars, frameVars, told, historyVars>>

-----------------------------------------------------------------------------
(* Types *)

Change == [time : Time, part : Parts \union {0}]

TypeOK ==
  /\ clock \in Time
  /\ row \in [Parts -> Time]            \* 0: there is no such part
  /\ pc \in {"prime", "poll", "send", "end", "stopped"}
  /\ cursor \in Change
  /\ DOMAIN seen \subseteq Parts /\ \A p \in DOMAIN seen : seen[p] \in Time
  /\ Cardinality(DOMAIN seen) <= SeenMax
  /\ DOMAIN active \subseteq Sessions /\ \A s \in DOMAIN active : active[s] \in Time
  /\ out \in Seq(Change)
  /\ DOMAIN starts \subseteq Sessions /\ \A s \in DOMAIN starts : starts[s] \in Nat
  /\ due \subseteq DOMAIN active
  /\ told \in [Sessions -> {"out", "in", "unheard", "confused"}]
  /\ got \in [Parts -> Time]
  /\ newest \in Change
  /\ late \subseteq Parts
  /\ disorder \in BOOLEAN

Nothing == [x \in {} |-> 0]
Beginning == [time |-> 0, part |-> 0]

Init ==
  /\ clock = 1
  /\ row \in [Parts -> {0, 1}]
  /\ pc = "prime"
  /\ cursor = Beginning /\ seen = Nothing /\ active = Nothing
  /\ out = <<>> /\ starts = Nothing /\ due = {}
  /\ told = [s \in Sessions |-> "out"]
  /\ got = [p \in Parts |-> 0] /\ newest = Beginning
  /\ late = {} /\ disorder = FALSE

-----------------------------------------------------------------------------
(* OpenCode *)

Before(a, b) == a.time < b.time \/ (a.time = b.time /\ a.part < b.part)

ChangeOf(p) == [time |-> row[p], part |-> p]

Tick ==
  /\ clock < MaxClock
  /\ clock' = clock + 1
  /\ UNCHANGED <<row, pc, tailerVars, frameVars, told, historyVars>>

Known(cache, c) == c.part \in DOMAIN cache /\ cache[c.part] >= c.time

(* A part is inserted or changed.  The cursor, or the cache, may have passed
   that millisecond already. *)
WritePart(p) ==
  /\ row' = [row EXCEPT ![p] = clock]
  /\ LET c == [time |-> clock, part |-> p]
     IN  late' = IF Before(cursor, c) /\ ~Known(seen, c)
                 THEN late \ {p} ELSE late \union {p}
  /\ UNCHANGED <<clock, pc, tailerVars, frameVars, told, got, newest, disorder>>

-----------------------------------------------------------------------------
(* One poll *)

(* The first query skips what is there, but for the parts of the newest
   millisecond; if it fails, nothing is skipped. *)
Prime ==
  /\ pc = "prime"
  /\ pc' = "poll"
  /\ LET times == {row[p] : p \in Parts}
     IN  \E t \in (IF "db" \in Faults THEN {0} ELSE {})
                    \union {u \in times : \A v \in times : v <= u} :
           /\ cursor' = [time |-> t, part |-> 0]
           /\ late' = {p \in Parts : row[p] < t}
  /\ UNCHANGED <<sourceVars, seen, active, frameVars, told, got, newest, disorder>>

(* A mistake: the rows of the cursor's millisecond are left out. *)
Unread_NoTies == {ChangeOf(p) : p \in {q \in Parts : row[q] > cursor.time}}

(* The rows after the cursor ... *)
Unread == {c \in {ChangeOf(p) : p \in Parts} : c.time > 0 /\ Before(cursor, c)}

(* ... in order, as many as the query returns: i - 1 rows come before the i-th. *)
Rows ==
  LET n == Cardinality(Unread)
  IN  [i \in 1 .. (IF n < Limit THEN n ELSE Limit) |->
         CHOOSE c \in Unread : Cardinality({d \in Unread : Before(d, c)}) = i - 1]

(* A mistake: the cache is never emptied. *)
Remember_Unbounded(cache, c) ==
  [p \in DOMAIN cache \union {c.part} |-> IF p = c.part THEN c.time ELSE cache[p]]

(* The cache after a row: when it is full, it is emptied. *)
Remember(cache, c) ==
  LET more == [p \in DOMAIN cache \union {c.part} |->
                 IF p = c.part THEN c.time ELSE cache[p]]
  IN  IF Cardinality(DOMAIN more) > SeenMax THEN Nothing ELSE more

(* route_part: a session becomes active with its first part. *)
Touched(sessions, c) ==
  [s \in DOMAIN sessions \union {SessionOf[c.part]} |->
     IF s = SessionOf[c.part] THEN c.time ELSE sessions[s]]

(* A mistake: the start is sent with the session's first content only, and a
   part that shows nothing comes first. *)
Opened_WithContent(begun, sessions, frames, c) ==
  IF SessionOf[c.part] \in DOMAIN sessions \/ c.part \in Silent THEN begun
  ELSE [s \in DOMAIN begun \union {SessionOf[c.part]} |->
          IF s = SessionOf[c.part] THEN Len(frames) ELSE begun[s]]

(* The start of a session that was not active comes before what the part shows.
   Every such start is of a new team-presence session. *)
Opened(begun, sessions, frames, c) ==
  IF SessionOf[c.part] \in DOMAIN sessions THEN begun
  ELSE [s \in DOMAIN begun \union {SessionOf[c.part]} |->
          IF s = SessionOf[c.part] THEN Len(frames) ELSE begun[s]]

(* part_to_frames: an empty text, or a part of an unknown type, shows nothing. *)
Shown(frames, c) == IF c.part \in Silent THEN frames ELSE Append(frames, c)

(* The rows one by one: what is fresh goes into the cache and is routed. *)
Routed(rows) ==
  LET after[i \in 0 .. Len(rows)] ==
        IF i = 0 THEN [seen |-> seen, active |-> active, fresh |-> {}, starts |-> Nothing, out |-> <<>>]
        ELSE LET x == after[i - 1]
                 c == rows[i]
             IN  IF Known(x.seen, c) THEN x
                 ELSE [seen   |-> Remember(x.seen, c),
                       active |-> Touched(x.active, c),
                       fresh  |-> x.fresh \union {c.part},
                       starts |-> Opened(x.starts, x.active, x.out, c),
                       out    |-> Shown(x.out, c)]
  IN  after[Len(rows)]

Poll ==
  /\ pc = "poll"
  /\ pc' = "send"
  /\ LET rows == Rows
         routed == Routed(rows)
     IN  /\ seen' = routed.seen
         /\ active' = routed.active
         /\ out' = routed.out
         /\ starts' = routed.starts
         /\ cursor' = IF rows = <<>> THEN cursor ELSE Last(rows)
  /\ UNCHANGED <<sourceVars, due, told, historyVars>>

(* The query fails, perhaps midway: the cursor stays and the frames are dropped,
   but the rows read so far are in the cache, which will skip them next time,
   and their sessions are active: the starts that were dropped are never sent. *)
PollFails ==
  /\ "db" \in Faults
  /\ pc = "poll"
  /\ pc' = "send"
  /\ \E n \in 0 .. Len(Rows) :
       LET routed == Routed(SubSeq(Rows, 1, n))
       IN  /\ seen' = routed.seen
           /\ active' = routed.active
           /\ late' = late \union routed.fresh
           /\ told' = [s \in Sessions |->
                         IF s \in DOMAIN routed.starts THEN "unheard" ELSE told[s]]
  /\ UNCHANGED <<sourceVars, cursor, frameVars, got, newest, disorder>>

(* The text is cut inside a character: the tailer's task panics. *)
Panic ==
  /\ "cut" \in Faults
  /\ pc = "poll"
  /\ Routed(Rows).fresh # {}
  /\ pc' = "stopped"
  /\ cursor' = Beginning /\ seen' = Nothing /\ active' = Nothing
  /\ UNCHANGED <<sourceVars, frameVars, told, historyVars>>

-----------------------------------------------------------------------------
(* Frames *)

(* A frame of a session, in its place only when `legal`, after which the
   session is in `state`: between its start and its end it is "in", or
   "unheard" when a failed poll has dropped the start. *)
Tell(s, legal, state) ==
  told' = [told EXCEPT ![s] = IF legal THEN state ELSE "confused"]

Begun(s) == told[s] \in {"in", "unheard"}

SendStart(s) ==
  /\ pc = "send" /\ s \in DOMAIN starts /\ starts[s] = 0
  /\ starts' = [u \in DOMAIN starts \ {s} |-> starts[u]]
  /\ Tell(s, told[s] = "out", "in")
  /\ UNCHANGED <<sourceVars, pc, tailerVars, out, due, historyVars>>

(* The content at the head, when no start comes before it. *)
Send ==
  /\ pc = "send" /\ out # <<>>
  /\ \A s \in DOMAIN starts : starts[s] > 0
  /\ LET c == Head(out)
         s == SessionOf[c.part]
     IN  /\ got' = [got EXCEPT ![c.part] = c.time]
         /\ newest' = c
         /\ disorder' = (disorder \/ ~Before(newest, c))
         /\ Tell(s, Begun(s), told[s])
  /\ out' = Tail(out)
  /\ starts' = [s \in DOMAIN starts |-> starts[s] - 1]
  /\ UNCHANGED <<sourceVars, pc, tailerVars, due, late>>

(* The channel is closed: the tailer returns. *)
SendFails ==
  /\ "pump" \in Faults
  /\ pc = "send" /\ (out # <<>> \/ DOMAIN starts # {})
  /\ pc' = "stopped"
  /\ cursor' = Beginning /\ seen' = Nothing /\ active' = Nothing
  /\ out' = <<>> /\ starts' = Nothing
  /\ UNCHANGED <<sourceVars, due, told, historyVars>>

(* All is sent, or the poll has failed. *)
FindIdle ==
  /\ pc = "send" /\ out = <<>> /\ DOMAIN starts = {}
  /\ pc' = "end"
  /\ due' = {s \in DOMAIN active : clock > active[s] + IdleAfter}
  /\ UNCHANGED <<sourceVars, tailerVars, out, starts, told, historyVars>>

EndOne(s) ==
  /\ pc = "end" /\ s \in due
  /\ due' = due \ {s}
  /\ active' = [u \in DOMAIN active \ {s} |-> active[u]]
  /\ Tell(s, Begun(s), "out")
  /\ UNCHANGED <<sourceVars, pc, cursor, seen, out, starts, historyVars>>

Sleep ==
  /\ pc = "end" /\ due = {}
  /\ pc' = "poll"
  /\ UNCHANGED <<sourceVars, tailerVars, frameVars, told, historyVars>>

Next ==
  \/ Tick \/ \E p \in Parts : WritePart(p)
  \/ Prime \/ Poll \/ PollFails \/ Panic
  \/ Send \/ SendFails \/ FindIdle \/ Sleep
  \/ \E s \in Sessions : SendStart(s) \/ EndOne(s)

Spec == Init /\ [][Next]_vars

-----------------------------------------------------------------------------
(* Properties *)

(* What is sent of OpenCode's parts is exact, whatever is written in the
   millisecond the cursor stands in, however many parts there are to a page
   and whenever the cache is emptied: changes are sent in order and once, and
   when the tailer has caught up, the last change of every part has been sent,
   unless the cursor or the cache was past it when it was written, or a failing
   poll dropped it. *)
ExactUnlessLate ==
  /\ ~disorder
  /\ pc = "poll" /\ Unread = {} =>
       \A p \in Parts \ (late \union Silent) : row[p] = got[p]

(* The frames of a session are in their places, whatever page, cache and cursor
   make of its parts: its start before its contents and its end, unless a
   failing poll has dropped it, one start between two ends, and no end of a
   session that has none. *)
FramesMakeSense == \A s \in Sessions : told[s] # "confused"
=============================================================================
