---------------------------- MODULE CodexCapture ----------------------------
(***************************************************************************)
(* The collector's tailer of Codex (collector/src/capture/codex.rs): every *)
(* 700 ms it asks Codex's database for the recent threads, reads on in the *)
(* history file all threads share, sends the frames of both, and ends the  *)
(* threads that have been idle.  Codex writes both meanwhile.              *)
(*                                                                         *)
(* A line of the history is written in one piece or in two halves.  The    *)
(* tailer remembers lines by their content, so a line is its content.      *)
(***************************************************************************)
EXTENDS Naturals, SequencesExt

CONSTANTS
  Threads, Lines,
  Owner,        \* the thread a line belongs to
  MaxClock,     \* bound: time
  MaxFile,      \* bound: half lines in the history file
  Window,       \* active_window()
  IdleAfter,    \* idle_end_after()
  ListLimit,    \* LIMIT of the query
  Faults        \* "db", the query; "read", the file; "pump", the channel closes

ASSUME CodexAssumption ==
  /\ Owner \in [Lines -> Threads]
  /\ MaxClock \in Nat \ {0}
  /\ {MaxFile, Window, IdleAfter, ListLimit} \subseteq Nat
  /\ Faults \subseteq {"db", "read", "pump"}

VARIABLES
  clock,
  updated,   \* threads.updated_at of the threads that are not archived
  file,      \* history.jsonl, in half lines
  pc,        \* the tailer's place in run()
  active,    \* its sessions: thread -> last_seen_s
  seen,      \* seen_history
  offset,    \* history_offset
  starts, out,  \* frames of this poll still to be sent: starts first, contents
  due,       \* the idle threads still to be ended
  told,      \* history: what the frames sent say of a thread
  meta,      \* history: its row on the server, should every frame get to the server
  given      \* history: the lines sent since the file last shrank

codexVars == <<clock, updated, file>>
pollVars == <<active, seen, offset>>
historyVars == <<told, meta, given>>
vars == <<codexVars, pc, pollVars, starts, out, due, historyVars>>

-----------------------------------------------------------------------------
(* Types *)

Time == 0 .. MaxClock
Half == [line : Lines, half : {1, 2}]

TypeOK ==
  /\ clock \in Time
  /\ DOMAIN updated \subseteq Threads /\ \A t \in DOMAIN updated : updated[t] \in Time
  /\ file \in Seq(Half) /\ Len(file) <= MaxFile
  /\ pc \in {"list", "stat", "read", "send", "end", "stopped"}
  /\ DOMAIN active \subseteq Threads /\ \A t \in DOMAIN active : active[t] \in Time
  /\ seen \subseteq Lines
  /\ offset \in 0 .. MaxFile
  /\ starts \subseteq Threads
  /\ out \in Seq(Lines)
  /\ due \subseteq DOMAIN active
  /\ told \in [Threads -> {"out", "in", "confused", "unheard"}]
  /\ meta \in [Threads -> {"none", "live", "ended"}]
  /\ given \subseteq Lines

NoSession == [t \in {} |-> 0]

Init ==
  /\ clock = 1
  /\ updated = NoSession
  /\ file = <<>>
  /\ pc = "list"
  /\ active = NoSession /\ seen = {} /\ offset = 0
  /\ starts = {} /\ out = <<>> /\ due = {}
  /\ told = [t \in Threads |-> "out"] /\ meta = [t \in Threads |-> "none"] /\ given = {}

-----------------------------------------------------------------------------
(* Codex *)

With(f, x, v) == [y \in DOMAIN f \union {x} |-> IF y = x THEN v ELSE f[y]]

tailerVars == <<pc, pollVars, starts, out, due, historyVars>>

Tick ==
  /\ clock < MaxClock
  /\ clock' = clock + 1
  /\ UNCHANGED <<updated, file, tailerVars>>

(* A thread is created or goes on. *)
Touch(t) ==
  /\ updated' = With(updated, t, clock)
  /\ UNCHANGED <<clock, file, tailerVars>>

Archive(t) ==
  /\ updated' = [u \in DOMAIN updated \ {t} |-> updated[u]]
  /\ UNCHANGED <<clock, file, tailerVars>>

Halves(l) == <<[line |-> l, half |-> 1], [line |-> l, half |-> 2]>>

Unfinished == file # <<>> /\ Last(file).half = 1

WriteLine(l, n) ==
  /\ ~Unfinished /\ Len(file) + 2 <= MaxFile
  /\ file' = file \o SubSeq(Halves(l), 1, n)
  /\ UNCHANGED <<clock, updated, tailerVars>>

WriteRest ==
  /\ Unfinished
  /\ file' = Append(file, [Last(file) EXCEPT !.half = 2])
  /\ UNCHANGED <<clock, updated, tailerVars>>

(* The file is emptied or replaced. *)
Rewrite ==
  /\ file # <<>>
  /\ file' \in {<<>>} \union {Halves(l) : l \in Lines}
  /\ UNCHANGED <<clock, updated, tailerVars>>

-----------------------------------------------------------------------------
(* One poll *)

Recent == {t \in DOMAIN updated : updated[t] + Window >= clock}

(* What the query may answer: the ListLimit threads updated last. *)
Listed(T) ==
  /\ T \subseteq Recent
  /\ Cardinality(T) <= ListLimit
  /\ T # Recent => Cardinality(T) = ListLimit
  /\ \A t \in T, u \in Recent \ T : updated[t] >= updated[u]

Later(a, b) == IF a > b THEN a ELSE b

(* The threads become active; those that were not yet have a start to send. *)
ListThreads ==
  /\ pc = "list"
  /\ \E T \in SUBSET Recent :
       /\ Listed(T)
       /\ starts' = T \ DOMAIN active
       /\ active' = [t \in DOMAIN active \union T |->
                       IF t \notin DOMAIN active THEN updated[t]
                       ELSE IF t \in T THEN Later(active[t], updated[t]) ELSE active[t]]
  /\ pc' = "stat"
  /\ UNCHANGED <<codexVars, seen, offset, out, due, historyVars>>

ListFails ==
  /\ "db" \in Faults
  /\ pc = "list"
  /\ pc' = "send"
  /\ UNCHANGED <<codexVars, pollVars, starts, out, due, historyVars>>

(* A file shorter than what has been read is a new one. *)
Stat ==
  /\ pc = "stat"
  /\ pc' = "read"
  /\ IF Len(file) < offset
     THEN offset' = 0 /\ seen' = {} /\ given' = {}
     ELSE UNCHANGED <<offset, seen, given>>
  /\ UNCHANGED <<codexVars, active, starts, out, due, told, meta>>

(* A line that parses: the text holds its first half, and here its second. *)
Whole(text, i) == i > 1 /\ text[i].half = 2

(* history_line_to_frame, line by line: of an active thread, and not seen. *)
Admitted(text) ==
  LET done[i \in 0 .. Len(text)] ==
        IF i = 0 THEN <<>>
        ELSE LET before == done[i - 1]
                 l == text[i].line
             IN  IF /\ Whole(text, i)
                    /\ Owner[l] \in DOMAIN active
                    /\ l \notin seen \union ToSet(before)
                 THEN Append(before, l) ELSE before
  IN  done[Len(text)]

Unread == SubSeq(file, offset + 1, Len(file))

(* A mistake: the position moves by the length of the file. *)
Read_AddsLength ==
  /\ pc = "read"
  /\ pc' = "send"
  /\ out' = Admitted(Unread)
  /\ seen' = seen \union ToSet(out')
  /\ offset' = offset + Len(file)
  /\ UNCHANGED <<codexVars, active, starts, due, historyVars>>

(* To the end of the file, an unfinished line included. *)
Read ==
  /\ pc = "read"
  /\ pc' = "send"
  /\ out' = Admitted(Unread)
  /\ seen' = seen \union ToSet(out')
  /\ offset' = Later(offset, Len(file))
  /\ UNCHANGED <<codexVars, active, starts, due, historyVars>>

(* The file cannot be opened, or a line in it is no UTF-8: the poll returns the
   error, and with it goes what it has collected. *)
ReadFails ==
  /\ "read" \in Faults
  /\ pc = "read"
  /\ pc' = "send"
  /\ \E n \in 0 .. Len(Unread) :
       seen' = seen \union ToSet(Admitted(SubSeq(Unread, 1, n)))
  /\ starts' = {}
  /\ told' = [t \in Threads |-> IF t \in starts THEN "unheard" ELSE told[t]]
  /\ UNCHANGED <<codexVars, active, offset, out, due, meta, given>>

-----------------------------------------------------------------------------
(* Frames *)

(* A frame of a thread, in its place only when `legal`, after which the thread
   is in `state`: between its start and its end it is "in", or "unheard" when a
   failed poll has discarded the start. *)
Tell(t, legal, state) ==
  told' = [told EXCEPT ![t] = IF legal THEN state ELSE "confused"]

Begun(t) == told[t] \in {"in", "unheard"}

(* What the server makes of a start and of an end: the upsert leaves the
   ended_at of a row that is there alone, and an end marks a live row only. *)
Upserted(r) == IF r = "none" THEN "live" ELSE r
MarkedEnded(r) == IF r = "live" THEN "ended" ELSE r

SendStart(t) ==
  /\ pc = "send" /\ t \in starts
  /\ starts' = starts \ {t}
  /\ Tell(t, told[t] = "out", "in")
  /\ meta' = [meta EXCEPT ![t] = Upserted(@)]
  /\ UNCHANGED <<codexVars, pc, pollVars, out, due, given>>

SendContent ==
  /\ pc = "send" /\ starts = {} /\ out # <<>>
  /\ LET l == Head(out)
         t == Owner[l]
     IN  /\ Tell(t, Begun(t) /\ l \notin given, told[t])
         /\ given' = given \union {l}
  /\ out' = Tail(out)
  /\ UNCHANGED <<codexVars, pc, pollVars, starts, due, meta>>

(* The channel is closed: the tailer returns, and its state is gone. *)
SendFails ==
  /\ "pump" \in Faults
  /\ pc = "send" /\ (starts # {} \/ out # <<>>)
  /\ pc' = "stopped"
  /\ active' = NoSession /\ seen' = {} /\ offset' = 0
  /\ starts' = {} /\ out' = <<>>
  /\ UNCHANGED <<codexVars, due, historyVars>>

(* All is sent, or the poll has failed. *)
FindIdle ==
  /\ pc = "send" /\ starts = {} /\ out = <<>>
  /\ pc' = "end"
  /\ due' = {t \in DOMAIN active : clock > active[t] + IdleAfter}
  /\ UNCHANGED <<codexVars, pollVars, starts, out, historyVars>>

(* A mistake: the thread stays in the table. *)
EndOne_Keeps(t) ==
  /\ pc = "end" /\ t \in due
  /\ due' = due \ {t}
  /\ Tell(t, Begun(t), "out")
  /\ meta' = [meta EXCEPT ![t] = MarkedEnded(@)]
  /\ UNCHANGED <<codexVars, pc, pollVars, starts, out, given>>

EndOne(t) ==
  /\ pc = "end" /\ t \in due
  /\ due' = due \ {t}
  /\ active' = [u \in DOMAIN active \ {t} |-> active[u]]
  /\ Tell(t, Begun(t), "out")
  /\ meta' = [meta EXCEPT ![t] = MarkedEnded(@)]
  /\ UNCHANGED <<codexVars, pc, seen, offset, starts, out, given>>

Sleep ==
  /\ pc = "end" /\ due = {}
  /\ pc' = "list"
  /\ UNCHANGED <<codexVars, pollVars, starts, out, due, historyVars>>

Next ==
  \/ Tick \/ WriteRest \/ Rewrite
  \/ \E l \in Lines, n \in {1, 2} : WriteLine(l, n)
  \/ \E t \in Threads : Touch(t) \/ Archive(t) \/ SendStart(t) \/ EndOne(t)
  \/ ListThreads \/ ListFails \/ Stat \/ Read \/ ReadFails
  \/ SendContent \/ SendFails
  \/ FindIdle \/ Sleep

Spec == Init /\ [][Next]_vars

-----------------------------------------------------------------------------
(* Properties *)

(* The frames of a thread are in their places, however often the thread goes
   idle and comes back, the history is rewritten and a poll fails: it starts
   before its lines and its end, unless a failing poll has discarded the start,
   it does not start twice, and no line is sent twice from one history.  And the
   server's row, if it gets them all, is live only between start and end.  The
   converse fails: a thread that comes back is started again, and its row, which
   has ended, stays ended. *)
FramesMakeSense ==
  \A t \in Threads :
    /\ told[t] # "confused"
    /\ meta[t] = "live" => told[t] = "in"
    /\ told[t] = "in" => meta[t] # "none"
=============================================================================
