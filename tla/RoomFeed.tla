------------------------------ MODULE RoomFeed ------------------------------
(***************************************************************************)
(* The page of one session: the Redis stream room:{id} that emit_frame     *)
(* writes (session/emit.rs), the task that serves /sse/room/:id            *)
(* (sse/room.rs), and the browser's hook (useSseRoom.ts) on top of         *)
(* fetch-event-source, which reconnects by itself.                         *)
(*                                                                         *)
(* Frames are numbered in the order of their stream ids; the room holds    *)
(* lo + 1 .. top.  Event 0 on the wire is "reset".                         *)
(***************************************************************************)
EXTENDS Naturals, Sequences

CONSTANTS
  MaxTop,      \* bound: the frames ever written
  MaxDrops,    \* bound: connections lost and pages reloaded
  MaxLen,      \* ROOM_MAXLEN
  PageSize,    \* BACKFILL_PAGE
  BufferCap,   \* BUFFER_CAP of the page
  WireCap,     \* bound: events on their way to the browser
  Faults       \* what may fail: "redis", a command; "restart", its connection;
               \* "refuse", the request

ASSUME RoomAssumption ==
  /\ {MaxTop, MaxDrops} \subseteq Nat
  /\ {MaxLen, PageSize, BufferCap, WireCap} \subseteq Nat \ {0}
  /\ Faults \subseteq {"redis", "restart", "refuse"}

VARIABLES
  top, lo,   \* the room
  pc,        \* the server's task: "off" is none
  cursor,    \* its position: at, as parse_id reads it; ok, whether Redis takes it
  batch,     \* entries read and not yet sent
  broken,    \* its Redis connection is dead
  wire,      \* events between server and page
  web,       \* the page: "waiting" to connect, "open" or "closed" for good
  view,      \* the page's entries
  last,      \* lastIdRef
  own,       \* the Last-Event-ID the hook gave to fetchEventSource
  header,    \* the last-event-id the library has added to it; 0 for none
  drops      \* history: counts against MaxDrops

roomVars == <<top, lo>>
taskVars == <<pc, cursor, batch, broken>>
pageVars == <<web, view, last, own, header>>
vars == <<roomVars, taskVars, wire, pageVars, drops>>

-----------------------------------------------------------------------------
(* Types *)

Ids == 1 .. MaxTop
Reset == 0
Cursor == [at : 0 .. MaxTop, ok : BOOLEAN]
Start == [at |-> 0, ok |-> TRUE]

TypeOK ==
  /\ top \in 0 .. MaxTop /\ lo \in 0 .. top
  /\ pc \in {"off", "check", "page", "tail"}
  /\ cursor \in Cursor
  /\ batch \in Seq(Ids) /\ Len(batch) <= PageSize
  /\ broken \in BOOLEAN
  /\ wire \in Seq(Ids \union {Reset}) /\ Len(wire) <= WireCap
  /\ web \in {"waiting", "open", "closed"}
  /\ view \in Seq(Ids) /\ Len(view) <= BufferCap
  /\ {last, own, header} \subseteq 0 .. MaxTop
  /\ drops \in 0 .. MaxDrops

Init ==
  /\ top = 0 /\ lo = 0
  /\ pc = "off" /\ cursor = Start /\ batch = <<>> /\ broken = FALSE
  /\ wire = <<>>
  /\ web = "waiting" /\ view = <<>> /\ last = 0 /\ own = 0 /\ header = 0
  /\ drops = 0

-----------------------------------------------------------------------------
(* The room *)

(* XADD MAXLEN ~: Redis drops old entries when it likes, never below MaxLen. *)
Write ==
  /\ top < MaxTop
  /\ top' = top + 1
  /\ lo' \in {lo} \union {x \in lo .. top' : top' - x >= MaxLen}
  /\ UNCHANGED <<taskVars, wire, pageVars, drops>>

(* EXPIRE: nothing was written for a day. *)
Expire ==
  /\ lo' = top
  /\ UNCHANGED <<top, taskVars, wire, pageVars, drops>>

(* A mistake: the start of the range is not exclusive. *)
Entries_Inclusive(after) ==
  LET from == IF after = 0 THEN lo ELSE IF after > lo THEN after - 1 ELSE lo
      n == IF top - from < PageSize THEN top - from ELSE PageSize
  IN  [i \in 1 .. n |-> from + i]

(* XRANGE or XREAD: the first entries after an id. *)
Entries(after) ==
  LET from == IF after > lo THEN after ELSE lo
      n == IF top - from < PageSize THEN top - from ELSE PageSize
  IN  [i \in 1 .. n |-> from + i]

-----------------------------------------------------------------------------
(* The server's task *)

(* The header as sent: fetch joins the hook's and the library's, whose names
   differ in case only, with a comma.  parse_id reads the hook's milliseconds
   from that, Redis refuses it.  An id alone is sound; "0" asks for all. *)
Requested == [at |-> own, ok |-> header = 0]

(* The session is there and Redis answers. *)
Open ==
  /\ web = "waiting"
  /\ web' = "open"
  /\ cursor' = Requested
  /\ pc' = IF Requested = Start THEN "page" ELSE "check"
  /\ broken' = FALSE
  /\ UNCHANGED <<roomVars, batch, wire, view, last, own, header, drops>>

(* Reset detection: the first entry is after the cursor. *)
CheckReset ==
  /\ pc = "check" /\ Len(wire) < WireCap
  /\ pc' = "page"
  /\ IF lo < top /\ cursor.at < lo + 1 /\ ~broken
     THEN cursor' = Start /\ wire' = Append(wire, Reset)
     ELSE UNCHANGED <<cursor, wire>>
  /\ UNCHANGED <<roomVars, batch, broken, pageVars, drops>>

(* An error counts as "nothing was trimmed". *)
CheckFails ==
  /\ "redis" \in Faults
  /\ pc = "check"
  /\ pc' = "page"
  /\ UNCHANGED <<roomVars, cursor, batch, broken, wire, pageVars, drops>>

(* A mistake: an empty page ends the stream. *)
ReadPage_EndsOnEmpty ==
  /\ pc = "page" /\ batch = <<>>
  /\ IF cursor.ok /\ ~broken /\ Entries(cursor.at) # <<>>
     THEN batch' = Entries(cursor.at) /\ UNCHANGED pc
     ELSE pc' = "off" /\ UNCHANGED batch
  /\ UNCHANGED <<roomVars, cursor, broken, wire, pageVars, drops>>

(* Backfill, page by page, until a page is empty or fails. *)
ReadPage ==
  /\ pc = "page" /\ batch = <<>>
  /\ IF cursor.ok /\ ~broken /\ Entries(cursor.at) # <<>>
     THEN batch' = Entries(cursor.at) /\ UNCHANGED pc
     ELSE pc' = "tail" /\ UNCHANGED batch
  /\ UNCHANGED <<roomVars, cursor, broken, wire, pageVars, drops>>

PageFails ==
  /\ "redis" \in Faults
  /\ pc = "page" /\ batch = <<>>
  /\ pc' = "tail"
  /\ UNCHANGED <<roomVars, cursor, batch, broken, wire, pageVars, drops>>

(* XREAD BLOCK.  After an error, a time-out or on a cursor Redis refuses, the
   loop sleeps and asks again with the same cursor on the same connection. *)
ReadTail ==
  /\ pc = "tail" /\ batch = <<>>
  /\ cursor.ok /\ ~broken
  /\ Entries(cursor.at) # <<>>
  /\ batch' = Entries(cursor.at)
  /\ UNCHANGED <<roomVars, pc, cursor, broken, wire, pageVars, drops>>

(* Redis restarts: the multiplexed connection does not come back. *)
Break ==
  /\ "restart" \in Faults
  /\ pc # "off"
  /\ broken' = TRUE
  /\ UNCHANGED <<roomVars, pc, cursor, batch, wire, pageVars, drops>>

Send ==
  /\ batch # <<>> /\ Len(wire) < WireCap
  /\ wire' = Append(wire, Head(batch))
  /\ cursor' = [cursor EXCEPT !.at = Head(batch)]
  /\ batch' = Tail(batch)
  /\ UNCHANGED <<roomVars, pc, broken, pageVars, drops>>

-----------------------------------------------------------------------------
(* The page *)

(* A mistake: one entry too many is kept. *)
Pushed_OffByOne(id) ==
  Append(IF Len(view) <= BufferCap THEN view ELSE SubSeq(view, 2, Len(view)), id)

(* The newest BufferCap entries. *)
Pushed(id) ==
  Append(IF Len(view) < BufferCap THEN view
         ELSE SubSeq(view, Len(view) - BufferCap + 2, Len(view)), id)

ReceiveFrame ==
  /\ wire # <<>> /\ Head(wire) # Reset
  /\ wire' = Tail(wire)
  /\ view' = Pushed(Head(wire))
  /\ last' = Head(wire) /\ header' = Head(wire)
  /\ UNCHANGED <<roomVars, taskVars, web, own, drops>>

(* "reset" empties the buffer and the hook's cursor, not the library's. *)
ReceiveReset ==
  /\ wire # <<>> /\ Head(wire) = Reset
  /\ wire' = Tail(wire)
  /\ view' = <<>> /\ last' = 0
  /\ UNCHANGED <<roomVars, taskVars, web, own, header, drops>>

Hangup ==
  /\ pc' = "off" /\ cursor' = Start /\ batch' = <<>> /\ broken' = FALSE
  /\ wire' = <<>>

(* The connection is lost with what is on the wire; the library will retry. *)
Disconnect ==
  /\ web = "open" /\ drops < MaxDrops
  /\ drops' = drops + 1
  /\ Hangup
  /\ web' = "waiting"
  /\ UNCHANGED <<roomVars, view, last, own, header>>

(* 401: the token is renewed and the hook starts over with its own cursor. *)
Unauthorized ==
  /\ web = "waiting"
  /\ own' = last /\ header' = 0
  /\ UNCHANGED <<roomVars, taskVars, wire, web, view, last, drops>>

(* 403, 404, a 401 that cannot be renewed, a server error, or no Redis
   connection: the response ends and nobody retries. *)
Refuse ==
  /\ "refuse" \in Faults
  /\ web = "waiting"
  /\ web' = "closed"
  /\ UNCHANGED <<roomVars, taskVars, wire, view, last, own, header, drops>>

(* The page is opened again. *)
Mount ==
  /\ drops < MaxDrops
  /\ drops' = drops + 1
  /\ Hangup
  /\ web' = "waiting" /\ view' = <<>> /\ last' = 0 /\ own' = 0 /\ header' = 0
  /\ UNCHANGED roomVars

Next ==
  \/ Write \/ Expire
  \/ Open \/ CheckReset \/ CheckFails \/ ReadPage \/ PageFails \/ ReadTail
  \/ Break \/ Send
  \/ ReceiveFrame \/ ReceiveReset
  \/ Disconnect \/ Unauthorized \/ Refuse \/ Mount

(* The tasks run and the network delivers; nobody has to write. *)
Fairness ==
  /\ WF_vars(Open) /\ WF_vars(CheckReset) /\ WF_vars(ReadPage)
  /\ WF_vars(ReadTail) /\ WF_vars(Send)
  /\ WF_vars(ReceiveFrame) /\ WF_vars(ReceiveReset)

Spec == Init /\ [][Next]_vars /\ Fairness

-----------------------------------------------------------------------------
(* Properties *)

Log == INSTANCE RoomLog

(* Whatever is lost, trimmed, retried or reset meanwhile, the page shows the
   frames in order, each once, and skips only what the room has dropped. *)
ImplementsRoomLog == Log!LogSpec

(* The task asks Redis in vain: with a cursor it refuses or on a connection
   that is dead.  Nothing ends such a stream but the client. *)
Stuck == pc = "tail" /\ batch = <<>> /\ (~cursor.ok \/ broken)

(* Every frame is shown in the end, unless the room drops it first, the page
   is refused, or the task is stuck. *)
FramesArrive ==
  \A i \in Ids :
    i <= top ~> (last >= i \/ i <= lo \/ web = "closed" \/ Stuck)
=============================================================================
