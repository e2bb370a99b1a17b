--------------------------- MODULE CollectorLink ---------------------------
(***************************************************************************)
(* The link between one collector and the server.  In the collector,       *)
(* heartbeats, hooks and tailers put frames into one bounded channel, and  *)
(* the pump (ws_client.rs) drains it onto a WebSocket, reconnecting when   *)
(* that breaks.  In the server each accepted socket has a task of its own  *)
(* (ws/collector.rs, run_session), which handles frames in order and asks  *)
(* every 30 seconds whether the token is still valid.                      *)
(*                                                                         *)
(* A frame is a number: 0 is a heartbeat, n > 0 the n-th other frame that  *)
(* entered the channel.  What a handled frame does to the rows is the      *)
(* business of SessionRegistry.  Time is abstracted to CheckFallsDue and   *)
(* Wake, so the length of the back-off is left out.  The network between   *)
(* the two is external: it keeps the order of a socket, and when it breaks *)
(* it loses what is in flight.                                             *)
(***************************************************************************)
EXTENDS Naturals, Sequences

CONSTANTS
  Capacity,    \* FRAME_CHANNEL_CAPACITY
  Window,      \* bound: frames in flight on a socket
  MaxFrames,   \* bound: frames other than heartbeats
  MaxFailures  \* bound: failures of the network, the server or the database

ASSUME LinkAssumption ==
  /\ Capacity \in Nat \ {0} /\ Window \in Nat \ {0}
  /\ MaxFrames \in Nat /\ MaxFailures \in Nat

Heartbeat == 0
Frames == 0 .. MaxFrames

(* Sockets are numbered in the order in which the pump opens them; as only a
   failure makes it open another one, it never needs more than these. *)
Sockets == 1 .. MaxFailures + 1

VARIABLES
  channel,      \* the mpsc channel between the producers and the pump
  entered,      \* how many frames other than heartbeats entered it
  pump,         \* where the pump is in its loop
  lastReceived, \* last_received: at most one frame to be replayed
  current,      \* the socket the pump opened last, 0 before the first
  server,       \* per socket: where run_session is
  wire,         \* per socket: frames sent and not yet read
  due,          \* per socket: REVOKE_CHECK_EVERY has elapsed
  revoked,      \* the token's revoked_at is set
  failures,     \* failures so far
  handled,      \* history, per socket: the frames handled, heartbeats aside
  late          \* history, per socket: frames handled while a re-check that
                \* would fail was due

pumpVars == <<channel, entered, pump, lastReceived, current>>
serverVars == <<server, due, handled, late>>
vars == <<pumpVars, serverVars, wire, revoked, failures>>

TypeOK ==
  /\ channel \in Seq(Frames) /\ Len(channel) <= Capacity
  /\ entered \in 0 .. MaxFrames
  /\ pump \in {"connecting", "replaying", "pumping", "sleeping", "stopped"}
  /\ lastReceived \in Seq(Frames) /\ Len(lastReceived) <= 1
  /\ current \in Sockets \union {0}
  /\ pump \in {"replaying", "pumping"} => current # 0
  /\ pump = "replaying" => lastReceived # <<>>
  /\ pump = "pumping" => lastReceived = <<>>
  /\ server \in [Sockets -> {"unused", "reading", "checking", "closed"}]
  /\ wire \in [Sockets -> Seq(Frames)]
  /\ due \in [Sockets -> BOOLEAN]
  /\ revoked \in BOOLEAN
  /\ failures \in 0 .. MaxFailures
  /\ handled \in [Sockets -> Seq(1 .. MaxFrames)]
  /\ late \in [Sockets -> Nat]

-----------------------------------------------------------------------------
Init ==
  /\ channel = <<>> /\ entered = 0
  /\ pump = "connecting" /\ lastReceived = <<>> /\ current = 0
  /\ server = [k \in Sockets |-> "unused"]
  /\ wire = [k \in Sockets |-> <<>>]
  /\ due = [k \in Sockets |-> FALSE]
  /\ revoked = FALSE /\ failures = 0
  /\ handled = [k \in Sockets |-> <<>>]
  /\ late = [k \in Sockets |-> 0]

(* Something the code cannot prevent goes wrong. *)
Fails == failures < MaxFailures /\ failures' = failures + 1

(* The pump holds both ends of the current socket. *)
Attached(k) == pump \in {"replaying", "pumping"} /\ current = k

(* A write to the current socket: one the server has left, or the network has
   cut, swallows it. *)
Transmit(frame) ==
  IF server[current] = "closed"
  THEN UNCHANGED wire
  ELSE /\ Len(wire[current]) < Window
       /\ wire' = [wire EXCEPT ![current] = Append(@, frame)]

(* A write fails: for want of a peer, or for a reason of its own. *)
TransmitFails ==
  \/ server[current] = "closed" /\ UNCHANGED failures
  \/ Fails

-----------------------------------------------------------------------------
(* Mistakes the code avoids, each named after the definition it spoils. *)

(* The channel is unbounded. *)
Enqueue_Unbounded(frame) ==
  /\ pump # "stopped"
  /\ channel' = Append(channel, frame)
  /\ UNCHANGED <<pump, lastReceived, current, serverVars, wire, revoked, failures>>

(* Every message renews last_revoke_check. *)
Handle_Renews(k) ==
  /\ server[k] = "reading" /\ wire[k] # <<>>
  /\ wire' = [wire EXCEPT ![k] = Tail(@)]
  /\ late' = [late EXCEPT ![k] = IF due[k] /\ revoked THEN @ + 1 ELSE @]
  /\ server' = [server EXCEPT ![k] = "checking"]
  /\ due' = [due EXCEPT ![k] = FALSE]
  /\ UNCHANGED <<pumpVars, handled, revoked, failures>>

(* Any failure to connect ends the pump. *)
ConnectFails_Fatal ==
  /\ pump = "connecting" /\ Fails
  /\ pump' = "stopped"
  /\ channel' = <<>> /\ lastReceived' = <<>>
  /\ UNCHANGED <<entered, current, serverVars, wire, revoked>>

(* The new connection starts with an empty buffer. *)
Connect_Forgets(k) ==
  /\ pump = "connecting" /\ k = current + 1 /\ ~revoked
  /\ server' = [server EXCEPT ![k] = "reading"]
  /\ current' = k
  /\ pump' = "pumping" /\ lastReceived' = <<>>
  /\ UNCHANGED <<channel, entered, due, handled, late, wire, revoked, failures>>

(* The buffered frame is cloned, not taken. *)
Replay_Keeps ==
  /\ pump = "replaying"
  /\ Transmit(Head(lastReceived))
  /\ pump' = "pumping"
  /\ UNCHANGED <<channel, entered, lastReceived, current, serverVars, revoked, failures>>

(* A frame that could not be sent goes back to the end of the channel. *)
SendFails_Requeues ==
  /\ pump = "pumping" /\ channel # <<>>
  /\ TransmitFails
  /\ channel' = Append(Tail(channel), Head(channel))
  /\ pump' = "sleeping"
  /\ UNCHANGED <<entered, lastReceived, current, serverVars, wire, revoked>>

-----------------------------------------------------------------------------
(* Producers: `frame_tx.send(frame).await` waits while the channel is full;
   once the pump has dropped the receiver it fails, which they ignore. *)

Enqueue(frame) ==
  /\ pump # "stopped"
  /\ Len(channel) < Capacity
  /\ channel' = Append(channel, frame)
  /\ UNCHANGED <<pump, lastReceived, current, serverVars, wire, revoked, failures>>

(* heartbeat.rs *)
SendHeartbeat == Enqueue(Heartbeat) /\ UNCHANGED entered

(* Session starts, and whatever the tailers' gates let through. *)
SendFrame ==
  /\ entered < MaxFrames
  /\ entered' = entered + 1
  /\ Enqueue(entered + 1)

-----------------------------------------------------------------------------
(* The pump *)

(* The server finds the token and upgrades.  A frame that the previous
   connection failed to send goes first. *)
Connect(k) ==
  /\ pump = "connecting" /\ k = current + 1 /\ ~revoked
  /\ server' = [server EXCEPT ![k] = "reading"]
  /\ current' = k
  /\ pump' = IF lastReceived = <<>> THEN "pumping" ELSE "replaying"
  /\ UNCHANGED <<channel, entered, lastReceived, due, handled, late, wire, revoked, failures>>

(* No server, no network, or a 500 because the token cannot be looked up. *)
ConnectFails ==
  /\ pump = "connecting" /\ Fails
  /\ pump' = "sleeping"
  /\ UNCHANGED <<channel, entered, lastReceived, current, serverVars, wire, revoked>>

(* 401: the pump returns, and the channel and the buffer are dropped. *)
Rejected ==
  /\ pump = "connecting" /\ revoked
  /\ pump' = "stopped"
  /\ channel' = <<>> /\ lastReceived' = <<>>
  /\ UNCHANGED <<entered, current, serverVars, wire, revoked, failures>>

Replay ==
  /\ pump = "replaying"
  /\ Transmit(Head(lastReceived))
  /\ lastReceived' = <<>>
  /\ pump' = "pumping"
  /\ UNCHANGED <<channel, entered, current, serverVars, revoked, failures>>

(* `continue`: the frame is kept and the pump connects again at once. *)
ReplayFails ==
  /\ pump = "replaying"
  /\ TransmitFails
  /\ pump' = "connecting"
  /\ UNCHANGED <<channel, entered, lastReceived, current, serverVars, wire, revoked>>

Send ==
  /\ pump = "pumping" /\ channel # <<>>
  /\ Transmit(Head(channel))
  /\ channel' = Tail(channel)
  /\ UNCHANGED <<entered, pump, lastReceived, current, serverVars, revoked, failures>>

SendFails ==
  /\ pump = "pumping" /\ channel # <<>>
  /\ TransmitFails
  /\ channel' = Tail(channel)
  /\ lastReceived' = <<Head(channel)>>
  /\ pump' = "sleeping"
  /\ UNCHANGED <<entered, current, serverVars, wire, revoked>>

LeaveSocket ==
  /\ pump = "pumping"
  /\ pump' = "sleeping"
  /\ UNCHANGED <<channel, entered, lastReceived, current, serverVars, wire, revoked>>

(* stream.next() yields a close frame, an error or the end of the stream. *)
SeeClosed == LeaveSocket /\ server[current] = "closed" /\ UNCHANGED failures

(* A read error although the server still holds the socket. *)
ReadFails == LeaveSocket /\ Fails

(* The back-off has elapsed. *)
Wake ==
  /\ pump = "sleeping"
  /\ pump' = "connecting"
  /\ UNCHANGED <<channel, entered, lastReceived, current, serverVars, wire, revoked, failures>>

-----------------------------------------------------------------------------
(* The server's side of a socket *)

(* One text message: handle_text, of which only the order matters here. *)
Handle(k) ==
  /\ server[k] = "reading" /\ wire[k] # <<>>
  /\ wire' = [wire EXCEPT ![k] = Tail(@)]
  /\ handled' = [handled EXCEPT ![k] =
                   IF Head(wire[k]) = Heartbeat THEN @ ELSE Append(@, Head(wire[k]))]
  /\ late' = [late EXCEPT ![k] = IF due[k] /\ revoked THEN @ + 1 ELSE @]
  /\ server' = [server EXCEPT ![k] = "checking"]
  /\ UNCHANGED <<pumpVars, due, revoked, failures>>

(* Nothing to check yet, or still_valid says yes. *)
KeepReading(k) ==
  /\ server[k] = "checking"
  /\ due[k] => ~revoked
  /\ server' = [server EXCEPT ![k] = "reading"]
  /\ due' = [due EXCEPT ![k] = FALSE]
  /\ UNCHANGED <<pumpVars, handled, late, wire, revoked, failures>>

CloseSocket(k) ==
  /\ server' = [server EXCEPT ![k] = "closed"]
  /\ wire' = [wire EXCEPT ![k] = <<>>]
  /\ due' = [due EXCEPT ![k] = FALSE]
  /\ UNCHANGED <<pumpVars, handled, late, revoked>>

(* Close code 4401: the token is revoked, or could not be looked up. *)
CloseUnauthorized(k) ==
  /\ server[k] = "checking" /\ due[k]
  /\ \/ revoked /\ UNCHANGED failures
     \/ Fails
  /\ CloseSocket(k)

(* The collector has dropped the socket and everything it sent is read. *)
EndOfStream(k) ==
  /\ server[k] = "reading" /\ wire[k] = <<>> /\ ~Attached(k)
  /\ CloseSocket(k)
  /\ UNCHANGED failures

(* The network or the server itself goes down. *)
Break(k) ==
  /\ server[k] \in {"reading", "checking"}
  /\ Fails
  /\ CloseSocket(k)

(* REVOKE_CHECK_EVERY passes. *)
CheckFallsDue(k) ==
  /\ server[k] \in {"reading", "checking"} /\ ~due[k]
  /\ due' = [due EXCEPT ![k] = TRUE]
  /\ UNCHANGED <<pumpVars, server, handled, late, wire, revoked, failures>>

(* DELETE /api/v1/collectors/:id *)
Revoke ==
  /\ ~revoked
  /\ revoked' = TRUE
  /\ UNCHANGED <<pumpVars, serverVars, wire, failures>>

-----------------------------------------------------------------------------
(* What the pump does when nothing goes wrong. *)
PumpStep ==
  \/ \E k \in Sockets : Connect(k)
  \/ Rejected \/ Replay \/ Send \/ Wake

PumpFault == ConnectFails \/ ReplayFails \/ SendFails \/ ReadFails

(* run_session never waits for anything but its own socket and a query. *)
ServerStep(k) == Handle(k) \/ KeepReading(k) \/ CloseUnauthorized(k)

Next ==
  \/ SendHeartbeat \/ SendFrame
  \/ PumpStep \/ SeeClosed \/ PumpFault
  \/ \E k \in Sockets : ServerStep(k) \/ EndOfStream(k) \/ Break(k) \/ CheckFallsDue(k)
  \/ Revoke

(* Heartbeats come for ever: other frames are finitely many, so a channel that
   is drained has room for a heartbeat in the end, or holds one.  The pump goes
   on, and select! polls the read half as well as the channel; the server's
   tasks go on; time passes.  Nothing obliges the other producers, a person who
   revokes, or a failure. *)
Fairness ==
  /\ WF_vars(SendHeartbeat)
  /\ WF_vars(PumpStep) /\ WF_vars(SeeClosed)
  /\ \A k \in Sockets : WF_vars(ServerStep(k)) /\ WF_vars(CheckFallsDue(k))

Spec == Init /\ [][Next]_vars /\ Fairness

-----------------------------------------------------------------------------
(* Properties *)

(* Frames keep the order in which they entered the channel, whatever was
   buffered and replayed in between: each socket's task handles them in that
   order, and a later socket carries nothing that entered before what an earlier
   one has carried.  (When the two tasks are at work at the same time, the new
   one may be ahead: the server does not wait for the old one.) *)
InOrder ==
  \A k, l \in Sockets : \A i \in DOMAIN handled[k], j \in DOMAIN handled[l] :
    /\ k = l /\ i < j => handled[k][i] < handled[l][j]
    /\ k < l => handled[k][i] <= handled[l][j]

(* A frame reaches the rooms through one socket at most, although a failed
   frame is sent again and the server may still be reading the old socket. *)
HandledOnce ==
  \A k, l \in Sockets : \A i \in DOMAIN handled[k], j \in DOMAIN handled[l] :
    handled[k][i] = handled[l][j] => k = l

(* After the token is revoked and the re-check is due, a socket's task accepts
   one frame and no more: the re-check comes after the frame that finds it due. *)
LateFramesBounded == \A k \in Sockets : late[k] <= 1

Waiting(n) ==
  \/ \E i \in DOMAIN channel : channel[i] = n
  \/ \E i \in DOMAIN lastReceived : lastReceived[i] = n

WasHandled(n) ==
  \E k \in Sockets : \E i \in DOMAIN handled[k] : handled[k][i] = n

(* Failures are over, and the pump is not on a socket that is gone. *)
Calm ==
  /\ failures = MaxFailures
  /\ pump \in {"replaying", "pumping"} => server[current] # "closed"

(* Once failures are over, what waits in the channel or in the replay buffer is
   handled, in whatever state the failures left the pump, unless the token is
   revoked. *)
CalmDelivers ==
  \A n \in 1 .. MaxFrames :
    [](Calm /\ Waiting(n) => <>(WasHandled(n) \/ revoked))

(* When failures are over, the pump ends up on a working socket for good, or,
   if the token is revoked, stopped.  A collector with nothing to say but
   heartbeats stops too: a heartbeat brings about the re-check, the re-check the
   close, and the next attempt the 401. *)
ConnectedOrRejected ==
  \/ <>[](pump = "pumping" /\ server[current] # "closed")
  \/ <>[](pump = "stopped" /\ revoked)

=============================================================================
