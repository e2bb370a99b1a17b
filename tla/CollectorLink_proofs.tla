------------------------ MODULE CollectorLink_proofs ------------------------
(***************************************************************************)
(* Safety of the link, for any capacity, window and number of failures:    *)
(* types, the bound on frames accepted from a revoked token, and the order *)
(* of frames, none of which is handled twice.                              *)
(***************************************************************************)
EXTENDS CollectorLink, TLAPS

-----------------------------------------------------------------------------
(* Types *)

(* What the operations on channels and wires yield. *)
LEMMA SeqTypes ==
  ASSUME NEW S
  PROVE  /\ <<>> \in Seq(S) /\ Len(<<>>) = 0
         /\ \A x \in S : <<x>> \in Seq(S) /\ Len(<<x>>) = 1 /\ <<x>> # <<>>
         /\ \A s \in Seq(S) : \A x \in S : Append(s, x) \in Seq(S) /\ Len(Append(s, x)) = Len(s) + 1
         /\ \A s \in Seq(S) : s # <<>> =>
              Head(s) \in S /\ Tail(s) \in Seq(S) /\ Len(Tail(s)) = Len(s) - 1 /\ Len(s) \in Nat
OBVIOUS

LEMMA PointwiseType ==
  ASSUME NEW D, NEW S, NEW f \in [D -> S], NEW d \in D, NEW x \in S
  PROVE  [f EXCEPT ![d] = x] \in [D -> S]
OBVIOUS

(* A write keeps the wires sequences of frames. *)
LEMMA TransmitType ==
  ASSUME TypeOK, NEW f \in Frames, current \in Sockets, Transmit(f)
  PROVE  wire' \in [Sockets -> Seq(Frames)]
<1>1. wire \in [Sockets -> Seq(Frames)] BY DEF TypeOK
<1>2. Append(wire[current], f) \in Seq(Frames) BY <1>1, SeqTypes
<1>3. CASE UNCHANGED wire BY <1>1, <1>3
<1>4. CASE wire' = [wire EXCEPT ![current] = Append(wire[current], f)]
  BY <1>1, <1>2, <1>4, PointwiseType
<1> QED BY <1>3, <1>4 DEF Transmit

LEMMA EnqueueType ==
  ASSUME TypeOK, NEW f \in Frames, Enqueue(f), entered' \in 0 .. MaxFrames
  PROVE  TypeOK'
<1>1. channel' \in Seq(Frames) /\ Len(channel') = Len(channel) + 1
  BY SeqTypes DEF Enqueue, TypeOK
<1>2. Len(channel) \in Nat /\ Len(channel) < Capacity BY DEF Enqueue, TypeOK
<1>3. Len(channel') <= Capacity BY <1>1, <1>2, LinkAssumption
<1> QED BY <1>1, <1>3 DEF Enqueue, TypeOK, serverVars

(* What the pump takes from the channel. *)
LEMMA TakeType ==
  ASSUME TypeOK, channel # <<>>
  PROVE  /\ Head(channel) \in Frames
         /\ Tail(channel) \in Seq(Frames) /\ Len(Tail(channel)) <= Capacity
BY SeqTypes, LinkAssumption DEF TypeOK

LEMMA CloseType ==
  ASSUME TypeOK, NEW k \in Sockets, CloseSocket(k), failures' \in 0 .. MaxFailures
  PROVE  TypeOK'
<1>1. wire' \in [Sockets -> Seq(Frames)]
  BY SeqTypes, PointwiseType DEF CloseSocket, TypeOK
<1> QED BY <1>1 DEF CloseSocket, TypeOK, pumpVars

LEMMA TypeStep == ASSUME TypeOK, [Next]_vars PROVE TypeOK'
<1> USE LinkAssumption DEF pumpVars, serverVars
<1>1. CASE SendHeartbeat BY <1>1, EnqueueType DEF SendHeartbeat, Heartbeat, Frames, TypeOK
<1>2. CASE SendFrame
  <2>1. entered + 1 \in Frames /\ entered' \in 0 .. MaxFrames BY <1>2 DEF SendFrame, TypeOK, Frames
  <2> QED BY <1>2, <2>1, EnqueueType DEF SendFrame
<1>3. ASSUME NEW k \in Sockets, Connect(k) PROVE TypeOK'
  <2>1. pump' \in {"replaying", "pumping"} /\ current' \in Sockets /\ current' # 0
    BY <1>3 DEF Connect, Sockets
  <2>2. pump' = "replaying" => lastReceived' # <<>> BY <1>3 DEF Connect
  <2>3. pump' = "pumping" => lastReceived' = <<>> BY <1>3 DEF Connect
  <2>4. server' \in [Sockets -> {"unused", "reading", "checking", "closed"}]
    BY <1>3 DEF Connect, TypeOK
  <2> QED BY <1>3, <2>1, <2>2, <2>3, <2>4 DEF Connect, TypeOK
<1>4. CASE Rejected
  <2>1. channel' \in Seq(Frames) /\ Len(channel') <= Capacity
        /\ lastReceived' \in Seq(Frames) /\ Len(lastReceived') <= 1
    BY <1>4, SeqTypes DEF Rejected
  <2> QED BY <1>4, <2>1 DEF Rejected, TypeOK
<1>5. CASE Replay
  <2>1. Head(lastReceived) \in Frames BY <1>5, SeqTypes DEF Replay, TypeOK
  <2>2. current \in Sockets BY <1>5 DEF Replay, TypeOK
  <2>3. wire' \in [Sockets -> Seq(Frames)] BY <1>5, <2>1, <2>2, TransmitType DEF Replay
  <2>4. lastReceived' \in Seq(Frames) /\ Len(lastReceived') <= 1 BY <1>5, SeqTypes DEF Replay
  <2> QED BY <1>5, <2>3, <2>4 DEF Replay, TypeOK
<1>6. CASE Send
  <2>1. current \in Sockets BY <1>6 DEF Send, TypeOK
  <2>2. wire' \in [Sockets -> Seq(Frames)] BY <1>6, <2>1, TakeType, TransmitType DEF Send
  <2> QED BY <1>6, <2>2, TakeType DEF Send, TypeOK
<1>7. CASE Wake BY <1>7 DEF Wake, TypeOK
<1>8. CASE SeeClosed BY <1>8 DEF SeeClosed, LeaveSocket, TypeOK
<1>9. CASE PumpFault
  <2>1. CASE ConnectFails BY <2>1 DEF ConnectFails, Fails, TypeOK
  <2>2. CASE ReplayFails BY <2>2 DEF ReplayFails, TransmitFails, Fails, TypeOK
  <2>3. CASE SendFails
    <3>1. lastReceived' \in Seq(Frames) /\ Len(lastReceived') <= 1
      BY <2>3, TakeType, SeqTypes DEF SendFails
    <3>2. failures' \in 0 .. MaxFailures BY <2>3 DEF SendFails, TransmitFails, Fails, TypeOK
    <3> QED BY <2>3, <3>1, <3>2, TakeType DEF SendFails, TypeOK
  <2>4. CASE ReadFails BY <2>4 DEF ReadFails, LeaveSocket, Fails, TypeOK
  <2> QED BY <1>9, <2>1, <2>2, <2>3, <2>4 DEF PumpFault
<1>10. ASSUME NEW k \in Sockets, Handle(k) PROVE TypeOK'
  <2>1. wire[k] \in Seq(Frames) /\ wire[k] # <<>> BY <1>10 DEF Handle, TypeOK
  <2>2. Head(wire[k]) \in Frames /\ Tail(wire[k]) \in Seq(Frames) BY <2>1, SeqTypes
  <2>3. wire' \in [Sockets -> Seq(Frames)] BY <1>10, <2>2, PointwiseType DEF Handle, TypeOK
  <2>4. Head(wire[k]) # Heartbeat => Head(wire[k]) \in 1 .. MaxFrames
    BY <2>2 DEF Frames, Heartbeat
  <2>5. (IF Head(wire[k]) = Heartbeat THEN handled[k] ELSE Append(handled[k], Head(wire[k])))
          \in Seq(1 .. MaxFrames)
    BY <2>4, SeqTypes DEF TypeOK
  <2>6. handled' \in [Sockets -> Seq(1 .. MaxFrames)]
    BY <1>10, <2>5, PointwiseType DEF Handle, TypeOK
  <2>7. late' \in [Sockets -> Nat] BY <1>10 DEF Handle, TypeOK
  <2> QED BY <1>10, <2>3, <2>6, <2>7 DEF Handle, TypeOK
<1>11. ASSUME NEW k \in Sockets, KeepReading(k) PROVE TypeOK' BY <1>11 DEF KeepReading, TypeOK
<1>12. ASSUME NEW k \in Sockets, CloseUnauthorized(k) PROVE TypeOK'
  <2>1. failures' \in 0 .. MaxFailures BY <1>12 DEF CloseUnauthorized, Fails, TypeOK
  <2> QED BY <1>12, <2>1, CloseType DEF CloseUnauthorized
<1>13. ASSUME NEW k \in Sockets, EndOfStream(k) PROVE TypeOK'
  BY <1>13, CloseType DEF EndOfStream, TypeOK
<1>14. ASSUME NEW k \in Sockets, Break(k) PROVE TypeOK'
  <2>1. failures' \in 0 .. MaxFailures BY <1>14 DEF Break, Fails, TypeOK
  <2> QED BY <1>14, <2>1, CloseType DEF Break
<1>15. ASSUME NEW k \in Sockets, CheckFallsDue(k) PROVE TypeOK' BY <1>15 DEF CheckFallsDue, TypeOK
<1>16. CASE Revoke BY <1>16 DEF Revoke, TypeOK
<1>17. CASE UNCHANGED vars BY <1>17 DEF vars, TypeOK
<1> QED
  BY <1>1, <1>2, <1>3, <1>4, <1>5, <1>6, <1>7, <1>8, <1>9, <1>10, <1>11, <1>12,
     <1>13, <1>14, <1>15, <1>16, <1>17 DEF Next, PumpStep, ServerStep

(* The variables of the pump and of the server's tasks keep their types; in
   particular the channel never exceeds its capacity and the pump never
   overwrites a frame it has buffered. *)
THEOREM TypeCorrect == Spec => []TypeOK
<1>1. ASSUME Init PROVE TypeOK
  <2>1. \A S : <<>> \in Seq(S) /\ Len(<<>>) = 0 BY SeqTypes
  <2>2. 0 \in 0 .. Capacity /\ 0 \in 0 .. MaxFrames /\ 0 \in 0 .. MaxFailures BY LinkAssumption
  <2>3. channel \in Seq(Frames) /\ Len(channel) <= Capacity
        /\ lastReceived \in Seq(Frames) /\ Len(lastReceived) <= 1
    BY <1>1, <2>1, <2>2 DEF Init
  <2>4. wire \in [Sockets -> Seq(Frames)] /\ handled \in [Sockets -> Seq(1 .. MaxFrames)]
    BY <1>1, <2>1 DEF Init
  <2>5. /\ server \in [Sockets -> {"unused", "reading", "checking", "closed"}]
        /\ due \in [Sockets -> BOOLEAN] /\ late \in [Sockets -> Nat]
    BY <1>1 DEF Init
  <2> QED BY <1>1, <2>2, <2>3, <2>4, <2>5 DEF Init, TypeOK
<1> QED BY <1>1, TypeStep, PTL DEF Spec

-----------------------------------------------------------------------------
(* Revocation *)

(* A late frame has just been handled, and the re-check will close the socket,
   or has closed it; sockets not yet opened have no task. *)
LateInv ==
  \A k \in Sockets :
    /\ k > current => server[k] = "unused"
    /\ \/ late[k] = 0
       \/ late[k] = 1 /\ server[k] = "closed"
       \/ late[k] = 1 /\ server[k] = "checking" /\ due[k] /\ revoked

LEMMA LateStep == ASSUME TypeOK, LateInv, [Next]_vars PROVE LateInv'
<1> USE DEF pumpVars, serverVars
<1>1. CASE UNCHANGED <<server, due, late, current>> /\ (revoked => revoked')
  BY <1>1 DEF LateInv
<1>2. ASSUME NEW k \in Sockets, Connect(k) PROVE LateInv'
  <2>1. \A l \in Sockets : l > current' => l > current /\ l # k
    BY <1>2 DEF Connect, TypeOK, Sockets
  <2>2. late[k] = 0 BY <1>2 DEF Connect, LateInv, TypeOK, Sockets
  <2> QED BY <1>2, <2>1, <2>2 DEF Connect, LateInv, TypeOK
<1>3. ASSUME NEW k \in Sockets, Handle(k) PROVE LateInv'
  BY <1>3 DEF Handle, LateInv, TypeOK
<1>4. ASSUME NEW k \in Sockets, KeepReading(k) PROVE LateInv'
  BY <1>4 DEF KeepReading, LateInv, TypeOK
<1>5. ASSUME NEW k \in Sockets, CloseSocket(k), server[k] # "unused" PROVE LateInv'
  BY <1>5 DEF CloseSocket, LateInv, TypeOK
<1>6. ASSUME NEW k \in Sockets, CheckFallsDue(k) PROVE LateInv'
  BY <1>6 DEF CheckFallsDue, LateInv, TypeOK
<1>7. CASE SendHeartbeat \/ SendFrame BY <1>1, <1>7 DEF SendHeartbeat, SendFrame, Enqueue
<1>8. CASE Rejected \/ Replay \/ Send \/ Wake \/ SeeClosed \/ PumpFault
  BY <1>1, <1>8 DEF Rejected, Replay, Send, Wake, SeeClosed, PumpFault, ConnectFails,
                    ReplayFails, SendFails, ReadFails, LeaveSocket
<1>9. CASE Revoke BY <1>1, <1>9 DEF Revoke
<1>10. CASE UNCHANGED vars BY <1>1, <1>10 DEF vars
<1> QED
  BY <1>2, <1>3, <1>4, <1>5, <1>6, <1>7, <1>8, <1>9, <1>10
  DEF Next, PumpStep, ServerStep, CloseUnauthorized, EndOfStream, Break

(* After a revocation, once the re-check is due, run_session accepts at most
   one frame. *)
THEOREM RevocationBound == Spec => []LateFramesBounded
<1>1. Init => LateInv BY DEF Init, LateInv
<1>2. LateInv => LateFramesBounded BY DEF LateInv, LateFramesBounded
<1> QED BY <1>1, <1>2, LateStep, TypeCorrect, PTL DEF Spec

-----------------------------------------------------------------------------
(* Order *)

(* The frames of a sequence, heartbeats aside, and what it is for them to be
   increasing, or to come before others. *)
Numbers(s) == {s[i] : i \in DOMAIN s} \ {Heartbeat}
Increasing(s) ==
  \A i, j \in DOMAIN s : i < j /\ s[i] # Heartbeat /\ s[j] # Heartbeat => s[i] < s[j]
Before(S, T) == \A m \in S, n \in T : m < n

LEMMA NumbersOfAppend ==
  ASSUME NEW s \in Seq(Nat), NEW x \in Nat
  PROVE  Numbers(Append(s, x)) = Numbers(s) \union ({x} \ {Heartbeat})
<1>1. DOMAIN Append(s, x) = DOMAIN s \union {Len(s) + 1} OBVIOUS
<1>2. \A i \in DOMAIN s : Append(s, x)[i] = s[i] OBVIOUS
<1>3. Append(s, x)[Len(s) + 1] = x OBVIOUS
<1> QED BY <1>1, <1>2, <1>3 DEF Numbers

LEMMA AppendIncreases ==
  ASSUME NEW s \in Seq(Nat), NEW x \in Nat, Increasing(s), Before(Numbers(s), {x} \ {Heartbeat})
  PROVE  Increasing(Append(s, x))
<1> SUFFICES ASSUME NEW i \in DOMAIN Append(s, x), NEW j \in DOMAIN Append(s, x),
                    i < j, Append(s, x)[i] # Heartbeat, Append(s, x)[j] # Heartbeat
             PROVE  Append(s, x)[i] < Append(s, x)[j]
  BY DEF Increasing
<1>1. i \in DOMAIN s /\ Append(s, x)[i] = s[i] OBVIOUS
<1>2. s[i] \in Numbers(s) BY <1>1 DEF Numbers
<1>3. CASE j \in DOMAIN s
  <2>1. Append(s, x)[j] = s[j] BY <1>3
  <2> QED BY <1>1, <1>3, <2>1 DEF Increasing
<1>4. CASE j = Len(s) + 1
  <2>1. Append(s, x)[j] = x BY <1>4
  <2> QED BY <1>1, <1>2, <2>1 DEF Before
<1> QED BY <1>3, <1>4

LEMMA TailKeepsOrder ==
  ASSUME NEW s \in Seq(Nat), s # <<>>, Increasing(s)
  PROVE  /\ Increasing(Tail(s))
         /\ Numbers(s) = Numbers(Tail(s)) \union ({Head(s)} \ {Heartbeat})
         /\ Before({Head(s)} \ {Heartbeat}, Numbers(Tail(s)))
<1>1. /\ 1 \in DOMAIN s /\ Head(s) = s[1]
      /\ \A i \in DOMAIN Tail(s) : i + 1 \in DOMAIN s /\ i \in Nat /\ i >= 1 /\ Tail(s)[i] = s[i + 1]
      /\ \A i \in DOMAIN s : i # 1 => i - 1 \in DOMAIN Tail(s) /\ Tail(s)[i - 1] = s[i]
  OBVIOUS
<1>2. Increasing(Tail(s))
  <2> SUFFICES ASSUME NEW i \in DOMAIN Tail(s), NEW j \in DOMAIN Tail(s),
                      i < j, Tail(s)[i] # Heartbeat, Tail(s)[j] # Heartbeat
               PROVE  Tail(s)[i] < Tail(s)[j]
    BY DEF Increasing
  <2>1. i + 1 < j + 1 BY <1>1
  <2> QED BY <1>1, <2>1 DEF Increasing
<1>3. Numbers(s) = Numbers(Tail(s)) \union ({Head(s)} \ {Heartbeat})
  <2>1. ASSUME NEW i \in DOMAIN s
        PROVE  s[i] = Head(s) \/ \E j \in DOMAIN Tail(s) : Tail(s)[j] = s[i]
    BY <1>1
  <2>2. ASSUME NEW j \in DOMAIN Tail(s) PROVE \E i \in DOMAIN s : s[i] = Tail(s)[j]
    BY <1>1
  <2>3. \E i \in DOMAIN s : s[i] = Head(s) BY <1>1
  <2> QED BY <2>1, <2>2, <2>3 DEF Numbers
<1>4. Before({Head(s)} \ {Heartbeat}, Numbers(Tail(s)))
  <2> SUFFICES ASSUME Head(s) # Heartbeat, NEW i \in DOMAIN Tail(s), Tail(s)[i] # Heartbeat
               PROVE  Head(s) < Tail(s)[i]
    BY DEF Before, Numbers
  <2>1. 1 < i + 1 BY <1>1
  <2> QED BY <1>1, <2>1 DEF Increasing
<1> QED BY <1>2, <1>3, <1>4

LEMMA SingletonSeq ==
  ASSUME NEW S, NEW s \in Seq(S), s # <<>>, Len(s) <= 1
  PROVE  s = <<Head(s)>> /\ Head(s) \in S
<1>1. Tail(s) \in Seq(S) /\ Len(Tail(s)) = Len(s) - 1 /\ Len(s) \in Nat BY SeqTypes
<1>2. Len(Tail(s)) \in Nat BY <1>1
<1>3. Len(s) = 1 BY <1>1, <1>2
<1> QED BY <1>3

LEMMA NumbersOfFew ==
  /\ Numbers(<<>>) = {} /\ Increasing(<<>>)
  /\ \A x \in Nat : Numbers(<<x>>) = {x} \ {Heartbeat} /\ Increasing(<<x>>)
BY DEF Numbers, Increasing

(* What a socket's task has been sent, and what the pump has still to send. *)
Sent(k) == Numbers(handled[k]) \union Numbers(wire[k])
Pending == Numbers(lastReceived) \union Numbers(channel)

(* Everything sent, on whatever socket, entered the channel before what was sent
   on a later one and before the frame that waits to be replayed, and that one
   before what is in the channel. *)
OrderInv ==
  /\ \A k \in Sockets :
       /\ Increasing(handled[k]) /\ Increasing(wire[k])
       /\ Before(Numbers(handled[k]), Numbers(wire[k]))
       /\ Before(Sent(k), Pending)
       /\ \A n \in Sent(k) : n <= entered
       /\ \A l \in Sockets : k < l => Before(Sent(k), Sent(l))
       /\ k > current => Sent(k) = {}
  /\ Increasing(channel)
  /\ Before(Numbers(lastReceived), Numbers(channel))
  /\ \A n \in Pending : n <= entered

LEMMA NumbersAreNat == ASSUME NEW s \in Seq(Nat) PROVE Numbers(s) \subseteq Nat
BY DEF Numbers

LEMMA SeqIsMonotone ==
  ASSUME NEW S, NEW T, S \subseteq T, NEW s \in Seq(S)
  PROVE  s \in Seq(T)
<1>1. s \in [1 .. Len(s) -> T] /\ Len(s) \in Nat OBVIOUS
<1> QED BY <1>1

LEMMA FramesAreNat ==
  ASSUME TypeOK
  PROVE  /\ Frames \subseteq Nat /\ entered \in Nat
         /\ channel \in Seq(Nat) /\ lastReceived \in Seq(Nat)
         /\ \A k \in Sockets : wire[k] \in Seq(Nat) /\ handled[k] \in Seq(Nat)
<1>1. Frames \subseteq Nat /\ (1 .. MaxFrames) \subseteq Nat BY LinkAssumption DEF Frames
<1>2. Seq(Frames) \subseteq Seq(Nat) /\ Seq(1 .. MaxFrames) \subseteq Seq(Nat)
  BY <1>1, SeqIsMonotone
<1>3. entered \in Nat BY LinkAssumption DEF TypeOK
<1> QED BY <1>1, <1>2, <1>3 DEF TypeOK

LEMMA SocketsAreNat ==
  ASSUME TypeOK
  PROVE  Sockets \subseteq Nat /\ current \in Nat
BY LinkAssumption DEF TypeOK, Sockets

(* Frames may disappear anywhere but from what was handled. *)
LEMMA LossKeepsOrder ==
  ASSUME OrderInv, TypeOK, UNCHANGED <<handled, entered>>, current' \in Nat, current <= current',
         \A k \in Sockets : Increasing(wire'[k]) /\ Numbers(wire'[k]) \subseteq Numbers(wire[k]),
         Pending' \subseteq Pending,
         Increasing(channel'), Before(Numbers(lastReceived'), Numbers(channel'))
  PROVE  OrderInv'
<1>1. \A k \in Sockets : Sent(k)' \subseteq Sent(k) BY DEF Sent
<1>2. \A k \in Sockets : Before(Numbers(handled'[k]), Numbers(wire'[k])) BY DEF OrderInv, Before
<1>3. \A k \in Sockets : Before(Sent(k)', Pending') BY <1>1 DEF OrderInv, Before
<1>4. \A k \in Sockets : \A n \in Sent(k)' : n <= entered' BY <1>1 DEF OrderInv
<1>5. \A k, l \in Sockets : k < l => Before(Sent(k)', Sent(l)') BY <1>1 DEF OrderInv, Before
<1>8. \A k \in Sockets : k > current' => Sent(k)' = {}
  <2>1. \A k \in Sockets : k > current' => k > current
    BY SocketsAreNat
  <2> QED BY <1>1, <2>1 DEF OrderInv
<1>6. \A n \in Pending' : n <= entered' BY DEF OrderInv
<1>7. \A k \in Sockets : Increasing(handled'[k]) BY DEF OrderInv
<1> QED BY <1>2, <1>3, <1>4, <1>5, <1>6, <1>7, <1>8 DEF OrderInv

(* A pending frame that is sent comes after all that was sent before. *)
LEMMA TransmitKeepsOrder ==
  ASSUME TypeOK, OrderInv, UNCHANGED <<handled, entered, current>>,
         NEW f \in Frames, current \in Sockets, Transmit(f),
         {f} \ {Heartbeat} \subseteq Pending, Pending' \subseteq Pending,
         Before({f} \ {Heartbeat}, Pending'),
         Increasing(channel'), Before(Numbers(lastReceived'), Numbers(channel'))
  PROVE  OrderInv'
<1>1. CASE UNCHANGED wire BY <1>1, SocketsAreNat, LossKeepsOrder DEF OrderInv
<1>2. CASE wire' = [wire EXCEPT ![current] = Append(wire[current], f)]
  <2> DEFINE F == {f} \ {Heartbeat}
  <2>1. f \in Nat /\ wire[current] \in Seq(Nat) BY FramesAreNat
  <2>2. /\ wire'[current] = Append(wire[current], f)
        /\ \A k \in Sockets : k # current => wire'[k] = wire[k]
    BY <1>2 DEF TypeOK
  <2>3. Numbers(wire'[current]) = Numbers(wire[current]) \union F
    BY <2>1, <2>2, NumbersOfAppend
  <2>4. \A k \in Sockets : Before(Sent(k), F) BY DEF OrderInv, Before
  <2>5. Increasing(wire'[current])
    BY <2>1, <2>2, <2>4, AppendIncreases DEF OrderInv, Sent, Before
  <2>6. Sent(current)' = Sent(current) \union F BY <2>3 DEF Sent
  <2>7. \A k \in Sockets : k # current => Sent(k)' = Sent(k) BY <2>2 DEF Sent
  <2>8. \A k \in Sockets : Before(Sent(k)', Pending')
    BY <2>6, <2>7 DEF OrderInv, Before
  <2>9. \A k \in Sockets : \A n \in Sent(k)' : n <= entered'
    BY <2>6, <2>7 DEF OrderInv
  <2>10. \A k \in Sockets : k > current' => Sent(k)' = {}
    BY <2>7, SocketsAreNat DEF OrderInv
  <2>11. ASSUME NEW k \in Sockets, NEW l \in Sockets, k < l
         PROVE  Before(Sent(k)', Sent(l)')
    <3>1. Before(Sent(k), Sent(l)) /\ Before(Sent(k), F)
      BY <2>4, <2>11 DEF OrderInv
    <3>2. CASE k = current
      <4>1. l > current BY <2>11, <3>2
      <4>2. Sent(l)' = {} BY <2>10, <4>1
      <4> QED BY <4>2 DEF Before
    <3>3. CASE k # current
      BY <2>6, <2>7, <3>1, <3>3 DEF Before
    <3> QED BY <3>2, <3>3
  <2>12. \A k \in Sockets : Increasing(handled'[k]) /\ Increasing(wire'[k])
                            /\ Before(Numbers(handled'[k]), Numbers(wire'[k]))
    <3>1. Before(Numbers(handled[current]), F) BY <2>4 DEF Before, Sent
    <3>2. Before(Numbers(handled'[current]), Numbers(wire'[current]))
      BY <2>3, <3>1 DEF OrderInv, Before
    <3> QED BY <2>2, <2>5, <3>2 DEF OrderInv
  <2>13. \A n \in Pending' : n <= entered' BY DEF OrderInv
  <2> QED BY <2>8, <2>9, <2>10, <2>11, <2>12, <2>13 DEF OrderInv
<1> QED BY <1>1, <1>2 DEF Transmit

LEMMA EnqueueKeepsOrder ==
  ASSUME TypeOK, OrderInv, NEW f \in Nat, Enqueue(f), entered' \in Nat, entered <= entered',
         f # Heartbeat => entered < f /\ f <= entered'
  PROVE  OrderInv'
<1> DEFINE F == {f} \ {Heartbeat}
<1>1. channel' = Append(channel, f) /\ UNCHANGED <<handled, wire, lastReceived, current>>
  BY DEF Enqueue, serverVars
<1>2. Numbers(channel') = Numbers(channel) \union F BY <1>1, FramesAreNat, NumbersOfAppend
<1>3. Numbers(channel) \subseteq Nat /\ Numbers(lastReceived) \subseteq Nat
      /\ \A k \in Sockets : Sent(k) \subseteq Nat
  BY FramesAreNat, NumbersAreNat DEF Sent
<1>4. \A n \in Nat, m \in F : n <= entered => n < m BY FramesAreNat
<1>5. Before(Pending, F) BY <1>3, <1>4 DEF OrderInv, Pending, Before
<1>6. \A k \in Sockets : Before(Sent(k), F) BY <1>3, <1>4 DEF OrderInv, Before
<1>7. Increasing(channel')
  BY <1>1, <1>5, FramesAreNat, AppendIncreases DEF OrderInv, Pending, Before
<1>8. Pending' = Pending \union F BY <1>1, <1>2 DEF Pending
<1>9. Before(Numbers(lastReceived'), Numbers(channel'))
  BY <1>1, <1>2, <1>5 DEF OrderInv, Pending, Before
<1>10. \A k \in Sockets : Sent(k)' = Sent(k) BY <1>1 DEF Sent
<1>11. \A k \in Sockets : Before(Sent(k)', Pending') BY <1>6, <1>8, <1>10 DEF OrderInv, Before
<1>12. \A n \in Nat : n <= entered => n <= entered' BY FramesAreNat
<1>13. \A k \in Sockets : \A n \in Sent(k)' : n <= entered'
  BY <1>3, <1>10, <1>12 DEF OrderInv
<1>14. \A n \in Pending' : n <= entered' BY <1>3, <1>8, <1>12 DEF OrderInv, Pending
<1> QED BY <1>1, <1>7, <1>9, <1>10, <1>11, <1>13, <1>14 DEF OrderInv

(* A frame moves from the wire to what was handled. *)
LEMMA HandleKeepsOrder ==
  ASSUME TypeOK, OrderInv, NEW k \in Sockets, Handle(k)
  PROVE  OrderInv'
<1> DEFINE h == Head(wire[k])
           H == {h} \ {Heartbeat}
<1>1. wire[k] \in Seq(Nat) /\ wire[k] # <<>> /\ handled[k] \in Seq(Nat) /\ h \in Nat
  BY FramesAreNat DEF Handle
<1>2. /\ wire'[k] = Tail(wire[k])
      /\ handled'[k] = IF h = Heartbeat THEN handled[k] ELSE Append(handled[k], h)
      /\ \A l \in Sockets : l # k => wire'[l] = wire[l] /\ handled'[l] = handled[l]
      /\ UNCHANGED <<entered, channel, lastReceived, current>>
  BY DEF Handle, TypeOK, pumpVars
<1>3. /\ Increasing(wire'[k])
      /\ Numbers(wire[k]) = Numbers(wire'[k]) \union H
      /\ Before(H, Numbers(wire'[k]))
  BY <1>1, <1>2, TailKeepsOrder DEF OrderInv
<1>4. Numbers(handled'[k]) = Numbers(handled[k]) \union H
  BY <1>1, <1>2, NumbersOfAppend
<1>5. Before(Numbers(handled[k]), H) BY <1>3 DEF OrderInv, Before
<1>6. Increasing(handled'[k])
  BY <1>1, <1>2, <1>5, AppendIncreases DEF OrderInv
<1>7. Before(Numbers(handled'[k]), Numbers(wire'[k]))
  BY <1>3, <1>4 DEF OrderInv, Before
<1>8. \A l \in Sockets : Sent(l)' = Sent(l) BY <1>2, <1>3, <1>4 DEF Sent
<1>9. Pending' = Pending BY <1>2 DEF Pending
<1> QED BY <1>2, <1>3, <1>6, <1>7, <1>8, <1>9 DEF OrderInv

LEMMA OrderStep == ASSUME TypeOK, OrderInv, [Next]_vars PROVE OrderInv'
<1> USE DEF pumpVars, serverVars
<1>0. current \in Nat BY SocketsAreNat
<1>1. CASE UNCHANGED <<channel, lastReceived, entered, wire, handled>>
           /\ current' \in Nat /\ current <= current'
  BY <1>1, LossKeepsOrder DEF OrderInv, Pending
<1>2. CASE SendHeartbeat
  BY <1>2, FramesAreNat, EnqueueKeepsOrder DEF SendHeartbeat, Heartbeat
<1>3. CASE SendFrame
  <2>1. entered \in Nat /\ entered' = entered + 1 BY <1>3, FramesAreNat DEF SendFrame
  <2> QED BY <1>3, <2>1, EnqueueKeepsOrder DEF SendFrame
<1>4. CASE Rejected
  <2>1. Pending' = {} /\ Increasing(channel') /\ Numbers(lastReceived') = {}
    BY <1>4, NumbersOfFew DEF Rejected, Pending
  <2> QED BY <1>0, <1>4, <2>1, LossKeepsOrder DEF Rejected, OrderInv, Before
<1>5. CASE Replay
  <2> DEFINE f == Head(lastReceived)
  <2>0. lastReceived \in Seq(Frames) /\ lastReceived # <<>> /\ Len(lastReceived) <= 1
    BY <1>5 DEF Replay, TypeOK
  <2>1. lastReceived = <<f>> /\ f \in Frames
    BY <2>0, SingletonSeq
  <2>6. current \in Sockets BY <1>5 DEF Replay, TypeOK
  <2>2. f \in Nat BY <2>1, FramesAreNat
  <2>3. Numbers(lastReceived) = {f} \ {Heartbeat} BY <2>1, <2>2, NumbersOfFew
  <2>4. Numbers(lastReceived') = {} BY <1>5, NumbersOfFew DEF Replay
  <2>5. Pending' = Numbers(channel) BY <1>5, <2>4 DEF Replay, Pending
  <2> QED
    BY <1>5, <2>1, <2>6, <2>3, <2>4, <2>5, TransmitKeepsOrder
    DEF Replay, OrderInv, Pending, Before
<1>6. ASSUME channel # <<>>, channel' = Tail(channel)
      PROVE  /\ Head(channel) \in Frames /\ Head(channel) \in Nat
             /\ Increasing(channel') /\ Numbers(channel') \subseteq Numbers(channel)
             /\ {Head(channel)} \ {Heartbeat} \subseteq Numbers(channel)
             /\ Before({Head(channel)} \ {Heartbeat}, Numbers(channel'))
  BY <1>6, FramesAreNat, TakeType, TailKeepsOrder DEF OrderInv
<1>7. CASE Send
  <2>1. lastReceived = <<>> /\ current \in Sockets BY <1>7 DEF Send, TypeOK
  <2>2. Pending = Numbers(channel) /\ Pending' = Numbers(channel') /\ Numbers(lastReceived') = {}
    BY <1>7, <2>1, NumbersOfFew DEF Send, Pending
  <2> QED
    BY <1>6, <1>7, <2>1, <2>2, TransmitKeepsOrder DEF Send, Before
<1>8. CASE SendFails
  <2>1. Numbers(lastReceived') = {Head(channel)} \ {Heartbeat}
    BY <1>6, <1>8, NumbersOfFew DEF SendFails
  <2>2. Pending' \subseteq Pending BY <1>6, <1>8, <2>1 DEF SendFails, Pending
  <2>3. UNCHANGED <<handled, entered, wire>> /\ current' = current
    BY <1>8 DEF SendFails
  <2>4. current' \in Nat /\ current <= current' BY <1>0, <2>3
  <2>5. Increasing(channel') /\ Before(Numbers(lastReceived'), Numbers(channel'))
    BY <1>6, <1>8, <2>1 DEF SendFails
  <2> QED
    BY <2>2, <2>3, <2>4, <2>5, LossKeepsOrder DEF OrderInv
<1>9. ASSUME NEW k \in Sockets, CloseSocket(k) PROVE OrderInv'
  <2>1. \A l \in Sockets : wire'[l] = <<>> \/ wire'[l] = wire[l]
    BY <1>9 DEF CloseSocket, TypeOK
  <2>2. \A l \in Sockets : Increasing(wire'[l]) /\ Numbers(wire'[l]) \subseteq Numbers(wire[l])
    BY <2>1, NumbersOfFew DEF OrderInv
  <2>3. UNCHANGED <<handled, entered, channel, lastReceived>> /\ current' = current
    BY <1>9 DEF CloseSocket
  <2>4. current' \in Nat /\ current <= current' BY <1>0, <2>3
  <2>5. Pending' = Pending BY <2>3 DEF Pending
  <2>6. Increasing(channel') /\ Before(Numbers(lastReceived'), Numbers(channel'))
    BY <2>3 DEF OrderInv
  <2> QED BY <2>2, <2>3, <2>4, <2>5, <2>6, LossKeepsOrder
<1>10. ASSUME NEW k \in Sockets, Handle(k) PROVE OrderInv' BY <1>10, HandleKeepsOrder
<1>11. ASSUME NEW k \in Sockets, Connect(k) \/ KeepReading(k) \/ CheckFallsDue(k)
       PROVE  OrderInv'
  <2>1. current' \in {current, current + 1}
    BY <1>11 DEF Connect, KeepReading, CheckFallsDue
  <2>2. current' \in Nat /\ current <= current' BY <1>0, <2>1
  <2>3. UNCHANGED <<channel, lastReceived, entered, wire, handled>>
    BY <1>11 DEF Connect, KeepReading, CheckFallsDue
  <2> QED BY <1>1, <2>2, <2>3
<1>12. CASE Wake \/ SeeClosed \/ ConnectFails \/ ReplayFails \/ ReadFails \/ Revoke
  BY <1>0, <1>1, <1>12 DEF Wake, SeeClosed, ConnectFails, ReplayFails, ReadFails, LeaveSocket, Revoke
<1>13. CASE UNCHANGED vars BY <1>0, <1>1, <1>13 DEF vars
<1> QED
  BY <1>2, <1>3, <1>4, <1>5, <1>7, <1>8, <1>9, <1>10, <1>11, <1>12, <1>13
  DEF Next, PumpStep, PumpFault, ServerStep, CloseUnauthorized, EndOfStream, Break

LEMMA OrderHolds == Spec => []OrderInv
<1>1. Init => OrderInv
  BY NumbersOfFew DEF Init, OrderInv, Sent, Pending, Before
<1> QED BY <1>1, OrderStep, TypeCorrect, PTL DEF Spec

LEMMA ElementType ==
  ASSUME NEW S, NEW s \in Seq(S), NEW i \in DOMAIN s
  PROVE  s[i] \in S
OBVIOUS

LEMMA HandledAreNumbers ==
  ASSUME TypeOK, NEW k \in Sockets, NEW i \in DOMAIN handled[k]
  PROVE  handled[k][i] # Heartbeat /\ handled[k][i] \in Numbers(handled[k])
<1>1. handled[k] \in Seq(1 .. MaxFrames) BY DEF TypeOK
<1>2. handled[k][i] \in 1 .. MaxFrames BY <1>1, ElementType
<1>3. handled[k][i] # Heartbeat BY <1>2, LinkAssumption DEF Heartbeat
<1> QED BY <1>3 DEF Numbers

(* Each task handles frames in the order in which they entered the channel, and
   no socket carries a frame that entered before one of an earlier socket. *)
THEOREM FramesInOrder == Spec => []InOrder
<1>1. TypeOK /\ OrderInv => InOrder
  <2> SUFFICES ASSUME TypeOK, OrderInv, NEW k \in Sockets, NEW l \in Sockets,
                      NEW i \in DOMAIN handled[k], NEW j \in DOMAIN handled[l]
               PROVE  /\ k = l /\ i < j => handled[k][i] < handled[l][j]
                      /\ k < l => handled[k][i] <= handled[l][j]
    BY DEF InOrder
  <2>1. k = l /\ i < j => handled[k][i] < handled[l][j]
    BY HandledAreNumbers DEF OrderInv, Increasing
  <2>2. ASSUME k < l PROVE handled[k][i] <= handled[l][j]
    <3>1. handled[k][i] \in Sent(k) /\ handled[l][j] \in Sent(l)
      BY HandledAreNumbers DEF Sent
    <3>2. handled[k][i] < handled[l][j]
      BY <2>2, <3>1 DEF OrderInv, Before
    <3>3. handled[k][i] \in Nat /\ handled[l][j] \in Nat
      BY FramesAreNat, ElementType
    <3> QED BY <3>2, <3>3
  <2> QED BY <2>1, <2>2
<1> QED BY <1>1, TypeCorrect, OrderHolds, PTL

(* No frame is handled on two sockets, although frames are sent again and old
   sockets are still being read. *)
THEOREM FramesHandledOnce == Spec => []HandledOnce
<1>1. TypeOK /\ OrderInv => HandledOnce
  <2> SUFFICES ASSUME TypeOK, OrderInv, NEW k \in Sockets, NEW l \in Sockets, k # l,
                      NEW i \in DOMAIN handled[k], NEW j \in DOMAIN handled[l],
                      handled[k][i] = handled[l][j]
               PROVE  FALSE
    BY DEF HandledOnce
  <2>1. handled[k][i] \in Sent(k) /\ handled[l][j] \in Sent(l) /\ handled[k][i] \in Nat
    BY HandledAreNumbers, FramesAreNat, ElementType DEF Sent
  <2>2. k < l \/ l < k
    BY SocketsAreNat
  <2>3. handled[k][i] < handled[k][i]
    BY <2>1, <2>2 DEF OrderInv, Before
  <2> QED BY <2>1, <2>3
<1> QED BY <1>1, TypeCorrect, OrderHolds, PTL
=============================================================================
