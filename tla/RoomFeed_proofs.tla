--------------------------- MODULE RoomFeed_proofs ---------------------------
(***************************************************************************)
(* Theorems about RoomFeed: its types, and that it implements RoomLog, for *)
(* rooms, pages, buffers and wires of any size, any number of reconnects   *)
(* and all its faults.                                                     *)
(***************************************************************************)
EXTENDS RoomFeed, TLAPS

(* Follows of RoomLog, of a room that has dropped the frames up to l. *)
NoGap(l, a, b) == a < b /\ (b = a + 1 \/ b <= l + 1)

(* Asking for the frames after c is as good as asking for those after a. *)
Near(l, a, c) == c = a \/ (a <= c /\ c <= l)

(* Events w that come after x: each frame follows what is before it. *)
Linked(l, w, x) ==
  \A i \in 1 .. Len(w) :
    w[i] # Reset => NoGap(l, IF i = 1 THEN x ELSE w[i - 1], w[i])

(* What the page will have shown last when it has received w. *)
Tip(w, x) == IF w = <<>> THEN x ELSE w[Len(w)]

WireInv ==
  /\ Linked(lo, wire, last)
  /\ \A i \in 1 .. Len(wire) : wire[i] <= top /\ (wire[i] = Reset => own <= lo)

BatchInv ==
  /\ \A i \in 1 .. Len(batch) : batch[i] = batch[1] + (i - 1) /\ batch[i] <= top
  /\ batch # <<>> => NoGap(lo, Tip(wire, last), batch[1])

CursorInv ==
  /\ cursor.at <= top
  /\ pc = "check" => wire = <<>> /\ batch = <<>> /\ cursor.at = own
  /\ pc # "off" /\ cursor.ok /\ batch = <<>> => Near(lo, Tip(wire, last), cursor.at)

PageInv ==
  /\ last = IF view = <<>> THEN 0 ELSE view[Len(view)]
  /\ last <= top /\ own <= top
  /\ header = 0 => Near(lo, last, own)
  /\ web # "open" => pc = "off"
  /\ pc = "off" => wire = <<>> /\ batch = <<>>

RoomInv == TypeOK /\ WireInv /\ BatchInv /\ CursorInv /\ PageInv

-----------------------------------------------------------------------------
(* Data *)

LEMMA EmptyLen ==
  ASSUME NEW S, NEW w \in Seq(S)
  PROVE  w = <<>> <=> Len(w) = 0
OBVIOUS

LEMMA TailLinked ==
  ASSUME NEW l \in Nat, NEW w \in Seq(Nat), NEW x \in Nat, Linked(l, w, x), w # <<>>
  PROVE  /\ Linked(l, Tail(w), Head(w))
         /\ Tip(Tail(w), Head(w)) = Tip(w, x)
         /\ Tail(w) \in Seq(Nat) /\ Len(Tail(w)) = Len(w) - 1
         /\ \A i \in 1 .. Len(Tail(w)) : Tail(w)[i] = w[i + 1]
         /\ Head(w) = w[1]
<1>1. /\ Tail(w) \in Seq(Nat) /\ Len(Tail(w)) = Len(w) - 1
      /\ \A i \in 1 .. Len(Tail(w)) : Tail(w)[i] = w[i + 1]
      /\ Head(w) = w[1] /\ Len(w) \in Nat \ {0}
  OBVIOUS
<1>2. Linked(l, Tail(w), Head(w))
  <2>. SUFFICES ASSUME NEW i \in 1 .. Len(Tail(w)), Tail(w)[i] # Reset
                PROVE  NoGap(l, IF i = 1 THEN Head(w) ELSE Tail(w)[i - 1], Tail(w)[i])
    BY DEF Linked
  <2>1. i + 1 \in 1 .. Len(w) /\ i + 1 # 1 /\ (i + 1) - 1 = i
    BY <1>1
  <2>2. NoGap(l, w[i], w[i + 1])
    BY <1>1, <2>1 DEF Linked
  <2>3. i # 1 => Tail(w)[i - 1] = w[i]
    BY <1>1
  <2>. QED BY <1>1, <2>2, <2>3
<1>3. Tip(Tail(w), Head(w)) = Tip(w, x)
  <2>1. CASE Len(w) = 1
    <3>1. Tail(w) = <<>>
      <4>1. Len(Tail(w)) = 0
        BY <1>1, <2>1
      <4>. QED BY <1>1, <4>1, EmptyLen
    <3>. QED BY <1>1, <2>1, <3>1 DEF Tip
  <2>2. CASE Len(w) # 1
    <3>1. Tail(w) # <<>> /\ Len(w) - 1 \in 1 .. Len(Tail(w))
      <4>1. Len(Tail(w)) # 0 /\ Len(w) - 1 \in 1 .. Len(Tail(w))
        BY <1>1, <2>2
      <4>. QED BY <1>1, <4>1, EmptyLen
    <3>2. Tail(w)[Len(w) - 1] = w[Len(w)]
      BY <1>1, <3>1
    <3>. QED BY <1>1, <3>1, <3>2 DEF Tip
  <2>. QED BY <2>1, <2>2
<1>. QED BY <1>1, <1>2, <1>3

LEMMA NatElements ==
  ASSUME NEW w \in Seq(Nat)
  PROVE  \A i \in 1 .. Len(w) : w[i] \in Nat
OBVIOUS

LEMMA AppendParts ==
  ASSUME NEW S, NEW w \in Seq(S), NEW e \in S
  PROVE  /\ Append(w, e) \in Seq(S) /\ Append(w, e) # <<>>
         /\ Len(Append(w, e)) = Len(w) + 1
         /\ Append(w, e)[Len(w) + 1] = e
         /\ \A i \in 1 .. Len(w) : Append(w, e)[i] = w[i]
OBVIOUS

LEMMA AppendLinked ==
  ASSUME NEW l \in Nat, NEW w \in Seq(Nat), NEW x \in Nat, NEW e \in Nat,
         Linked(l, w, x), e # Reset => NoGap(l, Tip(w, x), e)
  PROVE  Linked(l, Append(w, e), x) /\ Tip(Append(w, e), x) = e
<1>1. /\ Append(w, e) # <<>> /\ Len(Append(w, e)) = Len(w) + 1
      /\ Append(w, e)[Len(w) + 1] = e
      /\ \A i \in 1 .. Len(w) : Append(w, e)[i] = w[i]
  BY AppendParts
<1>2. Linked(l, Append(w, e), x)
  <2>. SUFFICES ASSUME NEW i \in 1 .. Len(w) + 1, Append(w, e)[i] # Reset
                PROVE  NoGap(l, IF i = 1 THEN x ELSE Append(w, e)[i - 1], Append(w, e)[i])
    BY <1>1 DEF Linked
  <2>1. i # 1 => Append(w, e)[i - 1] = w[i - 1]
    BY <1>1
  <2>2. CASE i \in 1 .. Len(w)
    BY <1>1, <2>1, <2>2 DEF Linked
  <2>3. CASE i = Len(w) + 1
    <3>1. (IF i = 1 THEN x ELSE Append(w, e)[i - 1]) = Tip(w, x)
      BY <2>1, <2>3 DEF Tip
    <3>. QED BY <1>1, <2>3, <3>1
  <2>. QED BY <2>2, <2>3
<1>. QED BY <1>1, <1>2 DEF Tip

(* What the room drops later makes no gap. *)
LEMMA LaterNear ==
  ASSUME NEW l \in Nat, NEW m \in Nat, l <= m
  PROVE  /\ \A a, b \in Nat : NoGap(l, a, b) => NoGap(m, a, b)
         /\ \A a, b \in Nat : Near(l, a, b) => Near(m, a, b)
BY DEF NoGap, Near

LEMMA LaterLinked ==
  ASSUME NEW l \in Nat, NEW m \in Nat, l <= m,
         NEW w \in Seq(Nat), NEW x \in Nat
  PROVE  /\ Linked(l, w, x) => Linked(m, w, x)
         /\ \A a, b \in Nat : NoGap(l, a, b) => NoGap(m, a, b)
         /\ \A a, b \in Nat : Near(l, a, b) => Near(m, a, b)
<1>1. \A a, b \in Nat : NoGap(l, a, b) => NoGap(m, a, b)
  BY DEF NoGap
<1>2. \A a, b \in Nat : Near(l, a, b) => Near(m, a, b)
  BY DEF Near
<1>3. ASSUME Linked(l, w, x) PROVE Linked(m, w, x)
  <2>. SUFFICES ASSUME NEW i \in 1 .. Len(w), w[i] # Reset
                PROVE  NoGap(m, IF i = 1 THEN x ELSE w[i - 1], w[i])
    BY DEF Linked
  <2>1. w[i] \in Nat /\ (i # 1 => w[i - 1] \in Nat)
    OBVIOUS
  <2>2. NoGap(l, IF i = 1 THEN x ELSE w[i - 1], w[i])
    BY <1>3 DEF Linked
  <2>. QED BY <1>1, <2>1, <2>2
<1>. QED BY <1>1, <1>2, <1>3

LEMMA TipType ==
  ASSUME NEW w \in Seq(Nat), NEW x \in Nat
  PROVE  Tip(w, x) \in Nat
BY DEF Tip

(* Without the bounds, for arithmetic. *)
LEMMA RoomTypes ==
  ASSUME TypeOK
  PROVE  /\ top \in Nat /\ lo \in Nat /\ lo <= top /\ top <= MaxTop
         /\ cursor.at \in Nat /\ cursor.ok \in BOOLEAN
         /\ batch \in Seq(Nat) /\ wire \in Seq(Nat) /\ view \in Seq(Nat)
         /\ last \in Nat /\ own \in Nat /\ header \in Nat
         /\ Tip(wire, last) \in Nat
         /\ MaxTop \in Nat
<1>1. MaxTop \in Nat
  BY RoomAssumption
<1>2. cursor.at \in Nat /\ cursor.ok \in BOOLEAN
  BY <1>1 DEF TypeOK, Cursor
<1>3. batch \in Seq(Nat) /\ wire \in Seq(Nat) /\ view \in Seq(Nat)
  <2>1. Ids \subseteq Nat /\ Ids \union {Reset} \subseteq Nat
    BY DEF Ids, Reset
  <2>2. \A S, T : S \subseteq T => Seq(S) \subseteq Seq(T)
    OBVIOUS
  <2>. QED BY <2>1, <2>2 DEF TypeOK
<1>4. top \in Nat /\ lo \in Nat /\ lo <= top /\ top <= MaxTop
  BY <1>1 DEF TypeOK
<1>5. last \in Nat /\ own \in Nat /\ header \in Nat
  BY <1>1 DEF TypeOK
<1>. QED BY <1>1, <1>2, <1>3, <1>4, <1>5, TipType

(* What Redis returns: the frames from the first one after both the cursor and
   what has been dropped, without a gap. *)
LEMMA EntriesParts ==
  ASSUME TypeOK, NEW after \in Nat, after <= top, Entries(after) # <<>>
  PROVE  /\ Entries(after) \in Seq(Ids) /\ Len(Entries(after)) <= PageSize
         /\ Entries(after)[1] = (IF after > lo THEN after ELSE lo) + 1
         /\ \A i \in 1 .. Len(Entries(after)) :
              /\ Entries(after)[i] = Entries(after)[1] + (i - 1)
              /\ Entries(after)[i] <= top
<1>. DEFINE from == IF after > lo THEN after ELSE lo
            n == IF top - from < PageSize THEN top - from ELSE PageSize
<1>1. /\ top \in Nat /\ lo \in Nat /\ lo <= top /\ top <= MaxTop /\ MaxTop \in Nat
      /\ PageSize \in Nat \ {0}
  BY RoomTypes, RoomAssumption
<1>2. from \in Nat /\ from <= top /\ n \in Nat /\ n <= PageSize /\ from + n <= top
  BY <1>1
<1>3. Entries(after) = [i \in 1 .. n |-> from + i]
  BY DEF Entries
<1>. HIDE DEF from, n
<1>4. \A i \in 1 .. n : from + i \in Ids /\ from + i <= top
  BY <1>1, <1>2 DEF Ids
<1>5. [i \in 1 .. n |-> from + i] \in Seq(Ids) /\ Len([i \in 1 .. n |-> from + i]) = n
  BY <1>2, <1>4
<1>6. n # 0
  <2>. SUFFICES ASSUME n = 0 PROVE FALSE
    OBVIOUS
  <2>1. Len(Entries(after)) = 0 /\ Entries(after) \in Seq(Ids)
    BY <1>3, <1>5
  <2>. QED BY <2>1
<1>7. 1 \in 1 .. n
  BY <1>2, <1>6
<1>8. Entries(after)[1] = from + 1
  BY <1>3, <1>7
<1>9. \A i \in 1 .. n : Entries(after)[i] = (from + 1) + (i - 1) /\ Entries(after)[i] <= top
  BY <1>2, <1>3, <1>4
<1>. QED BY <1>2, <1>3, <1>5, <1>8, <1>9 DEF from

-----------------------------------------------------------------------------
(* The page's buffer *)

LEMMA PushedParts ==
  ASSUME TypeOK, NEW id \in Ids
  PROVE  /\ Pushed(id) \in Seq(Ids) /\ Len(Pushed(id)) <= BufferCap
         /\ Pushed(id) # <<>> /\ Pushed(id)[Len(Pushed(id))] = id
         /\ Pushed(id) = Log!Kept(Append(view, id))
<1>1. BufferCap \in Nat \ {0} /\ view \in Seq(Ids) /\ Len(view) <= BufferCap
  BY RoomAssumption DEF TypeOK
<1>2. Append(view, id) \in Seq(Ids) /\ Len(Append(view, id)) = Len(view) + 1
  BY <1>1
<1>3. CASE Len(view) < BufferCap
  <2>1. Pushed(id) = Append(view, id)
    BY <1>3 DEF Pushed
  <2>2. Log!Kept(Append(view, id)) = Append(view, id)
    BY <1>1, <1>2, <1>3 DEF Log!Kept
  <2>. QED BY <1>1, <1>2, <1>3, <2>1, <2>2, AppendParts
<1>4. CASE ~(Len(view) < BufferCap)
  <2>. DEFINE n == Len(view)
              kept == SubSeq(view, 2, n)
  <2>1. n = BufferCap
    BY <1>1, <1>4
  <2>2. kept \in Seq(Ids) /\ Len(kept) = n - 1
        /\ \A i \in 1 .. n - 1 : kept[i] = view[i + 1]
    BY <1>1, <2>1
  <2>3. Pushed(id) = Append(kept, id)
    <3>1. n - BufferCap + 2 = 2
      BY <1>1, <2>1
    <3>. QED BY <1>4, <3>1 DEF Pushed
  <2>4. Log!Kept(Append(view, id)) = SubSeq(Append(view, id), 2, n + 1)
    <3>1. ~(n + 1 <= BufferCap) /\ (n + 1) - BufferCap + 1 = 2
      BY <1>1, <2>1
    <3>. QED BY <1>2, <3>1 DEF Log!Kept
  <2>5. SubSeq(Append(view, id), 2, n + 1) = Append(kept, id)
    <3>. DEFINE a == SubSeq(Append(view, id), 2, n + 1)
                b == Append(kept, id)
    <3>1. a \in Seq(Ids) /\ Len(a) = n
          /\ \A i \in 1 .. n : a[i] = Append(view, id)[i + 1]
      BY <1>1, <1>2, <2>1
    <3>2. b \in Seq(Ids) /\ Len(b) = n /\ b[n] = id
          /\ \A i \in 1 .. n - 1 : b[i] = view[i + 1]
      BY <1>1, <2>1, <2>2
    <3>3. \A i \in 1 .. n : a[i] = b[i]
      BY <1>1, <2>1, <3>1, <3>2
    <3>. HIDE DEF a, b
    <3>4. a = b
      BY <1>1, <2>1, <3>1, <3>2, <3>3
    <3>. QED BY <3>4 DEF a, b
  <2>. QED BY <1>1, <2>1, <2>2, <2>3, <2>4, <2>5, AppendParts
<1>. QED BY <1>3, <1>4

-----------------------------------------------------------------------------
(* Steps *)

LEMMA InitRoom == Init => RoomInv
<1>. SUFFICES ASSUME Init PROVE RoomInv
  OBVIOUS
<1>1. TypeOK
  <2>1. 0 \in 0 .. MaxTop /\ 0 \in 0 .. MaxDrops /\ 0 \in 0 .. 0
    BY RoomAssumption
  <2>2. 0 <= PageSize /\ 0 <= WireCap /\ 0 <= BufferCap
    BY RoomAssumption
  <2>3. Start \in Cursor
    BY <2>1 DEF Start, Cursor
  <2>4. \A S : <<>> \in Seq(S) /\ Len(<<>>) = 0
    OBVIOUS
  <2>5. batch \in Seq(Ids) /\ Len(batch) <= PageSize
    BY <2>2, <2>4 DEF Init
  <2>6. wire \in Seq(Ids \union {Reset}) /\ Len(wire) <= WireCap
    BY <2>2, <2>4 DEF Init
  <2>7. view \in Seq(Ids) /\ Len(view) <= BufferCap
    BY <2>2, <2>4 DEF Init
  <2>8. /\ top \in 0 .. MaxTop /\ lo \in 0 .. top /\ drops \in 0 .. MaxDrops
        /\ last \in 0 .. MaxTop /\ own \in 0 .. MaxTop /\ header \in 0 .. MaxTop
    BY <2>1 DEF Init
  <2>. QED BY <2>3, <2>5, <2>6, <2>7, <2>8 DEF Init, TypeOK
<1>2. WireInv /\ BatchInv
  BY DEF Init, WireInv, BatchInv, Linked
<1>3. CursorInv /\ PageInv
  BY DEF Init, CursorInv, PageInv, Start, Near
<1>. QED BY <1>1, <1>2, <1>3 DEF RoomInv

(* The room grows, or drops frames. *)
LEMMA RoomStep ==
  ASSUME RoomInv, top' \in Nat, lo' \in Nat, lo <= lo', top <= top', lo' <= top',
         top' <= MaxTop, UNCHANGED <<taskVars, wire, pageVars, drops>>
  PROVE  RoomInv'
<1>1. TypeOK
  BY DEF RoomInv
<1>2. UNCHANGED <<pc, cursor, batch, broken, wire, web, view, last, own, header, drops>>
  BY DEF taskVars, pageVars
<1>3. TypeOK'
  BY <1>1, <1>2, RoomTypes DEF TypeOK
<1>4. WireInv'
  <2>1. /\ Linked(lo, wire, last)
        /\ \A i \in 1 .. Len(wire) : wire[i] <= top /\ (wire[i] = Reset => own <= lo)
    BY DEF RoomInv, WireInv
  <2>2. Linked(lo', wire, last)
    BY <1>1, <2>1, RoomTypes, LaterLinked
  <2>3. \A i \in 1 .. Len(wire) : wire[i] <= top' /\ (wire[i] = Reset => own <= lo')
    <3>1. \A i \in 1 .. Len(wire) : wire[i] \in Nat
      BY <1>1, RoomTypes, NatElements
    <3>2. \A x \in Nat : x <= top => x <= top'
      BY <1>1, RoomTypes
    <3>3. own <= lo => own <= lo'
      BY <1>1, RoomTypes
    <3>. QED BY <2>1, <3>1, <3>2, <3>3
  <2>. QED BY <1>2, <2>2, <2>3 DEF WireInv
<1>5. BatchInv'
  <2>1. \A i \in 1 .. Len(batch) : batch[i] = batch[1] + (i - 1) /\ batch[i] <= top'
    <3>1. \A i \in 1 .. Len(batch) : batch[i] \in Nat
      BY <1>1, RoomTypes, NatElements
    <3>2. \A i \in 1 .. Len(batch) : batch[i] = batch[1] + (i - 1) /\ batch[i] <= top
      BY DEF RoomInv, BatchInv
    <3>3. \A x \in Nat : x <= top => x <= top'
      BY <1>1, RoomTypes
    <3>. QED BY <3>1, <3>2, <3>3
  <2>2. batch # <<>> => batch[1] \in Nat
    <3>1. batch \in Seq(Nat)
      BY <1>1, RoomTypes
    <3>. QED BY <3>1
  <2>3. batch # <<>> => NoGap(lo', Tip(wire, last), batch[1])
    <3>1. batch # <<>> => NoGap(lo, Tip(wire, last), batch[1])
      BY DEF RoomInv, BatchInv
    <3>2. Tip(wire, last) \in Nat
      BY <1>1, RoomTypes
    <3>3. lo \in Nat /\ lo' \in Nat /\ lo <= lo'
      BY <1>1, RoomTypes
    <3>. QED BY <2>2, <3>1, <3>2, <3>3, LaterNear
  <2>. QED BY <1>2, <2>1, <2>3 DEF BatchInv
<1>6. CursorInv'
  <2>1. \A a, b \in Nat : Near(lo, a, b) => Near(lo', a, b)
    <3>1. lo \in Nat /\ lo' \in Nat /\ lo <= lo'
      BY <1>1, RoomTypes
    <3>. QED BY <3>1, LaterNear
  <2>2. cursor.at <= top'
    BY <1>1, RoomTypes DEF RoomInv, CursorInv
  <2>. QED BY <1>1, <1>2, <2>1, <2>2, RoomTypes DEF RoomInv, CursorInv
<1>7. PageInv'
  <2>1. \A a, b \in Nat : Near(lo, a, b) => Near(lo', a, b)
    <3>1. lo \in Nat /\ lo' \in Nat /\ lo <= lo'
      BY <1>1, RoomTypes
    <3>. QED BY <3>1, LaterNear
  <2>2. last <= top' /\ own <= top'
    BY <1>1, RoomTypes DEF RoomInv, PageInv
  <2>. QED BY <1>1, <1>2, <2>1, <2>2, RoomTypes DEF RoomInv, PageInv
<1>. QED BY <1>3, <1>4, <1>5, <1>6, <1>7 DEF RoomInv

LEMMA WriteStep ==
  ASSUME RoomInv, Write
  PROVE  /\ top' = top + 1 /\ lo' \in Nat /\ lo <= lo' /\ lo' <= top'
         /\ RoomInv'
<1>1. TypeOK
  BY DEF RoomInv
<1>2. top' = top + 1 /\ lo' \in Nat /\ lo <= lo' /\ lo' <= top' /\ top' <= MaxTop
  BY <1>1, RoomTypes DEF Write
<1>. QED BY <1>1, <1>2, RoomTypes, RoomStep DEF Write

LEMMA ExpireStep ==
  ASSUME RoomInv, Expire
  PROVE  RoomInv'
<1>1. TypeOK
  BY DEF RoomInv
<1>. QED BY <1>1, RoomTypes, RoomStep DEF Expire

LEMMA OpenStep ==
  ASSUME RoomInv, Open
  PROVE  RoomInv'
<1>1. TypeOK /\ web = "waiting" /\ pc = "off" /\ wire = <<>> /\ batch = <<>>
  BY DEF RoomInv, PageInv, Open
<1>2. /\ web' = "open" /\ cursor' = Requested /\ broken' = FALSE
      /\ pc' = (IF Requested = Start THEN "page" ELSE "check")
      /\ UNCHANGED <<top, lo, batch, wire, view, last, own, header, drops>>
  BY DEF Open, roomVars
<1>3. cursor' \in Cursor /\ cursor'.at = own /\ cursor'.ok = (header = 0)
  BY <1>1, <1>2 DEF TypeOK, Requested, Cursor
<1>4. TypeOK'
  BY <1>1, <1>2, <1>3 DEF TypeOK
<1>5. WireInv' /\ BatchInv'
  BY <1>1, <1>2 DEF WireInv, BatchInv, Linked
<1>6. PageInv'
  BY <1>1, <1>2 DEF RoomInv, PageInv
<1>7. CursorInv'
  <2>1. Tip(wire', last') = last
    BY <1>1, <1>2 DEF Tip
  <2>2. header = 0 => Near(lo, last, own)
    BY DEF RoomInv, PageInv
  <2>3. own <= top
    BY DEF RoomInv, PageInv
  <2>. QED BY <1>1, <1>2, <1>3, <2>1, <2>2, <2>3 DEF CursorInv
<1>. QED BY <1>4, <1>5, <1>6, <1>7 DEF RoomInv

(* The task goes on without reading or sending anything. *)
LEMMA TaskMoves ==
  ASSUME RoomInv, UNCHANGED <<roomVars, cursor, batch, wire, pageVars, drops>>,
         broken' \in BOOLEAN, pc # "off",
         pc' \in {"check", "page", "tail"}, pc' = "check" => pc = "check"
  PROVE  RoomInv'
<1>1. TypeOK /\ UNCHANGED <<top, lo, cursor, batch, wire, web, view, last, own, header, drops>>
  BY DEF RoomInv, roomVars, pageVars
<1>2. TypeOK'
  BY <1>1 DEF TypeOK
<1>3. WireInv' /\ BatchInv'
  BY <1>1 DEF RoomInv, WireInv, BatchInv
<1>4. CursorInv' /\ PageInv'
  BY <1>1 DEF RoomInv, CursorInv, PageInv
<1>. QED BY <1>2, <1>3, <1>4 DEF RoomInv

LEMMA CheckResetStep ==
  ASSUME RoomInv, CheckReset
  PROVE  RoomInv'
<1>1. TypeOK /\ pc = "check" /\ wire = <<>> /\ batch = <<>> /\ cursor.at = own
  BY DEF RoomInv, CursorInv, CheckReset
<1>2. UNCHANGED <<top, lo, batch, broken, web, view, last, own, header, drops>> /\ pc' = "page"
  BY DEF CheckReset, roomVars, pageVars
<1>3. CASE lo < top /\ cursor.at < lo + 1 /\ ~broken
  <2>1. cursor' = Start /\ wire' = Append(wire, Reset)
    BY <1>3 DEF CheckReset
  <2>2. wire' = <<Reset>>
    BY <1>1, <2>1
  <2>3. cursor' \in Cursor /\ cursor'.at = 0 /\ cursor'.ok = TRUE
    BY <1>1, <2>1, RoomTypes DEF Start, Cursor
  <2>4. wire' \in Seq(Ids \union {Reset}) /\ Len(wire') = 1 /\ wire'[1] = Reset /\ wire' # <<>>
    BY <2>2
  <2>5. TypeOK'
    BY <1>1, <1>2, <2>3, <2>4, RoomAssumption DEF TypeOK
  <2>6. own <= lo /\ Reset <= top
    BY <1>1, <1>3, RoomTypes DEF Reset
  <2>7. WireInv'
    <3>1. \A i \in 1 .. Len(wire') : wire'[i] = Reset
      BY <2>4
    <3>. QED BY <1>2, <2>6, <3>1 DEF WireInv, Linked
  <2>8. BatchInv'
    BY <1>1, <1>2 DEF BatchInv
  <2>9. CursorInv'
    <3>1. Tip(wire', last') = 0
      BY <2>4 DEF Tip, Reset
    <3>. QED BY <1>1, <1>2, <2>3, <3>1, RoomTypes DEF CursorInv, Near
  <2>10. PageInv'
    BY <1>1, <1>2 DEF RoomInv, PageInv
  <2>. QED BY <2>5, <2>7, <2>8, <2>9, <2>10 DEF RoomInv
<1>4. CASE ~(lo < top /\ cursor.at < lo + 1 /\ ~broken)
  <2>1. UNCHANGED <<cursor, wire>>
    BY <1>4 DEF CheckReset
  <2>. QED BY <1>1, <1>2, <2>1, TaskMoves DEF CheckReset, TypeOK
<1>. QED BY <1>3, <1>4

(* A page or a tail read: the first of its frames follows the last one sent. *)
LEMMA ReadStep ==
  ASSUME RoomInv, pc \in {"page", "tail"}, batch = <<>>, cursor.ok,
         Entries(cursor.at) # <<>>, batch' = Entries(cursor.at),
         UNCHANGED <<roomVars, pc, cursor, broken, wire, pageVars, drops>>
  PROVE  RoomInv'
<1>1. TypeOK /\ cursor.at <= top /\ Near(lo, Tip(wire, last), cursor.at)
  BY DEF RoomInv, CursorInv
<1>2. UNCHANGED <<top, lo, pc, cursor, broken, wire, web, view, last, own, header, drops>>
  BY DEF roomVars, pageVars
<1>3. /\ batch' \in Seq(Ids) /\ Len(batch') <= PageSize /\ batch' # <<>>
      /\ batch'[1] = (IF cursor.at > lo THEN cursor.at ELSE lo) + 1
      /\ \A i \in 1 .. Len(batch') : batch'[i] = batch'[1] + (i - 1) /\ batch'[i] <= top
  BY <1>1, RoomTypes, EntriesParts
<1>4. TypeOK'
  BY <1>1, <1>2, <1>3 DEF TypeOK
<1>5. WireInv'
  BY <1>2 DEF RoomInv, WireInv
<1>6. BatchInv'
  <2>1. NoGap(lo, Tip(wire, last), batch'[1])
    BY <1>1, <1>3, RoomTypes DEF Near, NoGap
  <2>. QED BY <1>2, <1>3, <2>1 DEF BatchInv
<1>7. CursorInv' /\ PageInv'
  BY <1>2, <1>3 DEF RoomInv, CursorInv, PageInv
<1>. QED BY <1>4, <1>5, <1>6, <1>7 DEF RoomInv

LEMMA SendStep ==
  ASSUME RoomInv, Send
  PROVE  RoomInv'
<1>1. TypeOK /\ batch # <<>> /\ Len(wire) < WireCap /\ pc \notin {"off", "check"}
  BY DEF RoomInv, CursorInv, PageInv, Send
<1>2. /\ wire' = Append(wire, Head(batch)) /\ batch' = Tail(batch)
      /\ cursor' = [cursor EXCEPT !.at = Head(batch)]
      /\ UNCHANGED <<top, lo, pc, broken, web, view, last, own, header, drops>>
  BY DEF Send, roomVars, pageVars
<1>3. /\ Head(batch) = batch[1] /\ batch[1] \in Ids
      /\ Tail(batch) \in Seq(Ids) /\ Len(Tail(batch)) = Len(batch) - 1
      /\ \A i \in 1 .. Len(Tail(batch)) : Tail(batch)[i] = batch[i + 1]
      /\ Len(batch) \in Nat \ {0}
  BY <1>1 DEF TypeOK
<1>4. /\ wire' \in Seq(Ids \union {Reset}) /\ Len(wire') = Len(wire) + 1
      /\ wire'[Len(wire) + 1] = batch[1]
      /\ \A i \in 1 .. Len(wire) : wire'[i] = wire[i]
  BY <1>1, <1>2, <1>3, AppendParts DEF TypeOK
<1>5. cursor' \in Cursor /\ cursor'.at = batch[1] /\ cursor'.ok = cursor.ok
  <2>1. batch[1] \in 0 .. MaxTop
    BY <1>3, RoomAssumption DEF Ids
  <2>2. cursor \in Cursor
    BY <1>1 DEF TypeOK
  <2>. QED BY <1>2, <1>3, <2>1, <2>2 DEF Cursor
<1>6. TypeOK'
  <2>1. Len(batch') <= PageSize /\ Len(wire') <= WireCap
    <3>1. Len(batch) \in Nat /\ Len(batch) <= PageSize /\ PageSize \in Nat /\ Len(wire) \in Nat
      BY <1>1, RoomAssumption DEF TypeOK
    <3>2. Len(wire) + 1 <= WireCap
      BY <1>1, <3>1, RoomAssumption
    <3>. QED BY <1>2, <1>3, <1>4, <3>1, <3>2
  <2>2. /\ top' \in 0 .. MaxTop /\ lo' \in 0 .. top' /\ pc' \in {"off", "check", "page", "tail"}
        /\ broken' \in BOOLEAN /\ web' \in {"waiting", "open", "closed"}
        /\ drops' \in 0 .. MaxDrops
    BY <1>1, <1>2 DEF TypeOK
  <2>3. /\ view' \in Seq(Ids) /\ Len(view') <= BufferCap
        /\ {last', own', header'} \subseteq 0 .. MaxTop
    BY <1>1, <1>2 DEF TypeOK
  <2>4. batch' \in Seq(Ids) /\ wire' \in Seq(Ids \union {Reset}) /\ cursor' \in Cursor
    BY <1>2, <1>3, <1>4, <1>5
  <2>. QED BY <2>1, <2>2, <2>3, <2>4, Zenon DEF TypeOK
<1>7. batch[1] # Reset /\ batch[1] \in Nat /\ batch[1] <= top
  BY <1>1, <1>3 DEF Ids, Reset, RoomInv, BatchInv
<1>8. Linked(lo, wire', last) /\ Tip(wire', last) = batch[1]
  BY <1>1, <1>2, <1>3, <1>7, RoomTypes, AppendLinked DEF RoomInv, WireInv, BatchInv
<1>9. WireInv'
  <2>1. \A i \in 1 .. Len(wire') : wire'[i] <= top /\ (wire'[i] = Reset => own <= lo)
    BY <1>4, <1>7 DEF RoomInv, WireInv
  <2>. QED BY <1>2, <1>8, <2>1 DEF WireInv
<1>10. BatchInv'
  <2>1. \A i \in 1 .. Len(batch') :
          batch'[i] = batch[1] + i /\ batch'[i] <= top
    <3>. SUFFICES ASSUME NEW i \in 1 .. Len(batch')
                  PROVE  batch'[i] = batch[1] + i /\ batch'[i] <= top
      OBVIOUS
    <3>1. i + 1 \in 1 .. Len(batch) /\ batch'[i] = batch[i + 1] /\ (i + 1) - 1 = i
      BY <1>2, <1>3
    <3>2. batch[i + 1] = batch[1] + ((i + 1) - 1) /\ batch[i + 1] <= top
      BY <3>1 DEF RoomInv, BatchInv
    <3>. QED BY <3>1, <3>2
  <2>2. batch' # <<>> => 1 \in 1 .. Len(batch')
    BY <1>2, <1>3
  <2>3. \A i \in 1 .. Len(batch') : batch'[i] = batch'[1] + (i - 1)
    <3>1. \A i \in 1 .. Len(batch') : 1 \in 1 .. Len(batch')
      OBVIOUS
    <3>. QED BY <1>7, <2>1, <3>1
  <2>4. batch' # <<>> => NoGap(lo, batch[1], batch'[1])
    BY <1>7, <2>1, <2>2 DEF NoGap
  <2>. QED BY <1>2, <1>8, <2>1, <2>3, <2>4 DEF BatchInv
<1>11. CursorInv'
  BY <1>1, <1>2, <1>5, <1>7, <1>8 DEF CursorInv, Near
<1>12. PageInv'
  BY <1>1, <1>2 DEF RoomInv, PageInv
<1>. QED BY <1>6, <1>9, <1>10, <1>11, <1>12 DEF RoomInv

(* What the page takes off the wire follows what it has shown. *)
LEMMA Received ==
  ASSUME RoomInv, wire # <<>>
  PROVE  /\ Head(wire) \in Ids \union {Reset} /\ Head(wire) \in Nat /\ Head(wire) <= top
         /\ Head(wire) # Reset => NoGap(lo, last, Head(wire))
         /\ Head(wire) = Reset => own <= lo
         /\ Tail(wire) \in Seq(Ids \union {Reset}) /\ Len(Tail(wire)) <= WireCap
         /\ pc \notin {"off", "check"} /\ web = "open"
<1>1. TypeOK
  BY DEF RoomInv
<1>2. /\ Head(wire) = wire[1] /\ wire[1] \in Ids \union {Reset} /\ 1 \in 1 .. Len(wire)
      /\ Tail(wire) \in Seq(Ids \union {Reset}) /\ Len(Tail(wire)) = Len(wire) - 1
      /\ Len(wire) \in Nat /\ Len(wire) <= WireCap
  BY <1>1 DEF TypeOK
<1>3. wire[1] \in Nat
  BY <1>1, <1>2, RoomTypes, NatElements
<1>4. wire[1] <= top /\ (wire[1] = Reset => own <= lo)
  BY <1>2 DEF RoomInv, WireInv
<1>5. wire[1] # Reset => NoGap(lo, last, wire[1])
  BY <1>2 DEF RoomInv, WireInv, Linked
<1>6. Len(Tail(wire)) <= WireCap
  BY <1>2, RoomAssumption
<1>. QED BY <1>2, <1>3, <1>4, <1>5, <1>6 DEF RoomInv, CursorInv, PageInv

(* The page takes an event off the wire: from then on it stands where the
   event says. *)
LEMMA ReceiveMoves ==
  ASSUME RoomInv, wire # <<>>, wire' = Tail(wire), last' = Head(wire),
         view' \in Seq(Ids), Len(view') <= BufferCap,
         last' = (IF view' = <<>> THEN 0 ELSE view'[Len(view')]),
         header' \in 0 .. MaxTop, header' = 0 => header = 0 /\ Head(wire) = Reset,
         UNCHANGED <<roomVars, taskVars, web, own, drops>>
  PROVE  RoomInv'
<1>1. TypeOK /\ UNCHANGED <<top, lo, pc, cursor, batch, broken, web, own, drops>>
  BY DEF RoomInv, roomVars, taskVars
<1>2. /\ Linked(lo, wire', last') /\ Tip(wire', last') = Tip(wire, last)
      /\ Len(wire') = Len(wire) - 1 /\ Len(wire) \in Nat
      /\ \A i \in 1 .. Len(wire') : wire'[i] = wire[i + 1]
  BY <1>1, RoomTypes, TailLinked DEF RoomInv, WireInv
<1>3. /\ last' \in 0 .. MaxTop /\ wire' \in Seq(Ids \union {Reset}) /\ Len(wire') <= WireCap
  <2>1. /\ Head(wire) \in Nat /\ Head(wire) <= top
        /\ wire' \in Seq(Ids \union {Reset}) /\ Len(wire') <= WireCap
    BY Received, Zenon
  <2>2. top \in Nat /\ top <= MaxTop /\ MaxTop \in Nat
    BY <1>1, RoomTypes
  <2>3. \A x \in Nat : x <= top => x \in 0 .. MaxTop
    BY <2>2
  <2>. QED BY <2>1, <2>3, Zenon
<1>4. TypeOK'
  <2>1. /\ top' \in 0 .. MaxTop /\ lo' \in 0 .. top' /\ pc' \in {"off", "check", "page", "tail"}
        /\ cursor' \in Cursor /\ batch' \in Seq(Ids) /\ Len(batch') <= PageSize
        /\ broken' \in BOOLEAN /\ web' \in {"waiting", "open", "closed"}
        /\ own' \in 0 .. MaxTop /\ drops' \in 0 .. MaxDrops
    BY <1>1 DEF TypeOK
  <2>2. {last', own', header'} \subseteq 0 .. MaxTop
    BY <1>3, <2>1
  <2>3. view' \in Seq(Ids) /\ Len(view') <= BufferCap
    OBVIOUS
  <2>. QED BY <1>3, <2>1, <2>2, <2>3, Zenon DEF TypeOK
<1>5. WireInv'
  <2>1. \A i \in 1 .. Len(wire') : wire'[i] <= top /\ (wire'[i] = Reset => own <= lo)
    <3>. SUFFICES ASSUME NEW i \in 1 .. Len(wire')
                  PROVE  wire'[i] <= top /\ (wire'[i] = Reset => own <= lo)
      OBVIOUS
    <3>1. i + 1 \in 1 .. Len(wire) /\ wire'[i] = wire[i + 1]
      BY <1>2
    <3>. QED BY <3>1 DEF RoomInv, WireInv
  <2>. QED BY <1>1, <1>2, <2>1 DEF WireInv
<1>6. BatchInv'
  BY <1>1, <1>2 DEF RoomInv, BatchInv
<1>7. CursorInv'
  BY <1>1, <1>2, Received DEF RoomInv, CursorInv
<1>8. PageInv'
  <2>1. last' <= top /\ own <= top
    BY Received DEF RoomInv, PageInv
  <2>2. header' = 0 => Near(lo, last', own)
    <3>. SUFFICES ASSUME header' = 0 PROVE Near(lo, last', own)
      OBVIOUS
    <3>1. last' = 0 /\ own <= lo
      BY Received DEF Reset
    <3>. QED BY <1>1, <3>1, RoomTypes DEF Near
  <2>. QED BY <1>1, <2>1, <2>2, Received DEF PageInv
<1>. QED BY <1>4, <1>5, <1>6, <1>7, <1>8 DEF RoomInv

LEMMA ReceiveFrameStep ==
  ASSUME RoomInv, ReceiveFrame
  PROVE  RoomInv'
<1>1. TypeOK /\ wire # <<>> /\ Head(wire) # Reset
  BY DEF RoomInv, ReceiveFrame
<1>2. Head(wire) \in Ids
  BY <1>1, Received
<1>3. view' = Pushed(Head(wire)) /\ last' = Head(wire) /\ header' = Head(wire)
      /\ wire' = Tail(wire) /\ UNCHANGED <<roomVars, taskVars, web, own, drops>>
  BY DEF ReceiveFrame
<1>4. /\ view' \in Seq(Ids) /\ Len(view') <= BufferCap
      /\ last' = (IF view' = <<>> THEN 0 ELSE view'[Len(view')])
  BY <1>1, <1>2, <1>3, PushedParts
<1>5. header' \in 0 .. MaxTop /\ header' # 0
  BY <1>2, <1>3, RoomAssumption DEF Ids
<1>. QED BY <1>1, <1>3, <1>4, <1>5, ReceiveMoves

LEMMA ReceiveResetStep ==
  ASSUME RoomInv, ReceiveReset
  PROVE  RoomInv'
<1>1. TypeOK /\ wire # <<>> /\ Head(wire) = Reset
  BY DEF RoomInv, ReceiveReset
<1>2. view' = <<>> /\ last' = 0 /\ header' = header
      /\ wire' = Tail(wire) /\ UNCHANGED <<roomVars, taskVars, web, own, drops>>
  BY DEF ReceiveReset
<1>3. view' \in Seq(Ids) /\ Len(view') <= BufferCap
  <2>1. Len(view') = 0
    BY <1>2
  <2>. QED BY <1>2, <2>1, RoomAssumption
<1>4. header' \in 0 .. MaxTop
  BY <1>1, <1>2 DEF TypeOK
<1>5. last' = Head(wire)
  BY <1>1, <1>2 DEF Reset
<1>. QED BY <1>1, <1>2, <1>3, <1>4, <1>5, ReceiveMoves

LEMMA SeqEmpty == \A S : <<>> \in Seq(S) /\ Len(<<>>) = 0
OBVIOUS

(* Nobody is connected afterwards. *)
LEMMA OffMoves ==
  ASSUME RoomInv, UNCHANGED roomVars,
         pc' = "off", cursor' \in Cursor, cursor'.at <= top, broken' \in BOOLEAN,
         wire' = <<>>, batch' = <<>>, web' \in {"waiting", "closed"},
         view' \in {view, <<>>},
         last' = (IF view' = <<>> THEN 0 ELSE view'[Len(view')]),
         own' \in {own, last, 0}, header' \in {header, 0},
         header' = 0 => Near(lo, last', own'),
         drops' \in 0 .. MaxDrops
  PROVE  RoomInv'
<1>1. TypeOK /\ PageInv /\ UNCHANGED <<top, lo>>
  BY DEF RoomInv, roomVars
<1>2. /\ wire' \in Seq(Ids \union {Reset}) /\ Len(wire') <= WireCap
      /\ batch' \in Seq(Ids) /\ Len(batch') <= PageSize
  BY SeqEmpty, RoomAssumption
<1>3. view' \in Seq(Ids) /\ Len(view') <= BufferCap
  <2>1. view \in Seq(Ids) /\ Len(view) <= BufferCap /\ 0 <= BufferCap
    BY <1>1, RoomAssumption DEF TypeOK
  <2>. QED BY <2>1, SeqEmpty
<1>4. last' \in {last, 0}
  BY <1>1 DEF PageInv
<1>5. /\ last' \in 0 .. MaxTop /\ own' \in 0 .. MaxTop /\ header' \in 0 .. MaxTop
  <2>1. 0 \in 0 .. MaxTop
    BY RoomAssumption
  <2>. QED BY <1>1, <1>4, <2>1 DEF TypeOK
<1>6. TypeOK'
  BY <1>1, <1>2, <1>3, <1>5 DEF TypeOK
<1>7. WireInv' /\ BatchInv' /\ CursorInv'
  <2>1. Len(wire') = 0 /\ Len(batch') = 0
    BY SeqEmpty
  <2>2. 1 .. 0 = {}
    OBVIOUS
  <2>3. WireInv' /\ BatchInv'
    BY <2>1, <2>2 DEF WireInv, Linked, BatchInv
  <2>4. CursorInv'
    BY <1>1 DEF CursorInv
  <2>. QED BY <2>3, <2>4
<1>8. PageInv'
  <2>1. last' <= top /\ own' <= top
    <3>1. last <= top /\ own <= top /\ 0 <= top
      BY <1>1, RoomTypes DEF PageInv
    <3>. QED BY <1>4, <3>1
  <2>. QED BY <1>1, <2>1 DEF PageInv
<1>. QED BY <1>6, <1>7, <1>8 DEF RoomInv

LEMMA StartCursor ==
  ASSUME TypeOK
  PROVE  Start \in Cursor /\ Start.at <= top
BY RoomTypes, RoomAssumption DEF Start, Cursor

LEMMA DisconnectStep ==
  ASSUME RoomInv, Disconnect
  PROVE  RoomInv'
<1>1. TypeOK /\ PageInv
  BY DEF RoomInv
<1>2. /\ pc' = "off" /\ cursor' = Start /\ batch' = <<>> /\ broken' = FALSE
      /\ wire' = <<>> /\ web' = "waiting"
      /\ UNCHANGED <<roomVars, view, last, own, header>>
  BY DEF Disconnect, Hangup
<1>3. drops' \in 0 .. MaxDrops
  BY <1>1, RoomAssumption DEF TypeOK, Disconnect
<1>4. header' = 0 => Near(lo, last', own')
  BY <1>1, <1>2 DEF PageInv
<1>5. last' = (IF view' = <<>> THEN 0 ELSE view'[Len(view')])
  BY <1>1, <1>2 DEF PageInv
<1>. QED BY <1>1, <1>2, <1>3, <1>4, <1>5, StartCursor, OffMoves

LEMMA UnauthorizedStep ==
  ASSUME RoomInv, Unauthorized
  PROVE  RoomInv'
<1>1. TypeOK /\ PageInv /\ pc = "off" /\ wire = <<>> /\ batch = <<>> /\ cursor.at <= top
  BY DEF RoomInv, PageInv, CursorInv, Unauthorized
<1>2. /\ own' = last /\ header' = 0 /\ web' = "waiting"
      /\ UNCHANGED <<roomVars, pc, cursor, batch, broken, wire, view, last, drops>>
  BY DEF Unauthorized, taskVars
<1>3. cursor' \in Cursor /\ broken' \in BOOLEAN /\ drops' \in 0 .. MaxDrops
  BY <1>1, <1>2 DEF TypeOK
<1>4. Near(lo, last', own')
  BY <1>2 DEF Near
<1>5. last' = (IF view' = <<>> THEN 0 ELSE view'[Len(view')])
  BY <1>1, <1>2 DEF PageInv
<1>. QED BY <1>1, <1>2, <1>3, <1>4, <1>5, OffMoves

LEMMA RefuseStep ==
  ASSUME RoomInv, Refuse
  PROVE  RoomInv'
<1>1. TypeOK /\ PageInv /\ pc = "off" /\ wire = <<>> /\ batch = <<>> /\ cursor.at <= top
  BY DEF RoomInv, PageInv, CursorInv, Refuse
<1>2. /\ web' = "closed"
      /\ UNCHANGED <<roomVars, pc, cursor, batch, broken, wire, view, last, own, header, drops>>
  BY DEF Refuse, taskVars
<1>3. cursor' \in Cursor /\ broken' \in BOOLEAN /\ drops' \in 0 .. MaxDrops
  BY <1>1, <1>2 DEF TypeOK
<1>4. header' = 0 => Near(lo, last', own')
  BY <1>1, <1>2 DEF PageInv
<1>5. last' = (IF view' = <<>> THEN 0 ELSE view'[Len(view')])
  BY <1>1, <1>2 DEF PageInv
<1>. QED BY <1>1, <1>2, <1>3, <1>4, <1>5, OffMoves

LEMMA MountStep ==
  ASSUME RoomInv, Mount
  PROVE  RoomInv'
<1>1. TypeOK
  BY DEF RoomInv
<1>2. /\ pc' = "off" /\ cursor' = Start /\ batch' = <<>> /\ broken' = FALSE
      /\ wire' = <<>> /\ web' = "waiting" /\ view' = <<>>
      /\ last' = 0 /\ own' = 0 /\ header' = 0 /\ UNCHANGED roomVars
  BY DEF Mount, Hangup
<1>3. drops' \in 0 .. MaxDrops
  BY <1>1, RoomAssumption DEF TypeOK, Mount
<1>4. Near(lo, last', own')
  BY <1>2 DEF Near
<1>5. /\ last' = (IF view' = <<>> THEN 0 ELSE view'[Len(view')])
      /\ view' \in {view, <<>>} /\ own' \in {own, last, 0} /\ header' \in {header, 0}
      /\ web' \in {"waiting", "closed"} /\ broken' \in BOOLEAN
  BY <1>2
<1>6. cursor' \in Cursor /\ cursor'.at <= top
  BY <1>1, <1>2, StartCursor
<1>. QED BY <1>2, <1>3, <1>4, <1>5, <1>6, OffMoves

LEMMA TaskStep ==
  ASSUME RoomInv, CheckFails \/ ReadPage \/ PageFails \/ ReadTail \/ Break
  PROVE  RoomInv'
<1>1. broken \in BOOLEAN /\ pc \in {"off", "check", "page", "tail"}
  BY DEF RoomInv, TypeOK
<1>2. CASE CheckFails
  BY <1>1, <1>2, TaskMoves DEF CheckFails
<1>3. CASE PageFails
  BY <1>1, <1>3, TaskMoves DEF PageFails
<1>4. CASE Break
  BY <1>1, <1>4, TaskMoves DEF Break
<1>5. CASE ReadTail
  BY <1>5, ReadStep DEF ReadTail
<1>6. CASE ReadPage
  <2>1. CASE cursor.ok /\ ~broken /\ Entries(cursor.at) # <<>>
    BY <1>6, <2>1, ReadStep DEF ReadPage
  <2>2. CASE ~(cursor.ok /\ ~broken /\ Entries(cursor.at) # <<>>)
    BY <1>1, <1>6, <2>2, TaskMoves DEF ReadPage
  <2>. QED BY <2>1, <2>2
<1>. QED BY <1>2, <1>3, <1>4, <1>5, <1>6

LEMMA NextRoom == RoomInv /\ [Next]_vars => RoomInv'
<1>. SUFFICES ASSUME RoomInv, [Next]_vars PROVE RoomInv'
  OBVIOUS
<1>1. CASE UNCHANGED vars
  <2>1. UNCHANGED <<top, lo, taskVars, wire, pageVars, drops>>
    BY <1>1 DEF vars, roomVars
  <2>. QED BY <2>1, RoomTypes, RoomStep DEF RoomInv
<1>2. CASE Next
  BY <1>2, WriteStep, ExpireStep, OpenStep, CheckResetStep, SendStep, TaskStep,
     ReceiveFrameStep, ReceiveResetStep, DisconnectStep, UnauthorizedStep, RefuseStep,
     MountStep DEF Next
<1>. QED BY <1>1, <1>2

-----------------------------------------------------------------------------
(* Theorems *)

(* Rooms, tasks, wires and pages are well typed, of any size and under all
   faults: in particular no page keeps more than BufferCap entries and the
   task never has more than one page of entries in hand. *)
THEOREM TypeCorrect == Spec => []TypeOK
<1>1. RoomInv => TypeOK
  BY DEF RoomInv
<1>. QED BY <1>1, InitRoom, NextRoom, PTL DEF Spec

(* A step of the page or the room is one of RoomLog, or none. *)
LEMMA StepRefines ==
  ASSUME RoomInv, [Next]_vars
  PROVE  [Log!LogNext]_<<top, lo, view>>
<1>1. TypeOK
  BY DEF RoomInv
<1>2. CASE UNCHANGED vars
  BY <1>2 DEF vars, roomVars, pageVars
<1>3. CASE Write
  <2>1. top' = top + 1 /\ lo' \in lo .. top' /\ view' = view
    BY <1>1, <1>3, WriteStep, RoomTypes DEF Write, pageVars
  <2>. QED BY <2>1 DEF Log!LogNext, Log!Write
<1>4. CASE Expire
  <2>1. top' = top /\ lo' \in lo .. top /\ view' = view
    BY <1>1, <1>4, RoomTypes DEF Expire, pageVars
  <2>. QED BY <2>1 DEF Log!LogNext, Log!Drop
<1>5. CASE ReceiveFrame
  <2>1. wire # <<>> /\ Head(wire) # Reset /\ UNCHANGED <<top, lo>>
        /\ view' = Pushed(Head(wire))
    BY <1>5 DEF ReceiveFrame, roomVars
  <2>2. Head(wire) \in Ids /\ Head(wire) \in 1 .. top /\ NoGap(lo, last, Head(wire))
    BY <1>1, <2>1, Received, RoomTypes DEF Ids
  <2>3. view' = Log!Kept(Append(view, Head(wire)))
    BY <1>1, <2>1, <2>2, PushedParts
  <2>4. Log!Shown = last
    BY DEF RoomInv, PageInv, Log!Shown
  <2>5. Log!Show(Head(wire))
    BY <2>1, <2>2, <2>3, <2>4 DEF Log!Show, Log!Follows, NoGap
  <2>. QED BY <2>2, <2>5 DEF Log!LogNext
<1>6. CASE ReceiveReset \/ Mount
  BY <1>6 DEF ReceiveReset, Mount, roomVars, Log!LogNext, Log!Wipe
<1>7. CASE Open \/ CheckReset \/ CheckFails \/ ReadPage \/ PageFails \/ ReadTail
            \/ Break \/ Send \/ Disconnect \/ Unauthorized \/ Refuse
  <2>1. UNCHANGED <<top, lo, view>>
    BY <1>7 DEF Open, CheckReset, CheckFails, ReadPage, PageFails, ReadTail, Break,
                Send, Disconnect, Unauthorized, Refuse, roomVars, pageVars
  <2>. QED BY <2>1
<1>. QED BY <1>2, <1>3, <1>4, <1>5, <1>6, <1>7 DEF Next

(* Whatever is trimmed, lost, retried, refused or reset, for rooms, pages,
   buffers and wires of any size: the page of a session shows the frames in
   the order of the room, each once, and leaves out none that the room still
   has (sse/room.rs with useSseRoom.ts). *)
THEOREM Refinement == Spec => ImplementsRoomLog
<1>1. Init => Log!LogInit
  BY DEF Init, Log!LogInit
<1>. QED BY <1>1, InitRoom, NextRoom, StepRefines, PTL
     DEF Spec, ImplementsRoomLog, Log!LogSpec
=============================================================================
