---------------------- MODULE TranscriptCapture_proofs ----------------------
(***************************************************************************)
(* Safety of the capture of a session, for any number of hooks, lines and  *)
(* rewrites: types, the bound of the gates' channels, the bound on frames  *)
(* that follow a `mute`, and that tailers hand over the lines of the file  *)
(* exactly, unless it changes under their feet.                            *)
(***************************************************************************)
EXTENDS TranscriptCapture, TLAPS

-----------------------------------------------------------------------------
(* Types *)

LEMMA SeqTypes ==
  ASSUME NEW S
  PROVE  /\ <<>> \in Seq(S) /\ Len(<<>>) = 0
         /\ \A s \in Seq(S) : Len(s) \in Nat
         /\ \A s \in Seq(S) : \A x \in S : Append(s, x) \in Seq(S) /\ Len(Append(s, x)) = Len(s) + 1
         /\ \A r, s \in Seq(S) : r \o s \in Seq(S)
         /\ \A s \in Seq(S) : s # <<>> =>
              Head(s) \in S /\ Tail(s) \in Seq(S) /\ Len(Tail(s)) = Len(s) - 1
OBVIOUS

LEMMA ElementType ==
  ASSUME NEW S, NEW s \in Seq(S), NEW i \in 1 .. Len(s)
  PROVE  s[i] \in S
OBVIOUS

LEMMA ShortSeqs ==
  ASSUME NEW S, NEW x \in S, NEW y \in S
  PROVE  <<x>> \in Seq(S) /\ <<x, y>> \in Seq(S)
OBVIOUS

LEMMA SuffixType ==
  ASSUME NEW S, NEW s \in Seq(S), NEW i \in Nat
  PROVE  SubSeq(s, i + 1, Len(s)) \in Seq(S)
OBVIOUS

LEMMA PointwiseType ==
  ASSUME NEW D, NEW S, NEW f \in [D -> S], NEW d \in D, NEW x \in S
  PROVE  [f EXCEPT ![d] = x] \in [D -> S]
OBVIOUS

LEMMA LinesType ==
  ASSUME TypeOK, Len(born) < MaxLines, NEW b \in BOOLEAN
  PROVE  Chunk(Len(born) + 1, b) \in Chunks
<1>1. Len(born) \in Nat BY SeqTypes DEF TypeOK
<1> QED BY <1>1, CaptureAssumption DEF Chunk, Chunks, Lines

(* The writer. *)
LEMMA BeginLineType ==
  ASSUME TypeOK, NEW chunks \in Seq(Chunks), BeginLine(chunks)
  PROVE  TypeOK'
<1>1. file' \in Seq(Chunks) BY SeqTypes DEF BeginLine, TypeOK
<1>2. born' \in Seq(0 .. MaxRewrites) /\ Len(born') = Len(born) + 1 /\ Len(born) \in Nat
  BY SeqTypes DEF BeginLine, TypeOK
<1>3. Len(born') <= MaxLines BY <1>2, CaptureAssumption DEF BeginLine
<1> QED BY <1>1, <1>2, <1>3 DEF BeginLine, WriterOnly, gateVars, tailVars, TypeOK

LEMMA WriterType ==
  ASSUME TypeOK, WriteLine \/ WriteHalf \/ WriteRest \/ (\E there \in BOOLEAN : Rewrite(there))
  PROVE  TypeOK'
<1>1. CASE WriteLine
  <2>1. Len(born) < MaxLines BY <1>1 DEF WriteLine, BeginLine
  <2>2. /\ Chunk(Len(born) + 1, FALSE) \in Chunks
        /\ Chunk(Len(born) + 1, TRUE) \in Chunks
    BY <2>1, LinesType
  <2>3. <<Chunk(Len(born) + 1, FALSE), Chunk(Len(born) + 1, TRUE)>> \in Seq(Chunks)
    BY <2>2, ShortSeqs
  <2> QED BY <1>1, <2>3, BeginLineType DEF WriteLine
<1>2. CASE WriteHalf
  <2>1. Len(born) < MaxLines BY <1>2 DEF WriteHalf, BeginLine
  <2>2. <<Chunk(Len(born) + 1, FALSE)>> \in Seq(Chunks) BY <2>1, LinesType, ShortSeqs
  <2> QED BY <1>2, <2>2, BeginLineType DEF WriteHalf
<1>3. CASE WriteRest
  <2>1. file \in Seq(Chunks) /\ file # <<>> BY <1>3 DEF WriteRest, Unfinished, TypeOK
  <2>2. Len(file) \in 1 .. Len(file) BY <2>1
  <2>3. file[Len(file)] \in Chunks BY <2>1, <2>2, ElementType
  <2>4. Chunk(file[Len(file)].line, TRUE) \in Chunks BY <2>3 DEF Chunk, Chunks
  <2>5. file' \in Seq(Chunks) BY <1>3, <2>1, <2>4, SeqTypes DEF WriteRest
  <2> QED BY <1>3, <2>5 DEF WriteRest, WriterOnly, gateVars, tailVars, TypeOK
<1>4. ASSUME NEW there \in BOOLEAN, Rewrite(there) PROVE TypeOK'
  <2>1. file' \in Seq(Chunks) BY <1>4, SeqTypes DEF Rewrite
  <2>2. rewrites' \in 0 .. MaxRewrites BY <1>4, CaptureAssumption DEF Rewrite, TypeOK
  <2> QED BY <1>4, <2>1, <2>2 DEF Rewrite, WriterOnly, gateVars, tailVars, TypeOK
<1> QED BY <1>1, <1>2, <1>3, <1>4

(* A step that changes only the state and the history of one tailer. *)
LEMMA TailerType ==
  ASSUME TypeOK, NEW t \in Tailers, NEW now \in TailerState,
         tailer' = [tailer EXCEPT ![t] = now], confused' \in [Tailers -> BOOLEAN],
         UNCHANGED <<gateVars, handed>>, TailerOnly
  PROVE  TypeOK'
BY PointwiseType DEF TypeOK, TailerOnly, fileVars, gateVars

LEMMA StatType == ASSUME TypeOK, NEW t \in Tailers, Stat(t) PROVE TypeOK'
<1> DEFINE now == [Restarted(t) EXCEPT !.seen = rewrites]
<1> DEFINE next == IF Len(file) = now.pos THEN now ELSE [now EXCEPT !.len = Len(file), !.pc = "read"]
<1>1. Len(file) \in Nat /\ rewrites \in 0 .. MaxRewrites BY SeqTypes DEF TypeOK
<1>2. Restarted(t) \in TailerState
  <2>1. tailer[t] \in TailerState BY DEF TypeOK
  <2>2. <<>> \in Seq(Chunks) BY SeqTypes
  <2>3. [tailer[t] EXCEPT !.pos = 0, !.carry = <<>>] \in TailerState BY <2>1, <2>2 DEF TailerState
  <2> QED BY <2>1, <2>3 DEF Restarted
<1>3. now \in TailerState BY <1>1, <1>2 DEF TailerState
<1>4. next \in TailerState BY <1>1, <1>3 DEF TailerState
<1>5. tailer' = [tailer EXCEPT ![t] = next] BY DEF Stat
<1>6. confused' \in [Tailers -> BOOLEAN] BY DEF Stat, TypeOK
<1> HIDE DEF next
<1> QED BY <1>4, <1>5, <1>6, TailerType DEF Stat

LEMMA ReadType == ASSUME TypeOK, NEW t \in Tailers, Read(t) PROVE TypeOK'
<1> DEFINE suffix == SubSeq(file, tailer[t].pos + 1, Len(file))
<1> DEFINE next == [tailer[t] EXCEPT !.pc = "split", !.pos = tailer[t].len, !.len = 0, !.carry = @ \o suffix]
<1>1. tailer[t] \in TailerState BY DEF TypeOK
<1>2. tailer[t].pos \in Nat /\ tailer[t].carry \in Seq(Chunks) /\ tailer[t].len \in Nat
  BY <1>1 DEF TailerState
<1>3. suffix \in Seq(Chunks) BY <1>2, SuffixType DEF TypeOK
<1>4. tailer[t].carry \o suffix \in Seq(Chunks) BY <1>2, <1>3, SeqTypes
<1>5. next \in TailerState BY <1>1, <1>2, <1>4 DEF TailerState
<1>6. tailer' = [tailer EXCEPT ![t] = next] BY DEF Read, TypeOK
<1>7. confused' \in [Tailers -> BOOLEAN] BY DEF Read, TypeOK
<1> HIDE DEF next
<1> QED BY <1>5, <1>6, <1>7, TailerType DEF Read

(* A move of the program counter alone. *)
LEMMA MoveType ==
  ASSUME TypeOK, NEW t \in Tailers, GiveUp(t) \/ ReadFails(t) \/ SplitDone(t) \/ SessionStart(t)
  PROVE  TypeOK'
<1>1. ASSUME NEW pc \in {"poll", "gone"} PROVE
        /\ [tailer[t] EXCEPT !.pc = pc] \in TailerState
        /\ [tailer[t] EXCEPT !.pc = pc, !.len = 0] \in TailerState
  <2>1. tailer[t] \in TailerState BY DEF TypeOK
  <2> QED BY <2>1 DEF TailerState
<1>2. tailer' \in [Tailers -> TailerState]
  <2>1. tailer \in [Tailers -> TailerState] BY DEF TypeOK
  <2>2. \E now \in TailerState : tailer' = [tailer EXCEPT ![t] = now]
    BY <1>1, <2>1 DEF GiveUp, ReadFails, SplitDone, SessionStart
  <2> QED BY <2>1, <2>2, PointwiseType
<1> QED BY <1>2 DEF GiveUp, ReadFails, SplitDone, SessionStart, TypeOK, TailerOnly, fileVars, gateVars

(* Cutting a line off the carry. *)
LEMMA SplitType == ASSUME TypeOK, NEW t \in Tailers, Split(t) PROVE TypeOK'
<1>1. PICK end \in Newlines(tailer[t].carry) :
        Skip(t, end) \/ Panic(t, end) \/ HandOver(t, end) \/ HandOverFails(t, end)
  BY DEF Split
<1>2. tailer[t] \in TailerState BY DEF TypeOK
<1>3. tailer[t].carry \in Seq(Chunks) BY <1>2 DEF TailerState
<1>4. end \in Nat /\ 1 \in 1 .. Len(tailer[t].carry) BY <1>3 DEF Newlines
<1>5. SubSeq(tailer[t].carry, end + 1, Len(tailer[t].carry)) \in Seq(Chunks)
  BY <1>3, <1>4, SuffixType
<1>6. ASSUME NEW pc \in {"split", "poll"}, TakeOff(t, end, pc)
      PROVE  tailer' \in [Tailers -> TailerState]
  BY <1>2, <1>5, <1>6 DEF TakeOff, TailerState, TypeOK
<1>7. tailer' \in [Tailers -> TailerState]
  <2>1. CASE Panic(t, end) BY <1>2, <2>1 DEF Panic, TailerState, TypeOK
  <2> QED BY <1>1, <1>6, <2>1 DEF Skip, HandOver, HandOverFails
<1>8. CASE Skip(t, end) \/ Panic(t, end) \/ HandOverFails(t, end)
  BY <1>7, <1>8 DEF Skip, Panic, HandOverFails, Split, TypeOK, TailerOnly, fileVars, gateVars
<1>9. CASE HandOver(t, end)
  <2> DEFINE n == tailer[t].carry[1].line
  <2>1. n \in Lines
    <3>1. tailer[t].carry[1] \in Chunks BY <1>3, <1>4, ElementType
    <3> QED BY <3>1 DEF Chunks
  <2>2. queue[t] \in Seq(Lines) /\ handed[t] \in Seq(Lines) BY DEF TypeOK
  <2>3. /\ Append(queue[t], n) \in Seq(Lines) /\ Append(handed[t], n) \in Seq(Lines)
        /\ Len(Append(queue[t], n)) = Len(queue[t]) + 1 /\ Len(queue[t]) \in Nat
    BY <2>1, <2>2, SeqTypes
  <2>4. queue' = [queue EXCEPT ![t] = Append(queue[t], n)]
        /\ handed' = [handed EXCEPT ![t] = Append(handed[t], n)]
    BY <1>9 DEF HandOver
  <2> HIDE DEF n
  <2>5. queue' \in [Tailers -> Seq(Lines)] /\ handed' \in [Tailers -> Seq(Lines)]
    BY <2>3, <2>4, PointwiseType DEF TypeOK
  <2>6. Len(queue[t]) < GateCapacity BY <1>9 DEF HandOver
  <2>7. \A u \in Tailers : Len(queue'[u]) <= GateCapacity
    BY <2>3, <2>4, <2>6, CaptureAssumption DEF TypeOK
  <2> QED BY <1>7, <1>9, <2>5, <2>7 DEF HandOver, Split, TypeOK, TailerOnly, fileVars
<1> QED BY <1>1, <1>8, <1>9

LEMMA GateType == ASSUME TypeOK, NEW t \in Tailers, GateStep(t) PROVE TypeOK'
<1> USE DEF GateOnly, fileVars, tailVars
<1>1. CASE GateTake(t)
  <2>1. queue[t] \in Seq(Lines) /\ queue[t] # <<>> BY <1>1 DEF GateTake, TypeOK
  <2>2. /\ Head(queue[t]) \in Lines /\ Tail(queue[t]) \in Seq(Lines)
        /\ Len(Tail(queue[t])) = Len(queue[t]) - 1 /\ Len(queue[t]) \in Nat
    BY <2>1, SeqTypes
  <2>3. queue' \in [Tailers -> Seq(Lines)] BY <1>1, <2>2, PointwiseType DEF GateTake, TypeOK
  <2>4. \A u \in Tailers : Len(queue'[u]) <= GateCapacity
    BY <1>1, <2>2, CaptureAssumption DEF GateTake, TypeOK
  <2>5. dropped' \subseteq Lines /\ gate' \in [Tailers -> Gates]
    BY <1>1, <2>2 DEF GateTake, TypeOK, Gates
  <2> QED BY <1>1, <2>3, <2>4, <2>5 DEF GateTake, TypeOK
<1>2. CASE GateSend(t) BY <1>2 DEF GateSend, TypeOK, Gates
<1>3. CASE GateEnds(t)
  <2>1. queue' \in [Tailers -> Seq(Lines)] BY <1>3, SeqTypes, PointwiseType DEF GateEnds, TypeOK
  <2>2. \A u \in Tailers : Len(queue'[u]) <= GateCapacity
    BY <1>3, SeqTypes, CaptureAssumption DEF GateEnds, TypeOK
  <2> QED BY <1>3, <2>1, <2>2 DEF GateEnds, TypeOK, Gates
<1> QED BY <1>1, <1>2, <1>3 DEF GateStep

LEMMA UserType == ASSUME TypeOK, Mute \/ Unmute \/ PumpStops PROVE TypeOK'
<1> USE DEF fileVars, tailVars, gateVars
<1>1. CASE Mute BY <1>1 DEF Mute, TypeOK
<1>2. CASE Unmute BY <1>2 DEF Unmute, TypeOK
<1>3. CASE PumpStops BY <1>3 DEF PumpStops, TypeOK
<1> QED BY <1>1, <1>2, <1>3

LEMMA TypeStep == ASSUME TypeOK, [Next]_vars PROVE TypeOK'
<1>1. CASE Environment BY <1>1, WriterType, UserType DEF Environment
<1>2. ASSUME NEW t \in Tailers, TailerStep(t) PROVE TypeOK'
  BY <1>2, StatType, ReadType, MoveType, SplitType DEF TailerStep
<1>3. CASE UNCHANGED vars BY <1>3 DEF vars, fileVars, gateVars, tailVars, TypeOK
<1> QED BY <1>1, <1>2, <1>3, MoveType, GateType DEF Next

(* The tailers and gates keep their types; in particular no gate's channel
   exceeds its capacity, whatever the tailers read. *)
THEOREM TypeCorrect == Spec => []TypeOK
<1>1. ASSUME Init PROVE TypeOK
  <2>1. \A S : <<>> \in Seq(S) /\ Len(<<>>) = 0 BY SeqTypes
  <2>2. 0 \in 0 .. MaxRewrites /\ 0 <= MaxLines /\ 0 <= GateCapacity BY CaptureAssumption
  <2>3. tailer \in [Tailers -> TailerState] BY <1>1, <2>1, <2>2 DEF Init, TailerState
  <2>4. queue \in [Tailers -> Seq(Lines)] /\ handed \in [Tailers -> Seq(Lines)]
    BY <1>1, <2>1 DEF Init
  <2>5. file \in Seq(Chunks) /\ born \in Seq(0 .. MaxRewrites) /\ Len(born) <= MaxLines
    BY <1>1, <2>1, <2>2 DEF Init
  <2>6. \A t \in Tailers : Len(queue[t]) <= GateCapacity BY <1>1, <2>1, <2>2 DEF Init
  <2>7. gate \in [Tailers -> Gates] /\ slipped \in [Tailers -> Nat] /\ confused \in [Tailers -> BOOLEAN]
    BY <1>1 DEF Init, Gates
  <2> QED BY <1>1, <2>2, <2>3, <2>4, <2>5, <2>6, <2>7 DEF Init, TypeOK
<1> QED BY <1>1, TypeStep, PTL DEF Spec

-----------------------------------------------------------------------------
(* The mute gate *)

(* While the flag is set, a gate that has let a frame follow holds no other:
   what it takes now it drops. *)
SlipInv ==
  \A t \in Tailers : muted =>
    slipped[t] = 0 \/ (slipped[t] = 1 /\ gate[t].status # "holds")

LEMMA SlipStep == ASSUME TypeOK, SlipInv, [Next]_vars PROVE SlipInv'
<1>1. CASE UNCHANGED <<muted, gate, slipped>> BY <1>1 DEF SlipInv
<1>2. CASE WriteLine \/ WriteHalf \/ WriteRest \/ (\E there \in BOOLEAN : Rewrite(there))
  BY <1>1, <1>2 DEF WriteLine, WriteHalf, WriteRest, Rewrite, BeginLine, WriterOnly, gateVars
<1>3. CASE Mute BY <1>3 DEF Mute, SlipInv, TypeOK
<1>4. CASE Unmute BY <1>4 DEF Unmute, SlipInv
<1>5. CASE PumpStops BY <1>1, <1>5 DEF PumpStops, gateVars
<1>6. ASSUME NEW t \in Tailers, SessionStart(t) \/ TailerStep(t) PROVE SlipInv'
  BY <1>1, <1>6 DEF SessionStart, TailerStep, Stat, GiveUp, Read, ReadFails, Split, SplitDone,
                    Skip, Panic, HandOver, HandOverFails, TailerOnly, gateVars
<1>7. ASSUME NEW t \in Tailers, GateTake(t) PROVE SlipInv'
  <2>1. CASE muted BY <1>7, <2>1 DEF GateTake, GateOnly, SlipInv
  <2>2. CASE ~muted BY <1>7, <2>2 DEF GateTake, GateOnly, SlipInv
  <2> QED BY <2>1, <2>2
<1>8. ASSUME NEW t \in Tailers, GateSend(t) PROVE SlipInv'
  <2>1. CASE muted BY <1>8, <2>1 DEF GateSend, GateOnly, SlipInv, TypeOK, Waiting
  <2>2. CASE ~muted BY <1>8, <2>2 DEF GateSend, GateOnly, SlipInv
  <2> QED BY <2>1, <2>2
<1>9. ASSUME NEW t \in Tailers, GateEnds(t) PROVE SlipInv'
  BY <1>9 DEF GateEnds, GateOnly, SlipInv, TypeOK, Ended
<1>10. CASE UNCHANGED vars BY <1>1, <1>10 DEF vars, gateVars
<1> QED
  BY <1>2, <1>3, <1>4, <1>5, <1>6, <1>7, <1>8, <1>9, <1>10 DEF Next, Environment, GateStep

(* After a `mute`, at most one frame per gate still leaves: the one whose send
   was already waiting. *)
THEOREM MuteBound == Spec => []SlipBounded
<1>1. Init => SlipInv BY DEF Init, SlipInv
<1>2. SlipInv => SlipBounded BY DEF SlipInv, SlipBounded
<1> QED BY <1>1, <1>2, SlipStep, TypeCorrect, PTL DEF Spec

-----------------------------------------------------------------------------
(* What a tailer hands over *)

(* Chunks as the writer leaves them: a line's second after its first, and then
   the next line. *)
Follows(a, c) ==
  IF a.ends THEN c = Chunk(a.line + 1, FALSE) ELSE c = Chunk(a.line, TRUE)

Running(c) == \A i \in 1 .. Len(c) - 1 : Follows(c[i], c[i + 1])

(* A file f, the g-th, and the files b in which lines were begun: lines of
   later files are later lines, and f holds all lines begun in it, in order. *)
FileOK(f, b, g) ==
  /\ \A n \in 1 .. Len(b) : b[n] <= g /\ \A m \in 1 .. n : b[m] <= b[n]
  /\ Running(f)
  /\ \A i \in 1 .. Len(f) : f[i].line \in 1 .. Len(b) /\ b[f[i].line] = g
  /\ f = <<>> => \A n \in 1 .. Len(b) : b[n] < g
  /\ f # <<>> => /\ ~f[1].ends
                 /\ f[Len(f)].line = Len(b)
                 /\ \A n \in 1 .. f[1].line - 1 : b[n] < g

(* Of the lines h that were handed over, each follows all earlier ones of its
   file. *)
HandedOK(h, b) ==
  \A k \in 1 .. Len(h) :
    /\ h[k] \in 1 .. Len(b)
    /\ \A i \in 1 .. k - 1 : h[i] < h[k]
    /\ \A n \in 1 .. h[k] - 1 : b[n] = b[h[k]] => \E i \in 1 .. k - 1 : h[i] = n

(* All lines of file g up to line m were handed over, and none after it. *)
Reached(h, m, g, b) ==
  /\ \A k \in 1 .. Len(h) : h[k] <= m
  /\ \A n \in 1 .. m : b[n] = g => \E i \in 1 .. Len(h) : h[i] = n

(* A tailer's carry begins where a line begins and ends at its position. *)
CarryOK(c, h, s, b) ==
  /\ Running(c)
  /\ \A i \in 1 .. Len(c) : c[i].line \in 1 .. Len(b) /\ b[c[i].line] = s
  /\ c # <<>> => ~c[1].ends /\ Reached(h, c[1].line - 1, s, b)

PlaceOK(pos, c, h, s, f, b) ==
  /\ pos <= Len(f)
  /\ IF c = <<>> THEN f[pos].ends /\ Reached(h, f[pos].line, s, b)
     ELSE c[Len(c)] = f[pos]

ReadTo(pos, c, s, h, f, b, g) ==
  /\ s <= g
  /\ \A k \in 1 .. Len(h) : b[h[k]] <= s
  /\ CarryOK(c, h, s, b)
  /\ pos = 0 => c = <<>> /\ \A k \in 1 .. Len(h) : b[h[k]] < s
  /\ pos > 0 /\ s = g => PlaceOK(pos, c, h, s, f, b)

ReaderOK(x, h, f, b, g) ==
  /\ ReadTo(x.pos, x.carry, x.seen, h, f, b, g)
  /\ x.pc = "read" => x.pos < x.len

(* A confused tailer may hand over anything, and one whose gate has ended
   hands over nothing more. *)
CaptureInv ==
  /\ FileOK(file, born, rewrites)
  /\ \A t \in Tailers : ~confused[t] =>
       /\ HandedOK(handed[t], born)
       /\ gate[t] # Ended => ReaderOK(tailer[t], handed[t], file, born, rewrites)

-----------------------------------------------------------------------------
(* Sequences of chunks *)

LEMMA AppendParts ==
  ASSUME NEW S, NEW s \in Seq(S), NEW x \in S
  PROVE  /\ Append(s, x) \in Seq(S) /\ Append(s, x) # <<>>
         /\ Len(s) \in Nat /\ Len(Append(s, x)) = Len(s) + 1
         /\ \A i \in 1 .. Len(s) : Append(s, x)[i] = s[i]
         /\ Append(s, x)[Len(s) + 1] = x
OBVIOUS

LEMMA Empty ==
  ASSUME NEW S, NEW s \in Seq(S)
  PROVE  Len(s) \in Nat /\ (s = <<>> <=> Len(s) = 0)
OBVIOUS

LEMMA NotEmpty ==
  ASSUME NEW S, NEW s \in Seq(S), s # <<>>
  PROVE  1 \in 1 .. Len(s) /\ Len(s) \in 1 .. Len(s)
OBVIOUS

LEMMA ConcatParts ==
  ASSUME NEW S, NEW s \in Seq(S), NEW r \in Seq(S)
  PROVE  /\ s \o r \in Seq(S) /\ Len(s \o r) = Len(s) + Len(r)
         /\ \A i \in 1 .. Len(s) : (s \o r)[i] = s[i]
         /\ \A i \in 1 .. Len(r) : (s \o r)[Len(s) + i] = r[i]
OBVIOUS

LEMMA SuffixParts ==
  ASSUME NEW S, NEW s \in Seq(S), NEW i \in 0 .. Len(s)
  PROVE  /\ SubSeq(s, i + 1, Len(s)) \in Seq(S)
         /\ Len(SubSeq(s, i + 1, Len(s))) = Len(s) - i
         /\ \A j \in 1 .. Len(s) - i : SubSeq(s, i + 1, Len(s))[j] = s[i + j]
OBVIOUS

LEMMA OneByOne ==
  ASSUME NEW S, NEW s \in Seq(S), NEW x \in S, NEW y \in S
  PROVE  /\ s \o <<x>> = Append(s, x)
         /\ s \o <<x, y>> = Append(Append(s, x), y)
OBVIOUS

LEMMA Below ==
  ASSUME NEW L \in Nat, NEW m \in 1 .. L
  PROVE  /\ m \in Nat /\ m - 1 \in 0 .. L
         /\ \A n \in 1 .. m - 1 : n \in 1 .. L /\ n < m
OBVIOUS

LEMMA ChunkParts ==
  /\ \A n, e : Chunk(n, e).line = n /\ Chunk(n, e).ends = e
  /\ \A c \in Chunks : c.line \in Nat /\ c.line >= 1 /\ c.ends \in BOOLEAN
  /\ \A n \in Lines, e \in BOOLEAN : Chunk(n, e) \in Chunks
BY CaptureAssumption DEF Chunk, Chunks, Lines

LEMMA ChunkFields ==
  ASSUME NEW n
  PROVE  /\ \A x : x = Chunk(n, FALSE) => x.line = n /\ ~x.ends
         /\ \A x : x = Chunk(n, TRUE) => x.line = n /\ x.ends
BY DEF Chunk

LEMMA RunningAppend ==
  ASSUME NEW S, NEW c \in Seq(S), NEW x \in S, Running(c),
         c # <<>> => Follows(c[Len(c)], x)
  PROVE  Running(Append(c, x))
<1>. DEFINE d == Append(c, x)
<1>1. /\ Len(c) \in Nat /\ Len(d) = Len(c) + 1 /\ d[Len(c) + 1] = x
      /\ \A i \in 1 .. Len(c) : d[i] = c[i]
  BY AppendParts
<1>2. c # <<>> <=> Len(c) # 0
  BY Empty
<1>. HIDE DEF d
<1>3. ASSUME NEW i \in 1 .. Len(d) - 1 PROVE Follows(d[i], d[i + 1])
  <2>1. CASE i < Len(c)
    <3>1. i \in 1 .. Len(c) - 1 /\ d[i] = c[i] /\ d[i + 1] = c[i + 1]
      BY <1>1, <2>1
    <3>. QED BY <3>1 DEF Running
  <2>2. CASE i = Len(c)
    <3>1. d[i] = c[Len(c)] /\ d[i + 1] = x /\ c # <<>>
      BY <1>1, <1>2, <2>2
    <3>. QED BY <3>1
  <2>. QED BY <1>1, <2>1, <2>2
<1>. QED BY <1>3 DEF Running, d

LEMMA RunningSuffix ==
  ASSUME NEW S, NEW c \in Seq(S), NEW i \in 0 .. Len(c), Running(c)
  PROVE  Running(SubSeq(c, i + 1, Len(c)))
<1>. DEFINE d == SubSeq(c, i + 1, Len(c))
<1>1. /\ Len(c) \in Nat /\ Len(d) = Len(c) - i
      /\ \A j \in 1 .. Len(c) - i : d[j] = c[i + j]
  BY SuffixParts, Empty
<1>. HIDE DEF d
<1>2. ASSUME NEW j \in 1 .. Len(d) - 1 PROVE Follows(d[j], d[j + 1])
  <2>1. i + j \in 1 .. Len(c) - 1 /\ d[j] = c[i + j] /\ d[j + 1] = c[(i + j) + 1]
    BY <1>1
  <2>. QED BY <2>1 DEF Running
<1>. QED BY <1>2 DEF Running, d

LEMMA RunningConcat ==
  ASSUME NEW S, NEW c \in Seq(S), NEW d \in Seq(S), Running(c), Running(d),
         c # <<>> /\ d # <<>> => Follows(c[Len(c)], d[1])
  PROVE  Running(c \o d)
<1>. DEFINE e == c \o d
<1>1. /\ Len(e) = Len(c) + Len(d) /\ Len(c) \in Nat /\ Len(d) \in Nat
      /\ \A i \in 1 .. Len(c) : e[i] = c[i]
      /\ \A i \in 1 .. Len(d) : e[Len(c) + i] = d[i]
      /\ (c # <<>> <=> Len(c) # 0) /\ (d # <<>> <=> Len(d) # 0)
  BY ConcatParts, Empty
<1>. HIDE DEF e
<1>2. ASSUME NEW i \in 1 .. Len(e) - 1 PROVE Follows(e[i], e[i + 1])
  <2>1. CASE i < Len(c)
    <3>1. i \in 1 .. Len(c) - 1 /\ e[i] = c[i] /\ e[i + 1] = c[i + 1]
      BY <1>1, <2>1
    <3>. QED BY <3>1 DEF Running
  <2>2. CASE i = Len(c)
    <3>1. 1 \in 1 .. Len(d) /\ Len(c) # 0
      BY <1>1, <2>2
    <3>2. e[i] = c[Len(c)] /\ e[i + 1] = d[1] /\ c # <<>> /\ d # <<>>
      BY <1>1, <2>2, <3>1
    <3>. QED BY <3>2
  <2>3. CASE i > Len(c)
    <3>. DEFINE j == i - Len(c)
    <3>1. j \in 1 .. Len(d) - 1 /\ j + 1 \in 1 .. Len(d) /\ j \in 1 .. Len(d)
          /\ i = Len(c) + j /\ i + 1 = Len(c) + (j + 1)
      BY <1>1, <2>3
    <3>. HIDE DEF j
    <3>2. e[i] = d[j]
      BY <1>1, <3>1
    <3>3. e[i + 1] = d[j + 1]
      BY <1>1, <3>1
    <3>. QED BY <3>1, <3>2, <3>3 DEF Running
  <2>. QED BY <1>1, <2>1, <2>2, <2>3
<1>. QED BY <1>2 DEF Running, e
-----------------------------------------------------------------------------
(* The writer *)

(* A new line is begun in f. *)
LEMMA FileBegins ==
  ASSUME NEW f \in Seq(Chunks), NEW b \in Seq(Nat), NEW g \in Nat,
         FileOK(f, b, g), f # <<>> => f[Len(f)].ends, Len(b) < MaxLines
  PROVE  FileOK(Append(f, Chunk(Len(b) + 1, FALSE)), Append(b, g), g)
<1>. DEFINE x == Chunk(Len(b) + 1, FALSE)
            f2 == Append(f, x)
            b2 == Append(b, g)
<1>1. Len(b) \in Nat /\ x.line = Len(b) + 1 /\ x.ends = FALSE /\ x \in Chunks
  <2>1. Len(b) \in Nat /\ Len(b) + 1 \in Lines
    BY Empty, CaptureAssumption DEF Lines
  <2>. QED BY <2>1, ChunkParts
<1>2. Follows(f[Len(f)], x) \/ f = <<>>
  <2>1. f # <<>> => f[Len(f)].ends /\ f[Len(f)].line = Len(b)
    BY DEF FileOK
  <2>. QED BY <2>1 DEF Follows
<1>. HIDE DEF x
<1>3. /\ f2 # <<>> /\ Len(f) \in Nat /\ Len(f2) = Len(f) + 1 /\ f2[Len(f) + 1] = x
      /\ (\A i \in 1 .. Len(f) : f2[i] = f[i])
      /\ (f = <<>> <=> Len(f) = 0)
  BY <1>1, AppendParts, Empty
<1>4. /\ Len(b2) = Len(b) + 1 /\ b2[Len(b) + 1] = g
      /\ (\A n \in 1 .. Len(b) : b2[n] = b[n])
      /\ (\A n \in 1 .. Len(b) : b[n] \in Nat) /\ g \in Nat
  BY AppendParts, CaptureAssumption
<1>5. Running(f2)
  BY <1>1, <1>2, RunningAppend DEF FileOK
<1>. HIDE DEF f2, b2
<1>6. ASSUME NEW n \in 1 .. Len(b2), NEW m \in 1 .. n
      PROVE  b2[n] <= g /\ b2[m] <= b2[n]
  <2>1. CASE n \in 1 .. Len(b)
    <3>1. m \in 1 .. Len(b)
      BY <1>1, <2>1
    <3>2. b2[n] = b[n] /\ b2[m] = b[m]
      BY <1>4, <2>1, <3>1
    <3>3. b[n] <= g /\ b[m] <= b[n]
      BY <2>1 DEF FileOK
    <3>. QED BY <3>2, <3>3
  <2>2. CASE n = Len(b) + 1
    <3>1. b2[n] = g /\ (m = n \/ m \in 1 .. Len(b))
      BY <1>1, <1>4, <2>2
    <3>2. m \in 1 .. Len(b) => b2[m] <= g
      BY <1>4 DEF FileOK
    <3>. QED BY <1>4, <3>1, <3>2
  <2>. QED BY <1>1, <1>4, <2>1, <2>2
<1>7. ASSUME NEW i \in 1 .. Len(f2)
      PROVE  f2[i].line \in 1 .. Len(b2) /\ b2[f2[i].line] = g
  <2>1. CASE i \in 1 .. Len(f)
    <3>1. f2[i] = f[i] /\ f[i].line \in 1 .. Len(b) /\ b[f[i].line] = g
      BY <1>3, <2>1 DEF FileOK
    <3>2. PICK n \in 1 .. Len(b) : n = f[i].line
      BY <3>1
    <3>3. n \in 1 .. Len(b2) /\ b2[n] = b[n]
      BY <1>1, <1>4
    <3>. QED BY <3>1, <3>2, <3>3
  <2>2. CASE i = Len(f) + 1
    BY <1>1, <1>3, <1>4, <2>2
  <2>. QED BY <1>3, <2>1, <2>2
<1>8. ~f2[1].ends /\ \A n \in 1 .. f2[1].line - 1 : b2[n] < g
  <2>1. CASE f = <<>>
    <3>1. f2[1] = x
      BY <1>3, <2>1
    <3>2. \A n \in 1 .. Len(b) : b2[n] < g
      BY <1>4, <2>1 DEF FileOK
    <3>. QED BY <1>1, <3>1, <3>2
  <2>2. CASE f # <<>>
    <3>1. 1 \in 1 .. Len(f) /\ f2[1] = f[1]
      BY <1>3, <2>2
    <3>2. f[1].line \in 1 .. Len(b) /\ ~f[1].ends /\ \A n \in 1 .. f[1].line - 1 : b[n] < g
      BY <2>2, <3>1 DEF FileOK
    <3>3. \A n \in 1 .. f[1].line - 1 : n \in 1 .. Len(b)
      BY <1>1, <3>2, Below
    <3>. QED BY <1>4, <3>1, <3>2, <3>3
  <2>. QED BY <2>1, <2>2
<1>9. f2[Len(f2)].line = Len(b2)
  BY <1>1, <1>3, <1>4
<1>10. \A n \in 1 .. Len(b2) : b2[n] <= g /\ \A m \in 1 .. n : b2[m] <= b2[n]
  <2>1. \A n \in 1 .. Len(b2) : 1 \in 1 .. n
    OBVIOUS
  <2>. QED BY <1>6, <2>1
<1>11. FileOK(f2, b2, g)
  BY <1>3, <1>5, <1>7, <1>8, <1>9, <1>10 DEF FileOK
<1>. QED BY <1>11 DEF f2, b2, x

(* The line begun is ended. *)
LEMMA FileEnds ==
  ASSUME NEW f \in Seq(Chunks), NEW b \in Seq(Nat), NEW g \in Nat,
         FileOK(f, b, g), f # <<>>, ~f[Len(f)].ends
  PROVE  FileOK(Append(f, Chunk(f[Len(f)].line, TRUE)), b, g)
<1>. DEFINE x == Chunk(f[Len(f)].line, TRUE)
            f2 == Append(f, x)
<1>1. Len(f) \in Nat /\ Len(f) \in 1 .. Len(f) /\ 1 \in 1 .. Len(f)
  BY Empty
<1>2. f[Len(f)] \in Chunks
  BY <1>1, ElementType
<1>3. f[Len(f)].line \in Lines
  BY <1>2 DEF Chunks
<1>4. /\ x \in Chunks /\ x.line = f[Len(f)].line /\ x.ends = TRUE
      /\ Follows(f[Len(f)], x)
  BY <1>3, ChunkParts DEF Follows
<1>5. f[Len(f)].line = Len(b) /\ f[Len(f)].line \in 1 .. Len(b) /\ b[f[Len(f)].line] = g
  BY <1>1 DEF FileOK
<1>. HIDE DEF x
<1>6. /\ f2 # <<>> /\ Len(f2) = Len(f) + 1 /\ f2[Len(f) + 1] = x
      /\ \A i \in 1 .. Len(f) : f2[i] = f[i]
  BY <1>4, AppendParts
<1>7. Running(f2)
  BY <1>4, RunningAppend DEF FileOK
<1>. HIDE DEF f2
<1>8. ASSUME NEW i \in 1 .. Len(f2)
      PROVE  f2[i].line \in 1 .. Len(b) /\ b[f2[i].line] = g
  <2>1. CASE i \in 1 .. Len(f)
    BY <1>6, <2>1 DEF FileOK
  <2>2. CASE i = Len(f) + 1
    BY <1>4, <1>5, <1>6, <2>2
  <2>. QED BY <1>1, <1>6, <2>1, <2>2
<1>9. f2[1] = f[1] /\ f2[Len(f2)] = x
  BY <1>1, <1>6
<1>10. FileOK(f2, b, g)
  BY <1>4, <1>5, <1>6, <1>7, <1>8, <1>9 DEF FileOK
<1>. QED BY <1>10 DEF f2, x

(* A rewrite. *)
LEMMA FileGoes ==
  ASSUME NEW f, NEW b \in Seq(Nat), NEW g \in Nat, FileOK(f, b, g)
  PROVE  FileOK(<<>>, b, g + 1)
<1>1. \A n \in 1 .. Len(b) : b[n] \in Nat /\ b[n] <= g
  BY ElementType DEF FileOK
<1>2. \A n \in 1 .. Len(b) : b[n] <= g + 1 /\ b[n] < g + 1
  <2>1. g \in Nat
    OBVIOUS
  <2>2. \A i \in Nat : i <= g => i <= g + 1 /\ i < g + 1
    BY <2>1
  <2>. QED BY <1>1, <2>2
<1>3. Len(<<>>) = 0
  OBVIOUS
<1>4. Running(<<>>) /\ \A i : i \notin 1 .. Len(<<>>)
  BY <1>3 DEF Running
<1>. QED BY <1>2, <1>4 DEF FileOK

(* What writing leaves of a file f, the g-th, and of the files b: the file only
   grows, or it is another one. *)
Grows(f, b, g, f2, b2, g2) ==
  /\ Len(b) <= Len(b2) /\ \A n \in 1 .. Len(b) : b2[n] = b[n]
  /\ g <= g2
  /\ g2 = g => Len(f) <= Len(f2) /\ \A i \in 1 .. Len(f) : f2[i] = f[i]

(* Nothing that was written changes what tailers have handed over, or what
   they carry. *)
LEMMA GrowthKeeps ==
  ASSUME NEW f \in Seq(Chunks), NEW b \in Seq(Nat), NEW g \in Nat,
         NEW f2 \in Seq(Chunks), NEW b2 \in Seq(Nat), NEW g2 \in Nat,
         Grows(f, b, g, f2, b2, g2), FileOK(f, b, g),
         NEW pos \in Nat, NEW c \in Seq(Chunks), NEW s \in Nat,
         NEW h \in Seq(Lines), HandedOK(h, b)
  PROVE  HandedOK(h, b2) /\ (ReadTo(pos, c, s, h, f, b, g) => ReadTo(pos, c, s, h, f2, b2, g2))
<1>1. /\ Len(b) \in Nat /\ Len(b2) \in Nat /\ Len(f) \in Nat /\ Len(f2) \in Nat
      /\ Len(b) <= Len(b2)
      /\ \A n \in 1 .. Len(b) : b2[n] = b[n] /\ n \in 1 .. Len(b2)
      /\ \A k \in 1 .. Len(h) : h[k] \in 1 .. Len(b)
  BY Empty DEF Grows, HandedOK
<1>2. g <= g2
  BY DEF Grows
<1>3. HandedOK(h, b2)
  <2>. SUFFICES ASSUME NEW k \in 1 .. Len(h)
                PROVE  /\ h[k] \in 1 .. Len(b2)
                       /\ \A i \in 1 .. k - 1 : h[i] < h[k]
                       /\ \A n \in 1 .. h[k] - 1 :
                            b2[n] = b2[h[k]] => \E i \in 1 .. k - 1 : h[i] = n
    BY DEF HandedOK
  <2>1. h[k] \in 1 .. Len(b) /\ b2[h[k]] = b[h[k]] /\ h[k] \in 1 .. Len(b2)
    BY <1>1
  <2>2. \A n \in 1 .. h[k] - 1 : n \in 1 .. Len(b) /\ b2[n] = b[n]
    BY <1>1, <2>1, Below
  <2>3. /\ \A i \in 1 .. k - 1 : h[i] < h[k]
        /\ \A n \in 1 .. h[k] - 1 : b[n] = b[h[k]] => \E i \in 1 .. k - 1 : h[i] = n
    BY DEF HandedOK
  <2>4. \A n \in 1 .. h[k] - 1 : b2[n] = b2[h[k]] => b[n] = b[h[k]]
    BY <2>1, <2>2
  <2>. QED BY <2>1, <2>3, <2>4
<1>4. ASSUME NEW m \in 0 .. Len(b), Reached(h, m, s, b)
      PROVE  Reached(h, m, s, b2)
  <2>1. \A n \in 1 .. m : b2[n] = b[n]
    BY <1>1
  <2>. QED BY <1>4, <2>1 DEF Reached
<1>5. ASSUME ReadTo(pos, c, s, h, f, b, g) PROVE ReadTo(pos, c, s, h, f2, b2, g2)
  <2>1. CarryOK(c, h, s, b2)
    <3>1. \A i \in 1 .. Len(c) : c[i].line \in 1 .. Len(b) /\ b[c[i].line] = s
      BY <1>5 DEF ReadTo, CarryOK
    <3>2. c # <<>> => 1 \in 1 .. Len(c)
      BY <1>2, NotEmpty
    <3>3. c # <<>> => c[1].line - 1 \in 0 .. Len(b)
      BY <1>1, <3>1, <3>2, Below
    <3>4. c # <<>> => Reached(h, c[1].line - 1, s, b2)
      BY <1>4, <1>5, <3>3 DEF ReadTo, CarryOK
    <3>. QED BY <1>1, <1>5, <3>1, <3>4 DEF ReadTo, CarryOK
  <2>2. ASSUME pos > 0, s = g2 PROVE PlaceOK(pos, c, h, s, f2, b2)
    <3>1. s = g /\ g2 = g
      <4>1. s <= g
        BY <1>5 DEF ReadTo
      <4>. QED BY <1>2, <2>2, <4>1
    <3>2. Len(f) <= Len(f2) /\ (\A i \in 1 .. Len(f) : f2[i] = f[i])
          /\ PlaceOK(pos, c, h, s, f, b)
      BY <1>5, <2>2, <3>1 DEF ReadTo, Grows
    <3>3. pos \in 1 .. Len(f) /\ pos <= Len(f2)
      BY <1>1, <2>2, <3>2 DEF PlaceOK
    <3>4. f[pos].line \in 1 .. Len(b)
      BY <3>3 DEF FileOK
    <3>5. f[pos].line \in 0 .. Len(b)
      BY <1>1, <3>4
    <3>. QED BY <1>4, <3>2, <3>3, <3>5 DEF PlaceOK
  <2>3. s <= g2
    <3>1. s <= g
      BY <1>5 DEF ReadTo
    <3>. QED BY <1>2, <3>1
  <2>4. \A k \in 1 .. Len(h) : b2[h[k]] = b[h[k]]
    BY <1>1
  <2>. QED BY <1>5, <2>1, <2>2, <2>3, <2>4 DEF ReadTo
<1>. QED BY <1>3, <1>5
-----------------------------------------------------------------------------
(* The tailers *)

LEMMA NatElements ==
  ASSUME NEW s \in Seq(Nat)
  PROVE  Len(s) \in Nat /\ \A i \in 1 .. Len(s) : s[i] \in Nat
OBVIOUS

LEMMA LessTrans ==
  ASSUME NEW a \in Nat, NEW c \in Nat
  PROVE  /\ \A i \in Nat : i < a /\ a <= c => i < c
         /\ \A i \in Nat : i <= a /\ a < c => i < c
         /\ \A i \in Nat : i < a => i <= a
OBVIOUS

(* Nothing was handed over of a file that has not been read yet. *)
LEMMA NothingReached ==
  ASSUME NEW b \in Seq(Nat), NEW g \in Nat, NEW n \in 1 .. Len(b),
         \A j \in 1 .. Len(b) : \A i \in 1 .. j : b[i] <= b[j],
         b[n] = g, \A i \in 1 .. n - 1 : b[i] < g,
         NEW h \in Seq(Lines), HandedOK(h, b), \A k \in 1 .. Len(h) : b[h[k]] < g
  PROVE  Reached(h, n - 1, g, b)
<1>1. Len(b) \in Nat /\ n \in Nat /\ n >= 1 /\ \A i \in 1 .. Len(b) : b[i] \in Nat
  <2>1. \A i \in 1 .. Len(b) : b[i] \in Nat
    OBVIOUS
  <2>2. Len(b) \in Nat
    OBVIOUS
  <2>. QED BY <2>1, <2>2
<1>2. ASSUME NEW k \in 1 .. Len(h) PROVE h[k] <= n - 1
  <2>1. h[k] \in 1 .. Len(b) /\ b[h[k]] < g
    BY DEF HandedOK
  <2>2. PICK m \in 1 .. Len(b) : m = h[k]
    BY <2>1
  <2>3. ~ n <= m
    <3>1. SUFFICES ASSUME n <= m PROVE FALSE
      OBVIOUS
    <3>2. n \in 1 .. m
      BY <1>1, <3>1
    <3>3. b[n] <= b[m]
      BY <3>2
    <3>4. b[m] \in Nat /\ b[m] < g
      BY <1>1, <2>1, <2>2
    <3>5. g <= b[m]
      BY <3>3
    <3>. QED BY <3>4, <3>5
  <2>. QED BY <1>1, <2>2, <2>3
<1>3. ASSUME NEW i \in 1 .. n - 1 PROVE b[i] # g
  <2>1. i \in 1 .. Len(b) /\ b[i] < g
    BY <1>1
  <2>. QED BY <1>1, <2>1
<1>. QED BY <1>2, <1>3 DEF Reached

LEMMA EmptyCarry ==
  ASSUME NEW h, NEW s, NEW b
  PROVE  CarryOK(<<>>, h, s, b)
<1>1. Len(<<>>) = 0
  OBVIOUS
<1>2. \A i : i \notin 1 .. Len(<<>>) /\ i \notin 1 .. Len(<<>>) - 1
  BY <1>1
<1>. QED BY <1>2 DEF CarryOK, Running

(* The length is asked for: a file shorter than the position is a new one. *)
LEMMA StatReads ==
  ASSUME NEW f \in Seq(Chunks), NEW b \in Seq(Nat), NEW g \in Nat,
         NEW h \in Seq(Lines), HandedOK(h, b),
         NEW p \in Nat, NEW c \in Seq(Chunks), NEW s \in Nat, ReadTo(p, c, s, h, f, b, g),
         NEW q \in Nat, NEW d \in Seq(Chunks),
         IF Len(f) < p THEN q = 0 /\ d = <<>> ELSE q = p /\ d = c,
         q > 0 => s = g
  PROVE  ReadTo(q, d, g, h, f, b, g) /\ q <= Len(f)
<1>1. Len(f) \in Nat /\ s <= g
  BY Empty DEF ReadTo
<1>2. \A k \in 1 .. Len(h) : b[h[k]] \in Nat
  <2>1. \A i \in 1 .. Len(b) : b[i] \in Nat
    BY NatElements
  <2>2. \A k \in 1 .. Len(h) : h[k] \in 1 .. Len(b)
    BY DEF HandedOK
  <2>. QED BY <2>1, <2>2, Zenon
<1>3. CASE q > 0
  BY <1>1, <1>3 DEF ReadTo
<1>4. CASE q = 0
  <2>1. d = <<>>
    BY <1>1, <1>4 DEF ReadTo
  <2>2. \A k \in 1 .. Len(h) : b[h[k]] < g
    <3>1. CASE p = 0
      <4>1. \A k \in 1 .. Len(h) : b[h[k]] < s
        BY <3>1 DEF ReadTo
      <4>. QED BY <1>1, <1>2, <4>1, LessTrans, Zenon
    <3>2. CASE p # 0
      <4>1. s # g
        <5>1. SUFFICES ASSUME s = g PROVE FALSE
          OBVIOUS
        <5>2. p <= Len(f)
          BY <3>2, <5>1 DEF ReadTo, PlaceOK
        <5>. QED BY <1>1, <1>4, <3>2, <5>2
      <4>2. \A k \in 1 .. Len(h) : b[h[k]] <= s
        BY DEF ReadTo
      <4>3. s < g
        BY <1>1, <4>1
      <4>. QED BY <1>2, <4>2, <4>3, LessTrans, Zenon
    <3>. QED BY <3>1, <3>2
  <2>3. \A k \in 1 .. Len(h) : b[h[k]] <= g
    BY <1>2, <2>2, LessTrans, Zenon
  <2>4. CarryOK(d, h, g, b)
    BY <2>1, EmptyCarry
  <2>. QED BY <1>1, <1>4, <2>1, <2>2, <2>3, <2>4 DEF ReadTo
<1>. QED BY <1>3, <1>4

(* The file is read to its end, which is where it was when the length was
   asked for. *)
LEMMA ReadReads ==
  ASSUME NEW f \in Seq(Chunks), NEW b \in Seq(Nat), NEW g \in Nat, FileOK(f, b, g),
         NEW h \in Seq(Lines), HandedOK(h, b),
         NEW p \in Nat, NEW c \in Seq(Chunks), ReadTo(p, c, g, h, f, b, g), p < Len(f)
  PROVE  ReadTo(Len(f), c \o SubSeq(f, p + 1, Len(f)), g, h, f, b, g)
<1>. DEFINE d == SubSeq(f, p + 1, Len(f))
<1>1. Len(f) \in Nat /\ p \in 0 .. Len(f) /\ p + 1 \in 1 .. Len(f)
  BY Empty
<1>2. /\ d \in Seq(Chunks) /\ Len(d) = Len(f) - p
      /\ \A j \in 1 .. Len(f) - p : d[j] = f[p + j]
      /\ Running(d)
  BY <1>1, SuffixParts, RunningSuffix DEF FileOK
<1>3. /\ Running(c) /\ (\A i \in 1 .. Len(c) : c[i].line \in 1 .. Len(b) /\ b[c[i].line] = g)
      /\ c # <<>> => ~c[1].ends /\ Reached(h, c[1].line - 1, g, b)
  BY DEF ReadTo, CarryOK
<1>4. /\ p = 0 => c = <<>> /\ \A k \in 1 .. Len(h) : b[h[k]] < g
      /\ p > 0 => PlaceOK(p, c, h, g, f, b)
  BY DEF ReadTo
<1>5. /\ Running(f)
      /\ \A i \in 1 .. Len(f) : f[i].line \in 1 .. Len(b) /\ b[f[i].line] = g
  BY DEF FileOK
<1>6. p > 0 => Follows(f[p], f[p + 1])
  BY <1>1, <1>5 DEF Running
<1>. HIDE DEF d
<1>7. d[1] = f[p + 1] /\ d[Len(d)] = f[Len(f)] /\ Len(d) >= 1 /\ d # <<>>
  <2>1. /\ 1 \in 1 .. Len(f) - p /\ Len(d) \in 1 .. Len(f) - p /\ p + Len(d) = Len(f)
        /\ Len(d) >= 1 /\ Len(d) # 0
    BY <1>1, <1>2
  <2>2. d # <<>>
    BY <2>1, SeqTypes, Zenon
  <2>3. d[1] = f[p + 1]
    BY <1>2, <2>1, Zenon
  <2>4. d[Len(d)] = f[p + Len(d)]
    BY <1>2, <2>1, Zenon
  <2>. QED BY <2>1, <2>2, <2>3, <2>4, Zenon
<1>8. c # <<>> => p > 0 /\ c[Len(c)] = f[p]
  BY <1>1, <1>4 DEF PlaceOK
<1>9. Running(c \o d)
  BY <1>1, <1>2, <1>3, <1>6, <1>7, <1>8, RunningConcat
<1>. DEFINE e == c \o d
<1>10. /\ e \in Seq(Chunks) /\ Len(e) = Len(c) + Len(d) /\ Len(c) \in Nat
       /\ \A i \in 1 .. Len(c) : e[i] = c[i]
       /\ \A i \in 1 .. Len(d) : e[Len(c) + i] = d[i]
       /\ (c = <<>> <=> Len(c) = 0)
  <2>1. Len(c) \in Nat /\ (c = <<>> <=> Len(c) = 0)
    BY Empty
  <2>2. d \in Seq(Chunks) /\ c \in Seq(Chunks)
    BY <1>2
  <2>. QED BY <2>1, <2>2, ConcatParts
<1>. HIDE DEF e
<1>11. ASSUME NEW i \in 1 .. Len(e)
       PROVE  e[i].line \in 1 .. Len(b) /\ b[e[i].line] = g
  <2>1. CASE i \in 1 .. Len(c)
    BY <1>3, <1>10, <2>1
  <2>2. CASE i > Len(c)
    <3>1. PICK j \in 1 .. Len(d) : i = Len(c) + j
      <4>1. i - Len(c) \in 1 .. Len(d) /\ i = Len(c) + (i - Len(c))
        BY <1>1, <1>2, <1>10, <2>2
      <4>. QED BY <4>1
    <3>2. e[i] = d[j]
      BY <1>10, <3>1
    <3>3. p + j \in 1 .. Len(f) /\ j \in 1 .. Len(f) - p
      BY <1>1, <1>2
    <3>4. e[i] = f[p + j]
      BY <1>2, <3>2, <3>3
    <3>. QED BY <1>5, <3>3, <3>4
  <2>. QED BY <1>10, <2>1, <2>2
<1>12. ~e[1].ends /\ Reached(h, e[1].line - 1, g, b)
  <2>1. CASE c # <<>>
    <3>1. e[1] = c[1]
      BY <1>10, <2>1
    <3>. QED BY <1>3, <2>1, <3>1
  <2>2. CASE c = <<>>
    <3>1. e[1] = f[p + 1]
      <4>1. 1 \in 1 .. Len(d) /\ Len(c) + 1 = 1
        BY <1>1, <1>2, <1>10, <2>2
      <4>. QED BY <1>7, <1>10, <4>1
    <3>2. CASE p = 0
      <4>1. /\ ~f[1].ends /\ f[1].line \in 1 .. Len(b) /\ b[f[1].line] = g
            /\ \A n \in 1 .. f[1].line - 1 : b[n] < g
            /\ \A j \in 1 .. Len(b) : \A i \in 1 .. j : b[i] <= b[j]
        <5>1. f # <<>> /\ 1 \in 1 .. Len(f)
          BY <1>1, <3>2, SeqTypes
        <5>2. f[1].line \in 1 .. Len(b) /\ b[f[1].line] = g
          BY <1>5, <5>1
        <5>3. ~f[1].ends /\ \A n \in 1 .. f[1].line - 1 : b[n] < g
          BY <5>1 DEF FileOK
        <5>4. \A j \in 1 .. Len(b) : \A i \in 1 .. j : b[i] <= b[j]
          BY DEF FileOK
        <5>. QED BY <5>2, <5>3, <5>4
      <4>2. Reached(h, f[1].line - 1, g, b)
        BY <1>4, <3>2, <4>1, NothingReached
      <4>. QED BY <3>1, <3>2, <4>1, <4>2
    <3>3. CASE p > 0
      <4>1. f[p].ends /\ Reached(h, f[p].line, g, b)
        BY <1>4, <2>2, <3>3 DEF PlaceOK
      <4>2. f[p + 1] = Chunk(f[p].line + 1, FALSE)
        BY <1>6, <3>3, <4>1 DEF Follows
      <4>3. ~f[p + 1].ends /\ f[p + 1].line = f[p].line + 1
        <5>1. PICK x, n : x = f[p + 1] /\ n = f[p].line + 1
          OBVIOUS
        <5>2. x = Chunk(n, FALSE)
          BY <4>2, <5>1
        <5>3. x.line = n /\ ~x.ends
          BY <5>2, ChunkFields
        <5>. QED BY <5>1, <5>3
      <4>4. PICK m \in Nat : m = f[p].line
        <5>1. p \in 1 .. Len(f)
          BY <1>1, <3>3
        <5>2. f[p].line \in 1 .. Len(b)
          BY <1>5, <5>1
        <5>. QED BY <5>2
      <4>5. f[p + 1].line - 1 = f[p].line
        BY <4>3, <4>4
      <4>. QED BY <3>1, <4>1, <4>3, <4>5
    <3>. QED BY <1>1, <3>2, <3>3
  <2>. QED BY <2>1, <2>2
<1>13. CarryOK(e, h, g, b)
  BY <1>9, <1>11, <1>12 DEF CarryOK, e
<1>14. PlaceOK(Len(f), e, h, g, f, b)
  <2>1. Len(e) # 0
    BY <1>1, <1>2, <1>7, <1>10
  <2>2. e # <<>>
    BY <1>10, <2>1, Empty
  <2>3. e[Len(e)] = f[Len(f)]
    <3>1. Len(d) \in 1 .. Len(d)
      BY <1>1, <1>2, <1>7
    <3>. QED BY <1>7, <1>10, <3>1
  <2>. QED BY <1>1, <2>2, <2>3 DEF PlaceOK
<1>15. Len(f) # 0 /\ g <= g /\ \A k \in 1 .. Len(h) : b[h[k]] <= g
  BY <1>1 DEF ReadTo
<1>16. ReadTo(Len(f), e, g, h, f, b, g)
  BY <1>13, <1>14, <1>15 DEF ReadTo
<1>. QED BY <1>16 DEF e, d
LEMMA Pair ==
  ASSUME NEW S, NEW r \in Seq(S), Len(r) = 2
  PROVE  r = <<r[1], r[2]>>
OBVIOUS

LEMMA FirstTwo ==
  ASSUME NEW S, NEW s \in Seq(S), 2 \in 1 .. Len(s)
  PROVE  /\ SubSeq(s, 1, 2) = <<s[1], s[2]>> /\ SubSeq(s, 1, 2)[1] = s[1]
         /\ s[1] \in S
<1>1. /\ SubSeq(s, 1, 2) \in Seq(S) /\ Len(SubSeq(s, 1, 2)) = 2
      /\ SubSeq(s, 1, 2)[1] = s[1] /\ SubSeq(s, 1, 2)[2] = s[2] /\ s[1] \in S
  OBVIOUS
<1>. QED BY <1>1, Pair

LEMMA BeginsLine ==
  ASSUME NEW x \in Chunks, ~x.ends
  PROVE  x = Chunk(x.line, FALSE)
<1>1. x.ends = FALSE
  BY DEF Chunks
<1>2. x = [line |-> x.line, ends |-> x.ends]
  BY DEF Chunks
<1>. QED BY <1>1, <1>2 DEF Chunk

(* The carry begins where a line begins: what ends with its first newline is
   a whole line. *)
LEMMA FirstLine ==
  ASSUME NEW c \in Seq(Chunks), Running(c), c # <<>> => ~c[1].ends,
         NEW end \in Newlines(c), \A i \in Newlines(c) : end <= i
  PROVE  /\ end = 2 /\ 2 \in 1 .. Len(c)
         /\ ~c[1].ends /\ c[2] = Chunk(c[1].line, TRUE)
         /\ IsWhole(SubSeq(c, 1, 2))
<1>1. Len(c) \in Nat /\ end \in 1 .. Len(c) /\ c[end].ends /\ c # <<>>
  <2>1. Len(c) \in Nat /\ (c = <<>> <=> Len(c) = 0)
    BY Empty
  <2>2. end \in 1 .. Len(c) /\ c[end].ends
    BY DEF Newlines
  <2>. QED BY <2>1, <2>2
<1>2. ~c[1].ends
  BY <1>1
<1>3. 1 \in 1 .. Len(c) - 1 /\ 2 \in 1 .. Len(c) /\ end >= 2 /\ end \in Nat
  <2>1. end # 1
    BY <1>1, <1>2
  <2>. QED BY <1>1, <2>1
<1>4. c[2] = Chunk(c[1].line, TRUE)
  <2>1. Follows(c[1], c[1 + 1])
    BY <1>3 DEF Running
  <2>2. 1 + 1 = 2
    OBVIOUS
  <2>3. Follows(c[1], c[2])
    BY <2>1, <2>2
  <2>. QED BY <1>2, <2>3 DEF Follows
<1>5. end = 2
  <2>1. 2 \in Newlines(c)
    <3>1. c[2].ends
      <4>1. PICK x, n : x = c[2] /\ n = c[1].line
        OBVIOUS
      <4>2. x = Chunk(n, TRUE)
        BY <1>4, <4>1
      <4>3. x.ends
        BY <4>2, ChunkFields
      <4>. QED BY <4>1, <4>3, Zenon
    <3>. QED BY <1>3, <3>1 DEF Newlines
  <2>2. end <= 2
    BY <2>1
  <2>. QED BY <1>3, <2>2
<1>6. IsWhole(SubSeq(c, 1, 2))
  <2>1. /\ SubSeq(c, 1, 2) = <<c[1], c[2]>> /\ SubSeq(c, 1, 2)[1] = c[1]
        /\ c[1] \in Chunks
    BY <1>3, FirstTwo
  <2>2. c[1] = Chunk(c[1].line, FALSE)
    <3>1. PICK x \in Chunks : x = c[1]
      BY <2>1
    <3>. QED BY <1>2, <3>1, BeginsLine, Zenon
  <2>3. SubSeq(c, 1, 2) = <<Chunk(c[1].line, FALSE), Chunk(c[1].line, TRUE)>>
    BY <1>4, <2>1, <2>2, Zenon
  <2>. QED BY <2>1, <2>3, Zenon DEF IsWhole
<1>. QED BY <1>2, <1>3, <1>4, <1>5, <1>6

(* The next line of the file is handed over. *)
LEMMA NextHanded ==
  ASSUME NEW b \in Seq(Nat), NEW s \in Nat, NEW h \in Seq(Lines), HandedOK(h, b),
         NEW n \in 1 .. Len(b), n \in Lines, b[n] = s, Reached(h, n - 1, s, b)
  PROVE  HandedOK(Append(h, n), b) /\ Reached(Append(h, n), n, s, b)
<1>. DEFINE h2 == Append(h, n)
<1>1. /\ Len(h) \in Nat /\ Len(h2) = Len(h) + 1 /\ h2[Len(h) + 1] = n
      /\ \A i \in 1 .. Len(h) : h2[i] = h[i]
  BY AppendParts
<1>2. n \in Nat /\ Len(b) \in Nat
  BY Empty
<1>. HIDE DEF h2
<1>3. \A k \in 1 .. Len(h) : h[k] <= n - 1 /\ h[k] \in 1 .. Len(b)
  BY DEF Reached, HandedOK
<1>4. \A k \in 1 .. Len(h) : h[k] < n /\ h[k] <= n
  <2>1. \A i \in 1 .. Len(b) : i <= n - 1 => i < n /\ i <= n
    BY <1>2
  <2>. QED BY <1>3, <2>1, Zenon
<1>5. \A m \in 1 .. n - 1 : b[m] = s => \E i \in 1 .. Len(h) : h[i] = m
  BY DEF Reached
<1>6. ASSUME NEW k \in 1 .. Len(h2)
      PROVE  /\ h2[k] \in 1 .. Len(b)
             /\ \A i \in 1 .. k - 1 : h2[i] < h2[k]
             /\ \A m \in 1 .. h2[k] - 1 : b[m] = b[h2[k]] => \E i \in 1 .. k - 1 : h2[i] = m
  <2>1. CASE k \in 1 .. Len(h)
    <3>1. \A i \in 1 .. k - 1 : h2[i] = h[i]
      BY <1>1, <2>1, Below
    <3>2. h2[k] = h[k]
      BY <1>1, <2>1
    <3>3. /\ h[k] \in 1 .. Len(b)
          /\ \A i \in 1 .. k - 1 : h[i] < h[k]
          /\ \A m \in 1 .. h[k] - 1 : b[m] = b[h[k]] => \E i \in 1 .. k - 1 : h[i] = m
      BY <2>1 DEF HandedOK
    <3>. QED BY <3>1, <3>2, <3>3, Zenon
  <2>2. CASE k = Len(h) + 1
    <3>1. k - 1 = Len(h) /\ h2[k] = n
      BY <1>1, <2>2
    <3>2. \A i \in 1 .. Len(h) : h2[i] < n
      BY <1>1, <1>4
    <3>3. \A m \in 1 .. n - 1 : b[m] = b[n] => \E i \in 1 .. Len(h) : h2[i] = m
      BY <1>1, <1>5
    <3>. QED BY <3>1, <3>2, <3>3, Zenon
  <2>3. k \in 1 .. Len(h) \/ k = Len(h) + 1
    BY <1>1
  <2>. QED BY <2>1, <2>2, <2>3, Zenon
<1>7. \A k \in 1 .. Len(h2) : h2[k] <= n
  <2>. SUFFICES ASSUME NEW k \in 1 .. Len(h2) PROVE h2[k] <= n
    OBVIOUS
  <2>1. CASE k \in 1 .. Len(h)
    BY <1>1, <1>4, <2>1
  <2>2. CASE k = Len(h) + 1
    BY <1>1, <1>2, <2>2
  <2>. QED BY <1>1, <2>1, <2>2
<1>8. ASSUME NEW m \in 1 .. n, b[m] = s PROVE \E i \in 1 .. Len(h2) : h2[i] = m
  <2>1. CASE m = n
    <3>1. Len(h) + 1 \in 1 .. Len(h2)
      BY <1>1
    <3>. QED BY <1>1, <2>1, <3>1
  <2>2. CASE m # n
    <3>1. m \in 1 .. n - 1
      BY <1>2, <2>2
    <3>2. PICK i \in 1 .. Len(h) : h[i] = m
      BY <1>5, <1>8, <3>1
    <3>3. i \in 1 .. Len(h2) /\ h2[i] = m
      BY <1>1, <3>2
    <3>. QED BY <3>3
  <2>. QED BY <2>1, <2>2
<1>9. HandedOK(h2, b)
  BY <1>6 DEF HandedOK
<1>10. Reached(h2, n, s, b)
  BY <1>7, <1>8 DEF Reached
<1>. QED BY <1>9, <1>10 DEF h2
LEMMA HandOverReads ==
  ASSUME NEW f \in Seq(Chunks), NEW b \in Seq(Nat), NEW g \in Nat,
         NEW h \in Seq(Lines), HandedOK(h, b),
         NEW p \in Nat, NEW c \in Seq(Chunks), NEW s \in Nat, ReadTo(p, c, s, h, f, b, g),
         2 \in 1 .. Len(c), ~c[1].ends, c[2] = Chunk(c[1].line, TRUE),
         NEW n, n = c[1].line
  PROVE  /\ n \in Lines
         /\ HandedOK(Append(h, n), b)
         /\ ReadTo(p, SubSeq(c, 2 + 1, Len(c)), s, Append(h, n), f, b, g)
<1>. DEFINE d == SubSeq(c, 2 + 1, Len(c))
            h2 == Append(h, n)
<1>1. Len(c) \in Nat /\ 1 \in 1 .. Len(c) /\ c # <<>> /\ Len(c) >= 2
  BY SeqTypes
<1>2. n \in Lines /\ n \in Nat
  <2>1. c[1] \in Chunks
    BY <1>1, ElementType
  <2>2. PICK x \in Chunks : x = c[1]
    BY <2>1
  <2>3. x.line \in Lines /\ Lines \subseteq Nat
    BY DEF Chunks, Lines
  <2>. QED BY <2>2, <2>3
<1>3. /\ Running(c) /\ (\A i \in 1 .. Len(c) : c[i].line \in 1 .. Len(b) /\ b[c[i].line] = s)
      /\ Reached(h, n - 1, s, b)
  BY <1>1 DEF ReadTo, CarryOK
<1>4. n \in 1 .. Len(b) /\ b[n] = s
  BY <1>1, <1>3
<1>5. HandedOK(h2, b) /\ Reached(h2, n, s, b)
  BY <1>2, <1>3, <1>4, NextHanded
<1>6. /\ Len(h) \in Nat /\ Len(h2) = Len(h) + 1 /\ h2[Len(h) + 1] = n
      /\ \A i \in 1 .. Len(h) : h2[i] = h[i]
  BY <1>2, AppendParts
<1>7. /\ d \in Seq(Chunks) /\ Len(d) = Len(c) - 2
      /\ \A j \in 1 .. Len(c) - 2 : d[j] = c[2 + j]
      /\ Running(d)
  <2>1. 2 \in 0 .. Len(c)
    BY <1>1
  <2>. QED BY <1>3, <2>1, SuffixParts, RunningSuffix
<1>8. /\ s <= g /\ (\A k \in 1 .. Len(h) : b[h[k]] <= s) /\ p > 0
      /\ s = g => PlaceOK(p, c, h, s, f, b)
  BY <1>1 DEF ReadTo
<1>9. c[2].ends /\ c[2].line = n
  <2>1. PICK x : x = c[2]
    OBVIOUS
  <2>2. x = Chunk(n, TRUE)
    BY <2>1
  <2>3. x.ends
    BY <2>2, ChunkFields
  <2>4. x.line = n
    BY <2>2 DEF Chunk
  <2>. QED BY <2>1, <2>3, <2>4, Zenon
<1>. HIDE DEF d, h2
<1>10. \A k \in 1 .. Len(h2) : b[h2[k]] <= s
  <2>. SUFFICES ASSUME NEW k \in 1 .. Len(h2) PROVE b[h2[k]] <= s
    OBVIOUS
  <2>1. CASE k \in 1 .. Len(h)
    BY <1>6, <1>8, <2>1
  <2>2. CASE k = Len(h) + 1
    <3>1. b[h2[k]] = s
      BY <1>4, <1>6, <2>2
    <3>2. s <= s
      OBVIOUS
    <3>. QED BY <3>1, <3>2, Zenon
  <2>. QED BY <1>6, <2>1, <2>2
<1>11. \A i \in 1 .. Len(d) : d[i].line \in 1 .. Len(b) /\ b[d[i].line] = s
  <2>1. \A i \in 1 .. Len(d) : d[i] = c[2 + i] /\ 2 + i \in 1 .. Len(c)
    BY <1>1, <1>7
  <2>. QED BY <1>3, <2>1, Zenon
<1>12. d # <<>> => ~d[1].ends /\ d[1].line - 1 = n
  <2>. SUFFICES ASSUME d # <<>> PROVE ~d[1].ends /\ d[1].line - 1 = n
    OBVIOUS
  <2>1. Len(d) # 0
    BY <1>7, Empty
  <2>2. 2 \in 1 .. Len(c) - 1 /\ d[1] = c[2 + 1]
    BY <1>1, <1>7, <2>1
  <2>3. Follows(c[2], d[1])
    BY <1>3, <2>2 DEF Running
  <2>4. d[1] = Chunk(n + 1, FALSE)
    BY <1>9, <2>3, Zenon DEF Follows
  <2>5. PICK x, m : x = d[1] /\ m = n + 1
    OBVIOUS
  <2>6. x = Chunk(m, FALSE)
    BY <2>4, <2>5
  <2>7. ~x.ends /\ x.line = m
    BY <2>6, ChunkFields
  <2>8. m - 1 = n
    BY <1>2, <2>5
  <2>9. ~d[1].ends /\ d[1].line = m
    BY <2>5, <2>7, Zenon
  <2>. QED BY <2>8, <2>9, Zenon
<1>13. CarryOK(d, h2, s, b)
  <2>1. d # <<>> => ~d[1].ends /\ Reached(h2, d[1].line - 1, s, b)
    BY <1>5, <1>12, Zenon
  <2>. QED BY <1>7, <1>11, <2>1, Zenon DEF CarryOK
<1>14. ASSUME s = g PROVE PlaceOK(p, d, h2, s, f, b)
  <2>1. p <= Len(f) /\ c[Len(c)] = f[p]
    BY <1>1, <1>8, <1>14 DEF PlaceOK
  <2>2. CASE d = <<>>
    <3>1. Len(d) = 0
      BY <2>2, SeqTypes
    <3>2. Len(c) = 2
      BY <1>1, <1>7, <3>1
    <3>3. f[p].ends /\ f[p].line = n
      BY <1>9, <2>1, <3>2, Zenon
    <3>4. f[p].ends /\ Reached(h2, f[p].line, s, b)
      BY <1>5, <3>3, Zenon
    <3>. QED BY <2>1, <2>2, <3>4, Zenon DEF PlaceOK
  <2>3. CASE d # <<>>
    <3>1. Len(d) # 0
      BY <1>7, <2>3, Empty
    <3>2. Len(d) \in 1 .. Len(c) - 2 /\ 2 + Len(d) = Len(c)
      BY <1>1, <1>7, <3>1
    <3>3. d[Len(d)] = c[Len(c)]
      BY <1>7, <3>2
    <3>4. d[Len(d)] = f[p]
      BY <2>1, <3>3, Zenon
    <3>. QED BY <2>1, <2>3, <3>4, Zenon DEF PlaceOK
  <2>. QED BY <2>2, <2>3
<1>15. p # 0
  BY <1>8
<1>16. ReadTo(p, d, s, h2, f, b, g)
  BY <1>8, <1>10, <1>13, <1>14, <1>15, Zenon DEF ReadTo
<1>. QED BY <1>2, <1>5, <1>16 DEF d, h2
-----------------------------------------------------------------------------
(* The steps *)

LEMMA SubsetType ==
  ASSUME NEW S, NEW T, S \subseteq T, NEW s \in Seq(S)
  PROVE  s \in Seq(T)
OBVIOUS

LEMMA CaptureTypes ==
  ASSUME TypeOK
  PROVE  /\ file \in Seq(Chunks) /\ Len(file) \in Nat
         /\ born \in Seq(Nat) /\ Len(born) \in Nat /\ Len(born) <= MaxLines
         /\ rewrites \in Nat
         /\ \A t \in Tailers :
              /\ tailer[t] \in TailerState /\ handed[t] \in Seq(Lines)
              /\ tailer[t].pos \in Nat /\ tailer[t].carry \in Seq(Chunks) /\ tailer[t].seen \in Nat
<1>1. 0 .. MaxRewrites \subseteq Nat
  OBVIOUS
<1>2. \A s \in Seq(0 .. MaxRewrites) : s \in Seq(Nat)
  BY <1>1, SubsetType
<1>3. file \in Seq(Chunks) /\ born \in Seq(Nat) /\ Len(born) <= MaxLines /\ rewrites \in Nat
  BY <1>1, <1>2 DEF TypeOK
<1>4. \A t \in Tailers : tailer[t] \in TailerState /\ handed[t] \in Seq(Lines)
  BY DEF TypeOK
<1>5. \A x \in TailerState : x.pos \in Nat /\ x.carry \in Seq(Chunks) /\ x.seen \in Nat
  BY <1>1 DEF TailerState
<1>6. Len(file) \in Nat /\ Len(born) \in Nat
  BY <1>3, SeqTypes
<1>. QED BY <1>3, <1>4, <1>5, <1>6, Zenon

LEMMA NotLess == \A i \in Nat : i <= i /\ i <= i + 1
OBVIOUS

LEMMA ChunkAdded ==
  \A f \in Seq(Chunks), x \in Chunks :
    /\ Append(f, x) \in Seq(Chunks) /\ Append(f, x) # <<>> /\ Len(f) \in Nat
    /\ Len(Append(f, x)) = Len(f) + 1 /\ Append(f, x)[Len(f) + 1] = x
    /\ \A i \in 1 .. Len(f) : Append(f, x)[i] = f[i]
BY AppendParts

(* A line is begun. *)
LEMMA BeginGrows ==
  ASSUME NEW f \in Seq(Chunks), NEW b \in Seq(Nat), NEW g \in Nat,
         FileOK(f, b, g), f # <<>> => f[Len(f)].ends, Len(b) < MaxLines,
         NEW x, x = Chunk(Len(b) + 1, FALSE)
  PROVE  /\ x \in Chunks /\ Append(f, x) \in Seq(Chunks) /\ Append(b, g) \in Seq(Nat)
         /\ FileOK(Append(f, x), Append(b, g), g)
         /\ Grows(f, b, g, Append(f, x), Append(b, g), g)
         /\ Append(f, x) # <<>> /\ Append(f, x)[Len(Append(f, x))] = x
<1>1. FileOK(Append(f, x), Append(b, g), g)
  BY FileBegins
<1>2. x \in Chunks
  <2>1. Len(b) \in Nat /\ Len(b) + 1 \in Lines
    BY Empty, CaptureAssumption DEF Lines
  <2>. QED BY <2>1, ChunkParts
<1>3. /\ Append(f, x) \in Seq(Chunks) /\ Append(f, x) # <<>> /\ Len(f) \in Nat
      /\ Len(Append(f, x)) = Len(f) + 1 /\ Append(f, x)[Len(f) + 1] = x
      /\ \A i \in 1 .. Len(f) : Append(f, x)[i] = f[i]
  BY <1>2, ChunkAdded, Zenon
<1>4. /\ Append(b, g) \in Seq(Nat) /\ Len(b) \in Nat /\ Len(Append(b, g)) = Len(b) + 1
      /\ \A i \in 1 .. Len(b) : Append(b, g)[i] = b[i]
  BY AppendParts
<1>5. Len(b) <= Len(Append(b, g)) /\ g <= g
  BY <1>4
<1>6. Len(f) <= Len(Append(f, x))
  BY <1>3, NotLess, Zenon
<1>7. Grows(f, b, g, Append(f, x), Append(b, g), g)
  BY <1>3, <1>4, <1>5, <1>6, Zenon DEF Grows
<1>. QED BY <1>1, <1>2, <1>3, <1>4, <1>7, Zenon

(* The line begun is ended. *)
LEMMA EndGrows ==
  ASSUME NEW f \in Seq(Chunks), NEW b \in Seq(Nat), NEW g \in Nat,
         FileOK(f, b, g), f # <<>>, ~f[Len(f)].ends,
         NEW x, x = Chunk(f[Len(f)].line, TRUE)
  PROVE  FileOK(Append(f, x), b, g) /\ Grows(f, b, g, Append(f, x), b, g)
<1>1. FileOK(Append(f, x), b, g)
  BY FileEnds
<1>2. x \in Chunks
  <2>1. Len(f) \in 1 .. Len(f)
    BY NotEmpty
  <2>2. f[Len(f)] \in Chunks
    BY <2>1, ElementType
  <2>3. PICK y \in Chunks : y = f[Len(f)]
    BY <2>2
  <2>4. y.line \in Lines
    BY DEF Chunks
  <2>. QED BY <2>3, <2>4, ChunkParts
<1>3. /\ Append(f, x) \in Seq(Chunks) /\ Len(f) \in Nat
      /\ Len(Append(f, x)) = Len(f) + 1
      /\ \A i \in 1 .. Len(f) : Append(f, x)[i] = f[i]
  BY <1>2, ChunkAdded, Zenon
<1>4. Len(b) <= Len(b) /\ g <= g
  BY Empty
<1>5. Len(f) <= Len(Append(f, x))
  BY <1>3, NotLess, Zenon
<1>6. Grows(f, b, g, Append(f, x), b, g)
  BY <1>3, <1>4, <1>5, Zenon DEF Grows
<1>. QED BY <1>1, <1>6

LEMMA GrowsTwice ==
  ASSUME NEW f \in Seq(Chunks), NEW b \in Seq(Nat), NEW g \in Nat,
         NEW f2 \in Seq(Chunks), NEW b2 \in Seq(Nat), NEW f3 \in Seq(Chunks),
         Grows(f, b, g, f2, b2, g), Grows(f2, b2, g, f3, b2, g)
  PROVE  Grows(f, b, g, f3, b2, g)
<1>1. Len(f) \in Nat /\ Len(f2) \in Nat /\ Len(f3) \in Nat /\ Len(f) <= Len(f2) /\ Len(f2) <= Len(f3)
  BY Empty DEF Grows
<1>2. Len(f) <= Len(f3) /\ \A i \in 1 .. Len(f) : i \in 1 .. Len(f2)
  BY <1>1
<1>3. /\ \A i \in 1 .. Len(f) : f2[i] = f[i]
      /\ \A i \in 1 .. Len(f2) : f3[i] = f2[i]
  BY DEF Grows
<1>. QED BY <1>2, <1>3, Zenon DEF Grows

(* What the writer does to the file. *)
LEMMA WriterGrows ==
  ASSUME TypeOK, CaptureInv,
         WriteLine \/ WriteHalf \/ WriteRest \/ (\E there \in BOOLEAN : Rewrite(there))
  PROVE  /\ FileOK(file', born', rewrites')
         /\ Grows(file, born, rewrites, file', born', rewrites')
<1>1. /\ file \in Seq(Chunks) /\ Len(file) \in Nat
      /\ born \in Seq(Nat) /\ Len(born) \in Nat /\ Len(born) <= MaxLines
      /\ rewrites \in Nat
  BY CaptureTypes
<1>2. FileOK(file, born, rewrites)
  BY DEF CaptureInv
<1>3. PICK n, x, y : n = Len(born) + 1 /\ x = Chunk(n, FALSE) /\ y = Chunk(n, TRUE)
  OBVIOUS
<1>4. ASSUME NEW chunks, BeginLine(chunks)
      PROVE  /\ x \in Chunks /\ Append(file, x) \in Seq(Chunks) /\ Append(born, rewrites) \in Seq(Nat)
             /\ FileOK(Append(file, x), Append(born, rewrites), rewrites)
             /\ Grows(file, born, rewrites, Append(file, x), Append(born, rewrites), rewrites)
             /\ Append(file, x) # <<>> /\ Append(file, x)[Len(Append(file, x))] = x
             /\ file' = file \o chunks /\ born' = Append(born, rewrites) /\ rewrites' = rewrites
  <2>1. /\ Len(born) < MaxLines /\ (file # <<>> => file[Len(file)].ends)
        /\ file' = file \o chunks /\ born' = Append(born, rewrites) /\ rewrites' = rewrites
    BY <1>4 DEF BeginLine, Unfinished
  <2>2. x = Chunk(Len(born) + 1, FALSE)
    BY <1>3, Zenon
  <2>3. /\ x \in Chunks /\ Append(file, x) \in Seq(Chunks) /\ Append(born, rewrites) \in Seq(Nat)
        /\ FileOK(Append(file, x), Append(born, rewrites), rewrites)
        /\ Grows(file, born, rewrites, Append(file, x), Append(born, rewrites), rewrites)
        /\ Append(file, x) # <<>> /\ Append(file, x)[Len(Append(file, x))] = x
    BY <1>1, <1>2, <2>1, <2>2, BeginGrows
  <2>. QED BY <2>1, <2>3, Zenon
<1>5. CASE WriteHalf
  <2>1. BeginLine(<<x>>)
    BY <1>3, <1>5 DEF WriteHalf
  <2>2. file \o <<x>> = Append(file, x)
    BY <1>1, <1>4, <2>1, OneByOne
  <2>. QED BY <1>4, <2>1, <2>2, Zenon
<1>6. CASE WriteLine
  <2>1. BeginLine(<<x, y>>)
    BY <1>3, <1>6 DEF WriteLine
  <2>2. PICK f2, b2 : f2 = Append(file, x) /\ b2 = Append(born, rewrites)
    OBVIOUS
  <2>3. /\ x \in Chunks /\ f2 \in Seq(Chunks) /\ b2 \in Seq(Nat)
        /\ FileOK(f2, b2, rewrites) /\ Grows(file, born, rewrites, f2, b2, rewrites)
        /\ f2 # <<>> /\ f2[Len(f2)] = x
        /\ file' = file \o <<x, y>> /\ born' = b2 /\ rewrites' = rewrites
    BY <1>4, <2>1, <2>2, Zenon
  <2>4. x.line = n /\ ~x.ends
    BY <1>3 DEF Chunk
  <2>5. ~f2[Len(f2)].ends /\ y = Chunk(f2[Len(f2)].line, TRUE)
    BY <1>3, <2>3, <2>4, Zenon
  <2>6. FileOK(Append(f2, y), b2, rewrites) /\ Grows(f2, b2, rewrites, Append(f2, y), b2, rewrites)
    BY <1>1, <2>3, <2>5, EndGrows
  <2>7. y \in Chunks
    <3>1. PICK z \in Chunks : z = x
      BY <2>3
    <3>2. z.line \in Lines
      BY DEF Chunks
    <3>. QED BY <1>3, <2>4, <3>1, <3>2, ChunkParts
  <2>8. Append(f2, y) \in Seq(Chunks) /\ file' = Append(f2, y)
    <3>1. file \o <<x, y>> = Append(Append(file, x), y)
      BY <1>1, <2>3, <2>7, OneByOne
    <3>2. Append(f2, y) \in Seq(Chunks)
      BY <2>3, <2>7, AppendParts
    <3>. QED BY <2>2, <2>3, <3>1, <3>2, Zenon
  <2>9. Grows(file, born, rewrites, Append(f2, y), b2, rewrites)
    BY <1>1, <2>3, <2>6, <2>8, GrowsTwice
  <2>. QED BY <2>3, <2>6, <2>8, <2>9, Zenon
<1>7. CASE WriteRest
  <2>1. PICK z : z = Chunk(file[Len(file)].line, TRUE)
    OBVIOUS
  <2>2. /\ file # <<>> /\ ~file[Len(file)].ends
        /\ file' = Append(file, z) /\ born' = born /\ rewrites' = rewrites
    BY <1>7, <2>1 DEF WriteRest, Unfinished
  <2>3. FileOK(Append(file, z), born, rewrites) /\ Grows(file, born, rewrites, Append(file, z), born, rewrites)
    BY <1>1, <1>2, <2>1, <2>2, EndGrows
  <2>. QED BY <2>2, <2>3, Zenon
<1>8. ASSUME NEW there \in BOOLEAN, Rewrite(there)
      PROVE  /\ FileOK(file', born', rewrites')
             /\ Grows(file, born, rewrites, file', born', rewrites')
  <2>1. file' = <<>> /\ born' = born /\ rewrites' = rewrites + 1
    BY <1>8 DEF Rewrite
  <2>2. FileOK(<<>>, born, rewrites + 1)
    BY <1>1, <1>2, FileGoes
  <2>3. Len(born) <= Len(born) /\ rewrites <= rewrites + 1 /\ rewrites + 1 # rewrites
    BY <1>1
  <2>. QED BY <2>1, <2>2, <2>3 DEF Grows
<1>. QED BY <1>5, <1>6, <1>7, <1>8
(* What a tailer may rely on. *)
TailerOK(conf, x, h, gt, f, b, g) ==
  ~conf => HandedOK(h, b) /\ (gt # Ended => ReaderOK(x, h, f, b, g))

LEMMA WriterCapture ==
  ASSUME TypeOK, TypeOK', CaptureInv,
         WriteLine \/ WriteHalf \/ WriteRest \/ (\E there \in BOOLEAN : Rewrite(there))
  PROVE  CaptureInv'
<1>1. /\ FileOK(file', born', rewrites')
      /\ Grows(file, born, rewrites, file', born', rewrites')
  BY WriterGrows
<1>2. UNCHANGED <<tailer, handed, confused, gate>>
  BY DEF WriteLine, WriteHalf, WriteRest, Rewrite, BeginLine, WriterOnly, gateVars, tailVars
<1>3. /\ file \in Seq(Chunks) /\ born \in Seq(Nat) /\ rewrites \in Nat
      /\ \A t \in Tailers :
           /\ handed[t] \in Seq(Lines)
           /\ tailer[t].pos \in Nat /\ tailer[t].carry \in Seq(Chunks) /\ tailer[t].seen \in Nat
  BY CaptureTypes
<1>4. file' \in Seq(Chunks) /\ born' \in Seq(Nat) /\ rewrites' \in Nat
  <2>1. 0 .. MaxRewrites \subseteq Nat
    OBVIOUS
  <2>. QED BY <2>1, SubsetType DEF TypeOK
<1>5. FileOK(file, born, rewrites)
  BY DEF CaptureInv
<1>6. PICK f2, b2, g2 : f2 = file' /\ b2 = born' /\ g2 = rewrites'
  OBVIOUS
<1>7. ASSUME NEW t \in Tailers, ~confused[t]
      PROVE  /\ HandedOK(handed[t], b2)
             /\ gate[t] # Ended => ReaderOK(tailer[t], handed[t], f2, b2, g2)
  <2>1. /\ HandedOK(handed[t], born)
        /\ gate[t] # Ended => ReaderOK(tailer[t], handed[t], file, born, rewrites)
    BY <1>7 DEF CaptureInv
  <2>2. PICK h, p, c, s : h = handed[t] /\ p = tailer[t].pos /\ c = tailer[t].carry /\ s = tailer[t].seen
    OBVIOUS
  <2>3. h \in Seq(Lines) /\ p \in Nat /\ c \in Seq(Chunks) /\ s \in Nat
    BY <1>3, <2>2
  <2>4. f2 \in Seq(Chunks) /\ b2 \in Seq(Nat) /\ g2 \in Nat /\ Grows(file, born, rewrites, f2, b2, g2)
    BY <1>1, <1>4, <1>6, Zenon
  <2>5. HandedOK(h, born)
    BY <2>1, <2>2, Zenon
  <2>6. /\ HandedOK(h, b2)
        /\ ReadTo(p, c, s, h, file, born, rewrites) => ReadTo(p, c, s, h, f2, b2, g2)
    <3>1. file \in Seq(Chunks) /\ born \in Seq(Nat) /\ rewrites \in Nat
      BY <1>3
    <3>. QED BY <1>5, <2>3, <2>4, <2>5, <3>1, GrowthKeeps
  <2>. QED BY <2>1, <2>2, <2>6, Zenon DEF ReaderOK
<1>. QED BY <1>1, <1>2, <1>6, <1>7, Zenon DEF CaptureInv

(* A step of one tailer, or of its gate. *)
LEMMA OneTailer ==
  ASSUME CaptureInv, NEW t \in Tailers, UNCHANGED <<file, born, rewrites>>,
         \A s \in Tailers \ {t} : /\ tailer'[s] = tailer[s] /\ handed'[s] = handed[s]
                                  /\ confused'[s] = confused[s] /\ gate'[s] = gate[s],
         TailerOK(confused'[t], tailer'[t], handed'[t], gate'[t], file, born, rewrites)
  PROVE  CaptureInv'
<1>1. FileOK(file', born', rewrites')
  BY DEF CaptureInv
<1>2. ASSUME NEW s \in Tailers
      PROVE  TailerOK(confused'[s], tailer'[s], handed'[s], gate'[s], file, born, rewrites)
  <2>1. CASE s = t
    BY <2>1
  <2>2. CASE s # t
    <3>1. /\ tailer'[s] = tailer[s] /\ handed'[s] = handed[s]
          /\ confused'[s] = confused[s] /\ gate'[s] = gate[s]
      BY <2>2
    <3>. QED BY <3>1, Zenon DEF TailerOK, CaptureInv
  <2>. QED BY <2>1, <2>2
<1>. QED BY <1>1, <1>2, Zenon DEF TailerOK, CaptureInv

(* The length is asked for. *)
LEMMA StatCapture ==
  ASSUME TypeOK, CaptureInv, NEW t \in Tailers, Stat(t)
  PROVE  CaptureInv'
<1>1. /\ file \in Seq(Chunks) /\ Len(file) \in Nat /\ born \in Seq(Nat) /\ rewrites \in Nat
      /\ handed[t] \in Seq(Lines) /\ tailer[t] \in TailerState
      /\ tailer[t].pos \in Nat /\ tailer[t].carry \in Seq(Chunks) /\ tailer[t].seen \in Nat
  BY CaptureTypes
<1>2. UNCHANGED <<file, born, rewrites, handed, gate>>
  BY DEF Stat, TailerOnly, fileVars, gateVars
<1>3. PICK x \in TailerState : x = tailer[t]
  BY <1>1
<1>4. tailer \in [Tailers -> TailerState] /\ confused \in [Tailers -> BOOLEAN]
  BY DEF TypeOK
<1>5. PICK y : y = Restarted(t)
  OBVIOUS
<1>6. /\ y \in TailerState /\ y.pc = x.pc /\ y.seen = x.seen
      /\ IF Len(file) < x.pos THEN y.pos = 0 /\ y.carry = <<>> ELSE y.pos = x.pos /\ y.carry = x.carry
  <2>1. y = IF Len(file) < x.pos THEN [x EXCEPT !.pos = 0, !.carry = <<>>] ELSE x
    BY <1>3, <1>5, Zenon DEF Restarted
  <2>2. <<>> \in Seq(Chunks) /\ 0 \in Nat
    OBVIOUS
  <2>. QED BY <2>1, <2>2 DEF TailerState
<1>7. PICK now : now = [y EXCEPT !.seen = rewrites]
  OBVIOUS
<1>8. /\ now \in TailerState
      /\ now.pc = y.pc /\ now.seen = rewrites /\ now.pos = y.pos /\ now.carry = y.carry
  <2>1. rewrites \in 0 .. MaxRewrites
    BY DEF TypeOK
  <2>. QED BY <1>6, <1>7, <2>1 DEF TailerState
<1>9. /\ x.pc = "poll"
      /\ tailer' = [tailer EXCEPT ![t] = IF Len(file) = now.pos THEN now
                                         ELSE [now EXCEPT !.len = Len(file), !.pc = "read"]]
      /\ confused' = [confused EXCEPT ![t] = @ \/ (now.pos > 0 /\ x.seen # rewrites)]
  BY <1>3, <1>5, <1>7, Zenon DEF Stat
<1>10. PICK z : z = IF Len(file) = now.pos THEN now ELSE [now EXCEPT !.len = Len(file), !.pc = "read"]
  OBVIOUS
<1>11. /\ z.pos = now.pos /\ z.carry = now.carry /\ z.seen = rewrites
       /\ z.pc = "read" => z.len = Len(file) /\ Len(file) # now.pos
  BY <1>1, <1>6, <1>8, <1>9, <1>10 DEF TailerState
<1>12. /\ tailer'[t] = z /\ \A s \in Tailers \ {t} : tailer'[s] = tailer[s]
       /\ \A s \in Tailers \ {t} : confused'[s] = confused[s]
       /\ ~confused'[t] => ~confused[t] /\ (now.pos > 0 => x.seen = rewrites)
  BY <1>4, <1>9, <1>10, Zenon
<1>13. ASSUME ~confused'[t], gate[t] # Ended
       PROVE  ReaderOK(z, handed[t], file, born, rewrites)
  <2>1. PICK h, q, d : h = handed[t] /\ q = now.pos /\ d = now.carry
    OBVIOUS
  <2>2. h \in Seq(Lines) /\ q \in Nat /\ d \in Seq(Chunks)
    BY <1>1, <1>8, <2>1 DEF TailerState
  <2>3. PICK p, c, s : p = x.pos /\ c = x.carry /\ s = x.seen
    OBVIOUS
  <2>4. p \in Nat /\ c \in Seq(Chunks) /\ s \in Nat
    BY <1>1, <1>3, <2>3, Zenon
  <2>5. HandedOK(h, born) /\ ReadTo(p, c, s, h, file, born, rewrites)
    BY <1>3, <1>12, <1>13, <2>1, <2>3, Zenon DEF CaptureInv, ReaderOK
  <2>6. IF Len(file) < p THEN q = 0 /\ d = <<>> ELSE q = p /\ d = c
    BY <1>6, <1>8, <2>1, <2>3, Zenon
  <2>7. q > 0 => s = rewrites
    BY <1>12, <1>13, <2>1, <2>3, Zenon
  <2>8. ReadTo(q, d, rewrites, h, file, born, rewrites) /\ q <= Len(file)
    BY <1>1, <2>2, <2>4, <2>5, <2>6, <2>7, StatReads
  <2>9. z.pc = "read" => z.pos < z.len
    <3>1. Len(file) # q => q < Len(file)
      BY <1>1, <2>2, <2>8
    <3>. QED BY <1>11, <2>1, <3>1, Zenon
  <2>10. ReadTo(z.pos, z.carry, z.seen, h, file, born, rewrites)
    BY <1>11, <2>1, <2>8, Zenon
  <2>. QED BY <2>1, <2>9, <2>10, Zenon DEF ReaderOK
<1>14. ~confused'[t] => HandedOK(handed[t], born)
  BY <1>12 DEF CaptureInv
<1>15. TailerOK(confused'[t], tailer'[t], handed'[t], gate'[t], file, born, rewrites)
  BY <1>2, <1>12, <1>13, <1>14, Zenon DEF TailerOK
<1>. QED BY <1>2, <1>12, <1>15, OneTailer
(* The file is read. *)
LEMMA ReadCapture ==
  ASSUME TypeOK, CaptureInv, NEW t \in Tailers, Read(t)
  PROVE  CaptureInv'
<1>1. /\ file \in Seq(Chunks) /\ Len(file) \in Nat /\ born \in Seq(Nat) /\ rewrites \in Nat
      /\ handed[t] \in Seq(Lines) /\ tailer[t] \in TailerState
      /\ tailer[t].pos \in Nat /\ tailer[t].carry \in Seq(Chunks) /\ tailer[t].seen \in Nat
  BY CaptureTypes
<1>2. UNCHANGED <<file, born, rewrites, handed, gate>>
  BY DEF Read, TailerOnly, fileVars, gateVars
<1>3. tailer \in [Tailers -> TailerState] /\ confused \in [Tailers -> BOOLEAN]
  BY DEF TypeOK
<1>4. PICK x \in TailerState : x = tailer[t]
  BY <1>1
<1>5. PICK c : c = x.carry \o SubSeq(file, x.pos + 1, Len(file))
  OBVIOUS
<1>6. /\ x.pc = "read"
      /\ tailer' = [tailer EXCEPT ![t].pc = "split", ![t].pos = x.len, ![t].len = 0, ![t].carry = c]
      /\ confused' = [confused EXCEPT ![t] = @ \/ Len(file) # x.len \/ x.seen # rewrites]
  BY <1>3, <1>4, <1>5 DEF Read
<1>7. /\ tailer'[t] = [x EXCEPT !.pc = "split", !.pos = x.len, !.len = 0, !.carry = c]
      /\ \A s \in Tailers \ {t} : tailer'[s] = tailer[s] /\ confused'[s] = confused[s]
      /\ ~confused'[t] => ~confused[t] /\ Len(file) = x.len /\ x.seen = rewrites
  BY <1>3, <1>4, <1>6
<1>8. PICK z : z = tailer'[t]
  OBVIOUS
<1>9. z.pc = "split" /\ z.pos = x.len /\ z.carry = c /\ z.seen = x.seen
  BY <1>7, <1>8 DEF TailerState
<1>10. ASSUME ~confused'[t], gate[t] # Ended
       PROVE  ReaderOK(z, handed[t], file, born, rewrites)
  <2>1. PICK h, p, d : h = handed[t] /\ p = x.pos /\ d = x.carry
    OBVIOUS
  <2>2. h \in Seq(Lines) /\ p \in Nat /\ d \in Seq(Chunks)
    BY <1>1, <1>4, <2>1, Zenon
  <2>3. HandedOK(h, born) /\ ReaderOK(x, h, file, born, rewrites) /\ FileOK(file, born, rewrites)
    BY <1>4, <1>7, <1>10, <2>1, Zenon DEF CaptureInv
  <2>4. ReadTo(p, d, rewrites, h, file, born, rewrites) /\ p < Len(file)
    BY <1>6, <1>7, <1>10, <2>1, <2>3, Zenon DEF ReaderOK
  <2>5. c = d \o SubSeq(file, p + 1, Len(file))
    BY <1>5, <2>1, Zenon
  <2>6. ReadTo(Len(file), c, rewrites, h, file, born, rewrites)
    BY <1>1, <2>2, <2>3, <2>4, <2>5, ReadReads
  <2>7. "split" # "read"
    OBVIOUS
  <2>. QED BY <1>7, <1>9, <1>10, <2>1, <2>6, <2>7, Zenon DEF ReaderOK
<1>11. TailerOK(confused'[t], tailer'[t], handed'[t], gate'[t], file, born, rewrites)
  BY <1>2, <1>7, <1>8, <1>10, Zenon DEF TailerOK, CaptureInv
<1>. QED BY <1>2, <1>7, <1>11, OneTailer

(* A line is taken off the carry. *)
LEMMA SplitCapture ==
  ASSUME TypeOK, CaptureInv, NEW t \in Tailers, Split(t)
  PROVE  CaptureInv'
<1>1. /\ file \in Seq(Chunks) /\ Len(file) \in Nat /\ born \in Seq(Nat) /\ rewrites \in Nat
      /\ handed[t] \in Seq(Lines) /\ tailer[t] \in TailerState
      /\ tailer[t].pos \in Nat /\ tailer[t].carry \in Seq(Chunks) /\ tailer[t].seen \in Nat
  BY CaptureTypes
<1>2. PICK end \in Newlines(tailer[t].carry) :
        /\ \A i \in Newlines(tailer[t].carry) : end <= i
        /\ Skip(t, end) \/ Panic(t, end) \/ HandOver(t, end) \/ HandOverFails(t, end)
  BY DEF Split
<1>3. UNCHANGED <<file, born, rewrites, confused, gate>>
  BY <1>2 DEF Split, TailerOnly, fileVars, Skip, Panic, HandOver, HandOverFails, gateVars
<1>4. /\ tailer \in [Tailers -> TailerState] /\ handed \in [Tailers -> Seq(Lines)]
  BY DEF TypeOK
<1>5. PICK x \in TailerState : x = tailer[t]
  BY <1>1
<1>6. PICK h, p, c, s, n : h = handed[t] /\ p = x.pos /\ c = x.carry /\ s = x.seen /\ n = x.carry[1].line
  OBVIOUS
<1>7. h \in Seq(Lines) /\ p \in Nat /\ c \in Seq(Chunks) /\ s \in Nat
  BY <1>1, <1>5, <1>6, Zenon
<1>8. \A u \in Tailers \ {t} : tailer'[u] = tailer[u] /\ handed'[u] = handed[u]
  BY <1>2, <1>4 DEF Skip, Panic, HandOver, HandOverFails, TakeOff
<1>9. TailerOK(confused[t], tailer'[t], handed'[t], gate[t], file, born, rewrites)
  <2>1. CASE confused[t]
    BY <2>1 DEF TailerOK
  <2>2. CASE ~confused[t] /\ gate[t] = Ended
    <3>1. handed' = handed
      BY <1>2, <2>2 DEF Skip, Panic, HandOver, HandOverFails
    <3>. QED BY <2>2, <3>1, Zenon DEF TailerOK, CaptureInv
  <2>3. CASE ~confused[t] /\ gate[t] # Ended /\ Panic(t, end)
    <3>1. PICK z : z = tailer'[t]
      OBVIOUS
    <3>2. z.pc = "panicked" /\ z.pos = x.pos /\ z.carry = x.carry /\ z.seen = x.seen
      BY <1>4, <1>5, <2>3, <3>1 DEF Panic, TailerState
    <3>3. handed' = handed /\ "panicked" # "read"
      BY <2>3 DEF Panic
    <3>. QED BY <1>5, <2>3, <3>1, <3>2, <3>3, Zenon DEF TailerOK, CaptureInv, ReaderOK
  <2>4. CASE ~confused[t] /\ gate[t] # Ended /\ ~Panic(t, end)
    <3>1. HandedOK(h, born) /\ ReadTo(p, c, s, h, file, born, rewrites)
      BY <1>5, <1>6, <2>4, Zenon DEF CaptureInv, ReaderOK
    <3>2. Running(c) /\ (c # <<>> => ~c[1].ends)
      BY <3>1 DEF ReadTo, CarryOK
    <3>3. end \in Newlines(c) /\ \A i \in Newlines(c) : end <= i
      BY <1>2, <1>5, <1>6, Zenon
    <3>4. /\ end = 2 /\ 2 \in 1 .. Len(c) /\ ~c[1].ends /\ c[2] = Chunk(c[1].line, TRUE)
          /\ IsWhole(SubSeq(c, 1, 2))
      BY <1>7, <3>2, <3>3, FirstLine
    <3>5. HandOver(t, 2)
      BY <1>2, <1>5, <1>6, <2>4, <3>4, Zenon DEF Skip, HandOverFails
    <3>6. n = c[1].line
      BY <1>6, Zenon
    <3>7. /\ HandedOK(Append(h, n), born)
          /\ ReadTo(p, SubSeq(c, 2 + 1, Len(c)), s, Append(h, n), file, born, rewrites)
      BY <1>1, <1>7, <3>1, <3>4, <3>6, HandOverReads
    <3>8. PICK d, h2 : d = SubSeq(c, 2 + 1, Len(c)) /\ h2 = Append(h, n)
      OBVIOUS
    <3>9. /\ tailer' = [tailer EXCEPT ![t].carry = d, ![t].pc = "split"]
          /\ handed' = [handed EXCEPT ![t] = h2]
      BY <1>4, <1>5, <1>6, <3>5, <3>8 DEF HandOver, TakeOff
    <3>10. tailer'[t] = [x EXCEPT !.carry = d, !.pc = "split"] /\ handed'[t] = h2
      BY <1>4, <1>5, <3>9
    <3>11. PICK z : z = tailer'[t]
      OBVIOUS
    <3>12. z.pc = "split" /\ z.pos = p /\ z.carry = d /\ z.seen = s
      BY <1>6, <3>10, <3>11 DEF TailerState
    <3>13. "split" # "read"
      OBVIOUS
    <3>14. HandedOK(h2, born) /\ ReaderOK(z, h2, file, born, rewrites)
      BY <3>7, <3>8, <3>12, <3>13, Zenon DEF ReaderOK
    <3>. QED BY <3>10, <3>11, <3>14, Zenon DEF TailerOK
  <2>. QED BY <2>1, <2>2, <2>3, <2>4
<1>. QED BY <1>3, <1>8, <1>9, OneTailer

(* The other steps of a tailer leave what it has read alone. *)
LEMMA RestCapture ==
  ASSUME TypeOK, CaptureInv, NEW t \in Tailers,
         SessionStart(t) \/ GiveUp(t) \/ ReadFails(t) \/ SplitDone(t)
  PROVE  CaptureInv'
<1>1. UNCHANGED <<file, born, rewrites, confused, gate, handed>>
  BY DEF SessionStart, GiveUp, ReadFails, SplitDone, TailerOnly, fileVars, gateVars
<1>2. tailer \in [Tailers -> TailerState]
  BY DEF TypeOK
<1>3. PICK x \in TailerState : x = tailer[t]
  BY <1>2
<1>4. PICK z : z = tailer'[t]
  OBVIOUS
<1>5. /\ z.pc # "read" /\ z.pos = x.pos /\ z.carry = x.carry /\ z.seen = x.seen
      /\ \A u \in Tailers \ {t} : tailer'[u] = tailer[u]
  <2>1. CASE SessionStart(t)
    BY <1>2, <1>3, <1>4, <2>1 DEF SessionStart, TailerState
  <2>2. CASE GiveUp(t)
    BY <1>2, <1>3, <1>4, <2>2 DEF GiveUp, TailerState
  <2>3. CASE ReadFails(t)
    BY <1>2, <1>3, <1>4, <2>3 DEF ReadFails, TailerState
  <2>4. CASE SplitDone(t)
    BY <1>2, <1>3, <1>4, <2>4 DEF SplitDone, TailerState
  <2>. QED BY <2>1, <2>2, <2>3, <2>4
<1>6. TailerOK(confused[t], tailer'[t], handed[t], gate[t], file, born, rewrites)
  BY <1>3, <1>4, <1>5, Zenon DEF TailerOK, CaptureInv, ReaderOK
<1>. QED BY <1>1, <1>5, <1>6, OneTailer

(* A gate that has not ended had not ended before. *)
LEMMA GateCapture ==
  ASSUME TypeOK, CaptureInv, NEW t \in Tailers, GateStep(t)
  PROVE  CaptureInv'
<1>1. UNCHANGED <<file, born, rewrites, tailer, handed, confused>>
  BY DEF GateStep, GateTake, GateSend, GateEnds, GateOnly, fileVars, tailVars
<1>2. gate \in [Tailers -> Gates]
  BY DEF TypeOK
<1>3. gate[t] # Ended
  BY DEF GateStep, GateTake, GateSend, GateEnds, Waiting, Ended
<1>4. \A u \in Tailers \ {t} : gate'[u] = gate[u]
  BY <1>2 DEF GateStep, GateTake, GateSend, GateEnds
<1>5. TailerOK(confused[t], tailer[t], handed[t], gate'[t], file, born, rewrites)
  BY <1>3, Zenon DEF TailerOK, CaptureInv
<1>. QED BY <1>1, <1>4, <1>5, OneTailer

LEMMA CaptureStep == ASSUME TypeOK, TypeOK', CaptureInv, [Next]_vars PROVE CaptureInv'
<1>1. CASE WriteLine \/ WriteHalf \/ WriteRest \/ (\E there \in BOOLEAN : Rewrite(there))
  BY <1>1, WriterCapture
<1>2. CASE UNCHANGED <<file, born, rewrites, tailer, handed, confused, gate>>
  BY <1>2, Zenon DEF CaptureInv
<1>3. CASE Mute \/ Unmute \/ PumpStops
  BY <1>2, <1>3 DEF Mute, Unmute, PumpStops, fileVars, tailVars, gateVars
<1>4. ASSUME NEW t \in Tailers, SessionStart(t) \/ TailerStep(t) \/ GateStep(t) PROVE CaptureInv'
  BY <1>4, StatCapture, ReadCapture, SplitCapture, RestCapture, GateCapture DEF TailerStep
<1>5. CASE UNCHANGED vars
  BY <1>2, <1>5 DEF vars, fileVars, tailVars, gateVars
<1>. QED BY <1>1, <1>3, <1>4, <1>5 DEF Next, Environment

(* poll_once: however the writer, the tailer and the gate take turns, a tailer
   under whose feet the file has not changed hands over the lines in the order
   written, each once, and none before all earlier ones of the same file. *)
THEOREM LinesExact == Spec => []ExactUnlessConfused
<1>1. Init => CaptureInv
  <2>. SUFFICES ASSUME Init PROVE CaptureInv
    OBVIOUS
  <2>1. Len(<<>>) = 0
    OBVIOUS
  <2>2. \A i : i \notin 1 .. Len(<<>>) /\ i \notin 1 .. Len(<<>>) - 1
    BY <2>1
  <2>3. FileOK(<<>>, <<>>, 0)
    BY <2>2, Zenon DEF FileOK, Running
  <2>4. HandedOK(<<>>, <<>>)
    BY <2>2, Zenon DEF HandedOK
  <2>5. CarryOK(<<>>, <<>>, 0, <<>>)
    BY EmptyCarry
  <2>6. ~ 0 > 0 /\ 0 <= 0
    OBVIOUS
  <2>7. ReadTo(0, <<>>, 0, <<>>, <<>>, <<>>, 0)
    BY <2>2, <2>5, <2>6, Zenon DEF ReadTo
  <2>8. ASSUME NEW t \in Tailers
        PROVE  /\ handed[t] = <<>>
               /\ tailer[t].pc # "read" /\ tailer[t].pos = 0 /\ tailer[t].carry = <<>> /\ tailer[t].seen = 0
    BY DEF Init
  <2>9. file = <<>> /\ born = <<>> /\ rewrites = 0
    BY DEF Init
  <2>. QED BY <2>3, <2>4, <2>7, <2>8, <2>9, Zenon DEF CaptureInv, ReaderOK
<1>2. CaptureInv => ExactUnlessConfused
  BY Zenon DEF CaptureInv, HandedOK, ExactUnlessConfused
<1>. QED BY <1>1, <1>2, CaptureStep, TypeCorrect, PTL DEF Spec
=============================================================================
