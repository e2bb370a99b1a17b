------------------------ MODULE AgentCapture_proofs ------------------------
(***************************************************************************)
(* The tailers of Codex and of OpenCode, proved for any number of threads, *)
(* lines, parts and sessions, any limits and any set of faults: both are   *)
(* well typed, the frames of their sessions are in their places, and what  *)
(* is sent of OpenCode's parts is exact.                                   *)
(***************************************************************************)
EXTENDS AgentCapture, FiniteSetTheorems, WellFoundedInduction, TLAPS

-----------------------------------------------------------------------------
(* Codex: the inductive invariant. *)

(* There is room for the second half of a line that was begun. *)
FileFits ==
  /\ file # <<>> => MaxFile >= 2
  /\ Unfinished => Len(file) < MaxFile

(* The frames of a poll are gone when it ends. *)
PollDone ==
  /\ pc \notin {"stat", "read", "send"} => starts = {}
  /\ pc # "send" => out = <<>>
  /\ pc # "end" => due = {}

(* The lines to be sent are of active threads, each once, and new: all that
   was given or will be is remembered. *)
LinesNew ==
  /\ \A i \in DOMAIN out : Owner[out[i]] \in DOMAIN active
  /\ \A i, j \in DOMAIN out : i # j => out[i] # out[j]
  /\ \A i \in DOMAIN out : out[i] \in seen /\ out[i] \notin given
  /\ pc # "stopped" => given \subseteq seen

(* The frames sent say of a thread what the tailer holds of it; while starts
   are left to send, nothing was said of those threads. *)
ToldRight ==
  /\ starts \subseteq DOMAIN active
  /\ pc # "stopped" => \A t \in Threads :
       IF t \in DOMAIN active \ starts THEN Begun(t) ELSE told[t] = "out"

CodexInv ==
  TypeOK /\ FileFits /\ PollDone /\ LinesNew /\ ToldRight /\ FramesMakeSense

-----------------------------------------------------------------------------
(* OpenCode: the inductive invariant. *)

(* No part is from the future, and nothing was done before the first query. *)
RowsOfThePast ==
  /\ clock > 0 /\ \A p \in OpenCode!Parts : row[p] <= clock
  /\ place = "prime" =>
       /\ cursor = OpenCode!Beginning /\ cache = OpenCode!Nothing
       /\ newest = OpenCode!Beginning
       /\ \A p \in OpenCode!Parts : got[p] = 0

(* The frames still to be sent are in order, after all that was sent and not
   after the cursor; none is of a change that is yet to come. *)
FramesInOrder ==
  /\ place # "send" => frames = <<>>
  /\ \A i, j \in DOMAIN frames : i < j => OpenCode!Before(frames[i], frames[j])
  /\ \A i \in DOMAIN frames :
       /\ frames[i].part \in OpenCode!Parts
       /\ frames[i].time <= row[frames[i].part]
       /\ OpenCode!Before(newest, frames[i])
       /\ ~OpenCode!Before(cursor, frames[i])
  /\ place # "stopped" => ~OpenCode!Before(cursor, newest)
  /\ ~disorder

(* The last change of a part: sent, to be read, or to be sent. *)
Sent(p) == got[p] = row[p] /\ \A i \in DOMAIN frames : frames[i].part # p

Pending(p) ==
  /\ row[p] > 0
  /\ OpenCode!Before(cursor, OpenCode!ChangeOf(p))
  /\ ~OpenCode!Known(cache, OpenCode!ChangeOf(p))

Queued(p) == \E i \in DOMAIN frames : frames[i] = OpenCode!ChangeOf(p)

NoneLost ==
  place \in {"poll", "send", "end"} =>
    \A p \in OpenCode!Parts \ (late \union Silent) : Sent(p) \/ Pending(p) \/ Queued(p)

(* The frames sent say of a session what the tailer holds of it, and those
   still to be sent will: contents are of active sessions, behind their starts. *)
HeardRight ==
  /\ place # "send" => DOMAIN openings = {}
  /\ place # "end" => idle = {}
  /\ DOMAIN openings \subseteq DOMAIN sources
  /\ \A i \in DOMAIN frames :
       /\ SessionOf[frames[i].part] \in DOMAIN sources
       /\ SessionOf[frames[i].part] \in DOMAIN openings => openings[SessionOf[frames[i].part]] < i
  /\ place # "stopped" => \A s \in Sessions :
       IF s \in DOMAIN sources \ DOMAIN openings THEN OpenCode!Begun(s) ELSE heard[s] = "out"
  /\ OpenCode!FramesMakeSense

OpenCodeInv ==
  OpenCode!TypeOK /\ RowsOfThePast /\ FramesInOrder /\ NoneLost /\ HeardRight

(* Of the two agents one runs, and the other's state is the initial one. *)
AgentInv ==
  \/ agent = "codex" /\ CodexInv /\ ~disorder /\ place = "prime" /\ OpenCode!FramesMakeSense
  \/ agent = "opencode" /\ OpenCodeInv /\ FramesMakeSense
-----------------------------------------------------------------------------
(* Recursive functions over an initial segment of the numbers.  The library's
   induction theorem takes a predicate; here a set of numbers stands for it. *)

LEMMA LeastNumber ==
  ASSUME NEW T, T \subseteq Nat, T # {}
  PROVE  \E x \in T : \A y \in T : x <= y
<1>1. PICK x \in T : \A y \in T : ~(<<y, x>> \in OpToRel(<, Nat))
  BY WFMin, NatLessThanWellFounded
<1>2. \A y \in T : ~(y < x)
  BY <1>1 DEF OpToRel
<1> QED
  BY <1>2

LEMMA CountUp ==
  ASSUME NEW n \in Nat, NEW S, 0 \in S, \A i \in 0 .. n : i < n /\ i \in S => i + 1 \in S
  PROVE  0 .. n \subseteq S
<1> DEFINE T == (0 .. n) \ S
<1> SUFFICES ASSUME T # {} PROVE FALSE
  OBVIOUS
<1>1. PICK x \in T : \A y \in T : x <= y
  <2>1. T \subseteq Nat
    OBVIOUS
  <2> HIDE DEF T
  <2> QED
    BY <2>1, LeastNumber
<1>2. x - 1 \in 0 .. n /\ x - 1 < n /\ x - 1 \notin T
  BY <1>1
<1> QED
  BY <1>2

(* A function defined from its value one place before exists. *)
LEMMA Folded ==
  ASSUME NEW D, NEW base \in D, NEW n \in Nat, NEW F \in [1 .. n -> [D -> D]]
  PROVE  \E g \in [0 .. n -> D] : g[0] = base /\ \A i \in 1 .. n : g[i] = F[i][g[i - 1]]
<1> DEFINE Upto(k) == \E g \in [0 .. k -> D] : g[0] = base /\ \A i \in 1 .. k : g[i] = F[i][g[i - 1]]
           S == {k \in 0 .. n : Upto(k)}
<1>1. 0 \in S
  <2>1. [i \in 0 .. 0 |-> base] \in [0 .. 0 -> D] /\ [i \in 0 .. 0 |-> base][0] = base
    OBVIOUS
  <2>2. 1 .. 0 = {}
    OBVIOUS
  <2>3. Upto(0)
    BY <2>1, <2>2
  <2> QED
    BY <2>3
<1>2. ASSUME NEW k \in 0 .. n, k < n, k \in S
      PROVE  k + 1 \in S
  <2>1. PICK g \in [0 .. k -> D] : g[0] = base /\ \A i \in 1 .. k : g[i] = F[i][g[i - 1]]
    BY <1>2
  <2> DEFINE h == [i \in 0 .. k + 1 |-> IF i <= k THEN g[i] ELSE F[k + 1][g[k]]]
  <2>2. k + 1 \in 1 .. n /\ F[k + 1] \in [D -> D] /\ g[k] \in D
    BY <1>2
  <2>3. h \in [0 .. k + 1 -> D]
    BY <2>2
  <2>4. h[0] = base
    BY <2>1
  <2>5. ASSUME NEW i \in 1 .. k + 1
        PROVE  h[i] = F[i][h[i - 1]]
    <3>1. CASE i <= k
      BY <3>1, <2>1
    <3>2. CASE i = k + 1
      BY <3>2
    <3> QED
      BY <3>1, <3>2
  <2>6. Upto(k + 1)
    <3> HIDE DEF h
    <3> QED
      BY <2>3, <2>4, <2>5
  <2> QED
    BY <2>2, <2>6
<1>3. n \in S
  <2> HIDE DEF S
  <2>1. \A k \in 0 .. n : k < n /\ k \in S => k + 1 \in S
    BY <1>2
  <2>2. 0 .. n \subseteq S
    BY <1>1, <2>1, CountUp
  <2> QED
    BY <2>2
<1> QED
  BY <1>3

-----------------------------------------------------------------------------
(* Codex: what a poll reads. *)

(* What one half line adds to the lines admitted before it. *)
AdmitOne(text, before, i) ==
  IF /\ Whole(text, i)
     /\ Owner[text[i].line] \in DOMAIN active
     /\ text[i].line \notin seen \union ToSet(before)
  THEN Append(before, text[i].line) ELSE before

(* The recursion of Admitted: a sequence of lines for each place in the text. *)
LEMMA AdmittedSteps ==
  ASSUME NEW text \in Seq(Half)
  PROVE  \E g :
           /\ g[0] = <<>>
           /\ \A i \in 1 .. Len(text) : g[i] = AdmitOne(text, g[i - 1], i)
           /\ Admitted(text) = g[Len(text)]
<1> DEFINE n == Len(text)
           Body(f) == [i \in 0 .. n |-> IF i = 0 THEN <<>> ELSE AdmitOne(text, f[i - 1], i)]
           done == CHOOSE f : f = Body(f)
           F == [i \in 1 .. n |-> [b \in Seq(Lines) |-> AdmitOne(text, b, i)]]
<1>1. Admitted(text) = done[n]
  BY Zenon DEF Admitted, AdmitOne
<1>2. F \in [1 .. n -> [Seq(Lines) -> Seq(Lines)]]
  <2>1. ASSUME NEW i \in 1 .. n, NEW b \in Seq(Lines)
        PROVE  AdmitOne(text, b, i) \in Seq(Lines)
    <3>1. text[i] \in Half
      OBVIOUS
    <3>2. text[i].line \in Lines
      BY <3>1 DEF Half
    <3>3. Append(b, text[i].line) \in Seq(Lines)
      BY <3>2
    <3> QED
      BY <3>3 DEF AdmitOne
  <2> QED
    BY <2>1
<1>3. PICK g \in [0 .. n -> Seq(Lines)] : g[0] = <<>> /\ \A i \in 1 .. n : g[i] = F[i][g[i - 1]]
  <2> DEFINE D == Seq(Lines)
             base == <<>>
  <2>1. n \in Nat /\ base \in D /\ F \in [1 .. n -> [D -> D]]
    BY <1>2
  <2>2. SUFFICES \E g \in [0 .. n -> D] : g[0] = base /\ \A i \in 1 .. n : g[i] = F[i][g[i - 1]]
    OBVIOUS
  <2> HIDE DEF F, n, D, base
  <2> QED
    BY <2>1, Folded
<1>4. \A i \in 1 .. n : g[i] = AdmitOne(text, g[i - 1], i)
  <2> TAKE i \in 1 .. n
  <2>1. i - 1 \in 0 .. n
    OBVIOUS
  <2> HIDE DEF n
  <2>2. g[i - 1] \in Seq(Lines)
    BY <1>3, <2>1
  <2> QED
    BY <1>3, <2>2
<1>5. g = Body(g)
  <2>1. \A i \in 0 .. n : g[i] = IF i = 0 THEN <<>> ELSE AdmitOne(text, g[i - 1], i)
    BY <1>3, <1>4
  <2> HIDE DEF n
  <2> QED
    BY <2>1
<1>6. done = Body(done)
  <2> HIDE DEF Body
  <2> QED
    BY <1>5, Zenon
<1>7. \A i \in 0 .. n : done[i] = IF i = 0 THEN <<>> ELSE AdmitOne(text, done[i - 1], i)
  <2> HIDE DEF done
  <2> QED
    BY <1>6, Zenon
<1>8. \E h : h[0] = <<>> /\ (\A i \in 1 .. n : h[i] = AdmitOne(text, h[i - 1], i)) /\ Admitted(text) = h[n]
  <2>1. 0 \in 0 .. n /\ \A i \in 1 .. n : i \in 0 .. n /\ i # 0
    OBVIOUS
  <2> HIDE DEF done, n
  <2> QED
    BY <1>1, <1>7, <2>1
<1> QED
  BY <1>8

(* Lines a poll may send: of active threads, each once, and new. *)
Sendable(b) ==
  /\ b \in Seq(Lines)
  /\ \A i \in DOMAIN b : Owner[b[i]] \in DOMAIN active /\ b[i] \notin seen
  /\ \A i, j \in DOMAIN b : i # j => b[i] # b[j]

LEMMA AdmitOneSendable ==
  ASSUME NEW text \in Seq(Half), NEW i \in 1 .. Len(text), NEW b, Sendable(b)
  PROVE  Sendable(AdmitOne(text, b, i))
<1> DEFINE l == text[i].line
<1>1. text[i] \in Half
  OBVIOUS
<1>2. l \in Lines
  BY <1>1 DEF Half
<1>3. CASE Owner[l] \in DOMAIN active /\ l \notin seen \union ToSet(b)
  <2> DEFINE c == Append(b, l)
  <2>1. b \in Seq(Lines) /\ c \in Seq(Lines)
    BY <1>2 DEF Sendable
  <2>2. DOMAIN c = 1 .. Len(b) + 1 /\ DOMAIN b = 1 .. Len(b) /\ Len(b) \in Nat
    BY <2>1
  <2>3. c[Len(b) + 1] = l /\ \A k \in DOMAIN b : c[k] = b[k] /\ b[k] # l
    BY <1>3, <2>1 DEF ToSet
  <2>4. \A k \in DOMAIN c : k \in DOMAIN b \/ k = Len(b) + 1
    BY <2>2
  <2> HIDE DEF c, l
  <2>5. Sendable(c)
    BY <1>3, <2>1, <2>3, <2>4 DEF Sendable
  <2> QED
    BY <2>5 DEF AdmitOne, c, l
<1>4. CASE ~(Owner[l] \in DOMAIN active /\ l \notin seen \union ToSet(b))
  BY <1>4 DEF AdmitOne
<1> QED
  BY <1>3, <1>4

LEMMA AdmittedSendable ==
  ASSUME NEW text \in Seq(Half)
  PROVE  Sendable(Admitted(text))
<1>1. PICK g : /\ g[0] = <<>>
               /\ \A i \in 1 .. Len(text) : g[i] = AdmitOne(text, g[i - 1], i)
               /\ Admitted(text) = g[Len(text)]
  BY AdmittedSteps
<1> DEFINE n == Len(text)
           S == {i \in 0 .. n : Sendable(g[i])}
<1>2. 0 \in S
  <2>1. Sendable(<<>>)
    BY DEF Sendable
  <2>2. 0 \in 0 .. n
    OBVIOUS
  <2> QED
    BY <1>1, <2>1, <2>2
<1>3. ASSUME NEW i \in 0 .. n, i < n, i \in S
      PROVE  i + 1 \in S
  <2>1. i + 1 \in 1 .. n /\ i + 1 \in 0 .. n /\ (i + 1) - 1 = i
    BY <1>3
  <2>2. Sendable(AdmitOne(text, g[i], i + 1))
    BY <1>3, <2>1, AdmitOneSendable
  <2>3. g[i + 1] = AdmitOne(text, g[i], i + 1)
    BY <1>1, <2>1
  <2> QED
    BY <2>1, <2>2, <2>3
<1>4. 0 .. n \subseteq S
  <2>1. n \in Nat /\ \A i \in 0 .. n : i < n /\ i \in S => i + 1 \in S
    BY <1>3
  <2> HIDE DEF S, n
  <2> QED
    BY <1>2, <2>1, CountUp
<1>5. n \in S
  BY <1>4
<1> QED
  BY <1>1, <1>5

-----------------------------------------------------------------------------
(* Codex: every step keeps the invariant. *)

LEMMA CodexStart == Init => CodexInv
<1> SUFFICES ASSUME Init PROVE CodexInv
  OBVIOUS
<1> USE DEF Init
<1>1. TypeOK
  BY CodexAssumption DEF TypeOK, Time, NoSession
<1>2. FileFits /\ PollDone /\ LinesNew /\ ToldRight /\ FramesMakeSense
  BY DEF FileFits, Unfinished, PollDone, LinesNew, ToldRight, FramesMakeSense, Begun, NoSession
<1> QED
  BY <1>1, <1>2 DEF CodexInv


(* What Codex itself does changes no more than the clock, the table and the
   file. *)
LEMMA CodexWrites ==
  ASSUME CodexInv, UNCHANGED tailerVars, TypeOK', FileFits'
  PROVE  CodexInv'
<1> USE DEF CodexInv, tailerVars, pollVars, historyVars
<1>1. PollDone' /\ LinesNew'
  BY DEF PollDone, LinesNew
<1>2. ToldRight' /\ FramesMakeSense'
  BY DEF ToldRight, FramesMakeSense, Begun
<1> QED
  BY <1>1, <1>2

LEMMA TickKept == CodexInv /\ Tick => CodexInv'
<1> SUFFICES ASSUME CodexInv, Tick PROVE CodexInv'
  OBVIOUS
<1>1. TypeOK'
  BY CodexAssumption DEF CodexInv, TypeOK, Time, Tick, tailerVars, pollVars, historyVars
<1>2. FileFits'
  BY DEF CodexInv, FileFits, Unfinished, Tick
<1> QED
  BY <1>1, <1>2, CodexWrites DEF Tick

LEMMA TouchKept == \A t \in Threads : CodexInv /\ (Touch(t) \/ Archive(t)) => CodexInv'
<1> SUFFICES ASSUME NEW t \in Threads, CodexInv, Touch(t) \/ Archive(t) PROVE CodexInv'
  OBVIOUS
<1>1. UNCHANGED <<clock, file, tailerVars>>
  BY DEF Touch, Archive
<1>2. DOMAIN updated' \subseteq Threads /\ \A u \in DOMAIN updated' : updated'[u] \in Time
  BY DEF Touch, Archive, With, CodexInv, TypeOK
<1>3. TypeOK'
  BY <1>1, <1>2 DEF CodexInv, TypeOK, Time, tailerVars, pollVars, historyVars
<1>4. FileFits'
  BY <1>1 DEF CodexInv, FileFits, Unfinished
<1> QED
  BY <1>1, <1>3, <1>4, CodexWrites

(* The file after any of its changes: half lines, within the bound, with room
   for what was begun. *)
LEMMA FileKept ==
  ASSUME CodexInv, UNCHANGED <<clock, updated, tailerVars>>,
         file' \in Seq(Half), Len(file') <= MaxFile, FileFits'
  PROVE  CodexInv'
<1>1. TypeOK'
  BY DEF CodexInv, TypeOK, Time, tailerVars, pollVars, historyVars
<1> QED
  BY <1>1, CodexWrites

LEMMA HalvesOfLine ==
  ASSUME NEW l \in Lines
  PROVE  /\ Halves(l) \in Seq(Half)
         /\ Len(Halves(l)) = 2
         /\ Halves(l)[1].half = 1 /\ Halves(l)[2].half = 2
BY DEF Halves, Half

LEMMA WriteLineKept ==
  \A l \in Lines, n \in {1, 2} : CodexInv /\ WriteLine(l, n) => CodexInv'
<1> SUFFICES ASSUME NEW l \in Lines, NEW n \in {1, 2}, CodexInv, WriteLine(l, n)
             PROVE  CodexInv'
  OBVIOUS
<1> DEFINE piece == SubSeq(Halves(l), 1, n)
<1>1. /\ file \in Seq(Half) /\ Len(file) \in Nat /\ Len(file) + 2 <= MaxFile /\ MaxFile \in Nat
      /\ file' = file \o piece /\ UNCHANGED <<clock, updated, tailerVars>>
  BY CodexAssumption DEF CodexInv, TypeOK, WriteLine
<1>2. piece \in Seq(Half) /\ Len(piece) = n /\ (n = 2 => piece[2].half = 2)
  BY HalvesOfLine
<1> HIDE DEF piece
<1>3. file' \in Seq(Half) /\ Len(file') = Len(file) + n
  BY <1>1, <1>2
<1>4. FileFits'
  <2>1. MaxFile >= 2
    BY <1>1
  <2>2. n = 2 => file'[Len(file')].half = 2
    BY <1>1, <1>2, <1>3
  <2>3. n = 1 => Len(file') < MaxFile
    BY <1>1, <1>3
  <2> QED
    BY <2>1, <2>2, <2>3 DEF FileFits, Unfinished, Last
<1> QED
  BY <1>1, <1>3, <1>4, FileKept

LEMMA WriteRestKept == CodexInv /\ WriteRest => CodexInv'
<1> SUFFICES ASSUME CodexInv, WriteRest PROVE CodexInv'
  OBVIOUS
<1> DEFINE rest == [Last(file) EXCEPT !.half = 2]
<1>1. /\ file \in Seq(Half) /\ Len(file) \in Nat /\ Len(file) < MaxFile /\ MaxFile \in Nat /\ MaxFile >= 2
      /\ file # <<>> /\ file' = Append(file, rest) /\ UNCHANGED <<clock, updated, tailerVars>>
  BY CodexAssumption DEF CodexInv, TypeOK, WriteRest, FileFits, Unfinished
<1>2. rest \in Half /\ rest.half = 2
  <2>1. Last(file) \in Half
    BY <1>1 DEF Last
  <2> QED
    BY <2>1 DEF Half
<1> HIDE DEF rest
<1>3. file' \in Seq(Half) /\ Len(file') = Len(file) + 1 /\ file'[Len(file')] = rest
  BY <1>1, <1>2
<1>4. FileFits'
  BY <1>1, <1>2, <1>3 DEF FileFits, Unfinished, Last
<1> QED
  BY <1>1, <1>3, <1>4, FileKept

LEMMA RewriteKept == CodexInv /\ Rewrite => CodexInv'
<1> SUFFICES ASSUME CodexInv, Rewrite PROVE CodexInv'
  OBVIOUS
<1>1. MaxFile \in Nat /\ MaxFile >= 2 /\ UNCHANGED <<clock, updated, tailerVars>>
  BY CodexAssumption DEF CodexInv, Rewrite, FileFits
<1>2. CASE file' = <<>>
  <2>1. file' \in Seq(Half) /\ Len(file') <= MaxFile
    BY <1>1, <1>2
  <2>2. FileFits'
    BY <1>2 DEF FileFits, Unfinished
  <2> QED
    BY <1>1, <2>1, <2>2, FileKept
<1>3. ASSUME NEW l \in Lines, file' = Halves(l)
      PROVE  CodexInv'
  <2>1. file' \in Seq(Half) /\ Len(file') = 2 /\ file'[2].half = 2
    BY <1>3, HalvesOfLine
  <2>2. FileFits'
    BY <1>1, <2>1 DEF FileFits, Unfinished, Last
  <2> QED
    BY <1>1, <2>1, <2>2, FileKept
<1> QED
  BY <1>2, <1>3 DEF Rewrite


(* The tailer's own steps leave the file alone. *)
LEMMA FileUntouched == CodexInv /\ UNCHANGED codexVars => FileFits'
BY DEF CodexInv, FileFits, Unfinished, codexVars

LEMMA ListThreadsKept == CodexInv /\ ListThreads => CodexInv'
<1> SUFFICES ASSUME CodexInv, ListThreads PROVE CodexInv'
  OBVIOUS
<1>1. PICK T \in SUBSET Recent :
        /\ Listed(T)
        /\ starts' = T \ DOMAIN active
        /\ active' = [t \in DOMAIN active \union T |->
                        IF t \notin DOMAIN active THEN updated[t]
                        ELSE IF t \in T THEN Later(active[t], updated[t]) ELSE active[t]]
  BY DEF ListThreads
<1>2. T \subseteq DOMAIN updated
  BY DEF Recent
<1>3. /\ pc = "list" /\ pc' = "stat" /\ starts = {} /\ out = <<>> /\ due = {}
      /\ UNCHANGED <<codexVars, seen, offset, out, due, historyVars>>
  BY DEF ListThreads, CodexInv, PollDone
<1>4. DOMAIN active' = DOMAIN active \union T
  BY <1>1
<1>5. TypeOK'
  <2>1. DOMAIN active' \subseteq Threads /\ \A t \in DOMAIN active' : active'[t] \in Time
    <3>1. \A t \in T : updated[t] \in Time /\ t \in Threads
      BY <1>2 DEF CodexInv, TypeOK
    <3>2. \A t \in DOMAIN active : active[t] \in Time /\ t \in Threads
      BY DEF CodexInv, TypeOK
    <3>3. \A t \in DOMAIN active' : active'[t] \in {active[t], updated[t]}
                                    /\ (t \notin DOMAIN active \/ (t \notin T => active'[t] = active[t]))
      BY <1>1 DEF Later
    <3>4. \A t \in DOMAIN active' : t \notin DOMAIN active => active'[t] = updated[t]
      BY <1>1
    <3>5. \A t \in DOMAIN active' : active'[t] \in Time
      <4> TAKE t \in DOMAIN active'
      <4>1. CASE t \in T /\ t \in DOMAIN active
        BY <4>1, <3>1, <3>2, <3>3
      <4>2. CASE t \notin T \/ t \notin DOMAIN active
        BY <4>2, <3>1, <3>2, <3>3, <3>4, <1>4
      <4> QED
        BY <4>1, <4>2
    <3> QED
      BY <3>1, <3>2, <3>5, <1>4
  <2>2. starts' \subseteq Threads
    BY <1>1, <1>4, <2>1
  <2> QED
    BY <1>3, <2>1, <2>2 DEF CodexInv, TypeOK, Time, codexVars, historyVars
<1>6. FileFits'
  BY <1>3, FileUntouched
<1>7. PollDone'
  BY <1>3 DEF PollDone
<1>8. LinesNew'
  BY <1>3 DEF CodexInv, LinesNew, historyVars
<1>9. ToldRight' /\ FramesMakeSense'
  <2>1. starts' \subseteq DOMAIN active' /\ DOMAIN active' \ starts' = DOMAIN active
    BY <1>1, <1>4
  <2> QED
    BY <1>3, <2>1 DEF CodexInv, ToldRight, FramesMakeSense, Begun, historyVars
<1> QED
  BY <1>5, <1>6, <1>7, <1>8, <1>9 DEF CodexInv

LEMMA StatKept == CodexInv /\ (ListFails \/ Stat \/ Sleep) => CodexInv'
<1> SUFFICES ASSUME CodexInv, ListFails \/ Stat \/ Sleep PROVE CodexInv'
  OBVIOUS
<1>1. /\ UNCHANGED <<codexVars, active, starts, out, due, told, meta>>
      /\ starts = {} \/ (pc = "stat" /\ pc' = "read")
      /\ pc # "stopped" /\ pc' \in {"send", "read", "list"}
      /\ out = <<>> /\ due = {}
      /\ UNCHANGED <<seen, given>> \/ (seen' = {} /\ given' = {})
      /\ offset' \in {0, offset}
  BY DEF ListFails, Stat, Sleep, CodexInv, PollDone, pollVars, historyVars
<1>2. TypeOK'
  BY <1>1, CodexAssumption DEF CodexInv, TypeOK, Time, codexVars
<1>3. FileFits'
  BY <1>1, FileUntouched
<1>4. PollDone'
  BY <1>1 DEF PollDone
<1>5. LinesNew'
  BY <1>1 DEF CodexInv, LinesNew
<1>6. ToldRight' /\ FramesMakeSense'
  BY <1>1 DEF CodexInv, ToldRight, FramesMakeSense, Begun
<1> QED
  BY <1>2, <1>3, <1>4, <1>5, <1>6 DEF CodexInv

LEMMA UnreadHalves ==
  ASSUME TypeOK
  PROVE  /\ Unread \in Seq(Half) /\ Len(Unread) \in Nat
         /\ \A n \in 0 .. Len(Unread) : SubSeq(Unread, 1, n) \in Seq(Half)
<1>1. file \in Seq(Half) /\ offset \in Nat /\ Len(file) \in Nat
  BY CodexAssumption DEF TypeOK
<1>2. Unread \in Seq(Half)
  BY <1>1 DEF Unread
<1> QED
  BY <1>2

LEMMA ReadKept == CodexInv /\ Read => CodexInv'
<1> SUFFICES ASSUME CodexInv, Read PROVE CodexInv'
  OBVIOUS
<1>1. /\ pc = "read" /\ pc' = "send" /\ due = {}
      /\ out' = Admitted(Unread) /\ seen' = seen \union ToSet(out')
      /\ UNCHANGED <<codexVars, active, starts, due, historyVars>>
  BY DEF Read, CodexInv, PollDone
<1>2. Sendable(out')
  BY <1>1, UnreadHalves, AdmittedSendable DEF CodexInv
<1>3. ToSet(out') \subseteq Lines /\ \A i \in DOMAIN out' : out'[i] \in ToSet(out')
  BY <1>2 DEF Sendable, ToSet
<1>4. TypeOK'
  <2>1. offset' \in 0 .. MaxFile
    BY CodexAssumption DEF Read, Later, CodexInv, TypeOK
  <2>2. out' \in Seq(Lines)
    BY <1>2 DEF Sendable
  <2> QED
    BY <1>1, <1>3, <2>1, <2>2 DEF CodexInv, TypeOK, Time, codexVars, historyVars
<1>5. FileFits'
  BY <1>1, FileUntouched
<1>6. PollDone'
  BY <1>1 DEF PollDone
<1>7. LinesNew'
  BY <1>1, <1>2, <1>3 DEF CodexInv, LinesNew, Sendable, historyVars
<1>8. ToldRight' /\ FramesMakeSense'
  BY <1>1 DEF CodexInv, ToldRight, FramesMakeSense, Begun, historyVars
<1> QED
  BY <1>4, <1>5, <1>6, <1>7, <1>8 DEF CodexInv

LEMMA ReadFailsKept == CodexInv /\ ReadFails => CodexInv'
<1> SUFFICES ASSUME CodexInv, ReadFails PROVE CodexInv'
  OBVIOUS
<1>1. /\ pc = "read" /\ pc' = "send" /\ due = {} /\ out = <<>>
      /\ starts' = {}
      /\ told' = [t \in Threads |-> IF t \in starts THEN "unheard" ELSE told[t]]
      /\ UNCHANGED <<codexVars, active, offset, out, due, meta, given>>
  BY DEF ReadFails, CodexInv, PollDone
<1>2. seen \subseteq seen' /\ seen' \subseteq Lines
  <2>1. PICK n \in 0 .. Len(Unread) :
          seen' = seen \union ToSet(Admitted(SubSeq(Unread, 1, n)))
    BY DEF ReadFails
  <2>2. Sendable(Admitted(SubSeq(Unread, 1, n)))
    BY UnreadHalves, AdmittedSendable DEF CodexInv
  <2> QED
    BY <2>1, <2>2 DEF Sendable, ToSet, CodexInv, TypeOK
<1>3. TypeOK'
  BY <1>1, <1>2 DEF CodexInv, TypeOK, Time, codexVars
<1>4. FileFits'
  BY <1>1, FileUntouched
<1>5. PollDone'
  BY <1>1 DEF PollDone
<1>6. LinesNew'
  BY <1>1, <1>2 DEF CodexInv, LinesNew
<1>7. ToldRight' /\ FramesMakeSense'
  BY <1>1 DEF CodexInv, ToldRight, FramesMakeSense, Begun
<1> QED
  BY <1>3, <1>4, <1>5, <1>6, <1>7 DEF CodexInv


(* A frame changes what was said of its thread only, and as the tailer means
   it, when the frame is in its place. *)
Says == {"out", "in", "confused", "unheard"}

LEMMA ToldOne ==
  ASSUME NEW t \in Threads, NEW legal, NEW state \in Says, Tell(t, legal, state),
         told \in [Threads -> Says]
  PROVE  /\ \A u \in Threads \ {t} : told'[u] = told[u]
         /\ legal => told'[t] = state
         /\ told' \in [Threads -> Says]
BY DEF Tell, Says

(* A start and an end of a thread change the row of that thread only. *)
LEMMA RowOne ==
  ASSUME NEW t \in Threads, meta \in [Threads -> {"none", "live", "ended"}],
         \/ meta' = [meta EXCEPT ![t] = Upserted(@)]
         \/ meta' = [meta EXCEPT ![t] = MarkedEnded(@)]
  PROVE  /\ \A u \in Threads \ {t} : meta'[u] = meta[u]
         /\ meta' \in [Threads -> {"none", "live", "ended"}]
         /\ meta' = [meta EXCEPT ![t] = Upserted(@)] => meta'[t] # "none"
         /\ meta' = [meta EXCEPT ![t] = MarkedEnded(@)] => meta'[t] # "live"
BY DEF Upserted, MarkedEnded

LEMMA SendStartKept == \A t \in Threads : CodexInv /\ SendStart(t) => CodexInv'
<1> SUFFICES ASSUME NEW t \in Threads, CodexInv, SendStart(t) PROVE CodexInv'
  OBVIOUS
<1>1. /\ pc = "send" /\ t \in starts /\ starts' = starts \ {t}
      /\ Tell(t, told[t] = "out", "in")
      /\ meta' = [meta EXCEPT ![t] = Upserted(@)]
      /\ UNCHANGED <<codexVars, pc, pollVars, out, due, given>>
  BY DEF SendStart
<1>2. /\ told \in [Threads -> Says] /\ meta \in [Threads -> {"none", "live", "ended"}]
      /\ told[t] = "out" /\ starts \subseteq DOMAIN active
  BY <1>1 DEF CodexInv, TypeOK, ToldRight, Says
<1>3. /\ \A u \in Threads \ {t} : told'[u] = told[u] /\ meta'[u] = meta[u]
      /\ told'[t] = "in" /\ meta'[t] # "none"
      /\ told' \in [Threads -> Says] /\ meta' \in [Threads -> {"none", "live", "ended"}]
  <2>1. "in" \in Says
    BY DEF Says
  <2>2. /\ \A u \in Threads \ {t} : told'[u] = told[u]
        /\ told'[t] = "in" /\ told' \in [Threads -> Says]
    BY <1>1, <1>2, <2>1, ToldOne
  <2>3. /\ \A u \in Threads \ {t} : meta'[u] = meta[u]
        /\ meta'[t] # "none" /\ meta' \in [Threads -> {"none", "live", "ended"}]
    BY <1>1, <1>2, RowOne
  <2> QED
    BY <2>2, <2>3
<1>4. TypeOK'
  BY <1>1, <1>3 DEF CodexInv, TypeOK, Time, codexVars, pollVars, Says
<1>5. FileFits'
  BY <1>1, FileUntouched
<1>6. PollDone'
  BY <1>1 DEF CodexInv, PollDone
<1>7. LinesNew'
  BY <1>1 DEF CodexInv, LinesNew, pollVars
<1>8. ToldRight' /\ FramesMakeSense'
  BY <1>1, <1>2, <1>3 DEF CodexInv, ToldRight, FramesMakeSense, Begun, pollVars
<1> QED
  BY <1>4, <1>5, <1>6, <1>7, <1>8 DEF CodexInv

LEMMA SendContentKept == CodexInv /\ SendContent => CodexInv'
<1> SUFFICES ASSUME CodexInv, SendContent PROVE CodexInv'
  OBVIOUS
<1> DEFINE l == Head(out)
           t == Owner[l]
<1>1. /\ pc = "send" /\ starts = {} /\ out # <<>> /\ out' = Tail(out)
      /\ Tell(t, Begun(t) /\ l \notin given, told[t])
      /\ given' = given \union {l}
      /\ UNCHANGED <<codexVars, pc, pollVars, starts, due, meta>>
  BY DEF SendContent
<1>2. /\ out \in Seq(Lines) /\ out' \in Seq(Lines) /\ Len(out) \in Nat \ {0}
      /\ l = out[1] /\ 1 \in DOMAIN out
      /\ \A i \in DOMAIN out' : i + 1 \in DOMAIN out /\ i + 1 # 1 /\ out'[i] = out[i + 1]
  BY <1>1 DEF CodexInv, TypeOK
<1>3. l \in Lines /\ t \in Threads /\ t \in DOMAIN active /\ l \in seen /\ l \notin given
  BY <1>2, CodexAssumption DEF CodexInv, LinesNew
<1>4. told \in [Threads -> Says] /\ Begun(t) /\ told[t] \in Says
  BY <1>1, <1>3 DEF CodexInv, TypeOK, ToldRight, Says
<1> HIDE DEF l, t
<1>5. told' \in [Threads -> Says] /\ \A u \in Threads : told'[u] = told[u]
  BY <1>1, <1>3, <1>4, ToldOne
<1>6. TypeOK'
  BY <1>1, <1>2, <1>3, <1>5 DEF CodexInv, TypeOK, Time, codexVars, pollVars, Says
<1>7. FileFits'
  BY <1>1, FileUntouched
<1>8. PollDone'
  BY <1>1 DEF CodexInv, PollDone
<1>9. LinesNew'
  <2>1. \A i, j \in DOMAIN out' : i # j => out'[i] # out'[j]
    <3> TAKE i, j \in DOMAIN out'
    <3> HAVE i # j
    <3>1. i \in Nat /\ j \in Nat
      BY <1>2
    <3>2. i + 1 # j + 1
      BY <3>1
    <3> QED
      BY <1>2, <3>2 DEF CodexInv, LinesNew
  <2>2. \A i \in DOMAIN out' : out'[i] # l /\ out'[i] \in seen /\ out'[i] \notin given
                               /\ Owner[out'[i]] \in DOMAIN active
    BY <1>2 DEF CodexInv, LinesNew
  <2> QED
    BY <1>1, <1>3, <2>1, <2>2 DEF CodexInv, LinesNew, pollVars
<1>10. ToldRight' /\ FramesMakeSense'
  BY <1>1, <1>5 DEF CodexInv, ToldRight, FramesMakeSense, Begun, pollVars
<1> QED
  BY <1>6, <1>7, <1>8, <1>9, <1>10 DEF CodexInv

LEMMA SendFailsKept == CodexInv /\ SendFails => CodexInv'
<1> SUFFICES ASSUME CodexInv, SendFails PROVE CodexInv'
  OBVIOUS
<1>1. /\ pc = "send" /\ pc' = "stopped" /\ due = {}
      /\ active' = NoSession /\ seen' = {} /\ offset' = 0
      /\ starts' = {} /\ out' = <<>>
      /\ UNCHANGED <<codexVars, due, historyVars>>
  BY DEF SendFails, CodexInv, PollDone
<1>2. TypeOK'
  BY <1>1, CodexAssumption DEF CodexInv, TypeOK, Time, NoSession, codexVars, historyVars
<1>3. FileFits'
  BY <1>1, FileUntouched
<1>4. PollDone'
  BY <1>1 DEF PollDone
<1>5. LinesNew'
  BY <1>1 DEF LinesNew
<1>6. ToldRight' /\ FramesMakeSense'
  BY <1>1 DEF CodexInv, ToldRight, FramesMakeSense, Begun, historyVars
<1> QED
  BY <1>2, <1>3, <1>4, <1>5, <1>6 DEF CodexInv

LEMMA FindIdleKept == CodexInv /\ FindIdle => CodexInv'
<1> SUFFICES ASSUME CodexInv, FindIdle PROVE CodexInv'
  OBVIOUS
<1>1. /\ pc = "send" /\ pc' = "end" /\ starts = {} /\ out = <<>>
      /\ due' \subseteq DOMAIN active
      /\ UNCHANGED <<codexVars, pollVars, starts, out, historyVars>>
  BY DEF FindIdle
<1>2. TypeOK'
  BY <1>1 DEF CodexInv, TypeOK, Time, codexVars, pollVars, historyVars
<1>3. FileFits'
  BY <1>1, FileUntouched
<1>4. PollDone'
  BY <1>1 DEF PollDone
<1>5. LinesNew'
  BY <1>1 DEF CodexInv, LinesNew, pollVars, historyVars
<1>6. ToldRight' /\ FramesMakeSense'
  BY <1>1 DEF CodexInv, ToldRight, FramesMakeSense, Begun, pollVars, historyVars
<1> QED
  BY <1>2, <1>3, <1>4, <1>5, <1>6 DEF CodexInv

LEMMA EndOneKept == \A t \in Threads : CodexInv /\ EndOne(t) => CodexInv'
<1> SUFFICES ASSUME NEW t \in Threads, CodexInv, EndOne(t) PROVE CodexInv'
  OBVIOUS
<1>1. /\ pc = "end" /\ t \in due /\ due' = due \ {t} /\ starts = {} /\ out = <<>>
      /\ active' = [u \in DOMAIN active \ {t} |-> active[u]]
      /\ Tell(t, Begun(t), "out")
      /\ meta' = [meta EXCEPT ![t] = MarkedEnded(@)]
      /\ UNCHANGED <<codexVars, pc, seen, offset, starts, out, given>>
  BY DEF EndOne, CodexInv, PollDone
<1>2. /\ told \in [Threads -> Says] /\ meta \in [Threads -> {"none", "live", "ended"}]
      /\ due \subseteq DOMAIN active /\ Begun(t)
  BY <1>1 DEF CodexInv, TypeOK, ToldRight, Says
<1>3. /\ \A u \in Threads \ {t} : told'[u] = told[u] /\ meta'[u] = meta[u]
      /\ told'[t] = "out" /\ meta'[t] # "live"
      /\ told' \in [Threads -> Says] /\ meta' \in [Threads -> {"none", "live", "ended"}]
  <2>1. "out" \in Says
    BY DEF Says
  <2>2. /\ \A u \in Threads \ {t} : told'[u] = told[u]
        /\ told'[t] = "out" /\ told' \in [Threads -> Says]
    BY <1>1, <1>2, <2>1, ToldOne
  <2>3. /\ \A u \in Threads \ {t} : meta'[u] = meta[u]
        /\ meta'[t] # "live" /\ meta' \in [Threads -> {"none", "live", "ended"}]
    BY <1>1, <1>2, RowOne
  <2> QED
    BY <2>2, <2>3
<1>4. TypeOK'
  BY <1>1, <1>2, <1>3 DEF CodexInv, TypeOK, Time, codexVars, Says
<1>5. FileFits'
  BY <1>1, FileUntouched
<1>6. PollDone'
  BY <1>1 DEF CodexInv, PollDone
<1>7. LinesNew'
  BY <1>1 DEF CodexInv, LinesNew
<1>8. ToldRight' /\ FramesMakeSense'
  BY <1>1, <1>2, <1>3 DEF CodexInv, ToldRight, FramesMakeSense, Begun
<1> QED
  BY <1>4, <1>5, <1>6, <1>7, <1>8 DEF CodexInv

LEMMA CodexStep == CodexInv /\ Next => CodexInv'
BY TickKept, TouchKept, WriteLineKept, WriteRestKept, RewriteKept, ListThreadsKept,
   StatKept, ReadKept, ReadFailsKept, SendStartKept, SendContentKept, SendFailsKept,
   FindIdleKept, EndOneKept DEF Next


-----------------------------------------------------------------------------
(* OpenCode: the page of rows a query returns. *)

PartChange == [time : OpenCode!Time, part : OpenCode!Parts]

(* How many unread rows come before a change. *)
Rank(c) == Cardinality({d \in OpenCode!Unread : OpenCode!Before(d, c)})

LEMMA BeforeOrders ==
  ASSUME NEW a \in OpenCode!Change, NEW b \in OpenCode!Change, NEW c \in OpenCode!Change
  PROVE  /\ ~OpenCode!Before(a, a)
         /\ OpenCode!Before(a, b) => ~OpenCode!Before(b, a)
         /\ OpenCode!Before(a, b) /\ OpenCode!Before(b, c) => OpenCode!Before(a, c)
         /\ OpenCode!Before(a, b) \/ OpenCode!Before(b, a) \/ a = b
         /\ OpenCode!Before(a, b) /\ ~OpenCode!Before(c, b) => OpenCode!Before(a, c)
         /\ ~OpenCode!Before(b, a) /\ OpenCode!Before(b, c) => OpenCode!Before(a, c)
<1>1. /\ a.time \in Nat /\ b.time \in Nat /\ c.time \in Nat
      /\ a.part \in Nat /\ b.part \in Nat /\ c.part \in Nat
  BY AgentAssumption DEF OpenCode!Change, OpenCode!Time, OpenCode!Parts
<1>2. a.time = b.time /\ a.part = b.part => a = b
  BY DEF OpenCode!Change
<1> QED
  BY <1>1, <1>2 DEF OpenCode!Before

LEMMA UnreadRows ==
  ASSUME OpenCode!TypeOK
  PROVE  /\ OpenCode!Unread \subseteq PartChange
         /\ OpenCode!Unread \subseteq OpenCode!Change
         /\ PartChange \subseteq OpenCode!Change
         /\ \A c \in OpenCode!Unread : c = OpenCode!ChangeOf(c.part)
         /\ IsFiniteSet(OpenCode!Unread)
<1>1. \A p \in OpenCode!Parts : OpenCode!ChangeOf(p) \in PartChange
  BY DEF OpenCode!TypeOK, OpenCode!ChangeOf, PartChange
<1>2. PartChange \subseteq OpenCode!Change
  BY DEF PartChange, OpenCode!Change
<1>3. OpenCode!Unread \subseteq PartChange
  BY <1>1 DEF OpenCode!Unread
<1>4. \A c \in OpenCode!Unread : c = OpenCode!ChangeOf(c.part)
  BY DEF OpenCode!Unread, OpenCode!ChangeOf
<1>5. IsFiniteSet(OpenCode!Unread)
  <2> DEFINE U == OpenCode!Unread
             f == [c \in U |-> c.part]
  <2>1. IsFiniteSet(OpenCode!Parts)
    BY AgentAssumption, FS_Interval DEF OpenCode!Parts
  <2>2. f \in Injection(U, OpenCode!Parts)
    BY <1>3, <1>4 DEF Injection, IsInjective, PartChange
  <2> HIDE DEF U, f
  <2>3. IsFiniteSet(U)
    BY <2>1, <2>2, FS_Injection
  <2> QED
    BY <2>3 DEF U
<1> QED
  BY <1>2, <1>3, <1>4, <1>5

LEMMA RankGrows ==
  ASSUME OpenCode!TypeOK, NEW c \in OpenCode!Unread, NEW d \in OpenCode!Unread
  PROVE  /\ Rank(c) \in 0 .. Cardinality(OpenCode!Unread) - 1
         /\ OpenCode!Before(c, d) => Rank(c) < Rank(d)
<1> DEFINE U == OpenCode!Unread
           Below(x) == {e \in U : OpenCode!Before(e, x)}
<1>1. U \subseteq OpenCode!Change /\ IsFiniteSet(U)
  BY UnreadRows
<1>2. Below(c) \subseteq U \ {c}
  BY <1>1, BeforeOrders
<1>3. IsFiniteSet(U \ {c}) /\ Cardinality(U \ {c}) = Cardinality(U) - 1 /\ Cardinality(U) \in Nat
  BY <1>1, FS_RemoveElement, FS_CardinalityType
<1>4. IsFiniteSet(Below(c)) /\ IsFiniteSet(Below(d))
  BY <1>1, FS_Subset
<1>5. Cardinality(Below(c)) \in Nat /\ Cardinality(Below(d)) \in Nat
  BY <1>4, FS_CardinalityType
<1>6. Cardinality(Below(c)) <= Cardinality(U) - 1
  BY <1>2, <1>3, FS_Subset
<1>7. ASSUME OpenCode!Before(c, d)
      PROVE  Cardinality(Below(c)) < Cardinality(Below(d))
  <2>1. Below(c) \union {c} \subseteq Below(d)
    BY <1>1, <1>7, BeforeOrders
  <2>2. Cardinality(Below(c) \union {c}) = Cardinality(Below(c)) + 1
    BY <1>2, <1>4, FS_AddElement
  <2>3. Cardinality(Below(c) \union {c}) <= Cardinality(Below(d))
    BY <2>1, <1>4, FS_Subset
  <2> QED
    BY <2>2, <2>3, <1>5
<1>8. Rank(c) = Cardinality(Below(c)) /\ Rank(d) = Cardinality(Below(d))
  BY DEF Rank
<1> HIDE DEF U, Below
<1> QED
  BY <1>3, <1>5, <1>6, <1>7, <1>8 DEF U

(* The ranks of the unread rows are the numbers below their count, each once. *)
LEMMA RankCounts ==
  ASSUME OpenCode!TypeOK
  PROVE  /\ Cardinality(OpenCode!Unread) \in Nat
         /\ \A k \in 0 .. Cardinality(OpenCode!Unread) - 1 : \E c \in OpenCode!Unread : Rank(c) = k
         /\ \A c, d \in OpenCode!Unread : Rank(c) = Rank(d) => c = d
         /\ \A c, d \in OpenCode!Unread : Rank(c) < Rank(d) => OpenCode!Before(c, d)
<1> DEFINE U == OpenCode!Unread
           N == Cardinality(U)
           f == [c \in U |-> Rank(c)]
<1>1. U \subseteq OpenCode!Change /\ IsFiniteSet(U) /\ N \in Nat
  BY UnreadRows, FS_CardinalityType
<1>2. \A c, d \in U : /\ Rank(c) \in 0 .. N - 1
                      /\ OpenCode!Before(c, d) => Rank(c) < Rank(d)
                      /\ OpenCode!Before(c, d) \/ OpenCode!Before(d, c) \/ c = d
  BY <1>1, RankGrows, BeforeOrders
<1>3. \A c, d \in U : /\ Rank(c) = Rank(d) => c = d
                      /\ Rank(c) < Rank(d) => OpenCode!Before(c, d)
  <2> TAKE c, d \in U
  <2>1. Rank(c) \in Int /\ Rank(d) \in Int
    BY <1>2
  <2> HIDE DEF U, N
  <2> QED
    BY <1>2, <2>1
<1>4. f \in Injection(U, 0 .. N - 1)
  <2> HIDE DEF N, U
  <2> QED
    BY <1>2, <1>3 DEF Injection, IsInjective
<1>5. IsFiniteSet(0 .. N - 1) /\ Cardinality(0 .. N - 1) = N
  <2> HIDE DEF N
  <2> QED
    BY <1>1, FS_Interval
<1>6. f \in Surjection(U, 0 .. N - 1)
  <2>1. Cardinality(U) = Cardinality(0 .. N - 1)
    BY <1>5
  <2> HIDE DEF f, N, U
  <2> QED
    BY <1>4, <1>5, <2>1, FS_Injection
<1>7. \A k \in 0 .. N - 1 : \E c \in U : Rank(c) = k
  <2> HIDE DEF N, U
  <2> QED
    BY <1>6 DEF Surjection
<1> QED
  BY <1>1, <1>3, <1>7


(* Rows that came from one query: in order, one to a part. *)
Page(rows) ==
  /\ rows \in Seq(PartChange)
  /\ \A i, j \in DOMAIN rows : i < j => OpenCode!Before(rows[i], rows[j])
  /\ \A i, j \in DOMAIN rows : rows[i].part = rows[j].part => i = j

LEMMA RowsArePage ==
  ASSUME OpenCode!TypeOK
  PROVE  /\ Page(OpenCode!Rows)
         /\ \A i \in DOMAIN OpenCode!Rows : OpenCode!Rows[i] \in OpenCode!Unread
         /\ OpenCode!Rows = <<>> => OpenCode!Unread = {}
         /\ \A c \in OpenCode!Unread :
              \/ \E i \in DOMAIN OpenCode!Rows : OpenCode!Rows[i] = c
              \/ \A i \in DOMAIN OpenCode!Rows : OpenCode!Before(OpenCode!Rows[i], c)
<1> DEFINE U == OpenCode!Unread
           N == Cardinality(U)
           n == IF N < Limit THEN N ELSE Limit
           rows == OpenCode!Rows
<1>1. rows = [i \in 1 .. n |-> CHOOSE c \in U : Rank(c) = i - 1]
  BY Zenon DEF OpenCode!Rows, Rank, OpenCode!Cardinality, Cardinality
<1>2. N \in Nat /\ Limit \in Nat /\ Limit > 0 /\ n \in Nat /\ n <= N /\ (n = 0 => N = 0) /\ (n < N => n = Limit)
  BY RankCounts, AgentAssumption
<1>3. /\ \A c, d \in U : Rank(c) = Rank(d) => c = d
      /\ \A c, d \in U : Rank(c) < Rank(d) => OpenCode!Before(c, d)
      /\ \A c \in U : Rank(c) \in 0 .. N - 1
      /\ \A k \in 0 .. N - 1 : \E c \in U : Rank(c) = k
  BY RankCounts, RankGrows
<1>4. U \subseteq PartChange /\ (\A c \in U : c = OpenCode!ChangeOf(c.part)) /\ IsFiniteSet(U)
  BY UnreadRows
<1> HIDE DEF rows, n, N, U
<1>5. \A i \in 1 .. n : rows[i] \in U /\ Rank(rows[i]) = i - 1
  <2> TAKE i \in 1 .. n
  <2>1. i - 1 \in 0 .. N - 1
    BY <1>2
  <2>2. \E c \in U : Rank(c) = i - 1
    BY <1>3, <2>1
  <2>3. rows[i] = CHOOSE c \in U : Rank(c) = i - 1
    BY <1>1
  <2> QED
    BY <2>2, <2>3, Zenon
<1>6. DOMAIN rows = 1 .. n /\ rows \in Seq(PartChange) /\ Len(rows) = n
  <2>1. rows \in [1 .. n -> PartChange]
    BY <1>1, <1>4, <1>5
  <2> QED
    BY <1>2, <2>1
<1>7. Page(rows)
  <2>1. ASSUME NEW i \in 1 .. n, NEW j \in 1 .. n, i < j
        PROVE  OpenCode!Before(rows[i], rows[j])
    <3>1. Rank(rows[i]) < Rank(rows[j])
      BY <1>2, <1>5, <2>1
    <3> QED
      BY <1>3, <1>5, <3>1
  <2>2. ASSUME NEW i \in 1 .. n, NEW j \in 1 .. n, rows[i].part = rows[j].part
        PROVE  i = j
    <3>1. rows[i] = rows[j]
      BY <1>4, <1>5, <2>2
    <3>2. i - 1 = j - 1
      BY <1>5, <3>1
    <3> QED
      BY <1>2, <3>2
  <2> QED
    BY <1>6, <2>1, <2>2 DEF Page
<1>8. ASSUME rows = <<>>
      PROVE  U = {}
  <2>1. n = 0
    BY <1>6, <1>8
  <2> QED
    BY <1>2, <1>4, <2>1, FS_EmptySet DEF N
<1>9. ASSUME NEW c \in U
      PROVE  \/ \E i \in 1 .. n : rows[i] = c
             \/ \A i \in 1 .. n : OpenCode!Before(rows[i], c)
  <2>1. Rank(c) \in Nat
    BY <1>3, <1>2
  <2>2. CASE Rank(c) < n
    <3>1. Rank(c) + 1 \in 1 .. n /\ Rank(rows[Rank(c) + 1]) = Rank(c)
      BY <1>2, <1>5, <2>1, <2>2
    <3> QED
      BY <1>3, <1>5, <3>1
  <2>3. CASE ~(Rank(c) < n)
    <3>1. \A i \in 1 .. n : Rank(rows[i]) < Rank(c)
      BY <1>2, <1>5, <2>1, <2>3
    <3> QED
      BY <1>3, <1>5, <3>1
  <2> QED
    BY <2>2, <2>3
<1> QED
  BY <1>5, <1>6, <1>7, <1>8, <1>9 DEF U, rows

(* The first rows of a page are a page. *)
LEMMA PageOfFirst ==
  ASSUME NEW rows, Page(rows), NEW n \in 0 .. Len(rows)
  PROVE  /\ Page(SubSeq(rows, 1, n))
         /\ Len(SubSeq(rows, 1, n)) = n
         /\ \A i \in 1 .. n : i \in DOMAIN rows /\ SubSeq(rows, 1, n)[i] = rows[i]
<1> DEFINE some == SubSeq(rows, 1, n)
<1>1. rows \in Seq(PartChange)
  BY DEF Page
<1>2. some \in Seq(PartChange) /\ Len(some) = n /\ DOMAIN some = 1 .. n
      /\ \A i \in 1 .. n : i \in DOMAIN rows /\ some[i] = rows[i]
  BY <1>1
<1> HIDE DEF some
<1>3. Page(some)
  BY <1>2 DEF Page
<1> QED
  BY <1>2, <1>3 DEF some

-----------------------------------------------------------------------------
(* OpenCode: what becomes of a page, row by row. *)

Caches ==
  {f \in {cache} \union UNION {[S -> OpenCode!Time] : S \in SUBSET OpenCode!Parts} :
     /\ DOMAIN f \subseteq OpenCode!Parts /\ \A p \in DOMAIN f : f[p] \in OpenCode!Time
     /\ Cardinality(DOMAIN f) <= SeenMax}

Tables ==
  {f \in {sources} \union UNION {[S -> OpenCode!Time] : S \in SUBSET Sessions} :
     DOMAIN f \subseteq Sessions /\ \A s \in DOMAIN f : f[s] \in OpenCode!Time}

Places == UNION {[S -> Nat] : S \in SUBSET Sessions}

Results ==
  [seen : Caches, active : Tables, fresh : SUBSET OpenCode!Parts, starts : Places,
   out : Seq(PartChange)]

Unrouted ==
  [seen |-> cache, active |-> sources, fresh |-> {}, starts |-> OpenCode!Nothing, out |-> <<>>]

RouteOne(x, c) ==
  IF OpenCode!Known(x.seen, c) THEN x
  ELSE [seen   |-> OpenCode!Remember(x.seen, c),
        active |-> OpenCode!Touched(x.active, c),
        fresh  |-> x.fresh \union {c.part},
        starts |-> OpenCode!Opened(x.starts, x.active, x.out, c),
        out    |-> OpenCode!Shown(x.out, c)]

(* The instance counts as this module does. *)
LEMMA SameCount == \A S : OpenCode!Cardinality(S) = Cardinality(S)
BY Zenon DEF OpenCode!Cardinality, Cardinality

LEMMA RememberTyped ==
  ASSUME NEW f \in Caches, NEW c \in PartChange
  PROVE  /\ OpenCode!Remember(f, c) \in Caches
         /\ \A p \in DOMAIN OpenCode!Remember(f, c) :
              \/ p = c.part /\ OpenCode!Remember(f, c)[p] = c.time
              \/ p \in DOMAIN f /\ OpenCode!Remember(f, c)[p] = f[p]
<1> DEFINE S == DOMAIN f \union {c.part}
           more == [p \in S |-> IF p = c.part THEN c.time ELSE f[p]]
<1>1. /\ c.part \in OpenCode!Parts /\ c.time \in OpenCode!Time
      /\ DOMAIN f \subseteq OpenCode!Parts /\ \A p \in DOMAIN f : f[p] \in OpenCode!Time
  BY DEF PartChange, Caches
<1>2. S \in SUBSET OpenCode!Parts /\ more \in [S -> OpenCode!Time]
  BY <1>1
<1>3. IsFiniteSet(OpenCode!Parts)
  BY AgentAssumption, FS_Interval DEF OpenCode!Parts
<1>4. Cardinality(S) \in Nat /\ SeenMax \in Nat
  BY <1>2, <1>3, FS_Subset, FS_CardinalityType, AgentAssumption
<1>5. OpenCode!Remember(f, c) = IF Cardinality(S) > SeenMax THEN OpenCode!Nothing ELSE more
  BY SameCount, DOMAIN more = S DEF OpenCode!Remember
<1>6. OpenCode!Nothing \in Caches /\ DOMAIN OpenCode!Nothing = {}
  <2>1. OpenCode!Nothing \in [{} -> OpenCode!Time] /\ DOMAIN OpenCode!Nothing = {}
    BY DEF OpenCode!Nothing
  <2>2. Cardinality({}) <= SeenMax
    BY <1>4, FS_EmptySet
  <2>3. OpenCode!Nothing \in UNION {[R -> OpenCode!Time] : R \in SUBSET OpenCode!Parts}
    BY <2>1
  <2> QED
    BY <2>1, <2>2, <2>3 DEF Caches
<1>7. DOMAIN more = S /\ \A p \in S : more[p] = IF p = c.part THEN c.time ELSE f[p]
  OBVIOUS
<1>8. Cardinality(S) <= SeenMax => more \in Caches
  <2> HIDE DEF more, S
  <2>1. more \in UNION {[R -> OpenCode!Time] : R \in SUBSET OpenCode!Parts}
    BY <1>2
  <2> QED
    BY <1>2, <2>1 DEF Caches
<1> HIDE DEF more
<1>9. CASE Cardinality(S) > SeenMax
  BY <1>5, <1>6, <1>9
<1>10. CASE ~(Cardinality(S) > SeenMax)
  <2>1. OpenCode!Remember(f, c) = more /\ Cardinality(S) <= SeenMax
    BY <1>4, <1>5, <1>10
  <2> QED
    BY <1>7, <1>8, <2>1
<1> QED
  BY <1>9, <1>10

LEMMA TouchedTyped ==
  ASSUME NEW f \in Tables, NEW c \in PartChange
  PROVE  OpenCode!Touched(f, c) \in Tables
<1> DEFINE S == DOMAIN f \union {SessionOf[c.part]}
           g == [s \in S |-> IF s = SessionOf[c.part] THEN c.time ELSE f[s]]
<1>1. SessionOf[c.part] \in Sessions /\ c.time \in OpenCode!Time
  BY AgentAssumption DEF PartChange, OpenCode!Parts
<1>2. S \in SUBSET Sessions /\ g \in [S -> OpenCode!Time]
  BY <1>1 DEF Tables
<1> HIDE DEF S
<1>3. g \in UNION {[R -> OpenCode!Time] : R \in SUBSET Sessions}
  BY <1>2
<1>4. g \in Tables
  BY <1>2, <1>3 DEF Tables
<1> QED
  BY <1>4 DEF OpenCode!Touched, S

(* A session that is not active yet is opened behind the contents so far. *)
LEMMA OpenedTyped ==
  ASSUME NEW f \in Places, NEW sessions, NEW b \in Seq(PartChange), NEW c \in PartChange
  PROVE  /\ OpenCode!Opened(f, sessions, b, c) \in Places
         /\ SessionOf[c.part] \in DOMAIN sessions => OpenCode!Opened(f, sessions, b, c) = f
         /\ SessionOf[c.part] \notin DOMAIN sessions =>
              /\ DOMAIN OpenCode!Opened(f, sessions, b, c) = DOMAIN f \union {SessionOf[c.part]}
              /\ \A s \in DOMAIN f \union {SessionOf[c.part]} :
                   OpenCode!Opened(f, sessions, b, c)[s] = IF s = SessionOf[c.part] THEN Len(b) ELSE f[s]
<1> DEFINE S == DOMAIN f \union {SessionOf[c.part]}
           g == [s \in S |-> IF s = SessionOf[c.part] THEN Len(b) ELSE f[s]]
<1>1. SessionOf[c.part] \in Sessions /\ Len(b) \in Nat
  BY AgentAssumption DEF PartChange, OpenCode!Parts
<1>2. DOMAIN f \subseteq Sessions /\ \A s \in DOMAIN f : f[s] \in Nat
  BY DEF Places
<1>3. S \in SUBSET Sessions /\ g \in [S -> Nat]
  BY <1>1, <1>2
<1>4. OpenCode!Opened(f, sessions, b, c) = IF SessionOf[c.part] \in DOMAIN sessions THEN f ELSE g
  BY DEF OpenCode!Opened, OpenCode!Len
<1>5. DOMAIN g = S /\ \A s \in S : g[s] = IF s = SessionOf[c.part] THEN Len(b) ELSE f[s]
  OBVIOUS
<1> HIDE DEF g, S
<1>6. g \in Places
  BY <1>3 DEF Places
<1> QED
  BY <1>4, <1>5, <1>6 DEF S

LEMMA RouteOneTyped ==
  ASSUME NEW x \in Results, NEW c \in PartChange
  PROVE  RouteOne(x, c) \in Results
<1>1. /\ x.seen \in Caches /\ x.active \in Tables
      /\ x.fresh \subseteq OpenCode!Parts /\ x.out \in Seq(PartChange) /\ x.starts \in Places
      /\ c.part \in OpenCode!Parts
  BY DEF Results, PartChange
<1>2. OpenCode!Shown(x.out, c) \in Seq(PartChange)
  BY <1>1 DEF OpenCode!Shown
<1>3. /\ OpenCode!Remember(x.seen, c) \in Caches /\ OpenCode!Touched(x.active, c) \in Tables
      /\ OpenCode!Opened(x.starts, x.active, x.out, c) \in Places
  BY <1>1, RememberTyped, TouchedTyped, OpenedTyped
<1> QED
  BY <1>1, <1>2, <1>3 DEF RouteOne, Results


(* The recursion of Routed: a result for each place in the page. *)
LEMMA RoutedSteps ==
  ASSUME OpenCode!TypeOK, NEW rows \in Seq(PartChange)
  PROVE  /\ Unrouted \in Results
         /\ \E g : /\ g[0] = Unrouted
                   /\ \A i \in 1 .. Len(rows) : g[i] = RouteOne(g[i - 1], rows[i])
                   /\ OpenCode!Routed(rows) = g[Len(rows)]
<1> DEFINE n == Len(rows)
           Body(f) == [i \in 0 .. n |-> IF i = 0 THEN Unrouted ELSE RouteOne(f[i - 1], rows[i])]
           after == CHOOSE f : f = Body(f)
           F == [i \in 1 .. n |-> [x \in Results |-> RouteOne(x, rows[i])]]
<1>1. OpenCode!Routed(rows) = after[n]
  BY Zenon DEF OpenCode!Routed, RouteOne, Unrouted
<1>2. Unrouted \in Results
  <2>1. cache \in Caches
    BY SameCount DEF OpenCode!TypeOK, Caches
  <2>2. sources \in Tables
    BY DEF OpenCode!TypeOK, Tables
  <2>3. OpenCode!Nothing \in Places
    <3>1. OpenCode!Nothing \in [{} -> Nat]
      BY DEF OpenCode!Nothing
    <3> QED
      BY <3>1 DEF Places
  <2> QED
    BY <2>1, <2>2, <2>3 DEF Unrouted, Results
<1>3. F \in [1 .. n -> [Results -> Results]]
  <2>1. ASSUME NEW i \in 1 .. n, NEW x \in Results
        PROVE  RouteOne(x, rows[i]) \in Results
    <3>1. rows[i] \in PartChange
      OBVIOUS
    <3> QED
      BY <3>1, RouteOneTyped
  <2> QED
    BY <2>1
<1>4. PICK g \in [0 .. n -> Results] : g[0] = Unrouted /\ \A i \in 1 .. n : g[i] = F[i][g[i - 1]]
  <2>1. n \in Nat
    OBVIOUS
  <2> HIDE DEF F, n
  <2> QED
    BY <1>2, <1>3, <2>1, Folded
<1>5. \A i \in 1 .. n : g[i] = RouteOne(g[i - 1], rows[i])
  <2> TAKE i \in 1 .. n
  <2>1. i - 1 \in 0 .. n
    OBVIOUS
  <2> HIDE DEF n
  <2>2. g[i - 1] \in Results
    BY <1>4, <2>1
  <2> QED
    BY <1>4, <2>2
<1>6. g = Body(g)
  <2>1. \A i \in 0 .. n : g[i] = IF i = 0 THEN Unrouted ELSE RouteOne(g[i - 1], rows[i])
    BY <1>4, <1>5
  <2> HIDE DEF n
  <2> QED
    BY <2>1
<1>7. after = Body(after)
  <2> HIDE DEF Body
  <2> QED
    BY <1>6, Zenon
<1>8. \A i \in 0 .. n : after[i] = IF i = 0 THEN Unrouted ELSE RouteOne(after[i - 1], rows[i])
  <2> HIDE DEF after
  <2> QED
    BY <1>7, Zenon
<1>9. 0 \in 0 .. n /\ \A i \in 1 .. n : i \in 0 .. n /\ i # 0
  OBVIOUS
<1> HIDE DEF after, n
<1>10. /\ after[0] = Unrouted
       /\ \A i \in 1 .. n : after[i] = RouteOne(after[i - 1], rows[i])
  BY <1>8, <1>9
<1> QED
  BY <1>1, <1>2, <1>10 DEF n

(* What was routed: every session of it is active, and those that were not
   before have a start in front of their first content. *)
StartsWell(x) ==
  /\ DOMAIN x.active = DOMAIN sources \union DOMAIN x.starts
  /\ DOMAIN x.starts \cap DOMAIN sources = {}
  /\ \A s \in DOMAIN x.starts : x.starts[s] <= Len(x.out)
  /\ \A k \in DOMAIN x.out :
       /\ SessionOf[x.out[k].part] \in DOMAIN x.active
       /\ SessionOf[x.out[k].part] \in DOMAIN x.starts => x.starts[SessionOf[x.out[k].part]] < k

LEMMA StartsKept ==
  ASSUME NEW x \in Results, StartsWell(x), NEW c \in PartChange
  PROVE  StartsWell(RouteOne(x, c))
<1> DEFINE y == RouteOne(x, c)
           s == SessionOf[c.part]
<1>1. CASE OpenCode!Known(x.seen, c)
  BY <1>1 DEF RouteOne
<1>2. CASE ~OpenCode!Known(x.seen, c)
  <2>1. /\ y.active = OpenCode!Touched(x.active, c)
        /\ y.starts = OpenCode!Opened(x.starts, x.active, x.out, c)
        /\ y.out = OpenCode!Shown(x.out, c)
    BY <1>2 DEF RouteOne
  <2>2. x.out \in Seq(PartChange) /\ Len(x.out) \in Nat /\ x.starts \in Places
    BY DEF Results
  <2>3. DOMAIN y.active = DOMAIN x.active \union {s}
    BY <2>1 DEF OpenCode!Touched
  <2>4. /\ DOMAIN x.out = 1 .. Len(x.out)
        /\ \A k \in DOMAIN y.out :
             \/ k \in DOMAIN x.out /\ y.out[k] = x.out[k]
             \/ k = Len(x.out) + 1 /\ y.out[k] = c
    BY <2>1, <2>2 DEF OpenCode!Shown
  <2>5. /\ s \in DOMAIN x.active => y.starts = x.starts
        /\ s \notin DOMAIN x.active =>
             /\ DOMAIN y.starts = DOMAIN x.starts \union {s}
             /\ \A u \in DOMAIN x.starts \union {s} :
                  y.starts[u] = IF u = s THEN Len(x.out) ELSE x.starts[u]
    <3>1. PICK f, a, b : f = x.starts /\ a = x.active /\ b = x.out
      OBVIOUS
    <3>2. f \in Places /\ b \in Seq(PartChange) /\ y.starts = OpenCode!Opened(f, a, b, c)
      BY <2>1, <2>2, <3>1
    <3> HIDE DEF y
    <3>3. /\ s \in DOMAIN a => y.starts = f
          /\ s \notin DOMAIN a =>
               /\ DOMAIN y.starts = DOMAIN f \union {s}
               /\ \A u \in DOMAIN f \union {s} : y.starts[u] = IF u = s THEN Len(b) ELSE f[u]
      <4> DEFINE z == OpenCode!Opened(f, a, b, c)
      <4>1. /\ s \in DOMAIN a => z = f
            /\ s \notin DOMAIN a =>
                 /\ DOMAIN z = DOMAIN f \union {s}
                 /\ \A u \in DOMAIN f \union {s} : z[u] = IF u = s THEN Len(b) ELSE f[u]
        <5> DEFINE g == [u \in DOMAIN f \union {s} |-> IF u = s THEN Len(b) ELSE f[u]]
        <5>1. z = IF s \in DOMAIN a THEN f ELSE g
          BY DEF OpenCode!Opened, OpenCode!Len
        <5>2. DOMAIN g = DOMAIN f \union {s}
              /\ \A u \in DOMAIN f \union {s} : g[u] = IF u = s THEN Len(b) ELSE f[u]
          OBVIOUS
        <5> HIDE DEF g, z, s
        <5> QED
          BY <5>1, <5>2
      <4>2. y.starts = z
        BY <3>2
      <4> HIDE DEF z, s
      <4> QED
        BY <4>1, <4>2
    <3> HIDE DEF s
    <3>4. s \in DOMAIN x.active => y.starts = x.starts
      BY <3>1, <3>3
    <3>5. ASSUME s \notin DOMAIN x.active
          PROVE  /\ DOMAIN y.starts = DOMAIN x.starts \union {s}
                 /\ \A u \in DOMAIN x.starts \union {s} :
                      y.starts[u] = IF u = s THEN Len(x.out) ELSE x.starts[u]
      <4>1. /\ DOMAIN y.starts = DOMAIN f \union {s}
            /\ \A u \in DOMAIN f \union {s} : y.starts[u] = IF u = s THEN Len(b) ELSE f[u]
        BY <3>1, <3>3, <3>5
      <4>2. DOMAIN f = DOMAIN x.starts /\ Len(b) = Len(x.out) /\ \A u : f[u] = x.starts[u]
        BY <3>1
      <4> QED
        BY <4>1, <4>2
    <3> QED
      BY <3>4, <3>5
  <2>6. \A u \in DOMAIN x.starts : x.starts[u] \in Nat
    BY <2>2 DEF Places
  <2> HIDE DEF y, s
  <2>7. /\ DOMAIN y.active = DOMAIN sources \union DOMAIN y.starts
        /\ DOMAIN y.starts \cap DOMAIN sources = {}
    BY <2>3, <2>5 DEF StartsWell
  <2>10. \A u \in DOMAIN y.starts : y.starts[u] <= Len(y.out)
    <3>1. Len(y.out) \in {Len(x.out), Len(x.out) + 1}
      BY <2>1, <2>2 DEF OpenCode!Shown
    <3> QED
      BY <2>2, <2>5, <2>6, <3>1 DEF StartsWell
  <2>8. ASSUME NEW k \in DOMAIN y.out
        PROVE  /\ SessionOf[y.out[k].part] \in DOMAIN y.active
               /\ SessionOf[y.out[k].part] \in DOMAIN y.starts => y.starts[SessionOf[y.out[k].part]] < k
    <3>1. CASE k \in DOMAIN x.out /\ y.out[k] = x.out[k]
      <4>1. SessionOf[x.out[k].part] \in DOMAIN x.active
        BY <3>1 DEF StartsWell
      <4> QED
        BY <2>3, <2>5, <3>1, <4>1 DEF StartsWell
    <3>2. CASE k = Len(x.out) + 1 /\ y.out[k] = c
      <4>1. SessionOf[y.out[k].part] = s
        BY <3>2 DEF s
      <4>2. CASE s \in DOMAIN x.active
        <5> SUFFICES ASSUME s \in DOMAIN x.starts PROVE x.starts[s] < k
          BY <2>3, <2>5, <4>1, <4>2
        <5> QED
          BY <2>2, <2>6, <3>2 DEF StartsWell
      <4>3. CASE s \notin DOMAIN x.active
        BY <2>2, <2>3, <2>5, <3>2, <4>1, <4>3
      <4> QED
        BY <4>2, <4>3
    <3> QED
      BY <2>4, <3>1, <3>2
  <2>9. StartsWell(y)
    BY <2>7, <2>8, <2>10 DEF StartsWell
  <2> QED
    BY <2>9 DEF y
<1> QED
  BY <1>1, <1>2

(* The result of the first i rows: the cache holds what it held or one of
   them; the frames are some of them, in order; and each that the cache did not
   know is routed, and shown unless it shows nothing. *)
RoutedWell(rows, i, x) ==
  /\ x \in Results /\ StartsWell(x)
  /\ \A p \in DOMAIN x.seen :
       \/ p \in DOMAIN cache /\ x.seen[p] = cache[p]
       \/ \E j \in 1 .. i : rows[j].part = p /\ rows[j].time = x.seen[p]
  /\ \A k \in DOMAIN x.out : \E j \in 1 .. i : x.out[k] = rows[j]
  /\ \A k, m \in DOMAIN x.out : k < m => OpenCode!Before(x.out[k], x.out[m])
  /\ \A j \in 1 .. i : ~OpenCode!Known(cache, rows[j]) =>
       /\ rows[j].part \in x.fresh
       /\ rows[j].part \notin Silent => \E k \in DOMAIN x.out : x.out[k] = rows[j]

LEMMA RouteOneWell ==
  ASSUME NEW rows, Page(rows), NEW i \in 1 .. Len(rows), NEW x, RoutedWell(rows, i - 1, x)
  PROVE  RoutedWell(rows, i, RouteOne(x, rows[i]))
<1> DEFINE c == rows[i]
           y == RouteOne(x, c)
<1>1. /\ rows \in Seq(PartChange) /\ c \in PartChange /\ x \in Results
      /\ \A j \in 1 .. i - 1 : j \in 1 .. i /\ j \in DOMAIN rows /\ j < i
      /\ i \in 1 .. i /\ i \in DOMAIN rows
      /\ \A j \in 1 .. i : j \in 1 .. i - 1 \/ j = i
  BY DEF Page, RoutedWell
<1>2. y \in Results /\ StartsWell(y)
  BY <1>1, RouteOneTyped, StartsKept DEF RoutedWell
<1>3. \A j \in 1 .. i - 1 : OpenCode!Before(rows[j], c) /\ rows[j].part # c.part
  BY <1>1 DEF Page
<1>4. CASE OpenCode!Known(x.seen, c)
  <2>1. y = x
    BY <1>4 DEF RouteOne
  <2>2. c.part \in DOMAIN x.seen /\ x.seen[c.part] >= c.time
    BY <1>4 DEF OpenCode!Known
  <2>3. c.part \in DOMAIN cache /\ x.seen[c.part] = cache[c.part]
    BY <1>3, <2>2 DEF RoutedWell
  <2>4. OpenCode!Known(cache, c)
    BY <2>2, <2>3 DEF OpenCode!Known
  <2> HIDE DEF c, y
  <2>5. \A j \in 1 .. i : ~OpenCode!Known(cache, rows[j]) => j \in 1 .. i - 1
    BY <1>1, <2>4 DEF c
  <2> QED
    BY <1>1, <2>1, <2>5 DEF RoutedWell, c, y
<1>5. CASE ~OpenCode!Known(x.seen, c)
  <2>1. /\ y.seen = OpenCode!Remember(x.seen, c)
        /\ y.fresh = x.fresh \union {c.part}
        /\ y.out = OpenCode!Shown(x.out, c)
    BY <1>5 DEF RouteOne
  <2>2. x.seen \in Caches /\ x.out \in Seq(PartChange) /\ Len(x.out) \in Nat /\ y.out \in Seq(PartChange)
    BY <1>1, <1>2 DEF Results
  <2>3. /\ DOMAIN x.out = 1 .. Len(x.out)
        /\ \A k \in DOMAIN x.out : k \in DOMAIN y.out /\ y.out[k] = x.out[k]
        /\ \A k \in DOMAIN y.out : k \in DOMAIN x.out \/ (k = Len(x.out) + 1 /\ y.out[k] = c)
        /\ c.part \notin Silent => Len(x.out) + 1 \in DOMAIN y.out /\ y.out[Len(x.out) + 1] = c
    BY <1>1, <2>1, <2>2 DEF OpenCode!Shown
  <2> HIDE DEF c, y
  <2>4. ASSUME NEW p \in DOMAIN y.seen
        PROVE  \/ p \in DOMAIN cache /\ y.seen[p] = cache[p]
               \/ \E j \in 1 .. i : rows[j].part = p /\ rows[j].time = y.seen[p]
    <3>1. CASE p = c.part /\ y.seen[p] = c.time
      BY <1>1, <3>1 DEF c
    <3>2. CASE p \in DOMAIN x.seen /\ y.seen[p] = x.seen[p]
      BY <1>1, <3>2 DEF RoutedWell
    <3> QED
      BY <1>1, <2>1, <2>2, <3>1, <3>2, RememberTyped
  <2>5. ASSUME NEW k \in DOMAIN y.out
        PROVE  \E j \in 1 .. i : y.out[k] = rows[j]
    BY <1>1, <2>3 DEF RoutedWell, c
  <2>6. ASSUME NEW k \in DOMAIN y.out, NEW m \in DOMAIN y.out, k < m
        PROVE  OpenCode!Before(y.out[k], y.out[m])
    <3>1. k \in DOMAIN x.out
      BY <2>2, <2>3, <2>6
    <3>2. CASE m \in DOMAIN x.out
      BY <2>3, <2>6, <3>1, <3>2 DEF RoutedWell
    <3>3. CASE y.out[m] = c
      BY <1>3, <2>3, <3>1, <3>3 DEF RoutedWell
    <3> QED
      BY <2>3, <3>2, <3>3
  <2>7. ASSUME NEW j \in 1 .. i, ~OpenCode!Known(cache, rows[j])
        PROVE  /\ rows[j].part \in y.fresh
               /\ rows[j].part \notin Silent => \E k \in DOMAIN y.out : y.out[k] = rows[j]
    <3>1. CASE j \in 1 .. i - 1
      BY <2>1, <2>3, <2>7, <3>1 DEF RoutedWell
    <3>2. CASE j = i
      BY <2>1, <2>3, <3>2 DEF c
    <3> QED
      BY <1>1, <3>1, <3>2
  <2>8. RoutedWell(rows, i, y)
    BY <1>2, <2>4, <2>5, <2>6, <2>7 DEF RoutedWell
  <2> QED
    BY <2>8 DEF y, c
<1> QED
  BY <1>4, <1>5

LEMMA PageRouted ==
  ASSUME OpenCode!TypeOK, NEW rows, Page(rows)
  PROVE  RoutedWell(rows, Len(rows), OpenCode!Routed(rows))
<1> DEFINE n == Len(rows)
<1>1. rows \in Seq(PartChange) /\ n \in Nat
  BY DEF Page
<1>2. PICK g : /\ g[0] = Unrouted
               /\ \A i \in 1 .. n : g[i] = RouteOne(g[i - 1], rows[i])
               /\ OpenCode!Routed(rows) = g[n]
  BY <1>1, RoutedSteps
<1> DEFINE S == {i \in 0 .. n : RoutedWell(rows, i, g[i])}
<1> HIDE DEF n
<1>3. 0 \in S
  <2>1. Unrouted \in Results
    BY <1>1, RoutedSteps
  <2>2. 1 .. 0 = {} /\ 0 \in 0 .. n
    BY <1>1
  <2>3. RoutedWell(rows, 0, Unrouted)
    BY <2>1, <2>2 DEF RoutedWell, Unrouted, StartsWell, OpenCode!Nothing
  <2> QED
    BY <1>2, <2>2, <2>3
<1>4. ASSUME NEW i \in 0 .. n, i < n, i \in S
      PROVE  i + 1 \in S
  <2>1. i + 1 \in 1 .. n /\ i + 1 \in 0 .. n /\ (i + 1) - 1 = i
    BY <1>1, <1>4
  <2>2. RoutedWell(rows, i + 1, RouteOne(g[i], rows[i + 1]))
    <3> DEFINE k == i + 1
    <3>1. k \in 1 .. Len(rows) /\ RoutedWell(rows, k - 1, g[i])
      BY <1>4, <2>1 DEF n
    <3> HIDE DEF k
    <3>2. RoutedWell(rows, k, RouteOne(g[i], rows[k]))
      BY <3>1, RouteOneWell
    <3> QED
      BY <3>2 DEF k
  <2>3. g[i + 1] = RouteOne(g[i], rows[i + 1])
    BY <1>2, <2>1
  <2> QED
    BY <2>1, <2>2, <2>3
<1>5. 0 .. n \subseteq S
  <2>1. \A i \in 0 .. n : i < n /\ i \in S => i + 1 \in S
    BY <1>4
  <2> HIDE DEF S
  <2> QED
    BY <1>1, <1>3, <2>1, CountUp
<1>6. RoutedWell(rows, n, g[n])
  BY <1>1, <1>5
<1> QED
  BY <1>2, <1>6 DEF n


-----------------------------------------------------------------------------
(* OpenCode: every step keeps the invariant. *)

LEMMA OpenCodeStart == OpenCode!Init => OpenCodeInv
<1> SUFFICES ASSUME OpenCode!Init PROVE OpenCodeInv
  OBVIOUS
<1> USE AgentAssumption DEF OpenCode!Init, OpenCode!Beginning, OpenCode!Nothing, OpenCode!Parts
<1>1. OpenCode!TypeOK
  <2>1. Cardinality({}) <= SeenMax
    BY FS_EmptySet
  <2>2. OpenCode!Cardinality(DOMAIN cache) <= SeenMax
    BY <2>1, SameCount
  <2>3. /\ 0 \in OpenCode!Time /\ 1 \in OpenCode!Time /\ {0, 1} \subseteq OpenCode!Time
        /\ OpenCode!Beginning \in OpenCode!Change
    BY DEF OpenCode!Time, OpenCode!Change
  <2>4. row \in [OpenCode!Parts -> OpenCode!Time] /\ got \in [OpenCode!Parts -> OpenCode!Time]
    BY <2>3
  <2>5. frames \in Seq(OpenCode!Change)
    OBVIOUS
  <2> QED
    BY <2>2, <2>3, <2>4, <2>5 DEF OpenCode!TypeOK
<1>2. RowsOfThePast
  BY SMTT(30) DEF RowsOfThePast
<1>3. FramesInOrder /\ NoneLost
  BY DEF FramesInOrder, NoneLost, OpenCode!Before
<1>4. HeardRight
  BY DEF HeardRight, OpenCode!FramesMakeSense
<1> QED
  BY <1>1, <1>2, <1>3, <1>4 DEF OpenCodeInv

(* What was said and what is to be sent does not change with the parts. *)
LEMMA HeardUntouched ==
  ASSUME HeardRight, UNCHANGED <<sources, frames, openings, idle, heard>>,
         \/ place' = place
         \/ place' # "stopped" /\ place # "stopped" /\ idle = {} /\ DOMAIN openings = {}
  PROVE  HeardRight'
BY DEF HeardRight, OpenCode!Begun, OpenCode!FramesMakeSense

LEMMA OpenCodeTick == OpenCodeInv /\ OpenCode!Tick => OpenCodeInv'
<1> SUFFICES ASSUME OpenCodeInv, OpenCode!Tick PROVE OpenCodeInv'
  OBVIOUS
<1>1. /\ clock < MaxMillis /\ clock' = clock + 1
      /\ UNCHANGED <<row, place, cursor, cache, sources, frames, got, newest, late, disorder>>
      /\ UNCHANGED <<openings, idle, heard>>
  BY DEF OpenCode!Tick, OpenCode!tailerVars, OpenCode!frameVars, OpenCode!historyVars
<1>2. OpenCode!TypeOK'
  BY <1>1, AgentAssumption DEF OpenCodeInv, OpenCode!TypeOK, OpenCode!Time
<1>3. RowsOfThePast'
  BY <1>1, AgentAssumption DEF OpenCodeInv, OpenCode!TypeOK, OpenCode!Time, RowsOfThePast
<1>4. FramesInOrder' /\ NoneLost'
  BY <1>1 DEF OpenCodeInv, FramesInOrder, NoneLost, Sent, Pending, Queued,
              OpenCode!ChangeOf, OpenCode!Known, OpenCode!Before
<1>5. HeardRight'
  BY <1>1, HeardUntouched DEF OpenCodeInv
<1> QED
  BY <1>2, <1>3, <1>4, <1>5 DEF OpenCodeInv

(* A part that is written is to be read, or passed over and known to be. *)
LEMMA PartWritten == \A p \in OpenCode!Parts : OpenCodeInv /\ OpenCode!WritePart(p) => OpenCodeInv'
<1> SUFFICES ASSUME NEW p \in OpenCode!Parts, OpenCodeInv, OpenCode!WritePart(p) PROVE OpenCodeInv'
  OBVIOUS
<1> DEFINE c == [time |-> clock, part |-> p]
<1>1. /\ row' = [row EXCEPT ![p] = clock]
      /\ late' = IF OpenCode!Before(cursor, c) /\ ~OpenCode!Known(cache, c)
                 THEN late \ {p} ELSE late \union {p}
      /\ UNCHANGED <<clock, place, cursor, cache, sources, frames, got, newest, disorder>>
      /\ UNCHANGED <<openings, idle, heard>>
  BY DEF OpenCode!WritePart, OpenCode!tailerVars, OpenCode!frameVars
<1>2. /\ row \in [OpenCode!Parts -> OpenCode!Time] /\ clock \in OpenCode!Time /\ clock > 0
      /\ \A q \in OpenCode!Parts : row[q] <= clock
      /\ OpenCode!Time \subseteq Nat
  BY DEF OpenCodeInv, OpenCode!TypeOK, OpenCode!Time, RowsOfThePast
<1>3. OpenCode!TypeOK'
  BY <1>1, <1>2 DEF OpenCodeInv, OpenCode!TypeOK
<1>4. RowsOfThePast'
  BY <1>1, <1>2 DEF OpenCodeInv, RowsOfThePast
<1>5. \A q \in OpenCode!Parts : row[q] \in Nat /\ row'[q] \in Nat /\ row[q] <= row'[q]
  <2> TAKE q \in OpenCode!Parts
  <2>1. row[q] \in Nat /\ clock \in Nat /\ row[q] <= clock
    BY <1>2
  <2> QED
    BY <1>1, <1>2, <2>1
<1>6. FramesInOrder'
  <2>1. ASSUME NEW i \in DOMAIN frames
        PROVE  frames[i].time <= row'[frames[i].part]
    <3>1. frames[i].part \in OpenCode!Parts /\ frames[i].time <= row[frames[i].part]
      BY DEF OpenCodeInv, FramesInOrder
    <3>2. frames[i] \in OpenCode!Change
      BY DEF OpenCodeInv, OpenCode!TypeOK
    <3>3. frames[i].time \in Nat
      BY <1>2, <3>2 DEF OpenCode!Change
    <3> QED
      BY <1>5, <3>1, <3>3
  <2> QED
    BY <1>1, <2>1 DEF OpenCodeInv, FramesInOrder, OpenCode!Before
<1>7. NoneLost'
  <2> SUFFICES ASSUME place \in {"poll", "send", "end"}, NEW q \in OpenCode!Parts \ (late' \union Silent)
               PROVE  Sent(q)' \/ Pending(q)' \/ Queued(q)'
    BY <1>1 DEF NoneLost
  <2>1. CASE q = p
    <3>1. OpenCode!Before(cursor, c) /\ ~OpenCode!Known(cache, c)
      BY <1>1, <2>1
    <3>2. row'[q] = clock /\ (OpenCode!ChangeOf(q))' = c
      BY <1>1, <1>2, <2>1 DEF OpenCode!ChangeOf
    <3> HIDE DEF c
    <3>3. Pending(q)'
      BY <1>1, <1>2, <3>1, <3>2 DEF Pending, OpenCode!Before, OpenCode!Known
    <3> QED
      BY <3>3
  <2>2. CASE q # p
    <3>1. row'[q] = row[q] /\ q \notin late
      BY <1>1, <1>2, <2>2
    <3>2. Sent(q) \/ Pending(q) \/ Queued(q)
      BY <3>1 DEF OpenCodeInv, NoneLost
    <3> QED
      BY <1>1, <3>1, <3>2 DEF Sent, Pending, Queued, OpenCode!ChangeOf, OpenCode!Before, OpenCode!Known
  <2> QED
    BY <2>1, <2>2
<1>8. HeardRight'
  BY <1>1, HeardUntouched DEF OpenCodeInv
<1> QED
  BY <1>3, <1>4, <1>6, <1>7, <1>8 DEF OpenCodeInv

LEMMA Primed == OpenCodeInv /\ OpenCode!Prime => OpenCodeInv'
<1> SUFFICES ASSUME OpenCodeInv, OpenCode!Prime PROVE OpenCodeInv'
  OBVIOUS
<1>1. /\ place = "prime" /\ place' = "poll"
      /\ UNCHANGED <<clock, row, cache, sources, frames, got, newest, disorder>>
      /\ UNCHANGED <<openings, idle, heard>>
  BY DEF OpenCode!Prime, OpenCode!sourceVars, OpenCode!frameVars
<1>2. PICK t \in {0} \union {row[p] : p \in OpenCode!Parts} :
        /\ cursor' = [time |-> t, part |-> 0]
        /\ late' = {p \in OpenCode!Parts : row[p] < t}
  BY DEF OpenCode!Prime
<1>3. /\ frames = <<>> /\ newest = OpenCode!Beginning /\ cache = OpenCode!Nothing /\ ~disorder
      /\ \A p \in OpenCode!Parts : got[p] = 0
  BY <1>1 DEF OpenCodeInv, RowsOfThePast, FramesInOrder
<1>4. /\ t \in OpenCode!Time /\ t \in Nat /\ row \in [OpenCode!Parts -> OpenCode!Time]
      /\ \A p \in OpenCode!Parts : row[p] \in Nat /\ p \in Nat /\ p > 0
  BY <1>2, AgentAssumption DEF OpenCodeInv, OpenCode!TypeOK, OpenCode!Time, OpenCode!Parts
<1>5. OpenCode!TypeOK'
  <2>1. cursor' \in OpenCode!Change /\ late' \subseteq OpenCode!Parts
    BY <1>2, <1>4 DEF OpenCode!Change
  <2> QED
    BY <1>1, <2>1 DEF OpenCodeInv, OpenCode!TypeOK
<1>6. RowsOfThePast'
  BY <1>1 DEF OpenCodeInv, RowsOfThePast
<1>7. FramesInOrder'
  BY <1>1, <1>2, <1>3, <1>4 DEF FramesInOrder, OpenCode!Before, OpenCode!Beginning
<1>8. NoneLost'
  <2> SUFFICES ASSUME NEW p \in OpenCode!Parts, p \notin late'
               PROVE  Sent(p)' \/ Pending(p)'
    BY DEF NoneLost
  <2>1. row[p] >= t
    BY <1>2, <1>4
  <2>2. CASE row[p] = 0
    BY <1>1, <1>3, <2>2 DEF Sent
  <2>3. CASE row[p] > 0
    BY <1>1, <1>2, <1>3, <1>4, <2>1, <2>3
       DEF Pending, OpenCode!ChangeOf, OpenCode!Before, OpenCode!Known, OpenCode!Nothing
  <2> QED
    BY <1>4, <2>2, <2>3
<1>9. HeardRight'
  BY <1>1, HeardUntouched DEF OpenCodeInv, HeardRight
<1> QED
  BY <1>5, <1>6, <1>7, <1>8, <1>9 DEF OpenCodeInv


(* The cache, the sessions and the frames of what was routed are well typed. *)
LEMMA ResultsTyped ==
  ASSUME NEW x \in Results
  PROVE  /\ DOMAIN x.seen \subseteq OpenCode!Parts
         /\ \A p \in DOMAIN x.seen : x.seen[p] \in OpenCode!Time
         /\ OpenCode!Cardinality(DOMAIN x.seen) <= SeenMax
         /\ DOMAIN x.active \subseteq Sessions
         /\ \A s \in DOMAIN x.active : x.active[s] \in OpenCode!Time
         /\ x.fresh \subseteq OpenCode!Parts
         /\ x.out \in Seq(OpenCode!Change)
         /\ DOMAIN x.starts \subseteq Sessions
         /\ \A s \in DOMAIN x.starts : x.starts[s] \in Nat
<1>1. /\ x.seen \in Caches /\ x.active \in Tables /\ x.fresh \subseteq OpenCode!Parts
      /\ x.starts \in Places /\ x.out \in Seq(PartChange)
  BY DEF Results
<1>2. PartChange \subseteq OpenCode!Change
  BY DEF PartChange, OpenCode!Change
<1>3. x.out \in Seq(OpenCode!Change)
  BY <1>1, <1>2
<1> QED
  BY <1>1, <1>3, SameCount DEF Caches, Tables, Places

(* A change that is pending and not among the rows routed stays unknown. *)
LEMMA StaysUnknown ==
  ASSUME NEW rows, NEW n, NEW x, RoutedWell(rows, n, x), NEW p,
         \A i \in 1 .. n : rows[i] # OpenCode!ChangeOf(p),
         \A i \in 1 .. n : rows[i] = OpenCode!ChangeOf(rows[i].part),
         ~OpenCode!Known(cache, OpenCode!ChangeOf(p))
  PROVE  ~OpenCode!Known(x.seen, OpenCode!ChangeOf(p))
<1>1. OpenCode!ChangeOf(p).part = p /\ \A i \in 1 .. n : rows[i].part # p
  BY DEF OpenCode!ChangeOf
<1> QED
  BY <1>1 DEF RoutedWell, OpenCode!Known

LEMMA Polled == OpenCodeInv /\ OpenCode!Poll => OpenCodeInv'
<1> SUFFICES ASSUME OpenCodeInv, OpenCode!Poll PROVE OpenCodeInv'
  OBVIOUS
<1> DEFINE rows == OpenCode!Rows
           x == OpenCode!Routed(rows)
           n == Len(rows)
<1>1. /\ place = "poll" /\ place' = "send"
      /\ cache' = x.seen /\ sources' = x.active /\ frames' = x.out
      /\ cursor' = IF rows = <<>> THEN cursor ELSE Last(rows)
      /\ openings' = x.starts
      /\ UNCHANGED <<clock, row, idle, heard, got, newest, late, disorder>>
  BY DEF OpenCode!Poll, OpenCode!Last, Last, OpenCode!sourceVars, OpenCode!historyVars
<1>2. /\ OpenCode!TypeOK /\ frames = <<>> /\ ~disorder /\ ~OpenCode!Before(cursor, newest)
      /\ idle = {} /\ DOMAIN openings = {}
  BY <1>1 DEF OpenCodeInv, FramesInOrder, HeardRight
<1>3. /\ Page(rows)
      /\ \A i \in DOMAIN rows : rows[i] \in OpenCode!Unread
      /\ rows = <<>> => OpenCode!Unread = {}
      /\ \A c \in OpenCode!Unread :
           \/ \E i \in DOMAIN rows : rows[i] = c
           \/ \A i \in DOMAIN rows : OpenCode!Before(rows[i], c)
  BY <1>2, RowsArePage
<1>4. RoutedWell(rows, n, x)
  BY <1>2, <1>3, PageRouted
<1>5. /\ OpenCode!Unread \subseteq PartChange
      /\ PartChange \subseteq OpenCode!Change
      /\ \A c \in OpenCode!Unread : c = OpenCode!ChangeOf(c.part) /\ OpenCode!Before(cursor, c)
      /\ cursor \in OpenCode!Change /\ newest \in OpenCode!Change
  BY <1>2, UnreadRows DEF OpenCode!Unread, OpenCode!TypeOK
<1> HIDE DEF x, rows
<1>6. rows \in Seq(PartChange) /\ n \in Nat /\ DOMAIN rows = 1 .. n
      /\ (rows # <<>> => n \in 1 .. n /\ Last(rows) = rows[n])
  BY <1>3 DEF Page, Last
<1> HIDE DEF n
<1>7. \A i \in 1 .. n : rows # <<>> /\ cursor' = rows[n] /\ (i = n \/ OpenCode!Before(rows[i], rows[n]))
  <2> TAKE i \in 1 .. n
  <2>1. rows # <<>>
    BY <1>6
  <2>2. i = n \/ i < n
    BY <1>6
  <2> QED
    BY <1>1, <1>3, <1>6, <2>1, <2>2 DEF Page
<1>8. cursor' \in OpenCode!Change
  BY <1>1, <1>5, <1>6
<1>9. OpenCode!TypeOK'
  BY <1>1, <1>2, <1>4, <1>8, ResultsTyped DEF OpenCode!TypeOK, RoutedWell
<1>10. RowsOfThePast'
  BY <1>1 DEF OpenCodeInv, RowsOfThePast
<1>11. \A i \in 1 .. n : /\ OpenCode!Before(cursor, rows[i])
                         /\ rows[i] \in PartChange /\ rows[i] \in OpenCode!Change
                         /\ rows[i] = OpenCode!ChangeOf(rows[i].part)
                         /\ OpenCode!Before(newest, rows[i])
                         /\ ~OpenCode!Before(cursor', rows[i])
  <2> TAKE i \in 1 .. n
  <2>1. /\ rows[i] \in OpenCode!Unread /\ rows[n] \in OpenCode!Unread
        /\ rows[i] \in OpenCode!Change /\ rows[n] \in OpenCode!Change
    BY <1>3, <1>5, <1>6, <1>7
  <2>2. OpenCode!Before(newest, rows[i])
    BY <1>2, <1>5, <2>1, BeforeOrders
  <2>3. ~OpenCode!Before(cursor', rows[i])
    BY <1>7, <2>1, BeforeOrders
  <2> QED
    BY <1>5, <2>1, <2>2, <2>3
<1>12. FramesInOrder'
  <2>1. ASSUME NEW k \in DOMAIN frames'
        PROVE  /\ frames'[k].part \in OpenCode!Parts
               /\ frames'[k].time <= row[frames'[k].part]
               /\ OpenCode!Before(newest, frames'[k])
               /\ ~OpenCode!Before(cursor', frames'[k])
    <3>1. PICK i \in 1 .. n : frames'[k] = rows[i]
      BY <1>1, <1>4 DEF RoutedWell
    <3>2. rows[i].part \in OpenCode!Parts /\ rows[i].time = row[rows[i].part] /\ rows[i].time \in Nat
      <4>1. rows[i] \in PartChange /\ rows[i] = OpenCode!ChangeOf(rows[i].part)
        BY <1>11
      <4>2. rows[i].part \in OpenCode!Parts /\ rows[i].time \in OpenCode!Time
        BY <4>1 DEF PartChange
      <4>3. rows[i].time = row[rows[i].part]
        <5>1. \A p : OpenCode!ChangeOf(p).time = row[p]
          BY DEF OpenCode!ChangeOf
        <5> QED
          BY <4>1, <5>1
      <4> QED
        BY <4>2, <4>3, AgentAssumption DEF OpenCode!Time
    <3> QED
      BY <1>11, <3>1, <3>2
  <2>2. ~OpenCode!Before(cursor', newest)
    <3>1. CASE rows = <<>>
      BY <1>1, <1>2, <3>1
    <3>2. CASE rows # <<>>
      <4>1. n \in 1 .. n
        BY <1>6, <3>2
      <4>2. OpenCode!Before(newest, rows[n]) /\ cursor' = rows[n]
        BY <1>7, <1>11, <4>1
      <4> QED
        BY <1>5, <1>8, <4>2, BeforeOrders
    <3> QED
      BY <3>1, <3>2
  <2>3. \A k, m \in DOMAIN frames' : k < m => OpenCode!Before(frames'[k], frames'[m])
    BY <1>1, <1>4 DEF RoutedWell
  <2> QED
    BY <1>1, <1>2, <2>1, <2>2, <2>3 DEF FramesInOrder, OpenCode!Before
<1>13. NoneLost'
  <2> SUFFICES ASSUME NEW p \in OpenCode!Parts, p \notin late, p \notin Silent
               PROVE  Sent(p)' \/ Pending(p)' \/ Queued(p)'
    BY <1>1 DEF NoneLost
  <2> DEFINE c == OpenCode!ChangeOf(p)
  <2>1. c.part = p /\ c' = c
    BY <1>1 DEF OpenCode!ChangeOf
  <2>2. Sent(p) \/ Pending(p)
    BY <1>1, <1>2 DEF OpenCodeInv, NoneLost, Queued
  <2>3. CASE \E i \in 1 .. n : rows[i] = c /\ ~OpenCode!Known(cache, c)
    <3>1. PICK i \in 1 .. n : rows[i] = c /\ ~OpenCode!Known(cache, c)
      BY <2>3
    <3>2. \E k \in DOMAIN frames' : frames'[k] = c
      BY <1>1, <1>4, <2>1, <3>1 DEF RoutedWell
    <3> HIDE DEF c
    <3> QED
      BY <2>1, <3>2 DEF Queued, c
  <2>4. CASE Pending(p) /\ ~\E i \in 1 .. n : rows[i] = c
    <3>1. c \in OpenCode!Unread
      BY <2>4 DEF Pending, OpenCode!Unread, OpenCode!ChangeOf
    <3>2. n \in 1 .. n /\ cursor' = rows[n] /\ OpenCode!Before(rows[n], c)
      BY <1>3, <1>6, <1>7, <2>4, <3>1
    <3>3. ~OpenCode!Known(cache', c)
      BY <1>1, <1>4, <1>11, <2>4, StaysUnknown DEF Pending
    <3>4. OpenCode!Before(cursor', c) /\ row[p] > 0
      BY <2>4, <3>2 DEF Pending
    <3> HIDE DEF c
    <3>5. Pending(p)'
      BY <1>1, <2>1, <3>3, <3>4 DEF Pending, OpenCode!Before, OpenCode!Known, c
    <3> QED
      BY <3>5
  <2>5. CASE Sent(p) /\ ~\E i \in 1 .. n : rows[i] = c /\ ~OpenCode!Known(cache, c)
    <3>1. CASE \E k \in DOMAIN frames' : frames'[k].part = p
      <4>1. PICK i \in 1 .. n : rows[i].part = p /\ \E k \in DOMAIN frames' : frames'[k] = rows[i]
        BY <1>1, <1>4, <3>1 DEF RoutedWell
      <4>2. rows[i] = c
        BY <1>11, <4>1
      <4> HIDE DEF c
      <4> QED
        BY <2>1, <4>1, <4>2 DEF Queued, c
    <3>2. CASE ~\E k \in DOMAIN frames' : frames'[k].part = p
      BY <1>1, <2>5, <3>2 DEF Sent
    <3> QED
      BY <3>1, <3>2
  <2> QED
    BY <2>2, <2>3, <2>4, <2>5 DEF Pending
<1>14. HeardRight'
  <2>1. StartsWell(x)
    BY <1>4 DEF RoutedWell
  <2>2. DOMAIN sources' \ DOMAIN openings' = DOMAIN sources \ DOMAIN openings
    BY <1>1, <1>2, <2>1 DEF StartsWell
  <2>3. \A s \in Sessions :
          IF s \in DOMAIN sources' \ DOMAIN openings' THEN OpenCode!Begun(s)' ELSE heard'[s] = "out"
    BY <1>1, <2>2 DEF OpenCodeInv, HeardRight, OpenCode!Begun
  <2>4. \A k \in DOMAIN frames' :
          /\ SessionOf[frames'[k].part] \in DOMAIN sources'
          /\ SessionOf[frames'[k].part] \in DOMAIN openings' => openings'[SessionOf[frames'[k].part]] < k
    BY <1>1, <2>1 DEF StartsWell
  <2> QED
    BY <1>1, <1>2, <2>1, <2>3, <2>4 DEF OpenCodeInv, HeardRight, StartsWell, OpenCode!FramesMakeSense
<1> QED
  BY <1>9, <1>10, <1>12, <1>13, <1>14 DEF OpenCodeInv


LEMMA PollFailed == OpenCodeInv /\ OpenCode!PollFails => OpenCodeInv'
<1> SUFFICES ASSUME OpenCodeInv, OpenCode!PollFails PROVE OpenCodeInv'
  OBVIOUS
<1> DEFINE page == OpenCode!Rows
<1>1. PICK n \in 0 .. Len(page) :
        LET routed == OpenCode!Routed(SubSeq(page, 1, n))
        IN  /\ cache' = routed.seen
            /\ sources' = routed.active
            /\ late' = late \union routed.fresh
            /\ heard' = [s \in Sessions |->
                          IF s \in DOMAIN routed.starts THEN "unheard" ELSE heard[s]]
  BY DEF OpenCode!PollFails
<1> DEFINE rows == SubSeq(page, 1, n)
           x == OpenCode!Routed(rows)
<1>2. /\ place = "poll" /\ place' = "send"
      /\ cache' = x.seen /\ sources' = x.active /\ late' = late \union x.fresh
      /\ heard' = [s \in Sessions |-> IF s \in DOMAIN x.starts THEN "unheard" ELSE heard[s]]
      /\ UNCHANGED <<clock, row, cursor, frames, openings, idle, got, newest, disorder>>
  BY <1>1 DEF OpenCode!PollFails, OpenCode!sourceVars, OpenCode!frameVars
<1>3. OpenCode!TypeOK /\ frames = <<>> /\ idle = {} /\ DOMAIN openings = {}
  BY <1>2 DEF OpenCodeInv, FramesInOrder, HeardRight
<1>4. Page(page) /\ \A i \in DOMAIN page : page[i] \in OpenCode!Unread
  BY <1>3, RowsArePage
<1>5. Page(rows) /\ Len(rows) = n /\ \A i \in 1 .. n : rows[i] \in OpenCode!Unread
  <2> HIDE DEF page
  <2> QED
    BY <1>4, PageOfFirst
<1> HIDE DEF rows, page
<1>6. RoutedWell(rows, n, x)
  BY <1>3, <1>5, PageRouted
<1>7. \A i \in 1 .. n : rows[i] = OpenCode!ChangeOf(rows[i].part)
  BY <1>3, <1>5, UnreadRows
<1> HIDE DEF x
<1>8. OpenCode!TypeOK'
  BY <1>2, <1>3, <1>6, ResultsTyped DEF OpenCode!TypeOK, RoutedWell
<1>9. RowsOfThePast'
  BY <1>2 DEF OpenCodeInv, RowsOfThePast
<1>10. FramesInOrder'
  BY <1>2, <1>3 DEF OpenCodeInv, FramesInOrder, OpenCode!Before
<1>11. NoneLost'
  <2> SUFFICES ASSUME NEW p \in OpenCode!Parts, p \notin late, p \notin x.fresh, p \notin Silent
               PROVE  Sent(p)' \/ Pending(p)'
    BY <1>2 DEF NoneLost
  <2> DEFINE c == OpenCode!ChangeOf(p)
  <2>1. c.part = p /\ c' = c
    BY <1>2 DEF OpenCode!ChangeOf
  <2>2. CASE Sent(p)
    BY <1>2, <2>2 DEF Sent
  <2>3. CASE Pending(p)
    <3>1. \A i \in 1 .. n : rows[i] # c
      BY <1>6, <2>1, <2>3 DEF RoutedWell, Pending
    <3>2. ~OpenCode!Known(cache', c)
      BY <1>2, <1>6, <1>7, <2>3, <3>1, StaysUnknown DEF Pending
    <3>3. OpenCode!Before(cursor, c) /\ row[p] > 0
      BY <2>3 DEF Pending
    <3> HIDE DEF c
    <3> QED
      BY <1>2, <2>1, <3>2, <3>3 DEF Pending, OpenCode!Before, OpenCode!Known, c
  <2> QED
    BY <1>2, <1>3, <2>2, <2>3 DEF OpenCodeInv, NoneLost, Queued
<1>12. HeardRight'
  <2>1. StartsWell(x)
    BY <1>6 DEF RoutedWell
  <2>2. \A s \in Sessions :
          /\ s \in DOMAIN sources' <=> s \in DOMAIN sources \/ s \in DOMAIN x.starts
          /\ heard'[s] = IF s \in DOMAIN x.starts THEN "unheard" ELSE heard[s]
    BY <1>2, <2>1 DEF StartsWell
  <2>3. \A s \in Sessions :
          /\ IF s \in DOMAIN sources' THEN heard'[s] \in {"in", "unheard"} ELSE heard'[s] = "out"
          /\ heard'[s] # "confused"
    BY <1>2, <1>3, <2>2 DEF OpenCodeInv, HeardRight, OpenCode!Begun, OpenCode!FramesMakeSense
  <2> QED
    BY <1>2, <1>3, <2>3 DEF HeardRight, OpenCode!Begun, OpenCode!FramesMakeSense
<1> QED
  BY <1>8, <1>9, <1>10, <1>11, <1>12 DEF OpenCodeInv

(* The tailer stops, in a panic or because the channel is closed. *)
LEMMA OpenCodeStopped ==
  OpenCodeInv /\ (OpenCode!Panic \/ OpenCode!SendFails) => OpenCodeInv'
<1> SUFFICES ASSUME OpenCodeInv, OpenCode!Panic \/ OpenCode!SendFails PROVE OpenCodeInv'
  OBVIOUS
<1>1. /\ place' = "stopped" /\ frames' = <<>>
      /\ cursor' = OpenCode!Beginning /\ cache' = OpenCode!Nothing /\ sources' = OpenCode!Nothing
      /\ DOMAIN openings' = {} /\ idle = {} /\ idle' = idle
      /\ UNCHANGED <<clock, row, heard, got, newest, late, disorder>>
  BY DEF OpenCode!Panic, OpenCode!SendFails, OpenCode!sourceVars, OpenCode!historyVars,
         OpenCode!frameVars, OpenCode!Nothing, OpenCodeInv, FramesInOrder, HeardRight
<1>2. OpenCode!TypeOK'
  <2>1. OpenCode!Cardinality(DOMAIN cache') <= SeenMax
    BY <1>1, SameCount, FS_EmptySet, AgentAssumption DEF OpenCode!Nothing
  <2>2. cursor' \in OpenCode!Change
    BY <1>1, AgentAssumption DEF OpenCode!Beginning, OpenCode!Change, OpenCode!Time
  <2> QED
    BY <1>1, <2>1, <2>2 DEF OpenCodeInv, OpenCode!TypeOK, OpenCode!Nothing
<1>3. RowsOfThePast'
  BY <1>1 DEF OpenCodeInv, RowsOfThePast
<1>4. FramesInOrder' /\ NoneLost'
  BY <1>1 DEF OpenCodeInv, FramesInOrder, NoneLost
<1>5. HeardRight'
  BY <1>1 DEF OpenCodeInv, HeardRight, OpenCode!FramesMakeSense
<1> QED
  BY <1>2, <1>3, <1>4, <1>5 DEF OpenCodeInv

(* A frame changes what was said of its session only, and as the tailer means
   it, when the frame is in its place. *)
LEMMA HeardOne ==
  ASSUME NEW s \in Sessions, NEW legal, NEW state \in Says, OpenCode!Tell(s, legal, state),
         heard \in [Sessions -> Says]
  PROVE  /\ \A u \in Sessions \ {s} : heard'[u] = heard[u]
         /\ legal => heard'[s] = state
         /\ heard' \in [Sessions -> Says]
BY DEF OpenCode!Tell, Says

(* Starts, the search for idle sessions, ends and the sleep leave the parts
   alone. *)
LEMMA PartsUntouched ==
  ASSUME OpenCodeInv, UNCHANGED <<clock, row, cursor, cache, frames, got, newest, late, disorder>>,
         \/ place' = place
         \/ place = "send" /\ place' = "end" /\ frames = <<>>
         \/ place = "end" /\ place' = "poll",
         OpenCode!TypeOK', HeardRight'
  PROVE  OpenCodeInv'
<1>1. RowsOfThePast'
  BY DEF OpenCodeInv, RowsOfThePast
<1>2. FramesInOrder'
  BY DEF OpenCodeInv, FramesInOrder, OpenCode!Before
<1>3. NoneLost'
  BY DEF OpenCodeInv, NoneLost, Sent, Pending, Queued, OpenCode!ChangeOf, OpenCode!Known, OpenCode!Before
<1> QED
  BY <1>1, <1>2, <1>3 DEF OpenCodeInv

LEMMA StartSent == \A s \in Sessions : OpenCodeInv /\ OpenCode!SendStart(s) => OpenCodeInv'
<1> SUFFICES ASSUME NEW s \in Sessions, OpenCodeInv, OpenCode!SendStart(s) PROVE OpenCodeInv'
  OBVIOUS
<1>1. /\ place = "send" /\ s \in DOMAIN openings
      /\ openings' = [u \in DOMAIN openings \ {s} |-> openings[u]]
      /\ OpenCode!Tell(s, heard[s] = "out", "in")
      /\ UNCHANGED <<clock, row, place, cursor, cache, sources, frames, idle, got, newest, late, disorder>>
  BY DEF OpenCode!SendStart, OpenCode!sourceVars, OpenCode!tailerVars, OpenCode!historyVars
<1>2. heard \in [Sessions -> Says] /\ heard[s] = "out" /\ "in" \in Says /\ s \in DOMAIN sources
  BY <1>1 DEF OpenCodeInv, OpenCode!TypeOK, HeardRight, Says
<1>3. /\ \A u \in Sessions \ {s} : heard'[u] = heard[u]
      /\ heard'[s] = "in" /\ heard' \in [Sessions -> Says]
  BY <1>1, <1>2, HeardOne
<1>4. DOMAIN openings' = DOMAIN openings \ {s} /\ \A u \in DOMAIN openings' : openings'[u] = openings[u]
  BY <1>1
<1>5. OpenCode!TypeOK'
  BY <1>1, <1>3, <1>4 DEF OpenCodeInv, OpenCode!TypeOK, Says
<1>6. HeardRight'
  <2>1. \A u \in Sessions :
          IF u \in DOMAIN sources \ DOMAIN openings' THEN OpenCode!Begun(u)' ELSE heard'[u] = "out"
    BY <1>1, <1>2, <1>3, <1>4 DEF OpenCodeInv, HeardRight, OpenCode!Begun
  <2>2. \A u \in Sessions : heard'[u] # "confused"
    BY <1>3 DEF OpenCodeInv, HeardRight, OpenCode!FramesMakeSense
  <2> QED
    BY <1>1, <1>4, <2>1, <2>2 DEF OpenCodeInv, HeardRight, OpenCode!FramesMakeSense
<1> QED
  BY <1>1, <1>5, <1>6, PartsUntouched

LEMMA FrameSent == OpenCodeInv /\ OpenCode!Send => OpenCodeInv'
<1> SUFFICES ASSUME OpenCodeInv, OpenCode!Send PROVE OpenCodeInv'
  OBVIOUS
<1> DEFINE c == Head(frames)
<1>1. /\ place = "send" /\ frames # <<>> /\ frames' = Tail(frames)
      /\ got' = [got EXCEPT ![c.part] = c.time]
      /\ newest' = c
      /\ disorder' = (disorder \/ ~OpenCode!Before(newest, c))
      /\ openings' = [s \in DOMAIN openings |-> openings[s] - 1]
      /\ \A s \in DOMAIN openings : openings[s] > 0
      /\ OpenCode!Tell(SessionOf[c.part], OpenCode!Begun(SessionOf[c.part]), heard[SessionOf[c.part]])
      /\ UNCHANGED <<clock, row, place, cursor, cache, sources, idle, late>>
  BY DEF OpenCode!Send, OpenCode!sourceVars, OpenCode!tailerVars
<1>2. /\ frames \in Seq(OpenCode!Change) /\ frames' \in Seq(OpenCode!Change)
      /\ Len(frames) \in Nat \ {0} /\ c = frames[1] /\ 1 \in DOMAIN frames
      /\ \A i \in DOMAIN frames' : i + 1 \in DOMAIN frames /\ i \in Nat /\ i > 0 /\ frames'[i] = frames[i + 1]
      /\ \A i \in DOMAIN frames : i = 1 \/ (i - 1 \in DOMAIN frames' /\ frames'[i - 1] = frames[i])
  BY <1>1 DEF OpenCodeInv, OpenCode!TypeOK
<1> HIDE DEF c
<1>3. /\ c \in OpenCode!Change /\ c.part \in OpenCode!Parts /\ c.time \in OpenCode!Time
      /\ c.time <= row[c.part] /\ OpenCode!Before(newest, c) /\ ~OpenCode!Before(cursor, c)
      /\ ~disorder
  <2>1. c \in OpenCode!Change
    BY <1>2
  <2>2. c.time \in OpenCode!Time
    BY <2>1 DEF OpenCode!Change
  <2> QED
    BY <1>2, <2>1, <2>2 DEF OpenCodeInv, FramesInOrder
<1> DEFINE s == SessionOf[c.part]
<1>9. /\ s \in Sessions /\ heard \in [Sessions -> Says] /\ OpenCode!Begun(s) /\ heard[s] \in Says
      /\ DOMAIN openings \subseteq Sessions /\ \A u \in DOMAIN openings : openings[u] \in Nat
  <2>1. s \in Sessions /\ heard \in [Sessions -> Says]
    BY <1>3, AgentAssumption DEF OpenCodeInv, OpenCode!TypeOK, OpenCode!Parts, Says
  <2>2. s \in DOMAIN sources /\ (s \in DOMAIN openings => openings[s] < 1)
    BY <1>2 DEF OpenCodeInv, HeardRight
  <2>3. DOMAIN openings \subseteq Sessions /\ \A u \in DOMAIN openings : openings[u] \in Nat
    BY DEF OpenCodeInv, OpenCode!TypeOK
  <2> HIDE DEF s
  <2>4. s \notin DOMAIN openings
    BY <1>1, <2>2, <2>3
  <2> QED
    BY <1>1, <2>1, <2>2, <2>3, <2>4 DEF OpenCodeInv, HeardRight
<1>10. heard' \in [Sessions -> Says] /\ \A u \in Sessions : heard'[u] = heard[u]
  <2>1. OpenCode!Tell(s, OpenCode!Begun(s), heard[s])
    BY <1>1
  <2> HIDE DEF s
  <2> QED
    BY <1>9, <2>1, HeardOne
<1> HIDE DEF s
<1>11. /\ DOMAIN openings' = DOMAIN openings
       /\ \A u \in DOMAIN openings : openings'[u] = openings[u] - 1 /\ openings'[u] \in Nat
  BY <1>1, <1>9
<1>4. OpenCode!TypeOK'
  BY <1>1, <1>2, <1>3, <1>9, <1>10, <1>11 DEF OpenCodeInv, OpenCode!TypeOK, Says
<1>5. RowsOfThePast'
  BY <1>1 DEF OpenCodeInv, RowsOfThePast
<1>12. HeardRight'
  <2>1. ASSUME NEW i \in DOMAIN frames'
        PROVE  /\ SessionOf[frames'[i].part] \in DOMAIN sources
               /\ SessionOf[frames'[i].part] \in DOMAIN openings' => openings'[SessionOf[frames'[i].part]] < i
    <3> DEFINE u == SessionOf[frames'[i].part]
    <3>1. u \in DOMAIN sources /\ (u \in DOMAIN openings => openings[u] < i + 1)
      BY <1>2 DEF OpenCodeInv, HeardRight
    <3> HIDE DEF u
    <3>2. u \in DOMAIN openings => openings[u] - 1 < i
      BY <1>2, <1>9, <3>1
    <3> QED
      BY <1>11, <3>1, <3>2 DEF u
  <2> QED
    BY <1>1, <1>10, <1>11, <2>1 DEF OpenCodeInv, HeardRight, OpenCode!Begun, OpenCode!FramesMakeSense
<1>6. \A i \in DOMAIN frames' : OpenCode!Before(c, frames'[i])
  BY <1>2 DEF OpenCodeInv, FramesInOrder
<1>7. FramesInOrder'
  <2>1. \A i, j \in DOMAIN frames' : i < j => OpenCode!Before(frames'[i], frames'[j])
    <3> TAKE i, j \in DOMAIN frames'
    <3> HAVE i < j
    <3>1. i + 1 < j + 1
      BY <1>2
    <3> QED
      BY <1>2, <3>1 DEF OpenCodeInv, FramesInOrder
  <2>2. ASSUME NEW i \in DOMAIN frames'
        PROVE  /\ frames'[i].part \in OpenCode!Parts
               /\ frames'[i].time <= row[frames'[i].part]
               /\ OpenCode!Before(c, frames'[i])
               /\ ~OpenCode!Before(cursor, frames'[i])
    BY <1>2, <1>6 DEF OpenCodeInv, FramesInOrder
  <2> QED
    BY <1>1, <1>3, <2>1, <2>2 DEF OpenCodeInv, FramesInOrder, OpenCode!Before
<1>8. NoneLost'
  <2> SUFFICES ASSUME NEW p \in OpenCode!Parts, p \notin late, p \notin Silent
               PROVE  Sent(p)' \/ Pending(p)' \/ Queued(p)'
    BY <1>1 DEF NoneLost
  <2> DEFINE d == OpenCode!ChangeOf(p)
  <2>1. d.part = p /\ d.time = row[p] /\ d' = d
    BY <1>1 DEF OpenCode!ChangeOf
  <2>2. Sent(p) \/ Pending(p) \/ Queued(p)
    BY <1>1 DEF OpenCodeInv, NoneLost
  <2>3. got \in [OpenCode!Parts -> OpenCode!Time]
    BY DEF OpenCodeInv, OpenCode!TypeOK
  <2>4. CASE Pending(p)
    BY <1>1, <2>4 DEF Pending, OpenCode!ChangeOf, OpenCode!Before, OpenCode!Known
  <2>5. CASE Sent(p)
    <3>1. c.part # p
      BY <1>2, <2>5 DEF Sent
    <3>2. got'[p] = got[p]
      BY <1>1, <2>3, <3>1
    <3> QED
      BY <1>1, <1>2, <2>5, <3>2 DEF Sent
  <2>6. CASE Queued(p)
    <3>1. PICK i \in DOMAIN frames : frames[i] = d
      BY <2>6 DEF Queued
    <3>2. CASE i = 1
      <4>1. c = d
        BY <1>2, <3>1, <3>2
      <4>2. got'[p] = row[p]
        BY <1>1, <2>1, <2>3, <4>1
      <4>3. \A k \in DOMAIN frames' : frames'[k].part # p
        <5> SUFFICES ASSUME NEW k \in DOMAIN frames', frames'[k].part = p
                     PROVE  FALSE
          OBVIOUS
        <5>1. frames'[k] \in OpenCode!Change /\ frames'[k].time <= row[p] /\ OpenCode!Before(c, frames'[k])
          BY <1>2, <1>6 DEF OpenCodeInv, FramesInOrder
        <5>2. c.time \in Nat /\ frames'[k].time \in Nat /\ p \in Nat
          BY <1>3, <5>1, AgentAssumption DEF OpenCode!Change, OpenCode!Time, OpenCode!Parts
        <5> QED
          BY <2>1, <4>1, <5>1, <5>2 DEF OpenCode!Before
      <4> QED
        BY <1>1, <4>2, <4>3 DEF Sent
    <3>3. CASE i # 1
      <4>1. i - 1 \in DOMAIN frames' /\ frames'[i - 1] = d
        BY <1>2, <3>1, <3>3
      <4> HIDE DEF d
      <4> QED
        BY <2>1, <4>1 DEF Queued, d
    <3> QED
      BY <3>2, <3>3
  <2> QED
    BY <2>2, <2>4, <2>5, <2>6
<1> QED
  BY <1>4, <1>5, <1>7, <1>8, <1>12 DEF OpenCodeInv

LEMMA IdleFound == OpenCodeInv /\ (OpenCode!FindIdle \/ OpenCode!Sleep) => OpenCodeInv'
<1> SUFFICES ASSUME OpenCodeInv, OpenCode!FindIdle \/ OpenCode!Sleep PROVE OpenCodeInv'
  OBVIOUS
<1>1. /\ UNCHANGED <<clock, row, cursor, cache, sources, frames, openings, heard, got, newest, late, disorder>>
      /\ DOMAIN openings = {} /\ idle' \subseteq DOMAIN sources
      /\ \/ place = "send" /\ place' = "end" /\ frames = <<>>
         \/ place = "end" /\ place' = "poll" /\ idle' = {}
  BY DEF OpenCode!FindIdle, OpenCode!Sleep, OpenCode!sourceVars, OpenCode!tailerVars,
         OpenCode!frameVars, OpenCode!historyVars, OpenCodeInv, HeardRight
<1>2. OpenCode!TypeOK'
  BY <1>1 DEF OpenCodeInv, OpenCode!TypeOK
<1>3. HeardRight'
  BY <1>1 DEF OpenCodeInv, HeardRight, OpenCode!Begun, OpenCode!FramesMakeSense
<1> QED
  BY <1>1, <1>2, <1>3, PartsUntouched

LEMMA EndSent == \A s \in Sessions : OpenCodeInv /\ OpenCode!EndOne(s) => OpenCodeInv'
<1> SUFFICES ASSUME NEW s \in Sessions, OpenCodeInv, OpenCode!EndOne(s) PROVE OpenCodeInv'
  OBVIOUS
<1>1. /\ place = "end" /\ s \in idle /\ idle' = idle \ {s}
      /\ sources' = [u \in DOMAIN sources \ {s} |-> sources[u]]
      /\ OpenCode!Tell(s, OpenCode!Begun(s), "out")
      /\ UNCHANGED <<clock, row, place, cursor, cache, frames, openings, got, newest, late, disorder>>
  BY DEF OpenCode!EndOne, OpenCode!sourceVars, OpenCode!historyVars
<1>2. /\ heard \in [Sessions -> Says] /\ OpenCode!Begun(s) /\ "out" \in Says
      /\ frames = <<>> /\ DOMAIN openings = {} /\ idle \subseteq DOMAIN sources
  BY <1>1 DEF OpenCodeInv, OpenCode!TypeOK, HeardRight, FramesInOrder, Says
<1>3. /\ \A u \in Sessions \ {s} : heard'[u] = heard[u]
      /\ heard'[s] = "out" /\ heard' \in [Sessions -> Says]
  BY <1>1, <1>2, HeardOne
<1>4. DOMAIN sources' = DOMAIN sources \ {s} /\ \A u \in DOMAIN sources' : sources'[u] = sources[u]
  BY <1>1
<1>5. OpenCode!TypeOK'
  BY <1>1, <1>2, <1>3, <1>4 DEF OpenCodeInv, OpenCode!TypeOK, Says
<1>6. HeardRight'
  <2>1. \A u \in Sessions :
          IF u \in DOMAIN sources' \ DOMAIN openings' THEN OpenCode!Begun(u)' ELSE heard'[u] = "out"
    BY <1>1, <1>2, <1>3, <1>4 DEF OpenCodeInv, HeardRight, OpenCode!Begun
  <2>2. \A u \in Sessions : heard'[u] # "confused"
    BY <1>3 DEF OpenCodeInv, HeardRight, OpenCode!FramesMakeSense
  <2> QED
    BY <1>1, <1>2, <2>1, <2>2 DEF HeardRight, OpenCode!FramesMakeSense
<1> QED
  BY <1>1, <1>5, <1>6, PartsUntouched

LEMMA OpenCodeStep == OpenCodeInv /\ OpenCode!Next => OpenCodeInv'
BY OpenCodeTick, PartWritten, Primed, Polled, PollFailed, OpenCodeStopped, StartSent, FrameSent,
   IdleFound, EndSent
   DEF OpenCode!Next


-----------------------------------------------------------------------------
(* Either agent. *)

LEMMA AgentInvariant == AgentSpec => []AgentInv
<1>1. AgentInit => AgentInv
  <2> SUFFICES ASSUME AgentInit PROVE AgentInv
    OBVIOUS
  <2>1. CodexInv /\ OpenCodeInv
    BY CodexStart, OpenCodeStart DEF AgentInit
  <2> QED
    BY <2>1 DEF AgentInit, AgentInv, CodexInv, OpenCodeInv, FramesInOrder, HeardRight, OpenCode!Init
<1>2. ASSUME AgentInv, agent = "codex", Next, UNCHANGED <<agent, opencodeVars>>
      PROVE  AgentInv'
  <2>1. CodexInv'
    BY <1>2, CodexStep DEF AgentInv
  <2> QED
    BY <1>2, <2>1 DEF AgentInv, opencodeVars, OpenCode!FramesMakeSense
<1>3. ASSUME AgentInv, agent = "opencode", OpenCode!Next, UNCHANGED <<agent, updated, file, tailerVars>>
      PROVE  AgentInv'
  <2>1. OpenCodeInv'
    BY <1>3, OpenCodeStep DEF AgentInv
  <2>2. FramesMakeSense'
    BY <1>3 DEF AgentInv, FramesMakeSense, tailerVars, historyVars
  <2> QED
    BY <1>3, <2>1, <2>2 DEF AgentInv
<1>4. ASSUME AgentInv, UNCHANGED <<agent, vars, opencodeVars>>
      PROVE  AgentInv'
  <2>1. /\ agent' = agent
        /\ UNCHANGED <<clock, updated, file, pc, active, seen, offset, starts, out, due, told, meta, given>>
        /\ UNCHANGED <<row, place, cursor, cache, sources, frames, openings, idle, heard>>
        /\ UNCHANGED <<got, newest, late, disorder>>
    BY <1>4 DEF vars, codexVars, pollVars, historyVars, opencodeVars
  <2>2. CodexInv => CodexInv'
    BY <2>1 DEF CodexInv, TypeOK, Time, FileFits, Unfinished, PollDone, LinesNew, ToldRight, Begun,
                FramesMakeSense
  <2>3. OpenCodeInv => OpenCodeInv'
    BY <2>1 DEF OpenCodeInv, OpenCode!TypeOK, OpenCode!Time, RowsOfThePast, FramesInOrder, NoneLost,
                Sent, Pending, Queued, OpenCode!ChangeOf, OpenCode!Known, OpenCode!Before,
                HeardRight, OpenCode!Begun, OpenCode!FramesMakeSense
  <2>4. /\ FramesMakeSense => FramesMakeSense'
        /\ OpenCode!FramesMakeSense => OpenCode!FramesMakeSense'
    BY <2>1 DEF FramesMakeSense, OpenCode!FramesMakeSense
  <2> QED
    BY <1>4, <2>1, <2>2, <2>3, <2>4 DEF AgentInv
<1>5. AgentInv /\ [AgentNext]_<<agent, vars, opencodeVars>> => AgentInv'
  BY <1>2, <1>3, <1>4 DEF AgentNext
<1> QED
  BY <1>1, <1>5, PTL DEF AgentSpec

(* Whichever agent is followed, its tailer's state is well typed: the offset
   stays within the file's bound, the cache within its limit, and what is sent
   are lines, and changes of parts. *)
THEOREM AgentTyped == AgentSpec => []AgentTypeOK
<1>1. AgentInv => AgentTypeOK
  BY DEF AgentInv, AgentTypeOK, CodexInv, OpenCodeInv
<1> QED
  BY <1>1, AgentInvariant, PTL

(* Of either agent's sessions the frames are in their places, however often
   sessions go idle and come back, files and tables are rewritten and polls
   fail; and a Codex row is live only between start and end. *)
THEOREM FramesAlwaysMakeSense == AgentSpec => []SessionsMakeSense
<1>1. AgentInv => SessionsMakeSense
  BY DEF AgentInv, CodexInv, OpenCodeInv, HeardRight, SessionsMakeSense
<1> QED
  BY <1>1, AgentInvariant, PTL

(* What is sent of OpenCode's parts is exact, unless a part was late: in order,
   once, and when the tailer has caught up, without a gap. *)
THEOREM PartsSentExactly == AgentSpec => []PartsExact
<1>1. ASSUME OpenCodeInv, place = "poll", OpenCode!Unread = {}, NEW p \in OpenCode!Parts \ (late \union Silent)
      PROVE  row[p] = got[p]
  <2>1. ~Queued(p)
    BY <1>1 DEF OpenCodeInv, FramesInOrder, Queued
  <2>2. ~Pending(p)
    <3> SUFFICES ASSUME Pending(p) PROVE FALSE
      OBVIOUS
    <3>1. OpenCode!ChangeOf(p) \in OpenCode!Unread
      BY DEF Pending, OpenCode!Unread, OpenCode!ChangeOf
    <3> QED
      BY <1>1, <3>1
  <2> QED
    BY <1>1, <2>1, <2>2 DEF OpenCodeInv, NoneLost, Sent
<1>2. AgentInv => PartsExact
  BY <1>1 DEF AgentInv, PartsExact, OpenCode!ExactUnlessLate, OpenCodeInv, FramesInOrder
<1> QED
  BY <1>2, AgentInvariant, PTL
=============================================================================
