------------------------- MODULE TranscriptCapture -------------------------
(***************************************************************************)
(* How the collector captures one Claude Code session (start.rs,           *)
(* capture/transcript.rs, mute.rs, heartbeat.rs).  Every SessionStart hook *)
(* puts the session on the heartbeat's active list and spawns a tailer     *)
(* with a mute gate of its own.  A tailer polls the transcript: it asks    *)
(* for the file's length, reads from its position to the end, and splits   *)
(* what it has at line ends.  Each awaited operation is a step, so the     *)
(* file, which another program writes, changes in between.                 *)
(*                                                                         *)
(* The file is a sequence of chunks, two for a line, written in one go or  *)
(* one after the other; only the second ends with a newline.  What a       *)
(* tailer finds between two newlines is a whole line, which becomes one    *)
(* content frame, or not JSON, which parse_record skips.  A line that      *)
(* tells of a tool whose input or result is long can stop the tailer's     *)
(* task for good (Cut).  The Stop hook does nothing.  What follows the     *)
(* gates is CollectorLink; here the channel to the pump takes every frame, *)
(* until the pump stops for good.                                          *)
(***************************************************************************)
EXTENDS Naturals, Sequences

CONSTANTS
  Tailers,       \* the SessionStart hooks of the session, a tailer for each
  GateCapacity,  \* capacity of a gate's channel
  Cut,           \* the lines with a tool's input or result of which byte 2048
                 \* is inside a character
  MaxLines,      \* bound: lines ever written
  MaxRewrites    \* bound: times the transcript is truncated or removed

ASSUME CaptureAssumption ==
  /\ GateCapacity \in Nat \ {0}
  /\ MaxLines \in Nat /\ MaxRewrites \in Nat
  /\ Cut \subseteq 1 .. MaxLines

Lines == 1 .. MaxLines
Chunks == [line : Lines, ends : BOOLEAN]

VARIABLES
  exists,    \* the transcript is there
  file,      \* its chunks
  rewrites,  \* how often it was truncated or removed
  born,      \* history: the value of rewrites when a line was begun
  muted,     \* the mute flag file exists
  listening, \* the pump has not stopped
  active,    \* the session is on the heartbeat's list
  tailer,    \* per tailer: control state and fields
  queue,     \* per tailer: the channel to its gate
  gate,      \* per tailer: its gate, see Gates
  handed,    \* history, per tailer: the lines parsed and given to the gate
  dropped,   \* history: lines a gate has dropped because of the mute flag
  slipped,   \* history, per tailer: frames sent since the last `mute`
  confused   \* history, per tailer: the file changed under its feet

fileVars == <<exists, file, rewrites, born>>
gateVars == <<queue, gate, dropped, slipped>>
tailVars == <<tailer, handed, confused>>
vars == <<fileVars, gateVars, tailVars, muted, listening, active>>

(* A gate waits for a frame, holds one that passed the check, or has ended. *)
Waiting == [status |-> "waits", line |-> 0]
Holding(n) == [status |-> "holds", line |-> n]
Ended == [status |-> "ended", line |-> 0]
Gates == {Waiting, Ended} \union {Holding(n) : n \in Lines}

TailerState ==
  [pc    : {"off", "poll", "read", "split", "gone", "panicked"},
   pos   : Nat,              \* position, in chunks
   len   : Nat,              \* the length that metadata returned
   carry : Seq(Chunks),
   seen  : 0 .. MaxRewrites] \* history: the file it believes to be reading

TypeOK ==
  /\ exists \in BOOLEAN /\ file \in Seq(Chunks)
  /\ rewrites \in 0 .. MaxRewrites
  /\ born \in Seq(0 .. MaxRewrites) /\ Len(born) <= MaxLines
  /\ muted \in BOOLEAN /\ listening \in BOOLEAN /\ active \in BOOLEAN
  /\ tailer \in [Tailers -> TailerState]
  /\ queue \in [Tailers -> Seq(Lines)]
  /\ \A t \in Tailers : Len(queue[t]) <= GateCapacity
  /\ gate \in [Tailers -> Gates]
  /\ handed \in [Tailers -> Seq(Lines)]
  /\ dropped \subseteq Lines
  /\ slipped \in [Tailers -> Nat]
  /\ confused \in [Tailers -> BOOLEAN]

Init ==
  /\ exists = FALSE /\ file = <<>> /\ rewrites = 0 /\ born = <<>>
  /\ muted = FALSE /\ listening = TRUE /\ active = FALSE
  /\ tailer = [t \in Tailers |-> [pc |-> "off", pos |-> 0, len |-> 0, carry |-> <<>>, seen |-> 0]]
  /\ queue = [t \in Tailers |-> <<>>] /\ gate = [t \in Tailers |-> Waiting]
  /\ handed = [t \in Tailers |-> <<>>] /\ dropped = {}
  /\ slipped = [t \in Tailers |-> 0] /\ confused = [t \in Tailers |-> FALSE]

-----------------------------------------------------------------------------
(* The program that writes the transcript *)

Chunk(n, ends) == [line |-> n, ends |-> ends]

(* A line has been begun and not ended. *)
Unfinished == file # <<>> /\ ~file[Len(file)].ends

WriterOnly == UNCHANGED <<gateVars, tailVars, muted, listening, active>>

BeginLine(chunks) ==
  /\ Len(born) < MaxLines /\ ~Unfinished
  /\ exists' = TRUE
  /\ file' = file \o chunks
  /\ born' = Append(born, rewrites)
  /\ UNCHANGED rewrites
  /\ WriterOnly

WriteLine ==
  LET n == Len(born) + 1 IN BeginLine(<<Chunk(n, FALSE), Chunk(n, TRUE)>>)

WriteHalf == BeginLine(<<Chunk(Len(born) + 1, FALSE)>>)

WriteRest ==
  /\ Unfinished
  /\ file' = Append(file, Chunk(file[Len(file)].line, TRUE))
  /\ UNCHANGED <<exists, rewrites, born>>
  /\ WriterOnly

(* The file is truncated, to be written anew, or removed. *)
Rewrite(there) ==
  /\ exists /\ rewrites < MaxRewrites
  /\ exists' = there
  /\ file' = <<>>
  /\ rewrites' = rewrites + 1
  /\ UNCHANGED born
  /\ WriterOnly

-----------------------------------------------------------------------------
(* The user, the hook and the pump *)

Mute ==
  /\ ~muted
  /\ muted' = TRUE
  /\ slipped' = [t \in Tailers |-> 0]
  /\ UNCHANGED <<fileVars, tailVars, queue, gate, dropped, listening, active>>

Unmute ==
  /\ muted
  /\ muted' = FALSE
  /\ UNCHANGED <<fileVars, tailVars, gateVars, listening, active>>

(* One tailer per hook, although the session may have one already. *)
SessionStart(t) ==
  /\ tailer[t].pc = "off"
  /\ active' = TRUE
  /\ tailer' = [tailer EXCEPT ![t].pc = "poll"]
  /\ UNCHANGED <<fileVars, gateVars, handed, confused, muted, listening>>

(* The pump ends on a 401 and the channel to it closes. *)
PumpStops ==
  /\ listening
  /\ listening' = FALSE
  /\ UNCHANGED <<fileVars, gateVars, tailVars, muted, active>>

-----------------------------------------------------------------------------
(* The tailers *)

TailerOnly == UNCHANGED <<fileVars, muted, listening, active>>

(* Mutant of Restarted: carry.clear() forgotten. *)
Restarted_KeepsCarry(t) ==
  IF Len(file) < tailer[t].pos THEN [tailer[t] EXCEPT !.pos = 0] ELSE tailer[t]

(* A file shorter than the tailer's position is a new one. *)
Restarted(t) ==
  IF Len(file) < tailer[t].pos THEN [tailer[t] EXCEPT !.pos = 0, !.carry = <<>>] ELSE tailer[t]

(* Mutant of Stat: return early where the code has an empty block, "wait for
   more data", while a partial line is carried. *)
Stat_WaitsForMore(t) ==
  LET now == [Restarted(t) EXCEPT !.seen = rewrites]
  IN /\ tailer[t].pc = "poll" /\ exists
     /\ tailer' = [tailer EXCEPT ![t] =
          IF Len(file) = now.pos \/ (Len(file) - now.pos < 2 /\ now.carry # <<>>) THEN now
          ELSE [now EXCEPT !.len = Len(file), !.pc = "read"]]
     /\ confused' = [confused EXCEPT ![t] =
          @ \/ (now.pos > 0 /\ tailer[t].seen # rewrites)]
     /\ UNCHANGED <<gateVars, handed>>
     /\ TailerOnly

Stat(t) ==
  LET now == [Restarted(t) EXCEPT !.seen = rewrites]
  IN /\ tailer[t].pc = "poll" /\ exists
     /\ tailer' = [tailer EXCEPT ![t] =
          IF Len(file) = now.pos THEN now
          ELSE [now EXCEPT !.len = Len(file), !.pc = "read"]]
     /\ confused' = [confused EXCEPT ![t] =
          @ \/ (now.pos > 0 /\ tailer[t].seen # rewrites)]
     /\ UNCHANGED <<gateVars, handed>>
     /\ TailerOnly

(* Missing for longer than MISSING_GRACE: the tailer returns. *)
GiveUp(t) ==
  /\ tailer[t].pc = "poll" /\ ~exists
  /\ tailer' = [tailer EXCEPT ![t].pc = "gone"]
  /\ UNCHANGED <<gateVars, handed, confused>>
  /\ TailerOnly

(* Open, seek to the position, read to the end.  The new position is the
   length that was asked for before. *)
Read(t) ==
  /\ tailer[t].pc = "read" /\ exists
  /\ tailer' = [tailer EXCEPT ![t].pc = "split", ![t].pos = tailer[t].len, ![t].len = 0,
       ![t].carry = @ \o SubSeq(file, tailer[t].pos + 1, Len(file))]
  /\ confused' = [confused EXCEPT ![t] =
       @ \/ Len(file) # tailer[t].len \/ tailer[t].seen # rewrites]
  /\ UNCHANGED <<gateVars, handed>>
  /\ TailerOnly

(* The file cannot be opened: this iteration fails, the loop goes on. *)
ReadFails(t) ==
  /\ tailer[t].pc = "read" /\ ~exists
  /\ tailer' = [tailer EXCEPT ![t].pc = "poll", ![t].len = 0]
  /\ UNCHANGED <<gateVars, handed, confused>>
  /\ TailerOnly

(* The places in carry where a newline ends a line. *)
Newlines(carry) == {i \in 1 .. Len(carry) : carry[i].ends}
IsWhole(segment) == segment = <<Chunk(segment[1].line, FALSE), Chunk(segment[1].line, TRUE)>>

TakeOff(t, end, pc) ==
  tailer' = [tailer EXCEPT ![t].carry = SubSeq(@, end + 1, Len(@)), ![t].pc = pc]

(* The first line of the carry is not JSON. *)
Skip(t, end) ==
  /\ ~IsWhole(SubSeq(tailer[t].carry, 1, end))
  /\ TakeOff(t, end, "split")
  /\ UNCHANGED <<gateVars, handed>>

(* summarize_json slices at byte 2048, inside a character: the task panics
   before it sends anything of the line.  Nobody joins it: the session stays
   on the heartbeat's list, and the tailer is gone with all it carried. *)
Panic(t, end) ==
  /\ IsWhole(SubSeq(tailer[t].carry, 1, end)) /\ tailer[t].carry[1].line \in Cut
  /\ tailer' = [tailer EXCEPT ![t].pc = "panicked"]
  /\ UNCHANGED <<gateVars, handed>>

(* The first line of the carry is parsed into a frame. *)
IsFrame(t, end) ==
  IsWhole(SubSeq(tailer[t].carry, 1, end)) /\ tailer[t].carry[1].line \notin Cut

(* Mutant of HandOver: an unbounded channel. *)
HandOver_Unbounded(t, end) ==
  LET n == tailer[t].carry[1].line
  IN /\ IsFrame(t, end) /\ gate[t] # Ended
     /\ TakeOff(t, end, "split")
     /\ queue' = [queue EXCEPT ![t] = Append(@, n)]
     /\ handed' = [handed EXCEPT ![t] = Append(@, n)]
     /\ UNCHANGED <<gate, dropped, slipped>>

(* Its frame is sent to the gate, which may have to make room first. *)
HandOver(t, end) ==
  LET n == tailer[t].carry[1].line
  IN /\ IsFrame(t, end)
     /\ gate[t] # Ended /\ Len(queue[t]) < GateCapacity
     /\ TakeOff(t, end, "split")
     /\ queue' = [queue EXCEPT ![t] = Append(@, n)]
     /\ handed' = [handed EXCEPT ![t] = Append(@, n)]
     /\ UNCHANGED <<gate, dropped, slipped>>

(* The gate is gone: poll_once returns, the rest of the carry stays. *)
HandOverFails(t, end) ==
  /\ IsFrame(t, end) /\ gate[t] = Ended
  /\ TakeOff(t, end, "poll")
  /\ UNCHANGED <<gateVars, handed>>

Split(t) ==
  /\ tailer[t].pc = "split"
  /\ \E end \in Newlines(tailer[t].carry) :
       /\ \A i \in Newlines(tailer[t].carry) : end <= i
       /\ Skip(t, end) \/ Panic(t, end) \/ HandOver(t, end) \/ HandOverFails(t, end)
  /\ UNCHANGED confused
  /\ TailerOnly

(* No line end is left: what remains waits in the carry for the next poll. *)
SplitDone(t) ==
  /\ tailer[t].pc = "split" /\ Newlines(tailer[t].carry) = {}
  /\ tailer' = [tailer EXCEPT ![t].pc = "poll"]
  /\ UNCHANGED <<gateVars, handed, confused>>
  /\ TailerOnly

-----------------------------------------------------------------------------
(* The gates *)

GateOnly == UNCHANGED <<fileVars, tailVars, muted, listening, active>>

(* Mutant of GateTake: the flag is looked at once, when the gate is made. *)
GateTake_Unchecked(t) ==
  /\ gate[t] = Waiting /\ queue[t] # <<>>
  /\ queue' = [queue EXCEPT ![t] = Tail(@)]
  /\ gate' = [gate EXCEPT ![t] = Holding(Head(queue[t]))]
  /\ UNCHANGED <<slipped, dropped>>
  /\ GateOnly

(* Take a frame and look at the flag file. *)
GateTake(t) ==
  /\ gate[t] = Waiting /\ queue[t] # <<>>
  /\ queue' = [queue EXCEPT ![t] = Tail(@)]
  /\ IF muted
     THEN dropped' = dropped \union {Head(queue[t])} /\ UNCHANGED gate
     ELSE gate' = [gate EXCEPT ![t] = Holding(Head(queue[t]))] /\ UNCHANGED dropped
  /\ UNCHANGED slipped
  /\ GateOnly

(* The frame goes to the pump, however long the channel made it wait. *)
GateSend(t) ==
  /\ gate[t].status = "holds" /\ listening
  /\ gate' = [gate EXCEPT ![t] = Waiting]
  /\ slipped' = [slipped EXCEPT ![t] = IF muted THEN @ + 1 ELSE @]
  /\ UNCHANGED <<queue, dropped>>
  /\ GateOnly

(* The pump is gone: so is the gate, and what was queued. *)
GateEnds(t) ==
  /\ gate[t].status = "holds" /\ ~listening
  /\ gate' = [gate EXCEPT ![t] = Ended]
  /\ queue' = [queue EXCEPT ![t] = <<>>]
  /\ UNCHANGED <<dropped, slipped>>
  /\ GateOnly

-----------------------------------------------------------------------------
TailerStep(t) == Stat(t) \/ GiveUp(t) \/ Read(t) \/ ReadFails(t) \/ Split(t) \/ SplitDone(t)
GateStep(t) == GateTake(t) \/ GateSend(t) \/ GateEnds(t)
Environment ==
  \/ WriteLine \/ WriteHalf \/ WriteRest
  \/ \E there \in BOOLEAN : Rewrite(there)
  \/ Mute \/ Unmute \/ PumpStops

Next == Environment \/ \E t \in Tailers : SessionStart(t) \/ TailerStep(t) \/ GateStep(t)

(* tokio runs the tailers and the gates, and the pump keeps taking frames while
   it is there; nobody has to write, mute or start a session. *)
Fairness == \A t \in Tailers : WF_vars(TailerStep(t)) /\ WF_vars(GateStep(t))

Spec == Init /\ [][Next]_vars /\ Fairness

-----------------------------------------------------------------------------
(* Properties *)

(* poll_once, position and carry: as long as the file has not changed between
   the length and the read, nor been rewritten to at least the tailer's
   position, the tailer hands over the lines in the order written, each once,
   and skips none of the file it reads: before a line it has handed over all
   earlier ones of the same file. *)
ExactUnlessConfused ==
  \A t \in Tailers : ~confused[t] =>
    LET h == handed[t]
    IN \A k \in 1 .. Len(h) :
         /\ \A i \in 1 .. k - 1 : h[i] < h[k]
         /\ \A n \in 1 .. h[k] - 1 :
              born[n] = born[h[k]] => \E i \in 1 .. k - 1 : h[i] = n

(* spawn_mute_gate: the flag is looked at before a send that may wait, so a
   frame can follow a `mute`; at most one per gate does. *)
SlipBounded == \A t \in Tailers : muted => slipped[t] <= 1

(* A line has been written to its end. *)
Complete(n) == \E i \in 1 .. Len(file) : file[i] = Chunk(n, TRUE)

IsHanded(n, t) == \E k \in 1 .. Len(handed[t]) : handed[t][k] = n

(* The line is out of the tailer's reach: among others, because the tailer has
   panicked at it or at an earlier line. *)
Lost(n, t) ==
  \/ confused[t] \/ ~listening \/ tailer[t].pc = "gone"
  \/ tailer[t].pc = "panicked" /\ \E m \in Cut : m <= n
  \/ n <= Len(born) /\ born[n] # rewrites

(* transcript.rs:3, "poll for growth": a complete line reaches the gate of
   every running tailer, unless the file is rewritten first or the tailer
   meets a line of Cut, which takes that line and all later ones with it. *)
LinesArrive ==
  \A t \in Tailers, n \in Lines :
    (n <= Len(born) /\ Complete(n) /\ tailer[t].pc # "off") ~> (IsHanded(n, t) \/ Lost(n, t))

(* consent.rs:13, teammates see "user prompts + assistant replies (unless you
   run `team-presence mute`)": no gate lets through a line that the flag has
   suppressed before. *)
SuppressedStaysSuppressed ==
  [][\A t \in Tailers : gate'[t].status = "holds" /\ gate'[t] # gate[t]
       => gate'[t].line \notin dropped]_vars
=============================================================================
