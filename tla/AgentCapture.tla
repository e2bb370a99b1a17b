---------------------------- MODULE AgentCapture ----------------------------
(***************************************************************************)
(* The collector follows one kind of agent, which it is started for        *)
(* (collector/src/start.rs): for Codex or OpenCode it spawns that tailer;  *)
(* Claude Code's sessions come from hooks (TranscriptCapture).             *)
(***************************************************************************)
EXTENDS CodexCapture

CONSTANTS
  Sessions,
  MaxMillis,   \* bound: OpenCode's time
  MaxPart, SessionOf, Silent, Limit, SeenMax, OpenCodeFaults

VARIABLES
  agent,                        \* the kind of agent
  row, place, cursor, cache, sources, frames, openings, idle, heard,
  got, newest, late, disorder   \* OpenCodeCapture's variables

opencodeVars ==
  <<row, place, cursor, cache, sources, frames, openings, idle, heard,
    got, newest, late, disorder>>

(* The clock counts Codex's seconds or OpenCode's milliseconds. *)
OpenCode ==
  INSTANCE OpenCodeCapture WITH
    pc <- place, seen <- cache, active <- sources, out <- frames,
    starts <- openings, due <- idle, told <- heard,
    MaxClock <- MaxMillis, Faults <- OpenCodeFaults

ASSUME AgentAssumption ==
  /\ MaxPart \in Nat
  /\ {MaxMillis, Limit, SeenMax} \subseteq Nat \ {0}
  /\ SessionOf \in [1 .. MaxPart -> Sessions]
  /\ Silent \subseteq 1 .. MaxPart
  /\ OpenCodeFaults \subseteq {"db", "cut", "pump"}

AgentTypeOK ==
  \/ agent = "codex" /\ TypeOK
  \/ agent = "opencode" /\ OpenCode!TypeOK

AgentInit ==
  /\ agent \in {"codex", "opencode"}
  /\ Init
  /\ OpenCode!Init
  /\ agent = "codex" => \A p \in 1 .. MaxPart : row[p] = 0

AgentNext ==
  \/ agent = "codex" /\ Next /\ UNCHANGED <<agent, opencodeVars>>
  \/ /\ agent = "opencode" /\ OpenCode!Next
     /\ UNCHANGED <<agent, updated, file, tailerVars>>

AgentSpec == AgentInit /\ [][AgentNext]_<<agent, vars, opencodeVars>>

-----------------------------------------------------------------------------
(* What is sent of OpenCode's parts is exact, unless a part was late (see
   OpenCodeCapture): changes are sent in order and once, and none is missing
   when the tailer has caught up. *)
PartsExact == OpenCode!ExactUnlessLate

(* Of either agent's sessions the frames are in their places: starts before
   contents and ends, unless a failing poll has discarded the start, none twice
   without an end in between, and for Codex, what the server's row makes of
   them (see CodexCapture and OpenCodeCapture). *)
SessionsMakeSense == FramesMakeSense /\ OpenCode!FramesMakeSense
=============================================================================
