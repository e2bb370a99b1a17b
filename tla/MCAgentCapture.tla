--------------------------- MODULE MCAgentCapture ---------------------------
(* Two Codex threads with a line each; two OpenCode sessions with three parts,
   one of them silent: small instances of AgentCapture. *)
EXTENDS AgentCapture, TLC

CONSTANTS t1, t2, l1, l2, s1, s2

MCOwner == [l \in Lines |-> IF l = l2 THEN t2 ELSE t1]
MCSessionOf == [p \in 1 .. MaxPart |-> IF p = 3 THEN s2 ELSE s1]
=============================================================================
