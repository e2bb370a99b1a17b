-------------------------- MODULE MCCollectorLink --------------------------
(* Instances of CollectorLink for TLC. *)
EXTENDS CollectorLink, TLC
=============================================================================
