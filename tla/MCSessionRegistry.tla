------------------------- MODULE MCSessionRegistry -------------------------
(***************************************************************************)
(* A small instance: the old and the new connection of one collector, one  *)
(* reassign request at a time and one story; Sessions is set in the cfg.   *)
(***************************************************************************)
EXTENDS SessionRegistry
=============================================================================
