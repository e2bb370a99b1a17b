----------------------------- MODULE MCGridFeed -----------------------------
(***************************************************************************)
(* A small instance of the live board: one page, one collector connection, *)
(* the reaper, and two sessions of which one keeps heartbeating.           *)
(***************************************************************************)
EXTENDS GridFeed
=============================================================================
