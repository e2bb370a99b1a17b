----------------------------- MODULE MCRoomFeed -----------------------------
(* One room of up to five frames and one page: small instances of RoomFeed. *)
EXTENDS RoomFeed, TLC
=============================================================================
