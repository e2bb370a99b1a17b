---------------------------- MODULE MCStoryLinks ----------------------------
(* Two users, three requests: small instances of StoryLinks. *)
EXTENDS StoryLinks, TLC

CONSTANTS u1, u2, r1, r2, r3

MCAuthor == [r \in Requests |-> IF r = r3 THEN u2 ELSE u1]
=============================================================================
