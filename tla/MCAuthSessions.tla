--------------------------- MODULE MCAuthSessions ---------------------------
(* Two tabs, four requests: small instances of AuthSessions. *)
EXTENDS AuthSessions, TLC

CONSTANTS r1, r2, r3, r4, t1, t2

Symmetry == Permutations(Users)

MCTabOf == [r \in Requests |-> IF r \in {r1, r2} THEN t1 ELSE t2]
=============================================================================
