---------------------------- MODULE MCStoryBoard ----------------------------
(* One user, three requests: small instances of StoryBoard. *)
EXTENDS StoryBoard, TLC

CONSTANTS u1, r1, r2, r3

MCAuthor == [r \in Requests |-> u1]

Symmetry == Permutations(Requests)

(* What any tool, page or import may ask for. *)
MCTools ==
  UNION {TpTools, McpTools, KanbanDrop, KanbanCreate, DialogCreate, DraftSave, ImportBmad}
=============================================================================
