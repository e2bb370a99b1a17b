----------------------------- MODULE BoardTools -----------------------------
(***************************************************************************)
(* The requests that change one story: what each tool of the stdio server  *)
(* (tp-mcp/src/server.rs, a client of the REST API), each tool of the      *)
(* hosted /mcp endpoint (server/src/mcp.rs) and each page asks for.  A     *)
(* tool is the set of requests it can make; StoryBoard executes them.      *)
(*                                                                         *)
(* A request keeps what the code branches on: whether status, owner,       *)
(* acceptance criteria or any other field is given.  A request that fails  *)
(* validation touches nothing and is left out.                             *)
(***************************************************************************)
EXTENDS Naturals, Sequences

CONSTANTS
  Statuses,   \* the workflow's states, or some of them
  Indexes     \* bound: the positions in a criteria list that tools name

ASSUME ToolAssumption ==
  /\ {"todo", "in_progress"} \subseteq Statuses
  /\ "keep" \notin Statuses
  /\ Indexes \subseteq Nat \ {0}

NoEdit == [do |-> "none", at |-> 1]
Add == [do |-> "add", at |-> 1]
AcEdits == {NoEdit, Add}
             \union [do : {"check", "uncheck", "edit", "remove"}, at : Indexes]

(* door: the code that serves it.  ac: an edit of the list of criteria, for
   which the list is read first. *)
Requested ==
  [verb   : {"patch", "create", "import", "delete"},
   door   : {"rest", "mcp"},
   status : Statuses \union {"keep"},
   owner  : {"keep", "self", "nobody"},
   ac     : AcEdits,
   text   : BOOLEAN]

Patch(door) ==
  [verb |-> "patch", door |-> door, status |-> "keep", owner |-> "keep",
   ac |-> NoEdit, text |-> FALSE]

Verb(verb, door) ==
  [Patch(door) EXCEPT !.verb = verb, !.status = "todo"]

-----------------------------------------------------------------------------
(* tp-mcp: PATCH, POST and DELETE on /api/v1/stories *)

TpStoryCreate == {Verb("create", "rest")}
TpStoryEdit == {[Patch("rest") EXCEPT !.text = TRUE]}
TpStoryMoveStatus == {[Patch("rest") EXCEPT !.status = x] : x \in Statuses}
TpStoryClaim ==
  {[Patch("rest") EXCEPT !.owner = "self", !.status = "in_progress"]}
TpStoryDelete == {Verb("delete", "rest")}
TpAcAdd == {[Patch("rest") EXCEPT !.ac = Add]}
TpSetAcDone ==
  {[Patch("rest") EXCEPT !.ac = [do |-> d, at |-> i]] :
     d \in {"check", "uncheck"}, i \in Indexes}
TpAcEdit == {[Patch("rest") EXCEPT !.ac = [do |-> "edit", at |-> i]] : i \in Indexes}
TpAcRemove == {[Patch("rest") EXCEPT !.ac = [do |-> "remove", at |-> i]] : i \in Indexes}

TpTools ==
  UNION {TpStoryCreate, TpStoryEdit, TpStoryMoveStatus, TpStoryClaim,
         TpStoryDelete, TpAcAdd, TpSetAcDone, TpAcEdit, TpAcRemove}

-----------------------------------------------------------------------------
(* The hosted endpoint: repo calls in the server's own process *)

McpStoryCreate == {Verb("create", "mcp")}
McpStoryEdit == {[Patch("mcp") EXCEPT !.text = TRUE]}
McpStoryMoveStatus == {[Patch("mcp") EXCEPT !.status = x] : x \in Statuses}
McpStoryClaim == {[Patch("mcp") EXCEPT !.owner = "self"]}
McpStoryDelete == {Verb("delete", "mcp")}
McpAcAdd == {[Patch("mcp") EXCEPT !.ac = Add]}
McpSetAcDone ==
  {[Patch("mcp") EXCEPT !.ac = [do |-> d, at |-> i]] :
     d \in {"check", "uncheck"}, i \in Indexes}
McpAcEdit == {[Patch("mcp") EXCEPT !.ac = [do |-> "edit", at |-> i]] : i \in Indexes}
McpAcRemove == {[Patch("mcp") EXCEPT !.ac = [do |-> "remove", at |-> i]] : i \in Indexes}

McpTools ==
  UNION {McpStoryCreate, McpStoryEdit, McpStoryMoveStatus, McpStoryClaim,
         McpStoryDelete, McpAcAdd, McpSetAcDone, McpAcEdit, McpAcRemove}

-----------------------------------------------------------------------------
(* The pages, and the importer *)

(* A card dropped on another column. *)
KanbanDrop == TpStoryMoveStatus

(* A new card, in a column of the board or with the criteria of the dialog. *)
KanbanCreate == {[Verb("create", "rest") EXCEPT !.status = x] : x \in Statuses}
DialogCreate == {[Verb("create", "rest") EXCEPT !.ac = Add]}

(* Save on the detail page: the fields that differ from the draft's baseline,
   the criteria always as a whole list. *)
DraftSave ==
  {[Patch("rest") EXCEPT !.owner = "nobody"],
   [Patch("rest") EXCEPT !.ac = [do |-> "remove", at |-> 1], !.status = "todo"]}

ImportBmad == {Verb("import", "rest")}
=============================================================================
