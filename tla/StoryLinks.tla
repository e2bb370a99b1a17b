----------------------------- MODULE StoryLinks -----------------------------
(***************************************************************************)
(* What hangs on stories: relations, comments, sprints and epics, and the  *)
(* entries relations and comments leave in the activity log                *)
(* (stories/handlers.rs, comments/handlers.rs, epics/handlers.rs,          *)
(* sprints/handlers.rs, the same operations of mcp.rs, and tp-mcp, whose   *)
(* tools call the REST handlers).  The requests are tasks as in            *)
(* StoryBoard: each awaited statement is a step.                           *)
(*                                                                         *)
(* A comment is named after the request that posts it, its body after the  *)
(* request that wrote it.  A sprint has dates only; its names, which need  *)
(* not be unique, stand for its id.  Other fields are StoryBoard's.        *)
(***************************************************************************)
EXTENDS Naturals, Sequences, FiniteSets

CONSTANTS
  Stories, Sprints, Epics, Names, Users, None,
  FirstStories, FirstSprint, FirstEpic,  \* what there is at the start
  FirstName, Poster,                     \* the epic's name, the comment's author
  LastDay,                               \* bound: days are numbered from 1
  Requests,                              \* bound: the requests ever made
  Author,                                \* who makes a request
  Faults                                 \* "log" and "cut", as in StoryBoard

Days == 1 .. LastDay
Pairs == Stories \X Stories
CommentIds == Requests \union {"first"}

ASSUME LinksAssumption ==
  /\ LastDay \in Nat \ {0}
  /\ FirstStories \subseteq Stories /\ FirstStories # {}
  /\ FirstSprint \in Sprints /\ FirstEpic \in Epics
  /\ FirstName \in Names /\ Poster \in Users
  /\ Author \in [Requests -> Users]
  /\ "first" \notin Requests
  /\ None \notin Stories \union Sprints \union Epics \union CommentIds

VARIABLES
  stories,   \* the ids in the stories table
  sprintOf, epicOf,
  sprints,   \* the sprints table: id -> dates
  epics,     \* the epics table: id -> name
  relations, \* story_relations: the first blocks the second
  comments,  \* the comments table: id -> row
  log,       \* story_activity, without StoryBoard's entries
  used,      \* the ids ever given to a story, sprint or epic
  req,       \* control state and locals of every request
  bypassed,  \* history: the pairs the hosted tools have changed
  lost       \* history: the stories for which an entry was not written

storyVars == <<stories, sprintOf, epicOf>>
listVars == <<sprints, epics>>
linkVars == <<relations, comments>>
historyVars == <<bypassed, lost>>
vars == <<storyVars, listVars, linkVars, log, used, req, historyVars>>

-----------------------------------------------------------------------------
(* Types *)

Sprint == [start : Days, end : Days]
Comment == [story : Stories, author : Users, body : CommentIds]
Kinds == {"added", "removed", "posted", "edited", "deleted"}
Entry == [by : Requests, story : Stories, kind : Kinds,
          ref : Stories \union CommentIds]

RequestState ==
  [pc    : {"new", "relate", "post", "rewrite", "erase", "insert", "assign",
            "emit", "done"},
   story : Stories \union {None},
   ref   : Stories \union CommentIds \union {None},
   list  : {"none", "sprint", "epic"},
   id    : Sprints \union Epics \union {None},   \* what a name was resolved to
   owes  : Seq(Entry)]                           \* the entry still to be logged

TypeOK ==
  /\ stories \subseteq Stories
  /\ sprintOf \in [Stories -> Sprints \union {None}]
  /\ epicOf \in [Stories -> Epics \union {None}]
  /\ DOMAIN sprints \subseteq Sprints
  /\ \A p \in DOMAIN sprints : sprints[p] \in Sprint
  /\ DOMAIN epics \subseteq Epics /\ \A e \in DOMAIN epics : epics[e] \in Names
  /\ relations \subseteq Pairs
  /\ DOMAIN comments \subseteq CommentIds
  /\ \A c \in DOMAIN comments : comments[c] \in Comment
  /\ log \subseteq Entry
  /\ used \subseteq Stories \union Sprints \union Epics
  /\ req \in [Requests -> RequestState]
  /\ bypassed \subseteq Pairs
  /\ lost \subseteq Stories

-----------------------------------------------------------------------------
(* Helpers *)

With(f, x, v) == [y \in DOMAIN f \union {x} |-> IF y = x THEN v ELSE f[y]]
Without(f, X) == [y \in DOMAIN f \ X |-> f[y]]

Fresh ==
  [pc |-> "new", story |-> None, ref |-> None, list |-> "none", id |-> None,
   owes |-> <<>>]

Become(r, state) == req' = [req EXCEPT ![r] = state]
Finish(r) == Become(r, [req[r] EXCEPT !.pc = "done", !.owes = <<>>])

(* The request about story s and `ref`, which still has `kind` to log. *)
Owing(r, s, kind, ref) ==
  [req[r] EXCEPT !.pc = "emit", !.story = s, !.ref = ref,
     !.owes = <<[by |-> r, story |-> s, kind |-> kind, ref |-> ref]>>]

Init ==
  /\ stories = FirstStories
  /\ sprintOf = [s \in Stories |-> None]
  /\ epicOf = [s \in Stories |-> None]
  /\ sprints = [p \in {FirstSprint} |-> [start |-> 1, end |-> 1]]
  /\ epics = [e \in {FirstEpic} |-> FirstName]
  /\ relations = {}
  /\ \E s \in FirstStories :
       comments = [c \in {"first"} |->
                     [story |-> s, author |-> Poster, body |-> "first"]]
  /\ log = {}
  /\ used = FirstStories \union {FirstSprint, FirstEpic}
  /\ req = [r \in Requests |-> Fresh]
  /\ bypassed = {}
  /\ lost = {}

-----------------------------------------------------------------------------
(* Relations *)

(* REST: both stories are looked up before the INSERT.  (Two reads; what a
   deletion between them changes, the foreign keys catch.) *)
CheckEnds(r, s, t) ==
  /\ req[r].pc = "new"
  /\ IF {s, t} \subseteq stories
     THEN Become(r, [req[r] EXCEPT !.pc = "relate", !.story = s, !.ref = t])
     ELSE Finish(r)
  /\ UNCHANGED <<storyVars, listVars, linkVars, log, used, historyVars>>

(* repo::create_relation: not to itself, not twice, both stories there. *)
MayRelate(s, t) ==
  /\ s # t
  /\ <<s, t>> \notin relations
  /\ {s, t} \subseteq stories

Relate(r) ==
  /\ req[r].pc = "relate"
  /\ LET s == req[r].story
         t == req[r].ref
     IN  IF MayRelate(s, t)
         THEN /\ relations' = relations \union {<<s, t>>}
              /\ Become(r, Owing(r, s, "added", t))
         ELSE Finish(r) /\ UNCHANGED relations
  /\ UNCHANGED <<storyVars, listVars, comments, log, used, historyVars>>

(* The hosted tool leaves no entry. *)
McpBlock(r, s, t) ==
  /\ req[r].pc = "new"
  /\ Finish(r)
  /\ IF MayRelate(s, t)
     THEN /\ relations' = relations \union {<<s, t>>}
          /\ bypassed' = bypassed \union {<<s, t>>}
     ELSE UNCHANGED <<relations, bypassed>>
  /\ UNCHANGED <<storyVars, listVars, comments, log, used, lost>>

(* A mistake: the entry is written whether or not a row was deleted. *)
Unrelate_LogsAlways(r, s, t) ==
  /\ req[r].pc = "new"
  /\ relations' = relations \ {<<s, t>>}
  /\ IF s \in stories THEN Become(r, Owing(r, s, "removed", t)) ELSE Finish(r)
  /\ UNCHANGED <<storyVars, listVars, comments, log, used, historyVars>>

(* REST: an entry only if a row was deleted. *)
Unrelate(r, s, t) ==
  /\ req[r].pc = "new"
  /\ relations' = relations \ {<<s, t>>}
  /\ IF <<s, t>> \in relations THEN Become(r, Owing(r, s, "removed", t)) ELSE Finish(r)
  /\ UNCHANGED <<storyVars, listVars, comments, log, used, historyVars>>

McpUnblock(r, s, t) ==
  /\ req[r].pc = "new"
  /\ relations' = relations \ {<<s, t>>}
  /\ bypassed' = IF <<s, t>> \in relations THEN bypassed \union {<<s, t>>} ELSE bypassed
  /\ Finish(r)
  /\ UNCHANGED <<storyVars, listVars, comments, log, used, lost>>

-----------------------------------------------------------------------------
(* Comments *)

CheckStory(r, s) ==
  /\ req[r].pc = "new"
  /\ IF s \in stories
     THEN Become(r, [req[r] EXCEPT !.pc = "post", !.story = s])
     ELSE Finish(r)
  /\ UNCHANGED <<storyVars, listVars, linkVars, log, used, historyVars>>

(* A mistake: the comment is stored, and its entry forgotten. *)
Post_NoEntry(r) ==
  /\ req[r].pc = "post"
  /\ LET s == req[r].story
     IN  comments' = IF s \in stories
                     THEN With(comments, r, [story |-> s, author |-> Author[r], body |-> r])
                     ELSE comments
  /\ Finish(r)
  /\ UNCHANGED <<storyVars, listVars, relations, log, used, historyVars>>

Post(r) ==
  /\ req[r].pc = "post"
  /\ LET s == req[r].story
     IN  IF s \in stories
         THEN /\ comments' = With(comments, r, [story |-> s, author |-> Author[r], body |-> r])
              /\ Become(r, Owing(r, s, "posted", r))
         ELSE Finish(r) /\ UNCHANGED comments
  /\ UNCHANGED <<storyVars, listVars, relations, log, used, historyVars>>

(* Edit and delete read the row, and refuse anyone but its author. *)
FindComment(r, c, next) ==
  /\ req[r].pc = "new"
  /\ IF c \in DOMAIN comments /\ comments[c].author = Author[r]
     THEN Become(r, [req[r] EXCEPT !.pc = next, !.story = comments[c].story, !.ref = c])
     ELSE Finish(r)
  /\ UNCHANGED <<storyVars, listVars, linkVars, log, used, historyVars>>

(* A mistake: an upsert, which brings a deleted comment back. *)
Rewrite_Upsert(r) ==
  /\ req[r].pc = "rewrite"
  /\ LET c == req[r].ref
         s == req[r].story
     IN  IF s \in stories
         THEN /\ comments' = With(comments, c, [story |-> s, author |-> Author[r], body |-> r])
              /\ Become(r, Owing(r, s, "edited", c))
         ELSE Finish(r) /\ UNCHANGED comments
  /\ UNCHANGED <<storyVars, listVars, relations, log, used, historyVars>>

(* The UPDATE fails if the row has gone since it was read. *)
Rewrite(r) ==
  /\ req[r].pc = "rewrite"
  /\ LET c == req[r].ref
     IN  IF c \in DOMAIN comments
         THEN /\ comments' = [comments EXCEPT ![c].body = r]
              /\ Become(r, Owing(r, req[r].story, "edited", c))
         ELSE Finish(r) /\ UNCHANGED comments
  /\ UNCHANGED <<storyVars, listVars, relations, log, used, historyVars>>

(* The DELETE does not look at the number of rows: the entry is written even
   if another request was faster. *)
Erase(r) ==
  /\ req[r].pc = "erase"
  /\ comments' = Without(comments, {req[r].ref})
  /\ Become(r, Owing(r, req[r].story, "deleted", req[r].ref))
  /\ UNCHANGED <<storyVars, listVars, relations, log, used, historyVars>>

-----------------------------------------------------------------------------
(* Sprints and epics: one statement each, and no entry *)

CreateSprint(r, p, first, last) ==
  /\ req[r].pc = "new" /\ p \notin used
  /\ first <= last
  /\ sprints' = With(sprints, p, [start |-> first, end |-> last])
  /\ used' = used \union {p}
  /\ Finish(r)
  /\ UNCHANGED <<storyVars, epics, linkVars, log, historyVars>>

Given(x, old) == IF x = None THEN old ELSE x

(* The handler compares the dates if both are given; the table's CHECK
   compares what comes out. *)
EditSprint(r, p, first, last) ==
  /\ req[r].pc = "new"
  /\ None \notin {first, last} => first <= last
  /\ LET new == [start |-> Given(first, sprints[p].start),
                 end |-> Given(last, sprints[p].end)]
     IN  sprints' = IF p \in DOMAIN sprints /\ new.start <= new.end
                    THEN With(sprints, p, new) ELSE sprints
  /\ Finish(r)
  /\ UNCHANGED <<storyVars, epics, linkVars, log, used, historyVars>>

(* ON DELETE SET NULL *)
DeleteSprint(r, p) ==
  /\ req[r].pc = "new"
  /\ sprints' = Without(sprints, {p})
  /\ sprintOf' = [s \in Stories |-> IF sprintOf[s] = p THEN None ELSE sprintOf[s]]
  /\ Finish(r)
  /\ UNCHANGED <<stories, epicOf, epics, linkVars, log, used, historyVars>>

Taken(n) == \E e \in DOMAIN epics : epics[e] = n

CreateEpic(r, e, n) ==
  /\ req[r].pc = "new" /\ e \notin used
  /\ ~Taken(n)
  /\ epics' = With(epics, e, n)
  /\ used' = used \union {e}
  /\ Finish(r)
  /\ UNCHANGED <<storyVars, sprints, linkVars, log, historyVars>>

(* A mistake: the name column without COALESCE. *)
Renamed_Null(e, n) == With(epics, e, n)

Renamed(e, n) == With(epics, e, Given(n, epics[e]))

(* A name another epic has makes the statement fail; a request without a name
   changes the colour or the description. *)
EditEpic(r, e, n) ==
  /\ req[r].pc = "new"
  /\ epics' = IF e \in DOMAIN epics /\ ~Taken(n) THEN Renamed(e, n) ELSE epics
  /\ Finish(r)
  /\ UNCHANGED <<storyVars, sprints, linkVars, log, used, historyVars>>

DeleteEpic(r, e) ==
  /\ req[r].pc = "new"
  /\ epics' = Without(epics, {e})
  /\ epicOf' = [s \in Stories |-> IF epicOf[s] = e THEN None ELSE epicOf[s]]
  /\ Finish(r)
  /\ UNCHANGED <<stories, sprintOf, sprints, linkVars, log, used, historyVars>>

-----------------------------------------------------------------------------
(* Stories *)

Latest == {p \in DOMAIN sprints :
             \A q \in DOMAIN sprints : sprints[q].start <= sprints[p].start}

(* resolve_sprint, before a story is created (s new) or edited: an id is taken
   as it is, "latest" is the sprint that starts last, a name any that has it. *)
ResolveSprint(r, s, p, latest) ==
  /\ req[r].pc = "new"
  /\ latest => p \in Latest
  /\ Become(r, [req[r] EXCEPT !.story = s, !.list = "sprint", !.id = p,
                  !.pc = IF s \in used THEN "assign" ELSE "insert"])
  /\ UNCHANGED <<storyVars, listVars, linkVars, log, used, historyVars>>

(* resolve_epic: an id is taken as it is, a name is looked up. *)
ResolveEpic(r, s, e, named) ==
  /\ req[r].pc = "new"
  /\ named => e \in DOMAIN epics
  /\ Become(r, [req[r] EXCEPT !.story = s, !.list = "epic", !.id = e,
                  !.pc = IF s \in used THEN "assign" ELSE "insert"])
  /\ UNCHANGED <<storyVars, listVars, linkVars, log, used, historyVars>>

(* A mistake: the columns have no foreign keys. *)
Refers_NoForeignKey(r) == TRUE

(* The foreign key of the sprint or epic resolved before. *)
Refers(r) ==
  CASE req[r].list = "sprint" -> req[r].id \in DOMAIN sprints
    [] req[r].list = "epic"   -> req[r].id \in DOMAIN epics

Put(r, s) ==
  /\ sprintOf' = IF req[r].list = "sprint" THEN [sprintOf EXCEPT ![s] = req[r].id] ELSE sprintOf
  /\ epicOf' = IF req[r].list = "epic" THEN [epicOf EXCEPT ![s] = req[r].id] ELSE epicOf

InsertStory(r) ==
  /\ req[r].pc = "insert"
  /\ LET s == req[r].story
     IN  IF Refers(r) /\ s \notin used
         THEN /\ stories' = stories \union {s}
              /\ used' = used \union {s}
              /\ Put(r, s)
         ELSE UNCHANGED <<storyVars, used>>
  /\ Finish(r)
  /\ UNCHANGED <<listVars, linkVars, log, historyVars>>

Assign(r) ==
  /\ req[r].pc = "assign"
  /\ LET s == req[r].story
     IN  IF Refers(r) /\ s \in stories THEN Put(r, s) ELSE UNCHANGED <<sprintOf, epicOf>>
  /\ Finish(r)
  /\ UNCHANGED <<stories, listVars, linkVars, log, used, historyVars>>

(* DELETE, which cascades to relations, comments and the log. *)
DeleteStory(r, s) ==
  /\ req[r].pc = "new"
  /\ stories' = stories \ {s}
  /\ sprintOf' = [sprintOf EXCEPT ![s] = None]
  /\ epicOf' = [epicOf EXCEPT ![s] = None]
  /\ relations' = {x \in relations : s \notin {x[1], x[2]}}
  /\ comments' = Without(comments, {c \in DOMAIN comments : comments[c].story = s})
  /\ log' = {x \in log : x.story # s}
  /\ Finish(r)
  /\ UNCHANGED <<listVars, used, historyVars>>

-----------------------------------------------------------------------------
(* The log *)

Emit(r) ==
  /\ req[r].pc = "emit"
  /\ log' = IF req[r].story \in stories THEN log \union {Head(req[r].owes)} ELSE log
  /\ Finish(r)
  /\ UNCHANGED <<storyVars, listVars, linkVars, used, historyVars>>

(* The INSERT fails: the code warns and goes on. *)
EmitFails(r) ==
  /\ "log" \in Faults
  /\ req[r].pc = "emit"
  /\ lost' = lost \union {req[r].story}
  /\ Finish(r)
  /\ UNCHANGED <<storyVars, listVars, linkVars, log, used, bypassed>>

(* The client goes away or the server dies: the handler stops at its await. *)
Cut(r) ==
  /\ "cut" \in Faults
  /\ req[r].pc \notin {"new", "done"}
  /\ lost' = IF req[r].owes = <<>> THEN lost ELSE lost \union {req[r].story}
  /\ Finish(r)
  /\ UNCHANGED <<storyVars, listVars, linkVars, log, used, bypassed>>

-----------------------------------------------------------------------------
(* What tp-mcp's tools and the pages ask the REST handlers for, and what the
   hosted tools do themselves.  A story may be deleted from anywhere; only the
   pages edit or delete comments, and delete sprints and epics. *)

RelationStep(r) ==
  \/ \E s, t \in Stories :
       CheckEnds(r, s, t) \/ McpBlock(r, s, t) \/ Unrelate(r, s, t) \/ McpUnblock(r, s, t)
  \/ Relate(r)

CommentStep(r) ==
  \/ \E s \in Stories : CheckStory(r, s)
  \/ \E c \in CommentIds, next \in {"rewrite", "erase"} : FindComment(r, c, next)
  \/ Post(r) \/ Rewrite(r) \/ Erase(r)

SprintStep(r) ==
  \E p \in Sprints :
    \/ DeleteSprint(r, p)
    \/ \E first, last \in Days : CreateSprint(r, p, first, last)
    \/ \E first, last \in Days \union {None} : EditSprint(r, p, first, last)

EpicStep(r) ==
  \E e \in Epics :
    \/ DeleteEpic(r, e)
    \/ \E n \in Names : CreateEpic(r, e, n)
    \/ \E n \in Names \union {None} : EditEpic(r, e, n)

StoryStep(r) ==
  \/ \E s \in Stories :
       \/ DeleteStory(r, s)
       \/ \E p \in Sprints, latest \in BOOLEAN : ResolveSprint(r, s, p, latest)
       \/ \E e \in Epics, named \in BOOLEAN : ResolveEpic(r, s, e, named)
  \/ InsertStory(r) \/ Assign(r)

Next ==
  \E r \in Requests :
    \/ RelationStep(r) \/ CommentStep(r) \/ SprintStep(r) \/ EpicStep(r) \/ StoryStep(r)
    \/ Emit(r) \/ EmitFails(r) \/ Cut(r)

Spec == Init /\ [][Next]_vars

-----------------------------------------------------------------------------
(* Properties *)

Owed == UNION {{req[r].owes[i] : i \in 1 .. Len(req[r].owes)} : r \in Requests}

Told(s, kind, ref) ==
  {x \in log \union Owed : x.story = s /\ x.kind = kind /\ x.ref = ref}

(* The log of a story that is still there says which stories it blocks: what
   was added and not removed, once each, however requests from two pages
   interleave, unless a hosted tool has touched the pair (those tools write no
   entry), an entry was not written, or the other story is gone. *)
RelationsLogged ==
  \A s, t \in stories :
    s \notin lost /\ <<s, t>> \notin bypassed =>
      Cardinality(Told(s, "added", t)) =
        Cardinality(Told(s, "removed", t)) + IF <<s, t>> \in relations THEN 1 ELSE 0

Here(s, c) == c \in DOMAIN comments /\ comments[c].story = s

(* The log of a story that is still there accounts for its comments: a comment
   is on the story if and only if the log says that it was posted and does not
   say that it was deleted, although a comment may be edited and deleted by
   requests that have read it before.  What a request is about to log counts as
   logged, and a story for which an entry was lost is excused.  The comment
   there is at the start was posted before the log begins: of that one, only
   that it is not on the story once a deletion is logged.  (Two deletions of
   one comment may both be logged.) *)
CommentsAccounted ==
  \A s \in stories \ lost, c \in CommentIds :
    IF c = "first" THEN Told(s, "deleted", c) # {} => ~Here(s, c)
    ELSE Here(s, c) <=> Told(s, "posted", c) # {} /\ Told(s, "deleted", c) = {}

(* Nothing refers to what has been deleted, although tools resolve a sprint or
   an epic in one statement and store it in another and comments and relations
   look their story up before they are inserted; a sprint does not end before
   it begins, and epic names are unique. *)
CatalogSound ==
  /\ \A s \in stories :
       /\ sprintOf[s] \in DOMAIN sprints \union {None}
       /\ epicOf[s] \in DOMAIN epics \union {None}
  /\ \A x \in relations : x[1] # x[2] /\ {x[1], x[2]} \subseteq stories
  /\ \A c \in DOMAIN comments : comments[c].story \in stories
  /\ \A x \in log : x.story \in stories
  /\ \A p \in DOMAIN sprints : sprints[p].start <= sprints[p].end
  /\ \A e, f \in DOMAIN epics : epics[e] = epics[f] => e = f
=============================================================================
