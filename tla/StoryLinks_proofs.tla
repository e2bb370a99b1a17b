------------------------- MODULE StoryLinks_proofs -------------------------
(***************************************************************************)
(* What hangs on stories, proved for any number of stories, sprints,       *)
(* epics, users and requests and for any faults: types, the catalogue, and *)
(* what the log says of relations and comments.                            *)
(***************************************************************************)
EXTENDS StoryLinks, FiniteSetTheorems, TLAPS

-----------------------------------------------------------------------------
(* The inductive invariant *)

(* What the place of request r in its handler says of its locals q. *)
LocalsIn(q, r) ==
  /\ q \in RequestState
  /\ q.pc \in {"relate", "post", "rewrite", "erase", "insert", "assign", "emit"}
       => q.story \in Stories
  /\ q.pc = "relate" => q.ref \in Stories
  /\ q.pc \in {"rewrite", "erase"} => q.ref \in CommentIds
  /\ q.pc \in {"insert", "assign"} => q.list # "none"
  /\ q.pc = "emit" =>
       /\ Len(q.owes) = 1
       /\ q.owes[1].by = r /\ q.owes[1].story = q.story /\ q.owes[1].ref = q.ref
  /\ q.pc # "emit" => q.owes = <<>>

TablesOK ==
  /\ stories \subseteq Stories
  /\ sprintOf \in [Stories -> Sprints \union {None}]
  /\ epicOf \in [Stories -> Epics \union {None}]
  /\ DOMAIN sprints \subseteq Sprints
  /\ \A p \in DOMAIN sprints : sprints[p] \in Sprint
  /\ DOMAIN epics \subseteq Epics /\ \A e \in DOMAIN epics : epics[e] \in Names
  /\ relations \subseteq Pairs
  /\ DOMAIN comments \subseteq CommentIds
  /\ \A c \in DOMAIN comments : comments[c] \in Comment
  /\ used \subseteq Stories \union Sprints \union Epics

LocalsInv ==
  /\ req = [r \in Requests |-> req[r]]
  /\ \A r \in Requests : LocalsIn(req[r], r)

TypeInv ==
  /\ TablesOK
  /\ log \subseteq Entry
  /\ bypassed \subseteq Pairs
  /\ lost \subseteq Stories
  /\ LocalsInv

(* A story that is not there, not yet or no more, is in no list. *)
CatalogInv ==
  /\ CatalogSound
  /\ stories \subseteq used
  /\ \A s \in Stories \ stories : sprintOf[s] = None /\ epicOf[s] = None

(* What the log tells or is about to be told. *)
Tellings == log \union Owed

About == {"posted", "edited", "deleted"}

(* An entry is its request's only one, and written when that is done. *)
EntriesInv ==
  /\ IsFiniteSet(Tellings)
  /\ \A x \in log : req[x.by].pc = "done"
  /\ \A x \in Tellings :
       /\ x.story \in used
       /\ x.kind \in {"added", "removed"} => x.ref \in used
  /\ \A r \in Requests :
       req[r].pc \in {"post", "rewrite", "erase"} => req[r].story \in used

(* Comment c of story s is spoken of: it is there, a request is about to edit
   or delete it, or an entry is about it. *)
Mentioned(s, c) ==
  \/ c \in DOMAIN comments /\ comments[c].story = s
  \/ \E r \in Requests :
       req[r].pc \in {"rewrite", "erase"} /\ req[r].ref = c /\ req[r].story = s
  \/ \E x \in Tellings : x.kind \in About /\ x.ref = c /\ x.story = s

(* Nobody speaks of a comment before its request has posted it, nor of two
   stories as its own; it is deleted for good. *)
CommentsInv ==
  /\ \A s \in Stories, c \in Requests :
       Mentioned(s, c) => req[c].pc \in {"emit", "done"}
  /\ \A s, t \in Stories, c \in CommentIds :
       Mentioned(s, c) /\ Mentioned(t, c) => s = t
  /\ \A x \in Tellings : x.kind = "deleted" => x.ref \notin DOMAIN comments
  /\ \A x \in Tellings :
       /\ x.kind = "posted" /\ x.ref \notin DOMAIN comments
       /\ x.story \in stories \ lost
       => Told(x.story, "deleted", x.ref) # {}
-----------------------------------------------------------------------------
(* Requests *)

LEMMA TypeInvTypes == TypeInv => TypeOK
<1> SUFFICES ASSUME TypeInv PROVE TypeOK
  OBVIOUS
<1>1. req \in [Requests -> RequestState]
  BY DEF TypeInv, LocalsInv, LocalsIn
<1> QED
  BY <1>1 DEF TypeInv, TablesOK, TypeOK

LEMMA FreshLocals == ASSUME NEW r \in Requests PROVE LocalsIn(Fresh, r)
BY DEF LocalsIn, Fresh, RequestState

(* Request r moves to q, the others stay. *)
LEMMA BecomeLocals ==
  ASSUME LocalsInv, NEW r \in Requests, NEW q, Become(r, q)
  PROVE  /\ req'[r] = q
         /\ \A t \in Requests : t # r => req'[t] = req[t]
         /\ LocalsIn(q, r) => LocalsInv'
<1>1. req'[r] = q /\ \A t \in Requests : t # r => req'[t] = req[t]
  BY DEF LocalsInv, Become
<1>2. req' = [t \in Requests |-> req'[t]]
  BY DEF LocalsInv, Become
<1>3. ASSUME LocalsIn(q, r)
      PROVE  LocalsInv'
  <2>1. ASSUME NEW t \in Requests
        PROVE  LocalsIn(req'[t], t)
    BY <1>1, <1>3 DEF LocalsInv
  <2> QED
    BY <1>2, <2>1 DEF LocalsInv
<1> QED
  BY <1>1, <1>3

LEMMA FinishLocals ==
  ASSUME LocalsInv, NEW r \in Requests
  PROVE  /\ LocalsIn([req[r] EXCEPT !.pc = "done", !.owes = <<>>], r)
         /\ [req[r] EXCEPT !.pc = "done", !.owes = <<>>].pc = "done"
         /\ [req[r] EXCEPT !.pc = "done", !.owes = <<>>].owes = <<>>
<1> DEFINE q == [req[r] EXCEPT !.pc = "done", !.owes = <<>>]
<1>1. req[r] \in RequestState
  BY DEF LocalsInv, LocalsIn
<1>2. <<>> \in Seq(Entry)
  OBVIOUS
<1>3. q \in RequestState /\ q.pc = "done" /\ q.owes = <<>>
  BY <1>1, <1>2 DEF RequestState
<1> HIDE DEF q
<1>4. LocalsIn(q, r)
  BY <1>3 DEF LocalsIn
<1> QED
  BY <1>3, <1>4 DEF q

LEMMA Finished ==
  ASSUME LocalsInv, NEW r \in Requests, Finish(r)
  PROVE  /\ LocalsInv'
         /\ req'[r].pc = "done" /\ req'[r].owes = <<>>
         /\ \A t \in Requests : t # r => req'[t] = req[t]
<1>1. PICK q : q = [req[r] EXCEPT !.pc = "done", !.owes = <<>>]
  OBVIOUS
<1>2. Become(r, q)
  BY <1>1 DEF Finish
<1>3. LocalsIn(q, r) /\ q.pc = "done" /\ q.owes = <<>>
  BY <1>1, FinishLocals, Zenon
<1> QED
  BY <1>2, <1>3, BecomeLocals, Zenon

LEMMA OwingLocals ==
  ASSUME LocalsInv, NEW r \in Requests, NEW s \in Stories, NEW kind \in Kinds,
         NEW ref \in Stories \union CommentIds
  PROVE  /\ LocalsIn(Owing(r, s, kind, ref), r)
         /\ Owing(r, s, kind, ref).pc = "emit"
         /\ Owing(r, s, kind, ref).story = s
         /\ Owing(r, s, kind, ref).ref = ref
         /\ Owing(r, s, kind, ref).owes
              = <<[by |-> r, story |-> s, kind |-> kind, ref |-> ref]>>
<1> DEFINE e == [by |-> r, story |-> s, kind |-> kind, ref |-> ref]
<1>1. req[r] \in RequestState
  BY DEF LocalsInv, LocalsIn
<1>2. e \in Entry /\ e.by = r /\ e.story = s /\ e.ref = ref
  BY DEF Entry
<1>3. <<e>> \in Seq(Entry) /\ Len(<<e>>) = 1 /\ <<e>>[1] = e
  BY <1>2
<1>4. Owing(r, s, kind, ref) = [req[r] EXCEPT !.pc = "emit", !.story = s, !.ref = ref, !.owes = <<e>>]
  BY DEF Owing
<1> HIDE DEF e
<1>5. Owing(r, s, kind, ref) \in RequestState
  BY <1>1, <1>3, <1>4 DEF RequestState
<1>6. /\ Owing(r, s, kind, ref).pc = "emit" /\ Owing(r, s, kind, ref).story = s
      /\ Owing(r, s, kind, ref).ref = ref /\ Owing(r, s, kind, ref).owes = <<e>>
  BY <1>1, <1>4 DEF RequestState
<1> QED
  BY <1>2, <1>3, <1>5, <1>6 DEF LocalsIn, e

(* Request r has something to log, and goes on to log it. *)
LEMMA Owes ==
  ASSUME LocalsInv, NEW r \in Requests, NEW s \in Stories, NEW kind \in Kinds,
         NEW ref \in Stories \union CommentIds, Become(r, Owing(r, s, kind, ref))
  PROVE  /\ LocalsInv'
         /\ req'[r].pc = "emit" /\ req'[r].story = s /\ req'[r].ref = ref
         /\ req'[r].owes = <<[by |-> r, story |-> s, kind |-> kind, ref |-> ref]>>
         /\ \A t \in Requests : t # r => req'[t] = req[t]
<1> DEFINE q == Owing(r, s, kind, ref)
<1>1. /\ LocalsIn(q, r) /\ q.pc = "emit" /\ q.story = s /\ q.ref = ref
      /\ q.owes = <<[by |-> r, story |-> s, kind |-> kind, ref |-> ref]>>
  BY OwingLocals
<1>2. Become(r, q)
  OBVIOUS
<1> HIDE DEF q
<1>3. req'[r] = q /\ LocalsInv' /\ \A t \in Requests : t # r => req'[t] = req[t]
  BY <1>1, <1>2, BecomeLocals
<1> QED
  BY <1>1, <1>3

LEMMA LocalsFacts ==
  ASSUME LocalsInv, NEW r \in Requests
  PROVE  LocalsIn(req[r], r) /\ req[r] \in RequestState
BY DEF LocalsInv, LocalsIn
-----------------------------------------------------------------------------
(* Types *)

LEMMA WithValue ==
  ASSUME NEW f, NEW x, NEW v
  PROVE  /\ DOMAIN With(f, x, v) = DOMAIN f \union {x}
         /\ With(f, x, v)[x] = v
         /\ \A y \in DOMAIN f : y # x => With(f, x, v)[y] = f[y]
BY DEF With

LEMMA WithoutValue ==
  ASSUME NEW f, NEW X
  PROVE  /\ DOMAIN Without(f, X) = DOMAIN f \ X
         /\ \A y \in DOMAIN f \ X : Without(f, X)[y] = f[y]
BY DEF Without

(* A table with keys in K and rows in T stays one. *)
LEMMA WithType ==
  ASSUME NEW f, NEW K, NEW T, DOMAIN f \subseteq K, \A y \in DOMAIN f : f[y] \in T,
         NEW x \in K, NEW v \in T
  PROVE  /\ DOMAIN With(f, x, v) \subseteq K
         /\ \A y \in DOMAIN With(f, x, v) : With(f, x, v)[y] \in T
BY DEF With

LEMMA WithoutType ==
  ASSUME NEW f, NEW K, NEW T, DOMAIN f \subseteq K, \A y \in DOMAIN f : f[y] \in T, NEW X
  PROVE  /\ DOMAIN Without(f, X) \subseteq K
         /\ \A y \in DOMAIN Without(f, X) : Without(f, X)[y] \in T
BY DEF Without

LEMMA InitType == Init => TypeInv
<1> SUFFICES ASSUME Init PROVE TypeInv
  OBVIOUS
<1> USE LinksAssumption
<1>1. LocalsInv
  BY FreshLocals DEF Init, LocalsInv
<1>2. PICK s \in FirstStories :
        comments = [c \in {"first"} |-> [story |-> s, author |-> Poster, body |-> "first"]]
  BY DEF Init
<1>3. s \in Stories /\ [story |-> s, author |-> Poster, body |-> "first"] \in Comment
  BY DEF Comment, CommentIds
<1>4. DOMAIN comments \subseteq CommentIds /\ \A c \in DOMAIN comments : comments[c] \in Comment
  BY <1>2, <1>3 DEF CommentIds
<1>5. /\ DOMAIN sprints \subseteq Sprints
      /\ \A p \in DOMAIN sprints : sprints[p] \in Sprint
  BY DEF Init, Sprint, Days
<1>6. DOMAIN epics \subseteq Epics /\ \A e \in DOMAIN epics : epics[e] \in Names
  BY DEF Init
<1>7. TablesOK
  BY <1>4, <1>5, <1>6 DEF Init, TablesOK, Pairs
<1> QED
  BY <1>1, <1>7 DEF Init, TypeInv, Entry

LEMMA CheckEndsType ==
  ASSUME TypeInv, NEW r \in Requests, NEW s \in Stories, NEW t \in Stories, CheckEnds(r, s, t)
  PROVE  LocalsInv'
<1>0. LocalsInv /\ req[r].pc = "new" /\ LocalsIn(req[r], r)
  BY LocalsFacts DEF TypeInv, CheckEnds
<1> DEFINE q == [req[r] EXCEPT !.pc = "relate", !.story = s, !.ref = t]
<1>1. LocalsIn(q, r)
  BY <1>0 DEF LocalsIn, RequestState
<1> HIDE DEF q
<1>2. Become(r, q) => LocalsInv'
  BY <1>0, <1>1, BecomeLocals
<1>3. Finish(r) => LocalsInv'
  BY <1>0, Finished
<1> QED
  BY <1>2, <1>3 DEF CheckEnds, q

LEMMA RelateType ==
  ASSUME TypeInv, NEW r \in Requests, Relate(r)
  PROVE  LocalsInv' /\ TablesOK'
<1> DEFINE s == req[r].story
           t == req[r].ref
<1>0. LocalsInv /\ req[r].pc = "relate" /\ s \in Stories /\ t \in Stories
  BY LocalsFacts DEF TypeInv, Relate, LocalsIn
<1>1. Become(r, Owing(r, s, "added", t)) => LocalsInv'
  BY <1>0, Owes DEF Kinds
<1>2. Finish(r) => LocalsInv'
  BY <1>0, Finished
<1>3. relations' \subseteq Pairs
  BY <1>0 DEF Relate, TypeInv, TablesOK, Pairs
<1>4. TablesOK'
  BY <1>3 DEF Relate, TypeInv, TablesOK, storyVars, listVars
<1> QED
  BY <1>1, <1>2, <1>4 DEF Relate

LEMMA McpRelationType ==
  ASSUME TypeInv, NEW r \in Requests, NEW s \in Stories, NEW t \in Stories,
         McpBlock(r, s, t) \/ McpUnblock(r, s, t)
  PROVE  LocalsInv' /\ TablesOK' /\ bypassed' \subseteq Pairs
<1>1. LocalsInv'
  BY Finished DEF TypeInv, McpBlock, McpUnblock
<1>2. relations' \subseteq Pairs /\ bypassed' \subseteq Pairs
  BY DEF TypeInv, TablesOK, McpBlock, McpUnblock, Pairs
<1> QED
  BY <1>1, <1>2 DEF TypeInv, TablesOK, McpBlock, McpUnblock, storyVars, listVars

LEMMA UnrelateType ==
  ASSUME TypeInv, NEW r \in Requests, NEW s \in Stories, NEW t \in Stories, Unrelate(r, s, t)
  PROVE  LocalsInv' /\ TablesOK'
<1>0. LocalsInv
  BY DEF TypeInv
<1>1. Become(r, Owing(r, s, "removed", t)) => LocalsInv'
  BY <1>0, Owes DEF Kinds
<1>2. Finish(r) => LocalsInv'
  BY <1>0, Finished
<1>3. relations' \subseteq Pairs
  BY DEF Unrelate, TypeInv, TablesOK
<1>4. TablesOK'
  BY <1>3 DEF Unrelate, TypeInv, TablesOK, storyVars, listVars
<1> QED
  BY <1>1, <1>2, <1>4 DEF Unrelate

LEMMA CheckStoryType ==
  ASSUME TypeInv, NEW r \in Requests, NEW s \in Stories, CheckStory(r, s)
  PROVE  LocalsInv'
<1>0. LocalsInv /\ req[r].pc = "new" /\ LocalsIn(req[r], r)
  BY LocalsFacts DEF TypeInv, CheckStory
<1> DEFINE q == [req[r] EXCEPT !.pc = "post", !.story = s]
<1>1. LocalsIn(q, r)
  BY <1>0 DEF LocalsIn, RequestState
<1> HIDE DEF q
<1>2. Become(r, q) => LocalsInv'
  BY <1>0, <1>1, BecomeLocals
<1>3. Finish(r) => LocalsInv'
  BY <1>0, Finished
<1> QED
  BY <1>2, <1>3 DEF CheckStory, q

LEMMA PostType ==
  ASSUME TypeInv, NEW r \in Requests, Post(r)
  PROVE  LocalsInv' /\ TablesOK'
<1> DEFINE s == req[r].story
           row == [story |-> s, author |-> Author[r], body |-> r]
<1>0. LocalsInv /\ req[r].pc = "post" /\ s \in Stories /\ r \in CommentIds
  BY LocalsFacts DEF TypeInv, Post, LocalsIn, CommentIds
<1>1. Become(r, Owing(r, s, "posted", r)) => LocalsInv'
  BY <1>0, Owes DEF Kinds
<1>2. Finish(r) => LocalsInv'
  BY <1>0, Finished
<1>3. row \in Comment
  BY <1>0, LinksAssumption DEF Comment
<1>4. comments' = comments \/ comments' = With(comments, r, row)
  BY DEF Post
<1> HIDE DEF row
<1>5. DOMAIN comments' \subseteq CommentIds /\ \A c \in DOMAIN comments' : comments'[c] \in Comment
  <2>1. DOMAIN comments \subseteq CommentIds /\ \A c \in DOMAIN comments : comments[c] \in Comment
    BY DEF TypeInv, TablesOK
  <2>2. /\ DOMAIN With(comments, r, row) \subseteq CommentIds
        /\ \A c \in DOMAIN With(comments, r, row) : With(comments, r, row)[c] \in Comment
    BY <1>0, <1>3, <2>1, WithType
  <2> QED
    BY <1>4, <2>1, <2>2
<1>6. TablesOK'
  BY <1>5 DEF Post, TypeInv, TablesOK, storyVars, listVars
<1> QED
  BY <1>1, <1>2, <1>6 DEF Post

LEMMA FindCommentType ==
  ASSUME TypeInv, NEW r \in Requests, NEW c \in CommentIds, NEW next \in {"rewrite", "erase"},
         FindComment(r, c, next)
  PROVE  LocalsInv'
<1>0. LocalsInv /\ req[r].pc = "new" /\ LocalsIn(req[r], r)
  BY LocalsFacts DEF TypeInv, FindComment
<1> DEFINE q == [req[r] EXCEPT !.pc = next, !.story = comments[c].story, !.ref = c]
<1>1. c \in DOMAIN comments => LocalsIn(q, r)
  <2> DEFINE s == comments[c].story
  <2>1. c \in DOMAIN comments => s \in Stories
    BY DEF TypeInv, TablesOK, Comment
  <2> HIDE DEF s
  <2>2. s \in Stories => [req[r] EXCEPT !.pc = next, !.story = s, !.ref = c] \in RequestState
    BY <1>0 DEF LocalsIn, RequestState
  <2>3. s \in Stories => LocalsIn([req[r] EXCEPT !.pc = next, !.story = s, !.ref = c], r)
    BY <1>0, <2>2 DEF LocalsIn, RequestState
  <2> QED
    BY <2>1, <2>3 DEF s
<1> HIDE DEF q
<1>2. c \in DOMAIN comments /\ Become(r, q) => LocalsInv'
  BY <1>0, <1>1, BecomeLocals
<1>3. Finish(r) => LocalsInv'
  BY <1>0, Finished
<1> QED
  BY <1>2, <1>3 DEF FindComment, q

LEMMA RewriteType ==
  ASSUME TypeInv, NEW r \in Requests, Rewrite(r)
  PROVE  LocalsInv' /\ TablesOK'
<1> DEFINE s == req[r].story
           c == req[r].ref
<1>0. LocalsInv /\ req[r].pc = "rewrite" /\ s \in Stories /\ c \in CommentIds
  BY LocalsFacts DEF TypeInv, Rewrite, LocalsIn
<1>1. Become(r, Owing(r, s, "edited", c)) => LocalsInv'
  BY <1>0, Owes DEF Kinds
<1>2. Finish(r) => LocalsInv'
  BY <1>0, Finished
<1>3. comments' = comments \/ comments' = [comments EXCEPT ![c].body = r]
  BY DEF Rewrite
<1>4. r \in CommentIds
  BY DEF CommentIds
<1>5. DOMAIN comments' \subseteq CommentIds /\ \A d \in DOMAIN comments' : comments'[d] \in Comment
  BY <1>0, <1>3, <1>4 DEF TypeInv, TablesOK, Comment
<1>6. TablesOK'
  BY <1>5 DEF Rewrite, TypeInv, TablesOK, storyVars, listVars
<1> QED
  BY <1>1, <1>2, <1>6 DEF Rewrite

LEMMA EraseType ==
  ASSUME TypeInv, NEW r \in Requests, Erase(r)
  PROVE  LocalsInv' /\ TablesOK'
<1> DEFINE s == req[r].story
           c == req[r].ref
<1>0. LocalsInv /\ req[r].pc = "erase" /\ s \in Stories /\ c \in CommentIds
  BY LocalsFacts DEF TypeInv, Erase, LocalsIn
<1>1. LocalsInv'
  BY <1>0, Owes DEF Kinds, Erase
<1>2. DOMAIN comments' \subseteq CommentIds /\ \A d \in DOMAIN comments' : comments'[d] \in Comment
  <2>1. DOMAIN comments \subseteq CommentIds /\ \A d \in DOMAIN comments : comments[d] \in Comment
    BY DEF TypeInv, TablesOK
  <2>2. comments' = Without(comments, {c})
    BY DEF Erase
  <2> QED
    BY <2>1, <2>2, WithoutType
<1>3. TablesOK'
  BY <1>2 DEF Erase, TypeInv, TablesOK, storyVars, listVars
<1> QED
  BY <1>1, <1>3
(* Sprints: the dates are days, whatever is given and whatever is kept. *)
LEMMA SprintType ==
  ASSUME TypeInv, NEW r \in Requests, NEW p \in Sprints,
         \/ DeleteSprint(r, p)
         \/ \E first, last \in Days : CreateSprint(r, p, first, last)
         \/ \E first, last \in Days \union {None} : EditSprint(r, p, first, last)
  PROVE  LocalsInv' /\ TablesOK'
<1>l. LocalsInv'
  BY Finished DEF TypeInv, DeleteSprint, CreateSprint, EditSprint
<1>0. DOMAIN sprints \subseteq Sprints /\ \A x \in DOMAIN sprints : sprints[x] \in Sprint
  BY DEF TypeInv, TablesOK
<1>1. CASE DeleteSprint(r, p)
  <2>1. DOMAIN sprints' \subseteq Sprints /\ \A x \in DOMAIN sprints' : sprints'[x] \in Sprint
    BY <1>0, <1>1, WithoutType DEF DeleteSprint
  <2>2. sprintOf' \in [Stories -> Sprints \union {None}]
    BY <1>1 DEF DeleteSprint, TypeInv, TablesOK
  <2> QED
    BY <1>l, <1>1, <2>1, <2>2 DEF DeleteSprint, TypeInv, TablesOK, linkVars
<1>2. ASSUME NEW first \in Days, NEW last \in Days, CreateSprint(r, p, first, last)
      PROVE  TablesOK'
  <2>1. [start |-> first, end |-> last] \in Sprint
    BY DEF Sprint
  <2>2. DOMAIN sprints' \subseteq Sprints /\ \A x \in DOMAIN sprints' : sprints'[x] \in Sprint
    BY <1>0, <1>2, <2>1, WithType DEF CreateSprint
  <2> QED
    BY <1>2, <2>2 DEF CreateSprint, TypeInv, TablesOK, storyVars, linkVars
<1>3. ASSUME NEW first \in Days \union {None}, NEW last \in Days \union {None},
             EditSprint(r, p, first, last)
      PROVE  TablesOK'
  <2> DEFINE new == [start |-> Given(first, sprints[p].start),
                     end |-> Given(last, sprints[p].end)]
  <2>1. p \in DOMAIN sprints => new \in Sprint
    BY <1>0 DEF Sprint, Given
  <2>2. sprints' = sprints \/ (p \in DOMAIN sprints /\ sprints' = With(sprints, p, new))
    BY <1>3 DEF EditSprint
  <2> HIDE DEF new
  <2>3. DOMAIN sprints' \subseteq Sprints /\ \A x \in DOMAIN sprints' : sprints'[x] \in Sprint
    BY <1>0, <2>1, <2>2, WithType
  <2> QED
    BY <1>3, <2>3 DEF EditSprint, TypeInv, TablesOK, storyVars, linkVars
<1> QED
  BY <1>l, <1>1, <1>2, <1>3

LEMMA EpicType ==
  ASSUME TypeInv, NEW r \in Requests, NEW e \in Epics,
         \/ DeleteEpic(r, e)
         \/ \E n \in Names : CreateEpic(r, e, n)
         \/ \E n \in Names \union {None} : EditEpic(r, e, n)
  PROVE  LocalsInv' /\ TablesOK'
<1>l. LocalsInv'
  BY Finished DEF TypeInv, DeleteEpic, CreateEpic, EditEpic
<1>0. DOMAIN epics \subseteq Epics /\ \A x \in DOMAIN epics : epics[x] \in Names
  BY DEF TypeInv, TablesOK
<1>1. CASE DeleteEpic(r, e)
  <2>1. DOMAIN epics' \subseteq Epics /\ \A x \in DOMAIN epics' : epics'[x] \in Names
    BY <1>0, <1>1, WithoutType DEF DeleteEpic
  <2>2. epicOf' \in [Stories -> Epics \union {None}]
    BY <1>1 DEF DeleteEpic, TypeInv, TablesOK
  <2> QED
    BY <1>l, <1>1, <2>1, <2>2 DEF DeleteEpic, TypeInv, TablesOK, linkVars
<1>2. ASSUME NEW n \in Names, CreateEpic(r, e, n)
      PROVE  TablesOK'
  <2>2. DOMAIN epics' \subseteq Epics /\ \A x \in DOMAIN epics' : epics'[x] \in Names
    BY <1>0, <1>2, WithType DEF CreateEpic
  <2> QED
    BY <1>2, <2>2 DEF CreateEpic, TypeInv, TablesOK, storyVars, linkVars
<1>3. ASSUME NEW n \in Names \union {None}, EditEpic(r, e, n)
      PROVE  TablesOK'
  <2>1. e \in DOMAIN epics => Given(n, epics[e]) \in Names
    BY <1>0 DEF Given
  <2>2. epics' = epics \/ (e \in DOMAIN epics /\ epics' = With(epics, e, Given(n, epics[e])))
    BY <1>3 DEF EditEpic, Renamed
  <2>3. DOMAIN epics' \subseteq Epics /\ \A x \in DOMAIN epics' : epics'[x] \in Names
    BY <1>0, <2>1, <2>2, WithType
  <2> QED
    BY <1>3, <2>3 DEF EditEpic, TypeInv, TablesOK, storyVars, linkVars
<1> QED
  BY <1>l, <1>1, <1>2, <1>3

LEMMA ResolveType ==
  ASSUME TypeInv, NEW r \in Requests, NEW s \in Stories,
         \/ \E p \in Sprints, latest \in BOOLEAN : ResolveSprint(r, s, p, latest)
         \/ \E e \in Epics, named \in BOOLEAN : ResolveEpic(r, s, e, named)
  PROVE  LocalsInv'
<1>0. LocalsInv /\ req[r].pc = "new" /\ LocalsIn(req[r], r)
  BY LocalsFacts DEF TypeInv, ResolveSprint, ResolveEpic
<1>1. ASSUME NEW list \in {"sprint", "epic"}, NEW id \in Sprints \union Epics,
             NEW pc \in {"assign", "insert"},
             Become(r, [req[r] EXCEPT !.story = s, !.list = list, !.id = id, !.pc = pc])
      PROVE  LocalsInv'
  <2> DEFINE q == [req[r] EXCEPT !.story = s, !.list = list, !.id = id, !.pc = pc]
  <2>1. LocalsIn(q, r) /\ Become(r, q)
    BY <1>0, <1>1 DEF LocalsIn, RequestState
  <2> HIDE DEF q
  <2> QED
    BY <1>0, <2>1, BecomeLocals
<1>2. ASSUME NEW p \in Sprints, NEW latest \in BOOLEAN, ResolveSprint(r, s, p, latest)
      PROVE  LocalsInv'
  BY <1>1, <1>2 DEF ResolveSprint
<1>3. ASSUME NEW e \in Epics, NEW named \in BOOLEAN, ResolveEpic(r, s, e, named)
      PROVE  LocalsInv'
  BY <1>1, <1>3 DEF ResolveEpic
<1> QED
  BY <1>2, <1>3

LEMMA PutType ==
  ASSUME TypeInv, NEW r \in Requests, req[r].list # "none", Refers(r), NEW s \in Stories, Put(r, s)
  PROVE  /\ sprintOf' \in [Stories -> Sprints \union {None}]
         /\ epicOf' \in [Stories -> Epics \union {None}]
<1>1. req[r].list \in {"sprint", "epic"}
  BY LocalsFacts DEF TypeInv, RequestState
<1>2. /\ req[r].list = "sprint" => req[r].id \in Sprints
      /\ req[r].list = "epic" => req[r].id \in Epics
  BY <1>1 DEF Refers, TypeInv, TablesOK
<1> QED
  BY <1>1, <1>2 DEF Put, TypeInv, TablesOK

LEMMA InsertStoryType ==
  ASSUME TypeInv, NEW r \in Requests, InsertStory(r)
  PROVE  LocalsInv' /\ TablesOK'
<1> DEFINE s == req[r].story
<1>0. LocalsInv /\ s \in Stories /\ req[r].list # "none"
  BY LocalsFacts DEF TypeInv, InsertStory, LocalsIn
<1>1. LocalsInv'
  BY <1>0, Finished DEF InsertStory
<1>2. /\ stories' \subseteq Stories
      /\ used' \subseteq Stories \union Sprints \union Epics
      /\ sprintOf' \in [Stories -> Sprints \union {None}]
      /\ epicOf' \in [Stories -> Epics \union {None}]
  <2>1. CASE Refers(r) /\ s \notin used
    BY <1>0, <2>1, PutType DEF InsertStory, TypeInv, TablesOK
  <2>2. CASE ~(Refers(r) /\ s \notin used)
    BY <2>2 DEF InsertStory, TypeInv, TablesOK, storyVars
  <2> QED
    BY <2>1, <2>2
<1> QED
  BY <1>1, <1>2 DEF InsertStory, TypeInv, TablesOK, listVars, linkVars

LEMMA AssignType ==
  ASSUME TypeInv, NEW r \in Requests, Assign(r)
  PROVE  LocalsInv' /\ TablesOK'
<1> DEFINE s == req[r].story
<1>0. LocalsInv /\ s \in Stories /\ req[r].list # "none"
  BY LocalsFacts DEF TypeInv, Assign, LocalsIn
<1>1. LocalsInv'
  BY <1>0, Finished DEF Assign
<1>2. /\ sprintOf' \in [Stories -> Sprints \union {None}]
      /\ epicOf' \in [Stories -> Epics \union {None}]
  <2>1. CASE Refers(r) /\ s \in stories
    BY <1>0, <2>1, PutType DEF Assign
  <2>2. CASE ~(Refers(r) /\ s \in stories)
    BY <2>2 DEF Assign, TypeInv, TablesOK
  <2> QED
    BY <2>1, <2>2
<1> QED
  BY <1>1, <1>2 DEF Assign, TypeInv, TablesOK, listVars, linkVars

LEMMA DeleteStoryType ==
  ASSUME TypeInv, NEW r \in Requests, NEW s \in Stories, DeleteStory(r, s)
  PROVE  LocalsInv' /\ TablesOK' /\ log' \subseteq Entry
<1>1. LocalsInv'
  BY Finished DEF TypeInv, DeleteStory
<1>2. DOMAIN comments' \subseteq CommentIds /\ \A d \in DOMAIN comments' : comments'[d] \in Comment
  <2> DEFINE X == {c \in DOMAIN comments : comments[c].story = s}
  <2>1. DOMAIN comments \subseteq CommentIds /\ \A d \in DOMAIN comments : comments[d] \in Comment
    BY DEF TypeInv, TablesOK
  <2>2. comments' = Without(comments, X)
    BY DEF DeleteStory
  <2> HIDE DEF X
  <2> QED
    BY <2>1, <2>2, WithoutType
<1>3. log' \subseteq Entry /\ relations' \subseteq Pairs /\ stories' \subseteq Stories
  BY DEF DeleteStory, TypeInv, TablesOK
<1>4. /\ sprintOf' \in [Stories -> Sprints \union {None}]
      /\ epicOf' \in [Stories -> Epics \union {None}]
  BY DEF DeleteStory, TypeInv, TablesOK
<1> QED
  BY <1>1, <1>2, <1>3, <1>4 DEF DeleteStory, TypeInv, TablesOK, listVars

LEMMA LogType ==
  ASSUME TypeInv, NEW r \in Requests, Emit(r) \/ EmitFails(r) \/ Cut(r)
  PROVE  LocalsInv' /\ log' \subseteq Entry /\ lost' \subseteq Stories
<1>1. LocalsInv'
  BY Finished DEF TypeInv, Emit, EmitFails, Cut
<1>2. CASE Emit(r)
  <2>1. LocalsIn(req[r], r) /\ req[r].pc = "emit"
    BY <1>2, LocalsFacts DEF TypeInv, Emit
  <2>2. req[r].owes \in Seq(Entry) /\ Len(req[r].owes) = 1
    BY <2>1 DEF LocalsIn, RequestState
  <2>3. Head(req[r].owes) \in Entry
    BY <2>2
  <2> QED
    BY <1>1, <1>2, <2>3 DEF Emit, TypeInv, historyVars
<1>3. CASE EmitFails(r)
  BY <1>1, <1>3, LocalsFacts DEF EmitFails, TypeInv, LocalsIn
<1>4. CASE Cut(r)
  <2>1. req[r].owes # <<>> => req[r].story \in Stories
    BY LocalsFacts DEF TypeInv, LocalsIn
  <2> QED
    BY <1>1, <1>4, <2>1 DEF Cut, TypeInv
<1> QED
  BY <1>2, <1>3, <1>4
LEMMA TablesKept ==
  ASSUME TablesOK, UNCHANGED <<storyVars, listVars, linkVars, used>>
  PROVE  TablesOK'
BY DEF TablesOK, storyVars, listVars, linkVars

LEMMA RelationStepType ==
  ASSUME TypeInv, NEW r \in Requests, RelationStep(r)
  PROVE  TypeInv'
<1>1. ASSUME NEW s \in Stories, NEW t \in Stories, CheckEnds(r, s, t)
      PROVE  TypeInv'
  BY <1>1, CheckEndsType, TablesKept DEF TypeInv, CheckEnds, historyVars
<1>2. ASSUME NEW s \in Stories, NEW t \in Stories, McpBlock(r, s, t) \/ McpUnblock(r, s, t)
      PROVE  TypeInv'
  BY <1>2, McpRelationType DEF TypeInv, McpBlock, McpUnblock
<1>3. ASSUME NEW s \in Stories, NEW t \in Stories, Unrelate(r, s, t)
      PROVE  TypeInv'
  BY <1>3, UnrelateType DEF TypeInv, Unrelate, historyVars
<1>4. CASE Relate(r)
  BY <1>4, RelateType DEF TypeInv, Relate, historyVars
<1> QED
  BY <1>1, <1>2, <1>3, <1>4 DEF RelationStep

LEMMA CommentStepType ==
  ASSUME TypeInv, NEW r \in Requests, CommentStep(r)
  PROVE  TypeInv'
<1>1. ASSUME NEW s \in Stories, CheckStory(r, s)
      PROVE  TypeInv'
  BY <1>1, CheckStoryType, TablesKept DEF TypeInv, CheckStory, historyVars
<1>2. ASSUME NEW c \in CommentIds, NEW next \in {"rewrite", "erase"}, FindComment(r, c, next)
      PROVE  TypeInv'
  BY <1>2, FindCommentType, TablesKept DEF TypeInv, FindComment, historyVars
<1>3. CASE Post(r)
  BY <1>3, PostType DEF TypeInv, Post, historyVars
<1>4. CASE Rewrite(r)
  BY <1>4, RewriteType DEF TypeInv, Rewrite, historyVars
<1>5. CASE Erase(r)
  BY <1>5, EraseType DEF TypeInv, Erase, historyVars
<1> QED
  BY <1>1, <1>2, <1>3, <1>4, <1>5 DEF CommentStep

LEMMA ListStepType ==
  ASSUME TypeInv, NEW r \in Requests, SprintStep(r) \/ EpicStep(r)
  PROVE  TypeInv'
<1>1. UNCHANGED <<log, historyVars>>
  BY DEF SprintStep, EpicStep, DeleteSprint, CreateSprint, EditSprint,
         DeleteEpic, CreateEpic, EditEpic
<1>2. CASE SprintStep(r)
  BY <1>1, <1>2, SprintType DEF SprintStep, TypeInv, historyVars
<1>3. CASE EpicStep(r)
  BY <1>1, <1>3, EpicType DEF EpicStep, TypeInv, historyVars
<1> QED
  BY <1>2, <1>3

LEMMA StoryStepType ==
  ASSUME TypeInv, NEW r \in Requests, StoryStep(r)
  PROVE  TypeInv'
<1>1. ASSUME NEW s \in Stories, DeleteStory(r, s)
      PROVE  TypeInv'
  BY <1>1, DeleteStoryType DEF TypeInv, DeleteStory, historyVars
<1>2. ASSUME NEW s \in Stories,
             \/ \E p \in Sprints, latest \in BOOLEAN : ResolveSprint(r, s, p, latest)
             \/ \E e \in Epics, named \in BOOLEAN : ResolveEpic(r, s, e, named)
      PROVE  TypeInv'
  <2>1. UNCHANGED <<storyVars, listVars, linkVars, log, used, historyVars>>
    BY <1>2 DEF ResolveSprint, ResolveEpic
  <2>2. LocalsInv'
    BY <1>2, ResolveType
  <2> QED
    BY <2>1, <2>2, TablesKept DEF TypeInv, historyVars
<1>3. CASE InsertStory(r)
  BY <1>3, InsertStoryType DEF TypeInv, InsertStory, historyVars
<1>4. CASE Assign(r)
  BY <1>4, AssignType DEF TypeInv, Assign, historyVars
<1> QED
  BY <1>1, <1>2, <1>3, <1>4 DEF StoryStep

LEMMA StepType == TypeInv /\ [Next]_vars => TypeInv'
<1> SUFFICES ASSUME TypeInv, [Next]_vars PROVE TypeInv'
  OBVIOUS
<1>1. ASSUME NEW r \in Requests, Emit(r) \/ EmitFails(r) \/ Cut(r)
      PROVE  TypeInv'
  <2>1. LocalsInv' /\ log' \subseteq Entry /\ lost' \subseteq Stories
    BY <1>1, LogType
  <2>2. UNCHANGED <<storyVars, listVars, linkVars, used, bypassed>>
    BY <1>1 DEF Emit, EmitFails, Cut, historyVars
  <2> QED
    BY <2>1, <2>2, TablesKept DEF TypeInv
<1>2. CASE UNCHANGED vars
  <2>1. UNCHANGED <<storyVars, listVars, linkVars, log, used, req, historyVars>>
    BY <1>2 DEF vars
  <2> QED
    BY <2>1, TablesKept DEF TypeInv, LocalsInv, historyVars
<1> QED
  BY <1>1, <1>2, RelationStepType, CommentStepType, ListStepType, StoryStepType DEF Next

LEMMA TypeInvariant == Spec => []TypeInv
<1> QED
  BY InitType, StepType, PTL DEF Spec

(* Tables, log and requests are well typed, for any number of requests and
   whatever fails: what a handler resolved is still an id when it is stored,
   and what is logged is an entry. *)
THEOREM TypeCorrect == Spec => []TypeOK
BY TypeInvariant, TypeInvTypes, PTL

-----------------------------------------------------------------------------
(* The catalogue *)

LEMMA InitCatalog == Init => CatalogInv
<1> SUFFICES ASSUME Init PROVE CatalogInv
  OBVIOUS
<1> USE LinksAssumption
<1>1. PICK s \in FirstStories :
        comments = [c \in {"first"} |-> [story |-> s, author |-> Poster, body |-> "first"]]
  BY DEF Init
<1>2. \A c \in DOMAIN comments : comments[c].story \in stories
  BY <1>1 DEF Init
<1>3. \A p \in DOMAIN sprints : sprints[p].start <= sprints[p].end
  BY DEF Init
<1>4. \A e, f \in DOMAIN epics : epics[e] = epics[f] => e = f
  BY DEF Init
<1> QED
  BY <1>2, <1>3, <1>4 DEF Init, CatalogInv, CatalogSound

(* Relations, comments and log refer to stories that are there. *)
LinksSound ==
  /\ \A x \in relations : x[1] # x[2] /\ {x[1], x[2]} \subseteq stories
  /\ \A c \in DOMAIN comments : comments[c].story \in stories
  /\ \A x \in log : x.story \in stories

(* So do the columns of stories to sprints and epics. *)
ColumnsSound ==
  /\ \A s \in stories :
       /\ sprintOf[s] \in DOMAIN sprints \union {None}
       /\ epicOf[s] \in DOMAIN epics \union {None}
  /\ \A s \in Stories \ stories : sprintOf[s] = None /\ epicOf[s] = None

ListsSound ==
  /\ \A p \in DOMAIN sprints : sprints[p].start <= sprints[p].end
  /\ \A e, f \in DOMAIN epics : epics[e] = epics[f] => e = f

LEMMA CatalogParts ==
  CatalogInv <=> LinksSound /\ ColumnsSound /\ ListsSound /\ stories \subseteq used
BY DEF CatalogInv, CatalogSound, LinksSound, ColumnsSound, ListsSound
LEMMA LinksStep ==
  ASSUME TypeInv, LinksSound, NEW r \in Requests,
         \/ RelationStep(r) \/ CommentStep(r) \/ SprintStep(r) \/ EpicStep(r) \/ StoryStep(r)
         \/ Emit(r) \/ EmitFails(r) \/ Cut(r)
  PROVE  LinksSound'
<1>1. CASE UNCHANGED <<stories, linkVars, log>>
  BY <1>1 DEF LinksSound, linkVars
<1>2. CASE RelationStep(r)
  <2>1. UNCHANGED <<stories, comments, log>>
    BY <1>2 DEF RelationStep, CheckEnds, Relate, McpBlock, McpUnblock, Unrelate, storyVars, linkVars
  <2>2. \/ relations' \subseteq relations
        \/ \E s, t \in Stories : MayRelate(s, t) /\ relations' = relations \union {<<s, t>>}
    <3>1. CASE Relate(r)
      <4>1. req[r].story \in Stories /\ req[r].ref \in Stories
        BY <3>1, LocalsFacts DEF Relate, TypeInv, LocalsIn
      <4> QED
        BY <3>1, <4>1 DEF Relate
    <3>2. ASSUME NEW s \in Stories, NEW t \in Stories,
                 CheckEnds(r, s, t) \/ McpUnblock(r, s, t) \/ Unrelate(r, s, t)
          PROVE  relations' \subseteq relations
      BY <3>2 DEF CheckEnds, McpUnblock, Unrelate, linkVars
    <3>3. ASSUME NEW s \in Stories, NEW t \in Stories, McpBlock(r, s, t)
          PROVE  relations' = relations \/ (MayRelate(s, t) /\ relations' = relations \union {<<s, t>>})
      BY <3>3 DEF McpBlock
    <3> QED
      BY <1>2, <3>1, <3>2, <3>3 DEF RelationStep
  <2>3. \A x \in relations' : x[1] # x[2] /\ {x[1], x[2]} \subseteq stories
    <3>1. \A s, t \in Stories : MayRelate(s, t) =>
            <<s, t>>[1] # <<s, t>>[2] /\ {<<s, t>>[1], <<s, t>>[2]} \subseteq stories
      BY DEF MayRelate
    <3> QED
      BY <2>2, <3>1 DEF LinksSound
  <2> QED
    BY <2>1, <2>3 DEF LinksSound
<1>3. CASE CommentStep(r)
  <2>1. UNCHANGED <<stories, relations, log>>
    BY <1>3 DEF CommentStep, CheckStory, FindComment, Post, Rewrite, Erase, storyVars, linkVars
  <2>2. ASSUME NEW c \in DOMAIN comments' PROVE comments'[c].story \in stories
    <3>1. CASE Post(r)
      <4> DEFINE row == [story |-> req[r].story, author |-> Author[r], body |-> r]
      <4>1. comments' = comments \/ (row.story \in stories /\ comments' = With(comments, r, row))
        BY <3>1 DEF Post
      <4> HIDE DEF row
      <4>2. CASE comments' = comments
        BY <2>2, <4>2 DEF LinksSound
      <4>3. CASE row.story \in stories /\ comments' = With(comments, r, row)
        <5>1. (c = r /\ comments'[c] = row) \/ (c \in DOMAIN comments /\ comments'[c] = comments[c])
          BY <2>2, <4>3 DEF With
        <5> QED
          BY <4>3, <5>1 DEF LinksSound
      <4> QED
        BY <4>1, <4>2, <4>3
    <3>2. CASE Rewrite(r)
      <4>1. comments' = comments \/ comments' = [comments EXCEPT ![req[r].ref].body = r]
        BY <3>2 DEF Rewrite
      <4>2. DOMAIN comments' = DOMAIN comments
        BY <4>1
      <4>3. comments[c] \in Comment
        BY <2>2, <4>2 DEF TypeInv, TablesOK
      <4>4. comments'[c].story = comments[c].story
        BY <2>2, <4>1, <4>2, <4>3 DEF Comment
      <4> QED
        BY <2>2, <4>2, <4>4 DEF LinksSound
    <3>3. CASE Erase(r)
      <4>1. comments' = Without(comments, {req[r].ref})
        BY <3>3 DEF Erase
      <4>2. c \in DOMAIN comments /\ comments'[c] = comments[c]
        BY <2>2, <4>1 DEF Without
      <4> QED
        BY <4>2 DEF LinksSound
    <3>4. CASE UNCHANGED comments
      BY <2>2, <3>4 DEF LinksSound
    <3> QED
      BY <1>3, <3>1, <3>2, <3>3, <3>4 DEF CommentStep, CheckStory, FindComment, linkVars
  <2> QED
    BY <2>1, <2>2 DEF LinksSound
<1>4. CASE InsertStory(r)
  BY <1>4 DEF InsertStory, LinksSound, linkVars, storyVars
<1>5. ASSUME NEW s \in Stories, DeleteStory(r, s)
      PROVE  LinksSound'
  <2>1. \A c \in DOMAIN comments' : c \in DOMAIN comments /\ comments[c].story # s
                                    /\ comments'[c] = comments[c]
    BY <1>5 DEF DeleteStory, Without
  <2> QED
    BY <1>5, <2>1 DEF DeleteStory, LinksSound
<1>6. CASE Emit(r)
  <2>1. LocalsIn(req[r], r) /\ req[r].pc = "emit" /\ req[r].owes \in Seq(Entry)
    BY <1>6, LocalsFacts DEF TypeInv, Emit, LocalsIn, RequestState
  <2>2. Head(req[r].owes).story = req[r].story
    BY <2>1 DEF LocalsIn
  <2>3. UNCHANGED <<stories, linkVars>> /\ \A x \in log' : x.story \in stories
    BY <1>6, <2>2 DEF Emit, LinksSound, storyVars
  <2> QED
    BY <2>3 DEF LinksSound, linkVars
<1>7. CASE SprintStep(r) \/ EpicStep(r)
  BY <1>1, <1>7 DEF SprintStep, EpicStep, DeleteSprint, CreateSprint, EditSprint, DeleteEpic,
                    CreateEpic, EditEpic, storyVars
<1>8. CASE StoryStep(r)
  BY <1>1, <1>4, <1>5, <1>8 DEF StoryStep, ResolveSprint, ResolveEpic, Assign, storyVars
<1>9. CASE EmitFails(r) \/ Cut(r)
  BY <1>1, <1>9 DEF EmitFails, Cut, storyVars
<1> QED
  BY <1>2, <1>3, <1>6, <1>7, <1>8, <1>9

(* What keeps a table of a list's names and dates in order. *)
LEMMA ListsStep ==
  ASSUME ListsSound, NEW r \in Requests, SprintStep(r) \/ EpicStep(r)
  PROVE  ListsSound'
<1>1. ASSUME NEW p \in Sprints, DeleteSprint(r, p)
      PROVE  ListsSound'
  <2>1. sprints' = Without(sprints, {p}) /\ epics' = epics
    BY <1>1 DEF DeleteSprint
  <2>2. \A q \in DOMAIN sprints' : q \in DOMAIN sprints /\ sprints'[q] = sprints[q]
    BY <2>1 DEF Without
  <2> QED
    BY <2>1, <2>2 DEF ListsSound
<1>2. ASSUME NEW p \in Sprints, NEW first \in Days, NEW last \in Days, CreateSprint(r, p, first, last)
      PROVE  ListsSound'
  BY <1>2 DEF CreateSprint, ListsSound, With
<1>3. ASSUME NEW p \in Sprints, NEW first \in Days \union {None}, NEW last \in Days \union {None},
             EditSprint(r, p, first, last)
      PROVE  ListsSound'
  <2> DEFINE new == [start |-> Given(first, sprints[p].start),
                     end |-> Given(last, sprints[p].end)]
  <2>1. sprints' = sprints \/ (new.start <= new.end /\ sprints' = With(sprints, p, new))
    BY <1>3 DEF EditSprint
  <2> HIDE DEF new
  <2>2. \A q \in DOMAIN sprints' : sprints'[q].start <= sprints'[q].end
    <3>1. CASE sprints' = sprints
      BY <3>1 DEF ListsSound
    <3>2. CASE new.start <= new.end /\ sprints' = With(sprints, p, new)
      <4>1. \A q \in DOMAIN sprints' :
              sprints'[q] = new \/ (q \in DOMAIN sprints /\ sprints'[q] = sprints[q])
        BY <3>2 DEF With
      <4> QED
        BY <3>2, <4>1 DEF ListsSound
    <3> QED
      BY <2>1, <3>1, <3>2
  <2> QED
    BY <1>3, <2>2 DEF EditSprint, ListsSound
<1>4. ASSUME NEW e \in Epics, DeleteEpic(r, e)
      PROVE  ListsSound'
  <2>1. epics' = Without(epics, {e}) /\ sprints' = sprints
    BY <1>4 DEF DeleteEpic
  <2>2. \A q \in DOMAIN epics' : q \in DOMAIN epics /\ epics'[q] = epics[q]
    BY <2>1 DEF Without
  <2> QED
    BY <2>1, <2>2 DEF ListsSound
<1>5. ASSUME NEW e \in Epics, NEW n \in Names, CreateEpic(r, e, n)
      PROVE  ListsSound'
  BY <1>5 DEF CreateEpic, ListsSound, With, Taken
<1>6. ASSUME NEW e \in Epics, NEW n \in Names \union {None}, EditEpic(r, e, n)
      PROVE  ListsSound'
  <2>1. CASE epics' = epics
    BY <1>6, <2>1 DEF EditEpic, ListsSound
  <2>2. CASE e \in DOMAIN epics /\ ~Taken(n) /\ epics' = Renamed(e, n)
    <3>1. \A f, g \in DOMAIN epics' : epics'[f] = epics'[g] => f = g
      BY <2>2 DEF ListsSound, With, Taken, Renamed, Given
    <3> QED
      BY <1>6, <3>1 DEF EditEpic, ListsSound
  <2> QED
    BY <1>6, <2>1, <2>2 DEF EditEpic
<1> QED
  BY <1>1, <1>2, <1>3, <1>4, <1>5, <1>6 DEF SprintStep, EpicStep

LEMMA PutColumns ==
  ASSUME TypeInv, NEW r \in Requests, req[r].list # "none", Refers(r), NEW s \in Stories,
         Put(r, s), UNCHANGED listVars
  PROVE  /\ \A t \in Stories \ {s} : sprintOf'[t] = sprintOf[t] /\ epicOf'[t] = epicOf[t]
         /\ sprintOf'[s] \in {sprintOf[s]} \union DOMAIN sprints
         /\ epicOf'[s] \in {epicOf[s]} \union DOMAIN epics
<1>1. req[r].list \in {"sprint", "epic"}
  BY LocalsFacts DEF TypeInv, RequestState
<1> QED
  BY <1>1 DEF Put, Refers, TypeInv, TablesOK

LEMMA ColumnsStep ==
  ASSUME TypeInv, ColumnsSound, stories \subseteq used, NEW r \in Requests,
         SprintStep(r) \/ EpicStep(r) \/ StoryStep(r)
  PROVE  ColumnsSound'
<1> USE LinksAssumption
<1>1. ASSUME NEW p \in Sprints, DeleteSprint(r, p)
      PROVE  ColumnsSound'
  <2>1. DOMAIN sprints' = DOMAIN sprints \ {p} /\ UNCHANGED <<stories, epicOf, epics>>
    BY <1>1, WithoutValue DEF DeleteSprint
  <2>2. \A s \in Stories : sprintOf'[s] = IF sprintOf[s] = p THEN None ELSE sprintOf[s]
    BY <1>1 DEF DeleteSprint
  <2> QED
    BY <2>1, <2>2 DEF ColumnsSound, TypeInv, TablesOK
<1>2. ASSUME NEW e \in Epics, DeleteEpic(r, e)
      PROVE  ColumnsSound'
  <2>1. DOMAIN epics' = DOMAIN epics \ {e} /\ UNCHANGED <<stories, sprintOf, sprints>>
    BY <1>2, WithoutValue DEF DeleteEpic
  <2>2. \A s \in Stories : epicOf'[s] = IF epicOf[s] = e THEN None ELSE epicOf[s]
    BY <1>2 DEF DeleteEpic
  <2> QED
    BY <2>1, <2>2 DEF ColumnsSound, TypeInv, TablesOK
<1>3. ASSUME NEW p \in Sprints,
             \/ \E first, last \in Days : CreateSprint(r, p, first, last)
             \/ \E first, last \in Days \union {None} : EditSprint(r, p, first, last)
      PROVE  ColumnsSound'
  <2>1. DOMAIN sprints \subseteq DOMAIN sprints' /\ UNCHANGED <<storyVars, epics>>
    <3>1. \A v : DOMAIN sprints \subseteq DOMAIN With(sprints, p, v)
      BY DEF With
    <3> QED
      BY <1>3, <3>1 DEF CreateSprint, EditSprint
  <2> QED
    BY <2>1 DEF ColumnsSound, storyVars
<1>4. ASSUME NEW e \in Epics,
             \/ \E n \in Names : CreateEpic(r, e, n)
             \/ \E n \in Names \union {None} : EditEpic(r, e, n)
      PROVE  ColumnsSound'
  <2>1. DOMAIN epics \subseteq DOMAIN epics' /\ UNCHANGED <<storyVars, sprints>>
    <3>1. \A v : DOMAIN epics \subseteq DOMAIN With(epics, e, v)
      BY DEF With
    <3> QED
      BY <1>4, <3>1 DEF CreateEpic, EditEpic, Renamed
  <2> QED
    BY <2>1 DEF ColumnsSound, storyVars
<1>5. CASE UNCHANGED <<storyVars, listVars>>
  BY <1>5 DEF ColumnsSound, storyVars, listVars
<1>6. CASE InsertStory(r)
  <2> DEFINE s == req[r].story
  <2>0. s \in Stories /\ req[r].list # "none" /\ UNCHANGED listVars
    BY <1>6, LocalsFacts DEF TypeInv, InsertStory, LocalsIn
  <2>1. CASE Refers(r) /\ s \notin used
    <3>1. Put(r, s) /\ stories' = stories \union {s} /\ s \notin stories
      BY <1>6, <2>1 DEF InsertStory
    <3>2. /\ \A t \in Stories \ {s} : sprintOf'[t] = sprintOf[t] /\ epicOf'[t] = epicOf[t]
          /\ sprintOf'[s] \in {sprintOf[s]} \union DOMAIN sprints
          /\ epicOf'[s] \in {epicOf[s]} \union DOMAIN epics
      BY <2>0, <2>1, <3>1, PutColumns
    <3> QED
      BY <2>0, <3>1, <3>2 DEF ColumnsSound, listVars, TypeInv, TablesOK
  <2>2. CASE ~(Refers(r) /\ s \notin used)
    BY <1>5, <1>6, <2>0, <2>2 DEF InsertStory
  <2> QED
    BY <2>1, <2>2
<1>7. CASE Assign(r)
  <2> DEFINE s == req[r].story
  <2>0. s \in Stories /\ req[r].list # "none" /\ UNCHANGED <<stories, listVars>>
    BY <1>7, LocalsFacts DEF TypeInv, Assign, LocalsIn
  <2>1. CASE Refers(r) /\ s \in stories
    <3>1. Put(r, s)
      BY <1>7, <2>1 DEF Assign
    <3>2. /\ \A t \in Stories \ {s} : sprintOf'[t] = sprintOf[t] /\ epicOf'[t] = epicOf[t]
          /\ sprintOf'[s] \in {sprintOf[s]} \union DOMAIN sprints
          /\ epicOf'[s] \in {epicOf[s]} \union DOMAIN epics
      BY <2>0, <2>1, <3>1, PutColumns
    <3> QED
      BY <2>0, <2>1, <3>2 DEF ColumnsSound, listVars, TypeInv, TablesOK
  <2>2. CASE ~(Refers(r) /\ s \in stories)
    BY <1>5, <1>7, <2>0, <2>2 DEF Assign, storyVars
  <2> QED
    BY <2>1, <2>2
<1>8. ASSUME NEW s \in Stories, DeleteStory(r, s)
      PROVE  ColumnsSound'
  <2>1. /\ stories' = stories \ {s} /\ UNCHANGED listVars
        /\ sprintOf'[s] = None /\ epicOf'[s] = None
        /\ \A t \in Stories \ {s} : sprintOf'[t] = sprintOf[t] /\ epicOf'[t] = epicOf[t]
    BY <1>8 DEF DeleteStory, TypeInv, TablesOK
  <2> QED
    BY <2>1 DEF ColumnsSound, listVars, TypeInv, TablesOK
<1>9. ASSUME NEW s \in Stories,
             \/ \E p \in Sprints, latest \in BOOLEAN : ResolveSprint(r, s, p, latest)
             \/ \E e \in Epics, named \in BOOLEAN : ResolveEpic(r, s, e, named)
      PROVE  ColumnsSound'
  BY <1>5, <1>9 DEF ResolveSprint, ResolveEpic
<1>10. CASE SprintStep(r)
  BY <1>1, <1>3, <1>10 DEF SprintStep
<1>11. CASE EpicStep(r)
  BY <1>2, <1>4, <1>11 DEF EpicStep
<1>12. CASE StoryStep(r)
  BY <1>6, <1>7, <1>8, <1>9, <1>12 DEF StoryStep
<1> QED
  BY <1>10, <1>11, <1>12
LEMMA UsedStep ==
  ASSUME stories \subseteq used, NEW r \in Requests,
         \/ RelationStep(r) \/ CommentStep(r) \/ SprintStep(r) \/ EpicStep(r) \/ StoryStep(r)
         \/ Emit(r) \/ EmitFails(r) \/ Cut(r)
  PROVE  stories' \subseteq used' /\ used \subseteq used' /\ stories' \intersect used \subseteq stories
<1>1. CASE RelationStep(r) \/ CommentStep(r) \/ Emit(r) \/ EmitFails(r) \/ Cut(r)
  BY <1>1 DEF RelationStep, CommentStep, CheckEnds, Relate, McpBlock, McpUnblock, Unrelate,
              CheckStory, FindComment, Post, Rewrite, Erase, Emit, EmitFails, Cut, storyVars
<1>2. CASE SprintStep(r) \/ EpicStep(r)
  BY <1>2 DEF SprintStep, EpicStep, DeleteSprint, CreateSprint, EditSprint, DeleteEpic,
              CreateEpic, EditEpic, storyVars
<1>3. CASE StoryStep(r)
  BY <1>3 DEF StoryStep, DeleteStory, ResolveSprint, ResolveEpic, InsertStory, Assign, storyVars
<1> QED
  BY <1>1, <1>2, <1>3

LEMMA CatalogStep == TypeInv /\ CatalogInv /\ [Next]_vars => CatalogInv'
<1> SUFFICES ASSUME TypeInv, CatalogInv, [Next]_vars PROVE CatalogInv'
  OBVIOUS
<1>0. LinksSound /\ ColumnsSound /\ ListsSound /\ stories \subseteq used
  BY CatalogParts
<1>1. ASSUME NEW r \in Requests,
             \/ RelationStep(r) \/ CommentStep(r) \/ SprintStep(r) \/ EpicStep(r) \/ StoryStep(r)
             \/ Emit(r) \/ EmitFails(r) \/ Cut(r)
      PROVE  CatalogInv'
  <2>1. LinksSound' /\ stories' \subseteq used'
    BY <1>0, <1>1, LinksStep, UsedStep
  <2>2. ColumnsSound' /\ ListsSound'
    <3>1. CASE RelationStep(r) \/ CommentStep(r) \/ Emit(r) \/ EmitFails(r) \/ Cut(r)
      <4>1. UNCHANGED <<storyVars, listVars>>
        BY <3>1 DEF RelationStep, CommentStep, CheckEnds, Relate, McpBlock, McpUnblock, Unrelate,
                    CheckStory, FindComment, Post, Rewrite, Erase, Emit, EmitFails, Cut
      <4> QED
        BY <1>0, <4>1 DEF ColumnsSound, ListsSound, storyVars, listVars
    <3>2. CASE SprintStep(r) \/ EpicStep(r)
      BY <1>0, <3>2, ColumnsStep, ListsStep
    <3>3. CASE StoryStep(r)
      <4>1. UNCHANGED listVars
        BY <3>3 DEF StoryStep, DeleteStory, ResolveSprint, ResolveEpic, InsertStory, Assign
      <4> QED
        BY <1>0, <3>3, <4>1, ColumnsStep DEF ListsSound, listVars
    <3> QED
      BY <1>1, <3>1, <3>2, <3>3
  <2> QED
    BY <2>1, <2>2, CatalogParts DEF CatalogInv, CatalogSound, LinksSound, ColumnsSound, ListsSound
<1>2. CASE UNCHANGED vars
  BY <1>2 DEF vars, storyVars, listVars, linkVars, CatalogInv, CatalogSound
<1> QED
  BY <1>1, <1>2 DEF Next

LEMMA CatalogInvariant == Spec => []CatalogInv
<1> QED
  BY InitCatalog, CatalogStep, TypeInvariant, PTL DEF Spec

(* Nothing refers to what has been deleted, although what a request refers to
   is resolved in one statement and stored in another; a sprint never ends
   before it begins, and no two epics have one name. *)
THEOREM CatalogIsSound == Spec => []CatalogSound
<1>1. CatalogInv => CatalogSound
  BY DEF CatalogInv
<1> QED
  BY <1>1, CatalogInvariant, PTL
-----------------------------------------------------------------------------
(* What a step tells the log *)

LEMMA OwedMembers ==
  LocalsInv => Owed = {req[r].owes[1] : r \in {t \in Requests : req[t].pc = "emit"}}
<1> SUFFICES ASSUME LocalsInv
             PROVE  Owed = {req[r].owes[1] : r \in {t \in Requests : req[t].pc = "emit"}}
  OBVIOUS
<1>1. ASSUME NEW r \in Requests, req[r].pc = "emit"
      PROVE  {req[r].owes[i] : i \in 1 .. Len(req[r].owes)} = {req[r].owes[1]}
  <2>1. Len(req[r].owes) = 1
    BY <1>1, LocalsFacts DEF LocalsIn
  <2> QED
    BY <2>1
<1>2. ASSUME NEW r \in Requests, req[r].pc # "emit"
      PROVE  {req[r].owes[i] : i \in 1 .. Len(req[r].owes)} = {}
  <2>1. req[r].owes = <<>>
    BY <1>2, LocalsFacts DEF LocalsIn
  <2>2. 1 .. Len(<<>>) = {}
    OBVIOUS
  <2> QED
    BY <2>1, <2>2
<1> DEFINE Tells(r) == {req[r].owes[i] : i \in 1 .. Len(req[r].owes)}
<1>3. Owed = UNION {Tells(r) : r \in Requests}
  BY DEF Owed
<1>4. \A r \in Requests : Tells(r) = IF req[r].pc = "emit" THEN {req[r].owes[1]} ELSE {}
  BY <1>1, <1>2
<1> HIDE DEF Tells
<1> QED
  BY <1>3, <1>4

LEMMA OwedIs ==
  ASSUME LocalsInv, NEW x
  PROVE  x \in Owed <=> \E r \in Requests : req[r].pc = "emit" /\ x = req[r].owes[1]
BY OwedMembers

(* An owed entry is its request's. *)
LEMMA OwedEntry ==
  ASSUME LocalsInv, NEW x \in Owed
  PROVE  x \in Entry /\ req[x.by].pc = "emit" /\ x = req[x.by].owes[1]
<1>1. PICK r \in Requests : req[r].pc = "emit" /\ x = req[r].owes[1]
  BY OwedIs
<1>2. LocalsIn(req[r], r) /\ req[r].owes \in Seq(Entry)
  BY LocalsFacts DEF RequestState
<1>3. x \in Entry /\ x.by = r
  BY <1>1, <1>2 DEF LocalsIn
<1> QED
  BY <1>1, <1>3

LEMMA TellingsType == ASSUME TypeInv PROVE Tellings \subseteq Entry
BY OwedEntry DEF Tellings, TypeInv

(* The step of a request concerns the others only through the tables. *)
Moves(r) ==
  /\ req[r].pc # "done"
  /\ req[r].pc = "emit" => req'[r].pc = "done"
  /\ LocalsInv'
  /\ \A t \in Requests : t # r => req'[t] = req[t]

(* A step of r that tells nothing; what it takes back is of a story that is
   gone or for which an entry was lost. *)
Hush(r) ==
  /\ Tellings' \subseteq Tellings
  /\ \A x \in Tellings : x.story \in stories' \ lost' => x \in Tellings'
  /\ \A x \in log' : x \in log \/ (x.by = r /\ req'[r].pc = "done")

(* A step of r that tells x, the only thing r ever tells. *)
Adds(r, x) ==
  /\ req[r].pc \notin {"emit", "done"} /\ req'[r].pc = "emit"
  /\ x \in Entry /\ x.by = r
  /\ Tellings' = Tellings \union {x}
  /\ log' = log

LEMMA OwedAfter ==
  ASSUME LocalsInv', NEW x
  PROVE  x \in Owed' <=> \E r \in Requests : req'[r].pc = "emit" /\ x = req'[r].owes[1]
<1>1. (LocalsInv => Owed = {req[r].owes[1] : r \in {t \in Requests : req[t].pc = "emit"}})'
  BY OwedMembers, PTL
<1> QED
  BY <1>1

LEMMA MovesQuietly ==
  ASSUME LocalsInv, NEW r \in Requests, Moves(r), log' = log,
         req[r].pc # "emit", req'[r].pc # "emit"
  PROVE  Hush(r) /\ Tellings' = Tellings
<1>1. ASSUME NEW x PROVE x \in Owed' <=> x \in Owed
  BY OwedAfter, OwedIs DEF Moves
<1>2. Tellings' = Tellings
  BY <1>1 DEF Tellings
<1> QED
  BY <1>2 DEF Hush

LEMMA MovesTelling ==
  ASSUME TypeInv, NEW r \in Requests, log' = log, req[r].pc \notin {"emit", "done"},
         NEW s \in Stories, NEW kind \in Kinds, NEW ref \in Stories \union CommentIds,
         Become(r, Owing(r, s, kind, ref))
  PROVE  Moves(r) /\ Adds(r, [by |-> r, story |-> s, kind |-> kind, ref |-> ref])
<1> DEFINE e == [by |-> r, story |-> s, kind |-> kind, ref |-> ref]
<1>1. LocalsInv
  BY DEF TypeInv
<1>2. LocalsInv' /\ req'[r].pc = "emit" /\ req'[r].owes = <<e>>
      /\ \A t \in Requests : t # r => req'[t] = req[t]
  BY <1>1, Owes
<1>3. Moves(r)
  BY <1>2 DEF Moves
<1>4. e \in Entry /\ e.by = r
  BY DEF Entry
<1> HIDE DEF e
<1>5. req'[r].owes[1] = e
  BY <1>2
<1>6. ASSUME NEW x PROVE x \in Owed' <=> (x \in Owed \/ x = e)
  BY <1>1, <1>2, <1>5, OwedAfter, OwedIs
<1>7. Tellings' = Tellings \union {e}
  BY <1>6 DEF Tellings
<1>8. Adds(r, e)
  BY <1>2, <1>4, <1>7 DEF Adds
<1> QED
  BY <1>3, <1>8 DEF e

LEMMA FinishMoves ==
  ASSUME LocalsInv, NEW r \in Requests, Finish(r), req[r].pc # "done"
  PROVE  Moves(r) /\ req'[r].pc = "done"
BY Finished DEF Moves

(* A request that steps on, or ends, without telling anything. *)
LEMMA FinishHush ==
  ASSUME TypeInv, NEW r \in Requests, Finish(r), req[r].pc \notin {"emit", "done"}, log' = log
  PROVE  Moves(r) /\ Hush(r) /\ Tellings' = Tellings /\ req'[r].pc = "done"
BY FinishMoves, MovesQuietly DEF TypeInv

(* What is owed when request r, which owed x, is done. *)
LEMMA OwedWithout ==
  ASSUME LocalsInv, NEW r \in Requests, Finish(r), req[r].pc = "emit", NEW x
  PROVE  x \in Owed' <=> (x \in Owed /\ x # req[r].owes[1])
<1>1. LocalsInv' /\ req'[r].pc = "done" /\ \A t \in Requests : t # r => req'[t] = req[t]
  BY Finished
<1>2. ASSUME NEW t \in Requests, t # r, req[t].pc = "emit"
      PROVE  req[t].owes[1] # req[r].owes[1]
  BY <1>2, LocalsFacts DEF LocalsIn
<1> QED
  BY <1>1, <1>2, OwedAfter, OwedIs

LEMMA LogMoves ==
  ASSUME TypeInv, NEW r \in Requests, Emit(r) \/ EmitFails(r) \/ Cut(r)
  PROVE  Moves(r) /\ Hush(r) /\ UNCHANGED <<storyVars, listVars, linkVars, used, bypassed>>
                  /\ req'[r].pc = "done"
<1>0. LocalsInv /\ req[r].pc # "done" /\ Finish(r)
  BY DEF TypeInv, Emit, EmitFails, Cut
<1>1. Moves(r) /\ req'[r].pc = "done"
  BY <1>0, FinishMoves
<1>2. UNCHANGED <<storyVars, listVars, linkVars, used, bypassed>>
  BY DEF Emit, EmitFails, Cut, historyVars
<1>3. CASE req[r].pc = "emit"
  <2> DEFINE e == req[r].owes[1]
  <2>1. /\ e.by = r /\ e.story = req[r].story /\ e \in Owed
        /\ Len(req[r].owes) = 1 /\ req[r].owes \in Seq(Entry)
    BY <1>0, <1>3, LocalsFacts, OwedIs DEF LocalsIn, RequestState
  <2>2. Head(req[r].owes) = e /\ req[r].owes # <<>>
    BY <2>1
  <2>3. \/ log' = log \union {e}
        \/ log' = log /\ e.story \notin stories' \ lost'
    BY <1>3, <2>1, <2>2 DEF Emit, EmitFails, Cut, storyVars
  <2>4. \A x : x \in Owed' <=> (x \in Owed /\ x # e)
    BY <1>0, <1>3, OwedWithout
  <2> HIDE DEF e
  <2>5. Hush(r)
    BY <1>1, <2>1, <2>3, <2>4 DEF Hush, Tellings
  <2> QED
    BY <1>1, <1>2, <2>5
<1>4. CASE req[r].pc # "emit"
  <2>1. log' = log
    BY <1>4 DEF Emit, EmitFails, Cut
  <2> QED
    BY <1>0, <1>1, <1>2, <1>4, <2>1, MovesQuietly
<1> QED
  BY <1>3, <1>4
LEMMA BecomeMoves ==
  ASSUME TypeInv, NEW r \in Requests, NEW q, Become(r, q), LocalsInv',
         req[r].pc \notin {"emit", "done"}, q.pc # "emit", log' = log
  PROVE  Moves(r) /\ Hush(r) /\ Tellings' = Tellings /\ req'[r] = q
<1>1. LocalsInv
  BY DEF TypeInv
<1>2. req'[r] = q /\ \A t \in Requests : t # r => req'[t] = req[t]
  BY <1>1, BecomeLocals
<1>3. Moves(r)
  BY <1>2 DEF Moves
<1> QED
  BY <1>1, <1>2, <1>3, MovesQuietly

(* The entry of request r. *)
EntryOf(r, s, kind, ref) == [by |-> r, story |-> s, kind |-> kind, ref |-> ref]

(* What a step about relations does: nothing the log must know; a row more; a
   row less. *)
RelationStill(r) ==
  /\ Moves(r) /\ UNCHANGED <<stories, comments, used, lost, log>>
  /\ bypassed \subseteq bypassed'
  /\ req'[r].pc \in {"relate", "emit", "done"}

RelationQuiet(r) ==
  /\ Hush(r) /\ Tellings' = Tellings
  /\ \A x \in Pairs : x \in bypassed' \/ (x \in relations' <=> x \in relations)

Related(r, s, t) ==
  /\ Adds(r, EntryOf(r, s, "added", t)) /\ MayRelate(s, t)
  /\ relations' = relations \union {<<s, t>>} /\ UNCHANGED bypassed

Unrelated(r, s, t) ==
  /\ Adds(r, EntryOf(r, s, "removed", t)) /\ <<s, t>> \in relations
  /\ relations' = relations \ {<<s, t>>} /\ UNCHANGED bypassed

RelationEffect(r) ==
  /\ RelationStill(r)
  /\ RelationQuiet(r) \/ \E s, t \in Stories : Related(r, s, t) \/ Unrelated(r, s, t)

LEMMA RelationTells ==
  ASSUME TypeInv, NEW r \in Requests, RelationStep(r)
  PROVE  RelationEffect(r)
<1>1. ASSUME NEW s \in Stories, NEW t \in Stories, CheckEnds(r, s, t)
      PROVE  RelationEffect(r)
  <2>0. UNCHANGED <<stories, comments, used, lost, log, relations, bypassed>> /\ req[r].pc = "new"
    BY <1>1 DEF CheckEnds, storyVars, linkVars, historyVars
  <2>1. CASE Finish(r)
    BY <2>0, <2>1, FinishHush DEF RelationEffect, RelationStill, RelationQuiet
  <2>2. CASE ~Finish(r)
    <3> DEFINE q == [req[r] EXCEPT !.pc = "relate", !.story = s, !.ref = t]
    <3>1. Become(r, q)
      BY <1>1, <2>2 DEF CheckEnds
    <3>2. q.pc = "relate"
      BY LocalsFacts DEF TypeInv, RequestState
    <3>3. LocalsInv'
      BY <1>1, CheckEndsType
    <3> HIDE DEF q
    <3> QED
      BY <2>0, <3>1, <3>2, <3>3, BecomeMoves DEF RelationEffect, RelationStill, RelationQuiet
  <2> QED
    BY <2>1, <2>2
<1>2. CASE Relate(r)
  <2> DEFINE s == req[r].story
             t == req[r].ref
  <2>0. /\ UNCHANGED <<stories, comments, used, lost, log, bypassed>> /\ req[r].pc = "relate"
        /\ s \in Stories /\ t \in Stories
    BY <1>2, LocalsFacts DEF Relate, storyVars, historyVars, TypeInv, LocalsIn
  <2>1. CASE MayRelate(s, t)
    <3>1. relations' = relations \union {<<s, t>>} /\ Become(r, Owing(r, s, "added", t))
      BY <1>2, <2>1 DEF Relate
    <3>2. Moves(r) /\ Adds(r, EntryOf(r, s, "added", t))
      BY <2>0, <3>1, MovesTelling DEF Kinds, EntryOf
    <3>3. req'[r].pc = "emit"
      BY <3>2 DEF Adds
    <3>4. Related(r, s, t)
      BY <2>0, <2>1, <3>1, <3>2 DEF Related
    <3> HIDE DEF s, t
    <3> QED
      BY <2>0, <3>2, <3>3, <3>4 DEF RelationEffect, RelationStill
  <2>2. CASE ~MayRelate(s, t)
    <3>1. Finish(r) /\ UNCHANGED relations
      BY <1>2, <2>2 DEF Relate
    <3> QED
      BY <2>0, <3>1, FinishHush DEF RelationEffect, RelationStill, RelationQuiet
  <2> QED
    BY <2>1, <2>2
<1>3. ASSUME NEW s \in Stories, NEW t \in Stories, McpBlock(r, s, t) \/ McpUnblock(r, s, t)
      PROVE  RelationEffect(r)
  <2>1. UNCHANGED <<stories, comments, used, lost, log>> /\ Finish(r) /\ req[r].pc = "new"
    BY <1>3 DEF McpBlock, McpUnblock, storyVars
  <2>2. /\ bypassed \subseteq bypassed'
        /\ \A x \in Pairs : x \in bypassed' \/ (x \in relations' <=> x \in relations)
    BY <1>3 DEF McpBlock, McpUnblock
  <2> QED
    BY <2>1, <2>2, FinishHush DEF RelationEffect, RelationStill, RelationQuiet
<1>4. ASSUME NEW s \in Stories, NEW t \in Stories, Unrelate(r, s, t)
      PROVE  RelationEffect(r)
  <2>0. UNCHANGED <<stories, comments, used, lost, log, bypassed>> /\ req[r].pc = "new"
    BY <1>4 DEF Unrelate, storyVars, historyVars
  <2>1. CASE <<s, t>> \in relations
    <3>1. relations' = relations \ {<<s, t>>} /\ Become(r, Owing(r, s, "removed", t))
      BY <1>4, <2>1 DEF Unrelate
    <3>2. Moves(r) /\ Adds(r, EntryOf(r, s, "removed", t))
      BY <2>0, <3>1, MovesTelling DEF Kinds, EntryOf
    <3>3. req'[r].pc = "emit"
      BY <3>2 DEF Adds
    <3>4. Unrelated(r, s, t)
      BY <2>0, <2>1, <3>1, <3>2 DEF Unrelated
    <3> QED
      BY <2>0, <3>2, <3>3, <3>4 DEF RelationEffect, RelationStill
  <2>2. CASE <<s, t>> \notin relations
    <3>1. Finish(r) /\ relations' = relations
      BY <1>4, <2>2 DEF Unrelate
    <3> QED
      BY <2>0, <3>1, FinishHush DEF RelationEffect, RelationStill, RelationQuiet
  <2> QED
    BY <2>1, <2>2
<1> QED
  BY <1>1, <1>2, <1>3, <1>4 DEF RelationStep

(* What a step about comments does: it finds something or gives up; it posts,
   edits or deletes. *)
CommentStill(r) == Moves(r) /\ UNCHANGED <<stories, relations, used, lost, bypassed, log>>

CommentQuiet(r) ==
  /\ Hush(r) /\ Tellings' = Tellings /\ UNCHANGED comments
  /\ \/ req'[r].pc = "done"
     \/ req'[r].pc = "post" /\ req'[r].story \in stories
     \/ \E c \in DOMAIN comments :
          /\ req'[r].pc \in {"rewrite", "erase"}
          /\ req'[r].ref = c /\ req'[r].story = comments[c].story

Posted(r, s) ==
  /\ Adds(r, EntryOf(r, s, "posted", r)) /\ s \in stories /\ req[r].pc = "post"
  /\ DOMAIN comments' = DOMAIN comments \union {r} /\ comments'[r].story = s
  /\ \A c \in DOMAIN comments \ {r} : comments'[c] = comments[c]

Edited(r, s, c) ==
  /\ Adds(r, EntryOf(r, s, "edited", c))
  /\ req[r].pc = "rewrite" /\ req[r].story = s /\ req[r].ref = c
  /\ DOMAIN comments' = DOMAIN comments
  /\ \A d \in DOMAIN comments : comments'[d].story = comments[d].story

Deleted(r, s, c) ==
  /\ Adds(r, EntryOf(r, s, "deleted", c))
  /\ req[r].pc = "erase" /\ req[r].story = s /\ req[r].ref = c
  /\ DOMAIN comments' = DOMAIN comments \ {c}
  /\ \A d \in DOMAIN comments' : comments'[d] = comments[d]

CommentEffect(r) ==
  /\ CommentStill(r)
  /\ \/ CommentQuiet(r)
     \/ \E s \in Stories : Posted(r, s)
     \/ \E s \in Stories, c \in CommentIds : Edited(r, s, c) \/ Deleted(r, s, c)

LEMMA CommentTells ==
  ASSUME TypeInv, NEW r \in Requests, CommentStep(r)
  PROVE  CommentEffect(r)
<1>0. UNCHANGED <<stories, relations, used, lost, bypassed, log>> /\ req[r].pc \notin {"emit", "done"}
  BY DEF CommentStep, CheckStory, FindComment, Post, Rewrite, Erase, storyVars, linkVars, historyVars
<1>f. Finish(r) /\ UNCHANGED comments => CommentEffect(r)
  BY <1>0, FinishHush DEF CommentEffect, CommentStill, CommentQuiet
<1>1. ASSUME NEW s \in Stories, CheckStory(r, s)
      PROVE  CommentEffect(r)
  <2>0. UNCHANGED comments
    BY <1>1 DEF CheckStory, linkVars
  <2>1. CASE s \in stories
    <3> DEFINE q == [req[r] EXCEPT !.pc = "post", !.story = s]
    <3>1. Become(r, q)
      BY <1>1, <2>1 DEF CheckStory
    <3>2. q.pc = "post" /\ q.story = s
      BY LocalsFacts DEF TypeInv, RequestState
    <3>3. LocalsInv'
      BY <1>1, CheckStoryType
    <3> HIDE DEF q
    <3> QED
      BY <1>0, <2>0, <2>1, <3>1, <3>2, <3>3, BecomeMoves
         DEF CommentEffect, CommentStill, CommentQuiet
  <2> QED
    BY <1>1, <1>f, <2>0, <2>1 DEF CheckStory
<1>2. ASSUME NEW c \in CommentIds, NEW next \in {"rewrite", "erase"}, FindComment(r, c, next)
      PROVE  CommentEffect(r)
  <2>0. UNCHANGED comments
    BY <1>2 DEF FindComment, linkVars
  <2>1. CASE ~Finish(r)
    <3> DEFINE s == comments[c].story
               q == [req[r] EXCEPT !.pc = next, !.story = s, !.ref = c]
    <3>1. Become(r, q) /\ c \in DOMAIN comments
      BY <1>2, <2>1 DEF FindComment
    <3> HIDE DEF s
    <3>2. q.pc = next /\ q.story = s /\ q.ref = c
      BY LocalsFacts DEF TypeInv, RequestState
    <3>3. LocalsInv'
      BY <1>2, FindCommentType
    <3> HIDE DEF q
    <3>4. CommentStill(r) /\ Hush(r) /\ Tellings' = Tellings /\ req'[r] = q
      BY <1>0, <3>1, <3>2, <3>3, BecomeMoves DEF CommentStill
    <3> QED
      BY <2>0, <3>1, <3>2, <3>4 DEF s, CommentEffect, CommentQuiet
  <2> QED
    BY <1>f, <2>0, <2>1
<1>3. CASE Post(r)
  <2> DEFINE s == req[r].story
             row == [story |-> s, author |-> Author[r], body |-> r]
  <2>0. req[r].pc = "post" /\ s \in Stories /\ r \in CommentIds
    BY <1>3, LocalsFacts DEF Post, TypeInv, LocalsIn, CommentIds
  <2>1. CASE s \in stories
    <3>1. comments' = With(comments, r, row) /\ Become(r, Owing(r, s, "posted", r)) /\ row.story = s
      BY <1>3, <2>1 DEF Post
    <3>2. Moves(r) /\ Adds(r, EntryOf(r, s, "posted", r))
      BY <1>0, <2>0, <3>1, MovesTelling DEF Kinds, EntryOf
    <3> HIDE DEF s, row
    <3>3. /\ DOMAIN comments' = DOMAIN comments \union {r} /\ comments'[r] = row
          /\ \A c \in DOMAIN comments \ {r} : comments'[c] = comments[c]
      BY <3>1 DEF With
    <3>4. Posted(r, s)
      BY <2>0, <2>1, <3>1, <3>2, <3>3 DEF Posted
    <3> QED
      BY <1>0, <2>0, <3>2, <3>4 DEF CommentEffect, CommentStill
  <2>2. CASE s \notin stories
    BY <1>3, <1>f, <2>2 DEF Post
  <2> QED
    BY <2>1, <2>2
<1>4. CASE Rewrite(r)
  <2> DEFINE s == req[r].story
             c == req[r].ref
  <2>0. req[r].pc = "rewrite" /\ s \in Stories /\ c \in CommentIds
    BY <1>4, LocalsFacts DEF Rewrite, TypeInv, LocalsIn
  <2>1. CASE c \in DOMAIN comments
    <3>1. comments' = [comments EXCEPT ![c].body = r] /\ Become(r, Owing(r, s, "edited", c))
      BY <1>4, <2>1 DEF Rewrite
    <3>2. Moves(r) /\ Adds(r, EntryOf(r, s, "edited", c))
      BY <1>0, <2>0, <3>1, MovesTelling DEF Kinds, EntryOf
    <3>3. \A d \in DOMAIN comments : comments[d] \in Comment
      BY DEF TypeInv, TablesOK
    <3>5. req[r].story = s /\ req[r].ref = c
      OBVIOUS
    <3> HIDE DEF s, c
    <3>4. /\ DOMAIN comments' = DOMAIN comments
          /\ \A d \in DOMAIN comments : comments'[d].story = comments[d].story
      BY <3>1, <3>3 DEF Comment
    <3>6. Edited(r, s, c)
      BY <2>0, <3>2, <3>4, <3>5 DEF Edited
    <3> QED
      BY <1>0, <2>0, <3>2, <3>6 DEF CommentEffect, CommentStill
  <2>2. CASE c \notin DOMAIN comments
    BY <1>4, <1>f, <2>2 DEF Rewrite
  <2> QED
    BY <2>1, <2>2
<1>5. CASE Erase(r)
  <2> DEFINE s == req[r].story
             c == req[r].ref
  <2>0. req[r].pc = "erase" /\ s \in Stories /\ c \in CommentIds /\ req[r].story = s /\ req[r].ref = c
    BY <1>5, LocalsFacts DEF Erase, TypeInv, LocalsIn
  <2>1. comments' = Without(comments, {c}) /\ Become(r, Owing(r, s, "deleted", c))
    BY <1>5 DEF Erase
  <2>2. Moves(r) /\ Adds(r, EntryOf(r, s, "deleted", c))
    BY <1>0, <2>0, <2>1, MovesTelling DEF Kinds, EntryOf
  <2> HIDE DEF s, c
  <2>3. /\ DOMAIN comments' = DOMAIN comments \ {c}
        /\ \A d \in DOMAIN comments' : comments'[d] = comments[d]
    BY <2>1 DEF Without
  <2>4. Deleted(r, s, c)
    BY <2>0, <2>2, <2>3 DEF Deleted
  <2> QED
    BY <1>0, <2>0, <2>2, <2>4 DEF CommentEffect, CommentStill
<1> QED
  BY <1>1, <1>2, <1>3, <1>4, <1>5 DEF CommentStep
(* Steps about sprints and epics, and the last of a request, tell nothing. *)
LEMMA ListTells ==
  ASSUME TypeInv, NEW r \in Requests, SprintStep(r) \/ EpicStep(r)
  PROVE  /\ Moves(r) /\ Hush(r) /\ req'[r].pc = "done"
         /\ UNCHANGED <<stories, linkVars, log, historyVars>> /\ used \subseteq used'
<1>1. /\ Finish(r) /\ req[r].pc = "new"
      /\ UNCHANGED <<stories, linkVars, log, historyVars>> /\ used \subseteq used'
  BY DEF SprintStep, EpicStep, DeleteSprint, CreateSprint, EditSprint, DeleteEpic,
         CreateEpic, EditEpic, storyVars
<1> QED
  BY <1>1, FinishHush

(* A story goes, and with it all that hangs on it. *)
Cascade(s) ==
  /\ stories' = stories \ {s} /\ used' = used
  /\ \A x \in relations : x \in relations' <=> s \notin {x[1], x[2]}
  /\ relations' \subseteq relations
  /\ DOMAIN comments' = {c \in DOMAIN comments : comments[c].story # s}
  /\ \A c \in DOMAIN comments' : comments'[c] = comments[c]

(* A story comes, under a new id. *)
Birth(s) ==
  /\ stories' = stories \union {s} /\ s \notin used /\ used \subseteq used'
  /\ UNCHANGED linkVars

StoryEffect(r) ==
  /\ Moves(r) /\ Hush(r) /\ req'[r].pc \in {"insert", "assign", "done"}
  /\ UNCHANGED historyVars
  /\ \/ \E s \in Stories : Cascade(s) \/ Birth(s)
     \/ UNCHANGED <<stories, linkVars, used>>

LEMMA StoryTells ==
  ASSUME TypeInv, NEW r \in Requests, StoryStep(r)
  PROVE  StoryEffect(r)
<1>0. UNCHANGED historyVars /\ LocalsInv
  BY DEF StoryStep, DeleteStory, ResolveSprint, ResolveEpic, InsertStory, Assign, TypeInv
<1>1. ASSUME NEW s \in Stories, DeleteStory(r, s)
      PROVE  StoryEffect(r)
  <2> DEFINE X == {c \in DOMAIN comments : comments[c].story = s}
  <2>1. /\ Finish(r) /\ req[r].pc = "new" /\ stories' = stories \ {s} /\ used' = used
        /\ comments' = Without(comments, X) /\ log' = {x \in log : x.story # s}
        /\ relations' = {x \in relations : s \notin {x[1], x[2]}}
    BY <1>1 DEF DeleteStory
  <2>2. Moves(r) /\ req'[r].pc = "done"
    BY <1>0, <2>1, FinishMoves
  <2>3. \A x : x \in Owed' <=> x \in Owed
    BY <1>0, <2>1, <2>2, OwedAfter, OwedIs DEF Moves
  <2>4. Hush(r)
    BY <2>1, <2>3 DEF Hush, Tellings
  <2>5. /\ DOMAIN comments' = {c \in DOMAIN comments : comments[c].story # s}
        /\ \A c \in DOMAIN comments' : comments'[c] = comments[c]
    BY <2>1 DEF Without
  <2> HIDE DEF X
  <2>6. Cascade(s)
    BY <2>1, <2>5 DEF Cascade
  <2> QED
    BY <1>0, <2>2, <2>4, <2>6 DEF StoryEffect
<1>2. ASSUME NEW s \in Stories,
             \/ \E p \in Sprints, latest \in BOOLEAN : ResolveSprint(r, s, p, latest)
             \/ \E e \in Epics, named \in BOOLEAN : ResolveEpic(r, s, e, named)
      PROVE  StoryEffect(r)
  <2>1. LocalsInv'
    BY <1>2, ResolveType
  <2>2. UNCHANGED <<stories, linkVars, used, log>> /\ req[r].pc = "new"
    BY <1>2 DEF ResolveSprint, ResolveEpic, storyVars
  <2>3. PICK list \in {"sprint", "epic"}, id \in Sprints \union Epics,
             pc \in {"assign", "insert"} :
          Become(r, [req[r] EXCEPT !.story = s, !.list = list, !.id = id, !.pc = pc])
    BY <1>2 DEF ResolveSprint, ResolveEpic
  <2> DEFINE q == [req[r] EXCEPT !.story = s, !.list = list, !.id = id, !.pc = pc]
  <2>4. q.pc = pc /\ Become(r, q)
    BY <1>0, <2>3, LocalsFacts DEF RequestState
  <2> HIDE DEF q
  <2>5. Moves(r) /\ Hush(r) /\ req'[r] = q
    BY <2>1, <2>2, <2>4, BecomeMoves
  <2> QED
    BY <1>0, <2>2, <2>4, <2>5 DEF StoryEffect
<1>3. CASE InsertStory(r)
  <2>1. Finish(r) /\ req[r].pc = "insert" /\ UNCHANGED <<linkVars, log>>
    BY <1>3 DEF InsertStory
  <2>2. Moves(r) /\ Hush(r) /\ req'[r].pc = "done" /\ req[r].story \in Stories
    BY <1>0, <2>1, FinishHush, LocalsFacts DEF LocalsIn
  <2>3. UNCHANGED <<stories, used>> \/ Birth(req[r].story)
    BY <1>3 DEF InsertStory, Birth, storyVars
  <2> QED
    BY <1>0, <2>1, <2>2, <2>3 DEF StoryEffect
<1>4. CASE Assign(r)
  <2>1. Finish(r) /\ req[r].pc = "assign" /\ UNCHANGED <<stories, used, linkVars, log>>
    BY <1>4 DEF Assign
  <2> QED
    BY <1>0, <2>1, FinishHush DEF StoryEffect
<1> QED
  BY <1>1, <1>2, <1>3, <1>4 DEF StoryStep

-----------------------------------------------------------------------------
(* Entries *)

LEMMA InitTellings == Init => Tellings = {}
<1> SUFFICES ASSUME Init PROVE Tellings = {}
  OBVIOUS
<1>1. LocalsInv
  BY InitType DEF TypeInv
<1>2. \A r \in Requests : req[r].pc = "new"
  BY DEF Init, Fresh
<1>3. Owed = {}
  BY <1>1, <1>2, OwedIs
<1> QED
  BY <1>3 DEF Tellings, Init

LEMMA InitEntries == Init => EntriesInv
<1> SUFFICES ASSUME Init PROVE EntriesInv
  OBVIOUS
<1>1. Tellings = {} /\ log = {} /\ \A r \in Requests : req[r].pc = "new"
  BY InitTellings DEF Init, Fresh
<1> QED
  BY <1>1, FS_EmptySet DEF EntriesInv

(* What an entry says, apart from when its request was done. *)
Founded(x) ==
  /\ x.story \in used
  /\ x.kind \in {"added", "removed"} => x.ref \in used

(* The story a request is about to tell of has an id that was given. *)
Ready(r) == req[r].pc \in {"post", "rewrite", "erase"} => req[r].story \in used

LEMMA HushEntries ==
  ASSUME TypeInv, EntriesInv, NEW r \in Requests, Moves(r), Hush(r), used \subseteq used', Ready(r)'
  PROVE  EntriesInv'
<1>1. IsFiniteSet(Tellings)'
  BY FS_Subset DEF EntriesInv, Hush
<1>2. ASSUME NEW x \in log' PROVE req'[x.by].pc = "done"
  <2>1. CASE x \in log
    <3>1. x.by \in Requests /\ req[x.by].pc = "done"
      BY <2>1 DEF EntriesInv, TypeInv, Entry
    <3> QED
      BY <3>1 DEF Moves
  <2> QED
    BY <1>2, <2>1 DEF Hush
<1>3. \A x \in Tellings' : x.story \in used' /\ (x.kind \in {"added", "removed"} => x.ref \in used')
  BY DEF EntriesInv, Hush
<1>4. \A t \in Requests : Ready(t)'
  BY DEF EntriesInv, Moves, Ready
<1> QED
  BY <1>1, <1>2, <1>3, <1>4 DEF EntriesInv, Ready

LEMMA AddsEntries ==
  ASSUME TypeInv, EntriesInv, NEW r \in Requests, NEW x, Moves(r), Adds(r, x), used' = used, Founded(x)
  PROVE  EntriesInv'
<1>1. IsFiniteSet(Tellings)'
  BY FS_AddElement DEF EntriesInv, Adds
<1>2. ASSUME NEW y \in log' PROVE req'[y.by].pc = "done"
  <2>1. y.by \in Requests /\ req[y.by].pc = "done"
    BY <1>2 DEF EntriesInv, TypeInv, Entry, Adds
  <2> QED
    BY <2>1 DEF Moves
<1>3. \A y \in Tellings' : y.story \in used' /\ (y.kind \in {"added", "removed"} => y.ref \in used')
  BY DEF EntriesInv, Adds, Founded
<1>4. \A t \in Requests : Ready(t)'
  BY DEF EntriesInv, Moves, Ready, Adds
<1> QED
  BY <1>1, <1>2, <1>3, <1>4 DEF EntriesInv, Ready

LEMMA EntryFields ==
  ASSUME NEW r, NEW s, NEW kind, NEW ref
  PROVE  /\ EntryOf(r, s, kind, ref).by = r /\ EntryOf(r, s, kind, ref).story = s
         /\ EntryOf(r, s, kind, ref).kind = kind /\ EntryOf(r, s, kind, ref).ref = ref
BY DEF EntryOf

LEMMA EntriesStep == TypeInv /\ CatalogInv /\ EntriesInv /\ [Next]_vars => EntriesInv'
<1> SUFFICES ASSUME TypeInv, CatalogInv, EntriesInv, [Next]_vars PROVE EntriesInv'
  OBVIOUS
<1>1. ASSUME NEW r \in Requests, RelationStep(r) PROVE EntriesInv'
  <2>1. RelationStill(r) /\ (RelationQuiet(r) \/ \E s, t \in Stories : Related(r, s, t) \/ Unrelated(r, s, t))
    BY <1>1, RelationTells DEF RelationEffect
  <2>2. CASE RelationQuiet(r)
    <3>1. Ready(r)'
      BY <2>1 DEF RelationStill, Ready
    <3> QED
      BY <2>1, <2>2, <3>1, HushEntries DEF RelationStill, RelationQuiet
  <2>3. ASSUME NEW s \in Stories, NEW t \in Stories, Related(r, s, t) PROVE EntriesInv'
    <3>1. s \in used /\ t \in used
      BY <2>3 DEF Related, MayRelate, CatalogInv
    <3> QED
      BY <2>1, <2>3, <3>1, EntryFields, AddsEntries DEF RelationStill, Related, Founded
  <2>4. ASSUME NEW s \in Stories, NEW t \in Stories, Unrelated(r, s, t) PROVE EntriesInv'
    <3>1. {<<s, t>>[1], <<s, t>>[2]} \subseteq stories
      BY <2>4 DEF Unrelated, CatalogInv, CatalogSound
    <3>2. s \in used /\ t \in used
      BY <3>1 DEF CatalogInv
    <3> QED
      BY <2>1, <2>4, <3>2, EntryFields, AddsEntries DEF RelationStill, Unrelated, Founded
  <2> QED
    BY <2>1, <2>2, <2>3, <2>4
<1>2. ASSUME NEW r \in Requests, CommentStep(r) PROVE EntriesInv'
  <2>1. /\ CommentStill(r)
        /\ \/ CommentQuiet(r)
           \/ \E s \in Stories : Posted(r, s)
           \/ \E s \in Stories, c \in CommentIds : Edited(r, s, c) \/ Deleted(r, s, c)
    BY <1>2, CommentTells DEF CommentEffect
  <2>2. CASE CommentQuiet(r)
    <3>1. Ready(r)'
      BY <2>1, <2>2 DEF CommentStill, CommentQuiet, Ready, CatalogInv, CatalogSound
    <3> QED
      BY <2>1, <2>2, <3>1, HushEntries DEF CommentStill, CommentQuiet
  <2>3. ASSUME NEW s \in Stories, Posted(r, s) PROVE EntriesInv'
    <3>1. s \in used
      BY <2>3 DEF Posted, CatalogInv
    <3> QED
      BY <2>1, <2>3, <3>1, EntryFields, AddsEntries DEF CommentStill, Posted, Founded
  <2>4. ASSUME NEW s \in Stories, NEW c \in CommentIds, Edited(r, s, c) \/ Deleted(r, s, c)
        PROVE  EntriesInv'
    <3>1. s \in used
      BY <2>4 DEF Edited, Deleted, EntriesInv
    <3>2. PICK kind \in {"edited", "deleted"} : Adds(r, EntryOf(r, s, kind, c))
      BY <2>4 DEF Edited, Deleted
    <3> QED
      BY <2>1, <3>1, <3>2, EntryFields, AddsEntries DEF CommentStill, Founded
  <2> QED
    BY <2>1, <2>2, <2>3, <2>4
<1>3. ASSUME NEW r \in Requests,
             SprintStep(r) \/ EpicStep(r) \/ Emit(r) \/ EmitFails(r) \/ Cut(r)
      PROVE  EntriesInv'
  <2>1. Moves(r) /\ Hush(r) /\ used \subseteq used' /\ req'[r].pc = "done"
    BY <1>3, ListTells, LogMoves
  <2> QED
    BY <2>1, HushEntries DEF Ready
<1>4. ASSUME NEW r \in Requests, StoryStep(r) PROVE EntriesInv'
  <2>1. Moves(r) /\ Hush(r) /\ req'[r].pc \in {"insert", "assign", "done"} /\ used \subseteq used'
    BY <1>4, StoryTells DEF StoryEffect, Cascade, Birth
  <2> QED
    BY <2>1, HushEntries DEF Ready
<1>5. CASE UNCHANGED vars
  BY <1>5 DEF vars, EntriesInv, Tellings, Owed
<1> QED
  BY <1>1, <1>2, <1>3, <1>4, <1>5 DEF Next

LEMMA EntriesInvariant == Spec => []EntriesInv
<1> QED
  BY InitEntries, EntriesStep, TypeInvariant, CatalogInvariant, PTL DEF Spec
(* A request's first and only entry is new. *)
LEMMA AddsNew ==
  ASSUME TypeInv, EntriesInv, NEW r \in Requests, NEW x, Adds(r, x)
  PROVE  x \notin Tellings
<1>1. x \notin log
  BY DEF EntriesInv, Adds
<1>2. x \notin Owed
  BY OwedEntry DEF Adds, TypeInv
<1> QED
  BY <1>1, <1>2 DEF Tellings

LEMMA ToldIs ==
  ASSUME NEW s, NEW kind, NEW ref
  PROVE  Told(s, kind, ref) = {x \in Tellings : x.story = s /\ x.kind = kind /\ x.ref = ref}
BY DEF Told, Tellings

LEMMA ToldHush ==
  ASSUME NEW r, Hush(r), NEW s \in stories' \ lost', NEW kind, NEW ref
  PROVE  Told(s, kind, ref)' = Told(s, kind, ref)
<1>1. \A x : x.story = s => (x \in Tellings' <=> x \in Tellings)
  BY DEF Hush
<1> QED
  BY <1>1 DEF Told, Tellings

LEMMA ToldAdds ==
  ASSUME NEW r, NEW x, Adds(r, x), NEW s, NEW kind, NEW ref
  PROVE  Told(s, kind, ref)'
           = IF x.story = s /\ x.kind = kind /\ x.ref = ref
             THEN Told(s, kind, ref) \union {x} ELSE Told(s, kind, ref)
<1>1. \A y : y \in Tellings' <=> (y \in Tellings \/ y = x)
  BY DEF Adds
<1> QED
  BY <1>1 DEF Told, Tellings

LEMMA ToldFinite ==
  ASSUME EntriesInv, NEW s, NEW kind, NEW ref
  PROVE  IsFiniteSet(Told(s, kind, ref)) /\ Cardinality(Told(s, kind, ref)) \in Nat
<1>1. Told(s, kind, ref) \subseteq Tellings
  BY ToldIs
<1> QED
  BY <1>1, FS_Subset, FS_CardinalityType DEF EntriesInv

-----------------------------------------------------------------------------
(* Relations *)

(* The log of s says whether s blocks t. *)
Balanced(s, t) ==
  Cardinality(Told(s, "added", t)) =
    Cardinality(Told(s, "removed", t)) + IF <<s, t>> \in relations THEN 1 ELSE 0

LEMMA RelationsAre ==
  RelationsLogged <=>
    \A s, t \in stories : s \notin lost /\ <<s, t>> \notin bypassed => Balanced(s, t)
BY DEF RelationsLogged, Balanced

LEMMA InitRelations == Init => RelationsLogged
<1> SUFFICES ASSUME Init PROVE RelationsLogged
  OBVIOUS
<1>1. \A s, kind, ref : Told(s, kind, ref) = {}
  BY InitTellings, ToldIs
<1>2. relations = {}
  BY DEF Init
<1> QED
  BY <1>1, <1>2, FS_EmptySet DEF RelationsLogged

(* A step that tells nothing of s leaves its balance, if it leaves the pair. *)
LEMMA HushBalanced ==
  ASSUME NEW r, Hush(r), NEW s \in stories' \ lost', NEW t, Balanced(s, t),
         <<s, t>> \in relations' <=> <<s, t>> \in relations
  PROVE  Balanced(s, t)'
<1>1. /\ Told(s, "added", t)' = Told(s, "added", t)
      /\ Told(s, "removed", t)' = Told(s, "removed", t)
  BY ToldHush
<1> QED
  BY <1>1 DEF Balanced

(* So does an entry about something else. *)
LEMMA OtherBalanced ==
  ASSUME NEW r, NEW x, Adds(r, x), NEW s, NEW t, Balanced(s, t),
         ~(x.story = s /\ x.kind \in {"added", "removed"} /\ x.ref = t),
         <<s, t>> \in relations' <=> <<s, t>> \in relations
  PROVE  Balanced(s, t)'
<1>1. /\ Told(s, "added", t)' = Told(s, "added", t)
      /\ Told(s, "removed", t)' = Told(s, "removed", t)
  BY ToldAdds
<1> QED
  BY <1>1 DEF Balanced

LEMMA RelatedBalanced ==
  ASSUME TypeInv, EntriesInv, NEW r \in Requests, NEW s, NEW t, Balanced(s, t), Related(r, s, t)
  PROVE  Balanced(s, t)'
<1> DEFINE x == EntryOf(r, s, "added", t)
<1>0. Adds(r, x) /\ x.story = s /\ x.kind = "added" /\ x.ref = t
  BY EntryFields DEF Related
<1>1. <<s, t>> \notin relations /\ <<s, t>> \in relations'
  BY DEF Related, MayRelate
<1> HIDE DEF x
<1>2. /\ Told(s, "added", t)' = Told(s, "added", t) \union {x}
      /\ Told(s, "removed", t)' = Told(s, "removed", t)
  BY <1>0, ToldAdds
<1>3. x \notin Told(s, "added", t)
  BY <1>0, AddsNew, ToldIs
<1>4. /\ Cardinality(Told(s, "added", t)') = Cardinality(Told(s, "added", t)) + 1
      /\ Cardinality(Told(s, "added", t)) \in Nat
      /\ Cardinality(Told(s, "removed", t)) \in Nat
  BY <1>2, <1>3, ToldFinite, FS_AddElement
<1> QED
  BY <1>1, <1>2, <1>4 DEF Balanced

LEMMA UnrelatedBalanced ==
  ASSUME TypeInv, EntriesInv, NEW r \in Requests, NEW s, NEW t, Balanced(s, t), Unrelated(r, s, t)
  PROVE  Balanced(s, t)'
<1> DEFINE x == EntryOf(r, s, "removed", t)
<1>0. Adds(r, x) /\ x.story = s /\ x.kind = "removed" /\ x.ref = t
  BY EntryFields DEF Unrelated
<1>1. <<s, t>> \in relations /\ <<s, t>> \notin relations'
  BY DEF Unrelated
<1> HIDE DEF x
<1>2. /\ Told(s, "removed", t)' = Told(s, "removed", t) \union {x}
      /\ Told(s, "added", t)' = Told(s, "added", t)
  BY <1>0, ToldAdds
<1>3. x \notin Told(s, "removed", t)
  BY <1>0, AddsNew, ToldIs
<1>4. /\ Cardinality(Told(s, "removed", t)') = Cardinality(Told(s, "removed", t)) + 1
      /\ Cardinality(Told(s, "removed", t)) \in Nat
      /\ Cardinality(Told(s, "added", t)) \in Nat
  BY <1>2, <1>3, ToldFinite, FS_AddElement
<1> QED
  BY <1>1, <1>2, <1>4 DEF Balanced

(* Of a story that is not there yet, and about one, nothing is told. *)
LEMMA UnbornBalanced ==
  ASSUME EntriesInv, NEW r, Hush(r), NEW s \in stories' \ lost', NEW t, s \notin used \/ t \notin used,
         <<s, t>> \notin relations'
  PROVE  Balanced(s, t)'
<1>1. Told(s, "added", t) = {} /\ Told(s, "removed", t) = {}
  BY ToldIs DEF EntriesInv
<1>2. Told(s, "added", t)' = {} /\ Told(s, "removed", t)' = {}
  BY <1>1, ToldHush
<1> QED
  BY <1>2, FS_EmptySet DEF Balanced

LEMMA RelationsStep ==
  TypeInv /\ CatalogInv /\ EntriesInv /\ RelationsLogged /\ [Next]_vars => RelationsLogged'
<1> SUFFICES ASSUME TypeInv, CatalogInv, EntriesInv, RelationsLogged, [Next]_vars,
                    NEW s \in stories', NEW t \in stories', s \notin lost', <<s, t>> \notin bypassed'
             PROVE  Balanced(s, t)'
  BY DEF RelationsLogged, Balanced
<1>0. s \in stories /\ t \in stories /\ s \notin lost /\ <<s, t>> \notin bypassed => Balanced(s, t)
  BY RelationsAre
<1>p. s \in stories /\ t \in stories => <<s, t>> \in Pairs
  BY DEF Pairs, TypeInv, TablesOK
<1>1. ASSUME NEW r \in Requests, RelationStep(r) PROVE Balanced(s, t)'
  <2>1. RelationStill(r) /\ (RelationQuiet(r) \/ \E u, v \in Stories : Related(r, u, v) \/ Unrelated(r, u, v))
    BY <1>1, RelationTells DEF RelationEffect
  <2>2. Balanced(s, t) /\ <<s, t>> \in Pairs
    BY <1>0, <1>p, <2>1 DEF RelationStill
  <2>3. CASE RelationQuiet(r)
    <3>1. <<s, t>> \in relations' <=> <<s, t>> \in relations
      BY <2>2, <2>3 DEF RelationQuiet
    <3> QED
      BY <2>2, <2>3, <3>1, HushBalanced DEF RelationQuiet
  <2>4. ASSUME NEW u \in Stories, NEW v \in Stories, Related(r, u, v) \/ Unrelated(r, u, v)
        PROVE  Balanced(s, t)'
    <3>1. CASE u = s /\ v = t
      BY <2>2, <2>4, <3>1, RelatedBalanced, UnrelatedBalanced
    <3>2. CASE ~(u = s /\ v = t)
      <4>1. PICK kind \in {"added", "removed"} : Adds(r, EntryOf(r, u, kind, v))
        BY <2>4 DEF Related, Unrelated
      <4>2. <<s, t>> # <<u, v>>
        BY <3>2
      <4>3. <<s, t>> \in relations' <=> <<s, t>> \in relations
        BY <2>4, <4>2 DEF Related, Unrelated
      <4> QED
        BY <2>2, <3>2, <4>1, <4>3, EntryFields, OtherBalanced
    <3> QED
      BY <3>1, <3>2
  <2> QED
    BY <2>1, <2>3, <2>4
<1>2. ASSUME NEW r \in Requests, CommentStep(r) PROVE Balanced(s, t)'
  <2>1. CommentStill(r) /\ (CommentQuiet(r)
           \/ \E x : Adds(r, x) /\ x.kind \in About)
    <3>1. \A u, c : \A kind \in About : EntryOf(r, u, kind, c).kind \in About
      BY EntryFields
    <3>2. /\ CommentStill(r)
          /\ \/ CommentQuiet(r)
             \/ \E u \in Stories : Posted(r, u)
             \/ \E u \in Stories, c \in CommentIds : Edited(r, u, c) \/ Deleted(r, u, c)
      BY <1>2, CommentTells DEF CommentEffect
    <3>3. ASSUME NEW u \in Stories, Posted(r, u) PROVE \E x : Adds(r, x) /\ x.kind \in About
      <4>1. "posted" \in About
        BY DEF About
      <4> QED
        BY <3>1, <3>3, <4>1 DEF Posted
    <3>4. ASSUME NEW u \in Stories, NEW c \in CommentIds, Edited(r, u, c) \/ Deleted(r, u, c)
          PROVE  \E x : Adds(r, x) /\ x.kind \in About
      <4>1. "edited" \in About /\ "deleted" \in About
        BY DEF About
      <4> QED
        BY <3>1, <3>4, <4>1 DEF Edited, Deleted
    <3> QED
      BY <3>2, <3>3, <3>4
  <2>2. Balanced(s, t) /\ UNCHANGED relations
    BY <1>0, <2>1 DEF CommentStill
  <2>3. CASE CommentQuiet(r)
    BY <2>2, <2>3, HushBalanced DEF CommentQuiet
  <2>4. ASSUME NEW x, Adds(r, x), x.kind \in About PROVE Balanced(s, t)'
    <3>1. x.kind \notin {"added", "removed"}
      BY <2>4 DEF About
    <3> QED
      BY <2>2, <2>4, <3>1, OtherBalanced
  <2> QED
    BY <2>1, <2>3, <2>4
<1>3. ASSUME NEW r \in Requests,
             SprintStep(r) \/ EpicStep(r) \/ Emit(r) \/ EmitFails(r) \/ Cut(r)
      PROVE  Balanced(s, t)'
  <2>1. Hush(r) /\ UNCHANGED <<stories, relations, bypassed>> /\ lost \subseteq lost'
    BY <1>3, ListTells, LogMoves DEF storyVars, linkVars, historyVars, Emit, EmitFails, Cut
  <2> QED
    BY <1>0, <2>1, HushBalanced
<1>4. ASSUME NEW r \in Requests, StoryStep(r) PROVE Balanced(s, t)'
  <2>1. /\ Hush(r) /\ UNCHANGED historyVars
        /\ (\E u \in Stories : Cascade(u) \/ Birth(u)) \/ UNCHANGED <<stories, linkVars, used>>
    BY <1>4, StoryTells DEF StoryEffect
  <2>2. CASE s \in stories /\ t \in stories
    <3>1. \A u \in Stories : Cascade(u) => u \notin {s, t}
      BY DEF Cascade
    <3>2. \A u \in Stories : Cascade(u) => (<<s, t>> \in relations' <=> <<s, t>> \in relations)
      BY <3>1 DEF Cascade
    <3>3. <<s, t>> \in relations' <=> <<s, t>> \in relations
      BY <2>1, <3>2 DEF Birth, linkVars
    <3> QED
      BY <1>0, <2>1, <2>2, <3>3, HushBalanced DEF historyVars
  <2>3. CASE ~(s \in stories /\ t \in stories)
    <3>1. PICK u \in Stories : Birth(u)
      BY <2>1, <2>3 DEF Cascade
    <3>2. s \notin used \/ t \notin used
      BY <2>3, <3>1 DEF Birth
    <3>3. <<s, t>> \notin relations'
      <4>1. <<s, t>> \in relations => {<<s, t>>[1], <<s, t>>[2]} \subseteq stories
        BY DEF CatalogInv, CatalogSound
      <4> QED
        BY <2>3, <3>1, <4>1 DEF Birth, linkVars
    <3> QED
      BY <2>1, <3>2, <3>3, UnbornBalanced
  <2> QED
    BY <2>2, <2>3
<1>5. CASE UNCHANGED vars
  <2>1. UNCHANGED <<stories, relations, bypassed, lost, log, req>>
    BY <1>5 DEF vars, storyVars, linkVars, historyVars
  <2>2. Balanced(s, t)
    BY <1>0, <2>1
  <2> QED
    BY <2>1, <2>2 DEF Balanced, Told, Owed
<1> QED
  BY <1>1, <1>2, <1>3, <1>4, <1>5 DEF Next

(* The log of a story that is there says which stories it blocks, for any
   number of pages that add and remove relations at the same time. *)
THEOREM LogTellsRelations == Spec => []RelationsLogged
<1> QED
  BY InitRelations, RelationsStep, TypeInvariant, CatalogInvariant, EntriesInvariant, PTL DEF Spec
-----------------------------------------------------------------------------
(* Comments *)

(* The parts of CommentsInv. *)
Unspoken == \A s \in Stories, c \in Requests : Mentioned(s, c) => req[c].pc \in {"emit", "done"}

OneHome == \A s, t \in Stories, c \in CommentIds : Mentioned(s, c) /\ Mentioned(t, c) => s = t

DeletedGone == \A x \in Tellings : x.kind = "deleted" => x.ref \notin DOMAIN comments

Accounted(x) ==
  x.kind = "posted" /\ x.ref \notin DOMAIN comments /\ x.story \in stories \ lost
    => Told(x.story, "deleted", x.ref) # {}

LEMMA CommentsParts ==
  CommentsInv <=> Unspoken /\ OneHome /\ DeletedGone /\ \A x \in Tellings : Accounted(x)
BY DEF CommentsInv, Unspoken, OneHome, DeletedGone, Accounted

LEMMA InitComments == Init => CommentsInv
<1> SUFFICES ASSUME Init PROVE CommentsInv
  OBVIOUS
<1>1. Tellings = {}
  BY InitTellings
<1>2. PICK s \in FirstStories :
        comments = [c \in {"first"} |-> [story |-> s, author |-> Poster, body |-> "first"]]
  BY DEF Init
<1>3. \A r \in Requests : req[r].pc = "new"
  BY DEF Init, Fresh
<1>4. \A t, c : Mentioned(t, c) => c = "first" /\ t = s
  BY <1>1, <1>2, <1>3 DEF Mentioned
<1>5. Unspoken /\ OneHome
  BY <1>4, LinksAssumption DEF Unspoken, OneHome
<1> QED
  BY <1>1, <1>5, CommentsParts DEF DeletedGone

(* A step that speaks of no comment in a new way. *)
Discreet == \A s \in Stories, c \in CommentIds : Mentioned(s, c)' => Mentioned(s, c)

LEMMA DiscreetParts ==
  ASSUME NEW r \in Requests, Moves(r), Discreet, Unspoken, OneHome
  PROVE  Unspoken' /\ OneHome'
<1>1. Unspoken'
  <2> SUFFICES ASSUME NEW s \in Stories, NEW c \in Requests, Mentioned(s, c)'
               PROVE  req'[c].pc \in {"emit", "done"}
    BY DEF Unspoken
  <2>1. Mentioned(s, c)
    BY DEF Discreet, CommentIds
  <2>2. req[c].pc \in {"emit", "done"}
    BY <2>1 DEF Unspoken
  <2> QED
    BY <2>2 DEF Moves
<1>2. OneHome'
  <2> SUFFICES ASSUME NEW s \in Stories, NEW t \in Stories, NEW c \in CommentIds,
                      Mentioned(s, c)', Mentioned(t, c)'
               PROVE  s = t
    BY DEF OneHome
  <2> QED
    BY DEF Discreet, OneHome
<1> QED
  BY <1>1, <1>2

(* A step that tells nothing, and takes away only comments of stories that go. *)
LEMMA HushComments ==
  ASSUME TypeInv, EntriesInv, CommentsInv, NEW r \in Requests, Moves(r), Hush(r), Discreet,
         DOMAIN comments' \subseteq DOMAIN comments,
         \A c \in DOMAIN comments \ DOMAIN comments' : comments[c].story \notin stories',
         stories' \intersect used \subseteq stories, lost \subseteq lost'
  PROVE  CommentsInv'
<1>0. Unspoken /\ OneHome /\ DeletedGone /\ \A x \in Tellings : Accounted(x)
  BY CommentsParts
<1>1. Unspoken' /\ OneHome'
  BY <1>0, DiscreetParts
<1>2. DeletedGone'
  BY <1>0 DEF DeletedGone, Hush
<1>3. ASSUME NEW x \in Tellings' PROVE Accounted(x)'
  <2> SUFFICES ASSUME x.kind = "posted", x.ref \notin DOMAIN comments', x.story \in stories' \ lost'
               PROVE  Told(x.story, "deleted", x.ref)' # {}
    BY DEF Accounted
  <2>1. x \in Tellings /\ x \in Entry /\ x.story \in stories \ lost
    BY <1>3, TellingsType DEF Hush, EntriesInv
  <2>2. x.ref \notin DOMAIN comments
    <3> SUFFICES ASSUME x.ref \in DOMAIN comments PROVE FALSE
      OBVIOUS
    <3>1. comments[x.ref].story \in Stories /\ x.ref \in CommentIds
      BY DEF TypeInv, TablesOK, Comment
    <3>2. Mentioned(comments[x.ref].story, x.ref)
      BY DEF Mentioned
    <3>3. Mentioned(x.story, x.ref)
      BY <2>1 DEF Mentioned, About
    <3>4. x.story = comments[x.ref].story
      BY <1>0, <2>1, <3>1, <3>2, <3>3 DEF OneHome, Entry
    <3> QED
      BY <3>4
  <2>3. Told(x.story, "deleted", x.ref) # {}
    BY <1>0, <2>1, <2>2 DEF Accounted
  <2> QED
    BY <2>3, ToldHush
<1> QED
  BY <1>1, <1>2, <1>3 DEF CommentsInv, Unspoken, OneHome, DeletedGone, Accounted

LEMMA HushMentions ==
  ASSUME NEW r \in Requests, Moves(r), Hush(r), req'[r].pc \notin {"rewrite", "erase"},
         \A c \in DOMAIN comments' : c \in DOMAIN comments /\ comments'[c] = comments[c]
  PROVE  Discreet
<1> SUFFICES ASSUME NEW s \in Stories, NEW c \in CommentIds, Mentioned(s, c)'
             PROVE  Mentioned(s, c)
  BY DEF Discreet
<1>1. CASE c \in DOMAIN comments' /\ comments'[c].story = s
  BY <1>1 DEF Mentioned
<1>2. ASSUME NEW t \in Requests, req'[t].pc \in {"rewrite", "erase"}, req'[t].ref = c, req'[t].story = s
      PROVE  Mentioned(s, c)
  BY <1>2 DEF Mentioned, Moves
<1>3. ASSUME NEW x \in Tellings', x.kind \in About, x.ref = c, x.story = s
      PROVE  Mentioned(s, c)
  BY <1>3 DEF Mentioned, Hush
<1> QED
  BY <1>1, <1>2, <1>3 DEF Mentioned

(* Telling x says nothing new of comments if x is about one already mentioned,
   or about none. *)
LEMMA AddsMentions ==
  ASSUME NEW r \in Requests, Moves(r), NEW x, Adds(r, x),
         x.kind \in About => Mentioned(x.story, x.ref),
         \A c \in DOMAIN comments' :
           c \in DOMAIN comments /\ comments'[c].story = comments[c].story
  PROVE  Discreet
<1> SUFFICES ASSUME NEW s \in Stories, NEW c \in CommentIds, Mentioned(s, c)'
             PROVE  Mentioned(s, c)
  BY DEF Discreet
<1>1. CASE c \in DOMAIN comments' /\ comments'[c].story = s
  BY <1>1 DEF Mentioned
<1>2. ASSUME NEW t \in Requests, req'[t].pc \in {"rewrite", "erase"}, req'[t].ref = c, req'[t].story = s
      PROVE  Mentioned(s, c)
  BY <1>2 DEF Mentioned, Moves, Adds
<1>3. ASSUME NEW y \in Tellings', y.kind \in About, y.ref = c, y.story = s
      PROVE  Mentioned(s, c)
  <2>1. CASE y \in Tellings
    BY <1>3, <2>1 DEF Mentioned
  <2>2. CASE y = x
    BY <1>3, <2>2
  <2> QED
    BY <1>3, <2>1, <2>2 DEF Adds
<1> QED
  BY <1>1, <1>2, <1>3 DEF Mentioned

(* Telling something that is not of a comment posted or deleted. *)
LEMMA OtherComments ==
  ASSUME TypeInv, CommentsInv, NEW r \in Requests, NEW x, Moves(r), Adds(r, x), Discreet,
         x.kind \notin {"posted", "deleted"}, DOMAIN comments' = DOMAIN comments,
         UNCHANGED <<stories, lost>>
  PROVE  CommentsInv'
<1>0. Unspoken /\ OneHome /\ DeletedGone /\ \A y \in Tellings : Accounted(y)
  BY CommentsParts
<1>1. Unspoken' /\ OneHome'
  BY <1>0, DiscreetParts
<1>2. DeletedGone'
  BY <1>0 DEF DeletedGone, Adds
<1>3. ASSUME NEW y \in Tellings' PROVE Accounted(y)'
  <2> SUFFICES ASSUME y.kind = "posted", y.ref \notin DOMAIN comments', y.story \in stories' \ lost'
               PROVE  Told(y.story, "deleted", y.ref)' # {}
    BY DEF Accounted
  <2>1. y \in Tellings
    BY <1>3 DEF Adds
  <2>2. Told(y.story, "deleted", y.ref) # {}
    BY <1>0, <2>1 DEF Accounted
  <2> QED
    BY <2>2, ToldAdds
<1> QED
  BY <1>1, <1>2, <1>3 DEF CommentsInv, Unspoken, OneHome, DeletedGone, Accounted

LEMMA PostedComments ==
  ASSUME TypeInv, EntriesInv, CommentsInv, NEW r \in Requests, NEW s \in Stories, Moves(r),
         Posted(r, s), UNCHANGED <<stories, lost>>
  PROVE  CommentsInv'
<1> DEFINE x == EntryOf(r, s, "posted", r)
<1>0. Unspoken /\ OneHome /\ DeletedGone /\ \A y \in Tellings : Accounted(y)
  BY CommentsParts
<1>a. Adds(r, x) /\ x.kind = "posted" /\ x.story = s /\ x.ref = r /\ r \in CommentIds
  BY EntryFields DEF Posted, CommentIds
<1>b. /\ req[r].pc = "post" /\ req'[r].pc = "emit"
      /\ DOMAIN comments' = DOMAIN comments \union {r} /\ comments'[r].story = s
      /\ \A c \in DOMAIN comments \ {r} : comments'[c] = comments[c]
  BY DEF Posted, Adds
<1> HIDE DEF x
<1>n. \A t \in Stories : ~Mentioned(t, r)
  BY <1>0, <1>b DEF Unspoken
<1>m. ASSUME NEW t \in Stories, NEW c \in CommentIds, Mentioned(t, c)'
      PROVE  Mentioned(t, c) \/ (t = s /\ c = r)
  <2>1. CASE c \in DOMAIN comments' /\ comments'[c].story = t
    BY <1>b, <2>1 DEF Mentioned
  <2>2. ASSUME NEW u \in Requests, req'[u].pc \in {"rewrite", "erase"}, req'[u].ref = c, req'[u].story = t
        PROVE  Mentioned(t, c)
    BY <1>b, <2>2 DEF Mentioned, Moves
  <2>3. ASSUME NEW y \in Tellings', y.kind \in About, y.ref = c, y.story = t
        PROVE  Mentioned(t, c) \/ (t = s /\ c = r)
    BY <1>a, <2>3 DEF Mentioned, Adds
  <2> QED
    BY <1>m, <2>1, <2>2, <2>3 DEF Mentioned
<1>1. Unspoken'
  <2> SUFFICES ASSUME NEW t \in Stories, NEW c \in Requests, Mentioned(t, c)'
               PROVE  req'[c].pc \in {"emit", "done"}
    BY DEF Unspoken
  <2>1. Mentioned(t, c) \/ c = r
    BY <1>m DEF CommentIds
  <2>2. Mentioned(t, c) => req[c].pc \in {"emit", "done"}
    BY <1>0 DEF Unspoken
  <2> QED
    BY <1>b, <2>1, <2>2 DEF Moves
<1>2. OneHome'
  <2> SUFFICES ASSUME NEW t \in Stories, NEW u \in Stories, NEW c \in CommentIds,
                      Mentioned(t, c)', Mentioned(u, c)'
               PROVE  t = u
    BY DEF OneHome
  <2>1. Mentioned(t, c) \/ (t = s /\ c = r)
    BY <1>m
  <2>2. Mentioned(u, c) \/ (u = s /\ c = r)
    BY <1>m
  <2> QED
    BY <1>0, <1>n, <2>1, <2>2 DEF OneHome
<1>3. DeletedGone'
  <2> SUFFICES ASSUME NEW y \in Tellings', y.kind = "deleted" PROVE y.ref \notin DOMAIN comments'
    BY DEF DeletedGone
  <2>1. y \in Tellings /\ y \in Entry
    BY <1>a, TellingsType DEF Adds
  <2>2. y.ref \notin DOMAIN comments
    BY <1>0, <2>1 DEF DeletedGone
  <2>3. y.ref # r
    <3>1. y.story \in Stories
      BY <2>1 DEF Entry
    <3>2. Mentioned(y.story, y.ref)
      BY <2>1 DEF Mentioned, About
    <3> QED
      BY <1>n, <3>1, <3>2
  <2> QED
    BY <1>b, <2>2, <2>3
<1>4. ASSUME NEW y \in Tellings' PROVE Accounted(y)'
  <2> SUFFICES ASSUME y.kind = "posted", y.ref \notin DOMAIN comments', y.story \in stories' \ lost'
               PROVE  Told(y.story, "deleted", y.ref)' # {}
    BY DEF Accounted
  <2>1. y \in Tellings /\ y.ref \notin DOMAIN comments
    BY <1>a, <1>b, <1>4 DEF Adds
  <2>2. Told(y.story, "deleted", y.ref) # {}
    BY <1>0, <2>1 DEF Accounted
  <2> QED
    BY <1>a, <2>2, ToldAdds
<1> QED
  BY <1>1, <1>2, <1>3, <1>4 DEF CommentsInv, Unspoken, OneHome, DeletedGone, Accounted

LEMMA DeletedComments ==
  ASSUME TypeInv, EntriesInv, CommentsInv, NEW r \in Requests, NEW s \in Stories,
         NEW c \in CommentIds, Moves(r), Deleted(r, s, c), UNCHANGED <<stories, lost>>
  PROVE  CommentsInv'
<1> DEFINE x == EntryOf(r, s, "deleted", c)
<1>0. Unspoken /\ OneHome /\ DeletedGone /\ \A y \in Tellings : Accounted(y)
  BY CommentsParts
<1>a. Adds(r, x) /\ x.kind = "deleted" /\ x.story = s /\ x.ref = c
  BY EntryFields DEF Deleted
<1>b. /\ DOMAIN comments' = DOMAIN comments \ {c}
      /\ \A d \in DOMAIN comments' : comments'[d] = comments[d]
  BY DEF Deleted
<1>c. Mentioned(s, c)
  BY DEF Deleted, Mentioned
<1> HIDE DEF x
<1>d. Discreet
  BY <1>a, <1>b, <1>c, AddsMentions
<1>1. Unspoken' /\ OneHome'
  BY <1>0, <1>d, DiscreetParts
<1>2. DeletedGone'
  BY <1>0, <1>a, <1>b DEF DeletedGone, Adds
<1>3. ASSUME NEW y \in Tellings' PROVE Accounted(y)'
  <2> SUFFICES ASSUME y.kind = "posted", y.ref \notin DOMAIN comments', y.story \in stories' \ lost'
               PROVE  Told(y.story, "deleted", y.ref)' # {}
    BY DEF Accounted
  <2>1. y \in Tellings /\ y \in Entry
    BY <1>a, <1>3, TellingsType DEF Adds
  <2>2. CASE y.ref = c
    <3>1. Mentioned(y.story, c)
      BY <2>1, <2>2 DEF Mentioned, About
    <3>2. y.story = s
      BY <1>0, <1>c, <2>1, <3>1 DEF OneHome, Entry
    <3>3. x \in Told(y.story, "deleted", y.ref)'
      BY <1>a, <2>2, <3>2, ToldAdds
    <3> QED
      BY <3>3
  <2>3. CASE y.ref # c
    <3>1. Told(y.story, "deleted", y.ref) # {}
      BY <1>0, <1>b, <2>1, <2>3 DEF Accounted
    <3> QED
      BY <1>a, <3>1, ToldAdds
  <2> QED
    BY <2>2, <2>3
<1> QED
  BY <1>1, <1>2, <1>3 DEF CommentsInv, Unspoken, OneHome, DeletedGone, Accounted
LEMMA CommentStepComments ==
  ASSUME TypeInv, EntriesInv, CommentsInv, stories \subseteq used, NEW r \in Requests, CommentStep(r)
  PROVE  CommentsInv'
<1>1. /\ CommentStill(r)
      /\ \/ CommentQuiet(r)
         \/ \E s \in Stories : Posted(r, s)
         \/ \E s \in Stories, c \in CommentIds : Edited(r, s, c) \/ Deleted(r, s, c)
  BY CommentTells DEF CommentEffect
<1>2. CASE CommentQuiet(r)
  <2>1. Moves(r) /\ Hush(r) /\ UNCHANGED <<stories, comments, lost>>
    BY <1>1, <1>2 DEF CommentStill, CommentQuiet
  <2>2. Discreet
    <3>1. CASE req'[r].pc \notin {"rewrite", "erase"}
      BY <2>1, <3>1, HushMentions
    <3>2. CASE req'[r].pc \in {"rewrite", "erase"}
      <4>1. PICK d \in DOMAIN comments : req'[r].ref = d /\ req'[r].story = comments[d].story
        BY <1>2, <3>2 DEF CommentQuiet
      <4> SUFFICES ASSUME NEW s \in Stories, NEW c \in CommentIds, Mentioned(s, c)'
                   PROVE  Mentioned(s, c)
        BY DEF Discreet
      <4>2. CASE c \in DOMAIN comments' /\ comments'[c].story = s
        BY <2>1, <4>2 DEF Mentioned
      <4>3. ASSUME NEW t \in Requests, req'[t].pc \in {"rewrite", "erase"}, req'[t].ref = c, req'[t].story = s
            PROVE  Mentioned(s, c)
        BY <2>1, <4>1, <4>3 DEF Mentioned, Moves
      <4>4. ASSUME NEW x \in Tellings', x.kind \in About, x.ref = c, x.story = s
            PROVE  Mentioned(s, c)
        BY <2>1, <4>4 DEF Mentioned, Hush
      <4> QED
        BY <4>2, <4>3, <4>4 DEF Mentioned
    <3> QED
      BY <3>1, <3>2
  <2> QED
    BY <2>1, <2>2, HushComments
<1>3. ASSUME NEW s \in Stories, Posted(r, s) PROVE CommentsInv'
  BY <1>1, <1>3, PostedComments DEF CommentStill
<1>4. ASSUME NEW s \in Stories, NEW c \in CommentIds, Edited(r, s, c) PROVE CommentsInv'
  <2> DEFINE x == EntryOf(r, s, "edited", c)
  <2>1. Adds(r, x) /\ x.kind = "edited" /\ x.story = s /\ x.ref = c
    BY <1>4, EntryFields DEF Edited
  <2>2. Mentioned(s, c)
    BY <1>4 DEF Edited, Mentioned
  <2>3. /\ DOMAIN comments' = DOMAIN comments
        /\ \A d \in DOMAIN comments : comments'[d].story = comments[d].story
    BY <1>4 DEF Edited
  <2>4. Moves(r) /\ UNCHANGED <<stories, lost>>
    BY <1>1 DEF CommentStill
  <2> HIDE DEF x
  <2>5. Discreet
    BY <2>1, <2>2, <2>3, <2>4, AddsMentions
  <2> QED
    BY <2>1, <2>3, <2>4, <2>5, OtherComments
<1>5. ASSUME NEW s \in Stories, NEW c \in CommentIds, Deleted(r, s, c) PROVE CommentsInv'
  BY <1>1, <1>5, DeletedComments DEF CommentStill
<1> QED
  BY <1>1, <1>2, <1>3, <1>4, <1>5

LEMMA RelationStepComments ==
  ASSUME TypeInv, EntriesInv, CommentsInv, stories \subseteq used, NEW r \in Requests, RelationStep(r)
  PROVE  CommentsInv'
<1>1. /\ RelationStill(r)
      /\ RelationQuiet(r) \/ \E s, t \in Stories : Related(r, s, t) \/ Unrelated(r, s, t)
  BY RelationTells DEF RelationEffect
<1>2. /\ Moves(r) /\ UNCHANGED <<stories, comments, lost>>
      /\ req'[r].pc \notin {"rewrite", "erase"}
  BY <1>1 DEF RelationStill
<1>3. CASE RelationQuiet(r)
  <2>1. Hush(r) /\ Discreet
    BY <1>2, <1>3, HushMentions DEF RelationQuiet
  <2> QED
    BY <1>2, <2>1, HushComments
<1>4. ASSUME NEW s \in Stories, NEW t \in Stories, Related(r, s, t) \/ Unrelated(r, s, t)
      PROVE  CommentsInv'
  <2>1. PICK kind \in {"added", "removed"} : Adds(r, EntryOf(r, s, kind, t))
    BY <1>4 DEF Related, Unrelated
  <2> DEFINE x == EntryOf(r, s, kind, t)
  <2>2. Adds(r, x) /\ x.kind \notin About /\ x.kind \notin {"posted", "deleted"}
    BY <2>1, EntryFields DEF About
  <2> HIDE DEF x
  <2>3. Discreet
    BY <1>2, <2>2, AddsMentions
  <2> QED
    BY <1>2, <2>2, <2>3, OtherComments
<1> QED
  BY <1>1, <1>3, <1>4

LEMMA StoryStepComments ==
  ASSUME TypeInv, EntriesInv, CommentsInv, stories \subseteq used, NEW r \in Requests, StoryStep(r)
  PROVE  CommentsInv'
<1>1. /\ Moves(r) /\ Hush(r) /\ req'[r].pc \in {"insert", "assign", "done"} /\ UNCHANGED lost
      /\ (\E s \in Stories : Cascade(s) \/ Birth(s)) \/ UNCHANGED <<stories, linkVars, used>>
  BY StoryTells DEF StoryEffect, historyVars
<1>2. /\ \A c \in DOMAIN comments' : c \in DOMAIN comments /\ comments'[c] = comments[c]
      /\ \A c \in DOMAIN comments \ DOMAIN comments' : comments[c].story \notin stories'
      /\ stories' \intersect used \subseteq stories
  <2>1. ASSUME NEW s \in Stories, Cascade(s)
        PROVE  /\ \A c \in DOMAIN comments' : c \in DOMAIN comments /\ comments'[c] = comments[c]
               /\ \A c \in DOMAIN comments \ DOMAIN comments' : comments[c].story \notin stories'
               /\ stories' \intersect used \subseteq stories
    BY <2>1 DEF Cascade
  <2>2. ASSUME NEW s \in Stories, Birth(s)
        PROVE  UNCHANGED comments /\ stories' \intersect used \subseteq stories
    BY <2>2 DEF Birth, linkVars
  <2> QED
    BY <1>1, <2>1, <2>2 DEF linkVars
<1>3. Discreet
  BY <1>1, <1>2, HushMentions
<1> QED
  BY <1>1, <1>2, <1>3, HushComments

LEMMA CommentsStep ==
  TypeInv /\ CatalogInv /\ EntriesInv /\ CommentsInv /\ [Next]_vars => CommentsInv'
<1> SUFFICES ASSUME TypeInv, CatalogInv, EntriesInv, CommentsInv, [Next]_vars
             PROVE  CommentsInv'
  OBVIOUS
<1>0. stories \subseteq used
  BY DEF CatalogInv
<1>1. ASSUME NEW r \in Requests,
             SprintStep(r) \/ EpicStep(r) \/ Emit(r) \/ EmitFails(r) \/ Cut(r)
      PROVE  CommentsInv'
  <2>1. /\ Moves(r) /\ Hush(r) /\ UNCHANGED <<stories, comments>> /\ lost \subseteq lost'
        /\ req'[r].pc = "done"
    BY <1>1, ListTells, LogMoves DEF storyVars, linkVars, historyVars, Emit, EmitFails, Cut
  <2>2. Discreet
    BY <2>1, HushMentions
  <2> QED
    BY <1>0, <2>1, <2>2, HushComments
<1>2. CASE UNCHANGED vars
  <2>1. UNCHANGED <<stories, comments, lost, log, req>>
    BY <1>2 DEF vars, storyVars, linkVars, historyVars
  <2> QED
    BY <2>1 DEF CommentsInv, Mentioned, Tellings, Told, Owed
<1> QED
  BY <1>0, <1>1, <1>2, CommentStepComments, RelationStepComments, StoryStepComments DEF Next

LEMMA CommentsInvariant == Spec => []CommentsInv
<1> QED
  BY InitComments, CommentsStep, TypeInvariant, CatalogInvariant, EntriesInvariant, PTL DEF Spec

-----------------------------------------------------------------------------
(* Every comment on a story that is there, but for the first, was logged. *)
PostedTold ==
  \A c \in DOMAIN comments :
    c # "first" /\ comments[c].story \in stories \ lost
      => \E x \in Tellings : x.kind = "posted" /\ x.ref = c /\ x.story = comments[c].story

LEMMA InitPosted == Init => PostedTold
BY DEF Init, PostedTold

(* A step that adds no comment, moves none, and adds at most an entry. *)
LEMMA PostedKept ==
  ASSUME PostedTold, CatalogInv, NEW r \in Requests, Hush(r) \/ \E x : Adds(r, x),
         \A c \in DOMAIN comments' :
           c \in DOMAIN comments /\ comments'[c].story = comments[c].story,
         stories' \intersect used \subseteq stories, lost \subseteq lost'
  PROVE  PostedTold'
<1> SUFFICES ASSUME NEW c \in DOMAIN comments', c # "first",
                    comments'[c].story \in stories' \ lost'
             PROVE  \E x \in Tellings' :
                      x.kind = "posted" /\ x.ref = c /\ x.story = comments'[c].story
  BY DEF PostedTold
<1>1. /\ comments'[c].story = comments[c].story
      /\ comments[c].story \in stories \ lost
  BY DEF CatalogInv, CatalogSound
<1>2. PICK x \in Tellings : x.kind = "posted" /\ x.ref = c /\ x.story = comments[c].story
  BY <1>1 DEF PostedTold
<1>3. x \in Tellings'
  BY <1>1, <1>2 DEF Hush, Adds
<1> QED
  BY <1>1, <1>2, <1>3

LEMMA CommentStepPosted ==
  ASSUME TypeInv, CatalogInv, PostedTold, NEW r \in Requests, CommentStep(r)
  PROVE  PostedTold'
<1>1. /\ CommentStill(r)
      /\ \/ CommentQuiet(r)
         \/ \E s \in Stories : Posted(r, s)
         \/ \E s \in Stories, c \in CommentIds : Edited(r, s, c) \/ Deleted(r, s, c)
  BY CommentTells DEF CommentEffect
<1>2. UNCHANGED <<stories, lost>>
  BY <1>1 DEF CommentStill
<1>3. CASE CommentQuiet(r)
  BY <1>2, <1>3, PostedKept DEF CommentQuiet
<1>4. ASSUME NEW s \in Stories, NEW c \in CommentIds, Edited(r, s, c) \/ Deleted(r, s, c)
      PROVE  PostedTold'
  BY <1>2, <1>4, PostedKept DEF Edited, Deleted
<1>5. ASSUME NEW s \in Stories, Posted(r, s)
      PROVE  PostedTold'
  <2> DEFINE x == EntryOf(r, s, "posted", r)
  <2>1. Adds(r, x) /\ x.kind = "posted" /\ x.story = s /\ x.ref = r
    BY <1>5, EntryFields DEF Posted
  <2> HIDE DEF x
  <2>2. /\ DOMAIN comments' = DOMAIN comments \union {r} /\ comments'[r].story = s
        /\ \A c \in DOMAIN comments \ {r} : comments'[c] = comments[c]
    BY <1>5 DEF Posted
  <2> SUFFICES ASSUME NEW c \in DOMAIN comments', c # "first",
                      comments'[c].story \in stories' \ lost'
               PROVE  \E y \in Tellings' :
                        y.kind = "posted" /\ y.ref = c /\ y.story = comments'[c].story
    BY DEF PostedTold
  <2>3. CASE c = r
    BY <2>1, <2>2, <2>3 DEF Adds
  <2>4. CASE c # r
    BY <1>2, <2>1, <2>2, <2>4 DEF PostedTold, Adds
  <2> QED
    BY <2>3, <2>4
<1> QED
  BY <1>1, <1>3, <1>4, <1>5

LEMMA PostedStep ==
  TypeInv /\ CatalogInv /\ PostedTold /\ [Next]_vars => PostedTold'
<1> SUFFICES ASSUME TypeInv, CatalogInv, PostedTold, [Next]_vars
             PROVE  PostedTold'
  OBVIOUS
<1>1. ASSUME NEW r \in Requests, RelationStep(r) PROVE PostedTold'
  <2>1. /\ UNCHANGED <<stories, comments, lost>>
        /\ Hush(r) \/ \E x : Adds(r, x)
    BY <1>1, RelationTells
       DEF RelationEffect, RelationStill, RelationQuiet, Related, Unrelated
  <2> QED
    BY <2>1, PostedKept
<1>2. ASSUME NEW r \in Requests, StoryStep(r) PROVE PostedTold'
  <2>1. /\ Hush(r) /\ UNCHANGED lost
        /\ (\E s \in Stories : Cascade(s) \/ Birth(s)) \/ UNCHANGED <<stories, linkVars, used>>
    BY <1>2, StoryTells DEF StoryEffect, historyVars
  <2>2. ASSUME NEW s \in Stories, Cascade(s)
        PROVE  PostedTold'
    BY <2>1, <2>2, PostedKept DEF Cascade
  <2>3. ASSUME NEW s \in Stories, Birth(s)
        PROVE  PostedTold'
    BY <2>1, <2>3, PostedKept DEF Birth, linkVars
  <2> QED
    BY <2>1, <2>2, <2>3, PostedKept DEF linkVars
<1>3. ASSUME NEW r \in Requests,
             SprintStep(r) \/ EpicStep(r) \/ Emit(r) \/ EmitFails(r) \/ Cut(r)
      PROVE  PostedTold'
  <2>1. Hush(r) /\ UNCHANGED <<stories, comments>> /\ lost \subseteq lost'
    BY <1>3, ListTells, LogMoves DEF storyVars, linkVars, historyVars, Emit, EmitFails, Cut
  <2> QED
    BY <2>1, PostedKept
<1>4. CASE UNCHANGED vars
  <2>1. UNCHANGED <<stories, comments, lost, log, req>>
    BY <1>4 DEF vars, storyVars, linkVars, historyVars
  <2> QED
    BY <2>1 DEF PostedTold, Tellings, Owed
<1> QED
  BY <1>1, <1>2, <1>3, <1>4, CommentStepPosted DEF Next

LEMMA PostedInvariant == Spec => []PostedTold
<1> QED
  BY InitPosted, PostedStep, TypeInvariant, CatalogInvariant, PTL DEF Spec

(* The log of a story that is there accounts for its comments: one is on the
   story if and only if it was logged as posted and not as deleted, however the
   edits and deletions that read it at the same time end. *)
THEOREM LogTellsComments == Spec => []CommentsAccounted
<1>1. TypeInv /\ CommentsInv /\ PostedTold => CommentsAccounted
  <2> SUFFICES ASSUME TypeInv, CommentsInv, PostedTold,
                      NEW s \in stories \ lost, NEW c \in CommentIds
               PROVE  /\ Told(s, "deleted", c) # {} => ~Here(s, c)
                      /\ c # "first" /\ Here(s, c) => Told(s, "posted", c) # {}
                      /\ Told(s, "posted", c) # {} /\ Told(s, "deleted", c) = {} => Here(s, c)
    BY Zenon DEF CommentsAccounted
  <2>0. OneHome /\ DeletedGone /\ \A x \in Tellings : Accounted(x)
    BY CommentsParts
  <2>1. ASSUME Told(s, "deleted", c) # {} PROVE ~Here(s, c)
    BY <2>0, <2>1, ToldIs DEF DeletedGone, Here
  <2>2. ASSUME c # "first", Here(s, c) PROVE Told(s, "posted", c) # {}
    BY <2>2, ToldIs DEF Here, PostedTold
  <2>3. ASSUME Told(s, "posted", c) # {}, Told(s, "deleted", c) = {} PROVE Here(s, c)
    <3>1. PICK x \in Tellings : x.story = s /\ x.kind = "posted" /\ x.ref = c
      BY <2>3, ToldIs
    <3>2. c \in DOMAIN comments
      BY <2>0, <2>3, <3>1 DEF Accounted
    <3>3. s \in Stories /\ comments[c].story \in Stories
      BY <3>2 DEF TypeInv, TablesOK, Comment
    <3>4. Mentioned(s, c) /\ Mentioned(comments[c].story, c)
      BY <3>1, <3>2 DEF Mentioned, About
    <3> QED
      BY <2>0, <3>2, <3>3, <3>4 DEF OneHome, Here
  <2> QED
    BY <2>1, <2>2, <2>3
<1> QED
  BY <1>1, TypeInvariant, CommentsInvariant, PostedInvariant, PTL
=============================================================================
