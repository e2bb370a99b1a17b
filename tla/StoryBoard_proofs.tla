-------------------------- MODULE StoryBoard_proofs --------------------------
(***************************************************************************)
(* Theorems about StoryBoard, for any stories, requests, tools and faults: *)
(* its types; that edits of the acceptance criteria are lost only to edits *)
(* that were under way at the same time; and that the activity log keeps   *)
(* the promises of StoryLedger whoever races with whom.                    *)
(***************************************************************************)
EXTENDS StoryBoard, TLAPS

(* The locals of a request that its place in the handler vouches for. *)
LocalsIn(q) ==
  /\ q.pc \notin {"new", "done"} => q.story \in Stories
  /\ q.pc = "emit" => q.owes # <<>>
  /\ q.pc = "insert" => q.tool.status \in Statuses
  /\ q.pc \in {"previous", "write"} /\ q.tool.ac # NoEdit => Fits(q.tool.ac, q.seen)

(* A story that is about to be inserted is nobody else's business. *)
AloneInv ==
  \A r \in Requests :
    req[r].pc = "insert" =>
      /\ row[req[r].story] = Unborn
      /\ \A q \in Requests \ {r} : req[q].story # req[r].story

(* The request is about to write back criteria of s. *)
Editing(r, s) ==
  /\ req[r].story = s
  /\ req[r].pc \in {"load", "previous", "write"}
  /\ req[r].tool.ac # NoEdit

(* As long as two edits have not met, one is under way at most, and what it
   has read is what there is. *)
CriteriaInv ==
  \A s \in Stories :
    /\ row[s] = Unborn => ideal[s] = <<>>
    /\ "ac" \notin raced[s] =>
         /\ Alive(s) => row[s].ac = ideal[s]
         /\ \A r \in Requests :
              Editing(r, s) /\ req[r].pc # "load" /\ Alive(s) => req[r].seen = row[s].ac
         /\ \A q, r \in Requests : Editing(q, s) /\ Editing(r, s) => q = r

BoardInv ==
  /\ TypeOK
  /\ \A r \in Requests : LocalsIn(req[r])
  /\ AloneInv
  /\ CriteriaInv

-----------------------------------------------------------------------------
(* Data *)

LEMMA ToolParts ==
  ASSUME NEW t \in Requested
  PROVE  /\ t.verb \in {"patch", "create", "import", "delete"}
         /\ t.status \in Statuses \union {"keep"}
         /\ t.owner \in {"keep", "self", "nobody"}
         /\ t.ac \in AcEdits
BY DEF Requested

LEMMA AliveStory ==
  ASSUME TypeOK, NEW s \in Stories, Alive(s)
  PROVE  row[s] \in Story
BY DEF TypeOK, Alive

LEMMA SeqAppend ==
  ASSUME NEW S, NEW x \in Seq(S), NEW y \in S
  PROVE  Append(x, y) \in Seq(S)
OBVIOUS

LEMMA SeqSplice ==
  ASSUME NEW S, NEW x \in Seq(S), NEW i \in 1 .. Len(x)
  PROVE  SubSeq(x, 1, i - 1) \o SubSeq(x, i + 1, Len(x)) \in Seq(S)
<1>1. SubSeq(x, 1, i - 1) \in Seq(S)
  OBVIOUS
<1>2. SubSeq(x, i + 1, Len(x)) \in Seq(S)
  OBVIOUS
<1>. QED BY <1>1, <1>2

LEMMA SeqReplace ==
  ASSUME NEW S, NEW x \in Seq(S), NEW i \in 1 .. Len(x), NEW y \in S
  PROVE  [x EXCEPT ![i] = y] \in Seq(S)
OBVIOUS

LEMMA SeqTail ==
  ASSUME NEW S, NEW x \in Seq(S), x # <<>>
  PROVE  Tail(x) \in Seq(S) /\ Head(x) \in S
OBVIOUS

(* An edit that fits leaves a list of criteria. *)
LEMMA EditedType ==
  ASSUME NEW e \in AcEdits, NEW ac \in Seq(Item), NEW r \in Requests, Fits(e, ac)
  PROVE  Edited(e, ac, r) \in Seq(Item)
<1>1. CASE e = NoEdit
  BY <1>1 DEF Edited, NoEdit
<1>2. CASE e = Add
  <2>1. NewItem(r) \in Item
    BY DEF Item, NewItem
  <2>2. e.do = "add"
    BY <1>2 DEF Add
  <2>. QED BY <2>1, <2>2, SeqAppend DEF Edited
<1>3. CASE e \in [do : {"check", "uncheck", "edit", "remove"}, at : Indexes]
  <2>1. e.at \in 1 .. Len(ac)
    <3>1. e.do \in {"check", "uncheck", "edit", "remove"} /\ e.at \in Indexes
      BY <1>3
    <3>2. e.at \in Nat \ {0}
      BY <3>1, ToolAssumption
    <3>3. e.at <= Len(ac)
      BY <3>1 DEF Fits
    <3>. QED BY <3>2, <3>3
  <2>2. ac[e.at] \in Item
    BY <2>1
  <2>3. CASE e.do = "check"
    <3>1. [ac[e.at] EXCEPT !.done = TRUE] \in Item
      BY <2>2 DEF Item
    <3>2. Edited(e, ac, r) = [ac EXCEPT ![e.at] = [ac[e.at] EXCEPT !.done = TRUE]]
      BY <2>3, <2>1 DEF Edited
    <3>. QED BY <3>1, <3>2, <2>1, SeqReplace
  <2>4. CASE e.do = "uncheck"
    <3>1. [ac[e.at] EXCEPT !.done = FALSE] \in Item
      BY <2>2 DEF Item
    <3>2. Edited(e, ac, r) = [ac EXCEPT ![e.at] = [ac[e.at] EXCEPT !.done = FALSE]]
      BY <2>4, <2>1 DEF Edited
    <3>. QED BY <3>1, <3>2, <2>1, SeqReplace
  <2>5. CASE e.do = "edit"
    <3>1. [ac[e.at] EXCEPT !.text = r] \in Item
      BY <2>2 DEF Item
    <3>2. Edited(e, ac, r) = [ac EXCEPT ![e.at] = [ac[e.at] EXCEPT !.text = r]]
      BY <2>5, <2>1 DEF Edited
    <3>. QED BY <3>1, <3>2, <2>1, SeqReplace
  <2>6. CASE e.do = "remove"
    <3>1. Edited(e, ac, r) = SubSeq(ac, 1, e.at - 1) \o SubSeq(ac, e.at + 1, Len(ac))
      BY <2>6 DEF Edited
    <3>. QED BY <3>1, <2>1, SeqSplice
  <2>. QED BY <1>3, <2>3, <2>4, <2>5, <2>6
<1>. QED BY <1>1, <1>2, <1>3 DEF AcEdits

-----------------------------------------------------------------------------
(* Requests *)

LEMMA DoneState ==
  /\ Done \in RequestState
  /\ Done.pc = "done" /\ Done.story = NoStory /\ Done.owes = <<>>
<1>1. Patch("rest") \in Requested
  BY DEF Patch, Requested, AcEdits
<1>2. NewRequest \in RequestState
  BY <1>1 DEF NewRequest, RequestState
<1>. QED BY <1>2 DEF Done, NewRequest, RequestState

LEMMA EntryType ==
  ASSUME TypeOK, NEW r \in Requests, req[r].story \in Stories, NEW kind \in Kinds,
         NEW from \in Statuses \union {"keep"}, NEW to \in Statuses \union {"keep"}
  PROVE  LogEntry(r, kind, from, to) \in Entry
BY DEF LogEntry, Entry

LEMMA OneEntry ==
  ASSUME NEW x \in Entry
  PROVE  <<x>> \in Seq(Entry)
OBVIOUS

LEMMA TwoParts ==
  ASSUME NEW x \in Seq(Entry), NEW y \in Seq(Entry)
  PROVE  x \o y \in Seq(Entry)
OBVIOUS

LEMMA LocalTypes ==
  ASSUME TypeOK, NEW r \in Requests
  PROVE  /\ req[r] \in RequestState
         /\ req[r].tool \in Requested
         /\ req[r].prev.status \in Statuses \union {"keep"}
         /\ req[r].tool.status \in Statuses \union {"keep"}
         /\ req[r].tool.ac \in AcEdits
         /\ req[r].seen \in Seq(Item)
         /\ req[r].owes \in Seq(Entry)
<1>1. req[r] \in RequestState
  BY DEF TypeOK
<1>2. /\ req[r].tool \in Requested
      /\ req[r].seen \in Seq(Item)
      /\ req[r].owes \in Seq(Entry)
      /\ req[r].prev \in [status : Statuses \union {"keep"}, owner : Users \union {Nobody}]
  BY <1>1 DEF RequestState
<1>3. req[r].prev.status \in Statuses \union {"keep"}
  BY <1>2
<1>. QED BY <1>1, <1>2, <1>3, ToolParts

(* What is owed are entries. *)
LEMMA OwesType ==
  ASSUME TypeOK, NEW r \in Requests, req[r].story \in Stories
  PROVE  Owes(r) \in Seq(Entry)
<1>1. <<>> \in Seq(Entry)
  OBVIOUS
<1>2. StatusEntry(r) \in Seq(Entry)
  <2>1. LogEntry(r, "status_change", req[r].prev.status, req[r].tool.status) \in Entry
    BY LocalTypes, EntryType DEF Kinds
  <2>2. StatusEntry(r) \in
          {<<>>, <<LogEntry(r, "status_change", req[r].prev.status, req[r].tool.status)>>}
    BY DEF StatusEntry
  <2>. QED BY <1>1, <2>1, <2>2, OneEntry
<1>3. <<LogEntry(r, "claim", "keep", "keep")>> \in Seq(Entry)
  BY EntryType, OneEntry DEF Kinds
<1>4. <<LogEntry(r, "edit", "keep", "keep")>> \in Seq(Entry)
  BY EntryType, OneEntry DEF Kinds
<1>5. RestOwes(r) \in Seq(Entry)
  BY <1>1, <1>2, <1>3, <1>4, TwoParts DEF RestOwes
<1>6. McpOwes(r) \in Seq(Entry)
  BY <1>2, <1>3, <1>4 DEF McpOwes
<1>. QED BY <1>5, <1>6 DEF Owes

LEMMA ThenState ==
  ASSUME TypeOK, NEW r \in Requests, req[r].story \in Stories, NEW owes \in Seq(Entry)
  PROVE  /\ Then(r, owes) \in RequestState
         /\ Then(r, owes).pc \in {"done", "emit"}
         /\ Then(r, owes).story \in {req[r].story, NoStory}
         /\ LocalsIn(Then(r, owes))
<1>1. CASE owes = <<>>
  BY <1>1, DoneState DEF Then, LocalsIn
<1>2. CASE owes # <<>>
  <2>1. Then(r, owes) = [Done EXCEPT !.pc = "emit", !.story = req[r].story, !.owes = owes]
    BY <1>2 DEF Then
  <2>2. Then(r, owes) \in RequestState
    BY <2>1, DoneState DEF RequestState
  <2>3. /\ Then(r, owes).pc = "emit"
        /\ Then(r, owes).story = req[r].story
        /\ Then(r, owes).owes = owes
    BY <2>1, DoneState DEF RequestState
  <2>. QED BY <1>2, <2>2, <2>3 DEF LocalsIn
<1>. QED BY <1>1, <1>2

(* A step of one request that leaves the rows alone. *)
LEMMA RequestMoves ==
  ASSUME BoardInv, NEW r \in Requests,
         req' \in [Requests -> RequestState],
         \A q \in Requests \ {r} : req'[q] = req[q],
         UNCHANGED <<row, ideal, raced>>,
         LocalsIn(req'[r]), req'[r].pc # "insert",
         req'[r].story \in {req[r].story, NoStory},
         \A s \in Stories :
           Editing(r, s)' => /\ Editing(r, s)
                             /\ req'[r].pc # "load" /\ Alive(s) => req'[r].seen = row[s].ac
  PROVE  /\ \A q \in Requests : LocalsIn(req[q])'
         /\ AloneInv'
         /\ CriteriaInv'
<1>1. \A q \in Requests : LocalsIn(req'[q])
  BY DEF BoardInv
<1>2. AloneInv'
  <2>. SUFFICES ASSUME NEW p \in Requests, req'[p].pc = "insert"
                PROVE  /\ row'[req'[p].story] = Unborn
                       /\ \A q \in Requests \ {p} : req'[q].story # req'[p].story
    BY DEF AloneInv
  <2>1. p # r /\ req'[p] = req[p]
    OBVIOUS
  <2>2. req[p].story \in Stories
    BY <2>1 DEF BoardInv, LocalsIn
  <2>. QED BY <2>1, <2>2, BoardAssumption DEF BoardInv, AloneInv
<1>3. CriteriaInv'
  <2>. SUFFICES ASSUME NEW s \in Stories
                PROVE  /\ row'[s] = Unborn => ideal'[s] = <<>>
                       /\ "ac" \notin raced'[s] =>
                            /\ Alive(s)' => row'[s].ac = ideal'[s]
                            /\ \A p \in Requests :
                                 Editing(p, s)' /\ req'[p].pc # "load" /\ Alive(s)'
                                   => req'[p].seen = row'[s].ac
                            /\ \A q, p \in Requests :
                                 Editing(q, s)' /\ Editing(p, s)' => q = p
    BY DEF CriteriaInv
  <2>1. \A p \in Requests : Editing(p, s)' => Editing(p, s)
    BY DEF Editing
  <2>2. Alive(s)' <=> Alive(s)
    BY DEF Alive
  <2>. QED BY <2>1, <2>2 DEF BoardInv, CriteriaInv
<1>. QED BY <1>1, <1>2, <1>3

-----------------------------------------------------------------------------
(* Init *)

LEMMA InitBoard == Init => BoardInv
<1>. SUFFICES ASSUME Init PROVE BoardInv
  OBVIOUS
<1>1. FirstItem \in Item /\ <<FirstItem>> \in Seq(Item)
  BY DEF FirstItem, Item
<1>2. NewStory("todo", <<FirstItem>>) \in Story
  BY <1>1, ToolAssumption DEF NewStory, Story
<1>3. \A r \in Requests : req[r] = NewRequest
  BY DEF Init
<1>4. NewRequest \in RequestState /\ NewRequest.pc = "new"
  <2>1. Patch("rest") \in Requested
    BY DEF Patch, Requested, AcEdits
  <2>. QED BY <2>1 DEF NewRequest, RequestState
<1>5. row \in [Stories -> Story \union {Unborn, Deleted}]
  BY <1>2 DEF Init
<1>6. \A s \in Stories : row[s].ac \in Seq(Item) /\ (row[s] = Unborn => row[s].ac = <<>>)
  BY <1>1 DEF Init, NewStory, Unborn
<1>7. ideal \in [Stories -> Seq(Item)] /\ (\A s \in Stories : ideal[s] = row[s].ac)
  BY <1>6 DEF Init
<1>8. course \in [Stories -> Seq([status : Statuses, by : Requests \union {"first"}])]
  <2>1. Status("todo", "first") \in [status : Statuses, by : Requests \union {"first"}]
    BY ToolAssumption DEF Status
  <2>. DEFINE T == [status : Statuses, by : Requests \union {"first"}]
              first == Status("todo", "first")
  <2>2. first \in T
    BY <2>1
  <2>3. course = [s \in Stories |-> IF s \in Existing THEN <<first>> ELSE <<>>]
    BY DEF Init
  <2>. HIDE DEF T, first
  <2>4. <<first>> \in Seq(T) /\ <<>> \in Seq(T)
    BY <2>2
  <2>5. course \in [Stories -> Seq(T)]
    BY <2>3, <2>4
  <2>. QED BY <2>5 DEF T
<1>9. TypeOK
  <2>1. req \in [Requests -> RequestState]
    BY <1>4 DEF Init
  <2>2. log \subseteq Entry
    BY DEF Init
  <2>3. raced \in [Stories -> SUBSET Columns] /\ lost \in [Stories -> BOOLEAN]
    BY DEF Init
  <2>. QED BY <1>5, <1>7, <1>8, <2>1, <2>2, <2>3 DEF TypeOK
<1>10. \A r \in Requests : LocalsIn(req[r])
  BY <1>3, <1>4 DEF LocalsIn
<1>11. AloneInv
  BY <1>3, <1>4 DEF AloneInv
<1>12. CriteriaInv
  BY <1>3, <1>4, <1>6, <1>7 DEF CriteriaInv, Editing
<1>. QED BY <1>9, <1>10, <1>11, <1>12 DEF BoardInv

-----------------------------------------------------------------------------
(* Steps of one request *)

LEMMA LoadStep ==
  ASSUME BoardInv, NEW r \in Requests, Load(r)
  PROVE  BoardInv'
<1>. DEFINE s == req[r].story
            t == req[r].tool
            read == [req[r] EXCEPT !.seen = row[s].ac,
                                   !.pc = IF t.door = "rest" THEN "previous" ELSE "write"]
<1>1. TypeOK /\ LocalsIn(req[r]) /\ req[r].pc = "load" /\ s \in Stories
  BY DEF BoardInv, Load, LocalsIn
<1>2. req[r] \in RequestState
  BY <1>1, LocalTypes
<1>3. UNCHANGED <<row, log, historyVars>>
  BY DEF Load
<1>4. CASE Alive(s) /\ Fits(t.ac, row[s].ac)
  <2>1. row[s].ac \in Seq(Item)
    BY <1>1, <1>4, AliveStory DEF Story
  <2>2. read \in RequestState /\ read.pc \in {"previous", "write"}
        /\ read.story = s /\ read.tool = t /\ read.seen = row[s].ac
    BY <1>2, <2>1 DEF RequestState
  <2>3. req' = [req EXCEPT ![r] = read]
    BY <1>4 DEF Load, Become
  <2>4. LocalsIn(read)
    BY <1>1, <1>4, <2>2 DEF LocalsIn
  <2>. HIDE DEF read
  <2>5. /\ req' \in [Requests -> RequestState] /\ req'[r] = read
        /\ \A q \in Requests \ {r} : req'[q] = req[q]
    BY <1>1, <2>2, <2>3 DEF TypeOK
  <2>6. TypeOK'
    BY <1>1, <1>3, <2>5 DEF TypeOK, historyVars
  <2>7. \A x \in Stories : Editing(r, x)' =>
          Editing(r, x) /\ (req'[r].pc # "load" /\ Alive(x) => req'[r].seen = row[x].ac)
    BY <1>1, <2>2, <2>5 DEF Editing
  <2>. QED BY <1>3, <2>2, <2>4, <2>5, <2>6, <2>7, RequestMoves DEF BoardInv, historyVars
<1>5. CASE ~(Alive(s) /\ Fits(t.ac, row[s].ac))
  <2>1. req' = [req EXCEPT ![r] = Done]
    BY <1>5 DEF Load, Become
  <2>2. /\ req' \in [Requests -> RequestState] /\ req'[r] = Done
        /\ \A q \in Requests \ {r} : req'[q] = req[q]
    BY <1>1, <2>1, DoneState DEF TypeOK
  <2>3. TypeOK'
    BY <1>1, <1>3, <2>2 DEF TypeOK, historyVars
  <2>4. LocalsIn(req'[r]) /\ (\A x \in Stories : ~Editing(r, x)')
    BY <2>2, DoneState DEF LocalsIn, Editing
  <2>. QED BY <1>3, <2>2, <2>3, <2>4, DoneState, RequestMoves DEF BoardInv, historyVars
<1>. QED BY <1>4, <1>5

(* A request that is over with the rows leaves the rest of the board alone. *)
LEMMA RequestEnds ==
  ASSUME BoardInv, TypeOK', NEW r \in Requests, NEW next \in RequestState,
         req' = [req EXCEPT ![r] = next],
         UNCHANGED <<row, ideal, raced>>,
         LocalsIn(next), next.pc \in {"done", "emit"},
         next.story \in {req[r].story, NoStory}
  PROVE  BoardInv'
<1>1. /\ req' \in [Requests -> RequestState] /\ req'[r] = next
      /\ \A q \in Requests \ {r} : req'[q] = req[q]
  BY DEF BoardInv, TypeOK
<1>2. \A x \in Stories : ~Editing(r, x)'
  BY <1>1 DEF Editing
<1>. QED BY <1>1, <1>2, RequestMoves DEF BoardInv

LEMMA PreviousStep ==
  ASSUME BoardInv, NEW r \in Requests, Previous(r)
  PROVE  BoardInv'
<1>. DEFINE s == req[r].story
            prev == [status |-> row[s].status, owner |-> row[s].owner]
            read == [req[r] EXCEPT !.pc = "write", !.prev = prev]
<1>1. TypeOK /\ LocalsIn(req[r]) /\ req[r].pc = "previous" /\ s \in Stories
  BY DEF BoardInv, Previous, LocalsIn
<1>2. req[r] \in RequestState
  BY <1>1, LocalTypes
<1>3. UNCHANGED <<row, log, historyVars>>
  BY DEF Previous
<1>4. CASE Alive(s)
  <2>1. prev \in [status : Statuses \union {"keep"}, owner : Users \union {Nobody}]
    BY <1>1, <1>4, AliveStory DEF Story
  <2>. HIDE DEF prev
  <2>2. read \in RequestState /\ read.pc = "write" /\ read.story = s
        /\ read.tool = req[r].tool /\ read.seen = req[r].seen
    BY <1>2, <2>1 DEF RequestState
  <2>3. req' = [req EXCEPT ![r] = read]
    BY <1>4 DEF Previous, Become, prev
  <2>4. LocalsIn(read)
    BY <1>1, <2>2 DEF LocalsIn
  <2>. HIDE DEF read
  <2>5. /\ req' \in [Requests -> RequestState] /\ req'[r] = read
        /\ \A q \in Requests \ {r} : req'[q] = req[q]
    BY <1>1, <2>2, <2>3 DEF TypeOK
  <2>6. TypeOK'
    BY <1>1, <1>3, <2>5 DEF TypeOK, historyVars
  <2>7. \A x \in Stories : Editing(r, x)' => Editing(r, x)
    BY <1>1, <2>2, <2>5 DEF Editing
  <2>8. AloneInv' /\ (\A q \in Requests : LocalsIn(req[q])')
    <3>1. \A q \in Requests : LocalsIn(req'[q])
      BY <2>4, <2>5 DEF BoardInv
    <3>2. AloneInv'
      <4>1. \A q \in Requests : req'[q].story = req[q].story
        BY <2>2, <2>5
      <4>2. \A q \in Requests : req'[q].pc = "insert" => req[q].pc = "insert"
        BY <2>2, <2>5
      <4>. QED BY <1>3, <4>1, <4>2 DEF BoardInv, AloneInv
    <3>. QED BY <3>1, <3>2
  <2>9. CriteriaInv'
    <3>1. \A q \in Requests, x \in Stories : Editing(q, x)' => Editing(q, x)
      BY <2>5, <2>7 DEF Editing
    <3>2. \A q \in Requests : req'[q].seen = req[q].seen
      BY <2>2, <2>5
    <3>3. \A q \in Requests : req'[q].pc # "load" => req[q].pc # "load"
      BY <1>1, <2>5
    <3>. QED BY <1>3, <3>1, <3>2, <3>3 DEF BoardInv, CriteriaInv, Alive, historyVars
  <2>. QED BY <2>6, <2>8, <2>9 DEF BoardInv
<1>5. CASE ~Alive(s)
  <2>1. req' = [req EXCEPT ![r] = Done]
    BY <1>5 DEF Previous, Become
  <2>2. TypeOK'
    BY <1>1, <1>3, <2>1, DoneState DEF TypeOK, historyVars
  <2>. QED BY <1>3, <2>1, <2>2, DoneState, RequestEnds DEF historyVars, LocalsIn
<1>. QED BY <1>4, <1>5

LEMMA SkipDuplicateStep ==
  ASSUME BoardInv, NEW r \in Requests, SkipDuplicate(r)
  PROVE  BoardInv'
<1>1. req' = [req EXCEPT ![r] = Done] /\ UNCHANGED <<row, log, historyVars>>
  BY DEF SkipDuplicate, Become
<1>2. TypeOK'
  BY <1>1, DoneState DEF BoardInv, TypeOK, historyVars
<1>. QED BY <1>1, <1>2, DoneState, RequestEnds DEF historyVars, LocalsIn

(* An entry has been dealt with: the next, if there is one. *)
LEMMA RestOwed ==
  ASSUME BoardInv, NEW r \in Requests, req[r].pc = "emit"
  PROVE  /\ req[r].story \in Stories
         /\ Head(req[r].owes) \in Entry
         /\ Then(r, Tail(req[r].owes)) \in RequestState
         /\ Then(r, Tail(req[r].owes)).pc \in {"done", "emit"}
         /\ Then(r, Tail(req[r].owes)).story \in {req[r].story, NoStory}
         /\ LocalsIn(Then(r, Tail(req[r].owes)))
<1>1. TypeOK /\ req[r].story \in Stories /\ req[r].owes # <<>>
  BY DEF BoardInv, LocalsIn
<1>2. Tail(req[r].owes) \in Seq(Entry) /\ Head(req[r].owes) \in Entry
  BY <1>1, LocalTypes, SeqTail
<1>. QED BY <1>1, <1>2, ThenState

LEMMA EmitStep ==
  ASSUME BoardInv, NEW r \in Requests, Emit(r)
  PROVE  BoardInv'
<1>. DEFINE next == Then(r, Tail(req[r].owes))
<1>1. req[r].pc = "emit" /\ req' = [req EXCEPT ![r] = next] /\ UNCHANGED <<row, historyVars>>
  BY DEF Emit, Become
<1>2. Head(req[r].owes) \in Entry /\ next \in RequestState /\ LocalsIn(next)
      /\ next.pc \in {"done", "emit"} /\ next.story \in {req[r].story, NoStory}
  BY <1>1, RestOwed
<1>3. log' \subseteq Entry
  BY <1>2 DEF Emit, BoardInv, TypeOK
<1>. HIDE DEF next
<1>4. TypeOK'
  BY <1>1, <1>2, <1>3 DEF BoardInv, TypeOK, historyVars
<1>. QED BY <1>1, <1>2, <1>4, RequestEnds DEF historyVars

LEMMA EmitFailsStep ==
  ASSUME BoardInv, NEW r \in Requests, EmitFails(r)
  PROVE  BoardInv'
<1>. DEFINE next == Then(r, Tail(req[r].owes))
<1>1. /\ req[r].pc = "emit" /\ req' = [req EXCEPT ![r] = next]
      /\ lost' = [lost EXCEPT ![req[r].story] = TRUE]
      /\ UNCHANGED <<row, log, course, ideal, raced>>
  BY DEF EmitFails, Become
<1>2. next \in RequestState /\ LocalsIn(next)
      /\ next.pc \in {"done", "emit"} /\ next.story \in {req[r].story, NoStory}
  BY <1>1, RestOwed
<1>. HIDE DEF next
<1>3. lost' \in [Stories -> BOOLEAN]
  BY <1>1 DEF BoardInv, TypeOK
<1>4. TypeOK'
  BY <1>1, <1>2, <1>3 DEF BoardInv, TypeOK
<1>. QED BY <1>1, <1>2, <1>4, RequestEnds

LEMMA CutStep ==
  ASSUME BoardInv, NEW r \in Requests, Cut(r)
  PROVE  BoardInv'
<1>1. /\ req' = [req EXCEPT ![r] = Done]
      /\ lost' \in {lost, [lost EXCEPT ![req[r].story] = TRUE]}
      /\ UNCHANGED <<row, log, course, ideal, raced>>
  BY DEF Cut, Become
<1>2. lost' \in [Stories -> BOOLEAN]
  BY <1>1 DEF BoardInv, TypeOK
<1>3. TypeOK'
  BY <1>1, <1>2, DoneState DEF BoardInv, TypeOK
<1>. QED BY <1>1, <1>3, DoneState, RequestEnds DEF LocalsIn

(* A request begins: a second edit of one list is on record from here on. *)
LEMMA StartStep ==
  ASSUME BoardInv, NEW r \in Requests, NEW t \in Tools, NEW s \in Stories, Start(r, t, s)
  PROVE  BoardInv'
<1>. DEFINE next == [req[r] EXCEPT !.pc = FirstStep(t), !.tool = t, !.story = s]
<1>1. TypeOK /\ req[r].pc = "new" /\ req[r] \in RequestState
  BY LocalTypes DEF BoardInv, Start
<1>2. t \in Requested /\ (t.verb \in {"create", "import"} => t.status \in Statuses)
  BY BoardAssumption
<1>3. FirstStep(t) \in {"insert", "delete", "load", "previous", "write"}
  BY <1>2, ToolParts DEF FirstStep
<1>4. /\ FirstStep(t) = "insert" => t.verb \in {"create", "import"}
      /\ FirstStep(t) \in {"previous", "write"} => t.ac = NoEdit
  BY <1>2, ToolParts DEF FirstStep
<1>5. next \in RequestState /\ next.pc = FirstStep(t) /\ next.tool = t /\ next.story = s
  BY <1>1, <1>2, <1>3 DEF RequestState
<1>6. req' = [req EXCEPT ![r] = next] /\ UNCHANGED <<row, log, course, ideal, lost>>
  BY DEF Start, Become
<1>7. LocalsIn(next)
  BY <1>2, <1>3, <1>4, <1>5 DEF LocalsIn
<1>. HIDE DEF next
<1>8. /\ req' \in [Requests -> RequestState] /\ req'[r] = next
      /\ \A q \in Requests \ {r} : req'[q] = req[q]
  BY <1>1, <1>5, <1>6 DEF TypeOK
<1>9. /\ raced' \in [Stories -> SUBSET Columns]
      /\ \A x \in Stories : raced[x] \subseteq raced'[x]
      /\ raced'[s] = raced[s] \union UNION {Sets(t) \intersect Sets(req[q].tool) : q \in Busy(s)}
  <2>1. Sets(t) \subseteq Columns
    BY DEF Sets
  <2>2. UNION {Sets(t) \intersect Sets(req[q].tool) : q \in Busy(s)} \subseteq Columns
    BY <2>1
  <2>. QED BY <1>1, <2>2 DEF Start, TypeOK
<1>10. TypeOK'
  BY <1>1, <1>6, <1>8, <1>9 DEF TypeOK
<1>11. \A q \in Requests : LocalsIn(req'[q])
  BY <1>7, <1>8 DEF BoardInv
<1>12. AloneInv'
  <2>. SUFFICES ASSUME NEW p \in Requests, req'[p].pc = "insert"
                PROVE  /\ row'[req'[p].story] = Unborn
                       /\ \A q \in Requests \ {p} : req'[q].story # req'[p].story
    BY DEF AloneInv
  <2>1. CASE p = r
    <3>1. row[s] = Unborn /\ \A q \in Requests : req[q].story # s
      BY <2>1, <1>4, <1>5, <1>8 DEF Start
    <3>. QED BY <2>1, <3>1, <1>5, <1>6, <1>8
  <2>2. CASE p # r
    <3>1. req'[p] = req[p] /\ row[req[p].story] = Unborn
          /\ \A q \in Requests \ {p} : req[q].story # req[p].story
      BY <2>2, <1>8 DEF BoardInv, AloneInv
    <3>2. req[p].story # s
      <4>1. CASE t.verb \in {"create", "import"}
        BY <4>1 DEF Start
      <4>2. CASE t.verb \notin {"create", "import"}
        BY <4>2, <3>1 DEF Start
      <4>. QED BY <4>1, <4>2
    <3>. QED BY <2>2, <3>1, <3>2, <1>5, <1>6, <1>8
  <2>. QED BY <2>1, <2>2
<1>13. CriteriaInv'
  <2>. SUFFICES ASSUME NEW x \in Stories, "ac" \notin raced'[x]
                PROVE  /\ \A p \in Requests :
                            Editing(p, x)' /\ req'[p].pc # "load" /\ Alive(x)
                              => req'[p].seen = row[x].ac
                       /\ \A p, q \in Requests : Editing(p, x)' /\ Editing(q, x)' => p = q
    BY <1>6, <1>9 DEF BoardInv, CriteriaInv, Alive
  <2>1. "ac" \notin raced[x]
    BY <1>9
  <2>2. \A p \in Requests \ {r} : Editing(p, x)' <=> Editing(p, x)
    BY <1>8 DEF Editing
  <2>3. Editing(r, x)' => x = s /\ t.ac # NoEdit /\ next.pc = "load"
    BY <1>3, <1>4, <1>5, <1>8 DEF Editing
  <2>4. Editing(r, x)' => \A p \in Requests : ~Editing(p, x)
    <3>. SUFFICES ASSUME Editing(r, x)', NEW p \in Requests, Editing(p, x) PROVE FALSE
      OBVIOUS
    <3>1. p \in Busy(s)
      BY <2>3 DEF Busy, Editing
    <3>2. "ac" \in Sets(t) \intersect Sets(req[p].tool)
      BY <2>3 DEF Sets, Columns, Editing
    <3>3. "ac" \in raced'[s]
      BY <1>9, <3>1, <3>2
    <3>. QED BY <2>3, <3>3
  <2>. QED BY <1>8, <2>1, <2>2, <2>3, <2>4 DEF BoardInv, CriteriaInv
<1>. QED BY <1>10, <1>11, <1>12, <1>13 DEF BoardInv

(* The UPDATE writes one row: the only edit under way there writes what an
   atomic one would have. *)
LEMMA PatchedType ==
  ASSUME TypeOK, NEW r \in Requests, LocalsIn(req[r]), req[r].pc = "write",
         Alive(req[r].story)
  PROVE  Patched(r) \in Story
<1>. DEFINE t == req[r].tool
            old == row[req[r].story]
<1>1. old \in Story /\ t \in Requested
  BY AliveStory, LocalTypes DEF LocalsIn
<1>2. t.status \in Statuses \union {"keep"} /\ t.owner \in {"keep", "self", "nobody"}
      /\ t.ac \in AcEdits
  BY <1>1, ToolParts
<1>3. old.status \in Statuses /\ old.owner \in Users \union {Nobody} /\ old.ac \in Seq(Item)
  BY <1>1 DEF Story
<1>4. Author[r] \in Users
  BY BoardAssumption
<1>5. t.ac # NoEdit => Edited(t.ac, req[r].seen, r) \in Seq(Item)
  BY <1>2, LocalTypes, EditedType DEF LocalsIn
<1>. DEFINE status == IF t.status = "keep" THEN old.status ELSE t.status
            owner == CASE t.owner = "keep"   -> old.owner
                       [] t.owner = "self"   -> Author[r]
                       [] t.owner = "nobody" -> Nobody
            ac == IF t.ac = NoEdit THEN old.ac ELSE Edited(t.ac, req[r].seen, r)
<1>6. Patched(r) = [status |-> status, owner |-> owner, ac |-> ac]
  BY DEF Patched
<1>7. status \in Statuses /\ owner \in Users \union {Nobody} /\ ac \in Seq(Item)
  BY <1>2, <1>3, <1>4, <1>5
<1>. HIDE DEF status, owner, ac
<1>. QED BY <1>6, <1>7 DEF Story

LEMMA UpdateStep ==
  ASSUME BoardInv, NEW r \in Requests, Update(r)
  PROVE  BoardInv'
<1>. DEFINE s == req[r].story
            t == req[r].tool
            next == Then(r, Owes(r))
<1>1. TypeOK /\ LocalsIn(req[r]) /\ req[r].pc = "write" /\ s \in Stories
  BY DEF BoardInv, Update, LocalsIn
<1>2. CASE ~Alive(s)
  <2>1. req' = [req EXCEPT ![r] = Done] /\ UNCHANGED <<row, log, historyVars>>
    BY <1>2 DEF Update, Become
  <2>2. TypeOK'
    BY <1>1, <2>1, DoneState DEF TypeOK, historyVars
  <2>. QED BY <2>1, <2>2, DoneState, RequestEnds DEF historyVars, LocalsIn
<1>3. CASE Alive(s)
  <2>1. next \in RequestState /\ LocalsIn(next) /\ next.pc \in {"done", "emit"}
        /\ next.story \in {s, NoStory}
    BY <1>1, OwesType, ThenState
  <2>2. Patched(r) \in Story
    BY <1>1, <1>3, PatchedType
  <2>3. /\ row' = [row EXCEPT ![s] = Patched(r)]
        /\ req' = [req EXCEPT ![r] = next]
        /\ course' = IF t.status = "keep" THEN course
                     ELSE [course EXCEPT ![s] = Append(@, Status(t.status, r))]
        /\ ideal' = IF t.ac = NoEdit \/ ~Fits(t.ac, ideal[s]) THEN ideal
                    ELSE [ideal EXCEPT ![s] = Edited(t.ac, @, r)]
        /\ UNCHANGED <<log, raced, lost>>
    BY <1>3 DEF Update, Become
  <2>4. t.status \in Statuses \union {"keep"} /\ t.ac \in AcEdits
    BY <1>1, LocalTypes
  <2>. HIDE DEF next
  <2>5. /\ req' \in [Requests -> RequestState] /\ req'[r] = next
        /\ \A q \in Requests \ {r} : req'[q] = req[q]
    BY <1>1, <2>1, <2>3 DEF TypeOK
  <2>6. /\ row' \in [Stories -> Story \union {Unborn, Deleted}]
        /\ row'[s] = Patched(r) /\ \A x \in Stories \ {s} : row'[x] = row[x]
    BY <1>1, <2>2, <2>3 DEF TypeOK
  <2>7. course' \in [Stories -> Seq([status : Statuses, by : Requests \union {"first"}])]
    <3>. DEFINE T == [status : Statuses, by : Requests \union {"first"}]
                entry == Status(t.status, r)
    <3>1. course \in [Stories -> Seq(T)]
      BY <1>1 DEF TypeOK
    <3>2. t.status # "keep" => entry \in T
      BY <2>4 DEF Status
    <3>3. course' = IF t.status = "keep" THEN course
                    ELSE [course EXCEPT ![s] = Append(course[s], entry)]
      BY <2>3
    <3>. HIDE DEF T, entry
    <3>4. t.status # "keep" => Append(course[s], entry) \in Seq(T)
      BY <1>1, <3>1, <3>2, SeqAppend
    <3>5. course' \in [Stories -> Seq(T)]
      BY <1>1, <3>1, <3>3, <3>4
    <3>. QED BY <3>5 DEF T
  <2>8. ideal' \in [Stories -> Seq(Item)]
    <3>1. ideal \in [Stories -> Seq(Item)] /\ ideal[s] \in Seq(Item)
      BY <1>1 DEF TypeOK
    <3>2. Fits(t.ac, ideal[s]) => Edited(t.ac, ideal[s], r) \in Seq(Item)
      BY <2>4, <3>1, EditedType
    <3>. QED BY <1>1, <2>3, <3>1, <3>2
  <2>9. TypeOK'
    BY <1>1, <2>3, <2>5, <2>6, <2>7, <2>8 DEF TypeOK
  <2>10. \A q \in Requests : LocalsIn(req'[q])
    BY <2>1, <2>5 DEF BoardInv
  <2>11. AloneInv'
    <3>. SUFFICES ASSUME NEW p \in Requests, req'[p].pc = "insert"
                  PROVE  /\ row'[req'[p].story] = Unborn
                         /\ \A q \in Requests \ {p} : req'[q].story # req'[p].story
      BY DEF AloneInv
    <3>1. p # r /\ req'[p] = req[p]
      BY <2>1, <2>5
    <3>2. /\ row[req[p].story] = Unborn /\ req[p].story \in Stories
          /\ \A q \in Requests \ {p} : req[q].story # req[p].story
      BY <3>1 DEF BoardInv, AloneInv, LocalsIn
    <3>. QED BY <2>1, <2>5, <2>6, <3>1, <3>2, BoardAssumption
  <2>12. CriteriaInv'
    <3>1. \A p \in Requests, x \in Stories :
            Editing(p, x)' => p # r /\ req'[p] = req[p] /\ Editing(p, x)
      BY <2>1, <2>5 DEF Editing
    <3>2. \A x \in Stories \ {s} : row'[x] = row[x] /\ ideal'[x] = ideal[x]
      BY <1>1, <2>3, <2>6 DEF TypeOK
    <3>3. row'[s] # Unborn
      BY <2>2, <2>6, BoardAssumption DEF Story, Unborn
    <3>4. CASE t.ac = NoEdit
      <4>1. ideal' = ideal
        BY <2>3, <3>4
      <4>2. row'[s].ac = row[s].ac
        BY <2>6, <3>4 DEF Patched
      <4>. QED BY <1>3, <2>3, <2>6, <3>1, <3>2, <3>3, <4>1, <4>2 DEF BoardInv, CriteriaInv, Alive
    <3>5. CASE t.ac # NoEdit
      <4>1. row'[s].ac = Edited(t.ac, req[r].seen, r)
        BY <2>6, <3>5 DEF Patched
      <4>2. Editing(r, s)
        BY <1>1, <3>5 DEF Editing
      <4>3. "ac" \notin raced[s] =>
              /\ req[r].seen = row[s].ac /\ row[s].ac = ideal[s]
              /\ \A p \in Requests \ {r} : ~Editing(p, s)
        BY <1>1, <1>3, <4>2 DEF BoardInv, CriteriaInv
      <4>4. Fits(t.ac, req[r].seen)
        BY <1>1, <3>5 DEF LocalsIn
      <4>5. "ac" \notin raced[s] => row'[s].ac = ideal'[s]
        <5>1. ideal \in [Stories -> Seq(Item)]
          BY <1>1 DEF TypeOK
        <5>2. "ac" \notin raced[s] => Fits(t.ac, ideal[s]) /\ row'[s].ac = Edited(t.ac, ideal[s], r)
          BY <4>1, <4>3, <4>4
        <5>. QED BY <1>1, <2>3, <3>5, <5>1, <5>2
      <4>6. \A x \in Stories \ {s} : Alive(x)' <=> Alive(x)
        BY <3>2 DEF Alive
      <4>. QED BY <2>3, <3>1, <3>2, <3>3, <4>3, <4>5, <4>6 DEF BoardInv, CriteriaInv
    <3>. QED BY <3>4, <3>5
  <2>. QED BY <2>9, <2>10, <2>11, <2>12 DEF BoardInv
<1>. QED BY <1>2, <1>3

LEMMA InsertStep ==
  ASSUME BoardInv, NEW r \in Requests, Insert(r)
  PROVE  BoardInv'
<1>. DEFINE s == req[r].story
            t == req[r].tool
            owes == IF t.verb = "import" THEN <<>>
                    ELSE <<LogEntry(r, "create", "keep", "keep")>>
            next == Then(r, owes)
            new == NewStory(t.status, Supplied(t, r))
<1>1. /\ TypeOK /\ LocalsIn(req[r]) /\ req[r].pc = "insert" /\ s \in Stories
      /\ t.status \in Statuses
  BY DEF BoardInv, Insert, LocalsIn
<1>2. /\ row[s] = Unborn /\ ideal[s] = <<>>
      /\ \A q \in Requests \ {r} : req[q].story # s
  BY <1>1 DEF BoardInv, AloneInv, CriteriaInv
<1>3. owes \in Seq(Entry)
  <2>1. <<LogEntry(r, "create", "keep", "keep")>> \in Seq(Entry)
    BY <1>1, EntryType, OneEntry DEF Kinds
  <2>. QED BY <2>1
<1>4. /\ row' = [row EXCEPT ![s] = new]
      /\ course' = [course EXCEPT ![s] = <<Status(t.status, r)>>]
      /\ req' = [req EXCEPT ![r] = next]
      /\ ideal' = [ideal EXCEPT ![s] = new.ac]
      /\ UNCHANGED <<log, raced, lost>>
  BY DEF Insert, Become
<1>. HIDE DEF owes
<1>5. next \in RequestState /\ LocalsIn(next) /\ next.pc \in {"done", "emit"}
      /\ next.story \in {s, NoStory}
  BY <1>1, <1>3, ThenState
<1>6. new \in Story /\ new.ac \in Seq(Item) /\ new # Unborn
  <2>1. NewItem(r) \in Item
    BY DEF NewItem, Item
  <2>2. <<NewItem(r)>> \in Seq(Item) /\ <<>> \in Seq(Item)
    BY <2>1
  <2>3. Supplied(t, r) \in Seq(Item)
    BY <2>2 DEF Supplied
  <2>4. NewStory(t.status, Supplied(t, r)).ac = Supplied(t, r)
    BY DEF NewStory
  <2>. QED BY <1>1, <2>3, <2>4, BoardAssumption DEF NewStory, Story, Unborn
<1>. HIDE DEF next, new
<1>7. /\ req' \in [Requests -> RequestState] /\ req'[r] = next
      /\ \A q \in Requests \ {r} : req'[q] = req[q]
  BY <1>1, <1>4, <1>5 DEF TypeOK
<1>8. /\ row' \in [Stories -> Story \union {Unborn, Deleted}]
      /\ row'[s] = new /\ \A x \in Stories \ {s} : row'[x] = row[x]
      /\ ideal' \in [Stories -> Seq(Item)]
      /\ ideal'[s] = new.ac /\ \A x \in Stories \ {s} : ideal'[x] = ideal[x]
  BY <1>1, <1>4, <1>6 DEF TypeOK
<1>9. course' \in [Stories -> Seq([status : Statuses, by : Requests \union {"first"}])]
  <2>. DEFINE T == [status : Statuses, by : Requests \union {"first"}]
              entry == Status(t.status, r)
  <2>1. course \in [Stories -> Seq(T)] /\ course' = [course EXCEPT ![s] = <<entry>>]
    BY <1>1, <1>4 DEF TypeOK
  <2>2. entry \in T
    BY <1>1 DEF Status
  <2>. HIDE DEF T, entry
  <2>3. <<entry>> \in Seq(T)
    BY <2>2
  <2>4. course' \in [Stories -> Seq(T)]
    BY <1>1, <2>1, <2>3
  <2>. QED BY <2>4 DEF T
<1>10. TypeOK'
  BY <1>1, <1>4, <1>7, <1>8, <1>9 DEF TypeOK
<1>11. \A q \in Requests : LocalsIn(req'[q])
  BY <1>5, <1>7 DEF BoardInv
<1>12. AloneInv'
  <2>. SUFFICES ASSUME NEW p \in Requests, req'[p].pc = "insert"
                PROVE  /\ row'[req'[p].story] = Unborn
                       /\ \A q \in Requests \ {p} : req'[q].story # req'[p].story
    BY DEF AloneInv
  <2>1. p # r /\ req'[p] = req[p]
    BY <1>5, <1>7
  <2>2. /\ row[req[p].story] = Unborn /\ req[p].story \in Stories \ {s}
        /\ \A q \in Requests \ {p} : req[q].story # req[p].story
    BY <1>2, <2>1 DEF BoardInv, AloneInv, LocalsIn
  <2>. QED BY <1>5, <1>7, <1>8, <2>1, <2>2, BoardAssumption, SMTT(30)
<1>13. CriteriaInv'
  <2>1. \A p \in Requests, x \in Stories :
          Editing(p, x)' => x # s /\ p # r /\ req'[p] = req[p] /\ Editing(p, x)
    BY <1>2, <1>5, <1>7 DEF Editing
  <2>2. \A x \in Stories \ {s} : Alive(x)' <=> Alive(x)
    BY <1>8 DEF Alive
  <2>. QED BY <1>2, <1>4, <1>6, <1>8, <2>1, <2>2 DEF BoardInv, CriteriaInv
<1>. QED BY <1>10, <1>11, <1>12, <1>13 DEF BoardInv

LEMMA RemoveStep ==
  ASSUME BoardInv, NEW r \in Requests, Remove(r)
  PROVE  BoardInv'
<1>. DEFINE s == req[r].story
<1>1. TypeOK /\ req[r].pc = "delete" /\ s \in Stories
  BY DEF BoardInv, Remove, LocalsIn
<1>2. /\ row' = [row EXCEPT ![s] = Deleted]
      /\ log' = {e \in log : e.story # s}
      /\ req' = [req EXCEPT ![r] = Done]
      /\ UNCHANGED historyVars
  BY DEF Remove, Become
<1>3. /\ req' \in [Requests -> RequestState] /\ req'[r] = Done
      /\ \A q \in Requests \ {r} : req'[q] = req[q]
  BY <1>1, <1>2, DoneState DEF TypeOK
<1>4. /\ row' \in [Stories -> Story \union {Unborn, Deleted}]
      /\ row'[s] = Deleted /\ \A x \in Stories \ {s} : row'[x] = row[x]
  BY <1>1, <1>2 DEF TypeOK
<1>5. TypeOK'
  BY <1>1, <1>2, <1>3, <1>4 DEF TypeOK, historyVars
<1>6. \A q \in Requests : LocalsIn(req'[q])
  BY <1>3, DoneState DEF BoardInv, LocalsIn
<1>7. AloneInv'
  <2>. SUFFICES ASSUME NEW p \in Requests, req'[p].pc = "insert"
                PROVE  /\ row'[req'[p].story] = Unborn
                       /\ \A q \in Requests \ {p} : req'[q].story # req'[p].story
    BY DEF AloneInv
  <2>1. p # r /\ req'[p] = req[p]
    BY <1>3, DoneState
  <2>2. /\ row[req[p].story] = Unborn /\ req[p].story \in Stories \ {s}
        /\ \A q \in Requests \ {p} : req[q].story # req[p].story
    BY <2>1 DEF BoardInv, AloneInv, LocalsIn
  <2>. QED BY <1>3, <1>4, <2>1, <2>2, DoneState, BoardAssumption
<1>8. CriteriaInv'
  <2>1. \A p \in Requests, x \in Stories :
          Editing(p, x)' => p # r /\ req'[p] = req[p] /\ Editing(p, x)
    BY <1>3, DoneState DEF Editing
  <2>2. Deleted # Unborn
    <3>1. Deleted.status # Unborn.status
      BY DEF Deleted, Unborn
    <3>. QED BY <3>1
  <2>3. \A x \in Stories : Alive(x)' => x # s /\ Alive(x)
    BY <1>4 DEF Alive
  <2>. QED BY <1>2, <1>4, <2>1, <2>2, <2>3 DEF BoardInv, CriteriaInv, historyVars
<1>. QED BY <1>5, <1>6, <1>7, <1>8 DEF BoardInv

-----------------------------------------------------------------------------
(* Theorems *)

LEMMA NextBoard == BoardInv /\ [Next]_vars => BoardInv'
<1>. SUFFICES ASSUME BoardInv, [Next]_vars PROVE BoardInv'
  OBVIOUS
<1>1. CASE UNCHANGED vars
  <2>1. UNCHANGED <<row, log, req, course, ideal, raced, lost>>
    BY <1>1 DEF vars, historyVars
  <2>2. TypeOK'
    BY <2>1 DEF BoardInv, TypeOK
  <2>3. (\A r \in Requests : LocalsIn(req'[r])) /\ AloneInv'
    BY <2>1 DEF BoardInv, AloneInv
  <2>4. CriteriaInv'
    BY <2>1 DEF BoardInv, CriteriaInv, Editing, Alive
  <2>. QED BY <2>2, <2>3, <2>4 DEF BoardInv
<1>2. ASSUME NEW r \in Requests, NEW t \in Tools, NEW s \in Stories, Start(r, t, s)
      PROVE  BoardInv'
  BY <1>2, StartStep
<1>3. ASSUME NEW r \in Requests, Load(r) PROVE BoardInv'
  BY <1>3, LoadStep
<1>4. ASSUME NEW r \in Requests, Previous(r) PROVE BoardInv'
  BY <1>4, PreviousStep
<1>5. ASSUME NEW r \in Requests, Update(r) PROVE BoardInv'
  BY <1>5, UpdateStep
<1>6. ASSUME NEW r \in Requests, Insert(r) PROVE BoardInv'
  BY <1>6, InsertStep
<1>7. ASSUME NEW r \in Requests, SkipDuplicate(r) PROVE BoardInv'
  BY <1>7, SkipDuplicateStep
<1>8. ASSUME NEW r \in Requests, Remove(r) PROVE BoardInv'
  BY <1>8, RemoveStep
<1>9. ASSUME NEW r \in Requests, Emit(r) PROVE BoardInv'
  BY <1>9, EmitStep
<1>10. ASSUME NEW r \in Requests, EmitFails(r) PROVE BoardInv'
  BY <1>10, EmitFailsStep
<1>11. ASSUME NEW r \in Requests, Cut(r) PROVE BoardInv'
  BY <1>11, CutStep
<1>. QED
  BY <1>1, <1>2, <1>3, <1>4, <1>5, <1>6, <1>7, <1>8, <1>9, <1>10, <1>11 DEF Next

(* Every variable of the board keeps its type: in particular a criteria edit
   whose index fitted the list that was read yields a list again, whatever
   other requests have made of the row meanwhile. *)
THEOREM TypeCorrect == Spec => []TypeOK
<1>1. BoardInv => TypeOK
  BY DEF BoardInv
<1>. QED BY <1>1, InitBoard, NextBoard, PTL DEF Spec

(* No edit of the acceptance criteria is lost, repeated or put on the wrong
   item unless two edits of the list were under way at a time, for any number
   of stories, requests and tools: reading the list in one statement and
   writing it whole in another (mcp.rs, tp-mcp, repo::patch) goes wrong in
   that case only. *)
THEOREM CriteriaKept == Spec => []CriteriaIntact
<1>1. BoardInv => CriteriaIntact
  BY DEF BoardInv, CriteriaInv, CriteriaIntact
<1>. QED BY <1>1, InitBoard, NextBoard, PTL DEF Spec

-----------------------------------------------------------------------------
(* The ledger *)

(* The statuses a story has had. *)
Seen(c) == [i \in 1 .. Len(c) |-> c[i].status]
HadOf(c) == {c[i].status : i \in 1 .. Len(c)}
HadIn(s) == HadOf(course[s])

(* What r has still to log is its own; the change of status comes first and is
   logged once. *)
OwesIn(r) ==
  /\ req[r].pc # "emit" => req[r].owes = <<>>
  /\ req[r].pc = "emit" => row[req[r].story] # Unborn
  /\ \A i \in 1 .. Len(req[r].owes) :
       /\ req[r].owes[i].by = r
       /\ req[r].owes[i].story = req[r].story
       /\ req[r].owes[i].kind = "status_change" =>
            i = 1 /\ \A e \in log : e.kind = "status_change" => e.by # r
  /\ req[r].pc \notin {"emit", "done"} =>
       \A e \in log : e.kind = "status_change" => e.by # r

(* A request that sets a status has read one that the story had. *)
ReadIn(r) ==
  /\ req[r].pc = "load" /\ req[r].tool.door # "rest" => req[r].tool.status = "keep"
  /\ req[r].pc = "write" /\ req[r].tool.status # "keep" /\ Alive(req[r].story) =>
       req[r].prev.status \in HadIn(req[r].story)

CourseInv ==
  \A s \in Stories :
    /\ row[s] = Unborn => course[s] = <<>> /\ \A e \in log : e.story # s
    /\ Alive(s) => row[s].status \in HadIn(s)

LedgerInv ==
  /\ \A r \in Requests : OwesIn(r) /\ ReadIn(r)
  /\ CourseInv

(* What a request has still to log, and what is logged or to be logged of the
   stories there are, as the ledger has it. *)
OwedBy(q) == {q.owes[i] : i \in 1 .. Len(q.owes)}
Others(r) == UNION {OwedBy(req[q]) : q \in Requests \ {r}}
Logged == {e \in log \union Owed : e.kind = "status_change" /\ Alive(e.story)}
Told(e) == [by |-> e.by, story |-> e.story, from |-> e.from, to |-> e.to]

LEMMA SeqEmpty ==
  ASSUME NEW S, NEW x \in Seq(S)
  PROVE  Len(x) = 0 <=> x = <<>>
OBVIOUS

LEMMA AppendParts ==
  ASSUME NEW S, NEW x \in Seq(S), NEW y \in S
  PROVE  /\ Len(Append(x, y)) = Len(x) + 1
         /\ \A i \in 1 .. Len(x) : Append(x, y)[i] = x[i]
         /\ Append(x, y)[Len(x) + 1] = y
OBVIOUS

LEMMA TailParts ==
  ASSUME NEW S, NEW x \in Seq(S), x # <<>>
  PROVE  /\ Len(Tail(x)) = Len(x) - 1 /\ Len(x) >= 1 /\ Head(x) = x[1]
         /\ \A i \in 1 .. Len(Tail(x)) : Tail(x)[i] = x[i + 1]
OBVIOUS

LEMMA EntriesOfStories ==
  ASSUME TypeOK
  PROVE  \A e \in log \union Owed : e.story \in Stories
<1>1. \A e \in log : e.story \in Stories
  BY DEF TypeOK, Entry
<1>2. ASSUME NEW r \in Requests, NEW i \in 1 .. Len(req[r].owes)
      PROVE  req[r].owes[i].story \in Stories
  <2>1. req[r].owes \in Seq(Entry)
    BY LocalTypes
  <2>2. req[r].owes[i] \in Entry
    BY <2>1
  <2>. QED BY <2>2 DEF Entry
<1>. QED BY <1>1, <1>2 DEF Owed

(* The ledger's trail is what is logged. *)
LEMMA TrailIs == TypeOK => statusTrail = {Told(e) : e \in Logged}
<1>. SUFFICES ASSUME TypeOK
              PROVE  UNION {Trail(s) : s \in {x \in Stories : Alive(x)}} = Logged
  BY DEF Told, statusTrail
<1>. QED BY EntriesOfStories DEF Trail, Logged

LEMMA TrailWas == TypeOK' => statusTrail' = {Told(e) : e \in Logged}'
<1>1. (TypeOK => statusTrail = {Told(e) : e \in Logged})'
  BY TrailIs, PTL
<1>. QED BY <1>1

(* Only r's part of what is owed changes. *)
LEMMA OwedParts ==
  ASSUME NEW r \in Requests, \A q \in Requests \ {r} : req'[q] = req[q]
  PROVE  /\ Owed = Others(r) \union OwedBy(req[r])
         /\ Owed' = Others(r) \union OwedBy(req'[r])
BY DEF Owed, Others, OwedBy
-----------------------------------------------------------------------------
(* The ledger's invariant *)

LEMMA CourseTypes ==
  ASSUME TypeOK, NEW s \in Stories
  PROVE  course[s] \in Seq([status : Statuses, by : Requests \union {"first"}])
BY DEF TypeOK

LEMMA InitLedger == Init => LedgerInv
<1>. SUFFICES ASSUME Init PROVE LedgerInv
  OBVIOUS
<1>1. \A r \in Requests : req[r] = NewRequest
  BY DEF Init
<1>2. \A r \in Requests : OwesIn(r) /\ ReadIn(r)
  BY <1>1 DEF Init, NewRequest, OwesIn, ReadIn
<1>3. ASSUME NEW s \in Stories
      PROVE  /\ row[s] = Unborn => course[s] = <<>> /\ \A e \in log : e.story # s
             /\ Alive(s) => row[s].status \in HadIn(s)
  <2>1. CASE s \in Existing
    <3>1. row[s] = NewStory("todo", <<FirstItem>>) /\ course[s] = <<Status("todo", "first")>>
      BY <2>1 DEF Init
    <3>2. row[s].status = "todo" /\ Unborn.status = "unborn" /\ course[s][1].status = "todo"
      BY <3>1 DEF NewStory, Unborn, Status
    <3>3. 1 \in 1 .. Len(course[s])
      BY <3>1
    <3>. QED BY <3>2, <3>3 DEF HadIn, HadOf
  <2>2. CASE s \notin Existing
    BY <2>2 DEF Init, Alive
  <2>. QED BY <2>1, <2>2
<1>. QED BY <1>2, <1>3 DEF LedgerInv, CourseInv

(* A step of r: what has to be shown of it. *)
LEMMA LedgerMoves ==
  ASSUME BoardInv, LedgerInv, NEW r \in Requests,
         \A q \in Requests \ {r} : req'[q] = req[q],
         \A e \in log' : e \in log \/ (e.by = r /\ row'[e.story] # Unborn),
         \A s \in Stories : row'[s] = Unborn => row[s] = Unborn /\ course'[s] = course[s],
         \A s \in Stories : HadIn(s) \subseteq HadIn(s)',
         \A s \in Stories : Alive(s)' => row'[s].status \in HadIn(s)',
         \A q \in Requests \ {r}, s \in Stories :
           req[q].pc = "write" /\ req[q].story = s /\ Alive(s)' => Alive(s),
         OwesIn(r)', ReadIn(r)'
  PROVE  LedgerInv'
<1>1. ASSUME NEW q \in Requests \ {r} PROVE OwesIn(q)'
  <2>1. OwesIn(q) /\ LocalsIn(req[q]) /\ req'[q] = req[q]
    BY DEF BoardInv, LedgerInv
  <2>2. req[q].pc = "emit" => row'[req[q].story] # Unborn
    BY <2>1 DEF OwesIn, LocalsIn
  <2>3. (\A e \in log : e.kind = "status_change" => e.by # q)
          => (\A e \in log' : e.kind = "status_change" => e.by # q)
    OBVIOUS
  <2>. QED BY <2>1, <2>2, <2>3 DEF OwesIn
<1>2. ASSUME NEW q \in Requests \ {r} PROVE ReadIn(q)'
  <2>1. ReadIn(q) /\ LocalsIn(req[q]) /\ req'[q] = req[q]
    BY DEF BoardInv, LedgerInv
  <2>2. req[q].pc = "write" => req[q].story \in Stories
    BY <2>1 DEF LocalsIn
  <2>3. ASSUME NEW s \in Stories, req[q].story = s, req[q].pc = "write",
               req[q].tool.status # "keep", Alive(s)'
        PROVE  req[q].prev.status \in HadIn(s)'
    <3>1. Alive(s)
      BY <2>3
    <3>2. req[q].prev.status \in HadIn(s)
      BY <2>1, <2>3, <3>1 DEF ReadIn
    <3>. QED BY <3>2
  <2>. QED BY <2>1, <2>2, <2>3 DEF ReadIn, Alive, HadIn
<1>3. CourseInv'
  BY DEF LedgerInv, CourseInv
<1>. QED BY <1>1, <1>2, <1>3 DEF LedgerInv
LEMMA NothingOwed ==
  ASSUME NEW q, q.owes = <<>>
  PROVE  OwedBy(q) = {}
<1>1. 1 .. Len(<<>>) = {}
  OBVIOUS
<1>. QED BY <1>1 DEF OwedBy

(* A step of r that logs nothing, owes nothing, and leaves the stories alone. *)
LEMMA QuietStep ==
  ASSUME BoardInv, LedgerInv, NEW r \in Requests,
         \A q \in Requests \ {r} : req'[q] = req[q],
         UNCHANGED <<row, log, course>>,
         req[r].pc # "emit", req'[r].owes = <<>>, req'[r].pc # "emit",
         req'[r].pc # "done" => req[r].pc # "done",
         ReadIn(r)'
  PROVE  LedgerInv' /\ Logged' = Logged
<1>1. req[r].owes = <<>>
  BY DEF LedgerInv, OwesIn
<1>2. OwesIn(r)'
  <2>1. \A i \in 1 .. Len(req'[r].owes) : FALSE
    OBVIOUS
  <2>2. req[r].pc # "done" => \A e \in log' : e.kind = "status_change" => e.by # r
    BY DEF LedgerInv, OwesIn
  <2>. QED BY <2>1, <2>2 DEF OwesIn
<1>3. \A s \in Stories : HadIn(s)' = HadIn(s) /\ (Alive(s)' <=> Alive(s))
  BY DEF HadIn, Alive
<1>4. LedgerInv'
  <2>1. \A s \in Stories : Alive(s)' => row'[s].status \in HadIn(s)'
    BY <1>3 DEF LedgerInv, CourseInv
  <2>2. \A e \in log' : e \in log
    OBVIOUS
  <2>3. \A s \in Stories : row'[s] = row[s] /\ course'[s] = course[s]
    OBVIOUS
  <2>4. (\A s \in Stories : HadIn(s) \subseteq HadIn(s)')
        /\ \A q \in Requests \ {r}, s \in Stories :
             req[q].pc = "write" /\ req[q].story = s /\ Alive(s)' => Alive(s)
    BY <1>3
  <2>. QED BY <1>2, <2>1, <2>2, <2>3, <2>4, LedgerMoves
<1>5. Owed' = Owed
  BY <1>1, OwedParts, NothingOwed
<1>6. Logged' = Logged
  BY <1>5 DEF Logged, Alive
<1>. QED BY <1>4, <1>6

LEMMA StartLedger ==
  ASSUME BoardInv, LedgerInv, NEW r \in Requests, NEW t \in Tools, NEW s \in Stories,
         Start(r, t, s)
  PROVE  LedgerInv' /\ Logged' = Logged
<1>. DEFINE next == [req[r] EXCEPT !.pc = FirstStep(t), !.tool = t, !.story = s]
<1>1. TypeOK /\ req[r].pc = "new" /\ req[r] \in RequestState
  BY LocalTypes DEF BoardInv, Start
<1>2. t \in Requested /\ t.verb \in {"patch", "create", "import", "delete"}
      /\ t.door \in {"rest", "mcp"} /\ (t.door = "mcp" => t.status = "keep" \/ t.ac = NoEdit)
  BY BoardAssumption DEF Requested
<1>3. /\ FirstStep(t) \in {"insert", "delete", "load", "previous", "write"}
      /\ FirstStep(t) = "write" => t.status = "keep"
      /\ FirstStep(t) = "load" /\ t.door # "rest" => t.status = "keep"
  BY <1>2 DEF FirstStep
<1>4. next.pc = FirstStep(t) /\ next.tool = t /\ next.owes = req[r].owes
  BY <1>1 DEF RequestState
<1>5. req' = [req EXCEPT ![r] = next] /\ UNCHANGED <<row, log, course, ideal, lost>>
  BY DEF Start, Become
<1>. HIDE DEF next
<1>6. req'[r] = next /\ \A q \in Requests \ {r} : req'[q] = req[q]
  BY <1>1, <1>5 DEF TypeOK
<1>7. req[r].owes = <<>>
  BY <1>1 DEF LedgerInv, OwesIn
<1>8. ReadIn(r)'
  BY <1>3, <1>4, <1>6 DEF ReadIn
<1>. QED BY <1>1, <1>3, <1>4, <1>5, <1>6, <1>7, <1>8, QuietStep

(* A request that ends without a word. *)
LEMMA EndLedger ==
  ASSUME BoardInv, LedgerInv, NEW r \in Requests,
         req' = [req EXCEPT ![r] = Done], UNCHANGED <<row, log, course>>,
         req[r].pc # "emit"
  PROVE  LedgerInv' /\ Logged' = Logged
<1>1. req'[r] = Done /\ \A q \in Requests \ {r} : req'[q] = req[q]
  BY DEF BoardInv, TypeOK
<1>2. ReadIn(r)'
  BY <1>1, DoneState DEF ReadIn
<1>. QED BY <1>1, <1>2, DoneState, QuietStep

LEMMA LoadLedger ==
  ASSUME BoardInv, LedgerInv, NEW r \in Requests, Load(r)
  PROVE  LedgerInv' /\ Logged' = Logged
<1>. DEFINE s == req[r].story
            t == req[r].tool
            read == [req[r] EXCEPT !.seen = row[s].ac,
                                   !.pc = IF t.door = "rest" THEN "previous" ELSE "write"]
<1>1. TypeOK /\ req[r].pc = "load" /\ req[r] \in RequestState
      /\ UNCHANGED <<row, log, course>>
  BY LocalTypes DEF BoardInv, Load, historyVars
<1>2. CASE Alive(s) /\ Fits(t.ac, row[s].ac)
  <2>1. /\ read.pc = IF t.door = "rest" THEN "previous" ELSE "write"
        /\ read.tool = t /\ read.owes = req[r].owes
    BY <1>1 DEF RequestState
  <2>2. req' = [req EXCEPT ![r] = read]
    BY <1>2 DEF Load, Become
  <2>. HIDE DEF read
  <2>3. req'[r] = read /\ \A q \in Requests \ {r} : req'[q] = req[q]
    BY <1>1, <2>2 DEF TypeOK
  <2>4. req[r].owes = <<>> /\ (t.door # "rest" => t.status = "keep")
    BY <1>1 DEF LedgerInv, OwesIn, ReadIn
  <2>5. ReadIn(r)'
    BY <2>1, <2>3, <2>4 DEF ReadIn
  <2>. QED BY <1>1, <2>1, <2>3, <2>4, <2>5, QuietStep
<1>3. CASE ~(Alive(s) /\ Fits(t.ac, row[s].ac))
  <2>1. req' = [req EXCEPT ![r] = Done]
    BY <1>3 DEF Load, Become
  <2>. QED BY <1>1, <2>1, EndLedger
<1>. QED BY <1>2, <1>3

LEMMA PreviousLedger ==
  ASSUME BoardInv, LedgerInv, NEW r \in Requests, Previous(r)
  PROVE  LedgerInv' /\ Logged' = Logged
<1>. DEFINE s == req[r].story
            prev == [status |-> row[s].status, owner |-> row[s].owner]
            read == [req[r] EXCEPT !.pc = "write", !.prev = prev]
<1>1. TypeOK /\ req[r].pc = "previous" /\ req[r] \in RequestState /\ s \in Stories
      /\ UNCHANGED <<row, log, course>>
  BY LocalTypes DEF BoardInv, Previous, historyVars, LocalsIn
<1>2. CASE Alive(s)
  <2>1. prev.status \in HadIn(s)
    BY <1>1, <1>2 DEF LedgerInv, CourseInv
  <2>. HIDE DEF prev
  <2>2. read.pc = "write" /\ read.story = s /\ read.prev = prev /\ read.owes = req[r].owes
    BY <1>1 DEF RequestState
  <2>3. req' = [req EXCEPT ![r] = read]
    BY <1>2 DEF Previous, Become, prev
  <2>. HIDE DEF read
  <2>4. req'[r] = read /\ \A q \in Requests \ {r} : req'[q] = req[q]
    BY <1>1, <2>3 DEF TypeOK
  <2>5. req[r].owes = <<>>
    BY <1>1 DEF LedgerInv, OwesIn
  <2>6. ReadIn(r)'
    BY <1>1, <2>1, <2>2, <2>4 DEF ReadIn, HadIn
  <2>. QED BY <1>1, <2>2, <2>4, <2>5, <2>6, QuietStep
<1>3. CASE ~Alive(s)
  <2>1. req' = [req EXCEPT ![r] = Done]
    BY <1>3 DEF Previous, Become
  <2>. QED BY <1>1, <2>1, EndLedger
<1>. QED BY <1>2, <1>3

LEMMA SkipDuplicateLedger ==
  ASSUME BoardInv, LedgerInv, NEW r \in Requests, SkipDuplicate(r)
  PROVE  LedgerInv' /\ Logged' = Logged
BY EndLedger DEF SkipDuplicate, Become, historyVars
LEMMA ThenParts ==
  ASSUME NEW r \in Requests, NEW owes
  PROVE  /\ Then(r, owes).owes = owes
         /\ Then(r, owes).pc = IF owes = <<>> THEN "done" ELSE "emit"
         /\ owes # <<>> => Then(r, owes).story = req[r].story
<1>1. CASE owes = <<>>
  BY <1>1, DoneState DEF Then
<1>2. CASE owes # <<>>
  <2>1. Then(r, owes) = [Done EXCEPT !.pc = "emit", !.story = req[r].story, !.owes = owes]
    BY <1>2 DEF Then
  <2>. QED BY <1>2, <2>1, DoneState DEF RequestState
<1>. QED BY <1>1, <1>2

(* The first entry r owes is dealt with; the others are no changes of status. *)
LEMMA SettleStep ==
  ASSUME BoardInv, LedgerInv, NEW r \in Requests, req[r].pc = "emit",
         req' = [req EXCEPT ![r] = Then(r, Tail(req[r].owes))], row' = row
  PROVE  /\ \A q \in Requests \ {r} : req'[q] = req[q]
         /\ OwesIn(r)' /\ ReadIn(r)'
         /\ OwedBy(req[r]) = OwedBy(req'[r]) \union {Head(req[r].owes)}
         /\ \A e \in OwedBy(req'[r]) : e.kind # "status_change"
         /\ Head(req[r].owes).by = r
         /\ Head(req[r].owes).story = req[r].story
         /\ row[req[r].story] # Unborn
<1>. DEFINE owes == req[r].owes
            next == Then(r, Tail(owes))
<1>1. TypeOK /\ OwesIn(r) /\ owes # <<>> /\ owes \in Seq(Entry)
  BY LocalTypes DEF BoardInv, LedgerInv, LocalsIn
<1>2. /\ Len(Tail(owes)) = Len(owes) - 1 /\ Len(owes) >= 1 /\ Head(owes) = owes[1]
      /\ \A i \in 1 .. Len(Tail(owes)) : Tail(owes)[i] = owes[i + 1]
      /\ Len(owes) \in Nat
  BY <1>1, TailParts
<1>3. /\ next.owes = Tail(owes) /\ next.pc \in {"done", "emit"}
      /\ next.pc = "emit" <=> Tail(owes) # <<>>
      /\ Tail(owes) # <<>> => next.story = req[r].story
  BY ThenParts
<1>. HIDE DEF next
<1>4. req'[r] = next /\ \A q \in Requests \ {r} : req'[q] = req[q]
  BY <1>1 DEF TypeOK, next
<1>5. ReadIn(r)'
  BY <1>3, <1>4 DEF ReadIn
<1>6. /\ row[req[r].story] # Unborn
      /\ \A i \in 1 .. Len(owes) :
           /\ owes[i].by = r /\ owes[i].story = req[r].story
           /\ owes[i].kind = "status_change" => i = 1
  BY <1>1 DEF OwesIn
<1>7. \A i \in 1 .. Len(Tail(owes)) :
        /\ Tail(owes)[i].by = r /\ Tail(owes)[i].story = req[r].story
        /\ Tail(owes)[i].kind # "status_change"
  <2>. SUFFICES ASSUME NEW i \in 1 .. Len(Tail(owes))
                PROVE  /\ Tail(owes)[i].by = r /\ Tail(owes)[i].story = req[r].story
                       /\ Tail(owes)[i].kind # "status_change"
    OBVIOUS
  <2>1. i + 1 \in 1 .. Len(owes) /\ i + 1 # 1 /\ Tail(owes)[i] = owes[i + 1]
    BY <1>2
  <2>. QED BY <1>6, <2>1
<1>8. OwesIn(r)'
  <2>1. req'[r].owes = Tail(owes)
    BY <1>3, <1>4
  <2>2. \A i \in 1 .. Len(req'[r].owes) :
          /\ req'[r].owes[i].by = r
          /\ req'[r].owes[i].story = req'[r].story
          /\ req'[r].owes[i].kind # "status_change"
    <3>1. CASE Tail(owes) = <<>>
      <4>1. 1 .. Len(<<>>) = {}
        OBVIOUS
      <4>. QED BY <2>1, <3>1, <4>1
    <3>2. CASE Tail(owes) # <<>>
      BY <1>3, <1>4, <1>7, <2>1, <3>2
    <3>. QED BY <3>1, <3>2
  <2>3. req'[r].pc = "emit" => row'[req'[r].story] # Unborn
    BY <1>3, <1>4, <1>6
  <2>4. req'[r].pc # "emit" => req'[r].owes = <<>>
    BY <1>3, <1>4
  <2>. QED BY <1>3, <1>4, <2>2, <2>3, <2>4 DEF OwesIn
<1>9. OwedBy(req[r]) = OwedBy(req'[r]) \union {Head(owes)}
  <2>1. ASSUME NEW i \in 1 .. Len(owes)
        PROVE  owes[i] = Head(owes) \/ \E j \in 1 .. Len(Tail(owes)) : Tail(owes)[j] = owes[i]
    <3>1. CASE i = 1
      BY <1>2, <3>1
    <3>2. CASE i # 1
      <4>1. i - 1 \in 1 .. Len(Tail(owes)) /\ (i - 1) + 1 = i
        BY <1>2, <3>2
      <4>. QED BY <1>2, <4>1
    <3>. QED BY <3>1, <3>2
  <2>2. ASSUME NEW j \in 1 .. Len(Tail(owes))
        PROVE  \E i \in 1 .. Len(owes) : owes[i] = Tail(owes)[j]
    <3>1. j + 1 \in 1 .. Len(owes)
      BY <1>2
    <3>. QED BY <1>2, <3>1
  <2>3. 1 \in 1 .. Len(owes)
    BY <1>2
  <2>4. OwedBy(req'[r]) = {Tail(owes)[j] : j \in 1 .. Len(Tail(owes))}
    BY <1>3, <1>4 DEF OwedBy
  <2>5. OwedBy(req[r]) = {owes[i] : i \in 1 .. Len(owes)}
    BY DEF OwedBy
  <2>. HIDE DEF owes
  <2>6. \A x : x \in OwedBy(req[r]) <=> x \in OwedBy(req'[r]) \/ x = Head(owes)
    BY <1>2, <2>1, <2>2, <2>3, <2>4, <2>5
  <2>. QED BY <2>6
<1>10. \A e \in OwedBy(req'[r]) : e.kind # "status_change"
  <2>1. OwedBy(req'[r]) = {Tail(owes)[j] : j \in 1 .. Len(Tail(owes))}
    BY <1>3, <1>4 DEF OwedBy
  <2>. QED BY <1>7, <2>1
<1>11. Head(owes).by = r /\ Head(owes).story = req[r].story
  BY <1>2, <1>6
<1>. QED BY <1>4, <1>5, <1>6, <1>8, <1>9, <1>10, <1>11
(* Some of what r owes is dropped: the ledger loses one entry, or none. *)
Drops(r) ==
  \/ Logged' = Logged
  \/ \E e \in Logged : e.by = r /\ Logged' = Logged \ {e}

(* An entry of r that is not logged yet is none of the entries there are. *)
LEMMA OwnEntry ==
  ASSUME BoardInv, LedgerInv, NEW r \in Requests, req[r].owes # <<>>
  PROVE  /\ req[r].pc = "emit"
         /\ \A q \in Requests \ {r} : \A e \in OwedBy(req[q]) : e.by # r
         /\ Head(req[r].owes).kind = "status_change" => Head(req[r].owes) \notin log
<1>1. req[r].pc = "emit" /\ OwesIn(r)
  BY DEF LedgerInv, OwesIn
<1>2. \A q \in Requests \ {r} : \A e \in OwedBy(req[q]) : e.by # r
  BY DEF LedgerInv, OwesIn, OwedBy
<1>3. req[r].owes \in Seq(Entry)
  BY LocalTypes DEF BoardInv
<1>4. Head(req[r].owes) = req[r].owes[1] /\ 1 \in 1 .. Len(req[r].owes)
  BY <1>3, TailParts
<1>5. Head(req[r].owes).by = r
      /\ (Head(req[r].owes).kind = "status_change" =>
            \A e \in log : e.kind = "status_change" => e.by # r)
  BY <1>1, <1>4 DEF OwesIn
<1>. QED BY <1>1, <1>2, <1>5

LEMMA EmitLedger ==
  ASSUME BoardInv, LedgerInv, NEW r \in Requests, Emit(r)
  PROVE  LedgerInv' /\ Logged' = Logged
<1>. DEFINE e0 == Head(req[r].owes)
<1>1. /\ req[r].pc = "emit" /\ req' = [req EXCEPT ![r] = Then(r, Tail(req[r].owes))]
      /\ row' = row /\ course' = course
      /\ log' = IF Alive(req[r].story) THEN log \union {e0} ELSE log
  BY DEF Emit, Become, historyVars
<1>2. /\ \A q \in Requests \ {r} : req'[q] = req[q]
      /\ OwesIn(r)' /\ ReadIn(r)'
      /\ OwedBy(req[r]) = OwedBy(req'[r]) \union {e0}
      /\ e0.by = r /\ e0.story = req[r].story /\ row[req[r].story] # Unborn
  BY <1>1, SettleStep
<1>. HIDE DEF e0
<1>3. LedgerInv'
  <2>1. \A e \in log' : e \in log \/ (e.by = r /\ row'[e.story] # Unborn)
    BY <1>1, <1>2
  <2>2. \A s \in Stories : row'[s] = row[s] /\ course'[s] = course[s]
    BY <1>1
  <2>3. \A s \in Stories : HadIn(s)' = HadIn(s) /\ (Alive(s)' <=> Alive(s))
    BY <1>1 DEF HadIn, Alive
  <2>4. \A s \in Stories : Alive(s)' => row'[s].status \in HadIn(s)'
    BY <2>2, <2>3 DEF LedgerInv, CourseInv
  <2>. QED BY <1>2, <2>1, <2>2, <2>3, <2>4, LedgerMoves
<1>4. /\ Owed = Others(r) \union OwedBy(req[r])
      /\ Owed' = Others(r) \union OwedBy(req'[r])
  BY <1>2, OwedParts
<1>5. CASE Alive(req[r].story)
  <2>1. log' \union Owed' = log \union Owed
    BY <1>1, <1>2, <1>4, <1>5
  <2>2. Logged' = Logged
    BY <1>1, <2>1 DEF Logged, Alive
  <2>. QED BY <1>3, <2>2
<1>6. CASE ~Alive(req[r].story)
  <2>1. log \union Owed = (log' \union Owed') \union {e0}
    BY <1>1, <1>2, <1>4, <1>6
  <2>2. ~Alive(e0.story)
    BY <1>2, <1>6
  <2>3. \A e : Alive(e.story)' <=> Alive(e.story)
    BY <1>1 DEF Alive
  <2>4. \A e : e \in Logged' <=> e \in Logged
    BY <2>1, <2>2, <2>3 DEF Logged
  <2>. QED BY <1>3, <2>4
<1>. QED BY <1>5, <1>6

LEMMA EmitFailsLedger ==
  ASSUME BoardInv, LedgerInv, NEW r \in Requests, EmitFails(r)
  PROVE  LedgerInv' /\ Drops(r)
<1>. DEFINE e0 == Head(req[r].owes)
<1>1. /\ req[r].pc = "emit" /\ req' = [req EXCEPT ![r] = Then(r, Tail(req[r].owes))]
      /\ UNCHANGED <<row, log, course>>
  BY DEF EmitFails, Become
<1>2. /\ \A q \in Requests \ {r} : req'[q] = req[q]
      /\ OwesIn(r)' /\ ReadIn(r)'
      /\ OwedBy(req[r]) = OwedBy(req'[r]) \union {e0}
      /\ \A e \in OwedBy(req'[r]) : e.kind # "status_change"
      /\ e0.by = r
  BY <1>1, SettleStep
<1>3. req[r].owes # <<>>
  BY <1>1 DEF BoardInv, LocalsIn
<1>4. /\ \A q \in Requests \ {r} : \A e \in OwedBy(req[q]) : e.by # r
      /\ e0.kind = "status_change" => e0 \notin log
  BY <1>3, OwnEntry
<1>. HIDE DEF e0
<1>5. LedgerInv'
  <2>1. \A e \in log' : e \in log
    BY <1>1
  <2>2. \A s \in Stories : row'[s] = row[s] /\ course'[s] = course[s]
    BY <1>1
  <2>3. \A s \in Stories : HadIn(s)' = HadIn(s) /\ (Alive(s)' <=> Alive(s))
    BY <1>1 DEF HadIn, Alive
  <2>4. \A s \in Stories : Alive(s)' => row'[s].status \in HadIn(s)'
    BY <2>2, <2>3 DEF LedgerInv, CourseInv
  <2>. QED BY <1>2, <2>1, <2>2, <2>3, <2>4, LedgerMoves
<1>6. /\ Owed = Others(r) \union OwedBy(req[r])
      /\ Owed' = Others(r) \union OwedBy(req'[r])
  BY <1>2, OwedParts
<1>7. \A e : Alive(e.story)' <=> Alive(e.story)
  BY <1>1 DEF Alive
<1>8. log \union Owed = (log' \union Owed') \union {e0}
  BY <1>1, <1>2, <1>6
<1>9. CASE e0 \notin Logged
  <2>1. \A e : e \in Logged' <=> e \in Logged
    BY <1>7, <1>8, <1>9 DEF Logged
  <2>. QED BY <1>5, <2>1 DEF Drops
<1>10. CASE e0 \in Logged
  <2>1. e0.kind = "status_change"
    BY <1>10 DEF Logged
  <2>2. e0 \notin Others(r)
    BY <1>2, <1>4 DEF Others
  <2>3. e0 \notin log' \union Owed'
    BY <1>1, <1>2, <1>4, <1>6, <2>1, <2>2
  <2>4. \A e : e \in Logged' <=> e \in Logged \ {e0}
    BY <1>7, <1>8, <2>3 DEF Logged
  <2>. QED BY <1>2, <1>5, <1>10, <2>4 DEF Drops
<1>. QED BY <1>9, <1>10

LEMMA CutLedger ==
  ASSUME BoardInv, LedgerInv, NEW r \in Requests, Cut(r)
  PROVE  LedgerInv' /\ Drops(r)
<1>. DEFINE e0 == Head(req[r].owes)
<1>1. req' = [req EXCEPT ![r] = Done] /\ UNCHANGED <<row, log, course>>
  BY DEF Cut, Become
<1>2. CASE req[r].pc # "emit"
  BY <1>1, <1>2, EndLedger DEF Drops
<1>3. CASE req[r].pc = "emit"
  <2>1. req'[r] = Done /\ \A q \in Requests \ {r} : req'[q] = req[q]
    BY <1>1 DEF BoardInv, TypeOK
  <2>2. req[r].owes # <<>> /\ req[r].owes \in Seq(Entry)
    BY <1>3, LocalTypes DEF BoardInv, LocalsIn
  <2>3. /\ \A q \in Requests \ {r} : \A e \in OwedBy(req[q]) : e.by # r
        /\ e0.kind = "status_change" => e0 \notin log
    BY <2>2, OwnEntry
  <2>4. e0 = req[r].owes[1] /\ 1 \in 1 .. Len(req[r].owes)
    BY <2>2, TailParts
  <2>5. e0.by = r /\ \A e \in OwedBy(req[r]) : e.kind = "status_change" => e = e0
    BY <2>4 DEF LedgerInv, OwesIn, OwedBy
  <2>. HIDE DEF e0
  <2>6. OwedBy(req'[r]) = {} /\ req'[r].owes = <<>>
    BY <2>1, DoneState, NothingOwed
  <2>7. LedgerInv'
    <3>1. OwesIn(r)'
      <4>1. \A i \in 1 .. Len(req'[r].owes) : FALSE
        BY <2>6
      <4>. QED BY <2>1, <2>6, <4>1, DoneState DEF OwesIn
    <3>2. ReadIn(r)'
      BY <2>1, DoneState DEF ReadIn
    <3>3. \A e \in log' : e \in log
      BY <1>1
    <3>4. \A s \in Stories : row'[s] = row[s] /\ course'[s] = course[s]
      BY <1>1
    <3>5. \A s \in Stories : HadIn(s)' = HadIn(s) /\ (Alive(s)' <=> Alive(s))
      BY <1>1 DEF HadIn, Alive
    <3>6. \A s \in Stories : Alive(s)' => row'[s].status \in HadIn(s)'
      BY <3>4, <3>5 DEF LedgerInv, CourseInv
    <3>. QED BY <2>1, <3>1, <3>2, <3>3, <3>4, <3>5, <3>6, LedgerMoves
  <2>8. /\ Owed = Others(r) \union OwedBy(req[r])
        /\ Owed' = Others(r)
    BY <2>1, <2>6, OwedParts
  <2>9. \A e : Alive(e.story)' <=> Alive(e.story)
    BY <1>1 DEF Alive
  <2>10. e0 \in OwedBy(req[r])
    BY <2>4 DEF OwedBy
  <2>11. CASE e0 \notin Logged
    <3>1. \A e : e \in Logged' <=> e \in Logged
      BY <1>1, <2>5, <2>8, <2>9, <2>11 DEF Logged
    <3>. QED BY <2>7, <3>1 DEF Drops
  <2>12. CASE e0 \in Logged
    <3>1. e0.kind = "status_change"
      BY <2>12 DEF Logged
    <3>2. e0 \notin Others(r)
      BY <2>3, <2>5 DEF Others
    <3>3. \A e : e \in Logged' <=> e \in Logged \ {e0}
      BY <1>1, <2>3, <2>5, <2>8, <2>9, <3>1, <3>2 DEF Logged
    <3>. QED BY <2>5, <2>7, <2>12, <3>3 DEF Drops
  <2>. QED BY <2>11, <2>12
<1>. QED BY <1>2, <1>3
LEMMA RemoveLedger ==
  ASSUME BoardInv, LedgerInv, NEW r \in Requests, Remove(r)
  PROVE  /\ LedgerInv'
         /\ Logged' = {e \in Logged : e.story # req[r].story}
<1>. DEFINE s == req[r].story
<1>1. TypeOK /\ req[r].pc = "delete" /\ s \in Stories
  BY DEF BoardInv, Remove, LocalsIn
<1>2. /\ row' = [row EXCEPT ![s] = Deleted]
      /\ log' = {e \in log : e.story # s}
      /\ req' = [req EXCEPT ![r] = Done]
      /\ course' = course
  BY DEF Remove, Become, historyVars
<1>3. req'[r] = Done /\ \A q \in Requests \ {r} : req'[q] = req[q]
  BY <1>1, <1>2 DEF TypeOK
<1>4. row'[s] = Deleted /\ \A x \in Stories \ {s} : row'[x] = row[x]
  BY <1>1, <1>2 DEF TypeOK
<1>5. Deleted # Unborn
  <2>1. Deleted.status # Unborn.status
    BY DEF Deleted, Unborn
  <2>. QED BY <2>1
<1>6. req[r].owes = <<>> /\ OwedBy(req[r]) = {}
  <2>1. req[r].owes = <<>>
    BY <1>1 DEF LedgerInv, OwesIn
  <2>. QED BY <2>1, NothingOwed
<1>7. req'[r].owes = <<>> /\ OwedBy(req'[r]) = {}
  BY <1>3, DoneState, NothingOwed
<1>8. \A x \in Stories : /\ HadIn(x)' = HadIn(x)
                         /\ Alive(x)' <=> x # s /\ Alive(x)
  BY <1>2, <1>4 DEF HadIn, Alive
<1>9. LedgerInv'
  <2>1. OwesIn(r)'
    <3>1. \A i \in 1 .. Len(req'[r].owes) : FALSE
      BY <1>7
    <3>. QED BY <1>3, <1>7, <3>1, DoneState DEF OwesIn
  <2>2. ReadIn(r)'
    BY <1>3, DoneState DEF ReadIn
  <2>3. \A e \in log' : e \in log
    BY <1>2
  <2>4. \A x \in Stories : row'[x] = Unborn => row[x] = Unborn /\ course'[x] = course[x]
    BY <1>2, <1>4, <1>5
  <2>5. \A x \in Stories : Alive(x)' => row'[x].status \in HadIn(x)'
    BY <1>4, <1>8 DEF LedgerInv, CourseInv
  <2>. QED BY <1>3, <1>8, <2>1, <2>2, <2>3, <2>4, <2>5, LedgerMoves
<1>10. Owed' = Owed
  BY <1>3, <1>6, <1>7, OwedParts
<1>11. \A e \in log \union Owed : e.story \in Stories
  BY <1>1, EntriesOfStories
<1>12. \A e : e \in Logged' <=> e \in Logged /\ e.story # s
  <2>1. ASSUME NEW e, e \in Logged' PROVE e \in Logged /\ e.story # s
    <3>1. e \in log \union Owed /\ e.kind = "status_change" /\ Alive(e.story)'
      BY <1>2, <1>10, <2>1 DEF Logged
    <3>. QED BY <1>8, <1>11, <3>1 DEF Logged
  <2>2. ASSUME NEW e, e \in Logged, e.story # s PROVE e \in Logged'
    <3>1. e \in log \union Owed /\ e.kind = "status_change" /\ Alive(e.story)
      BY <2>2 DEF Logged
    <3>2. Alive(e.story)' /\ e \in log' \union Owed'
      BY <1>2, <1>8, <1>10, <1>11, <2>2, <3>1
    <3>. QED BY <3>1, <3>2 DEF Logged
  <2>. QED BY <2>1, <2>2
<1>. QED BY <1>9, <1>12

LEMMA InsertLedger ==
  ASSUME BoardInv, LedgerInv, NEW r \in Requests, Insert(r)
  PROVE  /\ LedgerInv' /\ Logged' = Logged
         /\ course[req[r].story] = <<>>
         /\ \A x \in Stories : row'[x] = Deleted <=> row[x] = Deleted
<1>. DEFINE s == req[r].story
            t == req[r].tool
            owes == IF t.verb = "import" THEN <<>>
                    ELSE <<LogEntry(r, "create", "keep", "keep")>>
            next == Then(r, owes)
            new == NewStory(t.status, Supplied(t, r))
<1>1. /\ TypeOK /\ req[r].pc = "insert" /\ s \in Stories /\ t.status \in Statuses
      /\ row[s] = Unborn
      /\ \A q \in Requests \ {r} : req[q].story # s
  BY DEF BoardInv, Insert, LocalsIn, AloneInv
<1>2. /\ row' = [row EXCEPT ![s] = new]
      /\ course' = [course EXCEPT ![s] = <<Status(t.status, r)>>]
      /\ req' = [req EXCEPT ![r] = next]
      /\ log' = log
  BY DEF Insert, Become
<1>3. /\ course[s] = <<>> /\ (\A e \in log : e.story # s)
      /\ req[r].owes = <<>>
      /\ \A e \in log : e.kind = "status_change" => e.by # r
  BY <1>1 DEF LedgerInv, CourseInv, OwesIn
<1>4. /\ next.owes = owes
      /\ next.pc = IF owes = <<>> THEN "done" ELSE "emit"
      /\ owes # <<>> => next.story = s
  BY ThenParts
<1>5. \A i \in 1 .. Len(owes) : owes[i].by = r /\ owes[i].story = s
                                /\ owes[i].kind = "create"
  <2>1. CASE t.verb = "import"
    <3>1. 1 .. Len(<<>>) = {}
      OBVIOUS
    <3>. QED BY <2>1, <3>1
  <2>2. CASE t.verb # "import"
    <3>. DEFINE e0 == LogEntry(r, "create", "keep", "keep")
    <3>1. e0.by = r /\ e0.story = s /\ e0.kind = "create"
      BY DEF LogEntry
    <3>2. owes = <<e0>>
      BY <2>2
    <3>. HIDE DEF e0, owes
    <3>3. \A i \in 1 .. Len(<<e0>>) : <<e0>>[i] = e0
      OBVIOUS
    <3>. QED BY <3>1, <3>2, <3>3
  <2>. QED BY <2>1, <2>2
<1>6. new.status = t.status /\ new # Unborn /\ new # Deleted
  <2>1. new.status = t.status
    BY DEF NewStory
  <2>2. Unborn.status = "unborn" /\ Deleted.status = "deleted"
    BY DEF Unborn, Deleted
  <2>. QED BY <1>1, <2>1, <2>2, BoardAssumption
<1>. HIDE DEF next, new, owes
<1>7. req'[r] = next /\ \A q \in Requests \ {r} : req'[q] = req[q]
  BY <1>1, <1>2 DEF TypeOK
<1>8. /\ row'[s] = new /\ \A x \in Stories \ {s} : row'[x] = row[x]
      /\ course'[s] = <<Status(t.status, r)>>
      /\ \A x \in Stories \ {s} : course'[x] = course[x]
  BY <1>1, <1>2 DEF TypeOK
<1>9. \A x \in Stories \ {s} : HadIn(x)' = HadIn(x) /\ (Alive(x)' <=> Alive(x))
  BY <1>8 DEF HadIn, Alive
<1>10. HadIn(s) = {} /\ \A x \in Stories : x = s => row'[x].status \in HadIn(x)'
  <2>1. 1 .. Len(<<>>) = {}
    OBVIOUS
  <2>2. <<Status(t.status, r)>>[1].status = t.status /\ 1 \in 1 .. Len(<<Status(t.status, r)>>)
    BY DEF Status
  <2>3. t.status \in HadOf(course'[s])
    BY <1>8, <2>2 DEF HadOf
  <2>4. \A x \in Stories : HadIn(x)' = HadOf(course'[x])
    BY DEF HadIn
  <2>5. HadIn(s) = {}
    BY <1>3, <2>1 DEF HadIn, HadOf
  <2>. QED BY <1>6, <1>8, <2>3, <2>4, <2>5
<1>11. \A x \in Stories : x = s => ~Alive(x)
  BY <1>1 DEF Alive
<1>12. LedgerInv'
  <2>1. OwesIn(r)'
    <3>1. req'[r].owes = owes
      BY <1>4, <1>7
    <3>2. \A i \in 1 .. Len(owes) :
            /\ owes[i].by = r /\ owes[i].story = req'[r].story
            /\ owes[i].kind # "status_change"
      <4>1. CASE owes = <<>>
        <5>1. 1 .. Len(<<>>) = {}
          OBVIOUS
        <5>. QED BY <4>1, <5>1
      <4>2. CASE owes # <<>>
        BY <1>4, <1>5, <1>7, <4>2
      <4>. QED BY <4>1, <4>2
    <3>3. req'[r].pc = "emit" => row'[req'[r].story] # Unborn
      BY <1>4, <1>6, <1>7, <1>8
    <3>. QED BY <1>4, <1>7, <3>1, <3>2, <3>3 DEF OwesIn
  <2>2. ReadIn(r)'
    BY <1>4, <1>7 DEF ReadIn
  <2>3. \A e \in log' : e \in log
    BY <1>2
  <2>4. \A x \in Stories : row'[x] = Unborn => row[x] = Unborn /\ course'[x] = course[x]
    BY <1>6, <1>8
  <2>5. \A x \in Stories : HadIn(x) \subseteq HadIn(x)'
    BY <1>9, <1>10
  <2>6. \A x \in Stories : Alive(x)' => row'[x].status \in HadIn(x)'
    BY <1>8, <1>9, <1>10 DEF LedgerInv, CourseInv
  <2>7. \A q \in Requests \ {r}, x \in Stories :
          req[q].pc = "write" /\ req[q].story = x /\ Alive(x)' => Alive(x)
    BY <1>1, <1>9
  <2>. QED BY <1>7, <2>1, <2>2, <2>3, <2>4, <2>5, <2>6, <2>7, LedgerMoves
<1>13. \A e \in log \union Owed : e.story \in Stories
  BY <1>1, EntriesOfStories
<1>14. \A e \in Others(r) : e.story # s
  <2>1. ASSUME NEW q \in Requests \ {r}, NEW i \in 1 .. Len(req[q].owes)
        PROVE  req[q].owes[i].story # s
    BY <1>1, <2>1 DEF LedgerInv, OwesIn
  <2>. QED BY <2>1 DEF Others, OwedBy
<1>15. Owed = Others(r) /\ Owed' = Others(r) \union OwedBy(req'[r])
  BY <1>3, <1>7, OwedParts, NothingOwed
<1>16. \A e \in OwedBy(req'[r]) : e.kind # "status_change"
  <2>1. OwedBy(req'[r]) = {owes[i] : i \in 1 .. Len(owes)}
    BY <1>4, <1>7 DEF OwedBy
  <2>. QED BY <1>5, <2>1
<1>17. \A e : e \in Logged' <=> e \in Logged
  <2>1. \A e : e.kind = "status_change" =>
          (e \in log' \union Owed' <=> e \in log \union Owed)
    BY <1>2, <1>15, <1>16
  <2>2. \A e \in log \union Owed : e.story \in Stories \ {s}
    BY <1>3, <1>13, <1>14, <1>15
  <2>3. \A e \in log \union Owed : Alive(e.story)' <=> Alive(e.story)
    BY <1>9, <2>2
  <2>. QED BY <2>1, <2>3 DEF Logged
<1>18. \A x \in Stories : row'[x] = Deleted <=> row[x] = Deleted
  <2>1. Deleted # Unborn
    <3>1. Deleted.status # Unborn.status
      BY DEF Deleted, Unborn
    <3>. QED BY <3>1
  <2>. QED BY <1>1, <1>6, <1>8, <2>1
<1>. QED BY <1>3, <1>12, <1>17, <1>18
LEMMA ShortSeq ==
  ASSUME NEW S, NEW x \in S
  PROVE  <<x>> \in Seq(S) /\ <<>> \in Seq(S)
OBVIOUS

LEMMA TwoEntries ==
  ASSUME NEW x, NEW y, NEW a \in {<<>>, <<x>>}, NEW b \in {<<>>, <<y>>}
  PROVE  \A i \in 1 .. Len(a \o b) :
           \/ (a \o b)[i] = y
           \/ i = 1 /\ a = <<x>> /\ (a \o b)[i] = x
<1>1. a \in Seq({x, y}) /\ b \in Seq({x, y})
  <2>1. x \in {x, y} /\ y \in {x, y}
    OBVIOUS
  <2>2. <<x>> \in Seq({x, y}) /\ <<y>> \in Seq({x, y}) /\ <<>> \in Seq({x, y})
    BY <2>1, ShortSeq
  <2>. QED BY <2>2
<1>2. /\ Len(a \o b) = Len(a) + Len(b)
      /\ \A i \in 1 .. Len(a \o b) :
           (a \o b)[i] = IF i <= Len(a) THEN a[i] ELSE b[i - Len(a)]
      /\ Len(a) \in Nat /\ Len(b) \in Nat
  BY <1>1
<1>3. CASE a = <<>>
  <2>1. Len(a) = 0 /\ Len(b) \in {0, 1} /\ (Len(b) = 1 => b[1] = y)
    BY <1>3
  <2>. QED BY <1>2, <2>1
<1>4. CASE a = <<x>>
  <2>1. Len(a) = 1 /\ a[1] = x /\ Len(b) \in {0, 1} /\ (Len(b) = 1 => b[1] = y)
    BY <1>4
  <2>. QED BY <1>2, <1>4, <2>1
<1>. QED BY <1>3, <1>4

(* What r owes is its own; the only change of status in it is the first. *)
LEMMA OwesParts ==
  ASSUME NEW r \in Requests, NEW i \in 1 .. Len(Owes(r))
  PROVE  /\ Owes(r)[i].by = r /\ Owes(r)[i].story = req[r].story
         /\ Owes(r)[i].kind = "status_change" =>
              /\ i = 1 /\ req[r].tool.status \notin {"keep", req[r].prev.status}
              /\ Owes(r)[i] =
                   LogEntry(r, "status_change", req[r].prev.status, req[r].tool.status)
<1>. DEFINE t == req[r].tool
            change == LogEntry(r, "status_change", req[r].prev.status, t.status)
            kind == IF t.owner = "self" /\ (t.door = "rest" => req[r].prev.owner = Nobody)
                    THEN "claim" ELSE "edit"
            other == LogEntry(r, kind, "keep", "keep")
<1>1. change.by = r /\ change.story = req[r].story
  BY DEF LogEntry
<1>2. other.by = r /\ other.story = req[r].story /\ other.kind # "status_change"
  BY DEF LogEntry
<1>3. /\ StatusEntry(r) \in {<<>>, <<change>>}
      /\ StatusEntry(r) = <<change>> => t.status \notin {"keep", req[r].prev.status}
  <2>1. <<change>> # <<>>
    OBVIOUS
  <2>. QED BY <2>1 DEF StatusEntry
<1>4. \E a \in {<<>>, <<change>>}, b \in {<<>>, <<other>>} :
        /\ Owes(r) = a \o b
        /\ a = <<change>> => t.status \notin {"keep", req[r].prev.status}
  <2>1. CASE t.door = "rest"
    <3>. DEFINE b == IF t.owner = "self" /\ req[r].prev.owner = Nobody
                     THEN <<LogEntry(r, "claim", "keep", "keep")>>
                     ELSE IF t.owner # "keep" \/ t.ac # NoEdit \/ t.text
                          THEN <<LogEntry(r, "edit", "keep", "keep")>> ELSE <<>>
    <3>1. Owes(r) = StatusEntry(r) \o b
      BY <2>1 DEF Owes, RestOwes
    <3>2. b \in {<<>>, <<other>>}
      BY <2>1
    <3>. QED BY <1>3, <3>1, <3>2
  <2>2. CASE t.door # "rest" /\ t.status # "keep"
    <3>1. Owes(r) = StatusEntry(r)
      BY <2>2 DEF Owes, McpOwes
    <3>2. StatusEntry(r) = StatusEntry(r) \o <<>>
      <4>1. StatusEntry(r) \in Seq({change})
        BY <1>3, ShortSeq
      <4>2. \A z \in Seq({change}) : z = z \o <<>>
        OBVIOUS
      <4>. QED BY <4>1, <4>2
    <3>. QED BY <1>3, <3>1, <3>2
  <2>3. CASE t.door # "rest" /\ t.status = "keep"
    <3>1. Owes(r) = <<other>>
      BY <2>3 DEF Owes, McpOwes
    <3>2. <<other>> = <<>> \o <<other>>
      OBVIOUS
    <3>3. <<>> # <<change>>
      OBVIOUS
    <3>. QED BY <3>1, <3>2, <3>3
  <2>. QED BY <2>1, <2>2, <2>3
<1>. HIDE DEF change, other
<1>5. PICK a \in {<<>>, <<change>>}, b \in {<<>>, <<other>>} :
        /\ Owes(r) = a \o b
        /\ a = <<change>> => t.status \notin {"keep", req[r].prev.status}
  BY <1>4
<1>6. \/ Owes(r)[i] = other
      \/ i = 1 /\ a = <<change>> /\ Owes(r)[i] = change
  BY <1>5, TwoEntries
<1>. QED BY <1>1, <1>2, <1>5, <1>6 DEF change
LEMMA HadAppend ==
  ASSUME NEW T, NEW c \in Seq(T), NEW y \in T
  PROVE  HadOf(Append(c, y)) = HadOf(c) \union {y.status}
<1>. DEFINE d == Append(c, y)
<1>1. /\ Len(d) = Len(c) + 1
      /\ \A i \in 1 .. Len(c) : d[i] = c[i]
      /\ d[Len(c) + 1] = y
  BY AppendParts
<1>2. Len(c) \in Nat
  OBVIOUS
<1>. HIDE DEF d
<1>3. ASSUME NEW i \in 1 .. Len(d)
      PROVE  d[i] = y \/ \E j \in 1 .. Len(c) : c[j] = d[i]
  BY <1>1, <1>2
<1>4. ASSUME NEW j \in 1 .. Len(c)
      PROVE  \E i \in 1 .. Len(d) : d[i] = c[j]
  <2>1. j \in 1 .. Len(d) /\ d[j] = c[j]
    BY <1>1, <1>2
  <2>. QED BY <2>1
<1>5. \E i \in 1 .. Len(d) : d[i] = y
  <2>1. Len(c) + 1 \in 1 .. Len(d)
    BY <1>1, <1>2
  <2>. QED BY <1>1, <2>1
<1>6. ASSUME NEW z \in HadOf(d) PROVE z \in HadOf(c) \union {y.status}
  <2>1. PICK i \in 1 .. Len(d) : z = d[i].status
    BY DEF HadOf
  <2>2. CASE d[i] = y
    BY <2>1, <2>2
  <2>3. CASE \E j \in 1 .. Len(c) : c[j] = d[i]
    BY <2>1, <2>3 DEF HadOf
  <2>. QED BY <1>3, <2>2, <2>3
<1>7. ASSUME NEW z \in HadOf(c) \union {y.status} PROVE z \in HadOf(d)
  <2>1. CASE z = y.status
    BY <1>5, <2>1 DEF HadOf
  <2>2. CASE z \in HadOf(c)
    <3>1. PICK j \in 1 .. Len(c) : z = c[j].status
      BY <2>2 DEF HadOf
    <3>2. PICK i \in 1 .. Len(d) : d[i] = c[j]
      BY <1>4
    <3>. QED BY <3>1, <3>2 DEF HadOf
  <2>. QED BY <2>1, <2>2
<1>. QED BY <1>6, <1>7 DEF d

(* The UPDATE: a status that is set follows the ones there were, and is put on
   record with one of them, or not at all. *)
LEMMA UpdateLedger ==
  ASSUME BoardInv, LedgerInv, NEW r \in Requests, Update(r), Alive(req[r].story)
  PROVE  /\ LedgerInv'
         /\ \A x \in Stories : row'[x] = Deleted <=> row[x] = Deleted
         /\ \A e \in Logged : e.by # r
         /\ \/ Logged' = Logged
            \/ /\ req[r].tool.status \notin {"keep", req[r].prev.status}
               /\ req[r].prev.status \in HadIn(req[r].story)
               /\ Logged' = Logged \union
                    {LogEntry(r, "status_change", req[r].prev.status, req[r].tool.status)}
<1>. DEFINE s == req[r].story
            t == req[r].tool
            next == Then(r, Owes(r))
            change == LogEntry(r, "status_change", req[r].prev.status, t.status)
            entry == Status(t.status, r)
            T == [status : Statuses, by : Requests \union {"first"}]
<1>1. TypeOK /\ LocalsIn(req[r]) /\ req[r].pc = "write" /\ s \in Stories
  BY DEF BoardInv, Update, LocalsIn
<1>2. /\ row' = [row EXCEPT ![s] = Patched(r)]
      /\ req' = [req EXCEPT ![r] = next]
      /\ course' = IF t.status = "keep" THEN course
                   ELSE [course EXCEPT ![s] = Append(course[s], entry)]
      /\ log' = log
  BY DEF Update, Become
<1>3. Patched(r) \in Story /\ Patched(r) \notin {Unborn, Deleted} /\ row[s] \in Story
      /\ Patched(r).status = IF t.status = "keep" THEN row[s].status ELSE t.status
  <2>1. Patched(r) \in Story /\ row[s] \in Story
    BY <1>1, PatchedType, AliveStory
  <2>2. Patched(r).status \in Statuses
    BY <2>1 DEF Story
  <2>3. Unborn.status = "unborn" /\ Deleted.status = "deleted"
    BY DEF Unborn, Deleted
  <2>4. Patched(r).status = IF t.status = "keep" THEN row[s].status ELSE t.status
    BY DEF Patched
  <2>. QED BY <2>1, <2>2, <2>3, <2>4, BoardAssumption
<1>4. t.status \in Statuses \union {"keep"} /\ course[s] \in Seq(T)
      /\ (t.status # "keep" => entry \in T) /\ entry.status = t.status
  BY <1>1, LocalTypes, CourseTypes DEF Status
<1>5. /\ next.owes = Owes(r)
      /\ next.pc = IF Owes(r) = <<>> THEN "done" ELSE "emit"
      /\ Owes(r) # <<>> => next.story = s
  BY ThenParts
<1>6. \A i \in 1 .. Len(Owes(r)) :
        /\ Owes(r)[i].by = r /\ Owes(r)[i].story = s
        /\ Owes(r)[i].kind = "status_change" =>
             i = 1 /\ t.status \notin {"keep", req[r].prev.status} /\ Owes(r)[i] = change
  BY OwesParts
<1>7. /\ req[r].owes = <<>>
      /\ \A e \in log : e.kind = "status_change" => e.by # r
      /\ t.status # "keep" => req[r].prev.status \in HadIn(s)
      /\ row[s].status \in HadIn(s)
  BY <1>1 DEF LedgerInv, CourseInv, OwesIn, ReadIn
<1>. HIDE DEF next, change, entry, T
<1>8. req'[r] = next /\ \A q \in Requests \ {r} : req'[q] = req[q]
  BY <1>1, <1>2 DEF TypeOK
<1>9. row'[s] = Patched(r) /\ \A x \in Stories \ {s} : row'[x] = row[x]
  BY <1>1, <1>2 DEF TypeOK
<1>10. /\ course'[s] = IF t.status = "keep" THEN course[s] ELSE Append(course[s], entry)
       /\ \A x \in Stories \ {s} : course'[x] = course[x]
  BY <1>1, <1>2 DEF TypeOK
<1>11. \A x \in Stories \ {s} : HadIn(x)' = HadIn(x) /\ (Alive(x)' <=> Alive(x))
  BY <1>9, <1>10 DEF HadIn, Alive
<1>12. \A x \in Stories : x = s =>
         /\ Alive(x)' /\ Alive(x)
         /\ HadIn(x)' = IF t.status = "keep" THEN HadIn(x) ELSE HadIn(x) \union {t.status}
  <2>1. t.status # "keep" => HadOf(course'[s]) = HadIn(s) \union {t.status}
    BY <1>4, <1>10, HadAppend DEF HadIn
  <2>2. t.status = "keep" => HadOf(course'[s]) = HadIn(s)
    BY <1>10 DEF HadIn
  <2>3. \A x \in Stories : HadIn(x)' = HadOf(course'[x])
    BY DEF HadIn
  <2>4. \A x \in Stories : Alive(x)' <=> row'[x] \notin {Unborn, Deleted}
    BY DEF Alive
  <2>. QED BY <1>3, <1>9, <2>1, <2>2, <2>3, <2>4
<1>13. LedgerInv'
  <2>1. OwesIn(r)'
    <3>1. req'[r].owes = Owes(r)
      BY <1>5, <1>8
    <3>2. \A i \in 1 .. Len(Owes(r)) :
            /\ Owes(r)[i].by = r /\ Owes(r)[i].story = req'[r].story
            /\ Owes(r)[i].kind = "status_change" => i = 1
      <4>1. CASE Owes(r) = <<>>
        <5>1. 1 .. Len(<<>>) = {}
          OBVIOUS
        <5>. QED BY <4>1, <5>1
      <4>2. CASE Owes(r) # <<>>
        BY <1>5, <1>6, <1>8, <4>2
      <4>. QED BY <4>1, <4>2
    <3>3. req'[r].pc = "emit" => row'[req'[r].story] # Unborn
      BY <1>3, <1>5, <1>8, <1>9
    <3>. QED BY <1>2, <1>5, <1>7, <1>8, <3>1, <3>2, <3>3 DEF OwesIn
  <2>2. ReadIn(r)'
    BY <1>5, <1>8 DEF ReadIn
  <2>3. \A e \in log' : e \in log
    BY <1>2
  <2>4. \A x \in Stories : row'[x] = Unborn => row[x] = Unborn /\ course'[x] = course[x]
    BY <1>3, <1>9, <1>10
  <2>5. \A x \in Stories : HadIn(x) \subseteq HadIn(x)'
    BY <1>11, <1>12
  <2>6. \A x \in Stories : Alive(x)' => row'[x].status \in HadIn(x)'
    <3>1. ASSUME NEW x \in Stories, x = s PROVE row'[x].status \in HadIn(x)'
      BY <1>3, <1>7, <1>9, <1>12, <3>1
    <3>2. ASSUME NEW x \in Stories \ {s}, Alive(x)' PROVE row'[x].status \in HadIn(x)'
      BY <1>9, <1>11, <3>2 DEF LedgerInv, CourseInv
    <3>. QED BY <3>1, <3>2
  <2>7. \A q \in Requests \ {r}, x \in Stories :
          req[q].pc = "write" /\ req[q].story = x /\ Alive(x)' => Alive(x)
    BY <1>11, <1>12
  <2>. QED BY <1>8, <2>1, <2>2, <2>3, <2>4, <2>5, <2>6, <2>7, LedgerMoves
<1>14. \A x \in Stories : row'[x] = Deleted <=> row[x] = Deleted
  <2>1. row[s] # Deleted
    BY DEF Alive
  <2>. QED BY <1>3, <1>9, <2>1
<1>15. Owed = Others(r) /\ Owed' = Others(r) \union OwedBy(req'[r])
  BY <1>7, <1>8, OwedParts, NothingOwed
<1>16. \A e \in Others(r) : e.by # r
  BY DEF Others, OwedBy, LedgerInv, OwesIn
<1>17. \A e \in Logged : e.by # r
  BY <1>7, <1>15, <1>16 DEF Logged
<1>18. \A e \in OwedBy(req'[r]) :
         /\ e.story = s
         /\ e.kind = "status_change" =>
              e = change /\ t.status \notin {"keep", req[r].prev.status}
  <2>1. OwedBy(req'[r]) = {Owes(r)[i] : i \in 1 .. Len(Owes(r))}
    BY <1>5, <1>8 DEF OwedBy
  <2>. QED BY <1>6, <2>1
<1>19. \A e \in log \union Owed : Alive(e.story)' <=> Alive(e.story)
  BY <1>1, <1>11, <1>12, EntriesOfStories
<1>20. CASE \A e \in OwedBy(req'[r]) : e.kind # "status_change"
  <2>1. \A e : e \in Logged' <=> e \in Logged
    <3>1. \A e : e.kind = "status_change" =>
            (e \in log' \union Owed' <=> e \in log \union Owed)
      BY <1>2, <1>15, <1>20
    <3>. QED BY <1>19, <3>1 DEF Logged
  <2>. QED BY <1>13, <1>14, <1>17, <2>1
<1>21. ASSUME NEW e0 \in OwedBy(req'[r]), e0.kind = "status_change"
       PROVE  Logged' = Logged \union {e0} /\ e0 = change
              /\ t.status \notin {"keep", req[r].prev.status}
  <2>1. /\ e0 = change /\ e0.story = s
        /\ t.status \notin {"keep", req[r].prev.status}
    BY <1>18, <1>21
  <2>2. \A e \in OwedBy(req'[r]) : e.kind = "status_change" => e = e0
    BY <1>18, <2>1
  <2>3. \A e : e.kind = "status_change" =>
          (e \in log' \union Owed' <=> e \in log \union Owed \/ e = e0)
    BY <1>2, <1>15, <1>21, <2>2
  <2>4. Alive(e0.story)'
    BY <1>1, <1>12, <2>1
  <2>5. \A e : e \in Logged' <=> e \in Logged \/ e = e0
    BY <1>19, <1>21, <2>3, <2>4 DEF Logged
  <2>. QED BY <2>1, <2>5
<1>22. CASE \E e \in OwedBy(req'[r]) : e.kind = "status_change"
  <2>1. PICK e0 \in OwedBy(req'[r]) : e0.kind = "status_change"
    BY <1>22
  <2>. QED BY <1>7, <1>13, <1>14, <1>17, <1>21, <2>1 DEF change
<1>. QED BY <1>20, <1>22
-----------------------------------------------------------------------------
(* The refinement *)

LEMMA SeenParts ==
  ASSUME NEW T, NEW c \in Seq(T)
  PROVE  /\ Seen(c) \in Seq({x.status : x \in T})
         /\ Len(Seen(c)) = Len(c)
         /\ \A i \in 1 .. Len(c) : Seen(c)[i] = c[i].status
<1>. DEFINE f == [i \in 1 .. Len(c) |-> c[i].status]
<1>1. \A i \in 1 .. Len(c) : c[i].status \in {x.status : x \in T}
  OBVIOUS
<1>2. f \in [1 .. Len(c) -> {x.status : x \in T}] /\ Len(c) \in Nat
  BY <1>1
<1>3. f \in Seq({x.status : x \in T}) /\ Len(f) = Len(c)
  <2>. HIDE DEF f
  <2>. QED BY <1>2
<1>. QED BY <1>3 DEF Seen

LEMMA SeenAppend ==
  ASSUME NEW T, NEW c \in Seq(T), NEW y \in T
  PROVE  Seen(Append(c, y)) = Append(Seen(c), y.status)
<1>. DEFINE S == {x.status : x \in T}
            a == Seen(Append(c, y))
            b == Append(Seen(c), y.status)
<1>1. Append(c, y) \in Seq(T) /\ y.status \in S
  BY SeqAppend
<1>2. /\ a \in Seq(S) /\ Len(a) = Len(Append(c, y))
      /\ \A i \in 1 .. Len(Append(c, y)) : a[i] = Append(c, y)[i].status
  BY <1>1, SeenParts
<1>3. /\ Seen(c) \in Seq(S) /\ Len(Seen(c)) = Len(c)
      /\ \A i \in 1 .. Len(c) : Seen(c)[i] = c[i].status
  BY SeenParts
<1>4. /\ Len(Append(c, y)) = Len(c) + 1
      /\ \A i \in 1 .. Len(c) : Append(c, y)[i] = c[i]
      /\ Append(c, y)[Len(c) + 1] = y
  BY AppendParts
<1>. HIDE DEF S
<1>5. /\ b \in Seq(S) /\ Len(b) = Len(Seen(c)) + 1
      /\ \A i \in 1 .. Len(Seen(c)) : b[i] = Seen(c)[i]
      /\ b[Len(Seen(c)) + 1] = y.status
  BY <1>1, <1>3, AppendParts, SeqAppend
<1>6. Len(c) \in Nat
  OBVIOUS
<1>. HIDE DEF a, b
<1>7. Len(a) = Len(b) /\ \A i \in 1 .. Len(a) : a[i] = b[i]
  <2>1. Len(a) = Len(c) + 1 /\ Len(b) = Len(c) + 1
    BY <1>2, <1>3, <1>4, <1>5
  <2>2. \A i \in 1 .. Len(c) : a[i] = b[i]
    BY <1>2, <1>3, <1>4, <1>5, <1>6
  <2>3. a[Len(c) + 1] = b[Len(c) + 1]
    BY <1>2, <1>3, <1>4, <1>5, <1>6
  <2>. QED BY <1>6, <2>1, <2>2, <2>3
<1>8. a = b
  BY <1>2, <1>5, <1>7
<1>. QED BY <1>8 DEF a, b

LEMMA SeenOne ==
  ASSUME NEW x
  PROVE  Seen(<<x>>) = <<x.status>> /\ Seen(<<>>) = <<>>
<1>1. Len(<<x>>) = 1 /\ <<x>>[1] = x
  OBVIOUS
<1>2. Seen(<<x>>) = [i \in 1 .. 1 |-> x.status]
  BY <1>1 DEF Seen
<1>3. [i \in 1 .. 1 |-> x.status] = <<x.status>>
  OBVIOUS
<1>4. Seen(<<>>) = <<>>
  BY DEF Seen
<1>. QED BY <1>2, <1>3, <1>4
LEMMA CourseIs ==
  ASSUME TypeOK, NEW s \in Stories
  PROVE  /\ statusCourse[s] = Seen(course[s])
         /\ Ledger!Had(s) = HadIn(s)
         /\ statusCourse[s] = <<>> <=> course[s] = <<>>
<1>1. statusCourse[s] = Seen(course[s])
  BY DEF statusCourse, Seen
<1>. DEFINE T == [status : Statuses, by : Requests \union {"first"}]
<1>2. course[s] \in Seq(T)
  BY CourseTypes
<1>3. /\ Seen(course[s]) \in Seq({x.status : x \in T})
      /\ Len(Seen(course[s])) = Len(course[s])
      /\ \A i \in 1 .. Len(course[s]) : Seen(course[s])[i] = course[s][i].status
  BY <1>2, SeenParts
<1>. HIDE DEF T
<1>4. Ledger!Had(s) = HadIn(s)
  BY <1>1, <1>3 DEF Ledger!Had, HadIn, HadOf
<1>5. statusCourse[s] = <<>> <=> course[s] = <<>>
  BY <1>1, <1>2, <1>3, SeqEmpty
<1>. QED BY <1>1, <1>4, <1>5

(* Nothing the ledger speaks of changes. *)
LEMMA LedgerStays ==
  ASSUME TypeOK, TypeOK', Logged' = Logged, course' = course,
         \A x \in Stories : row'[x] = Deleted <=> row[x] = Deleted
  PROVE  UNCHANGED Ledger!ledgerVars
<1>1. statusTrail' = statusTrail
  BY TrailIs, TrailWas DEF Told
<1>2. statusCourse' = statusCourse
  BY DEF statusCourse
<1>3. deleted' = deleted
  BY DEF deleted
<1>. QED BY <1>1, <1>2, <1>3 DEF Ledger!ledgerVars

(* An entry that is dropped is lost to the ledger. *)
LEMMA DropRefines ==
  ASSUME TypeOK, TypeOK', NEW r \in Requests, Drops(r), UNCHANGED <<row, course>>
  PROVE  [Ledger!LedgerNext]_(Ledger!ledgerVars)
<1>1. CASE Logged' = Logged
  BY <1>1, LedgerStays
<1>2. ASSUME NEW e \in Logged, Logged' = Logged \ {e}
      PROVE  Ledger!LedgerNext
  <2>1. statusTrail = {Told(x) : x \in Logged} /\ statusTrail' = {Told(x) : x \in Logged \ {e}}
    BY <1>2, TrailIs, TrailWas DEF Told
  <2>2. \A x \in Logged : Told(x) = Told(e) => x = e
    <3>1. \A x \in Logged : x \in Entry /\ x.kind = "status_change"
      <4>1. \A x \in Owed : x \in Entry
        <5>1. ASSUME NEW q \in Requests, NEW i \in 1 .. Len(req[q].owes)
              PROVE  req[q].owes[i] \in Entry
          <6>1. req[q].owes \in Seq(Entry)
            BY LocalTypes
          <6>. QED BY <6>1
        <5>. QED BY <5>1 DEF Owed
      <4>2. \A x \in log : x \in Entry
        BY DEF TypeOK
      <4>. QED BY <4>1, <4>2 DEF Logged
    <3>2. ASSUME NEW x \in Logged, Told(x) = Told(e) PROVE x = e
      <4>1. x.by = e.by /\ x.story = e.story /\ x.from = e.from /\ x.to = e.to
        BY <3>2 DEF Told
      <4>2. x.kind = e.kind
        BY <1>2, <3>1
      <4>. QED BY <1>2, <3>1, <4>1, <4>2 DEF Entry
    <3>. QED BY <3>2
  <2>3. Told(e) \in statusTrail /\ statusTrail' = statusTrail \ {Told(e)}
    <3>. HIDE DEF Told
    <3>1. \A y : y \in statusTrail' <=> y \in statusTrail /\ y # Told(e)
      BY <1>2, <2>1, <2>2
    <3>. QED BY <1>2, <2>1, <3>1
  <2>4. statusCourse' = statusCourse /\ deleted' = deleted
    BY DEF statusCourse, deleted
  <2>. QED BY <2>3, <2>4 DEF Ledger!LedgerNext, Ledger!Lose
<1>. QED BY <1>1, <1>2 DEF Drops
LEMMA UpdateRefines ==
  ASSUME BoardInv, LedgerInv, TypeOK', NEW r \in Requests, Update(r)
  PROVE  [Ledger!LedgerNext]_(Ledger!ledgerVars)
<1>. DEFINE s == req[r].story
            t == req[r].tool
            prev == req[r].prev.status
            T == [status : Statuses, by : Requests \union {"first"}]
            entry == Status(t.status, r)
<1>1. TypeOK /\ req[r].pc = "write" /\ s \in Stories
  BY DEF BoardInv, Update, LocalsIn
<1>2. CASE ~Alive(s)
  <2>1. req' = [req EXCEPT ![r] = Done] /\ UNCHANGED <<row, log, course>>
    BY <1>2 DEF Update, Become, historyVars
  <2>2. Logged' = Logged
    BY <1>1, <2>1, EndLedger
  <2>. QED BY <1>1, <2>1, <2>2, LedgerStays
<1>3. CASE Alive(s)
  <2>1. /\ \A x \in Stories : row'[x] = Deleted <=> row[x] = Deleted
        /\ \A e \in Logged : e.by # r
        /\ \/ Logged' = Logged
           \/ /\ t.status \notin {"keep", prev} /\ prev \in HadIn(s)
              /\ Logged' = Logged \union {LogEntry(r, "status_change", prev, t.status)}
    BY <1>3, UpdateLedger
  <2>2. course' = IF t.status = "keep" THEN course
                  ELSE [course EXCEPT ![s] = Append(course[s], entry)]
    BY <1>3 DEF Update
  <2>3. t.status \in Statuses \union {"keep"} /\ course[s] \in Seq(T)
        /\ (t.status # "keep" => entry \in T) /\ entry.status = t.status
    BY <1>1, LocalTypes, CourseTypes DEF Status
  <2>. HIDE DEF entry, T
  <2>4. CASE t.status = "keep"
    BY <1>1, <2>1, <2>2, <2>4, LedgerStays
  <2>5. CASE t.status # "keep"
    <3>1. statusCourse' = [statusCourse EXCEPT ![s] = Append(statusCourse[s], t.status)]
      <4>1. statusCourse = [x \in Stories |-> Seen(course[x])]
            /\ statusCourse' = [x \in Stories |-> Seen(course'[x])]
        BY DEF statusCourse, Seen
      <4>2. \A x \in Stories : course'[x] =
              IF x = s THEN Append(course[s], entry) ELSE course[x]
        BY <1>1, <2>2, <2>5 DEF TypeOK
      <4>3. Seen(Append(course[s], entry)) = Append(Seen(course[s]), t.status)
        BY <2>3, <2>5, SeenAppend
      <4>. QED BY <1>1, <4>1, <4>2, <4>3
    <3>2. statusCourse[s] # <<>> /\ Ledger!Had(s) = HadIn(s) /\ s \notin deleted
      <4>1. HadIn(s) # {}
        BY <1>1, <1>3 DEF LedgerInv, CourseInv
      <4>2. course[s] # <<>>
        <5>1. 1 .. Len(<<>>) = {}
          OBVIOUS
        <5>. QED BY <4>1, <5>1 DEF HadIn, HadOf
      <4>. QED BY <1>1, <1>3, <4>2, CourseIs DEF deleted, Alive
    <3>3. deleted' = deleted
      BY <2>1 DEF deleted
    <3>4. statusTrail = {Told(e) : e \in Logged} /\ statusTrail' = {Told(e) : e \in Logged'}
      BY <1>1, TrailIs, TrailWas DEF Told
    <3>5. \A e \in statusTrail : e.by # r
      BY <2>1, <3>4 DEF Told
    <3>6. t.status \in Statuses
      BY <2>3, <2>5
    <3>7. CASE Logged' = Logged
      <4>1. statusTrail' = statusTrail
        BY <3>4, <3>7
      <4>2. Ledger!Move(r, s)
        BY <3>1, <3>2, <3>3, <3>5, <3>6, <4>1 DEF Ledger!Move
      <4>. QED BY <1>1, <4>2 DEF Ledger!LedgerNext
    <3>8. CASE /\ t.status \notin {"keep", prev} /\ prev \in HadIn(s)
               /\ Logged' = Logged \union {LogEntry(r, "status_change", prev, t.status)}
      <4>. DEFINE change == LogEntry(r, "status_change", prev, t.status)
                  told == [by |-> r, story |-> s, from |-> prev, to |-> t.status]
      <4>1. Told(change) = told
        BY DEF Told, LogEntry
      <4>. HIDE DEF change
      <4>2. Logged' = Logged \union {change}
        BY <3>8 DEF change
      <4>3. statusTrail' = statusTrail \union {Told(change)}
        <5>. HIDE DEF Told
        <5>. QED BY <3>4, <4>2
      <4>4. statusTrail' = statusTrail \union {told}
        BY <4>1, <4>3
      <4>5. Ledger!Move(r, s)
        BY <3>1, <3>2, <3>3, <3>5, <3>6, <3>8, <4>4 DEF Ledger!Move
      <4>. QED BY <1>1, <4>5 DEF Ledger!LedgerNext
    <3>. QED BY <2>1, <3>7, <3>8
  <2>. QED BY <2>4, <2>5
<1>. QED BY <1>2, <1>3

LEMMA InsertRefines ==
  ASSUME BoardInv, LedgerInv, TypeOK', NEW r \in Requests, Insert(r)
  PROVE  [Ledger!LedgerNext]_(Ledger!ledgerVars)
<1>. DEFINE s == req[r].story
            t == req[r].tool
<1>1. TypeOK /\ s \in Stories /\ t.status \in Statuses
  BY DEF BoardInv, Insert, LocalsIn
<1>2. /\ Logged' = Logged
      /\ course[s] = <<>>
      /\ \A x \in Stories : row'[x] = Deleted <=> row[x] = Deleted
  BY InsertLedger
<1>3. course' = [course EXCEPT ![s] = <<Status(t.status, r)>>]
  BY DEF Insert
<1>4. statusTrail' = statusTrail
  BY <1>1, <1>2, TrailIs, TrailWas DEF Told
<1>5. deleted' = deleted
  BY <1>2 DEF deleted
<1>6. statusCourse[s] = <<>>
  BY <1>1, <1>2, CourseIs
<1>7. statusCourse' = [statusCourse EXCEPT ![s] = <<t.status>>]
  <2>1. statusCourse = [x \in Stories |-> Seen(course[x])]
        /\ statusCourse' = [x \in Stories |-> Seen(course'[x])]
    BY DEF statusCourse, Seen
  <2>2. \A x \in Stories : course'[x] =
          IF x = s THEN <<Status(t.status, r)>> ELSE course[x]
    BY <1>1, <1>3 DEF TypeOK
  <2>3. Seen(<<Status(t.status, r)>>) = <<t.status>>
    BY SeenOne DEF Status
  <2>. QED BY <1>1, <2>1, <2>2, <2>3
<1>8. Ledger!Begin(s)
  BY <1>1, <1>4, <1>5, <1>6, <1>7 DEF Ledger!Begin
<1>. QED BY <1>1, <1>8 DEF Ledger!LedgerNext

LEMMA RemoveRefines ==
  ASSUME BoardInv, LedgerInv, TypeOK', NEW r \in Requests, Remove(r)
  PROVE  [Ledger!LedgerNext]_(Ledger!ledgerVars)
<1>. DEFINE s == req[r].story
<1>1. TypeOK /\ s \in Stories
  BY DEF BoardInv, Remove, LocalsIn
<1>2. Logged' = {e \in Logged : e.story # s}
  BY RemoveLedger
<1>3. row' = [row EXCEPT ![s] = Deleted] /\ course' = course
  BY DEF Remove, historyVars
<1>4. statusCourse' = statusCourse
  BY <1>3 DEF statusCourse
<1>5. deleted' = deleted \union {s}
  BY <1>1, <1>3 DEF deleted, TypeOK
<1>6. statusTrail' = {e \in statusTrail : e.story # s}
  <2>1. /\ statusTrail = {Told(e) : e \in Logged}
        /\ statusTrail' = {Told(e) : e \in {x \in Logged : x.story # s}}
    BY <1>1, <1>2, TrailIs, TrailWas DEF Told
  <2>2. \A e : Told(e).story = e.story
    BY DEF Told
  <2>. QED BY <2>1, <2>2
<1>7. Ledger!Erase(s)
  BY <1>4, <1>5, <1>6 DEF Ledger!Erase
<1>. QED BY <1>1, <1>7 DEF Ledger!LedgerNext

(* Every step of the board keeps the invariant and is a step of the ledger, or
   none. *)
LEMMA BoardRefines ==
  ASSUME BoardInv, LedgerInv, BoardInv', [Next]_vars
  PROVE  LedgerInv' /\ [Ledger!LedgerNext]_(Ledger!ledgerVars)
<1>1. TypeOK /\ TypeOK'
  BY DEF BoardInv
<1>2. CASE UNCHANGED vars
  <2>1. UNCHANGED <<row, log, req, course>>
    BY <1>2 DEF vars, historyVars
  <2>2. LedgerInv'
    BY <2>1 DEF LedgerInv, OwesIn, ReadIn, CourseInv, HadIn, HadOf, Alive
  <2>3. Owed' = Owed
    BY <2>1 DEF Owed
  <2>4. Logged' = Logged
    BY <2>1, <2>3 DEF Logged, Alive
  <2>. QED BY <1>1, <2>1, <2>2, <2>4, LedgerStays
<1>3. ASSUME NEW r \in Requests, NEW t \in Tools, NEW s \in Stories, Start(r, t, s)
      PROVE  LedgerInv' /\ [Ledger!LedgerNext]_(Ledger!ledgerVars)
  BY <1>1, <1>3, StartLedger, LedgerStays DEF Start
<1>4. ASSUME NEW r \in Requests, Load(r)
      PROVE  LedgerInv' /\ [Ledger!LedgerNext]_(Ledger!ledgerVars)
  BY <1>1, <1>4, LoadLedger, LedgerStays DEF Load, historyVars
<1>5. ASSUME NEW r \in Requests, Previous(r)
      PROVE  LedgerInv' /\ [Ledger!LedgerNext]_(Ledger!ledgerVars)
  BY <1>1, <1>5, PreviousLedger, LedgerStays DEF Previous, historyVars
<1>6. ASSUME NEW r \in Requests, Update(r)
      PROVE  LedgerInv' /\ [Ledger!LedgerNext]_(Ledger!ledgerVars)
  <2>1. CASE Alive(req[r].story)
    BY <1>1, <1>6, <2>1, UpdateLedger, UpdateRefines
  <2>2. CASE ~Alive(req[r].story)
    <3>1. /\ req' = [req EXCEPT ![r] = Done] /\ UNCHANGED <<row, log, course>>
          /\ req[r].pc = "write"
      BY <1>6, <2>2 DEF Update, Become, historyVars
    <3>. QED BY <1>1, <1>6, <3>1, EndLedger, UpdateRefines
  <2>. QED BY <2>1, <2>2
<1>7. ASSUME NEW r \in Requests, Insert(r)
      PROVE  LedgerInv' /\ [Ledger!LedgerNext]_(Ledger!ledgerVars)
  BY <1>1, <1>7, InsertLedger, InsertRefines
<1>8. ASSUME NEW r \in Requests, SkipDuplicate(r)
      PROVE  LedgerInv' /\ [Ledger!LedgerNext]_(Ledger!ledgerVars)
  BY <1>1, <1>8, SkipDuplicateLedger, LedgerStays DEF SkipDuplicate, historyVars
<1>9. ASSUME NEW r \in Requests, Remove(r)
      PROVE  LedgerInv' /\ [Ledger!LedgerNext]_(Ledger!ledgerVars)
  BY <1>1, <1>9, RemoveLedger, RemoveRefines
<1>10. ASSUME NEW r \in Requests, Emit(r)
       PROVE  LedgerInv' /\ [Ledger!LedgerNext]_(Ledger!ledgerVars)
  BY <1>1, <1>10, EmitLedger, LedgerStays DEF Emit, historyVars
<1>11. ASSUME NEW r \in Requests, EmitFails(r)
       PROVE  LedgerInv' /\ [Ledger!LedgerNext]_(Ledger!ledgerVars)
  BY <1>1, <1>11, EmitFailsLedger, DropRefines DEF EmitFails
<1>12. ASSUME NEW r \in Requests, Cut(r)
       PROVE  LedgerInv' /\ [Ledger!LedgerNext]_(Ledger!ledgerVars)
  BY <1>1, <1>12, CutLedger, DropRefines DEF Cut
<1>. QED
  BY <1>2, <1>3, <1>4, <1>5, <1>6, <1>7, <1>8, <1>9, <1>10, <1>11, <1>12 DEF Next

LEMMA BoardBegins == Init => Ledger!LedgerInit
<1>. SUFFICES ASSUME Init PROVE Ledger!LedgerInit
  OBVIOUS
<1>1. statusCourse \in [Stories -> UNION {[1 .. n -> Statuses] : n \in {0, 1}}]
  <2>1. ASSUME NEW s \in Stories
        PROVE  \E n \in {0, 1} :
                 [i \in 1 .. Len(course[s]) |-> course[s][i].status] \in [1 .. n -> Statuses]
    <3>1. CASE s \in Existing
      <4>1. course[s] = <<Status("todo", "first")>> /\ "todo" \in Statuses
        BY <3>1, ToolAssumption DEF Init
      <4>2. Len(course[s]) = 1 /\ course[s][1].status = "todo"
        BY <4>1 DEF Status
      <4>. QED BY <4>1, <4>2
    <3>2. CASE s \notin Existing
      <4>1. course[s] = <<>>
        BY <3>2 DEF Init
      <4>2. Len(course[s]) = 0
        BY <4>1
      <4>. QED BY <4>2
    <3>. QED BY <3>1, <3>2
  <2>. QED BY <2>1 DEF statusCourse
<1>2. statusTrail = {}
  <2>1. TypeOK /\ (\A r \in Requests : OwesIn(r) /\ req[r].pc = "new") /\ log = {}
    BY InitBoard, InitLedger DEF BoardInv, LedgerInv, Init, NewRequest
  <2>2. \A r \in Requests : OwedBy(req[r]) = {}
    BY <2>1, NothingOwed DEF OwesIn
  <2>3. Owed = {}
    BY <2>2 DEF Owed, OwedBy
  <2>4. Logged = {}
    BY <2>1, <2>3 DEF Logged
  <2>. QED BY <2>1, <2>4, TrailIs
<1>3. deleted = {}
  <2>1. \A s \in Stories : row[s].status # Deleted.status
    BY BoardAssumption, ToolAssumption DEF Init, NewStory, Unborn, Deleted
  <2>. QED BY <2>1 DEF deleted
<1>. QED BY <1>1, <1>2, <1>3 DEF Ledger!LedgerInit

(* Whoever races with whom, and whatever fails, for any number of stories,
   requests and tools: a status entry of the log belongs to one accepted
   request, says what that request set, starts from a status the story has
   had, and goes with the story (stories/handlers.rs, mcp.rs, activity.rs). *)
THEOREM Refinement == Spec => ImplementsLedger
<1>1. BoardInv /\ LedgerInv /\ BoardInv' /\ [Next]_vars
        => LedgerInv' /\ [Ledger!LedgerNext]_(Ledger!ledgerVars)
  BY BoardRefines
<1>. QED BY <1>1, InitBoard, NextBoard, InitLedger, BoardBegins, PTL
     DEF Spec, ImplementsLedger, Ledger!LedgerSpec
-----------------------------------------------------------------------------
(* The history of the status *)

(* The request is about to set the status of s. *)
Setting(r, s) ==
  /\ req[r].story = s
  /\ req[r].pc \in {"load", "previous", "write"}
  /\ req[r].tool.status # "keep"

(* The entries that tell a course of s. *)
Changes(c, s) ==
  {[by |-> c[i].by, story |-> s, kind |-> "status_change",
    from |-> c[i - 1].status, to |-> c[i].status] :
     i \in {j \in 2 .. Len(c) : c[j].status # c[j - 1].status}}

(* The course ends in the status of the row.  As long as two requests that set
   the status have not met, one is under way at most, what it has read is what
   there is, and the entries tell the course. *)
HistoryAt(s) ==
  /\ Alive(s) => course[s] # <<>> /\ course[s][Len(course[s])].status = row[s].status
  /\ "status" \notin raced[s] =>
       /\ \A q, r \in Requests : Setting(q, s) /\ Setting(r, s) => q = r
       /\ \A r \in Requests :
            Setting(r, s) /\ req[r].pc = "write" /\ Alive(s) =>
              req[r].prev.status = row[s].status
       /\ Alive(s) /\ ~lost[s] => Trail(s) = Changes(course[s], s)

HistoryInv == \A s \in Stories : HistoryAt(s)

LEMMA StoryTrail ==
  ASSUME NEW s \in Stories
  PROVE  /\ Alive(s) => Trail(s) = {e \in Logged : e.story = s}
         /\ Alive(s)' => Trail(s)' = {e \in Logged' : e.story = s}
<1>1. Alive(s) => Trail(s) = {e \in Logged : e.story = s}
  BY DEF Trail, Logged
<1>2. (Alive(s) => Trail(s) = {e \in Logged : e.story = s})'
  BY DEF Trail, Logged
<1>. QED BY <1>1, <1>2

(* What a step of r does to the entries of stories other than its own. *)
LEMMA ForeignTrail ==
  ASSUME LedgerInv, LedgerInv', NEW r \in Requests,
         \A q \in Requests \ {r} : req'[q] = req[q],
         req'[r].story \in {req[r].story, NoStory},
         NEW s \in Stories, s # req[r].story,
         \A e : e.story = s => (e \in log' <=> e \in log)
  PROVE  Trail(s)' = Trail(s)
<1>1. \A e \in OwedBy(req[r]) : e.story # s
  BY DEF LedgerInv, OwesIn, OwedBy
<1>2. \A e \in OwedBy(req'[r]) : e.story # s
  BY BoardAssumption DEF LedgerInv, OwesIn, OwedBy
<1>3. \A e : e.story = s => (e \in log' \union Owed' <=> e \in log \union Owed)
  BY <1>1, <1>2, OwedParts
<1>4. \A e : e \in Trail(s)' <=> e \in Trail(s)
  BY <1>3 DEF Trail
<1>. QED BY <1>4

(* A step of r that changes neither the status nor the course of s. *)
LEMMA HistoryStays ==
  ASSUME NEW r \in Requests, NEW s \in Stories, HistoryAt(s),
         \A q \in Requests \ {r} : req'[q] = req[q],
         raced[s] \subseteq raced'[s],
         lost[s] => lost'[s],
         Alive(s)' => /\ Alive(s)
                      /\ row'[s].status = row[s].status /\ course'[s] = course[s],
         Setting(r, s)' /\ "status" \notin raced'[s] =>
           \A q \in Requests \ {r} : ~Setting(q, s),
         Setting(r, s)' /\ req'[r].pc = "write" /\ Alive(s)' =>
           req'[r].prev.status = row'[s].status,
         Alive(s)' /\ ~lost'[s] => Trail(s)' = Trail(s)
  PROVE  HistoryAt(s)'
<1>1. \A q \in Requests \ {r} : Setting(q, s)' <=> Setting(q, s)
  BY DEF Setting
<1>2. ASSUME "status" \notin raced'[s], NEW p \in Requests, NEW q \in Requests,
             Setting(p, s)', Setting(q, s)'
      PROVE  p = q
  <2>1. "status" \notin raced[s]
    BY <1>2
  <2>2. CASE p # r /\ q # r
    BY <1>1, <1>2, <2>1, <2>2 DEF HistoryAt
  <2>3. CASE p = r \/ q = r
    BY <1>1, <1>2, <2>3
  <2>. QED BY <2>2, <2>3
<1>3. ASSUME "status" \notin raced'[s], NEW q \in Requests,
             Setting(q, s)', req'[q].pc = "write", Alive(s)'
      PROVE  req'[q].prev.status = row'[s].status
  <2>1. CASE q = r
    BY <1>3, <2>1
  <2>2. CASE q # r
    <3>1. Setting(q, s) /\ req'[q] = req[q]
      BY <1>1, <1>3, <2>2
    <3>2. "status" \notin raced[s]
      BY <1>3
    <3>. QED BY <1>3, <3>1, <3>2 DEF HistoryAt
  <2>. QED BY <2>1, <2>2
<1>4. ASSUME "status" \notin raced'[s], Alive(s)', ~lost'[s]
      PROVE  Trail(s)' = Changes(course'[s], s)
  <2>1. "status" \notin raced[s] /\ Alive(s) /\ ~lost[s] /\ Trail(s)' = Trail(s)
        /\ course'[s] = course[s]
    BY <1>4
  <2>. QED BY <2>1 DEF HistoryAt
<1>5. Alive(s)' => course'[s] # <<>> /\ course'[s][Len(course'[s])].status = row'[s].status
  BY DEF HistoryAt
<1>6. (Changes(course[s], s))' = Changes(course'[s], s)
  BY DEF Changes
<1>. QED BY <1>2, <1>3, <1>4, <1>5, <1>6 DEF HistoryAt

(* A step of r that touches no row and leaves the entries of all stories as
   they are. *)
LEMMA HistoryQuiet ==
  ASSUME HistoryInv, NEW r \in Requests,
         \A q \in Requests \ {r} : req'[q] = req[q],
         UNCHANGED <<row, course, lost>>, Logged' = Logged,
         \A s \in Stories : raced[s] \subseteq raced'[s],
         \A s \in Stories :
           Setting(r, s)' =>
             /\ "status" \notin raced'[s] => \A q \in Requests \ {r} : ~Setting(q, s)
             /\ req'[r].pc = "write" /\ Alive(s) => req'[r].prev.status = row[s].status
  PROVE  HistoryInv'
<1>. SUFFICES ASSUME NEW s \in Stories PROVE HistoryAt(s)'
  BY DEF HistoryInv
<1>1. HistoryAt(s)
  BY DEF HistoryInv
<1>2. Alive(s)' <=> Alive(s)
  BY DEF Alive
<1>3. Alive(s)' => Trail(s)' = Trail(s)
  BY <1>2, StoryTrail
<1>. QED BY <1>1, <1>2, <1>3, HistoryStays

LEMMA HistoryEnds ==
  ASSUME BoardInv, LedgerInv, HistoryInv, NEW r \in Requests,
         req' = [req EXCEPT ![r] = Done], UNCHANGED <<row, log, course, raced, lost>>,
         req[r].pc # "emit"
  PROVE  HistoryInv'
<1>1. req'[r] = Done /\ \A q \in Requests \ {r} : req'[q] = req[q]
  BY DEF BoardInv, TypeOK
<1>2. \A s \in Stories : ~Setting(r, s)'
  BY <1>1, DoneState DEF Setting
<1>3. Logged' = Logged
  BY EndLedger
<1>. QED BY <1>1, <1>2, <1>3, HistoryQuiet

LEMMA InitHistory == Init => HistoryInv
<1>. SUFFICES ASSUME Init, NEW s \in Stories PROVE HistoryAt(s)
  BY DEF HistoryInv
<1>1. \A r \in Requests : req[r].pc = "new"
  BY DEF Init, NewRequest
<1>2. \A r \in Requests : ~Setting(r, s)
  BY <1>1 DEF Setting
<1>3. Trail(s) = {}
  <2>1. (\A r \in Requests : OwesIn(r)) /\ log = {}
    BY InitLedger DEF LedgerInv, Init
  <2>2. \A r \in Requests : OwedBy(req[r]) = {}
    BY <1>1, <2>1, NothingOwed DEF OwesIn
  <2>3. Owed = {}
    BY <2>2 DEF Owed, OwedBy
  <2>. QED BY <2>1, <2>3 DEF Trail
<1>4. CASE s \in Existing
  <2>1. row[s] = NewStory("todo", <<FirstItem>>) /\ course[s] = <<Status("todo", "first")>>
    BY <1>4 DEF Init
  <2>2. Len(course[s]) = 1 /\ course[s] # <<>> /\ course[s][1] = Status("todo", "first")
    BY <2>1
  <2>3. Status("todo", "first").status = "todo" /\ row[s].status = "todo"
    BY <2>1 DEF Status, NewStory
  <2>4. Changes(course[s], s) = {}
    BY <2>2 DEF Changes
  <2>. QED BY <1>2, <1>3, <2>2, <2>3, <2>4 DEF HistoryAt
<1>5. CASE s \notin Existing
  <2>1. ~Alive(s)
    BY <1>5 DEF Init, Alive
  <2>. QED BY <1>2, <2>1 DEF HistoryAt
<1>. QED BY <1>4, <1>5
LEMMA StartHistory ==
  ASSUME BoardInv, LedgerInv, HistoryInv,
         NEW r \in Requests, NEW t \in Tools, NEW s \in Stories, Start(r, t, s)
  PROVE  HistoryInv'
<1>. DEFINE next == [req[r] EXCEPT !.pc = FirstStep(t), !.tool = t, !.story = s]
<1>1. TypeOK /\ req[r].pc = "new" /\ req[r] \in RequestState
  BY LocalTypes DEF BoardInv, Start
<1>2. t \in Requested
  BY BoardAssumption
<1>3. FirstStep(t) = "write" => t.status = "keep"
  BY <1>2, ToolParts DEF FirstStep
<1>4. next.pc = FirstStep(t) /\ next.tool = t /\ next.story = s
  BY <1>1 DEF RequestState
<1>5. req' = [req EXCEPT ![r] = next] /\ UNCHANGED <<row, course, lost>>
  BY DEF Start, Become
<1>. HIDE DEF next
<1>6. req'[r] = next /\ \A q \in Requests \ {r} : req'[q] = req[q]
  BY <1>1, <1>5 DEF TypeOK
<1>7. /\ \A x \in Stories : raced[x] \subseteq raced'[x]
      /\ raced'[s] = raced[s] \union UNION {Sets(t) \intersect Sets(req[q].tool) : q \in Busy(s)}
  BY <1>1 DEF Start, TypeOK
<1>8. Logged' = Logged
  BY StartLedger
<1>9. ASSUME NEW x \in Stories, Setting(r, x)'
      PROVE  /\ "status" \notin raced'[x] => \A q \in Requests \ {r} : ~Setting(q, x)
             /\ req'[r].pc = "write" /\ Alive(x) => req'[r].prev.status = row[x].status
  <2>1. x = s /\ t.status # "keep" /\ next.pc # "write"
    BY <1>3, <1>4, <1>6, <1>9 DEF Setting
  <2>2. ASSUME NEW q \in Requests, Setting(q, s) PROVE "status" \in raced'[s]
    <3>1. q \in Busy(s)
      BY <2>2 DEF Busy, Setting
    <3>2. "status" \in Sets(t) \intersect Sets(req[q].tool)
      BY <2>1, <2>2 DEF Sets, Columns, Setting
    <3>. QED BY <1>7, <3>1, <3>2
  <2>. QED BY <1>6, <2>1, <2>2
<1>. QED BY <1>5, <1>6, <1>7, <1>8, <1>9, HistoryQuiet

LEMMA LoadHistory ==
  ASSUME BoardInv, LedgerInv, HistoryInv, NEW r \in Requests, Load(r)
  PROVE  HistoryInv'
<1>. DEFINE s == req[r].story
            t == req[r].tool
            read == [req[r] EXCEPT !.seen = row[s].ac,
                                   !.pc = IF t.door = "rest" THEN "previous" ELSE "write"]
<1>1. /\ TypeOK /\ req[r].pc = "load" /\ req[r] \in RequestState
      /\ UNCHANGED <<row, log, course, raced, lost>>
  BY LocalTypes DEF BoardInv, Load, historyVars
<1>2. CASE Alive(s) /\ Fits(t.ac, row[s].ac)
  <2>1. /\ read.pc = IF t.door = "rest" THEN "previous" ELSE "write"
        /\ read.tool = t /\ read.story = s
    BY <1>1 DEF RequestState
  <2>2. req' = [req EXCEPT ![r] = read]
    BY <1>2 DEF Load, Become
  <2>. HIDE DEF read
  <2>3. req'[r] = read /\ \A q \in Requests \ {r} : req'[q] = req[q]
    BY <1>1, <2>2 DEF TypeOK
  <2>4. Logged' = Logged
    BY LoadLedger
  <2>5. t.door # "rest" => t.status = "keep"
    BY <1>1 DEF LedgerInv, ReadIn
  <2>6. ASSUME NEW x \in Stories, Setting(r, x)'
        PROVE  /\ "status" \notin raced'[x] => \A q \in Requests \ {r} : ~Setting(q, x)
               /\ req'[r].pc = "write" /\ Alive(x) => req'[r].prev.status = row[x].status
    <3>1. Setting(r, x) /\ read.pc # "write"
      BY <1>1, <2>1, <2>3, <2>5, <2>6 DEF Setting
    <3>. QED BY <1>1, <2>3, <3>1 DEF HistoryInv, HistoryAt
  <2>. QED BY <1>1, <2>3, <2>4, <2>6, HistoryQuiet
<1>3. CASE ~(Alive(s) /\ Fits(t.ac, row[s].ac))
  <2>1. req' = [req EXCEPT ![r] = Done]
    BY <1>3 DEF Load, Become
  <2>. QED BY <1>1, <2>1, HistoryEnds
<1>. QED BY <1>2, <1>3

LEMMA PreviousHistory ==
  ASSUME BoardInv, LedgerInv, HistoryInv, NEW r \in Requests, Previous(r)
  PROVE  HistoryInv'
<1>. DEFINE s == req[r].story
            prev == [status |-> row[s].status, owner |-> row[s].owner]
            read == [req[r] EXCEPT !.pc = "write", !.prev = prev]
<1>1. /\ TypeOK /\ req[r].pc = "previous" /\ req[r] \in RequestState
      /\ UNCHANGED <<row, log, course, raced, lost>>
  BY LocalTypes DEF BoardInv, Previous, historyVars
<1>2. CASE Alive(s)
  <2>1. prev.status = row[s].status
    OBVIOUS
  <2>. HIDE DEF prev
  <2>2. /\ read.pc = "write" /\ read.story = s /\ read.prev = prev
        /\ read.tool = req[r].tool
    BY <1>1 DEF RequestState
  <2>3. req' = [req EXCEPT ![r] = read]
    BY <1>2 DEF Previous, Become, prev
  <2>. HIDE DEF read
  <2>4. req'[r] = read /\ \A q \in Requests \ {r} : req'[q] = req[q]
    BY <1>1, <2>3 DEF TypeOK
  <2>5. Logged' = Logged
    BY PreviousLedger
  <2>6. ASSUME NEW x \in Stories, Setting(r, x)'
        PROVE  /\ "status" \notin raced'[x] => \A q \in Requests \ {r} : ~Setting(q, x)
               /\ req'[r].pc = "write" /\ Alive(x) => req'[r].prev.status = row[x].status
    <3>1. Setting(r, x) /\ x = s
      BY <1>1, <2>2, <2>4, <2>6 DEF Setting
    <3>. QED BY <1>1, <2>1, <2>2, <2>4, <3>1 DEF HistoryInv, HistoryAt
  <2>. QED BY <1>1, <2>4, <2>5, <2>6, HistoryQuiet
<1>3. CASE ~Alive(s)
  <2>1. req' = [req EXCEPT ![r] = Done]
    BY <1>3 DEF Previous, Become
  <2>. QED BY <1>1, <2>1, HistoryEnds
<1>. QED BY <1>2, <1>3

LEMMA EmitHistory ==
  ASSUME BoardInv, LedgerInv, HistoryInv, NEW r \in Requests, Emit(r)
  PROVE  HistoryInv'
<1>1. /\ req[r].pc = "emit" /\ req' = [req EXCEPT ![r] = Then(r, Tail(req[r].owes))]
      /\ UNCHANGED <<row, course, raced, lost>>
  BY DEF Emit, Become, historyVars
<1>2. \A q \in Requests \ {r} : req'[q] = req[q]
  BY <1>1 DEF BoardInv, TypeOK
<1>3. req'[r] = Then(r, Tail(req[r].owes))
  BY <1>1 DEF BoardInv, TypeOK
<1>4. \A s \in Stories : ~Setting(r, s)'
  BY <1>3, ThenParts DEF Setting
<1>5. Logged' = Logged
  BY EmitLedger
<1>. QED BY <1>1, <1>2, <1>4, <1>5, HistoryQuiet

(* Entries of one story are dropped: that is put on record. *)
LEMMA DropHistory ==
  ASSUME LedgerInv, LedgerInv', HistoryInv, NEW r \in Requests, req[r].story \in Stories,
         \A q \in Requests \ {r} : req'[q] = req[q],
         req'[r].story \in {req[r].story, NoStory}, req'[r].pc \in {"emit", "done"},
         UNCHANGED <<row, log, course, raced>>,
         lost'[req[r].story], \A s \in Stories : lost[s] => lost'[s]
  PROVE  HistoryInv'
<1>. SUFFICES ASSUME NEW s \in Stories PROVE HistoryAt(s)'
  BY DEF HistoryInv
<1>1. HistoryAt(s)
  BY DEF HistoryInv
<1>2. Alive(s)' <=> Alive(s)
  BY DEF Alive
<1>3. ~Setting(r, s)'
  BY DEF Setting
<1>4. ~lost'[s] => Trail(s)' = Trail(s)
  BY ForeignTrail
<1>. QED BY <1>1, <1>2, <1>3, <1>4, HistoryStays

LEMMA EmitFailsHistory ==
  ASSUME BoardInv, LedgerInv, HistoryInv, NEW r \in Requests, EmitFails(r)
  PROVE  HistoryInv'
<1>1. /\ req[r].pc = "emit" /\ req' = [req EXCEPT ![r] = Then(r, Tail(req[r].owes))]
      /\ UNCHANGED <<row, log, course, raced>>
      /\ lost' = [lost EXCEPT ![req[r].story] = TRUE]
  BY DEF EmitFails, Become
<1>2. req[r].story \in Stories /\ TypeOK
  BY <1>1 DEF BoardInv, LocalsIn
<1>3. /\ \A q \in Requests \ {r} : req'[q] = req[q]
      /\ req'[r] = Then(r, Tail(req[r].owes))
  BY <1>1, <1>2 DEF TypeOK
<1>4. /\ req'[r].pc \in {"emit", "done"}
      /\ req'[r].story \in {req[r].story, NoStory}
  <2>1. req[r].owes \in Seq(Entry) /\ req[r].owes # <<>>
    BY <1>1, <1>2, LocalTypes DEF BoardInv, LocalsIn
  <2>2. Tail(req[r].owes) \in Seq(Entry)
    BY <2>1, SeqTail
  <2>. QED BY <1>2, <1>3, <2>2, ThenState
<1>5. lost'[req[r].story] /\ \A s \in Stories : lost[s] => lost'[s]
  BY <1>1, <1>2 DEF TypeOK
<1>6. LedgerInv'
  BY EmitFailsLedger
<1>. QED BY <1>1, <1>2, <1>3, <1>4, <1>5, <1>6, DropHistory

LEMMA CutHistory ==
  ASSUME BoardInv, LedgerInv, HistoryInv, NEW r \in Requests, Cut(r)
  PROVE  HistoryInv'
<1>1. /\ req' = [req EXCEPT ![r] = Done] /\ UNCHANGED <<row, log, course, raced>>
      /\ req[r].pc \notin {"new", "done"}
      /\ lost' = IF req[r].owes = <<>> THEN lost ELSE [lost EXCEPT ![req[r].story] = TRUE]
  BY DEF Cut, Become
<1>2. req[r].story \in Stories /\ TypeOK
  BY <1>1 DEF BoardInv, LocalsIn
<1>3. CASE req[r].pc # "emit"
  <2>1. req[r].owes = <<>>
    BY <1>3 DEF LedgerInv, OwesIn
  <2>. QED BY <1>1, <1>3, <2>1, HistoryEnds
<1>4. CASE req[r].pc = "emit"
  <2>1. req[r].owes # <<>>
    BY <1>4 DEF BoardInv, LocalsIn
  <2>2. lost'[req[r].story] /\ \A s \in Stories : lost[s] => lost'[s]
    BY <1>1, <1>2, <2>1 DEF TypeOK
  <2>3. req'[r] = Done /\ \A q \in Requests \ {r} : req'[q] = req[q]
    BY <1>1, <1>2 DEF TypeOK
  <2>4. LedgerInv'
    BY CutLedger
  <2>. QED BY <1>1, <1>2, <2>2, <2>3, <2>4, DoneState, DropHistory
<1>. QED BY <1>3, <1>4

LEMMA RemoveHistory ==
  ASSUME BoardInv, LedgerInv, HistoryInv, NEW r \in Requests, Remove(r)
  PROVE  HistoryInv'
<1>1. /\ req[r].pc = "delete" /\ req' = [req EXCEPT ![r] = Done]
      /\ row' = [row EXCEPT ![req[r].story] = Deleted]
      /\ log' = {e \in log : e.story # req[r].story}
      /\ UNCHANGED <<course, raced, lost>>
  BY DEF Remove, Become, historyVars
<1>2. req[r].story \in Stories /\ TypeOK
  BY <1>1 DEF BoardInv, LocalsIn
<1>3. req'[r] = Done /\ \A q \in Requests \ {r} : req'[q] = req[q]
  BY <1>1, <1>2 DEF TypeOK
<1>4. row'[req[r].story] = Deleted /\ \A s \in Stories \ {req[r].story} : row'[s] = row[s]
  BY <1>1, <1>2 DEF TypeOK
<1>5. LedgerInv'
  BY RemoveLedger
<1>. SUFFICES ASSUME NEW s \in Stories PROVE HistoryAt(s)'
  BY DEF HistoryInv
<1>6. HistoryAt(s) /\ ~Setting(r, s)'
  BY <1>3, DoneState DEF HistoryInv, Setting
<1>7. Alive(s)' => s # req[r].story /\ Alive(s) /\ row'[s] = row[s]
  BY <1>4 DEF Alive
<1>8. Alive(s)' => Trail(s)' = Trail(s)
  <2>1. \A e : e.story = s /\ s # req[r].story => (e \in log' <=> e \in log)
    BY <1>1
  <2>. QED BY <1>3, <1>5, <1>7, <2>1, DoneState, ForeignTrail
<1>. QED BY <1>1, <1>3, <1>6, <1>7, <1>8, HistoryStays
(* The status entry, when there is one, is what is owed first. *)
LEMMA OwesChange ==
  ASSUME NEW r \in Requests, req[r].tool.status \notin {"keep", req[r].prev.status}
  PROVE  /\ 1 \in 1 .. Len(Owes(r))
         /\ Owes(r)[1] =
              LogEntry(r, "status_change", req[r].prev.status, req[r].tool.status)
<1>. DEFINE t == req[r].tool
            change == LogEntry(r, "status_change", req[r].prev.status, t.status)
            claim == LogEntry(r, "claim", "keep", "keep")
            edit == LogEntry(r, "edit", "keep", "keep")
<1>1. StatusEntry(r) = <<change>>
  BY DEF StatusEntry
<1>. HIDE DEF change, claim, edit
<1>2. CASE t.door = "rest"
  <2>1. \E b \in {<<>>, <<claim>>, <<edit>>} : Owes(r) = <<change>> \o b
    BY <1>1, <1>2 DEF Owes, RestOwes, claim, edit
  <2>2. PICK b \in {<<>>, <<claim>>, <<edit>>} : Owes(r) = <<change>> \o b
    BY <2>1
  <2>3. b \in Seq({claim, edit, change}) /\ <<change>> \in Seq({claim, edit, change})
    <3>1. \A S, x : x \in S => <<x>> \in Seq(S) /\ <<>> \in Seq(S)
      BY ShortSeq
    <3>2. claim \in {claim, edit, change} /\ edit \in {claim, edit, change}
          /\ change \in {claim, edit, change}
      OBVIOUS
    <3>. QED BY <3>1, <3>2
  <2>4. Len(<<change>> \o b) = 1 + Len(b) /\ Len(b) \in Nat /\ (<<change>> \o b)[1] = change
    BY <2>3
  <2>. QED BY <2>2, <2>4 DEF change
<1>3. CASE t.door # "rest"
  <2>1. Owes(r) = <<change>>
    BY <1>1, <1>3 DEF Owes, McpOwes
  <2>2. Len(<<change>>) = 1 /\ <<change>>[1] = change
    OBVIOUS
  <2>. QED BY <2>1, <2>2 DEF change
<1>. QED BY <1>2, <1>3

LEMMA ChangesAppend ==
  ASSUME NEW T, NEW c \in Seq(T), c # <<>>, NEW y \in T, NEW s
  PROVE  Changes(Append(c, y), s) =
           Changes(c, s) \union
             IF y.status = c[Len(c)].status THEN {}
             ELSE {[by |-> y.by, story |-> s, kind |-> "status_change",
                    from |-> c[Len(c)].status, to |-> y.status]}
<1>. DEFINE d == Append(c, y)
            n == Len(c)
            told(e, i) == [by |-> e[i].by, story |-> s, kind |-> "status_change",
                           from |-> e[i - 1].status, to |-> e[i].status]
<1>1. /\ Len(d) = n + 1 /\ d[n + 1] = y
      /\ \A i \in 1 .. n : d[i] = c[i]
      /\ n \in Nat /\ n >= 1
  BY AppendParts, SeqEmpty
<1>. HIDE DEF d, n
<1>2. \A i \in 2 .. n : d[i] = c[i] /\ d[i - 1] = c[i - 1] /\ i \in 2 .. Len(d)
  BY <1>1
<1>3. \A i \in 2 .. Len(d) : i \in 2 .. n \/ i = n + 1
  BY <1>1
<1>4. d[(n + 1) - 1] = c[n] /\ n + 1 \in 2 .. Len(d)
  BY <1>1
<1>5. ASSUME NEW i \in 2 .. n PROVE told(d, i) = told(c, i)
  BY <1>2
<1>6. told(d, n + 1) = [by |-> y.by, story |-> s, kind |-> "status_change",
                        from |-> c[n].status, to |-> y.status]
  BY <1>1, <1>4
<1>7. /\ Changes(d, s) = {told(d, i) : i \in {j \in 2 .. Len(d) : d[j].status # d[j - 1].status}}
      /\ Changes(c, s) = {told(c, i) : i \in {j \in 2 .. n : c[j].status # c[j - 1].status}}
  BY DEF Changes, n
<1>. HIDE DEF told
<1>8. ASSUME NEW e
      PROVE  e \in Changes(d, s) <=>
               \/ e \in Changes(c, s)
               \/ y.status # c[n].status /\ e = told(d, n + 1)
  <2>1. ASSUME e \in Changes(d, s)
        PROVE  \/ e \in Changes(c, s)
               \/ y.status # c[n].status /\ e = told(d, n + 1)
    <3>1. PICK i \in 2 .. Len(d) : d[i].status # d[i - 1].status /\ e = told(d, i)
      BY <1>7, <2>1
    <3>2. CASE i \in 2 .. n
      BY <1>2, <1>5, <1>7, <3>1, <3>2
    <3>3. CASE i = n + 1
      BY <1>1, <1>4, <3>1, <3>3
    <3>. QED BY <1>3, <3>2, <3>3
  <2>2. ASSUME e \in Changes(c, s) PROVE e \in Changes(d, s)
    <3>1. PICK i \in 2 .. n : c[i].status # c[i - 1].status /\ e = told(c, i)
      BY <1>7, <2>2
    <3>. QED BY <1>2, <1>5, <1>7, <3>1
  <2>3. ASSUME y.status # c[n].status, e = told(d, n + 1) PROVE e \in Changes(d, s)
    BY <1>1, <1>4, <1>7, <2>3
  <2>. QED BY <2>1, <2>2, <2>3
<1>. QED BY <1>6, <1>8 DEF d, n

(* The UPDATE of a story that is there adds the entry of the change it makes. *)
LEMMA UpdateTrail ==
  ASSUME BoardInv, LedgerInv, NEW r \in Requests, Update(r), Alive(req[r].story),
         NEW s \in Stories, s = req[r].story
  PROVE  Trail(s)' =
           Trail(s) \union
             IF req[r].tool.status \in {"keep", req[r].prev.status} THEN {}
             ELSE {LogEntry(r, "status_change", req[r].prev.status, req[r].tool.status)}
<1>. DEFINE t == req[r].tool
            change == LogEntry(r, "status_change", req[r].prev.status, t.status)
<1>1. TypeOK /\ req[r].pc = "write"
  BY DEF BoardInv, Update
<1>2. req' = [req EXCEPT ![r] = Then(r, Owes(r))] /\ log' = log
  BY DEF Update, Become
<1>3. /\ req'[r] = Then(r, Owes(r)) /\ \A q \in Requests \ {r} : req'[q] = req[q]
      /\ req[r].owes = <<>>
  BY <1>1, <1>2 DEF TypeOK, LedgerInv, OwesIn
<1>4. req'[r].owes = Owes(r)
  BY <1>3, ThenParts
<1>5. Owed = Others(r) /\ Owed' = Others(r) \union OwedBy(req'[r])
  BY <1>3, OwedParts, NothingOwed
<1>6. OwedBy(req'[r]) = {Owes(r)[i] : i \in 1 .. Len(Owes(r))}
  BY <1>4 DEF OwedBy
<1>7. change.kind = "status_change" /\ change.story = s
  BY DEF LogEntry
<1>. HIDE DEF change
<1>8. \A e \in OwedBy(req'[r]) :
        e.kind = "status_change" => e = change /\ t.status \notin {"keep", req[r].prev.status}
  BY <1>6, OwesParts DEF change
<1>9. t.status \notin {"keep", req[r].prev.status} => change \in OwedBy(req'[r])
  BY <1>6, OwesChange DEF change
<1>10. \A e : e \in Trail(s)' <=>
          \/ e \in Trail(s)
          \/ e = change /\ t.status \notin {"keep", req[r].prev.status}
  BY <1>2, <1>5, <1>7, <1>8, <1>9 DEF Trail
<1>. QED BY <1>10 DEF change

LEMMA UpdateHistory ==
  ASSUME BoardInv, LedgerInv, HistoryInv, NEW r \in Requests, Update(r)
  PROVE  HistoryInv'
<1>. DEFINE t == req[r].tool
            T == [status : Statuses, by : Requests \union {"first"}]
<1>1. TypeOK /\ req[r].pc = "write" /\ req[r].story \in Stories
  BY DEF BoardInv, Update, LocalsIn
<1>2. CASE ~Alive(req[r].story)
  BY <1>1, <1>2, HistoryEnds DEF Update, Become, historyVars
<1>3. CASE Alive(req[r].story)
  <2>1. /\ row' = [row EXCEPT ![req[r].story] = Patched(r)]
        /\ req' = [req EXCEPT ![r] = Then(r, Owes(r))]
        /\ course' = IF t.status = "keep" THEN course
             ELSE [course EXCEPT ![req[r].story] = Append(course[req[r].story], Status(t.status, r))]
        /\ UNCHANGED <<log, raced, lost>>
    BY <1>3 DEF Update, Become
  <2>2. /\ req'[r] = Then(r, Owes(r)) /\ \A q \in Requests \ {r} : req'[q] = req[q]
        /\ LedgerInv'
    BY <1>1, <1>3, <2>1, UpdateLedger DEF TypeOK
  <2>3. req'[r].pc \in {"done", "emit"} /\ req'[r].story \in {req[r].story, NoStory}
    BY <1>1, <2>2, OwesType, ThenState
  <2>4. row'[req[r].story] = Patched(r)
        /\ \A x \in Stories \ {req[r].story} : row'[x] = row[x] /\ course'[x] = course[x]
    BY <1>1, <2>1 DEF TypeOK
  <2>5. course'[req[r].story] =
          IF t.status = "keep" THEN course[req[r].story]
          ELSE Append(course[req[r].story], Status(t.status, r))
    BY <1>1, <2>1 DEF TypeOK
  <2>6. Patched(r).status = IF t.status = "keep" THEN row[req[r].story].status ELSE t.status
    BY DEF Patched
  <2>. SUFFICES ASSUME NEW s \in Stories PROVE HistoryAt(s)'
    BY DEF HistoryInv
  <2>7. HistoryAt(s) /\ ~Setting(r, s)'
    BY <2>3 DEF HistoryInv, Setting
  <2>8. CASE s # req[r].story
    <3>1. Trail(s)' = Trail(s)
      BY <2>1, <2>2, <2>3, <2>8, ForeignTrail
    <3>2. Alive(s)' <=> Alive(s)
      BY <2>4, <2>8 DEF Alive
    <3>. QED BY <2>1, <2>2, <2>4, <2>7, <2>8, <3>1, <3>2, HistoryStays
  <2>9. CASE s = req[r].story /\ t.status = "keep"
    <3>1. Trail(s)' = Trail(s)
      BY <1>3, <2>9, UpdateTrail
    <3>. QED BY <1>3, <2>1, <2>2, <2>4, <2>5, <2>6, <2>7, <2>9, <3>1, HistoryStays
  <2>10. CASE s = req[r].story /\ t.status # "keep"
    <3>. DEFINE last == course[s][Len(course[s])].status
                y == Status(t.status, r)
    <3>1. /\ course[s] \in Seq(T) /\ course[s] # <<>> /\ last = row[s].status
          /\ course'[s] = Append(course[s], y) /\ row'[s].status = t.status
      BY <1>1, <1>3, <2>4, <2>5, <2>6, <2>7, <2>10, CourseTypes DEF HistoryAt
    <3>2. y \in T /\ y.status = t.status /\ y.by = r
      BY <1>1, <2>10, LocalTypes DEF Status
    <3>. HIDE DEF y, T
    <3>3. course'[s] # <<>> /\ course'[s][Len(course'[s])].status = row'[s].status
      <4>1. Len(course'[s]) = Len(course[s]) + 1 /\ course'[s][Len(course[s]) + 1] = y
            /\ Len(course[s]) \in Nat /\ course'[s] \in Seq(T)
        BY <3>1, <3>2, AppendParts, SeqAppend
      <4>. QED BY <3>1, <3>2, <4>1, SeqEmpty
    <3>4. Setting(r, s)
      BY <1>1, <2>10 DEF Setting
    <3>5. ASSUME "status" \notin raced'[s]
          PROVE  /\ \A q \in Requests : ~Setting(q, s)'
                 /\ Trail(s)' = Changes(course'[s], s) \/ lost'[s]
      <4>1. "status" \notin raced[s]
        BY <2>1, <3>5
      <4>2. \A q \in Requests \ {r} : ~Setting(q, s)
        BY <2>7, <3>4, <4>1 DEF HistoryAt
      <4>3. \A q \in Requests : ~Setting(q, s)'
        BY <2>2, <2>7, <4>2 DEF Setting
      <4>4. req[r].prev.status = last /\ (~lost[s] => Trail(s) = Changes(course[s], s))
        BY <1>1, <1>3, <2>7, <2>10, <3>1, <3>4, <4>1 DEF HistoryAt
      <4>. HIDE DEF last
      <4>5. Trail(s)' = Trail(s) \union
              IF t.status = last THEN {} ELSE {LogEntry(r, "status_change", last, t.status)}
        BY <1>3, <2>10, <4>4, UpdateTrail
      <4>6. LogEntry(r, "status_change", last, t.status) =
              [by |-> y.by, story |-> s, kind |-> "status_change", from |-> last, to |-> y.status]
        BY <2>10, <3>2 DEF LogEntry
      <4>7. Changes(course'[s], s) = Changes(course[s], s) \union
              IF y.status = last THEN {}
              ELSE {[by |-> y.by, story |-> s, kind |-> "status_change", from |-> last, to |-> y.status]}
        BY <3>1, <3>2, ChangesAppend DEF last
      <4>8. ~lost[s] => Trail(s)' = Changes(course'[s], s)
        BY <3>2, <4>4, <4>5, <4>6, <4>7
      <4>. QED BY <2>1, <4>3, <4>8
    <3>6. (Changes(course[s], s))' = Changes(course'[s], s)
      BY DEF Changes
    <3>. QED BY <3>3, <3>5, <3>6 DEF HistoryAt
  <2>. QED BY <2>8, <2>9, <2>10
<1>. QED BY <1>2, <1>3
LEMMA InsertHistory ==
  ASSUME BoardInv, LedgerInv, HistoryInv, NEW r \in Requests, Insert(r)
  PROVE  HistoryInv'
<1>. DEFINE t == req[r].tool
            owes == IF t.verb = "import" THEN <<>>
                    ELSE <<LogEntry(r, "create", "keep", "keep")>>
            new == NewStory(t.status, Supplied(t, r))
            first == <<Status(t.status, r)>>
<1>1. /\ TypeOK /\ req[r].pc = "insert" /\ req[r].story \in Stories
      /\ row[req[r].story] = Unborn
      /\ \A q \in Requests \ {r} : req[q].story # req[r].story
  BY DEF BoardInv, Insert, LocalsIn, AloneInv
<1>2. /\ row' = [row EXCEPT ![req[r].story] = new]
      /\ course' = [course EXCEPT ![req[r].story] = first]
      /\ req' = [req EXCEPT ![r] = Then(r, owes)]
      /\ UNCHANGED <<log, raced, lost>>
  BY DEF Insert, Become
<1>3. new.status = t.status /\ Len(first) = 1 /\ first # <<>> /\ first[1].status = t.status
  BY DEF NewStory, Status
<1>. HIDE DEF new, first
<1>4. /\ req'[r] = Then(r, owes) /\ \A q \in Requests \ {r} : req'[q] = req[q]
      /\ row'[req[r].story] = new /\ course'[req[r].story] = first
      /\ \A x \in Stories \ {req[r].story} : row'[x] = row[x] /\ course'[x] = course[x]
  BY <1>1, <1>2 DEF TypeOK
<1>5. owes \in Seq(Entry) /\ \A i \in 1 .. Len(owes) : owes[i].kind # "status_change"
  <2>1. CASE t.verb = "import"
    BY <2>1
  <2>2. CASE t.verb # "import"
    <3>. DEFINE e == LogEntry(r, "create", "keep", "keep")
    <3>1. e \in Entry
      BY <1>1, EntryType DEF Kinds
    <3>2. e.kind = "create"
      BY DEF LogEntry
    <3>. HIDE DEF e
    <3>3. owes = <<e>>
      BY <2>2 DEF e
    <3>4. <<e>> \in Seq(Entry) /\ Len(<<e>>) = 1 /\ <<e>>[1] = e
      BY <3>1, OneEntry
    <3>5. \A i \in 1 .. Len(<<e>>) : i = 1
      BY <3>4
    <3>. QED BY <3>2, <3>3, <3>4, <3>5
  <2>. QED BY <2>1, <2>2
<1>. HIDE DEF owes
<1>6. /\ req'[r].pc \in {"done", "emit"} /\ req'[r].story \in {req[r].story, NoStory}
      /\ req'[r].owes = owes
  BY <1>1, <1>4, <1>5, ThenState, ThenParts
<1>7. LedgerInv'
  BY InsertLedger
<1>. SUFFICES ASSUME NEW s \in Stories PROVE HistoryAt(s)'
  BY DEF HistoryInv
<1>8. HistoryAt(s) /\ ~Setting(r, s)'
  BY <1>6 DEF HistoryInv, Setting
<1>9. CASE s # req[r].story
  <2>1. Trail(s)' = Trail(s)
    BY <1>2, <1>4, <1>6, <1>7, <1>9, ForeignTrail
  <2>2. Alive(s)' <=> Alive(s)
    BY <1>4, <1>9 DEF Alive
  <2>. QED BY <1>2, <1>4, <1>8, <1>9, <2>1, <2>2, HistoryStays
<1>10. CASE s = req[r].story
  <2>1. \A q \in Requests : ~Setting(q, s)'
    BY <1>1, <1>4, <1>8, <1>10 DEF Setting
  <2>2. \A e \in log : e.story # s
    BY <1>1, <1>10 DEF LedgerInv, CourseInv
  <2>3. \A e \in OwedBy(req'[r]) : e.kind # "status_change"
    BY <1>5, <1>6 DEF OwedBy
  <2>4. \A q \in Requests \ {r} : \A e \in OwedBy(req[q]) : e.story # s
    BY <1>1, <1>10 DEF LedgerInv, OwesIn, OwedBy
  <2>5. \A e \in Others(r) : e.story # s
    BY <2>4 DEF Others
  <2>6. Owed' = Others(r) \union OwedBy(req'[r])
    BY <1>4, OwedParts
  <2>7. \A e : e \notin Trail(s)'
    BY <1>2, <2>2, <2>3, <2>5, <2>6 DEF Trail
  <2>8. Changes(first, s) = {}
    BY <1>3 DEF Changes
  <2>9. Trail(s)' = Changes(course'[s], s)
    BY <1>4, <1>10, <2>7, <2>8
  <2>10. (Changes(course[s], s))' = Changes(course'[s], s)
    BY DEF Changes
  <2>. QED BY <1>3, <1>4, <1>10, <2>1, <2>9, <2>10 DEF HistoryAt
<1>. QED BY <1>9, <1>10

LEMMA NextHistory ==
  ASSUME BoardInv, LedgerInv, HistoryInv, [Next]_vars
  PROVE  HistoryInv'
<1>1. CASE UNCHANGED vars
  <2>1. UNCHANGED <<row, log, req, course, raced, lost>>
    BY <1>1 DEF vars, historyVars
  <2>2. \A s : Trail(s)' = Trail(s)
    BY <2>1 DEF Trail, Owed
  <2>. QED BY <2>1, <2>2 DEF HistoryInv, HistoryAt, Setting, Alive, Changes
<1>2. ASSUME NEW r \in Requests, SkipDuplicate(r) PROVE HistoryInv'
  BY <1>2, HistoryEnds DEF SkipDuplicate, Become, historyVars
<1>. QED
  BY <1>1, <1>2, StartHistory, LoadHistory, PreviousHistory, UpdateHistory, InsertHistory,
     RemoveHistory, EmitHistory, EmitFailsHistory, CutHistory DEF Next

LEMMA NextLedger == BoardInv /\ LedgerInv /\ BoardInv' /\ [Next]_vars => LedgerInv'
BY BoardRefines

(* For any number of stories, requests and tools: as long as no two requests
   were busy with a story's status at a time and no entry was lost, the log
   tells each change the row went through, once, with the status it replaced
   and by whom, and nothing else (stories/handlers.rs, mcp.rs, activity.rs). *)
THEOREM HistoryTold == Spec => []HistoryExact
<1>1. HistoryInv => HistoryExact
  BY DEF HistoryInv, HistoryAt, HistoryExact, Changes
<1>2. BoardInv /\ LedgerInv /\ HistoryInv /\ [Next]_vars => HistoryInv'
  BY NextHistory
<1>. QED BY <1>1, <1>2, InitBoard, NextBoard, InitLedger, NextLedger, InitHistory, PTL DEF Spec
=============================================================================
