----------------------------- MODULE StoryBoard -----------------------------
(***************************************************************************)
(* The stories table and its activity log under concurrent requests        *)
(* (stories/handlers.rs, stories/repo.rs, stories/activity.rs, mcp.rs).    *)
(* Every request is a task of its own: what it reads, its one UPDATE, and  *)
(* the INSERTs into the log are separate awaited statements without a      *)
(* transaction, so requests interleave between them.  A handler whose      *)
(* client has gone, or whose server dies, stops at an await.               *)
(*                                                                         *)
(* A story keeps status, owner and acceptance criteria; "text" stands for  *)
(* every other field.  Ids are never used twice.  The publication on       *)
(* Redis, which no one waits for, is left out.                             *)
(***************************************************************************)
EXTENDS BoardTools

CONSTANTS
  Stories, NoStory, Users, Nobody,
  Existing,   \* the stories there are at the start
  Requests,   \* bound: the requests ever made
  Author,     \* who makes a request
  Tools,      \* the requests that are made
  Faults      \* what may fail: "log", an INSERT into the log; "cut", a request

ASSUME BoardAssumption ==
  /\ Existing \subseteq Stories
  /\ NoStory \notin Stories
  /\ Nobody \notin Users
  /\ {"unborn", "deleted"} \intersect Statuses = {}
  /\ Author \in [Requests -> Users]
  /\ "first" \notin Requests
  /\ Tools \subseteq Requested
  /\ \A t \in Tools : t.verb \in {"create", "import"} => t.status \in Statuses
  /\ \A t \in Tools : t.door = "mcp" => t.status = "keep" \/ t.ac = NoEdit
  /\ Faults \subseteq {"log", "cut"}

VARIABLES
  row,     \* the stories table
  log,     \* story_activity
  req,     \* control state and locals of every request
  course,  \* history: the statuses a story has had, and by which request
  ideal,   \* history: its criteria, had each edit been atomic
  raced,   \* history: the columns two requests were busy with at a time
  lost     \* history: an entry was not written

vars == <<row, log, req, course, ideal, raced, lost>>
historyVars == <<course, ideal, raced, lost>>

-----------------------------------------------------------------------------
(* Types *)

Item == [id : Requests \union {"first"}, text : Requests \union {"first"},
         done : BOOLEAN]

Story ==
  [status : Statuses, owner : Users \union {Nobody}, ac : Seq(Item)]

Unborn == [status |-> "unborn", owner |-> Nobody, ac |-> <<>>]
Deleted == [status |-> "deleted", owner |-> Nobody, ac |-> <<>>]

Kinds == {"status_change", "edit", "claim", "create"}
Columns == {"status", "owner", "ac"}

Entry ==
  [by : Requests, story : Stories, kind : Kinds,
   from : Statuses \union {"keep"}, to : Statuses \union {"keep"}]

RequestState ==
  [pc    : {"new", "load", "previous", "write", "insert", "delete", "emit", "done"},
   tool  : Requested,
   story : Stories \union {NoStory},
   seen  : Seq(Item),                            \* the list the client read
   prev  : [status : Statuses \union {"keep"},   \* what the handler read
            owner : Users \union {Nobody}],
   owes  : Seq(Entry)]                           \* the entries still to be logged

TypeOK ==
  /\ row \in [Stories -> Story \union {Unborn, Deleted}]
  /\ log \subseteq Entry
  /\ req \in [Requests -> RequestState]
  /\ course \in [Stories -> Seq([status : Statuses, by : Requests \union {"first"}])]
  /\ ideal \in [Stories -> Seq(Item)]
  /\ raced \in [Stories -> SUBSET Columns]
  /\ lost \in [Stories -> BOOLEAN]

-----------------------------------------------------------------------------
(* Helpers *)

Alive(s) == row[s] \notin {Unborn, Deleted}

FirstItem == [id |-> "first", text |-> "first", done |-> FALSE]

(* No client names an owner when it creates a story. *)
NewStory(status, ac) == [status |-> status, owner |-> Nobody, ac |-> ac]

NewItem(r) == [id |-> r, text |-> r, done |-> FALSE]

(* The criteria a story is created with: one or none. *)
Supplied(t, r) == IF t.ac = NoEdit THEN <<>> ELSE <<NewItem(r)>>

(* How a tool edits the list it has read; an index past the end is refused. *)
Fits(e, ac) == e.do \in {"check", "uncheck", "edit", "remove"} => e.at <= Len(ac)

Edited(e, ac, r) ==
  CASE e.do = "add"     -> Append(ac, NewItem(r))
    [] e.do = "check"   -> [ac EXCEPT ![e.at].done = TRUE]
    [] e.do = "uncheck" -> [ac EXCEPT ![e.at].done = FALSE]
    [] e.do = "edit"    -> [ac EXCEPT ![e.at].text = r]
    [] e.do = "remove"  -> SubSeq(ac, 1, e.at - 1) \o SubSeq(ac, e.at + 1, Len(ac))
    [] e.do = "none"    -> ac

(* The columns a tool sets. *)
Sets(t) ==
  {c \in Columns : \/ c = "status" /\ t.status # "keep"
                   \/ c = "owner" /\ t.owner # "keep"
                   \/ c = "ac" /\ t.ac # NoEdit}

(* The server reads the story first where the log entry depends on it. *)
FirstStep(t) ==
  CASE t.verb \in {"create", "import"} -> "insert"
    [] t.verb = "delete" -> "delete"
    [] t.verb = "patch" /\ t.ac # NoEdit -> "load"
    [] t.verb = "patch" /\ t.ac = NoEdit ->
         IF t.door = "rest" \/ t.status # "keep" THEN "previous" ELSE "write"

(* Requests that have begun to change s and have not written yet. *)
Busy(s) ==
  {r \in Requests : req[r].story = s /\ req[r].pc \in {"load", "previous", "write"}}

LogEntry(r, kind, from, to) ==
  [by |-> r, story |-> req[r].story, kind |-> kind, from |-> from, to |-> to]

NewRequest ==
  [pc |-> "new", tool |-> Patch("rest"), story |-> NoStory, seen |-> <<>>,
   prev |-> [status |-> "keep", owner |-> Nobody], owes |-> <<>>]

Done == [NewRequest EXCEPT !.pc = "done"]

Status(status, by) == [status |-> status, by |-> by]

Init ==
  /\ row = [s \in Stories |->
              IF s \in Existing THEN NewStory("todo", <<FirstItem>>) ELSE Unborn]
  /\ log = {}
  /\ req = [r \in Requests |-> NewRequest]
  /\ course = [s \in Stories |-> IF s \in Existing THEN <<Status("todo", "first")>> ELSE <<>>]
  /\ ideal = [s \in Stories |-> row[s].ac]
  /\ raced = [s \in Stories |-> {}]
  /\ lost = [s \in Stories |-> FALSE]

-----------------------------------------------------------------------------
(* The log *)

(* A mistake: an entry although the status stays what it was. *)
StatusEntry_Always(r) ==
  LET x == req[r].tool.status IN
  IF x = "keep" THEN <<>>
  ELSE <<LogEntry(r, "status_change", req[r].prev.status, x)>>

(* A mistake: from and to are swapped. *)
StatusEntry_Swapped(r) ==
  LET x == req[r].tool.status IN
  IF x = "keep" \/ x = req[r].prev.status THEN <<>>
  ELSE <<LogEntry(r, "status_change", x, req[r].prev.status)>>

StatusEntry(r) ==
  LET x == req[r].tool.status IN
  IF x = "keep" \/ x = req[r].prev.status THEN <<>>
  ELSE <<LogEntry(r, "status_change", req[r].prev.status, x)>>

(* PATCH: an entry for the status if the one read before the UPDATE differs,
   then a claim if the reader found no owner and takes the story, else an edit
   if any other field is given. *)
RestOwes(r) ==
  LET t == req[r].tool IN
  StatusEntry(r) \o
    IF t.owner = "self" /\ req[r].prev.owner = Nobody
    THEN <<LogEntry(r, "claim", "keep", "keep")>>
    ELSE IF t.owner # "keep" \/ t.ac # NoEdit \/ t.text
         THEN <<LogEntry(r, "edit", "keep", "keep")>> ELSE <<>>

(* The hosted tools each set one thing; a claim is logged whoever had it. *)
McpOwes(r) ==
  LET t == req[r].tool IN
  IF t.status # "keep" THEN StatusEntry(r)
  ELSE <<LogEntry(r, IF t.owner = "self" THEN "claim" ELSE "edit", "keep", "keep")>>

Owes(r) == IF req[r].tool.door = "rest" THEN RestOwes(r) ELSE McpOwes(r)

Then(r, owes) ==
  IF owes = <<>> THEN Done
  ELSE [Done EXCEPT !.pc = "emit", !.story = req[r].story, !.owes = owes]

Become(r, state) == req' = [req EXCEPT ![r] = state]

-----------------------------------------------------------------------------
(* Requests *)

Start(r, t, s) ==
  /\ req[r].pc = "new"
  /\ row[s] = Unborn <=> t.verb \in {"create", "import"}
  /\ t.verb \in {"create", "import"} => \A q \in Requests : req[q].story # s
  /\ Become(r, [req[r] EXCEPT !.pc = FirstStep(t), !.tool = t, !.story = s])
  /\ raced' = [raced EXCEPT ![s] =
       @ \union UNION {Sets(t) \intersect Sets(req[q].tool) : q \in Busy(s)}]
  /\ UNCHANGED <<row, log, course, ideal, lost>>

(* The client's GET, or the hosted tool's repo::get: the list to be edited. *)
Load(r) ==
  /\ req[r].pc = "load"
  /\ LET s == req[r].story
         t == req[r].tool
     IN  Become(r, IF Alive(s) /\ Fits(t.ac, row[s].ac)
                   THEN [req[r] EXCEPT !.seen = row[s].ac,
                                       !.pc = IF t.door = "rest" THEN "previous" ELSE "write"]
                   ELSE Done)
  /\ UNCHANGED <<row, log, historyVars>>

(* repo::get before the UPDATE, for the log. *)
Previous(r) ==
  /\ req[r].pc = "previous"
  /\ LET s == req[r].story
     IN  Become(r, IF Alive(s)
                   THEN [req[r] EXCEPT !.pc = "write",
                           !.prev = [status |-> row[s].status, owner |-> row[s].owner]]
                   ELSE Done)
  /\ UNCHANGED <<row, log, historyVars>>

(* A mistake: the status column without COALESCE. *)
Patched_StatusNull(r) ==
  LET t == req[r].tool
      old == row[req[r].story]
  IN  [status |-> t.status,
       owner  |-> CASE t.owner = "keep"   -> old.owner
                    [] t.owner = "self"   -> Author[r]
                    [] t.owner = "nobody" -> Nobody,
       ac     |-> IF t.ac = NoEdit THEN old.ac ELSE Edited(t.ac, req[r].seen, r)]

(* A mistake: criteria that are not given default to an empty list, as they do
   when a story is created. *)
Patched_NormalizesMissing(r) ==
  LET t == req[r].tool
      old == row[req[r].story]
  IN  [status |-> IF t.status = "keep" THEN old.status ELSE t.status,
       owner  |-> CASE t.owner = "keep"   -> old.owner
                    [] t.owner = "self"   -> Author[r]
                    [] t.owner = "nobody" -> Nobody,
       ac     |-> IF t.ac = NoEdit THEN <<>> ELSE Edited(t.ac, req[r].seen, r)]

(* The row after repo::patch: the columns given, each as a whole. *)
Patched(r) ==
  LET t == req[r].tool
      old == row[req[r].story]
  IN  [status |-> IF t.status = "keep" THEN old.status ELSE t.status,
       owner  |-> CASE t.owner = "keep"   -> old.owner
                    [] t.owner = "self"   -> Author[r]
                    [] t.owner = "nobody" -> Nobody,
       ac     |-> IF t.ac = NoEdit THEN old.ac ELSE Edited(t.ac, req[r].seen, r)]

Update(r) ==
  /\ req[r].pc = "write"
  /\ LET s == req[r].story
         t == req[r].tool
     IN  IF Alive(s)
         THEN /\ row' = [row EXCEPT ![s] = Patched(r)]
              /\ Become(r, Then(r, Owes(r)))
              /\ course' = IF t.status = "keep" THEN course
                           ELSE [course EXCEPT ![s] = Append(@, Status(t.status, r))]
              /\ ideal' = IF t.ac = NoEdit \/ ~Fits(t.ac, ideal[s]) THEN ideal
                          ELSE [ideal EXCEPT ![s] = Edited(t.ac, @, r)]
              /\ UNCHANGED <<log, raced, lost>>
         ELSE /\ Become(r, Done)
              /\ UNCHANGED <<row, log, historyVars>>

(* repo::create; the importer logs nothing. *)
Insert(r) ==
  /\ req[r].pc = "insert"
  /\ LET s == req[r].story
         t == req[r].tool
         new == NewStory(t.status, Supplied(t, r))
     IN  /\ row' = [row EXCEPT ![s] = new]
         /\ ideal' = [ideal EXCEPT ![s] = new.ac]
         /\ course' = [course EXCEPT ![s] = <<Status(t.status, r)>>]
         /\ Become(r, Then(r, IF t.verb = "import" THEN <<>>
                              ELSE <<LogEntry(r, "create", "keep", "keep")>>))
  /\ UNCHANGED <<log, raced, lost>>

(* A story of that title exists already: the importer skips the file. *)
SkipDuplicate(r) ==
  /\ req[r].pc = "insert" /\ req[r].tool.verb = "import"
  /\ Become(r, Done)
  /\ UNCHANGED <<row, log, historyVars>>

(* DELETE, which cascades to the log. *)
Remove(r) ==
  /\ req[r].pc = "delete"
  /\ row' = [row EXCEPT ![req[r].story] = Deleted]
  /\ log' = {e \in log : e.story # req[r].story}
  /\ Become(r, Done)
  /\ UNCHANGED historyVars

(* activity::emit, once for each entry; the foreign key refuses the entry of a
   story that has been deleted meanwhile. *)
Emit(r) ==
  /\ req[r].pc = "emit"
  /\ log' = IF Alive(req[r].story) THEN log \union {Head(req[r].owes)} ELSE log
  /\ Become(r, Then(r, Tail(req[r].owes)))
  /\ UNCHANGED <<row, historyVars>>

(* The INSERT fails: the code warns and goes on. *)
EmitFails(r) ==
  /\ "log" \in Faults
  /\ req[r].pc = "emit"
  /\ lost' = [lost EXCEPT ![req[r].story] = TRUE]
  /\ Become(r, Then(r, Tail(req[r].owes)))
  /\ UNCHANGED <<row, log, course, ideal, raced>>

(* The client goes away or the server dies: the handler stops at its await. *)
Cut(r) ==
  /\ "cut" \in Faults
  /\ req[r].pc \notin {"new", "done"}
  /\ lost' = IF req[r].owes = <<>> THEN lost
             ELSE [lost EXCEPT ![req[r].story] = TRUE]
  /\ Become(r, Done)
  /\ UNCHANGED <<row, log, course, ideal, raced>>

Next ==
  \E r \in Requests :
    \/ \E t \in Tools, s \in Stories : Start(r, t, s)
    \/ Load(r) \/ Previous(r) \/ Update(r)
    \/ Insert(r) \/ SkipDuplicate(r) \/ Remove(r)
    \/ Emit(r) \/ EmitFails(r) \/ Cut(r)

Spec == Init /\ [][Next]_vars

-----------------------------------------------------------------------------
(* Properties *)

Owed == UNION {{req[r].owes[i] : i \in 1 .. Len(req[r].owes)} : r \in Requests}

Trail(s) ==
  {e \in log \union Owed : e.story = s /\ e.kind = "status_change"}

(* The status entries of a story tell its history exactly: one for each change
   the row has gone through and none besides, unless two requests were busy
   with its status at a time or an entry was not written.  (The handler reads
   the old status in one statement and writes the new one in another, and logs
   in a third.) *)
HistoryExact ==
  \A s \in Stories :
    Alive(s) /\ "status" \notin raced[s] /\ ~lost[s] =>
      Trail(s) =
        {[by |-> course[s][i].by, story |-> s, kind |-> "status_change",
          from |-> course[s][i - 1].status, to |-> course[s][i].status] :
           i \in {j \in 2 .. Len(course[s]) :
                    course[s][j].status # course[s][j - 1].status}}

(* No edit of the acceptance criteria is lost, repeated or put on the wrong
   item, although every tool reads the list and writes it back as a whole,
   unless two of them were busy with the list at a time: requests that set
   other fields, and deletions, never get in the way. *)
CriteriaIntact ==
  \A s \in Stories :
    Alive(s) /\ "ac" \notin raced[s] => row[s].ac = ideal[s]

(* What StoryLedger speaks of: the statuses of each story, the changes logged
   or to be logged of the stories there are, and the stories deleted. *)
statusCourse ==
  [s \in Stories |-> [i \in 1 .. Len(course[s]) |-> course[s][i].status]]

statusTrail ==
  {[by |-> e.by, story |-> e.story, from |-> e.from, to |-> e.to] :
     e \in UNION {Trail(s) : s \in {x \in Stories : Alive(x)}}}

deleted == {s \in Stories : row[s] = Deleted}

Ledger ==
  INSTANCE StoryLedger WITH
    States <- Statuses, course <- statusCourse, trail <- statusTrail, gone <- deleted

(* Whoever races with whom: a status entry belongs to one accepted request,
   says what that request set, starts from a status the story has had, and
   does not outlive the story. *)
ImplementsLedger == Ledger!LedgerSpec
=============================================================================
