----------------------- MODULE SessionRegistry_proofs -----------------------
(***************************************************************************)
(* The session registry, proved for any number of sessions, stories,       *)
(* collector connections and requests, and for any set of faults: it is    *)
(* well typed, every step of a task is an operation of SessionRecord or    *)
(* leaves the rows alone, and what it announces is true.  The live board,  *)
(* composed with it, for any number of pages: a page never greys out a     *)
(* live session, whatever it missed and however late a tile arrives.       *)
(***************************************************************************)
EXTENDS GridFeed, TLAPS

-----------------------------------------------------------------------------
(* The contract of a row, for any set of sessions and stories; the refinement
   at the end transfers these facts to the server. *)

(* What is inductive: the types, and that a chosen story is the row's story. *)
RecordInv == RecordTypeOK /\ ChoiceSticks

(* No operation on a row breaks its types or overrides a person's choice. *)
LEMMA RecordStep == RecordInv /\ [RecordNext]_recordVars => RecordInv'
<1> SUFFICES ASSUME RecordInv, [RecordNext]_recordVars
             PROVE  RecordInv'
  OBVIOUS
<1> USE StoryNulls DEF RecordInv, RecordTypeOK, ChoiceSticks, Phases, Causes
<1>1. ASSUME NEW s \in Sessions, Open(s)
      PROVE  RecordInv'
  BY <1>1 DEF Open
<1>2. ASSUME NEW S \in SUBSET Sessions, NEW by \in {"collector", "reaper"}, Close(S, by)
      PROVE  RecordInv'
  BY <1>2 DEF Close
<1>3. ASSUME NEW s \in Sessions, NEW x \in Stories \union {NoStory}, Choose(s, x)
      PROVE  RecordInv'
  BY <1>3 DEF Choose
<1>4. ASSUME NEW s \in Sessions, NEW x \in Stories \union {NoStory}, Guess(s, x)
      PROVE  RecordInv'
  <2>1. RecordTypeOK'
    BY <1>4 DEF Guess
  <2>2. choice[s] \notin Stories
    BY <1>4 DEF Guess
  <2>3. ASSUME NEW r \in Sessions, choice'[r] \in Stories
        PROVE  story'[r] = choice'[r]
    BY <1>4, <2>2, <2>3 DEF Guess
  <2> QED
    BY <2>1, <2>3
<1>5. ASSUME NEW x \in Stories, Forget(x)
      PROVE  RecordInv'
  BY <1>5 DEF Forget
<1>6. CASE UNCHANGED recordVars
  BY <1>6 DEF recordVars
<1> QED
  BY <1>1, <1>2, <1>3, <1>4, <1>5, <1>6 DEF RecordNext

(* Every reachable row is well typed, and a story a person chose is the row's
   story until it is chosen anew or deleted. *)
THEOREM RecordInvariant == RecordSpec => [](RecordTypeOK /\ ChoiceSticks)
<1>1. RecordInit => RecordInv
  BY StoryNulls DEF RecordInit, RecordInv, RecordTypeOK, ChoiceSticks, Phases, Causes
<1>2. RecordInv => RecordTypeOK /\ ChoiceSticks
  BY DEF RecordInv
<1> QED
  BY <1>1, <1>2, RecordStep, PTL DEF RecordSpec

(* No record operation touches the end of a session that has ended. *)
LEMMA RecordStepKeepsEnds ==
  ASSUME [RecordNext]_recordVars, RecordTypeOK,
         NEW s \in Sessions, phase[s] = "ended"
  PROVE  phase'[s] = "ended" /\ cause'[s] = cause[s]
<1> USE DEF RecordTypeOK
<1>1. ASSUME NEW r \in Sessions, Open(r)
      PROVE  phase'[s] = "ended" /\ cause'[s] = cause[s]
  BY <1>1 DEF Open
<1>2. ASSUME NEW S \in SUBSET Sessions, NEW by \in {"collector", "reaper"}, Close(S, by)
      PROVE  phase'[s] = "ended" /\ cause'[s] = cause[s]
  BY <1>2 DEF Close
<1>3. ASSUME NEW r \in Sessions, NEW x \in Stories \union {NoStory}, Choose(r, x) \/ Guess(r, x)
      PROVE  phase'[s] = "ended" /\ cause'[s] = cause[s]
  BY <1>3 DEF Choose, Guess
<1>4. ASSUME NEW x \in Stories, Forget(x)
      PROVE  phase'[s] = "ended" /\ cause'[s] = cause[s]
  BY <1>4 DEF Forget
<1>5. CASE UNCHANGED recordVars
  BY <1>5 DEF recordVars
<1> QED
  BY <1>1, <1>2, <1>3, <1>4, <1>5 DEF RecordNext

(* A session ends at most once, and its end is never rewritten. *)
THEOREM RecordEndsOnce == RecordSpec => EndedOnce
<1>1. RecordTypeOK /\ [RecordNext]_recordVars
        => [\A s \in Sessions :
              phase[s] = "ended" => phase'[s] = "ended" /\ cause'[s] = cause[s]]_recordVars
  BY RecordStepKeepsEnds
<1> QED
  BY <1>1, RecordInvariant, PTL DEF RecordSpec, EndedOnce

-----------------------------------------------------------------------------
(* Types *)

(* Types alone are not inductive: a task that emits must hold a session and a
   frame, or the room it writes to would not be one. *)
GoodTask ==
  {r \in TaskState :
     /\ r.pc \in {"resolve", "link", "emit", "tile"} => r.sid \in Sessions
     /\ r.pc \in {"resolve", "link"} => r.mark = "start"
     /\ r.pc = "emit" => r.mark \in Marks}

TypeInv ==
  /\ RecordTypeOK
  /\ fresh \in [Sessions -> BOOLEAN]
  /\ room \in [Sessions -> SUBSET Marks]
  /\ task \in [Tasks -> GoodTask]

LEMMA TypeInvTypes == TypeInv => TypeOK
BY DEF TypeInv, TypeOK, GoodTask

LEMMA FreshTaskType ==
  ASSUME NEW pc \in {"idle", "resolve", "link", "emit", "next", "tile"}
  PROVE  /\ At(pc) \in TaskState
         /\ At(pc).pc = pc
BY DEF At, TaskState

LEMMA IdleGood == Idle \in GoodTask
BY FreshTaskType DEF Idle, GoodTask

LEMMA TileType ==
  ASSUME RecordTypeOK, NEW s \in Sessions
  PROVE  TileOf(s) \in Tile
BY DEF RecordTypeOK, TileOf, Tile

LEMMA ContinueGood ==
  ASSUME TypeInv, NEW t \in Tasks
  PROVE  Continue(t) \in GoodTask
<1>1. task[t].todo \in SUBSET Sessions
  BY DEF TypeInv, GoodTask, TaskState
<1>2. At("next") \in TaskState /\ At("next").pc = "next"
  BY FreshTaskType
<1>3. [At("next") EXCEPT !.todo = task[t].todo] \in GoodTask
  BY <1>1, <1>2 DEF GoodTask, TaskState
<1> QED
  BY <1>3, IdleGood DEF Continue

(* A task moves to a good state, the other tasks keep theirs. *)
LEMMA BecomeGood ==
  ASSUME TypeInv, NEW t \in Tasks, NEW state \in GoodTask, Become(t, state)
  PROVE  task' \in [Tasks -> GoodTask]
BY DEF TypeInv, Become

LEMMA TaskSets == Conns \subseteq Tasks /\ Requests \subseteq Tasks /\ Reaper \in Tasks
BY DEF Tasks

(* Initially every task is idle and nothing is recorded. *)
LEMMA InitType == Init => TypeInv
<1> SUFFICES ASSUME Init PROVE TypeInv
  OBVIOUS
<1>1. RecordTypeOK
  BY StoryNulls DEF Init, RecordInit, RecordTypeOK, Phases, Causes
<1> QED
  BY <1>1, IdleGood DEF Init, TypeInv

-----------------------------------------------------------------------------
(* The steps of a connection preserve the types *)

LEMMA UpsertType ==
  ASSUME TypeInv, NEW c \in Conns, NEW s \in Sessions, UpsertSessionStart(c, s)
  PROVE  TypeInv'
<1> DEFINE pc == IF story[s] = NoStory THEN "resolve" ELSE "emit"
           new == [At(pc) EXCEPT !.sid = s, !.mark = "start", !.tile = TileOf(s)]
<1>1. At(pc) \in TaskState
  BY FreshTaskType
<1>2. TileOf(s) \in Tile
  BY TileType DEF TypeInv
<1>3. Become(c, new)
  BY DEF UpsertSessionStart
<1> HIDE DEF pc
<1>4. new \in GoodTask
  BY <1>1, <1>2 DEF TaskState, GoodTask, Marks
<1>5. task' \in [Tasks -> GoodTask]
  BY <1>3, <1>4, TaskSets, BecomeGood
<1> QED
  BY <1>5 DEF UpsertSessionStart, TypeInv, RecordTypeOK, Phases

LEMMA ResolveType ==
  ASSUME TypeInv, NEW c \in Conns, ResolveStory(c)
  PROVE  TypeInv'
<1>1. PICK x \in stories \union {NoStory} :
        Become(c, [task[c] EXCEPT !.link = x,
                                  !.pc = IF x = NoStory THEN "emit" ELSE "link"])
  BY DEF ResolveStory
<1>2. x \in Stories \union {NoStory}
  BY DEF TypeInv, RecordTypeOK
<1>3. task[c] \in GoodTask /\ task[c].pc = "resolve"
  BY TaskSets DEF TypeInv, ResolveStory
<1>4. [task[c] EXCEPT !.link = x, !.pc = IF x = NoStory THEN "emit" ELSE "link"]
        \in GoodTask
  BY <1>2, <1>3 DEF TaskState, GoodTask, Marks
<1>5. task' \in [Tasks -> GoodTask]
  BY <1>1, <1>4, TaskSets, BecomeGood
<1> QED
  BY <1>5 DEF ResolveStory, TypeInv, RecordTypeOK, recordVars

LEMMA AutoLinkType ==
  ASSUME TypeInv, NEW c \in Conns, AutoLink(c)
  PROVE  TypeInv'
<1> DEFINE s == task[c].sid
           x == task[c].link
           kept == [task[c] EXCEPT !.pc = "emit", !.link = NoStory]
           tile == [TileOf(s) EXCEPT !.story = x]
           linked == [task[c] EXCEPT !.pc = "emit", !.link = NoStory, !.tile = tile]
<1>1. task[c] \in GoodTask /\ task[c].pc = "link"
  BY TaskSets DEF TypeInv, AutoLink
<1>2. s \in Sessions
  BY <1>1 DEF GoodTask
<1>3. CASE Become(c, kept) /\ UNCHANGED story
  <2>1. kept \in GoodTask
    BY <1>1 DEF TaskState, GoodTask, Marks
  <2>2. task' \in [Tasks -> GoodTask]
    BY <1>3, <2>1, TaskSets, BecomeGood
  <2> QED
    BY <1>3, <2>2 DEF AutoLink, TypeInv, RecordTypeOK
<1>4. CASE x \in stories /\ story' = [story EXCEPT ![s] = x] /\ Become(c, linked)
  <2>1. x \in Stories
    BY <1>4 DEF TypeInv, RecordTypeOK
  <2>2. TileOf(s) \in Tile
    BY <1>2, TileType DEF TypeInv
  <2>3. tile \in Tile
    BY <2>1, <2>2 DEF Tile
  <2>4. linked \in GoodTask
    <3> HIDE DEF tile
    <3> QED
      BY <1>1, <2>3 DEF TaskState, GoodTask, Marks
  <2>5. task' \in [Tasks -> GoodTask]
    BY <1>4, <2>4, TaskSets, BecomeGood
  <2>6. story' \in [Sessions -> Stories \union {NoStory}]
    BY <1>4, <2>1 DEF TypeInv, RecordTypeOK
  <2> QED
    BY <2>5, <2>6 DEF AutoLink, TypeInv, RecordTypeOK
<1> QED
  BY <1>3, <1>4 DEF AutoLink

LEMMA ActivityType ==
  ASSUME TypeInv, NEW c \in Conns, NEW s \in Contents, BumpActivity(c, s)
  PROVE  TypeInv'
<1>1. s \in Sessions
  BY TaskAssumption
<1>2. At("emit") \in TaskState /\ At("emit").pc = "emit"
  BY FreshTaskType
<1>3. [At("emit") EXCEPT !.sid = s, !.mark = "content"] \in GoodTask
  BY <1>1, <1>2 DEF TaskState, GoodTask, Marks
<1>4. task' \in [Tasks -> GoodTask]
  BY <1>3, TaskSets, BecomeGood DEF BumpActivity
<1>5. fresh' \in [Sessions -> BOOLEAN]
  BY DEF BumpActivity, TypeInv
<1> QED
  BY <1>4, <1>5 DEF BumpActivity, TypeInv, RecordTypeOK, recordVars

LEMMA MarkEndedType ==
  ASSUME TypeInv, NEW c \in Conns, NEW s \in Sessions, MarkEnded(c, s)
  PROVE  TypeInv'
<1> DEFINE tile == [TileOf(s) EXCEPT !.ended = TRUE]
           told == [At("emit") EXCEPT !.sid = s, !.mark = "end", !.tile = tile]
           plain == [At("emit") EXCEPT !.sid = s, !.mark = "end"]
<1>1. At("emit") \in TaskState /\ At("emit").pc = "emit"
  BY FreshTaskType
<1>2. TileOf(s) \in Tile
  BY TileType DEF TypeInv
<1>3. tile \in Tile
  BY <1>2 DEF Tile
<1> HIDE DEF tile
<1>4. told \in GoodTask /\ plain \in GoodTask
  BY <1>1, <1>3 DEF TaskState, GoodTask, Marks
<1>5. Become(c, told) \/ Become(c, plain)
  BY DEF MarkEnded, tile
<1>6. task' \in [Tasks -> GoodTask]
  BY <1>4, <1>5, TaskSets, BecomeGood
<1> QED
  BY <1>6 DEF MarkEnded, TypeInv, RecordTypeOK, Phases, Causes

LEMMA HeartbeatType ==
  ASSUME TypeInv, NEW c \in Conns, NEW S \in SUBSET Sessions, BumpHeartbeat(c, S)
  PROVE  TypeInv'
<1>1. At("next") \in TaskState /\ At("next").pc = "next"
  BY FreshTaskType
<1>2. [At("next") EXCEPT !.todo = S] \in GoodTask
  BY <1>1 DEF TaskState, GoodTask
<1>3. task' \in [Tasks -> GoodTask]
  BY <1>2, IdleGood, TaskSets, BecomeGood DEF BumpHeartbeat
<1>4. fresh' \in [Sessions -> BOOLEAN]
  BY DEF BumpHeartbeat, TypeInv
<1> QED
  BY <1>3, <1>4 DEF BumpHeartbeat, TypeInv, RecordTypeOK, recordVars

-----------------------------------------------------------------------------
(* The steps of emission, of requests and of the reaper preserve the types *)

LEMMA EmitType ==
  ASSUME TypeInv, NEW t \in Tasks, EmitRoom(t)
  PROVE  TypeInv'
<1> DEFINE on == [task[t] EXCEPT !.pc = "tile", !.mark = "none"]
<1>1. task[t] \in GoodTask /\ task[t].pc = "emit"
  BY DEF TypeInv, EmitRoom
<1>2. on \in GoodTask
  BY <1>1 DEF TaskState, GoodTask
<1>3. Become(t, on) \/ Become(t, Continue(t))
  BY DEF EmitRoom
<1>4. task' \in [Tasks -> GoodTask]
  BY <1>2, <1>3, ContinueGood, BecomeGood
<1>5. task[t].mark \in Marks
  BY <1>1 DEF GoodTask
<1>6. room' \in [Sessions -> SUBSET Marks]
  BY <1>5 DEF EmitRoom, TypeInv
<1> QED
  BY <1>4, <1>6 DEF EmitRoom, TypeInv, RecordTypeOK, recordVars

LEMMA PublishType ==
  ASSUME TypeInv, NEW t \in Tasks, PublishTile(t) \/ LoseTile(t)
  PROVE  TypeInv'
<1>1. task' \in [Tasks -> GoodTask]
  BY ContinueGood, BecomeGood DEF PublishTile, LoseTile
<1> QED
  BY <1>1 DEF PublishTile, LoseTile, TypeInv, RecordTypeOK, recordVars

LEMMA LoadType ==
  ASSUME TypeInv, NEW t \in Tasks, LoadMeta(t)
  PROVE  TypeInv'
<1> DEFINE pc == IF t = Reaper THEN "emit" ELSE "tile"
           mark == IF t = Reaper THEN "end" ELSE "none"
           found(s, rest) == [At(pc) EXCEPT !.sid = s, !.tile = TileOf(s),
                                            !.todo = rest, !.mark = mark]
           skip(rest) == [At("next") EXCEPT !.todo = rest]
<1>1. task[t].todo \in SUBSET Sessions
  BY DEF TypeInv, GoodTask, TaskState
<1>2. PICK s \in task[t].todo :
        \/ Become(t, found(s, task[t].todo \ {s}))
        \/ Become(t, skip(task[t].todo \ {s}))
        \/ Become(t, Idle)
  BY DEF LoadMeta
<1> DEFINE rest == task[t].todo \ {s}
<1>3. s \in Sessions /\ rest \in SUBSET Sessions
  BY <1>1
<1>4. skip(rest) \in GoodTask
  <2>1. At("next") \in TaskState /\ At("next").pc = "next"
    BY FreshTaskType
  <2> QED
    BY <2>1, <1>3 DEF TaskState, GoodTask
<1>5. found(s, rest) \in GoodTask
  <2>1. At(pc) \in TaskState /\ At(pc).pc = pc
    BY FreshTaskType
  <2>2. TileOf(s) \in Tile
    BY <1>3, TileType DEF TypeInv
  <2>3. mark \in Marks \union {"none"} /\ (pc = "emit" => mark = "end")
        /\ pc \in {"emit", "tile"}
    BY DEF Marks
  <2> HIDE DEF pc, mark, rest
  <2> QED
    BY <2>1, <2>2, <2>3, <1>3 DEF TaskState, GoodTask, Marks
<1> HIDE DEF found, skip
<1>6. task' \in [Tasks -> GoodTask]
  BY <1>2, <1>4, <1>5, IdleGood, BecomeGood
<1> QED
  BY <1>6 DEF LoadMeta, TypeInv, RecordTypeOK, recordVars

LEMMA ReassignType ==
  ASSUME TypeInv, NEW r \in Requests, NEW s \in Sessions,
         NEW x \in Stories \union {NoStory}, Reassign(r, s, x)
  PROVE  TypeInv'
<1> DEFINE tile == [TileOf(s) EXCEPT !.story = x]
           new == [At("tile") EXCEPT !.sid = s, !.tile = tile]
<1>1. TileOf(s) \in Tile
  BY TileType DEF TypeInv
<1>2. tile \in Tile
  BY <1>1 DEF Tile
<1>3. At("tile") \in TaskState /\ At("tile").pc = "tile"
  BY FreshTaskType
<1>4. Become(r, new)
  BY DEF Reassign
<1> HIDE DEF tile
<1>5. new \in GoodTask
  BY <1>2, <1>3 DEF TaskState, GoodTask
<1>6. task' \in [Tasks -> GoodTask]
  BY <1>4, <1>5, TaskSets, BecomeGood
<1> QED
  BY <1>6 DEF Reassign, TypeInv, RecordTypeOK

LEMMA DeleteType ==
  ASSUME TypeInv, NEW x \in Stories, DeleteStory(x)
  PROVE  TypeInv'
BY DEF DeleteStory, Forget, TypeInv, RecordTypeOK

LEMMA ReapType ==
  ASSUME TypeInv, ReapStale
  PROVE  TypeInv'
<1>1. Stale \in SUBSET Sessions
  BY DEF Stale
<1>2. At("next") \in TaskState /\ At("next").pc = "next"
  BY FreshTaskType
<1>3. [At("next") EXCEPT !.todo = Stale] \in GoodTask
  BY <1>1, <1>2 DEF TaskState, GoodTask
<1>4. task' \in [Tasks -> GoodTask]
  BY <1>3, TaskSets, BecomeGood DEF ReapStale
<1> QED
  BY <1>4 DEF ReapStale, TypeInv, RecordTypeOK, Phases, Causes

LEMMA LapseType ==
  ASSUME TypeInv, NEW s \in Sessions, HeartbeatLapses(s)
  PROVE  TypeInv'
BY DEF HeartbeatLapses, TypeInv, RecordTypeOK, recordVars

LEMMA CrashType ==
  ASSUME TypeInv, Crash
  PROVE  TypeInv'
BY IdleGood DEF Crash, TypeInv, RecordTypeOK, recordVars

(* Every operation preserves the types. *)
LEMMA StepType == TypeInv /\ [Next]_vars => TypeInv'
<1> SUFFICES ASSUME TypeInv, [Next]_vars PROVE TypeInv'
  OBVIOUS
<1>1. CASE Quiet
  BY <1>1, UpsertType, ActivityType, MarkEndedType, HeartbeatType, EmitType, PublishType,
     LoadType, ResolveType, AutoLinkType, ReassignType, DeleteType, LapseType, ReapType
     DEF Quiet, Internal
<1>2. CASE \E t \in Tasks : PublishTile(t)
  BY <1>2, PublishType
<1>3. CASE Crash
  BY <1>3, CrashType
<1>4. CASE UNCHANGED vars
  BY <1>4 DEF vars, recordVars, TypeInv, RecordTypeOK
<1> QED
  BY <1>1, <1>2, <1>3, <1>4 DEF Next

LEMMA TypeInvariant == Spec => []TypeInv
BY InitType, StepType, PTL DEF Spec

(* Rows, rooms and the locals of every task keep their types: in particular
   a task that emits always holds a session and a frame. *)
THEOREM TypeCorrect == Spec => []TypeOK
BY TypeInvariant, TypeInvTypes, PTL

-----------------------------------------------------------------------------
(* What is announced is true *)

(* A snapshot or a frame on its way is honest about the rows p: a start frame
   is of a session with a row, an "ended" tile of one that has ended. *)
HonestIn(r, p) ==
  /\ r.mark = "start" => r.sid \in Sessions /\ p[r.sid] # "absent"
  /\ r.tile.ended => r.tile.sid \in Sessions /\ p[r.tile.sid] = "ended"

(* The inductive invariant.  The reaper's list needs a conjunct of its own:
   its ids are announced long after the UPDATE that ended their rows. *)
AnnounceInv ==
  /\ TypeInv
  /\ \A t \in Tasks : HonestIn(task[t], phase)
  /\ \A s \in task[Reaper].todo : phase[s] = "ended"
  /\ StartShownAfterMeta

(* Rows only move forward, from p to q: none disappears, no end is undone. *)
Forward(p, q) ==
  \A s \in Sessions : /\ p[s] # "absent" => q[s] # "absent"
                      /\ p[s] = "ended" => q[s] = "ended"

LEMMA RowsMoveForward ==
  ASSUME TypeInv, [Next]_vars
  PROVE  Forward(phase, phase')
<1> USE DEF TypeInv, RecordTypeOK, Forward
<1>1. ASSUME NEW c \in Conns, NEW s \in Sessions,
             UpsertSessionStart(c, s) \/ MarkEnded(c, s)
      PROVE  Forward(phase, phase')
  BY <1>1 DEF UpsertSessionStart, MarkEnded
<1>2. CASE ReapStale
  BY <1>2 DEF ReapStale
<1>3. CASE UNCHANGED phase
  BY <1>3
<1> QED
  BY <1>1, <1>2, <1>3
     DEF Next, Quiet, Internal, vars, recordVars, ResolveStory, AutoLink, BumpActivity,
         BumpHeartbeat, EmitRoom, PublishTile, LoseTile, LoadMeta, Reassign, DeleteStory,
         Forget, HeartbeatLapses, Crash

LEMMA HonestForward ==
  ASSUME NEW r, NEW p, NEW q, HonestIn(r, p), Forward(p, q)
  PROVE  HonestIn(r, q)
BY DEF HonestIn, Forward

(* A task that becomes honest leaves every task honest. *)
LEMMA BecomeHonest ==
  ASSUME AnnounceInv, [Next]_vars, NEW t \in Tasks, NEW state,
         Become(t, state), HonestIn(state, phase')
  PROVE  \A u \in Tasks : HonestIn(task'[u], phase')
<1>1. Forward(phase, phase')
  BY RowsMoveForward DEF AnnounceInv
<1>2. ASSUME NEW u \in Tasks
      PROVE  HonestIn(task'[u], phase')
  <2>1. CASE u = t
    BY <2>1 DEF Become, AnnounceInv, TypeInv
  <2>2. CASE u # t
    <3>1. task'[u] = task[u]
      BY <2>2 DEF Become, AnnounceInv, TypeInv
    <3> QED
      BY <3>1, <1>1, HonestForward DEF AnnounceInv
  <2> QED
    BY <2>1, <2>2
<1> QED
  BY <1>2

(* A state without a start frame and without a tile is honest. *)
LEMMA QuietHonest ==
  ASSUME NEW t \in Tasks
  PROVE  /\ HonestIn(Idle, phase')
         /\ HonestIn(Continue(t), phase')
         /\ \A S : HonestIn([At("next") EXCEPT !.todo = S], phase')
<1>1. At("next") = [pc |-> "next", sid |-> NoSession, mark |-> "none", tile |-> NoTile,
                    link |-> NoStory, todo |-> {}]
  BY DEF At
<1>2. ASSUME NEW S
      PROVE  HonestIn([At("next") EXCEPT !.todo = S], phase')
  <2>1. [At("next") EXCEPT !.todo = S].mark = "none"
    BY <1>1
  <2>2. [At("next") EXCEPT !.todo = S].tile = NoTile
    BY <1>1
  <2> QED
    BY <2>1, <2>2 DEF HonestIn, NoTile
<1>3. HonestIn(Idle, phase')
  BY DEF Idle, At, HonestIn, NoTile
<1> QED
  BY <1>2, <1>3 DEF Continue

(* After any step every task is honest about the new rows. *)
LEMMA StepHonest ==
  ASSUME AnnounceInv, [Next]_vars
  PROVE  \A u \in Tasks : HonestIn(task'[u], phase')
<1> DEFINE Goal == \A u \in Tasks : HonestIn(task'[u], phase')
<1>f. Forward(phase, phase')
  BY RowsMoveForward DEF AnnounceInv
<1>t. \A t \in Tasks : task[t] \in GoodTask /\ HonestIn(task[t], phase')
  BY <1>f, HonestForward DEF AnnounceInv, TypeInv
<1>1. ASSUME NEW c \in Conns, NEW s \in Sessions, UpsertSessionStart(c, s)
      PROVE  Goal
  <2> DEFINE pc == IF story[s] = NoStory THEN "resolve" ELSE "emit"
             new == [At(pc) EXCEPT !.sid = s, !.mark = "start", !.tile = TileOf(s)]
  <2>1. Become(c, new)
    BY <1>1 DEF UpsertSessionStart
  <2>2. new.sid = s /\ new.tile = TileOf(s)
    BY DEF At
  <2>3. phase'[s] # "absent"
    BY <1>1 DEF UpsertSessionStart, AnnounceInv, TypeInv, RecordTypeOK
  <2>4. TileOf(s).sid = s /\ (TileOf(s).ended => phase'[s] = "ended")
    BY <1>f DEF TileOf, Forward
  <2>5. HonestIn(new, phase')
    <3> HIDE DEF new
    <3> QED
      BY <2>2, <2>3, <2>4 DEF HonestIn
  <2> QED
    BY <2>1, <2>5, TaskSets, BecomeHonest
<1>2. ASSUME NEW c \in Conns, ResolveStory(c)
      PROVE  Goal
  <2>1. PICK x \in stories \union {NoStory} :
          Become(c, [task[c] EXCEPT !.link = x,
                                    !.pc = IF x = NoStory THEN "emit" ELSE "link"])
    BY <1>2 DEF ResolveStory
  <2> DEFINE new == [task[c] EXCEPT !.link = x,
                                    !.pc = IF x = NoStory THEN "emit" ELSE "link"]
  <2>2. new.sid = task[c].sid /\ new.mark = task[c].mark /\ new.tile = task[c].tile
    BY <1>t, TaskSets DEF GoodTask, TaskState
  <2>3. HonestIn(new, phase')
    <3> HIDE DEF new
    <3> QED
      BY <2>2, <1>t, TaskSets DEF HonestIn
  <2> QED
    BY <2>1, <2>3, TaskSets, BecomeHonest
<1>3. ASSUME NEW c \in Conns, AutoLink(c)
      PROVE  Goal
  <2> DEFINE s == task[c].sid
             kept == [task[c] EXCEPT !.pc = "emit", !.link = NoStory]
             tile == [TileOf(s) EXCEPT !.story = task[c].link]
             linked == [task[c] EXCEPT !.pc = "emit", !.link = NoStory, !.tile = tile]
  <2>1. s \in Sessions
    BY <1>3, <1>t, TaskSets DEF AutoLink, GoodTask
  <2>2. kept.sid = s /\ kept.mark = task[c].mark /\ kept.tile = task[c].tile
    BY <1>t, TaskSets DEF GoodTask, TaskState
  <2>3. linked.sid = s /\ linked.mark = task[c].mark /\ linked.tile = tile
    <3> HIDE DEF tile
    <3> QED
      BY <1>t, TaskSets DEF GoodTask, TaskState
  <2>4. tile.sid = s /\ (tile.ended => phase'[s] = "ended")
    BY <2>1, <1>f DEF TileOf, Forward
  <2>5. Become(c, kept) \/ Become(c, linked)
    BY <1>3 DEF AutoLink
  <2> HIDE DEF kept, linked, tile
  <2>6. HonestIn(kept, phase') /\ HonestIn(linked, phase')
    BY <2>1, <2>2, <2>3, <2>4, <1>t, TaskSets DEF HonestIn
  <2> QED
    BY <2>5, <2>6, TaskSets, BecomeHonest
<1>4. ASSUME NEW c \in Conns, NEW s \in Contents, BumpActivity(c, s)
      PROVE  Goal
  <2> DEFINE new == [At("emit") EXCEPT !.sid = s, !.mark = "content"]
  <2>1. new.mark = "content" /\ new.tile = NoTile
    BY DEF At
  <2>2. Become(c, new)
    BY <1>4 DEF BumpActivity
  <2> HIDE DEF new
  <2>3. HonestIn(new, phase')
    BY <2>1 DEF HonestIn, NoTile
  <2> QED
    BY <2>2, <2>3, TaskSets, BecomeHonest
<1>5. ASSUME NEW c \in Conns, NEW s \in Sessions, MarkEnded(c, s)
      PROVE  Goal
  <2> DEFINE tile == [TileOf(s) EXCEPT !.ended = TRUE]
             told == [At("emit") EXCEPT !.sid = s, !.mark = "end", !.tile = tile]
             plain == [At("emit") EXCEPT !.sid = s, !.mark = "end"]
  <2>1. tile.sid = s
    BY DEF TileOf
  <2>2. told.mark = "end" /\ told.tile = tile
    <3> HIDE DEF tile
    <3> QED
      BY DEF At
  <2>3. plain.mark = "end" /\ plain.tile = NoTile
    BY DEF At
  <2>4. \/ Become(c, told) /\ phase' = [phase EXCEPT ![s] = "ended"]
        \/ Become(c, plain)
    BY <1>5 DEF MarkEnded
  <2> HIDE DEF told, plain, tile
  <2>5. HonestIn(plain, phase')
    BY <2>3 DEF HonestIn, NoTile
  <2>6. phase' = [phase EXCEPT ![s] = "ended"] => HonestIn(told, phase')
    BY <2>1, <2>2 DEF HonestIn, AnnounceInv, TypeInv, RecordTypeOK
  <2> QED
    BY <2>4, <2>5, <2>6, TaskSets, BecomeHonest
<1>6. ASSUME NEW c \in Conns, NEW S \in SUBSET Sessions, BumpHeartbeat(c, S)
      PROVE  Goal
  BY <1>6, QuietHonest, TaskSets, BecomeHonest DEF BumpHeartbeat
<1>7. ASSUME NEW t \in Tasks, EmitRoom(t)
      PROVE  Goal
  <2> DEFINE on == [task[t] EXCEPT !.pc = "tile", !.mark = "none"]
  <2>1. on.mark = "none" /\ on.tile = task[t].tile
    BY <1>t DEF GoodTask, TaskState
  <2>2. Become(t, on) \/ Become(t, Continue(t))
    BY <1>7 DEF EmitRoom
  <2> HIDE DEF on
  <2>3. HonestIn(on, phase')
    BY <2>1, <1>t DEF HonestIn
  <2> QED
    BY <2>2, <2>3, QuietHonest, BecomeHonest
<1>8. ASSUME NEW t \in Tasks, PublishTile(t) \/ LoseTile(t)
      PROVE  Goal
  BY <1>8, QuietHonest, BecomeHonest DEF PublishTile, LoseTile
<1>9. ASSUME NEW t \in Tasks, LoadMeta(t)
      PROVE  Goal
  <2> DEFINE pc == IF t = Reaper THEN "emit" ELSE "tile"
             mark == IF t = Reaper THEN "end" ELSE "none"
             found(s, rest) == [At(pc) EXCEPT !.sid = s, !.tile = TileOf(s),
                                              !.todo = rest, !.mark = mark]
  <2>1. PICK s \in task[t].todo :
          \/ Become(t, found(s, task[t].todo \ {s}))
          \/ Become(t, [At("next") EXCEPT !.todo = task[t].todo \ {s}])
          \/ Become(t, Idle)
    BY <1>9 DEF LoadMeta
  <2> DEFINE new == found(s, task[t].todo \ {s})
  <2>2. s \in Sessions
    BY <1>t DEF GoodTask, TaskState
  <2>3. new.mark = mark /\ new.tile = TileOf(s)
    BY DEF At
  <2>4. mark # "start"
    OBVIOUS
  <2>5. TileOf(s).sid = s /\ (TileOf(s).ended => phase'[s] = "ended")
    BY <2>2, <1>f DEF TileOf, Forward
  <2> HIDE DEF new
  <2>6. HonestIn(new, phase')
    BY <2>2, <2>3, <2>4, <2>5 DEF HonestIn
  <2> QED
    BY <2>1, <2>6, QuietHonest, BecomeHonest DEF new
<1>10. ASSUME NEW r \in Requests, NEW s \in Sessions,
              NEW x \in Stories \union {NoStory}, Reassign(r, s, x)
       PROVE  Goal
  <2> DEFINE tile == [TileOf(s) EXCEPT !.story = x]
             new == [At("tile") EXCEPT !.sid = s, !.tile = tile]
  <2>1. new.mark = "none" /\ new.tile = tile
    <3> HIDE DEF tile
    <3> QED
      BY DEF At
  <2>2. tile.sid = s /\ (tile.ended => phase'[s] = "ended")
    BY <1>f DEF TileOf, Forward
  <2>3. Become(r, new)
    BY <1>10 DEF Reassign
  <2> HIDE DEF new, tile
  <2>4. HonestIn(new, phase')
    BY <2>1, <2>2 DEF HonestIn
  <2> QED
    BY <2>3, <2>4, TaskSets, BecomeHonest
<1>11. CASE ReapStale
  BY <1>11, QuietHonest, TaskSets, BecomeHonest DEF ReapStale
<1>12. CASE Crash
  BY <1>12, QuietHonest DEF Crash
<1>13. CASE UNCHANGED task
  BY <1>13, <1>t
<1> QED
  BY <1>1, <1>2, <1>3, <1>4, <1>5, <1>6, <1>7, <1>8, <1>9, <1>10, <1>11, <1>12, <1>13
     DEF Next, Quiet, Internal, DeleteStory, HeartbeatLapses, vars

(* What the reaper still has to announce was ended by its own UPDATE. *)
LEMMA StepTodo ==
  ASSUME AnnounceInv, [Next]_vars
  PROVE  \A s \in task'[Reaper].todo : phase'[s] = "ended"
<1> DEFINE Shrinks == task'[Reaper].todo \subseteq task[Reaper].todo
<1>t. /\ task[Reaper] \in GoodTask
      /\ task[Reaper].todo \in SUBSET Sessions
      /\ task \in [Tasks -> GoodTask]
      /\ Reaper \in Tasks
  BY TaskSets DEF AnnounceInv, TypeInv, GoodTask, TaskState
<1>n. \A S : [At("next") EXCEPT !.todo = S].todo = S
  BY DEF At
<1>c. Continue(Reaper).todo \subseteq task[Reaper].todo /\ Idle.todo = {}
  BY <1>n DEF Continue, Idle, At
<1>s. Shrinks => \A s \in task'[Reaper].todo : phase'[s] = "ended"
  BY <1>t, RowsMoveForward DEF AnnounceInv, Forward
<1>1. CASE ReapStale
  <2>1. task'[Reaper].todo = Stale
    BY <1>1, <1>t, <1>n DEF ReapStale, Become
  <2>2. \A s \in Stale : phase'[s] = "ended"
    BY <1>1 DEF ReapStale, Stale
  <2> QED
    BY <2>1, <2>2
<1>2. ASSUME NEW t \in Tasks, t # Reaper, NEW state, Become(t, state)
      PROVE  Shrinks
  BY <1>2, <1>t DEF Become
<1>3. CASE EmitRoom(Reaper)
  <2> DEFINE on == [task[Reaper] EXCEPT !.pc = "tile", !.mark = "none"]
  <2>1. on.todo = task[Reaper].todo
    BY <1>t DEF GoodTask, TaskState
  <2>2. Become(Reaper, on) \/ Become(Reaper, Continue(Reaper))
    BY <1>3 DEF EmitRoom
  <2> HIDE DEF on
  <2> QED
    BY <2>1, <2>2, <1>t, <1>c, <1>s DEF Become
<1>4. CASE PublishTile(Reaper) \/ LoseTile(Reaper)
  BY <1>4, <1>t, <1>c, <1>s DEF PublishTile, LoseTile, Become
<1>5. CASE LoadMeta(Reaper)
  <2> DEFINE found(s, rest) == [At("emit") EXCEPT !.sid = s, !.tile = TileOf(s),
                                                  !.todo = rest, !.mark = "end"]
  <2>1. PICK s \in task[Reaper].todo :
          \/ Become(Reaper, found(s, task[Reaper].todo \ {s}))
          \/ Become(Reaper, [At("next") EXCEPT !.todo = task[Reaper].todo \ {s}])
          \/ Become(Reaper, Idle)
    BY <1>5 DEF LoadMeta
  <2>2. found(s, task[Reaper].todo \ {s}).todo = task[Reaper].todo \ {s}
    BY DEF At
  <2> HIDE DEF found
  <2> QED
    BY <2>1, <2>2, <1>t, <1>c, <1>n, <1>s DEF Become
<1>6. CASE Crash
  BY <1>6, <1>t, <1>c, <1>s DEF Crash
<1>7. CASE UNCHANGED task
  BY <1>7, <1>s
<1>9. ASSUME NEW c \in Conns
      PROVE  c \in Tasks /\ c # Reaper
  BY TaskAssumption, TaskSets
<1>10. ASSUME NEW r \in Requests
       PROVE  r \in Tasks /\ r # Reaper
  BY TaskAssumption, TaskSets
<1>11. ASSUME NEW c \in Conns,
              \/ \E s \in Sessions : UpsertSessionStart(c, s) \/ MarkEnded(c, s)
              \/ \E s \in Contents : BumpActivity(c, s)
              \/ \E S \in SUBSET Sessions : BumpHeartbeat(c, S)
              \/ ResolveStory(c) \/ AutoLink(c)
       PROVE  Shrinks
  BY <1>2, <1>9, <1>11
     DEF UpsertSessionStart, MarkEnded, BumpActivity, BumpHeartbeat, ResolveStory, AutoLink
<1>12. ASSUME NEW t \in Tasks, t # Reaper,
              EmitRoom(t) \/ PublishTile(t) \/ LoseTile(t) \/ LoadMeta(t)
       PROVE  Shrinks
  BY <1>2, <1>12 DEF EmitRoom, PublishTile, LoseTile, LoadMeta
<1>13. ASSUME NEW r \in Requests, NEW s \in Sessions,
              NEW x \in Stories \union {NoStory}, Reassign(r, s, x)
       PROVE  Shrinks
  BY <1>2, <1>10, <1>13 DEF Reassign
<1> QED
  BY <1>1, <1>3, <1>4, <1>5, <1>6, <1>7, <1>s, <1>11, <1>12, <1>13
     DEF Next, Quiet, Internal, DeleteStory, HeartbeatLapses, vars

(* A start frame enters a room only after its session's row exists. *)
LEMMA StepRooms ==
  ASSUME AnnounceInv, [Next]_vars
  PROVE  StartShownAfterMeta'
<1> USE DEF StartShownAfterMeta
<1>f. Forward(phase, phase')
  BY RowsMoveForward DEF AnnounceInv
<1>1. CASE UNCHANGED room
  BY <1>1, <1>f DEF AnnounceInv, Forward
<1>2. ASSUME NEW t \in Tasks, EmitRoom(t)
      PROVE  StartShownAfterMeta'
  <2>1. HonestIn(task[t], phase)
    BY DEF AnnounceInv
  <2>2. \/ room' = [room EXCEPT ![task[t].sid] = @ \union {task[t].mark}]
        \/ room' = room
    BY <1>2 DEF EmitRoom
  <2>3. room \in [Sessions -> SUBSET Marks]
    BY DEF AnnounceInv, TypeInv
  <2>4. phase' = phase
    BY <1>2 DEF EmitRoom, recordVars
  <2> QED
    BY <2>1, <2>2, <2>3, <2>4 DEF AnnounceInv, HonestIn
<1> QED
  BY <1>1, <1>2
     DEF Next, Quiet, Internal, vars, UpsertSessionStart, ResolveStory, AutoLink, BumpActivity,
         MarkEnded, BumpHeartbeat, PublishTile, LoseTile, LoadMeta, Reassign, DeleteStory,
         ReapStale, HeartbeatLapses, Crash

LEMMA AnnounceInit == Init => AnnounceInv
<1> SUFFICES ASSUME Init PROVE AnnounceInv
  OBVIOUS
<1>1. TypeInv
  BY InitType
<1>2. Idle.mark = "none" /\ Idle.tile = NoTile /\ Idle.todo = {}
  BY DEF Idle, At
<1>3. \A t \in Tasks : HonestIn(task[t], phase)
  BY <1>2 DEF Init, HonestIn, NoTile
<1>4. task[Reaper].todo = {}
  BY <1>2, TaskSets DEF Init
<1>5. StartShownAfterMeta
  BY DEF Init, StartShownAfterMeta
<1> QED
  BY <1>1, <1>3, <1>4, <1>5 DEF AnnounceInv

LEMMA AnnounceStep == AnnounceInv /\ [Next]_vars => AnnounceInv'
<1> SUFFICES ASSUME AnnounceInv, [Next]_vars PROVE AnnounceInv'
  OBVIOUS
<1>1. TypeInv'
  BY StepType DEF AnnounceInv
<1>2. \A u \in Tasks : HonestIn(task'[u], phase')
  BY StepHonest
<1>3. \A s \in task'[Reaper].todo : phase'[s] = "ended"
  BY StepTodo
<1>4. StartShownAfterMeta'
  BY StepRooms
<1> QED
  BY <1>1, <1>2, <1>3, <1>4 DEF AnnounceInv

LEMMA AnnounceInvariant == Spec => []AnnounceInv
BY AnnounceInit, AnnounceStep, PTL DEF Spec

(* Whatever the interleaving and the faults, no "ended" tile on its way to the
   grid and no id on the reaper's list belongs to a live session. *)
THEOREM AnnouncedEndsAreReal == Spec => []EndsAnnouncedAreReal
<1>1. AnnounceInv => EndsAnnouncedAreReal
  BY DEF AnnounceInv, EndsAnnouncedAreReal, HonestIn
<1> QED
  BY <1>1, AnnounceInvariant, PTL

(* A start frame is in a room only if its session's row was written first. *)
THEOREM StartAfterMeta == Spec => []StartShownAfterMeta
<1>1. AnnounceInv => StartShownAfterMeta
  BY DEF AnnounceInv
<1> QED
  BY <1>1, AnnounceInvariant, PTL

-----------------------------------------------------------------------------
(* Refinement of SessionRecord *)

(* Upsert opens an absent session and leaves any other row alone. *)
LEMMA UpsertRecord ==
  ASSUME TypeInv, NEW c \in Conns, NEW s \in Sessions, UpsertSessionStart(c, s)
  PROVE  Open(s) \/ UNCHANGED recordVars
<1>1. CASE phase[s] = "absent"
  BY <1>1 DEF UpsertSessionStart, Open
<1>2. CASE phase[s] # "absent"
  <2>1. phase' = phase
    BY <1>2 DEF UpsertSessionStart, TypeInv, RecordTypeOK
  <2> QED
    BY <2>1 DEF UpsertSessionStart, recordVars
<1> QED
  BY <1>1, <1>2

(* The auto-link fills a gap or leaves the row alone; that the row exists is
   known only because the task carries a start frame. *)
LEMMA AutoLinkRecord ==
  ASSUME AnnounceInv, NEW c \in Conns, AutoLink(c)
  PROVE  \/ \E s \in Sessions, x \in Stories \union {NoStory} : Guess(s, x)
         \/ UNCHANGED recordVars
<1> DEFINE s == task[c].sid
           x == task[c].link
<1>1. task[c] \in GoodTask /\ HonestIn(task[c], phase)
  BY TaskSets DEF AnnounceInv, TypeInv
<1>2. s \in Sessions /\ phase[s] # "absent"
  BY <1>1 DEF AutoLink, GoodTask, HonestIn
<1>3. CASE UNCHANGED story
  BY <1>3 DEF AutoLink, recordVars
<1>4. CASE story[s] = NoStory /\ x \in stories /\ story' = [story EXCEPT ![s] = x]
  <2>1. x \in Stories
    BY <1>4 DEF AnnounceInv, TypeInv, RecordTypeOK
  <2>2. Guess(s, x)
    BY <1>2, <1>4 DEF AutoLink, Guess
  <2> QED
    BY <1>2, <2>1, <2>2
<1> QED
  BY <1>3, <1>4 DEF AutoLink

(* Both ways to end a session write only rows that are live. *)
LEMMA MarkEndedRecord ==
  ASSUME TypeInv, NEW c \in Conns, NEW s \in Sessions, MarkEnded(c, s)
  PROVE  Close({s}, "collector") \/ UNCHANGED recordVars
BY DEF MarkEnded, Close, TypeInv, RecordTypeOK, recordVars

LEMMA ReapRecord ==
  ASSUME ReapStale
  PROVE  Close(Stale, "reaper")
BY DEF ReapStale, Close, Stale

LEMMA StepRecord == AnnounceInv /\ [Next]_vars => [RecordNext]_recordVars
<1> SUFFICES ASSUME AnnounceInv, [Next]_vars PROVE [RecordNext]_recordVars
  OBVIOUS
<1>t. TypeInv
  BY DEF AnnounceInv
<1>1. ASSUME NEW c \in Conns, NEW s \in Sessions, UpsertSessionStart(c, s)
      PROVE  [RecordNext]_recordVars
  BY <1>1, <1>t, UpsertRecord DEF RecordNext
<1>2. ASSUME NEW c \in Conns, NEW s \in Sessions, MarkEnded(c, s)
      PROVE  [RecordNext]_recordVars
  <2>1. Close({s}, "collector") \/ UNCHANGED recordVars
    BY <1>2, <1>t, MarkEndedRecord
  <2> QED
    BY <2>1 DEF RecordNext
<1>3. CASE ReapStale
  <2>1. Close(Stale, "reaper") /\ Stale \in SUBSET Sessions
    BY <1>3, ReapRecord DEF Stale
  <2> QED
    BY <2>1 DEF RecordNext
<1>4. ASSUME NEW c \in Conns, AutoLink(c)
      PROVE  [RecordNext]_recordVars
  BY <1>4, AutoLinkRecord DEF RecordNext
<1>5. ASSUME NEW r \in Requests, NEW s \in Sessions,
             NEW x \in Stories \union {NoStory}, Reassign(r, s, x)
      PROVE  [RecordNext]_recordVars
  <2>1. Choose(s, x)
    BY <1>5 DEF Reassign, Choose
  <2> QED
    BY <2>1 DEF RecordNext
<1>6. ASSUME NEW x \in Stories, DeleteStory(x)
      PROVE  [RecordNext]_recordVars
  BY <1>6 DEF DeleteStory, RecordNext
<1>7. CASE UNCHANGED recordVars
  BY <1>7
<1> QED
  BY <1>1, <1>2, <1>3, <1>4, <1>5, <1>6, <1>7
     DEF Next, Quiet, Internal, vars, ResolveStory, BumpActivity, BumpHeartbeat, EmitRoom,
         PublishTile, LoseTile, LoadMeta, HeartbeatLapses, Crash

(* Connections, requests and the reaper together keep the contract of a row:
   whatever they interleave, the rows change by record operations alone. *)
THEOREM Refinement == Spec => ImplementsRecord
<1>1. Init => RecordInit
  BY DEF Init
<1> QED
  BY <1>1, StepRecord, AnnounceInvariant, PTL DEF Spec, ImplementsRecord, RecordSpec

(* A story a person chose stays whatever SessionStart frames arrive, and
   however they race with the reassignment. *)
THEOREM ChosenStoriesStick == Spec => []ChoiceSticks
BY Refinement, RecordInvariant, PTL DEF ImplementsRecord

(* A session ends once: the collector's SessionEnd and the reaper cannot both
   end it, and no reconnect brings it back. *)
THEOREM SessionsEndOnce == Spec => EndedOnce
BY Refinement, RecordEndsOnce DEF ImplementsRecord

-----------------------------------------------------------------------------
(* The live board, for any number of pages. *)

(* The board only watches: its steps are registry steps or none, so all that
   holds of the registry holds of the composition. *)
LEMMA GridStepIsStep == [GridNext]_gridVars => [Next]_vars
<1> SUFFICES ASSUME [GridNext]_gridVars PROVE [Next]_vars
  OBVIOUS
<1>1. CASE Quiet
  BY <1>1 DEF Next
<1>2. CASE \E t \in Tasks : PublishTile(t)
  BY <1>2 DEF Next
<1>3. CASE Crash
  BY <1>3 DEF Next
<1>4. CASE UNCHANGED vars
  BY <1>4
<1> QED
  BY <1>1, <1>2, <1>3, <1>4 DEF GridNext, gridVars

LEMMA GridAnnounce == GridSpec => []AnnounceInv
<1>1. GridInit => AnnounceInv
  BY AnnounceInit DEF GridInit
<1>2. AnnounceInv /\ [GridNext]_gridVars => AnnounceInv'
  BY AnnounceStep, GridStepIsStep
<1> QED
  BY <1>1, <1>2, PTL DEF GridSpec

(* What is inductive about the pages, given what the registry announces. *)
ViewInv == ViewTypeOK /\ EndedTilesAreTrue

LEMMA ViewInit == GridInit => ViewInv
BY DEF GridInit, ViewInv, ViewTypeOK, EndedTilesAreTrue

(* A page that keeps its tiles, or changes some to something other than
   "ended", stays truthful. *)
LEMMA ViewKept ==
  ASSUME AnnounceInv, [Next]_vars, EndedTilesAreTrue,
         \A v \in Viewers, s \in Sessions : view'[v][s] = "ended" => view[v][s] = "ended"
  PROVE  EndedTilesAreTrue'
BY RowsMoveForward DEF EndedTilesAreTrue, AnnounceInv, Forward

(* A published tile greys out a session on the pages that are subscribed only
   if the session has ended. *)
LEMMA DeliverTrue ==
  ASSUME AnnounceInv, ViewInv, NEW t \in Tasks, PublishTile(t), Deliver(task[t].tile)
  PROVE  ViewInv'
<1> DEFINE tile == task[t].tile
           shown == IF tile.ended THEN "ended" ELSE "live"
<1>1. HonestIn(task[t], phase)
  BY DEF AnnounceInv
<1>2. tile.ended => tile.sid \in Sessions /\ phase[tile.sid] = "ended"
  BY <1>1 DEF HonestIn
<1>3. phase' = phase
  BY DEF PublishTile, recordVars
<1>4. feed' = feed
  BY DEF Deliver
<1>5. view' = [v \in Viewers |-> IF feed[v] = "subscribed"
                                 THEN [view[v] EXCEPT ![tile.sid] = shown]
                                 ELSE view[v]]
  BY DEF Deliver
<1>6. shown \in {"live", "ended"} /\ (shown = "ended" => tile.ended)
  OBVIOUS
<1> HIDE DEF tile, shown
<1>7. ViewTypeOK'
  BY <1>4, <1>5, <1>6 DEF ViewInv, ViewTypeOK
<1>8. EndedTilesAreTrue'
  BY <1>2, <1>3, <1>5, <1>6 DEF ViewInv, ViewTypeOK, EndedTilesAreTrue
<1> QED
  BY <1>7, <1>8 DEF ViewInv

LEMMA ViewStep == AnnounceInv /\ ViewInv /\ [GridNext]_gridVars => ViewInv'
<1> SUFFICES ASSUME AnnounceInv, ViewInv, [GridNext]_gridVars PROVE ViewInv'
  OBVIOUS
<1>n. [Next]_vars
  BY GridStepIsStep
<1>1. CASE UNCHANGED viewVars
  <2>1. EndedTilesAreTrue'
    BY <1>1, <1>n, ViewKept DEF viewVars, ViewInv
  <2> QED
    BY <1>1, <2>1 DEF viewVars, ViewInv, ViewTypeOK
<1>2. ASSUME NEW t \in Tasks, PublishTile(t), Deliver(task[t].tile)
      PROVE  ViewInv'
  BY <1>2, DeliverTrue
<1>3. CASE /\ feed' = [v \in Viewers |-> IF feed[v] = "closed" THEN "closed" ELSE "away"]
           /\ UNCHANGED view
  <2>1. EndedTilesAreTrue'
    BY <1>3, <1>n, ViewKept DEF ViewInv
  <2> QED
    BY <1>3, <2>1 DEF ViewInv, ViewTypeOK
<1>4. ASSUME NEW v \in Viewers, ViewerStep(v)
      PROVE  ViewInv'
  <2>1. ViewTypeOK'
    BY <1>4 DEF ViewerStep, ListActive, Subscribe, Drop, StreamEnds, Reload, Evict, ViewInv, ViewTypeOK
  <2>2. ASSUME NEW u \in Viewers, NEW s \in Sessions, view'[u][s] = "ended"
        PROVE  view[u][s] = "ended"
    BY <1>4, <2>2
       DEF ViewerStep, ListActive, Subscribe, Drop, StreamEnds, Reload, Evict, ViewInv, ViewTypeOK
  <2> QED
    BY <2>1, <2>2, <1>n, ViewKept DEF ViewInv
<1> QED
  BY <1>1, <1>2, <1>3, <1>4 DEF GridNext, gridVars

LEMMA ViewInvariant == GridSpec => []ViewInv
BY ViewInit, ViewStep, GridAnnounce, PTL DEF GridSpec

(* Pages and streams keep their types. *)
THEOREM ViewTypeCorrect == GridSpec => []ViewTypeOK
<1>1. ViewInv => ViewTypeOK
  BY DEF ViewInv
<1> QED
  BY <1>1, ViewInvariant, PTL

(* No page greys out a live session: neither a stale snapshot, nor the order
   in which two tasks publish, nor a missed tile can do it. *)
THEOREM PagesGreyOutEndedOnly == GridSpec => []EndedTilesAreTrue
<1>1. ViewInv => EndedTilesAreTrue
  BY DEF ViewInv
<1> QED
  BY <1>1, ViewInvariant, PTL
=============================================================================
