-------------------------- MODULE SessionRegistry --------------------------
(***************************************************************************)
(* The server's session registry: one task per collector WebSocket         *)
(* connection (ws/collector.rs), HTTP requests that reassign a session     *)
(* (session/handlers.rs) and the reaper (session/reaper.rs) share the      *)
(* `sessions_meta` rows in Postgres and the per-session room streams in    *)
(* Redis.  Every awaited SQL statement or Redis command is a step of its   *)
(* own, so the tasks interleave where the code awaits.                     *)
(*                                                                         *)
(* Abstractions: a row keeps what the properties tell apart (cwd, git and  *)
(* timestamps other than the heartbeat's freshness are left out, and so is *)
(* the tile's `muted` flag); a room is the set of the kinds of frames in   *)
(* it; 90 seconds without a heartbeat are the step HeartbeatLapses.  A     *)
(* connection is the sequence of frames it handles: two of them are the    *)
(* old and the new socket of one collector, or two collectors.             *)
(***************************************************************************)
EXTENDS SessionRecord, Naturals

CONSTANTS
  Conns,      \* collector connections (run_session tasks)
  Requests,   \* slots for concurrent PATCH /sessions/:id requests
  Reaper,     \* the reaper task
  NoSession,
  Contents,   \* bound: the sessions whose collector sends content
  Faults      \* what may fail: "db", "redis", "crash"

Tasks == Conns \union Requests \union {Reaper}

ASSUME TaskAssumption ==
  /\ Conns \intersect Requests = {}
  /\ Reaper \notin Conns \union Requests
  /\ NoSession \notin Sessions
  /\ Contents \subseteq Sessions
  /\ Faults \subseteq {"db", "redis", "crash"}

VARIABLES
  fresh,      \* live, with last_heartbeat_at within STALE_SECS of now
  room,       \* kinds of frames XADDed to the session's stream
  task        \* control state and locals of every task

vars == <<recordVars, fresh, room, task>>

-----------------------------------------------------------------------------
(* Types *)

(* A tile is the snapshot of a row that from_meta takes: it may be stale by
   the time it is published. *)
Tile == [sid : Sessions, ended : BOOLEAN, story : Stories \union {NoStory}]
NoTile == [sid |-> NoSession, ended |-> FALSE, story |-> NoStory]
Marks == {"start", "content", "end"}

TaskState ==
  [pc   : {"idle", "resolve", "link", "emit", "next", "tile"},
   sid  : Sessions \union {NoSession},
   mark : Marks \union {"none"},
   tile : Tile \union {NoTile},
   link : Stories \union {NoStory},
   todo : SUBSET Sessions]

TypeOK ==
  /\ RecordTypeOK
  /\ fresh \in [Sessions -> BOOLEAN]
  /\ room \in [Sessions -> SUBSET Marks]
  /\ task \in [Tasks -> TaskState]

-----------------------------------------------------------------------------
(* Helpers *)

At(pc) ==
  [pc |-> pc, sid |-> NoSession, mark |-> "none", tile |-> NoTile,
   link |-> NoStory, todo |-> {}]

(* A mistake: the tile's ended flag is derived from the heartbeat. *)
TileOf_BySilence(s) == [sid |-> s, ended |-> ~fresh[s], story |-> story[s]]

TileOf(s) == [sid |-> s, ended |-> phase[s] = "ended", story |-> story[s]]

DbFails == "db" \in Faults
RedisFails == "redis" \in Faults

Idle == At("idle")

(* After one frame or tile: heartbeats and the reaper take the next id. *)
Continue(t) ==
  IF task[t].todo = {} THEN Idle ELSE [At("next") EXCEPT !.todo = task[t].todo]

Become(t, state) == task' = [task EXCEPT ![t] = state]

Init ==
  /\ RecordInit
  /\ fresh = [s \in Sessions |-> FALSE]
  /\ room = [s \in Sessions |-> {}]
  /\ task = [t \in Tasks |-> Idle]

-----------------------------------------------------------------------------
(* Mistakes the code avoids.  Each operator is the definition it is named
   after with one plausible bug; the properties must tell them apart. *)

(* ON CONFLICT clears ended_at: a late SessionStart revives the session. *)
UpsertSessionStart_Revives(c, s) ==
  /\ task[c].pc = "idle"
  /\ phase' = [phase EXCEPT ![s] = "live"]
  /\ fresh' = [fresh EXCEPT ![s] = TRUE]
  /\ Become(c, [At("emit") EXCEPT !.sid = s, !.mark = "start",
                                  !.tile = [TileOf(s) EXCEPT !.ended = FALSE]])
  /\ UNCHANGED <<stories, cause, story, choice, room>>

(* The Err branch of the upsert emits the frame all the same. *)
UpsertSessionStart_EmitsOnError(c, s) ==
  /\ task[c].pc = "idle"
  /\ \/ phase' = [phase EXCEPT ![s] = IF @ = "absent" THEN "live" ELSE @]
     \/ DbFails /\ UNCHANGED phase
  /\ fresh' = [fresh EXCEPT ![s] = phase'[s] = "live"]
  /\ Become(c, [At("emit") EXCEPT !.sid = s, !.mark = "start"])
  /\ UNCHANGED <<stories, cause, story, choice, room>>

(* The auto-link UPDATE without "AND detected_story_id IS NULL". *)
AutoLink_Overwrites(c) ==
  /\ task[c].pc = "link"
  /\ task[c].link \in stories
  /\ story' = [story EXCEPT ![task[c].sid] = task[c].link]
  /\ Become(c, [task[c] EXCEPT !.pc = "emit"])
  /\ UNCHANGED <<stories, phase, cause, choice, fresh, room>>

(* mark_ended without "AND ended_at IS NULL". *)
MarkEnded_Twice(c, s) ==
  /\ task[c].pc = "idle"
  /\ phase[s] # "absent"
  /\ phase' = [phase EXCEPT ![s] = "ended"]
  /\ cause' = [cause EXCEPT ![s] = "collector"]
  /\ fresh' = [fresh EXCEPT ![s] = FALSE]
  /\ Become(c, [At("emit") EXCEPT !.sid = s, !.mark = "end"])
  /\ UNCHANGED <<stories, story, choice, room>>

(* The reassignment goes through emit_frame, which writes to the room. *)
Reassign_Frames(r, s, x) ==
  /\ task[r].pc = "idle"
  /\ phase[s] # "absent"
  /\ x \in stories \union {NoStory}
  /\ story' = [story EXCEPT ![s] = x]
  /\ choice' = [choice EXCEPT ![s] = x]
  /\ Become(r, [At("emit") EXCEPT !.sid = s, !.tile = [TileOf(s) EXCEPT !.story = x]])
  /\ UNCHANGED <<stories, phase, cause, fresh, room>>

(* The foreign key of detected_story_id leaves the reference dangling. *)
DeleteStory_Dangles(x) ==
  /\ x \in stories
  /\ stories' = stories \ {x}
  /\ UNCHANGED <<phase, cause, story, choice, fresh, room, task>>

(* The reaper compares last_activity_at, NULL until the first content. *)
Stale_ByActivity ==
  {s \in Sessions : phase[s] = "live" /\ ~fresh[s] /\ "content" \in room[s]}

(* The reaper announces only what its own mark_ended returns: nothing. *)
LoadMeta_FromMarkEnded(t) ==
  /\ task[t].pc = "next"
  /\ \E s \in task[t].todo :
       Become(t, IF t # Reaper /\ phase[s] # "absent"
                 THEN [At("tile") EXCEPT !.sid = s, !.tile = TileOf(s),
                                         !.todo = task[t].todo \ {s}]
                 ELSE [At("next") EXCEPT !.todo = task[t].todo \ {s}])
  /\ UNCHANGED <<recordVars, fresh, room>>

(* The reaper's synthetic SessionEnd is emitted without a tile. *)
LoadMeta_NoEndTile(t) ==
  /\ task[t].pc = "next"
  /\ \E s \in task[t].todo :
       /\ phase[s] # "absent"
       /\ Become(t, [At(IF t = Reaper THEN "emit" ELSE "tile") EXCEPT
                       !.sid = s, !.todo = task[t].todo \ {s},
                       !.tile = IF t = Reaper THEN NoTile ELSE TileOf(s),
                       !.mark = IF t = Reaper THEN "end" ELSE "none"])
  /\ UNCHANGED <<recordVars, fresh, room>>

-----------------------------------------------------------------------------
(* Collector connections *)

(* SessionStart, first await: INSERT ... ON CONFLICT DO UPDATE.  The conflict
   branch refreshes the heartbeat and leaves ended_at and the story alone.  An
   error ends the handler with nothing written and nothing emitted: no step. *)
UpsertSessionStart(c, s) ==
  /\ task[c].pc = "idle"
  /\ phase' = [phase EXCEPT ![s] = IF @ = "absent" THEN "live" ELSE @]
  /\ fresh' = [fresh EXCEPT ![s] = phase[s] # "ended"]
  /\ Become(c, [At(IF story[s] = NoStory THEN "resolve" ELSE "emit") EXCEPT
                  !.sid = s, !.mark = "start", !.tile = TileOf(s)])
  /\ UNCHANGED <<stories, cause, story, choice, room>>

(* resolve_story_id finds a story for the branch or directory, or none; an
   error counts as none. *)
ResolveStory(c) ==
  /\ task[c].pc = "resolve"
  /\ \E x \in stories \union {NoStory} :
       Become(c, [task[c] EXCEPT !.link = x,
                                 !.pc = IF x = NoStory THEN "emit" ELSE "link"])
  /\ UNCHANGED <<recordVars, fresh, room>>

(* UPDATE ... WHERE detected_story_id IS NULL RETURNING *.  When no row
   matches, the statement fails, or the story is gone (foreign key), the
   handler keeps the snapshot it took at the upsert. *)
AutoLink(c) ==
  LET s == task[c].sid
      x == task[c].link
  IN
  /\ task[c].pc = "link"
  /\ \/ /\ story[s] = NoStory /\ x \in stories
        /\ story' = [story EXCEPT ![s] = x]
        /\ Become(c, [task[c] EXCEPT !.pc = "emit", !.link = NoStory,
                                     !.tile = [TileOf(s) EXCEPT !.story = x]])
     \/ /\ story[s] # NoStory \/ x \notin stories \/ DbFails
        /\ Become(c, [task[c] EXCEPT !.pc = "emit", !.link = NoStory])
        /\ UNCHANGED story
  /\ UNCHANGED <<stories, phase, cause, choice, fresh, room>>

(* SessionContent: bump_activity, whose result is ignored; the frame is
   forwarded even when no live row matched. *)
BumpActivity(c, s) ==
  /\ task[c].pc = "idle"
  /\ \/ fresh' = [fresh EXCEPT ![s] = @ \/ phase[s] = "live"]
     \/ DbFails /\ UNCHANGED fresh
  /\ Become(c, [At("emit") EXCEPT !.sid = s, !.mark = "content"])
  /\ UNCHANGED <<recordVars, room>>

(* SessionEnd: mark_ended WHERE ended_at IS NULL.  A row that matched gives a
   tile; no match still forwards the frame; an error drops it (no step). *)
MarkEnded(c, s) ==
  /\ task[c].pc = "idle"
  /\ \/ /\ phase[s] = "live"
        /\ phase' = [phase EXCEPT ![s] = "ended"]
        /\ cause' = [cause EXCEPT ![s] = "collector"]
        /\ fresh' = [fresh EXCEPT ![s] = FALSE]
        /\ Become(c, [At("emit") EXCEPT !.sid = s, !.mark = "end",
                                        !.tile = [TileOf(s) EXCEPT !.ended = TRUE]])
     \/ /\ phase[s] # "live"
        /\ Become(c, [At("emit") EXCEPT !.sid = s, !.mark = "end"])
        /\ UNCHANGED <<phase, cause, fresh>>
  /\ UNCHANGED <<stories, story, choice, room>>

(* Heartbeat: one UPDATE for all live rows among the ids (none when the list
   is empty), its result ignored, then a tile for each id in turn. *)
BumpHeartbeat(c, S) ==
  /\ task[c].pc = "idle"
  /\ \/ fresh' = [s \in Sessions |-> fresh[s] \/ (s \in S /\ phase[s] = "live")]
     \/ DbFails /\ UNCHANGED fresh
  /\ Become(c, IF S = {} THEN Idle ELSE [At("next") EXCEPT !.todo = S])
  /\ UNCHANGED <<recordVars, room>>

-----------------------------------------------------------------------------
(* Emission, shared by connections, requests and the reaper *)

(* try_emit: XADD to the room.  An error abandons the rest of the emission. *)
EmitRoom(t) ==
  LET s == task[t].sid IN
  /\ task[t].pc = "emit"
  /\ \/ /\ room' = [room EXCEPT ![s] = @ \union {task[t].mark}]
        /\ Become(t, IF task[t].tile = NoTile THEN Continue(t)
                                ELSE [task[t] EXCEPT !.pc = "tile", !.mark = "none"])
     \/ /\ RedisFails
        /\ Become(t, Continue(t))
        /\ UNCHANGED room
  /\ UNCHANGED <<recordVars, fresh>>

(* PUBLISH fanout:grid: the snapshot reaches whoever is subscribed now. *)
PublishTile(t) ==
  /\ task[t].pc = "tile"
  /\ Become(t, Continue(t))
  /\ UNCHANGED <<recordVars, fresh, room>>

(* EXPIRE or a PUBLISH fails: nobody gets the tile and nobody retries. *)
LoseTile(t) ==
  /\ RedisFails
  /\ task[t].pc = "tile"
  /\ Become(t, Continue(t))
  /\ UNCHANGED <<recordVars, fresh, room>>

(* The next id of a heartbeat or of a reaper tick: SELECT the row (before it
   the reaper's mark_ended, which matches no row any more), and go on to its
   tile, or to the reaper's synthetic SessionEnd.  No row, or an error, skips
   the id. *)
LoadMeta(t) ==
  /\ task[t].pc = "next"
  /\ \E s \in task[t].todo :
       LET rest == task[t].todo \ {s} IN
       \/ /\ phase[s] # "absent"
          /\ Become(t, [At(IF t = Reaper THEN "emit" ELSE "tile") EXCEPT
                          !.sid = s, !.tile = TileOf(s), !.todo = rest,
                          !.mark = IF t = Reaper THEN "end" ELSE "none"])
       \/ /\ phase[s] = "absent" \/ DbFails
          /\ Become(t, IF rest = {} THEN Idle
                                    ELSE [At("next") EXCEPT !.todo = rest])
  /\ UNCHANGED <<recordVars, fresh, room>>

-----------------------------------------------------------------------------
(* HTTP requests *)

(* PATCH /sessions/:id, for a live or an ended session.  An absent row (404)
   or a story that does not exist (foreign key) changes nothing. *)
Reassign(r, s, x) ==
  /\ task[r].pc = "idle"
  /\ phase[s] # "absent"
  /\ x \in stories \union {NoStory}
  /\ story' = [story EXCEPT ![s] = x]
  /\ choice' = [choice EXCEPT ![s] = x]
  /\ Become(r, [At("tile") EXCEPT !.sid = s, !.tile = [TileOf(s) EXCEPT !.story = x]])
  /\ UNCHANGED <<stories, phase, cause, fresh, room>>

(* DELETE /stories/:id: the foreign key sets detected_story_id to NULL. *)
DeleteStory(x) ==
  /\ Forget(x)
  /\ UNCHANGED <<fresh, room, task>>

-----------------------------------------------------------------------------
(* The reaper, time and the process *)

Stale == {s \in Sessions : phase[s] = "live" /\ ~fresh[s]}

(* One tick: a single UPDATE ends every live row whose heartbeat is stale and
   returns the ids; only the task remembers them.  A failing UPDATE waits for
   the next tick. *)
ReapStale ==
  /\ task[Reaper].pc = "idle"
  /\ Stale # {}
  /\ phase' = [s \in Sessions |-> IF s \in Stale THEN "ended" ELSE phase[s]]
  /\ cause' = [s \in Sessions |-> IF s \in Stale THEN "reaper" ELSE cause[s]]
  /\ Become(Reaper, [At("next") EXCEPT !.todo = Stale])
  /\ UNCHANGED <<stories, story, choice, fresh, room>>

(* STALE_SECS pass since a live session's last heartbeat. *)
HeartbeatLapses(s) ==
  /\ fresh[s]
  /\ fresh' = [fresh EXCEPT ![s] = FALSE]
  /\ UNCHANGED <<recordVars, room, task>>

(* The server process dies and is started again: every task is lost with its
   locals, Postgres and Redis keep what was written. *)
Crash ==
  /\ "crash" \in Faults
  /\ task' = [t \in Tasks |-> Idle]
  /\ UNCHANGED <<recordVars, fresh, room>>

-----------------------------------------------------------------------------
(* Specification *)

(* What a task does after the first statement of its handler. *)
Internal(t) ==
  \/ EmitRoom(t) \/ LoseTile(t) \/ LoadMeta(t)
  \/ t \in Conns /\ (ResolveStory(t) \/ AutoLink(t))

(* Everything but publishing a tile and a crash, which viewers notice. *)
Quiet ==
  \/ \E c \in Conns :
       \/ \E s \in Sessions : UpsertSessionStart(c, s) \/ MarkEnded(c, s)
       \/ \E s \in Contents : BumpActivity(c, s)
       \/ \E S \in SUBSET Sessions : BumpHeartbeat(c, S)
  \/ \E t \in Tasks : Internal(t)
  \/ \E r \in Requests, s \in Sessions, x \in Stories \union {NoStory} : Reassign(r, s, x)
  \/ \E x \in Stories : DeleteStory(x)
  \/ \E s \in Sessions : HeartbeatLapses(s)
  \/ ReapStale

Next == Quiet \/ (\E t \in Tasks : PublishTile(t)) \/ Crash

(* A handler that has begun runs to its end, and the reaper's ticker fires
   again and again; nothing else is promised. *)
Proceed(t) == Internal(t) \/ PublishTile(t)

Fairness == WF_vars(ReapStale) /\ \A t \in Tasks : WF_vars(Proceed(t))

Spec == Init /\ [][Next]_vars /\ Fairness

-----------------------------------------------------------------------------
(* Properties *)

(* The registry keeps every promise of SessionRecord, whose variables are its
   rows: each step of a task is one record operation or none. *)
ImplementsRecord == RecordSpec

(* Nobody is told of an end that did not happen: every "ended" snapshot on
   its way to the grid, and every id a reaper tick still has to announce,
   belongs to a session that has ended, however late it is published. *)
EndsAnnouncedAreReal ==
  /\ \A t \in Tasks : task[t].tile.ended => phase[task[t].tile.sid] = "ended"
  /\ \A s \in task[Reaper].todo : phase[s] = "ended"

(* Metadata is persisted before it is shown: a room that holds a start frame
   belongs to a session that has a row. *)
StartShownAfterMeta ==
  \A s \in Sessions : "start" \in room[s] => phase[s] # "absent"

(* A session whose collector fell silent is ended by a later reaper tick,
   unless it is heard of again, even if ticks fail or the server crashes. *)
SilentSessionsEnd ==
  \A s \in Sessions :
    (phase[s] = "live" /\ ~fresh[s]) ~> (phase[s] = "ended" \/ fresh[s])
=============================================================================
