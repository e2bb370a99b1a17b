------------------------------ MODULE GridFeed ------------------------------
(***************************************************************************)
(* The live board: the viewers of /sse/grid (sse/grid.rs on the server,    *)
(* useSseGrid.ts in the browser) composed with the session registry.  A    *)
(* viewer lists the active sessions, then subscribes to fanout:grid, and   *)
(* from then on applies each tile the registry publishes; Redis pub/sub    *)
(* keeps nothing for those who are not subscribed.                         *)
(***************************************************************************)
EXTENDS SessionRegistry

CONSTANTS
  Viewers,
  Beating     \* sessions whose collector keeps heartbeating

ASSUME BeatingAssumption == Beating \subseteq Sessions

VARIABLES
  feed,       \* the viewer's stream: "away", "listed", "subscribed" or "closed"
  view        \* the tile each viewer shows for each session

viewVars == <<feed, view>>
gridVars == <<vars, viewVars>>

ViewTypeOK ==
  /\ feed \in [Viewers -> {"away", "listed", "subscribed", "closed"}]
  /\ view \in [Viewers -> [Sessions -> {"none", "live", "ended"}]]

GridInit ==
  /\ Init
  /\ feed = [v \in Viewers |-> "away"]
  /\ view = [v \in Viewers |-> [s \in Sessions |-> "none"]]

-----------------------------------------------------------------------------
(* Mistakes the code avoids: each operator is the definition it is named
   after with one plausible bug. *)

(* Subscribing again while subscribed: a second stream for the same page. *)
Subscribe_Again(v) ==
  /\ feed[v] \in {"listed", "subscribed"}
  /\ feed' = [feed EXCEPT ![v] = IF @ = "listed" THEN "subscribed" ELSE "doubled"]
  /\ UNCHANGED view

(* A tile only updates a session the page already shows. *)
Deliver_KnownOnly(tile) ==
  /\ view' = [v \in Viewers |->
                IF feed[v] = "subscribed" /\ view[v][tile.sid] # "none"
                THEN [view[v] EXCEPT ![tile.sid] = IF tile.ended THEN "ended" ELSE "live"]
                ELSE view[v]]
  /\ UNCHANGED feed

-----------------------------------------------------------------------------
(* Viewers *)

(* Connect: one tile per row of list_active, upserted into what the page
   already shows.  A failing query lists nothing and goes on. *)
ListActive(v) ==
  /\ feed[v] = "away"
  /\ feed' = [feed EXCEPT ![v] = "listed"]
  /\ \/ view' = [view EXCEPT ![v] =
                   [s \in Sessions |-> IF phase[s] = "live" THEN "live" ELSE @[s]]]
     \/ DbFails /\ UNCHANGED view

(* The subscription is made only after the list has been sent. *)
Subscribe(v) ==
  /\ feed[v] = "listed"
  /\ feed' = [feed EXCEPT ![v] = "subscribed"]
  /\ UNCHANGED view

(* The connection breaks; the page retries and keeps its tiles meanwhile. *)
Drop(v) ==
  /\ feed[v] \in {"listed", "subscribed"}
  /\ feed' = [feed EXCEPT ![v] = "away"]
  /\ UNCHANGED view

(* Subscribing fails, or Redis ends the subscription, and the handler returns:
   fetchEventSource takes that for the end and does not retry. *)
StreamEnds(v) ==
  /\ RedisFails
  /\ feed[v] \in {"listed", "subscribed"}
  /\ feed' = [feed EXCEPT ![v] = "closed"]
  /\ UNCHANGED view

(* The page is opened anew: no tiles. *)
Reload(v) ==
  /\ feed' = [feed EXCEPT ![v] = "away"]
  /\ view' = [view EXCEPT ![v] = [s \in Sessions |-> "none"]]

(* A tile that has been ended for EVICT_AFTER_ENDED_MS leaves the page. *)
Evict(v, s) ==
  /\ view[v][s] = "ended"
  /\ view' = [view EXCEPT ![v][s] = "none"]
  /\ UNCHANGED feed

(* A published tile replaces what every subscribed page shows for its
   session, and adds it where the page shows none. *)
Deliver(tile) ==
  /\ view' = [v \in Viewers |->
                IF feed[v] = "subscribed"
                THEN [view[v] EXCEPT ![tile.sid] = IF tile.ended THEN "ended" ELSE "live"]
                ELSE view[v]]
  /\ UNCHANGED feed

-----------------------------------------------------------------------------
(* Specification *)

ViewerStep(v) ==
  \/ ListActive(v) \/ Subscribe(v) \/ Drop(v) \/ StreamEnds(v) \/ Reload(v)
  \/ \E s \in Sessions : Evict(v, s)

GridNext ==
  \/ Quiet /\ UNCHANGED viewVars
  \/ \E t \in Tasks : PublishTile(t) /\ Deliver(task[t].tile)
  \/ /\ Crash
     /\ feed' = [v \in Viewers |-> IF feed[v] = "closed" THEN "closed" ELSE "away"]
     /\ UNCHANGED view
  \/ \E v \in Viewers : ViewerStep(v) /\ UNCHANGED vars

(* A task proceeds, its tiles reaching the viewers subscribed at that moment. *)
GridProceed(t) ==
  \/ PublishTile(t) /\ Deliver(task[t].tile)
  \/ Internal(t) /\ UNCHANGED viewVars

(* The frame heartbeat.rs sends every 30 s reaches the server. *)
Beat(s) ==
  /\ phase[s] = "live"
  /\ \E c \in Conns, S \in SUBSET Sessions : s \in S /\ BumpHeartbeat(c, S)
  /\ UNCHANGED viewVars

(* The server's fairness; a page whose connection broke reconnects, and its
   30 s interval evicts; a collector that keeps heartbeating gets a frame
   handled again and again, though other frames share its connection. *)
GridFairness ==
  /\ \A t \in Tasks : WF_gridVars(GridProceed(t))
  /\ WF_gridVars(ReapStale /\ UNCHANGED viewVars)
  /\ \A v \in Viewers :
       /\ WF_gridVars((ListActive(v) \/ Subscribe(v)) /\ UNCHANGED vars)
       /\ \A s \in Sessions : WF_gridVars(Evict(v, s) /\ UNCHANGED vars)
  /\ \A s \in Beating : SF_gridVars(Beat(s))

GridSpec == GridInit /\ [][GridNext]_gridVars /\ GridFairness

-----------------------------------------------------------------------------
(* Properties *)

(* A page shows a session as ended only if it has ended: neither a stale
   snapshot nor the order of two publishers can grey out a live session. *)
EndedTilesAreTrue ==
  \A v \in Viewers, s \in Sessions : view[v][s] = "ended" => phase[s] = "ended"

(* A page that stays subscribed shows every session that keeps heartbeating,
   whichever of its tiles it missed: the next heartbeat repairs the view. *)
BeatingSessionsAppear ==
  \A v \in Viewers, s \in Beating :
    (phase[s] = "live" /\ feed[v] = "subscribed")
      ~> (view[v][s] = "live" \/ phase[s] = "ended" \/ feed[v] # "subscribed")

(* "Without this, the grid tile stays live forever after a collector crash":
   a page that stays subscribed stops showing a silent session as live. *)
SilentTilesGreyOut ==
  \A v \in Viewers, s \in Sessions :
    (phase[s] = "live" /\ ~fresh[s] /\ view[v][s] = "live" /\ feed[v] = "subscribed")
      ~> (fresh[s] \/ view[v][s] # "live" \/ feed[v] # "subscribed")

(* A silent session that is not heard of again gets an end marker in its
   room, synthesised by the reaper if its collector sends none.  Checked
   without faults: only the tick that ends a row announces its end, so a
   crash or a failing SELECT or XADD after the UPDATE loses the marker. *)
SilentRoomsClosed ==
  \A s \in Sessions :
    (phase[s] = "live" /\ ~fresh[s]) ~> (fresh[s] \/ "end" \in room[s])

(* "tile greys out; disappears after 5 min": a session that ends while the
   page is connecting stops being shown as live if the page stays connected.
   The code breaks this one: an end published between the list and the
   subscription is never published again, and the list only adds tiles. *)
EndedTilesLeave ==
  \A v \in Viewers, s \in Sessions :
    (phase[s] = "ended" /\ view[v][s] = "live" /\ feed[v] = "listed")
      ~> (view[v][s] # "live" \/ feed[v] = "away")
=============================================================================
