--------------------------- MODULE SessionRecord ---------------------------
(***************************************************************************)
(* What the server promises about one row of `sessions_meta`, whatever the *)
(* interleaving of collector connections, HTTP requests and the reaper:    *)
(* a session is opened once, closed at most once and by one party, and its *)
(* story is either the one a person chose or a guess that filled a gap.    *)
(* SessionRegistry, the detailed model, implements this module.            *)
(***************************************************************************)

CONSTANTS
  Sessions,   \* session ids a collector may report
  Stories,    \* story ids
  NoStory,    \* detected_story_id IS NULL
  Unchosen    \* nobody has reassigned the session

ASSUME StoryNulls ==
  /\ NoStory \notin Stories
  /\ Unchosen \notin Stories \union {NoStory}

VARIABLES
  stories,    \* the stories that exist
  phase,      \* "absent" (no row), "live" (ended_at IS NULL) or "ended"
  cause,      \* who wrote ended_at and exit_code
  story,      \* detected_story_id
  choice      \* the last explicit (re)assignment, NoStory when it unassigned

recordVars == <<stories, phase, cause, story, choice>>

Phases == {"absent", "live", "ended"}
Causes == {"none", "collector", "reaper"}

RecordTypeOK ==
  /\ stories \subseteq Stories
  /\ phase \in [Sessions -> Phases]
  /\ cause \in [Sessions -> Causes]
  /\ story \in [Sessions -> Stories \union {NoStory}]
  /\ choice \in [Sessions -> Stories \union {NoStory, Unchosen}]

RecordInit ==
  /\ stories = Stories
  /\ phase = [s \in Sessions |-> "absent"]
  /\ cause = [s \in Sessions |-> "none"]
  /\ story = [s \in Sessions |-> NoStory]
  /\ choice = [s \in Sessions |-> Unchosen]

(* A session that was never reported gets its row. *)
Open(s) ==
  /\ phase[s] = "absent"
  /\ phase' = [phase EXCEPT ![s] = "live"]
  /\ UNCHANGED <<stories, cause, story, choice>>

(* Some live sessions end together; the first writer's reason is kept. *)
Close(S, by) ==
  /\ S # {} /\ \A s \in S : phase[s] = "live"
  /\ phase' = [s \in Sessions |-> IF s \in S THEN "ended" ELSE phase[s]]
  /\ cause' = [s \in Sessions |-> IF s \in S THEN by ELSE cause[s]]
  /\ UNCHANGED <<stories, story, choice>>

(* A person assigns the session to a story, or to none. *)
Choose(s, x) ==
  /\ phase[s] # "absent"
  /\ x \in stories \union {NoStory}
  /\ story' = [story EXCEPT ![s] = x]
  /\ choice' = [choice EXCEPT ![s] = x]
  /\ UNCHANGED <<stories, phase, cause>>

(* The server guesses a story for a session that has none. *)
Guess(s, x) ==
  /\ phase[s] # "absent"
  /\ story[s] = NoStory
  /\ x \in stories
  /\ story' = [story EXCEPT ![s] = x]
  /\ UNCHANGED <<stories, phase, cause, choice>>

(* A story is deleted: no session refers to it any more. *)
Forget(x) ==
  /\ x \in stories
  /\ stories' = stories \ {x}
  /\ story' = [s \in Sessions |-> IF story[s] = x THEN NoStory ELSE story[s]]
  /\ choice' = [s \in Sessions |-> IF choice[s] = x THEN Unchosen ELSE choice[s]]
  /\ UNCHANGED <<phase, cause>>

RecordNext ==
  \/ \E s \in Sessions : Open(s)
  \/ \E S \in SUBSET Sessions, by \in {"collector", "reaper"} : Close(S, by)
  \/ \E s \in Sessions, x \in Stories \union {NoStory} : Choose(s, x) \/ Guess(s, x)
  \/ \E x \in Stories : Forget(x)

RecordSpec == RecordInit /\ [][RecordNext]_recordVars

-----------------------------------------------------------------------------

(* Once a session has ended, neither its end nor the reason of its end
   (ended_at, exit_code) is ever written again. *)
EndedOnce ==
  [][\A s \in Sessions :
       phase[s] = "ended" => phase'[s] = "ended" /\ cause'[s] = cause[s]]_recordVars

(* A story a person chose for a session stays until a person changes it or
   the story is deleted: no SessionStart, however late, replaces it. *)
ChoiceSticks ==
  \A s \in Sessions : choice[s] \in Stories => story[s] = choice[s]
=============================================================================
