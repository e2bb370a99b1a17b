---------------------------- MODULE StoryLedger ----------------------------
(***************************************************************************)
(* What the activity log promises about the status of stories, whoever     *)
(* else is writing: an entry belongs to one accepted request, says what    *)
(* that request set, and starts from a status the story really had.  A     *)
(* deleted story has no entries and never gets one again.                  *)
(***************************************************************************)
EXTENDS Naturals, Sequences

CONSTANTS Stories, States, Requests

VARIABLES
  course,  \* the statuses each story has had, oldest first
  trail,   \* the status changes logged, or about to be
  gone     \* the stories deleted

Change == [by : Requests, story : Stories, from : States, to : States]

Had(s) == {course[s][i] : i \in 1 .. Len(course[s])}

LedgerInit ==
  /\ course \in [Stories -> UNION {[1 .. n -> States] : n \in {0, 1}}]
  /\ trail = {}
  /\ gone = {}

Begin(s) ==
  /\ course[s] = <<>>
  /\ \E x \in States : course' = [course EXCEPT ![s] = <<x>>]
  /\ UNCHANGED <<trail, gone>>

(* One request sets the status: from what it believes, which the story had at
   some time, to what it says.  A request that believes nothing changes logs
   nothing. *)
Move(r, s) ==
  /\ course[s] # <<>> /\ s \notin gone
  /\ \A e \in trail : e.by # r
  /\ \E to \in States :
       /\ course' = [course EXCEPT ![s] = Append(@, to)]
       /\ \/ UNCHANGED trail
          \/ \E from \in Had(s) \ {to} :
               trail' = trail \union {[by |-> r, story |-> s, from |-> from, to |-> to]}
  /\ UNCHANGED gone

(* An entry whose INSERT fails, or whose request is cut short, is lost. *)
Lose(e) == trail' = trail \ {e} /\ UNCHANGED <<course, gone>>

Erase(s) ==
  /\ gone' = gone \union {s}
  /\ trail' = {e \in trail : e.story # s}
  /\ UNCHANGED course

LedgerNext ==
  \/ \E s \in Stories : Begin(s) \/ Erase(s)
  \/ \E r \in Requests, s \in Stories : Move(r, s)
  \/ \E e \in trail : Lose(e)

ledgerVars == <<course, trail, gone>>

LedgerSpec == LedgerInit /\ [][LedgerNext]_ledgerVars
=============================================================================
