---------------------------- MODULE AuthSessions ----------------------------
(***************************************************************************)
(* Signing in (auth/handlers.rs, auth/mod.rs, auth/jwt.rs, web/src/api.ts, *)
(* web/src/auth.tsx): a browser whose tabs share one refresh cookie and one*)
(* access token, and the server's users and user_sessions.  Every request  *)
(* is a task whose statements interleave with those of the others; its     *)
(* answer, which carries the new cookie, arrives later or never.           *)
(*                                                                         *)
(* A session is named after the request that issued it.  Requests that     *)
(* fail validation, and a wrong password, change nothing and are left out. *)
(***************************************************************************)
EXTENDS Naturals, FiniteSets

CONSTANTS
  Users, Tabs, None,
  Requests,    \* bound: the requests ever made
  TabOf,       \* the tab a request is made in
  Faults       \* what may fail: "db", a statement; "net", a request or answer

ASSUME AuthAssumption ==
  /\ TabOf \in [Requests -> Tabs]
  /\ None \notin Requests /\ None \notin Users
  /\ Faults \subseteq {"db", "net"}

VARIABLES
  users,     \* the users table
  sessions,  \* user_sessions: issuing request -> row
  req,       \* control state and locals of every request
  jar,       \* the browser's refresh cookie: a session, or None
  token,     \* localStorage: the access token
  first,     \* history: the users made by bootstrap
  out,       \* history: signed out, and not signed in since
  forked,    \* history: two requests for the session in flight at a time, or
             \* a sign-in on top of another
  raced,     \* history: two bootstraps have both found the table empty
  failed     \* history: a statement or an answer has failed

serverVars == <<users, sessions>>
browserVars == <<jar, token>>
historyVars == <<first, out, forked, raced, failed>>
vars == <<serverVars, req, browserVars, historyVars>>

-----------------------------------------------------------------------------
(* Types *)

Kinds == {"none", "bootstrap", "login", "refresh", "logout", "add"}

RequestState ==
  [pc     : {"new", "count", "insert", "verify", "read", "revoke", "issue",
             "answer", "done"},
   kind   : Kinds,
   user   : Users \union {None},
   cookie : Requests \union {None}]   \* the one it carries

Row == [user : Users, live : BOOLEAN]

TypeOK ==
  /\ users \subseteq Users
  /\ DOMAIN sessions \subseteq Requests
  /\ \A s \in DOMAIN sessions : sessions[s] \in Row
  /\ req \in [Requests -> RequestState]
  /\ jar \in DOMAIN sessions \union {None}
  /\ token \in {"none", "fresh", "stale"}
  /\ first \subseteq Users
  /\ {out, forked, raced, failed} \subseteq BOOLEAN

-----------------------------------------------------------------------------
(* Helpers *)

InFlight(r) == req[r].pc \notin {"new", "done"}

Live == {s \in DOMAIN sessions : sessions[s].live}

With(f, x, v) == [y \in DOMAIN f \union {x} |-> IF y = x THEN v ELSE f[y]]

Idle(pc) == [pc |-> pc, kind |-> "none", user |-> None, cookie |-> None]

(* A request that is denied changes nothing in the browser and is over. *)
To(r, pc) ==
  req' = [req EXCEPT ![r] = IF pc = "done" THEN Idle(pc) ELSE [@ EXCEPT !.pc = pc]]

(* A tab sends a request, with the cookie the jar holds. *)
Send(r, kind, pc, u) ==
  /\ req[r].pc = "new"
  /\ req' = [req EXCEPT ![r] = [pc |-> pc, kind |-> kind, user |-> u, cookie |-> jar]]
  /\ forked' = \/ forked
               \/ kind # "add" /\ \E q \in Requests : InFlight(q) /\ req[q].kind # "add"
               \/ kind \in {"bootstrap", "login"} /\ Live # {}
  /\ out' = (out /\ kind \notin {"bootstrap", "login"})
  /\ UNCHANGED <<serverVars, browserVars, first, raced, failed>>

Init ==
  /\ users = {}
  /\ sessions = [s \in {} |-> [user |-> None, live |-> FALSE]]
  /\ req = [r \in Requests |-> Idle("new")]
  /\ jar = None /\ token = "none"
  /\ first = {} /\ out = FALSE
  /\ forked = FALSE /\ raced = FALSE /\ failed = FALSE

-----------------------------------------------------------------------------
(* The browser sends *)

Bootstrap(r, u) == Send(r, "bootstrap", "count", u)

Login(r, u) == Send(r, "login", "verify", u)

(* attemptSilentRefresh, after a request that came back with 401; the token may
   have been replaced since that was sent.  A tab has one on its way at most. *)
SilentRefresh(r) ==
  /\ \A q \in Requests : TabOf[q] = TabOf[r] /\ req[q].kind = "refresh" => ~InFlight(q)
  /\ Send(r, "refresh", "read", None)

Logout(r) == Send(r, "logout", IF jar = None THEN "answer" ELSE "revoke", None)

(* require_identity lets the holder of a valid token add a user. *)
AddUser(r, u) ==
  /\ token = "fresh"
  /\ Send(r, "add", "insert", u)

-----------------------------------------------------------------------------
(* The server's statements *)

(* A mistake: the table is not looked at. *)
Count_Skipped(r) ==
  /\ req[r].pc = "count"
  /\ To(r, "insert")
  /\ UNCHANGED <<serverVars, browserVars, historyVars>>

(* Bootstrap q is between its count and its INSERT. *)
Inserting(q) == req[q].pc = "insert" /\ req[q].kind = "bootstrap"

Count(r) ==
  /\ req[r].pc = "count"
  /\ To(r, IF users = {} THEN "insert" ELSE "done")
  /\ raced' = (raced \/ (users = {} /\ \E q \in Requests : Inserting(q)))
  /\ UNCHANGED <<serverVars, browserVars, first, out, forked, failed>>

(* insert_user: e-mail addresses are unique. *)
InsertUser(r) ==
  /\ req[r].pc = "insert"
  /\ LET u == req[r].user
     IN  /\ users' = users \union {u}
         /\ To(r, IF u \in users THEN "done"
                  ELSE IF req[r].kind = "add" THEN "answer" ELSE "issue")
         /\ first' = IF req[r].kind = "bootstrap" /\ u \notin users
                     THEN first \union {u} ELSE first
  /\ UNCHANGED <<sessions, browserVars, out, forked, raced, failed>>

Verify(r) ==
  /\ req[r].pc = "verify"
  /\ To(r, IF req[r].user \in users THEN "issue" ELSE "done")
  /\ UNCHANGED <<serverVars, browserVars, historyVars>>

(* The SELECT of refresh: the session is there and not revoked. *)
Read(r) ==
  /\ req[r].pc = "read"
  /\ LET s == req[r].cookie
     IN  IF s \in Live
         THEN req' = [req EXCEPT ![r].pc = "revoke", ![r].user = sessions[s].user]
         ELSE To(r, "done")
  /\ UNCHANGED <<serverVars, browserVars, historyVars>>

(* A mistake: all sessions of the user are revoked. *)
Revoked_AllOfUser(s) ==
  [x \in DOMAIN sessions |->
     [sessions[x] EXCEPT !.live = @ /\ sessions[x].user # sessions[s].user]]

(* A mistake: nothing is revoked. *)
Revoked_Nothing(s) == sessions

Revoked(s) == [sessions EXCEPT ![s].live = FALSE]

AfterRevoke(r) == IF req[r].kind = "refresh" THEN "issue" ELSE "answer"

(* The UPDATE of refresh and of logout. *)
Revoke(r) ==
  /\ req[r].pc = "revoke"
  /\ sessions' = Revoked(req[r].cookie)
  /\ To(r, AfterRevoke(r))
  /\ UNCHANGED <<users, browserVars, historyVars>>

(* Its failure is ignored by both. *)
RevokeFails(r) ==
  /\ "db" \in Faults
  /\ req[r].pc = "revoke"
  /\ To(r, AfterRevoke(r))
  /\ failed' = TRUE
  /\ UNCHANGED <<serverVars, browserVars, first, out, forked, raced>>

(* A mistake: the row does not say whose it is. *)
Issued_NoUser(r) == With(sessions, r, [user |-> None, live |-> TRUE])

Issued(r) == With(sessions, r, [user |-> req[r].user, live |-> TRUE])

(* issue_session *)
Issue(r) ==
  /\ req[r].pc = "issue"
  /\ sessions' = Issued(r)
  /\ To(r, "answer")
  /\ UNCHANGED <<users, browserVars, historyVars>>

(* Any other statement fails: 500, and what was done before stays done. *)
StatementFails(r) ==
  /\ "db" \in Faults
  /\ req[r].pc \in {"count", "insert", "verify", "read", "issue"}
  /\ To(r, "done")
  /\ failed' = TRUE
  /\ UNCHANGED <<serverVars, browserVars, first, out, forked, raced>>

-----------------------------------------------------------------------------
(* Answers *)

SignedOut(r) == req[r].kind = "logout"

(* Success: sign-in and refresh put cookie and token in place, logout takes
   both away. *)
Answered(r) ==
  /\ req[r].pc = "answer"
  /\ To(r, "done")
  /\ CASE req[r].kind = "add"    -> UNCHANGED browserVars
       [] req[r].kind = "logout" -> jar' = None /\ token' = "none"
       [] OTHER                  -> jar' = r /\ token' = "fresh"
  /\ out' = (out \/ SignedOut(r))
  /\ UNCHANGED <<serverVars, first, forked, raced, failed>>

(* The request or its answer is lost; logout forgets the token all the same. *)
Lost(r) ==
  /\ "net" \in Faults
  /\ InFlight(r)
  /\ To(r, "done")
  /\ failed' = TRUE
  /\ token' = IF SignedOut(r) THEN "none" ELSE token
  /\ out' = (out \/ SignedOut(r))
  /\ UNCHANGED <<serverVars, jar, first, forked, raced>>

(* The access token's fifteen minutes are over. *)
TokenExpires ==
  /\ token = "fresh"
  /\ token' = "stale"
  /\ UNCHANGED <<serverVars, req, jar, historyVars>>

(* A page loads with an old token: /auth/me answers 401, which is not retried,
   and the token is forgotten. *)
MeRejected ==
  /\ token = "stale"
  /\ token' = "none"
  /\ UNCHANGED <<serverVars, req, jar, historyVars>>

Next ==
  \/ \E r \in Requests :
       \/ \E u \in Users : Bootstrap(r, u) \/ Login(r, u) \/ AddUser(r, u)
       \/ SilentRefresh(r) \/ Logout(r)
       \/ Count(r) \/ InsertUser(r) \/ Verify(r) \/ Read(r)
       \/ Revoke(r) \/ RevokeFails(r) \/ Issue(r) \/ StatementFails(r)
       \/ Answered(r) \/ Lost(r)
  \/ TokenExpires \/ MeRejected

Spec == Init /\ [][Next]_vars

-----------------------------------------------------------------------------
(* Properties *)

(* The cookie a browser holds works, or the request that has used it up is
   still under way with the next one: tabs that refresh, sign in and sign out
   in any order never leave a browser with a revoked cookie, unless a
   statement or an answer failed. *)
CookieWorks ==
  jar = None \/ jar \in Live \/ failed
    \/ \E r \in Requests : /\ InFlight(r)
                           /\ req[r].cookie = jar
                           /\ req[r].kind \in {"refresh", "logout"}

(* Rotation leaves no session behind: a browser has one live session, and none
   after signing out, unless two requests for it were in flight at a time, the
   user signed in twice, or something failed. *)
NoSessionLeftBehind ==
  ~forked /\ ~failed =>
    /\ Cardinality(Live) <= 1
    /\ out => Live = {} /\ jar = None /\ token = "none"

(* Bootstrap makes one user: a second one is refused whether it comes before or
   after the first is answered, signed in or out, and users added meanwhile
   make no difference.  Only two requests that both count no users before
   either inserts are excused: these are two statements. *)
FirstUserAlone == raced \/ Cardinality(first) <= 1
=============================================================================
