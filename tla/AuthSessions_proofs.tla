------------------------- MODULE AuthSessions_proofs -------------------------
(***************************************************************************)
(* Theorems about AuthSessions: its types and all its safety properties,   *)
(* for any users, tabs, requests and faults.                               *)
(***************************************************************************)
EXTENDS AuthSessions, FiniteSetTheorems, TLAPS

Issuers == {"bootstrap", "login", "refresh"}

(* The kinds of request that reach each place. *)
Place(q) ==
  /\ q.pc \in {"new", "done"} => q.kind = "none"
  /\ q.pc = "count" => q.kind = "bootstrap"
  /\ q.pc = "insert" => q.kind \in {"bootstrap", "add"}
  /\ q.pc = "verify" => q.kind = "login"
  /\ q.pc = "read" => q.kind = "refresh"
  /\ q.pc = "revoke" => q.kind \in {"refresh", "logout"}
  /\ q.pc = "issue" => q.kind \in Issuers
  /\ q.pc = "answer" => q.kind \in Issuers \union {"logout", "add"}

(* The locals of a request: which session it carries, whom it is for, and
   that the session it issues is still its own until it has been answered. *)
Locals(r) ==
  /\ Place(req[r])
  /\ req[r].cookie \in DOMAIN sessions \union {None}
  /\ req[r].pc \in {"count", "insert", "verify", "issue"} => req[r].user \in Users
  /\ req[r].pc = "revoke" =>
       req[r].cookie # None /\ (req[r].kind = "refresh" => req[r].user \in Users)
  /\ req[r].pc \notin {"answer", "done"} => r \notin DOMAIN sessions
  /\ req[r].pc = "answer" /\ req[r].kind \in Issuers =>
       r \in Live /\ jar # r /\ \A q \in Requests : req[q].cookie # r

(* A cookie that no longer works was used up by a request that has revoked it
   and will bring the next. *)
CookieInv ==
  jar = None \/ jar \in Live \/ failed
    \/ \E r \in Requests : /\ req[r].pc \in {"issue", "answer"}
                           /\ req[r].cookie = jar
                           /\ req[r].kind \in {"refresh", "logout"}

Acting(r) == InFlight(r) /\ req[r].kind # "add"

Alone == ~forked => \A q, r \in Requests : Acting(q) /\ Acting(r) => q = r

Held == IF jar = None THEN {} ELSE {jar}

(* The live sessions while r is under way, and no one else. *)
Calling(r) ==
  /\ req[r].kind \in {"bootstrap", "login"} =>
       /\ jar = None /\ ~out
       /\ Live = IF req[r].pc = "answer" THEN {r} ELSE {}
  /\ req[r].kind \in {"refresh", "logout"} => req[r].cookie = jar
  /\ req[r].pc = "read" => Live = Held
  /\ req[r].pc = "revoke" => Live = Held /\ jar # None
  /\ req[r].kind = "refresh" /\ req[r].pc = "issue" => Live = {} /\ jar # None
  /\ req[r].kind = "refresh" /\ req[r].pc = "answer" => Live = {r} /\ jar # None
  /\ req[r].kind = "logout" /\ req[r].pc = "answer" => Live = {}

CalmInv ==
  ~forked /\ ~failed =>
    /\ out => jar = None /\ token = "none"
    /\ (\A r \in Requests : ~Acting(r)) => Live = Held
    /\ \A r \in Requests : Acting(r) => Calling(r)

(* There is someone to sign in before anybody is. *)
UsersInv ==
  /\ first \subseteq users
  /\ DOMAIN sessions # {} \/ token = "fresh" => users # {}
  /\ \A r \in Requests :
       req[r].pc = "issue" \/ (InFlight(r) /\ req[r].kind = "add") => users # {}
  /\ ~raced =>
       /\ \A u, v \in first : u = v
       /\ \A r \in Requests : Inserting(r) => users = {}
       /\ \A q, r \in Requests : Inserting(q) /\ Inserting(r) => q = r

AuthInv ==
  /\ TypeOK
  /\ \A r \in Requests : Locals(r)
  /\ CookieInv
  /\ Alone
  /\ CalmInv
  /\ UsersInv

-----------------------------------------------------------------------------
(* Requests and sessions *)

LEMMA ReqTypes ==
  ASSUME TypeOK, NEW r \in Requests
  PROVE  /\ req[r] \in RequestState
         /\ req[r].pc \in {"new", "count", "insert", "verify", "read", "revoke", "issue",
                          "answer", "done"}
         /\ req[r].kind \in Kinds
         /\ req[r].user \in Users \union {None}
         /\ req[r].cookie \in Requests \union {None}
<1>1. req[r] \in RequestState
  BY DEF TypeOK
<1>. QED BY <1>1 DEF RequestState

(* A request that goes on keeps its locals, one that is over drops them. *)
LEMMA ToParts ==
  ASSUME TypeOK, NEW r \in Requests,
         NEW pc \in {"insert", "issue", "answer", "revoke", "done"}, To(r, pc)
  PROVE  /\ req' \in [Requests -> RequestState]
         /\ \A q \in Requests \ {r} : req'[q] = req[q]
         /\ req'[r].pc = pc
         /\ pc # "done" => /\ req'[r].kind = req[r].kind
                           /\ req'[r].user = req[r].user
                           /\ req'[r].cookie = req[r].cookie
         /\ pc = "done" => /\ req'[r].kind = "none"
                           /\ req'[r].cookie = None
<1>. DEFINE next == IF pc = "done" THEN Idle(pc) ELSE [req[r] EXCEPT !.pc = pc]
<1>1. req[r] \in RequestState
  BY ReqTypes
<1>2. /\ next \in RequestState /\ next.pc = pc
      /\ pc # "done" => next.kind = req[r].kind /\ next.user = req[r].user
                        /\ next.cookie = req[r].cookie
      /\ pc = "done" => next.kind = "none" /\ next.cookie = None
  BY <1>1 DEF Idle, RequestState, Kinds
<1>3. req' = [req EXCEPT ![r] = next]
  BY DEF To
<1>. HIDE DEF next
<1>. QED BY <1>2, <1>3 DEF TypeOK

LEMMA LiveType ==
  ASSUME TypeOK
  PROVE  Live \subseteq DOMAIN sessions /\ DOMAIN sessions \subseteq Requests
BY DEF TypeOK, Live

LEMMA RevokedLive ==
  ASSUME TypeOK, NEW c, sessions' = Revoked(c)
  PROVE  /\ DOMAIN sessions' = DOMAIN sessions
         /\ Live' = Live \ {c}
         /\ \A s \in DOMAIN sessions' : sessions'[s] \in Row
<1>1. DOMAIN sessions' = DOMAIN sessions
  BY DEF Revoked
<1>2. \A s \in DOMAIN sessions : s # c => sessions'[s] = sessions[s]
  BY DEF Revoked
<1>3. c \in DOMAIN sessions => sessions'[c] = [sessions[c] EXCEPT !.live = FALSE]
  BY DEF Revoked
<1>4. \A s \in DOMAIN sessions : sessions[s] \in Row
  BY DEF TypeOK
<1>5. c \in DOMAIN sessions => sessions'[c] \in Row /\ ~sessions'[c].live
  BY <1>3, <1>4 DEF Row
<1>6. Live' = Live \ {c}
  BY <1>1, <1>2, <1>5 DEF Live
<1>. QED BY <1>1, <1>2, <1>4, <1>5, <1>6

LEMMA IssuedLive ==
  ASSUME TypeOK, NEW r \in Requests, req[r].user \in Users, sessions' = Issued(r)
  PROVE  /\ DOMAIN sessions' = DOMAIN sessions \union {r}
         /\ Live' = Live \union {r}
         /\ \A s \in DOMAIN sessions' : sessions'[s] \in Row
<1>. DEFINE new == [user |-> req[r].user, live |-> TRUE]
<1>1. new \in Row /\ new.live
  BY DEF Row
<1>2. sessions' = [y \in DOMAIN sessions \union {r} |-> IF y = r THEN new ELSE sessions[y]]
  BY DEF Issued, With
<1>. HIDE DEF new
<1>3. /\ DOMAIN sessions' = DOMAIN sessions \union {r}
      /\ sessions'[r] = new
      /\ \A s \in DOMAIN sessions : s # r => sessions'[s] = sessions[s]
  BY <1>2
<1>4. Live' = Live \union {r}
  BY <1>1, <1>3 DEF Live
<1>5. \A s \in DOMAIN sessions : sessions[s] \in Row
  BY DEF TypeOK
<1>. QED BY <1>1, <1>3, <1>4, <1>5

-----------------------------------------------------------------------------
(* Init *)

LEMMA InitAuth == Init => AuthInv
<1>. SUFFICES ASSUME Init PROVE AuthInv
  OBVIOUS
<1>1. \A r \in Requests : /\ req[r] = Idle("new") /\ req[r].pc = "new"
                          /\ req[r].kind = "none" /\ req[r].cookie = None
  BY DEF Init, Idle
<1>2. Idle("new") \in RequestState
  BY DEF Idle, RequestState, Kinds
<1>3. DOMAIN sessions = {} /\ Live = {}
  BY DEF Init, Live
<1>4. TypeOK
  <2>1. req \in [Requests -> RequestState]
    BY <1>2 DEF Init
  <2>. QED BY <1>3, <2>1 DEF Init, TypeOK
<1>5. \A r \in Requests : Locals(r)
  BY <1>1, <1>3 DEF Locals, Place
<1>6. CookieInv /\ Alone
  BY <1>1 DEF Init, CookieInv, Alone, Acting, InFlight
<1>7. CalmInv
  BY <1>1, <1>3 DEF Init, CalmInv, Held, Acting, InFlight
<1>8. UsersInv
  BY <1>1, <1>3 DEF Init, UsersInv, InFlight, Inserting
<1>. QED BY <1>4, <1>5, <1>6, <1>7, <1>8 DEF AuthInv

-----------------------------------------------------------------------------
(* The browser sends *)

LEMMA SendStep ==
  ASSUME AuthInv, NEW r \in Requests, NEW kind, NEW pc, NEW u \in Users \union {None},
         Send(r, kind, pc, u),
         \/ kind = "bootstrap" /\ pc = "count" /\ u \in Users
         \/ kind = "login" /\ pc = "verify" /\ u \in Users
         \/ kind = "refresh" /\ pc = "read"
         \/ kind = "logout" /\ pc = IF jar = None THEN "answer" ELSE "revoke"
         \/ kind = "add" /\ pc = "insert" /\ u \in Users /\ token = "fresh"
  PROVE  AuthInv'
<1>. DEFINE next == [pc |-> pc, kind |-> kind, user |-> u, cookie |-> jar]
<1>1. TypeOK /\ req[r].pc = "new" /\ jar \in DOMAIN sessions \union {None}
  BY DEF AuthInv, TypeOK, Send
<1>2. /\ req' = [req EXCEPT ![r] = next]
      /\ UNCHANGED <<users, sessions, jar, token, first, raced, failed>>
      /\ out' = (out /\ kind \notin {"bootstrap", "login"})
      /\ forked' = (\/ forked
                    \/ kind # "add" /\ \E q \in Requests : InFlight(q) /\ req[q].kind # "add"
                    \/ kind \in {"bootstrap", "login"} /\ Live # {})
  BY DEF Send, serverVars, browserVars
<1>3. pc \in {"count", "verify", "read", "answer", "revoke", "insert"}
  OBVIOUS
<1>4. /\ next \in RequestState /\ next.pc = pc /\ next.kind = kind
      /\ next.user = u /\ next.cookie = jar
  BY <1>1, <1>3, LiveType DEF RequestState, Kinds
<1>. HIDE DEF next
<1>5. /\ req' \in [Requests -> RequestState] /\ req'[r] = next
      /\ \A q \in Requests \ {r} : req'[q] = req[q]
  BY <1>1, <1>2, <1>4 DEF TypeOK
<1>6. Live' = Live
  BY <1>2 DEF Live
<1>7. TypeOK'
  <2>1. forked' \in BOOLEAN /\ out' \in BOOLEAN
    BY <1>2
  <2>. QED BY <1>1, <1>2, <1>5, <2>1 DEF TypeOK
<1>8. \A q \in Requests : Locals(q)'
  <2>1. Locals(r)'
    <3>1. r \notin DOMAIN sessions
      BY <1>1 DEF AuthInv, Locals
    <3>. QED BY <1>1, <1>2, <1>4, <1>5, <3>1 DEF Locals, Place, Issuers
  <2>2. \A q \in Requests \ {r} : Locals(q)'
    BY <1>2, <1>4, <1>5, <1>6 DEF AuthInv, Locals
  <2>. QED BY <2>1, <2>2
<1>9. CookieInv'
  BY <1>1, <1>2, <1>5, <1>6 DEF AuthInv, CookieInv
<1>10. \A q \in Requests \ {r} : (Acting(q)' <=> Acting(q)) /\ (InFlight(q)' <=> InFlight(q))
  BY <1>5 DEF Acting, InFlight
<1>11. (Acting(r)' <=> kind # "add") /\ ~Acting(r)
  BY <1>1, <1>3, <1>4, <1>5 DEF Acting, InFlight
<1>12. ~forked' /\ kind # "add" => \A q \in Requests : ~Acting(q)
  BY <1>2 DEF Acting
<1>13. Alone'
  BY <1>2, <1>10, <1>11, <1>12 DEF AuthInv, Alone
<1>14. CalmInv'
  <2>. SUFFICES ASSUME ~forked', ~failed'
                PROVE  /\ out' => jar' = None /\ token' = "none"
                       /\ (\A q \in Requests : ~Acting(q)') => Live' = Held'
                       /\ \A q \in Requests : Acting(q)' => Calling(q)'
    BY DEF CalmInv
  <2>1. /\ out => jar = None /\ token = "none"
        /\ (\A q \in Requests : ~Acting(q)) => Live = Held
        /\ \A q \in Requests : Acting(q) => Calling(q)
    BY <1>2 DEF AuthInv, CalmInv
  <2>2. Held' = Held
    BY <1>2 DEF Held
  <2>3. CASE kind = "add"
    <3>1. \A q \in Requests \ {r} : Calling(q) => Calling(q)'
      BY <1>2, <1>5, <1>6, <2>2, <2>3 DEF Calling
    <3>. QED BY <1>2, <1>6, <1>10, <1>11, <2>1, <2>2, <2>3, <3>1
  <2>4. CASE kind # "add"
    <3>1. \A q \in Requests : ~Acting(q)
      BY <1>12, <2>4
    <3>2. Live = Held
      BY <2>1, <3>1
    <3>3. kind \in {"bootstrap", "login"} => Live = {} /\ jar = None /\ ~out'
      BY <1>2, <3>2 DEF Held
    <3>4. Calling(r)'
      BY <1>2, <1>4, <1>5, <1>6, <2>2, <3>2, <3>3 DEF Calling, Held
    <3>. QED BY <1>2, <1>10, <1>11, <2>1, <2>4, <3>1, <3>4
  <2>. QED BY <2>3, <2>4
<1>15. UsersInv'
  <2>1. \A q \in Requests :
          req'[q].pc = "issue" \/ (InFlight(q)' /\ req'[q].kind = "add") => users # {}
    BY <1>3, <1>4, <1>5, <1>10 DEF AuthInv, UsersInv
  <2>2. \A q \in Requests : Inserting(q)' => Inserting(q)
    BY <1>4, <1>5 DEF Inserting
  <2>. QED BY <1>2, <2>1, <2>2 DEF AuthInv, UsersInv
<1>. QED BY <1>7, <1>8, <1>9, <1>13, <1>14, <1>15 DEF AuthInv

-----------------------------------------------------------------------------
(* The server's statements *)

(* A request that no cookie depends on yet goes on, or is over. *)
LEMMA MoveStep ==
  ASSUME AuthInv, NEW r \in Requests, req' \in [Requests -> RequestState],
         \A q \in Requests \ {r} : req'[q] = req[q],
         InFlight(r), users' \subseteq Users, first' \subseteq Users,
         UNCHANGED <<sessions, jar, forked>>, token' \in {token, "none"},
         out' \in BOOLEAN, raced' \in BOOLEAN, failed' \in BOOLEAN, failed => failed',
         \/ failed'
         \/ token' = token /\ out' = out /\ req[r].pc \notin {"issue", "answer"},
         req'[r].pc # "new", InFlight(r)' => req'[r].kind = req[r].kind,
         Locals(r)', req'[r].cookie \in {req[r].cookie, None},
         ~failed' /\ Acting(r) =>
           IF Acting(r)' THEN Calling(r) => Calling(r)' ELSE Calling(r) => Live = Held
  PROVE  /\ TypeOK' /\ (\A q \in Requests : Locals(q)')
         /\ CookieInv' /\ Alone' /\ CalmInv'
<1>1. TypeOK
  BY DEF AuthInv
<1>2. Live' = Live /\ Held' = Held
  BY DEF Live, Held
<1>3. TypeOK'
  BY <1>1 DEF TypeOK
<1>4. \A q \in Requests : Locals(q)'
  <2>1. \A q \in Requests : req'[q].cookie \in {req[q].cookie, None}
    OBVIOUS
  <2>2. \A q \in Requests : q # None
    BY AuthAssumption
  <2>3. \A q \in Requests \ {r} : Locals(q)'
    BY <1>2, <2>1, <2>2 DEF AuthInv, Locals
  <2>. QED BY <2>3
<1>5. CookieInv'
  <2>1. CASE failed'
    BY <2>1 DEF CookieInv
  <2>2. CASE ~failed'
    BY <1>2, <2>2 DEF AuthInv, CookieInv
  <2>. QED BY <2>1, <2>2
<1>6. \A q \in Requests : Acting(q)' => Acting(q)
  BY DEF Acting, InFlight
<1>7. Alone'
  BY <1>6 DEF AuthInv, Alone
<1>8. CalmInv'
  <2>. SUFFICES ASSUME ~forked, ~failed'
                PROVE  /\ out' => jar' = None /\ token' = "none"
                       /\ (\A q \in Requests : ~Acting(q)') => Live' = Held'
                       /\ \A q \in Requests : Acting(q)' => Calling(q)'
    BY DEF CalmInv
  <2>1. /\ out => jar = None /\ token = "none"
        /\ (\A q \in Requests : ~Acting(q)) => Live = Held
        /\ \A q \in Requests : Acting(q) => Calling(q)
        /\ \A p, q \in Requests : Acting(p) /\ Acting(q) => p = q
    BY DEF AuthInv, CalmInv, Alone
  <2>2. token' = token /\ out' = out
    OBVIOUS
  <2>3. \A q \in Requests \ {r} : (Acting(q)' <=> Acting(q)) /\ (Calling(q) => Calling(q)')
    BY <1>2, <2>2 DEF Acting, InFlight, Calling
  <2>4. CASE Acting(r)
    BY <1>2, <2>1, <2>2, <2>3, <2>4
  <2>5. CASE ~Acting(r)
    BY <1>2, <1>6, <2>1, <2>2, <2>3, <2>5
  <2>. QED BY <2>4, <2>5
<1>. QED BY <1>3, <1>4, <1>5, <1>7, <1>8

(* No user comes or goes. *)
LEMMA SameUsers ==
  ASSUME AuthInv, NEW r \in Requests, \A q \in Requests \ {r} : req'[q] = req[q],
         UNCHANGED <<users, sessions, first, forked, raced>>, token' \in {token, "none"},
         InFlight(r), InFlight(r)' => req'[r].kind = req[r].kind,
         req'[r].pc = "issue" => users # {}, req'[r].pc # "insert"
  PROVE  UsersInv'
<1>1. \A q \in Requests : InFlight(q)' /\ req'[q].kind = "add" =>
                          InFlight(q) /\ req[q].kind = "add"
  BY DEF InFlight
<1>2. \A q \in Requests : Inserting(q)' => Inserting(q)
  BY DEF Inserting
<1>. QED BY <1>1, <1>2 DEF AuthInv, UsersInv

(* The request is over, with nothing done or after a failure. *)
LEMMA GiveUp ==
  ASSUME AuthInv, NEW r \in Requests, InFlight(r), To(r, "done"),
         UNCHANGED <<users, sessions, jar, first, forked, raced>>, token' \in {token, "none"},
         out' \in BOOLEAN, failed' \in BOOLEAN, failed => failed',
         \/ failed'
         \/ /\ token' = token /\ out' = out
            /\ req[r].pc \in {"count", "insert", "verify", "read"}
  PROVE  AuthInv'
<1>1. TypeOK
  BY DEF AuthInv
<1>2. /\ req' \in [Requests -> RequestState] /\ \A q \in Requests \ {r} : req'[q] = req[q]
      /\ req'[r].pc = "done" /\ req'[r].kind = "none" /\ req'[r].cookie = None
  BY <1>1, ToParts
<1>3. ~InFlight(r)' /\ ~Acting(r)'
  BY <1>2 DEF InFlight, Acting
<1>4. Locals(r)'
  BY <1>2 DEF Locals, Place
<1>5. ~failed' /\ Acting(r) /\ Calling(r) => Live = Held
  <2>. SUFFICES ASSUME ~failed', Acting(r), Calling(r) PROVE Live = Held
    OBVIOUS
  <2>1. req[r].pc \in {"count", "insert", "verify", "read"} /\ Place(req[r]) /\ req[r].kind # "add"
    BY DEF AuthInv, Locals, Acting
  <2>2. CASE req[r].pc = "read"
    BY <2>2 DEF Calling
  <2>3. CASE req[r].pc # "read"
    <3>1. req[r].kind \in {"bootstrap", "login"} /\ req[r].pc # "answer"
      BY <2>1, <2>3 DEF Place
    <3>. QED BY <3>1 DEF Calling, Held
  <2>. QED BY <2>2, <2>3
<1>6. TypeOK' /\ (\A q \in Requests : Locals(q)') /\ CookieInv' /\ Alone' /\ CalmInv'
  <2>1. users' \subseteq Users /\ first' \subseteq Users /\ raced' \in BOOLEAN
    BY <1>1 DEF TypeOK
  <2>2. failed' \/ (token' = token /\ out' = out /\ req[r].pc \notin {"issue", "answer"})
    OBVIOUS
  <2>. QED BY <1>2, <1>3, <1>4, <1>5, <2>1, <2>2, MoveStep
<1>7. UsersInv'
  BY <1>2, <1>3, SameUsers
<1>. QED BY <1>6, <1>7 DEF AuthInv

LEMMA CountStep ==
  ASSUME AuthInv, NEW r \in Requests, Count(r)
  PROVE  AuthInv'
<1>1. /\ TypeOK /\ InFlight(r) /\ Locals(r)
      /\ req[r].pc = "count" /\ req[r].kind = "bootstrap"
      /\ UNCHANGED <<users, sessions, jar, token, first, out, forked, failed>>
      /\ raced' = (raced \/ (users = {} /\ \E q \in Requests : Inserting(q)))
      /\ raced' \in BOOLEAN /\ out' \in BOOLEAN /\ failed' \in BOOLEAN
  BY DEF AuthInv, Count, InFlight, Locals, Place, serverVars, browserVars, historyVars, TypeOK
<1>2. CASE users # {}
  <2>1. raced' = raced
    BY <1>1, <1>2 DEF TypeOK
  <2>2. To(r, "done")
    BY <1>2 DEF Count
  <2>. QED BY <1>1, <2>1, <2>2, GiveUp
<1>3. CASE users = {}
  <2>1. To(r, "insert")
    BY <1>3 DEF Count
  <2>2. /\ req' \in [Requests -> RequestState] /\ \A q \in Requests \ {r} : req'[q] = req[q]
        /\ req'[r].pc = "insert" /\ req'[r].kind = req[r].kind
        /\ req'[r].user = req[r].user /\ req'[r].cookie = req[r].cookie
    BY <1>1, <2>1, ToParts
  <2>3. Locals(r)'
    BY <1>1, <2>2 DEF Locals, Place
  <2>4. Acting(r)' /\ (Calling(r) => Calling(r)')
    BY <1>1, <2>2 DEF Acting, InFlight, Calling, Live
  <2>5. users' \subseteq Users /\ first' \subseteq Users
    BY <1>1 DEF TypeOK
  <2>6. TypeOK' /\ (\A q \in Requests : Locals(q)') /\ CookieInv' /\ Alone' /\ CalmInv'
    BY <1>1, <2>2, <2>3, <2>4, <2>5, MoveStep
  <2>7. UsersInv'
    <3>1. \A q \in Requests : (InFlight(q)' <=> InFlight(q)) /\ req'[q].kind = req[q].kind
      BY <1>1, <2>2 DEF InFlight
    <3>2. first = {}
      BY <1>3 DEF AuthInv, UsersInv
    <3>3. \A q \in Requests : Inserting(q)' => Inserting(q) \/ q = r
      BY <2>2 DEF Inserting
    <3>4. ~raced' => \A q \in Requests : ~Inserting(q)
      BY <1>1, <1>3
    <3>5. DOMAIN sessions' # {} \/ token' = "fresh" => users' # {}
      BY <1>1 DEF AuthInv, UsersInv
    <3>6. \A q \in Requests :
            req'[q].pc = "issue" \/ (InFlight(q)' /\ req'[q].kind = "add") => users' # {}
      BY <1>1, <2>2, <3>1 DEF AuthInv, UsersInv
    <3>. QED BY <1>1, <1>3, <3>2, <3>3, <3>4, <3>5, <3>6 DEF UsersInv
  <2>. QED BY <2>6, <2>7 DEF AuthInv
<1>. QED BY <1>2, <1>3

LEMMA VerifyStep ==
  ASSUME AuthInv, NEW r \in Requests, Verify(r)
  PROVE  AuthInv'
<1>1. /\ TypeOK /\ InFlight(r) /\ Locals(r)
      /\ req[r].pc = "verify" /\ req[r].kind = "login"
      /\ UNCHANGED <<users, sessions, jar, token, first, out, forked, raced, failed>>
      /\ out' \in BOOLEAN /\ raced' \in BOOLEAN /\ failed' \in BOOLEAN
  BY DEF AuthInv, Verify, InFlight, Locals, Place, serverVars, browserVars, historyVars, TypeOK
<1>2. CASE req[r].user \notin users
  BY <1>1, <1>2, GiveUp DEF Verify
<1>3. CASE req[r].user \in users
  <2>1. To(r, "issue")
    BY <1>3 DEF Verify
  <2>2. /\ req' \in [Requests -> RequestState] /\ \A q \in Requests \ {r} : req'[q] = req[q]
        /\ req'[r].pc = "issue" /\ req'[r].kind = req[r].kind
        /\ req'[r].user = req[r].user /\ req'[r].cookie = req[r].cookie
    BY <1>1, <2>1, ToParts
  <2>3. Locals(r)'
    BY <1>1, <2>2 DEF Locals, Place, Issuers
  <2>4. Acting(r)' /\ (Calling(r) => Calling(r)')
    BY <1>1, <2>2 DEF Acting, InFlight, Calling, Live
  <2>5. users' \subseteq Users /\ first' \subseteq Users
    BY <1>1 DEF TypeOK
  <2>6. TypeOK' /\ (\A q \in Requests : Locals(q)') /\ CookieInv' /\ Alone' /\ CalmInv'
    BY <1>1, <2>2, <2>3, <2>4, <2>5, MoveStep
  <2>7. UsersInv'
    BY <1>1, <1>3, <2>2, SameUsers
  <2>. QED BY <2>6, <2>7 DEF AuthInv
<1>. QED BY <1>2, <1>3

LEMMA ReadStep ==
  ASSUME AuthInv, NEW r \in Requests, Read(r)
  PROVE  AuthInv'
<1>. DEFINE s == req[r].cookie
            next == [req[r] EXCEPT !.pc = "revoke", !.user = sessions[s].user]
<1>1. /\ TypeOK /\ InFlight(r) /\ Locals(r)
      /\ req[r].pc = "read" /\ req[r].kind = "refresh"
      /\ UNCHANGED <<users, sessions, jar, token, first, out, forked, raced, failed>>
      /\ out' \in BOOLEAN /\ raced' \in BOOLEAN /\ failed' \in BOOLEAN
  BY DEF AuthInv, Read, InFlight, Locals, Place, serverVars, browserVars, historyVars, TypeOK
<1>2. CASE s \notin Live
  BY <1>1, <1>2, GiveUp DEF Read
<1>3. CASE s \in Live
  <2>1. s \in DOMAIN sessions /\ s # None /\ sessions[s].user \in Users
    BY <1>1, <1>3, LiveType, AuthAssumption DEF TypeOK, Row
  <2>2. /\ next \in RequestState /\ next.pc = "revoke" /\ next.kind = "refresh"
        /\ next.user \in Users /\ next.cookie = s
    BY <1>1, <2>1, ReqTypes DEF RequestState
  <2>3. req' = [req EXCEPT ![r] = next]
    BY <1>1, <1>3 DEF Read, TypeOK
  <2>. HIDE DEF next
  <2>4. /\ req' \in [Requests -> RequestState] /\ req'[r] = next
        /\ \A q \in Requests \ {r} : req'[q] = req[q]
    BY <1>1, <2>2, <2>3 DEF TypeOK
  <2>5. Locals(r)'
    BY <1>1, <2>1, <2>2, <2>4 DEF Locals, Place
  <2>6. Acting(r)' /\ (Calling(r) => Calling(r)')
    <3>1. Calling(r) => jar = s /\ Live = Held
      BY <1>1 DEF Calling
    <3>2. Live' = Live /\ Held' = Held
      BY <1>1 DEF Live, Held
    <3>. QED BY <1>1, <2>1, <2>2, <2>4, <3>1, <3>2 DEF Acting, InFlight, Calling
  <2>7. users' \subseteq Users /\ first' \subseteq Users
    BY <1>1 DEF TypeOK
  <2>8. TypeOK' /\ (\A q \in Requests : Locals(q)') /\ CookieInv' /\ Alone' /\ CalmInv'
    BY <1>1, <2>2, <2>4, <2>5, <2>6, <2>7, MoveStep
  <2>9. UsersInv'
    BY <1>1, <2>2, <2>4, SameUsers
  <2>. QED BY <2>8, <2>9 DEF AuthInv
<1>. QED BY <1>2, <1>3

LEMMA RevokeFailsStep ==
  ASSUME AuthInv, NEW r \in Requests, RevokeFails(r)
  PROVE  AuthInv'
<1>1. /\ TypeOK /\ InFlight(r) /\ Locals(r)
      /\ req[r].pc = "revoke" /\ req[r].kind \in {"refresh", "logout"}
      /\ UNCHANGED <<users, sessions, jar, token, first, out, forked, raced>> /\ failed' = TRUE
      /\ out' \in BOOLEAN /\ raced' \in BOOLEAN /\ failed' \in BOOLEAN
  BY DEF AuthInv, RevokeFails, InFlight, Locals, Place, serverVars, browserVars, TypeOK
<1>2. /\ To(r, AfterRevoke(r))
      /\ AfterRevoke(r) = IF req[r].kind = "refresh" THEN "issue" ELSE "answer"
  BY DEF RevokeFails, AfterRevoke
<1>3. /\ req' \in [Requests -> RequestState] /\ \A q \in Requests \ {r} : req'[q] = req[q]
      /\ req'[r].pc = AfterRevoke(r) /\ req'[r].kind = req[r].kind
      /\ req'[r].user = req[r].user /\ req'[r].cookie = req[r].cookie
  BY <1>1, <1>2, ToParts
<1>4. Locals(r)'
  BY <1>1, <1>2, <1>3 DEF Locals, Place, Issuers
<1>5. users' \subseteq Users /\ first' \subseteq Users
  BY <1>1 DEF TypeOK
<1>6. TypeOK' /\ (\A q \in Requests : Locals(q)') /\ CookieInv' /\ Alone' /\ CalmInv'
  BY <1>1, <1>2, <1>3, <1>4, <1>5, MoveStep
<1>7. UsersInv'
  <2>1. users # {}
    BY <1>1 DEF AuthInv, UsersInv, Locals
  <2>. QED BY <1>1, <1>2, <1>3, <2>1, SameUsers
<1>. QED BY <1>6, <1>7 DEF AuthInv

LEMMA InsertUserStep ==
  ASSUME AuthInv, NEW r \in Requests, InsertUser(r)
  PROVE  AuthInv'
<1>. DEFINE u == req[r].user
<1>1. /\ TypeOK /\ InFlight(r) /\ Locals(r) /\ u \in Users
      /\ req[r].pc = "insert" /\ req[r].kind \in {"bootstrap", "add"}
      /\ UNCHANGED <<sessions, jar, token, out, forked, raced, failed>>
      /\ out' \in BOOLEAN /\ raced' \in BOOLEAN /\ failed' \in BOOLEAN
      /\ users' = users \union {u}
      /\ first' = IF req[r].kind = "bootstrap" /\ u \notin users
                  THEN first \union {u} ELSE first
  BY DEF AuthInv, InsertUser, InFlight, Locals, Place, browserVars, TypeOK
<1>2. CASE u \in users
  BY <1>1, <1>2, GiveUp DEF InsertUser
<1>3. CASE u \notin users
  <2>. DEFINE pc == IF req[r].kind = "add" THEN "answer" ELSE "issue"
  <2>1. To(r, pc)
    BY <1>3 DEF InsertUser
  <2>2. /\ req' \in [Requests -> RequestState] /\ \A q \in Requests \ {r} : req'[q] = req[q]
        /\ req'[r].pc = pc /\ req'[r].kind = req[r].kind
        /\ req'[r].user = req[r].user /\ req'[r].cookie = req[r].cookie
    BY <1>1, <2>1, ToParts
  <2>3. Locals(r)'
    BY <1>1, <2>2 DEF Locals, Place, Issuers
  <2>4. Acting(r) => Acting(r)' /\ (Calling(r) => Calling(r)')
    BY <1>1, <2>2 DEF Acting, InFlight, Calling, Live
  <2>5. users' \subseteq Users /\ first' \subseteq Users
    BY <1>1 DEF TypeOK
  <2>6. TypeOK' /\ (\A q \in Requests : Locals(q)') /\ CookieInv' /\ Alone' /\ CalmInv'
    BY <1>1, <2>2, <2>3, <2>4, <2>5, MoveStep
  <2>7. UsersInv'
    <3>1. first' \subseteq users' /\ users' # {}
      BY <1>1 DEF AuthInv, UsersInv
    <3>2. ~raced /\ req[r].kind = "bootstrap" => first = {}
      BY <1>1 DEF AuthInv, UsersInv, Inserting
    <3>3. ~raced => \A v, w \in first' : v = w
      BY <1>1, <3>2 DEF AuthInv, UsersInv
    <3>4. ~raced => \A q \in Requests : ~Inserting(q)'
      <4>. SUFFICES ASSUME ~raced, NEW q \in Requests, Inserting(q)'
                    PROVE  FALSE
        OBVIOUS
      <4>1. q # r /\ Inserting(q)
        BY <2>2 DEF Inserting
      <4>2. users = {}
        BY <4>1 DEF AuthInv, UsersInv
      <4>3. Inserting(r)
        BY <1>1, <4>2 DEF AuthInv, UsersInv, Inserting
      <4>. QED BY <4>1, <4>3 DEF AuthInv, UsersInv
    <3>. QED BY <1>1, <3>1, <3>3, <3>4 DEF UsersInv
  <2>. QED BY <2>6, <2>7 DEF AuthInv
<1>. QED BY <1>2, <1>3

LEMMA RevokeStep ==
  ASSUME AuthInv, NEW r \in Requests, Revoke(r)
  PROVE  AuthInv'
<1>. DEFINE c == req[r].cookie
<1>1. /\ TypeOK /\ InFlight(r) /\ Locals(r) /\ c \in DOMAIN sessions /\ c # None
      /\ req[r].pc = "revoke" /\ req[r].kind \in {"refresh", "logout"}
      /\ UNCHANGED <<users, jar, token, first, out, forked, raced, failed>>
      /\ sessions' = Revoked(c)
  BY DEF AuthInv, Revoke, InFlight, Locals, Place, browserVars, historyVars
<1>2. /\ To(r, AfterRevoke(r))
      /\ AfterRevoke(r) = IF req[r].kind = "refresh" THEN "issue" ELSE "answer"
  BY DEF Revoke, AfterRevoke
<1>3. /\ req' \in [Requests -> RequestState] /\ \A q \in Requests \ {r} : req'[q] = req[q]
      /\ req'[r].pc = AfterRevoke(r) /\ req'[r].kind = req[r].kind
      /\ req'[r].user = req[r].user /\ req'[r].cookie = c
  BY <1>1, <1>2, ToParts
<1>4. /\ DOMAIN sessions' = DOMAIN sessions /\ Live' = Live \ {c}
      /\ \A s \in DOMAIN sessions' : sessions'[s] \in Row
  BY <1>1, RevokedLive
<1>5. TypeOK'
  BY <1>1, <1>3, <1>4 DEF TypeOK
<1>6. \A q \in Requests : req'[q].cookie = req[q].cookie
  BY <1>3
<1>7. \A q \in Requests : Locals(q)'
  <2>1. Locals(r)'
    BY <1>1, <1>2, <1>3, <1>4 DEF Locals, Place, Issuers
  <2>2. \A q \in Requests \ {r} : Locals(q)'
    BY <1>1, <1>3, <1>4, <1>6 DEF AuthInv, Locals
  <2>. QED BY <2>1, <2>2
<1>8. CookieInv'
  <2>1. CASE jar = c
    BY <1>1, <1>2, <1>3, <2>1 DEF CookieInv
  <2>2. CASE jar # c
    BY <1>1, <1>3, <1>4, <2>2 DEF AuthInv, CookieInv
  <2>. QED BY <2>1, <2>2
<1>9. \A q \in Requests : Acting(q)' <=> Acting(q)
  BY <1>1, <1>2, <1>3 DEF Acting, InFlight
<1>10. Alone'
  BY <1>1, <1>9 DEF AuthInv, Alone
<1>11. Acting(r)
  BY <1>1 DEF Acting
<1>12. CalmInv'
  <2>. SUFFICES ASSUME ~forked, ~failed
                PROVE  /\ out => jar = None /\ token = "none"
                       /\ Calling(r)'
                       /\ \A q \in Requests : Acting(q) => q = r
    BY <1>1, <1>9, <1>11 DEF CalmInv
  <2>1. (out => jar = None /\ token = "none") /\ Calling(r)
    BY <1>11 DEF AuthInv, CalmInv
  <2>2. jar = c /\ Live = {c} /\ Live' = {}
    BY <1>1, <1>4, <2>1 DEF Calling, Held
  <2>3. Calling(r)'
    BY <1>1, <1>2, <1>3, <2>2 DEF Calling
  <2>. QED BY <1>11, <2>1, <2>3 DEF AuthInv, Alone
<1>13. UsersInv'
  <2>1. users # {}
    BY <1>1 DEF AuthInv, UsersInv
  <2>2. \A q \in Requests : Inserting(q)' => Inserting(q)
    BY <1>2, <1>3 DEF Inserting
  <2>. QED BY <1>1, <2>1, <2>2 DEF AuthInv, UsersInv
<1>. QED BY <1>5, <1>7, <1>8, <1>10, <1>12, <1>13 DEF AuthInv

LEMMA IssueStep ==
  ASSUME AuthInv, NEW r \in Requests, Issue(r)
  PROVE  AuthInv'
<1>1. /\ TypeOK /\ InFlight(r) /\ Locals(r) /\ req[r].user \in Users
      /\ req[r].pc = "issue" /\ req[r].kind \in Issuers /\ r \notin DOMAIN sessions
      /\ UNCHANGED <<users, jar, token, first, out, forked, raced, failed>>
      /\ sessions' = Issued(r) /\ To(r, "answer")
  BY DEF AuthInv, Issue, InFlight, Locals, Place, browserVars, historyVars
<1>2. /\ req' \in [Requests -> RequestState] /\ \A q \in Requests \ {r} : req'[q] = req[q]
      /\ req'[r].pc = "answer" /\ req'[r].kind = req[r].kind
      /\ req'[r].user = req[r].user /\ req'[r].cookie = req[r].cookie
  BY <1>1, ToParts
<1>3. /\ DOMAIN sessions' = DOMAIN sessions \union {r} /\ Live' = Live \union {r}
      /\ \A s \in DOMAIN sessions' : sessions'[s] \in Row
  BY <1>1, IssuedLive
<1>4. TypeOK'
  BY <1>1, <1>2, <1>3 DEF TypeOK
<1>5. \A q \in Requests : req'[q].cookie = req[q].cookie /\ req[q].cookie # r
  <2>1. r # None
    BY AuthAssumption
  <2>2. \A q \in Requests : req[q].cookie # r
    BY <1>1, <2>1 DEF AuthInv, Locals
  <2>. QED BY <1>2, <2>2
<1>6. jar # r
  BY <1>1, AuthAssumption DEF TypeOK
<1>7. \A q \in Requests : Locals(q)'
  <2>1. Locals(r)'
    <3>1. Place(req'[r])
      BY <1>1, <1>2 DEF Place
    <3>2. req'[r].cookie \in DOMAIN sessions' \union {None}
      BY <1>1, <1>3, <1>5 DEF Locals
    <3>. QED BY <1>1, <1>2, <1>3, <1>5, <1>6, <3>1, <3>2 DEF Locals
  <2>2. \A q \in Requests \ {r} : Locals(q)'
    BY <1>1, <1>2, <1>3, <1>5 DEF AuthInv, Locals
  <2>. QED BY <2>1, <2>2
<1>8. CookieInv'
  BY <1>1, <1>2, <1>3 DEF AuthInv, CookieInv
<1>9. \A q \in Requests : Acting(q)' <=> Acting(q)
  BY <1>1, <1>2 DEF Acting, InFlight, Issuers
<1>10. Alone'
  BY <1>1, <1>9 DEF AuthInv, Alone
<1>11. Acting(r)
  BY <1>1 DEF Acting, Issuers
<1>12. CalmInv'
  <2>. SUFFICES ASSUME ~forked, ~failed
                PROVE  /\ out => jar = None /\ token = "none"
                       /\ Calling(r)'
                       /\ \A q \in Requests : Acting(q) => q = r
    BY <1>1, <1>9, <1>11 DEF CalmInv
  <2>1. (out => jar = None /\ token = "none") /\ Calling(r)
    BY <1>11 DEF AuthInv, CalmInv
  <2>2. Live = {} /\ Live' = {r}
    BY <1>1, <1>3, <2>1 DEF Calling, Issuers
  <2>3. Calling(r)'
    BY <1>1, <1>2, <2>1, <2>2 DEF Calling, Issuers
  <2>. QED BY <1>11, <2>1, <2>3 DEF AuthInv, Alone
<1>13. UsersInv'
  <2>1. users # {}
    BY <1>1 DEF AuthInv, UsersInv
  <2>2. \A q \in Requests : Inserting(q)' => Inserting(q)
    BY <1>2 DEF Inserting
  <2>. QED BY <1>1, <2>1, <2>2 DEF AuthInv, UsersInv
<1>. QED BY <1>4, <1>7, <1>8, <1>10, <1>12, <1>13 DEF AuthInv

LEMMA StatementFailsStep ==
  ASSUME AuthInv, NEW r \in Requests, StatementFails(r)
  PROVE  AuthInv'
<1>1. /\ InFlight(r) /\ To(r, "done") /\ failed' = TRUE
      /\ UNCHANGED <<users, sessions, jar, token, first, out, forked, raced>>
  BY DEF StatementFails, InFlight, serverVars, browserVars
<1>2. out' \in BOOLEAN
  BY <1>1 DEF AuthInv, TypeOK
<1>. QED BY <1>1, <1>2, GiveUp

-----------------------------------------------------------------------------
(* Answers *)

LEMMA LostStep ==
  ASSUME AuthInv, NEW r \in Requests, Lost(r)
  PROVE  AuthInv'
<1>1. /\ InFlight(r) /\ To(r, "done") /\ failed' = TRUE
      /\ UNCHANGED <<users, sessions, jar, first, forked, raced>>
      /\ token' \in {token, "none"} /\ out' \in BOOLEAN
  BY DEF Lost, serverVars
<1>. QED BY <1>1, GiveUp

LEMMA AnsweredStep ==
  ASSUME AuthInv, NEW r \in Requests, Answered(r)
  PROVE  AuthInv'
<1>1. /\ TypeOK /\ InFlight(r) /\ Locals(r) /\ req[r].pc = "answer"
      /\ req[r].kind \in Issuers \union {"logout", "add"} /\ To(r, "done")
      /\ UNCHANGED <<users, sessions, first, forked, raced, failed>>
      /\ out' = (out \/ req[r].kind = "logout")
  BY DEF AuthInv, Answered, SignedOut, InFlight, Locals, Place, serverVars
<1>2. /\ req[r].kind = "add" => jar' = jar /\ token' = token
      /\ req[r].kind = "logout" => jar' = None /\ token' = "none"
      /\ req[r].kind \in Issuers => jar' = r /\ token' = "fresh"
  BY <1>1 DEF Answered, browserVars, Issuers
<1>3. /\ req' \in [Requests -> RequestState] /\ \A q \in Requests \ {r} : req'[q] = req[q]
      /\ req'[r].pc = "done" /\ req'[r].kind = "none" /\ req'[r].cookie = None
  BY <1>1, ToParts
<1>4. Live' = Live
  BY <1>1 DEF Live
<1>5. req[r].kind \in Issuers => r \in Live /\ r \in DOMAIN sessions
  BY <1>1, LiveType DEF Locals
<1>6. TypeOK'
  <2>1. jar' \in DOMAIN sessions' \union {None} /\ token' \in {"none", "fresh", "stale"}
        /\ out' \in BOOLEAN
    BY <1>1, <1>2, <1>5 DEF TypeOK
  <2>. QED BY <1>1, <1>3, <2>1 DEF TypeOK
<1>7. \A q \in Requests : Locals(q)'
  <2>1. Locals(r)'
    BY <1>3 DEF Locals, Place
  <2>2. jar' \in {jar, None, r}
    BY <1>1, <1>2
  <2>3. \A q \in Requests : q # None /\ req'[q].cookie \in {req[q].cookie, None}
    BY <1>3, AuthAssumption
  <2>4. \A q \in Requests \ {r} : Locals(q)'
    BY <1>1, <1>3, <1>4, <2>2, <2>3 DEF AuthInv, Locals
  <2>. QED BY <2>1, <2>4
<1>8. CookieInv'
  <2>1. CASE req[r].kind = "add"
    BY <1>1, <1>2, <1>3, <1>4, <2>1 DEF AuthInv, CookieInv
  <2>2. CASE req[r].kind # "add"
    BY <1>1, <1>2, <1>4, <1>5, <2>2 DEF CookieInv
  <2>. QED BY <2>1, <2>2
<1>9. ~Acting(r)' /\ \A q \in Requests \ {r} : Acting(q)' <=> Acting(q)
  BY <1>3 DEF Acting, InFlight
<1>10. Alone'
  BY <1>1, <1>9 DEF AuthInv, Alone
<1>11. CalmInv'
  <2>. SUFFICES ASSUME ~forked, ~failed
                PROVE  /\ out' => jar' = None /\ token' = "none"
                       /\ (\A q \in Requests : ~Acting(q)') => Live' = Held'
                       /\ \A q \in Requests : Acting(q)' => Calling(q)'
    BY <1>1 DEF CalmInv
  <2>1. /\ out => jar = None /\ token = "none"
        /\ (\A q \in Requests : ~Acting(q)) => Live = Held
        /\ \A q \in Requests : Acting(q) => Calling(q)
    BY DEF AuthInv, CalmInv
  <2>2. CASE req[r].kind = "add"
    <3>1. Held' = Held /\ ~Acting(r) /\ (out' <=> out) /\ jar' = jar /\ token' = token
      BY <1>1, <1>2, <2>2 DEF Held, Acting
    <3>2. \A q \in Requests \ {r} : Calling(q) => Calling(q)'
      BY <1>3, <1>4, <3>1 DEF Calling
    <3>. QED BY <1>4, <1>9, <2>1, <3>1, <3>2
  <2>3. CASE req[r].kind # "add"
    <3>1. Acting(r) /\ Calling(r) /\ \A q \in Requests : ~Acting(q)'
      BY <1>1, <1>9, <2>1, <2>3 DEF AuthInv, Alone, Acting
    <3>2. CASE req[r].kind = "logout"
      BY <1>1, <1>2, <1>4, <3>1, <3>2 DEF Calling, Held
    <3>3. CASE req[r].kind \in Issuers
      <4>1. Live = {r} /\ ~out
        BY <1>1, <2>1, <3>1, <3>3 DEF Calling, Issuers
      <4>2. jar' = r /\ r # None /\ ~out'
        BY <1>1, <1>2, <3>3, <4>1, AuthAssumption DEF Issuers
      <4>. QED BY <1>4, <3>1, <4>1, <4>2 DEF Held
    <3>. QED BY <1>1, <2>3, <3>2, <3>3
  <2>. QED BY <2>2, <2>3
<1>12. UsersInv'
  <2>1. token' = "fresh" => users # {}
    BY <1>1, <1>2, <1>5 DEF AuthInv, UsersInv, Issuers
  <2>2. \A q \in Requests : req'[q].pc # "done" => req'[q] = req[q]
    BY <1>3
  <2>3. \A q \in Requests : Inserting(q)' => Inserting(q)
    BY <1>3 DEF Inserting
  <2>. QED BY <1>1, <2>1, <2>2, <2>3 DEF AuthInv, UsersInv, InFlight
<1>. QED BY <1>6, <1>7, <1>8, <1>10, <1>11, <1>12 DEF AuthInv

(* The token expires or is forgotten. *)
LEMMA TokenStep ==
  ASSUME AuthInv, TokenExpires \/ MeRejected
  PROVE  AuthInv'
<1>1. /\ UNCHANGED <<users, sessions, req, jar, first, out, forked, raced, failed>>
      /\ token # "none" /\ token' \in {"stale", "none"}
  BY DEF TokenExpires, MeRejected, serverVars, historyVars
<1>2. Live' = Live
  BY <1>1 DEF Live
<1>3. TypeOK'
  BY <1>1 DEF AuthInv, TypeOK
<1>4. \A q \in Requests : Locals(q)'
  BY <1>1, <1>2 DEF AuthInv, Locals
<1>5. CookieInv' /\ Alone'
  BY <1>1, <1>2 DEF AuthInv, CookieInv, Alone, Acting, InFlight
<1>6. CalmInv'
  <2>1. Held' = Held /\ \A q \in Requests : /\ Acting(q)' <=> Acting(q)
                                            /\ Calling(q)' <=> Calling(q)
    BY <1>1, <1>2 DEF Held, Acting, InFlight, Calling
  <2>. QED BY <1>1, <1>2, <2>1 DEF AuthInv, CalmInv
<1>7. UsersInv'
  BY <1>1 DEF AuthInv, UsersInv, InFlight, Inserting
<1>. QED BY <1>3, <1>4, <1>5, <1>6, <1>7 DEF AuthInv

-----------------------------------------------------------------------------
(* Theorems *)

LEMMA NextAuth == AuthInv /\ [Next]_vars => AuthInv'
<1>. SUFFICES ASSUME AuthInv, [Next]_vars PROVE AuthInv'
  OBVIOUS
<1>1. CASE UNCHANGED vars
  <2>1. UNCHANGED <<users, sessions, req, jar, token, first, out, forked, raced, failed>>
    BY <1>1 DEF vars, serverVars, browserVars, historyVars
  <2>2. Live' = Live
    BY <2>1 DEF Live
  <2>3. TypeOK' /\ \A q \in Requests : Locals(q)'
    BY <2>1, <2>2 DEF AuthInv, TypeOK, Locals
  <2>4. CookieInv' /\ Alone' /\ UsersInv'
    BY <2>1, <2>2 DEF AuthInv, CookieInv, Alone, UsersInv, Acting, InFlight, Inserting
  <2>5. CalmInv'
    BY <2>1, <2>2 DEF AuthInv, CalmInv, Calling, Held, Acting, InFlight
  <2>. QED BY <2>3, <2>4, <2>5 DEF AuthInv
<1>2. CASE TokenExpires \/ MeRejected
  BY <1>2, TokenStep
<1>3. ASSUME NEW r \in Requests, NEW u \in Users,
             Bootstrap(r, u) \/ Login(r, u) \/ AddUser(r, u)
      PROVE  AuthInv'
  <2>1. CASE Bootstrap(r, u)
    BY <2>1, SendStep DEF Bootstrap
  <2>2. CASE Login(r, u)
    BY <2>2, SendStep DEF Login
  <2>3. CASE AddUser(r, u)
    BY <2>3, SendStep DEF AddUser
  <2>. QED BY <1>3, <2>1, <2>2, <2>3
<1>4. ASSUME NEW r \in Requests, SilentRefresh(r) \/ Logout(r)
      PROVE  AuthInv'
  <2>1. CASE SilentRefresh(r)
    BY <2>1, SendStep DEF SilentRefresh
  <2>2. CASE Logout(r)
    BY <2>2, SendStep DEF Logout
  <2>. QED BY <1>4, <2>1, <2>2
<1>5. ASSUME NEW r \in Requests,
             Count(r) \/ InsertUser(r) \/ Verify(r) \/ Read(r) \/ Revoke(r) \/ RevokeFails(r)
               \/ Issue(r) \/ StatementFails(r) \/ Answered(r) \/ Lost(r)
      PROVE  AuthInv'
  BY <1>5, CountStep, InsertUserStep, VerifyStep, ReadStep, RevokeStep, RevokeFailsStep,
     IssueStep, StatementFailsStep, AnsweredStep, LostStep
<1>. QED BY <1>1, <1>2, <1>3, <1>4, <1>5 DEF Next

(* Users, sessions, requests and the browser are well typed: every session is
   a user's, and the cookie in the jar was issued by the server. *)
THEOREM TypeCorrect == Spec => []TypeOK
<1>1. AuthInv => TypeOK
  BY DEF AuthInv
<1>. QED BY <1>1, InitAuth, NextAuth, PTL DEF Spec

(* However many tabs refresh, sign in and sign out at a time: the cookie a
   browser holds works, or the request that used it up is still under way,
   unless a statement or an answer failed (refresh in auth/handlers.rs revokes
   the old session before it issues the next). *)
THEOREM CookieHolds == Spec => []CookieWorks
<1>1. AuthInv => CookieWorks
  BY DEF AuthInv, CookieInv, CookieWorks, InFlight
<1>. QED BY <1>1, InitAuth, NextAuth, PTL DEF Spec

(* Rotation never leaves a second live session behind, and signing out none,
   unless requests for the session overlapped or something failed. *)
THEOREM OneSession == Spec => []NoSessionLeftBehind
<1>1. AuthInv => NoSessionLeftBehind
  <2>. SUFFICES ASSUME AuthInv, ~forked, ~failed
                PROVE  /\ Cardinality(Live) <= 1
                       /\ out => Live = {} /\ jar = None /\ token = "none"
    BY DEF NoSessionLeftBehind
  <2>1. /\ out => jar = None /\ token = "none"
        /\ (\A r \in Requests : ~Acting(r)) => Live = Held
        /\ \A r \in Requests : Acting(r) => Calling(r)
    BY DEF AuthInv, CalmInv
  <2>2. Live = {} \/ ((\E x : Live = {x}) /\ ~out)
    <3>1. CASE \A r \in Requests : ~Acting(r)
      BY <2>1, <3>1 DEF Held
    <3>2. ASSUME NEW r \in Requests, Acting(r)
          PROVE  Live = {} \/ ((\E x : Live = {x}) /\ ~out)
      <4>1. Calling(r) /\ Place(req[r]) /\ req[r].kind # "add" /\ InFlight(r)
        BY <2>1, <3>2 DEF AuthInv, Locals, Acting
      <4>2. req[r].pc \in {"count", "insert", "verify", "read", "revoke", "issue", "answer"}
        BY <4>1, ReqTypes DEF AuthInv, InFlight
      <4>. QED BY <2>1, <4>1, <4>2 DEF Calling, Place, Issuers, Held
    <3>. QED BY <3>1, <3>2
  <2>3. Cardinality({}) = 0 /\ \A x : Cardinality({x}) = 1
    BY FS_EmptySet, FS_Singleton
  <2>4. Cardinality(Live) \in {0, 1}
    BY <2>2, <2>3
  <2>. QED BY <2>1, <2>2, <2>4
<1>. QED BY <1>1, InitAuth, NextAuth, PTL DEF Spec

(* Bootstrap makes one user, unless two requests have both counted none before
   either inserts: a later one is refused, whoever is signed in, and the holder
   of a token may add users, but a token is issued only when the count is no
   longer zero. *)
THEOREM OneFirstUser == Spec => []FirstUserAlone
<1>1. AuthInv => FirstUserAlone
  <2>. SUFFICES ASSUME AuthInv, ~raced PROVE Cardinality(first) <= 1
    BY DEF FirstUserAlone
  <2>1. first = {} \/ \E u : first = {u}
    <3>. SUFFICES ASSUME NEW u \in first PROVE first = {u}
      OBVIOUS
    <3>. QED BY DEF AuthInv, UsersInv
  <2>2. Cardinality({}) = 0 /\ \A x : Cardinality({x}) = 1
    BY FS_EmptySet, FS_Singleton
  <2>3. Cardinality(first) \in {0, 1}
    BY <2>1, <2>2
  <2>. QED BY <2>3
<1>. QED BY <1>1, InitAuth, NextAuth, PTL DEF Spec
=============================================================================
