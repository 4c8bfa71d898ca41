----------------------------- MODULE AccessProofs -----------------------------
(***************************************************************************)
(* Theorems about Access: a request acts for a provider only with a role   *)
(* its user had since it came, and beyond the public surface only with the *)
(* token of its user, in time.  Each control point has established a part  *)
(* of that (Sound); the history `held' always holds the role of the moment *)
(* while a request is on its way (Watched).                                *)
(***************************************************************************)
EXTENDS Access, TLAPS

TokenType == [ user : User, issued : Nat, claim : [ Provider -> Role \cup {None} ] ]

RequestType ==
  [ pc : {"idle", "authenticate", "platform", "scope", "role", "handle", "done"},
    route : Routes \cup {None}, bearer : Token \cup {None, Junk},
    org : Provider \cup {None, Junk}, identity : User \cup {None}, role : Role \cup {None},
    arrived : Nat,
    answer : {None, "OK", "UNAUTHENTICATED", "INVALID_TOKEN", "TOKEN_EXPIRED", "FORBIDDEN",
              "ORG_REQUIRED", "VALIDATION", "NOT_A_MEMBER"} ]

\* r was let in with a token of its user that had not expired when it came.
Identified(r) ==
  /\ r.bearer \in Token /\ token[r.bearer] # None
  /\ r.identity = token[r.bearer].user
  /\ r.arrived < token[r.bearer].issued + TTL

Sound(q) ==
  LET r == request[q] IN
  /\ r.pc # "idle" => r.route \in Routes
  /\ r.pc = "idle" => r.route = None
  /\ r.pc # "done" => r.answer = None
  /\ r.pc = "done" => r.answer # None
  /\ r.bearer \in Token => token[r.bearer] # None
  /\ r.arrived <= now
  /\ r.pc \in {"scope", "role"} => r.route.surface = "org" /\ Identified(r)
  /\ r.pc = "platform" => r.route.surface = "admin" /\ Identified(r)
  /\ r.pc = "role" => r.org \in Provider /\ r.role \in held[q] \ {None}
  /\ r.pc = "handle" \/ r.answer = "OK" =>
       /\ r.route.surface \in Protected => Identified(r)
       /\ r.route.surface = "org" =>
            \E role \in held[q] \ {None} : RoleAtLeast(role, r.route.minimum)
  /\ r.answer = "NOT_A_MEMBER" => None \in held[q]
  /\ r.route # None /\ r.route.surface = "public" =>
       r.pc \in {"authenticate", "handle", "done"} /\ r.answer \in {None, "OK"}

\* The history has the role that the table shows now.
Watched(q) ==
  LET r == request[q] IN
  OnItsWay(q) /\ r.bearer \in Token /\ r.org \in Provider =>
    members[token[r.bearer].user][r.org] \in held[q]

TypeInv ==
  /\ now \in 0 .. MaxTime /\ changes \in 0 .. MaxChanges
  /\ members \in [ User -> [ Provider -> Role \cup {None} ] ]
  /\ token \in [ Token -> TokenType \cup {None} ]
  /\ \A t \in Token : token[t] # None => token[t].issued <= now
  /\ request \in [ Request -> RequestType ]
  /\ held \in [ Request -> SUBSET (Role \cup {None}) ]

IInv == TypeInv /\ \A q \in Request : Sound(q) /\ Watched(q)

-----------------------------------------------------------------------------

LEMMA Parameters ==
  /\ TTL \in Nat /\ MaxTime \in Nat /\ MaxChanges \in Nat
  /\ None \notin User /\ None \notin Provider /\ None \notin Token /\ None \notin Role
  /\ Junk \notin Provider /\ Junk \notin Token /\ Junk # None
  /\ None # "OK" /\ None # "NOT_A_MEMBER" /\ None \notin TokenType
  BY AccessAssumption DEF TokenType

LEMMA RouteFields ==
  ASSUME NEW route \in Routes
  PROVE  /\ route.surface \in Surfaces
         /\ route.surface = "org" => route.minimum \in Role
  BY DEF Routes, Surfaces

LEMMA TokenFields ==
  ASSUME TypeInv, NEW t \in Token, token[t] # None
  PROVE  token[t] \in TokenType /\ token[t].user \in User /\ token[t].issued \in Nat
  BY DEF TypeInv, TokenType

\* A step of one request, that becomes n, while the rest stays.
LEMMA RequestStep ==
  ASSUME IInv, NEW q \in Request, NEW n \in RequestType, request' = [request EXCEPT ![q] = n],
         UNCHANGED <<now, changes, members, token, held>>, Sound(q)', Watched(q)'
  PROVE  IInv'
<1>1. TypeInv'
  BY DEF IInv, TypeInv
<1>2. ASSUME NEW p \in Request, p # q PROVE Sound(p)' /\ Watched(p)'
  <2>1. request'[p] = request[p] /\ Sound(p) /\ Watched(p)
    BY <1>2 DEF IInv, TypeInv
  <2> QED  BY <2>1 DEF Sound, Watched, Identified, OnItsWay
<1> QED  BY <1>1, <1>2 DEF IInv

LEMMA RequestFields ==
  ASSUME IInv, NEW q \in Request
  PROVE  request \in [ Request -> RequestType ] /\ request[q] \in RequestType
         /\ Sound(q) /\ Watched(q) /\ TypeInv
  BY DEF IInv, TypeInv

Answers == {"OK", "UNAUTHENTICATED", "INVALID_TOKEN", "TOKEN_EXPIRED", "FORBIDDEN",
            "ORG_REQUIRED", "VALIDATION", "NOT_A_MEMBER"}

\* A request that is answered was entitled to that answer.
LEMMA AnsweringKeeps ==
  ASSUME IInv, NEW q \in Request, request[q].pc # "idle", NEW reply \in Answers, reply # None,
         Answer(q, reply), Stays,
         reply = "OK" => request[q].pc = "handle",
         reply = "NOT_A_MEMBER" => None \in held[q],
         request[q].route.surface = "public" => reply = "OK"
  PROVE  IInv'
<1> DEFINE n == [request[q] EXCEPT !.pc = "done", !.answer = reply]
<1>1. /\ request \in [ Request -> RequestType ] /\ request[q] \in RequestType /\ Sound(q)
  BY RequestFields
<1>2. /\ n \in RequestType /\ n.pc = "done" /\ n.answer = reply
      /\ n.route = request[q].route /\ n.bearer = request[q].bearer /\ n.org = request[q].org
      /\ n.identity = request[q].identity /\ n.role = request[q].role
      /\ n.arrived = request[q].arrived
  BY <1>1 DEF RequestType, Answers
<1>3. request' = [request EXCEPT ![q] = n]
  BY <1>1 DEF Answer, RequestType
<1> HIDE DEF n
<1>4. request'[q] = n /\ UNCHANGED <<now, changes, members, token, held>>
  BY <1>1, <1>3 DEF Stays
<1>5. Sound(q)'
  BY <1>1, <1>2, <1>4 DEF Sound, Identified
<1>6. Watched(q)'
  BY <1>2, <1>4 DEF Watched, OnItsWay
<1> QED  BY <1>2, <1>3, <1>4, <1>5, <1>6, RequestStep

\* A request that goes on, perhaps with an identity or a role it has just learned.
LEMMA GoingKeeps ==
  ASSUME IInv, NEW q \in Request, request[q].pc \notin {"idle", "done"},
         NEW n \in RequestType, request' = [request EXCEPT ![q] = n], Stays,
         n.pc \in {"platform", "scope", "role", "handle"},
         n.route = request[q].route, n.bearer = request[q].bearer, n.org = request[q].org,
         n.arrived = request[q].arrived, n.answer = request[q].answer,
         n.pc \in {"scope", "role"} => n.route.surface = "org" /\ Identified(n),
         n.pc = "platform" => n.route.surface = "admin" /\ Identified(n),
         n.pc = "role" => n.org \in Provider /\ n.role \in held[q] \ {None},
         n.pc = "handle" =>
           /\ n.route.surface \in Protected => Identified(n)
           /\ n.route.surface = "org" =>
                \E role \in held[q] \ {None} : RoleAtLeast(role, n.route.minimum)
  PROVE  IInv'
<1>1. /\ request \in [ Request -> RequestType ] /\ Sound(q) /\ Watched(q)
  BY RequestFields
<1>2. request'[q] = n /\ UNCHANGED <<now, changes, members, token, held>>
  BY <1>1 DEF Stays
<1>3. Sound(q)'
  BY <1>1, <1>2, Parameters DEF Sound, Identified
<1>4. Watched(q)'
  BY <1>1, <1>2 DEF Watched, OnItsWay
<1> QED  BY <1>2, <1>3, <1>4, RequestStep

-----------------------------------------------------------------------------
(* One lemma for each action.                                              *)

\* A token that is good now is its user's, and was good when the request came.
LEMMA GoodToken ==
  ASSUME IInv, NEW q \in Request, request[q].bearer # None,
         Verdict(request[q].bearer) = "valid"
  PROVE  /\ request[q].bearer \in Token /\ token[request[q].bearer].user \in User
         /\ token[request[q].bearer] # None
         /\ request[q].arrived < token[request[q].bearer].issued + TTL
<1> DEFINE t == request[q].bearer
<1>1. request[q] \in RequestType /\ Sound(q) /\ TypeInv
  BY RequestFields
<1>2. t # Junk /\ ~(now >= token[t].issued + TTL)
  BY DEF Verdict
<1>3. t \in Token /\ token[t] # None
  BY <1>1, <1>2 DEF RequestType, Sound
<1>4. token[t].user \in User /\ token[t].issued \in Nat /\ now \in Nat
  BY <1>1, <1>3, TokenFields, Parameters DEF TypeInv
<1>5. request[q].arrived \in Nat /\ request[q].arrived <= now
  BY <1>1 DEF RequestType, Sound
<1> QED  BY <1>2, <1>3, <1>4, <1>5, Parameters

LEMMA BadVerdict ==
  ASSUME NEW t, Verdict(t) # "valid" PROVE Verdict(t) \in {"INVALID_TOKEN", "TOKEN_EXPIRED"}
  BY DEF Verdict

LEMMA ArriveKeeps == ASSUME IInv, NEW q \in Request, Arrive(q) PROVE IInv'
<1>1. PICK route \in Routes, bearer \in Issued \cup {None, Junk},
           org \in Provider \cup {None, Junk} :
        /\ route.surface # "org" => org = None
        /\ request' = [request EXCEPT ![q].route = route, ![q].bearer = bearer,
                         ![q].org = org, ![q].arrived = now, ![q].pc = "authenticate"]
        /\ held' = [held EXCEPT ![q] = HeldNow(bearer, org)]
  BY DEF Arrive
<1>4. /\ request \in [ Request -> RequestType ] /\ request[q] \in RequestType /\ Sound(q)
      /\ TypeInv /\ request[q].pc = "idle" /\ UNCHANGED <<now, changes, members, token>>
  BY RequestFields DEF Arrive
<1> DEFINE n == [request[q] EXCEPT !.route = route, !.bearer = bearer, !.org = org,
                                   !.arrived = now, !.pc = "authenticate"]
<1>5. now \in Nat /\ bearer \in Token \cup {None, Junk}
      /\ (bearer \in Token => token[bearer] # None)
  BY <1>4, Parameters DEF TypeInv, Issued
<1>6. /\ n \in RequestType /\ n.pc = "authenticate" /\ n.route = route /\ n.bearer = bearer
      /\ n.org = org /\ n.arrived = now /\ n.answer = None
  BY <1>4, <1>5 DEF RequestType, Sound
<1>7. request' = [request EXCEPT ![q] = n]
  BY <1>1, <1>4 DEF RequestType
<1> HIDE DEF n
<1>8. /\ request' \in [ Request -> RequestType ] /\ request'[q] = n
      /\ \A p \in Request \ {q} : request'[p] = request[p]
  BY <1>4, <1>6, <1>7
<1>9. HeldNow(bearer, org) \subseteq Role \cup {None}
  <2>1. CASE bearer \in Token /\ org \in Provider
    <3>1. token[bearer].user \in User
      BY <1>4, <1>5, <2>1, TokenFields
    <3>2. members[token[bearer].user][org] \in Role \cup {None}
      BY <1>4, <2>1, <3>1 DEF TypeInv
    <3> QED  BY <3>2 DEF HeldNow
  <2>2. CASE ~(bearer \in Token /\ org \in Provider)
    BY <2>2 DEF HeldNow
  <2> QED  BY <2>1, <2>2
<1>10. /\ held' \in [ Request -> SUBSET (Role \cup {None}) ]
       /\ held'[q] = HeldNow(bearer, org)
       /\ \A p \in Request \ {q} : held'[p] = held[p]
  BY <1>1, <1>4, <1>9 DEF TypeInv
<1>11. TypeInv'
  BY <1>4, <1>8, <1>10 DEF TypeInv
<1>12. Sound(q)'
  BY <1>4, <1>5, <1>6, <1>8, Parameters DEF Sound, Routes
<1>13. Watched(q)'
  BY <1>4, <1>6, <1>8, <1>10 DEF Watched, HeldNow
<1>14. ASSUME NEW p \in Request, p # q PROVE Sound(p)' /\ Watched(p)'
  <2>1. request'[p] = request[p] /\ held'[p] = held[p] /\ Sound(p) /\ Watched(p)
    BY <1>8, <1>10, <1>14, RequestFields
  <2> QED  BY <1>4, <2>1 DEF Sound, Watched, Identified, OnItsWay
<1> QED  BY <1>11, <1>12, <1>13, <1>14 DEF IInv

LEMMA RequireAuthKeeps == ASSUME IInv, NEW q \in Request, RequireAuth(q) PROVE IInv'
<1> DEFINE t == request[q].bearer
<1>1. /\ request \in [ Request -> RequestType ] /\ request[q] \in RequestType /\ Sound(q)
      /\ request[q].pc = "authenticate" /\ request[q].route.surface \in {"me", "org", "admin"}
      /\ request[q].answer = None /\ Stays
  BY RequestFields DEF RequireAuth, Protected, Sound
<1>2. ASSUME NEW reply \in {"UNAUTHENTICATED", "INVALID_TOKEN", "TOKEN_EXPIRED"},
             Answer(q, reply)
      PROVE  IInv'
  <2>1. reply \in Answers /\ reply # "OK" /\ reply # "NOT_A_MEMBER" /\ reply # None
    BY <1>2, AccessAssumption DEF Answers
  <2> QED  BY <1>1, <1>2, <2>1, AnsweringKeeps
<1>3. CASE t # None /\ Verdict(t) = "valid" /\ Passes(q, token[t].user, AfterIdentity(q))
  <2> DEFINE label == AfterIdentity(q)
             n == [request[q] EXCEPT !.pc = label, !.identity = token[t].user]
  <2>1. /\ t \in Token /\ token[t].user \in User /\ token[t] # None
        /\ request[q].arrived < token[t].issued + TTL
    BY <1>3, GoodToken
  <2>2. /\ label \in {"scope", "platform", "handle"}
        /\ label = "scope" => request[q].route.surface = "org"
        /\ label = "platform" => request[q].route.surface = "admin"
        /\ label = "handle" => request[q].route.surface = "me"
    BY <1>1 DEF AfterIdentity
  <2> HIDE DEF label
  <2>3. /\ n \in RequestType /\ n.pc = label /\ n.route = request[q].route /\ n.bearer = t
        /\ n.org = request[q].org /\ n.arrived = request[q].arrived /\ n.answer = None
        /\ n.identity = token[t].user
    BY <1>1, <2>1, <2>2 DEF RequestType
  <2>4. request' = [request EXCEPT ![q] = n]
    BY <1>1, <1>3 DEF Passes, RequestType, label
  <2> HIDE DEF n
  <2>5. Identified(n)
    BY <2>1, <2>3 DEF Identified
  <2> QED  BY <1>1, <2>2, <2>3, <2>4, <2>5, GoingKeeps
<1>4. t # None /\ Verdict(t) # "valid" /\ Answer(q, Verdict(t)) => IInv'
  BY <1>2, BadVerdict
<1> QED  BY <1>2, <1>3, <1>4 DEF RequireAuth

LEMMA OptionalAuthKeeps == ASSUME IInv, NEW q \in Request, OptionalAuth(q) PROVE IInv'
<1> DEFINE t == request[q].bearer
<1>1. /\ request \in [ Request -> RequestType ] /\ request[q] \in RequestType /\ Sound(q)
      /\ request[q].pc = "authenticate" /\ request[q].route.surface \notin Protected
      /\ request[q].answer = None /\ Stays
  BY RequestFields DEF OptionalAuth, Sound
<1>2. \E u \in User \cup {None} : Passes(q, u, "handle")
  BY GoodToken DEF OptionalAuth
<1>3. PICK u \in User \cup {None} : Passes(q, u, "handle")
  BY <1>2
<1> DEFINE n == [request[q] EXCEPT !.pc = "handle", !.identity = u]
<1>4. /\ n \in RequestType /\ n.pc = "handle" /\ n.route = request[q].route /\ n.bearer = t
      /\ n.org = request[q].org /\ n.arrived = request[q].arrived /\ n.answer = None
  BY <1>1 DEF RequestType
<1>5. request' = [request EXCEPT ![q] = n]
  BY <1>1, <1>3 DEF Passes, RequestType
<1> HIDE DEF n
<1>6. n.route.surface \notin Protected /\ n.route.surface # "org"
  BY <1>1, <1>4 DEF Protected
<1> QED  BY <1>1, <1>4, <1>5, <1>6, GoingKeeps

LEMMA PlatformKeeps == ASSUME IInv, NEW q \in Request, RequirePlatformAdmin(q) PROVE IInv'
<1>1. /\ request \in [ Request -> RequestType ] /\ request[q] \in RequestType /\ Sound(q)
      /\ request[q].pc = "platform" /\ request[q].answer = None /\ Stays
      /\ request[q].route.surface = "admin" /\ Identified(request[q])
  BY RequestFields DEF RequirePlatformAdmin, Sound
<1>2. CASE Answer(q, "FORBIDDEN")
  <2>1. "FORBIDDEN" \in Answers /\ "FORBIDDEN" # None
    BY AccessAssumption DEF Answers
  <2> QED  BY <1>1, <1>2, <2>1, AnsweringKeeps
<1>3. CASE Goto(q, "handle")
  <2> DEFINE n == [request[q] EXCEPT !.pc = "handle"]
  <2>1. /\ n \in RequestType /\ n.pc = "handle" /\ n.route = request[q].route
        /\ n.bearer = request[q].bearer /\ n.org = request[q].org
        /\ n.arrived = request[q].arrived /\ n.answer = None
        /\ n.identity = request[q].identity
    BY <1>1 DEF RequestType
  <2>2. request' = [request EXCEPT ![q] = n]
    BY <1>1, <1>3 DEF Goto, RequestType
  <2> HIDE DEF n
  <2>3. Identified(n)
    BY <1>1, <2>1 DEF Identified
  <2> QED  BY <1>1, <2>1, <2>2, <2>3, GoingKeeps
<1> QED  BY <1>2, <1>3 DEF RequirePlatformAdmin

\* The row of `members' is in the history when it is read.
LEMMA OrgKeeps == ASSUME IInv, NEW q \in Request, RequireOrg(q) PROVE IInv'
<1> DEFINE p == request[q].org
           role == Membership(q, p)
<1>1. /\ request \in [ Request -> RequestType ] /\ request[q] \in RequestType /\ Sound(q)
      /\ request[q].pc = "scope" /\ request[q].answer = None /\ Stays /\ Watched(q)
      /\ request[q].route.surface = "org" /\ Identified(request[q]) /\ TypeInv
  BY RequestFields DEF RequireOrg, Sound
<1>2. p \in Provider => role \in held[q] /\ held[q] \subseteq Role \cup {None}
  BY <1>1 DEF Watched, OnItsWay, Identified, Membership, TypeInv
<1>3. ASSUME NEW reply \in {"ORG_REQUIRED", "VALIDATION", "NOT_A_MEMBER"},
             Answer(q, reply), reply = "NOT_A_MEMBER" => None \in held[q]
      PROVE  IInv'
  <2>1. reply \in Answers /\ reply # "OK" /\ reply # None
    BY <1>3, AccessAssumption DEF Answers
  <2> QED  BY <1>1, <1>3, <2>1, AnsweringKeeps
<1>4. CASE /\ p \in Provider /\ role # None
           /\ request' = [request EXCEPT ![q].pc = "role", ![q].role = role]
  <2> HIDE DEF role
  <2> DEFINE n == [request[q] EXCEPT !.pc = "role", !.role = role]
  <2>1. role \in Role /\ role \in held[q] \ {None}
    BY <1>2, <1>4
  <2>2. /\ n \in RequestType /\ n.pc = "role" /\ n.route = request[q].route
        /\ n.bearer = request[q].bearer /\ n.org = p
        /\ n.arrived = request[q].arrived /\ n.answer = None
        /\ n.identity = request[q].identity /\ n.role = role
    BY <1>1, <2>1 DEF RequestType
  <2>3. request' = [request EXCEPT ![q] = n]
    BY <1>1, <1>4 DEF RequestType
  <2> HIDE DEF n
  <2>4. Identified(n) /\ n.route.surface = "org"
    BY <1>1, <2>2 DEF Identified
  <2>5. n.org \in Provider /\ n.role \in held[q] \ {None}
    BY <1>4, <2>1, <2>2
  <2>6. request[q].pc \notin {"idle", "done"} /\ n.pc \in {"platform", "scope", "role", "handle"}
        /\ n.pc # "platform" /\ n.pc # "handle" /\ n.answer = request[q].answer
    BY <1>1, <2>2
  <2> QED  BY <1>1, <2>2, <2>3, <2>4, <2>5, <2>6, GoingKeeps
<1> QED  BY <1>2, <1>3, <1>4 DEF RequireOrg

LEMMA RoleKeeps == ASSUME IInv, NEW q \in Request, RequireOrgRole(q) PROVE IInv'
<1>1. /\ request \in [ Request -> RequestType ] /\ request[q] \in RequestType /\ Sound(q)
      /\ request[q].pc = "role" /\ request[q].answer = None /\ Stays
      /\ request[q].route.surface = "org" /\ Identified(request[q])
      /\ request[q].role \in held[q] \ {None}
  BY RequestFields DEF RequireOrgRole, Sound
<1>2. CASE Answer(q, "FORBIDDEN")
  <2>1. "FORBIDDEN" \in Answers /\ "FORBIDDEN" # None
    BY AccessAssumption DEF Answers
  <2> QED  BY <1>1, <1>2, <2>1, AnsweringKeeps
<1>3. CASE RoleAtLeast(request[q].role, request[q].route.minimum) /\ Goto(q, "handle")
  <2> DEFINE n == [request[q] EXCEPT !.pc = "handle"]
  <2>1. /\ n \in RequestType /\ n.pc = "handle" /\ n.route = request[q].route
        /\ n.bearer = request[q].bearer /\ n.org = request[q].org
        /\ n.arrived = request[q].arrived /\ n.answer = None
        /\ n.identity = request[q].identity
    BY <1>1 DEF RequestType
  <2>2. request' = [request EXCEPT ![q] = n]
    BY <1>1, <1>3 DEF Goto, RequestType
  <2> HIDE DEF n
  <2>3. Identified(n)
    BY <1>1, <2>1 DEF Identified
  <2>4. \E role \in held[q] \ {None} : RoleAtLeast(role, n.route.minimum)
    BY <1>1, <1>3, <2>1
  <2> QED  BY <1>1, <2>1, <2>2, <2>3, <2>4, GoingKeeps
<1> QED  BY <1>2, <1>3 DEF RequireOrgRole

LEMMA HandleKeeps == ASSUME IInv, NEW q \in Request, Handle(q) PROVE IInv'
<1>1. request[q].pc = "handle" /\ Answer(q, "OK") /\ Stays /\ "OK" \in Answers /\ "OK" # None
  BY Parameters DEF Handle, Answers
<1> QED  BY <1>1, AnsweringKeeps

LEMMA IssueKeeps ==
  ASSUME IInv, NEW t \in Token, NEW u \in User, IssueAccessToken(t, u) PROVE IInv'
<1> DEFINE fresh == [ user |-> u, issued |-> now, claim |-> members[u] ]
<1>1. /\ token[t] = None /\ token' = [token EXCEPT ![t] = fresh] /\ TypeInv
      /\ UNCHANGED <<now, changes, members, request, held>>
  BY DEF IssueAccessToken, IInv
<1>2. fresh \in TokenType /\ fresh.issued <= now
  BY <1>1, Parameters DEF TokenType, TypeInv
<1> HIDE DEF fresh
<1>3. /\ token' \in [ Token -> TokenType \cup {None} ] /\ token'[t] = fresh
      /\ \A x \in Token : token[x] # None => token'[x] = token[x]
      /\ \A x \in Token \ {t} : token'[x] = token[x]
  BY <1>1, <1>2 DEF TypeInv
<1>4. TypeInv'
  BY <1>1, <1>2, <1>3 DEF TypeInv
<1>5. ASSUME NEW q \in Request PROVE Sound(q)' /\ Watched(q)'
  <2>1. request'[q] = request[q] /\ held'[q] = held[q] /\ Sound(q) /\ Watched(q)
    BY <1>1, RequestFields
  <2>2. request[q].bearer \in Token => token'[request[q].bearer] = token[request[q].bearer]
    BY <1>3, <2>1 DEF Sound
  <2> QED  BY <1>1, <2>1, <2>2 DEF Sound, Watched, Identified, OnItsWay
<1> QED  BY <1>4, <1>5 DEF IInv

LEMMA ChangeKeeps ==
  ASSUME IInv, NEW u \in User, NEW p \in Provider, NEW role \in Role \cup {None},
         ChangeRole(u, p, role)
  PROVE  IInv'
<1>1. /\ changes < MaxChanges /\ changes' = changes + 1 /\ TypeInv
      /\ members' = [members EXCEPT ![u][p] = role] /\ UNCHANGED <<now, token, request>>
      /\ held' = [ q \in Request |->
           IF OnItsWay(q) /\ request[q].org = p /\ request[q].bearer \in Token
              /\ token[request[q].bearer].user = u
           THEN held[q] \cup {role} ELSE held[q] ]
  BY DEF ChangeRole, IInv
<1>2. /\ members' \in [ User -> [ Provider -> Role \cup {None} ] ]
      /\ members'[u][p] = role
      /\ \A v \in User, o \in Provider : (v = u /\ o = p) \/ members'[v][o] = members[v][o]
  BY <1>1 DEF TypeInv
<1>3. held' \in [ Request -> SUBSET (Role \cup {None}) ]
  BY <1>1 DEF TypeInv
<1>4. changes' \in 0 .. MaxChanges
  BY <1>1, Parameters DEF TypeInv
<1>5. TypeInv'
  BY <1>1, <1>2, <1>3, <1>4 DEF TypeInv
<1>6. ASSUME NEW q \in Request PROVE Sound(q)' /\ Watched(q)'
  <2>1. Sound(q) /\ Watched(q) /\ request[q] \in RequestType
    BY RequestFields
  <2>2. held[q] \subseteq held'[q]
    BY <1>1
  <2>3. Sound(q)'
    BY <1>1, <2>1, <2>2 DEF Sound, Identified
  <2>4. Watched(q)'
    <3> SUFFICES ASSUME OnItsWay(q), request[q].bearer \in Token, request[q].org \in Provider
                 PROVE  members'[token[request[q].bearer].user][request[q].org] \in held'[q]
      BY <1>1 DEF Watched, OnItsWay
    <3> DEFINE v == token[request[q].bearer].user
               o == request[q].org
    <3>1. v \in User
      BY <1>1, <2>1, TokenFields DEF Sound
    <3>2. CASE v = u /\ o = p
      BY <1>1, <1>2, <3>2
    <3>3. CASE ~(v = u /\ o = p)
      BY <1>2, <2>1, <2>2, <3>1, <3>3 DEF Watched
    <3> QED  BY <3>2, <3>3
  <2> QED  BY <2>3, <2>4
<1> QED  BY <1>5, <1>6 DEF IInv

LEMMA TickKeeps == ASSUME IInv, Tick PROVE IInv'
<1>1. /\ TypeInv /\ now' \in 0 .. MaxTime /\ now <= now'
      /\ UNCHANGED <<changes, members, token, request, held>>
  BY Parameters DEF Tick, IInv, TypeInv
<1>2. TypeInv'
  <2>1. \A t \in Token : token[t] # None => token[t].issued <= now'
    BY <1>1, TokenFields DEF TypeInv
  <2> QED  BY <1>1, <2>1 DEF TypeInv
<1>3. ASSUME NEW q \in Request PROVE Sound(q)' /\ Watched(q)'
  <2>1. Sound(q) /\ Watched(q) /\ request[q].arrived \in Nat /\ now \in Nat
    BY <1>1, RequestFields, Parameters DEF RequestType, TypeInv
  <2> QED  BY <1>1, <2>1 DEF Sound, Watched, Identified, OnItsWay
<1> QED  BY <1>2, <1>3 DEF IInv

-----------------------------------------------------------------------------
(* The theorems.                                                           *)

LEMMA InitInv == Init => IInv
<1> SUFFICES ASSUME Init PROVE IInv
  OBVIOUS
<1>1. NoRequest \in RequestType
  BY DEF NoRequest, RequestType
<1>2. TypeInv
  BY <1>1, Parameters DEF Init, TypeInv
<1>3. ASSUME NEW q \in Request PROVE Sound(q) /\ Watched(q)
  <2>1. request[q] = NoRequest /\ now = 0
    BY DEF Init
  <2> QED  BY <2>1, Parameters DEF Sound, Watched, NoRequest, OnItsWay
<1> QED  BY <1>2, <1>3 DEF IInv

LEMMA NextInv == IInv /\ [Next]_vars => IInv'
<1> SUFFICES ASSUME IInv, [Next]_vars PROVE IInv'
  OBVIOUS
<1>1. ASSUME NEW q \in Request, Arrive(q) \/ Step(q) PROVE IInv'
  BY <1>1, ArriveKeeps, RequireAuthKeeps, OptionalAuthKeeps, PlatformKeeps, OrgKeeps,
     RoleKeeps, HandleKeeps DEF Step
<1>2. CASE UNCHANGED vars
  BY <1>2 DEF vars, IInv, TypeInv, Sound, Watched, Identified, OnItsWay
<1> QED  BY <1>1, <1>2, IssueKeeps, ChangeKeeps, TickKeeps DEF Next

LEMMA Inductive == Spec => []IInv
<1> QED  BY InitInv, NextInv, PTL DEF Spec

\* For a provider acts only who had the role since the request came, whatever role
\* the token was issued with (tenant/middleware.go, RequireOrg and RequireOrgRole).
THEOREM ActsOnlyInScope == Spec => []ScopedByTheTable
<1>1. ASSUME IInv, NEW q \in Request, request[q].route # None,
             request[q].route.surface = "org", request[q].pc \in {"handle", "done"},
             request[q].answer \in {None, "OK"}
      PROVE  \E role \in held[q] \ {None} : RoleAtLeast(role, request[q].route.minimum)
  BY <1>1, RequestFields DEF Sound
<1>2. IInv => ScopedByTheTable
  BY <1>1 DEF ScopedByTheTable
<1> QED  BY <1>2, Inductive, PTL

\* Nobody is refused as a stranger who had a role all the time.
THEOREM MembersGetIn == Spec => []MembersAreLetIn
<1>1. IInv => MembersAreLetIn
  BY DEF IInv, Sound, MembersAreLetIn
<1> QED  BY <1>1, Inductive, PTL

\* Beyond the public surface a request acts as the user of its token, which had not
\* expired when the request came (auth/middleware.go, RequireAuth).
THEOREM ActsAsItself == Spec => []ActsInTime
<1>1. ASSUME IInv, NEW q \in Request, request[q].route.surface \in Protected,
             request[q].answer = "OK"
      PROVE  /\ request[q].identity = token[request[q].bearer].user
             /\ request[q].arrived < token[request[q].bearer].issued + TTL
  BY <1>1, RequestFields DEF Sound, Identified
<1>2. IInv => ActsInTime
  BY <1>1 DEF ActsInTime
<1> QED  BY <1>2, Inductive, PTL

\* A customer who browses is never refused for a token (auth/middleware.go, OptionalAuth).
THEOREM CatalogIsFree == Spec => []BrowsingIsFree
<1>1. IInv => BrowsingIsFree
  BY DEF IInv, Sound, BrowsingIsFree
<1> QED  BY <1>1, Inductive, PTL

\* Every variable of Access keeps its type.
THEOREM AccessTypeOK == Spec => []TypeOK
<1>1. ASSUME IInv PROVE TypeOK
  <2>1. \A t \in Issued : /\ token[t].user \in User /\ token[t].issued \in 0 .. now
                          /\ token[t].claim \in [ Provider -> Role \cup {None} ]
    <3> SUFFICES ASSUME NEW t \in Issued
                 PROVE  /\ token[t].user \in User /\ token[t].issued \in 0 .. now
                        /\ token[t].claim \in [ Provider -> Role \cup {None} ]
      OBVIOUS
    <3>1. token[t] \in TokenType /\ token[t].issued <= now /\ now \in Nat
      BY <1>1, Parameters DEF IInv, TypeInv, Issued
    <3> QED  BY <3>1 DEF TokenType
  <2>2. ASSUME NEW q \in Request
        PROVE  /\ request[q].pc \in
                    {"idle", "authenticate", "platform", "scope", "role", "handle", "done"}
               /\ request[q].identity \in User \cup {None}
               /\ request[q].role \in Role \cup {None}
               /\ request[q].pc = "role" => request[q].role \in Role
               /\ held[q] \subseteq Role \cup {None}
    <3>1. request[q] \in RequestType /\ Sound(q) /\ held[q] \subseteq Role \cup {None}
      BY <1>1 DEF IInv, TypeInv
    <3> QED  BY <3>1 DEF RequestType, Sound
  <2> QED  BY <1>1, <2>1, <2>2 DEF IInv, TypeInv, TypeOK
<1> QED  BY <1>1, Inductive, PTL

\* Nobody acts who may not (http/router.go: RequireAuth, RequireOrg, RequireOrgRole).
THEOREM NoneButWhoMay == Spec => []OnlyWhoMayActs
<1>1. ScopedByTheTable /\ ActsInTime => OnlyWhoMayActs
  BY DEF OnlyWhoMayActs
<1> QED  BY <1>1, ActsOnlyInScope, ActsAsItself, PTL

\* Who may is let in (http/router.go: OptionalAuth, RequireOrg).
THEOREM AllWhoMay == Spec => []WhoMayIsLetIn
<1>1. MembersAreLetIn /\ BrowsingIsFree => WhoMayIsLetIn
  BY DEF WhoMayIsLetIn
<1> QED  BY <1>1, MembersGetIn, CatalogIsFree, PTL
=============================================================================
