------------------------------- MODULE Access -------------------------------
(***************************************************************************)
(* What stands before the handlers (http/router.go, auth/middleware.go,    *)
(* auth/token.go, tenant/middleware.go): the four surfaces, the access     *)
(* token, the scope of a provider and the role in it.  Tokens carry what   *)
(* was true when they were issued; roles change while requests are on      *)
(* their way.  How roles change is Membership's subject: here they just do.*)
(***************************************************************************)
EXTENDS Naturals

CONSTANTS User, Provider, Token, Request,
          Admins,     \* the users whose platform role is admin: nothing changes it
          TTL,        \* lifetime of an access token
          MaxTime, MaxChanges, \* bounds on the clock and on changes of a role
          None,       \* no header, no role, nothing yet
          Junk        \* a bearer token nobody signed; a header that is no UUID

Surfaces == {"public", "me", "org", "admin"}
Roles == <<"staff", "admin", "owner">>
Role == { Roles[i] : i \in 1 .. 3 }

ASSUME AccessAssumption ==
  /\ Admins \subseteq User
  /\ TTL \in Nat \ {0} /\ MaxTime \in Nat /\ MaxChanges \in Nat
  /\ None \notin User \cup Provider \cup Token \cup Role
  /\ Junk \notin Provider \cup Token \cup {None}
  /\ None \notin {"OK", "UNAUTHENTICATED", "INVALID_TOKEN", "TOKEN_EXPIRED", "FORBIDDEN",
                  "ORG_REQUIRED", "VALIDATION", "NOT_A_MEMBER"}
  /\ None \notin [ user : User, issued : Nat, claim : [ Provider -> Role \cup {None} ] ]

VARIABLES
  now, changes,
  members, \* members[u][p]: the role of a user at a provider, or None
  token,   \* the tokens issued: whose, when, and the memberships claim
  request,
  held     \* history: the roles each request's user had since it arrived

vars == <<now, changes, members, token, request, held>>

Rank(role) == CHOOSE i \in 1 .. 3 : Roles[i] = role

RoleAtLeast(role, minimum) == Rank(role) >= Rank(minimum)

\* A route: its surface and, below /org, the role its group asks for.
Routes ==
  [ surface : Surfaces \ {"org"}, minimum : {None} ] \cup [ surface : {"org"}, minimum : Role ]

NoRequest == [ pc |-> "idle", route |-> None, bearer |-> None, org |-> None,
               identity |-> None, role |-> None, arrived |-> 0, answer |-> None ]

-----------------------------------------------------------------------------
(* Tokens.                                                                 *)

\* Sign-up, sign-in and refresh, with the memberships as they are read there.
IssueAccessToken(t, u) ==
  /\ token[t] = None
  /\ token' = [token EXCEPT ![t] = [ user |-> u, issued |-> now, claim |-> members[u] ]]
  /\ UNCHANGED <<now, changes, members, request, held>>

\* ParseAccessToken
Verdict(t) ==
  IF t = Junk THEN "INVALID_TOKEN"
  ELSE IF now >= token[t].issued + TTL THEN "TOKEN_EXPIRED" ELSE "valid"

-----------------------------------------------------------------------------

Goto(q, label) == request' = [request EXCEPT ![q].pc = label]

Answer(q, reply) == request' = [request EXCEPT ![q].pc = "done", ![q].answer = reply]

Passes(q, u, label) ==
  request' = [request EXCEPT ![q].pc = label, ![q].identity = u]

Stays == UNCHANGED <<now, changes, members, token, held>>

HeldNow(t, p) ==
  IF t \in Token /\ p \in Provider THEN { members[token[t].user][p] } ELSE {}

Issued == { t \in Token : token[t] # None }

Arrive(q) ==
  /\ request[q].pc = "idle"
  /\ \E route \in Routes, bearer \in Issued \cup {None, Junk}, org \in Provider \cup {None, Junk} :
     /\ route.surface # "org" => org = None
     /\ request' = [request EXCEPT ![q].route = route, ![q].bearer = bearer,
                                   ![q].org = org, ![q].arrived = now,
                                   ![q].pc = "authenticate"]
     /\ held' = [held EXCEPT ![q] = HeldNow(bearer, org)]
  /\ UNCHANGED <<now, changes, members, token>>

\* Where a request goes once it is known who sent it.
AfterIdentity(q) ==
  CASE request[q].route.surface = "org" -> "scope"
    [] request[q].route.surface = "admin" -> "platform"
    [] OTHER -> "handle"

\* Mutant: the public surface behind RequireAuth.
Everywhere == Surfaces

Protected == {"me", "org", "admin"}

RequireAuth(q) ==
  LET t == request[q].bearer IN
  /\ request[q].pc = "authenticate" /\ request[q].route.surface \in Protected
  /\ \/ t = None /\ Answer(q, "UNAUTHENTICATED")
     \/ t # None /\ Verdict(t) # "valid" /\ Answer(q, Verdict(t))
     \/ t # None /\ Verdict(t) = "valid" /\ Passes(q, token[t].user, AfterIdentity(q))
  /\ Stays

\* A bad token is ignored rather than rejected.
OptionalAuth(q) ==
  LET t == request[q].bearer IN
  /\ request[q].pc = "authenticate" /\ request[q].route.surface \notin Protected
  /\ \/ t = None /\ Passes(q, None, "handle")
     \/ t # None /\ Verdict(t) # "valid" /\ Passes(q, None, "handle")
     \/ t # None /\ Verdict(t) = "valid" /\ Passes(q, token[t].user, "handle")
  /\ Stays

IsAdmin(u) == u \in Admins

RequirePlatformAdmin(q) ==
  /\ request[q].pc = "platform"
  /\ IF IsAdmin(request[q].identity) THEN Goto(q, "handle") ELSE Answer(q, "FORBIDDEN")
  /\ Stays

\* Mutant: the role that the token claims.
Claimed(q, p) == token[request[q].bearer].claim[p]

\* The row of `members', read on every request.
Membership(q, p) == members[request[q].identity][p]

RequireOrg(q) ==
  LET p == request[q].org IN
  /\ request[q].pc = "scope"
  /\ \/ p = None /\ Answer(q, "ORG_REQUIRED")
     \/ p = Junk /\ Answer(q, "VALIDATION")
     \/ p \in Provider /\ Membership(q, p) = None /\ Answer(q, "NOT_A_MEMBER")
     \/ /\ p \in Provider /\ Membership(q, p) # None
        /\ request' = [request EXCEPT ![q].pc = "role", ![q].role = Membership(q, p)]
  /\ Stays

RequireOrgRole(q) ==
  /\ request[q].pc = "role"
  /\ IF RoleAtLeast(request[q].role, request[q].route.minimum)
     THEN Goto(q, "handle") ELSE Answer(q, "FORBIDDEN")
  /\ Stays

Handle(q) ==
  /\ request[q].pc = "handle"
  /\ Answer(q, "OK")
  /\ Stays

-----------------------------------------------------------------------------

OnItsWay(q) == request[q].pc \notin {"idle", "done"}

ChangeRole(u, p, role) ==
  /\ changes < MaxChanges /\ members[u][p] # role
  /\ changes' = changes + 1
  /\ members' = [members EXCEPT ![u][p] = role]
  /\ held' = [ q \in Request |->
       IF OnItsWay(q) /\ request[q].org = p /\ request[q].bearer \in Token
          /\ token[request[q].bearer].user = u
       THEN held[q] \cup {role} ELSE held[q] ]
  /\ UNCHANGED <<now, token, request>>

Tick == now < MaxTime /\ now' = now + 1 /\ UNCHANGED <<changes, members, token, request, held>>

Init ==
  /\ now = 0 /\ changes = 0
  /\ members \in [ User -> [ Provider -> Role \cup {None} ] ]
  /\ token = [ t \in Token |-> None ]
  /\ request = [ q \in Request |-> NoRequest ]
  /\ held = [ q \in Request |-> {} ]

Step(q) ==
  \/ RequireAuth(q) \/ OptionalAuth(q) \/ RequirePlatformAdmin(q)
  \/ RequireOrg(q) \/ RequireOrgRole(q) \/ Handle(q)

Next ==
  \/ \E q \in Request : Arrive(q) \/ Step(q)
  \/ \E t \in Token, u \in User : IssueAccessToken(t, u)
  \/ \E u \in User, p \in Provider, role \in Role \cup {None} : ChangeRole(u, p, role)
  \/ Tick

Spec == Init /\ [][Next]_vars

-----------------------------------------------------------------------------

TypeOK ==
  /\ now \in 0 .. MaxTime /\ changes \in 0 .. MaxChanges
  /\ members \in [ User -> [ Provider -> Role \cup {None} ] ]
  /\ \A t \in Issued : /\ token[t].user \in User /\ token[t].issued \in 0 .. now
                       /\ token[t].claim \in [ Provider -> Role \cup {None} ]
  /\ \A q \in Request :
       /\ request[q].pc \in {"idle", "authenticate", "platform", "scope", "role", "handle", "done"}
       /\ request[q].identity \in User \cup {None}
       /\ request[q].role \in Role \cup {None}
       /\ request[q].pc = "role" => request[q].role \in Role
       /\ held[q] \subseteq Role \cup {None}

\* For a provider acts only who had the role for it at its table since the request
\* came, whatever role the token was issued with: who was removed before is refused.
ScopedByTheTable ==
  \A q \in Request : request[q].route # None /\ request[q].route.surface = "org"
                       /\ request[q].pc \in {"handle", "done"}
                       /\ request[q].answer \in {None, "OK"} =>
    \E role \in held[q] \ {None} : RoleAtLeast(role, request[q].route.minimum)

\* Nor does an old token keep anybody out: nobody is refused as a stranger who had
\* a role all the time since the request came.
MembersAreLetIn ==
  \A q \in Request : request[q].answer = "NOT_A_MEMBER" => None \in held[q]

\* Beyond the public surface nobody acts with a token that had expired when the
\* request came, nor with another user's.
ActsInTime ==
  \A q \in Request : request[q].route # None /\ request[q].route.surface \in Protected
                       /\ request[q].answer = "OK" =>
    /\ request[q].identity = token[request[q].bearer].user
    /\ request[q].arrived < token[request[q].bearer].issued + TTL

\* A customer who browses with a stale token still sees the catalog.
BrowsingIsFree ==
  \A q \in Request : request[q].route # None /\ request[q].route.surface = "public" =>
    request[q].answer \in {None, "OK"}

\* Nobody acts who may not: for a provider, with its role of that time; beyond the
\* public surface, as oneself and before the token expires.
OnlyWhoMayActs == ScopedByTheTable /\ ActsInTime

\* And who may is let in, whatever the token carries: a member to what is the
\* provider's, and everybody to the catalog.
WhoMayIsLetIn == MembersAreLetIn /\ BrowsingIsFree
=============================================================================
