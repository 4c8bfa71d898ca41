---------------------------- MODULE TenantProofs ----------------------------
(***************************************************************************)
(* Theorems about Tenant: the members, the creation of providers, and the  *)
(* two of them together.                                                   *)
(* For the members, the type invariant carries what a request has          *)
(* established at each control point; the guarantee about the last owner   *)
(* rests on Spare, the fact that a request about to take somebody's        *)
(* ownership away has counted another owner, unless its view is stale.     *)
(* For the creations, for any requests, categories, names and any number   *)
(* of faults: a provider is there as a whole or not at all, and the search *)
(* for a slug gives up or loses only for a reason.                         *)
(***************************************************************************)
EXTENDS Tenant, Sequences, FiniteSetTheorems, TLAPS

LEMMA RankType == \A role \in Role \cup {"unknown"} : roleRank[role] \in Nat
  BY DEF Role, roleRank

-----------------------------------------------------------------------------
(* Types.                                                                  *)

RequestType == [ pc : Label, ask : Asks \cup {None}, stale : BOOLEAN,
                 answer : Code \cup {None} ]

\* What a request in this control point has established.
Established(r) ==
  /\ r.pc = "idle" => r.answer = None
  /\ r.pc # "idle" => r.ask \in Asks
  /\ r.pc \in {"membership", "count", "change"} => r.ask.op \in {"update", "remove"}
  /\ r.pc \in {"count", "change"} /\ r.ask.op = "update" => r.ask.role \in Role
  /\ r.pc \in {"invitation", "accept"} => r.ask.op = "accept"
  /\ r.pc # "done" => r.answer = None

Fit == { r \in RequestType : Established(r) }

InvitationType == [ state : {"unused", "pending", "accepted", "deleted"},
                    email : User \cup {None}, role : Role, expired : BOOLEAN ]

TypeInv ==
  /\ account \subseteq User
  /\ member \in [User -> Role \cup {None}]
  /\ invitation \in [Invitation -> InvitationType]
  /\ request \in [Request -> Fit]

\* An answered request is fit whatever the answer.
LEMMA Answered ==
  ASSUME TypeInv, NEW q \in Request, NEW code \in Code, Answer(q, code),
         request[q].pc # "idle"
  PROVE  request' \in [Request -> Fit]
<1> DEFINE r == [request[q] EXCEPT !.pc = "done", !.answer = code]
<1>1. request' = [request EXCEPT ![q] = r]
  BY DEF Answer, TypeInv, Fit, RequestType
<1>2. request[q] \in RequestType /\ Established(request[q])
  BY DEF TypeInv, Fit
<1>3. r \in RequestType
  BY <1>2 DEF RequestType, Label
<1>4. Established(r)
  BY <1>2, <1>3 DEF Established, RequestType
<1> QED
  BY <1>1, <1>3, <1>4 DEF TypeInv, Fit

\* A request that goes on is fit if it has established what the new control
\* point needs.
LEMMA Moved ==
  ASSUME TypeInv, NEW q \in Request, NEW label \in Label \ {"idle", "done"},
         Goto(q, label), request[q].pc \notin {"idle", "done"},
         label \in {"membership", "count", "change"}
           => request[q].ask.op \in {"update", "remove"},
         label \in {"count", "change"} /\ request[q].ask.op = "update"
           => request[q].ask.role \in Role,
         label \in {"invitation", "accept"} => request[q].ask.op = "accept"
  PROVE  request' \in [Request -> Fit]
<1> DEFINE r == [request[q] EXCEPT !.pc = label]
<1>1. request' = [request EXCEPT ![q] = r]
  BY DEF Goto, TypeInv, Fit, RequestType
<1>2. request[q] \in RequestType /\ Established(request[q])
  BY DEF TypeInv, Fit
<1>3. r \in RequestType
  BY <1>2 DEF RequestType
<1>4. /\ r.pc = label /\ r.ask = request[q].ask /\ r.answer = request[q].answer
  BY <1>2 DEF RequestType
<1>5. Established(r)
  BY <1>2, <1>4 DEF Established
<1> QED
  BY <1>1, <1>3, <1>5 DEF TypeInv, Fit

\* A change of the members leaves members and requests well typed.
LEMMA Changed ==
  ASSUME TypeInv, NEW q \in Request, NEW u \in User, NEW role \in Role \cup {None},
         Change(q, u, role), request[q].pc # "idle"
  PROVE  /\ member' \in [User -> Role \cup {None}]
         /\ request' \in [Request -> Fit]
<1>1. member' \in [User -> Role \cup {None}]
  BY DEF Change, TypeInv
<1>2. ASSUME NEW p \in Request PROVE request'[p] \in Fit
  <2>1. request[p] \in RequestType /\ Established(request[p])
    BY DEF TypeInv, Fit
  <2>2. CASE p = q
    <3> DEFINE r == [request[q] EXCEPT !.pc = "done", !.answer = "OK"]
    <3>1. request'[p] = r
      BY <2>2 DEF Change
    <3>2. r \in RequestType
      BY <2>1, <2>2 DEF RequestType, Label, Code
    <3>3. Established(r)
      BY <2>1, <2>2, <3>2 DEF Established, RequestType
    <3> QED BY <3>1, <3>2, <3>3 DEF Fit
  <2>3. CASE p # q
    <3> DEFINE stale == request[p].stale \/ request[p].pc \in {"count", "change"}
               r == [request[p] EXCEPT !.stale = stale]
    <3>1. request'[p] = r
      BY <2>3 DEF Change
    <3>2. stale \in BOOLEAN
      OBVIOUS
    <3> HIDE DEF stale
    <3>3. r \in RequestType
      BY <2>1, <3>2 DEF RequestType
    <3>4. r.pc = request[p].pc /\ r.ask = request[p].ask /\ r.answer = request[p].answer
      BY <2>1 DEF RequestType
    <3>5. Established(r)
      BY <2>1, <3>4 DEF Established
    <3> QED BY <3>1, <3>3, <3>5 DEF Fit
  <2> QED BY <2>2, <2>3
<1>3. request' = [p \in Request |-> request'[p]]
  BY DEF Change
<1> QED
  BY <1>1, <1>2, <1>3

\* What TypeInv says of one request that has arrived.
LEMMA AskType ==
  ASSUME TypeInv, NEW q \in Request, request[q].pc # "idle"
  PROVE  /\ request[q].ask \in Ask
         /\ Established(request[q])
         /\ request[q].answer \in Code \cup {None}
  BY AskAssumption DEF TypeInv, Fit, Established, RequestType

LEMMA InitType == Init => TypeInv
<1> SUFFICES ASSUME Init PROVE TypeInv
  OBVIOUS
<1>1. NoRequest \in Fit
  BY DEF NoRequest, Fit, RequestType, Established, Label
<1>2. NoInvitation \in InvitationType
  BY DEF NoInvitation, InvitationType, Role
<1>3. \A email \in User, role \in Role : Sent(email, role) \in InvitationType
  BY DEF Sent, InvitationType
<1> QED
  BY <1>1, <1>2, <1>3 DEF Init, TypeInv

LEMMA NextType == TypeInv /\ [Next]_vars => TypeInv'
<1> SUFFICES ASSUME TypeInv, [Next]_vars PROVE TypeInv'
  OBVIOUS
<1>0. CASE UNCHANGED vars
  BY <1>0 DEF vars, TypeInv
<1>a. ASSUME NEW i \in Invitation, Expire(i) PROVE TypeInv'
  <2>1. [invitation[i] EXCEPT !.expired = TRUE] \in InvitationType
    BY DEF TypeInv, InvitationType
  <2>2. invitation' = [invitation EXCEPT ![i] = [invitation[i] EXCEPT !.expired = TRUE]]
    BY <1>a DEF Expire, TypeInv
  <2> QED
    BY <1>a, <2>1, <2>2 DEF Expire, TypeInv
<1>b. ASSUME NEW q \in Request, Step(q) PROVE TypeInv'
  <2>1. CASE Arrive(q)
    <3>1. PICK ask \in Asks :
            request' = [request EXCEPT ![q].ask = ask,
              ![q].pc = IF ask.op = "accept" THEN "invitation" ELSE "org"]
      BY <2>1 DEF Arrive
    <3> DEFINE label == IF ask.op = "accept" THEN "invitation" ELSE "org"
               r == [[request[q] EXCEPT !.ask = ask] EXCEPT !.pc = label]
    <3>2. request[q] \in RequestType /\ Established(request[q]) /\ request[q].pc = "idle"
      BY <2>1 DEF TypeInv, Fit, Arrive
    <3>3. label \in Label
      BY DEF Label
    <3>4. request' = [request EXCEPT ![q] = r]
      BY <3>1 DEF TypeInv
    <3>5. /\ r \in RequestType
          /\ r.pc = label /\ r.ask = ask /\ r.answer = request[q].answer
      BY <3>2, <3>3 DEF RequestType
    <3>6. Established(r)
      BY <3>2, <3>5 DEF Established
    <3> QED
      BY <2>1, <3>4, <3>5, <3>6 DEF TypeInv, Fit, Arrive
  <2>2. CASE RequireOrg(q)
    <3>1. request[q].pc = "org" /\ request[q].ask \in Ask
      BY <2>2, AskType DEF RequireOrg
    <3>2. request' \in [Request -> Fit]
      <4>1. CASE Answer(q, "NOT_A_MEMBER")
        BY <3>1, <4>1, Answered DEF Code
      <4>2. CASE Answer(q, "FORBIDDEN")
        BY <3>1, <4>2, Answered DEF Code
      <4>3. CASE request[q].ask.op \in {"update", "remove"} /\ Goto(q, "membership")
        BY <3>1, <4>3, Moved DEF Label
      <4>4. CASE Goto(q, "statement")
        BY <3>1, <4>4, Moved DEF Label
      <4> QED
        BY <2>2, <4>1, <4>2, <4>3, <4>4 DEF RequireOrg
    <3> QED
      BY <2>2, <3>2 DEF RequireOrg, TypeInv
  <2>3. CASE CreateMember(q)
    <3>1. request[q].pc = "statement" /\ request[q].ask \in Ask
      BY <2>3, AskType DEF CreateMember
    <3>2. CASE Answer(q, "VALIDATION") /\ UNCHANGED <<account, member>>
      BY <2>3, <3>1, <3>2, Answered DEF CreateMember, TypeInv, Code
    <3>3. CASE Answer(q, "CONFLICT") /\ UNCHANGED <<account, member>>
      BY <2>3, <3>1, <3>3, Answered DEF CreateMember, TypeInv, Code
    <3>4. CASE /\ request[q].ask.role \in {"admin", "staff"}
               /\ account' = account \cup {request[q].ask.user}
               /\ Change(q, request[q].ask.user, request[q].ask.role)
      <4>1. request[q].ask.user \in User /\ request[q].ask.role \in Role \cup {None}
        BY <3>1, <3>4 DEF Ask, Role
      <4> QED
        BY <2>3, <3>1, <3>4, <4>1, Changed DEF CreateMember, TypeInv
    <3> QED
      BY <2>3, <3>2, <3>3, <3>4 DEF CreateMember
  <2>4. CASE GetMembership(q)
    <3>1. /\ request[q].pc = "membership" /\ request[q].ask \in Ask
          /\ request[q].ask.op \in {"update", "remove"}
      BY <2>4, AskType DEF GetMembership, Established
    <3>2. request' \in [Request -> Fit]
      <4>1. CASE Answer(q, "VALIDATION")
        BY <3>1, <4>1, Answered DEF Code
      <4>2. CASE Answer(q, "NOT_FOUND")
        BY <3>1, <4>2, Answered DEF Code
      <4>3. CASE /\ request[q].ask.op = "update" => ValidRole(request[q].ask.role)
                 /\ Goto(q, "count")
        BY <3>1, <4>3, Moved DEF Label, ValidRole
      <4>4. CASE /\ request[q].ask.op = "update" => ValidRole(request[q].ask.role)
                 /\ Goto(q, "change")
        BY <3>1, <4>4, Moved DEF Label, ValidRole
      <4> QED
        BY <2>4, <4>1, <4>2, <4>3, <4>4 DEF GetMembership
    <3> QED
      BY <2>4, <3>2 DEF GetMembership, TypeInv
  <2>5. CASE CountOwners(q)
    <3>1. request[q].pc = "count" /\ Established(request[q])
      BY <2>5, AskType DEF CountOwners
    <3>2. request' \in [Request -> Fit]
      <4>1. CASE Answer(q, "CONFLICT")
        BY <3>1, <4>1, Answered DEF Code
      <4>2. CASE Goto(q, "change")
        BY <3>1, <4>2, Moved DEF Label, Established
      <4> QED
        BY <2>5, <4>1, <4>2 DEF CountOwners
    <3> QED
      BY <2>5, <3>2 DEF CountOwners, TypeInv
  <2>6. CASE UpdateMemberRole(q)
    <3>1. /\ request[q].pc = "change" /\ request[q].ask \in Ask
          /\ request[q].ask.role \in Role
      BY <2>6, AskType DEF UpdateMemberRole, Established
    <3>2. CASE Change(q, request[q].ask.user, request[q].ask.role)
      <4>1. request[q].ask.user \in User
        BY <3>1 DEF Ask
      <4> QED
        BY <2>6, <3>1, <3>2, <4>1, Changed DEF UpdateMemberRole, TypeInv
    <3>3. CASE Answer(q, "INTERNAL") /\ UNCHANGED member
      BY <2>6, <3>1, <3>3, Answered DEF UpdateMemberRole, TypeInv, Code
    <3> QED
      BY <2>6, <3>2, <3>3 DEF UpdateMemberRole
  <2>7. CASE RemoveMember(q)
    <3>1. request[q].pc = "change" /\ request[q].ask \in Ask
      BY <2>7, AskType DEF RemoveMember
    <3>2. CASE Change(q, request[q].ask.user, None)
      <4>1. request[q].ask.user \in User
        BY <3>1 DEF Ask
      <4> QED
        BY <2>7, <3>1, <3>2, <4>1, Changed DEF RemoveMember, TypeInv
    <3>3. CASE Answer(q, "NOT_FOUND") /\ UNCHANGED member
      BY <2>7, <3>1, <3>3, Answered DEF RemoveMember, TypeInv, Code
    <3> QED
      BY <2>7, <3>2, <3>3 DEF RemoveMember
  <2>8. CASE CreateInvitation(q)
    <3>1. request[q].pc = "statement" /\ request[q].ask \in Ask
      BY <2>8, AskType DEF CreateInvitation
    <3>2. CASE Answer(q, "VALIDATION") /\ UNCHANGED invitation
      BY <2>8, <3>1, <3>2, Answered DEF CreateInvitation, TypeInv, Code
    <3>3. CASE Answer(q, "CONFLICT") /\ UNCHANGED invitation
      BY <2>8, <3>1, <3>3, Answered DEF CreateInvitation, TypeInv, Code
    <3>4. CASE /\ ValidRole(request[q].ask.role)
               /\ \E i \in Invitation :
                    invitation' = [invitation EXCEPT
                      ![i] = Sent(request[q].ask.user, request[q].ask.role)]
               /\ Answer(q, "OK")
      <4>1. Sent(request[q].ask.user, request[q].ask.role) \in InvitationType
        BY <3>1, <3>4 DEF Sent, InvitationType, Ask, ValidRole
      <4>2. invitation' \in [Invitation -> InvitationType]
        BY <3>4, <4>1 DEF TypeInv
      <4> QED
        BY <2>8, <3>1, <3>4, <4>2, Answered DEF CreateInvitation, TypeInv, Code
    <3> QED
      BY <2>8, <3>2, <3>3, <3>4 DEF CreateInvitation
  <2>9. CASE RevokeInvitation(q)
    <3> DEFINE i == request[q].ask.invitation
    <3>1. request[q].pc = "statement" /\ i \in Invitation
      BY <2>9, AskType DEF RevokeInvitation, Ask
    <3>2. CASE /\ invitation' = [invitation EXCEPT ![i].state = "deleted"]
               /\ Answer(q, "OK")
      <4>1. [invitation[i] EXCEPT !.state = "deleted"] \in InvitationType
        BY <3>1 DEF TypeInv, InvitationType
      <4>2. invitation' \in [Invitation -> InvitationType]
        BY <3>1, <3>2, <4>1 DEF TypeInv
      <4> QED
        BY <2>9, <3>1, <3>2, <4>2, Answered DEF RevokeInvitation, TypeInv, Code
    <3>3. CASE Answer(q, "NOT_FOUND") /\ UNCHANGED invitation
      BY <2>9, <3>1, <3>3, Answered DEF RevokeInvitation, TypeInv, Code
    <3> QED
      BY <2>9, <3>2, <3>3 DEF RevokeInvitation
  <2>10. CASE GetInvitationByTokenHash(q)
    <3>1. request[q].pc = "invitation" /\ Established(request[q])
      BY <2>10, AskType DEF GetInvitationByTokenHash
    <3>2. request' \in [Request -> Fit]
      <4>1. ASSUME NEW code \in {"INVALID_TOKEN", "CONFLICT", "TOKEN_EXPIRED", "FORBIDDEN"},
                   Answer(q, code)
            PROVE  request' \in [Request -> Fit]
        BY <3>1, <4>1, Answered DEF Code
      <4>2. CASE Goto(q, "accept")
        BY <3>1, <4>2, Moved DEF Label, Established
      <4> QED
        BY <2>10, <4>1, <4>2 DEF GetInvitationByTokenHash
    <3> QED
      BY <2>10, <3>2 DEF GetInvitationByTokenHash, TypeInv
  <2>11. CASE AcceptInvitation(q)
    <3> DEFINE i == request[q].ask.invitation
               u == request[q].ask.actor
    <3>1. request[q].pc = "accept" /\ i \in Invitation /\ u \in User
      BY <2>11, AskType DEF AcceptInvitation, Ask
    <3>2. CASE /\ invitation' = [invitation EXCEPT ![i].state = "accepted"]
               /\ Change(q, u, invitation[i].role)
      <4>1. [invitation[i] EXCEPT !.state = "accepted"] \in InvitationType
        BY <3>1 DEF TypeInv, InvitationType
      <4>2. invitation' \in [Invitation -> InvitationType]
        BY <3>1, <3>2, <4>1 DEF TypeInv
      <4>3. invitation[i].role \in Role \cup {None}
        BY <3>1 DEF TypeInv, InvitationType
      <4> HIDE DEF i, u
      <4>4. /\ member' \in [User -> Role \cup {None}]
            /\ request' \in [Request -> Fit]
        BY <3>1, <3>2, <4>3, Changed
      <4> QED
        BY <2>11, <4>2, <4>4 DEF AcceptInvitation, TypeInv
    <3>3. CASE Answer(q, "CONFLICT") /\ UNCHANGED <<member, invitation>>
      BY <2>11, <3>1, <3>3, Answered DEF AcceptInvitation, TypeInv, Code
    <3> QED
      BY <2>11, <3>2, <3>3 DEF AcceptInvitation
  <2> QED
    BY <1>b, <2>1, <2>2, <2>3, <2>4, <2>5, <2>6, <2>7, <2>8, <2>9, <2>10, <2>11 DEF Step
<1> QED
  BY <1>0, <1>a, <1>b DEF Next

\* Every variable holds a value of its kind (UpdateMemberRole, AddMember): in
\* particular no interleaving of requests gives anybody an unknown role.
THEOREM MembersTyped == Spec => []TypeOK
<1>1. TypeInv => TypeOK
  BY DEF TypeInv, TypeOK, Fit, RequestType, InvitationType
<1> QED
  BY <1>1, InitType, NextType, PTL DEF Spec

-----------------------------------------------------------------------------
(* What one step of a request does to the others, to the invitations and   *)
(* to the members.                                                         *)

Undisturbed(q) ==
  \A p \in Request \ {q} : /\ request'[p].pc = request[p].pc
                           /\ request'[p].ask = request[p].ask
                           /\ request'[p].answer = request[p].answer

\* q's acceptance takes effect.
Joins(q) ==
  LET i == request[q].ask.invitation IN
  /\ request[q].pc = "accept" /\ request[q].ask.op = "accept"
  /\ StillOpen(i)
  /\ invitation' = [invitation EXCEPT ![i].state = "accepted"]
  /\ request'[q].answer = "OK" /\ request'[q].ask = request[q].ask

\* The step is no acceptance, and no invitation becomes or stops being accepted.
NobodyJoins(q) ==
  /\ ~(request'[q].answer = "OK" /\ request'[q].ask.op = "accept")
  /\ \A i \in Invitation :
       invitation'[i].state = "accepted" <=> invitation[i].state = "accepted"

LEMMA AnswerEffect ==
  ASSUME TypeInv, NEW q \in Request, NEW code, Answer(q, code)
  PROVE  /\ \A p \in Request \ {q} : request'[p] = request[p]
         /\ request'[q].pc = "done" /\ request'[q].answer = code
         /\ request'[q].ask = request[q].ask
  BY DEF Answer, TypeInv, Fit, RequestType

LEMMA GotoEffect ==
  ASSUME TypeInv, NEW q \in Request, NEW label, Goto(q, label)
  PROVE  /\ \A p \in Request \ {q} : request'[p] = request[p]
         /\ request'[q].pc = label /\ request'[q].answer = request[q].answer
         /\ request'[q].ask = request[q].ask /\ request'[q].stale = request[q].stale
  BY DEF Goto, TypeInv, Fit, RequestType

LEMMA ChangeEffect ==
  ASSUME TypeInv, NEW q \in Request, NEW u \in User, NEW role, Change(q, u, role)
  PROVE  /\ Undisturbed(q)
         /\ \A p \in Request \ {q} : request'[p].pc \in {"count", "change"}
                                       => request'[p].stale = TRUE
         /\ request'[q].pc = "done" /\ request'[q].answer = "OK"
         /\ request'[q].ask = request[q].ask
         /\ member'[u] = role
         /\ \A v \in User \ {u} : member'[v] = member[v]
<1>1. ASSUME NEW p \in Request \ {q}
      PROVE  /\ request'[p].pc = request[p].pc
             /\ request'[p].ask = request[p].ask
             /\ request'[p].answer = request[p].answer
             /\ request'[p].pc \in {"count", "change"} => request'[p].stale = TRUE
  <2> DEFINE stale == request[p].stale \/ request[p].pc \in {"count", "change"}
  <2>1. request'[p] = [request[p] EXCEPT !.stale = stale]
    BY DEF Change
  <2>2. request[p] \in RequestType
    BY DEF TypeInv, Fit
  <2>3. request[p].pc \in {"count", "change"} => stale = TRUE
    OBVIOUS
  <2> HIDE DEF stale
  <2> QED
    BY <2>1, <2>2, <2>3 DEF RequestType
<1>2. /\ request'[q].pc = "done" /\ request'[q].answer = "OK"
      /\ request'[q].ask = request[q].ask
  BY DEF Change, TypeInv, Fit, RequestType
<1>3. /\ member'[u] = role
      /\ \A v \in User \ {u} : member'[v] = member[v]
  BY DEF Change, TypeInv
<1> QED
  BY <1>1, <1>2, <1>3 DEF Undisturbed

\* A step answers at most its own request, which was not answered before.
LEMMA OneStep ==
  ASSUME TypeInv, NEW q \in Request, Step(q)
  PROVE  /\ Undisturbed(q)
         /\ request[q].pc # "done"
         /\ Joins(q) \/ NobodyJoins(q)
<1>0. None # "OK"
  BY AskAssumption
<1>1. CASE Arrive(q)
  <2>1. request[q].pc = "idle" /\ request[q].answer = None
    BY <1>1 DEF Arrive, TypeInv, Fit, Established
  <2>2. PICK ask \in Asks :
          request' = [request EXCEPT ![q].ask = ask,
            ![q].pc = IF ask.op = "accept" THEN "invitation" ELSE "org"]
    BY <1>1 DEF Arrive
  <2>3. /\ \A p \in Request \ {q} : request'[p] = request[p]
        /\ request'[q].answer = request[q].answer
    BY <2>2 DEF TypeInv, Fit, RequestType
  <2> QED
    BY <1>0, <1>1, <2>1, <2>3 DEF Arrive, Undisturbed, NobodyJoins
<1>2. ASSUME NEW code \in Code \ {"OK"}, Answer(q, code), request[q].pc # "done",
             UNCHANGED invitation
      PROVE  Undisturbed(q) /\ NobodyJoins(q)
  BY <1>2, AnswerEffect DEF Undisturbed, NobodyJoins
<1>3. ASSUME NEW label \in Label, Goto(q, label), request[q].pc \notin {"idle", "done"},
             UNCHANGED invitation
      PROVE  Undisturbed(q) /\ NobodyJoins(q)
  <2>1. request[q].answer = None
    BY <1>3, AskType DEF Established
  <2> QED
    BY <1>0, <1>3, <2>1, GotoEffect DEF Undisturbed, NobodyJoins
<1>4. ASSUME NEW u \in User, NEW role, Change(q, u, role),
             request[q].ask.op # "accept", UNCHANGED invitation
      PROVE  Undisturbed(q) /\ NobodyJoins(q)
  BY <1>4, ChangeEffect DEF NobodyJoins
<1>5. CASE RequireOrg(q)
  BY <1>2, <1>3, <1>5 DEF RequireOrg, Code, Label
<1>6. CASE CreateMember(q)
  <2>1. request[q].pc = "statement" /\ request[q].ask.user \in User
    BY <1>6, AskType DEF CreateMember, Ask
  <2> QED
    BY <1>2, <1>4, <1>6, <2>1 DEF CreateMember, Code
<1>7. CASE GetMembership(q)
  BY <1>2, <1>3, <1>7 DEF GetMembership, Code, Label
<1>8. CASE CountOwners(q)
  BY <1>2, <1>3, <1>8 DEF CountOwners, Code, Label
<1>9. CASE UpdateMemberRole(q)
  <2>1. request[q].pc = "change" /\ request[q].ask.user \in User
    BY <1>9, AskType DEF UpdateMemberRole, Ask
  <2> QED
    BY <1>2, <1>4, <1>9, <2>1 DEF UpdateMemberRole, Code
<1>10. CASE RemoveMember(q)
  <2>1. request[q].pc = "change" /\ request[q].ask.user \in User
    BY <1>10, AskType DEF RemoveMember, Ask
  <2> QED
    BY <1>2, <1>4, <1>10, <2>1 DEF RemoveMember, Code
<1>11. CASE CreateInvitation(q)
  <2>1. CASE UNCHANGED invitation /\ \E code \in Code \ {"OK"} : Answer(q, code)
    BY <1>2, <1>11, <2>1 DEF CreateInvitation
  <2>2. CASE /\ \E i \in Invitation :
                  /\ invitation[i].state = "unused"
                  /\ invitation' = [invitation EXCEPT
                       ![i] = Sent(request[q].ask.user, request[q].ask.role)]
             /\ Answer(q, "OK")
    <3>1. \A i \in Invitation :
            invitation'[i].state = "accepted" <=> invitation[i].state = "accepted"
      BY <2>2 DEF Sent, TypeInv
    <3> QED
      BY <1>11, <2>2, <3>1, AnswerEffect DEF CreateInvitation, Undisturbed, NobodyJoins
  <2> QED
    BY <1>11, <2>1, <2>2 DEF CreateInvitation, Code
<1>12. CASE RevokeInvitation(q)
  <2> DEFINE i == request[q].ask.invitation
  <2>1. CASE Answer(q, "NOT_FOUND") /\ UNCHANGED invitation
    BY <1>2, <1>12, <2>1 DEF RevokeInvitation, Code
  <2>2. CASE /\ Pending(i)
             /\ invitation' = [invitation EXCEPT ![i].state = "deleted"]
             /\ Answer(q, "OK")
    <3>1. i \in Invitation
      BY <1>12, AskType DEF RevokeInvitation, Ask
    <3> HIDE DEF i
    <3>2. \A j \in Invitation :
            invitation'[j].state = "accepted" <=> invitation[j].state = "accepted"
      BY <2>2, <3>1 DEF TypeInv, InvitationType, Pending
    <3> QED
      BY <1>12, <2>2, <3>2, AnswerEffect DEF RevokeInvitation, Undisturbed, NobodyJoins
  <2> QED
    BY <1>12, <2>1, <2>2 DEF RevokeInvitation
<1>13. CASE GetInvitationByTokenHash(q)
  <2>1. \/ Goto(q, "accept")
        \/ \E code \in Code \ {"OK"} : Answer(q, code)
    BY <1>13 DEF GetInvitationByTokenHash, Code
  <2> QED
    BY <1>2, <1>3, <1>13, <2>1 DEF GetInvitationByTokenHash, Label
<1>14. CASE AcceptInvitation(q)
  <2> DEFINE i == request[q].ask.invitation
             u == request[q].ask.actor
  <2>1. CASE Answer(q, "CONFLICT") /\ UNCHANGED invitation
    BY <1>2, <1>14, <2>1 DEF AcceptInvitation, Code
  <2>2. CASE /\ StillOpen(i)
             /\ invitation' = [invitation EXCEPT ![i].state = "accepted"]
             /\ Change(q, u, invitation[i].role)
    <3>1. request[q].pc = "accept" /\ u \in User /\ request[q].ask.op = "accept"
      BY <1>14, AskType DEF AcceptInvitation, Ask, Established
    <3> HIDE DEF u
    <3>2. Undisturbed(q) /\ request'[q].answer = "OK" /\ request'[q].ask = request[q].ask
      BY <2>2, <3>1, ChangeEffect
    <3> QED
      BY <2>2, <3>1, <3>2 DEF Joins
  <2> QED
    BY <1>14, <2>1, <2>2 DEF AcceptInvitation
<1> QED
  BY <1>1, <1>5, <1>6, <1>7, <1>8, <1>9, <1>10, <1>11, <1>12, <1>13, <1>14 DEF Step,
     Arrive, RequireOrg, CreateMember, GetMembership, CountOwners, UpdateMemberRole,
     RemoveMember, CreateInvitation, RevokeInvitation, GetInvitationByTokenHash,
     AcceptInvitation

-----------------------------------------------------------------------------
(* Invitations.                                                            *)

JoinInv == TypeInv /\ InvitationJoinsOne

LEMMA JoinInit == Init => InvitationJoinsOne
<1> SUFFICES ASSUME Init, NEW i \in Invitation
             PROVE  Joined(i) = {} /\ invitation[i].state # "accepted"
  BY DEF InvitationJoinsOne
<1>1. Joined(i) = {}
  BY AskAssumption DEF Init, Joined, NoRequest
<1>2. invitation[i] = NoInvitation \/ invitation[i].state = "pending"
  BY DEF Init, Sent
<1> QED
  BY <1>1, <1>2 DEF NoInvitation

\* Who has joined is only ever extended, by the request that takes a step.
LEMMA JoinedBy ==
  ASSUME TypeInv, NEW q \in Request, Undisturbed(q), request[q].pc # "done",
         NEW i \in Invitation
  PROVE  /\ q \notin Joined(i)
         /\ \A p \in Request \ {q} : p \in Joined(i)' <=> p \in Joined(i)
<1>1. request[q].answer = None
  BY DEF TypeInv, Fit, Established
<1> QED
  BY <1>1, AskAssumption DEF Joined, Undisturbed

LEMMA JoinStep == JoinInv /\ [Next]_vars => InvitationJoinsOne'
<1> SUFFICES ASSUME JoinInv, [Next]_vars, NEW i \in Invitation
             PROVE  /\ \A p, r \in Joined(i)' : p = r
                    /\ Joined(i)' # {} <=> invitation'[i].state = "accepted"
  BY DEF InvitationJoinsOne, Joined
<1>1. TypeInv /\ TypeInv'
  BY NextType DEF JoinInv
<1>2. /\ \A p, r \in Joined(i) : p = r
      /\ Joined(i) # {} <=> invitation[i].state = "accepted"
  BY DEF JoinInv, InvitationJoinsOne
<1>3. Joined(i) \subseteq Request /\ Joined(i)' \subseteq Request
  BY DEF Joined
<1>4. CASE UNCHANGED vars
  BY <1>2, <1>4 DEF vars, Joined
<1>5. ASSUME NEW j \in Invitation, Expire(j)
      PROVE  Joined(i)' = Joined(i) /\ invitation'[i].state = invitation[i].state
  BY <1>1, <1>5 DEF Expire, Joined, TypeInv, InvitationType
<1>6. ASSUME NEW q \in Request, Step(q)
      PROVE  /\ \A p, r \in Joined(i)' : p = r
             /\ Joined(i)' # {} <=> invitation'[i].state = "accepted"
  <2>1. Undisturbed(q) /\ request[q].pc # "done" /\ (Joins(q) \/ NobodyJoins(q))
    BY <1>1, <1>6, OneStep
  <2>2. /\ q \notin Joined(i)
        /\ \A p \in Request \ {q} : p \in Joined(i)' <=> p \in Joined(i)
    BY <1>1, <2>1, JoinedBy
  <2>3. CASE NobodyJoins(q)
    <3>1. q \notin Joined(i)'
      BY <2>3 DEF NobodyJoins, Joined
    <3>2. Joined(i)' = Joined(i)
      BY <1>3, <2>2, <3>1
    <3> QED
      BY <1>2, <2>3, <3>2 DEF NobodyJoins
  <2>4. CASE Joins(q) /\ request[q].ask.invitation = i
    <3>1. invitation[i].state = "pending" /\ invitation'[i].state = "accepted"
      BY <1>1, <2>4 DEF Joins, StillOpen, Pending, TypeInv, InvitationType
    <3>2. Joined(i) = {}
      BY <1>2, <3>1
    <3>3. q \in Joined(i)'
      BY <2>4 DEF Joins, Joined
    <3>4. Joined(i)' = {q}
      BY <1>3, <2>2, <3>2, <3>3
    <3> QED
      BY <3>1, <3>4
  <2>5. CASE Joins(q) /\ request[q].ask.invitation # i
    <3>1. invitation'[i].state = invitation[i].state
      BY <1>1, <2>5 DEF Joins, TypeInv
    <3>2. q \notin Joined(i)'
      BY <2>5 DEF Joins, Joined
    <3>3. Joined(i)' = Joined(i)
      BY <1>3, <2>2, <3>2
    <3> QED
      BY <1>2, <3>1, <3>3
  <2> QED
    BY <2>1, <2>3, <2>4, <2>5
<1> QED
  BY <1>2, <1>4, <1>5, <1>6 DEF Next

\* Of any number of requests that present one invitation's token while it is
\* revoked or expires (AcceptInvitation), exactly one becomes a member if the
\* invitation is accepted, and none otherwise.
THEOREM OneJoinsPerInvitation == Spec => []InvitationJoinsOne
<1>1. Init => JoinInv
  BY InitType, JoinInit DEF JoinInv
<1>2. JoinInv /\ [Next]_vars => JoinInv'
  BY NextType, JoinStep DEF JoinInv
<1>3. JoinInv => InvitationJoinsOne
  BY DEF JoinInv
<1> QED
  BY <1>1, <1>2, <1>3, PTL DEF Spec

-----------------------------------------------------------------------------
(* Members.                                                                *)

\* A step changes at most one membership: that of a new account, one that
\* exists, or, when an invitation is accepted, the caller's own.
MemberStep(q) ==
  \/ UNCHANGED member
  \/ /\ request[q].pc \in {"statement", "change", "accept"}
     /\ \E u \in User, role \in Role \cup {None} :
          /\ Change(q, u, role)
          /\ \/ request[q].pc = "statement" /\ u \notin account /\ u \in account'
             \/ /\ request[q].pc = "change" /\ u = request[q].ask.user
                /\ member[u] # None
                /\ \/ request[q].ask.op = "remove"
                   \/ request[q].ask.op = "update" /\ role = request[q].ask.role
             \/ request[q].pc = "accept" /\ u = request[q].ask.actor

LEMMA MemberStepTaken ==
  ASSUME TypeInv, NEW q \in Request, Step(q)
  PROVE  MemberStep(q)
<1>1. CASE CreateMember(q)
  <2>1. request[q].pc = "statement" /\ request[q].ask.user \in User
    BY <1>1, AskType DEF CreateMember, Ask
  <2> QED
    BY <1>1, <2>1 DEF CreateMember, MemberStep, Registered, Role
<1>2. CASE UpdateMemberRole(q)
  <2>1. /\ request[q].pc = "change" /\ request[q].ask.user \in User
        /\ request[q].ask.op = "update" /\ request[q].ask.role \in Role
    BY <1>2, AskType DEF UpdateMemberRole, Ask, Established
  <2> QED
    BY <1>2, <2>1 DEF UpdateMemberRole, MemberStep
<1>3. CASE RemoveMember(q)
  <2>1. /\ request[q].pc = "change" /\ request[q].ask.user \in User
        /\ request[q].ask.op = "remove"
    BY <1>3, AskType DEF RemoveMember, Ask
  <2> QED
    BY <1>3, <2>1 DEF RemoveMember, MemberStep
<1>4. CASE AcceptInvitation(q)
  <2> DEFINE i == request[q].ask.invitation
             u == request[q].ask.actor
             role == invitation[i].role
  <2>1. request[q].pc = "accept" /\ u \in User /\ i \in Invitation
    BY <1>4, AskType DEF AcceptInvitation, Ask
  <2>2. role \in Role \cup {None}
    BY <2>1 DEF TypeInv, InvitationType
  <2>3. UNCHANGED member \/ Change(q, u, role)
    BY <1>4 DEF AcceptInvitation
  <2> HIDE DEF role, i
  <2> QED
    BY <2>1, <2>2, <2>3 DEF MemberStep
<1>5. CASE \/ Arrive(q) \/ RequireOrg(q) \/ GetMembership(q) \/ CountOwners(q)
           \/ CreateInvitation(q) \/ RevokeInvitation(q) \/ GetInvitationByTokenHash(q)
  BY <1>5 DEF Arrive, RequireOrg, GetMembership, CountOwners, CreateInvitation,
     RevokeInvitation, GetInvitationByTokenHash, MemberStep
<1> QED
  BY <1>1, <1>2, <1>3, <1>4, <1>5 DEF Step

\* A request that changes a membership is over, and so has itself changed.
LEMMA ChangeAnswers ==
  ASSUME TypeInv, NEW q \in Request, NEW u \in User, NEW role, Change(q, u, role),
         request[q].pc # "done"
  PROVE  request'[q] # request[q]
  BY ChangeEffect

\* An owner's requests never make a member of somebody who has an account
\* (CreateMember, UpdateMemberRole): joining takes an accepted invitation.
THEOREM JoiningIsOnesOwn == Spec => JoiningIsOwnDecision
<1>1. ASSUME TypeInv, [Next]_vars, NEW w \in account,
             member[w] = None, member'[w] # None
      PROVE  \E q \in Request : /\ request'[q] # request[q]
                                /\ request[q].pc = "accept"
                                /\ request[q].ask.actor = w
  <2>1. w \in User
    BY <1>1 DEF TypeInv
  <2>2. PICK q \in Request : Step(q)
    BY <1>1 DEF Next, vars, Expire
  <2>3. PICK u \in User, role \in Role \cup {None} :
          /\ request[q].pc \in {"statement", "change", "accept"}
          /\ Change(q, u, role)
          /\ \/ request[q].pc = "statement" /\ u \notin account
             \/ request[q].pc = "change" /\ member[u] # None
             \/ request[q].pc = "accept" /\ u = request[q].ask.actor
    BY <1>1, <2>2, MemberStepTaken DEF MemberStep
  <2>4. u = w
    BY ZenonT(60), <1>1, <2>1, <2>3, ChangeEffect
  <2>5. request'[q] # request[q]
    BY <1>1, <2>3, ChangeAnswers
  <2> QED
    BY <1>1, <2>3, <2>4, <2>5
<1>2. TypeInv /\ [Next]_vars =>
        [\A u \in account :
           member[u] = None /\ member'[u] # None =>
             \E q \in Request : /\ request'[q] # request[q]
                                /\ request[q].pc = "accept"
                                /\ request[q].ask.actor = u]_vars
  BY <1>1
<1> QED
  BY <1>2, InitType, NextType, PTL DEF Spec, JoiningIsOwnDecision

-----------------------------------------------------------------------------
(* The last owner.                                                         *)

\* Members and callers can sign in.
Known ==
  /\ \A u \in User : member[u] # None => u \in account
  /\ \A q \in Request : request[q].pc # "idle" => request[q].ask.actor \in account

\* q is about to take the ownership of its target away.
Demotes(q) ==
  LET ask == request[q].ask IN
  /\ request[q].pc = "change"
  /\ member[ask.user] = "owner"
  /\ ask.op = "remove" \/ ask.role # "owner"

\* Whoever is about to demote an owner has counted another one, and nothing
\* has changed since unless its view is stale.
Spare ==
  \A q \in Request : Demotes(q) /\ ~request[q].stale =>
    \E u \in User : u # request[q].ask.user /\ member[u] = "owner"

OwnerInv == TypeInv /\ Spare

\* What CountOwners counts: two owners, if it lets the request go on.
LEMMA TwoOwners ==
  ASSUME ~LastOwner, NEW u
  PROVE  \E v \in User : v # u /\ member[v] = "owner"
<1> SUFFICES ASSUME \A v \in User : member[v] = "owner" => v = u
             PROVE  FALSE
  OBVIOUS
<1>1. Owners \subseteq {u}
  BY DEF Owners
<1>2. IsFiniteSet({u}) /\ Cardinality({u}) = 1
  BY FS_Singleton
<1>3. Cardinality(Owners) <= 1
  BY <1>1, <1>2, FS_Subset
<1> QED
  BY <1>3 DEF LastOwner

LEMMA SpareInit == Init => Spare
  BY DEF Init, Spare, Demotes, NoRequest

\* The ways a step can end, for the request that takes it.
LEMMA StepShape ==
  ASSUME TypeInv, NEW q \in Request, Step(q)
  PROVE  \/ Arrive(q)
         \/ \E code : Answer(q, code)
         \/ \E label \in Label \ {"change"} : Goto(q, label)
         \/ CountOwners(q) /\ ~LastOwner /\ Goto(q, "change")
         \/ GetMembership(q) /\ Goto(q, "change")
         \/ \E u \in User : \E role : Change(q, u, role)
<1>1. CASE RequireOrg(q) \/ GetMembership(q) \/ CountOwners(q)
  BY <1>1 DEF RequireOrg, GetMembership, CountOwners, Label
<1>2. CASE CreateInvitation(q) \/ RevokeInvitation(q)
  BY <1>2 DEF CreateInvitation, RevokeInvitation
<1>3. CASE GetInvitationByTokenHash(q)
  BY <1>3 DEF GetInvitationByTokenHash, Label
<1>4. CASE CreateMember(q)
  <2>1. request[q].ask.user \in User
    BY <1>4, AskType DEF CreateMember, Ask
  <2> QED
    BY <1>4, <2>1 DEF CreateMember
<1>5. CASE UpdateMemberRole(q) \/ RemoveMember(q)
  <2>1. request[q].ask.user \in User
    BY <1>5, AskType DEF UpdateMemberRole, RemoveMember, Ask
  <2> QED
    BY <1>5, <2>1 DEF UpdateMemberRole, RemoveMember
<1>6. CASE AcceptInvitation(q)
  <2>1. request[q].ask.actor \in User
    BY <1>6, AskType DEF AcceptInvitation, Ask
  <2> QED
    BY <1>6, <2>1 DEF AcceptInvitation
<1> QED
  BY <1>1, <1>2, <1>3, <1>4, <1>5, <1>6 DEF Step

LEMMA SpareStep == OwnerInv /\ [Next]_vars => Spare'
<1> SUFFICES ASSUME OwnerInv, [Next]_vars, NEW p \in Request,
                    Demotes(p)', ~request'[p].stale
             PROVE  \E u \in User : u # request'[p].ask.user /\ member'[u] = "owner"
  BY DEF Spare
<1>1. TypeInv /\ Spare
  BY DEF OwnerInv
<1>2. ASSUME UNCHANGED member, request'[p] = request[p]
      PROVE  \E u \in User : u # request'[p].ask.user /\ member'[u] = "owner"
  BY <1>1, <1>2 DEF Spare, Demotes
<1>3. CASE UNCHANGED vars
  BY <1>2, <1>3 DEF vars
<1>4. CASE \E i \in Invitation : Expire(i)
  BY <1>2, <1>4 DEF Expire
<1>5. ASSUME NEW q \in Request, Step(q)
      PROVE  \E u \in User : u # request'[p].ask.user /\ member'[u] = "owner"
  <2>1. ASSUME NEW u \in User, NEW role, Change(q, u, role)
        PROVE  FALSE
    BY <1>1, <2>1, ChangeEffect DEF Demotes
  <2>2. UNCHANGED member
    BY <1>1, <1>5, <2>1, MemberStepTaken DEF MemberStep
  <2>3. CASE Arrive(q)
    <3>1. /\ \A r \in Request \ {q} : request'[r] = request[r]
          /\ request'[q].pc \in {"invitation", "org"}
      BY <1>1, <2>3 DEF Arrive, TypeInv, Fit, RequestType
    <3> QED
      BY <1>2, <2>2, <3>1 DEF Demotes
  <2>4. ASSUME NEW code, Answer(q, code)
        PROVE  \E u \in User : u # request'[p].ask.user /\ member'[u] = "owner"
    BY <1>1, <1>2, <2>2, <2>4, AnswerEffect DEF Demotes
  <2>5. ASSUME NEW label \in Label \ {"change"}, Goto(q, label)
        PROVE  \E u \in User : u # request'[p].ask.user /\ member'[u] = "owner"
    BY <1>1, <1>2, <2>2, <2>5, GotoEffect DEF Demotes
  <2>6. CASE CountOwners(q) /\ ~LastOwner /\ Goto(q, "change")
    BY <1>1, <1>2, <2>2, <2>6, TwoOwners, GotoEffect
  <2>7. CASE GetMembership(q) /\ Goto(q, "change")
    <3>1. /\ \A r \in Request \ {q} : request'[r] = request[r]
          /\ request'[q].pc = "change" /\ request'[q].ask = request[q].ask
      BY <1>1, <2>7, GotoEffect
    <3>2. ~Goto(q, "count") /\ \A code : ~Answer(q, code)
      BY <1>1, <3>1, GotoEffect, AnswerEffect
    <3>3. ~ /\ member[request[q].ask.user] = "owner"
            /\ request[q].ask.op = "remove" \/ request[q].ask.role # "owner"
      BY <2>7, <3>2 DEF GetMembership
    <3> QED
      BY <1>2, <2>2, <3>1, <3>3 DEF Demotes
  <2> QED
    BY <1>1, <1>5, <2>1, <2>3, <2>4, <2>5, <2>6, <2>7, StepShape
<1> QED
  BY <1>3, <1>4, <1>5 DEF Next

LEMMA KnownInit == Init => Known
  BY DEF Init, Known, NoRequest

LEMMA KnownStep == TypeInv /\ Known /\ [Next]_vars => Known'
<1> SUFFICES ASSUME TypeInv, Known, [Next]_vars PROVE Known'
  OBVIOUS
<1>1. CASE UNCHANGED vars
  BY <1>1 DEF vars, Known
<1>2. CASE \E i \in Invitation : Expire(i)
  BY <1>2 DEF Expire, Known
<1>3. ASSUME NEW q \in Request, Step(q) PROVE Known'
  <2>1. account \subseteq account'
    BY <1>3 DEF Step, Arrive, RequireOrg, CreateMember, GetMembership, CountOwners,
       UpdateMemberRole, RemoveMember, CreateInvitation, RevokeInvitation,
       GetInvitationByTokenHash, AcceptInvitation
  <2>2. ASSUME NEW p \in Request, request'[p].pc # "idle"
        PROVE  request'[p].ask.actor \in account'
    <3>1. CASE Arrive(q)
      BY <2>1, <2>2, <3>1 DEF Arrive, Known, TypeInv, Fit, RequestType
    <3>2. CASE ~Arrive(q)
      <4>1. request[q].pc # "idle"
        BY <1>3, <3>2 DEF Step, RequireOrg, CreateMember, GetMembership, CountOwners,
           UpdateMemberRole, RemoveMember, CreateInvitation, RevokeInvitation,
           GetInvitationByTokenHash, AcceptInvitation
      <4>2. Undisturbed(q) /\ request'[q].ask = request[q].ask
        BY <1>3, <3>2, StepShape, OneStep, AnswerEffect, GotoEffect, ChangeEffect
      <4> QED
        BY <2>1, <2>2, <4>1, <4>2 DEF Undisturbed, Known
    <3> QED
      BY <3>1, <3>2
  <2>3. ASSUME NEW v \in User, member'[v] # None
        PROVE  v \in account'
    <3>1. CASE member'[v] = member[v]
      BY <2>1, <2>3, <3>1 DEF Known
    <3>2. CASE member'[v] # member[v]
      <4>1. PICK u \in User, role \in Role \cup {None} :
              /\ request[q].pc \in {"statement", "change", "accept"}
              /\ Change(q, u, role)
              /\ \/ u \in account'
                 \/ member[u] # None
                 \/ u = request[q].ask.actor
        BY <1>3, <3>2, MemberStepTaken DEF MemberStep
      <4>2. Change(q, u, role)
        BY <4>1
      <4>3. \A w \in User \ {u} : member'[w] = member[w]
        BY <4>2, ChangeEffect
      <4>4. u = v
        BY <3>2, <4>3
      <4> QED
        BY <2>1, <4>1, <4>4 DEF Known
    <3> QED
      BY <3>1, <3>2
  <2> QED
    BY <2>2, <2>3 DEF Known
<1> QED
  BY <1>1, <1>2, <1>3 DEF Next

\* "A provider must keep at least one owner" (UpdateMemberRole, RemoveMember),
\* as far as the count guarantees it: the last owner goes only by a request
\* that another one overtook, or by accepting an invitation to a lower role.
THEOREM LastOwnerStays == Spec => OwnerKeptUnlessRaced
<1> DEFINE Excused(q) == /\ request'[q] # request[q]
                         /\ \/ request[q].pc = "change" /\ request[q].stale
                            \/ request[q].pc = "accept"
<1>1. Init => OwnerInv /\ Known
  BY InitType, SpareInit, KnownInit DEF OwnerInv
<1>2. OwnerInv /\ Known /\ [Next]_vars => (OwnerInv /\ Known)'
  BY NextType, SpareStep, KnownStep DEF OwnerInv
<1>3. ASSUME OwnerInv, Known, [Next]_vars, HasOwner, ~HasOwner'
      PROVE  \E q \in Request : Excused(q)
  <2>1. TypeInv /\ Spare
    BY <1>3 DEF OwnerInv
  <2>2. PICK v \in User : member[v] = "owner"
    BY <1>3 DEF HasOwner, Owners
  <2>3. \A w \in User : member'[w] # "owner"
    BY <1>3 DEF HasOwner, Owners
  <2>4. PICK q \in Request : Step(q)
    BY <1>3, <2>2, <2>3 DEF Next, vars, Expire
  <2>5. PICK u \in User, role \in Role \cup {None} :
          /\ request[q].pc \in {"statement", "change", "accept"}
          /\ Change(q, u, role)
          /\ \/ request[q].pc = "statement" /\ u \notin account
             \/ /\ request[q].pc = "change" /\ u = request[q].ask.user
                /\ \/ request[q].ask.op = "remove"
                   \/ request[q].ask.op = "update" /\ role = request[q].ask.role
             \/ request[q].pc = "accept"
    BY <2>1, <2>2, <2>3, <2>4, MemberStepTaken DEF MemberStep
  <2>6. member'[u] = role /\ \A w \in User \ {u} : member'[w] = member[w]
    <3>1. TypeInv /\ Change(q, u, role)
      BY <2>1, <2>5
    <3> QED
      BY ZenonT(60), <3>1, ChangeEffect
  <2>7. /\ \A w \in User : member[w] = "owner" => w = u
        /\ member[u] = "owner" /\ role # "owner"
    BY <2>2, <2>3, <2>6
  <2>8. request[q].pc # "statement"
    BY <1>3, <2>5, <2>7, AskAssumption DEF Known, Role
  <2>9. request[q].pc = "change" => request[q].stale
    BY <2>1, <2>5, <2>7 DEF Spare, Demotes
  <2>10. request'[q] # request[q]
    BY <2>1, <2>5, ChangeAnswers
  <2> QED
    BY <2>5, <2>8, <2>9, <2>10
<1>4. OwnerInv /\ Known /\ [Next]_vars =>
        [HasOwner /\ ~HasOwner' => \E q \in Request : Excused(q)]_vars
  BY <1>3
<1> QED
  BY <1>1, <1>2, <1>4, PTL DEF Spec, OwnerKeptUnlessRaced

-----------------------------------------------------------------------------
(* Creations, in a state of their own: the names after Creation! are those  *)
(* of Providers.                                                           *)

Rows == [ slug : Creation!Slug, owner : User \cup {None}, categories : SUBSET Category ]

Stage == {"idle", "resolve", "insert", "member", "categories", "done"}

Requests ==
  [ pc : Stage, ask : Creations \cup {None}, attempt : Nat \ {0},
     slug : Creation!Slug \cup {None},
    row : Rows \cup {None}, left : Seq(Category),
    answer : Creation!Reply \cup {None} ]

\* A request has an ask once it has arrived and a slug from its INSERT on, its
\* transaction has a row exactly while it is open, and it is answered last.
Sound(q) ==
  LET x == creation[q] IN
  /\ x.pc # "idle" => x.ask \in Creations
  /\ x.pc = "insert" => x.slug \in Creation!Slug
  /\ x.row # None <=> x.pc \in {"member", "categories"}
  /\ x.answer # None => x.pc = "done"
  /\ provider[q] # None => x.pc = "done"

CreationInv ==
  /\ Creation!ProvidersAssumption
  /\ provider \in [Creator -> Rows \cup {None}]
  /\ category \subseteq Category
  /\ creation \in [Creator -> Requests]
  /\ raced \in [Creator -> SUBSET Creation!Slug]
  /\ \A q \in Creator : Sound(q)

LEMMA InitTypeInv == Creation!ProvidersAssumption /\ Creation!Init => CreationInv
BY DEF Creation!Init, CreationInv, Sound, Creation!NoRequest, Requests, Stage

\* What an ask holds.
LEMMA CreationAskType ==
  ASSUME CreationInv, NEW q \in Creator, creation[q].pc # "idle"
  PROVE  LET ask == creation[q].ask IN
         /\ ask \in Creations
         /\ ask.slug \in Creation!Slug \cup {None, ""} /\ ask.name \in DOMAIN Nth
         /\ ask.owner \in User \cup {None} /\ ask.categories \in Seq(Category)
BY DEF CreationInv, Sound, Creation!ProvidersAssumption

\* A step of a request leaves the other requests alone.
LEMMA OneRequest ==
  ASSUME CreationInv, NEW q \in Creator,
         Creation!Arrive(q) \/ Creation!Advance(q) \/ Creation!Fault(q)
            \/ Creation!AnswerLost(q)
  PROVE  \A p \in Creator \ {q} : creation'[p] = creation[p] /\ provider'[p] = provider[p]
BY DEF CreationInv, Creation!Arrive, Creation!Advance, Creation!Fault,
       Creation!AnswerLost, Creation!Requested, Creation!SlugFree,
       Creation!CreateProvider, Creation!AddMember, Creation!AddProviderCategory,
       Creation!Commit, Creation!Answer, Creation!Rollback

\* What an answer does to the request.
LEMMA AnswerEnds ==
  ASSUME CreationInv, NEW q \in Creator, NEW reply, Creation!Answer(q, reply)
  PROVE  /\ creation'[q].pc = "done" /\ creation'[q].answer = reply
         /\ creation'[q].row = None
         /\ creation'[q].ask = creation[q].ask /\ creation'[q].slug = creation[q].slug
         /\ creation' = [creation EXCEPT ![q] = creation'[q]]
         /\ reply \in Creation!Reply => creation'[q] \in Requests
BY ZenonT(60) DEF CreationInv, Creation!Answer, Requests, Stage

LEMMA CommittedRow ==
  ASSUME CreationInv, NEW q \in Creator, Creation!Commit(q) \/ Creation!AnswerLost(q)
  PROVE  /\ creation[q].row \in Rows /\ creation[q].row # None
         /\ provider' = [provider EXCEPT ![q] = creation[q].row]
         /\ raced' = [ p \in Creator |-> raced[p] \cup {creation[q].row.slug} ]
         /\ creation[q].pc = "categories" /\ creation[q].left = <<>>
         /\ UNCHANGED category
         /\ Creation!Answer(q, "created") \/ Creation!Answer(q, "internal")
<1>1. creation[q] \in Requests /\ creation[q].pc = "categories"
  BY DEF CreationInv, Creation!Commit, Creation!AnswerLost, Creation!At
<1>2. creation[q].row # None
  BY <1>1 DEF CreationInv, Sound
<1> QED BY <1>1, <1>2 DEF Creation!Commit, Creation!AnswerLost, Creation!At, Requests

\* Two ways in which a step can keep the types: it writes one request, or it
\* writes one and the row of its provider.
LEMMA OneWritten ==
  ASSUME CreationInv, NEW q \in Creator, NEW x \in Requests,
         creation' = [creation EXCEPT ![q] = x],
         x.pc # "idle" => x.ask \in Creations,
         x.pc = "insert" => x.slug \in Creation!Slug,
         x.row # None <=> x.pc \in {"member", "categories"},
         x.answer # None => x.pc = "done",
         creation[q].pc = "done" => x.pc = "done",
         provider' = provider \/ (x.pc = "done" /\ creation[q].row \in Rows /\
                                  provider' = [provider EXCEPT ![q] = creation[q].row]),
         UNCHANGED category, raced' \in [Creator -> SUBSET Creation!Slug]
  PROVE  CreationInv'
<1>1. creation' \in [Creator -> Requests] /\ provider' \in [Creator -> Rows \cup {None}]
  BY DEF CreationInv
<1>2. ASSUME NEW p \in Creator PROVE Sound(p)'
  <2>1. CASE p = q
    BY <2>1 DEF CreationInv, Sound
  <2>2. CASE p # q
    BY <2>2 DEF CreationInv, Sound
  <2> QED BY <2>1, <2>2
<1> QED BY <1>1, <1>2 DEF CreationInv, Creation!ProvidersAssumption

LEMMA AnswerTyped ==
  ASSUME CreationInv, NEW q \in Creator, creation[q].pc # "idle",
         NEW reply \in Creation!Reply,
         Creation!Answer(q, reply), UNCHANGED <<provider, category, raced>>
  PROVE  CreationInv'
<1>1. creation'[q].ask \in Creations
  BY CreationAskType, AnswerEnds
<1>2. raced \in [Creator -> SUBSET Creation!Slug]
  BY DEF CreationInv
<1> QED BY <1>1, <1>2, AnswerEnds, OneWritten

LEMMA SlugOfName ==
  ASSUME CreationInv, NEW name \in DOMAIN Nth, NEW n \in 1 .. Len(Nth[name])
  PROVE  Nth[name][n] \in Creation!Slug
BY DEF Creation!Slug

LEMMA RequestTyped ==
  ASSUME CreationInv, NEW q \in Creator, Creation!Arrive(q) \/ Creation!Requested(q)
         \/ Creation!SlugFree(q)
  PROVE  CreationInv'
<1>1. creation[q] \in Requests /\ raced \in [Creator -> SUBSET Creation!Slug] /\ Sound(q)
  BY DEF CreationInv
<1>2. CASE Creation!Arrive(q)
  <2>1. PICK ask \in Creations :
          creation' = [creation EXCEPT ![q] = [creation[q] EXCEPT
            !.ask = ask, !.left = ask.categories, !.pc = "resolve"]]
    BY <1>2 DEF Creation!Arrive, CreationInv
  <2> DEFINE x == [creation[q] EXCEPT
                     !.ask = ask, !.left = ask.categories, !.pc = "resolve"]
  <2>2. ask.categories \in Seq(Category)
    BY DEF CreationInv, Creation!ProvidersAssumption
  <2>3. x \in Requests /\ x.pc = "resolve" /\ x.ask = ask
        /\ x.row = creation[q].row /\ x.answer = creation[q].answer
    BY <1>1, <2>2 DEF Requests, Stage
  <2>4. creation[q].row = None /\ creation[q].answer = None
    BY <1>1, <1>2 DEF Creation!Arrive, Sound
  <2>5. creation[q].pc = "idle" /\ UNCHANGED <<provider, category, raced>>
    BY <1>2 DEF Creation!Arrive
  <2> HIDE DEF x
  <2>6. creation' = [creation EXCEPT ![q] = x]
    BY <2>1 DEF x
  <2> QED BY <1>1, <2>3, <2>4, <2>5, <2>6, OneWritten
<1>3. ASSUME NEW slug \in Creation!Slug, creation[q].pc = "resolve",
             UNCHANGED <<provider, category>>,
             raced' \in [Creator -> SUBSET Creation!Slug],
             creation' = [creation EXCEPT ![q].slug = slug, ![q].pc = "insert"]
      PROVE  CreationInv'
  <2> DEFINE x == [creation[q] EXCEPT !.slug = slug, !.pc = "insert"]
  <2>1. x \in Requests /\ x.pc = "insert" /\ x.slug = slug /\ x.ask = creation[q].ask
        /\ x.row = creation[q].row /\ x.answer = creation[q].answer
    BY <1>1 DEF Requests, Stage
  <2>2. creation[q].row = None /\ creation[q].answer = None
        /\ creation[q].ask \in Creations
    BY <1>1, <1>3 DEF Sound
  <2>3. creation' = [creation EXCEPT ![q] = x]
    BY <1>3 DEF CreationInv
  <2> HIDE DEF x
  <2> QED BY ZenonT(60), <1>3, <2>1, <2>2, <2>3, OneWritten
<1>4. CASE Creation!Requested(q)
  <2>1. creation[q].ask.slug \in Creation!Slug \cup {""} /\ creation[q].pc = "resolve"
    BY <1>4, CreationAskType DEF Creation!Requested, Creation!At
  <2> QED BY <1>1, <1>3, <1>4, <2>1, AnswerTyped DEF Creation!Requested, Creation!Reply
<1>5. CASE Creation!SlugFree(q)
  <2> DEFINE candidates == Nth[creation[q].ask.name]
             n == creation[q].attempt
  <2>1. creation[q].pc = "resolve" /\ n \in Nat \ {0}
        /\ creation[q].ask.name \in DOMAIN Nth
    BY <1>1, <1>5, CreationAskType DEF Creation!SlugFree, Creation!At, Requests
  <2>2. Len(candidates) \in Nat
    BY SMTT(30), <1>5 DEF Creation!SlugFree
  <2>3. CASE Creation!Answer(q, "exhausted") /\ UNCHANGED <<provider, category, raced>>
    BY <2>1, <2>3, AnswerTyped DEF Creation!Reply
  <2>4. CASE creation' = [creation EXCEPT ![q].attempt = n + 1]
             /\ UNCHANGED <<provider, category, raced>>
    <3> DEFINE x == [creation[q] EXCEPT !.attempt = n + 1]
    <3>1. x \in Requests /\ x.pc = "resolve" /\ x.ask = creation[q].ask
          /\ x.row = creation[q].row /\ x.answer = creation[q].answer
      BY <1>1, <2>1 DEF Requests
    <3>2. creation' = [creation EXCEPT ![q] = x]
      BY <2>4 DEF CreationInv
    <3>3. creation[q].row = None /\ creation[q].answer = None
          /\ creation[q].ask \in Creations
      BY <1>1, <2>1 DEF Sound
    <3> HIDE DEF x
    <3> QED BY ZenonT(60), <1>1, <2>1, <2>4, <3>1, <3>2, <3>3, OneWritten
  <2>5. CASE /\ n <= Len(candidates)
             /\ creation' = [creation EXCEPT ![q].slug = candidates[n],
                ![q].pc = "insert"]
             /\ raced' = [raced EXCEPT ![q] = {}]
             /\ UNCHANGED <<provider, category>>
    <3>1. candidates[n] \in Creation!Slug
      BY <2>1, <2>5, SlugOfName
    <3>2. raced' \in [Creator -> SUBSET Creation!Slug]
      BY <1>1, <2>5
    <3> HIDE DEF candidates, n
    <3> QED BY <1>3, <2>1, <2>5, <3>1, <3>2
  <2> QED BY <1>5, <2>3, <2>4, <2>5 DEF Creation!SlugFree
<1> QED BY <1>2, <1>4, <1>5

LEMMA TransactionTyped ==
  ASSUME CreationInv, NEW q \in Creator,
         \/ Creation!CreateProvider(q) \/ Creation!AddMember(q)
            \/ Creation!AddProviderCategory(q)
         \/ Creation!Commit(q) \/ Creation!AnswerLost(q) \/ Creation!Fault(q)
  PROVE  CreationInv'
<1>1. creation[q] \in Requests /\ raced \in [Creator -> SUBSET Creation!Slug] /\ Sound(q)
  BY DEF CreationInv
<1>2. creation[q].pc # "idle" /\ creation[q].ask \in Creations
      /\ creation[q].answer = None
  BY <1>1
     DEF Creation!CreateProvider, Creation!AddMember, Creation!AddProviderCategory,
         Creation!Commit, Creation!AnswerLost, Creation!Fault, Creation!At, Sound
<1>3. ASSUME NEW x \in Requests, creation' = [creation EXCEPT ![q] = x],
             UNCHANGED <<provider, category, raced>>, x.row # None,
             x.pc \in {"member", "categories"}, x.ask = creation[q].ask,
             x.answer = creation[q].answer, creation[q].pc # "done"
      PROVE  CreationInv'
  BY <1>1, <1>2, <1>3, OneWritten
<1>4. CASE Creation!CreateProvider(q)
  <2> DEFINE row == [ slug |-> creation[q].slug, owner |-> None, categories |-> {} ]
             x == [creation[q] EXCEPT !.pc = "member", !.row = row]
  <2>1. CASE Creation!Answer(q, "conflict")
    BY <1>2, <1>4, <2>1, AnswerTyped DEF Creation!CreateProvider, Creation!Reply
  <2>2. CASE creation' = [creation EXCEPT ![q].pc = "member", ![q].row = row]
    <3>1. creation[q].pc = "insert" /\ UNCHANGED <<provider, category, raced>>
      BY <1>4 DEF Creation!CreateProvider, Creation!At
    <3>0. row \in Rows
      BY <1>1, <3>1 DEF Rows, Sound
    <3> HIDE DEF row
    <3>2. row \in Rows /\ row # None
      BY <3>0 DEF Rows, CreationInv, Creation!ProvidersAssumption
    <3>3. /\ x \in Requests /\ x.row # None /\ x.pc = "member" /\ x.ask = creation[q].ask
          /\ x.answer = creation[q].answer
      BY <1>1, <3>2 DEF Requests, Stage
    <3>4. creation' = [creation EXCEPT ![q] = x]
      BY <2>2 DEF CreationInv
    <3> HIDE DEF x
    <3> QED BY <1>3, <3>1, <3>3, <3>4
  <2> QED BY <1>4, <2>1, <2>2 DEF Creation!CreateProvider
<1>5. CASE Creation!AddMember(q)
  <2> DEFINE row == [creation[q].row EXCEPT !.owner = creation[q].ask.owner]
             x == [creation[q] EXCEPT !.pc = "categories", !.row = row]
  <2>1. creation[q].pc = "member" /\ UNCHANGED <<provider, category, raced>>
        /\ creation' = [creation EXCEPT ![q].row.owner = creation[q].ask.owner,
                                      ![q].pc = "categories"]
    BY <1>5 DEF Creation!AddMember, Creation!At
  <2>2. creation[q].row \in Rows
    BY <1>1, <2>1 DEF Requests, Sound
  <2>3. row \in Rows
    BY <1>2, <2>2, CreationAskType DEF Rows
  <2>4. row # None
    BY <2>3 DEF CreationInv, Creation!ProvidersAssumption, Rows
  <2>5. creation' = [creation EXCEPT ![q] = x]
    BY <1>1, <2>1 DEF CreationInv, Requests
  <2> HIDE DEF row
  <2>6. /\ x \in Requests /\ x.row # None /\ x.pc = "categories"
           /\ x.ask = creation[q].ask
        /\ x.answer = creation[q].answer
    BY <1>1, <2>3, <2>4 DEF Requests, Stage
  <2> HIDE DEF x
  <2> QED BY <1>3, <2>1, <2>5, <2>6
<1>6. CASE Creation!AddProviderCategory(q)
  <2> DEFINE c == Head(creation[q].left)
             row == [creation[q].row EXCEPT !.categories = @ \cup {c}]
             x == [creation[q] EXCEPT !.left = Tail(@), !.row = row]
  <2>1. CASE Creation!Answer(q, "invalid")
    BY <1>2, <1>6, <2>1, AnswerTyped DEF Creation!AddProviderCategory, Creation!Reply
  <2>2. CASE c \in category /\ creation' = [creation EXCEPT
               ![q].row.categories = @ \cup {c}, ![q].left = Tail(@)]
    <3>1. /\ creation[q].pc = "categories" /\ UNCHANGED <<provider, category, raced>>
          /\ creation[q].left # <<>>
      BY <1>6 DEF Creation!AddProviderCategory, Creation!At
    <3>2. creation[q].row \in Rows /\ c \in Category
      BY <1>1, <2>2, <3>1 DEF Requests, Sound, CreationInv
    <3> HIDE DEF c
    <3>3. row \in Rows
      BY <3>2 DEF Rows
    <3>4. row # None
      BY <3>3 DEF CreationInv, Creation!ProvidersAssumption, Rows
    <3>5. creation' = [creation EXCEPT ![q] = x]
      BY <1>1, <2>2 DEF CreationInv, Requests
    <3>6. Tail(creation[q].left) \in Seq(Category)
      BY <1>1, <3>1 DEF Requests
    <3> HIDE DEF row
    <3>7. /\ x \in Requests /\ x.row # None /\ x.pc = "categories"
          /\ x.ask = creation[q].ask /\ x.answer = creation[q].answer
      BY <1>1, <3>1, <3>3, <3>4, <3>6 DEF Requests, Stage
    <3> HIDE DEF x
    <3> QED BY <1>3, <3>1, <3>5, <3>7
  <2> QED BY <1>6, <2>1, <2>2 DEF Creation!AddProviderCategory
<1>7. CASE Creation!Commit(q) \/ Creation!AnswerLost(q)
  <2>1. raced' \in [Creator -> SUBSET Creation!Slug]
    BY <1>1, <1>7, CommittedRow DEF Rows
  <2>2. PICK reply \in {"created", "internal"} : Creation!Answer(q, reply)
    BY <1>7, CommittedRow
  <2> QED BY <1>2, <1>7, <2>1, <2>2, AnswerEnds, CommittedRow, OneWritten
             DEF Creation!Reply
<1>8. CASE Creation!Fault(q)
  BY <1>2, <1>8, AnswerTyped DEF Creation!Fault, Creation!Rollback, Creation!Reply
<1> QED BY <1>4, <1>5, <1>6, <1>7, <1>8

LEMMA DeletionTyped ==
  ASSUME CreationInv, NEW c \in Category, Creation!DeleteCategory(c)
  PROVE  /\ CreationInv'
         /\ Creation!Providers' = Creation!Providers
         /\ \A q \in Creation!Providers : /\ provider'[q].slug = provider[q].slug
                                 /\ provider'[q].owner = provider[q].owner
                                 /\ provider'[q].categories = provider[q].categories \ {c}
<1>1. ASSUME NEW q \in Creator, provider[q] # None
      PROVE  /\ provider'[q] \in Rows /\ provider'[q] # None
             /\ provider'[q].slug = provider[q].slug
             /\ provider'[q].owner = provider[q].owner
             /\ provider'[q].categories = provider[q].categories \ {c}
  <2>1. provider[q] \in Rows
    BY <1>1 DEF CreationInv
  <2>2. provider'[q] = [provider[q] EXCEPT !.categories = @ \ {c}]
    BY <1>1 DEF Creation!DeleteCategory
  <2>3. provider'[q] \in Rows
    BY <2>1, <2>2 DEF Rows
  <2> QED BY <2>1, <2>2, <2>3 DEF Rows, CreationInv, Creation!ProvidersAssumption
<1>2. ASSUME NEW q \in Creator, provider[q] = None PROVE provider'[q] = None
  BY <1>2 DEF Creation!DeleteCategory
<1>3. DOMAIN provider' = Creator /\ provider' = [ q \in Creator |-> provider'[q] ]
  BY DEF Creation!DeleteCategory
<1>4. provider' \in [Creator -> Rows \cup {None}]
  BY <1>1, <1>2, <1>3
<1>5. UNCHANGED <<creation, raced>> /\ category' \subseteq Category
  BY DEF Creation!DeleteCategory, CreationInv
<1>6. \A q \in Creator : Sound(q)'
  BY <1>2, <1>5 DEF CreationInv, Sound
<1>7. CreationInv'
  BY <1>4, <1>5, <1>6 DEF CreationInv, Creation!ProvidersAssumption
<1> QED BY <1>1, <1>2, <1>7 DEF Creation!Providers

LEMMA NextTypeInv == CreationInv /\ [Creation!Next]_(Creation!vars) => CreationInv'
<1> SUFFICES ASSUME CreationInv, [Creation!Next]_(Creation!vars) PROVE CreationInv'
  OBVIOUS
<1>1. CASE UNCHANGED Creation!vars
  BY <1>1 DEF Creation!vars, CreationInv, Sound, Creation!ProvidersAssumption
<1> QED BY <1>1, RequestTyped, TransactionTyped, DeletionTyped
           DEF Creation!Next, Creation!Advance

LEMMA SpecTypeInv == Creation!ProvidersAssumption /\ Creation!Spec => []CreationInv
BY InitTypeInv, NextTypeInv, PTL DEF Creation!Spec

\* Every variable of Providers holds a value of its kind.
THEOREM ProvidersTyped == Creation!ProvidersAssumption /\ Creation!Spec => []CreationInv
BY SpecTypeInv

-----------------------------------------------------------------------------
(* Whole or not at all.                                                    *)

Named(categories) == { categories[i] : i \in DOMAIN categories }

LEMMA NamedHeadAndTail ==
  ASSUME NEW s \in Seq(Category), s # <<>>
  PROVE  Named(s) = {Head(s)} \cup Named(Tail(s))
<1>1. /\ Len(s) \in Nat \ {0} /\ DOMAIN s = 1 .. Len(s) /\ Head(s) = s[1]
      /\ DOMAIN Tail(s) = 1 .. Len(s) - 1
      /\ \A i \in 1 .. Len(s) - 1 : Tail(s)[i] = s[i + 1]
  OBVIOUS
<1>2. ASSUME NEW c \in Named(s) PROVE c \in {Head(s)} \cup Named(Tail(s))
  <2>1. PICK i \in 1 .. Len(s) : c = s[i]
    BY <1>1, <1>2 DEF Named
  <2>2. CASE i = 1
    BY <1>1, <2>1, <2>2
  <2>3. CASE i # 1
    <3>1. i - 1 \in 1 .. Len(s) - 1 /\ c = s[(i - 1) + 1]
      BY <1>1, <2>1, <2>3
    <3> QED BY <1>1, <3>1 DEF Named
  <2> QED BY <2>2, <2>3
<1>3. ASSUME NEW c \in {Head(s)} \cup Named(Tail(s)) PROVE c \in Named(s)
  <2>1. CASE c = Head(s)
    BY <1>1, <2>1 DEF Named
  <2>2. CASE c \in Named(Tail(s))
    <3>1. PICK i \in 1 .. Len(s) - 1 : c = s[i + 1]
      BY <1>1, <2>2 DEF Named
    <3>2. i + 1 \in 1 .. Len(s)
      BY <1>1, <3>1
    <3> QED BY <1>1, <3>1, <3>2 DEF Named
  <2> QED BY <1>3, <2>1, <2>2
<1> QED BY <1>2, <1>3

\* While a transaction adds categories, those that it has added and those that it
\* still has to are the ones asked for, and none of the former can go; a committed
\* row has the owner and those of the categories that exist.
Whole(q) ==
  LET x == creation[q] IN
  /\ x.pc \in {"resolve", "insert", "member"} => x.left = x.ask.categories
  /\ x.pc = "member" => x.row.categories = {}
  /\ x.pc = "categories" =>
       /\ x.row.owner = x.ask.owner /\ x.row.categories \subseteq category
       /\ x.row.categories \cup Named(x.left) = Named(x.ask.categories)
  /\ provider[q] # None =>
       /\ provider[q].owner = x.ask.owner
       /\ provider[q].categories = Named(x.ask.categories) \cap category

WholeInv == \A q \in Creator : Whole(q)

LEMMA AnswerWhole ==
  ASSUME CreationInv, NEW q \in Creator, Whole(q), NEW reply, Creation!Answer(q, reply),
         UNCHANGED <<provider, category>>
  PROVE  Whole(q)'
BY AnswerEnds DEF Whole

LEMMA RequestWhole ==
  ASSUME CreationInv, NEW q \in Creator, Whole(q),
         \/ Creation!Arrive(q) \/ Creation!Requested(q) \/ Creation!SlugFree(q)
            \/ Creation!CreateProvider(q)
         \/ Creation!AddMember(q) \/ Creation!Fault(q)
  PROVE  Whole(q)'
<1>1. creation[q] \in Requests /\ Sound(q) /\ UNCHANGED <<provider, category>>
  BY DEF CreationInv, Creation!Arrive, Creation!Requested, Creation!SlugFree,
         Creation!CreateProvider, Creation!AddMember, Creation!Fault
<1>2. CASE Creation!Arrive(q)
  <2>1. PICK ask \in Creations : creation' = [creation EXCEPT
          ![q].ask = ask, ![q].left = ask.categories, ![q].pc = "resolve"]
    BY <1>2 DEF Creation!Arrive
  <2>2. /\ creation'[q].pc = "resolve" /\ creation'[q].left = creation'[q].ask.categories
        /\ provider[q] = None
    BY <1>1, <1>2, <2>1 DEF CreationInv, Requests, Creation!Arrive, Sound
  <2> QED BY <1>1, <2>2 DEF Whole
<1>3. ASSUME NEW reply, Creation!Answer(q, reply) PROVE Whole(q)'
  BY <1>1, <1>3, AnswerWhole
<1>4. ASSUME /\ creation'[q].pc \in {"resolve", "insert", "member"}
             /\ creation[q].pc \in {"resolve", "insert"}
             /\ creation'[q].left = creation[q].left /\ creation'[q].ask = creation[q].ask
             /\ creation'[q].pc = "member" => creation'[q].row.categories = {}
      PROVE  Whole(q)'
  BY <1>1, <1>4 DEF Whole, Sound
<1>5. CASE Creation!Requested(q)
  <2>1. \/ \E reply : Creation!Answer(q, reply)
        \/ /\ creation'[q].pc = "insert" /\ creation[q].pc = "resolve"
           /\ creation'[q].left = creation[q].left /\ creation'[q].ask = creation[q].ask
    <3>1. CASE creation[q].ask.slug = ""
      BY <1>5, <3>1 DEF Creation!Requested
    <3>2. CASE creation[q].ask.slug # ""
      <4>1. /\ creation' = [creation EXCEPT ![q].slug = creation[q].ask.slug,
               ![q].pc = "insert"]
            /\ creation[q].pc = "resolve"
        BY <1>5, <3>2 DEF Creation!Requested, Creation!At
      <4> QED BY <1>1, <4>1 DEF CreationInv, Requests
    <3> QED BY <3>1, <3>2
  <2> QED BY <1>3, <1>4, <2>1
<1>6. CASE Creation!SlugFree(q)
  <2> DEFINE n == creation[q].attempt
             candidate == Nth[creation[q].ask.name][n]
  <2>1. creation[q].pc = "resolve"
        /\ \/ Creation!Answer(q, "exhausted")
           \/ creation' = [creation EXCEPT ![q].attempt = n + 1]
           \/ creation' = [creation EXCEPT ![q].slug = candidate, ![q].pc = "insert"]
    BY <1>6 DEF Creation!SlugFree, Creation!At
  <2>2. CASE creation' = [creation EXCEPT ![q].attempt = n + 1]
    <3>1. /\ creation'[q].pc = "resolve"
          /\ creation'[q].left = creation[q].left /\ creation'[q].ask = creation[q].ask
      BY <1>1, <2>1, <2>2 DEF CreationInv, Requests
    <3> QED BY <1>4, <2>1, <3>1
  <2>3. CASE creation' = [creation EXCEPT ![q].slug = candidate, ![q].pc = "insert"]
    <3>1. /\ creation'[q].pc = "insert"
          /\ creation'[q].left = creation[q].left /\ creation'[q].ask = creation[q].ask
      BY <1>1, <2>3 DEF CreationInv, Requests
    <3> QED BY <1>4, <2>1, <3>1
  <2> QED BY <1>3, <2>1, <2>2, <2>3
<1>7. CASE Creation!CreateProvider(q)
  <2>1. \/ \E reply : Creation!Answer(q, reply)
        \/ /\ creation'[q].pc = "member" /\ creation[q].pc = "insert"
           /\ creation'[q].left = creation[q].left /\ creation'[q].ask = creation[q].ask
           /\ creation'[q].row.categories = {}
    BY <1>1, <1>7 DEF Creation!CreateProvider, Creation!At, CreationInv, Requests
  <2> QED BY <1>3, <1>4, <2>1
<1>8. CASE Creation!AddMember(q)
  <2>1. creation[q].pc = "member" /\ creation[q].row \in Rows
        /\ creation' = [creation EXCEPT ![q].row.owner = creation[q].ask.owner,
                                      ![q].pc = "categories"]
    BY <1>1, <1>8 DEF Creation!AddMember, Creation!At, Requests, Sound
  <2>2. /\ creation'[q].pc = "categories" /\ creation'[q].ask = creation[q].ask
        /\ creation'[q].left = creation[q].left
        /\ creation'[q].row.owner = creation[q].ask.owner
        /\ creation'[q].row.categories = creation[q].row.categories
    BY <1>1, <2>1 DEF CreationInv, Requests, Rows
  <2> QED BY <1>1, <2>1, <2>2 DEF Whole, Sound
<1>9. CASE Creation!Fault(q)
  BY <1>3, <1>9 DEF Creation!Fault, Creation!Rollback
<1> QED BY <1>2, <1>5, <1>6, <1>7, <1>8, <1>9

LEMMA CategoryWhole ==
  ASSUME CreationInv, NEW q \in Creator, Whole(q), Creation!AddProviderCategory(q)
  PROVE  Whole(q)'
<1> DEFINE c == Head(creation[q].left)
<1>1. /\ creation[q] \in Requests /\ Sound(q) /\ UNCHANGED <<provider, category>>
      /\ creation[q].pc = "categories" /\ creation[q].left # <<>>
  BY DEF CreationInv, Creation!AddProviderCategory, Creation!At
<1>2. CASE Creation!Answer(q, "invalid")
  BY <1>1, <1>2, AnswerWhole
<1>3. CASE c \in category /\ creation' = [creation EXCEPT
             ![q].row.categories = @ \cup {c}, ![q].left = Tail(@)]
  <2> HIDE DEF c
  <2>1. creation[q].row \in Rows /\ creation[q].left \in Seq(Category)
    BY <1>1 DEF Requests, Sound
  <2>2. /\ creation'[q].pc = "categories" /\ creation'[q].ask = creation[q].ask
        /\ creation'[q].left = Tail(creation[q].left)
        /\ creation'[q].row.owner = creation[q].row.owner
        /\ creation'[q].row.categories = creation[q].row.categories \cup {c}
    BY <1>1, <1>3, <2>1 DEF CreationInv, Requests, Rows
  <2>3. Named(creation[q].left) = {c} \cup Named(creation'[q].left)
    BY <1>1, <2>1, <2>2, NamedHeadAndTail DEF c
  <2> QED BY <1>1, <1>3, <2>2, <2>3 DEF Whole, Sound
<1> QED BY <1>2, <1>3 DEF Creation!AddProviderCategory

LEMMA CommitWhole ==
  ASSUME CreationInv, NEW q \in Creator, Whole(q), Creation!Commit(q)
         \/ Creation!AnswerLost(q)
  PROVE  Whole(q)'
<1>1. /\ creation[q].pc = "categories" /\ creation[q].left = <<>> /\ UNCHANGED category
      /\ provider'[q] = creation[q].row
  BY CommittedRow DEF CreationInv
<1>2. creation'[q].pc = "done" /\ creation'[q].ask = creation[q].ask
  BY AnswerEnds, CommittedRow
<1>3. Named(<<>>) = {}
  BY DEF Named
<1> QED BY <1>1, <1>2, <1>3 DEF Whole

LEMMA DeletionWhole ==
  ASSUME CreationInv, WholeInv, NEW c \in Category, Creation!DeleteCategory(c)
  PROVE  WholeInv'
<1>1. category' = category \ {c} /\ UNCHANGED creation /\ Creation!Deletable(c)
  BY DEF Creation!DeleteCategory
<1> SUFFICES ASSUME NEW q \in Creator PROVE Whole(q)'
  BY DEF WholeInv
<1>2. creation[q].pc = "categories" => c \notin creation[q].row.categories
  BY <1>1 DEF Creation!Deletable, CreationInv, Sound
<1> QED BY <1>1, <1>2, DeletionTyped DEF WholeInv, Whole, Creation!Providers

LEMMA NextWhole == CreationInv /\ WholeInv /\ [Creation!Next]_(Creation!vars) => WholeInv'
<1> SUFFICES ASSUME CreationInv, WholeInv, [Creation!Next]_(Creation!vars) PROVE WholeInv'
  OBVIOUS
<1>1. ASSUME NEW q \in Creator, Creation!Arrive(q) \/ Creation!Advance(q)
             \/ Creation!Fault(q) \/ Creation!AnswerLost(q)
      PROVE  WholeInv'
  <2>1. Whole(q)'
    BY <1>1, RequestWhole, CategoryWhole, CommitWhole DEF WholeInv, Creation!Advance
  <2>2. UNCHANGED category
    BY <1>1
       DEF Creation!Arrive, Creation!Advance, Creation!Fault, Creation!AnswerLost,
           Creation!Requested, Creation!SlugFree, Creation!CreateProvider,
           Creation!AddMember, Creation!AddProviderCategory, Creation!Commit
  <2>3. ASSUME NEW p \in Creator \ {q} PROVE Whole(p)'
    BY <1>1, <2>2, OneRequest DEF WholeInv, Whole
  <2> QED BY <2>1, <2>3 DEF WholeInv
<1>2. CASE UNCHANGED Creation!vars
  BY <1>2 DEF Creation!vars, WholeInv, Whole
<1> QED BY <1>1, <1>2, DeletionWhole DEF Creation!Next

\* A provider is there with its owner and with those of its categories that were not
\* deleted, or not at all: whichever statement failed, whatever COMMIT lost its
\* answer and whatever category was deleted while the transaction ran.
THEOREM CreatedWhole ==
  Creation!ProvidersAssumption /\ Creation!Spec => []Creation!WholeOrNotAtAll
<1>1. Creation!Init => WholeInv
  BY DEF Creation!Init, WholeInv, Whole, Creation!NoRequest
<1>2. WholeInv => Creation!WholeOrNotAtAll
  BY DEF WholeInv, Whole, Creation!WholeOrNotAtAll, Named, Creation!Providers
<1> QED BY <1>1, <1>2, NextWhole, SpecTypeInv, PTL DEF Creation!Spec

-----------------------------------------------------------------------------
(* The search for a slug.                                                  *)

\* A slug that was found taken still is; one that was found free and is now
\* taken was taken since.
Searched(q) ==
  LET x == creation[q] IN
  /\ x.pc = "idle" => x.attempt = 1
  /\ x.pc = "resolve" /\ x.ask.slug = None =>
       \A n \in 1 .. Len(Nth[x.ask.name]) :
         n < x.attempt => Creation!SlugExists(Nth[x.ask.name][n])
  /\ (x.pc = "insert" \/ x.answer = "conflict") /\ x.ask.slug = None
     /\ Creation!SlugExists(x.slug) => x.slug \in raced[q]
  /\ x.answer = "conflict" => Creation!SlugExists(x.slug)
  /\ x.answer = "exhausted" =>
       \A n \in 1 .. Len(Nth[x.ask.name]) : Creation!SlugExists(Nth[x.ask.name][n])

SearchInv == \A q \in Creator : Searched(q)

\* A slug that a provider has is never given back.
LEMMA SlugsStay ==
  ASSUME CreationInv, [Creation!Next]_(Creation!vars), NEW slug, Creation!SlugExists(slug)
  PROVE  Creation!SlugExists(slug)'
<1>1. PICK p \in Creation!Providers : provider[p].slug = slug
  BY DEF Creation!SlugExists
<1>2. CASE UNCHANGED provider
  BY <1>1, <1>2 DEF Creation!SlugExists, Creation!Providers
<1>3. ASSUME NEW q \in Creator, Creation!Commit(q) \/ Creation!AnswerLost(q)
             PROVE Creation!SlugExists(slug)'
  <2>1. p # q
    BY <1>1, <1>3, CommittedRow DEF Creation!Providers, CreationInv, Sound
  <2> QED BY <1>1, <1>3, <2>1, CommittedRow
             DEF Creation!SlugExists, Creation!Providers, CreationInv
<1>4. ASSUME NEW c \in Category, Creation!DeleteCategory(c)
             PROVE Creation!SlugExists(slug)'
  BY <1>1, <1>4, DeletionTyped DEF Creation!SlugExists
<1> QED BY <1>2, <1>3, <1>4
           DEF Creation!Next, Creation!vars, Creation!Arrive, Creation!Advance,
               Creation!Fault, Creation!Requested, Creation!SlugFree,
               Creation!CreateProvider, Creation!AddMember, Creation!AddProviderCategory

\* A slug that is new was just committed, and noted by everyone.
LEMMA NewSlugs ==
  ASSUME CreationInv, [Creation!Next]_(Creation!vars), NEW slug,
         Creation!SlugExists(slug)', ~Creation!SlugExists(slug),
         NEW q \in Creator
  PROVE  slug \in raced'[q] /\ UNCHANGED category
<1>1. ~UNCHANGED provider
  BY DEF Creation!SlugExists, Creation!Providers
<1>2. ASSUME NEW c \in Category, Creation!DeleteCategory(c) PROVE FALSE
  BY <1>2, DeletionTyped DEF Creation!SlugExists
<1>3. PICK p \in Creator : Creation!Commit(p) \/ Creation!AnswerLost(p)
  BY <1>1, <1>2
     DEF Creation!Next, Creation!vars, Creation!Arrive, Creation!Advance,
         Creation!Fault, Creation!Requested, Creation!SlugFree, Creation!CreateProvider,
         Creation!AddMember, Creation!AddProviderCategory
<1>4. slug = creation[p].row.slug
  BY <1>3, CommittedRow DEF Creation!SlugExists, Creation!Providers, CreationInv
<1> QED BY <1>3, <1>4, CommittedRow

\* A request that stays where it is keeps what it has found out.
LEMMA SearchedStays ==
  ASSUME CreationInv, [Creation!Next]_(Creation!vars), NEW q \in Creator, Searched(q),
         creation'[q].ask = creation[q].ask, creation'[q].slug = creation[q].slug,
         creation'[q].attempt = creation[q].attempt,
         creation'[q].pc \in {"idle", "resolve", "insert"} =>
            creation'[q].pc = creation[q].pc,
         creation'[q].answer \in {"conflict", "exhausted"}
           => creation'[q].answer = creation[q].answer,
         raced[q] \subseteq raced'[q]
  PROVE  Searched(q)'
BY SlugsStay, NewSlugs DEF Searched

LEMMA RacedGrows ==
  ASSUME CreationInv, [Creation!Next]_(Creation!vars), NEW q \in Creator,
         ~Creation!SlugFree(q)
  PROVE  raced[q] \subseteq raced'[q]
<1>1. raced \in [Creator -> SUBSET Creation!Slug]
  BY DEF CreationInv
<1>2. ASSUME NEW p \in Creator, Creation!Commit(p) \/ Creation!AnswerLost(p)
             PROVE raced[q] \subseteq raced'[q]
  BY <1>2, CommittedRow
<1>3. ASSUME NEW p \in Creator \ {q}, Creation!SlugFree(p)
             PROVE raced[q] \subseteq raced'[q]
  BY <1>1, <1>3 DEF Creation!SlugFree
<1> QED BY <1>2, <1>3
           DEF Creation!Next, Creation!vars, Creation!Arrive, Creation!Advance,
               Creation!Fault, Creation!Requested, Creation!CreateProvider,
               Creation!AddMember, Creation!AddProviderCategory, Creation!DeleteCategory

LEMMA SearchStep ==
  ASSUME CreationInv, [Creation!Next]_(Creation!vars), NEW q \in Creator, Searched(q),
         Creation!Arrive(q) \/ Creation!Advance(q) \/ Creation!Fault(q)
            \/ Creation!AnswerLost(q)
  PROVE  Searched(q)'
<1>1. creation[q] \in Requests /\ Sound(q)
  BY DEF CreationInv
<1>2. CASE Creation!Arrive(q)
  <2>1. PICK ask \in Creations : creation' = [creation EXCEPT
          ![q].ask = ask, ![q].left = ask.categories, ![q].pc = "resolve"]
    BY <1>2 DEF Creation!Arrive
  <2>2. /\ creation'[q].pc = "resolve" /\ creation'[q].attempt = 1
        /\ creation'[q].answer = None
    BY <1>1, <1>2, <2>1 DEF CreationInv, Requests, Creation!Arrive, Sound, Searched
  <2>3. None \notin {"conflict", "exhausted"}
    BY DEF CreationInv, Creation!ProvidersAssumption, Creation!Reply
  <2> QED BY <2>2, <2>3 DEF Searched
<1>3. ASSUME ~Creation!SlugFree(q), NEW reply \in {"created", "invalid", "internal"},
              Creation!Answer(q, reply)
      PROVE  Searched(q)'
  <2>1. creation'[q].attempt = creation[q].attempt
    BY <1>1, <1>3 DEF Creation!Answer, CreationInv, Requests
  <2> QED BY <1>3, <2>1, AnswerEnds, RacedGrows, SearchedStays
<1>4. CASE Creation!Requested(q)
  <2>1. creation[q].ask.slug # None /\ ~Creation!SlugFree(q) /\ creation[q].pc = "resolve"
    BY <1>4 DEF Creation!Requested, Creation!SlugFree, Creation!At
  <2>2. CASE Creation!Answer(q, "invalid")
    BY <1>3, <2>1, <2>2
  <2>3. CASE creation' = [creation EXCEPT ![q].slug = creation[q].ask.slug,
        ![q].pc = "insert"]
    <3>1. /\ creation'[q].ask = creation[q].ask /\ creation'[q].pc = "insert"
          /\ creation'[q].answer = creation[q].answer
      BY <1>1, <2>3 DEF CreationInv, Requests
    <3>2. creation[q].answer = None
          /\ creation'[q].answer \notin {"conflict", "exhausted"}
      BY <1>1, <2>1, <3>1
         DEF Sound, CreationInv, Creation!ProvidersAssumption, Creation!Reply
    <3> QED BY <2>1, <3>1, <3>2 DEF Searched
  <2>4. \/ Creation!Answer(q, "invalid")
        \/ creation' = [creation EXCEPT ![q].slug = creation[q].ask.slug,
           ![q].pc = "insert"]
    BY <1>4, Zenon DEF Creation!Requested
  <2> QED BY <2>2, <2>3, <2>4
<1>5. CASE Creation!SlugFree(q)
  <2> DEFINE name == creation[q].ask.name
             n == creation[q].attempt
  <2>1. /\ creation[q].pc = "resolve" /\ creation[q].ask.slug = None
        /\ n \in Nat \ {0} /\ name \in DOMAIN Nth
        /\ creation[q].answer = None /\ UNCHANGED provider
    BY <1>1, <1>5, CreationAskType DEF Creation!SlugFree, Creation!At, Requests, Sound
  <2>0. None \notin {"conflict", "exhausted"}
    BY DEF CreationInv, Creation!ProvidersAssumption, Creation!Reply
  <2>2. \A slug : Creation!SlugExists(slug)' <=> Creation!SlugExists(slug)
    BY <2>1 DEF Creation!SlugExists, Creation!Providers
  <2>3. \A m \in 1 .. Len(Nth[name]) : m < n => Creation!SlugExists(Nth[name][m])
    BY <2>1 DEF Searched
  <2> HIDE DEF Creation!SlugExists
  <2>4. CASE n > Len(Nth[name]) /\ Creation!Answer(q, "exhausted")
    <3>1. \A m \in 1 .. Len(Nth[name]) : Creation!SlugExists(Nth[name][m])
      BY <2>1, <2>3, <2>4
    <3>2. creation'[q].ask = creation[q].ask /\ creation'[q].pc = "done"
          /\ creation'[q].answer = "exhausted"
      BY <2>4, AnswerEnds
    <3> QED BY <2>2, <3>1, <3>2 DEF Searched
  <2>5. CASE n <= Len(Nth[name]) /\ Creation!SlugExists(Nth[name][n])
             /\ creation' = [creation EXCEPT ![q].attempt = n + 1]
    <3>1. creation'[q].ask = creation[q].ask /\ creation'[q].pc = "resolve"
          /\ creation'[q].attempt = n + 1 /\ creation'[q].answer = None
      BY <1>1, <2>1, <2>5 DEF CreationInv, Requests
    <3>2. \A m \in 1 .. Len(Nth[name]) : m < n + 1 => Creation!SlugExists(Nth[name][m])
      BY <2>1, <2>3, <2>5
    <3> QED BY <2>0, <2>1, <2>2, <3>1, <3>2 DEF Searched
  <2>6. CASE n <= Len(Nth[name]) /\ ~Creation!SlugExists(Nth[name][n])
             /\ creation' = [creation EXCEPT ![q].slug = Nth[name][n], ![q].pc = "insert"]
    <3>1. creation'[q].ask = creation[q].ask /\ creation'[q].pc = "insert"
          /\ creation'[q].slug = Nth[name][n] /\ creation'[q].answer = None
      BY <1>1, <2>1, <2>6 DEF CreationInv, Requests
    <3> QED BY <2>0, <2>1, <2>2, <2>6, <3>1 DEF Searched
  <2> QED BY <1>5, <2>4, <2>5, <2>6 DEF Creation!SlugFree, Creation!Taken
<1>6. ASSUME ~Creation!SlugFree(q), creation'[q].pc \in {"member", "categories"},
             creation'[q].ask = creation[q].ask, creation'[q].slug = creation[q].slug,
             creation'[q].attempt = creation[q].attempt,
             creation'[q].answer = creation[q].answer
      PROVE  Searched(q)'
  BY <1>6, RacedGrows, SearchedStays
<1>7. CASE Creation!CreateProvider(q)
  <2>1. creation[q].pc = "insert" /\ ~Creation!SlugFree(q)
        /\ UNCHANGED <<provider, raced>>
    BY <1>7 DEF Creation!CreateProvider, Creation!SlugFree, Creation!At
  <2>2. CASE Creation!SlugExists(creation[q].slug) /\ Creation!Answer(q, "conflict")
    <3>1. /\ creation'[q].pc = "done" /\ creation'[q].answer = "conflict"
          /\ creation'[q].ask = creation[q].ask /\ creation'[q].slug = creation[q].slug
      BY <2>2, AnswerEnds
    <3>2. Creation!SlugExists(creation[q].slug)' /\ creation[q].slug' = creation[q].slug
      BY <2>2, <3>1, SlugsStay
    <3> QED BY <2>1, <2>2, <3>1, <3>2 DEF Searched
  <2>3. CASE creation' = [creation EXCEPT ![q].pc = "member",
          ![q].row = [ slug |-> creation[q].slug, owner |-> None, categories |-> {} ]]
    BY <1>1, <1>6, <2>1, <2>3 DEF CreationInv, Requests
  <2> QED BY <1>7, <2>2, <2>3 DEF Creation!CreateProvider
<1>8. CASE Creation!AddMember(q)
  <2>1. /\ creation' = [creation EXCEPT ![q].row.owner = creation[q].ask.owner,
                                      ![q].pc = "categories"]
        /\ ~Creation!SlugFree(q)
    BY <1>8 DEF Creation!AddMember, Creation!SlugFree, Creation!At
  <2> QED BY <1>1, <1>6, <2>1 DEF CreationInv, Requests
<1>9. CASE Creation!AddProviderCategory(q)
  <2>1. ~Creation!SlugFree(q) /\ creation[q].pc = "categories"
    BY <1>9 DEF Creation!AddProviderCategory, Creation!SlugFree, Creation!At
  <2>2. CASE Creation!Answer(q, "invalid")
    BY <1>3, <2>1, <2>2
  <2>3. CASE creation' = [creation EXCEPT
          ![q].row.categories = @ \cup {Head(creation[q].left)}, ![q].left = Tail(@)]
    BY <1>1, <1>6, <2>1, <2>3 DEF CreationInv, Requests
  <2> QED BY <1>9, <2>2, <2>3 DEF Creation!AddProviderCategory
<1>10. CASE Creation!Commit(q) \/ Creation!AnswerLost(q)
  <2>1. ~Creation!SlugFree(q)
    BY <1>10, CommittedRow DEF Creation!SlugFree, Creation!At
  <2> QED BY <1>3, <1>10, <2>1, CommittedRow
<1>11. CASE Creation!Fault(q)
  <2>1. CASE ~Creation!SlugFree(q)
    BY <1>3, <1>11, <2>1 DEF Creation!Fault, Creation!Rollback
  <2>2. CASE Creation!SlugFree(q)
    BY <1>5, <2>2
  <2> QED BY <2>1, <2>2
<1> QED BY <1>2, <1>4, <1>5, <1>7, <1>8, <1>9, <1>10, <1>11 DEF Creation!Advance

LEMMA NextSearch ==
  CreationInv /\ SearchInv /\ [Creation!Next]_(Creation!vars) => SearchInv'
<1> SUFFICES ASSUME CreationInv, SearchInv, [Creation!Next]_(Creation!vars),
    NEW q \in Creator PROVE Searched(q)'
  BY DEF SearchInv
<1>1. CASE Creation!Arrive(q) \/ Creation!Advance(q) \/ Creation!Fault(q)
      \/ Creation!AnswerLost(q)
  BY <1>1, SearchStep DEF SearchInv
<1>2. CASE ~(Creation!Arrive(q) \/ Creation!Advance(q) \/ Creation!Fault(q)
      \/ Creation!AnswerLost(q))
  <2>1. creation'[q] = creation[q]
    BY <1>2, OneRequest DEF Creation!Next, Creation!vars, Creation!DeleteCategory
  <2> QED BY <1>2, <2>1, RacedGrows, SearchedStays DEF SearchInv, Creation!Advance
<1> QED BY <1>1, <1>2

LEMMA SpecSearch == Creation!ProvidersAssumption /\ Creation!Spec => []SearchInv
<1>1. ASSUME Creation!ProvidersAssumption, Creation!Init, NEW q \in Creator
             PROVE Searched(q)
  <2>1. creation[q].pc = "idle" /\ creation[q].attempt = 1 /\ creation[q].answer = None
    BY <1>1 DEF Creation!Init, Creation!NoRequest
  <2>2. None \notin {"conflict", "exhausted"}
    BY <1>1 DEF Creation!ProvidersAssumption, Creation!Reply
  <2> QED BY <2>1, <2>2 DEF Searched
<1>2. Creation!ProvidersAssumption /\ Creation!Init => SearchInv
  BY <1>1 DEF SearchInv
<1> QED BY <1>2, NextSearch, SpecTypeInv, PTL DEF Creation!Spec

\* A request that leaves the slug to be found is refused for its slug only if another
\* provider took it after it was found free.
THEOREM RefusedForARace ==
  Creation!ProvidersAssumption /\ Creation!Spec => []Creation!RefusedOnlyIfRaced
<1>1. SearchInv => Creation!RefusedOnlyIfRaced
  BY DEF SearchInv, Searched, Creation!RefusedOnlyIfRaced
<1> QED BY <1>1, SpecSearch, PTL

\* The search is given up only when every derived slug is some provider's, also when
\* they were taken one after the other while it went on.
THEOREM GivenUpWhenFull ==
  Creation!ProvidersAssumption /\ Creation!Spec => []Creation!GivenUpOnlyIfFull
<1>1. SearchInv => Creation!GivenUpOnlyIfFull
  BY DEF SearchInv, Searched, Creation!GivenUpOnlyIfFull
<1> QED BY <1>1, SpecSearch, PTL

\* All of it at once: the rows of a provider are there together or not at all, and what a
\* request is told of its slug is true of the names there were.
THEOREM CreatedAsPromised ==
  Creation!ProvidersAssumption /\ Creation!Spec => []Creation!CreatedWholeAndNamed
<1>1. CreationInv /\ Creation!WholeOrNotAtAll => Creation!TypeOK
  BY DEF CreationInv, Creation!WholeOrNotAtAll, Creation!TypeOK, Creation!Providers,
         Requests, Rows
<1> QED BY <1>1, ProvidersTyped, CreatedWhole, RefusedForARace, GivenUpWhenFull, PTL
        DEF Creation!CreatedWholeAndNamed

-----------------------------------------------------------------------------
(* The two together.                                                       *)

\* However the requests of the two interleave, each of the two runs as it would alone.
THEOREM TenantRunsBoth == TenantSpec => Spec /\ Creation!Spec
<1>1. TenantInit => Init /\ Creation!Init
  BY DEF TenantInit
<1>2. [TenantNext]_<<vars, rows>> => [Next]_vars
  BY DEF TenantNext, vars
<1>3. [TenantNext]_<<vars, rows>> => [Creation!Next]_(Creation!vars)
  BY DEF TenantNext, rows, Creation!vars
<1> QED BY <1>1, <1>2, <1>3, PTL DEF TenantSpec, Spec, Creation!Spec

\* A provider is there as a whole or not at all, and what a request is told of its slug is
\* true of the names there were, whatever creations, deletions and faults overlap.
THEOREM WholeAndNamed == TenantSpec => []CreatedWholeAndNamed
BY TenantRunsBoth, TenantAssumption, CreatedAsPromised, PTL DEF CreatedWholeAndNamed
=============================================================================
