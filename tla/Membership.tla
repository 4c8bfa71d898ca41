----------------------------- MODULE Membership -----------------------------
(***************************************************************************)
(* The members and invitations of one provider (tenant.Service and the     *)
(* RequireOrg middleware before it).  Every HTTP request is a process that *)
(* takes one step per statement, except that a transaction's statements    *)
(* after its first row lock are one step: nobody can act on that row, and  *)
(* the ones that follow are unconditional.                                 *)
(***************************************************************************)
EXTENDS Integers, FiniteSets

CONSTANTS User, Invitation, Request,
          Asks,  \* what the requests may ask for
          None   \* NULL

Role == {"owner", "admin", "staff"}

\* "unknown" is any other string a client may send for a role.
Ask == [ op : {"create", "update", "remove", "invite", "revoke", "accept"},
         actor : User, user : User, role : Role \cup {"unknown"},
         invitation : Invitation ]

ASSUME AskAssumption ==
  Asks \subseteq Ask /\ None \notin Role /\ None \notin Ask /\ None # "OK"

VARIABLES
  account,    \* the users who can sign in
  member,     \* [User -> Role or None]
  invitation, \* [Invitation -> [state, email, role, expired]]
  request     \* [Request -> [pc, ask, stale, answer]]

vars == <<account, member, invitation, request>>

\* roleRank; a role the table does not know ranks 0.
roleRank == [ owner |-> 3, admin |-> 2, staff |-> 1, unknown |-> 0 ]

RoleAtLeast(have, want) ==
  roleRank[have] >= roleRank[want] /\ roleRank[have] > 0

ValidRole(role) == role \in Role

Owners == { u \in User : member[u] = "owner" }

\* Mutant: the guard is off by one.
NoOwnerLeft == Cardinality(Owners) < 1

LastOwner == Cardinality(Owners) <= 1

\* Mutant: an address that is already registered is quietly attached.
NeverRegistered(u) == FALSE

Registered(u) == u \in account

Pending(i) == invitation[i].state = "pending"

\* Mutant: the UPDATE is guarded on the expiry only.
NotExpired(i) == invitation[i].state \in {"pending", "accepted"}

\* WHERE accepted_at IS NULL AND expires_at > now().  The time is that at which the
\* transaction began, before it read the invitation and found it not expired.
StillOpen(i) == Pending(i)

-----------------------------------------------------------------------------
(* `stale' is history, read by no action: the table of members changed     *)
(* after the request had read the membership it is about to change.        *)

NoRequest == [ pc |-> "idle", ask |-> None, stale |-> FALSE, answer |-> None ]

Goto(q, label) == request' = [request EXCEPT ![q].pc = label]

Answer(q, code) ==
  request' = [request EXCEPT ![q].pc = "done", ![q].answer = code]

\* Request q changes the membership of u to role and succeeds.
Change(q, u, role) ==
  /\ member' = [member EXCEPT ![u] = role]
  /\ request' = [p \in Request |->
       IF p = q THEN [request[q] EXCEPT !.pc = "done", !.answer = "OK"]
       ELSE [request[p] EXCEPT !.stale = @ \/ request[p].pc \in {"count", "change"}]]

Arrive(q) ==
  /\ request[q].pc = "idle"
  /\ \E ask \in Asks :
       /\ ask.actor \in account
       /\ request' = [request EXCEPT ![q].ask = ask,
            ![q].pc = IF ask.op = "accept" THEN "invitation" ELSE "org"]
  /\ UNCHANGED <<account, member, invitation>>

\* RequireOrg and RequireOrgRole: the caller's role, read on every request.
RequireOrg(q) ==
  LET ask  == request[q].ask
      held == member[ask.actor]
      minimum == IF ask.op \in {"invite", "revoke"} THEN "admin" ELSE "owner"
      first == CASE ask.op \in {"update", "remove"} -> "membership"
                 [] OTHER                           -> "statement"
  IN
  /\ request[q].pc = "org"
  /\ \/ held = None /\ Answer(q, "NOT_A_MEMBER")
     \/ held # None /\ ~RoleAtLeast(held, minimum) /\ Answer(q, "FORBIDDEN")
     \/ held # None /\ RoleAtLeast(held, minimum) /\ Goto(q, first)
  /\ UNCHANGED <<account, member, invitation>>

-----------------------------------------------------------------------------
(* Members.                                                                *)

\* A login and its membership, in one transaction; never as an owner.
CreateMember(q) ==
  LET ask == request[q].ask IN
  /\ request[q].pc = "statement" /\ ask.op = "create"
  /\ \/ /\ ask.role \notin {"admin", "staff"}
        /\ Answer(q, "VALIDATION")
        /\ UNCHANGED <<account, member>>
     \/ /\ ask.role \in {"admin", "staff"}
        /\ Registered(ask.user)
        /\ Answer(q, "CONFLICT")
        /\ UNCHANGED <<account, member>>
     \/ /\ ask.role \in {"admin", "staff"}
        /\ ~Registered(ask.user)
        /\ account' = account \cup {ask.user}
        /\ Change(q, ask.user, ask.role)
  /\ UNCHANGED invitation

\* The first statement of UpdateMemberRole and of RemoveMember.
GetMembership(q) ==
  LET ask == request[q].ask
      current == member[ask.user]
      invalid == ask.op = "update" /\ ~ValidRole(ask.role)
      loses == /\ current = "owner"
               /\ ask.op = "remove" \/ ask.role # "owner"
  IN
  /\ request[q].pc = "membership"
  /\ \/ invalid /\ Answer(q, "VALIDATION")
     \/ ~invalid /\ current = None /\ Answer(q, "NOT_FOUND")
     \/ ~invalid /\ loses /\ Goto(q, "count")
     \/ ~invalid /\ current # None /\ ~loses /\ Goto(q, "change")
  /\ UNCHANGED <<account, member, invitation>>

CountOwners(q) ==
  /\ request[q].pc = "count"
  /\ \/ LastOwner /\ Answer(q, "CONFLICT")
     \/ ~LastOwner /\ Goto(q, "change")
  /\ UNCHANGED <<account, member, invitation>>

UpdateMemberRole(q) ==
  LET ask == request[q].ask IN
  /\ request[q].pc = "change" /\ ask.op = "update"
  /\ \/ /\ member[ask.user] # None
        /\ Change(q, ask.user, ask.role)
     \/ /\ member[ask.user] = None
        /\ Answer(q, "INTERNAL")
        /\ UNCHANGED member
  /\ UNCHANGED <<account, invitation>>

RemoveMember(q) ==
  LET ask == request[q].ask IN
  /\ request[q].pc = "change" /\ ask.op = "remove"
  /\ \/ /\ member[ask.user] # None
        /\ Change(q, ask.user, None)
     \/ /\ member[ask.user] = None
        /\ Answer(q, "NOT_FOUND")
        /\ UNCHANGED member
  /\ UNCHANGED <<account, invitation>>

-----------------------------------------------------------------------------
(* Invitations.  An identity stands for one row and its token; it is used  *)
(* once, so that Invitation bounds the invitations ever issued.            *)

NoInvitation == [ state |-> "unused", email |-> None, role |-> "staff",
                  expired |-> FALSE ]

Sent(email, role) == [ state |-> "pending", email |-> email, role |-> role,
                       expired |-> FALSE ]

\* One INSERT; at most one pending invitation per address.
CreateInvitation(q) ==
  LET ask == request[q].ask
      taken == \E i \in Invitation : Pending(i) /\ invitation[i].email = ask.user
  IN
  /\ request[q].pc = "statement" /\ ask.op = "invite"
  /\ \/ ~ValidRole(ask.role) /\ Answer(q, "VALIDATION") /\ UNCHANGED invitation
     \/ ValidRole(ask.role) /\ taken /\ Answer(q, "CONFLICT") /\ UNCHANGED invitation
     \/ /\ ValidRole(ask.role) /\ ~taken
        /\ \E i \in Invitation :
             /\ invitation[i].state = "unused"
             /\ invitation' = [invitation EXCEPT ![i] = Sent(ask.user, ask.role)]
        /\ Answer(q, "OK")
  /\ UNCHANGED <<account, member>>

\* One DELETE, of an invitation nobody has accepted.
RevokeInvitation(q) ==
  LET i == request[q].ask.invitation IN
  /\ request[q].pc = "statement" /\ request[q].ask.op = "revoke"
  /\ \/ /\ Pending(i)
        /\ invitation' = [invitation EXCEPT ![i].state = "deleted"]
        /\ Answer(q, "OK")
     \/ ~Pending(i) /\ Answer(q, "NOT_FOUND") /\ UNCHANGED invitation
  /\ UNCHANGED <<account, member>>

\* The invitation that belongs to a token, and the checks made on it.
GetInvitationByTokenHash(q) ==
  LET i == request[q].ask.invitation IN
  /\ request[q].pc = "invitation"
  /\ IF invitation[i].state \in {"unused", "deleted"} THEN Answer(q, "INVALID_TOKEN")
     ELSE IF invitation[i].state = "accepted" THEN Answer(q, "CONFLICT")
     ELSE IF invitation[i].expired THEN Answer(q, "TOKEN_EXPIRED")
     ELSE IF invitation[i].email # request[q].ask.actor THEN Answer(q, "FORBIDDEN")
     ELSE Goto(q, "accept")
  /\ UNCHANGED <<account, member, invitation>>

\* The guarded UPDATE, which locks the row, and AddMember, an upsert.
AcceptInvitation(q) ==
  LET i == request[q].ask.invitation IN
  /\ request[q].pc = "accept"
  /\ \/ /\ StillOpen(i)
        /\ invitation' = [invitation EXCEPT ![i].state = "accepted"]
        /\ Change(q, request[q].ask.actor, invitation[i].role)
     \/ /\ ~StillOpen(i)
        /\ Answer(q, "CONFLICT")
        /\ UNCHANGED <<member, invitation>>
  /\ UNCHANGED account

\* expires_at passes.
Expire(i) ==
  /\ Pending(i) /\ ~invitation[i].expired
  /\ invitation' = [invitation EXCEPT ![i].expired = TRUE]
  /\ UNCHANGED <<account, member, request>>

-----------------------------------------------------------------------------

\* Any membership with at most one pending invitation per address: earlier
\* requests may have left it.
Init ==
  /\ account \in SUBSET User
  /\ member \in [User -> Role \cup {None}]
  /\ { u \in User : member[u] # None } \subseteq account
  /\ invitation \in [Invitation -> {NoInvitation} \cup
                       { Sent(email, role) : email \in User, role \in Role }]
  /\ \A i, j \in Invitation :
       Pending(i) /\ Pending(j) /\ i # j => invitation[i].email # invitation[j].email
  /\ request = [q \in Request |-> NoRequest]

Step(q) ==
  \/ Arrive(q) \/ RequireOrg(q)
  \/ CreateMember(q) \/ GetMembership(q) \/ CountOwners(q)
  \/ UpdateMemberRole(q) \/ RemoveMember(q)
  \/ CreateInvitation(q) \/ RevokeInvitation(q)
  \/ GetInvitationByTokenHash(q) \/ AcceptInvitation(q)

Next == (\E q \in Request : Step(q)) \/ (\E i \in Invitation : Expire(i))

Spec == Init /\ [][Next]_vars

-----------------------------------------------------------------------------
(* Properties.                                                             *)

Code == {"OK", "NOT_A_MEMBER", "FORBIDDEN", "VALIDATION", "CONFLICT", "NOT_FOUND",
         "INTERNAL", "INVALID_TOKEN", "TOKEN_EXPIRED"}

Label == {"idle", "org", "statement", "membership", "count", "change",
          "invitation", "accept", "done"}

\* Every variable holds a value of its kind; in particular no request, however
\* it is timed, gives anybody a role that is not one of the three.
TypeOK ==
  /\ account \subseteq User
  /\ member \in [User -> Role \cup {None}]
  /\ invitation \in [Invitation ->
       [ state : {"unused", "pending", "accepted", "deleted"},
         email : User \cup {None}, role : Role, expired : BOOLEAN ]]
  /\ request \in [Request ->
       [ pc : Label, ask : Asks \cup {None}, stale : BOOLEAN,
         answer : Code \cup {None} ]]

HasOwner == Owners # {}

\* "A provider must keep at least one owner" (UpdateMemberRole, RemoveMember).
OwnerKept == [][HasOwner => HasOwner']_member

\* What the count does guarantee.  A provider loses its last owner only by a
\* request that overlapped another's change of the members, or by an owner who
\* accepts an invitation to a lower role.
OwnerKeptUnlessRaced ==
  [][HasOwner /\ ~HasOwner' =>
       \E q \in Request :
         /\ request'[q] # request[q]
         /\ \/ request[q].pc = "change" /\ request[q].stale
            \/ request[q].pc = "accept"]_vars

Joined(i) ==
  { q \in Request : /\ request[q].answer = "OK"
                    /\ request[q].ask.op = "accept"
                    /\ request[q].ask.invitation = i }

\* However acceptances, revocations and the expiry interleave, an accepted
\* invitation has let in exactly one request, and any other invitation none.
InvitationJoinsOne ==
  \A i \in Invitation :
    /\ \A p, q \in Joined(i) : p = q
    /\ Joined(i) # {} <=> invitation[i].state = "accepted"

\* "Joining an org is the account holder's decision, not the owner's": who has
\* an account becomes a member only by accepting an invitation, whatever an
\* owner's requests read before they write.
JoiningIsOwnDecision ==
  [][\A u \in account :
       member[u] = None /\ member'[u] # None =>
         \E q \in Request : /\ request'[q] # request[q]
                            /\ request[q].pc = "accept"
                            /\ request[q].ask.actor = u]_vars
=============================================================================
