---------------------------- MODULE MCMembership ----------------------------
(* Instances of Membership for TLC.                                        *)
EXTENDS Membership, TLC

CONSTANTS u1, u2, i1

\* What a request does not use is filled in with u1, "unknown" and i1.
Of(op, actor, user, role, i) ==
  [ op |-> op, actor |-> actor, user |-> user, role |-> role, invitation |-> i ]

Updates(roles) == { Of("update", a, u, r, i1) : a \in User, u \in User, r \in roles }
Removals == { Of("remove", a, u, "unknown", i1) : a \in User, u \in User }
Acceptances == { Of("accept", a, u1, "unknown", i) : a \in User, i \in Invitation }
Revocations == { Of("revoke", a, u1, "unknown", i) : a \in User, i \in Invitation }
Hirings == { Of("create", a, u, r, i1) :
               a \in User, u \in User, r \in {"owner", "admin"} }
Invites == { Of("invite", a, u, r, i1) :
               a \in User, u \in User, r \in {"staff", "unknown"} }

\* Everything at once; and what concerns the owners alone.
AllAsks == Updates({"staff", "owner", "unknown"}) \cup Removals \cup Acceptances
             \cup Revocations \cup Hirings \cup Invites
OwnerAsks == Updates({"staff", "owner"}) \cup Removals

Symmetry == Permutations(Request)
=============================================================================
