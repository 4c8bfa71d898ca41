------------------------------ MODULE MCTenant ------------------------------
(* The tenants for TLC: the members of a provider, and the creation of      *)
(* providers.  They share no variable, so that interleaving them shows no   *)
(* more than either does: in a behaviour only one `part' moves.             *)
EXTENDS Tenant, MCMembership

CONSTANTS Parts \* the parts to be checked

VARIABLES part

Names == INSTANCE MCProviders WITH host <- u1

Categories == { "cars", "pets" }
CreationAsks == Names!AllAsks
Derived == Names!Derived

MCInit ==
  /\ part \in Parts
  /\ TenantInit
  /\ part # "members" =>
       account = {} /\ \A i \in Invitation : invitation[i] = NoInvitation

MembersNext == part = "members" /\ Next /\ UNCHANGED <<part, rows>>
ProvidersNext == part = "providers" /\ Creation!Next /\ UNCHANGED <<part, vars>>

MCNext == MembersNext \/ ProvidersNext

MCSpec == MCInit /\ [][MCNext]_<<vars, rows, part>>

AnyRequest == Symmetry \cup Permutations(Creator)
=============================================================================
