------------------------------- MODULE Tenant -------------------------------
(***************************************************************************)
(* tenant.Service as a whole: the members and invitations of one provider  *)
(* and, beside them, the requests that create providers.  The two write    *)
(* different tables, and their statements interleave as they like.         *)
(***************************************************************************)
EXTENDS Membership

CONSTANTS Category,
          Creator,   \* the requests that create providers
          Creations, \* what they may ask for
          Nth,       \* the slugs derived from each name
          MaxFaults  \* bound: statements and commits of theirs that fail

VARIABLES provider, category, creation, faults, raced

Creation == INSTANCE Providers WITH
  Request <- Creator, Asks <- Creations, request <- creation

ASSUME TenantAssumption == Creation!ProvidersAssumption

rows == <<provider, category, creation, faults, raced>>

TenantInit == Init /\ Creation!Init

TenantNext ==
  \/ Next /\ UNCHANGED rows
  \/ Creation!Next /\ UNCHANGED vars

TenantSpec == TenantInit /\ [][TenantNext]_<<vars, rows>>

-----------------------------------------------------------------------------
\* A provider is there with its owner and its categories, which exist, or not at all.
\* A derived slug is refused only if another provider took it since it was free, and
\* the search is given up only when every derived slug is some provider's.
CreatedWholeAndNamed == Creation!CreatedWholeAndNamed
=============================================================================
