------------------------------- MODULE Growth -------------------------------
(***************************************************************************)
(* The figures above a provider's services (Catalog.CatalogStats): four    *)
(* statements without a transaction, and a window of months filled in by   *)
(* the process from its own clock.  Services come and go, and a month may  *)
(* end, between any two of them.  All clocks are UTC and agree.            *)
(***************************************************************************)
EXTENDS Integers, FiniteSets, FiniteSetsExt

CONSTANTS Row, Category,
          Catalogs, \* what the table services may hold at the start
          Window,   \* growthWindowMonths
          MaxEdits, \* bound on services created and deleted
          MaxTicks, \* bound on months that end
          None

\* created: the month of created_at.
Service == [ created : Nat, active : BOOLEAN, category : Category ]

GrowthAssumption ==
  /\ Catalogs \subseteq [Row -> Service \cup {None}]
  /\ Window \in Nat /\ MaxEdits \in Nat /\ MaxTicks \in Nat
  /\ None \notin Service

\* The month in which a behaviour begins.
FirstMonth == Window + 2

VARIABLES services, now, request, edits

vars == <<services, now, request, edits>>

-----------------------------------------------------------------------------
Rows == { r \in Row : services[r] # None }

Total(rows) == Cardinality(rows)

\* deleted, moved, ticked: history, what has happened since the request began.
NoRequest == [ pc |-> "idle", total |-> 0, active |-> 0, hidden |-> 0, counts |-> None,
               prior |-> 0, monthly |-> None, months |-> <<>>, deleted |-> FALSE,
               moved |-> FALSE, ticked |-> FALSE ]

\* ServiceCatalogStats.
Stats ==
  LET active == Cardinality({ r \in Rows : services[r].active }) IN
  /\ request.pc = "idle"
  /\ request' = [NoRequest EXCEPT !.pc = "categories", !.total = Total(Rows),
                                  !.active = active, !.hidden = Total(Rows) - active]
  /\ UNCHANGED <<services, now, edits>>

\* GROUP BY category: a category without services has no row.
CountByCategory ==
  LET counted == { services[r].category : r \in Rows } IN
  /\ request.pc = "categories"
  /\ request' = [request EXCEPT !.pc = "prior", !.counts =
       [ c \in counted |-> Cardinality({ r \in Rows : services[r].category = c }) ]]
  /\ UNCHANGED <<services, now, edits>>

\* Mutant: the first month of the window is counted as before it.
CreatedUpTo(start) == { r \in Rows : services[r].created <= start }

\* created_at < date_trunc('month', now()) - make_interval(months => $2)
CreatedBefore(start) == { r \in Rows : services[r].created < start }

CountPrior ==
  /\ request.pc = "prior"
  /\ request' = [request EXCEPT !.pc = "monthly",
                                !.prior = Total(CreatedBefore(now - Window))]
  /\ UNCHANGED <<services, now, edits>>

\* A month in which nothing was added returns no row.
AddedByMonth ==
  LET recent == { r \in Rows : services[r].created >= now - Window } IN
  /\ request.pc = "monthly"
  /\ request' = [request EXCEPT !.pc = "fill", !.monthly =
       [ m \in { services[r].created : r \in recent } |->
           Cardinality({ r \in recent : services[r].created = m }) ]]
  /\ UNCHANGED <<services, now, edits>>

Added(month) == IF month \in DOMAIN request.monthly THEN request.monthly[month] ELSE 0

\* One figure for each month from the start of the window to the current one.
Filled(start) == [ i \in 1..Window + 1 |-> Added(start + i - 1) ]

Fill ==
  /\ request.pc = "fill"
  /\ request' = [request EXCEPT !.pc = "done", !.months = Filled(now - Window)]
  /\ UNCHANGED <<services, now, edits>>

Create(r, active, category) ==
  /\ edits < MaxEdits /\ services[r] = None
  /\ services' = [services EXCEPT ![r] =
                    [ created |-> now, active |-> active, category |-> category ]]
  /\ request' = [request EXCEPT !.moved = TRUE]
  /\ edits' = edits + 1
  /\ UNCHANGED now

Delete(r) ==
  /\ edits < MaxEdits /\ r \in Rows
  /\ services' = [services EXCEPT ![r] = None]
  /\ request' = [request EXCEPT !.moved = TRUE, !.deleted = TRUE]
  /\ edits' = edits + 1
  /\ UNCHANGED now

\* Midnight of the first of the next month.
Tick ==
  /\ now < FirstMonth + MaxTicks
  /\ now' = now + 1
  /\ request' = [request EXCEPT !.ticked = TRUE]
  /\ UNCHANGED <<services, edits>>

Init ==
  /\ services \in Catalogs
  /\ now = FirstMonth /\ edits = 0
  /\ request = NoRequest

Next ==
  \/ Stats \/ CountByCategory \/ CountPrior \/ AddedByMonth \/ Fill \/ Tick
  \/ \E r \in Row, active \in BOOLEAN, category \in Category : Create(r, active, category)
  \/ \E r \in Row : Delete(r)

Spec == Init /\ [][Next]_vars

-----------------------------------------------------------------------------
(* Properties.                                                             *)

\* Rows and figures are of their types.
TypeOK ==
  /\ services \in [Row -> Service \cup {None}]
  /\ now \in FirstMonth .. FirstMonth + MaxTicks /\ edits \in 0..MaxEdits
  /\ request.pc \in {"idle", "categories", "prior", "monthly", "fill", "done"}
  /\ request.pc = "done" => request.months \in [1..Window + 1 -> 0..Cardinality(Row)]

Sum(f) == FoldSet(LAMBDA x, sum : sum + f[x], 0, DOMAIN f)

\* The end of the running total that the client draws.
Drawn == request.prior + Sum(request.months)

\* While no service comes or goes and no month ends, the four answers describe the same
\* catalog: the categories, the hidden and the active, and the running total add up.
AddsUp ==
  request.pc = "done" /\ ~request.moved /\ ~request.ticked =>
    /\ Drawn = request.total
    /\ Sum(request.counts) = request.total
    /\ request.active + request.hidden = request.total

\* Services created meanwhile can only be ahead in the later figures, never missing.
NeverBehind ==
  request.pc = "done" /\ ~request.deleted /\ ~request.ticked =>
    /\ Drawn >= request.total
    /\ Sum(request.counts) >= request.total
=============================================================================
