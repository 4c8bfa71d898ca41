------------------------------- MODULE MCLive -------------------------------
(* The waits of Postgres for TLC: reservations that wait for each other's   *)
(* rows, and creations of providers that wait for each other's slugs.  They *)
(* share no variable: a behaviour is of one `part'.                         *)
EXTENDS MCBooking

CONSTANTS Parts,   \* the parts to be checked
          Creator  \* the requests that create providers

VARIABLES part, tenant, category, creation, failures, raced

Names == INSTANCE MCProviders WITH host <- "host"

Creation == INSTANCE Providers WITH
  Category <- { "cars" }, User <- { "host" }, Request <- Creator,
  Asks <- Names!SlugAsks, Nth <- Names!Derived, MaxFaults <- 1,
  provider <- tenant, request <- creation, faults <- failures

ASSUME InputAssumption == Creation!ProvidersAssumption

rows == <<tenant, category, creation, failures, raced>>

MCInit ==
  /\ part \in Parts
  /\ Init
  /\ part = "providers" => Creation!Init /\ \A p \in Provider : provider[p].instant
  /\ part = "booking" =>
       /\ tenant = None /\ category = None /\ creation = None
       /\ failures = None /\ raced = None

BookingNext == part = "booking" /\ Next /\ UNCHANGED <<part, rows>>
ProvidersNext == part = "providers" /\ Creation!Next /\ UNCHANGED <<part, vars>>

\* Fairness is that of the two modules; reservations have not begun, and so have no
\* step to take, in a behaviour of the other part.
MCFairSpec ==
  /\ MCInit /\ [][BookingNext \/ ProvidersNext]_<<vars, part, rows>>
  /\ Fairness
  /\ \A q \in Creator : WF_rows(part = "providers" /\ Creation!Advance(q))

-----------------------------------------------------------------------------

Begun(q) == part = "providers" /\ creation[q].pc # "idle"
Ended(q) == part = "providers" /\ creation[q].pc = "done"

\* Nobody waits for ever for a slug: each creation of a provider is answered.
CreationAnswered == \A q \in Creator : Begun(q) ~> Ended(q)
=============================================================================
