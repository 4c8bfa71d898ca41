------------------------------ MODULE Booking ------------------------------
(***************************************************************************)
(* The reservation engine: booking.Service over the Postgres table         *)
(* bookings, together with the rows it reads (services, providers,         *)
(* resources) and the availability cache it invalidates.                   *)
(*                                                                         *)
(* Every HTTP request is a process that takes one step per statement it    *)
(* sends to the database, so that requests interleave exactly where        *)
(* READ COMMITTED lets them.  One day of one calendar is modelled; times   *)
(* and durations are natural numbers counted in slot units.                *)
(***************************************************************************)
EXTENDS Integers, FiniteSets, Lifecycle

CONSTANTS
  Request,    \* reservation requests; a request's booking carries its name
  Mover,      \* requests that apply a lifecycle event to a booking
  Lister,     \* requests that browse availability
  Service, Provider, Customer, Code,
  Resource,   \* bays: numbers, in the order in which their ids sort
  Owner,      \* Owner[s]: the provider that owns service s
  BayOwner,   \* BayOwner[b]: the provider that owns resource b
  Performs,   \* pairs <<s, b>>: resource b is attached to service s
  Opens, Closes, Step, \* resource b works in [Opens[b], Closes[b]), on a grid
  Minutes,    \* the durations (options and buffer included) a service can have
  Inputs,     \* the reservation requests that may be submitted
  MaxEdits,   \* bound on the edits staff make to the catalog and the resources
  MaxFaults,  \* bound on statements that fail or lose their answer
  None        \* NULL

Start == { in.start : in \in Inputs }

\* customer is None for a walk-in, org is None for a customer's own request,
\* resource is the bay a walk-in may ask for.
Input == [ service : Service, start : Nat, customer : Customer \cup {None},
           org : Provider \cup {None}, resource : Resource \cup {None} ]

\* A row of the table bookings, without the columns no property tells apart.
Row == [ provider : Provider, service : Service \cup {None},
         resource : Resource, customer : Customer \cup {None},
         start : Nat, end : Nat, status : Status, code : Code,
         cancelledBy : {"customer", "provider", "nobody"} ]

ASSUME SetAssumption ==
  /\ Resource \subseteq Nat
  /\ Minutes \subseteq Nat \ {0}
  /\ Inputs \subseteq Input
  /\ None \notin Row
  /\ None \notin [ resource : Resource, start : Nat, end : Nat, status : Status ]
  /\ None \notin Resource \cup Provider \cup Customer \cup Service

ASSUME CalendarAssumption ==
  /\ Owner \in [Service -> Provider]
  /\ BayOwner \in [Resource -> Provider]
  /\ Performs \subseteq Service \X Resource
  /\ Opens \in [Resource -> Nat]
  /\ Closes \in [Resource -> Nat]
  /\ Step \in Nat \ {0}

ASSUME BoundAssumption == MaxEdits \in Nat /\ MaxFaults \in Nat

maxAttempts == 3

VARIABLES
  service,    \* [Service -> [state, minutes]]
  provider,   \* [Provider -> [status, instant]]
  resource,   \* [Resource -> {"active", "inactive", "deleted"}]
  bookings,   \* committed rows, by the request that made them
  tuple,      \* rows inserted by a transaction that has not committed
  pc, local,  \* control point and local variables of a reservation request
  mover,      \* the lifecycle requests
  lister,     \* the browsing requests
  cache,      \* [Service -> cached slot list or None]
  edits, faults

tables == <<service, provider, resource>>
vars == <<service, provider, resource, bookings, tuple, pc, local, mover,
          lister, cache, edits, faults>>

-----------------------------------------------------------------------------
(* Slots.                                                                  *)

Overlap(a, b) == a.start < b.end /\ b.start < a.end

\* Mutant: the WHERE clause of the constraint forgets pending rows.
ConflictNotPending(a, b) ==
  /\ a.resource = b.resource
  /\ a.status \in {"confirmed", "in_progress"}
  /\ b.status \in {"confirmed", "in_progress"}
  /\ Overlap(a, b)

Conflict(a, b) ==
  /\ a.resource = b.resource
  /\ IsActive(a.status)
  /\ IsActive(b.status)
  /\ Overlap(a, b)

Booked == { r \in Request : bookings[r] # None }

\* ListBusyIntervals and overlapsAny: an active committed booking of bay b
\* intersects [from, to).
Busy(b, from, to) ==
  \E q \in Booked :
    /\ bookings[q].resource = b
    /\ IsActive(bookings[q].status)
    /\ bookings[q].start < to /\ from < bookings[q].end

\* A position of the grid at which the whole service fits before closing.
Fits(b, start, minutes) ==
  /\ start >= Opens[b]
  /\ (start - Opens[b]) % Step = 0
  /\ start + minutes <= Closes[b]

OnGrid(bays, start, minutes) == \E b \in bays : Fits(b, start, minutes)

\* Mutant: the hours of one bay stand for those of all.
FreeIfAnyFits(bays, start, minutes) ==
  { b \in bays : OnGrid(bays, start, minutes) /\ ~Busy(b, start, start + minutes) }

FreeBays(bays, start, minutes) ==
  { b \in bays : Fits(b, start, minutes) /\ ~Busy(b, start, start + minutes) }

\* The slot list of GenerateSlots, as a set of pairs <<start, bay>>.
GenerateSlots(bays, minutes) ==
  { slot \in Start \X Resource :
      slot[2] \in FreeBays(bays, slot[1], minutes) }

\* ListResourcesForService.
BaysFor(s) == { b \in Resource : <<s, b>> \in Performs /\ resource[b] = "active" }

\* How long the scheduler takes a booking of the service to occupy its bay.
TotalDuration(s) == service[s].minutes

\* Why a service cannot be booked at this moment, or None.
Unbookable(s) ==
  IF service[s].state = "deleted" THEN "NOT_FOUND"
  ELSE IF service[s].state = "inactive" THEN "SERVICE_INACTIVE"
  ELSE IF provider[Owner[s]].status # "active" THEN "PROVIDER_INACTIVE"
  ELSE None

-----------------------------------------------------------------------------
(* The availability cache.  `raced' is history, read by no action: an      *)
(* invalidation fell between a fill's first read and its put.              *)

InvalidateProvider(p) ==
  /\ cache' = [s \in Service |-> IF Owner[s] = p THEN None ELSE cache[s]]
  /\ lister' = [l \in Lister |->
       IF lister[l].pc # "idle" /\ Owner[lister[l].service] = p
       THEN [lister[l] EXCEPT !.raced = TRUE] ELSE lister[l]]

-----------------------------------------------------------------------------
(* Reservation requests.                                                   *)

Goto(r, label) == pc' = [pc EXCEPT ![r] = label]

Answer(r, code) ==
  /\ Goto(r, "done")
  /\ local' = [local EXCEPT ![r].answer = code]

\* `gaveUp' is history, read by no action: the bays left after maxAttempts
\* deadlocks.
NoLocal == [ in |-> None, provider |-> None, end |-> 0, status |-> "pending",
             minutes |-> 0, bays |-> {}, cands |-> {}, code |-> None,
             attempt |-> 0, gaveUp |-> {}, err |-> "none", answer |-> None ]

Submit(r) ==
  /\ pc[r] = "idle"
  /\ \E in \in Inputs : local' = [local EXCEPT ![r].in = in]
  /\ Goto(r, "service")
  /\ UNCHANGED <<tables, bookings, tuple, mover, lister, cache, edits, faults>>

\* First read: the service with its provider, and the quote.
GetServiceWithProvider(r) ==
  LET s == local[r].in.service IN
  /\ pc[r] = "service"
  /\ \/ Unbookable(s) # None /\ Answer(r, Unbookable(s))
     \/ /\ Unbookable(s) = None
        /\ local' = [local EXCEPT
             ![r].provider = Owner[s],
             ![r].end = local[r].in.start + service[s].minutes,
             ![r].status = IF provider[Owner[s]].instant THEN "confirmed"
                                                          ELSE "pending"]
        /\ Goto(r, "slots")
  /\ UNCHANGED <<tables, bookings, tuple, mover, lister, cache, edits, faults>>

\* Second read: the scheduler resolves the service again, on its own, and
\* lists the resources that can perform it.
ResolveScheduling(r) ==
  LET s == local[r].in.service IN
  /\ pc[r] = "slots"
  /\ \/ Unbookable(s) # None /\ Answer(r, Unbookable(s))
     \/ /\ Unbookable(s) = None
        /\ local' = [local EXCEPT ![r].minutes = TotalDuration(s),
                                  ![r].bays = BaysFor(s)]
        /\ Goto(r, "busy")
  /\ UNCHANGED <<tables, bookings, tuple, mover, lister, cache, edits, faults>>

\* Third read: the busy intervals; the requested start must be one of the
\* generated ones, and a bay the request names must be free at it.
ResourcesForStart(r) ==
  LET in == local[r].in
      bays == local[r].bays
      wanted == IF in.resource = None THEN Resource ELSE {in.resource}
      cands == FreeBays(bays, in.start, local[r].minutes) \cap wanted
      onGrid == OnGrid(bays, in.start, local[r].minutes)
  IN
  /\ pc[r] = "busy"
  /\ \/ ~onGrid /\ Answer(r, "OUTSIDE_HOURS")
     \/ onGrid /\ cands = {} /\ Answer(r, "SLOT_TAKEN")
     \/ /\ onGrid /\ cands # {}
        /\ local' = [local EXCEPT ![r].cands = cands, ![r].attempt = 0]
        /\ Goto(r, "code")
  /\ UNCHANGED <<tables, bookings, tuple, mover, lister, cache, edits, faults>>

-----------------------------------------------------------------------------
(* insertOnce: one transaction.  Postgres puts the new tuple into the      *)
(* index of bookings_no_overlap first and looks for conflicts afterwards;  *)
(* a conflict with a tuple of a running transaction makes it wait.         *)

UsedCodes == { bookings[q].code : q \in Booked }

\* The requests whose transaction has inserted a tuple and not yet ended.
Open == { r \in Request : tuple[r] # None }

\* Candidates are walked in the order of their ids.
Bay(r) == CHOOSE b \in local[r].cands : \A c \in local[r].cands : b <= c

NewRow(r) ==
  [ provider |-> local[r].provider, service |-> local[r].in.service,
    resource |-> Bay(r), customer |-> local[r].in.customer,
    start |-> local[r].in.start, end |-> local[r].end,
    status |-> local[r].status, code |-> local[r].code,
    cancelledBy |-> "nobody" ]

Fail(r, err) ==
  /\ local' = [local EXCEPT ![r].err = err]
  /\ Goto(r, "failed")

Rollback(r, err) ==
  /\ tuple' = [tuple EXCEPT ![r] = None]
  /\ Fail(r, err)

\* Draw codes until one is not in the table; five draws may all be in use.
ReserveCode(r) ==
  /\ pc[r] = "code"
  /\ \/ /\ \E c \in Code \ UsedCodes : local' = [local EXCEPT ![r].code = c]
        /\ Goto(r, "insert")
     \/ UsedCodes # {} /\ Fail(r, "codes_exhausted")
  /\ UNCHANGED <<tables, bookings, tuple, mover, lister, cache, edits, faults>>

\* The tuple enters the heap and the unique index on code.
InsertTuple(r) ==
  /\ pc[r] = "insert"
  /\ local[r].code \notin { tuple[q].code : q \in Open }
  /\ \/ /\ local[r].code \in UsedCodes
        /\ Fail(r, "unique_violation")
        /\ UNCHANGED tuple
     \/ /\ local[r].code \notin UsedCodes
        /\ tuple' = [tuple EXCEPT ![r] = NewRow(r)]
        /\ Goto(r, "check")
        /\ UNCHANGED local
  /\ UNCHANGED <<tables, bookings, mover, lister, cache, edits, faults>>

\* The running transactions whose tuples conflict with r's.
WaitsFor(r) ==
  { q \in Open \ {r} : Conflict(tuple[q], tuple[r]) }

\* Mutant: the columns carry no foreign keys.
ReferencesUnchecked(row) == TRUE

ReferencesExist(row) ==
  resource[row.resource] # "deleted" /\ service[row.service].state # "deleted"

\* The constraint bookings_no_overlap, then the foreign keys.
CheckConstraints(r) ==
  LET taken == \E q \in Booked : Conflict(bookings[q], tuple[r]) IN
  /\ pc[r] = "check"
  /\ \/ taken /\ Rollback(r, "exclusion_violation")
     \/ /\ ~taken /\ WaitsFor(r) = {}
        /\ ~ReferencesExist(tuple[r])
        /\ Rollback(r, "foreign_key_violation")
     \/ /\ ~taken /\ WaitsFor(r) = {}
        /\ ReferencesExist(tuple[r])
        /\ Goto(r, "options")
        /\ UNCHANGED <<tuple, local>>
  /\ UNCHANGED <<tables, bookings, mover, lister, cache, edits, faults>>

\* The UPDATE of a booking that stays active is checked like an insertion: it waits
\* for r, which holds a slot that overlaps it, and r waits for the row it has locked.
Crossing(m, r) ==
  /\ mover[m].pc = "update" /\ pc[r] = "check"
  /\ bookings[mover[m].booking].status = mover[m].from /\ IsActive(mover[m].to)
  /\ Conflict(bookings[mover[m].booking], tuple[r])

\* Two inserters, or one and a transition, wait for each other and the detector picks
\* r as the victim.
DeadlockDetected(r) ==
  /\ pc[r] = "check"
  /\ \/ \E q \in WaitsFor(r) : pc[q] = "check"
     \/ \E m \in Mover : Crossing(m, r)
  /\ Rollback(r, "deadlock_detected")
  /\ UNCHANGED <<tables, bookings, mover, lister, cache, edits, faults>>

\* Mutant: the transaction ends without a COMMIT.
CommitForgotten(r) ==
  /\ pc[r] = "options"
  /\ tuple' = [tuple EXCEPT ![r] = None]
  /\ Goto(r, "invalidate")
  /\ UNCHANGED <<tables, bookings, local, mover, lister, cache, edits, faults>>

\* The option snapshot is written and the transaction commits.
Commit(r) ==
  /\ pc[r] = "options"
  /\ bookings' = [bookings EXCEPT ![r] = tuple[r]]
  /\ tuple' = [tuple EXCEPT ![r] = None]
  /\ Goto(r, "invalidate")
  /\ UNCHANGED <<tables, local, mover, lister, cache, edits, faults>>

-----------------------------------------------------------------------------

\* Mutant: the loser of the first bay is refused.
NextBayGivesUp(r) == Answer(r, "SLOT_TAKEN")

\* insertBooking: go on to the next candidate, if there is one.
NextBay(r) ==
  LET rest == local[r].cands \ {Bay(r)}
      left == IF local[r].err = "deadlock_detected" THEN {Bay(r)} ELSE {}
  IN
  \/ /\ rest = {}
     /\ local' = [local EXCEPT ![r].gaveUp = @ \cup left,
                               ![r].answer = "SLOT_TAKEN"]
     /\ Goto(r, "done")
  \/ /\ rest # {}
     /\ local' = [local EXCEPT ![r].gaveUp = @ \cup left,
                               ![r].cands = rest, ![r].attempt = 0]
     /\ Goto(r, "code")

\* Mutant: attempts are counted but never run out.
TryResourceUncapped(r) ==
  /\ pc[r] = "failed"
  /\ local' = [local EXCEPT ![r].attempt = @ + 1]
  /\ Goto(r, "code")
  /\ UNCHANGED <<tables, bookings, tuple, mover, lister, cache, edits, faults>>

\* Mutant: every failure is retried on the same bay, uncounted.
TryResourceSameBay(r) ==
  /\ pc[r] = "failed"
  /\ Goto(r, "code")
  /\ UNCHANGED <<tables, bookings, tuple, local, mover, lister, cache, edits, faults>>

\* Mutant: the victim of a deadlock is not tried again.
TryResourceOnce(r) ==
  /\ pc[r] = "failed"
  /\ \/ local[r].err = "exclusion_violation" /\ NextBay(r)
     \/ local[r].err # "exclusion_violation" /\ Answer(r, "INTERNAL")
  /\ UNCHANGED <<tables, bookings, tuple, mover, lister, cache, edits, faults>>

\* What a rolled-back insert means: another bay, another try, or a 500.
TryResource(r) ==
  /\ pc[r] = "failed"
  /\ \/ local[r].err = "exclusion_violation" /\ NextBay(r)
     \/ /\ local[r].err = "deadlock_detected"
        /\ local[r].attempt = maxAttempts - 1
        /\ NextBay(r)
     \/ /\ local[r].err = "deadlock_detected"
        /\ local[r].attempt < maxAttempts - 1
        /\ local' = [local EXCEPT ![r].attempt = @ + 1]
        /\ Goto(r, "code")
     \/ /\ local[r].err \notin {"exclusion_violation", "deadlock_detected"}
        /\ Answer(r, "INTERNAL")
  /\ UNCHANGED <<tables, bookings, tuple, mover, lister, cache, edits, faults>>

\* The tail of Create, and the check createWalkIn makes on what it returned.
FinishCreate(r) ==
  LET org == local[r].in.org IN
  /\ pc[r] = "invalidate"
  /\ InvalidateProvider(local[r].provider)
  /\ Answer(r, IF org # None /\ org # local[r].provider THEN "FORBIDDEN"
                                                        ELSE "CREATED")
  /\ UNCHANGED <<tables, bookings, tuple, mover, edits, faults>>

\* A statement fails, the connection drops or the caller gives up: the
\* transaction, if any, is rolled back and the request answers 500.
Fault(r) ==
  /\ pc[r] \in {"service", "slots", "busy", "code", "insert", "check",
                "options", "failed"}
  /\ faults < MaxFaults
  /\ faults' = faults + 1
  /\ tuple' = [tuple EXCEPT ![r] = None]
  /\ local' = [local EXCEPT ![r].answer = "INTERNAL", ![r].err = "fault"]
  /\ Goto(r, "done")
  /\ UNCHANGED <<tables, bookings, mover, lister, cache, edits>>

\* COMMIT takes effect but its answer is lost: the row is there, the request
\* answers 500 and never reaches the invalidation.
CommitAnswerLost(r) ==
  /\ pc[r] = "options"
  /\ faults < MaxFaults
  /\ faults' = faults + 1
  /\ bookings' = [bookings EXCEPT ![r] = tuple[r]]
  /\ tuple' = [tuple EXCEPT ![r] = None]
  /\ local' = [local EXCEPT ![r].answer = "INTERNAL", ![r].err = "fault"]
  /\ Goto(r, "done")
  /\ UNCHANGED <<tables, mover, lister, cache, edits>>

-----------------------------------------------------------------------------
(* Lifecycle requests: the provider's transition handler and the           *)
(* customer's cancellation.                                                *)

NoMove == [ pc |-> "idle", booking |-> None, from |-> "pending",
            to |-> "pending", answer |-> None ]

\* A caller owns a booking through the organization or as its customer.
Owns(by, event, row) ==
  IF event = "cancel_by_customer" THEN by = row.customer ELSE by = row.provider

\* GetForProvider or CancelAsCustomer, then the read of Transition.
ReadBooking(m) ==
  /\ mover[m].pc = "idle"
  /\ \E b \in Booked, event \in Event, by \in Customer \cup Provider :
       LET row == bookings[b]
           reply(code) == mover' = [mover EXCEPT
             ![m].pc = "done", ![m].booking = b, ![m].answer = code]
       IN
       \/ ~Owns(by, event, row) /\ reply("NOT_FOUND")
       \/ /\ Owns(by, event, row)
          /\ NextStatus(row.status, event) = {}
          /\ reply("INVALID_TRANSITION")
       \/ /\ Owns(by, event, row)
          /\ \E to \in NextStatus(row.status, event) :
               mover' = [mover EXCEPT ![m].pc = "update", ![m].booking = b,
                                      ![m].from = row.status, ![m].to = to]
  /\ UNCHANGED <<tables, bookings, tuple, pc, local, lister, cache, edits, faults>>

\* Mutant: the UPDATE is not guarded on the status that was read.
MatchesAnyRow(m) == TRUE

\* WHERE id = ... AND status = from_status.
MatchesRow(m) == bookings[mover[m].booking].status = mover[m].from

SetStatus(m) ==
  bookings' = [bookings EXCEPT
    ![mover[m].booking].status = mover[m].to,
    ![mover[m].booking].cancelledBy = CancelledBy(mover[m].to)]

\* Mutant: only what becomes active changes what is free.
FreesNothing(from, to) == ~IsActive(from) /\ IsActive(to)

FreesSlot(from, to) == IsActive(from) /\ ~IsActive(to)

\* The guarded UPDATE.  A booking that stops occupying its resource goes on
\* to invalidate the cache.
TransitionBooking(m) ==
  /\ mover[m].pc = "update"
  /\ \/ /\ MatchesRow(m)
        /\ SetStatus(m)
        /\ mover' = [mover EXCEPT
             ![m].pc = IF FreesSlot(mover[m].from, mover[m].to)
                       THEN "invalidate" ELSE "done",
             ![m].answer = "OK"]
     \/ /\ ~MatchesRow(m)
        /\ mover' = [mover EXCEPT ![m].pc = "done",
                                  ![m].answer = "INVALID_TRANSITION"]
        /\ UNCHANGED bookings
     \/ /\ \E r \in Request : Crossing(m, r) \* and m is the victim
        /\ mover' = [mover EXCEPT ![m].pc = "done", ![m].answer = "INTERNAL"]
        /\ UNCHANGED bookings
  /\ UNCHANGED <<tables, tuple, pc, local, lister, cache, edits, faults>>

FinishTransition(m) ==
  /\ mover[m].pc = "invalidate"
  /\ InvalidateProvider(bookings[mover[m].booking].provider)
  /\ mover' = [mover EXCEPT ![m].pc = "done"]
  /\ UNCHANGED <<tables, bookings, tuple, pc, local, edits, faults>>

\* The UPDATE fails, or it takes effect and what follows it (its answer, or
\* the read of the booking's options) fails before the handler can reply.
TransitionFault(m) ==
  /\ mover[m].pc = "update"
  /\ faults < MaxFaults
  /\ faults' = faults + 1
  /\ mover' = [mover EXCEPT ![m].pc = "done", ![m].answer = "INTERNAL"]
  /\ \/ UNCHANGED bookings
     \/ MatchesRow(m) /\ SetStatus(m)
  /\ UNCHANGED <<tables, tuple, pc, local, lister, cache, edits>>

-----------------------------------------------------------------------------
(* Browsing.  A hit and an unbookable service change nothing and are left  *)
(* out; a miss reads resources, then busy intervals, then fills the cache. *)

NoListing == [ pc |-> "idle", service |-> None, minutes |-> 0, bays |-> {},
               free |-> {}, raced |-> FALSE ]

ListResources(l) ==
  /\ lister[l].pc = "idle"
  /\ \E s \in Service :
       /\ Unbookable(s) = None
       /\ cache[s] = None
       /\ BaysFor(s) # {}
       /\ lister' = [lister EXCEPT
            ![l] = [NoListing EXCEPT !.pc = "busy", !.service = s,
                      !.minutes = TotalDuration(s), !.bays = BaysFor(s)]]
  /\ UNCHANGED <<tables, bookings, tuple, pc, local, mover, cache, edits, faults>>

ListBusyIntervals(l) ==
  /\ lister[l].pc = "busy"
  /\ lister' = [lister EXCEPT ![l].pc = "put",
       ![l].free = GenerateSlots(lister[l].bays, lister[l].minutes)]
  /\ UNCHANGED <<tables, bookings, tuple, pc, local, mover, cache, edits, faults>>

CachePut(l) ==
  /\ lister[l].pc = "put"
  /\ cache' = [cache EXCEPT ![lister[l].service] =
       [free |-> lister[l].free, raced |-> lister[l].raced]]
  /\ lister' = [lister EXCEPT ![l] = NoListing]
  /\ UNCHANGED <<tables, bookings, tuple, pc, local, mover, edits, faults>>

\* The entry's time to live runs out.
CacheExpire(s) ==
  /\ cache[s] # None
  /\ cache' = [cache EXCEPT ![s] = None]
  /\ UNCHANGED <<tables, bookings, tuple, pc, local, mover, lister, edits, faults>>

-----------------------------------------------------------------------------
(* Staff edits.                                                            *)

Edit == edits < MaxEdits /\ edits' = edits + 1

UpdateService(s) ==
  /\ Edit
  /\ service[s].state # "deleted"
  /\ \E state \in {"active", "inactive"}, minutes \in Minutes :
       service' = [service EXCEPT ![s] = [state |-> state, minutes |-> minutes]]
  /\ UNCHANGED <<provider, resource, bookings, tuple, pc, local, mover,
                 lister, cache, faults>>

\* A transaction past its foreign-key check holds a lock on what it refers to.
Locked(b, s) ==
  \E r \in Request : /\ pc[r] = "options"
                     /\ tuple[r].resource = b \/ tuple[r].service = s

\* Bookings keep their snapshot: ON DELETE SET NULL.
DeleteService(s) ==
  /\ Edit
  /\ service[s].state # "deleted"
  /\ ~Locked(None, s)
  /\ service' = [service EXCEPT ![s].state = "deleted"]
  /\ bookings' = [r \in Request |->
       IF r \in Booked /\ bookings[r].service = s
       THEN [bookings[r] EXCEPT !.service = None] ELSE bookings[r]]
  /\ UNCHANGED <<provider, resource, tuple, pc, local, mover, lister, cache, faults>>

\* An administrator changes a provider's status, or staff its booking mode.
UpdateProvider(p) ==
  /\ Edit
  /\ \E status \in {"active", "suspended"}, instant \in BOOLEAN :
       provider' = [provider EXCEPT
                      ![p] = [status |-> status, instant |-> instant]]
  /\ UNCHANGED <<service, resource, bookings, tuple, pc, local, mover,
                 lister, cache, faults>>

UpdateResource(b) ==
  /\ Edit
  /\ resource[b] # "deleted"
  /\ \E state \in {"active", "inactive"} :
       resource' = [resource EXCEPT ![b] = state]
  /\ \/ InvalidateProvider(BayOwner[b]) /\ UNCHANGED faults
     \/ /\ faults < MaxFaults \* reading the attached services back failed
        /\ faults' = faults + 1
        /\ UNCHANGED <<lister, cache>>
  /\ UNCHANGED <<service, provider, bookings, tuple, pc, local, mover>>

\* ON DELETE RESTRICT: a resource that a booking ever referred to stays.
DeleteResource(b) ==
  /\ Edit
  /\ resource[b] # "deleted"
  /\ \A q \in Booked : bookings[q].resource # b
  /\ ~Locked(b, None)
  /\ resource' = [resource EXCEPT ![b] = "deleted"]
  /\ InvalidateProvider(BayOwner[b])
  /\ UNCHANGED <<service, provider, bookings, tuple, pc, local, mover, faults>>

-----------------------------------------------------------------------------

Init ==
  /\ service \in [Service -> [state : {"active"}, minutes : Minutes]]
  /\ provider \in [Provider -> [status : {"active"}, instant : BOOLEAN]]
  /\ resource = [b \in Resource |-> "active"]
  /\ bookings = [r \in Request |-> None]
  /\ tuple = [r \in Request |-> None]
  /\ pc = [r \in Request |-> "idle"]
  /\ local = [r \in Request |-> NoLocal]
  /\ mover = [m \in Mover |-> NoMove]
  /\ lister = [l \in Lister |-> NoListing]
  /\ cache = [s \in Service |-> None]
  /\ edits = 0
  /\ faults = 0

\* The steps a submitted reservation takes by itself.
CreateStep(r) ==
  \/ GetServiceWithProvider(r) \/ ResolveScheduling(r) \/ ResourcesForStart(r)
  \/ ReserveCode(r) \/ InsertTuple(r) \/ CheckConstraints(r)
  \/ DeadlockDetected(r) \/ Commit(r) \/ TryResource(r) \/ FinishCreate(r)

MoveStep(m) == TransitionBooking(m) \/ FinishTransition(m)

Next ==
  \/ \E r \in Request :
       Submit(r) \/ CreateStep(r) \/ Fault(r) \/ CommitAnswerLost(r)
  \/ \E m \in Mover : ReadBooking(m) \/ MoveStep(m) \/ TransitionFault(m)
  \/ \E l \in Lister : ListResources(l) \/ ListBusyIntervals(l) \/ CachePut(l)
  \/ \E s \in Service : CacheExpire(s) \/ UpdateService(s) \/ DeleteService(s)
  \/ \E p \in Provider : UpdateProvider(p)
  \/ \E b \in Resource : UpdateResource(b) \/ DeleteResource(b)

Spec == Init /\ [][Next]_vars

\* A statement that can run eventually runs, and the deadlock detector
\* eventually fires: both are what a request that is not cut off relies on.
Fairness == /\ \A r \in Request : WF_vars(CreateStep(r))
            /\ \A m \in Mover : WF_vars(MoveStep(m))

FairSpec == Spec /\ Fairness

-----------------------------------------------------------------------------
(* Properties.                                                             *)

Label == {"idle", "service", "slots", "busy", "code", "insert", "check",
          "options", "failed", "invalidate", "done"}

Error == {"none", "exclusion_violation", "unique_violation", "fault",
          "foreign_key_violation", "deadlock_detected", "codes_exhausted"}

Reply == {"CREATED", "NOT_FOUND", "SERVICE_INACTIVE", "PROVIDER_INACTIVE",
          "OUTSIDE_HOURS", "SLOT_TAKEN", "FORBIDDEN", "INTERNAL"}

\* No answer is not an answer.
ASSUME ReplyAssumption == None \notin Reply \cup {"OK"}

Local == [ in : Inputs \cup {None}, provider : Provider \cup {None},
           end : Nat, status : activeStatuses, minutes : Nat,
           bays : SUBSET Resource, cands : SUBSET Resource,
           code : Code \cup {None}, attempt : 0 .. maxAttempts - 1,
           gaveUp : SUBSET Resource,
           err : Error, answer : Reply \cup {None} ]

Move == [ pc : {"idle", "update", "invalidate", "done"},
          booking : Request \cup {None}, from : Status, to : Status,
          answer : {"OK", "NOT_FOUND", "INVALID_TRANSITION", "INTERNAL", None} ]

Listing == [ pc : {"idle", "busy", "put"}, service : Service \cup {None},
             minutes : Nat, bays : SUBSET Resource,
             free : SUBSET (Start \X Resource), raced : BOOLEAN ]

\* Every variable of the reservation engine holds a value of its kind.
TypeOK ==
  /\ service \in [Service -> [state : {"active", "inactive", "deleted"},
                              minutes : Minutes]]
  /\ provider \in [Provider -> [status : {"active", "suspended"},
                                instant : BOOLEAN]]
  /\ resource \in [Resource -> {"active", "inactive", "deleted"}]
  /\ bookings \in [Request -> Row \cup {None}]
  /\ tuple \in [Request -> Row \cup {None}]
  /\ pc \in [Request -> Label]
  /\ local \in [Request -> Local]
  /\ mover \in [Mover -> Move]
  /\ lister \in [Lister -> Listing]
  /\ cache \in [Service -> [free : SUBSET (Start \X Resource),
                            raced : BOOLEAN] \cup {None}]
  /\ edits \in 0 .. MaxEdits
  /\ faults \in 0 .. MaxFaults

\* No two active bookings of one resource overlap, whatever reservations,
\* transitions, deadlocks and failures interleave (bookings_no_overlap, and
\* the promise of Create that two customers never get the same slot).
NoDoubleBooking ==
  \A q, r \in Booked :
    /\ q # r /\ bookings[q].resource = bookings[r].resource
    /\ IsActive(bookings[q].status) /\ IsActive(bookings[r].status)
    => \/ bookings[q].end <= bookings[r].start
       \/ bookings[r].end <= bookings[q].start

\* A booking is never lost, and its status only ever moves along an edge of
\* the transition table, although every transition decides on a status it
\* read before its UPDATE.
FollowsLifecycle ==
  [][\A r \in Booked :
       /\ bookings'[r] # None
       /\ \/ bookings'[r].status = bookings[r].status
          \/ \E event \in Event :
               bookings'[r].status \in NextStatus(bookings[r].status, event)]_bookings

\* Two staff members tapping at once cannot both succeed: of the lifecycle
\* requests that found a booking in one status, at most one moved it.
OneWinner ==
  \A m, n \in Mover :
    /\ m # n
    /\ mover[m].answer = "OK" /\ mover[n].answer = "OK"
    /\ mover[m].booking = mover[n].booking
    => mover[m].from # mover[n].from

\* What a reservation answers agrees with the table: CREATED means its row
\* is there, and a refusal left nothing behind.  A 500 promises neither.
AnswerAgreesWithTable ==
  \A r \in Request :
    /\ local[r].answer = "CREATED" => r \in Booked
    /\ local[r].answer \in Reply \ {"CREATED", "FORBIDDEN", "INTERNAL"}
         => r \notin Booked

\* Somebody has booked bay b over [from, to), whatever became of it since.
BookedOver(b, from, to) ==
  \E q \in Booked : /\ bookings[q].resource = b
                    /\ bookings[q].start < to /\ from < bookings[q].end

\* Every bay the request may be given, or the one it names.
Wanted(r) ==
  IF local[r].in.resource = None THEN Resource ELSE {local[r].in.resource}

\* The bays on which the service, as the scheduler found it, fits at the
\* requested start.
Suitable(r) ==
  { b \in local[r].bays \cap Wanted(r) :
      Fits(b, local[r].in.start, local[r].minutes) }

\* One reservation or another holds b over the requested time, be it as long
\* as the quote or as the scheduler takes the service to be.
TakenFrom(r, b) ==
  LET start == local[r].in.start IN
  BookedOver(b, start, local[r].end) \/ BookedOver(b, start, start + local[r].minutes)

\* SLOT_TAKEN is never said of a slot that nobody took: each bay on which a
\* refused service fitted has been booked by somebody over that time.  Not
\* covered: a bay the request gave up after maxAttempts deadlocks, which
\* tryResource reports the same way.
SlotTakenMeansTaken ==
  \A r \in Request :
    local[r].answer = "SLOT_TAKEN" =>
      \A b \in Suitable(r) \ local[r].gaveUp : TakenFrom(r, b)

\* A booking's resource is never deleted from under it, although the check
\* and the deletion belong to different transactions.
BookedResourceExists ==
  \A r \in Booked : resource[bookings[r].resource] # "deleted"

\* While nobody edits the catalog, a booking lies on the grid and inside the opening
\* hours of its resource: what Create says its fresh look at the slots enforces.
InsideOpeningHours ==
  edits = 0 => \A r \in Booked :
    LET row == bookings[r] IN Fits(row.resource, row.start, row.end - row.start)

\* A writer has changed what is free and not yet invalidated the cache.
InvalidationDue(p) ==
  \/ \E r \in Request : pc[r] = "invalidate" /\ local[r].provider = p
  \/ \E m \in Mover : /\ mover[m].pc = "invalidate"
                      /\ bookings[mover[m].booking].provider = p

\* No bay of the service is attached to a service of another provider.
\* AttachService checks who owns the bay, not who owns the service.
KeptApart(s) ==
  \A b \in Resource, other \in Service :
    <<s, b>> \in Performs /\ <<other, b>> \in Performs => Owner[other] = Owner[s]

\* Once every writer has called InvalidateProvider, a cached list shows what
\* is free now, unless its fill began before an invalidation and ended
\* after it.  Until something is edited or fails: the catalog's edits do not
\* invalidate, and neither does a request whose COMMIT lost its answer.  And
\* of services kept apart: a booking invalidates the lists of its own provider.
StaleOnlyIfRaced ==
  \A s \in Service :
    /\ cache[s] # None /\ ~cache[s].raced /\ ~InvalidationDue(Owner[s])
    /\ edits = 0 /\ faults = 0 /\ KeptApart(s)
    => cache[s].free = GenerateSlots(BaysFor(s), service[s].minutes)

\* Every reservation is answered: retries, waits and deadlocks all end.
EveryRequestAnswered ==
  \A r \in Request : pc[r] = "service" ~> pc[r] = "done"

\* "Contention must never surface as a 500": a reservation answers INTERNAL only
\* because a statement failed, five drawn codes were all in use, something it refers
\* to was deleted, or (the exception there is) another transaction committed the
\* code that it had found unused.
ContentionIs500OnlyByCode ==
  \A r \in Request :
    local[r].answer = "INTERNAL" =>
      \/ local[r].err \in {"fault", "codes_exhausted"}
      \/ local[r].err = "foreign_key_violation" /\ edits > 0
      \/ /\ local[r].err = "unique_violation"
         /\ \E q \in Booked \ {r} : bookings[q].code = local[r].code

\* No organization writes a booking into another's calendar: a walk-in that
\* was refused because the service is not the organization's left no row.
WalkInStaysAtHome ==
  \A r \in Request : local[r].answer = "FORBIDDEN" => r \notin Booked

-----------------------------------------------------------------------------
(* Refinement: hide everything but resource, time and status of the rows.  *)

calendar ==
  [ r \in Request |->
      IF bookings[r] = None THEN None
      ELSE [ resource |-> bookings[r].resource, start |-> bookings[r].start,
             end |-> bookings[r].end, status |-> bookings[r].status ] ]

Cal == INSTANCE Calendar
         WITH Appointment <- Request, table <- calendar

\* The engine implements the calendar: seen through the table, a reservation
\* with all its reads, retries and waits is one step that takes a free slot,
\* and a transition is one step of the lifecycle.
ImplementsCalendar == Cal!Spec
=============================================================================
