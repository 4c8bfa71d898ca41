-------------------------------- MODULE Hours --------------------------------
(***************************************************************************)
(* Resources, what they can perform, weekly hours and one-date exceptions  *)
(* (scheduling.Scheduler), edited by concurrent requests that have passed  *)
(* RequireOrg.  A request takes one step per statement; only ReplaceHours  *)
(* runs a transaction.  Its DELETE acts on the rows of the snapshot it     *)
(* took, after waiting for their locks, and its INSERTs commit with it.    *)
(* A span's times are counted in a unit of which Midnight make a day.      *)
(***************************************************************************)
EXTENDS Integers, FiniteSets

CONSTANTS Provider, Resource, Service, Row, Exception, Request,
          Owner,     \* resources.provider_id, [Resource -> Provider]
          Existing,  \* the services that exist
          Booked,    \* the resources that have bookings (ON DELETE RESTRICT)
          Initially, \* the resources there are at the start
          Weeks,     \* the tables business_hours there may be at the start
          Day, Date, Midnight,
          Asks,      \* what the requests may ask for
          MaxFaults, \* bound on statements that fail
          None       \* NULL

Scope == Resource \cup {None}
Span == [ day : Day, opens : 0..Midnight, closes : 0..Midnight ]
Patch == [ opens : (0..Midnight) \cup {None}, closes : (0..Midnight) \cup {None} ]

\* What a request carries; the other fields of the bodies change no row's place.
Ask ==
  [ op : {"create_resource"}, provider : Provider, services : SUBSET Service ]
  \cup [ op : {"update_resource", "delete_resource"}, provider : Provider,
         resource : Resource ]
  \cup [ op : {"attach", "detach"}, provider : Provider, resource : Resource,
         service : Service ]
  \cup [ op : {"create_hours"}, provider : Provider, resource : Scope, span : Span ]
  \cup [ op : {"replace_hours"}, provider : Provider, resource : Scope,
         week : SUBSET Span ]
  \cup [ op : {"update_hours"}, provider : Provider, row : Row, patch : Patch ]
  \cup [ op : {"delete_hours"}, provider : Provider, row : Row ]
  \cup [ op : {"create_exception"}, provider : Provider, resource : Scope,
         date : Date, span : Span \cup {None} ]
  \cup [ op : {"delete_exception"}, provider : Provider, row : Exception ]

HoursRow == [ provider : Provider, resource : Scope, span : Span ]
ExceptionRow == [ provider : Provider, resource : Scope, date : Date,
                  span : Span \cup {None} ]

\* A list has been read from the tables, or has been put in the cache since the
\* provider's lists were last dropped.  It is stale when the tables have changed
\* since it was read, and overtaken when, besides, an invalidation has come between
\* that read and the put.
List == [ at : {"read", "put"}, is : {"current", "stale", "overtaken"} ]

Code == {"OK", "NOT_FOUND", "VALIDATION", "CONFLICT", "INTERNAL"}

\* The hours at the start are such as the requests here leave them.
HoursAssumption ==
  /\ \A ask \in Asks : /\ ask \in Ask
                       /\ ask.op = "replace_hours" => IsFiniteSet(ask.week)
  /\ Owner \in [Resource -> Provider]
  /\ Existing \subseteq Service /\ Booked \subseteq Initially
  /\ Initially \subseteq Resource
  /\ Weeks \subseteq [Row -> HoursRow \cup {None}]
  /\ \A week \in Weeks : \A row \in { week[h] : h \in Row } \ {None} :
       /\ row.span.opens < row.span.closes
       /\ row.resource # None => /\ row.resource \in Initially
                                 /\ Owner[row.resource] = row.provider
  /\ Midnight \in Nat \ {0} /\ MaxFaults \in Nat
  /\ None \notin Resource /\ None \notin Ask /\ None \notin 0..Midnight
  /\ None \notin HoursRow \cup ExceptionRow \cup Code

VARIABLES
  resource,  \* the resources that exist
  performs,  \* the table resource_services, pairs
  hours,     \* the table business_hours, [Row -> HoursRow or None]
  exception, \* the table schedule_exceptions, [Exception -> ExceptionRow or None]
  used,      \* the identities ever given to a row
  lists,     \* how a provider's lists of slots stand, [Provider -> SUBSET List]
  request, faults

vars == <<resource, performs, hours, exception, used, lists, request, faults>>

-----------------------------------------------------------------------------
(* Conversions and checks.                                                 *)

\* make_interval(mins => t)::time: 24:00 is midnight, the start of the day.
SqlTime(t) == t % Midnight

Stored(span) == [ span EXCEPT !.opens = SqlTime(@), !.closes = SqlTime(@) ]

\* CHECK (opens_at < closes_at), of what is stored.
OpensBeforeCloses(span) == Stored(span).opens < Stored(span).closes

\* closesAt must be after opensAt, of what was sent.
Forwards(span) == span.opens < span.closes

Overlaps(a, b) == a.day = b.day /\ a.opens < b.closes /\ b.opens < a.closes

\* assertNoOverlap.
NoOverlap(week) == \A a, b \in week : a # b => ~Overlaps(a, b)

Valid(ask) ==
  CASE ask.op = "create_hours"     -> Forwards(ask.span)
    [] ask.op = "replace_hours"    -> (\A span \in ask.week : Forwards(span))
                                      /\ NoOverlap(ask.week)
    [] ask.op = "create_exception" -> ask.span # None => Forwards(ask.span)
    [] OTHER                       -> TRUE

\* provider_id = $1 AND resource_id IS NOT DISTINCT FROM $2
RowsOfScope(p, r) ==
  { h \in Row : hours[h] # None /\ hours[h].provider = p /\ hours[h].resource = r }

-----------------------------------------------------------------------------
(* left: services still to attach; rows: what a DELETE acts on; wrote: some *)
(* statement has taken effect.  `stale' is history: a row was added to the  *)
(* scope after the request's DELETE had looked.                            *)

NoRequest == [ pc |-> "idle", ask |-> None, left |-> {}, rows |-> {}, wrote |-> FALSE,
               stale |-> FALSE, answer |-> None ]

Goto(q, label) == request' = [request EXCEPT ![q].pc = label]

Answer(q, code) ==
  request' = [request EXCEPT ![q].pc = "done", ![q].answer = code]

Busy(q) == request[q].pc \notin {"idle", "done"}

\* Rows that a transaction in progress has deleted.
Locked(h) == \E q \in Request : request[q].pc = "fill" /\ h \in request[q].rows

\* A write of the provider's makes the lists out of date that were read before it.
Touch(p) ==
  lists' = [lists EXCEPT ![p] =
    { IF list.is = "current" THEN [list EXCEPT !.is = "stale"] ELSE list : list \in @ }]

\* A statement of request q has changed a table.
Wrote(q, label) ==
  /\ request' = [request EXCEPT ![q].pc = label, ![q].wrote = TRUE]
  /\ Touch(request[q].ask.provider)

AddsToScope(q, label, p, r) ==
  /\ request' = [x \in Request |->
       IF x = q THEN [request[q] EXCEPT !.pc = label, !.wrote = TRUE]
       ELSE [request[x] EXCEPT !.stale = @ \/
               (request[x].pc \in {"clear", "fill"} /\ request[x].ask.provider = p
                /\ request[x].ask.resource = r)]]
  /\ Touch(p)

Unchanged(q, code) ==
  Answer(q, code) /\ UNCHANGED <<resource, performs, hours, exception, used, lists>>

NamesResource(ask) ==
  /\ ask.op \in {"attach", "detach", "create_hours", "replace_hours", "create_exception"}
  /\ ask.resource # None

\* The request arrives and is validated, which reads nothing that is shared.
Arrive(q) ==
  /\ request[q].pc = "idle"
  /\ \E ask \in Asks :
       LET first == IF NamesResource(ask) THEN "owned" ELSE ask.op IN
       IF Valid(ask) THEN request' = [request EXCEPT ![q].ask = ask, ![q].pc = first]
       ELSE request' = [request EXCEPT ![q].ask = ask, ![q].pc = "done",
                                       ![q].answer = "VALIDATION"]
  /\ UNCHANGED <<resource, performs, hours, exception, used, lists, faults>>

Owned(p, r) == r \in resource /\ Owner[r] = p

AssertResourceOwned(q) ==
  LET ask == request[q].ask IN
  /\ request[q].pc = "owned"
  /\ IF Owned(ask.provider, ask.resource) THEN Goto(q, ask.op) ELSE Answer(q, "NOT_FOUND")
  /\ UNCHANGED <<resource, performs, hours, exception, used, lists, faults>>

-----------------------------------------------------------------------------
(* Resources.                                                              *)

CreateResource(q) ==
  LET ask == request[q].ask IN
  /\ request[q].pc = "create_resource"
  /\ \E r \in Resource \ used :
       /\ Owner[r] = ask.provider
       /\ resource' = resource \cup {r}
       /\ used' = used \cup {r}
       /\ request' = [request EXCEPT ![q].pc = "attach_each", ![q].left = ask.services,
                                     ![q].rows = {r}, ![q].wrote = TRUE]
  /\ Touch(ask.provider)
  /\ UNCHANGED <<performs, hours, exception, faults>>

\* The foreign keys of resource_services.
BothExist(r, s) == r \in resource /\ s \in Existing

\* One INSERT per service, in the caller's order and outside a transaction.
AttachEach(q) ==
  /\ request[q].pc = "attach_each"
  /\ \/ /\ request[q].left = {}
        /\ Goto(q, "invalidate")
        /\ UNCHANGED <<performs, lists>>
     \/ \E s \in request[q].left, r \in request[q].rows :
          \/ /\ BothExist(r, s)
             /\ performs' = performs \cup {<<r, s>>}
             /\ request' = [request EXCEPT ![q].left = @ \ {s}]
             /\ Touch(request[q].ask.provider)
          \/ /\ ~BothExist(r, s)
             /\ Answer(q, "INTERNAL")
             /\ UNCHANGED <<performs, lists>>
  /\ UNCHANGED <<resource, hours, exception, used, faults>>

\* A new name, login or is_active; the services are read for the answer next.
UpdateResource(q) ==
  LET ask == request[q].ask IN
  /\ request[q].pc = "update_resource"
  /\ \/ /\ Owned(ask.provider, ask.resource)
        /\ Wrote(q, "read_services")
        /\ UNCHANGED <<resource, performs, hours, exception, used>>
     \/ ~Owned(ask.provider, ask.resource) /\ Unchanged(q, "NOT_FOUND")
  /\ UNCHANGED faults

ListServiceIDs(q) ==
  /\ request[q].pc = "read_services"
  /\ Goto(q, "invalidate")
  /\ UNCHANGED <<resource, performs, hours, exception, used, lists, faults>>

\* Its hours, exceptions and attachments go with it (ON DELETE CASCADE).
DeleteResource(q) ==
  LET ask == request[q].ask
      r == ask.resource
  IN
  /\ request[q].pc = "delete_resource"
  /\ \A h \in RowsOfScope(ask.provider, r) : ~Locked(h)
  /\ \/ /\ Owned(ask.provider, r) /\ r \notin Booked
        /\ resource' = resource \ {r}
        /\ performs' = { pair \in performs : pair[1] # r }
        /\ hours' = [h \in Row |->
             IF h \in RowsOfScope(ask.provider, r) THEN None ELSE hours[h]]
        /\ exception' = [e \in Exception |->
             IF exception[e] # None /\ exception[e].resource = r THEN None ELSE exception[e]]
        /\ Wrote(q, "invalidate")
        /\ UNCHANGED used
     \/ Owned(ask.provider, r) /\ r \in Booked /\ Unchanged(q, "CONFLICT")
     \/ ~Owned(ask.provider, r) /\ Unchanged(q, "NOT_FOUND")
  /\ UNCHANGED faults

\* ON CONFLICT DO NOTHING; whichever foreign key fails, the service is blamed.
AttachService(q) ==
  LET ask == request[q].ask IN
  /\ request[q].pc = "attach"
  /\ \/ /\ BothExist(ask.resource, ask.service)
        /\ performs' = performs \cup {<<ask.resource, ask.service>>}
        /\ Wrote(q, "invalidate")
        /\ UNCHANGED <<resource, hours, exception, used>>
     \/ ~BothExist(ask.resource, ask.service) /\ Unchanged(q, "VALIDATION")
  /\ UNCHANGED faults

\* Mutant: the cache is left as it is.
DetachAndAnswer(q) ==
  /\ request[q].pc = "detach"
  /\ performs' = performs \ {<<request[q].ask.resource, request[q].ask.service>>}
  /\ Touch(request[q].ask.provider)
  /\ Answer(q, "OK")
  /\ UNCHANGED <<resource, hours, exception, used, faults>>

DetachService(q) ==
  LET pair == <<request[q].ask.resource, request[q].ask.service>> IN
  /\ request[q].pc = "detach"
  /\ \/ /\ pair \in performs
        /\ performs' = performs \ {pair}
        /\ Wrote(q, "invalidate")
        /\ UNCHANGED <<resource, hours, exception, used>>
     \/ pair \notin performs /\ Unchanged(q, "NOT_FOUND")
  /\ UNCHANGED faults

-----------------------------------------------------------------------------
(* Weekly hours.                                                           *)

\* The constraints of business_hours.
Insertable(r, span) == OpensBeforeCloses(span) /\ (r = None \/ r \in resource)

NewHours(ask, span) ==
  [ provider |-> ask.provider, resource |-> ask.resource, span |-> Stored(span) ]

\* One span more; whether it overlaps another one is not looked at.
CreateHours(q) ==
  LET ask == request[q].ask IN
  /\ request[q].pc = "create_hours"
  /\ \/ /\ Insertable(ask.resource, ask.span)
        /\ \E h \in Row \ used :
             /\ hours' = [hours EXCEPT ![h] = NewHours(ask, ask.span)]
             /\ used' = used \cup {h}
        /\ AddsToScope(q, "invalidate", ask.provider, ask.resource)
        /\ UNCHANGED <<resource, performs, exception>>
     \/ ~Insertable(ask.resource, ask.span) /\ Unchanged(q, "INTERNAL")
  /\ UNCHANGED faults

\* ReplaceHours begins: the rows its DELETE finds.
ReplaceHours(q) ==
  LET ask == request[q].ask IN
  /\ request[q].pc = "replace_hours"
  /\ request' = [request EXCEPT ![q].pc = "clear",
                   ![q].rows = RowsOfScope(ask.provider, ask.resource)]
  /\ UNCHANGED <<resource, performs, hours, exception, used, lists, faults>>

\* Mutant: the DELETE commits by itself.
ClearAndCommit(q) ==
  /\ request[q].pc = "clear"
  /\ hours' = [h \in Row |-> IF h \in request[q].rows THEN None ELSE hours[h]]
  /\ Goto(q, "fill")
  /\ UNCHANGED <<resource, performs, exception, used, lists, faults>>

\* It waits for those that are locked; one that is gone by then is skipped.
DeleteBusinessHoursForScope(q) ==
  /\ request[q].pc = "clear"
  /\ \A h \in request[q].rows : ~Locked(h)
  /\ request' = [request EXCEPT ![q].pc = "fill",
                   ![q].rows = { h \in @ : hours[h] # None }]
  /\ UNCHANGED <<resource, performs, hours, exception, used, lists, faults>>

\* The INSERTs and the COMMIT, or the rollback of all of it.
FillAndCommit(q) ==
  LET ask == request[q].ask
      week == ask.week
  IN
  /\ request[q].pc = "fill"
  /\ \/ /\ \A span \in week : Insertable(ask.resource, span)
        /\ \E row \in [week -> Row \ used] :
             /\ \A a, b \in week : row[a] = row[b] => a = b
             /\ used' = used \cup { row[span] : span \in week }
             /\ hours' = [h \in Row |->
                  IF h \in { row[span] : span \in week }
                  THEN NewHours(ask, CHOOSE span \in week : row[span] = h)
                  ELSE IF h \in request[q].rows THEN None ELSE hours[h]]
        /\ AddsToScope(q, "invalidate", ask.provider, ask.resource)
        /\ UNCHANGED <<resource, performs, exception>>
     \/ (\E span \in week : ~Insertable(ask.resource, span)) /\ Unchanged(q, "INTERNAL")
  /\ UNCHANGED faults

\* COALESCE: what is not sent is kept, as it is when the row's lock is free.
Patched(span, patch) ==
  [ day |-> span.day,
    opens |-> IF patch.opens = None THEN span.opens ELSE SqlTime(patch.opens),
    closes |-> IF patch.closes = None THEN span.closes ELSE SqlTime(patch.closes) ]

HasHours(ask) == hours[ask.row] # None /\ hours[ask.row].provider = ask.provider

UpdateHours(q) ==
  LET ask == request[q].ask
      h == ask.row
  IN
  /\ request[q].pc = "update_hours" /\ ~Locked(h)
  /\ \/ /\ HasHours(ask) /\ Forwards(Patched(hours[h].span, ask.patch))
        /\ hours' = [hours EXCEPT ![h].span = Patched(@, ask.patch)]
        /\ Wrote(q, "invalidate")
        /\ UNCHANGED <<resource, performs, exception, used>>
     \/ /\ HasHours(ask) /\ ~Forwards(Patched(hours[h].span, ask.patch))
        /\ Unchanged(q, "VALIDATION")
     \/ ~HasHours(ask) /\ Unchanged(q, "NOT_FOUND")
  /\ UNCHANGED faults

DeleteHours(q) ==
  LET ask == request[q].ask IN
  /\ request[q].pc = "delete_hours" /\ ~Locked(ask.row)
  /\ \/ /\ HasHours(ask)
        /\ hours' = [hours EXCEPT ![ask.row] = None]
        /\ Wrote(q, "invalidate")
        /\ UNCHANGED <<resource, performs, exception, used>>
     \/ ~HasHours(ask) /\ Unchanged(q, "NOT_FOUND")
  /\ UNCHANGED faults

-----------------------------------------------------------------------------
(* Exceptions.                                                             *)

\* The two partial unique indexes: NULL is a scope of its own.
Clashes(e, ask) ==
  /\ exception[e] # None /\ exception[e].date = ask.date
  /\ exception[e].resource = ask.resource
  /\ ask.resource = None => exception[e].provider = ask.provider

\* All of the table's constraints have a name that begins with its own, and the
\* code takes every such error for a duplicate.
CreateException(q) ==
  LET ask == request[q].ask
      accepted == /\ \A e \in Exception : ~Clashes(e, ask)
                  /\ ask.span # None => OpensBeforeCloses(ask.span)
                  /\ ask.resource = None \/ ask.resource \in resource
  IN
  /\ request[q].pc = "create_exception"
  /\ \/ /\ accepted
        /\ \E e \in Exception \ used :
             /\ exception' = [exception EXCEPT ![e] =
                  [ provider |-> ask.provider, resource |-> ask.resource,
                    date |-> ask.date,
                    span |-> IF ask.span = None THEN None ELSE Stored(ask.span) ]]
             /\ used' = used \cup {e}
        /\ Wrote(q, "invalidate")
        /\ UNCHANGED <<resource, performs, hours>>
     \/ ~accepted /\ Unchanged(q, "CONFLICT")
  /\ UNCHANGED faults

DeleteException(q) ==
  LET ask == request[q].ask
      found == exception[ask.row] # None /\ exception[ask.row].provider = ask.provider
  IN
  /\ request[q].pc = "delete_exception"
  /\ \/ /\ found
        /\ exception' = [exception EXCEPT ![ask.row] = None]
        /\ Wrote(q, "invalidate")
        /\ UNCHANGED <<resource, performs, hours, used>>
     \/ ~found /\ Unchanged(q, "NOT_FOUND")
  /\ UNCHANGED faults

-----------------------------------------------------------------------------

InvalidateProvider(q) ==
  /\ request[q].pc = "invalidate"
  /\ lists' = [lists EXCEPT ![request[q].ask.provider] =
       { IF list.is = "stale" THEN [list EXCEPT !.is = "overtaken"] ELSE list :
         list \in { unfinished \in @ : unfinished.at = "read" } }]
  /\ Answer(q, "OK")
  /\ UNCHANGED <<resource, performs, hours, exception, used, faults>>

\* A customer browses: the list of a day is read, by several statements, of which
\* the first says how old it is...
Browse(p) ==
  /\ lists' = [lists EXCEPT ![p] = @ \cup { [ at |-> "read", is |-> "current" ] }]
  /\ UNCHANGED <<resource, performs, hours, exception, used, request, faults>>

\* ... and is put in the cache as it was read.  Others may be read and put that stand
\* as it does, hence none leaves the set; here no entry expires.
Put(p) ==
  /\ \E list \in lists[p] :
       lists' = [lists EXCEPT ![p] = @ \cup { [list EXCEPT !.at = "put"] }]
  /\ UNCHANGED <<resource, performs, hours, exception, used, request, faults>>

\* What is answered when a statement fails: an attachment that fails is put down to
\* the service, the deletion of a resource to its bookings.
FaultCode(q) ==
  CASE request[q].pc = "attach"          -> "VALIDATION"
    [] request[q].pc = "delete_resource" -> "CONFLICT"
    [] OTHER                             -> "INTERNAL"

\* A statement fails; the transaction, if there is one, is rolled back.
Fault(q) ==
  /\ Busy(q) /\ request[q].pc # "invalidate" /\ faults < MaxFaults
  /\ faults' = faults + 1
  /\ Answer(q, FaultCode(q))
  /\ UNCHANGED <<resource, performs, hours, exception, used, lists>>

-----------------------------------------------------------------------------

Init ==
  /\ resource = Initially
  /\ performs = {}
  /\ hours \in Weeks
  /\ exception = [e \in Exception |-> None]
  /\ used = resource \cup { h \in Row : hours[h] # None }
  /\ lists = [p \in Provider |-> {}]
  /\ request = [q \in Request |-> NoRequest]
  /\ faults = 0

Step(q) ==
  \/ Arrive(q) \/ AssertResourceOwned(q)
  \/ CreateResource(q) \/ AttachEach(q) \/ UpdateResource(q) \/ ListServiceIDs(q)
  \/ DeleteResource(q) \/ AttachService(q) \/ DetachService(q)
  \/ CreateHours(q) \/ ReplaceHours(q) \/ DeleteBusinessHoursForScope(q)
  \/ FillAndCommit(q) \/ UpdateHours(q) \/ DeleteHours(q)
  \/ CreateException(q) \/ DeleteException(q)
  \/ InvalidateProvider(q) \/ Fault(q)

Next == (\E q \in Request : Step(q)) \/ (\E p \in Provider : Browse(p) \/ Put(p))

Spec == Init /\ [][Next]_vars

-----------------------------------------------------------------------------
(* Properties.                                                             *)

Label == {"idle", "owned", "create_resource", "attach_each", "update_resource",
          "read_services", "delete_resource", "attach", "detach", "create_hours",
          "replace_hours", "clear", "fill", "update_hours", "delete_hours",
          "create_exception", "delete_exception", "invalidate", "done"}

\* Every variable holds a value of its kind, and a stored span is never empty and
\* never crosses midnight.
TypeOK ==
  /\ resource \subseteq Resource
  /\ performs \subseteq Resource \X Existing
  /\ hours \in [Row -> HoursRow \cup {None}]
  /\ \A h \in Row : hours[h] # None => Forwards(hours[h].span)
  /\ exception \in [Exception -> ExceptionRow \cup {None}]
  /\ used \subseteq Resource \cup Row \cup Exception
  /\ lists \in [Provider -> SUBSET List]
  /\ faults \in 0..MaxFaults
  /\ request \in [Request ->
       [ pc : Label, ask : Asks \cup {None}, left : SUBSET Service,
         rows : SUBSET (Row \cup Resource), wrote : BOOLEAN, stale : BOOLEAN,
         answer : Code \cup {None} ]]

\* A provider's hours and exceptions speak of itself or of a resource of its own
\* that exists, also when the resource is deleted between the check of its owner
\* and the INSERT.
ScopesAreOwn ==
  \A row \in { hours[h] : h \in Row } \cup { exception[e] : e \in Exception } :
    row # None /\ row.resource # None
      => row.resource \in resource /\ Owner[row.resource] = row.provider

Spans(p, r) == { hours[h].span : h \in RowsOfScope(p, r) }

InPlace(p, r, week) ==
  /\ Spans(p, r) = { Stored(span) : span \in week }
  /\ Cardinality(RowsOfScope(p, r)) = Cardinality(week)

Replaces(q) ==
  Busy(q) /\ request[q].ask.op = "replace_hours" /\ request'[q].pc # request[q].pc

\* "Either the new week is in place or the old one still is": a replacement
\* changes the table in one step, after which its week is what the scope has,
\* unless a row was added behind its back.
ReplacedAsAWhole ==
  \A q \in Request : Replaces(q) /\ hours' # hours =>
    /\ request'[q].pc = "invalidate"
    /\ request[q].stale
       \/ InPlace(request[q].ask.provider, request[q].ask.resource,
                  request[q].ask.week)'

\* "Saving the shop's week does not silently wipe a barber's own hours."
OtherScopesKept ==
  \A q \in Request : Replaces(q) =>
    \A h \in Row :
      /\ hours[h] # None
      /\ <<hours[h].provider, hours[h].resource>>
           # <<request[q].ask.provider, request[q].ask.resource>>
      => hours'[h] = hours[h]

\* For one date there is at most one exception of a resource and one of the whole
\* provider: ResolveWindows would keep whichever it reads last.
OneExceptionPerDay ==
  \A d, e \in Exception :
    /\ exception[d] # None /\ exception[e] # None
    /\ exception[d].provider = exception[e].provider
    /\ exception[d].resource = exception[e].resource
    /\ exception[d].date = exception[e].date
    => d = e

Behind(p) == \E list \in lists[p] : list.is = "stale"

\* A list that is in the cache, or on its way there, and has not been overtaken by an
\* invalidation is older than the tables only while an edit of the provider's is on
\* its way from its write to its answer, or has ended in an error after it.
StaleOnlyMidEdit ==
  \A p \in Provider : Behind(p) =>
    \E q \in Request :
      /\ request[q].wrote /\ request[q].ask.provider = p
      /\ Busy(q) \/ request[q].answer \notin {"OK", None}

Undone(r, s) == \E q \in Request :
  /\ request[q].wrote
  /\ \/ request[q].ask.op = "delete_resource" /\ request[q].ask.resource = r
     \/ request[q].ask.op = "detach" /\ request[q].ask.resource = r
        /\ request[q].ask.service = s

\* A new resource that is reported as created performs every service that was
\* asked for, unless another request has undone it.
CreatedMeansAttached ==
  \A q \in Request :
    /\ request[q].pc = "invalidate" /\ request'[q].answer = "OK"
    /\ request[q].ask.op = "create_resource"
    => \A s \in request[q].ask.services, r \in request[q].rows :
         <<r, s>> \in performs \/ Undone(r, s)

\* What the tables promise of every state, whatever edits are under way.
HoursStayConsistent == TypeOK /\ ScopesAreOwn /\ OneExceptionPerDay /\ StaleOnlyMidEdit

\* What they promise of every step: an edit of several statements is made as a whole.
EditsAreWhole == CreatedMeansAttached /\ ReplacedAsAWhole /\ OtherScopesKept
=============================================================================
