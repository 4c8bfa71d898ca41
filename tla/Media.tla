-------------------------------- MODULE Media --------------------------------
(***************************************************************************)
(* A provider's pictures (internal/media): the galleries of its services   *)
(* and its logo, as rows of the database and bytes in a storage that no    *)
(* transaction spans.  One key stands for the stored file, for the row     *)
(* that is inserted with it and for the value of the column that names it: *)
(* Save generates a fresh one and nothing else refers to it.               *)
(***************************************************************************)
EXTENDS Integers, FiniteSets

CONSTANTS Image, Service, Request,
          Asks,          \* what the requests may ask for
          Galleries,     \* the galleries that may exist at the start
          MaxPerService,
          MaxFaults,     \* bound on calls that fail without effect
          MaxLost,       \* bound on calls that take effect and seem to fail
          None           \* NULL

\* `legible' says whether Inspect accepts the bytes.
Ask == [ op : {"upload", "update", "delete", "set_logo", "clear_logo", "delete_service"},
         service : Service, image : Image \cup {None}, sort : Int, legible : BOOLEAN ]

Row == [ service : Service, sort : Int, created : Int, after : SUBSET Image,
         moved : BOOLEAN ]

\* ListServiceMedia: ORDER BY sort_order, created_at.
Before(rows, m, n) ==
  \/ rows[m].sort < rows[n].sort
  \/ rows[m].sort = rows[n].sort /\ rows[m].created < rows[n].created

\* Who came later is shown later, unless one of the two was moved.
InOrder(rows) ==
  \A n \in Image : rows[n] # None =>
    \A m \in rows[n].after :
      rows[m] # None /\ ~rows[m].moved /\ ~rows[n].moved => Before(rows, m, n)

MediaAssumption ==
  /\ Asks \subseteq Ask
  /\ \A ask \in Asks : ask.op \in {"update", "delete"} => ask.image \in Image
  /\ \A g \in Galleries : /\ g \in [Image -> Row \cup {None}] /\ InOrder(g)
                          /\ IsFiniteSet({ m \in Image : g[m] # None })
                          /\ \A m \in Image : g[m] # None =>
                               \A n \in g[m].after : g[n] # None
  /\ MaxPerService \in Nat /\ MaxFaults \in Nat /\ MaxLost \in Nat
  /\ None \notin Image /\ None \notin Row /\ None \notin Ask

VARIABLES
  service, \* the services that exist
  row,     \* the table service_media, [Image -> Row or None]
  logo,    \* providers.logo_public_id (the cover works the same way)
  file,    \* the keys whose bytes are stored
  used,    \* the keys ever generated
  clock,   \* created_at, a counter
  request, faults, lost

vars == <<service, row, logo, file, used, clock, request, faults, lost>>
budget == <<faults, lost>>

Rows(s) == { m \in Image : row[m] # None /\ row[m].service = s }

-----------------------------------------------------------------------------
(* `known' and `stale' are history: the rows there were when the request    *)
(* arrived, and whether the gallery grew after the request had counted it.  *)

NoRequest == [ pc |-> "idle", ask |-> None, image |-> None, sort |-> 0,
               previous |-> None, known |-> {}, stale |-> FALSE, answer |-> None ]

Goto(q, label) == request' = [request EXCEPT ![q].pc = label]

Answer(q, code) ==
  request' = [request EXCEPT ![q].pc = "done", ![q].answer = code]

Busy(q) == request[q].pc \notin {"idle", "done"}

First(op) ==
  CASE op = "upload"                      -> "owned"
    [] op \in {"set_logo", "clear_logo"}  -> "previous"
    [] OTHER                              -> op

Arrive(q) ==
  /\ request[q].pc = "idle"
  /\ \E ask \in Asks :
       request' = [request EXCEPT ![q].ask = ask, ![q].pc = First(ask.op),
                                  ![q].known = Rows(ask.service)]
  /\ UNCHANGED <<service, row, logo, file, used, clock, budget>>

-----------------------------------------------------------------------------
(* Uploads.                                                                *)

\* assertOwned: the service exists and is the caller's.
ServiceExistsForProvider(q) ==
  /\ request[q].pc = "owned"
  /\ IF request[q].ask.service \in service THEN Goto(q, "count")
                                           ELSE Answer(q, "NOT_FOUND")
  /\ UNCHANGED <<service, row, logo, file, used, clock, budget>>

\* Mutant: the limit is off by one.
FullTooLate(s) == Cardinality(Rows(s)) > MaxPerService

Full(s) == Cardinality(Rows(s)) >= MaxPerService

\* The count, and Inspect after it, which reads only the bytes.
CountServiceMedia(q) ==
  LET ask == request[q].ask IN
  /\ request[q].pc = "count"
  /\ CASE Full(ask.service) -> Answer(q, "CONFLICT")
       [] ~Full(ask.service) /\ ~ask.legible -> Answer(q, "VALIDATION")
       [] OTHER -> Goto(q, "save")
  /\ UNCHANGED <<service, row, logo, file, used, clock, budget>>

\* Storage.Save: fresh bytes under a generated key.
Save(q) ==
  /\ request[q].pc = "save"
  /\ \E m \in Image \ used :
       /\ used' = used \cup {m}
       /\ file' = file \cup {m}
       /\ request' = [request EXCEPT ![q].image = m,
            ![q].pc = IF request[q].ask.op = "upload" THEN "sort" ELSE "write"]
  /\ UNCHANGED <<service, row, logo, clock, budget>>

\* COALESCE(max(sort_order) + 1, 0)
NextSortOrder(s) ==
  IF Rows(s) = {} THEN 0
  ELSE 1 + CHOOSE n \in { row[m].sort : m \in Rows(s) } : \A m \in Rows(s) : row[m].sort <= n

NextServiceMediaSortOrder(q) ==
  /\ request[q].pc = "sort"
  /\ request' = [request EXCEPT ![q].pc = "insert",
                                ![q].sort = NextSortOrder(request[q].ask.service)]
  /\ UNCHANGED <<service, row, logo, file, used, clock, budget>>

\* The effect of the INSERT, after which every other count is out of date.
Insert(q) ==
  LET ask == request[q].ask IN
  /\ row' = [row EXCEPT ![request[q].image] =
       [ service |-> ask.service, sort |-> request[q].sort, created |-> clock,
         after |-> request[q].known, moved |-> FALSE ]]
  /\ clock' = clock + 1

Counted(q) == request[q].pc \in {"save", "sort", "insert"} /\ request[q].ask.op = "upload"

AfterInsert(q, label, code) ==
  request' = [p \in Request |->
    IF p = q THEN [request[q] EXCEPT !.pc = label, !.answer = code]
    ELSE [request[p] EXCEPT !.stale = @ \/ Counted(p)]]

\* The service may have been deleted: then the foreign key refuses the row.
CreateServiceMedia(q) ==
  /\ request[q].pc = "insert"
  /\ \/ /\ request[q].ask.service \in service
        /\ Insert(q)
        /\ AfterInsert(q, "done", "OK")
     \/ /\ request[q].ask.service \notin service
        /\ Goto(q, "cleanup")
        /\ UNCHANGED <<row, clock>>
  /\ UNCHANGED <<service, logo, file, used, budget>>

\* The bytes of a picture that was not recorded are dropped again.
CleanUp(q) ==
  /\ request[q].pc = "cleanup"
  /\ file' = file \ {request[q].image}
  /\ Answer(q, "INTERNAL")
  /\ UNCHANGED <<service, row, logo, used, clock, budget>>

-----------------------------------------------------------------------------
(* The other requests about galleries.                                     *)

\* One UPDATE that moves the picture in the display order.
UpdateServiceMedia(q) ==
  LET m == request[q].ask.image IN
  /\ request[q].pc = "update"
  /\ \/ /\ row[m] # None
        /\ row' = [row EXCEPT ![m].sort = request[q].ask.sort, ![m].moved = TRUE]
        /\ Answer(q, "OK")
     \/ row[m] = None /\ Answer(q, "NOT_FOUND") /\ UNCHANGED row
  /\ UNCHANGED <<service, logo, file, used, clock, budget>>

\* Mutant: the bytes are removed first.
BytesBeforeRow(q) ==
  LET m == request[q].ask.image IN
  /\ request[q].pc = "delete"
  /\ IF row[m] # None /\ m \in file
     THEN /\ file' = file \ {m}
          /\ UNCHANGED <<row, request>>
     ELSE /\ row' = [row EXCEPT ![m] = None]
          /\ Answer(q, "OK")
          /\ UNCHANGED file
  /\ UNCHANGED <<service, logo, used, clock, budget>>

\* The row, by a DELETE that returns the key; the bytes are next.
DeleteServiceMedia(q) ==
  LET m == request[q].ask.image IN
  /\ request[q].pc = "delete"
  /\ \/ /\ row[m] # None
        /\ row' = [row EXCEPT ![m] = None]
        /\ request' = [request EXCEPT ![q].pc = "discard", ![q].previous = m]
     \/ row[m] = None /\ Answer(q, "NOT_FOUND") /\ UNCHANGED row
  /\ UNCHANGED <<service, logo, file, used, clock, budget>>

\* catalog.DeleteService: the rows go with the service (ON DELETE CASCADE).
DeleteService(q) ==
  LET s == request[q].ask.service IN
  /\ request[q].pc = "delete_service"
  /\ service' = service \ {s}
  /\ row' = [m \in Image |-> IF m \in Rows(s) THEN None ELSE row[m]]
  /\ Answer(q, IF s \in service THEN "OK" ELSE "NOT_FOUND")
  /\ UNCHANGED <<logo, file, used, clock, budget>>

-----------------------------------------------------------------------------
(* The logo: the key it had is read first and dropped in the end.          *)

CurrentBranding(q) ==
  LET ask == request[q].ask
      next == [request EXCEPT ![q].previous = logo,
                 ![q].pc = IF ask.op = "set_logo" THEN "save" ELSE "write"]
  IN
  /\ request[q].pc = "previous"
  /\ IF ask.op = "set_logo" /\ ~ask.legible THEN Answer(q, "VALIDATION")
                                            ELSE request' = next
  /\ UNCHANGED <<service, row, logo, file, used, clock, budget>>

\* The key whose bytes have been replaced.
Replaced(q) == request[q].previous

WriteBranding(q) ==
  /\ request[q].pc = "write"
  /\ logo' = request[q].image
  /\ IF request[q].previous = None THEN Answer(q, "OK") ELSE Goto(q, "discard")
  /\ UNCHANGED <<service, row, file, used, clock, budget>>

\* storage.Delete of what was replaced or removed; a key that is gone is no error.
Discard(q) ==
  /\ request[q].pc = "discard"
  /\ file' = file \ {Replaced(q)}
  /\ Answer(q, "OK")
  /\ UNCHANGED <<service, row, logo, used, clock, budget>>

-----------------------------------------------------------------------------

\* What follows when a call fails: the bytes of a row or a column that could not
\* be written are dropped, a failed deletion of bytes is only logged.
AfterFailure(q) ==
  CASE request[q].pc = "insert" -> Goto(q, "cleanup")
    [] request[q].pc = "write" /\ request[q].image # None -> Goto(q, "cleanup")
    [] request[q].pc = "discard" -> Answer(q, "OK")
    [] OTHER -> Answer(q, "INTERNAL")

Fault(q) ==
  /\ Busy(q) /\ faults < MaxFaults
  /\ faults' = faults + 1
  /\ AfterFailure(q)
  /\ UNCHANGED <<service, row, logo, file, used, clock, lost>>

\* A statement has taken effect, and its answer is lost: the router's timeout
\* cancels the request, or the connection breaks.
AnswerLost(q) ==
  /\ lost < MaxLost
  /\ lost' = lost + 1
  /\ \/ /\ request[q].pc = "insert" /\ request[q].ask.service \in service
        /\ Insert(q)
        /\ AfterInsert(q, "cleanup", None)
        /\ UNCHANGED logo
     \/ /\ request[q].pc = "write"
        /\ logo' = request[q].image
        /\ AfterFailure(q)
        /\ UNCHANGED <<row, clock>>
  /\ UNCHANGED <<service, file, used, faults>>

-----------------------------------------------------------------------------

\* Earlier requests have left a gallery whose bytes are stored, and no logo.
Init ==
  /\ service = Service
  /\ row \in Galleries
  /\ file = { m \in Image : row[m] # None }
  /\ used = file
  /\ logo = None
  /\ clock = Cardinality(file)
  /\ request = [q \in Request |-> NoRequest]
  /\ faults = 0 /\ lost = 0

Step(q) ==
  \/ Arrive(q) \/ ServiceExistsForProvider(q) \/ CountServiceMedia(q) \/ Save(q)
  \/ NextServiceMediaSortOrder(q) \/ CreateServiceMedia(q) \/ CleanUp(q)
  \/ UpdateServiceMedia(q) \/ DeleteServiceMedia(q) \/ DeleteService(q)
  \/ CurrentBranding(q) \/ WriteBranding(q) \/ Discard(q)
  \/ Fault(q) \/ AnswerLost(q)

Next == \E q \in Request : Step(q)

Spec == Init /\ [][Next]_vars

-----------------------------------------------------------------------------
(* Properties.                                                             *)

Label == {"idle", "owned", "count", "save", "sort", "insert", "cleanup", "update",
          "delete", "previous", "write", "discard", "delete_service", "done"}

Code == {"OK", "NOT_FOUND", "CONFLICT", "VALIDATION", "INTERNAL"}

\* Every variable holds a value of its kind; a request that writes or cleans up
\* a picture has saved one.
TypeOK ==
  /\ service \subseteq Service
  /\ row \in [Image -> Row \cup {None}]
  /\ logo \in Image \cup {None}
  /\ file \subseteq used /\ used \subseteq Image
  /\ clock \in Nat /\ faults \in 0..MaxFaults /\ lost \in 0..MaxLost
  /\ request \in [Request ->
       [ pc : Label, ask : Asks \cup {None}, image : Image \cup {None}, sort : Int,
         previous : Image \cup {None}, known : SUBSET Image, stale : BOOLEAN,
         answer : Code \cup {None} ]]
  /\ \A q \in Request : request[q].pc \in {"sort", "insert", "cleanup"}
                          => request[q].image \in used

Referenced == { m \in Image : row[m] # None } \cup ({logo} \ {None})

\* "A failure between the two leaves an orphaned file rather than a row pointing
\* at nothing", and the same of the logo: whatever is uploaded, replaced, deleted
\* or fails at the same time, what a row or the column names is stored, as long as no
\* statement took effect and seemed to fail.
NoDangling == lost = 0 => Referenced \subseteq file

AtRest == \A q \in Request : ~Busy(q)

\* No call has failed without effect, and the requests so far are about the pictures of galleries.
GalleriesOnly ==
  /\ faults = 0
  /\ \A q \in Request : request[q].pc # "idle" =>
       request[q].ask.op \in {"upload", "update", "delete"}

\* The bytes go with the row: until a call fails, the logo is replaced or a service is
\* deleted, nothing is stored that nothing names once every request is answered.
NoLitter == GalleriesOnly /\ AtRest => file \subseteq Referenced

\* "MaxPerService stops one service turning into an unbounded photo dump": a
\* gallery grows beyond the limit only by an
\* upload whose count was overtaken by another one.
WithinLimitUnlessRaced ==
  \A s \in Service :
    Cardinality(Rows(s)') > Cardinality(Rows(s)) /\ Cardinality(Rows(s)') > MaxPerService
      => \E q \in Request : request[q].pc = "insert" /\ request'[q] # request[q]
                            /\ request[q].stale

\* "New images land after the ones already there": a picture is shown after every
\* one that was there when its upload arrived, unless one of the two was moved.
UploadOrderPreserved == InOrder(row)
=============================================================================
