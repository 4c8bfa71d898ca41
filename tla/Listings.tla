------------------------------ MODULE Listings ------------------------------
(***************************************************************************)
(* The paged listings: services of a provider, bookings of a provider, of  *)
(* a customer and of everyone, providers and users.  A request runs two    *)
(* statements, the page (ORDER BY, LIMIT, OFFSET) and the count, with no   *)
(* transaction around them, while rows come and go.  The client asks for   *)
(* page after page until it has what it was told there is.                 *)
(***************************************************************************)
EXTENDS Integers, FiniteSets, SequencesExt

CONSTANTS Row, Client,
          Tables,   \* what the table may hold at the start, [Row -> Content or None]
          Arrivals, \* the rows that may be inserted, with their content
          Listing,  \* the listings there are
          Statuses, \* what a client may filter by, Either among it
          Either,      \* no filter
          Limits,   \* the limits a client may ask for
          Offsets,  \* the offsets at which a client may begin
          MaxLimit, \* 100
          Width,    \* the width of int32
          MaxEdits, \* bound on insertions and departures
          None

\* key: what the listing sorts by; name: the second column of the services' ORDER BY.
Content == [ key : Nat, name : Nat, status : Statuses \ {Either} ]

ListingsAssumption ==
  /\ \A t \in Tables : t \in [Row -> Content \cup {None}]
  /\ \A a \in Arrivals : a.row \in Row /\ a.content \in Content
  /\ Listing \subseteq {"services", "provider_bookings", "customer_bookings",
                        "all_bookings", "providers", "users"}
  /\ Limits \subseteq Nat \ {0} /\ Offsets \subseteq Nat
  /\ MaxLimit \in Nat \ {0} /\ Width \in Nat \ {0} /\ MaxEdits \in Nat
  /\ None \notin Content

VARIABLES
  table,  \* the table the listing is of
  client, \* [Client -> what it has asked for and been told]
  edits

vars == <<table, client, edits>>

-----------------------------------------------------------------------------
(* httpx.ParsePage and the ORDER BY clauses.                               *)

Wrap(x) == ((x + 2^(Width - 1)) % 2^Width) - 2^(Width - 1)

ParsePage(limit, offset) ==
  [ limit |-> IF limit <= MaxLimit THEN limit ELSE MaxLimit, offset |-> Wrap(offset) ]

\* ListServicesPage clamps again.
Clamped(page) == IF page.offset < 0 THEN [page EXCEPT !.offset = 0] ELSE page

Matches(row, status) == row # None /\ (status = Either \/ row.status = status)

Found(status) == { r \in Row : Matches(table[r], status) }

\* ids are compared last, and only for services; Order is the order of the ids.
Order == CHOOSE f \in [Row -> 1..Cardinality(Row)] : IsInjective(f)

\* Mutant: the services are sorted by the column and the name only.
ByNameOnly(a, b) ==
  table[a].key = table[b].key /\ table[a].name < table[b].name

\* s.name ASC, s.id ASC, when the column does not decide.
TieBreak(a, b) ==
  /\ table[a].key = table[b].key
  /\ \/ table[a].name < table[b].name
     \/ table[a].name = table[b].name /\ Order[a] < Order[b]

Earlier(a, b) == table[a].key < table[b].key

ListServicesPage(desc, a, b) ==
  (IF desc THEN Earlier(b, a) ELSE Earlier(a, b)) \/ TieBreak(a, b)
ListBookingsByProvider(a, b) == Earlier(a, b)  \* ORDER BY starts_at
ListBookingsByCustomer(a, b) == Earlier(b, a)  \* ORDER BY starts_at DESC
ListAllBookings(a, b)        == Earlier(b, a)  \* ORDER BY starts_at DESC
ListProviders(a, b)          == Earlier(b, a)  \* ORDER BY created_at DESC
ListUsers(a, b)              == Earlier(b, a)  \* ORDER BY created_at DESC

\* a certainly comes before b.
Before(l, desc, a, b) ==
  CASE l = "services"          -> ListServicesPage(desc, a, b)
    [] l = "provider_bookings" -> ListBookingsByProvider(a, b)
    [] l = "customer_bookings" -> ListBookingsByCustomer(a, b)
    [] l = "all_bookings"      -> ListAllBookings(a, b)
    [] l = "providers"         -> ListProviders(a, b)
    [] l = "users"             -> ListUsers(a, b)

\* Rows that the ORDER BY does not tell apart may come in any order.
Sorted(l, desc, rows) ==
  { s \in SetToSeqs(rows) :
      \A i, j \in DOMAIN s : i < j => ~Before(l, desc, s[j], s[i]) }

\* LIMIT limit OFFSET offset.
Slice(s, page) ==
  [ i \in 1..Min({page.limit, Len(s) - page.offset}) |-> s[page.offset + i] ]

-----------------------------------------------------------------------------
(* A client.  start, apart, gone, shifted, moved: history, what it would   *)
(* have found when it began, whether the ORDER BY has told its rows apart  *)
(* so far, and whether a row has left the listing, a row of it has been    *)
(* given another place, or the table has changed at all, since.            *)

\* Services are sorted by their ids at last, but bookings by starts_at only, and two
\* bays are booked for the same start.
Apart(l, status, rows) ==
  l = "services" \/ \A a, b \in { r \in Row : Matches(rows[r], status) } :
                     a # b => rows[a].key # rows[b].key

NoClient == [ pc |-> "idle", listing |-> None, desc |-> FALSE, status |-> Either,
              page |-> None, rows |-> <<>>, total |-> 0, seen |-> <<>>,
              start |-> {}, apart |-> TRUE, gone |-> FALSE, shifted |-> FALSE,
              moved |-> FALSE ]

Open(c, l, desc, status, page) ==
  /\ l \in Listing /\ client[c].pc = "idle"
  /\ client' = [client EXCEPT ![c] =
       [NoClient EXCEPT !.pc = "query", !.listing = l, !.desc = desc,
                        !.status = status, !.page = page, !.start = Found(status),
                        !.apart = Apart(l, status, table)]]
  /\ UNCHANGED <<table, edits>>

listServices(c, status, page) ==
  \E desc \in BOOLEAN : Open(c, "services", desc, status, Clamped(page))
listOrgBookings(c, status, page) == Open(c, "provider_bookings", FALSE, status, page)
listMyBookings(c, status, page) == Open(c, "customer_bookings", FALSE, status, page)
listAllBookings(c, status, page) == Open(c, "all_bookings", FALSE, status, page)
listProviders(c, status, page) == Open(c, "providers", FALSE, status, page)
\* Users are searched by name, which every row matches or the listing is empty.
listUsers(c, page) == Open(c, "users", FALSE, Either, page)

\* Postgres refuses a negative OFFSET.
Query(c) ==
  LET q == client[c] IN
  /\ q.pc = "query"
  /\ IF q.page.offset < 0
     THEN client' = [client EXCEPT ![c].pc = "failed"]
     ELSE \E s \in Sorted(q.listing, q.desc, Found(q.status)) :
            client' = [client EXCEPT ![c].pc = "count", ![c].rows = Slice(s, q.page)]
  /\ UNCHANGED <<table, edits>>

\* The count has the filters of the page.
Count(c) ==
  /\ client[c].pc = "count"
  /\ client' = [client EXCEPT ![c].pc = "read",
                              ![c].total = Cardinality(Found(client[c].status))]
  /\ UNCHANGED <<table, edits>>

\* The client reads the answer: its rows, the total, and the limit and offset used.
Read(c) ==
  LET q == client[c]  next == q.page.offset + q.page.limit IN
  /\ q.pc = "read"
  /\ client' = [client EXCEPT ![c].seen = @ \o q.rows,
                  ![c].pc = IF next < q.total THEN "query" ELSE "done",
                  ![c].page.offset = IF next < q.total THEN next ELSE @]
  /\ UNCHANGED <<table, edits>>

Reading(c) == client[c].pc \in {"query", "count", "read"}

StillApart(c) == Reading(c) => Apart(client[c].listing, client[c].status, table')

Insert(a) ==
  /\ edits < MaxEdits /\ table[a.row] = None
  /\ table' = [table EXCEPT ![a.row] = a.content]
  /\ client' = [c \in Client |->
       [client[c] EXCEPT !.moved = @ \/ Reading(c), !.apart = @ /\ StillApart(c)]]
  /\ edits' = edits + 1

\* What row r holds becomes something else.
Change(r, content) ==
  LET Listed(c) == Reading(c) /\ Matches(table[r], client[c].status)
      Stays(c) == Matches(content, client[c].status)
  IN
  /\ edits < MaxEdits /\ content # table[r]
  /\ table' = [table EXCEPT ![r] = content]
  /\ client' = [c \in Client |->
       [client[c] EXCEPT
          !.gone = @ \/ (Listed(c) /\ ~Stays(c)),
          !.shifted = @ \/ (Listed(c) /\ Stays(c) /\
             <<content.key, content.name>> # <<table[r].key, table[r].name>>),
          !.moved = @ \/ Reading(c),
          !.apart = @ /\ StillApart(c)]]
  /\ edits' = edits + 1

\* A patch of a service: its name, price, duration or category, by which it is sorted,
\* and its category or is_active, by which it is found.  What is not sent is kept.
UpdateService(r, sent, fields) ==
  /\ "services" \in Listing /\ table[r] # None
  /\ Change(r, [f \in DOMAIN sent |-> IF f \in fields THEN sent[f] ELSE table[r][f]])

\* A row is deleted, or the status of a booking, a provider or a user changes; when
\* they begin, or were created, does not.
Leave(r) ==
  /\ table[r] # None
  /\ \/ Change(r, None)
     \/ /\ "services" \notin Listing
        /\ \E status \in Statuses \ {Either} : Change(r, [table[r] EXCEPT !.status = status])

Init ==
  /\ table \in Tables
  /\ client = [c \in Client |-> NoClient]
  /\ edits = 0

Edit ==
  \/ \E a \in Arrivals : Insert(a)
  \/ \E r \in Row, a \in Arrivals, fields \in SUBSET {"key", "name", "status"} :
       UpdateService(r, a.content, fields)
  \/ \E r \in Row : Leave(r)

Page(c) ==
  \/ \E status \in Statuses, limit \in Limits, offset \in Offsets :
       LET page == ParsePage(limit, offset) IN
       \/ listServices(c, status, page) \/ listOrgBookings(c, status, page)
       \/ listMyBookings(c, status, page) \/ listAllBookings(c, status, page)
       \/ listProviders(c, status, page) \/ listUsers(c, page)
  \/ Query(c) \/ Count(c) \/ Read(c)

Next == Edit \/ \E c \in Client : Page(c)

Spec == Init /\ [][Next]_vars

-----------------------------------------------------------------------------
(* Properties.                                                             *)

\* Rows, pages and requests have their types.
TypeOK ==
  /\ table \in [Row -> Content \cup {None}] /\ edits \in 0..MaxEdits
  /\ \A c \in Client :
       /\ client[c].pc \in {"idle", "query", "count", "read", "done", "failed"}
       /\ client[c].rows \in Seq(Row) /\ client[c].seen \in Seq(Row)
       /\ client[c].total \in 0..Cardinality(Row)
       /\ client[c].pc # "idle" => client[c].page.limit \in 1..MaxLimit

\* Nothing changed while a client read the listing from its start: then it has seen
\* every row that matches, and none twice, when the listing tells them apart.
EachOnce ==
  \A c \in Client :
    client[c].pc = "done" /\ ~client[c].moved /\ client[c].apart =>
      /\ IsInjective(client[c].seen)
      /\ 0 \in Offsets => ToSet(client[c].seen) = client[c].start

\* Rows may arrive, or be edited where they stand, while a client pages through: it may
\* see one twice, but of those that were there when it began it misses none, unless a
\* row of the listing has left it or has been given another place by a patch.
NothingMissed ==
  \A c \in Client :
    client[c].pc = "done" /\ ~client[c].gone /\ ~client[c].shifted /\ client[c].apart =>
      client[c].start \subseteq ToSet(client[c].seen)

\* The total is never less than what the page shows there is, unless a row has left.
TotalCoversPage ==
  \A c \in Client :
    client[c].pc = "read" /\ ~client[c].gone /\ client[c].rows # <<>> =>
      client[c].page.offset + Len(client[c].rows) <= client[c].total
=============================================================================
