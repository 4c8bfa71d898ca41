------------------------------- MODULE MCHttp -------------------------------
(* The HTTP layer for TLC: the middleware that lets a request in, the       *)
(* paginated listings, and the figures of the dashboard (growth).  They     *)
(* share no variable of the program: a behaviour is of one `part'.          *)
EXTENDS Access, TLC

CONSTANTS Parts,  \* the parts to be checked
          Client  \* the clients that read listings

VARIABLES part, table, client, edits, services, month, reader

Rows == INSTANCE MCListings
Months == INSTANCE MCGrowth

\* Services with equal prices and names; bookings, and the listings of the console.
Services == INSTANCE Listings WITH
  Row <- Rows!Row, Tables <- Rows!SomeServices, Arrivals <- Rows!NewServices,
  Listing <- { "services" }, Statuses <- { "open", "closed", "any" }, Either <- "any",
  Limits <- { 1, 3 }, Offsets <- { 0 }, MaxLimit <- 2, Width <- 4, MaxEdits <- 2
Bookings == INSTANCE Listings WITH
  Row <- Rows!Row, Tables <- Rows!SomeBookings, Arrivals <- Rows!NewBookings,
  Listing <- { "provider_bookings", "customer_bookings", "all_bookings", "providers",
               "users" },
  Statuses <- { "open", "closed", "any" }, Either <- "any",
  Limits <- { 1, 2, 3 }, Offsets <- { 0 }, MaxLimit <- 2, Width <- 4, MaxEdits <- 2

Growth == INSTANCE Growth WITH
  Row <- Months!Row, Category <- { "c1", "c2" }, Catalogs <- Months!SomeCatalogs,
  Window <- 2, MaxEdits <- 2, MaxTicks <- 1, now <- month, request <- reader

ASSUME InputAssumption == /\ Services!ListingsAssumption /\ Bookings!ListingsAssumption
                          /\ Growth!GrowthAssumption

listing == <<table, client>>
figures == <<services, month, reader>>
allVars == <<vars, part, listing, figures, edits>>

MCInit ==
  /\ part \in Parts
  /\ Init
  /\ part \in { "access", "growth" } => table = None /\ client = None
  /\ part = "access" => edits = None
  /\ part = "services" => Services!Init
  /\ part = "bookings" => Bookings!Init
  /\ IF part = "growth" THEN Growth!Init
     ELSE services = None /\ month = None /\ reader = None
  /\ part # "access" => members = [u \in User |-> [p \in Provider |-> None]]

AccessNext == part = "access" /\ Next /\ UNCHANGED <<part, listing, figures, edits>>
ListingNext == /\ \/ part = "services" /\ Services!Next
                  \/ part = "bookings" /\ Bookings!Next
               /\ UNCHANGED <<part, vars, figures>>
GrowthNext == part = "growth" /\ Growth!Next /\ UNCHANGED <<part, vars, listing>>

MCNext == AccessNext \/ ListingNext \/ GrowthNext

MCSpec == MCInit /\ [][MCNext]_allVars

Symmetry == Permutations(Request) \cup Permutations(Token)

-----------------------------------------------------------------------------
\* A client that reads a table at rest sees every row that matches once; rows that
\* arrive hide no other, and while none leaves the total is never less than what the
\* page shows there is.  A service whose sort key is patched while a client pages is
\* not spoken of: it moves, and hides a row.  Of listings that sort by time alone this is
\* said of rows that do not begin together.
PagesAreComplete ==
  /\ part = "services" => /\ Services!TypeOK /\ Services!EachOnce
                          /\ Services!NothingMissed /\ Services!TotalCoversPage
  /\ part = "bookings" => /\ Bookings!TypeOK /\ Bookings!EachOnce
                          /\ Bookings!NothingMissed /\ Bookings!TotalCoversPage

\* At rest the figures of the dashboard describe one catalog; while services are created
\* the later figures are ahead of the earlier, never behind.
FiguresAddUp ==
  part = "growth" => Growth!TypeOK /\ Growth!AddsUp /\ Growth!NeverBehind
=============================================================================
