----------------------------- MODULE MCListings -----------------------------
(* What TLC is given for Listings.                                         *)
EXTENDS Integers, TLC

CONSTANT None

r1 == "r1"
r2 == "r2"
r3 == "r3"
r4 == "r4"
Row == { r1, r2, r3, r4 }
open == "open"
closed == "closed"

At(key, name, status) == [ key |-> key, name |-> name, status |-> status ]

Table(rows) == [ r \in Row |-> IF r \in DOMAIN rows THEN rows[r] ELSE None ]

\* Services with equal prices, and equal names.
SomeServices ==
  { Table((r1 :> At(1, 1, open)) @@ (r2 :> At(1, n, open)) @@ (r3 :> At(1, m, closed))) :
    n \in 1..2, m \in 1..2 }

\* Bookings that begin one after another, or two of them together.
SomeBookings ==
  { Table((r1 :> At(1, 1, open)) @@ (r2 :> At(k, 1, s)) @@ (r3 :> At(3, 1, open))) :
    k \in 1..2, s \in {open, closed} }

\* What is created meanwhile, first or last in the order; or sent in a patch.
NewServices == { [ row |-> r4, content |-> content ] :
                 content \in { At(0, 1, open), At(4, 2, closed) } }
NewBookings == { [ row |-> r4, content |-> At(k, 1, s) ] :
                 k \in {0, 1, 4}, s \in {open, closed} }
=============================================================================
