------------------------------ MODULE MCGrowth ------------------------------
(* What TLC is given for Growth.                                           *)
EXTENDS Naturals

CONSTANT None

Row == { "r1", "r2", "r3" }

\* Services of every age, around both ends of a window of two months
\* that begins in month 2.
Ages == 1..4
SomeCatalogs ==
  { [ r \in Row |-> CASE r = "r1" -> [ created |-> a, active |-> TRUE, category |-> "c1" ]
                      [] r = "r2" -> [ created |-> b, active |-> FALSE, category |-> "c2" ]
                      [] OTHER  -> None ] :
    a \in Ages, b \in Ages }
=============================================================================
