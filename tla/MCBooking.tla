----------------------------- MODULE MCBooking -----------------------------
(* Instances of Booking for TLC.                                           *)
EXTENDS Booking, TLC

CONSTANTS c1, p1, p2, s1, s2

\* A customer's request, and a walk-in entered by the staff of org.
Self(s, start) == [ service |-> s, start |-> start, customer |-> c1,
                    org |-> None, resource |-> None ]
WalkIn(org, s, start, bay) == [ service |-> s, start |-> start,
                    customer |-> None, org |-> org, resource |-> bay ]

\* One provider with one service: customers race for overlapping slots.
OneOwner == [ s \in Service |-> p1 ]
OneBayOwner == [ b \in Resource |-> p1 ]
AllPerform == Service \X Resource
OpenFrom0 == [ b \in Resource |-> 0 ]
CloseAt2 == [ b \in Resource |-> 2 ]
CloseAt3 == [ b \in Resource |-> 3 ]
Uneven == [ b \in Resource |-> IF b = 1 THEN 3 ELSE 2 ]
Durations2 == {2}
Durations12 == {1, 2}
RaceInputs == { Self(s1, 0), Self(s1, 1), WalkIn(p1, s1, 0, 2) }
OneStart == { Self(s1, 0) }
ForeignWalkIn == { WalkIn(p2, s1, 0, None) }

Symmetry == Permutations(Request) \cup Permutations(Mover) \cup Permutations(Code)
=============================================================================
