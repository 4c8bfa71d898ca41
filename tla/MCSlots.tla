------------------------------- MODULE MCSlots -------------------------------
(* What TLC is given for Slots: the days of a small week, 12 units long.   *)
EXTENDS Integers

CONSTANT None

DayLength == 12
r1 == "r1"
r2 == "r2"

Zulu == [ before |-> 0, at |-> 0, after |-> 0 ]
West == [ before |-> -4, at |-> 0, after |-> -4 ]

\* The clock is put forward or back in the day number 1, east and west of UTC.
EastForward == [ before |-> 2, at |-> 14, after |-> 4 ]
EastBack == [ before |-> 4, at |-> 14, after |-> 2 ]
WestForward == [ before |-> -4, at |-> 20, after |-> -2 ]
WestBack == [ before |-> -2, at |-> 20, after |-> -4 ]

Hours(r, weekday, opens, closes) ==
  [ resource |-> r, weekday |-> weekday, opens |-> opens, closes |-> closes ]
ExceptionFor(r, opens, closes) ==
  [ resource |-> r, day |-> 1, opens |-> opens, closes |-> closes ]
Busy(r, from, to) == [ resource |-> r, from |-> from, to |-> to ]

SomeWeeks == { {Hours(None, 1, 2, 9)}, {Hours(None, 1, 2, 5), Hours(None, 1, 7, 11)},
           {Hours(None, 1, 0, 12), Hours(r1, 1, 3, 8)}, {Hours(r1, 0, 1, 8)},
           {Hours(None, 1, 1, 10), Hours(r2, 0, 2, 8)} }
Overrides == { {}, {ExceptionFor(None, None, None)},
               {ExceptionFor(None, 8, 12), ExceptionFor(r1, None, None)},
               {ExceptionFor(r1, 1, 6)} }
Occupied == { {}, {Busy(r1, 15, 17)}, {Busy(r1, 12, 13), Busy(r2, 16, 20)} }

OneCall(week, overrides, busy, zone, duration, earliest, forBooking) ==
  [ resources |-> {r1, r2}, hours |-> week, exceptions |-> overrides, busy |-> busy,
    zone |-> zone, asked |-> 1, duration |-> duration, earliest |-> earliest,
    date |-> IF forBooking THEN DayLength + 3 - zone.before ELSE DayLength,
    forBooking |-> forBooking ]

\* A customer browses east of UTC, or books anywhere.
EastZones == { Zulu, EastForward, EastBack }
AllZones == EastZones \cup { West, WestForward, WestBack }
SomeCalls ==
  { OneCall(week, overrides, busy, zone, duration, earliest, forBooking) :
    week \in SomeWeeks, overrides \in Overrides, busy \in Occupied, zone \in EastZones,
    duration \in {1, 3}, earliest \in {0, 16}, forBooking \in BOOLEAN }
  \cup { OneCall(week, overrides, busy, zone, duration, 0, TRUE) :
         week \in SomeWeeks, overrides \in Overrides, busy \in Occupied,
         zone \in AllZones, duration \in {0, 1, 3} }

\* Every window of a day, for the arithmetic of the loop.
Spans1 == { <<a, b>> \in (0..12) \X (0..12) : a < b }
WindowCalls ==
  { OneCall({Hours(None, 1, span[1], span[2])}, {}, {}, zone, duration, 0, TRUE) :
    span \in Spans1, zone \in AllZones, duration \in {1, 2, 4} }

WestCalls == { OneCall({Hours(None, d, 2, 9) : d \in {0, 1}}, {}, {}, West, 2, 0, FALSE) }
=============================================================================
