------------------------------- MODULE MCHours -------------------------------
(* What TLC is given for Hours.                                            *)

CONSTANTS None, p1, p2

b1 == "b1"
b2 == "b2"
b3 == "b3"
h1 == "h1"
h2 == "h2"
x1 == "x1"
s1 == "s1"
d1 == "d1"
sunday == "sunday"

\* b1 is booked; b2 is not; b3 belongs to the other provider; b4 is a new one's.
Bays == { b1, b2, b3, "b4" }
Offers == { s1, "s2" }
FewRows == { h1, h2, "h3" }
Rows == FewRows \cup { "h4", "h5", "h6" }
WhoOwns == [ r \in Bays |-> IF r = b3 THEN p2 ELSE p1 ]

At(opens, closes) == [ day |-> sunday, opens |-> opens, closes |-> closes ]

Hour(p, r, span) == [ provider |-> p, resource |-> r, span |-> span ]

\* The shop is open all day, b2 has hours of its own.
SomeWeek(rows) ==
  { [ h \in rows |-> CASE h = h1 -> Hour(p1, None, At(0, 2))
                      [] h = h2 -> Hour(p1, b2, At(1, 2))
                      [] OTHER  -> None ] }

Creates == { [ op |-> "create_resource", provider |-> p1, services |-> S ] :
             S \in { {s1}, Offers } }
Resources == { [ op |-> op, provider |-> p1, resource |-> r ] :
               op \in {"update_resource", "delete_resource"}, r \in {b1, b2} }
Attachments == { [ op |-> op, provider |-> p1, resource |-> r, service |-> s1 ] :
                 op \in {"attach", "detach"}, r \in {b2, b3} }
NewSpans == { [ op |-> "create_hours", provider |-> p1, resource |-> r, span |-> span ] :
              r \in {None, b2, b3}, span \in { At(1, 2), At(2, 1), At(1, 3) } }
Replacements(Scopes) ==
  { [ op |-> "replace_hours", provider |-> p1, resource |-> r, week |-> week ] :
    r \in Scopes, week \in { {}, {At(0, 1), At(1, 2)}, {At(0, 2)} } }
Overlapping == { [ op |-> "replace_hours", provider |-> p1, resource |-> None,
                   week |-> {At(0, 2), At(1, 2)} ] }
Patches == { [ op |-> "update_hours", provider |-> p1, row |-> h1,
               patch |-> [ opens |-> opens, closes |-> closes ] ] :
             opens \in {None, 1}, closes \in {None, 1} }
Removals == { [ op |-> "delete_hours", provider |-> p1, row |-> h ] : h \in {h1, h2} }
DayOff(p, r, span) == [ op |-> "create_exception", provider |-> p, resource |-> r,
                        date |-> d1, span |-> span ]
Exceptions == { DayOff(p1, r, span) : r \in {None, b2}, span \in { None, At(0, 3) } }
              \cup { DayOff(p1, None, At(0, 1)), DayOff(p2, None, None) }
Reopenings == { [ op |-> "delete_exception", provider |-> p1, row |-> x1 ] }

ResourceAsks == Creates \cup Resources \cup Attachments \cup Exceptions \cup Reopenings
                \cup { ask \in NewSpans : ask.resource # None }
WeekAsks == Replacements({None, b2}) \cup Overlapping \cup NewSpans \cup Patches
            \cup Removals \cup { ask \in Resources : ask.op = "delete_resource" }
=============================================================================
