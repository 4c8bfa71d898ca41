------------------------------- MODULE MCQuote -------------------------------
(* What TLC is given for Quote.                                            *)
EXTENDS Naturals, SequencesExt

CONSTANT None

p1 == "p1"
s1 == "s1"
s2 == "s2"
g1 == "g1"
g2 == "g2"
g3 == "g3"
o1 == "o1"
o2 == "o2"
o3 == "o3"
o4 == "o4"
Services == { s1, s2 }
Groups == { g1, g2, g3, "g4", "g5" }
Options == { o1, o2, o3, o4, "o5", "o6" }

\* s1 belongs to p1, s2 to p2.
WhoOwns == [ s \in Services |-> IF s = s1 THEN p1 ELSE "p2" ]

Row(price, duration, buffer) ==
  [ price |-> price, duration |-> duration, buffer |-> buffer ]
Grp(s, single, required, min, max) ==
  [ service |-> s, single |-> single, required |-> required, min |-> min, max |-> max ]
Opt(g, price, duration, active) ==
  [ group |-> g, price |-> price, duration |-> duration, active |-> active ]

Tables(Group, Option, rows, groups, options) ==
  [ service |-> rows,
    group   |-> [ g \in Group |-> IF g \in DOMAIN groups THEN groups[g] ELSE None ],
    option  |-> [ o \in Option |-> IF o \in DOMAIN options THEN options[o] ELSE None ] ]

Rows(row) == [ s \in Services |-> IF s = s1 THEN row ELSE Row(3, 2, 0) ]

\* Every group the CHECK constraints allow, on o1 and o2; a second one with o3, which
\* may be the other service's.
AllTrees ==
  { Tables(Groups, Options, Rows(Row(2, 2, 1)),
           (g1 :> first) @@ (g2 :> second),
           (o1 :> Opt(g1, price, duration, active)) @@ (o2 :> Opt(g1, 1, 1, TRUE))
             @@ (o3 :> Opt(g2, -1, 1, TRUE))) :
    first \in { row \in { Grp(s1, single, required, min, max) :
                          single \in BOOLEAN, required \in BOOLEAN,
                          min \in 0..2, max \in {1, 2, None} } :
              row.max # None => row.min <= row.max /\ (row.single => row.max = 1) },
    second \in { Grp(s1, FALSE, FALSE, 0, None), Grp(s2, FALSE, FALSE, 0, None) },
    price \in {-2, 3}, duration \in {-2, 0}, active \in BOOLEAN }

\* One required choice between o1 and o2, and an extra, o3; o4 is the other provider's.
SmallTree ==
  { Tables(Groups, Options, Rows(Row(2, 2, 1)),
           (g1 :> Grp(s1, TRUE, TRUE, 0, 1)) @@ (g2 :> Grp(s1, FALSE, FALSE, 0, None))
             @@ (g3 :> Grp(s2, FALSE, FALSE, 0, None)),
           (o1 :> Opt(g1, 1, 0, TRUE)) @@ (o2 :> Opt(g1, 2, 1, TRUE))
             @@ (o3 :> Opt(g2, -1, 1, TRUE)) @@ (o4 :> Opt(g3, 1, 1, TRUE))) }

\* Extras at the ends of the integers' range: their sums wrap, on the way or at last.
WideTrees ==
  { Tables(Groups, Options, Rows(Row(price, 2, buffer)),
           g1 :> Grp(s1, FALSE, FALSE, 0, None),
           (o1 :> Opt(g1, first, 31, TRUE)) @@ (o2 :> Opt(g1, second, -32, TRUE))
             @@ (o3 :> Opt(g1, third, 31, TRUE))) :
    price \in {0, 31}, buffer \in {1, 31},
    first \in {-32, 31}, second \in {-32, 1}, third \in {-32, 31} }

AllSelections == SeqOf({o1, o2, o3}, 3)
FewSelections == { <<>>, <<o1>>, <<o2>>, <<o1, o3>>, <<o1, o4>> }

Op(op, p, s) == [ op |-> op, provider |-> p, service |-> s ]
ServiceAsks ==
  { Op("update_service", p1, s) @@ [ patch |-> patch ] : s \in {s1, s2},
    patch \in { [ price |-> 4 ], [ duration |-> 3 ], [ price |-> 5, duration |-> 1 ] } }
  \cup { Op("delete_service", p1, s) : s \in {s1, s2} }
GroupAsks ==
  { Op("create_group", p1, s1) @@ [ row |-> row ] :
    row \in { Grp(s1, FALSE, TRUE, 1, 1), Grp(s1, TRUE, FALSE, 2, None),
              Grp(s1, TRUE, FALSE, 0, 2) } }
  \cup { Op("update_group", p1, s1) @@ [ group |-> g, patch |-> patch ] : g \in {g2, g3},
         patch \in { [ max |-> 1, min |-> 2 ], [ min |-> 2 ], [ required |-> TRUE ] } }
  \cup { Op("delete_group", p1, s1) @@ [ group |-> g ] : g \in {g1, g3} }
OptionAsks ==
  { Op("create_option", p1, s1) @@ [ group |-> g, row |-> Opt(g, 1, 1, TRUE) ] : g \in {g1, g3} }
  \cup { Op("update_option", p1, s1) @@ [ group |-> g, option |-> o, patch |-> patch ] :
         g \in {g1, g3}, o \in {o1, o4},
         patch \in { [ price |-> 3 ], [ active |-> FALSE ], [ duration |-> 2 ] } }
  \cup { Op("delete_option", p1, s1) @@ [ group |-> g, option |-> o ] :
         g \in {g1, g3}, o \in {o1, o4} }
AllAsks == ServiceAsks \cup GroupAsks \cup OptionAsks
=============================================================================
