----------------------------- MODULE MCCatalog -----------------------------
(* What TLC is given for Catalog.                                          *)
EXTENDS Sequences, Functions, TLC

CONSTANT None

wash == "wash"
fix == "fix"
size == "size"
extras == "extras"
note == "note"
heated == "heated"
s1 == "s1"

Alpha == <<"", " ", "l", "s">>
Trims == [ t \in Range(Alpha) |-> IF t = " " THEN "" ELSE t ]

Yes == [ as |-> "bool", of |-> <<"s">> ]
Str(t) == [ as |-> "string", of |-> <<t>> ]
List(of) == [ as |-> "list", of |-> of ]

Def(c, k, scope, type, options, required) ==
  [ category |-> c, key |-> k, scope |-> scope, type |-> type, options |-> options,
    required |-> required ]

SeedRows ==
  [ category |-> (wash :> [slug |-> "wash", parent |-> None])
                 @@ (fix :> [slug |-> "fix", parent |-> wash]),
    definition |-> (size :> Def(wash, "size", "service", "enum", <<"s", "l">>, TRUE))
                   @@ (extras :> Def(wash, "extras", "service", "multi_enum", <<"s", "l">>, FALSE))
                   @@ (note :> Def(fix, "note", "service", "text", None, FALSE))
                   @@ (heated :> Def(fix, "heated", "service", "bool", None, FALSE)),
    service |-> (s1 :> [ provider |-> "p", category |-> wash, attributes |-> [ size |-> Str("s") ] ]) ]

Empty == [ k \in {} |-> None ]

\* One map that fits each category, or breaks a rule of the validator.
Maps ==
  { Empty, [ size |-> Str("l") ], [ size |-> None ], [ size |-> Str(" ") ],
    [ size |-> Str("s"), extras |-> List(<<"s", "l">>) ],
    [ size |-> Str("s"), extras |-> List(<<"s", "s">>) ],
    [ size |-> Str("s"), note |-> Str("s") ],
    [ size |-> Str("s"), extras |-> Str("s") ],
    [ note |-> Str(" ") ], [ note |-> List(<<>>) ], [ note |-> None ],
    [ note |-> Str("s"), heated |-> Yes ], [ note |-> Yes ], [ heated |-> Str("s") ] }

FewMaps == { Empty, [ size |-> Str("l") ],
             [ size |-> Str("s"), extras |-> List(<<"s", "l">>) ], [ note |-> Str(" ") ], [ note |-> None ] }

ServiceAsk(op, p, s, c, m) ==
  [ op |-> op, provider |-> p, service |-> s, category |-> c, attributes |-> m ]

Creates(Category, maps) ==
  { ServiceAsk("create_service", "p", None, c, m) : c \in Category, m \in maps }
Updates(Category, maps) ==
  { ServiceAsk("update_service", "p", s1, c, m) :
    c \in Category \cup {None}, m \in maps \cup {None} }
Deletes == { ServiceAsk("delete_service", p, s1, None, None) : p \in {"p", "other"} }
Foreign == { ServiceAsk("update_service", "other", s1, fix, None) }

OfCategory(op, c, slug, parent) ==
  [ op |-> op, provider |-> None, category |-> c, slug |-> slug, parent |-> parent ]
Categories(Category) ==
  { OfCategory("create_category", None, slug, parent) : slug \in {"", "wash", "new"},
                                                        parent \in {None, wash} }
  \cup { OfCategory("update_category", fix, slug, parent) : slug \in {None, "", "wash", "new"},
                                                            parent \in {None, wash, fix} }
  \cup { OfCategory("delete_category", c, None, None) : c \in Category }

Attribute(op, d, c, k, scope, type, options, required) ==
  [ op |-> op, provider |-> None, definition |-> d, category |-> c, key |-> k, scope |-> scope,
    type |-> type, options |-> options, required |-> required ]
Lists == { <<"s">>, <<"s", "s">>, <<" ">>, <<>> }
NewAttributes(Category) ==
  { Attribute("create_attribute", None, c, k, scope, type, options, TRUE) :
      c \in Category, k \in {"size", "note"}, scope \in {"service", "booking"},
      type \in {"text", "enum"}, options \in {None, <<"s">>, <<"s", "s">>} }
Edits ==
  { Attribute("update_attribute", d, None, None, None, type, options, None) :
      d \in {size, note}, type \in {None, "text", "enum", "multi_enum"},
      options \in Lists \cup {None} }
Removals == { Attribute("delete_attribute", d, None, None, None, None, None, None) : d \in {size, note} }

\* Any edit; all the ways to write a service; a few; edits of the definitions alone.
Three == { wash, fix, "c3" }
Two == { wash, fix }
AllAsks == Categories(Three) \cup NewAttributes(Three) \cup Edits \cup Removals
           \cup Creates(Three, FewMaps) \cup Updates(Three, FewMaps) \cup Deletes \cup Foreign
ServiceAsks == Creates(Two, Maps) \cup Updates(Two, Maps) \cup Deletes \cup Foreign
SomeServiceAsks == Creates(Two, FewMaps) \cup Updates(Two, FewMaps) \cup Deletes
=============================================================================
