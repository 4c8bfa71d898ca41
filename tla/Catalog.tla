------------------------------ MODULE Catalog ------------------------------
(***************************************************************************)
(* Categories, their attribute definitions and the services that carry     *)
(* attribute values (catalog/service.go, services.go, validator.go), as    *)
(* concurrent requests of administrators and of providers.  There is no    *)
(* transaction: every statement commits by itself, and the constraints of  *)
(* the tables are all that two requests share.                             *)
(***************************************************************************)
EXTENDS Naturals, Sequences, FiniteSets, Functions

CONSTANTS Category, Definition, ServiceId, \* the keys of the tables' rows
          Request,
          Asks,      \* what the requests may ask for
          AtOnce,    \* bound: how many requests may be in flight
          Seed,      \* the rows there are at first: [category, definition, service]
          Alphabet,  \* the strings of the inputs, in their order
          Trimmed,   \* strings.TrimSpace on them, a function
          None,      \* a row never used, a field left out, JSON's null
          Gone       \* a row that was deleted

Blank == ""
Types == {"enum", "multi_enum", "text", "number", "bool"}
Scopes == {"service", "booking", "provider"}

ServiceOps == {"create_service", "update_service", "delete_service"}
Ops == ServiceOps \cup {"create_category", "update_category", "delete_category",
                       "create_attribute", "update_attribute", "delete_attribute"}

\* A JSON value: [as |-> its type, of |-> its strings].
Value == { v \in [ as : {"string", "list", "number", "bool"}, of : Seq(Range(Alphabet)) ] :
             /\ v.as # "list" => Len(v.of) = 1
             /\ v.as \in {"number", "bool"} => v.of # <<Blank>> }

AskedTo(ops) == { ask \in Asks : ask.op \in ops }

Slugs == { ask.slug : ask \in AskedTo({"create_category", "update_category"}) }
         \cup { row.slug : row \in Range(Seed.category) }
Keys == { ask.key : ask \in AskedTo({"create_attribute"}) }
        \cup { row.key : row \in Range(Seed.definition) }
Owners == { ask.provider : ask \in Asks } \cup { row.provider : row \in Range(Seed.service) }

CategoryRow == [ slug : Slugs, parent : Category \cup {None} ]
DefinitionRow ==
  [ category : Category, key : Keys, scope : Scopes, type : Types,
    options : Seq(Range(Alphabet)) \cup {None}, required : BOOLEAN ]

\* What a request carries once it is decoded.
ValidAsk(ask) ==
  /\ ask.op \in Ops
  /\ ask.op \in {"create_category", "update_category"} => ask.parent \in Category \cup {None}
  /\ ask.op \in {"update_category", "delete_category", "create_attribute", "create_service"}
       => ask.category \in Category
  /\ ask.op \in {"update_attribute", "delete_attribute"} => ask.definition \in Definition
  /\ ask.op \in {"create_attribute", "update_attribute"} =>
       ask.options \in Seq(Range(Alphabet)) \cup {None}
  /\ ask.op = "create_attribute" =>
       ask.scope \in Scopes /\ ask.type \in Types /\ ask.required \in BOOLEAN
  /\ ask.op = "update_attribute" =>
       ask.type \in Types \cup {None} /\ ask.required \in BOOLEAN \cup {None}
  /\ ask.op \in {"update_service", "delete_service"} => ask.service \in ServiceId
  /\ ask.op = "update_service" => ask.category \in Category \cup {None}
  /\ ask.op = "create_service" \/ (ask.op = "update_service" /\ ask.attributes # None) =>
       ask.attributes \in [ DOMAIN ask.attributes -> Value \cup {None} ]

\* A list that can be chosen from: not empty, without blanks, each choice once.
Choosable(options) ==
  /\ options # <<>> /\ IsInjective(options)
  /\ \A o \in Range(options) : Trimmed[o] # Blank

\* In the order of the strings, each of them once.
Ascends(of) ==
  \A i, j \in 1 .. Len(of) : i < j =>
    \E m, n \in 1 .. Len(Alphabet) : m < n /\ Alphabet[m] = of[i] /\ Alphabet[n] = of[j]

\* The rows there are at first keep the constraints of the tables, and are as
\* validateDataType and coerce let them be.
ValidSeed ==
  /\ \A c \in DOMAIN Seed.category :
       /\ Seed.category[c] \in CategoryRow
       /\ Seed.category[c].parent \in (DOMAIN Seed.category \cap Category) \cup {None}
  /\ \A d \in DOMAIN Seed.definition :
       LET def == Seed.definition[d] IN
       /\ def \in DefinitionRow /\ def.category \in DOMAIN Seed.category
       /\ def.options # None => Choosable(def.options)
       /\ def.type \in {"enum", "multi_enum"} => def.options # None
  /\ \A s \in DOMAIN Seed.service :
       LET row == Seed.service[s] IN
       /\ row = [ provider |-> row.provider, category |-> row.category,
                  attributes |-> row.attributes ]
       /\ row.category \in DOMAIN Seed.category \cap Category
       /\ row.attributes \in [ DOMAIN row.attributes -> Value ]
       /\ \A k \in DOMAIN row.attributes : Ascends(row.attributes[k].of)

CatalogAssumption ==
  /\ IsFiniteSet(Request) /\ AtOnce \in Nat
  /\ Alphabet \in Seq(Range(Alphabet)) /\ IsInjective(Alphabet)
  /\ Trimmed \in [Range(Alphabet) -> Range(Alphabet)]
  /\ \A t \in Range(Alphabet) : Trimmed[Trimmed[t]] = Trimmed[t]
  /\ Blank \in Range(Alphabet) => Trimmed[Blank] = Blank
  /\ \A ask \in Asks : ValidAsk(ask)
  /\ ValidSeed
  /\ None # Gone /\ None # "internal" /\ None \notin Types /\ None \notin BOOLEAN
  /\ {None, Gone} \cap CategoryRow = {}
  /\ None \notin Seq(Range(Alphabet)) /\ None \notin Value
  /\ \A K \in SUBSET Keys : None \notin [K -> Value]

VARIABLES
  category,   \* slug and parent
  definition, \* category_attributes
  service,    \* provider, category and attribute values
  request,    \* what each request asks, where it is and what it has read
  changed,    \* history: the options that a request last gave each definition
  alone       \* history: no two requests have been under way at once

vars == <<category, definition, service, request, changed, alone>>

Rows(table) == { k \in DOMAIN table : table[k] \notin {None, Gone} }

\* COALESCE(narg, column)
Patched(new, old) == IF new = None THEN old ELSE new

-----------------------------------------------------------------------------
(* validator.go.  A value is [as |-> its JSON type, of |-> its strings].   *)

Text(v) == v.of[1]

\* sort.Strings: what was chosen, in the order of the strings.
Sorted(chosen) ==
  LET upTo[n \in 0 .. Len(Alphabet)] ==
        IF n = 0 THEN <<>>
        ELSE IF Alphabet[n] \in chosen THEN Append(upTo[n - 1], Alphabet[n]) ELSE upTo[n - 1]
  IN  upTo[Len(Alphabet)]

Canonical(def, v) ==
  CASE def.type = "text" -> [v EXCEPT !.of = <<Trimmed[Text(v)]>>]
    [] def.type = "multi_enum" -> [v EXCEPT !.of = Sorted(Range(v.of))]
    [] OTHER -> v

\* The values coerce does not refuse.
Accepts(def, v) ==
  CASE def.type = "text" -> v.as = "string" /\ (def.required => Trimmed[Text(v)] # Blank)
    [] def.type = "enum" -> v.as = "string" /\ Text(v) \in Range(def.options)
    [] def.type = "multi_enum" ->
         /\ v.as = "list" /\ IsInjective(v.of) /\ Range(v.of) \subseteq Range(def.options)
         /\ def.required => v.of # <<>>
    [] OTHER -> v.as = def.type

Given(defs, values) ==
  { def \in defs : def.key \in DOMAIN values /\ values[def.key] # None }

\* The keys of `problems'; a key the category does not define is one.
Problems(defs, values) ==
  (DOMAIN values \ { def.key : def \in defs })
    \cup { def.key : def \in { d \in defs \ Given(defs, values) : d.required } }
    \cup { def.key : def \in { d \in Given(defs, values) : ~ Accepts(d, values[d.key]) } }

\* What ValidateAttributes returns when there are no problems: a null is left out.
Normalized(defs, values) ==
  [ k \in { def.key : def \in Given(defs, values) } |->
      Canonical(CHOOSE def \in defs : def.key = k, values[k]) ]

ListAttributes(c, scope) ==
  { definition[d] : d \in { e \in Rows(definition) :
      definition[e].category = c /\ definition[e].scope = scope } }

-----------------------------------------------------------------------------

NoRequest == [ pc |-> "idle", ask |-> None, read |-> None, answer |-> None ]

Underway(q) == request[q].pc \notin {"idle", "done"}

Alone == \A p, q \in Request : Underway(p) /\ Underway(q) => p = q

Arrive(q, asks) ==
  /\ request[q].pc = "idle"
  /\ Cardinality({ p \in Request : Underway(p) }) < AtOnce
  /\ \E ask \in asks : request' = [request EXCEPT ![q].ask = ask, ![q].pc = ask.op]
  /\ UNCHANGED <<category, definition, service, changed>>

Goto(q, label, read) ==
  request' = [request EXCEPT ![q].pc = label, ![q].read = read]

Answer(q, reply) == request' = [request EXCEPT ![q].pc = "done", ![q].answer = reply]

At(q, label) == request[q].pc = label

Refuse(q, reply) == Answer(q, reply) /\ UNCHANGED <<category, definition, service, changed>>

-----------------------------------------------------------------------------
(* Categories.                                                             *)

SlugTaken(slug, c) == \E o \in Rows(category) \ {c} : category[o].slug = slug

ParentKnown(ask) == ask.parent = None \/ ask.parent \in Rows(category)

CreateCategory(q) ==
  LET ask == request[q].ask IN
  /\ At(q, "create_category")
  /\ \/ ask.slug = Blank /\ Refuse(q, "invalid")
     \/ ask.slug # Blank /\ SlugTaken(ask.slug, None) /\ Refuse(q, "conflict")
     \/ ask.slug # Blank /\ ~ SlugTaken(ask.slug, None) /\ ~ ParentKnown(ask)
        /\ Refuse(q, "invalid")
     \/ /\ ask.slug # Blank /\ ~ SlugTaken(ask.slug, None) /\ ParentKnown(ask)
        /\ \E c \in Category :
             /\ category[c] = None
             /\ category' = [category EXCEPT ![c] = [slug |-> ask.slug, parent |-> ask.parent]]
        /\ Answer(q, "ok")
        /\ UNCHANGED <<definition, service, changed>>

\* An unknown parent violates the foreign key here too, and is not translated.
UpdateCategory(q) ==
  LET ask == request[q].ask
      c == ask.category
      known == c \in Rows(category) IN
  /\ At(q, "update_category")
  /\ \/ ask.slug = Blank /\ Refuse(q, "invalid")
     \/ ask.slug # Blank /\ ~ known /\ Refuse(q, "not_found")
     \/ ask.slug # Blank /\ known /\ SlugTaken(ask.slug, c) /\ Refuse(q, "conflict")
     \/ ask.slug # Blank /\ known /\ ~ SlugTaken(ask.slug, c) /\ ~ ParentKnown(ask)
        /\ Refuse(q, "internal")
     \/ /\ ask.slug # Blank /\ known /\ ~ SlugTaken(ask.slug, c) /\ ParentKnown(ask)
        /\ category' = [category EXCEPT
             ![c] = [slug |-> Patched(ask.slug, @.slug), parent |-> Patched(ask.parent, @.parent)]]
        /\ Answer(q, "ok")
        /\ UNCHANGED <<definition, service, changed>>

InUse(c) == \E s \in Rows(service) : service[s].category = c

\* The definitions go with their category; its children become roots.
DeleteCategory(q) ==
  LET c == request[q].ask.category IN
  /\ At(q, "delete_category")
  /\ \/ InUse(c) /\ Refuse(q, "conflict")
     \/ ~ InUse(c) /\ c \notin Rows(category) /\ Refuse(q, "not_found")
     \/ /\ ~ InUse(c) /\ c \in Rows(category)
        /\ category' = [ o \in Category |->
             IF o = c THEN Gone
             ELSE IF o \in Rows(category) /\ category[o].parent = c
             THEN [category[o] EXCEPT !.parent = None] ELSE category[o] ]
        /\ definition' = [ d \in Definition |->
             IF d \in Rows(definition) /\ definition[d].category = c
             THEN Gone ELSE definition[d] ]
        /\ Answer(q, "ok")
        /\ UNCHANGED <<service, changed>>

-----------------------------------------------------------------------------
(* Attribute definitions.                                                  *)

Enumerated(type) == type \in {"enum", "multi_enum"}

\* validateDataType
GoodOptions(type, options) ==
  Enumerated(type) => options # None /\ Choosable(options)

\* encodeOptions: a list is kept only for the types that have one.
Encoded(type, options) == IF Enumerated(type) THEN options ELSE None

KeyTaken(ask) == \E d \in Rows(definition) :
  /\ definition[d].category = ask.category
  /\ definition[d].key = ask.key /\ definition[d].scope = ask.scope

\* The CHECK of the table: an enumerated type has options.
EnumNeedsOptions(def) == Enumerated(def.type) => def.options \notin {None, <<>>}

CreateAttribute(q) ==
  LET ask == request[q].ask
      row == [ category |-> ask.category, key |-> ask.key, scope |-> ask.scope,
               type |-> ask.type, options |-> Encoded(ask.type, ask.options),
               required |-> ask.required ] IN
  /\ At(q, "create_attribute")
  /\ \/ ~ GoodOptions(ask.type, ask.options) /\ Refuse(q, "invalid")
     \/ GoodOptions(ask.type, ask.options) /\ KeyTaken(ask) /\ Refuse(q, "conflict")
     \/ GoodOptions(ask.type, ask.options) /\ ~ KeyTaken(ask)
        /\ ask.category \notin Rows(category) /\ Refuse(q, "not_found")
     \/ /\ GoodOptions(ask.type, ask.options) /\ ~ KeyTaken(ask)
        /\ ask.category \in Rows(category)
        /\ \E d \in Definition :
             /\ definition[d] = None
             /\ definition' = [definition EXCEPT ![d] = row]
             /\ changed' = [changed EXCEPT ![d] = row.options]
        /\ Answer(q, "ok")
        /\ UNCHANGED <<category, service>>

\* Mutant: the options are checked only when the request names a type.
CheckedIfTyped(ask, def) == ask.type = None \/ GoodOptions(ask.type, Patched(ask.options, def.options))

FitsType(ask, def) == GoodOptions(Patched(ask.type, def.type), Patched(ask.options, def.options))

\* What is sent to the UPDATE: the options that were read, too, if only the type
\* is named.
NewOptions(ask, def) ==
  IF ask.options # None \/ ask.type # None
  THEN Encoded(Patched(ask.type, def.type), Patched(ask.options, def.options)) ELSE None

GetCategoryAttribute(q) ==
  LET ask == request[q].ask
      def == definition[ask.definition] IN
  /\ At(q, "update_attribute")
  /\ \/ ask.definition \notin Rows(definition) /\ Refuse(q, "not_found")
     \/ /\ ask.definition \in Rows(definition)
        /\ ~ FitsType(ask, def) /\ Refuse(q, "invalid")
     \/ /\ ask.definition \in Rows(definition)
        /\ FitsType(ask, def)
        /\ Goto(q, "write_attribute", NewOptions(ask, def))
        /\ UNCHANGED <<category, definition, service, changed>>

UpdateCategoryAttribute(q) ==
  LET ask == request[q].ask
      d == ask.definition
      row == [ definition[d] EXCEPT !.type = Patched(ask.type, @),
                 !.options = Patched(request[q].read, @),
                 !.required = Patched(ask.required, @) ] IN
  /\ At(q, "write_attribute")
  /\ \/ d \notin Rows(definition) /\ Refuse(q, "not_found")
     \/ d \in Rows(definition) /\ ~ EnumNeedsOptions(row) /\ Refuse(q, "internal")
     \/ /\ d \in Rows(definition) /\ EnumNeedsOptions(row)
        /\ definition' = [definition EXCEPT ![d] = row]
        /\ changed' = [changed EXCEPT ![d] = Patched(Encoded(row.type, ask.options), @)]
        /\ Answer(q, "ok")
        /\ UNCHANGED <<category, service>>

DeleteAttribute(q) ==
  LET d == request[q].ask.definition IN
  /\ At(q, "delete_attribute")
  /\ \/ d \notin Rows(definition) /\ Refuse(q, "not_found")
     \/ /\ d \in Rows(definition)
        /\ definition' = [definition EXCEPT ![d] = Gone]
        /\ Answer(q, "ok")
        /\ UNCHANGED <<category, service, changed>>

-----------------------------------------------------------------------------
(* Services.  `read' is what the UPDATE will write: None keeps the column. *)

\* validateServiceAttributes, then the request goes on with the normalized map.
Validate(q, c, values, label) ==
  LET defs == ListAttributes(c, "service") IN
  /\ \/ Problems(defs, values) # {} /\ Refuse(q, "invalid")
     \/ /\ Problems(defs, values) = {}
        /\ Goto(q, label, Normalized(defs, values))
        /\ UNCHANGED <<category, definition, service, changed>>

ValidateNew(q) ==
  /\ At(q, "create_service")
  /\ Validate(q, request[q].ask.category, request[q].ask.attributes, "insert_service")

InsertService(q) ==
  LET ask == request[q].ask IN
  /\ At(q, "insert_service")
  /\ \/ ask.category \notin Rows(category) /\ Refuse(q, "invalid")
     \/ /\ ask.category \in Rows(category)
        /\ \E s \in ServiceId :
             /\ service[s] = None
             /\ service' = [service EXCEPT ![s] =
                  [ provider |-> ask.provider, category |-> ask.category,
                    attributes |-> request[q].read ]]
        /\ Answer(q, "ok")
        /\ UNCHANGED <<category, definition, changed>>

Owned(s, p) == s \in Rows(service) /\ service[s].provider = p

\* GetService and the owner check.
GetService(q) ==
  LET ask == request[q].ask IN
  /\ At(q, "update_service")
  /\ \/ ~ Owned(ask.service, ask.provider) /\ Refuse(q, "not_found")
     \/ /\ Owned(ask.service, ask.provider)
        /\ IF ask.attributes = None /\ ask.category = None
           THEN Goto(q, "write_service", None)
           ELSE Goto(q, "validate", service[ask.service])
        /\ UNCHANGED <<category, definition, service, changed>>

\* Mutant: only attributes that the request names are validated.
NamedOnly(q) ==
  LET ask == request[q].ask IN
  /\ At(q, "validate")
  /\ IF ask.attributes = None
     THEN Goto(q, "write_service", None) /\ UNCHANGED <<category, definition, service, changed>>
     ELSE Validate(q, Patched(ask.category, request[q].read.category), ask.attributes,
                   "write_service")

Revalidate(q) ==
  LET ask == request[q].ask IN
  /\ At(q, "validate")
  /\ Validate(q, Patched(ask.category, request[q].read.category),
              Patched(ask.attributes, request[q].read.attributes), "write_service")

\* attributes = COALESCE(narg, attributes)
Written(new, old) == Patched(new, old)

UpdateService(q) ==
  LET ask == request[q].ask
      s == ask.service IN
  /\ At(q, "write_service")
  /\ \/ ~ Owned(s, ask.provider) /\ Refuse(q, "not_found")
     \/ Owned(s, ask.provider) /\ ask.category \notin Rows(category) \cup {None}
        /\ Refuse(q, "invalid")
     \/ /\ Owned(s, ask.provider) /\ ask.category \in Rows(category) \cup {None}
        /\ service' = [service EXCEPT ![s].category = Patched(ask.category, @),
                                      ![s].attributes = Written(request[q].read, @)]
        /\ Answer(q, "ok")
        /\ UNCHANGED <<category, definition, changed>>

Deletable(s, p) == Owned(s, p)

DeleteService(q) ==
  LET ask == request[q].ask IN
  /\ At(q, "delete_service")
  /\ \/ ~ Deletable(ask.service, ask.provider) /\ Refuse(q, "not_found")
     \/ /\ Deletable(ask.service, ask.provider)
        /\ service' = [service EXCEPT ![ask.service] = Gone]
        /\ Answer(q, "ok")
        /\ UNCHANGED <<category, definition, changed>>

-----------------------------------------------------------------------------

Init ==
  /\ category = [ c \in Category |-> IF c \in DOMAIN Seed.category THEN Seed.category[c] ELSE None ]
  /\ definition =
       [ d \in Definition |-> IF d \in DOMAIN Seed.definition THEN Seed.definition[d] ELSE None ]
  /\ service = [ s \in ServiceId |-> IF s \in DOMAIN Seed.service THEN Seed.service[s] ELSE None ]
  /\ request = [ q \in Request |-> NoRequest ]
  /\ changed = [ d \in Definition |->
       IF d \in DOMAIN Seed.definition THEN Seed.definition[d].options ELSE None ]
  /\ alone = TRUE

Admin(q) ==
  \/ CreateCategory(q) \/ UpdateCategory(q) \/ DeleteCategory(q)
  \/ CreateAttribute(q) \/ GetCategoryAttribute(q) \/ UpdateCategoryAttribute(q)
  \/ DeleteAttribute(q)

Org(q) ==
  \/ ValidateNew(q) \/ InsertService(q)
  \/ GetService(q) \/ Revalidate(q) \/ UpdateService(q)
  \/ DeleteService(q)

Serve(asks) == /\ \E q \in Request : Arrive(q, asks) \/ Admin(q) \/ Org(q)
               /\ alone' = (alone /\ Alone')

Next == Serve(Asks)

Spec == Init /\ [][Next]_vars

-----------------------------------------------------------------------------

TypeOK ==
  /\ \A c \in Rows(category) : category[c].parent \in Category \cup {None}
  /\ \A d \in Rows(definition) :
       definition[d].type \in Types /\ definition[d].scope \in Scopes
  /\ \A s \in Rows(service) :
       \A k \in DOMAIN service[s].attributes : service[s].attributes[k] # None
  /\ \A q \in Request : request[q].answer \in
       {None, "ok", "invalid", "conflict", "not_found", "internal"}

\* Discovery looks for attributes with jsonb containment, so what is stored has
\* one form for each meaning, whichever definitions changed since: no nulls, no
\* choice twice, the choices in order.
OneForm ==
  \A s \in Rows(service) : \A k \in DOMAIN service[s].attributes :
    LET v == service[s].attributes[k] IN Ascends(v.of) /\ (v.as = "list" \/ Len(v.of) = 1)

\* A value as the forms of both clients offer it for a definition.
Offered(def, v) ==
  /\ v.as = CASE Enumerated(def.type) -> IF def.type = "enum" THEN "string" ELSE "list"
              [] def.type = "text" -> "string"
              [] OTHER -> def.type
  /\ Enumerated(def.type) => \A i \in DOMAIN v.of : \E j \in DOMAIN def.options :
       def.options[j] = v.of[i]
  /\ def.required => v.of \notin {<<>>, <<Blank>>}

Fits(attributes, c) ==
  LET defs == ListAttributes(c, "service") IN
  /\ \A k \in DOMAIN attributes : \E def \in defs : def.key = k /\ Offered(def, attributes[k])
  /\ \A def \in defs : def.required => def.key \in DOMAIN attributes

\* The values are those the service's own category asks for.
FitsItsCategory ==
  \A s \in Rows(service) : Fits(service[s].attributes, service[s].category)

FitsSomeCategory ==
  \A s \in Rows(service) : \E c \in Rows(category) : Fits(service[s].attributes, c)

\* No request so far changes categories or definitions.
ServicesOnly == \A q \in Request : request[q].pc # "idle" => request[q].ask.op \in ServiceOps

\* While nobody changes the definitions: the values of a service are those that some
\* category asks for, never a mixture of what two requests sent; and until two requests
\* overlap they are those of its own, however category and values came to be changed.
FitsAsAsked == ServicesOnly => FitsSomeCategory /\ (alone => FitsItsCategory)

\* Whatever two administrators change at once, an enumerated attribute has
\* options to choose from, each one once and none blank...
OptionsToChooseFrom ==
  \A d \in Rows(definition) : Enumerated(definition[d].type) =>
    /\ definition[d].options \notin {None, <<>>}
    /\ IsInjective(definition[d].options)
    /\ \A o \in Range(definition[d].options) : Trimmed[o] # Blank

\* ...and no constraint of the tables is left to say so: the one failure that is
\* answered as an internal error is a parent that does not exist.
NoSurprise ==
  \A q \in Request : request[q].answer = "internal" => request[q].ask.op = "update_category"

\* A definition and a service belong to a category that exists.
NothingDangles ==
  /\ \A d \in Rows(definition) : definition[d].category \in Rows(category)
  /\ \A s \in Rows(service) : service[s].category \in Rows(category)
  /\ \A c \in Rows(category) : category[c].parent \in Rows(category) \cup {None}

\* A request in the scope of one provider changes no service of another, also
\* when the service is deleted and created in between.
OwnServicesOnly ==
  \A s \in Rows(service) : service'[s] # service[s] =>
     \E q \in Request : /\ request'[q] # request[q]
                        /\ request[q].ask.provider = service[s].provider 

\* Until two requests overlap, a patch that names no options leaves those that were
\* last named.
PatchKeeps ==
  alone => \A d \in Rows(definition) :
             changed[d] # None => definition[d].options = changed[d]
=============================================================================
