---------------------------- MODULE CatalogProofs ----------------------------
(***************************************************************************)
(* Theorems about Catalog, for any categories, definitions, services,      *)
(* requests and strings: what the tables hold refers to rows that exist,   *)
(* a definition that chooses has options to choose from, and the values of *)
(* a service are of one form and those that a category asks for.           *)
(***************************************************************************)
EXTENDS Catalog, FiniteSetTheorems, NaturalsInduction, TLAPS

-----------------------------------------------------------------------------
(* The types, and what a request holds at each of its steps.               *)

Strings == Range(Alphabet)
Choices == Seq(Strings) \cup {None}

AllKeys == Keys \cup UNION { DOMAIN row.attributes : row \in Range(Seed.service) }
\* Values in the one form that discovery can look for.
Tidy(attributes) == \A k \in DOMAIN attributes : Ascends(attributes[k].of)
Stored == { a \in UNION { [K -> Value] : K \in SUBSET AllKeys } : Tidy(a) }

ServiceRow == [ provider : Owners, category : Category, attributes : Stored ]

Replies == {"ok", "invalid", "conflict", "not_found", "internal"}
Label == Ops \cup {"idle", "write_attribute", "insert_service", "validate",
                   "write_service", "done"}

Sound(x) ==
  /\ x.pc # "idle" => x.ask \in Asks /\ ValidAsk(x.ask)
  /\ x.pc \in Ops => x.pc = x.ask.op
  /\ x.pc = "write_attribute" =>
       /\ x.ask.op = "update_attribute" /\ x.read \in Choices
       /\ x.read # None => Choosable(x.read)
       /\ Enumerated(x.ask.type) => x.read # None
  /\ x.pc = "insert_service" => x.ask.op = "create_service" /\ x.read \in Stored
  /\ x.pc = "validate" => x.ask.op = "update_service" /\ x.read \in ServiceRow
  /\ x.pc = "write_service" => x.ask.op = "update_service" /\ x.read \in Stored \cup {None}
  /\ x.answer # None => x.pc = "done"
  /\ x.answer = "internal" => x.ask.op = "update_category"

Requests ==
  { x \in [ pc : Label, ask : Asks \cup {None}, read : Choices \cup Stored \cup ServiceRow,
            answer : Replies \cup {None} ] : Sound(x) }

Typed ==
  /\ CatalogAssumption
  /\ category \in [Category -> CategoryRow \cup {None, Gone}]
  /\ definition \in [Definition -> DefinitionRow \cup {None, Gone}]
  /\ service \in [ServiceId -> ServiceRow \cup {None, Gone}]
  /\ request \in [Request -> Requests]
  /\ changed \in [Definition -> Choices]

\* The options of a definition, also of one whose type is no longer enumerated.
Chooses(def) ==
  /\ def.options # None => Choosable(def.options)
  /\ Enumerated(def.type) => def.options # None

TablesHold ==
  /\ Typed /\ NothingDangles
  /\ \A d \in Rows(definition) : Chooses(definition[d])

LEMMA InitTablesHold == CatalogAssumption /\ Init => TablesHold
<1> SUFFICES ASSUME CatalogAssumption, Init PROVE TablesHold
  OBVIOUS
<1> USE DEF CatalogAssumption
<1>1. category \in [Category -> CategoryRow \cup {None, Gone}]
  BY DEF Init, ValidSeed
<1>2. definition \in [Definition -> DefinitionRow \cup {None, Gone}]
  BY DEF Init, ValidSeed
<1>3. ASSUME NEW s \in DOMAIN Seed.service PROVE Seed.service[s] \in ServiceRow
  <2> DEFINE row == Seed.service[s]
  <2>1. /\ row = [ provider |-> row.provider, category |-> row.category,
                   attributes |-> row.attributes ]
        /\ row.category \in Category /\ row.attributes \in [ DOMAIN row.attributes -> Value ]
        /\ Tidy(row.attributes)
    BY DEF ValidSeed, Tidy
  <2>2. row \in Range(Seed.service)
    BY DEF Range
  <2>3. row.provider \in Owners /\ DOMAIN row.attributes \in SUBSET AllKeys
    BY <2>2 DEF Owners, AllKeys
  <2>4. row.attributes \in Stored
    BY <2>1, <2>3 DEF Stored
  <2> HIDE DEF row
  <2>5. row \in ServiceRow
    BY <2>1, <2>3, <2>4 DEF ServiceRow
  <2> QED BY <2>5 DEF row
<1>4. service \in [ServiceId -> ServiceRow \cup {None, Gone}]
  BY <1>3 DEF Init
<1>5. request \in [Request -> Requests]
  <2>1. NoRequest \in Requests
    BY DEF NoRequest, Requests, Label, Sound, Choices, Ops, ServiceOps
  <2> QED BY <2>1 DEF Init
<1>6. changed \in [Definition -> Choices]
  BY DEF Init, ValidSeed, DefinitionRow, Choices, Strings
<1>7. Typed
  BY <1>1, <1>2, <1>4, <1>5, <1>6 DEF Typed
<1>8. \A c \in Category \cap DOMAIN Seed.category :
        c \in Rows(category) /\ category[c] = Seed.category[c]
  BY DEF Init, ValidSeed, Rows
<1>9. NothingDangles
  <2>1. ASSUME NEW d \in Rows(definition)
        PROVE  definition[d].category \in Rows(category) /\ Chooses(definition[d])
    <3>1. d \in DOMAIN Seed.definition /\ definition[d] = Seed.definition[d]
      BY DEF Init, Rows
    <3>2. Seed.definition[d] \in DefinitionRow /\ Seed.definition[d].category \in DOMAIN Seed.category
      BY <3>1 DEF ValidSeed
    <3> QED BY <1>8, <3>1, <3>2 DEF DefinitionRow, Chooses, Enumerated, ValidSeed
  <2>2. ASSUME NEW s \in Rows(service) PROVE service[s].category \in Rows(category)
    BY <1>8 DEF Init, Rows, ValidSeed
  <2>3. ASSUME NEW c \in Rows(category) PROVE category[c].parent \in Rows(category) \cup {None}
    BY <1>8 DEF Init, Rows, ValidSeed
  <2> QED BY <2>1, <2>2, <2>3 DEF NothingDangles
<1>10. ASSUME NEW d \in Rows(definition) PROVE Chooses(definition[d])
  <2>1. d \in DOMAIN Seed.definition /\ definition[d] = Seed.definition[d]
    BY DEF Init, Rows
  <2> QED BY <2>1 DEF Chooses, Enumerated, ValidSeed
<1> QED BY <1>7, <1>9, <1>10 DEF TablesHold

-----------------------------------------------------------------------------
(* The ways a step can write.                                              *)

\* A request that is under way, and the record it turns into.
LEMMA Moves ==
  ASSUME Typed, NEW q \in Request, NEW x \in Requests, request' = [request EXCEPT ![q] = x]
  PROVE  request' \in [Request -> Requests] /\ request'[q] = x
         /\ \A p \in Request \ {q} : request'[p] = request[p]
BY DEF Typed

\* An answer ends the request, with what it read and asked for as it was.
LEMMA Answered ==
  ASSUME Typed, NEW q \in Request, Underway(q), NEW reply \in Replies, Answer(q, reply),
         reply = "internal" => request[q].ask.op = "update_category"
  PROVE  /\ request' \in [Request -> Requests]
         /\ request'[q].pc = "done" /\ request'[q].ask = request[q].ask
         /\ request'[q].answer = reply
         /\ \A p \in Request \ {q} : request'[p] = request[p]
<1> DEFINE x == [request[q] EXCEPT !.pc = "done", !.answer = reply]
<1>1. request[q] \in Requests
  BY DEF Typed
<1>2. /\ x \in [ pc : Label, ask : Asks \cup {None}, read : Choices \cup Stored \cup ServiceRow,
                 answer : Replies \cup {None} ]
      /\ x.pc = "done" /\ x.ask = request[q].ask /\ x.answer = reply
  BY <1>1 DEF Requests, Label
<1>3. request[q].ask \in Asks /\ ValidAsk(request[q].ask)
  BY <1>1 DEF Requests, Sound, Underway
<1>4. request' = [request EXCEPT ![q] = x]
  BY DEF Answer, Typed
<1> HIDE DEF x
<1>5. x \in Requests
  BY <1>2, <1>3 DEF Requests, Sound, Ops, ServiceOps
<1> QED BY <1>2, <1>4, <1>5, Moves

LEMMA WentOn ==
  ASSUME Typed, NEW q \in Request, Underway(q), NEW label, NEW read, Goto(q, label, read),
         LET x == [ pc |-> label, ask |-> request[q].ask, read |-> read, answer |-> None ]
         IN  x \in Requests
  PROVE  /\ request' \in [Request -> Requests]
         /\ request'[q] = [ pc |-> label, ask |-> request[q].ask, read |-> read, answer |-> None ]
         /\ \A p \in Request \ {q} : request'[p] = request[p]
<1> DEFINE x == [ pc |-> label, ask |-> request[q].ask, read |-> read, answer |-> None ]
<1>1. request[q] \in Requests
  BY DEF Typed
<1>2. request[q].answer = None
  BY <1>1 DEF Requests, Sound, Underway
<1>6. request[q] \in [ pc : Label, ask : Asks \cup {None}, read : Choices \cup Stored \cup ServiceRow,
                       answer : Replies \cup {None} ]
  BY <1>1 DEF Requests
<1>8. request[q] = [ pc |-> request[q].pc, ask |-> request[q].ask, read |-> request[q].read,
                     answer |-> None ]
  BY <1>2, <1>6
<1>3. [request[q] EXCEPT !.pc = label, !.read = read] = x
  <2>1. PICK r : r = request[q]
    OBVIOUS
  <2>2. r = [ pc |-> r.pc, ask |-> r.ask, read |-> r.read, answer |-> None ]
    BY <1>8, <2>1
  <2> DEFINE y == [r EXCEPT !.pc = label, !.read = read]
  <2>3. DOMAIN r = {"pc", "ask", "read", "answer"} /\ r.answer = None
    BY <2>2
  <2>4. y.pc = label /\ y.read = read /\ y.ask = r.ask /\ y.answer = None
    BY <2>3
  <2>5. y = [ f \in {"pc", "ask", "read", "answer"} |-> y[f] ]
    BY <2>3
  <2> HIDE DEF y
  <2>6. y = [ pc |-> label, ask |-> r.ask, read |-> read, answer |-> None ]
    BY <2>4, <2>5
  <2> QED BY <2>1, <2>6 DEF y
<1>4. request' = [request EXCEPT ![q] = x]
  BY <1>3 DEF Goto, Typed
<1> HIDE DEF x
<1>5. x \in Requests
  BY DEF x
<1>7. request' \in [Request -> Requests] /\ request'[q] = x
      /\ \A p \in Request \ {q} : request'[p] = request[p]
  BY <1>4, <1>5, Moves
<1> QED BY <1>7 DEF x

\* The tables stay as they are.
LEMMA Untouched ==
  ASSUME TablesHold, request' \in [Request -> Requests],
         UNCHANGED <<category, definition, service, changed>>
  PROVE  TablesHold'
BY DEF TablesHold, Typed, CatalogAssumption, NothingDangles, Rows, Chooses

LEMMA RefusedHolds ==
  ASSUME TablesHold, NEW q \in Request, Underway(q), NEW reply \in Replies, Refuse(q, reply),
         reply = "internal" => request[q].ask.op = "update_category"
  PROVE  TablesHold'
BY Answered, Untouched DEF Refuse, TablesHold

\* A category is written: a row that was there or was never used.
LEMMA CategoryWritten ==
  ASSUME TablesHold, request' \in [Request -> Requests], NEW c \in Category,
         NEW row \in CategoryRow, row.parent \in Rows(category) \cup {None},
         category' = [category EXCEPT ![c] = row], UNCHANGED <<definition, service, changed>>
  PROVE  TablesHold'
<1>1. row \notin {None, Gone}
  BY DEF TablesHold, Typed, CatalogAssumption
<1>2. category' \in [Category -> CategoryRow \cup {None, Gone}]
  BY DEF TablesHold, Typed
<1>3. Rows(category') = Rows(category) \cup {c}
  BY <1>1, <1>2 DEF TablesHold, Typed, Rows
<1>4. Typed'
  BY <1>2 DEF TablesHold, Typed, CatalogAssumption
<1>5. \A d \in Rows(definition') :
        definition'[d].category \in Rows(category') /\ Chooses(definition'[d])
  BY <1>3 DEF TablesHold, NothingDangles, Rows
<1>6. \A s \in Rows(service') : service'[s].category \in Rows(category')
  BY <1>3 DEF TablesHold, NothingDangles, Rows
<1>7. \A o \in Rows(category') : category'[o].parent \in Rows(category') \cup {None}
  BY <1>3 DEF TablesHold, Typed, NothingDangles, Rows
<1> QED BY <1>4, <1>5, <1>6, <1>7 DEF TablesHold, NothingDangles

LEMMA DefinitionWritten ==
  ASSUME TablesHold, request' \in [Request -> Requests], NEW d \in Definition,
         NEW row \in DefinitionRow \cup {Gone},
         row # Gone => row.category \in Rows(category) /\ Chooses(row),
         definition' = [definition EXCEPT ![d] = row], changed' \in [Definition -> Choices],
         UNCHANGED <<category, service>>
  PROVE  TablesHold'
<1>1. Typed'
  BY DEF TablesHold, Typed, CatalogAssumption
<1>2. ASSUME NEW e \in Rows(definition')
      PROVE  definition'[e].category \in Rows(category') /\ Chooses(definition'[e])
  BY DEF TablesHold, Typed, NothingDangles, Rows
<1> QED BY <1>1, <1>2 DEF TablesHold, NothingDangles, Rows

LEMMA ServiceWritten ==
  ASSUME TablesHold, request' \in [Request -> Requests], NEW s \in ServiceId,
         NEW row \in ServiceRow \cup {Gone}, row # Gone => row.category \in Rows(category),
         service' = [service EXCEPT ![s] = row], UNCHANGED <<category, definition, changed>>
  PROVE  TablesHold'
<1>1. Typed'
  BY DEF TablesHold, Typed, CatalogAssumption
<1>2. ASSUME NEW e \in Rows(service') PROVE service'[e].category \in Rows(category')
  BY DEF TablesHold, Typed, NothingDangles, Rows
<1> QED BY <1>1, <1>2 DEF TablesHold, NothingDangles, Rows, Chooses

-----------------------------------------------------------------------------
(* Every step keeps what the tables hold.                                  *)

LEMMA Asked ==
  ASSUME Typed, NEW q \in Request, Underway(q)
  PROVE  /\ request[q].ask \in Asks /\ ValidAsk(request[q].ask)
         /\ request[q] \in [ pc : Label, ask : Asks \cup {None},
              read : Choices \cup Stored \cup ServiceRow, answer : Replies \cup {None} ]
         /\ Sound(request[q])
         /\ request[q].pc \in Ops => request[q].pc = request[q].ask.op
BY DEF Typed, Requests, Sound, Underway

LEMMA ArriveHolds ==
  ASSUME TablesHold, NEW q \in Request, Arrive(q, Asks)
  PROVE  TablesHold'
<1>1. PICK ask \in Asks : request' = [request EXCEPT ![q].ask = ask, ![q].pc = ask.op]
  BY DEF Arrive
<1> DEFINE x == [request[q] EXCEPT !.ask = ask, !.pc = ask.op]
<1>2. request[q] \in Requests /\ request[q].pc = "idle" /\ ask.op \in Ops /\ ValidAsk(ask)
  BY DEF TablesHold, Typed, Arrive, CatalogAssumption, ValidAsk
<1>3. /\ request[q] \in [ pc : Label, ask : Asks \cup {None},
                          read : Choices \cup Stored \cup ServiceRow, answer : Replies \cup {None} ]
      /\ request[q].answer = None
  BY <1>2 DEF Requests, Sound
<1>4. None # "internal"
  BY DEF TablesHold, Typed, CatalogAssumption
<1>5. /\ x \in [ pc : Label, ask : Asks \cup {None}, read : Choices \cup Stored \cup ServiceRow,
                 answer : Replies \cup {None} ]
      /\ x.pc = ask.op /\ x.ask = ask /\ x.answer = None
  BY <1>2, <1>3 DEF Label
<1>6. request' = [request EXCEPT ![q] = x]
  BY <1>1 DEF TablesHold, Typed
<1> HIDE DEF x
<1>7. x \in Requests
  BY <1>2, <1>4, <1>5 DEF Requests, Sound, Ops, ServiceOps
<1>8. request' \in [Request -> Requests]
  BY <1>6, <1>7, Moves DEF TablesHold
<1> QED BY <1>8, Untouched DEF Arrive

LEMMA CreateCategoryHolds ==
  ASSUME TablesHold, NEW q \in Request, CreateCategory(q)
  PROVE  TablesHold'
<1> DEFINE ask == request[q].ask
<1>1. Underway(q) /\ ask.op = "create_category" /\ ask \in Asks /\ ask.parent \in Category \cup {None}
  BY Asked DEF CreateCategory, At, Underway, Ops, ServiceOps, TablesHold, ValidAsk
<1>2. CASE Refuse(q, "invalid") \/ Refuse(q, "conflict")
  BY <1>1, <1>2, RefusedHolds DEF Replies
<1>3. CASE Answer(q, "ok") /\ UNCHANGED <<definition, service, changed>> /\ ParentKnown(ask)
           /\ \E c \in Category :
                category' = [category EXCEPT ![c] = [slug |-> ask.slug, parent |-> ask.parent]]
  <2>1. PICK c \in Category :
          category' = [category EXCEPT ![c] = [slug |-> ask.slug, parent |-> ask.parent]]
    BY <1>3
  <2>2. ask.slug \in Slugs
    BY <1>1 DEF Slugs, AskedTo
  <2>3. [slug |-> ask.slug, parent |-> ask.parent] \in CategoryRow
        /\ ask.parent \in Rows(category) \cup {None}
    BY <1>1, <1>3, <2>2 DEF CategoryRow, ParentKnown
  <2>4. request' \in [Request -> Requests]
    BY <1>1, <1>3, Answered DEF TablesHold, Replies
  <2> QED BY <1>3, <2>1, <2>3, <2>4, CategoryWritten
<1> QED BY <1>2, <1>3 DEF CreateCategory

LEMMA UpdateCategoryHolds ==
  ASSUME TablesHold, NEW q \in Request, UpdateCategory(q)
  PROVE  TablesHold'
<1> DEFINE ask == request[q].ask
           c == ask.category
           row == [slug |-> Patched(ask.slug, category[c].slug),
                   parent |-> Patched(ask.parent, category[c].parent)]
<1>1. /\ Underway(q) /\ ask.op = "update_category" /\ ask \in Asks /\ c \in Category
      /\ ask.parent \in Category \cup {None}
  BY Asked DEF UpdateCategory, At, Underway, Ops, ServiceOps, TablesHold, ValidAsk
<1>2. CASE Refuse(q, "invalid") \/ Refuse(q, "not_found") \/ Refuse(q, "conflict") \/ Refuse(q, "internal")
  BY <1>1, <1>2, RefusedHolds DEF Replies
<1>3. CASE /\ c \in Rows(category) /\ ParentKnown(ask) /\ Answer(q, "ok")
           /\ category' = [category EXCEPT
                ![c] = [slug |-> Patched(ask.slug, @.slug), parent |-> Patched(ask.parent, @.parent)]]
           /\ UNCHANGED <<definition, service, changed>>
  <2>1. category' = [category EXCEPT ![c] = row]
    BY <1>3
  <2>2. ask.slug \in Slugs
    BY <1>1 DEF Slugs, AskedTo
  <2>3. category[c] \in CategoryRow /\ category[c].parent \in Rows(category) \cup {None}
    BY <1>1, <1>3 DEF TablesHold, Typed, Rows, NothingDangles
  <2>4. row \in CategoryRow /\ row.parent \in Rows(category) \cup {None}
    BY <1>1, <1>3, <2>2, <2>3 DEF CategoryRow, Patched, ParentKnown
  <2>5. request' \in [Request -> Requests]
    BY <1>1, <1>3, Answered DEF TablesHold, Replies
  <2> HIDE DEF row
  <2> QED BY <1>1, <1>3, <2>1, <2>4, <2>5, CategoryWritten
<1> QED BY <1>2, <1>3 DEF UpdateCategory

\* The services of the category forbid it, its definitions go with it, its children
\* become roots.
LEMMA DeleteCategoryHolds ==
  ASSUME TablesHold, NEW q \in Request, DeleteCategory(q)
  PROVE  TablesHold'
<1> DEFINE ask == request[q].ask
           c == ask.category
<1>1. Underway(q) /\ ask.op = "delete_category" /\ ask \in Asks /\ c \in Category
  BY Asked DEF DeleteCategory, At, Underway, Ops, ServiceOps, TablesHold, ValidAsk
<1>2. CASE Refuse(q, "conflict") \/ Refuse(q, "not_found")
  BY <1>1, <1>2, RefusedHolds DEF Replies
<1>3. CASE /\ ~ InUse(c) /\ c \in Rows(category) /\ Answer(q, "ok")
           /\ category' = [ o \in Category |->
                IF o = c THEN Gone
                ELSE IF o \in Rows(category) /\ category[o].parent = c
                THEN [category[o] EXCEPT !.parent = None] ELSE category[o] ]
           /\ definition' = [ d \in Definition |->
                IF d \in Rows(definition) /\ definition[d].category = c
                THEN Gone ELSE definition[d] ]
           /\ UNCHANGED <<service, changed>>
  <2>1. /\ category \in [Category -> CategoryRow \cup {None, Gone}]
        /\ {None, Gone} \cap CategoryRow = {} /\ None # Gone
        /\ definition \in [Definition -> DefinitionRow \cup {None, Gone}]
    BY DEF TablesHold, Typed, CatalogAssumption
  <2>2. ASSUME NEW o \in Rows(category), o # c
        PROVE  /\ category'[o] \in CategoryRow /\ o \in Rows(category')
               /\ category'[o].parent = IF category[o].parent = c THEN None ELSE category[o].parent
    <3>1. o \in Category /\ category[o] \in CategoryRow
      BY <2>1 DEF Rows
    <3>2. category'[o] = IF category[o].parent = c THEN [category[o] EXCEPT !.parent = None]
                         ELSE category[o]
      BY <1>3, <2>2, <3>1
    <3>3. category'[o] \in CategoryRow
          /\ category'[o].parent = IF category[o].parent = c THEN None ELSE category[o].parent
      BY <3>1, <3>2 DEF CategoryRow
    <3>4. DOMAIN category' = Category
      BY <1>3
    <3> QED BY <2>1, <3>1, <3>3, <3>4 DEF Rows
  <2>3. \A o \in Category \ Rows(category) : o # c => category'[o] = category[o]
    BY <1>3, <2>1
  <2>4. category'[c] = Gone /\ DOMAIN category' = Category
    BY <1>1, <1>3
  <2>5. Rows(category') = Rows(category) \ {c}
    BY <2>1, <2>2, <2>3, <2>4 DEF Rows
  <2>6. category' \in [Category -> CategoryRow \cup {None, Gone}]
    <3>1. category' = [o \in Category |-> category'[o]]
      BY <1>3
    <3>2. \A o \in Category : category'[o] \in CategoryRow \cup {None, Gone}
      BY <2>1, <2>2, <2>3, <2>4
    <3> QED BY <3>1, <3>2
  <2>7. definition' \in [Definition -> DefinitionRow \cup {None, Gone}]
        /\ \A d \in Rows(definition') : /\ d \in Rows(definition) /\ definition'[d] = definition[d]
                                        /\ definition[d].category # c
    BY <1>3, <2>1 DEF Rows
  <2>8. request' \in [Request -> Requests]
    BY <1>1, <1>3, Answered DEF TablesHold, Replies
  <2>9. Typed'
    BY <1>3, <2>6, <2>7, <2>8 DEF TablesHold, Typed, CatalogAssumption
  <2>10. \A d \in Rows(definition') :
           definition'[d].category \in Rows(category') /\ Chooses(definition'[d])
    BY <2>5, <2>7 DEF TablesHold, NothingDangles
  <2>11. \A s \in Rows(service') : service'[s].category \in Rows(category')
    BY <1>3, <2>5 DEF TablesHold, NothingDangles, InUse
  <2>12. \A o \in Rows(category') : category'[o].parent \in Rows(category') \cup {None}
    BY <2>2, <2>5 DEF TablesHold, NothingDangles
  <2> QED BY <2>9, <2>10, <2>11, <2>12 DEF TablesHold, NothingDangles
<1> QED BY <1>2, <1>3 DEF DeleteCategory

-----------------------------------------------------------------------------
(* The canonical form of a value.                                          *)

\* Induction over the naturals, for a set of them.
LEMMA Reaches ==
  ASSUME NEW T \in SUBSET Nat, 0 \in T, \A n \in T : n + 1 \in T
  PROVE  T = Nat
<1> DEFINE Rest == Nat \ T
<1>1. SUFFICES ASSUME Rest # {} PROVE FALSE
  OBVIOUS
<1>2. \E n \in Rest : \A k \in Rest : ~(<<k, n>> \in OpToRel(<, Nat))
  BY <1>1, NatLessThanWellFounded, WFMin
<1>3. PICK n \in Rest : \A k \in Rest : ~(<<k, n>> \in OpToRel(<, Nat))
  BY <1>2
<1>4. n \in Nat /\ n # 0 /\ n - 1 \in Nat /\ n - 1 < n
  OBVIOUS
<1>5. n - 1 \in Rest
  <2>1. (n - 1) + 1 = n
    BY <1>4
  <2> QED BY <1>4, <2>1
<1>6. <<n - 1, n>> \in OpToRel(<, Nat)
  BY <1>4 DEF OpToRel
<1> QED BY <1>3, <1>5, <1>6

\* One step of Sorted, and what a function that takes the steps up to n satisfies.
Pick(chosen, f, n) ==
  IF n = 0 THEN <<>>
  ELSE IF Alphabet[n] \in chosen THEN Append(f[n - 1], Alphabet[n]) ELSE f[n - 1]

Picks(chosen, f, n) == f = [ m \in 0 .. n |-> Pick(chosen, f, m) ]

LEMMA SortedExists ==
  ASSUME NEW chosen, NEW n \in Nat
  PROVE  \E f : Picks(chosen, f, n)
<1> DEFINE T == { m \in Nat : \E f : Picks(chosen, f, m) }
<1>1. 0 \in T
  <2>1. PICK f : f = [ m \in 0 .. 0 |-> <<>> ]
    OBVIOUS
  <2>2. [ m \in 0 .. 0 |-> Pick(chosen, f, m) ] = [ m \in 0 .. 0 |-> <<>> ]
    BY DEF Pick
  <2> QED BY <2>1, <2>2 DEF Picks
<1>2. ASSUME NEW m \in T PROVE m + 1 \in T
  <2>1. PICK f : Picks(chosen, f, m)
    OBVIOUS
  <2>2. PICK h : h = [ k \in 0 .. m + 1 |-> IF k = m + 1 THEN Pick(chosen, f, k) ELSE f[k] ]
    OBVIOUS
  <2>3. m \in Nat /\ \A k \in 0 .. m : h[k] = f[k] /\ k # m + 1
    BY <2>2
  <2>4. ASSUME NEW k \in 0 .. m + 1 PROVE h[k] = Pick(chosen, h, k)
    <3>1. h[k] = Pick(chosen, f, k)
      BY SMTT(30), <2>1, <2>2, <2>3 DEF Picks
    <3>2. k # 0 => h[k - 1] = f[k - 1]
      BY <2>3
    <3> QED BY <3>1, <3>2 DEF Pick
  <2>5. h = [ k \in 0 .. m + 1 |-> Pick(chosen, h, k) ]
    BY <2>2, <2>4
  <2> QED BY <2>3, <2>5 DEF Picks
<1> HIDE DEF T
<1>3. T = Nat
  <2>1. T \in SUBSET Nat
    BY DEF T
  <2> QED BY <1>1, <1>2, <2>1, Reaches
<1> QED BY <1>3 DEF T

\* What has been picked up to n.
Picked(chosen, f, n) ==
  /\ f[n] \in Seq(Strings) /\ Range(f[n]) = { Alphabet[i] : i \in 1 .. n } \cap chosen
  /\ \A i, j \in 1 .. Len(f[n]) : i < j =>
       \E m, k \in 1 .. n : m < k /\ Alphabet[m] = f[n][i] /\ Alphabet[k] = f[n][j]

LEMMA SortedIs ==
  ASSUME CatalogAssumption, NEW chosen, chosen \subseteq Strings
  PROVE  /\ Sorted(chosen) \in Seq(Strings) /\ Ascends(Sorted(chosen))
         /\ Range(Sorted(chosen)) = chosen
<1> DEFINE N == Len(Alphabet)
           f == CHOOSE g : Picks(chosen, g, N)
           In(n) == { Alphabet[i] : i \in 1 .. n } \cap chosen
           T == { n \in Nat : n <= N => Picked(chosen, f, n) }
<1>1. Alphabet \in Seq(Strings) /\ N \in Nat /\ DOMAIN Alphabet = 1 .. N
  BY DEF CatalogAssumption, Strings
<1>2. Picks(chosen, f, N)
  BY <1>1, SortedExists
<1>3. Sorted(chosen) = f[N]
  BY DEF Sorted, Picks, Pick
<1>4. \A n \in 0 .. N : f[n] = Pick(chosen, f, n)
  BY <1>2 DEF Picks
<1> HIDE DEF N, f
<1>5. 0 \in T
  <2>1. f[0] = <<>> /\ N \in Nat
    BY <1>1, <1>4 DEF Pick
  <2>2. Range(<<>>) = {} /\ In(0) = {}
    BY DEF Range
  <2>3. <<>> \in Seq(Strings) /\ Len(<<>>) = 0
    OBVIOUS
  <2>4. Picked(chosen, f, 0)
    BY <2>1, <2>2, <2>3 DEF Picked
  <2> QED BY <2>4
<1>6. ASSUME NEW n \in T PROVE n + 1 \in T
  <2>1. SUFFICES ASSUME n + 1 <= N
        PROVE  Picked(chosen, f, n + 1)
    <3>1. n \in Nat /\ n + 1 \in Nat
      BY <1>6
    <3> HIDE DEF In
    <3> QED BY <3>1
  <2>2. /\ n \in Nat /\ n + 1 \in 1 .. N /\ n \in 0 .. N /\ (n + 1) - 1 = n /\ n + 1 # 0
        /\ f[n] \in Seq(Strings) /\ Range(f[n]) = In(n)
        /\ \A i, j \in 1 .. Len(f[n]) : i < j =>
             \E m, k \in 1 .. n : m < k /\ Alphabet[m] = f[n][i] /\ Alphabet[k] = f[n][j]
    <3>1. n \in Nat /\ n + 1 \in 1 .. N /\ n \in 0 .. N /\ (n + 1) - 1 = n /\ n + 1 # 0 /\ n <= N
      BY <1>1, <1>6, <2>1
    <3>2. Picked(chosen, f, n)
      BY <1>6, <3>1
    <3> QED BY <3>1, <3>2 DEF Picked
  <2> DEFINE a == Alphabet[n + 1]
  <2>3. a \in Strings
    BY <1>1, <2>2
  <2>4. f[n + 1] = IF a \in chosen THEN Append(f[n], a) ELSE f[n]
    BY <1>1, <1>4, <2>2 DEF Pick
  <2>5. { Alphabet[i] : i \in 1 .. n + 1 } = { Alphabet[i] : i \in 1 .. n } \cup {a}
    <3>1. 1 .. n + 1 = (1 .. n) \cup {n + 1}
      BY <2>2
    <3> QED BY <3>1
  <2> HIDE DEF a
  <2>6. CASE a \notin chosen
    BY SMTT(30), <2>2, <2>4, <2>5, <2>6 DEF Picked
  <2>7. CASE a \in chosen
    <3> DEFINE s == f[n]
    <3>1. /\ f[n + 1] = Append(s, a) /\ Len(Append(s, a)) = Len(s) + 1
          /\ Append(s, a) \in Seq(Strings) /\ s \in Seq(Strings)
          /\ \A i \in 1 .. Len(s) : Append(s, a)[i] = s[i]
          /\ Append(s, a)[Len(s) + 1] = a
      BY <2>2, <2>3, <2>4, <2>7
    <3>2. Range(Append(s, a)) = Range(s) \cup {a}
      <4>1. DOMAIN s = 1 .. Len(s) /\ Len(s) \in Nat
            /\ DOMAIN Append(s, a) = (1 .. Len(s)) \cup {Len(s) + 1}
        BY <3>1
      <4> QED BY <3>1, <4>1 DEF Range
    <3>3. \A i \in 1 .. Len(s) : s[i] \in Range(s)
      BY <3>1 DEF Range
    <3>4. ASSUME NEW i \in 1 .. Len(s) + 1, NEW j \in 1 .. Len(s) + 1, i < j
          PROVE  \E m, k \in 1 .. n + 1 :
                   m < k /\ Alphabet[m] = Append(s, a)[i] /\ Alphabet[k] = Append(s, a)[j]
      <4>0. Len(s) \in Nat
        BY <3>1
      <4>1. i \in 1 .. Len(s)
        BY <3>4, <4>0
      <4>2. CASE j = Len(s) + 1
        <5>1. PICK m \in 1 .. n : Alphabet[m] = s[i]
          BY <2>2, <3>3, <4>1
        <5>2. m < n + 1 /\ m \in 1 .. n + 1 /\ n + 1 \in 1 .. n + 1
          BY <2>2
        <5> QED BY <3>1, <4>1, <4>2, <5>1, <5>2 DEF a
      <4>3. CASE j \in 1 .. Len(s)
        <5>1. PICK m \in 1 .. n, k \in 1 .. n : m < k /\ Alphabet[m] = s[i] /\ Alphabet[k] = s[j]
          BY <2>2, <3>4, <4>1, <4>3
        <5>2. m \in 1 .. n + 1 /\ k \in 1 .. n + 1
          BY <2>2
        <5> QED BY <3>1, <4>1, <4>3, <5>1, <5>2
      <4> QED BY <4>0, <4>2, <4>3
    <3> HIDE DEF s
    <3>5. Range(f[n + 1]) = In(n + 1)
      BY <2>2, <2>5, <2>7, <3>1, <3>2 DEF s
    <3> HIDE DEF In
    <3>6. f[n + 1] \in Seq(Strings) /\ Len(f[n + 1]) = Len(s) + 1
      BY <3>1
    <3>7. ASSUME NEW i \in 1 .. Len(f[n + 1]), NEW j \in 1 .. Len(f[n + 1]), i < j
          PROVE  \E m, k \in 1 .. n + 1 :
                   m < k /\ Alphabet[m] = f[n + 1][i] /\ Alphabet[k] = f[n + 1][j]
      <4>1. i \in 1 .. Len(s) + 1 /\ j \in 1 .. Len(s) + 1
        BY <3>6, <3>7
      <4> QED BY <3>1, <3>4, <3>7, <4>1
    <3> QED BY <3>5, <3>6, <3>7 DEF Picked, In
  <2> QED BY <2>6, <2>7
<1> HIDE DEF T
<1>7. T = Nat
  <2>1. T \in SUBSET Nat
    BY DEF T
  <2> QED BY <1>5, <1>6, <2>1, Reaches
<1>8. N \in T
  BY <1>1, <1>7
<1>9. In(N) = chosen
  BY <1>1 DEF Strings, Range
<1>10. Picked(chosen, f, N)
  BY <1>1, <1>8 DEF T
<1> HIDE DEF In
<1>11. /\ f[N] \in Seq(Strings) /\ Range(f[N]) = In(N)
       /\ \A i, j \in 1 .. Len(f[N]) : i < j =>
            \E m, k \in 1 .. N : m < k /\ Alphabet[m] = f[N][i] /\ Alphabet[k] = f[N][j]
  BY <1>10 DEF Picked, In
<1> QED BY <1>3, <1>9, <1>11 DEF Ascends, N

-----------------------------------------------------------------------------
(* The actions on definitions.                                             *)

LEMMA CreateAttributeHolds ==
  ASSUME TablesHold, NEW q \in Request, CreateAttribute(q)
  PROVE  TablesHold'
<1> DEFINE ask == request[q].ask
           row == [ category |-> ask.category, key |-> ask.key, scope |-> ask.scope,
                    type |-> ask.type, options |-> Encoded(ask.type, ask.options),
                    required |-> ask.required ]
<1>1. /\ Underway(q) /\ ask.op = "create_attribute" /\ ask \in Asks /\ ask.category \in Category
      /\ ask.scope \in Scopes /\ ask.type \in Types /\ ask.required \in BOOLEAN
      /\ ask.options \in Choices
  BY Asked DEF CreateAttribute, At, Underway, Ops, ServiceOps, TablesHold, ValidAsk, Choices, Strings
<1>2. CASE Refuse(q, "invalid") \/ Refuse(q, "conflict") \/ Refuse(q, "not_found")
  BY <1>1, <1>2, RefusedHolds DEF Replies
<1>3. CASE /\ GoodOptions(ask.type, ask.options) /\ ask.category \in Rows(category)
           /\ \E d \in Definition : /\ definition' = [definition EXCEPT ![d] = row]
                                    /\ changed' = [changed EXCEPT ![d] = row.options]
           /\ Answer(q, "ok") /\ UNCHANGED <<category, service>>
  <2>1. PICK d \in Definition : /\ definition' = [definition EXCEPT ![d] = row]
                                /\ changed' = [changed EXCEPT ![d] = row.options]
    BY <1>3
  <2>2. ask.key \in Keys
    BY <1>1 DEF Keys, AskedTo
  <2>3. Encoded(ask.type, ask.options) \in Choices
    BY <1>1 DEF Encoded, Choices
  <2>4. row \in DefinitionRow
    BY <1>1, <2>2, <2>3 DEF DefinitionRow, Choices, Strings
  <2>5. row.category \in Rows(category) /\ Chooses(row)
    BY <1>3 DEF Chooses, GoodOptions, Encoded
  <2>6. changed' \in [Definition -> Choices]
    BY <2>1, <2>3 DEF TablesHold, Typed
  <2>7. request' \in [Request -> Requests]
    BY <1>1, <1>3, Answered DEF TablesHold, Replies
  <2> HIDE DEF row
  <2> QED BY <1>3, <2>1, <2>4, <2>5, <2>6, <2>7, DefinitionWritten
<1> QED BY <1>2, <1>3 DEF CreateAttribute

\* What the UPDATE is sent can be chosen from, and is sent with every enumerated type.
LEMMA Renewed ==
  ASSUME CatalogAssumption, NEW ask \in Asks, ask.op = "update_attribute",
         NEW def \in DefinitionRow, Chooses(def), FitsType(ask, def)
  PROVE  /\ NewOptions(ask, def) \in Choices
         /\ NewOptions(ask, def) # None => Choosable(NewOptions(ask, def))
         /\ Enumerated(ask.type) => NewOptions(ask, def) # None
<1> DEFINE type == Patched(ask.type, def.type)
           options == Patched(ask.options, def.options)
<1>1. ask.options \in Choices /\ def.options \in Choices
  BY DEF CatalogAssumption, ValidAsk, DefinitionRow, Choices, Strings
<1>2. options \in Choices /\ (Enumerated(type) => options # None /\ Choosable(options))
  BY <1>1 DEF FitsType, GoodOptions, Patched
<1>3. None \in Choices
  BY DEF Choices
<1>4. ask.type # None => type = ask.type
  BY DEF Patched
<1>5. ~ Enumerated(None)
  BY DEF CatalogAssumption, Types, Enumerated
<1>6. NewOptions(ask, def) =
        IF (ask.options # None \/ ask.type # None) /\ Enumerated(type) THEN options ELSE None
  BY DEF NewOptions, Encoded
<1> HIDE DEF type, options
<1> QED BY <1>2, <1>3, <1>4, <1>5, <1>6

LEMMA GetCategoryAttributeHolds ==
  ASSUME TablesHold, NEW q \in Request, GetCategoryAttribute(q)
  PROVE  TablesHold'
<1> DEFINE ask == request[q].ask
           def == definition[ask.definition]
           read == NewOptions(ask, def)
<1>1. Underway(q) /\ ask.op = "update_attribute" /\ ask \in Asks /\ ValidAsk(ask)
  BY Asked DEF GetCategoryAttribute, At, Underway, Ops, ServiceOps, TablesHold
<1>2. CASE Refuse(q, "invalid") \/ Refuse(q, "not_found")
  BY <1>1, <1>2, RefusedHolds DEF Replies
<1>3. CASE /\ ask.definition \in Rows(definition) /\ FitsType(ask, def)
           /\ Goto(q, "write_attribute", read)
           /\ UNCHANGED <<category, definition, service, changed>>
  <2>1. def \in DefinitionRow /\ Chooses(def) /\ CatalogAssumption
    BY <1>3 DEF TablesHold, Typed, Rows
  <2>2. /\ read \in Choices /\ (read # None => Choosable(read))
        /\ Enumerated(ask.type) => read # None
    BY <1>1, <1>3, <2>1, Renewed
  <2>3. None # "internal"
    BY <2>1 DEF CatalogAssumption
  <2> HIDE DEF read
  <2> DEFINE x == [ pc |-> "write_attribute", ask |-> request[q].ask, read |-> read, answer |-> None ]
  <2>4. x \in Requests
    <3>1. Sound(x)
      BY <1>1, <2>2, <2>3 DEF Sound, Ops, ServiceOps
    <3> QED BY <1>1, <2>2, <3>1 DEF Requests, Label
  <2>5. request' \in [Request -> Requests]
    BY <1>1, <1>3, <2>4, WentOn DEF TablesHold
  <2> QED BY <1>3, <2>5, Untouched
<1> QED BY <1>2, <1>3 DEF GetCategoryAttribute

\* The row as the UPDATE leaves it.
Rewrite(def, ask, read) ==
  [ def EXCEPT !.type = Patched(ask.type, @), !.options = Patched(read, @),
               !.required = Patched(ask.required, @) ]

\* A definition changed to an enumerated type is written with options, so the
\* constraint of the table has nothing to refuse.
LEMMA Rewritten ==
  ASSUME Typed, NEW q \in Request, At(q, "write_attribute"),
         NEW def \in DefinitionRow, Chooses(def), NEW row,
         row = Rewrite(def, request[q].ask, request[q].read)
  PROVE  /\ row \in DefinitionRow /\ row.category = def.category /\ Chooses(row)
         /\ EnumNeedsOptions(row)
<1> DEFINE ask == request[q].ask
           read == request[q].read
<1>1. /\ ask \in Asks /\ ValidAsk(ask) /\ ask.op = "update_attribute" /\ read \in Choices
      /\ read # None => Choosable(read)
      /\ Enumerated(ask.type) => read # None
  BY DEF Typed, Requests, Sound, At
<1>2. ask.type \in Types \cup {None} /\ ask.required \in BOOLEAN \cup {None}
  BY <1>1 DEF ValidAsk
<1>3. /\ row.type = Patched(ask.type, def.type) /\ row.options = Patched(read, def.options)
      /\ row.required = Patched(ask.required, def.required)
      /\ row.category = def.category /\ row.key = def.key /\ row.scope = def.scope
      /\ row = [ category |-> row.category, key |-> row.key, scope |-> row.scope,
                 type |-> row.type, options |-> row.options, required |-> row.required ]
  BY DEF DefinitionRow, Rewrite
<1>4. def.type \in Types /\ def.options \in Choices /\ def.required \in BOOLEAN
  BY DEF DefinitionRow, Choices, Strings
<1>5. row.type \in Types /\ row.options \in Choices /\ row.required \in BOOLEAN
  BY <1>1, <1>2, <1>3, <1>4 DEF Patched
<1>6. row \in DefinitionRow
  BY <1>3, <1>5 DEF DefinitionRow, Choices, Strings
<1>7. Chooses(row)
  BY <1>1, <1>3 DEF Chooses, Patched
<1>8. EnumNeedsOptions(row)
  BY <1>7 DEF EnumNeedsOptions, Chooses, Choosable
<1> QED BY <1>3, <1>6, <1>7, <1>8

LEMMA UpdateCategoryAttributeHolds ==
  ASSUME TablesHold, NEW q \in Request, UpdateCategoryAttribute(q)
  PROVE  TablesHold'
<1> DEFINE ask == request[q].ask
           d == ask.definition
<1>1. /\ Underway(q) /\ ask.op = "update_attribute" /\ ask \in Asks /\ d \in Definition
      /\ ask.options \in Choices /\ At(q, "write_attribute")
  BY Asked DEF UpdateCategoryAttribute, At, Underway, Ops, ServiceOps, TablesHold, ValidAsk, Sound,
               Choices, Strings
<1>2. CASE d \notin Rows(definition)
  <2>1. Refuse(q, "not_found")
    BY <1>2 DEF UpdateCategoryAttribute
  <2> QED BY <1>1, <2>1, RefusedHolds DEF Replies
<1>3. CASE d \in Rows(definition)
  <2>1. PICK row : row = Rewrite(definition[d], ask, request[q].read)
    OBVIOUS
  <2>2. /\ definition[d] \in DefinitionRow /\ Chooses(definition[d])
        /\ definition[d].category \in Rows(category)
    BY <1>3 DEF TablesHold, Typed, Rows, NothingDangles
  <2>3. /\ row \in DefinitionRow /\ row.category = definition[d].category /\ Chooses(row)
        /\ EnumNeedsOptions(row)
    BY <1>1, <2>1, <2>2, Rewritten DEF TablesHold
  <2>4. /\ definition' = [definition EXCEPT ![d] = row]
        /\ changed' = [changed EXCEPT ![d] = Patched(Encoded(row.type, ask.options), @)]
        /\ Answer(q, "ok") /\ UNCHANGED <<category, service>>
    BY <1>3, <2>1, <2>3 DEF UpdateCategoryAttribute, Rewrite
  <2>5. changed' \in [Definition -> Choices]
    <3>1. changed[d] \in Choices /\ Patched(Encoded(row.type, ask.options), changed[d]) \in Choices
      BY <1>1 DEF TablesHold, Typed, Patched, Encoded, Choices
    <3> QED BY <2>4, <3>1 DEF TablesHold, Typed
  <2>6. request' \in [Request -> Requests]
    BY <1>1, <2>4, Answered DEF TablesHold, Replies
  <2> QED BY <1>1, <2>2, <2>3, <2>4, <2>5, <2>6, DefinitionWritten
<1> QED BY <1>2, <1>3

LEMMA DeleteAttributeHolds ==
  ASSUME TablesHold, NEW q \in Request, DeleteAttribute(q)
  PROVE  TablesHold'
<1> DEFINE d == request[q].ask.definition
<1>1. Underway(q) /\ d \in Definition
  BY Asked DEF DeleteAttribute, At, Underway, Ops, ServiceOps, TablesHold, ValidAsk
<1>2. CASE Refuse(q, "not_found")
  BY <1>1, <1>2, RefusedHolds DEF Replies
<1>3. CASE definition' = [definition EXCEPT ![d] = Gone] /\ Answer(q, "ok")
           /\ UNCHANGED <<category, service, changed>>
  <2>1. request' \in [Request -> Requests]
    BY <1>1, <1>3, Answered DEF TablesHold, Replies
  <2>2. changed' \in [Definition -> Choices]
    BY <1>3 DEF TablesHold, Typed
  <2> QED BY <1>1, <1>3, <2>1, <2>2, DefinitionWritten
<1> QED BY <1>2, <1>3 DEF DeleteAttribute

-----------------------------------------------------------------------------
(* What validation lets through.                                           *)

\* A value the validator accepts is stored in one form, and is one that the forms
\* of the clients offer for the definition.
LEMMA CanonicalIs ==
  ASSUME CatalogAssumption, NEW def \in DefinitionRow, Chooses(def),
         NEW v \in Value, Accepts(def, v)
  PROVE  /\ Canonical(def, v) \in Value /\ Ascends(Canonical(def, v).of)
         /\ Offered(def, Canonical(def, v))
<1>1. /\ v.as \in {"string", "list", "number", "bool"} /\ v.of \in Seq(Strings)
      /\ v.as # "list" => Len(v.of) = 1
      /\ v.as \in {"number", "bool"} => v.of # <<Blank>>
      /\ v = [ as |-> v.as, of |-> v.of ]
  BY DEF Value, Strings
<1>2. ASSUME NEW s, s \in Seq(Strings), Len(s) = 1
      PROVE  s[1] \in Strings /\ s = <<s[1]>> /\ Ascends(s) /\ s # <<>> /\ DOMAIN s = {1}
  BY <1>2 DEF Ascends
<1>3. def.type \in Types /\ def.options \in Choices
  BY DEF DefinitionRow, Choices, Strings
<1>4. def.options # None => /\ def.options \in Seq(Strings) /\ def.options # <<>>
                            /\ \A o \in Range(def.options) : Trimmed[o] # Blank /\ o # Blank
  <2>1. SUFFICES ASSUME def.options # None PROVE def.options \in Seq(Strings) /\ Choosable(def.options)
    <3>1. ASSUME NEW o \in Strings, Trimmed[o] # Blank PROVE o # Blank
      BY <3>1 DEF CatalogAssumption, Strings
    <3>2. ASSUME def.options \in Seq(Strings), NEW o \in Range(def.options) PROVE o \in Strings
      BY <3>2 DEF Range
    <3> QED BY <3>1, <3>2 DEF Choosable
  <2> QED BY <1>3, <2>1 DEF Choices, Chooses
<1>5. CASE def.type = "text"
  <2> DEFINE t == Trimmed[Text(v)]
  <2>1. v.as = "string" /\ Len(v.of) = 1 /\ Text(v) \in Strings
    BY <1>1, <1>2, <1>5 DEF Accepts, Text
  <2>2. t \in Strings /\ (def.required => t # Blank)
    BY <1>5, <2>1 DEF CatalogAssumption, Strings, Accepts
  <2> HIDE DEF t
  <2>3. Canonical(def, v) = [ as |-> "string", of |-> <<t>> ]
    BY <1>1, <1>5, <2>1 DEF Canonical, t
  <2>4. <<t>> \in Seq(Strings) /\ Len(<<t>>) = 1 /\ <<t>> # <<>> /\ (<<t>> = <<Blank>> => t = Blank)
    BY <2>2
  <2>5. Ascends(<<t>>)
    BY <1>2, <2>4
  <2>6. [ as |-> "string", of |-> <<t>> ] \in Value
    BY <2>4 DEF Value, Strings
  <2>7. Offered(def, [ as |-> "string", of |-> <<t>> ])
    BY <1>5, <2>2, <2>4 DEF Offered, Enumerated
  <2> QED BY <2>3, <2>5, <2>6, <2>7
<1>6. CASE def.type = "multi_enum"
  <2> DEFINE of == Sorted(Range(v.of))
  <2>1. v.as = "list" /\ Range(v.of) \subseteq Range(def.options) /\ (def.required => v.of # <<>>)
    BY <1>6 DEF Accepts
  <2>2. def.options # None
    BY <1>6 DEF Chooses, Enumerated
  <2>3. Range(v.of) \subseteq Strings
    BY <1>1 DEF Range
  <2>4. of \in Seq(Strings) /\ Ascends(of) /\ Range(of) = Range(v.of)
    BY <2>3, SortedIs
  <2> HIDE DEF of
  <2>5. Canonical(def, v) = [ as |-> "list", of |-> of ]
    BY <1>1, <1>6, <2>1 DEF Canonical, of
  <2>6. [ as |-> "list", of |-> of ] \in Value
    BY <2>4 DEF Value, Strings
  <2>7. ASSUME NEW i \in DOMAIN of PROVE \E j \in DOMAIN def.options : def.options[j] = of[i]
    BY <2>1, <2>4 DEF Range
  <2>8. def.required => of \notin {<<>>, <<Blank>>}
    <3>1. v.of # <<>> => Range(v.of) # {}
      BY <1>1 DEF Range
    <3>2. Range(<<>>) = {} /\ Range(<<Blank>>) = {Blank}
      BY DEF Range
    <3>3. Blank \notin Range(def.options)
      BY <1>4, <2>2
    <3> QED BY <2>1, <2>4, <3>1, <3>2, <3>3
  <2>9. Offered(def, [ as |-> "list", of |-> of ])
    BY <1>6, <2>7, <2>8 DEF Offered, Enumerated
  <2> QED BY <2>4, <2>5, <2>6, <2>9
<1>7. CASE def.type = "enum"
  <2>1. v.as = "string" /\ Text(v) \in Range(def.options) /\ Canonical(def, v) = v
    BY <1>7 DEF Accepts, Canonical
  <2>2. def.options # None
    BY <1>7 DEF Chooses, Enumerated
  <2>3. v.of = <<Text(v)>> /\ Ascends(v.of) /\ v.of # <<>> /\ DOMAIN v.of = {1}
    BY <1>1, <1>2, <2>1 DEF Text
  <2>4. Text(v) # Blank /\ v.of # <<Blank>>
    BY <1>4, <2>1, <2>2, <2>3
  <2>5. \A i \in DOMAIN v.of : \E j \in DOMAIN def.options : def.options[j] = v.of[i]
    BY <2>1, <2>3 DEF Range, Text
  <2>6. Offered(def, v)
    BY <1>7, <2>1, <2>3, <2>4, <2>5 DEF Offered, Enumerated
  <2> QED BY <2>1, <2>3, <2>6
<1>8. CASE def.type \in {"number", "bool"}
  <2>1. v.as = def.type /\ Canonical(def, v) = v
    BY <1>8 DEF Accepts, Canonical
  <2>2. Ascends(v.of) /\ v.of # <<>> /\ v.of # <<Blank>>
    BY <1>1, <1>2, <1>8, <2>1
  <2>3. Offered(def, v)
    BY <1>8, <2>1, <2>2 DEF Offered, Enumerated
  <2> QED BY <2>1, <2>2, <2>3
<1> QED BY <1>3, <1>5, <1>6, <1>7, <1>8 DEF Types

\* A map that validates is stored with values of one form, which its category
\* asks for.
LEMMA NormalizedIs ==
  ASSUME TablesHold, NEW c, NEW values, values \in [DOMAIN values -> Value \cup {None}],
         Problems(ListAttributes(c, "service"), values) = {}
  PROVE  LET a == Normalized(ListAttributes(c, "service"), values)
         IN  a \in Stored /\ a # None /\ Fits(a, c)
<1> DEFINE defs == ListAttributes(c, "service")
           K == { def.key : def \in Given(defs, values) }
           a == Normalized(defs, values)
<1>1. CatalogAssumption
  BY DEF TablesHold, Typed
<1>2. \A def \in defs : def \in DefinitionRow /\ Chooses(def) /\ def.key \in Keys
  BY DEF TablesHold, Typed, ListAttributes, Rows, DefinitionRow
<1>3. \A def \in Given(defs, values) : /\ def \in defs /\ def.key \in DOMAIN values
                                       /\ values[def.key] # None
  BY DEF Given
<1>4. \A def \in Given(defs, values) : Accepts(def, values[def.key])
  BY DEF Problems
<1>5. \A def \in defs : def.required => def \in Given(defs, values)
  BY DEF Problems
<1> HIDE DEF defs
<1>6. ASSUME NEW k \in K
      PROVE  \E def \in defs : /\ def.key = k /\ a[k] \in Value /\ Ascends(a[k].of)
                               /\ Offered(def, a[k])
  <2>1. PICK d \in Given(defs, values) : d.key = k
    OBVIOUS
  <2> DEFINE def == CHOOSE x \in defs : x.key = k
  <2>2. def \in defs /\ def.key = k
    BY <1>3, <2>1
  <2>3. a[k] = Canonical(def, values[k])
    BY DEF Normalized
  <2> HIDE DEF def, a, K
  <2>4. k \in DOMAIN values /\ values[k] # None /\ values[k] \in Value
    BY <1>3, <2>1
  <2>5. def \in Given(defs, values)
    BY <2>2, <2>4 DEF Given
  <2>6. Accepts(def, values[k]) /\ def \in DefinitionRow /\ Chooses(def)
    BY <1>2, <1>4, <2>2, <2>5
  <2>7. Canonical(def, values[k]) \in Value /\ Ascends(Canonical(def, values[k]).of)
        /\ Offered(def, Canonical(def, values[k]))
    BY <1>1, <2>4, <2>6, CanonicalIs
  <2> QED BY <2>2, <2>3, <2>7
<1>7. DOMAIN a = K /\ a = [ k \in K |-> a[k] ]
  BY DEF Normalized
<1>8. K \subseteq Keys /\ K \subseteq AllKeys
  BY <1>2, <1>3 DEF AllKeys
<1> HIDE DEF a, K
<1>9. a \in [K -> Value]
  BY <1>6, <1>7
<1>10. a \in Stored
  BY <1>6, <1>7, <1>8, <1>9 DEF Stored, Tidy
<1>11. a # None
  BY <1>1, <1>8, <1>9 DEF CatalogAssumption
<1>12. Fits(a, c)
  <2>1. \A k \in DOMAIN a : \E def \in defs : def.key = k /\ Offered(def, a[k])
    BY <1>6, <1>7
  <2>2. \A def \in defs : def.required => def.key \in DOMAIN a
    BY <1>5, <1>7 DEF K
  <2> QED BY <2>1, <2>2 DEF Fits, defs
<1> QED BY <1>10, <1>11, <1>12 DEF a, defs

-----------------------------------------------------------------------------
(* The actions on services.                                                *)

\* A request that passed: it will write what its category asks for.
Passed(q, c, label) ==
  /\ request[q].ask \in Asks
  /\ \E a \in Stored :
       /\ a # None /\ Fits(a, c)
       /\ request'[q] = [ pc |-> label, ask |-> request[q].ask, read |-> a, answer |-> None ]
  /\ \A p \in Request \ {q} : request'[p] = request[p]
  /\ UNCHANGED <<category, definition, service, changed>>

LEMMA ValidateHolds ==
  ASSUME TablesHold, NEW q \in Request, Underway(q), NEW c, NEW values,
         values \in [DOMAIN values -> Value \cup {None}], NEW label,
         \/ label = "insert_service" /\ request[q].ask.op = "create_service"
         \/ label = "write_service" /\ request[q].ask.op = "update_service",
         Validate(q, c, values, label)
  PROVE  TablesHold' /\ (Refuse(q, "invalid") \/ Passed(q, c, label))
<1> DEFINE a == Normalized(ListAttributes(c, "service"), values)
           x == [ pc |-> label, ask |-> request[q].ask, read |-> a, answer |-> None ]
<1>1. CASE Refuse(q, "invalid")
  BY <1>1, RefusedHolds DEF Replies
<1>2. CASE /\ Problems(ListAttributes(c, "service"), values) = {} /\ Goto(q, label, a)
           /\ UNCHANGED <<category, definition, service, changed>>
  <2>1. a \in Stored /\ a # None /\ Fits(a, c)
    BY <1>2, NormalizedIs
  <2> HIDE DEF a
  <2>2. request[q].ask \in Asks /\ ValidAsk(request[q].ask)
    BY Asked DEF TablesHold
  <2>3. None # "internal"
    BY DEF TablesHold, Typed, CatalogAssumption
  <2>4. Sound(x) /\ x.pc \in Label
    BY <2>1, <2>2, <2>3 DEF Sound, Ops, ServiceOps, Label
  <2>5. x \in Requests
    BY <2>1, <2>2, <2>4 DEF Requests
  <2>6. /\ request' \in [Request -> Requests] /\ request'[q] = x
        /\ \A p \in Request \ {q} : request'[p] = request[p]
    BY <1>2, <2>5, WentOn DEF TablesHold
  <2>7. TablesHold'
    BY <1>2, <2>6, Untouched
  <2> QED BY <1>2, <2>1, <2>2, <2>6, <2>7 DEF Passed
<1> QED BY <1>1, <1>2 DEF Validate

LEMMA ValidateNewHolds ==
  ASSUME TablesHold, NEW q \in Request, ValidateNew(q)
  PROVE  /\ TablesHold'
         /\ Refuse(q, "invalid") \/ Passed(q, request[q].ask.category, "insert_service")
<1> DEFINE ask == request[q].ask
<1>1. Underway(q) /\ ask.op = "create_service" /\ ValidAsk(ask)
  BY Asked DEF ValidateNew, At, Underway, Ops, ServiceOps, TablesHold
<1>2. ask.attributes \in [DOMAIN ask.attributes -> Value \cup {None}]
  BY <1>1 DEF ValidAsk
<1>3. Validate(q, ask.category, ask.attributes, "insert_service")
  BY DEF ValidateNew
<1> QED BY <1>1, <1>2, <1>3, ValidateHolds

LEMMA RevalidateHolds ==
  ASSUME TablesHold, NEW q \in Request, Revalidate(q)
  PROVE  /\ TablesHold'
         /\ \/ Refuse(q, "invalid")
            \/ Passed(q, Patched(request[q].ask.category, request[q].read.category), "write_service")
<1> DEFINE ask == request[q].ask
           values == Patched(ask.attributes, request[q].read.attributes)
           c == Patched(ask.category, request[q].read.category)
<1>1. Underway(q) /\ ask.op = "update_service" /\ ValidAsk(ask) /\ request[q].read \in ServiceRow
  BY Asked DEF Revalidate, At, Underway, Ops, ServiceOps, TablesHold, Sound
<1>2. request[q].read.attributes \in Stored
  BY <1>1 DEF ServiceRow
<1>3. values \in [DOMAIN values -> Value \cup {None}]
  BY <1>1, <1>2 DEF ValidAsk, Patched, Stored
<1>4. Validate(q, c, values, "write_service")
  BY DEF Revalidate
<1> HIDE DEF c, values
<1>5. TablesHold' /\ (Refuse(q, "invalid") \/ Passed(q, c, "write_service"))
  BY <1>1, <1>3, <1>4, ValidateHolds
<1> QED BY <1>5 DEF c

LEMMA InsertServiceHolds ==
  ASSUME TablesHold, NEW q \in Request, InsertService(q)
  PROVE  TablesHold'
<1> DEFINE ask == request[q].ask
           row == [ provider |-> ask.provider, category |-> ask.category,
                    attributes |-> request[q].read ]
<1>1. /\ Underway(q) /\ ask.op = "create_service" /\ ask \in Asks /\ ask.category \in Category
      /\ request[q].read \in Stored
  BY Asked DEF InsertService, At, Underway, Ops, ServiceOps, TablesHold, ValidAsk, Sound
<1>2. CASE Refuse(q, "invalid")
  BY <1>1, <1>2, RefusedHolds DEF Replies
<1>3. CASE /\ ask.category \in Rows(category) /\ Answer(q, "ok")
           /\ \E s \in ServiceId : service' = [service EXCEPT ![s] = row]
           /\ UNCHANGED <<category, definition, changed>>
  <2>1. PICK s \in ServiceId : service' = [service EXCEPT ![s] = row]
    BY <1>3
  <2>2. row \in ServiceRow /\ row.category \in Rows(category)
    BY <1>1, <1>3 DEF ServiceRow, Owners
  <2>3. request' \in [Request -> Requests]
    BY <1>1, <1>3, Answered DEF TablesHold, Replies
  <2> HIDE DEF row
  <2> QED BY <1>3, <2>1, <2>2, <2>3, ServiceWritten
<1> QED BY <1>2, <1>3 DEF InsertService

LEMMA GetServiceHolds ==
  ASSUME TablesHold, NEW q \in Request, GetService(q)
  PROVE  TablesHold'
<1> DEFINE ask == request[q].ask
           x(label, read) == [ pc |-> label, ask |-> ask, read |-> read, answer |-> None ]
<1>1. Underway(q) /\ ask.op = "update_service" /\ ask \in Asks /\ ValidAsk(ask)
  BY Asked DEF GetService, At, Underway, Ops, ServiceOps, TablesHold
<1>2. CASE Refuse(q, "not_found")
  BY <1>1, <1>2, RefusedHolds DEF Replies
<1>3. ASSUME NEW label, NEW read, Goto(q, label, read),
             UNCHANGED <<category, definition, service, changed>>,
             \/ label = "write_service" /\ read = None
             \/ label = "validate" /\ read \in ServiceRow
      PROVE  TablesHold'
  <2>1. None # "internal"
    BY DEF TablesHold, Typed, CatalogAssumption
  <2>2. Sound(x(label, read)) /\ label \in Label
    BY <1>1, <1>3, <2>1 DEF Sound, Ops, ServiceOps, Label
  <2>3. x(label, read) \in Requests
    BY <1>1, <1>3, <2>2 DEF Requests, Choices
  <2>4. request' \in [Request -> Requests]
    BY <1>1, <1>3, <2>3, WentOn DEF TablesHold
  <2> QED BY <1>3, <2>4, Untouched
<1>4. Owned(ask.service, ask.provider) => service[ask.service] \in ServiceRow
  BY DEF Owned, Rows, TablesHold, Typed
<1> QED BY <1>2, <1>3, <1>4 DEF GetService

LEMMA UpdateServiceHolds ==
  ASSUME TablesHold, NEW q \in Request, UpdateService(q)
  PROVE  TablesHold'
<1> DEFINE ask == request[q].ask
           s == ask.service
           row == [ provider |-> service[s].provider,
                    category |-> Patched(ask.category, service[s].category),
                    attributes |-> Written(request[q].read, service[s].attributes) ]
<1>1. /\ Underway(q) /\ ask.op = "update_service" /\ ask \in Asks /\ ask.category \in Category \cup {None}
      /\ request[q].read \in Stored \cup {None} /\ s \in ServiceId
  BY Asked DEF UpdateService, At, Underway, Ops, ServiceOps, TablesHold, ValidAsk, Sound
<1>2. CASE Refuse(q, "not_found") \/ Refuse(q, "invalid")
  BY <1>1, <1>2, RefusedHolds DEF Replies
<1>3. CASE /\ Owned(s, ask.provider) /\ ask.category \in Rows(category) \cup {None} /\ Answer(q, "ok")
           /\ service' = [service EXCEPT ![s].category = Patched(ask.category, @),
                                         ![s].attributes = Written(request[q].read, @)]
           /\ UNCHANGED <<category, definition, changed>>
  <2>1. service[s] \in ServiceRow /\ service[s].category \in Rows(category)
    BY <1>3 DEF Owned, Rows, TablesHold, Typed, NothingDangles
  <2>2. PICK r : r = service[s]
    OBVIOUS
  <2>3. [r EXCEPT !.category = Patched(ask.category, @), !.attributes = Written(request[q].read, @)] = row
    <3> DEFINE y == [r EXCEPT !.category = Patched(ask.category, @),
                              !.attributes = Written(request[q].read, @)]
    <3>1. DOMAIN r = {"provider", "category", "attributes"}
      BY <2>1, <2>2 DEF ServiceRow
    <3>2. /\ y.category = row.category /\ y.attributes = row.attributes
          /\ y.provider = row.provider
      BY <2>2, <3>1
    <3>3. y = [ f \in {"provider", "category", "attributes"} |-> y[f] ]
      BY <3>1
    <3> HIDE DEF y, row
    <3>4. row = [ provider |-> row.provider, category |-> row.category,
                  attributes |-> row.attributes ]
      BY DEF row
    <3>5. y = row
      BY <3>2, <3>3, <3>4
    <3> QED BY <3>5 DEF y
  <2>4. service' = [service EXCEPT ![s] = row]
    BY <1>3, <2>2, <2>3 DEF TablesHold, Typed
  <2>5. row \in ServiceRow /\ row.category \in Rows(category)
    BY <1>1, <1>3, <2>1 DEF ServiceRow, Patched, Written
  <2>6. request' \in [Request -> Requests]
    BY <1>1, <1>3, Answered DEF TablesHold, Replies
  <2> HIDE DEF row
  <2> QED BY <1>1, <1>3, <2>4, <2>5, <2>6, ServiceWritten
<1> QED BY <1>2, <1>3 DEF UpdateService

LEMMA DeleteServiceHolds ==
  ASSUME TablesHold, NEW q \in Request, DeleteService(q)
  PROVE  TablesHold'
<1> DEFINE s == request[q].ask.service
<1>1. Underway(q) /\ s \in ServiceId
  BY Asked DEF DeleteService, At, Underway, Ops, ServiceOps, TablesHold, ValidAsk
<1>2. CASE Refuse(q, "not_found")
  BY <1>1, <1>2, RefusedHolds DEF Replies
<1>3. CASE service' = [service EXCEPT ![s] = Gone] /\ Answer(q, "ok")
           /\ UNCHANGED <<category, definition, changed>>
  <2>1. request' \in [Request -> Requests]
    BY <1>1, <1>3, Answered DEF TablesHold, Replies
  <2> QED BY <1>1, <1>3, <2>1, ServiceWritten
<1> QED BY <1>2, <1>3 DEF DeleteService

-----------------------------------------------------------------------------
(* The theorems that need no more.                                         *)

LEMMA NextTablesHold == TablesHold /\ [Next]_vars => TablesHold'
<1> SUFFICES ASSUME TablesHold, [Next]_vars PROVE TablesHold'
  OBVIOUS
<1>1. CASE UNCHANGED vars
  BY <1>1, Untouched DEF vars, TablesHold, Typed
<1>2. ASSUME NEW q \in Request, Arrive(q, Asks) PROVE TablesHold'
  BY <1>2, ArriveHolds
<1>3. ASSUME NEW q \in Request, Admin(q) PROVE TablesHold'
  BY <1>3, CreateCategoryHolds, UpdateCategoryHolds, DeleteCategoryHolds, CreateAttributeHolds,
     GetCategoryAttributeHolds, UpdateCategoryAttributeHolds, DeleteAttributeHolds DEF Admin
<1>4. ASSUME NEW q \in Request, Org(q) PROVE TablesHold'
  BY <1>4, ValidateNewHolds, InsertServiceHolds, GetServiceHolds, RevalidateHolds,
     UpdateServiceHolds, DeleteServiceHolds DEF Org
<1> QED BY <1>1, <1>2, <1>3, <1>4 DEF Next, Serve

LEMMA TablesAlwaysHold == CatalogAssumption /\ Spec => []TablesHold
BY InitTablesHold, NextTablesHold, PTL DEF Spec

\* A definition and a service belong to a category that exists, and a category to one
\* that exists or to none, whichever requests cross.
THEOREM CategoriesExist == CatalogAssumption /\ Spec => []NothingDangles
<1>1. TablesHold => NothingDangles
  BY DEF TablesHold
<1> QED BY <1>1, TablesAlwaysHold, PTL

\* Whatever two administrators change at once, an enumerated attribute has options to
\* choose from.
THEOREM OptionsToChoose == CatalogAssumption /\ Spec => []OptionsToChooseFrom
<1>1. TablesHold => OptionsToChooseFrom
  <2> SUFFICES ASSUME TablesHold, NEW d \in Rows(definition), Enumerated(definition[d].type)
               PROVE  /\ definition[d].options \notin {None, <<>>}
                      /\ IsInjective(definition[d].options)
                      /\ \A o \in Range(definition[d].options) : Trimmed[o] # Blank
    BY DEF OptionsToChooseFrom
  <2>1. definition[d].options # None /\ Choosable(definition[d].options)
    BY DEF TablesHold, Chooses
  <2> QED BY <2>1 DEF Choosable
<1> QED BY <1>1, TablesAlwaysHold, PTL

\* The constraint of the table never speaks where the service did not: the one failure
\* answered as an internal error is a parent that does not exist.
THEOREM NothingInternal == CatalogAssumption /\ Spec => []NoSurprise
<1>1. TablesHold => NoSurprise
  BY DEF TablesHold, Typed, Requests, Sound, NoSurprise
<1> QED BY <1>1, TablesAlwaysHold, PTL

\* What is stored has one form for each meaning, whichever definitions changed since.
THEOREM OneFormStored == CatalogAssumption /\ Spec => []OneForm
<1>1. TablesHold => OneForm
  <2> SUFFICES ASSUME TablesHold, NEW s \in Rows(service), NEW k \in DOMAIN service[s].attributes
               PROVE  LET v == service[s].attributes[k]
                      IN  Ascends(v.of) /\ (v.as = "list" \/ Len(v.of) = 1)
    BY DEF OneForm
  <2>1. service[s].attributes \in Stored
    BY DEF TablesHold, Typed, Rows, ServiceRow
  <2>2. service[s].attributes[k] \in Value /\ Ascends(service[s].attributes[k].of)
    BY <2>1 DEF Stored, Tidy
  <2> QED BY <2>2 DEF Value
<1> QED BY <1>1, TablesAlwaysHold, PTL

\* The types, and that no attribute of a service is null.
THEOREM CatalogKinds == CatalogAssumption /\ Spec => []TypeOK
<1>1. TablesHold => TypeOK
  <2> SUFFICES ASSUME TablesHold PROVE TypeOK
    OBVIOUS
  <2>1. \A c \in Rows(category) : category[c].parent \in Category \cup {None}
    BY DEF TablesHold, Typed, Rows, CategoryRow
  <2>2. \A d \in Rows(definition) : definition[d].type \in Types /\ definition[d].scope \in Scopes
    BY DEF TablesHold, Typed, Rows, DefinitionRow
  <2>3. ASSUME NEW s \in Rows(service), NEW k \in DOMAIN service[s].attributes
        PROVE  service[s].attributes[k] # None
    <3>1. service[s].attributes \in Stored
      BY DEF TablesHold, Typed, Rows, ServiceRow
    <3> QED BY <3>1 DEF Stored, TablesHold, Typed, CatalogAssumption
  <2>4. \A q \in Request : request[q].answer \in
          {None, "ok", "invalid", "conflict", "not_found", "internal"}
    BY DEF TablesHold, Typed, Requests, Replies
  <2> QED BY <2>1, <2>2, <2>3, <2>4 DEF TypeOK
<1> QED BY <1>1, TablesAlwaysHold, PTL

-----------------------------------------------------------------------------
(* A step is that of one request.                                          *)

Step(q) == Arrive(q, Asks) \/ Admin(q) \/ Org(q)

LEMMA OnlyOneSteps ==
  ASSUME Typed, NEW q \in Request, Step(q)
  PROVE  /\ \A p \in Request \ {q} : request'[p] = request[p]
         /\ request[q].pc # request'[q].pc
<1>1. request \in [Request -> Requests]
  BY DEF Typed
<1>2. ASSUME NEW reply, Answer(q, reply)
      PROVE  (\A p \in Request \ {q} : request'[p] = request[p]) /\ request'[q].pc = "done"
  BY <1>1, <1>2 DEF Answer, Requests
<1>3. ASSUME NEW label, NEW read, Goto(q, label, read)
      PROVE  (\A p \in Request \ {q} : request'[p] = request[p]) /\ request'[q].pc = label
  BY <1>1, <1>3 DEF Goto, Requests
<1>4. CASE Arrive(q, Asks)
  <2>1. PICK ask \in Asks : request' = [request EXCEPT ![q].ask = ask, ![q].pc = ask.op]
    BY <1>4 DEF Arrive
  <2>2. (\A p \in Request \ {q} : request'[p] = request[p]) /\ request'[q].pc = ask.op
    BY <1>1, <2>1 DEF Requests
  <2>3. ask.op \in Ops
    BY DEF Typed, CatalogAssumption, ValidAsk
  <2> QED BY <1>4, <2>2, <2>3 DEF Arrive, Ops, ServiceOps
<1>5. CASE Admin(q)
  <2>1. \/ request[q].pc \notin {"done", "write_attribute"}
        \/ UpdateCategoryAttribute(q)
    BY <1>5 DEF Admin, At, CreateCategory, UpdateCategory, DeleteCategory, CreateAttribute,
                GetCategoryAttribute, DeleteAttribute
  <2>2. \/ \E reply : Answer(q, reply)
        \/ GetCategoryAttribute(q) /\ \E read : Goto(q, "write_attribute", read)
    BY <1>5 DEF Admin, Refuse, CreateCategory, UpdateCategory, DeleteCategory, CreateAttribute,
                GetCategoryAttribute, UpdateCategoryAttribute, DeleteAttribute
  <2> QED BY <1>2, <1>3, <1>5, <2>1, <2>2 DEF At, UpdateCategoryAttribute, GetCategoryAttribute
<1>6. CASE Org(q)
  <2>1. /\ request[q].pc \in {"create_service", "insert_service", "update_service", "validate",
                              "write_service", "delete_service"}
        /\ \/ \E reply : Answer(q, reply)
           \/ At(q, "create_service") /\ \E read : Goto(q, "insert_service", read)
           \/ At(q, "update_service") /\ \E read : Goto(q, "write_service", read)
           \/ At(q, "update_service") /\ \E read : Goto(q, "validate", read)
           \/ At(q, "validate") /\ \E read : Goto(q, "write_service", read)
    BY <1>6 DEF Org, At, Refuse, Validate, ValidateNew, InsertService, GetService, Revalidate,
                UpdateService, DeleteService
  <2> QED BY <1>2, <1>3, <2>1 DEF At
<1> QED BY <1>4, <1>5, <1>6 DEF Step

\* What was asked for stays when the request goes on.
LEMMA AskStays ==
  ASSUME Typed, NEW q \in Request, Admin(q) \/ Org(q)
  PROVE  request'[q].ask = request[q].ask /\ request'[q].pc # "idle"
<1>1. ASSUME NEW reply, Answer(q, reply)
      PROVE  request'[q].ask = request[q].ask /\ request'[q].pc # "idle"
  BY <1>1 DEF Answer, Typed, Requests
<1>2. ASSUME NEW label, NEW read, label # "idle", Goto(q, label, read)
      PROVE  request'[q].ask = request[q].ask /\ request'[q].pc # "idle"
  BY <1>2 DEF Goto, Typed, Requests
<1>3. CASE Admin(q)
  BY <1>1, <1>2, <1>3 DEF Admin, Refuse, CreateCategory, UpdateCategory, DeleteCategory,
     CreateAttribute, GetCategoryAttribute, UpdateCategoryAttribute, DeleteAttribute
<1>4. CASE Org(q)
  BY <1>1, <1>2, <1>4 DEF Org, Refuse, Validate, ValidateNew, InsertService, GetService,
     Revalidate, UpdateService, DeleteService
<1> QED BY <1>3, <1>4

\* A step of a request whose turn it is.
LEMMA StepsUnderway ==
  ASSUME Typed, NEW q \in Request, Admin(q) \/ Org(q)
  PROVE  Underway(q)
BY DEF Admin, Org, At, Underway, CreateCategory, UpdateCategory, DeleteCategory, CreateAttribute,
       GetCategoryAttribute, UpdateCategoryAttribute, DeleteAttribute, ValidateNew, InsertService,
       GetService, Revalidate, UpdateService, DeleteService

\* A request in the scope of one provider changes no service of another, also when the
\* service is deleted, and another created, in between.
THEOREM OwnServices == CatalogAssumption /\ Spec => [][OwnServicesOnly]_vars
<1>1. TablesHold /\ [Next]_vars => [OwnServicesOnly]_vars
  <2> SUFFICES ASSUME TablesHold, Next PROVE OwnServicesOnly
    BY DEF vars, OwnServicesOnly
  <2>1. PICK q \in Request : Step(q)
    BY DEF Next, Serve, Step
  <2>2. request'[q] # request[q]
    BY <2>1, OnlyOneSteps DEF TablesHold
  <2>3. ASSUME NEW s \in Rows(service), service'[s] # service[s]
        PROVE  request[q].ask.provider = service[s].provider
    <3>1. s \in ServiceId /\ service \in [ServiceId -> ServiceRow \cup {None, Gone}]
          /\ service[s] # None
      BY DEF TablesHold, Typed, Rows
    <3>2. InsertService(q) \/ UpdateService(q) \/ DeleteService(q)
      BY <2>1, <2>3 DEF Step, Arrive, Admin, Org, Refuse, CreateCategory, UpdateCategory,
         DeleteCategory, CreateAttribute, GetCategoryAttribute, UpdateCategoryAttribute,
         DeleteAttribute, ValidateNew, Validate, GetService, Revalidate
    <3>3. CASE InsertService(q)
      BY <2>3, <3>1, <3>3 DEF InsertService, Refuse
    <3>4. CASE UpdateService(q)
      <4>1. Owned(request[q].ask.service, request[q].ask.provider)
            /\ s = request[q].ask.service
        BY <2>3, <3>1, <3>4 DEF UpdateService, Refuse
      <4> QED BY <4>1 DEF Owned
    <3>5. CASE DeleteService(q)
      <4>1. Owned(request[q].ask.service, request[q].ask.provider)
            /\ s = request[q].ask.service
        BY <2>3, <3>1, <3>5 DEF DeleteService, Refuse, Deletable
      <4> QED BY <4>1 DEF Owned
    <3> QED BY <3>2, <3>3, <3>4, <3>5
  <2> QED BY <2>2, <2>3 DEF OwnServicesOnly
<1> QED BY <1>1, TablesAlwaysHold, PTL DEF Spec

-----------------------------------------------------------------------------
(* One request at a time.                                                  *)

\* What is still true was true before.
LEMMA AloneBefore ==
  ASSUME [Next]_vars, alone => Alone, alone'
  PROVE  alone /\ Alone'
<1>1. CASE UNCHANGED vars
  BY <1>1 DEF vars, Alone, Underway
<1>2. CASE Next
  BY <1>2 DEF Next, Serve
<1> QED BY <1>1, <1>2

LEMMA OthersRest ==
  ASSUME TablesHold, Alone, Alone', NEW q \in Request, Step(q)
  PROVE  \A p \in Request \ {q} : ~ Underway(p) /\ request'[p] = request[p]
<1>1. \A p \in Request \ {q} : request'[p] = request[p]
  BY OnlyOneSteps DEF TablesHold
<1>2. ASSUME NEW p \in Request \ {q} PROVE ~ Underway(p)
  <2>1. CASE Arrive(q, Asks)
    <3>1. PICK ask \in Asks : request' = [request EXCEPT ![q].ask = ask, ![q].pc = ask.op]
      BY <2>1 DEF Arrive
    <3>2. request'[q].pc = ask.op /\ ask.op \in Ops
      BY <3>1 DEF TablesHold, Typed, Requests, CatalogAssumption, ValidAsk
    <3>3. Underway(q)'
      BY <3>2 DEF Underway, Ops, ServiceOps
    <3>4. Underway(p) => Underway(p)'
      BY <1>1 DEF Underway
    <3> QED BY <3>3, <3>4 DEF Alone
  <2>2. CASE Admin(q) \/ Org(q)
    BY <2>2, StepsUnderway DEF TablesHold, Alone
  <2> QED BY <2>1, <2>2 DEF Step
<1> QED BY <1>1, <1>2

\* What a request will write to a definition is what it would decide on now.
Latest ==
  \A q \in Request :
    At(q, "write_attribute") /\ request[q].ask.definition \in Rows(definition) =>
      request[q].read = NewOptions(request[q].ask, definition[request[q].ask.definition])

Kept ==
  \A d \in Rows(definition) : changed[d] # None => definition[d].options = changed[d]

PatchesHold == TablesHold /\ Alone /\ Latest /\ Kept

LEMMA InitPatchesHold == CatalogAssumption /\ Init => PatchesHold
<1> SUFFICES ASSUME CatalogAssumption, Init PROVE PatchesHold
  OBVIOUS
<1>1. TablesHold
  BY InitTablesHold
<1>2. \A q \in Request : request[q].pc = "idle"
  BY DEF Init, NoRequest
<1>3. Kept
  BY DEF Init, Kept, Rows
<1> QED BY <1>1, <1>2, <1>3 DEF PatchesHold, Alone, Latest, Underway, At

\* The options that are written, and those a patch was last asked for, agree.
LEMMA PatchAgrees ==
  ASSUME CatalogAssumption, NEW ask \in Asks, ask.op = "update_attribute",
         NEW def, NEW row, row = Rewrite(def, ask, NewOptions(ask, def)), def \in DefinitionRow,
         NEW old, old # None => def.options = old
  PROVE  LET new == Patched(Encoded(row.type, ask.options), old)
         IN  new # None => row.options = new
<1>1. row.type = Patched(ask.type, def.type)
      /\ row.options = Patched(NewOptions(ask, def), def.options)
  BY DEF Rewrite, DefinitionRow
<1> QED BY <1>1 DEF NewOptions, Patched, Encoded

LEMMA NextPatchesHold == PatchesHold /\ Alone' /\ [Next]_vars => PatchesHold'
<1> SUFFICES ASSUME PatchesHold, Alone', [Next]_vars PROVE PatchesHold'
  OBVIOUS
<1>1. TablesHold'
  BY NextTablesHold DEF PatchesHold
<1>2. CASE UNCHANGED vars
  BY <1>1, <1>2 DEF PatchesHold, Alone, Latest, Kept, vars, Underway, At, Rows
<1>3. ASSUME NEW q \in Request, Step(q) PROVE PatchesHold'
  <2>1. \A p \in Request \ {q} : ~ Underway(p) /\ request'[p] = request[p]
    BY <1>3, OthersRest DEF PatchesHold
  <2>2. TablesHold /\ Typed /\ CatalogAssumption
    BY DEF PatchesHold, TablesHold, Typed
  <2>3. Latest'
    <3> SUFFICES ASSUME NEW p \in Request, At(p, "write_attribute")',
                        request'[p].ask.definition \in Rows(definition')
                 PROVE  request'[p].read = NewOptions(request'[p].ask, definition'[request'[p].ask.definition])
      BY DEF Latest
    <3>1. p = q
      BY <2>1 DEF At, Underway
    <3>2. GetCategoryAttribute(q)
      <4>1. ASSUME NEW reply, Answer(q, reply) PROVE FALSE
        BY <2>2, <3>1, <4>1 DEF Answer, At, Typed, Requests
      <4>2. ASSUME NEW label, NEW read, Goto(q, label, read), label # "write_attribute" PROVE FALSE
        BY <2>2, <3>1, <4>2 DEF Goto, At, Typed, Requests
      <4>3. CASE Arrive(q, Asks)
        <5>1. PICK ask \in Asks : request' = [request EXCEPT ![q].ask = ask, ![q].pc = ask.op]
          BY <4>3 DEF Arrive
        <5>2. request'[q].pc = ask.op /\ ask.op \in Ops
          BY <2>2, <5>1 DEF Typed, Requests, CatalogAssumption, ValidAsk
        <5> QED BY <3>1, <5>2 DEF At, Ops, ServiceOps
      <4>4. CASE Admin(q)
        BY <4>1, <4>4 DEF Admin, Refuse, CreateCategory, UpdateCategory, DeleteCategory,
                          CreateAttribute, UpdateCategoryAttribute, DeleteAttribute
      <4>5. CASE Org(q)
        BY <4>1, <4>2, <4>5 DEF Org, Refuse, Validate, ValidateNew, InsertService, GetService,
                                Revalidate, UpdateService, DeleteService
      <4> QED BY <1>3, <4>3, <4>4, <4>5 DEF Step
    <3>3. PICK read : Goto(q, "write_attribute", read) /\ UNCHANGED definition
                      /\ read = NewOptions(request[q].ask, definition[request[q].ask.definition])
      <4>1. ~ Answer(q, "not_found") /\ ~ Answer(q, "invalid")
        BY <2>2, <3>1 DEF Answer, At, Typed, Requests
      <4> QED BY <3>2, <4>1 DEF GetCategoryAttribute, Refuse
    <3>4. request'[q].read = read /\ request'[q].ask = request[q].ask
      BY <2>2, <3>3 DEF Goto, Typed, Requests
    <3> QED BY <3>1, <3>3, <3>4
  <2>4. Kept'
    <3> SUFFICES ASSUME NEW d \in Rows(definition'), changed'[d] # None
                 PROVE  definition'[d].options = changed'[d]
      BY DEF Kept
    <3>0. d \in Definition /\ definition'[d] \notin {None, Gone}
      BY <1>1 DEF TablesHold, Typed, Rows
    <3>1. CASE definition'[d] = definition[d] /\ changed'[d] = changed[d]
      BY <2>2, <3>0, <3>1 DEF PatchesHold, Kept, Rows, Typed
    <3>2. CASE CreateAttribute(q)
      BY <2>2, <3>0, <3>1, <3>2 DEF CreateAttribute, Refuse, Typed
    <3>3. CASE UpdateCategoryAttribute(q)
      <4> DEFINE ask == request[q].ask
      <4>1. CASE UNCHANGED <<definition, changed>>
        BY <3>1, <4>1
      <4>2. CASE d # ask.definition
        BY <2>2, <3>0, <3>1, <3>3, <4>2 DEF UpdateCategoryAttribute, Refuse, Typed
      <4>3. CASE d = ask.definition /\ ~ UNCHANGED <<definition, changed>>
        <5>1. PICK row : row = Rewrite(definition[d], ask, request[q].read)
          OBVIOUS
        <5>2. /\ d \in Rows(definition)
              /\ definition' = [definition EXCEPT ![d] = row]
              /\ changed' = [changed EXCEPT ![d] = Patched(Encoded(row.type, ask.options), @)]
          BY <3>3, <4>3, <5>1 DEF UpdateCategoryAttribute, Refuse, Rewrite
        <5>3. /\ request[q].read = NewOptions(ask, definition[d]) /\ definition[d] \in DefinitionRow
              /\ ask \in Asks /\ ask.op = "update_attribute"
              /\ changed[d] # None => definition[d].options = changed[d]
          <6>1. Underway(q) /\ At(q, "write_attribute")
            BY <3>3 DEF UpdateCategoryAttribute, At, Underway
          <6> QED BY <2>2, <4>3, <5>2, <6>1, Asked
                     DEF PatchesHold, Latest, Kept, Typed, Rows, Sound, At
        <5>4. definition'[d] = row /\ changed'[d] = Patched(Encoded(row.type, ask.options), changed[d])
          BY <2>2, <3>0, <5>2 DEF Typed
        <5> QED BY <2>2, <5>1, <5>3, <5>4, PatchAgrees, SMTT(30)
      <4> QED BY <4>1, <4>2, <4>3
    <3>4. CASE DeleteCategory(q)
      BY <2>2, <3>0, <3>1, <3>4 DEF DeleteCategory, Refuse, Typed
    <3>5. CASE DeleteAttribute(q)
      BY <2>2, <3>0, <3>1, <3>5 DEF DeleteAttribute, Refuse, Typed
    <3>6. CASE UNCHANGED <<definition, changed>>
      BY <3>1, <3>6
    <3>7. \/ CreateAttribute(q) \/ UpdateCategoryAttribute(q) \/ DeleteCategory(q)
          \/ DeleteAttribute(q) \/ UNCHANGED <<definition, changed>>
      BY <1>3 DEF Step, Arrive, Admin, Org, Refuse, CreateCategory, UpdateCategory,
         GetCategoryAttribute, ValidateNew, Validate, InsertService, GetService, Revalidate,
         UpdateService, DeleteService
    <3> QED BY <3>2, <3>3, <3>4, <3>5, <3>6, <3>7
  <2> QED BY <1>1, <2>1, <2>3, <2>4 DEF PatchesHold
<1> QED BY <1>2, <1>3 DEF Next, Serve, Step

\* Until two requests overlap, a patch that names no options leaves those that were
\* last named.
THEOREM PatchesKeepOptions == CatalogAssumption /\ Spec => []PatchKeeps
<1> DEFINE Inv == alone => PatchesHold
<1>1. CatalogAssumption /\ Init => Inv
  BY InitPatchesHold
<1>2. Inv /\ [Next]_vars => Inv'
  <2> SUFFICES ASSUME Inv, [Next]_vars, alone' PROVE PatchesHold'
    OBVIOUS
  <2>1. alone /\ Alone'
    BY AloneBefore DEF PatchesHold
  <2> QED BY <2>1, NextPatchesHold
<1>3. Inv => PatchKeeps
  BY DEF PatchesHold, PatchKeeps, Kept
<1> QED BY <1>1, <1>2, <1>3, PTL DEF Spec

-----------------------------------------------------------------------------
(* While nobody changes categories and definitions.                        *)

LEMMA ServicesBefore ==
  ASSUME TablesHold, [Next]_vars, ServicesOnly'
  PROVE  ServicesOnly
<1>1. CASE UNCHANGED vars
  BY <1>1 DEF vars, ServicesOnly
<1>2. ASSUME NEW q \in Request, Step(q) PROVE ServicesOnly
  <2>1. \A p \in Request \ {q} : request'[p] = request[p]
    BY <1>2, OnlyOneSteps DEF TablesHold
  <2>2. CASE Arrive(q, Asks)
    <3>1. request[q].pc = "idle"
      BY <2>2 DEF Arrive
    <3> QED BY <2>1, <3>1 DEF ServicesOnly
  <2>3. CASE Admin(q) \/ Org(q)
    <3>1. request'[q].ask = request[q].ask /\ request'[q].pc # "idle"
      BY <2>3, AskStays DEF TablesHold
    <3> QED BY <2>1, <3>1 DEF ServicesOnly
  <2> QED BY <1>2, <2>2, <2>3 DEF Step
<1> QED BY <1>1, <1>2 DEF Next, Serve, Step

LEMMA DefinitionsStay ==
  ASSUME TablesHold, ServicesOnly, NEW q \in Request, Step(q)
  PROVE  /\ UNCHANGED <<category, definition>>
         /\ Arrive(q, Asks) \/ Org(q)
<1>1. ASSUME Admin(q) PROVE FALSE
  <2>1. Underway(q) /\ request[q].ask.op \in ServiceOps
        /\ (request[q].pc \in Ops => request[q].pc \in ServiceOps)
        /\ request[q].pc # "write_attribute"
    BY <1>1, StepsUnderway, Asked DEF TablesHold, ServicesOnly, Underway, Sound, ServiceOps
  <2> QED BY <1>1, <2>1 DEF Admin, At, Ops, ServiceOps, CreateCategory, UpdateCategory,
     DeleteCategory, CreateAttribute, GetCategoryAttribute, UpdateCategoryAttribute, DeleteAttribute
<1> QED BY <1>1 DEF Step, Arrive, Org, Refuse, ValidateNew, Validate, InsertService, GetService,
     Revalidate, UpdateService, DeleteService

LEMMA FitsStay ==
  ASSUME UNCHANGED definition, NEW a, NEW c
  PROVE  Fits(a, c)' = Fits(a, c)
BY DEF Fits, ListAttributes, Rows

\* What each step of a request does to the services.
LEMMA ServiceSteps ==
  ASSUME TablesHold, ServicesOnly, NEW q \in Request, Step(q)
  PROVE  LET ask == request[q].ask
             to == request'[q]
             s == ask.service IN
         \/ /\ UNCHANGED service
            /\ to.pc \notin {"insert_service", "validate", "write_service"}
         \/ /\ UNCHANGED service /\ to.ask = ask
            /\ \/ to.pc = "insert_service" /\ to.read # None /\ Fits(to.read, ask.category)
               \/ /\ At(q, "validate") /\ to.pc = "write_service" /\ to.read # None
                  /\ Fits(to.read, Patched(ask.category, request[q].read.category))
               \/ to.pc = "write_service" /\ to.read = None /\ ask.category = None
               \/ to.pc = "validate" /\ Owned(s, ask.provider) /\ to.read = service[s]
         \/ /\ to.pc = "done" /\ At(q, "insert_service") /\ ask.category \in Rows(category)
            /\ \E n \in ServiceId :
                 service' = [service EXCEPT ![n] =
                   [ provider |-> ask.provider, category |-> ask.category,
                     attributes |-> request[q].read ]]
         \/ /\ to.pc = "done" /\ At(q, "write_service")
            /\ Owned(s, ask.provider) /\ ask.category \in Rows(category) \cup {None}
            /\ service' = [service EXCEPT ![s].category = Patched(ask.category, @),
                                          ![s].attributes = Written(request[q].read, @)]
         \/ to.pc = "done" /\ s \in ServiceId /\ service' = [service EXCEPT ![s] = Gone]
<1> DEFINE ask == request[q].ask
           to == request'[q]
           s == ask.service
<1>1. Typed /\ request \in [Request -> Requests]
  BY DEF TablesHold, Typed
<1>2. ASSUME NEW reply, Answer(q, reply) PROVE to.pc = "done"
  BY <1>1, <1>2 DEF Answer, Requests
<1>3. ASSUME NEW label, NEW read, Goto(q, label, read)
      PROVE  to.pc = label /\ to.read = read /\ to.ask = ask
  BY <1>1, <1>3 DEF Goto, Requests
<1>4. Arrive(q, Asks) \/ Org(q)
  BY DefinitionsStay
<1>5. CASE Arrive(q, Asks)
  <2>1. PICK a \in Asks : request' = [request EXCEPT ![q].ask = a, ![q].pc = a.op]
    BY <1>5 DEF Arrive
  <2>2. to.pc = a.op /\ a.op \in Ops
    BY <1>1, <2>1 DEF Requests, Typed, CatalogAssumption, ValidAsk
  <2> QED BY <1>5, <2>2 DEF Arrive, Ops, ServiceOps
<1>6. CASE UNCHANGED service /\ \E reply : Answer(q, reply)
  BY <1>2, <1>6
<1>7. ASSUME NEW c, NEW label, Passed(q, c, label)
      PROVE  UNCHANGED service /\ to.pc = label /\ to.ask = ask /\ to.read # None /\ Fits(to.read, c)
  BY <1>7 DEF Passed
<1>8. CASE ValidateNew(q)
  BY <1>6, <1>7, <1>8, ValidateNewHolds DEF Refuse
<1>9. CASE Revalidate(q)
  BY <1>6, <1>7, <1>9, RevalidateHolds DEF Refuse, Revalidate
<1>10. CASE InsertService(q)
  BY <1>2, <1>6, <1>10 DEF InsertService, Refuse
<1>11. CASE GetService(q)
  BY <1>3, <1>6, <1>11 DEF GetService, Refuse
<1>12. CASE UpdateService(q)
  BY <1>2, <1>6, <1>12 DEF UpdateService, Refuse
<1>13. CASE DeleteService(q)
  <2>1. s \in ServiceId
    BY <1>1, <1>13, Asked DEF DeleteService, At, Underway, Ops, ServiceOps, ValidAsk
  <2> QED BY <1>2, <1>6, <1>13, <2>1 DEF DeleteService, Refuse
<1> QED BY <1>4, <1>5, <1>8, <1>9, <1>10, <1>11, <1>12, <1>13 DEF Org

\* A row of the table after a step, and where it is from.
LEMMA RowIs ==
  ASSUME TablesHold, NEW s \in ServiceId, NEW row, service' = [service EXCEPT ![s] = row]
  PROVE  \A e \in Rows(service') :
           \/ e \in Rows(service) /\ service'[e] = service[e]
           \/ e = s /\ service'[e] = row /\ row # Gone
BY DEF TablesHold, Typed, Rows

\* Some category asks for what is stored, and for what is about to be.
SomeCategory(a) == \E c \in Rows(category) : Fits(a, c)

ForSome(x) ==
  /\ x.pc = "insert_service" => Fits(x.read, x.ask.category)
  /\ x.pc = "validate" => x.read.category \in Rows(category)
  /\ x.pc = "write_service" /\ x.read # None =>
       SomeCategory(x.read) \/ (x.ask.category # None /\ Fits(x.read, x.ask.category))

PendingForSome == \A q \in Request : ForSome(request[q])

SomeFits == TablesHold /\ FitsSomeCategory /\ PendingForSome

\* The next state, while the definitions stay.
LEMMA SomeLater ==
  ASSUME UNCHANGED <<category, definition>>
  PROVE  /\ FitsSomeCategory' <=> \A s \in Rows(service') : SomeCategory(service'[s].attributes)
         /\ PendingForSome' <=> \A q \in Request : ForSome(request'[q])
<1>1. FitsSomeCategory' <=> \A s \in Rows(service') : SomeCategory(service'[s].attributes)
  BY DEF FitsSomeCategory, SomeCategory, Fits, ListAttributes, Rows
<1>2. PendingForSome' <=> \A q \in Request : ForSome(request'[q])
  BY DEF PendingForSome, ForSome, SomeCategory, Fits, ListAttributes, Rows
<1> QED BY <1>1, <1>2

LEMMA NextSomeFits == SomeFits /\ ServicesOnly /\ [Next]_vars => SomeFits'
<1> SUFFICES ASSUME SomeFits, ServicesOnly, [Next]_vars PROVE SomeFits'
  OBVIOUS
<1>1. TablesHold' /\ TablesHold
  BY NextTablesHold DEF SomeFits
<1>3. FitsSomeCategory <=> \A s \in Rows(service) : SomeCategory(service[s].attributes)
  BY DEF FitsSomeCategory, SomeCategory
<1>4. /\ \A s \in Rows(service) : SomeCategory(service[s].attributes)
      /\ \A q \in Request : ForSome(request[q])
  BY <1>3 DEF SomeFits, PendingForSome
<1>5. CASE UNCHANGED vars
  BY <1>1, <1>4, <1>5, SomeLater DEF SomeFits, vars
<1>6. ASSUME NEW q \in Request, Step(q) PROVE SomeFits'
  <2> DEFINE ask == request[q].ask
             to == request'[q]
             s == ask.service
  <2>1. UNCHANGED <<category, definition>>
    BY <1>1, <1>6, DefinitionsStay
  <2>2. \A p \in Request \ {q} : request'[p] = request[p]
    BY <1>1, <1>6, OnlyOneSteps DEF TablesHold
  <2>3. ASSUME ForSome(to), \A e \in Rows(service') : SomeCategory(service'[e].attributes)
        PROVE  SomeFits'
    BY <1>1, <1>4, <2>1, <2>2, <2>3, SomeLater DEF SomeFits
  <2>4. /\ \A e \in Rows(service) : SomeCategory(service[e].attributes)
        /\ ForSome(request[q])
    BY <1>4
  <2>5. CASE UNCHANGED service /\ ForSome(to)
    BY <2>3, <2>4, <2>5
  <2>6. CASE to.pc = "done" /\ At(q, "insert_service") /\ ask.category \in Rows(category)
             /\ \E n \in ServiceId :
                  service' = [service EXCEPT ![n] =
                    [ provider |-> ask.provider, category |-> ask.category,
                      attributes |-> request[q].read ]]
    <3>0. PICK row : row = [ provider |-> ask.provider, category |-> ask.category,
                             attributes |-> request[q].read ]
      OBVIOUS
    <3>1. PICK n \in ServiceId : service' = [service EXCEPT ![n] = row]
      BY <2>6, <3>0
    <3>2. SomeCategory(row.attributes)
      BY <2>4, <2>6, <3>0 DEF ForSome, SomeCategory, At
    <3>3. \A e \in Rows(service') : SomeCategory(service'[e].attributes)
      <4> SUFFICES ASSUME NEW e \in Rows(service') PROVE SomeCategory(service'[e].attributes)
        OBVIOUS
      <4>1. \/ e \in Rows(service) /\ service'[e] = service[e]
            \/ service'[e] = row
        BY <1>1, <3>1, RowIs
      <4> QED BY <2>4, <3>2, <4>1
    <3> QED BY <2>3, <2>6, <3>3 DEF ForSome
  <2>7. CASE to.pc = "done" /\ At(q, "write_service")
             /\ Owned(s, ask.provider) /\ ask.category \in Rows(category) \cup {None}
             /\ service' = [service EXCEPT ![s].category = Patched(ask.category, @),
                                           ![s].attributes = Written(request[q].read, @)]
    <3>1. s \in ServiceId /\ s \in Rows(service) /\ service[s] \in ServiceRow
      BY <1>1, <2>7 DEF Owned, Rows, TablesHold, Typed
    <3>2. PICK row : row = [service[s] EXCEPT !.category = Patched(ask.category, @),
                                              !.attributes = Written(request[q].read, @)]
      OBVIOUS
    <3>3. row.attributes = Written(request[q].read, service[s].attributes)
      BY <3>1, <3>2 DEF ServiceRow
    <3>4. service' = [service EXCEPT ![s] = row]
      BY <1>1, <2>7, <3>1, <3>2 DEF TablesHold, Typed
    <3>5. SomeCategory(row.attributes)
      BY <2>4, <2>7, <3>1, <3>3 DEF ForSome, SomeCategory, At, Written, Patched
    <3>6. \A e \in Rows(service') : SomeCategory(service'[e].attributes)
      <4> SUFFICES ASSUME NEW e \in Rows(service') PROVE SomeCategory(service'[e].attributes)
        OBVIOUS
      <4>1. \/ e \in Rows(service) /\ service'[e] = service[e]
            \/ service'[e] = row
        <5> HIDE DEF s, ask
        <5> QED BY <1>1, <3>1, <3>4, RowIs
      <4> QED BY <2>4, <3>5, <4>1
    <3> QED BY <2>3, <2>7, <3>6 DEF ForSome
  <2>8. CASE to.pc = "done" /\ s \in ServiceId /\ service' = [service EXCEPT ![s] = Gone]
    <3>1. \A e \in Rows(service') : SomeCategory(service'[e].attributes)
      BY <1>1, <2>4, <2>8, RowIs
    <3> QED BY <2>3, <2>8, <3>1 DEF ForSome
  <2>9. CASE UNCHANGED service /\ to.pc \notin {"insert_service", "validate", "write_service"}
    BY <2>5, <2>9 DEF ForSome
  <2>10. CASE UNCHANGED service /\ to.ask = ask /\ to.pc = "insert_service" /\ Fits(to.read, ask.category)
    BY <2>5, <2>10 DEF ForSome
  <2>11. CASE /\ UNCHANGED service /\ to.ask = ask
              /\ At(q, "validate") /\ to.pc = "write_service" /\ to.read # None
              /\ Fits(to.read, Patched(ask.category, request[q].read.category))
    <3>1. request[q].read.category \in Rows(category)
      BY <2>4, <2>11 DEF ForSome, At
    <3>2. ForSome(to)
      BY <2>11, <3>1 DEF ForSome, SomeCategory, Patched
    <3> QED BY <2>5, <2>11, <3>2
  <2>12. CASE UNCHANGED service /\ to.pc = "write_service" /\ to.read = None
    BY <2>5, <2>12 DEF ForSome
  <2>13. CASE UNCHANGED service /\ to.pc = "validate" /\ Owned(s, ask.provider) /\ to.read = service[s]
    <3>1. to.read.category \in Rows(category)
      BY <1>1, <2>13 DEF TablesHold, NothingDangles, Owned
    <3> QED BY <2>5, <2>13, <3>1 DEF ForSome
  <2> HIDE DEF to, ask, s
  <2> QED BY ZenonT(60), <1>1, <1>6, <2>6, <2>7, <2>8, <2>9, <2>10, <2>11, <2>12, <2>13,
             ServiceSteps DEF to, ask, s
<1> QED BY <1>5, <1>6 DEF Next, Serve, Step

-----------------------------------------------------------------------------
(* One request at a time: the category is its own.                         *)

\* Where the service of a request is at, in its own category.
ForOwn(x) ==
  LET row == service[x.ask.service] IN
  /\ x.pc = "insert_service" => Fits(x.read, x.ask.category)
  /\ x.pc = "validate" /\ x.ask.service \in Rows(service) => x.read = row
  /\ x.pc = "write_service" /\ x.ask.service \in Rows(service) =>
       IF x.read = None THEN x.ask.category = None
       ELSE Fits(x.read, Patched(x.ask.category, row.category))

PendingForOwn == \A q \in Request : ForOwn(request[q])

OwnFits == TablesHold /\ Alone /\ FitsItsCategory /\ PendingForOwn

LEMMA OwnLater ==
  ASSUME UNCHANGED <<category, definition>>
  PROVE  /\ FitsItsCategory' <=>
              \A s \in Rows(service') : Fits(service'[s].attributes, service'[s].category)
         /\ UNCHANGED service =>
              (PendingForOwn' <=> \A q \in Request : ForOwn(request'[q]))
         /\ (\A q \in Request : request'[q].pc \notin {"insert_service", "validate", "write_service"})
              => PendingForOwn'
<1>1. FitsItsCategory' <=>
        \A s \in Rows(service') : Fits(service'[s].attributes, service'[s].category)
  BY DEF FitsItsCategory, Fits, ListAttributes, Rows
<1>2. UNCHANGED service => (PendingForOwn' <=> \A q \in Request : ForOwn(request'[q]))
  BY DEF PendingForOwn, ForOwn, Fits, ListAttributes, Rows
<1>3. (\A q \in Request : request'[q].pc \notin {"insert_service", "validate", "write_service"})
        => PendingForOwn'
  BY DEF PendingForOwn, ForOwn
<1> QED BY <1>1, <1>2, <1>3

LEMMA NextOwnFits == OwnFits /\ ServicesOnly /\ Alone' /\ [Next]_vars => OwnFits'
<1> SUFFICES ASSUME OwnFits, ServicesOnly, Alone', [Next]_vars PROVE OwnFits'
  OBVIOUS
<1>1. TablesHold' /\ TablesHold
  BY NextTablesHold DEF OwnFits
<1>2. /\ \A s \in Rows(service) : Fits(service[s].attributes, service[s].category)
      /\ \A q \in Request : ForOwn(request[q])
  BY DEF OwnFits, FitsItsCategory, PendingForOwn
<1>3. CASE UNCHANGED vars
  <2>1. Alone'
    BY <1>3 DEF OwnFits, Alone, vars, Underway
  <2> QED BY <1>1, <1>2, <1>3, <2>1, OwnLater DEF OwnFits, vars
<1>4. ASSUME NEW q \in Request, Step(q) PROVE OwnFits'
  <2> DEFINE ask == request[q].ask
             to == request'[q]
             s == ask.service
  <2>1. UNCHANGED <<category, definition>>
    BY <1>1, <1>4, DefinitionsStay
  <2>2. \A p \in Request \ {q} : ~ Underway(p) /\ request'[p] = request[p]
    BY <1>4, OthersRest DEF OwnFits
  <2>3. ASSUME UNCHANGED service, ForOwn(to) PROVE OwnFits'
    BY <1>1, <1>2, <2>1, <2>2, <2>3, OwnLater DEF OwnFits
  <2>4. ASSUME to.pc = "done",
               \A e \in Rows(service') : Fits(service'[e].attributes, service'[e].category)
        PROVE  OwnFits'
    <3>1. \A p \in Request : request'[p].pc \in {"idle", "done"}
      BY <2>2, <2>4 DEF Underway
    <3> QED BY <1>1, <2>1, <2>2, <2>4, <3>1, OwnLater DEF OwnFits
  <2>5. ForOwn(request[q])
    BY <1>2
  <2>6. CASE to.pc = "done" /\ At(q, "insert_service") /\ ask.category \in Rows(category)
             /\ \E n \in ServiceId :
                  service' = [service EXCEPT ![n] =
                    [ provider |-> ask.provider, category |-> ask.category,
                      attributes |-> request[q].read ]]
    <3>0. PICK row : row = [ provider |-> ask.provider, category |-> ask.category,
                             attributes |-> request[q].read ]
      OBVIOUS
    <3>1. PICK n \in ServiceId : service' = [service EXCEPT ![n] = row]
      BY <2>6, <3>0
    <3>2. Fits(row.attributes, row.category)
      BY <2>5, <2>6, <3>0 DEF ForOwn, At
    <3>3. ASSUME NEW e \in Rows(service') PROVE Fits(service'[e].attributes, service'[e].category)
      <4>1. \/ e \in Rows(service) /\ service'[e] = service[e]
            \/ service'[e] = row
        BY <1>1, <3>1, RowIs
      <4> QED BY <1>2, <3>2, <4>1
    <3> QED BY <2>4, <2>6, <3>3
  <2>7. CASE to.pc = "done" /\ At(q, "write_service")
             /\ Owned(s, ask.provider) /\ ask.category \in Rows(category) \cup {None}
             /\ service' = [service EXCEPT ![s].category = Patched(ask.category, @),
                                           ![s].attributes = Written(request[q].read, @)]
    <3>1. s \in ServiceId /\ s \in Rows(service) /\ service[s] \in ServiceRow
      BY <1>1, <2>7 DEF Owned, Rows, TablesHold, Typed
    <3>2. PICK row : row = [service[s] EXCEPT !.category = Patched(ask.category, @),
                                              !.attributes = Written(request[q].read, @)]
      OBVIOUS
    <3>3. /\ row.attributes = Written(request[q].read, service[s].attributes)
          /\ row.category = Patched(ask.category, service[s].category)
      BY <3>1, <3>2 DEF ServiceRow
    <3>4. service' = [service EXCEPT ![s] = row]
      BY <1>1, <2>7, <3>1, <3>2 DEF TablesHold, Typed
    <3>5. Fits(row.attributes, row.category)
      <4>1. IF request[q].read = None THEN ask.category = None
            ELSE Fits(request[q].read, Patched(ask.category, service[s].category))
        BY <2>5, <2>7, <3>1 DEF ForOwn, At
      <4>2. Fits(service[s].attributes, service[s].category)
        BY <1>2, <3>1
      <4> QED BY <3>3, <4>1, <4>2 DEF Written, Patched
    <3>6. ASSUME NEW e \in Rows(service') PROVE Fits(service'[e].attributes, service'[e].category)
      <4>1. \/ e \in Rows(service) /\ service'[e] = service[e]
            \/ service'[e] = row
        <5> HIDE DEF s, ask
        <5> QED BY ZenonT(60), <1>1, <3>1, <3>4, RowIs
      <4> QED BY <1>2, <3>5, <4>1
    <3> QED BY <2>4, <2>7, <3>6
  <2>8. CASE to.pc = "done" /\ s \in ServiceId /\ service' = [service EXCEPT ![s] = Gone]
    <3>1. ASSUME NEW e \in Rows(service') PROVE Fits(service'[e].attributes, service'[e].category)
      <4>1. e \in Rows(service) /\ service'[e] = service[e]
        <5> HIDE DEF s, ask
        <5> QED BY <1>1, <2>8, RowIs
      <4> QED BY <1>2, <4>1
    <3> QED BY <2>4, <2>8, <3>1
  <2>9. CASE UNCHANGED service /\ to.pc \notin {"insert_service", "validate", "write_service"}
    BY <2>3, <2>9 DEF ForOwn
  <2>10. CASE UNCHANGED service /\ to.ask = ask /\ to.pc = "insert_service" /\ Fits(to.read, ask.category)
    BY <2>3, <2>10 DEF ForOwn
  <2>11. CASE /\ UNCHANGED service /\ to.ask = ask
              /\ At(q, "validate") /\ to.pc = "write_service" /\ to.read # None
              /\ Fits(to.read, Patched(ask.category, request[q].read.category))
    <3>1. s \in Rows(service) => request[q].read = service[s]
      BY <2>5, <2>11 DEF ForOwn, At
    <3>2. ForOwn(to)
      BY <2>11, <3>1 DEF ForOwn
    <3> QED BY <2>3, <2>11, <3>2
  <2>12. CASE UNCHANGED service /\ to.ask = ask /\ to.pc = "write_service" /\ to.read = None
              /\ ask.category = None
    BY <2>3, <2>12 DEF ForOwn
  <2>13. CASE /\ UNCHANGED service /\ to.ask = ask /\ to.pc = "validate"
              /\ Owned(s, ask.provider) /\ to.read = service[s]
    BY <2>3, <2>13 DEF ForOwn
  <2> HIDE DEF to, ask, s
  <2> QED BY ZenonT(60), <1>1, <1>4, <2>6, <2>7, <2>8, <2>9, <2>10, <2>11, <2>12, <2>13,
             ServiceSteps DEF to, ask, s
<1> QED BY <1>3, <1>4 DEF Next, Serve, Step

\* While no definition changes, the values of a service are always those that some
\* category asks for: never a mixture of what two requests sent, whichever interleave.
\* Until two of them overlap they are those its own category asks for.
THEOREM AttributesAsAsked ==
  CatalogAssumption /\ FitsItsCategory /\ Spec => []FitsAsAsked
<1> DEFINE Inv == /\ TablesHold
                  /\ ServicesOnly => SomeFits /\ (alone => OwnFits)
                  /\ alone => Alone
<1>1. CatalogAssumption /\ FitsItsCategory /\ Init => Inv
  <2> SUFFICES ASSUME CatalogAssumption, FitsItsCategory, Init PROVE Inv
    OBVIOUS
  <2>1. \A q \in Request : request[q].pc = "idle"
    BY DEF Init, NoRequest
  <2>2. TablesHold
    BY InitTablesHold
  <2>3. FitsSomeCategory
    BY <2>2 DEF FitsItsCategory, FitsSomeCategory, TablesHold, NothingDangles
  <2>4. SomeFits /\ OwnFits
    BY <2>1, <2>2, <2>3 DEF SomeFits, OwnFits, PendingForSome, ForSome, PendingForOwn, ForOwn,
       Alone, Underway
  <2> QED BY <2>2, <2>4 DEF OwnFits
<1>2. Inv /\ [Next]_vars => Inv'
  <2> SUFFICES ASSUME Inv, [Next]_vars PROVE Inv'
    OBVIOUS
  <2>1. TablesHold'
    BY NextTablesHold
  <2>2. alone' => alone /\ Alone'
    BY AloneBefore
  <2>3. ASSUME ServicesOnly' PROVE SomeFits' /\ (alone' => OwnFits')
    <3>1. ServicesOnly
      BY <2>3, ServicesBefore
    <3> QED BY <2>2, <3>1, NextSomeFits, NextOwnFits
  <2> QED BY <2>1, <2>2, <2>3
<1>3. Inv => FitsAsAsked
  BY DEF SomeFits, OwnFits, FitsAsAsked
<1> QED BY <1>1, <1>2, <1>3, PTL DEF Spec
=============================================================================
