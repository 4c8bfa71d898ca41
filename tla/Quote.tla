-------------------------------- MODULE Quote --------------------------------
(***************************************************************************)
(* What a booking costs and how long it takes (catalog.BuildQuote), from   *)
(* option trees that the providers' requests edit meanwhile.  Everything   *)
(* takes one step per statement, and nothing here runs a transaction: a    *)
(* reservation prices the selection (service, groups, options), then has   *)
(* the day's slots computed, which reads all three again, and only then    *)
(* writes.  Prices and durations are integers of Width bits.               *)
(***************************************************************************)
EXTENDS Integers, FiniteSets, SequencesExt

CONSTANTS Provider, Service, Group, Option, Editor, Customer,
          Owner,      \* services.provider_id, [Service -> Provider]
          Trees,      \* what the three tables may hold at the start
          Asks,       \* what the editors may ask for
          Selections, \* the option ids a customer may send, sequences
          Width,      \* the width of int32
          None        \* NULL, no row

Int32 == -(2^(Width - 1)) .. 2^(Width - 1) - 1
Natural32 == Int32 \cap Nat

\* min_select, max_select, is_required; `single' is the selection type.
ServiceRow == [ price : Natural32, duration : Natural32 \ {0}, buffer : Natural32 ]
GroupRow == [ service : Service, single : BOOLEAN, required : BOOLEAN,
              min : Natural32, max : (Natural32 \ {0}) \cup {None} ]
OptionRow == [ group : Group, price : Int32, duration : Int32, active : BOOLEAN ]

\* A statement's snapshot of the three tables.
Tree == [ service : [Service -> ServiceRow \cup {None}],
          group   : [Group -> GroupRow \cup {None}],
          option  : [Option -> OptionRow \cup {None}] ]

\* The fields an update may carry: a row is never moved to another parent.
ServiceFields == [ price |-> Natural32, duration |-> Natural32 \ {0}, buffer |-> Natural32 ]
GroupFields == [ single |-> BOOLEAN, required |-> BOOLEAN, min |-> Natural32,
                 max |-> (Natural32 \ {0}) \cup {None} ]
OptionFields == [ price |-> Int32, duration |-> Int32, active |-> BOOLEAN ]

PatchOf(patch, fields) ==
  DOMAIN patch \subseteq DOMAIN fields /\ \A f \in DOMAIN patch : patch[f] \in fields[f]

\* What a request carries once it is decoded, with the ids of its path.
ValidAsk(ask) ==
  /\ ask.provider \in Provider /\ ask.service \in Service
  /\ ask.op \in {"update_service", "delete_service", "create_group", "update_group",
                 "delete_group", "create_option", "update_option", "delete_option"}
  /\ ask.op = "update_service" => PatchOf(ask.patch, ServiceFields)
  /\ ask.op = "create_group" => ask.row \in GroupRow /\ ask.row.service = ask.service
  /\ ask.op \in {"update_group", "delete_group", "create_option", "update_option",
                 "delete_option"} => ask.group \in Group
  /\ ask.op = "update_group" => PatchOf(ask.patch, GroupFields)
  /\ ask.op = "create_option" => ask.row \in OptionRow /\ ask.row.group = ask.group
  /\ ask.op \in {"update_option", "delete_option"} => ask.option \in Option
  /\ ask.op = "update_option" => PatchOf(ask.patch, OptionFields)

\* The foreign keys between the tables.
Referenced(t) ==
  /\ \A o \in Option : t.option[o] # None => t.group[t.option[o].group] # None
  /\ \A g \in Group : t.group[g] # None => t.service[t.group[g].service] # None

QuoteAssumption ==
  /\ Owner \in [Service -> Provider]
  /\ Width \in Nat \ {0}
  /\ \A t \in Trees : t \in Tree /\ Referenced(t)
  /\ \A ask \in Asks : ValidAsk(ask)
  /\ \A chosen \in Selections : chosen \in Seq(Option)
  /\ None \notin Int32 \cup ServiceRow \cup GroupRow \cup OptionRow \cup {"ok"}

VARIABLES
  tree, \* the tables services, option_groups and service_options
  used, \* the ids ever given to a group or an option
  edit, \* [Editor -> what its request is doing]
  visit \* [Customer -> what its reservation is doing]

vars == <<tree, used, edit, visit>>

-----------------------------------------------------------------------------
(* BuildQuote.                                                             *)

Wrap(x) == ((x + 2^(Width - 1)) % 2^Width) - 2^(Width - 1)

Refused == [ ok |-> FALSE ]

Count(selected, g) == Cardinality({ i \in DOMAIN selected : selected[i].group = g })

\* A required group asks for at least one option.
Minimum(row) == IF row.required /\ row.min < 1 THEN 1 ELSE row.min

\* Mutant: a single-select group without a maximum is not checked.
BoundedByMax(groups, selected) ==
  \A g \in DOMAIN groups :
    /\ Count(selected, g) >= Minimum(groups[g])
    /\ groups[g].max # None => Count(selected, g) <= groups[g].max

checkGroupRules(groups, selected) ==
  \A g \in DOMAIN groups :
    /\ Count(selected, g) >= Minimum(groups[g])
    /\ groups[g].single => Count(selected, g) <= 1
    /\ groups[g].max # None => Count(selected, g) <= groups[g].max

Total(start, deltas) == FoldLeft(LAMBDA sum, delta : Wrap(sum + delta), start, deltas)

\* Every chosen id is an active option of one of the groups that were read.
Selectable(groups, options, chosen) ==
  \A i \in DOMAIN chosen :
    /\ chosen[i] \in DOMAIN options /\ options[chosen[i]].active
    /\ options[chosen[i]].group \in DOMAIN groups

\* groups and options: the rows that were read, functions of their ids.
BuildQuote(service, groups, options, chosen) ==
  IF ~IsInjective(chosen) \/ ~Selectable(groups, options, chosen) THEN Refused
  ELSE LET selected == [ i \in DOMAIN chosen |-> options[chosen[i]] ]
           price    == Total(service.price, [ i \in DOMAIN chosen |-> selected[i].price ])
           duration == Total(service.duration,
                             [ i \in DOMAIN chosen |-> selected[i].duration ])
       IN  IF checkGroupRules(groups, selected) /\ price >= 0 /\ duration > 0
           THEN [ ok |-> TRUE, price |-> price, duration |-> duration ]
           ELSE Refused

\* What the resource is occupied for.
Occupied(quote, service) == Wrap(quote.duration + service.buffer)

-----------------------------------------------------------------------------
(* LoadOptionGroups and the two readers of it.                             *)

GroupsOf(s) ==
  LET found == { g \in Group : tree.group[g] # None /\ tree.group[g].service = s }
  IN  [ g \in found |-> tree.group[g] ]

\* JOIN option_groups g ON g.id = o.group_id WHERE g.service_id = $1
OptionsOf(s) ==
  LET found == { o \in Option : /\ tree.option[o] # None
                                /\ tree.option[o].group \in DOMAIN GroupsOf(s) }
  IN  [ o \in found |-> tree.option[o] ]

\* past: history, the trees there have been since the reservation began.
NoVisit == [ pc |-> "idle", round |-> 1, wants |-> None, chosen |-> <<>>,
             service |-> None, groups |-> None, first |-> None, quote |-> Refused,
             checked |-> None, past |-> {}, booked |-> None ]

Goto(c, label) == visit' = [visit EXCEPT ![c].pc = label]

Visit(c, s, chosen) ==
  /\ visit[c].pc = "idle"
  /\ visit' = [visit EXCEPT ![c] = [NoVisit EXCEPT !.pc = "service", !.wants = s,
                                                   !.chosen = chosen, !.past = {tree}]]
  /\ UNCHANGED <<tree, used, edit>>

\* GetServiceWithProvider.
ReadService(c) ==
  LET row == tree.service[visit[c].wants] IN
  /\ visit[c].pc = "service"
  /\ IF row = None
     THEN Goto(c, "not_found")
     ELSE visit' = [visit EXCEPT ![c].pc = "groups", ![c].service = row,
                      ![c].first = IF visit[c].round = 1 THEN row ELSE @]
  /\ UNCHANGED <<tree, used, edit>>

\* The first quote is what is booked; the second tells how long a slot must be, and a
\* sum that has wrapped below one minute finds none.
Quoted(c, groups, options) ==
  LET quote == BuildQuote(visit[c].service, groups, options, visit[c].chosen) IN
  IF ~quote.ok THEN Goto(c, "refused")
  ELSE IF visit[c].round = 1
  THEN visit' = [visit EXCEPT ![c].pc = "service", ![c].round = 2, ![c].quote = quote]
  ELSE IF Occupied(quote, visit[c].service) <= 0 THEN Goto(c, "no_slot")
  ELSE visit' = [visit EXCEPT ![c].pc = "insert",
                              ![c].checked = Occupied(quote, visit[c].service)]

NoOptions == [ o \in {} |-> None ]

\* A service without groups needs no second query.
ReadGroups(c) ==
  LET groups == GroupsOf(visit[c].wants) IN
  /\ visit[c].pc = "groups"
  /\ IF DOMAIN groups = {}
     THEN Quoted(c, groups, NoOptions)
     ELSE visit' = [visit EXCEPT ![c].pc = "options", ![c].groups = groups]
  /\ UNCHANGED <<tree, used, edit>>

ReadOptions(c) ==
  /\ visit[c].pc = "options"
  /\ Quoted(c, visit[c].groups, OptionsOf(visit[c].wants))
  /\ UNCHANGED <<tree, used, edit>>

\* Mutant: the buffer is left out of the booking.
InsertUnbuffered(c) ==
  LET v == visit[c] IN
  /\ v.pc = "insert"
  /\ visit' = [visit EXCEPT ![c].pc = "booked", ![c].booked =
       [ price |-> v.quote.price, duration |-> v.quote.duration,
         length |-> v.quote.duration ]]
  /\ UNCHANGED <<tree, used, edit>>

\* The rows a booking refers to must still exist (foreign keys), and it must end after
\* it starts (bookings_ends_after_starts).
Insert(c) ==
  LET v == visit[c] IN
  /\ v.pc = "insert"
  /\ IF \/ tree.service[v.wants] = None
        \/ \E i \in DOMAIN v.chosen : tree.option[v.chosen[i]] = None
        \/ Occupied(v.quote, v.first) <= 0
     THEN Goto(c, "failed")
     ELSE visit' = [visit EXCEPT ![c].pc = "booked", ![c].booked =
            [ price |-> v.quote.price, duration |-> v.quote.duration,
              length |-> Occupied(v.quote, v.first) ]]
  /\ UNCHANGED <<tree, used, edit>>

-----------------------------------------------------------------------------
(* The editors.  seen: the row of the service as GetService returned it.   *)

NoEdit == [ pc |-> "idle", ask |-> None, seen |-> None, answer |-> None ]

Answer(e, code) == edit' = [edit EXCEPT ![e].pc = "done", ![e].answer = code]

\* Reservations in progress see one more state of the tables.
Remember(new) ==
  visit' = [c \in Customer |-> IF visit[c].pc \in {"idle", "booked"} THEN visit[c]
                               ELSE [visit[c] EXCEPT !.past = @ \cup {new}]]

Ids(t) == { x \in Group : t.group[x] # None } \cup { x \in Option : t.option[x] # None }

\* A statement changed the tables.
Wrote(e, new) == tree' = new /\ Remember(new) /\ Answer(e, "ok") /\ used' = used \cup Ids(new)

NotWritten(e, code) == Answer(e, code) /\ UNCHANGED <<tree, used, visit>>

\* What the handlers check themselves, after the ownership of the service.
ValidGroup(row) ==
  row.max # None => row.min <= row.max /\ (row.single => row.max = 1)

\* CHECK constraints of option_groups: min_le_max and single_max_one.
StorableGroup(row) ==
  row.max # None => row.min <= row.max /\ (row.single => row.max = 1)

Ask(e, ask) ==
  /\ edit[e].pc = "idle"
  /\ edit' = [edit EXCEPT ![e].pc = IF ask.op = "delete_service" THEN "write"
                                    ELSE "assert_service", ![e].ask = ask]
  /\ UNCHANGED <<tree, used, visit>>

Owned(ask) == tree.service[ask.service] # None /\ Owner[ask.service] = ask.provider

assertServiceOwned(e) ==
  LET ask == edit[e].ask IN
  /\ edit[e].pc = "assert_service"
  /\ IF ~Owned(ask) THEN Answer(e, "not_found")
     ELSE IF ask.op = "create_group" /\ ~ValidGroup(ask.row) THEN Answer(e, "invalid")
     ELSE edit' = [edit EXCEPT ![e].seen = tree.service[ask.service],
             ![e].pc = IF ask.op \in {"create_option", "update_option", "delete_option"}
                       THEN "assert_group" ELSE "write"]
  /\ UNCHANGED <<tree, used, visit>>

InService(ask) ==
  tree.group[ask.group] # None /\ tree.group[ask.group].service = ask.service

assertGroupOwned(e) ==
  /\ edit[e].pc = "assert_group"
  /\ IF InService(edit[e].ask) THEN edit' = [edit EXCEPT ![e].pc = "write"]
     ELSE Answer(e, "not_found")
  /\ UNCHANGED <<tree, used, visit>>

Writes(e, op) == edit[e].pc = "write" /\ edit[e].ask.op = op

\* UPDATE ... SET f = COALESCE($n, f): the fields that were sent.
Patched(patch, row) ==
  [ f \in DOMAIN row |-> IF f \in DOMAIN patch THEN patch[f] ELSE row[f] ]

\* Mutant: the row that was read is written back.
WriteBack(e) ==
  LET ask == edit[e].ask IN
  /\ Writes(e, "update_service")
  /\ IF tree.service[ask.service] = None THEN NotWritten(e, "not_found")
     ELSE Wrote(e, [tree EXCEPT !.service[ask.service] = Patched(ask.patch, edit[e].seen)])

UpdateService(e) ==
  LET ask == edit[e].ask  row == tree.service[ask.service] IN
  /\ Writes(e, "update_service")
  /\ IF row = None THEN NotWritten(e, "not_found")
     ELSE Wrote(e, [tree EXCEPT !.service[ask.service] = Patched(ask.patch, row)])

\* ON DELETE CASCADE, from services to option_groups to service_options.
Without(t, groups) ==
  [t EXCEPT !.group  = [g \in Group |-> IF g \in groups THEN None ELSE @[g]],
            !.option = [o \in Option |-> IF @[o] # None /\ @[o].group \in groups
                                         THEN None ELSE @[o]]]

DeleteService(e) ==
  LET ask == edit[e].ask IN
  /\ Writes(e, "delete_service")
  /\ IF ~Owned(ask) THEN NotWritten(e, "not_found")
     ELSE Wrote(e, [Without(tree, DOMAIN GroupsOf(ask.service))
                      EXCEPT !.service[ask.service] = None])

CreateOptionGroup(e) ==
  LET ask == edit[e].ask IN
  /\ Writes(e, "create_group")
  /\ IF tree.service[ask.service] = None THEN NotWritten(e, "failed")
     ELSE \E g \in Group \ used :
                           Wrote(e, [tree EXCEPT !.group[g] = ask.row])

UpdateOptionGroup(e) ==
  LET ask == edit[e].ask IN
  /\ Writes(e, "update_group")
  /\ IF ~InService(ask) THEN NotWritten(e, "not_found")
     ELSE LET row == Patched(ask.patch, tree.group[ask.group]) IN
          IF StorableGroup(row) THEN Wrote(e, [tree EXCEPT !.group[ask.group] = row])
          ELSE NotWritten(e, "invalid")

DeleteOptionGroup(e) ==
  LET ask == edit[e].ask IN
  /\ Writes(e, "delete_group")
  /\ IF InService(ask) THEN Wrote(e, Without(tree, {ask.group}))
     ELSE NotWritten(e, "not_found")

CreateOption(e) ==
  LET ask == edit[e].ask IN
  /\ Writes(e, "create_option")
  /\ IF tree.group[ask.group] = None THEN NotWritten(e, "failed")
     ELSE \E o \in Option \ used :
                            Wrote(e, [tree EXCEPT !.option[o] = ask.row])

\* WHERE id = $1 AND group_id = $2
InGroup(ask) ==
  tree.option[ask.option] # None /\ tree.option[ask.option].group = ask.group

UpdateOption(e) ==
  LET ask == edit[e].ask IN
  /\ Writes(e, "update_option")
  /\ IF InGroup(ask)
     THEN Wrote(e, [tree EXCEPT !.option[ask.option] = Patched(ask.patch, @)])
     ELSE NotWritten(e, "not_found")

DeleteOption(e) ==
  LET ask == edit[e].ask IN
  /\ Writes(e, "delete_option")
  /\ IF InGroup(ask) THEN Wrote(e, [tree EXCEPT !.option[ask.option] = None])
     ELSE NotWritten(e, "not_found")

Init ==
  /\ tree \in Trees
  /\ used = Ids(tree)
  /\ edit = [e \in Editor |-> NoEdit]
  /\ visit = [c \in Customer |-> NoVisit]

Edit(e) ==
  \/ \E ask \in Asks : Ask(e, ask)
  \/ assertServiceOwned(e) \/ assertGroupOwned(e)
  \/ UpdateService(e) \/ DeleteService(e)
  \/ CreateOptionGroup(e) \/ UpdateOptionGroup(e) \/ DeleteOptionGroup(e)
  \/ CreateOption(e) \/ UpdateOption(e) \/ DeleteOption(e)

Reserve(c) ==
  \/ \E s \in Service, chosen \in Selections : Visit(c, s, chosen)
  \/ ReadService(c) \/ ReadGroups(c) \/ ReadOptions(c) \/ Insert(c)

Next == (\E e \in Editor : Edit(e)) \/ (\E c \in Customer : Reserve(c))

Spec == Init /\ [][Next]_vars

-----------------------------------------------------------------------------
(* Properties.                                                             *)

\* The tables hold rows of their types and requests are at a step of theirs.
TypeOK ==
  /\ tree \in Tree /\ Ids(tree) \subseteq used
  /\ \A e \in Editor :
       /\ edit[e].pc \in {"idle", "assert_service", "assert_group", "write", "done"}
       /\ edit[e].pc \notin {"idle", "done"} => edit[e].ask \in Asks
       /\ edit[e].answer \in {None, "ok", "not_found", "invalid", "failed"}
  /\ \A c \in Customer :
       /\ visit[c].pc \in {"idle", "service", "groups", "options", "insert", "booked",
                           "not_found", "refused", "no_slot", "failed"}
       /\ visit[c].pc = "booked" => visit[c].booked.price \in Natural32
                                    /\ visit[c].booked.duration \in Natural32 \ {0}

\* The rule a selection must satisfy, in terms of one state of the tables.
Allowed(t, s, chosen) ==
  LET picked == ToSet(chosen)
      of(g)  == { o \in picked : t.option[o].group = g }
  IN  /\ Cardinality(picked) = Len(chosen)
      /\ \A o \in picked : /\ t.option[o] # None /\ t.option[o].active
                           /\ t.group[t.option[o].group].service = s
      /\ \A g \in Group : t.group[g] # None /\ t.group[g].service = s =>
           /\ t.group[g].required => of(g) # {}
           /\ t.group[g].min <= Cardinality(of(g))
           /\ t.group[g].single => Cardinality(of(g)) < 2
           /\ t.group[g].max # None => Cardinality(of(g)) <= t.group[g].max

\* The sums without any wrapping.
TruePrice(t, s, chosen) ==
  FoldSet(LAMBDA o, sum : sum + t.option[o].price, t.service[s].price, ToSet(chosen))
TrueDuration(t, s, chosen) ==
  FoldSet(LAMBDA o, sum : sum + t.option[o].duration, t.service[s].duration, ToSet(chosen))

\* A booking was allowed, and costs and takes what it should, by the tables as they
\* were at one moment of its reservation, although the service, its groups and its
\* options are read one after the other: so with one edit at a time.  What it should
\* is the sum as Width bits hold it, whatever partial sum leaves them on the way: one that
\* itself does not fit is booked as what is left of it, though it be below zero.
QuotedAtOneMoment ==
  \A c \in Customer :
    LET v == visit[c] IN
    v.pc = "booked" =>
      \E t \in v.past : /\ t.service[v.wants] # None
                        /\ Allowed(t, v.wants, v.chosen)
                        /\ v.booked.price = Wrap(TruePrice(t, v.wants, v.chosen))
                        /\ v.booked.duration = Wrap(TrueDuration(t, v.wants, v.chosen))

\* "Availability and booking price from the same data": a booking is as long as the
\* slot that was found free for it, unless the service or a chosen option was edited
\* between the two quotes.
BookedAsCheckedUnlessEdited ==
  \A c \in Customer :
    LET v == visit[c]
        edited(t, u) == \/ t.service[v.wants] # u.service[v.wants]
                        \/ \E i \in DOMAIN v.chosen : t.option[v.chosen[i]] # u.option[v.chosen[i]]
    IN v.pc = "booked" => v.booked.length = v.checked \/ \E t, u \in v.past : edited(t, u)

\* A selection that the tables allow is not refused, when no one edits them.
NothingElseRefused ==
  \A c \in Customer :
    LET v == visit[c] IN
    v.pc = "refused" /\ (\A t \in v.past : t = tree) =>
      ~( /\ Allowed(tree, v.wants, v.chosen)
         /\ TruePrice(tree, v.wants, v.chosen) \in Natural32
         /\ TrueDuration(tree, v.wants, v.chosen) \in Natural32 \ {0} )

\* However the edits overlap, every option has its group and every group its service.
NoOrphans == Referenced(tree)

\* What belongs to the provider: a row and all the rows that hang from it.
PartOf(p, t) ==
  LET s == { x \in Service : Owner[x] = p }
      g == { x \in Group : t.group[x] # None /\ t.group[x].service \in s }
  IN  << [ x \in s |-> t.service[x] ], [ x \in g |-> t.group[x] ],
         [ x \in { o \in Option : t.option[o] # None /\ t.option[o].group \in g }
             |-> t.option[x] ] >>

\* A request for one provider, whatever ids it carries, changes nothing of the others'.
OwnTreeOnly ==
  \A e \in Editor : edit[e].pc = "write" /\ edit'[e].pc = "done" =>
    \A p \in Provider \ {edit[e].ask.provider} : PartOf(p, tree') = PartOf(p, tree)

\* Two concurrent updates of different fields of a service both stay in effect: a
\* field that was sent has its value, unless another request sent another.
PatchesSurvive ==
  \A e \in Editor :
    LET ask == edit[e].ask IN
    edit[e].answer = "ok" /\ ask.op = "update_service"
      /\ tree.service[ask.service] # None =>
      \A f \in DOMAIN ask.patch :
        \/ tree.service[ask.service][f] = ask.patch[f]
        \/ \E x \in Editor \ {e} : /\ edit[x].answer = "ok"
                                   /\ edit[x].ask.op = "update_service"
                                   /\ edit[x].ask.service = ask.service
                                   /\ f \in DOMAIN edit[x].ask.patch
=============================================================================
