--------------------------- MODULE ServicesProofs ---------------------------
(***************************************************************************)
(* Theorems about Services: the trees of options (names after Quote!), the *)
(* pictures (names after Media!), and what they promise together with the  *)
(* categories and attributes of CatalogProofs.                             *)
(* Of the trees: QuoteInv remembers what a request was asserted to own,    *)
(* what each statement of a reservation has read, and which edits there    *)
(* were since; PatchesSurvive is inductive because an UPDATE writes only   *)
(* the fields that were sent.                                              *)
(* Of the pictures: a key belongs to a row, to the logo or to the one      *)
(* request that saved it (KeysUsed); rows are ranked by the number that    *)
(* NextSortOrder gave them (Ranked); and a request whose count nobody has  *)
(* overtaken still finds room (Room).                                      *)
(***************************************************************************)
EXTENDS Services, CatalogProofs, WellFoundedInduction

-----------------------------------------------------------------------------
(* The trees: type correctness of the tables and of the edits.             *)

EditLabel == {"idle", "assert_service", "assert_group", "write", "done"}

Edits ==
  [ pc : EditLabel, ask : TreeAsks \cup {None}, seen : Quote!ServiceRow \cup {None},
    answer : {None, "ok", "not_found", "invalid", "failed"} ]

TreeTyped ==
  /\ Quote!QuoteAssumption
  /\ tree \in Quote!Tree
  /\ used \subseteq Group \cup Option /\ Quote!Ids(tree) \subseteq used
  /\ edit \in [Editor -> Edits]
  /\ \A e \in Editor : edit[e].pc # "idle" => edit[e].ask \in TreeAsks

LEMMA InitTreeTyped == Quote!QuoteAssumption /\ Quote!Init => TreeTyped
<1> SUFFICES ASSUME Quote!QuoteAssumption, Quote!Init PROVE TreeTyped
  OBVIOUS
<1>1. tree \in Quote!Tree
  BY DEF Quote!Init, Quote!QuoteAssumption
<1>2. used \subseteq Group \cup Option /\ Quote!Ids(tree) \subseteq used
  BY DEF Quote!Init, Quote!Ids
<1>3. edit \in [Editor -> Edits] /\ \A e \in Editor : edit[e].pc = "idle"
  BY DEF Quote!Init, Quote!NoEdit, Edits, EditLabel
<1> QED BY <1>1, <1>2, <1>3 DEF TreeTyped, Quote!QuoteAssumption

\* What is written for a request, as a change of the tables.
UpdatedService(ask, new) ==
  /\ ask.op = "update_service" /\ tree.service[ask.service] # None
  /\ new = [tree EXCEPT !.service[ask.service] = Quote!Patched(ask.patch,
     tree.service[ask.service])]

DeletedService(ask, new) ==
  /\ ask.op = "delete_service" /\ Quote!Owned(ask)
  /\ new = [Quote!Without(tree,
     DOMAIN Quote!GroupsOf(ask.service)) EXCEPT !.service[ask.service] = None]

CreatedGroup(ask, new) ==
  /\ ask.op = "create_group" /\ tree.service[ask.service] # None
  /\ \E g \in Group \ used : new = [tree EXCEPT !.group[g] = ask.row]

UpdatedGroup(ask, new) ==
  /\ ask.op = "update_group" /\ Quote!InService(ask)
  /\ new = [tree EXCEPT !.group[ask.group] = Quote!Patched(ask.patch,
     tree.group[ask.group])]

DeletedGroup(ask, new) ==
  /\ ask.op = "delete_group" /\ Quote!InService(ask)
  /\ new = Quote!Without(tree, {ask.group})

CreatedOption(ask, new) ==
  /\ ask.op = "create_option" /\ tree.group[ask.group] # None
  /\ \E o \in Option \ used : new = [tree EXCEPT !.option[o] = ask.row]

UpdatedOption(ask, new) ==
  /\ ask.op = "update_option" /\ Quote!InGroup(ask)
  /\ new = [tree EXCEPT !.option[ask.option] = Quote!Patched(ask.patch,
     tree.option[ask.option])]

DeletedOption(ask, new) ==
  /\ ask.op = "delete_option" /\ Quote!InGroup(ask)
  /\ new = [tree EXCEPT !.option[ask.option] = None]

TreeWritten(ask, new) ==
  \/ UpdatedService(ask, new) \/ DeletedService(ask, new)
  \/ CreatedGroup(ask, new) \/ UpdatedGroup(ask, new) \/ DeletedGroup(ask, new)
  \/ CreatedOption(ask, new) \/ UpdatedOption(ask, new) \/ DeletedOption(ask, new)

\* An edit writes as its request asks, or leaves the tables alone.
LEMMA EditEffect ==
  ASSUME TreeTyped, NEW e \in Editor, Quote!Edit(e)
  PROVE  \/ UNCHANGED <<tree, used, visit>>
         \/ \E new : /\ edit[e].pc = "write" /\ TreeWritten(edit[e].ask, new)
                     /\ Quote!Wrote(e, new)
<1> DEFINE ask == edit[e].ask
<1>2. CASE (\E a \in TreeAsks : Quote!Ask(e, a)) \/ Quote!assertServiceOwned(e)
      \/ Quote!assertGroupOwned(e)
  BY <1>2 DEF Quote!Ask, Quote!assertServiceOwned, Quote!assertGroupOwned
<1>3. CASE Quote!UpdateService(e)
  BY <1>3
     DEF Quote!UpdateService, Quote!Writes, Quote!NotWritten, TreeWritten,
         UpdatedService
<1>4. CASE Quote!DeleteService(e)
  BY <1>4
     DEF Quote!DeleteService, Quote!Writes, Quote!NotWritten, TreeWritten,
         DeletedService
<1>5. CASE Quote!CreateOptionGroup(e)
  BY <1>5
     DEF Quote!CreateOptionGroup, Quote!Writes, Quote!NotWritten, TreeWritten,
         CreatedGroup
<1>6. CASE Quote!UpdateOptionGroup(e)
  BY <1>6
     DEF Quote!UpdateOptionGroup, Quote!Writes, Quote!NotWritten, TreeWritten,
         UpdatedGroup
<1>7. CASE Quote!DeleteOptionGroup(e)
  BY <1>7
     DEF Quote!DeleteOptionGroup, Quote!Writes, Quote!NotWritten, TreeWritten,
         DeletedGroup
<1>8. CASE Quote!CreateOption(e)
  BY <1>8
     DEF Quote!CreateOption, Quote!Writes, Quote!NotWritten, TreeWritten, CreatedOption
<1>9. CASE Quote!UpdateOption(e)
  BY <1>9
     DEF Quote!UpdateOption, Quote!Writes, Quote!NotWritten, TreeWritten, UpdatedOption
<1>10. CASE Quote!DeleteOption(e)
  BY <1>10
     DEF Quote!DeleteOption, Quote!Writes, Quote!NotWritten, TreeWritten, DeletedOption
<1> QED BY <1>2, <1>3, <1>4, <1>5, <1>6, <1>7, <1>8, <1>9, <1>10 DEF Quote!Edit

\* A patch of fields leaves the row in its table and with its parent.
LEMMA PatchedService ==
  ASSUME NEW patch, Quote!PatchOf(patch, Quote!ServiceFields),
         NEW own \in Quote!ServiceRow
  PROVE  /\ Quote!Patched(patch, own) \in Quote!ServiceRow
         /\ DOMAIN patch \subseteq {"price", "duration", "buffer"}
         /\ \A f \in {"price", "duration", "buffer"} :
              Quote!Patched(patch,
                 own)[f] = IF f \in DOMAIN patch THEN patch[f] ELSE own[f]
<1>1. DOMAIN own = {"price", "duration", "buffer"}
  BY DEF Quote!ServiceRow
<1>2. Quote!Patched(patch, own) = [ f \in {"price", "duration", "buffer"} |->
                              IF f \in DOMAIN patch THEN patch[f] ELSE own[f] ]
  BY <1>1 DEF Quote!Patched
<1>3. DOMAIN patch \subseteq {"price", "duration", "buffer"}
  BY DEF Quote!PatchOf, Quote!ServiceFields
<1>4. \A f \in {"price", "duration", "buffer"} :
        /\ f \in DOMAIN patch => patch[f] \in Quote!ServiceFields[f]
        /\ own[f] \in Quote!ServiceFields[f]
  BY DEF Quote!PatchOf, Quote!ServiceRow, Quote!ServiceFields
<1>5. Quote!Patched(patch, own) \in Quote!ServiceRow
  BY <1>2, <1>4 DEF Quote!ServiceRow, Quote!ServiceFields
<1> QED BY <1>2, <1>3, <1>5

LEMMA PatchedGroup ==
  ASSUME NEW patch, Quote!PatchOf(patch, Quote!GroupFields), NEW own \in Quote!GroupRow
  PROVE  Quote!Patched(patch, own) \in Quote!GroupRow
     /\ Quote!Patched(patch, own).service = own.service
<1> DEFINE fields == {"service", "single", "required", "min", "max"}
<1>1. DOMAIN own = fields
  BY DEF Quote!GroupRow
<1>2. Quote!Patched(patch,
      own) = [ f \in fields |-> IF f \in DOMAIN patch THEN patch[f] ELSE own[f] ]
  BY <1>1 DEF Quote!Patched
<1>3. "service" \notin DOMAIN patch
  BY DEF Quote!PatchOf, Quote!GroupFields
<1>4. \A f \in {"single", "required", "min", "max"} :
        /\ f \in DOMAIN patch => patch[f] \in Quote!GroupFields[f]
        /\ own[f] \in Quote!GroupFields[f]
  BY DEF Quote!PatchOf, Quote!GroupRow, Quote!GroupFields
<1>5. own.service \in Service
  BY DEF Quote!GroupRow
<1> QED BY <1>2, <1>3, <1>4, <1>5 DEF Quote!GroupRow, Quote!GroupFields

LEMMA PatchedOption ==
  ASSUME NEW patch, Quote!PatchOf(patch, Quote!OptionFields), NEW own \in Quote!OptionRow
  PROVE  Quote!Patched(patch, own) \in Quote!OptionRow
     /\ Quote!Patched(patch, own).group = own.group
<1> DEFINE fields == {"group", "price", "duration", "active"}
<1>1. DOMAIN own = fields
  BY DEF Quote!OptionRow
<1>2. Quote!Patched(patch,
      own) = [ f \in fields |-> IF f \in DOMAIN patch THEN patch[f] ELSE own[f] ]
  BY <1>1 DEF Quote!Patched
<1>3. "group" \notin DOMAIN patch
  BY DEF Quote!PatchOf, Quote!OptionFields
<1>4. \A f \in {"price", "duration", "active"} :
        /\ f \in DOMAIN patch => patch[f] \in Quote!OptionFields[f]
        /\ own[f] \in Quote!OptionFields[f]
  BY DEF Quote!PatchOf, Quote!OptionRow, Quote!OptionFields
<1>5. own.group \in Group
  BY DEF Quote!OptionRow
<1> QED BY <1>2, <1>3, <1>4, <1>5 DEF Quote!OptionRow, Quote!OptionFields

\* What a write may do to a row of each table.
ServiceAfter(ask, new, s) ==
  \/ new.service[s] = tree.service[s]
  \/ /\ UpdatedService(ask, new) /\ s = ask.service
     /\ new.service[s] = Quote!Patched(ask.patch, tree.service[s])
        /\ new.service[s] \in Quote!ServiceRow
  \/ DeletedService(ask, new) /\ s = ask.service /\ new.service[s] = None

GroupAfter(ask, new, g) ==
  \/ new.group[g] = tree.group[g]
  \/ /\ new.group[g] = None
     /\ DeletedService(ask, new) \/ (DeletedGroup(ask, new) /\ g = ask.group)
     /\ tree.group[g] # None /\ tree.group[g].service = ask.service
  \/ CreatedGroup(ask, new) /\ g \notin used /\ new.group[g] = ask.row
  \/ /\ UpdatedGroup(ask, new) /\ g = ask.group
     /\ tree.group[g] # None /\ tree.group[g].service = ask.service
     /\ new.group[g] \in Quote!GroupRow /\ new.group[g].service = ask.service

OptionAfter(ask, new, o) ==
  \/ new.option[o] = tree.option[o]
  \/ /\ new.option[o] = None /\ tree.option[o] # None
     /\ new.group[tree.option[o].group] = None
     /\ tree.group[tree.option[o].group] # None
     /\ DeletedService(ask, new) \/ DeletedGroup(ask, new)
  \/ /\ new.option[o] = None /\ DeletedOption(ask, new) /\ o = ask.option
     /\ tree.option[o].group = ask.group
  \/ CreatedOption(ask, new) /\ o \notin used /\ new.option[o] = ask.row
  \/ /\ UpdatedOption(ask, new) /\ o = ask.option /\ tree.option[o] # None
     /\ new.option[o] \in Quote!OptionRow /\ new.option[o].group = ask.group
     /\ tree.option[o].group = ask.group

LEMMA TablesAfter ==
  ASSUME TreeTyped, NEW ask \in TreeAsks, NEW new, TreeWritten(ask, new)
  PROVE  /\ new \in Quote!Tree
         /\ \A s \in Service : ServiceAfter(ask, new, s)
         /\ \A g \in Group : GroupAfter(ask, new, g)
         /\ \A o \in Option : OptionAfter(ask, new, o)
<1>1. Quote!ValidAsk(ask) /\ Quote!QuoteAssumption
  BY DEF TreeTyped, Quote!QuoteAssumption
<1>2. /\ tree.service \in [Service -> Quote!ServiceRow \cup {None}]
      /\ tree.group \in [Group -> Quote!GroupRow \cup {None}]
      /\ tree.option \in [Option -> Quote!OptionRow \cup {None}]
      /\ tree = [ service |-> tree.service, group |-> tree.group, option |-> tree.option ]
  BY DEF TreeTyped, Quote!Tree
<1>3. CASE UpdatedService(ask, new)
  <2> DEFINE s == ask.service
             own == Quote!Patched(ask.patch, tree.service[s])
  <2>1. s \in Service /\ tree.service[s] \in Quote!ServiceRow
        /\ Quote!PatchOf(ask.patch, Quote!ServiceFields)
    BY <1>1, <1>2, <1>3 DEF UpdatedService, Quote!ValidAsk
  <2>2. own \in Quote!ServiceRow
    BY <2>1, PatchedService
  <2>3. new = [ service |-> [tree.service EXCEPT ![s] = own], group |-> tree.group,
                option |-> tree.option ]
    BY <1>2, <1>3 DEF UpdatedService
  <2> HIDE DEF own
  <2>4. new \in Quote!Tree
    BY <1>2, <2>1, <2>2, <2>3 DEF Quote!Tree
  <2>5. ASSUME NEW x \in Service PROVE ServiceAfter(ask, new, x)
    BY <1>2, <1>3, <2>1, <2>2, <2>3 DEF ServiceAfter, own
  <2> QED BY <2>3, <2>4, <2>5 DEF GroupAfter, OptionAfter
<1>4. CASE DeletedService(ask, new)
  <2> DEFINE s == ask.service
             gone == DOMAIN Quote!GroupsOf(s)
  <2>1. s \in Service
    BY <1>1 DEF Quote!ValidAsk
  <2>2. gone = { g \in Group : tree.group[g] # None /\ tree.group[g].service = s }
    BY DEF Quote!GroupsOf
  <2> HIDE DEF gone
  <2>3. new = [ service |-> [tree.service EXCEPT ![s] = None],
                group |-> [g \in Group |-> IF g \in gone THEN None ELSE tree.group[g]],
                option |-> [o \in Option |-> IF tree.option[o] # None
                   /\ tree.option[o].group \in gone
                                             THEN None ELSE tree.option[o]] ]
    BY <1>2, <1>4 DEF DeletedService, Quote!Without, gone
  <2>4. new \in Quote!Tree
    BY <1>2, <2>1, <2>3 DEF Quote!Tree
  <2>5. ASSUME NEW o \in Option PROVE OptionAfter(ask, new, o)
    <3>1. CASE tree.option[o] # None /\ tree.option[o].group \in gone
      <4>1. tree.option[o].group \in Group
        BY <2>2, <3>1
      <4> QED BY <1>4, <2>2, <2>3, <3>1, <4>1 DEF OptionAfter
    <3>2. CASE ~ (tree.option[o] # None /\ tree.option[o].group \in gone)
      BY <2>3, <3>2 DEF OptionAfter
    <3> QED BY <3>1, <3>2
  <2>6. ASSUME NEW x \in Service PROVE ServiceAfter(ask, new, x)
    BY <1>2, <1>4, <2>1, <2>3 DEF ServiceAfter
  <2>7. ASSUME NEW g \in Group PROVE GroupAfter(ask, new, g)
    BY <1>4, <2>2, <2>3 DEF GroupAfter
  <2> QED BY <2>4, <2>5, <2>6, <2>7
<1>5. CASE CreatedGroup(ask, new)
  <2>1. PICK g \in Group \ used : new = [tree EXCEPT !.group[g] = ask.row]
    BY <1>5 DEF CreatedGroup
  <2>2. ask.row \in Quote!GroupRow
    BY <1>1, <1>5 DEF CreatedGroup, Quote!ValidAsk
  <2>3. new = [ service |-> tree.service, group |-> [tree.group EXCEPT ![g] = ask.row],
                option |-> tree.option ]
    BY <1>2, <2>1
  <2>4. new \in Quote!Tree
    BY <1>2, <2>2, <2>3 DEF Quote!Tree
  <2>5. ASSUME NEW x \in Group PROVE GroupAfter(ask, new, x)
    BY <1>2, <1>5, <2>3 DEF GroupAfter
  <2> QED BY <2>3, <2>4, <2>5 DEF ServiceAfter, OptionAfter
<1>6. CASE UpdatedGroup(ask, new)
  <2> DEFINE g == ask.group
             own == Quote!Patched(ask.patch, tree.group[g])
  <2>1. g \in Group /\ tree.group[g] \in Quote!GroupRow
        /\ tree.group[g].service = ask.service
        /\ tree.group[g] # None
        /\ Quote!PatchOf(ask.patch, Quote!GroupFields)
    BY <1>1, <1>2, <1>6 DEF UpdatedGroup, Quote!ValidAsk, Quote!InService
  <2>2. own \in Quote!GroupRow /\ own.service = ask.service
    BY <2>1, PatchedGroup
  <2>3. new = [ service |-> tree.service, group |-> [tree.group EXCEPT ![g] = own],
                option |-> tree.option ]
    BY <1>2, <1>6 DEF UpdatedGroup
  <2> HIDE DEF own
  <2>4. new \in Quote!Tree
    BY <1>2, <2>1, <2>2, <2>3 DEF Quote!Tree
  <2>5. ASSUME NEW x \in Group PROVE GroupAfter(ask, new, x)
    BY <1>2, <1>6, <2>1, <2>2, <2>3 DEF GroupAfter
  <2> QED BY <2>3, <2>4, <2>5 DEF ServiceAfter, OptionAfter
<1>7. CASE DeletedGroup(ask, new)
  <2> DEFINE g == ask.group
  <2>1. g \in Group /\ tree.group[g] # None /\ tree.group[g].service = ask.service
    BY <1>1, <1>7 DEF DeletedGroup, Quote!ValidAsk, Quote!InService
  <2>2. new = [ service |-> tree.service,
                group |-> [x \in Group |-> IF x \in {g} THEN None ELSE tree.group[x]],
                option |-> [o \in Option |-> IF tree.option[o] # None
                   /\ tree.option[o].group \in {g}
                                             THEN None ELSE tree.option[o]] ]
    BY <1>2, <1>7 DEF DeletedGroup, Quote!Without
  <2>3. new \in Quote!Tree
    BY <1>2, <2>2 DEF Quote!Tree
  <2>4. ASSUME NEW o \in Option PROVE OptionAfter(ask, new, o)
    BY <1>7, <2>1, <2>2 DEF OptionAfter
  <2>5. ASSUME NEW x \in Group PROVE GroupAfter(ask, new, x)
    BY <1>7, <2>1, <2>2 DEF GroupAfter
  <2> QED BY <2>2, <2>3, <2>4, <2>5 DEF ServiceAfter
<1>8. CASE CreatedOption(ask, new)
  <2>1. PICK o \in Option \ used : new = [tree EXCEPT !.option[o] = ask.row]
    BY <1>8 DEF CreatedOption
  <2>2. ask.row \in Quote!OptionRow
    BY <1>1, <1>8 DEF CreatedOption, Quote!ValidAsk
  <2>3. new = [ service |-> tree.service, group |-> tree.group,
                option |-> [tree.option EXCEPT ![o] = ask.row] ]
    BY <1>2, <2>1
  <2>4. new \in Quote!Tree
    BY <1>2, <2>2, <2>3 DEF Quote!Tree
  <2>5. ASSUME NEW x \in Option PROVE OptionAfter(ask, new, x)
    BY <1>2, <1>8, <2>3 DEF OptionAfter
  <2> QED BY <2>3, <2>4, <2>5 DEF ServiceAfter, GroupAfter
<1>9. CASE UpdatedOption(ask, new)
  <2> DEFINE o == ask.option
             own == Quote!Patched(ask.patch, tree.option[o])
  <2>1. o \in Option /\ tree.option[o] \in Quote!OptionRow /\ tree.option[o] # None
        /\ tree.option[o].group = ask.group
           /\ Quote!PatchOf(ask.patch, Quote!OptionFields)
    BY <1>1, <1>2, <1>9 DEF UpdatedOption, Quote!ValidAsk, Quote!InGroup
  <2>2. own \in Quote!OptionRow /\ own.group = ask.group
    BY <2>1, PatchedOption
  <2>3. new = [ service |-> tree.service, group |-> tree.group,
                option |-> [tree.option EXCEPT ![o] = own] ]
    BY <1>2, <1>9 DEF UpdatedOption
  <2> HIDE DEF own
  <2>4. new \in Quote!Tree
    BY <1>2, <2>1, <2>2, <2>3 DEF Quote!Tree
  <2>5. ASSUME NEW x \in Option PROVE OptionAfter(ask, new, x)
    BY <1>2, <1>9, <2>1, <2>2, <2>3 DEF OptionAfter
  <2> QED BY <2>3, <2>4, <2>5 DEF ServiceAfter, GroupAfter
<1>10. CASE DeletedOption(ask, new)
  <2> DEFINE o == ask.option
  <2>1. o \in Option /\ tree.option[o].group = ask.group
    BY <1>1, <1>10 DEF DeletedOption, Quote!ValidAsk, Quote!InGroup
  <2>2. new = [ service |-> tree.service, group |-> tree.group,
                option |-> [tree.option EXCEPT ![o] = None] ]
    BY <1>2, <1>10 DEF DeletedOption
  <2>3. new \in Quote!Tree
    BY <1>2, <2>1, <2>2 DEF Quote!Tree
  <2>4. ASSUME NEW x \in Option PROVE OptionAfter(ask, new, x)
    BY <1>2, <1>10, <2>1, <2>2 DEF OptionAfter
  <2> QED BY <2>2, <2>3, <2>4 DEF ServiceAfter, GroupAfter
<1> QED BY <1>3, <1>4, <1>5, <1>6, <1>7, <1>8, <1>9, <1>10 DEF TreeWritten

-----------------------------------------------------------------------------
(* The requests of the editors.                                            *)

OptionOps == {"create_option", "update_option", "delete_option"}

\* What a request has been asserted to own, and to find in its service.
Asserted(e) ==
  LET ask == edit[e].ask IN
  /\ edit[e].pc = "assert_service" => ask.op # "delete_service"
  /\ edit[e].pc \in {"assert_group", "write"} /\ ask.op # "delete_service"
       => Owner[ask.service] = ask.provider
  /\ edit[e].pc = "assert_group" => ask.op \in OptionOps
  /\ edit[e].pc = "write" /\ ask.op \in OptionOps =>
       /\ ask.group \in used
       /\ tree.group[ask.group] # None => tree.group[ask.group].service = ask.service
  /\ edit[e].answer = "ok" => edit[e].pc = "done"

\* The steps of a request that do not write.
LEMMA EditGoesOn ==
  ASSUME TreeTyped, NEW e \in Editor, Quote!Edit(e)
  PROVE  /\ edit' = [edit EXCEPT ![e] = edit'[e]] /\ edit'[e] \in Edits
         /\ edit[e].pc # "done" /\ edit'[e].ask \in TreeAsks
         /\ edit[e].pc # "idle" => edit'[e].ask = edit[e].ask
<1>1. edit[e] \in Edits /\ (edit[e].pc # "idle" => edit[e].ask \in TreeAsks)
  BY DEF TreeTyped
<1>2. ASSUME NEW code \in {None, "ok", "not_found", "invalid", "failed"},
             Quote!Answer(e, code),
             edit[e].pc \notin {"idle", "done"}
      PROVE  /\ edit' = [edit EXCEPT ![e] = edit'[e]] /\ edit'[e] \in Edits
             /\ edit[e].pc # "done" /\ edit'[e].ask \in TreeAsks
                /\ edit'[e].ask = edit[e].ask
  <2>1. edit'[e] = [edit[e] EXCEPT !.pc = "done", !.answer = code]
    BY <1>2 DEF Quote!Answer, TreeTyped
  <2>2. edit' = [edit EXCEPT ![e] = edit'[e]]
    BY <1>2, <2>1 DEF Quote!Answer, TreeTyped
  <2> QED BY <1>1, <1>2, <2>1, <2>2 DEF Edits, EditLabel
<1>3. CASE \E ask \in TreeAsks : Quote!Ask(e, ask)
  <2>1. PICK ask \in TreeAsks : Quote!Ask(e, ask)
    BY <1>3
  <2>2. edit'[e] = [edit[e] EXCEPT !.pc = IF ask.op = "delete_service" THEN "write"
                                          ELSE "assert_service", !.ask = ask]
    BY <2>1 DEF Quote!Ask, TreeTyped
  <2>3. edit' = [edit EXCEPT ![e] = edit'[e]]
    BY <2>1, <2>2 DEF Quote!Ask, TreeTyped
  <2>4. edit'[e] \in Edits /\ edit'[e].ask = ask
    BY <1>1, <2>2 DEF Edits, EditLabel
  <2>5. edit[e].pc = "idle"
    BY <2>1 DEF Quote!Ask
  <2> QED BY <2>3, <2>4, <2>5
<1>4. CASE Quote!assertServiceOwned(e)
  <2> DEFINE ask == edit[e].ask
             next == IF ask.op \in OptionOps THEN "assert_group" ELSE "write"
  <2>1. CASE \E code \in {"not_found", "invalid"} : Quote!Answer(e, code)
    BY <1>2, <1>4, <2>1 DEF Quote!assertServiceOwned
  <2>2. CASE edit' = [edit EXCEPT ![e].seen = tree.service[ask.service], ![e].pc = next]
    <3>1. edit'[e] = [edit[e] EXCEPT !.seen = tree.service[ask.service], !.pc = next]
      BY <2>2 DEF TreeTyped
    <3>2. edit' = [edit EXCEPT ![e] = edit'[e]]
      BY <2>2, <3>1 DEF TreeTyped
    <3>3. ask \in TreeAsks /\ ask.service \in Service /\ edit[e].pc = "assert_service"
      BY <1>1, <1>4
         DEF Quote!assertServiceOwned, TreeTyped, Quote!QuoteAssumption, Quote!ValidAsk
    <3>4. tree.service[ask.service] \in Quote!ServiceRow \cup {None}
      BY <3>3 DEF TreeTyped, Quote!Tree
    <3>5. edit'[e] \in Edits
      BY <1>1, <3>1, <3>4 DEF Edits, EditLabel
    <3>6. edit'[e].ask = ask
      BY <1>1, <3>1 DEF Edits
    <3> QED BY <3>2, <3>3, <3>5, <3>6
  <2> QED BY <1>4, <2>1, <2>2 DEF Quote!assertServiceOwned, OptionOps
<1>5. CASE Quote!assertGroupOwned(e)
  <2>1. CASE Quote!Answer(e, "not_found")
    BY <1>2, <1>5, <2>1 DEF Quote!assertGroupOwned
  <2>2. CASE edit' = [edit EXCEPT ![e].pc = "write"]
    <3>1. edit'[e] = [edit[e] EXCEPT !.pc = "write"]
      BY <2>2 DEF TreeTyped
    <3>2. edit' = [edit EXCEPT ![e] = edit'[e]]
      BY <2>2, <3>1 DEF TreeTyped
    <3> QED BY <1>1, <1>5, <3>1, <3>2 DEF Edits, EditLabel, Quote!assertGroupOwned
  <2> QED BY <1>5, <2>1, <2>2 DEF Quote!assertGroupOwned
<1>6. CASE edit[e].pc = "write"
      /\ \E code \in {"ok", "not_found", "invalid", "failed"} : Quote!Answer(e, code)
  BY <1>2, <1>6
<1>7. CASE Quote!UpdateService(e) \/ Quote!DeleteService(e) \/ Quote!CreateOptionGroup(e)
      \/ Quote!UpdateOptionGroup(e)
  BY <1>6, <1>7
     DEF Quote!UpdateService, Quote!DeleteService, Quote!CreateOptionGroup,
         Quote!UpdateOptionGroup, Quote!Writes, Quote!NotWritten, Quote!Wrote
<1>8. CASE Quote!DeleteOptionGroup(e) \/ Quote!CreateOption(e) \/ Quote!UpdateOption(e)
      \/ Quote!DeleteOption(e)
  BY <1>6, <1>8
     DEF Quote!DeleteOptionGroup, Quote!CreateOption, Quote!UpdateOption,
         Quote!DeleteOption, Quote!Writes, Quote!NotWritten, Quote!Wrote
<1> QED BY <1>3, <1>4, <1>5, <1>7, <1>8 DEF Quote!Edit

LEMMA TreeTypedKept == TreeTyped /\ [Quote!Next]_(Quote!vars) => TreeTyped'
<1>1. ASSUME TreeTyped, UNCHANGED <<tree, used, edit>> PROVE TreeTyped'
  BY <1>1 DEF TreeTyped, Quote!QuoteAssumption, Quote!Ids
<1>2. ASSUME TreeTyped, NEW e \in Editor, Quote!Edit(e) PROVE TreeTyped'
  <2>1. edit' \in [Editor -> Edits] /\ \A x \in Editor : edit'[x].pc # "idle" =>
        edit'[x].ask \in TreeAsks
    BY <1>2, EditGoesOn DEF TreeTyped
  <2>2. CASE UNCHANGED <<tree, used, visit>>
    BY <1>2, <2>1, <2>2 DEF TreeTyped, Quote!QuoteAssumption, Quote!Ids
  <2>3. ASSUME NEW new, edit[e].pc = "write", TreeWritten(edit[e].ask, new),
               Quote!Wrote(e, new)
        PROVE  TreeTyped'
    <3>1. edit[e].ask \in TreeAsks
      BY <1>2, <2>3 DEF TreeTyped
    <3>2. new \in Quote!Tree
      BY <1>2, <2>3, <3>1, TablesAfter
    <3>3. tree' = new /\ used' = used \cup Quote!Ids(tree')
      BY <2>3 DEF Quote!Wrote, Quote!Ids
    <3> QED BY <1>2, <2>1, <3>2, <3>3 DEF TreeTyped, Quote!QuoteAssumption, Quote!Ids
  <2> QED BY <1>2, <2>2, <2>3, EditEffect
<1>3. ASSUME TreeTyped, NEW c \in Customer, Quote!Reserve(c)
             PROVE UNCHANGED <<tree, used, edit>>
  BY <1>3
     DEF Quote!Reserve, Quote!Visit, Quote!ReadService, Quote!ReadGroups,
         Quote!ReadOptions, Quote!Insert
<1> QED BY <1>1, <1>2, <1>3 DEF Quote!Next, Quote!vars

-----------------------------------------------------------------------------
(* No option loses its group, no group its service.                        *)

LEMMA WrittenReferenced ==
  ASSUME TreeTyped, Quote!Referenced(tree), NEW ask \in TreeAsks, NEW new,
         TreeWritten(ask, new)
  PROVE  Quote!Referenced(new)
<1>1. Quote!ValidAsk(ask)
  BY DEF TreeTyped, Quote!QuoteAssumption
<1>2. /\ tree.service \in [Service -> Quote!ServiceRow \cup {None}]
      /\ tree.group \in [Group -> Quote!GroupRow \cup {None}]
      /\ tree.option \in [Option -> Quote!OptionRow \cup {None}]
      /\ tree = [ service |-> tree.service, group |-> tree.group, option |-> tree.option ]
      /\ None \notin Quote!ServiceRow \cup Quote!GroupRow \cup Quote!OptionRow
  BY DEF TreeTyped, Quote!Tree, Quote!QuoteAssumption
<1>3. new \in Quote!Tree
  BY TablesAfter
<1>4. ASSUME NEW g \in Group, new.group[g] # None
             PROVE new.service[new.group[g].service] # None
  <2>1. GroupAfter(ask, new, g) /\ \A s \in Service : ServiceAfter(ask, new, s)
    BY TablesAfter
  <2>2. new.group[g].service \in Service
    BY <1>3, <1>4 DEF Quote!Tree, Quote!GroupRow
  <2>3. tree.service[new.group[g].service] # None
    <3>1. CASE new.group[g] = tree.group[g]
      BY <1>4, <3>1 DEF Quote!Referenced
    <3>2. CASE CreatedGroup(ask, new) /\ new.group[g] = ask.row
      BY <1>1, <3>2 DEF CreatedGroup, Quote!ValidAsk
    <3>3. CASE UpdatedGroup(ask, new) /\ new.group[g].service = ask.service
      BY <1>1, <3>3 DEF UpdatedGroup, Quote!InService, Quote!ValidAsk, Quote!Referenced
    <3> QED BY <1>4, <2>1, <3>1, <3>2, <3>3 DEF GroupAfter
  <2>4. CASE DeletedService(ask, new) /\ new.group[g].service = ask.service
    <3>1. new.group = [x \in Group |-> IF x \in DOMAIN Quote!GroupsOf(ask.service) THEN None
                                       ELSE tree.group[x]]
      BY <1>2, <2>4 DEF DeletedService, Quote!Without
    <3>2. tree.group[g] # None /\ tree.group[g].service = ask.service
      BY <1>4, <2>4, <3>1
    <3> QED BY <1>4, <3>1, <3>2 DEF Quote!GroupsOf
  <2> QED BY <1>2, <2>1, <2>2, <2>3, <2>4 DEF ServiceAfter
<1>5. ASSUME NEW o \in Option, new.option[o] # None
             PROVE new.group[new.option[o].group] # None
  <2>1. OptionAfter(ask, new, o) /\ \A g \in Group : GroupAfter(ask, new, g)
    BY TablesAfter
  <2> DEFINE g == new.option[o].group
  <2>2. g \in Group
    BY <1>3, <1>5 DEF Quote!Tree, Quote!OptionRow
  <2>3. tree.group[g] # None
    <3>1. CASE new.option[o] = tree.option[o]
      BY <1>5, <3>1 DEF Quote!Referenced
    <3>2. CASE CreatedOption(ask, new) /\ new.option[o] = ask.row
      BY <1>1, <3>2 DEF CreatedOption, Quote!ValidAsk
    <3>3. CASE tree.option[o] # None /\ new.option[o].group = ask.group
               /\ tree.option[o].group = ask.group
      BY <3>3 DEF Quote!Referenced
    <3> QED BY <1>5, <2>1, <3>1, <3>2, <3>3 DEF OptionAfter
  <2>4. CASE new.group[g] = None
    <3>1. DeletedService(ask, new) \/ DeletedGroup(ask, new)
      BY <1>1, <1>2, <2>1, <2>2, <2>3, <2>4 DEF GroupAfter, CreatedGroup, Quote!ValidAsk
    <3>2. new.option[o] = tree.option[o]
      BY <1>5, <2>1, <3>1
         DEF OptionAfter, DeletedService, DeletedGroup, CreatedOption, UpdatedOption
    <3>3. CASE DeletedService(ask, new)
      <4> DEFINE gone == DOMAIN Quote!GroupsOf(ask.service)
      <4>1. /\ new.group = [x \in Group |-> IF x \in gone THEN None ELSE tree.group[x]]
            /\ new.option = [x \in Option |-> IF tree.option[x] # None
               /\ tree.option[x].group \in gone
                                              THEN None ELSE tree.option[x]]
        BY <1>2, <3>3 DEF DeletedService, Quote!Without
      <4> HIDE DEF gone
      <4> QED BY <1>5, <2>2, <2>3, <2>4, <3>2, <4>1
    <3>4. CASE DeletedGroup(ask, new)
      <4>1. /\ new.group = [x \in Group |-> IF x \in {ask.group} THEN None ELSE tree.group[x]]
            /\ new.option = [x \in Option |-> IF tree.option[x] # None
               /\ tree.option[x].group \in {ask.group}
                                              THEN None ELSE tree.option[x]]
        BY <1>2, <3>4 DEF DeletedGroup, Quote!Without
      <4> QED BY <1>5, <2>2, <2>3, <2>4, <3>2, <4>1
    <3> QED BY <3>1, <3>3, <3>4
  <2> QED BY <2>4
<1> QED BY <1>4, <1>5 DEF Quote!Referenced

\* A request that is at its write is done with it, whatever it finds.
LEMMA WriteDone ==
  ASSUME TreeTyped, NEW e \in Editor, Quote!Edit(e), edit[e].pc = "write"
  PROVE  edit'[e].pc = "done"
<1>1. edit[e] \in Edits
  BY DEF TreeTyped
<1>2. \E code : Quote!Answer(e, code)
  BY DEF Quote!Edit, Quote!Ask, Quote!assertServiceOwned, Quote!assertGroupOwned,
         Quote!UpdateService, Quote!DeleteService, Quote!CreateOptionGroup,
         Quote!UpdateOptionGroup, Quote!DeleteOptionGroup, Quote!CreateOption,
         Quote!UpdateOption, Quote!DeleteOption, Quote!NotWritten, Quote!Wrote
<1>3. PICK code : edit'[e] = [edit[e] EXCEPT !.pc = "done", !.answer = code]
  BY <1>2 DEF Quote!Answer, TreeTyped
<1> QED BY <1>1, <1>3 DEF Edits

-----------------------------------------------------------------------------
(* What a request owns.                                                    *)

AllAsserted == \A e \in Editor : Asserted(e)

\* A group that a request has found in its service is there or gone, never another's.
LEMMA GroupStays ==
  ASSUME TreeTyped, NEW ask \in TreeAsks, NEW new, TreeWritten(ask, new),
         NEW g \in Group, g \in used,
         NEW s, tree.group[g] # None => tree.group[g].service = s, new.group[g] # None
  PROVE  new.group[g].service = s
<1>1. GroupAfter(ask, new, g)
  BY TablesAfter
<1>2. tree.group[g] # None => tree.group[g].service = s
  OBVIOUS
<1> QED BY <1>1, <1>2 DEF GroupAfter

LEMMA AssertedKept ==
  ASSUME TreeTyped, AllAsserted, NEW e \in Editor, Quote!Edit(e), NEW x \in Editor
  PROVE  Asserted(x)'
<1>1. \A y \in Editor : edit[y] \in Edits
      /\ (edit[y].pc # "idle" => edit[y].ask \in TreeAsks)
  BY DEF TreeTyped
<1>2. \A a \in TreeAsks : Quote!ValidAsk(a)
  BY DEF TreeTyped, Quote!QuoteAssumption
<1>3. CASE \E new : edit[e].pc = "write" /\ TreeWritten(edit[e].ask, new)
      /\ Quote!Wrote(e, new)
  <2>1. PICK new : edit[e].pc = "write" /\ TreeWritten(edit[e].ask, new)
        /\ Quote!Wrote(e, new)
    BY <1>3
  <2>2. tree' = new /\ used \subseteq used' /\ edit[e].ask \in TreeAsks
    BY <1>1, <2>1 DEF Quote!Wrote
  <2>3. CASE x = e
    <3>1. edit'[e] = [edit[e] EXCEPT !.pc = "done", !.answer = "ok"]
      BY <2>1 DEF Quote!Wrote, Quote!Answer, TreeTyped
    <3>2. edit'[e].pc = "done"
      BY <1>1, <3>1 DEF Edits
    <3> QED BY <2>3, <3>2 DEF Asserted
  <2>4. CASE x # e
    <3>1. edit'[x] = edit[x]
      BY <2>1, <2>4 DEF Quote!Wrote, Quote!Answer, TreeTyped
    <3>2. edit[x].pc = "write" /\ edit[x].ask.op \in OptionOps =>
            /\ edit[x].ask.group \in Group
            /\ edit[x].ask.group \in used
            /\ tree.group[edit[x].ask.group] # None
                 => tree.group[edit[x].ask.group].service = edit[x].ask.service
      BY <1>1, <1>2 DEF AllAsserted, Asserted, OptionOps, Quote!ValidAsk
    <3>3. edit[x].pc = "write" /\ edit[x].ask.op \in OptionOps =>
            /\ edit[x].ask.group \in used'
            /\ new.group[edit[x].ask.group] # None
                 => new.group[edit[x].ask.group].service = edit[x].ask.service
      BY <2>1, <2>2, <3>2, GroupStays
    <3>4. Asserted(x)
      BY DEF AllAsserted
    <3> QED BY <2>2, <3>1, <3>3, <3>4 DEF Asserted
  <2> QED BY <2>3, <2>4
<1>4. CASE UNCHANGED <<tree, used, visit>>
  <2>1. edit' = [edit EXCEPT ![e] = edit'[e]]
    BY EditGoesOn
  <2>2. CASE x # e
    <3>1. edit'[x] = edit[x] /\ Asserted(x)
      BY <2>1, <2>2 DEF TreeTyped, AllAsserted
    <3> QED BY <1>4, <3>1 DEF Asserted
  <2>3. CASE x = e
        /\ \E code \in {"not_found", "invalid", "failed"} : Quote!Answer(e, code)
    <3>1. PICK code \in {"not_found", "invalid", "failed"} : Quote!Answer(e, code)
      BY <2>3
    <3>2. edit'[e] = [edit[e] EXCEPT !.pc = "done", !.answer = code]
      BY <3>1 DEF Quote!Answer, TreeTyped
    <3>3. edit'[e].pc = "done"
      BY <1>1, <3>2 DEF Edits
    <3> QED BY <2>3, <3>3 DEF Asserted
  <2>4. CASE x = e /\ \E ask \in TreeAsks : Quote!Ask(e, ask)
    <3>1. PICK ask \in TreeAsks : Quote!Ask(e, ask)
      BY <2>4
    <3>2. edit'[e] = [edit[e] EXCEPT !.pc = IF ask.op = "delete_service" THEN "write"
                                            ELSE "assert_service", !.ask = ask]
      BY <3>1 DEF Quote!Ask, TreeTyped
    <3>3. /\ edit'[e].pc = IF ask.op = "delete_service" THEN "write" ELSE "assert_service"
          /\ edit'[e].ask = ask /\ edit'[e].answer = edit[e].answer
      BY <1>1, <3>2 DEF Edits
    <3>4. edit[e].pc = "idle" /\ Asserted(e)
      BY <3>1 DEF Quote!Ask, AllAsserted
    <3> QED BY <2>4, <3>3, <3>4 DEF Asserted, OptionOps
  <2>5. CASE x = e /\ Quote!assertServiceOwned(e) /\ edit'[e].pc # "done"
    <3> DEFINE ask == edit[e].ask
    <3>1. /\ Quote!Owned(ask) /\ edit[e].pc = "assert_service"
          /\ edit' = [edit EXCEPT ![e].seen = tree.service[ask.service],
               ![e].pc = IF ask.op \in OptionOps THEN "assert_group" ELSE "write"]
      BY <1>1, <2>5
         DEF Quote!assertServiceOwned, Quote!Answer, TreeTyped, Edits, OptionOps
    <3>2. /\ edit'[e].pc = IF ask.op \in OptionOps THEN "assert_group" ELSE "write"
          /\ edit'[e].ask = ask /\ edit'[e].answer = edit[e].answer
      BY <1>1, <3>1 DEF TreeTyped, Edits
    <3>3. Asserted(e)
      BY DEF AllAsserted
    <3>4. Owner[ask.service] = ask.provider
      BY <3>1 DEF Quote!Owned
    <3>5. edit[e].answer # "ok"
      BY <3>1, <3>3 DEF Asserted
    <3>6. CASE ask.op \in OptionOps
      BY <2>5, <3>2, <3>4, <3>5, <3>6 DEF Asserted
    <3>7. CASE ask.op \notin OptionOps
      BY <2>5, <3>2, <3>4, <3>5, <3>7 DEF Asserted
    <3> QED BY <3>6, <3>7
  <2>6. CASE x = e /\ Quote!assertGroupOwned(e) /\ edit'[e].pc # "done"
    <3> DEFINE ask == edit[e].ask
    <3>1. Quote!InService(ask) /\ edit[e].pc = "assert_group"
          /\ edit' = [edit EXCEPT ![e].pc = "write"]
      BY <1>1, <2>6 DEF Quote!assertGroupOwned, Quote!Answer, TreeTyped, Edits
    <3>2. edit'[e].pc = "write" /\ edit'[e].ask = ask /\ edit'[e].answer = edit[e].answer
      BY <1>1, <3>1 DEF TreeTyped, Edits
    <3>3. Asserted(e)
      BY DEF AllAsserted
    <3>4. ask.group \in Group
      BY <1>1, <1>2, <3>1, <3>3 DEF Asserted, Quote!ValidAsk, OptionOps
    <3>5. ask.group \in used'
      BY <1>4, <3>1, <3>4 DEF Quote!InService, TreeTyped, Quote!Ids
    <3> QED BY <1>4, <2>6, <3>1, <3>2, <3>3, <3>5 DEF Asserted, Quote!InService
  <2>7. edit'[e].pc = "done" /\ edit'[e].answer # "ok" => Asserted(e)'
    BY DEF Asserted
  <2>8. CASE x = e /\ edit'[e].pc = "done" /\ edit'[e].answer = "ok"
    BY <2>8 DEF Asserted
  <2>9. CASE edit[e].pc = "write"
    <3>1. edit'[e].pc = "done"
      BY <1>1, <2>9, WriteDone
    <3> QED BY <2>2, <2>7, <2>8, <3>1
  <2>10. CASE edit[e].pc # "write"
    <3>1. (\E ask \in TreeAsks : Quote!Ask(e, ask)) \/ Quote!assertServiceOwned(e)
          \/ Quote!assertGroupOwned(e)
      BY <2>10
         DEF Quote!Edit, Quote!UpdateService, Quote!DeleteService,
             Quote!CreateOptionGroup, Quote!UpdateOptionGroup, Quote!DeleteOptionGroup,
             Quote!CreateOption, Quote!UpdateOption, Quote!DeleteOption, Quote!Writes
    <3> QED BY <2>2, <2>4, <2>5, <2>6, <2>7, <2>8, <3>1
  <2> QED BY <2>9, <2>10
<1> QED BY <1>3, <1>4, EditEffect

\* A write for one provider leaves the rows of another's services as they were.
LEMMA PartUntouched ==
  ASSUME TreeTyped, NEW e \in Editor, Asserted(e), edit[e].pc = "write",
         NEW new, TreeWritten(edit[e].ask, new),
         NEW p \in Provider, p # edit[e].ask.provider
  PROVE  Quote!PartOf(p, new) = Quote!PartOf(p, tree)
<1> DEFINE ask == edit[e].ask
           s == { x \in Service : Owner[x] = p }
           g(t) == { x \in Group : t.group[x] # None /\ t.group[x].service \in s }
           o(t) == { x \in Option : t.option[x] # None /\ t.option[x].group \in g(t) }
<1>1. ask \in TreeAsks /\ Quote!ValidAsk(ask)
  BY DEF TreeTyped, Quote!QuoteAssumption
<1>2. /\ \A x \in Service : ServiceAfter(ask, new, x)
      /\ \A x \in Group : GroupAfter(ask, new, x)
      /\ \A x \in Option : OptionAfter(ask, new, x)
      /\ new \in Quote!Tree /\ tree \in Quote!Tree
  BY <1>1, TablesAfter DEF TreeTyped
<1>3. Owner[ask.service] = ask.provider
  <2>1. CASE ask.op = "delete_service"
    BY <1>1, <2>1
       DEF TreeWritten, DeletedService, UpdatedService, CreatedGroup, UpdatedGroup,
           DeletedGroup, CreatedOption, UpdatedOption, DeletedOption, Quote!Owned
  <2>2. CASE ask.op # "delete_service"
    BY <2>2 DEF Asserted
  <2> QED BY <2>1, <2>2
<1>4. ask.service \notin s
  BY <1>3
<1>5. \A x \in s : new.service[x] = tree.service[x]
  BY <1>2, <1>4 DEF ServiceAfter
\* What changes among the groups is not the other provider's, before or after.
<1>6. ASSUME NEW x \in Group, new.group[x] # tree.group[x]
      PROVE  x \notin g(tree) /\ x \notin g(new)
  <2>1. tree.group[x] # None => tree.group[x].service = ask.service
    BY <1>2, <1>6 DEF GroupAfter, TreeTyped, Quote!Ids
  <2>2. new.group[x] # None => new.group[x].service = ask.service
    BY <1>1, <1>2, <1>6 DEF GroupAfter, CreatedGroup, Quote!ValidAsk
  <2> QED BY <1>4, <2>1, <2>2
<1>7. g(new) = g(tree) /\ \A x \in g(tree) : new.group[x] = tree.group[x]
  BY <1>6
<1>8. ask.op \in OptionOps => ask.group \notin g(tree)
  BY <1>4 DEF Asserted
<1>9. ASSUME NEW x \in Option, new.option[x] # tree.option[x]
      PROVE  x \notin o(tree) /\ x \notin o(new)
  <2>1. CASE DeletedService(ask, new) \/ DeletedGroup(ask, new)
    <3>1. /\ new.option[x] = None /\ tree.option[x] # None
          /\ new.group[tree.option[x].group] = None
          /\ tree.group[tree.option[x].group] # None
      BY <1>2, <1>9, <2>1 DEF OptionAfter, DeletedService, DeletedGroup, CreatedOption,
         UpdatedOption, DeletedOption
    <3>2. tree.option[x].group \in Group
      BY <1>2, <3>1 DEF Quote!Tree, Quote!OptionRow
    <3> QED BY <1>6, <3>1, <3>2
  <2>2. CASE ~ (DeletedService(ask, new) \/ DeletedGroup(ask, new))
    <3>1. ask.op \in OptionOps
      BY <1>2, <1>9, <2>2
         DEF OptionAfter, DeletedOption, CreatedOption, UpdatedOption, OptionOps
    <3>2. tree.option[x] # None => tree.option[x].group = ask.group
      BY <1>2, <1>9, <2>2 DEF OptionAfter, TreeTyped, Quote!Ids
    <3>3. new.option[x] # None => new.option[x].group = ask.group
      BY <1>1, <1>2, <1>9, <2>2 DEF OptionAfter, CreatedOption, Quote!ValidAsk
    <3> QED BY <1>7, <1>8, <3>1, <3>2, <3>3
  <2> QED BY <2>1, <2>2
<1>10. o(new) = o(tree) /\ \A x \in o(tree) : new.option[x] = tree.option[x]
  <2>1. \A x \in Option : x \in o(tree) \/ x \in o(new) => new.option[x] = tree.option[x]
    BY <1>9
  <2>2. g(new) = g(tree)
    BY <1>7
  <2> HIDE DEF g
  <2> QED BY <2>1, <2>2
<1>11. /\ [ x \in s |-> new.service[x] ] = [ x \in s |-> tree.service[x] ]
       /\ [ x \in g(new) |-> new.group[x] ] = [ x \in g(tree) |-> tree.group[x] ]
       /\ [ x \in o(new) |-> new.option[x] ] = [ x \in o(tree) |-> tree.option[x] ]
  BY <1>5, <1>7, <1>10
<1>12. \A t : Quote!PartOf(p, t) = << [ x \in s |-> t.service[x] ],
       [ x \in g(t) |-> t.group[x] ],
                                [ x \in o(t) |-> t.option[x] ] >>
  BY DEF Quote!PartOf
<1> HIDE DEF s, g, o
<1> QED BY <1>11, <1>12

LEMMA OwnTreeStep ==
  TreeTyped /\ AllAsserted /\ [Quote!Next]_(Quote!vars) => Quote!OwnTreeOnly
<1> SUFFICES ASSUME TreeTyped, AllAsserted, [Quote!Next]_(Quote!vars), NEW e \in Editor,
    edit[e].pc = "write",
                    edit'[e].pc = "done", NEW p \in Provider \ {edit[e].ask.provider}
    PROVE  Quote!PartOf(p, tree') = Quote!PartOf(p, tree)
  BY DEF Quote!OwnTreeOnly
<1>1. CASE UNCHANGED tree
  BY <1>1
<1>2. CASE tree' # tree
  <2>1. PICK x \in Editor : Quote!Edit(x)
    BY <1>2
       DEF Quote!Next, Quote!vars, Quote!Reserve, Quote!Visit, Quote!ReadService,
           Quote!ReadGroups, Quote!ReadOptions, Quote!Insert
  <2>2. x = e
    BY <2>1, EditGoesOn DEF TreeTyped
  <2>3. PICK new : edit[e].pc = "write" /\ TreeWritten(edit[e].ask, new)
        /\ Quote!Wrote(e, new)
    BY <1>2, <2>1, <2>2, EditEffect
  <2>4. Quote!PartOf(p, new) = Quote!PartOf(p, tree)
    BY <2>3, PartUntouched DEF AllAsserted
  <2>5. tree' = new
    BY <2>3 DEF Quote!Wrote
  <2> QED BY <2>4, <2>5
<1> QED BY <1>1, <1>2

-----------------------------------------------------------------------------
(* Concurrent updates of one service.                                      *)

\* A request is answered with success by its write only.
LEMMA OkWrites ==
  ASSUME TreeTyped, NEW e \in Editor, Quote!Edit(e), edit[e].answer # "ok"
  PROVE  \/ UNCHANGED <<tree, used, visit>> /\ edit'[e].answer # "ok"
         \/ \E new : edit[e].pc = "write" /\ TreeWritten(edit[e].ask, new)
            /\ Quote!Wrote(e, new)
<1>1. edit[e] \in Edits /\ edit \in [Editor -> Edits]
  BY DEF TreeTyped
<1>2. ASSUME NEW code \in {"not_found", "invalid", "failed"}, Quote!Answer(e, code)
      PROVE  edit'[e].answer # "ok"
  <2>1. edit'[e] = [edit[e] EXCEPT !.pc = "done", !.answer = code]
    BY <1>1, <1>2 DEF Quote!Answer
  <2> QED BY <1>1, <2>1 DEF Edits
<1>3. CASE \E code \in {"not_found", "invalid", "failed"} : Quote!NotWritten(e, code)
  BY <1>2, <1>3 DEF Quote!NotWritten
<1>4. CASE \E new : edit[e].pc = "write" /\ TreeWritten(edit[e].ask, new)
      /\ Quote!Wrote(e, new)
  BY <1>4
<1>5. CASE \E ask \in TreeAsks : Quote!Ask(e, ask)
  <2>1. PICK ask \in TreeAsks : Quote!Ask(e, ask)
    BY <1>5
  <2>2. edit'[e] = [edit[e] EXCEPT !.pc = IF ask.op = "delete_service" THEN "write"
                                          ELSE "assert_service", !.ask = ask]
    BY <1>1, <2>1 DEF Quote!Ask
  <2>3. edit'[e].answer = edit[e].answer
    BY <1>1, <2>2 DEF Edits
  <2> QED BY <2>1, <2>3 DEF Quote!Ask
<1>6. CASE Quote!assertServiceOwned(e)
  <2>1. CASE \E code \in {"not_found", "invalid"} : Quote!Answer(e, code)
    BY <1>2, <1>6, <2>1 DEF Quote!assertServiceOwned
  <2>2. CASE \E label : edit' = [edit EXCEPT ![e].seen = tree.service[edit[e].ask.service],
                                            ![e].pc = label]
    <3>1. edit'[e].answer = edit[e].answer
      BY <1>1, <2>2 DEF Edits
    <3> QED BY <1>6, <3>1 DEF Quote!assertServiceOwned
  <2> QED BY <1>6, <2>1, <2>2 DEF Quote!assertServiceOwned
<1>7. CASE Quote!assertGroupOwned(e)
  <2>1. CASE edit' = [edit EXCEPT ![e].pc = "write"]
    <3>1. edit'[e].answer = edit[e].answer
      BY <1>1, <2>1 DEF Edits
    <3> QED BY <1>7, <3>1 DEF Quote!assertGroupOwned
  <2>2. CASE Quote!Answer(e, "not_found")
    BY <1>2, <1>7, <2>2 DEF Quote!assertGroupOwned
  <2> QED BY <1>7, <2>1, <2>2 DEF Quote!assertGroupOwned
<1>8. CASE Quote!UpdateService(e)
  BY <1>3, <1>4, <1>8 DEF Quote!UpdateService, Quote!Writes, TreeWritten, UpdatedService
<1>9. CASE Quote!DeleteService(e)
  BY <1>3, <1>4, <1>9 DEF Quote!DeleteService, Quote!Writes, TreeWritten, DeletedService
<1>10. CASE Quote!CreateOptionGroup(e)
  BY <1>3, <1>4, <1>10
     DEF Quote!CreateOptionGroup, Quote!Writes, TreeWritten, CreatedGroup
<1>11. CASE Quote!UpdateOptionGroup(e)
  BY <1>3, <1>4, <1>11
     DEF Quote!UpdateOptionGroup, Quote!Writes, TreeWritten, UpdatedGroup
<1>12. CASE Quote!DeleteOptionGroup(e)
  BY <1>3, <1>4, <1>12
     DEF Quote!DeleteOptionGroup, Quote!Writes, TreeWritten, DeletedGroup
<1>13. CASE Quote!CreateOption(e)
  BY <1>3, <1>4, <1>13 DEF Quote!CreateOption, Quote!Writes, TreeWritten, CreatedOption
<1>14. CASE Quote!UpdateOption(e)
  BY <1>3, <1>4, <1>14 DEF Quote!UpdateOption, Quote!Writes, TreeWritten, UpdatedOption
<1>15. CASE Quote!DeleteOption(e)
  BY <1>3, <1>4, <1>15 DEF Quote!DeleteOption, Quote!Writes, TreeWritten, DeletedOption
<1> QED BY <1>5, <1>6, <1>7, <1>8, <1>9, <1>10, <1>11, <1>12, <1>13, <1>14, <1>15
           DEF Quote!Edit

LEMMA PatchesSurviveKept ==
  ASSUME TreeTyped, AllAsserted, Quote!PatchesSurvive, NEW e \in Editor, Quote!Edit(e)
  PROVE  Quote!PatchesSurvive'
<1>1. \A x \in Editor : /\ edit[x] \in Edits
                        /\ edit[x].pc # "idle" => edit[x].ask \in TreeAsks
                           /\ Quote!ValidAsk(edit[x].ask)
                        /\ edit[x].answer = "ok" => edit[x].pc = "done"
  BY DEF TreeTyped, Quote!QuoteAssumption, AllAsserted, Asserted
<1>2. \A x \in Editor : x # e => edit'[x] = edit[x]
  BY EditGoesOn DEF TreeTyped
<1>3. edit[e].pc # "done" /\ edit[e].answer # "ok"
  BY <1>1, EditGoesOn
<1> SUFFICES ASSUME NEW d \in Editor, edit'[d].answer = "ok",
    edit'[d].ask.op = "update_service",
                    tree'.service[edit'[d].ask.service] # None,
                    NEW f \in DOMAIN edit'[d].ask.patch
    PROVE  \/ tree'.service[edit'[d].ask.service][f] = edit'[d].ask.patch[f]
           \/ \E x \in Editor \ {d} : /\ edit'[x].answer = "ok"
                                      /\ edit'[x].ask.op = "update_service"
                                      /\ edit'[x].ask.service = edit'[d].ask.service
                                      /\ f \in DOMAIN edit'[x].ask.patch
  BY DEF Quote!PatchesSurvive
<1>4. CASE \E new : edit[e].pc = "write" /\ TreeWritten(edit[e].ask, new)
      /\ Quote!Wrote(e, new)
  <2>1. PICK new : edit[e].pc = "write" /\ TreeWritten(edit[e].ask, new)
        /\ Quote!Wrote(e, new)
    BY <1>4
  <2> DEFINE ask == edit[e].ask
  <2>2. tree' = new /\ ask \in TreeAsks /\ Quote!ValidAsk(ask)
    BY <1>1, <2>1 DEF Quote!Wrote
  <2>3. edit'[e] = [edit[e] EXCEPT !.pc = "done", !.answer = "ok"]
    BY <2>1 DEF Quote!Wrote, Quote!Answer, TreeTyped
  <2>4. edit'[e].answer = "ok" /\ edit'[e].ask = ask
    BY <1>1, <2>3 DEF Edits
  <2>5. tree.service \in [Service -> Quote!ServiceRow \cup {None}]
    BY DEF TreeTyped, Quote!Tree
  <2>6. \A s \in Service : ServiceAfter(ask, new, s)
    BY <2>1, <2>2, TablesAfter
  <2>7. CASE d = e
    <3>1. ask.op = "update_service" /\ f \in DOMAIN ask.patch
      BY <2>4, <2>7
    <3>2. UpdatedService(ask, new)
      BY <2>1, <3>1
         DEF TreeWritten, UpdatedService, DeletedService, CreatedGroup, UpdatedGroup,
             DeletedGroup, CreatedOption, UpdatedOption, DeletedOption
    <3>3. ask.service \in Service /\ tree.service[ask.service] \in Quote!ServiceRow
          /\ Quote!PatchOf(ask.patch, Quote!ServiceFields)
      BY <2>2, <2>5, <3>1, <3>2 DEF Quote!ValidAsk, UpdatedService
    <3>4. new.service[ask.service] = Quote!Patched(ask.patch, tree.service[ask.service])
      BY <3>2, <3>3 DEF UpdatedService, TreeTyped, Quote!Tree
    <3>5. Quote!Patched(ask.patch, tree.service[ask.service])[f] = ask.patch[f]
      BY <3>1, <3>3, PatchedService
    <3> QED BY <2>2, <2>4, <2>7, <3>4, <3>5
  <2>8. CASE d # e
    <3> DEFINE mine == edit[d].ask
               s == mine.service
    <3>1. edit'[d] = edit[d]
      BY <1>2, <2>8
    <3>2. mine \in TreeAsks /\ Quote!ValidAsk(mine) /\ mine.op = "update_service"
      BY <1>1, <3>1
    <3>3. s \in Service /\ f \in {"price", "duration", "buffer"}
      BY <3>1, <3>2 DEF Quote!ValidAsk, Quote!PatchOf, Quote!ServiceFields
    <3>4. tree.service[s] # None /\ tree.service[s] \in Quote!ServiceRow
      BY <2>2, <2>5, <2>6, <3>1, <3>3 DEF ServiceAfter, UpdatedService
    <3>5. \/ tree.service[s][f] = mine.patch[f]
          \/ \E x \in Editor \ {d} : /\ edit[x].answer = "ok"
                                     /\ edit[x].ask.op = "update_service"
                                     /\ edit[x].ask.service = s
                                     /\ f \in DOMAIN edit[x].ask.patch
      BY <3>1, <3>2, <3>4 DEF Quote!PatchesSurvive
    <3>6. ASSUME NEW x \in Editor \ {d}, edit[x].answer = "ok",
                 edit[x].ask.op = "update_service",
                 edit[x].ask.service = s, f \in DOMAIN edit[x].ask.patch
          PROVE  \E y \in Editor \ {d} : /\ edit'[y].answer = "ok"
                                         /\ edit'[y].ask.op = "update_service"
                                         /\ edit'[y].ask.service = s
                                         /\ f \in DOMAIN edit'[y].ask.patch
      <4>1. x # e
        BY <1>3, <3>6
      <4> QED BY <1>2, <3>6, <4>1
    <3>7. CASE new.service[s] = tree.service[s]
      BY <2>2, <3>1, <3>5, <3>6, <3>7
    <3>8. CASE UpdatedService(ask, new) /\ s = ask.service
               /\ new.service[s] = Quote!Patched(ask.patch, tree.service[s])
      <4>1. ask.op = "update_service" /\ Quote!PatchOf(ask.patch, Quote!ServiceFields)
        BY <2>2, <3>8 DEF UpdatedService, Quote!ValidAsk
      <4>2. CASE f \in DOMAIN ask.patch
        BY <2>4, <2>8, <3>1, <3>8, <4>1, <4>2
      <4>3. CASE f \notin DOMAIN ask.patch
        <5>1. new.service[s][f] = tree.service[s][f]
          BY <3>3, <3>4, <3>8, <4>1, <4>3, PatchedService
        <5> QED BY <2>2, <3>1, <3>5, <3>6, <5>1
      <4> QED BY <4>2, <4>3
    <3>9. new.service[s] # None
      BY <2>2, <3>1
    <3> QED BY <2>6, <3>3, <3>7, <3>8, <3>9 DEF ServiceAfter
  <2> QED BY <2>7, <2>8
<1>5. CASE UNCHANGED <<tree, used, visit>> /\ edit'[e].answer # "ok"
  <2>1. d # e /\ edit'[d] = edit[d]
    BY <1>2, <1>5
  <2>2. \/ tree.service[edit[d].ask.service][f] = edit[d].ask.patch[f]
        \/ \E x \in Editor \ {d} : /\ edit[x].answer = "ok"
                                   /\ edit[x].ask.op = "update_service"
                                   /\ edit[x].ask.service = edit[d].ask.service
                                   /\ f \in DOMAIN edit[x].ask.patch
    BY <1>5, <2>1 DEF Quote!PatchesSurvive
  <2>3. ASSUME NEW x \in Editor, edit[x].answer = "ok" PROVE edit'[x] = edit[x]
    BY <1>2, <1>3, <2>3
  <2> QED BY <1>5, <2>1, <2>2, <2>3
<1> QED BY <1>3, <1>4, <1>5, OkWrites

-----------------------------------------------------------------------------
(* What a reservation has read.                                            *)

\* How long the selection takes: by the row of the service in t, the options in u.
Lasts(s, chosen, t, u) ==
  Quote!Total(t.service[s].duration,
     [ i \in DOMAIN chosen |-> u.option[chosen[i]].duration ])

EditedFor(s, chosen, t, u) ==
  \/ t.service[s] # u.service[s]
  \/ \E i \in DOMAIN chosen : t.option[chosen[i]] # u.option[chosen[i]]

Shape(v) ==
  v = [ pc |-> v.pc, round |-> v.round, wants |-> v.wants, chosen |-> v.chosen,
        service |-> v.service, groups |-> v.groups, first |-> v.first, quote |-> v.quote,
        checked |-> v.checked, past |-> v.past, booked |-> v.booked ]

Active(v) == v.pc \in {"service", "groups", "options", "insert"}

ReadOnce(v, own) == \E t \in v.past : own = t.service[v.wants]

QuotedOnce(v) == \E t, u \in v.past : v.quote.duration = Lasts(v.wants, v.chosen, t, u)

CheckedOnce(v) ==
  \E t, u \in v.past :
    v.checked = Quote!Wrap(Lasts(v.wants, v.chosen, t, u) + t.service[v.wants].buffer)

\* A reservation remembers the present tables, and what it holds was read from them
\* or from earlier ones.
Remembers(v, now) ==
  /\ Shape(v)
  /\ Active(v) => now \in v.past
  /\ v.pc \in {"groups", "options"} => ReadOnce(v, v.service)
  /\ v.pc \in {"groups", "options", "insert"} => ReadOnce(v, v.first)
  /\ v.pc = "service" /\ v.round = 2 => ReadOnce(v, v.first)
  /\ v.pc \in {"service", "groups", "options"} => v.round \in {1, 2}
  /\ Active(v) /\ v.round = 2 => QuotedOnce(v)
  /\ v.pc = "insert" => QuotedOnce(v) /\ CheckedOnce(v)
  /\ v.pc = "booked" =>
       \/ v.booked.length = v.checked
       \/ \E t, u \in v.past : EditedFor(v.wants, v.chosen, t, u)

AllRemember ==
  /\ visit = [c \in Customer |-> visit[c]]
  /\ \A c \in Customer : Remembers(visit[c], tree)

\* A quote is made of the rows it was given.
LEMMA DurationOfQuote ==
  ASSUME NEW own, NEW groups, NEW options, NEW chosen,
         Quote!BuildQuote(own, groups, options, chosen).ok
  PROVE  /\ \A i \in DOMAIN chosen : chosen[i] \in DOMAIN options
         /\ Quote!BuildQuote(own, groups, options, chosen).duration
              = Quote!Total(own.duration,
                 [ i \in DOMAIN chosen |-> options[chosen[i]].duration ])
<1> DEFINE selected == [ i \in DOMAIN chosen |-> options[chosen[i]] ]
           price == Quote!Total(own.price, [ i \in DOMAIN chosen |-> selected[i].price ])
           duration == Quote!Total(own.duration,
              [ i \in DOMAIN chosen |-> selected[i].duration ])
<1>1. ~ Quote!Refused.ok
  BY DEF Quote!Refused
<1>2. /\ Quote!Selectable(groups, options, chosen)
      /\ Quote!BuildQuote(own, groups, options, chosen)
           = [ ok |-> TRUE, price |-> price, duration |-> duration ]
  BY <1>1 DEF Quote!BuildQuote
<1>3. [ i \in DOMAIN chosen |-> selected[i].duration ]
        = [ i \in DOMAIN chosen |-> options[chosen[i]].duration ]
  OBVIOUS
<1> HIDE DEF selected
<1> QED BY <1>2, <1>3 DEF Quote!Selectable

\* A quote that is made of the present options, or without any, takes what they say.
LEMMA QuoteLasts ==
  ASSUME NEW v, tree \in v.past, NEW t \in v.past, v.service = t.service[v.wants],
         NEW groups, NEW options,
            Quote!BuildQuote(v.service, groups, options, v.chosen).ok,
         \A o \in DOMAIN options : options[o] = tree.option[o]
  PROVE  Quote!BuildQuote(v.service, groups, options, v.chosen).duration
           = Lasts(v.wants, v.chosen, t, tree)
<1>1. /\ \A i \in DOMAIN v.chosen : v.chosen[i] \in DOMAIN options
      /\ Quote!BuildQuote(v.service, groups, options, v.chosen).duration
           = Quote!Total(v.service.duration,
              [ i \in DOMAIN v.chosen |-> options[v.chosen[i]].duration ])
  BY DurationOfQuote
<1>2. [ i \in DOMAIN v.chosen |-> options[v.chosen[i]].duration ]
        = [ i \in DOMAIN v.chosen |-> tree.option[v.chosen[i]].duration ]
  BY <1>1
<1> QED BY <1>1, <1>2 DEF Lasts

\* The step at the end of the quote, made of the present options.
LEMMA QuotedRemembers ==
  ASSUME AllRemember, NEW c \in Customer, visit[c].pc \in {"groups", "options"},
         NEW groups, NEW options, \A o \in DOMAIN options : options[o] = tree.option[o],
         Quote!Quoted(c, groups, options), tree' = tree
  PROVE  AllRemember'
<1> DEFINE v == visit[c]
           quote == Quote!BuildQuote(v.service, groups, options, v.chosen)
<1>1. /\ Remembers(v, tree) /\ Shape(v) /\ tree \in v.past /\ v.round \in {1, 2}
      /\ visit = [x \in Customer |-> visit[x]]
  BY DEF AllRemember, Remembers, Active
<1>2. PICK t \in v.past : v.service = t.service[v.wants]
  BY <1>1 DEF Remembers, ReadOnce
<1>3. \A x \in Customer \ {c} : visit'[x] = visit[x]
  BY <1>1 DEF Quote!Quoted, Quote!Goto
<1>4. visit' = [x \in Customer |-> visit'[x]]
  BY <1>1 DEF Quote!Quoted, Quote!Goto
<1>5. Remembers(visit'[c], tree)
  <2>1. CASE Quote!Goto(c, "refused") \/ Quote!Goto(c, "no_slot")
    <3>1. PICK label \in {"refused", "no_slot"} : visit'[c] = [v EXCEPT !.pc = label]
      BY <1>1, <2>1 DEF Quote!Goto
    <3>2. Shape(visit'[c]) /\ visit'[c].pc \in {"refused", "no_slot"}
      BY <1>1, <3>1 DEF Shape
    <3> QED BY <3>2 DEF Remembers, Active, Shape
  <2>2. CASE quote.ok /\ v.round = 1
    <3>1. visit'[c] = [v EXCEPT !.pc = "service", !.round = 2, !.quote = quote]
      BY <1>1, <2>2 DEF Quote!Quoted
    <3> DEFINE w == visit'[c]
    <3>2. /\ Shape(w) /\ w.pc = "service" /\ w.past = v.past /\ w.wants = v.wants
          /\ w.chosen = v.chosen /\ w.quote = quote /\ w.first = v.first /\ w.round = 2
      BY ZenonT(60), <1>1, <3>1 DEF Shape
    <3>3. quote.duration = Lasts(v.wants, v.chosen, t, tree)
      <4>1. Quote!BuildQuote(v.service, groups, options, v.chosen).ok
        BY <2>2
      <4>2. tree \in v.past
        BY <1>1
      <4> HIDE DEF v
      <4> QED BY <1>2, <4>1, <4>2, QuoteLasts
    <3>4. QuotedOnce(w) /\ ReadOnce(w, w.first)
      BY <1>1, <1>2, <3>2, <3>3 DEF QuotedOnce, ReadOnce, Remembers
    <3> QED BY <1>1, <3>2, <3>4 DEF Remembers, Active, Shape, ReadOnce, QuotedOnce
  <2>3. CASE quote.ok /\ v.round = 2 /\ ~(Quote!Occupied(quote, v.service) <= 0)
    <3>1. visit'[c] = [v EXCEPT !.pc = "insert",
          !.checked = Quote!Occupied(quote, v.service)]
      BY <1>1, <2>3 DEF Quote!Quoted
    <3> DEFINE w == visit'[c]
    <3>2. /\ Shape(w) /\ w.pc = "insert" /\ w.past = v.past /\ w.wants = v.wants
          /\ w.chosen = v.chosen /\ w.quote = v.quote /\ w.first = v.first
          /\ w.checked = Quote!Wrap(quote.duration + v.service.buffer)
      BY <1>1, <3>1 DEF Shape, Quote!Occupied
    <3>3. quote.duration = Lasts(v.wants, v.chosen, t, tree)
      <4>1. Quote!BuildQuote(v.service, groups, options, v.chosen).ok
        BY <2>3
      <4>2. tree \in v.past
        BY <1>1
      <4> HIDE DEF v
      <4> QED BY <1>2, <4>1, <4>2, QuoteLasts
    <3>4. QuotedOnce(w) /\ CheckedOnce(w) /\ ReadOnce(w, w.first)
      BY <1>1, <1>2, <2>3, <3>2, <3>3
         DEF QuotedOnce, CheckedOnce, ReadOnce, Remembers, Active
    <3> QED BY <1>1, <3>2, <3>4
               DEF Remembers, Active, Shape, ReadOnce, QuotedOnce, CheckedOnce
  <2> QED BY <1>1, <2>1, <2>2, <2>3 DEF Quote!Quoted
<1>6. \A x \in Customer \ {c} : Remembers(visit'[x], tree)
  BY <1>1, <1>3
     DEF AllRemember, Remembers, Active, Shape, ReadOnce, QuotedOnce, CheckedOnce
<1> QED BY <1>4, <1>5, <1>6 DEF AllRemember

\* When nobody edited the service or the options, both quotes are of the same length.
LEMMA LengthAsChecked ==
  ASSUME NEW v, QuotedOnce(v), CheckedOnce(v), ReadOnce(v, v.first),
         \A t, u \in v.past : ~ EditedFor(v.wants, v.chosen, t, u)
  PROVE  Quote!Wrap(v.quote.duration + v.first.buffer) = v.checked
<1>1. PICK r \in v.past : v.first = r.service[v.wants]
  BY DEF ReadOnce
<1>2. PICK t \in v.past, u \in v.past : v.quote.duration = Lasts(v.wants, v.chosen, t, u)
  BY DEF QuotedOnce
<1>3. PICK x \in v.past, y \in v.past :
        v.checked = Quote!Wrap(Lasts(v.wants, v.chosen, x, y) + x.service[v.wants].buffer)
  BY DEF CheckedOnce
<1>4. /\ t.service[v.wants] = x.service[v.wants]
         /\ r.service[v.wants] = x.service[v.wants]
      /\ \A i \in DOMAIN v.chosen : u.option[v.chosen[i]] = y.option[v.chosen[i]]
  BY DEF EditedFor
<1>5. [ i \in DOMAIN v.chosen |-> u.option[v.chosen[i]].duration ]
        = [ i \in DOMAIN v.chosen |-> y.option[v.chosen[i]].duration ]
  BY <1>4
<1>6. Lasts(v.wants, v.chosen, t, u) = Lasts(v.wants, v.chosen, x, y)
  BY <1>4, <1>5 DEF Lasts
<1> QED BY <1>1, <1>2, <1>3, <1>4, <1>6

LEMMA ReserveRemembers ==
  ASSUME AllRemember, NEW c \in Customer, Quote!Reserve(c)
  PROVE  AllRemember'
<1> DEFINE v == visit[c]
           w == visit'[c]
<1>1. /\ Remembers(v, tree) /\ Shape(v) /\ visit = [x \in Customer |-> visit[x]]
      /\ \A x \in Customer : Remembers(visit[x], tree)
  BY DEF AllRemember, Remembers
<1>2. tree' = tree
  BY DEF Quote!Reserve, Quote!Visit, Quote!ReadService, Quote!ReadGroups,
         Quote!ReadOptions, Quote!Insert
<1>3. ASSUME NEW new, visit' = [visit EXCEPT ![c] = new], Remembers(new, tree)
      PROVE  AllRemember'
  <2>1. visit' = [x \in Customer |-> visit'[x]] /\ visit'[c] = new
        /\ \A x \in Customer \ {c} : visit'[x] = visit[x]
    BY <1>1, <1>3
  <2> QED BY <1>1, <1>2, <1>3, <2>1 DEF AllRemember
<1>4. ASSUME NEW label \in {"not_found", "refused", "failed"}, Quote!Goto(c, label)
      PROVE  AllRemember'
  <2>4. PICK new : new = [v EXCEPT !.pc = label]
    OBVIOUS
  <2>1. visit' = [visit EXCEPT ![c] = new]
    BY <1>1, <1>4, <2>4 DEF Quote!Goto
  <2>2. Shape(new) /\ new.pc = label
    BY <1>1, <2>4 DEF Shape
  <2>3. Remembers(new, tree)
    BY <2>2 DEF Remembers, Active
  <2> QED BY <1>3, <2>1, <2>3
<1>5. CASE \E s \in Service, chosen \in Selections : Quote!Visit(c, s, chosen)
  <2>1. PICK s \in Service, chosen \in Selections : Quote!Visit(c, s, chosen)
    BY <1>5
  <2>5. PICK new : new = [Quote!NoVisit EXCEPT !.pc = "service", !.wants = s,
        !.chosen = chosen,
                                         !.past = {tree}]
    OBVIOUS
  <2>2. visit' = [visit EXCEPT ![c] = new]
    BY <2>1, <2>5 DEF Quote!Visit
  <2>3. Shape(new) /\ new.pc = "service" /\ new.round = 1 /\ tree \in new.past
    BY <2>5 DEF Shape, Quote!NoVisit
  <2>4. Remembers(new, tree)
    BY <2>3 DEF Remembers, Active
  <2> QED BY <1>3, <2>2, <2>4
<1>6. CASE Quote!ReadService(c)
  <2> DEFINE own == tree.service[v.wants]
  <2>1. CASE own = None
    BY <1>4, <1>6, <2>1 DEF Quote!ReadService
  <2>2. CASE own # None
    <3>7. PICK new : new = [v EXCEPT !.pc = "groups", !.service = own,
                                     !.first = IF v.round = 1 THEN own ELSE v.first]
      OBVIOUS
    <3>1. visit' = [visit EXCEPT ![c] = new] /\ v.pc = "service"
      BY <1>1, <1>6, <2>2, <3>7 DEF Quote!ReadService
    <3>2. /\ Shape(new) /\ new.pc = "groups" /\ new.service = own /\ new.round = v.round
          /\ new.past = v.past /\ new.wants = v.wants /\ new.chosen = v.chosen
          /\ new.quote = v.quote /\ new.first = IF v.round = 1 THEN own ELSE v.first
      BY <1>1, <3>7 DEF Shape
    <3>3. tree \in v.past /\ v.round \in {1, 2}
      BY <1>1, <3>1 DEF Remembers, Active
    <3>4. ReadOnce(new, new.service) /\ ReadOnce(new, new.first)
      BY <1>1, <3>1, <3>2, <3>3 DEF ReadOnce, Remembers, Active
    <3>5. new.round = 2 => QuotedOnce(new)
      BY <1>1, <3>1, <3>2 DEF QuotedOnce, Remembers, Active
    <3>6. Remembers(new, tree)
      BY <3>2, <3>3, <3>4, <3>5 DEF Remembers, Active
    <3> QED BY <1>3, <3>1, <3>6
  <2> QED BY <2>1, <2>2
<1>7. CASE Quote!ReadGroups(c)
  <2> DEFINE groups == Quote!GroupsOf(v.wants)
  <2>1. v.pc = "groups"
    BY <1>7 DEF Quote!ReadGroups
  <2>2. CASE DOMAIN groups = {}
    <3>1. Quote!Quoted(c, groups, Quote!NoOptions)
      BY <1>7, <2>2 DEF Quote!ReadGroups
    <3>2. \A o \in DOMAIN Quote!NoOptions : Quote!NoOptions[o] = tree.option[o]
      BY DEF Quote!NoOptions
    <3> HIDE DEF groups
    <3> QED BY <1>2, <2>1, <3>1, <3>2, QuotedRemembers
  <2>3. CASE DOMAIN groups # {}
    <3>4. PICK new : new = [v EXCEPT !.pc = "options", !.groups = groups]
      OBVIOUS
    <3>1. visit' = [visit EXCEPT ![c] = new]
      BY <1>1, <1>7, <2>3, <3>4 DEF Quote!ReadGroups
    <3> HIDE DEF groups
    <3>2. /\ Shape(new) /\ new.pc = "options" /\ new.service = v.service
             /\ new.round = v.round
          /\ new.past = v.past /\ new.wants = v.wants /\ new.chosen = v.chosen
          /\ new.quote = v.quote /\ new.first = v.first
      BY <1>1, <3>4 DEF Shape
    <3>3. Remembers(new, tree)
      BY <1>1, <2>1, <3>2 DEF Remembers, Active, ReadOnce, QuotedOnce
    <3> QED BY <1>3, <3>1, <3>3
  <2> QED BY <2>2, <2>3
<1>8. CASE Quote!ReadOptions(c)
  <2>1. v.pc = "options" /\ Quote!Quoted(c, v.groups, Quote!OptionsOf(v.wants))
    BY <1>8 DEF Quote!ReadOptions
  <2>2. \A o \in DOMAIN Quote!OptionsOf(v.wants) : Quote!OptionsOf(v.wants)[o] = tree.option[o]
    BY DEF Quote!OptionsOf
  <2> QED BY <1>2, <2>1, <2>2, QuotedRemembers
<1>9. CASE Quote!Insert(c)
  <2>5. PICK new : new = [v EXCEPT !.pc = "booked", !.booked =
                            [ price |-> v.quote.price, duration |-> v.quote.duration,
                              length |-> Quote!Occupied(v.quote, v.first) ]]
    OBVIOUS
  <2>1. v.pc = "insert"
    BY <1>9 DEF Quote!Insert
  <2>2. CASE Quote!Goto(c, "failed")
    BY <1>4, <2>2
  <2>3. CASE visit' = [visit EXCEPT ![c] = new]
    <3>1. /\ Shape(new) /\ new.pc = "booked" /\ new.past = v.past /\ new.wants = v.wants
          /\ new.chosen = v.chosen /\ new.checked = v.checked
          /\ new.booked.length = Quote!Wrap(v.quote.duration + v.first.buffer)
      BY <1>1, <2>5 DEF Shape, Quote!Occupied
    <3>2. QuotedOnce(v) /\ CheckedOnce(v) /\ ReadOnce(v, v.first)
      BY <1>1, <2>1 DEF Remembers
    <3>3. \/ Quote!Wrap(v.quote.duration + v.first.buffer) = v.checked
          \/ \E t, u \in v.past : EditedFor(v.wants, v.chosen, t, u)
      BY <3>2, LengthAsChecked
    <3>4. Remembers(new, tree)
      BY <3>1, <3>3 DEF Remembers, Active
    <3> QED BY <1>3, <2>3, <3>4
  <2>4. visit' = [visit EXCEPT ![c].pc = "booked", ![c].booked =
            [ price |-> v.quote.price, duration |-> v.quote.duration,
              length |-> Quote!Occupied(v.quote, v.first) ]] =>
                 visit' = [visit EXCEPT ![c] = new]
    BY <1>1, <2>5
  <2> QED BY <1>9, <2>2, <2>3, <2>4 DEF Quote!Insert
<1> QED BY <1>5, <1>6, <1>7, <1>8, <1>9 DEF Quote!Reserve

\* An edit adds the new tables to what the reservations in progress remember.
LEMMA EditRemembered ==
  ASSUME TreeTyped, AllRemember, NEW e \in Editor, Quote!Edit(e)
  PROVE  AllRemember'
<1>1. CASE UNCHANGED <<tree, used, visit>>
  BY <1>1 DEF AllRemember, Remembers, Active, Shape, ReadOnce, QuotedOnce, CheckedOnce
<1>2. ASSUME NEW new, Quote!Wrote(e, new) PROVE AllRemember'
  <2>1. tree' = new /\ visit' = [c \in Customer |-> visit'[c]]
    BY <1>2 DEF Quote!Wrote, Quote!Remember
  <2>2. ASSUME NEW c \in Customer PROVE Remembers(visit'[c], new)
    <3> DEFINE v == visit[c]
               w == visit'[c]
    <3>1. Remembers(v, tree) /\ Shape(v)
      BY DEF AllRemember, Remembers
    <3>2. CASE v.pc \in {"idle", "booked"}
      <4>1. w = v
        BY <1>2, <3>2 DEF Quote!Wrote, Quote!Remember
      <4> QED BY <3>1, <3>2, <4>1
            DEF Remembers, Active, Shape, ReadOnce, QuotedOnce, CheckedOnce
    <3>3. CASE v.pc \notin {"idle", "booked"}
      <4>1. w = [v EXCEPT !.past = v.past \cup {new}]
        BY <1>2, <3>3 DEF Quote!Wrote, Quote!Remember
      <4>2. /\ Shape(w) /\ w.pc = v.pc /\ w.round = v.round /\ w.wants = v.wants
            /\ w.chosen = v.chosen /\ w.service = v.service /\ w.first = v.first
            /\ w.quote = v.quote /\ w.checked = v.checked /\ w.past = v.past \cup {new}
        BY <3>1, <4>1 DEF Shape
      <4>3. /\ ReadOnce(v, v.service) => ReadOnce(w, w.service)
            /\ ReadOnce(v, v.first) => ReadOnce(w, w.first)
            /\ QuotedOnce(v) => QuotedOnce(w)
            /\ CheckedOnce(v) => CheckedOnce(w)
        BY <4>2 DEF ReadOnce, QuotedOnce, CheckedOnce
      <4>4. new \in w.past
        BY <4>2
      <4> HIDE DEF w
      <4>5. Remembers(w, new)
        BY <3>1, <3>3, <4>2, <4>3, <4>4 DEF Remembers, Active
      <4> QED BY <4>5 DEF w
    <3> QED BY <3>2, <3>3
  <2> QED BY <2>1, <2>2 DEF AllRemember
<1> QED BY <1>1, <1>2, EditEffect

-----------------------------------------------------------------------------
(* The theorems about the trees.                                           *)

QuoteInv == TreeTyped /\ Quote!NoOrphans /\ AllAsserted /\ Quote!PatchesSurvive
   /\ AllRemember

LEMMA InitQuoteInv == Quote!QuoteAssumption /\ Quote!Init => QuoteInv
<1> SUFFICES ASSUME Quote!QuoteAssumption, Quote!Init PROVE QuoteInv
  OBVIOUS
<1>1. TreeTyped
  BY InitTreeTyped
<1>2. Quote!NoOrphans
  BY DEF Quote!Init, Quote!QuoteAssumption, Quote!NoOrphans
<1>3. \A e \in Editor : edit[e].pc = "idle" /\ edit[e].answer = None
  BY DEF Quote!Init, Quote!NoEdit
<1>4. None # "ok"
  BY <1>3 DEF Quote!Init, Quote!NoEdit, Quote!QuoteAssumption
<1>5. AllAsserted /\ Quote!PatchesSurvive
  BY <1>3, <1>4 DEF AllAsserted, Asserted, Quote!PatchesSurvive
<1>6. Shape(Quote!NoVisit) /\ Quote!NoVisit.pc = "idle"
  BY DEF Quote!NoVisit, Shape
<1>7. Remembers(Quote!NoVisit, tree)
  BY <1>6 DEF Remembers, Active
<1>8. AllRemember
  BY <1>7 DEF Quote!Init, AllRemember
<1> QED BY <1>1, <1>2, <1>5, <1>8 DEF QuoteInv

LEMMA NextQuoteInv == QuoteInv /\ [Quote!Next]_(Quote!vars) => QuoteInv'
<1> SUFFICES ASSUME QuoteInv, [Quote!Next]_(Quote!vars) PROVE QuoteInv'
  OBVIOUS
<1>1. TreeTyped'
  BY TreeTypedKept DEF QuoteInv
<1>2. ASSUME NEW e \in Editor, Quote!Edit(e) PROVE QuoteInv'
  <2>1. Quote!NoOrphans'
    <3>1. CASE UNCHANGED <<tree, used, visit>>
      BY <3>1 DEF QuoteInv, Quote!NoOrphans, Quote!Referenced
    <3>2. ASSUME NEW new, edit[e].pc = "write", TreeWritten(edit[e].ask, new),
                 Quote!Wrote(e, new)
          PROVE  Quote!NoOrphans'
      <4>1. edit[e].ask \in TreeAsks
        BY <3>2 DEF QuoteInv, TreeTyped
      <4>2. Quote!Referenced(new)
        BY <3>2, <4>1, WrittenReferenced DEF QuoteInv, Quote!NoOrphans
      <4>3. tree' = new
        BY <3>2 DEF Quote!Wrote
      <4> QED BY <4>2, <4>3 DEF Quote!NoOrphans
    <3> QED BY <1>2, <3>1, <3>2, EditEffect DEF QuoteInv
  <2>2. AllAsserted'
    BY <1>2, AssertedKept DEF QuoteInv, AllAsserted
  <2>3. Quote!PatchesSurvive' /\ AllRemember'
    BY <1>2, PatchesSurviveKept, EditRemembered DEF QuoteInv
  <2> QED BY <1>1, <2>1, <2>2, <2>3 DEF QuoteInv
<1>3. ASSUME UNCHANGED <<tree, used, edit>>
      PROVE  Quote!NoOrphans' /\ AllAsserted' /\ Quote!PatchesSurvive'
  BY <1>3 DEF QuoteInv, Quote!NoOrphans, AllAsserted, Asserted, Quote!PatchesSurvive
<1>4. ASSUME NEW c \in Customer, Quote!Reserve(c) PROVE QuoteInv'
  <2>1. UNCHANGED <<tree, used, edit>>
    BY <1>4
       DEF Quote!Reserve, Quote!Visit, Quote!ReadService, Quote!ReadGroups,
           Quote!ReadOptions, Quote!Insert
  <2>2. AllRemember'
    BY <1>4, ReserveRemembers DEF QuoteInv
  <2> QED BY <1>1, <1>3, <2>1, <2>2 DEF QuoteInv
<1>5. CASE UNCHANGED Quote!vars
  <2>1. AllRemember'
    BY <1>5 DEF QuoteInv, AllRemember, Quote!vars
  <2> QED BY <1>1, <1>3, <1>5, <2>1 DEF QuoteInv, Quote!vars
<1> QED BY <1>2, <1>4, <1>5 DEF Quote!Next

\* Every state has the invariant.
LEMMA QuoteInvAlways == Quote!QuoteAssumption /\ Quote!Spec => []QuoteInv
<1>1. Quote!QuoteAssumption /\ Quote!Init => QuoteInv
  BY InitQuoteInv
<1>2. QuoteInv /\ [Quote!Next]_(Quote!vars) => QuoteInv'
  BY NextQuoteInv
<1> QED BY <1>1, <1>2, PTL DEF Quote!Spec

\* However the editors' statements interleave, every option has its group and every
\* group its service: DeleteService and DeleteOptionGroup take what hangs from the row
\* with them, and a row is created under one that is there.
THEOREM OrphanFree == Quote!QuoteAssumption /\ Quote!Spec => []Quote!NoOrphans
<1>1. QuoteInv => Quote!NoOrphans
  BY DEF QuoteInv
<1> QED BY <1>1, QuoteInvAlways, PTL

\* Whatever ids a request of one provider carries, its write changes no service, group
\* or option of another provider, although the ownership was checked by statements
\* before it (assertServiceOwned, assertGroupOwned).
THEOREM OnlyOwnTree ==
  Quote!QuoteAssumption /\ Quote!Spec => [][Quote!OwnTreeOnly]_(Quote!vars)
<1>1. QuoteInv /\ [Quote!Next]_(Quote!vars) => [Quote!OwnTreeOnly]_(Quote!vars)
  BY OwnTreeStep DEF QuoteInv
<1> QED BY <1>1, QuoteInvAlways, PTL DEF Quote!Spec

\* Concurrent updates of different fields of a service all stay in effect: the UPDATE
\* changes the fields that were sent, of the row as it is then.
THEOREM NoPatchLost == Quote!QuoteAssumption /\ Quote!Spec => []Quote!PatchesSurvive
<1>1. QuoteInv => Quote!PatchesSurvive
  BY DEF QuoteInv
<1> QED BY <1>1, QuoteInvAlways, PTL

\* A booking is as long as the slot that was found free for it, unless the service or a
\* chosen option was edited while it was made: the two quotes of one reservation agree.
THEOREM AsLongAsChecked ==
  Quote!QuoteAssumption /\ Quote!Spec => []Quote!BookedAsCheckedUnlessEdited
<1>1. QuoteInv => Quote!BookedAsCheckedUnlessEdited
  BY DEF QuoteInv, AllRemember, Remembers, EditedFor, Quote!BookedAsCheckedUnlessEdited
<1> QED BY <1>1, QuoteInvAlways, PTL

-----------------------------------------------------------------------------
(* The pictures: type correctness.                                         *)

MediaRequests ==
  [ pc : Media!Label, ask : MediaAsks \cup {None}, image : Image \cup {None}, sort : Int,
    previous : Image \cup {None}, known : SUBSET Image, stale : BOOLEAN,
    answer : Media!Code \cup {None} ]

\* A request does what it was asked, and has saved what it writes or cleans up; the
\* keys it holds have been generated.
Occupied(q) ==
  LET x == upload[q] IN
  /\ x.pc # "idle" => x.ask \in MediaAsks
  /\ x.pc \in {"owned", "count", "sort", "insert"} => x.ask.op = "upload"
  /\ x.pc = "save" => x.ask.op \in {"upload", "set_logo"}
  /\ x.pc \in {"previous", "write"} => x.ask.op \in {"set_logo", "clear_logo"}
  /\ x.pc \in {"update", "delete"} => x.ask.image \in Image
  /\ x.pc = "delete_service" => x.ask.op = "delete_service"
  /\ x.pc \in {"idle", "owned", "count", "previous"} => x.image = None
  /\ x.pc \in {"sort", "insert", "cleanup"} => x.image # None
  /\ x.pc = "discard" => x.previous # None
  /\ {x.image, x.previous} \subseteq keys \cup {None}
  /\ x.known \subseteq keys

MediaTyped ==
  /\ Media!MediaAssumption
  /\ offered \subseteq Service
  /\ row \in [Image -> Media!Row \cup {None}]
  /\ logo \in keys \cup {None}
  /\ file \subseteq keys /\ keys \subseteq Image
  /\ \A m \in Image : row[m] # None => m \in keys
  /\ IsFiniteSet({ m \in Image : row[m] # None })
  /\ clock \in Nat /\ faults \in 0..MaxFaults /\ lost \in 0..MaxLost
  /\ upload \in [Sender -> MediaRequests]
  /\ \A q \in Sender : Occupied(q)

\* Media's own names of what FiniteSets defines stand for the same.
LEMMA SameFinite == \A S : Media!IsFiniteSet(S) <=> IsFiniteSet(S)
BY DEF Media!IsFiniteSet, IsFiniteSet

LEMMA SameCount == \A S : Media!Cardinality(S) = Cardinality(S)
BY DEF Media!Cardinality, Cardinality, Media!IsFiniteSet, IsFiniteSet

LEMMA InitMediaTyped == Media!MediaAssumption /\ Media!Init => MediaTyped
<1> SUFFICES ASSUME Media!MediaAssumption, Media!Init PROVE MediaTyped
  OBVIOUS
<1>1. row \in [Image -> Media!Row \cup {None}]
      /\ IsFiniteSet({ m \in Image : row[m] # None })
  BY SameFinite DEF Media!Init, Media!MediaAssumption
<1>2. clock \in Nat
  BY <1>1, SameCount, FS_CardinalityType DEF Media!Init
<1>3. upload \in [Sender -> MediaRequests] /\ \A q \in Sender : Occupied(q)
  BY DEF Media!Init, Media!NoRequest, MediaRequests, Occupied, Media!Label
<1> QED BY <1>1, <1>2, <1>3 DEF Media!Init, MediaTyped, Media!MediaAssumption

\* A set of naturals that is not empty has a least member.
LEMMA LeastNat ==
  ASSUME NEW T \in SUBSET Nat, T # {}
  PROVE  \E n \in T : \A k \in T : n <= k
<1>1. \E n \in T : \A k \in T : ~(<<k, n>> \in OpToRel(<, Nat))
  BY NatLessThanWellFounded, WFMin
<1>2. ASSUME NEW k \in Nat, NEW n \in Nat, k < n
      PROVE  <<k, n>> \in OpToRel(<, Nat)
  BY <1>2 DEF OpToRel
<1>3. PICK n \in T : \A k \in T : ~(<<k, n>> \in OpToRel(<, Nat))
  BY <1>1
<1>4. ASSUME NEW k \in T PROVE n <= k
  <2>1. n \in Nat /\ k \in Nat /\ ~ (k < n)
    BY <1>2, <1>3
  <2> QED BY <2>1
<1> QED BY <1>4

\* A finite set of integers that is not empty has a greatest member.
LEMMA Greatest ==
  ASSUME NEW S \in SUBSET Int, IsFiniteSet(S), S # {}
  PROVE  \E x \in S : \A y \in S : y <= x
<1> DEFINE Topped(T) == \E x \in T : \A y \in T : y <= x
           Bad == { T \in SUBSET S : T # {} /\ ~ Topped(T) }
           Sizes == { Cardinality(T) : T \in Bad }
<1>1. \A T \in SUBSET S : IsFiniteSet(T) /\ Cardinality(T) \in Nat
  BY FS_Subset, FS_CardinalityType
<1>2. SUFFICES ASSUME Bad # {} PROVE FALSE
  OBVIOUS
<1>3. Sizes \in SUBSET Nat /\ Sizes # {}
  BY <1>1, <1>2
<1>4. PICK n \in Sizes : \A k \in Sizes : n <= k
  <2> HIDE DEF Sizes
  <2> QED BY <1>3, LeastNat
<1>5. PICK T \in Bad : n = Cardinality(T)
  OBVIOUS
<1>6. PICK x \in T : TRUE
  OBVIOUS
<1>7. IsFiniteSet(T) /\ T \in SUBSET S /\ T \ {x} \in SUBSET S
  BY <1>1
<1>8. Cardinality(T \ {x}) = Cardinality(T) - 1
  BY <1>6, <1>7, FS_RemoveElement
<1>9. T \ {x} \notin Bad
  <2>1. SUFFICES ASSUME T \ {x} \in Bad PROVE FALSE
    OBVIOUS
  <2>2. Cardinality(T \ {x}) \in Sizes
    BY <2>1
  <2>3. Cardinality(T) \in Nat
    BY <1>1, <1>7
  <2> HIDE DEF Sizes
  <2> QED BY <2>2, <2>3, <1>4, <1>5, <1>8
<1>10. T \ {x} # {}
  <2>1. SUFFICES ASSUME T = {x} PROVE FALSE
    BY <1>6
  <2> QED BY <2>1, <1>7
<1>11. PICK z \in T \ {x} : \A y \in T \ {x} : y <= z
  BY <1>7, <1>9, <1>10
<1>12. x \in Int /\ z \in Int /\ \A y \in T : y \in Int
  BY <1>7
<1>13. CASE x <= z
  BY <1>11, <1>12, <1>13
<1>14. CASE z <= x
  <2>1. \A y \in T : y <= x
    BY <1>11, <1>12, <1>14
  <2> QED BY <2>1
<1> QED BY <1>12, <1>13, <1>14

\* The greatest sort order of a gallery is that of one of its rows.
LEMMA NextSort ==
  ASSUME MediaTyped, NEW s \in Service
  PROVE  /\ Media!NextSortOrder(s) \in Int
         /\ \A m \in Media!Rows(s) : row[m].sort < Media!NextSortOrder(s)
<1> DEFINE sorts == { row[m].sort : m \in Media!Rows(s) }
<1>1. Media!Rows(s) \subseteq { m \in Image : row[m] # None }
  BY DEF Media!Rows
<1>2. IsFiniteSet(Media!Rows(s))
  BY <1>1, FS_Subset DEF MediaTyped
<1>3. \A m \in Media!Rows(s) : row[m].sort \in Int
  BY DEF Media!Rows, MediaTyped, Media!Row
<1>4. IsFiniteSet(sorts)
  <2> DEFINE f == [m \in Media!Rows(s) |-> row[m].sort]
  <2>1. f \in Surjection(Media!Rows(s), sorts)
    BY DEF Surjection
  <2> HIDE DEF sorts, f
  <2> QED BY <1>2, <2>1, FS_Surjection
<1>5. CASE Media!Rows(s) # {}
  <2>1. \E x \in sorts : \A y \in sorts : y <= x
    <3>1. sorts \in SUBSET Int /\ sorts # {}
      BY <1>3, <1>5
    <3> HIDE DEF sorts
    <3> QED BY <3>1, <1>4, Greatest
  <2>2. \E n \in sorts : \A m \in Media!Rows(s) : row[m].sort <= n
    BY <2>1
  <2> DEFINE top == CHOOSE n \in sorts : \A m \in Media!Rows(s) : row[m].sort <= n
  <2>3. top \in sorts /\ \A m \in Media!Rows(s) : row[m].sort <= top
    BY <2>2
  <2>4. Media!NextSortOrder(s) = 1 + top
    BY <1>5 DEF Media!NextSortOrder
  <2> HIDE DEF top
  <2>5. top \in Int
    BY <1>3, <2>3
  <2> QED BY <1>3, <2>3, <2>4, <2>5
<1>6. CASE Media!Rows(s) = {}
  BY <1>6 DEF Media!NextSortOrder
<1> QED BY <1>5, <1>6

\* A step changes the request it is of, and of the others no more than `stale'.
LEMMA OthersGoOn ==
  ASSUME MediaTyped, NEW q \in Sender, Media!Step(q)
  PROVE  \A p \in Sender \ {q} :
           /\ upload'[p] = [upload[p] EXCEPT !.stale = upload'[p].stale]
           /\ upload'[p].stale \in BOOLEAN
           /\ upload[p].stale => upload'[p].stale
<1> SUFFICES ASSUME NEW p \in Sender \ {q}
    PROVE  /\ upload'[p] = [upload[p] EXCEPT !.stale = upload'[p].stale]
           /\ upload'[p].stale \in BOOLEAN
           /\ upload[p].stale => upload'[p].stale
  OBVIOUS
<1>1. upload[p] \in MediaRequests
  BY DEF MediaTyped
<1>2. CASE upload'[p] = upload[p]
  BY <1>1, <1>2 DEF MediaRequests
<1>3. CASE upload'[p] = [upload[p] EXCEPT !.stale = @ \/ Media!Counted(p)]
  BY <1>1, <1>3 DEF MediaRequests, Media!Counted
<1>4. \/ upload'[p] = upload[p]
      \/ upload'[p] = [upload[p] EXCEPT !.stale = @ \/ Media!Counted(p)]
  BY DEF MediaTyped, Media!Step, Media!Arrive, Media!ServiceExistsForProvider,
         Media!CountServiceMedia, Media!Save, Media!NextServiceMediaSortOrder,
         Media!CreateServiceMedia, Media!CleanUp, Media!UpdateServiceMedia,
         Media!DeleteServiceMedia, Media!DeleteService, Media!CurrentBranding,
         Media!WriteBranding, Media!Discard, Media!Fault, Media!AnswerLost,
         Media!AfterFailure, Media!AfterInsert, Media!Answer, Media!Goto
<1> QED BY <1>2, <1>3, <1>4

\* What is left to show of a step: the request it is of, and the tables.
LEMMA StepTyped ==
  ASSUME MediaTyped, NEW q \in Sender, Media!Step(q),
         DOMAIN upload' = Sender, upload' = [p \in Sender |-> upload'[p]],
         upload'[q] \in MediaRequests, Occupied(q)',
         offered' \subseteq Service, row' \in [Image -> Media!Row \cup {None}],
         logo' \in keys' \cup {None}, file' \subseteq keys', keys \subseteq keys',
         keys' \subseteq Image, \A m \in Image : row'[m] # None => m \in keys',
         IsFiniteSet({ m \in Image : row'[m] # None }),
         clock' \in Nat, faults' \in 0..MaxFaults, lost' \in 0..MaxLost
  PROVE  MediaTyped'
<1>1. ASSUME NEW p \in Sender \ {q} PROVE upload'[p] \in MediaRequests /\ Occupied(p)'
  <2>1. upload[p] \in MediaRequests /\ Occupied(p)
    BY DEF MediaTyped
  <2>2. /\ upload'[p] = [upload[p] EXCEPT !.stale = upload'[p].stale]
        /\ upload'[p].stale \in BOOLEAN
    BY OthersGoOn
  <2> QED BY <2>1, <2>2 DEF MediaRequests, Occupied
<1>2. upload' \in [Sender -> MediaRequests]
  BY <1>1
<1> QED BY <1>1, <1>2 DEF MediaTyped, Media!MediaAssumption

LEMMA AnswerTyped ==
  ASSUME MediaTyped, NEW q \in Sender, upload[q].pc # "idle",
         NEW code \in Media!Code \cup {None}, Media!Answer(q, code), keys \subseteq keys'
  PROVE  /\ upload' = [p \in Sender |-> upload'[p]] /\ DOMAIN upload' = Sender
         /\ upload'[q] \in MediaRequests /\ Occupied(q)'
<1>1. upload[q] \in MediaRequests /\ Occupied(q)
  BY DEF MediaTyped
<1>2. upload'[q] = [upload[q] EXCEPT !.pc = "done", !.answer = code]
  BY DEF MediaTyped, Media!Answer
<1>3. upload'[q] \in MediaRequests
  BY <1>1, <1>2 DEF MediaRequests, Media!Label
<1>4. Occupied(q)'
  BY <1>1, <1>2 DEF MediaRequests, Occupied
<1> QED BY <1>3, <1>4 DEF MediaTyped, Media!Answer

LEMMA GotoTyped ==
  ASSUME MediaTyped, NEW q \in Sender, upload[q].pc # "idle",
         NEW label \in {"count", "save", "cleanup", "discard"}, Media!Goto(q, label),
         keys \subseteq keys',
         label \in {"count", "save"} => upload[q].ask.op = "upload",
         label = "count" => upload[q].image = None,
         label = "cleanup" => upload[q].image # None,
         label = "discard" => upload[q].previous # None
  PROVE  /\ upload' = [p \in Sender |-> upload'[p]] /\ DOMAIN upload' = Sender
         /\ upload'[q] \in MediaRequests /\ Occupied(q)'
<1>1. upload[q] \in MediaRequests /\ Occupied(q)
  BY DEF MediaTyped
<1>2. upload'[q] = [upload[q] EXCEPT !.pc = label]
  BY DEF MediaTyped, Media!Goto
<1>3. upload'[q] \in MediaRequests
  BY <1>1, <1>2 DEF MediaRequests, Media!Label
<1>4. Occupied(q)'
  BY <1>1, <1>2 DEF MediaRequests, Occupied
<1> QED BY <1>3, <1>4 DEF MediaTyped, Media!Goto

\* The row that an upload inserts.
LEMMA InsertTyped ==
  ASSUME MediaTyped, NEW q \in Sender, upload[q].pc = "insert", Media!Insert(q)
  PROVE  LET i == upload[q].image
             new == [ service |-> upload[q].ask.service, sort |-> upload[q].sort,
                      created |-> clock, after |-> upload[q].known, moved |-> FALSE ]
         IN  /\ i \in keys /\ i # None /\ new \in Media!Row
             /\ row' = [row EXCEPT ![i] = new]
             /\ row' \in [Image -> Media!Row \cup {None}] /\ clock' \in Nat
             /\ \A m \in Image : row'[m] # None => m \in keys
             /\ IsFiniteSet({ m \in Image : row'[m] # None })
<1> DEFINE i == upload[q].image
           new == [ service |-> upload[q].ask.service, sort |-> upload[q].sort,
                    created |-> clock, after |-> upload[q].known, moved |-> FALSE ]
<1>1. upload[q] \in MediaRequests /\ Occupied(q)
  BY DEF MediaTyped
<1>2. i \in keys /\ i # None /\ i \in Image
  BY <1>1 DEF Occupied, MediaTyped
<1>3. upload[q].ask \in Media!Ask
  BY <1>1 DEF Occupied, MediaTyped, Media!MediaAssumption
<1>4. new \in Media!Row
  BY <1>1, <1>3 DEF MediaRequests, Media!Ask, Media!Row, MediaTyped
<1>5. row' = [row EXCEPT ![i] = new] /\ clock' = clock + 1
  BY DEF Media!Insert
<1>6. new # None
  BY <1>4 DEF MediaTyped, Media!MediaAssumption
<1>7. { m \in Image : row'[m] # None } = { m \in Image : row[m] # None } \cup {i}
  BY <1>2, <1>5, <1>6 DEF MediaTyped
<1>8. IsFiniteSet({ m \in Image : row[m] # None })
  BY DEF MediaTyped
<1>9. IsFiniteSet({ m \in Image : row'[m] # None })
  BY SMTT(30), <1>7, <1>8, FS_AddElement
<1> QED BY <1>2, <1>4, <1>5, <1>9 DEF MediaTyped

LEMMA UploadTyped ==
  ASSUME MediaTyped, NEW q \in Sender,
         Media!Arrive(q) \/ Media!ServiceExistsForProvider(q)
            \/ Media!CountServiceMedia(q) \/ Media!Save(q)
           \/ Media!NextServiceMediaSortOrder(q)
  PROVE  MediaTyped'
<1>0. Media!Step(q)
  BY DEF Media!Step
<1>1. upload[q] \in MediaRequests /\ Occupied(q)
  BY DEF MediaTyped
<1>2. CASE Media!Arrive(q)
  <2>1. PICK ask \in MediaAsks :
          upload' = [upload EXCEPT ![q] = [upload[q] EXCEPT
            !.ask = ask, !.pc = Media!First(ask.op), !.known = Media!Rows(ask.service)]]
    BY <1>2 DEF Media!Arrive, MediaTyped
  <2>2. ask \in Media!Ask /\ (ask.op \in {"update", "delete"} => ask.image \in Image)
    BY DEF MediaTyped, Media!MediaAssumption
  <2>3. Media!First(ask.op) \in {"owned", "previous", "update", "delete",
        "delete_service"}
    BY <2>2 DEF Media!First, Media!Ask
  <2>4. Media!Rows(ask.service) \subseteq keys
    BY DEF Media!Rows, MediaTyped
  <2>5. upload'[q] \in MediaRequests
    BY <1>1, <2>1, <2>3, <2>4 DEF MediaRequests, Media!Label, MediaTyped
  <2>6. Occupied(q)'
    BY ZenonT(60), <1>1, <1>2, <2>1, <2>2, <2>3, <2>4
       DEF MediaRequests, Occupied, Media!First, Media!Arrive, Media!Ask, MediaTyped
  <2> QED BY <1>2, <2>1, <2>5, <2>6, StepTyped, <1>0
             DEF Media!Arrive, MediaTyped, Media!budget
<1>3. CASE Media!ServiceExistsForProvider(q)
  <2>1. Media!Goto(q, "count") \/ Media!Answer(q, "NOT_FOUND")
    BY <1>3 DEF Media!ServiceExistsForProvider
  <2>2. upload[q].pc = "owned" /\ upload[q].ask.op = "upload" /\ upload[q].image = None
    BY <1>1, <1>3 DEF Media!ServiceExistsForProvider, Occupied
  <2>3. /\ upload' = [p \in Sender |-> upload'[p]] /\ DOMAIN upload' = Sender
        /\ upload'[q] \in MediaRequests /\ Occupied(q)'
    BY <1>3, <2>1, <2>2, GotoTyped, AnswerTyped
       DEF Media!Code, Media!ServiceExistsForProvider
  <2> QED BY <1>3, <2>3, StepTyped, <1>0
             DEF Media!ServiceExistsForProvider, MediaTyped, Media!budget
<1>4. CASE Media!CountServiceMedia(q)
  <2>1. Media!Goto(q, "save") \/ Media!Answer(q, "CONFLICT")
        \/ Media!Answer(q, "VALIDATION")
    BY <1>4 DEF Media!CountServiceMedia
  <2>2. upload[q].pc = "count" /\ upload[q].ask.op = "upload"
    BY <1>1, <1>4 DEF Media!CountServiceMedia, Occupied
  <2>3. /\ upload' = [p \in Sender |-> upload'[p]] /\ DOMAIN upload' = Sender
        /\ upload'[q] \in MediaRequests /\ Occupied(q)'
    BY <1>4, <2>1, <2>2, GotoTyped, AnswerTyped DEF Media!Code, Media!CountServiceMedia
  <2> QED BY <1>4, <2>3, StepTyped, <1>0
             DEF Media!CountServiceMedia, MediaTyped, Media!budget
<1>5. CASE Media!Save(q)
  <2> DEFINE label == IF upload[q].ask.op = "upload" THEN "sort" ELSE "write"
  <2>1. PICK m \in Image \ keys :
          /\ keys' = keys \cup {m} /\ file' = file \cup {m}
          /\ upload' = [upload EXCEPT ![q] = [upload[q] EXCEPT !.image = m, !.pc = label]]
    BY <1>5 DEF Media!Save, MediaTyped
  <2>2. upload'[q] \in MediaRequests
    BY <1>1, <2>1 DEF MediaRequests, Media!Label, MediaTyped
  <2>3. m # None
    BY DEF MediaTyped, Media!MediaAssumption
  <2>4. Occupied(q)'
    BY ZenonT(60), <1>1, <1>5, <2>1, <2>3 DEF MediaRequests, Occupied, Media!Save, MediaTyped
  <2> QED BY <1>5, <2>1, <2>2, <2>4, StepTyped, <1>0
             DEF Media!Save, MediaTyped, Media!budget
<1>6. CASE Media!NextServiceMediaSortOrder(q)
  <2>1. upload' = [upload EXCEPT ![q] = [upload[q] EXCEPT !.pc = "insert",
                      !.sort = Media!NextSortOrder(upload[q].ask.service)]]
    BY <1>6 DEF Media!NextServiceMediaSortOrder, MediaTyped
  <2>2. upload[q].ask \in Media!Ask
    BY <1>1, <1>6
       DEF Media!NextServiceMediaSortOrder, Occupied, MediaTyped, Media!MediaAssumption
  <2>3. Media!NextSortOrder(upload[q].ask.service) \in Int
    BY <2>2, NextSort DEF Media!Ask
  <2>4. upload'[q] \in MediaRequests
    BY <1>1, <2>1, <2>3 DEF MediaRequests, Media!Label, MediaTyped
  <2>5. Occupied(q)'
    BY <1>1, <1>6, <2>1
       DEF MediaRequests, Occupied, Media!NextServiceMediaSortOrder, MediaTyped
  <2> QED BY <1>6, <2>1, <2>4, <2>5, StepTyped, <1>0
             DEF Media!NextServiceMediaSortOrder, MediaTyped, Media!budget
<1> QED BY <1>2, <1>3, <1>4, <1>5, <1>6

LEMMA InsertionTyped ==
  ASSUME MediaTyped, NEW q \in Sender,
         Media!CreateServiceMedia(q) \/ Media!AnswerLost(q)
  PROVE  MediaTyped'
<1>0. Media!Step(q)
  BY DEF Media!Step
<1>1. upload[q] \in MediaRequests /\ Occupied(q)
  BY DEF MediaTyped
<1>2. ASSUME NEW label \in {"done", "cleanup"}, NEW code \in {"OK", None},
             upload[q].pc = "insert", Media!Insert(q), Media!AfterInsert(q, label, code),
             UNCHANGED <<offered, logo, file, keys, faults>>, lost' \in 0..MaxLost
      PROVE  MediaTyped'
  <2>1. upload'[q] = [upload[q] EXCEPT !.pc = label, !.answer = code]
    BY <1>2 DEF Media!AfterInsert
  <2>2. upload'[q] \in MediaRequests
    BY <1>1, <1>2, <2>1 DEF MediaRequests, Media!Label, Media!Code
  <2>4. Occupied(q)'
    BY <1>1, <1>2, <2>1 DEF MediaRequests, Occupied
  <2>3. upload' = [p \in Sender |-> upload'[p]] /\ DOMAIN upload' = Sender
    BY <1>2 DEF Media!AfterInsert
  <2> QED BY <1>2, <2>2, <2>3, <2>4, InsertTyped, StepTyped, <1>0 DEF MediaTyped
<1>3. CASE Media!CreateServiceMedia(q) /\ upload[q].ask.service \in offered
  BY <1>3, <1>2 DEF Media!CreateServiceMedia, MediaTyped, Media!budget
<1>4. CASE Media!CreateServiceMedia(q) /\ upload[q].ask.service \notin offered
  <2>1. Media!Goto(q, "cleanup") /\ upload[q].pc = "insert" /\ upload[q].image # None
        /\ UNCHANGED <<offered, row, clock, logo, file, keys, faults, lost>>
    BY <1>1, <1>4 DEF Media!CreateServiceMedia, Occupied, Media!budget
  <2>2. /\ upload' = [p \in Sender |-> upload'[p]] /\ DOMAIN upload' = Sender
        /\ upload'[q] \in MediaRequests /\ Occupied(q)'
    BY <2>1, GotoTyped
  <2> QED BY <1>4, <2>1, <2>2, StepTyped, <1>0 DEF MediaTyped
<1>5. CASE Media!AnswerLost(q) /\ upload[q].pc = "insert"
  <2>1. lost' \in 0..MaxLost
    BY <1>5 DEF Media!AnswerLost, MediaTyped, Media!MediaAssumption
  <2> QED BY <1>2, <1>5, <2>1 DEF Media!AnswerLost
<1>6. CASE Media!AnswerLost(q) /\ upload[q].pc = "write"
  <2>1. lost' \in 0..MaxLost /\ logo' = upload[q].image /\ Media!AfterFailure(q)
        /\ UNCHANGED <<offered, row, clock, file, keys, faults>>
    BY <1>6 DEF Media!AnswerLost, MediaTyped, Media!MediaAssumption
  <2>2. (Media!Goto(q, "cleanup") /\ upload[q].image # None)
        \/ Media!Answer(q, "INTERNAL")
    BY <1>6, <2>1 DEF Media!AfterFailure
  <2>3. /\ upload' = [p \in Sender |-> upload'[p]] /\ DOMAIN upload' = Sender
        /\ upload'[q] \in MediaRequests /\ Occupied(q)'
    BY <1>6, <2>1, <2>2, GotoTyped, AnswerTyped DEF Media!Code
  <2>4. upload[q].image \in keys \cup {None}
    BY <1>1 DEF Occupied
  <2> QED BY <1>6, <2>1, <2>3, <2>4, StepTyped, <1>0 DEF MediaTyped
<1> QED BY <1>3, <1>4, <1>5, <1>6 DEF Media!AnswerLost

LEMMA OtherTyped ==
  ASSUME MediaTyped, NEW q \in Sender,
         Media!CleanUp(q) \/ Media!UpdateServiceMedia(q) \/ Media!DeleteServiceMedia(q)
            \/ Media!DeleteService(q)
  PROVE  MediaTyped'
<1>0. Media!Step(q)
  BY DEF Media!Step
<1>1. upload[q] \in MediaRequests /\ Occupied(q)
  BY DEF MediaTyped
<1>2. CASE Media!CleanUp(q)
  <2>1. /\ upload' = [p \in Sender |-> upload'[p]] /\ DOMAIN upload' = Sender
        /\ upload'[q] \in MediaRequests /\ Occupied(q)'
    BY <1>2, AnswerTyped DEF Media!Code, Media!CleanUp
  <2> QED BY <1>2, <2>1, StepTyped, <1>0 DEF Media!CleanUp, MediaTyped, Media!budget
<1>3. CASE Media!UpdateServiceMedia(q)
  <2> DEFINE m == upload[q].ask.image
  <2>1. Media!Answer(q, "OK") \/ Media!Answer(q, "NOT_FOUND")
    BY <1>3 DEF Media!UpdateServiceMedia
  <2>2. /\ upload' = [p \in Sender |-> upload'[p]] /\ DOMAIN upload' = Sender
        /\ upload'[q] \in MediaRequests /\ Occupied(q)'
    BY <1>3, <2>1, AnswerTyped DEF Media!Code, Media!UpdateServiceMedia
  <2>3. CASE UNCHANGED row
    BY <1>3, <2>2, <2>3, StepTyped, <1>0
       DEF Media!UpdateServiceMedia, MediaTyped, Media!budget
  <2>4. CASE row[m] # None
        /\ row' = [row EXCEPT ![m].sort = upload[q].ask.sort, ![m].moved = TRUE]
    <3>1. m \in Image /\ upload[q].ask \in Media!Ask
      BY <1>1, <1>3
         DEF Media!UpdateServiceMedia, Occupied, MediaTyped, Media!MediaAssumption
    <3>2. row[m] \in Media!Row
      BY <2>4, <3>1 DEF MediaTyped
    <3>3. row' = [row EXCEPT ![m] = [row[m] EXCEPT !.sort = upload[q].ask.sort,
          !.moved = TRUE]]
      BY <2>4, <3>1 DEF MediaTyped
    <3>4. [row[m] EXCEPT !.sort = upload[q].ask.sort, !.moved = TRUE] \in Media!Row
      BY <3>1, <3>2 DEF Media!Row, Media!Ask
    <3>5. row' \in [Image -> Media!Row \cup {None}]
      BY <3>3, <3>4 DEF MediaTyped
    <3>6. { x \in Image : row'[x] # None } = { x \in Image : row[x] # None }
      BY ZenonT(60), <2>4, <3>1, <3>3, <3>4 DEF MediaTyped, Media!MediaAssumption
    <3>7. \A x \in Image : row'[x] # None => x \in keys
      BY <3>6 DEF MediaTyped
    <3> QED BY <1>3, <2>2, <3>5, <3>6, <3>7, StepTyped, <1>0
               DEF Media!UpdateServiceMedia, MediaTyped, Media!budget
  <2> QED BY <1>3, <2>3, <2>4 DEF Media!UpdateServiceMedia
<1>4. CASE Media!DeleteServiceMedia(q)
  <2> DEFINE m == upload[q].ask.image
  <2>1. m \in Image
    BY <1>1, <1>4 DEF Media!DeleteServiceMedia, Occupied
  <2>2. CASE row[m] = None
    <3>1. Media!Answer(q, "NOT_FOUND")
      BY <1>4, <2>2 DEF Media!DeleteServiceMedia
    <3>2. /\ upload' = [p \in Sender |-> upload'[p]] /\ DOMAIN upload' = Sender
          /\ upload'[q] \in MediaRequests /\ Occupied(q)'
      BY <1>4, <3>1, AnswerTyped DEF Media!Code, Media!DeleteServiceMedia
    <3> QED BY <1>4, <2>2, <3>2, StepTyped, <1>0
               DEF Media!DeleteServiceMedia, MediaTyped, Media!budget
  <2>3. CASE row[m] # None
    <3>1. row' = [row EXCEPT ![m] = None]
          /\ upload' = [upload EXCEPT ![q] = [upload[q] EXCEPT !.pc = "discard",
             !.previous = m]]
      BY <1>4, <2>3 DEF Media!DeleteServiceMedia, MediaTyped
    <3>2. upload'[q] \in MediaRequests
      BY <1>1, <2>1, <3>1 DEF MediaRequests, Media!Label, MediaTyped
    <3>3. m \in keys /\ m # None
      BY <2>1, <2>3 DEF MediaTyped, Media!MediaAssumption
    <3>4. Occupied(q)'
      BY <1>1, <1>4, <3>1, <3>3 DEF MediaRequests, Occupied, Media!DeleteServiceMedia
    <3>5. row' \in [Image -> Media!Row \cup {None}] /\ \A x \in Image : row'[x] # None =>
          x \in keys
      BY <3>1 DEF MediaTyped
    <3>6. IsFiniteSet({ x \in Image : row'[x] # None })
      <4>1. { x \in Image : row'[x] # None } \subseteq { x \in Image : row[x] # None }
        BY <3>1 DEF MediaTyped
      <4> QED BY <4>1, FS_Subset DEF MediaTyped
    <3> QED BY <1>4, <3>1, <3>2, <3>4, <3>5, <3>6, StepTyped, <1>0
               DEF Media!DeleteServiceMedia, MediaTyped, Media!budget
  <2> QED BY <2>2, <2>3
<1>5. CASE Media!DeleteService(q)
  <2>1. Media!Answer(q, "OK") \/ Media!Answer(q, "NOT_FOUND")
    BY <1>5 DEF Media!DeleteService
  <2>2. /\ upload' = [p \in Sender |-> upload'[p]] /\ DOMAIN upload' = Sender
        /\ upload'[q] \in MediaRequests /\ Occupied(q)'
    BY <1>5, <2>1, AnswerTyped DEF Media!Code, Media!DeleteService
  <2>3. row' \in [Image -> Media!Row \cup {None}] /\ \A x \in Image : row'[x] # None =>
        row[x] # None
    BY <1>5 DEF Media!DeleteService, MediaTyped
  <2>4. IsFiniteSet({ x \in Image : row'[x] # None })
    BY <2>3, FS_Subset DEF MediaTyped
  <2> QED BY <1>5, <2>2, <2>3, <2>4, StepTyped, <1>0
             DEF Media!DeleteService, MediaTyped, Media!budget
<1> QED BY <1>2, <1>3, <1>4, <1>5

LEMMA LogoTyped ==
  ASSUME MediaTyped, NEW q \in Sender,
         Media!CurrentBranding(q) \/ Media!WriteBranding(q) \/ Media!Discard(q)
            \/ Media!Fault(q)
  PROVE  MediaTyped'
<1>0. Media!Step(q)
  BY DEF Media!Step
<1>1. upload[q] \in MediaRequests /\ Occupied(q)
  BY DEF MediaTyped
<1>2. CASE Media!CurrentBranding(q)
  <2> DEFINE label == IF upload[q].ask.op = "set_logo" THEN "save" ELSE "write"
  <2>1. CASE Media!Answer(q, "VALIDATION")
    <3>1. /\ upload' = [p \in Sender |-> upload'[p]] /\ DOMAIN upload' = Sender
          /\ upload'[q] \in MediaRequests /\ Occupied(q)'
      BY <1>2, <2>1, AnswerTyped DEF Media!Code, Media!CurrentBranding
    <3> QED BY <1>2, <3>1, StepTyped, <1>0
               DEF Media!CurrentBranding, MediaTyped, Media!budget
  <2>2. CASE upload' = [upload EXCEPT ![q] = [upload[q] EXCEPT !.previous = logo,
        !.pc = label]]
    <3>1. upload'[q] \in MediaRequests
      BY ZenonT(60), <1>1, <2>2 DEF MediaRequests, Media!Label, MediaTyped
    <3>2. Occupied(q)'
      BY <1>1, <1>2, <2>2 DEF MediaRequests, Occupied, Media!CurrentBranding, MediaTyped
    <3> QED BY <1>2, <2>2, <3>1, <3>2, StepTyped, <1>0
               DEF Media!CurrentBranding, MediaTyped, Media!budget
  <2> QED BY <1>2, <2>1, <2>2 DEF Media!CurrentBranding, MediaTyped
<1>3. CASE Media!WriteBranding(q)
  <2>1. (Media!Goto(q, "discard") /\ upload[q].previous # None) \/ Media!Answer(q, "OK")
    BY <1>3 DEF Media!WriteBranding
  <2>2. /\ upload' = [p \in Sender |-> upload'[p]] /\ DOMAIN upload' = Sender
        /\ upload'[q] \in MediaRequests /\ Occupied(q)'
    BY <1>3, <2>1, GotoTyped, AnswerTyped DEF Media!Code, Media!WriteBranding
  <2>3. upload[q].image \in keys \cup {None}
    BY <1>1 DEF Occupied
  <2> QED BY <1>3, <2>2, <2>3, StepTyped, <1>0
             DEF Media!WriteBranding, MediaTyped, Media!budget
<1>4. CASE Media!Discard(q)
  <2>1. /\ upload' = [p \in Sender |-> upload'[p]] /\ DOMAIN upload' = Sender
        /\ upload'[q] \in MediaRequests /\ Occupied(q)'
    BY <1>4, AnswerTyped DEF Media!Code, Media!Discard
  <2> QED BY <1>4, <2>1, StepTyped, <1>0 DEF Media!Discard, MediaTyped, Media!budget
<1>5. CASE Media!Fault(q)
  <2>1. \/ Media!Goto(q, "cleanup") /\ upload[q].image # None
        \/ Media!Answer(q, "OK") \/ Media!Answer(q, "INTERNAL")
    BY <1>1, <1>5 DEF Media!Fault, Media!AfterFailure, Occupied
  <2>2. /\ upload' = [p \in Sender |-> upload'[p]] /\ DOMAIN upload' = Sender
        /\ upload'[q] \in MediaRequests /\ Occupied(q)'
    BY <1>5, <2>1, GotoTyped, AnswerTyped DEF Media!Code, Media!Fault, Media!Busy
  <2>3. faults' \in 0..MaxFaults
    BY <1>5 DEF Media!Fault, MediaTyped, Media!MediaAssumption
  <2> QED BY <1>5, <2>2, <2>3, StepTyped, <1>0 DEF Media!Fault, MediaTyped
<1> QED BY <1>2, <1>3, <1>4, <1>5

LEMMA MediaTypedKept == MediaTyped /\ [Media!Next]_(Media!vars) => MediaTyped'
<1>1. ASSUME MediaTyped, UNCHANGED Media!vars PROVE MediaTyped'
  <2>1. \A q \in Sender : Occupied(q)'
    BY <1>1 DEF MediaTyped, Media!vars, Occupied
  <2> QED BY <1>1, <2>1 DEF MediaTyped, Media!vars, Media!MediaAssumption
<1>2. ASSUME MediaTyped, NEW q \in Sender, Media!Step(q) PROVE MediaTyped'
  BY <1>2, UploadTyped, InsertionTyped, OtherTyped, LogoTyped DEF Media!Step
<1> QED BY <1>1, <1>2 DEF Media!Next

-----------------------------------------------------------------------------
(* What the steps come down to, for the invariants that follow.            *)

\* The request goes on with what it holds.
Holds(q) ==
  /\ upload'[q].ask = upload[q].ask /\ upload'[q].image = upload[q].image
  /\ upload'[q].sort = upload[q].sort /\ upload'[q].previous = upload[q].previous
  /\ upload'[q].known = upload[q].known

\* A picture has been stored that no row and no column names yet.
Fresh(q) == upload[q].pc \in {"sort", "insert", "write"} /\ upload[q].image # None

\* And its count is as good as it was.
Keeps(q) == Holds(q) /\ upload'[q].stale = upload[q].stale

\* Nothing is written.
Quiet(q) ==
  /\ UNCHANGED <<row, logo, file, keys>> /\ Keeps(q)
  /\ upload[q].pc # "idle"
  /\ upload'[q].pc \in {"count", "save", "cleanup", "done"}
  /\ upload'[q].pc = "save" =>
       upload[q].pc = "count" /\ ~Media!Full(upload[q].ask.service)
  /\ upload'[q].pc = "cleanup" => Fresh(q)
  /\ \/ faults' # 0
     \/ upload[q].pc \in {"owned", "count", "update", "delete", "previous"}
     \/ upload[q].pc = "insert" /\ upload'[q].pc = "cleanup"

Arrived(q) ==
  /\ UNCHANGED <<row, logo, file, keys>>
  /\ \E ask \in MediaAsks :
       /\ upload[q].pc = "idle"
       /\ upload'[q] = [upload[q] EXCEPT !.ask = ask, !.pc = Media!First(ask.op),
                                           !.known = Media!Rows(ask.service)]

Saved(q) ==
  \E m \in Image \ keys :
    /\ keys' = keys \cup {m} /\ file' = file \cup {m} /\ UNCHANGED <<row, logo>>
    /\ upload[q].pc = "save"
    /\ upload'[q] = [upload[q] EXCEPT !.image = m,
         !.pc = IF upload[q].ask.op = "upload" THEN "sort" ELSE "write"]

Placed(q) ==
  /\ UNCHANGED <<row, logo, file, keys>>
  /\ upload[q].pc = "sort"
  /\ upload'[q] = [upload[q] EXCEPT !.pc = "insert",
                      !.sort = Media!NextSortOrder(upload[q].ask.service)]

Inserted(q) ==
  /\ upload[q].pc = "insert" /\ Media!Insert(q) /\ Keeps(q)
  /\ UNCHANGED <<logo, file, keys>>
  /\ upload'[q].pc = "done" \/ (upload'[q].pc = "cleanup" /\ lost' # 0)

CleanedUp(q) ==
  /\ upload[q].pc = "cleanup" /\ Keeps(q) /\ upload'[q].pc = "done"
  /\ file' = file \ {upload[q].image} /\ UNCHANGED <<row, logo, keys>>

Moved(q) ==
  LET m == upload[q].ask.image IN
  /\ upload[q].pc = "update" /\ Keeps(q) /\ upload'[q].pc = "done"
  /\ m \in Image /\ row[m] # None
  /\ row' = [row EXCEPT ![m] = [row[m] EXCEPT !.sort = upload[q].ask.sort,
     !.moved = TRUE]]
  /\ UNCHANGED <<logo, file, keys>>

Removed(q) ==
  LET m == upload[q].ask.image IN
  /\ upload[q].pc = "delete" /\ m \in Image /\ row[m] # None
  /\ row' = [row EXCEPT ![m] = None]
  /\ upload'[q] = [upload[q] EXCEPT !.pc = "discard", !.previous = m]
  /\ UNCHANGED <<logo, file, keys>>

ServiceRemoved(q) ==
  LET s == upload[q].ask.service IN
  /\ upload[q].pc = "delete_service" /\ Keeps(q) /\ upload'[q].pc = "done"
  /\ row' = [m \in Image |-> IF m \in Media!Rows(s) THEN None ELSE row[m]]
  /\ UNCHANGED <<logo, file, keys>>

LogoRead(q) ==
  /\ UNCHANGED <<row, logo, file, keys>>
  /\ upload[q].pc = "previous"
  /\ upload'[q] = [upload[q] EXCEPT !.previous = logo,
                      !.pc = IF upload[q].ask.op = "set_logo" THEN "save" ELSE "write"]

LogoWritten(q) ==
  /\ upload[q].pc = "write" /\ Keeps(q) /\ logo' = upload[q].image
  /\ \/ upload'[q].pc = "done"
     \/ upload'[q].pc = "discard" /\ upload[q].previous # None
     \/ upload'[q].pc = "cleanup" /\ upload[q].image # None /\ lost' # 0
  /\ UNCHANGED <<row, file, keys>>

Discarded(q) ==
  /\ upload[q].pc = "discard" /\ Keeps(q) /\ upload'[q].pc = "done"
  /\ file' = file \ {upload[q].previous} /\ UNCHANGED <<row, logo, keys>>

LEMMA AnswerHolds ==
  ASSUME MediaTyped, NEW q \in Sender, NEW code, Media!Answer(q, code)
  PROVE  /\ Keeps(q) /\ upload'[q].pc = "done"
<1>1. upload[q] \in MediaRequests
  BY DEF MediaTyped
<1>2. upload'[q] = [upload[q] EXCEPT !.pc = "done", !.answer = code]
  BY DEF MediaTyped, Media!Answer
<1> QED BY <1>1, <1>2 DEF Keeps, Holds, MediaRequests

LEMMA GotoHolds ==
  ASSUME MediaTyped, NEW q \in Sender, NEW label, Media!Goto(q, label)
  PROVE  /\ Keeps(q) /\ upload'[q].pc = label
<1>1. upload[q] \in MediaRequests
  BY DEF MediaTyped
<1>2. upload'[q] = [upload[q] EXCEPT !.pc = label]
  BY DEF MediaTyped, Media!Goto
<1> QED BY <1>1, <1>2 DEF Keeps, Holds, MediaRequests

LEMMA StepEffect ==
  ASSUME MediaTyped, NEW q \in Sender, Media!Step(q)
  PROVE  \/ Quiet(q) \/ Arrived(q) \/ Saved(q) \/ Placed(q) \/ Inserted(q) \/ CleanedUp(q)
         \/ Moved(q) \/ Removed(q) \/ ServiceRemoved(q) \/ LogoRead(q) \/ LogoWritten(q)
         \/ Discarded(q)
<1>1. upload[q] \in MediaRequests /\ Occupied(q)
  BY DEF MediaTyped
<1>2. CASE Media!Arrive(q)
  <2>1. Arrived(q)
    BY <1>2 DEF Media!Arrive, Arrived, MediaTyped
  <2> QED BY <2>1
<1>3. CASE Media!ServiceExistsForProvider(q) \/ Media!CountServiceMedia(q)
  <2>1. CASE Media!Goto(q, "count")
    BY <1>3, <2>1, GotoHolds
       DEF Media!ServiceExistsForProvider, Media!CountServiceMedia, Quiet
  <2>2. CASE Media!Goto(q, "save") /\ upload[q].pc = "count"
        /\ ~Media!Full(upload[q].ask.service)
    BY <1>3, <2>2, GotoHolds
       DEF Media!ServiceExistsForProvider, Media!CountServiceMedia, Quiet
  <2>3. CASE \E code \in Media!Code : Media!Answer(q, code)
    BY <1>3, <2>3, AnswerHolds
       DEF Media!ServiceExistsForProvider, Media!CountServiceMedia, Quiet
  <2> QED BY <1>3, <2>1, <2>2, <2>3
             DEF Media!ServiceExistsForProvider, Media!CountServiceMedia, Media!Code
<1>4. CASE Media!Save(q)
  <2>1. Saved(q)
    BY <1>4 DEF Media!Save, Saved, MediaTyped
  <2> QED BY <2>1
<1>5. CASE Media!NextServiceMediaSortOrder(q)
  <2>1. Placed(q)
    BY <1>5 DEF Media!NextServiceMediaSortOrder, Placed, MediaTyped
  <2> QED BY <2>1
<1>6. CASE Media!CreateServiceMedia(q)
  <2>1. CASE Media!Goto(q, "cleanup") /\ UNCHANGED row
    BY <1>1, <1>6, <2>1, GotoHolds DEF Media!CreateServiceMedia, Quiet, Occupied, Fresh
  <2>2. CASE Media!Insert(q) /\ Media!AfterInsert(q, "done", "OK")
    <3>1. upload'[q] = [upload[q] EXCEPT !.pc = "done", !.answer = "OK"]
      BY <2>2 DEF Media!AfterInsert
    <3>2. Keeps(q) /\ upload'[q].pc = "done"
      BY <1>1, <3>1 DEF MediaRequests, Keeps, Holds
    <3>3. upload[q].pc = "insert" /\ UNCHANGED <<logo, file, keys>>
      BY <1>6 DEF Media!CreateServiceMedia
    <3>4. Inserted(q)
      BY <2>2, <3>2, <3>3 DEF Inserted
    <3> QED BY <3>4
  <2> QED BY <1>6, <2>1, <2>2 DEF Media!CreateServiceMedia
<1>7. CASE Media!CleanUp(q) \/ Media!Discard(q)
  BY <1>7, AnswerHolds
     DEF Media!CleanUp, Media!Discard, CleanedUp, Discarded, Media!Replaced
<1>8. CASE Media!UpdateServiceMedia(q) \/ Media!DeleteServiceMedia(q)
  <2> DEFINE m == upload[q].ask.image
  <2>1. m \in Image
    BY <1>1, <1>8 DEF Media!UpdateServiceMedia, Media!DeleteServiceMedia, Occupied
  <2>2. CASE row[m] = None
    BY <1>8, <2>2, AnswerHolds
       DEF Media!UpdateServiceMedia, Media!DeleteServiceMedia, Quiet
  <2>3. CASE row[m] # None /\ Media!UpdateServiceMedia(q)
    <3>1. row' = [row EXCEPT ![m] = [row[m] EXCEPT !.sort = upload[q].ask.sort,
          !.moved = TRUE]]
      BY <2>1, <2>3 DEF Media!UpdateServiceMedia, MediaTyped
    <3>2. Keeps(q) /\ upload'[q].pc = "done"
      BY <2>3, AnswerHolds DEF Media!UpdateServiceMedia
    <3> QED BY <2>1, <2>3, <3>1, <3>2 DEF Media!UpdateServiceMedia, Moved
  <2>4. CASE row[m] # None /\ Media!DeleteServiceMedia(q)
    <3>1. upload'[q] = [upload[q] EXCEPT !.pc = "discard", !.previous = m]
      BY <2>4 DEF Media!DeleteServiceMedia, MediaTyped
    <3> QED BY <2>1, <2>4, <3>1 DEF Media!DeleteServiceMedia, Removed
  <2> QED BY <1>8, <2>2, <2>3, <2>4
<1>9. CASE Media!DeleteService(q)
  <2>1. Keeps(q) /\ upload'[q].pc = "done"
    BY <1>9, AnswerHolds DEF Media!DeleteService
  <2> QED BY <1>9, <2>1 DEF Media!DeleteService, ServiceRemoved
<1>10. CASE Media!CurrentBranding(q)
  <2>1. CASE Media!Answer(q, "VALIDATION")
    BY <1>10, <2>1, AnswerHolds DEF Media!CurrentBranding, Quiet
  <2>2. CASE ~ Media!Answer(q, "VALIDATION")
    <3>1. LogoRead(q)
      BY <1>10, <2>2 DEF Media!CurrentBranding, LogoRead, MediaTyped
    <3> QED BY <3>1
  <2> QED BY <2>1, <2>2
<1>11. CASE Media!WriteBranding(q)
  BY <1>11, AnswerHolds, GotoHolds DEF Media!WriteBranding, LogoWritten
<1>12. CASE Media!Fault(q)
  <2>0. faults' # 0
    BY <1>12 DEF Media!Fault, MediaTyped, Media!MediaAssumption
  <2>1. CASE Media!Goto(q, "cleanup") /\ Fresh(q)
    BY <1>12, <2>0, <2>1, GotoHolds DEF Media!Fault, Media!Busy, Quiet
  <2>2. CASE \E code \in Media!Code : Media!Answer(q, code)
    BY <1>12, <2>0, <2>2, AnswerHolds DEF Media!Fault, Media!Busy, Quiet
  <2> QED BY <1>1, <1>12, <2>1, <2>2
             DEF Media!Fault, Media!AfterFailure, Media!Code, Fresh, Occupied
<1>13. CASE Media!AnswerLost(q)
  <2>0. lost' # 0
    BY <1>13 DEF Media!AnswerLost, MediaTyped, Media!MediaAssumption
  <2>1. CASE upload[q].pc = "insert"
    <3>1. upload'[q] = [upload[q] EXCEPT !.pc = "cleanup", !.answer = None]
      BY <1>13, <2>1 DEF Media!AnswerLost, Media!AfterInsert
    <3> QED BY <1>1, <1>13, <2>1, <2>0, <3>1
               DEF Media!AnswerLost, Inserted, MediaRequests, Keeps, Holds
  <2>2. CASE upload[q].pc = "write"
    BY <1>13, <2>0, <2>2, AnswerHolds, GotoHolds
       DEF Media!AnswerLost, Media!AfterFailure, LogoWritten
  <2> QED BY <1>13, <2>1, <2>2 DEF Media!AnswerLost
<1> QED BY <1>2, <1>3, <1>4, <1>5, <1>6, <1>7, <1>8, <1>9, <1>10, <1>11, <1>12, <1>13
           DEF Media!Step

\* The other requests hold what they held, and stand where they stood.
LEMMA OthersHold ==
  ASSUME MediaTyped, NEW q \in Sender, Media!Step(q), NEW p \in Sender, p # q
  PROVE  Holds(p) /\ upload'[p].pc = upload[p].pc /\ upload'[p].answer = upload[p].answer
<1>1. upload[p] \in MediaRequests
  BY DEF MediaTyped
<1>2. upload'[p] = [upload[p] EXCEPT !.stale = upload'[p].stale]
  BY OthersGoOn
<1> QED BY <1>1, <1>2 DEF Keeps, Holds, MediaRequests

-----------------------------------------------------------------------------
(* Keys: Save gives each picture one of its own, and what is not recorded   *)
(* yet is known to the request that saved it alone.                         *)

KeysUsed ==
  /\ \A p, q \in Sender :
       upload[p].image # None /\ upload[p].image = upload[q].image => p = q
  /\ \A q \in Sender : Fresh(q) =>
       /\ row[upload[q].image] = None /\ logo # upload[q].image
       /\ \A p \in Sender : upload[q].image \notin upload[p].known \cup {upload[p].previous}
       /\ \A n \in Image : row[n] # None => upload[q].image \notin row[n].after
  /\ \A n \in Image : row[n] # None => row[n].after \subseteq keys

LEMMA InitKeys == Media!MediaAssumption /\ Media!Init => KeysUsed
<1> SUFFICES ASSUME Media!MediaAssumption, Media!Init PROVE KeysUsed
  OBVIOUS
<1>1. \A q \in Sender : upload[q].image = None /\ ~ Fresh(q)
  BY DEF Media!Init, Media!NoRequest, Fresh
<1>2. row \in Galleries /\ keys = { m \in Image : row[m] # None }
  BY DEF Media!Init
<1>3. ASSUME NEW n \in Image, row[n] # None PROVE row[n].after \subseteq keys
  <2>1. row[n] \in Media!Row /\ \A m \in row[n].after : row[m] # None
    BY <1>2, <1>3 DEF Media!MediaAssumption
  <2> QED BY <1>2, <2>1 DEF Media!Row
<1> QED BY <1>1, <1>3 DEF KeysUsed

\* A row that is not new refers to the rows it did; a new one to those its upload met.
LEMMA RowsAfter ==
  ASSUME MediaTyped, NEW q \in Sender, Media!Step(q), NEW n \in Image, row'[n] # None
  PROVE  /\ keys \subseteq keys'
         /\ \/ /\ row[n] # None
               /\ row'[n].after = row[n].after /\ row'[n].service = row[n].service
               /\ row'[n].created = row[n].created /\ (row[n].moved => row'[n].moved)
               /\ row'[n].sort = row[n].sort \/ row'[n].moved
            \/ /\ Inserted(q) /\ n = upload[q].image
               /\ row'[n] = [ service |-> upload[q].ask.service, sort |-> upload[q].sort,
                              created |-> clock, after |-> upload[q].known,
                                 moved |-> FALSE ]
<1>1. row[n] # None => row[n] \in Media!Row
  BY DEF MediaTyped
<1>2. keys \subseteq keys'
  BY StepEffect DEF Quiet, Arrived, Saved, Placed, Inserted, CleanedUp, Moved,
     Removed, ServiceRemoved, LogoRead, LogoWritten, Discarded
<1>3. CASE UNCHANGED row
  BY <1>1, <1>2, <1>3
<1>4. CASE Inserted(q)
  BY <1>1, <1>2, <1>4 DEF Inserted, Media!Insert, MediaTyped
<1>5. CASE Moved(q)
  <2>1. CASE n = upload[q].ask.image
    BY <1>1, <1>2, <1>5, <2>1 DEF Moved, MediaTyped, Media!Row
  <2>2. CASE n # upload[q].ask.image
    BY <1>1, <1>2, <1>5, <2>2 DEF Moved, MediaTyped
  <2> QED BY <2>1, <2>2
<1>6. CASE Removed(q) \/ ServiceRemoved(q)
  BY <1>1, <1>2, <1>6 DEF Removed, ServiceRemoved, MediaTyped
<1> QED BY <1>3, <1>4, <1>5, <1>6, StepEffect
           DEF Quiet, Arrived, Saved, Placed, CleanedUp, LogoRead, LogoWritten,
               Discarded

\* What the request of a step comes to hold.
LEMMA RequestAfter ==
  ASSUME MediaTyped, NEW q \in Sender, Media!Step(q)
  PROVE  /\ upload'[q].image = upload[q].image \/ Saved(q)
         /\ \/ upload'[q].previous = upload[q].previous
            \/ upload'[q].previous = logo
            \/ upload'[q].previous \in Image /\ row[upload'[q].previous] # None
         /\ upload'[q].known = upload[q].known \/ \E s : upload'[q].known = Media!Rows(s)
         /\ upload'[q].pc \in {"sort", "insert", "write"} /\ upload'[q].image # None =>
              /\ Fresh(q) \/ Saved(q)
              /\ ~ Inserted(q) /\ ~ LogoWritten(q)
<1>1. upload[q] \in MediaRequests /\ Occupied(q)
  BY DEF MediaTyped
<1>2. CASE Quiet(q)
  BY <1>2 DEF Quiet, Keeps, Holds, Fresh, Inserted, LogoWritten
<1>3. CASE Arrived(q)
  <2>1. PICK ask \in MediaAsks : /\ upload[q].pc = "idle"
                            /\ upload'[q] = [upload[q] EXCEPT !.ask = ask,
                               !.pc = Media!First(ask.op),
                                                                !.known = Media!Rows(ask.service)]
    BY <1>3 DEF Arrived
  <2>2. /\ upload'[q].image = upload[q].image /\ upload'[q].previous = upload[q].previous
        /\ upload'[q].known = Media!Rows(ask.service)
           /\ upload'[q].pc = Media!First(ask.op)
    BY <1>1, <2>1 DEF MediaRequests
  <2>3. ask.op \in {"upload", "update", "delete", "set_logo", "clear_logo",
        "delete_service"}
    BY DEF MediaTyped, Media!MediaAssumption, Media!Ask
  <2>4. Media!First(ask.op) \notin {"sort", "insert", "write"}
    BY <2>3 DEF Media!First
  <2> QED BY <2>2, <2>4 DEF Fresh
<1>4. CASE Saved(q)
  BY <1>1, <1>4 DEF Saved, MediaRequests, Inserted, LogoWritten
<1>5. CASE Placed(q)
  BY <1>1, <1>5 DEF Placed, MediaRequests, Inserted, LogoWritten, Fresh
<1>6. CASE Inserted(q) \/ CleanedUp(q) \/ Moved(q) \/ ServiceRemoved(q) \/ LogoWritten(q)
           \/ Discarded(q)
  BY <1>6
     DEF Inserted, CleanedUp, Moved, ServiceRemoved, LogoWritten, Discarded, Keeps,
         Holds, Fresh
<1>7. CASE Removed(q)
  BY <1>1, <1>7 DEF Removed, MediaRequests, Inserted, LogoWritten, Fresh
<1>8. CASE LogoRead(q)
  <2>1. upload'[q].image = upload[q].image /\ upload'[q].previous = logo
        /\ upload'[q].known = upload[q].known /\ upload[q].pc = "previous"
    BY <1>1, <1>8 DEF LogoRead, MediaRequests
  <2> QED BY <1>1, <2>1 DEF Occupied, Inserted, LogoWritten, Fresh
<1> QED BY <1>2, <1>3, <1>4, <1>5, <1>6, <1>7, <1>8, StepEffect

\* In particular, a row that is not new is the one it was, unless it was moved.
LEMMA OldRowAfter ==
  ASSUME MediaTyped, NEW q \in Sender, Media!Step(q), NEW n \in Image, row'[n] # None,
         ~ (Inserted(q) /\ n = upload[q].image)
  PROVE  /\ row[n] # None /\ row'[n].after = row[n].after
         /\ row'[n].service = row[n].service /\ row'[n].created = row[n].created
         /\ row'[n].moved \/ (~ row[n].moved /\ row'[n].sort = row[n].sort)
BY RowsAfter

LEMMA KeysKept ==
  ASSUME MediaTyped, KeysUsed, NEW q \in Sender, Media!Step(q), MediaTyped'
  PROVE  KeysUsed'
<1>1. /\ \A p \in Sender : upload[p] \in MediaRequests /\ Occupied(p)
      /\ \A p \in Sender : upload'[p] \in MediaRequests /\ Occupied(p)'
  BY DEF MediaTyped
<1>2. \A p \in Sender \ {q} : Holds(p) /\ upload'[p].pc = upload[p].pc
  BY OthersHold
<1>3. \A p \in Sender : upload'[p].image = upload[p].image \/ (Saved(q) /\ p = q)
  <2>1. upload'[q].image = upload[q].image \/ Saved(q)
    BY RequestAfter
  <2> QED BY <1>2, <2>1 DEF Holds
<1>4. Saved(q) => \A p \in Sender : upload'[q].image # upload[p].image
  BY <1>1 DEF Saved, Occupied, MediaRequests, MediaTyped, Media!MediaAssumption
<1>5. \A p, r \in Sender :
        upload'[p].image # None /\ upload'[p].image = upload'[r].image => p = r
  BY <1>3, <1>4 DEF KeysUsed
\* Who is fresh has been, or has just saved.
<1>6. \A p \in Sender : Fresh(p)' =>
        /\ Fresh(p) \/ (Saved(q) /\ p = q)
        /\ Inserted(q) \/ LogoWritten(q) => p # q
  <2>1. \A p \in Sender \ {q} : Fresh(p)' => Fresh(p)
    BY <1>2 DEF Fresh, Holds
  <2>2. Fresh(q)' => /\ Fresh(q) \/ Saved(q)
                     /\ ~ Inserted(q) /\ ~ LogoWritten(q)
    BY RequestAfter DEF Fresh
  <2> QED BY <2>1, <2>2
<1>7. ASSUME NEW p \in Sender, Fresh(p)', NEW i, i = upload'[p].image
      PROVE  /\ row'[i] = None /\ logo' # i
             /\ \A r \in Sender : i \notin upload'[r].known \cup {upload'[r].previous}
             /\ \A n \in Image : row'[n] # None => i \notin row'[n].after
  <2>1. i \in Image /\ i # None
    BY <1>1, <1>7 DEF Fresh, MediaRequests
  <2>2. /\ row[i] = None /\ logo # i
        /\ \A r \in Sender : i \notin upload[r].known \cup {upload[r].previous}
        /\ \A n \in Image : row[n] # None => i \notin row[n].after
    <3>1. CASE Saved(q) /\ p = q
      <4>1. i \notin keys
        BY <1>1, <1>7, <3>1 DEF Saved, MediaRequests
      <4>2. \A r \in Sender : i \notin upload[r].known \cup {upload[r].previous}
        BY <1>1, <2>1, <4>1 DEF Occupied
      <4>3. row[i] = None /\ logo # i
        BY <2>1, <4>1 DEF MediaTyped
      <4>4. \A n \in Image : row[n] # None => i \notin row[n].after
        BY <4>1 DEF KeysUsed
      <4> QED BY <4>2, <4>3, <4>4
    <3>2. CASE Fresh(p) /\ upload'[p].image = upload[p].image
      BY <1>7, <3>2 DEF KeysUsed
    <3> QED BY <1>3, <1>6, <1>7, <3>1, <3>2
  <2>3. Inserted(q) \/ LogoWritten(q) => upload[q].image # i
    BY <1>3, <1>6, <1>7, <2>1 DEF KeysUsed, Inserted, LogoWritten, Saved
  <2>4. logo' # i
    BY <2>1, <2>2, <2>3, StepEffect
       DEF Quiet, Arrived, Saved, Placed, Inserted, CleanedUp, Moved, Removed,
           ServiceRemoved, LogoRead, LogoWritten, Discarded
  <2>5. row'[i] = None
    BY <2>1, <2>2, <2>3, StepEffect
       DEF Quiet, Arrived, Saved, Placed, Inserted, CleanedUp, Moved, Removed,
           ServiceRemoved, LogoRead, LogoWritten, Discarded, Media!Insert, MediaTyped
  <2>6. ASSUME NEW r \in Sender PROVE i \notin upload'[r].known \cup {upload'[r].previous}
    <3>1. CASE r # q
      BY <1>2, <2>2, <3>1 DEF Holds
    <3>2. CASE r = q
      <4>1. \A s : i \notin Media!Rows(s)
        BY <2>2 DEF Media!Rows
      <4>2. i \notin upload'[q].known
        BY <2>2, <4>1, RequestAfter
      <4>3. i # upload'[q].previous
        BY <2>2, RequestAfter
      <4> QED BY <3>2, <4>2, <4>3
    <3> QED BY <3>1, <3>2
  <2>7. ASSUME NEW n \in Image, row'[n] # None PROVE i \notin row'[n].after
    <3>1. CASE row[n] # None /\ row'[n].after = row[n].after
      BY <2>2, <3>1
    <3>2. CASE /\ Inserted(q)
               /\ row'[n] = [ service |-> upload[q].ask.service, sort |-> upload[q].sort,
                              created |-> clock, after |-> upload[q].known,
                                 moved |-> FALSE ]
      BY <2>2, <3>2
    <3> QED BY <2>7, <3>1, <3>2, RowsAfter
  <2> QED BY <2>4, <2>5, <2>6, <2>7
<1>8. ASSUME NEW n \in Image, row'[n] # None PROVE row'[n].after \subseteq keys'
  <2>1. keys \subseteq keys'
    BY <1>8, RowsAfter
  <2>2. CASE row[n] # None /\ row'[n].after = row[n].after
    BY <2>1, <2>2 DEF KeysUsed
  <2>3. CASE row'[n] = [ service |-> upload[q].ask.service, sort |-> upload[q].sort,
                         created |-> clock, after |-> upload[q].known, moved |-> FALSE ]
    BY <1>1, <2>1, <2>3 DEF Occupied
  <2> QED BY <1>8, <2>2, <2>3, RowsAfter
<1> QED BY <1>5, <1>7, <1>8 DEF KeysUsed

-----------------------------------------------------------------------------
(* The order of the uploads: max(sort_order) + 1 is above every row the      *)
(* request knew of that is still there, and stays so unless one is moved.    *)

Ranked ==
  /\ Media!InOrder(row)
  /\ \A q \in Sender : upload[q].pc # "idle" =>
       \A m \in upload[q].known :
         row[m] # None => row[m].service = upload[q].ask.service
  /\ \A q \in Sender : upload[q].pc = "insert" =>
       \A m \in upload[q].known :
         row[m] # None /\ ~row[m].moved => row[m].sort < upload[q].sort

LEMMA InitRanked == Media!MediaAssumption /\ Media!Init => Ranked
<1> SUFFICES ASSUME Media!MediaAssumption, Media!Init PROVE Ranked
  OBVIOUS
<1>1. \A q \in Sender : upload[q].pc = "idle"
  BY DEF Media!Init, Media!NoRequest
<1> QED BY <1>1 DEF Media!Init, Media!MediaAssumption, Ranked

\* What was asked and what was known stays, but for the request that arrives; a sort
\* order is that of the request, or just computed.
LEMMA KnownAfter ==
  ASSUME MediaTyped, NEW q \in Sender, Media!Step(q), NEW p \in Sender
  PROVE  \/ p = q /\ Arrived(q) /\ upload'[q].pc # "insert"
         \/ /\ upload'[p].ask = upload[p].ask /\ upload'[p].known = upload[p].known
            /\ upload'[p].pc # "idle" => upload[p].pc # "idle"
            /\ upload'[p].pc = "insert" =>
                 \/ upload[p].pc = "insert" /\ upload'[p].sort = upload[p].sort
                 \/ p = q /\ Placed(q)
<1>1. upload[q] \in MediaRequests /\ Occupied(q)
  BY DEF MediaTyped
<1>2. CASE p # q
  BY <1>2, OthersHold DEF Holds
<1>3. CASE p = q /\ Arrived(q)
  <2>1. PICK ask \in MediaAsks : upload'[q] = [upload[q] EXCEPT !.ask = ask,
        !.pc = Media!First(ask.op),
                                                             !.known = Media!Rows(ask.service)]
    BY <1>3 DEF Arrived
  <2>2. upload'[q].pc = Media!First(ask.op)
    BY <1>1, <2>1 DEF MediaRequests
  <2>3. ask.op \in {"upload", "update", "delete", "set_logo", "clear_logo",
        "delete_service"}
    BY DEF MediaTyped, Media!MediaAssumption, Media!Ask
  <2> QED BY <1>3, <2>2, <2>3 DEF Media!First
<1>4. CASE p = q /\ Quiet(q)
  BY <1>4 DEF Quiet, Keeps, Holds
<1>5. CASE p = q /\ (Saved(q) \/ Placed(q) \/ Removed(q) \/ LogoRead(q))
  BY <1>1, <1>5 DEF Saved, Placed, Removed, LogoRead, MediaRequests
<1>6. CASE p = q /\ (Inserted(q) \/ CleanedUp(q) \/ Moved(q) \/ ServiceRemoved(q)
                     \/ LogoWritten(q) \/ Discarded(q))
  BY <1>6
     DEF Inserted, CleanedUp, Moved, ServiceRemoved, LogoWritten, Discarded, Keeps,
         Holds
<1> QED BY <1>2, <1>3, <1>4, <1>5, <1>6, StepEffect

LEMMA RankedKept ==
  ASSUME MediaTyped, KeysUsed, Ranked, NEW q \in Sender, Media!Step(q), MediaTyped'
  PROVE  Ranked'
<1>1. \A p \in Sender : upload[p] \in MediaRequests /\ Occupied(p)
  BY DEF MediaTyped
\* A row that some request knows of is no new one.
<1>2. ASSUME NEW p \in Sender, NEW m \in upload'[p].known, row'[m] # None
      PROVE  /\ m \in Image /\ row[m] # None /\ row'[m].service = row[m].service
             /\ row'[m].moved \/ (~ row[m].moved /\ row'[m].sort = row[m].sort)
  <2>1. m \in Image /\ upload'[p] \in MediaRequests
    BY <1>2 DEF MediaTyped, MediaRequests
  <2>2. CASE Inserted(q) /\ m = upload[q].image
    <3>1. upload'[p].known = upload[p].known
      <4>1. ~ Arrived(q)
        BY <2>2 DEF Inserted, Arrived
      <4> QED BY <4>1, KnownAfter
    <3>2. Fresh(q)
      BY <1>1, <2>2 DEF Inserted, Occupied, Fresh
    <3> QED BY <1>2, <2>2, <3>1, <3>2 DEF KeysUsed
  <2> QED BY <1>2, <2>1, <2>2, OldRowAfter
<1>3. ASSUME NEW p \in Sender, upload'[p].pc # "idle", NEW m \in upload'[p].known,
             row'[m] # None
      PROVE  row'[m].service = upload'[p].ask.service
  <2>1. CASE p = q /\ Arrived(q)
    <3>1. PICK ask \in MediaAsks : upload'[q] = [upload[q] EXCEPT !.ask = ask,
          !.pc = Media!First(ask.op),
                                                               !.known = Media!Rows(ask.service)]
      BY <2>1 DEF Arrived
    <3>2. upload'[q].ask = ask /\ upload'[q].known = Media!Rows(ask.service)
      BY <1>1, <3>1 DEF MediaRequests
    <3> QED BY <1>2, <1>3, <2>1, <3>2 DEF Media!Rows
  <2>2. CASE /\ upload'[p].ask = upload[p].ask /\ upload'[p].known = upload[p].known
             /\ upload[p].pc # "idle"
    BY <1>2, <1>3, <2>2 DEF Ranked
  <2> QED BY <1>3, <2>1, <2>2, KnownAfter
<1>4. ASSUME NEW p \in Sender, upload'[p].pc = "insert", NEW m \in upload'[p].known,
             row'[m] # None, ~ row'[m].moved
      PROVE  row'[m].sort < upload'[p].sort
  <2>1. /\ row[m] # None /\ row'[m].sort = row[m].sort /\ ~ row[m].moved /\ m \in Image
    BY <1>2, <1>4
  <2>2. upload'[p].known = upload[p].known /\ upload'[p].pc # "idle"
        /\ upload'[p].ask = upload[p].ask /\ upload[p].pc # "idle"
    BY <1>4, KnownAfter
  <2>3. CASE upload[p].pc = "insert" /\ upload'[p].sort = upload[p].sort
    BY <1>4, <2>1, <2>2, <2>3 DEF Ranked
  <2>4. CASE p = q /\ Placed(q)
    <3>1. upload[q].ask \in Media!Ask
      BY <1>1, <2>4 DEF Placed, Occupied, MediaTyped, Media!MediaAssumption
    <3>2. m \in Media!Rows(upload[q].ask.service)
      BY <1>4, <2>1, <2>2, <2>4 DEF Ranked, Media!Rows
    <3>3. row[m].sort < Media!NextSortOrder(upload[q].ask.service)
      BY <3>1, <3>2, NextSort DEF Media!Ask
    <3>4. upload'[q].sort = Media!NextSortOrder(upload[q].ask.service)
      BY <1>1, <2>4 DEF Placed, MediaRequests
    <3> QED BY <2>1, <2>4, <3>3, <3>4
  <2> QED BY <1>4, <2>3, <2>4, KnownAfter
\* A pair of rows of the new gallery.
<1>5. ASSUME NEW n \in Image, row'[n] # None, NEW m \in row'[n].after, row'[m] # None,
             ~ row'[m].moved, ~ row'[n].moved
      PROVE  Media!Before(row', m, n)
  <2>0. m \in Image /\ row'[m] \in Media!Row /\ row'[n] \in Media!Row
    BY <1>5 DEF MediaTyped, Media!Row
  <2>1. CASE Inserted(q) /\ n = upload[q].image
    <3>1. row'[n] = [ service |-> upload[q].ask.service, sort |-> upload[q].sort,
                      created |-> clock, after |-> upload[q].known, moved |-> FALSE ]
      BY <1>1, <2>1 DEF Inserted, Media!Insert, MediaTyped
    <3>2. m \in upload[q].known /\ m # n
      BY <1>1, <1>5, <2>1, <3>1 DEF KeysUsed, Fresh, Inserted, Occupied
    <3>3. row'[m] = row[m]
      BY <2>0, <2>1, <3>2 DEF Inserted, Media!Insert, MediaTyped
    <3>4. row[m].sort < upload[q].sort
      BY <1>5, <2>1, <3>2, <3>3 DEF Ranked, Inserted
    <3> QED BY <3>1, <3>3, <3>4 DEF Media!Before
  <2>2. CASE row[n] # None /\ row'[n].after = row[n].after
    <3>1. row[n] \in Media!Row
      BY <2>2 DEF MediaTyped
    <3>2. ~ (Inserted(q) /\ m = upload[q].image)
      BY <1>1, <1>5, <2>2 DEF KeysUsed, Fresh, Inserted, Occupied
    <3>3. row[m] # None /\ row[m] \in Media!Row /\ ~ row[m].moved
          /\ row'[m].sort = row[m].sort /\ row'[m].created = row[m].created
      BY <1>5, <2>0, <3>2, OldRowAfter DEF MediaTyped
    <3>4. ~ (Inserted(q) /\ n = upload[q].image)
      BY <1>1, <2>2 DEF KeysUsed, Fresh, Inserted, Occupied
    <3>5. ~ row[n].moved /\ row'[n].sort = row[n].sort /\ row'[n].created = row[n].created
      BY <1>5, <3>1, <3>4, OldRowAfter
    <3>6. Media!Before(row, m, n)
      BY <1>5, <2>2, <3>3, <3>5 DEF Ranked, Media!InOrder
    <3> QED BY <3>3, <3>5, <3>6 DEF Media!Before
  <2> QED BY <1>5, <2>1, <2>2, RowsAfter
<1> QED BY <1>3, <1>4, <1>5 DEF Ranked, Media!InOrder

\* How a request comes to clean up, to discard, and to hold what is to be discarded.
LEMMA FirstLabel ==
  ASSUME MediaTyped, NEW q \in Sender, Arrived(q)
  PROVE  /\ upload'[q].pc \in {"owned", "previous", "update", "delete", "delete_service"}
         /\ upload'[q].previous = upload[q].previous
<1>1. upload[q] \in MediaRequests
  BY DEF MediaTyped
<1>2. PICK ask \in MediaAsks : upload'[q] = [upload[q] EXCEPT !.ask = ask,
      !.pc = Media!First(ask.op),
                                                           !.known = Media!Rows(ask.service)]
  BY DEF Arrived
<1>3. upload'[q].pc = Media!First(ask.op) /\ upload'[q].previous = upload[q].previous
  BY <1>1, <1>2 DEF MediaRequests
<1>4. ask.op \in {"upload", "update", "delete", "set_logo", "clear_logo",
      "delete_service"}
  BY DEF MediaTyped, Media!MediaAssumption, Media!Ask
<1> QED BY <1>3, <1>4 DEF Media!First

LEMMA CleanupAfter ==
  ASSUME MediaTyped, NEW q \in Sender, Media!Step(q), upload'[q].pc = "cleanup", lost' = 0
  PROVE  Quiet(q)
<1>1. upload[q] \in MediaRequests
  BY DEF MediaTyped
<1>2. ~ Arrived(q)
  BY FirstLabel
<1>3. ~ Saved(q) /\ ~ Placed(q) /\ ~ Removed(q) /\ ~ LogoRead(q)
  BY <1>1 DEF Saved, Placed, Removed, LogoRead, MediaRequests
<1> QED BY <1>2, <1>3, StepEffect
           DEF Inserted, CleanedUp, Moved, ServiceRemoved, LogoWritten, Discarded

LEMMA DiscardAfter ==
  ASSUME MediaTyped, NEW q \in Sender, Media!Step(q), upload'[q].pc = "discard"
  PROVE  Removed(q) \/ LogoWritten(q)
<1>1. upload[q] \in MediaRequests
  BY DEF MediaTyped
<1>2. ~ Arrived(q)
  BY FirstLabel
<1>3. ~ Saved(q) /\ ~ Placed(q) /\ ~ LogoRead(q)
  BY <1>1 DEF Saved, Placed, LogoRead, MediaRequests
<1> QED BY <1>2, <1>3, StepEffect
           DEF Quiet, Inserted, CleanedUp, Moved, ServiceRemoved, Discarded

LEMMA PreviousAfter ==
  ASSUME MediaTyped, NEW q \in Sender, Media!Step(q), ~ Removed(q), ~ LogoRead(q)
  PROVE  upload'[q].previous = upload[q].previous
<1>1. upload[q] \in MediaRequests
  BY DEF MediaTyped
<1>2. CASE Arrived(q)
  BY <1>2, FirstLabel
<1>3. CASE Saved(q) \/ Placed(q)
  BY <1>1, <1>3 DEF Saved, Placed, MediaRequests
<1> QED BY <1>2, <1>3, StepEffect
           DEF Quiet, Inserted, CleanedUp, Moved, ServiceRemoved, LogoWritten,
               Discarded, Keeps, Holds

-----------------------------------------------------------------------------
(* The limit: a count that no INSERT has overtaken still leaves room.       *)

Room ==
  \A q \in Sender : Media!Counted(q) /\ ~upload[q].stale =>
    Cardinality(Media!Rows(upload[q].ask.service)) < MaxPerService

LEMMA InitRoom == Media!Init => Room
BY DEF Media!Init, Room, Media!Counted, Media!NoRequest

\* What was stale stays so, and an INSERT overtakes every other count.
LEMMA StaleAfter ==
  ASSUME MediaTyped, NEW q \in Sender, Media!Step(q), NEW p \in Sender, p # q
  PROVE  /\ upload[p].stale => upload'[p].stale
         /\ Inserted(q) /\ Media!Counted(p) => upload'[p].stale
<1>1. upload[p] \in MediaRequests
  BY DEF MediaTyped
<1>2. ASSUME NEW label, NEW code, Media!AfterInsert(q, label, code), Media!Counted(p)
      PROVE  upload'[p].stale
  <2>1. upload'[p] = [upload[p] EXCEPT !.stale = @ \/ Media!Counted(p)]
    BY <1>2 DEF Media!AfterInsert
  <2> QED BY <1>1, <1>2, <2>1 DEF MediaRequests
<1>3. ASSUME Inserted(q) PROVE \E label, code : Media!AfterInsert(q, label, code)
  <2>1. upload[q].pc = "insert" /\ clock' # clock
    BY <1>3 DEF Inserted, Media!Insert, MediaTyped
  <2> QED BY <2>1
             DEF Media!Step, Media!Arrive, Media!ServiceExistsForProvider,
                 Media!CountServiceMedia, Media!Save, Media!NextServiceMediaSortOrder,
                 Media!CreateServiceMedia, Media!CleanUp, Media!UpdateServiceMedia,
                 Media!DeleteServiceMedia, Media!DeleteService, Media!CurrentBranding,
                 Media!WriteBranding, Media!Discard, Media!Fault, Media!AnswerLost
<1> QED BY <1>2, <1>3, OthersGoOn

\* A gallery grows by no more than the row that is inserted.
LEMMA RowsGrow ==
  ASSUME MediaTyped, NEW q \in Sender, Media!Step(q), MediaTyped', NEW s
  PROVE  LET grows == Inserted(q) /\ upload[q].ask.service = s
         IN  /\ Cardinality(Media!Rows(s)) \in Nat /\ Cardinality(Media!Rows(s)') \in Nat
             /\ Cardinality(Media!Rows(s)') <= Cardinality(Media!Rows(s)) + (IF grows THEN 1 ELSE 0)
<1> DEFINE i == upload[q].image
           grows == Inserted(q) /\ upload[q].ask.service = s
<1>1. IsFiniteSet(Media!Rows(s)) /\ IsFiniteSet(Media!Rows(s)')
  <2>1. /\ Media!Rows(s) \subseteq { m \in Image : row[m] # None }
        /\ Media!Rows(s)' \subseteq { m \in Image : row'[m] # None }
    BY DEF Media!Rows
  <2> QED BY <2>1, FS_Subset DEF MediaTyped
<1>2. Cardinality(Media!Rows(s)) \in Nat /\ Cardinality(Media!Rows(s)') \in Nat
  BY <1>1, FS_CardinalityType
<1>3. ASSUME NEW m \in Media!Rows(s)', m \notin Media!Rows(s) PROVE grows /\ m = i
  <2>1. m \in Image /\ row'[m] # None /\ row'[m].service = s
    BY <1>3 DEF Media!Rows
  <2>2. Inserted(q) /\ m = i
    BY <1>3, <2>1, OldRowAfter DEF Media!Rows
  <2>3. row'[i].service = upload[q].ask.service
    BY <2>1, <2>2 DEF Inserted, Media!Insert, MediaTyped
  <2> QED BY <2>1, <2>2, <2>3
<1>4. CASE ~ grows
  <2>1. Media!Rows(s)' \subseteq Media!Rows(s)
    BY <1>3, <1>4
  <2>2. Cardinality(Media!Rows(s)') <= Cardinality(Media!Rows(s))
    BY <1>1, <2>1, FS_Subset
  <2> QED BY <1>2, <1>4, <2>2
<1>5. CASE grows
  <2>1. Media!Rows(s)' \subseteq Media!Rows(s) \cup {i}
    BY <1>3
  <2>2. /\ IsFiniteSet(Media!Rows(s) \cup {i})
        /\ Cardinality(Media!Rows(s) \cup {i}) <= Cardinality(Media!Rows(s)) + 1
    BY <1>1, <1>2, FS_AddElement
  <2>3. Cardinality(Media!Rows(s)') <= Cardinality(Media!Rows(s) \cup {i})
    BY <2>1, <2>2, FS_Subset
  <2>4. Cardinality(Media!Rows(s) \cup {i}) \in Nat
    BY <2>2, FS_CardinalityType
  <2> QED BY <1>2, <1>5, <2>2, <2>3, <2>4
<1> QED BY <1>2, <1>4, <1>5

LEMMA RoomKept ==
  ASSUME MediaTyped, Room, NEW q \in Sender, Media!Step(q), MediaTyped'
  PROVE  Room'
<1> SUFFICES ASSUME NEW p \in Sender, Media!Counted(p)', ~ upload'[p].stale
    PROVE  Cardinality(Media!Rows(upload[p].ask.service))' < MaxPerService
  BY DEF Room
<1>1. upload[p] \in MediaRequests /\ Occupied(p)
  BY DEF MediaTyped
<1>2. MaxPerService \in Nat
  BY DEF MediaTyped, Media!MediaAssumption
<1>3. ASSUME upload'[p].ask = upload[p].ask, ~ Inserted(q),
             Cardinality(Media!Rows(upload[p].ask.service)) < MaxPerService
      PROVE  Cardinality(Media!Rows(upload[p].ask.service))' < MaxPerService
  <2>1. PICK s : s = upload[p].ask.service
    OBVIOUS
  <2>2. /\ Cardinality(Media!Rows(s)) \in Nat /\ Cardinality(Media!Rows(s)') \in Nat
        /\ Cardinality(Media!Rows(s)') <= Cardinality(Media!Rows(s)) + 0
    BY <1>3, RowsGrow
  <2>3. Media!Rows(upload[p].ask.service)' = Media!Rows(s)'
    BY <1>3, <2>1 DEF Media!Rows
  <2>4. Cardinality(Media!Rows(s)) < MaxPerService
    BY <1>3, <2>1
  <2>5. Cardinality(Media!Rows(s)') < MaxPerService
    BY <1>2, <2>2, <2>4
  <2> QED BY <2>3, <2>5
<1>4. CASE p # q
  <2>1. Holds(p) /\ upload'[p].pc = upload[p].pc
    BY <1>4, OthersHold
  <2>2. Media!Counted(p) /\ upload'[p].ask = upload[p].ask
    BY <2>1 DEF Media!Counted, Holds
  <2>3. ~ upload[p].stale /\ ~ Inserted(q)
    BY <1>4, <2>2, StaleAfter
  <2> QED BY <1>3, <2>2, <2>3 DEF Room
<1>5. CASE p = q
  <2>1. upload'[q].pc \in {"save", "sort", "insert"} /\ upload'[q].ask.op = "upload"
    BY <1>5 DEF Media!Counted
  <2>2. CASE Quiet(q)
    <3>1. ~ Media!Full(upload[q].ask.service) /\ upload'[q].ask = upload[q].ask
            /\ ~ Inserted(q)
      BY <2>1, <2>2 DEF Quiet, Keeps, Holds, Inserted
    <3>2. Cardinality(Media!Rows(upload[q].ask.service)) \in Nat
      BY RowsGrow
    <3>3. Cardinality(Media!Rows(upload[q].ask.service)) < MaxPerService
      BY <1>2, <3>1, <3>2, SameCount DEF Media!Full
    <3> QED BY <1>3, <1>5, <3>1, <3>3
  <2>3. CASE Saved(q) \/ Placed(q)
    <3>1. Media!Counted(q) /\ upload'[q].ask = upload[q].ask
          /\ upload'[q].stale = upload[q].stale
          /\ ~ Inserted(q)
      BY <1>1, <1>5, <2>1, <2>3 DEF Saved, Placed, Media!Counted, MediaRequests, Inserted
    <3> QED BY <1>3, <1>5, <3>1 DEF Room
  <2>4. CASE Arrived(q)
    <3>1. PICK ask \in MediaAsks : upload'[q] = [upload[q] EXCEPT !.ask = ask,
          !.pc = Media!First(ask.op),
                                                               !.known = Media!Rows(ask.service)]
      BY <2>4 DEF Arrived
    <3>2. upload'[q].pc = Media!First(ask.op)
      BY <1>1, <1>5, <3>1 DEF MediaRequests
    <3>3. ask.op \in {"upload", "update", "delete", "set_logo", "clear_logo",
          "delete_service"}
      BY DEF MediaTyped, Media!MediaAssumption, Media!Ask
    <3> QED BY <2>1, <3>2, <3>3 DEF Media!First
  <2>5. CASE LogoRead(q) \/ Removed(q)
    BY <1>1, <1>5, <2>1, <2>5 DEF LogoRead, Removed, MediaRequests, Occupied
  <2> QED BY <2>1, <2>2, <2>3, <2>4, <2>5, StepEffect
       DEF Inserted, CleanedUp, Moved, ServiceRemoved, LogoWritten, Discarded
<1> QED BY <1>4, <1>5

LEMMA WithinLimit ==
  ASSUME MediaTyped, Room, NEW q \in Sender, Media!Step(q), MediaTyped'
  PROVE  Media!WithinLimitUnlessRaced
<1> SUFFICES ASSUME NEW s \in Service,
    Cardinality(Media!Rows(s)') > Cardinality(Media!Rows(s)),
                    Cardinality(Media!Rows(s)') > MaxPerService
    PROVE  upload[q].pc = "insert" /\ upload'[q] # upload[q] /\ upload[q].stale
  BY SameCount DEF Media!WithinLimitUnlessRaced
<1>1. MaxPerService \in Nat
  BY DEF MediaTyped, Media!MediaAssumption
<1>2. Inserted(q) /\ upload[q].ask.service = s
  BY RowsGrow
<1>3. upload[q].pc = "insert" /\ upload'[q] # upload[q]
  BY <1>2 DEF Inserted
<1>4. ASSUME ~ upload[q].stale PROVE FALSE
  <2>1. Media!Counted(q)
    BY <1>3 DEF Media!Counted, MediaTyped, Occupied
  <2>2. Cardinality(Media!Rows(s)) < MaxPerService
    BY <1>2, <1>4, <2>1 DEF Room
  <2> QED BY <1>1, <1>2, <2>2, RowsGrow
<1> QED BY <1>3, <1>4

-----------------------------------------------------------------------------
(* The bytes: what a row or the column names is stored, if no statement      *)
(* takes effect and seems to fail.                                          *)

FileStored ==
  /\ Media!Referenced \subseteq file
  /\ logo # None => row[logo] = None
  /\ \A q \in Sender : LET x == upload[q] IN
       /\ Fresh(q) => x.image \in file
       /\ x.pc = "cleanup" => row[x.image] = None /\ logo # x.image
       /\ x.previous # None => row[x.previous] = None
       /\ x.pc = "discard" => logo # x.previous

StoredUnlessLost == lost = 0 => FileStored

LEMMA InitStored == Media!MediaAssumption /\ Media!Init => FileStored
BY DEF Media!Init, FileStored, Media!Referenced, Fresh, Media!NoRequest,
       Media!MediaAssumption

LEMMA StoredKept ==
  ASSUME MediaTyped, KeysUsed, FileStored, lost' = 0, NEW q \in Sender, Media!Step(q),
         MediaTyped', KeysUsed'
  PROVE  FileStored'
<1>1. \A p \in Sender : /\ upload[p] \in MediaRequests /\ Occupied(p)
                         /\ upload'[p] \in MediaRequests /\ Occupied(p)'
  BY DEF MediaTyped
<1>2. \A p \in Sender \ {q} : Holds(p) /\ upload'[p].pc = upload[p].pc
  BY OthersHold
<1>3. ~ (lost' # 0)
  OBVIOUS
<1>4. Inserted(q) \/ LogoWritten(q) => upload[q].pc \in {"insert", "write"}
  BY DEF Inserted, LogoWritten
<1>5. (Inserted(q) \/ LogoWritten(q)) /\ upload[q].image # None => Fresh(q)
  BY <1>4 DEF Fresh
\* A key gets a row, and the column a key, only by the request that saved it.
<1>6. ASSUME NEW m \in Image, row'[m] # None
             PROVE row[m] # None \/ (Inserted(q) /\ m = upload[q].image)
  BY <1>6, OldRowAfter
<1>7. logo' = logo \/ (LogoWritten(q) /\ logo' = upload[q].image)
  BY StepEffect DEF Quiet, Arrived, Saved, Placed, Inserted, CleanedUp, Moved,
     Removed, ServiceRemoved, LogoRead, LogoWritten, Discarded
<1>8. \/ file \subseteq file'
      \/ CleanedUp(q) /\ file' = file \ {upload[q].image}
      \/ Discarded(q) /\ file' = file \ {upload[q].previous}
  BY StepEffect DEF Quiet, Arrived, Saved, Placed, Inserted, CleanedUp, Moved,
     Removed, ServiceRemoved, LogoRead, LogoWritten, Discarded
\* The keys whose bytes go are named by nothing.
<1>9. ASSUME NEW m \in Image, m \in file, m \notin file'
      PROVE  /\ row[m] = None /\ logo # m
             /\ \A p \in Sender : Fresh(p) => upload[p].image # m
             /\ ~ Inserted(q) /\ ~ LogoWritten(q) /\ ~ Saved(q)
  <2>1. CASE CleanedUp(q) /\ m = upload[q].image
    <3>1. row[m] = None /\ logo # m
      BY <2>1 DEF CleanedUp, FileStored
    <3>2. \A p \in Sender : Fresh(p) => upload[p].image # m
      BY <1>1, <2>1 DEF CleanedUp, Fresh, KeysUsed
    <3> QED BY <2>1, <3>1, <3>2 DEF CleanedUp, Inserted, LogoWritten, Saved
  <2>2. CASE Discarded(q) /\ m = upload[q].previous
    <3>1. row[m] = None /\ logo # m /\ m # None
      BY <1>1, <2>2 DEF Discarded, FileStored, Occupied
    <3>2. \A p \in Sender : Fresh(p) => upload[p].image # m
      BY <2>2 DEF KeysUsed
    <3> QED BY <2>2, <3>1, <3>2 DEF Discarded, Inserted, LogoWritten, Saved
  <2> QED BY <1>8, <1>9, <2>1, <2>2
<1>10. Media!Referenced' \subseteq file'
  <2> SUFFICES ASSUME NEW m \in Media!Referenced' PROVE m \in file'
    OBVIOUS
  <2>1. m \in Image
    BY DEF Media!Referenced, MediaTyped
  <2>2. CASE m \in Media!Referenced
    <3>1. m \in file
      BY <2>2 DEF FileStored
    <3>2. row[m] # None \/ logo = m
      BY <2>2 DEF Media!Referenced
    <3> QED BY <1>9, <2>1, <3>1, <3>2
  <2>3. CASE m \notin Media!Referenced
    <3>1. m # None /\ (row'[m] # None \/ logo' = m)
      BY <2>1 DEF Media!Referenced, MediaTyped, Media!MediaAssumption
    <3>2. row[m] = None /\ logo # m
      BY <2>1, <2>3, <3>1 DEF Media!Referenced
    <3>3. (Inserted(q) \/ LogoWritten(q)) /\ m = upload[q].image
      BY <1>6, <1>7, <2>1, <3>1, <3>2
    <3>4. m \in file
      BY <1>5, <3>1, <3>3 DEF FileStored
    <3> QED BY <1>9, <2>1, <3>3, <3>4
  <2> QED BY <2>2, <2>3
<1>11. ASSUME logo' # None PROVE row'[logo'] = None
  <2>1. logo' \in Image
    BY <1>11 DEF MediaTyped
  <2>2. CASE logo' = logo
    BY <1>5, <1>6, <1>11, <2>1, <2>2 DEF FileStored, KeysUsed
  <2>3. CASE LogoWritten(q) /\ logo' = upload[q].image
    <3>1. row[logo'] = None /\ ~ Inserted(q)
      BY <1>5, <1>11, <2>3 DEF KeysUsed, LogoWritten, Inserted
    <3> QED BY <1>6, <2>1, <3>1
  <2> QED BY <1>7, <2>2, <2>3
<1>12. ASSUME NEW p \in Sender, Fresh(p)' PROVE upload'[p].image \in file'
  <2>1. upload'[p].image \in Image
    BY <1>1, <1>12 DEF Fresh, MediaRequests
  <2>2. CASE p = q /\ Saved(q)
    BY <1>1, <2>2 DEF Saved, MediaRequests
  <2>3. CASE Fresh(p) /\ upload'[p].image = upload[p].image
    <3>1. upload[p].image \in file
      BY <2>3 DEF FileStored
    <3> QED BY <1>9, <2>1, <2>3, <3>1
  <2>4. CASE p # q
    BY <1>2, <1>12, <2>3, <2>4 DEF Fresh, Holds
  <2>5. CASE p = q /\ ~ Saved(q)
    BY <1>12, <2>3, <2>5, RequestAfter DEF Fresh
  <2> QED BY <2>2, <2>4, <2>5
<1>12a. upload'[q].pc = "cleanup" => Quiet(q)
  BY <1>3, CleanupAfter
<1>13. ASSUME NEW p \in Sender, upload'[p].pc = "cleanup"
       PROVE  row'[upload'[p].image] = None /\ logo' # upload'[p].image
  <2> DEFINE i == upload'[p].image
  <2>1. i \in Image /\ i # None
    BY <1>1, <1>13 DEF MediaRequests, Occupied
  <2>2. upload'[p].image = upload[p].image /\ (upload[p].pc = "cleanup" \/ Fresh(p))
        /\ (p = q => ~ Inserted(q) /\ ~ LogoWritten(q))
    <3>1. CASE p # q
      BY <1>2, <1>13, <3>1 DEF Holds
    <3>2. CASE p = q
      <4>1. Quiet(q)
        BY <1>13, <1>12a, <3>2
      <4> QED BY <1>3, <1>13, <3>2, <4>1 DEF Quiet, Keeps, Holds, Inserted, LogoWritten
    <3> QED BY <3>1, <3>2
  <2>3. row[i] = None /\ logo # i
    BY <2>2 DEF FileStored, KeysUsed
  <2>4. (Inserted(q) \/ LogoWritten(q)) => upload[q].image # i
    BY <2>1, <2>2 DEF KeysUsed
  <2> QED BY <1>6, <1>7, <2>1, <2>3, <2>4
<1>14. ASSUME NEW p \in Sender, upload'[p].previous # None
              PROVE row'[upload'[p].previous] = None
  <2> DEFINE i == upload'[p].previous
  <2>1. i \in Image /\ i # None
    BY <1>1, <1>14 DEF MediaRequests
  <2>2. CASE i = upload[p].previous
    <3>1. row[i] = None
      BY <2>1, <2>2 DEF FileStored
    <3>2. Inserted(q) => upload[q].image # i
      BY <1>1, <1>5, <2>2 DEF KeysUsed, Inserted, Occupied
    <3> QED BY <1>6, <2>1, <3>1, <3>2
  <2>3. CASE p = q /\ Removed(q)
    BY <1>1, <2>3 DEF Removed, MediaRequests, MediaTyped
  <2>4. CASE p = q /\ LogoRead(q)
    BY <1>1, <2>1, <2>4 DEF LogoRead, MediaRequests, FileStored
  <2>5. p = q /\ ~ Removed(q) /\ ~ LogoRead(q) => i = upload[p].previous
    BY PreviousAfter
  <2> QED BY <1>2, <2>2, <2>3, <2>4, <2>5 DEF Holds
<1>15. ASSUME NEW p \in Sender, upload'[p].pc = "discard"
              PROVE logo' # upload'[p].previous
  <2> DEFINE i == upload'[p].previous
  <2>1. i \in Image /\ i # None
    BY <1>1, <1>15 DEF MediaRequests, Occupied
  <2>2. LogoWritten(q) => upload[q].image # upload[p].previous \/ upload[q].image = None
    BY <1>5 DEF KeysUsed
  <2>3. CASE p # q
    <3>1. i = upload[p].previous /\ upload[p].pc = "discard"
      BY <1>2, <1>15, <2>3 DEF Holds
    <3> QED BY <1>7, <2>1, <2>2, <3>1 DEF FileStored
  <2>4. CASE p = q /\ Removed(q)
    <3>1. row[i] # None /\ logo' = logo
      BY <1>1, <2>4 DEF Removed, MediaRequests
    <3> QED BY <2>1, <3>1 DEF FileStored
  <2>5. CASE p = q /\ LogoWritten(q)
    <3>1. i = upload[p].previous /\ logo' = upload[q].image
      BY <2>5 DEF LogoWritten, Keeps, Holds
    <3> QED BY <2>1, <2>2, <2>5, <3>1
  <2>6. p = q => Removed(q) \/ LogoWritten(q)
    BY <1>15, DiscardAfter
  <2> QED BY <2>3, <2>4, <2>5, <2>6
<1> QED BY <1>10, <1>11, <1>12, <1>13, <1>14, <1>15 DEF FileStored

-----------------------------------------------------------------------------
(* Litter: while no call fails and only pictures of galleries are asked for, *)
(* each stored key is named, or held by the request that will name or drop it. *)

Held(m) ==
  \E q \in Sender :
    \/ upload[q].pc \in {"sort", "insert", "cleanup"} /\ upload[q].image = m
    \/ upload[q].pc = "discard" /\ upload[q].previous = m

FilesTidy ==
  /\ logo = None
  /\ \A m \in file : row[m] # None \/ Held(m)

LEMMA InitTidy == Media!Init => FilesTidy
BY DEF Media!Init, FilesTidy

LEMMA InsertedRow ==
  ASSUME MediaTyped, NEW q \in Sender, Inserted(q)
  PROVE  /\ upload[q].image \in Image /\ row'[upload[q].image] # None
         /\ \A m \in Image : m # upload[q].image => row'[m] = row[m]
<1> DEFINE i == upload[q].image
           new == [ service |-> upload[q].ask.service, sort |-> upload[q].sort,
                    created |-> clock, after |-> upload[q].known, moved |-> FALSE ]
<1>1. upload[q].pc = "insert" /\ Media!Insert(q)
  BY DEF Inserted
<1>2. i \in keys /\ new \in Media!Row /\ row' = [row EXCEPT ![i] = new]
  BY <1>1, InsertTyped
<1>3. new # None /\ i \in Image
  BY <1>2 DEF MediaTyped, Media!MediaAssumption
<1> HIDE DEF new
<1> QED BY <1>2, <1>3 DEF MediaTyped

LEMMA BudgetSpent ==
  ASSUME NEW q \in Sender, Media!Step(q)
  PROVE  \/ UNCHANGED <<faults, lost>>
         \/ faults' = faults + 1 /\ UNCHANGED lost
         \/ lost' = lost + 1 /\ UNCHANGED faults
<1>1. CASE Media!Arrive(q) \/ Media!ServiceExistsForProvider(q)
      \/ Media!CountServiceMedia(q)
  BY <1>1
     DEF Media!Arrive, Media!ServiceExistsForProvider, Media!CountServiceMedia,
         Media!budget
<1>2. CASE Media!Save(q) \/ Media!NextServiceMediaSortOrder(q)
  BY <1>2 DEF Media!Save, Media!NextServiceMediaSortOrder, Media!budget
<1>3. CASE Media!CreateServiceMedia(q)
  BY <1>3 DEF Media!CreateServiceMedia, Media!budget
<1>4. CASE Media!CleanUp(q) \/ Media!UpdateServiceMedia(q) \/ Media!DeleteServiceMedia(q)
  BY <1>4
     DEF Media!CleanUp, Media!UpdateServiceMedia, Media!DeleteServiceMedia, Media!budget
<1>5. CASE Media!DeleteService(q) \/ Media!Discard(q)
  BY <1>5 DEF Media!DeleteService, Media!Discard, Media!budget
<1>6. CASE Media!CurrentBranding(q) \/ Media!WriteBranding(q)
  BY <1>6 DEF Media!CurrentBranding, Media!WriteBranding, Media!budget
<1>7. CASE Media!Fault(q)
  BY <1>7 DEF Media!Fault
<1>8. CASE Media!AnswerLost(q)
  BY <1>8 DEF Media!AnswerLost
<1> QED BY <1>1, <1>2, <1>3, <1>4, <1>5, <1>6, <1>7, <1>8 DEF Media!Step

\* What has not happened by the end of a step had not happened before it.
LEMMA NoLossBefore ==
  ASSUME MediaTyped, NEW q \in Sender, Media!Step(q), lost' = 0
  PROVE  lost = 0
BY BudgetSpent DEF MediaTyped, Media!MediaAssumption

LEMMA GalleriesBefore ==
  ASSUME MediaTyped, MediaTyped', NEW q \in Sender, Media!Step(q), Media!GalleriesOnly'
  PROVE  Media!GalleriesOnly
<1>1. faults = 0
  BY BudgetSpent DEF MediaTyped, Media!MediaAssumption, Media!GalleriesOnly
<1>2. ASSUME NEW p \in Sender \ {q}, upload[p].pc # "idle"
      PROVE  upload[p].ask.op \in {"upload", "update", "delete"}
  BY <1>2, OthersHold DEF Holds, Media!GalleriesOnly
<1>3. upload[q].pc # "idle" => upload[q].ask.op \in {"upload", "update", "delete"}
  <2> SUFFICES ASSUME upload[q].pc # "idle"
               PROVE  upload[q].ask.op \in {"upload", "update", "delete"}
    OBVIOUS
  <2>1. upload[q] \in MediaRequests
    BY DEF MediaTyped
  <2>2. CASE Saved(q) \/ Placed(q) \/ Removed(q) \/ LogoRead(q)
    <3>1. upload'[q].pc # "idle" /\ upload'[q].ask = upload[q].ask
      BY <2>1, <2>2 DEF Saved, Placed, Removed, LogoRead, MediaRequests
    <3> QED BY <3>1 DEF Media!GalleriesOnly
  <2>3. CASE Keeps(q) /\ upload'[q].pc # "idle"
    BY <2>3 DEF Keeps, Holds, Media!GalleriesOnly
  <2> QED BY <2>2, <2>3, StepEffect DEF Quiet, Arrived, Inserted, CleanedUp, Moved,
       ServiceRemoved, LogoWritten, Discarded
<1> QED BY <1>1, <1>2, <1>3 DEF Media!GalleriesOnly

LEMMA TidyKept ==
  ASSUME MediaTyped, Media!GalleriesOnly, Media!GalleriesOnly', FilesTidy,
         NEW q \in Sender, Media!Step(q), MediaTyped'
  PROVE  FilesTidy'
<1>1. upload[q] \in MediaRequests /\ Occupied(q)
  BY DEF MediaTyped
<1>2. \A p \in Sender \ {q} : Holds(p) /\ upload'[p].pc = upload[p].pc
  BY OthersHold
<1>3. ~ (faults' # 0)
  BY DEF Media!GalleriesOnly
<1>4. upload[q].pc \notin {"previous", "write", "delete_service"}
  BY <1>1 DEF Occupied, Media!GalleriesOnly
<1>5. ~ LogoRead(q) /\ ~ LogoWritten(q) /\ ~ ServiceRemoved(q)
  BY <1>4 DEF LogoRead, LogoWritten, ServiceRemoved
<1>6. logo' = logo
  BY <1>5, StepEffect DEF Quiet, Arrived, Saved, Placed, Inserted, CleanedUp, Moved,
     Removed, Discarded
<1>7. ASSUME NEW m \in file' PROVE row'[m] # None \/ Held(m)'
  <2>1. m \in Image
    BY DEF MediaTyped
  <2>2. CASE Saved(q) /\ m \notin file
    <3>1. upload[q].ask.op = "upload"
      BY <1>1, <2>2 DEF Saved, Occupied, Media!GalleriesOnly
    <3>2. upload'[q].pc = "sort" /\ upload'[q].image = m
      BY <1>1, <2>2, <3>1 DEF Saved, MediaRequests
    <3> QED BY <3>2 DEF Held
  <2>3. m \in file \/ Saved(q)
    BY <1>5, StepEffect
       DEF Quiet, Arrived, Placed, Inserted, CleanedUp, Moved, Removed, Discarded
  \* A row goes only to be discarded.
  <2>4. CASE row[m] # None
    <3>1. CASE Removed(q) /\ m = upload[q].ask.image
      <4>1. upload'[q].pc = "discard" /\ upload'[q].previous = m
        BY <1>1, <3>1 DEF Removed, MediaRequests
      <4> QED BY <4>1 DEF Held
    <3>2. CASE Removed(q) /\ m # upload[q].ask.image
      BY <2>1, <2>4, <3>2 DEF Removed, MediaTyped
    <3>3. CASE Moved(q)
      <4>1. row[m] # None /\ m # upload[q].ask.image => row'[m] = row[m]
        BY <2>1, <3>3 DEF Moved, MediaTyped
      <4>2. m = upload[q].ask.image => row'[m] # None
        <5> SUFFICES ASSUME m = upload[q].ask.image PROVE row'[m] # None
          OBVIOUS
        <5>1. row[m] \in Media!Row /\ upload[q].ask \in Media!Ask
          BY <1>1, <2>1, <2>4, <3>3 DEF Moved, MediaTyped, Occupied, Media!MediaAssumption
        <5>2. row'[m] = [row[m] EXCEPT !.sort = upload[q].ask.sort, !.moved = TRUE]
          BY <2>1, <3>3 DEF Moved, MediaTyped
        <5>3. row'[m] \in Media!Row
          BY <5>1, <5>2 DEF Media!Row, Media!Ask
        <5> QED BY <5>3 DEF MediaTyped, Media!MediaAssumption
      <4> QED BY <2>4, <4>1, <4>2
    <3>4. CASE Inserted(q)
      BY <2>1, <2>4, <3>4, InsertedRow
    <3> QED BY <1>5, <2>4, <3>1, <3>2, <3>3, <3>4, StepEffect
         DEF Quiet, Arrived, Saved, Placed, CleanedUp, Discarded
  <2>5. CASE Held(m)
    <3>1. PICK p \in Sender :
            \/ upload[p].pc \in {"sort", "insert", "cleanup"} /\ upload[p].image = m
            \/ upload[p].pc = "discard" /\ upload[p].previous = m
      BY <2>5 DEF Held
    <3>2. CASE p # q
      BY <1>2, <3>1, <3>2 DEF Held, Holds
    <3>3. CASE p = q /\ Inserted(q)
      <4>1. upload[q].image = m
        BY <3>1, <3>3 DEF Inserted
      <4> QED BY <3>3, <4>1, InsertedRow
    <3>4. CASE p = q /\ Placed(q)
      <4>1. upload'[q].pc = "insert" /\ upload'[q].image = m
        BY <1>1, <3>1, <3>4 DEF Placed, MediaRequests
      <4> QED BY <4>1 DEF Held
    <3>5. CASE p = q /\ Quiet(q)
      <4>1. upload'[q].pc = "cleanup" /\ upload'[q].image = m
        BY <1>3, <3>1, <3>5 DEF Quiet, Keeps, Holds
      <4> QED BY <4>1 DEF Held
    <3>6. ~ CleanedUp(q) \/ p # q
      BY <3>1 DEF CleanedUp
    <3>7. ~ Discarded(q) \/ p # q
      BY <3>1 DEF Discarded
    <3> QED BY <1>5, <3>1, <3>2, <3>3, <3>4, <3>5, <3>6, <3>7, StepEffect
         DEF Arrived, Saved, Moved, Removed
  <2> QED BY <2>2, <2>3, <2>4, <2>5 DEF FilesTidy
<1> QED BY <1>6, <1>7 DEF FilesTidy

-----------------------------------------------------------------------------
(* The theorems about the pictures.                                        *)

\* What holds whatever the requests are and whatever fails.
MediaInv == MediaTyped /\ KeysUsed /\ Ranked /\ Room

LEMMA SpecMediaInv == Media!MediaAssumption /\ Media!Spec => []MediaInv
<1>1. Media!MediaAssumption /\ Media!Init => MediaInv
  BY InitMediaTyped, InitKeys, InitRanked, InitRoom DEF MediaInv
<1>2. MediaInv /\ [Media!Next]_(Media!vars) => MediaInv'
  <2>1. ASSUME MediaInv, NEW q \in Sender, Media!Step(q) PROVE MediaInv'
    <3>1. MediaTyped'
      BY <2>1, MediaTypedKept DEF MediaInv, Media!Next
    <3>2. KeysUsed' /\ Ranked' /\ Room'
      BY <2>1, <3>1, KeysKept, RankedKept, RoomKept DEF MediaInv
    <3> QED BY <3>1, <3>2 DEF MediaInv
  <2>2. ASSUME MediaInv, UNCHANGED Media!vars PROVE MediaInv'
    <3>1. MediaTyped'
      BY <2>2, MediaTypedKept DEF MediaInv
    <3>2. KeysUsed'
      BY <2>2 DEF MediaInv, KeysUsed, Fresh, Media!vars
    <3>3. Ranked'
      BY <2>2 DEF MediaInv, Ranked, Media!InOrder, Media!Before, Media!vars
    <3>4. Room'
      BY <2>2 DEF MediaInv, Room, Media!Counted, Media!Rows, Media!vars
    <3> QED BY <3>1, <3>2, <3>3, <3>4 DEF MediaInv
  <2> QED BY <2>1, <2>2 DEF Media!Next
<1> QED BY <1>1, <1>2, PTL DEF Media!Spec

\* Every variable keeps its kind, and what is to be written or cleaned up was saved.
THEOREM MediaKinds == Media!MediaAssumption /\ Media!Spec => []Media!TypeOK
<1>1. MediaInv => Media!TypeOK
  <2> SUFFICES ASSUME MediaInv PROVE Media!TypeOK
    OBVIOUS
  <2>1. \A q \in Sender : upload[q].pc \in {"sort", "insert", "cleanup"} =>
        upload[q].image \in keys
    BY DEF MediaInv, MediaTyped, Occupied
  <2> QED BY <2>1 DEF MediaInv, MediaTyped, Media!TypeOK, MediaRequests
<1> QED BY <1>1, SpecMediaInv, PTL

\* Whatever uploads overlap, a picture is shown after those its upload found there,
\* unless one of the two was moved.
THEOREM UploadsInOrder ==
  Media!MediaAssumption /\ Media!Spec => []Media!UploadOrderPreserved
<1>1. MediaInv => Media!UploadOrderPreserved
  BY DEF MediaInv, Ranked, Media!UploadOrderPreserved
<1> QED BY <1>1, SpecMediaInv, PTL

\* A gallery outgrows MaxPerService only by an upload whose count was overtaken.
THEOREM LimitUnlessRaced ==
  Media!MediaAssumption /\ Media!Spec => [][Media!WithinLimitUnlessRaced]_(Media!vars)
<1>1. ASSUME MediaInv, MediaInv', [Media!Next]_(Media!vars)
             PROVE [Media!WithinLimitUnlessRaced]_(Media!vars)
  <2>1. CASE Media!Next
    <3>1. PICK q \in Sender : Media!Step(q)
      BY <2>1 DEF Media!Next
    <3>2. Media!WithinLimitUnlessRaced
      BY <1>1, <3>1, WithinLimit DEF MediaInv
    <3> QED BY <3>2
  <2>2. CASE UNCHANGED Media!vars
    BY <2>2
  <2> QED BY <1>1, <2>1, <2>2
<1> QED BY <1>1, SpecMediaInv, PTL DEF Media!Spec

\* What a row or the logo's column names is stored, whatever requests overlap and
\* whatever fails without effect; only an answer that is lost can break it.
THEOREM NoFileDangles == Media!MediaAssumption /\ Media!Spec => []Media!NoDangling
<1>1. Media!MediaAssumption /\ Media!Init => StoredUnlessLost
  BY InitStored DEF StoredUnlessLost
<1>2. MediaInv /\ MediaInv' /\ StoredUnlessLost /\ [Media!Next]_(Media!vars) =>
      StoredUnlessLost'
  <2>1. ASSUME MediaInv, MediaInv', StoredUnlessLost, lost' = 0, UNCHANGED Media!vars
               PROVE FileStored'
    BY <2>1 DEF StoredUnlessLost, FileStored, Media!Referenced, Fresh, Media!vars
  <2>2. ASSUME MediaInv, MediaInv', StoredUnlessLost, lost' = 0, NEW q \in Sender,
               Media!Step(q)
        PROVE  FileStored'
    BY <2>2, NoLossBefore, StoredKept DEF MediaInv, StoredUnlessLost
  <2> QED BY <2>1, <2>2 DEF Media!Next, StoredUnlessLost
<1>3. StoredUnlessLost => Media!NoDangling
  BY DEF StoredUnlessLost, FileStored, Media!NoDangling
<1> QED BY <1>1, <1>2, <1>3, SpecMediaInv, PTL DEF Media!Spec

\* Until a call fails, and while only pictures of galleries are asked for, at rest
\* nothing is stored that nothing names: each deletion removes the bytes, each refused
\* row drops them again.
THEOREM NoLitterInGalleries == Media!MediaAssumption /\ Media!Spec => []Media!NoLitter
<1>1. MediaInv /\ MediaInv' /\ (Media!GalleriesOnly => FilesTidy)
      /\ [Media!Next]_(Media!vars)
        => (Media!GalleriesOnly' => FilesTidy')
  <2>1. ASSUME MediaInv, MediaInv', Media!GalleriesOnly => FilesTidy,
               Media!GalleriesOnly', UNCHANGED Media!vars
        PROVE  FilesTidy'
    BY <2>1 DEF FilesTidy, Held, Media!GalleriesOnly, Media!vars
  <2>2. ASSUME MediaInv, MediaInv', Media!GalleriesOnly => FilesTidy,
               Media!GalleriesOnly',
               NEW q \in Sender, Media!Step(q)
        PROVE  FilesTidy'
    BY <2>2, GalleriesBefore, TidyKept DEF MediaInv
  <2> QED BY <2>1, <2>2 DEF Media!Next
<1>2. MediaInv /\ (Media!GalleriesOnly => FilesTidy) => Media!NoLitter
  <2> SUFFICES ASSUME MediaInv, FilesTidy, Media!AtRest, NEW m \in file
      PROVE m \in Media!Referenced
    BY DEF Media!NoLitter
  <2>1. ~ Held(m)
    BY DEF Media!AtRest, Media!Busy, Held
  <2> QED BY <2>1 DEF FilesTidy, Media!Referenced, MediaInv, MediaTyped
<1> QED BY <1>1, <1>2, InitTidy, SpecMediaInv, PTL DEF Media!Spec

-----------------------------------------------------------------------------
(* The three together.                                                     *)

\* However the requests of the three interleave, each of them runs as it would alone.
THEOREM ServicesRunAll == ServicesSpec => Spec /\ Quote!Spec /\ Media!Spec
<1>1. ServicesInit => Init /\ Quote!Init /\ Media!Init
  BY DEF ServicesInit
<1>2. [ServicesNext]_servicesVars => [Next]_vars
  BY DEF ServicesNext, servicesVars, vars
<1>3. [ServicesNext]_servicesVars => [Quote!Next]_(Quote!vars)
  BY DEF ServicesNext, servicesVars, trees, Quote!vars
<1>4. [ServicesNext]_servicesVars => [Media!Next]_(Media!vars)
  BY DEF ServicesNext, servicesVars, pictures, Media!vars
<1> QED BY <1>1, <1>2, <1>3, <1>4, PTL DEF ServicesSpec, Spec, Quote!Spec, Media!Spec

\* What a service holds has one form, and was asked for by some category whatever
\* providers overlap, by its own until they do, if that is so of the services at first.
THEOREM AttributesAlwaysFit == FitsItsCategory /\ ServicesSpec => []AttributesFit
BY ServicesRunAll, ServicesAssumption, OneFormStored, AttributesAsAsked, PTL
   DEF AttributesFit

\* Whatever requests about categories, definitions and services overlap, what is stored
\* refers to what exists and can be chosen from, and no constraint of the tables is what
\* finds it out; until two of them overlap, no patch loses what another stored.
THEOREM DefinitionsAlwaysHold == ServicesSpec => []DefinitionsHold
BY ServicesRunAll, ServicesAssumption, CatalogKinds, OptionsToChoose, CategoriesExist,
   NothingInternal, PatchesKeepOptions, PTL DEF DefinitionsHold

\* Whatever edits and reservations overlap, the trees keep their foreign keys, patches of
\* different fields survive each other, and a booking is as long as what was found free.
THEOREM TreesAlwaysHold == ServicesSpec => []TreesHold
BY ServicesRunAll, ServicesAssumption, OrphanFree, NoPatchLost, AsLongAsChecked, PTL
   DEF TreesHold

\* Whatever requests overlap and whichever calls fail, rows are in the order of the
\* uploads and name what is stored, and galleries leave no litter until a call fails.
THEOREM RowsAndBytesAlwaysAgree == ServicesSpec => []RowsAndBytesAgree
BY ServicesRunAll, ServicesAssumption, MediaKinds, UploadsInOrder, NoFileDangles,
   NoLitterInGalleries, PTL DEF RowsAndBytesAgree

\* Whatever requests overlap, none changes what another provider owns, and a gallery
\* outgrows its limit only by an upload whose count was overtaken.
THEOREM AlwaysWithinBounds == ServicesSpec => WithinOwnBounds
<1>1. MediaInv /\ [OwnServicesOnly]_vars /\ [Quote!OwnTreeOnly]_(Quote!vars)
      /\ [Media!WithinLimitUnlessRaced]_(Media!vars)
        => [/\ OwnServicesOnly /\ Quote!OwnTreeOnly
            /\ Media!WithinLimitUnlessRaced]_servicesVars
  <2>1. UNCHANGED vars => OwnServicesOnly
    BY DEF vars, OwnServicesOnly
  <2>2. UNCHANGED Quote!vars => Quote!OwnTreeOnly
    BY DEF Quote!vars, Quote!OwnTreeOnly
  <2>3. ASSUME MediaInv, UNCHANGED Media!vars PROVE Media!WithinLimitUnlessRaced
    <3> SUFFICES ASSUME NEW s \in Service
        PROVE ~(Cardinality(Media!Rows(s)') > Cardinality(Media!Rows(s)))
      BY SameCount DEF Media!WithinLimitUnlessRaced
    <3>1. Media!Rows(s)' = Media!Rows(s)
      BY <2>3 DEF Media!vars, Media!Rows
    <3>2. Cardinality(Media!Rows(s)) \in Nat
      <4>1. Media!Rows(s) \subseteq { m \in Image : row[m] # None }
        BY DEF Media!Rows
      <4> QED BY <2>3, <4>1, FS_Subset, FS_CardinalityType DEF MediaInv, MediaTyped
    <3> QED BY <3>1, <3>2
  <2> QED BY <2>1, <2>2, <2>3
<1> QED BY <1>1, ServicesRunAll, ServicesAssumption, OwnServices, OnlyOwnTree,
           LimitUnlessRaced, SpecMediaInv, PTL DEF WithinOwnBounds
=============================================================================
