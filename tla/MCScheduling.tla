---------------------------- MODULE MCScheduling ----------------------------
(* Scheduling for TLC: the cached lists, the edits of resources and hours   *)
(* and the computation of a list share no variable, so that interleaving    *)
(* them shows no more than each does: in a behaviour only one `part' moves, *)
(* and what the computation does not use stays None.                        *)
EXTENDS Scheduling, FiniteSets

CONSTANTS Parts, \* the parts to be checked
          k1, p1, p2

VARIABLES part, call, pc, windows, window, offset, candidates, bookable, slots

\* One list of the first provider, the others of the second.
Whose == [ k \in Key |-> IF k = k1 THEN p1 ELSE p2 ]

HoursInputs == INSTANCE MCHours
SlotsInputs == INSTANCE MCSlots

-----------------------------------------------------------------------------
(* What is edited: resources and closed days, or hours.                    *)

Bays == HoursInputs!Bays
Services == HoursInputs!Offers
Rows == HoursInputs!Rows
OwnerOf == HoursInputs!WhoOwns
ThisWeek == HoursInputs!SomeWeek(Rows)

EditsOf == [ resources |-> HoursInputs!ResourceAsks, weeks |-> HoursInputs!WeekAsks ]
AllEdits == UNION { EditsOf[edited] : edited \in DOMAIN EditsOf }

-----------------------------------------------------------------------------
(* The instances of Slots.                                                 *)

\* The rules of precedence; the arithmetic of the windows; a zone west of UTC.
Rules == INSTANCE Slots WITH
  Resource <- { "r1", "r2" }, DayLength <- 12, Week <- 2, Step <- 2,
  Calls <- SlotsInputs!SomeCalls
Windows == INSTANCE Slots WITH
  Resource <- { "r1", "r2" }, DayLength <- 12, Week <- 2, Step <- 1,
  Calls <- SlotsInputs!WindowCalls
West == INSTANCE Slots WITH
  Resource <- { "r1", "r2" }, DayLength <- 12, Week <- 2, Step <- 1,
  Calls <- SlotsInputs!WestCalls

ASSUME InputAssumption ==
  /\ Rules!SlotAssumption /\ Windows!SlotAssumption /\ West!SlotAssumption

-----------------------------------------------------------------------------

loop == <<call, pc, windows, window, offset, candidates, bookable, slots>>
allVars == <<vars, tables, part, loop>>

NoLoop == /\ call = None /\ pc = None /\ windows = None /\ window = None
          /\ offset = None /\ candidates = None /\ bookable = None /\ slots = None

MCInit ==
  /\ part \in Parts
  /\ SchedulingInit
  /\ CASE part = "rules"   -> Rules!Init
       [] part = "windows" -> Windows!Init
       [] part = "west"    -> West!Init
       [] OTHER            -> NoLoop

\* Few edits add rows to the tables while resources are edited.
FewRows == used \cap Rows \subseteq HoursInputs!FewRows

\* At a time there are few lists in the cache or on the way to it.
FewLists == \A p \in Provider : Cardinality(lists[p]) <= IF p = p1 THEN 2 ELSE 0

CacheNext == part = "cache" /\ Next /\ UNCHANGED <<part, tables, loop>>
TablesNext == /\ part \in DOMAIN EditsOf /\ Hours!Next
              /\ \A q \in Request : request'[q].ask \in EditsOf[part] \cup {None}
              /\ part = "resources" => FewRows'
              /\ FewLists'
              /\ UNCHANGED <<part, vars, loop>>
LoopNext == /\ \/ part = "rules" /\ Rules!Next
               \/ part = "windows" /\ Windows!Next
               \/ part = "west" /\ West!Next
            /\ UNCHANGED <<part, vars, tables>>

MCNext == CacheNext \/ TablesNext \/ LoopNext

MCSpec == MCInit /\ [][MCNext]_allVars

\* The loop runs in the goroutine of its request, which goes on.
MCFairSpec == MCSpec /\ Fairness /\ WF_loop(Rules!Next)

-----------------------------------------------------------------------------
(* Properties: those of the parts, where their comments are.               *)

\* The loop offers the starts of the first-order definition and no other (which gives a
\* resource the shop's hours on a weekday on which it has none): of the day asked for,
\* between opening and closing as the wall clock shows them.
OffersWhatIsOpen ==
  /\ part = "rules" => /\ Rules!TypeOK /\ Rules!MatchesReference
                       /\ Rules!InsideOpeningHours /\ Rules!OfTheDayAsked
  /\ part = "windows" => /\ Windows!TypeOK /\ Windows!MatchesReference
                         /\ Windows!InsideOpeningHours

\* "Local calendar date in the provider's timezone": the slots a browser west of UTC is
\* shown are of the day asked for.
OfTheDayAsked == part = "west" => West!OfTheDayAsked

\* "A weekday with no span here is closed": a resource with a week of its own is not
\* offered on a weekday on which that week has no span.
ClosedWithoutSpan == part = "rules" => Rules!ClosedWithoutSpan

\* Every computation of a list comes to an end, and what is cached becomes current
\* once the edits are over.
ListsSettle == (part = "rules" => Rules!Terminates) /\ (part = "cache" => EventuallyFresh)
=============================================================================
