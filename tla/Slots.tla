-------------------------------- MODULE Slots --------------------------------
(***************************************************************************)
(* One call of Scheduler.availability: the day's windows from weekly hours *)
(* and exceptions (ResolveWindows), and the loop that turns them into the  *)
(* starts to offer (GenerateSlots), in the provider's time zone.  A call   *)
(* reads what it needs first and then computes by itself, so an execution  *)
(* is one call; Calls says which.  Instants and times of day are counted   *)
(* in a unit of which DayLength make a day.                                *)
(***************************************************************************)
EXTENDS Integers

CONSTANTS Resource,
          DayLength, \* MinutesPerDay
          Week,      \* days per week
          Step,      \* between two starts
          Calls,     \* the calls that are made
          None       \* NULL

\* A zone's offset from UTC changes at most once, at the instant `at'.
Zone == [ before : Int, at : Int, after : Int ]
Time == 0..DayLength
Scope == Resource \cup {None}

\* Weekly hours, one-date exceptions (closed when opens = None), busy intervals.
HoursRule == [ resource : Scope, weekday : 0..(Week - 1), opens : Time, closes : Time ]
ExceptionRule == [ resource : Scope, day : Int, opens : Time \cup {None},
                   closes : Time \cup {None} ]
BusyInterval == [ resource : Resource, from : Int, to : Int ]

\* `asked' is the calendar day the caller means and `date' the instant it sends.
Call == [ resources : SUBSET Resource, hours : SUBSET HoursRule,
          exceptions : SUBSET ExceptionRule, busy : SUBSET BusyInterval,
          zone : Zone, asked : Int, date : Int, duration : Int, earliest : Int,
          forBooking : BOOLEAN ]

SlotAssumption ==
  /\ DayLength \in Nat \ {0} /\ Week \in Nat \ {0} /\ Step \in Nat \ {0}
  /\ \A c \in Calls : c \in Call
  /\ None \notin Resource /\ None \notin Time

VARIABLES
  call,
  pc,
  windows,    \* still to be looked at
  window,     \* the current one
  offset,
  candidates, \* pairs of a start and a resource that is free then
  bookable,   \* starts inside opening hours, free or not
  slots       \* the answer: [start, resources]

vars == <<call, pc, windows, window, offset, candidates, bookable, slots>>

-----------------------------------------------------------------------------
(* Time zones.                                                             *)

Offset(z, instant) == IF instant < z.at THEN z.before ELSE z.after

\* Mutant: minutes are added to midnight, as if every day had the same length.
SinceMidnight(z, day, t) == day * DayLength - Offset(z, day * DayLength - z.before) + t

\* time.Date: the offset is looked up for the wall clock's reading taken as UTC,
\* and once more for the instant this gives.
DateIn(z, day, t) ==
  LET reading == day * DayLength + t
  IN  reading - Offset(z, reading - Offset(z, reading))

Reading(z, instant) == instant + Offset(z, instant)

\* date.In(location).Date()
LocalDay(z, instant) == Reading(z, instant) \div DayLength

LocalDate == LocalDay(call.zone, call.date)

-----------------------------------------------------------------------------
(* ResolveWindows.                                                         *)

\* The rows that were read: ListScheduleExceptionsForDate, ListBusinessHoursForDay.
ExceptionsOf(scope) == { x \in call.exceptions : x.resource = scope /\ x.day = LocalDate }
HoursOf(scope) == { h \in call.hours : h.resource = scope /\ h.weekday = LocalDate % Week }

WindowsOf(r, spans) ==
  { [ resource |-> r, opens |-> span.opens, closes |-> span.closes ] :
    span \in { s \in spans : s.opens # None } }

\* The narrowest rule there is, as the loop over the resources finds it.
ResolveWindow(r) ==
  LET exception == IF ExceptionsOf(r) # {} THEN ExceptionsOf(r) ELSE ExceptionsOf(None)
      hours     == IF HoursOf(r) # {} THEN HoursOf(r) ELSE HoursOf(None)
  IN WindowsOf(r, IF exception # {} THEN exception ELSE hours)

ResolveWindows ==
  LET found == UNION { ResolveWindow(r) : r \in call.resources } IN
  /\ pc = "resolve"
  /\ windows' = found
  /\ pc' = IF found = {} \/ call.duration <= 0 THEN "done" ELSE "window"
  /\ UNCHANGED <<call, window, offset, candidates, bookable, slots>>

-----------------------------------------------------------------------------
(* GenerateSlots.                                                          *)

\* The next window; one that is empty is skipped.
NextWindow ==
  /\ pc = "window"
  /\ \E w \in windows :
       /\ windows' = windows \ {w}
       /\ window' = w
       /\ offset' = 0
       /\ pc' = IF w.closes <= w.opens THEN "window" ELSE "start"
  /\ UNCHANGED <<call, candidates, bookable, slots>>

Start == DateIn(call.zone, LocalDate, window.opens + offset)
WindowStart == DateIn(call.zone, LocalDate, window.opens)
WindowEnd == DateIn(call.zone, LocalDate, window.closes)

\* "The service must finish before closing, not merely start before it."
EndsTooLate(start) == start + call.duration > WindowEnd

TooEarly(start) == start < WindowStart \/ start < call.earliest

\* overlapsAny, half-open on both sides.
OverlapsAny(r, from, to) ==
  \E b \in call.busy : b.resource = r /\ from < b.to /\ b.from < to

LeaveWindow ==
  /\ pc = "start" /\ EndsTooLate(Start)
  /\ pc' = "window"
  /\ UNCHANGED <<call, windows, window, offset, candidates, bookable, slots>>

SkipStart ==
  /\ pc = "start" /\ ~EndsTooLate(Start) /\ TooEarly(Start)
  /\ offset' = offset + Step
  /\ UNCHANGED <<call, pc, windows, window, candidates, bookable, slots>>

OfferStart ==
  /\ pc = "start" /\ ~EndsTooLate(Start) /\ ~TooEarly(Start)
  /\ bookable' = bookable \cup {Start}
  /\ candidates' = IF OverlapsAny(window.resource, Start, Start + call.duration)
                   THEN candidates ELSE candidates \cup {<<Start, window.resource>>}
  /\ offset' = offset + Step
  /\ UNCHANGED <<call, pc, windows, window, slots>>

FreeAt(start) == { r \in Resource : <<start, r>> \in candidates }

\* Starts with the resources that could take them; a reservation also needs to
\* know the ones that are full.
CollectSlots ==
  /\ pc = "window" /\ windows = {}
  /\ slots' = { [ start |-> start, resources |-> FreeAt(start) ] :
                start \in { s \in bookable : call.forBooking \/ FreeAt(s) # {} } }
  /\ pc' = "done"
  /\ UNCHANGED <<call, windows, window, offset, candidates, bookable>>

-----------------------------------------------------------------------------

Init ==
  /\ call \in Calls
  /\ pc = "resolve"
  /\ windows = {} /\ window = None /\ offset = 0
  /\ candidates = {} /\ bookable = {} /\ slots = {}

Next == \/ ResolveWindows \/ NextWindow \/ LeaveWindow \/ SkipStart \/ OfferStart
        \/ CollectSlots

Spec == Init /\ [][Next]_vars

\* The goroutine of the request runs on.
FairSpec == Spec /\ WF_vars(Next)

-----------------------------------------------------------------------------
(* Properties.                                                             *)

\* Every variable holds a value of its kind.
TypeOK ==
  /\ call \in Call
  /\ pc \in {"resolve", "window", "start", "done"}
  /\ \A w \in windows : w.resource \in call.resources
  /\ pc = "start" => window.resource \in call.resources /\ window.opens < window.closes
  /\ offset \in 0..(DayLength + 3 * Step)
  /\ candidates \subseteq bookable \X call.resources

Done == pc = "done"

\* The precedence that ResolveWindows' comment states, as a first-order definition: the
\* spans of a rule count when there is no narrower one.  A resource without a span of
\* its own on the weekday has the shop's; ClosedWithoutSpan is what the API says of it.
Applies(r, kind, rule) ==
  LET narrower(k) == \E x \in call.exceptions :
        x.day = LocalDay(call.zone, call.date) /\ x.resource = (IF k = 1 THEN r ELSE None)
      own == \E h \in call.hours :
        h.weekday = LocalDay(call.zone, call.date) % Week /\ h.resource = r
  IN CASE kind = "exception" -> /\ rule.day = LocalDay(call.zone, call.date)
                                /\ rule.opens # None
                                /\ rule.resource = r \/ (rule.resource = None /\ ~narrower(1))
       [] OTHER -> /\ ~narrower(1) /\ ~narrower(2)
                   /\ rule.weekday = LocalDay(call.zone, call.date) % Week
                   /\ rule.resource = r \/ (rule.resource = None /\ ~own)

Spans(r) == { x \in call.exceptions : Applies(r, "exception", x) }
            \cup { h \in call.hours : Applies(r, "hours", h) }

\* The starts of a span: whole steps from its opening, nothing that begins before
\* it or ends after it, and nothing too soon.
Starts(span) ==
  { s \in { DateIn(call.zone, LocalDate, span.opens + k * Step) : k \in 0..DayLength } :
      /\ span.opens < span.closes
      /\ s >= DateIn(call.zone, LocalDate, span.opens) /\ s >= call.earliest
      /\ s + call.duration <= DateIn(call.zone, LocalDate, span.closes) }

StartsFor(r) == UNION { Starts(span) : span \in Spans(r) }

Free(r, s) == \A b \in call.busy :
  b.resource = r => b.to <= s \/ s + call.duration <= b.from

Expected ==
  LET all == UNION { StartsFor(r) : r \in call.resources }
      answer == { [ start |-> s, resources |->
                      { r \in call.resources : s \in StartsFor(r) /\ Free(r, s) } ] : s \in all }
  IN { slot \in answer : call.forBooking \/ slot.resources # {} }

\* The loop offers every start that the definition does, and no other: leaving
\* it at the first start that ends too late loses none, also on a day on which
\* the clock is put forward or back.
MatchesReference == Done /\ call.duration > 0 => slots = Expected

\* The hour that is skipped, or is there twice, on a day of transition is not clear.
Unambiguous(day, t) ==
  LET z == call.zone
      reading == day * DayLength + t
  IN z.before = z.after
     \/ (reading < z.at + z.before /\ reading < z.at + z.after)
     \/ (reading > z.at + z.before /\ reading > z.at + z.after)

\* For all of its time, an offered slot lies between opening and closing as the
\* provider's clock on the wall shows them, unless the shop opens or closes in
\* an hour that the clock skips or repeats.
InsideOpeningHours ==
  Done => \A slot \in slots, r \in Resource :
    LET clear == { span \in Spans(r) : Unambiguous(LocalDate, span.opens)
                                       /\ Unambiguous(LocalDate, span.closes) }
    IN r \in slot.resources /\ clear = Spans(r) =>
         \E span \in Spans(r) :
           \A u \in slot.start..(slot.start + call.duration - 1) :
             /\ LocalDate * DayLength + span.opens <= Reading(call.zone, u)
             /\ Reading(call.zone, u) < LocalDate * DayLength + span.closes

\* "Local calendar date in the provider's timezone": the slots that are offered
\* are of the day that was asked for.
OfTheDayAsked ==
  Done => \A slot \in slots : LocalDay(call.zone, slot.start) = call.asked

\* "A weekday with no span here is closed": a resource that has hours of its own, none
\* of them on the weekday asked for, is offered at no time of a day without exceptions.
ClosedWithoutSpan ==
  Done => \A slot \in slots : \A r \in slot.resources :
    /\ \E h \in call.hours : h.resource = r
    /\ \A x \in call.exceptions : x.day # LocalDate
    => HoursOf(r) # {}

\* Every call comes to an end, whatever the window, the step and the lead time.
Terminates == <>Done
=============================================================================
