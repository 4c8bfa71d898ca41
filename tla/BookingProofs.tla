--------------------------- MODULE BookingProofs ---------------------------
(***************************************************************************)
(* Theorems about Booking, for every set of requests, resources, services  *)
(* and inputs: its types, no double booking, and what the table of bookings *)
(* does, step by step: every change of a status is an edge of the           *)
(* lifecycle, and the engine implements the Calendar.  Then what a request  *)
(* is told, and what it may rely on: answers that agree with the table,     *)
(* refusals that name what is so, transitions that one request wins, and    *)
(* lists that are as old as they may be.                                    *)
(***************************************************************************)
EXTENDS Booking, WellFoundedInduction, TLAPS

-----------------------------------------------------------------------------
(* Facts about the operators.                                              *)

\* A nonempty set of natural numbers has a least element.
LEMMA LeastElement ==
  ASSUME NEW S \in SUBSET Nat, S # {}
  PROVE  \E x \in S : \A y \in S : x <= y
<1> DEFINE R == OpToRel(<, Nat)
<1>1. \A x, y \in Nat : <<y, x>> \in R <=> y < x
  BY DEF OpToRel
<1>2. PICK x \in S : \A y \in S : ~(<<y, x>> \in R)
  BY WFMin, NatLessThanWellFounded
<1> HIDE DEF R
<1>3. ASSUME NEW y \in S PROVE x <= y
  <2>1. x \in Nat /\ y \in Nat
    OBVIOUS
  <2>2. ~(y < x)
    BY <1>1, <1>2, <2>1, Zenon
  <2> QED BY <2>1, <2>2
<1> QED BY <1>3

\* The walk over a nonempty set of candidates has a next bay to try.
LEMMA BayIsCandidate ==
  ASSUME NEW r, local[r].cands \in SUBSET Nat, local[r].cands # {}
  PROVE  Bay(r) \in local[r].cands
BY LeastElement DEF Bay

\* Conflict does not depend on the order of its arguments.
LEMMA ConflictSymmetric ==
  ASSUME NEW a, NEW b
  PROVE  Conflict(a, b) <=> Conflict(b, a)
BY DEF Conflict, Overlap

-----------------------------------------------------------------------------
(* Type correctness.                                                       *)

\* What a request has read by the time it reaches a label, and that its
\* tuple exists exactly while its transaction waits for the constraint check
\* or is about to commit.
At(r) ==
  /\ pc[r] # "idle" => local[r].in \in Inputs
  /\ pc[r] \notin {"idle", "service", "done"} => local[r].provider \in Provider
  /\ pc[r] \in {"code", "insert", "check", "options", "failed"}
       => local[r].cands # {}
  /\ pc[r] = "insert" => local[r].code \in Code
  /\ tuple[r] # None <=> pc[r] \in {"check", "options"}

LocalInv == \A r \in Request : At(r)

\* A lifecycle request that got past its read names a booking of the table
\* and an edge of the transition table.
MoverInv ==
  \A m \in Mover :
    /\ mover[m].pc \in {"update", "invalidate"} => mover[m].booking \in Booked
    /\ mover[m].pc = "update" =>
         \E event \in Event : mover[m].to \in NextStatus(mover[m].from, event)

ListerInv == \A l \in Lister : lister[l].pc # "idle" => lister[l].service \in Service

TypeInv == TypeOK /\ LocalInv /\ MoverInv /\ ListerInv

LEMMA InitTypeInv == Init => TypeInv
BY SetAssumption, BoundAssumption
   DEF Init, TypeInv, TypeOK, LocalInv, At, MoverInv, ListerInv, NoLocal,
       NoMove, NoListing, Local, Move, Listing, Label, Error, Reply, Status,
       activeStatuses, maxAttempts

\* Nothing that belongs to another request changes.
OnlyRequest(r) ==
  \A q \in Request \ {r} :
    pc'[q] = pc[q] /\ local'[q] = local[q] /\ tuple'[q] = tuple[q]

\* What a step of request r must establish.
LEMMA RequestStep ==
  ASSUME TypeInv, NEW r \in Request, OnlyRequest(r), At(r)',
         pc' \in [Request -> Label], local' \in [Request -> Local],
         tuple' \in [Request -> Row \cup {None}],
         bookings' \in [Request -> Row \cup {None}],
         \A q \in Booked : bookings'[q] # None,
         lister' \in [Lister -> Listing], ListerInv',
         cache' \in [Service -> [free : SUBSET (Start \X Resource),
                                raced : BOOLEAN] \cup {None}],
         faults' \in 0 .. MaxFaults,
         UNCHANGED <<tables, mover, edits>>
  PROVE  TypeInv'
<1>1. TypeOK'
  BY DEF TypeInv, TypeOK, tables
<1>2. LocalInv'
  BY DEF TypeInv, LocalInv, At, OnlyRequest
<1>3. MoverInv'
  BY DEF TypeInv, MoverInv, Booked
<1> QED BY <1>1, <1>2, <1>3 DEF TypeInv

\* The same for a step that changes nothing but pc, local and tuple.
LEMMA LocalStep ==
  ASSUME TypeInv, NEW r \in Request, OnlyRequest(r), At(r)',
         pc' \in [Request -> Label], local' \in [Request -> Local],
         tuple' \in [Request -> Row \cup {None}],
         UNCHANGED <<tables, bookings, mover, lister, cache, edits, faults>>
  PROVE  TypeInv'
<1>1. ListerInv'
  BY DEF TypeInv, ListerInv
<1> QED BY RequestStep, <1>1 DEF TypeInv, TypeOK, Booked

LEMMA LocalType == ASSUME TypeInv, NEW r \in Request PROVE local[r] \in Local
BY DEF TypeInv, TypeOK

LEMMA SubmitTypeInv ==
  ASSUME TypeInv, NEW r \in Request, Submit(r)
  PROVE  TypeInv'
<1> USE DEF Submit, Goto
<1>1. PICK in \in Inputs : local' = [local EXCEPT ![r].in = in]
  OBVIOUS
<1>2. pc' \in [Request -> Label] /\ tuple' \in [Request -> Row \cup {None}]
  BY DEF TypeInv, TypeOK, Label
<1>3. [local[r] EXCEPT !.in = in] \in Local
  BY LocalType DEF Local
<1>4. local' \in [Request -> Local]
  BY <1>1, <1>3 DEF TypeInv, TypeOK
<1>5. OnlyRequest(r) /\ At(r)'
  BY <1>1 DEF TypeInv, TypeOK, Local, LocalInv, At, OnlyRequest
<1> QED BY <1>2, <1>4, <1>5, LocalStep

LEMMA AnswerStep ==
  ASSUME TypeInv, NEW r \in Request, NEW c \in Reply, Answer(r, c),
         pc[r] # "idle", UNCHANGED tuple, tuple[r] = None
  PROVE  /\ OnlyRequest(r) /\ At(r)'
         /\ pc' \in [Request -> Label] /\ local' \in [Request -> Local]
         /\ tuple' \in [Request -> Row \cup {None}]
<1> USE DEF Answer, Goto
<1>1. [local[r] EXCEPT !.answer = c] \in Local
  BY LocalType DEF Local
<1>2. pc' \in [Request -> Label] /\ local' \in [Request -> Local]
  BY <1>1 DEF TypeInv, TypeOK, Label
<1>3. OnlyRequest(r)
  BY DEF TypeInv, TypeOK, OnlyRequest
<1>4. pc'[r] = "done" /\ local'[r].in = local[r].in
  BY LocalType DEF TypeInv, TypeOK, Local
<1>5. At(r)'
  BY <1>4 DEF TypeInv, LocalInv, At
<1> QED BY <1>2, <1>3, <1>5 DEF TypeInv, TypeOK

LEMMA UnbookableType ==
  ASSUME NEW s \in Service PROVE Unbookable(s) \in Reply \cup {None}
BY DEF Unbookable, Reply

LEMMA GetServiceTypeInv ==
  ASSUME TypeInv, NEW r \in Request, GetServiceWithProvider(r)
  PROVE  TypeInv'
<1> DEFINE s == local[r].in.service
<1> USE DEF GetServiceWithProvider
<1>1. local[r].in \in Inputs /\ s \in Service /\ local[r].in.start \in Nat
  BY SetAssumption DEF TypeInv, LocalInv, At, Input
<1>2. tuple[r] = None /\ pc[r] # "idle"
  BY DEF TypeInv, LocalInv, At
<1>3. CASE Unbookable(s) # None
  BY <1>1, <1>2, <1>3, UnbookableType, AnswerStep, LocalStep
<1>4. CASE Unbookable(s) = None
  <2> DEFINE v == [local[r] EXCEPT !.provider = Owner[s],
                     !.end = local[r].in.start + service[s].minutes,
                     !.status = IF provider[Owner[s]].instant
                                THEN "confirmed" ELSE "pending"]
  <2>1. v \in Local /\ v.provider \in Provider
    <3>1. Owner[s] \in Provider /\ service[s].minutes \in Nat
      BY <1>1, SetAssumption, CalendarAssumption DEF TypeInv, TypeOK
    <3>2. local[r].in.start + service[s].minutes \in Nat
      BY <1>1, <3>1
    <3> QED BY ZenonT(60), <3>1, <3>2, LocalType DEF Local, activeStatuses
  <2>2. local' = [local EXCEPT ![r] = v] /\ pc' = [pc EXCEPT ![r] = "slots"]
    BY <1>4 DEF Goto
  <2>3. OnlyRequest(r) /\ At(r)'
    BY ZenonT(60), <1>1, <1>2, <2>1, <2>2 DEF TypeInv, TypeOK, Local, At, OnlyRequest
  <2> QED BY <2>1, <2>2, <2>3, LocalStep DEF TypeInv, TypeOK, Label
<1> QED BY <1>3, <1>4

LEMMA SetLocal ==
  ASSUME TypeInv, NEW r \in Request, NEW v \in Local, NEW l \in Label,
         local' = [local EXCEPT ![r] = v], pc' = [pc EXCEPT ![r] = l]
  PROVE  /\ local' \in [Request -> Local] /\ pc' \in [Request -> Label]
         /\ local'[r] = v /\ pc'[r] = l
         /\ \A q \in Request \ {r} : pc'[q] = pc[q] /\ local'[q] = local[q]
BY DEF TypeInv, TypeOK

LEMMA ResolveTypeInv ==
  ASSUME TypeInv, NEW r \in Request, ResolveScheduling(r)
  PROVE  TypeInv'
<1> DEFINE s == local[r].in.service
<1> USE DEF ResolveScheduling
<1>1. s \in Service /\ local[r].in \in Inputs /\ local[r].provider \in Provider
  BY SetAssumption DEF TypeInv, LocalInv, At, Input
<1>2. tuple[r] = None /\ pc[r] # "idle"
  BY DEF TypeInv, LocalInv, At
<1>3. CASE Unbookable(s) # None
  BY <1>1, <1>2, <1>3, UnbookableType, AnswerStep, LocalStep
<1>4. CASE Unbookable(s) = None
  <2> DEFINE v == [local[r] EXCEPT !.minutes = TotalDuration(s), !.bays = BaysFor(s)]
  <2>1. v \in Local /\ v.in \in Inputs /\ v.provider \in Provider
    <3>1. TotalDuration(s) \in Nat /\ BaysFor(s) \subseteq Resource
      BY <1>1, SetAssumption DEF TypeInv, TypeOK, BaysFor, TotalDuration
    <3> QED BY <1>1, <3>1, LocalType DEF Local
  <2>2. local' = [local EXCEPT ![r] = v] /\ pc' = [pc EXCEPT ![r] = "busy"]
    BY <1>4 DEF Goto
  <2> HIDE DEF v
  <2>3. OnlyRequest(r) /\ At(r)' /\ local' \in [Request -> Local]
        /\ pc' \in [Request -> Label]
    BY <1>2, <2>1, <2>2, SetLocal DEF At, OnlyRequest, Label
  <2> QED BY <2>3, LocalStep DEF TypeInv, TypeOK
<1> QED BY <1>3, <1>4

LEMMA ResourcesForStartTypeInv ==
  ASSUME TypeInv, NEW r \in Request, ResourcesForStart(r)
  PROVE  TypeInv'
<1> DEFINE in == local[r].in
           bays == local[r].bays
           wanted == IF in.resource = None THEN Resource ELSE {in.resource}
           cands == FreeBays(bays, in.start, local[r].minutes) \cap wanted
           onGrid == OnGrid(bays, in.start, local[r].minutes)
<1>1. local[r].in \in Inputs /\ local[r].provider \in Provider
      /\ tuple[r] = None /\ pc[r] # "idle"
  BY DEF ResourcesForStart, TypeInv, LocalInv, At
<1>2. UNCHANGED <<tables, bookings, tuple, mover, lister, cache, edits, faults>>
  BY DEF ResourcesForStart
<1>3. CASE ~onGrid
  <2>1. Answer(r, "OUTSIDE_HOURS")
    BY <1>3 DEF ResourcesForStart
  <2> QED BY <1>1, <1>2, <2>1, AnswerStep, LocalStep DEF Reply
<1>4. CASE onGrid /\ cands = {}
  <2>1. Answer(r, "SLOT_TAKEN")
    BY <1>4 DEF ResourcesForStart
  <2> QED BY <1>1, <1>2, <2>1, AnswerStep, LocalStep DEF Reply
<1>5. CASE onGrid /\ cands # {}
  <2> DEFINE v == [local[r] EXCEPT !.cands = cands, !.attempt = 0]
  <2>1. local' = [local EXCEPT ![r] = v] /\ pc' = [pc EXCEPT ![r] = "code"]
    BY <1>5 DEF ResourcesForStart, Goto
  <2>2. cands \in SUBSET Resource
    BY LocalType DEF Local, FreeBays
  <2> HIDE DEF cands, onGrid
  <2>3. 0 \in 0 .. maxAttempts - 1
    BY DEF maxAttempts
  <2>4. v \in Local
    BY <2>2, <2>3, LocalType DEF Local
  <2>5. v.in \in Inputs /\ v.provider \in Provider /\ v.cands # {}
    BY <1>1, <1>5, LocalType DEF Local
  <2> HIDE DEF v
  <2>6. OnlyRequest(r) /\ At(r)' /\ local' \in [Request -> Local]
        /\ pc' \in [Request -> Label]
    BY <1>1, <1>2, <2>1, <2>4, <2>5, SetLocal DEF At, OnlyRequest, Label
  <2> QED BY <1>2, <2>6, LocalStep DEF TypeInv, TypeOK
<1> QED BY <1>3, <1>4, <1>5

\* A failed insert without a tuple, or whose tuple is rolled back.
LEMMA FailStep ==
  ASSUME TypeInv, NEW r \in Request, NEW e \in Error, Fail(r, e),
         pc[r] \in {"code", "insert", "check"},
         tuple' = [tuple EXCEPT ![r] = None]
  PROVE  /\ OnlyRequest(r) /\ At(r)'
         /\ pc' \in [Request -> Label] /\ local' \in [Request -> Local]
         /\ tuple' \in [Request -> Row \cup {None}]
<1> DEFINE v == [local[r] EXCEPT !.err = e]
<1>1. v \in Local /\ v.in = local[r].in /\ v.provider = local[r].provider
      /\ v.cands = local[r].cands
  BY LocalType DEF Local
<1>2. local' = [local EXCEPT ![r] = v] /\ pc' = [pc EXCEPT ![r] = "failed"]
  BY DEF Fail, Goto
<1> HIDE DEF v
<1>3. tuple'[r] = None /\ tuple' \in [Request -> Row \cup {None}]
      /\ \A q \in Request \ {r} : tuple'[q] = tuple[q]
  BY DEF TypeInv, TypeOK
<1>4. local[r].in \in Inputs /\ local[r].provider \in Provider
      /\ local[r].cands # {}
  BY DEF TypeInv, LocalInv, At
<1> QED BY <1>1, <1>2, <1>3, <1>4, SetLocal DEF At, OnlyRequest, Label

\* A step that only writes local[r] and pc[r], outside a transaction.
LEMMA PlainStep ==
  ASSUME TypeInv, NEW r \in Request, NEW v \in Local, NEW l \in Label,
         local' = [local EXCEPT ![r] = v], pc' = [pc EXCEPT ![r] = l],
         tuple[r] = None, l \notin {"idle", "check", "options"},
         v.in \in Inputs,
         l \notin {"service", "done"} => v.provider \in Provider,
         l \in {"code", "insert", "failed"} => v.cands # {},
         l = "insert" => v.code \in Code,
         UNCHANGED <<tables, bookings, tuple, mover, lister, cache, edits, faults>>
  PROVE  TypeInv'
<1>1. OnlyRequest(r) /\ At(r)' /\ local' \in [Request -> Local]
      /\ pc' \in [Request -> Label]
  BY SetLocal DEF At, OnlyRequest
<1> QED BY <1>1, LocalStep DEF TypeInv, TypeOK

LEMMA ReserveCodeTypeInv ==
  ASSUME TypeInv, NEW r \in Request, ReserveCode(r)
  PROVE  TypeInv'
<1>1. local[r].in \in Inputs /\ local[r].provider \in Provider
      /\ local[r].cands # {} /\ tuple[r] = None /\ pc[r] = "code"
  BY DEF ReserveCode, TypeInv, LocalInv, At
<1>2. UNCHANGED <<tables, bookings, tuple, mover, lister, cache, edits, faults>>
  BY DEF ReserveCode
<1>3. CASE Fail(r, "codes_exhausted")
  <2>1. tuple' = [tuple EXCEPT ![r] = None]
    BY <1>1, <1>2 DEF TypeInv, TypeOK
  <2> QED BY <1>1, <1>2, <1>3, <2>1, FailStep, LocalStep DEF Error
<1>4. ASSUME NEW c \in Code \ UsedCodes, local' = [local EXCEPT ![r].code = c],
             Goto(r, "insert")
      PROVE  TypeInv'
  <2> DEFINE v == [local[r] EXCEPT !.code = c]
  <2>1. v \in Local /\ v.in = local[r].in /\ v.provider = local[r].provider
        /\ v.cands = local[r].cands /\ v.code = c
    BY LocalType DEF Local
  <2>2. local' = [local EXCEPT ![r] = v] /\ pc' = [pc EXCEPT ![r] = "insert"]
    BY <1>4 DEF Goto
  <2> HIDE DEF v
  <2> QED BY <1>1, <1>2, <2>1, <2>2, PlainStep DEF Label
<1> QED BY <1>3, <1>4 DEF ReserveCode

\* What an insert writes is a row of the table.
LEMMA NewRowType ==
  ASSUME TypeInv, NEW r \in Request, pc[r] = "insert"
  PROVE  NewRow(r) \in Row /\ NewRow(r) # None
<1>1. local[r].in \in Input /\ local[r].provider \in Provider
      /\ local[r].cands # {} /\ local[r].code \in Code
  BY SetAssumption DEF TypeInv, LocalInv, At
<1>2. Bay(r) \in Resource
  BY <1>1, LocalType, BayIsCandidate, SetAssumption DEF Local
<1>3. local[r].end \in Nat /\ local[r].status \in Status
  BY LocalType DEF Local, activeStatuses, Status
<1>4. NewRow(r) \in Row
  BY <1>1, <1>2, <1>3 DEF NewRow, Row, Input
<1> QED BY <1>4, SetAssumption

LEMMA InsertTupleTypeInv ==
  ASSUME TypeInv, NEW r \in Request, InsertTuple(r)
  PROVE  TypeInv'
<1>1. local[r].in \in Inputs /\ local[r].provider \in Provider
      /\ local[r].cands # {} /\ tuple[r] = None /\ pc[r] = "insert"
  BY DEF InsertTuple, TypeInv, LocalInv, At
<1>2. UNCHANGED <<tables, bookings, mover, lister, cache, edits, faults>>
  BY DEF InsertTuple
<1>3. CASE Fail(r, "unique_violation") /\ UNCHANGED tuple
  <2>1. tuple' = [tuple EXCEPT ![r] = None]
    BY <1>1, <1>3 DEF TypeInv, TypeOK
  <2> QED BY <1>1, <1>2, <1>3, <2>1, FailStep, LocalStep DEF Error
<1>4. CASE tuple' = [tuple EXCEPT ![r] = NewRow(r)] /\ Goto(r, "check")
           /\ UNCHANGED local
  <2>1. tuple' \in [Request -> Row \cup {None}] /\ tuple'[r] # None
        /\ \A q \in Request \ {r} : tuple'[q] = tuple[q]
    BY <1>1, <1>4, NewRowType DEF TypeInv, TypeOK
  <2>2. pc' \in [Request -> Label] /\ pc'[r] = "check"
        /\ \A q \in Request \ {r} : pc'[q] = pc[q]
    BY <1>4 DEF TypeInv, TypeOK, Goto, Label
  <2>3. OnlyRequest(r) /\ At(r)'
    BY <1>1, <1>4, <2>1, <2>2 DEF OnlyRequest, At
  <2> QED BY <1>2, <1>4, <2>1, <2>2, <2>3, LocalStep DEF TypeInv, TypeOK
<1> QED BY <1>3, <1>4 DEF InsertTuple

LEMMA RollbackTypeInv ==
  ASSUME TypeInv, NEW r \in Request, NEW e \in Error, Rollback(r, e),
         pc[r] = "check",
         UNCHANGED <<tables, bookings, mover, lister, cache, edits, faults>>
  PROVE  TypeInv'
BY FailStep, LocalStep DEF Rollback

LEMMA CheckConstraintsTypeInv ==
  ASSUME TypeInv, NEW r \in Request,
         CheckConstraints(r) \/ DeadlockDetected(r)
  PROVE  TypeInv'
<1>1. pc[r] = "check"
      /\ UNCHANGED <<tables, bookings, mover, lister, cache, edits, faults>>
  BY DEF CheckConstraints, DeadlockDetected
<1>2. CASE \E e \in Error : Rollback(r, e)
  BY <1>1, <1>2, RollbackTypeInv
<1>3. CASE Goto(r, "options") /\ UNCHANGED <<tuple, local>>
  <2>1. pc' \in [Request -> Label] /\ pc'[r] = "options"
        /\ \A q \in Request \ {r} : pc'[q] = pc[q]
    BY <1>3 DEF TypeInv, TypeOK, Goto, Label
  <2>2. OnlyRequest(r) /\ At(r)'
    BY <1>1, <1>3, <2>1 DEF OnlyRequest, At, TypeInv, LocalInv
  <2> QED BY <1>1, <1>3, <2>1, <2>2, LocalStep DEF TypeInv, TypeOK
<1> QED BY <1>2, <1>3 DEF CheckConstraints, DeadlockDetected, Error

\* The tuple becomes a row: of Commit, and of a COMMIT whose answer is lost.
LEMMA EndOfTransaction ==
  ASSUME TypeInv, NEW r \in Request, NEW v \in Local,
         NEW l \in {"invalidate", "done"},
         pc[r] = "options",
         v.in = local[r].in, v.provider = local[r].provider,
         local' = [local EXCEPT ![r] = v], pc' = [pc EXCEPT ![r] = l],
         tuple' = [tuple EXCEPT ![r] = None],
         bookings' = [bookings EXCEPT ![r] = tuple[r]],
         faults' \in 0 .. MaxFaults,
         UNCHANGED <<tables, mover, lister, cache, edits>>
  PROVE  TypeInv'
<1>1. local[r].in \in Inputs /\ local[r].provider \in Provider
      /\ tuple[r] # None
  BY DEF TypeInv, LocalInv, At
<1>2. tuple'[r] = None /\ tuple' \in [Request -> Row \cup {None}]
      /\ \A q \in Request \ {r} : tuple'[q] = tuple[q]
  BY DEF TypeInv, TypeOK
<1>3. bookings' \in [Request -> Row \cup {None}]
      /\ \A q \in Booked : bookings'[q] # None
  BY <1>1 DEF TypeInv, TypeOK, Booked
<1>4. OnlyRequest(r) /\ At(r)' /\ local' \in [Request -> Local]
      /\ pc' \in [Request -> Label]
  BY <1>1, <1>2, SetLocal DEF At, OnlyRequest, Label
<1>5. ListerInv' /\ lister' \in [Lister -> Listing]
      /\ cache' \in [Service -> [free : SUBSET (Start \X Resource),
                                 raced : BOOLEAN] \cup {None}]
  BY DEF TypeInv, TypeOK, ListerInv
<1> QED BY <1>2, <1>3, <1>4, <1>5, RequestStep

LEMMA CommitTypeInv ==
  ASSUME TypeInv, NEW r \in Request, Commit(r) \/ CommitAnswerLost(r)
  PROVE  TypeInv'
<1>1. local[r] \in Local
  BY LocalType
<1>2. CASE Commit(r)
  <2>1. local' = [local EXCEPT ![r] = local[r]]
    BY <1>2 DEF Commit, TypeInv, TypeOK
  <2>2. pc' = [pc EXCEPT ![r] = "invalidate"] /\ pc[r] = "options"
        /\ tuple' = [tuple EXCEPT ![r] = None]
        /\ bookings' = [bookings EXCEPT ![r] = tuple[r]]
        /\ UNCHANGED <<tables, mover, lister, cache, edits>>
    BY <1>2 DEF Commit, Goto
  <2>3. faults' \in 0 .. MaxFaults
    BY <1>2 DEF Commit, TypeInv, TypeOK
  <2> QED BY <1>1, <2>1, <2>2, <2>3, EndOfTransaction
<1>3. CASE CommitAnswerLost(r)
  <2> DEFINE v == [local[r] EXCEPT !.answer = "INTERNAL", !.err = "fault"]
  <2>1. v \in Local /\ v.in = local[r].in /\ v.provider = local[r].provider
    BY <1>1 DEF Local, Reply, Error
  <2>2. local' = [local EXCEPT ![r] = v] /\ pc' = [pc EXCEPT ![r] = "done"]
        /\ pc[r] = "options"
        /\ tuple' = [tuple EXCEPT ![r] = None]
        /\ bookings' = [bookings EXCEPT ![r] = tuple[r]]
        /\ UNCHANGED <<tables, mover, lister, cache, edits>>
    BY <1>3 DEF CommitAnswerLost, Goto
  <2>3. faults' \in 0 .. MaxFaults
    BY <1>3, BoundAssumption DEF CommitAnswerLost, TypeInv, TypeOK
  <2> HIDE DEF v
  <2> QED BY <2>1, <2>2, <2>3, EndOfTransaction
<1> QED BY <1>2, <1>3

LEMMA NextBayTypeInv ==
  ASSUME TypeInv, NEW r \in Request, NextBay(r), pc[r] = "failed",
         UNCHANGED <<tables, bookings, tuple, mover, lister, cache, edits, faults>>
  PROVE  TypeInv'
<1> DEFINE rest == local[r].cands \ {Bay(r)}
           left == IF local[r].err = "deadlock_detected" THEN {Bay(r)} ELSE {}
           given == local[r].gaveUp \cup left
<1>1. local[r].in \in Inputs /\ local[r].provider \in Provider
      /\ tuple[r] = None /\ local[r].cands # {}
  BY DEF TypeInv, LocalInv, At
<1>2. given \in SUBSET Resource /\ rest \in SUBSET Resource
  <2>1. Bay(r) \in Resource
    BY <1>1, LocalType, BayIsCandidate, SetAssumption DEF Local
  <2> QED BY <2>1, LocalType DEF Local
<1>3. CASE rest = {}
  <2> DEFINE v == [local[r] EXCEPT !.gaveUp = given, !.answer = "SLOT_TAKEN"]
  <2>1. local' = [local EXCEPT ![r] = v] /\ pc' = [pc EXCEPT ![r] = "done"]
    BY <1>3 DEF NextBay, Goto
  <2> HIDE DEF given
  <2>2. v \in Local /\ v.in = local[r].in
    BY <1>2, LocalType DEF Local, Reply
  <2> HIDE DEF v
  <2> QED BY <1>1, <2>1, <2>2, PlainStep DEF Label
<1>4. CASE rest # {}
  <2> DEFINE v == [local[r] EXCEPT !.gaveUp = given, !.cands = rest, !.attempt = 0]
  <2>1. local' = [local EXCEPT ![r] = v] /\ pc' = [pc EXCEPT ![r] = "code"]
    BY <1>4 DEF NextBay, Goto
  <2>2. 0 \in 0 .. maxAttempts - 1
    BY DEF maxAttempts
  <2> HIDE DEF rest, given
  <2>3. v \in Local /\ v.in = local[r].in /\ v.provider = local[r].provider
        /\ v.cands = rest
    BY <1>2, <2>2, LocalType DEF Local
  <2> HIDE DEF v
  <2> QED BY <1>1, <1>4, <2>1, <2>3, PlainStep DEF Label
<1> QED BY <1>3, <1>4

LEMMA TryResourceTypeInv ==
  ASSUME TypeInv, NEW r \in Request, TryResource(r)
  PROVE  TypeInv'
<1>1. local[r].in \in Inputs /\ local[r].provider \in Provider
      /\ tuple[r] = None /\ pc[r] = "failed" /\ local[r].cands # {}
  BY DEF TryResource, TypeInv, LocalInv, At
<1>2. UNCHANGED <<tables, bookings, tuple, mover, lister, cache, edits, faults>>
  BY DEF TryResource
<1>3. CASE NextBay(r)
  BY <1>1, <1>2, <1>3, NextBayTypeInv
<1>4. CASE Answer(r, "INTERNAL")
  BY <1>1, <1>2, <1>4, AnswerStep, LocalStep DEF Reply
<1>5. CASE /\ local[r].attempt < maxAttempts - 1
           /\ local' = [local EXCEPT ![r].attempt = @ + 1]
           /\ Goto(r, "code")
  <2> DEFINE n == local[r].attempt + 1
             v == [local[r] EXCEPT !.attempt = n]
  <2>1. local' = [local EXCEPT ![r] = v] /\ pc' = [pc EXCEPT ![r] = "code"]
    BY <1>5 DEF Goto
  <2>2. local[r].attempt \in 0 .. maxAttempts - 1
    BY LocalType DEF Local
  <2>3. n \in 0 .. maxAttempts - 1
    BY <1>5, <2>2 DEF maxAttempts
  <2> HIDE DEF n
  <2>4. v \in Local /\ v.in = local[r].in /\ v.provider = local[r].provider
        /\ v.cands = local[r].cands
    BY <2>3, LocalType DEF Local
  <2> HIDE DEF v
  <2> QED BY <1>1, <1>2, <2>1, <2>4, PlainStep DEF Label
<1> QED BY <1>3, <1>4, <1>5 DEF TryResource

LEMMA InvalidateType ==
  ASSUME TypeInv, NEW p, InvalidateProvider(p)
  PROVE  /\ lister' \in [Lister -> Listing] /\ ListerInv'
         /\ cache' \in [Service -> [free : SUBSET (Start \X Resource),
                                    raced : BOOLEAN] \cup {None}]
<1>1. cache' \in [Service -> [free : SUBSET (Start \X Resource),
                             raced : BOOLEAN] \cup {None}]
  BY DEF TypeInv, TypeOK, InvalidateProvider
<1>2. ASSUME NEW l \in Lister
      PROVE  /\ lister'[l] \in Listing /\ lister'[l].pc = lister[l].pc
             /\ lister'[l].service = lister[l].service
  <2>1. lister[l] \in Listing
    BY DEF TypeInv, TypeOK
  <2>2. [lister[l] EXCEPT !.raced = TRUE] \in Listing
        /\ [lister[l] EXCEPT !.raced = TRUE].pc = lister[l].pc
        /\ [lister[l] EXCEPT !.raced = TRUE].service = lister[l].service
    BY <2>1 DEF Listing
  <2> QED BY <2>1, <2>2 DEF InvalidateProvider
<1>3. lister' \in [Lister -> Listing]
  BY <1>2 DEF InvalidateProvider
<1> QED BY <1>1, <1>2, <1>3 DEF TypeInv, ListerInv

LEMMA FinishCreateTypeInv ==
  ASSUME TypeInv, NEW r \in Request, FinishCreate(r)
  PROVE  TypeInv'
<1>1. tuple[r] = None /\ pc[r] # "idle"
  BY DEF FinishCreate, TypeInv, LocalInv, At
<1>2. PICK c \in Reply : Answer(r, c)
  BY DEF FinishCreate, Reply
<1>3. OnlyRequest(r) /\ At(r)' /\ pc' \in [Request -> Label]
      /\ local' \in [Request -> Local] /\ tuple' \in [Request -> Row \cup {None}]
  BY <1>1, <1>2, AnswerStep DEF FinishCreate
<1>4. lister' \in [Lister -> Listing] /\ ListerInv'
      /\ cache' \in [Service -> [free : SUBSET (Start \X Resource),
                                 raced : BOOLEAN] \cup {None}]
  BY InvalidateType DEF FinishCreate
<1> QED BY <1>3, <1>4, RequestStep DEF FinishCreate, TypeInv, TypeOK, Booked

LEMMA FaultTypeInv ==
  ASSUME TypeInv, NEW r \in Request, Fault(r)
  PROVE  TypeInv'
<1> DEFINE v == [local[r] EXCEPT !.answer = "INTERNAL", !.err = "fault"]
<1>1. v \in Local /\ v.in = local[r].in
  BY LocalType DEF Local, Reply, Error
<1>2. local' = [local EXCEPT ![r] = v] /\ pc' = [pc EXCEPT ![r] = "done"]
  BY DEF Fault, Goto
<1> HIDE DEF v
<1>3. tuple'[r] = None /\ tuple' \in [Request -> Row \cup {None}]
      /\ \A q \in Request \ {r} : tuple'[q] = tuple[q]
  BY DEF Fault, TypeInv, TypeOK
<1>4. local[r].in \in Inputs
  BY DEF Fault, TypeInv, LocalInv, At
<1>5. OnlyRequest(r) /\ At(r)' /\ local' \in [Request -> Local]
      /\ pc' \in [Request -> Label]
  BY <1>1, <1>2, <1>3, <1>4, SetLocal DEF At, OnlyRequest, Label
<1>6. ListerInv' /\ faults' \in 0 .. MaxFaults
  BY BoundAssumption DEF Fault, TypeInv, TypeOK, ListerInv
<1> QED BY <1>3, <1>5, <1>6, RequestStep DEF Fault, TypeInv, TypeOK, Booked

\* A step of a lifecycle request, which may rewrite the row it names.
LEMMA MoverStep ==
  ASSUME TypeInv, NEW m \in Mover, NEW v \in Move,
         mover' = [mover EXCEPT ![m] = v],
         v.pc \in {"update", "invalidate"} => v.booking \in Booked,
         v.pc = "update" =>
           \E event \in Event : v.to \in NextStatus(v.from, event),
         bookings' \in [Request -> Row \cup {None}],
         \A q \in Booked : bookings'[q] # None,
         lister' \in [Lister -> Listing], ListerInv',
         cache' \in [Service -> [free : SUBSET (Start \X Resource),
                                raced : BOOLEAN] \cup {None}],
         faults' \in 0 .. MaxFaults,
         UNCHANGED <<tables, tuple, pc, local, edits>>
  PROVE  TypeInv'
<1>1. mover' \in [Mover -> Move] /\ mover'[m] = v
      /\ \A n \in Mover \ {m} : mover'[n] = mover[n]
  BY DEF TypeInv, TypeOK
<1>2. TypeOK'
  BY <1>1 DEF TypeInv, TypeOK, tables
<1>3. LocalInv'
  BY DEF TypeInv, LocalInv, At
<1>4. MoverInv'
  BY <1>1 DEF TypeInv, MoverInv, Booked
<1> QED BY <1>2, <1>3, <1>4 DEF TypeInv

LEMMA MoverType == ASSUME TypeInv, NEW m \in Mover PROVE mover[m] \in Move
BY DEF TypeInv, TypeOK

LEMMA ReadBookingTypeInv ==
  ASSUME TypeInv, NEW m \in Mover, ReadBooking(m)
  PROVE  TypeInv'
<1>1. UNCHANGED <<tables, bookings, tuple, pc, local, lister, cache, edits, faults>>
  BY DEF ReadBooking
<1>2. ListerInv' /\ \A q \in Booked : bookings'[q] # None
  BY <1>1 DEF TypeInv, ListerInv, Booked
<1>3. ASSUME NEW b \in Booked, NEW code \in {"NOT_FOUND", "INVALID_TRANSITION"},
             mover' = [mover EXCEPT ![m].pc = "done", ![m].booking = b,
                                    ![m].answer = code]
      PROVE  TypeInv'
  <2> DEFINE v == [mover[m] EXCEPT !.pc = "done", !.booking = b, !.answer = code]
  <2>1. v \in Move /\ v.pc = "done"
    BY MoverType DEF Move, Booked
  <2>2. mover' = [mover EXCEPT ![m] = v]
    BY <1>3
  <2> HIDE DEF v
  <2> QED BY <1>1, <1>2, <2>1, <2>2, MoverStep DEF TypeInv, TypeOK
<1>4. ASSUME NEW b \in Booked, NEW event \in Event,
             NEW to \in NextStatus(bookings[b].status, event),
             mover' = [mover EXCEPT ![m].pc = "update", ![m].booking = b,
                                    ![m].from = bookings[b].status, ![m].to = to]
      PROVE  TypeInv'
  <2> DEFINE v == [mover[m] EXCEPT !.pc = "update", !.booking = b,
                                   !.from = bookings[b].status, !.to = to]
  <2>1. bookings[b].status \in Status /\ to \in Status /\ b \in Request
    BY DEF TypeInv, TypeOK, Booked, Row, NextStatus
  <2>2. v \in Move /\ v.booking = b /\ v.from = bookings[b].status /\ v.to = to
    BY <2>1, MoverType DEF Move
  <2>3. mover' = [mover EXCEPT ![m] = v]
    BY <1>4
  <2> HIDE DEF v
  <2> QED BY <1>1, <1>2, <2>2, <2>3, MoverStep DEF TypeInv, TypeOK
<1> QED BY <1>3, <1>4 DEF ReadBooking

\* What an UPDATE of a status does to the table.
LEMMA StatusUpdate ==
  ASSUME TypeInv, NEW b \in Booked, NEW to \in Status,
         bookings' = [bookings EXCEPT ![b].status = to,
                                      ![b].cancelledBy = CancelledBy(to)]
  PROVE  /\ bookings' \in [Request -> Row \cup {None}]
         /\ \A q \in Booked : bookings'[q] # None
         /\ \A q \in Request \ {b} : bookings'[q] = bookings[q]
         /\ bookings'[b].status = to
         /\ \A f \in {"resource", "start", "end", "provider", "code"} :
              bookings'[b][f] = bookings[b][f]
<1> DEFINE v == [bookings[b] EXCEPT !.status = to, !.cancelledBy = CancelledBy(to)]
<1>1. CancelledBy(to) \in {"customer", "provider", "nobody"}
  BY DEF CancelledBy
<1>2. bookings[b] \in Row /\ b \in Request
  BY DEF TypeInv, TypeOK, Booked
<1>3. v \in Row
  BY <1>1, <1>2 DEF Row
<1>4. v.status = to /\ \A f \in {"resource", "start", "end", "provider", "code"} :
                          v[f] = bookings[b][f]
  BY <1>2 DEF Row
<1>5. bookings' = [bookings EXCEPT ![b] = v]
  OBVIOUS
<1> HIDE DEF v
<1>6. v # None
  BY <1>3, SetAssumption
<1>7. bookings'[b] = v /\ \A q \in Request \ {b} : bookings'[q] = bookings[q]
  BY <1>2, <1>5 DEF TypeInv, TypeOK
<1>8. bookings' \in [Request -> Row \cup {None}]
  BY <1>2, <1>3, <1>5 DEF TypeInv, TypeOK
<1>9. \A q \in Booked : bookings'[q] # None
  BY <1>6, <1>7 DEF Booked
<1> QED BY <1>4, <1>7, <1>8, <1>9

LEMMA TransitionTypeInv ==
  ASSUME TypeInv, NEW m \in Mover,
         TransitionBooking(m) \/ FinishTransition(m) \/ TransitionFault(m)
  PROVE  TypeInv'
<1> DEFINE b == mover[m].booking
<1>1. b \in Booked
  BY DEF TypeInv, MoverInv, TransitionBooking, FinishTransition, TransitionFault
<1>2. mover[m].to \in Status
  BY MoverType DEF Move
<1>3. /\ bookings' \in [Request -> Row \cup {None}]
      /\ \A q \in Booked : bookings'[q] # None
  <2>1. CASE UNCHANGED bookings
    BY <2>1 DEF TypeInv, TypeOK, Booked
  <2>2. CASE SetStatus(m)
    <3> DEFINE to == mover[m].to
    <3>1. to \in Status /\ bookings' = [bookings EXCEPT
                  ![b].status = to, ![b].cancelledBy = CancelledBy(to)]
      BY <1>2, <2>2 DEF SetStatus
    <3> HIDE DEF to, b
    <3> QED BY <1>1, <3>1, StatusUpdate
  <2> QED BY <2>1, <2>2 DEF TransitionBooking, FinishTransition, TransitionFault
<1>4. PICK v \in Move : /\ v.pc \in {"invalidate", "done"} /\ v.booking = b
                         /\ mover' = [mover EXCEPT ![m] = v]
  <2> DEFINE set(l, answer) == [mover[m] EXCEPT !.pc = l, !.answer = answer]
             end(l) == [mover[m] EXCEPT !.pc = l]
  <2>1. ASSUME NEW l \in {"invalidate", "done"},
               NEW answer \in {"OK", "INVALID_TRANSITION", "INTERNAL"}
        PROVE  set(l, answer) \in Move /\ set(l, answer).pc = l
               /\ set(l, answer).booking = b
    BY MoverType DEF Move
  <2>2. end("done") \in Move /\ end("done").pc = "done" /\ end("done").booking = b
    BY MoverType DEF Move
  <2>3. CASE TransitionBooking(m)
    <3>1. \E l \in {"invalidate", "done"}, answer \in {"OK", "INVALID_TRANSITION", "INTERNAL"} :
            mover' = [mover EXCEPT ![m] = set(l, answer)]
      BY <2>3 DEF TransitionBooking
    <3> QED BY <2>1, <3>1
  <2>4. CASE TransitionFault(m)
    <3>1. mover' = [mover EXCEPT ![m] = set("done", "INTERNAL")]
      BY <2>4 DEF TransitionFault
    <3> HIDE DEF set
    <3> QED BY <2>1, <3>1
  <2>5. CASE FinishTransition(m)
    <3>1. mover' = [mover EXCEPT ![m] = end("done")]
      BY <2>5 DEF FinishTransition
    <3> HIDE DEF end
    <3> QED BY <2>2, <3>1
  <2> QED BY <2>3, <2>4, <2>5
<1>7. /\ lister' \in [Lister -> Listing] /\ ListerInv'
      /\ cache' \in [Service -> [free : SUBSET (Start \X Resource),
                                 raced : BOOLEAN] \cup {None}]
  <2>1. CASE FinishTransition(m)
    BY <2>1, InvalidateType DEF FinishTransition
  <2>2. CASE UNCHANGED <<lister, cache>>
    BY <2>2 DEF TypeInv, TypeOK, ListerInv
  <2> QED BY <2>1, <2>2 DEF TransitionBooking, TransitionFault
<1>8. faults' \in 0 .. MaxFaults /\ UNCHANGED <<tables, tuple, pc, local, edits>>
  BY BoundAssumption
     DEF TransitionBooking, FinishTransition, TransitionFault, TypeInv, TypeOK
<1> QED BY <1>1, <1>3, <1>4, <1>7, <1>8, MoverStep

\* A step of neither kind of request: of a lister, the cache or the staff.
LEMMA OtherStep ==
  ASSUME TypeInv, TypeOK', ListerInv', \A q \in Booked : bookings'[q] # None,
         UNCHANGED <<tuple, pc, local, mover>>
  PROVE  TypeInv'
<1>1. LocalInv'
  BY DEF TypeInv, LocalInv, At
<1>2. MoverInv'
  BY DEF TypeInv, MoverInv, Booked, TypeOK
<1> QED BY <1>1, <1>2 DEF TypeInv

\* A step that only writes a lister, and perhaps the cache.
LEMMA ListerStep ==
  ASSUME TypeInv, NEW l \in Lister, NEW v \in Listing,
         v.pc # "idle" => v.service \in Service,
         lister' = [lister EXCEPT ![l] = v],
         cache' \in [Service -> [free : SUBSET (Start \X Resource),
                                raced : BOOLEAN] \cup {None}],
         UNCHANGED <<tables, bookings, tuple, pc, local, mover, edits, faults>>
  PROVE  TypeInv'
<1>1. lister' \in [Lister -> Listing] /\ ListerInv'
  BY DEF TypeInv, TypeOK, ListerInv
<1>2. TypeOK'
  BY <1>1 DEF TypeInv, TypeOK, tables
<1> QED BY <1>1, <1>2, OtherStep DEF Booked

LEMMA ListResourcesTypeInv ==
  ASSUME TypeInv, NEW l \in Lister, ListResources(l)
  PROVE  TypeInv'
<1>1. PICK s \in Service : lister' = [lister EXCEPT
             ![l] = [NoListing EXCEPT !.pc = "busy", !.service = s,
                       !.minutes = TotalDuration(s), !.bays = BaysFor(s)]]
  BY DEF ListResources
<1> DEFINE v == [NoListing EXCEPT !.pc = "busy", !.service = s,
                   !.minutes = TotalDuration(s), !.bays = BaysFor(s)]
<1>2. TotalDuration(s) \in Nat /\ BaysFor(s) \in SUBSET Resource
  BY SetAssumption DEF TypeInv, TypeOK, BaysFor, TotalDuration
<1>3. v \in Listing /\ v.service = s
  BY <1>2 DEF Listing, NoListing
<1>4. lister' = [lister EXCEPT ![l] = v]
  BY <1>1
<1> HIDE DEF v
<1> QED BY <1>3, <1>4, ListerStep DEF ListResources, TypeInv, TypeOK

LEMMA ListBusyTypeInv ==
  ASSUME TypeInv, NEW l \in Lister, ListBusyIntervals(l)
  PROVE  TypeInv'
<1> DEFINE free == GenerateSlots(lister[l].bays, lister[l].minutes)
           v == [lister[l] EXCEPT !.pc = "put", !.free = free]
<1>1. free \in SUBSET (Start \X Resource)
  BY DEF GenerateSlots
<1>2. lister[l] \in Listing /\ lister[l].service \in Service
  BY DEF ListBusyIntervals, TypeInv, TypeOK, ListerInv
<1>3. lister' = [lister EXCEPT ![l] = v]
  BY DEF ListBusyIntervals
<1> HIDE DEF free
<1>4. v \in Listing /\ v.service \in Service
  BY <1>1, <1>2 DEF Listing
<1> HIDE DEF v
<1> QED BY <1>3, <1>4, ListerStep DEF ListBusyIntervals, TypeInv, TypeOK

LEMMA CachePutTypeInv ==
  ASSUME TypeInv, NEW l \in Lister, CachePut(l)
  PROVE  TypeInv'
<1> DEFINE entry == [free |-> lister[l].free, raced |-> lister[l].raced]
<1>1. lister[l].free \in SUBSET (Start \X Resource) /\ lister[l].raced \in BOOLEAN
  BY DEF TypeInv, TypeOK, Listing
<1>2. cache' \in [Service -> [free : SUBSET (Start \X Resource),
                             raced : BOOLEAN] \cup {None}]
  BY <1>1 DEF CachePut, TypeInv, TypeOK
<1>3. NoListing \in Listing /\ NoListing.pc = "idle"
  BY DEF NoListing, Listing
<1> QED BY <1>2, <1>3, ListerStep DEF CachePut

LEMMA CacheExpireTypeInv ==
  ASSUME TypeInv, NEW s \in Service, CacheExpire(s)
  PROVE  TypeInv'
<1>1. TypeOK'
  BY DEF CacheExpire, TypeInv, TypeOK, tables
<1>2. ListerInv'
  BY DEF CacheExpire, TypeInv, ListerInv
<1> QED BY <1>1, <1>2, OtherStep DEF CacheExpire, Booked

LEMMA EditCounted == ASSUME TypeInv, Edit PROVE edits' \in 0 .. MaxEdits
BY BoundAssumption DEF Edit, TypeInv, TypeOK

LEMMA ServiceTypeInv ==
  ASSUME TypeInv, NEW s \in Service, UpdateService(s) \/ DeleteService(s)
  PROVE  TypeInv'
<1>1. service' \in [Service -> [state : {"active", "inactive", "deleted"},
                               minutes : Minutes]]
  <2>1. service[s] \in [state : {"active", "inactive", "deleted"}, minutes : Minutes]
    BY DEF TypeInv, TypeOK
  <2>2. [service[s] EXCEPT !.state = "deleted"]
          \in [state : {"active", "inactive", "deleted"}, minutes : Minutes]
    BY <2>1
  <2>3. CASE UpdateService(s)
    BY <2>3 DEF UpdateService, TypeInv, TypeOK
  <2>4. CASE DeleteService(s)
    <3> DEFINE v == [service[s] EXCEPT !.state = "deleted"]
    <3>1. service' = [service EXCEPT ![s] = v]
      BY <2>4 DEF DeleteService
    <3> HIDE DEF v
    <3> QED BY <2>2, <3>1 DEF v, TypeInv, TypeOK
  <2> QED BY <2>3, <2>4
<1>2. /\ bookings' \in [Request -> Row \cup {None}]
      /\ \A q \in Booked : bookings'[q] # None
  <2>1. CASE UpdateService(s)
    BY <2>1 DEF UpdateService, TypeInv, TypeOK, Booked
  <2>2. CASE DeleteService(s)
    <3>1. ASSUME NEW q \in Booked
          PROVE  [bookings[q] EXCEPT !.service = None] \in Row
      <4>1. bookings[q] \in Row
        BY DEF TypeInv, TypeOK, Booked
      <4> QED BY <4>1 DEF Row
    <3>2. ASSUME NEW q \in Request
          PROVE  /\ bookings'[q] \in Row \cup {None}
                 /\ q \in Booked => bookings'[q] # None
      BY <2>2, <3>1, SetAssumption DEF DeleteService, TypeInv, TypeOK, Booked
    <3> QED BY <2>2, <3>2 DEF DeleteService, Booked
  <2> QED BY <2>1, <2>2
<1>3. TypeOK'
  BY <1>1, <1>2, EditCounted DEF UpdateService, DeleteService, TypeInv, TypeOK
<1>4. ListerInv'
  BY DEF UpdateService, DeleteService, TypeInv, ListerInv
<1> QED BY <1>2, <1>3, <1>4, OtherStep DEF UpdateService, DeleteService

LEMMA ProviderTypeInv ==
  ASSUME TypeInv, NEW p \in Provider, UpdateProvider(p)
  PROVE  TypeInv'
<1>1. TypeOK'
  BY EditCounted DEF UpdateProvider, TypeInv, TypeOK
<1>2. ListerInv'
  BY DEF UpdateProvider, TypeInv, ListerInv
<1> QED BY <1>1, <1>2, OtherStep DEF UpdateProvider, Booked

LEMMA ResourceTypeInv ==
  ASSUME TypeInv, NEW b \in Resource, UpdateResource(b) \/ DeleteResource(b)
  PROVE  TypeInv'
<1>1. /\ lister' \in [Lister -> Listing] /\ ListerInv'
      /\ cache' \in [Service -> [free : SUBSET (Start \X Resource),
                                 raced : BOOLEAN] \cup {None}]
  <2>1. CASE InvalidateProvider(BayOwner[b])
    BY <2>1, InvalidateType
  <2>2. CASE UNCHANGED <<lister, cache>>
    BY <2>2 DEF TypeInv, TypeOK, ListerInv
  <2> QED BY <2>1, <2>2 DEF UpdateResource, DeleteResource
<1>2. faults' \in 0 .. MaxFaults
  BY BoundAssumption DEF UpdateResource, DeleteResource, TypeInv, TypeOK
<1>3. TypeOK'
  BY <1>1, <1>2, EditCounted DEF UpdateResource, DeleteResource, TypeInv, TypeOK
<1> QED BY <1>1, <1>3, OtherStep DEF UpdateResource, DeleteResource, Booked

\* TypeInv is inductive: one step per action.
LEMMA NextTypeInv ==
  ASSUME TypeInv, [Next]_vars
  PROVE  TypeInv'
<1>1. CASE UNCHANGED vars
  <2>1. TypeOK' /\ ListerInv'
    BY <1>1 DEF vars, tables, TypeInv, TypeOK, ListerInv
  <2> QED BY <1>1, <2>1, OtherStep DEF vars, Booked
<1>2. ASSUME NEW r \in Request,
             Submit(r) \/ CreateStep(r) \/ Fault(r) \/ CommitAnswerLost(r)
      PROVE  TypeInv'
  BY <1>2, SubmitTypeInv, GetServiceTypeInv, ResolveTypeInv,
     ResourcesForStartTypeInv, ReserveCodeTypeInv, InsertTupleTypeInv,
     CheckConstraintsTypeInv, CommitTypeInv, TryResourceTypeInv,
     FinishCreateTypeInv, FaultTypeInv DEF CreateStep
<1>3. ASSUME NEW m \in Mover, ReadBooking(m) \/ MoveStep(m) \/ TransitionFault(m)
      PROVE  TypeInv'
  BY <1>3, ReadBookingTypeInv, TransitionTypeInv DEF MoveStep
<1>4. ASSUME NEW l \in Lister,
             ListResources(l) \/ ListBusyIntervals(l) \/ CachePut(l)
      PROVE  TypeInv'
  BY <1>4, ListResourcesTypeInv, ListBusyTypeInv, CachePutTypeInv
<1>5. ASSUME NEW s \in Service,
             CacheExpire(s) \/ UpdateService(s) \/ DeleteService(s)
      PROVE  TypeInv'
  BY <1>5, CacheExpireTypeInv, ServiceTypeInv
<1> QED BY <1>1, <1>2, <1>3, <1>4, <1>5, ProviderTypeInv, ResourceTypeInv DEF Next

LEMMA SpecTypeInv == Spec => []TypeInv
BY InitTypeInv, NextTypeInv, PTL DEF Spec

\* Every variable keeps its type in every execution of the engine, for any
\* number of requests, resources, services, edits and faults.
THEOREM TypeCorrect == Spec => []TypeOK
<1>1. TypeInv => TypeOK
  BY DEF TypeInv
<1> QED BY <1>1, SpecTypeInv, PTL

-----------------------------------------------------------------------------
(* No double booking.  NoDoubleBooking is not inductive: a commit writes   *)
(* down a tuple that was checked in an earlier step.  What carries it over *)
(* is that a checked tuple stays clear of the table and of every other     *)
(* checked tuple until its transaction ends.                               *)

Clear(r) ==
  pc[r] = "options" =>
    /\ \A q \in Booked : ~Conflict(bookings[q], tuple[r])
    /\ \A q \in Request \ {r} :
         pc[q] = "options" => ~Conflict(tuple[q], tuple[r])

\* NoDoubleBooking, in the words of the constraint.
NoConflict == \A q, r \in Booked : q # r => ~Conflict(bookings[q], bookings[r])

\* A request has no row before its transaction ends.
Unbooked(r) == pc[r] \notin {"invalidate", "done"} => r \notin Booked

SafeInv ==
  /\ NoConflict
  /\ \A r \in Request : Clear(r) /\ Unbooked(r)

\* Row x occupies no more than row y did.
OccupiesNoMore(x, y) ==
  /\ x.resource = y.resource /\ x.start = y.start /\ x.end = y.end
  /\ IsActive(x.status) => IsActive(y.status)

\* Rows that occupy no more than they did keep the table safe, whatever the
\* requests do short of passing the check.
LEMMA ShrinkSafe ==
  ASSUME SafeInv, Booked' \subseteq Booked,
         \A q \in Booked' : OccupiesNoMore(bookings'[q], bookings[q]),
         \A r \in Request : pc'[r] = "options" =>
            pc[r] = "options" /\ tuple'[r] = tuple[r],
         \A r \in Request : pc'[r] \notin {"invalidate", "done"} =>
            pc[r] \notin {"invalidate", "done"}
  PROVE  SafeInv'
<1>1. NoConflict'
  <2> SUFFICES ASSUME NEW q \in Booked', NEW r \in Booked', q # r,
                      Conflict(bookings'[q], bookings'[r])
               PROVE  FALSE
    BY DEF NoConflict, Conflict, Overlap
  <2>1. Conflict(bookings[q], bookings[r])
    BY DEF Conflict, Overlap, OccupiesNoMore
  <2> QED BY <2>1 DEF SafeInv, NoConflict
<1>2. ASSUME NEW r \in Request PROVE Clear(r)'
  <2> SUFFICES ASSUME pc'[r] = "options"
               PROVE  /\ \A q \in Booked' : ~Conflict(bookings'[q], tuple[r])
                      /\ \A q \in Request \ {r} :
                           pc'[q] = "options" => ~Conflict(tuple[q], tuple[r])
    BY DEF Clear, Conflict, Overlap
  <2>1. Clear(r) /\ pc[r] = "options"
    BY DEF SafeInv
  <2>2. ASSUME NEW q \in Booked' PROVE ~Conflict(bookings'[q], tuple[r])
    BY <2>1, <2>2 DEF Clear, Conflict, Overlap, OccupiesNoMore
  <2> QED BY <2>1, <2>2 DEF Clear
<1>3. ASSUME NEW r \in Request PROVE Unbooked(r)'
  BY DEF SafeInv, Unbooked
<1> QED BY <1>1, <1>2, <1>3 DEF SafeInv

\* The same when the table does not change.
LEMMA SameTableSafe ==
  ASSUME SafeInv, UNCHANGED bookings,
         \A r \in Request : pc'[r] = "options" =>
            pc[r] = "options" /\ tuple'[r] = tuple[r],
         \A r \in Request : pc'[r] \notin {"invalidate", "done"} =>
            pc[r] \notin {"invalidate", "done"}
  PROVE  SafeInv'
BY ShrinkSafe DEF Booked, OccupiesNoMore

\* The steps of a reservation before its check, between two attempts and
\* after its commit.
LEMMA QuietStepSafe ==
  ASSUME TypeInv, SafeInv, NEW r \in Request,
         \/ Submit(r) \/ GetServiceWithProvider(r) \/ ResolveScheduling(r)
         \/ ResourcesForStart(r) \/ ReserveCode(r) \/ InsertTuple(r)
         \/ DeadlockDetected(r) \/ TryResource(r) \/ FinishCreate(r) \/ Fault(r)
  PROVE  SafeInv'
<1>1. pc \in [Request -> Label] /\ tuple \in [Request -> Row \cup {None}]
  BY DEF TypeInv, TypeOK
<1>2. UNCHANGED bookings
  BY DEF Submit, GetServiceWithProvider, ResolveScheduling, ResourcesForStart,
         ReserveCode, InsertTuple, DeadlockDetected, TryResource, FinishCreate,
         Fault
<1>3. \E l \in Label \ {"options"} :
        /\ pc' = [pc EXCEPT ![r] = l]
        /\ pc[r] = "invalidate" => l = "done"
        /\ pc[r] # "done"
  <2> USE DEF Goto, Answer, Fail, Rollback, NextBay, Label
  <2>1. CASE Submit(r) \/ GetServiceWithProvider(r) \/ ResolveScheduling(r)
             \/ ResourcesForStart(r)
    BY <2>1 DEF Submit, GetServiceWithProvider, ResolveScheduling,
                ResourcesForStart
  <2>2. CASE ReserveCode(r) \/ InsertTuple(r) \/ DeadlockDetected(r)
    BY <2>2 DEF ReserveCode, InsertTuple, DeadlockDetected
  <2>3. CASE TryResource(r) \/ FinishCreate(r) \/ Fault(r)
    BY <2>3 DEF TryResource, FinishCreate, Fault
  <2> QED BY <2>1, <2>2, <2>3
<1>4. \A q \in Request \ {r} : tuple'[q] = tuple[q]
  BY <1>1 DEF Submit, GetServiceWithProvider, ResolveScheduling,
         ResourcesForStart, ReserveCode, InsertTuple, DeadlockDetected,
         TryResource, FinishCreate, Fault, Rollback
<1> QED BY <1>1, <1>2, <1>3, <1>4, SameTableSafe

\* A tuple that passes the check is clear of the table, and of every tuple
\* whose transaction is running.
LEMMA CheckSafe ==
  ASSUME TypeInv, SafeInv, NEW r \in Request, CheckConstraints(r)
  PROVE  SafeInv'
<1>1. pc \in [Request -> Label] /\ tuple \in [Request -> Row \cup {None}]
      /\ UNCHANGED bookings /\ pc[r] = "check"
  BY DEF TypeInv, TypeOK, CheckConstraints
<1>2. CASE \E e \in Error : Rollback(r, e)
  BY <1>1, <1>2, SameTableSafe DEF Rollback, Fail, Goto
<1>3. CASE /\ ~\E q \in Booked : Conflict(bookings[q], tuple[r])
           /\ WaitsFor(r) = {}
           /\ Goto(r, "options") /\ UNCHANGED tuple
  <2>1. pc'[r] = "options" /\ \A q \in Request \ {r} : pc'[q] = pc[q]
    BY <1>1, <1>3 DEF Goto
  <2>2. ASSUME NEW q \in Request \ {r}, pc[q] = "options"
        PROVE  ~Conflict(tuple[q], tuple[r]) /\ ~Conflict(tuple[r], tuple[q])
    <3>1. q \in Open
      BY <2>2 DEF TypeInv, LocalInv, At, Open
    <3> QED BY <1>3, <3>1, ConflictSymmetric DEF WaitsFor
  <2>3. NoConflict'
    BY <1>1 DEF SafeInv, NoConflict, Booked, Conflict, Overlap
  <2>4. ASSUME NEW q \in Request PROVE Clear(q)'
    <3>1. CASE q = r
      BY <1>1, <1>3, <2>1, <2>2, <3>1 DEF Clear, Booked, Conflict, Overlap
    <3>2. CASE q # r
      BY <1>1, <1>3, <2>1, <2>2, <3>2 DEF SafeInv, Clear, Booked, Conflict, Overlap
    <3> QED BY <3>1, <3>2
  <2>5. ASSUME NEW q \in Request PROVE Unbooked(q)'
    BY <1>1, <2>1 DEF SafeInv, Unbooked, Booked
  <2> QED BY <2>3, <2>4, <2>5 DEF SafeInv
<1> QED BY <1>2, <1>3 DEF CheckConstraints, Error

\* A commit adds a row that was clear and leaves the other checked tuples so.
LEMMA CommitSafe ==
  ASSUME TypeInv, SafeInv, NEW r \in Request, Commit(r) \/ CommitAnswerLost(r)
  PROVE  SafeInv'
<1>1. /\ pc[r] = "options" /\ pc'[r] \in {"invalidate", "done"}
      /\ \A q \in Request \ {r} : pc'[q] = pc[q] /\ tuple'[q] = tuple[q]
      /\ bookings'[r] = tuple[r]
      /\ \A q \in Request \ {r} : bookings'[q] = bookings[q]
  BY DEF TypeInv, TypeOK, Commit, CommitAnswerLost, Goto
<1>2. /\ \A q \in Booked : ~Conflict(bookings[q], tuple[r])
      /\ \A q \in Request \ {r} : pc[q] = "options" =>
                                     ~Conflict(tuple[q], tuple[r])
  BY <1>1 DEF SafeInv, Clear
<1>3. \A q \in Booked' : q # r => q \in Booked /\ bookings'[q] = bookings[q]
  BY <1>1 DEF Booked
<1>4. NoConflict'
  <2> SUFFICES ASSUME NEW p \in Booked', NEW q \in Booked', p # q
               PROVE  ~Conflict(bookings'[p], bookings'[q])
    BY DEF NoConflict, Conflict, Overlap
  <2>1. CASE p # r /\ q # r
    BY <1>3, <2>1 DEF SafeInv, NoConflict
  <2>2. CASE q = r
    BY <1>1, <1>2, <1>3, <2>2
  <2>3. CASE p = r
    BY <1>1, <1>2, <1>3, <2>3, ConflictSymmetric
  <2> QED BY <2>1, <2>2, <2>3
<1>5. ASSUME NEW q \in Request PROVE Clear(q)'
  <2> SUFFICES ASSUME q # r, pc[q] = "options"
               PROVE  /\ \A p \in Booked' : ~Conflict(bookings'[p], tuple[q])
                      /\ \A p \in Request \ {q} :
                           pc'[p] = "options" => ~Conflict(tuple'[p], tuple[q])
    BY <1>1 DEF Clear, Conflict, Overlap
  <2>1. Clear(q)
    BY DEF SafeInv
  <2>2. ASSUME NEW p \in Booked' PROVE ~Conflict(bookings'[p], tuple[q])
    <3>1. CASE p = r
      BY <1>1, <1>2, <3>1, ConflictSymmetric
    <3>2. CASE p # r
      BY <1>3, <2>1, <3>2 DEF Clear
    <3> QED BY <3>1, <3>2
  <2> QED BY <1>1, <2>1, <2>2 DEF Clear
<1>6. ASSUME NEW q \in Request PROVE Unbooked(q)'
  BY <1>1, <1>3 DEF SafeInv, Unbooked
<1> QED BY <1>4, <1>5, <1>6 DEF SafeInv

\* An edge of the transition table never makes a resting booking active.
LEMMA EdgeKeepsRest ==
  ASSUME NEW from, NEW event, NEW to \in NextStatus(from, event), IsActive(to)
  PROVE  IsActive(from)
BY DEF NextStatus, transitions, IsActive, activeStatuses

\* The ways in which a row changes: an edge of the lifecycle, or the service
\* it refers to going away.
Moved(b) ==
  \E event \in Event : \E to \in NextStatus(bookings[b].status, event) :
    bookings' = [bookings EXCEPT ![b].status = to,
                                 ![b].cancelledBy = CancelledBy(to)]

LEMMA TransitionMoves ==
  ASSUME TypeInv, NEW m \in Mover,
         ReadBooking(m) \/ MoveStep(m) \/ TransitionFault(m)
  PROVE  /\ UNCHANGED <<pc, tuple>>
         /\ UNCHANGED bookings \/ \E b \in Booked : Moved(b)
<1>1. UNCHANGED <<pc, tuple>>
  BY DEF ReadBooking, MoveStep, TransitionBooking, FinishTransition, TransitionFault
<1>2. CASE mover[m].pc = "update" /\ MatchesRow(m)
  <2>1. mover[m].booking \in Booked
        /\ \E event \in Event : mover[m].to \in NextStatus(mover[m].from, event)
    BY <1>2 DEF TypeInv, MoverInv
  <2> QED BY ZenonT(60), <1>1, <1>2, <2>1
         DEF Moved, MatchesRow, SetStatus, ReadBooking, MoveStep, TransitionBooking,
             FinishTransition, TransitionFault
<1>3. CASE ~(mover[m].pc = "update" /\ MatchesRow(m))
  BY <1>1, <1>3 DEF ReadBooking, MoveStep, TransitionBooking, FinishTransition,
             TransitionFault
<1> QED BY <1>2, <1>3

LEMMA MovedRow ==
  ASSUME TypeInv, NEW b \in Booked, Moved(b)
  PROVE  /\ Booked' = Booked
         /\ \A q \in Booked \ {b} : bookings'[q] = bookings[q]
         /\ OccupiesNoMore(bookings'[b], bookings[b])
         /\ \E event \in Event :
              bookings'[b].status \in NextStatus(bookings[b].status, event)
<1>1. PICK event \in Event, to \in Status :
        /\ to \in NextStatus(bookings[b].status, event)
        /\ bookings' = [bookings EXCEPT ![b].status = to,
                                        ![b].cancelledBy = CancelledBy(to)]
  BY DEF Moved, NextStatus
<1>2. to \in Status
  BY DEF NextStatus
<1>3. /\ bookings' \in [Request -> Row \cup {None}]
      /\ \A q \in Booked : bookings'[q] # None
      /\ \A q \in Request \ {b} : bookings'[q] = bookings[q]
      /\ bookings'[b].status = to
      /\ bookings'[b].resource = bookings[b].resource
      /\ bookings'[b].start = bookings[b].start
      /\ bookings'[b].end = bookings[b].end
  BY <1>1, <1>2, StatusUpdate
<1>4. Booked' = Booked
  BY <1>3 DEF Booked
<1>5. IsActive(to) => IsActive(bookings[b].status)
  BY <1>1, EdgeKeepsRest
<1> QED BY <1>1, <1>3, <1>4, <1>5 DEF OccupiesNoMore, Booked

LEMMA TransitionSafe ==
  ASSUME TypeInv, SafeInv, NEW m \in Mover,
         ReadBooking(m) \/ MoveStep(m) \/ TransitionFault(m)
  PROVE  SafeInv'
<1>1. UNCHANGED <<pc, tuple>>
  BY TransitionMoves
<1>2. CASE UNCHANGED bookings
  BY <1>1, <1>2, SameTableSafe
<1>3. CASE \E b \in Booked : Moved(b)
  <2>1. PICK b \in Booked : Moved(b)
    BY <1>3
  <2>2. /\ Booked' = Booked
        /\ \A q \in Booked \ {b} : bookings'[q] = bookings[q]
        /\ OccupiesNoMore(bookings'[b], bookings[b])
    BY <2>1, MovedRow
  <2>3. \A q \in Booked' : OccupiesNoMore(bookings'[q], bookings[q])
    BY <2>2 DEF OccupiesNoMore
  <2> QED BY <1>1, <2>2, <2>3, ShrinkSafe
<1> QED BY <1>2, <1>3, TransitionMoves

\* Deleting a service keeps resource, time and status of its bookings.
LEMMA DeletedServiceRow ==
  ASSUME TypeInv, NEW s \in Service, DeleteService(s)
  PROVE  /\ UNCHANGED <<pc, tuple>>
         /\ Booked' = Booked
         /\ \A q \in Booked : /\ OccupiesNoMore(bookings'[q], bookings[q])
                              /\ bookings'[q].status = bookings[q].status
<1>1. ASSUME NEW q \in Booked
      PROVE  /\ bookings'[q] # None
             /\ bookings'[q].resource = bookings[q].resource
             /\ bookings'[q].start = bookings[q].start
             /\ bookings'[q].end = bookings[q].end
             /\ bookings'[q].status = bookings[q].status
  <2> DEFINE v == [bookings[q] EXCEPT !.service = None]
  <2>1. bookings[q] \in Row /\ q \in Request
    BY DEF TypeInv, TypeOK, Booked
  <2>2. v \in Row /\ v.resource = bookings[q].resource
        /\ v.start = bookings[q].start /\ v.end = bookings[q].end
        /\ v.status = bookings[q].status
    BY <2>1 DEF Row
  <2>3. bookings'[q] \in {v, bookings[q]}
    BY <2>1 DEF DeleteService
  <2> HIDE DEF v
  <2> QED BY <2>1, <2>2, <2>3, SetAssumption
<1>2. \A q \in Request \ Booked : bookings'[q] = None
  BY DEF DeleteService, Booked
<1>3. Booked' = Booked
  BY <1>1, <1>2 DEF Booked
<1> QED BY <1>1, <1>3 DEF OccupiesNoMore, DeleteService

LEMMA OtherSafe ==
  ASSUME TypeInv, SafeInv,
         \/ \E l \in Lister : ListResources(l) \/ ListBusyIntervals(l) \/ CachePut(l)
         \/ \E s \in Service : CacheExpire(s) \/ UpdateService(s) \/ DeleteService(s)
         \/ \E p \in Provider : UpdateProvider(p)
         \/ \E b \in Resource : UpdateResource(b) \/ DeleteResource(b)
         \/ UNCHANGED vars
  PROVE  SafeInv'
<1>1. CASE UNCHANGED <<bookings, pc, tuple>>
  BY <1>1, SameTableSafe
<1>2. CASE \E s \in Service : DeleteService(s)
  BY <1>2, DeletedServiceRow, ShrinkSafe
<1> QED BY <1>1, <1>2 DEF ListResources, ListBusyIntervals, CachePut, CacheExpire,
           UpdateService, UpdateProvider, UpdateResource, DeleteResource, vars

LEMMA NextSafeInv ==
  ASSUME TypeInv, SafeInv, [Next]_vars
  PROVE  SafeInv'
<1>1. ASSUME NEW r \in Request,
             Submit(r) \/ CreateStep(r) \/ Fault(r) \/ CommitAnswerLost(r)
      PROVE  SafeInv'
  BY <1>1, QuietStepSafe, CheckSafe, CommitSafe DEF CreateStep
<1> QED BY <1>1, TransitionSafe, OtherSafe DEF Next

LEMMA InitSafeInv == Init => SafeInv
BY DEF Init, SafeInv, NoConflict, Clear, Unbooked, Booked

LEMMA SpecSafeInv == Spec => [](TypeInv /\ SafeInv)
<1>1. Init => TypeInv /\ SafeInv
  BY InitTypeInv, InitSafeInv
<1>2. TypeInv /\ SafeInv /\ [Next]_vars => (TypeInv /\ SafeInv)'
  BY NextTypeInv, NextSafeInv
<1> QED BY <1>1, <1>2, PTL DEF Spec

\* No two active bookings of one resource ever overlap, for any number of
\* requests and resources and whatever fails between their steps.
THEOREM NeverDoubleBooked == Spec => []NoDoubleBooking
<1>1. TypeInv /\ SafeInv => NoDoubleBooking
  <2> SUFFICES ASSUME TypeInv, NoConflict, NEW q \in Booked, NEW r \in Booked, q # r,
                      bookings[q].resource = bookings[r].resource,
                      IsActive(bookings[q].status), IsActive(bookings[r].status)
               PROVE  \/ bookings[q].end <= bookings[r].start
                      \/ bookings[r].end <= bookings[q].start
    BY DEF SafeInv, NoDoubleBooking
  <2>1. bookings[q] \in Row /\ bookings[r] \in Row
    BY DEF TypeInv, TypeOK, Booked
  <2>2. ~Overlap(bookings[q], bookings[r])
    BY DEF NoConflict, Conflict
  <2> QED
    BY <2>1, <2>2 DEF Overlap, Row
<1> QED BY <1>1, SpecSafeInv, PTL

-----------------------------------------------------------------------------
(* What a step does to the table.                                          *)

\* The four things a step can do to the table.
LEMMA TableStep ==
  ASSUME TypeInv, [Next]_vars
  PROVE  \/ UNCHANGED bookings
         \/ \E r \in Request : Commit(r) \/ CommitAnswerLost(r)
         \/ \E b \in Booked : Moved(b)
         \/ \E s \in Service : DeleteService(s)
<1>1. ASSUME NEW r \in Request,
             Submit(r) \/ CreateStep(r) \/ Fault(r) \/ CommitAnswerLost(r)
      PROVE  UNCHANGED bookings \/ Commit(r) \/ CommitAnswerLost(r)
  BY <1>1 DEF CreateStep, Submit, GetServiceWithProvider, ResolveScheduling,
         ResourcesForStart, ReserveCode, InsertTuple, CheckConstraints,
         DeadlockDetected, TryResource, FinishCreate, Fault
<1>2. ASSUME NEW m \in Mover, ReadBooking(m) \/ MoveStep(m) \/ TransitionFault(m)
      PROVE  UNCHANGED bookings \/ \E b \in Booked : Moved(b)
  BY <1>2, TransitionMoves
<1>3. CASE \/ \E l \in Lister : ListResources(l) \/ ListBusyIntervals(l) \/ CachePut(l)
           \/ \E s \in Service : CacheExpire(s) \/ UpdateService(s)
           \/ \E p \in Provider : UpdateProvider(p)
           \/ \E b \in Resource : UpdateResource(b) \/ DeleteResource(b)
           \/ UNCHANGED vars
  BY <1>3 DEF ListResources, ListBusyIntervals, CachePut, CacheExpire,
         UpdateService, UpdateProvider, UpdateResource, DeleteResource, vars
<1> QED BY <1>1, <1>2, <1>3 DEF Next

\* What a commit does to the table.
LEMMA CommitRow ==
  ASSUME TypeInv, SafeInv, NEW r \in Request, Commit(r) \/ CommitAnswerLost(r)
  PROVE  /\ r \notin Booked
         /\ tuple[r] \in Row
         /\ \A q \in Booked : ~Conflict(bookings[q], tuple[r])
         /\ bookings' = [bookings EXCEPT ![r] = tuple[r]]
<1>1. pc[r] = "options" /\ bookings' = [bookings EXCEPT ![r] = tuple[r]]
  BY DEF Commit, CommitAnswerLost
<1>2. tuple[r] # None
  BY <1>1 DEF TypeInv, LocalInv, At
<1> QED BY <1>1, <1>2 DEF SafeInv, Clear, Unbooked, TypeInv, TypeOK

\* A booking is never lost and its status only moves along the edges of the
\* transition table, however late a transition's UPDATE comes.
THEOREM LifecycleFollowed == Spec => FollowsLifecycle
<1> DEFINE Lawful(r) ==
             /\ bookings'[r] # None
             /\ \/ bookings'[r].status = bookings[r].status
                \/ \E event \in Event :
                     bookings'[r].status \in NextStatus(bookings[r].status, event)
<1>1. ASSUME TypeInv, SafeInv, [Next]_vars, NEW r \in Booked
      PROVE  Lawful(r)
  <2>1. CASE UNCHANGED bookings
    BY <1>1, <2>1 DEF Booked
  <2>2. ASSUME NEW q \in Request, Commit(q) \/ CommitAnswerLost(q)
        PROVE  Lawful(r)
    BY <1>1, <2>2, CommitRow DEF Booked, TypeInv, TypeOK
  <2>3. ASSUME NEW b \in Booked, Moved(b)
        PROVE  Lawful(r)
    <3>1. r \in Booked'
      BY <1>1, <2>3, MovedRow
    <3> QED BY <1>1, <2>3, <3>1, MovedRow DEF Booked
  <2>4. ASSUME NEW s \in Service, DeleteService(s)
        PROVE  Lawful(r)
    BY <1>1, <2>4, DeletedServiceRow DEF Booked
  <2> QED BY <1>1, <2>1, <2>2, <2>3, <2>4, TableStep
<1>2. TypeInv /\ SafeInv /\ [Next]_vars =>
        [\A r \in Booked : Lawful(r)]_bookings
  BY <1>1
<1> QED BY <1>2, SpecSafeInv, PTL DEF Spec, FollowsLifecycle

-----------------------------------------------------------------------------
(* Refinement.                                                             *)

\* A tuple on its way into the table is active.
TupleActive == \A r \in Request : tuple[r] # None => IsActive(tuple[r].status)

LEMMA NextTupleActive ==
  ASSUME TypeInv, TupleActive, [Next]_vars
  PROVE  TupleActive'
<1>1. ASSUME NEW r \in Request, tuple' = [tuple EXCEPT ![r] = NewRow(r)]
      PROVE  TupleActive'
  <2>1. IsActive(NewRow(r).status)
    BY LocalType DEF Local, NewRow, IsActive
  <2> QED BY <1>1, <2>1 DEF TypeInv, TypeOK, TupleActive
<1>2. ASSUME NEW r \in Request, tuple' = [tuple EXCEPT ![r] = None]
      PROVE  TupleActive'
  BY <1>2 DEF TypeInv, TypeOK, TupleActive
<1>3. CASE UNCHANGED tuple
  BY <1>3 DEF TupleActive
<1>4. ASSUME NEW r \in Request,
             Submit(r) \/ CreateStep(r) \/ Fault(r) \/ CommitAnswerLost(r)
      PROVE  \/ UNCHANGED tuple
             \/ tuple' = [tuple EXCEPT ![r] = None]
             \/ tuple' = [tuple EXCEPT ![r] = NewRow(r)]
  BY <1>4 DEF CreateStep, Submit, GetServiceWithProvider, ResolveScheduling,
         ResourcesForStart, ReserveCode, InsertTuple, CheckConstraints,
         DeadlockDetected, TryResource, FinishCreate, Fault, Rollback, Commit,
         CommitAnswerLost
<1>5. ASSUME NEW m \in Mover, ReadBooking(m) \/ MoveStep(m) \/ TransitionFault(m)
      PROVE  UNCHANGED tuple
  BY <1>5, TransitionMoves
<1>6. CASE \/ \E l \in Lister : ListResources(l) \/ ListBusyIntervals(l) \/ CachePut(l)
           \/ \E s \in Service : CacheExpire(s) \/ UpdateService(s) \/ DeleteService(s)
           \/ \E p \in Provider : UpdateProvider(p)
           \/ \E b \in Resource : UpdateResource(b) \/ DeleteResource(b)
           \/ UNCHANGED vars
  BY <1>3, <1>6 DEF ListResources, ListBusyIntervals, CachePut, CacheExpire,
         UpdateService, DeleteService, UpdateProvider, UpdateResource,
         DeleteResource, vars
<1> QED BY <1>1, <1>2, <1>3, <1>4, <1>5, <1>6 DEF Next

LEMMA SpecTupleActive == Spec => [](TypeInv /\ SafeInv /\ TupleActive)
<1>1. Init => TupleActive
  BY DEF Init, TupleActive
<1>2. TypeInv /\ SafeInv /\ TupleActive /\ [Next]_vars => TupleActive'
  BY NextTupleActive
<1> QED BY <1>1, <1>2, SpecSafeInv, PTL DEF Spec

\* What the calendar keeps of a row.
Seen(row) == [ resource |-> row.resource, start |-> row.start,
               end |-> row.end, status |-> row.status ]

LEMMA CalendarOf ==
  /\ calendar = [r \in Request |->
                   IF r \in Booked THEN Seen(bookings[r]) ELSE None]
  /\ calendar' = [r \in Request |->
                   IF r \in Booked' THEN Seen(bookings'[r]) ELSE None]
BY DEF calendar, Seen, Booked

\* A row as the calendar sees it is not NULL, and it clashes with those it
\* conflicts with.
LEMMA SeenIsEntry ==
  ASSUME NEW row \in Row
  PROVE  Seen(row) \in Cal!Entry /\ Seen(row) # None
<1>1. Seen(row) \in [resource : Resource, start : Nat, end : Nat, status : Status]
  BY DEF Seen, Row
<1> QED BY <1>1, SetAssumption DEF Cal!Entry, Status, Cal!Status

LEMMA SeenClash ==
  ASSUME NEW x, NEW y
  PROVE  Cal!Clash(Seen(x), Seen(y)) <=> Conflict(x, y)
BY DEF Cal!Clash, Cal!IsActive, Cal!activeStatuses, Seen, Conflict, Overlap,
       IsActive, activeStatuses

LEMMA BookedRow == ASSUME TypeInv, NEW q \in Booked PROVE bookings[q] \in Row
BY DEF TypeInv, TypeOK, Booked

\* A commit is a reservation of the calendar.
LEMMA CommitReserves ==
  ASSUME TypeInv, SafeInv, TupleActive,
         NEW r \in Request, Commit(r) \/ CommitAnswerLost(r)
  PROVE  Cal!Reserve(r)
<1>1. /\ r \notin Booked /\ tuple[r] \in Row
      /\ \A q \in Booked : ~Conflict(bookings[q], tuple[r])
      /\ bookings' = [bookings EXCEPT ![r] = tuple[r]]
  BY CommitRow
<1>2. tuple[r] # None
  BY <1>1, SetAssumption
<1>3. Booked' = Booked \cup {r} /\ bookings'[r] = tuple[r]
      /\ \A q \in Booked : bookings'[q] = bookings[q]
  BY <1>1, <1>2 DEF Booked, TypeInv, TypeOK
<1>4. calendar'[r] = Seen(tuple[r])
  BY <1>3, CalendarOf
<1>5. calendar' = [calendar EXCEPT ![r] = Seen(tuple[r])]
  BY <1>1, <1>3, CalendarOf
<1>6. ~Cal!Taken(r)
  BY <1>1, CalendarOf DEF Cal!Taken
<1>7. Seen(tuple[r]) \in Cal!Entry
  BY <1>1, SeenIsEntry
<1>8. Cal!IsActive(Seen(tuple[r]).status)
  BY <1>2 DEF TupleActive, IsActive, activeStatuses, Cal!IsActive,
              Cal!activeStatuses, Seen
<1>9. ASSUME NEW x \in Request, Cal!Taken(x)
      PROVE  ~Cal!Clash(calendar[x], Seen(tuple[r]))
  <2>1. x \in Booked /\ calendar[x] = Seen(bookings[x])
    BY <1>9, CalendarOf DEF Cal!Taken
  <2> QED BY <1>1, <2>1, SeenClash
<1> QED BY <1>4, <1>5, <1>6, <1>7, <1>8, <1>9 DEF Cal!Reserve

\* A transition is a move of the calendar.
LEMMA MovedMoves ==
  ASSUME TypeInv, NEW b \in Booked, Moved(b)
  PROVE  Cal!Move(b)
<1>1. PICK event \in Event, to \in Status :
        /\ to \in NextStatus(bookings[b].status, event)
        /\ bookings' = [bookings EXCEPT ![b].status = to,
                                        ![b].cancelledBy = CancelledBy(to)]
  BY DEF Moved, NextStatus
<1>2. /\ \A q \in Request \ {b} : bookings'[q] = bookings[q]
      /\ bookings'[b].status = to
      /\ bookings'[b].resource = bookings[b].resource
      /\ bookings'[b].start = bookings[b].start
      /\ bookings'[b].end = bookings[b].end
  BY <1>1, StatusUpdate
<1>3. Booked' = Booked /\ b \in Request
  BY MovedRow DEF Booked
<1>4. calendar[b] = Seen(bookings[b]) /\ Cal!Taken(b)
  BY <1>3, CalendarOf, BookedRow, SeenIsEntry DEF Cal!Taken
<1>5. Seen(bookings'[b]) = [Seen(bookings[b]) EXCEPT !.status = to]
  BY <1>2 DEF Seen
<1>6. calendar' = [calendar EXCEPT ![b].status = to]
  <2>1. \A q \in Request \ {b} : calendar'[q] = calendar[q]
    BY <1>2, <1>3, CalendarOf
  <2>2. calendar'[b] = [calendar[b] EXCEPT !.status = to]
    BY <1>3, <1>4, <1>5, CalendarOf
  <2> QED BY <1>3, <2>1, <2>2, CalendarOf
<1>7. to \in Cal!NextStatus(calendar[b].status, event) /\ event \in Cal!Event
  <2>1. calendar[b].status = bookings[b].status
    BY <1>4 DEF Seen
  <2> QED BY <1>1, <2>1 DEF NextStatus, transitions, Status, Event,
         Cal!NextStatus, Cal!transitions, Cal!Status, Cal!Event
<1> QED BY <1>4, <1>6, <1>7 DEF Cal!Move

\* Deleting a service is invisible in the calendar.
LEMMA DeletionStutters ==
  ASSUME TypeInv, NEW s \in Service, DeleteService(s)
  PROVE  calendar' = calendar
<1>1. ASSUME NEW q \in Booked PROVE Seen(bookings'[q]) = Seen(bookings[q])
  BY DeletedServiceRow DEF OccupiesNoMore, Seen
<1> QED BY <1>1, DeletedServiceRow, CalendarOf

\* The reservation engine implements the calendar: with its reads, retries,
\* waits, deadlocks and lost answers hidden, each of its steps takes a free
\* slot at once, moves one appointment along the lifecycle, or does nothing.
THEOREM EngineImplementsCalendar == Spec => ImplementsCalendar
<1>1. Init => Cal!Init
  BY CalendarOf DEF Init, Cal!Init, Booked
<1>2. TypeInv /\ SafeInv /\ TupleActive /\ [Next]_vars => [Cal!Next]_calendar
  <2> SUFFICES ASSUME TypeInv, SafeInv, TupleActive, [Next]_vars
               PROVE  Cal!Next \/ calendar' = calendar
    OBVIOUS
  <2>1. CASE UNCHANGED bookings
    BY <2>1 DEF calendar
  <2>2. ASSUME NEW r \in Request, Commit(r) \/ CommitAnswerLost(r)
        PROVE  Cal!Next
    BY <2>2, CommitReserves DEF Cal!Next
  <2>3. ASSUME NEW b \in Booked, Moved(b)
        PROVE  Cal!Next
    BY <2>3, MovedMoves DEF Cal!Next, Booked
  <2> QED BY <2>1, <2>2, <2>3, DeletionStutters, TableStep
<1> QED BY <1>1, <1>2, SpecTupleActive, PTL DEF Spec, ImplementsCalendar, Cal!Spec

-----------------------------------------------------------------------------
(* What the table keeps, and what a step leaves alone.                     *)

\* A row keeps its bay, its time, its provider and its code.
RowsKept ==
  \A q \in Booked :
    /\ q \in Booked'
    /\ \A f \in {"resource", "start", "end", "provider", "code"} :
         bookings'[q][f] = bookings[q][f]

\* A step of the lifecycle keeps all that but the status.
LEMMA MovedKeeps ==
  ASSUME TypeInv, NEW b \in Booked, Moved(b)
  PROVE  RowsKept
<1>1. PICK event \in Event, to \in Status :
        /\ to \in NextStatus(bookings[b].status, event)
        /\ bookings' = [bookings EXCEPT ![b].status = to,
                                        ![b].cancelledBy = CancelledBy(to)]
  BY DEF Moved, NextStatus
<1>2. /\ \A q \in Request \ {b} : bookings'[q] = bookings[q]
      /\ \A f \in {"resource", "start", "end", "provider", "code"} :
           bookings'[b][f] = bookings[b][f]
      /\ \A q \in Booked : bookings'[q] # None
  BY <1>1, StatusUpdate
<1> QED BY <1>2 DEF RowsKept, Booked

LEMMA DeletionKeeps ==
  ASSUME TypeInv, NEW s \in Service, DeleteService(s)
  PROVE  RowsKept
<1> SUFFICES ASSUME NEW q \in Booked
             PROVE  /\ q \in Booked'
                    /\ \A f \in {"resource", "start", "end", "provider", "code"} :
                         bookings'[q][f] = bookings[q][f]
  BY DEF RowsKept
<1> DEFINE v == [bookings[q] EXCEPT !.service = None]
<1>1. bookings[q] \in Row /\ q \in Request
  BY BookedRow DEF Booked
<1>2. \A f \in {"resource", "start", "end", "provider", "code"} :
        v[f] = bookings[q][f]
  BY <1>1 DEF Row
<1>3. bookings'[q] \in {v, bookings[q]}
  BY <1>1 DEF DeleteService
<1>4. q \in Booked'
  BY DeletedServiceRow
<1> HIDE DEF v
<1> QED BY <1>2, <1>3, <1>4

LEMMA RowsAreKept ==
  ASSUME TypeInv, SafeInv, [Next]_vars
  PROVE  RowsKept
<1>1. CASE UNCHANGED bookings
  BY <1>1 DEF RowsKept, Booked
<1>2. ASSUME NEW r \in Request, Commit(r) \/ CommitAnswerLost(r)
      PROVE  RowsKept
  <2>1. r \notin Booked /\ bookings' = [bookings EXCEPT ![r] = tuple[r]]
    BY <1>2, CommitRow
  <2> QED BY <2>1 DEF RowsKept, Booked, TypeInv, TypeOK
<1> QED BY <1>1, <1>2, MovedKeeps, DeletionKeeps, TableStep

\* A row that was not there has just been committed by its request.
LEMMA NewRowIsCommitted ==
  ASSUME TypeInv, SafeInv, [Next]_vars, NEW q \in Booked', q \notin Booked
  PROVE  Commit(q) \/ CommitAnswerLost(q)
<1>1. ~UNCHANGED bookings
  BY DEF Booked
<1>2. ~\E b \in Booked : Moved(b)
  BY MovedRow
<1>3. ~\E s \in Service : DeleteService(s)
  BY DeletedServiceRow
<1>4. PICK r \in Request : Commit(r) \/ CommitAnswerLost(r)
  BY <1>1, <1>2, <1>3, TableStep
<1>5. r = q
  BY <1>4, CommitRow DEF Booked, TypeInv, TypeOK
<1> QED BY <1>4, <1>5

\* Edits are only ever counted up, and none is made while the count stands.
LEMMA EditsGrow ==
  ASSUME TypeInv, [Next]_vars
  PROVE  /\ edits' >= edits /\ edits \in Nat /\ edits' \in Nat
         /\ edits' = edits => UNCHANGED tables
<1>1. edits \in Nat
  BY BoundAssumption DEF TypeInv, TypeOK
<1>2. ASSUME NEW r \in Request,
             Submit(r) \/ CreateStep(r) \/ Fault(r) \/ CommitAnswerLost(r)
      PROVE  UNCHANGED <<edits, tables>>
  BY <1>2 DEF tables, CreateStep, Submit, GetServiceWithProvider,
         ResolveScheduling, ResourcesForStart, ReserveCode, InsertTuple,
         CheckConstraints, DeadlockDetected, Commit, TryResource, FinishCreate,
         Fault, CommitAnswerLost
<1>3. ASSUME NEW m \in Mover, ReadBooking(m) \/ MoveStep(m) \/ TransitionFault(m)
      PROVE  UNCHANGED <<edits, tables>>
  BY <1>3, Zenon DEF tables, ReadBooking, MoveStep, TransitionBooking,
         FinishTransition, TransitionFault
<1>4. CASE \/ \E l \in Lister : ListResources(l) \/ ListBusyIntervals(l) \/ CachePut(l)
           \/ \E s \in Service : CacheExpire(s)
           \/ UNCHANGED vars
  <2>1. UNCHANGED <<edits, tables>>
    BY <1>4, Zenon DEF tables, vars, ListResources, ListBusyIntervals, CachePut,
           CacheExpire
  <2> QED BY <1>1, <2>1
<1>5. CASE \/ \E s \in Service : UpdateService(s) \/ DeleteService(s)
           \/ \E p \in Provider : UpdateProvider(p)
           \/ \E b \in Resource : UpdateResource(b) \/ DeleteResource(b)
  <2>1. edits' = edits + 1
    BY <1>5, Zenon DEF UpdateService, DeleteService, UpdateProvider,
           UpdateResource, DeleteResource, Edit
  <2> QED BY <1>1, <2>1
<1> QED BY <1>1, <1>2, <1>3, <1>4, <1>5 DEF Next

\* A step of request r, seen by the others.
LEMMA OthersUntouched ==
  ASSUME TypeInv, SafeInv, NEW r \in Request,
         Submit(r) \/ CreateStep(r) \/ Fault(r) \/ CommitAnswerLost(r)
  PROVE  OnlyRequest(r) /\ \A q \in Request \ {r} : bookings'[q] = bookings[q]
<1>1. /\ pc \in [Request -> Label] /\ local \in [Request -> Local]
      /\ tuple \in [Request -> Row \cup {None}]
      /\ bookings \in [Request -> Row \cup {None}]
  BY DEF TypeInv, TypeOK
<1> USE <1>1 DEF OnlyRequest, Goto, Answer, Fail, Rollback, NextBay
<1>2. CASE Submit(r) \/ GetServiceWithProvider(r) \/ ResolveScheduling(r)
           \/ ResourcesForStart(r) \/ ReserveCode(r)
  BY <1>2 DEF Submit, GetServiceWithProvider, ResolveScheduling,
              ResourcesForStart, ReserveCode
<1>3. CASE InsertTuple(r) \/ CheckConstraints(r) \/ DeadlockDetected(r)
  BY <1>3 DEF InsertTuple, CheckConstraints, DeadlockDetected
<1>4. CASE Commit(r) \/ CommitAnswerLost(r) \/ TryResource(r)
           \/ FinishCreate(r) \/ Fault(r)
  BY <1>4 DEF Commit, CommitAnswerLost, TryResource, FinishCreate, Fault
<1> QED BY <1>2, <1>3, <1>4 DEF CreateStep

\* The steps that are of no reservation leave all of them alone.
LEMMA ReservationsUntouched ==
  ASSUME TypeInv, SafeInv, [Next]_vars,
         ~\E r \in Request :
            Submit(r) \/ CreateStep(r) \/ Fault(r) \/ CommitAnswerLost(r)
  PROVE  UNCHANGED <<pc, local, tuple>> /\ Booked' = Booked
<1>1. UNCHANGED <<pc, local, tuple>>
  BY DEF Next, vars, MoveStep, ReadBooking, TransitionBooking,
         FinishTransition, TransitionFault, ListResources, ListBusyIntervals,
         CachePut, CacheExpire, UpdateService, DeleteService, UpdateProvider,
         UpdateResource, DeleteResource
<1>2. CASE UNCHANGED bookings
  BY <1>1, <1>2 DEF Booked
<1>3. ASSUME NEW b \in Booked, Moved(b) PROVE Booked' = Booked
  BY <1>3, MovedRow
<1>4. ASSUME NEW s \in Service, DeleteService(s) PROVE Booked' = Booked
  BY <1>4, DeletedServiceRow
<1>5. ~\E r \in Request : Commit(r) \/ CommitAnswerLost(r)
  BY DEF CreateStep
<1> QED BY <1>1, <1>2, <1>3, <1>4, <1>5, TableStep

-----------------------------------------------------------------------------
(* What a reservation answers.                                             *)

\* An answer field holds what Answer wrote, and Answer writes nothing else.
LEMMA Answered ==
  ASSUME TypeInv, NEW r \in Request, NEW c, Answer(r, c)
  PROVE  /\ pc'[r] = "done" /\ local'[r].answer = c
         /\ \A f \in DOMAIN NoLocal \ {"answer"} : local'[r][f] = local[r][f]
BY LocalType DEF Answer, Goto, TypeInv, TypeOK, Local, NoLocal

\* The same of Fail and of the two steps that record a fault.
LEMMA Failed ==
  ASSUME TypeInv, NEW r \in Request, NEW e, Fail(r, e)
  PROVE  /\ pc'[r] = "failed" /\ local'[r].err = e
         /\ \A f \in DOMAIN NoLocal \ {"err"} : local'[r][f] = local[r][f]
BY LocalType DEF Fail, Goto, TypeInv, TypeOK, Local, NoLocal

LEMMA Faulted ==
  ASSUME TypeInv, NEW r \in Request, Fault(r) \/ CommitAnswerLost(r)
  PROVE  /\ pc'[r] = "done" /\ local'[r].answer = "INTERNAL"
         /\ local'[r].err = "fault"
         /\ \A f \in DOMAIN NoLocal \ {"answer", "err"} :
              local'[r][f] = local[r][f]
BY LocalType DEF Fault, CommitAnswerLost, Goto, TypeInv, TypeOK, Local, NoLocal

LEMMA Retried ==
  ASSUME TypeInv, NEW r \in Request, NextBay(r)
  PROVE  LET rest == local[r].cands \ {Bay(r)}
             left == IF local[r].err = "deadlock_detected" THEN {Bay(r)} ELSE {}
         IN  /\ local'[r].gaveUp = local[r].gaveUp \cup left
             /\ \A f \in DOMAIN NoLocal \ {"answer", "cands", "attempt", "gaveUp"} :
                  local'[r][f] = local[r][f]
             /\ \/ /\ rest = {} /\ pc'[r] = "done"
                   /\ local'[r].answer = "SLOT_TAKEN"
                   /\ local'[r].cands = local[r].cands
                \/ /\ rest # {} /\ pc'[r] = "code"
                   /\ local'[r].answer = local[r].answer
                   /\ local'[r].cands = rest
BY LocalType DEF NextBay, Goto, TypeInv, TypeOK, Local, NoLocal


\* The answer is given once, at the end, and says whether the row is there.
Truthful(r) ==
  /\ pc[r] # "done" => local[r].answer = None
  /\ pc[r] = "invalidate" => r \in Booked
  /\ local[r].answer = "CREATED" => r \in Booked
  /\ local[r].answer \in Reply \ {"CREATED", "FORBIDDEN", "INTERNAL"}
       => r \notin Booked

LEMMA TruthfulStep ==
  ASSUME TypeInv, SafeInv, NEW r \in Request, Truthful(r),
         Submit(r) \/ CreateStep(r) \/ Fault(r) \/ CommitAnswerLost(r)
  PROVE  Truthful(r)'
<1> USE ReplyAssumption
<1>1. /\ pc \in [Request -> Label] /\ local[r] \in Local
      /\ bookings \in [Request -> Row \cup {None}]
  BY LocalType DEF TypeInv, TypeOK
<1>2. ASSUME NEW c, Answer(r, c), UNCHANGED bookings,
             pc[r] = "invalidate" \/ c \notin {"CREATED", "FORBIDDEN"},
             c \in Reply \ {"CREATED", "FORBIDDEN", "INTERNAL"} =>
               pc[r] \notin {"invalidate", "done"}
      PROVE  Truthful(r)'
  BY <1>2, Answered DEF Truthful, Booked, SafeInv, Unbooked
<1>3. ASSUME pc[r] # "done", UNCHANGED bookings,
             pc'[r] \notin {"invalidate", "done"},
             local'[r].answer = local[r].answer
      PROVE  Truthful(r)'
  BY <1>3 DEF Truthful, Reply
<1>4. ASSUME NEW e, Fail(r, e), pc[r] # "done", UNCHANGED bookings
      PROVE  Truthful(r)'
  BY <1>3, <1>4, Failed DEF NoLocal
<1>5. CASE Submit(r)
  BY <1>1, <1>3, <1>5 DEF Submit, Goto, Local, TypeInv, TypeOK
<1>6. CASE GetServiceWithProvider(r) \/ ResolveScheduling(r)
  <2> DEFINE code == Unbookable(local[r].in.service)
  <2>1. CASE code # None /\ Answer(r, code)
    <3>1. code \in {"NOT_FOUND", "SERVICE_INACTIVE", "PROVIDER_INACTIVE"}
      BY <2>1 DEF Unbookable
    <3> HIDE DEF code
    <3> QED BY <1>2, <1>6, <2>1, <3>1 DEF GetServiceWithProvider, ResolveScheduling
  <2>2. CASE code = None /\ (Goto(r, "slots") \/ Goto(r, "busy"))
    BY <1>1, <1>3, <1>6, <2>2
       DEF GetServiceWithProvider, ResolveScheduling, Goto, Local, TypeInv, TypeOK
  <2> QED BY <1>6, <2>1, <2>2 DEF GetServiceWithProvider, ResolveScheduling
<1>7. CASE ResourcesForStart(r)
  <2>1. CASE Answer(r, "OUTSIDE_HOURS") \/ Answer(r, "SLOT_TAKEN")
    BY <1>2, <1>7, <2>1 DEF ResourcesForStart
  <2>2. CASE Goto(r, "code") /\ ~(Answer(r, "OUTSIDE_HOURS") \/ Answer(r, "SLOT_TAKEN"))
    BY <1>1, <1>3, <1>7, <2>2 DEF ResourcesForStart, Goto, Local, TypeInv, TypeOK
  <2> QED BY <1>7, <2>1, <2>2 DEF ResourcesForStart
<1>8. CASE ReserveCode(r) \/ InsertTuple(r) \/ CheckConstraints(r)
           \/ DeadlockDetected(r)
  <2>1. CASE \E e : Fail(r, e)
    BY <1>4, <1>8, <2>1
       DEF ReserveCode, InsertTuple, CheckConstraints, DeadlockDetected
  <2>2. CASE Goto(r, "insert") \/ Goto(r, "check") \/ Goto(r, "options")
    BY <1>1, <1>3, <1>8, <2>2
       DEF ReserveCode, InsertTuple, CheckConstraints, DeadlockDetected,
           Rollback, Fail, Goto, Local, TypeInv, TypeOK
  <2> QED BY <1>8, <2>1, <2>2
       DEF ReserveCode, InsertTuple, CheckConstraints, DeadlockDetected, Rollback
<1>9. CASE Commit(r)
  BY <1>1, <1>9, CommitRow, SetAssumption DEF Commit, Goto, Booked, Truthful
<1>10. CASE TryResource(r)
  <2>1. CASE NextBay(r)
    BY <1>10, <2>1, Retried DEF TryResource, Truthful, NoLocal, SafeInv,
       Unbooked, Booked
  <2>2. CASE Answer(r, "INTERNAL")
    BY <1>2, <1>10, <2>2 DEF TryResource
  <2>3. CASE Goto(r, "code") /\ local' = [local EXCEPT ![r].attempt = @ + 1]
    BY <1>1, <1>3, <1>10, <2>3 DEF TryResource, Goto, Local, TypeInv, TypeOK
  <2> QED BY <1>10, <2>1, <2>2, <2>3 DEF TryResource
<1>11. CASE FinishCreate(r)
  BY <1>2, <1>11 DEF FinishCreate
<1>12. CASE Fault(r) \/ CommitAnswerLost(r)
  BY <1>12, Faulted DEF Truthful
<1> QED BY <1>5, <1>6, <1>7, <1>8, <1>9, <1>10, <1>11, <1>12 DEF CreateStep

LEMMA SpecTruthful == Spec => [](TypeInv /\ SafeInv /\ \A r \in Request : Truthful(r))
<1> DEFINE Inv == \A r \in Request : Truthful(r)
<1>1. Init => Inv
  BY ReplyAssumption DEF Init, NoLocal, Truthful, Booked, Reply
<1>2. ASSUME TypeInv, SafeInv, Inv, [Next]_vars PROVE Inv'
  <2>1. ASSUME NEW r \in Request,
               Submit(r) \/ CreateStep(r) \/ Fault(r) \/ CommitAnswerLost(r)
        PROVE  Inv'
    <3>1. \A q \in Request \ {r} : Truthful(q)'
      BY <1>2, <2>1, OthersUntouched DEF OnlyRequest, Truthful, Booked
    <3> QED BY <1>2, <2>1, <3>1, TruthfulStep
  <2>2. CASE UNCHANGED <<pc, local, tuple>> /\ Booked' = Booked
    BY <1>2, <2>2 DEF Truthful
  <2> QED BY <1>2, <2>1, <2>2, ReservationsUntouched
<1> QED BY <1>1, <1>2, SpecSafeInv, PTL DEF Spec

\* What a reservation is told agrees with the table, whatever happens between
\* its steps: a CREATED is there, and a refusal left nothing.
THEOREM ToldTheTruth == Spec => []AnswerAgreesWithTable
<1>1. (\A r \in Request : Truthful(r)) => AnswerAgreesWithTable
  BY DEF Truthful, AnswerAgreesWithTable
<1> QED BY <1>1, SpecTruthful, PTL

-----------------------------------------------------------------------------
(* What a transaction writes, and what it refers to.                       *)

\* While its transaction runs, a tuple is the row its request asked for.
AsAsked == \A r \in Request : pc[r] \in {"check", "options"} => tuple[r] = NewRow(r)

\* Until something is edited, nothing is inactive or gone.
Pristine ==
  edits = 0 => /\ \A s \in Service : service[s].state = "active"
               /\ \A b \in Resource : resource[b] = "active"

\* What has passed its foreign-key check refers to a bay that exists.
Held == \A r \in Request : pc[r] = "options" => resource[tuple[r].resource] # "deleted"

RowInv == AsAsked /\ Pristine /\ Held /\ BookedResourceExists

LEMMA AsAskedStep ==
  ASSUME TypeInv, SafeInv, AsAsked, [Next]_vars
  PROVE  AsAsked'
<1>1. ASSUME NEW r \in Request, local'[r] = local[r]
      PROVE  NewRow(r)' = NewRow(r)
  BY <1>1 DEF NewRow, Bay
<1>2. ASSUME NEW r \in Request,
             Submit(r) \/ CreateStep(r) \/ Fault(r) \/ CommitAnswerLost(r)
      PROVE  AsAsked'
  <2>1. pc \in [Request -> Label] /\ tuple \in [Request -> Row \cup {None}]
    BY DEF TypeInv, TypeOK
  <2>2. pc'[r] \in {"check", "options"} => tuple'[r] = NewRow(r)'
    <3>1. CASE InsertTuple(r) \/ CheckConstraints(r)
      BY <1>1, <2>1, <3>1
         DEF AsAsked, InsertTuple, CheckConstraints, Rollback, Fail, Goto
    <3>2. CASE ~(InsertTuple(r) \/ CheckConstraints(r))
      <4>1. pc'[r] \notin {"check", "options"}
        BY <1>2, <2>1, <3>2
           DEF Submit, CreateStep, Fault, CommitAnswerLost, GetServiceWithProvider,
               ResolveScheduling, ResourcesForStart, ReserveCode, DeadlockDetected,
               Commit, TryResource, FinishCreate, Goto, Answer, Fail, Rollback, NextBay
      <4> QED BY <4>1
    <3> QED BY <3>1, <3>2
  <2>3. \A q \in Request \ {r} : pc'[q] = pc[q] /\ local'[q] = local[q]
                                 /\ tuple'[q] = tuple[q]
    BY <1>2, OthersUntouched DEF OnlyRequest
  <2> QED BY <1>1, <2>2, <2>3 DEF AsAsked
<1>3. CASE UNCHANGED <<pc, local, tuple>>
  BY <1>1, <1>3 DEF AsAsked
<1> QED BY <1>2, <1>3, ReservationsUntouched

LEMMA PristineStep == ASSUME TypeInv, Pristine, [Next]_vars PROVE Pristine'
<1>1. edits' = 0 => edits = 0 /\ UNCHANGED tables
  BY EditsGrow
<1> QED BY <1>1 DEF Pristine, tables

\* A bay that a row or a checked tuple refers to is not deleted.
LEMMA HeldStep ==
  ASSUME TypeInv, SafeInv, RowInv, [Next]_vars
  PROVE  Held' /\ BookedResourceExists'
<1>1. /\ pc \in [Request -> Label] /\ tuple \in [Request -> Row \cup {None}]
      /\ resource \in [Resource -> {"active", "inactive", "deleted"}]
  BY DEF TypeInv, TypeOK
<1>2. ASSUME NEW r \in Request,
             Submit(r) \/ CreateStep(r) \/ Fault(r) \/ CommitAnswerLost(r)
      PROVE  Held'
  <2>1. UNCHANGED resource
    BY <1>2 DEF tables, CreateStep, Submit, GetServiceWithProvider,
         ResolveScheduling, ResourcesForStart, ReserveCode, InsertTuple,
         CheckConstraints, DeadlockDetected, Commit, TryResource, FinishCreate,
         Fault, CommitAnswerLost
  <2>2. pc'[r] = "options" => resource[tuple'[r].resource] # "deleted"
    <3>1. CASE CheckConstraints(r)
      BY <1>1, <3>1 DEF CheckConstraints, ReferencesExist, Rollback, Fail, Goto
    <3>2. CASE ~CheckConstraints(r)
      <4>1. pc'[r] # "options"
        BY <1>1, <1>2, <3>2
           DEF Submit, CreateStep, Fault, CommitAnswerLost, GetServiceWithProvider,
               ResolveScheduling, ResourcesForStart, ReserveCode, InsertTuple,
               DeadlockDetected, Commit, TryResource, FinishCreate, Goto, Answer,
               Fail, Rollback, NextBay
      <4> QED BY <4>1
    <3> QED BY <3>1, <3>2
  <2>3. \A q \in Request \ {r} : pc'[q] = pc[q] /\ tuple'[q] = tuple[q]
    BY <1>2, OthersUntouched DEF OnlyRequest
  <2> QED BY <2>1, <2>2, <2>3 DEF RowInv, Held
<1>3. ASSUME NEW b \in Resource, resource'[b] = "deleted", resource[b] # "deleted"
      PROVE  DeleteResource(b)
  <2>1. ~UNCHANGED resource
    BY <1>3
  <2>2. PICK c \in Resource : UpdateResource(c) \/ DeleteResource(c)
    <3>1. ASSUME NEW r \in Request,
                 Submit(r) \/ CreateStep(r) \/ Fault(r) \/ CommitAnswerLost(r)
          PROVE  FALSE
      BY <2>1, <3>1 DEF tables, CreateStep, Submit, GetServiceWithProvider,
         ResolveScheduling, ResourcesForStart, ReserveCode, InsertTuple,
         CheckConstraints, DeadlockDetected, Commit, TryResource, FinishCreate,
         Fault, CommitAnswerLost
    <3>2. ASSUME NEW m \in Mover, ReadBooking(m) \/ MoveStep(m) \/ TransitionFault(m)
          PROVE  FALSE
      BY <2>1, <3>2, Zenon DEF tables, ReadBooking, MoveStep, TransitionBooking,
         FinishTransition, TransitionFault
    <3> QED BY <2>1, <3>1, <3>2, Zenon DEF Next, tables, vars, ListResources,
         ListBusyIntervals, CachePut, CacheExpire, UpdateService, DeleteService,
         UpdateProvider
  <2>3. CASE UpdateResource(c)
    BY <1>1, <1>3, <2>3 DEF UpdateResource
  <2>4. CASE DeleteResource(c)
    <3>1. b = c
      BY <1>1, <1>3, <2>4 DEF DeleteResource
    <3> QED BY <2>4, <3>1
  <2> QED BY <2>2, <2>3, <2>4
<1>4. ASSUME UNCHANGED <<pc, tuple>> PROVE Held'
  <2> SUFFICES ASSUME NEW r \in Request, pc[r] = "options",
                      resource'[tuple[r].resource] = "deleted"
               PROVE  FALSE
    BY <1>4 DEF Held
  <2>1. tuple[r].resource \in Resource /\ resource[tuple[r].resource] # "deleted"
    BY <1>1 DEF TypeInv, LocalInv, At, Row, RowInv, Held
  <2>2. DeleteResource(tuple[r].resource)
    BY <1>3, <2>1
  <2> QED BY <2>2 DEF DeleteResource, Locked
<1>5. Held'
  BY <1>2, <1>4, ReservationsUntouched
<1>6. BookedResourceExists'
  <2> SUFFICES ASSUME NEW q \in Booked', resource'[bookings'[q].resource] = "deleted"
               PROVE  FALSE
    BY DEF BookedResourceExists
  <2>1. CASE q \in Booked
    <3> DEFINE b == bookings[q].resource
    <3>1. bookings'[q].resource = b
      BY <2>1, RowsAreKept DEF RowsKept
    <3>2. b \in Resource /\ resource[b] # "deleted"
      BY <2>1, BookedRow DEF Row, RowInv, BookedResourceExists
    <3>3. DeleteResource(b)
      BY <1>3, <3>1, <3>2
    <3> QED BY <2>1, <3>3 DEF DeleteResource
  <2>2. CASE q \notin Booked
    <3>1. Commit(q) \/ CommitAnswerLost(q)
      BY <2>2, NewRowIsCommitted
    <3>2. bookings'[q] = tuple[q] /\ pc[q] = "options" /\ UNCHANGED resource
          /\ q \in Request
      BY <3>1 DEF Commit, CommitAnswerLost, tables, TypeInv, TypeOK, Booked
    <3> QED BY <3>2 DEF RowInv, Held
  <2> QED BY <2>1, <2>2
<1> QED BY <1>5, <1>6

LEMMA SpecRowInv == Spec => [](TypeInv /\ SafeInv /\ RowInv)
<1>1. Init => RowInv
  BY DEF Init, RowInv, AsAsked, Pristine, Held, BookedResourceExists, Booked
<1>2. TypeInv /\ SafeInv /\ RowInv /\ [Next]_vars => RowInv'
  BY AsAskedStep, PristineStep, HeldStep DEF RowInv
<1> QED BY <1>1, <1>2, SpecSafeInv, PTL DEF Spec

\* A booking's bay is never deleted from under it: the transaction that passed
\* the foreign-key check holds the bay until its row is there to hold it.
THEOREM BaysOfBookingsStay == Spec => []BookedResourceExists
<1>1. RowInv => BookedResourceExists
  BY DEF RowInv
<1> QED BY <1>1, SpecRowInv, PTL

-----------------------------------------------------------------------------
(* Why a reservation answers 500.                                          *)

\* A failed insert, and an answer of 500, have a reason; contention is the
\* reason of the former only.
Explained(r) ==
  pc[r] = "failed" \/ local[r].answer = "INTERNAL" =>
    \/ local[r].err \in {"fault", "codes_exhausted"}
    \/ local[r].err = "foreign_key_violation" /\ edits > 0
    \/ /\ local[r].err = "unique_violation"
       /\ \E q \in Booked \ {r} : bookings[q].code = local[r].code
    \/ /\ pc[r] = "failed"
       /\ local[r].err \in {"exclusion_violation", "deadlock_detected"}

\* A reason stays one.
LEMMA StillExplained ==
  ASSUME TypeInv, SafeInv, [Next]_vars, NEW r \in Request, Explained(r),
         pc'[r] = pc[r], local'[r] = local[r]
  PROVE  Explained(r)'
<1>1. edits > 0 => edits' > 0
  BY EditsGrow
<1>2. ASSUME NEW q \in Booked \ {r}, bookings[q].code = local[r].code
      PROVE  q \in Booked' \ {r} /\ bookings'[q].code = local'[r].code
  BY <1>2, RowsAreKept DEF RowsKept
<1> QED BY <1>1, <1>2 DEF Explained

LEMMA ExplainedStep ==
  ASSUME TypeInv, SafeInv, RowInv, [Next]_vars, NEW r \in Request,
         Explained(r), Truthful(r),
         Submit(r) \/ CreateStep(r) \/ Fault(r) \/ CommitAnswerLost(r)
  PROVE  Explained(r)'
<1> USE ReplyAssumption
<1>1. /\ pc \in [Request -> Label] /\ local[r] \in Local
  BY LocalType DEF TypeInv, TypeOK
<1>2. ASSUME NEW c, Answer(r, c), c # "INTERNAL"
      PROVE  Explained(r)'
  BY <1>2, Answered DEF Explained
<1>3. ASSUME pc[r] # "done", pc'[r] # "failed", local'[r].answer = local[r].answer
      PROVE  Explained(r)'
  BY <1>3 DEF Truthful, Explained, Reply
<1>4. CASE Submit(r) \/ Commit(r)
  BY <1>1, <1>3, <1>4 DEF Submit, Commit, Goto, Local, TypeInv, TypeOK
<1>5. CASE GetServiceWithProvider(r) \/ ResolveScheduling(r)
  <2> DEFINE code == Unbookable(local[r].in.service)
  <2>1. CASE code # None /\ Answer(r, code)
    <3>1. code # "INTERNAL"
      BY <2>1 DEF Unbookable
    <3> HIDE DEF code
    <3> QED BY <1>2, <2>1, <3>1
  <2>2. CASE code = None /\ (Goto(r, "slots") \/ Goto(r, "busy"))
    BY <1>1, <1>3, <1>5, <2>2
       DEF GetServiceWithProvider, ResolveScheduling, Goto, Local, TypeInv, TypeOK
  <2> QED BY <1>5, <2>1, <2>2 DEF GetServiceWithProvider, ResolveScheduling
<1>6. CASE ResourcesForStart(r)
  <2>1. CASE Answer(r, "OUTSIDE_HOURS") \/ Answer(r, "SLOT_TAKEN")
    BY <1>2, <2>1
  <2>2. CASE Goto(r, "code") /\ ~(Answer(r, "OUTSIDE_HOURS") \/ Answer(r, "SLOT_TAKEN"))
    BY <1>1, <1>3, <1>6, <2>2 DEF ResourcesForStart, Goto, Local, TypeInv, TypeOK
  <2> QED BY <1>6, <2>1, <2>2 DEF ResourcesForStart
<1>7. CASE ReserveCode(r)
  <2>1. CASE Fail(r, "codes_exhausted")
    BY <2>1, Failed DEF Explained
  <2>2. CASE Goto(r, "insert")
    BY <1>1, <1>3, <1>7, <2>2 DEF ReserveCode, Fail, Goto, Local, TypeInv, TypeOK
  <2> QED BY <1>7, <2>1, <2>2 DEF ReserveCode
<1>8. CASE InsertTuple(r)
  <2>1. CASE local[r].code \in UsedCodes /\ Fail(r, "unique_violation")
    <3>1. PICK q \in Booked : bookings[q].code = local[r].code
      BY <2>1 DEF UsedCodes
    <3>2. q # r
      BY <1>8 DEF InsertTuple, SafeInv, Unbooked
    <3>3. local'[r].code = local[r].code /\ local'[r].err = "unique_violation"
          /\ UNCHANGED bookings
      BY <1>8, <2>1, Failed DEF NoLocal, InsertTuple
    <3> QED BY <3>1, <3>2, <3>3 DEF Explained, Booked
  <2>2. CASE Goto(r, "check") /\ UNCHANGED local
    BY <1>1, <1>3, <1>8, <2>2 DEF InsertTuple, Goto
  <2> QED BY <1>8, <2>1, <2>2 DEF InsertTuple
<1>9. CASE CheckConstraints(r) \/ DeadlockDetected(r)
  <2>1. ASSUME NEW e \in {"exclusion_violation", "deadlock_detected"}, Fail(r, e)
        PROVE  Explained(r)'
    BY <2>1, Failed DEF Explained
  <2>2. CASE ~ReferencesExist(tuple[r]) /\ Fail(r, "foreign_key_violation")
    <3>1. pc[r] = "check"
      BY <1>9 DEF CheckConstraints, DeadlockDetected
    <3>2. tuple[r] = NewRow(r) /\ tuple[r] \in Row
      BY <3>1 DEF RowInv, AsAsked, TypeInv, TypeOK, LocalInv, At
    <3>3. tuple[r].service \in Service /\ tuple[r].resource \in Resource
      BY <3>1, <3>2, SetAssumption DEF NewRow, Row, TypeInv, LocalInv, At, Input
    <3>4. edits \in Nat /\ edits # 0
      BY <2>2, <3>3, BoundAssumption
         DEF RowInv, Pristine, ReferencesExist, TypeInv, TypeOK
    <3>5. edits' = edits
      BY <1>9 DEF CheckConstraints, DeadlockDetected
    <3> QED BY <2>2, <3>4, <3>5, Failed DEF Explained
  <2>3. CASE Goto(r, "options") /\ UNCHANGED local
    BY <1>1, <1>3, <1>9, <2>3 DEF CheckConstraints, DeadlockDetected, Goto
  <2> QED BY <1>9, <2>1, <2>2, <2>3 DEF CheckConstraints, DeadlockDetected, Rollback
<1>10. CASE TryResource(r)
  <2>1. CASE NextBay(r)
    BY <1>10, <2>1, Retried DEF TryResource, Truthful, Explained, NoLocal, Reply
  <2>2. CASE /\ local[r].err \notin {"exclusion_violation", "deadlock_detected"}
             /\ Answer(r, "INTERNAL")
    <3>1. /\ local'[r].err = local[r].err /\ local'[r].code = local[r].code
          /\ pc'[r] = "done"
      BY <2>2, Answered DEF NoLocal
    <3>2. UNCHANGED <<bookings, edits>> /\ pc[r] = "failed"
      BY <1>10 DEF TryResource
    <3> QED BY <2>2, <3>1, <3>2 DEF Explained, Booked
  <2>3. CASE Goto(r, "code") /\ local' = [local EXCEPT ![r].attempt = @ + 1]
    BY <1>1, <1>3, <1>10, <2>3 DEF TryResource, Goto, Local, TypeInv, TypeOK
  <2> QED BY <1>10, <2>1, <2>2, <2>3 DEF TryResource
<1>11. CASE FinishCreate(r)
  BY <1>2, <1>11 DEF FinishCreate
<1>12. CASE Fault(r) \/ CommitAnswerLost(r)
  BY <1>12, Faulted DEF Explained
<1> QED BY <1>4, <1>5, <1>6, <1>7, <1>8, <1>9, <1>10, <1>11, <1>12 DEF CreateStep

\* The invariant of a reservation's answer.
AnswerInv == \A r \in Request : Truthful(r) /\ Explained(r)

LEMMA SpecAnswerInv == Spec => [](TypeInv /\ SafeInv /\ RowInv /\ AnswerInv)
<1> DEFINE Told == \A r \in Request : Truthful(r)
           Inv == \A r \in Request : Explained(r)
<1>1. Init => Inv
  BY ReplyAssumption DEF Init, NoLocal, Explained, Reply
<1>2. ASSUME TypeInv, SafeInv, RowInv, Told, Inv, [Next]_vars PROVE Inv'
  <2>1. ASSUME NEW r \in Request,
               Submit(r) \/ CreateStep(r) \/ Fault(r) \/ CommitAnswerLost(r)
        PROVE  Inv'
    <3>1. \A q \in Request \ {r} : Explained(q)'
      BY <1>2, <2>1, OthersUntouched, StillExplained DEF OnlyRequest
    <3> QED BY <1>2, <2>1, <3>1, ExplainedStep
  <2>2. CASE UNCHANGED <<pc, local>>
    BY <1>2, <2>2, StillExplained
  <2> QED BY <1>2, <2>1, <2>2, ReservationsUntouched
<1>3. AnswerInv <=> Told /\ Inv
  BY DEF AnswerInv
<1> HIDE DEF Told, Inv
<1>4. TypeInv /\ SafeInv /\ RowInv /\ Told /\ Inv /\ [Next]_vars => Inv'
  BY <1>2
<1>5. Spec => []Told
  BY SpecTruthful, PTL DEF Told
<1> QED BY <1>1, <1>3, <1>4, <1>5, SpecRowInv, PTL DEF Spec

\* Contention never surfaces as a 500, except that of two requests which drew
\* one code: every other 500 has a fault, an exhausted search for a code or an
\* edit behind it.
THEOREM ContentionIsNo500 == Spec => []ContentionIs500OnlyByCode
<1>1. TypeInv /\ AnswerInv => ContentionIs500OnlyByCode
  <2> SUFFICES ASSUME AnswerInv, NEW r \in Request, local[r].answer = "INTERNAL"
               PROVE  \/ local[r].err \in {"fault", "codes_exhausted"}
                      \/ local[r].err = "foreign_key_violation" /\ edits > 0
                      \/ /\ local[r].err = "unique_violation"
                         /\ \E q \in Booked \ {r} : bookings[q].code = local[r].code
    BY DEF ContentionIs500OnlyByCode
  <2>1. pc[r] = "done"
    BY ReplyAssumption DEF AnswerInv, Truthful, Reply
  <2> QED BY <2>1 DEF AnswerInv, Explained
<1> QED BY <1>1, SpecAnswerInv, PTL

-----------------------------------------------------------------------------
(* The walk over the bays.                                                 *)

Walking(r) == pc[r] \in {"code", "insert", "check", "options", "failed"}

\* A bay of those to be tried is still to be tried, has been taken, or has
\* been given up.
Walked(r) ==
  /\ Walking(r) => \A b \in Suitable(r) \ local[r].gaveUp :
                     b \in local[r].cands \/ TakenFrom(r, b)
  /\ pc[r] = "failed" /\ local[r].err = "exclusion_violation" => TakenFrom(r, Bay(r))
  /\ local[r].answer = "SLOT_TAKEN" =>
       \A b \in Suitable(r) \ local[r].gaveUp : TakenFrom(r, b)

\* The fields that say what is asked for; with them Suitable stays the same.
SameQuestion(r) ==
  \A f \in {"in", "end", "minutes", "bays"} : local'[r][f] = local[r][f]

LEMMA SuitableStays ==
  ASSUME NEW r \in Request, SameQuestion(r)
  PROVE  Suitable(r)' = Suitable(r)
BY DEF SameQuestion, Suitable, Wanted, Fits

\* What is taken has been taken for good.
LEMMA TakenStays ==
  ASSUME NEW r \in Request, SameQuestion(r), RowsKept, NEW b, TakenFrom(r, b)
  PROVE  TakenFrom(r, b)'
<1>1. ASSUME NEW from, NEW to, BookedOver(b, from, to)
      PROVE  BookedOver(b, from, to)'
  <2>1. PICK q \in Booked : /\ bookings[q].resource = b
                            /\ bookings[q].start < to /\ from < bookings[q].end
    BY <1>1 DEF BookedOver
  <2>2. q \in Booked' /\ bookings'[q].resource = bookings[q].resource
        /\ bookings'[q].start = bookings[q].start /\ bookings'[q].end = bookings[q].end
    BY DEF RowsKept
  <2> QED BY <2>1, <2>2 DEF BookedOver
<1>2. local'[r].in = local[r].in /\ local'[r].end = local[r].end
      /\ local'[r].minutes = local[r].minutes
  BY DEF SameQuestion
<1>3. ASSUME NEW from, NEW to, BookedOver(b, from, to)'
      PROVE  \E q \in Booked' : /\ bookings'[q].resource = b
                                /\ bookings'[q].start < to /\ from < bookings'[q].end
  BY <1>3 DEF BookedOver
<1> QED BY <1>1, <1>2, <1>3 DEF TakenFrom, BookedOver

\* The bay of a request depends on its candidates only.
LEMMA BayStays ==
  ASSUME NEW r \in Request, local'[r].cands = local[r].cands
  PROVE  Bay(r)' = Bay(r)
BY DEF Bay

LEMMA StillWalked ==
  ASSUME TypeInv, SafeInv, [Next]_vars, NEW r \in Request, Walked(r),
         pc'[r] = pc[r], local'[r] = local[r]
  PROVE  Walked(r)'
<1>1. SameQuestion(r) /\ RowsKept /\ Bay(r)' = Bay(r)
  BY RowsAreKept, BayStays DEF SameQuestion
<1>2. Suitable(r)' = Suitable(r) /\ \A b : TakenFrom(r, b) => TakenFrom(r, b)'
  BY <1>1, SuitableStays, TakenStays
<1> HIDE DEF Suitable, TakenFrom, Bay
<1>3. Walking(r)' <=> Walking(r)
  BY DEF Walking
<1> QED BY <1>1, <1>2, <1>3 DEF Walked

\* A step of the walk that leaves the candidates, or a request that stops.
LEMMA WalkOn ==
  ASSUME TypeInv, SafeInv, [Next]_vars, NEW r \in Request, Walked(r), Truthful(r),
         pc[r] # "done", SameQuestion(r), local'[r].gaveUp = local[r].gaveUp,
         \/ ~Walking(r)'
         \/ Walking(r) /\ local'[r].cands = local[r].cands,
         pc'[r] # "failed" \/ local'[r].err # "exclusion_violation",
         local'[r].answer # "SLOT_TAKEN"
  PROVE  Walked(r)'
<1>1. Suitable(r)' = Suitable(r) /\ \A b : TakenFrom(r, b) => TakenFrom(r, b)'
  BY SuitableStays, TakenStays, RowsAreKept
<1> QED BY <1>1 DEF Walked

LEMMA WalkedStep ==
  ASSUME TypeInv, SafeInv, RowInv, [Next]_vars, NEW r \in Request,
         Walked(r), Truthful(r),
         Submit(r) \/ CreateStep(r) \/ Fault(r) \/ CommitAnswerLost(r)
  PROVE  Walked(r)'
<1> USE ReplyAssumption
<1>1. /\ pc \in [Request -> Label] /\ local[r] \in Local
  BY LocalType DEF TypeInv, TypeOK
<1>2. ASSUME NEW c, Answer(r, c), c # "SLOT_TAKEN"
      PROVE  Walked(r)'
  BY <1>2, Answered DEF Walked, Walking
<1>3. ASSUME pc[r] # "done", ~Walking(r)', local'[r].answer = local[r].answer
      PROVE  Walked(r)'
  BY <1>3 DEF Truthful, Walked, Reply, Walking
<1>4. CASE Submit(r) \/ Commit(r)
  BY <1>1, <1>3, <1>4 DEF Submit, Commit, Goto, Local, TypeInv, TypeOK, Walking
<1>5. CASE GetServiceWithProvider(r) \/ ResolveScheduling(r)
  <2> DEFINE code == Unbookable(local[r].in.service)
  <2>1. CASE code # None /\ Answer(r, code)
    <3>1. code # "SLOT_TAKEN"
      BY <2>1 DEF Unbookable
    <3> HIDE DEF code
    <3> QED BY <1>2, <2>1, <3>1
  <2>2. CASE code = None /\ (Goto(r, "slots") \/ Goto(r, "busy"))
    BY <1>1, <1>3, <1>5, <2>2 DEF GetServiceWithProvider, ResolveScheduling,
           Goto, Local, TypeInv, TypeOK, Walking
  <2> QED BY <1>5, <2>1, <2>2 DEF GetServiceWithProvider, ResolveScheduling
<1>6. CASE ResourcesForStart(r)
  <2> DEFINE in == local[r].in
             cands == FreeBays(local[r].bays, in.start, local[r].minutes) \cap Wanted(r)
  <2>1. UNCHANGED bookings /\ pc[r] = "busy"
    BY <1>6 DEF ResourcesForStart
  <2>2. ASSUME NEW b \in Suitable(r), b \notin cands
        PROVE  TakenFrom(r, b)
    <3>1. Busy(b, in.start, in.start + local[r].minutes)
      BY <2>2 DEF Suitable, FreeBays
    <3> QED BY <3>1 DEF Busy, TakenFrom, BookedOver
  <2>3. ASSUME SameQuestion(r) PROVE \A b \in Suitable(r)' :
           b \in cands \/ TakenFrom(r, b)'
    BY <2>2, <2>3, SuitableStays, TakenStays, RowsAreKept
  <2>4. CASE Answer(r, "OUTSIDE_HOURS")
    BY <1>2, <2>4
  <2>5. CASE cands = {} /\ Answer(r, "SLOT_TAKEN")
    <3>1. SameQuestion(r) /\ pc'[r] = "done"
      BY <2>5, Answered DEF SameQuestion, NoLocal
    <3> HIDE DEF cands
    <3> QED BY <2>3, <2>5, <3>1 DEF Walked, Walking
  <2>6. CASE Goto(r, "code") /\ local' = [local EXCEPT ![r].cands = cands,
                                                       ![r].attempt = 0]
    <3> HIDE DEF cands
    <3>1. /\ SameQuestion(r) /\ pc'[r] = "code" /\ local'[r].cands = cands
          /\ local'[r].answer = local[r].answer
      BY <1>1, <2>6 DEF SameQuestion, Local, Goto, TypeInv, TypeOK
    <3>2. local'[r].answer # "SLOT_TAKEN"
      BY <2>1, <3>1 DEF Truthful, Reply
    <3> QED BY <2>3, <3>1, <3>2 DEF Walked
  <2> QED BY <1>6, <2>4, <2>5, <2>6 DEF ResourcesForStart, Wanted
<1>7. ASSUME NEW e, Fail(r, e), e # "exclusion_violation", Walking(r)
      PROVE  Walked(r)'
  <2>1. /\ SameQuestion(r) /\ local'[r].cands = local[r].cands /\ pc'[r] = "failed"
        /\ local'[r].gaveUp = local[r].gaveUp
        /\ local'[r].answer = local[r].answer /\ local'[r].err = e
    BY <1>7, Failed DEF SameQuestion, NoLocal
  <2> QED BY <1>7, <2>1, WalkOn DEF Truthful, Reply, Walking
<1>8. CASE ReserveCode(r) \/ InsertTuple(r)
  <2>1. Walking(r) /\ pc[r] \notin {"failed", "done"}
    BY <1>8 DEF ReserveCode, InsertTuple, Walking
  <2>2. CASE Goto(r, "insert") \/ Goto(r, "check")
    <3>1. /\ SameQuestion(r) /\ local'[r].cands = local[r].cands
          /\ pc'[r] \in {"insert", "check"}
          /\ local'[r].gaveUp = local[r].gaveUp /\ local'[r].answer = local[r].answer
      BY <1>1, <1>8, <2>2 DEF ReserveCode, InsertTuple, SameQuestion, Local, Goto,
             Fail, TypeInv, TypeOK
    <3> QED BY <2>1, <3>1, WalkOn DEF Truthful, Reply
  <2> QED BY <1>7, <1>8, <2>1, <2>2 DEF ReserveCode, InsertTuple
<1>9. CASE CheckConstraints(r) \/ DeadlockDetected(r)
  <2>1. pc[r] = "check" /\ Walking(r) /\ UNCHANGED bookings
    BY <1>9 DEF CheckConstraints, DeadlockDetected, Walking
  <2>2. CASE /\ \E q \in Booked : Conflict(bookings[q], tuple[r])
             /\ Fail(r, "exclusion_violation")
    <3>1. /\ SameQuestion(r) /\ local'[r].cands = local[r].cands /\ pc'[r] = "failed"
          /\ local'[r].gaveUp = local[r].gaveUp
          /\ local'[r].answer = local[r].answer
      BY <2>2, Failed DEF SameQuestion, NoLocal
    <3>2. TakenFrom(r, Bay(r))
      <4>1. tuple[r] = NewRow(r)
        BY <2>1 DEF RowInv, AsAsked
      <4> QED BY <2>2, <4>1
              DEF Conflict, Overlap, NewRow, TakenFrom, BookedOver
    <3>3. Bay(r)' = Bay(r) /\ TakenFrom(r, Bay(r))'
      BY <3>1, <3>2, BayStays, TakenStays, RowsAreKept
    <3>4. Suitable(r)' = Suitable(r) /\ \A b : TakenFrom(r, b) => TakenFrom(r, b)'
      BY <3>1, SuitableStays, TakenStays, RowsAreKept
    <3>5. local'[r].answer # "SLOT_TAKEN"
      BY <2>1, <3>1 DEF Truthful, Reply
    <3> QED BY <2>1, <3>1, <3>3, <3>4, <3>5 DEF Walked
  <2>3. CASE Goto(r, "options") /\ UNCHANGED local
    <3>1. pc'[r] = "options" /\ SameQuestion(r)
      BY <1>1, <2>3 DEF Goto, SameQuestion
    <3> QED BY <2>1, <2>3, <3>1, WalkOn DEF Truthful, Reply
  <2> QED BY <1>7, <1>9, <2>1, <2>2, <2>3
          DEF CheckConstraints, DeadlockDetected, Rollback
<1>10. CASE TryResource(r)
  <2>1. pc[r] = "failed" /\ Walking(r) /\ UNCHANGED bookings
    BY <1>10 DEF TryResource, Walking
  <2>2. CASE /\ local[r].err \in {"exclusion_violation", "deadlock_detected"}
             /\ NextBay(r)
    <3>1. SameQuestion(r)
      BY <2>2, Retried DEF SameQuestion, NoLocal
    <3>2. Suitable(r)' = Suitable(r) /\ \A b : TakenFrom(r, b) => TakenFrom(r, b)'
      BY <3>1, SuitableStays, TakenStays, RowsAreKept
    <3>3. TakenFrom(r, Bay(r)) \/ Bay(r) \in local'[r].gaveUp
      BY <2>1, <2>2, Retried DEF Walked
    <3>4. local[r].gaveUp \subseteq local'[r].gaveUp
      BY <2>2, Retried
    <3>5. \A b \in Suitable(r) \ local'[r].gaveUp :
            b \in local[r].cands \ {Bay(r)} \/ TakenFrom(r, b)
      BY <2>1, <3>3, <3>4 DEF Walked
    <3>6. \/ /\ local[r].cands \ {Bay(r)} = {} /\ pc'[r] = "done"
          \/ /\ pc'[r] = "code" /\ local'[r].cands = local[r].cands \ {Bay(r)}
             /\ local'[r].answer # "SLOT_TAKEN"
      BY <2>1, <2>2, Retried DEF Truthful, Reply
    <3> QED BY <3>2, <3>5, <3>6 DEF Walked, Walking
  <2>3. CASE Goto(r, "code") /\ local' = [local EXCEPT ![r].attempt = @ + 1]
    <3>1. /\ SameQuestion(r) /\ local'[r].cands = local[r].cands /\ pc'[r] = "code"
          /\ local'[r].gaveUp = local[r].gaveUp /\ local'[r].answer = local[r].answer
      BY <1>1, <2>3 DEF SameQuestion, Local, Goto, TypeInv, TypeOK
    <3> QED BY <2>1, <3>1, WalkOn DEF Truthful, Reply
  <2> QED BY <1>2, <1>10, <2>2, <2>3 DEF TryResource
<1>11. CASE FinishCreate(r)
  BY <1>2, <1>11 DEF FinishCreate
<1>12. CASE Fault(r) \/ CommitAnswerLost(r)
  BY <1>12, Faulted DEF Walked, Walking
<1> QED BY <1>4, <1>5, <1>6, <1>8, <1>9, <1>10, <1>11, <1>12 DEF CreateStep

\* A reservation that is told SLOT_TAKEN has met, on every bay that could have
\* served it and that it did not give up, a booking over the time it asked for:
\* whatever waits, deadlocks, faults and edits there were on the way.
THEOREM RefusedOnlyWhatIsTaken == Spec => []SlotTakenMeansTaken
<1> DEFINE Inv == \A r \in Request : Walked(r)
<1>1. Init => Inv
  BY ReplyAssumption DEF Init, NoLocal, Walked, Walking, Reply
<1>2. ASSUME TypeInv, SafeInv, RowInv, AnswerInv, Inv, [Next]_vars PROVE Inv'
  <2>1. ASSUME NEW r \in Request,
               Submit(r) \/ CreateStep(r) \/ Fault(r) \/ CommitAnswerLost(r)
        PROVE  Inv'
    <3>1. \A q \in Request \ {r} : Walked(q)'
      BY <1>2, <2>1, OthersUntouched, StillWalked DEF OnlyRequest
    <3>2. Walked(r)'
      BY <1>2, <2>1, WalkedStep DEF AnswerInv
    <3> QED BY <3>1, <3>2
  <2>2. CASE UNCHANGED <<pc, local>>
    BY <1>2, <2>2, StillWalked
  <2> QED BY <1>2, <2>1, <2>2, ReservationsUntouched
<1>3. TypeInv /\ SafeInv /\ RowInv /\ AnswerInv /\ Inv /\ [Next]_vars => Inv'
  BY <1>2
<1>4. Inv => SlotTakenMeansTaken
  BY DEF Walked, SlotTakenMeansTaken
<1> HIDE DEF Inv
<1> QED BY <1>1, <1>3, <1>4, SpecAnswerInv, PTL DEF Spec

-----------------------------------------------------------------------------
(* Two transitions of one booking.                                         *)

\* How far a booking has come.
Rank(status) ==
  CASE status = "pending"     -> 0
    [] status = "confirmed"   -> 1
    [] status = "in_progress" -> 2
    [] OTHER                  -> 3

\* Every edge of the lifecycle goes forward.
LEMMA EdgeGoesForward ==
  ASSUME NEW from, NEW event, NEW to \in NextStatus(from, event)
  PROVE  Rank(from) < Rank(to)
BY DEF NextStatus, transitions, Rank

LEMMA RankType == \A status : Rank(status) \in 0 .. 3
BY DEF Rank

\* A transition that was made has moved its booking past where it found it.
Won(m) ==
  /\ mover[m].pc \in {"idle", "update"} => mover[m].answer # "OK"
  /\ mover[m].answer = "OK" =>
       /\ mover[m].booking \in Booked
       /\ Rank(mover[m].from) < Rank(bookings[mover[m].booking].status)

WinnerInv == OneWinner /\ \A m \in Mover : Won(m)

\* No booking ever goes back.
LEMMA NoneGoesBack ==
  ASSUME TypeInv, SafeInv, [Next]_vars, NEW q \in Booked
  PROVE  q \in Booked' /\ Rank(bookings[q].status) <= Rank(bookings'[q].status)
<1>1. q \in Booked'
  BY RowsAreKept DEF RowsKept
<1>2. \/ bookings'[q].status = bookings[q].status
      \/ \E event \in Event : bookings'[q].status \in NextStatus(bookings[q].status, event)
  <2>1. CASE UNCHANGED bookings
    BY <2>1
  <2>2. ASSUME NEW r \in Request, Commit(r) \/ CommitAnswerLost(r)
        PROVE  bookings'[q].status = bookings[q].status
    BY <2>2, CommitRow DEF Booked, TypeInv, TypeOK
  <2>3. ASSUME NEW b \in Booked, Moved(b)
        PROVE  \/ bookings'[q].status = bookings[q].status
               \/ \E event \in Event :
                    bookings'[q].status \in NextStatus(bookings[q].status, event)
    BY <2>3, MovedRow
  <2>4. ASSUME NEW s \in Service, DeleteService(s)
        PROVE  bookings'[q].status = bookings[q].status
    BY <2>4, DeletedServiceRow
  <2> QED BY <2>1, <2>2, <2>3, <2>4, TableStep
<1> QED BY <1>1, <1>2, EdgeGoesForward, RankType

\* A guarded UPDATE that is answered with OK has matched and written its row; any
\* other one has written nothing.
LEMMA TransitionWrites ==
  ASSUME TypeInv, NEW m \in Mover, TransitionBooking(m)
  PROVE  IF mover'[m].answer = "OK" THEN MatchesRow(m) /\ SetStatus(m)
                                    ELSE UNCHANGED bookings
<1>1. \A f : /\ mover' = [mover EXCEPT ![m].pc = f, ![m].answer = "OK"]
                 => mover'[m].answer = "OK"
            /\ \A code \in {"INVALID_TRANSITION", "INTERNAL"} :
                 mover' = [mover EXCEPT ![m].pc = f, ![m].answer = code]
                 => mover'[m].answer # "OK"
  BY MoverType DEF TypeInv, TypeOK, Move
<1>2. CASE MatchesRow(m) /\ SetStatus(m) /\ \E f :
             mover' = [mover EXCEPT ![m].pc = f, ![m].answer = "OK"]
  BY <1>1, <1>2
<1>3. CASE UNCHANGED bookings /\ \E code \in {"INVALID_TRANSITION", "INTERNAL"} :
             mover' = [mover EXCEPT ![m].pc = "done", ![m].answer = code]
  BY <1>1, <1>3
<1> QED BY <1>2, <1>3 DEF TransitionBooking

\* The winner of a guarded UPDATE finds a status nobody has moved from.
LEMMA TransitionWins ==
  ASSUME TypeInv, NEW m \in Mover, TransitionBooking(m), mover'[m].answer = "OK"
  PROVE  LET b == mover[m].booking IN
         /\ b \in Booked
         /\ bookings[b].status = mover[m].from
         /\ Rank(mover[m].from) < Rank(bookings'[b].status)
         /\ mover'[m].booking = b /\ mover'[m].from = mover[m].from
         /\ mover'[m].pc \in {"invalidate", "done"}
         /\ \A n \in Mover \ {m} : mover'[n] = mover[n]
<1> DEFINE b == mover[m].booking
           to == mover[m].to
<1>1. mover[m].pc = "update" /\ bookings[b].status = mover[m].from
  BY TransitionWrites DEF TransitionBooking, MatchesRow
<1>2. PICK event \in Event : to \in NextStatus(mover[m].from, event)
  BY <1>1 DEF TypeInv, MoverInv
<1>3. b \in Booked /\ to \in Status
  BY <1>1, <1>2 DEF TypeInv, MoverInv, NextStatus
<1>4. bookings' = [bookings EXCEPT ![b].status = to,
                                   ![b].cancelledBy = CancelledBy(to)]
  BY TransitionWrites DEF SetStatus
<1>5. bookings'[b].status = to
  <2> HIDE DEF b, to
  <2> QED BY <1>3, <1>4, StatusUpdate
<1>6. Rank(mover[m].from) < Rank(to)
  BY <1>2, EdgeGoesForward
<1>7. /\ mover'[m].booking = b /\ mover'[m].from = mover[m].from
      /\ mover'[m].pc \in {"invalidate", "done"}
      /\ \A n \in Mover \ {m} : mover'[n] = mover[n]
  BY MoverType DEF TransitionBooking, Move, TypeInv, TypeOK
<1> QED BY <1>1, <1>3, <1>5, <1>6, <1>7

\* A read answers no OK, and a lifecycle request writes of itself only.
LEMMA ReadAnswers ==
  ASSUME TypeInv, NEW m \in Mover, ReadBooking(m)
  PROVE  /\ mover'[m].answer \in {"NOT_FOUND", "INVALID_TRANSITION", mover[m].answer}
         /\ \A n \in Mover \ {m} : mover'[n] = mover[n]
<1> DEFINE Goal == /\ mover'[m].answer
                        \in {"NOT_FOUND", "INVALID_TRANSITION", mover[m].answer}
                   /\ \A n \in Mover \ {m} : mover'[n] = mover[n]
<1>1. mover \in [Mover -> Move]
  BY DEF TypeInv, TypeOK
<1>2. ASSUME NEW b \in Booked, NEW c \in {"NOT_FOUND", "INVALID_TRANSITION"},
             mover' = [mover EXCEPT ![m].pc = "done", ![m].booking = b,
                                    ![m].answer = c]
      PROVE  Goal
  BY <1>1, <1>2 DEF Move
<1>3. ASSUME NEW b \in Booked, NEW event \in Event,
             NEW to \in NextStatus(bookings[b].status, event),
             mover' = [mover EXCEPT ![m].pc = "update", ![m].booking = b,
                                    ![m].from = bookings[b].status, ![m].to = to]
      PROVE  Goal
  BY <1>1, <1>3 DEF Move
<1> QED BY <1>2, <1>3 DEF ReadBooking

LEMMA OnlyMover ==
  ASSUME TypeInv, NEW m \in Mover, ReadBooking(m) \/ MoveStep(m) \/ TransitionFault(m)
  PROVE  \A n \in Mover \ {m} : mover'[n] = mover[n]
<1>1. mover \in [Mover -> Move]
  BY DEF TypeInv, TypeOK
<1>2. CASE MoveStep(m) \/ TransitionFault(m)
  BY <1>1, <1>2 DEF MoveStep, TransitionBooking, FinishTransition, TransitionFault
<1> QED BY <1>2, ReadAnswers

LEMMA WinnerStep ==
  ASSUME TypeInv, SafeInv, WinnerInv, [Next]_vars
  PROVE  WinnerInv'
<1> USE ReplyAssumption
<1>1. ASSUME NEW m \in Mover, Won(m), mover'[m] = mover[m]
      PROVE  Won(m)'
  BY <1>1, NoneGoesBack, RankType DEF Won
<1>2. CASE UNCHANGED mover
  BY <1>1, <1>2 DEF WinnerInv, OneWinner
<1>3. ASSUME NEW m \in Mover, ReadBooking(m) \/ MoveStep(m) \/ TransitionFault(m)
      PROVE  WinnerInv'
  <2>1. mover \in [Mover -> Move] /\ Won(m)
    BY DEF TypeInv, TypeOK, WinnerInv
  <2>2. ASSUME Won(m)', \A n \in Mover \ {m} : mover'[n] = mover[n],
               mover'[m].answer = "OK" =>
                 \A n \in Mover \ {m} :
                   mover[n].answer = "OK" /\ mover[n].booking = mover'[m].booking
                   => mover[n].from # mover'[m].from
        PROVE  WinnerInv'
    BY <1>1, <2>2 DEF WinnerInv, OneWinner
  <2>3. CASE ReadBooking(m) \/ TransitionFault(m)
             \/ (TransitionBooking(m) /\ mover'[m].answer # "OK")
    <3>1. mover'[m].answer # "OK" /\ \A n \in Mover \ {m} : mover'[n] = mover[n]
      <4>1. mover[m].answer # "OK"
        BY <2>1, <2>3 DEF Won, ReadBooking, TransitionFault, TransitionBooking
      <4>2. CASE TransitionFault(m) \/ (TransitionBooking(m) /\ mover'[m].answer # "OK")
        BY <2>1, <4>2 DEF TransitionFault, TransitionBooking, Move
      <4>3. CASE ReadBooking(m)
        BY <4>1, <4>3, ReadAnswers
      <4> QED BY <2>3, <4>2, <4>3
    <3> QED BY <2>2, <3>1 DEF Won
  <2>4. CASE TransitionBooking(m) /\ mover'[m].answer = "OK"
    <3> DEFINE b == mover[m].booking
    <3>1. /\ b \in Booked /\ bookings[b].status = mover[m].from
          /\ Rank(mover[m].from) < Rank(bookings'[b].status)
          /\ mover'[m].booking = b /\ mover'[m].from = mover[m].from
          /\ mover'[m].pc \in {"invalidate", "done"}
          /\ \A n \in Mover \ {m} : mover'[n] = mover[n]
      BY <2>4, TransitionWins
    <3>2. b \in Booked'
      BY <3>1, NoneGoesBack
    <3>3. Won(m)'
      BY <3>1, <3>2 DEF Won
    <3>4. ASSUME NEW n \in Mover \ {m}, mover[n].answer = "OK", mover[n].booking = b
          PROVE  mover[n].from # mover[m].from
      <4>1. Rank(mover[n].from) < Rank(bookings[b].status)
        BY <3>4 DEF WinnerInv, Won
      <4> QED BY <3>1, <4>1, RankType
    <3> QED BY <2>2, <3>1, <3>3, <3>4
  <2>5. CASE FinishTransition(m)
    <3>1. /\ mover'[m].pc = "done" /\ mover'[m].answer = mover[m].answer
          /\ mover'[m].booking = mover[m].booking /\ mover'[m].from = mover[m].from
          /\ \A n \in Mover \ {m} : mover'[n] = mover[n]
      BY <2>1, <2>5 DEF FinishTransition, Move
    <3>2. Won(m)'
      BY <2>1, <3>1, NoneGoesBack, RankType DEF Won
    <3> QED BY <2>2, <3>1, <3>2 DEF WinnerInv, OneWinner
  <2> QED BY <1>3, <2>3, <2>4, <2>5 DEF MoveStep
<1>4. ASSUME NEW r \in Request,
             Submit(r) \/ CreateStep(r) \/ Fault(r) \/ CommitAnswerLost(r)
      PROVE  UNCHANGED mover
  BY <1>4 DEF CreateStep, Submit, GetServiceWithProvider, ResolveScheduling,
         ResourcesForStart, ReserveCode, InsertTuple, CheckConstraints,
         DeadlockDetected, Commit, TryResource, FinishCreate, Fault, CommitAnswerLost
<1>5. CASE \/ \E l \in Lister : ListResources(l) \/ ListBusyIntervals(l) \/ CachePut(l)
           \/ \E s \in Service : CacheExpire(s) \/ UpdateService(s) \/ DeleteService(s)
           \/ \E p \in Provider : UpdateProvider(p)
           \/ \E b \in Resource : UpdateResource(b) \/ DeleteResource(b)
           \/ UNCHANGED vars
  <2>1. UNCHANGED mover
    BY <1>5, Zenon DEF vars, ListResources, ListBusyIntervals, CachePut, CacheExpire,
         UpdateService, DeleteService, UpdateProvider, UpdateResource, DeleteResource
  <2> QED BY <1>2, <2>1
<1> QED BY <1>2, <1>3, <1>4, <1>5 DEF Next

\* However many staff members and customers act on one booking at once, of those
\* that found it in one status at most one moves it.
THEOREM OneTransitionWins == Spec => []OneWinner
<1>1. Init => WinnerInv
  BY ReplyAssumption DEF Init, NoMove, WinnerInv, OneWinner, Won
<1>2. TypeInv /\ SafeInv /\ WinnerInv /\ [Next]_vars => WinnerInv'
  BY WinnerStep
<1>3. WinnerInv => OneWinner
  BY DEF WinnerInv
<1> QED BY <1>1, <1>2, <1>3, SpecSafeInv, PTL DEF Spec

-----------------------------------------------------------------------------
(* Where a reservation puts its booking.                                   *)

\* A request writes for the owner of its service, on bays of its service.
Placed(r) ==
  LET s == local[r].in.service IN
  /\ pc[r] \notin {"idle", "service", "done"} => local[r].provider = Owner[s]
  /\ pc[r] = "busy" \/ Walking(r) => \A b \in local[r].bays : <<s, b>> \in Performs
  /\ Walking(r) => local[r].cands \subseteq local[r].bays

\* Until something is edited, its two reads of the service agree, and its
\* candidates have room for it.
Fitted(r) ==
  LET s == local[r].in.service
      start == local[r].in.start
  IN
  edits = 0 =>
    /\ pc[r] \in {"slots", "busy"} \/ Walking(r)
         => local[r].end = start + service[s].minutes
    /\ pc[r] = "busy" \/ Walking(r) => local[r].minutes = service[s].minutes
    /\ Walking(r) => \A b \in local[r].cands : Fits(b, start, local[r].minutes)

\* The row is of a service that its bay performs, and of that service's owner.
OfItsBay(row) ==
  \E s \in Service : <<s, row.resource>> \in Performs /\ row.provider = Owner[s]

PlaceInv ==
  /\ \A r \in Request : Placed(r) /\ Fitted(r)
  /\ \A q \in Booked : OfItsBay(bookings[q])
  /\ InsideOpeningHours

LEMMA StillPlaced ==
  ASSUME TypeInv, [Next]_vars, NEW r \in Request, Placed(r), Fitted(r),
         local'[r] = local[r], pc'[r] = pc[r]
  PROVE  Placed(r)' /\ Fitted(r)'
<1>1. edits' = 0 => edits = 0 /\ UNCHANGED service
  BY EditsGrow DEF tables
<1> QED BY <1>1 DEF Placed, Fitted, Walking, Fits

\* The same for a request that only goes on, keeping what it has read.
LEMMA PlaceKept ==
  ASSUME TypeInv, [Next]_vars, NEW r \in Request, Placed(r), Fitted(r),
         SameQuestion(r), local'[r].provider = local[r].provider,
         UNCHANGED <<service, edits>>,
         pc[r] # "service", pc[r] # "idle", pc[r] # "done",
         Walking(r)' => Walking(r) /\ local'[r].cands \subseteq local[r].cands,
         pc'[r] \in {"slots", "busy"} => pc'[r] = pc[r]
  PROVE  Placed(r)' /\ Fitted(r)'
<1>1. /\ local'[r].in = local[r].in /\ local'[r].end = local[r].end
      /\ local'[r].minutes = local[r].minutes /\ local'[r].bays = local[r].bays
  BY DEF SameQuestion
<1>2. Placed(r)'
  BY <1>1 DEF Placed
<1>3. Fitted(r)'
  BY <1>1 DEF Fitted, Fits
<1> QED BY <1>2, <1>3

LEMMA PlacedStep ==
  ASSUME TypeInv, SafeInv, [Next]_vars, NEW r \in Request, Placed(r), Fitted(r),
         Submit(r) \/ CreateStep(r) \/ Fault(r) \/ CommitAnswerLost(r)
  PROVE  Placed(r)' /\ Fitted(r)'
<1>1. /\ pc \in [Request -> Label] /\ local[r] \in Local
  BY LocalType DEF TypeInv, TypeOK
<1>2. ASSUME pc'[r] \in {"idle", "service", "done"}
      PROVE  Placed(r)' /\ Fitted(r)'
  BY <1>2 DEF Placed, Fitted, Walking
<1>3. UNCHANGED <<service, edits>>
  BY DEF tables, CreateStep, Submit, GetServiceWithProvider,
         ResolveScheduling, ResourcesForStart, ReserveCode, InsertTuple,
         CheckConstraints, DeadlockDetected, Commit, TryResource, FinishCreate,
         Fault, CommitAnswerLost
<1>4. CASE Submit(r) \/ FinishCreate(r) \/ Fault(r) \/ CommitAnswerLost(r)
  BY <1>1, <1>2, <1>4
     DEF Submit, FinishCreate, Fault, CommitAnswerLost, Answer, Goto
<1>5. ASSUME NEW c, Answer(r, c) PROVE Placed(r)' /\ Fitted(r)'
  BY <1>2, <1>5, Answered
<1>6. CASE GetServiceWithProvider(r)
  <2> DEFINE s == local[r].in.service
  <2>1. CASE Answer(r, Unbookable(s))
    BY <1>5, <2>1
  <2>2. CASE ~Answer(r, Unbookable(s))
    <3>1. /\ pc'[r] = "slots" /\ local'[r].provider = Owner[s]
          /\ local'[r].end = local[r].in.start + service[s].minutes
          /\ local'[r].in = local[r].in
      BY <1>1, <1>6, <2>2 DEF GetServiceWithProvider, Goto, Local, TypeInv, TypeOK
    <3> QED BY <1>3, <3>1 DEF Placed, Fitted, Walking
  <2> QED BY <2>1, <2>2
<1>7. CASE ResolveScheduling(r)
  <2> DEFINE s == local[r].in.service
  <2>1. CASE Answer(r, Unbookable(s))
    BY <1>5, <2>1
  <2>2. CASE ~Answer(r, Unbookable(s))
    <3>1. /\ pc[r] = "slots" /\ pc'[r] = "busy"
          /\ local'[r].provider = local[r].provider
          /\ local'[r].end = local[r].end /\ local'[r].in = local[r].in
          /\ local'[r].minutes = TotalDuration(s) /\ local'[r].bays = BaysFor(s)
      BY <1>1, <1>7, <2>2 DEF ResolveScheduling, Goto, Local, TypeInv, TypeOK
    <3> QED BY <1>3, <3>1 DEF Placed, Fitted, Walking, BaysFor, TotalDuration
  <2> QED BY <2>1, <2>2
<1>8. CASE ResourcesForStart(r)
  <2> DEFINE in == local[r].in
             cands == FreeBays(local[r].bays, in.start, local[r].minutes) \cap Wanted(r)
  <2>1. CASE \E c : Answer(r, c)
    BY <1>5, <2>1
  <2>2. CASE ~\E c : Answer(r, c)
    <3>1. /\ local' = [local EXCEPT ![r].cands = cands, ![r].attempt = 0]
          /\ Goto(r, "code") /\ pc[r] = "busy"
      BY <1>8, <2>2 DEF ResourcesForStart, Wanted
    <3>2. /\ cands \subseteq local[r].bays
          /\ \A b \in cands : Fits(b, in.start, local[r].minutes)
      BY DEF FreeBays
    <3> HIDE DEF cands
    <3>3. /\ SameQuestion(r) /\ pc'[r] = "code" /\ local'[r].cands = cands
          /\ local'[r].provider = local[r].provider
      BY <1>1, <3>1 DEF SameQuestion, Local, Goto, TypeInv, TypeOK
    <3>4. Placed(r)'
      BY <3>1, <3>2, <3>3 DEF Placed, SameQuestion, Walking
    <3>5. Fitted(r)'
      BY <1>3, <3>1, <3>2, <3>3 DEF Fitted, SameQuestion, Walking, Fits
    <3> QED BY <3>4, <3>5
  <2> QED BY <2>1, <2>2
<1>9. CASE ReserveCode(r) \/ InsertTuple(r) \/ CheckConstraints(r)
           \/ DeadlockDetected(r) \/ Commit(r)
  <2>1. Walking(r) /\ pc[r] \notin {"service", "idle", "done"}
    BY <1>9 DEF ReserveCode, InsertTuple, CheckConstraints, DeadlockDetected,
                Commit, Walking
  <2>2. /\ SameQuestion(r) /\ local'[r].provider = local[r].provider
        /\ local'[r].cands = local[r].cands /\ pc'[r] \notin {"slots", "busy"}
    BY <1>1, <1>9 DEF ReserveCode, InsertTuple, CheckConstraints, DeadlockDetected,
           Commit, Rollback, Fail, SameQuestion, Local, Goto, TypeInv, TypeOK
  <2> QED BY <1>3, <2>1, <2>2, PlaceKept
<1>10. CASE TryResource(r)
  <2>1. Walking(r) /\ pc[r] = "failed"
    BY <1>10 DEF TryResource, Walking
  <2>2. CASE \E c : Answer(r, c)
    BY <1>5, <2>2
  <2>3. CASE NextBay(r)
    <3>1. /\ SameQuestion(r) /\ local'[r].provider = local[r].provider
          /\ local'[r].cands \subseteq local[r].cands
          /\ pc'[r] \in {"code", "done"}
      BY <2>3, Retried DEF SameQuestion, NoLocal
    <3> QED BY <1>3, <2>1, <3>1, PlaceKept
  <2>4. CASE Goto(r, "code") /\ local' = [local EXCEPT ![r].attempt = @ + 1]
    <3>1. /\ SameQuestion(r) /\ local'[r].provider = local[r].provider
          /\ local'[r].cands = local[r].cands /\ pc'[r] = "code"
      BY <1>1, <2>4 DEF SameQuestion, Local, Goto, TypeInv, TypeOK
    <3> QED BY <1>3, <2>1, <3>1, PlaceKept
  <2> QED BY <1>10, <2>2, <2>3, <2>4 DEF TryResource
<1> QED BY <1>4, <1>6, <1>7, <1>8, <1>9, <1>10 DEF CreateStep

\* What a tuple asks for is a place of its service.
LEMMA TupleIsPlaced ==
  ASSUME TypeInv, AsAsked, NEW r \in Request, pc[r] = "options", Placed(r), Fitted(r)
  PROVE  /\ OfItsBay(tuple[r])
         /\ edits = 0 => Fits(tuple[r].resource, tuple[r].start,
                              tuple[r].end - tuple[r].start)
<1>1. tuple[r] = NewRow(r) /\ Walking(r)
  BY DEF AsAsked, Walking
<1>2. local[r].in \in Input /\ local[r].cands # {} /\ local[r] \in Local
  BY SetAssumption, LocalType DEF TypeInv, LocalInv, At
<1>3. Bay(r) \in local[r].cands
  BY <1>2, BayIsCandidate, SetAssumption DEF Local
<1>4. OfItsBay(tuple[r])
  BY <1>1, <1>2, <1>3 DEF OfItsBay, Placed, NewRow, Input
<1>5. ASSUME edits = 0
      PROVE  Fits(tuple[r].resource, tuple[r].start, tuple[r].end - tuple[r].start)
  <2>1. /\ local[r].end = local[r].in.start + local[r].minutes
        /\ Fits(Bay(r), local[r].in.start, local[r].minutes)
    BY <1>1, <1>3, <1>5 DEF Fitted
  <2>2. local[r].minutes \in Nat /\ local[r].in.start \in Nat
    BY <1>2 DEF Local, Input
  <2>3. local[r].end - local[r].in.start = local[r].minutes
    BY <2>1, <2>2
  <2> QED BY <1>1, <2>1, <2>3 DEF NewRow
<1> QED BY <1>4, <1>5

LEMMA PlaceStep ==
  ASSUME TypeInv, SafeInv, RowInv, PlaceInv, [Next]_vars
  PROVE  PlaceInv'
<1>1. \A r \in Request : (Placed(r) /\ Fitted(r))'
  <2>1. ASSUME NEW r \in Request,
               Submit(r) \/ CreateStep(r) \/ Fault(r) \/ CommitAnswerLost(r)
        PROVE  \A q \in Request : (Placed(q) /\ Fitted(q))'
    <3>1. \A q \in Request \ {r} : (Placed(q) /\ Fitted(q))'
      BY <2>1, OthersUntouched, StillPlaced DEF OnlyRequest, PlaceInv
    <3>2. Placed(r)' /\ Fitted(r)'
      BY <2>1, PlacedStep DEF PlaceInv
    <3> QED BY <3>1, <3>2
  <2>2. CASE UNCHANGED <<pc, local>>
    BY <2>2, StillPlaced DEF PlaceInv
  <2> QED BY <2>1, <2>2, ReservationsUntouched
<1>2. edits' = 0 => edits = 0
  BY EditsGrow
<1>3. ASSUME NEW q \in Booked'
      PROVE  /\ OfItsBay(bookings'[q])
             /\ edits' = 0 => Fits(bookings'[q].resource, bookings'[q].start,
                                   bookings'[q].end - bookings'[q].start)
  <2>1. CASE q \in Booked
    <3>1. /\ bookings'[q].resource = bookings[q].resource
          /\ bookings'[q].start = bookings[q].start
          /\ bookings'[q].end = bookings[q].end
          /\ bookings'[q].provider = bookings[q].provider
      BY <2>1, RowsAreKept DEF RowsKept
    <3> QED BY <1>2, <2>1, <3>1 DEF PlaceInv, OfItsBay, InsideOpeningHours
  <2>2. CASE q \notin Booked
    <3>1. Commit(q) \/ CommitAnswerLost(q)
      BY <2>2, NewRowIsCommitted
    <3>2. bookings'[q] = tuple[q] /\ pc[q] = "options" /\ q \in Request
      BY <3>1 DEF Commit, CommitAnswerLost, TypeInv, TypeOK, Booked
    <3> QED BY <1>2, <3>2, TupleIsPlaced DEF RowInv, PlaceInv
  <2> QED BY <2>1, <2>2
<1> QED BY <1>1, <1>3 DEF PlaceInv, InsideOpeningHours, Fits

LEMMA SpecPlaceInv == Spec => [](TypeInv /\ SafeInv /\ RowInv /\ PlaceInv)
<1>1. Init => PlaceInv
  BY DEF Init, PlaceInv, Placed, Fitted, Walking, Booked, InsideOpeningHours
<1>2. TypeInv /\ SafeInv /\ RowInv /\ PlaceInv /\ [Next]_vars => PlaceInv'
  BY PlaceStep
<1> QED BY <1>1, <1>2, SpecRowInv, PTL DEF Spec

\* While nobody edits the catalog, every booking lies on the grid and inside the
\* hours of its bay, although the service is read twice, and hours are looked at
\* long before the row is there.
THEOREM WithinHours == Spec => []InsideOpeningHours
<1>1. PlaceInv => InsideOpeningHours
  BY DEF PlaceInv
<1> QED BY <1>1, SpecPlaceInv, PTL

-----------------------------------------------------------------------------
(* What the cache shows.                                                   *)

Quiet == edits = 0 /\ faults = 0

\* What a list computed now would show.
Current(s) == GenerateSlots(BaysFor(s), service[s].minutes)

\* A fill knows the bays and the duration of its service; and what it has
\* computed, and what is cached, is current unless an invalidation is due or
\* has overtaken the fill.
FreshInv ==
  Quiet =>
    /\ \A l \in Lister :
         LET s == lister[l].service IN
         /\ lister[l].pc # "idle" => /\ lister[l].bays = BaysFor(s)
                                     /\ lister[l].minutes = service[s].minutes
         /\ /\ lister[l].pc = "put" /\ ~lister[l].raced
            /\ KeptApart(s) /\ ~InvalidationDue(Owner[s])
            => lister[l].free = Current(s)
    /\ \A s \in Service :
         /\ cache[s] # None /\ ~cache[s].raced
         /\ KeptApart(s) /\ ~InvalidationDue(Owner[s])
         => cache[s].free = Current(s)

LEMMA QuietBefore ==
  ASSUME TypeInv, [Next]_vars, Quiet'
  PROVE  Quiet /\ UNCHANGED <<tables, edits, faults>>
<1>1. faults \in Nat
  BY BoundAssumption DEF TypeInv, TypeOK
<1>2. UNCHANGED faults \/ faults' = faults + 1
  <2>1. ASSUME NEW r \in Request,
               Submit(r) \/ CreateStep(r) \/ Fault(r) \/ CommitAnswerLost(r)
        PROVE  UNCHANGED faults \/ faults' = faults + 1
    BY <2>1 DEF CreateStep, Submit, GetServiceWithProvider,
         ResolveScheduling, ResourcesForStart, ReserveCode, InsertTuple,
         CheckConstraints, DeadlockDetected, Commit, TryResource, FinishCreate,
         Fault, CommitAnswerLost
  <2>2. ASSUME NEW m \in Mover, ReadBooking(m) \/ MoveStep(m) \/ TransitionFault(m)
        PROVE  UNCHANGED faults \/ faults' = faults + 1
    BY <2>2, Zenon DEF ReadBooking, MoveStep, TransitionBooking,
         FinishTransition, TransitionFault
  <2> QED BY <2>1, <2>2, Zenon DEF Next, vars, ListResources, ListBusyIntervals,
         CachePut, CacheExpire, UpdateService, DeleteService, UpdateProvider,
         UpdateResource, DeleteResource
<1>3. edits = 0 /\ edits' = edits /\ UNCHANGED tables
  BY EditsGrow DEF Quiet
<1>4. faults = 0 /\ faults' = faults
  BY <1>1, <1>2 DEF Quiet
<1> QED BY <1>3, <1>4 DEF Quiet

\* Without edits and faults, a row is new or moves along an edge.
LEMMA QuietTableStep ==
  ASSUME TypeInv, [Next]_vars, Quiet'
  PROVE  \/ UNCHANGED bookings
         \/ \E r \in Request : Commit(r)
         \/ \E m \in Mover : TransitionBooking(m) /\ mover'[m].answer = "OK"
<1>1. edits = 0 /\ faults = 0 /\ edits' = 0 /\ faults' = 0
  BY QuietBefore DEF Quiet
<1>2. ASSUME NEW r \in Request,
             Submit(r) \/ CreateStep(r) \/ Fault(r) \/ CommitAnswerLost(r)
      PROVE  UNCHANGED bookings \/ Commit(r)
  <2>1. ~Fault(r) /\ ~CommitAnswerLost(r)
    BY <1>1 DEF Fault, CommitAnswerLost
  <2>2. CASE Submit(r) \/ GetServiceWithProvider(r) \/ ResolveScheduling(r)
             \/ ResourcesForStart(r) \/ ReserveCode(r)
    BY <2>2, Zenon DEF Submit, GetServiceWithProvider, ResolveScheduling,
         ResourcesForStart, ReserveCode
  <2>3. CASE InsertTuple(r) \/ CheckConstraints(r) \/ DeadlockDetected(r)
             \/ TryResource(r) \/ FinishCreate(r)
    BY <2>3, Zenon DEF InsertTuple, CheckConstraints, DeadlockDetected, TryResource,
         FinishCreate
  <2> QED BY <1>2, <2>1, <2>2, <2>3, Zenon DEF CreateStep
<1>3. ASSUME NEW m \in Mover, ReadBooking(m) \/ MoveStep(m) \/ TransitionFault(m)
      PROVE  UNCHANGED bookings \/ (TransitionBooking(m) /\ mover'[m].answer = "OK")
  <2>1. ~TransitionFault(m)
    BY <1>1 DEF TransitionFault
  <2>2. CASE TransitionBooking(m)
    BY <2>2, TransitionWrites
  <2> QED BY <1>3, <2>1, <2>2, Zenon DEF ReadBooking, MoveStep, FinishTransition
<1>4. ASSUME NEW s \in Service, DeleteService(s) PROVE FALSE
  BY <1>1, <1>4 DEF DeleteService, Edit
<1>5. CASE \/ \E l \in Lister : ListResources(l) \/ ListBusyIntervals(l) \/ CachePut(l)
           \/ \E s \in Service : CacheExpire(s) \/ UpdateService(s)
           \/ \E p \in Provider : UpdateProvider(p)
           \/ \E b \in Resource : UpdateResource(b) \/ DeleteResource(b)
           \/ UNCHANGED vars
  BY <1>5 DEF ListResources, ListBusyIntervals, CachePut, CacheExpire,
         UpdateService, UpdateProvider, UpdateResource, DeleteResource, vars
<1> QED BY <1>2, <1>3, <1>4, <1>5 DEF Next

\* Row q holds bay b.
Holds(q, b) ==
  q \in Booked /\ bookings[q].resource = b /\ IsActive(bookings[q].status)

LEMMA BusyStays ==
  ASSUME NEW b, RowsKept, \A q \in Request : Holds(q, b)' <=> Holds(q, b)
  PROVE  \A from, to : Busy(b, from, to)' <=> Busy(b, from, to)
BY DEF Busy, Holds, RowsKept, Booked

\* Who changes what is free on a bay of the service has still to invalidate
\* the lists of the service's provider.
LEMMA ChangeIsDue ==
  ASSUME TypeInv, SafeInv, RowInv, PlaceInv, [Next]_vars, Quiet',
         NEW s \in Service, KeptApart(s), ~InvalidationDue(Owner[s])',
         NEW b \in BaysFor(s)
  PROVE  \A from, to : Busy(b, from, to)' <=> Busy(b, from, to)
<1>1. <<s, b>> \in Performs /\ b \in Resource
  BY DEF BaysFor
<1>2. RowsKept
  BY RowsAreKept
<1>3. ASSUME NEW row, OfItsBay(row), row.resource = b
      PROVE  row.provider = Owner[s]
  BY <1>1, <1>3 DEF OfItsBay, KeptApart
<1>4. CASE UNCHANGED bookings
  BY <1>2, <1>4, BusyStays DEF Holds, Booked
<1>5. ASSUME NEW r \in Request, Commit(r)
      PROVE  \A q \in Request : Holds(q, b)' <=> Holds(q, b)
  <2>1. /\ pc[r] = "options" /\ pc'[r] = "invalidate" /\ UNCHANGED local
        /\ bookings' = [bookings EXCEPT ![r] = tuple[r]]
    BY <1>5 DEF Commit, Goto, TypeInv, TypeOK
  <2>2. tuple[r] = NewRow(r) /\ OfItsBay(tuple[r])
    BY <2>1, TupleIsPlaced DEF RowInv, AsAsked, PlaceInv
  <2>3. tuple[r].provider = local[r].provider
    BY <2>2 DEF NewRow
  <2>4. tuple[r].resource # b
    BY <1>3, <2>1, <2>2, <2>3 DEF InvalidationDue
  <2>5. r \notin Booked /\ bookings'[r] = tuple[r]
        /\ \A q \in Request \ {r} : bookings'[q] = bookings[q]
    BY <1>5, CommitRow DEF TypeInv, TypeOK
  <2> QED BY <2>4, <2>5 DEF Holds, Booked
<1>6. ASSUME NEW m \in Mover, TransitionBooking(m), mover'[m].answer = "OK"
      PROVE  \A q \in Request : Holds(q, b)' <=> Holds(q, b)
  <2> DEFINE k == mover[m].booking
             to == mover[m].to
  <2>1. /\ k \in Booked /\ bookings[k].status = mover[m].from
        /\ mover'[m].booking = k /\ mover[m].pc = "update"
    BY <1>6, TransitionWins DEF TransitionBooking
  <2>2. PICK event \in Event : to \in NextStatus(mover[m].from, event)
    BY <2>1 DEF TypeInv, MoverInv
  <2>3. to \in Status /\ bookings' = [bookings EXCEPT
                  ![k].status = to, ![k].cancelledBy = CancelledBy(to)]
    BY <1>6, <2>2, TransitionWrites DEF SetStatus, NextStatus
  <2>4. IsActive(to) => IsActive(bookings[k].status)
    BY <2>1, <2>2, EdgeKeepsRest
  <2>5. bookings[k].resource = b /\ IsActive(bookings[k].status) => IsActive(to)
    <3> SUFFICES ASSUME bookings[k].resource = b, FreesSlot(mover[m].from, to)
                 PROVE  FALSE
      BY <2>1 DEF FreesSlot
    <3>1. mover'[m].pc = "invalidate"
      BY <1>6, MoverType DEF TransitionBooking, TypeInv, TypeOK, Move
    <3>2. bookings[k].provider = Owner[s]
      BY <1>3, <2>1 DEF PlaceInv
    <3>3. bookings'[mover'[m].booking].provider = Owner[s]
      BY <1>2, <2>1, <3>2 DEF RowsKept
    <3> QED BY <3>1, <3>3 DEF InvalidationDue
  <2>6. /\ bookings'[k].status = to /\ bookings'[k].resource = bookings[k].resource
        /\ \A q \in Request \ {k} : bookings'[q] = bookings[q]
        /\ k \in Booked'
    <3> HIDE DEF k, to
    <3> QED BY <1>2, <2>1, <2>3, StatusUpdate DEF RowsKept
  <2>7. ASSUME NEW q \in Request PROVE Holds(q, b)' <=> Holds(q, b)
    <3>1. CASE q = k
      BY <2>1, <2>4, <2>5, <2>6, <3>1 DEF Holds
    <3>2. CASE q # k
      BY <2>6, <3>2 DEF Holds, Booked
    <3> QED BY <3>1, <3>2
  <2> QED BY <2>7
<1> QED BY <1>2, <1>4, <1>5, <1>6, BusyStays, QuietTableStep

LEMMA CurrentStays ==
  ASSUME TypeInv, SafeInv, RowInv, PlaceInv, [Next]_vars, Quiet',
         NEW s \in Service, KeptApart(s), ~InvalidationDue(Owner[s])'
  PROVE  Current(s)' = Current(s)
<1>1. UNCHANGED <<service, resource>>
  BY QuietBefore DEF tables
<1>2. BaysFor(s)' = BaysFor(s) /\ service'[s].minutes = service[s].minutes
  BY <1>1 DEF BaysFor
<1>3. \A b \in BaysFor(s) : \A from, to : Busy(b, from, to)' <=> Busy(b, from, to)
  BY ChangeIsDue
<1> HIDE DEF BaysFor, Busy
<1>4. ASSUME NEW start, NEW minutes
      PROVE  { b \in BaysFor(s) : Fits(b, start, minutes)
                                  /\ ~Busy(b, start, start + minutes)' }
             = { b \in BaysFor(s) : Fits(b, start, minutes)
                                    /\ ~Busy(b, start, start + minutes) }
  BY <1>3
<1> QED BY <1>2, <1>4 DEF Current, GenerateSlots, FreeBays, Fits

\* An invalidation that was due and is not any more has just been done.
LEMMA DueEnds ==
  ASSUME TypeInv, SafeInv, [Next]_vars, Quiet', NEW p,
         InvalidationDue(p), ~InvalidationDue(p)'
  PROVE  InvalidateProvider(p)
<1>1. edits = 0 /\ faults = 0 /\ edits' = 0 /\ faults' = 0
  BY QuietBefore DEF Quiet
<1>2. ASSUME NEW r \in Request, pc[r] = "invalidate", local[r].provider = p
      PROVE  InvalidateProvider(p)
  <2>1. ~(pc'[r] = pc[r] /\ local'[r] = local[r])
    BY <1>2 DEF InvalidationDue
  <2>2. Submit(r) \/ CreateStep(r) \/ Fault(r) \/ CommitAnswerLost(r)
    BY <2>1, ReservationsUntouched, OthersUntouched DEF OnlyRequest
  <2>3. FinishCreate(r)
    BY <1>2, <2>2 DEF Submit, CreateStep, Fault, CommitAnswerLost,
           GetServiceWithProvider, ResolveScheduling, ResourcesForStart,
           ReserveCode, InsertTuple, CheckConstraints, DeadlockDetected, Commit,
           TryResource
  <2> QED BY <1>2, <2>3 DEF FinishCreate
<1>3. ASSUME NEW m \in Mover, mover[m].pc = "invalidate",
             bookings[mover[m].booking].provider = p
      PROVE  InvalidateProvider(p)
  <2>1. mover[m].booking \in Booked
    BY <1>3 DEF TypeInv, MoverInv
  <2>2. mover'[m] # mover[m]
    BY <1>3, <2>1, RowsAreKept DEF RowsKept, InvalidationDue
  <2>3. PICK n \in Mover : ReadBooking(n) \/ MoveStep(n) \/ TransitionFault(n)
    <3>1. ASSUME NEW r \in Request,
                 Submit(r) \/ CreateStep(r) \/ Fault(r) \/ CommitAnswerLost(r)
          PROVE  UNCHANGED mover
      BY <3>1 DEF CreateStep, Submit, GetServiceWithProvider, ResolveScheduling,
           ResourcesForStart, ReserveCode, InsertTuple, CheckConstraints,
           DeadlockDetected, Commit, TryResource, FinishCreate, Fault,
           CommitAnswerLost
    <3>2. CASE \/ \E l \in Lister :
                     ListResources(l) \/ ListBusyIntervals(l) \/ CachePut(l)
               \/ \E s \in Service : CacheExpire(s) \/ UpdateService(s)
                                     \/ DeleteService(s)
               \/ \E q \in Provider : UpdateProvider(q)
               \/ \E b \in Resource : UpdateResource(b) \/ DeleteResource(b)
               \/ UNCHANGED vars
      <4>1. UNCHANGED mover
        BY <3>2, Zenon DEF vars, ListResources, ListBusyIntervals, CachePut,
             CacheExpire, UpdateService, DeleteService, UpdateProvider,
             UpdateResource, DeleteResource
      <4> QED BY <2>2, <4>1
    <3> QED BY <2>2, <3>1, <3>2 DEF Next
  <2>4. n = m
    BY <2>2, <2>3, OnlyMover
  <2>5. FinishTransition(m)
    BY <1>3, <2>3, <2>4
       DEF ReadBooking, MoveStep, TransitionBooking, TransitionFault
  <2> QED BY <1>3, <2>5 DEF FinishTransition
<1> QED BY <1>2, <1>3 DEF InvalidationDue

\* The ways in which a lister changes ...
LEMMA ListerSteps ==
  ASSUME TypeInv, [Next]_vars, NEW l \in Lister
  PROVE  \/ lister'[l] = lister[l]
         \/ lister'[l] = [lister[l] EXCEPT !.raced = TRUE]
         \/ ListResources(l) \/ ListBusyIntervals(l) \/ CachePut(l)
<1> DEFINE Goal == \/ lister'[l] = lister[l]
                   \/ lister'[l] = [lister[l] EXCEPT !.raced = TRUE]
                   \/ ListResources(l) \/ ListBusyIntervals(l) \/ CachePut(l)
<1>1. ASSUME NEW p, InvalidateProvider(p) PROVE Goal
  BY <1>1 DEF InvalidateProvider
<1>2. ASSUME NEW r \in Request,
             Submit(r) \/ CreateStep(r) \/ Fault(r) \/ CommitAnswerLost(r)
      PROVE  UNCHANGED lister \/ \E p : InvalidateProvider(p)
  BY <1>2 DEF CreateStep, Submit, GetServiceWithProvider, ResolveScheduling,
         ResourcesForStart, ReserveCode, InsertTuple, CheckConstraints,
         DeadlockDetected, Commit, TryResource, FinishCreate, Fault, CommitAnswerLost
<1>3. ASSUME NEW m \in Mover, ReadBooking(m) \/ MoveStep(m) \/ TransitionFault(m)
      PROVE  UNCHANGED lister \/ \E p : InvalidateProvider(p)
  BY <1>3, Zenon DEF ReadBooking, MoveStep, TransitionBooking, FinishTransition,
         TransitionFault
<1>4. ASSUME NEW k \in Lister, ListResources(k) \/ ListBusyIntervals(k) \/ CachePut(k)
      PROVE  Goal
  <2>1. lister \in [Lister -> Listing]
    BY DEF TypeInv, TypeOK
  <2>2. k # l => lister'[l] = lister[l]
    BY <1>4, <2>1 DEF ListResources, ListBusyIntervals, CachePut
  <2> QED BY <1>4, <2>2
<1>5. ASSUME \/ \E s \in Service : CacheExpire(s) \/ UpdateService(s) \/ DeleteService(s)
             \/ \E p \in Provider : UpdateProvider(p)
             \/ \E b \in Resource : UpdateResource(b) \/ DeleteResource(b)
             \/ UNCHANGED vars
      PROVE  Goal
  <2>1. UNCHANGED lister \/ \E p : InvalidateProvider(p)
    BY <1>5, Zenon DEF vars, CacheExpire, UpdateService, DeleteService,
         UpdateProvider, UpdateResource, DeleteResource
  <2> QED BY <1>1, <2>1
<1>6. UNCHANGED lister => Goal
  OBVIOUS
<1> HIDE DEF Goal
<1>7. ASSUME NEW r \in Request,
             Submit(r) \/ CreateStep(r) \/ Fault(r) \/ CommitAnswerLost(r)
      PROVE  Goal
  BY <1>1, <1>2, <1>6, <1>7
<1>8. ASSUME NEW m \in Mover, ReadBooking(m) \/ MoveStep(m) \/ TransitionFault(m)
      PROVE  Goal
  BY <1>1, <1>3, <1>6, <1>8
<1>9. Goal
  BY <1>4, <1>5, <1>7, <1>8 DEF Next
<1> QED BY <1>9 DEF Goal

\* ... and in which a cached list does.
LEMMA CacheSteps ==
  ASSUME TypeInv, [Next]_vars, NEW s \in Service
  PROVE  \/ cache'[s] = cache[s] \/ cache'[s] = None
         \/ \E l \in Lister : CachePut(l) /\ lister[l].service = s
<1> DEFINE Goal == \/ cache'[s] = cache[s] \/ cache'[s] = None
                   \/ \E l \in Lister : CachePut(l) /\ lister[l].service = s
<1>0. DOMAIN cache = Service
  BY DEF TypeInv, TypeOK
<1>1. ASSUME NEW p, InvalidateProvider(p) PROVE Goal
  BY <1>1 DEF InvalidateProvider
<1>2. ASSUME NEW r \in Request,
             Submit(r) \/ CreateStep(r) \/ Fault(r) \/ CommitAnswerLost(r)
      PROVE  UNCHANGED cache \/ \E p : InvalidateProvider(p)
  BY <1>2 DEF CreateStep, Submit, GetServiceWithProvider, ResolveScheduling,
         ResourcesForStart, ReserveCode, InsertTuple, CheckConstraints,
         DeadlockDetected, Commit, TryResource, FinishCreate, Fault, CommitAnswerLost
<1>3. ASSUME NEW m \in Mover, ReadBooking(m) \/ MoveStep(m) \/ TransitionFault(m)
      PROVE  UNCHANGED cache \/ \E p : InvalidateProvider(p)
  BY <1>3, Zenon DEF ReadBooking, MoveStep, TransitionBooking, FinishTransition,
         TransitionFault
<1>4. ASSUME NEW k \in Lister, ListResources(k) \/ ListBusyIntervals(k) \/ CachePut(k)
      PROVE  Goal
  <2>1. CASE CachePut(k) /\ lister[k].service # s
    BY <1>0, <2>1 DEF CachePut
  <2> QED BY <1>4, <2>1 DEF ListResources, ListBusyIntervals
<1>5. ASSUME NEW o \in Service, CacheExpire(o) PROVE Goal
  BY <1>0, <1>5 DEF CacheExpire
<1>6. ASSUME \/ \E o \in Service : UpdateService(o) \/ DeleteService(o)
             \/ \E p \in Provider : UpdateProvider(p)
             \/ \E b \in Resource : UpdateResource(b) \/ DeleteResource(b)
             \/ UNCHANGED vars
      PROVE  Goal
  <2>1. UNCHANGED cache \/ \E p : InvalidateProvider(p)
    BY <1>6, Zenon DEF vars, UpdateService, DeleteService,
         UpdateProvider, UpdateResource, DeleteResource
  <2> QED BY <1>1, <2>1
<1>7. UNCHANGED cache => Goal
  OBVIOUS
<1> HIDE DEF Goal
<1>8. ASSUME NEW r \in Request,
             Submit(r) \/ CreateStep(r) \/ Fault(r) \/ CommitAnswerLost(r)
      PROVE  Goal
  BY <1>1, <1>2, <1>7, <1>8
<1>9. ASSUME NEW m \in Mover, ReadBooking(m) \/ MoveStep(m) \/ TransitionFault(m)
      PROVE  Goal
  BY <1>1, <1>3, <1>7, <1>9
<1>10. Goal
  BY <1>4, <1>5, <1>6, <1>8, <1>9 DEF Next
<1> QED BY <1>10 DEF Goal

LEMMA FreshStep ==
  ASSUME TypeInv, SafeInv, RowInv, PlaceInv, FreshInv, [Next]_vars
  PROVE  FreshInv'
<1> SUFFICES ASSUME Quiet' PROVE FreshInv'
  BY DEF FreshInv
<1>1. Quiet /\ UNCHANGED <<service, resource>>
  BY QuietBefore DEF tables
<1>2. \A s \in Service : BaysFor(s)' = BaysFor(s)
  BY <1>1 DEF BaysFor
<1>3. ASSUME NEW l \in Lister, lister'[l].pc # "idle",
             NEW s \in Service, s = lister'[l].service
      PROVE  /\ lister'[l].bays = BaysFor(s)
             /\ lister'[l].minutes = service[s].minutes
             /\ /\ lister'[l].pc = "put" /\ ~lister'[l].raced
                /\ KeptApart(s) /\ ~InvalidationDue(Owner[s])'
                => lister'[l].free = Current(s)'
  <2>1. lister \in [Lister -> Listing] /\ lister[l] \in Listing
    BY DEF TypeInv, TypeOK
  <2>2. CASE lister'[l] = lister[l] \/ lister'[l] = [lister[l] EXCEPT !.raced = TRUE]
    <3>1. /\ lister'[l].pc = lister[l].pc /\ lister[l].service = s
          /\ lister'[l].bays = lister[l].bays
          /\ lister'[l].minutes = lister[l].minutes
          /\ lister'[l].free = lister[l].free
          /\ ~lister'[l].raced => ~lister[l].raced
      BY <1>3, <2>1, <2>2 DEF Listing
    <3>2. lister[l].pc # "idle"
      BY <1>3, <3>1
    <3>3. ASSUME lister'[l].pc = "put", ~lister'[l].raced, KeptApart(s),
                 ~InvalidationDue(Owner[s])'
          PROVE  lister'[l].free = Current(s)'
      <4>1. ~InvalidationDue(Owner[s])
        <5>1. ~InvalidateProvider(Owner[s])
          BY <2>1, <3>1, <3>2, <3>3 DEF InvalidateProvider, Listing
        <5> QED BY <3>3, <5>1, DueEnds
      <4>2. lister[l].free = Current(s)
        BY <1>1, <3>1, <3>2, <3>3, <4>1 DEF FreshInv
      <4> QED BY <3>1, <3>3, <4>2, CurrentStays
    <3>4. lister[l].bays = BaysFor(s) /\ lister[l].minutes = service[s].minutes
      BY <1>1, <3>1, <3>2 DEF FreshInv
    <3> QED BY <3>1, <3>3, <3>4
  <2>3. CASE ListResources(l)
    <3>1. PICK o \in Service : lister' = [lister EXCEPT
             ![l] = [NoListing EXCEPT !.pc = "busy", !.service = o,
                       !.minutes = TotalDuration(o), !.bays = BaysFor(o)]]
      BY <2>3 DEF ListResources
    <3>2. /\ lister'[l].pc = "busy" /\ lister'[l].service = o
          /\ lister'[l].minutes = service[o].minutes
          /\ lister'[l].bays = BaysFor(o)
      BY <2>1, <3>1 DEF NoListing, TotalDuration
    <3> QED BY <1>3, <3>2
  <2>4. CASE ListBusyIntervals(l)
    <3> DEFINE free == GenerateSlots(lister[l].bays, lister[l].minutes)
    <3>1. UNCHANGED bookings /\ lister[l].pc = "busy"
          /\ lister' = [lister EXCEPT ![l].pc = "put", ![l].free = free]
      BY <2>4 DEF ListBusyIntervals
    <3>2. \A b, from, to : Busy(b, from, to)' <=> Busy(b, from, to)
      BY <3>1 DEF Busy, Booked
    <3> HIDE DEF free
    <3>3. /\ lister[l].service = s /\ lister'[l].bays = lister[l].bays
          /\ lister'[l].minutes = lister[l].minutes /\ lister'[l].free = free
      BY <1>3, <2>1, <3>1 DEF Listing
    <3>4. lister[l].bays = BaysFor(s) /\ lister[l].minutes = service[s].minutes
      BY <1>1, <3>1, <3>3 DEF FreshInv
    <3>5. free = Current(s)
      BY <3>4 DEF free, Current
    <3>6. Current(s)' = Current(s)
      <4>1. ASSUME NEW bays, NEW start, NEW minutes
            PROVE  { b \in bays : Fits(b, start, minutes)
                                  /\ ~Busy(b, start, start + minutes)' }
                   = { b \in bays : Fits(b, start, minutes)
                                    /\ ~Busy(b, start, start + minutes) }
        <5> HIDE DEF Busy
        <5> QED BY <3>2
      <4> QED BY <1>1, <1>2, <4>1 DEF Current, GenerateSlots, FreeBays, Fits
    <3> QED BY <3>3, <3>4, <3>5, <3>6
  <2>5. CASE CachePut(l)
    BY <1>3, <2>1, <2>5 DEF CachePut, NoListing
  <2> QED BY <2>2, <2>3, <2>4, <2>5, ListerSteps
<1>4. ASSUME NEW s \in Service, cache'[s] # None, ~cache'[s].raced, KeptApart(s),
             ~InvalidationDue(Owner[s])'
      PROVE  cache'[s].free = Current(s)'
  <2>1. ~InvalidationDue(Owner[s])
    <3>1. ~InvalidateProvider(Owner[s])
      BY <1>4 DEF InvalidateProvider
    <3> QED BY <1>4, <3>1, DueEnds
  <2>2. Current(s)' = Current(s)
    BY <1>4, CurrentStays
  <2>3. CASE cache'[s] = cache[s]
    BY <1>1, <1>4, <2>1, <2>2, <2>3 DEF FreshInv
  <2>4. ASSUME NEW l \in Lister, CachePut(l), lister[l].service = s
        PROVE  cache'[s].free = Current(s)'
    <3>1. cache'[s] = [free |-> lister[l].free, raced |-> lister[l].raced]
      BY <2>4 DEF CachePut, TypeInv, TypeOK
    <3>2. lister[l].pc = "put" /\ ~lister[l].raced
      BY <1>4, <2>4, <3>1 DEF CachePut
    <3> QED BY <1>1, <1>4, <2>1, <2>2, <2>4, <3>1, <3>2 DEF FreshInv
  <2> QED BY <1>4, <2>3, <2>4, CacheSteps
<1> HIDE DEF Current
<1>5. \A l \in Lister : lister'[l].pc # "idle" => lister'[l].service \in Service
  BY NextTypeInv DEF TypeInv, ListerInv
<1>6. \A s \in Service : BaysFor(s)' = BaysFor(s) /\ service'[s] = service[s]
  BY <1>1, <1>2
<1> HIDE DEF BaysFor, InvalidationDue, KeptApart
<1> QED BY <1>3, <1>4, <1>5, <1>6 DEF FreshInv

\* While nobody edits the catalog and nothing fails, a cached list of a service
\* whose bays are not shared between providers shows what is free, as soon as
\* every writer has invalidated, unless an invalidation overtook its fill.
THEOREM StaleOnlyByARace == Spec => []StaleOnlyIfRaced
<1>1. Init => FreshInv
  BY DEF Init, FreshInv, NoListing
<1>2. TypeInv /\ SafeInv /\ RowInv /\ PlaceInv /\ FreshInv /\ [Next]_vars => FreshInv'
  BY FreshStep
<1>3. FreshInv => StaleOnlyIfRaced
  BY DEF FreshInv, StaleOnlyIfRaced, Quiet, Current
<1> QED BY <1>1, <1>2, <1>3, SpecPlaceInv, PTL DEF Spec

=============================================================================
