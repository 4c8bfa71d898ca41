----------------------------- MODULE AuthProofs -----------------------------
(***************************************************************************)
(* Theorems about Auth: how often a code may be guessed, that it is        *)
(* accepted once and for the address it was issued for, and when two codes *)
(* of an address work.  They rest on what a request has established at     *)
(* each control point (Sound), on an attempt being counted before it is    *)
(* compared (Attempts), on a claimed row being an accepted one (OneClaim)  *)
(* and on who issues alone finding no live code (Issuance).  At the end    *)
(* they are carried to the two parts together.                             *)
(***************************************************************************)
EXTENDS Auth, SessionsProofs, FiniteSetTheorems

CodeType == [ state : Codes!CodeState, address : Address \cup {None}, secret : Secret \cup {None},
              attempts : Nat, expires : Nat, order : Nat ]

VisitType == [ pc : Codes!Label, ask : Wishes \cup {None}, row : Mail \cup {None},
                 answer : Codes!Reply \cup {None} ]

\* What a request has established at its control point.
Sound(q) ==
  LET r == visit[q] IN
  /\ r.pc # "idle" => r.ask \in Wishes
  /\ r.pc # "done" => r.answer = None
  /\ r.pc \in {"idle", "resend", "retire", "create", "verify"} => r.row = None
  /\ r.pc \in {"verify", "attempt", "burn", "consume", "mark"} => r.ask.op = "verify"
  /\ r.pc \in {"attempt", "burn", "consume", "mark"} => r.row # None
  /\ r.row # None => /\ r.ask.op = "verify" /\ code[r.row].address = r.ask.address
                     /\ code[r.row].state # "unused"
  /\ r.pc \in {"consume", "mark"} => code[r.row].secret = r.ask.secret

CodesTyped ==
  /\ Codes!VerificationAssumption
  /\ hour \in 0..MaxHour /\ failures \in 0..MaxFaults
  /\ verified \subseteq Address /\ overlap \subseteq Address
  /\ code \in [Mail -> CodeType] /\ tries \in [Mail -> Nat]
  /\ visit \in [Visitor -> VisitType]
  /\ \A q \in Visitor : Sound(q)

\* An attempt is counted on the row before it counts as a comparison.
Attempts ==
  \A r \in Mail :
    /\ tries[r] <= code[r].attempts /\ tries[r] <= MaxAttempts
    /\ code[r].state = "unused" => tries[r] = 0

Claims(q, r) == visit[q].row = r /\ (visit[q].pc = "mark" \/ visit[q].answer = "OK")

OneClaim ==
  \A r \in Mail : \A q \in Visitor : Claims(q, r) =>
    code[r].state = "accepted" /\ \A p \in Visitor : Claims(p, r) => p = q

\* Unless two issuings overlapped, who issues has retired every code.
Issuance ==
  \A a \in Address \ overlap :
    /\ \A r, s \in Codes!Live(a) : r = s
    /\ \A p, q \in Codes!Issuing(a) : p = q
    /\ Codes!Issuing(a) # {} => Codes!Live(a) = {}

CodesInv == CodesTyped /\ Attempts /\ OneClaim /\ Issuance

\* Codes' own names of what FiniteSets defines stand for the same.
LEMMA SameFinite == \A S : Codes!IsFiniteSet(S) <=> IsFiniteSet(S)
BY DEF Codes!IsFiniteSet, IsFiniteSet

LEMMA SameCount == \A S : Codes!Cardinality(S) = Cardinality(S)
BY DEF Codes!Cardinality, Cardinality, Codes!IsFiniteSet, IsFiniteSet

-----------------------------------------------------------------------------
(* Steps that leave the codes' contents alone.                             *)

\* What is assumed of the constants, wherever their types are known.
LEMMA CodesAssumed == CodesTyped \/ CodesInv => Codes!VerificationAssumption
BY DEF CodesTyped, CodesInv

LEMMA WishFields ==
  ASSUME Codes!VerificationAssumption, NEW ask \in Wishes
  PROVE  /\ ask # None /\ ask.op \in {"issue", "resend", "verify"}
         /\ ask.address \in Address /\ ask.secret \in Secret
BY DEF Codes!VerificationAssumption, Codes!Ask

\* The request that acts ends up as r, the others stay as they are.
Becomes(q, r) ==
  /\ r \in VisitType /\ visit'[q] = r /\ visit' \in [Visitor -> VisitType]
  /\ \A p \in Visitor \ {q} : visit'[p] = visit[p]

LEMMA VisitEnds ==
  ASSUME CodesTyped, NEW q \in Visitor, NEW reply \in Codes!Reply, Codes!Answer(q, reply)
  PROVE  Becomes(q, [visit[q] EXCEPT !.pc = "done", !.answer = reply])
<1>1. visit[q] \in VisitType /\ visit \in [Visitor -> VisitType]
  BY DEF CodesTyped
<1>2. [visit[q] EXCEPT !.pc = "done", !.answer = reply] \in VisitType
  BY <1>1 DEF VisitType, Codes!Label
<1>3. visit' = [visit EXCEPT ![q] = [visit[q] EXCEPT !.pc = "done", !.answer = reply]]
  BY <1>1 DEF Codes!Answer, VisitType
<1> QED  BY <1>1, <1>2, <1>3 DEF Becomes

LEMMA VisitGoesOn ==
  ASSUME CodesTyped, NEW q \in Visitor, NEW label \in Codes!Label, Codes!Goto(q, label)
  PROVE  Becomes(q, [visit[q] EXCEPT !.pc = label])
<1>1. visit[q] \in VisitType /\ visit \in [Visitor -> VisitType]
  BY DEF CodesTyped
<1>2. [visit[q] EXCEPT !.pc = label] \in VisitType
  BY <1>1 DEF VisitType
<1>3. visit' = [visit EXCEPT ![q] = [visit[q] EXCEPT !.pc = label]]
  BY <1>1 DEF Codes!Goto, VisitType
<1> QED  BY <1>1, <1>2, <1>3 DEF Becomes

\* What an issued row never changes.
CodesKept ==
  /\ code' \in [Mail -> CodeType]
  /\ \A r \in Mail : code[r].state # "unused" =>
       /\ code'[r].state # "unused"
       /\ code'[r].address = code[r].address /\ code'[r].secret = code[r].secret

LEMMA TypesKept ==
  ASSUME CodesTyped, NEW q \in Visitor, NEW r \in VisitType, Becomes(q, r), CodesKept,
         hour' \in 0..MaxHour, failures' \in 0..MaxFaults, verified' \subseteq Address,
         overlap' \subseteq Address, tries' \in [Mail -> Nat], Sound(q)'
  PROVE  CodesTyped'
<1>1. ASSUME NEW p \in Visitor, p # q PROVE Sound(p)'
  <2>1. Sound(p) /\ visit'[p] = visit[p] /\ visit[p] \in VisitType
    BY <1>1 DEF CodesTyped, Becomes
  <2>2. visit[p].row # None => visit[p].row \in Mail
    BY <2>1 DEF VisitType
  <2> QED  BY <2>1, <2>2 DEF Sound, CodesKept
<1> QED  BY <1>1 DEF CodesTyped, Becomes, CodesKept

LEMMA SameCodes == ASSUME CodesTyped, UNCHANGED code PROVE CodesKept
  BY DEF CodesTyped, CodesKept

LEMMA AttemptsKept ==
  ASSUME Attempts, UNCHANGED tries,
         \A r \in Mail : /\ code'[r].attempts = code[r].attempts
                         /\ code'[r].state = "unused" => code[r].state = "unused"
  PROVE  Attempts'
  BY DEF Attempts

\* A request that does not claim anew, while accepted rows stay so.
LEMMA ClaimsKept ==
  ASSUME CodesTyped, OneClaim, NEW q \in Visitor, NEW n \in VisitType, Becomes(q, n),
         \A r \in Mail : Claims(q, r)' => Claims(q, r),
         \A r \in Mail : code[r].state = "accepted" => code'[r].state = "accepted"
  PROVE  OneClaim'
<1>1. \A p \in Visitor : \A r \in Mail : Claims(p, r)' => Claims(p, r)
  BY DEF Becomes, Claims
<1> QED  BY <1>1 DEF OneClaim

\* Issuing goes on as it was, or ends, and no code comes to life.
LEMMA IssuanceKept ==
  ASSUME CodesTyped, Issuance, NEW q \in Visitor, NEW n \in VisitType, Becomes(q, n),
         n.pc # "create", overlap' = overlap,
         \A r \in Mail : code'[r].state = "live" =>
           code[r].state = "live" /\ code'[r].address = code[r].address
  PROVE  Issuance'
<1>1. \A a \in Address : Codes!Live(a)' \subseteq Codes!Live(a)
  BY DEF Codes!Live
<1>2. \A a \in Address : Codes!Issuing(a)' \subseteq Codes!Issuing(a)
  BY DEF Codes!Issuing, Becomes
<1> QED  BY <1>1, <1>2 DEF Issuance

\* A step of q that changes nothing but q, and makes it neither issue nor claim.
LEMMA QuietStep ==
  ASSUME CodesInv, NEW q \in Visitor, NEW n \in VisitType, Becomes(q, n),
         n.pc \notin {"create", "mark"},
         n.answer = "OK" => n.row = None \/ \E r \in Mail : Claims(q, r) /\ n.row = r,
         UNCHANGED <<hour, code, tries, overlap>>,
         failures' \in 0..MaxFaults, verified' \subseteq Address, Sound(q)'
  PROVE  CodesInv'
<1>1. CodesTyped /\ hour' \in 0..MaxHour /\ overlap' \subseteq Address /\ tries' \in [Mail -> Nat]
  BY DEF CodesInv, CodesTyped
<1>2. CodesTyped'
  BY <1>1, SameCodes, TypesKept
<1>3. Attempts'
  BY AttemptsKept DEF CodesInv
<1>4. OneClaim'
  <2>1. \A r \in Mail : Claims(q, r)' => Claims(q, r)
    BY CodesAssumed DEF Codes!VerificationAssumption, Claims, Becomes
  <2> QED  BY <1>1, <2>1, ClaimsKept DEF CodesInv
<1>5. Issuance'
  BY <1>1, IssuanceKept DEF CodesInv
<1> QED  BY <1>2, <1>3, <1>4, <1>5 DEF CodesInv

-----------------------------------------------------------------------------
(* One lemma for each action.                                              *)

LEMMA ArriveKeepsCodes ==
  ASSUME CodesInv, NEW q \in Visitor, Codes!Arrive(q) PROVE CodesInv'
<1>1. PICK ask \in Wishes : visit' = [visit EXCEPT ![q].ask = ask,
                            ![q].pc = IF ask.op = "issue" THEN "retire" ELSE ask.op]
  BY DEF Codes!Arrive
<1> DEFINE label == IF ask.op = "issue" THEN "retire" ELSE ask.op
           n == [visit[q] EXCEPT !.ask = ask, !.pc = label]
<1>2. /\ visit \in [Visitor -> VisitType] /\ visit[q] \in VisitType /\ Sound(q)
      /\ visit[q].pc = "idle"
  BY DEF CodesInv, CodesTyped, Codes!Arrive
<1>3. label \in {"retire", "resend", "verify"} /\ label \in Codes!Label
      /\ (label = "verify" => ask.op = "verify")
  BY WishFields, CodesAssumed DEF Codes!Label
<1>4. n \in VisitType /\ n.pc = label /\ n.ask = ask /\ n.row = None /\ n.answer = None
  BY <1>2, <1>3 DEF VisitType, Sound
<1>5. Becomes(q, n)
  <2>1. visit' = [visit EXCEPT ![q] = n]
    BY <1>1, <1>2 DEF VisitType
  <2> HIDE DEF n
  <2> QED  BY <1>2, <1>4, <2>1 DEF Becomes
<1> HIDE DEF n, label
<1>6. Sound(q)'
  BY <1>3, <1>4, <1>5 DEF Sound, Becomes
<1>7. /\ UNCHANGED <<hour, code, tries, overlap>>
      /\ failures' \in 0..MaxFaults /\ verified' \subseteq Address
  BY DEF Codes!Arrive, CodesInv, CodesTyped
<1> QED  BY <1>3, <1>4, <1>5, <1>6, <1>7, QuietStep

LEMMA ResendKeeps ==
  ASSUME CodesInv, NEW q \in Visitor, Codes!ResendEmailVerification(q) PROVE CodesInv'
<1>1. /\ CodesTyped /\ Sound(q) /\ visit[q].pc = "resend" /\ visit[q] \in VisitType
      /\ UNCHANGED <<hour, code, tries, overlap>>
      /\ failures' \in 0..MaxFaults /\ verified' \subseteq Address
  BY DEF Codes!ResendEmailVerification, CodesInv, CodesTyped
<1>2. CASE Codes!Answer(q, "OK")
  <2> DEFINE n == [visit[q] EXCEPT !.pc = "done", !.answer = "OK"]
  <2>1. Becomes(q, n)
    BY <1>1, <1>2, VisitEnds DEF Codes!Reply
  <2>2. /\ n.pc = "done" /\ n.row = None /\ n.ask = visit[q].ask /\ n \in VisitType
    BY <1>1, <2>1 DEF VisitType, Sound, Becomes
  <2> HIDE DEF n
  <2>3. Sound(q)'
    BY <1>1, <2>1, <2>2 DEF Sound, Becomes
  <2> QED  BY <1>1, <2>1, <2>2, <2>3, QuietStep
<1>3. CASE Codes!Goto(q, "retire")
  <2> DEFINE n == [visit[q] EXCEPT !.pc = "retire"]
  <2>1. Becomes(q, n)
    BY <1>1, <1>3, VisitGoesOn DEF Codes!Label
  <2>2. /\ n.pc = "retire" /\ n.row = None /\ n.ask = visit[q].ask /\ n.answer = None
        /\ n \in VisitType
    BY <1>1, <2>1 DEF VisitType, Sound, Becomes
  <2> HIDE DEF n
  <2>3. Sound(q)'
    BY <1>1, <2>1, <2>2 DEF Sound, Becomes
  <2> QED  BY <1>1, <2>1, <2>2, <2>3, QuietStep
<1> QED  BY <1>2, <1>3 DEF Codes!ResendEmailVerification

\* Every live code of the address is retired before a new one is made.
LEMMA RetireKeeps ==
  ASSUME CodesInv, NEW q \in Visitor, Codes!ConsumeVerificationCodesFor(q) PROVE CodesInv'
<1> DEFINE a == visit[q].ask.address
           n == [visit[q] EXCEPT !.pc = "create"]
<1>1. /\ CodesTyped /\ Sound(q) /\ visit[q].pc = "retire" /\ visit[q] \in VisitType
      /\ UNCHANGED <<hour, tries, failures, verified>>
  BY DEF Codes!ConsumeVerificationCodesFor, CodesInv, CodesTyped
<1>2. Becomes(q, n)
  BY <1>1, VisitGoesOn DEF Codes!ConsumeVerificationCodesFor, Codes!Label
<1>3. /\ n.pc = "create" /\ n.row = None /\ n.ask = visit[q].ask /\ n.answer = None
      /\ n \in VisitType /\ a \in Address
  BY <1>1, <1>2, WishFields, CodesAssumed DEF VisitType, Sound, Becomes
<1> HIDE DEF n
<1>4. code' = [r \in Mail |-> IF r \in Codes!Live(a)
                             THEN [code[r] EXCEPT !.state = "retired"] ELSE code[r]]
  BY DEF Codes!ConsumeVerificationCodesFor, Codes!Retired
<1>5. ASSUME NEW r \in Mail
      PROVE  /\ code'[r] \in CodeType
             /\ code'[r].address = code[r].address /\ code'[r].secret = code[r].secret
             /\ code'[r].attempts = code[r].attempts
             /\ IF r \in Codes!Live(a) THEN code'[r].state = "retired"
                                 ELSE code'[r].state = code[r].state
  <2>1. code[r] \in CodeType
    BY <1>1 DEF CodesTyped
  <2>2. [code[r] EXCEPT !.state = "retired"] \in CodeType
    BY <2>1 DEF CodeType, Codes!CodeState
  <2>3. CASE r \in Codes!Live(a)
    <3>1. code'[r] = [code[r] EXCEPT !.state = "retired"]
      BY <1>4, <2>3
    <3> QED  BY <2>1, <2>2, <2>3, <3>1 DEF CodeType
  <2>4. CASE r \notin Codes!Live(a)
    <3>1. code'[r] = code[r]
      BY <1>4, <2>4
    <3> QED  BY <2>1, <2>4, <3>1
  <2> QED  BY <2>3, <2>4
<1>6. code' \in [Mail -> CodeType]
  BY <1>4, <1>5
<1>7. CodesKept
  BY <1>5, <1>6 DEF CodesKept, Codes!Live
<1>8. Sound(q)'
  BY <1>1, <1>2, <1>3 DEF Sound, Becomes
<1>9. CodesTyped'
  <2>1. /\ hour' \in 0..MaxHour /\ failures' \in 0..MaxFaults /\ verified' \subseteq Address
        /\ tries' \in [Mail -> Nat]
    BY <1>1 DEF CodesTyped
  <2>2. overlap' \subseteq Address
    BY <1>1, <1>3 DEF Codes!ConsumeVerificationCodesFor, CodesTyped
  <2> QED  BY <1>1, <1>2, <1>3, <1>7, <1>8, <2>1, <2>2, TypesKept
<1>10. Attempts'
  BY <1>1, <1>5, AttemptsKept DEF CodesInv
<1>11. OneClaim'
  <2>1. \A r \in Mail : Claims(q, r)' => Claims(q, r)
    BY <1>2, <1>3, CodesAssumed DEF Codes!VerificationAssumption, Claims, Becomes
  <2>2. \A r \in Mail : code[r].state = "accepted" => code'[r].state = "accepted"
    BY <1>5 DEF Codes!Live
  <2> QED  BY <1>1, <1>2, <1>3, <2>1, <2>2, ClaimsKept DEF CodesInv
<1>12. Issuance'
  <2> SUFFICES ASSUME NEW b \in Address, b \notin overlap'
               PROVE  /\ \A r, s \in Codes!Live(b)' : r = s
                      /\ \A p, o \in Codes!Issuing(b)' : p = o
                      /\ Codes!Issuing(b)' # {} => Codes!Live(b)' = {}
    BY DEF Issuance
  <2>1. b \notin overlap /\ (b = a => Codes!Issuing(a) = {})
    BY DEF Codes!ConsumeVerificationCodesFor
  <2>2. /\ \A r, s \in Codes!Live(b) : r = s
        /\ \A p, o \in Codes!Issuing(b) : p = o
        /\ Codes!Issuing(b) # {} => Codes!Live(b) = {}
    BY <2>1 DEF CodesInv, Issuance
  <2>3. Codes!Live(b)' \subseteq Codes!Live(b)
    BY <1>5 DEF Codes!Live
  <2>4. CASE b = a
    <3>1. Codes!Live(b)' = {}
      BY <1>5, <2>4 DEF Codes!Live
    <3>2. Codes!Issuing(b)' \subseteq {q}
      BY <1>2, <2>1, <2>4 DEF Codes!Issuing, Becomes
    <3> QED  BY <3>1, <3>2
  <2>5. CASE b # a
    <3>1. Codes!Issuing(b)' \subseteq Codes!Issuing(b)
      BY <1>2, <1>3, <2>5 DEF Codes!Issuing, Becomes
    <3> QED  BY <2>2, <2>3, <3>1
  <2> QED  BY <2>4, <2>5
<1> QED  BY <1>9, <1>10, <1>11, <1>12 DEF CodesInv

LEMMA CreateCodeKeeps ==
  ASSUME CodesInv, NEW q \in Visitor, Codes!CreateVerificationCode(q) PROVE CodesInv'
<1> DEFINE a == visit[q].ask.address
           n == [visit[q] EXCEPT !.pc = "done", !.answer = "OK"]
<1>1. /\ CodesTyped /\ Sound(q) /\ visit[q].pc = "create" /\ visit[q] \in VisitType
      /\ UNCHANGED <<hour, tries, failures, verified, overlap>>
  BY DEF Codes!CreateVerificationCode, CodesInv, CodesTyped
<1>2. Becomes(q, n)
  BY <1>1, VisitEnds DEF Codes!CreateVerificationCode, Codes!Reply
<1>3. /\ n.pc = "done" /\ n.row = None /\ n.ask = visit[q].ask
      /\ n \in VisitType /\ a \in Address
  BY <1>1, <1>2, WishFields, CodesAssumed DEF VisitType, Sound, Becomes
<1> HIDE DEF n
<1> DEFINE order == Codes!Cardinality({ x \in Mail : code[x].state # "unused" })
<1>4. PICK c \in Mail : \E secret \in Secret :
        /\ code[c].state = "unused"
        /\ code' = [code EXCEPT ![c] =
             [ state |-> "live", address |-> a, secret |-> secret, attempts |-> 0,
               expires |-> hour + CodeTTL, order |-> order ]]
  BY DEF Codes!CreateVerificationCode
<1>5. PICK secret \in Secret :
        /\ code[c].state = "unused"
        /\ code' = [code EXCEPT ![c] =
             [ state |-> "live", address |-> a, secret |-> secret, attempts |-> 0,
               expires |-> hour + CodeTTL, order |-> order ]]
  BY <1>4
<1>6. order \in Nat
  <2>1. IsFiniteSet(Mail)
    BY CodesAssumed, SameFinite DEF Codes!VerificationAssumption
  <2>2. { x \in Mail : code[x].state # "unused" } \subseteq Mail
    OBVIOUS
  <2> QED  BY <2>1, <2>2, SameCount, FS_Subset, FS_CardinalityType
<1> HIDE DEF order
<1>7. /\ code'[c].state = "live" /\ code'[c].address = a /\ code'[c].attempts = 0
      /\ code'[c] \in CodeType
      /\ \A r \in Mail \ {c} : code'[r] = code[r]
  <2>1. hour + CodeTTL \in Nat
    BY <1>1, CodesAssumed DEF Codes!VerificationAssumption, CodesTyped
  <2> QED  BY <1>1, <1>3, <1>5, <1>6, <2>1 DEF CodesTyped, CodeType, Codes!CodeState
<1>8. CodesKept
  <2>1. code' \in [Mail -> CodeType]
    BY <1>1, <1>5, <1>7 DEF CodesTyped
  <2> QED  BY <1>5, <1>7, <2>1 DEF CodesKept
<1>9. Sound(q)'
  BY <1>1, <1>2, <1>3 DEF Sound, Becomes
<1>10. CodesTyped'
  <2>1. /\ hour' \in 0..MaxHour /\ failures' \in 0..MaxFaults /\ verified' \subseteq Address
        /\ tries' \in [Mail -> Nat] /\ overlap' \subseteq Address
    BY <1>1 DEF CodesTyped
  <2> QED  BY <1>1, <1>2, <1>3, <1>8, <1>9, <2>1, TypesKept
<1>11. Attempts'
  <2> SUFFICES ASSUME NEW r \in Mail
               PROVE  /\ tries[r] <= code'[r].attempts /\ tries[r] <= MaxAttempts
                      /\ code'[r].state = "unused" => tries[r] = 0
    BY <1>1 DEF Attempts
  <2>1. CASE r = c
    BY <1>5, <1>7, <2>1 DEF CodesInv, Attempts
  <2>2. CASE r # c
    BY <1>7, <2>2 DEF CodesInv, Attempts
  <2> QED  BY <2>1, <2>2
<1>12. OneClaim'
  <2>1. \A r \in Mail : Claims(q, r)' => Claims(q, r)
    BY <1>2, <1>3, CodesAssumed DEF Codes!VerificationAssumption, Claims, Becomes
  <2>2. \A r \in Mail : code[r].state = "accepted" => code'[r].state = "accepted"
    BY <1>5, <1>7
  <2> QED  BY <1>1, <1>2, <1>3, <2>1, <2>2, ClaimsKept DEF CodesInv
<1>13. Issuance'
  <2> SUFFICES ASSUME NEW b \in Address, b \notin overlap
               PROVE  /\ \A r, s \in Codes!Live(b)' : r = s
                      /\ \A p, o \in Codes!Issuing(b)' : p = o
                      /\ Codes!Issuing(b)' # {} => Codes!Live(b)' = {}
    BY <1>1 DEF Issuance
  <2>1. /\ \A r, s \in Codes!Live(b) : r = s
        /\ \A p, o \in Codes!Issuing(b) : p = o
        /\ Codes!Issuing(b) # {} => Codes!Live(b) = {}
    BY DEF CodesInv, Issuance
  <2>2. Codes!Issuing(b)' = Codes!Issuing(b) \ {q}
    BY <1>2, <1>3 DEF Codes!Issuing, Becomes
  <2>3. CASE b = a
    <3>1. q \in Codes!Issuing(b)
      BY <1>1, <2>3 DEF Codes!Issuing
    <3>2. Codes!Live(b)' \subseteq {c} /\ Codes!Issuing(b)' = {}
      BY <1>7, <2>1, <2>2, <3>1 DEF Codes!Live
    <3> QED  BY <3>2
  <2>4. CASE b # a
    <3>1. Codes!Live(b)' = Codes!Live(b)
      BY <1>5, <1>7, <2>4 DEF Codes!Live
    <3> QED  BY <2>1, <2>2, <3>1
  <2> QED  BY <2>3, <2>4
<1> QED  BY <1>10, <1>11, <1>12, <1>13 DEF CodesInv

LEMMA GetCodeKeeps ==
  ASSUME CodesInv, NEW q \in Visitor, Codes!GetLiveVerificationCode(q) PROVE CodesInv'
<1> DEFINE a == visit[q].ask.address
<1>1. /\ CodesTyped /\ Sound(q) /\ visit[q].pc = "verify" /\ visit[q] \in VisitType
      /\ visit \in [Visitor -> VisitType]
      /\ UNCHANGED <<hour, code, tries, overlap>>
      /\ failures' \in 0..MaxFaults /\ verified' \subseteq Address
  BY DEF Codes!GetLiveVerificationCode, CodesInv, CodesTyped
<1>2. CASE Codes!Answer(q, "INVALID_CODE")
  <2> DEFINE n == [visit[q] EXCEPT !.pc = "done", !.answer = "INVALID_CODE"]
  <2>1. Becomes(q, n)
    BY <1>1, <1>2, VisitEnds DEF Codes!Reply
  <2>2. /\ n.pc = "done" /\ n.row = None /\ n.ask = visit[q].ask /\ n \in VisitType
    BY <1>1, <2>1 DEF VisitType, Sound, Becomes
  <2> HIDE DEF n
  <2>3. Sound(q)'
    BY <1>1, <2>1, <2>2 DEF Sound, Becomes
  <2> QED  BY <1>1, <2>1, <2>2, <2>3, QuietStep
<1>3. ASSUME NEW r \in Codes!Newest(a),
             visit' = [visit EXCEPT ![q].pc = "attempt", ![q].row = r]
      PROVE  CodesInv'
  <2> DEFINE n == [visit[q] EXCEPT !.pc = "attempt", !.row = r]
  <2>1. r \in Mail /\ code[r].state = "live" /\ code[r].address = a
    BY DEF Codes!Newest, Codes!Live
  <2>2. /\ n \in VisitType /\ n.pc = "attempt" /\ n.row = r /\ n.ask = visit[q].ask
        /\ n.answer = None
    BY <1>1, <2>1 DEF VisitType, Codes!Label, Sound
  <2>3. visit' = [visit EXCEPT ![q] = n]
    BY <1>1, <1>3 DEF VisitType
  <2> HIDE DEF n
  <2>4. Becomes(q, n)
    BY <1>1, <2>2, <2>3 DEF Becomes
  <2>5. Sound(q)'
    BY <1>1, <2>1, <2>2, <2>4, CodesAssumed DEF Codes!VerificationAssumption, Sound, Becomes
  <2>6. n.answer # "OK"
    BY <2>2, CodesAssumed DEF Codes!VerificationAssumption
  <2> QED  BY <1>1, <2>2, <2>4, <2>5, <2>6, QuietStep
<1> QED  BY <1>2, <1>3 DEF Codes!GetLiveVerificationCode

\* What q knows of the row that it has read.
LEMMA ReadRow ==
  ASSUME CodesTyped, NEW q \in Visitor, visit[q].pc \in {"attempt", "burn", "consume", "mark"}
  PROVE  /\ visit[q].row \in Mail /\ visit[q] \in VisitType /\ Sound(q)
         /\ visit[q].ask \in Wishes /\ visit[q].ask.op = "verify" /\ visit[q].answer = None
         /\ code[visit[q].row] \in CodeType
         /\ code[visit[q].row].state # "unused"
         /\ code[visit[q].row].address = visit[q].ask.address
<1>1. visit[q] \in VisitType /\ Sound(q) /\ code \in [Mail -> CodeType]
  BY DEF CodesTyped
<1>2. visit[q].row \in Mail
  BY <1>1 DEF VisitType, Sound
<1> QED  BY <1>1, <1>2 DEF Sound

\* The attempt is counted whatever comes of it, and compared only below the bound.
LEMMA IncrementKeeps ==
  ASSUME CodesInv, NEW q \in Visitor, Codes!IncrementVerificationAttempts(q) PROVE CodesInv'
<1> DEFINE r == visit[q].row
<1>1. /\ CodesTyped /\ visit[q].pc = "attempt"
      /\ UNCHANGED <<hour, failures, verified, overlap>>
  BY DEF Codes!IncrementVerificationAttempts, CodesInv
<1>2. /\ r \in Mail /\ visit[q] \in VisitType /\ Sound(q)
      /\ visit[q].ask \in Wishes /\ visit[q].ask.op = "verify" /\ visit[q].answer = None
      /\ code[r] \in CodeType /\ code[r].state # "unused"
      /\ code[r].address = visit[q].ask.address
  BY <1>1, ReadRow
<1>3. code' = [code EXCEPT ![r].attempts = code[r].attempts + 1]
  BY DEF Codes!IncrementVerificationAttempts, Codes!Counted
<1>4. \A x \in Mail : /\ code'[x] \in CodeType
                      /\ code'[x].state = code[x].state
                      /\ code'[x].address = code[x].address /\ code'[x].secret = code[x].secret
                      /\ code'[x].attempts = IF x = r THEN code[r].attempts + 1
                                                     ELSE code[x].attempts
  BY <1>1, <1>2, <1>3 DEF CodesTyped, CodeType
<1>5. code' \in [Mail -> CodeType]
  BY <1>1, <1>3, <1>4 DEF CodesTyped
<1>6. CodesKept
  BY <1>4, <1>5 DEF CodesKept
<1>7. /\ hour' \in 0..MaxHour /\ failures' \in 0..MaxFaults /\ verified' \subseteq Address
      /\ overlap' \subseteq Address
  BY <1>1 DEF CodesTyped
<1>8. ASSUME NEW n \in VisitType, Becomes(q, n), tries' \in [Mail -> Nat], Sound(q)',
             n.pc \notin {"create", "mark"}, n.answer # "OK", Attempts'
      PROVE  CodesInv'
  <2>1. CodesTyped'
    BY <1>1, <1>6, <1>7, <1>8, TypesKept
  <2>2. OneClaim'
    <3>1. \A x \in Mail : Claims(q, x)' => Claims(q, x)
      BY <1>8 DEF Claims, Becomes
    <3> QED  BY <1>1, <1>4, <1>8, <3>1, ClaimsKept DEF CodesInv
  <2>3. Issuance'
    BY <1>1, <1>4, <1>8, IssuanceKept DEF CodesInv
  <2> QED  BY <1>8, <2>1, <2>2, <2>3 DEF CodesInv
<1>9. code[r].attempts \in Nat /\ tries \in [Mail -> Nat]
  BY <1>1, <1>2 DEF CodeType, CodesTyped
<1>10. CASE code[r].attempts + 1 > MaxAttempts
  <2> DEFINE n == [visit[q] EXCEPT !.pc = "burn"]
  <2>1. Codes!Goto(q, "burn") /\ UNCHANGED tries
    BY <1>10 DEF Codes!IncrementVerificationAttempts, Codes!AfterAttempt
  <2>2. Becomes(q, n)
    BY <1>1, <2>1, VisitGoesOn DEF Codes!Label
  <2>3. /\ n.pc = "burn" /\ n.row = r /\ n.ask = visit[q].ask /\ n.answer = None
        /\ n \in VisitType
    BY <1>2, <2>2 DEF VisitType, Becomes
  <2> HIDE DEF n
  <2>4. Sound(q)'
    BY <1>2, <1>4, <2>2, <2>3, CodesAssumed DEF Codes!VerificationAssumption, Sound, Becomes
  <2>5. Attempts'
    <3>1. \A x \in Mail : code'[x].attempts >= code[x].attempts
      BY <1>4, <1>1 DEF CodesTyped, CodeType
    <3>2. \A x \in Mail : code'[x].attempts \in Nat /\ code[x].attempts \in Nat /\ tries[x] \in Nat
      BY <1>1, <1>4, <1>9 DEF CodesTyped, CodeType
    <3> QED  BY <1>4, <2>1, <3>1, <3>2 DEF CodesInv, Attempts
  <2>6. n.answer # "OK"
    BY <2>3, CodesAssumed DEF Codes!VerificationAssumption
  <2> QED  BY <1>8, <1>9, <2>1, <2>2, <2>3, <2>4, <2>5, <2>6
<1>11. CASE ~(code[r].attempts + 1 > MaxAttempts)
  <2>1. /\ tries' = [tries EXCEPT ![r] = tries[r] + 1]
        /\ IF Codes!Matches(q) THEN Codes!Goto(q, "consume") ELSE Codes!Answer(q, "INVALID_CODE")
    BY <1>11 DEF Codes!IncrementVerificationAttempts, Codes!AfterAttempt
  <2>2. tries' \in [Mail -> Nat]
    BY <1>2, <1>9, <2>1
  <2>3. Attempts'
    <3> SUFFICES ASSUME NEW x \in Mail
                 PROVE  /\ tries'[x] <= code'[x].attempts /\ tries'[x] <= MaxAttempts
                        /\ code'[x].state = "unused" => tries'[x] = 0
      BY DEF Attempts
    <3>1. tries[x] <= code[x].attempts /\ tries[x] <= MaxAttempts
          /\ (code[x].state = "unused" => tries[x] = 0)
      BY DEF CodesInv, Attempts
    <3>2. CASE x = r
      BY <1>2, <1>4, <1>9, <1>11, <2>1, <3>1, <3>2, CodesAssumed DEF Codes!VerificationAssumption
    <3>3. CASE x # r
      BY <1>4, <1>9, <2>1, <3>1, <3>3
    <3> QED  BY <3>2, <3>3
  <2>4. CASE Codes!Matches(q)
    <3> DEFINE n == [visit[q] EXCEPT !.pc = "consume"]
    <3>1. Becomes(q, n)
      BY <1>1, <2>1, <2>4, VisitGoesOn DEF Codes!Label
    <3>2. /\ n.pc = "consume" /\ n.row = r /\ n.ask = visit[q].ask /\ n.answer = None
          /\ n \in VisitType
      BY <1>2, <3>1 DEF VisitType, Becomes
    <3> HIDE DEF n
    <3>3. code[r].secret = visit[q].ask.secret
      BY <2>4 DEF Codes!Matches
    <3>4. Sound(q)'
      BY <1>2, <1>4, <3>1, <3>2, <3>3, CodesAssumed DEF Codes!VerificationAssumption, Sound,
         Becomes
    <3>5. n.answer # "OK"
      BY <3>2, CodesAssumed DEF Codes!VerificationAssumption
    <3> QED  BY <1>8, <2>2, <2>3, <3>1, <3>2, <3>4, <3>5
  <2>5. CASE ~ Codes!Matches(q)
    <3> DEFINE n == [visit[q] EXCEPT !.pc = "done", !.answer = "INVALID_CODE"]
    <3>1. Becomes(q, n)
      BY <1>1, <2>1, <2>5, VisitEnds DEF Codes!Reply
    <3>2. /\ n.pc = "done" /\ n.row = r /\ n.ask = visit[q].ask
          /\ n.answer = "INVALID_CODE" /\ n \in VisitType
      BY <1>2, <3>1 DEF VisitType, Becomes
    <3> HIDE DEF n
    <3>3. Sound(q)'
      BY <1>2, <1>4, <3>1, <3>2, CodesAssumed DEF Codes!VerificationAssumption, Sound, Becomes
    <3> QED  BY <1>8, <2>2, <2>3, <3>1, <3>2, <3>3
  <2> QED  BY <2>4, <2>5
<1> QED  BY <1>10, <1>11

\* A step that spends the row q has read, and makes q n.
LEMMA SpendingKeeps ==
  ASSUME CodesInv, NEW q \in Visitor, NEW n \in VisitType, Becomes(q, n),
         visit[q].pc \in {"burn", "consume"},
         NEW spent \in {"burned", "accepted"},
         code[visit[q].row].state = "live",
         code' = [code EXCEPT ![visit[q].row].state = spent],
         UNCHANGED <<hour, failures, verified, tries, overlap>>,
         n.row = visit[q].row, n.ask = visit[q].ask,
         \/ spent = "burned" /\ n.pc = "done" /\ n.answer # "OK"
         \/ spent = "accepted" /\ n.pc = "mark" /\ n.answer = None /\ visit[q].pc = "consume"
  PROVE  CodesInv'
<1> DEFINE r == visit[q].row
<1>1. /\ CodesTyped /\ r \in Mail /\ Sound(q) /\ visit[q].ask \in Wishes
      /\ code[r] \in CodeType /\ visit[q].ask.op = "verify"
      /\ code[r].address = visit[q].ask.address
  BY ReadRow DEF CodesInv
<1>2. \A x \in Mail : /\ code'[x] \in CodeType
                      /\ code'[x].state = IF x = r THEN spent ELSE code[x].state
                      /\ code'[x].address = code[x].address /\ code'[x].secret = code[x].secret
                      /\ code'[x].attempts = code[x].attempts
  BY <1>1 DEF CodesTyped, CodeType, Codes!CodeState
<1>3. code' \in [Mail -> CodeType]
  BY <1>1, <1>2 DEF CodesTyped
<1>4. CodesKept
  BY <1>2, <1>3 DEF CodesKept
<1>5. Sound(q)'
  BY <1>1, <1>2, CodesAssumed DEF Codes!VerificationAssumption, Sound, Becomes
<1>6. CodesTyped'
  <2>1. /\ hour' \in 0..MaxHour /\ failures' \in 0..MaxFaults /\ verified' \subseteq Address
        /\ tries' \in [Mail -> Nat] /\ overlap' \subseteq Address
    BY <1>1 DEF CodesTyped
  <2> QED  BY <1>1, <1>4, <1>5, <2>1, TypesKept
<1>7. Attempts'
  BY <1>2, AttemptsKept DEF CodesInv
<1>8. OneClaim'
  <2> SUFFICES ASSUME NEW x \in Mail, NEW p \in Visitor, Claims(p, x)'
               PROVE  /\ code'[x].state = "accepted"
                      /\ \A o \in Visitor : Claims(o, x)' => o = p
    BY DEF OneClaim
  <2>1. \A o \in Visitor \ {q} : Claims(o, x)' => Claims(o, x) /\ code[x].state = "accepted"
    BY DEF Claims, Becomes, CodesInv, OneClaim
  <2>2. Claims(q, x)' => x = r /\ spent = "accepted"
    BY CodesAssumed DEF Codes!VerificationAssumption, Claims, Becomes
  <2>3. \A o \in Visitor \ {q} : Claims(o, x)' => x # r
    BY <2>1
  <2>4. CASE p = q
    BY <1>2, <2>2, <2>3, <2>4
  <2>5. CASE p # q
    <3>1. x # r /\ Claims(p, x) /\ code[x].state = "accepted"
      BY <2>1, <2>3, <2>5
    <3>2. \A o \in Visitor : Claims(o, x)' => o # q /\ Claims(o, x)
      BY <2>1, <2>2, <3>1
    <3> QED  BY <1>2, <3>1, <3>2 DEF CodesInv, OneClaim
  <2> QED  BY <2>4, <2>5
<1>9. Issuance'
  BY <1>1, <1>2, IssuanceKept DEF CodesInv
<1> QED  BY <1>6, <1>7, <1>8, <1>9 DEF CodesInv

\* A request that has read a row is answered, and no table changes but `verified'.
LEMMA EndingKeeps ==
  ASSUME CodesInv, NEW q \in Visitor, NEW reply \in Codes!Reply, Codes!Answer(q, reply),
         visit[q].pc \in {"burn", "consume", "mark"},
         reply = "OK" => visit[q].pc = "mark",
         UNCHANGED <<hour, failures, code, tries, overlap>>, verified' \subseteq Address
  PROVE  CodesInv'
<1> DEFINE n == [visit[q] EXCEPT !.pc = "done", !.answer = reply]
<1>1. CodesTyped /\ Becomes(q, n) /\ failures' \in 0..MaxFaults
  BY VisitEnds DEF CodesInv, CodesTyped
<1>2. /\ visit[q].row \in Mail /\ Sound(q) /\ visit[q] \in VisitType
      /\ visit[q].ask \in Wishes
  BY <1>1, ReadRow
<1>3. /\ n.pc = "done" /\ n.row = visit[q].row /\ n.ask = visit[q].ask
      /\ n.answer = reply /\ n \in VisitType
  BY <1>1, <1>2 DEF VisitType, Becomes
<1> HIDE DEF n
<1>4. Sound(q)'
  BY <1>1, <1>2, <1>3 DEF Sound, Becomes
<1>5. n.answer = "OK" => \E r \in Mail : Claims(q, r) /\ n.row = r
  BY <1>2, <1>3 DEF Claims
<1> QED  BY <1>1, <1>3, <1>4, <1>5, QuietStep

LEMMA BurnKeeps ==
  ASSUME CodesInv, NEW q \in Visitor, Codes!BurnCode(q) PROVE CodesInv'
<1>1. /\ visit[q].pc = "burn" /\ Codes!Answer(q, "TOO_MANY_ATTEMPTS")
      /\ UNCHANGED <<hour, failures, verified, tries, overlap>>
      /\ CodesTyped /\ verified' \subseteq Address
  BY DEF Codes!BurnCode, CodesInv, CodesTyped
<1>2. CASE code[visit[q].row].state = "live"
  <2> DEFINE n == [visit[q] EXCEPT !.pc = "done", !.answer = "TOO_MANY_ATTEMPTS"]
  <2>1. Becomes(q, n) /\ visit[q] \in VisitType
    BY <1>1, VisitEnds DEF Codes!Reply, CodesTyped
  <2>2. /\ n.pc = "done" /\ n.row = visit[q].row /\ n.ask = visit[q].ask
        /\ n.answer # "OK" /\ n \in VisitType
    BY <2>1 DEF VisitType, Becomes
  <2> HIDE DEF n
  <2>3. code' = [code EXCEPT ![visit[q].row].state = "burned"]
    BY <1>2 DEF Codes!BurnCode
  <2> QED  BY <1>1, <1>2, <2>1, <2>2, <2>3, SpendingKeeps
<1>3. CASE code[visit[q].row].state # "live"
  <2>1. UNCHANGED code
    BY <1>3 DEF Codes!BurnCode
  <2> QED  BY <1>1, <2>1, EndingKeeps DEF Codes!Reply
<1> QED  BY <1>2, <1>3

LEMMA ConsumeKeeps ==
  ASSUME CodesInv, NEW q \in Visitor, Codes!ConsumeVerificationCode(q) PROVE CodesInv'
<1>1. /\ visit[q].pc = "consume" /\ CodesTyped /\ verified' \subseteq Address
      /\ UNCHANGED <<hour, failures, verified, tries, overlap>>
  BY DEF Codes!ConsumeVerificationCode, CodesInv, CodesTyped
<1>2. CASE /\ code[visit[q].row].state = "live" /\ Codes!Goto(q, "mark")
           /\ code' = [code EXCEPT ![visit[q].row].state = "accepted"]
  <2> DEFINE n == [visit[q] EXCEPT !.pc = "mark"]
  <2>1. Becomes(q, n) /\ visit[q] \in VisitType /\ visit[q].answer = None
    BY <1>1, <1>2, VisitGoesOn, ReadRow DEF Codes!Label, CodesTyped
  <2>2. /\ n.pc = "mark" /\ n.row = visit[q].row /\ n.ask = visit[q].ask
        /\ n.answer = None /\ n \in VisitType
    BY <2>1 DEF VisitType, Becomes
  <2> HIDE DEF n
  <2> QED  BY <1>1, <1>2, <2>1, <2>2, SpendingKeeps
<1>3. CASE Codes!Answer(q, "INVALID_CODE") /\ UNCHANGED code
  BY <1>1, <1>3, EndingKeeps DEF Codes!Reply
<1> QED  BY <1>2, <1>3 DEF Codes!ConsumeVerificationCode

LEMMA MarkKeeps ==
  ASSUME CodesInv, NEW q \in Visitor, Codes!MarkEmailVerified(q) PROVE CodesInv'
<1>1. /\ visit[q].pc = "mark" /\ CodesTyped /\ Codes!Answer(q, "OK")
      /\ UNCHANGED <<hour, failures, code, tries, overlap>>
      /\ verified' = verified \cup {code[visit[q].row].address}
  BY DEF Codes!MarkEmailVerified, CodesInv
<1>2. code[visit[q].row].address \in Address
  BY <1>1, ReadRow, WishFields, CodesAssumed
<1>3. verified' \subseteq Address
  BY <1>1, <1>2 DEF CodesTyped
<1> QED  BY <1>1, <1>3, EndingKeeps DEF Codes!Reply

LEMMA FaultKeepsCodes ==
  ASSUME CodesInv, NEW q \in Visitor, Codes!Fault(q) PROVE CodesInv'
<1> DEFINE reply == IF visit[q].ask.op = "issue" THEN "OK" ELSE "INTERNAL"
           n == [visit[q] EXCEPT !.pc = "done", !.answer = reply]
<1>1. /\ CodesTyped /\ Sound(q) /\ visit[q].pc # "idle" /\ visit[q] \in VisitType
      /\ UNCHANGED <<hour, code, tries, overlap>> /\ verified' \subseteq Address
      /\ Codes!Answer(q, reply) /\ reply \in Codes!Reply
  BY DEF Codes!Fault, CodesInv, CodesTyped, Codes!Busy, Codes!Reply
<1>2. failures' \in 0..MaxFaults
  BY CodesAssumed DEF Codes!VerificationAssumption, Codes!Fault, CodesInv, CodesTyped
<1>3. Becomes(q, n)
  BY <1>1, VisitEnds
<1>4. /\ n.pc = "done" /\ n.row = visit[q].row /\ n.ask = visit[q].ask
      /\ n.answer = reply /\ n \in VisitType
  BY <1>1, <1>3 DEF VisitType, Becomes
<1>5. reply = "OK" => visit[q].row = None
  BY <1>1 DEF Sound
<1> HIDE DEF n, reply
<1>6. Sound(q)'
  BY <1>1, <1>3, <1>4 DEF Sound, Becomes
<1> QED  BY <1>1, <1>2, <1>3, <1>4, <1>5, <1>6, QuietStep

LEMMA InitCodesInv == Codes!VerificationAssumption /\ Codes!Init => CodesInv
<1> SUFFICES ASSUME Codes!VerificationAssumption, Codes!Init PROVE CodesInv
  OBVIOUS
<1>1. Codes!NoCode \in CodeType /\ Codes!NoRequest \in VisitType
  BY DEF Codes!NoCode, CodeType, Codes!CodeState, Codes!NoRequest, VisitType, Codes!Label
<1>2. \A q \in Visitor : visit[q] = Codes!NoRequest
  BY DEF Codes!Init
<1>3. \A r \in Mail : code[r] = Codes!NoCode /\ tries[r] = 0
  BY DEF Codes!Init
<1>4. \A q \in Visitor : Sound(q)
  BY <1>2 DEF Sound, Codes!NoRequest
<1>5. CodesTyped
  BY <1>1, <1>4 DEF Codes!VerificationAssumption, Codes!Init, CodesTyped
<1>6. Attempts
  BY <1>3 DEF Codes!VerificationAssumption, Attempts, Codes!NoCode
<1>7. OneClaim
  BY <1>2 DEF Codes!VerificationAssumption, OneClaim, Claims, Codes!NoRequest
<1>8. Issuance
  BY <1>2, <1>3 DEF Issuance, Codes!Live, Codes!Issuing, Codes!NoCode, Codes!NoRequest
<1> QED  BY <1>5, <1>6, <1>7, <1>8 DEF CodesInv

LEMMA NextCodesInv == CodesInv /\ [Codes!Next]_(Codes!vars) => CodesInv'
<1> SUFFICES ASSUME CodesInv, [Codes!Next]_(Codes!vars) PROVE CodesInv'
  OBVIOUS
<1>1. ASSUME NEW q \in Visitor, Codes!Step(q) PROVE CodesInv'
  BY <1>1, ArriveKeepsCodes, ResendKeeps, RetireKeeps, CreateCodeKeeps, GetCodeKeeps,
     IncrementKeeps, BurnKeeps, ConsumeKeeps, MarkKeeps, FaultKeepsCodes DEF Codes!Step
<1>2. CASE UNCHANGED <<failures, verified, code, visit, tries, overlap>> /\ hour' \in 0..MaxHour
  BY <1>2 DEF CodesInv, CodesTyped, Sound, Attempts, OneClaim, Claims, Issuance,
            Codes!Live, Codes!Issuing
<1>3. CASE Codes!Tick
  <2>1. hour' \in 0..MaxHour
    BY <1>3, CodesAssumed DEF Codes!VerificationAssumption, Codes!Tick, CodesInv, CodesTyped
  <2> QED  BY <1>2, <1>3, <2>1 DEF Codes!Tick
<1>4. CASE UNCHANGED Codes!vars
  BY <1>2, <1>4 DEF Codes!vars, CodesInv, CodesTyped
<1> QED  BY <1>1, <1>3, <1>4 DEF Codes!Next

LEMMA CodesInductive == Codes!VerificationAssumption /\ Codes!Spec => []CodesInv
<1> QED  BY InitCodesInv, NextCodesInv, PTL DEF Codes!Spec

-----------------------------------------------------------------------------
(* The theorems.                                                           *)

\* Every variable keeps its type, and a request that counts, burns or consumes
\* does so for a row that was issued for its address.
THEOREM CodesKinds ==
  Codes!VerificationAssumption /\ Codes!Spec => []Codes!TypeOK
<1>1. ASSUME CodesTyped PROVE Codes!TypeOK
  <2>1. \A q \in Visitor :
          /\ Codes!Busy(q) => visit[q].ask # None
          /\ visit[q].pc \in {"attempt", "burn", "consume", "mark"} => visit[q].row # None
          /\ visit[q].row # None => /\ code[visit[q].row].address = visit[q].ask.address
                                    /\ code[visit[q].row].state # "unused"
    BY <1>1, WishFields, CodesAssumed DEF CodesTyped, Sound, Codes!Busy
  <2> QED  BY <1>1, <2>1 DEF CodesTyped, Codes!TypeOK, CodeType, VisitType
<1> QED  BY <1>1, CodesInductive, PTL DEF CodesInv

\* However many submissions run at once and whatever fails between counting and
\* comparing, maxVerificationAttempts bounds the guesses at a code.
THEOREM GuessesAreBounded ==
  Codes!VerificationAssumption /\ Codes!Spec => []Codes!GuessesBounded
<1>1. CodesInv => Codes!GuessesBounded
  BY DEF CodesInv, Attempts, Codes!GuessesBounded
<1> QED  BY <1>1, CodesInductive, PTL

\* "Two simultaneous submissions of the same code cannot both succeed."
THEOREM OneSubmissionWins ==
  Codes!VerificationAssumption /\ Codes!Spec => []Codes!AcceptedOnce
<1>1. CodesInv => Codes!AcceptedOnce
  BY DEF CodesInv, OneClaim, Claims, Codes!AcceptedOnce, Codes!Accepted
<1> QED  BY <1>1, CodesInductive, PTL

\* Two codes of an address work only after two issuings that overlapped.
THEOREM TwoCodesOnlyIfRaced ==
  Codes!VerificationAssumption /\ Codes!Spec => []Codes!OneLiveUnlessRaced
<1>1. ASSUME CodesInv, NEW a \in Address \ overlap PROVE Codes!Cardinality(Codes!Live(a)) <= 1
  <2>1. \A r, s \in Codes!Live(a) : r = s
    BY <1>1 DEF CodesInv, Issuance
  <2>2. CASE Codes!Live(a) = {}
    BY <2>2, SameCount, FS_EmptySet
  <2>3. CASE Codes!Live(a) # {}
    <3>1. PICK r \in Codes!Live(a) : Codes!Live(a) = {r}
      BY <2>1, <2>3
    <3>2. Codes!Cardinality({r}) = 1
      BY SameCount, FS_Singleton
    <3> QED  BY <3>1, <3>2
  <2> QED  BY <2>2, <2>3
<1>2. CodesInv => Codes!OneLiveUnlessRaced
  BY <1>1 DEF Codes!OneLiveUnlessRaced
<1> QED  BY <1>2, CodesInductive, PTL

\* What each statement may do to a row: a consumed one stays as it is.
LEMMA ConsumedStays ==
  ASSUME CodesInv, [Codes!Next]_(Codes!vars), NEW r \in Mail,
         code[r].state \in {"retired", "burned", "accepted"}
  PROVE  code'[r].state = code[r].state
<1>1. code \in [Mail -> CodeType] /\ CodesTyped
  BY DEF CodesInv, CodesTyped
<1>2. CASE UNCHANGED code
  BY <1>2
<1>3. ASSUME NEW q \in Visitor, Codes!ConsumeVerificationCodesFor(q) PROVE code'[r] = code[r]
  <2>1. r \notin Codes!Retired(visit[q].ask.address)
    BY DEF Codes!Retired, Codes!Live
  <2> QED  BY <1>3, <2>1 DEF Codes!ConsumeVerificationCodesFor
<1>4. ASSUME NEW q \in Visitor, Codes!CreateVerificationCode(q) PROVE code'[r] = code[r]
  BY <1>1, <1>4 DEF Codes!CreateVerificationCode
<1>5. ASSUME NEW q \in Visitor, Codes!IncrementVerificationAttempts(q)
      PROVE  code'[r].state = code[r].state
  BY <1>1, <1>5 DEF Codes!IncrementVerificationAttempts, Codes!Counted, CodeType
<1>6. ASSUME NEW q \in Visitor, Codes!BurnCode(q) \/ Codes!ConsumeVerificationCode(q)
      PROVE  code'[r] = code[r]
  BY <1>1, <1>6 DEF Codes!BurnCode, Codes!ConsumeVerificationCode
<1>7. ASSUME NEW q \in Visitor, Codes!Step(q) PROVE code'[r].state = code[r].state
  <2>1. \/ UNCHANGED code \/ Codes!ConsumeVerificationCodesFor(q) \/ Codes!CreateVerificationCode(q)
        \/ Codes!IncrementVerificationAttempts(q) \/ Codes!BurnCode(q)
        \/ Codes!ConsumeVerificationCode(q)
    BY <1>7 DEF Codes!Step, Codes!Arrive, Codes!ResendEmailVerification,
                Codes!GetLiveVerificationCode, Codes!MarkEmailVerified, Codes!Fault
  <2> QED  BY <1>3, <1>4, <1>5, <1>6, <2>1
<1> QED  BY <1>2, <1>7 DEF Codes!Next, Codes!Tick, Codes!vars

\* A code that was retired, burned or accepted is never accepted again, also not by
\* a submission that had read it before.
THEOREM NeverReused ==
  Codes!VerificationAssumption /\ Codes!Spec => Codes!ConsumedForGood
<1>1. CodesInv /\ [Codes!Next]_(Codes!vars) => [\A r \in Mail :
        code[r].state \in {"retired", "burned", "accepted"} =>
          code'[r].state = code[r].state]_(Codes!vars)
  BY ConsumedStays
<1> QED  BY <1>1, CodesInductive, PTL DEF Codes!Spec, Codes!ConsumedForGood

\* Only the step that spends a code marks an address: its own.
LEMMA MarkedByItsCode ==
  ASSUME CodesInv, [Codes!Next]_(Codes!vars), NEW a \in verified' \ verified
  PROVE  \E q \in Visitor :
           /\ visit'[q] # visit[q] /\ visit'[q].answer = "OK"
           /\ visit[q].ask.address = a /\ visit[q].ask.op = "verify"
           /\ code[visit[q].row].state = "accepted"
           /\ code[visit[q].row].address = a
           /\ code[visit[q].row].secret = visit[q].ask.secret
<1>1. PICK q \in Visitor : Codes!MarkEmailVerified(q)
  BY DEF Codes!Next, Codes!Step, Codes!Arrive, Codes!ResendEmailVerification,
         Codes!ConsumeVerificationCodesFor, Codes!CreateVerificationCode, Codes!GetLiveVerificationCode, Codes!IncrementVerificationAttempts,
         Codes!BurnCode, Codes!ConsumeVerificationCode, Codes!Fault, Codes!Tick, Codes!vars
<1> DEFINE r == visit[q].row
<1>2. /\ visit[q].pc = "mark" /\ Codes!Answer(q, "OK") /\ CodesTyped
      /\ verified' = verified \cup {code[r].address}
  BY <1>1 DEF Codes!MarkEmailVerified, CodesInv
<1>3. /\ r \in Mail /\ Sound(q) /\ visit[q].ask.op = "verify" /\ visit[q].answer = None
      /\ code[r].address = visit[q].ask.address
  BY <1>2, ReadRow
<1>4. code[r].state = "accepted"
  BY <1>2, <1>3 DEF CodesInv, OneClaim, Claims
<1>5. code[r].secret = visit[q].ask.secret
  BY <1>2, <1>3 DEF Sound
<1>6. visit'[q].answer = "OK"
  BY <1>2 DEF Codes!Answer, CodesTyped, VisitType
<1>7. visit'[q] # visit[q]
  BY <1>3, <1>6, CodesAssumed DEF Codes!VerificationAssumption
<1> QED  BY <1>2, <1>3, <1>4, <1>5, <1>6, <1>7

\* An address becomes verified only by a code that was issued for it, that is spent
\* on this, and that the request knew.
THEOREM VerifiedOnlyByItsCode ==
  Codes!VerificationAssumption /\ Codes!Spec => Codes!VerifiedByItsCode
<1>1. CodesInv /\ [Codes!Next]_(Codes!vars) => [\A a \in verified' \ verified : \E q \in Visitor :
        /\ visit'[q] # visit[q] /\ visit'[q].answer = "OK"
        /\ visit[q].ask.address = a /\ visit[q].ask.op = "verify"
        /\ code[visit[q].row].state = "accepted"
        /\ code[visit[q].row].address = a
        /\ code[visit[q].row].secret = visit[q].ask.secret]_(Codes!vars)
  BY MarkedByItsCode
<1> QED  BY <1>1, CodesInductive, PTL DEF Codes!Spec, Codes!VerifiedByItsCode

-----------------------------------------------------------------------------
(* The two together.                                                       *)

\* However the requests of the two interleave, each of the two runs as it would alone.
THEOREM AuthRunsBoth == AuthSpec => Spec /\ Codes!Spec
<1>1. AuthInit => Init /\ Codes!Init
  BY DEF AuthInit
<1>2. [AuthNext]_<<vars, mails>> => [Next]_vars
  BY DEF AuthNext, vars
<1>3. [AuthNext]_<<vars, mails>> => [Codes!Next]_(Codes!vars)
  BY DEF AuthNext, mails, Codes!vars
<1> QED  BY <1>1, <1>2, <1>3, PTL DEF AuthSpec, Spec, Codes!Spec

\* A code is compared with at most maxVerificationAttempts submissions, whatever
\* overlaps and fails.
THEOREM AlwaysBounded == AuthSpec => []GuessesBounded
BY AuthRunsBoth, AuthAssumption, GuessesAreBounded, PTL DEF GuessesBounded

\* A code is accepted from one submission.
THEOREM AlwaysOnce == AuthSpec => []AcceptedOnce
BY AuthRunsBoth, AuthAssumption, OneSubmissionWins, PTL DEF AcceptedOnce

\* One code of an address works, unless two issuings of it overlapped.
THEOREM OneWorks == AuthSpec => []OneLiveUnlessRaced
BY AuthRunsBoth, AuthAssumption, TwoCodesOnlyIfRaced, PTL DEF OneLiveUnlessRaced

\* An address becomes verified only by its own code.
THEOREM OnlyByItsCode == AuthSpec => VerifiedByItsCode
BY AuthRunsBoth, AuthAssumption, VerifiedOnlyByItsCode, PTL DEF VerifiedByItsCode
=============================================================================
