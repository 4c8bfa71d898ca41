---------------------------- MODULE Verification ----------------------------
(***************************************************************************)
(* Verification codes (auth/verification.go): issuing, resending and       *)
(* checking them, as concurrent requests.  There is no transaction: every  *)
(* statement commits by itself.  An address stands for its user, a secret  *)
(* for six digits and their hash.                                          *)
(***************************************************************************)
EXTENDS Integers, FiniteSets

CONSTANTS Address, Row, Secret, Request,
          Asks,        \* what the requests may ask for
          MaxAttempts, \* maxVerificationAttempts
          TTL,         \* verificationCodeTTL
          MaxTime, MaxFaults, \* bounds on the clock and on failing statements
          None         \* no row

Ask == [ op : {"issue", "resend", "verify"}, address : Address, secret : Secret ]

VerificationAssumption ==
  /\ Asks \subseteq Ask /\ IsFiniteSet(Row)
  /\ MaxAttempts \in Nat /\ TTL \in Nat /\ MaxTime \in Nat /\ MaxFaults \in Nat
  /\ None \notin Row /\ None \notin Ask /\ None \notin Secret /\ None \notin Address
  /\ None # "OK"

VARIABLES
  now, faults,
  verified, \* the addresses whose user is marked verified
  code,     \* the table verification_codes
  request,
  tries,    \* history: how many submissions were compared with a code
  overlap   \* history: addresses for which two codes were issued at once

vars == <<now, faults, verified, code, request, tries, overlap>>

\* `order' stands for created_at.
NoCode == [ state |-> "unused", address |-> None, secret |-> None, attempts |-> 0,
            expires |-> 0, order |-> 0 ]

Live(a) == { r \in Row : code[r].state = "live" /\ code[r].address = a }

\* The row GetLiveVerificationCode reads: the newest one that is not consumed.
Newest(a) == { r \in Live(a) : \A s \in Live(a) : code[s].order <= code[r].order }

-----------------------------------------------------------------------------

NoRequest == [ pc |-> "idle", ask |-> None, row |-> None, answer |-> None ]

Goto(q, label) == request' = [request EXCEPT ![q].pc = label]

Answer(q, reply) ==
  request' = [request EXCEPT ![q].pc = "done", ![q].answer = reply]

Busy(q) == request[q].pc \notin {"idle", "done"}

Issuing(a) == { q \in Request : request[q].pc = "create" /\ request[q].ask.address = a }

\* "issue" is the tail of SignUp, which has just created the account: nothing was
\* asked of the address before.
Arrive(q) ==
  /\ request[q].pc = "idle"
  /\ \E ask \in Asks :
     /\ ask.op = "issue" => \A p \in Request :
          request[p].ask # None => request[p].ask.address # ask.address
     /\ request' = [request EXCEPT ![q].ask = ask,
                     ![q].pc = IF ask.op = "issue" THEN "retire" ELSE ask.op]
  /\ UNCHANGED <<now, faults, verified, code, tries, overlap>>

\* The user is read first; there is nothing to prove twice.  (An address
\* without an account is answered like a verified one.)
ResendEmailVerification(q) ==
  /\ request[q].pc = "resend"
  /\ IF request[q].ask.address \in verified THEN Answer(q, "OK") ELSE Goto(q, "retire")
  /\ UNCHANGED <<now, faults, verified, code, tries, overlap>>

\* Mutant: a resend leaves the earlier codes alone.
NoneRetired(a) == {}

Retired(a) == Live(a)

\* IssueEmailVerification: every earlier live code for the address is retired...
ConsumeVerificationCodesFor(q) ==
  LET a == request[q].ask.address IN
  /\ request[q].pc = "retire"
  /\ code' = [r \in Row |-> IF r \in Retired(a)
                            THEN [code[r] EXCEPT !.state = "retired"] ELSE code[r]]
  /\ Goto(q, "create")
  /\ overlap' = IF Issuing(a) = {} THEN overlap ELSE overlap \cup {a}
  /\ UNCHANGED <<now, faults, verified, tries>>

\* ... and then, in a statement of its own, the new one is inserted and sent.
\* A delivery that fails is only logged.  A row's identity is used once.
CreateVerificationCode(q) ==
  /\ request[q].pc = "create"
  /\ \E r \in Row, secret \in Secret :
       /\ code[r].state = "unused"
       /\ code' = [code EXCEPT ![r] =
            [ state |-> "live", address |-> request[q].ask.address, secret |-> secret,
              attempts |-> 0, expires |-> now + TTL,
              order |-> Cardinality({ s \in Row : code[s].state # "unused" }) ]]
  /\ Answer(q, "OK")
  /\ UNCHANGED <<now, faults, verified, tries, overlap>>

-----------------------------------------------------------------------------

\* VerifyEmail reads the newest live code of the address.
GetLiveVerificationCode(q) ==
  LET a == request[q].ask.address IN
  /\ request[q].pc = "verify"
  /\ \/ /\ \A r \in Newest(a) : now > code[r].expires
        /\ Answer(q, "INVALID_CODE")
     \/ \E r \in Newest(a) :
          /\ now <= code[r].expires
          /\ request' = [request EXCEPT ![q].pc = "attempt", ![q].row = r]
  /\ UNCHANGED <<now, faults, verified, code, tries, overlap>>

Matches(q) == code[request[q].row].secret = request[q].ask.secret

\* What follows from the number of attempts, this one included.
AfterAttempt(q, attempts) ==
  IF attempts > MaxAttempts THEN Goto(q, "burn") /\ UNCHANGED tries
  ELSE /\ IF Matches(q) THEN Goto(q, "consume") ELSE Answer(q, "INVALID_CODE")
       /\ tries' = [tries EXCEPT ![request[q].row] = @ + 1]

Counted(q) == code' = [code EXCEPT ![request[q].row].attempts = @ + 1]

\* Mutant: the code is compared first, and only a wrong submission is counted.
CountAfterwards(q) ==
  /\ request[q].pc = "attempt"
  /\ AfterAttempt(q, code[request[q].row].attempts)
  /\ IF Matches(q) THEN UNCHANGED code ELSE Counted(q)
  /\ UNCHANGED <<now, faults, verified, overlap>>

\* The attempt is counted before it is checked, by an UPDATE that returns the
\* new count.
IncrementVerificationAttempts(q) ==
  /\ request[q].pc = "attempt"
  /\ Counted(q)
  /\ AfterAttempt(q, code[request[q].row].attempts + 1)
  /\ UNCHANGED <<now, faults, verified, overlap>>

\* The code is burned rather than left to be ground down.
BurnCode(q) ==
  LET r == request[q].row IN
  /\ request[q].pc = "burn"
  /\ code' = IF code[r].state = "live" THEN [code EXCEPT ![r].state = "burned"] ELSE code
  /\ Answer(q, "TOO_MANY_ATTEMPTS")
  /\ UNCHANGED <<now, faults, verified, tries, overlap>>

\* Mutant: the UPDATE is not guarded on consumed_at IS NULL.
ConsumeUnguarded(q) ==
  /\ request[q].pc = "consume"
  /\ code' = [code EXCEPT ![request[q].row].state = "accepted"]
  /\ Goto(q, "mark")
  /\ UNCHANGED <<now, faults, verified, tries, overlap>>

ConsumeVerificationCode(q) ==
  LET r == request[q].row IN
  /\ request[q].pc = "consume"
  /\ \/ /\ code[r].state = "live"
        /\ code' = [code EXCEPT ![r].state = "accepted"]
        /\ Goto(q, "mark")
     \/ code[r].state # "live" /\ Answer(q, "INVALID_CODE") /\ UNCHANGED code
  /\ UNCHANGED <<now, faults, verified, tries, overlap>>

\* Mutant: the address of the request is marked as soon as it has a code.
MarkBeforeConsume(q) ==
  /\ request[q].pc \in {"consume", "mark", "burn"}
  /\ verified' = verified \cup {request[q].ask.address}
  /\ Answer(q, "OK")
  /\ UNCHANGED <<now, faults, code, tries, overlap>>

MarkEmailVerified(q) ==
  /\ request[q].pc = "mark"
  /\ verified' = verified \cup {code[request[q].row].address}
  /\ Answer(q, "OK")
  /\ UNCHANGED <<now, faults, code, tries, overlap>>

\* A statement fails.  Sign-up only logs it, the others answer 500.
Fault(q) ==
  /\ Busy(q) /\ faults < MaxFaults
  /\ faults' = faults + 1
  /\ Answer(q, IF request[q].ask.op = "issue" THEN "OK" ELSE "INTERNAL")
  /\ UNCHANGED <<now, verified, code, tries, overlap>>

Tick ==
  /\ now < MaxTime
  /\ now' = now + 1
  /\ UNCHANGED <<faults, verified, code, request, tries, overlap>>

-----------------------------------------------------------------------------

Init ==
  /\ now = 0 /\ faults = 0
  /\ verified = {}
  /\ code = [r \in Row |-> NoCode]
  /\ request = [q \in Request |-> NoRequest]
  /\ tries = [r \in Row |-> 0]
  /\ overlap = {}

Step(q) ==
  \/ Arrive(q) \/ ResendEmailVerification(q)
  \/ ConsumeVerificationCodesFor(q) \/ CreateVerificationCode(q)
  \/ GetLiveVerificationCode(q) \/ IncrementVerificationAttempts(q) \/ BurnCode(q)
  \/ ConsumeVerificationCode(q) \/ MarkEmailVerified(q) \/ Fault(q)

Next == (\E q \in Request : Step(q)) \/ Tick

Spec == Init /\ [][Next]_vars

-----------------------------------------------------------------------------
(* Properties.                                                             *)

Label == {"idle", "resend", "retire", "create", "verify", "attempt", "burn", "consume",
          "mark", "done"}

Reply == {"OK", "INVALID_CODE", "TOO_MANY_ATTEMPTS", "INTERNAL"}

CodeState == {"unused", "live", "retired", "burned", "accepted"}

\* Every variable holds a value of its kind; a request that counts, burns or
\* consumes does so for a row that was issued.
TypeOK ==
  /\ now \in 0..MaxTime /\ faults \in 0..MaxFaults
  /\ verified \subseteq Address /\ overlap \subseteq Address
  /\ code \in [Row -> [ state : CodeState, address : Address \cup {None},
                        secret : Secret \cup {None}, attempts : Nat, expires : Nat,
                        order : Nat ]]
  /\ tries \in [Row -> Nat]
  /\ request \in [Request -> [ pc : Label, ask : Asks \cup {None}, row : Row \cup {None},
                               answer : Reply \cup {None} ]]
  /\ \A q \in Request :
       /\ Busy(q) => request[q].ask # None
       /\ request[q].pc \in {"attempt", "burn", "consume", "mark"} => request[q].row # None
       /\ request[q].row # None => /\ code[request[q].row].address = request[q].ask.address
                                   /\ code[request[q].row].state # "unused"

\* However many submissions run at once, and whatever fails between counting and
\* comparing, a code is compared with at most maxVerificationAttempts of them.
GuessesBounded == \A r \in Row : tries[r] <= MaxAttempts

Accepted(r) == { q \in Request : request[q].row = r /\ request[q].answer = "OK" }

\* "Two simultaneous submissions of the same code cannot both succeed."
AcceptedOnce == \A r \in Row : \A p, q \in Accepted(r) : p = q

\* A code that was retired by a resend, burned or accepted stays that way, also
\* for a submission that had read it before.
ConsumedForGood ==
  [][\A r \in Row : code[r].state \in {"retired", "burned", "accepted"}
                      => code'[r].state = code[r].state]_vars

\* An address becomes verified only by a code that was issued for it, that is
\* spent on this, and that the request knew.
VerifiedByItsCode ==
  [][\A a \in verified' \ verified : \E q \in Request :
       /\ request'[q] # request[q] /\ request'[q].answer = "OK"
       /\ request[q].ask.address = a /\ request[q].ask.op = "verify"
       /\ code[request[q].row].state = "accepted"
       /\ code[request[q].row].address = a
       /\ code[request[q].row].secret = request[q].ask.secret]_vars

\* "A resend leaves exactly one code working", unless it overlapped another issuing
\* for the same address.
OneLiveUnlessRaced == \A a \in Address \ overlap : Cardinality(Live(a)) <= 1
=============================================================================
