--------------------------- MODULE SessionsProofs ---------------------------
(***************************************************************************)
(* Theorems about Sessions: a refresh token is exchanged at most once, and *)
(* what was revoked is never rotated.  Both rest on Rotating: a request    *)
(* that is about to insert a successor has locked a live row, alone, and   *)
(* no row that has a successor is live.                                    *)
(***************************************************************************)
EXTENDS Sessions, TLAPS

\* What a request in this control point has established.
Established(q) ==
  /\ request[q].pc # "idle" => request[q].ask \in Asks
  /\ request[q].pc \in {"sign_up", "sign_in", "refresh", "sign_out", "everywhere"} =>
       request[q].ask.op = request[q].pc
  /\ request[q].pc = "rotate" => request[q].ask.op = "refresh"
  /\ request[q].pc = "replay" => request[q].ask.op = "refresh"
  /\ request[q].pc = "issue" => request[q].ask.op \in {"sign_up", "sign_in", "refresh"}
  /\ request[q].pc = "issue" /\ request[q].ask.op # "refresh" => request[q].ask.user \in account
  /\ request[q].pc # "idle" /\ Presents(request[q].ask) =>
       token[request[q].ask.token].state # "unused"

TypeInv == TypeOK /\ \A q \in Request : Established(q)

Rotates(q) == request[q].pc = "issue" /\ request[q].ask.op = "refresh"

OnLiveRows ==
  \A q \in Request : Rotates(q) => token[request[q].ask.token].state = "live"

Alone ==
  \A p, q \in Request : Rotates(p) /\ Rotates(q) /\ request[p].ask.token = request[q].ask.token
                          => p = q

ParentsAreRetired ==
  \A s \in Token : token[s].parent # None =>
    token[token[s].parent].state \in {"revoked", "deleted"}

UnusedHasNoParent ==
  \A t \in Token : token[t].state = "unused" => token[t].parent = None

Rotating == OnLiveRows /\ Alone /\ ParentsAreRetired /\ UnusedHasNoParent

IInv == TypeInv /\ Rotating /\ OneSuccessor

-----------------------------------------------------------------------------

RequestType == [ pc : Label, ask : Asks \cup {None}, age : 0..MaxAge, held : SUBSET Token,
                 known : SUBSET Token, answer : Code \cup {None} ]

LEMMA AskFields ==
  ASSUME NEW ask \in Asks
  PROVE  /\ ask \in Ask /\ ask # None
         /\ ask.op \in {"sign_up", "sign_in", "refresh", "sign_out", "everywhere"}
         /\ ask.user \in User /\ ask.client \in Client
         /\ Presents(ask) => ask.token \in Token
  BY SessionAssumption DEF Ask

\* The statements that only retire rows: each row keeps all but its state, and a
\* state that changes is that of a stored row no rotation has locked.
SameButState(t) ==
  /\ token'[t].user = token[t].user /\ token'[t].client = token[t].client
  /\ token'[t].issued = token[t].issued /\ token'[t].expires = token[t].expires
  /\ token'[t].parent = token[t].parent

Retires ==
  /\ token' \in [Token -> Row]
  /\ \A t \in Token :
       /\ SameButState(t)
       /\ \/ token'[t].state = token[t].state
          \/ /\ token[t].state \in {"live", "revoked"} /\ ~ Locked(t)
             /\ token'[t].state \in {"revoked", "deleted"}

LEMMA NothingRetires == ASSUME TypeInv, UNCHANGED token PROVE Retires
  BY DEF TypeInv, TypeOK, Retires, SameButState

\* A request that is answered, and one that goes on.
LEMMA Answering ==
  ASSUME TypeInv, NEW q \in Request, NEW code \in Code, Answer(q, code)
  PROVE  /\ request' \in [Request -> RequestType]
         /\ request'[q].pc = "done" /\ request'[q].ask = request[q].ask
         /\ request'[q].age = request[q].age /\ request'[q].known = request[q].known
         /\ request'[q].answer = code
         /\ \A p \in Request \ {q} : request'[p] = request[p]
<1> DEFINE r == [request[q] EXCEPT !.pc = "done", !.answer = code]
<1>1. request[q] \in RequestType /\ request \in [Request -> RequestType]
  BY DEF TypeInv, TypeOK, RequestType
<1>2. /\ r \in RequestType /\ r.pc = "done" /\ r.ask = request[q].ask
      /\ r.age = request[q].age /\ r.known = request[q].known /\ r.answer = code
  BY <1>1 DEF RequestType, Label
<1>3. request' = [request EXCEPT ![q] = r]
  BY <1>1 DEF Answer, RequestType
<1> QED  BY <1>1, <1>2, <1>3

LEMMA Going ==
  ASSUME TypeInv, NEW q \in Request, NEW label \in Label, Goto(q, label)
  PROVE  /\ request' \in [Request -> RequestType]
         /\ request'[q].pc = label /\ request'[q].ask = request[q].ask
         /\ request'[q].age = request[q].age /\ request'[q].known = request[q].known
         /\ \A p \in Request \ {q} : request'[p] = request[p]
<1> DEFINE r == [request[q] EXCEPT !.pc = label]
<1>1. request[q] \in RequestType /\ request \in [Request -> RequestType]
  BY DEF TypeInv, TypeOK, RequestType
<1>2. /\ r \in RequestType /\ r.pc = label /\ r.ask = request[q].ask
      /\ r.age = request[q].age /\ r.known = request[q].known
  BY <1>1 DEF RequestType
<1>3. request' = [request EXCEPT ![q] = r]
  BY <1>1 DEF Goto, RequestType
<1> QED  BY <1>1, <1>2, <1>3

\* What q has established in its new control point, when rows were only retired.
Establishes(q) ==
  LET r == request'[q] IN
  /\ r.pc # "idle" => r.ask \in Asks
  /\ r.pc \in {"sign_up", "sign_in", "refresh", "sign_out", "everywhere"} => r.ask.op = r.pc
  /\ r.pc = "rotate" => r.ask.op = "refresh"
  /\ r.pc = "replay" => r.ask.op = "refresh"
  /\ r.pc = "issue" => r.ask.op \in {"sign_up", "sign_in", "refresh"}
  /\ r.pc = "issue" /\ r.ask.op # "refresh" => r.ask.user \in account'
  /\ r.pc # "idle" /\ Presents(r.ask) => token[r.ask.token].state # "unused"

\* A request that a statement of another leaves where it is.
Steady(q) == request'[q].pc = request[q].pc /\ request'[q].ask = request[q].ask

LEMMA RetiringKeepsTypes ==
  ASSUME TypeInv, Retires, request' \in [Request -> RequestType],
         \A q \in Request : Steady(q) \/ Establishes(q),
         now' \in 0..MaxTime, faults' \in 0..MaxFaults,
         account \subseteq account', account' \subseteq User
  PROVE  TypeInv'
<1>1. TypeOK'
  <2>1. \A t \in Token : token'[t].state # "unused" => token'[t].user \in account'
    BY DEF Retires, SameButState, TypeInv, TypeOK
  <2> QED  BY <2>1 DEF TypeOK, Retires, RequestType
<1>2. ASSUME NEW q \in Request PROVE Established(q)'
  <2>1. \A t \in Token : token[t].state # "unused" => token'[t].state # "unused"
    BY DEF Retires
  <2>2. request'[q].ask \in Asks /\ Presents(request'[q].ask) => request'[q].ask.token \in Token
    BY AskFields
  <2>3. CASE Steady(q)
    <3>1. request'[q].pc = request[q].pc /\ request'[q].ask = request[q].ask
      BY <2>3 DEF Steady
    <3>2. Established(q)
      BY DEF TypeInv
    <3> QED  BY <2>1, <2>2, <3>1, <3>2 DEF Established
  <2>4. CASE Establishes(q)
    BY <2>1, <2>2, <2>4 DEF Establishes, Established
  <2> QED  BY <2>3, <2>4
<1> QED  BY <1>1, <1>2 DEF TypeInv

\* A statement that only retires rows, of a request that does not begin to rotate,
\* keeps the rotations of the others.
LEMMA RetiringKeepsRotations ==
  ASSUME TypeInv, Rotating, OneSuccessor, Retires,
         \A q \in Request : Steady(q) \/ ~ Rotates(q)'
  PROVE  Rotating' /\ OneSuccessor'
<1>1. \A q \in Request : Rotates(q)' => Rotates(q) /\ request'[q].ask = request[q].ask
  BY DEF Rotates, Steady
<1>2. OnLiveRows'
  <2> SUFFICES ASSUME NEW p \in Request, Rotates(p)'
               PROVE  token'[request'[p].ask.token].state = "live"
    BY DEF OnLiveRows
  <2> DEFINE t == request[p].ask.token
  <2>1. Rotates(p) /\ request'[p].ask = request[p].ask
    BY <1>1
  <2>2. t \in Token
    BY <2>1, AskFields DEF TypeInv, Established, Rotates, Presents
  <2>3. Locked(t)
    BY <2>1 DEF Locked, Rotates
  <2>4. token'[t].state = token[t].state
    BY <2>2, <2>3 DEF Retires
  <2> QED  BY <2>1, <2>4 DEF Rotating, OnLiveRows
<1>3. Alone'
  BY <1>1 DEF Rotating, Alone
<1>4. ParentsAreRetired'
  <2> SUFFICES ASSUME NEW s \in Token, token'[s].parent # None
               PROVE  token'[token'[s].parent].state \in {"revoked", "deleted"}
    BY DEF ParentsAreRetired
  <2>1. token'[s].parent = token[s].parent /\ token[s].parent \in Token
    BY DEF Retires, SameButState, TypeInv, TypeOK, Row
  <2>2. token[token[s].parent].state \in {"revoked", "deleted"}
    BY <2>1 DEF Rotating, ParentsAreRetired
  <2> QED  BY <2>1, <2>2 DEF Retires
<1>5. UnusedHasNoParent'
  BY DEF Rotating, UnusedHasNoParent, Retires, SameButState
<1>6. OneSuccessor'
  BY DEF OneSuccessor, Retires, SameButState
<1> QED  BY <1>2, <1>3, <1>4, <1>5, <1>6 DEF Rotating

LEMMA RetiringKeeps ==
  ASSUME IInv, Retires, NEW q \in Request, request' \in [Request -> RequestType],
         \A p \in Request \ {q} : request'[p] = request[p],
         Establishes(q), ~ Rotates(q)',
         now' \in 0..MaxTime, faults' \in 0..MaxFaults,
         account \subseteq account', account' \subseteq User
  PROVE  IInv'
<1>1. \A p \in Request : Steady(p) \/ p = q
  BY DEF Steady
<1>2. TypeInv'
  BY <1>1, RetiringKeepsTypes DEF IInv
<1>3. Rotating' /\ OneSuccessor'
  BY <1>1, RetiringKeepsRotations DEF IInv
<1> QED  BY <1>2, <1>3 DEF IInv

\* A request that has been answered, whatever it did to retire rows.
LEMMA AnsweringKeeps ==
  ASSUME IInv, Retires, NEW q \in Request, request[q].pc # "idle",
         NEW code \in Code, Answer(q, code), UNCHANGED <<now, account>>,
         faults' \in 0..MaxFaults
  PROVE  IInv'
<1>1. /\ request' \in [Request -> RequestType]
      /\ request'[q].pc = "done" /\ request'[q].ask = request[q].ask
      /\ \A p \in Request \ {q} : request'[p] = request[p]
  BY Answering DEF IInv
<1>2. Establishes(q)
  BY <1>1 DEF Establishes, IInv, TypeInv, Established
<1>3. now' \in 0..MaxTime /\ account \subseteq account' /\ account' \subseteq User
  BY DEF IInv, TypeInv, TypeOK
<1>4. ~ Rotates(q)'
  BY <1>1 DEF Rotates
<1> QED  BY <1>1, <1>2, <1>3, <1>4, RetiringKeeps

-----------------------------------------------------------------------------
(* The statement that issues a token.                                      *)

\* Whoever issues a token, in time or with its answer lost.
Issues(q, t) ==
  /\ request[q].pc = "issue" /\ token[t].state = "unused"
  /\ token' = Issued(q, t)

LEMMA NewRow ==
  ASSUME TypeInv, Rotating, NEW q \in Request, NEW t \in Token, Issues(q, t)
  PROVE  /\ token' \in [Token -> Row]
         /\ token'[t].state = "live" /\ token'[t].user \in account
         /\ token'[t].parent = IF Rotates(q) THEN request[q].ask.token ELSE None
         /\ token'[t].issued = now /\ token'[t].expires = now + TTL[token'[t].client]
         /\ Rotates(q) => /\ token'[t].client = token[request[q].ask.token].client
                          /\ token'[t].user = token[request[q].ask.token].user
         /\ Rotates(q) => /\ request[q].ask.token \in Token \ {t}
                          /\ token'[request[q].ask.token] =
                               [token[request[q].ask.token] EXCEPT !.state = "revoked"]
         /\ \A x \in Token \ {t} : (Rotates(q) /\ x = request[q].ask.token) \/ token'[x] = token[x]
<1> DEFINE ask == request[q].ask
<1>1. ask \in Asks /\ Established(q)
  BY DEF TypeInv, Established, Issues
<1>2. Presents(ask) <=> ask.op = "refresh"
  BY <1>1 DEF Established, Issues, Presents
<1>3. Rotates(q) <=> ask.op = "refresh"
  BY DEF Rotates, Issues
<1>4. Owner(ask) \in account
  <2>1. CASE ask.op = "refresh"
    <3>1. ask.token \in Token
      BY <1>1, <1>2, <2>1, AskFields
    <3>2. token[ask.token].state # "unused"
      BY <1>1, <1>2, <2>1 DEF Established, Issues
    <3> QED  BY <1>2, <2>1, <3>1, <3>2 DEF Owner, TypeInv, TypeOK
  <2>2. CASE ask.op # "refresh"
    BY <1>1, <1>2, <2>2 DEF Established, Issues, Owner
  <2> QED  BY <2>1, <2>2
<1>5. ClientFor(q) \in Client
  <2>1. CASE ask.op = "refresh"
    <3>1. ask.token \in Token
      BY <1>1, <1>2, <2>1, AskFields
    <3> QED  BY <2>1, <3>1 DEF ClientFor, TypeInv, TypeOK, Row
  <2>2. CASE ask.op # "refresh"
    BY <1>1, <2>2, AskFields DEF ClientFor
  <2> QED  BY <2>1, <2>2
<1>6. now \in Nat /\ now + TTL[ClientFor(q)] \in Nat
  BY <1>5, SessionAssumption DEF TypeInv, TypeOK
<1> DEFINE fresh == [ state |-> "live", user |-> Owner(ask), client |-> ClientFor(q),
                      issued |-> now, expires |-> now + TTL[ClientFor(q)],
                      parent |-> IF ask.op = "refresh" THEN ask.token ELSE None ]
<1>7. ask.op = "refresh" => ask.token \in Token \ {t}
  <2>1. ask.op = "refresh" => ask.token \in Token
    BY <1>1, <1>2, AskFields
  <2>2. ask.op = "refresh" => token[ask.token].state = "live"
    BY <1>3 DEF Rotating, OnLiveRows
  <2> QED  BY <2>1, <2>2 DEF Issues
<1>8. fresh \in Row
  <2>1. Owner(ask) \in User \cup {None}
    BY <1>4 DEF TypeInv, TypeOK
  <2>2. (IF ask.op = "refresh" THEN ask.token ELSE None) \in Token \cup {None}
    BY <1>7
  <2> QED  BY <2>1, <2>2, <1>5, <1>6 DEF Row
<1>9. token' = IF ask.op = "refresh"
               THEN [token EXCEPT ![ask.token].state = "revoked", ![t] = fresh]
               ELSE [token EXCEPT ![t] = fresh]
  BY DEF Issues, Issued
<1> HIDE DEF fresh
<1>10. token'[t] = fresh
  BY <1>7, <1>9 DEF TypeInv, TypeOK
<1>11. \A x \in Token \ {t} :
         /\ ask.op = "refresh" /\ x = ask.token =>
              token'[x] = [token[x] EXCEPT !.state = "revoked"]
         /\ ~(ask.op = "refresh" /\ x = ask.token) => token'[x] = token[x]
  BY <1>7, <1>9 DEF TypeInv, TypeOK
<1>12. token' \in [Token -> Row]
  <2>1. \A x \in Token : [token[x] EXCEPT !.state = "revoked"] \in Row /\ token[x] \in Row
    BY DEF TypeInv, TypeOK, Row
  <2>2. \A x \in Token : token'[x] \in Row
    BY <1>8, <1>10, <1>11, <2>1
  <2> QED  BY <1>9, <2>2 DEF TypeInv, TypeOK
<1>13. /\ fresh.state = "live" /\ fresh.user = Owner(ask)
       /\ fresh.parent = IF ask.op = "refresh" THEN ask.token ELSE None
       /\ fresh.issued = now /\ fresh.client = ClientFor(q)
       /\ fresh.expires = now + TTL[ClientFor(q)]
  BY DEF fresh
<1>14. ask.op = "refresh" => /\ Owner(ask) = token[ask.token].user
                            /\ ClientFor(q) = token[ask.token].client
  BY <1>2 DEF Owner, ClientFor
<1> QED  BY <1>3, <1>4, <1>7, <1>10, <1>11, <1>12, <1>13, <1>14

LEMMA IssuingKeeps ==
  ASSUME IInv, NEW q \in Request, NEW t \in Token, Issues(q, t),
         NEW code \in Code, Answer(q, code), UNCHANGED <<now, account>>,
         faults' \in 0..MaxFaults
  PROVE  IInv'
<1> USE DEF IInv
<1> DEFINE old == request[q].ask.token
<1>1. /\ request' \in [Request -> RequestType]
      /\ request'[q].pc = "done" /\ request'[q].ask = request[q].ask
      /\ \A p \in Request \ {q} : request'[p] = request[p]
  BY Answering
<1>2. /\ token' \in [Token -> Row]
      /\ token'[t].state = "live" /\ token'[t].user \in account
      /\ token'[t].parent = IF Rotates(q) THEN old ELSE None
      /\ Rotates(q) => /\ old \in Token \ {t}
                       /\ token'[old] = [token[old] EXCEPT !.state = "revoked"]
      /\ \A x \in Token \ {t} : (Rotates(q) /\ x = old) \/ token'[x] = token[x]
  BY NewRow
<1>3. \A x \in Token \ {t} :
        /\ token'[x].parent = token[x].parent /\ token'[x].user = token[x].user
        /\ \/ token'[x].state = token[x].state
           \/ Rotates(q) /\ x = old /\ token'[x].state = "revoked"
  <2>1. \A x \in Token : /\ [token[x] EXCEPT !.state = "revoked"].parent = token[x].parent
                         /\ [token[x] EXCEPT !.state = "revoked"].user = token[x].user
                         /\ [token[x] EXCEPT !.state = "revoked"].state = "revoked"
    BY DEF TypeInv, TypeOK, Row
  <2> SUFFICES ASSUME NEW x \in Token \ {t}
               PROVE  /\ token'[x].parent = token[x].parent /\ token'[x].user = token[x].user
                      /\ \/ token'[x].state = token[x].state
                         \/ Rotates(q) /\ x = old /\ token'[x].state = "revoked"
    OBVIOUS
  <2>2. CASE Rotates(q) /\ x = old
    <3>1. token'[x] = [token[x] EXCEPT !.state = "revoked"]
      BY <1>2, <2>2
    <3> QED  BY <2>1, <2>2, <3>1
  <2>3. CASE ~(Rotates(q) /\ x = old)
    <3>1. token'[x] = token[x]
      BY <1>2, <2>3
    <3> QED  BY <3>1
  <2> QED  BY <2>2, <2>3
<1>4. Rotates(q) => token[old].state = "live"
  BY DEF Rotating, OnLiveRows
<1>5. token[t].state = "unused"
  BY DEF Issues
<1>6. \A x \in Token : token[x].state # "unused" => token'[x].state # "unused"
  BY <1>2, <1>3
<1>7. TypeOK'
  <2>1. \A x \in Token : token'[x].state # "unused" => token'[x].user \in account'
    BY <1>2, <1>3, <1>4 DEF TypeInv, TypeOK
  <2> QED  BY <1>1, <1>2, <2>1 DEF TypeInv, TypeOK, RequestType
<1>8. ASSUME NEW p \in Request PROVE Established(p)'
  <2>1. request[p].ask \in Asks /\ Presents(request[p].ask) => request[p].ask.token \in Token
    BY AskFields
  <2>2. CASE p = q
    <3>1. Established(q) /\ request[q].pc = "issue"
      BY DEF TypeInv, Issues
    <3> QED  BY <1>1, <1>6, <2>1, <2>2, <3>1 DEF Established
  <2>3. CASE p # q
    <3>1. Established(p) /\ request'[p] = request[p]
      BY <1>1, <2>3 DEF TypeInv
    <3> QED  BY <1>6, <2>1, <3>1 DEF Established
  <2> QED  BY <2>2, <2>3
<1>9. \A p \in Request : Rotates(p)' =>
        p # q /\ Rotates(p) /\ request'[p].ask = request[p].ask
  BY <1>1 DEF Rotates
<1>10. OnLiveRows'
  <2> SUFFICES ASSUME NEW p \in Request, Rotates(p)'
               PROVE  token'[request'[p].ask.token].state = "live"
    BY DEF OnLiveRows
  <2>1. p # q /\ Rotates(p) /\ request'[p].ask = request[p].ask
    BY <1>9
  <2>2. request[p].ask.token \in Token /\ token[request[p].ask.token].state = "live"
    BY <2>1, AskFields DEF TypeInv, Established, Rotates, Presents, Rotating, OnLiveRows
  <2>3. ~(Rotates(q) /\ request[p].ask.token = old)
    BY <2>1 DEF Rotating, Alone
  <2> QED  BY <1>3, <1>5, <2>1, <2>2, <2>3
<1>11. Alone'
  BY <1>9 DEF Rotating, Alone
<1>12. ParentsAreRetired'
  <2> SUFFICES ASSUME NEW s \in Token, token'[s].parent # None
               PROVE  token'[token'[s].parent].state \in {"revoked", "deleted"}
    BY DEF ParentsAreRetired
  <2>1. CASE s = t
    <3>1. Rotates(q) /\ token'[s].parent = old /\ old \in Token \ {t}
      BY <1>2, <2>1
    <3>2. token'[old].state = "revoked"
      BY <1>2, <3>1 DEF TypeInv, TypeOK, Row
    <3> QED  BY <3>1, <3>2
  <2>2. CASE s # t
    <3>1. token'[s].parent = token[s].parent /\ token[s].parent \in Token
      BY <1>3, <2>2 DEF TypeInv, TypeOK, Row
    <3>2. token[token[s].parent].state \in {"revoked", "deleted"}
      BY <3>1 DEF Rotating, ParentsAreRetired
    <3>3. token[s].parent # t
      BY <1>5, <3>2
    <3> QED  BY <1>3, <3>1, <3>2, <3>3
  <2> QED  BY <2>1, <2>2
<1>13. UnusedHasNoParent'
  BY <1>2, <1>3 DEF Rotating, UnusedHasNoParent
<1>14. OneSuccessor'
  <2>1. \A s \in Token \ {t} : token[s].parent # None /\ Rotates(q) => token[s].parent # old
    BY <1>4 DEF Rotating, ParentsAreRetired
  <2> QED  BY <1>2, <1>3, <2>1 DEF OneSuccessor
<1> QED  BY <1>7, <1>8, <1>10, <1>11, <1>12, <1>13, <1>14 DEF TypeInv, Rotating

-----------------------------------------------------------------------------
(* One lemma for each action.                                              *)

LEMMA ArriveKeeps == ASSUME IInv, NEW q \in Request, Arrive(q) PROVE IInv'
<1>1. PICK ask \in Asks :
        /\ Presents(ask) => token[ask.token].state # "unused"
        /\ ask.op = "everywhere" => ask.user \in account
        /\ request' = [request EXCEPT ![q].ask = ask, ![q].pc = ask.op,
                                      ![q].known = Held(Owner(ask))]
  BY DEF Arrive
<1> DEFINE r == [request[q] EXCEPT !.ask = ask, !.pc = ask.op, !.known = Held(Owner(ask))]
<1>2. request[q] \in RequestType /\ request \in [Request -> RequestType]
  BY DEF IInv, TypeInv, TypeOK, RequestType
<1>3. ask.op \in Label /\ Held(Owner(ask)) \subseteq Token
  BY AskFields DEF Label, Held
<1>4. r \in RequestType /\ r.pc = ask.op /\ r.ask = ask
  BY <1>2, <1>3 DEF RequestType
<1>5. request' = [request EXCEPT ![q] = r]
  BY <1>1, <1>2 DEF RequestType
<1> HIDE DEF r
<1>6. /\ request' \in [Request -> RequestType]
      /\ request'[q].pc = ask.op /\ request'[q].ask = ask
      /\ \A p \in Request \ {q} : request'[p] = request[p]
  BY <1>2, <1>4, <1>5
<1>7. ask.op \in {"sign_up", "sign_in", "refresh", "sign_out", "everywhere"}
  BY AskFields
<1>8. Establishes(q)
  BY <1>1, <1>6, <1>7 DEF Establishes
<1>9. ~ Rotates(q)'
  BY <1>6, <1>7 DEF Rotates
<1>10. Retires /\ now' \in 0..MaxTime /\ faults' \in 0..MaxFaults
       /\ account \subseteq account' /\ account' \subseteq User
  BY NothingRetires DEF Arrive, IInv, TypeInv, TypeOK
<1> QED  BY <1>6, <1>8, <1>9, <1>10, RetiringKeeps

LEMMA CreateUserKeeps == ASSUME IInv, NEW q \in Request, CreateUser(q) PROVE IInv'
<1> DEFINE ask == request[q].ask
<1>1. /\ request[q].pc = "sign_up" /\ ask \in Asks /\ ask.op = "sign_up" /\ ask.user \in User
  BY AskFields DEF CreateUser, IInv, TypeInv, Established
<1>2. Retires /\ UNCHANGED <<now, faults>> /\ now' \in 0..MaxTime /\ faults' \in 0..MaxFaults
  BY NothingRetires DEF CreateUser, IInv, TypeInv, TypeOK
<1>3. CASE Answer(q, "EMAIL_TAKEN") /\ UNCHANGED account
  BY <1>1, <1>2, <1>3, AnsweringKeeps DEF Code
<1>4. CASE account' = account \cup {ask.user} /\ Goto(q, "issue")
  <2>1. /\ request' \in [Request -> RequestType]
        /\ request'[q].pc = "issue" /\ request'[q].ask = ask
        /\ \A p \in Request \ {q} : request'[p] = request[p]
    BY <1>4, Going DEF IInv, Label
  <2>2. Establishes(q) /\ ~ Rotates(q)'
    BY <1>1, <1>4, <2>1 DEF Establishes, Rotates, Presents
  <2>3. account \subseteq account' /\ account' \subseteq User
    BY <1>1, <1>4 DEF IInv, TypeInv, TypeOK
  <2> QED  BY <1>2, <2>1, <2>2, <2>3, RetiringKeeps
<1> QED  BY <1>3, <1>4 DEF CreateUser

LEMMA SignInKeeps == ASSUME IInv, NEW q \in Request, SignIn(q) PROVE IInv'
<1> DEFINE ask == request[q].ask
<1>1. /\ request[q].pc = "sign_in" /\ ask \in Asks /\ ask.op = "sign_in"
  BY DEF SignIn, IInv, TypeInv, Established
<1>2. /\ Retires /\ UNCHANGED <<now, account>>
      /\ now' \in 0..MaxTime /\ faults' \in 0..MaxFaults
      /\ account \subseteq account' /\ account' \subseteq User
  BY NothingRetires DEF SignIn, IInv, TypeInv, TypeOK
<1>3. CASE Answer(q, "INVALID_CREDENTIALS")
  BY <1>1, <1>2, <1>3, AnsweringKeeps DEF Code
<1>4. CASE ask.user \in account /\ Goto(q, "issue")
  <2>1. /\ request' \in [Request -> RequestType]
        /\ request'[q].pc = "issue" /\ request'[q].ask = ask
        /\ \A p \in Request \ {q} : request'[p] = request[p]
    BY <1>4, Going DEF IInv, Label
  <2>2. Establishes(q) /\ ~ Rotates(q)'
    BY <1>1, <1>2, <1>4, <2>1 DEF Establishes, Rotates, Presents
  <2> QED  BY <1>2, <2>1, <2>2, RetiringKeeps
<1> QED  BY <1>3, <1>4 DEF SignIn

LEMMA GetKeeps == ASSUME IInv, NEW q \in Request, GetRefreshTokenByHash(q) PROVE IInv'
<1> DEFINE ask == request[q].ask
<1>1. /\ request[q].pc = "refresh" /\ ask \in Asks /\ ask.op = "refresh"
      /\ token[ask.token].state # "unused"
  BY DEF GetRefreshTokenByHash, IInv, TypeInv, Established, Presents
<1>2. /\ Retires /\ UNCHANGED <<now, account>>
      /\ now' \in 0..MaxTime /\ faults' \in 0..MaxFaults
      /\ account \subseteq account' /\ account' \subseteq User
  BY NothingRetires DEF GetRefreshTokenByHash, IInv, TypeInv, TypeOK
<1>3. ASSUME NEW code \in {"INVALID_TOKEN", "TOKEN_EXPIRED"}, Answer(q, code) PROVE IInv'
  BY <1>1, <1>2, <1>3, AnsweringKeeps DEF Code
<1>4. ASSUME NEW label \in {"replay", "rotate"}, Goto(q, label) PROVE IInv'
  <2>1. /\ request' \in [Request -> RequestType]
        /\ request'[q].pc = label /\ request'[q].ask = ask
        /\ \A p \in Request \ {q} : request'[p] = request[p]
    BY <1>4, Going DEF IInv, Label
  <2>2. Establishes(q) /\ ~ Rotates(q)'
    BY <1>1, <2>1 DEF Establishes, Rotates
  <2> QED  BY <1>2, <2>1, <2>2, RetiringKeeps
<1>5. \/ Answer(q, "INVALID_TOKEN") \/ Answer(q, "TOKEN_EXPIRED")
      \/ Goto(q, "replay") \/ Goto(q, "rotate")
  BY DEF GetRefreshTokenByHash
<1> QED  BY <1>3, <1>4, <1>5

\* The guarded UPDATE begins a rotation: the row is live, and locked by nobody.
LEMMA RevokeKeeps == ASSUME IInv, NEW q \in Request, RevokeRefreshToken(q) PROVE IInv'
<1> DEFINE t == request[q].ask.token
<1>1. /\ request[q].pc = "rotate" /\ request[q].ask \in Asks /\ request[q].ask.op = "refresh"
      /\ token[t].state # "unused" /\ ~ Locked(t)
  BY DEF RevokeRefreshToken, IInv, TypeInv, Established, Presents
<1>2. /\ Retires /\ UNCHANGED <<now, account, token>>
      /\ now' \in 0..MaxTime /\ faults' \in 0..MaxFaults
      /\ account \subseteq account' /\ account' \subseteq User
  BY NothingRetires DEF RevokeRefreshToken, IInv, TypeInv, TypeOK
<1>3. CASE Answer(q, "INVALID_TOKEN")
  BY <1>1, <1>2, <1>3, AnsweringKeeps DEF Code
<1>4. CASE token[t].state = "live" /\ Goto(q, "issue")
  <2>1. /\ request' \in [Request -> RequestType]
        /\ request'[q].pc = "issue" /\ request'[q].ask = request[q].ask
        /\ \A p \in Request \ {q} : request'[p] = request[p]
    BY <1>4, Going DEF IInv, Label
  <2>2. Establishes(q)
    BY <1>1, <2>1 DEF Establishes
  <2>3. \A p \in Request : Steady(p) \/ Establishes(p)
    BY <2>1, <2>2 DEF Steady
  <2>4. TypeInv'
    BY <1>2, <2>1, <2>3, RetiringKeepsTypes DEF IInv
  <2>5. \A p \in Request : Rotates(p)' =>
          p = q \/ (Rotates(p) /\ request'[p].ask = request[p].ask /\ request[p].ask.token # t)
    BY <1>1, <2>1 DEF Rotates, Locked
  <2>6. OnLiveRows'
    BY <1>2, <1>4, <2>1, <2>5 DEF IInv, Rotating, OnLiveRows
  <2>7. Alone'
    BY <2>1, <2>5 DEF IInv, Rotating, Alone
  <2>8. ParentsAreRetired' /\ UnusedHasNoParent' /\ OneSuccessor'
    BY <1>2 DEF IInv, Rotating, ParentsAreRetired, UnusedHasNoParent, OneSuccessor
  <2> QED  BY <2>4, <2>6, <2>7, <2>8 DEF IInv, Rotating
<1> QED  BY <1>3, <1>4 DEF RevokeRefreshToken

LEMMA CreateKeeps == ASSUME IInv, NEW q \in Request, CreateRefreshToken(q) PROVE IInv'
<1>1. PICK t \in Token : Issues(q, t)
  BY DEF CreateRefreshToken, Issues
<1>2. Answer(q, "OK") /\ "OK" \in Code /\ UNCHANGED <<now, account>> /\ faults' \in 0..MaxFaults
  BY DEF CreateRefreshToken, Code, IInv, TypeInv, TypeOK
<1> QED  BY <1>1, <1>2, IssuingKeeps

LEMMA LostKeeps == ASSUME IInv, NEW q \in Request, AnswerLost(q) PROVE IInv'
<1>1. PICK t \in Token : Issues(q, t)
  BY DEF AnswerLost, Issues
<1>2. faults' \in 0..MaxFaults
  BY SessionAssumption DEF AnswerLost, IInv, TypeInv, TypeOK
<1>3. Answer(q, "INTERNAL") /\ "INTERNAL" \in Code /\ UNCHANGED <<now, account>>
  BY DEF AnswerLost, Code
<1> QED  BY <1>1, <1>2, <1>3, IssuingKeeps

LEMMA SignOutRetires == ASSUME TypeInv, NEW q \in Request, SignOut(q) PROVE Retires
<1> DEFINE t == request[q].ask.token
<1>1. t \in Token /\ ~ Locked(t)
  BY AskFields DEF SignOut, TypeInv, Established, Presents
<1>2. CASE token[t].state = "live"
  <2>1. token' = [token EXCEPT ![t].state = "revoked"]
    BY <1>2 DEF SignOut
  <2> QED  BY <1>1, <1>2, <2>1 DEF Retires, SameButState, TypeInv, TypeOK, Row
<1>3. CASE token[t].state # "live"
  BY <1>3, NothingRetires DEF SignOut
<1> QED  BY <1>2, <1>3

LEMMA SignOutKeeps == ASSUME IInv, NEW q \in Request, SignOut(q) PROVE IInv'
<1> DEFINE t == request[q].ask.token
<1>1. t \in Token /\ ~ Locked(t) /\ request[q].pc # "idle"
  BY AskFields DEF SignOut, IInv, TypeInv, Established, Presents
<1>2. Retires
  BY SignOutRetires DEF IInv
<1>3. Answer(q, "OK") /\ "OK" \in Code /\ UNCHANGED <<now, account>> /\ faults' \in 0..MaxFaults
  BY DEF SignOut, Code, IInv, TypeInv, TypeOK
<1> QED  BY <1>1, <1>2, <1>3, AnsweringKeeps

LEMMA RevokeAllKeeps ==
  ASSUME IInv, NEW q \in Request, RevokeAllUserRefreshTokens(q) PROVE IInv'
<1> DEFINE held == Held(Owner(request[q].ask))
           r == [request[q] EXCEPT !.pc = "revoke", !.held = held]
<1>1. request[q] \in RequestType /\ request \in [Request -> RequestType] /\ held \subseteq Token
  BY DEF IInv, TypeInv, TypeOK, RequestType, Held
<1>2. r \in RequestType /\ r.pc = "revoke" /\ r.ask = request[q].ask
  BY <1>1 DEF RequestType, Label
<1>3. request' = [request EXCEPT ![q] = r]
  BY <1>1 DEF RevokeAllUserRefreshTokens, RequestType
<1> HIDE DEF r
<1>4. /\ request' \in [Request -> RequestType]
      /\ request'[q].pc = "revoke" /\ request'[q].ask = request[q].ask
      /\ \A p \in Request \ {q} : request'[p] = request[p]
  BY <1>1, <1>2, <1>3
<1>5. Established(q) /\ request[q].pc # "idle"
  BY DEF RevokeAllUserRefreshTokens, IInv, TypeInv
<1>6. Establishes(q) /\ ~ Rotates(q)'
  BY <1>4, <1>5 DEF Establishes, Established, Rotates
<1>7. Retires /\ now' \in 0..MaxTime /\ faults' \in 0..MaxFaults
      /\ account \subseteq account' /\ account' \subseteq User
  BY NothingRetires DEF RevokeAllUserRefreshTokens, IInv, TypeInv, TypeOK
<1> QED  BY <1>4, <1>6, <1>7, RetiringKeeps

LEMMA FinishRetires == ASSUME TypeInv, NEW q \in Request, FinishRevocation(q) PROVE Retires
<1>1. \A t \in Token : t \in request[q].held => ~ Locked(t)
  BY DEF FinishRevocation
<1>2. token' = [t \in Token |-> IF t \in request[q].held /\ token[t].state = "live"
                                THEN [token[t] EXCEPT !.state = "revoked"] ELSE token[t]]
  BY DEF FinishRevocation, RevokesAll
<1> QED  BY <1>1, <1>2 DEF Retires, SameButState, TypeInv, TypeOK, Row

LEMMA FinishKeeps == ASSUME IInv, NEW q \in Request, FinishRevocation(q) PROVE IInv'
<1>1. Retires
  BY FinishRetires DEF IInv
<1>2. /\ \E code \in Code : Answer(q, code)
      /\ request[q].pc # "idle" /\ UNCHANGED <<now, account>> /\ faults' \in 0..MaxFaults
  BY DEF FinishRevocation, Code, IInv, TypeInv, TypeOK
<1> QED  BY <1>1, <1>2, AnsweringKeeps

LEMMA FaultKeeps == ASSUME IInv, NEW q \in Request, Fault(q) PROVE IInv'
<1>1. faults' \in 0..MaxFaults
  BY SessionAssumption DEF Fault, IInv, TypeInv, TypeOK
<1>2. /\ Answer(q, "INTERNAL") /\ "INTERNAL" \in Code /\ UNCHANGED <<now, account>>
      /\ request[q].pc # "idle" /\ Retires
  BY NothingRetires DEF Fault, Busy, Code, IInv
<1> QED  BY <1>1, <1>2, AnsweringKeeps

LEMMA PruneRetires == ASSUME TypeInv, PruneRefreshTokens PROVE Retires
<1>1. token' = [t \in Token |-> IF Prunable(t)
                  THEN [token[t] EXCEPT !.state = "deleted"] ELSE token[t]]
  BY DEF PruneRefreshTokens
<1>2. \A t \in Token : Prunable(t) => ~ Locked(t) /\ token[t].state \in {"live", "revoked"}
  BY DEF PruneRefreshTokens, Prunable, Stored
<1> HIDE DEF Prunable
<1> QED  BY <1>1, <1>2 DEF Retires, SameButState, TypeInv, TypeOK, Row

LEMMA PruneKeeps == ASSUME IInv, PruneRefreshTokens PROVE IInv'
<1>1. Retires
  BY PruneRetires DEF IInv
<1>2. \A q \in Request : Steady(q)
  BY DEF Steady, PruneRefreshTokens
<1>3. /\ request' \in [Request -> RequestType]
      /\ now' \in 0..MaxTime /\ faults' \in 0..MaxFaults
      /\ account \subseteq account' /\ account' \subseteq User
  BY DEF PruneRefreshTokens, IInv, TypeInv, TypeOK, RequestType
<1>4. TypeInv'
  BY <1>1, <1>2, <1>3, RetiringKeepsTypes DEF IInv
<1>5. Rotating' /\ OneSuccessor'
  BY <1>1, <1>2, RetiringKeepsRotations DEF IInv
<1> QED  BY <1>4, <1>5 DEF IInv

LEMMA TickKeeps == ASSUME IInv, Tick PROVE IInv'
<1>1. request \in [Request -> RequestType] /\ now \in 0..MaxTime /\ faults \in 0..MaxFaults
  BY DEF IInv, TypeInv, TypeOK, RequestType
<1>2. request' = [q \in Request |-> IF Busy(q)
                     THEN [request[q] EXCEPT !.age = request[q].age + 1] ELSE request[q]]
  BY DEF Tick
<1>3. ASSUME NEW q \in Request PROVE request'[q] \in RequestType /\ Steady(q)
  <2>1. CASE Busy(q)
    <3>1. request[q].age + 1 \in 0..MaxAge
      BY <1>1, <2>1, SessionAssumption DEF Tick, RequestType
    <3>2. request'[q] = [request[q] EXCEPT !.age = request[q].age + 1]
      BY <1>2, <2>1
    <3> QED  BY <1>1, <3>1, <3>2 DEF RequestType, Steady
  <2>2. CASE ~ Busy(q)
    BY <1>1, <1>2, <2>2 DEF Steady
  <2> QED  BY <2>1, <2>2
<1>4. request' \in [Request -> RequestType]
  BY <1>2, <1>3
<1>5. /\ now' \in 0..MaxTime /\ faults' \in 0..MaxFaults
      /\ account \subseteq account' /\ account' \subseteq User /\ Retires
  BY <1>1, NothingRetires, SessionAssumption DEF Tick, IInv, TypeInv, TypeOK
<1>6. TypeInv'
  BY <1>3, <1>4, <1>5, RetiringKeepsTypes DEF IInv
<1>7. Rotating' /\ OneSuccessor'
  BY <1>3, <1>5, RetiringKeepsRotations DEF IInv
<1> QED  BY <1>6, <1>7 DEF IInv

-----------------------------------------------------------------------------
(* Type correctness, and a token exchanged at most once.                   *)

LEMMA InitInv == Init => IInv
<1> SUFFICES ASSUME Init PROVE IInv
  OBVIOUS
<1>1. NoRow \in Row
  BY DEF NoRow, Row, Client
<1>2. NoRequest \in RequestType
  BY SessionAssumption DEF NoRequest, RequestType, Label
<1>3. TypeOK
  BY <1>1, <1>2, SessionAssumption DEF Init, TypeOK, RequestType, NoRow
<1>4. \A q \in Request : request[q].pc = "idle"
  BY DEF Init, NoRequest
<1>5. \A t \in Token : token[t].parent = None
  BY DEF Init, NoRow
<1>6. TypeInv
  BY <1>3, <1>4 DEF TypeInv, Established
<1>7. Rotating /\ OneSuccessor
  BY <1>4, <1>5 DEF Rotating, OnLiveRows, Alone, ParentsAreRetired, UnusedHasNoParent,
                    OneSuccessor, Rotates
<1> QED  BY <1>6, <1>7 DEF IInv

LEMMA NextInv == IInv /\ [Next]_vars => IInv'
<1> SUFFICES ASSUME IInv, [Next]_vars PROVE IInv'
  OBVIOUS
<1>1. ASSUME NEW q \in Request, Step(q) PROVE IInv'
  BY <1>1, ArriveKeeps, CreateUserKeeps, SignInKeeps, GetKeeps, RevokeKeeps, CreateKeeps,
     SignOutKeeps, RevokeAllKeeps, FinishKeeps, FaultKeeps, LostKeeps DEF Step
<1>2. CASE UNCHANGED vars
  BY <1>2 DEF vars, IInv, TypeInv, TypeOK, Established, Rotating, OnLiveRows, Alone,
              ParentsAreRetired, UnusedHasNoParent, OneSuccessor, Rotates
<1> QED  BY <1>1, <1>2, PruneKeeps, TickKeeps DEF Next

LEMMA Inductive == Spec => []IInv
<1> QED  BY InitInv, NextInv, PTL DEF Spec

\* Every variable of Sessions keeps its type, whatever the numbers of users,
\* tokens, requests, days and faults.
THEOREM SessionsTypeOK == Spec => []TypeOK
<1>1. IInv => TypeOK
  BY DEF IInv, TypeInv
<1> QED  BY <1>1, Inductive, PTL

\* No refresh token is exchanged twice, however many requests present it and
\* whatever is lost, replayed, signed out or pruned meanwhile (auth.Service.Refresh).
THEOREM ExchangedOnce == Spec => []OneSuccessor
<1>1. IInv => OneSuccessor
  BY DEF IInv
<1> QED  BY <1>1, Inductive, PTL

-----------------------------------------------------------------------------
(* What a step does to a row.                                              *)

Kept(t) ==
  /\ SameButState(t)
  /\ token[t].state = "unused" <=> token'[t].state = "unused"
  /\ token'[t].state = "live" => token[t].state = "live"
  /\ token[t].state \in {"revoked", "deleted"} => token'[t].state \in {"revoked", "deleted"}

Fresh(t) ==
  /\ token[t].state = "unused" /\ token'[t].state = "live"
  /\ now' = now /\ token'[t].issued = now /\ token'[t].expires = now + TTL[token'[t].client]
  /\ token'[t].parent # None =>
       /\ token'[t].parent \in Token /\ token[token'[t].parent].state = "live"
       /\ token'[t].client = token[token'[t].parent].client
       /\ token'[t].user = token[token'[t].parent].user

LEMMA RetiringKeepsRows == ASSUME TypeInv, Retires, NEW t \in Token PROVE Kept(t)
<1>1. token[t].state \in {"unused", "live", "revoked", "deleted"}
  BY DEF TypeInv, TypeOK, Row
<1> QED  BY <1>1 DEF Retires, Kept

LEMMA IssuingRows ==
  ASSUME IInv, NEW q \in Request, NEW n \in Token, Issues(q, n), now' = now, NEW t \in Token
  PROVE  (Kept(t) /\ token'[t].state \in {token[t].state, "revoked"}) \/ Fresh(t)
<1> DEFINE old == request[q].ask.token
<1>1. TypeInv /\ Rotating
  BY DEF IInv
<1> DEFINE new == token'[n]
<1>5. /\ new.state = "live" /\ new.issued = now /\ new.expires = now + TTL[new.client]
      /\ new.parent = IF Rotates(q) THEN old ELSE None
      /\ Rotates(q) => /\ new.client = token[old].client /\ new.user = token[old].user
                       /\ old \in Token \ {n}
                       /\ token'[old] = [token[old] EXCEPT !.state = "revoked"]
      /\ \A x \in Token \ {n} : (Rotates(q) /\ x = old) \/ token'[x] = token[x]
  BY <1>1, NewRow
<1>2. CASE t = n
  <2>1. Rotates(q) => token[old].state = "live"
    BY <1>1 DEF Rotating, OnLiveRows
  <2>2. token[t].state = "unused"
    BY <1>2 DEF Issues
  <2> QED  BY <1>5, <1>2, <2>1, <2>2 DEF Fresh
<1>3. CASE t # n /\ Rotates(q) /\ t = old
  <2>1. token'[t] = [token[t] EXCEPT !.state = "revoked"]
    BY <1>5, <1>3
  <2>2. token[t].state = "live"
    BY <1>1, <1>3 DEF Rotating, OnLiveRows
  <2> QED  BY <1>1, <2>1, <2>2 DEF Kept, SameButState, TypeInv, TypeOK, Row
<1>4. CASE t # n /\ ~(Rotates(q) /\ t = old)
  <2>1. token'[t] = token[t]
    BY <1>5, <1>4
  <2> QED  BY <2>1 DEF Kept, SameButState
<1> QED  BY <1>2, <1>3, <1>4

\* Every step keeps each row or inserts it; only the worker deletes.
Moves(t) ==
  /\ Kept(t) \/ Fresh(t)
  /\ token'[t].state = "deleted" =>
       token[t].state = "deleted" \/ (PruneRefreshTokens /\ Prunable(t))

LEMMA RowsMove == ASSUME IInv, [Next]_vars, NEW t \in Token PROVE Moves(t)
<1>1. TypeInv
  BY DEF IInv
<1>2. CASE UNCHANGED token
  BY <1>1, <1>2, NothingRetires, RetiringKeepsRows DEF Moves
<1>3. ASSUME NEW q \in Request, SignOut(q) PROVE Moves(t)
  <2>1. token'[t].state \in {token[t].state, "revoked"}
    BY <1>1, <1>3 DEF SignOut, TypeInv, TypeOK, Row
  <2> QED  BY <1>1, <1>3, <2>1, SignOutRetires, RetiringKeepsRows DEF Moves
<1>4. ASSUME NEW q \in Request, FinishRevocation(q) PROVE Moves(t)
  <2>1. token'[t].state \in {token[t].state, "revoked"}
    BY <1>1, <1>4 DEF FinishRevocation, TypeInv, TypeOK, Row
  <2> QED  BY <1>1, <1>4, <2>1, FinishRetires, RetiringKeepsRows DEF Moves
<1>5. ASSUME NEW q \in Request, CreateRefreshToken(q) \/ AnswerLost(q) PROVE Moves(t)
  <2>1. PICK n \in Token : Issues(q, n)
    BY <1>5 DEF CreateRefreshToken, AnswerLost, Issues
  <2>2. now' = now
    BY <1>5 DEF CreateRefreshToken, AnswerLost
  <2> QED  BY <2>1, <2>2, IssuingRows DEF Moves, Fresh
<1>6. CASE PruneRefreshTokens
  <2>1. token'[t].state = "deleted" => token[t].state = "deleted" \/ Prunable(t)
    <3>1. token' = [x \in Token |-> IF Prunable(x)
                      THEN [token[x] EXCEPT !.state = "deleted"] ELSE token[x]]
      BY <1>6 DEF PruneRefreshTokens
    <3> QED  BY <3>1
  <2> QED  BY <1>1, <1>6, <2>1, PruneRetires, RetiringKeepsRows DEF Moves
<1>7. CASE Next
  <2>1. ASSUME NEW q \in Request, Step(q) PROVE Moves(t)
    <3>1. UNCHANGED token => Moves(t)
      BY <1>2
    <3>2. \/ UNCHANGED token \/ SignOut(q) \/ FinishRevocation(q)
          \/ CreateRefreshToken(q) \/ AnswerLost(q)
      BY <2>1 DEF Step, Arrive, CreateUser, SignIn, GetRefreshTokenByHash, RevokeRefreshToken,
                  RevokeAllUserRefreshTokens, Fault
    <3> QED  BY <3>1, <3>2, <1>3, <1>4, <1>5
  <2>2. CASE Tick
    BY <1>2, <2>2 DEF Tick
  <2> QED  BY <1>6, <1>7, <2>1, <2>2 DEF Next
<1>8. CASE UNCHANGED vars
  BY <1>2, <1>8 DEF vars
<1> QED  BY <1>7, <1>8

\* A token that is revoked stays revoked, and gets no successor any more, even
\* between the read of a refresh and its UPDATE (auth.Service.Refresh, SignOut).
THEOREM RevokedForGood == Spec => RevokedStaysRevoked
<1>1. ASSUME IInv, [Next]_vars, NEW t \in Token, token[t].state \in {"revoked", "deleted"}
      PROVE  /\ token'[t].state \in {"revoked", "deleted"}
             /\ { s \in Token : token'[s].parent = t } = Successors(t)
  <2>1. token'[t].state \in {"revoked", "deleted"}
    BY <1>1, RowsMove DEF Moves, Kept, Fresh
  <2>2. ASSUME NEW s \in Token PROVE token'[s].parent = t <=> token[s].parent = t
    <3>1. CASE Kept(s)
      BY <3>1 DEF Kept, SameButState
    <3>2. CASE Fresh(s)
      <4>1. token[s].parent = None /\ t # None
        BY <1>1, <3>2, SessionAssumption DEF Fresh, IInv, Rotating, UnusedHasNoParent
      <4>2. token'[s].parent # t
        BY <1>1, <3>2, <4>1 DEF Fresh
      <4> QED  BY <4>1, <4>2
    <3> QED  BY <1>1, <3>1, <3>2, RowsMove DEF Moves
  <2> QED  BY <2>1, <2>2 DEF Successors
<1>2. IInv /\ [Next]_vars => [\A t \in Token :
        token[t].state \in {"revoked", "deleted"} =>
          /\ token'[t].state \in {"revoked", "deleted"}
          /\ { s \in Token : token'[s].parent = t } = Successors(t)]_vars
  BY <1>1
<1> QED  BY <1>2, Inductive, PTL DEF Spec, RevokedStaysRevoked

-----------------------------------------------------------------------------
(* Along a chain of rotations.                                             *)

Dates ==
  \A t \in Token : token[t].state # "unused" =>
    token[t].issued <= now /\ token[t].expires = token[t].issued + TTL[token[t].client]

LineInv == Dates /\ RotationNeverShortens

LEMMA NowMoves == ASSUME IInv, [Next]_vars PROVE now \in Nat /\ now' \in Nat /\ now <= now'
<1>1. now \in Nat
  BY SessionAssumption DEF IInv, TypeInv, TypeOK
<1>2. now' = now \/ now' = now + 1
  BY DEF Next, Step, vars, Arrive, CreateUser, SignIn, GetRefreshTokenByHash,
         RevokeRefreshToken, CreateRefreshToken, SignOut, RevokeAllUserRefreshTokens,
         FinishRevocation, Fault, AnswerLost, PruneRefreshTokens, Tick
<1> QED  BY <1>1, <1>2

LEMMA LineInvKept == IInv /\ LineInv /\ [Next]_vars => LineInv'
<1> SUFFICES ASSUME IInv, LineInv, [Next]_vars PROVE LineInv'
  OBVIOUS
<1>1. token \in [Token -> Row] /\ now \in Nat /\ now' \in Nat /\ now <= now'
  BY NowMoves DEF IInv, TypeInv, TypeOK
<1>2. Dates'
  <2> SUFFICES ASSUME NEW t \in Token, token'[t].state # "unused"
               PROVE  /\ token'[t].issued <= now'
                      /\ token'[t].expires = token'[t].issued + TTL[token'[t].client]
    BY DEF Dates
  <2>1. CASE Kept(t)
    <3>1. token[t].issued \in Nat /\ token[t].issued <= now
          /\ token[t].expires = token[t].issued + TTL[token[t].client]
      BY <1>1, <2>1 DEF Kept, LineInv, Dates, Row
    <3>2. token'[t].issued = token[t].issued /\ token'[t].expires = token[t].expires
          /\ token'[t].client = token[t].client
      BY <2>1 DEF Kept, SameButState
    <3> QED  BY <1>1, <3>1, <3>2
  <2>2. CASE Fresh(t)
    BY <1>1, <2>2 DEF Fresh
  <2> QED  BY <2>1, <2>2, RowsMove DEF Moves
<1>3. RotationNeverShortens'
  <2> SUFFICES ASSUME NEW s \in Token, token'[s].parent # None
               PROVE  /\ token'[s].client = token'[token'[s].parent].client
                      /\ token'[s].expires >= token'[token'[s].parent].expires
                      /\ token'[s].user = token'[token'[s].parent].user
    BY DEF RotationNeverShortens
  <2> DEFINE p == token'[s].parent
  <2>1. CASE Kept(s)
    <3>1. p = token[s].parent /\ p \in Token
      BY <1>1, <2>1 DEF Kept, SameButState, Row
    <3>2. /\ token[s].client = token[p].client /\ token[s].expires >= token[p].expires
          /\ token[s].user = token[p].user
      BY <3>1 DEF LineInv, RotationNeverShortens
    <3>3. token[p].state \in {"revoked", "deleted"}
      BY <3>1 DEF IInv, Rotating, ParentsAreRetired
    <3>4. Kept(p)
      BY <3>1, <3>3, RowsMove DEF Moves, Fresh
    <3> QED  BY <2>1, <3>2, <3>4 DEF Kept, SameButState
  <2>2. CASE Fresh(s)
    <3>1. /\ p \in Token /\ token[p].state = "live"
          /\ token'[s].client = token[p].client /\ token'[s].user = token[p].user
          /\ token'[s].expires = now + TTL[token'[s].client]
      BY <2>2 DEF Fresh
    <3>2. Kept(p)
      BY <3>1, RowsMove DEF Moves, Fresh
    <3>3. token[p].client \in Client /\ token[p].issued \in Nat /\ token[p].expires \in Nat
      BY <1>1, <3>1 DEF Row
    <3>4. token[p].issued <= now /\ token[p].expires = token[p].issued + TTL[token[p].client]
      BY <3>1 DEF LineInv, Dates
    <3>5. TTL[token[p].client] \in Nat
      BY <3>3, SessionAssumption
    <3>6. token'[s].expires >= token[p].expires
      BY <1>1, <3>1, <3>3, <3>4, <3>5
    <3> QED  BY <3>1, <3>2, <3>6 DEF Kept, SameButState
  <2> QED  BY <2>1, <2>2, RowsMove DEF Moves
<1> QED  BY <1>2, <1>3 DEF LineInv

\* A session keeps its owner and its client type through every rotation, and its
\* expiry never recedes: "a mobile session must not silently shorten itself".
THEOREM NeverShortened == Spec => []RotationNeverShortens
<1>1. Init => LineInv
  <2> SUFFICES ASSUME Init PROVE LineInv
    OBVIOUS
  <2>1. \A t \in Token : token[t] = NoRow
    BY DEF Init
  <2> QED  BY <2>1 DEF LineInv, Dates, RotationNeverShortens, NoRow
<1>2. LineInv => RotationNeverShortens
  BY DEF LineInv
<1> QED  BY <1>1, <1>2, LineInvKept, Inductive, PTL DEF Spec

-----------------------------------------------------------------------------
(* What a step does to a request.                                          *)

Stays(q) ==
  /\ request'[q].pc = request[q].pc /\ request'[q].ask = request[q].ask
  /\ request'[q].known = request[q].known /\ request'[q].held = request[q].held
  /\ Busy(q) => now' - request'[q].age <= now - request[q].age

Acts(q) ==
  /\ request[q].pc # "idle" /\ now' = now
  /\ request'[q].ask = request[q].ask /\ request'[q].age = request[q].age
  /\ request'[q].known = request[q].known
  /\ request'[q].pc = "rotate" =>
       LET t == request[q].ask.token IN token[t].state = "live" /\ token[t].expires >= now
  /\ request'[q].pc = "issue" /\ request[q].ask.op = "refresh" => request[q].pc = "rotate"
  /\ request'[q].pc = "revoke" =>
       token' = token /\ request'[q].held = Held(Owner(request[q].ask))

Arrives(q) ==
  /\ request'[q].ask \in Asks /\ request'[q].pc = request'[q].ask.op /\ token' = token
  /\ Presents(request'[q].ask) => token[request'[q].ask.token].state # "unused"
  /\ request'[q].known = Held(Owner(request'[q].ask))

LEMMA OneActs ==
  ASSUME IInv, NEW q \in Request, Step(q)
  PROVE  /\ Acts(q) \/ Arrives(q)
         /\ now' = now /\ \A p \in Request \ {q} : request'[p] = request[p]
<1> DEFINE Goal == /\ Acts(q) \/ Arrives(q)
                   /\ now' = now /\ \A p \in Request \ {q} : request'[p] = request[p]
<1>1. TypeInv /\ Established(q) /\ request \in [Request -> RequestType]
  BY DEF IInv, TypeInv, TypeOK, RequestType
<1>2. ASSUME NEW code \in Code, Answer(q, code), request[q].pc # "idle", now' = now PROVE Goal
  BY <1>1, <1>2, Answering DEF Acts
<1>3. CASE Arrive(q)
  <2>1. PICK ask \in Asks :
          /\ Presents(ask) => token[ask.token].state # "unused"
          /\ request' = [request EXCEPT ![q].ask = ask, ![q].pc = ask.op,
                                        ![q].known = Held(Owner(ask))]
    BY <1>3 DEF Arrive
  <2>2. /\ request'[q].ask = ask /\ request'[q].pc = ask.op
        /\ request'[q].known = Held(Owner(ask))
        /\ \A p \in Request \ {q} : request'[p] = request[p]
    BY <1>1, <2>1 DEF RequestType
  <2>3. UNCHANGED <<now, token>>
    BY <1>3 DEF Arrive
  <2> QED  BY <2>1, <2>2, <2>3 DEF Arrives
<1>4. ASSUME NEW label \in {"issue", "rotate", "replay"}, Goto(q, label), now' = now,
             request[q].pc # "idle",
             label = "issue" /\ request[q].ask.op = "refresh" => request[q].pc = "rotate",
             label = "rotate" => /\ token[request[q].ask.token].state = "live"
                                 /\ token[request[q].ask.token].expires >= now
      PROVE  Goal
  <2>1. /\ request'[q].pc = label /\ request'[q].ask = request[q].ask
        /\ request'[q].age = request[q].age /\ request'[q].known = request[q].known
        /\ \A p \in Request \ {q} : request'[p] = request[p]
    BY <1>1, <1>4, Going DEF Label
  <2> QED  BY <1>4, <2>1 DEF Acts
<1>5. CASE CreateUser(q)
  <2>1. request[q].pc = "sign_up" /\ request[q].ask.op = "sign_up" /\ now' = now
    BY <1>1, <1>5 DEF CreateUser, Established
  <2>2. (\E code \in Code : Answer(q, code)) \/ Goto(q, "issue")
    BY <1>5 DEF CreateUser, Code
  <2> QED  BY <1>2, <1>4, <2>1, <2>2
<1>6. CASE SignIn(q)
  <2>1. request[q].pc = "sign_in" /\ request[q].ask.op = "sign_in" /\ now' = now
    BY <1>1, <1>6 DEF SignIn, Established
  <2>2. (\E code \in Code : Answer(q, code)) \/ Goto(q, "issue")
    BY <1>6 DEF SignIn, Code
  <2> QED  BY <1>2, <1>4, <2>1, <2>2
<1>7. CASE GetRefreshTokenByHash(q)
  <2> DEFINE t == request[q].ask.token
  <2>1. request[q].pc = "refresh" /\ request[q].ask.op = "refresh" /\ now' = now
    BY <1>1, <1>7 DEF GetRefreshTokenByHash, Established
  <2>2. \/ Answer(q, "INVALID_TOKEN") \/ Answer(q, "TOKEN_EXPIRED") \/ Goto(q, "replay")
        \/ (Stored(t) /\ token[t].state # "revoked" /\ ~ Expired(t) /\ Goto(q, "rotate"))
    BY <1>7 DEF GetRefreshTokenByHash
  <2>3. CASE Answer(q, "INVALID_TOKEN") \/ Answer(q, "TOKEN_EXPIRED")
    BY <1>2, <2>1, <2>3 DEF Code
  <2>4. CASE Goto(q, "replay")
    BY <1>4, <2>1, <2>4
  <2>5. CASE Stored(t) /\ token[t].state # "revoked" /\ ~ Expired(t) /\ Goto(q, "rotate")
    <3>1. t \in Token
      BY <1>1, <2>1, AskFields DEF Established, Presents
    <3>2. token[t].state = "live"
      BY <2>5 DEF Stored
    <3>3. token[t].expires \in Nat /\ now \in Nat
      BY <1>1, <3>1, SessionAssumption DEF TypeInv, TypeOK, Row
    <3>4. token[t].expires >= now
      BY <2>5, <3>3 DEF Expired
    <3> QED  BY <1>4, <2>1, <2>5, <3>2, <3>4
  <2> QED  BY <2>2, <2>3, <2>4, <2>5
<1>8. CASE RevokeRefreshToken(q)
  <2>1. request[q].pc = "rotate" /\ now' = now
    BY <1>8 DEF RevokeRefreshToken
  <2>2. (\E code \in Code : Answer(q, code)) \/ Goto(q, "issue")
    BY <1>8 DEF RevokeRefreshToken, Code
  <2> QED  BY <1>2, <1>4, <2>1, <2>2
<1>9. CASE RevokeAllUserRefreshTokens(q)
  <2>1. /\ request'[q].pc = "revoke" /\ request'[q].ask = request[q].ask
        /\ request'[q].age = request[q].age /\ request'[q].known = request[q].known
        /\ request'[q].held = Held(Owner(request[q].ask))
        /\ \A p \in Request \ {q} : request'[p] = request[p]
    BY <1>1, <1>9 DEF RevokeAllUserRefreshTokens, RequestType
  <2>2. request[q].pc # "idle" /\ UNCHANGED <<now, token>>
    BY <1>9 DEF RevokeAllUserRefreshTokens
  <2> QED  BY <2>1, <2>2 DEF Acts
<1>10. CASE CreateRefreshToken(q) \/ SignOut(q) \/ FinishRevocation(q) \/ Fault(q) \/ AnswerLost(q)
  <2>1. request[q].pc # "idle" /\ now' = now /\ \E code \in Code : Answer(q, code)
    BY <1>10 DEF CreateRefreshToken, SignOut, FinishRevocation, Fault, AnswerLost, Busy, Code
  <2> QED  BY <1>2, <2>1
<1>11. Goal
  BY <1>3, <1>5, <1>6, <1>7, <1>8, <1>9, <1>10 DEF Step
<1> QED  BY <1>11

LEMMA RequestsMove ==
  ASSUME IInv, [Next]_vars, NEW q \in Request
  PROVE  Stays(q) \/ Acts(q) \/ Arrives(q)
<1>1. request \in [Request -> RequestType] /\ now \in Nat
  BY SessionAssumption DEF IInv, TypeInv, TypeOK, RequestType
<1>2. request[q].age \in Nat
  BY <1>1, SessionAssumption DEF RequestType
<1>3. CASE request'[q] = request[q] /\ now' = now
  BY <1>1, <1>2, <1>3 DEF Stays
<1>4. ASSUME NEW p \in Request, Step(p) PROVE Stays(q) \/ Acts(q) \/ Arrives(q)
  <2>1. /\ Acts(p) \/ Arrives(p)
        /\ now' = now /\ \A r \in Request \ {p} : request'[r] = request[r]
    BY <1>4, OneActs
  <2> QED  BY <1>3, <2>1
<1>5. CASE Tick
  <2>1. now' = now + 1
    BY <1>5 DEF Tick
  <2>2. CASE Busy(q)
    <3>1. request'[q] = [request[q] EXCEPT !.age = request[q].age + 1]
      BY <1>5, <2>2 DEF Tick
    <3> QED  BY <1>1, <1>2, <2>1, <3>1 DEF Stays, RequestType
  <2>3. CASE ~ Busy(q)
    <3>1. request'[q] = request[q]
      BY <1>5, <2>3 DEF Tick
    <3> QED  BY <2>3, <3>1 DEF Stays
  <2> QED  BY <2>2, <2>3
<1>6. CASE PruneRefreshTokens \/ UNCHANGED vars
  BY <1>3, <1>6 DEF PruneRefreshTokens, vars
<1> QED  BY <1>4, <1>5, <1>6 DEF Next

-----------------------------------------------------------------------------
(* The worker spares the tokens in use.                                    *)

Using(q) == request[q].pc = "rotate" \/ Rotates(q)

\* A request that rotates has read its row as unexpired since it arrived.
InUse ==
  \A q \in Request : Using(q) =>
    LET row == token[request[q].ask.token] IN
    row.state # "deleted" /\ row.expires >= now - request[q].age

LEMMA UsingNames ==
  ASSUME TypeInv, NEW q \in Request, Using(q)
  PROVE  request[q].ask.token \in Token /\ Busy(q)
         /\ token[request[q].ask.token].state # "unused"
  BY AskFields DEF TypeInv, Established, Using, Rotates, Presents, Busy

LEMMA InUseKept == IInv /\ InUse /\ [Next]_vars => InUse'
<1> SUFFICES ASSUME IInv, InUse, [Next]_vars, NEW q \in Request, Using(q)'
             PROVE  LET row == token'[request'[q].ask.token] IN
                    row.state # "deleted" /\ row.expires >= now' - request'[q].age
  BY DEF InUse
<1> DEFINE t == request'[q].ask.token
<1>1. TypeInv /\ TypeInv' /\ now \in Nat /\ now' \in Nat
  BY NextInv, NowMoves DEF IInv
<1>2. t \in Token
  <2>1. /\ request'[q].ask \in Asks /\ Presents(request'[q].ask)
    BY <1>1 DEF TypeInv, Established, Using, Rotates, Presents
  <2> QED  BY <2>1, AskFields
<1>3. request[q].age \in 0..MaxAge /\ request'[q].age \in 0..MaxAge
  BY <1>1 DEF TypeInv, TypeOK
<1>4. token[t].expires \in Nat
  BY <1>1, <1>2 DEF TypeInv, TypeOK, Row
<1>5. /\ token[t].state \notin {"deleted", "unused"} /\ token[t].expires >= now' - request'[q].age
      /\ (Using(q) /\ token[t].expires >= now - request[q].age) \/ ~ PruneRefreshTokens
  <2>1. CASE Stays(q)
    <3>1. Using(q) /\ t = request[q].ask.token
      BY <2>1 DEF Stays, Using, Rotates
    <3>2. Busy(q) /\ token[t].state # "unused"
      BY <1>1, <3>1, UsingNames
    <3>3. token[t].state # "deleted" /\ token[t].expires >= now - request[q].age
      BY <3>1 DEF InUse
    <3>4. now' - request'[q].age <= now - request[q].age
      BY <2>1, <3>2 DEF Stays
    <3> QED  BY <1>1, <1>3, <1>4, <3>1, <3>2, <3>3, <3>4
  <2>2. CASE Acts(q) /\ request'[q].pc = "rotate"
    <3>1. t = request[q].ask.token /\ token[t].state = "live" /\ token[t].expires >= now
          /\ now' = now
      BY <2>2 DEF Acts
    <3>2. ~ PruneRefreshTokens \/ Using(q)
      BY <2>2 DEF PruneRefreshTokens, Using
    <3> QED  BY <1>1, <1>3, <1>4, <3>1, <3>2
  <2>3. CASE Acts(q) /\ request'[q].pc # "rotate"
    <3>1. request'[q].pc = "issue" /\ request'[q].ask.op = "refresh"
      BY <2>3 DEF Using, Rotates
    <3>2. Using(q) /\ t = request[q].ask.token /\ now' = now /\ request'[q].age = request[q].age
      BY <2>3, <3>1 DEF Acts, Using
    <3>3. token[t].state \notin {"deleted", "unused"} /\ token[t].expires >= now - request[q].age
      BY <1>1, <3>2, UsingNames DEF InUse
    <3> QED  BY <3>2, <3>3
  <2>4. CASE Arrives(q)
    <3>1. request'[q].ask.op \in {"sign_up", "sign_in", "refresh", "sign_out", "everywhere"}
      BY <2>4, AskFields DEF Arrives
    <3> QED  BY <2>4, <3>1 DEF Arrives, Using, Rotates
  <2> QED  BY <2>1, <2>2, <2>3, <2>4, RequestsMove
<1>6. ~(PruneRefreshTokens /\ Prunable(t))
  <2> SUFFICES ASSUME PruneRefreshTokens, Prunable(t) PROVE FALSE
    OBVIOUS
  <2>1. token[t].expires >= now - request[q].age
    BY <1>5
  <2>2. token[t].expires < now - Grace
    BY DEF Prunable
  <2> QED  BY <1>1, <1>3, <1>4, <2>1, <2>2, SessionAssumption
<1>7. Kept(t) /\ token'[t].state # "deleted"
  BY <1>2, <1>5, <1>6, RowsMove DEF Moves, Fresh
<1> QED  BY <1>5, <1>7 DEF Kept, SameButState

\* The worker never deletes the row of a refresh in progress, whatever the grace
\* period, provided it is no shorter than the time a request may take.
THEOREM PruneSpares == Spec => []PruneSparesTokensInUse
<1>1. Init => InUse
  BY DEF Init, InUse, Using, Rotates, NoRequest
<1>2. InUse => PruneSparesTokensInUse
  BY DEF InUse, PruneSparesTokensInUse, Using, Rotates
<1> QED  BY <1>1, <1>2, InUseKept, Inductive, PTL DEF Spec

-----------------------------------------------------------------------------
(* A revocation reaches every token its request has known.                 *)

\* The tokens a request has known are its user's, and those that are still live
\* when it has taken its snapshot are in it.
Reach ==
  \A q \in Request : request[q].pc # "idle" =>
    \A t \in request[q].known :
      /\ t \in Token /\ token[t].state # "unused" /\ token[t].user = Owner(request[q].ask)
      /\ request[q].pc = "revoke" /\ token[t].state = "live" => t \in request[q].held

\* The owner that an ask has after the step.
OwnerAfter(ask) == IF Presents(ask) THEN token'[ask.token].user ELSE ask.user

LEMMA OwnerKept ==
  ASSUME IInv, [Next]_vars, NEW ask \in Asks,
         Presents(ask) => token[ask.token].state # "unused"
  PROVE  OwnerAfter(ask) = Owner(ask)
<1>1. CASE Presents(ask)
  <2>1. ask.token \in Token
    BY <1>1, AskFields
  <2>2. Kept(ask.token)
    BY <1>1, <2>1, RowsMove DEF Moves, Fresh
  <2>3. token'[ask.token].user = token[ask.token].user
    BY <2>2 DEF Kept, SameButState
  <2> QED  BY <1>1, <2>3 DEF Owner, OwnerAfter
<1>2. CASE ~ Presents(ask)
  BY <1>2 DEF Owner, OwnerAfter
<1> QED  BY <1>1, <1>2

LEMMA ReachKept == IInv /\ Reach /\ [Next]_vars => Reach'
<1> SUFFICES ASSUME IInv, Reach, [Next]_vars, NEW q \in Request, request'[q].pc # "idle",
                    NEW t \in request'[q].known
             PROVE  /\ t \in Token /\ token'[t].state # "unused"
                    /\ token'[t].user = OwnerAfter(request'[q].ask)
                    /\ request'[q].pc = "revoke" /\ token'[t].state = "live"
                         => t \in request'[q].held
  BY DEF Reach, Owner, OwnerAfter, Presents
<1>1. CASE Stays(q) \/ Acts(q)
  <2>1. /\ request[q].pc # "idle" /\ t \in request[q].known /\ request'[q].ask = request[q].ask
    BY <1>1 DEF Stays, Acts
  <2>2. t \in Token /\ token[t].state # "unused" /\ token[t].user = Owner(request[q].ask)
    BY <2>1 DEF Reach
  <2>3. Kept(t)
    BY <2>2, RowsMove DEF Moves, Fresh
  <2>4. token'[t].state # "unused" /\ token'[t].user = token[t].user
        /\ (token'[t].state = "live" => token[t].state = "live")
    BY <2>2, <2>3 DEF Kept, SameButState
  <2>5. /\ request[q].ask \in Asks
        /\ Presents(request[q].ask) => token[request[q].ask.token].state # "unused"
    BY <2>1 DEF IInv, TypeInv, Established
  <2>6. OwnerAfter(request[q].ask) = Owner(request[q].ask)
    BY <2>5, OwnerKept
  <2>7. OwnerAfter(request'[q].ask) = Owner(request[q].ask)
    BY <2>1, <2>6
  <2>8. ASSUME request'[q].pc = "revoke", token'[t].state = "live"
        PROVE  t \in request'[q].held
    <3>1. CASE Stays(q)
      BY <2>1, <2>4, <2>8, <3>1 DEF Stays, Reach
    <3>2. CASE Acts(q)
      BY <2>2, <2>4, <2>8, <3>2 DEF Acts, Held
    <3> QED  BY <1>1, <3>1, <3>2
  <2> QED  BY <2>2, <2>4, <2>7, <2>8
<1>2. CASE Arrives(q)
  <2>1. t \in Held(Owner(request'[q].ask)) /\ token' = token
    BY <1>2 DEF Arrives
  <2>2. t \in Token /\ token[t].state = "live" /\ token[t].user = Owner(request'[q].ask)
    BY <2>1 DEF Held
  <2>3. OwnerAfter(request'[q].ask) = Owner(request'[q].ask)
    BY <2>1 DEF Owner, OwnerAfter
  <2>4. request'[q].pc # "revoke"
    BY <1>2, AskFields DEF Arrives
  <2> QED  BY <2>1, <2>2, <2>3, <2>4
<1> QED  BY <1>1, <1>2, RequestsMove

\* Only the revocation itself answers such a request with one of these codes.
LEMMA OnlyTheRevocationFinishes ==
  ASSUME IInv, [Next]_vars, NEW q \in Request,
         Finishes(q, {"OK", "INVALID_TOKEN"}), request[q].pc \in {"replay", "revoke"}
  PROVE  FinishRevocation(q)
<1>1. request \in [Request -> RequestType]
  BY DEF IInv, TypeInv, TypeOK, RequestType
<1>2. ASSUME NEW p \in Request, Step(p) PROVE FinishRevocation(q)
  <2>1. p = q
    BY <1>2, OneActs DEF Finishes
  <2>2. ~ Fault(q)
    BY <1>1 DEF Finishes, Fault, Answer, RequestType
  <2>3. ~ RevokeAllUserRefreshTokens(q)
    BY <1>1 DEF Finishes, RevokeAllUserRefreshTokens, RequestType
  <2> QED  BY <1>2, <2>1, <2>2, <2>3 DEF Step, Arrive, CreateUser, SignIn,
       GetRefreshTokenByHash, RevokeRefreshToken, CreateRefreshToken, SignOut, AnswerLost
<1>3. CASE Tick
  BY <1>1, <1>3 DEF Tick, Finishes, RequestType
<1>4. CASE PruneRefreshTokens \/ UNCHANGED vars
  BY <1>4 DEF PruneRefreshTokens, vars, Finishes
<1> QED  BY <1>2, <1>3, <1>4 DEF Next

\* A replay, or a sign-out everywhere, that is answered has ended every session
\* the user held when the request arrived (auth.Service.Refresh, SignOutEverywhere).
THEOREM RevocationReaches == Spec => RevocationReachesAllKnown
<1>1. Init => Reach
  BY DEF Init, Reach, NoRequest
<1>2. ASSUME IInv, Reach, [Next]_vars, NEW q \in Request,
             Finishes(q, {"OK", "INVALID_TOKEN"}), request[q].pc \in {"replay", "revoke"},
             NEW t \in request[q].known
      PROVE  token'[t].state # "live"
  <2>1. FinishRevocation(q)
    BY <1>2, OnlyTheRevocationFinishes
  <2>2. t \in Token /\ (token[t].state = "live" => t \in request[q].held)
    BY <1>2, <2>1 DEF Reach, FinishRevocation
  <2>3. token' = [x \in Token |-> IF x \in request[q].held /\ token[x].state = "live"
                                  THEN [token[x] EXCEPT !.state = "revoked"] ELSE token[x]]
    BY <2>1 DEF FinishRevocation, RevokesAll
  <2> QED  BY <2>2, <2>3 DEF IInv, TypeInv, TypeOK, Row
<1>3. IInv /\ Reach /\ [Next]_vars => [\A q \in Request :
        /\ Finishes(q, {"OK", "INVALID_TOKEN"})
        /\ request[q].pc \in {"replay", "revoke"}
        => \A t \in request[q].known : token'[t].state # "live"]_vars
  BY <1>2
<1> QED  BY <1>1, <1>3, ReachKept, Inductive, PTL DEF Spec, RevocationReachesAllKnown
=============================================================================
