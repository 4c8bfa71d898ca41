------------------------------ MODULE Sessions ------------------------------
(***************************************************************************)
(* Sessions and refresh tokens (auth.Service, cmd/worker).  A request is a *)
(* process with one step per statement.  A rotation is a transaction: its  *)
(* guarded UPDATE locks the presented token's row, and its INSERT commits  *)
(* with it.  Revoking all of a user's tokens is one statement, but it acts *)
(* on the rows of the snapshot it took, after waiting for their locks.     *)
(* A token is the row and the opaque string it is found by; hashing and    *)
(* signing are left out.  Time is counted in days.                         *)
(***************************************************************************)
EXTENDS Integers

CONSTANTS User, Token, Request,
          Asks,     \* what the requests may ask for
          TTL,      \* refreshTTLWeb and refreshTTLMob, [Client -> days]
          Grace,    \* how long an expired row is kept
          MaxAge,   \* no request takes longer: the router's timeout
          MaxTime,  \* bound on the clock
          MaxFaults,\* bound on statements that fail
          None      \* NULL

Client == {"web", "mobile"}

Ask == [ op : {"sign_up", "sign_in", "refresh", "sign_out", "everywhere"},
         user : User, token : Token \cup {None}, client : Client, correct : BOOLEAN ]

Presents(ask) == ask.op \in {"refresh", "sign_out"}

ASSUME SessionAssumption ==
  /\ Asks \subseteq Ask
  /\ \A ask \in Asks : Presents(ask) => ask.token \in Token
  /\ TTL \in [Client -> Nat]
  /\ Grace \in Nat /\ MaxAge \in Nat /\ MaxTime \in Nat /\ MaxFaults \in Nat
  /\ MaxAge <= Grace
  /\ None \notin User /\ None \notin Token /\ None \notin Ask

VARIABLES
  now, faults,
  account, \* users that have signed up
  token,   \* the table refresh_tokens
  request

vars == <<now, faults, account, token, request>>

Row == [ state : {"unused", "live", "revoked", "deleted"}, user : User \cup {None},
         client : Client, issued : Nat, expires : Nat, parent : Token \cup {None} ]

NoRow == [ state |-> "unused", user |-> None, client |-> "web", issued |-> 0,
           expires |-> 0, parent |-> None ]

Stored(t) == token[t].state \in {"live", "revoked"}

\* time.Now().After(stored.ExpiresAt)
Expired(t) == now > token[t].expires

Held(u) == { t \in Token : token[t].state = "live" /\ token[t].user = u }

-----------------------------------------------------------------------------
(* held and all are what a statement's snapshot shows, taken when it runs; *)
(* `known' is history: the tokens the user held when the request arrived.  *)

NoRequest == [ pc |-> "idle", ask |-> None, age |-> 0, held |-> {}, known |-> {},
               answer |-> None ]

Goto(q, label) == request' = [request EXCEPT ![q].pc = label]

Answer(q, code) ==
  request' = [request EXCEPT ![q].pc = "done", ![q].answer = code]

Busy(q) == request[q].pc \notin {"idle", "done"}

\* The row a rotation in progress has updated and not yet committed.
Locked(t) == \E q \in Request :
  request[q].pc = "issue" /\ request[q].ask.op = "refresh" /\ request[q].ask.token = t

Owner(ask) ==
  IF Presents(ask) THEN token[ask.token].user ELSE ask.user

Arrive(q) ==
  /\ request[q].pc = "idle"
  /\ \E ask \in Asks :
       /\ Presents(ask) => token[ask.token].state # "unused"
       /\ ask.op = "everywhere" => ask.user \in account
       /\ request' = [request EXCEPT ![q].ask = ask, ![q].pc = ask.op,
                                     ![q].known = Held(Owner(ask))]
  /\ UNCHANGED <<now, faults, account, token>>

-----------------------------------------------------------------------------

\* The unique index on the address decides.  From here on the account exists,
\* whatever becomes of the session.
CreateUser(q) ==
  LET ask == request[q].ask IN
  /\ request[q].pc = "sign_up"
  /\ \/ ask.user \in account /\ Answer(q, "EMAIL_TAKEN") /\ UNCHANGED account
     \/ /\ ask.user \notin account
        /\ account' = account \cup {ask.user}
        /\ Goto(q, "issue")
  /\ UNCHANGED <<now, faults, token>>

SignIn(q) ==
  LET ask == request[q].ask IN
  /\ request[q].pc = "sign_in"
  /\ \/ /\ ask.user \notin account \/ ~ask.correct
        /\ Answer(q, "INVALID_CREDENTIALS")
     \/ ask.user \in account /\ ask.correct /\ Goto(q, "issue")
  /\ UNCHANGED <<now, faults, account, token>>

\* The read of Refresh, outside its transaction, and the checks made on it.
GetRefreshTokenByHash(q) ==
  LET t == request[q].ask.token IN
  /\ request[q].pc = "refresh"
  /\ IF ~Stored(t) THEN Answer(q, "INVALID_TOKEN")
     ELSE IF token[t].state = "revoked" THEN Goto(q, "replay")
     ELSE IF Expired(t) THEN Answer(q, "TOKEN_EXPIRED")
     ELSE Goto(q, "rotate")
  /\ UNCHANGED <<now, faults, account, token>>

\* Mutant: the UPDATE is not guarded on revoked_at IS NULL.
RevokeUnguarded(q) ==
  /\ request[q].pc = "rotate" /\ ~Locked(request[q].ask.token)
  /\ \/ Stored(request[q].ask.token) /\ Goto(q, "issue")
     \/ ~Stored(request[q].ask.token) /\ Answer(q, "INVALID_TOKEN")
  /\ UNCHANGED <<now, faults, account, token>>

\* The guarded UPDATE: it waits for the row, then looks at it again.
RevokeRefreshToken(q) ==
  LET t == request[q].ask.token IN
  /\ request[q].pc = "rotate" /\ ~Locked(t)
  /\ \/ token[t].state = "live" /\ Goto(q, "issue")
     \/ token[t].state # "live" /\ Answer(q, "INVALID_TOKEN")
  /\ UNCHANGED <<now, faults, account, token>>

\* Mutant: the client type comes from the request, or defaults to web.
ClientAsked(q) == request[q].ask.client

\* The replacement keeps the client type of the token it replaces.
ClientFor(q) ==
  IF request[q].ask.op = "refresh" THEN token[request[q].ask.token].client
  ELSE request[q].ask.client

\* The table after q has inserted its new token t, for a refresh together with
\* the revocation of the old one.
Issued(q, t) ==
  LET ask == request[q].ask
      fresh == [ state |-> "live", user |-> Owner(ask), client |-> ClientFor(q),
                 issued |-> now, expires |-> now + TTL[ClientFor(q)],
                 parent |-> IF ask.op = "refresh" THEN ask.token ELSE None ]
  IN IF ask.op = "refresh"
     THEN [token EXCEPT ![ask.token].state = "revoked", ![t] = fresh]
     ELSE [token EXCEPT ![t] = fresh]

\* The INSERT of the new token and, for a refresh, the COMMIT.  An identity in
\* Token is used once: Token bounds the tokens ever issued.
CreateRefreshToken(q) ==
  /\ request[q].pc = "issue"
  /\ \E t \in Token : token[t].state = "unused" /\ token' = Issued(q, t)
  /\ Answer(q, "OK")
  /\ UNCHANGED <<now, faults, account>>

-----------------------------------------------------------------------------

\* One guarded UPDATE by hash; a token nobody holds any more is a clean result.
SignOut(q) ==
  LET t == request[q].ask.token IN
  /\ request[q].pc = "sign_out" /\ ~Locked(t)
  /\ token' = IF token[t].state = "live"
              THEN [token EXCEPT ![t].state = "revoked"] ELSE token
  /\ Answer(q, "OK")
  /\ UNCHANGED <<now, faults, account>>

\* UPDATE ... WHERE user_id AND revoked_at IS NULL: the rows it will act on.
RevokeAllUserRefreshTokens(q) ==
  /\ request[q].pc \in {"replay", "everywhere"}
  /\ request' = [request EXCEPT ![q].pc = "revoke",
                                ![q].held = Held(Owner(request[q].ask))]
  /\ UNCHANGED <<now, faults, account, token>>

\* Mutant: only the presented token is revoked.
RevokesPresented(q) == { request[q].ask.token }

RevokesAll(q) == request[q].held

\* It waits for the locked ones and skips those that are revoked by then.
FinishRevocation(q) ==
  /\ request[q].pc = "revoke"
  /\ \A t \in request[q].held : ~Locked(t)
  /\ token' = [t \in Token |-> IF t \in RevokesAll(q) /\ token[t].state = "live"
                               THEN [token[t] EXCEPT !.state = "revoked"] ELSE token[t]]
  /\ Answer(q, IF request[q].ask.op = "refresh" THEN "INVALID_TOKEN" ELSE "OK")
  /\ UNCHANGED <<now, faults, account>>

\* A statement fails: the transaction rolls back, the caller sees a 500.
Fault(q) ==
  /\ Busy(q) /\ faults < MaxFaults
  /\ faults' = faults + 1
  /\ Answer(q, "INTERNAL")
  /\ UNCHANGED <<now, account, token>>

\* COMMIT takes effect, its answer does not arrive.
AnswerLost(q) ==
  /\ request[q].pc = "issue" /\ faults < MaxFaults
  /\ \E t \in Token : token[t].state = "unused" /\ token' = Issued(q, t)
  /\ faults' = faults + 1
  /\ Answer(q, "INTERNAL")
  /\ UNCHANGED <<now, account>>

-----------------------------------------------------------------------------

\* Mutant: no grace.
PrunableAtOnce(t) == Stored(t) /\ token[t].expires < now

Prunable(t) == Stored(t) /\ token[t].expires < now - Grace

\* The worker's DELETE, at start-up and on every tick.
PruneRefreshTokens ==
  /\ \E t \in Token : Prunable(t)
  /\ \A t \in Token : Prunable(t) => ~Locked(t)
  /\ token' = [t \in Token |-> IF Prunable(t)
                THEN [token[t] EXCEPT !.state = "deleted"] ELSE token[t]]
  /\ UNCHANGED <<now, faults, account, request>>

\* A day passes; no request outlives the router's timeout.
Tick ==
  /\ now < MaxTime
  /\ \A q \in Request : Busy(q) => request[q].age < MaxAge
  /\ now' = now + 1
  /\ request' = [q \in Request |-> IF Busy(q)
                   THEN [request[q] EXCEPT !.age = @ + 1] ELSE request[q]]
  /\ UNCHANGED <<faults, account, token>>

-----------------------------------------------------------------------------

Init ==
  /\ now = 0 /\ faults = 0
  /\ account = {}
  /\ token = [t \in Token |-> NoRow]
  /\ request = [q \in Request |-> NoRequest]

Step(q) ==
  \/ Arrive(q) \/ CreateUser(q) \/ SignIn(q)
  \/ GetRefreshTokenByHash(q) \/ RevokeRefreshToken(q) \/ CreateRefreshToken(q)
  \/ SignOut(q) \/ RevokeAllUserRefreshTokens(q) \/ FinishRevocation(q)
  \/ Fault(q) \/ AnswerLost(q)

Next == (\E q \in Request : Step(q)) \/ PruneRefreshTokens \/ Tick

Spec == Init /\ [][Next]_vars

-----------------------------------------------------------------------------
(* Properties.                                                             *)

Label == {"idle", "sign_up", "sign_in", "refresh", "rotate", "issue", "sign_out",
          "everywhere", "replay", "revoke", "done"}

Code == {"OK", "EMAIL_TAKEN", "INVALID_CREDENTIALS", "INVALID_TOKEN", "TOKEN_EXPIRED",
         "INTERNAL"}

\* Every variable holds a value of its kind, and a stored token has an owner.
TypeOK ==
  /\ now \in 0..MaxTime /\ faults \in 0..MaxFaults
  /\ account \subseteq User
  /\ token \in [Token -> Row]
  /\ \A t \in Token : token[t].state # "unused" => token[t].user \in account
  /\ request \in [Request ->
       [ pc : Label, ask : Asks \cup {None}, age : 0..MaxAge, held : SUBSET Token,
         known : SUBSET Token, answer : Code \cup {None} ]]

Successors(t) == { s \in Token : token[s].parent = t }

\* A refresh token is exchanged at most once, however many requests present it
\* at the same time, and whatever is lost or signed out meanwhile.
OneSuccessor ==
  \A r, s \in Token : token[r].parent # None /\ token[r].parent = token[s].parent => r = s

\* A token has a successor only because it was live when it was exchanged: one
\* that was signed out or revoked, even between the read of a refresh and its
\* UPDATE, is never rotated, and none ever comes back to life.
RevokedStaysRevoked ==
  [][\A t \in Token :
       token[t].state \in {"revoked", "deleted"} =>
         /\ token'[t].state \in {"revoked", "deleted"}
         /\ { s \in Token : token'[s].parent = t } = Successors(t)]_vars

Finishes(q, codes) ==
  request[q].pc # "done" /\ request'[q].pc = "done" /\ request'[q].answer \in codes

\* A replay, or a sign-out everywhere, that is answered has ended every session
\* the user held when the request arrived ("Replaying a consumed token has to
\* persist the revocation of the whole family").
RevocationReachesAllKnown ==
  [][\A q \in Request :
       /\ Finishes(q, {"OK", "INVALID_TOKEN"})
       /\ request[q].pc \in {"replay", "revoke"}
       => \A t \in request[q].known : token'[t].state # "live"]_vars

\* A refresh in progress never loses its token to the worker: the row it has
\* read as unexpired outlasts the request.
PruneSparesTokensInUse ==
  \A q \in Request :
    request[q].pc = "rotate" \/ (request[q].pc = "issue" /\ request[q].ask.op = "refresh")
      => token[request[q].ask.token].state # "deleted"

\* "A mobile session must not silently shorten itself to the web TTL": along a
\* chain of rotations the client stays the same and the expiry never recedes.
RotationNeverShortens ==
  \A s \in Token : LET p == token[s].parent IN
    p # None => /\ token[s].client = token[p].client
                /\ token[s].expires >= token[p].expires
                /\ token[s].user = token[p].user
=============================================================================
