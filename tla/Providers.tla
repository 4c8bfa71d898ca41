----------------------------- MODULE Providers -----------------------------
(***************************************************************************)
(* Onboarding a provider (tenant/service.go, CreateProvider): a slug is    *)
(* looked for outside the transaction that inserts the provider, its owner *)
(* and its categories.  Categories are deleted meanwhile.  What two        *)
(* transactions share in Postgres is a unique index on slugs, on which the *)
(* second waits for the end of the first, and the lock that a foreign key  *)
(* takes on the row it refers to.                                          *)
(***************************************************************************)
EXTENDS Naturals, Sequences, FiniteSets

CONSTANTS Category, User, Request,
          Asks,      \* what the requests may ask for
          Nth,       \* the slugs derived from each name: "wash", "wash-2", ...
          MaxFaults, \* bound: statements and commits that fail
          None

Slug == UNION { { Nth[name][n] : n \in 1 .. Len(Nth[name]) } : name \in DOMAIN Nth }

Reply == {"created", "invalid", "conflict", "exhausted", "internal"}

\* A slug is asked for, or None; its text may have no letter or digit: "".
ProvidersAssumption ==
  /\ \A name \in DOMAIN Nth : Len(Nth[name]) > 0
  /\ \A ask \in Asks : /\ ask.slug \in Slug \cup {None, ""}
                       /\ ask.name \in DOMAIN Nth
                       /\ ask.owner \in User \cup {None}
                       /\ ask.categories \in Seq(Category)
  /\ None \notin Slug \cup User \cup Reply
  /\ None \notin [ slug : Slug, owner : User \cup {None}, categories : SUBSET Category ]
  /\ MaxFaults \in Nat

VARIABLES
  provider, \* the committed rows: slug, owner and categories, by the request they are of
  category, \* the categories there are
  request,
  faults,
  raced     \* history: the slugs inserted since each request chose its own

vars == <<provider, category, request, faults, raced>>

Providers == { q \in Request : provider[q] # None }

SlugExists(slug) == \E q \in Providers : provider[q].slug = slug

-----------------------------------------------------------------------------

NoRequest == [ pc |-> "idle", ask |-> None, attempt |-> 1, slug |-> None, row |-> None,
               left |-> <<>>, answer |-> None ]

Arrive(q) ==
  /\ request[q].pc = "idle"
  /\ \E ask \in Asks :
       request' = [request EXCEPT ![q].ask = ask, ![q].left = ask.categories,
                                  ![q].pc = "resolve"]
  /\ UNCHANGED <<provider, category, faults, raced>>

At(q, label) == request[q].pc = label

Answer(q, reply) ==
  request' = [request EXCEPT ![q].pc = "done", ![q].answer = reply, ![q].row = None]

\* resolveSlug: the caller's slug as it is...
Requested(q) ==
  LET slug == request[q].ask.slug IN
  /\ At(q, "resolve") /\ slug # None
  /\ IF slug = "" THEN Answer(q, "invalid")
     ELSE request' = [request EXCEPT ![q].slug = slug, ![q].pc = "insert"]
  /\ UNCHANGED <<provider, category, faults, raced>>

\* Mutant: the search sees the providers that are being inserted, not those there are.
TakenInFlight(slug) == \E q \in Request : request[q].row # None /\ request[q].row.slug = slug

Taken(slug) == SlugExists(slug)

\* ...or the first of a bounded number of derived ones that no provider has.
SlugFree(q) ==
  LET candidates == Nth[request[q].ask.name]
      n == request[q].attempt IN
  /\ At(q, "resolve") /\ request[q].ask.slug = None
  /\ \/ n > Len(candidates) /\ Answer(q, "exhausted") /\ UNCHANGED raced
     \/ /\ n <= Len(candidates) /\ Taken(candidates[n])
        /\ request' = [request EXCEPT ![q].attempt = n + 1]
        /\ UNCHANGED raced
     \/ /\ n <= Len(candidates) /\ ~ Taken(candidates[n])
        /\ request' = [request EXCEPT ![q].slug = candidates[n], ![q].pc = "insert"]
        /\ raced' = [raced EXCEPT ![q] = {}]
  /\ UNCHANGED <<provider, category, faults>>

-----------------------------------------------------------------------------
(* The transaction: `row' is what it has inserted so far.                  *)

\* Another transaction has inserted the slug and has not ended.
Waits(q) == \E p \in Request \ {q} :
  request[p].row # None /\ request[p].row.slug = request[q].slug

CreateProvider(q) ==
  /\ At(q, "insert") /\ ~ Waits(q)
  /\ \/ SlugExists(request[q].slug) /\ Answer(q, "conflict")
     \/ /\ ~ SlugExists(request[q].slug)
        /\ request' = [request EXCEPT ![q].pc = "member",
             ![q].row = [ slug |-> request[q].slug, owner |-> None, categories |-> {} ]]
  /\ UNCHANGED <<provider, category, faults, raced>>

AddMember(q) ==
  /\ At(q, "member")
  /\ request' = [request EXCEPT ![q].row.owner = request[q].ask.owner, ![q].pc = "categories"]
  /\ UNCHANGED <<provider, category, faults, raced>>

\* A category that does not exist ends the transaction; one named twice is inserted once.
AddProviderCategory(q) ==
  LET c == Head(request[q].left) IN
  /\ At(q, "categories") /\ request[q].left # <<>>
  /\ \/ c \notin category /\ Answer(q, "invalid")
     \/ /\ c \in category
        /\ request' = [request EXCEPT ![q].row.categories = @ \cup {c}, ![q].left = Tail(@)]
  /\ UNCHANGED <<provider, category, faults, raced>>

Commit(q) ==
  /\ At(q, "categories") /\ request[q].left = <<>>
  /\ provider' = [provider EXCEPT ![q] = request[q].row]
  /\ raced' = [ p \in Request |-> raced[p] \cup {request[q].row.slug} ]
  /\ Answer(q, "created")
  /\ UNCHANGED <<category, faults>>

\* Mutant: a failed transaction is left open.
LeftOpen(q) == request' = [request EXCEPT ![q].pc = "done", ![q].answer = "internal"]

Rollback(q) == Answer(q, "internal")

\* A statement fails, or the connection is lost before the commit: InTx rolls back.
Fault(q) ==
  /\ request[q].pc \in {"resolve", "insert", "member", "categories"}
  /\ faults < MaxFaults
  /\ faults' = faults + 1
  /\ Rollback(q)
  /\ UNCHANGED <<provider, category, raced>>

\* The commit is done and its answer is lost: the caller is told that it failed.
AnswerLost(q) ==
  /\ At(q, "categories") /\ request[q].left = <<>>
  /\ faults < MaxFaults
  /\ faults' = faults + 1
  /\ provider' = [provider EXCEPT ![q] = request[q].row]
  /\ raced' = [ p \in Request |-> raced[p] \cup {request[q].row.slug} ]
  /\ Answer(q, "internal")
  /\ UNCHANGED category

\* The DELETE of a category waits for the transactions that refer to it.
Deletable(c) == \A q \in Request : request[q].row # None => c \notin request[q].row.categories

\* Rows of provider_categories go with their category.
DeleteCategory(c) ==
  /\ c \in category /\ Deletable(c)
  /\ category' = category \ {c}
  /\ provider' = [ q \in Request |-> IF provider[q] = None THEN None
                     ELSE [provider[q] EXCEPT !.categories = @ \ {c}] ]
  /\ UNCHANGED <<request, faults, raced>>

-----------------------------------------------------------------------------

Init ==
  /\ provider = [ q \in Request |-> None ]
  /\ category = Category
  /\ request = [ q \in Request |-> NoRequest ]
  /\ faults = 0
  /\ raced = [ q \in Request |-> {} ]

Advance(q) ==
  \/ Requested(q) \/ SlugFree(q) \/ CreateProvider(q) \/ AddMember(q)
  \/ AddProviderCategory(q) \/ Commit(q)

Next ==
  \/ \E q \in Request : Arrive(q) \/ Advance(q) \/ Fault(q) \/ AnswerLost(q)
  \/ \E c \in Category : DeleteCategory(c)

Spec == Init /\ [][Next]_vars

\* The server goes on with a request it has accepted, and Postgres wakes the
\* transaction that waited.  Nothing has to arrive, to fail or to be deleted.
FairSpec == Spec /\ \A q \in Request : WF_vars(Advance(q))

-----------------------------------------------------------------------------

TypeOK ==
  /\ \A q \in Providers :
       /\ provider[q].slug \in Slug /\ provider[q].owner \in User \cup {None}
       /\ provider[q].categories \subseteq category
  /\ category \subseteq Category
  /\ \A q \in Request : request[q].answer \in Reply \cup {None}

\* A provider is there with its owner and its categories, or not at all, whatever
\* failed and whatever was deleted meanwhile.
WholeOrNotAtAll ==
  \A q \in Providers : LET ask == request[q].ask IN
    /\ provider[q].owner = ask.owner
    /\ provider[q].categories = { ask.categories[i] : i \in DOMAIN ask.categories } \cap category

\* A name that needs no slug is refused for its slug only if another provider took
\* it since it was found free...
RefusedOnlyIfRaced ==
  \A q \in Request : request[q].answer = "conflict" /\ request[q].ask.slug = None =>
    request[q].slug \in raced[q]

\* ...and given up only when every derived slug is some provider's.
GivenUpOnlyIfFull ==
  \A q \in Request : request[q].answer = "exhausted" =>
    \A n \in 1 .. Len(Nth[request[q].ask.name]) : SlugExists(Nth[request[q].ask.name][n])

\* The three of them at once, of every state: what concurrent creations promise.
CreatedWholeAndNamed ==
  TypeOK /\ WholeOrNotAtAll /\ RefusedOnlyIfRaced /\ GivenUpOnlyIfFull

\* Nobody waits for ever: each request is answered.
Answered == \A q \in Request : request[q].pc # "idle" ~> request[q].pc = "done"
=============================================================================
