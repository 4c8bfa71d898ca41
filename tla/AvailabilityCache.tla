-------------------------- MODULE AvailabilityCache --------------------------
(***************************************************************************)
(* The availability cache of one process (scheduling/cache.go): its two    *)
(* maps, the clock, and the requests that fill, hit and invalidate it.     *)
(* What a list is computed from has a version; an edit makes a new one.    *)
(* Edits of bookings, hours and resources invalidate the provider's lists, *)
(* edits of the catalog do not.  Time is a number of ticks, kept as ages,  *)
(* so that it may pass for ever.                                           *)
(***************************************************************************)
EXTENDS Integers

CONSTANTS Key,        \* cacheKey: a service, a date and a set of options
          Provider,
          ProviderOf, \* [Key -> Provider]
          Browser, Editor,
          TTL,
          MaxAge,     \* no request takes longer: the router's timeout
          MaxEdits,   \* bound on what is edited
          MaxBooks,   \* bound on the bookings a customer tries
          None

ASSUME CacheAssumption ==
  /\ ProviderOf \in [Key -> Provider]
  /\ TTL \in Nat /\ MaxAge \in Nat /\ MaxEdits \in Nat /\ MaxBooks \in Nat
  /\ None \notin Key /\ None \notin Provider /\ None \notin [ seen : Nat, age : Nat ]

VARIABLES
  version,    \* [Key -> the version its list would be computed from]
  since,      \* history: ticks since that version, up to Old
  entries,    \* [Key -> the version that is cached and its age, or None]
  byProvider, \* the reverse index
  browser, editor, edits

vars == <<version, since, entries, byProvider, browser, editor, edits>>

Old == TTL + MaxAge + 1

Keys(p) == { k \in Key : ProviderOf[k] = p }

Cached == { k \in Key : entries[k] # None }

\* time.Now().After(entry.expiresAt)
Expired(k) == entries[k].age > TTL

Reading(b) == browser[b].pc = "read"

-----------------------------------------------------------------------------
(* get, put, invalidateProvider.                                           *)

Serve(b, v) == browser' = [browser EXCEPT ![b].pc = "served", ![b].seen = v]

Browse(b) ==
  /\ browser[b].pc = "idle"
  /\ \E k \in Key : browser' = [browser EXCEPT ![b].pc = "get", ![b].key = k, ![b].age = 0]
  /\ UNCHANGED <<version, since, entries, byProvider, editor, edits>>

\* Mutant: a hit makes the entry young again.
SlidingHit(b) ==
  LET k == browser[b].key IN
  /\ browser[b].pc = "get" /\ k \in Cached /\ ~Expired(k)
  /\ Serve(b, entries[k].seen)
  /\ entries' = [entries EXCEPT ![k].age = 0]
  /\ UNCHANGED <<version, since, byProvider, editor, edits>>

\* Mutant: the age is not looked at.
HitAnyAge(b) ==
  /\ browser[b].pc = "get" /\ browser[b].key \in Cached
  /\ Serve(b, entries[browser[b].key].seen)
  /\ UNCHANGED <<version, since, entries, byProvider, editor, edits>>

Hit(b) ==
  LET k == browser[b].key IN
  /\ browser[b].pc = "get" /\ k \in Cached /\ ~Expired(k)
  /\ Serve(b, entries[k].seen)
  /\ UNCHANGED <<version, since, entries, byProvider, editor, edits>>

\* A miss: the tables are read.  What is read last may be newer than what was
\* read first, and the list is as old as the first.
Miss(b) ==
  LET k == browser[b].key IN
  /\ browser[b].pc = "get" /\ (k \in Cached => Expired(k))
  /\ browser' = [browser EXCEPT ![b].pc = "read", ![b].seen = version[k]]
  /\ UNCHANGED <<version, since, entries, byProvider, editor, edits>>

\* A day without resources or windows is answered and not cached.
AnswerEmpty(b) ==
  /\ Reading(b)
  /\ Serve(b, browser[b].seen)
  /\ UNCHANGED <<version, since, entries, byProvider, editor, edits>>

\* Mutant: an expired entry leaves the map and stays in the index.
EvictEntriesOnly(map, index) ==
  /\ entries' = [k \in Key |-> IF map[k] # None /\ map[k].age > TTL THEN None ELSE map[k]]
  /\ byProvider' = index

\* evictExpiredLocked, on the maps that put has made.
EvictExpired(map, index) ==
  LET gone == { k \in Key : map[k] # None /\ map[k].age > TTL } IN
  /\ entries' = [k \in Key |-> IF k \in gone THEN None ELSE map[k]]
  /\ byProvider' = [p \in Provider |-> index[p] \ gone]

Put(b) ==
  LET k == browser[b].key
      map == [entries EXCEPT ![k] = [ seen |-> browser[b].seen, age |-> 0 ]]
      index == [byProvider EXCEPT ![ProviderOf[k]] = @ \cup {k}]
  IN
  /\ Reading(b)
  /\ EvictExpired(map, index)
  /\ Serve(b, browser[b].seen)
  /\ UNCHANGED <<version, since, editor, edits>>

\* The customer books from the list; an old one may name a time that is gone.  A
\* reservation that is refused changes nothing, the cache included.
Book(b) ==
  /\ browser[b].pc = "served" /\ browser[b].books < MaxBooks
  /\ \/ browser' = [browser EXCEPT ![b].pc = "idle", ![b].books = 0, ![b].key = None]
     \/ /\ browser[b].seen # version[browser[b].key]
        /\ browser' = [browser EXCEPT ![b].pc = "idle", ![b].books = @ + 1]
  /\ UNCHANGED <<version, since, entries, byProvider, editor, edits>>

-----------------------------------------------------------------------------
(* Edits.                                                                  *)

NewVersion(K) ==
  /\ edits < MaxEdits /\ edits' = edits + 1
  /\ version' = [k \in Key |-> IF k \in K THEN version[k] + 1 ELSE version[k]]
  /\ since' = [k \in Key |-> IF k \in K THEN 0 ELSE since[k]]

\* UpdateService, DeleteService, the options: the cache is left as it is.
EditCatalog(k) ==
  /\ NewVersion({k})
  /\ UNCHANGED <<entries, byProvider, browser, editor>>

\* A booking, the hours or a resource: first the tables...
EditProvider(e) ==
  /\ editor[e] = None
  /\ \E p \in Provider : NewVersion(Keys(p)) /\ editor' = [editor EXCEPT ![e] = p]
  /\ UNCHANGED <<entries, byProvider, browser>>

\* ... then the cache.
InvalidateProvider(e) ==
  LET p == editor[e] IN
  /\ p # None
  /\ entries' = [k \in Key |-> IF k \in byProvider[p] THEN None ELSE entries[k]]
  /\ byProvider' = [byProvider EXCEPT ![p] = {}]
  /\ editor' = [editor EXCEPT ![e] = None]
  /\ UNCHANGED <<version, since, browser, edits>>

-----------------------------------------------------------------------------

Older(n, bound) == IF n < bound THEN n + 1 ELSE n

TimePasses ==
  /\ browser' = [b \in Browser |-> IF Reading(b) THEN [browser[b] EXCEPT !.age = @ + 1]
                                   ELSE browser[b]]
  /\ entries' = [k \in Key |-> IF k \in Cached
                   THEN [entries[k] EXCEPT !.age = Older(@, TTL + 1)] ELSE None]
  /\ since' = [k \in Key |-> Older(since[k], Old)]
  /\ UNCHANGED <<version, byProvider, editor, edits>>

\* A request that reads is cut off when it takes too long.
Tick == (\A b \in Browser : Reading(b) => browser[b].age < MaxAge) /\ TimePasses

Init ==
  /\ version = [k \in Key |-> 0] /\ since = [k \in Key |-> Old]
  /\ entries = [k \in Key |-> None] /\ byProvider = [p \in Provider |-> {}]
  /\ browser = [b \in Browser |->
                  [ pc |-> "idle", key |-> None, seen |-> 0, age |-> 0, books |-> 0 ]]
  /\ editor = [e \in Editor |-> None] /\ edits = 0

Next ==
  \/ \E b \in Browser : Browse(b) \/ Hit(b) \/ Miss(b) \/ AnswerEmpty(b) \/ Put(b) \/ Book(b)
  \/ \E k \in Key : EditCatalog(k)
  \/ \E e \in Editor : EditProvider(e) \/ InvalidateProvider(e)
  \/ Tick

Spec == Init /\ [][Next]_vars

\* Time passes, and a request that has begun goes on.
Fairness ==
  /\ WF_vars(Tick)
  /\ \A b \in Browser : WF_vars(Hit(b) \/ Miss(b) \/ AnswerEmpty(b) \/ Put(b))
  /\ \A e \in Editor : WF_vars(InvalidateProvider(e))

FairSpec == Spec /\ Fairness

-----------------------------------------------------------------------------
(* Properties.                                                             *)

\* Every variable holds a value of its kind, and no request outlives its timeout.
TypeOK ==
  /\ version \in [Key -> 0..MaxEdits] /\ since \in [Key -> 0..Old]
  /\ entries \in [Key -> [ seen : 0..MaxEdits, age : 0..(TTL + 1) ] \cup {None}]
  /\ byProvider \in [Provider -> SUBSET Key]
  /\ browser \in [Browser -> [ pc : {"idle", "get", "read", "served"}, key : Key \cup {None},
                               seen : 0..MaxEdits, age : 0..MaxAge, books : 0..MaxBooks ]]
  /\ editor \in [Editor -> Provider \cup {None}] /\ edits \in 0..MaxEdits

\* The index names exactly what is cached, under the provider it belongs to: an
\* invalidation reaches every list, and the index does not grow without bound.
IndexExact == \A p \in Provider : byProvider[p] = { k \in Cached : ProviderOf[k] = p }

\* "A slot list that is a minute stale is harmless", and none is staler: a list
\* served from the cache reflects every edit, of the catalog too, that is older
\* than the time to live and the longest request together.
StaleForABoundedTime ==
  [][\A b \in Browser : LET k == browser[b].key IN
       browser[b].pc = "get" /\ browser'[b].pc = "served" /\ since[k] = Old
         => browser'[b].seen = version[k]]_vars

\* What is cached becomes current once the edits are over, whatever fill was
\* overtaken by an invalidation and whatever edit invalidated nothing.
EventuallyFresh ==
  <>[](\A k \in Cached : entries[k].seen = version[k] \/ Expired(k))
=============================================================================
