-------------------------- MODULE SchedulingProofs --------------------------
(***************************************************************************)
(* Theorems about Scheduling: the cache of lists, the edits of resources   *)
(* and hours, and the two of them together.                                *)
(* Of the cache: its two maps agree, and a list that it serves lags behind *)
(* the tables by a bounded time.  The second rests on Lag: a list may be   *)
(* out of date only by an edit that is no older than the read it was       *)
(* computed from, and once it is cached that read is older than the entry  *)
(* by less than the longest request.                                       *)
(* Of the edits, for any resources, services, weeks and requests and any   *)
(* number of faults: what scopes the rows have, that a date is closed      *)
(* once, when a cached list may be older than the tables, and that what    *)
(* takes several statements is done as a whole.                            *)
(***************************************************************************)
EXTENDS Scheduling, FiniteSetTheorems, TLAPS

Entry == [ seen : 0..MaxEdits, age : 0..(TTL + 1) ]

BrowserType == [ pc : {"idle", "get", "read", "served"}, key : Key \cup {None},
                 seen : 0..MaxEdits, age : 0..MaxAge, books : 0..MaxBooks ]

\* A request that is under way names a list, and no version is from the future.
Named ==
  /\ \A b \in Browser : /\ browser[b].pc # "idle" => browser[b].key \in Key
                        /\ browser[b].pc = "get" => browser[b].age = 0
  /\ \A k \in Key : version[k] <= edits

TypeInv == TypeOK /\ Named

\* How far what was read, and what is cached, may lag.
Lag ==
  /\ \A b \in Browser : LET k == browser[b].key IN
       browser[b].pc = "read" /\ since[k] > browser[b].age => browser[b].seen = version[k]
  /\ \A k \in Cached : since[k] > MaxAge + entries[k].age => entries[k].seen = version[k]

IInv == TypeInv /\ IndexExact /\ Lag

-----------------------------------------------------------------------------

LEMMA Parameters ==
  /\ TTL \in Nat /\ MaxAge \in Nat /\ MaxEdits \in Nat /\ MaxBooks \in Nat /\ Old \in Nat
  /\ \A k \in Key : ProviderOf[k] \in Provider
  /\ None \notin Key /\ None \notin Provider /\ None \notin Entry
<1>1. TTL \in Nat /\ MaxAge \in Nat /\ MaxEdits \in Nat /\ MaxBooks \in Nat
  BY CacheAssumption
<1>2. Entry \subseteq [ seen : Nat, age : Nat ]
  BY <1>1 DEF Entry
<1> QED  BY <1>1, <1>2, CacheAssumption DEF Old

\* A step of a browser that leaves the cache, the tables and their clocks alone.
LEMMA BrowserStep ==
  ASSUME IInv, NEW b \in Browser, NEW n \in BrowserType, browser' = [browser EXCEPT ![b] = n],
         UNCHANGED <<version, since, entries, byProvider, editor, edits>>,
         n.pc # "idle" => n.key \in Key, n.pc = "get" => n.age = 0,
         n.pc = "read" => n.seen = version[n.key]
  PROVE  IInv'
<1>1. browser \in [Browser -> BrowserType]
  BY DEF IInv, TypeInv, TypeOK, BrowserType
<1>2. /\ browser' \in [Browser -> BrowserType] /\ browser'[b] = n
      /\ \A o \in Browser \ {b} : browser'[o] = browser[o]
  BY <1>1
<1>3. TypeInv'
  BY <1>2 DEF IInv, TypeInv, TypeOK, Named, BrowserType
<1>4. IndexExact'
  BY DEF IInv, IndexExact, Cached
<1>5. Lag'
  <2>1. ASSUME NEW o \in Browser, browser'[o].pc = "read",
               since[browser'[o].key] > browser'[o].age
        PROVE  browser'[o].seen = version[browser'[o].key]
    BY <1>2, <2>1 DEF IInv, Lag
  <2>2. \A k \in Cached : since[k] > MaxAge + entries[k].age => entries[k].seen = version[k]
    BY DEF IInv, Lag
  <2> QED  BY <2>1, <2>2 DEF Lag, Cached
<1> QED  BY <1>3, <1>4, <1>5 DEF IInv

LEMMA BrowserFields ==
  ASSUME IInv, NEW b \in Browser
  PROVE  /\ browser \in [Browser -> BrowserType] /\ browser[b] \in BrowserType
         /\ browser[b].pc # "idle" => browser[b].key \in Key
         /\ browser[b].pc = "get" => browser[b].age = 0
  BY DEF IInv, TypeInv, TypeOK, Named, BrowserType

LEMMA ServeKeeps ==
  ASSUME IInv, NEW b \in Browser, browser[b].pc # "idle", NEW v \in 0..MaxEdits, Serve(b, v),
         UNCHANGED <<version, since, entries, byProvider, editor, edits>>
  PROVE  IInv'
<1> DEFINE n == [browser[b] EXCEPT !.pc = "served", !.seen = v]
<1>1. browser \in [Browser -> BrowserType] /\ browser[b] \in BrowserType /\ browser[b].key \in Key
  BY BrowserFields
<1>2. n \in BrowserType /\ n.pc = "served" /\ n.key = browser[b].key
  BY <1>1 DEF BrowserType
<1>3. browser' = [browser EXCEPT ![b] = n]
  BY <1>1 DEF Serve, BrowserType
<1> HIDE DEF n
<1> QED  BY <1>1, <1>2, <1>3, BrowserStep

LEMMA BrowseKeeps == ASSUME IInv, NEW b \in Browser, Browse(b) PROVE IInv'
<1>1. PICK k \in Key :
        browser' = [browser EXCEPT ![b].pc = "get", ![b].key = k, ![b].age = 0]
  BY DEF Browse
<1> DEFINE n == [browser[b] EXCEPT !.pc = "get", !.key = k, !.age = 0]
<1>2. browser \in [Browser -> BrowserType] /\ browser[b] \in BrowserType
  BY BrowserFields
<1>3. n \in BrowserType /\ n.pc = "get" /\ n.key = k /\ n.age = 0
  <2>1. 0 \in 0..MaxAge
    BY Parameters
  <2> QED  BY <1>2, <2>1 DEF BrowserType
<1>4. browser' = [browser EXCEPT ![b] = n]
  BY <1>1, <1>2 DEF BrowserType
<1>5. UNCHANGED <<version, since, entries, byProvider, editor, edits>>
  BY DEF Browse
<1> HIDE DEF n
<1> QED  BY <1>3, <1>4, <1>5, BrowserStep

LEMMA HitKeeps == ASSUME IInv, NEW b \in Browser, Hit(b) PROVE IInv'
<1> DEFINE k == browser[b].key
<1>1. k \in Key /\ browser[b].pc # "idle" /\ k \in Cached
  BY BrowserFields DEF Hit
<1>2. entries[k] \in Entry
  BY <1>1 DEF IInv, TypeInv, TypeOK, Entry, Cached
<1>3. entries[k].seen \in 0..MaxEdits
  BY <1>2 DEF Entry
<1>4. Serve(b, entries[k].seen) /\ UNCHANGED <<version, since, entries, byProvider, editor, edits>>
  BY DEF Hit
<1> QED  BY <1>1, <1>3, <1>4, ServeKeeps

LEMMA MissKeeps == ASSUME IInv, NEW b \in Browser, Miss(b) PROVE IInv'
<1> DEFINE k == browser[b].key
           n == [browser[b] EXCEPT !.pc = "read", !.seen = version[k]]
<1>1. browser \in [Browser -> BrowserType] /\ browser[b] \in BrowserType /\ k \in Key
  BY BrowserFields DEF Miss
<1>2. version[k] \in 0..MaxEdits
  BY <1>1 DEF IInv, TypeInv, TypeOK
<1>3. n \in BrowserType /\ n.pc = "read" /\ n.key = k /\ n.seen = version[k]
  BY <1>1, <1>2 DEF BrowserType
<1>4. browser' = [browser EXCEPT ![b] = n]
  BY <1>1 DEF Miss, BrowserType
<1>5. UNCHANGED <<version, since, entries, byProvider, editor, edits>>
  BY DEF Miss
<1> HIDE DEF n
<1> QED  BY <1>1, <1>3, <1>4, <1>5, BrowserStep

LEMMA AnswerEmptyKeeps == ASSUME IInv, NEW b \in Browser, AnswerEmpty(b) PROVE IInv'
<1>1. browser[b].seen \in 0..MaxEdits
  BY BrowserFields DEF BrowserType
<1> QED  BY <1>1, ServeKeeps DEF AnswerEmpty, Reading

LEMMA BookKeeps == ASSUME IInv, NEW b \in Browser, Book(b) PROVE IInv'
<1>1. /\ browser \in [Browser -> BrowserType] /\ browser[b] \in BrowserType
      /\ UNCHANGED <<version, since, entries, byProvider, editor, edits>>
  BY BrowserFields DEF Book
<1>2. ASSUME browser' = [browser EXCEPT ![b].pc = "idle", ![b].books = 0, ![b].key = None]
      PROVE  IInv'
  <2> DEFINE n == [browser[b] EXCEPT !.pc = "idle", !.books = 0, !.key = None]
  <2>1. n \in BrowserType /\ n.pc = "idle"
    <3>1. 0 \in 0..MaxBooks
      BY Parameters
    <3> QED  BY <1>1, <3>1 DEF BrowserType
  <2>2. browser' = [browser EXCEPT ![b] = n]
    BY <1>1, <1>2 DEF BrowserType
  <2> HIDE DEF n
  <2> QED  BY <1>1, <2>1, <2>2, BrowserStep
<1>3. ASSUME browser' = [browser EXCEPT ![b].pc = "idle", ![b].books = browser[b].books + 1]
      PROVE  IInv'
  <2> DEFINE n == [browser[b] EXCEPT !.pc = "idle", !.books = browser[b].books + 1]
  <2>1. browser[b].books + 1 \in 0..MaxBooks
    BY <1>1, Parameters DEF Book, BrowserType
  <2>2. n \in BrowserType /\ n.pc = "idle"
    BY <1>1, <2>1 DEF BrowserType
  <2>3. browser' = [browser EXCEPT ![b] = n]
    BY <1>1, <1>3 DEF BrowserType
  <2> HIDE DEF n
  <2> QED  BY <1>1, <2>2, <2>3, BrowserStep
<1> QED  BY <1>2, <1>3 DEF Book

-----------------------------------------------------------------------------
(* Filling and invalidating.                                               *)

LEMMA PutKeeps == ASSUME IInv, NEW b \in Browser, Put(b) PROVE IInv'
<1> DEFINE k == browser[b].key
           fill == [ seen |-> browser[b].seen, age |-> 0 ]
           map == [entries EXCEPT ![k] = fill]
           index == [byProvider EXCEPT ![ProviderOf[k]] = byProvider[ProviderOf[k]] \cup {k}]
           gone == { x \in Key : map[x] # None /\ map[x].age > TTL }
<1>1. /\ browser \in [Browser -> BrowserType] /\ browser[b] \in BrowserType /\ k \in Key
      /\ browser[b].pc = "read" /\ ProviderOf[k] \in Provider
      /\ UNCHANGED <<version, since, editor, edits>>
  BY BrowserFields, Parameters DEF Put, Reading
<1>2. entries \in [Key -> Entry \cup {None}] /\ byProvider \in [Provider -> SUBSET Key]
  BY DEF IInv, TypeInv, TypeOK, Entry
<1>3. fill \in Entry /\ fill # None /\ fill.age = 0 /\ fill.seen = browser[b].seen
  BY <1>1, Parameters DEF BrowserType, Entry
<1> HIDE DEF fill
<1>4. /\ entries' = [x \in Key |-> IF x \in gone THEN None ELSE map[x]]
      /\ byProvider' = [p \in Provider |-> index[p] \ gone]
  BY DEF Put, EvictExpired, fill
<1>5. map[k] = fill /\ \A x \in Key \ {k} : map[x] = entries[x]
  BY <1>1, <1>2
<1>6. k \notin gone
  BY <1>3, <1>5, Parameters
<1>7. /\ entries'[k] = fill
      /\ \A x \in Key \ {k} : entries'[x] = IF x \in gone THEN None ELSE entries[x]
  BY <1>1, <1>4, <1>5, <1>6
<1> HIDE DEF map
<1>8. \A x \in Key : x \in Cached' <=> (x = k \/ (x \in Cached /\ x \notin gone))
  BY <1>3, <1>6, <1>7 DEF Cached
<1>9. IndexExact'
  <2> SUFFICES ASSUME NEW p \in Provider, NEW x \in Key
               PROVE  x \in byProvider'[p] <=> x \in Cached' /\ ProviderOf[x] = p
    <3>1. \A p \in Provider : byProvider'[p] \subseteq Key
      BY <1>1, <1>2, <1>4
    <3> QED  BY <3>1 DEF IndexExact, Cached
  <2>1. x \in byProvider[p] <=> x \in Cached /\ ProviderOf[x] = p
    BY DEF IInv, IndexExact
  <2>2. byProvider'[p] = index[p] \ gone
    BY <1>4
  <2>3. index[p] = IF p = ProviderOf[k] THEN byProvider[p] \cup {k} ELSE byProvider[p]
    BY <1>1, <1>2
  <2> HIDE DEF index, gone
  <2> QED  BY <1>6, <1>8, <2>1, <2>2, <2>3
<1>10. Serve(b, browser[b].seen)
  BY DEF Put
<1> DEFINE n == [browser[b] EXCEPT !.pc = "served"]
<1>11. n \in BrowserType /\ n.pc = "served" /\ n.key = k
  BY <1>1 DEF BrowserType
<1>12. browser' = [browser EXCEPT ![b] = n]
  BY <1>1, <1>10 DEF Serve, BrowserType
<1> HIDE DEF n
<1>13. /\ browser' \in [Browser -> BrowserType] /\ browser'[b] = n
       /\ \A o \in Browser \ {b} : browser'[o] = browser[o]
  BY <1>1, <1>11, <1>12
<1>14. TypeInv'
  <2>1. \A x \in Key : entries'[x] \in Entry \cup {None}
    BY <1>2, <1>3, <1>7
  <2>2. entries' \in [Key -> Entry \cup {None}]
    BY <1>4, <2>1
  <2>3. byProvider' \in [Provider -> SUBSET Key]
    BY <1>1, <1>2, <1>4
  <2>4. Named'
    BY <1>1, <1>11, <1>13 DEF IInv, TypeInv, Named
  <2> QED  BY <1>1, <1>13, <2>2, <2>3, <2>4 DEF IInv, TypeInv, TypeOK, Entry, BrowserType
<1>15. Lag'
  <2>1. \A o \in Browser : LET x == browser'[o].key IN
          browser'[o].pc = "read" /\ since[x] > browser'[o].age => browser'[o].seen = version[x]
    BY <1>11, <1>13 DEF IInv, Lag
  <2>2. ASSUME NEW x \in Cached', since[x] > MaxAge + entries'[x].age
        PROVE  entries'[x].seen = version[x]
    <3>1. CASE x = k
      <4>1. since[k] \in Nat /\ browser[b].age \in 0..MaxAge
        BY <1>1, Parameters DEF IInv, TypeInv, TypeOK, BrowserType
      <4>2. since[k] > browser[b].age
        BY <1>3, <1>7, <2>2, <3>1, <4>1, Parameters
      <4>3. browser[b].seen = version[k]
        BY <1>1, <4>2 DEF IInv, Lag
      <4> QED  BY <1>3, <1>7, <3>1, <4>3
    <3>2. CASE x # k
      <4>1. x \in Cached /\ entries'[x] = entries[x]
        BY <1>7, <1>8, <2>2, <3>2 DEF Cached
      <4> QED  BY <2>2, <4>1 DEF IInv, Lag
    <3> QED  BY <3>1, <3>2
  <2> QED  BY <1>1, <2>1, <2>2 DEF Lag
<1> QED  BY <1>9, <1>14, <1>15 DEF IInv

LEMMA InvalidateKeeps == ASSUME IInv, NEW e \in Editor, InvalidateProvider(e) PROVE IInv'
<1> DEFINE p == editor[e]
<1>1. /\ p \in Provider /\ UNCHANGED <<version, since, browser, edits>>
      /\ entries' = [k \in Key |-> IF k \in byProvider[p] THEN None ELSE entries[k]]
      /\ byProvider' = [byProvider EXCEPT ![p] = {}]
      /\ editor' = [editor EXCEPT ![e] = None]
  BY DEF InvalidateProvider, IInv, TypeInv, TypeOK
<1>2. TypeInv'
  BY <1>1 DEF IInv, TypeInv, TypeOK, Named
<1>3. \A k \in Key : k \in Cached' <=> k \in Cached /\ k \notin byProvider[p]
  BY <1>1 DEF Cached
<1>4. IndexExact'
  BY <1>1, <1>3 DEF IInv, TypeInv, TypeOK, IndexExact, Cached
<1>5. Lag'
  <2>1. \A k \in Cached' : k \in Cached /\ entries'[k] = entries[k]
    BY <1>1, <1>3 DEF Cached
  <2> QED  BY <1>1, <2>1 DEF IInv, Lag
<1> QED  BY <1>2, <1>4, <1>5 DEF IInv

-----------------------------------------------------------------------------
(* Edits and time.                                                         *)

LEMMA EditKeeps ==
  ASSUME IInv, NEW K \in SUBSET Key, NewVersion(K), UNCHANGED <<entries, byProvider, browser>>,
         editor' \in [Editor -> Provider \cup {None}]
  PROVE  IInv'
<1>1. /\ version \in [Key -> 0..MaxEdits] /\ since \in [Key -> 0..Old] /\ edits \in 0..MaxEdits
      /\ \A k \in Key : version[k] <= edits
  BY DEF IInv, TypeInv, TypeOK, Named
<1>2. /\ edits < MaxEdits /\ edits' = edits + 1
      /\ version' = [k \in Key |-> IF k \in K THEN version[k] + 1 ELSE version[k]]
      /\ since' = [k \in Key |-> IF k \in K THEN 0 ELSE since[k]]
  BY DEF NewVersion
<1>3. edits' \in 0..MaxEdits
  BY <1>1, <1>2, Parameters
<1>4. ASSUME NEW k \in Key
      PROVE  /\ version'[k] \in 0..MaxEdits /\ version'[k] <= edits'
             /\ since'[k] \in 0..Old
             /\ since'[k] = 0 \/ (since'[k] = since[k] /\ version'[k] = version[k])
  BY <1>1, <1>2, Parameters
<1>5. version' \in [Key -> 0..MaxEdits] /\ since' \in [Key -> 0..Old]
  BY <1>2, <1>4
<1>6. TypeInv'
  BY <1>3, <1>4, <1>5 DEF IInv, TypeInv, TypeOK, Named
<1>7. IndexExact'
  BY DEF IInv, IndexExact, Cached
<1>8. Lag'
  <2>1. ASSUME NEW b \in Browser, browser[b].pc = "read",
               since'[browser[b].key] > browser[b].age
        PROVE  browser[b].seen = version'[browser[b].key]
    <3>1. browser[b].key \in Key /\ browser[b].age \in Nat
      BY <2>1, BrowserFields, Parameters DEF BrowserType
    <3>2. since'[browser[b].key] # 0
      BY <2>1, <3>1
    <3> QED  BY <1>4, <2>1, <3>1, <3>2 DEF IInv, Lag
  <2>2. ASSUME NEW k \in Cached, since'[k] > MaxAge + entries[k].age
        PROVE  entries[k].seen = version'[k]
    <3>1. k \in Key /\ entries[k].age \in Nat
      BY <2>2, Parameters DEF Cached, IInv, TypeInv, TypeOK
    <3>2. since'[k] # 0
      BY <2>2, <3>1, Parameters
    <3> QED  BY <1>4, <2>2, <3>1, <3>2 DEF IInv, Lag
  <2> QED  BY <2>1, <2>2 DEF Lag, Cached
<1> QED  BY <1>6, <1>7, <1>8 DEF IInv

LEMMA TickKeeps == ASSUME IInv, Tick PROVE IInv'
<1>1. /\ UNCHANGED <<version, byProvider, editor, edits>>
      /\ browser' = [b \in Browser |->
           IF Reading(b) THEN [browser[b] EXCEPT !.age = browser[b].age + 1] ELSE browser[b]]
      /\ entries' = [k \in Key |-> IF k \in Cached
           THEN [entries[k] EXCEPT !.age = Older(entries[k].age, TTL + 1)] ELSE None]
      /\ since' = [k \in Key |-> Older(since[k], Old)]
  BY DEF Tick, TimePasses
<1>2. ASSUME NEW b \in Browser
      PROVE  /\ browser'[b] \in BrowserType
             /\ browser'[b].pc = browser[b].pc /\ browser'[b].key = browser[b].key
             /\ browser'[b].seen = browser[b].seen
             /\ browser'[b].age = IF browser[b].pc = "read" THEN browser[b].age + 1
                                                           ELSE browser[b].age
  <2>1. browser[b] \in BrowserType
    BY BrowserFields
  <2>2. CASE Reading(b)
    <3>1. browser[b].age + 1 \in 0..MaxAge
      BY <2>1, <2>2, Parameters DEF Tick, BrowserType
    <3>2. browser'[b] = [browser[b] EXCEPT !.age = browser[b].age + 1]
      BY <1>1, <2>2
    <3> QED  BY <2>1, <2>2, <3>1, <3>2 DEF BrowserType, Reading
  <2>3. CASE ~ Reading(b)
    <3>1. browser'[b] = browser[b]
      BY <1>1, <2>3
    <3> QED  BY <2>1, <2>3, <3>1 DEF Reading
  <2> QED  BY <2>2, <2>3
<1>3. ASSUME NEW k \in Key
      PROVE  /\ since[k] \in 0..Old /\ since'[k] \in 0..Old
             /\ since'[k] <= since[k] + 1
  BY <1>1, Parameters DEF IInv, TypeInv, TypeOK, Older
<1>4. ASSUME NEW k \in Cached
      PROVE  /\ entries[k] \in Entry /\ entries'[k] \in Entry
             /\ entries'[k].seen = entries[k].seen
             /\ entries'[k].age = Older(entries[k].age, TTL + 1)
  <2>1. k \in Key /\ entries[k] \in Entry
    BY <1>4 DEF Cached, IInv, TypeInv, TypeOK, Entry
  <2>2. Older(entries[k].age, TTL + 1) \in 0..(TTL + 1)
    BY <2>1, Parameters DEF Older, Entry
  <2>3. entries'[k] = [entries[k] EXCEPT !.age = Older(entries[k].age, TTL + 1)]
    BY <1>1, <2>1
  <2> QED  BY <2>1, <2>2, <2>3 DEF Entry
<1>5. Cached' = Cached
  <2>1. \A k \in Key : k \notin Cached => entries'[k] = None
    BY <1>1
  <2>2. \A k \in Cached : entries'[k] # None
    BY <1>4, Parameters
  <2> QED  BY <2>1, <2>2 DEF Cached
<1>6. TypeInv'
  <2>1. browser' \in [Browser -> BrowserType] /\ since' \in [Key -> 0..Old]
    BY <1>1, <1>2, <1>3
  <2>2. entries' \in [Key -> Entry \cup {None}]
    <3>1. \A k \in Key : entries'[k] \in Entry \cup {None}
      BY <1>1, <1>4
    <3> QED  BY <1>1, <3>1
  <2>3. Named'
    BY <1>1, <1>2 DEF IInv, TypeInv, Named
  <2> QED  BY <1>1, <2>1, <2>2, <2>3 DEF IInv, TypeInv, TypeOK, Entry, BrowserType
<1>7. IndexExact'
  BY <1>1, <1>5 DEF IInv, IndexExact
<1>8. Lag'
  <2>1. ASSUME NEW b \in Browser, browser'[b].pc = "read",
               since'[browser'[b].key] > browser'[b].age
        PROVE  browser'[b].seen = version'[browser'[b].key]
    <3> DEFINE k == browser[b].key
    <3>1. k \in Key /\ browser[b].age \in Nat /\ browser[b].pc = "read"
      BY <1>2, <2>1, BrowserFields, Parameters DEF BrowserType
    <3>2. since[k] > browser[b].age
      BY <1>2, <1>3, <2>1, <3>1, Parameters
    <3> QED  BY <1>1, <1>2, <3>1, <3>2 DEF IInv, Lag
  <2>2. ASSUME NEW k \in Cached, since'[k] > MaxAge + entries'[k].age
        PROVE  entries'[k].seen = version'[k]
    <3>1. k \in Key /\ entries[k].age \in 0..(TTL + 1)
      BY <1>4 DEF Cached, Entry
    <3>2. since[k] > MaxAge + entries[k].age
      BY <1>3, <1>4, <2>2, <3>1, Parameters DEF Older, Old
    <3> QED  BY <1>1, <1>4, <3>2 DEF IInv, Lag
  <2> QED  BY <1>5, <2>1, <2>2 DEF Lag
<1> QED  BY <1>6, <1>7, <1>8 DEF IInv

-----------------------------------------------------------------------------
(* The theorems.                                                           *)

LEMMA InitInv == Init => IInv
<1> SUFFICES ASSUME Init PROVE IInv
  OBVIOUS
<1>1. TypeInv
  BY Parameters DEF Init, TypeInv, TypeOK, Named
<1>2. IndexExact /\ Lag
  BY DEF Init, IndexExact, Lag, Cached
<1> QED  BY <1>1, <1>2 DEF IInv

LEMMA NextInv == IInv /\ [Next]_vars => IInv'
<1> SUFFICES ASSUME IInv, [Next]_vars PROVE IInv'
  OBVIOUS
<1>1. ASSUME NEW b \in Browser,
             Browse(b) \/ Hit(b) \/ Miss(b) \/ AnswerEmpty(b) \/ Put(b) \/ Book(b)
      PROVE  IInv'
  BY <1>1, BrowseKeeps, HitKeeps, MissKeeps, AnswerEmptyKeeps, PutKeeps, BookKeeps
<1>2. ASSUME NEW k \in Key, EditCatalog(k) PROVE IInv'
  <2>1. editor' \in [Editor -> Provider \cup {None}]
    BY <1>2 DEF EditCatalog, IInv, TypeInv, TypeOK
  <2> QED  BY <1>2, <2>1, EditKeeps DEF EditCatalog
<1>3. ASSUME NEW e \in Editor, EditProvider(e) PROVE IInv'
  <2>1. PICK p \in Provider : NewVersion(Keys(p)) /\ editor' = [editor EXCEPT ![e] = p]
    BY <1>3 DEF EditProvider
  <2>2. editor' \in [Editor -> Provider \cup {None}]
    BY <2>1 DEF IInv, TypeInv, TypeOK
  <2>3. Keys(p) \in SUBSET Key
    BY DEF Keys
  <2> QED  BY <1>3, <2>1, <2>2, <2>3, EditKeeps DEF EditProvider
<1>4. CASE UNCHANGED vars
  BY <1>4 DEF vars, IInv, TypeInv, TypeOK, Named, IndexExact, Lag, Cached
<1> QED  BY <1>1, <1>2, <1>3, <1>4, InvalidateKeeps, TickKeeps DEF Next

LEMMA Inductive == Spec => []IInv
<1> QED  BY InitInv, NextInv, PTL DEF Spec

\* Every variable of the cache keeps its type, for any keys, providers and bounds.
THEOREM CacheTypeOK == Spec => []TypeOK
<1>1. IInv => TypeOK
  BY DEF IInv, TypeInv
<1> QED  BY <1>1, Inductive, PTL

\* The two maps of the cache agree after every get, put, eviction and invalidation
\* (scheduling/cache.go): what is cached for a provider is what invalidating removes.
THEOREM MapsAgree == Spec => []IndexExact
<1>1. IInv => IndexExact
  BY DEF IInv
<1> QED  BY <1>1, Inductive, PTL

\* A list served from the cache reflects every edit older than the time to live and
\* the longest request together, whatever fills and invalidations overtake each other.
THEOREM BoundedStaleness == Spec => StaleForABoundedTime
<1>1. ASSUME IInv, [Next]_vars, NEW b \in Browser, browser[b].pc = "get",
             browser'[b].pc = "served", since[browser[b].key] = Old
      PROVE  browser'[b].seen = version[browser[b].key]
  <2> DEFINE k == browser[b].key
  <2>1. browser \in [Browser -> BrowserType] /\ k \in Key
    BY <1>1, BrowserFields
  <2>2. Hit(b)
    BY ZenonT(60), <1>1, <2>1
       DEF Next, Browse, Hit, Miss, AnswerEmpty, Put, Book, EditCatalog, EditProvider,
       InvalidateProvider, Tick, TimePasses, vars, Serve, Reading, BrowserType
  <2>3. k \in Cached /\ entries[k] \in Entry /\ browser'[b].seen = entries[k].seen
    <3>1. k \in Cached /\ browser' = [browser EXCEPT ![b].pc = "served", ![b].seen = entries[k].seen]
      BY <2>2 DEF Hit, Serve
    <3>2. entries[k] \in Entry
      <4>1. entries \in [Key -> Entry \cup {None}]
        BY <1>1 DEF IInv, TypeInv, TypeOK, Entry
      <4>2. entries[k] # None
        BY <3>1 DEF Cached
      <4> QED  BY <2>1, <4>1, <4>2
    <3>3. browser[b] \in BrowserType
      BY <2>1
    <3>4. browser'[b].seen = entries[k].seen
      BY <2>1, <3>1, <3>3 DEF BrowserType
    <3> QED  BY <3>1, <3>2, <3>4
  <2>4. since[k] > MaxAge + entries[k].age
    BY <1>1, <2>2, <2>3, Parameters DEF Hit, Expired, Old, Entry
  <2> QED  BY <1>1, <2>3, <2>4 DEF IInv, Lag
<1>2. IInv /\ [Next]_vars => [\A b \in Browser : LET k == browser[b].key IN
        browser[b].pc = "get" /\ browser'[b].pc = "served" /\ since[k] = Old
          => browser'[b].seen = version[k]]_vars
  BY <1>1
<1> QED  BY <1>2, Inductive, PTL DEF Spec, StaleForABoundedTime

-----------------------------------------------------------------------------
(* Resources and hours: the names after Hours! are those of Hours.  What    *)
(* is shown first is that every variable holds a value of its kind.        *)

Requests ==
  [ pc : Hours!Label, ask : Asks \cup {None}, left : SUBSET Service,
    rows : SUBSET (Row \cup Resource), wrote : BOOLEAN, stale : BOOLEAN,
    answer : Hours!Code \cup {None} ]

Operations == {"create_resource", "update_resource", "delete_resource", "attach",
               "detach", "create_hours", "replace_hours", "update_hours",
               "delete_hours", "create_exception", "delete_exception"}

\* Where a request is tells what it was asked; and who writes a row for a resource has
\* looked up the resource's owner, who does not change.
Sound(q) ==
  LET x == request[q] IN
  /\ x.pc # "idle" => x.ask \in Asks
  /\ x.pc \in Operations => x.ask.op = x.pc
  /\ x.pc = "owned" => Hours!NamesResource(x.ask)
  /\ x.pc = "attach_each" => x.ask.op = "create_resource" /\ x.wrote
  /\ x.pc \in {"clear", "fill"} => x.ask.op = "replace_hours"
  /\ x.pc \in {"create_hours", "replace_hours", "clear", "fill", "create_exception"}
     /\ x.ask.resource # None => Owner[x.ask.resource] = x.ask.provider
  /\ x.answer # None => x.pc = "done"

HoursTypeInv == Hours!HoursAssumption /\ Hours!TypeOK /\ \A q \in Request : Sound(q)

LEMMA InitTypeInv == Hours!HoursAssumption /\ Hours!Init => HoursTypeInv
<1> SUFFICES ASSUME Hours!HoursAssumption, Hours!Init PROVE HoursTypeInv
  OBVIOUS
<1>1. hours \in [Row -> Hours!HoursRow \cup {None}]
      /\ \A h \in Row : hours[h] # None => Hours!Forwards(hours[h].span)
  BY DEF Hours!Init, Hours!HoursAssumption, Hours!Forwards
<1>2. request \in [Request -> Requests] /\ \A q \in Request : Sound(q)
  BY DEF Hours!Init, Hours!NoRequest, Requests, Hours!Label, Hours!Code, Sound, Operations
<1>3. exception \in [Exception -> Hours!ExceptionRow \cup {None}]
      /\ lists \in [Provider -> SUBSET Hours!List]
  BY DEF Hours!Init
<1>4. /\ resource \subseteq Resource /\ performs \subseteq Resource \X Existing
      /\ used \subseteq Resource \cup Row \cup Exception /\ faults \in 0..MaxFaults
  BY DEF Hours!Init, Hours!HoursAssumption
<1> QED BY <1>1, <1>2, <1>3, <1>4 DEF HoursTypeInv, Hours!TypeOK, Requests

\* What an ask carries.
LEMMA AskType ==
  ASSUME HoursTypeInv, NEW q \in Request, request[q].pc # "idle"
  PROVE  LET ask == request[q].ask IN
         /\ ask \in Asks /\ ask \in Hours!Ask /\ ask.provider \in Provider
         /\ ask.op = "create_resource" => ask.services \subseteq Service
         /\ ask.op \in {"update_resource", "delete_resource", "attach", "detach"}
              => ask.resource \in Resource
         /\ ask.op \in {"attach", "detach"} => ask.service \in Service
         /\ ask.op \in {"create_hours", "replace_hours", "create_exception"}
              => ask.resource \in Hours!Scope
         /\ ask.op = "create_hours" => ask.span \in Hours!Span
         /\ ask.op = "replace_hours" => ask.week \subseteq Hours!Span
         /\ ask.op = "update_hours" => ask.row \in Row /\ ask.patch \in Hours!Patch
         /\ ask.op = "delete_hours" => ask.row \in Row
         /\ ask.op = "create_exception" => ask.date \in Date
            /\ ask.span \in Hours!Span \cup {None}
         /\ ask.op = "delete_exception" => ask.row \in Exception
<1> DEFINE ask == request[q].ask
<1>1. ask \in Asks /\ ask \in Hours!Ask
  BY DEF HoursTypeInv, Sound, Hours!HoursAssumption
<1> HIDE DEF ask
<1> QED BY <1>1 DEF Hours!Ask, ask

-----------------------------------------------------------------------------
(* How a step changes the requests.                                        *)

\* Another request's step changes at most what x has been told of its scope.
Same(x) == /\ request'[x].pc = request[x].pc /\ request'[x].ask = request[x].ask
           /\ request'[x].left = request[x].left /\ request'[x].rows = request[x].rows
           /\ request'[x].wrote = request[x].wrote
           /\ request'[x].answer = request[x].answer

Others(q) == /\ request' \in [Request -> Requests]
             /\ \A x \in Request \ {q} : Same(x)

LEMMA GotoStep ==
  ASSUME HoursTypeInv, NEW q \in Request, NEW label \in Hours!Label, Hours!Goto(q, label)
  PROVE  /\ Others(q)
         /\ request'[q].pc = label /\ request'[q].ask = request[q].ask
         /\ request'[q].left = request[q].left /\ request'[q].rows = request[q].rows
         /\ request'[q].wrote = request[q].wrote
         /\ request'[q].answer = request[q].answer
<1>1. request \in [Request -> Requests]
  BY DEF HoursTypeInv, Hours!TypeOK, Requests
<1>2. request'[q] = [request[q] EXCEPT !.pc = label]
      /\ \A x \in Request \ {q} : request'[x] = request[x]
  BY <1>1 DEF Hours!Goto
<1>3. request' \in [Request -> Requests]
  BY <1>1 DEF Hours!Goto, Requests
<1> QED BY <1>1, <1>2, <1>3 DEF Others, Same, Requests

LEMMA AnswerStep ==
  ASSUME HoursTypeInv, NEW q \in Request, NEW code \in Hours!Code, Hours!Answer(q, code)
  PROVE  /\ Others(q)
         /\ request'[q].pc = "done" /\ request'[q].ask = request[q].ask
         /\ request'[q].left = request[q].left /\ request'[q].rows = request[q].rows
         /\ request'[q].wrote = request[q].wrote
         /\ request'[q].answer = code
<1>1. request \in [Request -> Requests]
  BY DEF HoursTypeInv, Hours!TypeOK, Requests
<1>2. request'[q] = [request[q] EXCEPT !.pc = "done", !.answer = code]
      /\ \A x \in Request \ {q} : request'[x] = request[x]
  BY <1>1 DEF Hours!Answer
<1>3. request' \in [Request -> Requests]
  <2>1. "done" \in Hours!Label
    BY DEF Hours!Label
  <2> QED BY ZenonT(60), <1>1, <2>1 DEF Hours!Answer, Requests
<1> QED BY <1>1, <1>2, <1>3 DEF Others, Same, Requests

LEMMA WroteStep ==
  ASSUME HoursTypeInv, NEW q \in Request, NEW label \in Hours!Label, Hours!Wrote(q, label)
  PROVE  /\ Others(q) /\ Hours!Touch(request[q].ask.provider)
         /\ request'[q].pc = label /\ request'[q].ask = request[q].ask
         /\ request'[q].left = request[q].left /\ request'[q].rows = request[q].rows
         /\ request'[q].wrote
         /\ request'[q].answer = request[q].answer
<1>1. request \in [Request -> Requests]
  BY DEF HoursTypeInv, Hours!TypeOK, Requests
<1>2. request'[q] = [request[q] EXCEPT !.pc = label, !.wrote = TRUE]
      /\ \A x \in Request \ {q} : request'[x] = request[x]
  BY <1>1 DEF Hours!Wrote
<1>3. request' \in [Request -> Requests]
  BY ZenonT(60), <1>1 DEF Hours!Wrote, Requests
<1> QED BY <1>1, <1>2, <1>3 DEF Others, Same, Requests, Hours!Wrote

LEMMA AddsStep ==
  ASSUME HoursTypeInv, NEW q \in Request, NEW label \in Hours!Label, NEW p, NEW r,
         Hours!AddsToScope(q, label, p, r)
  PROVE  /\ Others(q) /\ Hours!Touch(p)
         /\ request'[q].pc = label /\ request'[q].ask = request[q].ask
         /\ request'[q].left = request[q].left /\ request'[q].rows = request[q].rows
         /\ request'[q].wrote
         /\ request'[q].answer = request[q].answer
<1>1. request \in [Request -> Requests]
  BY DEF HoursTypeInv, Hours!TypeOK, Requests
<1>2. request'[q] = [request[q] EXCEPT !.pc = label, !.wrote = TRUE]
  BY <1>1 DEF Hours!AddsToScope
<1>3. request'[q] \in Requests
  BY <1>1, <1>2 DEF Requests
<1>4. ASSUME NEW x \in Request \ {q} PROVE request'[x] \in Requests /\ Same(x)
  <2> DEFINE told == request[x].stale \/
               (request[x].pc \in {"clear", "fill"} /\ request[x].ask.provider = p
                /\ request[x].ask.resource = r)
  <2>1. request'[x] = [request[x] EXCEPT !.stale = told]
    BY <1>1 DEF Hours!AddsToScope
  <2>2. told \in BOOLEAN
    BY <1>1 DEF Requests
  <2> HIDE DEF told
  <2> QED BY <1>1, <2>1, <2>2 DEF Requests, Same
<1>5. request' = [x \in Request |-> request'[x]]
  BY DEF Hours!AddsToScope
<1> QED BY <1>2, <1>3, <1>4, <1>5, <1>1 DEF Others, Hours!AddsToScope, Requests

\* What the lists of a provider's become when it writes.
LEMMA TouchStep ==
  ASSUME HoursTypeInv, NEW p \in Provider, Hours!Touch(p)
  PROVE  /\ lists' \in [Provider -> SUBSET Hours!List]
         /\ \A o \in Provider : Hours!Behind(o)' => o = p \/ Hours!Behind(o)
<1>1. lists \in [Provider -> SUBSET Hours!List]
  BY DEF HoursTypeInv, Hours!TypeOK
<1>2. lists' = [lists EXCEPT ![p] =
        { IF list.is = "current" THEN [list EXCEPT !.is = "stale"] ELSE list : list \in @ }]
  BY DEF Hours!Touch
<1>3. \A list \in Hours!List : [list EXCEPT !.is = "stale"] \in Hours!List
  BY DEF Hours!List
<1>4. lists' \in [Provider -> SUBSET Hours!List]
  BY <1>1, <1>2, <1>3
<1>5. \A o \in Provider \ {p} : lists'[o] = lists[o]
  BY <1>1, <1>2
<1> QED BY <1>4, <1>5 DEF Hours!Behind

\* A list that is read, or put, is no older than those there are.
LEMMA ListedStep ==
  ASSUME HoursTypeInv, NEW p \in Provider, Hours!Browse(p) \/ Hours!Put(p)
  PROVE  /\ lists' \in [Provider -> SUBSET Hours!List]
         /\ \A o \in Provider : Hours!Behind(o)' => Hours!Behind(o)
<1>1. lists \in [Provider -> SUBSET Hours!List]
  BY DEF HoursTypeInv, Hours!TypeOK
<1>2. PICK new \in Hours!List :
        /\ lists' = [lists EXCEPT ![p] = @ \cup {new}]
        /\ new.is # "current" => \E list \in lists[p] : list.is = new.is
  <2>1. CASE Hours!Browse(p)
    <3> DEFINE new == [ at |-> "read", is |-> "current" ]
    <3>1. new \in Hours!List /\ new.is = "current"
      BY DEF Hours!List
    <3>2. lists' = [lists EXCEPT ![p] = @ \cup {new}]
      BY <2>1 DEF Hours!Browse
    <3> HIDE DEF new
    <3> QED BY <3>1, <3>2
  <2>2. CASE Hours!Put(p)
    <3>1. PICK list \in lists[p] :
            lists' = [lists EXCEPT ![p] = @ \cup { [list EXCEPT !.at = "put"] }]
      BY <2>2 DEF Hours!Put
    <3>2. list \in Hours!List
      BY <1>1
    <3>3. [list EXCEPT !.at = "put"] \in Hours!List
          /\ [list EXCEPT !.at = "put"].is = list.is
      BY <3>2 DEF Hours!List
    <3> QED BY <3>1, <3>3
  <2> QED BY <2>1, <2>2
<1>3. lists' \in [Provider -> SUBSET Hours!List]
  BY <1>1, <1>2
<1>4. \A o \in Provider : lists'[o] = IF o = p THEN lists[o] \cup {new} ELSE lists[o]
  BY <1>1, <1>2
<1> QED BY <1>2, <1>3, <1>4 DEF Hours!Behind

\* Invalidation leaves no list behind that is old and not overtaken.
LEMMA DroppedStep ==
  ASSUME HoursTypeInv, NEW q \in Request, Hours!InvalidateProvider(q)
  PROVE  /\ lists' \in [Provider -> SUBSET Hours!List]
         /\ \A o \in Provider : Hours!Behind(o)' =>
              o # request[q].ask.provider /\ Hours!Behind(o)
<1> DEFINE p == request[q].ask.provider
           Left(list) == IF list.is = "stale" THEN [list EXCEPT !.is = "overtaken"] ELSE list
<1>1. lists \in [Provider -> SUBSET Hours!List]
  BY DEF HoursTypeInv, Hours!TypeOK
<1>2. lists' = [lists EXCEPT ![p] =
        { Left(list) : list \in { unfinished \in @ : unfinished.at = "read" } }]
  BY DEF Hours!InvalidateProvider
<1>3. \A list \in Hours!List : Left(list) \in Hours!List /\ Left(list).is # "stale"
  BY DEF Hours!List
<1>4. \A o \in Provider \ {p} : lists'[o] = lists[o]
  BY <1>1, <1>2
<1>5. p \in Provider =>
        lists'[p] = { Left(list) : list \in { unfinished \in lists[p] : unfinished.at = "read" } }
  BY <1>1, <1>2
<1> HIDE DEF Left
<1>6. ASSUME NEW o \in Provider, o = p
      PROVE  lists'[o] \subseteq Hours!List /\ ~Hours!Behind(o)'
  <2>1. lists[o] \subseteq Hours!List
    BY <1>1
  <2>2. \A list \in lists'[o] : list \in Hours!List /\ list.is # "stale"
    BY <1>3, <1>5, <1>6, <2>1
  <2> QED BY <2>2 DEF Hours!Behind
<1>7. lists' \in [Provider -> SUBSET Hours!List]
  BY <1>1, <1>2, <1>4, <1>6
<1>8. ASSUME NEW o \in Provider, Hours!Behind(o)' PROVE o # p /\ Hours!Behind(o)
  <2>1. o # p
    BY <1>6, <1>8
  <2>2. lists'[o] = lists[o]
    BY <1>4, <2>1
  <2> QED BY <1>8, <2>1, <2>2 DEF Hours!Behind
<1> QED BY <1>7, <1>8

LEMMA SetStep ==
  ASSUME HoursTypeInv, NEW q \in Request, NEW x \in Requests,
         request' = [request EXCEPT ![q] = x]
  PROVE  Others(q) /\ request'[q] = x
BY DEF HoursTypeInv, Hours!TypeOK, Requests, Others, Same

LEMMA OpOfAsk == ASSUME NEW ask \in Hours!Ask PROVE ask.op \in Operations
BY DEF Hours!Ask, Operations

\* A request that answers or goes on to invalidate is as sound as it was.
LEMMA EndsSound ==
  ASSUME HoursTypeInv, NEW q \in Request, request[q].pc # "idle",
         request'[q].ask = request[q].ask,
         \/ request'[q].pc = "done"
         \/ /\ request[q].pc # "done"
               /\ request'[q].pc \in {"invalidate", "read_services"}
            /\ request'[q].answer = request[q].answer
  PROVE  Sound(q)'
BY DEF HoursTypeInv, Sound, Operations

LEMMA UnchangedSound ==
  ASSUME HoursTypeInv, NEW q \in Request, request[q].pc # "idle", NEW code \in Hours!Code,
         Hours!Unchanged(q, code)
  PROVE  Others(q) /\ Sound(q)'
<1>1. Hours!Answer(q, code)
  BY DEF Hours!Unchanged
<1> QED BY <1>1, AnswerStep, EndsSound

LEMMA WroteSound ==
  ASSUME HoursTypeInv, NEW q \in Request, request[q].pc \notin {"idle", "done"},
         NEW label \in {"invalidate", "read_services"}, Hours!Wrote(q, label)
  PROVE  Others(q) /\ Sound(q)'
<1>1. label \in Hours!Label
  BY DEF Hours!Label
<1> QED BY <1>1, WroteStep, EndsSound

LEMMA AddsSound ==
  ASSUME HoursTypeInv, NEW q \in Request, request[q].pc \notin {"idle", "done"},
         NEW p, NEW r, Hours!AddsToScope(q, "invalidate", p, r)
  PROVE  Others(q) /\ Sound(q)'
<1>1. "invalidate" \in Hours!Label
  BY DEF Hours!Label
<1> QED BY <1>1, AddsStep, EndsSound

LEMMA ArriveSound ==
  ASSUME HoursTypeInv, NEW q \in Request, Hours!Arrive(q)
  PROVE  Others(q) /\ Sound(q)'
<1>1. request[q] \in Requests /\ request[q].pc = "idle" /\ request[q].answer = None
  BY DEF HoursTypeInv, Hours!TypeOK, Requests, Hours!Arrive, Sound
<1>2. PICK ask \in Asks :
        LET first == IF Hours!NamesResource(ask) THEN "owned" ELSE ask.op IN
        IF Hours!Valid(ask) THEN request' = [request EXCEPT ![q].ask = ask,
           ![q].pc = first]
        ELSE request' = [request EXCEPT ![q].ask = ask, ![q].pc = "done",
                                        ![q].answer = "VALIDATION"]
  BY DEF Hours!Arrive
<1>3. ask \in Hours!Ask /\ ask.op \in Operations
  BY OpOfAsk DEF HoursTypeInv, Hours!HoursAssumption
<1> DEFINE first == IF Hours!NamesResource(ask) THEN "owned" ELSE ask.op
<1>4. first \in Hours!Label
      /\ first \notin {"idle", "attach_each", "clear", "fill", "done"}
  BY <1>3 DEF Operations, Hours!Label
<1>5. first \in {"create_hours", "replace_hours", "create_exception"}
        => first = ask.op /\ ask.resource = None
  BY DEF Hours!NamesResource
<1>6. first \in Operations => first = ask.op
  BY DEF Operations
<1>7. first = "owned" => Hours!NamesResource(ask)
  BY <1>3 DEF Operations
<1> HIDE DEF first
<1>8. CASE Hours!Valid(ask)
  <2> DEFINE x == [request[q] EXCEPT !.ask = ask, !.pc = first]
  <2>1. x \in Requests /\ x.pc = first /\ x.ask = ask /\ x.answer = None
    BY <1>1, <1>4 DEF Requests
  <2>2. request' = [request EXCEPT ![q] = x]
    BY <1>2, <1>8 DEF first
  <2> HIDE DEF x
  <2> QED BY <2>1, <2>2, <1>4, <1>5, <1>6, <1>7, SetStep DEF Sound
<1>9. CASE ~Hours!Valid(ask)
  <2> DEFINE x == [request[q] EXCEPT !.ask = ask, !.pc = "done", !.answer = "VALIDATION"]
  <2>1. x \in Requests /\ x.pc = "done" /\ x.ask = ask
    BY <1>1 DEF Requests, Hours!Label, Hours!Code
  <2>2. request' = [request EXCEPT ![q] = x]
    BY <1>2, <1>9
  <2> HIDE DEF x
  <2> QED BY <2>1, <2>2, SetStep DEF Sound, Operations
<1> QED BY <1>8, <1>9

LEMMA OwnedSound ==
  ASSUME HoursTypeInv, NEW q \in Request, Hours!AssertResourceOwned(q)
  PROVE  Others(q) /\ Sound(q)'
<1> DEFINE ask == request[q].ask
<1>1. request[q].pc = "owned" /\ Hours!NamesResource(ask) /\ request[q].answer = None
      /\ ask \in Asks
  BY DEF Hours!AssertResourceOwned, HoursTypeInv, Sound
<1>2. CASE Hours!Owned(ask.provider, ask.resource)
  <2>1. Hours!Goto(q, ask.op) /\ ask.op \in Hours!Label /\ ask.op \in Operations
        /\ ask.op \notin {"idle", "owned", "attach_each", "clear", "fill", "done"}
    BY <1>1, <1>2
       DEF Hours!AssertResourceOwned, Hours!NamesResource, Hours!Label, Operations
  <2> QED BY <1>1, <1>2, <2>1, GotoStep DEF Sound, Hours!Owned
<1>3. CASE ~Hours!Owned(ask.provider, ask.resource)
  <2>1. Hours!Answer(q, "NOT_FOUND") /\ "NOT_FOUND" \in Hours!Code
    BY <1>3 DEF Hours!AssertResourceOwned, Hours!Code
  <2> QED BY <1>1, <2>1, AnswerStep, EndsSound
<1> QED BY <1>2, <1>3

LEMMA ResourceSound ==
  ASSUME HoursTypeInv, NEW q \in Request,
         Hours!CreateResource(q) \/ Hours!AttachEach(q) \/ Hours!UpdateResource(q)
            \/ Hours!ListServiceIDs(q)
         \/ Hours!DeleteResource(q) \/ Hours!AttachService(q) \/ Hours!DetachService(q)
  PROVE  Others(q) /\ Sound(q)'
<1> USE DEF Hours!Code
<1>0. request[q] \in Requests /\ Sound(q)
  BY DEF HoursTypeInv, Hours!TypeOK, Requests
<1>1. CASE Hours!CreateResource(q)
  <2>1. PICK r \in Resource :
          request' = [request EXCEPT ![q].pc = "attach_each",
                        ![q].left = request[q].ask.services,
                        ![q].rows = {r}, ![q].wrote = TRUE]
    BY <1>1 DEF Hours!CreateResource
  <2> DEFINE x == [request[q] EXCEPT !.pc = "attach_each",
                     !.left = request[q].ask.services, !.rows = {r}, !.wrote = TRUE]
  <2>2. request[q].pc = "create_resource" /\ request[q].ask.op = "create_resource"
        /\ request[q].ask \in Asks /\ request[q].answer = None
    BY <1>0, <1>1 DEF Hours!CreateResource, Sound, Operations
  <2>3. request[q].ask.services \subseteq Service
    BY <2>2, AskType
  <2>4. x \in Requests /\ x.pc = "attach_each" /\ x.ask = request[q].ask /\ x.wrote
        /\ x.answer = None
    BY <1>0, <2>2, <2>3 DEF Requests, Hours!Label
  <2>5. request' = [request EXCEPT ![q] = x]
    BY <2>1
  <2> HIDE DEF x
  <2> QED BY <2>2, <2>4, <2>5, SetStep DEF Sound, Operations
<1>2. CASE Hours!AttachEach(q)
  <2>0. request[q].pc = "attach_each"
    BY <1>2 DEF Hours!AttachEach
  <2>1. CASE Hours!Goto(q, "invalidate")
    <3>1. "invalidate" \in Hours!Label
      BY DEF Hours!Label
    <3> QED BY <2>0, <2>1, <3>1, GotoStep, EndsSound
  <2>2. CASE Hours!Answer(q, "INTERNAL")
    BY <2>0, <2>2, AnswerStep, EndsSound
  <2>3. ASSUME NEW s \in request[q].left,
               request' = [request EXCEPT ![q].left = @ \ {s}]
        PROVE  Others(q) /\ Sound(q)'
    <3> DEFINE x == [request[q] EXCEPT !.left = @ \ {s}]
    <3>1. x \in Requests /\ x.pc = request[q].pc /\ x.ask = request[q].ask
          /\ x.wrote = request[q].wrote /\ x.answer = request[q].answer
      BY <1>0 DEF Requests
    <3>2. request' = [request EXCEPT ![q] = x]
      BY <2>3
    <3> HIDE DEF x
    <3> QED BY <1>0, <3>1, <3>2, SetStep DEF Sound
  <2> QED BY <1>2, <2>1, <2>2, <2>3 DEF Hours!AttachEach
<1>3. CASE Hours!UpdateResource(q)
  BY <1>3, WroteSound, UnchangedSound DEF Hours!UpdateResource
<1>4. CASE Hours!ListServiceIDs(q)
  <2>1. Hours!Goto(q, "invalidate") /\ "invalidate" \in Hours!Label
        /\ request[q].pc = "read_services"
    BY <1>4 DEF Hours!Label, Hours!ListServiceIDs
  <2> QED BY <2>1, GotoStep, EndsSound
<1>5. CASE Hours!DeleteResource(q)
  BY <1>5, WroteSound, UnchangedSound DEF Hours!DeleteResource
<1>6. CASE Hours!AttachService(q)
  BY <1>6, WroteSound, UnchangedSound DEF Hours!AttachService
<1>7. CASE Hours!DetachService(q)
  BY <1>7, WroteSound, UnchangedSound DEF Hours!DetachService
<1> QED BY <1>1, <1>2, <1>3, <1>4, <1>5, <1>6, <1>7

LEMMA HoursSound ==
  ASSUME HoursTypeInv, NEW q \in Request,
         Hours!CreateHours(q) \/ Hours!ReplaceHours(q)
            \/ Hours!DeleteBusinessHoursForScope(q)
         \/ Hours!FillAndCommit(q) \/ Hours!UpdateHours(q) \/ Hours!DeleteHours(q)
  PROVE  Others(q) /\ Sound(q)'
<1> USE DEF Hours!Code
<1>0. request[q] \in Requests /\ Sound(q)
  BY DEF HoursTypeInv, Hours!TypeOK, Requests
<1>1. CASE Hours!CreateHours(q)
  BY <1>1, AddsSound, UnchangedSound DEF Hours!CreateHours
<1>2. CASE Hours!ReplaceHours(q)
  <2> DEFINE rows == Hours!RowsOfScope(request[q].ask.provider, request[q].ask.resource)
             x == [request[q] EXCEPT !.pc = "clear", !.rows = rows]
  <2>1. request[q].pc = "replace_hours"
        /\ request' = [request EXCEPT ![q] = x]
    BY <1>2 DEF Hours!ReplaceHours
  <2>2. rows \subseteq Row
    BY DEF Hours!RowsOfScope
  <2> HIDE DEF rows
  <2>3. x \in Requests /\ x.pc = "clear" /\ x.ask = request[q].ask
        /\ x.wrote = request[q].wrote /\ x.answer = request[q].answer
    BY <1>0, <2>2 DEF Requests, Hours!Label
  <2> HIDE DEF x
  <2> QED BY <1>0, <2>1, <2>3, SetStep DEF Sound, Operations
<1>3. CASE Hours!DeleteBusinessHoursForScope(q)
  <2> DEFINE rows == { h \in request[q].rows : hours[h] # None }
             x == [request[q] EXCEPT !.pc = "fill", !.rows = rows]
  <2>1. request[q].pc = "clear" /\ request' = [request EXCEPT ![q] = x]
    BY <1>3 DEF Hours!DeleteBusinessHoursForScope
  <2>2. rows \subseteq Row \cup Resource
    BY <1>0 DEF Requests
  <2> HIDE DEF rows
  <2>3. x \in Requests /\ x.pc = "fill" /\ x.ask = request[q].ask
        /\ x.wrote = request[q].wrote /\ x.answer = request[q].answer
    BY <1>0, <2>2 DEF Requests, Hours!Label
  <2> HIDE DEF x
  <2> QED BY <1>0, <2>1, <2>3, SetStep DEF Sound, Operations
<1>4. CASE Hours!FillAndCommit(q)
  <2>1. request[q].pc = "fill"
    BY <1>4 DEF Hours!FillAndCommit
  <2>2. CASE Hours!AddsToScope(q, "invalidate", request[q].ask.provider,
        request[q].ask.resource)
    BY <2>1, <2>2, AddsSound
  <2>3. CASE Hours!Unchanged(q, "INTERNAL")
    BY <2>1, <2>3, UnchangedSound
  <2> QED BY <1>4, <2>2, <2>3 DEF Hours!FillAndCommit
<1>5. CASE Hours!UpdateHours(q)
  BY <1>5, WroteSound, UnchangedSound DEF Hours!UpdateHours
<1>6. CASE Hours!DeleteHours(q)
  BY <1>6, WroteSound, UnchangedSound DEF Hours!DeleteHours
<1> QED BY <1>1, <1>2, <1>3, <1>4, <1>5, <1>6

LEMMA StepSound ==
  ASSUME HoursTypeInv, NEW q \in Request, Hours!Step(q)
  PROVE  Others(q) /\ Sound(q)'
<1> USE DEF Hours!Code
<1>1. CASE Hours!CreateException(q)
  BY <1>1, WroteSound, UnchangedSound DEF Hours!CreateException
<1>2. CASE Hours!DeleteException(q)
  BY <1>2, WroteSound, UnchangedSound DEF Hours!DeleteException
<1>3. CASE Hours!InvalidateProvider(q)
  BY <1>3, AnswerStep, EndsSound DEF Hours!InvalidateProvider
<1>4. CASE Hours!Fault(q)
  BY <1>4, AnswerStep, EndsSound DEF Hours!Fault, Hours!FaultCode, Hours!Busy
<1> QED BY <1>1, <1>2, <1>3, <1>4, ArriveSound, OwnedSound, ResourceSound, HoursSound
        DEF Hours!Step

-----------------------------------------------------------------------------
(* The rows of a scope are of a resource of the provider's own, or of none. *)

OwnScope(row) ==
  row.resource # None => row.resource \in resource /\ Owner[row.resource] = row.provider

\* What is inserted was checked: it goes forwards, and its scope is the asker's own.
NewRow(row) == row \in Hours!HoursRow /\ Hours!Forwards(row.span) /\ OwnScope(row)

LEMMA SqlTimeType ==
  ASSUME Hours!HoursAssumption, NEW t \in 0..Midnight
  PROVE  Hours!SqlTime(t) \in 0..Midnight
<1>1. Midnight \in Nat \ {0} /\ t \in Int
  BY DEF Hours!HoursAssumption
<1>2. t % Midnight \in 0..(Midnight - 1)
  BY <1>1
<1> QED BY <1>1, <1>2 DEF Hours!SqlTime

LEMMA StoredType ==
  ASSUME Hours!HoursAssumption, NEW span \in Hours!Span
  PROVE  Hours!Stored(span) \in Hours!Span
     /\ (Hours!OpensBeforeCloses(span) => Hours!Forwards(Hours!Stored(span)))
<1>1. Hours!SqlTime(span.opens) \in 0..Midnight
      /\ Hours!SqlTime(span.closes) \in 0..Midnight
  BY SqlTimeType DEF Hours!Span
<1> QED BY <1>1 DEF Hours!Stored, Hours!Span, Hours!OpensBeforeCloses, Hours!Forwards

LEMMA PatchedType ==
  ASSUME Hours!HoursAssumption, NEW span \in Hours!Span, NEW patch \in Hours!Patch
  PROVE  Hours!Patched(span, patch) \in Hours!Span
<1>1. \A t \in 0..Midnight : Hours!SqlTime(t) \in 0..Midnight
  BY SqlTimeType
<1> QED BY <1>1 DEF Hours!Patched, Hours!Patch, Hours!Span

LEMMA NewHoursRow ==
  ASSUME HoursTypeInv, NEW q \in Request, request[q].pc \in {"create_hours", "fill"},
         NEW span \in Hours!Span, Hours!Insertable(request[q].ask.resource, span)
  PROVE  NewRow(Hours!NewHours(request[q].ask, span))
<1> DEFINE ask == request[q].ask
<1>1. ask.provider \in Provider /\ ask.resource \in Hours!Scope
      /\ (ask.resource # None => Owner[ask.resource] = ask.provider)
  BY AskType DEF HoursTypeInv, Sound, Operations
<1>2. Hours!Stored(span) \in Hours!Span /\ Hours!Forwards(Hours!Stored(span))
  BY StoredType DEF Hours!Insertable, HoursTypeInv
<1> QED BY <1>1, <1>2
           DEF NewRow, Hours!NewHours, Hours!HoursRow, OwnScope, Hours!Insertable

HoursFit ==
  /\ hours \in [Row -> Hours!HoursRow \cup {None}]
  /\ \A h \in Row : hours[h] # None => Hours!Forwards(hours[h].span) /\ OwnScope(hours[h])

\* Each row is what it was, gone, or new, and no resource goes away.
LEMMA HoursKept ==
  ASSUME HoursTypeInv, HoursFit, hours' \in [Row -> Hours!HoursRow \cup {None}],
         resource \subseteq resource',
         \A h \in Row : hours'[h] = hours[h] \/ hours'[h] = None \/ NewRow(hours'[h])
  PROVE  HoursFit'
BY DEF HoursFit, NewRow, OwnScope

LEMMA HoursFilled ==
  ASSUME HoursTypeInv, HoursFit, NEW q \in Request, Hours!FillAndCommit(q)
  PROVE  HoursFit'
<1> DEFINE ask == request[q].ask
           week == ask.week
<1>1. request[q].pc = "fill" /\ UNCHANGED resource
  BY DEF Hours!FillAndCommit, Hours!Unchanged
<1>2. week \subseteq Hours!Span
  BY <1>1, AskType DEF HoursTypeInv, Sound
<1>3. CASE Hours!Unchanged(q, "INTERNAL")
  BY <1>3, HoursKept DEF Hours!Unchanged, HoursFit
<1>4. CASE \A span \in week : Hours!Insertable(ask.resource, span)
  <2>1. CASE hours' = hours
    BY <1>1, <2>1, HoursKept DEF HoursFit
  <2>2. CASE hours' # hours
    <3>1. PICK row \in [week -> Row \ used] :
            hours' = [h \in Row |->
               IF h \in { row[span] : span \in week }
               THEN Hours!NewHours(ask, CHOOSE span \in week : row[span] = h)
               ELSE IF h \in request[q].rows THEN None ELSE hours[h]]
      BY <1>4, <2>2 DEF Hours!FillAndCommit, Hours!Unchanged
    <3>2. ASSUME NEW h \in Row
          PROVE  hours'[h] = hours[h] \/ hours'[h] = None \/ NewRow(hours'[h])
      <4>1. CASE h \in { row[span] : span \in week }
        <5> DEFINE s == CHOOSE span \in week : row[span] = h
        <5>1. s \in week
          BY <4>1
        <5>2. hours'[h] = Hours!NewHours(ask, s)
          BY <3>1, <4>1
        <5>3. Hours!Insertable(ask.resource, s) /\ s \in Hours!Span
          BY <5>1, <1>2, <1>4
        <5> HIDE DEF s
        <5> QED BY <5>2, <5>3, <1>1, NewHoursRow
      <4>2. CASE h \notin { row[span] : span \in week }
        BY <3>1, <4>2
      <4> QED BY <4>1, <4>2
    <3>3. hours' \in [Row -> Hours!HoursRow \cup {None}]
      <4>1. \A h \in Row : hours'[h] \in Hours!HoursRow \cup {None}
        BY <3>2 DEF NewRow, HoursFit
      <4>2. hours' = [h \in Row |-> hours'[h]]
        BY <3>1
      <4> QED BY <4>1, <4>2
    <3> QED BY <1>1, <3>2, <3>3, HoursKept
  <2> QED BY <2>1, <2>2
<1> QED BY <1>3, <1>4 DEF Hours!FillAndCommit

\* With a resource go all the rows that speak of it, for they are its owner's.
LEMMA HoursCascade ==
  ASSUME HoursTypeInv, HoursFit, NEW q \in Request, Hours!DeleteResource(q)
  PROVE  HoursFit'
<1> DEFINE ask == request[q].ask
           r == ask.resource
<1>1. CASE UNCHANGED <<resource, hours>>
  BY <1>1 DEF HoursFit, OwnScope
<1>2. CASE /\ Owner[r] = ask.provider
           /\ resource' = resource \ {r}
           /\ hours' = [h \in Row |->
                IF h \in Hours!RowsOfScope(ask.provider, r) THEN None ELSE hours[h]]
  <2>1. \A h \in Row : hours'[h] = None
          \/ (hours'[h] = hours[h] /\ h \notin Hours!RowsOfScope(ask.provider, r))
    BY <1>2
  <2>2. hours' \in [Row -> Hours!HoursRow \cup {None}]
    BY <1>2 DEF HoursFit
  <2>3. ASSUME NEW h \in Row, hours'[h] # None
        PROVE  (Hours!Forwards(hours[h].span) /\ OwnScope(hours[h]))'
    <3>1. hours'[h] = hours[h] /\ h \notin Hours!RowsOfScope(ask.provider, r)
      BY <2>1, <2>3
    <3>2. Hours!Forwards(hours[h].span) /\ OwnScope(hours[h])
      BY <2>3, <3>1 DEF HoursFit
    <3>3. hours[h].resource # r \/ hours[h].resource = None
      BY <3>1, <3>2, <2>3, <1>2 DEF Hours!RowsOfScope, OwnScope
    <3> QED BY <3>1, <3>2, <3>3, <1>2 DEF OwnScope
  <2> QED BY <2>2, <2>3 DEF HoursFit
<1> QED BY <1>1, <1>2 DEF Hours!DeleteResource, Hours!Unchanged, Hours!Owned

LEMMA HoursStep ==
  ASSUME HoursTypeInv, HoursFit, NEW q \in Request, Hours!Step(q)
  PROVE  HoursFit'
<1>1. CASE Hours!Arrive(q) \/ Hours!AssertResourceOwned(q) \/ Hours!AttachEach(q)
      \/ Hours!UpdateResource(q)
           \/ Hours!ListServiceIDs(q) \/ Hours!AttachService(q) \/ Hours!DetachService(q)
              \/ Hours!ReplaceHours(q)
           \/ Hours!DeleteBusinessHoursForScope(q) \/ Hours!CreateException(q)
              \/ Hours!DeleteException(q)
           \/ Hours!InvalidateProvider(q) \/ Hours!Fault(q)
  <2>1. UNCHANGED <<hours, resource>>
    BY <1>1
       DEF Hours!Arrive, Hours!AssertResourceOwned, Hours!AttachEach,
           Hours!UpdateResource, Hours!ListServiceIDs, Hours!AttachService,
           Hours!DetachService, Hours!ReplaceHours, Hours!DeleteBusinessHoursForScope,
           Hours!CreateException, Hours!DeleteException, Hours!InvalidateProvider,
           Hours!Fault, Hours!Unchanged
  <2> QED BY <2>1 DEF HoursFit, OwnScope
<1>2. CASE Hours!CreateResource(q)
  <2>1. UNCHANGED hours /\ resource \subseteq resource'
    BY <1>2 DEF Hours!CreateResource
  <2> QED BY <2>1, HoursKept DEF HoursFit
<1>3. CASE Hours!CreateHours(q)
  <2> DEFINE ask == request[q].ask
  <2>1. request[q].pc = "create_hours" /\ UNCHANGED resource
    BY <1>3 DEF Hours!CreateHours, Hours!Unchanged
  <2>2. ask.op = "create_hours" /\ ask.span \in Hours!Span
    BY <2>1, AskType DEF HoursTypeInv, Sound, Operations
  <2>3. CASE hours' = hours
    BY <2>1, <2>3, HoursKept DEF HoursFit
  <2>4. CASE hours' # hours
    <3>1. PICK h \in Row : hours' = [hours EXCEPT ![h] = Hours!NewHours(ask, ask.span)]
      BY <1>3, <2>4 DEF Hours!CreateHours, Hours!Unchanged
    <3>2. NewRow(Hours!NewHours(ask, ask.span))
      BY <1>3, <2>1, <2>2, <2>4, NewHoursRow DEF Hours!CreateHours, Hours!Unchanged
    <3>3. hours' \in [Row -> Hours!HoursRow \cup {None}]
      BY <3>1, <3>2 DEF HoursFit, NewRow
    <3>4. \A k \in Row : hours'[k] = hours[k] \/ NewRow(hours'[k])
      BY <3>1, <3>2 DEF HoursFit
    <3> QED BY <2>1, <3>3, <3>4, HoursKept
  <2> QED BY <2>3, <2>4
<1>4. CASE Hours!UpdateHours(q)
  <2> DEFINE ask == request[q].ask
             h == ask.row
  <2>1. request[q].pc = "update_hours" /\ UNCHANGED resource
    BY <1>4 DEF Hours!UpdateHours, Hours!Unchanged
  <2>2. h \in Row /\ ask.patch \in Hours!Patch
    BY <2>1, AskType DEF HoursTypeInv, Sound, Operations
  <2>3. CASE hours' = hours
    BY <2>1, <2>3, HoursKept DEF HoursFit
  <2>4. CASE hours' # hours
    <3> DEFINE new == [hours[h] EXCEPT !.span = Hours!Patched(@, ask.patch)]
    <3>1. /\ hours[h] # None /\ Hours!Forwards(Hours!Patched(hours[h].span, ask.patch))
          /\ hours' = [hours EXCEPT ![h] = new]
      BY <1>4, <2>4 DEF Hours!UpdateHours, Hours!Unchanged, Hours!HasHours
    <3>2. hours[h] \in Hours!HoursRow /\ OwnScope(hours[h])
      BY <2>2, <3>1 DEF HoursFit
    <3>3. Hours!Patched(hours[h].span, ask.patch) \in Hours!Span
      BY <2>2, <3>2, PatchedType DEF HoursTypeInv, Hours!HoursRow
    <3>4. NewRow(new)
      BY <3>1, <3>2, <3>3 DEF NewRow, Hours!HoursRow, OwnScope
    <3> HIDE DEF new
    <3>5. hours' \in [Row -> Hours!HoursRow \cup {None}]
      BY <3>1, <3>4 DEF HoursFit, NewRow
    <3>6. \A k \in Row : hours'[k] = hours[k] \/ NewRow(hours'[k])
      BY <3>1, <3>4 DEF HoursFit
    <3> QED BY <2>1, <3>5, <3>6, HoursKept
  <2> QED BY <2>3, <2>4
<1>5. CASE Hours!DeleteHours(q)
  <2>1. UNCHANGED resource
        /\ (hours' = hours \/ hours' = [hours EXCEPT ![request[q].ask.row] = None])
    BY <1>5 DEF Hours!DeleteHours, Hours!Unchanged
  <2>2. hours' \in [Row -> Hours!HoursRow \cup {None}]
        /\ \A h \in Row : hours'[h] = hours[h] \/ hours'[h] = None
    BY <2>1 DEF HoursFit
  <2> QED BY <2>1, <2>2, HoursKept
<1> QED BY <1>1, <1>2, <1>3, <1>4, <1>5, HoursFilled, HoursCascade DEF Hours!Step

\* The exceptions likewise.
ExceptionsFit ==
  /\ exception \in [Exception -> Hours!ExceptionRow \cup {None}]
  /\ \A e \in Exception : exception[e] # None => OwnScope(exception[e])

NewException(ask) ==
  [ provider |-> ask.provider, resource |-> ask.resource, date |-> ask.date,
    span |-> IF ask.span = None THEN None ELSE Hours!Stored(ask.span) ]

Accepted(ask) ==
  /\ \A e \in Exception : ~Hours!Clashes(e, ask)
  /\ ask.span # None => Hours!OpensBeforeCloses(ask.span)
  /\ ask.resource = None \/ ask.resource \in resource

\* The one way in which a row appears: it clashes with none, and it is the asker's own.
LEMMA CreateExceptionStep ==
  ASSUME HoursTypeInv, NEW q \in Request, Hours!CreateException(q), exception' # exception
  PROVE  LET ask == request[q].ask IN
         /\ Accepted(ask) /\ UNCHANGED <<resource, performs, hours>>
         /\ NewException(ask) \in Hours!ExceptionRow /\ OwnScope(NewException(ask))
         /\ \E e \in Exception \ used :
              /\ exception' = [exception EXCEPT ![e] = NewException(ask)]
              /\ used' = used \cup {e}
<1> DEFINE ask == request[q].ask
<1>1. request[q].pc = "create_exception" /\ ask.op = "create_exception"
  BY DEF Hours!CreateException, HoursTypeInv, Sound, Operations
<1>2. ask.provider \in Provider /\ ask.resource \in Hours!Scope /\ ask.date \in Date
      /\ ask.span \in Hours!Span \cup {None}
      /\ (ask.resource # None => Owner[ask.resource] = ask.provider)
  BY <1>1, AskType DEF HoursTypeInv, Sound
<1>3. /\ Accepted(ask) /\ UNCHANGED <<resource, performs, hours>>
      /\ \E e \in Exception \ used :
           /\ exception' = [exception EXCEPT ![e] = NewException(ask)]
           /\ used' = used \cup {e}
  BY DEF Hours!CreateException, Hours!Unchanged, Accepted, NewException
<1>4. ask.span # None => Hours!Stored(ask.span) \in Hours!Span
  BY <1>2, StoredType DEF HoursTypeInv
<1>5. NewException(ask) \in Hours!ExceptionRow
  BY <1>2, <1>4 DEF NewException, Hours!ExceptionRow
<1>6. OwnScope(NewException(ask))
  BY <1>2, <1>3 DEF OwnScope, NewException, Accepted
<1> QED BY <1>3, <1>5, <1>6

LEMMA ExceptionsCascade ==
  ASSUME HoursTypeInv, ExceptionsFit, NEW q \in Request, Hours!DeleteResource(q)
  PROVE  ExceptionsFit'
<1> DEFINE r == request[q].ask.resource
<1>1. CASE UNCHANGED <<resource, exception>>
  BY <1>1 DEF ExceptionsFit, OwnScope
<1>2. CASE /\ resource' = resource \ {r}
           /\ exception' = [e \in Exception |->
                IF exception[e] # None /\ exception[e].resource = r THEN None
                ELSE exception[e]]
  <2>1. \A e \in Exception : exception'[e] # None =>
          exception'[e] = exception[e] /\ exception[e].resource # r
    BY <1>2
  <2>2. exception' \in [Exception -> Hours!ExceptionRow \cup {None}]
    BY <1>2 DEF ExceptionsFit
  <2> QED BY <1>2, <2>1, <2>2 DEF ExceptionsFit, OwnScope
<1> QED BY <1>1, <1>2 DEF Hours!DeleteResource, Hours!Unchanged

LEMMA ExceptionsStep ==
  ASSUME HoursTypeInv, ExceptionsFit, NEW q \in Request, Hours!Step(q)
  PROVE  ExceptionsFit'
<1>1. CASE UNCHANGED exception /\ resource \subseteq resource'
  BY <1>1 DEF ExceptionsFit, OwnScope
<1>2. CASE Hours!CreateException(q) /\ exception' # exception
  <2>1. PICK e \in Exception :
          /\ exception' = [exception EXCEPT ![e] = NewException(request[q].ask)]
          /\ UNCHANGED resource
          /\ NewException(request[q].ask) \in Hours!ExceptionRow
          /\ OwnScope(NewException(request[q].ask))
    BY <1>2, CreateExceptionStep
  <2> QED BY <2>1 DEF ExceptionsFit, OwnScope
<1>3. CASE Hours!DeleteException(q)
  <2>1. /\ UNCHANGED resource
        /\ \/ UNCHANGED exception
           \/ exception' = [exception EXCEPT ![request[q].ask.row] = None]
    BY <1>3 DEF Hours!DeleteException, Hours!Unchanged
  <2> QED BY <2>1 DEF ExceptionsFit, OwnScope
<1>4. \/ UNCHANGED exception /\ resource \subseteq resource'
      \/ Hours!CreateException(q) /\ exception' # exception
      \/ Hours!DeleteException(q)
      \/ Hours!DeleteResource(q)
  <2>1. Hours!Arrive(q) \/ Hours!AssertResourceOwned(q) \/ Hours!AttachEach(q)
        \/ Hours!UpdateResource(q)
          \/ Hours!ListServiceIDs(q) \/ Hours!AttachService(q) \/ Hours!DetachService(q)
          \/ Hours!InvalidateProvider(q) \/ Hours!Fault(q)
        => UNCHANGED <<exception, resource>>
    BY DEF Hours!Arrive, Hours!AssertResourceOwned, Hours!AttachEach,
           Hours!UpdateResource, Hours!ListServiceIDs, Hours!AttachService,
           Hours!DetachService, Hours!InvalidateProvider, Hours!Fault, Hours!Unchanged
  <2>2. Hours!CreateHours(q) \/ Hours!ReplaceHours(q)
        \/ Hours!DeleteBusinessHoursForScope(q)
          \/ Hours!FillAndCommit(q) \/ Hours!UpdateHours(q) \/ Hours!DeleteHours(q)
        => UNCHANGED <<exception, resource>>
    BY DEF Hours!CreateHours, Hours!ReplaceHours, Hours!DeleteBusinessHoursForScope,
           Hours!FillAndCommit, Hours!UpdateHours, Hours!DeleteHours, Hours!Unchanged
  <2>3. Hours!CreateException(q) => UNCHANGED resource
    BY DEF Hours!CreateException, Hours!Unchanged
  <2>4. Hours!CreateResource(q) => UNCHANGED exception /\ resource \subseteq resource'
    BY DEF Hours!CreateResource
  <2> QED BY <2>1, <2>2, <2>3, <2>4 DEF Hours!Step
<1> QED BY <1>1, <1>2, <1>3, <1>4, ExceptionsCascade

-----------------------------------------------------------------------------
(* The other tables, and the invariant.                                    *)

RestTyped ==
  /\ resource \subseteq Resource
  /\ performs \subseteq Resource \X Existing
  /\ used \subseteq Resource \cup Row \cup Exception
  /\ lists \in [Provider -> SUBSET Hours!List]
  /\ faults \in 0..MaxFaults

LEMMA ResourceRest ==
  ASSUME HoursTypeInv, NEW q \in Request,
         Hours!CreateResource(q) \/ Hours!AttachEach(q) \/ Hours!UpdateResource(q)
            \/ Hours!ListServiceIDs(q)
         \/ Hours!DeleteResource(q) \/ Hours!AttachService(q) \/ Hours!DetachService(q)
  PROVE  RestTyped'
<1>1. RestTyped /\ Hours!HoursAssumption
  BY DEF HoursTypeInv, Hours!TypeOK, RestTyped
<1>2. request[q].pc # "idle"
  BY DEF Hours!CreateResource, Hours!AttachEach, Hours!UpdateResource,
         Hours!ListServiceIDs, Hours!DeleteResource, Hours!AttachService,
         Hours!DetachService
<1>3. request[q].ask.provider \in Provider
  BY <1>2, AskType
<1>4. Hours!Touch(request[q].ask.provider) =>
        lists' \in [Provider -> SUBSET Hours!List]
  BY <1>3, TouchStep
<1>5. CASE Hours!CreateResource(q)
  BY <1>1, <1>4, <1>5 DEF RestTyped, Hours!CreateResource
<1>6. CASE Hours!AttachEach(q)
  <2>1. performs' \subseteq Resource \X Existing
    BY <1>1, <1>6 DEF Hours!AttachEach, RestTyped, Hours!BothExist
  <2>2. Hours!Touch(request[q].ask.provider) \/ UNCHANGED lists
    BY <1>6 DEF Hours!AttachEach
  <2> QED BY <1>1, <1>4, <1>6, <2>1, <2>2 DEF RestTyped, Hours!AttachEach
<1>7. CASE Hours!UpdateResource(q)
  BY <1>1, <1>4, <1>7 DEF RestTyped, Hours!UpdateResource, Hours!Wrote, Hours!Unchanged
<1>8. CASE Hours!ListServiceIDs(q)
  BY <1>1, <1>8 DEF RestTyped, Hours!ListServiceIDs
<1>9. CASE Hours!DeleteResource(q)
  BY <1>1, <1>4, <1>9 DEF RestTyped, Hours!DeleteResource, Hours!Wrote, Hours!Unchanged
<1>10. CASE Hours!AttachService(q)
  <2>1. performs' \subseteq Resource \X Existing
    BY <1>1, <1>10 DEF Hours!AttachService, RestTyped, Hours!BothExist, Hours!Unchanged
  <2> QED BY <1>1, <1>4, <1>10, <2>1
             DEF RestTyped, Hours!AttachService, Hours!Wrote, Hours!Unchanged
<1>11. CASE Hours!DetachService(q)
  BY <1>1, <1>4, <1>11 DEF RestTyped, Hours!DetachService, Hours!Wrote, Hours!Unchanged
<1> QED BY <1>5, <1>6, <1>7, <1>8, <1>9, <1>10, <1>11

LEMMA HoursRest ==
  ASSUME HoursTypeInv, NEW q \in Request,
         Hours!CreateHours(q) \/ Hours!ReplaceHours(q)
            \/ Hours!DeleteBusinessHoursForScope(q)
         \/ Hours!FillAndCommit(q) \/ Hours!UpdateHours(q) \/ Hours!DeleteHours(q)
         \/ Hours!CreateException(q) \/ Hours!DeleteException(q)
  PROVE  RestTyped'
<1>1. RestTyped /\ Hours!HoursAssumption
  BY DEF HoursTypeInv, Hours!TypeOK, RestTyped
<1>2. request[q].pc # "idle"
  BY DEF Hours!CreateHours, Hours!ReplaceHours, Hours!DeleteBusinessHoursForScope,
         Hours!FillAndCommit, Hours!UpdateHours, Hours!DeleteHours,
         Hours!CreateException, Hours!DeleteException
<1>3. request[q].ask.provider \in Provider
  BY <1>2, AskType
<1>4. Hours!Touch(request[q].ask.provider) =>
        lists' \in [Provider -> SUBSET Hours!List]
  BY <1>3, TouchStep
<1>5. CASE Hours!CreateHours(q)
  BY <1>1, <1>4, <1>5 DEF RestTyped, Hours!CreateHours, Hours!AddsToScope, Hours!Unchanged
<1>6. CASE Hours!ReplaceHours(q) \/ Hours!DeleteBusinessHoursForScope(q)
  BY <1>1, <1>6 DEF RestTyped, Hours!ReplaceHours, Hours!DeleteBusinessHoursForScope
<1>7. CASE Hours!FillAndCommit(q)
  <2>1. used' \subseteq used \cup Row
    BY <1>7 DEF Hours!FillAndCommit, Hours!Unchanged
  <2>2. Hours!Touch(request[q].ask.provider) \/ UNCHANGED lists
    BY <1>7 DEF Hours!FillAndCommit, Hours!AddsToScope, Hours!Unchanged
  <2>3. UNCHANGED <<resource, performs, faults>>
    BY <1>7 DEF Hours!FillAndCommit, Hours!Unchanged
  <2> QED BY <1>1, <1>4, <2>1, <2>2, <2>3 DEF RestTyped
<1>8. CASE Hours!UpdateHours(q)
  BY <1>1, <1>4, <1>8 DEF RestTyped, Hours!UpdateHours, Hours!Wrote, Hours!Unchanged
<1>9. CASE Hours!DeleteHours(q)
  BY <1>1, <1>4, <1>9 DEF RestTyped, Hours!DeleteHours, Hours!Wrote, Hours!Unchanged
<1>10. CASE Hours!CreateException(q)
  BY <1>1, <1>4, <1>10 DEF RestTyped, Hours!CreateException, Hours!Wrote, Hours!Unchanged
<1>11. CASE Hours!DeleteException(q)
  BY <1>1, <1>4, <1>11 DEF RestTyped, Hours!DeleteException, Hours!Wrote, Hours!Unchanged
<1> QED BY <1>5, <1>6, <1>7, <1>8, <1>9, <1>10, <1>11

LEMMA StepRest ==
  ASSUME HoursTypeInv, NEW q \in Request, Hours!Step(q)
  PROVE  RestTyped'
<1>1. RestTyped /\ Hours!HoursAssumption
  BY DEF HoursTypeInv, Hours!TypeOK, RestTyped
<1>2. CASE Hours!Arrive(q) \/ Hours!AssertResourceOwned(q)
  BY <1>1, <1>2 DEF RestTyped, Hours!Arrive, Hours!AssertResourceOwned
<1>3. CASE Hours!InvalidateProvider(q)
  BY <1>1, <1>3, DroppedStep DEF RestTyped, Hours!InvalidateProvider
<1>4. CASE Hours!Fault(q)
  BY <1>1, <1>4 DEF RestTyped, Hours!Fault, Hours!HoursAssumption
<1> QED BY <1>2, <1>3, <1>4, ResourceRest, HoursRest DEF Hours!Step

HoursInv == HoursTypeInv /\ HoursFit /\ ExceptionsFit

LEMMA HoursInitInv == Hours!HoursAssumption /\ Hours!Init => HoursInv
<1> SUFFICES ASSUME Hours!HoursAssumption, Hours!Init PROVE HoursInv
  OBVIOUS
<1>1. HoursFit
  BY DEF Hours!Init, HoursFit, Hours!HoursAssumption, Hours!Forwards, OwnScope
<1>2. ExceptionsFit
  BY DEF Hours!Init, ExceptionsFit
<1> QED BY <1>1, <1>2, InitTypeInv DEF HoursInv

LEMMA HoursNextInv == HoursInv /\ [Hours!Next]_(Hours!vars) => HoursInv'
<1> SUFFICES ASSUME HoursInv, [Hours!Next]_(Hours!vars) PROVE HoursInv'
  OBVIOUS
<1> USE DEF HoursInv
<1>1. ASSUME NEW q \in Request, Hours!Step(q) PROVE HoursInv'
  <2>1. HoursFit' /\ ExceptionsFit' /\ RestTyped' /\ Others(q) /\ Sound(q)'
    BY <1>1, HoursStep, ExceptionsStep, StepRest, StepSound
  <2>2. \A x \in Request : Sound(x)'
    BY <2>1 DEF Others, Same, Sound, HoursTypeInv
  <2>3. Hours!TypeOK'
    BY <2>1 DEF Hours!TypeOK, HoursFit, ExceptionsFit, RestTyped, Others, Requests
  <2> QED BY <2>1, <2>2, <2>3 DEF HoursTypeInv, Hours!HoursAssumption
<1>2. ASSUME NEW p \in Provider, Hours!Browse(p) \/ Hours!Put(p) PROVE HoursInv'
  <2>1. lists' \in [Provider -> SUBSET Hours!List]
    BY <1>2, ListedStep
  <2>2. UNCHANGED <<resource, performs, hours, exception, used, request, faults>>
    BY <1>2 DEF Hours!Browse, Hours!Put
  <2> QED BY <2>1, <2>2
             DEF HoursTypeInv, Hours!TypeOK, Sound, HoursFit, ExceptionsFit, OwnScope,
                 Hours!HoursAssumption
<1>3. CASE UNCHANGED Hours!vars
  BY <1>3
     DEF Hours!vars, HoursTypeInv, Hours!TypeOK, Sound, HoursFit, ExceptionsFit,
         OwnScope, Hours!HoursAssumption
<1> QED BY <1>1, <1>2, <1>3 DEF Hours!Next

LEMMA Invariance == Hours!HoursAssumption /\ Hours!Spec => []HoursInv
<1> QED BY HoursInitInv, HoursNextInv, PTL DEF Hours!Spec

\* Every variable holds a value of its kind, and a stored span is never empty and never
\* crosses midnight, whatever is inserted, patched or replaced (ReplaceHours, UpdateHours).
THEOREM HoursTyped == Hours!HoursAssumption /\ Hours!Spec => []Hours!TypeOK
<1>1. HoursInv => Hours!TypeOK
  BY DEF HoursInv, HoursTypeInv
<1> QED BY <1>1, Invariance, PTL

\* Hours and exceptions speak of resources of the provider's own that exist, though the
\* owner is looked up in another statement than the INSERT (assertResourceOwned), and the
\* resource may be deleted between the two.
THEOREM ScopesOwned == Hours!HoursAssumption /\ Hours!Spec => []Hours!ScopesAreOwn
<1>1. HoursInv => Hours!ScopesAreOwn
  <2> SUFFICES ASSUME HoursInv,
               NEW row \in { hours[h] : h \in Row } \cup { exception[e] : e \in Exception },
               row # None, row.resource # None
        PROVE  row.resource \in resource /\ Owner[row.resource] = row.provider
    BY DEF Hours!ScopesAreOwn
  <2>1. CASE \E h \in Row : row = hours[h]
    BY <2>1 DEF HoursInv, HoursFit, OwnScope
  <2>2. CASE \E e \in Exception : row = exception[e]
    BY <2>2 DEF HoursInv, ExceptionsFit, OwnScope
  <2> QED BY <2>1, <2>2
<1> QED BY <1>1, Invariance, PTL

-----------------------------------------------------------------------------
(* One exception for a date and a scope.                                   *)

\* Exceptions appear only in CreateException and never change.
LEMMA ExceptionsOnlyLost ==
  ASSUME HoursInv, NEW q \in Request, Hours!Step(q), ~Hours!CreateException(q)
  PROVE  \A e \in Exception : exception'[e] # None => exception'[e] = exception[e]
<1>0. exception \in [Exception -> Hours!ExceptionRow \cup {None}]
  BY DEF HoursInv, ExceptionsFit
<1>1. CASE Hours!DeleteException(q)
  BY <1>0, <1>1 DEF Hours!DeleteException, Hours!Unchanged
<1>2. CASE Hours!DeleteResource(q)
  BY <1>0, <1>2 DEF Hours!DeleteResource, Hours!Unchanged
<1>3. Hours!Arrive(q) \/ Hours!AssertResourceOwned(q) \/ Hours!AttachEach(q)
      \/ Hours!UpdateResource(q)
        \/ Hours!ListServiceIDs(q) \/ Hours!AttachService(q) \/ Hours!DetachService(q)
        \/ Hours!InvalidateProvider(q) \/ Hours!Fault(q) \/ Hours!CreateResource(q)
      => UNCHANGED exception
  BY DEF Hours!Arrive, Hours!AssertResourceOwned, Hours!AttachEach,
         Hours!UpdateResource, Hours!CreateResource, Hours!ListServiceIDs,
         Hours!AttachService, Hours!DetachService, Hours!InvalidateProvider,
         Hours!Fault, Hours!Unchanged
<1>4. Hours!CreateHours(q) \/ Hours!ReplaceHours(q)
      \/ Hours!DeleteBusinessHoursForScope(q)
        \/ Hours!FillAndCommit(q) \/ Hours!UpdateHours(q) \/ Hours!DeleteHours(q)
      => UNCHANGED exception
  BY DEF Hours!CreateHours, Hours!ReplaceHours, Hours!DeleteBusinessHoursForScope,
         Hours!FillAndCommit, Hours!UpdateHours, Hours!DeleteHours, Hours!Unchanged
<1> QED BY <1>1, <1>2, <1>3, <1>4 DEF Hours!Step

\* The two partial indexes admit no second row.
LEMMA AddedOnce ==
  ASSUME HoursInv, Hours!OneExceptionPerDay, NEW q \in Request, Hours!CreateException(q)
  PROVE  Hours!OneExceptionPerDay'
<1>1. CASE exception' = exception
  BY <1>1 DEF Hours!OneExceptionPerDay
<1>2. CASE exception' # exception
  <2> DEFINE ask == request[q].ask
  <2>1. PICK n \in Exception : exception' = [exception EXCEPT ![n] = NewException(ask)]
    BY <1>2, CreateExceptionStep DEF HoursInv
  <2>2. \A e \in Exception : ~Hours!Clashes(e, ask)
    BY <1>2, CreateExceptionStep DEF HoursInv, Accepted
  <2>3. exception'[n] = NewException(ask)
        /\ \A e \in Exception \ {n} : exception'[e] = exception[e]
    BY <2>1 DEF HoursInv, ExceptionsFit
  <2>4. ASSUME NEW e \in Exception \ {n}, exception[e] # None,
               exception[e].provider = ask.provider, exception[e].resource = ask.resource,
               exception[e].date = ask.date
        PROVE  FALSE
    BY <2>2, <2>4 DEF Hours!Clashes
  <2>5. NewException(ask).provider = ask.provider /\ NewException(ask).date = ask.date
        /\ NewException(ask).resource = ask.resource
    BY DEF NewException
  <2> QED BY <2>3, <2>4, <2>5 DEF Hours!OneExceptionPerDay
<1> QED BY <1>1, <1>2

\* For one date a scope has one exception at most, whoever creates them at the same time:
\* ResolveWindows keeps whichever it reads last (CreateException, the unique indexes).
THEOREM ClosedOnce == Hours!HoursAssumption /\ Hours!Spec => []Hours!OneExceptionPerDay
<1>1. Hours!HoursAssumption /\ Hours!Init => Hours!OneExceptionPerDay
  BY DEF Hours!Init, Hours!OneExceptionPerDay
<1>2. Hours!OneExceptionPerDay /\ HoursInv /\ [Hours!Next]_(Hours!vars) =>
      Hours!OneExceptionPerDay'
  <2> SUFFICES ASSUME Hours!OneExceptionPerDay, HoursInv, [Hours!Next]_(Hours!vars)
      PROVE Hours!OneExceptionPerDay'
    OBVIOUS
  <2>1. ASSUME NEW q \in Request, Hours!Step(q) PROVE Hours!OneExceptionPerDay'
    BY <2>1, ExceptionsOnlyLost, AddedOnce DEF Hours!OneExceptionPerDay
  <2>2. CASE UNCHANGED exception
    BY <2>2 DEF Hours!OneExceptionPerDay
  <2> QED BY <2>1, <2>2 DEF Hours!Next, Hours!vars, Hours!Browse, Hours!Put
<1> QED BY <1>1, <1>2, Invariance, PTL DEF Hours!Spec

-----------------------------------------------------------------------------
(* The lists, in the cache or on their way to it.                          *)

\* A step of an edit in progress that leaves an old list behind has written, and
\* neither ends it nor reports it as done.
LEMMA EditStep ==
  ASSUME HoursTypeInv, Hours!StaleOnlyMidEdit, NEW q \in Request, Others(q),
         Hours!Busy(q), request'[q].ask = request[q].ask,
         request[q].wrote => request'[q].wrote,
         request'[q].pc \notin {"idle", "done"} \/ request'[q].answer \notin {"OK", None},
         \A p \in Provider : Hours!Behind(p)' =>
           Hours!Behind(p) \/ (p = request[q].ask.provider /\ request'[q].wrote)
  PROVE  Hours!StaleOnlyMidEdit'
<1> SUFFICES ASSUME NEW p \in Provider, Hours!Behind(p)'
             PROVE  \E x \in Request : /\ request'[x].wrote
                /\ request'[x].ask.provider = p
                                       /\ \/ request'[x].pc \notin {"idle", "done"}
                                          \/ request'[x].answer \notin {"OK", None}
  BY DEF Hours!StaleOnlyMidEdit, Hours!Busy
<1>1. CASE p = request[q].ask.provider /\ request'[q].wrote
  BY <1>1
<1>2. CASE Hours!Behind(p)
  <2>1. PICK x \in Request :
          /\ request[x].wrote /\ request[x].ask.provider = p
          /\ Hours!Busy(x) \/ request[x].answer \notin {"OK", None}
    BY <1>2 DEF Hours!StaleOnlyMidEdit
  <2>2. CASE x = q
    BY <2>1, <2>2
  <2>3. CASE x # q
    BY <2>1, <2>3 DEF Others, Same, Hours!Busy
  <2> QED BY <2>2, <2>3
<1> QED BY <1>1, <1>2

LEMMA UnchangedCovered ==
  ASSUME HoursTypeInv, Hours!StaleOnlyMidEdit, NEW q \in Request, Hours!Busy(q),
         NEW code \in Hours!Code \ {"OK"}, Hours!Answer(q, code), UNCHANGED lists
  PROVE  Hours!StaleOnlyMidEdit'
<1>1. code \notin {"OK", None} /\ code \in Hours!Code
  BY DEF HoursTypeInv, Hours!HoursAssumption
<1>2. \A p \in Provider : Hours!Behind(p)' => Hours!Behind(p)
  BY DEF Hours!Behind
<1> QED BY <1>1, <1>2, AnswerStep, EditStep

LEMMA GotoCovered ==
  ASSUME HoursTypeInv, Hours!StaleOnlyMidEdit, NEW q \in Request, Hours!Busy(q),
         NEW label \in Hours!Label \ {"idle", "done"}, Hours!Goto(q, label),
            UNCHANGED lists
  PROVE  Hours!StaleOnlyMidEdit'
<1>1. \A p \in Provider : Hours!Behind(p)' => Hours!Behind(p)
  BY DEF Hours!Behind
<1> QED BY <1>1, GotoStep, EditStep

LEMMA WroteCovered ==
  ASSUME HoursTypeInv, Hours!StaleOnlyMidEdit, NEW q \in Request, Hours!Busy(q),
         NEW label \in {"invalidate", "read_services"},
         \/ Hours!Wrote(q, label)
         \/ \E r : Hours!AddsToScope(q, label, request[q].ask.provider, r)
  PROVE  Hours!StaleOnlyMidEdit'
<1>1. label \in Hours!Label \ {"idle", "done"}
  BY DEF Hours!Label
<1>2. request[q].ask.provider \in Provider
  BY AskType DEF Hours!Busy
<1>3. /\ Others(q) /\ Hours!Touch(request[q].ask.provider)
      /\ request'[q].pc = label /\ request'[q].ask = request[q].ask
      /\ request'[q].wrote
  BY <1>1, WroteStep, AddsStep
<1> QED BY <1>1, <1>2, <1>3, TouchStep, EditStep

\* A step that sets other fields of a request in progress.
LEMMA SetCovered ==
  ASSUME HoursTypeInv, Hours!StaleOnlyMidEdit, NEW q \in Request, Hours!Busy(q),
         NEW x \in Requests,
         request' = [request EXCEPT ![q] = x], x.ask = request[q].ask,
         x.pc \notin {"idle", "done"}, request[q].wrote => x.wrote,
         UNCHANGED lists \/ (x.wrote /\ Hours!Touch(request[q].ask.provider))
  PROVE  Hours!StaleOnlyMidEdit'
<1>1. request[q].ask.provider \in Provider
  BY AskType DEF Hours!Busy
<1>2. Others(q) /\ request'[q] = x
  BY SetStep
<1>3. \A p \in Provider : Hours!Behind(p)' =>
        Hours!Behind(p) \/ (p = request[q].ask.provider /\ x.wrote)
  BY <1>1, TouchStep DEF Hours!Behind
<1> QED BY <1>2, <1>3, EditStep

LEMMA ResourceCovered ==
  ASSUME HoursTypeInv, Hours!StaleOnlyMidEdit, NEW q \in Request,
         Hours!CreateResource(q) \/ Hours!AttachEach(q) \/ Hours!UpdateResource(q)
            \/ Hours!ListServiceIDs(q)
         \/ Hours!DeleteResource(q) \/ Hours!AttachService(q) \/ Hours!DetachService(q)
  PROVE  Hours!StaleOnlyMidEdit'
<1> USE DEF Hours!Code
<1>1. request[q] \in Requests /\ Sound(q)
  BY DEF HoursTypeInv, Hours!TypeOK, Requests
<1>2. Hours!Busy(q)
  BY DEF Hours!Busy, Hours!CreateResource, Hours!AttachEach, Hours!UpdateResource,
         Hours!ListServiceIDs, Hours!DeleteResource, Hours!AttachService,
         Hours!DetachService
<1>3. CASE Hours!CreateResource(q)
  <2>1. PICK r \in Resource :
          request' = [request EXCEPT ![q].pc = "attach_each",
                        ![q].left = request[q].ask.services,
                        ![q].rows = {r}, ![q].wrote = TRUE]
    BY <1>3 DEF Hours!CreateResource
  <2> DEFINE x == [request[q] EXCEPT !.pc = "attach_each",
                     !.left = request[q].ask.services, !.rows = {r}, !.wrote = TRUE]
  <2>2. request[q].pc = "create_resource" /\ request[q].ask.op = "create_resource"
    BY <1>1, <1>3 DEF Hours!CreateResource, Sound, Operations
  <2>3. request[q].ask.services \subseteq Service
    BY <2>2, AskType
  <2>4. x \in Requests /\ x.pc = "attach_each" /\ x.ask = request[q].ask /\ x.wrote
    BY <1>1, <2>3 DEF Requests, Hours!Label
  <2>5. request' = [request EXCEPT ![q] = x] /\ Hours!Touch(request[q].ask.provider)
    BY ZenonT(60), <1>3, <2>1 DEF Hours!CreateResource
  <2> HIDE DEF x
  <2> QED BY <1>2, <2>4, <2>5, SetCovered
<1>4. CASE Hours!AttachEach(q)
  <2>1. request[q].pc = "attach_each" /\ request[q].wrote
    BY <1>1, <1>4 DEF Hours!AttachEach, Sound
  <2>2. CASE Hours!Goto(q, "invalidate") /\ UNCHANGED lists
    <3>1. "invalidate" \in Hours!Label \ {"idle", "done"}
      BY DEF Hours!Label
    <3> QED BY <1>2, <2>2, <3>1, GotoCovered
  <2>3. CASE Hours!Answer(q, "INTERNAL") /\ UNCHANGED lists
    BY <1>2, <2>3, UnchangedCovered
  <2>4. ASSUME NEW s \in request[q].left,
               request' = [request EXCEPT ![q].left = @ \ {s}],
               Hours!Touch(request[q].ask.provider)
        PROVE  Hours!StaleOnlyMidEdit'
    <3> DEFINE x == [request[q] EXCEPT !.left = @ \ {s}]
    <3>1. x \in Requests /\ x.pc = request[q].pc /\ x.ask = request[q].ask
          /\ x.wrote = request[q].wrote
      BY <1>1 DEF Requests
    <3>2. request' = [request EXCEPT ![q] = x]
      BY <2>4
    <3> HIDE DEF x
    <3> QED BY <1>2, <2>1, <2>4, <3>1, <3>2, SetCovered
  <2> QED BY <1>4, <2>2, <2>3, <2>4 DEF Hours!AttachEach
<1>5. CASE Hours!UpdateResource(q)
  BY <1>2, <1>5, WroteCovered, UnchangedCovered DEF Hours!UpdateResource, Hours!Unchanged
<1>6. CASE Hours!ListServiceIDs(q)
  <2>1. Hours!Goto(q, "invalidate") /\ "invalidate" \in Hours!Label \ {"idle", "done"}
        /\ UNCHANGED lists
    BY <1>6 DEF Hours!ListServiceIDs, Hours!Label
  <2> QED BY <1>2, <2>1, GotoCovered
<1>7. CASE Hours!DeleteResource(q)
  BY <1>2, <1>7, WroteCovered, UnchangedCovered DEF Hours!DeleteResource, Hours!Unchanged
<1>8. CASE Hours!AttachService(q)
  BY <1>2, <1>8, WroteCovered, UnchangedCovered DEF Hours!AttachService, Hours!Unchanged
<1>9. CASE Hours!DetachService(q)
  BY <1>2, <1>9, WroteCovered, UnchangedCovered DEF Hours!DetachService, Hours!Unchanged
<1> QED BY <1>3, <1>4, <1>5, <1>6, <1>7, <1>8, <1>9

LEMMA HoursCovered ==
  ASSUME HoursTypeInv, Hours!StaleOnlyMidEdit, NEW q \in Request,
         Hours!CreateHours(q) \/ Hours!ReplaceHours(q)
            \/ Hours!DeleteBusinessHoursForScope(q)
         \/ Hours!FillAndCommit(q) \/ Hours!UpdateHours(q) \/ Hours!DeleteHours(q)
         \/ Hours!CreateException(q) \/ Hours!DeleteException(q)
  PROVE  Hours!StaleOnlyMidEdit'
<1> USE DEF Hours!Code
<1>1. request[q] \in Requests
  BY DEF HoursTypeInv, Hours!TypeOK, Requests
<1>2. Hours!Busy(q)
  BY DEF Hours!Busy, Hours!CreateHours, Hours!ReplaceHours,
         Hours!DeleteBusinessHoursForScope, Hours!FillAndCommit, Hours!UpdateHours,
         Hours!DeleteHours, Hours!CreateException, Hours!DeleteException
<1>3. CASE Hours!CreateHours(q)
  BY <1>2, <1>3, WroteCovered, UnchangedCovered DEF Hours!CreateHours, Hours!Unchanged
<1>4. CASE Hours!ReplaceHours(q)
  <2> DEFINE rows == Hours!RowsOfScope(request[q].ask.provider, request[q].ask.resource)
             x == [request[q] EXCEPT !.pc = "clear", !.rows = rows]
  <2>1. request' = [request EXCEPT ![q] = x] /\ UNCHANGED lists
    BY <1>4 DEF Hours!ReplaceHours
  <2>2. rows \subseteq Row
    BY DEF Hours!RowsOfScope
  <2> HIDE DEF rows
  <2>3. x \in Requests /\ x.pc = "clear" /\ x.ask = request[q].ask
        /\ x.wrote = request[q].wrote
    BY <1>1, <2>2 DEF Requests, Hours!Label
  <2> HIDE DEF x
  <2> QED BY <1>2, <2>1, <2>3, SetCovered
<1>5. CASE Hours!DeleteBusinessHoursForScope(q)
  <2> DEFINE rows == { h \in request[q].rows : hours[h] # None }
             x == [request[q] EXCEPT !.pc = "fill", !.rows = rows]
  <2>1. request' = [request EXCEPT ![q] = x] /\ UNCHANGED lists
    BY <1>5 DEF Hours!DeleteBusinessHoursForScope
  <2>2. rows \subseteq Row \cup Resource
    BY <1>1 DEF Requests
  <2> HIDE DEF rows
  <2>3. x \in Requests /\ x.pc = "fill" /\ x.ask = request[q].ask
        /\ x.wrote = request[q].wrote
    BY <1>1, <2>2 DEF Requests, Hours!Label
  <2> HIDE DEF x
  <2> QED BY <1>2, <2>1, <2>3, SetCovered
<1>6. CASE Hours!FillAndCommit(q)
  <2>1. CASE Hours!AddsToScope(q, "invalidate", request[q].ask.provider,
        request[q].ask.resource)
    BY <1>2, <2>1, WroteCovered
  <2>2. CASE Hours!Unchanged(q, "INTERNAL")
    BY <1>2, <2>2, UnchangedCovered DEF Hours!Unchanged
  <2> QED BY <1>6, <2>1, <2>2 DEF Hours!FillAndCommit
<1>7. CASE Hours!UpdateHours(q)
  BY <1>2, <1>7, WroteCovered, UnchangedCovered DEF Hours!UpdateHours, Hours!Unchanged
<1>8. CASE Hours!DeleteHours(q)
  BY <1>2, <1>8, WroteCovered, UnchangedCovered DEF Hours!DeleteHours, Hours!Unchanged
<1>9. CASE Hours!CreateException(q)
  BY <1>2, <1>9, WroteCovered, UnchangedCovered DEF Hours!CreateException, Hours!Unchanged
<1>10. CASE Hours!DeleteException(q)
  BY <1>2, <1>10, WroteCovered, UnchangedCovered
     DEF Hours!DeleteException, Hours!Unchanged
<1> QED BY <1>3, <1>4, <1>5, <1>6, <1>7, <1>8, <1>9, <1>10

\* An edit is arrived at without having written, and ends in an invalidation.
LEMMA ArriveCovered ==
  ASSUME HoursTypeInv, Hours!StaleOnlyMidEdit, NEW q \in Request, Hours!Arrive(q)
  PROVE  Hours!StaleOnlyMidEdit'
<1>1. ~Hours!Busy(q) /\ request[q].answer = None /\ UNCHANGED lists
  BY DEF Hours!Arrive, Hours!Busy, HoursTypeInv, Sound
<1>2. Others(q)
  BY ArriveSound
<1> QED BY <1>1, <1>2 DEF Hours!StaleOnlyMidEdit, Hours!Behind, Others, Same,
                               Hours!Busy

LEMMA InvalidateCovered ==
  ASSUME HoursTypeInv, Hours!StaleOnlyMidEdit, NEW q \in Request,
         Hours!InvalidateProvider(q)
  PROVE  Hours!StaleOnlyMidEdit'
<1>1. Others(q) /\ request[q].ask.provider \in Provider
  BY AnswerStep, AskType DEF Hours!InvalidateProvider, Hours!Code
<1>2. \A p \in Provider : Hours!Behind(p)' =>
        p # request[q].ask.provider /\ Hours!Behind(p)
  BY DroppedStep
<1> QED BY <1>1, <1>2 DEF Hours!StaleOnlyMidEdit, Others, Same, Hours!Busy

\* A list that no invalidation has overtaken between its read and its put is older than
\* the tables only while an edit of its provider's is on its way to invalidateProvider,
\* or after one that ended in an error and never got there.
THEOREM FreshAfterEdits == Hours!HoursAssumption /\ Hours!Spec => []Hours!StaleOnlyMidEdit
<1>1. Hours!HoursAssumption /\ Hours!Init => Hours!StaleOnlyMidEdit
  BY DEF Hours!Init, Hours!StaleOnlyMidEdit, Hours!Behind
<1>2. Hours!StaleOnlyMidEdit /\ HoursInv /\ [Hours!Next]_(Hours!vars) =>
      Hours!StaleOnlyMidEdit'
  <2> SUFFICES ASSUME Hours!StaleOnlyMidEdit, HoursInv, [Hours!Next]_(Hours!vars)
      PROVE Hours!StaleOnlyMidEdit'
    OBVIOUS
  <2> USE DEF HoursInv
  <2>1. ASSUME NEW q \in Request, Hours!Step(q) PROVE Hours!StaleOnlyMidEdit'
    <3>1. CASE Hours!AssertResourceOwned(q)
      <4>1. Hours!Busy(q) /\ UNCHANGED lists
        BY <3>1 DEF Hours!AssertResourceOwned, Hours!Busy
      <4>2. CASE Hours!Answer(q, "NOT_FOUND")
        BY <4>1, <4>2, UnchangedCovered DEF Hours!Code
      <4>3. CASE Hours!Goto(q, request[q].ask.op)
        <5>1. request[q].ask.op \in Operations
          BY <4>1, AskType, OpOfAsk DEF Hours!Busy
        <5>2. request[q].ask.op \in Hours!Label \ {"idle", "done"}
          BY <5>1 DEF Operations, Hours!Label
        <5> QED BY <4>1, <4>3, <5>2, GotoCovered
      <4> QED BY <3>1, <4>2, <4>3 DEF Hours!AssertResourceOwned
    <3>2. CASE Hours!Fault(q)
      BY <3>2, UnchangedCovered DEF Hours!Fault, Hours!FaultCode, Hours!Code
    <3> QED BY <2>1, <3>1, <3>2, ArriveCovered, InvalidateCovered, ResourceCovered,
            HoursCovered DEF Hours!Step
  <2>2. ASSUME NEW p \in Provider, Hours!Browse(p) \/ Hours!Put(p)
        PROVE  Hours!StaleOnlyMidEdit'
    <3>1. \A o \in Provider : Hours!Behind(o)' => Hours!Behind(o)
      BY <2>2, ListedStep
    <3> QED BY <2>2, <3>1 DEF Hours!Browse, Hours!Put, Hours!StaleOnlyMidEdit, Hours!Busy
  <2>3. CASE UNCHANGED Hours!vars
    BY <2>3 DEF Hours!vars, Hours!StaleOnlyMidEdit, Hours!Behind, Hours!Busy
  <2> QED BY <2>1, <2>2, <2>3 DEF Hours!Next
<1> QED BY <1>1, <1>2, Invariance, PTL DEF Hours!Spec

-----------------------------------------------------------------------------
(* A replacement leaves the hours of the other scopes alone.               *)

InScope(row, ask) == row.provider = ask.provider /\ row.resource = ask.resource

\* A row has an identity of its own; and those that a DELETE has found are of its scope
\* for as long as they are there, for nobody can be given the identity again.
RowsKnown ==
  /\ \A h \in Row : hours[h] # None => h \in used
  /\ \A q \in Request : request[q].pc \in {"clear", "fill"} =>
       \A h \in request[q].rows :
         h \in used /\ (h \in Row /\ hours[h] # None => InScope(hours[h], request[q].ask))

\* A row goes, keeps its scope, or is new.
LEMMA RowChange ==
  ASSUME HoursInv, NEW q \in Request, Hours!Step(q), NEW h \in Row, hours'[h] # None
  PROVE  \/ /\ hours[h] # None /\ hours'[h].provider = hours[h].provider
            /\ hours'[h].resource = hours[h].resource
         \/ h \notin used /\ h \in used'
<1>0. hours \in [Row -> Hours!HoursRow \cup {None}]
  BY DEF HoursInv, HoursFit
<1>1. CASE hours' = hours
  BY <1>1
<1>2. CASE hours' # hours /\ Hours!CreateHours(q)
  <2>1. PICK n \in Row \ used :
          /\ hours' = [hours EXCEPT ![n] = Hours!NewHours(request[q].ask,
             request[q].ask.span)]
          /\ used' = used \cup {n}
    BY <1>2 DEF Hours!CreateHours, Hours!Unchanged
  <2> QED BY <1>0, <2>1
<1>3. CASE hours' # hours /\ Hours!FillAndCommit(q)
  <2> DEFINE week == request[q].ask.week
  <2>1. PICK row \in [week -> Row \ used] :
          /\ used' = used \cup { row[span] : span \in week }
          /\ hours' = [k \in Row |->
               IF k \in { row[span] : span \in week }
               THEN Hours!NewHours(request[q].ask, CHOOSE span \in week : row[span] = k)
               ELSE IF k \in request[q].rows THEN None ELSE hours[k]]
    BY <1>3 DEF Hours!FillAndCommit, Hours!Unchanged
  <2>2. CASE h \in { row[span] : span \in week }
    BY <2>1, <2>2
  <2>3. CASE h \notin { row[span] : span \in week }
    BY <2>1, <2>3
  <2> QED BY <2>2, <2>3
<1>4. CASE hours' # hours /\ Hours!UpdateHours(q)
  <2> DEFINE k == request[q].ask.row
  <2>1. /\ hours[k] # None
        /\ hours' = [hours EXCEPT ![k].span = Hours!Patched(@, request[q].ask.patch)]
    BY <1>4 DEF Hours!UpdateHours, Hours!Unchanged, Hours!HasHours
  <2>2. CASE h = k
    BY <1>0, <2>1, <2>2 DEF Hours!HoursRow
  <2>3. CASE h # k
    BY <1>0, <2>1, <2>3
  <2> QED BY <2>2, <2>3
<1>5. CASE hours' # hours /\ Hours!DeleteHours(q)
  BY <1>0, <1>5 DEF Hours!DeleteHours, Hours!Unchanged
<1>6. CASE hours' # hours /\ Hours!DeleteResource(q)
  BY <1>0, <1>6 DEF Hours!DeleteResource, Hours!Unchanged
<1>7. Hours!Arrive(q) \/ Hours!AssertResourceOwned(q) \/ Hours!AttachEach(q)
      \/ Hours!UpdateResource(q)
        \/ Hours!ListServiceIDs(q) \/ Hours!AttachService(q) \/ Hours!DetachService(q)
        \/ Hours!CreateResource(q) \/ Hours!ReplaceHours(q)
           \/ Hours!DeleteBusinessHoursForScope(q)
        \/ Hours!CreateException(q) \/ Hours!DeleteException(q)
           \/ Hours!InvalidateProvider(q) \/ Hours!Fault(q)
      => hours' = hours
  BY DEF Hours!Arrive, Hours!AssertResourceOwned, Hours!AttachEach,
         Hours!UpdateResource, Hours!ListServiceIDs, Hours!AttachService,
         Hours!DetachService, Hours!CreateResource, Hours!ReplaceHours,
         Hours!DeleteBusinessHoursForScope, Hours!CreateException,
         Hours!DeleteException, Hours!InvalidateProvider, Hours!Fault, Hours!Unchanged
<1> QED BY <1>1, <1>2, <1>3, <1>4, <1>5, <1>6, <1>7 DEF Hours!Step

LEMMA UsedGrows ==
  ASSUME NEW q \in Request, Hours!Step(q) PROVE used \subseteq used'
<1>1. CASE Hours!Arrive(q) \/ Hours!AssertResourceOwned(q) \/ Hours!AttachEach(q)
      \/ Hours!UpdateResource(q)
        \/ Hours!ListServiceIDs(q) \/ Hours!AttachService(q) \/ Hours!DetachService(q)
        \/ Hours!CreateResource(q) \/ Hours!DeleteResource(q)
  BY <1>1
     DEF Hours!Arrive, Hours!AssertResourceOwned, Hours!AttachEach,
         Hours!UpdateResource, Hours!ListServiceIDs, Hours!AttachService,
         Hours!DetachService, Hours!CreateResource, Hours!DeleteResource,
         Hours!Unchanged
<1>2. CASE Hours!CreateHours(q) \/ Hours!ReplaceHours(q)
      \/ Hours!DeleteBusinessHoursForScope(q)
        \/ Hours!FillAndCommit(q) \/ Hours!UpdateHours(q) \/ Hours!DeleteHours(q)
  BY <1>2
     DEF Hours!CreateHours, Hours!ReplaceHours, Hours!DeleteBusinessHoursForScope,
         Hours!FillAndCommit, Hours!UpdateHours, Hours!DeleteHours, Hours!Unchanged
<1>3. CASE Hours!CreateException(q) \/ Hours!DeleteException(q)
      \/ Hours!InvalidateProvider(q) \/ Hours!Fault(q)
  BY <1>3
     DEF Hours!CreateException, Hours!DeleteException, Hours!InvalidateProvider,
         Hours!Fault, Hours!Unchanged
<1> QED BY <1>1, <1>2, <1>3 DEF Hours!Step

\* A request comes to hold the rows of its scope, and later fewer of them.
LEMMA RowsFound ==
  ASSUME HoursInv, NEW q \in Request, Hours!Step(q), request'[q].pc \in {"clear", "fill"}
  PROVE  /\ UNCHANGED <<hours, used>> /\ request'[q].ask = request[q].ask
         /\ \/ request'[q].rows = Hours!RowsOfScope(request[q].ask.provider,
               request[q].ask.resource)
            \/ /\ request[q].pc \in {"clear", "fill"}
               /\ request'[q].rows = { h \in request[q].rows : hours[h] # None }
               /\ request'[q].stale = request[q].stale
<1>0. request \in [Request -> Requests] /\ HoursTypeInv
  BY DEF HoursInv, HoursTypeInv, Hours!TypeOK, Requests
<1>1. CASE Hours!ReplaceHours(q)
  BY <1>0, <1>1 DEF Hours!ReplaceHours, Requests
<1>2. CASE Hours!DeleteBusinessHoursForScope(q)
  BY <1>0, <1>2 DEF Hours!DeleteBusinessHoursForScope, Requests
<1>3. ASSUME Hours!Answer(q, "OK")
             \/ (\E code \in Hours!Code : Hours!Answer(q, code)
                \/ Hours!Unchanged(q, code))
             \/ Hours!Goto(q, "invalidate") \/ Hours!Wrote(q, "invalidate")
                \/ Hours!Wrote(q, "read_services")
             \/ \E p, r : Hours!AddsToScope(q, "invalidate", p, r)
      PROVE  FALSE
  <2>1. {"invalidate", "read_services"} \subseteq Hours!Label /\ "OK" \in Hours!Code
    BY DEF Hours!Label, Hours!Code
  <2>2. request'[q].pc \in {"done", "invalidate", "read_services"}
    BY <1>0, <1>3, <2>1, AnswerStep, GotoStep, WroteStep, AddsStep DEF Hours!Unchanged
  <2> QED BY <2>2
<1>4. CASE Hours!Arrive(q)
  <2>1. PICK ask \in Asks :
          \/ request' = [request EXCEPT ![q].ask = ask,
               ![q].pc = IF Hours!NamesResource(ask) THEN "owned" ELSE ask.op]
          \/ request' = [request EXCEPT ![q].ask = ask, ![q].pc = "done",
                                        ![q].answer = "VALIDATION"]
    BY <1>4 DEF Hours!Arrive
  <2>2. ask.op \notin {"clear", "fill"}
    BY OpOfAsk DEF HoursInv, HoursTypeInv, Hours!HoursAssumption, Operations
  <2>3. request'[q].pc \in {"owned", ask.op, "done"}
    BY <1>0, <2>1 DEF Requests
  <2> QED BY <2>2, <2>3
<1>5. CASE Hours!AssertResourceOwned(q)
  <2>1. request[q].ask.op \in Operations
    BY <1>0, <1>5, AskType, OpOfAsk DEF Hours!AssertResourceOwned
  <2>2. request'[q].pc \in {"done", request[q].ask.op}
    BY <1>0, <1>5 DEF Hours!AssertResourceOwned, Hours!Goto, Hours!Answer, Requests
  <2> QED BY <2>1, <2>2 DEF Operations
<1>6. CASE Hours!CreateResource(q)
  <2>1. request'[q].pc = "attach_each"
    BY <1>0, <1>6 DEF Hours!CreateResource, Requests
  <2> QED BY <2>1
<1>7. CASE Hours!AttachEach(q)
  <2>1. Hours!Goto(q, "invalidate") \/ Hours!Answer(q, "INTERNAL")
        \/ \E s \in request[q].left : request' = [request EXCEPT ![q].left = @ \ {s}]
    BY <1>7 DEF Hours!AttachEach
  <2>2. request'[q].pc \in {"invalidate", "done", "attach_each"}
    BY <1>0, <1>7, <2>1 DEF Hours!AttachEach, Hours!Goto, Hours!Answer, Requests
  <2> QED BY <2>2
<1>8. CASE Hours!UpdateResource(q) \/ Hours!ListServiceIDs(q) \/ Hours!DeleteResource(q)
      \/ Hours!AttachService(q)
        \/ Hours!DetachService(q) \/ Hours!UpdateHours(q) \/ Hours!DeleteHours(q)
        \/ Hours!CreateException(q) \/ Hours!DeleteException(q)
           \/ Hours!InvalidateProvider(q)
  BY <1>3, <1>8
     DEF Hours!UpdateResource, Hours!ListServiceIDs, Hours!DeleteResource,
         Hours!AttachService, Hours!DetachService, Hours!UpdateHours, Hours!DeleteHours,
         Hours!CreateException, Hours!DeleteException, Hours!InvalidateProvider,
         Hours!Code
<1>9. CASE Hours!CreateHours(q) \/ Hours!FillAndCommit(q)
  <2>1. Hours!Unchanged(q, "INTERNAL")
        \/ Hours!AddsToScope(q, "invalidate", request[q].ask.provider,
           request[q].ask.resource)
    BY <1>9 DEF Hours!CreateHours, Hours!FillAndCommit
  <2> QED BY <1>3, <2>1 DEF Hours!Code
<1>10. CASE Hours!Fault(q)
  BY <1>3, <1>10 DEF Hours!Fault, Hours!FaultCode, Hours!Code
<1> QED BY <1>1, <1>2, <1>4, <1>5, <1>6, <1>7, <1>8, <1>9, <1>10 DEF Hours!Step

LEMMA KnownStep ==
  ASSUME HoursInv, RowsKnown, NEW q \in Request, Hours!Step(q)
  PROVE  RowsKnown'
<1>0. used \subseteq used' /\ Others(q)
  BY UsedGrows, StepSound DEF HoursInv
<1>1. ASSUME NEW h \in Row, hours'[h] # None PROVE h \in used'
  BY <1>0, <1>1, RowChange DEF RowsKnown
<1>2. ASSUME NEW x \in Request, request'[x].pc \in {"clear", "fill"},
             NEW h \in request'[x].rows
      PROVE  h \in used'
         /\ (h \in Row /\ hours'[h] # None => InScope(hours'[h], request'[x].ask))
  <2>1. CASE x = q
    <3>1. CASE request'[q].rows = Hours!RowsOfScope(request[q].ask.provider,
          request[q].ask.resource)
      <4>1. h \in Row /\ hours[h] # None /\ InScope(hours[h], request[q].ask)
        BY <1>2, <2>1, <3>1 DEF Hours!RowsOfScope, InScope
      <4> QED BY <1>2, <2>1, <4>1, RowsFound DEF RowsKnown
    <3>2. CASE request[q].pc \in {"clear", "fill"}
               /\ request'[q].rows = { k \in request[q].rows : hours[k] # None }
      BY <1>2, <2>1, <3>2, RowsFound DEF RowsKnown
    <3> QED BY <1>2, <2>1, <3>1, <3>2, RowsFound
  <2>2. CASE x # q
    <3>1. request[x].pc \in {"clear", "fill"} /\ h \in request[x].rows
          /\ request'[x].ask = request[x].ask
      BY <1>0, <1>2, <2>2 DEF Others, Same
    <3>2. h \in used
          /\ (h \in Row /\ hours[h] # None => InScope(hours[h], request[x].ask))
      BY <3>1 DEF RowsKnown
    <3> QED BY <1>0, <3>1, <3>2, RowChange DEF InScope
  <2> QED BY <2>1, <2>2
<1> QED BY <1>1, <1>2 DEF RowsKnown

LEMMA Known == Hours!HoursAssumption /\ Hours!Spec => []RowsKnown
<1>1. Hours!HoursAssumption /\ Hours!Init => RowsKnown
  BY DEF Hours!Init, RowsKnown, Hours!NoRequest
<1>2. RowsKnown /\ HoursInv /\ [Hours!Next]_(Hours!vars) => RowsKnown'
  <2> SUFFICES ASSUME RowsKnown, HoursInv, [Hours!Next]_(Hours!vars) PROVE RowsKnown'
    OBVIOUS
  <2>1. CASE UNCHANGED <<hours, used, request>>
    BY <2>1 DEF RowsKnown
  <2> QED BY <2>1, KnownStep DEF Hours!Next, Hours!vars, Hours!Browse, Hours!Put
<1> QED BY <1>1, <1>2, Invariance, PTL DEF Hours!Spec

\* Of a replacement's steps only the last one changes the table, and what it deletes is
\* of its scope.
LEMMA ReplacementStep ==
  ASSUME HoursInv, RowsKnown, NEW q \in Request, Hours!Step(q), request[q].ask # None,
         request[q].pc # "idle", request[q].ask.op = "replace_hours",
         NEW h \in Row, hours[h] # None, ~InScope(hours[h], request[q].ask)
  PROVE  hours'[h] = hours[h]
<1>1. CASE hours' = hours
  BY <1>1
<1>2. CASE hours' # hours /\ Hours!FillAndCommit(q)
  <2> DEFINE week == request[q].ask.week
  <2>1. PICK row \in [week -> Row \ used] :
          hours' = [k \in Row |->
               IF k \in { row[span] : span \in week }
               THEN Hours!NewHours(request[q].ask, CHOOSE span \in week : row[span] = k)
               ELSE IF k \in request[q].rows THEN None ELSE hours[k]]
    BY <1>2 DEF Hours!FillAndCommit, Hours!Unchanged
  <2>2. h \notin { row[span] : span \in week }
    <3>1. h \in used
      BY DEF RowsKnown
    <3> QED BY <2>1, <3>1
  <2>3. h \notin request[q].rows
    BY <1>2 DEF Hours!FillAndCommit, RowsKnown
  <2> QED BY <2>1, <2>2, <2>3
<1>3. ~Hours!CreateHours(q) /\ ~Hours!UpdateHours(q) /\ ~Hours!DeleteHours(q)
       /\ ~Hours!DeleteResource(q)
  <2>1. request[q].pc \in Operations => request[q].pc = "replace_hours"
    BY DEF HoursInv, HoursTypeInv, Sound
  <2> QED BY <2>1
             DEF Operations, Hours!CreateHours, Hours!UpdateHours, Hours!DeleteHours,
                 Hours!DeleteResource
<1>4. Hours!Arrive(q) \/ Hours!AssertResourceOwned(q) \/ Hours!AttachEach(q)
      \/ Hours!UpdateResource(q)
        \/ Hours!ListServiceIDs(q) \/ Hours!AttachService(q) \/ Hours!DetachService(q)
        \/ Hours!CreateResource(q) \/ Hours!ReplaceHours(q)
           \/ Hours!DeleteBusinessHoursForScope(q)
        \/ Hours!CreateException(q) \/ Hours!DeleteException(q)
           \/ Hours!InvalidateProvider(q) \/ Hours!Fault(q)
      => hours' = hours
  BY DEF Hours!Arrive, Hours!AssertResourceOwned, Hours!AttachEach,
         Hours!UpdateResource, Hours!ListServiceIDs, Hours!AttachService,
         Hours!DetachService, Hours!CreateResource, Hours!ReplaceHours,
         Hours!DeleteBusinessHoursForScope, Hours!CreateException,
         Hours!DeleteException, Hours!InvalidateProvider, Hours!Fault, Hours!Unchanged
<1> QED BY <1>1, <1>2, <1>3, <1>4 DEF Hours!Step

\* Saving the week of a scope changes no row of another: the shop's week does not wipe a
\* barber's hours, whatever is added, changed or deleted while the transaction runs
\* (ReplaceHours, DeleteBusinessHoursForScope).
THEOREM BarbersKeepTheirHours ==
  Hours!HoursAssumption /\ Hours!Spec => [][Hours!OtherScopesKept]_(Hours!vars)
<1>1. RowsKnown /\ HoursInv /\ [Hours!Next]_(Hours!vars) =>
      [Hours!OtherScopesKept]_(Hours!vars)
  <2> SUFFICES ASSUME RowsKnown, HoursInv, Hours!Next, NEW q \in Request,
      Hours!Replaces(q),
                      NEW h \in Row, hours[h] # None,
                      <<hours[h].provider, hours[h].resource>>
                        # <<request[q].ask.provider, request[q].ask.resource>>
               PROVE  hours'[h] = hours[h]
    BY DEF Hours!OtherScopesKept
  <2>1. request[q].pc # "idle" /\ request[q].ask \in Asks
    BY AskType DEF Hours!Replaces, Hours!Busy, HoursInv
  <2>2. request[q].ask # None /\ ~InScope(hours[h], request[q].ask)
        /\ request[q].ask.op = "replace_hours"
    BY <2>1 DEF InScope, Hours!Replaces, HoursInv, HoursTypeInv, Hours!HoursAssumption
  <2>3. ASSUME NEW x \in Request, Hours!Step(x) PROVE x = q
    BY <2>3, StepSound DEF Others, Same, Hours!Replaces, HoursInv
  <2>4. CASE Hours!Step(q)
    BY <2>1, <2>2, <2>4, ReplacementStep
  <2> QED BY <2>3, <2>4 DEF Hours!Next, Hours!Browse, Hours!Put
<1> QED BY <1>1, Invariance, Known, PTL DEF Hours!Spec

-----------------------------------------------------------------------------
(* A resource reported as created performs what was asked for.             *)

\* A request in progress keeps its ask and what it has written.
LEMMA AskStays ==
  ASSUME HoursTypeInv, NEW q \in Request, Hours!Step(q), ~Hours!Arrive(q)
  PROVE  /\ Hours!Busy(q) /\ request'[q].ask = request[q].ask
         /\ request[q].wrote => request'[q].wrote
         /\ request'[q].pc # "idle"
<1> USE DEF Hours!Code
<1>0. request \in [Request -> Requests]
  BY DEF HoursTypeInv, Hours!TypeOK, Requests
<1>2. {"invalidate", "read_services"} \subseteq Hours!Label
  BY DEF Hours!Label
<1>3. Hours!Busy(q)
  BY DEF Hours!Busy, Hours!Step, Hours!AssertResourceOwned, Hours!CreateResource,
         Hours!AttachEach, Hours!UpdateResource, Hours!ListServiceIDs,
         Hours!DeleteResource, Hours!AttachService, Hours!DetachService,
         Hours!CreateHours, Hours!ReplaceHours, Hours!DeleteBusinessHoursForScope,
         Hours!FillAndCommit, Hours!UpdateHours, Hours!DeleteHours,
         Hours!CreateException, Hours!DeleteException, Hours!InvalidateProvider,
         Hours!Fault
<1>4. request'[q].pc # "idle" /\ request'[q].ask = request[q].ask
      /\ (request[q].wrote => request'[q].wrote)
  <2>1. CASE Hours!AssertResourceOwned(q)
    <3>1. request[q].ask.op \in Operations
      BY <1>3, AskType, OpOfAsk DEF Hours!Busy
    <3>2. request'[q].pc \in {"done", request[q].ask.op}
          /\ request'[q].ask = request[q].ask /\ request'[q].wrote = request[q].wrote
      BY <1>0, <2>1 DEF Hours!AssertResourceOwned, Hours!Goto, Hours!Answer, Requests
    <3> QED BY <3>1, <3>2 DEF Operations
  <2>2. CASE Hours!CreateResource(q) \/ Hours!ReplaceHours(q)
        \/ Hours!DeleteBusinessHoursForScope(q)
    <3>1. CASE Hours!CreateResource(q)
      BY <1>0, <3>1 DEF Hours!CreateResource, Requests
    <3>2. CASE Hours!ReplaceHours(q)
      BY <1>0, <3>2 DEF Hours!ReplaceHours, Requests
    <3>3. CASE Hours!DeleteBusinessHoursForScope(q)
      BY <1>0, <3>3 DEF Hours!DeleteBusinessHoursForScope, Requests
    <3> QED BY <2>2, <3>1, <3>2, <3>3
  <2>3. CASE Hours!AttachEach(q)
    <3>1. Hours!Goto(q, "invalidate") \/ Hours!Answer(q, "INTERNAL")
          \/ \E s \in request[q].left : request' = [request EXCEPT ![q].left = @ \ {s}]
      BY <2>3 DEF Hours!AttachEach
    <3> QED BY <1>0, <2>3, <3>1 DEF Hours!AttachEach, Hours!Goto, Hours!Answer, Requests
  <2>4. CASE Hours!UpdateResource(q) \/ Hours!ListServiceIDs(q)
        \/ Hours!DeleteResource(q) \/ Hours!AttachService(q)
          \/ Hours!DetachService(q) \/ Hours!UpdateHours(q) \/ Hours!DeleteHours(q)
          \/ Hours!CreateException(q) \/ Hours!DeleteException(q)
             \/ Hours!InvalidateProvider(q)
    <3>1. Hours!Goto(q, "invalidate") \/ Hours!Wrote(q, "invalidate")
          \/ Hours!Wrote(q, "read_services")
          \/ (\E code \in Hours!Code : Hours!Answer(q, code) \/ Hours!Unchanged(q, code))
      BY <2>4
         DEF Hours!UpdateResource, Hours!ListServiceIDs, Hours!DeleteResource,
             Hours!AttachService, Hours!DetachService, Hours!UpdateHours,
             Hours!DeleteHours, Hours!CreateException, Hours!DeleteException,
             Hours!InvalidateProvider
    <3> QED BY <1>2, <3>1, AnswerStep, GotoStep, WroteStep DEF Hours!Unchanged
  <2>5. CASE Hours!CreateHours(q) \/ Hours!FillAndCommit(q)
    <3>1. Hours!Unchanged(q, "INTERNAL")
          \/ Hours!AddsToScope(q, "invalidate", request[q].ask.provider,
             request[q].ask.resource)
      BY <2>5 DEF Hours!CreateHours, Hours!FillAndCommit
    <3> QED BY <1>2, <3>1, AnswerStep, AddsStep DEF Hours!Unchanged
  <2>6. CASE Hours!Fault(q)
    BY <2>6, AnswerStep DEF Hours!Fault, Hours!FaultCode
  <2> QED BY <2>1, <2>2, <2>3, <2>4, <2>5, <2>6 DEF Hours!Step
<1> QED BY <1>3, <1>4

\* How a creation comes to the labels that follow its INSERT.
LEMMA ComesFrom ==
  ASSUME HoursTypeInv, NEW q \in Request, Hours!Step(q),
         request'[q].pc \in {"attach_each", "read_services", "invalidate"}
  PROVE  \/ Hours!CreateResource(q) \/ Hours!AttachEach(q) \/ Hours!UpdateResource(q)
     \/ Hours!ListServiceIDs(q)
         \/ request[q].pc \in Operations \ {"create_resource"}
         \/ request[q].pc = "fill"
<1>0. request \in [Request -> Requests]
  BY DEF HoursTypeInv, Hours!TypeOK, Requests
<1>1. CASE Hours!Arrive(q)
  <2>1. PICK ask \in Asks :
          \/ request' = [request EXCEPT ![q].ask = ask,
               ![q].pc = IF Hours!NamesResource(ask) THEN "owned" ELSE ask.op]
          \/ request' = [request EXCEPT ![q].ask = ask, ![q].pc = "done",
                                        ![q].answer = "VALIDATION"]
    BY <1>1 DEF Hours!Arrive
  <2>2. request'[q].pc \in {"owned", ask.op, "done"}
    BY <1>0, <2>1 DEF Requests
  <2> QED BY <2>2, OpOfAsk DEF HoursTypeInv, Hours!HoursAssumption, Operations
<1>2. CASE Hours!AssertResourceOwned(q)
  <2>1. request[q].ask.op \in Operations
    BY <1>2, AskType, OpOfAsk DEF Hours!AssertResourceOwned
  <2>2. request'[q].pc \in {"done", request[q].ask.op}
    BY <1>0, <1>2 DEF Hours!AssertResourceOwned, Hours!Goto, Hours!Answer, Requests
  <2> QED BY <2>1, <2>2 DEF Operations
<1>3. CASE Hours!ReplaceHours(q) \/ Hours!DeleteBusinessHoursForScope(q)
  <2>1. request'[q].pc \in {"clear", "fill"}
    BY <1>0, <1>3 DEF Hours!ReplaceHours, Hours!DeleteBusinessHoursForScope, Requests
  <2> QED BY <2>1
<1>4. CASE Hours!InvalidateProvider(q) \/ Hours!Fault(q)
  <2>1. request'[q].pc = "done"
    BY <1>4, AnswerStep DEF Hours!InvalidateProvider, Hours!Fault, Hours!FaultCode, Hours!Code
  <2> QED BY <2>1
<1> QED BY <1>1, <1>2, <1>3, <1>4
           DEF Hours!Step, Operations, Hours!DeleteResource, Hours!AttachService,
               Hours!DetachService, Hours!CreateHours, Hours!FillAndCommit,
               Hours!UpdateHours, Hours!DeleteHours, Hours!CreateException,
               Hours!DeleteException

\* What a resource performed is lost only to a deletion or a detachment.
LEMMA PairLost ==
  ASSUME HoursTypeInv, NEW q \in Request, Hours!Step(q), NEW r, NEW s,
         <<r, s>> \in performs, <<r, s>> \notin performs'
  PROVE  /\ request'[q].wrote
         /\ \/ request[q].ask.op = "delete_resource" /\ request[q].ask.resource = r
            \/ /\ request[q].ask.op = "detach" /\ request[q].ask.resource = r
               /\ request[q].ask.service = s
<1>1. CASE Hours!DeleteResource(q)
  <2>1. Hours!Wrote(q, "invalidate") /\ r = request[q].ask.resource
    BY <1>1 DEF Hours!DeleteResource, Hours!Unchanged
  <2>2. request[q].ask.op = "delete_resource"
    BY <1>1 DEF Hours!DeleteResource, HoursTypeInv, Sound, Operations
  <2>3. "invalidate" \in Hours!Label
    BY DEF Hours!Label
  <2> QED BY <2>1, <2>2, <2>3, WroteStep
<1>2. CASE Hours!DetachService(q)
  <2>1. Hours!Wrote(q, "invalidate")
        /\ performs' = performs \ {<<request[q].ask.resource, request[q].ask.service>>}
    BY <1>2 DEF Hours!DetachService, Hours!Unchanged
  <2>2. <<r, s>> = <<request[q].ask.resource, request[q].ask.service>>
    BY <2>1
  <2>3. request[q].ask.op = "detach"
    BY <1>2 DEF Hours!DetachService, HoursTypeInv, Sound, Operations
  <2>4. "invalidate" \in Hours!Label
    BY DEF Hours!Label
  <2> QED BY <2>1, <2>2, <2>3, <2>4, WroteStep
<1>3. Hours!Arrive(q) \/ Hours!AssertResourceOwned(q) \/ Hours!AttachEach(q)
      \/ Hours!UpdateResource(q)
        \/ Hours!ListServiceIDs(q) \/ Hours!AttachService(q) \/ Hours!CreateResource(q)
      => performs \subseteq performs'
  BY DEF Hours!Arrive, Hours!AssertResourceOwned, Hours!AttachEach,
         Hours!UpdateResource, Hours!ListServiceIDs, Hours!AttachService,
         Hours!CreateResource, Hours!Unchanged
<1>4. Hours!CreateHours(q) \/ Hours!ReplaceHours(q)
      \/ Hours!DeleteBusinessHoursForScope(q)
        \/ Hours!FillAndCommit(q) \/ Hours!UpdateHours(q) \/ Hours!DeleteHours(q)
        \/ Hours!CreateException(q) \/ Hours!DeleteException(q)
           \/ Hours!InvalidateProvider(q) \/ Hours!Fault(q)
      => performs' = performs
  BY DEF Hours!CreateHours, Hours!ReplaceHours, Hours!DeleteBusinessHoursForScope,
         Hours!FillAndCommit, Hours!UpdateHours, Hours!DeleteHours,
         Hours!CreateException, Hours!DeleteException, Hours!InvalidateProvider,
         Hours!Fault, Hours!Unchanged
<1> QED BY <1>1, <1>2, <1>3, <1>4 DEF Hours!Step

\* What a creation still owes is among the services that are left; the rest of them has
\* been attached, and what is not there any more, another request has undone.
Owes(q) ==
  LET x == request[q] IN
  /\ x.pc = "idle" => ~x.wrote
  /\ x.pc = "read_services" => x.ask.op = "update_resource"
  /\ x.pc \in {"attach_each", "invalidate"} /\ x.ask.op = "create_resource" =>
       /\ \E r \in Resource : x.rows = {r}
       /\ x.pc = "invalidate" => x.left = {}
       /\ \A s \in x.ask.services, r \in x.rows :
            s \in x.left \/ <<r, s>> \in performs \/ Hours!Undone(r, s)

LEMMA UndoneStays ==
  ASSUME HoursInv, \A x \in Request : Owes(x), NEW q \in Request, Hours!Step(q), NEW r,
         NEW s,
         Hours!Undone(r, s) \/ (<<r, s>> \in performs /\ <<r, s>> \notin performs')
  PROVE  Hours!Undone(r, s)'
<1>1. Others(q)
  BY StepSound DEF HoursInv
<1>2. CASE Hours!Undone(r, s)
  <2>1. PICK x \in Request :
          /\ request[x].wrote
          /\ \/ request[x].ask.op = "delete_resource" /\ request[x].ask.resource = r
             \/ /\ request[x].ask.op = "detach" /\ request[x].ask.resource = r
                /\ request[x].ask.service = s
    BY <1>2 DEF Hours!Undone
  <2>2. request'[x].wrote /\ request'[x].ask = request[x].ask
    <3>1. CASE x # q
      BY <1>1, <2>1, <3>1 DEF Others, Same
    <3>2. CASE x = q
      <4>1. ~Hours!Arrive(q)
        BY <2>1, <3>2 DEF Owes, Hours!Arrive
      <4> QED BY <2>1, <3>2, <4>1, AskStays DEF HoursInv
    <3> QED BY <3>1, <3>2
  <2> QED BY <2>1, <2>2 DEF Hours!Undone
<1>3. CASE <<r, s>> \in performs /\ <<r, s>> \notin performs'
  <2>1. /\ request'[q].wrote
        /\ \/ request[q].ask.op = "delete_resource" /\ request[q].ask.resource = r
           \/ /\ request[q].ask.op = "detach" /\ request[q].ask.resource = r
              /\ request[q].ask.service = s
    BY <1>3, PairLost DEF HoursInv
  <2>2. ~Hours!Arrive(q)
    BY <1>3 DEF Hours!Arrive
  <2>3. request'[q].ask = request[q].ask
    BY <2>2, AskStays DEF HoursInv
  <2> QED BY <2>1, <2>3 DEF Hours!Undone
<1> QED BY <1>2, <1>3

\* The creation's own steps.
LEMMA CreationOwes ==
  ASSUME HoursInv, \A x \in Request : Owes(x), NEW q \in Request,
         Hours!CreateResource(q) \/ Hours!AttachEach(q)
  PROVE  Owes(q)'
<1> USE DEF HoursInv
<1>1. request[q] \in Requests /\ request \in [Request -> Requests] /\ Sound(q) /\ Owes(q)
  BY DEF HoursTypeInv, Hours!TypeOK, Requests
<1>2. CASE Hours!CreateResource(q)
  <2>1. PICK r \in Resource :
          request' = [request EXCEPT ![q].pc = "attach_each",
                        ![q].left = request[q].ask.services,
                        ![q].rows = {r}, ![q].wrote = TRUE]
    BY <1>2 DEF Hours!CreateResource
  <2>2. /\ request'[q].pc = "attach_each" /\ request'[q].rows = {r}
        /\ request'[q].ask = request[q].ask
        /\ request'[q].left = request[q].ask.services
    BY <1>1, <2>1 DEF Requests
  <2> QED BY <2>2 DEF Owes
<1>3. CASE Hours!AttachEach(q)
  <2>1. request[q].pc = "attach_each" /\ request[q].ask.op = "create_resource"
        /\ Hours!Step(q)
    BY <1>1, <1>3 DEF Hours!AttachEach, Sound, Hours!Step
  <2>2. PICK r \in Resource : request[q].rows = {r}
    BY <1>1, <2>1 DEF Owes
  <2>3. \A s \in request[q].ask.services :
          s \in request[q].left \/ <<r, s>> \in performs \/ Hours!Undone(r, s)
    BY <1>1, <2>1, <2>2 DEF Owes
  <2>4. \A s : Hours!Undone(r, s) \/ (<<r, s>> \in performs /\ <<r, s>> \notin performs')
          => Hours!Undone(r, s)'
    BY <2>1, UndoneStays
  <2>5. CASE request[q].left = {} /\ Hours!Goto(q, "invalidate")
    <3>1. "invalidate" \in Hours!Label
      BY DEF Hours!Label
    <3>2. /\ request'[q].pc = "invalidate" /\ request'[q].rows = {r}
          /\ request'[q].ask = request[q].ask /\ request'[q].left = {}
      BY <2>2, <2>5, <3>1, GotoStep
    <3> QED BY <2>2, <2>3, <2>4, <2>5, <3>2 DEF Owes
  <2>6. CASE Hours!Answer(q, "INTERNAL")
    <3>1. request'[q].pc = "done"
      BY <2>6, AnswerStep DEF Hours!Code
    <3> QED BY <3>1 DEF Owes
  <2>7. ASSUME NEW s \in request[q].left, performs' = performs \cup {<<r, s>>},
               request' = [request EXCEPT ![q].left = @ \ {s}]
        PROVE  Owes(q)'
    <3>1. /\ request'[q].pc = "attach_each" /\ request'[q].rows = {r}
          /\ request'[q].ask = request[q].ask /\ request'[q].left = request[q].left \ {s}
      BY <1>1, <2>1, <2>2, <2>7 DEF Requests
    <3> QED BY <2>2, <2>3, <2>4, <2>7, <3>1 DEF Owes
  <2> QED BY <1>3, <2>2, <2>5, <2>6, <2>7 DEF Hours!AttachEach
<1> QED BY <1>2, <1>3

LEMMA OwesStep ==
  ASSUME HoursInv, \A x \in Request : Owes(x), NEW q \in Request, Hours!Step(q),
         NEW y \in Request
  PROVE  Owes(y)'
<1> USE DEF HoursInv
<1>1. Others(q)
  BY StepSound
<1>2. CASE y # q
  <2>1. Same(y) /\ Owes(y)
    BY <1>1, <1>2 DEF Others
  <2>2. \A r, s : Hours!Undone(r, s)
        \/ (<<r, s>> \in performs /\ <<r, s>> \notin performs')
          => Hours!Undone(r, s)'
    BY UndoneStays
  <2> HIDE DEF HoursInv
  <2> QED BY <2>1, <2>2 DEF Owes, Same
<1>3. CASE y = q /\ ~Hours!CreateResource(q) /\ ~Hours!AttachEach(q)
  <2>1. request'[q].pc # "idle"
    <3>1. CASE Hours!Arrive(q)
      <4>1. PICK ask \in Asks :
              \/ request' = [request EXCEPT ![q].ask = ask,
                   ![q].pc = IF Hours!NamesResource(ask) THEN "owned" ELSE ask.op]
              \/ request' = [request EXCEPT ![q].ask = ask, ![q].pc = "done",
                                            ![q].answer = "VALIDATION"]
        BY <3>1 DEF Hours!Arrive
      <4>2. request'[q].pc \in {"owned", ask.op, "done"}
        BY <4>1 DEF HoursTypeInv, Hours!TypeOK
      <4> QED BY <4>2, OpOfAsk DEF HoursTypeInv, Hours!HoursAssumption, Operations
    <3> QED BY <3>1, AskStays
  <2>2. request'[q].pc = "attach_each" => FALSE
    <3>1. ASSUME request'[q].pc = "attach_each" PROVE FALSE
      <4>1. CASE Hours!UpdateResource(q)
        BY <3>1, <4>1, WroteStep, AnswerStep
           DEF Hours!UpdateResource, Hours!Unchanged, Hours!Label, Hours!Code
      <4>2. CASE Hours!ListServiceIDs(q)
        BY <3>1, <4>2, GotoStep DEF Hours!ListServiceIDs, Hours!Label
      <4>3. CASE ~Hours!UpdateResource(q) /\ ~Hours!ListServiceIDs(q)
        <5>1. request'[q].ask.op = "create_resource"
          BY <3>1, StepSound DEF Sound
        <5>2. request[q].pc \in Operations \ {"create_resource"} \/ request[q].pc = "fill"
          BY <1>3, <3>1, <4>3, ComesFrom
        <5>3. request'[q].ask = request[q].ask
          BY <5>2, AskStays DEF Hours!Arrive, Operations
        <5> QED BY <5>1, <5>2, <5>3 DEF HoursTypeInv, Sound
      <4> QED BY <4>1, <4>2, <4>3
    <3> QED BY <3>1
  <2>3. ASSUME request'[q].pc \in {"read_services", "invalidate"}
        PROVE  /\ request'[q].ask.op # "create_resource"
               /\ request'[q].pc = "read_services" =>
                  request'[q].ask.op = "update_resource"
    <3>1. \/ Hours!UpdateResource(q) \/ Hours!ListServiceIDs(q)
          \/ request[q].pc \in Operations \ {"create_resource"} \/ request[q].pc = "fill"
      BY <1>3, <2>3, ComesFrom
    <3>2. ~Hours!Arrive(q)
      BY <3>1 DEF Hours!Arrive, Hours!UpdateResource, Hours!ListServiceIDs, Operations
    <3>3. request'[q].ask = request[q].ask
      BY <3>2, AskStays
    <3>4. CASE Hours!UpdateResource(q)
      BY <3>3, <3>4 DEF Hours!UpdateResource, HoursTypeInv, Sound, Operations
    <3>5. CASE Hours!ListServiceIDs(q)
      BY <3>3, <3>5 DEF Hours!ListServiceIDs, Owes
    <3>6. CASE ~Hours!UpdateResource(q) /\ ~Hours!ListServiceIDs(q)
      <4>1. request[q].ask.op # "create_resource"
        BY <3>1, <3>6 DEF HoursTypeInv, Sound
      <4>2. request'[q].pc # "read_services"
        <5>1. ASSUME request'[q].pc = "read_services" PROVE FALSE
          <6>1. Hours!DeleteResource(q) \/ Hours!AttachService(q)
                \/ Hours!DetachService(q) \/ Hours!CreateHours(q)
                \/ Hours!FillAndCommit(q) \/ Hours!UpdateHours(q) \/ Hours!DeleteHours(q)
                   \/ Hours!ReplaceHours(q)
                \/ Hours!CreateException(q) \/ Hours!DeleteException(q) \/ Hours!Fault(q)
            BY <1>3, <3>1, <3>2, <3>6
               DEF Hours!Step, Operations, Hours!AssertResourceOwned,
                   Hours!DeleteBusinessHoursForScope, Hours!InvalidateProvider
          <6>2. request'[q].pc \in {"invalidate", "done", "clear"}
            <7>1. "invalidate" \in Hours!Label
              BY DEF Hours!Label
            <7>2. CASE Hours!ReplaceHours(q)
              BY <1>1, <7>2 DEF Hours!ReplaceHours, HoursTypeInv, Hours!TypeOK
            <7>3. CASE Hours!Fault(q)
              BY <7>3, AnswerStep DEF Hours!Fault, Hours!FaultCode, Hours!Code
            <7>4. CASE Hours!CreateHours(q) \/ Hours!FillAndCommit(q)
              <8>1. Hours!Unchanged(q, "INTERNAL")
                    \/ Hours!AddsToScope(q, "invalidate", request[q].ask.provider,
                                   request[q].ask.resource)
                BY <7>4 DEF Hours!CreateHours, Hours!FillAndCommit
              <8> QED BY <7>1, <8>1, AnswerStep, AddsStep DEF Hours!Unchanged, Hours!Code
            <7>5. CASE Hours!DeleteResource(q) \/ Hours!AttachService(q)
                  \/ Hours!DetachService(q)
                       \/ Hours!UpdateHours(q) \/ Hours!DeleteHours(q)
                       \/ Hours!CreateException(q) \/ Hours!DeleteException(q)
              <8>1. Hours!Wrote(q, "invalidate")
                    \/ \E code \in Hours!Code : Hours!Unchanged(q, code)
                BY <7>5
                   DEF Hours!DeleteResource, Hours!AttachService, Hours!DetachService,
                       Hours!UpdateHours, Hours!DeleteHours, Hours!CreateException,
                       Hours!DeleteException, Hours!Code
              <8> QED BY <7>1, <8>1, AnswerStep, WroteStep DEF Hours!Unchanged
            <7> QED BY <6>1, <7>2, <7>3, <7>4, <7>5
          <6> QED BY <5>1, <6>2
        <5> QED BY <5>1
      <4> QED BY <3>3, <4>1, <4>2
    <3> QED BY <3>4, <3>5, <3>6
  <2> QED BY <1>3, <2>1, <2>2, <2>3 DEF Owes
<1> QED BY <1>2, <1>3, CreationOwes

LEMMA Owing == Hours!HoursAssumption /\ Hours!Spec => [](\A q \in Request : Owes(q))
<1> DEFINE All == \A q \in Request : Owes(q)
<1>1. Hours!HoursAssumption /\ Hours!Init => All
  BY DEF Hours!Init, Owes, Hours!NoRequest
<1>2. All /\ HoursInv /\ [Hours!Next]_(Hours!vars) => All'
  <2> SUFFICES ASSUME All, HoursInv, [Hours!Next]_(Hours!vars) PROVE All'
    OBVIOUS
  <2>1. CASE UNCHANGED <<request, performs>>
    BY <2>1 DEF Owes, Hours!Undone
  <2> QED BY <2>1, OwesStep DEF Hours!Next, Hours!vars, Hours!Browse, Hours!Put
<1> QED BY <1>1, <1>2, Invariance, PTL DEF Hours!Spec

\* A resource is reported as created only when it performs every service that was asked
\* for, though each is attached by a statement of its own outside a transaction, unless
\* another request has detached it or deleted the resource (CreateResource).
THEOREM CreatedAttached ==
  Hours!HoursAssumption /\ Hours!Spec => [][Hours!CreatedMeansAttached]_(Hours!vars)
<1>1. (\A q \in Request : Owes(q)) /\ [Hours!Next]_(Hours!vars) =>
      [Hours!CreatedMeansAttached]_(Hours!vars)
  BY DEF Hours!CreatedMeansAttached, Owes
<1> QED BY <1>1, Owing, PTL DEF Hours!Spec

-----------------------------------------------------------------------------
(* A replacement is made as a whole.                                       *)

\* Unless it has been told of a row added behind its back, a replacement holds every row
\* of its scope.
HoldsAll(q) ==
  request[q].pc \in {"clear", "fill"} /\ ~request[q].stale =>
    Hours!RowsOfScope(request[q].ask.provider,
       request[q].ask.resource) \subseteq request[q].rows

\* Who adds a row to a scope tells those that are replacing it.
LEMMA AddedInScope ==
  ASSUME HoursInv, RowsKnown, NEW q \in Request, Hours!Step(q), NEW h \in Row,
         h \notin used, hours'[h] # None
  PROVE  /\ InScope(hours'[h], request[q].ask)
         /\ Hours!AddsToScope(q, "invalidate", request[q].ask.provider,
            request[q].ask.resource)
<1>0. hours \in [Row -> Hours!HoursRow \cup {None}] /\ hours[h] = None /\ hours' # hours
  BY DEF HoursInv, HoursFit, RowsKnown
<1>1. CASE Hours!CreateHours(q)
  <2>1. /\ Hours!AddsToScope(q, "invalidate", request[q].ask.provider,
           request[q].ask.resource)
        /\ \E n \in Row \ used :
             hours' = [hours EXCEPT ![n] = Hours!NewHours(request[q].ask,
                request[q].ask.span)]
    BY <1>0, <1>1 DEF Hours!CreateHours, Hours!Unchanged
  <2>2. hours'[h] = Hours!NewHours(request[q].ask, request[q].ask.span)
    BY <1>0, <2>1
  <2> QED BY <2>1, <2>2 DEF Hours!NewHours, InScope
<1>2. CASE Hours!FillAndCommit(q)
  <2> DEFINE ask == request[q].ask
             week == ask.week
  <2>1. Hours!AddsToScope(q, "invalidate", ask.provider, ask.resource)
    BY <1>0, <1>2 DEF Hours!FillAndCommit, Hours!Unchanged
  <2>2. PICK row \in [week -> Row \ used] :
          hours' = [k \in Row |->
               IF k \in { row[span] : span \in week }
               THEN Hours!NewHours(ask, CHOOSE span \in week : row[span] = k)
               ELSE IF k \in request[q].rows THEN None ELSE hours[k]]
    BY <1>0, <1>2 DEF Hours!FillAndCommit, Hours!Unchanged
  <2>3. hours'[h] = Hours!NewHours(ask, CHOOSE span \in week : row[span] = h)
    BY <1>0, <2>2
  <2> QED BY <2>1, <2>3 DEF Hours!NewHours, InScope
<1>3. ~Hours!UpdateHours(q) /\ ~Hours!DeleteHours(q) /\ ~Hours!DeleteResource(q)
  BY <1>0
     DEF Hours!UpdateHours, Hours!DeleteHours, Hours!DeleteResource, Hours!HasHours,
         Hours!Unchanged
<1>4. Hours!Arrive(q) \/ Hours!AssertResourceOwned(q) \/ Hours!AttachEach(q)
      \/ Hours!UpdateResource(q)
        \/ Hours!ListServiceIDs(q) \/ Hours!AttachService(q) \/ Hours!DetachService(q)
        \/ Hours!CreateResource(q) \/ Hours!ReplaceHours(q)
           \/ Hours!DeleteBusinessHoursForScope(q)
        \/ Hours!CreateException(q) \/ Hours!DeleteException(q)
           \/ Hours!InvalidateProvider(q) \/ Hours!Fault(q)
      => hours' = hours
  BY DEF Hours!Arrive, Hours!AssertResourceOwned, Hours!AttachEach,
         Hours!UpdateResource, Hours!ListServiceIDs, Hours!AttachService,
         Hours!DetachService, Hours!CreateResource, Hours!ReplaceHours,
         Hours!DeleteBusinessHoursForScope, Hours!CreateException,
         Hours!DeleteException, Hours!InvalidateProvider, Hours!Fault, Hours!Unchanged
<1> QED BY <1>0, <1>1, <1>2, <1>3, <1>4 DEF Hours!Step

\* Whoever else steps, one is not untold.
LEMMA StaleStays ==
  ASSUME HoursInv, NEW q \in Request, Hours!Step(q), NEW x \in Request \ {q},
         request[x].stale
  PROVE  request'[x].stale
<1>0. request \in [Request -> Requests]
  BY DEF HoursInv, HoursTypeInv, Hours!TypeOK, Requests
<1>1. CASE \E p, r : Hours!AddsToScope(q, "invalidate", p, r)
  <2>1. PICK p, r : Hours!AddsToScope(q, "invalidate", p, r)
    BY <1>1
  <2> DEFINE told == request[x].stale \/
               (request[x].pc \in {"clear", "fill"} /\ request[x].ask.provider = p
                /\ request[x].ask.resource = r)
  <2>2. request'[x] = [request[x] EXCEPT !.stale = told] /\ told
    BY <2>1 DEF Hours!AddsToScope
  <2> HIDE DEF told
  <2> QED BY <1>0, <2>2 DEF Requests
<1>2. CASE request'[x] = request[x]
  BY <1>2
<1>3. Hours!CreateHours(q) \/ Hours!FillAndCommit(q)
      => Hours!Answer(q, "INTERNAL") \/ \E p, r : Hours!AddsToScope(q, "invalidate", p, r)
  <2>1. Hours!CreateHours(q) => Hours!Answer(q, "INTERNAL")
          \/ Hours!AddsToScope(q, "invalidate", request[q].ask.provider,
             request[q].ask.resource)
    BY DEF Hours!CreateHours, Hours!Unchanged
  <2>2. Hours!FillAndCommit(q) => Hours!Answer(q, "INTERNAL")
          \/ Hours!AddsToScope(q, "invalidate", request[q].ask.provider,
             request[q].ask.resource)
    BY DEF Hours!FillAndCommit, Hours!Unchanged
  <2> QED BY <2>1, <2>2
<1>4. Hours!Answer(q, "INTERNAL") => request'[x] = request[x]
  BY <1>0 DEF Hours!Answer
<1>5. CASE ~Hours!CreateHours(q) /\ ~Hours!FillAndCommit(q)
  <2>1. CASE Hours!Arrive(q) \/ Hours!AssertResourceOwned(q) \/ Hours!CreateResource(q)
        \/ Hours!AttachEach(q)
             \/ Hours!ReplaceHours(q) \/ Hours!DeleteBusinessHoursForScope(q)
    <3>1. \E new : request' = [request EXCEPT ![q] = new]
      <4>1. CASE Hours!Arrive(q)
        BY <4>1 DEF Hours!Arrive
      <4>2. CASE Hours!AssertResourceOwned(q)
        BY <4>2 DEF Hours!AssertResourceOwned, Hours!Goto, Hours!Answer
      <4>3. CASE Hours!CreateResource(q)
        BY <4>3 DEF Hours!CreateResource
      <4>4. CASE Hours!AttachEach(q)
        BY <4>4 DEF Hours!AttachEach, Hours!Goto, Hours!Answer
      <4>5. CASE Hours!ReplaceHours(q) \/ Hours!DeleteBusinessHoursForScope(q)
        BY <4>5 DEF Hours!ReplaceHours, Hours!DeleteBusinessHoursForScope
      <4> QED BY <2>1, <4>1, <4>2, <4>3, <4>4, <4>5
    <3> QED BY <1>0, <3>1
  <2>2. CASE Hours!UpdateResource(q) \/ Hours!ListServiceIDs(q) \/ Hours!DeleteResource(q)
             \/ Hours!AttachService(q) \/ Hours!DetachService(q) \/ Hours!UpdateHours(q)
                \/ Hours!DeleteHours(q)
             \/ Hours!CreateException(q) \/ Hours!DeleteException(q)
                \/ Hours!InvalidateProvider(q) \/ Hours!Fault(q)
    <3>1. (\E label : Hours!Goto(q, label) \/ Hours!Wrote(q, label))
          \/ (\E code : Hours!Answer(q, code))
      BY <2>2
         DEF Hours!UpdateResource, Hours!ListServiceIDs, Hours!DeleteResource,
             Hours!AttachService, Hours!DetachService, Hours!UpdateHours,
             Hours!DeleteHours, Hours!CreateException, Hours!DeleteException,
             Hours!InvalidateProvider, Hours!Fault, Hours!Unchanged
    <3>2. request'[x] = request[x]
      BY <1>0, <3>1 DEF Hours!Goto, Hours!Wrote, Hours!Answer
    <3> QED BY <3>2
  <2> QED BY <1>5, <2>1, <2>2 DEF Hours!Step
<1> QED BY <1>1, <1>2, <1>3, <1>4, <1>5

LEMMA HoldsAllStep ==
  ASSUME HoursInv, RowsKnown, \A x \in Request : HoldsAll(x), NEW q \in Request,
         Hours!Step(q),
         NEW x \in Request
  PROVE  HoldsAll(x)'
<1> SUFFICES ASSUME request'[x].pc \in {"clear", "fill"}, ~request'[x].stale,
                    NEW h \in Row, hours'[h] # None,
                    InScope(hours'[h], request'[x].ask)
             PROVE  h \in request'[x].rows
  BY DEF HoldsAll, Hours!RowsOfScope, InScope
<1>1. CASE x = q
  <2>1. /\ UNCHANGED hours /\ request'[q].ask = request[q].ask
        /\ h \in Hours!RowsOfScope(request[q].ask.provider, request[q].ask.resource)
    BY <1>1, RowsFound DEF Hours!RowsOfScope, InScope
  <2>2. CASE request'[q].rows = Hours!RowsOfScope(request[q].ask.provider,
        request[q].ask.resource)
    BY <1>1, <2>1, <2>2
  <2>3. CASE /\ request[q].pc \in {"clear", "fill"}
             /\ request'[q].rows = { k \in request[q].rows : hours[k] # None }
             /\ request'[q].stale = request[q].stale
    <3>1. h \in request[q].rows /\ hours[h] # None
      BY <1>1, <2>1, <2>3 DEF HoldsAll
    <3> QED BY <1>1, <2>3, <3>1
  <2> QED BY <1>1, <2>2, <2>3, RowsFound
<1>2. CASE x # q
  <2>1. Same(x)
    BY <1>2, StepSound DEF Others, HoursInv
  <2>2. ~request[x].stale
    BY <1>2, StaleStays
  <2>3. CASE h \notin used
    <3>1. InScope(hours'[h], request[q].ask)
          /\ Hours!AddsToScope(q, "invalidate", request[q].ask.provider,
             request[q].ask.resource)
      BY <2>3, AddedInScope
    <3>2. request[x].ask.provider = request[q].ask.provider
          /\ request[x].ask.resource = request[q].ask.resource
      BY <2>1, <3>1 DEF Same, InScope
    <3>3. request'[x].stale
      BY <1>2, <2>1, <3>1, <3>2
         DEF Hours!AddsToScope, Same, HoursInv, HoursTypeInv, Hours!TypeOK
    <3> QED BY <3>3
  <2>4. CASE h \in used
    <3>1. hours[h] # None /\ InScope(hours[h], request[x].ask)
      BY <2>1, <2>4, RowChange DEF InScope, Same
    <3>2. h \in request[x].rows
      BY <2>1, <2>2, <3>1 DEF HoldsAll, Hours!RowsOfScope, InScope, Same
    <3> QED BY <2>1, <3>2 DEF Same
  <2> QED BY <2>3, <2>4
<1> QED BY <1>1, <1>2

LEMMA Holding == Hours!HoursAssumption /\ Hours!Spec => [](\A q \in Request : HoldsAll(q))
<1> DEFINE All == \A q \in Request : HoldsAll(q)
<1>1. Hours!HoursAssumption /\ Hours!Init => All
  BY DEF Hours!Init, HoldsAll, Hours!NoRequest
<1>2. All /\ RowsKnown /\ HoursInv /\ [Hours!Next]_(Hours!vars) => All'
  <2> SUFFICES ASSUME All, RowsKnown, HoursInv, [Hours!Next]_(Hours!vars) PROVE All'
    OBVIOUS
  <2>1. CASE UNCHANGED <<request, hours>>
    BY <2>1 DEF HoldsAll, Hours!RowsOfScope
  <2> QED BY <2>1, HoldsAllStep DEF Hours!Next, Hours!vars, Hours!Browse, Hours!Put
<1> QED BY <1>1, <1>2, Invariance, Known, PTL DEF Hours!Spec

\* Which rows a scope has once its week has been committed.
LEMMA CommittedRows ==
  ASSUME HoursInv, RowsKnown, NEW q \in Request, Hours!FillAndCommit(q), hours' # hours,
         HoldsAll(q), ~request[q].stale,
         NEW row \in [request[q].ask.week -> Row \ used],
         hours' = [h \in Row |->
           IF h \in { row[span] : span \in request[q].ask.week }
           THEN Hours!NewHours(request[q].ask,
                         CHOOSE span \in request[q].ask.week : row[span] = h)
           ELSE IF h \in request[q].rows THEN None ELSE hours[h]],
         \A a, b \in request[q].ask.week : row[a] = row[b] => a = b
  PROVE  LET ask == request[q].ask IN
         /\ Hours!RowsOfScope(ask.provider,
            ask.resource)' = { row[span] : span \in ask.week }
         /\ \A span \in ask.week : hours'[row[span]].span = Hours!Stored(span)
<1> DEFINE ask == request[q].ask
           week == ask.week
<1>1. request[q].pc = "fill" /\ week \subseteq Hours!Span
      /\ \A span \in week : Hours!Insertable(ask.resource, span)
  <2>1. request[q].pc = "fill" /\ ask.op = "replace_hours"
    BY DEF Hours!FillAndCommit, HoursInv, HoursTypeInv, Sound
  <2>2. \A span \in week : Hours!Insertable(ask.resource, span)
    BY DEF Hours!FillAndCommit, Hours!Unchanged
  <2> QED BY <2>1, <2>2, AskType DEF HoursInv
<1>2. ASSUME NEW span \in week
      PROVE  hours'[row[span]] = Hours!NewHours(ask, span)
  <2>1. (CHOOSE s \in week : row[s] = row[span]) = span
    OBVIOUS
  <2>2. row[span] \in Row /\ row[span] \in { row[s] : s \in week }
    OBVIOUS
  <2>3. hours'[row[span]] = Hours!NewHours(ask, CHOOSE s \in week : row[s] = row[span])
    BY <2>2
  <2> QED BY <2>1, <2>3
<1>3. ASSUME NEW span \in week
      PROVE  row[span] \in Hours!RowsOfScope(ask.provider, ask.resource)'
  <2>1. Hours!NewHours(ask, span) \in Hours!HoursRow
    BY <1>1, NewHoursRow DEF NewRow, HoursInv
  <2>2. Hours!NewHours(ask, span) # None
    BY <2>1 DEF HoursInv, HoursTypeInv, Hours!HoursAssumption
  <2>3. request'[q].ask = request[q].ask
    BY AskStays DEF HoursInv, Hours!Step, Hours!FillAndCommit, Hours!Arrive
  <2> QED BY <1>2, <2>2, <2>3 DEF Hours!RowsOfScope, Hours!NewHours
<1>4. ASSUME NEW h \in Hours!RowsOfScope(ask.provider, ask.resource)'
      PROVE  h \in { row[span] : span \in week }
  <2>1. request'[q].ask = request[q].ask
    BY AskStays DEF HoursInv, Hours!Step, Hours!FillAndCommit, Hours!Arrive
  <2>2. h \in Row /\ hours'[h] # None /\ InScope(hours'[h], ask)
    BY <2>1 DEF Hours!RowsOfScope, InScope
  <2>3. CASE h \notin { row[span] : span \in week }
    <3>1. hours'[h] = hours[h] /\ h \notin request[q].rows
      BY <2>2, <2>3
    <3>2. h \in Hours!RowsOfScope(ask.provider, ask.resource)
      BY <2>2, <3>1 DEF Hours!RowsOfScope, InScope
    <3> QED BY <1>1, <3>1, <3>2 DEF HoldsAll
  <2> QED BY <2>3
<1>5. Hours!RowsOfScope(ask.provider, ask.resource)' = { row[span] : span \in week }
  BY <1>3, <1>4
<1>6. \A span \in week : hours'[row[span]].span = Hours!Stored(span)
  BY <1>2 DEF Hours!NewHours
<1> QED BY <1>5, <1>6

\* Hours' own names of what FiniteSets defines stand for the same.
LEMMA SameFinite == \A S : Hours!IsFiniteSet(S) <=> IsFiniteSet(S)
BY DEF Hours!IsFiniteSet, IsFiniteSet

LEMMA SameCount == \A S : Hours!Cardinality(S) = Cardinality(S)
BY DEF Hours!Cardinality, Cardinality, Hours!IsFiniteSet, IsFiniteSet

LEMMA WeekInPlace ==
  ASSUME HoursInv, RowsKnown, NEW q \in Request, Hours!FillAndCommit(q), hours' # hours,
         HoldsAll(q), ~request[q].stale
  PROVE  Hours!InPlace(request[q].ask.provider, request[q].ask.resource,
     request[q].ask.week)'
<1> DEFINE ask == request[q].ask
           week == ask.week
<1>0. Hours!Step(q)
  BY DEF Hours!Step
<1>1. PICK row \in [week -> Row \ used] :
        /\ \A a, b \in week : row[a] = row[b] => a = b
        /\ hours' = [h \in Row |->
             IF h \in { row[span] : span \in week }
             THEN Hours!NewHours(ask, CHOOSE span \in week : row[span] = h)
             ELSE IF h \in request[q].rows THEN None ELSE hours[h]]
  BY DEF Hours!FillAndCommit, Hours!Unchanged
<1> DEFINE new == { row[span] : span \in week }
<1>2. Hours!RowsOfScope(ask.provider, ask.resource)' = new
      /\ \A span \in week : hours'[row[span]].span = Hours!Stored(span)
  BY <1>1, CommittedRows
<1>3. Hours!Spans(ask.provider, ask.resource)' = { Hours!Stored(span) : span \in week }
  BY <1>2 DEF Hours!Spans
<1>4. Cardinality(new) = Cardinality(week)
  <2>1. IsFiniteSet(week)
    <3>1. request[q].pc = "fill" /\ ask.op = "replace_hours" /\ ask \in Asks
      BY DEF Hours!FillAndCommit, HoursInv, HoursTypeInv, Sound
    <3> QED BY <3>1, SameFinite DEF HoursInv, HoursTypeInv, Hours!HoursAssumption
  <2>2. row \in Bijection(week, new)
    <3>1. row \in [week -> new] /\ \A t \in new : \E s \in week : row[s] = t
      OBVIOUS
    <3>2. IsInjective(row)
      BY <1>1 DEF IsInjective
    <3> QED BY <3>1, <3>2 DEF Bijection, Injection, Surjection
  <2>3. ExistsBijection(week, new)
    BY <2>2 DEF ExistsBijection
  <2> QED BY <2>1, <2>3, FS_Bijection
<1>5. request'[q].ask = ask
  BY <1>0, AskStays DEF HoursInv, Hours!FillAndCommit, Hours!Arrive
<1>6. (Cardinality(Hours!RowsOfScope(ask.provider, ask.resource)) = Cardinality(week))'
  BY <1>2, <1>4, <1>5
<1>7. (Hours!Spans(ask.provider, ask.resource) = { Hours!Stored(span) : span \in week })'
  BY <1>3, <1>5
<1> QED BY <1>6, <1>7, SameCount DEF Hours!InPlace

\* "Either the new week is in place or the old one still is": a replacement changes the
\* table in one step, the commit, after which its week is exactly what the scope has,
\* unless a row was added to the scope behind its back (ReplaceHours).
THEOREM ReplacedWhole ==
  Hours!HoursAssumption /\ Hours!Spec => [][Hours!ReplacedAsAWhole]_(Hours!vars)
<1>1. (\A q \in Request : HoldsAll(q)) /\ RowsKnown /\ HoursInv
      /\ [Hours!Next]_(Hours!vars)
        => [Hours!ReplacedAsAWhole]_(Hours!vars)
  <2> SUFFICES ASSUME \A q \in Request : HoldsAll(q), RowsKnown, HoursInv, Hours!Next,
                      NEW q \in Request, Hours!Replaces(q), hours' # hours
               PROVE  /\ request'[q].pc = "invalidate"
                      /\ \/ request[q].stale
                         \/ Hours!InPlace(request[q].ask.provider,
                            request[q].ask.resource,
                                    request[q].ask.week)'
    BY DEF Hours!ReplacedAsAWhole
  <2>1. ASSUME NEW x \in Request, Hours!Step(x) PROVE x = q
    BY <2>1, StepSound DEF Others, Same, Hours!Replaces, HoursInv
  <2>2. Hours!Step(q)
    BY <2>1 DEF Hours!Next, Hours!Browse, Hours!Put
  <2>3. Hours!FillAndCommit(q)
    <3>1. request[q].pc \in Operations => request[q].pc = "replace_hours"
      BY DEF HoursInv, HoursTypeInv, Sound, Hours!Replaces
    <3>2. ~Hours!CreateHours(q) /\ ~Hours!UpdateHours(q) /\ ~Hours!DeleteHours(q)
           /\ ~Hours!DeleteResource(q)
      BY <3>1
         DEF Operations, Hours!CreateHours, Hours!UpdateHours, Hours!DeleteHours,
             Hours!DeleteResource
    <3>3. Hours!Arrive(q) \/ Hours!AssertResourceOwned(q) \/ Hours!AttachEach(q)
          \/ Hours!UpdateResource(q)
            \/ Hours!ListServiceIDs(q) \/ Hours!AttachService(q) \/ Hours!DetachService(q)
            \/ Hours!CreateResource(q) \/ Hours!ReplaceHours(q)
               \/ Hours!DeleteBusinessHoursForScope(q)
            \/ Hours!CreateException(q) \/ Hours!DeleteException(q)
               \/ Hours!InvalidateProvider(q) \/ Hours!Fault(q)
          => hours' = hours
      BY DEF Hours!Arrive, Hours!AssertResourceOwned, Hours!AttachEach,
             Hours!UpdateResource, Hours!ListServiceIDs, Hours!AttachService,
             Hours!DetachService, Hours!CreateResource, Hours!ReplaceHours,
             Hours!DeleteBusinessHoursForScope, Hours!CreateException,
             Hours!DeleteException, Hours!InvalidateProvider, Hours!Fault,
             Hours!Unchanged
    <3> QED BY <2>2, <3>2, <3>3 DEF Hours!Step
  <2>4. request'[q].pc = "invalidate"
    <3>1. Hours!AddsToScope(q, "invalidate", request[q].ask.provider,
          request[q].ask.resource)
      BY <2>3 DEF Hours!FillAndCommit, Hours!Unchanged
    <3>2. "invalidate" \in Hours!Label
      BY DEF Hours!Label
    <3> QED BY <3>1, <3>2, AddsStep DEF HoursInv
  <2>5. CASE ~request[q].stale
    BY <2>3, <2>4, <2>5, WeekInPlace
  <2> QED BY <2>4, <2>5
<1> QED BY <1>1, Invariance, Known, Holding, PTL DEF Hours!Spec

\* All that the tables promise of a state: hours and exceptions of existing resources of
\* the provider's own, one exception for a date and a scope, and lists that are older only
\* while an edit is on its way, after one that ended in an error, or when overtaken.
THEOREM TablesConsistent ==
  Hours!HoursAssumption /\ Hours!Spec => []Hours!HoursStayConsistent
BY HoursTyped, ScopesOwned, ClosedOnce, FreshAfterEdits, PTL DEF Hours!HoursStayConsistent

\* All that they promise of a step: the creation of a resource and the replacement of a
\* week each take effect as a whole, and a week's rows are those of its scope.
THEOREM TablesEditedWhole ==
  Hours!HoursAssumption /\ Hours!Spec => [][Hours!EditsAreWhole]_(Hours!vars)
<1>1. [Hours!CreatedMeansAttached]_(Hours!vars) /\ [Hours!ReplacedAsAWhole]_(Hours!vars)
      /\ [Hours!OtherScopesKept]_(Hours!vars)
        => [Hours!EditsAreWhole]_(Hours!vars)
  BY DEF Hours!EditsAreWhole
<1> QED BY <1>1, CreatedAttached, ReplacedWhole, BarbersKeepTheirHours, PTL

-----------------------------------------------------------------------------
(* The two together.                                                       *)

\* However the requests of the two interleave, each of the two runs as it would alone.
THEOREM SchedulingRunsBoth == SchedulingSpec => Spec /\ Hours!Spec
<1>1. SchedulingInit => Init /\ Hours!Init
  BY DEF SchedulingInit
<1>2. [SchedulingNext]_<<vars, tables>> => [Next]_vars
  BY DEF SchedulingNext, vars
<1>3. [SchedulingNext]_<<vars, tables>> => [Hours!Next]_(Hours!vars)
  BY DEF SchedulingNext, tables, Hours!vars
<1> QED BY <1>1, <1>2, <1>3, PTL DEF SchedulingSpec, Spec, Hours!Spec

\* Whatever edits, deletions, fills of the cache and faults overlap, the rows of the
\* tables are consistent, and a cached list is older than they are only while an edit
\* is on its way, after one that failed, or when an invalidation overtook its fill.
THEOREM HoursConsistent == SchedulingSpec => []HoursStayConsistent
BY SchedulingRunsBoth, SchedulingAssumption, TablesConsistent, PTL DEF HoursStayConsistent

\* Whatever requests overlap, the creation of a resource and the replacement of a week
\* are done as a whole, and no other scope's hours with them.
THEOREM EditsWhole == SchedulingSpec => EditsAreWhole
<1>1. [Hours!EditsAreWhole]_(Hours!vars) <=> [Hours!EditsAreWhole]_tables
  BY DEF Hours!vars, tables
<1> QED BY <1>1, SchedulingRunsBoth, SchedulingAssumption, TablesEditedWhole, PTL
        DEF EditsAreWhole
=============================================================================
