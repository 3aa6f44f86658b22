---- MODULE GatewayCacheProofs ----
(***************************************************************************)
(* Proofs about GatewayCache: its state stays typed, and an invalidation   *)
(* misses no stored response that was right when it was stored.            *)
(***************************************************************************)
EXTENDS GatewayCache, TLAPS

Stages == {"idle", "lookup", "fetch", "store", "forward", "scan", "answer"}

\* A response lacks only what was to come from another service.
OnlyCallsMissing(r) == \A t \in Tables : r.seen[t] = Missing => t \in Called[r.page]

\* What the handler relies on at each of its awaits.
InShape(r) ==
    /\ r.at \in {"lookup", "fetch", "store"} => r.page \in Pages /\ OnlyCallsMissing(r)
    /\ r.at = "fetch" => r.todo # <<>>
    /\ r.at = "forward" => r.write \in Writes
    /\ r.at = "scan" => r.patterns # <<>>

RequestsInShape == \A w \in Workers : InShape(req[w])
OnlyCacheable == \A p \in Pages : cache[p] # NoEntry => ShouldCache(p)

TypeInv == TypeOK /\ RequestsInShape /\ OnlyCacheable

-----------------------------------------------------------------------------
(* Requests.                                                               *)

LEMMA IdleIsRequest == Idle \in Request /\ InShape(Idle) /\ Idle.at = "idle"
<1>1. Unread \in Readings
  BY ConstantsOK DEF Unread, Readings
<1> QED
  BY <1>1 DEF Idle, Request, InShape

\* Setting the stage of a request leaves the rest of it alone.
LEMMA AtStage ==
    ASSUME NEW r \in Request, NEW at \in Stages
    PROVE  LET r1 == [r EXCEPT !.at = at] IN
           /\ r1 \in Request
           /\ r1.at = at
           /\ r1.page = r.page /\ r1.seen = r.seen /\ r1.write = r.write /\ r1.todo = r.todo
           /\ r1.patterns = r.patterns /\ r1.keys = r.keys /\ r1.found = r.found
  BY DEF Request, Stages

LEMMA GotoTypes ==
    ASSUME req \in [Workers -> Request], RequestsInShape,
           NEW w \in Workers, NEW r \in Request, NEW at \in Stages, Goto(w, r, at),
           at \in {"lookup", "fetch", "store"} => r.page \in Pages /\ OnlyCallsMissing(r),
           at = "fetch" => r.todo # <<>>,
           at = "forward" => r.write \in Writes,
           at = "scan" => r.patterns # <<>>
    PROVE  req' \in [Workers -> Request] /\ RequestsInShape'
<1> DEFINE r1 == [r EXCEPT !.at = at]
<1>1. r1 \in Request /\ InShape(r1)
  BY AtStage DEF InShape, OnlyCallsMissing
<1>2. req' = [req EXCEPT ![w] = r1]
  BY DEF Goto
<1> HIDE DEF r1
<1> QED
  BY <1>1, <1>2 DEF RequestsInShape

LEMMA FinishTypes ==
    ASSUME req \in [Workers -> Request], RequestsInShape, NEW w \in Workers, Finish(w)
    PROVE  req' \in [Workers -> Request] /\ RequestsInShape'
  BY IdleIsRequest DEF Finish, RequestsInShape

\* After a step of worker w, the other requests are as they were.
LEMMA GotoFrame ==
    ASSUME req \in [Workers -> Request], NEW w \in Workers, NEW r \in Request,
           NEW at \in Stages, Goto(w, r, at), NEW v \in Workers
    PROVE  /\ v # w => req'[v] = req[v]
           /\ v = w => /\ req'[v].at = at
                       /\ req'[v].patterns = r.patterns
                       /\ req'[v].keys = r.keys
                       /\ req'[v].found = r.found
  BY AtStage DEF Goto

-----------------------------------------------------------------------------
(* Sweeping.                                                               *)

LEMMA PatternsType ==
    ASSUME NEW path
    PROVE  PatternsFor(path) \in Seq(InvalidationPrefixes)
<1>1. ASSUME NEW prefix \in InvalidationPrefixes
      PROVE  InvalidationMap(prefix) \in Seq(InvalidationPrefixes)
  <2> DEFINE threads == <<"/threads">>
             comments == <<"/comments">>
  <2>1. threads \in InvalidationPrefixes /\ comments \in InvalidationPrefixes
    BY DEF InvalidationPrefixes
  <2>2. InvalidationMap(prefix) = IF prefix = comments THEN <<threads, comments>> ELSE <<prefix>>
    BY DEF InvalidationMap
  <2> HIDE DEF threads, comments
  <2> QED
    BY <1>1, <2>1, <2>2
<1>2. CASE StartsWith(path, InvalidationPrefixes)
  <2> DEFINE prefix == CHOOSE q \in InvalidationPrefixes : IsPrefix(q, path)
  <2>1. prefix \in InvalidationPrefixes
    BY <1>2 DEF StartsWith
  <2>2. PatternsFor(path) = InvalidationMap(prefix)
    BY <1>2 DEF PatternsFor
  <2> HIDE DEF prefix
  <2> QED
    BY <1>1, <2>1, <2>2
<1>3. CASE ~StartsWith(path, InvalidationPrefixes)
  BY <1>3 DEF PatternsFor
<1> QED
  BY <1>2, <1>3

\* Where a sweep stands after its first step.
LEMMA SweepStep ==
    ASSUME req \in [Workers -> Request], NEW w \in Workers, NEW r \in Request,
           NEW patterns \in Seq(InvalidationPrefixes), Sweep(w, r, patterns)
    PROVE  \E r1 \in Request :
               /\ r1.patterns = patterns
               /\ r1.keys = IF patterns = <<>> THEN {} ELSE Matching(Head(patterns))
               /\ r1.found = {}
               /\ Goto(w, r1, IF patterns = <<>> THEN "answer" ELSE "scan")
<1> DEFINE keys == IF patterns = <<>> THEN {} ELSE Matching(Head(patterns))
           r1 == [r EXCEPT !.patterns = patterns, !.keys = keys, !.found = {}]
<1>1. keys \subseteq Pages
  BY DEF Matching
<1>2. Goto(w, r1, IF patterns = <<>> THEN "answer" ELSE "scan")
  BY DEF Sweep
<1>3. r1 \in Request /\ r1.patterns = patterns /\ r1.keys = keys /\ r1.found = {}
  <2> HIDE DEF keys
  <2> QED
    BY <1>1 DEF Request
<1> QED
  <2> HIDE DEF r1
  <2> QED
    BY <1>2, <1>3

LEMMA SweepTypes ==
    ASSUME req \in [Workers -> Request], RequestsInShape, NEW w \in Workers, NEW r \in Request,
           NEW patterns \in Seq(InvalidationPrefixes), Sweep(w, r, patterns)
    PROVE  req' \in [Workers -> Request] /\ RequestsInShape'
<1>1. PICK r1 \in Request :
          /\ r1.patterns = patterns
          /\ Goto(w, r1, IF patterns = <<>> THEN "answer" ELSE "scan")
  BY SweepStep
<1>2. CASE patterns = <<>>
  BY <1>1, <1>2, GotoTypes DEF Stages
<1>3. CASE patterns # <<>>
  BY <1>1, <1>3, GotoTypes DEF Stages
<1> QED
  BY <1>2, <1>3

\* A sweep that starts with some patterns is going to remove every page that
\* matches one of them.
LEMMA SweepWillRemove ==
    ASSUME req \in [Workers -> Request], NEW w \in Workers, NEW r \in Request,
           NEW patterns \in Seq(InvalidationPrefixes), Sweep(w, r, patterns),
           NEW i \in 1..Len(patterns), NEW p \in Matching(patterns[i])
    PROVE  WillRemove(w, p)'
<1>1. patterns # <<>>
  OBVIOUS
<1>2. PICK r1 \in Request :
          /\ r1.patterns = patterns
          /\ r1.keys = Matching(Head(patterns))
          /\ Goto(w, r1, "scan")
  BY <1>1, SweepStep
<1>3. /\ req'[w].at = "scan" /\ req'[w].patterns = patterns
      /\ req'[w].keys = Matching(Head(patterns))
  BY <1>2, GotoFrame DEF Stages
<1>4. CASE i = 1
  BY <1>1, <1>3, <1>4 DEF WillRemove
<1>5. CASE i # 1
  <2>1. i \in 2..Len(req'[w].patterns)
    BY <1>3, <1>5
  <2> QED
    BY <1>3, <2>1 DEF WillRemove, Matching
<1> QED
  BY <1>4, <1>5

-----------------------------------------------------------------------------
(* Every step keeps the types.                                             *)

LEMMA StartTypes ==
    ASSUME TypeInv, NEW w \in Workers, NEW c \in Clients,
           (\E p \in Pages : Get(w, c, p)) \/ (\E x \in Writes : Write(w, c, x))
    PROVE  TypeInv'
<1>1. UNCHANGED <<table, cache, faulty>>
  BY DEF Get, Write
<1>2. ASSUME NEW p \in Pages, Get(w, c, p)
      PROVE  req' \in [Workers -> Request] /\ RequestsInShape'
  <2> DEFINE r == [Idle EXCEPT !.client = c, !.page = p]
  <2>1. r \in Request /\ r.page \in Pages
    BY IdleIsRequest DEF Request
  <2>2. OnlyCallsMissing(r)
    BY ConstantsOK DEF Idle, Unread, OnlyCallsMissing
  <2>3. Goto(w, r, "lookup")
    BY <1>2 DEF Get
  <2> HIDE DEF r
  <2> QED
    BY <2>1, <2>2, <2>3, GotoTypes DEF TypeInv, TypeOK, Stages
<1>3. ASSUME NEW x \in Writes, Write(w, c, x)
      PROVE  req' \in [Workers -> Request] /\ RequestsInShape'
  <2> DEFINE r == [Idle EXCEPT !.client = c, !.write = x]
  <2>1. r \in Request /\ r.write \in Writes
    BY IdleIsRequest DEF Request
  <2>2. Goto(w, r, "forward")
    BY <1>3 DEF Write
  <2> HIDE DEF r
  <2> QED
    BY <2>1, <2>2, GotoTypes DEF TypeInv, TypeOK, Stages
<1> QED
  BY <1>1, <1>2, <1>3 DEF TypeInv, TypeOK, OnlyCacheable, ShouldCache

LEMMA LookupTypes ==
    ASSUME TypeInv, NEW w \in Workers, Lookup(w)
    PROVE  TypeInv'
<1> DEFINE r == req[w]
           r1 == [r EXCEPT !.seen = cache[r.page].seen, !.viewer = cache[r.page].viewer]
           r2 == [r EXCEPT !.todo = Shows[r.page]]
<1>1. r \in Request /\ r.page \in Pages /\ OnlyCallsMissing(r)
  BY DEF TypeInv, TypeOK, RequestsInShape, InShape, Lookup
<1>2. UNCHANGED <<table, cache, faulty>>
  BY DEF Lookup
<1>3. ASSUME Hit(r), Goto(w, r1, "answer")
      PROVE  req' \in [Workers -> Request] /\ RequestsInShape'
  <2>1. cache[r.page] \in Entry
    BY <1>1, <1>3 DEF Hit, TypeInv, TypeOK
  <2>2. cache[r.page].seen \in Readings /\ cache[r.page].viewer \in Clients \cup {Nobody}
    BY <2>1 DEF Entry
  <2>3. r1 \in Request
    BY <1>1, <2>2 DEF Request
  <2> HIDE DEF r1
  <2> QED
    BY <1>3, <2>3, GotoTypes DEF TypeInv, TypeOK, Stages
<1>4. ASSUME Goto(w, r2, "fetch")
      PROVE  req' \in [Workers -> Request] /\ RequestsInShape'
  <2>1. Shows[r.page] \in Seq(Tables) /\ Shows[r.page] # <<>>
    BY <1>1, ConstantsOK
  <2>2. r2 \in Request /\ r2.page = r.page /\ r2.seen = r.seen /\ r2.todo = Shows[r.page]
    BY <1>1, <2>1 DEF Request
  <2>3. OnlyCallsMissing(r2)
    BY <1>1, <2>2 DEF OnlyCallsMissing
  <2> HIDE DEF r2
  <2> QED
    BY <1>1, <1>4, <2>1, <2>2, <2>3, GotoTypes DEF TypeInv, TypeOK, Stages
<1> QED
  BY <1>2, <1>3, <1>4 DEF Lookup, TypeInv, TypeOK, OnlyCacheable, ShouldCache

LEMMA ReadTypes ==
    ASSUME TypeInv, NEW w \in Workers, req[w].at = "fetch",
           NEW version \in 0..MaxVersion \cup {Missing}, Read(w, version),
           version = Missing => Head(req[w].todo) \in Called[req[w].page]
    PROVE  TypeInv'
<1> DEFINE r == req[w]
           t == Head(r.todo)
           seen == [r.seen EXCEPT ![t] = version]
           viewer == IF r.page \in Personal THEN r.client ELSE Nobody
           r1 == [r EXCEPT !.seen[t] = version, !.todo = Tail(@),
                           !.viewer = IF r.page \in Personal THEN r.client ELSE Nobody]
<1>1. r \in Request /\ r.page \in Pages /\ OnlyCallsMissing(r) /\ r.todo # <<>>
  BY DEF TypeInv, TypeOK, RequestsInShape, InShape
<1>2. r.todo \in Seq(Tables) /\ r.seen \in Readings /\ r.client \in Clients \cup {Nobody}
  BY <1>1 DEF Request
<1>3. t \in Tables /\ Tail(r.todo) \in Seq(Tables)
  BY <1>1, <1>2
<1>4. seen \in Readings
  BY <1>2, <1>3 DEF Readings
<1>5. viewer \in Clients \cup {Nobody}
  BY <1>2
<1>6. r1 = [r EXCEPT !.seen = seen, !.todo = Tail(r.todo), !.viewer = viewer]
  BY <1>1 DEF Request
<1>7. /\ r1 \in Request /\ r1.page = r.page /\ r1.todo = Tail(r.todo)
      /\ OnlyCallsMissing(r1)
  <2> HIDE DEF r1, viewer
  <2>1. \A s \in Tables : seen[s] = Missing => s \in Called[r.page]
    BY <1>1, <1>2, <1>3 DEF Readings, OnlyCallsMissing
  <2> HIDE DEF seen
  <2> QED
    BY <1>1, <1>3, <1>4, <1>5, <1>6, <2>1 DEF Request, OnlyCallsMissing
<1>8. Goto(w, r1, IF r1.todo = <<>> THEN "store" ELSE "fetch") /\ UNCHANGED <<table, cache, faulty>>
  BY DEF Read
<1>9. req' \in [Workers -> Request] /\ RequestsInShape'
  <2> HIDE DEF r1
  <2>1. CASE r1.todo = <<>>
    BY <1>1, <1>7, <1>8, <2>1, GotoTypes DEF TypeInv, TypeOK, Stages
  <2>2. CASE r1.todo # <<>>
    BY <1>1, <1>7, <1>8, <2>2, GotoTypes DEF TypeInv, TypeOK, Stages
  <2> QED
    BY <2>1, <2>2
<1> QED
  BY <1>8, <1>9 DEF TypeInv, TypeOK, OnlyCacheable, ShouldCache

LEMMA FetchTypes ==
    ASSUME TypeInv, NEW w \in Workers, Query(w) \/ CallFails(w)
    PROVE  TypeInv'
<1> DEFINE r == req[w]
<1>1. r \in Request /\ r.at = "fetch" /\ r.todo # <<>>
  BY DEF TypeInv, TypeOK, RequestsInShape, InShape, Query, CallFails
<1>2. Head(r.todo) \in Tables
  BY <1>1 DEF Request
<1>3. table[Head(r.todo)] \in 0..MaxVersion /\ table[Head(r.todo)] # Missing
  BY <1>2, ConstantsOK DEF TypeInv, TypeOK, Versions
<1> QED
  BY <1>1, <1>3, ReadTypes DEF Query, CallFails

LEMMA StoreTypes ==
    ASSUME TypeInv, NEW w \in Workers, Store(w)
    PROVE  TypeInv'
<1> DEFINE r == req[w]
           entry == [seen |-> r.seen, viewer |-> r.viewer, ttl |-> TTL, late |-> Late(r)]
<1>1. r \in Request /\ r.page \in Pages
  BY DEF TypeInv, TypeOK, RequestsInShape, InShape, Store
<1>2. req' \in [Workers -> Request] /\ RequestsInShape'
  BY <1>1, GotoTypes DEF Store, TypeInv, TypeOK, Stages
<1>3. entry \in Entry
  <2>1. Late(r) \subseteq Tables
    <3>1. Shows[r.page] \in Seq(Tables)
      BY <1>1, ConstantsOK
    <3>2. Range(Shows[r.page]) \subseteq Tables
      BY <3>1 DEF Range
    <3> QED
      BY <3>2 DEF Late
  <2>2. r.seen \in Readings /\ r.viewer \in Clients \cup {Nobody}
    BY <1>1 DEF Request
  <2>3. TTL \in 1..TTL
    BY ConstantsOK
  <2> QED
    BY <2>1, <2>2, <2>3 DEF Entry
<1>4. \/ ShouldCache(r.page) /\ cache' = [cache EXCEPT ![r.page] = entry]
      \/ UNCHANGED cache
  BY DEF Store
<1>5. cache' \in [Pages -> Entry \cup {NoEntry}]
  <2> HIDE DEF entry
  <2> QED
    BY <1>3, <1>4 DEF TypeInv, TypeOK
<1>6. OnlyCacheable'
  <2> HIDE DEF entry
  <2> QED
    BY <1>4 DEF TypeInv, TypeOK, OnlyCacheable, ShouldCache
<1> QED
  BY <1>2, <1>5, <1>6 DEF Store, TypeInv, TypeOK

LEMMA ChangedTypes ==
    ASSUME TypeOK, NEW t \in Tables, Changed(t)
    PROVE  table' \in Versions
  BY ConstantsOK DEF TypeOK, Changed, Versions

LEMMA ForwardTypes ==
    ASSUME TypeInv, NEW w \in Workers, Forward(w)
    PROVE  TypeInv'
<1> DEFINE r == req[w]
           patterns == PatternsFor(WritePath[r.write])
<1>1. r \in Request /\ r.write \in Writes
  BY DEF TypeInv, TypeOK, RequestsInShape, InShape, Forward
<1>2. Changes[r.write] \in Tables
  BY <1>1, ConstantsOK
<1>3. patterns \in Seq(InvalidationPrefixes)
  BY PatternsType
<1>4. table' \in Versions
  BY <1>2, ChangedTypes DEF Forward, TypeInv, TypeOK
<1>5. Sweep(w, r, patterns) \/ Finish(w)
  BY DEF Forward
<1>6. req' \in [Workers -> Request] /\ RequestsInShape'
  <2> HIDE DEF patterns
  <2> QED
    BY <1>1, <1>3, <1>5, SweepTypes, FinishTypes DEF TypeInv, TypeOK
<1> QED
  BY <1>4, <1>6 DEF Forward, TypeInv, TypeOK, OnlyCacheable, ShouldCache

LEMMA InspectTypes ==
    ASSUME TypeInv, NEW w \in Workers, NEW p \in Pages, Inspect(w, p)
    PROVE  TypeInv'
<1> DEFINE r == req[w]
           r1 == [r EXCEPT !.keys = @ \ {p},
                           !.found = IF cache[p] # NoEntry THEN @ \cup {p} ELSE @]
<1>1. r \in Request /\ r.patterns # <<>>
  BY DEF TypeInv, TypeOK, RequestsInShape, InShape, Inspect
<1>2. r1 \in Request /\ r1.patterns = r.patterns
  BY <1>1 DEF Request
<1>3. Goto(w, r1, "scan") /\ UNCHANGED <<table, cache, faulty>>
  BY DEF Inspect
<1>4. req' \in [Workers -> Request] /\ RequestsInShape'
  <2> HIDE DEF r1
  <2> QED
    BY <1>1, <1>2, <1>3, GotoTypes DEF TypeInv, TypeOK, Stages
<1> QED
  BY <1>3, <1>4 DEF TypeInv, TypeOK, OnlyCacheable, ShouldCache

LEMMA DeleteTypes ==
    ASSUME TypeInv, NEW w \in Workers, Delete(w)
    PROVE  TypeInv'
<1> DEFINE r == req[w]
<1>1. r \in Request /\ r.patterns # <<>>
  BY DEF TypeInv, TypeOK, RequestsInShape, InShape, Delete
<1>2. r.patterns \in Seq(InvalidationPrefixes)
  BY <1>1 DEF Request
<1>3. Tail(r.patterns) \in Seq(InvalidationPrefixes)
  BY <1>1, <1>2
<1>4. req' \in [Workers -> Request] /\ RequestsInShape'
  BY <1>1, <1>3, SweepTypes DEF Delete, TypeInv, TypeOK
<1> QED
  BY <1>4 DEF Delete, TypeInv, TypeOK, OnlyCacheable, ShouldCache

LEMMA TickTypes ==
    ASSUME TypeInv, Tick
    PROVE  TypeInv'
<1>1. ASSUME NEW p \in Pages, cache[p] # NoEntry, cache[p].ttl # 1
      PROVE  [cache[p] EXCEPT !.ttl = @ - 1] \in Entry
  <2> DEFINE e == cache[p]
             ttl == e.ttl - 1
  <2>1. e \in Entry
    BY <1>1 DEF TypeInv, TypeOK
  <2>2. ttl \in 1..TTL
    BY <1>1, <2>1, ConstantsOK DEF Entry
  <2> HIDE DEF e, ttl
  <2>3. [e EXCEPT !.ttl = ttl] \in Entry
    BY <2>1, <2>2 DEF Entry
  <2> QED
    BY <2>3 DEF e, ttl
<1>2. cache' \in [Pages -> Entry \cup {NoEntry}]
  BY <1>1 DEF Tick, TypeInv, TypeOK
<1>3. OnlyCacheable'
  BY DEF Tick, TypeInv, TypeOK, OnlyCacheable, ShouldCache
<1> QED
  BY <1>2, <1>3 DEF Tick, TypeInv, TypeOK, RequestsInShape, InShape

LEMMA TypeStep == TypeInv /\ [Next]_vars => TypeInv'
<1> SUFFICES ASSUME TypeInv, [Next]_vars PROVE TypeInv'
  OBVIOUS
<1>1. ASSUME NEW w \in Workers, Proceed(w) PROVE TypeInv'
  <2>1. CASE FetchFails(w) \/ Answer(w)
    <3>1. Finish(w) /\ UNCHANGED <<table, cache, faulty>>
      BY <2>1 DEF FetchFails, Answer
    <3>2. req' \in [Workers -> Request] /\ RequestsInShape'
      BY <3>1, FinishTypes DEF TypeInv, TypeOK
    <3> QED
      BY <3>1, <3>2 DEF TypeInv, TypeOK, OnlyCacheable, ShouldCache
  <2> QED
    BY <1>1, <2>1, LookupTypes, FetchTypes, StoreTypes, ForwardTypes, InspectTypes,
       DeleteTypes DEF Proceed
<1>2. CASE \E t \in Synced : Sync(t)
  <2>1. PICK t \in Synced : Sync(t)
    BY <1>2
  <2>2. table' \in Versions
    BY <2>1, ConstantsOK, ChangedTypes DEF Sync, TypeInv
  <2> QED
    BY <2>1, <2>2 DEF Sync, TypeInv, TypeOK, RequestsInShape, InShape, OnlyCacheable, ShouldCache
<1>3. CASE Restart
  <2>1. req' \in [Workers -> Request] /\ RequestsInShape'
    BY <1>3, IdleIsRequest DEF Restart, RequestsInShape
  <2> QED
    BY <1>3, <2>1 DEF Restart, TypeInv, TypeOK, OnlyCacheable, ShouldCache
<1>4. CASE UNCHANGED vars
  BY <1>4 DEF vars, TypeInv, TypeOK, RequestsInShape, InShape, OnlyCacheable, ShouldCache
<1> QED
  BY <1>1, <1>2, <1>3, <1>4, StartTypes, TickTypes DEF Next

LEMMA TypeInit == Init => TypeInv
<1> SUFFICES ASSUME Init PROVE TypeInv
  OBVIOUS
<1>1. table \in Versions
  BY ConstantsOK DEF Init, Unread, Versions
<1> QED
  BY <1>1, IdleIsRequest DEF Init, TypeInv, TypeOK, RequestsInShape, OnlyCacheable

\* Tables, stored responses and requests stay well typed, under every fault.
THEOREM CacheTypes == Spec => []TypeOK
<1>1. TypeInv => TypeOK
  BY DEF TypeInv
<1> QED
  BY <1>1, TypeInit, TypeStep, PTL DEF Spec

-----------------------------------------------------------------------------
(* Invalidation misses nothing.                                            *)

\* Every write has, among its patterns, one for each stored page that shows what
\* it changes.
Covered ==
    \A x \in Writes, p \in Pages :
        Changes[x] \in Range(Shows[p]) \ Synced /\ ShouldCache(p)
            => \E i \in 1..Len(PatternsFor(WritePath[x])) :
                   p \in Matching(PatternsFor(WritePath[x])[i])

\* A response that is out of date in t has an excuse.
Excused(p, t) ==
    \/ t \in cache[p].late
    \/ t \in Called[p] /\ cache[p].seen[t] = Missing
    \/ \E w \in Workers : WillRemove(w, p)
Stale(p, t) == cache[p] # NoEntry /\ cache[p].seen[t] # table[t]

LEMMA OverlapAsExcuse ==
    StaleForCause <=>
        (~faulty => \A p \in Pages : \A t \in Range(Shows[p]) \ Synced :
                        Stale(p, t) => Excused(p, t))
  BY DEF StaleForCause, Stale, Excused

\* A step that leaves a stored response, the tables it shows and the sweeps under
\* way alone leaves the excuse alone.
LEMMA ExcuseStays ==
    ASSUME StaleForCause, ~faulty,
           NEW p \in Pages, NEW t \in Range(Shows[p]) \ Synced,
           cache[p] # NoEntry,
           cache'[p].seen = cache[p].seen, cache'[p].late = cache[p].late,
           table'[t] = table[t],
           \A v \in Workers : req[v].at = "scan" => req'[v] = req[v],
           Stale(p, t)'
    PROVE  Excused(p, t)'
<1>1. Stale(p, t)
  BY DEF Stale
<1>2. Excused(p, t)
  BY <1>1, OverlapAsExcuse
<1>3. ASSUME NEW v \in Workers, WillRemove(v, p)
      PROVE  WillRemove(v, p)'
  BY <1>3 DEF WillRemove, Matching
<1> QED
  BY <1>2, <1>3 DEF Excused

\* A handler that is not sweeping does not touch the sweeps of others.
LEMMA OthersSweepOn ==
    ASSUME NEW w \in Workers, req[w].at # "scan", NEW r, req' = [req EXCEPT ![w] = r],
           req \in [Workers -> Request]
    PROVE  \A v \in Workers : req[v].at = "scan" => req'[v] = req[v]
  OBVIOUS

LEMMA StoreOverlap ==
    ASSUME TypeInv, StaleForCause, ~faulty, NEW w \in Workers, Store(w),
           NEW p \in Pages, NEW t \in Range(Shows[p]) \ Synced, Stale(p, t)'
    PROVE  Excused(p, t)'
<1> DEFINE r == req[w]
           entry == [seen |-> r.seen, viewer |-> r.viewer, ttl |-> TTL, late |-> Late(r)]
<1>1. r.page \in Pages /\ OnlyCallsMissing(r)
  BY DEF TypeInv, TypeOK, RequestsInShape, InShape, Store
<1>2. table' = table
  BY DEF Store
<1>3. CASE p = r.page /\ cache' = [cache EXCEPT ![r.page] = entry]
  <2>1. cache'[p] = entry
    BY <1>3 DEF TypeInv, TypeOK
  <2>2. entry.seen = r.seen /\ entry.late = Late(r)
    OBVIOUS
  <2>3. r.seen[t] # table[t]
    BY <1>2, <2>1, <2>2 DEF Stale
  <2>4. t \in Tables
    <3>1. Shows[p] \in Seq(Tables)
      BY ConstantsOK
    <3> QED
      BY <3>1 DEF Range
  <2>5. r.seen[t] = Missing => t \in Called[p]
    BY <1>1, <1>3, <2>4 DEF OnlyCallsMissing
  <2> QED
    BY <1>3, <2>1, <2>2, <2>3, <2>5 DEF Late, Excused
<1>4. CASE cache'[p] = cache[p]
  <2>1. \A v \in Workers : req[v].at = "scan" => req'[v] = req[v]
    BY OthersSweepOn DEF Store, Goto, TypeInv, TypeOK
  <2> QED
    BY <1>2, <1>4, <2>1, ExcuseStays DEF Stale
<1>5. \/ cache' = [cache EXCEPT ![r.page] = entry]
      \/ cache' = cache
  BY DEF Store
<1> QED
  <2> HIDE DEF entry
  <2> QED
    BY <1>1, <1>3, <1>4, <1>5 DEF TypeInv, TypeOK

LEMMA ForwardOverlap ==
    ASSUME Covered, TypeInv, StaleForCause, ~faulty', ~faulty,
           NEW w \in Workers, Forward(w),
           NEW p \in Pages, NEW t \in Range(Shows[p]) \ Synced, Stale(p, t)'
    PROVE  Excused(p, t)'
<1> DEFINE r == req[w]
           x == r.write
           patterns == PatternsFor(WritePath[x])
<1>1. r \in Request /\ x \in Writes /\ r.at = "forward"
  BY DEF TypeInv, TypeOK, RequestsInShape, InShape, Forward
<1>2. cache' = cache /\ cache[p] # NoEntry
  BY DEF Forward, Stale
<1>3. \A v \in Workers : req[v].at = "scan" => req'[v] = req[v]
  <2>1. Sweep(w, r, patterns) \/ Finish(w)
    BY DEF Forward
  <2> QED
    BY <1>1, <2>1, OthersSweepOn DEF Sweep, Goto, Finish, TypeInv, TypeOK
<1>4. CASE table'[t] = table[t]
  BY <1>2, <1>3, <1>4, ExcuseStays
<1>5. CASE table'[t] # table[t]
  <2>1. Changed(Changes[x]) /\ Sweep(w, r, patterns)
    BY <1>5 DEF Forward
  <2>2. t = Changes[x]
    BY <1>1, <1>5, <2>1, ConstantsOK DEF Changed, TypeInv, TypeOK, Versions
  <2>3. ShouldCache(p)
    BY <1>2 DEF TypeInv, OnlyCacheable
  <2>4. PICK i \in 1..Len(patterns) : p \in Matching(patterns[i])
    BY <1>1, <2>2, <2>3 DEF Covered
  <2>5. patterns \in Seq(InvalidationPrefixes)
    BY PatternsType
  <2>6. WillRemove(w, p)'
    <3> HIDE DEF patterns, x
    <3> QED
      BY <1>1, <2>1, <2>4, <2>5, SweepWillRemove DEF TypeInv, TypeOK
  <2> QED
    BY <2>6 DEF Excused
<1> QED
  BY <1>4, <1>5

LEMMA InspectOverlap ==
    ASSUME TypeInv, StaleForCause, ~faulty, NEW w \in Workers, NEW q \in Pages,
           Inspect(w, q),
           NEW p \in Pages, NEW t \in Range(Shows[p]) \ Synced, Stale(p, t)'
    PROVE  Excused(p, t)'
<1> DEFINE r == req[w]
           r1 == [r EXCEPT !.keys = @ \ {q},
                           !.found = IF cache[q] # NoEntry THEN @ \cup {q} ELSE @]
<1>1. r \in Request
  BY DEF TypeInv, TypeOK
<1>2. /\ r1 \in Request
      /\ r1.keys = r.keys \ {q}
      /\ r1.found = IF cache[q] # NoEntry THEN r.found \cup {q} ELSE r.found
      /\ r1.patterns = r.patterns
  BY <1>1 DEF Request
<1>3. Goto(w, r1, "scan") /\ UNCHANGED <<table, cache>> /\ r.at = "scan"
  BY DEF Inspect
<1>4. Stale(p, t) /\ Excused(p, t)
  BY <1>3, OverlapAsExcuse DEF Stale
<1>5. ASSUME NEW v \in Workers, WillRemove(v, p)
      PROVE  WillRemove(v, p)'
  <2> HIDE DEF r1
  <2>1. CASE v = w
    <3>1. /\ req'[w].at = "scan" /\ req'[w].patterns = r.patterns
          /\ req'[w].keys = r1.keys /\ req'[w].found = r1.found
      BY <1>2, <1>3, GotoFrame DEF TypeInv, TypeOK, Stages
    <3>2. ASSUME p \in r.keys \cup r.found
          PROVE  p \in req'[w].keys \cup req'[w].found
      BY <1>2, <1>4, <3>1, <3>2 DEF Stale
    <3> QED
      BY <1>5, <2>1, <3>1, <3>2 DEF WillRemove, Matching
  <2>2. CASE v # w
    <3>1. req'[v] = req[v]
      BY <1>2, <1>3, <2>2, GotoFrame DEF TypeInv, TypeOK, Stages
    <3> QED
      BY <1>5, <3>1 DEF WillRemove, Matching
  <2> QED
    BY <2>1, <2>2
<1> QED
  BY <1>3, <1>4, <1>5 DEF Excused

LEMMA DeleteOverlap ==
    ASSUME TypeInv, StaleForCause, ~faulty', ~faulty, NEW w \in Workers, Delete(w),
           NEW p \in Pages, NEW t \in Range(Shows[p]) \ Synced, Stale(p, t)'
    PROVE  Excused(p, t)'
<1> DEFINE r == req[w]
           patterns == Tail(r.patterns)
<1>1. r \in Request /\ r.patterns # <<>> /\ r.at = "scan" /\ r.keys = {}
  BY DEF TypeInv, TypeOK, RequestsInShape, InShape, Delete
<1>2. r.patterns \in Seq(InvalidationPrefixes)
  BY <1>1 DEF Request
<1>3. patterns \in Seq(InvalidationPrefixes)
  BY <1>1, <1>2
<1>4. /\ cache' = [q \in Pages |-> IF q \in r.found THEN NoEntry ELSE cache[q]]
      /\ table' = table /\ Sweep(w, r, patterns)
  BY DEF Delete
<1>5. p \notin r.found /\ cache'[p] = cache[p]
  BY <1>4 DEF Stale
<1>6. Stale(p, t) /\ Excused(p, t)
  BY <1>4, <1>5, OverlapAsExcuse DEF Stale
<1>7. ASSUME NEW v \in Workers, WillRemove(v, p)
      PROVE  WillRemove(v, p)'
  <2>1. CASE v = w
    <3>1. PICK i \in 2..Len(r.patterns) : p \in Matching(r.patterns[i])
      BY <1>1, <1>5, <1>7, <2>1 DEF WillRemove
    <3>2. i - 1 \in 1..Len(patterns) /\ patterns[i - 1] = r.patterns[i]
      BY <1>1, <1>2, <3>1
    <3>3. p \in Matching(patterns[i - 1])
      BY <3>1, <3>2
    <3> HIDE DEF patterns
    <3> QED
      BY <1>1, <1>3, <1>4, <2>1, <3>2, <3>3, SweepWillRemove DEF TypeInv, TypeOK
  <2>2. CASE v # w
    <3>1. req'[v] = req[v]
      BY <1>4, <2>2 DEF Sweep, Goto, TypeInv, TypeOK
    <3> QED
      BY <1>7, <3>1 DEF WillRemove, Matching
  <2> QED
    BY <2>1, <2>2
<1> QED
  BY <1>5, <1>6, <1>7 DEF Excused

\* Once a change has gone without its invalidation, that stays on record.
LEMMA FaultsStay == [Next]_vars /\ TypeInv => (faulty => faulty')
<1> SUFFICES ASSUME [Next]_vars, TypeInv, faulty PROVE faulty'
  OBVIOUS
<1>1. ASSUME NEW w \in Workers, Proceed(w) PROVE faulty'
  BY <1>1 DEF Proceed, Lookup, Query, CallFails, Read, FetchFails, Store, Forward, Inspect, Delete, Answer
<1> QED
  BY <1>1 DEF Next, Get, Write, Tick, Sync, Restart, vars

LEMMA TickOverlap ==
    ASSUME StaleForCause, TypeInv, ~faulty, Tick,
           NEW p \in Pages, NEW t \in Range(Shows[p]) \ Synced, Stale(p, t)'
    PROVE  Excused(p, t)'
<1>1. cache[p] # NoEntry /\ cache'[p] = [cache[p] EXCEPT !.ttl = @ - 1]
  BY DEF Tick, Stale
<1>2. cache[p] \in Entry
  BY <1>1 DEF TypeInv, TypeOK
<1>3. cache'[p].seen = cache[p].seen /\ cache'[p].late = cache[p].late
  BY <1>1, <1>2 DEF Entry
<1>4. table' = table /\ req' = req
  BY DEF Tick
<1> QED
  BY <1>1, <1>3, <1>4, ExcuseStays

LEMMA OverlapStep ==
    ASSUME Covered, TypeInv, StaleForCause, [Next]_vars
    PROVE  StaleForCause'
<1> SUFFICES ASSUME ~faulty', NEW p \in Pages, NEW t \in Range(Shows[p]) \ Synced,
                    Stale(p, t)'
             PROVE  Excused(p, t)'
  BY DEF StaleForCause, Stale, Excused
<1>1. ~faulty
  BY FaultsStay
<1>2. ASSUME NEW w \in Workers, req[w].at # "scan", NEW r, req' = [req EXCEPT ![w] = r],
             UNCHANGED <<table, cache>>
      PROVE  Excused(p, t)'
  <2>1. \A v \in Workers : req[v].at = "scan" => req'[v] = req[v]
    BY <1>2, OthersSweepOn DEF TypeInv, TypeOK
  <2> QED
    BY <1>1, <1>2, <2>1, ExcuseStays DEF Stale
<1>3. ASSUME NEW w \in Workers, NEW c \in Clients,
             (\E q \in Pages : Get(w, c, q)) \/ (\E x \in Writes : Write(w, c, x))
      PROVE  Excused(p, t)'
  BY <1>2, <1>3 DEF Get, Write, Goto
<1>4. ASSUME NEW w \in Workers, Proceed(w)
      PROVE  Excused(p, t)'
  <2>1. CASE Lookup(w) \/ Query(w) \/ CallFails(w) \/ FetchFails(w) \/ Answer(w)
    BY <1>2, <2>1 DEF Lookup, Query, CallFails, Read, FetchFails, Answer, Goto, Finish
  <2> QED
    BY <1>1, <1>4, <2>1, StoreOverlap, ForwardOverlap, InspectOverlap, DeleteOverlap
       DEF Proceed
<1>5. CASE Tick
  BY <1>1, <1>5, TickOverlap
<1>6. CASE \E s \in Synced : Sync(s)
  <2>1. PICK s \in Synced : Sync(s)
    BY <1>6
  <2>2. table'[t] = table[t] /\ UNCHANGED <<cache, req>>
    BY <2>1 DEF Sync, Changed, TypeInv, TypeOK, Versions
  <2> QED
    BY <1>1, <2>2, ExcuseStays DEF Stale
<1>7. CASE Restart
  <2>1. \A v \in Workers : req[v].at # "scan"
    BY <1>7 DEF Restart
  <2> QED
    BY <1>1, <1>7, <2>1, ExcuseStays DEF Restart, Stale
<1>8. CASE UNCHANGED vars
  BY <1>1, <1>8, ExcuseStays DEF vars, Stale
<1> QED
  BY <1>3, <1>4, <1>5, <1>6, <1>7, <1>8 DEF Next

\* When the invalidation map covers every write, no stored response that was right
\* when it was stored outlives the invalidation of a change: for any number of
\* handlers, pages, tables and patterns, in every interleaving.
THEOREM InvalidationMissesNothing ==
    ASSUME Covered
    PROVE  Spec => []StaleForCause
<1>1. Init => StaleForCause
  BY DEF Init, StaleForCause
<1>2. TypeInv /\ StaleForCause /\ [Next]_vars => StaleForCause'
  BY OverlapStep
<1> QED
  BY <1>1, <1>2, TypeInit, TypeStep, PTL DEF Spec

====
