---- MODULE DoorProofs ----
(***************************************************************************)
(* Proofs about Door: whatever requests, logouts and outages overlap, the  *)
(* types hold, no window holds more admitted requests than the limit, no   *)
(* refusal is without cause, and a token that was logged out opens nothing *)
(* afterwards, up to the fractions of a second that the code cuts off.     *)
(***************************************************************************)
EXTENDS Door, FiniteSetTheorems, TLAPS

-----------------------------------------------------------------------------
(* Arithmetic and records.                                                 *)

\* Cutting off the fraction takes less than a second.
LEMMA TruncIs ==
    \A t \in Nat : Trunc(t) \in Nat /\ Trunc(t) <= t /\ t < Trunc(t) + Second
  <1> TAKE t \in Nat
  <1>1. t % Second \in 0..(Second - 1)
    BY ConstantsOK, SMT
  <1>2. t % Second <= t
    BY ConstantsOK, SMT
  <1> QED
    BY <1>1, <1>2, ConstantsOK DEF Trunc

\* What a handler is left with, and what it passes on, are requests.
LEMMA IdleIsRequest ==
    ASSUME NEW s \in {0, 200, 429}
    PROVE  Idle(s) \in Request
  BY DEF Idle, Request, AnyToken

LEMMA HeldIsRequest ==
    ASSUME NEW a \in {"check", "forward", "store"}, NEW tk \in AnyToken, NEW sh \in AnyToken,
           NEW n \in Nat, NEW m \in Nat, NEW l \in BOOLEAN
    PROVE  Held(a, tk, sh, n, m, l) \in Request
  BY DEF Held, Request

\* Every key has a limit.
LEMMA LimitIs == \A k \in Keys : LimitOf(k) \in Nat
  BY ConstantsOK DEF Keys, LimitOf

-----------------------------------------------------------------------------
(* What the handlers are about.                                            *)

\* A request that is under way has no status yet; one that is to be counted has a key
\* and a stamp that is not in the future; one that is to be stored has a token.
Under(r) ==
    /\ r.at # "idle" => r.status = 0
    /\ r.at = "count" => r.key \in Keys /\ r.stamp <= now
    /\ r.at = "store" => r.asked \in Tokens
    /\ r.at = "forward" => r.stamp <= now
Busy == \A h \in Handlers : Under(req[h])

TInv == TypeOK /\ Busy

LEMMA InitTInv == Init => TInv
  <1> SUFFICES ASSUME Init PROVE TInv
    OBVIOUS
  <1> USE ConstantsOK DEF Init
  <1>1. req \in [Handlers -> Request]
    BY IdleIsRequest
  <1>2. Busy
    BY DEF Busy, Under, Idle
  <1>3. up \in BOOLEAN /\ joined \in BOOLEAN
    OBVIOUS
  <1>4. now \in 0..MaxTime /\ requests \in 0..MaxRequests /\ outages \in 0..MaxOutages
    OBVIOUS
  <1>5. issued \in [Tokens -> Nat]
    OBVIOUS
  <1>6. TypeOK
    BY <1>1, <1>3, <1>4, <1>5 DEF TypeOK
  <1> QED
    BY <1>2, <1>6 DEF TInv

\* Whatever a step changes of one request, the others are as before.
LEMMA OneRequest ==
    ASSUME TInv, NEW h \in Handlers, NEW r \in Request, now' = now,
           req' = [req EXCEPT ![h] = r], Under(r)
    PROVE  req' \in [Handlers -> Request] /\ Busy'
  <1>1. req' \in [Handlers -> Request]
    BY DEF TInv, TypeOK
  <1>2. ASSUME NEW g \in Handlers PROVE Under(req[g])'
    <2>1. CASE g = h
      BY <2>1 DEF TInv, TypeOK, Under
    <2>2. CASE g # h
      <3>1. req'[g] = req[g]
        BY <2>2 DEF TInv, TypeOK
      <3> QED
        BY <3>1 DEF TInv, Busy, Under
    <2> QED
      BY <2>1, <2>2
  <1> QED
    BY <1>1, <1>2 DEF Busy

LEMMA ArriveTInv ==
    ASSUME TInv, NEW h \in Handlers, NEW a \in Addresses, NEW b \in Buckets,
           NEW c \in AnyToken, NEW d \in AnyToken, Arrive(h, a, b, c, d)
    PROVE  TInv'
  <1> USE ConstantsOK
  <1> DEFINE key == [client |-> ClientId(d, a), bucket |-> b]
             r == [at |-> "count", status |-> 0, key |-> key,
                   asked |-> Extracted(c, d), shown |-> Injected(c, d),
                   id |-> requests + 1, stamp |-> now, ttl |-> 0, late |-> Injected(c, d) \in out]
  <1>1. requests' = requests + 1 /\ requests' \in 0..MaxRequests /\ now \in Nat
    BY DEF TInv, TypeOK, Arrive
  <1>2. key \in Keys /\ Extracted(c, d) \in AnyToken /\ Injected(c, d) \in AnyToken
    BY DEF Keys, ClientId, Extracted, Injected, AnyToken
  <1>3. r \in Request
    <2> HIDE DEF key
    <2> QED
      BY <1>1, <1>2 DEF TInv, TypeOK, Request
  <1>4. Under(r)
    <2> HIDE DEF key
    <2> QED
      BY <1>1, <1>2 DEF Under
  <1>5. now' = now /\ req' = [req EXCEPT ![h] = r]
    BY <1>1 DEF Arrive
  <1>6. req' \in [Handlers -> Request] /\ Busy'
    <2> HIDE DEF r
    <2> QED
      BY <1>3, <1>4, <1>5, OneRequest
  <1>7. TypeOK'
    BY <1>1, <1>6 DEF TInv, TypeOK, Arrive, redis, history
  <1> QED
    BY <1>6, <1>7 DEF TInv

LEMMA PassTInv ==
    ASSUME TInv, NEW h \in Handlers, Pass(h), now' = now
    PROVE  req' \in [Handlers -> Request] /\ Busy'
  <1> DEFINE r == Held("check", req[h].asked, req[h].shown, 0, 0, req[h].late)
  <1>1. req[h] \in Request
    BY DEF TInv, TypeOK
  <1>2. req[h].asked \in AnyToken /\ req[h].shown \in AnyToken /\ req[h].late \in BOOLEAN
    BY <1>1 DEF Request
  <1>a. r \in Request
    BY <1>2, HeldIsRequest
  <1>3. Under(r)
    BY DEF Under, Held
  <1>4. req' = [req EXCEPT ![h] = r]
    BY <1>1 DEF Pass, TInv, TypeOK
  <1> QED
    <2> HIDE DEF r
    <2> QED
      BY <1>a, <1>3, <1>4, OneRequest

LEMMA AnswerTInv ==
    ASSUME TInv, NEW h \in Handlers, NEW s \in {0, 200, 429}, Answer(h, s), now' = now
    PROVE  req' \in [Handlers -> Request] /\ Busy'
  <1>1. Idle(s) \in Request
    BY IdleIsRequest
  <1>2. Under(Idle(s))
    BY DEF Under, Idle
  <1> QED
    BY <1>1, <1>2, OneRequest DEF Answer

LEMMA ForwardTInv ==
    ASSUME TInv, NEW h \in Handlers, NEW l \in BOOLEAN, Forward(h, l), now' = now
    PROVE  req' \in [Handlers -> Request] /\ Busy'
  <1> DEFINE r == Held("forward", req[h].asked, req[h].shown, now, 0, l)
  <1>1. req[h] \in Request /\ now \in Nat
    BY ConstantsOK DEF TInv, TypeOK
  <1>2. r \in Request
    <2>1. req[h].asked \in AnyToken /\ req[h].shown \in AnyToken
      BY <1>1 DEF Request
    <2> QED
      BY <1>1, <2>1, HeldIsRequest
  <1>3. Under(r)
    BY <1>1 DEF Under, Held
  <1>4. req' = [req EXCEPT ![h] = r]
    BY <1>1 DEF Forward, TInv, TypeOK
  <1> QED
    <2> HIDE DEF r
    <2> QED
      BY <1>2, <1>3, <1>4, OneRequest

\* The hit of a request that is counted, and what the window becomes.
LEMMA Hits ==
    ASSUME TInv, NEW h \in Handlers, Count(h)
    PROVE  /\ req[h].key \in Keys /\ req[h].stamp \in Nat /\ req[h].stamp <= now
           /\ HitOf(req[h]) \in Hit
           /\ Stored(req[h].key) \subseteq window[req[h].key]
           /\ InWindow(req[h]) \subseteq Hit
  <1>1. req[h] \in Request /\ req[h].key \in Keys /\ req[h].stamp <= now
    BY DEF TInv, TypeOK, Busy, Under, Count
  <1>2. req[h].stamp \in Nat /\ req[h].id \in Nat /\ req[h].shown \in AnyToken
    BY <1>1 DEF Request
  <1>3. HitOf(req[h]) \in Hit
    BY <1>1, <1>2 DEF HitOf, Hit
  <1>4. Stored(req[h].key) \subseteq window[req[h].key]
    BY DEF Stored
  <1>5. window[req[h].key] \subseteq Hit
    BY <1>1 DEF TInv, TypeOK
  <1>6. InWindow(req[h]) \subseteq Hit
    BY <1>3, <1>4, <1>5 DEF InWindow
  <1> QED
    BY <1>1, <1>2, <1>3, <1>4, <1>6

LEMMA CountTInv ==
    ASSUME TInv, NEW h \in Handlers, Count(h)
    PROVE  TInv'
  <1> USE ConstantsOK
  <1>1. now' = now /\ now \in Nat
    BY DEF Count, TInv, TypeOK
  <1>2. req' \in [Handlers -> Request] /\ Busy'
    <2>1. Pass(h) \/ Answer(h, 429)
      BY DEF Count
    <2> QED
      BY <1>1, <2>1, PassTInv, AnswerTInv
  <1>3. window' \in [Keys -> SUBSET Hit]
    <2>1. window' = [window EXCEPT ![req[h].key] = InWindow(req[h])]
      BY DEF Count
    <2> QED
      BY <2>1, Hits DEF TInv, TypeOK
  <1>4. Expiry \in Nat
    BY <1>1 DEF Expiry
  <1>5. expiry' \in [Keys -> Nat]
    BY <1>4 DEF Count, TInv, TypeOK
  <1>6. counted' \subseteq Hit /\ admitted' \subseteq counted'
    BY Hits DEF Count, TInv, TypeOK
  <1>7. latest' \in [Keys -> Nat]
    BY Hits DEF Count, TInv, TypeOK
  <1>8. outages' \in 0..MaxOutages
    BY DEF Count, TInv, TypeOK
  <1>9. TypeOK'
    BY <1>1, <1>2, <1>3, <1>5, <1>6, <1>7, <1>8 DEF Count, TInv, TypeOK
  <1> QED
    BY <1>2, <1>9 DEF TInv

LEMMA CountBlindTInv ==
    ASSUME TInv, NEW h \in Handlers, CountBlind(h)
    PROVE  TInv'
  <1>1. req' \in [Handlers -> Request] /\ Busy'
    BY PassTInv DEF CountBlind
  <1>2. TypeOK'
    BY <1>1 DEF CountBlind, TInv, TypeOK, redis, history
  <1> QED
    BY <1>1, <1>2 DEF TInv

\* A lifetime that is stored is a positive number that misses less than a second of
\* what the token has left.
LEMMA Lifetime ==
    ASSUME TInv, NEW tk \in Tokens, now + Second <= issued[tk]
    PROVE  /\ Trunc(issued[tk] - now) \in Nat \ {0}
           /\ issued[tk] < now + Trunc(issued[tk] - now) + Second
  <1> DEFINE left == issued[tk] - now
  <1>1. now \in Nat /\ issued[tk] \in Nat /\ Second \in Nat \ {0}
    BY ConstantsOK DEF TInv, TypeOK
  <1>2. left \in Nat /\ left >= Second
    BY <1>1
  <1>3. Trunc(left) \in Nat /\ left < Trunc(left) + Second
    <2> HIDE DEF left
    <2> QED
      BY <1>2, TruncIs
  <1> QED
    BY <1>1, <1>2, <1>3

LEMMA LogoutStartTInv ==
    ASSUME TInv, NEW h \in Handlers, NEW c \in AnyToken, NEW d \in AnyToken, LogoutStart(h, c, d)
    PROVE  TInv'
  <1> DEFINE tk == Extracted(c, d)
  <1>0. tk \in Tokens
    BY DEF LogoutStart, Extracted, AnyToken
  <1>1. now' = now
    BY DEF LogoutStart
  <1>2. req' \in [Handlers -> Request] /\ Busy'
    <2>1. CASE Answer(h, 200) \/ Answer(h, 0)
      BY <1>1, <2>1, AnswerTInv
    <2>2. CASE ~(Answer(h, 200) \/ Answer(h, 0))
      <3> DEFINE r == Held("store", tk, NoToken, 0, Trunc(issued[tk] - now), FALSE)
      <3>1. now + Second <= issued[tk] /\ req' = [req EXCEPT ![h] = r]
        BY <2>2 DEF LogoutStart
      <3>2. Trunc(issued[tk] - now) \in Nat
        BY <1>0, <3>1, Lifetime
      <3>3. r \in Request
        BY <1>0, <3>2, HeldIsRequest DEF AnyToken
      <3>4. Under(r)
        BY <1>0 DEF Under, Held
      <3> HIDE DEF r
      <3> QED
        BY <1>1, <3>1, <3>3, <3>4, OneRequest
    <2> QED
      BY <2>1, <2>2
  <1>3. out' \subseteq Tokens
    BY <1>0 DEF LogoutStart, TInv, TypeOK
  <1>4. TypeOK'
    BY <1>1, <1>2, <1>3 DEF LogoutStart, TInv, TypeOK, redis
  <1> QED
    BY <1>2, <1>4 DEF TInv

LEMMA LogoutStoreTInv ==
    ASSUME TInv, NEW h \in Handlers, LogoutStore(h)
    PROVE  TInv'
  <1>1. now' = now /\ now \in Nat /\ Answer(h, 0)
    BY ConstantsOK DEF LogoutStore, TInv, TypeOK
  <1>2. req' \in [Handlers -> Request] /\ Busy'
    BY <1>1, AnswerTInv
  <1>3. req[h].asked \in Tokens /\ req[h].ttl \in Nat
    BY DEF LogoutStore, TInv, TypeOK, Busy, Under, Request
  <1>4. until' \in [Tokens -> Nat] /\ out' \subseteq Tokens
    BY <1>1, <1>3 DEF LogoutStore, TInv, TypeOK
  <1>5. joined' \in BOOLEAN
    BY DEF LogoutStore, TInv, TypeOK
  <1>6. TypeOK'
    BY <1>1, <1>2, <1>4, <1>5 DEF LogoutStore, TInv, TypeOK
  <1> QED
    BY <1>2, <1>6 DEF TInv

LEMMA CheckTInv ==
    ASSUME TInv, NEW h \in Handlers, Check(h)
    PROVE  TInv'
  <1>1. now' = now /\ joined' \in BOOLEAN
    BY DEF Check, TInv, TypeOK
  <1>2. req[h].late \in BOOLEAN
    BY DEF TInv, TypeOK, Request
  <1>3. req' \in [Handlers -> Request] /\ Busy'
    <2>1. Answer(h, 0) \/ \E l \in BOOLEAN : Forward(h, l)
      BY <1>2 DEF Check
    <2> QED
      BY <1>1, <2>1, AnswerTInv, ForwardTInv
  <1>4. TypeOK'
    BY <1>1, <1>3 DEF Check, TInv, TypeOK, redis, history
  <1> QED
    BY <1>3, <1>4 DEF TInv

LEMMA ServeTInv ==
    ASSUME TInv, NEW h \in Handlers, Serve(h)
    PROVE  TInv'
  <1>1. Answer(h, 200) \/ Answer(h, 0)
    BY DEF Serve
  <1>2. req' \in [Handlers -> Request] /\ Busy'
    BY <1>1, AnswerTInv DEF Serve
  <1>3. TypeOK'
    BY <1>2 DEF Serve, TInv, TypeOK, redis, history
  <1> QED
    BY <1>2, <1>3 DEF TInv

LEMMA ServeAnyoneTInv ==
    ASSUME TInv, NEW h \in Handlers, ServeAnyone(h)
    PROVE  TInv'
  <1>1. req' \in [Handlers -> Request] /\ Busy'
    BY AnswerTInv DEF ServeAnyone
  <1>2. Trunc(now) + Life \in Nat
    BY TruncIs, ConstantsOK DEF TInv, TypeOK
  <1>3. issued' \in [Tokens -> Nat]
    BY <1>2 DEF ServeAnyone, TInv, TypeOK
  <1>4. TypeOK'
    BY <1>1, <1>3 DEF ServeAnyone, TInv, TypeOK, redis, history
  <1> QED
    BY <1>1, <1>4 DEF TInv

LEMMA TickTInv == TInv /\ Tick => TInv'
  <1> SUFFICES ASSUME TInv, Tick PROVE TInv'
    OBVIOUS
  <1>1. now \in Nat /\ now' = now + 1 /\ now' \in 0..MaxTime /\ req' = req
    BY ConstantsOK DEF Tick, TInv, TypeOK
  <1>2. Busy'
    <2> SUFFICES ASSUME NEW g \in Handlers PROVE Under(req[g])'
      BY DEF Busy
    <2>1. Under(req[g]) /\ req[g].stamp \in Nat
      BY DEF TInv, TypeOK, Busy, Request
    <2> QED
      BY <1>1, <2>1 DEF Under
  <1>3. TypeOK'
    BY <1>1 DEF Tick, TInv, TypeOK, redis, history
  <1> QED
    BY <1>2, <1>3 DEF TInv

LEMMA OutageTInv == TInv /\ Outage => TInv'
  <1> SUFFICES ASSUME TInv, Outage PROVE TInv'
    OBVIOUS
  <1>1. Busy'
    BY DEF Outage, TInv, Busy, Under
  <1>2. up' \in BOOLEAN
    BY DEF Outage
  <1>3. outages' \in 0..MaxOutages
    BY ConstantsOK DEF Outage, TInv, TypeOK
  <1>4. TypeOK'
    BY <1>2, <1>3 DEF Outage, TInv, TypeOK, redis, history
  <1> QED
    BY <1>1, <1>4 DEF TInv

\* What a return of Redis leaves of each window, entry and history.
Left ==
    /\ now' = now /\ req' = req /\ issued' = issued /\ expiry' = expiry
    /\ counted' = counted /\ latest' = latest
    /\ window' \in [Keys -> SUBSET Hit]
    /\ \A k \in Keys : window'[k] \subseteq window[k]
    /\ admitted' \subseteq admitted
    /\ \A k \in Keys : window'[k] = window[k] \/ \A x \in admitted' : x.key # k
    /\ until' \in [Tokens -> Nat]
    /\ out' \subseteq out
    /\ \A tk \in out' : until'[tk] = until[tk]

LEMMA ReturnLeaves == TInv /\ Return => Left
  <1> SUFFICES ASSUME TInv, Return PROVE Left
    OBVIOUS
  <1>1. PICK K \in SUBSET Keys, T \in SUBSET Tokens :
          /\ \E w \in [K -> SUBSET UNION {window[k] : k \in K}] :
                /\ \A k \in K : w[k] \subseteq window[k]
                /\ window' = [k \in Keys |-> IF k \in K THEN w[k] ELSE window[k]]
          /\ admitted' = {x \in admitted : x.key \notin K}
          /\ until' = [tk \in Tokens |-> IF tk \in T THEN 0 ELSE until[tk]]
          /\ out' = out \ T
    BY DEF Return
  <1>2. PICK w : /\ \A k \in K : w[k] \subseteq window[k]
                 /\ window' = [k \in Keys |-> IF k \in K THEN w[k] ELSE window[k]]
    BY <1>1
  <1>3. \A k \in Keys : window'[k] \subseteq window[k]
    BY <1>2
  <1>4. window' \in [Keys -> SUBSET Hit]
    <2>1. \A k \in Keys : window[k] \subseteq Hit
      BY DEF TInv, TypeOK
    <2> QED
      BY <1>2, <1>3, <2>1
  <1>5. \A k \in Keys : window'[k] = window[k] \/ \A x \in admitted' : x.key # k
    BY <1>1, <1>2
  <1>6. until' \in [Tokens -> Nat]
    BY <1>1 DEF TInv, TypeOK
  <1>7. \A tk \in out' : until'[tk] = until[tk]
    BY <1>1 DEF TInv, TypeOK
  <1>8. admitted' \subseteq admitted /\ out' \subseteq out
    BY <1>1
  <1> QED
    BY <1>3, <1>4, <1>5, <1>6, <1>7, <1>8 DEF Left, Return

LEMMA ReturnTInv == TInv /\ Return => TInv'
  <1> SUFFICES ASSUME TInv, Return PROVE TInv'
    OBVIOUS
  <1>1. Left
    BY ReturnLeaves
  <1>2. Busy'
    BY <1>1 DEF Left, TInv, Busy, Under
  <1>3. TypeOK'
    BY <1>1 DEF Left, Return, TInv, TypeOK
  <1> QED
    BY <1>2, <1>3 DEF TInv

LEMMA NextTInv == TInv /\ [Next]_vars => TInv'
  <1> SUFFICES ASSUME TInv, [Next]_vars PROVE TInv'
    OBVIOUS
  <1>1. CASE UNCHANGED vars
    BY <1>1 DEF vars, redis, history, TInv, TypeOK, Busy, Under
  <1>2. ASSUME NEW h \in Handlers, Handle(h) PROVE TInv'
    BY <1>2, ArriveTInv, LogoutStartTInv, CountTInv, CountBlindTInv, LogoutStoreTInv, CheckTInv,
       ServeTInv, ServeAnyoneTInv DEF Handle
  <1> QED
    BY <1>1, <1>2, TickTInv, OutageTInv, ReturnTInv DEF Next

LEMMA SpecTInv == Spec => []TInv
  BY InitTInv, NextTInv, PTL DEF Spec

\* The variables stay of their types, whatever the limits, windows and lifetimes.
THEOREM DoorTypes == Spec => []TypeOK
  BY SpecTInv, PTL DEF TInv

-----------------------------------------------------------------------------
(* The limiter.                                                            *)

\* What the sorted set of a key still has to do with the requests counted: an admitted
\* one stays in it as long as a prompt request could have it in its window.
Counting ==
    /\ IsFiniteSet(counted)
    /\ \A k \in Keys : latest[k] <= now
    /\ \A k \in Keys : window[k] \subseteq counted
    /\ \A k \in Keys : \A x \in window[k] : x.key = k
    /\ \A x \in counted : /\ x.stamp <= latest[x.key]
                          /\ latest[x.key] + Window + Second <= expiry[x.key]
Remembered(x) == x.stamp + Window > latest[x.key] /\ now <= x.stamp + Window + Second
Kept == \A x \in admitted : Remembered(x) => x \in window[x.key]

InSpan(k, t) == {x \in admitted : x.key = k /\ x.stamp <= t /\ t < x.stamp + Window}

LInv == TInv /\ Counting /\ Kept /\ LimitHolds

LEMMA InitLInv == Init => LInv
  <1> SUFFICES ASSUME Init PROVE LInv
    OBVIOUS
  <1>1. TInv
    BY InitTInv
  <1>2. Counting /\ Kept
    BY FS_EmptySet DEF Init, Counting, Kept
  <1>3. LimitHolds
    <2> SUFFICES ASSUME NEW k \in Keys, NEW t \in 0..MaxTime
                 PROVE  Cardinality(InSpan(k, t)) <= LimitOf(k)
      BY DEF LimitHolds, InSpan
    <2>1. InSpan(k, t) = {}
      BY DEF Init, InSpan
    <2> QED
      BY <2>1, FS_EmptySet, LimitIs
  <1> QED
    BY <1>1, <1>2, <1>3 DEF LInv

\* Steps that leave the limiter's state alone.
LEMMA LimiterIdle ==
    ASSUME LInv, TInv', now' = now,
           UNCHANGED <<window, expiry, counted, admitted, latest>>
    PROVE  LInv'
  BY DEF LInv, Counting, Kept, Remembered, LimitHolds

LEMMA TickLInv == LInv /\ Tick => LInv'
  <1> SUFFICES ASSUME LInv, Tick PROVE LInv'
    OBVIOUS
  <1>1. TInv'
    BY TickTInv DEF LInv
  <1>2. now \in Nat /\ now' = now + 1
    BY ConstantsOK DEF LInv, TInv, TypeOK, Tick
  <1>3. UNCHANGED <<window, expiry, counted, admitted, latest>>
    BY DEF Tick, redis, history
  <1>4. Counting'
    <2>1. \A k \in Keys : latest[k] \in Nat
      BY DEF LInv, TInv, TypeOK
    <2>2. \A k \in Keys : (latest[k] <= now)'
      BY <1>2, <1>3, <2>1 DEF LInv, Counting
    <2> QED
      BY <1>3, <2>2 DEF LInv, Counting
  <1>5. Kept'
    <2> SUFFICES ASSUME NEW x \in admitted, Remembered(x)' PROVE x \in window[x.key]
      BY <1>3 DEF Kept
    <2>1. x.stamp \in Nat
      BY DEF LInv, TInv, TypeOK, Hit
    <2>2. Remembered(x)
      BY <1>2, <1>3, <2>1, ConstantsOK DEF Remembered
    <2> QED
      BY <2>2 DEF LInv, Kept
  <1>6. LimitHolds'
    BY <1>3 DEF LInv, LimitHolds
  <1> QED
    BY <1>1, <1>4, <1>5, <1>6 DEF LInv

LEMMA ReturnLInv == LInv /\ Return => LInv'
  <1> SUFFICES ASSUME LInv, Return PROVE LInv'
    OBVIOUS
  <1>1. TInv' /\ Left
    BY ReturnTInv, ReturnLeaves DEF LInv
  <1>2. Counting'
    BY <1>1 DEF Left, LInv, Counting
  <1>3. Kept'
    <2> SUFFICES ASSUME NEW x \in admitted', Remembered(x)' PROVE x \in window'[x.key]
      BY DEF Kept
    <2>1. x \in admitted /\ Remembered(x) /\ x.key \in Keys
      BY <1>1 DEF Left, Remembered, LInv, TInv, TypeOK, Hit
    <2>2. x \in window[x.key]
      BY <2>1 DEF LInv, Kept
    <2> QED
      BY <1>1, <2>1, <2>2 DEF Left
  <1>4. LimitHolds'
    <2> SUFFICES ASSUME NEW k \in Keys, NEW t \in 0..MaxTime
                 PROVE  Cardinality(InSpan(k, t)') <= LimitOf(k)
      BY DEF LimitHolds, InSpan
    <2>1. InSpan(k, t)' \subseteq InSpan(k, t) /\ InSpan(k, t) \subseteq counted
      BY <1>1 DEF Left, InSpan, LInv, TInv, TypeOK
    <2>2. IsFiniteSet(InSpan(k, t))
      BY <2>1, FS_Subset DEF LInv, Counting
    <2>3. Cardinality(InSpan(k, t)') <= Cardinality(InSpan(k, t))
      BY <2>1, <2>2, FS_Subset
    <2>4. Cardinality(InSpan(k, t)) <= LimitOf(k)
      BY DEF LInv, LimitHolds, InSpan
    <2>5. IsFiniteSet(InSpan(k, t)')
      BY <2>1, <2>2, FS_Subset
    <2> QED
      BY <2>2, <2>3, <2>4, <2>5, FS_CardinalityType, LimitIs
  <1> QED
    BY <1>1, <1>2, <1>3, <1>4 DEF LInv

\* What a count does to the limiter's state.
LEMMA CountSays ==
    ASSUME LInv, NEW h \in Handlers, Count(h), NEW k, k = req[h].key, NEW s, s = req[h].stamp,
           NEW x, x = HitOf(req[h])
    PROVE  /\ k \in Keys /\ s \in Nat /\ s <= now /\ now \in Nat /\ now' = now
           /\ x \in Hit /\ x.key = k /\ x.stamp = s
           /\ window'[k] = {y \in Stored(k) : y.stamp + Window > s} \cup {x}
           /\ \A j \in Keys \ {k} : window'[j] = window[j] /\ latest'[j] = latest[j]
                                    /\ expiry'[j] = expiry[j]
           /\ expiry'[k] = now + Window + Second
           /\ latest'[k] = IF latest[k] < s THEN s ELSE latest[k]
           /\ counted' = counted \cup {x}
           /\ admitted' = admitted
                \/ /\ admitted' = admitted \cup {x}
                   /\ ~Overtaken(req[h])
                   /\ Cardinality(window'[k]) <= LimitOf(k)
  <1>1. k \in Keys /\ s \in Nat /\ s <= now /\ x \in Hit
    BY Hits DEF LInv
  <1>2. now \in Nat /\ now' = now
    BY ConstantsOK DEF Count, LInv, TInv, TypeOK
  <1>3. x.key = k /\ x.stamp = s
    BY DEF HitOf
  <1>4. window'[k] = InWindow(req[h]) /\ \A j \in Keys \ {k} : window'[j] = window[j]
    BY <1>1 DEF Count, LInv, TInv, TypeOK
  <1>5. InWindow(req[h]) = {y \in Stored(k) : y.stamp + Window > s} \cup {x}
    BY DEF InWindow
  <1>6. expiry'[k] = now + Window + Second /\ \A j \in Keys \ {k} : expiry'[j] = expiry[j]
    BY <1>1 DEF Count, Expiry, LInv, TInv, TypeOK
  <1>7. /\ latest'[k] = IF latest[k] < s THEN s ELSE latest[k]
        /\ \A j \in Keys \ {k} : latest'[j] = latest[j]
    BY <1>1 DEF Count, LInv, TInv, TypeOK
  <1>8. counted' = counted \cup {x}
    BY DEF Count
  <1>9. admitted' = admitted \/ /\ admitted' = admitted \cup {x}
                                /\ ~Overtaken(req[h])
                                /\ Cardinality(window'[k]) <= LimitOf(k)
    BY <1>4 DEF Count
  <1> QED
    BY <1>1, <1>2, <1>3, <1>4, <1>5, <1>6, <1>7, <1>8, <1>9

\* What is still to be remembered is still there, and stays.
LEMMA StillStored ==
    ASSUME LInv, NEW y \in admitted, Remembered(y)
    PROVE  y \in Stored(y.key)
  <1>1. y \in counted /\ y.key \in Keys /\ y.stamp \in Nat
    BY DEF LInv, TInv, TypeOK, Hit
  <1>2. y.stamp <= latest[y.key] /\ latest[y.key] + Window + Second <= expiry[y.key]
    BY <1>1 DEF LInv, Counting
  <1>3. latest[y.key] \in Nat /\ expiry[y.key] \in Nat /\ now \in Nat
    BY <1>1, ConstantsOK DEF LInv, TInv, TypeOK
  <1>4. now <= expiry[y.key]
    BY <1>1, <1>2, <1>3, ConstantsOK DEF Remembered
  <1>5. y \in window[y.key]
    BY DEF LInv, Kept
  <1> QED
    BY <1>4, <1>5 DEF Stored

LEMMA CountLInv ==
    ASSUME LInv, NEW h \in Handlers, Count(h)
    PROVE  LInv'
  <1> DEFINE k == req[h].key
             s == req[h].stamp
             x == HitOf(req[h])
  <1>1. /\ k \in Keys /\ s \in Nat /\ s <= now /\ now \in Nat /\ now' = now
        /\ x \in Hit /\ x.key = k /\ x.stamp = s
        /\ window'[k] = {y \in Stored(k) : y.stamp + Window > s} \cup {x}
        /\ \A j \in Keys \ {k} : window'[j] = window[j] /\ latest'[j] = latest[j]
                                 /\ expiry'[j] = expiry[j]
        /\ expiry'[k] = now + Window + Second
        /\ latest'[k] = IF latest[k] < s THEN s ELSE latest[k]
        /\ counted' = counted \cup {x}
        /\ admitted' = admitted
             \/ /\ admitted' = admitted \cup {x}
                /\ ~Overtaken(req[h])
                /\ Cardinality(window'[k]) <= LimitOf(k)
    BY CountSays
  <1>2. ~Overtaken(req[h]) => latest[k] <= s /\ now <= s + Second
    <2>1. latest[k] \in Nat
      BY <1>1 DEF LInv, TInv, TypeOK
    <2> QED
      BY <1>1, <2>1, ConstantsOK DEF Overtaken
  <1>3. TInv'
    BY CountTInv DEF LInv
  <1> HIDE DEF k, s, x
  <1>4. latest[k] \in Nat /\ latest[k] <= now /\ latest'[k] \in Nat
        /\ latest[k] <= latest'[k] /\ s <= latest'[k] /\ latest'[k] <= now
    BY <1>1 DEF LInv, TInv, TypeOK, Counting
  <1>5. Stored(k) \subseteq window[k]
    BY DEF Stored
  <1>6. Counting'
    <2>1. IsFiniteSet(counted')
      BY <1>1, FS_AddElement DEF LInv, Counting
    <2>2. \A j \in Keys : latest'[j] <= now'
      BY <1>1, <1>4 DEF LInv, Counting
    <2>3. \A j \in Keys : window'[j] \subseteq counted'
      <3> SUFFICES ASSUME NEW j \in Keys, NEW y \in window'[j] PROVE y \in counted'
        OBVIOUS
      <3>1. CASE j = k
        BY <1>1, <1>5, <3>1 DEF LInv, Counting
      <3>2. CASE j # k
        BY <1>1, <3>2 DEF LInv, Counting
      <3> QED
        BY <3>1, <3>2
    <2>4. \A j \in Keys : \A y \in window'[j] : y.key = j
      <3> SUFFICES ASSUME NEW j \in Keys, NEW y \in window'[j] PROVE y.key = j
        OBVIOUS
      <3>1. CASE j = k
        BY <1>1, <1>5, <3>1 DEF LInv, Counting
      <3>2. CASE j # k
        BY <1>1, <3>2 DEF LInv, Counting
      <3> QED
        BY <3>1, <3>2
    <2>5. ASSUME NEW y \in counted'
          PROVE  /\ y.stamp <= latest'[y.key]
                 /\ latest'[y.key] + Window + Second <= expiry'[y.key]
      <3>1. y \in Hit /\ y.key \in Keys /\ y.stamp \in Nat
        BY <1>1 DEF LInv, TInv, TypeOK, Hit
      <3>2. CASE y.key # k
        <4>1. y \in counted
          BY <1>1, <3>2
        <4>2. y.stamp <= latest[y.key] /\ latest[y.key] + Window + Second <= expiry[y.key]
          BY <4>1 DEF LInv, Counting
        <4> QED
          BY <1>1, <3>1, <3>2, <4>2
      <3>3. CASE y.key = k
        <4>1. y.stamp <= latest[k] \/ y = x
          BY <1>1, <3>3 DEF LInv, Counting
        <4>2. y.stamp <= latest'[k]
          BY <1>1, <1>4, <3>1, <4>1
        <4>3. latest'[k] + Window + Second <= expiry'[k]
          BY <1>1, <1>4, ConstantsOK
        <4> QED
          BY <3>3, <4>2, <4>3
      <3> QED
        BY <3>2, <3>3
    <2> QED
      BY <2>1, <2>2, <2>3, <2>4, <2>5 DEF Counting
  <1>7. Kept'
    <2> SUFFICES ASSUME NEW y \in admitted', Remembered(y)' PROVE y \in window'[y.key]
      BY DEF Kept
    <2>1. CASE y = x
      BY <1>1, <2>1
    <2>2. CASE y # x
      <3>1. y \in admitted /\ y.key \in Keys /\ y.stamp \in Nat
        BY <1>1, <2>2 DEF LInv, TInv, TypeOK, Hit
      <3>2. Remembered(y)
        <4>1. CASE y.key = k
          BY <1>1, <1>4, <3>1, <4>1, ConstantsOK DEF Remembered
        <4>2. CASE y.key # k
          BY <1>1, <3>1, <4>2 DEF Remembered
        <4> QED
          BY <4>1, <4>2
      <3>3. y \in Stored(y.key) /\ y \in window[y.key]
        BY <3>1, <3>2, StillStored DEF LInv, Kept
      <3>4. CASE y.key = k
        <4>1. y.stamp + Window > s
          BY <1>1, <1>4, <3>1, <3>4, ConstantsOK DEF Remembered
        <4> QED
          BY <1>1, <3>3, <3>4, <4>1
      <3>5. CASE y.key # k
        BY <1>1, <3>1, <3>3, <3>5
      <3> QED
        BY <3>4, <3>5
    <2> QED
      BY <2>1, <2>2
  <1>8. LimitHolds'
    <2> SUFFICES ASSUME NEW j \in Keys, NEW t \in 0..MaxTime
                 PROVE  Cardinality(InSpan(j, t)') <= LimitOf(j)
      BY DEF LimitHolds, InSpan
    <2>1. CASE InSpan(j, t)' = InSpan(j, t)
      BY <2>1 DEF LInv, LimitHolds, InSpan
    <2>2. CASE InSpan(j, t)' # InSpan(j, t)
      <3>1. /\ admitted' = admitted \cup {x} /\ ~Overtaken(req[h])
            /\ Cardinality(window'[k]) <= LimitOf(k)
        BY <1>1, <2>2 DEF InSpan
      <3>2. x.key = j /\ x.stamp <= t /\ t < x.stamp + Window
        BY <2>2, <3>1 DEF InSpan
      <3>3. j = k
        BY <1>1, <3>2
      <3>4. ASSUME NEW y \in InSpan(j, t)' PROVE y \in window'[k]
        <4>1. y \in admitted' /\ y.key = k /\ y.stamp <= t /\ t < y.stamp + Window
          BY <3>3, <3>4 DEF InSpan
        <4>2. CASE y = x
          BY <1>1, <4>2
        <4>3. CASE y # x
          <5>1. y \in admitted /\ y.stamp \in Nat
            BY <3>1, <4>1, <4>3 DEF LInv, TInv, TypeOK, Hit
          <5>2. y.stamp + Window > s
            BY <1>1, <3>2, <4>1, <5>1, ConstantsOK
          <5>3. Remembered(y)
            BY <1>1, <1>2, <1>4, <3>1, <4>1, <5>1, <5>2, ConstantsOK DEF Remembered
          <5>4. y \in Stored(k)
            BY <4>1, <5>1, <5>3, StillStored
          <5> QED
            BY <1>1, <5>2, <5>4
        <4> QED
          BY <4>2, <4>3
      <3>5. IsFiniteSet(window'[k])
        BY <1>1, <1>6, FS_Subset DEF Counting
      <3>6. /\ IsFiniteSet(InSpan(j, t)')
            /\ Cardinality(InSpan(j, t)') <= Cardinality(window'[k])
        BY <3>4, <3>5, FS_Subset
      <3> QED
        BY <3>1, <3>3, <3>5, <3>6, FS_CardinalityType, LimitIs
    <2> QED
      BY <2>1, <2>2
  <1> QED
    BY <1>3, <1>6, <1>7, <1>8 DEF LInv

LEMMA NextLInv == LInv /\ [Next]_vars => LInv'
  <1> SUFFICES ASSUME LInv, [Next]_vars PROVE LInv'
    OBVIOUS
  <1>1. TInv'
    BY NextTInv DEF LInv
  <1>2. CASE UNCHANGED vars
    BY <1>1, <1>2, LimiterIdle DEF vars, redis, history
  <1>3. ASSUME NEW h \in Handlers, Handle(h) PROVE LInv'
    <2>1. CASE Count(h)
      BY <2>1, CountLInv
    <2>2. CASE ~Count(h)
      <3>1. now' = now /\ UNCHANGED <<window, expiry, counted, admitted, latest>>
        BY <1>3, <2>2 DEF Handle, Arrive, LogoutStart, CountBlind, LogoutStore, Check, Serve,
           ServeAnyone, redis, history
      <3> QED
        BY <1>1, <3>1, LimiterIdle
    <2> QED
      BY <2>1, <2>2
  <1>4. CASE Outage
    BY <1>1, <1>4, LimiterIdle DEF Outage, redis, history
  <1> QED
    BY <1>2, <1>3, <1>4, TickLInv, ReturnLInv DEF Next

LEMMA SpecLInv == Spec => []LInv
  BY InitLInv, NextLInv, PTL DEF Spec

\* No window of any key holds more admitted requests than its limit, however many
\* handlers wait for Redis between their look at the clock and their count, and
\* whatever Redis loses: of what it has lost LimitHolds does not speak.
THEOREM LimitsHold == Spec => []LimitHolds
  BY SpecLInv, PTL DEF LInv

-----------------------------------------------------------------------------
(* Refusals.                                                               *)

\* A request that is refused has found Limit others in its window.
LEMMA RefusalHasCause ==
    ASSUME LInv, NEW h \in Handlers, Count(h), Cardinality(InWindow(req[h])) > LimitOf(req[h].key)
    PROVE  Cardinality({y \in counted : y.key = req[h].key /\ y.stamp + Window > req[h].stamp})
              >= LimitOf(req[h].key)
  <1> DEFINE k == req[h].key
             x == HitOf(req[h])
             others == {y \in counted : y.key = k /\ y.stamp + Window > req[h].stamp}
  <1>1. k \in Keys /\ LimitOf(k) \in Nat
    BY Hits, LimitIs DEF LInv
  <1>2. IsFiniteSet(others)
    <2>1. others \subseteq counted
      OBVIOUS
    <2> QED
      BY <2>1, FS_Subset DEF LInv, Counting
  <1>3. InWindow(req[h]) \subseteq others \cup {x}
    BY <1>1 DEF InWindow, Stored, LInv, Counting
  <1>4. Cardinality(InWindow(req[h])) > LimitOf(k)
    OBVIOUS
  <1>5. Cardinality(others) >= LimitOf(k)
    <2> HIDE DEF k, x, others
    <2>1. /\ IsFiniteSet(others \cup {x})
          /\ Cardinality(others \cup {x}) <= Cardinality(others) + 1
      <3>1. Cardinality(others) \in Nat
        BY <1>2, FS_CardinalityType
      <3>2. Cardinality(others \cup {x})
              = IF x \in others THEN Cardinality(others) ELSE Cardinality(others) + 1
        BY <1>2, FS_AddElement
      <3>3. IsFiniteSet(others \cup {x})
        BY <1>2, FS_AddElement
      <3> QED
        BY <3>1, <3>2, <3>3
    <2>2. /\ IsFiniteSet(InWindow(req[h]))
          /\ Cardinality(InWindow(req[h])) <= Cardinality(others \cup {x})
      BY <1>3, <2>1, FS_Subset
    <2> QED
      BY <1>1, <1>2, <1>4, <2>1, <2>2, FS_CardinalityType
  <1> QED
    BY <1>5

\* A status that appears comes from an answer to that request.
LEMMA Untouched ==
    ASSUME TInv, NEW g \in Handlers, NEW h \in Handlers, g # h, Handle(g)
    PROVE  req'[h] = req[h]
  BY DEF Handle, Arrive, LogoutStart, Count, CountBlind, LogoutStore, Check, Serve, ServeAnyone,
     Pass, Forward, Answer, TInv, TypeOK

LEMMA NextRefuses == LInv /\ [Next]_vars =>
    \A h \in Handlers :
        req[h].at = "count" /\ req'[h].status = 429 =>
            LET others == {x \in counted : /\ x.key = req[h].key
                                           /\ x.stamp + Window > req[h].stamp}
            IN Cardinality(others) >= LimitOf(req[h].key)
  <1> SUFFICES ASSUME LInv, [Next]_vars, NEW h \in Handlers,
                      req[h].at = "count", req'[h].status = 429
               PROVE  Cardinality({x \in counted : /\ x.key = req[h].key
                                                   /\ x.stamp + Window > req[h].stamp})
                         >= LimitOf(req[h].key)
    OBVIOUS
  <1>1. req[h].status = 0
    BY DEF LInv, TInv, Busy, Under
  <1>2. req'[h] # req[h]
    BY <1>1
  <1>3. Handle(h)
    <2>1. PICK g \in Handlers : Handle(g)
      BY <1>2 DEF Next, vars, Tick, Outage, Return
    <2> QED
      BY <1>2, <2>1, Untouched DEF LInv
  <1>4. Count(h) \/ CountBlind(h)
    BY <1>3 DEF Handle, Arrive, LogoutStart, LogoutStore, Check, Serve, ServeAnyone
  <1>5. ~Pass(h)
    BY <1>1 DEF Pass, Held, LInv, TInv, TypeOK
  <1>6. Count(h) /\ Cardinality(InWindow(req[h])) > LimitOf(req[h].key)
    BY <1>4, <1>5 DEF Count, CountBlind
  <1> QED
    BY <1>6, RefusalHasCause

\* Who is refused has sent enough to be refused, within the window that ends with
\* the request, and under the same key.
THEOREM RefusalsHaveCause == Spec => RefusedForCause
  BY SpecLInv, NextRefuses, PTL DEF Spec, RefusedForCause

-----------------------------------------------------------------------------
(* Logout.                                                                 *)

\* A token that is out has an entry that misses less than a second of its life, or has
\* less than a second left; so has one that is about to be stored; and a late request
\* was let pass only because the entry was over.
Dead(tk) ==
    /\ issued[tk] # 0
    /\ \/ until[tk] # 0 /\ issued[tk] < until[tk] + Second
       \/ issued[tk] < now + Second
Fine(r) ==
    /\ r.at = "store" => /\ r.ttl # 0
                         /\ issued[r.asked] # 0
                         /\ issued[r.asked] < now + r.ttl + Second
    /\ r.at = "forward" /\ r.late /\ r.asked = r.shown => /\ r.shown \in Tokens
                                                          /\ issued[r.shown] # 0
                                                          /\ issued[r.shown] < r.stamp + Second

OInv == TInv /\ (\A tk \in out : Dead(tk)) /\ (\A h \in Handlers : Fine(req[h]))

LEMMA InitOInv == Init => OInv
  <1> SUFFICES ASSUME Init PROVE OInv
    OBVIOUS
  <1>1. TInv
    BY InitTInv
  <1>2. \A h \in Handlers : Fine(req[h])
    BY DEF Init, Fine, Idle
  <1> QED
    BY <1>1, <1>2 DEF OInv, Init

\* Time and new tokens do no harm.
LEMMA DeadStays ==
    ASSUME OInv, TInv', NEW tk \in out, now <= now',
           until'[tk] = until[tk] \/ (until'[tk] # 0 /\ issued[tk] < until'[tk] + Second),
           issued'[tk] = issued[tk]
    PROVE  Dead(tk)'
  <1>1. tk \in Tokens /\ Dead(tk)
    BY DEF OInv, TInv, TypeOK
  <1>2. now \in Nat /\ now' \in Nat /\ issued[tk] \in Nat
    BY <1>1, ConstantsOK DEF OInv, TInv, TypeOK
  <1> QED
    BY <1>1, <1>2, ConstantsOK DEF Dead

LEMMA FineStays ==
    ASSUME OInv, TInv', NEW h \in Handlers, now <= now', req'[h] = req[h],
           \A tk \in Tokens : issued[tk] # 0 => issued'[tk] = issued[tk]
    PROVE  Fine(req[h])'
  <1>1. Fine(req[h]) /\ Under(req[h]) /\ req[h] \in Request
    BY DEF OInv, TInv, TypeOK, Busy
  <1>2. now \in Nat /\ now' \in Nat
    BY ConstantsOK DEF OInv, TInv, TypeOK
  <1>3. CASE req[h].at = "store"
    <2>1. req[h].asked \in Tokens /\ req[h].ttl \in Nat
      BY <1>1, <1>3 DEF Under, Request
    <2>2. issued[req[h].asked] \in Nat /\ issued'[req[h].asked] = issued[req[h].asked]
      BY <1>1, <1>3, <2>1 DEF Fine, OInv, TInv, TypeOK
    <2> QED
      BY <1>1, <1>2, <1>3, <2>1, <2>2, ConstantsOK DEF Fine
  <1>4. CASE req[h].at # "store"
    BY <1>1, <1>4 DEF Fine
  <1> QED
    BY <1>3, <1>4

\* Once it is set, exp stays.
LEMMA ExpStays == TInv /\ [Next]_vars =>
    \A tk \in Tokens : issued[tk] # 0 => issued'[tk] = issued[tk]
  <1> SUFFICES ASSUME TInv, [Next]_vars, NEW tk \in Tokens, issued[tk] # 0
               PROVE  issued'[tk] = issued[tk]
    OBVIOUS
  <1>1. ASSUME NEW h \in Handlers, Handle(h) PROVE issued'[tk] = issued[tk]
    <2>1. CASE ServeAnyone(h)
      BY <2>1 DEF ServeAnyone, TInv, TypeOK
    <2>2. CASE ~ServeAnyone(h)
      BY <1>1, <2>2 DEF Handle, Arrive, LogoutStart, Count, CountBlind, LogoutStore, Check, Serve
    <2> QED
      BY <2>1, <2>2
  <1> QED
    BY <1>1 DEF Next, vars, Tick, Outage, Return

LEMMA LogoutStartOInv ==
    ASSUME OInv, TInv', NEW h \in Handlers, NEW c \in AnyToken, NEW d \in AnyToken,
           LogoutStart(h, c, d), NEW tk, tk = Extracted(c, d)
    PROVE  (\A x \in out' : Dead(x)') /\ Fine(req[h])'
  <1>0. tk \in Tokens /\ tk \in Sendable
    BY DEF LogoutStart, Extracted, AnyToken
  <1>1. now' = now /\ now \in Nat /\ issued' = issued /\ until' = until /\ issued[tk] \in Nat
        /\ issued[tk] # 0
    BY <1>0, ConstantsOK DEF LogoutStart, redis, OInv, TInv, TypeOK, Sendable
  <1>2. \A x \in out : Dead(x)'
    BY <1>1, DeadStays
  <1>3. CASE Valid(tk) /\ now + Second <= issued[tk]
    <2> DEFINE n == Trunc(issued[tk] - now)
    <2>1. out' = out /\ req' = [req EXCEPT ![h] = Held("store", tk, NoToken, 0, n, FALSE)]
      BY <1>3 DEF LogoutStart
    <2>2. n \in Nat \ {0} /\ issued[tk] < now + n + Second
      BY <1>0, <1>3, Lifetime DEF OInv
    <2> HIDE DEF n
    <2>3. req'[h] = Held("store", tk, NoToken, 0, n, FALSE)
      BY <2>1 DEF OInv, TInv, TypeOK
    <2>4. Fine(req[h])'
      BY <1>1, <2>2, <2>3 DEF Fine, Held
    <2> QED
      BY <1>2, <2>1, <2>4
  <1>4. CASE ~(Valid(tk) /\ now + Second <= issued[tk])
    <2>1. out' = out \cup {tk} /\ req' = [req EXCEPT ![h] = Idle(0)]
      BY <1>4 DEF LogoutStart, Answer
    <2>2. issued[tk] < now + Second
      <3>1. Trunc(now) \in Nat /\ Trunc(now) <= now
        BY <1>1, TruncIs
      <3> QED
        BY <1>1, <1>4, <3>1, ConstantsOK DEF Valid
    <2>3. Dead(tk)'
      BY <1>1, <2>2 DEF Dead
    <2>4. req'[h] = Idle(0)
      BY <2>1 DEF OInv, TInv, TypeOK
    <2>5. Fine(req[h])'
      BY <2>4 DEF Fine, Idle
    <2> QED
      BY <1>2, <2>1, <2>3, <2>5
  <1> QED
    BY <1>3, <1>4

LEMMA LogoutStoreOInv ==
    ASSUME OInv, TInv', NEW h \in Handlers, LogoutStore(h)
    PROVE  (\A x \in out' : Dead(x)') /\ Fine(req[h])'
  <1>0. PICK tk \in Tokens : tk = req[h].asked
    BY DEF LogoutStore, OInv, TInv, Busy, Under
  <1>1. now' = now /\ now \in Nat /\ issued' = issued /\ req' = [req EXCEPT ![h] = Idle(0)]
    BY ConstantsOK DEF LogoutStore, Answer, OInv, TInv, TypeOK
  <1>2. Fine(req[h])'
    <2>1. req'[h] = Idle(0)
      BY <1>1 DEF OInv, TInv, TypeOK
    <2> QED
      BY <2>1 DEF Fine, Idle
  <1>3. /\ tk \in Tokens /\ req[h].ttl \in Nat \ {0}
        /\ issued[tk] \in Nat \ {0} /\ issued[tk] < now + req[h].ttl + Second
    BY <1>0 DEF LogoutStore, OInv, Fine, TInv, TypeOK, Busy, Under, Request
  <1>4. CASE up
    <2>1. until' = [until EXCEPT ![tk] = now + req[h].ttl] /\ out' = out \cup {tk}
      BY <1>0, <1>4 DEF LogoutStore
    <2>2. until'[tk] = now + req[h].ttl /\ \A x \in Tokens \ {tk} : until'[x] = until[x]
      BY <1>3, <2>1 DEF OInv, TInv, TypeOK
    <2>3. until'[tk] # 0 /\ issued[tk] < until'[tk] + Second
      BY <1>1, <1>3, <2>2
    <2>4. Dead(tk)'
      BY <1>1, <1>3, <2>3 DEF Dead
    <2>5. ASSUME NEW x \in out, x # tk PROVE Dead(x)'
      <3>1. x \in Tokens
        BY DEF OInv, TInv, TypeOK
      <3>2. until'[x] = until[x] /\ issued'[x] = issued[x]
        BY <1>1, <2>2, <2>5, <3>1
      <3> QED
        BY <1>1, <3>2, DeadStays
    <2> QED
      BY <1>2, <2>1, <2>4, <2>5
  <1>5. CASE ~up
    <2>1. until' = until /\ out' = out
      BY <1>5 DEF LogoutStore
    <2> QED
      BY <1>1, <1>2, <2>1, DeadStays
  <1> QED
    BY <1>4, <1>5

LEMMA CheckOInv ==
    ASSUME OInv, TInv', NEW h \in Handlers, Check(h)
    PROVE  Fine(req[h])'
  <1> DEFINE tk == req[h].asked
             sh == req[h].shown
  <1>1. now' = now /\ now \in Nat /\ issued' = issued
    BY ConstantsOK DEF Check, OInv, TInv, TypeOK
  <1>2. CASE Answer(h, 0)
    <2>1. req'[h] = Idle(0)
      BY <1>2 DEF Answer, OInv, TInv, TypeOK
    <2> QED
      BY <2>1 DEF Fine, Idle
  <1>3. CASE Forward(h, FALSE)
    <2>1. req'[h] = Held("forward", tk, sh, now, 0, FALSE)
      BY <1>3 DEF Forward, OInv, TInv, TypeOK
    <2> QED
      BY <2>1 DEF Fine, Held
  <1>4. CASE up /\ ~Blacklisted(tk) /\ Forward(h, req[h].late /\ sh \in out)
    <2> DEFINE l == req[h].late /\ sh \in out
    <2>1. req'[h] = Held("forward", tk, sh, now, 0, l)
      BY <1>4 DEF Forward, OInv, TInv, TypeOK
    <2>2. ASSUME l, tk = sh PROVE tk \in Tokens /\ issued[tk] # 0 /\ issued[tk] < now + Second
      <3>1. tk \in Tokens /\ Dead(tk) /\ issued[tk] \in Nat /\ until[tk] \in Nat
        BY <2>2 DEF OInv, TInv, TypeOK
      <3> QED
        BY <1>1, <1>4, <3>1, ConstantsOK DEF Dead, Blacklisted
    <2> HIDE DEF l
    <2>3. /\ req'[h].at = "forward" /\ req'[h].asked = tk /\ req'[h].shown = sh
          /\ req'[h].stamp = now /\ req'[h].late = l
      BY <2>1 DEF Held
    <2> QED
      BY <1>1, <2>2, <2>3 DEF Fine
  <1> QED
    BY <1>2, <1>3, <1>4 DEF Check

LEMMA NextOInv == OInv /\ [Next]_vars => OInv'
  <1> SUFFICES ASSUME OInv, [Next]_vars PROVE OInv'
    OBVIOUS
  <1>1. TInv'
    BY NextTInv DEF OInv
  <1>2. \A tk \in Tokens : issued[tk] # 0 => issued'[tk] = issued[tk]
    BY ExpStays DEF OInv
  <1>3. \A tk \in out : tk \in Tokens /\ issued'[tk] = issued[tk]
    BY <1>2 DEF OInv, Dead, TInv, TypeOK
  <1>4. now \in Nat /\ now' \in Nat
    BY <1>1, ConstantsOK DEF OInv, TInv, TypeOK
  <1>5. CASE UNCHANGED vars
    <2>1. now <= now' /\ req' = req /\ out' = out /\ until' = until
      BY <1>4, <1>5 DEF vars, redis, history
    <2>2. \A tk \in out : Dead(tk)'
      BY <1>1, <1>3, <2>1, DeadStays
    <2>3. \A h \in Handlers : Fine(req[h])'
      BY <1>1, <1>2, <2>1, FineStays
    <2> QED
      BY <1>1, <2>1, <2>2, <2>3 DEF OInv
  <1>6. CASE Tick \/ Outage
    <2>1. now <= now' /\ req' = req /\ out' = out /\ until' = until
      BY <1>4, <1>6 DEF Tick, Outage, redis, history
    <2>2. \A tk \in out : Dead(tk)'
      BY <1>1, <1>3, <2>1, DeadStays
    <2>3. \A h \in Handlers : Fine(req[h])'
      BY <1>1, <1>2, <2>1, FineStays
    <2> QED
      BY <1>1, <2>1, <2>2, <2>3 DEF OInv
  <1>7. CASE Return
    <2>1. Left
      BY <1>7, ReturnLeaves DEF OInv
    <2>2. now <= now' /\ req' = req /\ out' \subseteq out
      BY <1>4, <2>1 DEF Left
    <2>3. \A tk \in out' : Dead(tk)'
      BY <1>1, <1>3, <2>1, <2>2, DeadStays DEF Left
    <2>4. \A h \in Handlers : Fine(req[h])'
      BY <1>1, <1>2, <2>2, FineStays
    <2> QED
      BY <1>1, <2>3, <2>4 DEF OInv
  <1>8. ASSUME NEW h \in Handlers, Handle(h) PROVE OInv'
    <2>1. now' = now
      BY <1>8 DEF Handle, Arrive, LogoutStart, Count, CountBlind, LogoutStore, Check, Serve,
         ServeAnyone
    <2>2. \A g \in Handlers \ {h} : Fine(req[g])'
      BY <1>1, <1>2, <1>4, <1>8, <2>1, Untouched, FineStays DEF OInv
    <2>3. (\A tk \in out' : Dead(tk)') /\ Fine(req[h])'
      <3>1. CASE \E c, d \in AnyToken : LogoutStart(h, c, d)
        BY <1>1, <3>1, LogoutStartOInv
      <3>2. CASE LogoutStore(h)
        BY <1>1, <3>2, LogoutStoreOInv
      <3>3. CASE ~(LogoutStore(h) \/ \E c, d \in AnyToken : LogoutStart(h, c, d))
        <4>1. out' = out /\ until' = until
          BY <1>8, <3>3 DEF Handle, Arrive, Count, CountBlind, Check, Serve, ServeAnyone,
             redis, history
        <4>2. \A tk \in out' : Dead(tk)'
          BY <1>1, <1>3, <1>4, <2>1, <4>1, DeadStays
        <4>3. CASE Check(h)
          BY <1>1, <4>2, <4>3, CheckOInv
        <4>4. CASE ~Check(h)
          <5>1. req'[h].at \in {"idle", "count", "check"}
            BY <1>8, <3>3, <4>4 DEF Handle, Arrive, Count, CountBlind, Serve, ServeAnyone,
               Pass, Answer, Idle, Held, OInv, TInv, TypeOK
          <5> QED
            BY <4>2, <5>1 DEF Fine
        <4> QED
          BY <4>3, <4>4
      <3> QED
        BY <3>1, <3>2, <3>3
    <2> QED
      BY <1>1, <2>2, <2>3 DEF OInv
  <1> QED
    BY <1>5, <1>6, <1>7, <1>8 DEF Next

LEMMA SpecOInv == Spec => []OInv
  BY InitOInv, NextOInv, PTL DEF Spec

LEMMA NextServes == OInv /\ [Next]_vars =>
    \A h \in Handlers :
        /\ req[h].at = "forward" /\ req'[h].status = 200 /\ req[h].late
        /\ req[h].asked = req[h].shown
        => Remnant(req[h])
  <1> SUFFICES ASSUME OInv, [Next]_vars, NEW h \in Handlers, req[h].at = "forward",
                      req'[h].status = 200, req[h].late, req[h].asked = req[h].shown
               PROVE  Remnant(req[h])
    OBVIOUS
  <1>1. req[h].status = 0
    BY DEF OInv, TInv, Busy, Under
  <1>2. req'[h] # req[h]
    BY <1>1
  <1>3. Handle(h)
    <2>1. PICK g \in Handlers : Handle(g)
      BY <1>2 DEF Next, vars, Tick, Outage, Return
    <2> QED
      BY <1>2, <2>1, Untouched DEF OInv
  <1>4. Serve(h) \/ ServeAnyone(h)
    BY <1>3 DEF Handle, Arrive, LogoutStart, LogoutStore, Check, Count, CountBlind
  <1>5. ~Answer(h, 0)
    BY DEF Answer, Idle, OInv, TInv, TypeOK
  <1>6. Valid(req[h].shown)
    BY <1>4, <1>5 DEF Serve, ServeAnyone
  <1>7. /\ req[h].shown \in Tokens
        /\ issued[req[h].shown] < req[h].stamp + Second
    BY DEF OInv, Fine
  <1>8. now \in Nat /\ issued[req[h].shown] \in Nat
    BY <1>7, ConstantsOK DEF OInv, TInv, TypeOK
  <1>9. Trunc(now) \in Nat /\ now < Trunc(now) + Second
    BY <1>8, TruncIs
  <1> QED
    BY <1>6, <1>7, <1>8, <1>9, ConstantsOK DEF Valid, Remnant

\* The token of a request, if it is the one the gateway has asked about, opens nothing
\* once it was logged out before the request came, but for less than a second to each
\* side of its exp.
THEOREM LogoutsHold == Spec => LogoutHolds
  BY SpecOInv, NextServes, PTL DEF Spec, LogoutHolds

====
