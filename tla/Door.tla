---- MODULE Door ----
(***************************************************************************)
(* The gateway's door: which requests get through to the services.         *)
(*                                                                         *)
(* A request passes the rate limiter, a sliding window of time stamps in   *)
(* Redis, then the blacklist of tokens whose owners have logged out, then  *)
(* the service's own look at the token.  Each of these reads the clock or  *)
(* Redis at another moment, other requests come between, and Redis may go  *)
(* away and come back with less than it had.                               *)
(*                                                                         *)
(* A request may carry a token in its cookie and another in its header:    *)
(* limiter, blacklist and service do not all look at the same one.         *)
(*                                                                         *)
(* Time is counted in ticks, Second of them in a second, because some of   *)
(* the code looks at the clock and some at its whole seconds only.         *)
(***************************************************************************)
EXTENDS Naturals, FiniteSets

CONSTANTS
    Addresses,   \* where requests come from: x-forwarded-for, or the peer
    Buckets,     \* classes of requests, each with a limit of its own
    Limit,       \* RATE_LIMITS: per bucket, how many requests in a window
    NoKey,       \* no key
    Tokens,      \* access tokens that may be issued
    NoToken,     \* no token, in the cookie or in the header
    Handlers,    \* coroutines of the gateway
    Second,      \* ticks in a second
    Window,      \* window_seconds, in ticks
    Life,        \* ACCESS_TOKEN_EXPIRE_MINUTES, in ticks
    MaxTime,     \* bound: the clock
    MaxRequests, \* bound: requests that come to the limiter
    MaxOutages   \* bound: failures of Redis

\* What a limit is for: rl:<client>:<bucket>.
Keys == [client : Tokens \cup Addresses, bucket : Buckets]
LimitOf(k) == Limit[k.bucket]

ASSUME ConstantsOK ==
    /\ Limit \in [Buckets -> Nat]
    /\ NoKey \notin Keys
    /\ NoToken \notin Tokens
    /\ Tokens \cap Addresses = {}  \* one is a hash behind "tok:", the other follows "ip:"
    /\ Second \in Nat \ {0}
    /\ Window \in Nat
    /\ Life \in Nat \ {0}
    /\ MaxTime \in Nat
    /\ MaxRequests \in Nat
    /\ MaxOutages \in Nat

VARIABLES
    now,      \* the clock, of the machine that gateway, Redis and services share
    req,      \* per coroutine: the request it handles
    requests, \* how many have come to the limiter
    issued,   \* per token: its exp, 0 before it is issued
    up,       \* Redis answers
    joined,   \* the blacklist has a connection to Redis, dead or alive
    outages,  \* failures of Redis so far
    window,   \* rl:<client>:<bucket>: a sorted set of requests and their stamps
    expiry,   \* when that key expires
    until,    \* bl:<token>: when the entry expires, 0 without one
    counted,  \* history: the requests the limiter has counted
    admitted, \* history: those it let in, which a later stamp had not overtaken,
              \* within a second of their stamp, and Redis has not forgotten
    latest,   \* history: per key, the latest stamp counted
    out       \* history: tokens logged out, to Redis's knowledge

redis == <<window, expiry, until>>
history == <<counted, admitted, latest, out>>
vars == <<now, req, requests, issued, up, joined, outages, redis, history>>

AnyToken == Tokens \cup {NoToken}

Hit == [key : Keys, stamp : Nat, id : Nat]
Request == [at : {"idle", "count", "check", "forward", "store"},
            status : {0, 200, 429}, \* of the last answer: 0 for what no property asks for
            key : Keys \cup {NoKey},
            asked : AnyToken,  \* the token the gateway asks the blacklist about, or puts on it
            shown : AnyToken,  \* the token the service gets to see
            id : Nat,
            stamp : Nat,     \* the clock when the handler last looked at it or at the blacklist
            ttl : Nat,       \* the lifetime it has computed for a blacklist entry
            late : BOOLEAN]  \* history: it came after the token it shows was logged out
Idle(status) == [at |-> "idle", status |-> status, key |-> NoKey, asked |-> NoToken,
                 shown |-> NoToken, id |-> 0, stamp |-> 0, ttl |-> 0, late |-> FALSE]
Held(at, asked, shown, stamp, ttl, late) ==
    [at |-> at, status |-> 0, key |-> NoKey, asked |-> asked, shown |-> shown, id |-> 0,
     stamp |-> stamp, ttl |-> ttl, late |-> late]

TypeOK ==
    /\ now \in 0..MaxTime
    /\ req \in [Handlers -> Request]
    /\ requests \in 0..MaxRequests
    /\ issued \in [Tokens -> Nat]
    /\ up \in BOOLEAN
    /\ joined \in BOOLEAN
    /\ outages \in 0..MaxOutages
    /\ window \in [Keys -> SUBSET Hit]
    /\ expiry \in [Keys -> Nat]
    /\ until \in [Tokens -> Nat]
    /\ counted \subseteq Hit
    /\ admitted \subseteq counted
    /\ latest \in [Keys -> Nat]
    /\ out \subseteq Tokens

\* A time with its fraction of a second cut off.
Trunc(t) == t - (t % Second)

\* jwt.decode compares exp with the whole seconds of the clock.
Valid(tk) == Trunc(now) <= issued[tk]

\* The steps of a request: the limiter has let it in, the blacklist has, it is over.
Pass(h) == req' = [req EXCEPT ![h] = Held("check", @.asked, @.shown, 0, 0, @.late)]
Forward(h, late) ==
    req' = [req EXCEPT ![h] = Held("forward", @.asked, @.shown, now, 0, late)]
Answer(h, status) == req' = [req EXCEPT ![h] = Idle(status)]

\* _extract_token_from_request: the cookie's, else the header's.
Extracted(cookie, header) == IF cookie # NoToken THEN cookie ELSE header

\* The proxy leaves a header as it is, and makes one from the cookie if there is none.
Injected(cookie, header) == IF header # NoToken THEN header ELSE cookie

\* What a browser or a script can send.
Sendable == {NoToken} \cup {tk \in Tokens : issued[tk] # 0}

-----------------------------------------------------------------------------
(* The rate limiter.                                                       *)

\* _client_id: only the header's token counts; who is logged in by cookie is an address.
ClientId(header, address) == IF header # NoToken THEN header ELSE address

\* gateway, up to check_rate_limit's pipeline: the clock is read before the wait
\* for Redis.
Arrive(h, address, bucket, cookie, header) ==
    /\ req[h].at = "idle"
    /\ requests < MaxRequests
    /\ {cookie, header} \subseteq Sendable
    /\ requests' = requests + 1
    /\ req' = [req EXCEPT ![h] =
                 [at |-> "count", status |-> 0,
                  key |-> [client |-> ClientId(header, address), bucket |-> bucket],
                  asked |-> Extracted(cookie, header), shown |-> Injected(cookie, header),
                  id |-> requests', stamp |-> now, ttl |-> 0,
                  late |-> Injected(cookie, header) \in out]]
    /\ UNCHANGED <<now, issued, up, joined, outages, redis, history>>

\* The four commands of the pipeline, which Redis takes as one: what is left of the
\* key, without the stamps that have left the window, with this request's.
Stored(k) == IF now <= expiry[k] THEN window[k] ELSE {}
HitOf(r) == [key |-> r.key, stamp |-> r.stamp, id |-> r.id]

\* Mutant: nothing is removed from the window.
NothingLeaves(r) == Stored(r.key) \cup {HitOf(r)}
InWindow(r) == {x \in Stored(r.key) : x.stamp + Window > r.stamp} \cup {HitOf(r)}

\* Mutant: the key lives as long as the window.
ExpiryWithWindow == now + Window
Expiry == now + Window + Second

Overtaken(r) == latest[r.key] > r.stamp \/ now > r.stamp + Second

\* The count decides; if the answer with it is lost, the request is let in.
Count(h) ==
    LET r == req[h]
        hits == InWindow(r)
    IN
    /\ r.at = "count"
    /\ up
    /\ window' = [window EXCEPT ![r.key] = hits]
    /\ expiry' = [expiry EXCEPT ![r.key] = Expiry]
    /\ counted' = counted \cup {HitOf(r)}
    /\ latest' = [latest EXCEPT ![r.key] = IF @ < r.stamp THEN r.stamp ELSE @]
    /\ \/ /\ Cardinality(hits) <= LimitOf(r.key)
          /\ Pass(h)
          /\ outages' = outages
          /\ admitted' = IF Overtaken(r) THEN admitted ELSE admitted \cup {HitOf(r)}
       \/ /\ Cardinality(hits) > LimitOf(r.key)
          /\ Answer(h, 429)
          /\ UNCHANGED <<outages, admitted>>
       \/ /\ outages < MaxOutages
          /\ Pass(h)
          /\ outages' = outages + 1
          /\ admitted' = admitted
    /\ UNCHANGED <<now, requests, issued, up, joined, until, out>>

\* Without Redis everybody is let in.
CountBlind(h) ==
    /\ req[h].at = "count"
    /\ ~up
    /\ Pass(h)
    /\ UNCHANGED <<now, requests, issued, up, joined, outages, redis, history>>

-----------------------------------------------------------------------------
(* Logout and the blacklist.                                               *)

\* Mutant: no look at what is left.
LogoutStartAlways(h, cookie, header) ==
    LET tk == Extracted(cookie, header) IN
    /\ req[h].at = "idle"
    /\ {cookie, header} \subseteq Sendable
    /\ tk # NoToken
    /\ req' = [req EXCEPT ![h] = Held("store", tk, NoToken, 0, Trunc(issued[tk] - now), FALSE)]
    /\ UNCHANGED <<now, requests, issued, up, joined, outages, redis, history>>

\* logout and blacklist_token, up to the wait for Redis.  A token that has less than
\* a second to live, or none, is not stored; nor is the header's beside a cookie.
LogoutStart(h, cookie, header) ==
    LET tk == Extracted(cookie, header) IN
    /\ req[h].at = "idle"
    /\ {cookie, header} \subseteq Sendable
    /\ tk # NoToken
    /\ \/ /\ Valid(tk) /\ now + Second <= issued[tk]
          /\ req' = [req EXCEPT ![h] =
                       Held("store", tk, NoToken, 0, Trunc(issued[tk] - now), FALSE)]
          /\ out' = out
       \/ /\ ~(Valid(tk) /\ now + Second <= issued[tk])
          /\ Answer(h, 0)
          /\ out' = out \cup {tk}
    /\ UNCHANGED <<now, requests, issued, up, joined, outages, redis, counted, admitted, latest>>

\* Mutant: the lifetime is taken for a time.
LogoutStoreAt(h) ==
    LET tk == req[h].asked IN
    /\ req[h].at = "store"
    /\ up
    /\ until' = [until EXCEPT ![tk] = req[h].ttl]
    /\ joined' = TRUE
    /\ out' = out \cup {tk}
    /\ Answer(h, 0)
    /\ UNCHANGED <<now, requests, issued, up, outages, window, expiry,
                   counted, admitted, latest>>

\* SETEX.  Without Redis the token is not stored: the answer is 200 all the same if there
\* never was a connection, and 500 if it broke.
LogoutStore(h) ==
    LET tk == req[h].asked IN
    /\ req[h].at = "store"
    /\ \/ /\ up
          /\ until' = [until EXCEPT ![tk] = now + req[h].ttl]
          /\ joined' = TRUE
          /\ out' = out \cup {tk}
          /\ Answer(h, 0)
       \/ /\ ~up
          /\ Answer(h, 0)
          /\ UNCHANGED <<until, joined, out>>
    /\ UNCHANGED <<now, requests, issued, up, outages, window, expiry,
                   counted, admitted, latest>>

Blacklisted(tk) == until[tk] # 0 /\ now <= until[tk]

\* is_token_blacklisted.  Without Redis it lets the token pass if there never was a
\* connection, and fails the request if it broke.
Check(h) ==
    LET tk == req[h].asked IN
    /\ req[h].at = "check"
    /\ \/ /\ tk = NoToken
          /\ Forward(h, FALSE)
          /\ joined' = joined
       \/ /\ tk # NoToken /\ up
          /\ joined' = TRUE
          /\ \/ Blacklisted(tk) /\ Answer(h, 0)
             \/ /\ ~Blacklisted(tk)
                /\ Forward(h, req[h].late /\ req[h].shown \in out)
       \/ /\ tk # NoToken /\ ~up
          /\ joined' = joined
          /\ \/ ~joined /\ Forward(h, FALSE)
             \/ Answer(h, 0)
    /\ UNCHANGED <<now, requests, issued, up, outages, redis, history>>

-----------------------------------------------------------------------------
(* The services.                                                           *)

\* get_current_user of any service looks at the header's token; what it finds of the account is
\* the business of UserSync.
Serve(h) ==
    LET tk == req[h].shown IN
    /\ req[h].at = "forward"
    /\ tk # NoToken
    /\ Answer(h, IF Valid(tk) THEN 200 ELSE 0)
    /\ UNCHANGED <<now, requests, issued, up, joined, outages, redis, history>>

\* login, or a request that needs no token.
ServeAnyone(h) ==
    /\ req[h].at = "forward"
    /\ req[h].shown = NoToken
    /\ \/ issued' = issued
       \/ \E tk \in Tokens : /\ issued[tk] = 0
                             /\ issued' = [issued EXCEPT ![tk] = Trunc(now) + Life]
    /\ Answer(h, 0)
    /\ UNCHANGED <<now, requests, up, joined, outages, redis, history>>

-----------------------------------------------------------------------------
(* The world.                                                              *)

Tick ==
    /\ now < MaxTime
    /\ now' = now + 1
    /\ UNCHANGED <<req, requests, issued, up, joined, outages, redis, history>>

Outage ==
    /\ up
    /\ outages < MaxOutages
    /\ up' = FALSE
    /\ outages' = outages + 1
    /\ UNCHANGED <<now, req, requests, issued, joined, redis, history>>

\* Redis comes back with what its last snapshot held of each key.
Return ==
    /\ ~up
    /\ up' = TRUE
    /\ \E K \in SUBSET Keys, T \in SUBSET Tokens :
          /\ \E w \in [K -> SUBSET UNION {window[k] : k \in K}] :
                /\ \A k \in K : w[k] \subseteq window[k]
                /\ window' = [k \in Keys |-> IF k \in K THEN w[k] ELSE window[k]]
          /\ admitted' = {x \in admitted : x.key \notin K}
          /\ until' = [tk \in Tokens |-> IF tk \in T THEN 0 ELSE until[tk]]
          /\ out' = out \ T
    /\ UNCHANGED <<now, req, requests, issued, joined, outages, expiry, counted, latest>>

Init ==
    /\ now = 0
    /\ req = [h \in Handlers |-> Idle(0)]
    /\ requests = 0
    /\ issued \in [Tokens -> {0, Life}]  \* some by a login through an earlier gateway
    /\ up = TRUE
    /\ joined = FALSE
    /\ outages = 0
    /\ window = [k \in Keys |-> {}]
    /\ expiry = [k \in Keys |-> 0]
    /\ until = [tk \in Tokens |-> 0]
    /\ counted = {}
    /\ admitted = {}
    /\ latest = [k \in Keys |-> 0]
    /\ out = {}

Handle(h) ==
    \/ \E address \in Addresses, bucket \in Buckets, cookie, header \in AnyToken :
          Arrive(h, address, bucket, cookie, header)
    \/ \E cookie, header \in AnyToken : LogoutStart(h, cookie, header)
    \/ Count(h) \/ CountBlind(h) \/ LogoutStore(h) \/ Check(h) \/ Serve(h) \/ ServeAnyone(h)

Next == (\E h \in Handlers : Handle(h)) \/ Tick \/ Outage \/ Return

Spec == Init /\ [][Next]_vars

-----------------------------------------------------------------------------
\* The limit is one on every window, not on those the limiter happens to look at:
\* whenever a window of Window ticks ends, no more than the limit of the stamps in it are
\* those of requests that were let in.  It speaks of requests that Redis counted
\* within a second of their stamp, and before any later one of their key.  Requests whose
\* answer from Redis was lost are exempt, and so are those it has forgotten since; and two
\* requests of one key with equal stamps, which the model tells apart, are one member of
\* the sorted set.
LimitHolds ==
    \A k \in Keys : \A t \in 0..MaxTime :
        Cardinality({x \in admitted : x.key = k /\ x.stamp <= t /\ t < x.stamp + Window})
            <= LimitOf(k)

\* Nobody is turned away for old requests, or for those of another key: a request that is
\* refused has as many others as the limit of its key, each of them stamped less than a
\* window before it, or later than it, since the clock is read before the wait for Redis.
RefusedForCause ==
    [][\A h \in Handlers :
          req[h].at = "count" /\ req'[h].status = 429 =>
              LET others == {x \in counted : /\ x.key = req[h].key
                                             /\ x.stamp + Window > req[h].stamp}
              IN Cardinality(others) >= LimitOf(req[h].key)]_vars

\* What truncation leaves of a logged-out token: less than a second to each side of its exp.
Remnant(r) == issued[r.shown] < r.stamp + Second /\ now < issued[r.shown] + Second

\* "so their old tokens can't be used again": a token that was logged out, as far as
\* Redis knows and remembers, opens nothing to a request that comes afterwards, but for
\* its remnant.  It speaks of requests that show the service the token that the gateway
\* has asked about: those with one token, or the same one in cookie and header.
LogoutHolds ==
    [][\A h \in Handlers :
          /\ req[h].at = "forward" /\ req'[h].status = 200 /\ req[h].late
          /\ req[h].asked = req[h].shown
          => Remnant(req[h])]_vars

\* "On every incoming request, the gateway checks if the token has been blacklisted before
\* forwarding" (token_blacklist.py:6-8): the same of every request, also of one that has a
\* logged-out token in its header and another in its cookie.
EveryRequestIsChecked ==
    [][\A h \in Handlers :
          req[h].at = "forward" /\ req'[h].status = 200 /\ req[h].late => Remnant(req[h])]_vars

====
