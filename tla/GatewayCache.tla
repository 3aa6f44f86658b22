---- MODULE GatewayCache ----
(***************************************************************************)
(* The response cache of the gateway.                                      *)
(*                                                                         *)
(* Every request passes through one handler.  For a GET it asks Redis for  *)
(* a stored response, else forwards the request and stores what comes      *)
(* back, for TTL; for a write it forwards, and then scans the keys and     *)
(* deletes those that the written path concerns.  Handlers interleave at   *)
(* each of these calls.                                                    *)
(*                                                                         *)
(* A path is the sequence of the pieces that the code's prefixes tell      *)
(* apart, so that startswith is IsPrefix.  A page is a GET with its path   *)
(* and query, hence a key.  What a response says of a table is the         *)
(* version of the table that it was made from.                             *)
(***************************************************************************)
EXTENDS Naturals, Sequences, FiniteSets, SequencesExt

CONSTANTS
    Workers,     \* handler coroutines of the gateway
    Clients,     \* who is logged in on the other side
    Nobody,      \* the reader of a response that is the same for everybody
    NoEntry,     \* no such key in Redis
    Pages,       \* what can be read
    PathOf,      \* page |-> its path
    Shows,       \* page |-> the tables its handler reads, in that order
    Called,      \* page |-> those of them that it asks another service about
    Missing,     \* what it shows of such a table when the call has failed: 0
    Personal,    \* pages whose response depends on the caller
    Writes,      \* what can be changed
    WritePath,   \* write |-> its path
    Changes,     \* write |-> the table it changes
    Tables,
    Synced,      \* tables that also change without a request: copies of accounts
    Faults,      \* what may go wrong
    TTL,         \* CACHE_TTL
    MaxVersion   \* bound: changes of each table

ASSUME ConstantsOK ==
    /\ Nobody \notin Clients
    /\ PathOf \in [Pages -> Seq(STRING)]
    /\ Shows \in [Pages -> Seq(Tables)]
    /\ \A p \in Pages : Shows[p] # <<>>
    /\ Called \in [Pages -> SUBSET Tables]
    /\ Missing \notin 0..MaxVersion
    /\ Personal \subseteq Pages
    /\ WritePath \in [Writes -> Seq(STRING)]
    /\ Changes \in [Writes -> Tables]
    /\ Synced \subseteq Tables
    /\ Faults \subseteq {"redis", "call", "timeout", "stop"}
    /\ TTL \in Nat \ {0}
    /\ MaxVersion \in Nat

VARIABLES
    table,   \* per table of the services behind: its version
    cache,   \* Redis: per page, the stored response
    req,     \* per handler coroutine: the request it serves
    faulty   \* history: some change has not been followed by its invalidation

vars == <<table, cache, req, faulty>>

Versions == [Tables -> 0..MaxVersion]
Readings == [Tables -> 0..MaxVersion \cup {Missing}]
\* late is history: the tables that changed between their reading and the storing.
Entry == [seen : Readings, viewer : Clients \cup {Nobody}, ttl : 1..TTL, late : SUBSET Tables]
ASSUME NoEntryIsNone == NoEntry \notin Entry

-----------------------------------------------------------------------------
(* The tables of cache.py.                                                 *)

CacheablePrefixes == {<<"/threads">>, <<"/communities">>, <<"/users", "/">>}
NeverCache == {<<"/auth", "/">>, <<"/notifications">>, <<"/health">>, <<"/uploads", "/">>,
               <<"/communities", "/my">>, <<"/users", "/", "me/">>,
               <<"/users", "/", "mod/">>, <<"/users", "/", "admin/">>}
InvalidationPrefixes == {<<"/threads">>, <<"/comments">>, <<"/communities">>, <<"/users">>}

\* Mutant: a comment is not seen to change a page of threads.
OwnPrefixOnly(prefix) == <<prefix>>

\* INVALIDATION_MAP
InvalidationMap(prefix) ==
    IF prefix = <<"/comments">> THEN << <<"/threads">>, <<"/comments">> >> ELSE <<prefix>>

StartsWith(path, prefixes) == \E prefix \in prefixes : IsPrefix(prefix, path)
ShouldCache(p) == ~StartsWith(PathOf[p], NeverCache) /\ StartsWith(PathOf[p], CacheablePrefixes)

\* The patterns that a write has to clear; no two of the prefixes fit one path.
PatternsFor(path) ==
    IF StartsWith(path, InvalidationPrefixes)
    THEN InvalidationMap(CHOOSE prefix \in InvalidationPrefixes : IsPrefix(prefix, path))
    ELSE <<>>
Matching(pattern) == {p \in Pages : IsPrefix(pattern, PathOf[p])}

-----------------------------------------------------------------------------
Unread == [t \in Tables |-> 0]
Idle == [at |-> "idle", client |-> Nobody, page |-> "none", write |-> "none", seen |-> Unread,
         viewer |-> Nobody, todo |-> <<>>, patterns |-> <<>>, keys |-> {}, found |-> {}]
Request == [at : {"idle", "lookup", "fetch", "store", "forward", "scan", "answer"},
            client : Clients \cup {Nobody},
            page : Pages \cup {"none"},         \* of a GET
            write : Writes \cup {"none"},       \* of any other method
            seen : Readings,                   \* what the response shows
            viewer : Clients \cup {Nobody},    \* and whose it is
            todo : Seq(Tables),                \* tables the service has yet to read
            patterns : Seq(InvalidationPrefixes), \* patterns yet to be cleared
            keys : SUBSET Pages,               \* keys SCAN has yet to look at
            found : SUBSET Pages]              \* keys to delete

TypeOK ==
    /\ table \in Versions
    /\ cache \in [Pages -> Entry \cup {NoEntry}]
    /\ req \in [Workers -> Request]
    /\ faulty \in BOOLEAN

Goto(w, r, at) == req' = [req EXCEPT ![w] = [r EXCEPT !.at = at]]
Finish(w) == req' = [req EXCEPT ![w] = Idle]

\* A request that is refused before it reaches the cache is not started.
Get(w, c, p) ==
    /\ req[w].at = "idle"
    /\ Goto(w, [Idle EXCEPT !.client = c, !.page = p], "lookup")
    /\ UNCHANGED <<table, cache, faulty>>

Write(w, c, x) ==
    /\ req[w].at = "idle"
    /\ Goto(w, [Idle EXCEPT !.client = c, !.write = x], "forward")
    /\ UNCHANGED <<table, cache, faulty>>

-----------------------------------------------------------------------------
(* GET.                                                                    *)

Hit(r) == ShouldCache(r.page) /\ cache[r.page] # NoEntry

\* Mutant: a hit renews the entry.
LookupAndRenew(w) ==
    LET r == req[w] IN
    /\ r.at = "lookup"
    /\ IF Hit(r)
       THEN /\ cache' = [cache EXCEPT ![r.page].ttl = TTL]
            /\ Goto(w, [r EXCEPT !.seen = cache[r.page].seen,
                                 !.viewer = cache[r.page].viewer], "answer")
       ELSE /\ Goto(w, [r EXCEPT !.todo = Shows[r.page]], "fetch")
            /\ UNCHANGED cache
    /\ UNCHANGED <<table, faulty>>

\* get_cached: an error of Redis is a miss.
Lookup(w) ==
    LET r == req[w] IN
    /\ r.at = "lookup"
    /\ \/ /\ Hit(r)
          /\ Goto(w, [r EXCEPT !.seen = cache[r.page].seen,
                               !.viewer = cache[r.page].viewer], "answer")
       \/ /\ ~Hit(r) \/ "redis" \in Faults
          /\ Goto(w, [r EXCEPT !.todo = Shows[r.page]], "fetch")
    /\ UNCHANGED <<table, cache, faulty>>

\* The service behind reads its tables one after the other.
Read(w, version) ==
    LET r == req[w]
        r1 == [r EXCEPT !.seen[Head(r.todo)] = version, !.todo = Tail(@),
                        !.viewer = IF r.page \in Personal THEN r.client ELSE Nobody]
    IN
    /\ Goto(w, r1, IF r1.todo = <<>> THEN "store" ELSE "fetch")
    /\ UNCHANGED <<table, cache, faulty>>

Query(w) ==
    /\ req[w].at = "fetch"
    /\ Read(w, table[Head(req[w].todo)])

\* A call to another service that fails, times out or is refused is passed over:
\* the response is a success like any other, and shows no replies.
CallFails(w) ==
    /\ "call" \in Faults
    /\ req[w].at = "fetch"
    /\ Head(req[w].todo) \in Called[req[w].page]
    /\ Read(w, Missing)

\* An error of the service (status >= 400) is handed on and not stored, and a
\* timeout of the call ends the handler.
FetchFails(w) ==
    /\ req[w].at = "fetch"
    /\ Finish(w)
    /\ UNCHANGED <<table, cache, faulty>>

Late(r) == {t \in Range(Shows[r.page]) : r.seen[t] \notin {table[t], Missing}}

\* set_cached: SETEX, whatever is there by now; an error of Redis is ignored.
Store(w) ==
    LET r == req[w] IN
    /\ r.at = "store"
    /\ \/ /\ ShouldCache(r.page)
          /\ cache' = [cache EXCEPT ![r.page] = [seen |-> r.seen, viewer |-> r.viewer,
                                                 ttl |-> TTL, late |-> Late(r)]]
       \/ /\ ~ShouldCache(r.page) \/ "redis" \in Faults
          /\ UNCHANGED cache
    /\ Goto(w, r, "answer")
    /\ UNCHANGED <<table, faulty>>

-----------------------------------------------------------------------------
(* POST, PUT, PATCH and DELETE.                                            *)

\* invalidate_cache begins with the first pattern, or the next one.
Sweep(w, r, patterns) ==
    LET keys == IF patterns = <<>> THEN {} ELSE Matching(Head(patterns)) IN
    Goto(w, [r EXCEPT !.patterns = patterns, !.keys = keys, !.found = {}],
         IF patterns = <<>> THEN "answer" ELSE "scan")

Changed(t) == table[t] < MaxVersion /\ table' = [table EXCEPT ![t] = @ + 1]

\* The service applies the write or refuses it; the cache is cleared either way.
\* When the call times out it is not, whether or not the write was applied.
Forward(w) ==
    LET r == req[w] IN
    /\ r.at = "forward"
    /\ \/ /\ Changed(Changes[r.write]) \/ UNCHANGED table
          /\ Sweep(w, r, PatternsFor(WritePath[r.write]))
          /\ UNCHANGED faulty
       \/ /\ "timeout" \in Faults
          /\ \/ Changed(Changes[r.write]) /\ faulty' = TRUE
             \/ UNCHANGED <<table, faulty>>
          /\ Finish(w)
    /\ UNCHANGED cache

\* SCAN: a key that is there all the time is seen; any other one may be.
Inspect(w, p) ==
    LET r == req[w] IN
    /\ r.at = "scan"
    /\ p \in r.keys
    /\ Goto(w, [r EXCEPT !.keys = @ \ {p},
                         !.found = IF cache[p] # NoEntry THEN @ \cup {p} ELSE @], "scan")
    /\ UNCHANGED <<table, cache, faulty>>

\* DEL of the keys found; an error of Redis is ignored.
Delete(w) ==
    LET r == req[w] IN
    /\ r.at = "scan"
    /\ r.keys = {}
    /\ \/ /\ cache' = [p \in Pages |-> IF p \in r.found THEN NoEntry ELSE cache[p]]
          /\ UNCHANGED faulty
       \/ "redis" \in Faults /\ UNCHANGED cache /\ faulty' = TRUE
    /\ Sweep(w, r, Tail(r.patterns))
    /\ UNCHANGED table

Answer(w) ==
    /\ req[w].at = "answer"
    /\ Finish(w)
    /\ UNCHANGED <<table, cache, faulty>>

-----------------------------------------------------------------------------
\* Mutant: an entry is still served when its time is over.
TickTooLate ==
    /\ \E p \in Pages : cache[p] # NoEntry
    /\ cache' = [p \in Pages |-> IF cache[p] = NoEntry \/ cache[p].ttl = 0 THEN NoEntry
                                 ELSE [cache[p] EXCEPT !.ttl = @ - 1]]
    /\ UNCHANGED <<table, req, faulty>>

\* Time passes; Redis drops what has lived for TTL.
Tick ==
    /\ \E p \in Pages : cache[p] # NoEntry
    /\ cache' = [p \in Pages |-> IF cache[p] = NoEntry \/ cache[p].ttl = 1 THEN NoEntry
                                 ELSE [cache[p] EXCEPT !.ttl = @ - 1]]
    /\ UNCHANGED <<table, req, faulty>>

\* A consumer of user-events updates a service's copy of the accounts.
Sync(t) ==
    /\ t \in Synced
    /\ Changed(t)
    /\ UNCHANGED <<cache, req, faulty>>

\* The gateway stops and starts again; Redis keeps what it has.
Restart ==
    /\ "stop" \in Faults
    /\ \E w \in Workers : req[w].at # "idle"
    /\ req' = [w \in Workers |-> Idle]
    /\ faulty' = (faulty \/ \E w \in Workers : req[w].at = "scan")
    /\ UNCHANGED <<table, cache>>

-----------------------------------------------------------------------------
Init ==
    /\ table = Unread
    /\ cache = [p \in Pages |-> NoEntry]
    /\ req = [w \in Workers |-> Idle]
    /\ faulty = FALSE

\* A request that has begun, one step further.
Proceed(w) ==
    \/ Lookup(w)
    \/ Query(w)
    \/ CallFails(w)
    \/ FetchFails(w)
    \/ Store(w)
    \/ Forward(w)
    \/ \E p \in Pages : Inspect(w, p)
    \/ Delete(w)
    \/ Answer(w)

Next ==
    \/ \E w \in Workers, c \in Clients, p \in Pages : Get(w, c, p)
    \/ \E w \in Workers, c \in Clients, x \in Writes : Write(w, c, x)
    \/ \E w \in Workers : Proceed(w)
    \/ Tick
    \/ \E t \in Synced : Sync(t)
    \/ Restart

Spec == Init /\ [][Next]_vars

\* The event loop runs a handler whose call has returned, and time passes.
FairSpec == Spec /\ (\A w \in Workers : WF_vars(Proceed(w))) /\ WF_vars(Tick)

-----------------------------------------------------------------------------
\* What is left to worker w will remove the entry of page p.
WillRemove(w, p) ==
    LET r == req[w] IN
    /\ r.at = "scan"
    /\ \/ p \in r.keys \cup r.found
       \/ \E i \in 2..Len(r.patterns) : p \in Matching(r.patterns[i])

\* The invalidation misses nothing that it could know of: as long as no fault
\* has cut one short, a stored response is out of date in a table only if the table
\* changed between the reading and the storing (the fetch overlapped the change),
\* if the call for it failed, or if an invalidation now under way is going to
\* remove it.  So a client that sends one request after the other reads what it
\* wrote, unless a fetch by somebody else overlapped its write and was stored late,
\* or a fetch since was left without an answer.
StaleForCause ==
    ~faulty => \A p \in Pages : \A t \in Range(Shows[p]) \ Synced :
        cache[p] # NoEntry /\ cache[p].seen[t] # table[t]
            => \/ t \in cache[p].late
               \/ t \in Called[p] /\ cache[p].seen[t] = Missing
               \/ \E w \in Workers : WillRemove(w, p)

UpToDate(p) ==
    cache[p] # NoEntry => \A t \in Range(Shows[p]) : cache[p].seen[t] = table[t]

\* When changes have ended, what is stored ends up right, whatever has been lost:
\* an out-of-date response does not live on by being asked for, nor one that says 0
\* for want of an answer, unless such calls go on failing.
StaleEntriesExpire ==
    \/ []<><<\E w \in Workers : CallFails(w)>>_vars
    \/ <>[](\A p \in Pages : UpToDate(p))

====
