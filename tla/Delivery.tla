---- MODULE Delivery ----
(***************************************************************************)
(* The notification service: events in, stored and pushed notices out.     *)
(*                                                                         *)
(* One Kafka consumer takes the events of all topics.  It stores a notice  *)
(* and pushes it to the tabs of its addressee, and pushes a broadcast to   *)
(* every tab; POST /notifications/emit stores and pushes as well.  A push  *)
(* walks over the lists of sockets in ConnectionManager and awaits a send  *)
(* at each: tabs come, go and break, and other pushes clean up, between    *)
(* any two sends of a walk.                                                *)
(***************************************************************************)
EXTENDS Naturals, Sequences, FiniteSets

CONSTANTS
    Users,       \* people with an account
    NoUser,      \* nobody
    Everyone,    \* the event is a broadcast
    Nobody,      \* the event syncs an account or names no user_id
    Emitters,    \* coroutines of POST /notifications/emit
    Faults,      \* what may go wrong
    MaxLog,      \* bound: events published
    MaxSockets,  \* bound: tabs opened
    MaxRequests, \* bound: requests served
    MaxRestarts  \* bound: restarts of the service

AllFaults == {"db", "restart"}
Consumer == "consumer"
Tasks == Emitters \cup {Consumer}

ASSUME ConstantsOK ==
    /\ IsFiniteSet(Users)
    /\ NoUser \notin Users
    /\ Everyone \notin Users
    /\ Nobody \notin Users
    /\ Consumer \notin Emitters
    /\ Faults \subseteq AllFaults
    /\ MaxLog \in Nat
    /\ MaxSockets \in Nat
    /\ MaxRequests \in Nat
    /\ MaxRestarts \in Nat

Sockets == 1..MaxSockets

VARIABLES
    log,        \* the events, as the consumer's iterator hands them out
    pos,        \* the consumer's position
    committed,  \* the group's offset when the service last started
    task,       \* per coroutine: what it is doing
    notices,    \* the table notifications
    client,     \* per socket: whose it is, and the state of its connection
    listed,     \* active_connections: the sockets in the list of a user, which
                \* are in the order they came, that is, of their numbers
    stamp,      \* per user: the socket that made its entry, 0 without an entry;
                \* it tells the lists of a user apart, and orders the entries
    requests,   \* requests served so far
    restarts,   \* restarts so far
    lost,       \* history: positions of notices that a fault took away
    torn        \* history: users whose clean-up was cut short with no tab left

logVars == <<log, pos, committed, lost>>
registry == <<listed, stamp, torn>>
counters == <<requests, restarts>>
vars == <<log, pos, committed, task, notices, client, listed, stamp, requests,
          restarts, lost, torn>>

Task == [at : {"starting", "waiting", "save", "push", "send"},
         scope : {"one", "all"},     \* send_to_user or broadcast
         user : Users \cup {NoUser}, \* whose list it is on
         stamp : Nat,                \* which list of that user
         index : Nat,                \* the list iterator's
         size : Nat,                 \* the dict iterator's: entries at the start,
         left : Nat,                 \* and entries still to come
         sending : Sockets \cup {0}, \* the socket it awaits
         dead : Seq(Users \X Sockets), \* those that failed
         owed : SUBSET Sockets,      \* history: those of the start not served yet
         disturbed : BOOLEAN]        \* history: the registry lost what it walks on
Resting(at) == [at |-> at, scope |-> "one", user |-> NoUser, stamp |-> 0, index |-> 0,
                size |-> 0, left |-> 0, sending |-> 0, dead |-> <<>>, owed |-> {},
                disturbed |-> FALSE]
Gone == [user |-> NoUser, link |-> "gone"]
Notification == [user : Users, origin : Nat, read : BOOLEAN]
Client == [user : Users \cup {NoUser}, link : {"new", "open", "broken", "gone"}]

TypeOK ==
    /\ log \in Seq(Users \cup {Everyone, Nobody})
    /\ pos \in 0..Len(log)
    /\ committed \in 0..pos
    /\ task \in [Tasks -> Task]
    /\ notices \in Seq(Notification)
    /\ client \in [Sockets -> Client]
    /\ listed \in [Users -> SUBSET Sockets]
    /\ stamp \in [Users -> Sockets \cup {0}]
    /\ requests \in 0..MaxRequests
    /\ restarts \in 0..MaxRestarts
    /\ lost \subseteq 1..Len(log)
    /\ torn \subseteq Users

Publish(e) ==
    /\ Len(log) < MaxLog
    /\ log' = Append(log, e)
    /\ UNCHANGED <<pos, committed, lost, task, notices, client, registry, counters>>

-----------------------------------------------------------------------------
(* The registry of connections.                                            *)

Online == {u \in Users : stamp[u] # 0}

\* A push that is under way is disturbed when its user's list loses a socket, and
\* a broadcast also when an entry comes or goes.
Disturbs(w, l, st) ==
    /\ w.at = "send"
    /\ \/ w.scope = "all" /\ st # stamp
       \/ w.user \in Users /\ ~(listed[w.user] \subseteq l[w.user])
Felt(l, st) ==
    [t \in Tasks |-> [task[t] EXCEPT !.disturbed = @ \/ Disturbs(task[t], l, st)]]

\* Mutant: a tab that connects replaces the list of its user.
ConnectFresh(u, s) ==
    LET l == [listed EXCEPT ![u] = {s}]
        st == [stamp EXCEPT ![u] = IF @ = 0 THEN s ELSE @]
    IN
    /\ client[s].link = "new"
    /\ \A x \in Sockets : x < s => client[x].link # "new"
    /\ client' = [client EXCEPT ![s] = [user |-> u, link |-> "open"]]
    /\ listed' = l /\ stamp' = st /\ task' = Felt(l, st)
    /\ UNCHANGED <<logVars, notices, torn, counters>>

\* websocket_endpoint with a valid token, then ConnectionManager.connect.
Connect(u, s) ==
    LET l == [listed EXCEPT ![u] = @ \cup {s}]
        st == [stamp EXCEPT ![u] = IF @ = 0 THEN s ELSE @]
    IN
    /\ client[s].link = "new"
    /\ \A x \in Sockets : x < s => client[x].link # "new"
    /\ client' = [client EXCEPT ![s] = [user |-> u, link |-> "open"]]
    /\ listed' = l /\ stamp' = st /\ task' = Felt(l, st)
    /\ UNCHANGED <<logVars, notices, torn, counters>>

\* The other side has left; nobody here has noticed yet.
Break(s) ==
    /\ client[s].link = "open"
    /\ client' = [client EXCEPT ![s].link = "broken"]
    /\ UNCHANGED <<logVars, task, notices, registry, counters>>

\* Mutant: the last tab leaves the user's entry behind.
DisconnectKeepsEntry(s) ==
    LET u == client[s].user
        l == [listed EXCEPT ![u] = @ \ {s}]
    IN
    /\ client[s].link = "broken"
    /\ client' = [client EXCEPT ![s] = Gone]
    /\ listed' = l /\ stamp' = stamp /\ task' = Felt(l, stamp)
    /\ UNCHANGED <<logVars, notices, torn, counters>>

\* receive_text, or the ping after 30 s of silence, raises: disconnect.
Disconnect(s) ==
    LET u == client[s].user
        l == [listed EXCEPT ![u] = @ \ {s}]
        st == [stamp EXCEPT ![u] = IF l[u] = {} THEN 0 ELSE @]
    IN
    /\ client[s].link = "broken"
    /\ client' = [client EXCEPT ![s] = Gone]
    /\ listed' = l /\ stamp' = st /\ task' = Felt(l, st)
    /\ UNCHANGED <<logVars, notices, torn, counters>>

-----------------------------------------------------------------------------
(* A push.  Both loops iterate over the live lists, and broadcast over the *)
(* live dict, by position; the walk stands at an await ws.send_json.       *)

\* The list object the walk holds.  An entry is deleted only when its list is
\* empty, and a later entry of the user has another list.
ListOf(w) == IF w.user \in Users /\ stamp[w.user] = w.stamp THEN listed[w.user] ELSE {}
Nth(S, n) == {s \in S : Cardinality({x \in S : x <= s}) = n}

\* The entries behind the one the walk is on, how many there are up to that of u,
\* and the next one with a socket in it.
Later(w) == {u \in Online : stamp[u] > w.stamp}
Steps(w, u) == Cardinality({v \in Later(w) : stamp[v] <= stamp[u]})
NextEntry(w) == {u \in Later(w) : /\ listed[u] # {}
                                  /\ \A v \in Later(w) : stamp[v] < stamp[u] => listed[v] = {}
                                  /\ Steps(w, u) <= w.left}

\* The sends that may come next: the next socket of the list, or, for a broadcast
\* whose dict has the size it began with, the first one of the next entry.
Onward(w) ==
    IF w.index < Cardinality(ListOf(w))
    THEN {[w EXCEPT !.index = @ + 1, !.sending = s] : s \in Nth(ListOf(w), w.index + 1)}
    ELSE IF w.scope = "all" /\ w.size = Cardinality(Online)
    THEN UNION {{[w EXCEPT !.user = u, !.stamp = stamp[u], !.index = 1,
                           !.left = @ - Steps(w, u), !.sending = s] :
                    s \in Nth(listed[u], 1)} : u \in NextEntry(w)}
    ELSE {}

\* RuntimeError: dictionary changed size, or keys changed, during iteration.
Raises(w) ==
    /\ w.scope = "all"
    /\ w.size # Cardinality(Online) \/ Cardinality(Later(w)) > w.left

\* The loop that removes the dead sockets.  send_to_user removes from the user's
\* current list without looking; broadcast skips users without an entry, which
\* it may have deleted itself.  A remove that does not find its socket raises.
Misses(w, k) ==
    LET u == w.dead[k][1]
        before == {w.dead[j][2] : j \in 1..(k - 1)}
    IN
    /\ w.dead[k][2] \notin listed[u]
    /\ \/ w.scope = "one"
       \/ u \in Online /\ ~(listed[u] # {} /\ listed[u] \subseteq before)
CutShort(w) == \E k \in DOMAIN w.dead : Misses(w, k)
Cleared(w) == {w.dead[k][2] : k \in {i \in DOMAIN w.dead : \A j \in 1..i : ~Misses(w, j)}}

\* The end of send_to_user and of broadcast.
CleanUp(t, w) ==
    LET l == [u \in Users |-> listed[u] \ Cleared(w)]
        emptied == {u \in Online :
                      /\ l[u] = {}
                      /\ \/ w.scope = "all" /\ listed[u] # {}
                         \/ w.scope = "one" /\ u = w.user /\ ~CutShort(w)}
        st == [u \in Users |-> IF u \in emptied THEN 0 ELSE stamp[u]]
    IN
    /\ listed' = l /\ stamp' = st
    /\ torn' = torn \cup {u \in Online : /\ w.scope = "one" /\ u = w.user
                                         /\ CutShort(w) /\ l[u] = {}}
    /\ task' = [Felt(l, st) EXCEPT ![t] = Resting("waiting")]

\* From one await to the next.  Whatever is raised, the consumer logs it and
\* goes on with the next event, and the emitter answers 500.
Continue(t, w) ==
    \/ /\ \E v \in Onward(w) : task' = [task EXCEPT ![t] = v]
       /\ UNCHANGED registry
    \/ /\ Onward(w) = {} /\ Raises(w)
       /\ task' = [task EXCEPT ![t] = Resting("waiting")]
       /\ UNCHANGED registry
    \/ /\ Onward(w) = {} /\ ~Raises(w)
       /\ CleanUp(t, w)

\* Mutant: the first failure ends the loop.
SendOrStop(t) ==
    LET w == task[t] IN
    /\ w.at = "send"
    /\ \/ Continue(t, [w EXCEPT !.owed = @ \ {w.sending}])
       \/ /\ client[w.sending].link # "open"
          /\ CleanUp(t, [w EXCEPT !.dead = Append(@, <<w.user, w.sending>>)])
    /\ UNCHANGED <<logVars, notices, client, counters>>

\* Mutant: a send waits for the tab to take it.
SendAcknowledged(t) ==
    LET w == task[t] IN
    /\ w.at = "send"
    /\ client[w.sending].link = "open"
    /\ Continue(t, [w EXCEPT !.owed = @ \ {w.sending}])
    /\ UNCHANGED <<logVars, notices, client, counters>>

\* A send is over.  What goes to a tab that is still there arrives; a send to one
\* that left may fail, or may not have noticed.
SendDone(t) ==
    LET w == task[t] IN
    /\ w.at = "send"
    /\ \/ Continue(t, [w EXCEPT !.owed = @ \ {w.sending}])
       \/ /\ client[w.sending].link # "open"
          /\ Continue(t, [w EXCEPT !.dead = Append(@, <<w.user, w.sending>>)])
    /\ UNCHANGED <<logVars, notices, client, counters>>

BroadcastWalk ==
    [Resting("send") EXCEPT !.scope = "all", !.size = Cardinality(Online),
                            !.left = Cardinality(Online), !.owed = UNION {listed[u] : u \in Users}]
PersonalWalk(u) ==
    [Resting("send") EXCEPT !.user = u, !.stamp = stamp[u], !.owed = listed[u]]

\* send_to_user, up to its first await.
Push(t) ==
    LET u == task[t].user IN
    /\ task[t].at = "push"
    /\ \/ /\ u \notin Online
          /\ task' = [task EXCEPT ![t] = Resting("waiting")]
          /\ UNCHANGED registry
       \/ u \in Online /\ Continue(t, PersonalWalk(u))
    /\ UNCHANGED <<logVars, notices, client, counters>>

-----------------------------------------------------------------------------
(* Notices.                                                                *)

Unread(u, origin) == [user |-> u, origin |-> origin, read |-> FALSE]

\* consumer.start() got through to Kafka.
Start ==
    /\ task[Consumer].at = "starting"
    /\ task' = [task EXCEPT ![Consumer] = Resting("waiting")]
    /\ UNCHANGED <<logVars, notices, client, registry, counters>>

\* The consumer's iterator hands out an event; a broadcast begins at once, and
\* an account event or one without user_id leaves nothing to do here.
Fetch ==
    /\ task[Consumer].at = "waiting"
    /\ pos < Len(log)
    /\ pos' = pos + 1
    /\ \/ /\ log[pos'] \in Users
          /\ task' = [task EXCEPT ![Consumer] = [Resting("save") EXCEPT !.user = log[pos']]]
          /\ UNCHANGED registry
       \/ /\ log[pos'] = Nobody
          /\ UNCHANGED <<task, registry>>
       \/ /\ log[pos'] = Everyone
          /\ Continue(Consumer, BroadcastWalk)
    /\ UNCHANGED <<log, committed, lost, notices, client, counters>>

\* Mutants: a failure after the commit is retried; only those online are notified.
SaveTwice ==
    LET w == task[Consumer] IN
    /\ w.at = "save"
    /\ notices' = Append(notices, Unread(w.user, pos))
    /\ \/ task' = [task EXCEPT ![Consumer].at = "push"]
       \/ "db" \in Faults /\ task' = task
    /\ lost' = lost
    /\ UNCHANGED <<log, pos, committed, client, registry, counters>>
SaveForOnline ==
    LET w == task[Consumer] IN
    /\ w.at = "save"
    /\ notices' = IF w.user \in Online THEN Append(notices, Unread(w.user, pos)) ELSE notices
    /\ task' = [task EXCEPT ![Consumer].at = "push"]
    /\ lost' = lost
    /\ UNCHANGED <<log, pos, committed, client, registry, counters>>

\* Insert, commit and refresh.  A failed commit is logged and the notice is gone;
\* a failed refresh costs it the push.
Save ==
    LET w == task[Consumer] IN
    /\ w.at = "save"
    /\ \/ /\ notices' = Append(notices, Unread(w.user, pos))
          /\ \/ task' = [task EXCEPT ![Consumer].at = "push"]
             \/ "db" \in Faults /\ task' = [task EXCEPT ![Consumer] = Resting("waiting")]
          /\ lost' = lost
       \/ /\ "db" \in Faults
          /\ lost' = lost \cup {pos}
          /\ task' = [task EXCEPT ![Consumer] = Resting("waiting")]
          /\ notices' = notices
    /\ UNCHANGED <<log, pos, committed, client, registry, counters>>

Serve == requests < MaxRequests /\ requests' = requests + 1

\* emit_notification, up to its call of send_to_user.
Emit(t, u) ==
    /\ task[t].at = "waiting"
    /\ Serve
    /\ notices' = Append(notices, Unread(u, 0))
    /\ task' = [task EXCEPT ![t] = [Resting("push") EXCEPT !.user = u]]
    /\ UNCHANGED <<logVars, client, registry, restarts>>

AsRead(S) == [k \in DOMAIN notices |-> IF k \in S THEN [notices[k] EXCEPT !.read = TRUE]
                                                  ELSE notices[k]]

\* The handler loads a row and commits one column; nothing else writes that row
\* but handlers that set the same column to the same value.
MarkRead(u, k) ==
    /\ Serve
    /\ k \in DOMAIN notices
    /\ notices[k].user = u
    /\ notices' = AsRead({k})
    /\ UNCHANGED <<logVars, task, client, registry, restarts>>

\* Mutant: the bulk update forgets whose rows it is about.
MarkEveryonesRead(u) ==
    /\ Serve
    /\ notices' = AsRead(DOMAIN notices)
    /\ UNCHANGED <<logVars, task, client, registry, restarts>>

MarkAllRead(u) ==
    /\ Serve
    /\ notices' = AsRead({k \in DOMAIN notices : notices[k].user = u})
    /\ UNCHANGED <<logVars, task, client, registry, restarts>>

\* Mutant: the committed offset is one too far.
RestartBeyond ==
    /\ "restart" \in Faults
    /\ restarts < MaxRestarts
    /\ restarts' = restarts + 1
    /\ committed' \in committed..(pos + 1)
    /\ pos' = committed'
    /\ lost' = lost
    /\ task' = [t \in Tasks |-> Resting(IF t = Consumer THEN "starting" ELSE "waiting")]
    /\ client' = [s \in Sockets |-> IF client[s].link = "new" THEN client[s] ELSE Gone]
    /\ listed' = [u \in Users |-> {}]
    /\ stamp' = [u \in Users |-> 0]
    /\ torn' = {}
    /\ UNCHANGED <<log, notices, requests>>

\* The process stops, at any await, and starts again.  The group's offset is
\* somewhere between where it was and the position, which counts an event
\* that is still being processed; every connection is gone.
Restart ==
    /\ "restart" \in Faults
    /\ restarts < MaxRestarts
    /\ restarts' = restarts + 1
    /\ committed' \in committed..pos
    /\ pos' = committed'
    /\ lost' = IF task[Consumer].at = "save" /\ pos' = pos THEN lost \cup {pos} ELSE lost
    /\ task' = [t \in Tasks |-> Resting(IF t = Consumer THEN "starting" ELSE "waiting")]
    /\ client' = [s \in Sockets |-> IF client[s].link = "new" THEN client[s] ELSE Gone]
    /\ listed' = [u \in Users |-> {}]
    /\ stamp' = [u \in Users |-> 0]
    /\ torn' = {}
    /\ UNCHANGED <<log, notices, requests>>

-----------------------------------------------------------------------------
Init ==
    /\ log = <<>>
    /\ pos = 0
    /\ committed = 0
    /\ task = [t \in Tasks |-> Resting(IF t = Consumer THEN "starting" ELSE "waiting")]
    /\ notices = <<>>
    /\ client = [s \in Sockets |-> [user |-> NoUser, link |-> "new"]]
    /\ listed = [u \in Users |-> {}]
    /\ stamp = [u \in Users |-> 0]
    /\ requests = 0
    /\ restarts = 0
    /\ lost = {}
    /\ torn = {}

Proceed(t) == Push(t) \/ SendDone(t)
Consume == Start \/ Fetch \/ Save \/ Proceed(Consumer)

Next ==
    \/ \E e \in Users \cup {Everyone, Nobody} : Publish(e)
    \/ \E u \in Users, s \in Sockets : Connect(u, s)
    \/ \E s \in Sockets : Break(s) \/ Disconnect(s)
    \/ Consume
    \/ \E t \in Emitters : Proceed(t) \/ \E u \in Users : Emit(t, u)
    \/ \E u \in Users : MarkAllRead(u) \/ \E k \in DOMAIN notices : MarkRead(u, k)
    \/ Restart

Spec == Init /\ [][Next]_vars

\* The consumer's loop goes on: Kafka answers in the end, and so does every send,
\* which the code gives all the time it wants.
FairSpec == Spec /\ WF_vars(Consume)

-----------------------------------------------------------------------------
(* What the registry is worth.                                             *)

\* Whatever walks, clean-ups, connects and disconnects overlap, a tab that is
\* there is in its user's list, so that the next push finds it, and a tab that
\* was seen to leave is in nobody's.
RegistryIsTrue ==
    \A s \in Sockets :
        /\ client[s].link = "open" => s \in listed[client[s].user]
        /\ \A u \in Users : s \in listed[u] =>
              client[s].user = u /\ client[s].link \in {"open", "broken"} /\ u \in Online

\* The keys of active_connections are "which users are currently online": an
\* entry without a tab is the remnant of a send_to_user whose clean-up met a
\* socket that disconnect had removed before it.
GhostsAreTorn == \A u \in Online : listed[u] = {} => u \in torn

\* A tab that fails costs no other tab its message: when a push ends, each tab that
\* was listed when it began, and still is, was sent the message, unless the dict
\* or the list under the walk was changed by somebody else meanwhile.
EveryoneHears ==
    [][\A t \in Tasks :
          /\ task[t].at = "send" /\ task'[t].at # "send" /\ restarts' = restarts
          /\ ~task[t].disturbed
          => \A s \in task[t].owed \ {task[t].sending} :
                client[s].link = "open" => \A u \in Users : s \notin listed[u]]_vars

(* What the notices are worth.                                             *)

\* How far the consumer is done, but for the pushes.
Handled == IF task[Consumer].at = "save" THEN pos - 1 ELSE pos

\* At least once has a bound: a notice is stored at most once per run of the
\* service, whatever fails between the commit and the push.
OncePerRun ==
    \A i \in 1..Len(log) :
        Cardinality({k \in DOMAIN notices : notices[k].origin = i}) <= restarts + 1

\* The service as the publishers and the people notified see it.
Seen == INSTANCE Inbox WITH Others <- {Everyone, Nobody}, upto <- Handled,
                            table <- notices

\* A notice that was passed over is stored for its addressee or on record as lost.
NothingSkipped == Seen!Kept

\* Behind coroutines, sockets and offsets, the service does what Inbox says: each
\* step is one of its steps or leaves what it shows alone, and the log is taken
\* to its end.
RefinesInbox == Seen!FairSpec

\* Again and again no notice is outstanding: each one that is published is stored,
\* or lost to a named fault, and no socket that fails, no exception in a walk and
\* no restart keeps the consumer from it.
NoticesArrive ==
    []<>(\A i \in 1..Len(log) :
            \/ log[i] \notin Users
            \/ i \in lost
            \/ \E k \in DOMAIN notices : notices[k].origin = i)

====
