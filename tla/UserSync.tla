---- MODULE UserSync ----
(***************************************************************************)
(* Accounts of the user service and their copies in the other services.    *)
(*                                                                         *)
(* The user service owns the table of accounts.  Each of its handlers is a *)
(* coroutine: it loads a row into its SQLAlchemy session, changes some     *)
(* attributes, commits, sometimes refreshes, and only then publishes a     *)
(* snapshot of the whole row on the topic user-events.  Other handlers run *)
(* between those awaits.  The thread, comment, community and notification  *)
(* services each keep a copy of the table, written by one Kafka consumer.  *)
(***************************************************************************)
EXTENDS Naturals, Sequences

CONSTANTS
    Services,     \* the services that keep a copy of the accounts
    Resilient,    \* those whose consumer survives a failing event
    Workers,      \* handler coroutines of the user service
    Names,        \* username and email, taken together
    BootName,     \* BOOTSTRAP_ADMIN_USERNAME
    Roles,        \* VALID_ROLES
    Avatars,      \* values of the column avatar
    NoAvatar,     \* its NULL
    NoRow,        \* no row with this id
    Handlers,     \* the handlers that clients call
    Faults,       \* what may go wrong
    MaxUser,      \* bound: account ids handed out
    MaxRequests,  \* bound: requests started
    MaxRestarts   \* bound: restarts of any service

AllHandlers == {"register", "profile", "upload", "role", "status", "delete", "init_admin"}
AllFaults == {"lose", "restart", "crash"}
Row == [name : Names, role : Roles, avatar : Avatars, active : BOOLEAN]

ASSUME ConstantsOK ==
    /\ Resilient \subseteq Services
    /\ BootName \in Names
    /\ {"member", "admin"} \subseteq Roles
    /\ NoAvatar \in Avatars
    /\ NoRow \notin Row
    /\ Handlers \subseteq AllHandlers
    /\ Faults \subseteq AllFaults
    /\ MaxUser \in Nat \ {0}
    /\ MaxRequests \in Nat
    /\ MaxRestarts \in Nat

Ids == 1..MaxUser

VARIABLES
    users,      \* the table users of the user service
    nextId,     \* its id sequence, which never goes back
    req,        \* per handler coroutine: the request it serves
    producerUp, \* whether KafkaProducerWrapper.start succeeded
    log,        \* the topic user-events
    notices,    \* what POST /notifications/emit was asked to tell whom
    copy,       \* per service: its table users
    sub,        \* per service: its consumer
    started,    \* requests started so far
    restarts,   \* restarts so far
    seen,       \* history: every value each row of users has had
    skipped     \* history: the events that a service was never to take any more

dbVars == <<users, nextId, seen>>
apiVars == <<req, producerUp, notices, started>>
consumerVars == <<copy, sub, skipped>>
vars == <<users, nextId, req, producerUp, log, notices, copy, sub, started, restarts, seen,
          skipped>>

Columns == {"role", "avatar", "active"}
Idle == [op |-> "none", at |-> "idle", actor |-> 0, id |-> 0, row |-> NoRow,
         dirty |-> {}, old |-> "none"]
Request == [op : AllHandlers \cup {"none"},
            at : {"idle", "insert", "load", "commit", "refresh", "broadcast",
                  "send", "notice"},
            actor : Ids \cup {0},
            id : Ids \cup {0},
            row : Row \cup {NoRow},    \* the ORM object in the session
            dirty : SUBSET Columns,    \* its modified attributes
            old : Roles \cup {"none"}]  \* old_role, as update_user_role loaded it
Event == [type : {"user_created", "user_updated", "avatar_update"}, id : Ids, row : Row]
Notice == [type : {"role_change", "account_status", "account_deleted"}, id : Ids]
Consumer == [up : BOOLEAN, pos : Nat, busy : BOOLEAN, committed : Nat]

TypeOK ==
    /\ users \in [Ids -> Row \cup {NoRow}]
    /\ nextId \in 1..(MaxUser + 1)
    /\ req \in [Workers -> Request]
    /\ producerUp \in BOOLEAN
    /\ log \in Seq(Event)
    /\ notices \in SUBSET Notice
    /\ copy \in [Services -> [Ids -> Row \cup {NoRow}]]
    /\ sub \in [Services -> Consumer]
    /\ started \in 0..MaxRequests
    /\ restarts \in 0..MaxRestarts
    /\ seen \in [Ids -> SUBSET Row]
    /\ skipped \in [Services -> SUBSET (1..Len(log))]

-----------------------------------------------------------------------------
(* The database of the user service.                                       *)

NewRow(n) == [name |-> n, role |-> "member", avatar |-> NoAvatar, active |-> TRUE]
BootRow == [NewRow(BootName) EXCEPT !.role = "admin"]
Exists(u) == users[u] # NoRow
Taken(n) == \E u \in Ids : Exists(u) /\ users[u].name = n

\* Mutants: the assignment is never saved; a save writes the object's every column.
AssignedUnsaved(r, column, row) == [r EXCEPT !.row = row, !.dirty = {}]
FlushedWholeRow(r) == r.row

\* Assigning an attribute marks it modified only if its value differs from the
\* one loaded; a commit writes the modified columns and no others.
Assigned(r, column, row) ==
    [r EXCEPT !.row = row, !.dirty = IF row = r.row THEN {} ELSE {column}]
Flushed(r) ==
    LET old == users[r.id] IN
    [name   |-> old.name,
     role   |-> IF "role" \in r.dirty THEN r.row.role ELSE old.role,
     avatar |-> IF "avatar" \in r.dirty THEN r.row.avatar ELSE old.avatar,
     active |-> IF "active" \in r.dirty THEN r.row.active ELSE old.active]

WriteRow(u, row) ==
    /\ users' = [users EXCEPT ![u] = row]
    /\ seen' = [seen EXCEPT ![u] = @ \cup {row}]

InsertRow(row) ==
    /\ nextId <= MaxUser
    /\ WriteRow(nextId, row)
    /\ nextId' = nextId + 1

-----------------------------------------------------------------------------
(* Handlers.  A request that is refused without a change of state (bad     *)
(* credentials, unknown target, duplicate name) is not started at all.     *)

Begin(w, op) ==
    /\ op \in Handlers
    /\ req[w].at = "idle"
    /\ started < MaxRequests
    /\ started' = started + 1
    /\ UNCHANGED <<dbVars, producerUp, log, notices, consumerVars, restarts>>

Goto(w, r, at) == req' = [req EXCEPT ![w] = [r EXCEPT !.at = at]]
Finish(w) == req' = [req EXCEPT ![w] = Idle]

\* create_user: no row has this name or email yet.
RegisterCheck(w, n) ==
    /\ Begin(w, "register")
    /\ ~Taken(n)
    /\ Goto(w, [Idle EXCEPT !.op = "register", !.row = NewRow(n)], "insert")

\* create_user: the insert; the unique constraints are checked again by the
\* database, and an id is used up either way.
RegisterInsert(w) ==
    LET r == req[w] IN
    /\ r.at = "insert"
    /\ IF Taken(r.row.name)
       THEN /\ nextId <= MaxUser
            /\ nextId' = nextId + 1
            /\ Finish(w)
            /\ UNCHANGED <<users, seen>>
       ELSE /\ InsertRow(r.row)
            /\ Goto(w, [r EXCEPT !.id = nextId], "refresh")
    /\ UNCHANGED <<producerUp, log, notices, consumerVars, started, restarts>>

\* get_current_user, then ensure_role for the handlers of an admin.  The row of
\* the caller stays in the session: a handler that changes the caller's own
\* account works on it.
Authenticate(w, op, a, u) ==
    /\ Begin(w, op)
    /\ Exists(a) /\ users[a].active
    /\ Exists(u)
    /\ \/ op \in {"role", "status", "delete"} /\ users[a].role = "admin"
       \/ op \in {"profile", "upload", "init_admin"} /\ u = a
    /\ op \in {"status", "delete"} => u # a
    /\ Goto(w, [Idle EXCEPT !.op = op, !.actor = a, !.id = u, !.row = users[a]], "load")

\* The handler's own query for the target, and its assignments to the object.
\* Any avatar may be set: a profile names one, an upload makes a new file.
Load(w) ==
    LET r == req[w]
        r0 == IF r.id = r.actor THEN r ELSE [r EXCEPT !.row = users[r.id]]
    IN
    /\ r.at = "load"
    /\ \/ /\ r.op \in {"role", "status", "delete"} /\ ~Exists(r.id)
          /\ Finish(w)
       \/ /\ r.op = "role" /\ Exists(r.id)
          /\ \E role \in Roles :
               Goto(w, [Assigned(r0, "role", [r0.row EXCEPT !.role = role])
                          EXCEPT !.old = r0.row.role], "commit")
       \/ /\ r.op = "status" /\ Exists(r.id)
          /\ \E b \in BOOLEAN :
               Goto(w, Assigned(r0, "active", [r0.row EXCEPT !.active = b]), "commit")
       \/ /\ r.op = "delete" /\ Exists(r.id)
          /\ Goto(w, r0, "notice")
       \/ /\ r.op \in {"profile", "upload"}
          /\ \E a \in Avatars :
               /\ r.op = "upload" => a \notin {NoAvatar, r.row.avatar}
               /\ Goto(w, Assigned(r, "avatar", [r.row EXCEPT !.avatar = a]), "commit")
       \/ /\ r.op = "init_admin"
          /\ IF \E u \in Ids : Exists(u) /\ users[u].role = "admin"
             THEN Finish(w)
             ELSE Goto(w, Assigned(r, "role", [r.row EXCEPT !.role = "admin"]), "commit")
    /\ UNCHANGED <<dbVars, producerUp, log, notices, consumerVars, started, restarts>>

\* await db.commit().  An UPDATE that matches no row is an error; a DELETE that
\* matches none is not.
Commit(w) ==
    LET r == req[w] IN
    /\ r.at = "commit"
    /\ IF r.op = "delete"
       THEN /\ users' = [users EXCEPT ![r.id] = NoRow]
            /\ Finish(w)
            /\ UNCHANGED seen
       ELSE IF r.dirty # {} /\ ~Exists(r.id)
       THEN Finish(w) /\ UNCHANGED <<users, seen>>
       ELSE /\ IF r.dirty = {} THEN UNCHANGED <<users, seen>>
                               ELSE WriteRow(r.id, Flushed(r))
            /\ Goto(w, r, IF r.op = "status" THEN "send" ELSE "refresh")
    /\ UNCHANGED <<nextId, producerUp, log, notices, consumerVars, started, restarts>>

\* Mutant: the handler goes on although the row is gone.
RefreshUnchecked(w) ==
    LET r == req[w] IN
    /\ r.at = "refresh"
    /\ IF r.op = "init_admin"
       THEN Finish(w)
       ELSE Goto(w, [r EXCEPT !.row = users[r.id], !.dirty = {}],
                 IF r.op = "upload" THEN "broadcast" ELSE "send")
    /\ UNCHANGED <<dbVars, producerUp, log, notices, consumerVars, started, restarts>>

\* await db.refresh(): reloads the row, and fails if it is gone.
Refresh(w) ==
    LET r == req[w] IN
    /\ r.at = "refresh"
    /\ IF ~Exists(r.id) \/ r.op = "init_admin"
       THEN Finish(w)
       ELSE Goto(w, [r EXCEPT !.row = users[r.id], !.dirty = {}],
                 IF r.op = "upload" THEN "broadcast" ELSE "send")
    /\ UNCHANGED <<dbVars, producerUp, log, notices, consumerVars, started, restarts>>

\* KafkaProducerWrapper.send: it never fails for its caller, and drops the event
\* when the producer did not start or the broker does not take it.
Publish(type, r) ==
    \/ /\ producerUp
       /\ log' = Append(log, [type |-> type, id |-> r.id, row |-> r.row])
    \/ /\ ~producerUp \/ "lose" \in Faults
       /\ log' = log

Broadcast(w) ==
    LET r == req[w] IN
    /\ r.at = "broadcast"
    /\ Publish("avatar_update", r)
    /\ Goto(w, r, "send")
    /\ UNCHANGED <<dbVars, producerUp, notices, consumerVars, started, restarts>>

\* The target hears of a status set, and of a role that the refreshed row shows
\* to be another one than before, unless it made the change itself.
HearsOf(r) ==
    \/ r.op = "status"
    \/ r.op = "role" /\ r.id # r.actor /\ r.row.role # r.old

Send(w) ==
    LET r == req[w] IN
    /\ r.at = "send"
    /\ Publish(IF r.op = "register" THEN "user_created" ELSE "user_updated", r)
    /\ IF HearsOf(r) THEN Goto(w, r, "notice") ELSE Finish(w)
    /\ UNCHANGED <<dbVars, producerUp, notices, consumerVars, started, restarts>>

\* POST /notifications/emit; every exception is swallowed.
NoticeType(op) ==
    CASE op = "role" -> "role_change"
      [] op = "status" -> "account_status"
      [] OTHER -> "account_deleted"
\* Mutant: the handler of a deletion returns after the notice.
EmitAndReturn(w) ==
    LET r == req[w] IN
    /\ r.at = "notice"
    /\ notices' = notices \cup {[type |-> NoticeType(r.op), id |-> r.id]}
    /\ Finish(w)
    /\ UNCHANGED <<dbVars, producerUp, log, consumerVars, started, restarts>>

Emit(w) ==
    LET r == req[w] IN
    /\ r.at = "notice"
    /\ \/ notices' = notices \cup {[type |-> NoticeType(r.op), id |-> r.id]}
       \/ "lose" \in Faults /\ UNCHANGED notices
    /\ IF r.op = "delete" THEN Goto(w, r, "commit") ELSE Finish(w)
    /\ UNCHANGED <<dbVars, producerUp, log, consumerVars, started, restarts>>

\* The process of the user service stops and starts again: what its handlers were
\* doing is gone, the producer may fail to start, the bootstrap admin is put
\* back if its name is free, and nothing is published about it.
RestartUserService ==
    /\ "restart" \in Faults
    /\ restarts < MaxRestarts
    /\ restarts' = restarts + 1
    /\ req' = [w \in Workers |-> Idle]
    /\ producerUp' \in IF "lose" \in Faults THEN BOOLEAN ELSE {TRUE}
    /\ IF Taken(BootName) THEN UNCHANGED dbVars ELSE InsertRow(BootRow)
    /\ UNCHANGED <<log, notices, consumerVars, started>>

-----------------------------------------------------------------------------
(* Consumers of user-events, one per service that keeps a copy.            *)

\* What the loop body does not pass over at once.
Synced(e) == e.type \in {"user_created", "user_updated"}

\* Mutants: user_updated is not consumed; user_created inserts nothing.
UpsertsCreated(table, e) == e.type = "user_created"
UpsertsExisting(table, e) ==
    Synced(e) /\ table[e.id] # NoRow

\* Whether an event writes to a table of copies: every synced event overwrites
\* a row that is there, and only user_created makes one.
Upserts(table, e) ==
    \/ e.type = "user_created"
    \/ e.type = "user_updated" /\ table[e.id] # NoRow
\* The unique constraint on the copied username and email.
Clashes(table, e) ==
    \E u \in Ids \ {e.id} : table[u] # NoRow /\ table[u].name = e.row.name
\* The notification service leaves the avatar out when it inserts.
Stored(s, table, e) ==
    IF table[e.id] = NoRow /\ s \in Resilient
    THEN [e.row EXCEPT !.avatar = NoAvatar]
    ELSE e.row
AfterEvent(s, table, e) ==
    IF Upserts(table, e) /\ ~Clashes(table, e)
    THEN [table EXCEPT ![e.id] = Stored(s, table, e)]
    ELSE table

\* The consumer's iterator hands out the next event and moves its position.
Fetch(s) ==
    /\ sub[s].up /\ ~sub[s].busy
    /\ sub[s].pos < Len(log)
    /\ sub' = [sub EXCEPT ![s].pos = @ + 1, ![s].busy = TRUE]
    /\ UNCHANGED <<dbVars, apiVars, log, copy, skipped, restarts>>

\* The loop body: select, then update or insert, then commit.  A clash raises;
\* without a try in the loop the task ends, and consumer.stop() may commit
\* the position on the way out.
Apply(s) ==
    LET e == log[sub[s].pos]
        fails == Upserts(copy[s], e) /\ Clashes(copy[s], e)
    IN
    /\ sub[s].up /\ sub[s].busy
    /\ copy' = [copy EXCEPT ![s] = AfterEvent(s, @, e)]
    /\ \/ /\ ~fails \/ s \in Resilient
          /\ sub' = [sub EXCEPT ![s].busy = FALSE]
       \/ /\ fails /\ s \notin Resilient
          /\ \E c \in {sub[s].committed, sub[s].pos} :
               sub' = [sub EXCEPT ![s].busy = FALSE, ![s].up = FALSE, ![s].committed = c]
    /\ UNCHANGED <<dbVars, apiVars, log, skipped, restarts>>

\* The commit of the consumer group's offset, by the client library: every few seconds, and
\* in consumer.stop() when the task is cancelled.  What it commits is the position,
\* which counts the event that the loop body may still be at.
AutoCommit(s) ==
    /\ "crash" \in Faults
    /\ sub[s].up
    /\ sub[s].committed < sub[s].pos
    /\ sub' = [sub EXCEPT ![s].committed = sub[s].pos]
    /\ UNCHANGED <<dbVars, apiVars, log, copy, skipped, restarts>>

\* Mutant: the group starts at the end of the topic (auto_offset_reset="latest").
RestartAtEnd(s) ==
    /\ "crash" \in Faults
    /\ restarts < MaxRestarts
    /\ restarts' = restarts + 1
    /\ sub' = [sub EXCEPT ![s] = [up |-> TRUE, pos |-> Len(log), busy |-> FALSE,
                                  committed |-> sub[s].committed]]
    /\ UNCHANGED <<dbVars, apiVars, log, copy, skipped>>

\* The event that a service is at, and that a restart now would take from it for good.
AtRisk(s) ==
    IF sub[s].busy /\ sub[s].committed = sub[s].pos /\ Synced(log[sub[s].pos])
    THEN {sub[s].pos} ELSE {}

\* The process of a service stops and starts again; the group resumes from the
\* committed offset.
RestartConsumer(s) ==
    /\ "crash" \in Faults
    /\ restarts < MaxRestarts
    /\ restarts' = restarts + 1
    /\ sub' = [sub EXCEPT ![s] = [up |-> TRUE, pos |-> sub[s].committed, busy |-> FALSE,
                                  committed |-> sub[s].committed]]
    /\ skipped' = [skipped EXCEPT ![s] = @ \cup AtRisk(s)]
    /\ UNCHANGED <<dbVars, apiVars, log, copy>>

-----------------------------------------------------------------------------
\* create_bootstrap_admin has run against an empty database.
Init ==
    /\ users = [u \in Ids |-> IF u = 1 THEN BootRow ELSE NoRow]
    /\ nextId = 2
    /\ req = [w \in Workers |-> Idle]
    /\ producerUp = TRUE
    /\ log = <<>>
    /\ notices = {}
    /\ copy = [s \in Services |-> [u \in Ids |-> NoRow]]
    /\ sub = [s \in Services |-> [up |-> TRUE, pos |-> 0, busy |-> FALSE, committed |-> 0]]
    /\ started = 0
    /\ restarts = 0
    /\ seen = [u \in Ids |-> IF u = 1 THEN {BootRow} ELSE {}]
    /\ skipped = [s \in Services |-> {}]

\* A request that has begun, one step further.
Proceed(w) ==
    \/ RegisterInsert(w)
    \/ Load(w)
    \/ Commit(w)
    \/ Refresh(w)
    \/ Broadcast(w)
    \/ Send(w)
    \/ Emit(w)

Consume(s) == Fetch(s) \/ Apply(s)

Next ==
    \/ \E w \in Workers, n \in Names : RegisterCheck(w, n)
    \/ \E w \in Workers, op \in Handlers, a, u \in Ids : Authenticate(w, op, a, u)
    \/ \E w \in Workers : Proceed(w)
    \/ RestartUserService
    \/ \E s \in Services : Consume(s) \/ AutoCommit(s) \/ RestartConsumer(s)

Spec == Init /\ [][Next]_vars

\* The event loops keep running: a coroutine that can take its next step does,
\* and so does a consumer.
Fairness ==
    /\ \A w \in Workers : WF_vars(Proceed(w))
    /\ \A s \in Services : WF_vars(Consume(s))
FairSpec == Spec /\ Fairness

-----------------------------------------------------------------------------
(* What the copies are worth.                                              *)

\* The row's columns, one by one, occur in rows of the set S.
Witnessed(S, row) ==
    /\ \E r \in S : row.name = r.name
    /\ \E r \in S : row.role = r.role
    /\ \E r \in S : row.avatar = r.avatar
    /\ \E r \in S : row.active = r.active

\* No service ever believes something of an account that the user service never
\* recorded: whatever the interleaving of handlers (a stale session object
\* included), losses, restarts and redeliveries, each column of a copy once was
\* that column of the same account in the user service's table.
CopiesWereAuthoritative ==
    \A s \in Services, u \in Ids : copy[s][u] # NoRow => Witnessed(seen[u], copy[s][u])

Quiet == \A w \in Workers : req[w].at = "idle"
CaughtUp(s) == sub[s].up /\ ~sub[s].busy /\ sub[s].pos = Len(log)

\* The table a consumer would build from the first n events, each taken once.
Replayed(s, n) ==
    LET table[k \in 0..n] == IF k = 0 THEN [u \in Ids |-> NoRow]
                             ELSE AfterEvent(s, table[k - 1], log[k])
    IN table[n]

\* No event that the service skipped bears the name of account u.
Spared(s, u) == \A i \in skipped[s], r \in seen[u] : log[i].row.name # r.name

\* Offsets are committed without regard to the loop body, which bears to take events
\* again: after restarts that replay events, and after the deaths of the consumer, a
\* consumer that has caught up holds what one pass over the whole topic would have built,
\* but for the accounts of the name in an event that was committed before it was
\* taken.  (Not so for the avatar in the notification service, which ignores it
\* when it inserts a row and takes it when the same event comes again.)
CaughtUpIsReplay ==
    \A s \in Services \ Resilient, u \in Ids :
        CaughtUp(s) /\ Spared(s, u) => copy[s][u] = Replayed(s, Len(log))[u]

\* The last event on the topic about account u that is not just an avatar's.
LastOf(u, i) ==
    /\ i \in 1..Len(log) /\ log[i].id = u /\ Synced(log[i])
    /\ \A j \in (i + 1)..Len(log) : ~(log[j].id = u /\ Synced(log[j]))

\* A consumer that has caught up holds, of an account that it knows, what the last event
\* about it said, however many handlers published whatever in between, and whatever
\* else was lost or skipped; unless that one event was committed before it was taken.
LastEventIsHeld ==
    \A s \in Services \ Resilient, u \in Ids :
        CaughtUp(s) /\ copy[s][u] # NoRow =>
            \A i \in 1..Len(log) : LastOf(u, i) /\ i \notin skipped[s] => copy[s][u] = log[i].row

\* "Local user copy is ... kept fresh by Kafka user_updated events" (dependencies.py):
\* when no handler is under way and a consumer has taken every event, the copy of each
\* live account equals the account, unless the last event about it was skipped.
QuietCopiesAreFresh ==
    Quiet => \A s \in Services, u \in Ids :
                CaughtUp(s) /\ Exists(u) /\ copy[s][u] # NoRow
                    => copy[s][u] = users[u] \/ \E i \in skipped[s] : LastOf(u, i)

\* Someone told that the account was deleted by an admin either has no account
\* any more or a deletion of it is about to commit, as long as no process stopped.
DeletionNoticeIsTrue ==
    restarts = 0 => \A u \in Ids :
        [type |-> "account_deleted", id |-> u] \in notices /\ Exists(u)
            => \E w \in Workers : req[w].op = "delete" /\ req[w].id = u

\* An admin's decision to ban is final until an admin lifts it: no other handler,
\* however long ago it loaded the row, makes a banned account active again.
OnlyStatusLiftsBan ==
    [][\A u \in Ids :
          Exists(u) /\ users'[u] # NoRow /\ ~users[u].active /\ users'[u].active
              => \E w \in Workers : req[w].op = "status" /\ req[w].id = u
                                    /\ req[w].at = "commit"]_vars

\* The copies of a registered account come to agree with it and stay so, in every service
\* that a restart has not made skip an event about it.
EventuallyInAgreement ==
    <>[](\A s \in Services, u \in Ids :
            /\ Exists(u) /\ users[u].name # BootName
            /\ \A i \in skipped[s] : log[i].id # u
            => copy[s][u] = users[u])

====
