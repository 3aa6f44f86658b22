---- MODULE UserSyncProofs ----
(***************************************************************************)
(* Proofs about UserSync, for any number of accounts, services and         *)
(* concurrent handlers: type correctness; that every column of every       *)
(* copied account was authoritative once, and that only a status change    *)
(* lifts a ban, under every fault of the model; that nobody is told of a   *)
(* deletion that does not happen, as long as nothing restarts; that a      *)
(* consumer which has caught up holds what one pass over the topic builds, *)
(* but for the names of events it was made to skip; and that it holds what *)
(* the last event about an account said, unless it was made to skip that.  *)
(***************************************************************************)
EXTENDS UserSync, TLAPS, WellFoundedInduction

\* A request under way has an ORM object, and, once its target has an id, that id.
RequestsInShape ==
    \A w \in Workers :
        /\ req[w].at # "idle" => req[w].row \in Row
        /\ req[w].at \notin {"idle", "insert"} => req[w].id \in Ids

\* A consumer never runs ahead of the topic.
PositionsInLog ==
    \A s \in Services :
        /\ sub[s].committed <= sub[s].pos
        /\ sub[s].pos <= Len(log)
        /\ sub[s].busy => sub[s].pos > 0

TypeInv == TypeOK /\ RequestsInShape /\ PositionsInLog

-----------------------------------------------------------------------------
\* The rows that the service itself makes are rows.
LEMMA NewRowsAreRows ==
    /\ \A n \in Names : NewRow(n) \in Row
    /\ BootRow \in Row
BY ConstantsOK DEF NewRow, BootRow, Row

\* Flushing a session object over a row gives a row.
LEMMA FlushedIsRow ==
    ASSUME NEW w \in Workers, TypeOK, req[w].row \in Row, req[w].id \in Ids, Exists(req[w].id)
    PROVE  Flushed(req[w]) \in Row
<1>1. users[req[w].id] \in Row
  BY DEF TypeOK, Exists
<1> QED
  BY <1>1 DEF Flushed, Row

LEMMA InitTypeInv == Init => TypeInv
<1> SUFFICES ASSUME Init PROVE TypeInv
  OBVIOUS
<1>1. users \in [Ids -> Row \cup {NoRow}] /\ seen \in [Ids -> SUBSET Row]
  BY NewRowsAreRows DEF Init
<1>2. req \in [Workers -> Request] /\ RequestsInShape
  BY DEF Init, Idle, Request, AllHandlers, RequestsInShape
<1>3. /\ nextId \in 1..(MaxUser + 1) /\ producerUp \in BOOLEAN
      /\ started \in 0..MaxRequests /\ restarts \in 0..MaxRestarts
  BY ConstantsOK DEF Init
<1>4. log \in Seq(Event) /\ notices \in SUBSET Notice
  BY DEF Init
<1>5. copy \in [Services -> [Ids -> Row \cup {NoRow}]]
  BY DEF Init
<1>6. sub \in [Services -> Consumer] /\ PositionsInLog
      /\ skipped \in [Services -> SUBSET (1..Len(log))]
  BY DEF Init, Consumer, PositionsInLog
<1> QED
  BY <1>1, <1>2, <1>3, <1>4, <1>5, <1>6 DEF TypeInv, TypeOK

-----------------------------------------------------------------------------
\* Type correctness of a request, and its shape, after Goto and Finish.
LEMMA FinishKeepsShape ==
    ASSUME NEW w \in Workers, req \in [Workers -> Request], RequestsInShape, Finish(w)
    PROVE  req' \in [Workers -> Request] /\ RequestsInShape'
BY DEF Finish, Idle, Request, RequestsInShape, AllHandlers

LEMMA GotoKeepsShape ==
    ASSUME NEW w \in Workers, req \in [Workers -> Request], RequestsInShape,
           NEW r \in Request, r.row \in Row,
           NEW at \in {"insert", "load", "commit", "refresh", "broadcast", "send", "notice"},
           at # "insert" => r.id \in Ids,
           Goto(w, r, at)
    PROVE  req' \in [Workers -> Request] /\ RequestsInShape'
<1>1. [r EXCEPT !.at = at] \in Request
  BY DEF Request
<1>2. req' = [req EXCEPT ![w] = [r EXCEPT !.at = at]]
  BY DEF Goto
<1>3. req' \in [Workers -> Request]
  BY <1>1, <1>2
<1>4. /\ [r EXCEPT !.at = at].at = at
      /\ [r EXCEPT !.at = at].row = r.row
      /\ [r EXCEPT !.at = at].id = r.id
  BY DEF Request
<1>5. ASSUME NEW v \in Workers
      PROVE  /\ req'[v].at # "idle" => req'[v].row \in Row
             /\ req'[v].at \notin {"idle", "insert"} => req'[v].id \in Ids
  <2>1. CASE v = w
    BY <2>1, <1>2, <1>4
  <2>2. CASE v # w
    BY <2>2, <1>2 DEF RequestsInShape
  <2> QED
    BY <2>1, <2>2
<1> QED
  BY <1>3, <1>5 DEF RequestsInShape

-----------------------------------------------------------------------------
\* The parts of the type invariant that a handler's step leaves alone or changes.
LEMMA HandlerTypeInv ==
    ASSUME TypeInv, UNCHANGED <<copy, sub, skipped>>,
           users' \in [Ids -> Row \cup {NoRow}], nextId' \in 1..(MaxUser + 1),
           req' \in [Workers -> Request], RequestsInShape',
           producerUp' \in BOOLEAN, notices' \in SUBSET Notice,
           \/ log' = log
           \/ \E e \in Event : log' = Append(log, e),
           started' \in 0..MaxRequests, restarts' \in 0..MaxRestarts,
           seen' \in [Ids -> SUBSET Row]
    PROVE  TypeInv'
<1>1. log' \in Seq(Event) /\ Len(log') >= Len(log)
  <2>0. log \in Seq(Event)
    BY DEF TypeInv, TypeOK
  <2>1. CASE log' = log
    BY <2>0, <2>1
  <2>2. ASSUME NEW e \in Event, log' = Append(log, e)
        PROVE  log' \in Seq(Event) /\ Len(log') >= Len(log)
    BY <2>0, <2>2
  <2> QED
    BY <2>1, <2>2
<1>2. TypeOK'
  <2>1. skipped' \in [Services -> SUBSET (1..Len(log'))]
    BY <1>1 DEF TypeInv, TypeOK
  <2> QED
    BY <1>1, <2>1 DEF TypeInv, TypeOK
<1>3. PositionsInLog'
  BY <1>1 DEF TypeInv, TypeOK, PositionsInLog, Consumer
<1> QED
  BY <1>2, <1>3 DEF TypeInv

\* Inserting and overwriting rows keeps the tables well typed.
LEMMA WriteRowType ==
    ASSUME TypeInv, NEW u \in Ids, NEW row \in Row, WriteRow(u, row)
    PROVE  users' \in [Ids -> Row \cup {NoRow}] /\ seen' \in [Ids -> SUBSET Row]
BY DEF TypeInv, TypeOK, WriteRow

LEMMA InsertRowType ==
    ASSUME TypeInv, NEW row \in Row, InsertRow(row)
    PROVE  /\ users' \in [Ids -> Row \cup {NoRow}] /\ seen' \in [Ids -> SUBSET Row]
           /\ nextId' \in 1..(MaxUser + 1)
           /\ nextId \in Ids
<1>1. nextId \in Ids
  BY ConstantsOK DEF TypeInv, TypeOK, InsertRow, Ids
<1>2. nextId' \in 1..(MaxUser + 1)
  BY ConstantsOK DEF TypeInv, TypeOK, InsertRow
<1> QED
  BY <1>1, <1>2, WriteRowType DEF InsertRow

LEMMA RegisterCheckTypeInv ==
    ASSUME TypeInv, NEW w \in Workers, NEW n \in Names, RegisterCheck(w, n)
    PROVE  TypeInv'
<1> DEFINE r == [Idle EXCEPT !.op = "register", !.row = NewRow(n)]
<1>1. r \in Request /\ r.row \in Row
  BY NewRowsAreRows DEF Idle, Request, AllHandlers
<1>2. req' \in [Workers -> Request] /\ RequestsInShape'
  BY <1>1, GotoKeepsShape DEF RegisterCheck, TypeInv, TypeOK
<1>3. started' \in 0..MaxRequests
  BY ConstantsOK DEF RegisterCheck, Begin, TypeInv, TypeOK
<1> QED
  BY <1>2, <1>3, HandlerTypeInv
     DEF RegisterCheck, Begin, TypeInv, TypeOK, dbVars, consumerVars

LEMMA AuthenticateTypeInv ==
    ASSUME TypeInv, NEW w \in Workers, NEW op \in Handlers, NEW a \in Ids, NEW u \in Ids,
           Authenticate(w, op, a, u)
    PROVE  TypeInv'
<1> DEFINE r == [Idle EXCEPT !.op = op, !.actor = a, !.id = u, !.row = users[a]]
<1>1. users[a] \in Row
  BY DEF TypeInv, TypeOK, Authenticate, Exists
<1>2. op \in AllHandlers
  BY ConstantsOK
<1>3. r \in Request /\ r.row \in Row /\ r.id \in Ids
  BY <1>1, <1>2 DEF Idle, Request
<1>4. req' \in [Workers -> Request] /\ RequestsInShape'
  BY <1>3, GotoKeepsShape DEF Authenticate, TypeInv, TypeOK
<1>5. started' \in 0..MaxRequests
  BY ConstantsOK DEF Authenticate, Begin, TypeInv, TypeOK
<1> QED
  BY <1>4, <1>5, HandlerTypeInv
     DEF Authenticate, Begin, TypeInv, TypeOK, dbVars, consumerVars

LEMMA RegisterInsertTypeInv ==
    ASSUME TypeInv, NEW w \in Workers, RegisterInsert(w)
    PROVE  TypeInv'
<1> DEFINE r == req[w]
<1>1. r \in Request /\ r.row \in Row
  BY DEF TypeInv, TypeOK, RequestsInShape, RegisterInsert
<1>2. UNCHANGED <<producerUp, log, notices, copy, sub, skipped, started, restarts>>
  BY DEF RegisterInsert, consumerVars
<1>3. CASE Taken(r.row.name)
  <2>1. req' \in [Workers -> Request] /\ RequestsInShape'
    BY <1>3, FinishKeepsShape DEF RegisterInsert, TypeInv, TypeOK
  <2>2. nextId' \in 1..(MaxUser + 1)
    BY <1>3, ConstantsOK DEF RegisterInsert, TypeInv, TypeOK
  <2>3. UNCHANGED <<users, seen>>
    BY <1>3 DEF RegisterInsert
  <2> QED
    BY <1>2, <2>1, <2>2, <2>3, HandlerTypeInv DEF TypeInv, TypeOK
<1>4. CASE ~Taken(r.row.name)
  <2> DEFINE r1 == [r EXCEPT !.id = nextId]
  <2>1. InsertRow(r.row) /\ Goto(w, r1, "refresh")
    BY <1>4 DEF RegisterInsert
  <2>2. /\ users' \in [Ids -> Row \cup {NoRow}] /\ seen' \in [Ids -> SUBSET Row]
        /\ nextId' \in 1..(MaxUser + 1)
        /\ nextId \in Ids
    BY <1>1, <2>1, InsertRowType
  <2>3. r1 \in Request /\ r1.row \in Row /\ r1.id \in Ids
    BY <1>1, <2>2 DEF Request
  <2>4. req' \in [Workers -> Request] /\ RequestsInShape'
    BY <2>1, <2>3, GotoKeepsShape DEF TypeInv, TypeOK
  <2> QED
    BY <1>2, <2>2, <2>4, HandlerTypeInv DEF TypeInv, TypeOK
<1> QED
  BY <1>3, <1>4

LEMMA LoadTypeInv ==
    ASSUME TypeInv, NEW w \in Workers, Load(w)
    PROVE  TypeInv'
<1> DEFINE r == req[w]
           r0 == IF r.id = r.actor THEN r ELSE [r EXCEPT !.row = users[r.id]]
<1>1. r \in Request /\ r.row \in Row /\ r.id \in Ids
  BY DEF TypeInv, TypeOK, RequestsInShape, Load
<1>2. req' \in [Workers -> Request] /\ RequestsInShape'
  <2>0. req \in [Workers -> Request] /\ RequestsInShape
    BY DEF TypeInv, TypeOK
  <2>1. ASSUME Exists(r.id) \/ r.id = r.actor
        PROVE  r0 \in Request /\ r0.row \in Row /\ r0.id \in Ids
    <3>1. CASE r.id = r.actor
      BY <1>1, <3>1
    <3>2. CASE r.id # r.actor
      <4>1. users[r.id] \in Row
        BY <1>1, <2>1, <3>2 DEF Exists, TypeInv, TypeOK
      <4> QED
        BY <1>1, <3>2, <4>1 DEF Request
    <3> QED
      BY <3>1, <3>2
  <2>2. ASSUME NEW r1 \in Request, NEW row \in Row, NEW column \in Columns, r1.id \in Ids
        PROVE  /\ Assigned(r1, column, row) \in Request
               /\ Assigned(r1, column, row).row \in Row
               /\ Assigned(r1, column, row).id \in Ids
    BY <2>2 DEF Assigned, Request
  <2>3. CASE Finish(w)
    BY <2>0, <2>3, FinishKeepsShape
  <2>4. ASSUME NEW role \in Roles, Exists(r.id),
               Goto(w, [Assigned(r0, "role", [r0.row EXCEPT !.role = role])
                          EXCEPT !.old = r0.row.role], "commit")
        PROVE  req' \in [Workers -> Request] /\ RequestsInShape'
    <3> DEFINE row == [r0.row EXCEPT !.role = role]
               r1 == Assigned(r0, "role", row)
               r2 == [r1 EXCEPT !.old = r0.row.role]
    <3>1. r0 \in Request /\ r0.row \in Row /\ r0.id \in Ids
      BY <2>1, <2>4
    <3>2. row \in Row
      BY <3>1 DEF Row
    <3>3. r1 \in Request /\ r1.row \in Row /\ r1.id \in Ids
      BY <2>2, <3>1, <3>2 DEF Columns
    <3>4. r2 \in Request /\ r2.row \in Row /\ r2.id \in Ids
      <4>1. r0.row.role \in Roles
        BY <3>1 DEF Row
      <4> HIDE DEF r1, r0
      <4> QED
        BY <3>3, <4>1 DEF Request
    <3>5. Goto(w, r2, "commit")
      BY <2>4
    <3> HIDE DEF r2
    <3> QED
      BY <2>0, <3>4, <3>5, GotoKeepsShape
  <2>5. ASSUME NEW b \in BOOLEAN, Exists(r.id),
               Goto(w, Assigned(r0, "active", [r0.row EXCEPT !.active = b]), "commit")
        PROVE  req' \in [Workers -> Request] /\ RequestsInShape'
    <3> DEFINE row == [r0.row EXCEPT !.active = b]
               r1 == Assigned(r0, "active", row)
    <3>1. r0 \in Request /\ r0.row \in Row /\ r0.id \in Ids
      BY <2>1, <2>5
    <3>2. row \in Row
      BY <3>1 DEF Row
    <3>3. r1 \in Request /\ r1.row \in Row /\ r1.id \in Ids
      BY <2>2, <3>1, <3>2 DEF Columns
    <3>4. Goto(w, r1, "commit")
      BY <2>5
    <3> HIDE DEF r1
    <3> QED
      BY <2>0, <3>3, <3>4, GotoKeepsShape
  <2>6. CASE Exists(r.id) /\ Goto(w, r0, "notice")
    <3> HIDE DEF r0
    <3> QED
      BY <2>0, <2>1, <2>6, GotoKeepsShape
  <2>7. ASSUME NEW a \in Avatars,
               Goto(w, Assigned(r, "avatar", [r.row EXCEPT !.avatar = a]), "commit")
        PROVE  req' \in [Workers -> Request] /\ RequestsInShape'
    <3> DEFINE row == [r.row EXCEPT !.avatar = a]
               r1 == Assigned(r, "avatar", row)
    <3>1. r \in Request /\ r.row \in Row /\ r.id \in Ids
      BY <1>1
    <3>2. row \in Row
      BY <3>1 DEF Row
    <3>3. r1 \in Request /\ r1.row \in Row /\ r1.id \in Ids
      BY <2>2, <3>1, <3>2 DEF Columns
    <3>4. Goto(w, r1, "commit")
      BY <2>7
    <3> HIDE DEF r1
    <3> QED
      BY <2>0, <3>3, <3>4, GotoKeepsShape
  <2>8. CASE Goto(w, Assigned(r, "role", [r.row EXCEPT !.role = "admin"]), "commit")
    <3> DEFINE row == [r.row EXCEPT !.role = "admin"]
               r1 == Assigned(r, "role", row)
    <3>1. r \in Request /\ r.row \in Row /\ r.id \in Ids
      BY <1>1
    <3>2. row \in Row
      BY <3>1, ConstantsOK DEF Row
    <3>3. r1 \in Request /\ r1.row \in Row /\ r1.id \in Ids
      BY <2>2, <3>1, <3>2 DEF Columns
    <3>4. Goto(w, r1, "commit")
      BY <2>8
    <3> HIDE DEF r1
    <3> QED
      BY <2>0, <3>3, <3>4, GotoKeepsShape
  <2> QED
    BY <2>3, <2>4, <2>5, <2>6, <2>7, <2>8 DEF Load
<1> QED
  BY <1>2, HandlerTypeInv DEF Load, TypeInv, TypeOK, dbVars, consumerVars

LEMMA CommitTypeInv ==
    ASSUME TypeInv, NEW w \in Workers, Commit(w)
    PROVE  TypeInv'
<1> DEFINE r == req[w]
<1>1. r \in Request /\ r.row \in Row /\ r.id \in Ids
  BY DEF TypeInv, TypeOK, RequestsInShape, Commit
<1>2. req \in [Workers -> Request] /\ RequestsInShape
  BY DEF TypeInv, TypeOK
<1>3. req' \in [Workers -> Request] /\ RequestsInShape'
  <2>1. CASE Finish(w)
    BY <1>2, <2>1, FinishKeepsShape
  <2>2. CASE Goto(w, r, IF r.op = "status" THEN "send" ELSE "refresh")
    <3>1. Goto(w, r, "send") \/ Goto(w, r, "refresh")
      BY <2>2
    <3> QED
      BY <1>1, <1>2, <3>1, GotoKeepsShape
  <2> QED
    BY <2>1, <2>2 DEF Commit
<1>4. users' \in [Ids -> Row \cup {NoRow}] /\ seen' \in [Ids -> SUBSET Row]
  <2>1. CASE users' = [users EXCEPT ![r.id] = NoRow] /\ UNCHANGED seen
    BY <2>1 DEF TypeInv, TypeOK
  <2>2. CASE UNCHANGED <<users, seen>>
    BY <2>2 DEF TypeInv, TypeOK
  <2>3. CASE Exists(r.id) /\ WriteRow(r.id, Flushed(r))
    <3>1. Flushed(r) \in Row
      BY <1>1, <2>3, FlushedIsRow DEF TypeInv
    <3> QED
      BY <1>1, <2>3, <3>1, WriteRowType
  <2> QED
    BY <2>1, <2>2, <2>3 DEF Commit
<1> QED
  BY <1>3, <1>4, HandlerTypeInv DEF Commit, TypeInv, TypeOK, consumerVars

LEMMA RefreshTypeInv ==
    ASSUME TypeInv, NEW w \in Workers, Refresh(w)
    PROVE  TypeInv'
<1> DEFINE r == req[w]
           r1 == [r EXCEPT !.row = users[r.id], !.dirty = {}]
<1>1. r \in Request /\ r.row \in Row /\ r.id \in Ids
  BY DEF TypeInv, TypeOK, RequestsInShape, Refresh
<1>2. req \in [Workers -> Request] /\ RequestsInShape
  BY DEF TypeInv, TypeOK
<1>3. req' \in [Workers -> Request] /\ RequestsInShape'
  <2>1. CASE Finish(w)
    BY <1>2, <2>1, FinishKeepsShape
  <2>2. CASE Exists(r.id) /\ Goto(w, r1, IF r.op = "upload" THEN "broadcast" ELSE "send")
    <3>1. Goto(w, r1, "broadcast") \/ Goto(w, r1, "send")
      BY <2>2
    <3>2. users[r.id] \in Row
      BY <1>1, <2>2 DEF Exists, TypeInv, TypeOK
    <3>3. r1 \in Request /\ r1.row \in Row /\ r1.id \in Ids
      BY <1>1, <3>2 DEF Request
    <3> HIDE DEF r1
    <3> QED
      BY <1>2, <3>1, <3>3, GotoKeepsShape
  <2> QED
    BY <2>1, <2>2 DEF Refresh
<1> QED
  BY <1>3, HandlerTypeInv DEF Refresh, TypeInv, TypeOK, dbVars, consumerVars

\* What Publish appends is an event.
LEMMA PublishesEvent ==
    ASSUME NEW r \in Request, r.row \in Row, r.id \in Ids,
           NEW type \in {"user_created", "user_updated", "avatar_update"},
           Publish(type, r)
    PROVE  \/ log' = log
           \/ \E e \in Event : log' = Append(log, e)
<1>1. [type |-> type, id |-> r.id, row |-> r.row] \in Event
  BY DEF Event
<1> QED
  BY <1>1 DEF Publish

LEMMA BroadcastTypeInv ==
    ASSUME TypeInv, NEW w \in Workers, Broadcast(w)
    PROVE  TypeInv'
<1>1. req[w] \in Request /\ req[w].row \in Row /\ req[w].id \in Ids
  BY DEF TypeInv, TypeOK, RequestsInShape, Broadcast
<1>2. req' \in [Workers -> Request] /\ RequestsInShape'
  BY <1>1, GotoKeepsShape DEF Broadcast, TypeInv, TypeOK
<1>3. \/ log' = log
      \/ \E e \in Event : log' = Append(log, e)
  BY <1>1, PublishesEvent DEF Broadcast
<1> QED
  BY <1>2, <1>3, HandlerTypeInv DEF Broadcast, TypeInv, TypeOK, dbVars, consumerVars

LEMMA SendTypeInv ==
    ASSUME TypeInv, NEW w \in Workers, Send(w)
    PROVE  TypeInv'
<1>1. req[w] \in Request /\ req[w].row \in Row /\ req[w].id \in Ids
  BY DEF TypeInv, TypeOK, RequestsInShape, Send
<1>2. req' \in [Workers -> Request] /\ RequestsInShape'
  BY <1>1, GotoKeepsShape, FinishKeepsShape DEF Send, TypeInv, TypeOK
<1>3. \/ log' = log
      \/ \E e \in Event : log' = Append(log, e)
  BY <1>1, PublishesEvent DEF Send
<1> QED
  BY <1>2, <1>3, HandlerTypeInv DEF Send, TypeInv, TypeOK, dbVars, consumerVars

LEMMA EmitTypeInv ==
    ASSUME TypeInv, NEW w \in Workers, Emit(w)
    PROVE  TypeInv'
<1>1. req[w] \in Request /\ req[w].row \in Row /\ req[w].id \in Ids
  BY DEF TypeInv, TypeOK, RequestsInShape, Emit
<1>2. req' \in [Workers -> Request] /\ RequestsInShape'
  BY <1>1, GotoKeepsShape, FinishKeepsShape DEF Emit, TypeInv, TypeOK
<1>3. NoticeType(req[w].op) \in {"role_change", "account_status", "account_deleted"}
  BY DEF NoticeType
<1>4. [type |-> NoticeType(req[w].op), id |-> req[w].id] \in Notice
  BY <1>1, <1>3 DEF Notice
<1>5. notices' \in SUBSET Notice
  BY <1>4 DEF Emit, TypeInv, TypeOK
<1> QED
  BY <1>2, <1>5, HandlerTypeInv DEF Emit, TypeInv, TypeOK, dbVars, consumerVars

LEMMA RestartUserServiceTypeInv ==
    ASSUME TypeInv, RestartUserService
    PROVE  TypeInv'
<1>1. req' \in [Workers -> Request] /\ RequestsInShape'
  BY DEF RestartUserService, Idle, Request, AllHandlers, RequestsInShape
<1>2. /\ users' \in [Ids -> Row \cup {NoRow}] /\ seen' \in [Ids -> SUBSET Row]
      /\ nextId' \in 1..(MaxUser + 1)
  <2>1. CASE UNCHANGED dbVars
    BY <2>1 DEF dbVars, TypeInv, TypeOK
  <2>2. CASE InsertRow(BootRow)
    BY <2>2, NewRowsAreRows, InsertRowType
  <2> QED
    BY <2>1, <2>2 DEF RestartUserService
<1>3. producerUp' \in BOOLEAN
  BY DEF RestartUserService
<1>4. restarts' \in 0..MaxRestarts
  BY ConstantsOK DEF RestartUserService, TypeInv, TypeOK
<1> QED
  BY <1>1, <1>2, <1>3, <1>4, HandlerTypeInv
     DEF RestartUserService, TypeInv, TypeOK, consumerVars

-----------------------------------------------------------------------------
\* The same for the steps of a consumer.
LEMMA ConsumerTypeInv ==
    ASSUME TypeInv, UNCHANGED <<users, nextId, req, producerUp, log, notices, started, seen>>,
           copy' \in [Services -> [Ids -> Row \cup {NoRow}]],
           skipped' \in [Services -> SUBSET (1..Len(log))],
           NEW s \in Services, NEW c \in Consumer,
           sub' = [sub EXCEPT ![s] = c],
           c.committed <= c.pos, c.pos <= Len(log), c.busy => c.pos > 0,
           restarts' \in 0..MaxRestarts
    PROVE  TypeInv'
BY DEF TypeInv, TypeOK, RequestsInShape, PositionsInLog

\* What one event makes of a table of copies is a table of copies.
LEMMA AfterEventType ==
    ASSUME NEW s \in Services, NEW table \in [Ids -> Row \cup {NoRow}], NEW e \in Event
    PROVE  AfterEvent(s, table, e) \in [Ids -> Row \cup {NoRow}]
<1>1. Stored(s, table, e) \in Row
  BY ConstantsOK DEF Stored, Event, Row
<1> QED
  BY <1>1 DEF AfterEvent, Event

LEMMA FetchTypeInv ==
    ASSUME TypeInv, NEW s \in Services, Fetch(s)
    PROVE  TypeInv'
<1> DEFINE c == [sub[s] EXCEPT !.pos = sub[s].pos + 1, !.busy = TRUE]
<1>1. sub[s] \in Consumer /\ Len(log) \in Nat
  BY DEF TypeInv, TypeOK
<1>2. c \in Consumer /\ c.pos <= Len(log) /\ c.pos > 0 /\ c.committed <= c.pos
  <2>1. sub[s].pos < Len(log) /\ sub[s].committed <= sub[s].pos
    BY DEF Fetch, TypeInv, PositionsInLog
  <2>2. c \in Consumer
    <3>1. sub[s].pos + 1 \in Nat
      BY <1>1 DEF Consumer
    <3> QED
      BY <1>1, <3>1 DEF Consumer
  <2>3. c.pos = sub[s].pos + 1 /\ c.committed = sub[s].committed
    BY <1>1 DEF Consumer
  <2> QED
    BY <1>1, <2>1, <2>2, <2>3 DEF Consumer
<1>3. sub' = [sub EXCEPT ![s] = c]
  BY DEF Fetch, TypeInv, TypeOK
<1> HIDE DEF c
<1> QED
  BY <1>2, <1>3, ConsumerTypeInv DEF Fetch, TypeInv, TypeOK, dbVars, apiVars

LEMMA ApplyTypeInv ==
    ASSUME TypeInv, NEW s \in Services, Apply(s)
    PROVE  TypeInv'
<1>1. sub[s] \in Consumer /\ Len(log) \in Nat /\ log \in Seq(Event)
  BY DEF TypeInv, TypeOK
<1>2. sub[s].pos \in 1..Len(log) /\ sub[s].committed <= sub[s].pos
  BY <1>1 DEF Consumer, Apply, TypeInv, PositionsInLog
<1>3. log[sub[s].pos] \in Event
  BY <1>1, <1>2
<1>4. copy' \in [Services -> [Ids -> Row \cup {NoRow}]]
  BY <1>3, AfterEventType DEF Apply, TypeInv, TypeOK
<1>5. UNCHANGED <<users, nextId, req, producerUp, log, notices, started, seen, restarts, skipped>>
  BY DEF Apply, dbVars, apiVars
<1>6. restarts' \in 0..MaxRestarts /\ skipped' \in [Services -> SUBSET (1..Len(log))]
  BY <1>5 DEF TypeInv, TypeOK
<1>7. CASE sub' = [sub EXCEPT ![s].busy = FALSE]
  <2> DEFINE d == [sub[s] EXCEPT !.busy = FALSE]
  <2>1. d \in Consumer /\ d.committed = sub[s].committed /\ d.pos = sub[s].pos /\ ~d.busy
    BY <1>1 DEF Consumer
  <2>2. sub' = [sub EXCEPT ![s] = d]
    BY <1>7 DEF TypeInv, TypeOK
  <2> HIDE DEF d
  <2>3. d.committed <= d.pos /\ d.pos <= Len(log)
    BY <1>1, <1>2, <2>1
  <2> QED
    BY <1>4, <1>5, <1>6, <2>1, <2>2, <2>3, ConsumerTypeInv
<1>8. ASSUME NEW c \in {sub[s].committed, sub[s].pos},
             sub' = [sub EXCEPT ![s].busy = FALSE, ![s].up = FALSE, ![s].committed = c]
      PROVE  TypeInv'
  <2> DEFINE d == [sub[s] EXCEPT !.busy = FALSE, !.up = FALSE, !.committed = c]
  <2>1. d \in Consumer /\ d.committed = c /\ d.pos = sub[s].pos /\ ~d.busy
    BY <1>1 DEF Consumer
  <2>2. sub' = [sub EXCEPT ![s] = d]
    BY <1>8 DEF TypeInv, TypeOK
  <2> HIDE DEF d
  <2>3. d.committed <= d.pos /\ d.pos <= Len(log)
    BY <1>1, <1>2, <2>1
  <2> QED
    BY <1>4, <1>5, <1>6, <2>1, <2>2, <2>3, ConsumerTypeInv
<1> QED
  BY <1>7, <1>8 DEF Apply

LEMMA AutoCommitTypeInv ==
    ASSUME TypeInv, NEW s \in Services, AutoCommit(s)
    PROVE  TypeInv'
<1> DEFINE c == [sub[s] EXCEPT !.committed = sub[s].pos]
<1>1. /\ sub[s] \in Consumer /\ sub[s].pos <= Len(log)
      /\ sub[s].busy => sub[s].pos > 0
  BY DEF TypeInv, TypeOK, PositionsInLog
<1>2. c \in Consumer /\ c.committed <= c.pos /\ c.pos <= Len(log) /\ (c.busy => c.pos > 0)
  BY <1>1 DEF Consumer
<1>3. sub' = [sub EXCEPT ![s] = c]
  BY DEF AutoCommit, TypeInv, TypeOK
<1> HIDE DEF c
<1> QED
  BY <1>2, <1>3, ConsumerTypeInv DEF AutoCommit, TypeInv, TypeOK, dbVars, apiVars

\* An event that a restart takes away is on the topic.
LEMMA AtRiskInLog ==
    ASSUME TypeInv, NEW s \in Services
    PROVE  AtRisk(s) \subseteq 1..Len(log)
BY DEF AtRisk, TypeInv, TypeOK, PositionsInLog, Consumer

LEMMA RestartConsumerTypeInv ==
    ASSUME TypeInv, NEW s \in Services, RestartConsumer(s)
    PROVE  TypeInv'
<1> DEFINE c == [up |-> TRUE, pos |-> sub[s].committed, busy |-> FALSE,
                 committed |-> sub[s].committed]
<1>1. c \in Consumer /\ c.committed <= c.pos /\ c.pos <= Len(log) /\ ~c.busy
  BY DEF TypeInv, TypeOK, Consumer, PositionsInLog
<1>2. restarts' \in 0..MaxRestarts
  BY ConstantsOK DEF RestartConsumer, TypeInv, TypeOK
<1>3. sub' = [sub EXCEPT ![s] = c]
  BY DEF RestartConsumer
<1>4. skipped' \in [Services -> SUBSET (1..Len(log))]
  BY AtRiskInLog DEF RestartConsumer, TypeInv, TypeOK
<1> HIDE DEF c
<1> QED
  BY <1>1, <1>2, <1>3, <1>4, ConsumerTypeInv
     DEF RestartConsumer, TypeInv, TypeOK, dbVars, apiVars

-----------------------------------------------------------------------------
LEMMA NextTypeInv == TypeInv /\ [Next]_vars => TypeInv'
<1> SUFFICES ASSUME TypeInv, [Next]_vars PROVE TypeInv'
  OBVIOUS
<1>1. CASE UNCHANGED vars
  BY <1>1 DEF vars, TypeInv, TypeOK, RequestsInShape, PositionsInLog
<1>2. ASSUME NEW w \in Workers, Proceed(w) PROVE TypeInv'
  BY <1>2, RegisterInsertTypeInv, LoadTypeInv, CommitTypeInv, RefreshTypeInv,
     BroadcastTypeInv, SendTypeInv, EmitTypeInv DEF Proceed
<1>3. ASSUME NEW s \in Services, Consume(s) PROVE TypeInv'
  BY <1>3, FetchTypeInv, ApplyTypeInv DEF Consume
<1> QED
  BY <1>1, <1>2, <1>3, RegisterCheckTypeInv, AuthenticateTypeInv,
     RestartUserServiceTypeInv, AutoCommitTypeInv, RestartConsumerTypeInv DEF Next

\* Type correctness: the tables, requests, topic and consumers of UserSync keep
\* their types, for all values of the constants.
THEOREM TypeCorrect == Spec => []TypeOK
<1>1. TypeInv => TypeOK
  BY DEF TypeInv
<1> QED
  BY <1>1, InitTypeInv, NextTypeInv, PTL DEF Spec

-----------------------------------------------------------------------------
(* CopiesWereAuthoritative is not inductive: a copy comes from an event, the *)
(* event from a session object, the object from the table.  The object of a  *)
(* status change is the hard one.  It is loaded, then other handlers write   *)
(* the row, then it is saved and published without being reloaded: its one   *)
(* modified column is witnessed by its own commit, the others by the load.   *)

TableSeen == \A u \in Ids : Exists(u) => users[u] \in seen[u]

Born == \A u \in Ids : seen[u] # {} => \E r \in seen[u] : r.avatar = NoAvatar

LogSeen == \A i \in 1..Len(log) : Witnessed(seen[log[i].id], log[i].row)

\* All columns but the one the status handler is about to save.
WitnessedButActive(S, row, dirty) ==
    /\ \E r \in S : row.name = r.name
    /\ \E r \in S : row.role = r.role
    /\ \E r \in S : row.avatar = r.avatar
    /\ "active" \in dirty \/ \E r \in S : row.active = r.active

SessionSeen(r) ==
    /\ r.at = "insert" => r.row.avatar = NoAvatar
    /\ r.at = "load" /\ r.op = "status" => r.id # r.actor
    /\ r.at = "commit" /\ r.op = "status" => WitnessedButActive(seen[r.id], r.row, r.dirty)
    /\ r.at \in {"broadcast", "send"} => Witnessed(seen[r.id], r.row)
SessionsSeen == \A w \in Workers : SessionSeen(req[w])

HistoryInv ==
    TypeInv /\ TableSeen /\ Born /\ SessionsSeen /\ LogSeen /\ CopiesWereAuthoritative

-----------------------------------------------------------------------------
\* Which actions touch the table, the topic and the copies.
LEMMA WhoWritesTable ==
    ASSUME Next
    PROVE  \/ UNCHANGED <<users, seen>>
           \/ \E w \in Workers : RegisterInsert(w) \/ Commit(w)
           \/ RestartUserService
BY DEF Next, Proceed, Consume, RegisterCheck, Authenticate, Begin, Load, Refresh, Broadcast,
       Send, Emit, Fetch, Apply, AutoCommit, RestartConsumer, dbVars

LEMMA WhoWritesLog ==
    ASSUME Next
    PROVE  \/ UNCHANGED log
           \/ \E w \in Workers : Broadcast(w) \/ Send(w)
BY DEF Next, Proceed, Consume, RegisterCheck, RegisterInsert, Authenticate, Begin, Load, Commit,
       Refresh, Emit, RestartUserService, Fetch, Apply, AutoCommit, RestartConsumer

LEMMA WhoWritesCopy ==
    ASSUME Next
    PROVE  \/ UNCHANGED copy
           \/ \E s \in Services : Apply(s)
BY DEF Next, Proceed, Consume, RegisterCheck, RegisterInsert, Authenticate, Begin, Load, Commit,
       Refresh, Broadcast, Send, Emit, RestartUserService, Fetch, AutoCommit, RestartConsumer,
       consumerVars

\* History only grows.
LEMMA SeenGrows ==
    ASSUME TypeInv, [Next]_vars
    PROVE  \A u \in Ids : seen[u] \subseteq seen'[u]
<1>1. CASE UNCHANGED seen
  BY <1>1
<1>2. ASSUME NEW u \in Ids, NEW row, WriteRow(u, row)
      PROVE  \A v \in Ids : seen[v] \subseteq seen'[v]
  BY <1>2 DEF WriteRow, TypeInv, TypeOK
<1>3. ASSUME NEW row, InsertRow(row)
      PROVE  \A v \in Ids : seen[v] \subseteq seen'[v]
  <2>1. nextId \in Ids
    BY <1>3, ConstantsOK DEF InsertRow, Ids, TypeInv, TypeOK
  <2> QED
    BY <1>2, <1>3, <2>1 DEF InsertRow
<1>4. ASSUME NEW w \in Workers, RegisterInsert(w)
      PROVE  \A v \in Ids : seen[v] \subseteq seen'[v]
  BY <1>1, <1>3, <1>4 DEF RegisterInsert
<1>5. ASSUME NEW w \in Workers, Commit(w)
      PROVE  \A v \in Ids : seen[v] \subseteq seen'[v]
  <2>1. req[w].id \in Ids
    BY <1>5 DEF Commit, TypeInv, RequestsInShape
  <2> QED
    BY <1>1, <1>2, <1>5, <2>1 DEF Commit
<1>6. ASSUME RestartUserService
      PROVE  \A v \in Ids : seen[v] \subseteq seen'[v]
  BY <1>1, <1>3, <1>6 DEF RestartUserService, dbVars
<1> QED
  BY <1>1, <1>4, <1>5, <1>6, WhoWritesTable DEF vars

LEMMA WitnessedStays ==
    ASSUME NEW S, NEW T, S \subseteq T, NEW row
    PROVE  /\ Witnessed(S, row) => Witnessed(T, row)
           /\ \A dirty : WitnessedButActive(S, row, dirty) => WitnessedButActive(T, row, dirty)
BY DEF Witnessed, WitnessedButActive

\* A row of a set, as it is or with another is_active, has its columns there.
LEMMA MemberWitnessed ==
    ASSUME NEW S, NEW row \in S
    PROVE  Witnessed(S, row)
BY DEF Witnessed

-----------------------------------------------------------------------------
LEMMA InitHistoryInv == Init => HistoryInv
<1> SUFFICES ASSUME Init PROVE HistoryInv
  OBVIOUS
<1>1. TypeInv
  BY InitTypeInv
<1>2. TableSeen /\ Born
  BY DEF Init, TableSeen, Born, Exists, BootRow, NewRow
<1>3. SessionsSeen
  BY DEF Init, SessionsSeen, SessionSeen, Idle
<1>4. LogSeen /\ CopiesWereAuthoritative
  BY DEF Init, LogSeen, CopiesWereAuthoritative
<1> QED
  BY <1>1, <1>2, <1>3, <1>4 DEF HistoryInv

LEMMA TableStep == HistoryInv /\ [Next]_vars => TableSeen' /\ Born'
<1> SUFFICES ASSUME HistoryInv, [Next]_vars PROVE TableSeen' /\ Born'
  OBVIOUS
<1>0. TypeInv /\ TableSeen /\ Born /\ SessionsSeen
  BY DEF HistoryInv
<1>1. CASE UNCHANGED <<users, seen>>
  BY <1>0, <1>1 DEF TableSeen, Born, Exists
<1>2. ASSUME NEW u \in Ids, NEW row, WriteRow(u, row), seen[u] # {} \/ row.avatar = NoAvatar
      PROVE  TableSeen' /\ Born'
  BY <1>0, <1>2 DEF TableSeen, Born, Exists, WriteRow, TypeInv, TypeOK
<1>3. ASSUME NEW row, InsertRow(row), row.avatar = NoAvatar
      PROVE  TableSeen' /\ Born'
  <2>1. nextId \in Ids
    BY <1>0, <1>3, ConstantsOK DEF InsertRow, Ids, TypeInv, TypeOK
  <2> QED
    BY <1>2, <1>3, <2>1 DEF InsertRow
<1>4. ASSUME NEW w \in Workers, RegisterInsert(w) PROVE TableSeen' /\ Born'
  BY <1>0, <1>1, <1>3, <1>4 DEF RegisterInsert, SessionsSeen, SessionSeen
<1>5. ASSUME NEW w \in Workers, Commit(w) PROVE TableSeen' /\ Born'
  <2>1. req[w].id \in Ids
    BY <1>0, <1>5 DEF Commit, TypeInv, RequestsInShape
  <2>2. CASE users' = [users EXCEPT ![req[w].id] = NoRow] /\ UNCHANGED seen
    BY <1>0, <2>1, <2>2 DEF TableSeen, Born, Exists, TypeInv, TypeOK
  <2>3. CASE Exists(req[w].id) /\ WriteRow(req[w].id, Flushed(req[w]))
    BY <1>0, <1>2, <2>1, <2>3 DEF TableSeen
  <2> QED
    BY <1>1, <1>5, <2>2, <2>3 DEF Commit
<1>6. ASSUME RestartUserService PROVE TableSeen' /\ Born'
  <2>1. BootRow.avatar = NoAvatar
    BY DEF BootRow, NewRow
  <2> QED
    BY <1>1, <1>3, <1>6, <2>1 DEF RestartUserService, dbVars
<1> QED
  BY <1>1, <1>4, <1>5, <1>6, WhoWritesTable DEF vars

LEMMA LogStep == HistoryInv /\ [Next]_vars => LogSeen'
<1> SUFFICES ASSUME HistoryInv, [Next]_vars PROVE LogSeen'
  OBVIOUS
<1>0. /\ TypeInv /\ SessionsSeen /\ LogSeen /\ log \in Seq(Event)
      /\ \A u \in Ids : seen[u] \subseteq seen'[u]
  BY SeenGrows DEF HistoryInv, TypeInv, TypeOK
<1>1. \A i \in 1..Len(log) : Witnessed(seen'[log[i].id], log[i].row)
  <2> SUFFICES ASSUME NEW i \in 1..Len(log)
               PROVE  Witnessed(seen'[log[i].id], log[i].row)
    OBVIOUS
  <2>0. log[i] \in Event
    BY <1>0
  <2>1. log[i].id \in Ids
    BY <2>0 DEF Event
  <2>2. Witnessed(seen[log[i].id], log[i].row)
    BY <1>0 DEF LogSeen
  <2> QED
    BY <1>0, <2>1, <2>2, WitnessedStays
<1>2. CASE UNCHANGED log
  BY <1>1, <1>2 DEF LogSeen
<1>3. ASSUME NEW r \in Request, r.row \in Row, r.id \in Ids, Witnessed(seen[r.id], r.row),
             NEW type \in {"user_created", "user_updated", "avatar_update"}, Publish(type, r)
      PROVE  LogSeen'
  <2> DEFINE e == [type |-> type, id |-> r.id, row |-> r.row]
  <2>1. Witnessed(seen'[e.id], e.row)
    BY <1>0, <1>3, WitnessedStays
  <2>2. CASE log' = Append(log, e)
    <3>1. e \in Event
      BY <1>3 DEF Event
    <3> HIDE DEF e
    <3>2. \A i \in 1..Len(log') : IF i = Len(log) + 1 THEN log'[i] = e
                                  ELSE i \in 1..Len(log) /\ log'[i] = log[i]
      BY <1>0, <2>2, <3>1
    <3> QED
      BY <1>1, <2>1, <3>2 DEF LogSeen
  <2> QED
    BY <1>2, <1>3, <2>2 DEF Publish
<1>4. ASSUME NEW w \in Workers, Broadcast(w) \/ Send(w) PROVE LogSeen'
  <2> DEFINE r == req[w]
  <2>1. r \in Request /\ r.row \in Row /\ r.id \in Ids
    BY <1>0, <1>4 DEF Broadcast, Send, TypeInv, TypeOK, RequestsInShape
  <2>2. Witnessed(seen[r.id], r.row)
    BY <1>0, <1>4 DEF Broadcast, Send, SessionsSeen, SessionSeen
  <2>3. \E type \in {"user_created", "user_updated", "avatar_update"} : Publish(type, r)
    BY <1>4 DEF Broadcast, Send
  <2> QED
    BY <1>3, <2>1, <2>2, <2>3
<1> QED
  BY <1>2, <1>4, WhoWritesLog DEF vars

\* What an event makes of a witnessed table of copies is witnessed.
LEMMA CopiesStep == HistoryInv /\ [Next]_vars => CopiesWereAuthoritative'
<1> SUFFICES ASSUME HistoryInv, [Next]_vars PROVE CopiesWereAuthoritative'
  OBVIOUS
<1>0. /\ TypeInv /\ Born /\ LogSeen /\ CopiesWereAuthoritative
      /\ \A u \in Ids : seen[u] \subseteq seen'[u]
  BY SeenGrows DEF HistoryInv
<1>1. \A s \in Services, u \in Ids :
         copy[s][u] # NoRow => Witnessed(seen'[u], copy[s][u])
  BY <1>0, WitnessedStays DEF CopiesWereAuthoritative
<1>2. CASE UNCHANGED copy
  BY <1>1, <1>2 DEF CopiesWereAuthoritative
<1>3. ASSUME NEW s \in Services, Apply(s) PROVE CopiesWereAuthoritative'
  <2> DEFINE e == log[sub[s].pos]
  <2>1. sub[s].pos \in 1..Len(log) /\ e \in Event /\ UNCHANGED seen
    BY <1>0, <1>3 DEF Apply, TypeInv, TypeOK, PositionsInLog, Consumer, dbVars
  <2>2. Witnessed(seen[e.id], e.row)
    BY <1>0, <2>1 DEF LogSeen
  <2>3. e.row \in Row /\ e.id \in Ids
    BY <2>1 DEF Event
  <2>4. \E r \in seen[e.id] : r.avatar = NoAvatar
    BY <1>0, <2>2, <2>3 DEF Born, Witnessed
  <2>5. Witnessed(seen[e.id], Stored(s, copy[s], e))
    BY <2>2, <2>3, <2>4 DEF Witnessed, Stored, Row
  <2>6. copy' = [copy EXCEPT ![s] = AfterEvent(s, copy[s], e)]
    BY <1>0, <1>3 DEF Apply, TypeInv, TypeOK
  <2>7. copy[s] \in [Ids -> Row \cup {NoRow}]
    BY <1>0 DEF TypeInv, TypeOK
  <2> HIDE DEF e
  <2>8. ASSUME NEW u \in Ids, copy'[s][u] # NoRow PROVE Witnessed(seen'[u], copy'[s][u])
    <3>1. \/ copy'[s][u] = copy[s][u]
          \/ u = e.id /\ copy'[s][u] = Stored(s, copy[s], e)
      BY <1>0, <2>3, <2>6, <2>7 DEF AfterEvent, TypeInv, TypeOK
    <3> QED
      BY <1>1, <2>1, <2>5, <2>8, <3>1
  <2>9. \A t \in Services \ {s} : copy'[t] = copy[t]
    BY <1>0, <2>6 DEF TypeInv, TypeOK
  <2> QED
    BY <1>1, <2>8, <2>9 DEF CopiesWereAuthoritative
<1> QED
  BY <1>2, <1>3, WhoWritesCopy DEF vars

-----------------------------------------------------------------------------
\* A request that is not touched stays witnessed; so do all, if only one moved
\* and its new state is.
LEMMA OthersStaySeen ==
    ASSUME HistoryInv, [Next]_vars, NEW w \in Workers,
           \A v \in Workers \ {w} : req'[v] = req[v],
           SessionSeen(req[w])'
    PROVE  SessionsSeen'
<1> SUFFICES ASSUME NEW v \in Workers \ {w} PROVE SessionSeen(req[v])'
  BY DEF SessionsSeen
<1>1. /\ SessionSeen(req[v])
      /\ req[v].at \notin {"idle", "insert"} => req[v].id \in Ids
      /\ \A u \in Ids : seen[u] \subseteq seen'[u]
  BY SeenGrows DEF HistoryInv, SessionsSeen, TypeInv, RequestsInShape
<1>2. CASE req[v].at \in {"idle", "insert"}
  BY <1>1, <1>2 DEF SessionSeen
<1>3. CASE req[v].at \notin {"idle", "insert"}
  BY <1>1, <1>3, WitnessedStays DEF SessionSeen
<1> QED
  BY <1>2, <1>3

LEMMA FinishKeepsSeen ==
    ASSUME HistoryInv, [Next]_vars, NEW w \in Workers, Finish(w)
    PROVE  SessionsSeen'
<1>1. req \in [Workers -> Request]
  BY DEF HistoryInv, TypeInv, TypeOK
<1>2. req'[w] = Idle /\ \A v \in Workers \ {w} : req'[v] = req[v]
  BY <1>1 DEF Finish
<1>3. SessionSeen(req[w])'
  BY <1>2 DEF SessionSeen, Idle
<1> QED
  BY <1>2, <1>3, OthersStaySeen

\* A step of a request to a point where nothing needs to be witnessed.
LEMMA GotoKeepsSeen ==
    ASSUME HistoryInv, [Next]_vars, NEW w \in Workers, NEW r \in Request, NEW at, Goto(w, r, at),
           /\ at = "insert" => r.row.avatar = NoAvatar
           /\ at = "load" /\ r.op = "status" => r.id # r.actor
           /\ at = "commit" /\ r.op = "status" => WitnessedButActive(seen'[r.id], r.row, r.dirty)
           /\ at \in {"broadcast", "send"} => Witnessed(seen'[r.id], r.row)
    PROVE  SessionsSeen'
<1> DEFINE r1 == [r EXCEPT !.at = at]
<1>1. req \in [Workers -> Request]
  BY DEF HistoryInv, TypeInv, TypeOK
<1>2. req'[w] = r1 /\ \A v \in Workers \ {w} : req'[v] = req[v]
  BY <1>1 DEF Goto
<1>3. /\ r1.at = at /\ r1.op = r.op /\ r1.id = r.id /\ r1.actor = r.actor
      /\ r1.row = r.row /\ r1.dirty = r.dirty
  BY DEF Request
<1> HIDE DEF r1
<1>4. SessionSeen(req[w])'
  BY <1>2, <1>3 DEF SessionSeen
<1> QED
  BY <1>2, <1>4, OthersStaySeen

LEMMA BeginKeepsSeen ==
    ASSUME HistoryInv, [Next]_vars
    PROVE  /\ \A w \in Workers, n \in Names : RegisterCheck(w, n) => SessionsSeen'
           /\ \A w \in Workers, op \in Handlers, a, u \in Ids :
                 Authenticate(w, op, a, u) => SessionsSeen'
<1>1. ASSUME NEW w \in Workers, NEW n \in Names, RegisterCheck(w, n) PROVE SessionsSeen'
  <2> DEFINE r == [Idle EXCEPT !.op = "register", !.row = NewRow(n)]
  <2>1. r \in Request /\ r.row.avatar = NoAvatar
    BY NewRowsAreRows DEF Idle, Request, AllHandlers, NewRow
  <2>2. Goto(w, r, "insert")
    BY <1>1 DEF RegisterCheck
  <2> HIDE DEF r
  <2> QED
    BY <2>1, <2>2, GotoKeepsSeen
<1>2. ASSUME NEW w \in Workers, NEW op \in Handlers, NEW a \in Ids, NEW u \in Ids,
             Authenticate(w, op, a, u)
      PROVE  SessionsSeen'
  <2> DEFINE r == [Idle EXCEPT !.op = op, !.actor = a, !.id = u, !.row = users[a]]
  <2>1. op \in AllHandlers /\ users[a] \in Row
    BY <1>2, ConstantsOK DEF HistoryInv, TypeInv, TypeOK, Authenticate, Exists
  <2>2. r \in Request /\ r.op = op /\ r.id = u /\ r.actor = a
    BY <2>1 DEF Idle, Request
  <2>3. op = "status" => u # a
    BY <1>2 DEF Authenticate
  <2>4. Goto(w, r, "load")
    BY <1>2 DEF Authenticate
  <2> HIDE DEF r
  <2> QED
    BY <2>2, <2>3, <2>4, GotoKeepsSeen
<1> QED
  BY <1>1, <1>2

LEMMA RegisterInsertKeepsSeen ==
    ASSUME HistoryInv, [Next]_vars, NEW w \in Workers, RegisterInsert(w)
    PROVE  SessionsSeen'
<1> DEFINE r == [req[w] EXCEPT !.id = nextId]
<1>1. CASE Finish(w)
  BY <1>1, FinishKeepsSeen
<1>2. CASE InsertRow(req[w].row) /\ Goto(w, r, "refresh")
  <2>1. nextId \in Ids
    BY <1>2, ConstantsOK DEF InsertRow, Ids, HistoryInv, TypeInv, TypeOK
  <2>2. r \in Request
    BY <2>1 DEF HistoryInv, TypeInv, TypeOK, Request
  <2> HIDE DEF r
  <2> QED
    BY <1>2, <2>2, GotoKeepsSeen
<1> QED
  BY <1>1, <1>2 DEF RegisterInsert

\* Loading another account's row, and assigning to its is_active alone.
LEMMA LoadKeepsSeen ==
    ASSUME HistoryInv, [Next]_vars, NEW w \in Workers, Load(w)
    PROVE  SessionsSeen'
<1> DEFINE r == req[w]
           r0 == IF r.id = r.actor THEN r ELSE [r EXCEPT !.row = users[r.id]]
<1>0. /\ r \in Request /\ r.row \in Row /\ r.id \in Ids
      /\ TableSeen /\ users \in [Ids -> Row \cup {NoRow}]
  BY DEF HistoryInv, TypeInv, TypeOK, RequestsInShape, Load
<1>1. CASE Finish(w)
  BY <1>1, FinishKeepsSeen
<1>2. ASSUME NEW q \in Request, q.op # "status", Goto(w, q, "commit") \/ Goto(w, q, "notice")
      PROVE  SessionsSeen'
  BY <1>2, GotoKeepsSeen
<1>3. ASSUME Exists(r.id) \/ r.id = r.actor
      PROVE  r0 \in Request /\ r0.op = r.op /\ r0.row \in Row /\ r0.id = r.id
  <2>1. CASE r.id = r.actor
    BY <1>0, <2>1
  <2>2. CASE r.id # r.actor
    <3>1. users[r.id] \in Row
      BY <1>0, <1>3, <2>2 DEF Exists
    <3> QED
      BY <1>0, <2>2, <3>1 DEF Request
  <2> QED
    BY <2>1, <2>2
<1>4. ASSUME NEW q \in Request, NEW column \in Columns, NEW row \in Row
      PROVE  /\ Assigned(q, column, row) \in Request
             /\ Assigned(q, column, row).op = q.op
             /\ Assigned(q, column, row).id = q.id
             /\ Assigned(q, column, row).row = row
             /\ Assigned(q, column, row).dirty = IF row = q.row THEN {} ELSE {column}
  BY DEF Assigned, Request
<1>5. ASSUME NEW role \in Roles, r.op = "role", Exists(r.id),
             Goto(w, [Assigned(r0, "role", [r0.row EXCEPT !.role = role])
                        EXCEPT !.old = r0.row.role], "commit")
      PROVE  SessionsSeen'
  <2> DEFINE row == [r0.row EXCEPT !.role = role]
             r1 == Assigned(r0, "role", row)
             r2 == [r1 EXCEPT !.old = r0.row.role]
  <2>1. row \in Row
    BY <1>3, <1>5 DEF Row
  <2>2. r1 \in Request /\ r1.op = "role"
    <3>1. r0 \in Request /\ r0.op = "role"
      BY <1>3, <1>5
    <3>2. "role" \in Columns
      BY DEF Columns
    <3> HIDE DEF r, r0, row
    <3> QED
      BY <2>1, <3>1, <3>2 DEF Assigned, Request
  <2>3. r2 \in Request /\ r2.op = "role"
    <3>1. r0.row \in Row
      BY <1>3, <1>5
    <3>2. r0.row.role \in Roles
      <4> HIDE DEF r0
      <4> QED
        BY <3>1 DEF Row
    <3> HIDE DEF r1, r0
    <3> QED
      BY <2>2, <3>2 DEF Request
  <2>4. Goto(w, r2, "commit")
    BY <1>5
  <2> HIDE DEF r2
  <2> QED
    BY <1>2, <2>3, <2>4
<1>6. ASSUME NEW b \in BOOLEAN, r.op = "status", Exists(r.id),
             Goto(w, Assigned(r0, "active", [r0.row EXCEPT !.active = b]), "commit")
      PROVE  SessionsSeen'
  <2> DEFINE row == [r0.row EXCEPT !.active = b]
             r1 == Assigned(r0, "active", row)
  <2>1. row \in Row
    BY <1>3, <1>6 DEF Row
  <2>2. /\ r1 \in Request /\ r1.id = r.id /\ r1.row = row
        /\ r1.dirty = IF row = r0.row THEN {} ELSE {"active"}
    <3> HIDE DEF r0, row
    <3> QED
      BY <1>3, <1>4, <1>6, <2>1 DEF Columns
  <2>3. r.id # r.actor
    BY <1>6 DEF HistoryInv, SessionsSeen, SessionSeen, Load
  <2>4. r0.row = users[r.id] /\ users[r.id] \in seen[r.id] /\ users[r.id] \in Row
    BY <1>0, <1>6, <2>3 DEF Request, TableSeen, Exists
  <2>5. WitnessedButActive(seen[r.id], row, r1.dirty)
    <3>1. row.name = users[r.id].name /\ row.role = users[r.id].role
          /\ row.avatar = users[r.id].avatar
      BY <2>4 DEF Row
    <3>2. "active" \in r1.dirty \/ row = users[r.id]
      <4> HIDE DEF r1, row
      <4> QED
        BY <2>2, <2>4
    <3> HIDE DEF r1, row
    <3> QED
      BY <2>4, <3>1, <3>2 DEF WitnessedButActive
  <2>6. WitnessedButActive(seen'[r.id], row, r1.dirty)
    BY <1>0, <2>5, SeenGrows, WitnessedStays DEF HistoryInv
  <2>7. Goto(w, r1, "commit")
    BY <1>6
  <2> HIDE DEF r1, row
  <2> QED
    BY <2>2, <2>6, <2>7, GotoKeepsSeen
<1>7. CASE r.op = "delete" /\ Exists(r.id) /\ Goto(w, r0, "notice")
  BY <1>2, <1>3, <1>7
<1>8. ASSUME NEW row \in Row, NEW column \in Columns, r.op # "status",
             Goto(w, Assigned(r, column, row), "commit")
      PROVE  SessionsSeen'
  <2> DEFINE q == Assigned(r, column, row)
  <2>1. q \in Request /\ q.op = r.op
    BY <1>0, <1>8 DEF Assigned, Request
  <2>2. Goto(w, q, "commit")
    BY <1>8
  <2> HIDE DEF q
  <2> QED
    BY <1>2, <1>8, <2>1, <2>2
<1>9. CASE r.op \in {"profile", "upload"}
  <2>1. ASSUME NEW a \in Avatars PROVE [r.row EXCEPT !.avatar = a] \in Row
    BY <1>0 DEF Row
  <2>2. PICK a \in Avatars : Goto(w, Assigned(r, "avatar", [r.row EXCEPT !.avatar = a]), "commit")
    BY <1>9 DEF Load
  <2> QED
    BY <1>8, <1>9, <2>1, <2>2 DEF Columns
<1>10. CASE r.op = "init_admin"
  <2>1. [r.row EXCEPT !.role = "admin"] \in Row
    BY <1>0, ConstantsOK DEF Row
  <2>2. \/ Finish(w)
        \/ Goto(w, Assigned(r, "role", [r.row EXCEPT !.role = "admin"]), "commit")
    BY <1>10 DEF Load
  <2> QED
    BY <1>1, <1>8, <1>10, <2>1, <2>2 DEF Columns
<1> QED
  BY <1>1, <1>5, <1>6, <1>7, <1>9, <1>10 DEF Load

\* Saving the object of a status change makes its row witnessed.
LEMMA CommitKeepsSeen ==
    ASSUME HistoryInv, [Next]_vars, NEW w \in Workers, Commit(w)
    PROVE  SessionsSeen'
<1> DEFINE r == req[w]
<1>0. /\ r \in Request /\ r.row \in Row /\ r.id \in Ids
      /\ \A u \in Ids : seen[u] \subseteq seen'[u]
      /\ seen \in [Ids -> SUBSET Row]
  BY SeenGrows DEF HistoryInv, TypeInv, TypeOK, RequestsInShape, Commit
<1>1. CASE Finish(w)
  BY <1>1, FinishKeepsSeen
<1>2. CASE r.op # "status" /\ Goto(w, r, "refresh")
  BY <1>0, <1>2, GotoKeepsSeen
<1>3. CASE r.op = "status" /\ ~Finish(w)
  <2>1. WitnessedButActive(seen[r.id], r.row, r.dirty)
    BY <1>3 DEF HistoryInv, SessionsSeen, SessionSeen, Commit
  <2>2. WitnessedButActive(seen'[r.id], r.row, r.dirty)
    BY <1>0, <2>1, WitnessedStays
  <2>3. Goto(w, r, "send") /\ (r.dirty # {} => WriteRow(r.id, Flushed(r)))
    BY <1>3 DEF Commit
  <2>4. CASE "active" \in r.dirty
    <3>1. Flushed(r) \in seen'[r.id]
      BY <1>0, <2>3, <2>4 DEF WriteRow
    <3>2. Flushed(r).active = r.row.active
      BY <2>4 DEF Flushed
    <3>3. Witnessed(seen'[r.id], r.row)
      BY <2>2, <3>1, <3>2 DEF WitnessedButActive, Witnessed
    <3> QED
      BY <1>0, <2>3, <3>3, GotoKeepsSeen
  <2>5. CASE "active" \notin r.dirty
    <3>1. Witnessed(seen'[r.id], r.row)
      BY <2>2, <2>5 DEF WitnessedButActive, Witnessed
    <3> QED
      BY <1>0, <2>3, <3>1, GotoKeepsSeen
  <2> QED
    BY <2>4, <2>5
<1> QED
  BY <1>1, <1>2, <1>3 DEF Commit

LEMMA RefreshKeepsSeen ==
    ASSUME HistoryInv, [Next]_vars, NEW w \in Workers, Refresh(w)
    PROVE  SessionsSeen'
<1> DEFINE r == req[w]
           r1 == [r EXCEPT !.row = users[r.id], !.dirty = {}]
<1>0. /\ r \in Request /\ r.id \in Ids /\ TableSeen
      /\ \A u \in Ids : seen[u] \subseteq seen'[u]
      /\ users \in [Ids -> Row \cup {NoRow}]
  BY SeenGrows DEF HistoryInv, TypeInv, TypeOK, RequestsInShape, Refresh
<1>1. CASE Finish(w)
  BY <1>1, FinishKeepsSeen
<1>2. CASE Exists(r.id) /\ Goto(w, r1, IF r.op = "upload" THEN "broadcast" ELSE "send")
  <2>1. users[r.id] \in Row /\ users[r.id] \in seen'[r.id]
    BY <1>0, <1>2 DEF Exists, TableSeen
  <2>2. r1 \in Request /\ r1.row = users[r.id] /\ r1.id = r.id
    BY <1>0, <2>1 DEF Request
  <2>3. Goto(w, r1, "broadcast") \/ Goto(w, r1, "send")
    BY <1>2
  <2> HIDE DEF r1
  <2>4. Witnessed(seen'[r1.id], r1.row)
    BY <2>1, <2>2, MemberWitnessed
  <2> QED
    BY <2>2, <2>3, <2>4, GotoKeepsSeen
<1> QED
  BY <1>1, <1>2 DEF Refresh

LEMMA PublishersKeepSeen ==
    ASSUME HistoryInv, [Next]_vars, NEW w \in Workers, Broadcast(w) \/ Send(w) \/ Emit(w)
    PROVE  SessionsSeen'
<1> DEFINE r == req[w]
<1>0. r \in Request /\ UNCHANGED seen
  BY DEF HistoryInv, TypeInv, TypeOK, Broadcast, Send, Emit, dbVars
<1>1. CASE Broadcast(w)
  <2>1. Witnessed(seen'[r.id], r.row) /\ Goto(w, r, "send")
    BY <1>0, <1>1 DEF Broadcast, HistoryInv, SessionsSeen, SessionSeen
  <2> QED
    BY <1>0, <2>1, GotoKeepsSeen
<1>2. CASE Finish(w) \/ Goto(w, r, "notice")
  BY <1>0, <1>2, FinishKeepsSeen, GotoKeepsSeen
<1>3. CASE r.op = "delete" /\ Goto(w, r, "commit")
  BY <1>0, <1>3, GotoKeepsSeen
<1> QED
  BY <1>1, <1>2, <1>3 DEF Send, Emit

LEMMA SessionsStep == HistoryInv /\ [Next]_vars => SessionsSeen'
<1> SUFFICES ASSUME HistoryInv, [Next]_vars PROVE SessionsSeen'
  OBVIOUS
<1>1. CASE UNCHANGED <<req, seen>>
  BY <1>1 DEF HistoryInv, SessionsSeen, SessionSeen
<1>2. ASSUME NEW w \in Workers, Proceed(w) PROVE SessionsSeen'
  BY <1>2, RegisterInsertKeepsSeen, LoadKeepsSeen, CommitKeepsSeen, RefreshKeepsSeen,
     PublishersKeepSeen DEF Proceed
<1>3. CASE RestartUserService
  <2>1. \A w \in Workers : req'[w] = Idle
    BY <1>3 DEF RestartUserService
  <2> QED
    BY <2>1 DEF SessionsSeen, SessionSeen, Idle
<1>4. ASSUME NEW s \in Services, Consume(s) \/ AutoCommit(s) \/ RestartConsumer(s)
      PROVE  SessionsSeen'
  BY <1>1, <1>4 DEF Consume, Fetch, Apply, AutoCommit, RestartConsumer, dbVars, apiVars
<1> QED
  BY <1>1, <1>2, <1>3, <1>4, BeginKeepsSeen DEF Next, vars

\* Every column of every copied row once was that column of the same account in
\* the user service: for any number of handlers and services, and under loss of
\* events, restarts and redelivery.
THEOREM CopiesAreAuthoritative == Spec => []CopiesWereAuthoritative
<1>1. HistoryInv /\ [Next]_vars => HistoryInv'
  BY NextTypeInv, TableStep, SessionsStep, LogStep, CopiesStep DEF HistoryInv
<1>2. HistoryInv => CopiesWereAuthoritative
  BY DEF HistoryInv
<1> QED
  BY <1>1, <1>2, InitHistoryInv, PTL DEF Spec

-----------------------------------------------------------------------------
(* What a step makes of a request, as far as the next proofs ask: which row it *)
(* is about, whether it has changed is_active, and where it goes from where.   *)

Begun(q) ==
    /\ q.dirty = {}
    /\ \/ q.at = "insert" /\ q.op = "register" /\ q.id = 0
       \/ q.at = "load" /\ q.op # "register" /\ Exists(q.id)
Inserted(r, q) ==
    /\ r.at = "insert"
    /\ q.at = "refresh" /\ q.op = r.op /\ q.dirty = r.dirty
    /\ q.id = nextId /\ nextId' = nextId + 1
Continued(r, q) ==
    /\ r.at \notin {"idle", "insert"}
    /\ q.op = r.op /\ q.id = r.id
    /\ q.at \in {"commit", "refresh", "broadcast", "send", "notice"}
    /\ "active" \in q.dirty => "active" \in r.dirty \/ r.op = "status"
    /\ q.at = "notice" => r.op \in {"role", "status", "delete"}
    /\ r.op = "delete" => r.at # "commit" /\ (r.at = "notice" => q.at = "commit")
Moved(r, q) == q = Idle \/ Begun(q) \/ Inserted(r, q) \/ Continued(r, q)

\* One handler goes on with q, and the others stay.
LEMMA GotoMoves ==
    ASSUME TypeInv, NEW w \in Workers, NEW q \in Request, NEW at, Goto(w, q, at),
           Moved(req[w], [q EXCEPT !.at = at])
    PROVE  \A v \in Workers : req'[v] = req[v] \/ Moved(req[v], req'[v])
BY DEF Goto, TypeInv, TypeOK

LEMMA FinishMoves ==
    ASSUME TypeInv, NEW w \in Workers, Finish(w)
    PROVE  \A v \in Workers : req'[v] = req[v] \/ Moved(req[v], req'[v])
BY DEF Finish, Moved, TypeInv, TypeOK

LEMMA BeginMoves ==
    ASSUME TypeInv
    PROVE  /\ \A w \in Workers, n \in Names : RegisterCheck(w, n) =>
                  \A v \in Workers : req'[v] = req[v] \/ Moved(req[v], req'[v])
           /\ \A w \in Workers, op \in Handlers, a, u \in Ids : Authenticate(w, op, a, u) =>
                  \A v \in Workers : req'[v] = req[v] \/ Moved(req[v], req'[v])
<1>1. ASSUME NEW w \in Workers, NEW n \in Names, RegisterCheck(w, n)
      PROVE  \A v \in Workers : req'[v] = req[v] \/ Moved(req[v], req'[v])
  <2> DEFINE q == [Idle EXCEPT !.op = "register", !.row = NewRow(n)]
  <2>1. q \in Request /\ Moved(req[w], [q EXCEPT !.at = "insert"])
    BY NewRowsAreRows DEF Idle, Request, AllHandlers, Moved, Begun
  <2>2. Goto(w, q, "insert")
    BY <1>1 DEF RegisterCheck
  <2> HIDE DEF q
  <2> QED
    BY <2>1, <2>2, GotoMoves
<1>2. ASSUME NEW w \in Workers, NEW op \in Handlers, NEW a \in Ids, NEW u \in Ids,
             Authenticate(w, op, a, u)
      PROVE  \A v \in Workers : req'[v] = req[v] \/ Moved(req[v], req'[v])
  <2> DEFINE q == [Idle EXCEPT !.op = op, !.actor = a, !.id = u, !.row = users[a]]
  <2>1. op \in AllHandlers /\ users[a] \in Row /\ op # "register" /\ Exists(u)
    BY <1>2, ConstantsOK DEF TypeInv, TypeOK, Authenticate, Exists
  <2>2. q \in Request /\ Moved(req[w], [q EXCEPT !.at = "load"])
    BY <2>1 DEF Idle, Request, AllHandlers, Moved, Begun
  <2>3. Goto(w, q, "load")
    BY <1>2 DEF Authenticate
  <2> HIDE DEF q
  <2> QED
    BY <2>2, <2>3, GotoMoves
<1> QED
  BY <1>1, <1>2

LEMMA LoadMoves ==
    ASSUME TypeInv, NEW w \in Workers, Load(w)
    PROVE  \A v \in Workers : req'[v] = req[v] \/ Moved(req[v], req'[v])
<1> DEFINE r == req[w]
           r0 == IF r.id = r.actor THEN r ELSE [r EXCEPT !.row = users[r.id]]
<1>0. r \in Request /\ r.row \in Row /\ r.id \in Ids /\ r.at = "load"
  BY DEF TypeInv, TypeOK, RequestsInShape, Load
<1>1. CASE Finish(w)
  BY <1>1, FinishMoves
<1>2. ASSUME Exists(r.id) \/ r.id = r.actor
      PROVE  r0 \in Request /\ r0.row \in Row /\ r0.op = r.op /\ r0.id = r.id /\ r0.dirty = r.dirty
  <2>1. CASE r.id = r.actor
    BY <1>0, <2>1
  <2>2. CASE r.id # r.actor
    <3>1. users[r.id] \in Row
      BY <1>0, <1>2, <2>2 DEF Exists, TypeInv, TypeOK
    <3> QED
      BY <1>0, <2>2, <3>1 DEF Request
  <2> QED
    BY <2>1, <2>2
<1>3. ASSUME NEW q \in Request, q.row \in Row, q.op = r.op, q.id = r.id, NEW column \in Columns,
             NEW row \in Row
      PROVE  LET q1 == Assigned(q, column, row) IN
             q1 \in Request /\ q1.op = r.op /\ q1.id = r.id /\ q1.dirty \subseteq {column}
  BY <1>3 DEF Assigned, Request, Columns
<1>4. ASSUME NEW q \in Request, q.op = r.op, q.id = r.id, NEW column \in Columns,
             q.dirty \subseteq {column}, column = "active" => r.op = "status", r.op # "delete",
             Goto(w, q, "commit")
      PROVE  \A v \in Workers : req'[v] = req[v] \/ Moved(req[v], req'[v])
  <2> DEFINE q1 == [q EXCEPT !.at = "commit"]
  <2>1. q1.at = "commit" /\ q1.op = q.op /\ q1.id = q.id /\ q1.dirty = q.dirty
    BY <1>4 DEF Request
  <2> HIDE DEF q1
  <2>2. Continued(r, q1)
    BY <1>0, <1>4, <2>1 DEF Continued
  <2>3. Moved(r, q1)
    BY <2>2 DEF Moved
  <2> QED
    BY <1>4, <2>3, GotoMoves DEF q1
<1>5. CASE r.op = "role" /\ ~Finish(w)
  <2>0. Exists(r.id)
    BY <1>5 DEF Load
  <2>1. PICK role \in Roles :
          Goto(w, [Assigned(r0, "role", [r0.row EXCEPT !.role = role])
                     EXCEPT !.old = r0.row.role], "commit")
    BY <1>5 DEF Load
  <2> DEFINE row == [r0.row EXCEPT !.role = role]
             q1 == Assigned(r0, "role", row)
             q2 == [q1 EXCEPT !.old = r0.row.role]
  <2>2. row \in Row /\ r0.row.role \in Roles
    <3>1. r0.row \in Row
      BY <1>2, <2>0
    <3> HIDE DEF r0
    <3> QED
      BY <3>1 DEF Row
  <2>3. q1 \in Request /\ q1.op = r.op /\ q1.id = r.id /\ q1.dirty \subseteq {"role"}
    <3> HIDE DEF row, r, r0
    <3> QED
      BY <1>2, <1>3, <2>0, <2>2 DEF Columns
  <2>4. Goto(w, q2, "commit")
    BY <2>1
  <2>5. q2 \in Request /\ q2.op = r.op /\ q2.id = r.id /\ q2.dirty \subseteq {"role"}
    <3> HIDE DEF q1, r0
    <3> QED
      BY <2>2, <2>3 DEF Request
  <2> HIDE DEF q2
  <2> QED
    BY <1>4, <1>5, <2>4, <2>5 DEF Columns
<1>6. CASE r.op = "status" /\ ~Finish(w)
  <2>0. Exists(r.id)
    BY <1>6 DEF Load
  <2>1. PICK b \in BOOLEAN : Goto(w, Assigned(r0, "active", [r0.row EXCEPT !.active = b]), "commit")
    BY <1>6 DEF Load
  <2> DEFINE row == [r0.row EXCEPT !.active = b]
             q1 == Assigned(r0, "active", row)
  <2>2. row \in Row
    <3>1. r0.row \in Row
      BY <1>2, <2>0
    <3> HIDE DEF r0
    <3> QED
      BY <3>1 DEF Row
  <2>3. q1 \in Request /\ q1.op = r.op /\ q1.id = r.id /\ q1.dirty \subseteq {"active"}
    <3> HIDE DEF row, r, r0
    <3> QED
      BY <1>2, <1>3, <2>0, <2>2 DEF Columns
  <2>4. Goto(w, q1, "commit")
    BY <2>1
  <2> HIDE DEF q1
  <2> QED
    BY <1>4, <1>6, <2>3, <2>4 DEF Columns
<1>7. CASE r.op = "delete" /\ ~Finish(w)
  <2>1. Exists(r.id) /\ Goto(w, r0, "notice")
    BY <1>7 DEF Load
  <2> DEFINE q1 == [r0 EXCEPT !.at = "notice"]
  <2>2. q1.at = "notice" /\ q1.op = r.op /\ q1.id = r.id /\ q1.dirty = r.dirty
    <3> HIDE DEF r0
    <3> QED
      BY <1>2, <2>1 DEF Request
  <2> HIDE DEF q1
  <2>3. Moved(r, q1)
    BY <1>0, <1>7, <2>2 DEF Moved, Continued
  <2> HIDE DEF r0
  <2> QED
    BY <1>2, <2>1, <2>3, GotoMoves DEF q1
<1>8. CASE r.op \in {"profile", "upload"}
  <2>1. PICK a \in Avatars : Goto(w, Assigned(r, "avatar", [r.row EXCEPT !.avatar = a]), "commit")
    BY <1>8 DEF Load
  <2> DEFINE row == [r.row EXCEPT !.avatar = a]
             q1 == Assigned(r, "avatar", row)
  <2>2. row \in Row
    BY <1>0 DEF Row
  <2>3. q1 \in Request /\ q1.op = r.op /\ q1.id = r.id /\ q1.dirty \subseteq {"avatar"}
    <3> HIDE DEF row, r
    <3> QED
      BY <1>0, <1>3, <2>2 DEF Columns
  <2>4. Goto(w, q1, "commit")
    BY <2>1
  <2> HIDE DEF q1
  <2> QED
    BY <1>4, <1>8, <2>3, <2>4 DEF Columns
<1>9. CASE r.op = "init_admin" /\ ~Finish(w)
  <2>1. Goto(w, Assigned(r, "role", [r.row EXCEPT !.role = "admin"]), "commit")
    BY <1>9 DEF Load
  <2> DEFINE row == [r.row EXCEPT !.role = "admin"]
             q1 == Assigned(r, "role", row)
  <2>2. row \in Row
    BY <1>0, ConstantsOK DEF Row
  <2>3. q1 \in Request /\ q1.op = r.op /\ q1.id = r.id /\ q1.dirty \subseteq {"role"}
    <3> HIDE DEF row, r
    <3> QED
      BY <1>0, <1>3, <2>2 DEF Columns
  <2>4. Goto(w, q1, "commit")
    BY <2>1
  <2> HIDE DEF q1
  <2> QED
    BY <1>4, <1>9, <2>3, <2>4 DEF Columns
<1> QED
  BY <1>1, <1>5, <1>6, <1>7, <1>8, <1>9 DEF Load

LEMMA ProceedMoves ==
    ASSUME TypeInv, NEW w \in Workers, Proceed(w)
    PROVE  \A v \in Workers : req'[v] = req[v] \/ Moved(req[v], req'[v])
<1> DEFINE r == req[w]
<1>0. r \in Request
  BY DEF TypeInv, TypeOK
<1>1. CASE Finish(w)
  BY <1>1, FinishMoves
<1>2. ASSUME RegisterInsert(w), ~Finish(w)
      PROVE  \A v \in Workers : req'[v] = req[v] \/ Moved(req[v], req'[v])
  <2> DEFINE q == [r EXCEPT !.id = nextId]
  <2>1. nextId \in Ids /\ nextId' = nextId + 1 /\ r.at = "insert" /\ Goto(w, q, "refresh")
    BY <1>2, ConstantsOK DEF RegisterInsert, InsertRow, Ids, TypeInv, TypeOK
  <2>2. q \in Request
    BY <1>0, <2>1 DEF Request
  <2>3. Inserted(r, [q EXCEPT !.at = "refresh"])
    BY <1>0, <2>1 DEF Request, Inserted
  <2> HIDE DEF q
  <2> QED
    BY <2>1, <2>2, <2>3, GotoMoves DEF Moved
<1>3. ASSUME NEW at \in {"commit", "refresh", "broadcast", "send", "notice"}, Goto(w, r, at),
             r.at \notin {"idle", "insert"},
             at = "notice" => r.op \in {"role", "status", "delete"},
             r.op = "delete" => r.at # "commit" /\ (r.at = "notice" => at = "commit")
      PROVE  \A v \in Workers : req'[v] = req[v] \/ Moved(req[v], req'[v])
  <2>1. Continued(r, [r EXCEPT !.at = at])
    BY <1>0, <1>3 DEF Request, Continued
  <2> QED
    BY <1>0, <1>3, <2>1, GotoMoves DEF Moved
<1>4. ASSUME Commit(w), ~Finish(w)
      PROVE  \A v \in Workers : req'[v] = req[v] \/ Moved(req[v], req'[v])
  <2>1. r.at = "commit" /\ r.op # "delete" /\ (Goto(w, r, "send") \/ Goto(w, r, "refresh"))
    BY <1>4 DEF Commit
  <2> QED
    BY <1>3, <2>1
<1>5. ASSUME Refresh(w), ~Finish(w)
      PROVE  \A v \in Workers : req'[v] = req[v] \/ Moved(req[v], req'[v])
  <2> DEFINE q == [r EXCEPT !.row = users[r.id], !.dirty = {}]
  <2>1. r.at = "refresh" /\ Exists(r.id) /\ r.id \in Ids
        /\ (Goto(w, q, "send") \/ Goto(w, q, "broadcast"))
    BY <1>5 DEF Refresh, TypeInv, RequestsInShape
  <2>2. q \in Request
    BY <1>0, <2>1 DEF Request, TypeInv, TypeOK
  <2>3. ASSUME NEW at \in {"send", "broadcast"}
        PROVE  Continued(r, [q EXCEPT !.at = at])
    BY <1>0, <2>1 DEF Request, Continued
  <2> HIDE DEF q
  <2> QED
    BY <2>1, <2>2, <2>3, GotoMoves DEF Moved
<1>6. ASSUME Broadcast(w) \/ Send(w) \/ Emit(w), ~Finish(w)
      PROVE  \A v \in Workers : req'[v] = req[v] \/ Moved(req[v], req'[v])
  BY <1>3, <1>6 DEF Broadcast, Send, Emit, HearsOf
<1> QED
  BY <1>1, <1>2, <1>4, <1>5, <1>6, LoadMoves DEF Proceed

LEMMA RequestsMove ==
    ASSUME TypeInv, [Next]_vars, NEW w \in Workers
    PROVE  req'[w] = req[w] \/ Moved(req[w], req'[w])
<1>1. CASE UNCHANGED req
  BY <1>1
<1>2. CASE RestartUserService
  BY <1>2 DEF RestartUserService, Moved
<1>3. ASSUME NEW s \in Services, Consume(s) \/ AutoCommit(s) \/ RestartConsumer(s)
      PROVE  UNCHANGED req
  BY <1>3 DEF Consume, Fetch, Apply, AutoCommit, RestartConsumer, apiVars
<1> QED
  BY <1>1, <1>2, <1>3, BeginMoves, ProceedMoves DEF Next, vars

\* What a step makes of the table: a new row under the next id, or the row of a
\* request that commits.
Replaced(w, u) ==
    /\ Commit(w) /\ u = req[w].id /\ Exists(u)
    /\ \/ req[w].op = "delete" /\ users'[u] = NoRow
       \/ req[w].op # "delete" /\ req[w].dirty # {} /\ users'[u] = Flushed(req[w])
LEMMA TableMoves ==
    ASSUME TypeInv, [Next]_vars
    PROVE  /\ nextId' \in {nextId, nextId + 1}
           /\ \A u \in Ids : \/ users'[u] = users[u]
                             \/ u = nextId /\ nextId' = nextId + 1
                             \/ \E w \in Workers : Replaced(w, u)
<1>1. CASE UNCHANGED <<users, nextId>>
  BY <1>1
<1>2. ASSUME NEW row, InsertRow(row)
      PROVE  nextId' = nextId + 1 /\ \A u \in Ids : users'[u] = users[u] \/ u = nextId
  BY <1>2 DEF InsertRow, WriteRow, TypeInv, TypeOK
<1>3. ASSUME NEW w \in Workers, RegisterInsert(w)
      PROVE  /\ nextId' = nextId + 1
             /\ \A u \in Ids : users'[u] = users[u] \/ u = nextId
  BY <1>2, <1>3 DEF RegisterInsert
<1>4. ASSUME NEW w \in Workers, Commit(w)
      PROVE  nextId' = nextId /\ \A u \in Ids : users'[u] = users[u] \/ Replaced(w, u)
  <2>1. req[w].id \in Ids /\ nextId' = nextId
    BY <1>4 DEF Commit, TypeInv, RequestsInShape
  <2>2. \A u \in Ids : u # req[w].id => users'[u] = users[u]
    BY <1>4, <2>1 DEF Commit, WriteRow, TypeInv, TypeOK
  <2>3. LET u == req[w].id IN users'[u] = users[u] \/ Replaced(w, u)
    BY <1>4, <2>1 DEF Commit, Replaced, WriteRow, TypeInv, TypeOK, Exists
  <2> QED
    BY <2>1, <2>2, <2>3
<1>5. CASE RestartUserService
  BY <1>1, <1>2, <1>5 DEF RestartUserService, dbVars
<1>6. ASSUME Next, \A w \in Workers : ~RegisterInsert(w) /\ ~Commit(w), ~RestartUserService
      PROVE  UNCHANGED <<users, nextId>>
  BY <1>6 DEF Next, Proceed, Consume, RegisterCheck, Authenticate, Begin, Load, Refresh, Broadcast,
     Send, Emit, Fetch, Apply, AutoCommit, RestartConsumer, dbVars
<1> QED
  BY <1>1, <1>3, <1>4, <1>5, <1>6 DEF vars

\* Ids are handed out in order, and what handlers work on has one.
Numbered ==
    /\ \A u \in Ids : Exists(u) => u < nextId
    /\ \A w \in Workers : req[w].id < nextId
\* Only the handler of a status change has is_active among its changes.
StatusChanges == \A w \in Workers : "active" \in req[w].dirty => req[w].op = "status"

LEMMA NumberedStays == TypeInv /\ Numbered /\ [Next]_vars => Numbered'
<1> SUFFICES ASSUME TypeInv, Numbered, [Next]_vars PROVE Numbered'
  OBVIOUS
<1>0. nextId \in Nat /\ nextId >= 1 /\ nextId' \in {nextId, nextId + 1}
  BY TableMoves DEF TypeInv, TypeOK
<1>1. ASSUME NEW u \in Ids, Exists(u)' PROVE u < nextId'
  <2>1. Exists(u) \/ (u = nextId /\ nextId' = nextId + 1)
    <3>1. users'[u] # NoRow
      BY <1>1 DEF Exists
    <3>2. CASE users'[u] = users[u]
      BY <3>1, <3>2 DEF Exists
    <3>3. CASE \E w \in Workers : Replaced(w, u)
      BY <3>3 DEF Replaced
    <3> QED
      BY <3>2, <3>3, TableMoves
  <2>2. u \in Nat
    BY DEF Ids
  <2> QED
    BY <1>0, <2>1, <2>2 DEF Numbered
<1>2. ASSUME NEW w \in Workers PROVE req'[w].id < nextId'
  <2>1. req[w].id \in Nat /\ req[w].id < nextId
    BY DEF Numbered, TypeInv, TypeOK, Request, Ids
  <2>2. CASE req'[w] = req[w] \/ Continued(req[w], req'[w])
    BY <1>0, <2>1, <2>2 DEF Continued
  <2>3. CASE req'[w] = Idle
    BY <1>0, <2>3 DEF Idle
  <2>4. CASE Begun(req'[w])
    <3>1. req'[w].id = 0 \/ (Exists(req'[w].id) /\ req'[w].id \in Ids)
      <4>1. req'[w] \in Request /\ 0 \notin Ids
        BY NextTypeInv DEF TypeInv, TypeOK, Ids
      <4>2. CASE req'[w].id \in Ids
        BY <2>4, <4>2, <4>1 DEF Begun
      <4>3. CASE req'[w].id = 0
        BY <4>3
      <4> QED
        BY <4>1, <4>2, <4>3 DEF Request
    <3>2. req'[w].id = 0 \/ req'[w].id < nextId
      BY <3>1 DEF Numbered
    <3>3. req'[w].id \in Nat
      BY <3>1 DEF Ids
    <3> QED
      BY <1>0, <3>2, <3>3
  <2>5. CASE Inserted(req[w], req'[w])
    BY <1>0, <2>5 DEF Inserted
  <2> QED
    BY <2>2, <2>3, <2>4, <2>5, RequestsMove DEF Moved
<1> QED
  BY <1>1, <1>2 DEF Numbered

LEMMA StatusChangesStays == TypeInv /\ StatusChanges /\ [Next]_vars => StatusChanges'
BY RequestsMove DEF StatusChanges, Moved, Begun, Inserted, Continued, Idle

LEMMA InitNumbered == Init => Numbered /\ StatusChanges
BY DEF Init, Numbered, StatusChanges, Idle, Exists, Ids

\* Bans are lifted by handlers of status changes only, whatever rows the others
\* have in their sessions: a commit writes is_active only if it is modified, and
\* ids are not handed out again.
THEOREM BansStay == Spec => OnlyStatusLiftsBan
<1> DEFINE Inv == TypeInv /\ Numbered /\ StatusChanges
           Lifted == \E u \in Ids :
             /\ Exists(u) /\ users'[u] # NoRow /\ ~users[u].active /\ users'[u].active
             /\ ~ \E w \in Workers : req[w].op = "status" /\ req[w].id = u /\ req[w].at = "commit"
<1>1. Init => Inv
  BY InitTypeInv, InitNumbered
<1>2. Inv /\ [Next]_vars => Inv'
  BY NextTypeInv, NumberedStays, StatusChangesStays
<1>3. Inv /\ [Next]_vars => ~Lifted
  <2> SUFFICES ASSUME Inv, [Next]_vars,
                      NEW u \in Ids, Exists(u), users'[u] # NoRow, ~users[u].active, users'[u].active
               PROVE  \E w \in Workers : req[w].op = "status" /\ req[w].id = u /\ req[w].at = "commit"
    BY DEF Lifted
  <2>1. u # nextId
    BY DEF Numbered, TypeInv, TypeOK, Ids
  <2>2. users'[u] # users[u]
    OBVIOUS
  <2>3. PICK w \in Workers : Replaced(w, u)
    BY <2>1, <2>2, TableMoves
  <2>4. users'[u] = Flushed(req[w]) /\ u = req[w].id /\ Commit(w)
    BY <2>3 DEF Replaced
  <2>5. "active" \in req[w].dirty
    BY <2>4 DEF Flushed
  <2> QED
    BY <2>4, <2>5 DEF StatusChanges, Commit
<1>4. Inv /\ [Next]_vars => [\A u \in Ids :
          Exists(u) /\ users'[u] # NoRow /\ ~users[u].active /\ users'[u].active
              => \E w \in Workers : req[w].op = "status" /\ req[w].id = u
                                    /\ req[w].at = "commit"]_vars
  BY <1>3
<1> HIDE DEF Inv, Lifted
<1> QED
  BY <1>1, <1>2, <1>4, PTL DEF Spec, OnlyStatusLiftsBan

-----------------------------------------------------------------------------
(* A notice of deletion is sent before the deletion commits, and not         *)
(* whenever it could be true: the row must not come back under its id, and   *)
(* the handler that has told must be the one that deletes.                   *)

\* The handlers that tell are those that have something to tell.
Telling == \A w \in Workers : req[w].at = "notice" => req[w].op \in {"role", "status", "delete"}
\* Whoever was told of a deletion had an account.
ToldOfAccounts == \A n \in notices : n.id < nextId
\* A deletion that was told is going to commit, or has.
DeletionsPending ==
    restarts = 0 => \A u \in Ids :
        [type |-> "account_deleted", id |-> u] \in notices /\ Exists(u)
            => \E w \in Workers : req[w].op = "delete" /\ req[w].id = u /\ req[w].at = "commit"
NoticeInv == TypeInv /\ Numbered /\ Telling /\ ToldOfAccounts /\ DeletionsPending

\* Who tells, and what.
LEMMA WhoTells ==
    ASSUME [Next]_vars
    PROVE  \/ UNCHANGED notices
           \/ \E w \in Workers :
                /\ Emit(w)
                /\ notices' = notices \cup {[type |-> NoticeType(req[w].op), id |-> req[w].id]}
BY DEF Next, Proceed, Consume, RegisterCheck, RegisterInsert, Authenticate, Begin, Load, Commit,
       Refresh, Broadcast, Send, Emit, RestartUserService, Fetch, Apply, AutoCommit,
       RestartConsumer, apiVars, vars

LEMMA DeletionsPendingStays == NoticeInv /\ [Next]_vars => DeletionsPending'
<1> SUFFICES ASSUME NoticeInv, [Next]_vars, restarts' = 0, NEW u \in Ids,
                    [type |-> "account_deleted", id |-> u] \in notices', Exists(u)'
             PROVE  \E w \in Workers : req'[w].op = "delete" /\ req'[w].id = u /\ req'[w].at = "commit"
  BY DEF DeletionsPending
<1>0. TypeInv /\ restarts \in Nat
  BY DEF NoticeInv, TypeInv, TypeOK
<1>1. restarts = 0 /\ ~RestartUserService
  <2>1. CASE RestartUserService
    BY <1>0, <2>1 DEF RestartUserService
  <2>2. ASSUME NEW s \in Services, Consume(s) \/ AutoCommit(s) \/ RestartConsumer(s)
        PROVE  restarts' \in {restarts, restarts + 1} /\ UNCHANGED req
    BY <2>2 DEF Consume, Fetch, Apply, AutoCommit, RestartConsumer, apiVars
  <2>3. ASSUME NEW w \in Workers, Proceed(w)
        PROVE  UNCHANGED restarts
    BY <2>3 DEF Proceed, RegisterInsert, Load, Commit, Refresh, Broadcast, Send, Emit
  <2>4. ASSUME NEW w \in Workers, NEW op, Begin(w, op)
        PROVE  UNCHANGED restarts
    BY <2>4 DEF Begin
  <2>5. ASSUME \/ \E w \in Workers, n \in Names : RegisterCheck(w, n)
               \/ \E w \in Workers, op \in Handlers, a, t \in Ids : Authenticate(w, op, a, t)
        PROVE  UNCHANGED restarts
    BY <2>4, <2>5 DEF RegisterCheck, Authenticate
  <2>6. CASE ~RestartUserService
    <3>1. UNCHANGED restarts \/ restarts' = restarts + 1
      BY <2>2, <2>3, <2>5, <2>6 DEF Next, vars
    <3> QED
      BY <1>0, <2>6, <3>1
  <2> QED
    BY <2>1, <2>6
<1>2. CASE \E w \in Workers : Emit(w) /\ req[w].op = "delete" /\ req[w].id = u
  <2>1. PICK w \in Workers : Emit(w) /\ req[w].op = "delete" /\ req[w].id = u
    BY <1>2
  <2>2. Goto(w, req[w], "commit")
    BY <2>1 DEF Emit
  <2>3. req'[w] = [req[w] EXCEPT !.at = "commit"] /\ req[w] \in Request
    BY <1>0, <2>2 DEF Goto, TypeInv, TypeOK
  <2> QED
    BY <2>1, <2>3 DEF Request
<1>3. CASE [type |-> "account_deleted", id |-> u] \in notices
  <2>1. u < nextId
    BY <1>3 DEF NoticeInv, ToldOfAccounts
  <2>2. Exists(u)
    <3>1. u # nextId
      BY <1>0, <2>1 DEF TypeInv, TypeOK, Ids
    <3> QED
      BY <1>0, <3>1, TableMoves DEF Exists, Replaced
  <2>3. PICK w \in Workers : req[w].op = "delete" /\ req[w].id = u /\ req[w].at = "commit"
    BY <1>1, <1>3, <2>2 DEF NoticeInv, DeletionsPending
  <2>4. CASE req'[w] = req[w]
    BY <2>3, <2>4
  <2>5. CASE req'[w] # req[w]
    <3>1. PICK v \in Workers : Proceed(v) /\ (req'[w] # req[w] => v = w)
      BY <1>0, <1>1, <2>3, <2>5 DEF Next, Consume, RegisterCheck, Authenticate, Begin,
         Goto, Fetch, Apply, AutoCommit, RestartConsumer, apiVars, vars, TypeInv, TypeOK,
         Proceed, RegisterInsert, Load, Commit, Refresh, Broadcast, Send, Emit, Finish
    <3>2. Commit(w)
      BY <2>3, <2>5, <3>1 DEF Proceed, RegisterInsert, Load, Refresh, Broadcast, Send, Emit
    <3>3. users'[u] = NoRow
      BY <1>0, <2>3, <3>2 DEF Commit, TypeInv, TypeOK
    <3> QED
      BY <3>3 DEF Exists
  <2> QED
    BY <2>4, <2>5
<1>4. ASSUME NEW w \in Workers, Emit(w),
             [type |-> "account_deleted", id |-> u] = [type |-> NoticeType(req[w].op), id |-> req[w].id]
      PROVE  req[w].op = "delete" /\ req[w].id = u
  <2>1. req[w].op \in {"role", "status", "delete"}
    BY <1>4 DEF Emit, NoticeInv, Telling
  <2>2. NoticeType(req[w].op) = "account_deleted" /\ req[w].id = u
    BY <1>4
  <2> QED
    BY <2>1, <2>2 DEF NoticeType
<1>5. CASE [type |-> "account_deleted", id |-> u] \notin notices
  BY <1>2, <1>4, <1>5, WhoTells
<1> QED
  BY <1>3, <1>5

LEMMA NoticeInvStays == NoticeInv /\ [Next]_vars => NoticeInv'
<1> SUFFICES ASSUME NoticeInv, [Next]_vars PROVE NoticeInv'
  OBVIOUS
<1>1. TypeInv' /\ Numbered' /\ DeletionsPending'
  BY NextTypeInv, NumberedStays, DeletionsPendingStays DEF NoticeInv
<1>2. Telling'
  BY RequestsMove DEF NoticeInv, Telling, Moved, Begun, Inserted, Continued, Idle
<1>3. ToldOfAccounts'
  <2> SUFFICES ASSUME NEW n \in notices' PROVE n.id < nextId'
    BY DEF ToldOfAccounts
  <2>1. n.id < nextId
    BY WhoTells DEF NoticeInv, ToldOfAccounts, Numbered
  <2>2. n.id \in Nat /\ nextId \in Nat /\ nextId' \in {nextId, nextId + 1}
    BY <1>1, TableMoves DEF NoticeInv, TypeInv, TypeOK, Notice, Ids
  <2> QED
    BY <2>1, <2>2
<1> QED
  BY <1>1, <1>2, <1>3 DEF NoticeInv

\* As long as no process stops, whoever was told that his account was deleted has
\* no account, or the handler that told him is about to commit.
THEOREM DeletionNoticesAreTrue == Spec => []DeletionNoticeIsTrue
<1>1. Init => NoticeInv
  <2>1. Init => Telling /\ ToldOfAccounts /\ DeletionsPending
    BY DEF Init, Idle, Telling, ToldOfAccounts, DeletionsPending
  <2> QED
    BY <2>1, InitTypeInv, InitNumbered DEF NoticeInv
<1>2. NoticeInv => DeletionNoticeIsTrue
  BY DEF NoticeInv, DeletionsPending, DeletionNoticeIsTrue
<1> QED
  BY <1>1, <1>2, NoticeInvStays, PTL DEF Spec

-----------------------------------------------------------------------------
(* A consumer that has caught up holds what one pass over the topic builds.   *)

\* Every set of natural numbers has a smallest one, as they are well founded: what
\* stands in for induction below.
LEMMA Smallest ==
    ASSUME NEW S \in SUBSET Nat, S # {}
    PROVE  \E m \in S : \A n \in S : m <= n
<1> DEFINE R == {ss \in Nat \X Nat : ss[1] < ss[2]}
<1>1. IsWellFoundedOn(R, Nat)
  BY NatLessThanWellFounded DEF OpToRel
<1>2. \E m \in S : \A n \in S : ~(<<n, m>> \in R)
  BY <1>1, WFMin
<1>3. PICK m \in S : \A n \in S : ~(<<n, m>> \in R)
  BY <1>2
<1>4. \A n \in S : ~(n < m)
  BY <1>3
<1> QED
  BY <1>4

\* The recursion of Replayed, over a topic l.
EmptyTable == [u \in Ids |-> NoRow]
Replays(l, s, n, f) ==
    f = [k \in 0..n |-> IF k = 0 THEN EmptyTable ELSE AfterEvent(s, f[k - 1], l[k])]
Replay(l, s, n) == (CHOOSE f : Replays(l, s, n, f))[n]

LEMMA ReplayedIsReplay == \A s, n : Replayed(s, n) = Replay(log, s, n)
BY DEF Replayed, Replay, Replays, EmptyTable

\* The recursion has a solution: the smallest n without one has a predecessor
\* with one, which one more step completes.
LEMMA ReplaysExist ==
    ASSUME NEW l, NEW s
    PROVE  \A n \in Nat : \E f : Replays(l, s, n, f)
<1> DEFINE S == {n \in Nat : ~\E f : Replays(l, s, n, f)}
<1> SUFFICES ASSUME S # {} PROVE FALSE
  OBVIOUS
<1>1. PICK m \in S : \A n \in S : m <= n
  BY Smallest
<1>2. m \in Nat /\ ~\E f : Replays(l, s, m, f)
  BY <1>1
<1>3. CASE m = 0
  <2>1. Replays(l, s, m, [k \in 0..m |-> EmptyTable])
    <3>1. [k \in 0..m |-> EmptyTable] =
          [k \in 0..m |-> IF k = 0 THEN EmptyTable
                          ELSE AfterEvent(s, [i \in 0..m |-> EmptyTable][k - 1], l[k])]
      BY <1>3
    <3> QED
      BY <3>1 DEF Replays
  <2> QED
    BY <1>2, <2>1
<1>4. CASE m # 0
  <2>1. m - 1 \in Nat /\ m - 1 < m /\ m - 1 \notin S
    BY <1>1, <1>2, <1>4
  <2> HIDE DEF S
  <2>2. PICK f : Replays(l, s, m - 1, f)
    BY <2>1 DEF S
  <2> DEFINE g == [k \in 0..m |-> IF k = m THEN AfterEvent(s, f[m - 1], l[m]) ELSE f[k]]
  <2>3. \A k \in 0..(m - 1) : f[k] = IF k = 0 THEN EmptyTable ELSE AfterEvent(s, f[k - 1], l[k])
    BY <2>2 DEF Replays
  <2>4. \A k \in 0..m : g[k] = IF k = 0 THEN EmptyTable ELSE AfterEvent(s, g[k - 1], l[k])
    BY <1>2, <1>4, <2>1, <2>3
  <2>5. g = [k \in 0..m |-> IF k = 0 THEN EmptyTable ELSE AfterEvent(s, g[k - 1], l[k])]
    BY <2>4
  <2> HIDE DEF g
  <2> QED
    BY <1>2, <2>5 DEF Replays
<1> QED
  BY <1>3, <1>4

\* And no other one, as far as two topics agree.
LEMMA ReplaysAgree ==
    ASSUME NEW l, NEW l1, NEW s, NEW n \in Nat, NEW n1 \in Nat, n <= n1,
           \A k \in 1..n : l[k] = l1[k]
    PROVE  \A f, g : Replays(l, s, n, f) /\ Replays(l1, s, n1, g) => \A k \in 0..n : f[k] = g[k]
<1> SUFFICES ASSUME NEW f, NEW g, Replays(l, s, n, f), Replays(l1, s, n1, g)
             PROVE  \A k \in 0..n : f[k] = g[k]
  OBVIOUS
<1> DEFINE S == {k \in 0..n : f[k] # g[k]}
<1> SUFFICES ASSUME S # {} PROVE FALSE
  OBVIOUS
<1>1. PICK m \in S : \A k \in S : m <= k
  <2>1. S \in SUBSET Nat
    OBVIOUS
  <2> HIDE DEF S
  <2> QED
    BY <2>1, Smallest
<1>2. /\ \A k \in 0..n : f[k] = IF k = 0 THEN EmptyTable ELSE AfterEvent(s, f[k - 1], l[k])
      /\ \A k \in 0..n1 : g[k] = IF k = 0 THEN EmptyTable ELSE AfterEvent(s, g[k - 1], l1[k])
  BY DEF Replays
<1>3. m # 0 /\ m \in 0..n /\ m \in 0..n1
  BY <1>1, <1>2
<1>4. m - 1 \in 0..n /\ m - 1 < m /\ m - 1 \notin S
  BY <1>1, <1>3
<1>5. f[m - 1] = g[m - 1]
  BY <1>4
<1>6. l[m] = l1[m]
  BY <1>3
<1>7. f[m] = g[m]
  BY <1>2, <1>3, <1>5, <1>6
<1> QED
  BY <1>1, <1>7

\* What no event makes, what one more event makes, and what a longer topic makes.
LEMMA ReplayZero ==
    ASSUME NEW l, NEW s
    PROVE  Replay(l, s, 0) = EmptyTable
<1> DEFINE f == CHOOSE g : Replays(l, s, 0, g)
<1>1. Replays(l, s, 0, f)
  BY ReplaysExist
<1> HIDE DEF f
<1>2. f[0] = EmptyTable
  <2>1. \A k \in 0..0 : f[k] = IF k = 0 THEN EmptyTable ELSE AfterEvent(s, f[k - 1], l[k])
    BY <1>1 DEF Replays
  <2> QED
    BY <2>1
<1> QED
  BY <1>2 DEF Replay, f

LEMMA ReplayStep ==
    ASSUME NEW l, NEW s, NEW n \in Nat
    PROVE  Replay(l, s, n + 1) = AfterEvent(s, Replay(l, s, n), l[n + 1])
<1> DEFINE f == CHOOSE h : Replays(l, s, n, h)
           g == CHOOSE h : Replays(l, s, n + 1, h)
<1>1. Replays(l, s, n, f) /\ Replays(l, s, n + 1, g)
  BY ReplaysExist
<1>2. Replay(l, s, n) = f[n] /\ Replay(l, s, n + 1) = g[n + 1]
  BY DEF Replay
<1> HIDE DEF f, g
<1>3. f[n] = g[n]
  <2>1. \A h, i : Replays(l, s, n, h) /\ Replays(l, s, n + 1, i) => \A k \in 0..n : h[k] = i[k]
    BY ReplaysAgree
  <2> QED
    BY <1>1, <2>1
<1>4. g[n + 1] = AfterEvent(s, g[n], l[n + 1])
  <2>1. \A k \in 0..(n + 1) : g[k] = IF k = 0 THEN EmptyTable ELSE AfterEvent(s, g[k - 1], l[k])
    BY <1>1 DEF Replays
  <2>2. n + 1 \in 0..(n + 1) /\ n + 1 # 0 /\ (n + 1) - 1 = n
    OBVIOUS
  <2>3. g[n + 1] = AfterEvent(s, g[(n + 1) - 1], l[n + 1])
    BY <2>1, <2>2
  <2> QED
    BY <2>2, <2>3
<1> QED
  BY <1>2, <1>3, <1>4

LEMMA ReplayOfMore ==
    ASSUME NEW l, NEW l1, NEW s, NEW n \in Nat, \A k \in 1..n : l[k] = l1[k]
    PROVE  Replay(l, s, n) = Replay(l1, s, n)
<1> DEFINE f == CHOOSE h : Replays(l, s, n, h)
           g == CHOOSE h : Replays(l1, s, n, h)
<1>1. Replays(l, s, n, f) /\ Replays(l1, s, n, g)
  BY ReplaysExist
<1>2. Replay(l, s, n) = f[n] /\ Replay(l1, s, n) = g[n]
  BY DEF Replay
<1> HIDE DEF f, g
<1>3. \A h, i : Replays(l, s, n, h) /\ Replays(l1, s, n, i) => \A k \in 0..n : h[k] = i[k]
  BY ReplaysAgree
<1> QED
  BY <1>1, <1>2, <1>3

-----------------------------------------------------------------------------
\* An account never changes its name: no handler assigns it, and ids are not
\* handed out again.
OneName == \A u \in Ids : \A r1, r2 \in seen[u] : r1.name = r2.name
Unborn == \A u \in Ids : u >= nextId => seen[u] = {}
NamesInv == HistoryInv /\ OneName /\ Unborn

LEMMA NamesInvStays == NamesInv /\ [Next]_vars => NamesInv'
<1> SUFFICES ASSUME NamesInv, [Next]_vars PROVE NamesInv'
  OBVIOUS
<1>0. /\ TypeInv /\ TableSeen /\ OneName /\ Unborn
      /\ seen \in [Ids -> SUBSET Row] /\ nextId \in Nat
  BY DEF NamesInv, HistoryInv, TypeInv, TypeOK
<1>1. ASSUME UNCHANGED <<seen, nextId>>
      PROVE  OneName' /\ Unborn'
  BY <1>0, <1>1 DEF OneName, Unborn
<1>2. ASSUME NEW row, InsertRow(row)
      PROVE  OneName' /\ Unborn'
  <2>1. nextId \in Ids /\ nextId' = nextId + 1
    BY <1>0, <1>2, ConstantsOK DEF InsertRow, Ids, TypeInv, TypeOK
  <2>2. seen' = [seen EXCEPT ![nextId] = @ \cup {row}] /\ seen[nextId] = {}
    BY <1>0, <1>2, <2>1 DEF InsertRow, WriteRow, Unborn
  <2>3. \A u \in Ids : seen'[u] = IF u = nextId THEN {row} ELSE seen[u]
    BY <1>0, <2>1, <2>2
  <2> QED
    BY <1>0, <2>1, <2>3 DEF OneName, Unborn, Ids
<1>3. ASSUME NEW w \in Workers, RegisterInsert(w)
      PROVE  OneName' /\ Unborn'
  <2>1. CASE nextId' = nextId + 1 /\ UNCHANGED seen
    <3>1. \A u \in Ids : u \in Nat
      BY DEF Ids
    <3> QED
      BY <1>0, <2>1, <3>1 DEF OneName, Unborn
  <2> QED
    BY <1>2, <1>3, <2>1 DEF RegisterInsert
<1>4. ASSUME NEW w \in Workers, Commit(w)
      PROVE  OneName' /\ Unborn'
  <2> DEFINE u == req[w].id
             row == Flushed(req[w])
  <2>1. u \in Ids /\ nextId' = nextId
    BY <1>0, <1>4 DEF Commit, TypeInv, RequestsInShape
  <2>2. CASE Exists(u) /\ WriteRow(u, row)
    <3>1. users[u] \in seen[u] /\ row.name = users[u].name
      BY <1>0, <2>1, <2>2 DEF TableSeen, Flushed
    <3>2. \A v \in Ids : seen'[v] = IF v = u THEN seen[u] \cup {row} ELSE seen[v]
      BY <1>0, <2>1, <2>2 DEF WriteRow
    <3> HIDE DEF u, row
    <3>3. OneName'
      BY <1>0, <2>1, <3>1, <3>2 DEF OneName
    <3>4. Unborn'
      BY <1>0, <2>1, <3>1, <3>2 DEF Unborn
    <3> QED
      BY <3>3, <3>4
  <2> QED
    BY <1>1, <1>4, <2>1, <2>2 DEF Commit
<1>5. ASSUME RestartUserService PROVE OneName' /\ Unborn'
  BY <1>1, <1>2, <1>5 DEF RestartUserService, dbVars
<1>6. ASSUME Next, \A w \in Workers : ~RegisterInsert(w) /\ ~Commit(w), ~RestartUserService
      PROVE  UNCHANGED <<seen, nextId>>
  BY <1>6 DEF Next, Proceed, Consume, RegisterCheck, Authenticate, Begin, Load, Refresh, Broadcast,
     Send, Emit, Fetch, Apply, AutoCommit, RestartConsumer, dbVars
<1>7. OneName' /\ Unborn'
  BY <1>1, <1>3, <1>4, <1>5, <1>6 DEF vars
<1>8. HistoryInv'
  BY NextTypeInv, TableStep, SessionsStep, LogStep, CopiesStep DEF HistoryInv, NamesInv
<1> QED
  BY <1>7, <1>8 DEF NamesInv

-----------------------------------------------------------------------------
(* What one event makes of a table of copies whose rows bear the names of    *)
(* their accounts, each a different one.                                     *)

Named(u, row) == \E r \in seen[u] : r.name = row.name
Sound(table) ==
    /\ table \in [Ids -> Row \cup {NoRow}]
    /\ \A u \in Ids : table[u] # NoRow => Named(u, table[u])
    /\ \A u, v \in Ids :
         u # v /\ table[u] # NoRow /\ table[v] # NoRow => table[u].name # table[v].name

LEMMA EventStep ==
    ASSUME OneName, NEW s \in Services, NEW T, Sound(T),
           NEW e \in Event, Named(e.id, e.row)
    PROVE  /\ Sound(AfterEvent(s, T, e))
           /\ \A u \in Ids : T[u] # NoRow => AfterEvent(s, T, e)[u] # NoRow
           /\ \A u \in Ids : u # e.id \/ ~Synced(e) => AfterEvent(s, T, e)[u] = T[u]
           /\ Synced(e) /\ AfterEvent(s, T, e)[e.id] # NoRow
                 => AfterEvent(s, T, e)[e.id] = Stored(s, T, e)
           /\ Synced(e) /\ AfterEvent(s, T, e)[e.id] = NoRow => AfterEvent(s, T, e) = T
           /\ e.type = "user_created" /\ AfterEvent(s, T, e)[e.id] = NoRow => Clashes(T, e)
<1> DEFINE U == AfterEvent(s, T, e)
           row == Stored(s, T, e)
<1>0. /\ T \in [Ids -> Row \cup {NoRow}] /\ e.id \in Ids /\ e.row \in Row /\ NoRow \notin Row
      /\ row \in Row /\ row.name = e.row.name
  BY ConstantsOK DEF Sound, Event, Stored, Row
<1>1. U = IF Upserts(T, e) /\ ~Clashes(T, e) THEN [T EXCEPT ![e.id] = row] ELSE T
  BY <1>0 DEF AfterEvent
<1>2. T[e.id] # NoRow => ~Clashes(T, e)
  <2> SUFFICES ASSUME T[e.id] # NoRow, NEW v \in Ids \ {e.id}, T[v] # NoRow
               PROVE  T[v].name # e.row.name
    BY DEF Clashes
  <2>1. T[v].name # T[e.id].name
    BY <1>0 DEF Sound
  <2>2. Named(e.id, T[e.id])
    BY <1>0 DEF Sound
  <2>3. T[e.id].name = e.row.name
    BY <1>0, <2>2 DEF Named, OneName
  <2> QED
    BY <2>1, <2>3
<1> HIDE DEF U, row
<1>3. CASE ~(Upserts(T, e) /\ ~Clashes(T, e))
  <2>1. U = T
    BY <1>1, <1>3
  <2>2. T[e.id] # NoRow => ~Synced(e)
    BY <1>2, <1>3 DEF Upserts, Synced
  <2>3. T[e.id] = NoRow /\ e.type = "user_created" => Clashes(T, e)
    BY <1>3 DEF Upserts
  <2> QED
    BY <2>1, <2>2, <2>3 DEF U, row
<1>4. CASE Upserts(T, e) /\ ~Clashes(T, e)
  <2>1. U = [T EXCEPT ![e.id] = row]
    BY <1>1, <1>4
  <2>2. /\ U \in [Ids -> Row \cup {NoRow}] /\ U[e.id] = row
        /\ \A u \in Ids \ {e.id} : U[u] = T[u]
    BY <1>0, <2>1
  <2>3. \A u \in Ids \ {e.id} : T[u] # NoRow => T[u].name # row.name
    BY <1>0, <1>4 DEF Clashes
  <2>4. Synced(e)
    BY <1>4 DEF Upserts, Synced
  <2>5. \A u \in Ids : U[u] # NoRow => Named(u, U[u])
    BY <1>0, <2>2 DEF Sound, Named
  <2>6. \A u, v \in Ids :
         u # v /\ U[u] # NoRow /\ U[v] # NoRow => U[u].name # U[v].name
    BY <2>2, <2>3 DEF Sound
  <2>7. Sound(U)
    BY <2>2, <2>5, <2>6 DEF Sound
  <2>8. \A u \in Ids : T[u] # NoRow => U[u] # NoRow
    BY <1>0, <2>2
  <2>9. U[e.id] # NoRow
    BY <1>0, <2>2
  <2> QED
    BY <2>2, <2>4, <2>7, <2>8, <2>9 DEF U, row
<1> QED
  BY <1>3, <1>4

-----------------------------------------------------------------------------
(* What is known of the table that a pass over the first n events builds.    *)

\* A row that is there is that of the account's last event,
LastTaken(T, n) ==
    \A u \in Ids, j \in 1..n :
        /\ T[u] # NoRow /\ log[j].id = u /\ Synced(log[j])
        /\ \A i \in (j + 1)..n : ~(log[i].id = u /\ Synced(log[i]))
        => T[u] = log[j].row
\* and one that was announced and is not there lost its name to another.
RefusedByName(T, n) ==
    \A k \in 1..n :
        log[k].type = "user_created" /\ T[log[k].id] = NoRow => Clashes(T, log[k])

LEMMA LogNamed ==
    ASSUME NamesInv
    PROVE  \A k \in 1..Len(log) : log[k] \in Event /\ log[k].id \in Ids /\ Named(log[k].id, log[k].row)
<1> SUFFICES ASSUME NEW k \in 1..Len(log)
             PROVE  log[k] \in Event /\ log[k].id \in Ids /\ Named(log[k].id, log[k].row)
  OBVIOUS
<1>1. log \in Seq(Event)
  BY DEF NamesInv, HistoryInv, TypeInv, TypeOK
<1>2. log[k] \in Event
  BY <1>1
<1>3. Witnessed(seen[log[k].id], log[k].row)
  BY DEF NamesInv, HistoryInv, LogSeen
<1> QED
  BY <1>2, <1>3 DEF Event, Witnessed, Named

LEMMA ReplayFactsStep ==
    ASSUME NamesInv, NEW s \in Services \ Resilient, NEW n \in Nat, n + 1 <= Len(log),
           NEW T, Sound(T), LastTaken(T, n), RefusedByName(T, n)
    PROVE  LET U == AfterEvent(s, T, log[n + 1])
           IN Sound(U) /\ LastTaken(U, n + 1) /\ RefusedByName(U, n + 1)
<1> DEFINE e == log[n + 1]
           U == AfterEvent(s, T, e)
<1>0. Len(log) \in Nat /\ OneName
  BY DEF NamesInv, HistoryInv, TypeInv, TypeOK
<1>1. e \in Event /\ e.id \in Ids /\ Named(e.id, e.row) /\ n + 1 \in 1..Len(log)
  BY <1>0, LogNamed
<1>2. /\ Sound(U)
      /\ \A u \in Ids : T[u] # NoRow => U[u] # NoRow
      /\ \A u \in Ids : u # e.id \/ ~Synced(e) => U[u] = T[u]
      /\ Synced(e) /\ U[e.id] # NoRow => U[e.id] = e.row
      /\ Synced(e) /\ U[e.id] = NoRow => U = T
      /\ e.type = "user_created" /\ U[e.id] = NoRow => Clashes(T, e)
  <2> HIDE DEF e
  <2>1. Stored(s, T, e) = e.row
    BY DEF Stored
  <2> QED
    BY <1>0, <1>1, <2>1, EventStep
<1> HIDE DEF U
<1>3. LastTaken(U, n + 1)
  <2> SUFFICES ASSUME NEW u \in Ids, NEW j \in 1..(n + 1),
                      U[u] # NoRow, log[j].id = u, Synced(log[j]),
                      \A i \in (j + 1)..(n + 1) : ~(log[i].id = u /\ Synced(log[i]))
               PROVE  U[u] = log[j].row
    BY DEF LastTaken
  <2>1. CASE j = n + 1
    BY <1>2, <2>1
  <2>2. CASE j # n + 1
    <3>1. j \in 1..n /\ n + 1 \in (j + 1)..(n + 1)
      BY <2>2
    <3>2. u # e.id \/ ~Synced(e)
      BY <3>1
    <3>3. U[u] = T[u]
      BY <1>2, <3>2
    <3>4. \A i \in (j + 1)..n : ~(log[i].id = u /\ Synced(log[i]))
      BY <3>1
    <3> QED
      BY <3>1, <3>3, <3>4 DEF LastTaken
  <2> QED
    BY <2>1, <2>2
<1>4. RefusedByName(U, n + 1)
  <2> SUFFICES ASSUME NEW k \in 1..(n + 1), log[k].type = "user_created", U[log[k].id] = NoRow
               PROVE  Clashes(U, log[k])
    BY DEF RefusedByName
  <2>0. k \in 1..Len(log)
    BY <1>0
  <2>1. log[k].id \in Ids
    BY <2>0, LogNamed
  <2>2. Clashes(T, log[k])
    <3>1. CASE k = n + 1
      BY <1>2, <3>1
    <3>2. CASE k # n + 1
      BY <1>2, <2>1, <3>2 DEF RefusedByName
    <3> QED
      BY <3>1, <3>2
  <2>3. PICK v \in Ids \ {log[k].id} : T[v] # NoRow /\ T[v].name = log[k].row.name
    BY <2>2 DEF Clashes
  <2>4. U[v] # NoRow
    BY <1>2, <2>3
  <2>5. U[v].name = T[v].name
    <3>1. Named(v, U[v]) /\ Named(v, T[v])
      BY <1>2, <2>3, <2>4 DEF Sound
    <3> QED
      BY <1>0, <3>1 DEF Named, OneName
  <2> QED
    BY <2>3, <2>4, <2>5 DEF Clashes
<1> QED
  BY <1>2, <1>3, <1>4 DEF U

LEMMA ReplayFacts ==
    ASSUME NamesInv, NEW s \in Services \ Resilient
    PROVE  \A n \in 0..Len(log) :
              LET T == Replay(log, s, n)
              IN Sound(T) /\ LastTaken(T, n) /\ RefusedByName(T, n)
<1> DEFINE Good(n) == /\ Sound(Replay(log, s, n))
                      /\ LastTaken(Replay(log, s, n), n)
                      /\ RefusedByName(Replay(log, s, n), n)
           S == {n \in 0..Len(log) : ~Good(n)}
<1> SUFFICES ASSUME S # {} PROVE FALSE
  OBVIOUS
<1>0. Len(log) \in Nat
  BY DEF NamesInv, HistoryInv, TypeInv, TypeOK
<1>s. S \in SUBSET Nat
  BY <1>0
<1>1. PICK m \in S : \A n \in S : m <= n
  <2> HIDE DEF S
  <2> QED
    BY <1>s, Smallest
<1>2. m \in Nat /\ m \in 0..Len(log)
  BY <1>s, <1>1
<1>3. ~Good(m)
  BY <1>1
<1>4. CASE m = 0
  <2>1. Sound(EmptyTable)
    BY DEF Sound, EmptyTable
  <2>2. LastTaken(EmptyTable, 0) /\ RefusedByName(EmptyTable, 0)
    BY DEF LastTaken, RefusedByName
  <2>3. Good(m)
    BY <1>4, <2>1, <2>2, ReplayZero
  <2> HIDE DEF Good
  <2> QED
    BY <1>3, <2>3
<1>5. CASE m # 0
  <2>1. m - 1 \in Nat /\ m - 1 < m /\ m - 1 \in 0..Len(log) /\ (m - 1) + 1 = m
    BY <1>2, <1>5
  <2>2. m - 1 \notin S
    BY <1>1, <1>2, <2>1
  <2>3. Good(m - 1)
    <3> HIDE DEF Good
    <3> QED
      BY <2>1, <2>2
  <2>4. Replay(log, s, m) = AfterEvent(s, Replay(log, s, m - 1), log[m])
    BY <2>1, ReplayStep
  <2> DEFINE T == Replay(log, s, m - 1)
             U == AfterEvent(s, T, log[(m - 1) + 1])
  <2>5. Sound(T) /\ LastTaken(T, m - 1) /\ RefusedByName(T, m - 1)
    BY <2>3
  <2>6. (m - 1) + 1 <= Len(log)
    BY <1>2, <2>1
  <2>7. Sound(U) /\ LastTaken(U, (m - 1) + 1) /\ RefusedByName(U, (m - 1) + 1)
    <3> HIDE DEF T
    <3> QED
      BY <2>1, <2>5, <2>6, ReplayFactsStep
  <2>8. U = Replay(log, s, m)
    BY <2>1, <2>4
  <2> HIDE DEF U, T
  <2>9. Good(m)
    BY <2>1, <2>7, <2>8
  <2> HIDE DEF Good
  <2> QED
    BY <1>3, <2>9
<1> QED
  BY <1>4, <1>5

-----------------------------------------------------------------------------
(* A consumer that has been sent back to an earlier offset holds a table that *)
(* no pass over a prefix of the topic builds: some rows are as of an event    *)
(* far ahead, some as of events just taken again.  But it is on its way to    *)
(* such a table, that of the furthest event it ever came to (h): of the       *)
(* accounts in U the same are there, and rows differ only where an event up   *)
(* to h is still to come.  U is the accounts that no skipped event touches.   *)

Applied(s) == IF sub[s].busy THEN sub[s].pos - 1 ELSE sub[s].pos
OnTheWay(l, s, table, a, h, U) ==
    \A u \in U :
        /\ table[u] # NoRow <=> Replay(l, s, h)[u] # NoRow
        /\ (\A i \in (a + 1)..h : ~(l[i].id = u /\ Synced(l[i]))) => table[u] = Replay(l, s, h)[u]
\* The accounts that bear none of some names.
Unnamed(N) == {u \in Ids : \A r \in seen[u] : r.name \notin N}
SkippedNames(s) == {log[i].row.name : i \in skipped[s]}

\* Of an account whose last event up to h was taken, and is not in K, the table holds that.
Held(l, K, table, a, h) ==
    \A u \in Ids, i \in 1..a :
        /\ table[u] # NoRow /\ l[i].id = u /\ Synced(l[i]) /\ i \notin K
        /\ \A j \in (i + 1)..h : ~(l[j].id = u /\ Synced(l[j]))
        => table[u] = l[i].row

ReplayInv ==
    \A s \in Services \ Resilient :
        /\ Sound(copy[s])
        /\ \E h \in Applied(s)..Len(log) :
              /\ OnTheWay(log, s, copy[s], Applied(s), h, Unnamed(SkippedNames(s)))
              /\ Held(log, skipped[s], copy[s], Applied(s), h)

LEMMA AppliedInLog ==
    ASSUME TypeInv
    PROVE  /\ Len(log) \in Nat /\ log \in Seq(Event)
           /\ \A s \in Services : /\ Applied(s) \in 0..Len(log)
                                  /\ sub[s].busy => sub[s].pos = Applied(s) + 1
                                  /\ ~sub[s].busy => sub[s].pos = Applied(s)
                                  /\ sub[s].pos \in Nat /\ sub[s].committed \in Nat
                                  /\ sub[s].committed <= sub[s].pos
BY DEF TypeInv, TypeOK, PositionsInLog, Consumer, Applied

\* Accounts of one name are in such a set together.
LEMMA NamesakesTogether ==
    ASSUME OneName, NEW N, NEW u \in Unnamed(N), NEW row, Named(u, row),
           NEW T, Sound(T), NEW v \in Ids, T[v] # NoRow, T[v].name = row.name
    PROVE  v \in Unnamed(N)
<1>1. row.name \notin N
  BY DEF Unnamed, Named
<1>2. \A r \in seen[v] : r.name = row.name
  BY DEF Sound, Named, OneName
<1> QED
  BY <1>1, <1>2 DEF Unnamed

\* What an event makes of two tables that agree on such a set agrees on it.
LEMMA AgreeingTables ==
    ASSUME OneName, NEW s \in Services \ Resilient, NEW N, NEW T, NEW F, Sound(T), Sound(F),
           \A u \in Unnamed(N) : T[u] = F[u],
           NEW e \in Event, Named(e.id, e.row)
    PROVE  \A u \in Unnamed(N) : AfterEvent(s, T, e)[u] = AfterEvent(s, F, e)[u]
<1> SUFFICES ASSUME NEW u \in Unnamed(N)
             PROVE  AfterEvent(s, T, e)[u] = AfterEvent(s, F, e)[u]
  OBVIOUS
<1>0. u \in Ids /\ e.id \in Ids
  BY DEF Unnamed, Event
<1>1. CASE u # e.id \/ ~Synced(e)
  BY <1>0, <1>1, EventStep
<1>2. CASE u = e.id /\ Synced(e)
  <2>1. Upserts(T, e) <=> Upserts(F, e)
    BY <1>2 DEF Upserts
  <2>2. Clashes(T, e) <=> Clashes(F, e)
    <3>1. ASSUME NEW A, NEW B, Sound(A), \A v \in Unnamed(N) : A[v] = B[v], Clashes(A, e)
          PROVE  Clashes(B, e)
      <4>1. PICK v \in Ids \ {e.id} : A[v] # NoRow /\ A[v].name = e.row.name
        BY <3>1 DEF Clashes
      <4>2. v \in Unnamed(N)
        BY <1>2, <3>1, <4>1, NamesakesTogether
      <4> QED
        BY <3>1, <4>1, <4>2 DEF Clashes
    <3> QED
      BY <3>1
  <2>3. Stored(s, T, e) = e.row /\ Stored(s, F, e) = e.row
    BY DEF Stored
  <2>4. T \in [Ids -> Row \cup {NoRow}] /\ F \in [Ids -> Row \cup {NoRow}]
    BY DEF Sound
  <2> QED
    BY <1>0, <1>2, <2>1, <2>2, <2>3, <2>4 DEF AfterEvent
<1> QED
  BY <1>1, <1>2

\* The next event takes it further.
LEMMA OnTheWayStep ==
    ASSUME NamesInv, NEW s \in Services \ Resilient, NEW a \in Nat, a + 1 <= Len(log), NEW N,
           Sound(copy[s]),
           NEW h \in a..Len(log), OnTheWay(log, s, copy[s], a, h, Unnamed(N))
    PROVE  LET h1 == IF h = a THEN a + 1 ELSE h
           IN OnTheWay(log, s, AfterEvent(s, copy[s], log[a + 1]), a + 1, h1, Unnamed(N))
<1> DEFINE T == copy[s]
           F == Replay(log, s, h)
           e == log[a + 1]
           U == AfterEvent(s, T, e)
           M == Unnamed(N)
<1>0. Len(log) \in Nat /\ OneName /\ h \in Nat /\ h \in 0..Len(log) /\ M \subseteq Ids
  BY DEF NamesInv, HistoryInv, TypeInv, TypeOK, Unnamed
<1>1. Sound(F) /\ LastTaken(F, h) /\ RefusedByName(F, h)
  BY <1>0, ReplayFacts
<1>2. /\ \A u \in M : T[u] # NoRow <=> F[u] # NoRow
      /\ \A u \in M : (\A i \in (a + 1)..h : ~(log[i].id = u /\ Synced(log[i])))
                           => T[u] = F[u]
  BY DEF OnTheWay
<1>3. e \in Event /\ e.id \in Ids /\ Named(e.id, e.row)
  <2>1. a + 1 \in 1..Len(log)
    BY <1>0
  <2> QED
    BY <2>1, LogNamed
<1>4. Sound(T)
  OBVIOUS
<1> HIDE DEF T, F, e
<1>5. \A u \in M : T[u] # NoRow => T[u].name = F[u].name
  <2> SUFFICES ASSUME NEW u \in M, T[u] # NoRow PROVE T[u].name = F[u].name
    OBVIOUS
  <2>1. Named(u, T[u]) /\ Named(u, F[u])
    BY <1>0, <1>1, <1>2, <1>4 DEF Sound
  <2> QED
    BY <1>0, <2>1 DEF Named, OneName
<1>7. /\ \A u \in Ids : T[u] # NoRow => U[u] # NoRow
      /\ \A u \in Ids : u # e.id \/ ~Synced(e) => U[u] = T[u]
      /\ Synced(e) /\ U[e.id] # NoRow => U[e.id] = e.row
  <2>1. Stored(s, T, e) = e.row
    BY DEF Stored
  <2> QED
    BY <1>0, <1>3, <1>4, <2>1, EventStep
<1>8. CASE a = h
  <2>1. \A u \in M : T[u] = F[u]
    BY <1>0, <1>2, <1>8
  <2>2. AfterEvent(s, F, e) = Replay(log, s, a + 1)
    BY <1>8, ReplayStep DEF F, e
  <2>3. \A u \in M : U[u] = Replay(log, s, a + 1)[u]
    BY <1>0, <1>1, <1>3, <1>4, <2>1, <2>2, AgreeingTables
  <2> HIDE DEF U
  <2>4. OnTheWay(log, s, U, a + 1, a + 1, M)
    BY <2>3 DEF OnTheWay
  <2> QED
    BY <1>8, <2>4 DEF U, T, e
<1>9. CASE a # h
  <2>0. a + 1 \in 1..h
    BY <1>0, <1>9
  <2>1. ASSUME NEW u \in M, U[u] # NoRow, F[u] = NoRow PROVE FALSE
    <3>1. T[u] = NoRow
      BY <1>2, <2>1
    <3>2. u = e.id /\ Upserts(T, e) /\ ~Clashes(T, e)
      <4>1. Upserts(T, e) /\ ~Clashes(T, e)
        BY <2>1, <3>1 DEF AfterEvent
      <4> HIDE DEF U
      <4> QED
        BY <1>0, <1>7, <2>1, <3>1, <4>1
    <3>3. e.type = "user_created"
      BY <3>1, <3>2 DEF Upserts
    <3>4. Clashes(F, e)
      BY <1>1, <2>0, <2>1, <3>2, <3>3 DEF RefusedByName, e
    <3>5. PICK v \in Ids \ {e.id} : F[v] # NoRow /\ F[v].name = e.row.name
      BY <3>4 DEF Clashes
    <3>6. v \in M
      BY <1>0, <1>1, <1>3, <3>2, <3>5, NamesakesTogether
    <3>7. Clashes(T, e)
      BY <1>2, <1>5, <3>5, <3>6 DEF Clashes
    <3> QED
      BY <3>2, <3>7
  <2> HIDE DEF U
  <2>2. ASSUME NEW u \in M PROVE U[u] # NoRow <=> F[u] # NoRow
    BY <1>0, <1>2, <1>7, <2>1
  <2>3. ASSUME NEW u \in M, \A i \in (a + 2)..h : ~(log[i].id = u /\ Synced(log[i]))
        PROVE  U[u] = F[u]
    <3>1. CASE u = e.id /\ Synced(e)
      <4>1. CASE U[u] = NoRow
        BY <2>2, <4>1
      <4>2. CASE U[u] # NoRow
        <5>1. F[u] # NoRow /\ U[u] = e.row
          BY <1>7, <2>2, <3>1, <4>2
        <5>2. log[a + 1].id = u /\ Synced(log[a + 1]) /\ (a + 1) + 1 = a + 2
          BY <3>1 DEF e
        <5>3. F[u] = log[a + 1].row
          BY <1>0, <1>1, <2>0, <2>3, <5>1, <5>2 DEF LastTaken
        <5> QED
          BY <5>1, <5>3 DEF e
      <4> QED
        BY <4>1, <4>2
    <3>2. CASE ~(u = e.id /\ Synced(e))
      <4>1. \A i \in (a + 1)..h : ~(log[i].id = u /\ Synced(log[i]))
        <5> SUFFICES ASSUME NEW i \in (a + 1)..h PROVE ~(log[i].id = u /\ Synced(log[i]))
          OBVIOUS
        <5>1. CASE i = a + 1
          BY <3>2, <5>1 DEF e
        <5>2. CASE i # a + 1
          BY <2>3, <5>2
        <5> QED
          BY <5>1, <5>2
      <4> QED
        BY <1>0, <1>2, <1>7, <3>2, <4>1
    <3> QED
      BY <3>1, <3>2
  <2>4. (a + 1) + 1 = a + 2
    OBVIOUS
  <2>5. OnTheWay(log, s, U, a + 1, h, M)
    <3> SUFFICES ASSUME NEW u \in M
                 PROVE  /\ U[u] # NoRow <=> F[u] # NoRow
                        /\ (\A i \in ((a + 1) + 1)..h : ~(log[i].id = u /\ Synced(log[i])))
                              => U[u] = F[u]
      BY DEF OnTheWay, F
    <3> QED
      BY <2>2, <2>3, <2>4
  <2> QED
    BY <1>9, <2>5 DEF U, T, e
<1> QED
  BY <1>8, <1>9

\* An event passed over leaves the accounts on their way that it says nothing about.
LEMMA OnTheWaySkip ==
    ASSUME NamesInv, NEW s \in Services \ Resilient, NEW a \in Nat, a + 1 <= Len(log),
           NEW T, NEW U \in SUBSET Ids, \A u \in U : u # log[a + 1].id \/ ~Synced(log[a + 1]),
           NEW h \in a..Len(log), OnTheWay(log, s, T, a, h, U)
    PROVE  LET h1 == IF h = a THEN a + 1 ELSE h
           IN OnTheWay(log, s, T, a + 1, h1, U)
<1> DEFINE e == log[a + 1]
<1>0. Len(log) \in Nat /\ OneName /\ a \in 0..Len(log) /\ a + 1 \in 1..Len(log)
  BY DEF NamesInv, HistoryInv, TypeInv, TypeOK
<1>1. CASE a = h
  <2>1. Replay(log, s, a + 1) = AfterEvent(s, Replay(log, s, a), e)
    BY ReplayStep
  <2>2. Sound(Replay(log, s, a)) /\ e \in Event /\ Named(e.id, e.row)
    BY <1>0, ReplayFacts, LogNamed
  <2> HIDE DEF e
  <2>3. \A u \in Ids : u # e.id \/ ~Synced(e) =>
           Replay(log, s, a + 1)[u] = Replay(log, s, a)[u]
    BY <1>0, <2>1, <2>2, EventStep
  <2>4. \A u \in U : Replay(log, s, a + 1)[u] = Replay(log, s, a)[u]
    BY <2>3 DEF e
  <2>5. \A u \in U : T[u] = Replay(log, s, a)[u]
    BY <1>0, <1>1 DEF OnTheWay
  <2> QED
    BY <1>1, <2>4, <2>5 DEF OnTheWay
<1>2. CASE a # h
  <2>1. ASSUME NEW u \in U, \A i \in (a + 2)..h : ~(log[i].id = u /\ Synced(log[i]))
        PROVE  \A i \in (a + 1)..h : ~(log[i].id = u /\ Synced(log[i]))
    <3> SUFFICES ASSUME NEW i \in (a + 1)..h PROVE ~(log[i].id = u /\ Synced(log[i]))
      OBVIOUS
    <3>1. CASE i = a + 1
      BY <3>1
    <3>2. CASE i # a + 1
      BY <2>1, <3>2
    <3> QED
      BY <3>1, <3>2
  <2>2. (a + 1) + 1 = a + 2
    OBVIOUS
  <2>3. OnTheWay(log, s, T, a + 1, h, U)
    <3> SUFFICES ASSUME NEW u \in U
                 PROVE  /\ T[u] # NoRow <=> Replay(log, s, h)[u] # NoRow
                        /\ (\A i \in ((a + 1) + 1)..h : ~(log[i].id = u /\ Synced(log[i])))
                              => T[u] = Replay(log, s, h)[u]
      BY DEF OnTheWay
    <3>1. T[u] # NoRow <=> Replay(log, s, h)[u] # NoRow
      BY DEF OnTheWay
    <3>2. (\A i \in (a + 1)..h : ~(log[i].id = u /\ Synced(log[i])))
             => T[u] = Replay(log, s, h)[u]
      BY DEF OnTheWay
    <3> QED
      BY <2>1, <2>2, <3>1, <3>2
  <2> QED
    BY <1>2, <2>3
<1> QED
  BY <1>1, <1>2

\* Going back, a longer topic, and fewer accounts leave it on its way.
LEMMA OnTheWayStays ==
    ASSUME NEW l, NEW l1, NEW s, NEW T, NEW a \in Nat, NEW b \in Nat, b <= a, NEW h \in Nat, a <= h,
           \A k \in 1..h : l[k] = l1[k], NEW U, NEW V, V \subseteq U, OnTheWay(l, s, T, a, h, U)
    PROVE  OnTheWay(l1, s, T, b, h, V)
<1>1. Replay(l, s, h) = Replay(l1, s, h)
  BY ReplayOfMore
<1>2. ASSUME NEW u \in V, \A i \in (b + 1)..h : ~(l1[i].id = u /\ Synced(l1[i]))
      PROVE  \A i \in (a + 1)..h : ~(l[i].id = u /\ Synced(l[i]))
  <2> SUFFICES ASSUME NEW i \in (a + 1)..h PROVE ~(l[i].id = u /\ Synced(l[i]))
    OBVIOUS
  <2>1. i \in (b + 1)..h /\ l[i] = l1[i]
    OBVIOUS
  <2> QED
    BY <1>2, <2>1
<1> SUFFICES ASSUME NEW u \in V
             PROVE  /\ T[u] # NoRow <=> Replay(l1, s, h)[u] # NoRow
                    /\ (\A i \in (b + 1)..h : ~(l1[i].id = u /\ Synced(l1[i])))
                          => T[u] = Replay(l1, s, h)[u]
  BY DEF OnTheWay
<1>3. /\ T[u] # NoRow <=> Replay(l1, s, h)[u] # NoRow
      /\ (\A i \in (a + 1)..h : ~(l[i].id = u /\ Synced(l[i]))) => T[u] = Replay(l1, s, h)[u]
  BY <1>1 DEF OnTheWay
<1> QED
  BY <1>2, <1>3

\* How the topic grows, and where a consumer's position goes.
LEMMA LogGrows ==
    ASSUME TypeInv, [Next]_vars
    PROVE  /\ Len(log') \in Nat /\ Len(log) <= Len(log')
           /\ \A k \in 1..Len(log) : log'[k] = log[k]
<1>0. log \in Seq(Event) /\ Len(log) \in Nat
  BY DEF TypeInv, TypeOK
<1>1. CASE log' = log
  BY <1>0, <1>1
<1>2. ASSUME NEW e \in Event, log' = Append(log, e)
      PROVE  /\ Len(log') \in Nat /\ Len(log) <= Len(log')
             /\ \A k \in 1..Len(log) : log'[k] = log[k]
  BY <1>0, <1>2
<1>3. ASSUME NEW w \in Workers, Broadcast(w) \/ Send(w)
      PROVE  log' = log \/ \E e \in Event : log' = Append(log, e)
  <2>1. req[w] \in Request /\ req[w].row \in Row /\ req[w].id \in Ids
    BY <1>3 DEF TypeInv, TypeOK, RequestsInShape, Broadcast, Send
  <2> QED
    BY <1>3, <2>1, PublishesEvent DEF Broadcast, Send
<1> QED
  BY <1>1, <1>2, <1>3, WhoWritesLog DEF vars

\* Where a consumer's step leaves it: an event further, with that event or without it, or
\* where it was or further back.
LEMMA ConsumerMoves ==
    ASSUME TypeInv, [Next]_vars, NEW s \in Services
    PROVE  \/ /\ Apply(s) /\ UNCHANGED skipped
              /\ Applied(s)' = Applied(s) + 1 /\ sub[s].pos = Applied(s) + 1
           \/ /\ copy'[s] = copy[s] /\ UNCHANGED <<log, seen>>
              /\ Applied(s)' = Applied(s) + 1 /\ sub[s].pos = Applied(s) + 1
              /\ skipped'[s] = skipped[s] \cup
                    (IF Synced(log[sub[s].pos]) THEN {sub[s].pos} ELSE {})
           \/ /\ copy'[s] = copy[s] /\ skipped'[s] = skipped[s]
              /\ Applied(s)' \in 0..Applied(s)
<1>0. /\ sub \in [Services -> Consumer] /\ Applied(s) \in Nat
      /\ sub[s].busy => sub[s].pos = Applied(s) + 1
      /\ ~sub[s].busy => sub[s].pos = Applied(s)
      /\ sub[s].pos \in Nat /\ sub[s].committed \in Nat /\ sub[s].busy \in BOOLEAN
      /\ sub[s].committed <= sub[s].pos
  BY AppliedInLog DEF TypeInv, TypeOK, Consumer
<1>1. ASSUME UNCHANGED <<copy[s], sub[s], skipped[s]>>
      PROVE  /\ copy'[s] = copy[s] /\ skipped'[s] = skipped[s]
             /\ Applied(s)' \in 0..Applied(s)
  BY <1>0, <1>1 DEF Applied
<1>2. CASE Fetch(s)
  <2>1. /\ sub'[s] = [sub[s] EXCEPT !.pos = @ + 1, !.busy = TRUE]
        /\ UNCHANGED <<copy, skipped>> /\ ~sub[s].busy
    BY <1>0, <1>2 DEF Fetch
  <2>2. sub'[s].pos = sub[s].pos + 1 /\ sub'[s].busy
    BY <1>0, <2>1 DEF Consumer
  <2> QED
    BY <1>0, <2>1, <2>2 DEF Applied
<1>3. CASE AutoCommit(s)
  <2>1. sub'[s] = [sub[s] EXCEPT !.committed = sub[s].pos] /\ UNCHANGED <<copy, skipped>>
    BY <1>0, <1>3 DEF AutoCommit
  <2>2. sub'[s].pos = sub[s].pos /\ sub'[s].busy = sub[s].busy
    BY <1>0, <2>1 DEF Consumer
  <2> QED
    BY <1>0, <2>1, <2>2 DEF Applied
<1>4. CASE RestartConsumer(s)
  <2>1. /\ sub'[s] = [up |-> TRUE, pos |-> sub[s].committed, busy |-> FALSE,
                      committed |-> sub[s].committed]
        /\ UNCHANGED <<copy, log, seen>>
        /\ skipped'[s] = skipped[s] \cup AtRisk(s)
    BY <1>0, <1>4 DEF RestartConsumer, TypeInv, TypeOK, dbVars
  <2>2. Applied(s)' = sub[s].committed
    BY <2>1 DEF Applied
  <2>3. CASE sub[s].busy /\ sub[s].committed = sub[s].pos
    <3>1. AtRisk(s) = IF Synced(log[sub[s].pos]) THEN {sub[s].pos} ELSE {}
      BY <2>3 DEF AtRisk
    <3> QED
      BY <1>0, <2>1, <2>2, <2>3, <3>1
  <2>4. CASE ~(sub[s].busy /\ sub[s].committed = sub[s].pos)
    <3>1. AtRisk(s) = {}
      BY <2>4 DEF AtRisk
    <3>2. sub[s].committed \in 0..Applied(s)
      BY <1>0, <2>4
    <3> QED
      BY <2>1, <2>2, <3>1, <3>2
  <2> QED
    BY <2>3, <2>4
<1>5. CASE Apply(s)
  <2>1. sub[s].busy /\ sub[s].pos = Applied(s) + 1 /\ UNCHANGED skipped
    BY <1>0, <1>5 DEF Apply
  <2>2. sub'[s].pos = sub[s].pos /\ ~sub'[s].busy
    <3>1. CASE sub' = [sub EXCEPT ![s].busy = FALSE]
      BY <1>0, <3>1 DEF Consumer
    <3>2. ASSUME NEW c \in {sub[s].committed, sub[s].pos},
                 sub' = [sub EXCEPT ![s].busy = FALSE, ![s].up = FALSE, ![s].committed = c]
          PROVE  sub'[s].pos = sub[s].pos /\ ~sub'[s].busy
      <4>1. sub'[s] = [sub[s] EXCEPT !.busy = FALSE, !.up = FALSE, !.committed = c]
        BY <1>0, <3>2
      <4> QED
        BY <1>0, <4>1 DEF Consumer
    <3> QED
      BY <1>5, <3>1, <3>2 DEF Apply
  <2> QED
    BY <1>0, <1>5, <2>1, <2>2 DEF Applied
<1>6. ASSUME NEW t \in Services, t # s,
             Fetch(t) \/ Apply(t) \/ AutoCommit(t) \/ RestartConsumer(t)
      PROVE  UNCHANGED <<copy[s], sub[s], skipped[s]>>
  <2>1. \A v \in Services \ {t} : sub'[v] = sub[v]
    BY <1>0, <1>6 DEF Fetch, Apply, AutoCommit, RestartConsumer
  <2>2. copy'[s] = copy[s] /\ skipped'[s] = skipped[s]
    <3>1. /\ copy \in [Services -> [Ids -> Row \cup {NoRow}]]
          /\ skipped \in [Services -> SUBSET (1..Len(log))]
      BY DEF TypeInv, TypeOK
    <3> QED
      BY <1>6, <3>1 DEF Fetch, Apply, AutoCommit, RestartConsumer
  <2> QED
    BY <1>6, <2>1, <2>2
<1>7. ASSUME \/ UNCHANGED vars
             \/ \E w \in Workers, n \in Names : RegisterCheck(w, n)
             \/ \E w \in Workers, op \in Handlers, a, u \in Ids : Authenticate(w, op, a, u)
             \/ \E w \in Workers : Proceed(w)
             \/ RestartUserService
      PROVE  UNCHANGED <<copy[s], sub[s], skipped[s]>>
  BY <1>7 DEF vars, Proceed, RegisterCheck, RegisterInsert, Authenticate, Begin, Load, Commit,
       Refresh, Broadcast, Send, Emit, RestartUserService, consumerVars
<1> QED
  BY <1>1, <1>2, <1>3, <1>4, <1>5, <1>6, <1>7 DEF Next, Consume

\* Rows that bear the names of their accounts still do when the history has grown.
LEMMA SoundStays ==
    ASSUME HistoryInv, [Next]_vars, NEW T, Sound(T)
    PROVE  Sound(T)'
<1>1. \A u \in Ids : seen[u] \subseteq seen'[u]
  BY SeenGrows DEF HistoryInv
<1> QED
  BY <1>1 DEF Sound, Named

\* The accounts that no skipped event touches get no more.
LEMMA SparedShrink ==
    ASSUME HistoryInv, [Next]_vars, NEW s \in Services, skipped[s] \subseteq skipped'[s]
    PROVE  Unnamed(SkippedNames(s))' \subseteq Unnamed(SkippedNames(s))
<1>1. \A u \in Ids : seen[u] \subseteq seen'[u]
  BY SeenGrows DEF HistoryInv
<1>2. \A i \in skipped[s] : log'[i] = log[i]
  BY LogGrows DEF HistoryInv, TypeInv, TypeOK
<1>3. SkippedNames(s) \subseteq SkippedNames(s)'
  BY <1>2 DEF SkippedNames
<1> QED
  BY <1>1, <1>3 DEF Unnamed

\* What is held after the next event is taken,
LEMMA HeldStep ==
    ASSUME NamesInv, NEW s \in Services \ Resilient, NEW a \in Nat, a + 1 <= Len(log),
           Sound(copy[s]), NEW h \in a..Len(log), Held(log, skipped[s], copy[s], a, h)
    PROVE  LET h1 == IF h = a THEN a + 1 ELSE h
           IN Held(log, skipped[s], AfterEvent(s, copy[s], log[a + 1]), a + 1, h1)
<1> DEFINE T == copy[s]
           e == log[a + 1]
           U == AfterEvent(s, T, e)
           h1 == IF h = a THEN a + 1 ELSE h
<1>0. Len(log) \in Nat /\ OneName /\ a + 1 \in 1..Len(log) /\ h \in Nat /\ a <= h
  BY DEF NamesInv, HistoryInv, TypeInv, TypeOK
<1>1. e \in Event /\ e.id \in Ids /\ Named(e.id, e.row)
  BY <1>0, LogNamed
<1>2. h1 \in Nat /\ a + 1 <= h1 /\ h <= h1
  BY <1>0
<1> HIDE DEF h1
<1>3. /\ \A u \in Ids : u # e.id \/ ~Synced(e) => U[u] = T[u]
      /\ Synced(e) /\ U[e.id] # NoRow => U[e.id] = e.row
  <2> HIDE DEF e
  <2>1. Stored(s, T, e) = e.row
    BY DEF Stored
  <2> QED
    BY <1>0, <1>1, <2>1, EventStep
<1> HIDE DEF U
<1>4. ASSUME NEW u \in Ids, NEW i \in 1..(a + 1),
             U[u] # NoRow, log[i].id = u, Synced(log[i]), i \notin skipped[s],
             \A j \in (i + 1)..h1 : ~(log[j].id = u /\ Synced(log[j]))
      PROVE  U[u] = log[i].row
  <2>1. CASE i = a + 1
    BY <1>3, <1>4, <2>1
  <2>2. CASE i # a + 1
    <3>1. i \in 1..a /\ a + 1 \in (i + 1)..h1
      BY <1>2, <2>2
    <3>2. U[u] = T[u]
      BY <1>3, <1>4, <3>1
    <3>3. \A j \in (i + 1)..h : ~(log[j].id = u /\ Synced(log[j]))
      BY <1>0, <1>2, <1>4
    <3> QED
      BY <1>4, <3>1, <3>2, <3>3 DEF Held
  <2> QED
    BY <2>1, <2>2
<1>5. Held(log, skipped[s], U, a + 1, h1)
  BY <1>4 DEF Held
<1> QED
  BY <1>5 DEF U, h1

\* or passed over,
LEMMA HeldSkip ==
    ASSUME TypeInv, NEW a \in Nat, a + 1 <= Len(log), NEW K, NEW K1,
           K1 = K \cup (IF Synced(log[a + 1]) THEN {a + 1} ELSE {}),
           NEW T, NEW h \in a..Len(log), Held(log, K, T, a, h)
    PROVE  LET h1 == IF h = a THEN a + 1 ELSE h
           IN Held(log, K1, T, a + 1, h1)
<1> DEFINE h1 == IF h = a THEN a + 1 ELSE h
<1>0. Len(log) \in Nat /\ h \in Nat /\ a <= h /\ h1 \in Nat /\ h <= h1
  BY DEF TypeInv, TypeOK
<1> HIDE DEF h1
<1>1. ASSUME NEW u \in Ids, NEW i \in 1..(a + 1),
             T[u] # NoRow, log[i].id = u, Synced(log[i]), i \notin K1,
             \A j \in (i + 1)..h1 : ~(log[j].id = u /\ Synced(log[j]))
      PROVE  T[u] = log[i].row
  <2>1. i \in 1..a /\ i \notin K
    BY <1>1
  <2>2. \A j \in (i + 1)..h : ~(log[j].id = u /\ Synced(log[j]))
    BY <1>0, <1>1
  <2> QED
    BY <1>1, <2>1, <2>2 DEF Held
<1>2. Held(log, K1, T, a + 1, h1)
  BY <1>1 DEF Held
<1> QED
  BY <1>2 DEF h1

\* and after a step back and a longer topic.
LEMMA HeldStays ==
    ASSUME NEW l, NEW l1, NEW K, NEW T, NEW a \in Nat, NEW b \in Nat, b <= a,
           NEW h \in Nat, a <= h, \A k \in 1..h : l1[k] = l[k], Held(l, K, T, a, h)
    PROVE  Held(l1, K, T, b, h)
<1> SUFFICES ASSUME NEW u \in Ids, NEW i \in 1..b,
                    T[u] # NoRow, l1[i].id = u, Synced(l1[i]), i \notin K,
                    \A j \in (i + 1)..h : ~(l1[j].id = u /\ Synced(l1[j]))
             PROVE  T[u] = l1[i].row
  BY DEF Held
<1>1. i \in 1..a /\ i \in 1..h /\ l1[i] = l[i]
  OBVIOUS
<1>2. \A j \in (i + 1)..h : ~(l[j].id = u /\ Synced(l[j]))
  <2>1. \A j \in (i + 1)..h : l1[j] = l[j]
    OBVIOUS
  <2> QED
    BY <2>1
<1> QED
  BY <1>1, <1>2 DEF Held

LEMMA ReplayInvStays ==
    ASSUME NamesInv, ReplayInv, [Next]_vars
    PROVE  ReplayInv'
<1> DEFINE U(s) == Unnamed(SkippedNames(s))
<1> SUFFICES ASSUME NEW s \in Services \ Resilient
             PROVE  /\ Sound(copy[s])'
                    /\ \E h \in Applied(s)'..Len(log') :
                          /\ OnTheWay(log', s, copy'[s], Applied(s)', h, U(s)')
                          /\ Held(log', skipped'[s], copy'[s], Applied(s)', h)
  BY DEF ReplayInv
<1> DEFINE a == Applied(s)
<1>0. /\ TypeInv /\ HistoryInv /\ OneName /\ a \in Nat /\ Len(log) \in Nat /\ a <= Len(log)
      /\ Sound(copy[s])
  BY AppliedInLog DEF NamesInv, HistoryInv, ReplayInv
<1>1. PICK h \in a..Len(log) : OnTheWay(log, s, copy[s], a, h, U(s)) /\ Held(log, skipped[s], copy[s], a, h)
  BY DEF ReplayInv
<1>2. /\ Len(log') \in Nat /\ Len(log) <= Len(log')
      /\ \A k \in 1..Len(log) : log'[k] = log[k]
  BY <1>0, LogGrows
<1> DEFINE h1 == IF h = a THEN a + 1 ELSE h
<1>3. CASE copy'[s] = copy[s] /\ skipped'[s] = skipped[s] /\ a' \in 0..a
  <2>1. /\ h \in Nat /\ a <= h /\ a' \in Nat /\ a' <= a
        /\ h \in a'..Len(log')
        /\ \A k \in 1..h : log'[k] = log[k]
    BY <1>0, <1>1, <1>2, <1>3
  <2>2. U(s)' \subseteq U(s)
    BY <1>0, <1>3, SparedShrink
  <2> HIDE DEF U
  <2>3. OnTheWay(log', s, copy[s], a', h, U(s)')
    <3>1. \A b \in Nat : \A V : b <= a /\ V \subseteq U(s) => OnTheWay(log', s, copy[s], b, h, V)
      BY <1>0, <1>1, <2>1, OnTheWayStays
    <3> QED
      BY <2>1, <2>2, <3>1
  <2>4. Held(log', skipped'[s], copy'[s], a', h)
    <3>1. \A b \in Nat : \A l1 : b <= a /\ (\A k \in 1..h : l1[k] = log[k]) =>
             Held(l1, skipped[s], copy[s], b, h)
      BY <1>0, <1>1, <2>1, HeldStays
    <3> QED
      BY <1>3, <2>1, <3>1
  <2>5. Sound(copy[s])'
    <3>1. \A T : Sound(T) => Sound(T)'
      BY <1>0, SoundStays
    <3> QED
      BY <1>0, <1>3, <3>1 DEF Sound
  <2> QED
    BY <1>3, <2>1, <2>3, <2>4, <2>5
<1>4. CASE /\ Apply(s) /\ UNCHANGED skipped
           /\ a' = a + 1 /\ sub[s].pos = a + 1
  <2>1. UNCHANGED <<log, seen, skipped>> /\ copy'[s] = AfterEvent(s, copy[s], log[a + 1])
    BY <1>4 DEF Apply, NamesInv, HistoryInv, TypeInv, TypeOK, dbVars
  <2>2. a + 1 <= Len(log) /\ h1 \in (a + 1)..Len(log)
    BY <1>0, <1>1, <1>4 DEF TypeInv, PositionsInLog
  <2>3. OnTheWay(log, s, AfterEvent(s, copy[s], log[a + 1]), a + 1, h1, U(s))
    BY <1>0, <1>1, <2>2, OnTheWayStep
  <2>4. Held(log, skipped[s], AfterEvent(s, copy[s], log[a + 1]), a + 1, h1)
    BY <1>0, <1>1, <2>2, HeldStep
  <2>5. Sound(AfterEvent(s, copy[s], log[a + 1]))
    <3>1. a + 1 \in 1..Len(log)
      BY <1>0, <2>2
    <3>2. log[a + 1] \in Event /\ Named(log[a + 1].id, log[a + 1].row)
      BY <3>1, LogNamed
    <3> QED
      BY <1>0, <3>2, EventStep
  <2>6. U(s)' = U(s)
    BY <2>1 DEF Unnamed, SkippedNames
  <2> HIDE DEF U, h1
  <2>7. Held(log', skipped'[s], copy'[s], a', h1)
    BY <1>4, <2>1, <2>4 DEF Held
  <2>8. Sound(copy[s])'
    BY <2>1, <2>5 DEF Sound, Named
  <2> QED
    BY <1>4, <2>1, <2>2, <2>3, <2>6, <2>7, <2>8
<1>5. CASE /\ copy'[s] = copy[s] /\ UNCHANGED <<log, seen>>
           /\ a' = a + 1 /\ sub[s].pos = a + 1
           /\ skipped'[s] = skipped[s] \cup
                 (IF Synced(log[sub[s].pos]) THEN {sub[s].pos} ELSE {})
  <2>1. a + 1 <= Len(log) /\ h1 \in (a + 1)..Len(log)
    BY <1>0, <1>1, <1>5 DEF TypeInv, PositionsInLog
  <2>2. U(s)' \subseteq U(s) /\ U(s)' \subseteq Ids
    BY <1>0, <1>5, SparedShrink DEF Unnamed
  <2>3. ASSUME NEW u \in U(s)' PROVE u # log[a + 1].id \/ ~Synced(log[a + 1])
    <3> SUFFICES ASSUME u = log[a + 1].id, Synced(log[a + 1]) PROVE FALSE
      OBVIOUS
    <3>1. a + 1 \in 1..Len(log)
      BY <1>0, <2>1
    <3>2. PICK r \in seen[u] : r.name = log[a + 1].row.name
      BY <3>1, LogNamed DEF Named
    <3>3. log[a + 1].row.name \in SkippedNames(s)'
      BY <1>5 DEF SkippedNames
    <3>4. \A q \in seen[u] : q.name \notin SkippedNames(s)'
      BY <1>5, <2>3 DEF Unnamed
    <3> QED
      BY <3>2, <3>3, <3>4
  <2> HIDE DEF U
  <2>4. OnTheWay(log, s, copy[s], a, h, U(s)')
    BY <1>1, <2>2 DEF OnTheWay
  <2>5. OnTheWay(log, s, copy[s], a + 1, h1, U(s)')
    <3>1. \A V \in SUBSET Ids :
             /\ \A u \in V : u # log[a + 1].id \/ ~Synced(log[a + 1])
             /\ OnTheWay(log, s, copy[s], a, h, V)
             => OnTheWay(log, s, copy[s], a + 1, h1, V)
      BY <1>0, <1>1, <2>1, OnTheWaySkip
    <3> QED
      BY <2>2, <2>3, <2>4, <3>1
  <2>6. Held(log', skipped'[s], copy'[s], a', h1)
    <3>1. Held(log, skipped'[s], copy[s], a + 1, h1)
      BY <1>0, <1>1, <1>5, <2>1, HeldSkip DEF h1
    <3> QED
      BY <1>5, <3>1
  <2>7. Sound(copy[s])'
    BY <1>0, <1>5 DEF Sound, Named
  <2> QED
    BY <1>5, <2>1, <2>5, <2>6, <2>7
<1>6. \/ /\ Apply(s) /\ UNCHANGED skipped
         /\ a' = a + 1 /\ sub[s].pos = a + 1
      \/ /\ copy'[s] = copy[s] /\ UNCHANGED <<log, seen>>
         /\ a' = a + 1 /\ sub[s].pos = a + 1
         /\ skipped'[s] = skipped[s] \cup
               (IF Synced(log[sub[s].pos]) THEN {sub[s].pos} ELSE {})
      \/ copy'[s] = copy[s] /\ skipped'[s] = skipped[s] /\ a' \in 0..a
  BY <1>0, ConsumerMoves
<1> QED
  BY <1>3, <1>4, <1>5, <1>6

LEMMA InitReplayInv == Init => NamesInv /\ ReplayInv
<1> SUFFICES ASSUME Init PROVE NamesInv /\ ReplayInv
  OBVIOUS
<1>1. OneName /\ Unborn
  BY DEF Init, OneName, Unborn, Ids
<1>2. ASSUME NEW s \in Services \ Resilient
      PROVE  /\ Sound(copy[s])
             /\ \E h \in Applied(s)..Len(log) :
                  /\ OnTheWay(log, s, copy[s], Applied(s), h, Unnamed(SkippedNames(s)))
                  /\ Held(log, skipped[s], copy[s], Applied(s), h)
  <2>1. Applied(s) = 0 /\ copy[s] = EmptyTable /\ Len(log) = 0
    BY DEF Init, Applied, EmptyTable
  <2>2. \A U \in SUBSET Ids : OnTheWay(log, s, EmptyTable, 0, 0, U)
    BY ReplayZero DEF OnTheWay
  <2>3. (\A K : Held(log, K, EmptyTable, 0, 0)) /\ Sound(EmptyTable)
    BY DEF Held, Sound, EmptyTable
  <2>4. Unnamed(SkippedNames(s)) \in SUBSET Ids
    BY DEF Unnamed
  <2> QED
    BY <2>1, <2>2, <2>3, <2>4
<1> QED
  BY <1>1, <1>2, InitHistoryInv DEF NamesInv, ReplayInv

LEMMA ReplayAlways == Spec => [](NamesInv /\ ReplayInv)
<1>1. NamesInv /\ ReplayInv /\ [Next]_vars => NamesInv' /\ ReplayInv'
  BY NamesInvStays, ReplayInvStays
<1> QED
  BY <1>1, InitReplayInv, PTL DEF Spec

\* What a consumer that has caught up is on its way to, it has reached.
LEMMA Arrived ==
    ASSUME NamesInv, ReplayInv, NEW s \in Services \ Resilient, CaughtUp(s)
    PROVE  /\ Len(log) \in Nat
           /\ OnTheWay(log, s, copy[s], Len(log), Len(log), Unnamed(SkippedNames(s)))
           /\ Held(log, skipped[s], copy[s], Len(log), Len(log))
<1>0. Len(log) \in Nat /\ Applied(s) = Len(log)
  BY DEF NamesInv, HistoryInv, TypeInv, TypeOK, CaughtUp, Applied
<1>1. PICK h \in Len(log)..Len(log) :
        /\ OnTheWay(log, s, copy[s], Len(log), h, Unnamed(SkippedNames(s)))
        /\ Held(log, skipped[s], copy[s], Len(log), h)
  BY <1>0 DEF ReplayInv
<1>2. h = Len(log)
  BY <1>0, <1>1
<1> QED
  BY <1>0, <1>1, <1>2

\* A consumer that has caught up holds what one pass over the topic builds, but for the
\* accounts of the name in an event that was committed before it was taken: however often
\* it was sent back and died, for every number of handlers, services and accounts, and
\* with every loss on the way to the topic.
THEOREM CaughtUpAreReplays == Spec => []CaughtUpIsReplay
<1>1. NamesInv /\ ReplayInv => CaughtUpIsReplay
  <2> SUFFICES ASSUME NamesInv, ReplayInv, NEW s \in Services \ Resilient, NEW u \in Ids,
                      CaughtUp(s), Spared(s, u)
               PROVE  copy[s][u] = Replayed(s, Len(log))[u]
    BY DEF CaughtUpIsReplay
  <2>1. u \in Unnamed(SkippedNames(s))
    BY DEF Spared, Unnamed, SkippedNames
  <2>2. Len(log) \in Nat
        /\ OnTheWay(log, s, copy[s], Len(log), Len(log), Unnamed(SkippedNames(s)))
    BY Arrived
  <2>3. \A i \in (Len(log) + 1)..Len(log) : FALSE
    BY <2>2
  <2>4. copy[s][u] = Replay(log, s, Len(log))[u]
    BY <2>1, <2>2, <2>3 DEF OnTheWay
  <2> QED
    BY <2>4, ReplayedIsReplay
<1> QED
  BY <1>1, ReplayAlways, PTL

\* A consumer that has caught up holds, of an account that it knows, what the last event
\* about it said, unless that one event was committed before it was taken: the order and the
\* number of handlers that published, what else was skipped and what was taken
\* twice make no difference.
THEOREM LastEventsAreHeld == Spec => []LastEventIsHeld
<1>1. NamesInv /\ ReplayInv => LastEventIsHeld
  <2> SUFFICES ASSUME NamesInv, ReplayInv, NEW s \in Services \ Resilient, NEW u \in Ids,
                      CaughtUp(s), copy[s][u] # NoRow,
                      NEW i \in 1..Len(log), LastOf(u, i), i \notin skipped[s]
               PROVE  copy[s][u] = log[i].row
    BY DEF LastEventIsHeld
  <2>1. Held(log, skipped[s], copy[s], Len(log), Len(log))
    BY Arrived
  <2> QED
    BY <2>1 DEF Held, LastOf
<1> QED
  BY <1>1, ReplayAlways, PTL

====
