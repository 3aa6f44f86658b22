---- MODULE Threads ----
(***************************************************************************)
(* The threads of the thread service, with their likes and reports.        *)
(*                                                                         *)
(* A handler reads a row, changes it in a later step, and tells the topic  *)
(* thread-events of what it has read or written later still.  A page that  *)
(* shows the list of threads and misses no broadcast is part of the model: *)
(* what it shows is put together from such news, in the order they came.   *)
(***************************************************************************)
EXTENDS Naturals, FiniteSets

CONSTANTS
    Users,
    Moderators,      \* users whose local copy has the role moderator
    Admins,          \* and the role admin
    Communities,
    CommunityOwner,  \* community |-> its owner, in the community service
    Values,          \* column that an edit may change |-> what it may be
    NoRow,           \* no row, nobody, nothing shown
    Workers,         \* handler coroutines of the thread service
    Handlers,        \* the handlers that clients call
    Faults,          \* what may go wrong
    MaxThread,       \* bound: threads created
    MaxReport,       \* bound: reports made
    MaxRequests,     \* bound: requests started
    MaxRestarts      \* bound: restarts of the service

AllHandlers == {"create", "edit", "delete", "like", "report", "review"}
\* title stands for title and description.
Columns == {"title", "tags", "status"}
Texts == {x \in [Columns -> UNION {Values[k] : k \in Columns}] :
            \A k \in Columns : x[k] \in Values[k]}
NoTags == ""
Aspects == {"life", "likes"} \cup Columns
Ids == 1..MaxThread
ReportIds == 1..MaxReport
\* deleters: whose deletes have set deleted_at, which is NULL if there are none.
Thread == [author : Users, community : Communities \cup {NoRow}, text : Texts,
           deleters : SUBSET Users]
\* since (history): the next id when its request looked for a pending report.
Report == [thread : Ids, by : Users, status : {"pending", "reviewed", "dismissed"},
           since : 1..(MaxReport + 1)]
View == [text : Texts, likes : Nat]

ASSUME ConstantsOK ==
    /\ IsFiniteSet(Users)
    /\ Moderators \subseteq Users
    /\ Admins \subseteq Users \ Moderators
    /\ CommunityOwner \in [Communities -> Users]
    /\ Values \in [Columns -> SUBSET STRING]
    /\ NoRow \notin Thread \cup Report \cup View \cup Communities \cup Users
    /\ Handlers \subseteq AllHandlers
    /\ Faults \subseteq {"lose_alert", "lose_news", "restart"}
    /\ MaxThread \in Nat /\ MaxReport \in Nat /\ MaxRequests \in Nat /\ MaxRestarts \in Nat

VARIABLES
    threads,     \* the table threads
    nextId,      \* its id sequence
    likes,       \* the table likes: per thread and user the id of a row, or 0
    nextLike,    \* its id sequence
    reports,     \* the table reports
    nextReport,  \* its id sequence
    req,         \* per handler coroutine: the request it serves
    alerts,      \* what thread-events has asked to tell whom
    page,        \* the threads that a page with every broadcast shows
    doubt,       \* history: of what the last news was lost, out of date or left out
    started,     \* requests started so far
    restarts     \* restarts so far

tables == <<threads, nextId, likes, nextLike, reports, nextReport>>
shown == <<page, doubt>>
counters == <<started, restarts>>
vars == <<tables, req, alerts, shown, counters>>

Idle == [op |-> "none", at |-> "idle", actor |-> NoRow, id |-> 0, row |-> NoRow,
         dirty |-> {}, like |-> 0, count |-> 0, report |-> 0, since |-> 1,
         status |-> "pending", todo |-> {}, crossed |-> {}]
Request == [op : AllHandlers \cup {"none"},
            at : {"idle", "commit", "count", "tell", "alert", "admins"},
            actor : Users \cup {NoRow},
            id : Ids \cup {0},
            row : Thread \cup {NoRow},      \* the thread in the session
            dirty : SUBSET Aspects,         \* what its commit changes of what it loaded
            like : Nat,                     \* like: the id of the row found, or 0
            count : Nat,                    \* like: like_count
            report : ReportIds \cup {0},
            since : 1..(MaxReport + 1),     \* report: history, see Report
            status : {"pending", "reviewed", "dismissed"},
            todo : SUBSET Users,            \* report: the admins not told yet
            crossed : SUBSET (Aspects \cup {"own"})]
                            \* history: what has changed since this request read it
Alert == [type : {"community_thread", "thread_deleted", "thread_like", "thread_report"},
          user : Users, thread : Ids, actor : Users]

TypeOK ==
    /\ threads \in [Ids -> Thread \cup {NoRow}]
    /\ nextId \in 1..(MaxThread + 1)
    /\ likes \in [Ids -> [Users -> Nat]]
    /\ nextLike \in Nat \ {0}
    /\ reports \in [ReportIds -> Report \cup {NoRow}]
    /\ nextReport \in 1..(MaxReport + 1)
    /\ req \in [Workers -> Request]
    /\ alerts \in SUBSET Alert
    /\ page \in [Ids -> View \cup {NoRow}]
    /\ doubt \in [Ids -> SUBSET Aspects]
    /\ started \in 0..MaxRequests
    /\ restarts \in 0..MaxRestarts

-----------------------------------------------------------------------------
Exists(t) == threads[t] # NoRow
Live(t) == Exists(t) /\ threads[t].deleters = {}
LikeCount(t) == Cardinality({u \in Users : likes[t][u] # 0})

\* ensure_can_delete
MayDelete(u, owner) ==
    \/ u \in Admins
    \/ u = owner
    \/ u \in Moderators /\ owner \notin Moderators \cup Admins

Begin(op) ==
    /\ op \in Handlers
    /\ started < MaxRequests
    /\ started' = started + 1
    /\ UNCHANGED restarts

\* What a request has read of a thread that another one may change before it
\* tells of it.  "own": whether its caller likes the thread.
Knows(r) ==
    CASE r.op = "create" -> Aspects
      [] r.op = "edit" -> Columns
      [] r.op = "like" -> IF r.at = "tell" THEN {"likes", "own"} ELSE {"own"}
      [] OTHER -> {}

\* What q has read of this is not so any more when r has changed the aspects in S.
Crossing(q, r, S) ==
    IF q.id # r.id THEN {} ELSE Knows(q) \cap IF q.actor = r.actor THEN S ELSE S \ {"own"}

\* The handler w goes on with r, having changed the aspects in S of its thread.
Step(w, r, S) ==
    req' = [v \in Workers |-> IF v = w THEN r
              ELSE [req[v] EXCEPT !.crossed = @ \cup Crossing(req[v], r, S)]]
Goto(w, r, at) == Step(w, [r EXCEPT !.at = at], {})
Finish(w) == Step(w, Idle, {})

\* KafkaProducerWrapper.send of an event for one user; it may be lost.
Tell(type, u, r) ==
    \/ alerts' = alerts \cup {[type |-> type, user |-> u, thread |-> r.id, actor |-> r.actor]}
    \/ "lose_alert" \in Faults /\ UNCHANGED alerts

-----------------------------------------------------------------------------
(* Threads.  A request that is refused changes nothing and is not started. *)

\* create_thread: the community is fetched, then the row is inserted.
Create(w, a, c, text) ==
    /\ req[w].at = "idle"
    /\ Begin("create")
    /\ nextId <= MaxThread
    /\ text["status"] = "open"
    /\ LET row == [author |-> a, community |-> c, text |-> text, deleters |-> {}] IN
       /\ threads' = [threads EXCEPT ![nextId] = row]
       /\ nextId' = nextId + 1
       /\ Goto(w, [Idle EXCEPT !.op = "create", !.actor = a, !.id = nextId, !.row = row],
                  IF c = NoRow THEN "tell" ELSE "alert")
    /\ UNCHANGED <<likes, nextLike, reports, nextReport, alerts, shown>>

\* update_thread: only the author; a column that is not given, or given as it was
\* loaded, is not written.
EditLoad(w, a, t, text) ==
    /\ req[w].at = "idle"
    /\ Begin("edit")
    /\ Live(t) /\ threads[t].author = a
    /\ Goto(w, [Idle EXCEPT !.op = "edit", !.actor = a, !.id = t,
                  !.row = [threads[t] EXCEPT !.text = text],
                  !.dirty = {k \in Columns : text[k] # threads[t].text[k]}], "commit")
    /\ UNCHANGED <<tables, alerts, shown>>

DeleteLoad(w, a, t) ==
    /\ req[w].at = "idle"
    /\ Begin("delete")
    /\ Live(t) /\ MayDelete(a, threads[t].author)
    /\ Goto(w, [Idle EXCEPT !.op = "delete", !.actor = a, !.id = t,
                  !.row = [threads[t] EXCEPT !.deleters = {a}], !.dirty = {"life"}], "commit")
    /\ UNCHANGED <<tables, alerts, shown>>

\* The columns in S as they are in new, the others as in old.
Merged(old, new, S) == [k \in Columns |-> IF k \in S THEN new[k] ELSE old[k]]

\* Mutant: the whole object is written back.
WrittenWhole(old, r) == r.row

\* The UPDATE of a commit sets the changed columns of the row as it is now.
Written(old, r) ==
    IF r.op = "edit" THEN [old EXCEPT !.text = Merged(@, r.row.text, r.dirty)]
                     ELSE [old EXCEPT !.deleters = @ \cup {r.actor}]

\* await db.commit() of update_thread and delete_thread.  What an edit tells
\* afterwards is the object in the session: a column it has written is as in the
\* table, a column it has not written is as it was loaded.
Commit(w) ==
    LET r == req[w] IN
    /\ r.op \in {"edit", "delete"} /\ r.at = "commit"
    /\ threads' = IF r.dirty = {} THEN threads
                  ELSE [threads EXCEPT ![r.id] = Written(threads[r.id], r)]
    /\ Step(w, [r EXCEPT !.at = IF r.op = "edit" THEN "tell" ELSE "alert",
                         !.crossed = @ \ r.dirty], r.dirty)
    /\ UNCHANGED <<nextId, likes, nextLike, reports, nextReport, alerts, shown, counters>>

\* The notice to one user that create_thread, delete_thread and the like endpoint
\* send when somebody else is concerned.
Alerted(w, type, u) ==
    /\ IF u # req[w].actor THEN Tell(type, u, req[w]) ELSE UNCHANGED alerts
    /\ UNCHANGED <<tables, shown, counters>>

TellConcerned(w) ==
    LET r == req[w] IN
    /\ r.at = "alert"
    /\ \/ /\ r.op = "create"
          /\ Alerted(w, "community_thread", CommunityOwner[r.row.community])
          /\ Goto(w, r, "tell")
       \/ /\ r.op = "delete"
          /\ Alerted(w, "thread_deleted", r.row.author)
          /\ Goto(w, r, "tell")
       \/ /\ r.op = "like"
          /\ Alerted(w, "thread_like", threads[r.id].author)
          /\ Finish(w)

-----------------------------------------------------------------------------
(* Likes: toggle_like_thread, which does not ask whether the thread lives. *)

\* Mutant: the search for a like forgets to ask for the user's own.
FoundOfAny(a, t) ==
    IF LikeCount(t) = 0 THEN 0 ELSE CHOOSE k \in {likes[t][u] : u \in Users} : k # 0

\* Mutant: what was not found is used as if it were a row.
FoundNothing(a, t) == IF likes[t][a] = 0 THEN NoRow ELSE likes[t][a]

Found(a, t) == likes[t][a]

LikeLoad(w, a, t) ==
    /\ req[w].at = "idle"
    /\ Begin("like")
    /\ Exists(t)
    /\ Goto(w, [Idle EXCEPT !.op = "like", !.actor = a, !.id = t, !.like = Found(a, t)],
                  "commit")
    /\ UNCHANGED <<tables, alerts, shown>>

\* The DELETE names the row by its primary key; if it has gone, that is no error.
SameRow(r) == r.like # 0 /\ r.like = likes[r.id][r.actor]

ToggleCommit(w) ==
    LET r == req[w]
        found == likes[r.id][r.actor]
        counted == [r EXCEPT !.at = "count"]
    IN
    /\ r.op = "like" /\ r.at = "commit"
    /\ \/ /\ SameRow(r)
          /\ likes' = [likes EXCEPT ![r.id][r.actor] = 0]
          /\ Step(w, counted, {"likes", "own"})
          /\ UNCHANGED nextLike
       \/ /\ r.like # 0 /\ ~SameRow(r)
          /\ Step(w, counted, {})
          /\ UNCHANGED <<likes, nextLike>>
       \/ /\ r.like = 0 /\ found = 0
          /\ likes' = [likes EXCEPT ![r.id][r.actor] = nextLike]
          /\ nextLike' = nextLike + 1
          /\ Step(w, counted, {"likes", "own"})
       \/ /\ r.like = 0 /\ found # 0        \* uq_like_user_thread
          /\ Finish(w)
          /\ UNCHANGED <<likes, nextLike>>
    /\ UNCHANGED <<threads, nextId, reports, nextReport, alerts, shown, counters>>

\* Mutant: the caller's own like is not counted.
CountOthers(r) == Cardinality({u \in Users \ {r.actor} : likes[r.id][u] # 0})

CountOf(r) == LikeCount(r.id)

Count(w) ==
    LET r == req[w] IN
    /\ r.at = "count"
    /\ Goto(w, [r EXCEPT !.count = CountOf(r)], "tell")
    /\ UNCHANGED <<tables, alerts, shown, counters>>

-----------------------------------------------------------------------------
(* Broadcasts, and the page that hears them.                               *)

\* What the broadcast of a request tells of.  That of an edit has no status, and
\* the consumer of the notification service drops tags that are None.
News(r) ==
    CASE r.op = "create" -> Aspects
      [] r.op = "edit" -> {"title"} \cup IF r.row.text["tags"] = NoTags THEN {} ELSE {"tags"}
      [] r.op = "delete" -> {"life"}
      [] OTHER -> {"likes"}

\* And what it should have told of, too.
Omitted(r) == IF r.op = "edit" THEN r.dirty \ News(r) ELSE {}

\* Home.js: a broadcast about a thread that is not shown changes nothing.
After(v, r) ==
    CASE r.op = "create" -> IF v = NoRow THEN [text |-> r.row.text, likes |-> 0] ELSE v
      [] r.op = "delete" -> NoRow
      [] r.op = "edit" ->
            IF v = NoRow THEN v ELSE [v EXCEPT !.text = Merged(@, r.row.text, News(r))]
      [] OTHER -> IF v = NoRow THEN v ELSE [v EXCEPT !.likes = r.count]

Announce(w) ==
    LET r == req[w] IN
    /\ r.at = "tell"
    /\ \/ /\ page' = [page EXCEPT ![r.id] = After(@, r)]
          /\ doubt' = [doubt EXCEPT ![r.id] =
                          (@ \ News(r)) \cup (r.crossed \cap News(r)) \cup Omitted(r)]
       \/ /\ "lose_news" \in Faults
          /\ doubt' = [doubt EXCEPT ![r.id] = @ \cup News(r) \cup Omitted(r)]
          /\ UNCHANGED page
    /\ IF r.op = "like" /\ r.like = 0 THEN Goto(w, r, "alert") ELSE Finish(w)
    /\ UNCHANGED <<tables, alerts, counters>>

-----------------------------------------------------------------------------
(* Reports.                                                                *)

ReportCheck(w, a, t) ==
    /\ req[w].at = "idle"
    /\ Begin("report")
    /\ Live(t) /\ threads[t].author # a
    /\ ~ \E i \in ReportIds : reports[i] # NoRow /\ reports[i].thread = t
                              /\ reports[i].by = a /\ reports[i].status = "pending"
    /\ Goto(w, [Idle EXCEPT !.op = "report", !.actor = a, !.id = t, !.since = nextReport],
                  "commit")
    /\ UNCHANGED <<tables, alerts, shown>>

\* Mutant: whoever reports does not hear of it.
AdminsButReporter(r) == Admins \ {r.actor}

\* select(User).where(User.role == "admin")
AdminRows(r) == Admins

\* No constraint backs the check.  After the commit the admins are looked up.
ReportInsert(w) ==
    LET r == req[w] IN
    /\ r.op = "report" /\ r.at = "commit"
    /\ nextReport <= MaxReport
    /\ reports' = [reports EXCEPT ![nextReport] =
                     [thread |-> r.id, by |-> r.actor, status |-> "pending", since |-> r.since]]
    /\ nextReport' = nextReport + 1
    /\ IF AdminRows(r) = {} THEN Finish(w)
       ELSE Goto(w, [r EXCEPT !.report = nextReport, !.todo = AdminRows(r)], "admins")
    /\ UNCHANGED <<threads, nextId, likes, nextLike, alerts, shown, counters>>

TellAdmin(w, a) ==
    LET r == req[w]
        left == r.todo \ {a}
    IN
    /\ r.at = "admins"
    /\ a \in r.todo
    /\ Tell("thread_report", a, r)
    /\ IF left = {} THEN Finish(w) ELSE Goto(w, [r EXCEPT !.todo = left], "admins")
    /\ UNCHANGED <<tables, shown, counters>>

\* Mutant: any status is taken.
AnyVerdict == {"pending", "reviewed", "dismissed"}

Verdicts == {"reviewed", "dismissed"}

\* update_report_status
ReviewLoad(w, a, i, status) ==
    /\ req[w].at = "idle"
    /\ Begin("review")
    /\ a \in Admins
    /\ status \in Verdicts
    /\ reports[i] # NoRow
    /\ Goto(w, [Idle EXCEPT !.op = "review", !.actor = a, !.report = i, !.status = status,
                  !.dirty = IF status # reports[i].status THEN {"status"} ELSE {}], "commit")
    /\ UNCHANGED <<tables, alerts, shown>>

ReviewCommit(w) ==
    LET r == req[w] IN
    /\ r.op = "review" /\ r.at = "commit"
    /\ reports' = IF r.dirty = {} THEN reports
                  ELSE [reports EXCEPT ![r.report].status = r.status]
    /\ Finish(w)
    /\ UNCHANGED <<threads, nextId, likes, nextLike, nextReport, alerts, shown, counters>>

-----------------------------------------------------------------------------
\* Changes that a request has made, or is bound to speak of, and not told yet.
Untold(r) ==
    CASE r.op \in {"create", "delete"} /\ r.at \in {"alert", "tell"} -> News(r)
      [] r.op = "edit" /\ r.at = "tell" -> News(r) \cup Omitted(r)
      [] r.op = "like" /\ r.at \in {"count", "tell"} -> News(r)
      [] OTHER -> {}
Unannounced(t) == UNION {Untold(req[w]) : w \in {v \in Workers : req[v].id = t}}

\* The process stops and starts again; what its handlers were doing is gone.
Restart ==
    /\ "restart" \in Faults
    /\ restarts < MaxRestarts
    /\ restarts' = restarts + 1
    /\ req' = [w \in Workers |-> Idle]
    /\ doubt' = [t \in Ids |-> doubt[t] \cup Unannounced(t)]
    /\ UNCHANGED <<tables, alerts, page, started>>

Init ==
    /\ threads = [t \in Ids |-> NoRow]
    /\ nextId = 1
    /\ likes = [t \in Ids |-> [u \in Users |-> 0]]
    /\ nextLike = 1
    /\ reports = [i \in ReportIds |-> NoRow]
    /\ nextReport = 1
    /\ req = [w \in Workers |-> Idle]
    /\ alerts = {}
    /\ page = [t \in Ids |-> NoRow]
    /\ doubt = [t \in Ids |-> {}]
    /\ started = 0
    /\ restarts = 0

Start(w) ==
    \E a \in Users :
        \/ \E c \in Communities \cup {NoRow}, text \in Texts : Create(w, a, c, text)
        \/ \E t \in Ids, text \in Texts : EditLoad(w, a, t, text)
        \/ \E t \in Ids : DeleteLoad(w, a, t) \/ LikeLoad(w, a, t) \/ ReportCheck(w, a, t)
        \/ \E i \in ReportIds, status \in AnyVerdict : ReviewLoad(w, a, i, status)

Proceed(w) ==
    \/ Commit(w)
    \/ TellConcerned(w)
    \/ ToggleCommit(w)
    \/ Count(w)
    \/ Announce(w)
    \/ ReportInsert(w)
    \/ \E a \in Users : TellAdmin(w, a)
    \/ ReviewCommit(w)

Next == (\E w \in Workers : Start(w) \/ Proceed(w)) \/ Restart

Spec == Init /\ [][Next]_vars

-----------------------------------------------------------------------------
\* What the list of threads says of t, which is in it if it lives.  Search, tag
\* and paging choose among the rows and are left out.
Answer(t) == [text |-> threads[t].text, likes |-> LikeCount(t)]

\* What the page shows of t is what a page that fetches the list would show.
Agrees(t, k) ==
    CASE k = "life" -> page[t] # NoRow <=> Live(t)
      [] k = "likes" -> page[t] # NoRow => page[t].likes = Answer(t).likes
      [] OTHER -> page[t] # NoRow => page[t].text[k] = Answer(t).text[k]

\* A page that hears every broadcast shows the threads that live, with their
\* titles, tags, status and numbers of likes, as soon as the handlers have told
\* their news.  It is misled about one of these only while the last news it had of
\* it was lost, or was read before a change that another handler made before it was
\* sent, or an edit since has changed the status or cleared the tags.
MisledForCause ==
    \A t \in Ids : \A k \in Aspects :
        k \notin doubt[t] /\ k \notin Unannounced(t) => Agrees(t, k)

\* What a toggle answers ("liked") is so, unless another toggle of the same user
\* and thread has changed it meanwhile: deleting the row that was found is not
\* deleting the row that is there.
OnlyOwnRivalsMisinform ==
    \A w \in Workers :
        LET r == req[w] IN
        r.op = "like" /\ r.at \in {"count", "tell"} /\ "own" \notin r.crossed =>
            (likes[r.id][r.actor] # 0 <=> r.like = 0)

\* One user has two pending reports of a thread only if the request of the later
\* one looked for the earlier one before it was there: reviewing does not make a
\* report pending again, so no sequence of reviews and reports does it.
OnlyRacesDuplicateReport ==
    \A i, j \in ReportIds :
        /\ i < j
        /\ reports[i] # NoRow /\ reports[j] # NoRow
        /\ reports[i].thread = reports[j].thread /\ reports[i].by = reports[j].by
        /\ reports[i].status = "pending" /\ reports[j].status = "pending"
        => reports[j].since <= i

Heard(type, u, t, a) == [type |-> type, user |-> u, thread |-> t, actor |-> a] \in alerts
Serving(op, t, a) == \E w \in Workers : req[w].op = op /\ req[w].id = t /\ req[w].actor = a

\* Nobody is left out, if no alert is lost and the service does not stop: once the
\* handler is done, a community's owner has heard of a thread in it, its author of
\* likes and deletes by others, and every admin of every report.
NobodyIsLeftOut ==
    "lose_alert" \notin Faults /\ restarts = 0 =>
        /\ \A t \in Ids : Exists(t) =>
              LET row == threads[t] IN
              /\ row.community # NoRow /\ CommunityOwner[row.community] # row.author =>
                    \/ Heard("community_thread", CommunityOwner[row.community], t, row.author)
                    \/ Serving("create", t, row.author)
              /\ \A a \in Users \ {row.author} :
                    /\ a \in row.deleters => Heard("thread_deleted", row.author, t, a)
                                             \/ Serving("delete", t, a)
                    /\ likes[t][a] # 0 => Heard("thread_like", row.author, t, a)
                                          \/ Serving("like", t, a)
        /\ \A i \in ReportIds : reports[i] # NoRow =>
              \A u \in Admins : Heard("thread_report", u, reports[i].thread, reports[i].by)
                                \/ Serving("report", reports[i].thread, reports[i].by)

\* A deleted thread stays deleted, whatever older objects handlers still hold; it
\* dies by a user who may delete it, and its text changes by its author only.
DeadStayDead ==
    [][\A t \in Ids : Exists(t) =>
          /\ Exists(t)'
          /\ threads[t].deleters \subseteq threads'[t].deleters
          /\ \A u \in threads'[t].deleters \ threads[t].deleters : MayDelete(u, threads[t].author)
          /\ threads'[t].text # threads[t].text =>
                \E w \in Workers : req[w].op = "edit" /\ req[w].id = t
                                   /\ req[w].actor = threads[t].author]_vars

====
