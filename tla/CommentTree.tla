---- MODULE CommentTree ----
(***************************************************************************)
(* The comments of the comment service.                                    *)
(*                                                                         *)
(* A comment may reply to another one.  Deleting a comment is soft, and    *)
(* takes the replies below it along: the handler looks for them one level  *)
(* at a time, marks them one by one and commits once, while other handlers *)
(* run between its queries.  A handler tells the notification service what *)
(* it has done: alerts for one user, and broadcasts for every open page.   *)
(***************************************************************************)
EXTENDS Naturals, Sequences, FiniteSets

CONSTANTS
    Users,
    Moderators,   \* users whose local copy has the role moderator
    Admins,       \* and the role admin
    Threads,
    ThreadAuthor, \* thread |-> its author, in the thread service
    Contents,     \* texts of a comment
    Mentioned,    \* text |-> the users whose names it has behind an @
    NoComment,    \* no row with this id
    Workers,      \* handler coroutines of the comment service
    Handlers,     \* the handlers that clients call
    Faults,       \* what may go wrong
    MaxComment,   \* bound: comments created
    MaxRequests,  \* bound: requests started
    MaxRestarts   \* bound: restarts of the service

AllHandlers == {"create", "edit", "delete", "restore"}
Ids == 1..MaxComment
Comment == [parent : Ids \cup {0}, thread : Threads, author : Users,
            content : Contents, live : BOOLEAN]    \* live: deleted_at IS NULL

ASSUME ConstantsOK ==
    /\ Moderators \subseteq Users
    /\ Admins \subseteq Users \ Moderators
    /\ ThreadAuthor \in [Threads -> Users]
    /\ Mentioned \in [Contents -> SUBSET Users]
    /\ NoComment \notin Comment
    /\ Handlers \subseteq AllHandlers
    /\ Faults \subseteq {"lose_alert", "lose_news", "lookup", "restart"}
    /\ MaxComment \in Nat /\ MaxRequests \in Nat /\ MaxRestarts \in Nat

VARIABLES
    comments,    \* the table comments
    nextId,      \* its id sequence
    req,         \* per handler coroutine: the request it serves
    alerts,      \* what comment-events asks to tell whom
    broadcasts,  \* what comment-events asks to show to everybody
    started,     \* requests started so far
    restarts,    \* restarts so far
    missed,      \* history: who was owed the news of which comment, and did not get it
    late,        \* history: comments inserted below one that a delete had passed
    restored     \* history: comments that a restore has brought back

dbVars == <<comments, nextId, late, restored>>
events == <<alerts, broadcasts, missed>>
vars == <<comments, nextId, req, alerts, broadcasts, started, restarts, missed, late, restored>>

Idle == [op |-> "none", at |-> "idle", actor |-> 0, id |-> 0, row |-> NoComment,
         ids |-> {}, todo |-> {}, dirty |-> {}, names |-> {}]
Request == [op : AllHandlers \cup {"none"},
            at : {"idle", "insert", "scan", "mark", "commit", "alert", "thread", "broadcast",
                  "mention"},
            actor : Users \cup {0},
            id : Ids \cup {0},
            row : Comment \cup {NoComment},  \* the ORM object in the session
            ids : SUBSET Ids,                \* delete: all_ids
            todo : SUBSET Ids,               \* delete: to_check, then the ids not yet read
            dirty : SUBSET Ids,              \* the comments with a changed attribute
            names : SUBSET Users]            \* create: mentioned_users not yet told
Alert == [type : {"comment_reply", "new_comment", "mention", "comment_deleted"},
          user : Users, comment : Ids]
Broadcast == [type : {"new_comment_broadcast", "comment_edited", "comment_deleted",
                      "comment_restored"},
              comment : Ids, row : Comment, count : Nat]
\* row stands for the columns that a type of broadcast sends.

TypeOK ==
    /\ comments \in [Ids -> Comment \cup {NoComment}]
    /\ nextId \in 1..(MaxComment + 1)
    /\ req \in [Workers -> Request]
    /\ alerts \in SUBSET Alert
    /\ broadcasts \in Seq(Broadcast)
    /\ started \in 0..MaxRequests
    /\ restarts \in 0..MaxRestarts
    /\ missed \in SUBSET (Users \X Ids)
    /\ late \in SUBSET Ids
    /\ restored \in SUBSET Ids

-----------------------------------------------------------------------------
(* The table, and who may delete from it.                                  *)

Exists(c) == comments[c] # NoComment
Live(c) == Exists(c) /\ comments[c].live

\* Mutant: the search goes up instead of down.
ParentsOf(S) == {c \in Ids : Live(c) /\ \E r \in S : comments[r].parent = c}

ChildrenOf(S) == {c \in Ids : Live(c) /\ comments[c].parent \in S}
Staff == Moderators \cup Admins

\* ensure_can_delete
MayDelete(u, owner) ==
    \/ u \in Admins
    \/ u = owner
    \/ u \in Moderators /\ owner \notin Staff

Begin(w, op) ==
    /\ op \in Handlers
    /\ req[w].at = "idle"
    /\ started < MaxRequests
    /\ started' = started + 1
    /\ UNCHANGED <<dbVars, events, restarts>>

Goto(w, r, at) == req' = [req EXCEPT ![w] = [r EXCEPT !.at = at]]
Finish(w) == req' = [req EXCEPT ![w] = Idle]

-----------------------------------------------------------------------------
(* The start of each handler, up to its first change.  A request that is   *)
(* refused changes nothing and is not started.                             *)

\* Mutant: the thread of the parent is not compared.
RepliesAnywhere(t, p) == p # 0 => Live(p)

\* The parent of a new comment is live and in the same thread, when it is read.
ParentAccepted(t, p) == p # 0 => Live(p) /\ comments[p].thread = t

CreateCheck(w, a, t, p, text) ==
    /\ Begin(w, "create")
    /\ ParentAccepted(t, p)
    /\ Goto(w, [Idle EXCEPT !.op = "create", !.actor = a,
                  !.row = [parent |-> p, thread |-> t, author |-> a,
                           content |-> text, live |-> TRUE]], "insert")

EditLoad(w, a, c, text) ==
    /\ Begin(w, "edit")
    /\ Live(c) /\ comments[c].author = a
    /\ Goto(w, [Idle EXCEPT !.op = "edit", !.actor = a, !.id = c,
                  !.row = [comments[c] EXCEPT !.content = text],
                  !.dirty = IF text = comments[c].content THEN {} ELSE {c}], "commit")

DeleteLoad(w, a, c) ==
    /\ Begin(w, "delete")
    /\ Live(c) /\ MayDelete(a, comments[c].author)
    /\ Goto(w, [Idle EXCEPT !.op = "delete", !.actor = a, !.id = c, !.row = comments[c],
                  !.ids = {c}, !.todo = {c}], "scan")

\* The object's deleted_at is set to NULL, which is a change if it was not NULL.
RestoreLoad(w, a, c) ==
    /\ Begin(w, "restore")
    /\ Exists(c) /\ (a \in Staff \/ comments[c].author = a)
    /\ Goto(w, [Idle EXCEPT !.op = "restore", !.actor = a, !.id = c,
                  !.row = comments[c], !.dirty = IF Live(c) THEN {} ELSE {c}], "commit")

-----------------------------------------------------------------------------
(* create_comment, after its check.                                        *)

\* The comments that a delete under way has collected and looked for replies to.
Searched(r) ==
    {c \in r.ids : r.at \in {"mark", "commit"} \/ (r.at = "scan" /\ c \notin r.todo)}
Passed == UNION {Searched(req[w]) : w \in Workers}

\* Mutant: the object is used without the id that the database gave it.
InsertBeforeId(w) ==
    LET r == req[w] IN
    /\ r.at = "insert"
    /\ nextId <= MaxComment
    /\ comments' = [comments EXCEPT ![nextId] = r.row]
    /\ nextId' = nextId + 1
    /\ Goto(w, r, "broadcast")
    /\ UNCHANGED <<late, restored, events, started, restarts>>

\* The database checks that the parent exists, not that it is live.
Insert(w) ==
    LET r == req[w] IN
    /\ r.at = "insert"
    /\ nextId <= MaxComment
    /\ comments' = [comments EXCEPT ![nextId] = r.row]
    /\ nextId' = nextId + 1
    /\ late' = IF r.row.parent # 0 /\ (~Live(r.row.parent) \/ r.row.parent \in Passed)
               THEN late \cup {nextId} ELSE late
    /\ Goto(w, [r EXCEPT !.id = nextId], IF r.row.parent = 0 THEN "thread" ELSE "alert")
    /\ UNCHANGED <<restored, events, started, restarts>>

\* KafkaProducerWrapper.send of an event for one user; it may be lost.
Send(type, u, c) == alerts' = alerts \cup {[type |-> type, user |-> u, comment |-> c]}
Tell(type, u, c) == Send(type, u, c) \/ ("lose_alert" \in Faults /\ UNCHANGED alerts)

\* The news of a new comment for a user who is owed it, unless one of some faults happens.
News(r, owed, type, u, faults) ==
    \/ ~owed /\ UNCHANGED <<alerts, missed>>
    \/ owed /\ Send(type, u, r.id) /\ UNCHANGED missed
    \/ /\ owed /\ faults \cap Faults # {}
       /\ missed' = missed \cup {<<u, r.id>>}
       /\ UNCHANGED alerts

ReplyAlert(w) ==
    LET r == req[w]
        owner == comments[r.row.parent].author
    IN
    /\ r.at = "alert" /\ r.op = "create"
    /\ News(r, owner # r.actor, "comment_reply", owner, {"lose_alert"})
    /\ Goto(w, r, "thread")
    /\ UNCHANGED <<dbVars, broadcasts, started, restarts>>

\* Mutant: the alert of the parent's author is forgotten.
NeverAlreadyNotified(r) == FALSE

\* The author of the thread has been told as the author of the parent.
AlreadyNotified(r) ==
    r.row.parent # 0 /\ comments[r.row.parent].author = ThreadAuthor[r.row.thread]

\* GET /threads/{id} names the author of the thread; if it fails, or answers that there
\* is no such thread, nobody is told and the handler goes on.
ThreadAlert(w) ==
    LET r == req[w]
        owner == ThreadAuthor[r.row.thread]
    IN
    /\ r.at = "thread"
    /\ News(r, owner # r.actor /\ ~AlreadyNotified(r), "new_comment", owner, {"lose_alert", "lookup"})
    /\ Goto(w, r, "broadcast")
    /\ UNCHANGED <<dbVars, broadcasts, started, restarts>>

-----------------------------------------------------------------------------
(* delete_comment, after its check.                                        *)

\* Mutant: only direct replies are found.
ScanOnce(w) ==
    LET r == req[w]
        ids == r.ids \cup ChildrenOf(r.todo)
    IN
    /\ r.at = "scan"
    /\ Goto(w, [r EXCEPT !.ids = ids, !.todo = ids], "mark")
    /\ UNCHANGED <<dbVars, events, started, restarts>>

\* One query for the replies to the comments that the last one found.
Scan(w) ==
    LET r == req[w]
        found == ChildrenOf(r.todo)
    IN
    /\ r.at = "scan"
    /\ IF found = {}
       THEN Goto(w, [r EXCEPT !.todo = r.ids], "mark")
       ELSE Goto(w, [r EXCEPT !.ids = @ \cup found, !.todo = found], "scan")
    /\ UNCHANGED <<dbVars, events, started, restarts>>

\* Mutant: only the target is marked.
MarksTarget(r, c) == c = r.id

\* A comment read back from the table is marked if it is live.  The target is in
\* the session since it was loaded, and looks live whatever happened to it.
Marks(r, c) == c = r.id \/ Live(c)

\* One query per comment found.  The order within a level is the database's.
Mark(w, c) ==
    LET r == req[w]
        r1 == [r EXCEPT !.todo = @ \ {c}, !.dirty = IF Marks(r, c) THEN @ \cup {c} ELSE @]
    IN
    /\ r.at = "mark"
    /\ c \in r.todo
    /\ Goto(w, r1, IF r1.todo = {} THEN "commit" ELSE "mark")
    /\ UNCHANGED <<dbVars, events, started, restarts>>

\* The author is told when somebody else has deleted the comment.
DeletedAlert(w) ==
    LET r == req[w] IN
    /\ r.at = "alert" /\ r.op = "delete"
    /\ IF r.row.author # r.actor THEN Tell("comment_deleted", r.row.author, r.id)
                                 ELSE UNCHANGED alerts
    /\ Goto(w, r, "broadcast")
    /\ UNCHANGED <<dbVars, broadcasts, missed, started, restarts>>

-----------------------------------------------------------------------------
(* Commit and broadcast.                                                   *)

\* The row that a handler leaves in the table.
Written(op, row, new) ==
    CASE op = "edit" -> [row EXCEPT !.content = new.content]
      [] op = "delete" -> [row EXCEPT !.live = FALSE]
      [] OTHER -> [row EXCEPT !.live = TRUE]

\* await db.commit() of the handlers that change rows: only the changed column of
\* the changed rows is written, whatever has become of them since they were read.
Commit(w) ==
    LET r == req[w] IN
    /\ r.at = "commit"
    /\ comments' = [c \in Ids |-> IF c \in r.dirty
                                  THEN Written(r.op, comments[c], r.row) ELSE comments[c]]
    /\ restored' = IF r.op = "restore" THEN restored \cup r.dirty ELSE restored
    /\ Goto(w, r, IF r.op = "delete" THEN "alert" ELSE "broadcast")
    /\ UNCHANGED <<nextId, events, started, restarts, late>>

EventType(op) ==
    CASE op = "create" -> "new_comment_broadcast"
      [] op = "edit" -> "comment_edited"
      [] op = "delete" -> "comment_deleted"
      [] OTHER -> "comment_restored"

\* deleted_count = len(all_ids)
DeletedCount(r) == Cardinality(r.ids)

\* The users to tell that a new comment mentions them.
ToMention(r) == IF r.op = "create" THEN Mentioned[r.row.content] \ {r.actor} ELSE {}

Announce(w) ==
    LET r == req[w] IN
    /\ r.at = "broadcast"
    /\ \/ broadcasts' = Append(broadcasts, [type |-> EventType(r.op), comment |-> r.id,
                                            row |-> r.row, count |-> DeletedCount(r)])
       \/ "lose_news" \in Faults /\ UNCHANGED broadcasts
    /\ IF ToMention(r) = {} THEN Finish(w)
       ELSE Goto(w, [r EXCEPT !.names = ToMention(r)], "mention")
    /\ UNCHANGED <<dbVars, alerts, missed, started, restarts>>

\* Whoever is mentioned is told so, whatever else he has been told.
Mention(w, u) ==
    LET r == req[w] IN
    /\ r.at = "mention"
    /\ u \in r.names
    /\ Tell("mention", u, r.id)
    /\ IF r.names = {u} THEN Finish(w)
       ELSE Goto(w, [r EXCEPT !.names = @ \ {u}], "mention")
    /\ UNCHANGED <<dbVars, broadcasts, missed, started, restarts>>

\* The process stops and starts again; what its handlers were doing is gone.
Restart ==
    /\ "restart" \in Faults
    /\ restarts < MaxRestarts
    /\ restarts' = restarts + 1
    /\ req' = [w \in Workers |-> Idle]
    /\ missed' = missed \cup
          {<<u, req[w].id>> : u \in Users,
                              w \in {v \in Workers : /\ req[v].op = "create"
                                                     /\ req[v].at \in {"alert", "thread"}}}
    /\ UNCHANGED <<dbVars, alerts, broadcasts, started>>

-----------------------------------------------------------------------------
Init ==
    /\ comments = [c \in Ids |-> NoComment]
    /\ nextId = 1
    /\ req = [w \in Workers |-> Idle]
    /\ alerts = {}
    /\ broadcasts = <<>>
    /\ started = 0
    /\ restarts = 0
    /\ missed = {}
    /\ late = {}
    /\ restored = {}

Start(w) ==
    \E a \in Users :
        \/ \E t \in Threads, p \in Ids \cup {0}, text \in Contents : CreateCheck(w, a, t, p, text)
        \/ \E c \in Ids, text \in Contents : EditLoad(w, a, c, text)
        \/ \E c \in Ids : DeleteLoad(w, a, c) \/ RestoreLoad(w, a, c)

\* A request that has begun, one step further.
Proceed(w) ==
    \/ Insert(w)
    \/ ReplyAlert(w)
    \/ ThreadAlert(w)
    \/ Scan(w)
    \/ \E c \in Ids : Mark(w, c)
    \/ Commit(w)
    \/ DeletedAlert(w)
    \/ Announce(w)
    \/ \E u \in Users : Mention(w, u)

Next == (\E w \in Workers : Start(w) \/ Proceed(w)) \/ Restart

Spec == Init /\ [][Next]_vars

-----------------------------------------------------------------------------
\* What GET /threads/{id}/comments shows: the comments whose parents are live up
\* to a live root.
Shown ==
    LET shown[c \in Ids] ==
            Live(c) /\ (comments[c].parent = 0 \/ shown[comments[c].parent])
    IN {c \in Ids : shown[c]}
\* What GET /comments/thread-counts counts.
Counted == {c \in Ids : Live(c)}

\* A set that has, with each comment, every reply to it.
ClosedUnderReplies(S) == \A c \in Ids : Exists(c) /\ comments[c].parent \in S => c \in S
\* c is t or a reply, direct or not, to t.
Below(c, t) == \A S \in SUBSET Ids : t \in S /\ ClosedUnderReplies(S) => c \in S

\* Replies form trees, each in one thread, however handlers interleave: a parent
\* exists, is older than its reply and is in the same thread.
WellFounded ==
    \A c \in Ids : Exists(c) /\ comments[c].parent # 0 =>
        /\ comments[c].parent < c
        /\ Exists(comments[c].parent)
        /\ comments[comments[c].parent].thread = comments[c].thread

\* A live reply below a deleted comment is one of two things: it was inserted
\* when a delete had already looked past its parent (create_comment does not
\* look again), or a restore has brought it back alone.  The level by level
\* search itself, racing edits, restores and other deletes, misses nothing.
OnlyRacesOrphan ==
    \A c \in Ids : Live(c) /\ comments[c].parent # 0 /\ ~Live(comments[c].parent)
        => c \in late \cup restored

\* A comment dies only by a delete of itself or of a comment above it, by a user who might
\* delete that one, and its content and place never change with it.  Nothing more is
\* promised to who wrote it: what the target's author says of the right to delete it, the
\* replies below the target are not asked (see StaffContentIsKept).
DeletesUnderAuthority ==
    [][\A c \in Ids : Live(c) /\ ~comments'[c].live =>
          /\ comments'[c] = [comments[c] EXCEPT !.live = FALSE]
          /\ \E w \in Workers :
               LET r == req[w] IN
               /\ r.op = "delete" /\ r.at = "commit"
               /\ Below(c, r.id)
               /\ MayDelete(r.actor, comments[r.id].author)]_vars

\* "prevents moderators from deleting admin/moderator content" (README.md:1146): what a
\* moderator deletes, but for comments of his own with all below them, is neither an admin's
\* nor another moderator's.
StaffContentIsKept ==
    [][\A w \in Workers :
          LET r == req[w]
              deletes == r.op = "delete" /\ r.at = "commit" /\ req'[w].at = "alert"
          IN deletes /\ r.actor \in Moderators \ {comments[r.id].author} =>
               \A c \in r.dirty : Live(c) => MayDelete(r.actor, comments[c].author)]_vars

\* The author of a thread hears of a comment by somebody else at most once, as the author of
\* the parent or as the author of the thread, and hears of it unless that one alert was
\* lost, the lookup of the thread failed or the service stopped meanwhile.  A mention in
\* the text comes on top of it.
ThreadAuthorToldOnce ==
    \A c \in Ids :
        LET owner == ThreadAuthor[comments[c].thread]
            heard == {a \in alerts : /\ a.comment = c /\ a.user = owner
                                     /\ a.type \in {"comment_reply", "new_comment"}}
            creating == \E w \in Workers : req[w].op = "create" /\ req[w].id = c
        IN Exists(c) /\ comments[c].author # owner =>
             /\ Cardinality(heard) <= 1
             /\ creating \/ <<owner, c>> \in missed \/ heard # {}

\* What the page of a thread shows is what its counter counts, but for what hangs from a
\* comment that raced with a delete of its parent, or that a restore has brought back.
ShownIsCounted ==
    /\ Shown \subseteq Counted
    /\ \A c \in Counted \ Shown : \E d \in late \cup restored : Below(c, d)

====
