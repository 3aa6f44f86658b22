# Specifications of the discussion forum

TLA+ modules about the forum's back end: what its services promise each other,
what its handlers do to shared rows while they wait at an `await`, and what can
go wrong between a commit, an event and a cache. Paths below are relative to
the repository; `S/` stands for `src/backend/services`.

TLC checks every module on small instances; TLAPS proves the theorems listed
below for every value of the constants. `PROJECT.json` maps each definition to
the lines it models and lists every run, hazard and theorem.

## 1. The system

Six FastAPI processes behind one another, each one uvicorn process with one
event loop: a handler runs undisturbed from one `await` to the next, and any
other handler may run in between. Each service owns a PostgreSQL database (READ
COMMITTED, sessions with `expire_on_commit=False`). Services tell each other of
changes through Kafka topics (`user-events`, `comment-events`, `thread-events`,
`community-events`), ask each other over HTTP for details, and are reached
through the gateway, which uses Redis. Browsers hold one websocket to the
notification service.

| Component | State | Operations | Talks to | Hard behaviour | Correct when |
|---|---|---|---|---|---|
| User service: accounts (`S/user_service`, `user_routes.py`) | rows of accounts, avatars on disk | register, profile, avatar, role, status, delete, `init-admin`, bootstrap admin | produces `user-events`; `POST /notifications/emit` | commit, refresh and send are separate awaits; a send that fails is dropped; a hard delete sends nothing | what copies say was once true; copies end up equal; nobody is told of a deletion that did not happen; no handler undoes another's ban |
| User service: sessions (`auth_routes.py`, `core/security.py`) | JWTs (90 min), reset tokens | login, me, forgot, reset | mail | tokens outlive bans and password changes; `jwt.decode` compares whole seconds | a reset token works once; a token opens nothing a second after its `exp` |
| Copies of accounts (`kafka_consumer.py` of thread, comment, community and notification service) | copy table, group offset | fetch, upsert, auto-commit | consume `user-events` | replay after a crash, an offset committed while its event is under way, a consumer that ends for good on an error | redelivery is harmless; a consumer that has caught up holds what a replay of the topic gives |
| Comment service (`comment_routes.py`) | comment rows with parents | create, edit, delete with everything below, restore, two readers | produces `comment-events`, asks the thread service for a thread's author | check-then-insert, a search level by level, rereads before marking | replies below a deleted comment are deleted; deletes stay under authority; counts and page agree but for races; nobody is told twice |
| Likes (thread and comment service) | like rows, unique per user and target | toggle | broadcasts the count | two toggles at once | no double like; the last count told is the count |
| Thread service: threads, reports (`thread_routes.py`, `report_routes.py`) | threads, reports | create, update, delete, report, review | `thread-events`, notices to staff | a report is looked for and then inserted; a broadcast tells what was read before it, and not all that was changed | duplicate reports come from races only; a page agrees with the table |
| Community service (`community_routes.py`) | communities, members, slugs | create, update, delete, join, leave, change role | produces `community-events` | membership, counts and ownership change in several steps | a community keeps its owner; no double membership |
| Notification service: delivery (`kafka_consumer.py`, `ws_manager.py`, `notification_routes.py`) | stored notifications, websocket registry | save, push, broadcast, mark read | consumes all four topics | the registry changes between any two sends of a push; replay saves twice; a refused commit loses a notice | each notice is stored, or lost to a named fault, and every live tab stays listed |
| Gateway: response cache (`core/cache.py`, `main.py`) | keys in Redis with a TTL | get, set, invalidate | every service | a fill that overlaps a write; invalidation in several steps; a failed call behind it that looks like a success | a wrong entry has a cause to name, and expires |
| Gateway: rate limiter (`core/rate_limiter.py`) | one sorted set per client and bucket | admit or reject | Redis | the stamp is taken before the wait for Redis; rejected requests count; Redis forgets | never more than the limit in a window |
| Gateway: routing, logout, blacklist (`main.py`, `core/token_blacklist.py`) | blacklisted tokens with a TTL | logout, check | Redis | a TTL cut to whole seconds; Redis down; cookie and header may carry different tokens | a token logged out is refused, but for less than a second to each side of its `exp` |
| Front end: live pages (`Home.js`, `ThreadDetail.js`, `AuthContext.js`) | lists, reply counts, one websocket | fetch, apply broadcasts, reconnect | gateway, websocket | a broadcast crosses a fetch; timers of an old session | the page agrees with the server once both are quiet |

## 2. Plan

Most important first; each line names what the module adds.

1. `UserSync` - accounts, `user-events`, the copies in the other services. *Done.*
2. `CommentTree` - the comment table under concurrent handlers, alerts and
   broadcasts. *Done.*
3. `GatewayCache` - the response cache around the proxied call. *Done.*
4. `Community` - members, owner, slugs. *Done.*
5. `Threads` - threads, likes and reports, and the page that hears their news. *Done.*
6. `Inbox` - what the notification service promises - and `Delivery` - how it
   keeps it, from topic to table to websocket, shown to implement `Inbox`. *Done.*
7. `Door` - rate limiter, logout, blacklist and tokens on one clock. *Done.*
8. `ThreadPage` - a page that fetches and listens at once, above the broadcasts
   of `CommentTree` and `Threads`; its fetches in flight are the one thing that
   `Threads`, whose page misses nothing, leaves out. *Open.*
9. The browser's session: delayed logout and reconnect timers of
   `AuthContext.js`, above the tokens of `Door` and the ban of `UserSync`. *Open.*
10. The password reset of the user service. *Open.*

Refinements still worth stating: a copy of an account as *a prefix of the topic,
replayed* (over `UserSync`); a cached read as *a read of one of the recent
versions* (over `GatewayCache`).

## 3. How the modules are built

One module per component with `CONSTANTS` and named assumptions, one action per
atomic section of a handler: from one `await` that reaches outside (query,
commit, send, Redis, HTTP) to the next. A handler coroutine is a member of
`Workers` whose request is a record with the place where it waits (`at`) and
the locals it holds; `Proceed(w)` is its next section. Queries of one session
on rows nobody else can change meanwhile, and reads whose result is not used
afterwards, are not split. A request that authentication or a permission check
refuses changes nothing and is not started. `Faults` names what an instance
lets go wrong. Variables and fields marked *history* exist only so that
properties can speak of the past; no guard of a program step reads them.

Mutants, the operators marked "Mutant:", are plausible slips of the same code,
kept next to the definition they would replace: each property is known to fail
under one of them.

### UserSync (`UserSync.tla`, `MCUserSync.tla`, `UserSyncProofs.tla`)

| Model | Code |
|---|---|
| `users`, `nextId` | table `users` of the user service and its id sequence |
| `req`, `Authenticate`, `Load`, `Commit`, `Refresh`, `Send`, `Emit`, `Broadcast` | the handlers of `user_routes.py`: who calls, the row in the session, the flush of its changed columns only (`Flushed`), the reread, the event and the notice |
| `RegisterCheck`, `RegisterInsert` | `create_user`: the check for the name, then the insert with its unique constraint |
| `log`, `notices` | `user-events`, one partition, in the order of the sends; what `POST /notifications/emit` was asked to tell |
| `copy`, `sub`, `Fetch`, `Apply`, `AutoCommit`, `RestartConsumer` | the consumer loop of each service: upsert, offset committed by the client library, end of the loop on an error except in the notification service (`Resilient`) |
| `RestartUserService` | stop of the process with all its requests, and the bootstrap admin made at start |

A hard delete, the bootstrap admin and `init-admin` publish nothing in the code,
and so in the model. The library commits offsets every few seconds and in
`consumer.stop()`, and what it commits is the position, which counts the event that
the loop body is still at: a restart then replays events, or goes on behind one that
was never applied. That one is on record in `skipped` (*history*), and the
properties about agreement exempt it alone. The notification service's insert ignores
the avatar, hence `CaughtUpIsReplay` and `LastEventIsHeld` are stated for the other
consumers. A copy of a deleted account stays for good; when its name is registered
again the copy's unique constraint ends the consumer until the service restarts.

### CommentTree (`CommentTree.tla`, `MCCommentTree.tla`, `CommentTreeProofs.tla`)

| Model | Code |
|---|---|
| `comments`, `nextId` | the table: author, thread, parent, whether `deleted_at` is null; its id sequence |
| `alerts`, `broadcasts` | what `comment-events` asks to tell one user, and everybody |
| `CreateCheck`, `Insert`, `ReplyAlert`, `ThreadAlert`, `Announce`, `Mention` | `create_comment`: the check, the insert, the alert for the parent's author, the lookup of the thread and the alert for its author, the broadcast, one alert for each user who is mentioned |
| `missed`, `late`, `restored` | *history*: who was owed the news of a comment and did not get it, because the event was lost, the lookup failed or the service stopped; comments inserted past a delete; comments that a restore brought back |
| `DeleteLoad`, `Scan`, `Mark`, `Commit`, `DeletedAlert`, `Announce` | `delete_comment`: load and permission, one query per level of replies, the rereads of the found rows with the assignment, one commit, alert, broadcast |
| `EditLoad`, `RestoreLoad` | `update_comment`, `restore_single_comment` |
| `Shown`, `Counted` | `get_thread_comments`, `get_thread_comment_counts` |

Of a comment's text the model keeps whom it mentions. Whoever is mentioned is told of
that whatever else he is told, so a thread's author may get a mention beside the
news of the comment: `ThreadAuthorToldOnce` counts the alerts that tell of the
comment as such. Roles are constants of the instance, and a thread exists when it is
named: the code does not ask. The order in which the rows of one level are marked is
left open. The permission to delete is asked for the target only, and its replies go
with it, staff replies included: `DeletesUnderAuthority` says what the code holds
to, and the run `comments_staff` what `src/README.md:1146` promises and the code
does not. A list of threads that adds and subtracts the broadcasts' counts is wrong
after two deletes that cross (`deleted_count` counts what the search found); no
property is stated of it.

### GatewayCache (`GatewayCache.tla`, `MCGatewayCache.tla`, `GatewayCacheProofs.tla`)

| Model | Code |
|---|---|
| `cache` | `gw:` keys in Redis: what the response shows of each table (a version), whose it is, the time left |
| `table` | the tables of the services behind, as versions |
| `Lookup`, `Query`, `CallFails`, `FetchFails`, `Store` | a GET: `get_cached`, the proxied call with the service's reads one after the other, `set_cached`. A call from one service to another that fails (`comment_counts` of the thread service) is passed over: the answer is 200, shows no replies (`Missing`), and is stored like any other |
| `Forward`, `Sweep`, `Inspect`, `Delete` | a write: the proxied call, then `invalidate_cache`, one SCAN and one DEL per pattern |
| `InvalidationMap`, `ShouldCache`, `PatternsFor` | the tables of `cache.py` and the prefix tests, on paths cut where the prefixes end |
| `Tick`, `Sync`, `Restart` | expiry in Redis; a consumer that changes a copy of an account, which no invalidation follows; the gateway stops and starts |

A key present during the whole SCAN is returned, any other may be (Redis's
guarantee); `Inspect` looks at the keys one at a time. HEAD and OPTIONS touch
neither cache nor tables and are not modelled.

### Community (`Community.tla`, `MCCommunity.tla`, `CommunityProofs.tla`)

| Model | Code |
|---|---|
| `communities`, `members` | the tables; a membership is `[id, role]`, one per community and user (`uq_user_community`) |
| `Resolve` | `_resolve_community`: digits are an id, anything else a slug |
| `CreateStart`, `CheckSlug`, `InsertCommunity` | `create_community`; the search for a free slug is one query per step |
| `UpdateStart`, `Permit`, `CheckName`, `CheckSlug`, `Rename` | `update_community`; SQLAlchemy writes the columns that differ from the row as loaded (`Written`) |
| `DeleteStart`, `FindMembers`, `TellMember`, `RemoveCommunity` | `delete_community`; memberships go with it (`ondelete="CASCADE"`) |
| `JoinCheck`, `JoinInsert`, `LeaveCheck`, `LeaveCommit`, `RoleCheck`, `RoleCommit`, `Announce` | the three handlers of memberships. A DELETE by a primary key that is gone is no error, an UPDATE of one is |

Descriptions are left out, and gaps that a failed insert leaves in an id sequence.
A stop of the service is not an action: it loses requests under way, which is a
behaviour in which they take no further step. `MCCommunity` has a name that
reads as a number, so that an identifier may reach the community with that id.

### Threads (`Threads.tla`, `MCThreads.tla`, `ThreadsProofs.tla`)

| Model | Code |
|---|---|
| `threads`, `likes`, `reports` | the tables; a like has at most one row per thread and user (`uq_like_user_thread`), whose id matters because a DELETE names it |
| `Create`, `EditLoad`, `DeleteLoad`, `Commit`, `TellConcerned` | `create_thread`, `update_thread`, `delete_thread`: the row in the session, the commit of its changed columns only (`Written`), the notice to a community's owner or a thread's author |
| `LikeLoad`, `ToggleCommit`, `Count`, `TellConcerned` | `toggle_like_thread` and the endpoint around it: search, commit, count, broadcast, notice |
| `ReportCheck`, `ReportInsert`, `TellAdmin`, `ReviewLoad`, `ReviewCommit` | `create_report`, `update_report_status` |
| `Announce`, `News`, `After`, `page` | the broadcasts, and what `Home.js` makes of each |
| `doubt`, `crossed`, `since` | *history*: of what a page's last news was lost or out of date; what changed under a request after it read; what a report's check could see |
| `Restart` | stop of the process with all its requests |

A thread's text has three columns: the title, which stands for title and description;
the tags; the status. They differ in what becomes of an edit. `update_thread` leaves
the status out of its broadcast, and the notification service drops tags that were
cleared, so an open page keeps the old ones (`Omitted`) until it is loaded again,
although `src/README.md:650` lists the tags among what `thread_edited` carries.
`MisledForCause` names these beside loss and crossing. Search, tag filter and paging
choose among the rows of the list and are left out. The toggle of comment likes is the
same code over another table. A row is deleted by its `deleted_at`; the model keeps who
set it, because `DeadStayDead` asks whether they might. The admins to tell of a report
are looked up in the step of its commit. `Faults` tells a lost alert from a lost
broadcast, here and in `CommentTree`.

### Delivery (`Inbox.tla`, `Delivery.tla`, `MCDelivery.tla`, `InboxProofs.tla`, `DeliveryProofs.tla`)

`Inbox` is the abstract specification: a reader goes through a log, each notice
becomes a row or is on record as lost, the reader may be set back, a row changes
only by its owner's marking it as read.

| Model | Code |
|---|---|
| `log`, `pos`, `committed` | the events in the order the consumer's iterator hands them out, its position, the group's offset |
| `notices` | table `notifications`; `origin` is *history*: the position of the event it came from, 0 for one that came over HTTP |
| `Start`, `Fetch`, `Save`, `Push` | the loop of `kafka_consumer.py`: one event at a time, insert, commit and refresh, push |
| `Emit`, `MarkRead`, `MarkAllRead` | the handlers of `notification_routes.py` |
| `client`, `Connect`, `Break`, `Disconnect` | the tabs, and `websocket_endpoint` with `ConnectionManager.connect` and `disconnect` |
| `listed`, `stamp` | `active_connections`: the list of each user, and when its entry was made, which orders the dict and tells a user's present list from an earlier one |
| `task`, `Onward`, `Raises`, `SendDone` | `send_to_user` and `broadcast` at an `await ws.send_json`: which list and position the iterators stand on, and when Python raises because the dict changed size |
| `CleanUp`, `CutShort`, `Cleared` | the loops that remove dead sockets, and the `ValueError` of a `remove` that does not find its socket |
| `Restart` | stop at any `await`, and a committed offset anywhere between its last value and the position, which counts the event under way |
| `lost`, `torn`, `owed`, `disturbed` | *history* |

The four topics are one log in the order of consumption; what an event holds,
beyond whom it is for, is left out. The branch that keeps the copy of accounts
is in `UserSync`. Listing and counting notifications only read. The dict is not
compacted: CPython may do so only when it grows, which raises first. A walk
that meets a dict of the same size with other keys needs three sockets; that
branch is in `Raises`, and the run has two.

### Door (`Door.tla`, `MCDoor.tla`, `DoorProofs.tla`)

| Model | Code |
|---|---|
| `now`, `Second` | `time.time()`, in ticks, of which a second has `Second`: some code looks at the clock, some at its whole seconds |
| `window`, `expiry`, `Arrive`, `Count`, `CountBlind` | `check_rate_limit`: the clock is read, then the pipeline of four commands, then the count decides; without Redis everybody passes |
| `until`, `LogoutStart`, `LogoutStore`, `Check` | `logout`, `blacklist_token`, `is_token_blacklisted` |
| `asked`, `shown`, `Extracted`, `Injected`, `ClientId` | a request may have one token in its cookie and another in its header: logout and blacklist take the cookie's first, the service sees the header's first, and the limiter knows only the header's and counts everybody else under the address |
| `issued`, `Serve`, `ServeAnyone` | the `exp` of an access token, `get_current_user` of any service, `login` |
| `up`, `joined`, `Outage`, `Return` | Redis goes away and comes back with what its last snapshot held of each key; whether the gateway ever had a connection, on which its two answers to a failure depend |
| `counted`, `admitted`, `latest`, `out`, `late` | *history* |

Redis takes a pipeline as one command and counts a key as gone when its time is
past. Requests of one key have distinct stamps, as the clock is finer than a tick; two with the
very same stamp would be one member of the sorted set.
The clock is that of one machine and does not go back. Statuses that no property
asks for are all 0. Exempt paths and response headers are left out, and answers
from the cache, which are `GatewayCache`'s; so is a restart of the gateway, which
changes the client ids made with `hash` and so begins every window anew. Only the
gateway asks the blacklist: the websocket endpoint and the services' own ports do not.

## 4. Runs

| Run | Asks | Instance | Shows |
|---|---|---|---|
| `usersync_concurrent` | what a copy may be trusted for | two handlers, three accounts, one consumer, lost sends, restarts of either side (907 k states) | `CopiesWereAuthoritative`: every column of a copy once was that account's column. `CaughtUpIsReplay`: replay after a crash is harmless, but for the accounts that bear a name in a skipped event. `LastEventIsHeld`: of an account it knows, a copy holds what the last event said, unless that one was skipped. `DeletionNoticeIsTrue`: whoever is told of a deletion sees the account gone or its deletion about to commit. `OnlyStatusLiftsBan`: no stale session lifts a ban |
| `usersync_sequential` | whether copies converge | one handler at a time, two consumers that crash, a broker that takes every event (1.1 M) | `QuietCopiesAreFresh`: a consumer that has caught up holds what the table holds. `EventuallyInAgreement`: every announced account reaches every copy, and stays. Both but for the events skipped by a restart |
| `usersync_stale` | "kept fresh by Kafka user_updated events" | two handlers of one account, no fault | `UpdatesKeepCopiesFresh` **violated**: a snapshot read before a ban is sent after the ban's |
| `comments_concurrent` | the tree under concurrent handlers | two handlers, three comments, four requests, a member and a moderator, two threads, mentions, failing lookups, a restart (6.3 M) | `WellFounded`: parents exist, are older, share the thread. `OnlyRacesOrphan`: the search of a delete misses no reply but those of two named races. `ShownIsCounted`: what is counted and not shown hangs from one of them. `DeletesUnderAuthority`: a comment dies by a delete of one above it, by a user who may delete that one. `ThreadAuthorToldOnce`: of each comment once, as parent's or as thread's author, or there is a fault to name |
| `comments_staff` | "`ensure_can_delete()` prevents moderators from deleting admin/moderator content" | one handler, no fault | `StaffContentIsKept` **violated**: a moderator deletes a member's comment, and an admin's reply with it |
| `gateway_concurrent` | how stale a cached page may be | two handlers, two pages that a new comment changes, an account that a consumer changes, every fault (346 k) | `StaleForCause`: unless a fault cut an invalidation short, a stored response is wrong only if its fetch overlapped the change, a call in it failed, or its removal is under way. `StaleEntriesExpire`: a wrong one leaves the cache, however often it is asked for |
| `gateway_personal` | "Auth-dependent endpoints [...] are NEVER cached" | two readers, one handler | `ResponseIsForItsReader` **violated**: `liked_by_me` of one reader is served to another |
| `community_concurrent` | what concurrent handlers leave of rows and rights | two handlers, an owner and an admin, two communities, three names of which two share a slug (1.3 M) | `OwnerModerates`: no order takes the owner's membership. `ModeratorsAreAppointed`: rights come from an appointment to that very membership, not to one its user has left. `DeletionIsTold`: members found by a deletion hear of it before it takes effect. `OnlyRacesSplitName`: only two crossing updates part the slug from the name |
| `threads_concurrent` | what a page, a caller and the staff are told | two handlers, one thread, two reports, five requests, a moderator who owns the community and an admin, lost broadcasts, a restart (5.0 M) | `MisledForCause`: a page that hears the broadcasts is wrong only about what was lost, crossed by another handler's change, or left out of an edit's broadcast. `OnlyOwnRivalsMisinform`: what a toggle answers is so unless the same user toggled meanwhile. `OnlyRacesDuplicateReport`: no sequence of reports and reviews, only an overlap, gives two pending reports. `NobodyIsLeftOut`: whom a thread, like, delete or report concerns hears of it. `DeadStayDead`: no older object in a session undoes a delete |
| `delivery_concurrent` | what a notice and a tab may rely on | two people, two tabs, two events, one emitter, one request, failing commits, a restart (1.2 M) | `RegistryIsTrue`: whatever pushes, clean-ups, connects and disconnects overlap, a live tab is listed and a gone one is not. `GhostsAreTorn`: an entry without tabs is left only by a clean-up that was cut short. `EveryoneHears`: a failing tab costs no other its message. `OncePerRun`, `NothingSkipped`: a notice is stored, at most once per run of the service. `RefinesInbox`: the service implements `Inbox` with its fairness. `NoticesArrive`: every notice is stored or lost to a named fault |
| `door_concurrent` | who gets in | two handlers, a token that lives a second of two ticks and an address, so two keys, each with limit one; two requests at the limiter beside any logouts; a failure of Redis (5.6 M) | `LimitHolds`: no window, wherever it begins, holds more admitted requests than the limit. `RefusedForCause`: no refusal without that many others under the same key. `LogoutHolds`: a logged-out token that was asked about is refused until less than a second before its `exp`, and again from a second after it |
| `door_header` | "On every incoming request, the gateway checks if the token has been blacklisted" | two tokens, no failure | `EveryRequestIsChecked` **violated**: a request with another token in its cookie is served by the logged-out one in its header |

**Bounds.** `MaxUser`, `MaxComment`, `MaxCommunity`, `MaxMember`, `MaxThread`,
`MaxReport`, `MaxLog`, `MaxSockets`, `MaxTime`, `MaxOutages`, `MaxRequests`, `MaxRestarts`
and `MaxVersion` are guards of the actions that raise what they bound. Two handlers
suffice for every race named: each is between one handler's check and use and
one other handler's change. Three requests on accounts let a registration be
followed by two updates that cross, or by a deletion and a registration of the
same name; one restart is enough for a replay. Three comments give a chain as
deep as a race needs, a delete at its top, a reply at its bottom and a restore
between, and make the search go through two levels below its target. A lost alert of the comment
service leaves its thread's author in `missed` as a failed lookup does; lost broadcasts
of it change nothing that a property asks for; and `NobodyIsLeftOut` promises nothing
where alerts of the thread service are lost. So these are switched on in no run, and
the theorems hold for every choice of `Faults`. A table that changes once is enough
for a response to be out of date, two pages under one pattern make a SCAN meet several
keys, and `TTL = 2` lets an entry be served and age in between. Five requests on communities
let somebody be found, leave, join again and be appointed. One thread is enough
because no step of a handler relates two, and two reports are enough for a
duplicate. Two tabs may be of one person or of two, so that a walk goes along a
list or along the dict, and one of them may break under it; two events are a
notice replayed after another. With limit one, one request fills a window and a
second is refused, or comes after the window or the key is gone, or under the other
key; the clock runs to 5, so that a token can be issued, logged out, its blacklist
entry run out, and then its `exp` pass. Handlers are a
symmetry set in the runs without a liveness property. Deadlock is checked except
where the bounds on requests let the system come to rest.

**Fairness.** `FairSpec` of `UserSync` assumes weak fairness of `Proceed(w)`,
because the event loop resumes a handler whose awaited call has returned, and of
`Consume(s)`, because the client library polls as long as the process lives.
`FairSpec` of `GatewayCache` assumes the first and that time passes. `FairSpec` of
`Delivery` assumes weak fairness of `Consume`: Kafka answers in the end, and so
does every send, to which the code sets no timeout; `FairSpec` of `Inbox` assumes
that its reader goes on. New requests,
faults and restarts are never fair: nothing makes a user or a crash act.

**Findings.** Four disagreements with the repository's own words, each with its run:
copies that stay stale, personal answers in the shared cache, staff replies deleted by
a moderator, and a blacklist that looks at one token while the service looks at another.
Three more were met on the way and have no run. A reply inserted while its parent is
deleted stays alive below it, although `src/README.md:1145` promises that the tree's
integrity is kept: it is the race `late` in `OnlyRacesOrphan`. Cleared tags stay on open
pages: `Omitted` in `MisledForCause`. Users who are logged in by cookie behind one
address share a limit, although `rate_limiter.py:7-8` says that a client is a user:
`ClientId`.

## 5. Proofs

| Theorem | Says | By |
|---|---|---|
| `TypeCorrect`, `CopiesAreAuthoritative` (`UserSyncProofs`) | type correctness; every column of a copy was once true, whatever was lost, skipped or taken twice | `HistoryInv`: the table, every object in a session, every event in the topic and every copy consist of past values of their columns. Copies alone are not inductive: what a consumer applies has passed through a session and the topic first |
| `BansStay`, `DeletionNoticesAreTrue` (`UserSyncProofs`) | no request but a status change makes a banned account active; without a restart, an account whose deletion was announced is gone or its delete is about to commit | `Numbered` and `StatusChanges`: ids are not handed out again, and only a status change has `is_active` among the columns it will write. `NoticeInv`: who told of a deletion is still on the way to its commit, or the row is gone, and a row that is gone stays gone |
| `CaughtUpAreReplays`, `LastEventsAreHeld` (`UserSyncProofs`) | a consumer that has caught up holds what one pass over the topic builds, for every interleaving of redeliveries, deaths, loss and early commits, but for the accounts that bear a name in a skipped event; and of an account it knows, it holds what the last event said, unless that very event was skipped | `ReplayInv`: a consumer that went back holds a table that no prefix of the topic builds, but is on its way (`OnTheWay`) to the one it has reached before: the same ids are there, and a row differs only if an event of it is still to come again. Skipping an event spoils this for the accounts of its name only, by the unique constraint, hence `Unnamed(SkippedNames(s))`; `Held` says of the others what survives. It needs that an account never changes its name (`OneName` in `NamesInv`), that a pass leaves each row as of its last event (`LastTaken`) and refuses for good what it refused once (`RefusedByName`) |
| `CommentTypes`, `RepliesAreWellFounded`, `OrphansAreRaces`, `DeletesAreAuthorised` (`CommentTreeProofs`) | type correctness; parents exist, are older and in the same thread; only the two named races orphan a reply; a comment dies only by an authorised delete above it | `TreeInv`: for each delete under way, what it has found lies below its target, and its caller may delete that (`Authorised`); every live reply to a row it has searched has been found or came by a race, and what it has found is dead, marked or still to be marked (`Covering`). The tree alone is not inductive: what a commit kills was decided several steps earlier |
| `ThreadAuthorsToldOnce` (`CommentTreeProofs`) | the author of a thread hears of each comment of somebody else at most once as its parent's or its thread's author, and hears of it unless that alert was lost, the lookup failed or the service stopped, whatever overlaps and whoever is mentioned | `ToldInv`: an alert was sent to whom its type names (`Rightly`), so that the two types exclude each other; a create under way holds its comment as it is in the table (`Knows`); and of every comment its thread's author has heard, or is on record in `missed` (`Settled`), or a handler has yet to tell him (`Waiting`) |
| `ShownAreCounted` (`CommentTreeProofs`) | with any number of handlers, restores and faults, a page shows what is counted but for what hangs from a named race | `TreeInv` again, and `HiddenByRaces`: the smallest counted comment that is not shown and hangs from no race has a parent, which is live by `OnlyRacesOrphan` and so a smaller one |
| `CacheTypes`, `InvalidationMissesNothing` (`GatewayCacheProofs`) | type correctness; without a fault in an invalidation only overlapping fetches and failed calls leave stale entries | `TypeInv`, in which only what a page calls for can be missing (`OnlyCallsMissing`), and, given `Covered`, `StaleForCause` itself, which names the invalidations still under way |
| `CommunityTypes`, `OwnersModerate`, `SplitNamesAreRaces`, `AppointmentsAreExact`, `DeletionsAreTold` (`CommunityProofs`) | type correctness and every property of `community_concurrent` | `CommunityInv`: the owner a request has loaded is still the owner if the community exists (ids are not used again), what it is about to write fits what it has read (`Decided`), and whom a deletion has found it has told or is about to tell (`Telling`) |
| `ThreadTypes`, `PagesAreRight`, `AnswersAreRight`, `DuplicateReportsAreRaces`, `NobodyLeftOut`, `TheDeadStayDead` (`ThreadsProofs`) | type correctness and every property of `threads_concurrent` | `ThreadsInv`: what a handler holds of its thread is so in the table as far as nothing crossed it (`Knowing`), the ids in tables, page and requests are of rows that exist (`Linked`), a thread is created once (`CreatedOnce`), and every notice that the tables call for was sent or is some handler's to send (`Informed`). The page alone is not inductive: what it will be told was read before |
| `InboxKeeps` (`InboxProofs`) | `Inbox` loses nothing but what is on record | `IInv`: types and `Kept` |
| `DeliveryTypes`, `DeliveryIsAnInbox`, `DeliveryKeepsNotices`, `NoticesOncePerRun`, `RegistryStaysTrue`, `OnlyTornLeavesGhosts`, `UndisturbedPushesReachAll` (`DeliveryProofs`) | type correctness; every behaviour of `Delivery` is one of `Inbox`; and, by that and `InboxKeeps`, that no notice is skipped; the other invariants of the run | each action shows a step of `Inbox` or none (`Shows`). `Counted`: rows of a position are no more than the restarts, and one more once the position is handled. `RInv`: what a walk stands on and what it has found dead are pairs of a user and a tab that was his. The registry alone is not inductive: a clean-up removes what a walk noted many sends ago. `EInv`: an undisturbed walk is `OnTrack` - its index is its socket's place in the list it holds, the dict has the size it began with and as many entries ahead as its iterator counts, and each tab that it owes a message and that is there lies ahead of it; lists grow at their end only (`Numbering`) |
| `DoorTypes`, `LimitsHold`, `RefusalsHaveCause`, `LogoutsHold` (`DoorProofs`) | type correctness and every property of `door_concurrent` for every limit, window, clock and number of handlers | `Counting` and `Kept`: an admitted hit is still in the sorted set as long as a prompt request could have it in its window, because the key expires a second after the window of its latest stamp - the `+ 1` of `EXPIRE`, without which the theorem fails. `OInv`: a token that was logged out is blacklisted or within a second of its `exp` (`Dead`), and what a handler has computed or passed fits that (`Fine`). `LogoutsHold` speaks of requests whose checked and shown tokens are the same; `door_header` shows why it must |

`Covered` says that the patterns cleared by a write match every page that shows
the table the write changes. It is a hypothesis of the theorem: it is what the
constant `InvalidationMap` must satisfy for the pages and writes at hand, and
TLC's instance satisfies it. Other assumptions are the named `ASSUME`s on the
constants, which TLC evaluates in every run.

`Replayed` and `Shown` are defined by recursion. What they compute is proved without an
induction theorem: the numbers, or comments, at which a claim fails would have a
smallest one (`Smallest`, from the well-foundedness of `<` on `Nat`), and that one has
a predecessor at which it holds.

Only model-checked: the liveness properties `EventuallyInAgreement`,
`StaleEntriesExpire`, `NoticesArrive` and the liveness part of `RefinesInbox`
(`DeliveryIsAnInbox` is its safety part), because fairness and `ENABLED` are out of
the prover's reach; and `QuietCopiesAreFresh`, which holds for one handler at a time and
a broker that takes every event: two handlers make a copy stale (the run
`usersync_stale`), and an event that is lost is never made up for.

## 6. Not modelled

Planned: see section 2. Until then left out: the fetches of `ThreadDetail.js`; the
reconnects and timers of `AuthContext.js`, whose list of broadcast types also lacks
`comment_restored`; the password reset and its mail. Left out because they are pure
functions or repeat what is modelled: the toggle of comment likes, search and paging
of lists, the route table, the rate-limit headers (`Retry-After` is always 0:
`rate_limiter.py:158` subtracts the window from itself). The cascades below
a deleted account never run outside the user service: nothing deletes a copy. Out of scope: avatars on disk, mail, formatting,
logging, CSS themes and forms, seeding, schema validation. A property over
these would say nothing that a unit test does not.
