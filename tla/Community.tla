---- MODULE Community ----
(***************************************************************************)
(* The community service: communities, their members and their slugs.      *)
(*                                                                         *)
(* A handler resolves the identifier in its path, looks at rows, decides,  *)
(* and commits some awaits later; others do the same meanwhile.  What the  *)
(* database promises is used as such: unique names, slugs and memberships, *)
(* no membership without its community, and a commit that is atomic.       *)
(*                                                                         *)
(* A service that stops loses the requests under way and nothing else: no  *)
(* step is fair, so that is a behaviour in which they take no further one. *)
(***************************************************************************)
EXTENDS Naturals, FiniteSets

CONSTANTS
    Users,
    Admins,        \* accounts with role "admin"
    Moderators,    \* accounts with role "moderator"
    Names,
    SlugOf,        \* generate_slug: name |-> slug
    NumberOf,      \* slugs of digits only |-> the number they spell
    Workers,       \* handler coroutines
    Faults,        \* what may go wrong: "lose", an event
    NoRow,
    MaxCommunity,  \* bound: communities created
    MaxMember,     \* bound: memberships created
    MaxRequests    \* bound: requests started

ASSUME ConstantsOK ==
    /\ Admins \subseteq Users
    /\ Moderators \subseteq Users
    /\ SlugOf \in [Names -> STRING]
    /\ Faults \subseteq {"lose"}
    /\ MaxCommunity \in Nat /\ MaxMember \in Nat /\ MaxRequests \in Nat

VARIABLES
    communities,  \* the table communities
    members,      \* the table community_members, per community and user
    nextId,       \* the sequences of their ids
    nextMember,
    req,          \* per handler coroutine: the request it serves
    alerts,       \* what community-events asks to tell whom
    started,      \* requests started so far
    mixed         \* history: communities renamed by a handler that knew an older row

tables == <<communities, members, nextId, nextMember, mixed>>
vars == <<communities, members, nextId, nextMember, req, alerts, started, mixed>>

Ids == 1..MaxCommunity
\* The slug of a name, or with "-1", "-2", ... appended.
Slugs == {SlugOf[n] : n \in Names} \X Nat
Row == [name : Names, slug : Slugs, owner : Users]
Membership == [id : 1..MaxMember, role : {"member", "moderator"}]
ASSUME NoRowIsNone == NoRow \notin Row /\ NoRow \notin Membership

Idle == [at |-> "idle", op |-> "none", actor |-> NoRow, id |-> 0, row |-> NoRow, name |-> NoRow,
         slug |-> NoRow, user |-> NoRow, role |-> "none", mem |-> NoRow,
         found |-> [u \in Users |-> NoRow], todo |-> {}]
Request == [at : {"idle", "permit", "name", "slug", "check", "members", "tell", "commit", "announce"},
            op : {"none", "create", "update", "delete", "join", "leave", "role"},
            actor : Users \cup {NoRow},
            id : Ids \cup {0},                 \* the community that has been resolved
            row : Row \cup {NoRow},            \* and its row at that time
            name : Names \cup {NoRow},         \* the name asked for
            slug : Slugs \cup {NoRow},         \* the slug to try, or to write
            user : Users \cup {NoRow},         \* whose role is to change
            role : {"none", "member", "moderator"},
            mem : Membership \cup {NoRow},     \* the membership loaded
            found : [Users -> Membership \cup {NoRow}],  \* the memberships loaded
            todo : SUBSET Users]               \* members still to be told
Alert == [type : {"community_deleted", "community_joined", "community_left", "member_role_changed"},
          to : Users, community : Ids]

TypeOK ==
    /\ communities \in [Ids -> Row \cup {NoRow}]
    /\ members \in [Ids -> [Users -> Membership \cup {NoRow}]]
    /\ nextId \in 1..(MaxCommunity + 1)
    /\ nextMember \in 1..(MaxMember + 1)
    /\ req \in [Workers -> Request]
    /\ alerts \subseteq Alert
    /\ started \in 0..MaxRequests
    /\ mixed \subseteq Ids

-----------------------------------------------------------------------------
Exists(c) == communities[c] # NoRow
IsMember(c, u) == members[c][u] # NoRow
\* A row other than that of c has this name, or this slug.
NameTaken(n, c) == \E d \in Ids \ {c} : Exists(d) /\ communities[d].name = n
SlugTaken(s, c) == \E d \in Ids \ {c} : Exists(d) /\ communities[d].slug = s

\* _resolve_community: digits are an id, whatever slug they may be as well.
Numeric(identifier) == identifier[1] \in DOMAIN NumberOf /\ identifier[2] = 0
Resolve(identifier) ==
    {c \in Ids : Exists(c) /\ IF Numeric(identifier) THEN c = NumberOf[identifier[1]]
                             ELSE communities[c].slug = identifier}
\* The identifiers that may stand for a community.
Identifiers == {communities[c].slug : c \in {d \in Ids : Exists(d)}}
               \cup ((DOMAIN NumberOf) \X {0})

MayManage(a, row) == a \in Admins \/ a = row.owner

Goto(w, r, at) == req' = [req EXCEPT ![w] = [r EXCEPT !.at = at]]
Finish(w) == req' = [req EXCEPT ![w] = Idle]
\* A send that the broker does not take is dropped.
Tell(a) ==
    \/ alerts' = alerts \cup {a}
    \/ "lose" \in Faults /\ UNCHANGED alerts

-----------------------------------------------------------------------------
(* The first steps.  A request that its first check refuses is not started. *)

Begin(w, r, at) ==
    /\ req[w].at = "idle"
    /\ started < MaxRequests
    /\ started' = started + 1
    /\ Goto(w, r, at)
    /\ UNCHANGED <<tables, alerts>>

CreateStart(w, a, n) ==
    /\ ~NameTaken(n, 0)
    /\ Begin(w, [Idle EXCEPT !.op = "create", !.actor = a, !.name = n,
                             !.slug = <<SlugOf[n], 0>>], "slug")

\* What handlers of an existing community start from.
Resolved(op, a, c) == [Idle EXCEPT !.op = op, !.actor = a, !.id = c, !.row = communities[c]]

UpdateStart(w, a, c, n) ==
    Begin(w, [Resolved("update", a, c) EXCEPT !.name = n],
          IF a \in Moderators \/ MayManage(a, communities[c]) THEN "name" ELSE "permit")

DeleteStart(w, a, c) ==
    /\ MayManage(a, communities[c])
    /\ Begin(w, Resolved("delete", a, c), "members")

JoinStart(w, a, c) == Begin(w, Resolved("join", a, c), "check")
LeaveStart(w, a, c) == Begin(w, Resolved("leave", a, c), "check")

RoleStart(w, a, c, u, role) ==
    /\ MayManage(a, communities[c])
    /\ Begin(w, [Resolved("role", a, c) EXCEPT !.user = u, !.role = role], "check")

-----------------------------------------------------------------------------
(* create_community and update_community.                                  *)

\* Whoever is neither staff nor the owner has to moderate the community.
Permit(w) ==
    LET r == req[w] IN
    /\ r.at = "permit"
    /\ IF IsMember(r.id, r.actor) /\ members[r.id][r.actor].role = "moderator"
       THEN Goto(w, r, "name")
       ELSE Finish(w)
    /\ UNCHANGED <<tables, alerts, started>>

CheckName(w) ==
    LET r == req[w] IN
    /\ r.at = "name"
    /\ IF NameTaken(r.name, r.id)
       THEN Finish(w)
       ELSE Goto(w, [r EXCEPT !.slug = <<SlugOf[r.name], 0>>], "slug")
    /\ UNCHANGED <<tables, alerts, started>>

\* One query of the loop that looks for a free slug.
CheckSlug(w) ==
    LET r == req[w] IN
    /\ r.at = "slug"
    /\ IF SlugTaken(r.slug, r.id)
       THEN Goto(w, [r EXCEPT !.slug[2] = @ + 1], "slug")
       ELSE Goto(w, r, "commit")
    /\ UNCHANGED <<tables, alerts, started>>

\* The community and its first membership, in one transaction; a name or slug
\* taken meanwhile fails it.
InsertCommunity(w) ==
    LET r == req[w] IN
    /\ r.at = "commit" /\ r.op = "create"
    /\ \/ /\ ~NameTaken(r.name, 0) /\ ~SlugTaken(r.slug, 0)
          /\ nextId <= MaxCommunity /\ nextMember <= MaxMember
          /\ communities' = [communities EXCEPT ![nextId] =
                                [name |-> r.name, slug |-> r.slug, owner |-> r.actor]]
          /\ members' = [members EXCEPT ![nextId][r.actor] = [id |-> nextMember, role |-> "moderator"]]
          /\ nextId' = nextId + 1
          /\ nextMember' = nextMember + 1
          /\ UNCHANGED mixed
       \/ /\ NameTaken(r.name, 0) \/ SlugTaken(r.slug, 0)
          /\ UNCHANGED tables
    /\ Finish(w)
    /\ UNCHANGED <<alerts, started>>

\* Mutant: the slug stays what it was.
WrittenNameOnly(r, row) == [row EXCEPT !.name = r.name]

\* The columns that differ from the row as it was loaded are written.
Written(r, row) ==
    [row EXCEPT !.name = IF r.name # r.row.name THEN r.name ELSE @,
                !.slug = IF r.slug # r.row.slug THEN r.slug ELSE @]

\* It fails when the row is gone, or the name or slug is taken by now.
Rename(w) ==
    LET r == req[w]
        row == communities[r.id]
        new == Written(r, row)
    IN
    /\ r.at = "commit" /\ r.op = "update"
    /\ IF Exists(r.id) /\ ~NameTaken(new.name, r.id) /\ ~SlugTaken(new.slug, r.id)
       THEN /\ communities' = [communities EXCEPT ![r.id] = new]
            /\ mixed' = IF new # row /\ row # r.row THEN mixed \cup {r.id} ELSE mixed
       ELSE UNCHANGED <<communities, mixed>>
    /\ Finish(w)
    /\ UNCHANGED <<members, nextId, nextMember, alerts, started>>

-----------------------------------------------------------------------------
(* delete_community.                                                       *)

\* Mutant: the owner is left out, not the caller.
HearersButOwner(r) == {u \in Users : IsMember(r.id, u)} \ {r.row.owner}
\* Who is told.
Hearers(r) == {u \in Users : IsMember(r.id, u)} \ {r.actor}

FindMembers(w) ==
    LET r == req[w] IN
    /\ r.at = "members"
    /\ Goto(w, [r EXCEPT !.found = members[r.id], !.todo = Hearers(r)],
            IF Hearers(r) = {} THEN "commit" ELSE "tell")
    /\ UNCHANGED <<tables, alerts, started>>

TellMember(w, u) ==
    LET r == req[w] IN
    /\ r.at = "tell"
    /\ u \in r.todo
    /\ Tell([type |-> "community_deleted", to |-> u, community |-> r.id])
    /\ Goto(w, [r EXCEPT !.todo = @ \ {u}], IF r.todo = {u} THEN "commit" ELSE "tell")
    /\ UNCHANGED <<tables, started>>

\* The database deletes the memberships along with the community.  That it is
\* gone already is no error.
RemoveCommunity(w) ==
    LET r == req[w] IN
    /\ r.at = "commit" /\ r.op = "delete"
    /\ communities' = [communities EXCEPT ![r.id] = NoRow]
    /\ members' = [members EXCEPT ![r.id] = [u \in Users |-> NoRow]]
    /\ Finish(w)
    /\ UNCHANGED <<nextId, nextMember, alerts, started, mixed>>

-----------------------------------------------------------------------------
(* join_community, leave_community and change_member_role.                 *)

\* Mutant: the owner is not looked after.
NobodyProtected(r, u) == FALSE
\* The owner cannot leave, and keeps his role.
Protected(r, u) == r.row.owner = u

JoinCheck(w) ==
    LET r == req[w] IN
    /\ r.at = "check" /\ r.op = "join"
    /\ IF IsMember(r.id, r.actor) THEN Finish(w) ELSE Goto(w, r, "commit")
    /\ UNCHANGED <<tables, alerts, started>>

\* It fails when there is a membership by now, or no community any more.
JoinInsert(w) ==
    LET r == req[w] IN
    /\ r.at = "commit" /\ r.op = "join"
    /\ \/ /\ Exists(r.id) /\ ~IsMember(r.id, r.actor)
          /\ nextMember <= MaxMember
          /\ members' = [members EXCEPT ![r.id][r.actor] = [id |-> nextMember, role |-> "member"]]
          /\ nextMember' = nextMember + 1
          /\ IF r.row.owner # r.actor THEN Goto(w, r, "announce") ELSE Finish(w)
       \/ /\ ~Exists(r.id) \/ IsMember(r.id, r.actor)
          /\ Finish(w)
          /\ UNCHANGED <<members, nextMember>>
    /\ UNCHANGED <<communities, nextId, alerts, started, mixed>>

LeaveCheck(w) ==
    LET r == req[w] IN
    /\ r.at = "check" /\ r.op = "leave"
    /\ IF IsMember(r.id, r.actor) /\ ~Protected(r, r.actor)
       THEN Goto(w, [r EXCEPT !.mem = members[r.id][r.actor]], "commit")
       ELSE Finish(w)
    /\ UNCHANGED <<tables, alerts, started>>

\* DELETE by id, which takes nothing when the row is gone, and is no error then.
LeaveCommit(w) ==
    LET r == req[w] IN
    /\ r.at = "commit" /\ r.op = "leave"
    /\ members' = IF IsMember(r.id, r.actor) /\ members[r.id][r.actor].id = r.mem.id
                  THEN [members EXCEPT ![r.id][r.actor] = NoRow]
                  ELSE members
    /\ Goto(w, r, "announce")
    /\ UNCHANGED <<communities, nextId, nextMember, alerts, started, mixed>>

RoleCheck(w) ==
    LET r == req[w] IN
    /\ r.at = "check" /\ r.op = "role"
    /\ IF IsMember(r.id, r.user) /\ ~Protected(r, r.user)
       THEN Goto(w, [r EXCEPT !.mem = members[r.id][r.user]], "commit")
       ELSE Finish(w)
    /\ UNCHANGED <<tables, alerts, started>>

\* Mutant: the update names the community and the user, not the row.
AnyRowOfUser(r) == IsMember(r.id, r.user)
\* The membership that was loaded is still there.
SameRow(r) == IsMember(r.id, r.user) /\ members[r.id][r.user].id = r.mem.id

\* UPDATE by id, which fails when the row is gone; none when the role is the same.
RoleCommit(w) ==
    LET r == req[w] IN
    /\ r.at = "commit" /\ r.op = "role"
    /\ \/ /\ r.role = r.mem.role \/ SameRow(r)
          /\ members' = IF r.role = r.mem.role THEN members
                        ELSE [members EXCEPT ![r.id][r.user].role = r.role]
          /\ IF r.user # r.actor THEN Goto(w, r, "announce") ELSE Finish(w)
       \/ /\ r.role # r.mem.role /\ ~SameRow(r)
          /\ Finish(w)
          /\ UNCHANGED members
    /\ UNCHANGED <<communities, nextId, nextMember, alerts, started, mixed>>

\* Mutant: always tells the user in the path.
AlertToTarget(r) ==
    [type |-> "community_joined", to |-> r.user, community |-> r.id]
\* The owner hears of who joins and leaves, a member of a change of role.
AlertOf(r) ==
    [type |-> CASE r.op = "join" -> "community_joined"
                [] r.op = "leave" -> "community_left"
                [] OTHER -> "member_role_changed",
     to |-> IF r.op = "role" THEN r.user ELSE r.row.owner,
     community |-> r.id]

Announce(w) ==
    /\ req[w].at = "announce"
    /\ Tell(AlertOf(req[w]))
    /\ Finish(w)
    /\ UNCHANGED <<tables, started>>

-----------------------------------------------------------------------------
Init ==
    /\ communities = [c \in Ids |-> NoRow]
    /\ members = [c \in Ids |-> [u \in Users |-> NoRow]]
    /\ nextId = 1
    /\ nextMember = 1
    /\ req = [w \in Workers |-> Idle]
    /\ alerts = {}
    /\ started = 0
    /\ mixed = {}

Start(w) ==
    \E a \in Users :
        \/ \E n \in Names : CreateStart(w, a, n)
        \/ \E i \in Identifiers : \E c \in Resolve(i) :
              \/ \E n \in Names : UpdateStart(w, a, c, n)
              \/ DeleteStart(w, a, c)
              \/ JoinStart(w, a, c)
              \/ LeaveStart(w, a, c)
              \/ \E u \in Users, role \in {"member", "moderator"} : RoleStart(w, a, c, u, role)

\* A request that has begun, one step further.
Proceed(w) ==
    \/ Permit(w) \/ CheckName(w) \/ CheckSlug(w)
    \/ InsertCommunity(w) \/ Rename(w)
    \/ FindMembers(w) \/ (\E u \in Users : TellMember(w, u)) \/ RemoveCommunity(w)
    \/ JoinCheck(w) \/ JoinInsert(w)
    \/ LeaveCheck(w) \/ LeaveCommit(w)
    \/ RoleCheck(w) \/ RoleCommit(w)
    \/ Announce(w)

Next == \E w \in Workers : Start(w) \/ Proceed(w)

Spec == Init /\ [][Next]_vars

-----------------------------------------------------------------------------
\* Its owner moderates a community for as long as it exists: no order of joins,
\* leaves, changes of role and deletions takes that away, although each of the
\* handlers decides on rows it has read several awaits before it writes.
OwnerModerates ==
    \A c \in Ids : Exists(c) =>
        LET owner == communities[c].owner IN
        IsMember(c, owner) /\ members[c][owner].role = "moderator"

\* Nobody becomes a moderator but by creating the community or by an appointment,
\* which its owner or an admin made for the very membership it takes effect on:
\* whoever leaves and joins again comes back without the rights, also when the
\* appointment was under way meanwhile.
ModeratorsAreAppointed ==
    [][\A c \in Ids, u \in Users :
          LET now == members'[c][u] IN
          now # NoRow /\ now.role = "moderator" /\ now # members[c][u]
              => \/ ~Exists(c) /\ communities'[c].owner = u
                 \/ \E w \in Workers :
                       LET r == req[w] IN
                       /\ r.op = "role" /\ r.at = "commit"
                       /\ r.id = c /\ r.user = u /\ r.mem.id = now.id
                       /\ MayManage(r.actor, communities[c])]_vars

\* Whoever loses a membership with its community has been told, except who did it
\* and who joined after the handler had looked.
DeletionIsTold ==
    [][\A c \in Ids : Exists(c) /\ communities'[c] = NoRow /\ "lose" \notin Faults =>
          \E w \in Workers :
              LET r == req[w] IN
              /\ r.op = "delete" /\ r.id = c
              /\ \A u \in Users \ {r.actor} :
                    IsMember(c, u) /\ r.found[u] # NoRow
                    => [type |-> "community_deleted", to |-> u, community |-> c] \in alerts]_vars

\* "Regenerate slug from new name" (update_community): the slug is that of the
\* name, with a number or without, unless two updates have crossed.
OnlyRacesSplitName ==
    \A c \in Ids : Exists(c) /\ c \notin mixed
        => communities[c].slug[1] = SlugOf[communities[c].name]

====
