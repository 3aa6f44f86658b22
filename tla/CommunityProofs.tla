---- MODULE CommunityProofs ----
(***************************************************************************)
(* What Community promises for any number of users, names and handlers.    *)
(***************************************************************************)
EXTENDS Community, TLAPS

-----------------------------------------------------------------------------
(* The invariant.  The tables alone are not inductive: what a commit does   *)
(* was decided on rows read several steps before, so the invariant says of  *)
(* each request what still holds of what it has read.  Operators that speak *)
(* of requests take the tables as parameters, to be used before and after a *)
(* step alike.                                                              *)

\* The fields that a request of this kind has are set.
Shaped(r) ==
    r.at # "idle" =>
        /\ r.actor \in Users
        /\ r.op \in {"create", "update"} => r.name \in Names
        /\ r.op # "create" => r.id \in Ids /\ r.row \in Row
        /\ r.op = "role" => r.user \in Users /\ r.role \in {"member", "moderator"}
        /\ r.at \in {"permit", "name"} => r.op = "update"
        /\ r.at = "slug" => r.op \in {"create", "update"}
        /\ r.at \in {"members", "tell"} => r.op = "delete"
        /\ r.at \in {"check", "announce"} => r.op \in {"join", "leave", "role"}
        /\ r.op # "none"

\* The community it is about was there, and belongs to whom it belonged to.
SameOwner(r, cs, n) ==
    r.at # "idle" /\ r.op # "create" =>
        /\ r.id < n
        /\ cs[r.id] # NoRow => cs[r.id].owner = r.row.owner

\* What it is going to write.
Decided(r, mx) ==
    /\ r.at \in {"slug", "commit"} /\ r.op \in {"create", "update"} =>
           r.slug \in Slugs /\ r.slug[1] = SlugOf[r.name]
    /\ r.at # "idle" /\ r.op = "update" =>
           r.row.slug[1] = SlugOf[r.row.name] \/ r.id \in mx
    /\ r.at = "commit" /\ r.op = "leave" => r.mem \in Membership /\ r.actor # r.row.owner
    /\ r.at = "commit" /\ r.op = "role" => r.mem \in Membership /\ r.user # r.row.owner
    /\ r.at # "idle" /\ r.op = "role" => MayManage(r.actor, r.row)

\* Whom it has told.
Telling(r, al) ==
    r.op = "delete" /\ r.at \in {"tell", "commit"} /\ "lose" \notin Faults =>
        \A u \in Users \ {r.actor} : r.found[u] # NoRow =>
            \/ r.at = "tell" /\ u \in r.todo
            \/ [type |-> "community_deleted", to |-> u, community |-> r.id] \in al

Sound(r, cs, n, mx, al) ==
    Shaped(r) /\ SameOwner(r, cs, n) /\ Decided(r, mx) /\ Telling(r, al)

\* Ids are handed out in order, and no membership is without its community.
Linked ==
    \A c \in Ids :
        /\ Exists(c) => c < nextId
        /\ \A u \in Users : IsMember(c, u) => Exists(c)

CommunityInv ==
    /\ TypeOK
    /\ Linked
    /\ OwnerModerates
    /\ OnlyRacesSplitName
    /\ \A w \in Workers : Sound(req[w], communities, nextId, mixed, alerts)

\* What no step does to what a request has read.
Steady ==
    /\ nextId' >= nextId
    /\ mixed \subseteq mixed'
    /\ alerts \subseteq alerts'
    /\ \A c \in Ids : c < nextId /\ communities'[c] # NoRow =>
           communities[c] # NoRow /\ communities'[c].owner = communities[c].owner

TablesOK ==
    /\ communities \in [Ids -> Row \cup {NoRow}]
    /\ members \in [Ids -> [Users -> Membership \cup {NoRow}]]
    /\ nextId \in 1..(MaxCommunity + 1)
    /\ nextMember \in 1..(MaxMember + 1)
    /\ alerts \subseteq Alert
    /\ started \in 0..MaxRequests
    /\ mixed \subseteq Ids
    /\ Linked
    /\ OwnerModerates
    /\ OnlyRacesSplitName

-----------------------------------------------------------------------------
LEMMA IdleIsARequest == Idle \in Request
BY DEF Idle, Request

LEMMA IdleIsSound ==
    ASSUME NEW cs, NEW n, NEW mx, NEW al
    PROVE  Sound(Idle, cs, n, mx, al)
BY DEF Sound, Shaped, SameOwner, Decided, Telling, Idle

LEMMA RequestsStaySound ==
    ASSUME TypeOK, Steady, NEW r \in Request, Sound(r, communities, nextId, mixed, alerts),
           nextId' \in Nat
    PROVE  Sound(r, communities', nextId', mixed', alerts')
<1>1. SameOwner(r, communities', nextId')
    BY DEF TypeOK, Steady, Sound, SameOwner, Shaped, Ids
<1>2. Decided(r, mixed')
    BY DEF Steady, Sound, Decided
<1>3. Telling(r, alerts')
    BY DEF Steady, Sound, Telling
<1> QED BY <1>1, <1>2, <1>3 DEF Sound

\* A step of one handler: it is enough to look at the tables and at its request.
LEMMA OneHandler ==
    ASSUME CommunityInv, NEW w \in Workers, NEW r \in Request,
           req' = [req EXCEPT ![w] = r],
           TablesOK', Steady,
           Sound(r, communities', nextId', mixed', alerts')
    PROVE  CommunityInv'
<1>1. req \in [Workers -> Request]
    BY DEF CommunityInv, TypeOK
<1>2. TypeOK'
    BY <1>1 DEF TablesOK, TypeOK
<1>3. ASSUME NEW v \in Workers PROVE Sound(req'[v], communities', nextId', mixed', alerts')
    <2>1. CASE v = w
        BY <1>1, <2>1
    <2>2. CASE v # w
        <3>1. req'[v] = req[v] /\ req[v] \in Request
            BY <1>1, <2>2
        <3>2. Sound(req[v], communities, nextId, mixed, alerts)
            BY DEF CommunityInv
        <3>3. nextId' \in Nat
            BY DEF TablesOK
        <3> QED BY <3>1, <3>2, <3>3, RequestsStaySound DEF CommunityInv
    <2> QED BY <2>1, <2>2
<1> QED BY <1>2, <1>3 DEF CommunityInv, TablesOK

\* A step that leaves the tables alone.
LEMMA TablesUntouched ==
    ASSUME CommunityInv, UNCHANGED tables, alerts \subseteq alerts', alerts' \subseteq Alert,
           started' \in 0..MaxRequests
    PROVE  TablesOK' /\ Steady
<1>1. Steady
    BY DEF CommunityInv, TypeOK, Steady, tables
<1>2. TablesOK'
    BY DEF CommunityInv, TypeOK, TablesOK, tables, Linked, OwnerModerates, OnlyRacesSplitName,
           Exists, IsMember
<1> QED BY <1>1, <1>2

LEMMA JustARequest ==
    ASSUME CommunityInv, NEW w \in Workers, NEW r \in Request,
           req' = [req EXCEPT ![w] = r], UNCHANGED <<tables, alerts>>,
           started' \in 0..MaxRequests,
           Sound(r, communities, nextId, mixed, alerts)
    PROVE  CommunityInv'
<1>1. UNCHANGED tables /\ alerts \subseteq alerts' /\ alerts' \subseteq Alert
    BY DEF CommunityInv, TypeOK
<1>2. TablesOK' /\ Steady
    BY <1>1, TablesUntouched
<1>3. Sound(r, communities', nextId', mixed', alerts')
    BY DEF tables
<1> QED BY <1>2, <1>3, OneHandler

LEMMA Finishing ==
    ASSUME CommunityInv, NEW w \in Workers, Finish(w), TablesOK', Steady
    PROVE  CommunityInv'
BY IdleIsARequest, IdleIsSound, OneHandler DEF Finish

LEMMA FinishingOnly ==
    ASSUME CommunityInv, NEW w \in Workers, Finish(w), UNCHANGED <<tables, alerts>>,
           started' \in 0..MaxRequests
    PROVE  CommunityInv'
BY IdleIsARequest, IdleIsSound, JustARequest DEF Finish

-----------------------------------------------------------------------------
(* The first steps.                                                        *)

\* What the handlers of an existing community start from is sound.
LEMMA Beginning ==
    ASSUME CommunityInv, NEW w \in Workers, NEW r \in Request, NEW at, Begin(w, r, at),
           [r EXCEPT !.at = at] \in Request,
           Sound([r EXCEPT !.at = at], communities, nextId, mixed, alerts)
    PROVE  CommunityInv'
<1>1. started' \in 0..MaxRequests
    BY ConstantsOK DEF Begin, CommunityInv, TypeOK
<1>2. req' = [req EXCEPT ![w] = [r EXCEPT !.at = at]] /\ UNCHANGED <<tables, alerts>>
    BY DEF Begin, Goto
<1> QED BY <1>1, <1>2, JustARequest

LEMMA CreateStartKeeps ==
    ASSUME CommunityInv, NEW w \in Workers, NEW a \in Users, NEW n \in Names,
           CreateStart(w, a, n)
    PROVE  CommunityInv'
<1> DEFINE r == [Idle EXCEPT !.op = "create", !.actor = a, !.name = n,
                             !.slug = <<SlugOf[n], 0>>]
<1>1. r \in Request /\ [r EXCEPT !.at = "slug"] \in Request
    BY IdleIsARequest DEF Idle, Request, Slugs
<1>2. Sound([r EXCEPT !.at = "slug"], communities, nextId, mixed, alerts)
    BY DEF Sound, Shaped, SameOwner, Decided, Telling, Idle, Slugs
<1>3. Begin(w, r, "slug")
    BY DEF CreateStart
<1> QED BY <1>1, <1>2, <1>3, Beginning

LEMMA UpdateStartKeeps ==
    ASSUME CommunityInv, NEW w \in Workers, NEW a \in Users, NEW c \in Ids, Exists(c),
           NEW n \in Names, UpdateStart(w, a, c, n)
    PROVE  CommunityInv'
<1> DEFINE r == [Resolved("update", a, c) EXCEPT !.name = n]
<1>1. PICK at \in {"name", "permit"} : Begin(w, r, at)
    BY DEF UpdateStart
<1>2. communities[c] \in Row
    BY DEF CommunityInv, TypeOK, Exists
<1>3. r \in Request /\ [r EXCEPT !.at = at] \in Request
    BY <1>2 DEF Resolved, Idle, Request
<1>4. communities[c].slug[1] = SlugOf[communities[c].name] \/ c \in mixed
    BY DEF CommunityInv, OnlyRacesSplitName
<1>5. c < nextId
    BY DEF CommunityInv, Linked
<1>6. Sound([r EXCEPT !.at = at], communities, nextId, mixed, alerts)
    BY <1>2, <1>4, <1>5 DEF Sound, Shaped, SameOwner, Decided, Telling, Resolved, Idle
<1> QED BY <1>1, <1>3, <1>6, Beginning

LEMMA DeleteStartKeeps ==
    ASSUME CommunityInv, NEW w \in Workers, NEW a \in Users, NEW c \in Ids, Exists(c),
           DeleteStart(w, a, c)
    PROVE  CommunityInv'
<1> DEFINE r == Resolved("delete", a, c)
<1>1. Begin(w, r, "members")
    BY DEF DeleteStart
<1>2. communities[c] \in Row /\ c < nextId
    BY DEF CommunityInv, TypeOK, Exists, Linked
<1>3. r \in Request /\ [r EXCEPT !.at = "members"] \in Request
    BY <1>2 DEF Resolved, Idle, Request
<1>4. Sound([r EXCEPT !.at = "members"], communities, nextId, mixed, alerts)
    BY <1>2 DEF Sound, Shaped, SameOwner, Decided, Telling, Resolved, Idle
<1> QED BY <1>1, <1>3, <1>4, Beginning

LEMMA JoinOrLeaveStartKeeps ==
    ASSUME CommunityInv, NEW w \in Workers, NEW a \in Users, NEW c \in Ids, Exists(c),
           JoinStart(w, a, c) \/ LeaveStart(w, a, c)
    PROVE  CommunityInv'
<1>1. PICK op \in {"join", "leave"} : Begin(w, Resolved(op, a, c), "check")
    BY DEF JoinStart, LeaveStart
<1> DEFINE r == Resolved(op, a, c)
<1>2. communities[c] \in Row /\ c < nextId
    BY DEF CommunityInv, TypeOK, Exists, Linked
<1>3. r \in Request /\ [r EXCEPT !.at = "check"] \in Request
    BY <1>2 DEF Resolved, Idle, Request
<1>4. Sound([r EXCEPT !.at = "check"], communities, nextId, mixed, alerts)
    BY <1>2 DEF Sound, Shaped, SameOwner, Decided, Telling, Resolved, Idle
<1> QED BY <1>1, <1>3, <1>4, Beginning

LEMMA RoleStartKeeps ==
    ASSUME CommunityInv, NEW w \in Workers, NEW a \in Users, NEW c \in Ids, Exists(c),
           NEW u \in Users, NEW role \in {"member", "moderator"}, RoleStart(w, a, c, u, role)
    PROVE  CommunityInv'
<1> DEFINE r == [Resolved("role", a, c) EXCEPT !.user = u, !.role = role]
<1>1. Begin(w, r, "check") /\ MayManage(a, communities[c])
    BY DEF RoleStart
<1>2. communities[c] \in Row /\ c < nextId
    BY DEF CommunityInv, TypeOK, Exists, Linked
<1>3. r \in Request /\ [r EXCEPT !.at = "check"] \in Request
    BY <1>2 DEF Resolved, Idle, Request
<1>4. Sound([r EXCEPT !.at = "check"], communities, nextId, mixed, alerts)
    BY <1>1, <1>2 DEF Sound, Shaped, SameOwner, Decided, Telling, Resolved, Idle
<1> QED BY <1>1, <1>3, <1>4, Beginning

LEMMA StartKeeps ==
    ASSUME CommunityInv, NEW w \in Workers, Start(w)
    PROVE  CommunityInv'
<1>1. PICK a \in Users :
        \/ \E n \in Names : CreateStart(w, a, n)
        \/ \E i \in Identifiers : \E c \in Resolve(i) :
              \/ \E n \in Names : UpdateStart(w, a, c, n)
              \/ DeleteStart(w, a, c)
              \/ JoinStart(w, a, c)
              \/ LeaveStart(w, a, c)
              \/ \E u \in Users, role \in {"member", "moderator"} : RoleStart(w, a, c, u, role)
    BY DEF Start
<1>2. \A i : \A c \in Resolve(i) : c \in Ids /\ Exists(c)
    BY DEF Resolve
<1> QED BY <1>1, <1>2, CreateStartKeeps, UpdateStartKeeps, DeleteStartKeeps,
           JoinOrLeaveStartKeeps, RoleStartKeeps

-----------------------------------------------------------------------------
(* Steps that only read.                                                   *)

LEMMA RequestFacts ==
    ASSUME CommunityInv, NEW w \in Workers
    PROVE  /\ req[w] \in Request
           /\ Sound(req[w], communities, nextId, mixed, alerts)
           /\ started \in 0..MaxRequests
BY DEF CommunityInv, TypeOK

LEMMA PermitKeeps ==
    ASSUME CommunityInv, NEW w \in Workers, Permit(w)
    PROVE  CommunityInv'
<1> DEFINE r == req[w]
           s == [r EXCEPT !.at = "name"]
<1>1. r \in Request /\ Sound(r, communities, nextId, mixed, alerts) /\ started' \in 0..MaxRequests
    BY RequestFacts DEF Permit
<1>2. s \in Request
    BY <1>1 DEF Request
<1>3. Sound(s, communities, nextId, mixed, alerts)
    BY <1>1 DEF Permit, Sound, Shaped, SameOwner, Decided, Telling, Request
<1>4. UNCHANGED <<tables, alerts>>
    BY DEF Permit
<1>5. CASE Finish(w)
    BY <1>1, <1>4, <1>5, FinishingOnly
<1>6. CASE Goto(w, r, "name")
    <2>1. req' = [req EXCEPT ![w] = s]
        BY <1>6 DEF Goto
    <2> QED BY <1>1, <1>2, <1>3, <1>4, <2>1, JustARequest
<1> QED BY <1>5, <1>6 DEF Permit

LEMMA CheckNameKeeps ==
    ASSUME CommunityInv, NEW w \in Workers, CheckName(w)
    PROVE  CommunityInv'
<1> DEFINE r == req[w]
           s == [r EXCEPT !.slug = <<SlugOf[r.name], 0>>, !.at = "slug"]
<1>1. r \in Request /\ Sound(r, communities, nextId, mixed, alerts) /\ started' \in 0..MaxRequests
    BY RequestFacts DEF CheckName
<1>2. r.at = "name" /\ r.op = "update" /\ r.name \in Names
    BY <1>1 DEF CheckName, Sound, Shaped
<1>3. <<SlugOf[r.name], 0>> \in Slugs
    BY <1>2 DEF Slugs
<1>4. s \in Request
    BY <1>1, <1>3 DEF Request
<1>5. Sound(s, communities, nextId, mixed, alerts)
    BY <1>1, <1>2, <1>3 DEF Sound, Shaped, SameOwner, Decided, Telling, Request
<1>6. UNCHANGED <<tables, alerts>>
    BY DEF CheckName
<1>7. CASE Finish(w)
    BY <1>1, <1>6, <1>7, FinishingOnly
<1>8. CASE Goto(w, [r EXCEPT !.slug = <<SlugOf[r.name], 0>>], "slug")
    <2>1. req' = [req EXCEPT ![w] = s]
        BY <1>8 DEF Goto
    <2> QED BY <1>1, <1>4, <1>5, <1>6, <2>1, JustARequest
<1> QED BY <1>7, <1>8 DEF CheckName

LEMMA CheckSlugKeeps ==
    ASSUME CommunityInv, NEW w \in Workers, CheckSlug(w)
    PROVE  CommunityInv'
<1> DEFINE r == req[w]
           s == [r EXCEPT !.slug[2] = @ + 1, !.at = "slug"]
           t == [r EXCEPT !.at = "commit"]
<1>1. r \in Request /\ Sound(r, communities, nextId, mixed, alerts) /\ started' \in 0..MaxRequests
    BY RequestFacts DEF CheckSlug
<1>2. r.at = "slug" /\ r.op \in {"create", "update"} /\ r.slug \in Slugs
    BY <1>1 DEF CheckSlug, Sound, Shaped, Decided
<1>3. [r.slug EXCEPT ![2] = @ + 1] \in Slugs /\ [r.slug EXCEPT ![2] = @ + 1][1] = r.slug[1]
    BY <1>2 DEF Slugs
<1>4. s \in Request /\ t \in Request
    BY <1>1, <1>3 DEF Request
<1>5. Sound(s, communities, nextId, mixed, alerts) /\ Sound(t, communities, nextId, mixed, alerts)
    BY <1>1, <1>2, <1>3 DEF Sound, Shaped, SameOwner, Decided, Telling, Request
<1>6. UNCHANGED <<tables, alerts>>
    BY DEF CheckSlug
<1>7. req' = [req EXCEPT ![w] = s] \/ req' = [req EXCEPT ![w] = t]
    BY DEF CheckSlug, Goto
<1> QED BY <1>1, <1>4, <1>5, <1>6, <1>7, JustARequest

LEMMA FindMembersKeeps ==
    ASSUME CommunityInv, NEW w \in Workers, FindMembers(w)
    PROVE  CommunityInv'
<1> DEFINE r == req[w]
           S(at) == [r EXCEPT !.found = members[r.id], !.todo = Hearers(r), !.at = at]
<1>1. r \in Request /\ Sound(r, communities, nextId, mixed, alerts) /\ started' \in 0..MaxRequests
    BY RequestFacts DEF FindMembers
<1>2. r.at = "members" /\ r.op = "delete" /\ r.id \in Ids
    BY <1>1 DEF FindMembers, Sound, Shaped
<1>3. members[r.id] \in [Users -> Membership \cup {NoRow}] /\ Hearers(r) \subseteq Users
    BY <1>2 DEF CommunityInv, TypeOK, Hearers
<1>4. PICK at \in {"commit", "tell"} : /\ req' = [req EXCEPT ![w] = S(at)]
                                       /\ at = "commit" => Hearers(r) = {}
    BY DEF FindMembers, Goto
<1>5. S(at) \in Request
    BY <1>1, <1>3 DEF Request
<1>6. Shaped(S(at)) /\ SameOwner(S(at), communities, nextId) /\ Decided(S(at), mixed)
    BY <1>1, <1>2 DEF Sound, Shaped, SameOwner, Decided, Request
<1>7. Telling(S(at), alerts)
    <2>1. \A u \in Users \ {r.actor} : members[r.id][u] # NoRow => u \in Hearers(r)
        BY DEF Hearers, IsMember
    <2>2. /\ S(at).found = members[r.id] /\ S(at).todo = Hearers(r) /\ S(at).at = at
          /\ S(at).actor = r.actor
        BY <1>1 DEF Request
    <2> QED BY <1>4, <2>1, <2>2 DEF Telling
<1>8. UNCHANGED <<tables, alerts>>
    BY DEF FindMembers
<1> QED BY <1>1, <1>4, <1>5, <1>6, <1>7, <1>8, JustARequest DEF Sound

LEMMA JoinCheckKeeps ==
    ASSUME CommunityInv, NEW w \in Workers, JoinCheck(w)
    PROVE  CommunityInv'
<1> DEFINE r == req[w]
           s == [r EXCEPT !.at = "commit"]
<1>1. r \in Request /\ Sound(r, communities, nextId, mixed, alerts) /\ started' \in 0..MaxRequests
    BY RequestFacts DEF JoinCheck
<1>2. s \in Request
    BY <1>1 DEF Request
<1>3. Sound(s, communities, nextId, mixed, alerts)
    BY <1>1 DEF JoinCheck, Sound, Shaped, SameOwner, Decided, Telling, Request
<1>4. UNCHANGED <<tables, alerts>>
    BY DEF JoinCheck
<1>5. CASE Finish(w)
    BY <1>1, <1>4, <1>5, FinishingOnly
<1>6. CASE Goto(w, r, "commit")
    <2>1. req' = [req EXCEPT ![w] = s]
        BY <1>6 DEF Goto
    <2> QED BY <1>1, <1>2, <1>3, <1>4, <2>1, JustARequest
<1> QED BY <1>5, <1>6 DEF JoinCheck

\* leave_community and change_member_role load a membership that is not the owner's.
LEMMA LoadKeeps ==
    ASSUME CommunityInv, NEW w \in Workers, LeaveCheck(w) \/ RoleCheck(w)
    PROVE  CommunityInv'
<1> DEFINE r == req[w]
           u == IF r.op = "leave" THEN r.actor ELSE r.user
           s == [r EXCEPT !.mem = members[r.id][u], !.at = "commit"]
<1>1. r \in Request /\ Sound(r, communities, nextId, mixed, alerts) /\ started' \in 0..MaxRequests
    BY RequestFacts DEF LeaveCheck, RoleCheck
<1>2. r.at = "check" /\ r.op \in {"leave", "role"} /\ r.id \in Ids /\ u \in Users
    BY <1>1 DEF LeaveCheck, RoleCheck, Sound, Shaped
<1>3. UNCHANGED <<tables, alerts>>
    BY DEF LeaveCheck, RoleCheck
<1>4. CASE Finish(w)
    BY <1>1, <1>3, <1>4, FinishingOnly
<1>5. CASE ~Finish(w)
    <2>1. IsMember(r.id, u) /\ r.row.owner # u /\ req' = [req EXCEPT ![w] = s]
        BY <1>5 DEF LeaveCheck, RoleCheck, Protected, Goto
    <2>2. members[r.id][u] \in Membership
        BY <1>2, <2>1 DEF CommunityInv, TypeOK, IsMember
    <2>3. s \in Request
        <3>1. \A m \in Membership : [r EXCEPT !.mem = m, !.at = "commit"] \in Request
            BY <1>1 DEF Request
        <3> QED BY <2>2, <3>1
    <2>4. Sound(s, communities, nextId, mixed, alerts)
        BY <1>1, <1>2, <2>1, <2>2 DEF Sound, Shaped, SameOwner, Decided, Telling, Request, MayManage
    <2> QED BY <1>1, <1>3, <2>1, <2>3, <2>4, JustARequest
<1> QED BY <1>4, <1>5

-----------------------------------------------------------------------------
(* Steps that write.                                                       *)

\* The tables are typed, linked, moderated and named as before wherever they are
\* unchanged; of a community that has changed the step has to say so itself.
LEMMA InsertCommunityKeeps ==
    ASSUME CommunityInv, NEW w \in Workers, InsertCommunity(w)
    PROVE  CommunityInv'
<1> DEFINE r == req[w]
           row == [name |-> r.name, slug |-> r.slug, owner |-> r.actor]
           mem == [id |-> nextMember, role |-> "moderator"]
<1>1. r \in Request /\ Sound(r, communities, nextId, mixed, alerts) /\ started' \in 0..MaxRequests
    BY RequestFacts DEF InsertCommunity
<1>2. /\ r.actor \in Users /\ r.name \in Names /\ r.slug \in Slugs
      /\ r.slug[1] = SlugOf[r.name]
    BY <1>1 DEF InsertCommunity, Sound, Shaped, Decided
<1>3. Finish(w) /\ alerts' = alerts
    BY DEF InsertCommunity
<1>4. CASE UNCHANGED tables
    BY <1>1, <1>3, <1>4, FinishingOnly
<1>5. CASE ~(UNCHANGED tables)
    <2>1. /\ nextId <= MaxCommunity /\ nextMember <= MaxMember
          /\ communities' = [communities EXCEPT ![nextId] = row]
          /\ members' = [members EXCEPT ![nextId][r.actor] = mem]
          /\ nextId' = nextId + 1 /\ nextMember' = nextMember + 1
          /\ mixed' = mixed /\ started' = started
        BY <1>5 DEF InsertCommunity
    <2>2. /\ nextId \in Ids /\ nextId \in Nat /\ row \in Row /\ mem \in Membership
          /\ nextId' \in 1..(MaxCommunity + 1) /\ nextMember' \in 1..(MaxMember + 1)
        BY <1>2, <2>1, ConstantsOK DEF CommunityInv, TypeOK, Ids, Row, Membership
    <2>3. /\ communities \in [Ids -> Row \cup {NoRow}]
          /\ members \in [Ids -> [Users -> Membership \cup {NoRow}]]
        BY DEF CommunityInv, TypeOK
    <2>4. ~Exists(nextId) /\ \A u \in Users : ~IsMember(nextId, u)
        BY <2>2 DEF CommunityInv, Linked
    <2>5. /\ communities'[nextId] = row
          /\ \A c \in Ids \ {nextId} : communities'[c] = communities[c]
        BY <2>1, <2>2, <2>3
    <2>6. /\ members'[nextId][r.actor] = mem
          /\ \A u \in Users \ {r.actor} : members'[nextId][u] = members[nextId][u]
          /\ \A c \in Ids \ {nextId} : members'[c] = members[c]
        BY <1>2, <2>1, <2>2, <2>3
    <2>7. /\ communities' \in [Ids -> Row \cup {NoRow}]
          /\ members' \in [Ids -> [Users -> Membership \cup {NoRow}]]
        BY <2>1, <2>2, <2>3
    <2>8. row # NoRow /\ mem # NoRow
        BY <2>2, NoRowIsNone
    <2>9. Linked'
        BY <2>1, <2>2, <2>5, <2>6, <2>4, <2>8 DEF CommunityInv, Linked, Exists, IsMember, Ids
    <2>10. OwnerModerates'
        BY <1>2, <2>2, <2>5, <2>6, <2>8 DEF CommunityInv, OwnerModerates, Exists, IsMember
    <2>11. OnlyRacesSplitName'
        BY <1>2, <2>1, <2>5 DEF CommunityInv, OnlyRacesSplitName, Exists
    <2>12. TablesOK'
        BY <1>1, <1>3, <2>1, <2>2, <2>7, <2>9, <2>10, <2>11 DEF CommunityInv, TypeOK, TablesOK
    <2>13. Steady
        BY <1>3, <2>1, <2>2, <2>5 DEF Steady
    <2> QED BY <1>3, <2>12, <2>13, Finishing
<1> QED BY <1>4, <1>5

\* If the row is the one that was loaded, all of it is written or was as wanted.
LEMMA RenameKeeps ==
    ASSUME CommunityInv, NEW w \in Workers, Rename(w)
    PROVE  CommunityInv'
<1> DEFINE r == req[w]
           row == communities[r.id]
           new == Written(r, row)
<1>1. r \in Request /\ Sound(r, communities, nextId, mixed, alerts) /\ started' \in 0..MaxRequests
    BY RequestFacts DEF Rename
<1>2. /\ r.id \in Ids /\ r.name \in Names /\ r.slug \in Slugs
      /\ r.slug[1] = SlugOf[r.name]
      /\ r.row.slug[1] = SlugOf[r.row.name] \/ r.id \in mixed
    BY <1>1 DEF Rename, Sound, Shaped, Decided
<1>3. Finish(w) /\ UNCHANGED <<members, nextId, nextMember, alerts, started>>
    BY DEF Rename
<1>4. CASE UNCHANGED <<communities, mixed>>
    <2>1. UNCHANGED <<tables, alerts>>
        BY <1>3, <1>4 DEF tables
    <2> QED BY <1>1, <1>3, <2>1, FinishingOnly
<1>5. CASE ~(UNCHANGED <<communities, mixed>>)
    <2>1. /\ Exists(r.id)
          /\ communities' = [communities EXCEPT ![r.id] = new]
          /\ mixed' = IF new # row /\ row # r.row THEN mixed \cup {r.id} ELSE mixed
        BY <1>5 DEF Rename
    <2>2. row \in Row
        BY <1>2, <2>1 DEF CommunityInv, TypeOK, Exists
    <2>3. new \in Row /\ new.owner = row.owner
        BY <1>2, <2>2 DEF Written, Row
    <2>4. communities \in [Ids -> Row \cup {NoRow}]
        BY DEF CommunityInv, TypeOK
    <2>5. /\ communities'[r.id] = new
          /\ \A c \in Ids \ {r.id} : communities'[c] = communities[c]
          /\ communities' \in [Ids -> Row \cup {NoRow}]
        BY <1>2, <2>1, <2>3, <2>4
    <2>6. new # NoRow
        BY <2>3, NoRowIsNone
    <2>7. mixed \subseteq mixed' /\ mixed' \subseteq Ids
        BY <1>2, <2>1 DEF CommunityInv, TypeOK
    <2>8. Linked'
        BY <1>3, <2>1, <2>5, <2>6 DEF CommunityInv, Linked, Exists, IsMember
    <2>9. OwnerModerates'
        BY <1>3, <2>1, <2>3, <2>5 DEF CommunityInv, OwnerModerates, Exists, IsMember
    <2>10. r.id \notin mixed' => new.slug[1] = SlugOf[new.name]
        <3>1. CASE new = row
            BY <1>2, <2>1, <2>7, <3>1 DEF CommunityInv, OnlyRacesSplitName
        <3>2. CASE new # row /\ row = r.row
            <4>1. new.name = r.name /\ new.slug = r.slug
                BY <2>2, <3>2 DEF Written, Row
            <4> QED BY <1>2, <4>1
        <3>3. CASE new # row /\ row # r.row
            BY <2>1, <3>3
        <3> QED BY <3>1, <3>2, <3>3
    <2>11. OnlyRacesSplitName'
        BY <2>5, <2>7, <2>10 DEF CommunityInv, OnlyRacesSplitName, Exists
    <2>12. TablesOK'
        BY <1>3, <2>5, <2>7, <2>8, <2>9, <2>11 DEF CommunityInv, TypeOK, TablesOK
    <2>13. Steady
        BY <1>2, <1>3, <2>1, <2>3, <2>5, <2>7 DEF Steady, CommunityInv, TypeOK, Exists
    <2> QED BY <1>3, <2>12, <2>13, Finishing
<1> QED BY <1>4, <1>5

LEMMA TellMemberKeeps ==
    ASSUME CommunityInv, NEW w \in Workers, NEW u \in Users, TellMember(w, u)
    PROVE  CommunityInv'
<1> DEFINE r == req[w]
           a == [type |-> "community_deleted", to |-> u, community |-> r.id]
           S(at) == [r EXCEPT !.todo = @ \ {u}, !.at = at]
<1>1. r \in Request /\ Sound(r, communities, nextId, mixed, alerts)
    BY RequestFacts
<1>2. r.at = "tell" /\ r.op = "delete" /\ r.id \in Ids /\ u \in r.todo
    BY <1>1 DEF TellMember, Sound, Shaped
<1>3. PICK at \in {"commit", "tell"} : /\ req' = [req EXCEPT ![w] = S(at)]
                                       /\ at = "commit" => r.todo = {u}
    BY DEF TellMember, Goto
<1>4. S(at) \in Request
    BY <1>1 DEF Request
<1>5. /\ alerts \subseteq alerts' /\ alerts' \subseteq Alert
      /\ "lose" \notin Faults => a \in alerts'
    BY <1>2 DEF TellMember, Tell, CommunityInv, TypeOK, Alert
<1>6. UNCHANGED tables /\ started' \in 0..MaxRequests
    BY DEF TellMember, CommunityInv, TypeOK
<1>7. TablesOK' /\ Steady
    BY <1>5, <1>6, TablesUntouched
<1>8. /\ Shaped(S(at)) /\ SameOwner(S(at), communities', nextId') /\ Decided(S(at), mixed')
    BY <1>1, <1>2, <1>6 DEF Sound, Shaped, SameOwner, Decided, Request, tables
<1>9. Telling(S(at), alerts')
    <2>1. /\ S(at).found = r.found /\ S(at).todo = r.todo \ {u} /\ S(at).at = at
          /\ S(at).actor = r.actor /\ S(at).id = r.id /\ S(at).op = r.op
        BY <1>1 DEF Request
    <2>2. "lose" \notin Faults =>
            \A v \in Users \ {r.actor} : r.found[v] # NoRow =>
                \/ v \in r.todo
                \/ [type |-> "community_deleted", to |-> v, community |-> r.id] \in alerts
        BY <1>1, <1>2 DEF Sound, Telling
    <2> QED BY <1>3, <1>5, <2>1, <2>2 DEF Telling
<1> QED BY <1>3, <1>4, <1>7, <1>8, <1>9, OneHandler DEF Sound

LEMMA RemoveCommunityKeeps ==
    ASSUME CommunityInv, NEW w \in Workers, RemoveCommunity(w)
    PROVE  CommunityInv'
<1> DEFINE r == req[w]
           none == [u \in Users |-> NoRow]
<1>1. r \in Request /\ Sound(r, communities, nextId, mixed, alerts)
    BY RequestFacts
<1>2. r.id \in Ids
    BY <1>1 DEF RemoveCommunity, Sound, Shaped
<1>3. Finish(w) /\ UNCHANGED <<nextId, nextMember, alerts, started, mixed>>
    BY DEF RemoveCommunity
<1>4. /\ communities \in [Ids -> Row \cup {NoRow}]
      /\ members \in [Ids -> [Users -> Membership \cup {NoRow}]]
    BY DEF CommunityInv, TypeOK
<1>5. /\ communities'[r.id] = NoRow /\ members'[r.id] = none
      /\ \A c \in Ids \ {r.id} : communities'[c] = communities[c] /\ members'[c] = members[c]
      /\ communities' \in [Ids -> Row \cup {NoRow}]
      /\ members' \in [Ids -> [Users -> Membership \cup {NoRow}]]
    BY <1>2, <1>4 DEF RemoveCommunity
<1>6. Linked'
    BY <1>3, <1>5 DEF CommunityInv, Linked, Exists, IsMember
<1>7. OwnerModerates' /\ OnlyRacesSplitName'
    BY <1>3, <1>5 DEF CommunityInv, OwnerModerates, OnlyRacesSplitName, Exists, IsMember
<1>8. TablesOK'
    BY <1>3, <1>5, <1>6, <1>7 DEF CommunityInv, TypeOK, TablesOK
<1>9. Steady
    BY <1>3, <1>5 DEF Steady, CommunityInv, TypeOK
<1> QED BY <1>3, <1>8, <1>9, Finishing

LEMMA JoinInsertKeeps ==
    ASSUME CommunityInv, NEW w \in Workers, JoinInsert(w)
    PROVE  CommunityInv'
<1> DEFINE r == req[w]
           s == [r EXCEPT !.at = "announce"]
           mem == [id |-> nextMember, role |-> "member"]
<1>1. r \in Request /\ Sound(r, communities, nextId, mixed, alerts) /\ started' \in 0..MaxRequests
    BY RequestFacts DEF JoinInsert
<1>2. r.at = "commit" /\ r.op = "join" /\ r.id \in Ids /\ r.actor \in Users
    BY <1>1 DEF JoinInsert, Sound, Shaped
<1>3. UNCHANGED <<communities, nextId, alerts, started, mixed>>
    BY DEF JoinInsert
<1>4. CASE UNCHANGED <<members, nextMember>> /\ Finish(w)
    <2>1. UNCHANGED <<tables, alerts>>
        BY <1>3, <1>4 DEF tables
    <2> QED BY <1>1, <1>4, <2>1, FinishingOnly
<1>5. CASE ~(UNCHANGED <<members, nextMember>> /\ Finish(w))
    <2>1. /\ Exists(r.id) /\ ~IsMember(r.id, r.actor) /\ nextMember <= MaxMember
          /\ members' = [members EXCEPT ![r.id][r.actor] = mem]
          /\ nextMember' = nextMember + 1
          /\ Goto(w, r, "announce") \/ Finish(w)
        BY <1>5 DEF JoinInsert
    <2>2. mem \in Membership /\ nextMember' \in 1..(MaxMember + 1)
        BY <2>1, ConstantsOK DEF CommunityInv, TypeOK, Membership
    <2>3. members \in [Ids -> [Users -> Membership \cup {NoRow}]]
        BY DEF CommunityInv, TypeOK
    <2>4. /\ members' \in [Ids -> [Users -> Membership \cup {NoRow}]]
          /\ \A c \in Ids, u \in Users :
                c # r.id \/ u # r.actor => members'[c][u] = members[c][u]
        BY <1>2, <2>1, <2>2, <2>3
    <2>5. Linked'
        BY <1>3, <2>1, <2>4 DEF CommunityInv, Linked, Exists, IsMember
    <2>6. OwnerModerates' /\ OnlyRacesSplitName'
        <3>1. ASSUME NEW c \in Ids, Exists(c)
              PROVE  members'[c][communities[c].owner] = members[c][communities[c].owner]
            <4>1. communities[c].owner \in Users
                BY <3>1 DEF CommunityInv, TypeOK, Exists, Row
            <4>2. IsMember(c, communities[c].owner)
                BY <3>1 DEF CommunityInv, OwnerModerates
            <4>3. c # r.id \/ communities[c].owner # r.actor
                BY <2>1, <4>2
            <4> QED BY <2>4, <4>1, <4>3
        <3> QED BY <1>3, <3>1 DEF CommunityInv, OwnerModerates, OnlyRacesSplitName, Exists, IsMember
    <2>7. TablesOK'
        BY <1>3, <2>2, <2>4, <2>5, <2>6 DEF CommunityInv, TypeOK, TablesOK
    <2>8. Steady
        BY <1>3 DEF Steady, CommunityInv, TypeOK
    <2>9. CASE Finish(w)
        BY <2>7, <2>8, <2>9, Finishing
    <2>10. CASE Goto(w, r, "announce")
        <3>1. req' = [req EXCEPT ![w] = s] /\ s \in Request
            BY <1>1, <2>10 DEF Goto, Request
        <3>2. Sound(s, communities', nextId', mixed', alerts')
            BY <1>1, <1>2, <1>3 DEF Sound, Shaped, SameOwner, Decided, Telling, Request
        <3> QED BY <2>7, <2>8, <3>1, <3>2, OneHandler
    <2> QED BY <2>1, <2>9, <2>10
<1> QED BY <1>4, <1>5

\* Taking away, or giving another role to, a membership that is not the owner's.
LEMMA MemberChanges ==
    ASSUME CommunityInv, NEW c \in Ids, NEW u \in Users, NEW m \in Membership \cup {NoRow},
           IsMember(c, u), communities[c].owner # u,
           members' = [members EXCEPT ![c][u] = m],
           UNCHANGED <<communities, nextId, nextMember, alerts, started, mixed>>
    PROVE  TablesOK' /\ Steady
<1>1. members \in [Ids -> [Users -> Membership \cup {NoRow}]]
    BY DEF CommunityInv, TypeOK
<1>2. /\ members' \in [Ids -> [Users -> Membership \cup {NoRow}]]
      /\ \A d \in Ids, v \in Users : d # c \/ v # u => members'[d][v] = members[d][v]
    BY <1>1
<1>3. Linked'
    BY <1>2 DEF CommunityInv, Linked, Exists, IsMember
<1>4. OwnerModerates'
    <2>1. ASSUME NEW d \in Ids, Exists(d)
          PROVE  members'[d][communities[d].owner] = members[d][communities[d].owner]
        <3>1. communities[d].owner \in Users
            BY <2>1 DEF CommunityInv, TypeOK, Exists, Row
        <3> QED BY <1>2, <3>1
    <2> QED BY <2>1 DEF CommunityInv, OwnerModerates, Exists, IsMember
<1>5. OnlyRacesSplitName'
    BY DEF CommunityInv, OnlyRacesSplitName, Exists
<1>6. TablesOK'
    BY <1>2, <1>3, <1>4, <1>5 DEF CommunityInv, TypeOK, TablesOK
<1>7. Steady
    BY DEF Steady, CommunityInv, TypeOK
<1> QED BY <1>6, <1>7

LEMMA NothingWritten ==
    ASSUME CommunityInv, UNCHANGED <<tables, alerts, started>>
    PROVE  TablesOK' /\ Steady
BY TablesUntouched DEF CommunityInv, TypeOK

LEMMA LeaveCommitKeeps ==
    ASSUME CommunityInv, NEW w \in Workers, LeaveCommit(w)
    PROVE  CommunityInv'
<1> DEFINE r == req[w]
           s == [r EXCEPT !.at = "announce"]
<1>1. r \in Request /\ Sound(r, communities, nextId, mixed, alerts)
    BY RequestFacts
<1>2. /\ r.at = "commit" /\ r.op = "leave" /\ r.id \in Ids /\ r.actor \in Users
      /\ r.actor # r.row.owner
      /\ Exists(r.id) => communities[r.id].owner = r.row.owner
    BY <1>1 DEF LeaveCommit, Sound, Shaped, Decided, SameOwner, Exists
<1>3. UNCHANGED <<communities, nextId, nextMember, alerts, started, mixed>>
    BY DEF LeaveCommit
<1>4. TablesOK' /\ Steady
    <2>1. CASE members' = members
        <3>1. UNCHANGED <<tables, alerts, started>>
            BY <1>3, <2>1 DEF tables
        <3> QED BY <3>1, NothingWritten
    <2>2. CASE members' # members
        <3>1. IsMember(r.id, r.actor) /\ members' = [members EXCEPT ![r.id][r.actor] = NoRow]
            BY <2>2 DEF LeaveCommit
        <3>2. communities[r.id].owner # r.actor
            BY <1>2, <3>1 DEF CommunityInv, Linked
        <3> QED BY <1>2, <1>3, <3>1, <3>2, MemberChanges
    <2> QED BY <2>1, <2>2
<1>5. req' = [req EXCEPT ![w] = s] /\ s \in Request
    BY <1>1 DEF LeaveCommit, Goto, Request
<1>6. Sound(s, communities', nextId', mixed', alerts')
    BY <1>1, <1>2, <1>3 DEF Sound, Shaped, SameOwner, Decided, Telling, Request
<1> QED BY <1>4, <1>5, <1>6, OneHandler

LEMMA RoleCommitKeeps ==
    ASSUME CommunityInv, NEW w \in Workers, RoleCommit(w)
    PROVE  CommunityInv'
<1> DEFINE r == req[w]
           s == [r EXCEPT !.at = "announce"]
           mem == [members[r.id][r.user] EXCEPT !.role = r.role]
<1>1. r \in Request /\ Sound(r, communities, nextId, mixed, alerts)
    BY RequestFacts
<1>2. /\ r.at = "commit" /\ r.op = "role" /\ r.id \in Ids /\ r.user \in Users
      /\ r.role \in {"member", "moderator"} /\ r.user # r.row.owner
      /\ Exists(r.id) => communities[r.id].owner = r.row.owner
    BY <1>1 DEF RoleCommit, Sound, Shaped, Decided, SameOwner, Exists
<1>3. UNCHANGED <<communities, nextId, nextMember, alerts, started, mixed>>
    BY DEF RoleCommit
<1>4. TablesOK' /\ Steady
    <2>1. CASE members' = members
        <3>1. UNCHANGED <<tables, alerts, started>>
            BY <1>3, <2>1 DEF tables
        <3> QED BY <3>1, NothingWritten
    <2>2. CASE members' # members
        <3>1. SameRow(r) /\ members' = [members EXCEPT ![r.id][r.user].role = r.role]
            BY <2>2 DEF RoleCommit
        <3>2. IsMember(r.id, r.user) /\ members[r.id][r.user] \in Membership
            BY <1>2, <3>1 DEF SameRow, IsMember, CommunityInv, TypeOK
        <3>3. mem \in Membership
            BY <1>2, <3>2 DEF Membership
        <3>4. members' = [members EXCEPT ![r.id][r.user] = mem]
            BY <3>1
        <3>5. communities[r.id].owner # r.user
            BY <1>2, <3>2 DEF CommunityInv, Linked
        <3> QED BY <1>2, <1>3, <3>2, <3>3, <3>4, <3>5, MemberChanges
    <2> QED BY <2>1, <2>2
<1>5. CASE Finish(w)
    BY <1>4, <1>5, Finishing
<1>6. CASE Goto(w, r, "announce")
    <2>1. req' = [req EXCEPT ![w] = s] /\ s \in Request
        BY <1>1, <1>6 DEF Goto, Request
    <2>2. Sound(s, communities', nextId', mixed', alerts')
        BY <1>1, <1>2, <1>3 DEF Sound, Shaped, SameOwner, Decided, Telling, Request
    <2> QED BY <1>4, <2>1, <2>2, OneHandler
<1> QED BY <1>5, <1>6 DEF RoleCommit

LEMMA AnnounceKeeps ==
    ASSUME CommunityInv, NEW w \in Workers, Announce(w)
    PROVE  CommunityInv'
<1> DEFINE r == req[w]
<1>1. r \in Request /\ Sound(r, communities, nextId, mixed, alerts)
    BY RequestFacts
<1>2. /\ r.op \in {"join", "leave", "role"} /\ r.id \in Ids /\ r.row \in Row
      /\ r.op = "role" => r.user \in Users
    BY <1>1 DEF Announce, Sound, Shaped
<1>3. AlertOf(r) \in Alert
    <2>1. r.row.owner \in Users
        BY <1>2 DEF Row
    <2>2. CASE r.op = "join"
        BY <1>2, <2>1, <2>2 DEF AlertOf, Alert
    <2>3. CASE r.op = "leave"
        BY <1>2, <2>1, <2>3 DEF AlertOf, Alert
    <2>4. CASE r.op = "role"
        BY <1>2, <2>4 DEF AlertOf, Alert
    <2> QED BY <1>2, <2>2, <2>3, <2>4
<1>4. alerts \subseteq alerts' /\ alerts' \subseteq Alert
    BY <1>3 DEF Announce, Tell, CommunityInv, TypeOK
<1>5. UNCHANGED tables /\ started' \in 0..MaxRequests /\ Finish(w)
    BY DEF Announce, CommunityInv, TypeOK
<1> QED BY <1>4, <1>5, TablesUntouched, Finishing

-----------------------------------------------------------------------------
(* The theorems.                                                           *)

LEMMA InitiallyOK == Init => CommunityInv
<1> SUFFICES ASSUME Init PROVE CommunityInv
    OBVIOUS
<1>1. TypeOK
    BY IdleIsARequest, ConstantsOK DEF Init, TypeOK
<1>2. Linked /\ OwnerModerates /\ OnlyRacesSplitName
    BY DEF Init, Linked, OwnerModerates, OnlyRacesSplitName, Exists, IsMember
<1>3. \A w \in Workers : Sound(req[w], communities, nextId, mixed, alerts)
    BY IdleIsSound DEF Init
<1> QED BY <1>1, <1>2, <1>3 DEF CommunityInv

LEMMA StepKeeps == CommunityInv /\ [Next]_vars => CommunityInv'
<1> SUFFICES ASSUME CommunityInv, [Next]_vars PROVE CommunityInv'
    OBVIOUS
<1>1. ASSUME NEW w \in Workers, Start(w) PROVE CommunityInv'
    BY <1>1, StartKeeps
<1>2. ASSUME NEW w \in Workers, Proceed(w) PROVE CommunityInv'
    BY <1>2, PermitKeeps, CheckNameKeeps, CheckSlugKeeps, InsertCommunityKeeps, RenameKeeps,
       FindMembersKeeps, TellMemberKeeps, RemoveCommunityKeeps, JoinCheckKeeps, JoinInsertKeeps,
       LoadKeeps, LeaveCommitKeeps, RoleCommitKeeps, AnnounceKeeps DEF Proceed
<1>3. CASE UNCHANGED vars
    BY <1>3 DEF vars, CommunityInv, TypeOK, Linked, OwnerModerates, OnlyRacesSplitName,
       Exists, IsMember
<1> QED BY <1>1, <1>2, <1>3 DEF Next

LEMMA AlwaysOK == Spec => []CommunityInv
BY InitiallyOK, StepKeeps, PTL DEF Spec

\* The tables, the requests under way and the alerts are well typed.
THEOREM CommunityTypes == Spec => []TypeOK
<1>1. CommunityInv => TypeOK
    BY DEF CommunityInv
<1> QED BY <1>1, AlwaysOK, PTL

\* Every community has its owner among its members, as a moderator.
THEOREM OwnersModerate == Spec => []OwnerModerates
<1>1. CommunityInv => OwnerModerates
    BY DEF CommunityInv
<1> QED BY <1>1, AlwaysOK, PTL

\* A slug that is not that of the name comes from two updates that crossed.
THEOREM SplitNamesAreRaces == Spec => []OnlyRacesSplitName
<1>1. CommunityInv => OnlyRacesSplitName
    BY DEF CommunityInv
<1> QED BY <1>1, AlwaysOK, PTL

-----------------------------------------------------------------------------
(* What a step may never do.                                               *)

\* The members and the communities change in few places.
LEMMA WhoWritesMembers ==
    ASSUME Next
    PROVE  \/ UNCHANGED members
           \/ \E w \in Workers : \/ InsertCommunity(w) \/ RemoveCommunity(w)
                                 \/ JoinInsert(w) \/ LeaveCommit(w) \/ RoleCommit(w)
<1>1. ASSUME NEW w \in Workers, Start(w) PROVE UNCHANGED members
    BY <1>1 DEF Start, CreateStart, UpdateStart, DeleteStart, JoinStart, LeaveStart, RoleStart,
       Begin, tables
<1>2. ASSUME NEW w \in Workers, Proceed(w)
      PROVE  UNCHANGED members \/ InsertCommunity(w) \/ RemoveCommunity(w) \/ JoinInsert(w)
             \/ LeaveCommit(w) \/ RoleCommit(w)
    BY <1>2 DEF Proceed, Permit, CheckName, CheckSlug, Rename, FindMembers, TellMember, JoinCheck,
       LeaveCheck, RoleCheck, Announce, tables
<1> QED BY <1>1, <1>2 DEF Next

LEMMA WhoRemovesCommunities ==
    ASSUME CommunityInv, Next, NEW c \in Ids, Exists(c), communities'[c] = NoRow
    PROVE  \E w \in Workers : RemoveCommunity(w) /\ req[w].id = c
<1>1. communities \in [Ids -> Row \cup {NoRow}]
    BY DEF CommunityInv, TypeOK
<1>2. communities' # communities
    BY DEF Exists
<1>3. ASSUME NEW w \in Workers PROVE ~Start(w)
    BY <1>2 DEF Start, CreateStart, UpdateStart, DeleteStart, JoinStart, LeaveStart, RoleStart,
       Begin, tables
<1>4. ASSUME NEW w \in Workers, Proceed(w)
      PROVE  InsertCommunity(w) \/ Rename(w) \/ RemoveCommunity(w)
    BY <1>2, <1>4 DEF Proceed, Permit, CheckName, CheckSlug, FindMembers, TellMember, JoinCheck,
       JoinInsert, LeaveCheck, LeaveCommit, RoleCheck, RoleCommit, Announce, tables
<1>5. ASSUME NEW w \in Workers, InsertCommunity(w) PROVE FALSE
    <2> DEFINE row == [name |-> req[w].name, slug |-> req[w].slug, owner |-> req[w].actor]
    <2>1. communities' = [communities EXCEPT ![nextId] = row]
        BY <1>2, <1>5 DEF InsertCommunity, tables
    <2>2. ~Exists(nextId) \/ nextId \notin Ids
        BY DEF CommunityInv, TypeOK, Linked
    <2> QED BY <1>1, <2>1, <2>2 DEF Exists
<1>6. ASSUME NEW w \in Workers, Rename(w) PROVE FALSE
    <2> DEFINE r == req[w]
    <2>1. /\ r.id \in Ids /\ r.name \in Names /\ r.slug \in Slugs
          /\ communities' = [communities EXCEPT ![r.id] = Written(r, communities[r.id])]
          /\ Exists(r.id)
        BY <1>2, <1>6, RequestFacts DEF Rename, Sound, Shaped, Decided
    <2>2. Written(r, communities[r.id]) \in Row
        BY <1>1, <2>1 DEF Written, Row, Exists
    <2> QED BY <1>1, <2>1, <2>2, NoRowIsNone DEF Exists
<1>7. ASSUME NEW w \in Workers, RemoveCommunity(w) PROVE req[w].id = c
    BY <1>1, <1>7 DEF RemoveCommunity, Exists
<1> QED BY <1>3, <1>4, <1>5, <1>6, <1>7 DEF Next

\* A moderator's rights come with the creation of the community or from an
\* appointment to the very membership that has them.
THEOREM AppointmentsAreExact == Spec => ModeratorsAreAppointed
<1> DEFINE Appointed(c, u) ==
        LET now == members'[c][u] IN
        now # NoRow /\ now.role = "moderator" /\ now # members[c][u]
            => \/ ~Exists(c) /\ communities'[c].owner = u
               \/ \E w \in Workers :
                     LET r == req[w] IN
                     /\ r.op = "role" /\ r.at = "commit"
                     /\ r.id = c /\ r.user = u /\ r.mem.id = now.id
                     /\ MayManage(r.actor, communities[c])
<1>1. ASSUME CommunityInv, Next, NEW c \in Ids, NEW u \in Users PROVE Appointed(c, u)
    <2> DEFINE now == members'[c][u]
    <2> SUFFICES ASSUME now # NoRow, now.role = "moderator", now # members[c][u]
                 PROVE  \/ ~Exists(c) /\ communities'[c].owner = u
                        \/ \E w \in Workers :
                              /\ req[w].op = "role" /\ req[w].at = "commit"
                              /\ req[w].id = c /\ req[w].user = u /\ req[w].mem.id = now.id
                              /\ MayManage(req[w].actor, communities[c])
        OBVIOUS
    <2>1. /\ members \in [Ids -> [Users -> Membership \cup {NoRow}]]
          /\ communities \in [Ids -> Row \cup {NoRow}]
        BY <1>1 DEF CommunityInv, TypeOK
    <2>2. PICK w \in Workers : \/ InsertCommunity(w) \/ RemoveCommunity(w)
                               \/ JoinInsert(w) \/ LeaveCommit(w) \/ RoleCommit(w)
        BY <1>1, WhoWritesMembers
    <2> DEFINE r == req[w]
    <2>3. /\ r \in Request /\ Sound(r, communities, nextId, mixed, alerts)
        BY <1>1, RequestFacts
    <2>4. CASE InsertCommunity(w)
        <3> DEFINE mem == [id |-> nextMember, role |-> "moderator"]
        <3>1. /\ members' = [members EXCEPT ![nextId][r.actor] = mem]
              /\ communities' = [communities EXCEPT ![nextId] =
                                    [name |-> r.name, slug |-> r.slug, owner |-> r.actor]]
            BY <2>4 DEF InsertCommunity, tables
        <3>2. c = nextId /\ u = r.actor
            BY <2>1, <3>1
        <3>3. ~Exists(c)
            BY <1>1, <3>2 DEF CommunityInv, TypeOK, Linked
        <3>4. communities'[c].owner = u
            BY <2>1, <3>1, <3>2
        <3> QED BY <3>3, <3>4
    <2>5. CASE RemoveCommunity(w)
        <3>1. members' = [members EXCEPT ![r.id] = [v \in Users |-> NoRow]]
            BY <2>5 DEF RemoveCommunity
        <3> QED BY <2>1, <3>1
    <2>6. CASE JoinInsert(w)
        <3> DEFINE mem == [id |-> nextMember, role |-> "member"]
        <3>1. members' = [members EXCEPT ![r.id][r.actor] = mem] \/ members' = members
            BY <2>6 DEF JoinInsert
        <3>2. members'[c][u] = mem \/ members'[c][u] = members[c][u]
            BY <2>1, <3>1
        <3> QED BY <3>2
    <2>7. CASE LeaveCommit(w)
        <3>1. members' = [members EXCEPT ![r.id][r.actor] = NoRow] \/ members' = members
            BY <2>7 DEF LeaveCommit
        <3>2. members'[c][u] = NoRow \/ members'[c][u] = members[c][u]
            BY <2>1, <3>1
        <3> QED BY <3>2
    <2>8. CASE RoleCommit(w)
        <3>1. /\ r.op = "role" /\ r.at = "commit" /\ r.id \in Ids /\ r.user \in Users
              /\ MayManage(r.actor, r.row)
              /\ Exists(r.id) => communities[r.id].owner = r.row.owner
            BY <2>3, <2>8 DEF RoleCommit, Sound, Shaped, Decided, SameOwner, Exists
        <3>2. members' # members
            OBVIOUS
        <3>3. SameRow(r) /\ members' = [members EXCEPT ![r.id][r.user].role = r.role]
            BY <2>8, <3>2 DEF RoleCommit
        <3>4. r.id = c /\ r.user = u
            BY <2>1, <3>1, <3>3
        <3>5. members[c][u] \in Membership /\ members[c][u].id = r.mem.id
            BY <2>1, <3>1, <3>3, <3>4 DEF SameRow, IsMember
        <3>6. now.id = members[c][u].id
            BY <2>1, <3>1, <3>3, <3>4, <3>5 DEF Membership
        <3>7. Exists(c)
            BY <1>1, <3>3, <3>4 DEF SameRow, CommunityInv, Linked
        <3>8. MayManage(r.actor, communities[c])
            BY <3>1, <3>4, <3>7 DEF MayManage
        <3> QED BY <3>1, <3>4, <3>5, <3>6, <3>8
    <2> QED BY <2>2, <2>4, <2>5, <2>6, <2>7, <2>8
<1>2. CommunityInv /\ [Next]_vars => [\A c \in Ids, u \in Users : Appointed(c, u)]_vars
    BY <1>1
<1>3. Spec => [][\A c \in Ids, u \in Users : Appointed(c, u)]_vars
    BY <1>2, AlwaysOK, PTL DEF Spec
<1> QED BY <1>3 DEF ModeratorsAreAppointed

\* The members that a deletion has found are told before it takes effect.
THEOREM DeletionsAreTold == Spec => DeletionIsTold
<1> DEFINE Told(c) ==
        Exists(c) /\ communities'[c] = NoRow /\ "lose" \notin Faults =>
          \E w \in Workers :
              LET r == req[w] IN
              /\ r.op = "delete" /\ r.id = c
              /\ \A u \in Users \ {r.actor} :
                    IsMember(c, u) /\ r.found[u] # NoRow
                    => [type |-> "community_deleted", to |-> u, community |-> c] \in alerts
<1>1. ASSUME CommunityInv, Next, NEW c \in Ids PROVE Told(c)
    <2> SUFFICES ASSUME Exists(c), communities'[c] = NoRow, "lose" \notin Faults
                 PROVE  \E w \in Workers :
                            /\ req[w].op = "delete" /\ req[w].id = c
                            /\ \A u \in Users \ {req[w].actor} :
                                  IsMember(c, u) /\ req[w].found[u] # NoRow
                                  => [type |-> "community_deleted", to |-> u, community |-> c]
                                        \in alerts
        OBVIOUS
    <2>1. PICK w \in Workers : RemoveCommunity(w) /\ req[w].id = c
        BY <1>1, WhoRemovesCommunities
    <2>2. req[w].op = "delete" /\ req[w].at = "commit" /\ Telling(req[w], alerts)
        BY <1>1, <2>1, RequestFacts DEF RemoveCommunity, Sound
    <2> QED BY <2>1, <2>2 DEF Telling
<1>2. CommunityInv /\ [Next]_vars => [\A c \in Ids : Told(c)]_vars
    BY <1>1
<1>3. Spec => [][\A c \in Ids : Told(c)]_vars
    BY <1>2, AlwaysOK, PTL DEF Spec
<1> QED BY <1>3 DEF DeletionIsTold

====
