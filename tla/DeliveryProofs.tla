---- MODULE DeliveryProofs ----
(***************************************************************************)
(* What the notification service keeps for every number of people, tabs,   *)
(* events, emitters and restarts: the types, the promise of Inbox by       *)
(* refinement, the bound on how often a notice is stored, the registry of  *)
(* tabs, and that a push reaches every tab that stays.                     *)
(***************************************************************************)
EXTENDS Delivery, TLAPS, FiniteSetTheorems, WellFoundedInduction

\* A consumer that is about to store a notice is about to store the one at its
\* position, for its addressee.
Saving ==
    task[Consumer].at = "save" =>
        /\ pos \in 1..Len(log)
        /\ log[pos] \in Users
        /\ task[Consumer].user = log[pos]

\* A walk stands at a socket of somebody's list.
Standing(w) == w.at = "send" => w.user \in Users /\ w.sending \in Sockets
Walking == \A t \in Tasks : Standing(task[t])

DInv == TypeOK /\ Saving /\ Walking

-----------------------------------------------------------------------------
(* Walks.                                                                  *)

LEMMA CountsOK ==
    ASSUME TypeOK, NEW S \in SUBSET Users
    PROVE  Cardinality(S) \in Nat
<1>1. IsFiniteSet(S)
  BY ConstantsOK, FS_Subset
<1> QED
  BY <1>1, FS_CardinalityType

LEMMA TaskUpdates ==
    ASSUME NEW w \in Task
    PROVE  /\ \A u \in Users : [w EXCEPT !.user = u] \in Task
           /\ \A n \in Nat : [w EXCEPT !.stamp = n] \in Task
           /\ \A n \in Nat : [w EXCEPT !.index = n] \in Task
           /\ \A n \in Nat : [w EXCEPT !.left = n] \in Task
           /\ \A s \in Sockets : [w EXCEPT !.sending = s] \in Task
           /\ \A S \in SUBSET Sockets : [w EXCEPT !.owed = S] \in Task
           /\ \A d \in Seq(Users \X Sockets) : [w EXCEPT !.dead = d] \in Task
<1>1. \A u \in Users : [w EXCEPT !.user = u] \in Task
  BY DEF Task
<1>2. \A n \in Nat : [w EXCEPT !.stamp = n] \in Task
  BY DEF Task
<1>3. \A n \in Nat : [w EXCEPT !.index = n] \in Task
  BY DEF Task
<1>4. \A n \in Nat : [w EXCEPT !.left = n] \in Task
  BY DEF Task
<1>5. \A s \in Sockets : [w EXCEPT !.sending = s] \in Task
  BY DEF Task
<1>6. \A S \in SUBSET Sockets : [w EXCEPT !.owed = S] \in Task
  BY DEF Task
<1>7. \A d \in Seq(Users \X Sockets) : [w EXCEPT !.dead = d] \in Task
  BY DEF Task
<1> QED
  BY <1>1, <1>2, <1>3, <1>4, <1>5, <1>6, <1>7

LEMMA RestingOK ==
    ASSUME NEW at \in {"starting", "waiting", "save", "push", "send"}
    PROVE  /\ Resting(at) \in Task
           /\ Resting(at).at = at
           /\ \A u \in Users : [Resting(at) EXCEPT !.user = u] \in Task
<1>1. <<>> \in Seq(Users \X Sockets)
  OBVIOUS
<1>2. Resting(at) \in Task
  BY <1>1 DEF Resting, Task
<1>3. Resting(at).at = at
  BY DEF Resting
<1> QED
  BY <1>2, <1>3, TaskUpdates

LEMMA OnwardTypes ==
    ASSUME TypeOK, NEW w \in Task, NEW v \in Onward(w)
    PROVE  v \in Task /\ v.at = w.at /\ v.user \in Users /\ v.sending \in Sockets
<1>1. CASE w.index < Cardinality(ListOf(w))
  <2>1. PICK s \in ListOf(w) : v = [w EXCEPT !.index = w.index + 1, !.sending = s]
    BY <1>1 DEF Onward, Nth
  <2>2. s \in Sockets /\ w.user \in Users
    BY <2>1 DEF ListOf, TypeOK
  <2>3. w.index + 1 \in Nat
    BY DEF Task
  <2> QED
    BY <2>1, <2>2, <2>3 DEF Task
<1>2. CASE ~(w.index < Cardinality(ListOf(w)))
  <2> DEFINE Sends(u) == {[w EXCEPT !.user = u, !.stamp = stamp[u], !.index = 1,
                                    !.left = w.left - Steps(w, u), !.sending = s] :
                            s \in Nth(listed[u], 1)}
  <2>0. v \in UNION {Sends(u) : u \in NextEntry(w)}
    BY <1>2 DEF Onward
  <2>1. PICK u \in NextEntry(w) : v \in Sends(u)
    <3> HIDE DEF Sends
    <3> QED
      BY <2>0
  <2>2. PICK s \in listed[u] :
           v = [w EXCEPT !.user = u, !.stamp = stamp[u], !.index = 1,
                         !.left = w.left - Steps(w, u), !.sending = s]
    BY <2>1 DEF Nth
  <2>3. u \in Users /\ Steps(w, u) <= w.left /\ w.left \in Nat
    BY DEF NextEntry, Later, Online, Task
  <2>4. Steps(w, u) \in Nat
    BY CountsOK DEF Steps, Later, Online
  <2>5. w.left - Steps(w, u) \in Nat
    BY <2>3, <2>4
  <2>6. s \in Sockets /\ stamp[u] \in Nat
    BY <2>2, <2>3 DEF TypeOK, Sockets
  <2> DEFINE a == [w EXCEPT !.user = u]
             b == [a EXCEPT !.stamp = stamp[u]]
             c == [b EXCEPT !.index = 1]
             d == [c EXCEPT !.left = w.left - Steps(w, u)]
             e == [d EXCEPT !.sending = s]
  <2>7. a \in Task
    BY <2>3, TaskUpdates
  <2>8. b \in Task
    BY <2>6, <2>7, TaskUpdates
  <2>9. c \in Task
    BY <2>8, TaskUpdates
  <2>10. d \in Task
    BY <2>5, <2>9, TaskUpdates
  <2>11. e \in Task
    BY <2>6, <2>10, TaskUpdates
  <2>12. v = e
    BY <2>2
  <2>13. e.at = w.at /\ e.user = u /\ e.sending = s
    BY DEF Task
  <2> QED
    BY <2>3, <2>6, <2>11, <2>12, <2>13
<1> QED
  BY <1>1, <1>2

LEMMA FeltTypes ==
    ASSUME TypeOK, NEW l, NEW st
    PROVE  /\ Felt(l, st) \in [Tasks -> Task]
           /\ \A t \in Tasks : /\ Felt(l, st)[t].at = task[t].at
                               /\ Felt(l, st)[t].user = task[t].user
                               /\ Felt(l, st)[t].sending = task[t].sending
<1>1. ASSUME NEW t \in Tasks
      PROVE  /\ Felt(l, st)[t] \in Task
             /\ Felt(l, st)[t].at = task[t].at
             /\ Felt(l, st)[t].user = task[t].user
             /\ Felt(l, st)[t].sending = task[t].sending
  <2>1. task[t] \in Task
    BY DEF TypeOK
  <2>2. PICK b \in BOOLEAN : Felt(l, st)[t] = [task[t] EXCEPT !.disturbed = b]
    <3> DEFINE b == task[t].disturbed \/ Disturbs(task[t], l, st)
    <3>1. b \in BOOLEAN
      BY <2>1 DEF Task, Disturbs
    <3> QED
      BY <3>1 DEF Felt
  <2> QED
    BY <2>1, <2>2 DEF Task
<1> QED
  BY <1>1 DEF Felt

\* What a step of a walk leaves: the types, and everybody else's place.
Walked(t) ==
    /\ task' \in [Tasks -> Task]
    /\ listed' \in [Users -> SUBSET Sockets]
    /\ stamp' \in [Users -> Sockets \cup {0}]
    /\ torn' \subseteq Users
    /\ task'[t].at \in {"send", "waiting"}
    /\ Standing(task'[t])
    /\ \A x \in Tasks \ {t} : /\ task'[x].at = task[x].at /\ task'[x].user = task[x].user
                               /\ task'[x].sending = task[x].sending

LEMMA CleanUpWalks ==
    ASSUME TypeOK, NEW t \in Tasks, NEW w \in Task, CleanUp(t, w)
    PROVE  Walked(t)
<1> DEFINE l == [u \in Users |-> listed[u] \ Cleared(w)]
           emptied == {u \in Online :
                      /\ l[u] = {}
                      /\ \/ w.scope = "all" /\ listed[u] # {}
                         \/ w.scope = "one" /\ u = w.user /\ ~CutShort(w)}
           st == [u \in Users |-> IF u \in emptied THEN 0 ELSE stamp[u]]
<1>1. /\ listed' = l /\ stamp' = st
      /\ torn' \subseteq torn \cup Online
      /\ task' = [Felt(l, st) EXCEPT ![t] = Resting("waiting")]
  BY DEF CleanUp
<1>2. l \in [Users -> SUBSET Sockets]
  BY DEF TypeOK
<1>3. st \in [Users -> Sockets \cup {0}]
  BY DEF TypeOK
<1>4. torn' \subseteq Users
  BY <1>1 DEF TypeOK, Online
<1> HIDE DEF l, st
<1>5. /\ Felt(l, st) \in [Tasks -> Task]
      /\ \A x \in Tasks : /\ Felt(l, st)[x].at = task[x].at
                          /\ Felt(l, st)[x].user = task[x].user
                          /\ Felt(l, st)[x].sending = task[x].sending
  BY FeltTypes
<1>6. Resting("waiting") \in Task /\ Resting("waiting").at = "waiting"
  BY RestingOK
<1>7. task' \in [Tasks -> Task]
  BY <1>1, <1>5, <1>6
<1>8. task'[t].at = "waiting"
  BY <1>1, <1>5, <1>6
<1>9. \A x \in Tasks \ {t} : /\ task'[x].at = task[x].at /\ task'[x].user = task[x].user
                               /\ task'[x].sending = task[x].sending
  BY <1>1, <1>5
<1> QED
  BY <1>1, <1>2, <1>3, <1>4, <1>7, <1>8, <1>9 DEF Walked, Standing

LEMMA ContinueWalks ==
    ASSUME TypeOK, NEW t \in Tasks, NEW w \in Task, w.at = "send", Continue(t, w)
    PROVE  Walked(t)
<1>1. CASE /\ \E v \in Onward(w) : task' = [task EXCEPT ![t] = v]
           /\ UNCHANGED registry
  <2>1. PICK v \in Onward(w) : task' = [task EXCEPT ![t] = v]
    BY <1>1
  <2>2. v \in Task /\ v.at = "send" /\ Standing(v)
    BY OnwardTypes DEF Standing
  <2> QED
    BY <1>1, <2>1, <2>2 DEF Walked, TypeOK, registry
<1>2. CASE /\ task' = [task EXCEPT ![t] = Resting("waiting")]
           /\ UNCHANGED registry
  <2>1. Resting("waiting") \in Task /\ Resting("waiting").at = "waiting"
    BY RestingOK
  <2> QED
    BY <1>2, <2>1 DEF Walked, TypeOK, registry, Standing
<1>3. CASE CleanUp(t, w)
  BY <1>3, CleanUpWalks
<1> QED
  BY <1>1, <1>2, <1>3 DEF Continue

\* A step of a walk, with what the other modules' variables do given.
LEMMA WalkKeeps ==
    ASSUME DInv, NEW t \in Tasks, Walked(t), UNCHANGED <<logVars, notices, client, counters>>
    PROVE  /\ DInv'
           /\ task'[Consumer].at = "save" <=> t # Consumer /\ task[Consumer].at = "save"
<1>1. Consumer \in Tasks
  BY DEF Tasks
<1>2. task'[Consumer].at = "save" => t # Consumer /\ task[Consumer].at = "save"
                                     /\ task'[Consumer].user = task[Consumer].user
  BY <1>1 DEF Walked
<1>3. t # Consumer /\ task[Consumer].at = "save" => task'[Consumer].at = "save"
  BY <1>1 DEF Walked
<1>4. TypeOK'
  BY DEF DInv, TypeOK, Walked, logVars, counters
<1>5. Saving'
  BY <1>2 DEF DInv, Saving, logVars
<1>6. Walking'
  BY DEF DInv, Walking, Walked, Standing
<1> QED
  BY <1>2, <1>3, <1>4, <1>5, <1>6 DEF DInv

-----------------------------------------------------------------------------
(* Every action keeps the invariant and shows a step of Inbox, and only a  *)
(* restart sets the reader back.                                           *)

Shows ==
    /\ Seen!Next \/ UNCHANGED Seen!vars
    /\ restarts' \in {restarts, restarts + 1}
    /\ restarts' = restarts => Handled' >= Handled

LEMMA HandledOK ==
    ASSUME DInv
    PROVE  Handled \in 0..Len(log) /\ Len(log) \in Nat /\ restarts \in Nat
  BY DEF DInv, TypeOK, Saving, Handled

\* Nothing that Inbox sees has changed.
LEMMA Unseen ==
    ASSUME DInv, UNCHANGED <<logVars, notices, restarts>>,
           task'[Consumer].at = "save" <=> task[Consumer].at = "save"
    PROVE  Shows
<1>1. Handled' = Handled
  BY DEF Handled, logVars
<1>2. UNCHANGED Seen!vars
  BY <1>1 DEF Seen!vars, logVars
<1> QED
  BY <1>1, <1>2, HandledOK DEF Shows

LEMMA PublishStep ==
    ASSUME DInv, NEW e \in Users \cup {Everyone, Nobody}, Publish(e)
    PROVE  DInv' /\ Shows
<1>1. /\ log' = Append(log, e) /\ UNCHANGED <<pos, committed, lost, task, notices, client,
                                             registry, counters>>
  BY DEF Publish
<1>2. /\ log' \in Seq(Users \cup {Everyone, Nobody}) /\ Len(log') = Len(log) + 1
      /\ Len(log) \in Nat /\ \A i \in 1..Len(log) : log'[i] = log[i]
  BY <1>1 DEF DInv, TypeOK
<1>3. TypeOK'
  BY <1>1, <1>2 DEF DInv, TypeOK, registry, counters
<1>4. Saving'
  BY <1>1, <1>2 DEF DInv, Saving
<1>5. Handled' = Handled
  BY <1>1 DEF Handled
<1>6. Seen!Publish
  BY <1>1, <1>5 DEF Seen!Publish
<1> QED
  BY <1>1, <1>3, <1>4, <1>5, <1>6, HandledOK DEF DInv, Walking, Shows, Seen!Next, counters

\* Connects and disconnects.
LEMMA RegistryStep ==
    ASSUME DInv, NEW l \in [Users -> SUBSET Sockets], NEW st \in [Users -> Sockets \cup {0}],
           client' \in [Sockets -> Client],
           listed' = l, stamp' = st, task' = Felt(l, st),
           UNCHANGED <<logVars, notices, torn, counters>>
    PROVE  DInv' /\ Shows
<1>1. Consumer \in Tasks
  BY DEF Tasks
<1>2. /\ task' \in [Tasks -> Task]
      /\ \A x \in Tasks : /\ task'[x].at = task[x].at /\ task'[x].user = task[x].user
                           /\ task'[x].sending = task[x].sending
  BY FeltTypes DEF DInv
<1>3. TypeOK'
  BY <1>2 DEF DInv, TypeOK, logVars, counters
<1>4. Saving'
  BY <1>1, <1>2 DEF DInv, Saving, logVars
<1>5. Shows
  BY <1>1, <1>2, Unseen DEF counters
<1>6. Walking'
  BY <1>2 DEF DInv, Walking, Standing
<1> QED
  BY <1>3, <1>4, <1>5, <1>6 DEF DInv

LEMMA ConnectStep ==
    ASSUME DInv, NEW u \in Users, NEW s \in Sockets, Connect(u, s)
    PROVE  DInv' /\ Shows
<1> DEFINE l == [listed EXCEPT ![u] = @ \cup {s}]
           st == [stamp EXCEPT ![u] = IF @ = 0 THEN s ELSE @]
<1>1. l \in [Users -> SUBSET Sockets] /\ st \in [Users -> Sockets \cup {0}]
  BY DEF DInv, TypeOK
<1>2. client' \in [Sockets -> Client]
  BY DEF DInv, TypeOK, Connect, Client
<1>3. listed' = l /\ stamp' = st /\ task' = Felt(l, st)
      /\ UNCHANGED <<logVars, notices, torn, counters>>
  BY DEF Connect
<1> HIDE DEF l, st
<1> QED
  BY <1>1, <1>2, <1>3, RegistryStep

LEMMA DisconnectStep ==
    ASSUME DInv, NEW s \in Sockets, Disconnect(s)
    PROVE  DInv' /\ Shows
<1> DEFINE u == client[s].user
           l == [listed EXCEPT ![u] = @ \ {s}]
           st == [stamp EXCEPT ![u] = IF l[u] = {} THEN 0 ELSE @]
<1>1. l \in [Users -> SUBSET Sockets] /\ st \in [Users -> Sockets \cup {0}]
  BY DEF DInv, TypeOK
<1>2. client' \in [Sockets -> Client]
  BY DEF DInv, TypeOK, Disconnect, Client, Gone
<1>3. listed' = l /\ stamp' = st /\ task' = Felt(l, st)
      /\ UNCHANGED <<logVars, notices, torn, counters>>
  BY DEF Disconnect
<1> HIDE DEF l, st
<1> QED
  BY <1>1, <1>2, <1>3, RegistryStep

LEMMA BreakStep ==
    ASSUME DInv, NEW s \in Sockets, Break(s)
    PROVE  DInv' /\ Shows
<1>1. client' \in [Sockets -> Client]
  BY DEF DInv, TypeOK, Break, Client
<1>2. UNCHANGED <<logVars, task, notices, registry, counters>>
  BY DEF Break
<1>3. DInv'
  BY <1>1, <1>2 DEF DInv, TypeOK, Saving, Walking, logVars, registry, counters
<1> QED
  BY <1>2, <1>3, Unseen DEF counters

LEMMA PushStep ==
    ASSUME DInv, NEW t \in Tasks, Push(t)
    PROVE  DInv' /\ Shows
<1>1. task[t].at = "push" /\ UNCHANGED <<logVars, notices, client, counters>>
  BY DEF Push
<1>2. Walked(t)
  <2>1. CASE task' = [task EXCEPT ![t] = Resting("waiting")] /\ UNCHANGED registry
    <3>1. Resting("waiting") \in Task /\ Resting("waiting").at = "waiting"
      BY RestingOK
    <3> QED
      BY <2>1, <3>1 DEF Walked, DInv, TypeOK, registry, Standing
  <2>2. CASE task[t].user \in Online /\ Continue(t, PersonalWalk(task[t].user))
    <3> DEFINE u == task[t].user
               a == Resting("send")
               b == [a EXCEPT !.user = u]
               c == [b EXCEPT !.stamp = stamp[u]]
               d == [c EXCEPT !.owed = listed[u]]
    <3>1. u \in Users /\ stamp[u] \in Nat /\ listed[u] \subseteq Sockets
      BY <2>2 DEF Online, DInv, TypeOK, Sockets
    <3>2. a \in Task /\ a.at = "send" /\ b \in Task
      BY <3>1, RestingOK
    <3>3. c \in Task
      BY <3>1, <3>2, TaskUpdates
    <3>4. d \in Task
      BY <3>1, <3>3, TaskUpdates
    <3>5. PersonalWalk(u) = d
      BY DEF PersonalWalk
    <3>6. d.at = "send"
      BY DEF Resting
    <3> QED
      BY <2>2, <3>4, <3>5, <3>6, ContinueWalks DEF DInv
  <2> QED
    BY <2>1, <2>2 DEF Push
<1>3. t = Consumer => task[Consumer].at # "save"
  BY <1>1
<1> QED
  BY <1>1, <1>2, <1>3, WalkKeeps, Unseen DEF counters

LEMMA SendDoneStep ==
    ASSUME DInv, NEW t \in Tasks, SendDone(t)
    PROVE  DInv' /\ Shows
<1> DEFINE w == task[t]
           a == [w EXCEPT !.owed = @ \ {w.sending}]
           b == [w EXCEPT !.dead = Append(@, <<w.user, w.sending>>)]
<1>1. w.at = "send" /\ UNCHANGED <<logVars, notices, client, counters>>
  BY DEF SendDone
<1>2. w \in Task
  BY DEF DInv, TypeOK
<1>3. CASE Continue(t, a)
  <2>1. a \in Task
    BY <1>2 DEF Task
  <2>2. a.at = "send"
    BY <1>1, <1>2 DEF Task
  <2>3. Walked(t)
    BY <1>3, <2>1, <2>2, ContinueWalks DEF DInv
  <2> QED
    BY <1>1, <2>3, WalkKeeps, Unseen DEF counters
<1>4. CASE Continue(t, b)
  <2>1. <<w.user, w.sending>> \in Users \X Sockets
    BY <1>1 DEF DInv, Walking, Standing
  <2> DEFINE d == Append(w.dead, <<w.user, w.sending>>)
  <2>2. d \in Seq(Users \X Sockets)
    BY <1>2, <2>1 DEF Task
  <2>3. b = [w EXCEPT !.dead = d]
    OBVIOUS
  <2>4. b \in Task
    BY <1>2, <2>2, <2>3, TaskUpdates
  <2>5. b.at = "send"
    BY <1>1, <1>2 DEF Task
  <2>6. Walked(t)
    BY <1>4, <2>4, <2>5, ContinueWalks DEF DInv
  <2> QED
    BY <1>1, <2>6, WalkKeeps, Unseen DEF counters
<1> QED
  BY <1>3, <1>4 DEF SendDone

\* A coroutine that leaves its place for one where no walk stands.
LEMMA PlaceTaken ==
    ASSUME DInv, NEW t \in Tasks, NEW w \in Task, w.at # "send",
           task' = [task EXCEPT ![t] = w]
    PROVE  /\ task' \in [Tasks -> Task] /\ Walking'
           /\ task'[t] = w
           /\ \A x \in Tasks \ {t} : task'[x] = task[x]
<1>1. task \in [Tasks -> Task]
  BY DEF DInv, TypeOK
<1>2. /\ task' \in [Tasks -> Task] /\ task'[t] = w
      /\ \A x \in Tasks \ {t} : task'[x] = task[x]
  BY <1>1
<1>3. Walking'
  BY <1>2 DEF DInv, Walking, Standing
<1> QED
  BY <1>2, <1>3

LEMMA StartStep == ASSUME DInv, Start PROVE DInv' /\ Shows
<1>1. /\ task[Consumer].at = "starting" /\ task' = [task EXCEPT ![Consumer] = Resting("waiting")]
      /\ UNCHANGED <<logVars, notices, client, registry, counters>>
  BY DEF Start
<1>2. Resting("waiting") \in Task /\ Resting("waiting").at = "waiting" /\ Consumer \in Tasks
  BY RestingOK DEF Tasks
<1>3. task' \in [Tasks -> Task] /\ Walking' /\ task'[Consumer].at = "waiting"
  BY <1>1, <1>2, PlaceTaken
<1>4. DInv'
  BY <1>1, <1>3 DEF DInv, TypeOK, Saving, logVars, registry, counters
<1>5. Shows
  BY <1>1, <1>3, Unseen DEF counters
<1> QED
  BY <1>4, <1>5

LEMMA FetchStep == ASSUME DInv, Fetch PROVE DInv' /\ Shows
<1>1. /\ task[Consumer].at = "waiting" /\ pos < Len(log) /\ pos' = pos + 1
      /\ UNCHANGED <<log, committed, lost, notices, client, counters>>
  BY DEF Fetch
<1>2. /\ pos \in 0..Len(log) /\ pos' \in 1..Len(log) /\ Len(log) \in Nat
      /\ committed' \in 0..pos' /\ Consumer \in Tasks /\ Handled = pos
  BY <1>1 DEF DInv, TypeOK, Tasks, Handled
<1>3. CASE log[pos'] \in Users /\ UNCHANGED registry
           /\ task' = [task EXCEPT ![Consumer] = [Resting("save") EXCEPT !.user = log[pos']]]
  <2> DEFINE w == [Resting("save") EXCEPT !.user = log[pos']]
  <2>1. w \in Task
    BY <1>3, RestingOK
  <2>2. w.at = "save" /\ w.user = log[pos']
    BY DEF Resting
  <2>3. /\ task' \in [Tasks -> Task] /\ Walking' /\ task'[Consumer] = w
    BY <1>2, <1>3, <2>1, <2>2, PlaceTaken
  <2>4. DInv'
    BY <1>1, <1>2, <1>3, <2>2, <2>3 DEF DInv, TypeOK, Saving, registry, counters
  <2>5. Handled' = Handled
    BY <1>1, <1>2, <2>2, <2>3 DEF Handled
  <2>6. UNCHANGED Seen!vars
    BY <1>1, <2>5 DEF Seen!vars
  <2> QED
    BY <1>1, <2>4, <2>5, <2>6, HandledOK DEF Shows, counters
<1>4. CASE log[pos'] \in {Everyone, Nobody} /\ Walked(Consumer)
  <2>1. DInv'
    <3>1. TypeOK'
      BY <1>1, <1>2, <1>4 DEF DInv, TypeOK, Walked, counters
    <3>2. Saving'
      BY <1>4 DEF Saving, Walked
    <3>3. Walking'
      BY <1>4 DEF DInv, Walking, Walked, Standing
    <3> QED
      BY <3>1, <3>2, <3>3 DEF DInv
  <2>2. Handled' = Handled + 1 /\ Handled' = pos'
    BY <1>1, <1>2, <1>4 DEF Handled, Walked
  <2>3. log[pos'] \notin Users
    BY <1>4, ConstantsOK
  <2>4. Seen!Pass
    BY <1>1, <1>2, <2>2, <2>3 DEF Seen!Pass, Seen!Advance
  <2> QED
    BY <1>1, <2>1, <2>2, <2>4, HandledOK DEF Shows, Seen!Next, Seen!Take, counters
<1>5. CASE log[pos'] = Nobody /\ UNCHANGED <<task, registry>>
  <2>1. Walked(Consumer)
    BY <1>1, <1>5 DEF Walked, DInv, TypeOK, Standing, registry
  <2> QED
    BY <1>4, <1>5, <2>1
<1>6. CASE log[pos'] = Everyone /\ Continue(Consumer, BroadcastWalk)
  <2> DEFINE n == Cardinality(Online)
             S == UNION {listed[u] : u \in Users}
  <2>1. n \in Nat
    BY CountsOK DEF DInv, Online
  <2>2. S \in SUBSET Sockets
    BY DEF DInv, TypeOK
  <2> HIDE DEF n, S
  <2>3. BroadcastWalk = [Resting("send") EXCEPT !.scope = "all", !.size = n, !.left = n, !.owed = S]
    BY DEF BroadcastWalk, n, S
  <2>4. BroadcastWalk \in Task
    <3>1. Resting("send") \in Task
      BY RestingOK
    <3>2. [Resting("send") EXCEPT !.scope = "all"] \in Task
      BY <3>1 DEF Task
    <3>3. [Resting("send") EXCEPT !.scope = "all", !.size = n] \in Task
      BY <3>2, <2>1 DEF Task
    <3>4. [Resting("send") EXCEPT !.scope = "all", !.size = n, !.left = n] \in Task
      BY <3>3, <2>1, TaskUpdates
    <3>5. [Resting("send") EXCEPT !.scope = "all", !.size = n, !.left = n, !.owed = S] \in Task
      BY <3>4, <2>2, TaskUpdates
    <3> QED
      BY <2>3, <3>5
  <2>5. BroadcastWalk.at = "send"
    BY <2>3 DEF Resting
  <2>6. Walked(Consumer)
    BY <1>2, <1>6, <2>4, <2>5, ContinueWalks DEF DInv
  <2> QED
    BY <1>4, <1>6, <2>6
<1> QED
  BY <1>3, <1>5, <1>6 DEF Fetch

LEMMA StoredRow ==
    ASSUME DInv, NEW u \in Users, NEW i \in Nat
    PROVE  Append(notices, Unread(u, i)) \in Seq(Notification)
<1>1. Unread(u, i) \in Notification
  BY DEF Unread, Notification
<1> QED
  BY <1>1 DEF DInv, TypeOK

LEMMA SaveStep == ASSUME DInv, Save PROVE DInv' /\ Shows
<1> DEFINE w == task[Consumer]
<1>1. w.at = "save" /\ UNCHANGED <<log, pos, committed, client, registry, counters>>
  BY DEF Save
<1>2. /\ pos \in 1..Len(log) /\ log[pos] \in Users /\ w.user = log[pos]
      /\ Len(log) \in Nat /\ Consumer \in Tasks /\ w \in Task /\ Handled = pos - 1
  BY <1>1 DEF DInv, TypeOK, Saving, Tasks, Handled
<1>3. ASSUME NEW v \in {[w EXCEPT !.at = "push"], Resting("waiting")},
             task' = [task EXCEPT ![Consumer] = v]
      PROVE  /\ task' \in [Tasks -> Task] /\ Walking'
             /\ task'[Consumer].at # "save"
             /\ Handled' = Handled + 1 /\ Handled' = pos
  <2> DEFINE p == [w EXCEPT !.at = "push"]
  <2>a. p \in Task /\ p.at = "push"
    <3> HIDE DEF w
    <3> QED
      BY <1>2 DEF Task
  <2>b. Resting("waiting") \in Task /\ Resting("waiting").at = "waiting"
    BY RestingOK
  <2>1. v \in Task /\ v.at \in {"push", "waiting"}
    BY <2>a, <2>b
  <2>2. /\ task' \in [Tasks -> Task] /\ Walking' /\ task'[Consumer] = v
    BY <1>2, <1>3, <2>1, PlaceTaken
  <2> QED
    BY <1>1, <1>2, <2>1, <2>2 DEF Handled
<1>4. PICK v \in {[w EXCEPT !.at = "push"], Resting("waiting")} :
         task' = [task EXCEPT ![Consumer] = v]
  BY DEF Save
<1>5. /\ task' \in [Tasks -> Task] /\ Walking' /\ task'[Consumer].at # "save"
      /\ Handled' = Handled + 1 /\ Handled' = pos
  BY <1>3, <1>4
<1>6. CASE notices' = Append(notices, Unread(w.user, pos)) /\ lost' = lost
  <2>1. notices' \in Seq(Notification)
    BY <1>2, <1>6, StoredRow
  <2>2. DInv'
    BY <1>1, <1>5, <1>6, <2>1 DEF DInv, TypeOK, Saving, registry, counters
  <2>3. Seen!Deliver
    <3>1. Seen!Advance
      BY <1>1, <1>2, <1>5 DEF Seen!Advance
    <3>2. Unread(w.user, pos) = Seen!Unread(log[Handled'], Handled')
      BY <1>2, <1>5 DEF Seen!Unread, Unread
    <3> QED
      BY <1>2, <1>5, <1>6, <3>1, <3>2 DEF Seen!Deliver
  <2> QED
    BY <1>1, <1>5, <2>2, <2>3, HandledOK DEF Shows, Seen!Next, Seen!Take, counters
<1>7. CASE notices' = notices /\ lost' = lost \cup {pos}
  <2>1. DInv'
    BY <1>1, <1>2, <1>5, <1>7 DEF DInv, TypeOK, Saving, registry, counters
  <2>2. Seen!Lose
    BY <1>1, <1>2, <1>5, <1>7 DEF Seen!Lose, Seen!Advance
  <2> QED
    BY <1>1, <1>5, <2>1, <2>2, HandledOK DEF Shows, Seen!Next, Seen!Take, counters
<1> QED
  BY <1>6, <1>7 DEF Save

LEMMA EmitStep ==
    ASSUME DInv, NEW t \in Emitters, NEW u \in Users, Emit(t, u)
    PROVE  DInv' /\ Shows
<1> DEFINE w == [Resting("push") EXCEPT !.user = u]
<1>1. /\ requests < MaxRequests /\ requests' = requests + 1
      /\ notices' = Append(notices, Unread(u, 0))
      /\ task' = [task EXCEPT ![t] = w]
      /\ UNCHANGED <<logVars, client, registry, restarts>>
  BY DEF Emit, Serve
<1>2. t \in Tasks /\ Consumer \in Tasks \ {t}
  BY ConstantsOK DEF Tasks
<1>3. w \in Task /\ w.at = "push"
  BY RestingOK DEF Resting
<1>4. task' \in [Tasks -> Task] /\ Walking' /\ task'[Consumer] = task[Consumer]
  BY <1>1, <1>2, <1>3, PlaceTaken
<1>5. notices' \in Seq(Notification)
  BY <1>1, StoredRow
<1>6. requests' \in 0..MaxRequests
  BY <1>1, ConstantsOK DEF DInv, TypeOK
<1>7. DInv'
  BY <1>1, <1>4, <1>5, <1>6 DEF DInv, TypeOK, Saving, logVars, registry
<1>8. Handled' = Handled
  BY <1>1, <1>4 DEF Handled, logVars
<1>9. Seen!Emit
  BY <1>1, <1>8 DEF Seen!Emit, Seen!Unread, Unread, logVars
<1> QED
  BY <1>1, <1>7, <1>8, <1>9, HandledOK DEF Shows, Seen!Next

\* Marking rows of one user.
LEMMA ReadStep ==
    ASSUME DInv, NEW u \in Users, NEW S \in SUBSET {k \in DOMAIN notices : notices[k].user = u},
           Serve, notices' = AsRead(S),
           UNCHANGED <<logVars, task, client, registry, restarts>>
    PROVE  DInv' /\ Shows
<1>1. notices' \in Seq(Notification)
  <2>1. DOMAIN notices = 1..Len(notices) /\ Len(notices) \in Nat
    BY DEF DInv, TypeOK
  <2>2. \A k \in DOMAIN notices : notices[k] \in Notification
    BY DEF DInv, TypeOK
  <2>3. \A k \in DOMAIN notices : AsRead(S)[k] \in Notification
    BY <2>2 DEF AsRead, Notification
  <2>4. AsRead(S) \in [1..Len(notices) -> Notification]
    BY <2>1, <2>3 DEF AsRead
  <2> QED
    BY <2>1, <2>4
<1>2. requests' \in 0..MaxRequests
  BY ConstantsOK DEF Serve, DInv, TypeOK
<1>3. DInv'
  BY <1>1, <1>2 DEF DInv, TypeOK, Saving, Walking, logVars, registry
<1>4. Handled' = Handled
  BY DEF Handled, logVars
<1>5. notices' = Seen!AsRead(S)
  BY DEF AsRead, Seen!AsRead
<1>6. Seen!MarkRead
  BY <1>4, <1>5 DEF Seen!MarkRead, logVars
<1> QED
  BY <1>3, <1>4, <1>6, HandledOK DEF Shows, Seen!Next

LEMMA MarkReadStep ==
    ASSUME DInv, NEW u \in Users, NEW k \in DOMAIN notices, MarkRead(u, k)
    PROVE  DInv' /\ Shows
<1>1. {k} \in SUBSET {j \in DOMAIN notices : notices[j].user = u}
  BY DEF MarkRead
<1> QED
  BY <1>1, ReadStep DEF MarkRead

LEMMA MarkAllReadStep ==
    ASSUME DInv, NEW u \in Users, MarkAllRead(u)
    PROVE  DInv' /\ Shows
  BY ReadStep DEF MarkAllRead

LEMMA RestartStep == ASSUME DInv, Restart PROVE DInv' /\ Shows
<1>1. /\ restarts < MaxRestarts /\ restarts' = restarts + 1
      /\ committed' \in committed..pos /\ pos' = committed'
      /\ lost' = IF task[Consumer].at = "save" /\ pos' = pos THEN lost \cup {pos} ELSE lost
      /\ task' = [t \in Tasks |-> Resting(IF t = Consumer THEN "starting" ELSE "waiting")]
      /\ UNCHANGED <<log, notices, requests>>
  BY DEF Restart
<1>2. /\ Len(log) \in Nat /\ pos \in 0..Len(log) /\ committed \in 0..pos
      /\ pos' \in 0..pos /\ pos' \in 0..Len(log) /\ committed' \in 0..pos'
  BY <1>1 DEF DInv, TypeOK
<1>3. /\ Resting("starting") \in Task /\ Resting("starting").at = "starting"
      /\ Resting("waiting") \in Task /\ Resting("waiting").at = "waiting"
      /\ Consumer \in Tasks
  BY RestingOK DEF Tasks
<1>4. task' \in [Tasks -> Task] /\ task'[Consumer].at = "starting"
  BY <1>1, <1>3
<1>5. Walking'
  BY <1>1, <1>3 DEF Walking, Standing
<1>6. client' \in [Sockets -> Client]
  BY DEF Restart, DInv, TypeOK, Client, Gone
<1>7. listed' \in [Users -> SUBSET Sockets] /\ stamp' \in [Users -> Sockets \cup {0}]
      /\ torn' \subseteq Users
  BY DEF Restart
<1>8. lost' \subseteq 1..Len(log')
  BY <1>1 DEF DInv, TypeOK, Saving
<1>9. restarts' \in 0..MaxRestarts
  BY <1>1, ConstantsOK DEF DInv, TypeOK
<1>10. DInv'
  BY <1>1, <1>2, <1>4, <1>5, <1>6, <1>7, <1>8, <1>9 DEF DInv, TypeOK, Saving
<1>11. Handled' = pos'
  BY <1>4 DEF Handled
<1>12. CASE task[Consumer].at = "save" /\ pos' = pos
  <2>1. Handled = pos - 1 /\ pos \in 1..Len(log) /\ log[pos] \in Users
    BY <1>12 DEF Handled, DInv, Saving
  <2>2. Seen!Lose
    BY <1>1, <1>2, <1>11, <1>12, <2>1 DEF Seen!Lose, Seen!Advance
  <2> QED
    BY <1>1, <1>10, <2>2, HandledOK DEF Shows, Seen!Next, Seen!Take
<1>13. CASE ~(task[Consumer].at = "save" /\ pos' = pos)
  <2>1. Handled' \in 0..Handled /\ lost' = lost
    <3>1. CASE task[Consumer].at = "save"
      <4>1. pos' # pos
        BY <1>13, <3>1
      <4>2. pos' \in 0..(pos - 1)
        BY <1>2, <4>1
      <4>3. Handled = pos - 1
        BY <3>1 DEF Handled
      <4> QED
        BY <1>1, <1>11, <4>1, <4>2, <4>3
    <3>2. CASE task[Consumer].at # "save"
      BY <1>1, <1>2, <1>11, <3>2 DEF Handled
    <3> QED
      BY <3>1, <3>2
  <2>2. Seen!SetBack
    BY <1>1, <2>1 DEF Seen!SetBack
  <2> QED
    BY <1>1, <1>10, <2>2, HandledOK DEF Shows, Seen!Next
<1> QED
  BY <1>12, <1>13

-----------------------------------------------------------------------------
LEMMA InitStep == Init => DInv /\ Seen!Init
<1> SUFFICES ASSUME Init PROVE DInv /\ Seen!Init
  OBVIOUS
<1>1. /\ Resting("starting") \in Task /\ Resting("starting").at = "starting"
      /\ Resting("waiting") \in Task /\ Resting("waiting").at = "waiting"
      /\ Consumer \in Tasks
  BY RestingOK DEF Tasks
<1>2. task \in [Tasks -> Task] /\ task[Consumer].at = "starting" /\ Walking
  BY <1>1 DEF Init, Walking, Standing
<1>3. TypeOK
  BY <1>2, ConstantsOK DEF Init, TypeOK, Client
<1>4. Saving
  BY <1>2 DEF Saving
<1>5. Handled = 0
  BY <1>2 DEF Handled, Init
<1> QED
  BY <1>2, <1>3, <1>4, <1>5 DEF DInv, Init, Seen!Init

LEMMA NextStep == ASSUME DInv, Next PROVE DInv' /\ Shows
<1> USE DEF Tasks
<1>1. ASSUME NEW e \in Users \cup {Everyone, Nobody}, Publish(e) PROVE DInv' /\ Shows
  BY <1>1, PublishStep
<1>2. ASSUME NEW u \in Users, NEW s \in Sockets, Connect(u, s) PROVE DInv' /\ Shows
  BY <1>2, ConnectStep
<1>3. ASSUME NEW s \in Sockets, Break(s) \/ Disconnect(s) PROVE DInv' /\ Shows
  BY <1>3, BreakStep, DisconnectStep
<1>4. ASSUME NEW t \in Tasks, Proceed(t) PROVE DInv' /\ Shows
  BY <1>4, PushStep, SendDoneStep DEF Proceed
<1>5. CASE Consume
  BY <1>4, <1>5, StartStep, FetchStep, SaveStep DEF Consume
<1>6. ASSUME NEW t \in Emitters, Proceed(t) \/ \E u \in Users : Emit(t, u) PROVE DInv' /\ Shows
  BY <1>4, <1>6, EmitStep
<1>7. ASSUME NEW u \in Users, MarkAllRead(u) \/ \E k \in DOMAIN notices : MarkRead(u, k)
      PROVE  DInv' /\ Shows
  BY <1>7, MarkAllReadStep, MarkReadStep
<1>8. CASE Restart
  BY <1>8, RestartStep
<1> QED
  BY <1>1, <1>2, <1>3, <1>5, <1>6, <1>7, <1>8 DEF Next

LEMMA StutterStep == ASSUME DInv, UNCHANGED vars PROVE DInv' /\ UNCHANGED Seen!vars
  BY DEF DInv, TypeOK, Saving, Walking, vars, Seen!vars, Handled

\* Sockets, walks, offsets and rows stay what they are meant to be, and the
\* consumer's place agrees with its position, whatever overlaps or fails.
THEOREM DeliveryTypes == Spec => []TypeOK
<1>1. Init => DInv
  BY InitStep
<1>2. DInv /\ [Next]_vars => DInv'
  BY NextStep, StutterStep
<1>3. DInv => TypeOK
  BY DEF DInv
<1> QED
  BY <1>1, <1>2, <1>3, PTL DEF Spec

\* Every step of the service, seen from the log and the table of notifications,
\* is a step of Inbox or none at all (the safety part of RefinesInbox).
THEOREM DeliveryIsAnInbox == Spec => Seen!Spec
<1>1. Init => DInv /\ Seen!Init
  BY InitStep
<1>2. DInv /\ [Next]_vars => DInv' /\ [Seen!Next]_(Seen!vars)
  BY NextStep, StutterStep DEF Shows
<1> QED
  BY <1>1, <1>2, PTL DEF Spec, Seen!Spec

-----------------------------------------------------------------------------
(* What Inbox keeps, and the count of the rows of one notice.              *)

Promise == INSTANCE InboxProofs WITH Others <- {Everyone, Nobody}, upto <- Handled,
                                     table <- notices

LEMMA SameSteps ==
    /\ Seen!Init => Promise!Init
    /\ [Seen!Next]_(Seen!vars) => [Promise!Next]_(Promise!vars)
<1>1. Seen!Init => Promise!Init
  BY DEF Seen!Init, Promise!Init
<1>2. Seen!Publish => Promise!Publish
  BY DEF Seen!Publish, Promise!Publish
<1>3. Seen!Take => Promise!Take
  BY DEF Seen!Take, Promise!Take, Seen!Deliver, Promise!Deliver, Seen!Pass, Promise!Pass,
         Seen!Lose, Promise!Lose, Seen!Advance, Promise!Advance, Seen!Unread, Promise!Unread
<1>4. Seen!SetBack => Promise!SetBack
  BY DEF Seen!SetBack, Promise!SetBack
<1>5. Seen!Emit => Promise!Emit
  BY DEF Seen!Emit, Promise!Emit, Seen!Unread, Promise!Unread
<1>6. Seen!MarkRead => Promise!MarkRead
  BY DEF Seen!MarkRead, Promise!MarkRead, Seen!AsRead, Promise!AsRead
<1>7. UNCHANGED Seen!vars => UNCHANGED Promise!vars
  BY DEF Seen!vars, Promise!vars
<1> QED
  BY <1>1, <1>2, <1>3, <1>4, <1>5, <1>6, <1>7 DEF Seen!Next, Promise!Next

RowsOf(i) == {k \in DOMAIN notices : notices[k].origin = i}

\* Before the consumer reaches a notice in this run it was stored at most once
\* per earlier run; once it has passed it, one more time.
Counted ==
    \A i \in 1..Len(log) :
        Cardinality(RowsOf(i)) <= restarts + (IF i <= Handled THEN 1 ELSE 0)

CInv == DInv /\ Promise!IInv /\ Counted

LEMMA RowsFinite ==
    ASSUME DInv, NEW i
    PROVE  IsFiniteSet(RowsOf(i)) /\ Cardinality(RowsOf(i)) \in Nat
<1>1. DOMAIN notices = 1..Len(notices) /\ Len(notices) \in Nat
  BY DEF DInv, TypeOK
<1>2. IsFiniteSet(DOMAIN notices)
  BY <1>1, FS_Interval
<1>3. RowsOf(i) \subseteq DOMAIN notices
  BY DEF RowsOf
<1>4. IsFiniteSet(RowsOf(i))
  BY <1>2, <1>3, FS_Subset
<1> QED
  BY <1>4, FS_CardinalityType

LEMMA OneLess == ASSUME NEW n \in Nat, NEW p \in 1..n PROVE p - 1 \in 0..n
  OBVIOUS

LEMMA NoneIsFew == ASSUME NEW c, c = 0, NEW n \in Nat, NEW d \in {0, 1} PROVE c <= n + d
  OBVIOUS

LEMMA SameRowsCounted ==
    ASSUME DInv, Counted, Shows, DInv',
           \A i \in 1..Len(log') : i \in 1..Len(log) /\ RowsOf(i)' = RowsOf(i)
    PROVE  Counted'
<1> SUFFICES ASSUME NEW i \in 1..Len(log')
             PROVE  Cardinality(RowsOf(i)') <= restarts' + (IF i <= Handled' THEN 1 ELSE 0)
  BY DEF Counted
<1>1. i \in 1..Len(log) /\ RowsOf(i)' = RowsOf(i)
  OBVIOUS
<1>2. Cardinality(RowsOf(i)) <= restarts + (IF i <= Handled THEN 1 ELSE 0)
  BY <1>1 DEF Counted
<1>3. Cardinality(RowsOf(i)) \in Nat
  BY RowsFinite
<1>4. Handled \in 0..Len(log) /\ Len(log) \in Nat /\ restarts \in Nat
  BY HandledOK
<1>5. Handled' \in 0..Len(log') /\ Len(log') \in Nat
  <2>1. /\ pos' \in 0..Len(log') /\ Len(log') \in Nat
        /\ task'[Consumer].at = "save" => pos' \in 1..Len(log')
    BY DEF DInv, TypeOK, Saving
  <2>2. CASE task'[Consumer].at = "save"
    <3>1. Handled' = pos' - 1
      BY <2>2 DEF Handled
    <3>2. pos' \in 1..Len(log')
      BY <2>1, <2>2
    <3>3. pos' - 1 \in 0..Len(log')
      BY <2>1, <3>2, OneLess
    <3> QED
      BY <2>1, <3>1, <3>3
  <2>3. CASE task'[Consumer].at # "save"
    BY <2>1, <2>3 DEF Handled
  <2> QED
    BY <2>2, <2>3
<1>6. CASE restarts' = restarts
  <2>1. Handled' >= Handled
    BY <1>6 DEF Shows
  <2> QED
    BY <1>1, <1>2, <1>3, <1>4, <1>5, <1>6, <2>1
<1>7. CASE restarts' = restarts + 1
  BY <1>1, <1>2, <1>3, <1>4, <1>5, <1>7
<1> QED
  BY <1>6, <1>7 DEF Shows

LEMMA RowAdded ==
    ASSUME DInv, NEW r \in Notification, notices' = Append(notices, r), NEW i
    PROVE  RowsOf(i)' = IF r.origin = i THEN RowsOf(i) \cup {Len(notices) + 1} ELSE RowsOf(i)
<1>1. /\ DOMAIN notices = 1..Len(notices) /\ Len(notices) \in Nat
      /\ DOMAIN notices' = 1..(Len(notices) + 1)
      /\ \A k \in 1..Len(notices) : notices'[k] = notices[k]
      /\ notices'[Len(notices) + 1] = r
  BY DEF DInv, TypeOK
<1>2. \A k \in DOMAIN notices' : k \in DOMAIN notices \/ k = Len(notices) + 1
  BY <1>1
<1>3. DOMAIN notices \subseteq DOMAIN notices' /\ Len(notices) + 1 \in DOMAIN notices'
  BY <1>1
<1> QED
  BY <1>1, <1>2, <1>3 DEF RowsOf

LEMMA CountedStep ==
    ASSUME CInv, Shows, DInv'
    PROVE  Counted'
<1>0. Handled \in 0..Len(log) /\ Len(log) \in Nat /\ restarts \in Nat
  BY HandledOK DEF CInv
<1>1. CASE Seen!Publish
  <2>1. PICK e \in Users \cup {Everyone, Nobody} : log' = Append(log, e)
    BY <1>1 DEF Seen!Publish
  <2>2. Len(log') = Len(log) + 1
    BY <2>1 DEF CInv, DInv, TypeOK
  <2>3. \A i : RowsOf(i)' = RowsOf(i)
    BY <1>1 DEF Seen!Publish, RowsOf
  <2>4. Handled' = Handled
    BY <1>1 DEF Seen!Publish
  <2>5. ASSUME NEW i \in 1..Len(log')
        PROVE  Cardinality(RowsOf(i)') <= restarts' + (IF i <= Handled' THEN 1 ELSE 0)
    <3>1. CASE i \in 1..Len(log)
      <4>1. Cardinality(RowsOf(i)) <= restarts + (IF i <= Handled THEN 1 ELSE 0)
        BY <3>1 DEF CInv, Counted
      <4>2. Cardinality(RowsOf(i)) \in Nat
        BY RowsFinite DEF CInv
      <4> QED
        BY <1>0, <2>3, <2>4, <4>1, <4>2 DEF Shows
    <3>2. CASE i = Len(log) + 1
      <4>1. RowsOf(i) = {}
        <5>1. \A k \in DOMAIN notices :
                 notices[k].origin # 0 => notices[k].origin \in 1..Len(log)
          BY DEF CInv, Promise!IInv, Promise!Kept
        <5> QED
          BY <1>0, <3>2, <5>1 DEF RowsOf
      <4>2. Cardinality(RowsOf(i)') = 0
        BY <2>3, <4>1, FS_EmptySet
      <4>3. restarts' \in Nat
        BY <1>0 DEF Shows
      <4>4. (IF i <= Handled' THEN 1 ELSE 0) \in {0, 1}
        OBVIOUS
      <4> QED
        BY <4>2, <4>3, <4>4, NoneIsFew
    <3> QED
      BY <1>0, <2>2, <3>1, <3>2
  <2> QED
    BY <2>5 DEF Counted
<1>2. CASE Seen!Deliver
  <2> DEFINE r == Seen!Unread(log[Handled'], Handled')
  <2>1. /\ Handled < Len(log) /\ Handled' = Handled + 1 /\ log' = log
        /\ notices' = Append(notices, r) /\ log[Handled'] \in Users
    BY <1>2 DEF Seen!Deliver, Seen!Advance
  <2>2. r \in Notification /\ r.origin = Handled'
    BY <1>0, <2>1 DEF Seen!Unread, Notification
  <2> HIDE DEF r
  <2>3. \A i : RowsOf(i)' = IF Handled' = i THEN RowsOf(i) \cup {Len(notices) + 1} ELSE RowsOf(i)
    BY <2>1, <2>2, RowAdded DEF CInv
  <2>4. restarts' >= restarts /\ restarts' \in Nat
    BY <1>0 DEF Shows
  <2>5. ASSUME NEW i \in 1..Len(log')
        PROVE  Cardinality(RowsOf(i)') <= restarts' + (IF i <= Handled' THEN 1 ELSE 0)
    <3>1. /\ Cardinality(RowsOf(i)) <= restarts + (IF i <= Handled THEN 1 ELSE 0)
          /\ i \in 1..Len(log)
      BY <2>1 DEF CInv, Counted
    <3>2. Cardinality(RowsOf(i)) \in Nat /\ IsFiniteSet(RowsOf(i))
      BY RowsFinite DEF CInv
    <3>3. CASE i = Handled'
      <4>1. RowsOf(i)' = RowsOf(i) \cup {Len(notices) + 1}
        BY <2>3, <3>3
      <4> DEFINE S == RowsOf(i)
                 x == Len(notices) + 1
      <4>2. Cardinality(S \cup {x}) \in {Cardinality(S), Cardinality(S) + 1}
        <5>1. IsFiniteSet(S)
          BY <3>2
        <5> HIDE DEF S, x
        <5> QED
          BY <5>1, FS_AddElement
      <4>3. Cardinality(RowsOf(i)) <= restarts
        BY <1>0, <2>1, <3>1, <3>3
      <4>4. Cardinality(RowsOf(i)') <= restarts + 1
        <5> HIDE DEF S, x
        <5>1. Cardinality(S) <= restarts /\ Cardinality(S) \in Nat
          BY <3>2, <4>3 DEF S
        <5>2. RowsOf(i)' = S \cup {x}
          BY <4>1 DEF S, x
        <5> QED
          BY <1>0, <4>2, <5>1, <5>2
      <4> QED
        <5>1. (IF i <= Handled' THEN 1 ELSE 0) = 1
          BY <1>0, <2>1, <3>3
        <5>2. Cardinality(RowsOf(i)') \in Nat
          BY <3>2, <4>1, <4>2
        <5> QED
          BY <1>0, <2>4, <4>4, <5>1, <5>2
    <3>4. CASE i # Handled'
      <4>1. RowsOf(i)' = RowsOf(i)
        BY <2>3, <3>4
      <4> QED
        BY <1>0, <2>1, <2>4, <3>1, <3>2, <3>4, <4>1
    <3> QED
      BY <3>3, <3>4
  <2> QED
    BY <2>5 DEF Counted
<1>3. CASE Seen!Pass \/ Seen!Lose \/ Seen!SetBack \/ UNCHANGED Seen!vars
  <2>1. log' = log /\ notices' = notices
    BY <1>3 DEF Seen!Pass, Seen!Lose, Seen!Advance, Seen!SetBack, Seen!vars
  <2>2. \A i : RowsOf(i)' = RowsOf(i)
    BY <2>1 DEF RowsOf
  <2> QED
    BY <2>1, <2>2, SameRowsCounted DEF CInv
<1>4. CASE Seen!Emit
  <2>1. PICK u \in Users : notices' = Append(notices, Seen!Unread(u, 0))
    BY <1>4 DEF Seen!Emit
  <2>2. Seen!Unread(u, 0) \in Notification /\ Seen!Unread(u, 0).origin = 0
    BY DEF Seen!Unread, Notification
  <2>3. \A i \in 1..Len(log) : RowsOf(i)' = RowsOf(i)
    BY <1>0, <2>1, <2>2, RowAdded DEF CInv
  <2>4. log' = log
    BY <1>4 DEF Seen!Emit
  <2> QED
    BY <2>3, <2>4, SameRowsCounted DEF CInv
<1>5. CASE Seen!MarkRead
  <2>1. PICK S \in SUBSET DOMAIN notices : notices' = Promise!AsRead(S)
    BY <1>5 DEF Seen!MarkRead, Seen!AsRead, Promise!AsRead
  <2>2. /\ DOMAIN notices' = DOMAIN notices
        /\ \A k \in DOMAIN notices : notices'[k].origin = notices[k].origin
    BY <2>1, Promise!MarkedRows DEF CInv, Promise!IInv
  <2>3. \A i : RowsOf(i)' = RowsOf(i)
    BY <2>2 DEF RowsOf
  <2>4. log' = log
    BY <1>5 DEF Seen!MarkRead
  <2> QED
    BY <2>3, <2>4, SameRowsCounted DEF CInv
<1> QED
  BY <1>1, <1>2, <1>3, <1>4, <1>5 DEF Shows, Seen!Next, Seen!Take

LEMMA CInvStarts == Init => CInv
<1> SUFFICES ASSUME Init PROVE CInv
  OBVIOUS
<1>1. DInv /\ Promise!IInv
  BY InitStep, SameSteps, Promise!InitKeeps
<1>2. Len(log) = 0
  BY DEF Init
<1>3. Counted
  BY <1>2 DEF Counted
<1> QED
  BY <1>1, <1>3 DEF CInv

LEMMA CInvStays == CInv /\ [Next]_vars => CInv'
<1> SUFFICES ASSUME CInv, [Next]_vars PROVE CInv'
  OBVIOUS
<1>1. CASE Next
  <2>1. DInv' /\ Shows
    BY <1>1, NextStep DEF CInv
  <2>2. Promise!IInv'
    BY <2>1, SameSteps, Promise!NextKeeps DEF CInv, Shows
  <2> QED
    BY <2>1, <2>2, CountedStep DEF CInv
<1>2. CASE UNCHANGED vars
  <2>1. DInv' /\ UNCHANGED Seen!vars
    BY <1>2, StutterStep DEF CInv
  <2>2. Promise!IInv'
    BY <2>1, SameSteps, Promise!NextKeeps DEF CInv
  <2>3. \A i : RowsOf(i)' = RowsOf(i)
    BY <1>2 DEF vars, RowsOf
  <2>4. Handled' = Handled /\ log' = log /\ restarts' = restarts
    BY <1>2 DEF vars, Handled
  <2>5. Counted'
    BY <2>3, <2>4 DEF CInv, Counted
  <2> QED
    BY <2>1, <2>2, <2>5 DEF CInv
<1> QED
  BY <1>1, <1>2

\* Each notice the consumer has passed is stored for the person it is for, or was
\* lost to a failed commit or to a restart that counted it as done.
THEOREM DeliveryKeepsNotices == Spec => []NothingSkipped
<1>1. CInv => NothingSkipped
  BY DEF CInv, NothingSkipped, Promise!IInv, Promise!Kept, Seen!Kept
<1> QED
  BY <1>1, CInvStarts, CInvStays, PTL DEF Spec

\* A notice is stored at most once per run of the service.
THEOREM NoticesOncePerRun == Spec => []OncePerRun
<1>1. CInv => OncePerRun
  <2> SUFFICES ASSUME CInv, NEW i \in 1..Len(log)
               PROVE  Cardinality(RowsOf(i)) <= restarts + 1
    BY DEF OncePerRun, RowsOf
  <2>1. Cardinality(RowsOf(i)) <= restarts + (IF i <= Handled THEN 1 ELSE 0)
    BY DEF CInv, Counted
  <2>2. Cardinality(RowsOf(i)) \in Nat /\ restarts \in Nat
    BY RowsFinite, HandledOK DEF CInv
  <2> QED
    BY <2>1, <2>2
<1> QED
  BY <1>1, CInvStarts, CInvStays, PTL DEF Spec

-----------------------------------------------------------------------------
(* The registry.  A walk and its list of dead sockets hold on to pairs of  *)
(* a user and a socket while everything else moves on; what they hold      *)
(* stays a socket of that user, or one that is gone.  (c stands for client *)
(* in one state or the next.)                                              *)

Known(c, u, s) == \/ c[s].link \in {"open", "broken"} /\ c[s].user = u
                  \/ c[s].link = "gone"
HoldsDead(c, w) ==
    \A k \in DOMAIN w.dead :
        /\ Known(c, w.dead[k][1], w.dead[k][2])
        /\ c[w.dead[k][2]].link # "open"
        /\ w.scope = "one" => w.dead[k][1] = w.user
Holds(c, w) == w.at = "send" => Known(c, w.user, w.sending) /\ HoldsDead(c, w)

RInv ==
    /\ \A s \in Sockets : client[s].link = "open" => client[s].user \in Users
    /\ RegistryIsTrue
    /\ GhostsAreTorn
    /\ \A t \in Tasks : Holds(client, task[t])

LEMMA FeltSame ==
    ASSUME TypeOK, NEW l, NEW st, NEW t \in Tasks
    PROVE  LET f == Felt(l, st)[t] IN
           /\ f.at = task[t].at /\ f.user = task[t].user /\ f.sending = task[t].sending
           /\ f.dead = task[t].dead /\ f.scope = task[t].scope
<1>1. task[t] \in Task
  BY DEF TypeOK
<1> DEFINE b == task[t].disturbed \/ Disturbs(task[t], l, st)
<1>2. Felt(l, st)[t] = [task[t] EXCEPT !.disturbed = b]
  BY DEF Felt
<1> HIDE DEF b
<1> QED
  BY <1>1, <1>2 DEF Task

\* How a connection may change under a walk.
ClientsMoveOn ==
    \A s \in Sockets :
        \/ client'[s] = client[s]
        \/ client[s].link = "new"
        \/ client[s].link = "open" /\ client'[s].link = "broken" /\ client'[s].user = client[s].user
        \/ client'[s].link = "gone"

LEMMA HoldsOn ==
    ASSUME TypeOK, ClientsMoveOn, NEW w \in Task, Holds(client, w), Standing(w),
           NEW v, v.at = w.at, v.user = w.user, v.sending = w.sending, v.dead = w.dead,
           v.scope = w.scope
    PROVE  Holds(client', v)
<1>1. SUFFICES ASSUME w.at = "send" PROVE Holds(client', v)
  BY DEF Holds
<1>2. w.user \in Users /\ w.sending \in Sockets
  BY <1>1 DEF Standing
<1>3. ASSUME NEW u, NEW s \in Sockets, Known(client, u, s)
      PROVE  /\ Known(client', u, s)
             /\ client[s].link # "open" => client'[s].link # "open"
  BY <1>3 DEF Known, ClientsMoveOn
<1>4. Known(client', w.user, w.sending)
  BY <1>1, <1>2, <1>3 DEF Holds
<1>5. ASSUME NEW k \in DOMAIN w.dead
      PROVE  /\ Known(client', w.dead[k][1], w.dead[k][2])
             /\ client'[w.dead[k][2]].link # "open"
             /\ w.scope = "one" => w.dead[k][1] = w.user
  <2>1. w.dead[k][2] \in Sockets
    BY DEF Task
  <2> QED
    BY <1>1, <1>3, <2>1 DEF Holds, HoldsDead
<1> QED
  BY <1>4, <1>5 DEF Holds, HoldsDead

LEMMA FeltHolds ==
    ASSUME DInv, RInv, ClientsMoveOn, NEW l, NEW st, NEW t \in Tasks
    PROVE  Holds(client', Felt(l, st)[t])
<1>1. task[t] \in Task /\ Standing(task[t]) /\ Holds(client, task[t])
  BY DEF DInv, TypeOK, Walking, RInv
<1>2. LET f == Felt(l, st)[t] IN
        /\ f.at = task[t].at /\ f.user = task[t].user /\ f.sending = task[t].sending
        /\ f.dead = task[t].dead /\ f.scope = task[t].scope
  BY FeltSame DEF DInv
<1> DEFINE f == Felt(l, st)[t]
<1>3. /\ f.at = task[t].at /\ f.user = task[t].user /\ f.sending = task[t].sending
      /\ f.dead = task[t].dead /\ f.scope = task[t].scope
  BY <1>2
<1> HIDE DEF f
<1>4. Holds(client', f)
  BY <1>1, <1>3, HoldsOn DEF DInv
<1> QED
  BY <1>4 DEF f

LEMMA RestHolds == ASSUME NEW c, NEW w, w.at # "send" PROVE Holds(c, w)
  BY DEF Holds

-----------------------------------------------------------------------------
(* Steps of a walk.                                                        *)

LEMMA OnwardHolds ==
    ASSUME TypeOK, RegistryIsTrue, NEW w \in Task, HoldsDead(client, w), NEW v \in Onward(w)
    PROVE  Holds(client, v)
<1>1. ASSUME NEW u \in Users, NEW s \in listed[u] PROVE Known(client, u, s)
  BY DEF RegistryIsTrue, Known, TypeOK
<1>2. CASE w.index < Cardinality(ListOf(w))
  <2>1. PICK s \in ListOf(w) : v = [w EXCEPT !.index = w.index + 1, !.sending = s]
    BY <1>2 DEF Onward, Nth
  <2>2. w.user \in Users /\ s \in listed[w.user]
    BY <2>1 DEF ListOf
  <2>3. v.user = w.user /\ v.sending = s /\ v.dead = w.dead /\ v.scope = w.scope
    BY <2>1 DEF Task
  <2> QED
    BY <1>1, <2>2, <2>3 DEF Holds, HoldsDead
<1>3. CASE ~(w.index < Cardinality(ListOf(w)))
  <2> DEFINE Sends(u) == {[w EXCEPT !.user = u, !.stamp = stamp[u], !.index = 1,
                                    !.left = w.left - Steps(w, u), !.sending = s] :
                            s \in Nth(listed[u], 1)}
  <2>1. v \in UNION {Sends(u) : u \in NextEntry(w)} /\ w.scope = "all"
    BY <1>3 DEF Onward
  <2>2. PICK u \in NextEntry(w) : v \in Sends(u)
    <3> HIDE DEF Sends
    <3> QED
      BY <2>1
  <2>3. PICK s \in listed[u] :
           v = [w EXCEPT !.user = u, !.stamp = stamp[u], !.index = 1,
                         !.left = w.left - Steps(w, u), !.sending = s]
    BY <2>2 DEF Nth
  <2>4. u \in Users
    BY DEF NextEntry, Later, Online
  <2>5. v.user = u /\ v.sending = s /\ v.dead = w.dead /\ v.scope = w.scope
    BY <2>3 DEF Task
  <2> QED
    BY <1>1, <2>1, <2>4, <2>5 DEF Holds, HoldsDead
<1> QED
  BY <1>2, <1>3

LEMMA SameClients == ASSUME client' = client PROVE ClientsMoveOn
  BY DEF ClientsMoveOn

\* The clean-up removes what failed, and an entry only with its last tab.
LEMMA CleanUpKeepsRegistry ==
    ASSUME DInv, RInv, client' = client, NEW t \in Tasks, NEW w \in Task,
           HoldsDead(client, w), CleanUp(t, w)
    PROVE  RInv'
<1> DEFINE l == [u \in Users |-> listed[u] \ Cleared(w)]
           emptied == {u \in Online :
                      /\ l[u] = {}
                      /\ \/ w.scope = "all" /\ listed[u] # {}
                         \/ w.scope = "one" /\ u = w.user /\ ~CutShort(w)}
           st == [u \in Users |-> IF u \in emptied THEN 0 ELSE stamp[u]]
<1>1. /\ listed' = l /\ stamp' = st
      /\ torn' = torn \cup {u \in Online : /\ w.scope = "one" /\ u = w.user
                                           /\ CutShort(w) /\ l[u] = {}}
      /\ task' = [Felt(l, st) EXCEPT ![t] = Resting("waiting")]
  BY DEF CleanUp
<1>2. ASSUME NEW s \in Cleared(w)
      PROVE  /\ client[s].link # "open"
             /\ \A u \in Users : s \in listed[u] /\ w.scope = "one" => u = w.user
  <2>1. PICK k \in DOMAIN w.dead : s = w.dead[k][2]
    BY DEF Cleared
  <2>2. /\ Known(client, w.dead[k][1], s) /\ client[s].link # "open"
        /\ w.scope = "one" => w.dead[k][1] = w.user
    BY <2>1 DEF HoldsDead
  <2>3. s \in Sockets
    BY <2>1 DEF Task
  <2> QED
    BY <2>2, <2>3 DEF Known, RInv, RegistryIsTrue
<1>3. \A u \in Users : l[u] = listed[u] \ Cleared(w)
  OBVIOUS
<1>4. \A u \in Users : stamp'[u] # 0 => stamp[u] # 0 /\ u \notin emptied
  BY <1>1
<1>5. \A u \in Users : l[u] # {} => stamp'[u] = stamp[u]
  BY <1>1
<1>6. RegistryIsTrue'
  <2> SUFFICES ASSUME NEW s \in Sockets
               PROVE  /\ client[s].link = "open" => s \in listed'[client[s].user]
                      /\ \A u \in Users : s \in listed'[u] =>
                            /\ client[s].user = u
                            /\ client[s].link \in {"open", "broken"}
                            /\ stamp'[u] # 0
    BY DEF RegistryIsTrue, Online
  <2>1. ASSUME client[s].link = "open" PROVE s \in listed'[client[s].user]
    <3>1. s \in listed[client[s].user] /\ s \notin Cleared(w)
      BY <1>2, <2>1 DEF RInv, RegistryIsTrue
    <3>2. client[s].user \in Users
      BY <2>1 DEF RInv
    <3> QED
      BY <1>1, <1>3, <3>1, <3>2
  <2>2. ASSUME NEW u \in Users, s \in listed'[u]
        PROVE  client[s].user = u /\ client[s].link \in {"open", "broken"} /\ stamp'[u] # 0
    <3>1. s \in listed[u] /\ l[u] # {}
      BY <1>1, <1>3, <2>2
    <3> QED
      BY <1>5, <3>1 DEF RInv, RegistryIsTrue, Online
  <2> QED
    BY <2>1, <2>2
<1>7. GhostsAreTorn'
  <2> SUFFICES ASSUME NEW u \in Users, stamp'[u] # 0, listed'[u] = {}
               PROVE  u \in torn'
    BY DEF GhostsAreTorn, Online
  <2>1. stamp[u] # 0 /\ u \notin emptied /\ l[u] = {}
    BY <1>1, <1>4
  <2>2. CASE listed[u] = {}
    BY <1>1, <2>1, <2>2 DEF RInv, GhostsAreTorn, Online
  <2>3. CASE listed[u] # {}
    <3>1. PICK s \in Cleared(w) : s \in listed[u]
      BY <1>3, <2>1, <2>3
    <3>2. w.scope \in {"one", "all"} /\ u \in Online
      BY <2>1 DEF Task, Online
    <3>3. w.scope = "one"
      BY <2>1, <2>3, <3>2
    <3>4. u = w.user /\ CutShort(w)
      BY <1>2, <2>1, <3>1, <3>2, <3>3
    <3> QED
      BY <1>1, <2>1, <3>2, <3>3, <3>4
  <2> QED
    BY <2>2, <2>3
<1>8. ASSUME NEW x \in Tasks PROVE Holds(client', task'[x])
  <2> HIDE DEF l, st
  <2>1. Felt(l, st) \in [Tasks -> Task]
    BY FeltTypes DEF DInv
  <2>2. CASE x = t
    <3>1. task'[x] = Resting("waiting")
      BY <1>1, <2>1, <2>2
    <3> QED
      BY <3>1, RestingOK, RestHolds
  <2>3. CASE x # t
    <3>1. task'[x] = Felt(l, st)[x]
      BY <1>1, <2>1, <2>3
    <3> QED
      BY <3>1, FeltHolds, SameClients
  <2> QED
    BY <2>2, <2>3
<1> QED
  BY <1>6, <1>7, <1>8 DEF RInv

\* One coroutine moves to w; lists and connections stay.
LEMMA MoveKeepsRegistry ==
    ASSUME DInv, RInv, UNCHANGED <<client, registry>>, NEW t \in Tasks, NEW w,
           task' = [task EXCEPT ![t] = w], Holds(client, w)
    PROVE  RInv'
<1>1. task \in [Tasks -> Task]
  BY DEF DInv, TypeOK
<1>2. \A x \in Tasks : task'[x] = IF x = t THEN w ELSE task[x]
  BY <1>1
<1>3. \A x \in Tasks : Holds(client', task'[x])
  BY <1>2 DEF RInv
<1>4. RegistryIsTrue' /\ GhostsAreTorn'
  BY DEF RInv, RegistryIsTrue, GhostsAreTorn, Online, registry
<1> QED
  BY <1>3, <1>4 DEF RInv

LEMMA ContinueKeepsRegistry ==
    ASSUME DInv, RInv, client' = client, NEW t \in Tasks, NEW w \in Task,
           HoldsDead(client, w), Continue(t, w)
    PROVE  RInv'
<1>1. CASE (\E v \in Onward(w) : task' = [task EXCEPT ![t] = v]) /\ UNCHANGED registry
  <2>1. PICK v \in Onward(w) : task' = [task EXCEPT ![t] = v]
    BY <1>1
  <2>2. Holds(client, v)
    BY OnwardHolds DEF DInv, RInv
  <2> QED
    BY <1>1, <2>1, <2>2, MoveKeepsRegistry
<1>2. CASE task' = [task EXCEPT ![t] = Resting("waiting")] /\ UNCHANGED registry
  <2>1. Holds(client, Resting("waiting"))
    BY RestingOK, RestHolds
  <2> QED
    BY <1>2, <2>1, MoveKeepsRegistry
<1>3. CASE CleanUp(t, w)
  BY <1>3, CleanUpKeepsRegistry
<1> QED
  BY <1>1, <1>2, <1>3 DEF Continue

LEMMA NoneDead == ASSUME NEW c, NEW w, w.dead = <<>> PROVE HoldsDead(c, w)
  BY DEF HoldsDead

LEMMA PushKeepsRegistry ==
    ASSUME DInv, RInv, NEW t \in Tasks, Push(t) PROVE RInv'
<1> DEFINE u == task[t].user
<1>1. client' = client
  BY DEF Push
<1>2. CASE task' = [task EXCEPT ![t] = Resting("waiting")] /\ UNCHANGED registry
  BY <1>1, <1>2, RestingOK, RestHolds, MoveKeepsRegistry
<1>3. CASE u \in Online /\ Continue(t, PersonalWalk(u))
  <2>1. PersonalWalk(u).dead = <<>>
    BY DEF PersonalWalk, Resting
  <2> DEFINE a == Resting("send")
             b == [a EXCEPT !.user = u]
             c == [b EXCEPT !.stamp = stamp[u]]
             d == [c EXCEPT !.owed = listed[u]]
  <2>2. u \in Users /\ stamp[u] \in Nat /\ listed[u] \subseteq Sockets
    BY <1>3 DEF Online, DInv, TypeOK, Sockets
  <2>3. b \in Task
    BY <2>2, RestingOK
  <2>4. c \in Task
    BY <2>2, <2>3, TaskUpdates
  <2>5. d \in Task
    BY <2>2, <2>4, TaskUpdates
  <2>6. PersonalWalk(u) = d
    BY DEF PersonalWalk
  <2> QED
    BY <1>1, <1>3, <2>1, <2>5, <2>6, NoneDead, ContinueKeepsRegistry
<1> QED
  BY <1>2, <1>3 DEF Push

LEMMA SendDoneKeepsRegistry ==
    ASSUME DInv, RInv, NEW t \in Tasks, SendDone(t) PROVE RInv'
<1> DEFINE w == task[t]
           a == [w EXCEPT !.owed = @ \ {w.sending}]
           b == [w EXCEPT !.dead = Append(@, <<w.user, w.sending>>)]
<1>1. w.at = "send" /\ client' = client
  BY DEF SendDone
<1>2. /\ w \in Task /\ w.user \in Users /\ w.sending \in Sockets
      /\ Known(client, w.user, w.sending) /\ HoldsDead(client, w)
  BY <1>1 DEF DInv, TypeOK, Walking, Standing, RInv, Holds
<1>3. CASE Continue(t, a)
  <2>1. a \in Task
    BY <1>2 DEF Task
  <2>2. a.dead = w.dead /\ a.scope = w.scope /\ a.user = w.user
    BY <1>2 DEF Task
  <2>3. HoldsDead(client, a)
    BY <1>2, <2>2 DEF HoldsDead
  <2> QED
    BY <1>1, <1>3, <2>1, <2>3, ContinueKeepsRegistry
<1>4. CASE client[w.sending].link # "open" /\ Continue(t, b)
  <2> DEFINE d == Append(w.dead, <<w.user, w.sending>>)
  <2>1. d \in Seq(Users \X Sockets)
    BY <1>2 DEF Task
  <2>2. b = [w EXCEPT !.dead = d]
    OBVIOUS
  <2>3. b \in Task
    BY <1>2, <2>1, <2>2, TaskUpdates
  <2>4. b.dead = d /\ b.scope = w.scope /\ b.user = w.user
    BY <1>2 DEF Task
  <2>5. /\ \A k \in DOMAIN d : k \in DOMAIN w.dead \/ d[k] = <<w.user, w.sending>>
        /\ \A k \in DOMAIN w.dead : d[k] = w.dead[k]
    BY <1>2 DEF Task
  <2> HIDE DEF d
  <2>6. ASSUME NEW k \in DOMAIN d
        PROVE  /\ Known(client, d[k][1], d[k][2])
               /\ client[d[k][2]].link # "open"
               /\ w.scope = "one" => d[k][1] = w.user
    <3>1. CASE k \in DOMAIN w.dead
      BY <1>2, <2>5, <3>1 DEF HoldsDead
    <3>2. CASE d[k] = <<w.user, w.sending>>
      BY <1>2, <1>4, <3>2
    <3> QED
      BY <2>5, <3>1, <3>2
  <2>7. HoldsDead(client, b)
    BY <2>4, <2>6 DEF HoldsDead
  <2> QED
    BY <1>1, <1>4, <2>3, <2>7, ContinueKeepsRegistry
<1> QED
  BY <1>3, <1>4 DEF SendDone

-----------------------------------------------------------------------------
(* Tabs come and go.                                                       *)

LEMMA FeltAll ==
    ASSUME DInv, RInv, ClientsMoveOn, NEW l, NEW st, task' = Felt(l, st)
    PROVE  \A t \in Tasks : Holds(client', task'[t])
  BY FeltHolds

LEMMA ConnectKeepsRegistry ==
    ASSUME DInv, RInv, NEW u \in Users, NEW s \in Sockets, Connect(u, s) PROVE RInv'
<1> DEFINE l == [listed EXCEPT ![u] = @ \cup {s}]
           st == [stamp EXCEPT ![u] = IF @ = 0 THEN s ELSE @]
<1>1. /\ client[s].link = "new"
      /\ client' = [client EXCEPT ![s] = [user |-> u, link |-> "open"]]
      /\ listed' = l /\ stamp' = st /\ task' = Felt(l, st) /\ torn' = torn
  BY DEF Connect
<1>2. /\ \A x \in Sockets : client'[x] = IF x = s THEN [user |-> u, link |-> "open"] ELSE client[x]
      /\ \A v \in Users : listed'[v] = IF v = u THEN listed[v] \cup {s} ELSE listed[v]
      /\ \A v \in Users : stamp'[v] = IF v = u /\ stamp[v] = 0 THEN s ELSE stamp[v]
      /\ s # 0 /\ client'[s].user = u /\ client'[s].link = "open"
  <2>1. \A x \in Sockets : client'[x] = IF x = s THEN [user |-> u, link |-> "open"] ELSE client[x]
    BY <1>1 DEF DInv, TypeOK
  <2>2. \A v \in Users : listed'[v] = IF v = u THEN listed[v] \cup {s} ELSE listed[v]
    BY <1>1 DEF DInv, TypeOK
  <2>3. \A v \in Users : stamp'[v] = IF v = u /\ stamp[v] = 0 THEN s ELSE stamp[v]
    BY <1>1 DEF DInv, TypeOK
  <2>4. s # 0
    BY ConstantsOK DEF Sockets
  <2> QED
    BY <2>1, <2>2, <2>3, <2>4
<1>3. ClientsMoveOn
  BY <1>1, <1>2 DEF ClientsMoveOn
<1>4. \A t \in Tasks : Holds(client', task'[t])
  <2> HIDE DEF l, st
  <2> QED
    BY <1>1, <1>3, FeltAll
<1>5. \A x \in Sockets : client'[x].link = "open" => client'[x].user \in Users
  BY <1>2 DEF RInv
<1>6. /\ \A v \in Users : s \notin listed[v]
      /\ s \in listed'[u] /\ stamp'[u] # 0
      /\ \A v \in Users : s \in listed'[v] => v = u
  <2>1. \A v \in Users : s \notin listed[v]
    BY <1>1 DEF RInv, RegistryIsTrue
  <2>2. s \in listed'[u]
    BY <1>2
  <2>3. stamp'[u] # 0
    BY <1>2
  <2>4. \A v \in Users : s \in listed'[v] => v = u
    BY <1>2, <2>1
  <2> QED
    BY <2>1, <2>2, <2>3, <2>4
<1>7. RegistryIsTrue'
  <2> SUFFICES ASSUME NEW x \in Sockets
               PROVE  /\ client'[x].link = "open" => x \in listed'[client'[x].user]
                      /\ \A v \in Users : x \in listed'[v] =>
                            /\ client'[x].user = v
                            /\ client'[x].link \in {"open", "broken"}
                            /\ stamp'[v] # 0
    BY DEF RegistryIsTrue, Online
  <2>1. CASE x = s
    BY <1>2, <1>6, <2>1
  <2>2. CASE x # s
    <3>1. /\ client'[x] = client[x]
          /\ client[x].link = "open" => client[x].user \in Users /\ x \in listed[client[x].user]
          /\ \A v \in Users : x \in listed'[v] <=> x \in listed[v]
      <4>1. client'[x] = client[x]
        BY <1>2, <2>2
      <4>2. client[x].link = "open" => client[x].user \in Users /\ x \in listed[client[x].user]
        BY DEF RInv, RegistryIsTrue
      <4>3. \A v \in Users : x \in listed'[v] <=> x \in listed[v]
        BY <1>2, <2>2
      <4> QED
        BY <4>1, <4>2, <4>3
    <3>2. ASSUME NEW v \in Users, x \in listed[v]
          PROVE  /\ client[x].user = v /\ client[x].link \in {"open", "broken"}
                 /\ stamp[v] # 0 /\ listed'[v] # {}
      BY <3>1, <3>2 DEF RInv, RegistryIsTrue, Online
    <3> QED
      BY <1>2, <3>1, <3>2
  <2> QED
    BY <2>1, <2>2
<1>8. GhostsAreTorn'
  BY <1>1, <1>2, <1>6 DEF RInv, GhostsAreTorn, Online
<1> QED
  BY <1>4, <1>5, <1>7, <1>8 DEF RInv

LEMMA DisconnectKeepsRegistry ==
    ASSUME DInv, RInv, NEW s \in Sockets, Disconnect(s) PROVE RInv'
<1> DEFINE u == client[s].user
           l == [listed EXCEPT ![u] = @ \ {s}]
           st == [stamp EXCEPT ![u] = IF l[u] = {} THEN 0 ELSE @]
<1>1. /\ client[s].link = "broken"
      /\ client' = [client EXCEPT ![s] = Gone]
      /\ listed' = l /\ stamp' = st /\ task' = Felt(l, st) /\ torn' = torn
  BY DEF Disconnect
<1>2. /\ \A x \in Sockets : client'[x] = IF x = s THEN Gone ELSE client[x]
      /\ \A v \in Users : listed'[v] = IF v = u THEN listed[v] \ {s} ELSE listed[v]
      /\ \A v \in Users : stamp'[v] = IF v = u /\ listed'[v] = {} THEN 0 ELSE stamp[v]
      /\ Gone.link = "gone"
  BY <1>1 DEF DInv, TypeOK, Gone
<1>3. ClientsMoveOn
  BY <1>1, <1>2 DEF ClientsMoveOn
<1>4. \A t \in Tasks : Holds(client', task'[t])
  <2> HIDE DEF l, st
  <2> QED
    BY <1>1, <1>3, FeltAll
<1>5. \A x \in Sockets : client'[x].link = "open" => client'[x].user \in Users
  BY <1>2 DEF RInv
<1>6. \A v \in Users : s \notin listed'[v]
  BY <1>2 DEF RInv, RegistryIsTrue
<1>7. RegistryIsTrue'
  <2> SUFFICES ASSUME NEW x \in Sockets
               PROVE  /\ client'[x].link = "open" => x \in listed'[client'[x].user]
                      /\ \A v \in Users : x \in listed'[v] =>
                            /\ client'[x].user = v
                            /\ client'[x].link \in {"open", "broken"}
                            /\ stamp'[v] # 0
    BY DEF RegistryIsTrue, Online
  <2>1. CASE x = s
    BY <1>2, <1>6, <2>1 DEF Gone
  <2>2. CASE x # s
    <3>1. /\ client'[x] = client[x]
          /\ client[x].link = "open" => client[x].user \in Users /\ x \in listed[client[x].user]
          /\ \A v \in Users : x \in listed'[v] <=> x \in listed[v]
      <4>1. client'[x] = client[x]
        BY <1>2, <2>2
      <4>2. client[x].link = "open" => client[x].user \in Users /\ x \in listed[client[x].user]
        BY DEF RInv, RegistryIsTrue
      <4>3. \A v \in Users : x \in listed'[v] <=> x \in listed[v]
        BY <1>2, <2>2
      <4> QED
        BY <4>1, <4>2, <4>3
    <3>2. ASSUME NEW v \in Users, x \in listed[v]
          PROVE  /\ client[x].user = v /\ client[x].link \in {"open", "broken"}
                 /\ stamp[v] # 0 /\ listed'[v] # {}
      BY <3>1, <3>2 DEF RInv, RegistryIsTrue, Online
    <3> QED
      BY <1>2, <3>1, <3>2
  <2> QED
    BY <2>1, <2>2
<1>8. GhostsAreTorn'
  BY <1>1, <1>2 DEF RInv, GhostsAreTorn, Online
<1> QED
  BY <1>4, <1>5, <1>7, <1>8 DEF RInv

LEMMA BreakKeepsRegistry ==
    ASSUME DInv, RInv, NEW s \in Sockets, Break(s) PROVE RInv'
<1>1. /\ client[s].link = "open"
      /\ client' = [client EXCEPT ![s].link = "broken"]
      /\ UNCHANGED <<task, registry>>
  BY DEF Break
<1>2. \A x \in Sockets : /\ client'[x].user = client[x].user
                         /\ client'[x].link = IF x = s THEN "broken" ELSE client[x].link
                         /\ x # s => client'[x] = client[x]
  BY <1>1 DEF DInv, TypeOK, Client
<1>3. ClientsMoveOn
  BY <1>1, <1>2 DEF ClientsMoveOn
<1>4. ASSUME NEW t \in Tasks PROVE Holds(client', task'[t])
  <2>1. task[t] \in Task /\ Standing(task[t]) /\ Holds(client, task[t])
    BY DEF DInv, TypeOK, Walking, RInv
  <2>2. Holds(client', task[t])
    BY <1>3, <2>1, HoldsOn DEF DInv
  <2> QED
    BY <1>1, <2>2
<1>5. \A x \in Sockets : client'[x].link = "open" => client'[x].user \in Users
  BY <1>2 DEF RInv
<1>6. RegistryIsTrue' /\ GhostsAreTorn'
  BY <1>1, <1>2 DEF RInv, RegistryIsTrue, GhostsAreTorn, Online, registry
<1> QED
  BY <1>4, <1>5, <1>6 DEF RInv

-----------------------------------------------------------------------------
LEMMA FetchKeepsRegistry == ASSUME DInv, RInv, Fetch PROVE RInv'
<1>1. client' = client /\ Consumer \in Tasks
  BY DEF Fetch, Tasks
<1>2. CASE task' = [task EXCEPT ![Consumer] = [Resting("save") EXCEPT !.user = log[pos']]]
           /\ UNCHANGED registry
  <2>1. [Resting("save") EXCEPT !.user = log[pos']].at = "save"
    BY DEF Resting
  <2> QED
    BY <1>1, <1>2, <2>1, RestHolds, MoveKeepsRegistry
<1>3. CASE UNCHANGED <<task, registry>>
  BY <1>1, <1>3 DEF RInv, RegistryIsTrue, GhostsAreTorn, Online, registry
<1>4. CASE Continue(Consumer, BroadcastWalk)
  <2> DEFINE n == Cardinality(Online)
             S == UNION {listed[u] : u \in Users}
             a == [Resting("send") EXCEPT !.scope = "all"]
             b == [a EXCEPT !.size = n]
             c == [b EXCEPT !.left = n]
             d == [c EXCEPT !.owed = S]
  <2>1. n \in Nat
    BY CountsOK DEF DInv, Online
  <2>2. S \in SUBSET Sockets
    BY DEF DInv, TypeOK
  <2>3. BroadcastWalk = d /\ BroadcastWalk.dead = <<>>
    BY DEF BroadcastWalk, Resting
  <2> HIDE DEF n, S
  <2>4. a \in Task
    BY RestingOK DEF Task
  <2>5. b \in Task
    BY <2>1, <2>4 DEF Task
  <2>6. c \in Task
    BY <2>1, <2>5, TaskUpdates
  <2>7. d \in Task
    BY <2>2, <2>6, TaskUpdates
  <2> QED
    BY <1>1, <1>4, <2>3, <2>7, NoneDead, ContinueKeepsRegistry
<1> QED
  BY <1>2, <1>3, <1>4 DEF Fetch

LEMMA OthersKeepRegistry ==
    ASSUME DInv, RInv,
           \/ \E e \in Users \cup {Everyone, Nobody} : Publish(e)
           \/ Start \/ Save
           \/ \E t \in Emitters, u \in Users : Emit(t, u)
           \/ \E u \in Users : MarkAllRead(u) \/ \E k \in DOMAIN notices : MarkRead(u, k)
    PROVE  RInv'
<1>1. Consumer \in Tasks /\ Emitters \subseteq Tasks
  BY DEF Tasks
<1>2. /\ UNCHANGED <<client, registry>>
      /\ \/ task' = task
         \/ \E t \in Tasks, w \in {Resting("waiting"), [task[Consumer] EXCEPT !.at = "push"]} \cup
                                  {[Resting("push") EXCEPT !.user = u] : u \in Users} :
               task' = [task EXCEPT ![t] = w]
  BY <1>1 DEF Publish, Start, Save, Emit, MarkAllRead, MarkRead
<1>3. CASE task' = task
  BY <1>2, <1>3 DEF RInv, RegistryIsTrue, GhostsAreTorn, Online, registry
<1>4. ASSUME NEW t \in Tasks,
             NEW w \in {Resting("waiting"), [task[Consumer] EXCEPT !.at = "push"]} \cup
                       {[Resting("push") EXCEPT !.user = u] : u \in Users},
             task' = [task EXCEPT ![t] = w]
      PROVE  RInv'
  <2>1. task[Consumer] \in Task
    BY <1>1 DEF DInv, TypeOK
  <2>2. w.at # "send"
    BY <2>1 DEF Resting, Task
  <2> QED
    BY <1>2, <1>4, <2>2, RestHolds, MoveKeepsRegistry
<1> QED
  BY <1>2, <1>3, <1>4

LEMMA RestartKeepsRegistry == ASSUME DInv, RInv, Restart PROVE RInv'
<1>1. \A s \in Sockets : client'[s].link \in {"new", "gone"}
  BY DEF Restart, Gone
<1>2. \A u \in Users : listed'[u] = {} /\ stamp'[u] = 0
  BY DEF Restart
<1>3. ASSUME NEW t \in Tasks PROVE Holds(client', task'[t])
  <2>1. task'[t] \in {Resting("starting"), Resting("waiting")}
    BY DEF Restart
  <2> QED
    BY <2>1, RestingOK, RestHolds
<1> QED
  BY <1>1, <1>2, <1>3 DEF RInv, RegistryIsTrue, GhostsAreTorn, Online

LEMMA InitRegistry == Init => RInv
<1> SUFFICES ASSUME Init PROVE RInv
  OBVIOUS
<1>1. ASSUME NEW t \in Tasks PROVE Holds(client, task[t])
  <2>1. task[t] \in {Resting("starting"), Resting("waiting")}
    BY DEF Init
  <2> QED
    BY <2>1, RestingOK, RestHolds
<1> QED
  BY <1>1 DEF Init, RInv, RegistryIsTrue, GhostsAreTorn, Online

LEMMA NextRegistry == ASSUME DInv, RInv, Next PROVE RInv'
<1>1. ASSUME NEW t \in Tasks, Proceed(t) PROVE RInv'
  BY <1>1, PushKeepsRegistry, SendDoneKeepsRegistry DEF Proceed
<1>2. Consumer \in Tasks /\ Emitters \subseteq Tasks
  BY DEF Tasks
<1>3. CASE \E u \in Users, s \in Sockets : Connect(u, s)
  BY <1>3, ConnectKeepsRegistry
<1>4. CASE \E s \in Sockets : Break(s) \/ Disconnect(s)
  BY <1>4, BreakKeepsRegistry, DisconnectKeepsRegistry
<1>5. CASE Consume
  BY <1>1, <1>2, <1>5, FetchKeepsRegistry, OthersKeepRegistry DEF Consume
<1>6. CASE \E t \in Emitters : Proceed(t) \/ \E u \in Users : Emit(t, u)
  BY <1>1, <1>2, <1>6, OthersKeepRegistry
<1>7. CASE \/ \E e \in Users \cup {Everyone, Nobody} : Publish(e)
           \/ \E u \in Users : MarkAllRead(u) \/ \E k \in DOMAIN notices : MarkRead(u, k)
  BY <1>7, OthersKeepRegistry
<1>8. CASE Restart
  BY <1>8, RestartKeepsRegistry
<1> QED
  BY <1>3, <1>4, <1>5, <1>6, <1>7, <1>8 DEF Next

LEMMA SafeRegistry == Spec => [](DInv /\ RInv)
<1>1. Init => DInv /\ RInv
  BY InitStep, InitRegistry
<1>2. DInv /\ RInv /\ [Next]_vars => DInv' /\ RInv'
  <2> SUFFICES ASSUME DInv, RInv, [Next]_vars PROVE DInv' /\ RInv'
    OBVIOUS
  <2>1. CASE Next
    BY <2>1, NextStep, NextRegistry
  <2>2. CASE UNCHANGED vars
    <3>1. RInv'
      BY <2>2 DEF vars, RInv, RegistryIsTrue, GhostsAreTorn, Online
    <3> QED
      BY <2>2, <3>1, StutterStep
  <2> QED
    BY <2>1, <2>2
<1> QED
  BY <1>1, <1>2, PTL DEF Spec

\* A tab that is there is in its user's list and in no other, through every overlap
\* of walks, clean-ups, connects, disconnects and restarts.
THEOREM RegistryStaysTrue == Spec => []RegistryIsTrue
<1>1. DInv /\ RInv => RegistryIsTrue
  BY DEF RInv
<1> QED
  BY <1>1, SafeRegistry, PTL

\* Only a send_to_user whose clean-up was cut short leaves an entry without a tab.
THEOREM OnlyTornLeavesGhosts == Spec => []GhostsAreTorn
<1>1. DInv /\ RInv => GhostsAreTorn
  BY DEF RInv
<1> QED
  BY <1>1, SafeRegistry, PTL

-----------------------------------------------------------------------------
(* Everyone hears.  A walk that nobody disturbed stands where it should: its *)
(* index is its socket's place in the list, the dict has the size it began   *)
(* with, and a tab of the start that it has not served is still ahead of it. *)

\* The list a walk holds, the online, and those whose entry comes after stamp n.
Spots(l, st, w) == IF w.user \in Users /\ st[w.user] = w.stamp THEN l[w.user] ELSE {}
In(st) == {u \in Users : st[u] # 0}
Behind(st, n) == {u \in In(st) : st[u] > n}
UpTo(S, n) == {x \in S : x <= n}

Placed(l, st, w) ==
    /\ w.user \in Users => st[w.user] = w.stamp
    /\ w.index = Cardinality(UpTo(Spots(l, st, w), w.sending))
    /\ w.scope = "all" => w.size = Cardinality(In(st)) /\ w.left = Cardinality(Behind(st, w.stamp))

\* What the walk is yet to come to, and that it comes to those of S that are there.
Ahead(c, st, w, s) ==
    \/ c[s].user = w.user /\ s > w.sending
    \/ w.scope = "all" /\ st[c[s].user] > w.stamp
Reaches(c, st, w, S) == \A s \in S : c[s].link = "open" => Ahead(c, st, w, s)

OnTrack(c, l, st, w) ==
    /\ Placed(l, st, w)
    /\ w.sending \in Spots(l, st, w)
    /\ Reaches(c, st, w, w.owed \ {w.sending})
OnItsWay(c, l, st, w) ==
    w.at = "send" => /\ \A s \in w.owed : c[s].link # "new"
                     /\ ~w.disturbed => OnTrack(c, l, st, w)

\* Tabs come in the order of their numbers, and no two entries are of one tab.
Numbering(c, st) ==
    /\ \A x, y \in Sockets : x < y /\ c[x].link = "new" => c[y].link = "new"
    /\ \A u \in In(st) : c[st[u]].link # "new"
    /\ \A u, v \in In(st) : st[u] = st[v] => u = v

EInv == Numbering(client, stamp) /\ \A t \in Tasks : OnItsWay(client, listed, stamp, task[t])

\* A set of numbers has a smallest one, as they are well founded.
LEMMA Smallest ==
    ASSUME NEW S \in SUBSET Nat, S # {}
    PROVE  \E m \in S : \A n \in S : m <= n
<1> DEFINE R == {ss \in Nat \X Nat : ss[1] < ss[2]}
<1>1. IsWellFoundedOn(R, Nat)
  BY NatLessThanWellFounded DEF OpToRel
<1>2. \E m \in S : \A n \in S : ~(<<n, m>> \in R)
  BY <1>1, WFMin
<1>3. PICK m \in S : \A n \in S : ~(<<n, m>> \in R)
  BY <1>2
<1>4. \A n \in S : ~(n < m)
  BY <1>3
<1> QED
  BY <1>4

LEMMA SocketsFinite ==
    ASSUME NEW S \in SUBSET Sockets
    PROVE  /\ IsFiniteSet(S) /\ Cardinality(S) \in Nat
           /\ \A n : /\ IsFiniteSet(UpTo(S, n)) /\ Cardinality(UpTo(S, n)) \in Nat
                     /\ Cardinality(UpTo(S, n)) <= Cardinality(S)
<1>1. IsFiniteSet(Sockets)
  BY FS_Interval, ConstantsOK DEF Sockets
<1>2. IsFiniteSet(S) /\ Cardinality(S) \in Nat
  BY <1>1, FS_Subset, FS_CardinalityType
<1>3. ASSUME NEW n
      PROVE  /\ IsFiniteSet(UpTo(S, n)) /\ Cardinality(UpTo(S, n)) \in Nat
             /\ Cardinality(UpTo(S, n)) <= Cardinality(S)
  <2>1. UpTo(S, n) \in SUBSET S
    BY DEF UpTo
  <2> QED
    BY <1>2, <2>1, FS_Subset, FS_CardinalityType
<1> QED
  BY <1>2, <1>3

\* More of a list is to come just when it has a socket behind n.
LEMMA MoreToCome ==
    ASSUME NEW S \in SUBSET Sockets, NEW n \in Nat
    PROVE  Cardinality(UpTo(S, n)) < Cardinality(S) <=> \E z \in S : z > n
<1>1. \A x \in S : x \in Nat
  BY ConstantsOK DEF Sockets
<1>2. ASSUME NEW z \in S, z > n PROVE Cardinality(UpTo(S, n)) < Cardinality(S)
  <2>1. UpTo(S, n) \in SUBSET S /\ z \notin UpTo(S, n)
    BY <1>1, <1>2 DEF UpTo
  <2>2. UpTo(S, n) # S
    BY <2>1
  <2>3. IsFiniteSet(S)
    BY SocketsFinite
  <2>4. Cardinality(S) # Cardinality(UpTo(S, n))
    BY <2>1, <2>2, <2>3, FS_Subset
  <2> QED
    BY <2>4, SocketsFinite
<1>3. ASSUME ~\E z \in S : z > n PROVE ~(Cardinality(UpTo(S, n)) < Cardinality(S))
  <2>1. UpTo(S, n) = S
    BY <1>1, <1>3 DEF UpTo
  <2> QED
    BY <2>1, SocketsFinite
<1> QED
  BY <1>2, <1>3

\* The socket after the first so many is the least of those behind them.
LEMMA NthIsNext ==
    ASSUME NEW S \in SUBSET Sockets, NEW n \in Nat,
           NEW s \in Nth(S, Cardinality(UpTo(S, n)) + 1)
    PROVE  /\ s \in S /\ Cardinality(UpTo(S, s)) = Cardinality(UpTo(S, n)) + 1
           /\ \A z \in S : z > n => s <= z
<1>1. \A x \in S : x \in Nat
  BY ConstantsOK DEF Sockets
<1>2. s \in S /\ Cardinality(UpTo(S, s)) = Cardinality(UpTo(S, n)) + 1
  BY DEF Nth, UpTo
<1>3. s > n
  <2>1. SUFFICES ASSUME s <= n PROVE FALSE
    BY <1>1, <1>2
  <2>2. UpTo(S, s) \in SUBSET UpTo(S, n)
    BY <1>1, <1>2, <2>1 DEF UpTo
  <2>3. IsFiniteSet(UpTo(S, n)) /\ Cardinality(UpTo(S, n)) \in Nat
    BY SocketsFinite
  <2>4. Cardinality(UpTo(S, s)) <= Cardinality(UpTo(S, n))
    BY <2>2, <2>3, FS_Subset
  <2> QED
    BY <1>2, <2>3, <2>4
<1>4. ASSUME NEW z \in S, z > n PROVE s <= z
  <2>1. SUFFICES ASSUME z < s PROVE FALSE
    BY <1>1, <1>2
  <2> DEFINE F == UpTo(S, n) \cup {z}
  <2>2. F \in SUBSET UpTo(S, s) /\ s \notin F /\ s \in UpTo(S, s)
    BY <1>1, <1>2, <1>3, <1>4, <2>1 DEF UpTo
  <2>3. Cardinality(F) = Cardinality(UpTo(S, n)) + 1
    <3>1. z \notin UpTo(S, n)
      BY <1>1, <1>4 DEF UpTo
    <3>2. IsFiniteSet(UpTo(S, n))
      BY SocketsFinite
    <3> QED
      BY <3>1, <3>2, FS_AddElement
  <2>4. F = UpTo(S, s)
    <3>1. IsFiniteSet(UpTo(S, s))
      BY SocketsFinite
    <3>2. Cardinality(UpTo(S, s)) = Cardinality(F)
      BY <1>2, <2>3
    <3> HIDE DEF F
    <3> QED
      BY <2>2, <3>1, <3>2, FS_Subset
  <2> QED
    BY <2>2, <2>4
<1> QED
  BY <1>2, <1>4

LEMMA NthExists ==
    ASSUME NEW S \in SUBSET Sockets, NEW n \in Nat, NEW z \in S, z > n
    PROVE  Nth(S, Cardinality(UpTo(S, n)) + 1) # {}
<1> DEFINE B == {x \in S : x > n}
<1>1. \A x \in S : x \in Nat
  BY ConstantsOK DEF Sockets
<1>2. PICK m \in B : \A x \in B : m <= x
  BY <1>1, Smallest
<1>3. UpTo(S, m) = UpTo(S, n) \cup {m}
  BY <1>1, <1>2 DEF UpTo
<1>4. m \notin UpTo(S, n)
  BY <1>1, <1>2 DEF UpTo
<1>5. Cardinality(UpTo(S, m)) = Cardinality(UpTo(S, n)) + 1
  <2>1. IsFiniteSet(UpTo(S, n))
    BY SocketsFinite
  <2> QED
    BY <1>3, <1>4, <2>1, FS_AddElement
<1> QED
  BY <1>2, <1>5 DEF Nth, UpTo

LEMMA NoneUpToZero ==
    ASSUME NEW S \in SUBSET Sockets
    PROVE  Cardinality(UpTo(S, 0)) = 0
<1>1. \A x \in S : x \in Nat /\ x > 0
  BY ConstantsOK DEF Sockets
<1>2. UpTo(S, 0) = {}
  BY <1>1 DEF UpTo
<1> QED
  BY <1>2, FS_EmptySet

-----------------------------------------------------------------------------
(* A walk goes on.                                                         *)

\* A walk before its next send: all it owes to those that are there is ahead.
Ready(w) == Placed(listed, stamp, w) /\ Reaches(client, stamp, w, w.owed)

LEMMA SameNames ==
    ASSUME NEW w
    PROVE  /\ Online = In(stamp) /\ ListOf(w) = Spots(listed, stamp, w)
           /\ Later(w) = Behind(stamp, w.stamp)
           /\ TypeOK => ListOf(w) \in SUBSET Sockets
  BY DEF Online, In, ListOf, Spots, Later, Behind, TypeOK

LEMMA EntriesFinite ==
    ASSUME TypeOK, NEW S \in SUBSET Users
    PROVE  IsFiniteSet(S) /\ Cardinality(S) \in Nat
  BY ConstantsOK, FS_Subset, CountsOK

\* A tab that is there is in its user's list, and the user has an entry.
LEMMA TabsAreListed ==
    ASSUME TypeOK, RInv, NEW s \in Sockets, client[s].link = "open"
    PROVE  /\ client[s].user \in Users /\ s \in listed[client[s].user]
           /\ client[s].user \in Online /\ stamp[client[s].user] \in Nat
<1>1. client[s].user \in Users /\ s \in listed[client[s].user]
  BY DEF RInv, RegistryIsTrue
<1>2. client[s].user \in Online
  BY <1>1 DEF RInv, RegistryIsTrue
<1>3. \A u \in Users : stamp[u] \in Nat
  BY ConstantsOK DEF TypeOK, Sockets
<1> QED
  BY <1>1, <1>2, <1>3

\* The next socket of the same list.
LEMMA NextSocketOnTrack ==
    ASSUME TypeOK, RInv, NEW w \in Task, Ready(w), NEW s \in Nth(ListOf(w), w.index + 1),
           NEW v, v = [w EXCEPT !.index = w.index + 1, !.sending = s]
    PROVE  OnTrack(client, listed, stamp, v)
<1> DEFINE S == ListOf(w)
<1>1. S \in SUBSET Sockets /\ S = Spots(listed, stamp, w) /\ w.index = Cardinality(UpTo(S, w.sending))
  BY SameNames DEF Ready, Placed
<1>2. w.sending \in Nat
  BY ConstantsOK DEF Task, Sockets
<1>3. /\ s \in S /\ Cardinality(UpTo(S, s)) = w.index + 1
      /\ \A z \in S : z > w.sending => s <= z
  BY <1>1, <1>2, NthIsNext
<1>4. /\ v.user = w.user /\ v.stamp = w.stamp /\ v.scope = w.scope /\ v.size = w.size
      /\ v.left = w.left /\ v.owed = w.owed /\ v.index = w.index + 1 /\ v.sending = s
  BY DEF Task
<1>5. Spots(listed, stamp, v) = S
  BY <1>1, <1>4 DEF Spots
<1>6. Placed(listed, stamp, v)
  BY <1>3, <1>4, <1>5 DEF Ready, Placed
<1>7. ASSUME NEW x \in w.owed \ {s}, client[x].link = "open" PROVE Ahead(client, stamp, v, x)
  <2>1. x \in Sockets /\ Ahead(client, stamp, w, x)
    BY <1>7 DEF Task, Ready, Reaches
  <2>2. CASE client[x].user = w.user /\ x > w.sending
    <3>1. w.user \in Users /\ x \in listed[w.user]
      BY <1>7, <2>1, <2>2, TabsAreListed
    <3>2. x \in S
      BY <1>1, <3>1 DEF Spots, Ready, Placed
    <3>3. s <= x /\ x # s /\ s \in Nat /\ x \in Nat
      BY <1>1, <1>3, <2>2, <3>2, ConstantsOK DEF Sockets
    <3> QED
      BY <1>4, <2>2, <3>3 DEF Ahead
  <2> QED
    BY <1>4, <2>1, <2>2 DEF Ahead
<1> QED
  BY <1>3, <1>4, <1>5, <1>6, <1>7 DEF OnTrack, Reaches

\* The first socket of the next entry that has one: what is left out of the dict
\* has no tab, and the rest of the dict is still to come.
LEMMA NextEntryOnTrack ==
    ASSUME TypeOK, RInv, Numbering(client, stamp), NEW w \in Task, Ready(w), w.scope = "all",
           ~(w.index < Cardinality(ListOf(w))), NEW u \in NextEntry(w), NEW s \in Nth(listed[u], 1),
           NEW v, v = [w EXCEPT !.user = u, !.stamp = stamp[u], !.index = 1,
                                !.left = w.left - Steps(w, u), !.sending = s]
    PROVE  OnTrack(client, listed, stamp, v)
<1>1. /\ u \in Users /\ stamp[u] # 0 /\ stamp[u] > w.stamp
      /\ \A x \in Later(w) : stamp[x] < stamp[u] => listed[x] = {}
  BY DEF NextEntry, Later, Online
<1>2. /\ \A x \in Users : stamp[x] \in Nat /\ listed[x] \in SUBSET Sockets
      /\ w.stamp \in Nat /\ w.left \in Nat /\ w.sending \in Nat /\ w.index \in Nat
  BY ConstantsOK DEF TypeOK, Task, Sockets
<1>3. /\ s \in listed[u] /\ Cardinality(UpTo(listed[u], s)) = 1
      /\ \A z \in listed[u] : z > 0 => s <= z
  <2>1. Cardinality(UpTo(listed[u], 0)) + 1 = 1
    BY <1>1, <1>2, NoneUpToZero
  <2>2. s \in Nth(listed[u], Cardinality(UpTo(listed[u], 0)) + 1)
    BY <2>1
  <2> QED
    BY <1>1, <1>2, <2>1, <2>2, NthIsNext
<1>4. /\ v.user = u /\ v.stamp = stamp[u] /\ v.scope = "all" /\ v.size = w.size
      /\ v.left = w.left - Steps(w, u) /\ v.owed = w.owed /\ v.index = 1 /\ v.sending = s
  BY DEF Task
<1>5. Spots(listed, stamp, v) = listed[u]
  BY <1>1, <1>4 DEF Spots
<1>6. v.left = Cardinality(Behind(stamp, stamp[u]))
  <2> DEFINE A == Behind(stamp, w.stamp)
             B == {x \in A : stamp[x] <= stamp[u]}
             C == Behind(stamp, stamp[u])
  <2>1. w.left = Cardinality(A) /\ Steps(w, u) = Cardinality(B)
    <3>1. Later(w) = A
      BY SameNames
    <3> QED
      BY <3>1 DEF Ready, Placed, Steps
  <2>2. A = B \cup C /\ B \cap C = {} /\ B \in SUBSET Users /\ C \in SUBSET Users
    BY <1>1, <1>2 DEF Behind, In
  <2> HIDE DEF A, B, C
  <2>3. /\ IsFiniteSet(B) /\ Cardinality(B) \in Nat
        /\ IsFiniteSet(C) /\ Cardinality(C) \in Nat
    BY <2>2, EntriesFinite
  <2>4. Cardinality(B \cup C) = Cardinality(B) + Cardinality(C) - Cardinality(B \cap C)
    BY <2>3, FS_Union
  <2>5. Cardinality(A) = Cardinality(B) + Cardinality(C)
    <3>1. Cardinality(B \cap C) = 0
      BY <2>2, FS_EmptySet
    <3>2. Cardinality(A) = Cardinality(B \cup C)
      BY <2>2
    <3> QED
      BY <2>3, <2>4, <3>1, <3>2
  <2>6. Cardinality(C) = Cardinality(Behind(stamp, stamp[u]))
    BY DEF C
  <2> QED
    BY <1>4, <2>1, <2>3, <2>5, <2>6
<1>7. Placed(listed, stamp, v)
  BY <1>3, <1>4, <1>5, <1>6 DEF Ready, Placed
<1>8. ASSUME NEW x \in w.owed \ {s}, client[x].link = "open" PROVE Ahead(client, stamp, v, x)
  <2> DEFINE y == client[x].user
  <2>1. x \in Sockets /\ Ahead(client, stamp, w, x)
    BY <1>8 DEF Task, Ready, Reaches
  <2>2. y \in Users /\ x \in listed[y] /\ y \in Online /\ stamp[y] \in Nat
    BY <1>8, <2>1, TabsAreListed
  <2>3. ~(y = w.user /\ x > w.sending)
    <3>1. SUFFICES ASSUME y = w.user, x > w.sending PROVE FALSE
      OBVIOUS
    <3>2. x \in ListOf(w) /\ ListOf(w) \in SUBSET Sockets
      BY <2>2, <3>1, SameNames DEF ListOf, Ready, Placed
    <3>3. Cardinality(UpTo(ListOf(w), w.sending)) < Cardinality(ListOf(w))
      BY <1>2, <3>1, <3>2, MoreToCome
    <3> QED
      BY <3>3, SameNames DEF Ready, Placed
  <2>4. stamp[y] > w.stamp
    BY <2>1, <2>3 DEF Ahead
  <2>5. y \in Later(w)
    BY <2>2, <2>4 DEF Later
  <2>6. ~(stamp[y] < stamp[u])
    BY <1>1, <2>2, <2>5
  <2>7. CASE stamp[y] > stamp[u]
    BY <1>4, <2>7 DEF Ahead
  <2>8. CASE stamp[y] = stamp[u]
    <3>1. y = u
      BY <1>1, <2>2, <2>8 DEF Numbering, In
    <3>2. x > 0 /\ x \in Nat /\ s \in Nat
      BY <1>1, <1>2, <1>3, <2>1, ConstantsOK DEF Sockets
    <3>3. x > s
      BY <1>3, <1>8, <2>2, <3>1, <3>2
    <3> QED
      BY <1>4, <3>1, <3>3 DEF Ahead
  <2> QED
    BY <1>1, <1>2, <2>2, <2>6, <2>7, <2>8
<1> QED
  BY <1>3, <1>4, <1>5, <1>7, <1>8 DEF OnTrack, Reaches

LEMMA OnwardOnTrack ==
    ASSUME TypeOK, RInv, Numbering(client, stamp), NEW w \in Task, Ready(w), NEW v \in Onward(w)
    PROVE  OnTrack(client, listed, stamp, v)
<1>1. CASE w.index < Cardinality(ListOf(w))
  <2>1. PICK s \in Nth(ListOf(w), w.index + 1) :
             v = [w EXCEPT !.index = w.index + 1, !.sending = s]
    BY <1>1 DEF Onward
  <2> QED
    BY <2>1, NextSocketOnTrack
<1>2. CASE ~(w.index < Cardinality(ListOf(w)))
  <2> DEFINE Sends(u) == {[w EXCEPT !.user = u, !.stamp = stamp[u], !.index = 1,
                                    !.left = w.left - Steps(w, u), !.sending = s] :
                            s \in Nth(listed[u], 1)}
  <2>1. v \in UNION {Sends(u) : u \in NextEntry(w)} /\ w.scope = "all"
    BY <1>2 DEF Onward
  <2>2. PICK u \in NextEntry(w) : v \in Sends(u)
    <3> HIDE DEF Sends
    <3> QED
      BY <2>1
  <2>3. PICK s \in Nth(listed[u], 1) :
           v = [w EXCEPT !.user = u, !.stamp = stamp[u], !.index = 1,
                         !.left = w.left - Steps(w, u), !.sending = s]
    BY <2>2
  <2> QED
    BY <1>2, <2>1, <2>3, NextEntryOnTrack
<1> QED
  BY <1>1, <1>2

LEMMA OnwardOwes ==
    ASSUME NEW w \in Task, NEW v \in Onward(w)
    PROVE  v.owed = w.owed /\ v.disturbed = w.disturbed
<1>1. CASE w.index < Cardinality(ListOf(w))
  <2>1. PICK s \in Nth(ListOf(w), w.index + 1) :
             v = [w EXCEPT !.index = w.index + 1, !.sending = s]
    BY <1>1 DEF Onward
  <2> QED
    BY <2>1 DEF Task
<1>2. CASE ~(w.index < Cardinality(ListOf(w)))
  <2> DEFINE Sends(u) == {[w EXCEPT !.user = u, !.stamp = stamp[u], !.index = 1,
                                    !.left = w.left - Steps(w, u), !.sending = s] :
                            s \in Nth(listed[u], 1)}
  <2>1. v \in UNION {Sends(u) : u \in NextEntry(w)}
    BY <1>2 DEF Onward
  <2>2. PICK u \in NextEntry(w) : v \in Sends(u)
    <3> HIDE DEF Sends
    <3> QED
      BY <2>1
  <2> QED
    BY <2>2 DEF Task
<1> QED
  BY <1>1, <1>2

\* A walk that owes a tab its message is not over.
LEMMA NotYetOver ==
    ASSUME TypeOK, RInv, Numbering(client, stamp), NEW w \in Task, Ready(w),
           NEW s \in w.owed, client[s].link = "open"
    PROVE  Onward(w) # {}
<1> DEFINE S == ListOf(w)
<1>1. /\ S \in SUBSET Sockets /\ S = Spots(listed, stamp, w)
      /\ w.index = Cardinality(UpTo(S, w.sending))
  BY SameNames DEF Ready, Placed
<1>2. /\ \A x \in Users : stamp[x] \in Nat /\ listed[x] \in SUBSET Sockets
      /\ w.sending \in Nat /\ s \in Sockets
  BY ConstantsOK DEF TypeOK, Task, Sockets
<1>3. Ahead(client, stamp, w, s)
  BY DEF Ready, Reaches
<1>4. CASE w.index < Cardinality(S)
  <2>1. PICK z \in S : z > w.sending
    BY <1>1, <1>2, <1>4, MoreToCome
  <2>2. Nth(S, w.index + 1) # {}
    BY <1>1, <1>2, <2>1, NthExists
  <2> QED
    BY <1>4, <2>2 DEF Onward
<1>5. CASE ~(w.index < Cardinality(S))
  <2>0. client[s].user \in Online /\ s \in listed[client[s].user]
    BY <1>2, TabsAreListed
  <2>1. ~(client[s].user = w.user /\ s > w.sending)
    <3>1. SUFFICES ASSUME client[s].user = w.user, s > w.sending PROVE FALSE
      OBVIOUS
    <3>2. s \in S
      BY <2>0, <3>1 DEF ListOf, Ready, Placed, Online
    <3> QED
      BY <1>1, <1>2, <1>5, <3>1, <3>2, MoreToCome
  <2>2. w.scope = "all" /\ client[s].user \in Later(w)
    BY <1>3, <2>0, <2>1 DEF Ahead, Later
  <2> DEFINE C == {u \in Later(w) : listed[u] # {}}
             N == {stamp[u] : u \in C}
  <2>3. N \in SUBSET Nat /\ N # {}
    BY <1>2, <2>0, <2>2 DEF Later, Online
  <2>4. PICK u \in C : \A x \in C : stamp[u] <= stamp[x]
    <3>1. PICK m \in N : \A n \in N : m <= n
      BY <2>3, Smallest
    <3>2. PICK u \in C : m = stamp[u]
      OBVIOUS
    <3> QED
      BY <3>1, <3>2
  <2>5. u \in Users /\ u \in Later(w) /\ listed[u] # {}
    BY DEF Later, Online
  <2>6. \A x \in Later(w) : stamp[x] < stamp[u] => listed[x] = {}
    BY <1>2, <2>4, <2>5 DEF Later, Online
  <2>7. Steps(w, u) <= w.left
    <3>1. Later(w) \in SUBSET Users /\ w.left = Cardinality(Later(w))
      BY <2>2, SameNames DEF Later, Online, Ready, Placed
    <3>2. IsFiniteSet(Later(w))
      BY <3>1, EntriesFinite
    <3> QED
      BY <3>1, <3>2, FS_Subset DEF Steps
  <2>8. u \in NextEntry(w)
    BY <2>5, <2>6, <2>7 DEF NextEntry
  <2>9. Nth(listed[u], 1) # {}
    <3>1. PICK z \in listed[u] : TRUE
      BY <2>5
    <3>2. listed[u] \in SUBSET Sockets /\ z > 0
      BY <1>2, <2>5, <3>1, ConstantsOK DEF Sockets
    <3>3. Cardinality(UpTo(listed[u], 0)) + 1 = 1
      BY <3>2, NoneUpToZero
    <3>4. Nth(listed[u], Cardinality(UpTo(listed[u], 0)) + 1) # {}
      BY <3>2, NthExists
    <3> QED
      BY <3>3, <3>4
  <2>10. w.size = Cardinality(Online)
    BY <2>2, SameNames DEF Ready, Placed
  <2> DEFINE Sends(x) == {[w EXCEPT !.user = x, !.stamp = stamp[x], !.index = 1,
                                    !.left = w.left - Steps(w, x), !.sending = y] :
                            y \in Nth(listed[x], 1)}
  <2>11. Onward(w) = UNION {Sends(x) : x \in NextEntry(w)}
    BY <1>5, <2>2, <2>10 DEF Onward
  <2>12. Sends(u) # {}
    BY <2>9
  <2> HIDE DEF Sends
  <2> QED
    BY <2>8, <2>11, <2>12
<1> QED
  BY <1>4, <1>5

-----------------------------------------------------------------------------
(* What others do to a walk.                                               *)

\* The registry moves so that a list keeps its entry and grows at its end.
RegistryMoves ==
    /\ ClientsMoveOn
    /\ \A u \in Users : stamp[u] # 0 /\ listed'[u] # {} => stamp'[u] = stamp[u]
    /\ \A u \in Users : \A x \in listed'[u] \ listed[u] :
          x \in Sockets /\ \A y \in Sockets : client[y].link # "new" => y < x

\* All coroutines but those of T feel the step and do nothing.
Moved(T) ==
    /\ RegistryMoves
    /\ Numbering(client', stamp')
    /\ \A t \in Tasks \ T : task'[t] = Felt(listed', stamp')[t]

Heard(t) ==
    task[t].at = "send" /\ task'[t].at # "send" /\ restarts' = restarts /\ ~task[t].disturbed
    => \A s \in task[t].owed \ {task[t].sending} :
          client[s].link = "open" => \A u \in Users : s \notin listed[u]
HeardStep == \A t \in Tasks : Heard(t)

LEMMA FeltOnItsWay ==
    ASSUME DInv, RInv, EInv, RegistryMoves, NEW t \in Tasks,
           NEW v, v = Felt(listed', stamp')[t]
    PROVE  OnItsWay(client', listed', stamp', v)
<1> DEFINE w == task[t]
           b == w.disturbed \/ Disturbs(w, listed', stamp')
<1>1. w \in Task /\ OnItsWay(client, listed, stamp, w)
  BY DEF DInv, TypeOK, EInv
<1>2. v = [w EXCEPT !.disturbed = b]
  BY DEF Felt
<1>3. /\ v.at = w.at /\ v.owed = w.owed /\ v.user = w.user /\ v.stamp = w.stamp
      /\ v.scope = w.scope /\ v.size = w.size /\ v.left = w.left /\ v.index = w.index
      /\ v.sending = w.sending /\ v.disturbed = b
  <2> HIDE DEF b
  <2> QED
    BY <1>1, <1>2 DEF Task
<1> SUFFICES ASSUME w.at = "send"
             PROVE  /\ \A s \in w.owed : client'[s].link # "new"
                    /\ ~b => OnTrack(client', listed', stamp', v)
  BY <1>3 DEF OnItsWay
<1>4. ASSUME NEW s \in w.owed
      PROVE  /\ client'[s].link # "new"
             /\ client'[s].link = "open" => client'[s] = client[s]
  <2>1. s \in Sockets /\ client[s].link # "new"
    BY <1>1 DEF Task, OnItsWay
  <2> QED
    BY <2>1 DEF RegistryMoves, ClientsMoveOn
<1>5. ASSUME ~b PROVE OnTrack(client', listed', stamp', v)
  <2>1. OnTrack(client, listed, stamp, w)
    BY <1>1, <1>5 DEF OnItsWay
  <2>2. /\ w.user \in Users /\ stamp[w.user] = w.stamp /\ w.sending \in listed[w.user]
        /\ w.index = Cardinality(UpTo(listed[w.user], w.sending))
    BY <2>1 DEF OnTrack, Placed, Spots
  <2>3. listed[w.user] \subseteq listed'[w.user] /\ (w.scope = "all" => stamp' = stamp)
    BY <1>5, <2>2 DEF Disturbs
  <2>4. w.sending \in Sockets /\ client[w.sending].link # "new" /\ stamp[w.user] # 0
    BY <2>2 DEF DInv, TypeOK, RInv, RegistryIsTrue, Online
  <2>5. stamp'[w.user] = w.stamp
    BY <2>2, <2>3, <2>4 DEF RegistryMoves
  <2>6. UpTo(listed'[w.user], w.sending) = UpTo(listed[w.user], w.sending)
    <3>1. ASSUME NEW x \in listed'[w.user] \ listed[w.user] PROVE ~(x <= w.sending)
      <4>1. w.sending < x /\ x \in Nat /\ w.sending \in Nat
        BY <2>2, <2>4, <3>1, ConstantsOK DEF RegistryMoves, Sockets
      <4> QED
        BY <4>1
    <3> QED
      BY <2>3, <3>1 DEF UpTo
  <2>7. Spots(listed', stamp', v) = listed'[w.user]
    BY <1>3, <2>2, <2>5 DEF Spots
  <2>8. w.scope = "all" => /\ w.size = Cardinality(In(stamp'))
                           /\ w.left = Cardinality(Behind(stamp', w.stamp))
    BY <2>1, <2>3 DEF OnTrack, Placed
  <2>9. Placed(listed', stamp', v)
    BY <1>3, <2>2, <2>5, <2>6, <2>7, <2>8 DEF Placed
  <2>10. ASSUME NEW s \in w.owed \ {w.sending}, client'[s].link = "open"
         PROVE  Ahead(client', stamp', v, s)
    <3>1. client'[s] = client[s]
      BY <1>4, <2>10
    <3>2. Ahead(client, stamp, w, s)
      BY <2>1, <2>10, <3>1 DEF OnTrack, Reaches
    <3> QED
      BY <1>3, <2>3, <3>1, <3>2 DEF Ahead
  <2> QED
    BY <1>3, <2>2, <2>3, <2>7, <2>9, <2>10 DEF OnTrack, Reaches
<1> QED
  BY <1>4, <1>5

LEMMA FeltNothing ==
    ASSUME DInv, UNCHANGED <<listed, stamp>>, NEW t \in Tasks
    PROVE  Felt(listed', stamp')[t] = task[t]
<1>1. task[t] \in Task
  BY DEF DInv, TypeOK
<1>2. ~Disturbs(task[t], listed', stamp')
  BY DEF Disturbs
<1>3. Felt(listed', stamp')[t] =
        [task[t] EXCEPT !.disturbed = task[t].disturbed \/ Disturbs(task[t], listed', stamp')]
  BY DEF Felt
<1>4. (task[t].disturbed \/ Disturbs(task[t], listed', stamp')) = task[t].disturbed
  BY <1>1, <1>2 DEF Task
<1> QED
  BY <1>1, <1>3, <1>4 DEF Task

LEMMA MovedOn ==
    ASSUME DInv, RInv, EInv, NEW T \in SUBSET Tasks, Moved(T),
           \A t \in T : OnItsWay(client', listed', stamp', task'[t]) /\ Heard(t)
    PROVE  EInv' /\ HeardStep
<1>1. ASSUME NEW t \in Tasks
      PROVE  OnItsWay(client', listed', stamp', task'[t]) /\ Heard(t)
  <2>1. CASE t \notin T
    <3>1. PICK v : v = task'[t]
      OBVIOUS
    <3>2. v = Felt(listed', stamp')[t]
      BY <2>1, <3>1 DEF Moved
    <3>3. OnItsWay(client', listed', stamp', v)
      BY <3>2, FeltOnItsWay DEF Moved
    <3>4. v.at = task[t].at
      BY <3>2, FeltTypes DEF DInv
    <3> QED
      BY <3>1, <3>3, <3>4 DEF Heard
  <2> QED
    BY <2>1
<1> QED
  BY <1>1 DEF EInv, HeardStep, Moved

\* Connections stay as new as they were, and entries go or stay.
LEMMA NumberingFades ==
    ASSUME Numbering(client, stamp),
           \A s \in Sockets : client'[s].link = "new" <=> client[s].link = "new",
           \A u \in Users : stamp'[u] \in {0, stamp[u]},
           TypeOK
    PROVE  Numbering(client', stamp')
<1>1. \A u \in In(stamp') : /\ u \in In(stamp) /\ stamp'[u] = stamp[u] /\ stamp[u] \in Sockets
  BY DEF In, TypeOK
<1> QED
  BY <1>1 DEF Numbering

-----------------------------------------------------------------------------
(* Each action.                                                            *)

LEMMA RegistryStays ==
    ASSUME DInv, RInv, EInv, UNCHANGED <<listed, stamp>>, client' = client
    PROVE  RegistryMoves /\ Numbering(client', stamp')
  BY DEF RegistryMoves, ClientsMoveOn, EInv

LEMMA ContinueMoves ==
    ASSUME DInv, RInv, EInv, client' = client, NEW t \in Tasks, NEW w \in Task, Continue(t, w)
    PROVE  Moved({t})
<1>1. CASE (\E v : task' = [task EXCEPT ![t] = v]) /\ UNCHANGED registry
  <2>1. PICK v : task' = [task EXCEPT ![t] = v]
    BY <1>1
  <2>2. \A x \in Tasks \ {t} : task'[x] = task[x]
    BY <2>1 DEF DInv, TypeOK
  <2> QED
    BY <1>1, <2>2, RegistryStays, FeltNothing DEF Moved, registry
<1>2. CASE CleanUp(t, w)
  <2> DEFINE l == [u \in Users |-> listed[u] \ Cleared(w)]
             emptied == {u \in Online :
                      /\ l[u] = {}
                      /\ \/ w.scope = "all" /\ listed[u] # {}
                         \/ w.scope = "one" /\ u = w.user /\ ~CutShort(w)}
             st == [u \in Users |-> IF u \in emptied THEN 0 ELSE stamp[u]]
  <2>1. /\ listed' = l /\ stamp' = st
        /\ task' = [Felt(l, st) EXCEPT ![t] = Resting("waiting")]
    BY <1>2 DEF CleanUp
  <2>2. /\ \A u \in Users : listed'[u] = listed[u] \ Cleared(w)
        /\ \A u \in Users : listed'[u] # {} => stamp'[u] = stamp[u]
        /\ \A u \in Users : stamp'[u] \in {0, stamp[u]}
    BY <2>1
  <2>3. RegistryMoves /\ Numbering(client', stamp')
    BY <2>2, NumberingFades DEF RegistryMoves, ClientsMoveOn, EInv, DInv
  <2> HIDE DEF l, st
  <2>4. Felt(l, st) \in [Tasks -> Task]
    BY FeltTypes DEF DInv
  <2>5. \A x \in Tasks \ {t} : task'[x] = Felt(listed', stamp')[x]
    BY <2>1, <2>4
  <2> QED
    BY <2>3, <2>5 DEF Moved
<1> QED
  BY <1>1, <1>2 DEF Continue

\* A walk that goes on is on its way, and one that ends owed nobody anything.
LEMMA ContinueOnItsWay ==
    ASSUME DInv, RInv, EInv, client' = client, NEW t \in Tasks, NEW w \in Task, w.at = "send",
           \A s \in w.owed : client[s].link # "new",
           ~w.disturbed => Ready(w), Continue(t, w)
    PROVE  /\ OnItsWay(client', listed', stamp', task'[t])
           /\ task'[t].at # "send" /\ ~w.disturbed => \A s \in w.owed : client[s].link # "open"
<1>1. task \in [Tasks -> Task]
  BY DEF DInv, TypeOK
<1>2. CASE (\E v \in Onward(w) : task' = [task EXCEPT ![t] = v]) /\ UNCHANGED registry
  <2>1. PICK v \in Onward(w) : task' = [task EXCEPT ![t] = v]
    BY <1>2
  <2>2. task'[t] = v /\ v.at = "send" /\ v.owed = w.owed /\ v.disturbed = w.disturbed
    BY <1>1, <2>1, OnwardTypes, OnwardOwes DEF DInv
  <2>3. ~v.disturbed => OnTrack(client, listed, stamp, v)
    BY <2>2, OnwardOnTrack DEF DInv, EInv
  <2>4. OnItsWay(client, listed, stamp, v)
    BY <2>2, <2>3 DEF OnItsWay
  <2> QED
    BY <1>2, <2>2, <2>4 DEF registry
<1>3. CASE Onward(w) = {} /\ task'[t] = Resting("waiting")
  <2>1. task'[t].at # "send"
    BY <1>3, RestingOK
  <2>2. ~w.disturbed => \A s \in w.owed : client[s].link # "open"
    BY <1>3, NotYetOver DEF DInv, EInv
  <2> QED
    BY <2>1, <2>2 DEF OnItsWay
<1>4. ASSUME Onward(w) = {}, ~(\E v \in Onward(w) : task' = [task EXCEPT ![t] = v])
      PROVE  task'[t] = Resting("waiting")
  <2>1. ASSUME NEW l, NEW st, task' = [Felt(l, st) EXCEPT ![t] = Resting("waiting")]
        PROVE  task'[t] = Resting("waiting")
    <3>1. Felt(l, st) \in [Tasks -> Task]
      BY FeltTypes DEF DInv
    <3> QED
      BY <2>1, <3>1
  <2>2. CASE CleanUp(t, w)
    BY <2>1, <2>2 DEF CleanUp
  <2> QED
    BY <1>1, <1>4, <2>2 DEF Continue
<1> QED
  BY <1>2, <1>3, <1>4 DEF Continue

LEMMA ConnectHears ==
    ASSUME DInv, RInv, EInv, NEW u \in Users, NEW s \in Sockets, Connect(u, s)
    PROVE  EInv' /\ HeardStep
<1>1. /\ client[s].link = "new"
      /\ \A x \in Sockets : x < s => client[x].link # "new"
      /\ \A x \in Sockets : client'[x] = IF x = s THEN [user |-> u, link |-> "open"] ELSE client[x]
      /\ \A v \in Users : listed'[v] = IF v = u THEN listed[v] \cup {s} ELSE listed[v]
      /\ \A v \in Users : stamp'[v] = IF v = u /\ stamp[v] = 0 THEN s ELSE stamp[v]
  BY DEF Connect, DInv, TypeOK
<1>2. \A x \in Sockets : x \in Nat /\ x # 0
  BY ConstantsOK DEF Sockets
<1>3. \A y \in Sockets : client[y].link # "new" => y < s
  BY <1>1, <1>2 DEF EInv, Numbering
<1>4. client'[s].link = "open"
  BY <1>1
<1>5. ClientsMoveOn
  BY <1>1 DEF ClientsMoveOn
<1>6. RegistryMoves
  BY <1>1, <1>3, <1>5 DEF RegistryMoves
<1>7. Numbering(client', stamp')
  <2>1. ASSUME NEW x \in Sockets, NEW y \in Sockets, x < y, client'[x].link = "new"
        PROVE  client'[y].link = "new"
    <3>1. x # s /\ client[x].link = "new"
      BY <1>1, <1>4, <2>1
    <3>2. client[y].link = "new"
      BY <2>1, <3>1 DEF EInv, Numbering
    <3>3. y # s
      BY <1>1, <2>1, <3>1
    <3> QED
      BY <1>1, <3>2, <3>3
  <2>2. \A v \in In(stamp) : stamp[v] \in Sockets /\ client[stamp[v]].link # "new" /\ stamp[v] # s
    BY <1>1 DEF EInv, Numbering, In, DInv, TypeOK
  <2>3. \A v \in In(stamp') : \/ v = u /\ stamp[v] = 0 /\ stamp'[v] = s
                              \/ v \in In(stamp) /\ stamp'[v] = stamp[v]
    BY <1>1 DEF In
  <2>4. \A v \in In(stamp') : client'[stamp'[v]].link # "new"
    BY <1>1, <1>4, <2>2, <2>3
  <2>5. \A v, x \in In(stamp') : stamp'[v] = stamp'[x] => v = x
    BY <2>2, <2>3 DEF EInv, Numbering
  <2> QED
    BY <2>1, <2>4, <2>5 DEF Numbering
<1>8. task' = Felt(listed', stamp')
  BY DEF Connect
<1>9. Moved({})
  BY <1>6, <1>7, <1>8 DEF Moved
<1> QED
  BY <1>9, MovedOn

LEMMA DisconnectHears ==
    ASSUME DInv, RInv, EInv, NEW s \in Sockets, Disconnect(s)
    PROVE  EInv' /\ HeardStep
<1> DEFINE u == client[s].user
<1>1. /\ client[s].link = "broken"
      /\ \A x \in Sockets : client'[x] = IF x = s THEN Gone ELSE client[x]
      /\ \A v \in Users : listed'[v] = IF v = u THEN listed[v] \ {s} ELSE listed[v]
      /\ \A v \in Users : stamp'[v] = IF v = u /\ listed'[v] = {} THEN 0 ELSE stamp[v]
      /\ Gone.link = "gone"
  BY DEF Disconnect, DInv, TypeOK, Gone
<1>2. ClientsMoveOn
  BY <1>1 DEF ClientsMoveOn
<1>3. RegistryMoves
  BY <1>1, <1>2 DEF RegistryMoves
<1>4. Numbering(client', stamp')
  <2>1. \A x \in Sockets : client'[x].link = "new" <=> client[x].link = "new"
    BY <1>1
  <2>2. \A v \in Users : stamp'[v] \in {0, stamp[v]}
    BY <1>1
  <2> QED
    BY <2>1, <2>2, NumberingFades DEF EInv, DInv
<1>5. task' = Felt(listed', stamp')
  BY DEF Disconnect
<1>6. Moved({})
  BY <1>3, <1>4, <1>5 DEF Moved
<1> QED
  BY <1>6, MovedOn

LEMMA BreakHears ==
    ASSUME DInv, RInv, EInv, NEW s \in Sockets, Break(s)
    PROVE  EInv' /\ HeardStep
<1>1. /\ client[s].link = "open"
      /\ client' = [client EXCEPT ![s].link = "broken"]
      /\ task' = task /\ UNCHANGED <<listed, stamp>>
  BY DEF Break, registry
<1>2. \A x \in Sockets : /\ client'[x].user = client[x].user
                         /\ client'[x].link = IF x = s THEN "broken" ELSE client[x].link
                         /\ x # s => client'[x] = client[x]
  BY <1>1 DEF DInv, TypeOK, Client
<1>3. ClientsMoveOn
  BY <1>1, <1>2 DEF ClientsMoveOn
<1>4. RegistryMoves
  BY <1>1, <1>3 DEF RegistryMoves
<1>5. Numbering(client', stamp')
  <2>1. \A x \in Sockets : client'[x].link = "new" <=> client[x].link = "new"
    BY <1>1, <1>2
  <2>2. \A v \in Users : stamp'[v] \in {0, stamp[v]}
    BY <1>1
  <2> QED
    BY <2>1, <2>2, NumberingFades DEF EInv, DInv
<1>6. Moved({})
  BY <1>1, <1>4, <1>5, FeltNothing DEF Moved
<1> QED
  BY <1>6, MovedOn

\* A coroutine that is not at a send, before or after.
LEMMA ElsewhereHears ==
    ASSUME DInv, RInv, EInv, UNCHANGED <<client, registry>>, NEW t \in Tasks, NEW w,
           task' = [task EXCEPT ![t] = w], task[t].at # "send", w.at # "send"
    PROVE  EInv' /\ HeardStep
<1>1. \A x \in Tasks : task'[x] = IF x = t THEN w ELSE task[x]
  BY DEF DInv, TypeOK
<1>2. Moved({t})
  BY <1>1, RegistryStays, FeltNothing DEF Moved, registry
<1>3. OnItsWay(client', listed', stamp', task'[t]) /\ Heard(t)
  BY <1>1 DEF OnItsWay, Heard
<1> QED
  BY <1>2, <1>3, MovedOn

LEMMA StillHears ==
    ASSUME DInv, RInv, EInv, UNCHANGED <<client, registry, task>>
    PROVE  EInv' /\ HeardStep
<1>1. Moved({})
  BY RegistryStays, FeltNothing DEF Moved, registry
<1> QED
  BY <1>1, MovedOn

\* How a walk begins.
LEMMA PersonalReady ==
    ASSUME DInv, RInv, EInv, NEW u \in Online
    PROVE  LET w == PersonalWalk(u) IN
           /\ w \in Task /\ w.at = "send" /\ Ready(w)
           /\ \A s \in w.owed : client[s].link # "new"
<1> DEFINE w == PersonalWalk(u)
           b == [Resting("send") EXCEPT !.user = u]
           c == [b EXCEPT !.stamp = stamp[u]]
           d == [c EXCEPT !.owed = listed[u]]
<1>1. u \in Users /\ stamp[u] \in Nat /\ listed[u] \in SUBSET Sockets
  BY ConstantsOK DEF Online, DInv, TypeOK, Sockets
<1>2. w \in Task
  <2>1. b \in Task
    BY <1>1, RestingOK
  <2>2. c \in Task
    BY <1>1, <2>1, TaskUpdates
  <2>3. d \in Task
    BY <1>1, <2>2, TaskUpdates
  <2> QED
    BY <2>3 DEF PersonalWalk
<1>3. /\ w.at = "send" /\ w.user = u /\ w.stamp = stamp[u] /\ w.index = 0 /\ w.scope = "one"
      /\ w.sending = 0 /\ w.owed = listed[u]
  BY DEF PersonalWalk, Resting
<1> HIDE DEF w
<1>4. Spots(listed, stamp, w) = listed[u]
  BY <1>1, <1>3 DEF Spots
<1>5. Placed(listed, stamp, w)
  BY <1>1, <1>3, <1>4, NoneUpToZero DEF Placed
<1>6. \A s \in listed[u] : /\ client[s].user = u /\ client[s].link # "new" /\ s > 0
  BY <1>1, ConstantsOK DEF RInv, RegistryIsTrue, Sockets
<1>7. Ready(w)
  BY <1>3, <1>5, <1>6 DEF Ready, Reaches, Ahead
<1> QED
  BY <1>2, <1>3, <1>6, <1>7 DEF w

LEMMA BroadcastReady ==
    ASSUME DInv, RInv, EInv
    PROVE  LET w == BroadcastWalk IN
           /\ w \in Task /\ w.at = "send" /\ Ready(w)
           /\ \A s \in w.owed : client[s].link # "new"
<1> DEFINE w == BroadcastWalk
           n == Cardinality(Online)
           S == UNION {listed[u] : u \in Users}
           a == [Resting("send") EXCEPT !.scope = "all"]
           b == [a EXCEPT !.size = n]
           c == [b EXCEPT !.left = n]
           d == [c EXCEPT !.owed = S]
<1>1. n \in Nat /\ S \in SUBSET Sockets
  BY CountsOK DEF DInv, Online, TypeOK
<1>2. w = d
  BY DEF BroadcastWalk
<1>3. /\ w.at = "send" /\ w.user = NoUser /\ w.stamp = 0 /\ w.index = 0 /\ w.scope = "all"
      /\ w.sending = 0 /\ w.owed = S /\ w.size = n /\ w.left = n
  BY DEF BroadcastWalk, Resting
<1>4. \A s \in S : s \in Sockets /\ client[s].link # "new"
  BY <1>1 DEF RInv, RegistryIsTrue
<1> HIDE DEF w, n, S
<1>5. w \in Task
  <2>1. a \in Task
    BY RestingOK DEF Task
  <2>2. b \in Task
    BY <1>1, <2>1 DEF Task
  <2>3. c \in Task
    BY <1>1, <2>2, TaskUpdates
  <2> QED
    BY <1>1, <1>2, <2>3, TaskUpdates
<1>6. Spots(listed, stamp, w) = {} /\ w.user \notin Users
  BY <1>3, ConstantsOK DEF Spots
<1>7. Behind(stamp, 0) = In(stamp) /\ n = Cardinality(In(stamp))
  BY ConstantsOK DEF Behind, In, n, Online, DInv, TypeOK, Sockets
<1>8. Placed(listed, stamp, w)
  BY <1>3, <1>6, <1>7, NoneUpToZero DEF Placed
<1>9. ASSUME NEW s \in S, client[s].link = "open" PROVE Ahead(client, stamp, w, s)
  <2>1. client[s].user \in Online /\ stamp[client[s].user] \in Nat
    BY <1>4, <1>9, TabsAreListed DEF DInv
  <2> QED
    BY <1>3, <2>1 DEF Ahead, Online
<1> QED
  BY <1>3, <1>4, <1>5, <1>8, <1>9 DEF w, Ready, Reaches

\* A walk that begins, at a coroutine that was not at a send.
LEMMA BeginHears ==
    ASSUME DInv, RInv, EInv, client' = client, NEW t \in Tasks, task[t].at # "send",
           NEW w \in Task, w.at = "send", Ready(w),
           \A s \in w.owed : client[s].link # "new", Continue(t, w)
    PROVE  EInv' /\ HeardStep
<1>1. Moved({t})
  BY ContinueMoves
<1>2. OnItsWay(client', listed', stamp', task'[t])
  BY ContinueOnItsWay
<1>3. Heard(t)
  BY DEF Heard
<1> QED
  BY <1>1, <1>2, <1>3, MovedOn

LEMMA PushHears ==
    ASSUME DInv, RInv, EInv, NEW t \in Tasks, Push(t)
    PROVE  EInv' /\ HeardStep
<1>1. task[t].at = "push" /\ client' = client
  BY DEF Push
<1>2. CASE task' = [task EXCEPT ![t] = Resting("waiting")] /\ UNCHANGED registry
  BY <1>1, <1>2, RestingOK, ElsewhereHears
<1>3. CASE task[t].user \in Online /\ Continue(t, PersonalWalk(task[t].user))
  BY <1>1, <1>3, PersonalReady, BeginHears
<1> QED
  BY <1>2, <1>3 DEF Push

LEMMA FetchHears ==
    ASSUME DInv, RInv, EInv, Fetch
    PROVE  EInv' /\ HeardStep
<1>1. client' = client /\ Consumer \in Tasks /\ task[Consumer].at = "waiting"
  BY DEF Fetch, Tasks
<1>2. CASE task' = [task EXCEPT ![Consumer] = [Resting("save") EXCEPT !.user = log[pos']]]
           /\ UNCHANGED registry
  <2>1. [Resting("save") EXCEPT !.user = log[pos']].at = "save"
    BY DEF Resting
  <2> QED
    BY <1>1, <1>2, <2>1, ElsewhereHears
<1>3. CASE UNCHANGED <<task, registry>>
  BY <1>1, <1>3, StillHears
<1>4. CASE Continue(Consumer, BroadcastWalk)
  BY <1>1, <1>4, BroadcastReady, BeginHears
<1> QED
  BY <1>2, <1>3, <1>4 DEF Fetch

\* A walk that ends at this send.  The socket it stood at is served, or is gone.
LEMMA SendDoneHears ==
    ASSUME DInv, RInv, EInv, NEW t \in Tasks, SendDone(t)
    PROVE  EInv' /\ HeardStep
<1> DEFINE w == task[t]
           a == [w EXCEPT !.owed = @ \ {w.sending}]
           b == [w EXCEPT !.dead = Append(@, <<w.user, w.sending>>)]
<1>1. w.at = "send" /\ client' = client
  BY DEF SendDone
<1>2. /\ w \in Task /\ w.user \in Users /\ w.sending \in Sockets
      /\ OnItsWay(client, listed, stamp, w)
  BY <1>1 DEF DInv, TypeOK, Walking, Standing, EInv
<1>3. ASSUME NEW v \in Task, Continue(t, v), v.owed \in {w.owed, w.owed \ {w.sending}},
             v.owed = w.owed => client[w.sending].link # "open" \/ w.sending \notin w.owed,
             v.at = w.at, v.user = w.user, v.stamp = w.stamp, v.index = w.index,
             v.scope = w.scope, v.size = w.size, v.left = w.left, v.sending = w.sending,
             v.disturbed = w.disturbed
      PROVE  EInv' /\ HeardStep
  <2>1. \A s \in v.owed : client[s].link # "new"
    BY <1>1, <1>2, <1>3 DEF OnItsWay
  <2>2. ASSUME ~v.disturbed PROVE Ready(v)
    <3>1. OnTrack(client, listed, stamp, w)
      BY <1>1, <1>2, <1>3, <2>2 DEF OnItsWay
    <3>2. Placed(listed, stamp, v)
      BY <1>3, <3>1 DEF OnTrack, Placed, Spots
    <3>3. Reaches(client, stamp, v, v.owed)
      BY <1>3, <3>1 DEF OnTrack, Reaches, Ahead
    <3> QED
      BY <3>2, <3>3 DEF Ready
  <2>3. /\ OnItsWay(client', listed', stamp', task'[t])
        /\ task'[t].at # "send" /\ ~v.disturbed => \A s \in v.owed : client[s].link # "open"
    BY <1>1, <1>3, <2>1, <2>2, ContinueOnItsWay
  <2>4. Heard(t)
    BY <1>3, <2>3 DEF Heard
  <2>5. Moved({t})
    BY <1>1, <1>3, ContinueMoves
  <2> QED
    BY <2>3, <2>4, <2>5, MovedOn
<1>4. CASE Continue(t, a)
  <2>1. a \in Task
    BY <1>2 DEF Task
  <2>2. /\ a.owed = w.owed \ {w.sending} /\ a.at = w.at /\ a.user = w.user /\ a.stamp = w.stamp
        /\ a.index = w.index /\ a.scope = w.scope /\ a.size = w.size /\ a.left = w.left
        /\ a.sending = w.sending /\ a.disturbed = w.disturbed
    BY <1>2 DEF Task
  <2> HIDE DEF a
  <2> QED
    BY <1>3, <1>4, <2>1, <2>2
<1>5. CASE client[w.sending].link # "open" /\ Continue(t, b)
  <2> DEFINE d == Append(w.dead, <<w.user, w.sending>>)
  <2>1. d \in Seq(Users \X Sockets)
    BY <1>2 DEF Task
  <2>2. b = [w EXCEPT !.dead = d]
    OBVIOUS
  <2>3. b \in Task
    BY <1>2, <2>1, <2>2, TaskUpdates
  <2>4. /\ b.owed = w.owed /\ b.at = w.at /\ b.user = w.user /\ b.stamp = w.stamp
        /\ b.index = w.index /\ b.scope = w.scope /\ b.size = w.size /\ b.left = w.left
        /\ b.sending = w.sending /\ b.disturbed = w.disturbed
    BY <1>2 DEF Task
  <2> HIDE DEF b
  <2> QED
    BY <1>3, <1>5, <2>3, <2>4
<1> QED
  BY <1>4, <1>5 DEF SendDone

LEMMA OthersHear ==
    ASSUME DInv, RInv, EInv,
           \/ \E e \in Users \cup {Everyone, Nobody} : Publish(e)
           \/ Start \/ Save
           \/ \E t \in Emitters, u \in Users : Emit(t, u)
           \/ \E u \in Users : MarkAllRead(u) \/ \E k \in DOMAIN notices : MarkRead(u, k)
    PROVE  EInv' /\ HeardStep
<1>1. Consumer \in Tasks /\ Emitters \subseteq Tasks
  BY DEF Tasks
<1>2. /\ UNCHANGED <<client, registry>>
      /\ \/ task' = task
         \/ \E t \in Tasks, w \in {Resting("waiting"), [task[Consumer] EXCEPT !.at = "push"]} \cup
                                  {[Resting("push") EXCEPT !.user = u] : u \in Users} :
               task[t].at # "send" /\ task' = [task EXCEPT ![t] = w]
  BY <1>1 DEF Publish, Start, Save, Emit, MarkAllRead, MarkRead
<1>3. ASSUME NEW t \in Tasks,
             NEW w \in {Resting("waiting"), [task[Consumer] EXCEPT !.at = "push"]} \cup
                       {[Resting("push") EXCEPT !.user = u] : u \in Users},
             task[t].at # "send", task' = [task EXCEPT ![t] = w]
      PROVE  EInv' /\ HeardStep
  <2>1. task[Consumer] \in Task
    BY <1>1 DEF DInv, TypeOK
  <2>2. w.at # "send"
    BY <2>1 DEF Resting, Task
  <2> QED
    BY <1>2, <1>3, <2>2, ElsewhereHears
<1> QED
  BY <1>2, <1>3, StillHears

\* A restart ends every walk, and the property leaves it out.
LEMMA RestartHears ==
    ASSUME DInv, RInv, EInv, Restart
    PROVE  EInv' /\ HeardStep
<1>1. restarts' # restarts
  BY DEF Restart, DInv, TypeOK
<1>2. /\ \A s \in Sockets : client'[s].link = "new" <=> client[s].link = "new"
      /\ \A u \in Users : stamp'[u] \in {0, stamp[u]}
  BY DEF Restart, Gone
<1>3. Numbering(client', stamp')
  BY <1>2, NumberingFades DEF EInv, DInv
<1>4. \A t \in Tasks : task'[t].at # "send"
  BY DEF Restart, Resting
<1> QED
  BY <1>1, <1>3, <1>4 DEF EInv, OnItsWay, HeardStep, Heard

LEMMA NextHears ==
    ASSUME DInv, RInv, EInv, Next
    PROVE  EInv' /\ HeardStep
<1>1. ASSUME NEW t \in Tasks, Proceed(t) PROVE EInv' /\ HeardStep
  BY <1>1, PushHears, SendDoneHears DEF Proceed
<1>2. Consumer \in Tasks /\ Emitters \subseteq Tasks
  BY DEF Tasks
<1>3. CASE \E u \in Users, s \in Sockets : Connect(u, s)
  BY <1>3, ConnectHears
<1>4. CASE \E s \in Sockets : Break(s) \/ Disconnect(s)
  BY <1>4, BreakHears, DisconnectHears
<1>5. CASE Consume
  BY <1>1, <1>2, <1>5, FetchHears, OthersHear DEF Consume
<1>6. CASE \E t \in Emitters : Proceed(t) \/ \E u \in Users : Emit(t, u)
  BY <1>1, <1>2, <1>6, OthersHear
<1>7. CASE \/ \E e \in Users \cup {Everyone, Nobody} : Publish(e)
           \/ \E u \in Users : MarkAllRead(u) \/ \E k \in DOMAIN notices : MarkRead(u, k)
  BY <1>7, OthersHear
<1>8. CASE Restart
  BY <1>8, RestartHears
<1> QED
  BY <1>3, <1>4, <1>5, <1>6, <1>7, <1>8 DEF Next

LEMMA InitHears == Init => EInv
<1> SUFFICES ASSUME Init PROVE EInv
  OBVIOUS
<1>1. \A t \in Tasks : task[t].at # "send"
  BY DEF Init, Resting
<1> QED
  BY <1>1 DEF Init, EInv, OnItsWay, Numbering, In

\* A push that nobody disturbed ends only when each tab that was listed when it
\* began, and is still there, was sent the message, however many others broke.
THEOREM UndisturbedPushesReachAll == Spec => EveryoneHears
<1>1. Init => DInv /\ RInv /\ EInv
  BY InitStep, InitRegistry, InitHears
<1>2. DInv /\ RInv /\ EInv /\ [Next]_vars => DInv' /\ RInv' /\ EInv' /\ [HeardStep]_vars
  <2> SUFFICES ASSUME DInv, RInv, EInv, [Next]_vars
               PROVE  DInv' /\ RInv' /\ EInv' /\ [HeardStep]_vars
    OBVIOUS
  <2>1. CASE Next
    BY <2>1, NextStep, NextRegistry, NextHears
  <2>2. CASE UNCHANGED vars
    <3>1. RInv'
      BY <2>2 DEF vars, RInv, RegistryIsTrue, GhostsAreTorn, Online
    <3>2. EInv'
      BY <2>2, StillHears DEF vars, registry
    <3> QED
      BY <2>2, <3>1, <3>2, StutterStep
  <2> QED
    BY <2>1, <2>2
<1>3. [HeardStep]_vars =>
         [\A t \in Tasks :
            /\ task[t].at = "send" /\ task'[t].at # "send" /\ restarts' = restarts
            /\ ~task[t].disturbed
            => \A s \in task[t].owed \ {task[t].sending} :
                  client[s].link = "open" => \A u \in Users : s \notin listed[u]]_vars
  BY DEF HeardStep, Heard
<1> QED
  BY <1>1, <1>2, <1>3, PTL DEF Spec, EveryoneHears

====
