---- MODULE ThreadsProofs ----
(***************************************************************************)
(* What Threads promises for any number of users, threads and handlers,    *)
(* under lost events and restarts.                                         *)
(***************************************************************************)
EXTENDS Threads, TLAPS, FiniteSetTheorems

-----------------------------------------------------------------------------
(* The invariant.  What a commit writes and what a broadcast says was read  *)
(* several steps before, so the invariant says of every request what still  *)
(* holds of what it has read.                                               *)

\* The fields that a request of this kind has are set, and its rows are there.
Shaped(w) ==
    LET r == req[w] IN
    /\ r.at = "idle" => r.op = "none"
    /\ r.at # "idle" =>
        /\ r.op # "none" /\ r.actor \in Users
        /\ r.op # "review" => r.id \in Ids /\ Exists(r.id)
        /\ r.op \in {"create", "edit", "delete"} =>
              /\ r.row \in Thread
              /\ r.row.author = threads[r.id].author
              /\ r.row.community = threads[r.id].community
        /\ r.op \in {"create", "edit"} => r.actor = r.row.author
        /\ r.op = "edit" => r.dirty \subseteq Columns
        /\ r.op = "delete" => r.dirty = {"life"} /\ MayDelete(r.actor, r.row.author)
        /\ r.op = "create" => r.at \in {"alert", "tell"}
        /\ r.op = "edit" => r.at \in {"commit", "tell"}
        /\ r.op = "delete" => r.at \in {"commit", "alert", "tell"}
        /\ r.op = "like" => r.at \in {"commit", "count", "tell", "alert"}
        /\ r.op = "report" => r.at \in {"commit", "admins"}
        /\ r.op = "review" => r.at = "commit"
        /\ r.op = "create" /\ r.at = "alert" => r.row.community \in Communities
        /\ r.op = "review" => r.report \in ReportIds /\ reports[r.report] # NoRow
                              /\ r.status \in Verdicts
        /\ r.at = "admins" => r.report \in ReportIds /\ reports[r.report] # NoRow

\* What it has read is so, but for the aspects that have changed since.
Knowing(w) ==
    LET r == req[w] IN
    /\ r.op = "create" =>
        /\ page[r.id] = NoRow
        /\ "life" \notin r.crossed => Live(r.id)
        /\ \A k \in Columns \ r.crossed : threads[r.id].text[k] = r.row.text[k]
        /\ "likes" \notin r.crossed => LikeCount(r.id) = 0
    /\ r.op = "edit" =>
        \A k \in Columns \ r.crossed :
            r.at = "tell" \/ k \notin r.dirty => threads[r.id].text[k] = r.row.text[k]
    /\ r.op = "delete" /\ r.at \in {"alert", "tell"} => ~Live(r.id)
    /\ r.op = "like" /\ r.at = "tell" /\ "likes" \notin r.crossed => r.count = LikeCount(r.id)
    /\ r.op = "like" /\ "own" \notin r.crossed =>
        /\ r.at = "commit" => likes[r.id][r.actor] = r.like
        /\ r.at \in {"count", "tell"} => (likes[r.id][r.actor] # 0 <=> r.like = 0)

\* The pending reports that a reporter did not find are younger than his search.
Searching(w) ==
    LET r == req[w] IN
    r.op = "report" /\ r.at = "commit" =>
        /\ r.since <= nextReport
        /\ \A i \in ReportIds :
              reports[i] # NoRow /\ reports[i].thread = r.id /\ reports[i].by = r.actor
              /\ reports[i].status = "pending" => r.since <= i

\* The alert m follows from the tables.
Due(m) ==
    \/ /\ m.type \in {"community_thread", "thread_deleted", "thread_like"}
       /\ Exists(m.thread)
       /\ m.user # m.actor
       /\ \/ /\ m.type = "community_thread"
             /\ threads[m.thread].community # NoRow
             /\ m.user = CommunityOwner[threads[m.thread].community]
             /\ m.actor = threads[m.thread].author
          \/ /\ m.type = "thread_deleted"
             /\ m.user = threads[m.thread].author
             /\ m.actor \in threads[m.thread].deleters
          \/ /\ m.type = "thread_like"
             /\ m.user = threads[m.thread].author
             /\ likes[m.thread][m.actor] # 0
    \/ /\ m.type = "thread_report"
       /\ m.user \in Admins
       /\ \E i \in ReportIds :
             reports[i] # NoRow /\ reports[i].thread = m.thread /\ reports[i].by = m.actor
\* The handler w is about to send it.
Owing(w, m) ==
    LET r == req[w] IN
    /\ m.thread = r.id /\ m.actor = r.actor
    /\ \/ m.type = "community_thread" /\ r.op = "create" /\ r.at = "alert"
       \/ m.type = "thread_deleted" /\ r.op = "delete" /\ r.at = "alert"
       \/ m.type = "thread_like" /\ r.op = "like" /\ r.like = 0
          /\ r.at \in {"count", "tell", "alert"}
       \/ m.type = "thread_report" /\ r.op = "report" /\ r.at = "admins" /\ m.user \in r.todo
Informed ==
    "lose_alert" \notin Faults /\ restarts = 0 =>
        \A m \in Alert : Due(m) => m \in alerts \/ \E w \in Workers : Owing(w, m)

\* Ids are handed out in order; likes and views are of threads there are.
Linked ==
    /\ \A t \in Ids : Exists(t) <=> t < nextId
    /\ \A t \in Ids : ~Exists(t) => page[t] = NoRow /\ \A u \in Users : likes[t][u] = 0
    /\ \A i \in ReportIds : reports[i] # NoRow <=> i < nextReport
\* A thread is created once.
CreatedOnce ==
    \A v, w \in Workers : req[v].op = "create" /\ req[w].op = "create" /\ req[v].id = req[w].id
        => v = w

ThreadsInv ==
    /\ TypeOK
    /\ Linked
    /\ CreatedOnce
    /\ \A w \in Workers : Shaped(w) /\ Knowing(w) /\ Searching(w)
    /\ MisledForCause
    /\ OnlyRacesDuplicateReport
    /\ Informed

-----------------------------------------------------------------------------
(* A step of the handler w, seen by the others.                            *)

\* The step changes what it says, of the thread t: the aspects in S, and for
\* "own" the like of the user a.
Moves(w, t, a, S) ==
    /\ \A x \in Ids : Exists(x) =>
         /\ Exists(x)'
         /\ threads'[x].author = threads[x].author
         /\ threads'[x].community = threads[x].community
         /\ \A k \in Columns :
              x # t \/ k \notin S => threads'[x].text[k] = threads[x].text[k]
         /\ x # t \/ "life" \notin S => (Live(x)' <=> Live(x))
         /\ ~Live(x) => ~Live(x)'
         /\ x # t \/ "likes" \notin S => LikeCount(x)' = LikeCount(x)
         /\ \A u \in Users : x # t \/ u # a \/ "own" \notin S => likes'[x][u] = likes[x][u]
         /\ page[x] = NoRow => page'[x] = NoRow \/ (req[w].op = "create" /\ req[w].id = x)
    /\ nextReport' \in Nat /\ nextReport <= nextReport'
    /\ \A i \in ReportIds :
         /\ reports[i] # NoRow =>
              /\ reports'[i] # NoRow
              /\ reports'[i].thread = reports[i].thread /\ reports'[i].by = reports[i].by
              /\ reports'[i].status = "pending" => reports[i].status = "pending"
         /\ reports[i] = NoRow /\ reports'[i] # NoRow => i >= nextReport

LEMMA Unmoved ==
    ASSUME ThreadsInv, UNCHANGED <<tables, page>>, NEW w, NEW t, NEW a
    PROVE  Moves(w, t, a, {})
<1>1. nextReport \in Nat
    BY ConstantsOK DEF ThreadsInv, TypeOK
<1> QED BY <1>1 DEF Moves, tables, Exists, Live, LikeCount

LEMMA StepEffect ==
    ASSUME TypeOK, NEW w \in Workers, NEW r \in Request, NEW S \in SUBSET (Aspects \cup {"own"}),
           Step(w, r, S)
    PROVE  /\ req' \in [Workers -> Request]
           /\ req'[w] = r
           /\ \A v \in Workers \ {w} :
                /\ req'[v] = [req[v] EXCEPT !.crossed = req'[v].crossed]
                /\ req[v].crossed \subseteq req'[v].crossed
                /\ req[v].id # r.id => req'[v] = req[v]
                /\ req[v].id = r.id => Knows(req[v]) \cap (S \ {"own"}) \subseteq req'[v].crossed
                /\ req[v].id = r.id /\ req[v].actor = r.actor =>
                      Knows(req[v]) \cap S \subseteq req'[v].crossed
<1> DEFINE more(v) == Crossing(req[v], r, S)
<1>1. \A v \in Workers : req'[v] = IF v = w THEN r
                ELSE [req[v] EXCEPT !.crossed = @ \cup more(v)]
    BY DEF Step
<1>2. \A v \in Workers : req[v] \in Request
    BY DEF TypeOK
<1>3. \A q \in Request, X \in SUBSET (Aspects \cup {"own"}) :
        [q EXCEPT !.crossed = @ \cup X] \in Request
    BY DEF Request
<1>4. \A v \in Workers : more(v) \in SUBSET (Aspects \cup {"own"})
    BY DEF Crossing
<1>5. \A v \in Workers : req'[v] \in Request
    <2> SUFFICES ASSUME NEW v \in Workers PROVE req'[v] \in Request
        OBVIOUS
    <2>1. CASE v = w
        BY <1>1, <2>1
    <2>2. CASE v # w
        <3>1. req'[v] = [req[v] EXCEPT !.crossed = req[v].crossed \cup more(v)]
            BY <1>1, <2>2
        <3>2. req[v] \in Request /\ more(v) \in SUBSET (Aspects \cup {"own"})
            BY <1>2, <1>4
        <3> HIDE DEF more
        <3>3. [req[v] EXCEPT !.crossed = req[v].crossed \cup more(v)] \in Request
            BY <1>3, <3>2
        <3> QED BY <3>1, <3>3
    <2> QED BY <2>1, <2>2
<1>6. req' \in [Workers -> Request]
    BY <1>5 DEF Step
<1>7. ASSUME NEW v \in Workers \ {w}
      PROVE  /\ req'[v] = [req[v] EXCEPT !.crossed = req'[v].crossed]
             /\ req[v].crossed \subseteq req'[v].crossed
             /\ req[v].id # r.id => req'[v] = req[v]
             /\ more(v) \subseteq req'[v].crossed
    <2>1. req[v] \in Request /\ req'[v] = [req[v] EXCEPT !.crossed = req[v].crossed \cup more(v)]
        BY <1>1, <1>2
    <2>2. req[v].id # r.id => more(v) = {}
        BY DEF Crossing
    <2>3. \A X : [req[v] EXCEPT !.crossed = X].crossed = X
        BY <2>1 DEF Request
    <2>4. [req[v] EXCEPT !.crossed = req[v].crossed] = req[v]
        BY <2>1 DEF Request
    <2>5. req'[v].crossed = req[v].crossed \cup more(v)
        BY <2>1, <2>3
    <2>6. more(v) = {} => req'[v] = req[v]
        BY <2>1, <2>4
    <2> HIDE DEF more
    <2> QED BY <2>1, <2>2, <2>5, <2>6
<1>8. \A v \in Workers : req[v].id = r.id =>
        /\ Knows(req[v]) \cap (S \ {"own"}) \subseteq more(v)
        /\ req[v].actor = r.actor => more(v) = Knows(req[v]) \cap S
    BY DEF Crossing
<1> QED BY <1>1, <1>6, <1>7, <1>8

LEMMA OthersKeep ==
    ASSUME ThreadsInv, NEW w \in Workers, NEW r \in Request,
           NEW S \in SUBSET (Aspects \cup {"own"}), Step(w, r, S),
           Moves(w, r.id, r.actor, S), NEW v \in Workers \ {w}
    PROVE  Shaped(v)' /\ Knowing(v)' /\ Searching(v)'
<1> DEFINE q == req[v]
<1>1. /\ req'[v] = [q EXCEPT !.crossed = req'[v].crossed]
      /\ q.crossed \subseteq req'[v].crossed
      /\ q.id = r.id => Knows(q) \cap (S \ {"own"}) \subseteq req'[v].crossed
      /\ q.id = r.id /\ q.actor = r.actor => Knows(q) \cap S \subseteq req'[v].crossed
    BY StepEffect DEF ThreadsInv
<1>2. q \in Request
    BY DEF ThreadsInv, TypeOK
<1>3. /\ req'[v].op = q.op /\ req'[v].at = q.at /\ req'[v].id = q.id /\ req'[v].row = q.row
      /\ req'[v].actor = q.actor /\ req'[v].dirty = q.dirty /\ req'[v].like = q.like
      /\ req'[v].count = q.count /\ req'[v].report = q.report /\ req'[v].since = q.since
      /\ req'[v].status = q.status
    BY <1>1, <1>2 DEF Request
<1>4. Shaped(v) /\ Knowing(v) /\ Searching(v)
    BY DEF ThreadsInv
<1>5. Shaped(v)'
    BY <1>3, <1>4 DEF Shaped, Moves
<1>6. Searching(v)'
    <2> SUFFICES ASSUME q.op = "report", q.at = "commit"
                 PROVE  /\ q.since <= nextReport'
                        /\ \A i \in ReportIds :
                             reports'[i] # NoRow /\ reports'[i].thread = q.id
                             /\ reports'[i].by = q.actor /\ reports'[i].status = "pending"
                             => q.since <= i
        BY <1>3 DEF Searching
    <2>1. /\ q.since \in Nat /\ nextReport \in Nat /\ nextReport' \in Nat
          /\ nextReport <= nextReport' /\ q.since <= nextReport
        <3>1. q.since \in 1..(MaxReport + 1) /\ nextReport \in 1..(MaxReport + 1)
            BY <1>2 DEF Request, ThreadsInv, TypeOK
        <3>2. q.since <= nextReport
            BY <1>4 DEF Searching
        <3>3. nextReport' \in Nat /\ nextReport <= nextReport'
            BY DEF Moves
        <3> QED BY <3>1, <3>2, <3>3, ConstantsOK
    <2>2. ReportIds \subseteq Nat
        BY ConstantsOK DEF ReportIds
    <2>3. q.since <= nextReport'
        BY <2>1
    <2>4. ASSUME NEW i \in ReportIds,
                 reports'[i] # NoRow, reports'[i].thread = q.id, reports'[i].by = q.actor,
                 reports'[i].status = "pending"
          PROVE  q.since <= i
        <3>1. CASE reports[i] = NoRow
            <4>1. i >= nextReport
                BY <2>4, <3>1 DEF Moves
            <4> QED BY <2>1, <2>2, <4>1
        <3>2. CASE reports[i] # NoRow
            <4>1. /\ reports[i].thread = q.id /\ reports[i].by = q.actor
                  /\ reports[i].status = "pending"
                BY <2>4, <3>2 DEF Moves
            <4> QED BY <1>4, <3>2, <4>1 DEF Searching
        <3> QED BY <3>1, <3>2
    <2> QED BY <2>3, <2>4
<1>7. Knowing(v)'
    <2>1. CASE q.op = "create"
        <3>1. q.id \in Ids /\ Exists(q.id) /\ Knows(q) = Aspects
            BY <1>4, <2>1 DEF Shaped, Knows
        <3>2. ~(req[w].op = "create" /\ req[w].id = q.id)
            BY <2>1 DEF ThreadsInv, CreatedOnce
        <3>3. page'[q.id] = NoRow
            BY <1>4, <2>1, <3>1, <3>2 DEF Knowing, Moves
        <3>4. "life" \notin req'[v].crossed => Live(q.id)'
            BY <1>1, <1>3, <1>4, <2>1, <3>1 DEF Knowing, Moves, Aspects, Live, Exists
        <3>5. \A k \in Columns \ req'[v].crossed : threads'[q.id].text[k] = q.row.text[k]
            <4> SUFFICES ASSUME NEW k \in Columns, k \notin req'[v].crossed
                         PROVE  threads'[q.id].text[k] = q.row.text[k]
                OBVIOUS
            <4>1. k \notin q.crossed /\ k \in Knows(q) /\ k # "own"
                BY <1>1, <3>1 DEF Aspects, Columns
            <4>2. threads[q.id].text[k] = q.row.text[k]
                BY <1>4, <2>1, <4>1 DEF Knowing
            <4>3. q.id # r.id \/ k \notin S
                BY <1>1, <4>1
            <4>4. threads'[q.id].text[k] = threads[q.id].text[k]
                BY <3>1, <4>3 DEF Moves
            <4> QED BY <4>2, <4>4
        <3>6. "likes" \notin req'[v].crossed => LikeCount(q.id)' = 0
            BY <1>1, <1>3, <1>4, <2>1, <3>1 DEF Knowing, Moves, Aspects, LikeCount
        <3> QED BY <1>3, <2>1, <3>3, <3>4, <3>5, <3>6 DEF Knowing
    <2>2. CASE q.op = "edit"
        <3>1. q.at # "idle" => q.id \in Ids /\ Exists(q.id) /\ Knows(q) = Columns
            BY <1>4, <2>2 DEF Shaped, Knows
        <3>2. q.at # "idle"
            BY <1>4, <2>2 DEF Shaped
        <3>3. ASSUME NEW k \in Columns, k \notin req'[v].crossed
              PROVE  k \notin q.crossed /\ threads'[q.id].text[k] = threads[q.id].text[k]
            <4>1. k \notin q.crossed /\ k # "own"
                BY <1>1, <3>3 DEF Columns
            <4>2. q.id # r.id \/ k \notin S
                BY <1>1, <3>1, <3>2, <3>3, <4>1
            <4> QED BY <3>1, <3>2, <4>1, <4>2 DEF Moves
        <3>4. \A k \in Columns \ req'[v].crossed :
                q.at = "tell" \/ k \notin q.dirty => threads'[q.id].text[k] = q.row.text[k]
            BY <1>4, <2>2, <3>3 DEF Knowing
        <3> QED BY <1>3, <2>2, <3>4 DEF Knowing
    <2>3. CASE q.op = "delete"
        <3>1. q.at \in {"alert", "tell"} => q.id \in Ids /\ Exists(q.id)
            BY <1>4, <2>3 DEF Shaped
        <3> QED BY <1>3, <1>4, <2>3, <3>1 DEF Knowing, Moves
    <2>4. CASE q.op = "like"
        <3>1. q.at # "idle" => q.id \in Ids /\ Exists(q.id) /\ q.actor \in Users
            BY <1>4, <2>4 DEF Shaped
        <3>2. "own" \in Knows(q) /\ (q.at = "tell" => "likes" \in Knows(q))
            BY <2>4 DEF Knows
        <3>3. q.at = "tell" /\ "likes" \notin req'[v].crossed => q.count = LikeCount(q.id)'
            BY <1>1, <1>3, <1>4, <2>4, <3>1, <3>2 DEF Knowing, Moves, LikeCount
        <3>4. q.at # "idle" /\ "own" \notin req'[v].crossed =>
                 "own" \notin q.crossed /\ likes'[q.id][q.actor] = likes[q.id][q.actor]
            BY <1>1, <3>1, <3>2 DEF Moves
        <3> QED BY <1>3, <1>4, <2>4, <3>3, <3>4 DEF Knowing
    <2>5. CASE q.op \notin {"create", "edit", "delete", "like"}
        BY <1>3, <2>5 DEF Knowing
    <2> QED BY <2>1, <2>2, <2>3, <2>4, <2>5
<1> QED BY <1>5, <1>6, <1>7

-----------------------------------------------------------------------------
(* What a step keeps of the parts that speak of several handlers.          *)

\* What stays of the request of another handler.
Alike(q, p) ==
    /\ q.op = p.op /\ q.at = p.at /\ q.id = p.id /\ q.actor = p.actor
    /\ q.like = p.like /\ q.todo = p.todo /\ q.dirty = p.dirty /\ q.row = p.row

LEMMA OthersAlike ==
    ASSUME TypeOK, NEW w \in Workers, NEW r \in Request,
           NEW S \in SUBSET (Aspects \cup {"own"}), Step(w, r, S)
    PROVE  req'[w] = r /\ \A v \in Workers \ {w} : Alike(req'[v], req[v])
<1>1. req'[w] = r /\ \A v \in Workers \ {w} :
            req'[v] = [req[v] EXCEPT !.crossed = req'[v].crossed]
    BY StepEffect
<1>2. \A v \in Workers : req[v] \in Request
    BY DEF TypeOK
<1>3. ASSUME NEW v \in Workers \ {w} PROVE Alike(req'[v], req[v])
    <2>1. req[v] \in Request
        BY <1>2
    <2> QED BY <1>1, <2>1 DEF Alike, Request
<1> QED BY <1>1, <1>3

LEMMA PageKept ==
    ASSUME ThreadsInv, NEW w \in Workers, NEW r \in Request,
           NEW S \in SUBSET (Aspects \cup {"own"}), Step(w, r, S),
           Moves(w, r.id, r.actor, S), UNCHANGED shown,
           S \cap Aspects \subseteq Untold(r), Untold(req[w]) \subseteq Untold(r),
           Untold(req[w]) = {} \/ req[w].id = r.id,
           \A x \in Ids : Exists(x)' /\ ~Exists(x) => x = r.id /\ Untold(r) = Aspects
    PROVE  MisledForCause'
<1> SUFFICES ASSUME NEW t \in Ids, NEW k \in Aspects,
                    k \notin doubt[t], k \notin Unannounced(t)'
             PROVE  Agrees(t, k)'
    BY DEF MisledForCause, shown
<1>1. req'[w] = r /\ \A v \in Workers \ {w} : Alike(req'[v], req[v])
    BY OthersAlike DEF ThreadsInv
<1>2. ASSUME NEW v \in Workers, req[v].id = t, k \in Untold(req[v]) PROVE FALSE
    <2>1. CASE v = w
        BY <1>1, <1>2, <2>1 DEF Unannounced
    <2>2. CASE v # w
        <3>1. Alike(req'[v], req[v])
            BY <1>1, <2>2
        <3>2. k \in Untold(req'[v]) /\ req'[v].id = t
            BY <1>2, <3>1 DEF Alike, Untold, News, Omitted
        <3> QED BY <3>2 DEF Unannounced
    <2> QED BY <2>1, <2>2
<1>3. Agrees(t, k)
    BY <1>2 DEF ThreadsInv, MisledForCause, Unannounced
<1>4. t = r.id => k \notin Untold(r)
    BY <1>1 DEF Unannounced
<1>5. CASE ~Exists(t)
    <2>1. ~Exists(t)' /\ page[t] = NoRow
        BY <1>4, <1>5 DEF ThreadsInv, Linked
    <2> QED BY <2>1 DEF Agrees, Answer, shown, Live, Exists
<1>6. CASE Exists(t)
    <2>1. t # r.id \/ k \notin S
        BY <1>4
    <2>2. k = "life" => (Live(t)' <=> Live(t))
        BY <1>6, <2>1 DEF Moves
    <2>3. k \in Columns => threads'[t].text[k] = threads[t].text[k]
        BY <1>6, <2>1 DEF Moves
    <2>4. k = "likes" => LikeCount(t)' = LikeCount(t)
        BY <1>6, <2>1 DEF Moves
    <2>5. page' = page
        BY DEF shown
    <2> QED BY <1>3, <2>2, <2>3, <2>4, <2>5 DEF Agrees, Answer, Aspects, Live, LikeCount, Exists
<1> QED BY <1>5, <1>6

LEMMA InformedKept ==
    ASSUME ThreadsInv, NEW w \in Workers, NEW r \in Request,
           NEW S \in SUBSET (Aspects \cup {"own"}), Step(w, r, S),
           restarts' = restarts, alerts \subseteq alerts',
           \A m \in Alert : Due(m)' => Due(m) \/ Owing(w, m)',
           \A m \in Alert : Due(m)' /\ Owing(w, m) =>
                Owing(w, m)' \/ m \in alerts' \/ "lose_alert" \in Faults
    PROVE  Informed'
<1> SUFFICES ASSUME "lose_alert" \notin Faults, restarts = 0, NEW m \in Alert, Due(m)'
             PROVE  m \in alerts' \/ \E v \in Workers : Owing(v, m)'
    BY DEF Informed
<1>1. CASE Owing(w, m)'
    BY <1>1
<1>2. CASE ~Owing(w, m)'
    <2>1. m \in alerts \/ \E v \in Workers : Owing(v, m)
        BY <1>2 DEF ThreadsInv, Informed
    <2>2. ASSUME NEW v \in Workers \ {w}, Owing(v, m) PROVE Owing(v, m)'
        <3>1. Alike(req'[v], req[v])
            BY OthersAlike DEF ThreadsInv
        <3> QED BY <2>2, <3>1 DEF Owing, Alike
    <2> QED BY <1>2, <2>1, <2>2
<1> QED BY <1>1, <1>2

\* The state but for the requests.
TablesOK ==
    /\ threads \in [Ids -> Thread \cup {NoRow}]
    /\ nextId \in 1..(MaxThread + 1)
    /\ likes \in [Ids -> [Users -> Nat]]
    /\ nextLike \in Nat \ {0}
    /\ reports \in [ReportIds -> Report \cup {NoRow}]
    /\ nextReport \in 1..(MaxReport + 1)
    /\ alerts \in SUBSET Alert
    /\ page \in [Ids -> View \cup {NoRow}]
    /\ doubt \in [Ids -> SUBSET Aspects]
    /\ started \in 0..MaxRequests
    /\ restarts \in 0..MaxRestarts
    /\ Linked

LEMMA OneHandler ==
    ASSUME ThreadsInv, NEW w \in Workers, NEW r \in Request,
           NEW S \in SUBSET (Aspects \cup {"own"}), Step(w, r, S),
           Moves(w, r.id, r.actor, S), TablesOK',
           r.op = "create" => ~Exists(r.id) \/ (req[w].op = "create" /\ req[w].id = r.id),
           Shaped(w)', Knowing(w)', Searching(w)',
           MisledForCause', OnlyRacesDuplicateReport', Informed'
    PROVE  ThreadsInv'
<1>1. TypeOK'
    BY StepEffect DEF ThreadsInv, TablesOK, TypeOK
<1>2. \A v \in Workers : Shaped(v)' /\ Knowing(v)' /\ Searching(v)'
    BY OthersKeep
<1>3. CreatedOnce'
    <2>1. req'[w] = r /\ \A v \in Workers \ {w} : Alike(req'[v], req[v])
        BY OthersAlike DEF ThreadsInv
    <2>2. \A v \in Workers : req[v].op = "create" => Exists(req[v].id)
        BY DEF ThreadsInv, Shaped
    <2>3. CreatedOnce
        BY DEF ThreadsInv
    <2> QED BY <2>1, <2>2, <2>3 DEF CreatedOnce, Alike
<1> QED BY <1>1, <1>2, <1>3 DEF ThreadsInv, TablesOK

\* A step that changes no table and tells the page nothing.
LEMMA JustARequest ==
    ASSUME ThreadsInv, NEW w \in Workers, NEW r \in Request, Step(w, r, {}),
           UNCHANGED <<tables, shown, restarts>>, started' \in 0..MaxRequests,
           alerts \subseteq alerts', alerts' \subseteq Alert,
           r.op = "create" => req[w].op = "create" /\ req[w].id = r.id,
           Untold(req[w]) \subseteq Untold(r), Untold(req[w]) = {} \/ req[w].id = r.id,
           Shaped(w)', Knowing(w)', Searching(w)',
           \A m \in Alert : Due(m)' /\ Owing(w, m) =>
                Owing(w, m)' \/ m \in alerts' \/ "lose_alert" \in Faults
    PROVE  ThreadsInv'
<1>1. Moves(w, r.id, r.actor, {})
    BY Unmoved DEF shown
<1>2. MisledForCause'
    <2>1. \A x \in Ids : Exists(x)' => Exists(x)
        BY DEF Exists, tables
    <2> QED BY <1>1, <2>1, PageKept
<1>3. Informed'
    <2>1. \A m \in Alert : Due(m)' => Due(m)
        BY DEF Due, tables, Exists
    <2> QED BY <2>1, InformedKept
<1>4. OnlyRacesDuplicateReport'
    BY DEF ThreadsInv, OnlyRacesDuplicateReport, tables
<1>5. TablesOK'
    BY DEF ThreadsInv, TypeOK, TablesOK, tables, shown, Linked, Exists
<1> QED BY <1>1, <1>2, <1>3, <1>4, <1>5, OneHandler

-----------------------------------------------------------------------------
(* The first steps.                                                        *)

LEMMA IdleIsARequest == Idle \in Request
BY ConstantsOK DEF Idle, Request

LEMMA RequestUpdates ==
    \A q \in Request :
        /\ \A x \in AllHandlers : [q EXCEPT !.op = x] \in Request
        /\ \A x \in {"commit", "count", "tell", "alert", "admins"} : [q EXCEPT !.at = x] \in Request
        /\ \A x \in Users : [q EXCEPT !.actor = x] \in Request
        /\ \A x \in Ids : [q EXCEPT !.id = x] \in Request
        /\ \A x \in Thread : [q EXCEPT !.row = x] \in Request
        /\ \A x \in SUBSET Aspects : [q EXCEPT !.dirty = x] \in Request
        /\ \A x \in Nat : [q EXCEPT !.like = x] \in Request
        /\ \A x \in Nat : [q EXCEPT !.count = x] \in Request
        /\ \A x \in ReportIds : [q EXCEPT !.report = x] \in Request
        /\ \A x \in 1..(MaxReport + 1) : [q EXCEPT !.since = x] \in Request
        /\ \A x \in Verdicts : [q EXCEPT !.status = x] \in Request
        /\ \A x \in SUBSET Users : [q EXCEPT !.todo = x] \in Request
<1> SUFFICES ASSUME NEW q \in Request
             PROVE
        /\ \A x \in AllHandlers : [q EXCEPT !.op = x] \in Request
        /\ \A x \in {"commit", "count", "tell", "alert", "admins"} : [q EXCEPT !.at = x] \in Request
        /\ \A x \in Users : [q EXCEPT !.actor = x] \in Request
        /\ \A x \in Ids : [q EXCEPT !.id = x] \in Request
        /\ \A x \in Thread : [q EXCEPT !.row = x] \in Request
        /\ \A x \in SUBSET Aspects : [q EXCEPT !.dirty = x] \in Request
        /\ \A x \in Nat : [q EXCEPT !.like = x] \in Request
        /\ \A x \in Nat : [q EXCEPT !.count = x] \in Request
        /\ \A x \in ReportIds : [q EXCEPT !.report = x] \in Request
        /\ \A x \in 1..(MaxReport + 1) : [q EXCEPT !.since = x] \in Request
        /\ \A x \in Verdicts : [q EXCEPT !.status = x] \in Request
        /\ \A x \in SUBSET Users : [q EXCEPT !.todo = x] \in Request
    OBVIOUS
<1>1. \A x \in AllHandlers : [q EXCEPT !.op = x] \in Request
    BY DEF Request
<1>2. \A x \in {"commit", "count", "tell", "alert", "admins"} : [q EXCEPT !.at = x] \in Request
    BY DEF Request
<1>3. \A x \in Users : [q EXCEPT !.actor = x] \in Request
    BY DEF Request
<1>4. \A x \in Ids : [q EXCEPT !.id = x] \in Request
    BY DEF Request
<1>5. \A x \in Thread : [q EXCEPT !.row = x] \in Request
    BY DEF Request
<1>6. \A x \in SUBSET Aspects : [q EXCEPT !.dirty = x] \in Request
    BY DEF Request
<1>7. \A x \in Nat : [q EXCEPT !.like = x] \in Request /\ [q EXCEPT !.count = x] \in Request
    BY DEF Request
<1>8. \A x \in ReportIds : [q EXCEPT !.report = x] \in Request
    BY DEF Request
<1>9. \A x \in 1..(MaxReport + 1) : [q EXCEPT !.since = x] \in Request
    BY DEF Request
<1>10. \A x \in Verdicts : [q EXCEPT !.status = x] \in Request
    BY DEF Request, Verdicts
<1>11. \A x \in SUBSET Users : [q EXCEPT !.todo = x] \in Request
    BY DEF Request
<1> QED BY <1>1, <1>2, <1>3, <1>4, <1>5, <1>6, <1>7, <1>8, <1>9, <1>10, <1>11

LEMMA StepGives ==
    ASSUME TypeOK, NEW w \in Workers, NEW r, NEW S, Step(w, r, S)
    PROVE  req'[w] = r
BY DEF Step, TypeOK

LEMMA RequestFacts ==
    ASSUME ThreadsInv, NEW w \in Workers
    PROVE  /\ TypeOK /\ Linked
           /\ req[w] \in Request
           /\ Shaped(w) /\ Knowing(w) /\ Searching(w)
           /\ started \in 0..MaxRequests /\ alerts \subseteq Alert
BY DEF ThreadsInv, TypeOK

LEMMA Beginning ==
    ASSUME ThreadsInv, NEW w \in Workers, NEW op, NEW r \in Request, req[w].at = "idle",
           Begin(op), Step(w, r, {}), UNCHANGED <<tables, alerts, shown>>,
           r.op # "create", Shaped(w)', Knowing(w)', Searching(w)'
    PROVE  ThreadsInv'
<1>1. req[w].op = "none"
    BY DEF ThreadsInv, Shaped
<1>2. started' \in 0..MaxRequests /\ UNCHANGED restarts
    BY RequestFacts, ConstantsOK DEF Begin
<1>3. Untold(req[w]) = {} /\ \A m : ~Owing(w, m)
    BY <1>1 DEF Untold, Owing
<1>4. alerts \subseteq alerts' /\ alerts' \subseteq Alert
    BY RequestFacts
<1> QED BY <1>2, <1>3, <1>4, JustARequest

LEMMA EditLoadKeeps ==
    ASSUME ThreadsInv, NEW w \in Workers, NEW a \in Users, NEW t \in Ids, NEW text \in Texts,
           EditLoad(w, a, t, text)
    PROVE  ThreadsInv'
<1> DEFINE changed == {k \in Columns : text[k] # threads[t].text[k]}
           r == [Idle EXCEPT !.op = "edit", !.actor = a, !.id = t,
                   !.row = [threads[t] EXCEPT !.text = text],
                   !.dirty = changed, !.at = "commit"]
<1>1. Begin("edit") /\ Step(w, r, {}) /\ req[w].at = "idle" /\ UNCHANGED <<tables, alerts, shown>>
    BY DEF EditLoad, Goto, Idle
<1>2. Live(t) /\ threads[t] \in Thread /\ threads[t].author = a
    BY RequestFacts DEF EditLoad, TypeOK, Live, Exists
<1>3. [threads[t] EXCEPT !.text = text] \in Thread
    BY <1>2 DEF Thread
<1>4. r \in Request
    <2>1. changed \in SUBSET Aspects
        BY DEF Aspects
    <2> HIDE DEF changed
    <2> QED BY <1>3, <2>1, IdleIsARequest, RequestUpdates DEF AllHandlers
<1>5. req'[w] = r
    BY <1>1, StepGives, RequestFacts
<1>6. /\ r.op = "edit" /\ r.at = "commit" /\ r.id = t /\ r.actor = a
      /\ r.row = [threads[t] EXCEPT !.text = text] /\ r.dirty = changed
    BY DEF Idle
<1>7. UNCHANGED <<threads, likes, reports, page>>
    BY <1>1 DEF tables, shown
<1>8. Shaped(w)' /\ Knowing(w)' /\ Searching(w)'
    <2>1. /\ r.row.author = threads[t].author /\ r.row.community = threads[t].community
          /\ r.row.text = text
        BY <1>2, <1>6 DEF Thread
    <2>2. Shaped(w)'
        <3>1. changed \subseteq Columns
            OBVIOUS
        <3> HIDE DEF changed
        <3> QED BY <1>2, <1>3, <1>5, <1>6, <1>7, <2>1, <3>1 DEF Shaped, Exists, Live
    <2>3. Knowing(w)'
        BY <1>5, <1>6, <1>7, <2>1 DEF Knowing
    <2>4. Searching(w)'
        BY <1>5, <1>6 DEF Searching
    <2> QED BY <2>2, <2>3, <2>4
<1>9. r.op # "create"
    BY <1>6
<1> HIDE DEF r
<1> QED BY <1>1, <1>4, <1>8, <1>9, Beginning

LEMMA DeleteLoadKeeps ==
    ASSUME ThreadsInv, NEW w \in Workers, NEW a \in Users, NEW t \in Ids, DeleteLoad(w, a, t)
    PROVE  ThreadsInv'
<1> DEFINE r == [Idle EXCEPT !.op = "delete", !.actor = a, !.id = t,
                   !.row = [threads[t] EXCEPT !.deleters = {a}], !.dirty = {"life"}, !.at = "commit"]
<1>1. Begin("delete") /\ Step(w, r, {}) /\ req[w].at = "idle" /\ UNCHANGED <<tables, alerts, shown>>
    BY DEF DeleteLoad, Goto, Idle
<1>2. Live(t) /\ threads[t] \in Thread /\ MayDelete(a, threads[t].author)
    BY RequestFacts DEF DeleteLoad, TypeOK, Live, Exists
<1>3. [threads[t] EXCEPT !.deleters = {a}] \in Thread
    BY <1>2 DEF Thread
<1>4. r \in Request
    <2>1. {"life"} \in SUBSET Aspects
        BY DEF Aspects
    <2> QED BY <1>3, <2>1, IdleIsARequest, RequestUpdates DEF AllHandlers
<1>5. req'[w] = r
    BY <1>1, StepGives, RequestFacts
<1>6. /\ r.op = "delete" /\ r.at = "commit" /\ r.id = t /\ r.actor = a /\ r.dirty = {"life"}
      /\ r.row = [threads[t] EXCEPT !.deleters = {a}]
    BY DEF Idle
<1>7. UNCHANGED <<threads, likes, reports, page>>
    BY <1>1 DEF tables, shown
<1>8. Shaped(w)' /\ Knowing(w)' /\ Searching(w)'
    BY <1>2, <1>3, <1>5, <1>6, <1>7 DEF Shaped, Knowing, Searching, Exists, Live, Thread
<1>9. r.op # "create"
    BY <1>6
<1> HIDE DEF r
<1> QED BY <1>1, <1>4, <1>8, <1>9, Beginning

LEMMA LikeLoadKeeps ==
    ASSUME ThreadsInv, NEW w \in Workers, NEW a \in Users, NEW t \in Ids, LikeLoad(w, a, t)
    PROVE  ThreadsInv'
<1> DEFINE r == [Idle EXCEPT !.op = "like", !.actor = a, !.id = t, !.like = likes[t][a],
                   !.at = "commit"]
<1>1. Begin("like") /\ Step(w, r, {}) /\ req[w].at = "idle" /\ UNCHANGED <<tables, alerts, shown>>
    BY DEF LikeLoad, Goto, Idle, Found
<1>2. Exists(t) /\ likes[t][a] \in Nat
    BY RequestFacts DEF LikeLoad, TypeOK
<1>4. r \in Request
    BY <1>2, IdleIsARequest, RequestUpdates DEF AllHandlers
<1>5. req'[w] = r
    BY <1>1, StepGives, RequestFacts
<1>6. r.op = "like" /\ r.at = "commit" /\ r.id = t /\ r.actor = a /\ r.like = likes[t][a]
    BY DEF Idle
<1>7. UNCHANGED <<threads, likes, reports, page>>
    BY <1>1 DEF tables, shown
<1>8. Shaped(w)' /\ Knowing(w)' /\ Searching(w)'
    BY <1>2, <1>5, <1>6, <1>7 DEF Shaped, Knowing, Searching, Exists
<1>9. r.op # "create"
    BY <1>6
<1> HIDE DEF r
<1> QED BY <1>1, <1>4, <1>8, <1>9, Beginning

LEMMA ReportCheckKeeps ==
    ASSUME ThreadsInv, NEW w \in Workers, NEW a \in Users, NEW t \in Ids, ReportCheck(w, a, t)
    PROVE  ThreadsInv'
<1> DEFINE r == [Idle EXCEPT !.op = "report", !.actor = a, !.id = t, !.since = nextReport,
                   !.at = "commit"]
<1>1. Begin("report") /\ Step(w, r, {}) /\ req[w].at = "idle" /\ UNCHANGED <<tables, alerts, shown>>
    BY DEF ReportCheck, Goto, Idle
<1>2. Exists(t) /\ nextReport \in 1..(MaxReport + 1)
    BY RequestFacts DEF ReportCheck, TypeOK, Live
<1>3. \A i \in ReportIds : ~(reports[i] # NoRow /\ reports[i].thread = t
            /\ reports[i].by = a /\ reports[i].status = "pending")
    BY DEF ReportCheck
<1>4. r \in Request
    BY <1>2, IdleIsARequest, RequestUpdates DEF AllHandlers
<1>5. req'[w] = r
    BY <1>1, StepGives, RequestFacts
<1>6. r.op = "report" /\ r.at = "commit" /\ r.id = t /\ r.actor = a /\ r.since = nextReport
    BY DEF Idle
<1>7. UNCHANGED <<threads, likes, reports, nextReport, page>>
    BY <1>1 DEF tables, shown
<1>8. Shaped(w)' /\ Knowing(w)'
    BY <1>2, <1>5, <1>6, <1>7 DEF Shaped, Knowing, Exists
<1>9. Searching(w)'
    BY <1>2, <1>3, <1>5, <1>6, <1>7, ConstantsOK DEF Searching
<1>10. r.op # "create"
    BY <1>6
<1> HIDE DEF r
<1> QED BY <1>1, <1>4, <1>8, <1>9, <1>10, Beginning

LEMMA ReviewLoadKeeps ==
    ASSUME ThreadsInv, NEW w \in Workers, NEW a \in Users, NEW i \in ReportIds,
           NEW status \in AnyVerdict, ReviewLoad(w, a, i, status)
    PROVE  ThreadsInv'
<1> DEFINE r == [Idle EXCEPT !.op = "review", !.actor = a, !.report = i, !.status = status,
                   !.dirty = IF status # reports[i].status THEN {"status"} ELSE {},
                   !.at = "commit"]
<1>1. Begin("review") /\ Step(w, r, {}) /\ req[w].at = "idle" /\ UNCHANGED <<tables, alerts, shown>>
    BY DEF ReviewLoad, Goto, Idle
<1>2. status \in Verdicts /\ reports[i] # NoRow
    BY DEF ReviewLoad
<1>4. r \in Request
    <2>1. (IF status # reports[i].status THEN {"status"} ELSE {}) \in SUBSET Aspects
        BY DEF Aspects, Columns
    <2> QED BY <1>2, <2>1, IdleIsARequest, RequestUpdates DEF AllHandlers, Verdicts
<1>5. req'[w] = r
    BY <1>1, StepGives, RequestFacts
<1>6. r.op = "review" /\ r.at = "commit" /\ r.actor = a /\ r.report = i /\ r.status = status
    BY DEF Idle
<1>7. UNCHANGED <<threads, likes, reports, page>>
    BY <1>1 DEF tables, shown
<1>8. Shaped(w)' /\ Knowing(w)' /\ Searching(w)'
    BY <1>2, <1>5, <1>6, <1>7 DEF Shaped, Knowing, Searching
<1>9. r.op # "create"
    BY <1>6
<1> HIDE DEF r
<1> QED BY <1>1, <1>4, <1>8, <1>9, Beginning

LEMMA CreateKeeps ==
    ASSUME ThreadsInv, NEW w \in Workers, NEW a \in Users, NEW c \in Communities \cup {NoRow},
           NEW text \in Texts, Create(w, a, c, text)
    PROVE  ThreadsInv'
<1> DEFINE row == [author |-> a, community |-> c, text |-> text, deleters |-> {}]
           at == IF c = NoRow THEN "tell" ELSE "alert"
           r == [Idle EXCEPT !.op = "create", !.actor = a, !.id = nextId, !.row = row, !.at = at]
<1>1. /\ Begin("create") /\ Step(w, r, {}) /\ req[w].at = "idle" /\ nextId <= MaxThread
      /\ threads' = [threads EXCEPT ![nextId] = row] /\ nextId' = nextId + 1
      /\ UNCHANGED <<likes, nextLike, reports, nextReport, alerts, shown>>
    BY DEF Create, Goto, Idle
<1>2. TypeOK /\ Linked /\ Shaped(w)
    BY RequestFacts
<1>3. nextId \in Ids /\ nextId' \in 1..(MaxThread + 1) /\ ~Exists(nextId)
    BY <1>1, <1>2, ConstantsOK DEF TypeOK, Ids, Linked
<1>4. row \in Thread /\ row # NoRow
    BY ConstantsOK DEF Thread
<1>5. r \in Request
    BY <1>3, <1>4, IdleIsARequest, RequestUpdates DEF AllHandlers
<1>6. req'[w] = r
    BY <1>1, <1>2, StepGives
<1>7. r.op = "create" /\ r.at = at /\ r.actor = a /\ r.id = nextId /\ r.row = row /\ r.crossed = {}
    BY DEF Idle
<1>8. threads'[nextId] = row /\ \A x \in Ids \ {nextId} : threads'[x] = threads[x]
    BY <1>1, <1>2, <1>3 DEF TypeOK
<1>9. \A x \in Ids : Exists(x) => x # nextId /\ threads'[x] = threads[x]
    BY <1>3, <1>8
<1>10. Moves(w, nextId, a, {})
    <2>1. nextReport' \in Nat /\ nextReport <= nextReport'
        BY <1>1, <1>2, ConstantsOK DEF TypeOK
    <2> QED BY <1>1, <1>9, <2>1 DEF Moves, Exists, Live, LikeCount, shown
<1>11. TablesOK'
    <2>1. threads' \in [Ids -> Thread \cup {NoRow}]
        BY <1>1, <1>2, <1>4 DEF TypeOK
    <2>2. Linked'
        <3>1. \A x \in Ids : Exists(x)' <=> x < nextId'
            BY <1>1, <1>2, <1>3, <1>4, <1>8, ConstantsOK DEF Linked, Exists, Ids, TypeOK
        <3>2. \A x \in Ids : ~Exists(x)' => ~Exists(x)
            BY <1>9, <1>4, <1>8 DEF Exists
        <3> QED BY <1>1, <1>2, <3>1, <3>2 DEF Linked, shown
    <2>3. started' \in 0..MaxRequests /\ UNCHANGED restarts
        BY <1>1, <1>2, ConstantsOK DEF Begin, TypeOK
    <2> QED BY <1>1, <1>2, <1>3, <2>1, <2>2, <2>3 DEF TablesOK, TypeOK, shown
<1>12. \A x \in Ids : ~Exists(x) => LikeCount(x)' = 0
    <2> SUFFICES ASSUME NEW x \in Ids, ~Exists(x) PROVE LikeCount(x)' = 0
        OBVIOUS
    <2>1. {u \in Users : likes'[x][u] # 0} = {}
        BY <1>1, <1>2 DEF Linked
    <2> QED BY <2>1, FS_EmptySet DEF LikeCount
<1>13. Shaped(w)'
    BY <1>3, <1>4, <1>6, <1>7, <1>8 DEF Shaped, Exists
<1>14. Knowing(w)'
    <2>1. page'[nextId] = NoRow
        BY <1>1, <1>2, <1>3 DEF Linked, shown
    <2>2. threads'[nextId] # NoRow /\ threads'[nextId].deleters = {} /\ threads'[nextId].text = row.text
        BY <1>4, <1>8
    <2>3. Cardinality({u \in Users : likes'[nextId][u] # 0}) = 0
        BY <1>3, <1>12 DEF LikeCount
    <2> QED BY <1>6, <1>7, <2>1, <2>2, <2>3 DEF Knowing, Live, Exists, LikeCount
<1>15. Searching(w)'
    BY <1>6, <1>7 DEF Searching
<1>16. MisledForCause'
    <2>1. Untold(req[w]) = {}
        BY <1>1, <1>2 DEF Shaped, Untold
    <2>2. Untold(r) = Aspects
        BY <1>7 DEF Untold, News, Omitted
    <2>3. \A x \in Ids : Exists(x)' /\ ~Exists(x) => x = r.id
        BY <1>7, <1>8 DEF Exists
    <2> HIDE DEF r
    <2> QED BY <1>1, <1>5, <1>7, <1>10, <2>1, <2>2, <2>3, PageKept
<1>17. OnlyRacesDuplicateReport'
    BY <1>1 DEF ThreadsInv, OnlyRacesDuplicateReport
<1>18. Informed'
    <2>1. ASSUME NEW m \in Alert, Due(m)' PROVE Due(m) \/ Owing(w, m)'
        <3>1. CASE m.type = "thread_report"
            BY <1>1, <2>1, <3>1 DEF Due
        <3>2. CASE m.type # "thread_report" /\ m.thread # nextId
            <4>1. m.thread \in Ids /\ threads'[m.thread] = threads[m.thread]
                BY <1>8, <3>2 DEF Alert
            <4> QED BY <1>1, <2>1, <3>2, <4>1 DEF Due, Exists
        <3>3. CASE m.type # "thread_report" /\ m.thread = nextId
            <4>1. m.actor \in Users
                BY DEF Alert
            <4>2. likes'[nextId][m.actor] = 0
                BY <1>1, <1>2, <1>3, <4>1 DEF Linked
            <4>3. m.type = "community_thread" /\ c # NoRow /\ m.actor = a
                BY <1>8, <2>1, <3>3, <4>2 DEF Due
            <4> QED BY <1>6, <1>7, <3>3, <4>3 DEF Owing
        <3> QED BY <3>1, <3>2, <3>3
    <2>2. \A m : ~Owing(w, m)
        BY <1>1, <1>2 DEF Shaped, Owing
    <2>3. restarts' = restarts /\ alerts \subseteq alerts'
        BY <1>1 DEF Begin
    <2> HIDE DEF r
    <2> QED BY <1>1, <1>5, <2>1, <2>2, <2>3, InformedKept
<1> HIDE DEF r
<1> QED BY <1>1, <1>3, <1>5, <1>7, <1>10, <1>11, <1>13, <1>14, <1>15, <1>16, <1>17, <1>18, OneHandler

-----------------------------------------------------------------------------
(* The later steps.                                                        *)

LEMMA IdleKeeps ==
    ASSUME NEW w \in Workers, req'[w] = Idle
    PROVE  Shaped(w)' /\ Knowing(w)' /\ Searching(w)'
BY DEF Idle, Shaped, Knowing, Searching

LEMMA TellFacts ==
    ASSUME NEW type \in {"community_thread", "thread_deleted", "thread_like", "thread_report"},
           NEW u \in Users, NEW r, r.id \in Ids, r.actor \in Users,
           alerts \subseteq Alert, Tell(type, u, r)
    PROVE  /\ alerts \subseteq alerts' /\ alerts' \subseteq Alert
           /\ \A m \in Alert : m.type = type /\ m.user = u /\ m.thread = r.id
                               /\ m.actor = r.actor /\ "lose_alert" \notin Faults => m \in alerts'
<1>1. [type |-> type, user |-> u, thread |-> r.id, actor |-> r.actor] \in Alert
    BY DEF Alert
<1>2. \A m \in Alert : m.type = type /\ m.user = u /\ m.thread = r.id /\ m.actor = r.actor =>
            m = [type |-> type, user |-> u, thread |-> r.id, actor |-> r.actor]
    BY DEF Alert
<1> QED BY <1>1, <1>2 DEF Tell

\* A request that goes on to speak of what it has done.
LEMMA GoingOn ==
    ASSUME NEW r \in Request, NEW at \in {"commit", "count", "tell", "alert", "admins"}
    PROVE  LET p == [r EXCEPT !.at = at] IN
           /\ p \in Request
           /\ p.at = at /\ p.op = r.op /\ p.id = r.id /\ p.actor = r.actor /\ p.row = r.row
           /\ p.dirty = r.dirty /\ p.like = r.like /\ p.count = r.count /\ p.report = r.report
           /\ p.since = r.since /\ p.status = r.status /\ p.todo = r.todo /\ p.crossed = r.crossed
<1>1. [r EXCEPT !.at = at] \in Request
    BY RequestUpdates
<1> QED BY <1>1 DEF Request

LEMMA TellConcernedKeeps ==
    ASSUME ThreadsInv, NEW w \in Workers, TellConcerned(w)
    PROVE  ThreadsInv'
<1> DEFINE r == req[w]
<1>1. /\ r \in Request /\ Shaped(w) /\ Knowing(w) /\ TypeOK /\ Linked
      /\ alerts \subseteq Alert /\ started \in 0..MaxRequests
    BY RequestFacts
<1>2. r.at = "alert"
    BY DEF TellConcerned
<1>3. r.id \in Ids /\ Exists(r.id) /\ r.actor \in Users /\ threads[r.id] \in Thread
      /\ threads[r.id].author \in Users
    <2>1. r.op # "review"
        BY <1>1, <1>2 DEF Shaped
    <2>2. r.id \in Ids /\ Exists(r.id) /\ r.actor \in Users
        BY <1>1, <1>2, <2>1 DEF Shaped
    <2>3. threads[r.id] \in Thread
        BY <1>1, <2>2 DEF TypeOK, Exists
    <2> QED BY <2>2, <2>3 DEF Thread
<1>4. \A m : Owing(w, m) => m.thread = r.id /\ m.actor = r.actor
    BY DEF Owing
<1>5. UNCHANGED <<tables, shown, counters>> /\ UNCHANGED threads
    BY DEF TellConcerned, Alerted, tables
<1>6. started' \in 0..MaxRequests /\ UNCHANGED restarts
    BY <1>1, <1>5 DEF counters
<1>7. CASE r.op = "create"
    <2> DEFINE u == CommunityOwner[r.row.community]
               p == [r EXCEPT !.at = "tell"]
    <2>1. /\ Step(w, p, {})
          /\ IF u # r.actor THEN Tell("community_thread", u, r) ELSE UNCHANGED alerts
        BY <1>7 DEF TellConcerned, Alerted, Goto
    <2>2. u \in Users /\ r.row.community = threads[r.id].community
        BY <1>1, <1>2, <1>7, ConstantsOK DEF Shaped
    <2>3. req'[w] = p
        BY <1>1, <2>1, StepGives
    <2>4. alerts \subseteq alerts' /\ alerts' \subseteq Alert
        BY <1>1, <1>3, <2>1, <2>2, TellFacts
    <2>5. \A m \in Alert : Due(m)' /\ Owing(w, m) => m \in alerts' \/ "lose_alert" \in Faults
        <3> SUFFICES ASSUME NEW m \in Alert, Due(m)', Owing(w, m), "lose_alert" \notin Faults
                     PROVE  m \in alerts'
            OBVIOUS
        <3>1. m.type = "community_thread" /\ m.thread = r.id /\ m.actor = r.actor
            BY <1>2, <1>7 DEF Owing
        <3>2. m.user = u /\ m.user # m.actor
            BY <1>5, <2>2, <3>1 DEF Due
        <3> QED BY <1>1, <1>3, <2>1, <2>2, <3>1, <3>2, TellFacts
    <2>6. /\ p \in Request /\ p.at = "tell" /\ p.op = r.op /\ p.id = r.id
          /\ p.actor = r.actor /\ p.row = r.row /\ p.crossed = r.crossed
        BY <1>1, GoingOn
    <2>7. Shaped(w)'
        BY <1>1, <1>2, <1>3, <1>5, <1>7, <2>3, <2>6 DEF Shaped, Exists
    <2>8. Knowing(w)' /\ Searching(w)'
        BY <1>1, <1>5, <1>7, <2>3, <2>6
           DEF Knowing, Searching, Live, Exists, LikeCount, tables, shown
    <2>9. Untold(r) = Untold(p)
        BY <1>2, <1>7, <2>6 DEF Untold, News, Omitted
    <2> HIDE DEF p
    <2> QED BY <1>5, <1>6, <1>7, <2>1, <2>4, <2>5, <2>6, <2>7, <2>8, <2>9, JustARequest
<1>8. CASE r.op = "delete"
    <2> DEFINE u == r.row.author
               p == [r EXCEPT !.at = "tell"]
    <2>1. /\ Step(w, p, {})
          /\ IF u # r.actor THEN Tell("thread_deleted", u, r) ELSE UNCHANGED alerts
        BY <1>8 DEF TellConcerned, Alerted, Goto
    <2>2. u \in Users /\ u = threads[r.id].author
        BY <1>1, <1>2, <1>3, <1>8 DEF Shaped
    <2>3. req'[w] = p
        BY <1>1, <2>1, StepGives
    <2>4. alerts \subseteq alerts' /\ alerts' \subseteq Alert
        BY <1>1, <1>3, <2>1, <2>2, TellFacts
    <2>5. \A m \in Alert : Due(m)' /\ Owing(w, m) => m \in alerts' \/ "lose_alert" \in Faults
        <3> SUFFICES ASSUME NEW m \in Alert, Due(m)', Owing(w, m), "lose_alert" \notin Faults
                     PROVE  m \in alerts'
            OBVIOUS
        <3>1. m.type = "thread_deleted" /\ m.thread = r.id /\ m.actor = r.actor
            BY <1>2, <1>8 DEF Owing
        <3>2. m.user = u /\ m.user # m.actor
            BY <1>5, <2>2, <3>1 DEF Due
        <3> QED BY <1>1, <1>3, <2>1, <2>2, <3>1, <3>2, TellFacts
    <2>6. /\ p \in Request /\ p.at = "tell" /\ p.op = r.op /\ p.id = r.id /\ p.dirty = r.dirty
          /\ p.actor = r.actor /\ p.row = r.row /\ p.crossed = r.crossed
        BY <1>1, GoingOn
    <2>7. Shaped(w)'
        BY <1>1, <1>2, <1>3, <1>5, <1>8, <2>3, <2>6 DEF Shaped, Exists
    <2>8. Knowing(w)' /\ Searching(w)'
        BY <1>1, <1>2, <1>5, <1>8, <2>3, <2>6 DEF Knowing, Searching, Live, Exists
    <2>9. Untold(r) = Untold(p)
        BY <1>2, <1>8, <2>6 DEF Untold, News, Omitted
    <2> HIDE DEF p
    <2> QED BY <1>5, <1>6, <1>8, <2>1, <2>4, <2>5, <2>6, <2>7, <2>8, <2>9, JustARequest
<1>9. CASE r.op = "like"
    <2> DEFINE u == threads[r.id].author
    <2>1. /\ Step(w, Idle, {})
          /\ IF u # r.actor THEN Tell("thread_like", u, r) ELSE UNCHANGED alerts
        BY <1>9 DEF TellConcerned, Alerted, Finish
    <2>3. req'[w] = Idle
        BY <1>1, <2>1, StepGives
    <2>4. alerts \subseteq alerts' /\ alerts' \subseteq Alert
        BY <1>1, <1>3, <2>1, TellFacts
    <2>5. \A m \in Alert : Due(m)' /\ Owing(w, m) => m \in alerts' \/ "lose_alert" \in Faults
        <3> SUFFICES ASSUME NEW m \in Alert, Due(m)', Owing(w, m), "lose_alert" \notin Faults
                     PROVE  m \in alerts'
            OBVIOUS
        <3>1. m.type = "thread_like" /\ m.thread = r.id /\ m.actor = r.actor
            BY <1>2, <1>9 DEF Owing
        <3>2. m.user = u /\ m.user # m.actor
            BY <1>5, <3>1 DEF Due
        <3> QED BY <1>1, <1>3, <2>1, <3>1, <3>2, TellFacts
    <2>6. Untold(r) = {} /\ Idle.op = "none"
        BY <1>2, <1>9 DEF Untold, Idle
    <2> QED BY <1>5, <1>6, <2>1, <2>3, <2>4, <2>5, <2>6, IdleIsARequest, IdleKeeps, JustARequest
<1> QED BY <1>7, <1>8, <1>9 DEF TellConcerned

LEMMA CountKeeps ==
    ASSUME ThreadsInv, NEW w \in Workers, Count(w)
    PROVE  ThreadsInv'
<1> DEFINE r == req[w]
           p == [[r EXCEPT !.count = LikeCount(r.id)] EXCEPT !.at = "tell"]
<1>1. r \in Request /\ Shaped(w) /\ Knowing(w) /\ TypeOK /\ started \in 0..MaxRequests
      /\ alerts \subseteq Alert
    BY RequestFacts
<1>2. r.at = "count" /\ Step(w, p, {}) /\ UNCHANGED <<tables, alerts, shown, counters>>
    BY DEF Count, Goto, CountOf
<1>3. r.op = "like" /\ r.id \in Ids /\ Exists(r.id) /\ r.actor \in Users
    <2>1. r.op \in AllHandlers \cup {"none"}
        BY <1>1 DEF Request
    <2> QED BY <1>1, <1>2, <2>1 DEF Shaped, AllHandlers
<1>4. LikeCount(r.id) \in Nat
    <2>1. IsFiniteSet({v \in Users : likes[r.id][v] # 0})
        BY ConstantsOK, FS_Subset
    <2> QED BY <2>1, FS_CardinalityType DEF LikeCount
<1>5. p \in Request
    BY <1>1, <1>4, RequestUpdates
<1>6. /\ p.at = "tell" /\ p.op = r.op /\ p.id = r.id /\ p.actor = r.actor
      /\ p.count = LikeCount(r.id) /\ p.crossed = r.crossed /\ p.like = r.like
    BY <1>1 DEF Request
<1>7. req'[w] = p
    BY <1>1, <1>2, StepGives
<1>8. UNCHANGED <<threads, likes, reports, page, nextReport>>
    BY <1>2 DEF tables, shown
<1>9. Shaped(w)'
    BY <1>3, <1>6, <1>7, <1>8 DEF Shaped, Exists
<1>10. Knowing(w)' /\ Searching(w)'
    BY <1>1, <1>2, <1>3, <1>6, <1>7, <1>8 DEF Knowing, Searching, LikeCount
<1>11. started' \in 0..MaxRequests /\ UNCHANGED restarts
    BY <1>1, <1>2 DEF counters
<1>12. Untold(r) = Untold(p)
    BY <1>2, <1>3, <1>6 DEF Untold, News, Omitted
<1>13. \A m : Owing(w, m) => Owing(w, m)'
    BY <1>2, <1>3, <1>6, <1>7 DEF Owing
<1> HIDE DEF p
<1> QED BY <1>1, <1>2, <1>3, <1>5, <1>6, <1>9, <1>10, <1>11, <1>12, <1>13, JustARequest

LEMMA TellAdminKeeps ==
    ASSUME ThreadsInv, NEW w \in Workers, NEW a \in Users, TellAdmin(w, a)
    PROVE  ThreadsInv'
<1> DEFINE r == req[w]
           left == r.todo \ {a}
           p == IF left = {} THEN Idle ELSE [[r EXCEPT !.todo = left] EXCEPT !.at = "admins"]
<1>1. r \in Request /\ Shaped(w) /\ Knowing(w) /\ TypeOK /\ started \in 0..MaxRequests
      /\ alerts \subseteq Alert
    BY RequestFacts
<1>2. /\ r.at = "admins" /\ a \in r.todo /\ Tell("thread_report", a, r) /\ Step(w, p, {})
      /\ UNCHANGED <<tables, shown, counters>>
    BY DEF TellAdmin, Goto, Finish
<1>3. r.op = "report" /\ r.id \in Ids /\ Exists(r.id) /\ r.actor \in Users
      /\ r.report \in ReportIds /\ reports[r.report] # NoRow
    <2>1. r.op \in AllHandlers \cup {"none"}
        BY <1>1 DEF Request
    <2> QED BY <1>1, <1>2, <2>1 DEF Shaped, AllHandlers
<1>4. p \in Request
    <2>1. left \in SUBSET Users
        BY <1>1 DEF Request
    <2> HIDE DEF left
    <2> QED BY <1>1, <2>1, IdleIsARequest, RequestUpdates
<1>5. \/ p = Idle /\ left = {}
      \/ /\ p.op = "report" /\ p.at = "admins" /\ p.id = r.id /\ p.actor = r.actor
         /\ p.report = r.report /\ p.todo = left
    BY <1>1, <1>3 DEF Request
<1>6. req'[w] = p
    BY <1>1, <1>2, StepGives
<1>7. UNCHANGED <<threads, reports>>
    BY <1>2 DEF tables
<1>8. Shaped(w)' /\ Knowing(w)' /\ Searching(w)'
    <2>1. CASE p = Idle
        BY <1>6, <2>1, IdleKeeps
    <2>2. CASE p # Idle
        BY <1>3, <1>5, <1>6, <1>7, <2>2 DEF Shaped, Knowing, Searching, Exists
    <2> QED BY <2>1, <2>2
<1>9. alerts \subseteq alerts' /\ alerts' \subseteq Alert
    BY <1>1, <1>2, <1>3, TellFacts
<1>10. \A m \in Alert : Due(m)' /\ Owing(w, m) => Owing(w, m)' \/ m \in alerts' \/ "lose_alert" \in Faults
    <2> SUFFICES ASSUME NEW m \in Alert, Owing(w, m), "lose_alert" \notin Faults
                 PROVE  Owing(w, m)' \/ m \in alerts'
        OBVIOUS
    <2>1. m.type = "thread_report" /\ m.thread = r.id /\ m.actor = r.actor /\ m.user \in r.todo
        BY <1>2, <1>3 DEF Owing
    <2>2. CASE m.user = a
        BY <1>1, <1>2, <1>3, <2>1, <2>2, TellFacts
    <2>3. CASE m.user # a
        <3>1. m.user \in left
            BY <2>1, <2>3
        <3> QED BY <1>5, <1>6, <2>1, <3>1 DEF Owing
    <2> QED BY <2>2, <2>3
<1>11. started' \in 0..MaxRequests /\ UNCHANGED restarts
    BY <1>1, <1>2 DEF counters
<1>12. Untold(r) = {} /\ p.op # "create"
    BY <1>3, <1>5 DEF Untold, Idle
<1> HIDE DEF p
<1> QED BY <1>1, <1>2, <1>3, <1>4, <1>8, <1>9, <1>10, <1>11, <1>12, JustARequest

\* Of two texts, the columns in S of the one and the others of the other.
LEMMA MergedText ==
    ASSUME NEW old \in Texts, NEW new \in Texts, NEW S
    PROVE  /\ Merged(old, new, S) \in Texts
           /\ \A k \in Columns : Merged(old, new, S)[k] = IF k \in S THEN new[k] ELSE old[k]
<1> DEFINE all == UNION {Values[k] : k \in Columns}
           m == Merged(old, new, S)
<1>1. \A x : x \in Texts <=> x \in [Columns -> all] /\ \A k \in Columns : x[k] \in Values[k]
    BY DEF Texts
<1> HIDE DEF all
<1>2. \A k \in Columns : m[k] = IF k \in S THEN new[k] ELSE old[k]
    BY DEF Merged
<1>3. \A k \in Columns : m[k] \in Values[k] /\ m[k] \in all
    BY <1>1, <1>2
<1>4. m \in [Columns -> all]
    BY <1>3 DEF Merged
<1> HIDE DEF m
<1>5. m \in Texts
    BY <1>1, <1>3, <1>4
<1> QED BY <1>2, <1>5 DEF m

\* What the commit of an edit or a delete writes.
LEMMA WrittenRow ==
    ASSUME NEW old \in Thread, NEW r \in Request, r.row \in Thread, r.actor \in Users
    PROVE  LET new == Written(old, r) IN
           /\ new \in Thread /\ new # NoRow
           /\ new.author = old.author /\ new.community = old.community
           /\ r.op = "edit" =>
                /\ \A k \in Columns :
                     new.text[k] = IF k \in r.dirty THEN r.row.text[k] ELSE old.text[k]
                /\ new.deleters = old.deleters
           /\ r.op # "edit" => new.text = old.text /\ new.deleters = old.deleters \cup {r.actor}
<1> DEFINE text == Merged(old.text, r.row.text, r.dirty)
<1>1. /\ r.row.text \in Texts /\ old.text \in Texts
      /\ old.deleters \cup {r.actor} \in SUBSET Users
    BY DEF Thread
<1>2. /\ text \in Texts
      /\ \A k \in Columns : text[k] = IF k \in r.dirty THEN r.row.text[k] ELSE old.text[k]
    BY <1>1, MergedText
<1> HIDE DEF text
<1>3. /\ [old EXCEPT !.text = text] \in Thread
      /\ [old EXCEPT !.deleters = old.deleters \cup {r.actor}] \in Thread
    BY <1>1, <1>2 DEF Thread
<1>4. NoRow \notin Thread
    BY ConstantsOK
<1>5. CASE r.op = "edit"
    <2>1. Written(old, r) = [old EXCEPT !.text = text]
        BY <1>5 DEF Written, text
    <2> QED BY <1>2, <1>3, <1>4, <1>5, <2>1 DEF Thread
<1>6. CASE r.op # "edit"
    <2>1. Written(old, r) = [old EXCEPT !.deleters = old.deleters \cup {r.actor}]
        BY <1>6 DEF Written
    <2> QED BY <1>3, <1>4, <1>6, <2>1 DEF Thread
<1> QED BY <1>5, <1>6

LEMMA CommitKeeps ==
    ASSUME ThreadsInv, NEW w \in Workers, Commit(w)
    PROVE  ThreadsInv'
<1> DEFINE r == req[w]
           p == [r EXCEPT !.at = IF r.op = "edit" THEN "tell" ELSE "alert",
                          !.crossed = r.crossed \ r.dirty]
           S == r.dirty
           new == Written(threads[r.id], r)
<1>1. r \in Request /\ Shaped(w) /\ Knowing(w) /\ TypeOK /\ Linked /\ started \in 0..MaxRequests
      /\ alerts \subseteq Alert
    BY RequestFacts
<1>2. /\ r.op \in {"edit", "delete"} /\ r.at = "commit" /\ Step(w, p, S)
      /\ threads' = IF r.dirty = {} THEN threads ELSE [threads EXCEPT ![r.id] = new]
      /\ UNCHANGED <<nextId, likes, nextLike, reports, nextReport, alerts, shown, counters>>
    BY DEF Commit
<1>3. /\ r.id \in Ids /\ Exists(r.id) /\ r.actor \in Users /\ r.row \in Thread
      /\ threads[r.id] \in Thread /\ (r.op = "delete" => r.dirty = {"life"})
      /\ (r.op = "edit" => r.dirty \subseteq Columns)
      /\ r.row.author = threads[r.id].author /\ r.row.community = threads[r.id].community
      /\ (r.op = "edit" => r.actor = r.row.author)
      /\ (r.op = "delete" => MayDelete(r.actor, r.row.author))
    <2>1. threads \in [Ids -> Thread \cup {NoRow}]
        BY <1>1 DEF TypeOK
    <2> QED BY <1>1, <1>2, <2>1 DEF Shaped, Exists
<1>4. p \in Request
    <2>1. \A q \in Request, x \in SUBSET (Aspects \cup {"own"}) : [q EXCEPT !.crossed = x] \in Request
        BY DEF Request
    <2>2. r.crossed \in SUBSET (Aspects \cup {"own"})
        BY <1>1 DEF Request
    <2>3. (IF r.op = "edit" THEN "tell" ELSE "alert") \in {"tell", "alert"}
        OBVIOUS
    <2>4. (r.crossed \ r.dirty) \in SUBSET (Aspects \cup {"own"})
        BY <2>2
    <2>5. \A x \in {"tell", "alert"}, y \in SUBSET (Aspects \cup {"own"}) :
            [r EXCEPT !.at = x, !.crossed = y] \in Request
        BY <1>1, <2>1, RequestUpdates
    <2> QED BY <2>3, <2>4, <2>5
<1>5. /\ p.op = r.op /\ p.id = r.id /\ p.actor = r.actor /\ p.row = r.row /\ p.dirty = r.dirty
      /\ p.at = (IF r.op = "edit" THEN "tell" ELSE "alert")
      /\ p.crossed = r.crossed \ r.dirty
    BY <1>1 DEF Request
<1>6. req'[w] = p
    BY <1>1, <1>2, StepGives
<1>7. /\ new \in Thread /\ new # NoRow
      /\ new.author = threads[r.id].author /\ new.community = threads[r.id].community
      /\ r.op = "edit" =>
           /\ \A k \in Columns :
                new.text[k] = IF k \in r.dirty THEN r.row.text[k] ELSE threads[r.id].text[k]
           /\ new.deleters = threads[r.id].deleters
      /\ r.op # "edit" => new.text = threads[r.id].text
                          /\ new.deleters = threads[r.id].deleters \cup {r.actor}
    BY <1>1, <1>3, WrittenRow
<1>8. /\ r.dirty # {} => threads'[r.id] = new
      /\ r.dirty = {} => threads' = threads
      /\ \A x \in Ids \ {r.id} : threads'[x] = threads[x]
    BY <1>1, <1>2, <1>3 DEF TypeOK
<1> HIDE DEF new, p, S
<1>9. \A x \in Ids : (Exists(x)' <=> Exists(x))
    BY <1>3, <1>7, <1>8 DEF Exists
<1>10. S \in SUBSET Aspects /\ S \subseteq Untold(p)
    <2>1. CASE r.op = "edit"
        BY <1>3, <1>5, <2>1 DEF S, Aspects, Untold, News, Omitted
    <2>2. CASE r.op = "delete"
        BY <1>3, <1>5, <2>2 DEF S, Aspects, Untold, News, Omitted
    <2> QED BY <1>2, <2>1, <2>2
<1>11. Moves(w, p.id, p.actor, S)
    <2>1. nextReport' \in Nat /\ nextReport <= nextReport'
        BY <1>1, <1>2, ConstantsOK DEF TypeOK
    <2>2. UNCHANGED <<likes, reports, page>>
        BY <1>2 DEF shown
    <2>3. \A x \in Ids : LikeCount(x)' = LikeCount(x)
        BY <2>2 DEF LikeCount
    <2>4. ASSUME NEW x \in Ids, Exists(x)
          PROVE  /\ threads'[x].author = threads[x].author
                 /\ threads'[x].community = threads[x].community
                 /\ \A k \in Columns :
                      x # p.id \/ k \notin S => threads'[x].text[k] = threads[x].text[k]
                 /\ x # p.id \/ "life" \notin S => (Live(x)' <=> Live(x))
                 /\ ~Live(x) => ~Live(x)'
        <3>1. CASE x # r.id \/ r.dirty = {}
            BY <1>8, <2>4, <3>1 DEF Live, Exists
        <3>2. CASE x = r.id /\ r.dirty # {} /\ r.op = "edit"
            <4>1. threads'[x] = new /\ "life" \notin S
                BY <1>3, <1>8, <3>2 DEF S, Columns
            <4>2. \A k \in Columns \ S : threads'[x].text[k] = threads[x].text[k]
                BY <1>7, <3>2, <4>1 DEF S
            <4> QED BY <1>5, <1>7, <1>9, <2>4, <3>2, <4>1, <4>2 DEF Live, Exists
        <3>3. CASE x = r.id /\ r.dirty # {} /\ r.op = "delete"
            <4>1. threads'[x] = new /\ "life" \in S
                BY <1>3, <1>8, <3>3 DEF S
            <4> QED BY <1>5, <1>7, <1>9, <2>4, <3>3, <4>1 DEF Live, Exists
        <3> QED BY <1>2, <3>1, <3>2, <3>3
    <2> QED BY <1>9, <2>1, <2>2, <2>3, <2>4 DEF Moves
<1>12. TablesOK'
    <2>1. threads' \in [Ids -> Thread \cup {NoRow}]
        BY <1>1, <1>2, <1>7 DEF TypeOK
    <2>2. Linked'
        BY <1>1, <1>2, <1>9 DEF Linked, shown
    <2> QED BY <1>1, <1>2, <2>1, <2>2 DEF TablesOK, TypeOK, shown, counters
<1>13. Shaped(w)'
    <2>1. threads'[r.id] # NoRow
        BY <1>3, <1>7, <1>8 DEF Exists
    <2>2. threads'[r.id].author = threads[r.id].author /\ threads'[r.id].community = threads[r.id].community
        BY <1>7, <1>8
    <2> QED BY <1>2, <1>3, <1>5, <1>6, <2>1, <2>2 DEF Shaped, Exists
<1>14. Knowing(w)' /\ Searching(w)'
    <2>1. CASE r.op = "edit"
        <3>1. \A k \in Columns \cap r.dirty : threads'[r.id].text[k] = r.row.text[k]
            BY <1>7, <1>8, <2>1
        <3>2. \A k \in Columns \ r.dirty : threads'[r.id].text[k] = threads[r.id].text[k]
            BY <1>7, <1>8, <2>1
        <3>3. \A k \in Columns \ (r.crossed \cup r.dirty) : threads[r.id].text[k] = r.row.text[k]
            BY <1>1, <2>1 DEF Knowing
        <3>4. \A k \in Columns \ p.crossed : threads'[r.id].text[k] = r.row.text[k]
            BY <1>5, <3>1, <3>2, <3>3
        <3> QED BY <1>5, <1>6, <2>1, <3>4 DEF Knowing, Searching
    <2>2. CASE r.op = "delete"
        <3>1. threads'[r.id].deleters # {}
            BY <1>3, <1>7, <1>8, <2>2
        <3> QED BY <1>5, <1>6, <2>2, <3>1 DEF Knowing, Searching, Live
    <2> QED BY <1>2, <2>1, <2>2
<1>15. MisledForCause'
    <2>1. Untold(r) = {}
        BY <1>2 DEF Untold
    <2>2. S \in SUBSET (Aspects \cup {"own"}) /\ S \cap Aspects \subseteq Untold(p)
        BY <1>10
    <2>3. \A x \in Ids : Exists(x)' => Exists(x)
        BY <1>9
    <2>4. UNCHANGED shown
        BY <1>2
    <2> QED BY <1>2, <1>4, <1>11, <2>1, <2>2, <2>3, <2>4, PageKept
<1>16. OnlyRacesDuplicateReport'
    BY <1>2 DEF ThreadsInv, OnlyRacesDuplicateReport
<1>17. Informed'
    <2>1. ASSUME NEW m \in Alert, Due(m)' PROVE Due(m) \/ Owing(w, m)'
        <3>1. CASE m.type = "thread_report"
            BY <1>2, <2>1, <3>1 DEF Due
        <3>2. CASE m.type # "thread_report"
            <4>1. m.thread \in Ids
                BY DEF Alert
            <4>2. Exists(m.thread)
                BY <1>9, <2>1, <3>2, <4>1 DEF Due, Exists
            <4>3. threads'[m.thread].author = threads[m.thread].author
                  /\ threads'[m.thread].community = threads[m.thread].community
                BY <1>7, <1>8, <4>1
            <4>4. CASE m.type \in {"community_thread", "thread_like"}
                BY <1>2, <2>1, <4>2, <4>3, <4>4 DEF Due
            <4>5. CASE m.type = "thread_deleted"
                <5>1. m.actor \in threads'[m.thread].deleters /\ m.user # m.actor
                      /\ m.user = threads[m.thread].author
                    BY <2>1, <4>3, <4>5 DEF Due
                <5>2. CASE m.actor \in threads[m.thread].deleters
                    BY <4>2, <4>5, <5>1, <5>2 DEF Due
                <5>3. CASE m.actor \notin threads[m.thread].deleters
                    <6>1. m.thread = r.id /\ r.op = "delete" /\ m.actor = r.actor
                        BY <1>2, <1>7, <1>8, <4>1, <5>1, <5>3
                    <6> QED BY <1>5, <1>6, <4>5, <6>1 DEF Owing
                <5> QED BY <5>2, <5>3
            <4> QED BY <2>1, <3>2, <4>4, <4>5 DEF Due
        <3> QED BY <3>1, <3>2
    <2>2. \A m : ~Owing(w, m)
        BY <1>2 DEF Owing
    <2>3. restarts' = restarts /\ alerts \subseteq alerts'
        BY <1>2 DEF counters
    <2>4. S \in SUBSET (Aspects \cup {"own"})
        BY <1>10
    <2> QED BY <1>2, <1>4, <2>1, <2>2, <2>3, <2>4, InformedKept
<1>18. p.op # "create" /\ S \in SUBSET (Aspects \cup {"own"})
    BY <1>2, <1>5, <1>10
<1> QED BY <1>2, <1>4, <1>11, <1>12, <1>13, <1>14, <1>15, <1>16, <1>17, <1>18, OneHandler

LEMMA ToggleCommitKeeps ==
    ASSUME ThreadsInv, NEW w \in Workers, ToggleCommit(w)
    PROVE  ThreadsInv'
<1> DEFINE r == req[w]
           p == [r EXCEPT !.at = "count"]
<1>1. /\ r \in Request /\ Shaped(w) /\ Knowing(w) /\ TypeOK /\ Linked /\ started \in 0..MaxRequests
      /\ alerts \subseteq Alert
    BY RequestFacts
<1>2. /\ r.op = "like" /\ r.at = "commit"
      /\ UNCHANGED <<threads, nextId, reports, nextReport, alerts, shown, counters>>
    BY DEF ToggleCommit
<1>3. r.id \in Ids /\ Exists(r.id) /\ r.actor \in Users /\ r.like \in Nat
    BY <1>1, <1>2 DEF Shaped, Request
<1>4. /\ p \in Request /\ p.at = "count" /\ p.op = "like" /\ p.id = r.id /\ p.actor = r.actor
      /\ p.like = r.like /\ p.crossed = r.crossed
    BY <1>1, <1>2, GoingOn
<1>5. Untold(r) = {} /\ Untold(p) = {"likes"} /\ \A m : ~Owing(w, m)
    BY <1>2, <1>4 DEF Untold, News, Omitted, Owing
<1>6. started' \in 0..MaxRequests /\ UNCHANGED restarts /\ alerts \subseteq alerts' /\ alerts' \subseteq Alert
    BY <1>1, <1>2 DEF counters
<1> HIDE DEF p
<1>7. ASSUME NEW k \in Nat, likes' = [likes EXCEPT ![r.id][r.actor] = k],
             nextLike' \in Nat \ {0},
             k # 0 <=> r.like = 0, Step(w, p, {"likes", "own"})
      PROVE  ThreadsInv'
    <2> DEFINE S == {"likes", "own"}
    <2>1. likes \in [Ids -> [Users -> Nat]]
        BY <1>1 DEF TypeOK
    <2>2. /\ likes' \in [Ids -> [Users -> Nat]] /\ likes'[r.id][r.actor] = k
          /\ \A x \in Ids, u \in Users : x # r.id \/ u # r.actor => likes'[x][u] = likes[x][u]
        BY <1>3, <1>7, <2>1
    <2>3. \A x \in Ids : x # r.id => LikeCount(x)' = LikeCount(x)
        BY <2>2 DEF LikeCount
    <2>4. Moves(w, p.id, p.actor, S)
        <3>1. nextReport' \in Nat /\ nextReport <= nextReport'
            BY <1>1, <1>2, ConstantsOK DEF TypeOK
        <3>2. UNCHANGED <<threads, reports, page>>
            BY <1>2 DEF shown
        <3> QED BY <1>4, <2>2, <2>3, <3>1, <3>2 DEF Moves, Exists, Live
    <2>5. req'[w] = p
        BY <1>1, <1>7, StepGives
    <2>6. TablesOK'
        <3>1. \A x \in Ids : ~Exists(x) => \A u \in Users : likes'[x][u] = 0
            BY <1>1, <1>3, <2>2 DEF Linked
        <3>2. Linked'
            BY <1>1, <1>2, <3>1 DEF Linked, Exists, shown
        <3> QED BY <1>1, <1>2, <1>6, <1>7, <2>2, <3>2 DEF TablesOK, TypeOK, shown
    <2>7. Shaped(w)'
        BY <1>2, <1>3, <1>4, <2>5 DEF Shaped, Exists
    <2>8. Knowing(w)' /\ Searching(w)'
        BY <1>4, <1>7, <2>2, <2>5 DEF Knowing, Searching
    <2>9. S \in SUBSET (Aspects \cup {"own"}) /\ S \cap Aspects \subseteq Untold(p)
        BY <1>5 DEF Aspects, Columns
    <2>10. MisledForCause'
        <3>1. \A x \in Ids : Exists(x)' => Exists(x)
            BY <1>2 DEF Exists
        <3> QED BY <1>2, <1>4, <1>5, <1>7, <2>4, <2>9, <3>1, PageKept
    <2>11. OnlyRacesDuplicateReport'
        BY <1>2 DEF ThreadsInv, OnlyRacesDuplicateReport
    <2>12. Informed'
        <3>1. ASSUME NEW m \in Alert, Due(m)' PROVE Due(m) \/ Owing(w, m)'
            <4>1. m.thread \in Ids /\ m.actor \in Users
                BY DEF Alert
            <4>2. CASE m.type = "thread_like" /\ m.thread = r.id /\ m.actor = r.actor
                <5>1. m.user # m.actor /\ Exists(m.thread) /\ m.user = threads[m.thread].author
                      /\ likes'[r.id][r.actor] # 0
                    BY <1>2, <3>1, <4>2 DEF Due, Exists
                <5>2. r.like = 0
                    BY <1>7, <2>2, <5>1
                <5> QED BY <1>4, <2>5, <4>2, <5>2 DEF Owing
            <4>3. CASE ~(m.type = "thread_like" /\ m.thread = r.id /\ m.actor = r.actor)
                <5>1. m.type = "thread_like" =>
                        likes'[m.thread][m.actor] = likes[m.thread][m.actor]
                    BY <2>2, <4>1, <4>3
                <5> QED BY <1>2, <3>1, <5>1 DEF Due, Exists
            <4> QED BY <4>2, <4>3
        <3> QED BY <1>4, <1>5, <1>6, <1>7, <2>9, <3>1, InformedKept
    <2> HIDE DEF S
    <2>13. Step(w, p, S)
        BY <1>7 DEF S
    <2> QED BY <1>4, <2>4, <2>6, <2>7, <2>8, <2>9, <2>10, <2>11, <2>12, <2>13, OneHandler
<1>8. CASE SameRow(r) /\ likes' = [likes EXCEPT ![r.id][r.actor] = 0]
           /\ Step(w, p, {"likes", "own"}) /\ UNCHANGED nextLike
    <2>1. r.like # 0 /\ nextLike' \in Nat \ {0}
        BY <1>1, <1>8 DEF SameRow, TypeOK
    <2> QED BY <1>7, <1>8, <2>1
<1>9. CASE r.like = 0 /\ likes' = [likes EXCEPT ![r.id][r.actor] = nextLike]
           /\ nextLike' = nextLike + 1 /\ Step(w, p, {"likes", "own"})
    <2>1. nextLike \in Nat \ {0} /\ nextLike' \in Nat \ {0}
        BY <1>1, <1>9 DEF TypeOK
    <2> QED BY <1>7, <1>9, <2>1
<1>10. CASE r.like # 0 /\ ~SameRow(r) /\ Step(w, p, {}) /\ UNCHANGED <<likes, nextLike>>
    <2>1. UNCHANGED <<tables, shown>> /\ UNCHANGED <<threads, likes>>
        BY <1>2, <1>10 DEF tables
    <2>2. req'[w] = p
        BY <1>1, <1>10, StepGives
    <2>3. "own" \in r.crossed
        BY <1>1, <1>2, <1>10 DEF Knowing, SameRow
    <2>4. Shaped(w)' /\ Knowing(w)' /\ Searching(w)'
        BY <1>3, <1>4, <2>1, <2>2, <2>3 DEF Shaped, Knowing, Searching, Exists
    <2> QED BY <1>4, <1>5, <1>6, <1>10, <2>1, <2>4, JustARequest
<1>11. CASE r.like = 0 /\ Step(w, Idle, {}) /\ UNCHANGED <<likes, nextLike>>
    <2>1. UNCHANGED <<tables, shown>>
        BY <1>2, <1>11 DEF tables
    <2>2. req'[w] = Idle /\ Idle.op = "none"
        BY <1>1, <1>11, StepGives DEF Idle
    <2> QED BY <1>5, <1>6, <1>11, <2>1, <2>2, IdleKeeps, IdleIsARequest, JustARequest
<1> QED BY <1>8, <1>9, <1>10, <1>11 DEF ToggleCommit, Finish, p

LEMMA ReportInsertKeeps ==
    ASSUME ThreadsInv, NEW w \in Workers, ReportInsert(w)
    PROVE  ThreadsInv'
<1> DEFINE r == req[w]
           new == [thread |-> r.id, by |-> r.actor, status |-> "pending", since |-> r.since]
           p == IF Admins = {} THEN Idle
                ELSE [[r EXCEPT !.report = nextReport, !.todo = Admins] EXCEPT !.at = "admins"]
<1>1. /\ r \in Request /\ Shaped(w) /\ Searching(w) /\ TypeOK /\ Linked /\ started \in 0..MaxRequests
      /\ alerts \subseteq Alert
    BY RequestFacts
<1>2. /\ r.op = "report" /\ r.at = "commit" /\ nextReport <= MaxReport /\ Step(w, p, {})
      /\ reports' = [reports EXCEPT ![nextReport] = new] /\ nextReport' = nextReport + 1
      /\ UNCHANGED <<threads, nextId, likes, nextLike, alerts, shown, counters>>
    BY DEF ReportInsert, AdminRows, Goto, Finish
<1>3. /\ r.id \in Ids /\ Exists(r.id) /\ r.actor \in Users /\ r.since \in 1..(MaxReport + 1)
      /\ nextReport \in ReportIds /\ nextReport' \in 1..(MaxReport + 1) /\ nextReport \in Nat
    BY <1>1, <1>2, ConstantsOK DEF Shaped, Request, TypeOK, ReportIds
<1>4. new \in Report /\ new # NoRow
    BY <1>3, ConstantsOK DEF Report
<1>5. /\ reports'[nextReport] = new
      /\ \A i \in ReportIds \ {nextReport} : reports'[i] = reports[i]
      /\ reports' \in [ReportIds -> Report \cup {NoRow}]
    BY <1>1, <1>2, <1>3, <1>4 DEF TypeOK
<1>6. p \in Request
    <2>1. Admins \in SUBSET Users
        BY ConstantsOK
    <2> QED BY <1>1, <1>3, <2>1, IdleIsARequest, RequestUpdates
<1>7. \/ p = Idle /\ Admins = {}
      \/ /\ p.op = "report" /\ p.at = "admins" /\ p.id = r.id /\ p.actor = r.actor
         /\ p.report = nextReport /\ p.todo = Admins
    BY <1>1, <1>2 DEF Request
<1>8. req'[w] = p /\ p.op # "create"
    <2>1. Idle.op # "create"
        BY DEF Idle
    <2> QED BY <1>1, <1>2, <1>7, <2>1, StepGives
<1>9. new.thread = r.id /\ new.by = r.actor /\ new.status = "pending" /\ new.since = r.since
    OBVIOUS
<1> HIDE DEF p, new
<1>10. \A i \in ReportIds : reports[i] # NoRow => i # nextReport /\ i < nextReport
    <2>1. ReportIds \subseteq Nat
        BY ConstantsOK DEF ReportIds
    <2>2. \A i \in ReportIds : reports[i] # NoRow => i < nextReport
        BY <1>1 DEF Linked
    <2>3. nextReport \in Nat
        BY <1>3
    <2> QED BY <2>1, <2>2, <2>3
<1>11. Moves(w, p.id, p.actor, {})
    <2>1. nextReport' \in Nat /\ nextReport <= nextReport'
        BY <1>2, <1>3
    <2>2. \A i \in ReportIds : reports[i] # NoRow => reports'[i] = reports[i]
        BY <1>5, <1>10
    <2>3. \A i \in ReportIds : reports[i] = NoRow /\ reports'[i] # NoRow => i >= nextReport
        <3>1. \A i \in ReportIds : reports[i] = NoRow /\ reports'[i] # NoRow => i = nextReport
            BY <1>5
        <3>2. nextReport >= nextReport
            BY <1>3
        <3> QED BY <3>1, <3>2
    <2> QED BY <1>2, <2>1, <2>2, <2>3 DEF Moves, Exists, Live, LikeCount, shown
<1>12. TablesOK'
    <2>1. \A i \in ReportIds : reports'[i] # NoRow <=> i < nextReport'
        <3> SUFFICES ASSUME NEW i \in ReportIds PROVE reports'[i] # NoRow <=> i < nextReport'
            OBVIOUS
        <3>1. i \in Nat /\ (reports[i] # NoRow <=> i < nextReport)
            BY <1>1, ConstantsOK DEF Linked, ReportIds
        <3>2. CASE i = nextReport
            BY <1>2, <1>3, <1>4, <1>5, <3>2
        <3>3. CASE i # nextReport
            BY <1>2, <1>3, <1>5, <3>1, <3>3
        <3> QED BY <3>2, <3>3
    <2>2. Linked'
        BY <1>1, <1>2, <2>1 DEF Linked, Exists, shown
    <2> QED BY <1>1, <1>2, <1>3, <1>5, <2>2 DEF TablesOK, TypeOK, shown, counters
<1>13. Shaped(w)' /\ Knowing(w)' /\ Searching(w)'
    <2>1. CASE p = Idle
        BY <1>8, <2>1, IdleKeeps
    <2>2. CASE p # Idle
        BY <1>2, <1>3, <1>4, <1>5, <1>7, <1>8, <2>2 DEF Shaped, Knowing, Searching, Exists
    <2> QED BY <2>1, <2>2
<1>14. Untold(r) = {} /\ \A m : ~Owing(w, m)
    BY <1>2 DEF Untold, Owing
<1>15. MisledForCause'
    <2>1. \A x \in Ids : Exists(x)' => Exists(x)
        BY <1>2 DEF Exists
    <2> QED BY <1>2, <1>6, <1>11, <1>14, <2>1, PageKept
<1>16. OnlyRacesDuplicateReport'
    <2> SUFFICES ASSUME NEW i \in ReportIds, NEW j \in ReportIds, i < j,
                        reports'[i] # NoRow, reports'[j] # NoRow,
                        reports'[i].thread = reports'[j].thread, reports'[i].by = reports'[j].by,
                        reports'[i].status = "pending", reports'[j].status = "pending"
                 PROVE  reports'[j].since <= i
        BY DEF OnlyRacesDuplicateReport
    <2>1. i \in Nat /\ j \in Nat
        BY ConstantsOK DEF ReportIds
    <2>2. i # nextReport
        <3> SUFFICES ASSUME i = nextReport PROVE FALSE
            OBVIOUS
        <3>1. reports[j] # NoRow
            BY <1>5, <2>1
        <3> QED BY <1>3, <1>10, <2>1, <3>1
    <2>3. reports[i] = reports'[i]
        BY <1>5, <2>2
    <2>4. CASE j = nextReport
        BY <1>1, <1>2, <1>5, <1>9, <2>3, <2>4 DEF Searching
    <2>5. CASE j # nextReport
        <3>1. reports[j] = reports'[j]
            BY <1>5, <2>5
        <3>2. OnlyRacesDuplicateReport
            BY DEF ThreadsInv
        <3> QED BY <2>3, <3>1, <3>2 DEF OnlyRacesDuplicateReport
    <2> QED BY <2>4, <2>5
<1>17. Informed'
    <2>1. ASSUME NEW m \in Alert, Due(m)' PROVE Due(m) \/ Owing(w, m)'
        <3>1. CASE m.type # "thread_report"
            BY <1>2, <2>1, <3>1 DEF Due, Exists
        <3>2. CASE m.type = "thread_report"
            <4>1. PICK i \in ReportIds :
                    reports'[i] # NoRow /\ reports'[i].thread = m.thread /\ reports'[i].by = m.actor
                BY <2>1, <3>2 DEF Due
            <4>2. m.user \in Admins
                BY <2>1, <3>2 DEF Due
            <4>3. CASE i = nextReport
                <5>1. m.thread = r.id /\ m.actor = r.actor
                    BY <1>5, <1>9, <4>1, <4>3
                <5> QED BY <1>7, <1>8, <3>2, <4>2, <5>1 DEF Owing
            <4>4. CASE i # nextReport
                BY <1>5, <3>2, <4>1, <4>2, <4>4 DEF Due
            <4> QED BY <4>3, <4>4
        <3> QED BY <3>1, <3>2
    <2>2. restarts' = restarts /\ alerts \subseteq alerts'
        BY <1>2 DEF counters
    <2> QED BY <1>2, <1>6, <1>14, <2>1, <2>2, InformedKept
<1> QED BY <1>2, <1>6, <1>8, <1>11, <1>12, <1>13, <1>15, <1>16, <1>17, OneHandler

LEMMA ReviewCommitKeeps ==
    ASSUME ThreadsInv, NEW w \in Workers, ReviewCommit(w)
    PROVE  ThreadsInv'
<1> DEFINE r == req[w]
           new == [reports[r.report] EXCEPT !.status = r.status]
<1>1. /\ r \in Request /\ Shaped(w) /\ TypeOK /\ Linked /\ started \in 0..MaxRequests
      /\ alerts \subseteq Alert
    BY RequestFacts
<1>2. /\ r.op = "review" /\ r.at = "commit" /\ Step(w, Idle, {})
      /\ reports' = IF r.dirty = {} THEN reports
                  ELSE [reports EXCEPT ![r.report].status = r.status]
      /\ UNCHANGED <<threads, nextId, likes, nextLike, nextReport, alerts, shown, counters>>
    BY DEF ReviewCommit, Finish
<1>3. /\ r.report \in ReportIds /\ reports[r.report] \in Report /\ reports[r.report] # NoRow
      /\ r.status \in Verdicts
    BY <1>1, <1>2 DEF Shaped, TypeOK
<1>4. /\ new \in Report /\ new # NoRow /\ new.thread = reports[r.report].thread
      /\ new.by = reports[r.report].by /\ new.since = reports[r.report].since
      /\ new.status = r.status /\ r.status # "pending"
    <2>1. new \in Report /\ new.status = r.status /\ r.status # "pending"
          /\ new.thread = reports[r.report].thread
          /\ new.by = reports[r.report].by /\ new.since = reports[r.report].since
        BY <1>3 DEF Report, Verdicts
    <2> QED BY <2>1, ConstantsOK
<1> HIDE DEF new
<1>5. /\ reports' \in [ReportIds -> Report \cup {NoRow}]
      /\ \A i \in ReportIds : reports'[i] = reports[i] \/ (i = r.report /\ reports'[i] = new)
    BY <1>1, <1>2, <1>3, <1>4 DEF TypeOK, new
<1>6. \A i \in ReportIds :
        /\ reports'[i] # NoRow <=> reports[i] # NoRow
        /\ reports[i] # NoRow =>
             /\ reports'[i].thread = reports[i].thread /\ reports'[i].by = reports[i].by
             /\ reports'[i].since = reports[i].since
             /\ reports'[i].status = "pending" => reports[i].status = "pending"
    BY <1>3, <1>4, <1>5
<1>7. req'[w] = Idle /\ Idle \in Request /\ Idle.op = "none"
    BY <1>1, <1>2, StepGives, IdleIsARequest DEF Idle
<1>8. Moves(w, Idle.id, Idle.actor, {})
    <2>1. nextReport' \in Nat /\ nextReport <= nextReport'
        BY <1>1, <1>2, ConstantsOK DEF TypeOK
    <2> QED BY <1>2, <1>6, <2>1 DEF Moves, Exists, Live, LikeCount, shown
<1>9. TablesOK'
    <2>1. Linked'
        BY <1>1, <1>2, <1>6 DEF Linked, Exists, shown
    <2> QED BY <1>1, <1>2, <1>5, <2>1 DEF TablesOK, TypeOK, shown, counters
<1>10. Untold(r) = {} /\ \A m : ~Owing(w, m)
    BY <1>2 DEF Untold, Owing
<1>11. MisledForCause'
    <2>1. \A x \in Ids : Exists(x)' => Exists(x)
        BY <1>2 DEF Exists
    <2> QED BY <1>2, <1>7, <1>8, <1>10, <2>1, PageKept
<1>12. OnlyRacesDuplicateReport'
    <2>1. OnlyRacesDuplicateReport
        BY DEF ThreadsInv
    <2> QED BY <1>6, <2>1 DEF OnlyRacesDuplicateReport
<1>13. Informed'
    <2>1. \A m \in Alert : Due(m)' => Due(m)
        BY <1>2, <1>6 DEF Due, Exists
    <2>2. restarts' = restarts /\ alerts \subseteq alerts'
        BY <1>2 DEF counters
    <2> QED BY <1>2, <1>7, <1>10, <2>1, <2>2, InformedKept
<1> QED BY <1>2, <1>7, <1>8, <1>9, <1>11, <1>12, <1>13, IdleKeeps, OneHandler

LEMMA AnnounceKeeps ==
    ASSUME ThreadsInv, NEW w \in Workers, Announce(w)
    PROVE  ThreadsInv'
<1> DEFINE r == req[w]
           goesOn == r.op = "like" /\ r.like = 0
           q == [r EXCEPT !.at = "alert"]
           p == IF goesOn THEN q ELSE Idle
           t == r.id
           heard == /\ page' = [page EXCEPT ![r.id] = After(page[r.id], r)]
                    /\ doubt' = [doubt EXCEPT ![r.id] = (doubt[r.id] \ News(r))
                                    \cup (r.crossed \cap News(r)) \cup Omitted(r)]
           lost == /\ doubt' = [doubt EXCEPT ![r.id] = doubt[r.id] \cup News(r) \cup Omitted(r)]
                   /\ UNCHANGED page
<1>1. /\ r \in Request /\ Shaped(w) /\ Knowing(w) /\ TypeOK /\ Linked /\ started \in 0..MaxRequests
      /\ alerts \subseteq Alert
    BY RequestFacts
<1>2. r.at = "tell" /\ (heard \/ lost) /\ Step(w, p, {}) /\ UNCHANGED <<tables, alerts, counters>>
    BY DEF Announce, Goto, Finish
<1>3. r.op \in {"create", "edit", "delete", "like"} /\ r.id \in Ids /\ Exists(r.id)
    <2>1. r.op \in AllHandlers \cup {"none"}
        BY <1>1 DEF Request
    <2> QED BY <1>1, <1>2, <2>1 DEF Shaped, AllHandlers
<1>4. /\ p \in Request
      /\ \/ p.op = "like" /\ p.at = "alert" /\ p.id = r.id /\ p.actor = r.actor /\ p.like = 0
         \/ p = Idle
    <2>1. /\ q \in Request /\ q.op = r.op /\ q.at = "alert" /\ q.id = r.id
          /\ q.actor = r.actor /\ q.like = r.like
        BY <1>1, GoingOn
    <2> HIDE DEF q
    <2> QED BY <2>1, IdleIsARequest
<1>5. req'[w] = p /\ p.op # "create" /\ (goesOn => p # Idle)
    <2>1. goesOn => p.op = "like"
        BY <1>1, GoingOn
    <2> QED BY <1>1, <1>2, <1>4, <2>1, StepGives DEF Idle
<1>6. Untold(r) = News(r) \cup Omitted(r) /\ News(r) \subseteq Aspects /\ Omitted(r) \subseteq Aspects
    <2>1. News(r) \subseteq Aspects
        BY DEF News, Aspects, Columns
    <2>2. Omitted(r) \subseteq Aspects
        BY <1>1 DEF Request, Omitted
    <2> QED BY <1>2, <1>3, <2>1, <2>2 DEF Untold, Omitted
<1>7. UNCHANGED <<threads, likes, reports, nextId, nextReport>>
    BY <1>2 DEF tables
<1>8. page \in [Ids -> View \cup {NoRow}] /\ doubt \in [Ids -> SUBSET Aspects]
    BY <1>1 DEF TypeOK
<1>9. After(page[t], r) \in View \cup {NoRow}
    <2>1. page[t] \in View \cup {NoRow}
        BY <1>3, <1>8
    <2>2. r.op \in {"create", "edit"} => r.row.text \in Texts
        BY <1>1, <1>2 DEF Shaped, Thread
    <2>3. r.count \in Nat
        BY <1>1 DEF Request
    <2>4. \A v \in View : r.count \in Nat => [v EXCEPT !.likes = r.count] \in View
        BY DEF View
    <2>5. ASSUME NEW v \in View, r.row.text \in Texts
          PROVE  [v EXCEPT !.text = Merged(v.text, r.row.text, News(r))] \in View
        <3>1. Merged(v.text, r.row.text, News(r)) \in Texts
            BY <2>5, MergedText DEF View
        <3> QED BY <3>1 DEF View
    <2>6. r.row.text \in Texts => [text |-> r.row.text, likes |-> 0] \in View
        BY DEF View
    <2> QED BY <1>3, <2>1, <2>2, <2>3, <2>4, <2>5, <2>6 DEF After
<1> HIDE DEF p
<1>10. page' \in [Ids -> View \cup {NoRow}] /\ doubt' \in [Ids -> SUBSET Aspects]
    BY <1>2, <1>6, <1>8, <1>9
<1>11. \A x \in Ids \ {t} : page'[x] = page[x] /\ doubt'[x] = doubt[x]
    BY <1>2, <1>8
<1>12. page[t] = NoRow /\ page'[t] # NoRow => r.op = "create"
    BY <1>2, <1>3, <1>8 DEF After
<1>13. Moves(w, p.id, p.actor, {})
    <2>1. nextReport' \in Nat /\ nextReport <= nextReport'
        BY <1>1, <1>7, ConstantsOK DEF TypeOK
    <2>2. \A x \in Ids : page[x] = NoRow =>
            page'[x] = NoRow \/ (req[w].op = "create" /\ req[w].id = x)
        BY <1>11, <1>12
    <2> QED BY <1>7, <2>1, <2>2 DEF Moves, Exists, Live, LikeCount
<1>14. TablesOK'
    <2>1. Linked'
        BY <1>1, <1>3, <1>7, <1>11 DEF Linked, Exists
    <2> QED BY <1>1, <1>2, <1>10, <2>1 DEF TablesOK, TypeOK, tables, counters
<1>15. Shaped(w)' /\ Knowing(w)' /\ Searching(w)'
    <2>1. CASE p = Idle
        BY <1>5, <2>1, IdleKeeps
    <2>2. CASE p # Idle
        BY <1>1, <1>2, <1>3, <1>4, <1>5, <1>7, <2>2 DEF Shaped, Knowing, Searching, Exists
    <2> QED BY <2>1, <2>2
<1>16. MisledForCause'
    <2> SUFFICES ASSUME NEW x \in Ids, NEW k \in Aspects, k \notin doubt'[x],
                        k \notin Unannounced(x)'
                 PROVE  Agrees(x, k)'
        BY DEF MisledForCause
    <2>1. \A v \in Workers \ {w} : Alike(req'[v], req[v])
        BY <1>2, <1>4, OthersAlike DEF ThreadsInv
    <2>2. ASSUME NEW v \in Workers, req[v].id = x, k \in Untold(req[v]) PROVE v = w
        <3> SUFFICES ASSUME v # w PROVE FALSE
            OBVIOUS
        <3>1. k \in Untold(req'[v]) /\ req'[v].id = x
            BY <2>1, <2>2 DEF Alike, Untold, News, Omitted
        <3> QED BY <3>1 DEF Unannounced
    <2>3. k \notin doubt[x] /\ (x # t \/ k \notin News(r) \cup Omitted(r)) => Agrees(x, k)
        BY <1>6, <2>2 DEF ThreadsInv, MisledForCause, Unannounced
    <2>4. Aspects = {"life", "likes"} \cup Columns /\ "life" \notin Columns /\ "likes" \notin Columns
        BY DEF Aspects, Columns
    <2>5. CASE x # t
        BY <1>7, <1>11, <2>3, <2>5 DEF Agrees, Answer, Live, Exists, LikeCount
    <2>6. CASE x = t /\ k \notin News(r)
        <3>1. k \notin doubt[t] /\ k \notin Omitted(r)
            BY <1>2, <1>8, <1>3, <2>6
        <3>2. Agrees(t, k)
            BY <2>3, <2>6, <3>1
        <3>3. CASE UNCHANGED page
            BY <1>7, <2>6, <3>2, <3>3 DEF Agrees, Answer, Live, Exists, LikeCount
        <3>4. CASE heard
            <4>1. page'[t] = After(page[t], r) /\ page[t] \in View \cup {NoRow}
                BY <1>3, <1>8, <3>4
            <4>2. r.op # "create"
                BY <2>6 DEF News
            <4>3. CASE r.op = "delete"
                <5>1. page'[t] = NoRow /\ k # "life"
                    BY <2>6, <4>1, <4>3 DEF After, News
                <5> QED BY <2>4, <2>6, <5>1 DEF Agrees, Answer
            <4>4. CASE r.op = "edit"
                <5>1. CASE page[t] = NoRow
                    <6>1. page'[t] = NoRow
                        BY <4>1, <4>4, <5>1 DEF After
                    <6> QED BY <1>7, <2>4, <2>6, <3>2, <5>1, <6>1 DEF Agrees, Answer, Live, Exists, LikeCount
                <5>2. CASE page[t] # NoRow
                    <6> DEFINE text == Merged(page[t].text, r.row.text, News(r))
                    <6>1. page[t] \in View /\ page'[t] = [page[t] EXCEPT !.text = text]
                        BY <4>1, <4>4, <5>2 DEF After
                    <6>2. r.row.text \in Texts /\ page[t].text \in Texts
                        BY <1>1, <1>2, <4>4, <6>1 DEF Shaped, Thread, View
                    <6>3. text \in Texts /\ (k \in Columns => text[k] = page[t].text[k])
                        BY <2>6, <6>2, MergedText
                    <6> HIDE DEF text
                    <6>4. page'[t] \in View /\ page'[t].text = text /\ page'[t].likes = page[t].likes
                        BY <6>1, <6>3 DEF View
                    <6>5. page'[t] # NoRow
                        BY <6>4, ConstantsOK
                    <6> QED BY <1>7, <2>4, <2>6, <3>2, <5>2, <6>3, <6>4, <6>5
                           DEF Agrees, Answer, Live, Exists, LikeCount
                <5> QED BY <5>1, <5>2
            <4>5. CASE r.op = "like"
                <5>1. /\ k # "likes" /\ (page'[t] = NoRow <=> page[t] = NoRow)
                      /\ page[t] # NoRow => page'[t].text = page[t].text
                    <6>1. k # "likes"
                        BY <2>6, <4>5 DEF News
                    <6>2. page[t] # NoRow => page'[t] = [page[t] EXCEPT !.likes = r.count]
                                            /\ page[t] \in View
                        BY <4>1, <4>5 DEF After
                    <6>3. page[t] # NoRow =>
                            page'[t] \in View /\ page'[t].text = page[t].text
                        <7> SUFFICES ASSUME page[t] # NoRow
                                     PROVE  page'[t] \in View /\ page'[t].text = page[t].text
                            OBVIOUS
                        <7>1. r.count \in Nat
                            BY <1>1 DEF Request
                        <7> QED BY <6>2, <7>1 DEF View
                    <6>4. page[t] = NoRow => page'[t] = NoRow
                        BY <4>1, <4>5 DEF After
                    <6> QED BY <6>1, <6>3, <6>4, ConstantsOK
                <5> QED BY <1>7, <2>4, <2>6, <3>2, <5>1 DEF Agrees, Answer, Live, Exists, LikeCount
            <4> QED BY <1>3, <4>2, <4>3, <4>4, <4>5
        <3> QED BY <1>2, <3>3, <3>4
    <2>7. CASE x = t /\ k \in News(r)
        <3>1. heard
            BY <1>2, <1>3, <1>8, <2>7
        <3>2. page'[t] = After(page[t], r) /\ page[t] \in View \cup {NoRow} /\ k \notin r.crossed
            BY <1>3, <1>8, <2>7, <3>1
        <3>3. CASE r.op = "create"
            <4>1. page[t] = NoRow /\ page'[t] = [text |-> r.row.text, likes |-> 0]
                BY <1>1, <3>2, <3>3 DEF Knowing, After
            <4>2. page'[t] # NoRow /\ page'[t].text = r.row.text /\ page'[t].likes = 0
                BY <1>1, <1>2, <3>3, <4>1, ConstantsOK DEF View, Shaped, Thread
            <4> QED BY <1>1, <1>7, <2>4, <2>7, <3>2, <3>3, <4>2 DEF Agrees, Answer, Knowing, Live, Exists, LikeCount
        <3>4. CASE r.op = "edit"
            <4>1. k \in Columns
                BY <2>7, <3>4 DEF News, Columns
            <4>2. threads[t].text[k] = r.row.text[k]
                BY <1>1, <1>2, <3>2, <3>4, <4>1 DEF Knowing
            <4>3. ASSUME page'[t] # NoRow
                  PROVE  page'[t].text[k] = r.row.text[k]
                <5> DEFINE text == Merged(page[t].text, r.row.text, News(r))
                <5>1. page[t] \in View /\ page'[t] = [page[t] EXCEPT !.text = text]
                    BY <3>2, <3>4, <4>3 DEF After
                <5>2. r.row.text \in Texts /\ page[t].text \in Texts
                    BY <1>1, <1>2, <3>4, <5>1 DEF Shaped, Thread, View
                <5>3. text[k] = r.row.text[k]
                    BY <2>7, <4>1, <5>2, MergedText
                <5> HIDE DEF text
                <5> QED BY <5>1, <5>3 DEF View
            <4> QED BY <1>7, <2>4, <2>7, <4>1, <4>2, <4>3 DEF Agrees, Answer
        <3>5. CASE r.op = "delete"
            <4>1. k = "life" /\ ~Live(t) /\ page'[t] = NoRow
                BY <1>1, <1>2, <2>7, <3>2, <3>5 DEF News, Knowing, After
            <4> QED BY <1>7, <2>7, <4>1 DEF Agrees, Answer, Live, Exists
        <3>6. CASE r.op = "like"
            <4>1. k = "likes" /\ r.count = LikeCount(t)
                BY <1>1, <1>2, <2>7, <3>2, <3>6 DEF News, Knowing
            <4>2. page'[t] # NoRow => page'[t].likes = r.count
                BY <3>2, <3>6 DEF After, View
            <4> QED BY <1>7, <2>7, <4>1, <4>2 DEF Agrees, Answer, LikeCount
        <3> QED BY <1>3, <3>3, <3>4, <3>5, <3>6
    <2> QED BY <2>5, <2>6, <2>7
<1>17. OnlyRacesDuplicateReport'
    BY <1>7 DEF ThreadsInv, OnlyRacesDuplicateReport
<1>18. Informed'
    <2>1. \A m \in Alert : Due(m)' => Due(m)
        BY <1>7 DEF Due, Exists
    <2>2. \A m : Owing(w, m) => Owing(w, m)'
        BY <1>2, <1>4, <1>5 DEF Owing
    <2>3. restarts' = restarts /\ alerts \subseteq alerts'
        BY <1>2 DEF counters
    <2> QED BY <1>2, <1>4, <2>1, <2>2, <2>3, InformedKept
<1> QED BY <1>2, <1>4, <1>5, <1>13, <1>14, <1>15, <1>16, <1>17, <1>18, OneHandler

-----------------------------------------------------------------------------
(* The theorems.                                                           *)

LEMMA RestartKeeps ==
    ASSUME ThreadsInv, Restart
    PROVE  ThreadsInv'
<1>1. TypeOK /\ Linked
    BY DEF ThreadsInv
<1>2. /\ restarts < MaxRestarts /\ restarts' = restarts + 1 /\ req' = [w \in Workers |-> Idle]
      /\ doubt' = [t \in Ids |-> doubt[t] \cup Unannounced(t)]
      /\ UNCHANGED <<tables, alerts, page, started>>
    BY DEF Restart
<1>3. UNCHANGED <<threads, nextId, likes, nextLike, reports, nextReport>>
    BY <1>2 DEF tables
<1>4. \A w \in Workers : req'[w] = Idle
    BY <1>2
<1>5. TypeOK'
    <2>1. req' \in [Workers -> Request]
        BY <1>2, IdleIsARequest
    <2>2. restarts' \in 0..MaxRestarts /\ restarts' # 0
        BY <1>1, <1>2, ConstantsOK DEF TypeOK
    <2>3. \A t \in Ids : doubt[t] \cup Unannounced(t) \in SUBSET Aspects
        <3>1. ASSUME NEW w \in Workers PROVE Untold(req[w]) \subseteq Aspects
            <4>1. req[w].dirty \subseteq Aspects
                BY <1>1 DEF TypeOK, Request
            <4> QED BY <4>1 DEF Untold, News, Omitted, Aspects, Columns
        <3> QED BY <1>1, <3>1 DEF TypeOK, Unannounced
    <2> QED BY <1>1, <1>2, <1>3, <2>1, <2>2, <2>3 DEF TypeOK
<1>6. Linked'
    BY <1>1, <1>2, <1>3 DEF Linked, Exists
<1>7. CreatedOnce'
    BY <1>4 DEF CreatedOnce, Idle
<1>8. \A w \in Workers : Shaped(w)' /\ Knowing(w)' /\ Searching(w)'
    BY <1>4, IdleKeeps
<1>9. MisledForCause'
    <2>1. \A t \in Ids : doubt'[t] = doubt[t] \cup Unannounced(t)
        BY <1>2
    <2>2. MisledForCause
        BY DEF ThreadsInv
    <2>3. \A t \in Ids : \A k \in Aspects : Agrees(t, k) => Agrees(t, k)'
        BY <1>2, <1>3 DEF Agrees, Answer, Live, Exists, LikeCount
    <2> QED BY <2>1, <2>2, <2>3 DEF MisledForCause
<1>10. OnlyRacesDuplicateReport'
    BY <1>3 DEF ThreadsInv, OnlyRacesDuplicateReport
<1>11. Informed'
    BY <1>1, <1>2, ConstantsOK DEF Informed, TypeOK
<1> QED BY <1>5, <1>6, <1>7, <1>8, <1>9, <1>10, <1>11 DEF ThreadsInv

LEMMA InitInv == Init => ThreadsInv
<1> SUFFICES ASSUME Init PROVE ThreadsInv
    OBVIOUS
<1> USE DEF Init
<1>1. TypeOK
    BY IdleIsARequest, ConstantsOK DEF TypeOK
<1>2. Linked
    BY ConstantsOK DEF Linked, Exists, Ids, ReportIds
<1>3. CreatedOnce
    BY DEF CreatedOnce, Idle
<1>4. \A w \in Workers : Shaped(w) /\ Knowing(w) /\ Searching(w)
    BY DEF Shaped, Knowing, Searching, Idle
<1>5. MisledForCause
    <2>1. \A t \in Ids : ~Live(t) /\ page[t] = NoRow
        BY DEF Live, Exists
    <2> QED BY <2>1 DEF MisledForCause, Agrees, Answer
<1>6. OnlyRacesDuplicateReport
    BY DEF OnlyRacesDuplicateReport
<1>7. Informed
    <2>1. \A m \in Alert : ~Due(m)
        BY DEF Alert, Due, Exists
    <2> QED BY <2>1 DEF Informed
<1> QED BY <1>1, <1>2, <1>3, <1>4, <1>5, <1>6, <1>7 DEF ThreadsInv

LEMMA NextKeeps == ThreadsInv /\ [Next]_vars => ThreadsInv'
<1> SUFFICES ASSUME ThreadsInv, [Next]_vars PROVE ThreadsInv'
    OBVIOUS
<1>1. ASSUME NEW w \in Workers, Start(w) PROVE ThreadsInv'
    BY <1>1, CreateKeeps, EditLoadKeeps, DeleteLoadKeeps, LikeLoadKeeps, ReportCheckKeeps,
       ReviewLoadKeeps DEF Start
<1>2. ASSUME NEW w \in Workers, Proceed(w) PROVE ThreadsInv'
    BY <1>2, CommitKeeps, TellConcernedKeeps, ToggleCommitKeeps, CountKeeps, AnnounceKeeps,
       ReportInsertKeeps, TellAdminKeeps, ReviewCommitKeeps DEF Proceed
<1>3. CASE UNCHANGED vars
    <2>1. /\ UNCHANGED <<threads, nextId, likes, nextLike, reports, nextReport>>
          /\ UNCHANGED <<req, alerts, page, doubt, started, restarts>>
        BY <1>3 DEF vars, tables, shown, counters
    <2>2. TypeOK'
        BY <2>1 DEF ThreadsInv, TypeOK
    <2>3. Linked' /\ CreatedOnce'
        BY <2>1 DEF ThreadsInv, Linked, CreatedOnce, Exists
    <2>4. \A w \in Workers : Shaped(w)' /\ Knowing(w)' /\ Searching(w)'
        <3> SUFFICES ASSUME NEW w \in Workers PROVE Shaped(w)' /\ Knowing(w)' /\ Searching(w)'
            OBVIOUS
        <3>1. Shaped(w) /\ Knowing(w) /\ Searching(w)
            BY DEF ThreadsInv
        <3>2. Shaped(w)' /\ Searching(w)'
            BY <2>1, <3>1 DEF Shaped, Searching, Exists
        <3>3. Knowing(w)'
            BY <2>1, <3>1 DEF Knowing, Exists, Live, LikeCount
        <3> QED BY <3>2, <3>3
    <2>5. MisledForCause'
        <3>1. \A t \in Ids : Unannounced(t)' = Unannounced(t)
            BY <2>1 DEF Unannounced
        <3>2. \A t \in Ids : \A k \in Aspects : Agrees(t, k) => Agrees(t, k)'
            BY <2>1 DEF Agrees, Answer, Live, Exists, LikeCount
        <3> QED BY <2>1, <3>1, <3>2 DEF ThreadsInv, MisledForCause
    <2>6. OnlyRacesDuplicateReport'
        BY <2>1 DEF ThreadsInv, OnlyRacesDuplicateReport
    <2>7. Informed'
        <3>1. \A m \in Alert : Due(m)' => Due(m)
            BY <2>1 DEF Due, Exists
        <3>2. \A m \in Alert, w \in Workers : Owing(w, m) => Owing(w, m)'
            BY <2>1 DEF Owing
        <3> QED BY <2>1, <3>1, <3>2 DEF ThreadsInv, Informed
    <2> QED BY <2>2, <2>3, <2>4, <2>5, <2>6, <2>7 DEF ThreadsInv
<1> QED BY <1>1, <1>2, <1>3, RestartKeeps DEF Next

LEMMA AlwaysThreadsInv == Spec => []ThreadsInv
BY InitInv, NextKeeps, PTL DEF Spec

\* The tables, the requests and the page have their types.
THEOREM ThreadTypes == Spec => []TypeOK
<1>1. ThreadsInv => TypeOK
    BY DEF ThreadsInv
<1> QED BY <1>1, AlwaysThreadsInv, PTL

\* A page that hears every broadcast of the thread handlers shows what the tables
\* hold, but for news that was lost or crossed by another handler's, and for what
\* the broadcast of an edit leaves out: a new status, and tags that are cleared.
THEOREM PagesAreRight == Spec => []MisledForCause
<1>1. ThreadsInv => MisledForCause
    BY DEF ThreadsInv
<1> QED BY <1>1, AlwaysThreadsInv, PTL

\* The answer of a toggle is right, unless another toggle of the same user and
\* thread has come between.
THEOREM AnswersAreRight == Spec => []OnlyOwnRivalsMisinform
<1>1. ThreadsInv => OnlyOwnRivalsMisinform
    BY DEF ThreadsInv, OnlyOwnRivalsMisinform, Knowing
<1> QED BY <1>1, AlwaysThreadsInv, PTL

\* Only reports whose requests raced can be pending twice.
THEOREM DuplicateReportsAreRaces == Spec => []OnlyRacesDuplicateReport
<1>1. ThreadsInv => OnlyRacesDuplicateReport
    BY DEF ThreadsInv
<1> QED BY <1>1, AlwaysThreadsInv, PTL

\* Whoever a thread, a like, a delete or a report concerns is told, if no event is
\* lost and the service does not stop.
THEOREM NobodyLeftOut == Spec => []NobodyIsLeftOut
<1>1. ThreadsInv => NobodyIsLeftOut
    <2> SUFFICES ASSUME ThreadsInv, "lose_alert" \notin Faults, restarts = 0 PROVE NobodyIsLeftOut
        BY DEF NobodyIsLeftOut
    <2>1. \A m \in Alert : Due(m) => m \in alerts \/ \E w \in Workers : Owing(w, m)
        BY DEF ThreadsInv, Informed
    <2>2. threads \in [Ids -> Thread \cup {NoRow}] /\ reports \in [ReportIds -> Report \cup {NoRow}]
        BY DEF ThreadsInv, TypeOK
    <2>3. ASSUME NEW t \in Ids, Exists(t), threads[t].community # NoRow,
                 CommunityOwner[threads[t].community] # threads[t].author
          PROVE  \/ Heard("community_thread", CommunityOwner[threads[t].community], t, threads[t].author)
                 \/ Serving("create", t, threads[t].author)
        <3> DEFINE m == [type |-> "community_thread",
                         user |-> CommunityOwner[threads[t].community],
                         thread |-> t, actor |-> threads[t].author]
        <3>1. threads[t] \in Thread
            BY <2>2, <2>3 DEF Exists
        <3>2. CommunityOwner[threads[t].community] \in Users /\ threads[t].author \in Users
            BY <2>3, <3>1, ConstantsOK DEF Thread
        <3>3. m \in Alert /\ Due(m)
            BY <2>3, <3>2 DEF Alert, Due
        <3> QED BY <2>1, <3>3 DEF Owing, Serving, Heard
    <2>4. ASSUME NEW t \in Ids, Exists(t), NEW a \in Users \ {threads[t].author},
                 a \in threads[t].deleters
          PROVE  Heard("thread_deleted", threads[t].author, t, a) \/ Serving("delete", t, a)
        <3> DEFINE m == [type |-> "thread_deleted", user |-> threads[t].author,
                         thread |-> t, actor |-> a]
        <3>1. threads[t].author \in Users
            BY <2>2, <2>4 DEF Exists, Thread
        <3>2. m \in Alert /\ Due(m)
            BY <2>4, <3>1 DEF Alert, Due
        <3> QED BY <2>1, <3>2 DEF Owing, Serving, Heard
    <2>5. ASSUME NEW t \in Ids, Exists(t), NEW a \in Users \ {threads[t].author}, likes[t][a] # 0
          PROVE  Heard("thread_like", threads[t].author, t, a) \/ Serving("like", t, a)
        <3> DEFINE m == [type |-> "thread_like", user |-> threads[t].author,
                         thread |-> t, actor |-> a]
        <3>1. threads[t].author \in Users
            BY <2>2, <2>5 DEF Exists, Thread
        <3>2. m \in Alert /\ Due(m)
            BY <2>5, <3>1 DEF Alert, Due
        <3> QED BY <2>1, <3>2 DEF Owing, Serving, Heard
    <2>6. ASSUME NEW i \in ReportIds, reports[i] # NoRow, NEW u \in Admins
          PROVE  Heard("thread_report", u, reports[i].thread, reports[i].by)
                 \/ Serving("report", reports[i].thread, reports[i].by)
        <3> DEFINE m == [type |-> "thread_report", user |-> u,
                         thread |-> reports[i].thread, actor |-> reports[i].by]
        <3>1. reports[i].thread \in Ids /\ reports[i].by \in Users /\ u \in Users
            BY <2>2, <2>6, ConstantsOK DEF Report
        <3>2. m \in Alert /\ Due(m)
            BY <2>6, <3>1 DEF Alert, Due
        <3> QED BY <2>1, <3>2 DEF Owing, Serving, Heard
    <2> QED BY <2>3, <2>4, <2>5, <2>6 DEF NobodyIsLeftOut
<1> QED BY <1>1, AlwaysThreadsInv, PTL

\* A thread that is there.
Lives(t) ==
    /\ Exists(t)'
    /\ threads[t].deleters \subseteq threads'[t].deleters
    /\ \A u \in threads'[t].deleters \ threads[t].deleters : MayDelete(u, threads[t].author)
    /\ threads'[t].text # threads[t].text =>
          \E w \in Workers : req[w].op = "edit" /\ req[w].id = t
                             /\ req[w].actor = threads[t].author

LEMMA StepsKeepTheDead ==
    ASSUME ThreadsInv, [Next]_vars, NEW t \in Ids, Exists(t)
    PROVE  Lives(t)
<1>1. CASE UNCHANGED threads
    BY <1>1 DEF Lives, Exists
<1>2. ASSUME NEW w \in Workers, NEW a \in Users, NEW c, NEW text, Create(w, a, c, text)
      PROVE  Lives(t)
    <2>1. threads \in [Ids -> Thread \cup {NoRow}] /\ ~(t = nextId)
        BY ConstantsOK DEF ThreadsInv, TypeOK, Linked, Ids
    <2>2. threads'[t] = threads[t]
        BY <1>2, <2>1 DEF Create
    <2> QED BY <2>2 DEF Lives, Exists
<1>3. ASSUME NEW w \in Workers, Commit(w)
      PROVE  Lives(t)
    <2> DEFINE r == req[w]
               new == Written(threads[r.id], r)
    <2>1. r \in Request /\ Shaped(w) /\ threads \in [Ids -> Thread \cup {NoRow}]
        BY RequestFacts DEF TypeOK
    <2>2. r.op \in {"edit", "delete"} /\ r.at = "commit"
          /\ threads' = IF r.dirty = {} THEN threads ELSE [threads EXCEPT ![r.id] = new]
        BY <1>3 DEF Commit
    <2>3. /\ r.id \in Ids /\ r.actor \in Users /\ r.row \in Thread
          /\ threads[r.id] \in Thread /\ r.row.author = threads[r.id].author
          /\ (r.op = "edit" => r.actor = r.row.author)
          /\ (r.op = "delete" => MayDelete(r.actor, r.row.author))
        BY <2>1, <2>2 DEF Shaped, Exists
    <2>4. /\ new # NoRow
          /\ r.op = "edit" => new.deleters = threads[r.id].deleters
          /\ r.op # "edit" => new.text = threads[r.id].text
                              /\ new.deleters = threads[r.id].deleters \cup {r.actor}
        BY <2>1, <2>3, WrittenRow
    <2>5. CASE t = r.id /\ r.dirty # {}
        <3>1. threads'[t] = new
            BY <2>1, <2>2, <2>3, <2>5
        <3> HIDE DEF new
        <3> QED BY <2>2, <2>3, <2>4, <2>5, <3>1 DEF Lives, Exists
    <2>6. CASE t # r.id \/ r.dirty = {}
        <3>1. threads'[t] = threads[t]
            BY <2>1, <2>2, <2>6
        <3> QED BY <3>1 DEF Lives, Exists
    <2> QED BY <2>5, <2>6
<1>4. ASSUME NEW w \in Workers, Start(w) PROVE Lives(t)
    BY <1>1, <1>2, <1>4
       DEF Start, EditLoad, DeleteLoad, LikeLoad, ReportCheck, ReviewLoad, tables
<1>5. ASSUME NEW w \in Workers, Proceed(w) PROVE Lives(t)
    BY <1>1, <1>3, <1>5
       DEF Proceed, TellConcerned, Alerted, ToggleCommit, Count, Announce, ReportInsert,
           TellAdmin, ReviewCommit, tables
<1>6. CASE Restart \/ UNCHANGED vars
    BY <1>1, <1>6 DEF Restart, vars, tables
<1> QED BY <1>4, <1>5, <1>6 DEF Next

\* Deleted threads stay deleted; the permissions asked for before a commit are the
\* ones it needs.
THEOREM TheDeadStayDead == Spec => DeadStayDead
<1> DEFINE Kept == \A t \in Ids : Exists(t) =>
                     /\ Exists(t)'
                     /\ threads[t].deleters \subseteq threads'[t].deleters
                     /\ \A u \in threads'[t].deleters \ threads[t].deleters :
                            MayDelete(u, threads[t].author)
                     /\ threads'[t].text # threads[t].text =>
                            \E w \in Workers : req[w].op = "edit" /\ req[w].id = t
                                               /\ req[w].actor = threads[t].author
<1>1. ThreadsInv /\ [Next]_vars => Kept
    BY StepsKeepTheDead DEF Lives
<1>2. Kept => [Kept]_vars
    OBVIOUS
<1> HIDE DEF Kept
<1>3. Spec => [][Kept]_vars
    BY <1>1, <1>2, AlwaysThreadsInv, PTL DEF Spec
<1> QED BY <1>3 DEF DeadStayDead, Kept

====
