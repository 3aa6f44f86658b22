---- MODULE CommentTreeProofs ----
(***************************************************************************)
(* Proofs about CommentTree, for any number of comments, users and         *)
(* concurrent handlers, with restores, losses and restarts: comments stay  *)
(* well typed and well founded, a delete takes nothing but what lies below *)
(* a comment its caller may delete, and the only orphans are those of      *)
(* OnlyRacesOrphan.  Then, that the author of a thread hears of a new      *)
(* comment once, unless that one alert is named as missed; and that what   *)
(* a page does not show of what is counted hangs from one of those races.  *)
(*                                                                         *)
(* What a handler knows is stated of its request r, a table cs and a set X *)
(* of excused comments, so that one lemma (RequestSurvives) says what the  *)
(* steps of the other handlers leave of it.                                *)
(***************************************************************************)
EXTENDS CommentTree, TLAPS, FiniteSetTheorems, WellFoundedInduction

Alive(cs, c) == cs[c] # NoComment /\ cs[c].live
Closed(cs, S) == \A c \in Ids : cs[c] # NoComment /\ cs[c].parent \in S => c \in S

\* Which fields a request has at which step, and which rows it relies on.
Shaped(r, cs) ==
    /\ r.at = "idle" => r.op = "none"
    /\ r.at # "idle" => r.row \in Comment /\ r.actor \in Users
    /\ r.at = "insert" => r.op = "create"
    /\ r.at \in {"scan", "mark"} => r.op = "delete"
    /\ r.at = "commit" => r.op \in {"edit", "delete", "restore"}
    /\ r.at = "alert" /\ r.op = "create" => r.row.parent # 0
    /\ r.at \notin {"idle", "insert"} => r.id \in Ids /\ cs[r.id] # NoComment
    /\ r.op = "create" /\ r.row.parent # 0 =>
         cs[r.row.parent] # NoComment /\ cs[r.row.parent].thread = r.row.thread
    /\ \A c \in r.ids \cup r.dirty : cs[c] # NoComment
    /\ r.todo \subseteq r.ids

\* A delete has collected comments below its target only, and may do so.
Authorised(r, cs) ==
    r.op = "delete" =>
        /\ r.dirty \subseteq r.ids
        /\ MayDelete(r.actor, cs[r.id].author)
        /\ \A S \in SUBSET Ids : r.id \in S /\ Closed(cs, S) => r.ids \subseteq S

\* Of the live replies to the comments it has searched it has missed only excused
\* ones; those it has read and not marked are dead or excused.
Covering(r, cs, X) ==
    /\ \A c \in Ids : Alive(cs, c) /\ cs[c].parent \in Searched(r) => c \in r.ids \cup X
    /\ r.at \in {"mark", "commit"} /\ r.op = "delete" =>
         \A c \in r.ids : Alive(cs, c) =>
             c \in r.dirty \cup X \/ (r.at = "mark" /\ c \in r.todo)

Sound(r, cs, X) == Shaped(r, cs) /\ Authorised(r, cs) /\ Covering(r, cs, X)

\* Ids are handed out in order.
Filled == \A c \in Ids : Exists(c) <=> c < nextId

TreeInv ==
    /\ TypeOK
    /\ Filled
    /\ WellFounded
    /\ \A w \in Workers : Sound(req[w], comments, late \cup restored)
    /\ OnlyRacesOrphan

-----------------------------------------------------------------------------
(* What steps of the table do to the requests of other handlers.           *)

\* Rows are never taken away, and keep their place and author.
Kept(cs, cs2) ==
    \A c \in Ids : cs[c] # NoComment =>
        /\ cs2[c] # NoComment
        /\ cs2[c].parent = cs[c].parent
        /\ cs2[c].thread = cs[c].thread
        /\ cs2[c].author = cs[c].author

\* A comment that was not alive and is now is excused, or new and no reply to P.
Grown(cs, cs2, X, P) ==
    \A c \in Ids : Alive(cs2, c) /\ ~Alive(cs, c) =>
        c \in X \/ (cs[c] = NoComment /\ cs2[c].parent \notin P)

LEMMA RequestSurvives ==
    ASSUME NEW cs, NEW cs2, NEW X, NEW X2, NEW r \in Request,
           Sound(r, cs, X), X \subseteq X2,
           Kept(cs, cs2), Grown(cs, cs2, X2, Searched(r))
    PROVE  Sound(r, cs2, X2)
<1>1. r.ids \subseteq Ids /\ r.dirty \subseteq Ids
  BY DEF Request
<1>2. Shaped(r, cs2)
  <2>1. r.op = "create" /\ r.row.parent # 0 => r.row.parent \in Ids
    BY DEF Sound, Shaped, Comment
  <2> QED
    BY <1>1, <2>1 DEF Sound, Shaped, Kept
<1>3. Authorised(r, cs2)
  <2>1. \A S \in SUBSET Ids : Closed(cs2, S) => Closed(cs, S)
    BY DEF Closed, Kept
  <2> QED
    BY <2>1 DEF Sound, Shaped, Authorised, Kept
<1>4. Covering(r, cs2, X2)
  <2>1. ASSUME NEW c \in Ids, Alive(cs2, c), cs2[c].parent \in Searched(r)
        PROVE  c \in r.ids \cup X2
    BY <2>1 DEF Sound, Covering, Kept, Grown, Alive
  <2>2. ASSUME NEW c \in r.ids, Alive(cs2, c), ~Alive(cs, c) PROVE c \in X2
    BY <2>2, <1>1 DEF Sound, Shaped, Grown
  <2> QED
    BY <2>1, <2>2 DEF Sound, Covering
<1> QED
  BY <1>2, <1>3, <1>4 DEF Sound

\* A step that leaves the table alone keeps every request but its own sound.
LEMMA ControlStep ==
    ASSUME TreeInv, NEW w \in Workers, NEW r \in Request, UNCHANGED dbVars,
           Sound(r, comments, late \cup restored),
           req' = [req EXCEPT ![w] = r]
    PROVE  /\ req' \in [Workers -> Request]
           /\ Filled' /\ WellFounded' /\ OnlyRacesOrphan'
           /\ \A v \in Workers : Sound(req'[v], comments', (late \cup restored)')
<1>1. req' \in [Workers -> Request]
  BY DEF TreeInv, TypeOK
<1>2. Filled' /\ WellFounded' /\ OnlyRacesOrphan'
  BY DEF TreeInv, dbVars, Filled, WellFounded, OnlyRacesOrphan, Exists, Live
<1>3. comments' = comments /\ (late \cup restored)' = late \cup restored
  BY DEF dbVars
<1>4. \A v \in Workers : Sound(req'[v], comments, late \cup restored)
  BY DEF TreeInv, TypeOK
<1> QED
  BY <1>1, <1>2, <1>3, <1>4

\* A handler that is not under way is sound, whatever the table.
LEMMA IdleSound ==
    /\ Idle \in Request
    /\ Idle.ids = {} /\ Idle.todo = {} /\ Idle.dirty = {}
    /\ \A cs, X : Sound(Idle, cs, X)
<1>1. Idle \in Request /\ Idle.ids = {} /\ Idle.todo = {} /\ Idle.dirty = {}
  BY DEF Idle, Request
<1> QED
  BY <1>1 DEF Idle, Sound, Shaped, Authorised, Covering, Searched

-----------------------------------------------------------------------------
(* The start of each handler.                                              *)

LEMMA StartSound ==
    ASSUME TreeInv, NEW w \in Workers, Start(w)
    PROVE  /\ UNCHANGED dbVars
           /\ \E r \in Request : /\ Sound(r, comments, late \cup restored)
                                 /\ req' = [req EXCEPT ![w] = r]
<1>0. UNCHANGED dbVars
  BY DEF Start, CreateCheck, EditLoad, DeleteLoad, RestoreLoad, Begin
<1>t. comments \in [Ids -> Comment \cup {NoComment}]
  BY DEF TreeInv, TypeOK
<1>1. ASSUME NEW a \in Users, NEW t \in Threads, NEW p \in Ids \cup {0}, NEW text \in Contents,
             CreateCheck(w, a, t, p, text)
      PROVE  \E r \in Request : /\ Sound(r, comments, late \cup restored)
                                /\ req' = [req EXCEPT ![w] = r]
  <2> DEFINE row == [parent |-> p, thread |-> t, author |-> a, content |-> text, live |-> TRUE]
  <2> DEFINE r0 == [Idle EXCEPT !.op = "create", !.actor = a, !.row = row]
             r == [r0 EXCEPT !.at = "insert"]
  <2>1. req' = [req EXCEPT ![w] = r]
    BY <1>1 DEF CreateCheck, Goto
  <2>2. row \in Comment
    BY DEF Comment
  <2>3. r \in Request
    BY <2>2, IdleSound DEF Request, AllHandlers
  <2>f. /\ r.op = "create" /\ r.at = "insert" /\ r.actor = a /\ r.row = row
        /\ r.ids = {} /\ r.todo = {} /\ r.dirty = {}
    BY <2>2, IdleSound DEF Request
  <2>4. p # 0 => comments[p] # NoComment /\ comments[p].thread = t
    BY <1>1 DEF CreateCheck, ParentAccepted, Live, Exists
  <2>5. Sound(r, comments, late \cup restored)
    <3> HIDE DEF r
    <3> QED
      BY <2>f, <2>2, <2>4 DEF Sound, Shaped, Authorised, Covering, Searched
  <2> QED
    BY <2>1, <2>3, <2>5
<1>2. ASSUME NEW a \in Users, NEW c \in Ids, NEW text \in Contents, EditLoad(w, a, c, text)
      PROVE  \E r \in Request : /\ Sound(r, comments, late \cup restored)
                                /\ req' = [req EXCEPT ![w] = r]
  <2> DEFINE row == [comments[c] EXCEPT !.content = text]
  <2> DEFINE changed == IF text = comments[c].content THEN {} ELSE {c}
             r0 == [Idle EXCEPT !.op = "edit", !.actor = a, !.id = c, !.row = row,
                                !.dirty = changed]
             r == [r0 EXCEPT !.at = "commit"]
  <2>1. req' = [req EXCEPT ![w] = r]
    BY <1>2 DEF EditLoad, Goto
  <2>2. comments[c] # NoComment /\ row \in Comment
    BY <1>t, <1>2 DEF EditLoad, Live, Exists, Comment
  <2>3. r \in Request
    BY <2>2, IdleSound DEF Request, AllHandlers
  <2>f. /\ r.op = "edit" /\ r.at = "commit" /\ r.actor = a /\ r.row = row /\ r.id = c
        /\ r.ids = {} /\ r.todo = {} /\ r.dirty = changed
    BY <2>2, IdleSound DEF Request
  <2>4. Sound(r, comments, late \cup restored)
    <3> HIDE DEF r
    <3> QED
      BY <2>f, <2>2 DEF Sound, Shaped, Authorised, Covering, Searched
  <2> QED
    BY <2>1, <2>3, <2>4
<1>3. ASSUME NEW a \in Users, NEW c \in Ids, DeleteLoad(w, a, c)
      PROVE  \E r \in Request : /\ Sound(r, comments, late \cup restored)
                                /\ req' = [req EXCEPT ![w] = r]
  <2> DEFINE r0 == [Idle EXCEPT !.op = "delete", !.actor = a, !.id = c,
                                !.row = comments[c], !.ids = {c}, !.todo = {c}]
             r == [r0 EXCEPT !.at = "scan"]
  <2>1. req' = [req EXCEPT ![w] = r]
    BY <1>3 DEF DeleteLoad, Goto
  <2>2. comments[c] # NoComment /\ comments[c] \in Comment /\ MayDelete(a, comments[c].author)
    BY <1>t, <1>3 DEF DeleteLoad, Live, Exists
  <2>3. r \in Request
    BY <2>2, IdleSound DEF Request, AllHandlers
  <2>f. /\ r.op = "delete" /\ r.at = "scan" /\ r.actor = a /\ r.row = comments[c]
        /\ r.id = c /\ r.ids = {c} /\ r.todo = {c} /\ r.dirty = {}
    BY <2>2, IdleSound DEF Request
  <2>4. Sound(r, comments, late \cup restored)
    <3> HIDE DEF r
    <3> QED
      BY <2>f, <2>2 DEF Sound, Shaped, Authorised, Covering, Searched
  <2> QED
    BY <2>1, <2>3, <2>4
<1>4. ASSUME NEW a \in Users, NEW c \in Ids, RestoreLoad(w, a, c)
      PROVE  \E r \in Request : /\ Sound(r, comments, late \cup restored)
                                /\ req' = [req EXCEPT ![w] = r]
  <2> DEFINE changed == IF Live(c) THEN {} ELSE {c}
             r0 == [Idle EXCEPT !.op = "restore", !.actor = a, !.id = c,
                                !.row = comments[c], !.dirty = changed]
             r == [r0 EXCEPT !.at = "commit"]
  <2>1. req' = [req EXCEPT ![w] = r]
    BY <1>4 DEF RestoreLoad, Goto
  <2>2. comments[c] # NoComment /\ comments[c] \in Comment
    BY <1>t, <1>4 DEF RestoreLoad, Exists
  <2>3. r \in Request
    BY <2>2, IdleSound DEF Request, AllHandlers
  <2>f. /\ r.op = "restore" /\ r.at = "commit" /\ r.actor = a /\ r.row = comments[c]
        /\ r.id = c /\ r.ids = {} /\ r.todo = {} /\ r.dirty = changed
    BY <2>2, IdleSound DEF Request
  <2>4. Sound(r, comments, late \cup restored)
    <3> HIDE DEF r
    <3> QED
      BY <2>f, <2>2 DEF Sound, Shaped, Authorised, Covering, Searched
  <2> QED
    BY <2>1, <2>3, <2>4
<1> QED
  BY <1>0, <1>1, <1>2, <1>3, <1>4 DEF Start

-----------------------------------------------------------------------------
(* The later steps of a handler, as far as its own request goes.           *)

\* Past its work, a handler only has to know which comment it speaks of.
LEMMA Advance ==
    ASSUME NEW cs, NEW X, NEW r \in Request, Sound(r, cs, X),
           r.at \notin {"idle", "insert"}, NEW at \in {"alert", "thread", "broadcast"},
           r.op = "create" => at # "alert"
    PROVE  [r EXCEPT !.at = at] \in Request /\ Sound([r EXCEPT !.at = at], cs, X)
<1> DEFINE r1 == [r EXCEPT !.at = at]
<1>1. r1 \in Request
  BY DEF Request
<1>2. /\ r1.op = r.op /\ r1.at = at /\ r1.actor = r.actor /\ r1.row = r.row
      /\ r1.id = r.id /\ r1.ids = r.ids /\ r1.todo = r.todo /\ r1.dirty = r.dirty
  BY DEF Request
<1>3. Sound(r1, cs, X)
  <2> HIDE DEF r1
  <2>1. Shaped(r1, cs)
    BY <1>2 DEF Sound, Shaped
  <2>2. Authorised(r1, cs)
    BY <1>2 DEF Sound, Authorised
  <2>3. Covering(r1, cs, X)
    BY <1>2 DEF Covering, Searched
  <2> QED
    BY <2>1, <2>2, <2>3 DEF Sound
<1> QED
  BY <1>1, <1>3

\* The same of a handler that goes on to those it has to mention.
LEMMA AdvanceToMention ==
    ASSUME NEW cs, NEW X, NEW r \in Request, Sound(r, cs, X), r.at \in {"broadcast", "mention"},
           NEW N \in SUBSET Users, NEW r1, r1 = [[r EXCEPT !.names = N] EXCEPT !.at = "mention"]
    PROVE  r1 \in Request /\ Sound(r1, cs, X)
<1>1. r1 \in Request
  BY DEF Request
<1>2. /\ r1.op = r.op /\ r1.at = "mention" /\ r1.actor = r.actor /\ r1.row = r.row
      /\ r1.id = r.id /\ r1.ids = r.ids /\ r1.todo = r.todo /\ r1.dirty = r.dirty
  BY DEF Request
<1>3. Sound(r1, cs, X)
  <2>1. Shaped(r1, cs)
    BY <1>2 DEF Sound, Shaped
  <2>2. Authorised(r1, cs)
    BY <1>2 DEF Sound, Authorised
  <2>3. Covering(r1, cs, X)
    BY <1>2 DEF Covering, Searched
  <2> QED
    BY <2>1, <2>2, <2>3 DEF Sound
<1> QED
  BY <1>1, <1>3

\* Whom a new comment mentions.
LEMMA MentionedAreUsers ==
    ASSUME NEW r \in Request, r.row \in Comment
    PROVE  ToMention(r) \subseteq Users
BY ConstantsOK DEF ToMention, Comment

LEMMA ScanSound ==
    ASSUME TreeInv, NEW w \in Workers, Scan(w)
    PROVE  /\ UNCHANGED dbVars
           /\ \E r \in Request : /\ Sound(r, comments, late \cup restored)
                                 /\ req' = [req EXCEPT ![w] = r]
<1> DEFINE r == req[w]
           found == ChildrenOf(r.todo)
           X == late \cup restored
<1>0. UNCHANGED dbVars
  BY DEF Scan
<1>1. r \in Request /\ Sound(r, comments, X) /\ r.at = "scan" /\ r.op = "delete"
  BY DEF TreeInv, TypeOK, Scan, Sound, Shaped
<1>2. /\ found \subseteq Ids
      /\ \A c \in found : comments[c] # NoComment /\ comments[c].parent \in r.todo
      /\ \A c \in Ids : Alive(comments, c) /\ comments[c].parent \in r.todo => c \in found
  BY DEF ChildrenOf, Live, Exists, Alive
<1> HIDE DEF found
<1>3. CASE found = {}
  <2> DEFINE r0 == [r EXCEPT !.todo = r.ids]
             r1 == [r0 EXCEPT !.at = "mark"]
  <2>1. req' = [req EXCEPT ![w] = r1]
    BY <1>3 DEF Scan, Goto, found
  <2>2. /\ r1 \in Request
        /\ r1.op = "delete" /\ r1.at = "mark" /\ r1.actor = r.actor /\ r1.row = r.row
        /\ r1.id = r.id /\ r1.ids = r.ids /\ r1.todo = r.ids /\ r1.dirty = r.dirty
    BY <1>1 DEF Request
  <2>3. Sound(r1, comments, X)
    <3> HIDE DEF r1
    <3>1. Shaped(r1, comments)
      BY <1>1, <2>2 DEF Sound, Shaped
    <3>2. Authorised(r1, comments)
      BY <1>1, <2>2 DEF Sound, Authorised
    <3>3. Covering(r1, comments, X)
      BY <1>1, <1>2, <1>3, <2>2 DEF Sound, Covering, Searched
    <3> QED
      BY <3>1, <3>2, <3>3 DEF Sound
  <2> QED
    BY <1>0, <2>1, <2>2, <2>3
<1>4. CASE found # {}
  <2> DEFINE r0 == [r EXCEPT !.ids = r.ids \cup found, !.todo = found]
             r1 == [r0 EXCEPT !.at = "scan"]
  <2>1. req' = [req EXCEPT ![w] = r1]
    BY <1>4 DEF Scan, Goto, found
  <2>2. /\ r1 \in Request
        /\ r1.op = "delete" /\ r1.at = "scan" /\ r1.actor = r.actor /\ r1.row = r.row
        /\ r1.id = r.id /\ r1.ids = r.ids \cup found /\ r1.todo = found
        /\ r1.dirty = r.dirty
    BY <1>1, <1>2 DEF Request
  <2>3. Sound(r1, comments, X)
    <3> HIDE DEF r1
    <3>1. Shaped(r1, comments)
      BY <1>1, <1>2, <2>2 DEF Sound, Shaped
    <3>2. Authorised(r1, comments)
      <4>1. ASSUME NEW S \in SUBSET Ids, r.id \in S, Closed(comments, S)
            PROVE  r.ids \cup found \subseteq S
        <5>1. r.ids \subseteq S
          BY <1>1, <4>1 DEF Sound, Authorised
        <5>2. r.todo \subseteq S
          BY <1>1, <5>1 DEF Sound, Shaped
        <5> QED
          BY <1>2, <4>1, <5>1, <5>2 DEF Closed
      <4> QED
        BY <1>1, <2>2, <4>1 DEF Sound, Authorised
    <3>3. Covering(r1, comments, X)
      BY <1>1, <1>2, <2>2 DEF Sound, Covering, Searched
    <3> QED
      BY <3>1, <3>2, <3>3 DEF Sound
  <2> QED
    BY <1>0, <2>1, <2>2, <2>3
<1> QED
  BY <1>3, <1>4

LEMMA MarkSound ==
    ASSUME TreeInv, NEW w \in Workers, NEW c \in Ids, Mark(w, c)
    PROVE  /\ UNCHANGED dbVars
           /\ \E r \in Request : /\ Sound(r, comments, late \cup restored)
                                 /\ req' = [req EXCEPT ![w] = r]
<1> DEFINE r == req[w]
           X == late \cup restored
           marked == IF Marks(r, c) THEN r.dirty \cup {c} ELSE r.dirty
           r0 == [r EXCEPT !.todo = r.todo \ {c}, !.dirty = marked]
           at == IF r0.todo = {} THEN "commit" ELSE "mark"
           r1 == [r0 EXCEPT !.at = at]
<1>0. UNCHANGED dbVars
  BY DEF Mark
<1>1. /\ r \in Request /\ Sound(r, comments, X)
      /\ r.at = "mark" /\ r.op = "delete" /\ c \in r.todo
  BY DEF TreeInv, TypeOK, Mark, Sound, Shaped
<1>2. req' = [req EXCEPT ![w] = r1]
  BY DEF Mark, Goto
<1>3. /\ r1 \in Request
      /\ r1.op = "delete" /\ r1.at \in {"mark", "commit"} /\ r1.actor = r.actor
      /\ r1.row = r.row /\ r1.id = r.id /\ r1.ids = r.ids /\ r1.todo = r.todo \ {c}
      /\ r1.dirty = marked
      /\ r1.at = "commit" => r1.todo = {}
  BY <1>1 DEF Request
<1>4. marked \subseteq r.ids /\ r.dirty \subseteq marked /\ (Alive(comments, c) => c \in marked)
  BY <1>1 DEF Sound, Shaped, Authorised, Marks, Live, Exists, Alive
<1> HIDE DEF r1, marked
<1>5. Shaped(r1, comments)
  BY <1>1, <1>3, <1>4 DEF Sound, Shaped
<1>6. Authorised(r1, comments)
  BY <1>1, <1>3, <1>4 DEF Sound, Authorised
<1>7. Covering(r1, comments, X)
  <2>1. ASSUME NEW d \in r.ids, Alive(comments, d)
        PROVE  d \in r1.dirty \cup X \/ (r1.at = "mark" /\ d \in r1.todo)
    BY <1>1, <1>3, <1>4, <2>1 DEF Sound, Covering
  <2>2. Searched(r1) = Searched(r)
    BY <1>1, <1>3 DEF Searched
  <2> QED
    BY <1>1, <1>3, <2>1, <2>2 DEF Sound, Covering
<1> QED
  BY <1>0, <1>2, <1>3, <1>5, <1>6, <1>7 DEF Sound

\* The steps that tell somebody something.
LEMMA TellingSound ==
    ASSUME TreeInv, NEW w \in Workers,
           \/ ReplyAlert(w) \/ ThreadAlert(w) \/ DeletedAlert(w) \/ Announce(w)
           \/ \E u \in Users : Mention(w, u)
    PROVE  /\ UNCHANGED dbVars
           /\ \E r \in Request : /\ Sound(r, comments, late \cup restored)
                                 /\ req' = [req EXCEPT ![w] = r]
<1>0. UNCHANGED dbVars
  BY DEF ReplyAlert, ThreadAlert, DeletedAlert, Announce, Mention
<1>1. req[w] \in Request /\ Sound(req[w], comments, late \cup restored)
  BY DEF TreeInv, TypeOK
<1>2. CASE Finish(w)
  BY <1>0, <1>2, IdleSound DEF Finish
<1>3. CASE ReplyAlert(w) \/ DeletedAlert(w) \/ ThreadAlert(w)
  <2>1. PICK at \in {"thread", "broadcast"} : req' = [req EXCEPT ![w] = [req[w] EXCEPT !.at = at]]
    BY <1>3 DEF ReplyAlert, ThreadAlert, DeletedAlert, Goto
  <2>2. req[w].at \in {"alert", "thread"}
    BY <1>3 DEF ReplyAlert, ThreadAlert, DeletedAlert
  <2> QED
    BY <1>0, <1>1, <2>1, <2>2, Advance
<1>4. ASSUME NEW N \in SUBSET Users, req[w].at \in {"broadcast", "mention"},
             Goto(w, [req[w] EXCEPT !.names = N], "mention")
      PROVE  \E r \in Request : /\ Sound(r, comments, late \cup restored)
                                /\ req' = [req EXCEPT ![w] = r]
  <2> DEFINE r1 == [[req[w] EXCEPT !.names = N] EXCEPT !.at = "mention"]
  <2>1. req' = [req EXCEPT ![w] = r1]
    BY <1>4 DEF Goto
  <2>2. r1 \in Request /\ Sound(r1, comments, late \cup restored)
    BY <1>1, <1>4, AdvanceToMention
  <2> QED
    BY <2>1, <2>2
<1>5. CASE Announce(w) /\ ~Finish(w)
  <2>1. req[w].at = "broadcast" /\ Goto(w, [req[w] EXCEPT !.names = ToMention(req[w])], "mention")
    BY <1>5 DEF Announce
  <2>2. ToMention(req[w]) \in SUBSET Users
    BY <1>1, <2>1, MentionedAreUsers DEF Sound, Shaped
  <2> QED
    BY <1>0, <1>4, <2>1, <2>2
<1>6. CASE (\E u \in Users : Mention(w, u)) /\ ~Finish(w)
  <2>1. PICK u \in Users : Mention(w, u)
    BY <1>6
  <2>2. req[w].at = "mention" /\ Goto(w, [req[w] EXCEPT !.names = req[w].names \ {u}], "mention")
    BY <1>6, <2>1 DEF Mention
  <2>3. req[w].names \ {u} \in SUBSET Users
    BY <1>1 DEF Request
  <2> QED
    BY <1>0, <1>4, <2>2, <2>3
<1> QED
  BY <1>2, <1>3, <1>5, <1>6

-----------------------------------------------------------------------------
(* The two steps that write to the table.                                  *)

\* What the table owes the other handlers when a handler writes to it.
LEMMA TableStep ==
    ASSUME TreeInv, NEW w \in Workers, NEW r \in Request,
           req' = [req EXCEPT ![w] = r],
           Sound(r, comments', (late \cup restored)'),
           late \cup restored \subseteq (late \cup restored)',
           Kept(comments, comments'),
           Grown(comments, comments', (late \cup restored)', Passed)
    PROVE  /\ req' \in [Workers -> Request]
           /\ \A v \in Workers : Sound(req'[v], comments', (late \cup restored)')
<1>1. req \in [Workers -> Request] /\ \A v \in Workers : Sound(req[v], comments, late \cup restored)
  BY DEF TreeInv, TypeOK
<1>2. ASSUME NEW v \in Workers, v # w
      PROVE  Sound(req'[v], comments', (late \cup restored)')
  <2>1. Searched(req[v]) \subseteq Passed
    BY DEF Passed
  <2>2. Grown(comments, comments', (late \cup restored)', Searched(req[v]))
    BY <2>1 DEF Grown
  <2>3. Sound(req[v], comments', (late \cup restored)')
    BY <1>1, <2>2, RequestSurvives
  <2> QED
    BY <1>1, <1>2, <2>3
<1> QED
  BY <1>1, <1>2

LEMMA ParentIsThere ==
    ASSUME TypeOK, WellFounded, NEW c \in Ids, comments[c] # NoComment, comments[c].parent # 0
    PROVE  LET q == comments[c].parent IN
           /\ q \in Ids /\ comments[q] # NoComment /\ q < c
           /\ comments[q].thread = comments[c].thread
<1>1. comments[c] \in Comment
  BY DEF TypeOK
<1>2. comments[c].parent \in Ids
  BY <1>1 DEF Comment
<1> QED
  BY <1>2 DEF WellFounded, Exists

LEMMA InsertSound ==
    ASSUME TreeInv, NEW w \in Workers, Insert(w)
    PROVE  /\ comments' \in [Ids -> Comment \cup {NoComment}]
           /\ nextId' \in 1..(MaxComment + 1)
           /\ late' \in SUBSET Ids /\ restored' \in SUBSET Ids
           /\ req' \in [Workers -> Request]
           /\ Filled' /\ WellFounded' /\ OnlyRacesOrphan'
           /\ \A v \in Workers : Sound(req'[v], comments', (late \cup restored)')
           /\ Kept(comments, comments')
<1> DEFINE r == req[w]
           p == r.row.parent
           X == late \cup restored
           r0 == [r EXCEPT !.id = nextId]
           at == IF p = 0 THEN "thread" ELSE "alert"
           r1 == [r0 EXCEPT !.at = at]
<1>1. /\ r \in Request /\ Sound(r, comments, X)
      /\ r.at = "insert" /\ r.op = "create" /\ r.row \in Comment
  BY DEF TreeInv, TypeOK, Insert, Sound, Shaped
<1>2. /\ nextId \in Ids /\ comments[nextId] = NoComment
      /\ nextId' = nextId + 1 /\ nextId' \in 1..(MaxComment + 1)
      /\ \A c \in Ids : Exists(c) => c < nextId
  BY ConstantsOK DEF TreeInv, TypeOK, Filled, Exists, Insert, Ids
<1>3. /\ comments' = [comments EXCEPT ![nextId] = r.row]
      /\ comments' \in [Ids -> Comment \cup {NoComment}]
      /\ comments'[nextId] = r.row
      /\ \A c \in Ids : c # nextId => comments'[c] = comments[c]
  BY <1>1, <1>2 DEF Insert, TreeInv, TypeOK
<1>4. /\ restored' = restored /\ late \subseteq late' /\ late' \in SUBSET Ids
      /\ restored' \in SUBSET Ids
      /\ p # 0 /\ (~Live(p) \/ p \in Passed) => nextId \in late'
  BY <1>2 DEF Insert, TreeInv, TypeOK
<1>5. p # 0 => /\ p \in Ids /\ comments[p] # NoComment /\ comments[p].thread = r.row.thread
               /\ p < nextId
  <2>1. p \in Ids \cup {0}
    BY <1>1 DEF Comment
  <2> QED
    BY <1>1, <1>2, <2>1 DEF Sound, Shaped, Exists
<1>6. NoComment \notin Comment
  BY ConstantsOK
<1>7. Kept(comments, comments') /\ Grown(comments, comments', (late \cup restored)', Passed)
  <2>1. Kept(comments, comments')
    BY <1>2, <1>3 DEF Kept
  <2>2. 0 \notin Passed
    <3>1. \A v \in Workers : 0 \notin Searched(req[v])
      BY DEF TreeInv, TypeOK, Request, Searched, Ids
    <3> QED
      BY <3>1 DEF Passed
  <2>3. ASSUME NEW c \in Ids, Alive(comments', c), ~Alive(comments, c)
        PROVE  c = nextId
    BY <1>3, <2>3 DEF Alive
  <2>4. nextId \in late' \/ comments'[nextId].parent \notin Passed
    BY <1>3, <1>4, <2>2
  <2> QED
    BY <1>2, <2>1, <2>3, <2>4 DEF Grown
<1>8. req' = [req EXCEPT ![w] = r1] /\ r1 \in Request /\ Sound(r1, comments', (late \cup restored)')
  <2>1. req' = [req EXCEPT ![w] = r1]
    BY DEF Insert, Goto
  <2>2. /\ r1 \in Request
        /\ r1.op = "create" /\ r1.at = at /\ r1.actor = r.actor
        /\ r1.row = r.row /\ r1.id = nextId
        /\ r1.ids = r.ids /\ r1.todo = r.todo /\ r1.dirty = r.dirty
    BY <1>1, <1>2 DEF Request
  <2>3. Shaped(r, comments')
    <3>1. Searched(r) = {}
      BY <1>1 DEF Searched
    <3>2. Grown(comments, comments', (late \cup restored)', Searched(r))
      BY <1>7, <3>1 DEF Grown
    <3>3. X \subseteq (late \cup restored)'
      BY <1>4
    <3> HIDE DEF r, X
    <3>4. Sound(r, comments', (late \cup restored)')
      BY <1>1, <1>7, <3>2, <3>3, RequestSurvives
    <3> QED
      BY <3>4 DEF Sound
  <2>4. comments'[nextId] # NoComment
    BY <1>1, <1>3, <1>6
  <2> HIDE DEF r1
  <2>5. Shaped(r1, comments')
    BY <1>1, <1>2, <2>2, <2>3, <2>4 DEF Shaped
  <2>6. Authorised(r1, comments') /\ Covering(r1, comments', (late \cup restored)')
    BY <2>2 DEF Authorised, Covering, Searched
  <2> QED
    BY <2>1, <2>2, <2>5, <2>6 DEF Sound
<1>9. Filled' /\ WellFounded'
  <2>1. \A c \in Ids : Exists(c)' <=> Exists(c) \/ c = nextId
    BY <1>1, <1>3, <1>6 DEF Exists
  <2>2. Filled'
    BY <1>2, <2>1 DEF TreeInv, Filled, Ids
  <2>3. ASSUME NEW c \in Ids, comments'[c] # NoComment, comments'[c].parent # 0
        PROVE  /\ comments'[c].parent < c
               /\ comments'[comments'[c].parent] # NoComment
               /\ comments'[comments'[c].parent].thread = comments'[c].thread
    <3>1. CASE c = nextId
      BY <1>3, <1>5, <1>2, <2>3, <3>1 DEF Ids
    <3>2. CASE c # nextId
      <4> DEFINE q == comments[c].parent
      <4>1. comments'[c] = comments[c] /\ comments[c] # NoComment /\ q # 0
        BY <1>3, <2>3, <3>2
      <4>2. q \in Ids /\ comments[q] # NoComment /\ q < c
            /\ comments[q].thread = comments[c].thread
        BY <4>1, ParentIsThere DEF TreeInv
      <4>3. q # nextId
        BY <4>2, <1>2
      <4> QED
        BY <4>1, <4>2, <4>3, <1>3
    <3> QED
      BY <3>1, <3>2
  <2> QED
    BY <2>2, <2>3 DEF WellFounded, Exists
<1>10. OnlyRacesOrphan'
  <2>1. ASSUME NEW c \in Ids, Alive(comments', c), comments'[c].parent # 0,
               ~Alive(comments', comments'[c].parent)
        PROVE  c \in (late \cup restored)'
    <3>1. CASE c = nextId
      <4>1. p # 0 /\ p # nextId /\ p \in Ids
        BY <1>2, <1>3, <1>5, <2>1, <3>1 DEF Ids
      <4>2. ~Live(p)
        BY <1>3, <2>1, <3>1, <4>1 DEF Live, Exists, Alive
      <4> QED
        BY <1>4, <3>1, <4>1, <4>2
    <3>2. CASE c # nextId
      <4> DEFINE q == comments[c].parent
      <4>1. comments'[c] = comments[c] /\ Live(c) /\ q # 0
        BY <1>3, <2>1, <3>2 DEF Live, Exists, Alive
      <4>2. q \in Ids /\ comments[q] # NoComment
        BY <4>1, ParentIsThere DEF TreeInv, Live, Exists
      <4>3. ~Live(q)
        BY <4>1, <4>2, <1>2, <1>3, <2>1 DEF Live, Exists, Alive
      <4> QED
        BY <1>4, <4>1, <4>3 DEF TreeInv, OnlyRacesOrphan
    <3> QED
      BY <3>1, <3>2
  <2> QED
    BY <2>1 DEF OnlyRacesOrphan, Live, Exists, Alive
<1>11. late \cup restored \subseteq (late \cup restored)'
  BY <1>4
<1> QED
  BY <1>2, <1>3, <1>4, <1>7, <1>8, <1>9, <1>10, <1>11, TableStep

\* What a commit makes of one row.
LEMMA WrittenRow ==
    ASSUME NEW op \in {"edit", "delete", "restore"}, NEW row \in Comment, NEW new \in Comment
    PROVE  /\ Written(op, row, new) \in Comment
           /\ Written(op, row, new).parent = row.parent
           /\ Written(op, row, new).thread = row.thread
           /\ Written(op, row, new).author = row.author
           /\ op = "edit" => (Written(op, row, new).live <=> row.live)
           /\ op = "delete" => ~Written(op, row, new).live
           /\ op = "restore" => Written(op, row, new).live
BY DEF Written, Comment

LEMMA CommitSound ==
    ASSUME TreeInv, NEW w \in Workers, Commit(w)
    PROVE  /\ comments' \in [Ids -> Comment \cup {NoComment}]
           /\ late' \in SUBSET Ids /\ restored' \in SUBSET Ids
           /\ req' \in [Workers -> Request]
           /\ Filled' /\ WellFounded' /\ OnlyRacesOrphan'
           /\ \A v \in Workers : Sound(req'[v], comments', (late \cup restored)')
           /\ \A c \in Ids : Alive(comments, c) /\ ~Alive(comments', c) =>
                /\ req[w].op = "delete" /\ req[w].at = "commit" /\ c \in req[w].ids
                /\ comments'[c] = [comments[c] EXCEPT !.live = FALSE]
           /\ Kept(comments, comments')
           /\ \A c \in Ids : comments'[c] # NoComment <=> comments[c] # NoComment
           /\ \A c \in Ids : Alive(comments', c) /\ ~Alive(comments, c) => req[w].op = "restore"
           /\ req[w].op = "delete" => \A c \in req[w].dirty : ~Alive(comments', c)
           /\ req[w].op = "edit" => \A c \in Ids : Alive(comments', c) <=> Alive(comments, c)
<1> DEFINE r == req[w]
           X == late \cup restored
           X2 == (late \cup restored)'
           at == IF r.op = "delete" THEN "alert" ELSE "broadcast"
           r1 == [r EXCEPT !.at = at]
<1>1. /\ r \in Request /\ Sound(r, comments, X)
      /\ r.at = "commit" /\ r.op \in {"edit", "delete", "restore"} /\ r.row \in Comment
      /\ r.dirty \subseteq Ids
  BY DEF TreeInv, TypeOK, Commit, Sound, Shaped, Request
<1>2. /\ late' = late /\ nextId' = nextId /\ restored \subseteq restored'
      /\ late' \in SUBSET Ids /\ restored' \in SUBSET Ids
      /\ r.op = "restore" => r.dirty \subseteq restored'
      /\ X \subseteq X2
  BY <1>1 DEF Commit, TreeInv, TypeOK
<1>3. \A c \in r.dirty : comments[c] \in Comment
  BY <1>1 DEF TreeInv, TypeOK, Sound, Shaped
<1>4. \A c \in Ids : comments'[c] = IF c \in r.dirty THEN Written(r.op, comments[c], r.row)
                                                     ELSE comments[c]
  BY DEF Commit
<1>5. comments' \in [Ids -> Comment \cup {NoComment}]
  <2>1. comments' = [c \in Ids |-> IF c \in r.dirty THEN Written(r.op, comments[c], r.row)
                                                    ELSE comments[c]]
    BY DEF Commit
  <2>2. \A c \in r.dirty : Written(r.op, comments[c], r.row) \in Comment
    BY <1>1, <1>3, WrittenRow
  <2> QED
    BY <2>1, <2>2 DEF TreeInv, TypeOK
<1>6. \A c \in r.dirty :
        /\ comments[c] # NoComment /\ comments'[c] # NoComment
        /\ comments'[c].parent = comments[c].parent
        /\ comments'[c].thread = comments[c].thread
        /\ comments'[c].author = comments[c].author
        /\ r.op = "edit" => (comments'[c].live <=> comments[c].live)
        /\ r.op = "delete" => ~comments'[c].live
        /\ r.op = "restore" => comments'[c].live
  <2> SUFFICES ASSUME NEW c \in r.dirty
               PROVE  /\ comments[c] # NoComment /\ comments'[c] # NoComment
                      /\ comments'[c].parent = comments[c].parent
                      /\ comments'[c].thread = comments[c].thread
                      /\ comments'[c].author = comments[c].author
                      /\ r.op = "edit" => (comments'[c].live <=> comments[c].live)
                      /\ r.op = "delete" => ~comments'[c].live
                      /\ r.op = "restore" => comments'[c].live
    OBVIOUS
  <2> DEFINE row == comments[c]
             new == Written(r.op, row, r.row)
  <2>1. row \in Comment /\ comments'[c] = new
    BY <1>1, <1>3, <1>4
  <2>2. NoComment \notin Comment
    BY ConstantsOK
  <2>3. /\ new \in Comment
        /\ new.parent = row.parent /\ new.thread = row.thread /\ new.author = row.author
        /\ r.op = "edit" => (new.live <=> row.live)
        /\ r.op = "delete" => ~new.live
        /\ r.op = "restore" => new.live
    <3> HIDE DEF row, r
    <3>1. r.op \in {"edit", "delete", "restore"} /\ row \in Comment /\ r.row \in Comment
      BY <1>1, <2>1
    <3> QED
      BY <3>1, WrittenRow
  <2> HIDE DEF new
  <2> QED
    BY <2>1, <2>2, <2>3
<1>7. /\ \A c \in Ids : comments'[c] # NoComment <=> comments[c] # NoComment
      /\ Kept(comments, comments')
  BY <1>4, <1>6 DEF Kept
<1>8. ASSUME NEW c \in Ids, Alive(comments', c), ~Alive(comments, c)
      PROVE  r.op = "restore" /\ c \in X2
  BY <1>1, <1>2, <1>4, <1>6, <1>8 DEF Alive
<1>9. ASSUME NEW c \in Ids, Alive(comments, c), ~Alive(comments', c)
      PROVE  /\ r.op = "delete" /\ c \in r.dirty /\ c \in r.ids
             /\ comments'[c] = [comments[c] EXCEPT !.live = FALSE]
  <2>1. r.op = "delete" /\ c \in r.dirty
    BY <1>1, <1>4, <1>6, <1>9 DEF Alive
  <2>2. c \in r.ids
    BY <1>1, <2>1 DEF Sound, Authorised
  <2>3. comments'[c] = [comments[c] EXCEPT !.live = FALSE]
    BY <1>4, <2>1 DEF Written
  <2> QED
    BY <2>1, <2>2, <2>3
<1>10. Grown(comments, comments', X2, Passed) /\ Grown(comments, comments', X2, {})
  BY <1>8 DEF Grown
<1>11. req' = [req EXCEPT ![w] = r1] /\ r1 \in Request /\ Sound(r1, comments', X2)
  <2>1. req' = [req EXCEPT ![w] = r1]
    BY DEF Commit, Goto
  <2>2. r1 \in Request /\ Sound(r1, comments, X)
    BY <1>1, Advance
  <2>3. Searched(r1) = {}
    BY <1>1 DEF Searched, Request
  <2> HIDE DEF r1, X, X2
  <2>4. Sound(r1, comments', X2)
    BY <1>2, <1>7, <1>10, <2>2, <2>3, RequestSurvives
  <2> QED
    BY <2>1, <2>2, <2>4
<1>12. \A v \in Workers : Sound(req'[v], comments', X2) /\ req' \in [Workers -> Request]
  BY <1>2, <1>7, <1>10, <1>11, TableStep
<1>13. Filled'
  BY <1>2, <1>7 DEF TreeInv, Filled, Exists
<1>14. WellFounded'
  <2>1. ASSUME NEW c \in Ids, comments'[c] # NoComment, comments'[c].parent # 0
        PROVE  /\ comments'[c].parent < c
               /\ comments'[comments'[c].parent] # NoComment
               /\ comments'[comments'[c].parent].thread = comments'[c].thread
    <3> DEFINE q == comments[c].parent
    <3>1. /\ comments[c] # NoComment /\ comments'[c].parent = q /\ q # 0
          /\ comments'[c].thread = comments[c].thread
      BY <1>7, <2>1 DEF Kept
    <3>2. q \in Ids /\ comments[q] # NoComment /\ q < c /\ comments[q].thread = comments[c].thread
      BY <3>1, ParentIsThere DEF TreeInv
    <3> QED
      BY <1>7, <3>1, <3>2 DEF Kept
  <2> QED
    BY <2>1 DEF WellFounded, Exists
<1>15. OnlyRacesOrphan'
  <2>1. ASSUME NEW c \in Ids, Alive(comments', c), comments'[c].parent # 0,
               ~Alive(comments', comments'[c].parent)
        PROVE  c \in X2
    <3> DEFINE q == comments[c].parent
    <3>1. comments[c] # NoComment /\ comments'[c].parent = q /\ q # 0
      BY <1>7, <2>1 DEF Kept, Alive
    <3>2. q \in Ids
      BY <3>1, ParentIsThere DEF TreeInv
    <3>3. CASE ~Alive(comments, c)
      BY <1>8, <2>1, <3>3
    <3>4. CASE Alive(comments, c) /\ ~Alive(comments, q)
      BY <1>2, <3>1, <3>4 DEF TreeInv, OnlyRacesOrphan, Live, Exists, Alive
    <3>5. CASE Alive(comments, c) /\ Alive(comments, q)
      <4>1. r.op = "delete" /\ q \in r.dirty /\ q \in r.ids
        BY <1>9, <2>1, <3>1, <3>2, <3>5
      <4>2. q \in Searched(r)
        BY <1>1, <4>1 DEF Searched
      <4>3. c \in r.ids \cup X
        BY <1>1, <3>5, <4>2 DEF Sound, Covering
      <4>4. c \notin r.dirty
        BY <1>6, <2>1, <4>1 DEF Alive
      <4>5. c \in r.ids => c \in X
        BY <1>1, <3>5, <4>1, <4>4 DEF Sound, Covering
      <4> QED
        BY <1>2, <4>3, <4>5
    <3> QED
      BY <3>3, <3>4, <3>5
  <2> QED
    BY <2>1 DEF OnlyRacesOrphan, Live, Exists, Alive
<1>16. /\ r.op = "delete" => \A c \in r.dirty : ~Alive(comments', c)
       /\ r.op = "edit" => \A c \in Ids : Alive(comments', c) <=> Alive(comments, c)
  BY <1>4, <1>6 DEF Alive
<1> QED
  BY <1>1, <1>2, <1>5, <1>7, <1>8, <1>9, <1>11, <1>12, <1>13, <1>14, <1>15, <1>16

-----------------------------------------------------------------------------
(* The invariant.                                                          *)

LEMMA InitTree == Init => TreeInv
<1> SUFFICES ASSUME Init PROVE TreeInv
  OBVIOUS
<1>1. TypeOK
  BY IdleSound, ConstantsOK DEF Init, TypeOK
<1>2. \A c \in Ids : ~Exists(c) /\ ~(c < nextId)
  BY DEF Init, Exists, Ids
<1>3. Filled /\ WellFounded /\ OnlyRacesOrphan
  BY <1>2 DEF Filled, WellFounded, OnlyRacesOrphan, Live
<1>4. \A w \in Workers : Sound(req[w], comments, late \cup restored)
  BY IdleSound DEF Init
<1> QED
  BY <1>1, <1>3, <1>4 DEF TreeInv

\* What a handler announces is a broadcast.
LEMMA AnnouncedIsBroadcast ==
    ASSUME TreeInv, NEW w \in Workers, Announce(w)
    PROVE  /\ [type |-> EventType(req[w].op), comment |-> req[w].id, row |-> req[w].row,
               count |-> DeletedCount(req[w])] \in Broadcast
           /\ DeletedCount(req[w]) \in Nat
<1>1. req[w] \in Request /\ req[w].id \in Ids /\ req[w].row \in Comment
  BY DEF TreeInv, TypeOK, Sound, Shaped, Announce
<1>2. DeletedCount(req[w]) \in Nat
  <2>1. IsFiniteSet(Ids)
    BY FS_Interval, ConstantsOK DEF Ids
  <2>2. IsFiniteSet(req[w].ids)
    BY <1>1, <2>1, FS_Subset DEF Request
  <2> QED
    BY <2>2, FS_CardinalityType DEF DeletedCount
<1>3. EventType(req[w].op) \in {"new_comment_broadcast", "comment_edited", "comment_deleted",
                                "comment_restored"}
  BY DEF EventType
<1> QED
  BY <1>1, <1>2, <1>3 DEF Broadcast

\* What comment-events carries, and the counters of the model, stay well typed.
LEMMA EventTypes ==
    ASSUME TreeInv, [Next]_vars
    PROVE  /\ alerts' \in SUBSET Alert /\ broadcasts' \in Seq(Broadcast)
           /\ missed' \in SUBSET (Users \X Ids)
           /\ started' \in 0..MaxRequests /\ restarts' \in 0..MaxRestarts
<1>0. /\ alerts \in SUBSET Alert /\ broadcasts \in Seq(Broadcast)
      /\ missed \in SUBSET (Users \X Ids)
      /\ started \in 0..MaxRequests /\ restarts \in 0..MaxRestarts
      /\ MaxRequests \in Nat /\ MaxRestarts \in Nat
  BY ConstantsOK DEF TreeInv, TypeOK
<1>1. ASSUME NEW w \in Workers, Start(w)
      PROVE  /\ UNCHANGED <<events, restarts>>
             /\ started < MaxRequests /\ started' = started + 1
  BY <1>1 DEF Start, CreateCheck, EditLoad, DeleteLoad, RestoreLoad, Begin
<1>2. ASSUME NEW w \in Workers,
             Insert(w) \/ Scan(w) \/ (\E c \in Ids : Mark(w, c)) \/ Commit(w)
      PROVE  UNCHANGED <<events, started, restarts>>
  BY <1>2 DEF Insert, Scan, Mark, Commit
<1>3. ASSUME NEW w \in Workers,
             \/ ReplyAlert(w) \/ ThreadAlert(w) \/ DeletedAlert(w)
             \/ \E u \in Users : Mention(w, u)
      PROVE  /\ alerts' \in SUBSET Alert /\ missed' \in SUBSET (Users \X Ids)
             /\ UNCHANGED <<broadcasts, started, restarts>>
  <2> DEFINE r == req[w]
             p == r.row.parent
  <2>1. /\ r \in Request /\ Shaped(r, comments) /\ r.at \in {"alert", "thread", "mention"}
        /\ r.id \in Ids /\ r.row \in Comment
    BY <1>3 DEF TreeInv, TypeOK, Sound, Shaped, ReplyAlert, ThreadAlert, DeletedAlert, Mention
  <2>2. ASSUME NEW type \in {"comment_reply", "new_comment", "mention", "comment_deleted"},
               NEW u \in Users
        PROVE  /\ Send(type, u, r.id) \/ Tell(type, u, r.id) => alerts' \in SUBSET Alert
               /\ \A due, faults : News(r, due, type, u, faults) =>
                     alerts' \in SUBSET Alert /\ missed' \in SUBSET (Users \X Ids)
    <3>1. [type |-> type, user |-> u, comment |-> r.id] \in Alert
      BY <2>1 DEF Alert
    <3>2. <<u, r.id>> \in Users \X Ids
      BY <2>1
    <3> QED
      BY <1>0, <3>1, <3>2 DEF Send, Tell, News
  <2>3. UNCHANGED <<broadcasts, started, restarts>>
    BY <1>3 DEF ReplyAlert, ThreadAlert, DeletedAlert, Mention
  <2>4. CASE ReplyAlert(w)
    <3>1. p # 0 /\ p \in Ids
      BY <2>1, <2>4 DEF Shaped, ReplyAlert, Comment
    <3>2. comments[p] \in Comment
      BY <2>1, <2>4, <3>1 DEF TreeInv, TypeOK, Shaped, ReplyAlert
    <3>3. comments[p].author \in Users
      BY <3>2 DEF Comment
    <3> QED
      BY <2>2, <2>3, <2>4, <3>3 DEF ReplyAlert
  <2>5. CASE ThreadAlert(w)
    <3>1. ThreadAuthor[r.row.thread] \in Users
      BY <2>1, ConstantsOK DEF Comment
    <3> QED
      BY <2>2, <2>3, <2>5, <3>1 DEF ThreadAlert
  <2>6. CASE DeletedAlert(w)
    <3>1. r.row.author \in Users
      BY <2>1 DEF Comment
    <3> QED
      BY <1>0, <2>2, <2>3, <2>6, <3>1 DEF DeletedAlert
  <2>7. CASE \E u \in Users : Mention(w, u)
    BY <1>0, <2>2, <2>3, <2>7 DEF Mention
  <2> QED
    BY <1>3, <2>4, <2>5, <2>6, <2>7
<1>4. ASSUME NEW w \in Workers, Announce(w)
      PROVE  broadcasts' \in Seq(Broadcast) /\ UNCHANGED <<alerts, missed, started, restarts>>
  <2> DEFINE r == req[w]
             e == [type |-> EventType(r.op), comment |-> r.id, row |-> r.row,
                   count |-> DeletedCount(r)]
  <2>4. e \in Broadcast
    BY <1>4, AnnouncedIsBroadcast
  <2>5. broadcasts' = broadcasts \/ broadcasts' = Append(broadcasts, e)
    BY <1>4 DEF Announce
  <2> HIDE DEF e
  <2>6. broadcasts' \in Seq(Broadcast)
    BY <1>0, <2>4, <2>5
  <2> QED
    BY <1>4, <2>6 DEF Announce
<1>5. CASE Restart
  <2>1. \A v \in Workers : req[v].op = "create" /\ req[v].at \in {"alert", "thread"}
                              => req[v].id \in Ids
    BY DEF TreeInv, Sound, Shaped
  <2>2. missed' \in SUBSET (Users \X Ids)
    BY <1>0, <1>5, <2>1 DEF Restart
  <2> QED
    BY <1>0, <1>5, <2>2 DEF Restart
<1>6. CASE UNCHANGED vars
  BY <1>0, <1>6 DEF vars
<1> QED
  BY <1>0, <1>1, <1>2, <1>3, <1>4, <1>5, <1>6 DEF Next, Proceed, events

\* The steps that leave the table alone.
LEMMA ControlSteps ==
    ASSUME TreeInv, NEW w \in Workers,
           \/ Start(w) \/ Scan(w) \/ (\E c \in Ids : Mark(w, c))
           \/ ReplyAlert(w) \/ ThreadAlert(w) \/ DeletedAlert(w) \/ Announce(w)
           \/ \E u \in Users : Mention(w, u)
    PROVE  /\ UNCHANGED dbVars
           /\ req' \in [Workers -> Request]
           /\ Filled' /\ WellFounded' /\ OnlyRacesOrphan'
           /\ \A v \in Workers : Sound(req'[v], comments', (late \cup restored)')
<1>1. /\ UNCHANGED dbVars
      /\ \E r \in Request : /\ Sound(r, comments, late \cup restored)
                            /\ req' = [req EXCEPT ![w] = r]
  BY StartSound, ScanSound, MarkSound, TellingSound
<1> QED
  BY <1>1, ControlStep

LEMMA NextTree == TreeInv /\ [Next]_vars => TreeInv'
<1> SUFFICES ASSUME TreeInv, [Next]_vars PROVE TreeInv'
  OBVIOUS
<1> DEFINE Rest == /\ comments' \in [Ids -> Comment \cup {NoComment}]
                   /\ nextId' \in 1..(MaxComment + 1)
                   /\ late' \in SUBSET Ids /\ restored' \in SUBSET Ids
                   /\ req' \in [Workers -> Request]
                   /\ Filled' /\ WellFounded' /\ OnlyRacesOrphan'
                   /\ \A v \in Workers : Sound(req'[v], comments', (late \cup restored)')
<1>0. /\ comments \in [Ids -> Comment \cup {NoComment}] /\ nextId \in 1..(MaxComment + 1)
      /\ late \in SUBSET Ids /\ restored \in SUBSET Ids /\ req \in [Workers -> Request]
  BY DEF TreeInv, TypeOK
<1>1. ASSUME NEW w \in Workers, Start(w) \/ Proceed(w) PROVE Rest
  <2>1. CASE Insert(w)
    BY <2>1, InsertSound
  <2>2. CASE Commit(w)
    BY <1>0, <2>2, CommitSound DEF Commit
  <2>3. CASE \/ Start(w) \/ Scan(w) \/ (\E c \in Ids : Mark(w, c))
             \/ ReplyAlert(w) \/ ThreadAlert(w) \/ DeletedAlert(w) \/ Announce(w)
             \/ \E u \in Users : Mention(w, u)
    BY <1>0, <2>3, ControlSteps DEF dbVars
  <2> QED
    BY <1>1, <2>1, <2>2, <2>3 DEF Proceed
<1>2. ASSUME UNCHANGED vars PROVE Rest
  BY <1>0, <1>2 DEF vars, TreeInv, Filled, WellFounded, OnlyRacesOrphan, Exists, Live
<1>3. ASSUME Restart PROVE Rest
  <2>1. UNCHANGED dbVars /\ req' = [v \in Workers |-> Idle]
    BY <1>3 DEF Restart
  <2>2. /\ req' \in [Workers -> Request]
        /\ \A v \in Workers : Sound(req'[v], comments', (late \cup restored)')
    BY <2>1, IdleSound
  <2>3. Filled' /\ WellFounded' /\ OnlyRacesOrphan'
    BY <2>1 DEF TreeInv, dbVars, Filled, WellFounded, OnlyRacesOrphan, Exists, Live
  <2> QED
    BY <1>0, <2>1, <2>2, <2>3 DEF dbVars
<1>4. Rest
  BY <1>1, <1>2, <1>3 DEF Next
<1>5. TypeOK'
  BY <1>4, EventTypes DEF TypeOK
<1> QED
  BY <1>4, <1>5 DEF TreeInv

LEMMA TreeAlways == Spec => []TreeInv
BY InitTree, NextTree, PTL DEF Spec

\* Type correctness of the comment service, for every value of the constants.
THEOREM CommentTypes == Spec => []TypeOK
<1>1. TreeInv => TypeOK
  BY DEF TreeInv
<1> QED
  BY <1>1, TreeAlways, PTL

\* However handlers interleave, replies form trees: a parent exists, is older
\* than its reply and is in the same thread.
THEOREM RepliesAreWellFounded == Spec => []WellFounded
<1>1. TreeInv => WellFounded
  BY DEF TreeInv
<1> QED
  BY <1>1, TreeAlways, PTL

\* A live reply below a deleted comment was inserted after a delete had looked
\* past its parent, or was restored: the search and the marking of the delete
\* handler, racing any number of other handlers, have no other gap.
THEOREM OrphansAreRaces == Spec => []OnlyRacesOrphan
<1>1. TreeInv => OnlyRacesOrphan
  BY DEF TreeInv
<1> QED
  BY <1>1, TreeAlways, PTL

\* A comment dies only by the commit of a delete whose target it lies below and
\* whose caller may delete that target.
THEOREM DeletesAreAuthorised == Spec => DeletesUnderAuthority
<1> DEFINE Dies(c) == Live(c) /\ ~comments'[c].live
           Cause(c) == /\ comments'[c] = [comments[c] EXCEPT !.live = FALSE]
                       /\ \E w \in Workers :
                            LET r == req[w] IN
                            /\ r.op = "delete" /\ r.at = "commit"
                            /\ Below(c, r.id)
                            /\ MayDelete(r.actor, comments[r.id].author)
<1>1. ASSUME TreeInv, [Next]_vars, NEW c \in Ids, Dies(c) PROVE Cause(c)
  <2>1. Alive(comments, c) /\ ~Alive(comments', c)
    BY <1>1 DEF Live, Exists, Alive
  <2>2. PICK w \in Workers : Commit(w)
    <3>1. ASSUME NEW w \in Workers, Insert(w) PROVE comments'[c] = comments[c]
      <4>1. nextId \in Nat /\ c < nextId
        BY <1>1 DEF TreeInv, TypeOK, Filled, Live
      <4>2. comments' = [comments EXCEPT ![nextId] = req[w].row]
        BY <3>1 DEF Insert
      <4> QED
        BY <1>1, <4>1, <4>2 DEF TreeInv, TypeOK, Ids
    <3>2. ASSUME NEW w \in Workers, Start(w) \/ Proceed(w), ~Insert(w), ~Commit(w)
          PROVE  comments' = comments
      BY <1>1, <3>2, ControlSteps DEF Proceed, dbVars
    <3>3. Restart \/ UNCHANGED vars => comments' = comments
      BY DEF Restart, dbVars, vars
    <3> QED
      BY <1>1, <2>1, <3>1, <3>2, <3>3 DEF Next, Alive
  <2>3. /\ req[w].op = "delete" /\ req[w].at = "commit" /\ c \in req[w].ids
        /\ comments'[c] = [comments[c] EXCEPT !.live = FALSE]
    BY <1>1, <2>1, <2>2, CommitSound
  <2>4. Authorised(req[w], comments)
    BY <1>1 DEF TreeInv, Sound
  <2>5. Below(c, req[w].id) /\ MayDelete(req[w].actor, comments[req[w].id].author)
    BY <2>3, <2>4 DEF Authorised, Below, Closed, ClosedUnderReplies, Exists
  <2> QED
    BY <2>3, <2>5
<1>2. TreeInv /\ [Next]_vars => [\A c \in Ids : Dies(c) => Cause(c)]_vars
  BY <1>1
<1>3. Spec => [][\A c \in Ids : Dies(c) => Cause(c)]_vars
  BY <1>2, TreeAlways, PTL DEF Spec
<1> QED
  BY <1>3 DEF DeletesUnderAuthority

-----------------------------------------------------------------------------
(* What a page shows of what is counted.                                   *)

\* What is not so has a first case: the least element of a set of numbers.
LEMMA Smallest ==
    ASSUME NEW S \in SUBSET Nat, S # {}
    PROVE  \E m \in S : \A n \in S : m <= n
<1> DEFINE R == {ss \in Nat \X Nat : ss[1] < ss[2]}
<1>1. IsWellFoundedOn(R, Nat)
  BY NatLessThanWellFounded DEF OpToRel
<1>2. \E m \in S : \A n \in S : ~(<<n, m>> \in R)
  BY <1>1, WFMin
<1>3. PICK m \in S : \A n \in S : ~(<<n, m>> \in R)
  BY <1>2
<1>4. \A n \in S : ~(n < m)
  BY <1>3
<1> QED
  BY <1>4

\* The recursion of Shown has a solution: the comments in a set of live ones that has,
\* with each of them, its parent.
LEMMA ShownHasSolution ==
    ASSUME TypeOK, WellFounded
    PROVE  \E g : g = [c \in Ids |-> Live(c) /\ (comments[c].parent = 0 \/ g[comments[c].parent])]
<1> DEFINE Up(S) == \A x \in S : Live(x) /\ (comments[x].parent = 0 \/ comments[x].parent \in S)
           G(c) == \E S \in SUBSET Ids : c \in S /\ Up(S)
           g == [c \in Ids |-> G(c)]
<1>1. \A c \in Ids : Live(c) /\ comments[c].parent # 0 => comments[c].parent \in Ids
  BY ParentIsThere DEF Live, Exists
<1>2. ASSUME NEW c \in Ids, G(c)
      PROVE  Live(c) /\ (comments[c].parent = 0 \/ G(comments[c].parent))
  BY <1>2
<1>3. ASSUME NEW c \in Ids, Live(c), comments[c].parent = 0 PROVE G(c)
  <2>1. {c} \in SUBSET Ids /\ Up({c})
    BY <1>3
  <2> QED
    BY <2>1
<1>4. ASSUME NEW c \in Ids, Live(c), G(comments[c].parent) PROVE G(c)
  <2>1. PICK S \in SUBSET Ids : comments[c].parent \in S /\ Up(S)
    BY <1>4
  <2>2. S \cup {c} \in SUBSET Ids /\ Up(S \cup {c})
    BY <1>4, <2>1
  <2> QED
    BY <2>2
<1> HIDE DEF G
<1>5. ASSUME NEW c \in Ids
      PROVE  G(c) <=> (Live(c) /\ (comments[c].parent = 0 \/ G(comments[c].parent)))
  BY <1>2, <1>3, <1>4
<1>6. ASSUME NEW c \in Ids
      PROVE  g[c] = (Live(c) /\ (comments[c].parent = 0 \/ g[comments[c].parent]))
  <2>1. g[c] = G(c)
    OBVIOUS
  <2>2. G(c) \in BOOLEAN
    BY DEF G
  <2>3. CASE Live(c) /\ comments[c].parent # 0
    <3>1. g[comments[c].parent] = G(comments[c].parent)
      BY <1>1, <2>3
    <3> QED
      BY <1>5, <2>1, <2>2, <2>3, <3>1
  <2>4. CASE ~(Live(c) /\ comments[c].parent # 0)
    BY <1>5, <2>1, <2>2, <2>4
  <2> QED
    BY <2>3, <2>4
<1> HIDE DEF g
<1>7. g = [c \in Ids |-> g[c]]
  BY DEF g
<1>8. g = [c \in Ids |-> Live(c) /\ (comments[c].parent = 0 \/ g[comments[c].parent])]
  BY <1>6, <1>7
<1> QED
  BY <1>8

LEMMA BelowItsParents ==
    /\ \A c : Below(c, c)
    /\ \A c \in Ids : \A d : Exists(c) /\ Below(comments[c].parent, d) => Below(c, d)
BY DEF Below, ClosedUnderReplies

\* The first counted comment, by its id, that is not shown and hangs from no race has a
\* parent; that one is live, or OnlyRacesOrphan names the comment; and it is an
\* earlier such comment.
LEMMA HiddenByRaces ==
    ASSUME TypeOK, WellFounded, OnlyRacesOrphan
    PROVE  ShownIsCounted
<1> DEFINE F == CHOOSE f : f = [c \in Ids |-> Live(c) /\ (comments[c].parent = 0 \/ f[comments[c].parent])]
           Raced(c) == \E d \in late \cup restored : Below(c, d)
<1>1. Shown = {c \in Ids : F[c]}
  BY DEF Shown
<1>2. F = [c \in Ids |-> Live(c) /\ (comments[c].parent = 0 \/ F[comments[c].parent])]
  BY ShownHasSolution
<1> HIDE DEF F
<1>3. \A c \in Ids : F[c] = (Live(c) /\ (comments[c].parent = 0 \/ F[comments[c].parent]))
  BY <1>2
<1>4. Shown \subseteq Counted
  BY <1>1, <1>3 DEF Counted
<1>5. \A c \in Ids : Live(c) /\ ~F[c] => Raced(c)
  <2> DEFINE S == {c \in Ids : Live(c) /\ ~F[c] /\ ~Raced(c)}
  <2> SUFFICES ASSUME S # {} PROVE FALSE
    OBVIOUS
  <2>1. S \in SUBSET Nat
    BY DEF Ids
  <2>2. PICK m \in S : \A n \in S : m <= n
    BY <2>1, Smallest
  <2> DEFINE p == comments[m].parent
  <2>3. m \in Ids /\ Live(m) /\ Exists(m) /\ p # 0 /\ ~F[p]
    BY <1>3, <2>2 DEF Live
  <2>4. p \in Ids /\ p < m
    BY <2>3, ParentIsThere DEF Exists
  <2>5. Live(p)
    <3>1. m \notin late \cup restored
      BY <2>2, BelowItsParents
    <3> QED
      BY <2>3, <3>1 DEF OnlyRacesOrphan
  <2>6. ~Raced(p)
    BY <2>2, <2>3, BelowItsParents
  <2>7. p \in S
    BY <2>3, <2>4, <2>5, <2>6
  <2> QED
    BY <2>1, <2>2, <2>4, <2>7
<1> QED
  BY <1>1, <1>4, <1>5 DEF ShownIsCounted, Counted

\* What the page of a thread shows is what its counter counts, but for what hangs from a
\* comment inserted past a delete or brought back by a restore, with any number of handlers,
\* whatever is lost and wherever the service stops.
THEOREM ShownAreCounted == Spec => []ShownIsCounted
<1>1. TreeInv => ShownIsCounted
  BY HiddenByRaces DEF TreeInv
<1> QED
  BY <1>1, TreeAlways, PTL

-----------------------------------------------------------------------------
(* What the author of a thread is told of a new comment.                   *)

OwnerOf(cs, c) == ThreadAuthor[cs[c].thread]
\* Somebody else's comment, as the author of its thread sees it.
Foreign(cs, c) == cs[c].author # OwnerOf(cs, c)
\* It replies to a comment of the thread's author.
RepliesToOwner(cs, c) == cs[c].parent # 0 /\ cs[cs[c].parent].author = OwnerOf(cs, c)

\* Who is told of a new comment, and as what.
Rightly(a, cs) ==
    /\ a.type = "comment_reply" =>
         /\ cs[a.comment] # NoComment /\ cs[a.comment].parent # 0
         /\ a.user = cs[cs[a.comment].parent].author
    /\ a.type = "new_comment" =>
         /\ cs[a.comment] # NoComment
         /\ a.user = OwnerOf(cs, a.comment)
         /\ ~RepliesToOwner(cs, a.comment)

\* A handler of create_comment has its comment before it, once that is in the table.
Knows(r, cs) ==
    /\ r.at = "thread" => r.op = "create"
    /\ r.op = "create" =>
        /\ r.at # "idle" /\ r.row.author = r.actor
        /\ r.at # "insert" =>
             /\ r.id \in Ids /\ cs[r.id] # NoComment
             /\ cs[r.id].parent = r.row.parent
             /\ cs[r.id].thread = r.row.thread
             /\ cs[r.id].author = r.row.author

\* It has still to tell the author of the thread.
Waiting(r, cs, c) ==
    /\ r.op = "create" /\ r.id = c
    /\ r.at = "alert" \/ (r.at = "thread" /\ ~RepliesToOwner(cs, c))

Settled(cs, as, ms, c) ==
    \/ \E a \in as : /\ a.comment = c /\ a.user = OwnerOf(cs, c)
                     /\ a.type \in {"comment_reply", "new_comment"}
    \/ <<OwnerOf(cs, c), c>> \in ms

ToldInv ==
    /\ \A a \in alerts : Rightly(a, comments)
    /\ \A w \in Workers : Knows(req[w], comments)
    /\ \A c \in Ids : Exists(c) /\ Foreign(comments, c) =>
         \/ Settled(comments, alerts, missed, c)
         \/ \E w \in Workers : Waiting(req[w], comments, c)

\* Rows keep what these speak of.
LEMMA PlacesAreKept ==
    ASSUME TypeOK, WellFounded, NEW cs, Kept(comments, cs),
           NEW c \in Ids, comments[c] # NoComment
    PROVE  /\ cs[c] # NoComment
           /\ OwnerOf(cs, c) = OwnerOf(comments, c)
           /\ Foreign(cs, c) <=> Foreign(comments, c)
           /\ RepliesToOwner(cs, c) <=> RepliesToOwner(comments, c)
<1>1. /\ cs[c] # NoComment /\ cs[c].parent = comments[c].parent
      /\ cs[c].thread = comments[c].thread /\ cs[c].author = comments[c].author
  BY DEF Kept
<1>2. comments[c].parent # 0 => cs[comments[c].parent].author = comments[comments[c].parent].author
  BY ParentIsThere DEF Kept
<1> QED
  BY <1>1, <1>2 DEF OwnerOf, Foreign, RepliesToOwner

\* A handler's step keeps ToldInv if its own request still knows its comment, new alerts
\* are right, and the comments it made or was to tell of are settled, or still to be told of.
LEMMA ToldByStep ==
    ASSUME TypeOK, WellFounded, ToldInv,
           NEW w \in Workers, NEW r, req' = [req EXCEPT ![w] = r], Knows(r, comments'),
           Kept(comments, comments'), alerts \subseteq alerts', missed \subseteq missed',
           \A a \in alerts' \ alerts : Rightly(a, comments'),
           \A c \in Ids :
              /\ comments'[c] # NoComment /\ Foreign(comments', c)
              /\ comments[c] = NoComment \/ Waiting(req[w], comments, c)
              => Settled(comments', alerts', missed', c) \/ Waiting(r, comments', c)
    PROVE  ToldInv'
<1>0. req \in [Workers -> Request] /\ alerts \in SUBSET Alert
  BY DEF TypeOK
<1>1. ASSUME NEW a \in alerts' PROVE Rightly(a, comments')
  <2>1. CASE a \in alerts
    <3>1. Rightly(a, comments) /\ a.comment \in Ids
      BY <1>0, <2>1 DEF ToldInv, Alert
    <3>2. ASSUME comments[a.comment] # NoComment PROVE Rightly(a, comments')
      <4>1. /\ comments'[a.comment] # NoComment
            /\ OwnerOf(comments', a.comment) = OwnerOf(comments, a.comment)
            /\ RepliesToOwner(comments', a.comment) <=> RepliesToOwner(comments, a.comment)
        BY <3>1, <3>2, PlacesAreKept
      <4>2. comments'[a.comment].parent = comments[a.comment].parent
        BY <3>1, <3>2 DEF Kept
      <4>3. comments[a.comment].parent # 0 =>
              comments'[comments[a.comment].parent].author
                = comments[comments[a.comment].parent].author
        BY <3>1, <3>2, ParentIsThere DEF Kept
      <4> QED
        BY <3>1, <4>1, <4>2, <4>3 DEF Rightly
    <3> QED
      BY <3>1, <3>2 DEF Rightly
  <2> QED
    BY <2>1
<1>2. ASSUME NEW v \in Workers PROVE Knows(req'[v], comments')
  <2>1. v # w => Knows(req[v], comments')
    BY DEF ToldInv, Knows, Kept
  <2> QED
    BY <1>0, <2>1
<1>3. ASSUME NEW c \in Ids, comments'[c] # NoComment, Foreign(comments', c)
      PROVE  \/ Settled(comments', alerts', missed', c)
             \/ \E v \in Workers : Waiting(req'[v], comments', c)
  <2>1. CASE comments[c] = NoComment \/ Waiting(req[w], comments, c)
    <3>1. req'[w] = r
      BY <1>0
    <3> QED
      BY <1>3, <2>1, <3>1
  <2>2. CASE comments[c] # NoComment /\ ~Waiting(req[w], comments, c)
    <3>1. /\ OwnerOf(comments', c) = OwnerOf(comments, c) /\ Foreign(comments, c)
          /\ RepliesToOwner(comments', c) <=> RepliesToOwner(comments, c)
      BY <1>3, <2>2, PlacesAreKept
    <3>2. CASE Settled(comments, alerts, missed, c)
      BY <3>1, <3>2 DEF Settled
    <3>3. CASE \E v \in Workers : Waiting(req[v], comments, c)
      <4>1. PICK v \in Workers : Waiting(req[v], comments, c)
        BY <3>3
      <4>2. req'[v] = req[v]
        BY <1>0, <2>2, <4>1
      <4> QED
        BY <3>1, <4>1, <4>2 DEF Waiting
    <3> QED
      BY <2>2, <3>1, <3>2, <3>3 DEF ToldInv, Exists
  <2> QED
    BY <2>1, <2>2
<1> QED
  BY <1>1, <1>2, <1>3 DEF ToldInv, Exists

LEMMA ToldByStart ==
    ASSUME TreeInv, ToldInv, NEW w \in Workers, Start(w)
    PROVE  ToldInv'
<1>1. PICK a \in Users :
        \/ \E t \in Threads, p \in Ids \cup {0}, text \in Contents : CreateCheck(w, a, t, p, text)
        \/ \E c \in Ids, text \in Contents : EditLoad(w, a, c, text)
        \/ \E c \in Ids : DeleteLoad(w, a, c) \/ RestoreLoad(w, a, c)
  BY DEF Start
<1>2. UNCHANGED <<dbVars, events>> /\ req[w].at = "idle"
  BY <1>1 DEF CreateCheck, EditLoad, DeleteLoad, RestoreLoad, Begin
<1>3. PICK r : req' = [req EXCEPT ![w] = r] /\ Knows(r, comments)
  <2>1. ASSUME NEW t \in Threads, NEW p \in Ids \cup {0}, NEW text \in Contents,
               CreateCheck(w, a, t, p, text)
        PROVE  \E r : req' = [req EXCEPT ![w] = r] /\ Knows(r, comments)
    <3> DEFINE q == [Idle EXCEPT !.op = "create", !.actor = a,
                       !.row = [parent |-> p, thread |-> t, author |-> a,
                                content |-> text, live |-> TRUE]]
               r == [q EXCEPT !.at = "insert"]
    <3>1. r.op = "create" /\ r.at = "insert" /\ r.row.author = a /\ r.actor = a
      BY DEF Idle
    <3>2. req' = [req EXCEPT ![w] = r]
      BY <2>1 DEF CreateCheck, Goto
    <3> HIDE DEF r
    <3> QED
      BY <3>1, <3>2 DEF Knows
  <2>2. ASSUME NEW c \in Ids, NEW text \in Contents, EditLoad(w, a, c, text)
        PROVE  \E r : req' = [req EXCEPT ![w] = r] /\ Knows(r, comments)
    <3> DEFINE q == [Idle EXCEPT !.op = "edit", !.actor = a, !.id = c,
                       !.row = [comments[c] EXCEPT !.content = text],
                       !.dirty = IF text = comments[c].content THEN {} ELSE {c}]
               r == [q EXCEPT !.at = "commit"]
    <3>1. r.op = "edit" /\ r.at = "commit"
      BY DEF Idle
    <3>2. req' = [req EXCEPT ![w] = r]
      BY <2>2 DEF EditLoad, Goto
    <3> HIDE DEF r
    <3> QED
      BY <3>1, <3>2 DEF Knows
  <2>3. ASSUME NEW c \in Ids, DeleteLoad(w, a, c)
        PROVE  \E r : req' = [req EXCEPT ![w] = r] /\ Knows(r, comments)
    <3> DEFINE q == [Idle EXCEPT !.op = "delete", !.actor = a, !.id = c, !.row = comments[c],
                       !.ids = {c}, !.todo = {c}]
               r == [q EXCEPT !.at = "scan"]
    <3>1. r.op = "delete" /\ r.at = "scan"
      BY DEF Idle
    <3>2. req' = [req EXCEPT ![w] = r]
      BY <2>3 DEF DeleteLoad, Goto
    <3> HIDE DEF r
    <3> QED
      BY <3>1, <3>2 DEF Knows
  <2>4. ASSUME NEW c \in Ids, RestoreLoad(w, a, c)
        PROVE  \E r : req' = [req EXCEPT ![w] = r] /\ Knows(r, comments)
    <3> DEFINE q == [Idle EXCEPT !.op = "restore", !.actor = a, !.id = c,
                       !.row = comments[c], !.dirty = IF Live(c) THEN {} ELSE {c}]
               r == [q EXCEPT !.at = "commit"]
    <3>1. r.op = "restore" /\ r.at = "commit"
      BY DEF Idle
    <3>2. req' = [req EXCEPT ![w] = r]
      BY <2>4 DEF RestoreLoad, Goto
    <3> HIDE DEF r
    <3> QED
      BY <3>1, <3>2 DEF Knows
  <2> QED
    BY <1>1, <2>1, <2>2, <2>3, <2>4
<1>4. TypeOK /\ WellFounded /\ Kept(comments, comments')
  BY <1>2 DEF TreeInv, dbVars, Kept
<1>5. \A c : ~Waiting(req[w], comments, c)
  BY <1>2 DEF Waiting
<1>6. Knows(r, comments')
  BY <1>2, <1>3 DEF dbVars
<1> QED
  BY <1>2, <1>3, <1>4, <1>5, <1>6, ToldByStep DEF dbVars, events

LEMMA ToldByInsert ==
    ASSUME TreeInv, ToldInv, NEW w \in Workers, Insert(w)
    PROVE  ToldInv'
<1> DEFINE q == req[w]
           at == IF q.row.parent = 0 THEN "thread" ELSE "alert"
           r1 == [[q EXCEPT !.id = nextId] EXCEPT !.at = at]
<1>1. /\ q \in Request /\ q.at = "insert" /\ q.op = "create" /\ q.row \in Comment
      /\ q.row.author = q.actor
  BY DEF TreeInv, TypeOK, Insert, Sound, Shaped, ToldInv, Knows
<1>2. nextId \in Ids /\ NoComment \notin Comment
  BY ConstantsOK DEF TreeInv, TypeOK, Insert, Ids
<1>3. /\ comments' = [comments EXCEPT ![nextId] = q.row]
      /\ comments'[nextId] = q.row
      /\ \A c \in Ids : c # nextId => comments'[c] = comments[c]
  BY <1>2 DEF Insert, TreeInv, TypeOK
<1>4. req' = [req EXCEPT ![w] = r1]
  BY DEF Insert, Goto
<1>5. /\ r1.op = "create" /\ r1.at = at /\ r1.row = q.row /\ r1.actor = q.actor
      /\ r1.id = nextId
  BY <1>1 DEF Request
<1>6. Kept(comments, comments')
  BY InsertSound
<1> HIDE DEF r1
<1>7. Knows(r1, comments')
  BY <1>1, <1>2, <1>3, <1>5 DEF Knows
<1>8. ASSUME NEW c \in Ids, comments'[c] # NoComment,
             comments[c] = NoComment \/ Waiting(q, comments, c)
      PROVE  Waiting(r1, comments', c)
  <2>1. c = nextId
    BY <1>1, <1>3, <1>8 DEF Waiting
  <2> QED
    BY <1>3, <1>5, <2>1 DEF Waiting, RepliesToOwner
<1>9. UNCHANGED events /\ TypeOK /\ WellFounded
  BY DEF Insert, TreeInv
<1> QED
  BY <1>4, <1>6, <1>7, <1>8, <1>9, ToldByStep DEF events

\* A handler that is about to tell somebody of its comment.
LEMMA Teller ==
    ASSUME TreeInv, ToldInv, NEW w \in Workers, req[w].op = "create",
           req[w].at \in {"alert", "thread"}, UNCHANGED dbVars,
           NEW at \in {"thread", "broadcast"}, Goto(w, req[w], at)
    PROVE  LET q == req[w]
               r == [req[w] EXCEPT !.at = at]
           IN /\ req' = [req EXCEPT ![w] = r] /\ Knows(r, comments')
              /\ Kept(comments, comments')
              /\ r.op = "create" /\ r.at = at /\ r.id = q.id
              /\ q.id \in Ids /\ comments[q.id] # NoComment
              /\ q.row \in Comment /\ q.row.author = q.actor
              /\ comments[q.id].parent = q.row.parent
              /\ comments[q.id].thread = q.row.thread
              /\ comments[q.id].author = q.row.author
              /\ q.at = "alert" => q.row.parent # 0
<1> DEFINE q == req[w]
           r == [req[w] EXCEPT !.at = at]
<1>1. /\ q \in Request /\ q.id \in Ids /\ comments[q.id] # NoComment
      /\ q.row \in Comment /\ q.row.author = q.actor
      /\ comments[q.id].parent = q.row.parent
      /\ comments[q.id].thread = q.row.thread
      /\ comments[q.id].author = q.row.author
      /\ q.at = "alert" => q.row.parent # 0
  BY DEF TreeInv, TypeOK, Sound, Shaped, ToldInv, Knows
<1>2. /\ r.op = "create" /\ r.at = at /\ r.id = q.id /\ r.row = q.row /\ r.actor = q.actor
  BY <1>1 DEF Request
<1>3. req' = [req EXCEPT ![w] = r] /\ comments' = comments
  BY DEF Goto, dbVars
<1> HIDE DEF r
<1>4. Knows(r, comments') /\ Kept(comments, comments')
  BY <1>1, <1>2, <1>3 DEF Knows, Kept
<1> QED
  BY <1>1, <1>2, <1>3, <1>4 DEF r

LEMMA ToldByReply ==
    ASSUME TreeInv, ToldInv, NEW w \in Workers, ReplyAlert(w)
    PROVE  ToldInv'
<1> DEFINE q == req[w]
           owner == comments[q.row.parent].author
           e == [type |-> "comment_reply", user |-> owner, comment |-> q.id]
           r == [req[w] EXCEPT !.at = "thread"]
<1>1. q.op = "create" /\ q.at = "alert" /\ Goto(w, q, "thread") /\ UNCHANGED dbVars
  BY DEF ReplyAlert
<1>2. /\ req' = [req EXCEPT ![w] = r] /\ Knows(r, comments') /\ Kept(comments, comments')
      /\ r.op = "create" /\ r.at = "thread" /\ r.id = q.id
      /\ q.id \in Ids /\ comments[q.id] # NoComment /\ q.row.parent # 0
      /\ comments[q.id].parent = q.row.parent /\ comments[q.id].author = q.actor
  BY <1>1, Teller
<1>3. News(q, owner # q.actor, "comment_reply", owner, {"lose_alert"})
  BY DEF ReplyAlert
<1>4. alerts \subseteq alerts' /\ missed \subseteq missed' /\ alerts' \subseteq alerts \cup {e}
      /\ (owner # q.actor => e \in alerts' \/ <<owner, q.id>> \in missed')
  BY <1>3 DEF News, Send
<1>5. e.type = "comment_reply" /\ e.user = owner /\ e.comment = q.id /\ comments' = comments
  BY <1>1 DEF dbVars
<1> HIDE DEF r, e
<1>6. Rightly(e, comments')
  BY <1>2, <1>5 DEF Rightly
<1>7. ASSUME NEW c \in Ids, comments'[c] # NoComment, Foreign(comments', c),
             comments[c] = NoComment \/ Waiting(q, comments, c)
      PROVE  Settled(comments', alerts', missed', c) \/ Waiting(r, comments', c)
  <2>1. c = q.id
    BY <1>5, <1>7 DEF Waiting
  <2>2. CASE RepliesToOwner(comments, c)
    <3>1. owner = OwnerOf(comments, c) /\ owner # q.actor
      BY <1>2, <1>5, <1>7, <2>1, <2>2 DEF RepliesToOwner, Foreign
    <3> QED
      BY <1>4, <1>5, <2>1, <3>1 DEF Settled
  <2>3. CASE ~RepliesToOwner(comments, c)
    BY <1>2, <1>5, <2>1, <2>3 DEF Waiting
  <2> QED
    BY <2>2, <2>3
<1>8. TypeOK /\ WellFounded
  BY DEF TreeInv
<1> QED
  BY <1>2, <1>4, <1>6, <1>7, <1>8, ToldByStep

LEMMA ToldByThread ==
    ASSUME TreeInv, ToldInv, NEW w \in Workers, ThreadAlert(w), req[w].op = "create"
    PROVE  ToldInv'
<1> DEFINE q == req[w]
           owner == ThreadAuthor[q.row.thread]
           e == [type |-> "new_comment", user |-> owner, comment |-> q.id]
           r == [req[w] EXCEPT !.at = "broadcast"]
           due == owner # q.actor /\ ~AlreadyNotified(q)
<1>1. q.at = "thread" /\ Goto(w, q, "broadcast") /\ UNCHANGED dbVars
  BY DEF ThreadAlert
<1>2. /\ req' = [req EXCEPT ![w] = r] /\ Knows(r, comments') /\ Kept(comments, comments')
      /\ q.id \in Ids /\ comments[q.id] # NoComment
      /\ comments[q.id].parent = q.row.parent /\ comments[q.id].author = q.actor
      /\ comments[q.id].thread = q.row.thread
  BY <1>1, Teller
<1>3. owner = OwnerOf(comments, q.id) /\ (AlreadyNotified(q) <=> RepliesToOwner(comments, q.id))
  BY <1>2 DEF OwnerOf, AlreadyNotified, RepliesToOwner
<1>4. News(q, due, "new_comment", owner, {"lose_alert", "lookup"})
  BY DEF ThreadAlert
<1>5. /\ alerts \subseteq alerts' /\ missed \subseteq missed' /\ alerts' \subseteq alerts \cup {e}
      /\ e \in alerts' \ alerts => due
      /\ due => e \in alerts' \/ <<owner, q.id>> \in missed'
  <2> HIDE DEF due, owner
  <2> QED
    BY <1>4 DEF News, Send
<1>6. e.type = "new_comment" /\ e.user = owner /\ e.comment = q.id /\ comments' = comments
  BY <1>1 DEF dbVars
<1> HIDE DEF r, e
<1>7. \A a \in alerts' \ alerts : Rightly(a, comments')
  BY <1>2, <1>3, <1>5, <1>6 DEF Rightly
<1>8. ASSUME NEW c \in Ids, comments'[c] # NoComment, Foreign(comments', c),
             comments[c] = NoComment \/ Waiting(q, comments, c)
      PROVE  Settled(comments', alerts', missed', c)
  <2>1. c = q.id /\ ~RepliesToOwner(comments, c)
    BY <1>1, <1>6, <1>8 DEF Waiting
  <2>2. due
    BY <1>2, <1>3, <1>6, <1>8, <2>1 DEF Foreign
  <2> QED
    BY <1>3, <1>5, <1>6, <2>1, <2>2 DEF Settled
<1>9. TypeOK /\ WellFounded
  BY DEF TreeInv
<1> QED
  BY <1>2, <1>5, <1>7, <1>8, <1>9, ToldByStep

LEMMA ToldByOthers ==
    ASSUME TreeInv, ToldInv, NEW w \in Workers,
           \/ Scan(w) \/ (\E c \in Ids : Mark(w, c)) \/ Commit(w) \/ DeletedAlert(w)
           \/ Announce(w) \/ (\E u \in Users : Mention(w, u))
    PROVE  ToldInv'
<1> DEFINE q == req[w]
<1>1. TypeOK /\ WellFounded /\ q \in Request /\ Shaped(q, comments) /\ Knows(q, comments)
  BY DEF TreeInv, TypeOK, Sound, ToldInv
<1>2. ASSUME NEW r, r.op = q.op, r.op # "create", r.at # "thread" PROVE Knows(r, comments')
  BY <1>2 DEF Knows
<1>3. /\ Kept(comments, comments') /\ UNCHANGED missed
      /\ \A c \in Ids : comments'[c] # NoComment => comments[c] # NoComment
      /\ \A c : ~Waiting(q, comments, c)
  <2>1. CASE Commit(w)
    BY <1>1, <2>1, CommitSound DEF Commit, events, Waiting, Shaped
  <2>2. CASE ~Commit(w)
    <3>1. UNCHANGED <<comments, missed>>
      BY <2>2 DEF Scan, Mark, DeletedAlert, Announce, Mention, dbVars, events
    <3>2. q.at \in {"scan", "mark", "broadcast", "mention"} \/ q.op = "delete"
      BY <2>2 DEF Scan, Mark, DeletedAlert, Announce, Mention
    <3> QED
      BY <3>1, <3>2 DEF Kept, Waiting
  <2> QED
    BY <2>1, <2>2
<1>4. /\ alerts \subseteq alerts'
      /\ \A a \in alerts' \ alerts : Rightly(a, comments')
  <2>1. ASSUME NEW type \in {"mention", "comment_deleted"}, NEW u, Send(type, u, q.id)
        PROVE  alerts \subseteq alerts' /\ \A a \in alerts' \ alerts : Rightly(a, comments')
    BY <2>1 DEF Send, Rightly
  <2>2. CASE DeletedAlert(w) \/ \E u \in Users : Mention(w, u)
    BY <2>1, <2>2 DEF DeletedAlert, Mention, Tell
  <2>3. CASE Scan(w) \/ (\E c \in Ids : Mark(w, c)) \/ Commit(w) \/ Announce(w)
    BY <2>3 DEF Scan, Mark, Commit, Announce, events
  <2> QED
    BY <2>2, <2>3
<1>5. \E r : req' = [req EXCEPT ![w] = r] /\ Knows(r, comments')
  <2>1. ASSUME NEW x \in Request, NEW at \in {"scan", "mark", "commit", "alert", "broadcast"},
               x.op = q.op, q.op # "create", Goto(w, x, at)
        PROVE  \E r : req' = [req EXCEPT ![w] = r] /\ Knows(r, comments')
    <3> DEFINE r == [x EXCEPT !.at = at]
    <3>1. r.op = q.op /\ r.at = at /\ req' = [req EXCEPT ![w] = r]
      BY <2>1 DEF Goto, Request
    <3> HIDE DEF r
    <3> QED
      BY <1>2, <2>1, <3>1
  <2>2. CASE Scan(w)
    <3> DEFINE found == ChildrenOf(q.todo)
               q1 == [q EXCEPT !.todo = q.ids]
               q2 == [q EXCEPT !.ids = q.ids \cup found, !.todo = found]
    <3>1. found \in SUBSET Ids
      BY DEF ChildrenOf
    <3>2. q1 \in Request /\ q1.op = q.op /\ q2 \in Request /\ q2.op = q.op
      <4> HIDE DEF found
      <4> QED
        BY <1>1, <3>1 DEF Request
    <3>3. Goto(w, q1, "mark") \/ Goto(w, q2, "scan")
      BY <2>2 DEF Scan
    <3>4. q.op # "create"
      BY <1>1, <2>2 DEF Scan, Shaped
    <3> HIDE DEF q1, q2
    <3> QED
      BY <2>1, <3>2, <3>3, <3>4
  <2>3. ASSUME NEW c \in Ids, Mark(w, c)
        PROVE  \E r : req' = [req EXCEPT ![w] = r] /\ Knows(r, comments')
    <3> DEFINE dirty == IF Marks(q, c) THEN q.dirty \cup {c} ELSE q.dirty
               x == [q EXCEPT !.todo = q.todo \ {c}, !.dirty = dirty]
    <3>1. dirty \in SUBSET Ids
      BY <1>1 DEF Request
    <3>2. x \in Request /\ x.op = q.op
      <4> HIDE DEF dirty
      <4> QED
        BY <1>1, <3>1 DEF Request
    <3>3. Goto(w, x, IF x.todo = {} THEN "commit" ELSE "mark")
      BY <2>3 DEF Mark
    <3>4. q.op # "create"
      BY <1>1, <2>3 DEF Mark, Shaped
    <3> HIDE DEF x
    <3> QED
      BY <2>1, <3>2, <3>3, <3>4
  <2>4. CASE Commit(w) \/ DeletedAlert(w)
    <3>1. q.op # "create" /\ (Goto(w, q, "alert") \/ Goto(w, q, "broadcast"))
      BY <1>1, <2>4 DEF Commit, DeletedAlert, Shaped
    <3> QED
      BY <1>1, <2>1, <3>1
  <2>5. CASE Finish(w)
    <3>1. Knows(Idle, comments')
      BY DEF Knows, Idle
    <3> QED
      BY <2>5, <3>1 DEF Finish
  <2>6. ASSUME NEW N \in SUBSET Users, q.at \in {"broadcast", "mention"}, UNCHANGED comments,
               Goto(w, [q EXCEPT !.names = N], "mention")
        PROVE  \E r : req' = [req EXCEPT ![w] = r] /\ Knows(r, comments')
    <3> DEFINE r == [[q EXCEPT !.names = N] EXCEPT !.at = "mention"]
    <3>1. /\ r.op = q.op /\ r.at = "mention" /\ r.id = q.id /\ r.row = q.row
          /\ r.actor = q.actor /\ req' = [req EXCEPT ![w] = r]
      BY <1>1, <2>6 DEF Goto, Request
    <3> HIDE DEF r
    <3> QED
      BY <1>1, <2>6, <3>1 DEF Knows
  <2>7. CASE Announce(w) /\ ~Finish(w)
    <3>1. ToMention(q) \in SUBSET Users
      BY <1>1, <2>7, MentionedAreUsers DEF Announce, Shaped
    <3> QED
      BY <2>6, <2>7, <3>1 DEF Announce, dbVars
  <2>8. CASE (\E u \in Users : Mention(w, u)) /\ ~Finish(w)
    <3>1. PICK u \in Users : Mention(w, u)
      BY <2>8
    <3>2. q.names \ {u} \in SUBSET Users
      BY <1>1 DEF Request
    <3> QED
      BY <2>6, <2>8, <3>1, <3>2 DEF Mention, dbVars
  <2> QED
    BY <2>2, <2>3, <2>4, <2>5, <2>7, <2>8
<1> QED
  BY <1>1, <1>3, <1>4, <1>5, ToldByStep

LEMMA ToldByRestart ==
    ASSUME TreeInv, ToldInv, Restart
    PROVE  ToldInv'
<1>1. /\ UNCHANGED <<dbVars, alerts>> /\ req' = [w \in Workers |-> Idle]
      /\ missed \subseteq missed'
  BY DEF Restart
<1>2. comments' = comments
  BY <1>1 DEF dbVars
<1>3. \A w \in Workers : Knows(req'[w], comments')
  BY <1>1 DEF Knows, Idle
<1>4. ASSUME NEW c \in Ids, Exists(c), Foreign(comments, c)
      PROVE  Settled(comments, alerts, missed', c)
  <2>1. CASE Settled(comments, alerts, missed, c)
    BY <1>1, <2>1 DEF Settled
  <2>2. CASE \E w \in Workers : Waiting(req[w], comments, c)
    <3>1. PICK w \in Workers : Waiting(req[w], comments, c)
      BY <2>2
    <3>2. OwnerOf(comments, c) \in Users
      <4>1. comments[c] \in Comment
        BY <1>4 DEF TreeInv, TypeOK, Exists
      <4> QED
        BY <4>1, ConstantsOK DEF OwnerOf, Comment
    <3>3. <<OwnerOf(comments, c), c>> \in missed'
      BY <3>1, <3>2 DEF Restart, Waiting
    <3> QED
      BY <3>3 DEF Settled
  <2> QED
    BY <1>4, <2>1, <2>2 DEF ToldInv
<1> QED
  BY <1>1, <1>2, <1>3, <1>4 DEF ToldInv, Exists

LEMMA NextTold == TreeInv /\ ToldInv /\ [Next]_vars => ToldInv'
<1> SUFFICES ASSUME TreeInv, ToldInv, [Next]_vars PROVE ToldInv'
  OBVIOUS
<1>1. ASSUME NEW w \in Workers, Proceed(w) PROVE ToldInv'
  <2>1. CASE ThreadAlert(w)
    <3>1. req[w].op = "create"
      BY <2>1 DEF ThreadAlert, ToldInv, Knows
    <3> QED
      BY <2>1, <3>1, ToldByThread
  <2> QED
    BY <1>1, <2>1, ToldByInsert, ToldByReply, ToldByOthers DEF Proceed
<1>2. CASE UNCHANGED vars
  BY <1>2 DEF vars, ToldInv, Exists
<1> QED
  BY <1>1, <1>2, ToldByStart, ToldByRestart DEF Next

\* Two alerts to the author of a thread about one comment are of the same type: the type
\* says whether the author of its parent is the author of the thread.
LEMMA HeardOnce ==
    ASSUME ToldInv, TypeOK, NEW c \in Ids
    PROVE  LET heard == {a \in alerts : /\ a.comment = c /\ a.user = OwnerOf(comments, c)
                                        /\ a.type \in {"comment_reply", "new_comment"}}
           IN Cardinality(heard) <= 1
<1> DEFINE heard == {a \in alerts : /\ a.comment = c /\ a.user = OwnerOf(comments, c)
                                    /\ a.type \in {"comment_reply", "new_comment"}}
<1>1. ASSUME NEW a \in heard, NEW b \in heard PROVE a = b
  <2>1. a \in Alert /\ b \in Alert /\ Rightly(a, comments) /\ Rightly(b, comments)
    BY DEF TypeOK, ToldInv
  <2>2. a.comment = b.comment /\ a.user = b.user
    OBVIOUS
  <2>3. a.type = b.type
    BY <2>1 DEF Rightly, RepliesToOwner
  <2> QED
    BY <2>1, <2>2, <2>3 DEF Alert
<1>2. CASE heard = {}
  BY <1>2, FS_EmptySet
<1>3. CASE heard # {}
  <2>1. PICK a : heard = {a}
    BY <1>1, <1>3
  <2>2. Cardinality(heard) = 1
    BY <2>1, FS_Singleton
  <2> QED
    BY <2>2
<1> QED
  BY <1>2, <1>3

\* The author of a thread hears of somebody else's comment at most once, and once it is
\* made has heard of it, unless that one alert was lost, the lookup of the thread failed or
\* the service stopped meanwhile; with any number of handlers, mentions and deletes.
THEOREM ThreadAuthorsToldOnce == Spec => []ThreadAuthorToldOnce
<1>1. Init => ToldInv
  BY DEF Init, ToldInv, Idle, Knows, Exists
<1>2. TreeInv /\ ToldInv => ThreadAuthorToldOnce
  <2> SUFFICES ASSUME TreeInv, ToldInv, NEW c \in Ids, Exists(c),
                      comments[c].author # ThreadAuthor[comments[c].thread]
               PROVE  LET owner == ThreadAuthor[comments[c].thread]
                          heard == {a \in alerts : /\ a.comment = c /\ a.user = owner
                                                   /\ a.type \in {"comment_reply", "new_comment"}}
                          creating == \E w \in Workers : req[w].op = "create" /\ req[w].id = c
                      IN /\ Cardinality(heard) <= 1
                         /\ creating \/ <<owner, c>> \in missed \/ heard # {}
    BY DEF ThreadAuthorToldOnce
  <2>1. Cardinality({a \in alerts : /\ a.comment = c /\ a.user = OwnerOf(comments, c)
                                    /\ a.type \in {"comment_reply", "new_comment"}}) <= 1
    BY HeardOnce DEF TreeInv
  <2>2. \/ Settled(comments, alerts, missed, c)
        \/ \E w \in Workers : Waiting(req[w], comments, c)
    BY DEF ToldInv, Foreign, OwnerOf
  <2> QED
    BY <2>1, <2>2 DEF Settled, Waiting, OwnerOf
<1>3. Spec => []ToldInv
  BY <1>1, NextTold, TreeAlways, PTL DEF Spec
<1> QED
  BY <1>2, <1>3, TreeAlways, PTL

====
