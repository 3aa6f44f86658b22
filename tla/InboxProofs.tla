---- MODULE InboxProofs ----
(* What Inbox keeps, proved for every set of users and every kind of entry. *)
EXTENDS Inbox, TLAPS

Row == [user : Users, origin : Nat, read : BOOLEAN]

Types ==
    /\ log \in Seq(Users \cup Others)
    /\ upto \in 0..Len(log)
    /\ table \in Seq(Row)

IInv == Types /\ Kept

-----------------------------------------------------------------------------
(* The two ways the table changes.                                         *)

LEMMA MarkedRows ==
    ASSUME Types, NEW S \in SUBSET DOMAIN table
    PROVE  /\ AsRead(S) \in Seq(Row)
           /\ DOMAIN AsRead(S) = DOMAIN table
           /\ \A k \in DOMAIN table : /\ AsRead(S)[k].user = table[k].user
                                      /\ AsRead(S)[k].origin = table[k].origin
<1>1. DOMAIN table = 1..Len(table) /\ Len(table) \in Nat
  BY DEF Types
<1>2. \A k \in DOMAIN table : table[k] \in Row
  BY DEF Types
<1>3. \A k \in DOMAIN table : AsRead(S)[k] \in Row
  BY <1>2 DEF AsRead, Row
<1>4. AsRead(S) \in [1..Len(table) -> Row]
  BY <1>1, <1>3 DEF AsRead
<1>5. AsRead(S) \in Seq(Row)
  BY <1>1, <1>4
<1>6. DOMAIN AsRead(S) = DOMAIN table
  BY DEF AsRead
<1>7. \A k \in DOMAIN table : /\ AsRead(S)[k].user = table[k].user
                              /\ AsRead(S)[k].origin = table[k].origin
  BY <1>2 DEF AsRead, Row
<1> QED
  BY <1>5, <1>6, <1>7

LEMMA AppendedRow ==
    ASSUME Types, NEW r \in Row
    PROVE  /\ Append(table, r) \in Seq(Row)
           /\ DOMAIN table = 1..Len(table)
           /\ DOMAIN Append(table, r) = 1..(Len(table) + 1)
           /\ \A k \in DOMAIN table : Append(table, r)[k] = table[k]
           /\ Append(table, r)[Len(table) + 1] = r
  BY DEF Types

-----------------------------------------------------------------------------
LEMMA InitKeeps == Init => IInv
  BY DEF Init, IInv, Types, Kept

LEMMA PublishKeeps == IInv /\ Publish => IInv'
<1> SUFFICES ASSUME IInv, Publish PROVE IInv'
  OBVIOUS
<1>1. PICK e \in Users \cup Others : log' = Append(log, e)
  BY DEF Publish
<1>2. /\ log' \in Seq(Users \cup Others) /\ Len(log') = Len(log) + 1 /\ Len(log) \in Nat
      /\ \A i \in 1..Len(log) : log'[i] = log[i]
  BY <1>1 DEF IInv, Types
<1>3. Types'
  BY <1>2 DEF IInv, Types, Publish
<1>4. Kept'
  BY <1>2 DEF IInv, Types, Kept, Publish
<1> QED
  BY <1>3, <1>4 DEF IInv

LEMMA DeliverKeeps == IInv /\ Deliver => IInv'
<1> SUFFICES ASSUME IInv, Deliver PROVE IInv'
  OBVIOUS
<1> DEFINE r == Unread(log[upto'], upto')
<1>1. /\ upto \in Nat /\ upto' = upto + 1 /\ upto' \in 1..Len(log) /\ log' = log
      /\ table' = Append(table, r) /\ lost' = lost
  BY DEF Deliver, Advance, IInv, Types
<1>2. r \in Row /\ r.origin = upto' /\ r.user = log[upto']
  BY <1>1 DEF Deliver, Unread, Row
<1> HIDE DEF r
<1>3. /\ table' \in Seq(Row) /\ DOMAIN table = 1..Len(table)
      /\ DOMAIN table' = 1..(Len(table) + 1) /\ Len(table) \in Nat
      /\ \A k \in DOMAIN table : table'[k] = table[k]
      /\ table'[Len(table) + 1] = r
  BY <1>1, <1>2, AppendedRow DEF IInv, Types
<1>4. Types'
  BY <1>1, <1>3 DEF IInv, Types
<1>5. ASSUME NEW i \in 1..upto', log'[i] \in Users
      PROVE  i \in lost' \/ \E k \in DOMAIN table' : table'[k].origin = i
  <2>1. CASE i = upto'
    BY <2>1, <1>2, <1>3
  <2>2. CASE i # upto'
    <3>1. i \in 1..upto /\ log[i] \in Users
      BY <2>2, <1>1, <1>5
    <3>2. i \in lost \/ \E k \in DOMAIN table : table[k].origin = i
      BY <3>1 DEF IInv, Kept
    <3> QED
      BY <3>2, <1>1, <1>3
  <2> QED
    BY <2>1, <2>2
<1>6. ASSUME NEW k \in DOMAIN table', table'[k].origin # 0
      PROVE  table'[k].origin \in 1..Len(log') /\ table'[k].user = log'[table'[k].origin]
  <2>1. CASE k = Len(table) + 1
    BY <2>1, <1>1, <1>2, <1>3
  <2>2. CASE k # Len(table) + 1
    <3>1. k \in DOMAIN table /\ table'[k] = table[k]
      BY <2>2, <1>3
    <3> QED
      BY <3>1, <1>1, <1>6 DEF IInv, Kept
  <2> QED
    BY <2>1, <2>2
<1> QED
  BY <1>4, <1>5, <1>6 DEF IInv, Kept

LEMMA PassKeeps == IInv /\ Pass => IInv'
<1> SUFFICES ASSUME IInv, Pass PROVE IInv'
  OBVIOUS
<1>1. /\ upto \in Nat /\ upto' = upto + 1 /\ upto' \in 1..Len(log) /\ log' = log
      /\ table' = table /\ lost' = lost /\ log[upto'] \notin Users
  BY DEF Pass, Advance, IInv, Types
<1>2. \A i \in 1..upto' : i = upto' \/ i \in 1..upto
  BY <1>1
<1> QED
  BY <1>1, <1>2 DEF IInv, Types, Kept

LEMMA LoseKeeps == IInv /\ Lose => IInv'
<1> SUFFICES ASSUME IInv, Lose PROVE IInv'
  OBVIOUS
<1>1. /\ upto \in Nat /\ upto' = upto + 1 /\ upto' \in 1..Len(log) /\ log' = log
      /\ table' = table /\ lost' = lost \cup {upto'}
  BY DEF Lose, Advance, IInv, Types
<1>2. \A i \in 1..upto' : i = upto' \/ i \in 1..upto
  BY <1>1
<1> QED
  BY <1>1, <1>2 DEF IInv, Types, Kept

LEMMA SetBackKeeps == IInv /\ SetBack => IInv'
<1> SUFFICES ASSUME IInv, SetBack PROVE IInv'
  OBVIOUS
<1>1. \A i \in 1..upto' : i \in 1..upto
  BY DEF SetBack, IInv, Types
<1>2. upto' \in 0..Len(log)
  BY DEF SetBack, IInv, Types
<1> QED
  BY <1>1, <1>2 DEF SetBack, IInv, Types, Kept

LEMMA EmitKeeps == IInv /\ Emit => IInv'
<1> SUFFICES ASSUME IInv, Emit PROVE IInv'
  OBVIOUS
<1>1. PICK u \in Users : table' = Append(table, Unread(u, 0))
  BY DEF Emit
<1>2. Unread(u, 0) \in Row /\ Unread(u, 0).origin = 0
  BY DEF Unread, Row
<1>3. /\ table' \in Seq(Row) /\ DOMAIN table = 1..Len(table) /\ Len(table) \in Nat
      /\ DOMAIN table' = 1..(Len(table) + 1)
      /\ \A k \in DOMAIN table : table'[k] = table[k]
      /\ table'[Len(table) + 1].origin = 0
  BY <1>1, <1>2, AppendedRow DEF IInv, Types
<1>4. \A k \in DOMAIN table' : k \in DOMAIN table \/ k = Len(table) + 1
  BY <1>3
<1>5. DOMAIN table \subseteq DOMAIN table'
  BY <1>3
<1> QED
  BY <1>3, <1>4, <1>5 DEF Emit, IInv, Types, Kept

LEMMA MarkReadKeeps == IInv /\ MarkRead => IInv'
<1> SUFFICES ASSUME IInv, MarkRead PROVE IInv'
  OBVIOUS
<1>1. PICK S \in SUBSET DOMAIN table : table' = AsRead(S)
  BY DEF MarkRead
<1>3. /\ table' \in Seq(Row) /\ DOMAIN table' = DOMAIN table
      /\ \A k \in DOMAIN table : /\ table'[k].user = table[k].user
                                 /\ table'[k].origin = table[k].origin
  BY <1>1, MarkedRows DEF IInv
<1> QED
  BY <1>3 DEF MarkRead, IInv, Types, Kept

LEMMA NextKeeps == IInv /\ [Next]_vars => IInv'
<1> SUFFICES ASSUME IInv, [Next]_vars PROVE IInv'
  OBVIOUS
<1>1. CASE Publish
  BY <1>1, PublishKeeps
<1>2. CASE Take
  BY <1>2, DeliverKeeps, PassKeeps, LoseKeeps DEF Take
<1>3. CASE SetBack
  BY <1>3, SetBackKeeps
<1>4. CASE Emit
  BY <1>4, EmitKeeps
<1>5. CASE MarkRead
  BY <1>5, MarkReadKeeps
<1>6. CASE UNCHANGED vars
  BY <1>6 DEF vars, IInv, Types, Kept
<1> QED
  BY <1>1, <1>2, <1>3, <1>4, <1>5, <1>6 DEF Next

\* Whoever goes through the log, loses notices and is set back: what was passed
\* is in its addressee's table or on record as lost (the promise that the
\* consumer of the notification service makes to the publishers of events).
THEOREM InboxKeeps == Spec => []Kept
<1>1. Init => IInv
  BY InitKeeps
<1>2. IInv /\ [Next]_vars => IInv'
  BY NextKeeps
<1>3. IInv => Kept
  BY DEF IInv
<1> QED
  BY <1>1, <1>2, <1>3, PTL DEF Spec

====
