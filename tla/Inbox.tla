---- MODULE Inbox ----
(***************************************************************************)
(* What the notification service promises the publishers of events and the *)
(* people it notifies, without sockets, coroutines and offsets: a reader   *)
(* goes through the log; each notice in it becomes a row of the table of   *)
(* notifications, or is lost to a fault that is on record; the reader may  *)
(* be set back, and then stores again what it stored before; a row stays   *)
(* what it is, except that its owner may mark it as read.                  *)
(***************************************************************************)
EXTENDS Naturals, Sequences

CONSTANTS
    Users,    \* an entry of the log that is a user is a notice for that user
    Others    \* the entries of the log that notify nobody

VARIABLES
    log,      \* what was published
    upto,     \* how far the reader is
    table,    \* the notifications
    lost      \* positions of notices that a fault took away

vars == <<log, upto, table, lost>>

Unread(u, origin) == [user |-> u, origin |-> origin, read |-> FALSE]
AsRead(S) == [k \in DOMAIN table |-> IF k \in S THEN [table[k] EXCEPT !.read = TRUE]
                                                ELSE table[k]]

Init == log = <<>> /\ upto = 0 /\ table = <<>> /\ lost = {}

Publish ==
    /\ \E e \in Users \cup Others : log' = Append(log, e)
    /\ UNCHANGED <<upto, table, lost>>

Advance == upto < Len(log) /\ upto' = upto + 1 /\ UNCHANGED log

Deliver ==
    /\ Advance
    /\ log[upto'] \in Users
    /\ table' = Append(table, Unread(log[upto'], upto'))
    /\ UNCHANGED lost

Pass ==
    /\ Advance
    /\ log[upto'] \notin Users
    /\ UNCHANGED <<table, lost>>

Lose ==
    /\ Advance
    /\ log[upto'] \in Users
    /\ lost' = lost \cup {upto'}
    /\ UNCHANGED table

SetBack ==
    /\ upto' \in 0..upto
    /\ UNCHANGED <<log, table, lost>>

\* A notice that did not come through the log has origin 0.
Emit ==
    /\ \E u \in Users : table' = Append(table, Unread(u, 0))
    /\ UNCHANGED <<log, upto, lost>>

MarkRead ==
    /\ \E u \in Users : \E S \in SUBSET {k \in DOMAIN table : table[k].user = u} :
          table' = AsRead(S)
    /\ UNCHANGED <<log, upto, lost>>

Take == Deliver \/ Pass \/ Lose
Next == Publish \/ Take \/ SetBack \/ Emit \/ MarkRead

Spec == Init /\ [][Next]_vars
FairSpec == Spec /\ WF_vars(Take)

-----------------------------------------------------------------------------
\* Whatever the reader has passed is in the table of the person it is for, or is
\* on record as lost; and no row claims a notice that was for somebody else.
Kept ==
    /\ \A i \in 1..upto : log[i] \in Users =>
          i \in lost \/ \E k \in DOMAIN table : table[k].origin = i
    /\ \A k \in DOMAIN table : table[k].origin # 0 =>
          table[k].origin \in 1..Len(log) /\ table[k].user = log[table[k].origin]

====
