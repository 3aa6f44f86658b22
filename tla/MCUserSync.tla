---- MODULE MCUserSync ----
(* Instances of UserSync for TLC. *)
EXTENDS UserSync, TLC

CONSTANTS w1, w2

Symmetry == Permutations({w1, w2} \cap Workers)

\* The topic names the account first when it is registered.
AnnouncedFirst(u) ==
    \E i \in 1..Len(log) :
        /\ log[i].id = u /\ log[i].type = "user_created"
        /\ \A j \in 1..(i - 1) : log[j].id # u

\* "Local user copy is created by Kafka consumer on registration and kept fresh
\* by Kafka user_updated events" (thread_service dependencies.py): with no
\* handler under way and every event taken, the copy of an account whose
\* registration was announced before anything else about it is the account.
UpdatesKeepCopiesFresh ==
    Quiet => \A s \in Services, u \in Ids :
                CaughtUp(s) /\ Exists(u) /\ AnnouncedFirst(u) => copy[s][u] = users[u]

====
