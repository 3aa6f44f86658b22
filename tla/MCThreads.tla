---- MODULE MCThreads ----
(* Instances of Threads for TLC. *)
EXTENDS Threads, TLC

CONSTANTS w1, w2, bob, adm

Symmetry == Permutations({w1, w2} \cap Workers)

\* Every community is bob's.
Bobs == [c \in Communities |-> bob]

\* A title, tags that may be cleared, a thread that may be closed.
TextValues == [title |-> {"a"}, tags |-> {"", "x"}, status |-> {"open", "closed"}]

====
