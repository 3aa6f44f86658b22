---- MODULE MCDoor ----
(* Instances of Door for TLC. *)
EXTENDS Door, TLC

MCLimit == [b \in Buckets |-> 1]
Symmetry == Permutations(Handlers) \cup Permutations(Tokens)

====
