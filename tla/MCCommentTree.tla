---- MODULE MCCommentTree ----
(* Instances of CommentTree for TLC. *)
EXTENDS CommentTree, TLC

CONSTANTS w1, w2, ann, mod, adm

Symmetry == Permutations({w1, w2} \cap Workers)

\* The first thread belongs to ann, any other one to mod.
OwnerOf == [t \in Threads |-> IF t = 1 THEN ann ELSE mod]

\* A text may have ann's name in it.
NamedIn == [text \in Contents |-> IF text = "@ann" THEN {ann} ELSE {}]

====
