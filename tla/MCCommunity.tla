---- MODULE MCCommunity ----
(* Instances of Community for TLC. *)
EXTENDS Community, TLC

CONSTANTS w1, w2

Symmetry == Permutations({w1, w2} \cap Workers)

\* Two names with the same slug, and one that reads as an id.
AllSlugs == [Club |-> "club", club |-> "club", Two |-> "2"]
SlugsOfNames == [n \in Names |-> AllSlugs[n]]
Numbers == "1" :> 1 @@ "2" :> 2

====
