---------------------------- MODULE MCMergeQueue ----------------------------
(* Instances of MergeQueue for TLC. *)
EXTENDS MergeQueue

OneStory == [g \in Pr |-> CHOOSE s \in Story : TRUE]

Independent == {}
=============================================================================
