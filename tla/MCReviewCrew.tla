---------------------------- MODULE MCReviewCrew ----------------------------
(* Instances of ReviewCrew for TLC. *)
EXTENDS ReviewCrew

OneStory == [g \in Pr |-> CHOOSE s \in Story : TRUE]

Independent == {}

OfEach == [g \in Pr |-> IF g = 1 THEN "s1" ELSE "s2"]
=============================================================================
