---------------------------- MODULE MCAssignment ----------------------------
(* Instances of Assignment for TLC. *)
EXTENDS Assignment, TLC

CONSTANTS s1, s2, s3

TwoStories == {s1, s2}
ThreeStories == {s1, s2, s3}
NoneLater == {}
SecondLater == {s2}
Chain == {<<s2, s1>>}
Unrelated == {}
JuniorWork == [s \in Story |-> IF s = s1 THEN "junior" ELSE "intermediate"]
SeniorWork == [s \in Story |-> "senior"]

=============================================================================
