---------------------------- MODULE MCReplication ----------------------------
(* Instances of Replication for TLC. *)
EXTENDS Replication

EveryOtherNode == [n \in Node |-> Node \ {n}]
NoDuplicates == [k \in Key |-> k]
TwoIsADuplicate == [k \in Key |-> 1]
AnyNode == [k \in Key |-> Node]
NodeOfSameNumber == [k \in Key |-> Node \cap {k}]
SameClock == [n \in Node |-> 0]
FirstAhead == [n \in Node |-> IF n = 1 THEN 2 ELSE 0]
=============================================================================
