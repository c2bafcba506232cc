--------------------------- MODULE MCHiveElection ---------------------------
(* Instances of HiveElection for TLC: a cluster whose config files list     *)
(* every other node, as in README.md and the integration tests.             *)
EXTENDS HiveElection

EveryOtherNode == [n \in Node |-> Node \ {n}]
=============================================================================
