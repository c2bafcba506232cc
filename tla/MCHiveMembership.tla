-------------------------- MODULE MCHiveMembership --------------------------
(* A node that is a cluster of its own, and one configured to know of it.  *)
EXTENDS HiveMembership, TLC

FounderAndNewcomer == (1 :> {}) @@ (2 :> {1})
=============================================================================
