---------------------------- MODULE MCRaftStore ----------------------------
(* A store that votes for one candidate and logs up to two events.       *)
EXTENDS RaftStore

TwoEvents == 1 .. 2
=============================================================================
