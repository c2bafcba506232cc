--------------------------- MODULE HiveMembership ---------------------------
(***************************************************************************)
(* Joining and leaving a running cluster, on top of its elections: `hive   *)
(* cluster join' and the membership endpoints of ClusterHttpServer, which  *)
(* change the leader's peer list; heartbeats carry the list to the others. *)
(*                                                                         *)
(* Only a leader changes its list.  Another node answers a join with 307   *)
(* and a leave with 400, which fetchClusterStatusOrPostJson turns into     *)
(* null: the command reports a failure, and nothing has changed.  So it is *)
(* with every `hive cluster leave', which asks the node itself.            *)
(***************************************************************************)
EXTENDS HiveElection

CONSTANTS
    Joiner,     \* the nodes whose operators run `hive cluster join'
    Leaver      \* the nodes some client posts a leave for

ASSUME MembersAssumption == Joiner \subseteq Node /\ Leaver \subseteq Node

\* The durable entry of the change, which nobody reads, is left out.
WithPeers(n, list) ==
    /\ peers' = [peers EXCEPT ![n] = list]
    /\ UNCHANGED <<raftVars, isCatchingUp, ballot, raftStore, raftLog, msgs>>

\* A join of a listed node changes its URL only.
HandleMembershipJoin(n, joiner) ==
    /\ role[n] = "leader" /\ joiner # n
    /\ WithPeers(n, peers[n] \cup {joiner})

\* `hive cluster join' with the URL of n, again and again if need be: after
\* each restart of n its list is forgotten.
Join(n, joiner) == joiner \in Joiner /\ HandleMembershipJoin(n, joiner)

HandleMembershipLeave(n, leaver) ==
    /\ role[n] = "leader"
    /\ leaver \in (Leaver \cap peers[n]) \ {n}
    /\ WithPeers(n, peers[n] \ {leaver})

MemberNext ==
    \/ Next
    \/ \E n, m \in Node : Join(n, m) \/ HandleMembershipLeave(n, m)

\* The fairness of HiveElection; joins and leaves need not happen, and end.
MemberSpec == Init /\ [][MemberNext]_vars /\ Fairness /\ <>[][Next]_vars

-----------------------------------------------------------------------------
(***************************************************************************)
(* A node that a leader lists ends up as its follower, even if it led a    *)
(* cluster of its own in the same term, unless that leader is deposed or   *)
(* the node is taken off the list: a join is heard of without any message  *)
(* to the node but the leader's heartbeats.                                *)
(***************************************************************************)
MembersFollow ==
    \A n, p \in Node : n # p =>
        (role[p] = "leader" /\ n \in peers[p])
            ~> (role[p] # "leader" \/ n \notin peers[p] \/ leaderId[n] = p)

=============================================================================
