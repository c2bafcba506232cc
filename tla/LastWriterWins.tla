--------------------------- MODULE LastWriterWins ---------------------------
(***************************************************************************)
(* What the replication of src/cluster promises of the replicated tables:  *)
(* every node holds a growing set of stamped events, writes get stamps     *)
(* newer than all the writer has seen, and a row is what the newest event  *)
(* about it says.  Nodes that have seen the same events hold the same      *)
(* rows, in whatever order the events came.                                *)
(***************************************************************************)
EXTENDS Integers

CONSTANTS Node, Key, Absent

VARIABLES
    seen,       \* the events each node knows of
    register    \* the rows that follow from them

(***************************************************************************)
(* compareVersion: by time, then by actor, then by the actor's counter.    *)
(***************************************************************************)
Older(e, f) ==
    \/ e.ts < f.ts
    \/ e.ts = f.ts /\ e.actor < f.actor
    \/ e.ts = f.ts /\ e.actor = f.actor /\ e.counter < f.counter

Newest(S, e) == e \in S /\ \A f \in S \ {e} : Older(f, e)

About(S, k) == {e \in S : e.key = k}

ValueFrom(S, k) ==
    IF About(S, k) = {} THEN Absent
    ELSE (CHOOSE e \in About(S, k) : Newest(About(S, k), e)).value

Follows(n) == register'[n] = [k \in Key |-> ValueFrom(seen'[n], k)]

Init ==
    /\ seen = [n \in Node |-> {}]
    /\ register = [n \in Node |-> [k \in Key |-> Absent]]

\* n writes: the new events are its own, and newer than what it has seen
Write(n, new) ==
    /\ \A e \in new : e.actor = n /\ \A f \in seen[n] : Older(f, e)
    /\ seen' = [seen EXCEPT ![n] = @ \cup new]

\* n receives events that other nodes have
Receive(n, new) ==
    /\ \A e \in new : \E p \in Node : e \in seen[p]
    /\ seen' = [seen EXCEPT ![n] = @ \cup new]

Next ==
    \E n \in Node :
        /\ Write(n, seen'[n] \ seen[n]) \/ Receive(n, seen'[n] \ seen[n])
        /\ Follows(n)
        /\ \A p \in Node \ {n} : register'[p] = register[p]

Spec == Init /\ [][Next]_<<seen, register>>
=============================================================================
