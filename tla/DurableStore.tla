---------------------------- MODULE DurableStore ----------------------------
(***************************************************************************)
(* What the files of a node's raft store promise to the elections and the  *)
(* replication above them: what was written survives every death of the    *)
(* process, and no event is logged twice.  A start is no step at all: it   *)
(* finds the state as the last write left it.                              *)
(***************************************************************************)
EXTENDS Naturals

CONSTANTS Event, HardState

VARIABLES
    hard,    \* the term and the vote
    index,   \* the index of the last log entry
    logged,  \* the ids of the events that were logged
    spoilt   \* those whose line a torn write before it has spoilt

dvars == <<hard, index, logged, spoilt>>

Init == hard \in HardState /\ index = 0 /\ logged = {} /\ spoilt = {}

SetState ==
    /\ hard' \in HardState /\ hard'.current_term >= hard.current_term
    /\ UNCHANGED <<index, logged, spoilt>>

\* Any entry takes the next index, one that carries an event only if it is new.
LogEntry == index' = index + 1 /\ UNCHANGED <<hard, logged, spoilt>>

LogEvent(e) ==
    /\ e \notin logged \cup spoilt
    /\ index' = index + 1
    /\ logged' = logged \cup {e}
    /\ UNCHANGED <<hard, spoilt>>

(***************************************************************************)
(* A torn line spoils the next one, and the event on it is known only      *)
(* until the process dies: one event at most, unless a snapshot saves it.  *)
(***************************************************************************)
SpoilEvent(e) ==
    /\ e \notin logged /\ spoilt = {}
    /\ spoilt' = {e}
    /\ UNCHANGED <<hard, index, logged>>

SaveEvent ==
    /\ spoilt # {} /\ spoilt' = {}
    /\ logged' = logged \cup spoilt
    /\ UNCHANGED <<hard, index>>

LoseEvent == spoilt # {} /\ spoilt' = {} /\ UNCHANGED <<hard, index, logged>>

Next ==
    \/ SetState \/ LogEntry \/ SaveEvent \/ LoseEvent
    \/ \E e \in Event : LogEvent(e) \/ SpoilEvent(e)

Spec == Init /\ [][Next]_dvars
=============================================================================
