----------------------------- MODULE RaftStore -----------------------------
(***************************************************************************)
(* RaftMetadataStore (src/cluster/raft-store.ts), the durable side of one  *)
(* node: a state file and a snapshot file, each replaced by a rename, and  *)
(* a log of one JSON line per entry.  The process may die between any two  *)
(* writes, and in the middle of a line.                                    *)
(*                                                                         *)
(* commit_index and last_applied always equal last_log_index, leader_id is *)
(* kept like the vote, and last_log_term is read by nobody: they are left  *)
(* out.  So are the branches for a directory that was deleted (ENOENT).    *)
(***************************************************************************)
EXTENDS Naturals, FiniteSets, Sequences, Functions

CONSTANTS
    Candidate,      \* the nodes one may vote for
    None,           \* null
    Event,          \* the cluster events, as numbers in the order of their versions
    MaxLogEntries,  \* config.max_log_entries
    MaxTerm,        \* bound: the greatest term
    MaxIndex        \* bound: the greatest log index

ASSUME CandidateAssumption == None \notin Candidate
ASSUME EventAssumption == Event \subseteq Nat /\ IsFiniteSet(Event) /\ None \notin Event
ASSUME BoundsAssumption == MaxLogEntries \in Nat /\ MaxTerm \in Nat /\ MaxIndex \in Nat

VARIABLES
    stateFile,      \* raft-state.json
    logFile,        \* raft-log.ndjson, a sequence of lines
    tornTail,       \* whether its last line has no end
    snapshotFile,   \* raft-snapshot.json
    state, knownEventIds, snapshot,  \* the fields of the object in memory
    batch,          \* the events appendClusterEvents has still to log, in their order
    pc              \* the write that is due next

files == <<stateFile, logFile, tornTail, snapshotFile>>
memory == <<state, knownEventIds, snapshot, batch>>
vars == <<files, memory, pc>>

DurableState == [current_term : 0 .. MaxTerm, voted_for : Candidate \cup {None},
                 last_log_index : 0 .. MaxIndex]
NewState == [current_term |-> 0, voted_for |-> None, last_log_index |-> 0]

Snapshot == [last_included_index : 0 .. MaxIndex, known_event_ids : SUBSET Event]
NoSnapshot == [last_included_index |-> 0, known_event_ids |-> {}]

(***************************************************************************)
(* A line is an entry, of an event or of another kind (elections, members, *)
(* starts and stops).  One that does not parse counts as index 0: both     *)
(* readers of the log treat the two alike.                                 *)
(***************************************************************************)
Line == [index : 0 .. MaxIndex, event_id : Event \cup {None}]
Malformed == [index |-> 0, event_id |-> None]

EventsOf(log) == {line.event_id : line \in Range(log)} \ {None}
IndexesOf(log) == {line.index : line \in Range(log)}

-----------------------------------------------------------------------------
(***************************************************************************)
(* What the constructor makes of the files, whenever it runs: each of      *)
(* loadOrCreateState, loadSnapshot and rebuildFromLog only adds to what    *)
(* the one before it found.                                                *)
(***************************************************************************)
Greatest(S) == CHOOSE n \in S : \A m \in S : n >= m

RecoveredIndex ==
    Greatest({stateFile.last_log_index, snapshotFile.last_included_index} \cup IndexesOf(logFile))

RecoveredState == [stateFile EXCEPT !.last_log_index = RecoveredIndex]

RecoveredEvents == snapshotFile.known_event_ids \cup EventsOf(logFile)

Init ==
    /\ stateFile = NewState /\ logFile = <<>> /\ tornTail = FALSE /\ snapshotFile = NoSnapshot
    /\ state = NewState /\ knownEventIds = {} /\ snapshot = NoSnapshot /\ batch = {}
    /\ pc = "down"

Idle == pc = "ready" /\ batch = {}

\* initializeRaftStore: the constructor, which ends by persisting what it found
Start ==
    /\ pc = "down" /\ pc' = "ready"
    /\ state' = RecoveredState
    /\ stateFile' = RecoveredState
    /\ knownEventIds' = RecoveredEvents
    /\ snapshot' = snapshotFile
    /\ UNCHANGED <<logFile, tornTail, snapshotFile, batch>>

\* The process dies, or stop() lets go of the store.
Forget == state' = NewState /\ knownEventIds' = {} /\ snapshot' = NoSnapshot /\ batch' = {}

Die ==
    /\ pc # "down" /\ pc' = "down"
    /\ Forget
    /\ UNCHANGED files

\* persistRaftState, after a step of an election or a heartbeat
SetState(term, vote) ==
    /\ Idle
    /\ term >= state.current_term
    /\ state' = [state EXCEPT !.current_term = term, !.voted_for = vote]
    /\ stateFile' = state'
    /\ UNCHANGED <<logFile, tornTail, snapshotFile, knownEventIds, snapshot, batch, pc>>

(***************************************************************************)
(* appendEntry: first the line, then the state.  After a torn line the new *)
(* entry becomes the rest of that line, which does not parse.              *)
(***************************************************************************)
WithLine(line) == IF tornTail THEN logFile ELSE Append(logFile, line)

FaultyNextIndex == Len(logFile) + 1     \* counts the lines: starts over after compaction
NextIndex == state.last_log_index + 1

AppendLine(event) ==
    /\ state.last_log_index < MaxIndex
    /\ logFile' = WithLine([index |-> NextIndex, event_id |-> event])
    /\ tornTail' = FALSE
    /\ knownEventIds' = knownEventIds \cup ({event} \ {None})
    /\ state' = [state EXCEPT !.last_log_index = NextIndex]
    /\ pc' = "appended"
    /\ UNCHANGED <<stateFile, snapshotFile, snapshot>>

\* an entry of an election, a member, a start or a stop
AppendEntry == Idle /\ AppendLine(None) /\ UNCHANGED batch

IsNew(event) == event \notin knownEventIds

\* at the end of a sync, with whatever events the database holds by then
AppendClusterEvents(events) ==
    /\ Idle
    /\ batch' = {e \in events : IsNew(e)}
    /\ UNCHANGED <<files, state, knownEventIds, snapshot, pc>>

AppendNextEvent ==
    /\ pc = "ready"
    /\ \E first \in batch :
          /\ \A e \in batch : first <= e
          /\ AppendLine(first)
          /\ batch' = batch \ {first}

PersistState ==
    /\ pc = "appended" /\ pc' = "ready"
    /\ stateFile' = state
    /\ UNCHANGED <<logFile, tornTail, snapshotFile, memory>>

\* The process dies half way through a line, of whatever entry.
DieInAppend ==
    /\ pc = "ready" /\ pc' = "down"
    /\ logFile' = WithLine(Malformed)
    /\ Len(logFile') <= MaxIndex
    /\ tornTail' = TRUE
    /\ Forget
    /\ UNCHANGED <<stateFile, snapshotFile>>

(***************************************************************************)
(* maybeCompact: above the threshold, createSnapshot and then compactLog.  *)
(***************************************************************************)
FaultyTaken ==      \* forgets what an earlier snapshot knew
    [last_included_index |-> state.last_log_index, known_event_ids |-> EventsOf(logFile)]
Taken == [last_included_index |-> state.last_log_index, known_event_ids |-> knownEventIds]

CreateSnapshot ==
    /\ Idle /\ Len(logFile) > MaxLogEntries
    /\ pc' = "snapshotted"
    /\ snapshot' = Taken
    /\ snapshotFile' = Taken
    /\ UNCHANGED <<stateFile, logFile, tornTail, state, knownEventIds, batch>>

\* the one sequence of the numbers of S that grows
InOrder(S) ==
    {order \in [1 .. Cardinality(S) -> S] : \A i, j \in DOMAIN order : i < j => order[i] < order[j]}

CompactLog ==
    /\ pc = "snapshotted" /\ pc' = "ready"
    /\ \E kept \in InOrder({i \in DOMAIN logFile : logFile[i].index > snapshot.last_included_index}) :
          logFile' = [i \in DOMAIN kept |-> logFile[kept[i]]]
    /\ tornTail' = FALSE
    /\ UNCHANGED <<stateFile, snapshotFile, memory>>

Next ==
    \/ Start \/ Die
    \/ \E term \in 0 .. MaxTerm, vote \in Candidate \cup {None} : SetState(term, vote)
    \/ AppendEntry
    \/ \E events \in SUBSET Event : AppendClusterEvents(events)
    \/ AppendNextEvent \/ PersistState \/ DieInAppend
    \/ CreateSnapshot \/ CompactLog

Spec == Init /\ [][Next]_vars

-----------------------------------------------------------------------------
(***************************************************************************)
(* Properties                                                              *)
(***************************************************************************)

\* Every variable has its type; a torn tail is the last line of the log.
TypeOK ==
    /\ stateFile \in DurableState /\ state \in DurableState
    /\ logFile \in Seq(Line)
    /\ tornTail \in BOOLEAN /\ (tornTail => logFile # <<>> /\ logFile[Len(logFile)] = Malformed)
    /\ snapshotFile \in Snapshot /\ snapshot \in Snapshot
    /\ knownEventIds \subseteq Event
    /\ batch \subseteq Event
    /\ pc \in {"down", "ready", "appended", "snapshotted"}

(***************************************************************************)
(* Whenever the node may answer a request, a death at that moment would    *)
(* lose neither its term nor its vote nor its place in the log: this is    *)
(* what HiveElection takes for granted of raftStore.                       *)
(***************************************************************************)
AnswersAreDurable == pc = "ready" => state = RecoveredState

(***************************************************************************)
(* An index names one entry: those of the log grow from line to line, over *)
(* deaths, torn lines and compactions.                                     *)
(***************************************************************************)
IndexesGrow ==
    \A i, j \in DOMAIN logFile :
        i < j /\ logFile[i] # Malformed /\ logFile[j] # Malformed =>
            logFile[i].index < logFile[j].index

(***************************************************************************)
(* An event has one line, and none once a snapshot knows it: not after a   *)
(* death between its line and the state, nor after its line was compacted. *)
(***************************************************************************)
EventsAreLoggedOnce ==
    \A i \in DOMAIN logFile : logFile[i].event_id # None =>
        /\ \A j \in DOMAIN logFile : logFile[j].event_id = logFile[i].event_id => i = j
        /\ logFile[i].event_id \in snapshotFile.known_event_ids =>
              logFile[i].index <= snapshotFile.last_included_index

(***************************************************************************)
(* The store implements DurableStore: its files, as a start would read     *)
(* them, never lose a term, a vote, an index or an event, whatever is      *)
(* compacted; a torn line costs the event on the line after it, at most.   *)
(***************************************************************************)
Durable == INSTANCE DurableStore WITH
    HardState <- [current_term : 0 .. MaxTerm, voted_for : Candidate \cup {None}],
    hard <- [current_term |-> stateFile.current_term, voted_for |-> stateFile.voted_for],
    index <- RecoveredIndex,
    logged <- snapshotFile.known_event_ids \cup EventsOf(logFile),
    spoilt <- knownEventIds \ (snapshotFile.known_event_ids \cup EventsOf(logFile))

ImplementsDurableStore == Durable!Spec
=============================================================================
