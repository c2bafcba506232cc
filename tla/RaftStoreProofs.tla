-------------------------- MODULE RaftStoreProofs --------------------------
(***************************************************************************)
(* Proofs about RaftStore, for any candidates, events and bounds.          *)
(*                                                                         *)
(* The invariant says how the memory of a running node and its files       *)
(* differ at each write: MemoryInv for the state and the log's indexes,    *)
(* EventsInv for the events.                                               *)
(***************************************************************************)
EXTENDS RaftStore, FiniteSetTheorems, SequenceTheorems, WellFoundedInduction, TLAPS

Logged == snapshotFile.known_event_ids \cup EventsOf(logFile)

\* The state is ahead of the files by one index at most, and only while the
\* write of the state file is due.
MemoryInv ==
    /\ pc # "down" =>
          /\ snapshot = snapshotFile
          /\ \A i \in DOMAIN logFile : logFile[i].index <= state.last_log_index
          /\ snapshotFile.last_included_index <= state.last_log_index
    /\ pc \in {"ready", "snapshotted"} => stateFile = state
    /\ pc = "appended" =>
          /\ stateFile.current_term = state.current_term /\ stateFile.voted_for = state.voted_for
          /\ state.last_log_index = stateFile.last_log_index + 1
          /\ ~tornTail
          /\ RecoveredIndex \in {stateFile.last_log_index, state.last_log_index}
    /\ pc = "snapshotted" => snapshotFile.last_included_index = state.last_log_index

\* A running node knows every event that is logged; the events it knows beyond
\* them are none as long as the tail is torn, and those still to log are new.
EventsInv ==
    /\ pc # "down" => Logged \subseteq knownEventIds
    /\ pc # "down" /\ tornTail => knownEventIds \subseteq Logged
    /\ pc = "snapshotted" => snapshotFile.known_event_ids = knownEventIds
    /\ pc = "down" => knownEventIds = {} /\ batch = {}
    /\ batch \cap knownEventIds = {}
    /\ pc = "snapshotted" => batch = {}

Inv == TypeOK /\ MemoryInv /\ EventsInv

-----------------------------------------------------------------------------
(* The greatest of some indexes. *)

\* A set of numbers with a bound has a greatest one.
LEMMA GreatestExists ==
  ASSUME NEW n \in Nat, NEW S \in SUBSET (0 .. n), S # {}
  PROVE  Greatest(S) \in S /\ \A m \in S : Greatest(S) >= m
<1> DEFINE T == {k \in 0 .. n : n - k \in S}
<1>0. PICK s \in S : s \in 0 .. n
  OBVIOUS
<1>1. T \subseteq Nat /\ T # {}
  <2>1. n - s \in 0 .. n /\ n - (n - s) = s
    BY <1>0
  <2> QED
    BY <2>1
<1>2. PICK x \in T : \A y \in T : ~(<<y, x>> \in OpToRel(<, Nat))
  <2> HIDE DEF T
  <2> QED
    BY <1>1, WFMin, NatLessThanWellFounded
<1>3. \A y \in T : ~(y < x)
  BY <1>1, <1>2 DEF OpToRel
<1>4. \A k \in S : n - x >= k
  <2> SUFFICES ASSUME NEW k \in S PROVE n - x >= k
    OBVIOUS
  <2>1. n - k \in 0 .. n /\ n - (n - k) = k
    OBVIOUS
  <2>2. n - k \in T
    BY <2>1
  <2>3. ~(n - k < x)
    BY <2>2, <1>3
  <2> QED
    BY <2>1, <2>3
<1>5. n - x \in S
  OBVIOUS
<1> QED
  BY <1>4, <1>5 DEF Greatest


LEMMA GreatestIs ==
  ASSUME NEW S \in SUBSET Nat, NEW m \in S, \A k \in S : m >= k
  PROVE  Greatest(S) = m
<1>1. \A n \in S : (\A k \in S : n >= k) => n = m
  OBVIOUS
<1> QED
  BY <1>1 DEF Greatest

\* What a start chooses the index from: a state file, a snapshot file and a log.
Sources(file, taken, log) == {file.last_log_index, taken.last_included_index} \cup IndexesOf(log)

LEMMA SourcesAre ==
  ASSUME NEW file \in DurableState, NEW taken \in Snapshot, NEW log \in Seq(Line)
  PROVE  /\ Sources(file, taken, log) \in SUBSET (0 .. MaxIndex)
         /\ file.last_log_index \in Sources(file, taken, log)
         /\ taken.last_included_index \in Sources(file, taken, log)
         /\ \A i \in DOMAIN log : log[i].index \in Sources(file, taken, log)
         /\ \A m \in Sources(file, taken, log) :
               \/ m = file.last_log_index \/ m = taken.last_included_index
               \/ \E i \in DOMAIN log : m = log[i].index
<1>1. \A i \in DOMAIN log : log[i] \in Line
  BY ElementOfSeq
<1>2. \A i \in DOMAIN log : log[i].index \in IndexesOf(log)
  BY DEF IndexesOf, Range
<1>3. \A m \in IndexesOf(log) : \E i \in DOMAIN log : m = log[i].index
  BY DEF IndexesOf, Range
<1> QED
  BY <1>1, <1>2, <1>3 DEF Sources, DurableState, Snapshot, Line

\* The index a start finds is one of them and none is greater.
LEMMA RecoveredIndexIs ==
  ASSUME NEW file \in DurableState, NEW taken \in Snapshot, NEW log \in Seq(Line)
  PROVE  /\ Greatest(Sources(file, taken, log)) \in Sources(file, taken, log)
         /\ Greatest(Sources(file, taken, log)) \in 0 .. MaxIndex
         /\ file.last_log_index <= Greatest(Sources(file, taken, log))
         /\ taken.last_included_index <= Greatest(Sources(file, taken, log))
         /\ \A i \in DOMAIN log : log[i].index <= Greatest(Sources(file, taken, log))
<1> DEFINE S == Sources(file, taken, log)
<1>1. S \in SUBSET (0 .. MaxIndex) /\ S # {}
  BY SourcesAre
<1>2. Greatest(S) \in S /\ \A m \in S : Greatest(S) >= m
  <2> HIDE DEF S
  <2> QED
    BY <1>1, GreatestExists, BoundsAssumption
<1> QED
  BY <1>1, <1>2, SourcesAre

\* An index that is one of them and that none exceeds is the one it finds.
LEMMA RecoveredIndexIsGreatest ==
  ASSUME NEW file \in DurableState, NEW taken \in Snapshot, NEW log \in Seq(Line),
         NEW m \in Sources(file, taken, log),
         file.last_log_index <= m, taken.last_included_index <= m,
         \A i \in DOMAIN log : log[i].index <= m
  PROVE  Greatest(Sources(file, taken, log)) = m
<1> DEFINE S == Sources(file, taken, log)
<1>1. S \in SUBSET Nat
  BY SourcesAre
<1>2. \A k \in S : m >= k
  BY SourcesAre, <1>1
<1> QED
  BY <1>1, <1>2, GreatestIs

-----------------------------------------------------------------------------
(* The log. *)

\* A line that is appended, or that a torn one swallows
LEMMA WithLineIs ==
  ASSUME TypeOK, NEW line \in Line
  PROVE  /\ WithLine(line) \in Seq(Line)
         /\ tornTail => WithLine(line) = logFile
         /\ ~tornTail =>
               /\ DOMAIN WithLine(line) = 1 .. Len(logFile) + 1
               /\ \A i \in DOMAIN logFile : WithLine(line)[i] = logFile[i]
               /\ WithLine(line)[Len(logFile) + 1] = line
BY AppendProperties DEF WithLine, TypeOK

\* Appending a line adds its index and its event.
LEMMA EventsWithLine ==
  ASSUME TypeOK, ~tornTail, NEW line \in Line
  PROVE  EventsOf(WithLine(line)) = EventsOf(logFile) \cup ({line.event_id} \ {None})
<1>1. DOMAIN logFile = 1 .. Len(logFile) /\ Len(logFile) \in Nat
  BY DEF TypeOK
<1>2. Range(WithLine(line)) = Range(logFile) \cup {line}
  BY <1>1, WithLineIs DEF Range
<1> QED
  BY <1>2 DEF EventsOf

\* Nothing is kept of a log whose lines the snapshot covers.
LEMMA NothingKept ==
  ASSUME NEW log, NEW S, S = {}, NEW kept \in InOrder(S)
  PROVE  [i \in DOMAIN kept |-> log[kept[i]]] = <<>>
<1>1. DOMAIN kept = {}
  BY FS_EmptySet DEF InOrder
<1> QED
  BY <1>1

-----------------------------------------------------------------------------
(* The invariant. *)

\* The state a start recovers has the type of a state.
LEMMA RecoveredStateType ==
  ASSUME TypeOK
  PROVE  /\ RecoveredIndex \in 0 .. MaxIndex /\ RecoveredState \in DurableState
         /\ RecoveredEvents \subseteq Event
<1>1. RecoveredIndex \in 0 .. MaxIndex
  BY RecoveredIndexIs DEF RecoveredIndex, Sources, TypeOK
<1>2. RecoveredEvents \subseteq Event
  <2>1. \A line \in Range(logFile) : line.event_id \in Event \cup {None}
    <3>1. Range(logFile) \subseteq Line
      BY RangeOfSeq DEF TypeOK
    <3> QED
      BY <3>1 DEF Line
  <2> QED
    BY <2>1 DEF RecoveredEvents, EventsOf, TypeOK, Snapshot
<1> QED
  BY <1>1, <1>2 DEF RecoveredState, DurableState, TypeOK

LEMMA InitInv == Init => Inv
<1> SUFFICES ASSUME Init PROVE Inv
  OBVIOUS
<1>1. Logged = {}
  BY DEF Logged, EventsOf, Range, Init, NoSnapshot
<1>2. TypeOK
  <2>1. NewState \in DurableState
    BY BoundsAssumption DEF DurableState, NewState
  <2>2. NoSnapshot \in Snapshot
    BY BoundsAssumption DEF Snapshot, NoSnapshot
  <2> QED
    BY <2>1, <2>2, EmptySeq DEF TypeOK, Init
<1>3. MemoryInv
  BY DEF MemoryInv, Init
<1>4. EventsInv
  BY <1>1 DEF EventsInv, Init
<1> QED
  BY <1>2, <1>3, <1>4 DEF Inv

\* Every line is older than the snapshot by then, so a compaction empties the log.
LEMMA CompactLogEmpties ==
  ASSUME Inv, CompactLog
  PROVE  logFile' = <<>>
<1> DEFINE S == {i \in DOMAIN logFile : logFile[i].index > snapshot.last_included_index}
<1>1. S = {}
  <2>1. \A i \in DOMAIN logFile : logFile[i] \in Line
    BY ElementOfSeq DEF Inv, TypeOK
  <2> QED
    BY <2>1 DEF CompactLog, Inv, MemoryInv, TypeOK, Line, Snapshot, DurableState
<1>2. PICK kept \in InOrder(S) : logFile' = [i \in DOMAIN kept |-> logFile[kept[i]]]
  BY DEF CompactLog
<1> QED
  BY <1>1, <1>2, NothingKept

\* Every step keeps the types.
LEMMA TypeStep == Inv /\ [Next]_vars => TypeOK'
<1> SUFFICES ASSUME Inv, [Next]_vars PROVE TypeOK'
  OBVIOUS
<1> USE BoundsAssumption DEF Inv, files, memory
<1>1. CASE UNCHANGED vars
  BY <1>1 DEF vars, TypeOK
<1>2. CASE Start
  BY <1>2, RecoveredStateType DEF Start, TypeOK
<1>3. CASE Die
  BY <1>3 DEF Die, Forget, TypeOK, NewState, NoSnapshot, DurableState, Snapshot
<1>4. ASSUME NEW term \in 0 .. MaxTerm, NEW vote \in Candidate \cup {None}, SetState(term, vote)
      PROVE  TypeOK'
  BY <1>4 DEF SetState, TypeOK, DurableState
<1>5. ASSUME NEW event \in Event \cup {None}, AppendLine(event), batch' \subseteq batch
      PROVE  TypeOK'
  <2>1. NextIndex \in 0 .. MaxIndex
    BY <1>5 DEF AppendLine, NextIndex, TypeOK, DurableState
  <2>2. [index |-> NextIndex, event_id |-> event] \in Line
    BY <2>1 DEF Line
  <2>3. logFile' \in Seq(Line)
    BY <2>2, <1>5, WithLineIs DEF AppendLine
  <2> QED
    BY <1>5, <2>1, <2>3 DEF AppendLine, TypeOK, DurableState
<1>6. CASE AppendEntry
  BY <1>6, <1>5 DEF AppendEntry
<1>7. ASSUME NEW events \in SUBSET Event, AppendClusterEvents(events) PROVE TypeOK'
  BY <1>7 DEF AppendClusterEvents, TypeOK
<1>8. CASE AppendNextEvent
  BY <1>8, <1>5 DEF AppendNextEvent, TypeOK
<1>9. CASE PersistState
  BY <1>9 DEF PersistState, TypeOK
<1>10. CASE DieInAppend
  <2>1. Malformed \in Line
    BY DEF Malformed, Line
  <2>2. logFile' \in Seq(Line) /\ logFile' # <<>> /\ logFile'[Len(logFile')] = Malformed
    <3>1. CASE tornTail
      BY <3>1, <1>10 DEF DieInAppend, WithLine, TypeOK
    <3>2. CASE ~tornTail
      BY <3>2, <1>10, <2>1, AppendProperties DEF DieInAppend, WithLine, TypeOK
    <3> QED
      BY <3>1, <3>2
  <2> QED
    BY <1>10, <2>2
    DEF DieInAppend, Forget, TypeOK, NewState, NoSnapshot, DurableState, Snapshot
<1>11. CASE CreateSnapshot
  BY <1>11 DEF CreateSnapshot, Taken, TypeOK, Snapshot, DurableState
<1>12. CASE CompactLog
  BY <1>12, CompactLogEmpties, EmptySeq DEF CompactLog, TypeOK
<1> QED
  BY <1>1, <1>2, <1>3, <1>4, <1>6, <1>7, <1>8, <1>9, <1>10, <1>11, <1>12 DEF Next

\* What the files come to with the line of an append.
LEMMA AppendLineIs ==
  ASSUME Inv, NEW event \in Event \cup {None}, AppendLine(event)
  PROVE  /\ [index |-> NextIndex, event_id |-> event] \in Line
         /\ NextIndex = state.last_log_index + 1 /\ NextIndex \in 0 .. MaxIndex
         /\ tornTail => logFile' = logFile
         /\ ~tornTail =>
               /\ DOMAIN logFile' = 1 .. Len(logFile) + 1
               /\ \A i \in DOMAIN logFile : logFile'[i] = logFile[i]
               /\ logFile'[Len(logFile) + 1] = [index |-> NextIndex, event_id |-> event]
               /\ EventsOf(logFile') = EventsOf(logFile) \cup ({event} \ {None})
<1>1. NextIndex \in 0 .. MaxIndex /\ NextIndex = state.last_log_index + 1
  BY BoundsAssumption DEF AppendLine, NextIndex, Inv, TypeOK, DurableState
<1> DEFINE line == [index |-> NextIndex, event_id |-> event]
<1>2. line \in Line /\ line.event_id = event
  BY <1>1 DEF Line
<1>3. logFile' = WithLine(line)
  BY DEF AppendLine
<1> HIDE DEF line
<1>4. tornTail => logFile' = logFile
  BY <1>3, <1>2, WithLineIs DEF Inv
<1>5. ~tornTail =>
        /\ DOMAIN logFile' = 1 .. Len(logFile) + 1
        /\ \A i \in DOMAIN logFile : logFile'[i] = logFile[i]
        /\ logFile'[Len(logFile) + 1] = line
  BY <1>3, <1>2, WithLineIs DEF Inv
<1>6. ~tornTail => EventsOf(logFile') = EventsOf(logFile) \cup ({event} \ {None})
  BY <1>3, <1>2, EventsWithLine DEF Inv
<1> QED
  BY <1>1, <1>2, <1>4, <1>5, <1>6 DEF line

\* In a ready node the index of the state is the one a start would find.
LEMMA ReadyIsRecovered ==
  ASSUME Inv, pc \in {"ready", "snapshotted"}
  PROVE  RecoveredIndex = state.last_log_index /\ RecoveredState = state
<1>1. RecoveredIndex = state.last_log_index
  BY RecoveredIndexIsGreatest, SourcesAre
  DEF Inv, MemoryInv, RecoveredIndex, Sources, TypeOK, DurableState
<1> QED
  BY <1>1 DEF RecoveredState, Inv, TypeOK, MemoryInv, DurableState

\* An append moves the index a start would find by one, or a torn line swallows it.
LEMMA AppendRecovers ==
  ASSUME Inv, TypeOK', pc = "ready", NEW event \in Event \cup {None}, AppendLine(event)
  PROVE  RecoveredIndex' = IF tornTail THEN state.last_log_index ELSE state.last_log_index + 1
<1>1. stateFile = state /\ state.last_log_index \in Nat
  BY DEF Inv, MemoryInv, TypeOK, DurableState
<1>2. stateFile' = stateFile /\ snapshotFile' = snapshotFile
  BY DEF AppendLine
<1>3. CASE tornTail
  BY <1>2, <1>3, AppendLineIs, ReadyIsRecovered DEF RecoveredIndex
<1>4. CASE ~tornTail
  <2> DEFINE m == NextIndex
  <2>0. /\ DOMAIN logFile' = 1 .. Len(logFile) + 1
        /\ \A i \in DOMAIN logFile : logFile'[i] = logFile[i]
        /\ logFile'[Len(logFile) + 1] = [index |-> NextIndex, event_id |-> event]
    BY <1>4, AppendLineIs
  <2>1. m = state.last_log_index + 1 /\ m \in Nat
    <3>1. NextIndex = state.last_log_index + 1
      BY AppendLineIs
    <3> QED
      BY <1>1, <3>1
  <2>2. Len(logFile) + 1 \in DOMAIN logFile' /\ logFile'[Len(logFile) + 1].index = m
    <3>1. Len(logFile) \in Nat
      BY LenProperties DEF Inv, TypeOK
    <3> QED
      BY <2>0, <3>1
  <2>3. m \in Sources(stateFile', snapshotFile', logFile')
    BY <2>2, SourcesAre DEF TypeOK
  <2>4. \A i \in DOMAIN logFile' : logFile'[i].index <= m
    <3>1. \A i \in DOMAIN logFile : logFile[i] \in Line
      BY ElementOfSeq DEF Inv, TypeOK
    <3>2. DOMAIN logFile = 1 .. Len(logFile) /\ Len(logFile) \in Nat
      BY DEF Inv, TypeOK
    <3>3. \A i \in DOMAIN logFile : logFile[i].index <= m
      BY <2>1, <3>1 DEF Inv, MemoryInv, TypeOK, Line, DurableState
    <3>4. \A i \in DOMAIN logFile' : i \in DOMAIN logFile \/ i = Len(logFile) + 1
      BY <3>2, <2>0
    <3> HIDE DEF m
    <3> QED
      BY <2>0, <2>1, <2>2, <3>3, <3>4
  <2>5. stateFile'.last_log_index <= m /\ snapshotFile'.last_included_index <= m
    BY <1>1, <1>2, <2>1 DEF Inv, MemoryInv, TypeOK, DurableState, Snapshot
  <2>6. RecoveredIndex' = Greatest(Sources(stateFile', snapshotFile', logFile'))
    BY DEF RecoveredIndex, Sources
  <2> HIDE DEF m
  <2>7. RecoveredIndex' = m
    BY <2>3, <2>4, <2>5, <2>6, <2>1, RecoveredIndexIsGreatest DEF TypeOK
  <2> QED
    BY <2>1, <2>7, <1>4
<1> QED
  BY <1>3, <1>4

\* Every step keeps memory and files as far apart as the write that is due.
LEMMA MemoryStep == Inv /\ [Next]_vars => MemoryInv'
<1> SUFFICES ASSUME Inv, [Next]_vars PROVE MemoryInv'
  OBVIOUS
<1>0. TypeOK' /\ TypeOK
  BY TypeStep DEF Inv
<1> USE DEF files, memory
<1>1. CASE UNCHANGED vars
  BY <1>1 DEF vars, Inv, MemoryInv, RecoveredIndex
<1>2. CASE Start
  <2>1. /\ RecoveredIndex \in 0 .. MaxIndex
        /\ snapshotFile.last_included_index <= RecoveredIndex
        /\ \A i \in DOMAIN logFile : logFile[i].index <= RecoveredIndex
    BY <1>0, RecoveredIndexIs DEF RecoveredIndex, Sources, TypeOK
  <2>2. RecoveredState.last_log_index = RecoveredIndex
    BY <1>0 DEF RecoveredState, TypeOK, DurableState
  <2> QED
    BY <1>2, <2>1, <2>2 DEF Start, MemoryInv
<1>3. CASE Die
  BY <1>3 DEF Die, MemoryInv
<1>4. ASSUME NEW term \in 0 .. MaxTerm, NEW vote \in Candidate \cup {None}, SetState(term, vote)
      PROVE  MemoryInv'
  BY <1>4, <1>0 DEF SetState, Idle, Inv, MemoryInv, TypeOK, DurableState
<1>5. ASSUME NEW event \in Event \cup {None}, AppendLine(event), pc = "ready" PROVE MemoryInv'
  <2>1. /\ NextIndex = state.last_log_index + 1
        /\ RecoveredIndex' = IF tornTail THEN state.last_log_index ELSE state.last_log_index + 1
    BY <1>5, <1>0, AppendRecovers, AppendLineIs
  <2>2. stateFile = state /\ state \in DurableState /\ state.last_log_index \in Nat
    BY <1>5, <1>0 DEF Inv, MemoryInv, TypeOK, DurableState
  <2>3. /\ state' = [state EXCEPT !.last_log_index = NextIndex] /\ stateFile' = stateFile
        /\ tornTail' = FALSE /\ pc' = "appended"
        /\ snapshotFile' = snapshotFile /\ snapshot' = snapshot
    BY <1>5 DEF AppendLine
  <2>4. /\ state'.last_log_index = state.last_log_index + 1
        /\ state'.current_term = state.current_term /\ state'.voted_for = state.voted_for
    BY <2>1, <2>2, <2>3 DEF DurableState
  <2>5. /\ RecoveredIndex' <= state'.last_log_index
        /\ \A i \in DOMAIN logFile' : logFile'[i].index <= RecoveredIndex'
        /\ snapshotFile'.last_included_index <= RecoveredIndex'
        /\ RecoveredIndex' \in Nat
    <3>1. RecoveredIndex' <= state'.last_log_index
      BY <2>1, <2>2, <2>4
    <3>2. RecoveredIndex' = Greatest(Sources(stateFile', snapshotFile', logFile'))
      BY DEF RecoveredIndex, Sources
    <3>3. stateFile' \in DurableState /\ snapshotFile' \in Snapshot /\ logFile' \in Seq(Line)
      BY <1>0 DEF TypeOK
    <3>4. LET n == Greatest(Sources(stateFile', snapshotFile', logFile'))
          IN  /\ n \in Nat /\ snapshotFile'.last_included_index <= n
              /\ \A i \in DOMAIN logFile' : logFile'[i].index <= n
      BY <3>3, RecoveredIndexIs, BoundsAssumption
    <3> QED
      BY <3>1, <3>2, <3>3, <3>4
  <2>6. /\ \A i \in DOMAIN logFile' : logFile'[i].index \in Nat
        /\ snapshotFile'.last_included_index \in Nat
    <3>1. \A i \in DOMAIN logFile' : logFile'[i] \in Line
      BY <1>0, ElementOfSeq DEF TypeOK
    <3> QED
      BY <3>1, <1>0 DEF TypeOK, Line, Snapshot
  <2>7. /\ \A i \in DOMAIN logFile' : logFile'[i].index <= state'.last_log_index
        /\ snapshotFile'.last_included_index <= state'.last_log_index
    BY <2>2, <2>4, <2>5, <2>6
  <2>8. RecoveredIndex' \in {stateFile'.last_log_index, state'.last_log_index}
    BY <2>1, <2>2, <2>3, <2>4
  <2>9. snapshot = snapshotFile
    BY <1>5 DEF Inv, MemoryInv
  <2> QED
    BY <2>2, <2>3, <2>4, <2>7, <2>8, <2>9 DEF MemoryInv
<1>6. CASE AppendEntry
  BY <1>6, <1>5 DEF AppendEntry, Idle
<1>7. ASSUME NEW events \in SUBSET Event, AppendClusterEvents(events) PROVE MemoryInv'
  BY <1>7 DEF AppendClusterEvents, Idle, Inv, MemoryInv
<1>8. CASE AppendNextEvent
  BY <1>8, <1>5, <1>0 DEF AppendNextEvent, TypeOK
<1>9. CASE PersistState
  BY <1>9 DEF PersistState, Inv, MemoryInv
<1>10. CASE DieInAppend
  BY <1>10 DEF DieInAppend, MemoryInv
<1>11. CASE CreateSnapshot
  BY <1>11, <1>0 DEF CreateSnapshot, Idle, Taken, Inv, MemoryInv, TypeOK, DurableState
<1>12. CASE CompactLog
  <2>1. DOMAIN logFile' = {}
    BY <1>12, CompactLogEmpties
  <2> QED
    BY <1>12, <2>1 DEF CompactLog, Inv, MemoryInv
<1> QED
  BY <1>1, <1>2, <1>3, <1>4, <1>6, <1>7, <1>8, <1>9, <1>10, <1>11, <1>12 DEF Next

\* Every step keeps what a running node knows of the events in the files.
LEMMA EventsStep == Inv /\ [Next]_vars => EventsInv'
<1> SUFFICES ASSUME Inv, [Next]_vars PROVE EventsInv'
  OBVIOUS
<1>0. TypeOK /\ EventsInv
  BY DEF Inv
<1> USE DEF files, memory
<1>1. CASE UNCHANGED vars
  BY <1>1, <1>0 DEF vars, EventsInv, Logged
<1>2. CASE Start
  BY <1>2, <1>0 DEF Start, RecoveredEvents, EventsInv, Logged
<1>3. CASE Die
  BY <1>3 DEF Die, Forget, EventsInv
<1>4. ASSUME NEW term \in 0 .. MaxTerm, NEW vote \in Candidate \cup {None}, SetState(term, vote)
      PROVE  EventsInv'
  BY <1>4, <1>0 DEF SetState, EventsInv, Logged
<1>5. ASSUME NEW event \in Event \cup {None}, AppendLine(event), pc = "ready",
             event # None => event \in batch, batch' = batch \ {event}
      PROVE  EventsInv'
  <2>1. /\ knownEventIds' = knownEventIds \cup ({event} \ {None})
        /\ tornTail' = FALSE /\ pc' = "appended" /\ snapshotFile' = snapshotFile
    BY <1>5 DEF AppendLine
  <2>2. EventsOf(logFile') \subseteq EventsOf(logFile) \cup ({event} \ {None})
    BY <1>5, AppendLineIs, <1>0 DEF TypeOK
  <2> QED
    BY <1>5, <1>0, <2>1, <2>2 DEF EventsInv, Logged
<1>6. CASE AppendEntry
  <2>1. None \notin batch
    BY <1>6 DEF AppendEntry, Idle
  <2> QED
    BY <1>6, <1>5, <2>1 DEF AppendEntry, Idle
<1>7. ASSUME NEW events \in SUBSET Event, AppendClusterEvents(events) PROVE EventsInv'
  BY <1>7, <1>0 DEF AppendClusterEvents, IsNew, Idle, EventsInv, Logged
<1>8. CASE AppendNextEvent
  BY <1>8, <1>5, <1>0 DEF AppendNextEvent, TypeOK
<1>9. CASE PersistState
  BY <1>9, <1>0 DEF PersistState, EventsInv, Logged
<1>10. CASE DieInAppend
  BY <1>10 DEF DieInAppend, Forget, EventsInv
<1>11. CASE CreateSnapshot
  BY <1>11, <1>0 DEF CreateSnapshot, Taken, Idle, EventsInv, Logged
<1>12. CASE CompactLog
  <2>1. EventsOf(logFile') = {}
    BY <1>12, CompactLogEmpties DEF EventsOf, Range
  <2> QED
    BY <1>12, <1>0, <2>1 DEF CompactLog, EventsInv, Logged
<1> QED
  BY <1>1, <1>2, <1>3, <1>4, <1>6, <1>7, <1>8, <1>9, <1>10, <1>11, <1>12 DEF Next

LEMMA InvHolds == Spec => []Inv
<1>1. Inv /\ [Next]_vars => Inv'
  BY TypeStep, MemoryStep, EventsStep DEF Inv
<1> QED
  BY <1>1, InitInv, PTL DEF Spec

-----------------------------------------------------------------------------
(* What the runs check. *)

\* Every variable of the store keeps its type, and a torn tail is its last line.
THEOREM TypeCorrect == Spec => []TypeOK
BY InvHolds, PTL DEF Inv

\* A node that may answer would find its term, its vote and its place in the log
\* again, whenever it dies.
THEOREM AnswersSurvive == Spec => []AnswersAreDurable
<1>1. Inv => AnswersAreDurable
  BY ReadyIsRecovered DEF AnswersAreDurable
<1> QED
  BY <1>1, InvHolds, PTL

LogInv == IndexesGrow /\ EventsAreLoggedOnce

\* Every step keeps the lines in order and the events on one line each.
LEMMA LogStep == Inv /\ Inv' /\ LogInv /\ [Next]_vars => LogInv'
<1> SUFFICES ASSUME Inv, Inv', LogInv, [Next]_vars PROVE LogInv'
  OBVIOUS
<1>0. TypeOK /\ MemoryInv /\ EventsInv
  BY DEF Inv
<1> USE DEF files, memory
<1>1. ASSUME logFile' = logFile, snapshotFile' = snapshotFile PROVE LogInv'
  BY <1>1 DEF LogInv, IndexesGrow, EventsAreLoggedOnce
<1>2. ASSUME NEW event \in Event \cup {None}, AppendLine(event), pc = "ready",
             event \notin knownEventIds
      PROVE  LogInv'
  <2>1. snapshotFile' = snapshotFile
    BY <1>2 DEF AppendLine
  <2>2. CASE tornTail
    BY <1>1, <1>2, <2>1, <2>2, AppendLineIs
  <2>3. CASE ~tornTail
    <3> DEFINE n == Len(logFile) + 1
    <3>1. /\ DOMAIN logFile' = 1 .. n
          /\ \A i \in DOMAIN logFile : logFile'[i] = logFile[i]
          /\ logFile'[n] = [index |-> NextIndex, event_id |-> event]
      BY <1>2, <2>3, AppendLineIs
    <3>2. NextIndex = state.last_log_index + 1 /\ state.last_log_index \in Nat
      <4>1. NextIndex = state.last_log_index + 1
        BY <1>2, AppendLineIs
      <4> QED
        BY <4>1, <1>0, BoundsAssumption DEF TypeOK, DurableState
    <3>3. n \in Nat /\ DOMAIN logFile = 1 .. n - 1
      BY <1>0, LenProperties DEF TypeOK
    <3>4. \A i \in DOMAIN logFile : logFile[i].index \in Nat /\ logFile[i].index < NextIndex
      <4>1. \A i \in DOMAIN logFile : logFile[i] \in Line
        BY <1>0, ElementOfSeq DEF TypeOK
      <4> QED
        BY <4>1, <1>0, <1>2, <3>2, BoundsAssumption DEF MemoryInv, Line
    <3>5. \A i \in DOMAIN logFile' : i \in DOMAIN logFile \/ i = n
      BY <3>1, <3>3
    <3>6. \A i \in DOMAIN logFile : logFile[i].event_id # None => logFile[i].event_id # event
      <4>1. \A i \in DOMAIN logFile :
               logFile[i].event_id # None => logFile[i].event_id \in EventsOf(logFile)
        BY DEF EventsOf, Range
      <4> QED
        BY <4>1, <1>0, <1>2 DEF EventsInv, Logged
    <3> HIDE DEF n
    <3>7. IndexesGrow'
      <4> SUFFICES ASSUME NEW i \in DOMAIN logFile', NEW j \in DOMAIN logFile', i < j,
                          logFile'[i] # Malformed, logFile'[j] # Malformed
                   PROVE  logFile'[i].index < logFile'[j].index
        BY DEF IndexesGrow
      <4>1. i \in DOMAIN logFile
        BY <3>1, <3>3, <3>5
      <4>2. CASE j \in DOMAIN logFile
        BY <4>1, <4>2, <3>1 DEF LogInv, IndexesGrow
      <4>3. CASE j = n
        BY <4>1, <4>3, <3>1, <3>4
      <4> QED
        BY <4>2, <4>3, <3>5
    <3>8. EventsAreLoggedOnce'
      <4> SUFFICES ASSUME NEW i \in DOMAIN logFile', logFile'[i].event_id # None
                   PROVE  /\ \A j \in DOMAIN logFile' :
                                logFile'[j].event_id = logFile'[i].event_id => i = j
                          /\ logFile'[i].event_id \in snapshotFile'.known_event_ids =>
                                logFile'[i].index <= snapshotFile'.last_included_index
        BY DEF EventsAreLoggedOnce
      <4>1. CASE i \in DOMAIN logFile
        BY <4>1, <2>1, <3>1, <3>5, <3>6 DEF LogInv, EventsAreLoggedOnce
      <4>2. CASE i = n
        <5>1. event \notin snapshotFile.known_event_ids
          BY <1>0, <1>2 DEF EventsInv, Logged
        <5>2. logFile'[i].event_id = event
          BY <4>2, <3>1
        <5> QED
          BY <4>2, <5>1, <5>2, <2>1, <3>1, <3>5, <3>6
      <4> QED
        BY <4>1, <4>2, <3>5
    <3> QED
      BY <3>7, <3>8 DEF LogInv
  <2> QED
    BY <2>2, <2>3
<1>3. CASE AppendEntry
  <2>1. None \notin knownEventIds
    BY <1>0, EventAssumption DEF TypeOK
  <2> QED
    BY <1>3, <1>2, <2>1 DEF AppendEntry, Idle
<1>4. CASE AppendNextEvent
  BY <1>4, <1>2, <1>0 DEF AppendNextEvent, TypeOK, EventsInv
<1>5. CASE DieInAppend
  <2>1. Malformed \in Line /\ Malformed.event_id = None
    BY BoundsAssumption DEF Malformed, Line
  <2>2. logFile' = WithLine(Malformed) /\ snapshotFile' = snapshotFile
    BY <1>5 DEF DieInAppend
  <2>3. CASE tornTail
    BY <1>1, <2>2, <2>3 DEF WithLine
  <2>4. CASE ~tornTail
    <3> DEFINE n == Len(logFile) + 1
    <3>1. /\ DOMAIN logFile' = 1 .. n
          /\ \A i \in DOMAIN logFile : logFile'[i] = logFile[i]
          /\ logFile'[n] = Malformed
      BY <1>0, <2>1, <2>2, <2>4, WithLineIs
    <3>2. n \in Nat /\ DOMAIN logFile = 1 .. n - 1
      BY <1>0, LenProperties DEF TypeOK
    <3>3. \A i \in DOMAIN logFile' : i \in DOMAIN logFile \/ i = n
      BY <3>1, <3>2
    <3> HIDE DEF n
    <3>4. IndexesGrow'
      BY <3>1, <3>3 DEF LogInv, IndexesGrow
    <3>5. EventsAreLoggedOnce'
      BY <2>1, <2>2, <3>1, <3>3 DEF LogInv, EventsAreLoggedOnce
    <3> QED
      BY <3>4, <3>5 DEF LogInv
  <2> QED
    BY <2>3, <2>4
<1>6. CASE CreateSnapshot
  BY <1>6, <1>0 DEF CreateSnapshot, Taken, Idle, MemoryInv, LogInv, IndexesGrow, EventsAreLoggedOnce
<1>7. CASE CompactLog
  <2>1. DOMAIN logFile' = {}
    BY <1>7, CompactLogEmpties
  <2> QED
    BY <2>1 DEF LogInv, IndexesGrow, EventsAreLoggedOnce
<1>8. CASE Start \/ Die \/ PersistState \/ UNCHANGED vars
  BY <1>1, <1>8 DEF Start, Die, PersistState, vars
<1>9. ASSUME NEW term \in 0 .. MaxTerm, NEW vote \in Candidate \cup {None}, SetState(term, vote)
      PROVE  LogInv'
  BY <1>1, <1>9 DEF SetState
<1>10. ASSUME NEW events \in SUBSET Event, AppendClusterEvents(events) PROVE LogInv'
  BY <1>1, <1>10 DEF AppendClusterEvents
<1> QED
  BY <1>3, <1>4, <1>5, <1>6, <1>7, <1>8, <1>9, <1>10 DEF Next

\* An index names one entry and an event has one line, over deaths between its
\* line and the state, torn lines and compactions.
THEOREM LogNamesEntriesOnce == Spec => [](IndexesGrow /\ EventsAreLoggedOnce)
<1>1. Init => LogInv
  BY DEF Init, LogInv, IndexesGrow, EventsAreLoggedOnce
<1> QED
  BY <1>1, LogStep, InvHolds, PTL DEF Spec, LogInv

-----------------------------------------------------------------------------
(* The refinement. *)

Hard == [current_term |-> stateFile.current_term, voted_for |-> stateFile.voted_for]
Spoilt == knownEventIds \ Logged

\* What DurableStore is about depends on these alone.
LEMMA SameFiles ==
  ASSUME stateFile' = stateFile, snapshotFile' = snapshotFile, logFile' = logFile
  PROVE  Hard' = Hard /\ RecoveredIndex' = RecoveredIndex /\ Logged' = Logged
BY DEF Hard, RecoveredIndex, Logged

LEMMA DurableInit == Init => Durable!Init
<1> SUFFICES ASSUME Init PROVE Durable!Init
  OBVIOUS
<1>1. Hard \in [current_term : 0 .. MaxTerm, voted_for : Candidate \cup {None}]
  BY BoundsAssumption DEF Init, Hard, NewState
<1>2. RecoveredIndex = 0
  <2>1. {stateFile.last_log_index, snapshotFile.last_included_index} \cup IndexesOf(logFile) = {0}
    BY DEF Init, NewState, NoSnapshot, IndexesOf, Range
  <2> QED
    BY <2>1, GreatestIs DEF RecoveredIndex
<1>3. Logged = {} /\ Spoilt = {}
  BY DEF Logged, Spoilt, Init, EventsOf, Range, NoSnapshot
<1> QED
  BY <1>1, <1>2, <1>3 DEF Durable!Init, Hard, Logged, Spoilt

\* An append logs an entry or an event, or a torn line spoils the event; without
\* an event the entry counts only when the state is written.
LEMMA DurableAppend ==
  ASSUME Inv, Inv', NEW event \in Event \cup {None}, AppendLine(event), pc = "ready",
         event \notin knownEventIds
  PROVE  Durable!Next \/ UNCHANGED Durable!dvars
<1>1. /\ knownEventIds' = knownEventIds \cup ({event} \ {None})
      /\ snapshotFile' = snapshotFile /\ stateFile' = stateFile
  BY DEF AppendLine
<1>2. Hard' = Hard
  BY <1>1 DEF Hard
<1>3. RecoveredIndex' = IF tornTail THEN RecoveredIndex ELSE RecoveredIndex + 1
  BY AppendRecovers, ReadyIsRecovered DEF Inv
<1>4. Logged \subseteq knownEventIds /\ None \notin Event
  BY EventAssumption DEF Inv, EventsInv
<1>5. CASE tornTail
  <2>1. logFile' = logFile
    BY <1>5, AppendLineIs
  <2>2. Logged' = Logged /\ Spoilt = {} /\ RecoveredIndex' = RecoveredIndex
    BY <1>1, <1>3, <1>5, <2>1 DEF Logged, Spoilt, Inv, EventsInv
  <2>3. CASE event = None
    <3>1. Spoilt' = Spoilt
      BY <1>1, <2>2, <2>3 DEF Spoilt
    <3> QED
      BY <1>2, <2>2, <3>1 DEF Durable!dvars, Hard, Logged, Spoilt
  <2>4. CASE event # None
    <3>1. event \in Event /\ event \notin Logged /\ Spoilt' = {event}
      BY <1>1, <1>4, <2>2, <2>4 DEF Spoilt
    <3>2. Durable!SpoilEvent(event)
      BY <1>2, <2>2, <3>1 DEF Durable!SpoilEvent, Hard, Logged, Spoilt
    <3> QED
      BY <3>1, <3>2 DEF Durable!Next
  <2> QED
    BY <2>3, <2>4
<1>6. CASE ~tornTail
  <2>1. EventsOf(logFile') = EventsOf(logFile) \cup ({event} \ {None})
    BY <1>6, AppendLineIs
  <2>2. Logged' = Logged \cup ({event} \ {None}) /\ RecoveredIndex' = RecoveredIndex + 1
    BY <1>1, <1>3, <1>6, <2>1 DEF Logged
  <2>3. Spoilt' = Spoilt
    BY <1>1, <1>4, <2>2 DEF Spoilt
  <2>4. CASE event = None
    <3>1. Durable!LogEntry
      BY <1>2, <2>2, <2>3, <2>4 DEF Durable!LogEntry, Hard, Logged, Spoilt
    <3> QED
      BY <3>1 DEF Durable!Next
  <2>5. CASE event # None
    <3>1. event \notin Logged \cup Spoilt
      BY <1>4 DEF Spoilt
    <3>2. Durable!LogEvent(event)
      BY <1>2, <2>2, <2>3, <2>5, <3>1 DEF Durable!LogEvent, Hard, Logged, Spoilt
    <3> QED
      BY <2>5, <3>2 DEF Durable!Next
  <2> QED
    BY <2>4, <2>5
<1> QED
  BY <1>5, <1>6

\* A death forgets the event a torn line has spoilt, if there is one.
LEMMA DurableDeath ==
  ASSUME Hard' = Hard, RecoveredIndex' = RecoveredIndex, Logged' = Logged, Spoilt' = {}
  PROVE  Durable!Next \/ UNCHANGED Durable!dvars
<1>1. CASE Spoilt = {}
  BY <1>1 DEF Durable!dvars, Hard, Logged, Spoilt
<1>2. CASE Spoilt # {}
  BY <1>2 DEF Durable!Next, Durable!LoseEvent, Hard, Logged, Spoilt
<1> QED
  BY <1>1, <1>2

\* Every step of the store is a step of DurableStore or leaves it alone.
LEMMA DurableStep ==
  ASSUME Inv, Inv', [Next]_vars
  PROVE  Durable!Next \/ UNCHANGED Durable!dvars
<1> USE DEF files, memory
<1>0. TypeOK /\ TypeOK' /\ MemoryInv /\ EventsInv
  BY DEF Inv
<1>s. ASSUME Hard' = Hard, RecoveredIndex' = RecoveredIndex, Logged' = Logged, Spoilt' = Spoilt
      PROVE  UNCHANGED Durable!dvars
  BY <1>s DEF Durable!dvars, Hard, Logged, Spoilt
<1>1. CASE UNCHANGED vars
  BY <1>1, <1>s, SameFiles DEF vars, Spoilt
<1>2. CASE Start
  <2>1. Logged' = Logged
    BY <1>2 DEF Start, Logged
  <2>2. Spoilt = {} /\ Spoilt' = {}
    BY <1>2, <1>0, <2>1 DEF Start, RecoveredEvents, EventsInv, Logged, Spoilt
  <2>3. Hard' = Hard
    BY <1>2, <1>0 DEF Start, RecoveredState, Hard, TypeOK, DurableState
  <2>4. RecoveredIndex' = RecoveredIndex
    <3>1. /\ RecoveredIndex' = Greatest(Sources(stateFile', snapshotFile', logFile'))
          /\ snapshotFile' = snapshotFile /\ logFile' = logFile
      BY <1>2 DEF Start, RecoveredIndex, Sources
    <3>2. stateFile'.last_log_index = RecoveredIndex
      BY <1>2, <1>0 DEF Start, RecoveredState, TypeOK, DurableState
    <3>3. stateFile' \in DurableState /\ snapshotFile \in Snapshot /\ logFile \in Seq(Line)
      BY <1>0 DEF TypeOK
    <3>4. /\ RecoveredIndex \in Nat /\ snapshotFile.last_included_index <= RecoveredIndex
          /\ \A i \in DOMAIN logFile : logFile[i].index <= RecoveredIndex
      <4>1. RecoveredIndex = Greatest(Sources(stateFile, snapshotFile, logFile))
        BY DEF RecoveredIndex, Sources
      <4>2. stateFile \in DurableState
        BY <1>0 DEF TypeOK
      <4>3. 0 .. MaxIndex \subseteq Nat
        BY BoundsAssumption
      <4> QED
        BY <3>3, <4>1, <4>2, <4>3, RecoveredIndexIs
    <3>5. RecoveredIndex \in Sources(stateFile', snapshotFile, logFile)
      BY <3>2, <3>3, SourcesAre
    <3> QED
      BY <3>1, <3>2, <3>3, <3>4, <3>5, RecoveredIndexIsGreatest
  <2> QED
    BY <1>s, <2>1, <2>2, <2>3, <2>4
<1>3. CASE Die
  <2>1. Spoilt' = {}
    BY <1>3 DEF Die, Forget, Spoilt
  <2> QED
    BY <1>3, <2>1, SameFiles, DurableDeath DEF Die
<1>4. ASSUME NEW term \in 0 .. MaxTerm, NEW vote \in Candidate \cup {None}, SetState(term, vote)
      PROVE  Durable!Next
  <2>1. stateFile = state /\ state \in DurableState
    BY <1>4, <1>0 DEF SetState, Idle, MemoryInv, TypeOK
  <2>2. /\ stateFile' = [state EXCEPT !.current_term = term, !.voted_for = vote]
        /\ term >= state.current_term /\ state' = stateFile'
        /\ UNCHANGED <<logFile, tornTail, snapshotFile, knownEventIds, snapshot, batch, pc>>
    BY <1>4 DEF SetState
  <2>3. Hard' = [current_term |-> term, voted_for |-> vote] /\ Hard.current_term = state.current_term
    BY <2>1, <2>2 DEF Hard, DurableState
  <2>4. Logged' = Logged /\ Spoilt' = Spoilt
    BY <2>2 DEF Logged, Spoilt
  <2>5. RecoveredIndex' = RecoveredIndex
    <3>1. stateFile'.last_log_index = stateFile.last_log_index
      BY <2>1, <2>2 DEF DurableState
    <3> QED
      BY <2>2, <3>1 DEF RecoveredIndex
  <2>6. /\ Hard' \in [current_term : 0 .. MaxTerm, voted_for : Candidate \cup {None}]
        /\ Hard'.current_term >= Hard.current_term
    BY <2>2, <2>3
  <2>7. Durable!SetState
    BY <2>4, <2>5, <2>6 DEF Durable!SetState, Hard, Logged, Spoilt
  <2> QED
    BY <2>7 DEF Durable!Next
<1>5. CASE AppendEntry
  <2>1. None \notin knownEventIds
    BY <1>0, EventAssumption DEF TypeOK
  <2> QED
    BY <1>5, <2>1, DurableAppend DEF AppendEntry, Idle
<1>6. ASSUME NEW events \in SUBSET Event, AppendClusterEvents(events)
      PROVE  UNCHANGED Durable!dvars
  BY <1>6, <1>s, SameFiles DEF AppendClusterEvents, Spoilt
<1>7. CASE AppendNextEvent
  <2>1. PICK first \in batch : AppendLine(first)
    BY <1>7 DEF AppendNextEvent
  <2>2. first \in Event /\ first \notin knownEventIds
    BY <1>0, <2>1 DEF TypeOK, EventsInv
  <2> QED
    BY <1>7, <2>1, <2>2, DurableAppend DEF AppendNextEvent
<1>8. CASE PersistState
  <2>1. Hard' = Hard /\ Logged' = Logged /\ Spoilt' = Spoilt
    BY <1>8, <1>0 DEF PersistState, MemoryInv, Hard, Logged, Spoilt
  <2>2. RecoveredIndex' = state.last_log_index
    <3>1. state' = state /\ pc' = "ready"
      BY <1>8 DEF PersistState
    <3>2. (Inv /\ pc \in {"ready", "snapshotted"} => RecoveredIndex = state.last_log_index)'
      BY ReadyIsRecovered, PTL
    <3> QED
      BY <3>1, <3>2
  <2>3. CASE RecoveredIndex = state.last_log_index
    BY <1>s, <2>1, <2>2, <2>3
  <2>4. CASE RecoveredIndex # state.last_log_index
    <3>1. state.last_log_index = RecoveredIndex + 1
      BY <1>8, <1>0, <2>4 DEF PersistState, MemoryInv
    <3>2. Durable!LogEntry
      BY <2>1, <2>2, <3>1 DEF Durable!LogEntry, Hard, Logged, Spoilt
    <3> QED
      BY <3>2 DEF Durable!Next
  <2> QED
    BY <2>3, <2>4
<1>9. CASE DieInAppend
  <2>1. Malformed \in Line /\ Malformed.event_id = None /\ Malformed.index = 0
    BY BoundsAssumption DEF Malformed, Line
  <2>2. logFile' = WithLine(Malformed)
    BY <1>9 DEF DieInAppend
  <2>3. EventsOf(logFile') = EventsOf(logFile)
    BY <1>0, <2>1, <2>2, WithLineIs, EventsWithLine
  <2>4. IndexesOf(logFile') \in {IndexesOf(logFile), IndexesOf(logFile) \cup {0}}
    <3>1. CASE tornTail
      BY <3>1, <1>0, <2>1, <2>2, WithLineIs
    <3>2. CASE ~tornTail
      <4>1. DOMAIN logFile = 1 .. Len(logFile) /\ Len(logFile) \in Nat
        BY <1>0 DEF TypeOK
      <4>2. Range(logFile') = Range(logFile) \cup {Malformed}
        BY <3>2, <1>0, <2>1, <2>2, <4>1, WithLineIs DEF Range
      <4> QED
        BY <2>1, <4>2 DEF IndexesOf
    <3> QED
      BY <3>1, <3>2
  <2>5. Hard' = Hard /\ Logged' = Logged /\ Spoilt' = {}
    BY <1>9, <2>3 DEF DieInAppend, Forget, Hard, Logged, Spoilt
  <2>6. RecoveredIndex' = RecoveredIndex
    <3>1. stateFile' = stateFile /\ snapshotFile' = snapshotFile
      BY <1>9 DEF DieInAppend
    <3>2. stateFile \in DurableState /\ snapshotFile \in Snapshot /\ logFile \in Seq(Line)
      BY <1>0 DEF TypeOK
    <3>3. /\ RecoveredIndex \in Sources(stateFile, snapshotFile, logFile) /\ RecoveredIndex \in Nat
          /\ \A k \in Sources(stateFile, snapshotFile, logFile) : RecoveredIndex >= k
      <4> DEFINE S == Sources(stateFile, snapshotFile, logFile)
      <4>1. S # {} /\ RecoveredIndex = Greatest(S)
        BY DEF Sources, RecoveredIndex
      <4>2. S \in SUBSET (0 .. MaxIndex) /\ 0 .. MaxIndex \subseteq Nat
        BY <3>2, SourcesAre, BoundsAssumption
      <4> HIDE DEF S
      <4>3. Greatest(S) \in S /\ \A k \in S : Greatest(S) >= k
        BY <4>1, <4>2, GreatestExists, BoundsAssumption
      <4> QED
        BY <4>1, <4>2, <4>3 DEF S
    <3>4. /\ RecoveredIndex' = Greatest(Sources(stateFile, snapshotFile, logFile'))
          /\ Sources(stateFile, snapshotFile, logFile')
                \subseteq Sources(stateFile, snapshotFile, logFile) \cup {0}
          /\ RecoveredIndex \in Sources(stateFile, snapshotFile, logFile')
      BY <2>4, <3>1, <3>3 DEF RecoveredIndex, Sources
    <3>5. Sources(stateFile, snapshotFile, logFile') \in SUBSET Nat
      <4>1. logFile' \in Seq(Line)
        BY <1>0 DEF TypeOK
      <4> QED
        BY <3>2, <4>1, SourcesAre
    <3>6. \A k \in Sources(stateFile, snapshotFile, logFile') : RecoveredIndex >= k
      BY <3>3, <3>4
    <3> QED
      BY <3>4, <3>5, <3>6, GreatestIs
  <2> QED
    BY <2>5, <2>6, DurableDeath
<1>10. CASE CreateSnapshot
  <2>1. /\ stateFile' = stateFile /\ logFile' = logFile /\ knownEventIds' = knownEventIds
        /\ snapshotFile'.known_event_ids = knownEventIds
        /\ snapshotFile'.last_included_index = state.last_log_index
        /\ pc' = "snapshotted" /\ pc = "ready" /\ state' = state
    BY <1>10 DEF CreateSnapshot, Taken, Idle
  <2>2. Hard' = Hard
    BY <2>1 DEF Hard
  <2>3. Logged \subseteq knownEventIds
    BY <1>0, <2>1 DEF EventsInv
  <2>4. Logged' = knownEventIds /\ Spoilt' = {} /\ Logged \cup Spoilt = knownEventIds
    BY <2>1, <2>3 DEF Logged, Spoilt
  <2>5. RecoveredIndex' = RecoveredIndex
    <3>1. (Inv /\ pc \in {"ready", "snapshotted"} => RecoveredIndex = state.last_log_index)
      BY ReadyIsRecovered
    <3>2. (Inv /\ pc \in {"ready", "snapshotted"} => RecoveredIndex = state.last_log_index)'
      BY ReadyIsRecovered, PTL
    <3> QED
      BY <2>1, <3>1, <3>2
  <2>6. CASE Spoilt = {}
    <3>1. Logged' = Logged
      BY <2>4, <2>6
    <3> QED
      BY <1>s, <2>2, <2>4, <2>5, <2>6, <3>1
  <2>7. CASE Spoilt # {}
    <3>1. Durable!SaveEvent
      BY <2>2, <2>4, <2>5, <2>7 DEF Durable!SaveEvent, Hard, Logged, Spoilt
    <3> QED
      BY <3>1 DEF Durable!Next
  <2> QED
    BY <2>6, <2>7
<1>11. CASE CompactLog
  <2>1. /\ stateFile' = stateFile /\ snapshotFile' = snapshotFile
        /\ knownEventIds' = knownEventIds /\ state' = state
        /\ pc = "snapshotted" /\ pc' = "ready"
    BY <1>11 DEF CompactLog
  <2>2. EventsOf(logFile') = {}
    BY <1>11, CompactLogEmpties DEF EventsOf, Range
  <2>3. Logged' = Logged
    BY <1>0, <2>1, <2>2 DEF Logged, EventsInv
  <2>4. Hard' = Hard /\ Spoilt' = Spoilt
    BY <2>1, <2>3 DEF Hard, Spoilt
  <2>5. RecoveredIndex' = RecoveredIndex
    <3>1. (Inv /\ pc \in {"ready", "snapshotted"} => RecoveredIndex = state.last_log_index)
      BY ReadyIsRecovered
    <3>2. (Inv /\ pc \in {"ready", "snapshotted"} => RecoveredIndex = state.last_log_index)'
      BY ReadyIsRecovered, PTL
    <3> QED
      BY <2>1, <3>1, <3>2
  <2> QED
    BY <1>s, <2>3, <2>4, <2>5
<1> QED
  BY <1>1, <1>2, <1>3, <1>4, <1>5, <1>6, <1>7, <1>8, <1>9, <1>10, <1>11 DEF Next

\* The files implement DurableStore: no term, vote, index or event is lost, over
\* deaths at any write, torn lines and compactions.
THEOREM FilesImplementDurableStore == Spec => ImplementsDurableStore
<1>1. Init => Durable!Init
  BY DurableInit
<1>2. Inv /\ Inv' /\ [Next]_vars => [Durable!Next]_(Durable!dvars)
  BY DurableStep
<1> QED
  BY <1>1, <1>2, InvHolds, PTL DEF Spec, Durable!Spec, ImplementsDurableStore
=============================================================================
