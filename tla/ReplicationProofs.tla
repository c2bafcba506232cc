-------------------------- MODULE ReplicationProofs --------------------------
(***************************************************************************)
(* Proofs about Replication, for any nodes, rows, limits, duplicates and   *)
(* crashes.                                                                *)
(*                                                                         *)
(* Types says what every variable holds, and that all sets of events are   *)
(* finite.  With clocks that agree, Stamped and Distinct say what events   *)
(* there can be anywhere, and Sound what a database, in memory or on disk, *)
(* makes of those it knows.                                                *)
(* When nothing is forgotten, RegisterInv says that an id denotes one      *)
(* event and that rows have the versions of events; with room for all,     *)
(* GapInv says that histories are prefixes, and CountInv how many events   *)
(* there can be.                                                           *)
(***************************************************************************)
EXTENDS Replication, FiniteSetTheorems, WellFoundedInduction, TLAPS

-----------------------------------------------------------------------------
(* Finite sets. *)

\* A finite set has an element that is before none of its elements.
LEMMA SomeLast ==
  ASSUME NEW S, IsFiniteSet(S), S # {}, NEW Before \in SUBSET (S \X S),
         \A x \in S : <<x, x>> \notin Before,
         \A x, y, z \in S : <<x, y>> \in Before /\ <<y, z>> \in Before => <<x, z>> \in Before
  PROVE  \E x \in S : \A y \in S : <<x, y>> \notin Before
<1> DEFINE After(x) == {y \in S : <<x, y>> \in Before}
           T == {Cardinality(After(x)) : x \in S}
<1>1. \A x \in S : IsFiniteSet(After(x)) /\ Cardinality(After(x)) \in Nat
  BY FS_Subset, FS_CardinalityType
<1>2. PICK c \in T : \A d \in T : ~(<<d, c>> \in OpToRel(<, Nat))
  <2> HIDE DEF After
  <2>1. T \subseteq Nat /\ T # {}
    BY <1>1
  <2> HIDE DEF T
  <2> QED
    BY <2>1, WFMin, NatLessThanWellFounded
<1>3. PICK x \in S : c = Cardinality(After(x))
  OBVIOUS
<1>4. \A y \in S : ~(Cardinality(After(y)) < Cardinality(After(x)))
  <2> HIDE DEF After
  <2> QED
    BY <1>1, <1>2, <1>3 DEF OpToRel
<1>5. ASSUME NEW y \in S, <<x, y>> \in Before PROVE FALSE
  <2>1. After(y) \in SUBSET After(x) /\ y \in After(x) /\ y \notin After(y)
    BY <1>5
  <2>2. /\ Cardinality(After(y)) <= Cardinality(After(x))
        /\ Cardinality(After(x)) = Cardinality(After(y)) => After(x) = After(y)
    BY <1>1, <2>1, FS_Subset
  <2>3. Cardinality(After(x)) # Cardinality(After(y))
    BY <2>1, <2>2
  <2>4. Cardinality(After(y)) \in Nat /\ Cardinality(After(x)) \in Nat
    BY <1>1
  <2> HIDE DEF After
  <2> QED
    BY <1>4, <2>2, <2>3, <2>4
<1> QED
  BY <1>5

LEMMA MaxIsInIt ==
  ASSUME NEW S \in SUBSET Nat, IsFiniteSet(S), S # {}
  PROVE  Max(S) \in S
<1> DEFINE Before == {p \in S \X S : p[1] < p[2]}
<1>1. Before \in SUBSET (S \X S)
  OBVIOUS
<1>2. \A x \in S : <<x, x>> \notin Before
  OBVIOUS
<1>3. \A x, y, z \in S : <<x, y>> \in Before /\ <<y, z>> \in Before => <<x, z>> \in Before
  OBVIOUS
<1>4. \A x, y \in S : x < y => <<x, y>> \in Before
  OBVIOUS
<1> HIDE DEF Before
<1>5. PICK x \in S : \A y \in S : <<x, y>> \notin Before
  BY <1>1, <1>2, <1>3, SomeLast
<1>6. \A y \in S : x >= y
  <2> SUFFICES ASSUME NEW y \in S PROVE x >= y
    OBVIOUS
  <2>1. ~(x < y)
    BY <1>4, <1>5
  <2>2. x \in Nat /\ y \in Nat
    OBVIOUS
  <2> QED
    BY <2>1, <2>2
<1> QED
  BY <1>6 DEF Max

\* How many come up to an element tells which it is.
LEMMA PositionIsStrict ==
  ASSUME NEW S \in SUBSET Nat, IsFiniteSet(S), NEW j \in S, NEW k \in S,
         Cardinality({i \in S : i <= j}) = Cardinality({i \in S : i <= k})
  PROVE  j = k
<1>1. ASSUME NEW a \in S, NEW b \in S, a < b,
             Cardinality({i \in S : i <= a}) = Cardinality({i \in S : i <= b})
      PROVE  FALSE
  <2> DEFINE A == {i \in S : i <= a}
             B == {i \in S : i <= b}
  <2>1. a \in Nat /\ b \in Nat /\ \A i \in S : i \in Nat
    OBVIOUS
  <2>2. \A i \in S : i <= a => i <= b
    BY <1>1, <2>1
  <2>3. A \in SUBSET B
    BY <2>2
  <2>4. b \in B /\ b \notin A
    BY <1>1, <2>1
  <2>5. IsFiniteSet(B)
    BY FS_Subset
  <2>6. B = A
    BY <1>1, <2>3, <2>5, FS_Subset
  <2> QED
    BY <2>4, <2>6
<1>2. j \in Nat /\ k \in Nat
  OBVIOUS
<1>3. ~(j < k) /\ ~(k < j)
  BY <1>1
<1> QED
  BY <1>2, <1>3

-----------------------------------------------------------------------------
(* compareVersion. *)

Stamp(v) == v.ts \in Nat /\ v.actor \in Nat /\ v.counter \in Nat

LEMMA OlderIsAnOrder ==
  /\ \A e : Stamp(e) => ~Older(e, e)
  /\ \A e, f, g : Stamp(e) /\ Stamp(f) /\ Stamp(g) /\ Older(e, f) /\ Older(f, g) => Older(e, g)
  /\ \A e, f : Stamp(e) /\ Stamp(f) => Older(e, f) \/ Older(f, e) \/ VersionOf(e) = VersionOf(f)
BY DEF Stamp, Older, VersionOf

LEMMA StampsOfVersions ==
  /\ \A e \in Event : Stamp(e) /\ Stamp(VersionOf(e)) /\ VersionOf(e) \in Version
  /\ \A v \in Version \cup {NoVersion} : Stamp(v)
  /\ \A e, f : (Older(VersionOf(e), f) <=> Older(e, f)) /\ (Older(f, VersionOf(e)) <=> Older(f, e))
<1>1. \A e \in Event : Stamp(e) /\ Stamp(VersionOf(e)) /\ VersionOf(e) \in Version
  <2> SUFFICES ASSUME NEW e \in Event PROVE Stamp(e) /\ Stamp(VersionOf(e)) /\ VersionOf(e) \in Version
    OBVIOUS
  <2>1. e.ts \in Nat /\ e.actor \in Node /\ e.actor \in Nat /\ e.counter \in Nat
    BY NodeAssumption DEF Event
  <2> QED
    BY <2>1 DEF Stamp, VersionOf, Version
<1>2. \A v \in Version \cup {NoVersion} : Stamp(v)
  <2> SUFFICES ASSUME NEW v \in Version \cup {NoVersion} PROVE Stamp(v)
    OBVIOUS
  <2>1. CASE v \in Version
    BY <2>1, NodeAssumption DEF Stamp, Version
  <2>2. CASE v = NoVersion
    BY <2>2 DEF Stamp, NoVersion
  <2> QED
    BY <2>1, <2>2
<1>3. \A e, f : (Older(VersionOf(e), f) <=> Older(e, f)) /\ (Older(f, VersionOf(e)) <=> Older(f, e))
  BY DEF VersionOf, Older
<1> QED
  BY <1>1, <1>2, <1>3
-----------------------------------------------------------------------------
(* What the variables hold. *)

Snapshot == [row : [Key -> Row], vector : Vector]
Cache == [events : SUBSET Event, vector : Vector, snapshot : Snapshot]
SyncType == [phase : {"idle", "pulling", "ended"}, toPull : SUBSET Node, rescan : BOOLEAN]

DbOK(d) == d \in Database /\ IsFiniteSet(d.events)
CacheOK(c) == c \in Cache /\ IsFiniteSet(c.events)

Types ==
    /\ db \in [Node -> Database] /\ saved \in [Node -> Database]
    /\ published \in [Node -> Cache] /\ sync \in [Node -> SyncType]
    /\ \A n \in Node : DbOK(db[n]) /\ DbOK(saved[n]) /\ CacheOK(published[n])
    /\ now \in 1 .. MaxScans + 1 /\ edits \in 0 .. MaxEdits

LEMMA TypesAreTypeOK == Types => TypeOK
BY DEF Types, TypeOK, Cache, Snapshot, SyncType

LEMMA ZeroVectorOK == ZeroVector \in Vector
BY DEF ZeroVector, Vector

LEMMA NothingOK == DbOK(EmptyDb) /\ CacheOK(NoCache) /\ Idle \in SyncType
<1>1. Absent \in Row
  BY DEF Row
<1>2. EmptyDb \in Database
  BY <1>1, ZeroVectorOK DEF EmptyDb, Database
<1>3. NoCache \in Cache
  BY <1>1, ZeroVectorOK DEF NoCache, NoSnapshot, Cache, Snapshot
<1>4. EmptyDb.events = {} /\ NoCache.events = {}
  BY DEF EmptyDb, NoCache
<1>5. Idle \in SyncType
  BY DEF Idle, SyncType
<1> QED
  BY <1>2, <1>3, <1>4, <1>5, FS_EmptySet DEF DbOK, CacheOK

LEMMA DbFields ==
  ASSUME NEW d \in Database
  PROVE  /\ d.row \in [Key -> Row] /\ d.known \in [Key -> Row]
         /\ d.version \in [Key -> Version \cup {NoVersion}]
         /\ d.events \in SUBSET Event /\ d.counter \in Nat
         /\ d.snapshotVector \in Vector /\ d.merged \in SUBSET Key
BY DEF Database

LEMMA VersionVectorOK ==
  ASSUME NEW d, DbOK(d)
  PROVE  /\ getVersionVector(d) \in Vector /\ getEffectiveVersionVector(d) \in Vector
         /\ \A a \in Node : \/ getVersionVector(d)[a] = 0
                            \/ \E e \in d.events : e.actor = a /\ e.counter = getVersionVector(d)[a]
         /\ \A a \in Node :
                getEffectiveVersionVector(d)[a] \in {getVersionVector(d)[a], d.snapshotVector[a]}
<1>0. d \in Database /\ IsFiniteSet(d.events) /\ d.events \in SUBSET Event
  BY DbFields DEF DbOK
<1>1. ASSUME NEW a \in Node
      PROVE  LET m == Max({0} \cup {e.counter : e \in {f \in d.events : f.actor = a}})
             IN m \in Nat /\ (m = 0 \/ \E e \in d.events : e.actor = a /\ e.counter = m)
  <2> DEFINE F == {f \in d.events : f.actor = a}
             C == {e.counter : e \in F}
             count == [e \in F |-> e.counter]
  <2>1. IsFiniteSet(F)
    BY <1>0, FS_Subset
  <2>2. count \in Surjection(F, C)
    BY DEF Surjection
  <2>3. IsFiniteSet(C)
    BY <2>1, <2>2, FS_Surjection
  <2>4. C \subseteq Nat
    BY <1>0 DEF Event
  <2> HIDE DEF C
  <2>5. IsFiniteSet({0} \cup C)
    <3>1. {0} \cup C = C \cup {0}
      OBVIOUS
    <3> QED
      BY <2>3, <3>1, FS_AddElement
  <2>6. {0} \cup C \in SUBSET Nat /\ {0} \cup C # {}
    BY <2>4
  <2>7. Max({0} \cup C) \in {0} \cup C
    BY <2>5, <2>6, MaxIsInIt
  <2>8. Max({0} \cup C) \in Nat
    BY <2>6, <2>7
  <2>9. Max({0} \cup C) = 0 \/ \E e \in F : e.counter = Max({0} \cup C)
    BY <2>7 DEF C
  <2> QED
    BY <2>8, <2>9 DEF C
<1>2. getVersionVector(d) \in Vector
  BY <1>1 DEF getVersionVector, Vector
<1>3. ASSUME NEW a \in Node
      PROVE  /\ Max({getVersionVector(d)[a], d.snapshotVector[a]}) \in Nat
             /\ Max({getVersionVector(d)[a], d.snapshotVector[a]}) \in
                    {getVersionVector(d)[a], d.snapshotVector[a]}
  <2> DEFINE x == getVersionVector(d)[a]
             y == d.snapshotVector[a]
  <2>1. x \in Nat /\ y \in Nat
    BY <1>0, <1>2, DbFields DEF Vector
  <2> HIDE DEF x, y
  <2>2. {x, y} \in SUBSET Nat /\ {x, y} # {} /\ IsFiniteSet({x, y})
    <3>1. IsFiniteSet({} \cup {x})
      BY FS_EmptySet, FS_AddElement
    <3>2. IsFiniteSet(({} \cup {x}) \cup {y})
      BY <3>1, FS_AddElement
    <3>3. {x, y} = ({} \cup {x}) \cup {y}
      OBVIOUS
    <3>4. IsFiniteSet({x, y})
      BY <3>2, <3>3
    <3> QED
      BY <2>1, <3>4
  <2>3. Max({x, y}) \in {x, y}
    BY <2>2, MaxIsInIt
  <2> QED
    BY <2>1, <2>3 DEF x, y
<1>4. getEffectiveVersionVector(d) \in Vector
  BY <1>3 DEF getEffectiveVersionVector, Vector
<1>5. \A a \in Node : \/ getVersionVector(d)[a] = 0
                      \/ \E e \in d.events : e.actor = a /\ e.counter = getVersionVector(d)[a]
  BY <1>1 DEF getVersionVector
<1>6. \A a \in Node :
          getEffectiveVersionVector(d)[a] \in {getVersionVector(d)[a], d.snapshotVector[a]}
  BY <1>3 DEF getEffectiveVersionVector
<1> QED
  BY <1>2, <1>4, <1>5, <1>6

-----------------------------------------------------------------------------
(* Local changes. *)

NewEvents(n, d) == {LocalEvent(n, d, k) : k \in Changed(d)}

LEMMA LocalEventOK ==
  ASSUME NEW n \in Node, NEW d \in Database, NEW k \in Key, now \in Nat
  PROVE  /\ LocalEvent(n, d, k) \in Event
         /\ LocalEvent(n, d, k).ts = now + Skew[n] /\ LocalEvent(n, d, k).actor = n
         /\ LocalEvent(n, d, k).key = k /\ LocalEvent(n, d, k).value = d.row[k]
         /\ LocalEvent(n, d, k).counter = d.counter + Cardinality({j \in Changed(d) : j <= k})
         /\ Cardinality({j \in Changed(d) : j <= k}) \in Nat
<1>1. IsFiniteSet({j \in Changed(d) : j <= k})
  <2>1. {j \in Changed(d) : j <= k} \in SUBSET Key
    BY DEF Changed
  <2> QED
    BY <2>1, NodeAssumption, FS_Subset
<1>2. Cardinality({j \in Changed(d) : j <= k}) \in Nat
  BY <1>1, FS_CardinalityType
<1>3. d.counter \in Nat /\ d.row[k] \in Row /\ now + Skew[n] \in Nat
  BY DbFields, ShapeAssumption
<1> QED
  BY <1>2, <1>3 DEF LocalEvent, Event

LEMMA ScanOK ==
  ASSUME NEW n \in Node, NEW d, DbOK(d), now \in Nat
  PROVE  /\ DbOK(scanLocalChanges(n, d))
         /\ scanLocalChanges(n, d).row = d.row /\ scanLocalChanges(n, d).known = d.row
         /\ scanLocalChanges(n, d).version =
              [k \in Key |-> IF k \in Changed(d) THEN VersionOf(LocalEvent(n, d, k)) ELSE d.version[k]]
         /\ scanLocalChanges(n, d).events = WithEvents(d.events, NewEvents(n, d))
         /\ NewEvents(n, d) \subseteq Event
<1> DEFINE version == [k \in Key |-> IF k \in Changed(d) THEN VersionOf(LocalEvent(n, d, k)) ELSE d.version[k]]
           events == WithEvents(d.events, NewEvents(n, d))
           counter == d.counter + Cardinality(Changed(d))
<1>0. d \in Database /\ IsFiniteSet(d.events)
  BY DEF DbOK
<1>1. scanLocalChanges(n, d) = [d EXCEPT !.known = d.row, !.version = version, !.events = events, !.counter = counter]
  BY DEF scanLocalChanges, NewEvents
<1>2. Changed(d) \in SUBSET Key /\ IsFiniteSet(Changed(d))
  <2>1. Changed(d) \in SUBSET Key
    BY DEF Changed
  <2> QED
    BY <2>1, NodeAssumption, FS_Subset
<1>3. counter \in Nat
  BY <1>0, <1>2, DbFields, FS_CardinalityType
<1>11. \A k \in Key : LocalEvent(n, d, k) \in Event
  BY <1>0, LocalEventOK
<1>4. version \in [Key -> Version \cup {NoVersion}]
  <2> SUFFICES ASSUME NEW k \in Key
               PROVE  VersionOf(LocalEvent(n, d, k)) \in Version /\ d.version[k] \in Version \cup {NoVersion}
    OBVIOUS
  <2>1. LocalEvent(n, d, k) \in Event
    BY <1>11
  <2> QED
    BY <1>0, <2>1, StampsOfVersions, DbFields
<1>5. NewEvents(n, d) \subseteq Event
  BY <1>2, <1>11 DEF NewEvents
<1>6. IsFiniteSet(NewEvents(n, d))
  <2> DEFINE f == [k \in Changed(d) |-> LocalEvent(n, d, k)]
  <2>1. f \in Surjection(Changed(d), NewEvents(n, d))
    BY DEF Surjection, NewEvents
  <2> QED
    BY <1>2, <2>1, FS_Surjection
<1>7. events \in SUBSET Event /\ IsFiniteSet(events)
  <2>1. {e \in d.events : \A f \in NewEvents(n, d) : ~SameId(e, f)} \in SUBSET d.events
    OBVIOUS
  <2>2. IsFiniteSet({e \in d.events : \A f \in NewEvents(n, d) : ~SameId(e, f)})
    BY <1>0, <2>1, FS_Subset
  <2> QED
    BY <1>0, <1>5, <1>6, <2>1, <2>2, FS_Union, DbFields DEF WithEvents
<1> HIDE DEF version, events, counter
<1>8. d.row \in [Key -> Row]
  BY <1>0, DbFields
<1>9. scanLocalChanges(n, d) \in Database
  BY <1>0, <1>1, <1>3, <1>4, <1>7, <1>8 DEF Database
<1>10. /\ scanLocalChanges(n, d).row = d.row /\ scanLocalChanges(n, d).known = d.row
       /\ scanLocalChanges(n, d).version = version /\ scanLocalChanges(n, d).events = events
  BY <1>0, <1>1 DEF Database
<1> QED
  BY <1>5, <1>7, <1>9, <1>10 DEF DbOK, version, events
-----------------------------------------------------------------------------
(* Remote events. *)

\* The event that is applied to a row, if one is.
Winner(wins, k) == CHOOSE e \in wins : e.key = k
HasWinner(wins, k) == \E e \in wins : e.key = k

LEMMA WinnerIsOne ==
  ASSUME NEW wins, NEW k, HasWinner(wins, k)
  PROVE  Winner(wins, k) \in wins /\ Winner(wins, k).key = k
BY DEF Winner, HasWinner

LEMMA ApplyOK ==
  ASSUME NEW d, DbOK(d), NEW received \in SUBSET Event, IsFiniteSet(received)
  PROVE  LET wins == Wins(d, received)
             e == applyRemoteEvents(d, received)
         IN /\ DbOK(e)
            /\ e.known = [k \in Key |-> IF HasWinner(wins, k) THEN Winner(wins, k).value ELSE d.known[k]]
            /\ e.version = [k \in Key |-> IF HasWinner(wins, k) THEN VersionOf(Winner(wins, k))
                                                                ELSE d.version[k]]
            /\ e.events = d.events \cup Unknown(d, received)
            /\ wins \subseteq Unknown(d, received) /\ Unknown(d, received) \subseteq received
<1> DEFINE wins == Wins(d, received)
           row == [k \in Key |-> IF HasWinner(wins, k) THEN Winner(wins, k).value ELSE d.row[k]]
           known == [k \in Key |-> IF HasWinner(wins, k) THEN Winner(wins, k).value ELSE d.known[k]]
           version == [k \in Key |-> IF HasWinner(wins, k) THEN VersionOf(Winner(wins, k)) ELSE d.version[k]]
           events == d.events \cup Unknown(d, received)
<1>0. d \in Database /\ IsFiniteSet(d.events)
  BY DEF DbOK
<1>1. wins \subseteq Unknown(d, received) /\ Unknown(d, received) \in SUBSET received
  BY DEF Wins, Unknown
<1>2. applyRemoteEvents(d, received) =
        [[d EXCEPT !.row = row, !.known = known, !.version = version] EXCEPT !.events = d.events \cup Unknown(d, received)]
  <2>1. /\ Overwritten(d.row, wins) = row /\ Overwritten(d.known, wins) = known
        /\ Versioned(d.version, wins) = version
    BY DEF Overwritten, Versioned, Winner, HasWinner
  <2>2. Applied(d, wins) = [d EXCEPT !.row = row, !.known = known, !.version = version]
    BY <2>1 DEF Applied
  <2>3. Applied(d, wins).events = d.events
    BY <1>0, <2>2 DEF Database
  <2> HIDE DEF row, known, version
  <2> QED
    BY <2>2, <2>3 DEF applyRemoteEvents
<1>3. \A k \in Key : HasWinner(wins, k) => Winner(wins, k) \in Event
  BY <1>1, WinnerIsOne
<1>4. \A e \in Event : e.value \in Row
  BY DEF Event
<1>5. row \in [Key -> Row] /\ known \in [Key -> Row]
  <2>1. \A k \in Key : d.row[k] \in Row /\ d.known[k] \in Row
    BY <1>0, DbFields
  <2> HIDE DEF wins
  <2> QED
    BY <1>3, <1>4, <2>1
<1>6. version \in [Key -> Version \cup {NoVersion}]
  <2>1. \A k \in Key : d.version[k] \in Version \cup {NoVersion}
    BY <1>0, DbFields
  <2>2. \A e \in Event : VersionOf(e) \in Version
    BY StampsOfVersions
  <2> HIDE DEF wins
  <2> QED
    BY <1>3, <2>1, <2>2
<1>7. events \in SUBSET Event /\ IsFiniteSet(events)
  <2>1. IsFiniteSet(Unknown(d, received))
    BY <1>1, FS_Subset
  <2> QED
    BY <1>0, <1>1, <2>1, DbFields, FS_Union
<1> HIDE DEF row, known, version, events
<1>8. applyRemoteEvents(d, received) \in Database
  BY <1>0, <1>2, <1>5, <1>6, <1>7 DEF Database, events
<1>9. /\ applyRemoteEvents(d, received).known = known
      /\ applyRemoteEvents(d, received).version = version
      /\ applyRemoteEvents(d, received).events = events
  BY <1>0, <1>2 DEF Database, events
<1> QED
  BY <1>1, <1>7, <1>8, <1>9 DEF DbOK, known, version, events

-----------------------------------------------------------------------------
(* Snapshots, merges and pruning: neither makes events or gives rows a      *)
(* version.                                                                 *)

SameHistory(d, e) == e.known = d.known /\ e.version = d.version /\ e.events \subseteq d.events

LEMMA SnapshotOK ==
  ASSUME NEW d, DbOK(d), NEW s \in Snapshot
  PROVE  DbOK(applySnapshot(d, s)) /\ SameHistory(d, applySnapshot(d, s))
<1> DEFINE row == [k \in Key |-> IF s.row[k] = Absent THEN d.row[k] ELSE s.row[k]]
<1>1. d \in Database /\ IsFiniteSet(d.events)
  BY DEF DbOK
<1>2. row \in [Key -> Row] /\ s.vector \in Vector
  BY <1>1, DbFields DEF Snapshot
<1>3. applySnapshot(d, s) = [d EXCEPT !.row = row, !.snapshotVector = s.vector]
  BY DEF applySnapshot
<1> HIDE DEF row
<1>4. applySnapshot(d, s) \in Database
  BY <1>1, <1>2, <1>3 DEF Database
<1>5. SameHistory(d, applySnapshot(d, s)) /\ applySnapshot(d, s).events = d.events
  BY <1>1, <1>3 DEF SameHistory, Database
<1> QED
  BY <1>1, <1>4, <1>5 DEF DbOK

LEMMA MergeOK ==
  ASSUME NEW d, DbOK(d)
  PROVE  DbOK(mergeSimilarStories(d)) /\ SameHistory(d, mergeSimilarStories(d))
<1> DEFINE from(k) == {i \in Duplicates(d) : CanonicalOf[i] = k}
           row == [k \in Key |-> IF k \in Duplicates(d) THEN Absent
                                 ELSE mergedStatus({d.row[k]} \cup {d.row[j] : j \in from(k)})]
<1>1. d \in Database /\ IsFiniteSet(d.events) /\ d.row \in [Key -> Row] /\ d.merged \in SUBSET Key
  BY DbFields DEF DbOK
<1>2. Duplicates(d) \in SUBSET Key
  BY DEF Duplicates
<1>3. Row \subseteq Nat /\ Absent \in Row
  BY ValueAssumption DEF Row
<1>4. ASSUME NEW k \in Key PROVE mergedStatus({d.row[k]} \cup {d.row[j] : j \in from(k)}) \in Row
  <2> DEFINE J == from(k)
             C == {d.row[j] : j \in J}
             given == [j \in J |-> d.row[j]]
  <2>1. J \in SUBSET Key /\ IsFiniteSet(J)
    <3>1. J \in SUBSET Key
      BY <1>2
    <3> QED
      BY <3>1, NodeAssumption, FS_Subset
  <2>2. given \in Surjection(J, C)
    BY DEF Surjection
  <2> HIDE DEF J
  <2>3. IsFiniteSet(C)
    BY <2>1, <2>2, FS_Surjection
  <2>4. C \subseteq Row /\ d.row[k] \in Row
    BY <1>1, <2>1
  <2> HIDE DEF C
  <2>5. IsFiniteSet(C \cup {d.row[k]}) /\ {d.row[k]} \cup C = C \cup {d.row[k]}
    BY <2>3, FS_AddElement
  <2>6. {d.row[k]} \cup C \in SUBSET Nat /\ {d.row[k]} \cup C # {} /\ {d.row[k]} \cup C \subseteq Row
    BY <1>3, <2>4
  <2>7. Max({d.row[k]} \cup C) \in {d.row[k]} \cup C
    BY <2>5, <2>6, MaxIsInIt
  <2>8. Max({d.row[k]} \cup C) \in Row
    BY <2>6, <2>7
  <2> QED
    BY <2>8 DEF mergedStatus, C, J
<1>5. row \in [Key -> Row]
  BY <1>3, <1>4
<1>6. mergeSimilarStories(d) = [d EXCEPT !.row = row, !.merged = d.merged \cup Duplicates(d)]
  BY DEF mergeSimilarStories
<1> HIDE DEF row
<1>7. mergeSimilarStories(d) \in Database
  BY <1>1, <1>2, <1>5, <1>6 DEF Database
<1>8. SameHistory(d, mergeSimilarStories(d)) /\ mergeSimilarStories(d).events = d.events
  BY <1>1, <1>6 DEF SameHistory, Database
<1> QED
  BY <1>1, <1>7, <1>8 DEF DbOK

LEMMA PrunedOK ==
  ASSUME NEW d, DbOK(d)
  PROVE  DbOK(Pruned(d)) /\ SameHistory(d, Pruned(d))
<1>1. d \in Database /\ IsFiniteSet(d.events) /\ d.events \in SUBSET Event
  BY DbFields DEF DbOK
<1>2. Latest(d.events, MaxEvents) \in SUBSET d.events
  BY DEF Latest
<1>3. Pruned(d) = [d EXCEPT !.events = Latest(d.events, MaxEvents)]
  BY DEF Pruned
<1>4. Pruned(d) \in Database
  BY <1>1, <1>2, <1>3 DEF Database
<1>5. SameHistory(d, Pruned(d)) /\ Pruned(d).events = Latest(d.events, MaxEvents)
  BY <1>1, <1>2, <1>3 DEF SameHistory, Database
<1> QED
  BY <1>1, <1>2, <1>4, <1>5, FS_Subset DEF DbOK

-----------------------------------------------------------------------------
(* Every action keeps the types. *)

LEMMA OneDatabase ==
  ASSUME NEW f \in [Node -> Database], \A m \in Node : DbOK(f[m]), NEW n \in Node, NEW d, DbOK(d)
  PROVE  /\ [f EXCEPT ![n] = d] \in [Node -> Database]
         /\ \A m \in Node : DbOK([f EXCEPT ![n] = d][m])
BY DEF DbOK

LEMMA OneCache ==
  ASSUME NEW f \in [Node -> Cache], \A m \in Node : CacheOK(f[m]), NEW n \in Node, NEW c, CacheOK(c)
  PROVE  /\ [f EXCEPT ![n] = c] \in [Node -> Cache]
         /\ \A m \in Node : CacheOK([f EXCEPT ![n] = c][m])
BY DEF CacheOK

LEMMA TickOK ==
  ASSUME Types, NEW emitted \in BOOLEAN, emitted => now <= MaxScans, Tick(emitted)
  PROVE  now' \in 1 .. MaxScans + 1 /\ now' \in Nat /\ now' >= now
<1>1. MaxScans \in Nat
  BY LimitAssumption
<1> QED
  BY <1>1 DEF Types, Tick

\* An answer holds events of the peer's cache.
LEMMA DeltaOK ==
  ASSUME Types, NEW n \in Node, NEW p \in Node
  PROVE  /\ Delta(n, p) \in SUBSET published[p].events
         /\ Delta(n, p) \in SUBSET Event /\ IsFiniteSet(Delta(n, p))
<1>1. CacheOK(published[p])
  BY DEF Types
<1>2. published[p].events \in SUBSET Event /\ IsFiniteSet(published[p].events)
  BY <1>1 DEF CacheOK, Cache
<1>3. Delta(n, p) \in SUBSET published[p].events
  BY DEF Delta, getDeltaFromCache, Oldest
<1> QED
  BY <1>2, <1>3, FS_Subset

LEMMA BuildSnapshotOK ==
  ASSUME NEW d, DbOK(d)
  PROVE  buildSnapshot(d) \in Snapshot
<1>1. d \in Database
  BY DEF DbOK
<1> QED
  BY <1>1, DbFields, VersionVectorOK DEF buildSnapshot, Snapshot

\* What EndSync leaves in the database, before events are pruned.
Scanned(n) ==
  LET d == mergeSimilarStories(db[n])
  IN  IF sync[n].rescan \/ Duplicates(db[n]) # {} THEN scanLocalChanges(n, d) ELSE d

LEMMA InitTypes == Init => Types
<1> SUFFICES ASSUME Init PROVE Types
  OBVIOUS
<1>1. EmptyDb \in Database /\ NoCache \in Cache
  BY NothingOK DEF DbOK, CacheOK
<1>2. MaxScans \in Nat /\ MaxEdits \in Nat
  BY LimitAssumption
<1>3. now \in 1 .. MaxScans + 1 /\ edits \in 0 .. MaxEdits
  BY <1>2 DEF Init
<1> QED
  BY <1>1, <1>3, NothingOK DEF Init, Types

LEMMA EditTypes ==
  ASSUME Types, NEW n \in Node, NEW k \in Key, NEW v \in Row, EditRow(n, k, v)
  PROVE  Types' /\ db' = [db EXCEPT ![n] = [db[n] EXCEPT !.row = [db[n].row EXCEPT ![k] = v]]]
<1> DEFINE d == [db[n] EXCEPT !.row = [db[n].row EXCEPT ![k] = v]]
<1>1. db[n] \in Database /\ IsFiniteSet(db[n].events)
  BY DEF Types, DbOK
<1>2. [db[n].row EXCEPT ![k] = v] \in [Key -> Row]
  BY <1>1, DbFields
<1>3. d \in Database /\ d.events = db[n].events
  BY <1>1, <1>2 DEF Database
<1>4. DbOK(d)
  BY <1>1, <1>3 DEF DbOK
<1>5. db' = [db EXCEPT ![n] = d]
  BY DEF EditRow, Types
<1>6. saved' = [saved EXCEPT ![n] = d]
  BY <1>5 DEF EditRow, Types
<1>7. edits' \in 0 .. MaxEdits
  BY LimitAssumption DEF EditRow, Types
<1> HIDE DEF d
<1>8. db' \in [Node -> Database] /\ \A m \in Node : DbOK(db'[m])
  BY <1>4, <1>5, OneDatabase DEF Types
<1>9. saved' \in [Node -> Database] /\ \A m \in Node : DbOK(saved'[m])
  BY <1>4, <1>6, OneDatabase DEF Types
<1> QED
  BY <1>5, <1>7, <1>8, <1>9 DEF EditRow, Types, d

LEMMA BeginTypes ==
  ASSUME Types, NEW n \in Node, BeginSync(n)
  PROVE  Types'
<1>1. DbOK(db[n]) /\ now \in Nat /\ MaxScans \in Nat /\ CacheOK(published[n])
  BY LimitAssumption DEF Types
<1>2. DbOK(scanLocalChanges(n, db[n]))
  BY <1>1, ScanOK
<1>3. db' = [db EXCEPT ![n] = scanLocalChanges(n, db[n])]
  BY DEF BeginSync
<1> DEFINE c == [published[n] EXCEPT !.snapshot = buildSnapshot(db[n])]
<1>4. published' = [published EXCEPT ![n] = c]
  BY DEF BeginSync
<1>5. CacheOK(c)
  <2>1. buildSnapshot(db[n]) \in Snapshot
    BY <1>1, BuildSnapshotOK
  <2>2. published[n] \in Cache /\ IsFiniteSet(published[n].events)
    BY <1>1 DEF CacheOK
  <2>3. c \in Cache /\ c.events = published[n].events
    BY <2>1, <2>2 DEF Cache
  <2> QED
    BY <2>2, <2>3 DEF CacheOK
<1> HIDE DEF c
<1>6. now' \in 1 .. MaxScans + 1
  <2> DEFINE emitted == Changed(db[n]) # {}
  <2>1. Tick(emitted) /\ (emitted => now <= MaxScans) /\ emitted \in BOOLEAN
    BY DEF BeginSync
  <2> HIDE DEF emitted
  <2> QED
    BY <2>1, TickOK
<1>7. sync' \in [Node -> SyncType]
  <2>1. Peers[n] \ {n} \in SUBSET Node
    BY ShapeAssumption
  <2>2. [phase |-> "pulling", toPull |-> Peers[n] \ {n}, rescan |-> FALSE] \in SyncType
    BY <2>1 DEF SyncType
  <2> QED
    BY <2>2 DEF BeginSync, Types
<1>8. db' \in [Node -> Database] /\ \A m \in Node : DbOK(db'[m])
  BY <1>2, <1>3, OneDatabase DEF Types
<1>9. published' \in [Node -> Cache] /\ \A m \in Node : CacheOK(published'[m])
  BY <1>4, <1>5, OneCache DEF Types
<1> QED
  BY <1>6, <1>7, <1>8, <1>9 DEF BeginSync, Types

LEMMA ImportTypes ==
  ASSUME Types, NEW n \in Node, NEW p \in Node, ImportDelta(n, p)
  PROVE  Types'
<1>1. DbOK(db[n])
  BY DEF Types
<1>2. DbOK(applyRemoteEvents(db[n], Delta(n, p)))
  <2>1. Delta(n, p) \in SUBSET Event /\ IsFiniteSet(Delta(n, p))
    BY DeltaOK
  <2> HIDE DEF Types
  <2> QED
    BY <1>1, <2>1, ApplyOK
<1>3. db' = [db EXCEPT ![n] = applyRemoteEvents(db[n], Delta(n, p))]
  BY DEF ImportDelta
<1>4. db' \in [Node -> Database] /\ \A m \in Node : DbOK(db'[m])
  BY <1>2, <1>3, OneDatabase DEF Types
<1>5. sync' \in [Node -> SyncType]
  <2> DEFINE rescan == sync[n].rescan \/ Wins(db[n], Delta(n, p)) # {}
  <2>1. sync[n] \in SyncType /\ sync[n].toPull \ {p} \in SUBSET Node /\ rescan \in BOOLEAN
    BY DEF Types, SyncType
  <2> HIDE DEF rescan
  <2>2. [sync[n] EXCEPT !.toPull = @ \ {p}, !.rescan = rescan] \in SyncType
    BY <2>1 DEF SyncType
  <2>3. sync' = [sync EXCEPT ![n] = [sync[n] EXCEPT !.toPull = @ \ {p}, !.rescan = rescan]]
    BY DEF ImportDelta, Types, SyncType, rescan
  <2> QED
    BY <2>2, <2>3 DEF Types
<1> QED
  BY <1>4, <1>5 DEF ImportDelta, Types

LEMMA RecoverTypes ==
  ASSUME Types, NEW n \in Node, NEW p \in Node, RecoverFromSnapshot(n, p)
  PROVE  Types'
<1>1. DbOK(db[n]) /\ published[p].snapshot \in Snapshot
  BY DEF Types, CacheOK, Cache
<1>2. DbOK(applySnapshot(db[n], published[p].snapshot))
  BY <1>1, SnapshotOK
<1>3. db' = [db EXCEPT ![n] = applySnapshot(db[n], published[p].snapshot)]
  BY DEF RecoverFromSnapshot
<1>4. db' \in [Node -> Database] /\ \A m \in Node : DbOK(db'[m])
  BY <1>2, <1>3, OneDatabase DEF Types
<1>5. sync' \in [Node -> SyncType]
  <2>1. sync[n] \in SyncType
    BY DEF Types
  <2>2. [sync[n] EXCEPT !.toPull = {}, !.rescan = TRUE] \in SyncType
    BY <2>1 DEF SyncType
  <2> QED
    BY <2>2 DEF RecoverFromSnapshot, Types
<1> QED
  BY <1>4, <1>5 DEF RecoverFromSnapshot, Types

LEMMA ScannedOK ==
  ASSUME Types, NEW n \in Node
  PROVE  DbOK(mergeSimilarStories(db[n])) /\ DbOK(Scanned(n)) /\ DbOK(Pruned(Scanned(n)))
<1>1. DbOK(db[n]) /\ now \in Nat
  BY LimitAssumption DEF Types
<1>2. DbOK(mergeSimilarStories(db[n]))
  BY <1>1, MergeOK
<1>3. DbOK(scanLocalChanges(n, mergeSimilarStories(db[n])))
  BY <1>1, <1>2, ScanOK
<1>4. DbOK(Scanned(n))
  BY <1>2, <1>3 DEF Scanned
<1> QED
  BY <1>2, <1>4, PrunedOK

\* What EndSync does, its local definitions expanded.
Emits(n) ==
    /\ sync[n].rescan \/ Duplicates(db[n]) # {}
    /\ Changed(mergeSimilarStories(db[n])) # {}

LEMMA EndSyncParts ==
  ASSUME NEW n \in Node, EndSync(n)
  PROVE  /\ Emits(n) => now <= MaxScans
         /\ Tick(Emits(n))
         /\ \E final \in {Scanned(n), Pruned(Scanned(n))} :
              /\ db' = [db EXCEPT ![n] = final]
              /\ published' = [published EXCEPT ![n] =
                    [published[n] EXCEPT !.events = Latest(final.events, CacheSize),
                                         !.vector = getVersionVector(final)]]
         /\ sync' = [sync EXCEPT ![n] = [Idle EXCEPT !.phase = "ended"]]
         /\ UNCHANGED <<saved, edits>>
BY DEF EndSync, Emits, Scanned

LEMMA EndTypes ==
  ASSUME Types, NEW n \in Node, EndSync(n)
  PROVE  Types'
<1>1. PICK final \in {Scanned(n), Pruned(Scanned(n))} :
              /\ db' = [db EXCEPT ![n] = final]
              /\ published' = [published EXCEPT ![n] =
                    [published[n] EXCEPT !.events = Latest(final.events, CacheSize),
                                         !.vector = getVersionVector(final)]]
  BY EndSyncParts
<1>2. DbOK(final)
  BY ScannedOK
<1>3. db' \in [Node -> Database] /\ \A m \in Node : DbOK(db'[m])
  BY <1>1, <1>2, OneDatabase DEF Types
<1> DEFINE c == [published[n] EXCEPT !.events = Latest(final.events, CacheSize),
                                     !.vector = getVersionVector(final)]
<1>4. CacheOK(c)
  <2>1. published[n] \in Cache
    BY DEF Types
  <2>2. getVersionVector(final) \in Vector
    BY <1>2, VersionVectorOK
  <2>3. final.events \in SUBSET Event /\ IsFiniteSet(final.events)
    BY <1>2, DbFields DEF DbOK
  <2>4. Latest(final.events, CacheSize) \in SUBSET final.events
    BY DEF Latest
  <2>5. Latest(final.events, CacheSize) \in SUBSET Event /\ IsFiniteSet(Latest(final.events, CacheSize))
    BY <2>3, <2>4, FS_Subset
  <2>6. c \in Cache /\ c.events = Latest(final.events, CacheSize)
    BY <2>1, <2>2, <2>5 DEF Cache
  <2> QED
    BY <2>5, <2>6 DEF CacheOK
<1> HIDE DEF c
<1>5. published' \in [Node -> Cache] /\ \A m \in Node : CacheOK(published'[m])
  <2>1. published' = [published EXCEPT ![n] = c]
    BY <1>1 DEF c
  <2> QED
    BY <1>4, <2>1, OneCache DEF Types
<1>6. now' \in 1 .. MaxScans + 1
  <2>1. Emits(n) \in BOOLEAN
    BY DEF Emits
  <2>2. Tick(Emits(n)) /\ (Emits(n) => now <= MaxScans)
    BY EndSyncParts
  <2> QED
    BY <2>1, <2>2, TickOK
<1>7. sync' \in [Node -> SyncType] /\ UNCHANGED <<saved, edits>>
  <2>1. [Idle EXCEPT !.phase = "ended"] \in SyncType
    BY DEF Idle, SyncType
  <2> QED
    BY <2>1, EndSyncParts DEF Types
<1> QED
  BY <1>3, <1>5, <1>6, <1>7 DEF Types

LEMMA UnreachableTypes ==
  ASSUME Types, NEW n \in Node, NEW p \in Node, PeerUnreachable(n, p)
  PROVE  Types'
<1>1. sync[n] \in SyncType /\ sync[n].toPull \ {p} \in SUBSET Node
  BY DEF Types, SyncType
<1>2. [sync[n] EXCEPT !.toPull = @ \ {p}] \in SyncType
  BY <1>1 DEF SyncType
<1>3. sync' = [sync EXCEPT ![n] = [sync[n] EXCEPT !.toPull = @ \ {p}]]
  BY DEF PeerUnreachable
<1> QED
  BY <1>2, <1>3 DEF PeerUnreachable, Types

LEMMA SaveTypes ==
  ASSUME Types, NEW n \in Node, SaveDb(n)
  PROVE  Types'
<1>1. saved' \in [Node -> Database] /\ \A m \in Node : DbOK(saved'[m])
  BY OneDatabase DEF SaveDb, Types
<1>2. sync' \in [Node -> SyncType]
  BY NothingOK DEF SaveDb, Types
<1> QED
  BY <1>1, <1>2 DEF SaveDb, Types

LEMMA CrashTypes ==
  ASSUME Types, NEW n \in Node, Crash(n)
  PROVE  Types'
<1>1. db' \in [Node -> Database] /\ \A m \in Node : DbOK(db'[m])
  BY OneDatabase DEF Crash, Types
<1>2. published' \in [Node -> Cache] /\ \A m \in Node : CacheOK(published'[m])
  BY OneCache, NothingOK DEF Crash, Types
<1>3. sync' \in [Node -> SyncType]
  BY NothingOK DEF Crash, Types
<1> QED
  BY <1>1, <1>2, <1>3 DEF Crash, Types

LEMMA NextTypes ==
  ASSUME Types, [Next]_vars
  PROVE  Types'
<1>1. ASSUME NEW n \in Node, NEW k \in Key, NEW v \in Row, EditRow(n, k, v) PROVE Types'
  BY <1>1, EditTypes
<1>2. ASSUME NEW n \in Node, BeginSync(n) PROVE Types'
  BY <1>2, BeginTypes
<1>3. ASSUME NEW n \in Node, NEW p \in Node, PullDelta(n, p) PROVE Types'
  BY <1>3, ImportTypes DEF PullDelta
<1>4. ASSUME NEW n \in Node, NEW p \in Node, RecoverFromSnapshot(n, p) PROVE Types'
  BY <1>4, RecoverTypes
<1>5. ASSUME NEW n \in Node, NEW p \in Node, SnapshotFails(n, p) PROVE Types'
  BY <1>5, ImportTypes DEF SnapshotFails
<1>6. ASSUME NEW n \in Node, NEW p \in Node, PeerUnreachable(n, p) PROVE Types'
  BY <1>6, UnreachableTypes
<1>7. ASSUME NEW n \in Node, EndSync(n) PROVE Types'
  BY <1>7, EndTypes
<1>8. ASSUME NEW n \in Node, SaveDb(n) PROVE Types'
  BY <1>8, SaveTypes
<1>9. ASSUME NEW n \in Node, Crash(n) PROVE Types'
  BY <1>9, CrashTypes
<1>10. CASE UNCHANGED vars
  BY <1>10 DEF vars, Types
<1> QED
  BY <1>1, <1>2, <1>3, <1>4, <1>5, <1>6, <1>7, <1>8, <1>9, <1>10 DEF Next

\* Every variable of the replication has its type, whatever the nodes do.
THEOREM TypeCorrect == Spec => []TypeOK
<1>1. Init => Types
  BY InitTypes
<1>2. Types /\ [Next]_vars => Types'
  BY NextTypes
<1>3. Types => TypeOK
  BY TypesAreTypeOK
<1> QED
  BY <1>1, <1>2, <1>3, PTL DEF Spec

-----------------------------------------------------------------------------
(* With clocks that agree, a scan stamps its events with a time that no     *)
(* event and no row anywhere has, and so what a database makes of its       *)
(* events stays true when others come.                                      *)

EqualClocks == \A n, p \in Node : Skew[n] = Skew[p]

Everywhere == UNION {db[n].events \cup saved[n].events \cup published[n].events : n \in Node}

\* The events of E have been stamped before the time t.
Stamped(E, t) == \A e \in E : e \in Event /\ e.ts >= 1 /\ \A n \in Node : e.ts < t + Skew[n]

Distinct(E) == \A e, f \in E : VersionOf(e) = VersionOf(f) => e = f

NothingNewer(d) == \A e \in d.events : ~Older(d.version[e.key], e)

KnownIsTheVersions(d, E) ==
    \A e \in E : d.version[e.key] = VersionOf(e) => d.known[e.key] = e.value

VersionedBefore(d, t) == \A k \in Key, n \in Node : d.version[k].ts < t + Skew[n]

Sound(d, E, t) == NothingNewer(d) /\ KnownIsTheVersions(d, E) /\ VersionedBefore(d, t)

FollowInv ==
    /\ Stamped(Everywhere, now) /\ Distinct(Everywhere)
    /\ \A n \in Node : Sound(db[n], Everywhere, now) /\ Sound(saved[n], Everywhere, now)

LEMMA SoundStays ==
  ASSUME NEW d, NEW e, NEW E, NEW F \in SUBSET E, NEW t,
         Sound(d, E, t), SameHistory(d, e)
  PROVE  Sound(e, F, t)
BY DEF Sound, SameHistory, NothingNewer, KnownIsTheVersions, VersionedBefore

LEMMA TimesAreNumbers ==
  ASSUME NEW d, DbOK(d), NEW k \in Key
  PROVE  d.version[k].ts \in Nat
<1>1. d.version[k] \in Version \cup {NoVersion}
  BY DbFields DEF DbOK
<1> QED
  BY <1>1 DEF Version, NoVersion

\* A database is not concerned by the events of a scan elsewhere.
LEMMA SoundElsewhere ==
  ASSUME NEW d, DbOK(d), NEW E, NEW N, NEW t \in Nat, Sound(d, E, t),
         \A e \in N : e.key \in Key /\ \E n \in Node : e.ts = t + Skew[n],
         NEW u \in Nat, u >= t
  PROVE  Sound(d, E \cup N, u)
<1>1. VersionedBefore(d, u)
  <2> SUFFICES ASSUME NEW k \in Key, NEW n \in Node PROVE d.version[k].ts < u + Skew[n]
    BY DEF VersionedBefore
  <2>1. d.version[k].ts < t + Skew[n]
    BY DEF Sound, VersionedBefore
  <2>2. d.version[k].ts \in Nat /\ Skew[n] \in Nat
    BY TimesAreNumbers, ShapeAssumption
  <2> QED
    BY <2>1, <2>2
<1>2. ASSUME NEW e \in N PROVE d.version[e.key] # VersionOf(e)
  <2>1. PICK n \in Node : e.ts = t + Skew[n]
    OBVIOUS
  <2>2. e.key \in Key
    OBVIOUS
  <2>3. d.version[e.key].ts < t + Skew[n]
    BY <2>2 DEF Sound, VersionedBefore
  <2>4. VersionOf(e).ts = e.ts
    BY DEF VersionOf
  <2>5. d.version[e.key].ts \in Nat /\ Skew[n] \in Nat
    BY <2>2, TimesAreNumbers, ShapeAssumption
  <2>6. d.version[e.key].ts # e.ts
    BY <2>1, <2>3, <2>5
  <2> QED
    BY <2>4, <2>6
<1> QED
  BY <1>1, <1>2 DEF Sound, KnownIsTheVersions

LEMMA NewEventsAre ==
  ASSUME NEW n \in Node, NEW d, DbOK(d), now \in Nat, NEW e \in NewEvents(n, d)
  PROVE  /\ e \in Event /\ e.key \in Key /\ e.key \in Changed(d)
         /\ e = LocalEvent(n, d, e.key) /\ e.ts = now + Skew[n] /\ e.actor = n
         /\ e.value = d.row[e.key]
<1>1. PICK k \in Changed(d) : e = LocalEvent(n, d, k)
  BY DEF NewEvents
<1>2. k \in Key /\ d \in Database
  BY DEF Changed, DbOK
<1>3. /\ e \in Event /\ e.ts = now + Skew[n] /\ e.actor = n
      /\ e.key = k /\ e.value = d.row[k]
  <2>1. LocalEvent(n, d, k) \in Event
    BY <1>2, LocalEventOK
  <2>2. LocalEvent(n, d, k).ts = now + Skew[n] /\ LocalEvent(n, d, k).actor = n
    BY DEF LocalEvent
  <2>3. LocalEvent(n, d, k).key = k /\ LocalEvent(n, d, k).value = d.row[k]
    BY DEF LocalEvent
  <2> QED
    BY <1>1, <2>1, <2>2, <2>3
<1> QED
  BY <1>1, <1>2, <1>3

\* The events of one scan differ in their counters, and from older ones in their time.
LEMMA ScanStamps ==
  ASSUME EqualClocks, NEW n \in Node, NEW d, DbOK(d), now \in Nat, now >= 1,
         NEW E, Stamped(E, now), Distinct(E)
  PROVE  /\ Stamped(E \cup NewEvents(n, d), now + 1)
         /\ Distinct(E \cup NewEvents(n, d))
<1> DEFINE N == NewEvents(n, d)
<1>0. \A m \in Node : Skew[m] = Skew[n] /\ Skew[m] \in Nat
  BY ShapeAssumption DEF EqualClocks
<1>1. Stamped(E \cup N, now + 1)
  <2> SUFFICES ASSUME NEW e \in E \cup N
               PROVE  e \in Event /\ e.ts >= 1 /\ \A m \in Node : e.ts < (now + 1) + Skew[m]
    BY DEF Stamped
  <2>1. CASE e \in E
    <3>1. e \in Event /\ e.ts >= 1 /\ \A m \in Node : e.ts < now + Skew[m]
      BY <2>1 DEF Stamped
    <3>2. e.ts \in Nat
      BY <3>1 DEF Event
    <3> QED
      BY <1>0, <3>1, <3>2
  <2>2. CASE e \in N
    <3>1. e \in Event /\ e.ts = now + Skew[n]
      BY <2>2, NewEventsAre
    <3> QED
      BY <1>0, <3>1
  <2> QED
    BY <2>1, <2>2
<1>2. ASSUME NEW e \in E, NEW f \in N PROVE VersionOf(e) # VersionOf(f)
  <2>1. e \in Event /\ e.ts < now + Skew[n]
    BY DEF Stamped
  <2>2. f.ts = now + Skew[n]
    BY NewEventsAre
  <2>3. e.ts \in Nat /\ now + Skew[n] \in Nat
    BY <1>0, <2>1 DEF Event
  <2>4. e.ts # f.ts
    BY <2>1, <2>2, <2>3
  <2> QED
    BY <2>4 DEF VersionOf
<1>3. ASSUME NEW e \in N, NEW f \in N, VersionOf(e) = VersionOf(f) PROVE e = f
  <2> DEFINE j == e.key
             k == f.key
             upTo(i) == {c \in Changed(d) : c <= i}
  <2>1. j \in Changed(d) /\ k \in Changed(d) /\ e = LocalEvent(n, d, j) /\ f = LocalEvent(n, d, k)
    BY NewEventsAre
  <2>2. Changed(d) \in SUBSET Key /\ Changed(d) \in SUBSET Nat /\ IsFiniteSet(Changed(d))
    <3>1. Changed(d) \in SUBSET Key
      BY DEF Changed
    <3> QED
      BY <3>1, NodeAssumption, FS_Subset
  <2>3. d \in Database /\ d.counter \in Nat
    BY DbFields DEF DbOK
  <2>4. /\ e.counter = d.counter + Cardinality(upTo(j)) /\ Cardinality(upTo(j)) \in Nat
        /\ f.counter = d.counter + Cardinality(upTo(k)) /\ Cardinality(upTo(k)) \in Nat
    BY <2>1, <2>2, <2>3, LocalEventOK
  <2>5. e.counter = f.counter
    BY <1>3 DEF VersionOf
  <2>6. Cardinality(upTo(j)) = Cardinality(upTo(k))
    <3> HIDE DEF upTo
    <3> QED
      BY <2>3, <2>4, <2>5
  <2>7. j = k
    BY <2>1, <2>2, <2>6, PositionIsStrict
  <2> QED
    BY <2>1, <2>7
<1>4. Distinct(E \cup N)
  BY <1>2, <1>3 DEF Distinct
<1> QED
  BY <1>1, <1>4

\* When nothing changed, a scan leaves the history as it is.
LEMMA QuietScan ==
  ASSUME NEW n \in Node, NEW d, DbOK(d), now \in Nat, Changed(d) = {}
  PROVE  SameHistory(d, scanLocalChanges(n, d)) /\ NewEvents(n, d) = {}
<1>1. d.row \in [Key -> Row] /\ d.known \in [Key -> Row] /\ d.version \in [Key -> Version \cup {NoVersion}]
  BY DbFields DEF DbOK
<1>2. d.row = d.known
  BY <1>1 DEF Changed
<1>3. NewEvents(n, d) = {}
  BY DEF NewEvents
<1>4. scanLocalChanges(n, d).known = d.row
  BY ScanOK
<1>5. scanLocalChanges(n, d).version = d.version
  BY <1>1, ScanOK
<1>6. scanLocalChanges(n, d).events = WithEvents(d.events, NewEvents(n, d))
  BY ScanOK
<1> QED
  BY <1>2, <1>3, <1>4, <1>5, <1>6 DEF SameHistory, WithEvents

LEMMA ScanSound ==
  ASSUME EqualClocks, NEW n \in Node, NEW d, DbOK(d), now \in Nat, now >= 1,
         NEW E, Stamped(E, now), d.events \subseteq E, Sound(d, E, now)
  PROVE  Sound(scanLocalChanges(n, d), E \cup NewEvents(n, d), now + 1)
<1> DEFINE N == NewEvents(n, d)
           s == scanLocalChanges(n, d)
<1>1. s.known = d.row
  BY ScanOK
<1>2. s.version = [k \in Key |-> IF k \in Changed(d) THEN VersionOf(LocalEvent(n, d, k)) ELSE d.version[k]]
  BY ScanOK
<1>3. s.events \subseteq d.events \cup N
  BY ScanOK DEF WithEvents
<1>4. \A m \in Node : Skew[m] = Skew[n] /\ Skew[m] \in Nat
  BY ShapeAssumption DEF EqualClocks
<1>5. ASSUME NEW k \in Changed(d) PROVE s.version[k].ts = now + Skew[n] /\ k \in Key
  <2>1. k \in Key
    BY DEF Changed
  <2> QED
    BY <1>2, <2>1 DEF VersionOf, LocalEvent
<1>6. ASSUME NEW k \in Key, k \notin Changed(d) PROVE s.version[k] = d.version[k] /\ s.known[k] = d.known[k]
  BY <1>1, <1>2, <1>6 DEF Changed
<1>7. ASSUME NEW e \in N PROVE s.version[e.key] = VersionOf(e) /\ s.known[e.key] = e.value /\ Stamp(e)
  <2>1. e.key \in Key /\ e.key \in Changed(d) /\ e = LocalEvent(n, d, e.key) /\ e.value = d.row[e.key] /\ e \in Event
    BY NewEventsAre
  <2>2. s.version[e.key] = VersionOf(LocalEvent(n, d, e.key))
    BY <1>2, <2>1
  <2> QED
    BY <1>1, <2>1, <2>2, StampsOfVersions
<1>8. ASSUME NEW e \in E PROVE e.ts \in Nat /\ e.ts < now + Skew[n] /\ e.key \in Key
  BY DEF Stamped, Event
<1> HIDE DEF s, N
<1>9. NothingNewer(s)
  <2> SUFFICES ASSUME NEW e \in s.events PROVE ~Older(s.version[e.key], e)
    BY DEF NothingNewer
  <2>1. CASE e \in N
    BY <1>7, <2>1, OlderIsAnOrder, StampsOfVersions
  <2>2. CASE e \in d.events /\ e.key \in Changed(d)
    <3>1. e.ts \in Nat /\ e.ts < now + Skew[n] /\ s.version[e.key].ts = now + Skew[n]
      BY <1>5, <1>8, <2>2
    <3>2. now + Skew[n] \in Nat
      BY <1>4
    <3> QED
      BY <3>1, <3>2 DEF Older
  <2>3. CASE e \in d.events /\ e.key \notin Changed(d)
    <3>1. s.version[e.key] = d.version[e.key]
      BY <1>6, <1>8, <2>3
    <3> QED
      BY <2>3, <3>1 DEF Sound, NothingNewer
  <2> QED
    BY <1>3, <2>1, <2>2, <2>3
<1>10. KnownIsTheVersions(s, E \cup N)
  <2> SUFFICES ASSUME NEW e \in E \cup N, s.version[e.key] = VersionOf(e) PROVE s.known[e.key] = e.value
    BY DEF KnownIsTheVersions
  <2>1. CASE e \in N
    BY <1>7, <2>1
  <2>2. CASE e \in E /\ e.key \in Changed(d)
    <3>1. e.ts \in Nat /\ e.ts < now + Skew[n] /\ s.version[e.key].ts = now + Skew[n]
      BY <1>5, <1>8, <2>2
    <3>2. now + Skew[n] \in Nat
      BY <1>4
    <3>3. e.ts = now + Skew[n]
      BY <3>1 DEF VersionOf
    <3> QED
      BY <3>1, <3>2, <3>3
  <2>3. CASE e \in E /\ e.key \notin Changed(d)
    <3>1. s.version[e.key] = d.version[e.key] /\ s.known[e.key] = d.known[e.key]
      BY <1>6, <1>8, <2>3
    <3> QED
      BY <2>3, <3>1 DEF Sound, KnownIsTheVersions
  <2> QED
    BY <2>1, <2>2, <2>3
<1>11. VersionedBefore(s, now + 1)
  <2> SUFFICES ASSUME NEW k \in Key, NEW m \in Node PROVE s.version[k].ts < (now + 1) + Skew[m]
    BY DEF VersionedBefore
  <2>1. CASE k \in Changed(d)
    <3>1. s.version[k].ts = now + Skew[n] /\ Skew[m] = Skew[n] /\ Skew[n] \in Nat
      BY <1>4, <1>5, <2>1
    <3> QED
      BY <3>1
  <2>2. CASE k \notin Changed(d)
    <3>1. s.version[k].ts = d.version[k].ts /\ d.version[k].ts \in Nat /\ Skew[m] \in Nat
      BY <1>4, <1>6, <2>2, TimesAreNumbers
    <3>2. d.version[k].ts < now + Skew[m]
      BY DEF Sound, VersionedBefore
    <3> QED
      BY <3>1, <3>2
  <2> QED
    BY <2>1, <2>2
<1>12. Sound(s, E \cup N, now + 1)
  BY <1>9, <1>10, <1>11 DEF Sound
<1> QED
  BY <1>12 DEF s, N

\* Of the events about a row that may be applied, the newest one is.
LEMMA NewestWins ==
  ASSUME NEW d, NEW received \in SUBSET Event, IsFiniteSet(received),
         NEW e \in Unknown(d, received), shouldApplyEvent(d, e)
  PROVE  HasWinner(Wins(d, received), e.key)
<1> DEFINE S == {f \in Unknown(d, received) : f.key = e.key /\ shouldApplyEvent(d, f)}
           Before == {p \in S \X S : Older(p[1], p[2])}
<1>1. S \in SUBSET received /\ e \in S
  BY DEF Unknown
<1>2. IsFiniteSet(S) /\ \A f \in S : Stamp(f)
  BY <1>1, FS_Subset, StampsOfVersions
<1>3. Before \in SUBSET (S \X S)
  OBVIOUS
<1>4. \A x \in S : <<x, x>> \notin Before
  BY <1>2, OlderIsAnOrder
<1>5. \A x, y, z \in S : <<x, y>> \in Before /\ <<y, z>> \in Before => <<x, z>> \in Before
  <2> HIDE DEF S
  <2> SUFFICES ASSUME NEW x \in S, NEW y \in S, NEW z \in S, Older(x, y), Older(y, z) PROVE Older(x, z)
    OBVIOUS
  <2> QED
    BY <1>2, OlderIsAnOrder
<1>6. \A x, y \in S : Older(x, y) => <<x, y>> \in Before
  OBVIOUS
<1> HIDE DEF Before
<1>7. PICK x \in S : \A y \in S : <<x, y>> \notin Before
  <2> HIDE DEF S
  <2> QED
    BY <1>1, <1>2, <1>3, <1>4, <1>5, SomeLast
<1>8. \A y \in S : ~Older(x, y)
  BY <1>6, <1>7
<1>9. x \in Wins(d, received) /\ x.key = e.key
  BY <1>7, <1>8 DEF Wins
<1> QED
  BY <1>9 DEF HasWinner

LEMMA ApplySound ==
  ASSUME NEW d, DbOK(d), NEW received \in SUBSET Event, IsFiniteSet(received), NEW t,
         NEW E, Stamped(E, t), Distinct(E), d.events \subseteq E, received \subseteq E, Sound(d, E, t)
  PROVE  Sound(applyRemoteEvents(d, received), E, t)
<1> DEFINE wins == Wins(d, received)
           s == applyRemoteEvents(d, received)
<1>1. /\ s.known = [k \in Key |-> IF HasWinner(wins, k) THEN Winner(wins, k).value ELSE d.known[k]]
      /\ s.version = [k \in Key |-> IF HasWinner(wins, k) THEN VersionOf(Winner(wins, k)) ELSE d.version[k]]
      /\ s.events = d.events \cup Unknown(d, received)
      /\ wins \subseteq Unknown(d, received) /\ Unknown(d, received) \subseteq received
  BY ApplyOK
<1>2. \A e \in E : e \in Event /\ e.ts >= 1 /\ e.ts \in Nat /\ e.key \in Key /\ Stamp(e)
  BY StampsOfVersions DEF Stamped, Event
<1>3. \A k \in Key : Stamp(d.version[k])
  BY DbFields, StampsOfVersions DEF DbOK
<1>4. ASSUME NEW k \in Key, HasWinner(wins, k)
      PROVE  LET w == Winner(wins, k)
             IN w \in wins /\ w \in Unknown(d, received) /\ w \in E /\ w.key = k
                /\ shouldApplyEvent(d, w) /\ s.version[k] = VersionOf(w) /\ s.known[k] = w.value
  <2>1. Winner(wins, k) \in wins /\ Winner(wins, k).key = k
    BY <1>4, WinnerIsOne
  <2>2. shouldApplyEvent(d, Winner(wins, k))
    BY <2>1 DEF Wins
  <2>3. s.version[k] = VersionOf(Winner(wins, k)) /\ s.known[k] = Winner(wins, k).value
    BY <1>1, <1>4
  <2> HIDE DEF wins
  <2> QED
    BY <1>1, <2>1, <2>2, <2>3
<1>5. ASSUME NEW k \in Key, ~HasWinner(wins, k) PROVE s.version[k] = d.version[k] /\ s.known[k] = d.known[k]
  BY <1>1, <1>5
<1>6. \A e \in received : shouldApplyEvent(d, e) \/ ~Older(d.version[e.key], e)
  BY DEF shouldApplyEvent
<1>7. \A w \in Unknown(d, received) : w \in wins => \A f \in Unknown(d, received) :
            f.key = w.key /\ shouldApplyEvent(d, f) => ~Older(w, f)
  BY DEF Wins
<1>8. \A e \in Unknown(d, received) : shouldApplyEvent(d, e) => HasWinner(wins, e.key)
  BY NewestWins
<1> HIDE DEF wins, s
<1>9. NothingNewer(s)
  <2> SUFFICES ASSUME NEW e \in s.events, Older(s.version[e.key], e) PROVE FALSE
    BY DEF NothingNewer
  <2> DEFINE k == e.key
             w == Winner(wins, k)
  <2>1. e \in E /\ k \in Key /\ Stamp(e) /\ e.ts \in Nat /\ e.ts >= 1
    BY <1>1, <1>2
  <2>2. ~Older(d.version[k], e) \/ (e \in Unknown(d, received) /\ shouldApplyEvent(d, e))
    BY <1>1, <1>6 DEF Sound, NothingNewer
  <2>3. CASE HasWinner(wins, k)
    <3>1. w \in wins /\ w \in Unknown(d, received) /\ w \in E /\ w.key = k /\ shouldApplyEvent(d, w)
          /\ s.version[k] = VersionOf(w) /\ Stamp(w)
      BY <1>2, <1>4, <2>1, <2>3
    <3>2. Older(w, e)
      BY <3>1, StampsOfVersions
    <3>3. ~Older(d.version[k], e)
      BY <1>7, <2>2, <3>1, <3>2
    <3>4. CASE d.version[k] = NoVersion
      BY <2>1, <3>3, <3>4 DEF Older, NoVersion
    <3>5. CASE Older(d.version[k], w)
      BY <1>3, <2>1, <3>1, <3>2, <3>3, <3>5, OlderIsAnOrder
    <3> QED
      BY <3>1, <3>4, <3>5 DEF shouldApplyEvent
  <2>4. CASE ~HasWinner(wins, k)
    BY <1>5, <1>8, <2>1, <2>2, <2>4
  <2> QED
    BY <2>3, <2>4
<1>10. KnownIsTheVersions(s, E)
  <2> SUFFICES ASSUME NEW e \in E, s.version[e.key] = VersionOf(e) PROVE s.known[e.key] = e.value
    BY DEF KnownIsTheVersions
  <2>1. e.key \in Key
    BY <1>2
  <2>2. CASE HasWinner(wins, e.key)
    <3>1. Winner(wins, e.key) \in E /\ VersionOf(Winner(wins, e.key)) = VersionOf(e)
          /\ s.known[e.key] = Winner(wins, e.key).value
      BY <1>4, <2>1, <2>2
    <3> QED
      BY <3>1 DEF Distinct
  <2>3. CASE ~HasWinner(wins, e.key)
    BY <1>5, <2>1, <2>3 DEF Sound, KnownIsTheVersions
  <2> QED
    BY <2>2, <2>3
<1>11. VersionedBefore(s, t)
  <2> SUFFICES ASSUME NEW k \in Key, NEW n \in Node PROVE s.version[k].ts < t + Skew[n]
    BY DEF VersionedBefore
  <2>1. CASE HasWinner(wins, k)
    <3>1. Winner(wins, k) \in E /\ s.version[k] = VersionOf(Winner(wins, k))
      BY <1>4, <2>1
    <3> QED
      BY <3>1 DEF Stamped, VersionOf
  <2>2. CASE ~HasWinner(wins, k)
    BY <1>5, <2>2 DEF Sound, VersionedBefore
  <2> QED
    BY <2>1, <2>2
<1>12. Sound(s, E, t)
  BY <1>9, <1>10, <1>11 DEF Sound
<1> QED
  BY <1>12 DEF s

LEMMA PartsOfEverywhere ==
  ASSUME NEW n \in Node
  PROVE  /\ db[n].events \subseteq Everywhere /\ saved[n].events \subseteq Everywhere
         /\ published[n].events \subseteq Everywhere
BY DEF Everywhere

LEMMA FollowStep ==
  ASSUME NEW F, Everywhere' \subseteq F, Stamped(F, now'), Distinct(F),
         \A m \in Node : Sound(db'[m], F, now') /\ Sound(saved'[m], F, now')
  PROVE  FollowInv'
<1>1. Stamped(Everywhere, now)' /\ Distinct(Everywhere)'
  BY DEF Stamped, Distinct
<1>2. ASSUME NEW d, Sound(d, F, now') PROVE Sound(d, Everywhere', now')
  <2>1. SameHistory(d, d)
    BY DEF SameHistory
  <2> QED
    BY <1>2, <2>1, SoundStays
<1>3. \A m \in Node : Sound(db'[m], Everywhere', now') /\ Sound(saved'[m], Everywhere', now')
  BY <1>2
<1>4. \A m \in Node : Sound(db[m], Everywhere, now)' /\ Sound(saved[m], Everywhere, now)'
  BY <1>3 DEF Sound, NothingNewer, KnownIsTheVersions, VersionedBefore
<1> QED
  BY <1>1, <1>4 DEF FollowInv

\* A step that makes no events, and after which node n has the database d.
LEMMA QuietStep ==
  ASSUME Types, FollowInv, now' = now, NEW n \in Node, NEW d,
         d.events \subseteq Everywhere, Sound(d, Everywhere, now),
         db' = [db EXCEPT ![n] = d],
         saved' = saved \/ saved' = [saved EXCEPT ![n] = d],
         \A m \in Node : published'[m].events \subseteq published[m].events \cup d.events
  PROVE  FollowInv'
<1>1. db \in [Node -> Database] /\ saved \in [Node -> Database]
  BY DEF Types
<1>2. ASSUME NEW m \in Node PROVE db'[m] \in {db[m], d} /\ saved'[m] \in {saved[m], d}
  BY <1>1
<1>3. Everywhere' \subseteq Everywhere
  <2> SUFFICES ASSUME NEW m \in Node
               PROVE  /\ db'[m].events \subseteq Everywhere /\ saved'[m].events \subseteq Everywhere
                      /\ published'[m].events \subseteq Everywhere
    BY DEF Everywhere
  <2> QED
    BY <1>2, PartsOfEverywhere
<1>4. \A m \in Node : Sound(db'[m], Everywhere, now') /\ Sound(saved'[m], Everywhere, now')
  BY <1>2 DEF FollowInv
<1>5. Stamped(Everywhere, now') /\ Distinct(Everywhere)
  BY DEF FollowInv
<1> QED
  BY <1>3, <1>4, <1>5, FollowStep

\* A step that scans the database d, which has the history of node n, and keeps final of it.
LEMMA ScanStep ==
  ASSUME EqualClocks, Types, FollowInv, NEW n \in Node, NEW d, DbOK(d), SameHistory(db[n], d),
         NEW final, SameHistory(scanLocalChanges(n, d), final),
         Tick(Changed(d) # {}), saved' = saved, db' = [db EXCEPT ![n] = final],
         \A m \in Node : published'[m].events \subseteq published[m].events \cup final.events
  PROVE  FollowInv'
<1> DEFINE N == NewEvents(n, d)
           F == Everywhere \cup N
           s == scanLocalChanges(n, d)
<1>1. now \in Nat /\ now >= 1 /\ MaxScans \in Nat /\ db \in [Node -> Database] /\ saved \in [Node -> Database]
  BY LimitAssumption DEF Types
<1>2. Sound(d, Everywhere, now) /\ d.events \subseteq Everywhere
  <2>1. Sound(db[n], Everywhere, now)
    BY DEF FollowInv
  <2>2. Sound(d, Everywhere, now)
    BY <2>1, SoundStays
  <2> QED
    BY <2>2, PartsOfEverywhere DEF SameHistory
<1>3. s.events \subseteq F
  BY <1>1, <1>2, ScanOK DEF WithEvents
<1>4. CASE Changed(d) = {}
  <2>1. SameHistory(d, s)
    BY <1>1, <1>4, QuietScan
  <2>2. SameHistory(d, final)
    BY <2>1 DEF SameHistory
  <2>3. Sound(final, Everywhere, now) /\ final.events \subseteq Everywhere
    BY <1>2, <2>2, SoundStays DEF SameHistory
  <2>4. now' = now
    BY <1>4 DEF Tick
  <2> QED
    BY <2>3, <2>4, QuietStep
<1>5. CASE Changed(d) # {}
  <2>1. now' = now + 1
    BY <1>5 DEF Tick
  <2>2. Stamped(Everywhere, now) /\ Distinct(Everywhere)
    BY DEF FollowInv
  <2>3. Stamped(F, now') /\ Distinct(F)
    BY <1>1, <2>1, <2>2, ScanStamps
  <2>4. Sound(s, F, now')
    BY <1>1, <1>2, <2>1, <2>2, ScanSound
  <2>5. Sound(final, F, now') /\ final.events \subseteq F
    BY <1>3, <2>4, SoundStays DEF SameHistory
  <2>6. \A e \in N : e.key \in Key /\ \E m \in Node : e.ts = now + Skew[m]
    BY <1>1, NewEventsAre
  <2>7. ASSUME NEW x, DbOK(x), Sound(x, Everywhere, now) PROVE Sound(x, F, now')
    <3>1. now' \in Nat /\ now' >= now
      BY <1>1, <2>1
    <3> QED
      BY <1>1, <2>6, <2>7, <3>1, SoundElsewhere
  <2>8. \A m \in Node : Sound(db'[m], F, now') /\ Sound(saved'[m], F, now')
    <3> SUFFICES ASSUME NEW m \in Node PROVE Sound(db'[m], F, now') /\ Sound(saved'[m], F, now')
      OBVIOUS
    <3>1. db'[m] \in {db[m], final} /\ saved'[m] = saved[m]
      BY <1>1
    <3>2. DbOK(db[m]) /\ DbOK(saved[m])
      BY DEF Types
    <3>3. Sound(db[m], Everywhere, now) /\ Sound(saved[m], Everywhere, now)
      BY DEF FollowInv
    <3>4. Sound(db[m], F, now') /\ Sound(saved[m], F, now')
      <4> HIDE DEF F
      <4> QED
        BY <2>7, <3>2, <3>3
    <3> HIDE DEF F
    <3> QED
      BY <2>5, <3>1, <3>4
  <2>9. Everywhere' \subseteq F
    <3> SUFFICES ASSUME NEW m \in Node
                 PROVE  /\ db'[m].events \subseteq F /\ saved'[m].events \subseteq F
                        /\ published'[m].events \subseteq F
      BY DEF Everywhere
    <3>1. db'[m] \in {db[m], final} /\ saved'[m] = saved[m]
      BY <1>1
    <3> QED
      BY <2>5, <3>1, PartsOfEverywhere
  <2> HIDE DEF F
  <2> QED
    BY <2>3, <2>8, <2>9, FollowStep
<1> QED
  BY <1>4, <1>5

LEMMA InitFollows == Init => FollowInv
<1> SUFFICES ASSUME Init PROVE FollowInv
  OBVIOUS
<1>1. \A n \in Node : db[n] = EmptyDb /\ saved[n] = EmptyDb /\ published[n] = NoCache
  BY DEF Init
<1>2. Everywhere = {}
  BY <1>1 DEF Everywhere, EmptyDb, NoCache
<1>3. Sound(EmptyDb, {}, 1)
  <2>1. \A k \in Key : EmptyDb.version[k].ts = 0
    BY DEF EmptyDb, NoVersion
  <2>2. EmptyDb.events = {}
    BY DEF EmptyDb
  <2>3. \A n \in Node : 0 < 1 + Skew[n]
    BY ShapeAssumption
  <2> QED
    BY <2>1, <2>2, <2>3 DEF Sound, NothingNewer, KnownIsTheVersions, VersionedBefore
<1>4. now = 1
  BY DEF Init
<1> QED
  BY <1>1, <1>2, <1>3, <1>4 DEF FollowInv, Stamped, Distinct

LEMMA ItsOwnHistory ==
  ASSUME FollowInv, NEW n \in Node
  PROVE  /\ db[n].events \subseteq Everywhere /\ Sound(db[n], Everywhere, now)
         /\ saved[n].events \subseteq Everywhere /\ Sound(saved[n], Everywhere, now)
BY PartsOfEverywhere DEF FollowInv

LEMMA EditFollows ==
  ASSUME Types, FollowInv, NEW n \in Node, NEW k \in Key, NEW v \in Row, EditRow(n, k, v)
  PROVE  FollowInv'
<1> DEFINE d == [db[n] EXCEPT !.row = [db[n].row EXCEPT ![k] = v]]
<1>1. db' = [db EXCEPT ![n] = d]
  BY EditTypes
<1>2. SameHistory(db[n], d)
  <2>1. db[n] \in Database
    BY DEF Types
  <2> QED
    BY <2>1 DEF Database, SameHistory
<1> HIDE DEF d
<1>3. saved' = [saved EXCEPT ![n] = d]
  BY <1>1 DEF EditRow, Types
<1>4. Sound(d, Everywhere, now) /\ d.events \subseteq Everywhere
  BY <1>2, ItsOwnHistory, SoundStays DEF SameHistory
<1>5. now' = now /\ published' = published
  BY DEF EditRow
<1> QED
  BY <1>1, <1>3, <1>4, <1>5, QuietStep

LEMMA BeginFollows ==
  ASSUME EqualClocks, Types, FollowInv, NEW n \in Node, BeginSync(n)
  PROVE  FollowInv'
<1> DEFINE final == scanLocalChanges(n, db[n])
<1>1. DbOK(db[n]) /\ SameHistory(db[n], db[n]) /\ SameHistory(final, final)
  BY DEF Types, SameHistory
<1>2. Tick(Changed(db[n]) # {}) /\ saved' = saved /\ db' = [db EXCEPT ![n] = final]
  BY DEF BeginSync
<1>3. \A m \in Node : published'[m].events = published[m].events
  <2>1. published \in [Node -> Cache]
    BY DEF Types
  <2> QED
    BY <2>1 DEF BeginSync, Cache
<1> HIDE DEF final
<1>4. \A m \in Node : published'[m].events \subseteq published[m].events \cup final.events
  BY <1>3
<1>5. SameHistory(scanLocalChanges(n, db[n]), final)
  BY <1>1 DEF final
<1> QED
  BY <1>1, <1>2, <1>4, <1>5, ScanStep

LEMMA ImportFollows ==
  ASSUME Types, FollowInv, NEW n \in Node, NEW p \in Node, ImportDelta(n, p)
  PROVE  FollowInv'
<1> DEFINE d == applyRemoteEvents(db[n], Delta(n, p))
<1>1. Delta(n, p) \in SUBSET Event /\ IsFiniteSet(Delta(n, p)) /\ Delta(n, p) \subseteq Everywhere
  BY DeltaOK, PartsOfEverywhere
<1>2. DbOK(db[n])
  BY DEF Types
<1>3. Stamped(Everywhere, now) /\ Distinct(Everywhere)
  BY DEF FollowInv
<1>4. Sound(d, Everywhere, now)
  BY <1>1, <1>2, <1>3, ItsOwnHistory, ApplySound
<1>5. d.events \subseteq Everywhere
  <2>1. d.events = db[n].events \cup Unknown(db[n], Delta(n, p))
    BY <1>1, <1>2, ApplyOK
  <2>2. Unknown(db[n], Delta(n, p)) \subseteq Delta(n, p)
    BY DEF Unknown
  <2> QED
    BY <1>1, <2>1, <2>2, ItsOwnHistory
<1>6. db' = [db EXCEPT ![n] = d] /\ now' = now /\ saved' = saved /\ published' = published
  BY DEF ImportDelta
<1> HIDE DEF d
<1> QED
  BY <1>4, <1>5, <1>6, QuietStep

LEMMA RecoverFollows ==
  ASSUME Types, FollowInv, NEW n \in Node, NEW p \in Node, RecoverFromSnapshot(n, p)
  PROVE  FollowInv'
<1> DEFINE d == applySnapshot(db[n], published[p].snapshot)
<1>1. DbOK(db[n]) /\ published[p].snapshot \in Snapshot
  BY DEF Types, CacheOK, Cache
<1>2. SameHistory(db[n], d)
  BY <1>1, SnapshotOK
<1>3. db' = [db EXCEPT ![n] = d] /\ now' = now /\ saved' = saved /\ published' = published
  BY DEF RecoverFromSnapshot
<1> HIDE DEF d
<1>4. Sound(d, Everywhere, now) /\ d.events \subseteq Everywhere
  BY <1>2, ItsOwnHistory, SoundStays DEF SameHistory
<1> QED
  BY <1>3, <1>4, QuietStep

LEMMA EndFollows ==
  ASSUME EqualClocks, Types, FollowInv, NEW n \in Node, EndSync(n)
  PROVE  FollowInv'
<1> DEFINE d == mergeSimilarStories(db[n])
<1>1. PICK final \in {Scanned(n), Pruned(Scanned(n))} :
              /\ db' = [db EXCEPT ![n] = final]
              /\ published' = [published EXCEPT ![n] =
                    [published[n] EXCEPT !.events = Latest(final.events, CacheSize),
                                         !.vector = getVersionVector(final)]]
  BY EndSyncParts
<1>2. DbOK(db[n]) /\ DbOK(d) /\ DbOK(Scanned(n)) /\ SameHistory(db[n], d)
  <2>1. DbOK(db[n])
    BY DEF Types
  <2> QED
    BY <2>1, MergeOK, ScannedOK
<1>3. SameHistory(Scanned(n), final)
  BY <1>1, <1>2, PrunedOK DEF SameHistory
<1>4. \A m \in Node : published'[m].events \subseteq published[m].events \cup final.events
  <2>1. published \in [Node -> Cache]
    BY DEF Types
  <2>2. Latest(final.events, CacheSize) \subseteq final.events
    BY DEF Latest
  <2>3. \A m \in Node : m # n => published'[m] = published[m]
    BY <1>1, <2>1
  <2>4. published'[n].events = Latest(final.events, CacheSize)
    BY <1>1, <2>1 DEF Cache
  <2> QED
    BY <2>2, <2>3, <2>4
<1>5. Tick(Emits(n)) /\ saved' = saved
  BY EndSyncParts
<1>6. CASE sync[n].rescan \/ Duplicates(db[n]) # {}
  <2>1. Scanned(n) = scanLocalChanges(n, d)
    BY <1>6 DEF Scanned
  <2>2. Emits(n) <=> Changed(d) # {}
    BY <1>6 DEF Emits
  <2>3. Tick(Changed(d) # {})
    BY <1>5, <2>2 DEF Tick
  <2> HIDE DEF d
  <2> QED
    BY <1>1, <1>2, <1>3, <1>4, <1>5, <2>1, <2>3, ScanStep
<1>7. CASE ~(sync[n].rescan \/ Duplicates(db[n]) # {})
  <2>1. Scanned(n) = d /\ ~Emits(n)
    BY <1>7 DEF Scanned, Emits
  <2>2. now' = now
    BY <1>5, <2>1 DEF Tick
  <2>3. SameHistory(db[n], final)
    BY <1>2, <1>3, <2>1 DEF SameHistory
  <2>4. Sound(final, Everywhere, now) /\ final.events \subseteq Everywhere
    BY <2>3, ItsOwnHistory, SoundStays DEF SameHistory
  <2> HIDE DEF d
  <2> QED
    BY <1>1, <1>4, <1>5, <2>2, <2>4, QuietStep
<1> QED
  BY <1>6, <1>7

LEMMA SaveFollows ==
  ASSUME Types, FollowInv, NEW n \in Node, SaveDb(n)
  PROVE  FollowInv'
<1>1. db' = [db EXCEPT ![n] = db[n]] /\ saved' = [saved EXCEPT ![n] = db[n]]
  BY DEF SaveDb, Types
<1>2. now' = now /\ published' = published
  BY DEF SaveDb
<1> QED
  BY <1>1, <1>2, ItsOwnHistory, QuietStep

LEMMA CrashFollows ==
  ASSUME Types, FollowInv, NEW n \in Node, Crash(n)
  PROVE  FollowInv'
<1>1. db' = [db EXCEPT ![n] = saved[n]] /\ saved' = saved /\ now' = now
  BY DEF Crash
<1>2. \A m \in Node : published'[m].events \subseteq published[m].events
  <2>1. published \in [Node -> Cache] /\ NoCache.events = {}
    BY DEF Types, NoCache
  <2> QED
    BY <2>1 DEF Crash
<1> QED
  BY <1>1, <1>2, ItsOwnHistory, QuietStep

LEMMA NextFollows ==
  ASSUME EqualClocks, Types, FollowInv, [Next]_vars
  PROVE  FollowInv'
<1>1. ASSUME NEW n \in Node, NEW k \in Key, NEW v \in Row, EditRow(n, k, v) PROVE FollowInv'
  BY <1>1, EditFollows
<1>2. ASSUME NEW n \in Node, BeginSync(n) PROVE FollowInv'
  BY <1>2, BeginFollows
<1>3. ASSUME NEW n \in Node, NEW p \in Node, PullDelta(n, p) PROVE FollowInv'
  BY <1>3, ImportFollows DEF PullDelta
<1>4. ASSUME NEW n \in Node, NEW p \in Node, RecoverFromSnapshot(n, p) PROVE FollowInv'
  BY <1>4, RecoverFollows
<1>5. ASSUME NEW n \in Node, NEW p \in Node, SnapshotFails(n, p) PROVE FollowInv'
  BY <1>5, ImportFollows DEF SnapshotFails
<1>6. ASSUME NEW n \in Node, NEW p \in Node, PeerUnreachable(n, p) PROVE FollowInv'
  BY <1>6 DEF PeerUnreachable, FollowInv, Everywhere
<1>7. ASSUME NEW n \in Node, EndSync(n) PROVE FollowInv'
  BY <1>7, EndFollows
<1>8. ASSUME NEW n \in Node, SaveDb(n) PROVE FollowInv'
  BY <1>8, SaveFollows
<1>9. ASSUME NEW n \in Node, Crash(n) PROVE FollowInv'
  BY <1>9, CrashFollows
<1>10. CASE UNCHANGED vars
  BY <1>10 DEF vars, FollowInv, Everywhere
<1> QED
  BY <1>1, <1>2, <1>3, <1>4, <1>5, <1>6, <1>7, <1>8, <1>9, <1>10 DEF Next

LEMMA FollowInvFollows == FollowInv => RowsFollowTheirNewestEvent
<1> SUFFICES ASSUME FollowInv, NEW n \in Node, NEW e \in db[n].events
             PROVE  /\ ~Older(db[n].version[e.key], e)
                    /\ db[n].version[e.key] = VersionOf(e) => db[n].known[e.key] = e.value
  BY DEF RowsFollowTheirNewestEvent
<1>1. e \in Everywhere /\ Sound(db[n], Everywhere, now)
  BY ItsOwnHistory
<1> QED
  BY <1>1 DEF Sound, NothingNewer, KnownIsTheVersions

(***************************************************************************)
(* With clocks that agree, no node knows of an event newer than the row it *)
(* is about, and the row is what the event of its version says: whichever  *)
(* events a sync pulls, in whatever order, however few are kept, whether   *)
(* rows come from snapshots or are merged, and when processes die.         *)
(***************************************************************************)
THEOREM RowsFollow ==
  ASSUME EqualClocks
  PROVE  Spec => []RowsFollowTheirNewestEvent
<1>1. Init => Types /\ FollowInv
  BY InitTypes, InitFollows
<1>2. Types /\ FollowInv /\ [Next]_vars => (Types /\ FollowInv)'
  BY NextTypes, NextFollows
<1>3. Types /\ FollowInv => RowsFollowTheirNewestEvent
  BY FollowInvFollows
<1> QED
  BY <1>1, <1>2, <1>3, PTL DEF Spec

-----------------------------------------------------------------------------
(* When no event is forgotten, the replicas are last-writer-wins registers. *)
(* The databases are large enough for the events of all scans, and no       *)
(* process dies with rows it did not save.                                  *)

NothingForgotten == CrashNodes = {} /\ MaxScans * Cardinality(Key) <= MaxEvents

\* There is an event at most for each id, and for each time and row.
Identified(E) ==
    /\ \A e, f \in E : SameId(e, f) => e = f
    /\ \A e, f \in E : e.ts = f.ts /\ e.key = f.key => e = f
    /\ \A e \in E, n \in Node : e.ts > Skew[n]

CountedBy(E, x) == \A e \in E : e.counter <= x[e.actor].counter

\* A row without events is as in an empty database, any other has the version of one of them.
Grounded(d) ==
    \A k \in Key : \/ d.version[k] = NoVersion /\ d.known[k] = Absent
                   \/ \E e \in d.events : e.key = k /\ d.version[k] = VersionOf(e)

RegisterInv ==
    /\ Identified(Everywhere) /\ CountedBy(Everywhere, db)
    /\ \A n \in Node : Grounded(db[n]) /\ published[n].events \subseteq db[n].events

LEMMA FewEvents ==
  ASSUME EqualClocks, NEW S, NEW E, S \in SUBSET E, Stamped(E, MaxScans + 1), Identified(E)
  PROVE  IsFiniteSet(S) /\ Cardinality(S) <= MaxScans * Cardinality(Key)
<1>0. MaxScans \in Nat /\ IsFiniteSet(Key) /\ Cardinality(Key) \in Nat
      /\ MaxScans * Cardinality(Key) \in Nat
  BY LimitAssumption, NodeAssumption, FS_CardinalityType
<1>1. CASE S = {}
  <2>1. Cardinality(S) = 0 /\ IsFiniteSet(S)
    BY <1>1, FS_EmptySet
  <2> QED
    BY <1>0, <2>1
<1>2. CASE S # {}
  <2>1. PICK one \in S : TRUE
    BY <1>2
  <2> DEFINE n == one.actor
             place == [e \in S |-> <<e.ts - Skew[n], e.key>>]
             T == (1 .. MaxScans) \X Key
  <2>2. n \in Node /\ Skew[n] \in Nat
    <3>1. one \in Event
      BY DEF Stamped
    <3> QED
      BY <3>1, ShapeAssumption DEF Event
  <2>3. \A e \in S : /\ e.ts \in Nat /\ e.key \in Key
                     /\ e.ts > Skew[n] /\ e.ts < (MaxScans + 1) + Skew[n]
    BY <2>2 DEF Stamped, Identified, Event
  <2>4. \A e \in S : e.ts - Skew[n] \in 1 .. MaxScans
    BY <1>0, <2>2, <2>3
  <2>5. place \in [S -> T]
    BY <2>3, <2>4
  <2>6. \A e, f \in S : place[e] = place[f] => e = f
    <3> SUFFICES ASSUME NEW e \in S, NEW f \in S, place[e] = place[f] PROVE e = f
      OBVIOUS
    <3>1. e.ts - Skew[n] = f.ts - Skew[n] /\ e.key = f.key
      OBVIOUS
    <3>2. e.ts = f.ts
      BY <2>2, <2>3, <3>1
    <3> QED
      BY <3>1, <3>2 DEF Identified
  <2>7. IsFiniteSet(1 .. MaxScans) /\ Cardinality(1 .. MaxScans) = MaxScans
    <3>1. MaxScans \in Int /\ 1 \in Int
      BY <1>0
    <3>2. IsFiniteSet(1 .. MaxScans)
          /\ Cardinality(1 .. MaxScans) = IF 1 > MaxScans THEN 0 ELSE MaxScans - 1 + 1
      BY <3>1, FS_Interval
    <3> QED
      BY <1>0, <3>2
  <2>8. IsFiniteSet(T) /\ Cardinality(T) = MaxScans * Cardinality(Key)
    BY <1>0, <2>7, FS_Product
  <2> HIDE DEF place, T
  <2>9. place \in Injection(S, T)
    BY <2>5, <2>6 DEF Injection, IsInjective
  <2>10. IsFiniteSet(S) /\ Cardinality(S) <= Cardinality(T)
    BY <2>8, <2>9, FS_Injection
  <2>11. Cardinality(S) \in Nat /\ Cardinality(T) \in Nat
    BY <2>8, <2>10, FS_CardinalityType
  <2> QED
    BY <1>0, <2>8, <2>10, <2>11
<1> QED
  BY <1>1, <1>2

\* The events of all scans: no answer, cache or database that has room for them leaves one out.
LEMMA NoneIsLeftOut ==
  ASSUME EqualClocks, NEW S, NEW E, S \in SUBSET E, Stamped(E, MaxScans + 1), Identified(E),
         NEW size \in Nat, MaxScans * Cardinality(Key) <= size
  PROVE  Latest(S, size) = S /\ Oldest(S, size) = S
<1>1. IsFiniteSet(S) /\ Cardinality(S) \in Nat /\ Cardinality(S) <= size
  <2>1. IsFiniteSet(S) /\ Cardinality(S) <= MaxScans * Cardinality(Key)
    BY FewEvents
  <2>2. MaxScans \in Nat /\ Cardinality(Key) \in Nat /\ Cardinality(S) \in Nat
    BY <2>1, LimitAssumption, NodeAssumption, FS_CardinalityType
  <2>3. MaxScans * Cardinality(Key) \in Nat
    BY <2>2
  <2> QED
    BY <2>1, <2>2, <2>3
<1>2. ASSUME NEW e \in S, NEW L \in SUBSET S, e \notin L PROVE Cardinality(L) < size
  <2>1. IsFiniteSet(L) /\ Cardinality(L) <= Cardinality(S)
        /\ (Cardinality(L) = Cardinality(S) => L = S)
    BY <1>1, FS_Subset
  <2>2. Cardinality(L) \in Nat /\ Cardinality(L) # Cardinality(S)
    BY <1>2, <2>1, FS_CardinalityType
  <2> QED
    BY <1>1, <2>1, <2>2
<1>3. ASSUME NEW e \in S
      PROVE  /\ Cardinality({f \in S : Older(e, f)}) < size
             /\ Cardinality({f \in S : Older(f, e)}) < size
  <2>1. ~Older(e, e)
    <3>1. e \in Event
      BY DEF Stamped
    <3> QED
      BY <3>1, OlderIsAnOrder, StampsOfVersions
  <2>2. /\ {f \in S : Older(e, f)} \in SUBSET S /\ e \notin {f \in S : Older(e, f)}
        /\ {f \in S : Older(f, e)} \in SUBSET S /\ e \notin {f \in S : Older(f, e)}
    BY <2>1
  <2> QED
    BY <1>2, <2>2
<1> QED
  BY <1>3 DEF Latest, Oldest

LEMMA NothingIsPruned ==
  ASSUME NothingForgotten, EqualClocks, NEW d, DbOK(d), NEW E, d.events \in SUBSET E,
         Stamped(E, MaxScans + 1), Identified(E)
  PROVE  Pruned(d) = d
<1>1. Latest(d.events, MaxEvents) = d.events
  <2>1. MaxEvents \in Nat
    BY LimitAssumption
  <2> QED
    BY <2>1, NoneIsLeftOut DEF NothingForgotten
<1>2. d \in Database
  BY DEF DbOK
<1> QED
  BY <1>1, <1>2 DEF Pruned, Database

\* The row last emitted or imported is the value of the newest event about it.
LEMMA GroundedFollows ==
  ASSUME NEW d, DbOK(d), NEW E, NEW t, d.events \subseteq E, Stamped(E, t), Distinct(E),
         Sound(d, E, t), Grounded(d)
  PROVE  d.known = [k \in Key |-> Abstract!ValueFrom(d.events, k)]
<1>1. d.known \in [Key -> Row] /\ d.version \in [Key -> Version \cup {NoVersion}]
  BY DbFields DEF DbOK
<1>2. \A e \in d.events : e \in Event /\ e.ts \in Nat /\ e.ts >= 1 /\ e.key \in Key /\ Stamp(e)
  BY StampsOfVersions DEF Stamped, Event
<1>3. ASSUME NEW k \in Key PROVE d.known[k] = Abstract!ValueFrom(d.events, k)
  <2> DEFINE S == Abstract!About(d.events, k)
  <2>1. S = {e \in d.events : e.key = k}
    BY DEF Abstract!About
  <2>2. CASE S = {}
    <3>1. d.known[k] = Absent
      BY <2>1, <2>2 DEF Grounded
    <3> QED
      BY <2>2, <3>1 DEF Abstract!ValueFrom
  <2>3. CASE S # {}
    <3>1. PICK h \in d.events : h.key = k
      BY <2>1, <2>3
    <3>2. d.version[k] # NoVersion
      <4>1. ~Older(d.version[k], h)
        BY <3>1 DEF Sound, NothingNewer
      <4>2. h.ts \in Nat /\ h.ts >= 1
        BY <1>2
      <4> QED
        BY <4>1, <4>2 DEF Older, NoVersion
    <3>3. PICK g \in d.events : g.key = k /\ d.version[k] = VersionOf(g)
      BY <3>2 DEF Grounded
    <3>4. d.known[k] = g.value
      BY <3>3 DEF Sound, KnownIsTheVersions
    <3>5. ASSUME NEW f \in S \ {g} PROVE Older(f, g)
      <4>1. f \in d.events /\ f.key = k
        BY <2>1
      <4>2. ~Older(g, f)
        BY <3>3, <4>1, StampsOfVersions DEF Sound, NothingNewer
      <4>3. VersionOf(f) # VersionOf(g)
        BY <4>1 DEF Distinct
      <4> QED
        BY <1>2, <4>1, <4>2, <4>3, OlderIsAnOrder
    <3>6. \A e, f : Abstract!Older(e, f) <=> Older(e, f)
      BY DEF Abstract!Older, Older
    <3>7. g \in S /\ Abstract!Newest(S, g)
      <4>1. g \in S
        BY <2>1, <3>3
      <4> QED
        BY <3>5, <3>6, <4>1 DEF Abstract!Newest
    <3>8. ASSUME NEW e \in S, Abstract!Newest(S, e) PROVE e = g
      <4> SUFFICES ASSUME e # g PROVE FALSE
        OBVIOUS
      <4>1. Older(g, e)
        BY <3>6, <3>7, <3>8 DEF Abstract!Newest
      <4>2. Older(e, g)
        BY <3>5
      <4>3. Stamp(e) /\ Stamp(g)
        BY <1>2, <2>1
      <4> QED
        BY <4>1, <4>2, <4>3, OlderIsAnOrder
    <3> HIDE DEF S
    <3>9. (CHOOSE e \in S : Abstract!Newest(S, e)) = g
      BY <3>7, <3>8
    <3>10. Abstract!ValueFrom(d.events, k) = (CHOOSE e \in S : Abstract!Newest(S, e)).value
      BY <2>3 DEF Abstract!ValueFrom, S
    <3> QED
      BY <3>4, <3>9, <3>10
  <2> QED
    BY <2>2, <2>3
<1> QED
  BY <1>1, <1>3

-----------------------------------------------------------------------------
(* The steps of the registers. *)

SameRegisters(d, e) ==
    e.known = d.known /\ e.version = d.version /\ e.events = d.events /\ e.counter = d.counter

AbstractStep == [Abstract!Next]_<<[n \in Node |-> db[n].events], [n \in Node |-> db[n].known]>>

LEMMA RegistersAreKept ==
  ASSUME NEW d, DbOK(d)
  PROVE  /\ SameRegisters(d, d) /\ SameRegisters(d, mergeSimilarStories(d))
         /\ \A s \in Snapshot : SameRegisters(d, applySnapshot(d, s))
         /\ \A row : SameRegisters(d, [d EXCEPT !.row = row])
<1>1. d \in Database
  BY DEF DbOK
<1>2. SameRegisters(d, d)
  BY DEF SameRegisters
<1>3. SameRegisters(d, mergeSimilarStories(d))
  BY <1>1 DEF SameRegisters, mergeSimilarStories, Database
<1>4. \A s \in Snapshot : SameRegisters(d, applySnapshot(d, s))
  BY <1>1 DEF SameRegisters, applySnapshot, Database
<1>5. \A row : SameRegisters(d, [d EXCEPT !.row = row])
  BY <1>1 DEF SameRegisters, Database
<1> QED
  BY <1>2, <1>3, <1>4, <1>5

LEMMA RegisterStep ==
  ASSUME NEW F, Everywhere' \subseteq F, Identified(F), CountedBy(F, db'),
         \A m \in Node : Grounded(db'[m]) /\ published'[m].events \subseteq db'[m].events
  PROVE  RegisterInv'
<1>1. Identified(Everywhere') /\ CountedBy(Everywhere', db')
  BY DEF Identified, CountedBy
<1>2. Identified(Everywhere)' /\ CountedBy(Everywhere, db)'
  BY <1>1 DEF Identified, CountedBy
<1>3. \A m \in Node : Grounded(db[m])'
  BY DEF Grounded
<1> QED
  BY <1>2, <1>3 DEF RegisterInv

LEMMA SilentStep ==
  ASSUME Types, RegisterInv, NEW n \in Node, NEW d, SameRegisters(db[n], d),
         db' = [db EXCEPT ![n] = d], saved' = saved \/ saved' = [saved EXCEPT ![n] = d],
         \A m \in Node : published'[m].events \subseteq db[m].events
  PROVE  RegisterInv' /\ AbstractStep
<1>1. db \in [Node -> Database] /\ saved \in [Node -> Database]
  BY DEF Types
<1>2. ASSUME NEW m \in Node PROVE SameRegisters(db[m], db'[m]) /\ saved'[m] \in {saved[m], d}
  BY <1>1 DEF SameRegisters
<1>3. Everywhere' \subseteq Everywhere
  <2> SUFFICES ASSUME NEW m \in Node
               PROVE  /\ db'[m].events \subseteq Everywhere /\ saved'[m].events \subseteq Everywhere
                      /\ published'[m].events \subseteq Everywhere
    BY DEF Everywhere
  <2> QED
    BY <1>2, PartsOfEverywhere DEF SameRegisters
<1>4. CountedBy(Everywhere, db')
  <2> SUFFICES ASSUME NEW e \in Everywhere PROVE e.counter <= db'[e.actor].counter
    BY DEF CountedBy
  <2>1. e \in Event /\ e.actor \in Node
    <3>1. e \in Event
      BY DEF Everywhere, Types, DbOK, CacheOK, Cache, Database
    <3> QED
      BY <3>1 DEF Event
  <2> QED
    BY <1>2, <2>1 DEF RegisterInv, CountedBy, SameRegisters
<1>5. \A m \in Node : Grounded(db'[m]) /\ published'[m].events \subseteq db'[m].events
  BY <1>2 DEF RegisterInv, Grounded, SameRegisters
<1>6. RegisterInv'
  BY <1>3, <1>4, <1>5, RegisterStep DEF RegisterInv
<1>7. AbstractStep
  BY <1>2 DEF AbstractStep, SameRegisters
<1> QED
  BY <1>6, <1>7

LEMMA EventsEverywhere ==
  ASSUME Types, NEW e \in Everywhere
  PROVE  e \in Event /\ e.actor \in Node /\ e.counter \in Nat /\ e.ts \in Nat /\ e.key \in Key
<1>1. e \in Event
  BY DEF Everywhere, Types, DbOK, CacheOK, Cache, Database
<1> QED
  BY <1>1 DEF Event

\* After any step the registers of n follow from its events.
LEMMA RegistersFollow ==
  ASSUME Types', FollowInv', RegisterInv', NEW n \in Node
  PROVE  db'[n].known = [k \in Key |-> Abstract!ValueFrom(db'[n].events, k)]
<1>1. DbOK(db'[n])
  BY DEF Types, DbOK
<1>2. Stamped(Everywhere', now') /\ Distinct(Everywhere')
  BY DEF FollowInv, Stamped, Distinct
<1>3. Sound(db'[n], Everywhere', now')
  BY DEF FollowInv, Sound, NothingNewer, KnownIsTheVersions, VersionedBefore
<1>4. Grounded(db'[n])
  BY DEF RegisterInv, Grounded
<1>5. db'[n].events \subseteq Everywhere'
  BY DEF Everywhere
<1> QED
  BY <1>1, <1>2, <1>3, <1>4, <1>5, GroundedFollows

\* The counters and the times of the events of a scan are new.
LEMMA ScanIdentified ==
  ASSUME NEW n \in Node, NEW d, DbOK(d), now \in Nat, now >= 1,
         NEW E, E \subseteq Event, Stamped(E, now), Identified(E), \A e \in E : e.actor = n => e.counter <= d.counter,
         EqualClocks
  PROVE  /\ Identified(E \cup NewEvents(n, d))
         /\ \A e \in NewEvents(n, d) : e.counter <= d.counter + Cardinality(Changed(d))
         /\ \A e \in NewEvents(n, d), f \in E : ~SameId(e, f) /\ ~SameId(f, e) /\ Older(f, e)
<1> DEFINE N == NewEvents(n, d)
           upTo(i) == {c \in Changed(d) : c <= i}
<1>1. Changed(d) \in SUBSET Key /\ Changed(d) \in SUBSET Nat /\ IsFiniteSet(Changed(d))
  <2>1. Changed(d) \in SUBSET Key
    BY DEF Changed
  <2> QED
    BY <2>1, NodeAssumption, FS_Subset
<1>2. d \in Database /\ d.counter \in Nat /\ Cardinality(Changed(d)) \in Nat
  BY <1>1, DbFields, FS_CardinalityType DEF DbOK
<1>3. ASSUME NEW e \in N
      PROVE  /\ e \in Event /\ e.key \in Changed(d) /\ e.key \in Key /\ e = LocalEvent(n, d, e.key)
             /\ e.ts = now + Skew[n] /\ e.actor = n
             /\ e.counter = d.counter + Cardinality(upTo(e.key))
             /\ Cardinality(upTo(e.key)) \in Nat
             /\ Cardinality(upTo(e.key)) <= Cardinality(Changed(d)) /\ Cardinality(upTo(e.key)) >= 1
  <2>1. /\ e \in Event /\ e.key \in Changed(d) /\ e.key \in Key /\ e = LocalEvent(n, d, e.key)
        /\ e.ts = now + Skew[n] /\ e.actor = n
    BY NewEventsAre
  <2>2. e.counter = d.counter + Cardinality(upTo(e.key))
    BY <2>1 DEF LocalEvent
  <2>3. upTo(e.key) \in SUBSET Changed(d) /\ e.key \in upTo(e.key)
    BY <1>1, <2>1
  <2> HIDE DEF upTo
  <2>4. IsFiniteSet(upTo(e.key)) /\ Cardinality(upTo(e.key)) <= Cardinality(Changed(d))
    BY <1>1, <2>3, FS_Subset
  <2>5. Cardinality(upTo(e.key)) \in Nat /\ Cardinality(upTo(e.key)) # 0
    BY <2>3, <2>4, FS_CardinalityType, FS_EmptySet
  <2> QED
    BY <2>1, <2>2, <2>4, <2>5
<1>4. \A e \in N : e.counter <= d.counter + Cardinality(Changed(d)) /\ e.counter > d.counter
                   /\ e.counter \in Nat
  <2> HIDE DEF N, upTo
  <2> QED
    BY <1>2, <1>3
<1>5. ASSUME NEW e \in N, NEW f \in E PROVE ~SameId(e, f) /\ ~SameId(f, e) /\ e.ts > f.ts
  <2>1. f \in Event /\ f.ts \in Nat /\ f.counter \in Nat /\ f.ts < now + Skew[n]
    BY DEF Stamped, Event
  <2>2. f.actor = n => f.counter <= d.counter
    OBVIOUS
  <2>3. e.actor = n /\ e.ts = now + Skew[n] /\ Skew[n] \in Nat
    BY <1>3, ShapeAssumption
  <2>4. e.counter > d.counter /\ e.counter \in Nat
    BY <1>4
  <2>5. e.ts > f.ts
    BY <2>1, <2>3
  <2>6. f.actor = n => e.counter # f.counter
    BY <1>2, <2>1, <2>2, <2>4
  <2> QED
    BY <2>3, <2>5, <2>6 DEF SameId
<1>6. ASSUME NEW e \in N, NEW f \in N, SameId(e, f) PROVE e = f
  <2>1. Cardinality(upTo(e.key)) = Cardinality(upTo(f.key))
    <3>1. d.counter + Cardinality(upTo(e.key)) = d.counter + Cardinality(upTo(f.key))
      BY <1>3, <1>6 DEF SameId
    <3>2. Cardinality(upTo(e.key)) \in Nat /\ Cardinality(upTo(f.key)) \in Nat
      BY <1>3
    <3> HIDE DEF upTo
    <3> QED
      BY <1>2, <3>1, <3>2
  <2>2. e.key = f.key
    BY <1>1, <1>3, <2>1, PositionIsStrict
  <2> QED
    BY <1>3, <2>2
<1>7. ASSUME NEW e \in N, NEW f \in N, e.key = f.key PROVE e = f
  BY <1>3, <1>7
<1>8. ASSUME NEW e \in N, NEW m \in Node PROVE e.ts > Skew[m]
  <2>1. e.ts = now + Skew[n] /\ Skew[n] = Skew[m] /\ Skew[n] \in Nat
    BY <1>3, ShapeAssumption DEF EqualClocks
  <2> QED
    BY <2>1
<1>9. \A e \in N, f \in E : e.ts # f.ts
  <2> SUFFICES ASSUME NEW e \in N, NEW f \in E PROVE e.ts # f.ts
    OBVIOUS
  <2>1. e.ts > f.ts /\ e.ts \in Nat /\ f.ts \in Nat
    BY <1>3, <1>5 DEF Event
  <2> QED
    BY <2>1
<1> HIDE DEF N, upTo
<1>10. Identified(E \cup N)
  BY <1>5, <1>6, <1>7, <1>8, <1>9 DEF Identified
<1>11. \A e \in N, f \in E : Older(f, e)
  <2> SUFFICES ASSUME NEW e \in N, NEW f \in E PROVE Older(f, e)
    OBVIOUS
  <2>1. e.ts > f.ts /\ e.ts \in Nat /\ f.ts \in Nat
    BY <1>3, <1>5 DEF Event
  <2> QED
    BY <2>1 DEF Older
<1> QED
  BY <1>4, <1>5, <1>10, <1>11 DEF N

\* A step of the registers in which the events of n grow by new.
LEMMA RegistersStep ==
  ASSUME Types, Types', FollowInv', RegisterInv', NEW n \in Node, NEW new,
         db'[n].events = db[n].events \cup new,
         \A m \in Node \ {n} : db'[m].events = db[m].events /\ db'[m].known = db[m].known,
         \/ \A e \in new : e \notin db[n].events =>
                e.actor = n /\ \A f \in db[n].events : Older(f, e)
         \/ \A e \in new : \E p \in Node : e \in db[p].events
  PROVE  AbstractStep
<1> DEFINE seen == [m \in Node |-> db[m].events]
           register == [m \in Node |-> db[m].known]
           added == seen'[n] \ seen[n]
<1>1. seen'[n] = db'[n].events /\ seen[n] = db[n].events
  OBVIOUS
<1>2. added \subseteq new /\ seen' = [seen EXCEPT ![n] = seen[n] \cup added]
  OBVIOUS
<1>3. register'[n] = [k \in Key |-> Abstract!ValueFrom(seen'[n], k)]
  BY RegistersFollow
<1>4. \A p \in Node \ {n} : register'[p] = register[p]
  OBVIOUS
<1>5. \A e, f : Abstract!Older(e, f) <=> Older(e, f)
  BY DEF Abstract!Older, Older
<1>6. \/ \A e \in added : e.actor = n /\ \A f \in seen[n] : Abstract!Older(f, e)
      \/ \A e \in added : \E p \in Node : e \in seen[p]
  <2>1. CASE \A e \in new : e \notin db[n].events =>
                e.actor = n /\ \A f \in db[n].events : Older(f, e)
    BY <1>5, <2>1
  <2>2. CASE \A e \in new : \E p \in Node : e \in db[p].events
    BY <2>2
  <2> QED
    BY <2>1, <2>2
<1>7. \E m \in Node :
          /\ \/ /\ \A e \in seen'[m] \ seen[m] : e.actor = m /\ \A f \in seen[m] : Abstract!Older(f, e)
                /\ seen' = [seen EXCEPT ![m] = seen[m] \cup (seen'[m] \ seen[m])]
             \/ /\ \A e \in seen'[m] \ seen[m] : \E p \in Node : e \in seen[p]
                /\ seen' = [seen EXCEPT ![m] = seen[m] \cup (seen'[m] \ seen[m])]
          /\ register'[m] = [k \in Key |-> Abstract!ValueFrom(seen'[m], k)]
          /\ \A p \in Node \ {m} : register'[p] = register[p]
  <2> HIDE DEF seen, register
  <2> QED
    BY <1>2, <1>3, <1>4, <1>6
<1>8. Abstract!Next
  BY <1>7 DEF Abstract!Next, Abstract!Write, Abstract!Receive, Abstract!Follows
<1> QED
  BY <1>8 DEF AbstractStep

LEMMA ScanAdds ==
  ASSUME EqualClocks, Types, FollowInv, RegisterInv, NEW n \in Node,
         NEW d, DbOK(d), SameRegisters(db[n], d)
  PROVE  LET s == scanLocalChanges(n, d)
             N == NewEvents(n, d)
         IN /\ Identified(Everywhere \cup N)
            /\ \A e \in N : e.counter <= d.counter + Cardinality(Changed(d))
            /\ \A e \in N, f \in Everywhere : Older(f, e)
            /\ s.events = d.events \cup N
            /\ s.counter = d.counter + Cardinality(Changed(d)) /\ Cardinality(Changed(d)) \in Nat
<1> DEFINE N == NewEvents(n, d)
           s == scanLocalChanges(n, d)
<1>1. now \in Nat /\ now >= 1
  BY LimitAssumption DEF Types
<1>2. d.counter = db[n].counter /\ d.events \subseteq Everywhere
  BY PartsOfEverywhere DEF SameRegisters
<1>3. /\ Identified(Everywhere \cup N) /\ \A e \in N : e.counter <= d.counter + Cardinality(Changed(d))
      /\ \A e \in N, f \in Everywhere : ~SameId(e, f) /\ ~SameId(f, e) /\ Older(f, e)
  <2>1. Everywhere \subseteq Event
    BY EventsEverywhere
  <2>2. Stamped(Everywhere, now) /\ Identified(Everywhere)
    BY DEF FollowInv, RegisterInv
  <2>3. \A e \in Everywhere : e.actor = n => e.counter <= d.counter
    BY <1>2 DEF RegisterInv, CountedBy
  <2> QED
    BY <1>1, <2>1, <2>2, <2>3, ScanIdentified
<1>4. s.events = d.events \cup N
  <2>1. s.events = WithEvents(d.events, N)
    BY <1>1, ScanOK
  <2>2. \A e \in d.events, f \in N : ~SameId(e, f)
    BY <1>2, <1>3
  <2> QED
    BY <2>1, <2>2 DEF WithEvents
<1>5. s.counter = d.counter + Cardinality(Changed(d)) /\ Cardinality(Changed(d)) \in Nat
  <2>1. d \in Database
    BY DEF DbOK
  <2>2. s.counter = d.counter + Cardinality(Changed(d))
    BY <2>1 DEF scanLocalChanges, Database
  <2>3. Changed(d) \in SUBSET Key
    BY DEF Changed
  <2>4. IsFiniteSet(Changed(d))
    BY <2>3, NodeAssumption, FS_Subset
  <2> QED
    BY <2>2, <2>4, FS_CardinalityType
<1> QED
  BY <1>3, <1>4, <1>5

LEMMA WriteStep ==
  ASSUME EqualClocks, Types, FollowInv, RegisterInv, Types', FollowInv', NEW n \in Node,
         NEW d, DbOK(d), SameRegisters(db[n], d),
         db' = [db EXCEPT ![n] = scanLocalChanges(n, d)], saved' = saved,
         \A m \in Node : published'[m].events \subseteq db'[m].events \cup db[m].events
  PROVE  RegisterInv' /\ AbstractStep
<1> DEFINE N == NewEvents(n, d)
           F == Everywhere \cup N
           s == scanLocalChanges(n, d)
<1>1. now \in Nat /\ now >= 1 /\ db \in [Node -> Database] /\ saved \in [Node -> Database]
  BY LimitAssumption DEF Types
<1>2. /\ d.events = db[n].events /\ d.version = db[n].version /\ d.known = db[n].known
      /\ d.counter = db[n].counter /\ d.events \subseteq Everywhere /\ d.counter \in Nat
  BY PartsOfEverywhere, DbFields DEF SameRegisters, DbOK
<1>3. /\ Identified(F) /\ \A e \in N : e.counter <= d.counter + Cardinality(Changed(d))
      /\ \A e \in N, f \in Everywhere : Older(f, e)
  BY ScanAdds
<1>4. s.events = d.events \cup N
  BY ScanAdds
<1>5. s.counter = d.counter + Cardinality(Changed(d)) /\ Cardinality(Changed(d)) \in Nat
  BY ScanAdds
<1>6. db'[n] = s /\ \A m \in Node \ {n} : db'[m] = db[m]
  BY <1>1
<1>7. \A m \in Node : db[m].events \subseteq db'[m].events
  <2> HIDE DEF s, N
  <2> QED
    BY <1>2, <1>4, <1>6
<1>8. CountedBy(F, db')
  <2> SUFFICES ASSUME NEW e \in F PROVE e.counter <= db'[e.actor].counter
    BY DEF CountedBy
  <2>1. CASE e \in Everywhere
    <3>1. e.counter \in Nat /\ e.actor \in Node /\ e.counter <= db[e.actor].counter
      BY <2>1, EventsEverywhere DEF RegisterInv, CountedBy
    <3>2. CASE e.actor = n
      <4> HIDE DEF s
      <4> QED
        BY <1>2, <1>5, <1>6, <3>1, <3>2
    <3>3. CASE e.actor # n
      BY <1>6, <3>1, <3>3
    <3> QED
      BY <3>2, <3>3
  <2>2. CASE e \in N
    <3>1. e.actor = n
      BY <1>1, <2>2, NewEventsAre
    <3> QED
      BY <1>3, <1>5, <1>6, <2>2, <3>1
  <2> QED
    BY <2>1, <2>2
<1>9. Grounded(s)
  <2> SUFFICES ASSUME NEW k \in Key
               PROVE  \/ s.version[k] = NoVersion /\ s.known[k] = Absent
                      \/ \E e \in s.events : e.key = k /\ s.version[k] = VersionOf(e)
    BY DEF Grounded
  <2>1. s.version[k] = IF k \in Changed(d) THEN VersionOf(LocalEvent(n, d, k)) ELSE d.version[k]
    <3>1. s.version = [j \in Key |->
              IF j \in Changed(d) THEN VersionOf(LocalEvent(n, d, j)) ELSE d.version[j]]
      BY <1>1, ScanOK
    <3> QED
      BY <3>1
  <2>2. s.known[k] = d.row[k]
    BY <1>1, ScanOK
  <2>3. CASE k \in Changed(d)
    <3>1. LocalEvent(n, d, k) \in N /\ LocalEvent(n, d, k).key = k
      BY <2>3 DEF NewEvents, LocalEvent
    <3> HIDE DEF s, N
    <3> QED
      BY <1>4, <2>1, <2>3, <3>1
  <2>4. CASE k \notin Changed(d)
    <3>1. d.row[k] = d.known[k]
      BY <2>4 DEF Changed
    <3>2. \/ d.version[k] = NoVersion /\ d.known[k] = Absent
          \/ \E e \in d.events : e.key = k /\ d.version[k] = VersionOf(e)
      BY <1>2 DEF RegisterInv, Grounded
    <3> HIDE DEF s, N
    <3> QED
      BY <1>4, <2>1, <2>2, <2>4, <3>1, <3>2
  <2> QED
    BY <2>3, <2>4
<1> HIDE DEF s
<1>10. \A m \in Node : Grounded(db'[m]) /\ published'[m].events \subseteq db'[m].events
  BY <1>6, <1>7, <1>9 DEF RegisterInv
<1>11. Everywhere' \subseteq F
  <2> SUFFICES ASSUME NEW m \in Node
               PROVE  db'[m].events \cup saved'[m].events \cup published'[m].events \subseteq F
    BY DEF Everywhere
  <2>1. db'[m].events \subseteq F
    BY <1>2, <1>4, <1>6, PartsOfEverywhere
  <2> QED
    BY <1>10, <2>1, PartsOfEverywhere
<1>12. RegisterInv'
  <2> HIDE DEF F
  <2> QED
    BY <1>3, <1>8, <1>10, <1>11, RegisterStep
<1>13. AbstractStep
  <2>1. db'[n].events = db[n].events \cup N
    BY <1>2, <1>4, <1>6
  <2>2. \A e \in N : e.actor = n /\ \A f \in db[n].events : Older(f, e)
    BY <1>1, <1>3, NewEventsAre, PartsOfEverywhere
  <2> HIDE DEF N
  <2> QED
    BY <1>6, <1>12, <2>1, <2>2, RegistersStep
<1> QED
  BY <1>12, <1>13

LEMMA ReceiveStep ==
  ASSUME Types, FollowInv, RegisterInv, Types', FollowInv', NEW n \in Node, NEW p \in Node,
         ImportDelta(n, p)
  PROVE  RegisterInv' /\ AbstractStep
<1> DEFINE received == Delta(n, p)
           wins == Wins(db[n], received)
           d == applyRemoteEvents(db[n], received)
<1>1. db \in [Node -> Database] /\ DbOK(db[n])
  BY DEF Types
<1>2. /\ received \in SUBSET Event /\ IsFiniteSet(received) /\ received \subseteq published[p].events
      /\ received \subseteq db[p].events
  BY DeltaOK DEF RegisterInv
<1>3. db' = [db EXCEPT ![n] = d] /\ saved' = saved /\ published' = published
  BY DEF ImportDelta
<1>4. /\ d.known = [k \in Key |-> IF HasWinner(wins, k) THEN Winner(wins, k).value ELSE db[n].known[k]]
      /\ d.version = [k \in Key |-> IF HasWinner(wins, k) THEN VersionOf(Winner(wins, k))
                                                          ELSE db[n].version[k]]
      /\ d.events = db[n].events \cup Unknown(db[n], received)
      /\ wins \subseteq Unknown(db[n], received) /\ Unknown(db[n], received) \subseteq received
  BY <1>1, <1>2, ApplyOK
<1>5. d.counter = db[n].counter
  <2>1. db[n] \in Database
    BY <1>1 DEF DbOK
  <2> QED
    BY <2>1 DEF applyRemoteEvents, Applied, Database
<1> HIDE DEF d, wins, received
<1>6. db'[n] = d /\ \A m \in Node \ {n} : db'[m] = db[m]
  BY <1>1, <1>3
<1>7. Grounded(d)
  <2> SUFFICES ASSUME NEW k \in Key
               PROVE  \/ d.version[k] = NoVersion /\ d.known[k] = Absent
                      \/ \E e \in d.events : e.key = k /\ d.version[k] = VersionOf(e)
    BY DEF Grounded
  <2>1. CASE HasWinner(wins, k)
    <3>1. Winner(wins, k) \in wins /\ Winner(wins, k).key = k
      BY <2>1, WinnerIsOne
    <3> QED
      BY <1>4, <2>1, <3>1
  <2>2. CASE ~HasWinner(wins, k)
    <3>1. d.version[k] = db[n].version[k] /\ d.known[k] = db[n].known[k]
      BY <1>4, <2>2
    <3>2. \/ db[n].version[k] = NoVersion /\ db[n].known[k] = Absent
          \/ \E e \in db[n].events : e.key = k /\ db[n].version[k] = VersionOf(e)
      BY DEF RegisterInv, Grounded
    <3> QED
      BY <1>4, <3>1, <3>2
  <2> QED
    BY <2>1, <2>2
<1>8. Everywhere' \subseteq Everywhere
  <2> SUFFICES ASSUME NEW m \in Node
               PROVE  db'[m].events \cup saved'[m].events \cup published'[m].events \subseteq Everywhere
    BY DEF Everywhere
  <2> QED
    BY <1>2, <1>3, <1>4, <1>6, PartsOfEverywhere
<1>9. CountedBy(Everywhere, db')
  <2> SUFFICES ASSUME NEW e \in Everywhere PROVE e.counter <= db'[e.actor].counter
    BY DEF CountedBy
  <2>1. e.actor \in Node /\ e.counter <= db[e.actor].counter
    BY EventsEverywhere DEF RegisterInv, CountedBy
  <2> QED
    BY <1>5, <1>6, <2>1
<1>10. \A m \in Node : Grounded(db'[m]) /\ published'[m].events \subseteq db'[m].events
  BY <1>3, <1>4, <1>6, <1>7 DEF RegisterInv
<1>11. RegisterInv'
  BY <1>8, <1>9, <1>10, RegisterStep DEF RegisterInv
<1>12. AbstractStep
  <2>1. db'[n].events = db[n].events \cup Unknown(db[n], received)
    BY <1>4, <1>6
  <2>2. \A e \in Unknown(db[n], received) : \E q \in Node : e \in db[q].events
    BY <1>2, <1>4
  <2> QED
    BY <1>6, <1>11, <2>1, <2>2, RegistersStep
<1> QED
  BY <1>11, <1>12

LEMMA StampedLater ==
  ASSUME NEW E, NEW t \in Nat, NEW u \in Nat, t <= u, Stamped(E, t)
  PROVE  Stamped(E, u)
<1> SUFFICES ASSUME NEW e \in E PROVE e \in Event /\ e.ts >= 1 /\ \A n \in Node : e.ts < u + Skew[n]
  BY DEF Stamped
<1>1. e \in Event /\ e.ts >= 1 /\ \A n \in Node : e.ts < t + Skew[n]
  BY DEF Stamped
<1>2. e.ts \in Nat /\ \A n \in Node : Skew[n] \in Nat
  BY <1>1, ShapeAssumption DEF Event
<1> QED
  BY <1>1, <1>2

LEMMA EndIsWhole ==
  ASSUME NothingForgotten, EqualClocks, Types, FollowInv, RegisterInv, NEW n \in Node, EndSync(n)
  PROVE  Pruned(Scanned(n)) = Scanned(n)
<1> DEFINE d == mergeSimilarStories(db[n])
<1>0. now \in Nat /\ now >= 1 /\ now <= MaxScans + 1 /\ MaxScans \in Nat
  BY LimitAssumption DEF Types
<1>1. DbOK(db[n]) /\ DbOK(d) /\ DbOK(Scanned(n))
  BY ScannedOK DEF Types
<1>2. SameRegisters(db[n], d) /\ d.events \subseteq Everywhere
  BY <1>1, RegistersAreKept, PartsOfEverywhere DEF SameRegisters
<1>3. Stamped(Everywhere, now) /\ Distinct(Everywhere) /\ Identified(Everywhere)
  BY DEF FollowInv, RegisterInv
<1> HIDE DEF d
<1>4. CASE sync[n].rescan \/ Duplicates(db[n]) # {}
  <2>1. Scanned(n) = scanLocalChanges(n, d)
    BY <1>4 DEF Scanned, d
  <2>2. Scanned(n).events \in SUBSET (Everywhere \cup NewEvents(n, d))
    BY <1>0, <1>1, <1>2, <2>1, ScanOK DEF WithEvents
  <2>3. Identified(Everywhere \cup NewEvents(n, d))
    BY <1>1, <1>2, ScanAdds
  <2>4. Stamped(Everywhere \cup NewEvents(n, d), MaxScans + 1)
    <3>1. CASE Changed(d) # {}
      <4>1. now <= MaxScans
        BY <1>4, <3>1, EndSyncParts DEF Emits, d
      <4>2. Stamped(Everywhere \cup NewEvents(n, d), now + 1)
        BY <1>0, <1>1, <1>3, ScanStamps
      <4>3. now + 1 \in Nat /\ MaxScans + 1 \in Nat /\ now + 1 <= MaxScans + 1
        BY <1>0, <4>1
      <4> QED
        BY <4>2, <4>3, StampedLater
    <3>2. CASE Changed(d) = {}
      <4>1. Everywhere \cup NewEvents(n, d) = Everywhere
        BY <1>0, <1>1, <3>2, QuietScan
      <4>2. MaxScans + 1 \in Nat
        BY <1>0
      <4> QED
        BY <1>0, <1>3, <4>1, <4>2, StampedLater
    <3> QED
      BY <3>1, <3>2
  <2> QED
    BY <1>1, <2>2, <2>3, <2>4, NothingIsPruned
<1>5. CASE ~(sync[n].rescan \/ Duplicates(db[n]) # {})
  <2>1. Scanned(n) = d
    BY <1>5 DEF Scanned, d
  <2>2. Stamped(Everywhere, MaxScans + 1)
    <3>1. MaxScans + 1 \in Nat
      BY <1>0
    <3> QED
      BY <1>0, <1>3, <3>1, StampedLater
  <2> QED
    BY <1>1, <1>2, <1>3, <2>1, <2>2, NothingIsPruned
<1> QED
  BY <1>4, <1>5

LEMMA EndRegisters ==
  ASSUME NothingForgotten, EqualClocks, Types, FollowInv, RegisterInv, Types', FollowInv',
         NEW n \in Node, EndSync(n)
  PROVE  /\ RegisterInv' /\ AbstractStep
         /\ db' = [db EXCEPT ![n] = Scanned(n)]
         /\ published' = [published EXCEPT ![n] =
                [published[n] EXCEPT !.events = Latest(Scanned(n).events, CacheSize),
                                     !.vector = getVersionVector(Scanned(n))]]
<1> DEFINE d == mergeSimilarStories(db[n])
<1>0. published \in [Node -> Cache] /\ db \in [Node -> Database]
  BY DEF Types
<1>1. /\ db' = [db EXCEPT ![n] = Scanned(n)]
      /\ published' = [published EXCEPT ![n] =
                [published[n] EXCEPT !.events = Latest(Scanned(n).events, CacheSize),
                                     !.vector = getVersionVector(Scanned(n))]]
  BY EndSyncParts, EndIsWhole
<1>2. DbOK(db[n]) /\ DbOK(d)
  BY ScannedOK DEF Types
<1>3. SameRegisters(db[n], d)
  BY <1>2, RegistersAreKept
<1>4. saved' = saved
  BY EndSyncParts
<1>5. \A m \in Node : published'[m].events \subseteq db'[m].events \cup db[m].events
  <2>1. Latest(Scanned(n).events, CacheSize) \subseteq Scanned(n).events
    BY DEF Latest
  <2>2. \A m \in Node : m # n => published'[m] = published[m]
    BY <1>0, <1>1
  <2>3. published'[n].events = Latest(Scanned(n).events, CacheSize) /\ db'[n] = Scanned(n)
    BY <1>0, <1>1 DEF Cache
  <2> QED
    BY <2>1, <2>2, <2>3 DEF RegisterInv
<1> HIDE DEF d
<1>6. CASE sync[n].rescan \/ Duplicates(db[n]) # {}
  <2>1. db' = [db EXCEPT ![n] = scanLocalChanges(n, d)]
    BY <1>1, <1>6 DEF Scanned, d
  <2> QED
    BY <1>1, <1>2, <1>3, <1>4, <1>5, <2>1, WriteStep
<1>7. CASE ~(sync[n].rescan \/ Duplicates(db[n]) # {})
  <2>1. db' = [db EXCEPT ![n] = d]
    BY <1>1, <1>7 DEF Scanned, d
  <2>2. \A m \in Node : published'[m].events \subseteq db[m].events
    <3>1. \A m \in Node : db'[m].events = db[m].events
      BY <1>0, <1>3, <2>1 DEF SameRegisters
    <3> QED
      BY <1>5, <3>1
  <2> QED
    BY <1>1, <1>3, <1>4, <2>1, <2>2, SilentStep
<1> QED
  BY <1>1, <1>6, <1>7

LEMMA NextRegisters ==
  ASSUME NothingForgotten, EqualClocks, Types, FollowInv, RegisterInv, [Next]_vars
  PROVE  RegisterInv' /\ AbstractStep
<1>0. Types' /\ FollowInv'
  BY NextTypes, NextFollows
<1>1. \A m \in Node : DbOK(db[m]) /\ published[m].events \subseteq db[m].events
  BY DEF Types, RegisterInv
<1>2. ASSUME NEW n \in Node, NEW k \in Key, NEW v \in Row, EditRow(n, k, v)
      PROVE  RegisterInv' /\ AbstractStep
  <2> DEFINE d == [db[n] EXCEPT !.row = [db[n].row EXCEPT ![k] = v]]
  <2>1. db' = [db EXCEPT ![n] = d]
    BY <1>2, EditTypes
  <2>2. SameRegisters(db[n], d)
    BY <1>1, RegistersAreKept
  <2> HIDE DEF d
  <2>3. saved' = [saved EXCEPT ![n] = d] /\ published' = published
    BY <1>2, <2>1 DEF EditRow, Types
  <2> QED
    BY <1>1, <2>1, <2>2, <2>3, SilentStep
<1>3. ASSUME NEW n \in Node, BeginSync(n) PROVE RegisterInv' /\ AbstractStep
  <2>1. db' = [db EXCEPT ![n] = scanLocalChanges(n, db[n])] /\ saved' = saved
    BY <1>3 DEF BeginSync
  <2>2. \A m \in Node : published'[m].events = published[m].events
    <3>1. published \in [Node -> Cache]
      BY DEF Types
    <3> QED
      BY <1>3, <3>1 DEF BeginSync, Cache
  <2>3. SameRegisters(db[n], db[n])
    BY <1>1, RegistersAreKept
  <2>4. \A m \in Node : published'[m].events \subseteq db'[m].events \cup db[m].events
    BY <1>1, <2>2
  <2> QED
    BY <1>0, <1>1, <2>1, <2>3, <2>4, WriteStep
<1>4. ASSUME NEW n \in Node, NEW p \in Node, PullDelta(n, p) \/ SnapshotFails(n, p)
      PROVE  RegisterInv' /\ AbstractStep
  <2>1. ImportDelta(n, p)
    BY <1>4 DEF PullDelta, SnapshotFails
  <2> QED
    BY <1>0, <2>1, ReceiveStep
<1>5. ASSUME NEW n \in Node, NEW p \in Node, RecoverFromSnapshot(n, p) PROVE RegisterInv' /\ AbstractStep
  <2> DEFINE d == applySnapshot(db[n], published[p].snapshot)
  <2>1. db' = [db EXCEPT ![n] = d] /\ saved' = saved /\ published' = published
    BY <1>5 DEF RecoverFromSnapshot
  <2>2. published[p].snapshot \in Snapshot
    BY DEF Types, CacheOK, Cache
  <2>3. SameRegisters(db[n], d)
    BY <1>1, <2>2, RegistersAreKept
  <2> HIDE DEF d
  <2> QED
    BY <1>1, <2>1, <2>3, SilentStep
<1>6. ASSUME UNCHANGED <<db, saved, published>> PROVE RegisterInv' /\ AbstractStep
  BY <1>6 DEF RegisterInv, Everywhere, AbstractStep
<1>7. ASSUME NEW n \in Node, NEW p \in Node, PeerUnreachable(n, p) PROVE RegisterInv' /\ AbstractStep
  BY <1>6, <1>7 DEF PeerUnreachable
<1>8. ASSUME NEW n \in Node, EndSync(n) PROVE RegisterInv' /\ AbstractStep
  BY <1>0, <1>8, EndRegisters
<1>9. ASSUME NEW n \in Node, SaveDb(n) PROVE RegisterInv' /\ AbstractStep
  <2>1. db' = [db EXCEPT ![n] = db[n]] /\ saved' = [saved EXCEPT ![n] = db[n]] /\ published' = published
    BY <1>9 DEF SaveDb, Types
  <2>2. SameRegisters(db[n], db[n])
    BY <1>1, RegistersAreKept
  <2> QED
    BY <1>1, <2>1, <2>2, SilentStep
<1>10. ASSUME NEW n \in Node, Crash(n) PROVE FALSE
  BY <1>10 DEF Crash, NothingForgotten
<1>11. CASE UNCHANGED vars
  BY <1>6, <1>11 DEF vars
<1> QED
  BY <1>2, <1>3, <1>4, <1>5, <1>7, <1>8, <1>9, <1>10, <1>11 DEF Next

LEMMA InitRegisters == Init => RegisterInv /\ Abstract!Init
<1> SUFFICES ASSUME Init PROVE RegisterInv /\ Abstract!Init
  OBVIOUS
<1>1. db = [n \in Node |-> EmptyDb] /\ saved = db /\ published = [n \in Node |-> NoCache]
  BY DEF Init
<1>2. EmptyDb.events = {} /\ NoCache.events = {} /\ EmptyDb.known = [k \in Key |-> Absent]
      /\ EmptyDb.version = [k \in Key |-> NoVersion]
  BY DEF EmptyDb, NoCache
<1>3. Everywhere = {}
  BY <1>1, <1>2 DEF Everywhere
<1>4. RegisterInv
  BY <1>1, <1>2, <1>3 DEF RegisterInv, Identified, CountedBy, Grounded
<1>5. Abstract!Init
  BY <1>1, <1>2 DEF Abstract!Init
<1> QED
  BY <1>4, <1>5

(***************************************************************************)
(* With clocks that agree and nothing forgotten, the nodes implement       *)
(* last-writer-wins registers: a scan writes events newer than all its     *)
(* node knows, an import receives events another node has, and the row a   *)
(* node last emitted or imported is what the newest of its events says.    *)
(***************************************************************************)
THEOREM ImplementsLastWriterWins ==
  ASSUME NothingForgotten, EqualClocks
  PROVE  Spec => LastWriterWinsSpec
<1>1. Init => Types /\ FollowInv /\ RegisterInv /\ Abstract!Init
  BY InitTypes, InitFollows, InitRegisters
<1>2. Types /\ FollowInv /\ RegisterInv /\ [Next]_vars
        => (Types /\ FollowInv /\ RegisterInv)'
  BY NextTypes, NextFollows, NextRegisters
<1>3. Types /\ FollowInv /\ RegisterInv /\ [Next]_vars
        => [Abstract!Next]_<<[n \in Node |-> db[n].events], [n \in Node |-> db[n].known]>>
  BY NextRegisters DEF AbstractStep
<1> QED
  BY <1>1, <1>2, <1>3, PTL DEF Spec, LastWriterWinsSpec, Abstract!Spec

-----------------------------------------------------------------------------
(* When moreover answers and caches have room for all events, no node       *)
(* needs a snapshot, and histories have no gaps.                            *)

RoomForAll ==
    /\ NothingForgotten
    /\ MaxScans * Cardinality(Key) <= CacheSize /\ MaxScans * Cardinality(Key) <= DeltaLimit

\* S has the event of actor a with the counter c; with an event, those its actor emitted before.
Emitted(S, a, c) == \E f \in S : f.actor = a /\ f.counter = c

Prefix(S) == \A e \in S : \A c \in 1 .. e.counter : Emitted(S, e.actor, c)

\* A vector names an event of S, for each actor S has events of.
Attained(vector, S) == \A a \in Node : vector[a] = 0 \/ Emitted(S, a, vector[a])

GapInv ==
    \A n \in Node :
        /\ Prefix(db[n].events) /\ Prefix(published[n].events)
        /\ db[n].snapshotVector = ZeroVector
        /\ Attained(published[n].vector, published[n].events)
        /\ \A c \in 1 .. db[n].counter : Emitted(db[n].events, n, c)

LEMMA PositionsAreAll ==
  ASSUME NEW S \in SUBSET Nat, IsFiniteSet(S), NEW c \in 1 .. Cardinality(S)
  PROVE  \E k \in S : Cardinality({i \in S : i <= k}) = c
<1> DEFINE upTo(k) == {i \in S : i <= k}
           position == [k \in S |-> Cardinality(upTo(k))]
           T == 1 .. Cardinality(S)
<1>0. Cardinality(S) \in Nat
  BY FS_CardinalityType
<1>1. \A k \in S : Cardinality(upTo(k)) \in T
  <2> SUFFICES ASSUME NEW k \in S PROVE Cardinality(upTo(k)) \in T
    OBVIOUS
  <2>1. upTo(k) \in SUBSET S /\ k \in upTo(k)
    OBVIOUS
  <2> HIDE DEF upTo
  <2>2. IsFiniteSet(upTo(k)) /\ Cardinality(upTo(k)) <= Cardinality(S)
    BY <2>1, FS_Subset
  <2>3. Cardinality(upTo(k)) \in Nat /\ Cardinality(upTo(k)) # 0
    BY <2>1, <2>2, FS_CardinalityType, FS_EmptySet
  <2> QED
    BY <1>0, <2>2, <2>3
<1>2. \A j, k \in S : position[j] = position[k] => j = k
  BY PositionIsStrict
<1>3. IsFiniteSet(T) /\ Cardinality(T) = Cardinality(S)
  <2>1. Cardinality(S) \in Int /\ 1 \in Int
    BY <1>0
  <2>2. IsFiniteSet(1 .. Cardinality(S))
        /\ Cardinality(1 .. Cardinality(S)) = IF 1 > Cardinality(S) THEN 0 ELSE Cardinality(S) - 1 + 1
    BY <2>1, FS_Interval
  <2> QED
    BY <1>0, <2>2
<1>4. position \in [S -> T]
  BY <1>1
<1> HIDE DEF position, T
<1>5. position \in Injection(S, T)
  BY <1>2, <1>4 DEF Injection, IsInjective
<1>6. position \in Surjection(S, T)
  BY <1>3, <1>5, FS_Injection
<1>7. PICK k \in S : position[k] = c
  BY <1>6 DEF Surjection, T
<1> QED
  BY <1>7 DEF position

LEMMA ScanPrefix ==
  ASSUME EqualClocks, Types, FollowInv, RegisterInv, NEW n \in Node,
         NEW d, DbOK(d), SameRegisters(db[n], d),
         Prefix(d.events), \A c \in 1 .. d.counter : Emitted(d.events, n, c)
  PROVE  LET s == scanLocalChanges(n, d)
         IN Prefix(s.events) /\ \A c \in 1 .. s.counter : Emitted(s.events, n, c)
<1> DEFINE N == NewEvents(n, d)
           s == scanLocalChanges(n, d)
<1>1. /\ s.events = d.events \cup N /\ s.counter = d.counter + Cardinality(Changed(d))
      /\ Cardinality(Changed(d)) \in Nat /\ \A e \in N : e.counter <= s.counter
  BY ScanAdds
<1>2. now \in Nat /\ d.counter \in Nat /\ Changed(d) \in SUBSET Nat /\ IsFiniteSet(Changed(d))
  <2>1. Changed(d) \in SUBSET Key
    BY DEF Changed
  <2>2. IsFiniteSet(Changed(d)) /\ Changed(d) \in SUBSET Nat
    BY <2>1, NodeAssumption, FS_Subset
  <2>3. d.counter \in Nat
    BY DbFields DEF DbOK
  <2>4. now \in Nat
    BY LimitAssumption DEF Types
  <2> QED
    BY <2>2, <2>3, <2>4
<1>3. ASSUME NEW c \in 1 .. s.counter PROVE Emitted(s.events, n, c)
  <2>1. c \in Nat /\ c >= 1 /\ c <= d.counter + Cardinality(Changed(d))
    BY <1>1, <1>2
  <2>2. CASE c <= d.counter
    <3>1. Emitted(d.events, n, c)
      BY <1>2, <2>1, <2>2
    <3> HIDE DEF s, N
    <3> QED
      BY <1>1, <3>1 DEF Emitted
  <2>3. CASE c > d.counter
    <3>1. c - d.counter \in 1 .. Cardinality(Changed(d))
      BY <1>1, <1>2, <2>1, <2>3
    <3>2. PICK k \in Changed(d) : Cardinality({i \in Changed(d) : i <= k}) = c - d.counter
      BY <1>2, <3>1, PositionsAreAll
    <3>3. LocalEvent(n, d, k) \in N
      BY DEF NewEvents
    <3>4. LocalEvent(n, d, k).actor = n /\ LocalEvent(n, d, k).counter = d.counter + (c - d.counter)
      BY <3>2 DEF LocalEvent
    <3>5. d.counter + (c - d.counter) = c
      BY <1>2, <2>1
    <3> HIDE DEF s, N
    <3> QED
      BY <1>1, <3>3, <3>4, <3>5 DEF Emitted
  <2> QED
    BY <1>2, <2>1, <2>2, <2>3
<1>4. ASSUME NEW e \in N, NEW c \in 1 .. e.counter PROVE Emitted(s.events, e.actor, c)
  <2>1. e \in Event /\ e.actor = n /\ e.counter \in Nat
    BY <1>2, NewEventsAre DEF Event
  <2>2. e.counter <= s.counter /\ s.counter \in Nat
    BY <1>1, <1>2
  <2>3. c \in 1 .. s.counter
    BY <2>1, <2>2
  <2> QED
    BY <1>3, <2>1, <2>3
<1>5. ASSUME NEW e \in d.events, NEW c \in 1 .. e.counter PROVE Emitted(s.events, e.actor, c)
  <2>1. Emitted(d.events, e.actor, c)
    BY DEF Prefix
  <2> HIDE DEF s
  <2> QED
    BY <1>1, <2>1 DEF Emitted
<1> HIDE DEF s, N
<1>6. Prefix(s.events)
  BY <1>1, <1>4, <1>5 DEF Prefix
<1> QED
  BY <1>3, <1>6 DEF s

\* What p answers n: all its cache holds beyond n's vector.
LEMMA AnswerIsWhole ==
  ASSUME RoomForAll, EqualClocks, Types, FollowInv, RegisterInv, NEW n \in Node, NEW p \in Node
  PROVE  Delta(n, p) = {e \in published[p].events : e.counter > getEffectiveVersionVector(db[n])[e.actor]}
<1> DEFINE S == {e \in published[p].events : e.counter > getEffectiveVersionVector(db[n])[e.actor]}
<1>1. S \in SUBSET Everywhere
  BY PartsOfEverywhere
<1>2. Stamped(Everywhere, MaxScans + 1) /\ Identified(Everywhere)
  <2>1. now \in Nat /\ now <= MaxScans + 1 /\ MaxScans + 1 \in Nat
    BY LimitAssumption DEF Types
  <2> QED
    BY <2>1, StampedLater DEF FollowInv, RegisterInv
<1>3. DeltaLimit \in Nat /\ MaxScans * Cardinality(Key) <= DeltaLimit
  BY LimitAssumption DEF RoomForAll
<1> HIDE DEF S
<1>4. Oldest(S, DeltaLimit) = S
  BY <1>1, <1>2, <1>3, NoneIsLeftOut
<1> QED
  BY <1>4 DEF Delta, getDeltaFromCache, S

LEMMA AnswerIsEnough ==
  ASSUME RoomForAll, EqualClocks, Types, FollowInv, RegisterInv, GapInv, NEW n \in Node, NEW p \in Node
  PROVE  ~Insufficient(n, p)
<1> DEFINE v == getEffectiveVersionVector(db[n])
           w == published[p].vector
<1>1. v \in Vector /\ w \in Vector
  BY VersionVectorOK DEF Types, CacheOK, Cache
<1>2. Delta(n, p) = {e \in published[p].events : e.counter > v[e.actor]} /\ IsFiniteSet(Delta(n, p))
  BY AnswerIsWhole, DeltaOK
<1>3. ASSUME NEW a \in Node, w[a] > v[a]
      PROVE  ~(Cardinality({e \in Delta(n, p) : e.actor = a}) < w[a] - v[a])
  <2> DEFINE R == {e \in Delta(n, p) : e.actor = a}
             I == v[a] + 1 .. w[a]
             g == [c \in I |-> CHOOSE e \in R : e.counter = c]
  <2>1. v[a] \in Nat /\ w[a] \in Nat
    BY <1>1 DEF Vector
  <2>2. ASSUME NEW c \in I PROVE \E e \in R : e.counter = c
    <3>1. w[a] # 0 /\ c \in 1 .. w[a] /\ c > v[a]
      BY <1>3, <2>1
    <3>2. PICK h \in published[p].events : h.actor = a /\ h.counter = w[a]
      BY <3>1 DEF GapInv, Attained, Emitted
    <3>3. PICK e \in published[p].events : e.actor = a /\ e.counter = c
      BY <3>1, <3>2 DEF GapInv, Prefix, Emitted
    <3> QED
      BY <1>2, <3>1, <3>3
  <2>3. \A c \in I : g[c] \in R /\ g[c].counter = c
    BY <2>2
  <2> HIDE DEF R
  <2>4. g \in [I -> R]
    BY <2>3
  <2> HIDE DEF g
  <2>5. g \in Injection(I, R)
    BY <2>3, <2>4 DEF Injection, IsInjective
  <2>6. R \in SUBSET Delta(n, p)
    BY DEF R
  <2>7. IsFiniteSet(R) /\ Cardinality(R) \in Nat
    BY <1>2, <2>6, FS_Subset, FS_CardinalityType
  <2>8. Cardinality(I) <= Cardinality(R)
    BY <2>5, <2>7, FS_Injection
  <2>9. Cardinality(I) = w[a] - v[a]
    <3>1. v[a] + 1 \in Int /\ w[a] \in Int
      BY <2>1
    <3>2. Cardinality(v[a] + 1 .. w[a]) = IF v[a] + 1 > w[a] THEN 0 ELSE w[a] - (v[a] + 1) + 1
      BY <3>1, FS_Interval
    <3> QED
      BY <1>3, <2>1, <3>2
  <2>10. ~(Cardinality(R) < w[a] - v[a])
    BY <2>1, <2>7, <2>8, <2>9
  <2> QED
    BY <2>10 DEF R
<1> QED
  BY <1>3 DEF Insufficient, isDeltaInsufficient

LEMMA ImportPrefix ==
  ASSUME RoomForAll, EqualClocks, Types, FollowInv, RegisterInv, GapInv, NEW n \in Node, NEW p \in Node
  PROVE  Prefix(db[n].events \cup Unknown(db[n], Delta(n, p)))
<1> DEFINE v == getEffectiveVersionVector(db[n])
           D == Delta(n, p)
           S == db[n].events \cup Unknown(db[n], D)
<1>1. D = {e \in published[p].events : e.counter > v[e.actor]}
  BY AnswerIsWhole
<1>2. \A e \in published[p].events \cup db[n].events : e.actor \in Node /\ e.counter \in Nat
  BY PartsOfEverywhere, EventsEverywhere
<1>3. \A a \in Node : v[a] = 0 \/ Emitted(db[n].events, a, v[a])
  <2> SUFFICES ASSUME NEW a \in Node PROVE v[a] = 0 \/ Emitted(db[n].events, a, v[a])
    OBVIOUS
  <2>1. DbOK(db[n]) /\ db[n].snapshotVector[a] = 0
    BY DEF Types, GapInv, ZeroVector
  <2>2. v[a] \in {getVersionVector(db[n])[a], db[n].snapshotVector[a]}
    BY <2>1, VersionVectorOK
  <2>3. getVersionVector(db[n])[a] = 0 \/ Emitted(db[n].events, a, getVersionVector(db[n])[a])
    BY <2>1, VersionVectorOK DEF Emitted
  <2> QED
    BY <2>1, <2>2, <2>3
<1>4. \A a \in Node : v[a] \in Nat
  <2>1. v \in Vector
    BY VersionVectorOK DEF Types
  <2> QED
    BY <2>1 DEF Vector
<1>5. Prefix(db[n].events) /\ Prefix(published[p].events)
  BY DEF GapInv
<1>6. \A e \in D : e \in S \/ \E f \in db[n].events : SameId(e, f)
  BY DEF Unknown
<1> HIDE DEF v, D, S
<1>7. ASSUME NEW e \in db[n].events, NEW c \in 1 .. e.counter PROVE Emitted(S, e.actor, c)
  BY <1>5 DEF Prefix, Emitted, S
<1>8. ASSUME NEW e \in D, NEW c \in 1 .. e.counter PROVE Emitted(S, e.actor, c)
  <2>1. /\ e \in published[p].events /\ e.actor \in Node /\ e.counter \in Nat
        /\ c \in Nat /\ c >= 1 /\ v[e.actor] \in Nat
    BY <1>1, <1>2, <1>4
  <2>2. CASE c > v[e.actor]
    <3>1. PICK f \in published[p].events : f.actor = e.actor /\ f.counter = c
      BY <1>5, <2>1 DEF Prefix, Emitted
    <3>2. f \in D
      BY <1>1, <2>2, <3>1
    <3> QED
      BY <1>6, <3>1, <3>2 DEF Emitted, SameId, S
  <2>3. CASE c <= v[e.actor]
    <3>1. v[e.actor] # 0
      BY <2>1, <2>3
    <3>2. PICK f \in db[n].events : f.actor = e.actor /\ f.counter = v[e.actor]
      BY <1>3, <2>1, <3>1 DEF Emitted
    <3>3. c \in 1 .. f.counter
      BY <2>1, <2>3, <3>2
    <3> QED
      BY <1>7, <3>2, <3>3
  <2> QED
    BY <2>1, <2>2, <2>3
<1>9. S \subseteq db[n].events \cup D
  BY DEF S, Unknown
<1>10. Prefix(S)
  BY <1>7, <1>8, <1>9 DEF Prefix
<1> QED
  BY <1>10 DEF S, D

\* The parts of GapInv about one node's database, and about one node's cache.
GaplessDb(n, d) ==
    /\ Prefix(d.events) /\ d.snapshotVector = ZeroVector
    /\ \A c \in 1 .. d.counter : Emitted(d.events, n, c)
GaplessCache(c) == Prefix(c.events) /\ Attained(c.vector, c.events)

LEMMA GapParts ==
  /\ GapInv <=> \A n \in Node : GaplessDb(n, db[n]) /\ GaplessCache(published[n])
  /\ GapInv' <=> \A n \in Node : GaplessDb(n, db'[n]) /\ GaplessCache(published'[n])
BY DEF GapInv, GaplessDb, GaplessCache, Prefix, Attained, Emitted

LEMMA OtherFieldsAreKept ==
  ASSUME NEW d, DbOK(d)
  PROVE  /\ mergeSimilarStories(d).snapshotVector = d.snapshotVector
         /\ \A n : scanLocalChanges(n, d).snapshotVector = d.snapshotVector
         /\ \A S : applyRemoteEvents(d, S).snapshotVector = d.snapshotVector
         /\ \A S : applyRemoteEvents(d, S).counter = d.counter
<1>1. d \in Database
  BY DEF DbOK
<1>2. mergeSimilarStories(d).snapshotVector = d.snapshotVector
  BY <1>1 DEF mergeSimilarStories, Database
<1>3. \A n : scanLocalChanges(n, d).snapshotVector = d.snapshotVector
  BY <1>1 DEF scanLocalChanges, Database
<1>4. \A S : applyRemoteEvents(d, S).snapshotVector = d.snapshotVector
  BY <1>1 DEF applyRemoteEvents, Applied, Database
<1>5. \A S : applyRemoteEvents(d, S).counter = d.counter
  BY <1>1 DEF applyRemoteEvents, Applied, Database
<1> QED
  BY <1>2, <1>3, <1>4, <1>5

LEMMA ScannedIsGapless ==
  ASSUME EqualClocks, Types, FollowInv, RegisterInv, GapInv, NEW n \in Node,
         NEW d, DbOK(d), SameRegisters(db[n], d), d.snapshotVector = ZeroVector
  PROVE  GaplessDb(n, d) /\ GaplessDb(n, scanLocalChanges(n, d))
<1>1. GaplessDb(n, d)
  BY DEF GapInv, GaplessDb, SameRegisters
<1>2. scanLocalChanges(n, d).snapshotVector = ZeroVector
  BY OtherFieldsAreKept
<1>3. /\ Prefix(scanLocalChanges(n, d).events)
      /\ \A c \in 1 .. scanLocalChanges(n, d).counter : Emitted(scanLocalChanges(n, d).events, n, c)
  BY <1>1, ScanPrefix DEF GaplessDb
<1> QED
  BY <1>1, <1>2, <1>3 DEF GaplessDb

LEMMA EndIsGapless ==
  ASSUME RoomForAll, EqualClocks, Types, FollowInv, RegisterInv, GapInv, Types', FollowInv', RegisterInv',
         NEW n \in Node, EndSync(n)
  PROVE  GapInv'
<1>1. /\ db' = [db EXCEPT ![n] = Scanned(n)]
      /\ published' = [published EXCEPT ![n] =
                [published[n] EXCEPT !.events = Latest(Scanned(n).events, CacheSize),
                                     !.vector = getVersionVector(Scanned(n))]]
  BY EndRegisters DEF RoomForAll
<1>2. /\ db \in [Node -> Database] /\ published \in [Node -> Cache] /\ DbOK(db[n])
      /\ DbOK(mergeSimilarStories(db[n])) /\ DbOK(Scanned(n))
  BY ScannedOK DEF Types
<1>3. GaplessDb(n, Scanned(n))
  <2>1. /\ SameRegisters(db[n], mergeSimilarStories(db[n]))
        /\ mergeSimilarStories(db[n]).snapshotVector = ZeroVector
    BY <1>2, RegistersAreKept, OtherFieldsAreKept DEF GapInv
  <2> QED
    BY <1>2, <2>1, ScannedIsGapless DEF Scanned
<1>4. db'[n] = Scanned(n) /\ \A m \in Node \ {n} : db'[m] = db[m] /\ published'[m] = published[m]
  BY <1>1, <1>2
<1>5. Latest(Scanned(n).events, CacheSize) = Scanned(n).events
  <2>1. Scanned(n).events \in SUBSET Everywhere'
    BY <1>4 DEF Everywhere
  <2>2. Stamped(Everywhere', now') /\ Identified(Everywhere')
    BY DEF FollowInv, RegisterInv, Stamped, Identified
  <2>3. now' \in Nat /\ MaxScans + 1 \in Nat /\ now' <= MaxScans + 1
    BY LimitAssumption DEF Types
  <2>4. Stamped(Everywhere', MaxScans + 1)
    BY <2>2, <2>3, StampedLater
  <2>5. CacheSize \in Nat /\ MaxScans * Cardinality(Key) <= CacheSize
    BY LimitAssumption DEF RoomForAll
  <2> QED
    BY <2>1, <2>2, <2>4, <2>5, NoneIsLeftOut
<1>6. published'[n].events = Scanned(n).events /\ published'[n].vector = getVersionVector(Scanned(n))
  BY <1>1, <1>2, <1>5 DEF Cache
<1>7. GaplessCache(published'[n])
  <2>1. Attained(getVersionVector(Scanned(n)), Scanned(n).events)
    BY <1>2, VersionVectorOK DEF Attained, Emitted
  <2> QED
    BY <1>3, <1>6, <2>1 DEF GaplessCache, GaplessDb
<1> QED
  BY <1>3, <1>4, <1>7, GapParts

LEMMA NextHasNoGap ==
  ASSUME RoomForAll, EqualClocks, Types, FollowInv, RegisterInv, GapInv, [Next]_vars
  PROVE  GapInv'
<1>0. Types' /\ FollowInv' /\ RegisterInv'
  BY NextTypes, NextFollows, NextRegisters DEF RoomForAll
<1>1. \A m \in Node : DbOK(db[m]) /\ GaplessDb(m, db[m]) /\ GaplessCache(published[m])
  BY GapParts DEF Types
<1>2. db \in [Node -> Database] /\ published \in [Node -> Cache]
  BY DEF Types
<1>3. ASSUME NEW n \in Node, NEW d, GaplessDb(n, d), db' = [db EXCEPT ![n] = d],
             \A m \in Node : published'[m].events = published[m].events
                             /\ published'[m].vector = published[m].vector
      PROVE  GapInv'
  <2>1. \A m \in Node : GaplessDb(m, db'[m])
    BY <1>1, <1>2, <1>3
  <2>2. \A m \in Node : GaplessCache(published'[m])
    BY <1>1, <1>3 DEF GaplessCache
  <2> QED
    BY <2>1, <2>2, GapParts
<1>4. ASSUME NEW n \in Node, NEW k \in Key, NEW v \in Row, EditRow(n, k, v) PROVE GapInv'
  <2> DEFINE d == [db[n] EXCEPT !.row = [db[n].row EXCEPT ![k] = v]]
  <2>1. db' = [db EXCEPT ![n] = d] /\ published' = published
    BY <1>4, EditTypes DEF EditRow
  <2>2. d.events = db[n].events /\ d.counter = db[n].counter /\ d.snapshotVector = db[n].snapshotVector
    <3>1. db[n] \in Database
      BY <1>2
    <3> QED
      BY <3>1 DEF Database
  <2> HIDE DEF d
  <2>3. GaplessDb(n, d)
    BY <1>1, <2>2 DEF GaplessDb
  <2> QED
    BY <1>3, <2>1, <2>3
<1>5. ASSUME NEW n \in Node, BeginSync(n) PROVE GapInv'
  <2>1. db' = [db EXCEPT ![n] = scanLocalChanges(n, db[n])]
    BY <1>5 DEF BeginSync
  <2>2. \A m \in Node : published'[m].events = published[m].events
                        /\ published'[m].vector = published[m].vector
    BY <1>2, <1>5 DEF BeginSync, Cache
  <2>3. GaplessDb(n, scanLocalChanges(n, db[n]))
    <3>1. SameRegisters(db[n], db[n]) /\ db[n].snapshotVector = ZeroVector
      BY <1>1, RegistersAreKept DEF GaplessDb
    <3> QED
      BY <1>1, <3>1, ScannedIsGapless
  <2> QED
    BY <1>3, <2>1, <2>2, <2>3
<1>6. ASSUME NEW n \in Node, NEW p \in Node,
             PullDelta(n, p) \/ RecoverFromSnapshot(n, p) \/ SnapshotFails(n, p)
      PROVE  GapInv'
  <2>1. ~Insufficient(n, p)
    BY AnswerIsEnough
  <2>2. ImportDelta(n, p)
    BY <1>6, <2>1 DEF PullDelta, RecoverFromSnapshot, SnapshotFails
  <2> DEFINE d == applyRemoteEvents(db[n], Delta(n, p))
  <2>3. db' = [db EXCEPT ![n] = d] /\ published' = published
    BY <2>2 DEF ImportDelta
  <2>4. d.events = db[n].events \cup Unknown(db[n], Delta(n, p))
    <3>1. Delta(n, p) \in SUBSET Event /\ IsFiniteSet(Delta(n, p))
      BY DeltaOK
    <3> QED
      BY <1>1, <3>1, ApplyOK
  <2>5. d.counter = db[n].counter /\ d.snapshotVector = db[n].snapshotVector
    BY <1>1, OtherFieldsAreKept
  <2>6. Prefix(db[n].events \cup Unknown(db[n], Delta(n, p)))
    BY ImportPrefix
  <2> HIDE DEF d
  <2>7. GaplessDb(n, d)
    BY <1>1, <2>4, <2>5, <2>6 DEF GaplessDb, Emitted
  <2> QED
    BY <1>3, <2>3, <2>7
<1>7. ASSUME UNCHANGED <<db, published>> PROVE GapInv'
  BY <1>1, <1>7, GapParts
<1>8. ASSUME NEW n \in Node, NEW p \in Node, PeerUnreachable(n, p) PROVE GapInv'
  BY <1>7, <1>8 DEF PeerUnreachable
<1>9. ASSUME NEW n \in Node, EndSync(n) PROVE GapInv'
  BY <1>0, <1>9, EndIsGapless
<1>10. ASSUME NEW n \in Node, SaveDb(n) PROVE GapInv'
  BY <1>7, <1>10 DEF SaveDb
<1>11. ASSUME NEW n \in Node, Crash(n) PROVE FALSE
  BY <1>11 DEF Crash, RoomForAll, NothingForgotten
<1>12. CASE UNCHANGED vars
  BY <1>7, <1>12 DEF vars
<1> QED
  BY <1>4, <1>5, <1>6, <1>8, <1>9, <1>10, <1>11, <1>12 DEF Next

LEMMA InitHasNoGap == Init => GapInv
<1> SUFFICES ASSUME Init PROVE GapInv
  OBVIOUS
<1>1. \A n \in Node : db[n] = EmptyDb /\ published[n] = NoCache
  BY DEF Init
<1>2. /\ EmptyDb.events = {} /\ NoCache.events = {} /\ EmptyDb.counter = 0
      /\ EmptyDb.snapshotVector = ZeroVector /\ NoCache.vector = ZeroVector
  BY DEF EmptyDb, NoCache
<1>3. \A n \in Node : ZeroVector[n] = 0
  BY DEF ZeroVector
<1> QED
  BY <1>1, <1>2, <1>3 DEF GapInv, Prefix, Attained

(***************************************************************************)
(* When no answer, cache or database has to leave events out, a node has   *)
(* with each event those its actor emitted before it: a sync that stops at *)
(* any peer leaves nothing behind that would never be asked for again.     *)
(***************************************************************************)
THEOREM HistoriesHaveNoGap ==
  ASSUME RoomForAll, EqualClocks
  PROVE  Spec => []NoGapInHistory
<1> DEFINE IInv == Types /\ FollowInv /\ RegisterInv /\ GapInv
<1>1. Init => IInv
  BY InitTypes, InitFollows, InitRegisters, InitHasNoGap
<1>2. IInv /\ [Next]_vars => IInv'
  BY NextTypes, NextFollows, NextRegisters, NextHasNoGap DEF RoomForAll
<1>3. IInv => NoGapInHistory
  BY DEF NoGapInHistory, GapInv, Prefix, Emitted
<1> QED
  BY <1>1, <1>2, <1>3, PTL DEF Spec

-----------------------------------------------------------------------------
(* How many events there are: each comes from a change of a row that no     *)
(* scan had met, and such a change from an edit or from a merge, which      *)
(* changes two.                                                             *)

\* The pairs <<n, k>> where k is one of f[n].
Pairs(f) == {nk \in Node \X Key : nk[2] \in f[nk[1]]}

Versions == {VersionOf(e) : e \in UNION {db[n].events : n \in Node}}
Unemitted == [n \in Node |-> Changed(db[n])]
Merged == [n \in Node |-> db[n].merged]

CountInv ==
    /\ IsFiniteSet(Versions)
    /\ Cardinality(Versions) + Cardinality(Pairs(Unemitted)) <= edits + 2 * Cardinality(Pairs(Merged))

LEMMA KeySetsAreFinite ==
  ASSUME NEW S \in SUBSET Key
  PROVE  IsFiniteSet(S) /\ Cardinality(S) \in Nat
BY NodeAssumption, FS_Subset, FS_CardinalityType

LEMMA PairsOfOneNode ==
  ASSUME NEW f \in [Node -> SUBSET Key], NEW n \in Node
  PROVE  LET others == {nk \in Node \X Key : nk[1] # n /\ nk[2] \in f[nk[1]]}
         IN /\ IsFiniteSet(others) /\ Cardinality(others) \in Nat
            /\ Cardinality(Pairs(f)) = Cardinality(others) + Cardinality(f[n])
<1> DEFINE others == {nk \in Node \X Key : nk[1] # n /\ nk[2] \in f[nk[1]]}
           own == {nk \in Node \X Key : nk[1] = n /\ nk[2] \in f[n]}
           place == [k \in f[n] |-> <<n, k>>]
<1>1. IsFiniteSet(Node \X Key)
  BY NodeAssumption, FS_Product
<1>2. IsFiniteSet(others) /\ Cardinality(others) \in Nat
  <2>1. others \in SUBSET (Node \X Key)
    OBVIOUS
  <2> HIDE DEF others
  <2> QED
    BY <1>1, <2>1, FS_Subset, FS_CardinalityType
<1>3. f[n] \in SUBSET Key
  OBVIOUS
<1>4. place \in Bijection(f[n], own)
  <2>1. \A k \in f[n] : place[k] = <<n, k>> /\ place[k] \in own
    BY <1>3
  <2>2. \A nk \in own : nk = <<n, nk[2]>> /\ nk[2] \in f[n]
    OBVIOUS
  <2>3. place \in [f[n] -> own] /\ \A nk \in own : place[nk[2]] = nk
    BY <2>1, <2>2
  <2> HIDE DEF own
  <2> QED
    BY <2>1, <2>2, <2>3 DEF Bijection, Injection, Surjection, IsInjective
<1>5. IsFiniteSet(own) /\ Cardinality(own) = Cardinality(f[n]) /\ Cardinality(own) \in Nat
  <2>1. ExistsBijection(f[n], own)
    BY <1>4 DEF ExistsBijection
  <2> HIDE DEF own
  <2> QED
    BY <1>3, <2>1, KeySetsAreFinite, FS_Bijection
<1>6. Pairs(f) = others \cup own /\ others \cap own = {}
  BY DEF Pairs
<1> HIDE DEF others, own
<1>7. Cardinality(others \cup own) = Cardinality(others) + Cardinality(own) - Cardinality({})
  BY <1>2, <1>5, <1>6, FS_Union
<1> QED
  BY <1>2, <1>5, <1>6, <1>7, FS_EmptySet DEF others

\* What a step of one node adds to the events and to the rows its next scan
\* will meet is paid for by the rows it scanned, by edits and by merges.
LEMMA CountStep ==
  ASSUME Types, Types', CountInv, NEW n \in Node, \A m \in Node \ {n} : db'[m] = db[m],
         NEW new, IsFiniteSet(new), Versions' \subseteq Versions \cup new,
         NEW gain \in Nat,
         Cardinality(new) + Cardinality(Changed(db'[n])) <= Cardinality(Changed(db[n])) + gain,
         edits' + 2 * Cardinality(db'[n].merged) >= edits + 2 * Cardinality(db[n].merged) + gain
  PROVE  CountInv'
<1> DEFINE u == Unemitted
           v == Unemitted'
           a == Merged
           b == Merged'
           rest(f) == {nk \in Node \X Key : nk[1] # n /\ nk[2] \in f[nk[1]]}
<1>1. \A m \in Node : Changed(db[m]) \in SUBSET Key /\ Changed(db'[m]) \in SUBSET Key
  BY DEF Changed
<1>2. \A m \in Node : db[m].merged \in SUBSET Key /\ db'[m].merged \in SUBSET Key
  <2>1. \A m \in Node : db[m] \in Database /\ db'[m] \in Database
    BY DEF Types
  <2> QED
    BY <2>1 DEF Database
<1>3. u = [m \in Node |-> Changed(db[m])] /\ v = [m \in Node |-> Changed(db'[m])]
      /\ a = [m \in Node |-> db[m].merged] /\ b = [m \in Node |-> db'[m].merged]
  BY DEF Unemitted, Merged, Changed
<1>4. u \in [Node -> SUBSET Key] /\ v \in [Node -> SUBSET Key]
      /\ a \in [Node -> SUBSET Key] /\ b \in [Node -> SUBSET Key]
  BY <1>1, <1>2, <1>3
<1>5. \A m \in Node \ {n} : u[m] = v[m] /\ a[m] = b[m]
  BY <1>3 DEF Changed
<1>6. u[n] = Changed(db[n]) /\ v[n] = Changed(db'[n]) /\ a[n] = db[n].merged /\ b[n] = db'[n].merged
  BY <1>3
<1> HIDE DEF u, v, a, b
<1>7. rest(u) = rest(v) /\ rest(a) = rest(b)
  BY <1>5
<1>8. /\ Cardinality(rest(u)) \in Nat /\ Cardinality(rest(a)) \in Nat
      /\ Cardinality(Pairs(u)) = Cardinality(rest(u)) + Cardinality(u[n])
      /\ Cardinality(Pairs(v)) = Cardinality(rest(v)) + Cardinality(v[n])
      /\ Cardinality(Pairs(a)) = Cardinality(rest(a)) + Cardinality(a[n])
      /\ Cardinality(Pairs(b)) = Cardinality(rest(b)) + Cardinality(b[n])
  BY <1>4, PairsOfOneNode
<1>9. /\ Cardinality(u[n]) \in Nat /\ Cardinality(v[n]) \in Nat
      /\ Cardinality(a[n]) \in Nat /\ Cardinality(b[n]) \in Nat
  BY <1>4, KeySetsAreFinite
<1>10. /\ IsFiniteSet(Versions') /\ Cardinality(Versions') \in Nat
       /\ Cardinality(Versions') <= Cardinality(Versions) + Cardinality(new)
       /\ Cardinality(Versions) \in Nat /\ Cardinality(new) \in Nat
  <2>1. IsFiniteSet(Versions)
    BY DEF CountInv
  <2>2. IsFiniteSet(Versions \cup new) /\ IsFiniteSet(Versions \cap new)
        /\ Cardinality(Versions \cup new) = Cardinality(Versions) + Cardinality(new) - Cardinality(Versions \cap new)
    <3>1. Versions \cap new \in SUBSET new
      OBVIOUS
    <3>2. IsFiniteSet(Versions \cap new)
      BY <3>1, FS_Subset
    <3> QED
      BY <2>1, <3>2, FS_Union
  <2>3. /\ IsFiniteSet(Versions') /\ Cardinality(Versions') <= Cardinality(Versions \cup new)
    BY <2>2, FS_Subset
  <2>4. /\ Cardinality(Versions') \in Nat /\ Cardinality(Versions) \in Nat /\ Cardinality(new) \in Nat
        /\ Cardinality(Versions \cap new) \in Nat
    BY <2>1, <2>2, <2>3, FS_CardinalityType
  <2> QED
    BY <2>2, <2>3, <2>4
<1>11. edits \in Nat /\ edits' \in Nat
  BY LimitAssumption DEF Types
<1>12. Cardinality(Versions) + Cardinality(Pairs(u)) <= edits + 2 * Cardinality(Pairs(a))
  BY DEF CountInv, u, a
<1> HIDE DEF rest
<1>13. Cardinality(Versions') + Cardinality(Pairs(v)) <= edits' + 2 * Cardinality(Pairs(b))
  BY <1>6, <1>7, <1>8, <1>9, <1>10, <1>11, <1>12
<1>14. Pairs(Unemitted)' = Pairs(v) /\ Pairs(Merged)' = Pairs(b)
  BY DEF Pairs, v, b, Unemitted, Merged, Changed
<1> QED
  BY <1>10, <1>13, <1>14 DEF CountInv

LEMMA NewVersions ==
  ASSUME NEW n \in Node, NEW d, DbOK(d)
  PROVE  /\ IsFiniteSet({VersionOf(e) : e \in NewEvents(n, d)})
         /\ Cardinality({VersionOf(e) : e \in NewEvents(n, d)}) \in Nat
         /\ Cardinality({VersionOf(e) : e \in NewEvents(n, d)}) <= Cardinality(Changed(d))
<1> DEFINE new == {VersionOf(e) : e \in NewEvents(n, d)}
           version == [k \in Changed(d) |-> VersionOf(LocalEvent(n, d, k))]
<1>1. IsFiniteSet(Changed(d))
  <2>1. Changed(d) \in SUBSET Key
    BY DEF Changed
  <2> QED
    BY <2>1, KeySetsAreFinite
<1>2. version \in Surjection(Changed(d), new)
  <2>1. \A v \in new : \E k \in Changed(d) : v = VersionOf(LocalEvent(n, d, k))
    BY DEF NewEvents
  <2>2. \A k \in Changed(d) : VersionOf(LocalEvent(n, d, k)) \in new
    BY DEF NewEvents
  <2> HIDE DEF new
  <2> QED
    BY <2>1, <2>2 DEF Surjection
<1> HIDE DEF new
<1>3. IsFiniteSet(new) /\ Cardinality(new) <= Cardinality(Changed(d))
  BY <1>1, <1>2, FS_Surjection
<1> QED
  BY <1>3, FS_CardinalityType DEF new

LEMMA ScanLeavesNoChange ==
  ASSUME NEW n \in Node, NEW d, DbOK(d), now \in Nat
  PROVE  /\ Changed(scanLocalChanges(n, d)) = {} /\ scanLocalChanges(n, d).merged = d.merged
         /\ scanLocalChanges(n, d).events \subseteq d.events \cup NewEvents(n, d)
<1>1. Changed(scanLocalChanges(n, d)) = {}
  <2>1. scanLocalChanges(n, d).row = d.row /\ scanLocalChanges(n, d).known = d.row
    BY ScanOK
  <2> QED
    BY <2>1 DEF Changed
<1>2. scanLocalChanges(n, d).merged = d.merged
  BY DEF DbOK, Database, scanLocalChanges
<1>3. scanLocalChanges(n, d).events = WithEvents(d.events, NewEvents(n, d))
  BY ScanOK
<1> QED
  BY <1>1, <1>2, <1>3 DEF WithEvents

\* What is imported is not emitted again.
LEMMA ApplyChangesNothing ==
  ASSUME NEW d, DbOK(d), NEW received \in SUBSET Event, IsFiniteSet(received)
  PROVE  /\ Changed(applyRemoteEvents(d, received)) \subseteq Changed(d)
         /\ applyRemoteEvents(d, received).merged = d.merged
         /\ applyRemoteEvents(d, received).events \subseteq d.events \cup received
<1> DEFINE wins == Wins(d, received)
           e == applyRemoteEvents(d, received)
<1>1. d \in Database
  BY DEF DbOK
<1>2. /\ e.row = Overwritten(d.row, wins) /\ e.known = Overwritten(d.known, wins)
      /\ e.merged = d.merged /\ e.events = d.events \cup Unknown(d, received)
  BY <1>1 DEF applyRemoteEvents, Applied, Database
<1>3. \A k \in Key : e.row[k] # e.known[k] => d.row[k] # d.known[k]
  BY <1>2 DEF Overwritten
<1>4. Unknown(d, received) \subseteq received
  BY DEF Unknown
<1> HIDE DEF e
<1> QED
  BY <1>2, <1>3, <1>4 DEF Changed, e

\* A merge changes two rows, the duplicate and the canonical one.
LEMMA MergeChangesTwo ==
  ASSUME NEW d, DbOK(d)
  PROVE  LET e == mergeSimilarStories(d)
         IN /\ Cardinality(Changed(e)) <= Cardinality(Changed(d)) + 2 * Cardinality(Duplicates(d))
            /\ Cardinality(e.merged) = Cardinality(d.merged) + Cardinality(Duplicates(d))
            /\ e.events = d.events
            /\ Duplicates(d) = {} => Changed(e) = Changed(d) /\ e.merged = d.merged
<1> DEFINE e == mergeSimilarStories(d)
           dups == Duplicates(d)
           from(k) == {i \in dups : CanonicalOf[i] = k}
           canonicals == {CanonicalOf[k] : k \in dups}
           row == [k \in Key |-> IF k \in dups THEN Absent
                                 ELSE mergedStatus({d.row[k]} \cup {d.row[j] : j \in from(k)})]
<1>1. d \in Database /\ d.row \in [Key -> Row] /\ d.merged \in SUBSET Key
  BY DbFields DEF DbOK
<1>2. dups \in SUBSET Key /\ dups \cap d.merged = {} /\ canonicals \in SUBSET Key
  BY ShapeAssumption DEF Duplicates
<1>3. e = [d EXCEPT !.row = row, !.merged = d.merged \cup dups]
  BY DEF mergeSimilarStories
<1>12. \A k \in Key : d.row[k] \in Nat
  <2>1. Row \subseteq Nat
    BY ValueAssumption DEF Row
  <2> QED
    BY <1>1, <2>1
<1>4. ASSUME NEW k \in Key, k \notin dups, k \notin canonicals PROVE row[k] = d.row[k]
  <2>1. from(k) = {}
    BY <1>4
  <2>2. row[k] = Max({d.row[k]})
    <3>1. {d.row[k]} \cup {d.row[j] : j \in from(k)} = {d.row[k]}
      BY <2>1
    <3>2. row[k] = mergedStatus({d.row[k]} \cup {d.row[j] : j \in from(k)})
      BY <1>4
    <3> HIDE DEF row, from
    <3> QED
      BY <3>1, <3>2 DEF mergedStatus
  <2>3. d.row[k] \in Nat
    BY <1>12
  <2>4. {d.row[k]} \in SUBSET Nat /\ IsFiniteSet({d.row[k]}) /\ {d.row[k]} # {}
    BY <2>3, FS_Singleton
  <2>5. Max({d.row[k]}) \in {d.row[k]}
    BY <2>4, MaxIsInIt
  <2> QED
    BY <2>2, <2>5
<1> HIDE DEF row, dups, canonicals
<1>5. e.row = row /\ e.known = d.known /\ e.merged = d.merged \cup dups /\ e.events = d.events
  BY <1>1, <1>3 DEF Database
<1>6. Changed(e) \subseteq Changed(d) \cup (dups \cup canonicals) /\ Changed(d) \subseteq Key /\ Changed(e) \subseteq Key
  BY <1>4, <1>5 DEF Changed
<1>7. Cardinality(canonicals) <= Cardinality(dups)
  <2> DEFINE canonical == [k \in dups |-> CanonicalOf[k]]
  <2>1. canonical \in Surjection(dups, canonicals)
    BY DEF Surjection, canonicals
  <2> QED
    BY <1>2, <2>1, KeySetsAreFinite, FS_Surjection
<1>8. Cardinality(dups \cup canonicals) <= 2 * Cardinality(dups)
  <2>1. Cardinality(dups \cup canonicals)
          = Cardinality(dups) + Cardinality(canonicals) - Cardinality(dups \cap canonicals)
    BY <1>2, KeySetsAreFinite, FS_Union
  <2>2. dups \cap canonicals \in SUBSET Key
    BY <1>2
  <2>3. Cardinality(dups \cap canonicals) \in Nat /\ Cardinality(dups) \in Nat /\ Cardinality(canonicals) \in Nat
    BY <1>2, <2>2, KeySetsAreFinite
  <2> QED
    BY <1>7, <2>1, <2>3
<1>9. Cardinality(Changed(e)) <= Cardinality(Changed(d)) + 2 * Cardinality(dups)
  <2> DEFINE two == dups \cup canonicals
             all == Changed(d) \cup two
  <2>1. two \in SUBSET Key /\ Changed(d) \in SUBSET Key /\ all \in SUBSET Key /\ Changed(d) \cap two \in SUBSET Key
    BY <1>2, <1>6
  <2> HIDE DEF two
  <2>2. /\ IsFiniteSet(two) /\ IsFiniteSet(Changed(d)) /\ Cardinality(two) \in Nat
        /\ Cardinality(Changed(d)) \in Nat /\ Cardinality(Changed(d) \cap two) \in Nat
    BY <2>1, KeySetsAreFinite
  <2>3. Cardinality(all) = Cardinality(Changed(d)) + Cardinality(two) - Cardinality(Changed(d) \cap two)
    BY <2>2, FS_Union
  <2>4. Cardinality(Changed(e)) <= Cardinality(all)
    <3>1. Changed(e) \in SUBSET all /\ IsFiniteSet(all)
      BY <1>6, <2>1, KeySetsAreFinite DEF two
    <3> HIDE DEF all
    <3> QED
      BY <3>1, FS_Subset
  <2>5. Cardinality(two) <= 2 * Cardinality(dups)
    BY <1>8 DEF two
  <2>6. Cardinality(Changed(e)) \in Nat /\ Cardinality(dups) \in Nat
    BY <1>2, <1>6, KeySetsAreFinite
  <2> QED
    BY <2>2, <2>3, <2>4, <2>5, <2>6
<1>10. Cardinality(e.merged) = Cardinality(d.merged) + Cardinality(dups)
  <2>1. Cardinality(d.merged \cup dups)
          = Cardinality(d.merged) + Cardinality(dups) - Cardinality(d.merged \cap dups)
    BY <1>1, <1>2, KeySetsAreFinite, FS_Union
  <2>2. Cardinality(d.merged \cap dups) = 0
    <3>1. d.merged \cap dups = {}
      BY <1>2
    <3> QED
      BY <3>1, FS_EmptySet
  <2>3. Cardinality(d.merged) \in Nat /\ Cardinality(dups) \in Nat
    BY <1>1, <1>2, KeySetsAreFinite
  <2> QED
    BY <1>5, <2>1, <2>2, <2>3
<1>11. ASSUME dups = {} PROVE Changed(e) = Changed(d) /\ e.merged = d.merged
  <2>1. canonicals = {}
    BY <1>11 DEF canonicals
  <2>2. \A k \in Key : e.row[k] = d.row[k]
    BY <1>4, <1>5, <1>11, <2>1
  <2> QED
    BY <1>5, <1>11, <2>2 DEF Changed
<1> HIDE DEF e
<1> QED
  BY <1>5, <1>9, <1>10, <1>11 DEF dups, e


LEMMA CountingOneNode ==
  ASSUME Types, Types', CountInv, NEW n \in Node, NEW d, db' = [db EXCEPT ![n] = d],
         NEW new, IsFiniteSet(new), \A e \in d.events : VersionOf(e) \in Versions \cup new,
         NEW gain \in Nat,
         Cardinality(new) + Cardinality(Changed(d)) <= Cardinality(Changed(db[n])) + gain,
         edits' + 2 * Cardinality(d.merged) >= edits + 2 * Cardinality(db[n].merged) + gain
  PROVE  CountInv'
<1>1. db'[n] = d /\ \A m \in Node \ {n} : db'[m] = db[m]
  BY DEF Types
<1>2. Versions' \subseteq Versions \cup new
  BY <1>1 DEF Versions
<1> QED
  BY <1>1, <1>2, CountStep

LEMMA CountingWithoutGain ==
  ASSUME Types, Types', CountInv, NEW n \in Node, NEW d, db' = [db EXCEPT ![n] = d],
         NEW new, IsFiniteSet(new), \A e \in d.events : VersionOf(e) \in Versions \cup new,
         Cardinality(new) + Cardinality(Changed(d)) <= Cardinality(Changed(db[n])),
         edits' = edits, d.merged = db[n].merged
  PROVE  CountInv'
<1> DEFINE gain == 0
<1>1. edits \in Nat /\ gain \in Nat
  BY LimitAssumption DEF Types
<1>2. db[n].merged \in SUBSET Key /\ Changed(db[n]) \in SUBSET Key
  <2>1. DbOK(db[n])
    BY DEF Types
  <2> QED
    BY <2>1, DbFields DEF DbOK, Changed
<1>3. Cardinality(db[n].merged) \in Nat /\ Cardinality(Changed(db[n])) \in Nat
  BY <1>2, KeySetsAreFinite
<1>4. /\ Cardinality(new) + Cardinality(Changed(d)) <= Cardinality(Changed(db[n])) + gain
      /\ edits' + 2 * Cardinality(d.merged) >= edits + 2 * Cardinality(db[n].merged) + gain
  BY <1>1, <1>3
<1> HIDE DEF gain
<1> QED
  BY <1>1, <1>4, CountingOneNode

LEMMA NextCounts ==
  ASSUME RoomForAll, EqualClocks, Types, FollowInv, RegisterInv, GapInv, CountInv, [Next]_vars
  PROVE  CountInv'
<1>0. Types'
  BY NextTypes
<1>1. \A m \in Node : DbOK(db[m]) /\ published[m].events \subseteq db[m].events /\ Cardinality(Changed(db[m])) \in Nat
  <2>1. \A m \in Node : Changed(db[m]) \in SUBSET Key
    BY DEF Changed
  <2> QED
    BY <2>1, KeySetsAreFinite DEF Types, RegisterInv
<1>2. now \in Nat /\ edits \in Nat
  BY LimitAssumption DEF Types
<1>3. \A m \in Node : \A e \in db[m].events : VersionOf(e) \in Versions
  BY DEF Versions
<1>4. \A m \in Node : Cardinality(db[m].merged) \in Nat
  <2>1. \A m \in Node : db[m].merged \in SUBSET Key
    BY <1>1, DbFields DEF DbOK
  <2> QED
    BY <2>1, KeySetsAreFinite
<1> DEFINE none == {}
<1>5. IsFiniteSet(none) /\ Cardinality(none) = 0
  BY FS_EmptySet
<1> HIDE DEF none
<1>6. ASSUME db' = db, edits' = edits PROVE CountInv'
  <2>1. Versions' = Versions /\ Pairs(Unemitted)' = Pairs(Unemitted) /\ Pairs(Merged)' = Pairs(Merged)
    BY <1>6 DEF Versions, Pairs, Unemitted, Merged, Changed
  <2> QED
    BY <1>6, <2>1 DEF CountInv
<1>7. ASSUME NEW n \in Node, NEW k \in Key, NEW v \in Row, EditRow(n, k, v) PROVE CountInv'
  <2> DEFINE d == [db[n] EXCEPT !.row = [db[n].row EXCEPT ![k] = v]]
  <2>1. db' = [db EXCEPT ![n] = d] /\ edits' = edits + 1
    BY <1>7, EditTypes DEF EditRow
  <2>2. /\ d.events = db[n].events /\ d.merged = db[n].merged
        /\ d.known = db[n].known /\ d.row = [db[n].row EXCEPT ![k] = v]
    BY <1>1 DEF DbOK, Database
  <2> HIDE DEF d
  <2>3. Changed(d) \in SUBSET (Changed(db[n]) \cup {k})
    <3>1. db[n].row \in [Key -> Row]
      BY <1>1, DbFields DEF DbOK
    <3> QED
      BY <2>2, <3>1 DEF Changed
  <2>4. Cardinality(Changed(d)) <= Cardinality(Changed(db[n])) + 1
    <3>1. Changed(db[n]) \in SUBSET Key
      BY DEF Changed
    <3>2. IsFiniteSet(Changed(db[n]))
      BY <3>1, KeySetsAreFinite
    <3>3. IsFiniteSet(Changed(db[n]) \cup {k}) /\ Cardinality(Changed(db[n]) \cup {k}) <= Cardinality(Changed(db[n])) + 1
      <4> DEFINE S == Changed(db[n])
      <4>1. IsFiniteSet(S) /\ Cardinality(S) \in Nat
        BY <1>1, <3>2
      <4> HIDE DEF S
      <4>2. IsFiniteSet(S \cup {k}) /\ Cardinality(S \cup {k}) = IF k \in S THEN Cardinality(S) ELSE Cardinality(S) + 1
        BY <4>1, FS_AddElement
      <4> QED
        BY <4>1, <4>2 DEF S
    <3>4. Cardinality(Changed(d)) <= Cardinality(Changed(db[n]) \cup {k}) /\ Cardinality(Changed(d)) \in Nat
      BY <2>3, <3>3, FS_Subset, FS_CardinalityType
    <3>5. Cardinality(Changed(db[n]) \cup {k}) \in Nat
      BY <3>3, FS_CardinalityType
    <3> QED
      BY <1>1, <3>3, <3>4, <3>5
  <2>5. Cardinality(Changed(d)) \in Nat
    <3>1. Changed(d) \in SUBSET Key
      BY DEF Changed
    <3> QED
      BY <3>1, KeySetsAreFinite
  <2>6. /\ Cardinality(none) + Cardinality(Changed(d)) <= Cardinality(Changed(db[n])) + 1
        /\ edits' + 2 * Cardinality(d.merged) >= edits + 2 * Cardinality(db[n].merged) + 1
    BY <1>2, <1>4, <1>5, <2>1, <2>2, <2>4, <2>5
  <2>7. \A e \in d.events : VersionOf(e) \in Versions \cup none
    BY <1>3, <2>2
  <2> QED
    BY <1>0, <1>5, <2>1, <2>6, <2>7, CountingOneNode
<1>8. ASSUME NEW n \in Node, BeginSync(n) PROVE CountInv'
  <2> DEFINE d == scanLocalChanges(n, db[n])
             new == {VersionOf(e) : e \in NewEvents(n, db[n])}
  <2>1. db' = [db EXCEPT ![n] = d] /\ edits' = edits
    BY <1>8 DEF BeginSync
  <2>2. Changed(d) = {} /\ d.merged = db[n].merged /\ d.events \subseteq db[n].events \cup NewEvents(n, db[n])
    BY <1>1, <1>2, ScanLeavesNoChange
  <2>3. IsFiniteSet(new) /\ Cardinality(new) \in Nat /\ Cardinality(new) <= Cardinality(Changed(db[n]))
    BY <1>1, NewVersions
  <2>4. \A e \in d.events : VersionOf(e) \in Versions \cup new
    BY <1>3, <2>2
  <2> HIDE DEF d, new
  <2>5. Cardinality(new) + Cardinality(Changed(d)) <= Cardinality(Changed(db[n]))
    BY <1>1, <2>2, <2>3, FS_EmptySet
  <2> QED
    BY <1>0, <2>1, <2>2, <2>3, <2>4, <2>5, CountingWithoutGain
<1>9. ASSUME NEW n \in Node, NEW p \in Node, ImportDelta(n, p) PROVE CountInv'
  <2> DEFINE d == applyRemoteEvents(db[n], Delta(n, p))
  <2>1. db' = [db EXCEPT ![n] = d] /\ edits' = edits
    BY <1>9 DEF ImportDelta
  <2>2. Delta(n, p) \in SUBSET Event /\ IsFiniteSet(Delta(n, p)) /\ Delta(n, p) \subseteq db[p].events
    BY <1>1, DeltaOK
  <2>3. /\ Changed(d) \in SUBSET Changed(db[n]) /\ d.merged = db[n].merged
        /\ d.events \subseteq db[n].events \cup Delta(n, p)
    BY <1>1, <2>2, ApplyChangesNothing
  <2>4. \A e \in d.events : VersionOf(e) \in Versions \cup none
    BY <1>3, <2>2, <2>3
  <2> HIDE DEF d
  <2>5. Cardinality(Changed(d)) <= Cardinality(Changed(db[n])) /\ Cardinality(Changed(d)) \in Nat
    <3>1. Changed(db[n]) \in SUBSET Key
      BY DEF Changed
    <3> QED
      BY <2>3, <3>1, KeySetsAreFinite, FS_Subset, FS_CardinalityType
  <2>6. Cardinality(none) + Cardinality(Changed(d)) <= Cardinality(Changed(db[n]))
    BY <1>1, <1>2, <1>4, <1>5, <2>1, <2>3, <2>5
  <2> QED
    BY <1>0, <1>5, <2>1, <2>3, <2>4, <2>6, CountingWithoutGain
<1>10. ASSUME NEW n \in Node, NEW p \in Node, RecoverFromSnapshot(n, p) PROVE FALSE
  BY <1>10, AnswerIsEnough DEF RecoverFromSnapshot
<1>11. ASSUME NEW n \in Node, EndSync(n) PROVE CountInv'
  <2> DEFINE d == mergeSimilarStories(db[n])
             final == Scanned(n)
             new == {VersionOf(e) : e \in NewEvents(n, d)}
             dups == Duplicates(db[n])
  <2>1. db' = [db EXCEPT ![n] = final]
    BY <1>0, <1>11, NextFollows, EndRegisters DEF RoomForAll
  <2>2. edits' = edits
    BY <1>11 DEF EndSync
  <2>3. DbOK(d)
    BY <1>1, MergeOK
  <2>4. /\ Cardinality(Changed(d)) <= Cardinality(Changed(db[n])) + 2 * Cardinality(dups)
        /\ Cardinality(d.merged) = Cardinality(db[n].merged) + Cardinality(dups)
        /\ d.events = db[n].events
        /\ dups = {} => Changed(d) = Changed(db[n]) /\ d.merged = db[n].merged
    BY <1>1, MergeChangesTwo
  <2>5. Cardinality(Changed(d)) \in Nat /\ Cardinality(dups) \in Nat
    <3>1. Changed(d) \in SUBSET Key /\ dups \in SUBSET Key
      BY DEF Changed, Duplicates
    <3> QED
      BY <3>1, KeySetsAreFinite
  <2>6. CASE sync[n].rescan \/ dups # {}
    <3>1. final = scanLocalChanges(n, d)
      BY <2>6 DEF Scanned
    <3>2. Changed(final) = {} /\ final.merged = d.merged /\ final.events \subseteq d.events \cup NewEvents(n, d)
      BY <1>2, <2>3, <3>1, ScanLeavesNoChange
    <3>3. IsFiniteSet(new) /\ Cardinality(new) \in Nat /\ Cardinality(new) <= Cardinality(Changed(d))
      BY <2>3, NewVersions
    <3>4. \A e \in final.events : VersionOf(e) \in Versions \cup new
      BY <1>3, <2>4, <3>2
    <3> HIDE DEF final, new, d, dups
    <3> DEFINE gain == 2 * Cardinality(dups)
    <3>5. /\ Cardinality(new) + Cardinality(Changed(final)) <= Cardinality(Changed(db[n])) + gain
          /\ edits' + 2 * Cardinality(final.merged) >= edits + 2 * Cardinality(db[n].merged) + gain
          /\ gain \in Nat
      BY <1>1, <1>2, <1>4, <2>2, <2>4, <2>5, <3>2, <3>3, FS_EmptySet
    <3> HIDE DEF gain
    <3> QED
      BY <1>0, <2>1, <3>3, <3>4, <3>5, CountingOneNode
  <2>7. CASE ~(sync[n].rescan \/ dups # {})
    <3>1. final = d
      BY <2>7 DEF Scanned
    <3>2. \A e \in final.events : VersionOf(e) \in Versions \cup none
      BY <1>3, <2>4, <3>1
    <3> HIDE DEF final, d, dups
    <3>3. Cardinality(none) + Cardinality(Changed(final)) <= Cardinality(Changed(db[n]))
      BY <1>1, <1>2, <1>4, <1>5, <2>2, <2>4, <2>7, <3>1
    <3> QED
      BY <1>0, <1>5, <2>1, <2>2, <2>4, <2>7, <3>1, <3>2, <3>3, CountingWithoutGain
  <2> QED
    BY <2>6, <2>7
<1>12. ASSUME NEW n \in Node, NEW p \in Node, PeerUnreachable(n, p) PROVE CountInv'
  BY <1>6, <1>12 DEF PeerUnreachable
<1>13. ASSUME NEW n \in Node, SaveDb(n) PROVE CountInv'
  BY <1>6, <1>13 DEF SaveDb
<1>14. ASSUME NEW n \in Node, Crash(n) PROVE FALSE
  BY <1>14 DEF Crash, RoomForAll, NothingForgotten
<1>15. CASE UNCHANGED vars
  BY <1>6, <1>15 DEF vars
<1> QED
  BY <1>7, <1>8, <1>9, <1>10, <1>11, <1>12, <1>13, <1>14, <1>15 DEF Next, PullDelta, SnapshotFails

LEMMA InitCounts == Init => CountInv
<1> SUFFICES ASSUME Init PROVE CountInv
  OBVIOUS
<1>1. \A n \in Node : db[n] = EmptyDb
  BY DEF Init
<1>2. EmptyDb.events = {} /\ EmptyDb.merged = {} /\ EmptyDb.row = EmptyDb.known
  BY DEF EmptyDb
<1>3. Versions = {} /\ Pairs(Unemitted) = {} /\ Pairs(Merged) = {}
  BY <1>1, <1>2 DEF Versions, Pairs, Unemitted, Merged, Changed
<1>4. edits = 0 /\ IsFiniteSet({}) /\ Cardinality({}) = 0
  BY FS_EmptySet DEF Init
<1> QED
  BY <1>3, <1>4 DEF CountInv

\* With room for all events, clocks that agree and no deaths, every event comes
\* from an edit or from a merge, which makes two, and none is emitted again by
\* a node that has imported its row.
THEOREM EventsHaveCauses ==
  ASSUME RoomForAll, EqualClocks
  PROVE  Spec => []EventsComeFromChanges
<1> DEFINE IInv == Types /\ FollowInv /\ RegisterInv /\ GapInv /\ CountInv
<1>1. Init => IInv
  BY InitTypes, InitFollows, InitRegisters, InitHasNoGap, InitCounts
<1>2. IInv /\ [Next]_vars => IInv'
  BY NextTypes, NextFollows, NextRegisters, NextHasNoGap, NextCounts DEF RoomForAll
<1>3. IInv => EventsComeFromChanges
  <2> SUFFICES ASSUME IInv PROVE EventsComeFromChanges
    OBVIOUS
  <2>1. Pairs(Merged) = {nk \in Node \X Key : nk[2] \in db[nk[1]].merged}
    BY DEF Pairs, Merged
  <2>2. Quantify(Node \X Key, LAMBDA nk : nk[2] \in db[nk[1]].merged) = Cardinality(Pairs(Merged))
    BY <2>1 DEF Quantify
  <2>3. IsFiniteSet(Pairs(Unemitted)) /\ IsFiniteSet(Pairs(Merged))
    <3>1. IsFiniteSet(Node \X Key) /\ Pairs(Unemitted) \in SUBSET (Node \X Key) /\ Pairs(Merged) \in SUBSET (Node \X Key)
      BY NodeAssumption, FS_Product DEF Pairs
    <3> QED
      BY <3>1, FS_Subset
  <2>4. /\ Cardinality(Versions) \in Nat /\ Cardinality(Pairs(Unemitted)) \in Nat
        /\ Cardinality(Pairs(Merged)) \in Nat /\ edits \in Nat
    BY <2>3, FS_CardinalityType, LimitAssumption DEF CountInv, Types
  <2>5. Cardinality(Versions) <= edits + 2 * Cardinality(Pairs(Merged))
    BY <2>4 DEF CountInv
  <2> QED
    BY <2>2, <2>5 DEF EventsComeFromChanges, Versions
<1> QED
  BY <1>1, <1>2, <1>3, PTL DEF Spec

-----------------------------------------------------------------------------
(* What follows for the order in which events come.                         *)

\* Nodes that know the same events hold the same registers, however the events came to them.
SameEventsSameRegisters ==
    \A n, p \in Node : db[n].events = db[p].events => db[n].known = db[p].known

(***************************************************************************)
(* With clocks that agree and nothing forgotten, an id denotes one event   *)
(* in the whole cluster, and nodes with the same events agree on the rows. *)
(***************************************************************************)
THEOREM NodesWithTheSameEventsAgree ==
  ASSUME NothingForgotten, EqualClocks
  PROVE  Spec => [](IdsDenoteOneEvent /\ SameEventsSameRegisters)
<1> DEFINE IInv == Types /\ FollowInv /\ RegisterInv
<1>1. Init => IInv
  BY InitTypes, InitFollows, InitRegisters
<1>2. IInv /\ [Next]_vars => IInv'
  BY NextTypes, NextFollows, NextRegisters
<1>3. IInv => IdsDenoteOneEvent
  BY PartsOfEverywhere DEF IdsDenoteOneEvent, RegisterInv, Identified
<1>4. IInv => SameEventsSameRegisters
  <2> SUFFICES ASSUME IInv, NEW n \in Node, NEW p \in Node, db[n].events = db[p].events
               PROVE  db[n].known = db[p].known
    BY DEF SameEventsSameRegisters
  <2>1. ASSUME NEW m \in Node
        PROVE  db[m].known = [k \in Key |-> Abstract!ValueFrom(db[m].events, k)]
    <3>1. DbOK(db[m]) /\ Grounded(db[m])
      BY DEF Types, RegisterInv
    <3>2. Stamped(Everywhere, now) /\ Distinct(Everywhere)
      BY DEF FollowInv
    <3> QED
      BY <3>1, <3>2, ItsOwnHistory, GroundedFollows
  <2> QED
    BY <2>1
<1> QED
  BY <1>1, <1>2, <1>3, <1>4, PTL DEF Spec

(***************************************************************************)
(* A delta that is imported again changes nothing: a peer may answer the   *)
(* same request twice, or a sync be repeated after its answer came.        *)
(***************************************************************************)
THEOREM ImportIsIdempotent ==
  ASSUME NEW d, DbOK(d), NEW received \in SUBSET Event, IsFiniteSet(received)
  PROVE  LET once == applyRemoteEvents(d, received)
         IN applyRemoteEvents(once, received) = once
<1> DEFINE once == applyRemoteEvents(d, received)
<1>1. once \in Database /\ once.events = d.events \cup Unknown(d, received)
  BY ApplyOK DEF DbOK
<1>2. \A e \in received : e \in Unknown(d, received) \/ \E f \in d.events : SameId(e, f)
  BY DEF Unknown
<1> HIDE DEF once
<1>3. \A e \in received : \E f \in once.events : SameId(e, f)
  <2>1. \A e : SameId(e, e)
    BY DEF SameId
  <2> QED
    BY <1>1, <1>2, <2>1
<1>4. Unknown(once, received) = {} /\ Wins(once, received) = {}
  BY <1>3 DEF Unknown, Wins
<1>5. /\ once.row \in [Key -> Row] /\ once.known \in [Key -> Row]
      /\ once.version \in [Key -> Version \cup {NoVersion}]
  BY <1>1, DbFields
<1>6. /\ Overwritten(once.row, {}) = once.row /\ Overwritten(once.known, {}) = once.known
      /\ Versioned(once.version, {}) = once.version
  BY <1>5 DEF Overwritten, Versioned
<1>7. applyRemoteEvents(once, received) = once
  BY <1>1, <1>4, <1>6 DEF applyRemoteEvents, Applied, Database
<1> QED
  BY <1>7 DEF once
=============================================================================
