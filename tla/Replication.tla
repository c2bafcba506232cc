----------------------------- MODULE Replication -----------------------------
(***************************************************************************)
(* Row replication between the nodes of a cluster (src/cluster): every     *)
(* node's sync turns the rows its database changed into events, pulls the  *)
(* events of its peers, falls back to a peer's snapshot when the peer's    *)
(* cache no longer reaches back far enough, merges duplicate stories and   *)
(* publishes its own events.                                               *)
(*                                                                         *)
(* A sync runs under the database lock, so no other process changes rows   *)
(* meanwhile; what interleaves are the requests of a sync with the syncs   *)
(* of the other nodes.  Rows are all of one table; a payload is a number,  *)
(* which for a story is how far it has come (STORY_STATUS_ORDER).          *)
(***************************************************************************)
EXTENDS Integers, FiniteSets, FiniteSetsExt

CONSTANTS
    Node,           \* node ids, numbers for the order of localeCompare
    Key,            \* row ids, numbers for the order in which a scan meets them
    Value,          \* payloads
    Absent,         \* no such row
    Peers,          \* the nodes each node pulls from
    CanonicalOf,    \* a duplicate story's canonical story; any other row's is itself
    Skew,           \* how far each node's clock is ahead
    CacheSize,      \* events a node serves (20000 in the code)
    DeltaLimit,     \* events per answer (4000)
    MaxEvents,      \* events a database keeps (max_cluster_events)
    Creators,       \* bound: the nodes that may create each row
    CrashNodes,     \* bound: the nodes whose process may die
    MaxEdits,       \* bound: edits of rows
    MaxScans        \* bound: scans that emit events

ASSUME NodeAssumption == Node \subseteq Nat /\ Key \subseteq Nat /\ IsFiniteSet(Node) /\ IsFiniteSet(Key)
ASSUME ValueAssumption == Value \subseteq Nat \ {0} /\ Absent = 0
ASSUME ShapeAssumption ==
    /\ Peers \in [Node -> SUBSET Node] /\ CanonicalOf \in [Key -> Key] /\ Skew \in [Node -> Nat]
    /\ \A k \in Key : CanonicalOf[k] <= k /\ CanonicalOf[CanonicalOf[k]] = CanonicalOf[k]
ASSUME LimitAssumption ==
    /\ {CacheSize, DeltaLimit, MaxEvents, MaxEdits, MaxScans} \subseteq Nat
    /\ CrashNodes \subseteq Node /\ Creators \in [Key -> SUBSET Node]

VARIABLES
    db,         \* the database of each node, as its process has it
    saved,      \* the database file, as of the last db.save()
    published,  \* what the HTTP server of each node serves: its caches
    sync,       \* the sync call under way at each node
    now,        \* the time, counted in scans that emitted events
    edits       \* number of edits so far

vars == <<db, saved, published, sync, now, edits>>

Row == Value \cup {Absent}
Vector == [Node -> Nat]
Version == [ts : Nat, actor : Node, counter : Nat]
Event == [ts : Nat, actor : Node, counter : Nat, key : Key, value : Row]
NoVersion == [ts |-> 0, actor |-> 0, counter |-> 0]
ZeroVector == [n \in Node |-> 0]

(***************************************************************************)
(* A database: the rows, and the cluster tables of ensureClusterTables.    *)
(* known stands for cluster_row_hashes: the payload last emitted or        *)
(* imported for each row.                                                  *)
(***************************************************************************)
EmptyDb == [row |-> [k \in Key |-> Absent], known |-> [k \in Key |-> Absent],
            version |-> [k \in Key |-> NoVersion], events |-> {}, counter |-> 0,
            snapshotVector |-> ZeroVector, merged |-> {}]

NoSnapshot == [row |-> [k \in Key |-> Absent], vector |-> ZeroVector]
NoCache == [events |-> {}, vector |-> ZeroVector, snapshot |-> NoSnapshot]

Idle == [phase |-> "idle", toPull |-> {}, rescan |-> FALSE]

-----------------------------------------------------------------------------
(***************************************************************************)
(* Operators named Faulty..., StubbornShouldApply and UnversionedApplied   *)
(* are mutations of a definition after them, used by no action.            *)
(***************************************************************************)
\* compareVersion
Older(e, f) ==
    \/ e.ts < f.ts
    \/ e.ts = f.ts /\ e.actor < f.actor
    \/ e.ts = f.ts /\ e.actor = f.actor /\ e.counter < f.counter

Oldest(S, size) == {e \in S : Cardinality({f \in S : Older(f, e)}) < size}
Latest(S, size) == {e \in S : Cardinality({f \in S : Older(e, f)}) < size}

VersionOf(e) == [ts |-> e.ts, actor |-> e.actor, counter |-> e.counter]
SameId(e, f) == e.actor = f.actor /\ e.counter = f.counter

getVersionVector(d) ==
    [a \in Node |-> Max({0} \cup {e.counter : e \in {f \in d.events : f.actor = a}})]

getEffectiveVersionVector(d) ==
    [a \in Node |-> Max({getVersionVector(d)[a], d.snapshotVector[a]})]

(***************************************************************************)
(* scanLocalChanges with emitLocalEvent: every row that differs from what  *)
(* was last emitted or imported becomes an event, whatever made it differ. *)
(***************************************************************************)
Changed(d) == {k \in Key : d.row[k] # d.known[k]}

LocalEvent(n, d, k) ==
    [ts |-> now + Skew[n], actor |-> n,
     counter |-> d.counter + Cardinality({j \in Changed(d) : j <= k}),
     key |-> k, value |-> d.row[k]]

\* INSERT OR REPLACE: an event of the same id, should there be one, is gone
WithEvents(events, new) == {e \in events : \A f \in new : ~SameId(e, f)} \cup new

scanLocalChanges(n, d) ==
    [d EXCEPT
        !.known = d.row,
        !.version = [k \in Key |-> IF k \in Changed(d) THEN VersionOf(LocalEvent(n, d, k)) ELSE @[k]],
        !.events = WithEvents(@, {LocalEvent(n, d, k) : k \in Changed(d)}),
        !.counter = @ + Cardinality(Changed(d))]

Tick(emitted) == now' = IF emitted THEN now + 1 ELSE now

(***************************************************************************)
(* applyRemoteEvents: events in the order of their versions, so that of    *)
(* those about a row the newest is the one that stays, if it is newer than *)
(* the row's own version.  An event whose id is known is not looked at.    *)
(***************************************************************************)
FaultyShouldApply(d, e) == TRUE                    \* whatever arrives is applied
StubbornShouldApply(d, e) == d.version[e.key] = NoVersion   \* only rows without version
shouldApplyEvent(d, e) == d.version[e.key] = NoVersion \/ Older(d.version[e.key], e)

\* The table adapter upserts the payload of an event, or deletes its row.
Overwritten(rows, wins) ==
    [k \in Key |-> IF \E e \in wins : e.key = k
                   THEN (CHOOSE e \in wins : e.key = k).value ELSE rows[k]]

\* the version of each row is that of its last event
Versioned(versions, wins) ==
    [k \in Key |-> IF \E e \in wins : e.key = k
                   THEN VersionOf(CHOOSE e \in wins : e.key = k) ELSE versions[k]]

FaultyApplied(d, wins) ==                          \* the row hash is forgotten
    [d EXCEPT !.row = Overwritten(@, wins), !.version = Versioned(@, wins)]
UnversionedApplied(d, wins) ==                     \* the row version is forgotten
    [d EXCEPT !.row = Overwritten(@, wins), !.known = Overwritten(@, wins)]
Applied(d, wins) ==
    [d EXCEPT !.row = Overwritten(@, wins), !.known = Overwritten(@, wins),
              !.version = Versioned(@, wins)]

Unknown(d, received) == {e \in received : \A f \in d.events : ~SameId(e, f)}

Wins(d, received) ==
    {e \in Unknown(d, received) :
        /\ shouldApplyEvent(d, e)
        /\ \A f \in Unknown(d, received) : f.key = e.key /\ shouldApplyEvent(d, f) => ~Older(e, f)}

applyRemoteEvents(d, received) ==
    [Applied(d, Wins(d, received)) EXCEPT !.events = @ \cup Unknown(d, received)]

(***************************************************************************)
(* The answer of p to a delta request, from its caches.                    *)
(***************************************************************************)
FaultyGetDelta(p, vector) ==                       \* starts one event too late
    Oldest({e \in published[p].events : e.counter > vector[e.actor] + 1}, DeltaLimit)
getDeltaFromCache(p, vector) ==
    Oldest({e \in published[p].events : e.counter > vector[e.actor]}, DeltaLimit)

isDeltaInsufficient(vector, peerVector, received) ==
    \E a \in Node :
        /\ peerVector[a] > vector[a]
        /\ Cardinality({e \in received : e.actor = a}) < peerVector[a] - vector[a]

\* Every row of the snapshot is written; rows it does not have stay.
applySnapshot(d, snapshot) ==
    [d EXCEPT !.row = [k \in Key |-> IF snapshot.row[k] = Absent THEN @[k] ELSE snapshot.row[k]],
              !.snapshotVector = snapshot.vector]

(***************************************************************************)
(* mergeSimilarStories: a duplicate that was not merged here before gives  *)
(* its progress to the canonical story and is deleted.                     *)
(***************************************************************************)
Duplicates(d) ==
    {k \in Key : /\ CanonicalOf[k] # k /\ d.row[k] # Absent /\ d.row[CanonicalOf[k]] # Absent
                 /\ k \notin d.merged}

mergedStatus(statuses) == Max(statuses)

FaultyMerge(d) ==                                  \* the duplicate is not deleted
    [d EXCEPT !.merged = @ \cup Duplicates(d)]
mergeSimilarStories(d) ==
    [d EXCEPT
        !.row = [k \in Key |->
            IF k \in Duplicates(d) THEN Absent
            ELSE mergedStatus({@[k]} \cup {@[j] : j \in {i \in Duplicates(d) : CanonicalOf[i] = k}})],
        !.merged = @ \cup Duplicates(d)]

-----------------------------------------------------------------------------
Init ==
    /\ db = [n \in Node |-> EmptyDb]
    /\ saved = db
    /\ published = [n \in Node |-> NoCache]
    /\ sync = [n \in Node |-> Idle]
    /\ now = 1
    /\ edits = 0

(***************************************************************************)
(* Another hive process creates, changes or deletes a row, between two     *)
(* syncs.  Row ids are generated: a row is created once, and a story then  *)
(* has the first status (createStory).                                     *)
(***************************************************************************)
IsNew(k) == \A p \in Node : db[p].row[k] = Absent /\ \A e \in db[p].events : e.key # k

EditRow(n, k, v) ==
    /\ sync[n].phase = "idle" /\ edits < MaxEdits
    /\ v # db[n].row[k]
    /\ db[n].row[k] = Absent => IsNew(k) /\ v = Min(Value) /\ n \in Creators[k]
    /\ db' = [db EXCEPT ![n].row[k] = v]
    /\ saved' = [saved EXCEPT ![n] = db'[n]]
    /\ edits' = edits + 1
    /\ UNCHANGED <<published, sync, now>>

\* The rows of all replicated tables, and what they are the outcome of.
buildSnapshot(d) == [row |-> d.row, vector |-> getVersionVector(d)]

(***************************************************************************)
(* sync up to its first request: the snapshot to serve is taken before the *)
(* local changes are scanned.                                              *)
(***************************************************************************)
BeginSync(n) ==
    /\ sync[n].phase = "idle"
    /\ Changed(db[n]) = {} \/ now <= MaxScans
    /\ published' = [published EXCEPT ![n].snapshot = buildSnapshot(db[n])]
    /\ db' = [db EXCEPT ![n] = scanLocalChanges(n, @)]
    /\ Tick(Changed(db[n]) # {})
    /\ sync' = [sync EXCEPT ![n] = [phase |-> "pulling", toPull |-> Peers[n] \ {n},
                                    rescan |-> FALSE]]
    /\ UNCHANGED <<saved, edits>>

(***************************************************************************)
(* The delta of peer p comes back and is enough.                           *)
(***************************************************************************)
Delta(n, p) == getDeltaFromCache(p, getEffectiveVersionVector(db[n]))
Insufficient(n, p) ==
    isDeltaInsufficient(getEffectiveVersionVector(db[n]), published[p].vector, Delta(n, p))

ImportDelta(n, p) ==
    /\ db' = [db EXCEPT ![n] = applyRemoteEvents(@, Delta(n, p))]
    /\ sync' = [sync EXCEPT ![n].toPull = @ \ {p},
                            ![n].rescan = @ \/ Wins(db[n], Delta(n, p)) # {}]
    /\ UNCHANGED <<saved, published, now, edits>>

PullDelta(n, p) ==
    /\ p \in sync[n].toPull /\ ~Insufficient(n, p)
    /\ ImportDelta(n, p)

(***************************************************************************)
(* recoverFromSnapshot: the rows of p's snapshot replace this node's, and  *)
(* the sync pulls from nobody else.  When the snapshot does not come the   *)
(* incomplete delta is imported after all.                                 *)
(***************************************************************************)
RecoverFromSnapshot(n, p) ==
    /\ p \in sync[n].toPull /\ Insufficient(n, p)
    /\ db' = [db EXCEPT ![n] = applySnapshot(@, published[p].snapshot)]
    /\ sync' = [sync EXCEPT ![n] = [@ EXCEPT !.toPull = {}, !.rescan = TRUE]]
    /\ UNCHANGED <<saved, published, now, edits>>

SnapshotFails(n, p) ==
    /\ p \in sync[n].toPull /\ Insufficient(n, p)
    /\ ImportDelta(n, p)

\* p cannot be reached, does not answer in time or answers with an error.
PeerUnreachable(n, p) ==
    /\ p \in sync[n].toPull
    /\ sync' = [sync EXCEPT ![n].toPull = @ \ {p}]
    /\ UNCHANGED <<db, saved, published, now, edits>>

(***************************************************************************)
(* The rest of sync: merge, scan again if anything changed, publish, and   *)
(* now and then (compaction_interval_ms) prune the oldest events.          *)
(***************************************************************************)
Pruned(d) == [d EXCEPT !.events = Latest(@, MaxEvents)]

EndSync(n) ==
    LET d == mergeSimilarStories(db[n])
        rescan == sync[n].rescan \/ Duplicates(db[n]) # {}
        emits == rescan /\ Changed(d) # {}
        scanned == IF rescan THEN scanLocalChanges(n, d) ELSE d
    IN  /\ sync[n].phase = "pulling" /\ sync[n].toPull = {}
        /\ emits => now <= MaxScans
        /\ \E final \in {scanned, Pruned(scanned)} :
              /\ db' = [db EXCEPT ![n] = final]
              /\ published' = [published EXCEPT ![n] =
                    [@ EXCEPT !.events = Latest(final.events, CacheSize),
                              !.vector = getVersionVector(final)]]
        /\ Tick(emits)
        /\ sync' = [sync EXCEPT ![n] = [Idle EXCEPT !.phase = "ended"]]
        /\ UNCHANGED <<saved, edits>>

\* managerCheck saves the database (db.save, or db.close) after the sync
SaveDb(n) ==
    /\ sync[n].phase = "ended"
    /\ saved' = [saved EXCEPT ![n] = db[n]]
    /\ sync' = [sync EXCEPT ![n] = Idle]
    /\ UNCHANGED <<db, published, now, edits>>

\* the manager process dies and is started again
Crash(n) ==
    /\ n \in CrashNodes
    /\ db' = [db EXCEPT ![n] = saved[n]]
    /\ published' = [published EXCEPT ![n] = NoCache]
    /\ sync' = [sync EXCEPT ![n] = Idle]
    /\ UNCHANGED <<saved, now, edits>>

Next ==
    \E n \in Node :
        \/ \E k \in Key, v \in Row : EditRow(n, k, v)
        \/ BeginSync(n)
        \/ \E p \in Node :
              \/ PullDelta(n, p)
              \/ RecoverFromSnapshot(n, p)
              \/ SnapshotFails(n, p)
              \/ PeerUnreachable(n, p)
        \/ EndSync(n)
        \/ SaveDb(n)
        \/ Crash(n)

Spec == Init /\ [][Next]_vars

(***************************************************************************)
(* Fairness: the manager of every node goes on syncing (its interval), and *)
(* a peer that is asked again and again answers at last.  Nothing is       *)
(* assumed of edits and crashes.                                           *)
(***************************************************************************)
Fairness ==
    \A n \in Node :
        /\ WF_vars(BeginSync(n))
        /\ WF_vars(EndSync(n))
        /\ WF_vars(SaveDb(n))
        /\ \A p \in Peers[n] :
              /\ SF_vars(PullDelta(n, p))
              /\ SF_vars(RecoverFromSnapshot(n, p))

FairSpec == Spec /\ Fairness

-----------------------------------------------------------------------------
(***************************************************************************)
(* Properties                                                              *)
(***************************************************************************)

Database ==
    [row : [Key -> Row], known : [Key -> Row], version : [Key -> Version \cup {NoVersion}],
     events : SUBSET Event, counter : Nat, snapshotVector : Vector, merged : SUBSET Key]

\* Every variable has its type.
TypeOK ==
    /\ db \in [Node -> Database] /\ saved \in [Node -> Database]
    /\ \A n \in Node :
          /\ published[n].events \subseteq Event /\ published[n].vector \in Vector
          /\ published[n].snapshot \in [row : [Key -> Row], vector : Vector]
          /\ sync[n] \in [phase : {"idle", "pulling", "ended"}, toPull : SUBSET Node,
                          rescan : BOOLEAN]
    /\ now \in 1 .. MaxScans + 1 /\ edits \in 0 .. MaxEdits

(***************************************************************************)
(* No event a node knows of is newer than the row it is about, and the row *)
(* the node last emitted or imported is what the event of its version      *)
(* says: also when events were pruned, rows came from snapshots or the     *)
(* process died.                                                           *)
(***************************************************************************)
RowsFollowTheirNewestEvent ==
    \A n \in Node : \A e \in db[n].events :
        /\ ~Older(db[n].version[e.key], e)
        /\ db[n].version[e.key] = VersionOf(e) => db[n].known[e.key] = e.value

(***************************************************************************)
(* A node's events are a prefix of what each actor emitted, as far as they *)
(* are published: no answer leaves a gap that the version vector hides, so *)
(* that it would never be asked for again.                                 *)
(***************************************************************************)
NoGapInHistory ==
    \A n \in Node : \A e \in db[n].events : \A c \in 1 .. e.counter :
        \/ \E f \in db[n].events : f.actor = e.actor /\ f.counter = c
        \/ c <= db[n].snapshotVector[e.actor]

(***************************************************************************)
(* events.ts:49 declares (actor_id, actor_counter) unique: it identifies   *)
(* an event, in the cluster as in one database.                            *)
(***************************************************************************)
IdsDenoteOneEvent ==
    \A n, p \in Node : \A e \in db[n].events, f \in db[p].events : SameId(e, f) => e = f

(***************************************************************************)
(* An imported row is not emitted again, by its importer or by anybody     *)
(* else: events come from edits and from merges only, and so end.          *)
(***************************************************************************)
EventsComeFromChanges ==
    Cardinality({VersionOf(e) : e \in UNION {db[n].events : n \in Node}})
        <= edits + 2 * Quantify(Node \X Key, LAMBDA nk : nk[2] \in db[nk[1]].merged)

(***************************************************************************)
(* The replicas implement last-writer-wins registers: see LastWriterWins.  *)
(***************************************************************************)
Abstract == INSTANCE LastWriterWins WITH
    seen <- [n \in Node |-> db[n].events],
    register <- [n \in Node |-> db[n].known]

LastWriterWinsSpec == Abstract!Spec

(***************************************************************************)
(* Once nobody edits rows, all nodes come to hold the same rows.           *)
(***************************************************************************)
Agree == \A n, p \in Node : db[n].row = db[p].row
NodesConverge == <>[]Agree

(***************************************************************************)
(* A duplicate story that is known next to its canonical story at some     *)
(* node is gone from every node at last, also when it was edited elsewhere *)
(* in the meantime.                                                        *)
(***************************************************************************)
DuplicatesAreMerged ==
    <>[](\A n \in Node : \A k \in Key :
            CanonicalOf[k] # k => db[n].row[k] = Absent \/ db[n].row[CanonicalOf[k]] = Absent)
=============================================================================
