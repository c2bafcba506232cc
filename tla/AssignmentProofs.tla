-------------------------- MODULE AssignmentProofs --------------------------
(* Theorems about Assignment, for every number of stories and agents. *)
EXTENDS Assignment, FiniteSetTheorems, TLAPS

-----------------------------------------------------------------------------
(* The inductive invariant. *)

\* An agent's story is assigned to it, or merged and nobody's.
Pairing ==
  \A a \in Agent : LET s == agents[a].story IN
    Active(a) /\ s # None =>
      \/ story[s].agent = a
      \/ story[s].status = "merged" /\ story[s].agent = None

\* Two agents in force have different stories, merged ones included.
NoSharing ==
  \A a, b \in Agent :
    /\ Active(a) /\ Active(b)
    /\ agents[a].story # None /\ agents[a].story = agents[b].story
    => a = b

\* Who has a story is at work.
HoldersWork ==
  \A a \in Agent : Active(a) /\ agents[a].story # None => agents[a].status = "working"

MergedAreClosed == \A s \in open : story[s].status # "merged"

QueuedAreNobodys ==
  \A s \in Story : story[s].status \in {"planned", "estimated"} => story[s].agent = None

\* What is being assigned is planned, and nobody else takes it meanwhile.
PickedIsQueued ==
  /\ \A s \in assigning.todo : story[s].status = "planned" /\ s # assigning.current
  /\ assigning.current # None =>
       /\ assigning.phase = "stories" /\ assigning.slots > 0
       /\ story[assigning.current].status = "planned"
  /\ assigning.phase = "rest" => assigning.todo = {}

\* Agents end for stories that are merged.
EndingIsMerged ==
  /\ manager.ending # {} =>
       manager.stage \in {"mergedKill", "mergedWrite", "idleKill", "idleWrite"}
  /\ \A e \in manager.ending : e[2] # None => story[e[2]].status = "merged"

IInv ==
  /\ TypeOK /\ Pairing /\ NoSharing /\ HoldersWork /\ MergedAreClosed
  /\ QueuedAreNobodys /\ PickedIsQueued /\ EndingIsMerged

-----------------------------------------------------------------------------
(* Type correctness. *)

StoryType == [status : StoryStatus, agent : Agent \cup {None}]

AgentType == [type : Level, index : Nat,
              status : {"absent", "idle", "working", "terminated"},
              story : Story \cup {None}]

AssigningType ==
  [by : {"nobody", "manager", "command"},
   phase : {"rest", "scale", "begin", "senior", "stories"},
   todo : SUBSET Story, current : Story \cup {None},
   fallback : BOOLEAN, slots : Nat, next : Nat, last : Nat]

ManagerType == [stage : Stages, seen : SUBSET Session,
                ending : SUBSET (Agent \X (Story \cup {None}))]

Types ==
  /\ story \in [Story -> StoryType]
  /\ agents \in [Agent -> AgentType]
  /\ alive \subseteq Session
  /\ open \subseteq Story
  /\ manager \in ManagerType
  /\ assigning \in AssigningType
  /\ bounds \in [Bounds -> Nat]

LEMMA TypesAreTypeOK == TypeOK <=> Types
  BY DEF TypeOK, Types, StoryType, AgentType, AssigningType, ManagerType

LEMMA TypesAreTypeOKNext == TypeOK' <=> Types'
  BY DEF TypeOK, Types, StoryType, AgentType, AssigningType, ManagerType

\* Stories and agents can be counted.
LEMMA CountsAreNat ==
  /\ \A S \in SUBSET Story : Cardinality(S) \in Nat
  /\ \A A \in SUBSET Agent : Cardinality(A) \in Nat
<1>1. IsFiniteSet(Story)
  BY AssignmentAssumption
<1>2. IsFiniteSet(Agent)
  BY AssignmentAssumption, FS_Interval DEF Agent
<1> QED
  BY <1>1, <1>2, FS_Subset, FS_CardinalityType

LEMMA AtRestIsTyped == AtRest \in AssigningType
  BY DEF AtRest, AssigningType

LEMMA StartIsTyped ==
  ASSUME NEW by \in {"manager", "command"}, Start(by)
  PROVE  assigning' \in AssigningType /\ assigning'.current = None /\ assigning'.todo = {}
<1> DEFINE progress == Cardinality(InProgress)
           slots == IF progress < MaxParallel THEN MaxParallel - progress ELSE 0
           assignable == Cardinality({s \in With("planned") : DependenciesMerged(s)})
           points == IF assignable < slots THEN assignable ELSE slots
           needed == (points + SeniorCapacity - 1) \div SeniorCapacity
           current == Cardinality(ActiveSeniors)
<1>1. progress \in Nat /\ assignable \in Nat /\ current \in Nat
  BY CountsAreNat DEF InProgress, With, ActiveSeniors
<1>2. MaxParallel \in Nat /\ SeniorCapacity \in Nat \ {0}
  BY AssignmentAssumption
<1>3. points \in Nat
  BY <1>1, <1>2
<1>4. needed \in Nat
  <2> HIDE DEF points
  <2>1. points + SeniorCapacity - 1 \in Nat
    BY <1>2, <1>3
  <2> QED
    BY <1>2, <2>1
<1>5. assigning' = IF needed > current
                     THEN [AtRest EXCEPT !.by = by, !.phase = "scale",
                                         !.next = current + 1, !.last = needed]
                     ELSE [AtRest EXCEPT !.by = by, !.phase = "begin"]
  BY DEF Start
<1>6. current + 1 \in Nat
  BY <1>1
<1> HIDE DEF needed, current
<1>7. CASE needed > current
  <2>1. assigning' = [AtRest EXCEPT !.by = by, !.phase = "scale",
                                    !.next = current + 1, !.last = needed]
    BY <1>5, <1>7
  <2> QED
    BY <1>4, <1>6, <2>1 DEF AtRest, AssigningType
<1>8. CASE ~(needed > current)
  <2>1. assigning' = [AtRest EXCEPT !.by = by, !.phase = "begin"]
    BY <1>5, <1>8
  <2> QED
    BY <2>1 DEF AtRest, AssigningType
<1> QED
  BY <1>7, <1>8

LEMMA InitIsTyped == Init => TypeOK
<1> SUFFICES ASSUME Init PROVE Types
  BY TypesAreTypeOK
<1> USE DEF Init
<1>1. story \in [Story -> StoryType]
  BY DEF StoryType, StoryStatus
<1>2. agents \in [Agent -> AgentType]
  BY DEF AgentType, Level
<1>3. manager \in ManagerType
  BY DEF ManagerType, Stages
<1>4. assigning \in AssigningType
  BY AtRestIsTyped
<1>5. bounds \in [Bounds -> Nat]
  OBVIOUS
<1> QED
  BY <1>1, <1>2, <1>3, <1>4, <1>5 DEF Types

LEMMA UseIsTyped ==
  ASSUME Types, NEW b \in Bounds, Use(b)
  PROVE  bounds' \in [Bounds -> Nat]
<1>1. "all" \in Bounds
  BY DEF Bounds
<1> QED
  BY <1>1 DEF Types, Use

LEMMA SpawnIsTyped ==
  ASSUME Types, NEW level \in Level, NEW index \in Nat, Spawn(level, index)
  PROVE  agents' \in [Agent -> AgentType] /\ alive' \subseteq Session /\ bounds' = bounds
<1>1. PICK a \in Free :
        /\ agents' = [agents EXCEPT ![a] =
             [type |-> level, index |-> index, status |-> "idle", story |-> None]]
        /\ alive' = alive \cup {<<level, index>>}
        /\ UNCHANGED bounds
  BY DEF Spawn
<1>2. [type |-> level, index |-> index, status |-> "idle", story |-> None] \in AgentType
  BY DEF AgentType
<1>3. agents' \in [Agent -> AgentType]
  BY <1>1, <1>2 DEF Types
<1>4. <<level, index>> \in Session
  BY DEF Session
<1>5. alive' \subseteq Session
  BY <1>1, <1>4 DEF Types
<1> QED
  BY <1>1, <1>3, <1>5

LEMMA SpawnFailsIsTyped ==
  ASSUME Types, SpawnFails
  PROVE  bounds' \in [Bounds -> Nat] /\ agents' = agents /\ alive' = alive
  BY UseIsTyped DEF SpawnFails, Bounds

\* A type-correct story or agent, changed in one field.
LEMMA RowsStayTyped ==
  /\ \A row \in StoryType : Requeued(row) \in StoryType
  /\ \A row \in AgentType : Terminated(row) \in AgentType
  /\ \A row \in AgentType, s \in Story \cup {None} : Turned(row, s) \in AgentType
  BY DEF Requeued, Terminated, Turned, StoryType, AgentType, StoryStatus

LEMMA TurnIsTyped ==
  ASSUME Types, NEW merged, NEW st, TurnAgentsFrom(merged, st)
  PROVE  agents' \in [Agent -> AgentType]
<1> DEFINE stale == {a \in Agent : Active(a) /\ agents[a].story \in merged}
<1>1. PICK next \in [stale -> Story \cup {None}] :
        agents' = [a \in Agent |->
          IF a \in stale THEN Turned(agents[a], next[a]) ELSE agents[a]]
  BY DEF TurnAgentsFrom
<1>2. \A a \in Agent : agents[a] \in AgentType
  BY DEF Types
<1>3. \A a \in stale : next[a] \in Story \cup {None}
  OBVIOUS
<1> HIDE DEF stale
<1>4. \A a \in Agent :
        (IF a \in stale THEN Turned(agents[a], next[a]) ELSE agents[a]) \in AgentType
  BY <1>2, <1>3, RowsStayTyped
<1> QED
  BY <1>1, <1>4

\* The steps of checkScaling and assignStories.
LEMMA AssigningIsTyped == Types /\ PickedIsQueued /\ Assigning => Types'
<1> SUFFICES ASSUME Types, PickedIsQueued, Assigning PROVE Types'
  OBVIOUS
<1> USE DEF Types
<1>0. assigning.next \in Nat /\ assigning.next + 1 \in Nat /\ assigning.slots \in Nat
  BY DEF AssigningType
<1>1. CASE ScaleUp
  <2>1. assigning' \in AssigningType
    <3>1. CASE assigning' = [assigning EXCEPT !.phase = "begin", !.next = 0, !.last = 0]
      BY <3>1 DEF AssigningType
    <3>2. CASE assigning' = [assigning EXCEPT !.next = assigning.next + 1]
      BY <1>0, <3>2 DEF AssigningType
    <3> QED
      BY <1>1, <3>1, <3>2 DEF ScaleUp
  <2>2. agents' \in [Agent -> AgentType] /\ alive' \subseteq Session
         /\ bounds' \in [Bounds -> Nat]
    <3>1. CASE SeniorRuns(assigning.next)
      BY <1>1, <3>1 DEF ScaleUp
    <3>2. CASE Spawn("senior", assigning.next)
      BY <1>0, <3>2, SpawnIsTyped DEF Level
    <3>3. CASE SpawnFails
      BY <3>3, SpawnFailsIsTyped
    <3> QED
      BY <1>1, <3>1, <3>2, <3>3 DEF ScaleUp
  <2> QED
    BY <1>1, <2>1, <2>2 DEF ScaleUp
<1>2. CASE BeginAssigning
  <2>1. PICK top \in {0} \cup {agents[a].index : a \in ActiveSeniors} :
          assigning' =
            IF \/ Cardinality(InProgress) >= MaxParallel
               \/ With("planned") = {} \/ Circular(With("planned"))
              THEN AtRest
              ELSE [assigning EXCEPT !.phase = "senior", !.todo = With("planned"),
                     !.slots = MaxParallel - Cardinality(InProgress), !.next = top + 1]
    BY <1>2 DEF BeginAssigning
  <2>2. top \in Nat
    BY DEF ActiveSeniors, AgentType
  <2>3. Cardinality(InProgress) \in Nat /\ MaxParallel \in Nat
    BY CountsAreNat, AssignmentAssumption DEF InProgress, With
  <2>4. CASE assigning' = AtRest
    BY <1>2, <2>4, AtRestIsTyped DEF BeginAssigning
  <2>5. CASE assigning' # AtRest
    <3>1. ~(Cardinality(InProgress) >= MaxParallel)
      BY <2>1, <2>5
    <3>2. MaxParallel - Cardinality(InProgress) \in Nat /\ top + 1 \in Nat
      BY <2>2, <2>3, <3>1
    <3>3. With("planned") \in SUBSET Story
      BY DEF With
    <3>4. assigning' = [assigning EXCEPT !.phase = "senior", !.todo = With("planned"),
                     !.slots = MaxParallel - Cardinality(InProgress), !.next = top + 1]
      BY <2>1, <2>5
    <3>5. assigning' \in AssigningType
      BY <3>2, <3>3, <3>4 DEF AssigningType
    <3> QED
      BY <1>2, <3>5 DEF BeginAssigning
  <2> QED
    BY <2>4, <2>5
<1>3. CASE EnsureSenior
  <2>1. assigning' \in AssigningType
    <3>1. CASE assigning' = [assigning EXCEPT !.phase = "stories"]
      BY <3>1 DEF AssigningType
    <3>2. CASE assigning' = [assigning EXCEPT !.phase = "stories",
                                              !.next = assigning.next + 1]
      BY <1>0, <3>2 DEF AssigningType
    <3> QED
      BY <1>3, <3>1, <3>2, AtRestIsTyped DEF EnsureSenior
  <2>2. agents' \in [Agent -> AgentType] /\ alive' \subseteq Session
         /\ bounds' \in [Bounds -> Nat]
    BY <1>0, <1>3, SpawnIsTyped, SpawnFailsIsTyped DEF EnsureSenior, Level
  <2> QED
    BY <1>3, <2>1, <2>2 DEF EnsureSenior
<1>4. CASE SpawnForStory
  <2>1. assigning' \in AssigningType
    <3>1. CASE assigning' = [assigning EXCEPT !.next = assigning.next + 1]
      BY <1>0, <3>1 DEF AssigningType
    <3>2. CASE assigning' = [assigning EXCEPT !.next = assigning.next + 1,
                                              !.current = None, !.fallback = FALSE]
      BY <1>0, <3>2 DEF AssigningType
    <3>3. CASE assigning' = [assigning EXCEPT !.fallback = TRUE]
      BY <3>3 DEF AssigningType
    <3> QED
      BY <1>4, <3>1, <3>2, <3>3 DEF SpawnForStory
  <2>2. NextIndex(LevelOf(assigning.current)) \in Nat
    BY CountsAreNat DEF NextIndex
  <2>3. assigning.current # None => LevelOf(assigning.current) \in Level
    BY AssignmentAssumption DEF LevelOf, Level, AssigningType
  <2>4. agents' \in [Agent -> AgentType] /\ alive' \subseteq Session
         /\ bounds' \in [Bounds -> Nat]
    <3>1. CASE Spawn("senior", assigning.next)
      BY <1>0, <3>1, SpawnIsTyped DEF Level
    <3>2. CASE Spawn(LevelOf(assigning.current), NextIndex(LevelOf(assigning.current)))
      BY <1>4, <2>2, <2>3, <3>2, SpawnIsTyped DEF SpawnForStory
    <3>3. CASE SpawnFails
      BY <3>3, SpawnFailsIsTyped
    <3> QED
      BY <1>4, <3>1, <3>2, <3>3 DEF SpawnForStory
  <2> QED
    BY <1>4, <2>1, <2>4 DEF SpawnForStory
<1>5. CASE EndAssigning
  BY <1>5, AtRestIsTyped DEF EndAssigning
<1>6. ASSUME NEW s \in Story, PickStory(s) PROVE Types'
  BY <1>6 DEF PickStory, AssigningType
<1>7. ASSUME NEW a \in Agent, Assign(a) PROVE Types'
  <2>1. story' \in [Story -> StoryType]
    BY <1>7 DEF Assign, StoryType, StoryStatus
  <2>2. agents' \in [Agent -> AgentType]
    <3>1. assigning.current \in Story
      BY <1>7 DEF Assign, AssigningType
    <3>2. [agents[a] EXCEPT !.status = "working", !.story = assigning.current] \in AgentType
      BY <3>1 DEF AgentType
    <3> QED
      BY <1>7, <3>2 DEF Assign, AgentType
  <2>3. assigning.slots - 1 \in Nat
    BY <1>0, <1>7 DEF Assign, PickedIsQueued
  <2>4. assigning' \in AssigningType
    BY <1>7, <2>3 DEF Assign, AssigningType
  <2> QED
    BY <1>7, <2>1, <2>2, <2>4 DEF Assign
<1> QED
  BY <1>1, <1>2, <1>3, <1>4, <1>5, <1>6, <1>7 DEF Assigning

LEMMA GotoIsTyped ==
  ASSUME Types, NEW stage \in Stages, Goto(stage)
  PROVE  manager' \in ManagerType
BY DEF Types, Goto, ManagerType

LEMMA FreshCheckIsTyped ==
  [stage |-> "health", seen |-> {}, ending |-> {}] \in ManagerType
BY DEF ManagerType, Stages

LEMMA BeginIsTyped ==
  ASSUME NEW by \in {"manager", "command"}, Begin(by)
  PROVE  assigning' \in AssigningType /\ assigning'.current = None /\ assigning'.todo = {}
BY DEF Begin, AtRest, AssigningType

\* The steps of the manager's check.
LEMMA CheckIsTyped == Types /\ Check => Types'
<1> SUFFICES ASSUME Types, Check PROVE Types'
  OBVIOUS
<1> USE DEF Types
<1>0. /\ \A s \in Story : story[s] \in StoryType
      /\ \A a \in Agent : agents[a] \in AgentType
  OBVIOUS
<1>1. CASE HealthCheck
  <2> DEFINE revived == {agents[a].story : a \in {b \in Agent : Dead(b)}} \ {None}
             ended == [a \in Agent |-> IF Dead(a) THEN Terminated(agents[a]) ELSE agents[a]]
             requeued == [s \in Story |-> IF s \in revived THEN Requeued(story[s]) ELSE story[s]]
             orphans == Orphans(requeued, ended)
  <2>1. /\ agents' = ended
        /\ story' = [s \in Story |-> IF s \in orphans THEN Requeued(requeued[s]) ELSE requeued[s]]
        /\ Begin("manager") \/ UNCHANGED assigning
        /\ Goto("reconcile")
        /\ UNCHANGED <<alive, open, bounds>>
    BY <1>1 DEF HealthCheck
  <2>2. agents' \in [Agent -> AgentType]
    BY <1>0, <2>1, RowsStayTyped
  <2>3. \A s \in Story : requeued[s] \in StoryType
    BY <1>0, RowsStayTyped
  <2>4. story' \in [Story -> StoryType]
    <3> HIDE DEF requeued, orphans
    <3> QED
      BY <2>1, <2>3, RowsStayTyped
  <2>5. assigning' \in AssigningType
    BY <2>1, BeginIsTyped
  <2>6. manager' \in ManagerType
    BY <2>1, GotoIsTyped DEF Stages
  <2> QED
    BY <2>1, <2>2, <2>4, <2>5, <2>6
<1>2. CASE ReconcileAgentsOnMergedStories
  <2>1. agents' \in [Agent -> AgentType]
    BY <1>2, TurnIsTyped DEF ReconcileAgentsOnMergedStories
  <2>2. manager' \in ManagerType
    BY <1>2, GotoIsTyped DEF ReconcileAgentsOnMergedStories, Stages
  <2> QED
    BY <1>2, <2>1, <2>2 DEF ReconcileAgentsOnMergedStories
<1>3. CASE AutoAssignPlannedStories
  <2>1. assigning' \in AssigningType
    BY <1>3, StartIsTyped DEF AutoAssignPlannedStories
  <2>2. manager' \in ManagerType
    BY <1>3, GotoIsTyped DEF AutoAssignPlannedStories, Stages
  <2> QED
    BY <1>3, <2>1, <2>2 DEF AutoAssignPlannedStories
<1>4. CASE Discover
  <2>1. manager' \in ManagerType
    <3>1. CASE Goto("health")
      BY <3>1, GotoIsTyped DEF Stages
    <3>2. CASE manager' = [manager EXCEPT !.stage = "recover", !.seen = alive]
      BY <3>2 DEF ManagerType, Stages
    <3> QED
      BY <1>4, <3>1, <3>2 DEF Discover
  <2> QED
    BY <1>4, <2>1 DEF Discover
<1>5. CASE RecoverUnassignedQAFailedStories
  <2>1. story' \in [Story -> StoryType]
    BY <1>0, <1>5, RowsStayTyped DEF RecoverUnassignedQAFailedStories
  <2>2. assigning' \in AssigningType
    BY <1>5, BeginIsTyped DEF RecoverUnassignedQAFailedStories
  <2>3. manager' \in ManagerType
    BY <1>5, GotoIsTyped DEF RecoverUnassignedQAFailedStories, Stages
  <2> QED
    BY <1>5, <2>1, <2>2, <2>3 DEF RecoverUnassignedQAFailedStories
<1>6. CASE ReadMerged
  <2> DEFINE mergedOf(a) == {s \in With("merged") : story[s].agent = a}
             movedOn(a, s) == agents[a].story \notin {None, s} \/ HasOtherWork(a, s)
             detached == {s \in With("merged") : /\ story[s].agent # None
                                                 /\ Active(story[s].agent)
                                                 /\ movedOn(story[s].agent, s)}
             ending == {e \in Agent \X Story :
                          Active(e[1]) /\ e[2] \in mergedOf(e[1]) \ detached}
             unused == {<<a, None>> : a \in {b \in Agent :
                          /\ agents[b].status = "working" /\ agents[b].story = None
                          /\ ~HasOtherWork(b, None)}}
             all == ending \cup unused
  <2>1. /\ story' = [s \in Story |->
             IF s \in detached THEN [story[s] EXCEPT !.agent = None] ELSE story[s]]
        /\ manager' = [manager EXCEPT !.ending = all,
             !.stage = IF all = {} THEN "idle" ELSE "mergedKill"]
        /\ UNCHANGED <<agents, alive, open, assigning, bounds>>
    BY <1>6 DEF ReadMerged
  <2>2. all \in SUBSET (Agent \X (Story \cup {None}))
    OBVIOUS
  <2> HIDE DEF detached, all
  <2>3. \A s \in Story : [story[s] EXCEPT !.agent = None] \in StoryType
    BY <1>0 DEF StoryType
  <2>4. story' \in [Story -> StoryType]
    BY <1>0, <2>1, <2>3
  <2>5. manager' \in ManagerType
    BY <2>1, <2>2 DEF ManagerType, Stages
  <2> QED
    BY <2>1, <2>4, <2>5
<1>7. CASE ReadIdle
  <2>1. manager' \in ManagerType
    <3>1. CASE manager' = [stage |-> "health", seen |-> {}, ending |-> {}]
      BY <3>1, FreshCheckIsTyped
    <3>2. ASSUME NEW ending \in SUBSET (Agent \X (Story \cup {None})),
                 manager' = [manager EXCEPT !.ending = ending, !.stage = "idleKill"]
          PROVE  manager' \in ManagerType
      BY <3>2 DEF ManagerType, Stages
    <3> DEFINE ending == {<<a, None>> : a \in {b \in Agent : agents[b].status = "working"}}
    <3>3. ending \in SUBSET (Agent \X (Story \cup {None}))
      OBVIOUS
    <3>4. \/ manager' = [stage |-> "health", seen |-> {}, ending |-> {}]
          \/ manager' = [manager EXCEPT !.ending = ending, !.stage = "idleKill"]
      BY <1>7 DEF ReadIdle
    <3> HIDE DEF ending
    <3> QED
      BY <3>1, <3>2, <3>3, <3>4
  <2> QED
    BY <1>7, <2>1 DEF ReadIdle
<1>8. CASE KillSessions
  <2>1. manager' \in ManagerType
    BY <1>8, GotoIsTyped DEF KillSessions, Stages
  <2> QED
    BY <1>8, <2>1 DEF KillSessions
<1>9. CASE WriteEnded
  <2>1. agents' \in [Agent -> AgentType]
    BY <1>0, <1>9, RowsStayTyped DEF WriteEnded
  <2>2. story' \in [Story -> StoryType]
    <3>1. \A s \in Story : [story[s] EXCEPT !.agent = None] \in StoryType
      BY <1>0 DEF StoryType
    <3> QED
      BY <1>0, <1>9, <3>1 DEF WriteEnded
  <2>3. manager' \in ManagerType
    <3>1. CASE manager' = [stage |-> "health", seen |-> {}, ending |-> {}]
      BY <3>1, FreshCheckIsTyped
    <3>2. CASE manager' = [manager EXCEPT !.ending = {}, !.stage = "idle"]
      BY <3>2 DEF ManagerType, Stages
    <3> QED
      BY <1>9, <3>1, <3>2 DEF WriteEnded
  <2> QED
    BY <1>9, <2>1, <2>2, <2>3 DEF WriteEnded
<1> QED
  BY <1>1, <1>2, <1>3, <1>4, <1>5, <1>6, <1>7, <1>8, <1>9 DEF Check

\* The steps of everyone else.
LEMMA OthersIsTyped == Types /\ Others => Types'
<1> SUFFICES ASSUME Types, Others PROVE Types'
  OBVIOUS
<1> USE DEF Types
<1>1. CASE AssignCommand
  <2>1. assigning' \in AssigningType
    BY <1>1, StartIsTyped DEF AssignCommand
  <2> QED
    BY <1>1, <2>1, UseIsTyped DEF AssignCommand, Bounds
<1>2. CASE AbortCheck
  <2>1. assigning' \in AssigningType
    BY <1>2, AtRestIsTyped DEF AbortCheck
  <2> QED
    BY <1>2, <2>1, UseIsTyped, FreshCheckIsTyped DEF AbortCheck, Bounds
<1>3. CASE AbortCommand
  BY <1>3, UseIsTyped, AtRestIsTyped DEF AbortCommand, Bounds
<1>4. ASSUME NEW session \in alive, SessionDies(session) PROVE Types'
  BY <1>4, UseIsTyped DEF SessionDies, Bounds
<1>5. ASSUME NEW s \in Story, HandOver(s) PROVE Types'
  BY <1>5 DEF HandOver, StoryType, StoryStatus
<1>6. ASSUME NEW s \in Story, Complete(s) PROVE Types'
  BY <1>6 DEF Complete, StoryType, StoryStatus
<1>7. ASSUME NEW s \in Story, Submit(s) PROVE Types'
  BY <1>7 DEF Submit, StoryType, StoryStatus
<1>8. ASSUME NEW s \in Story, Reject(s) PROVE Types'
  <2>1. story' \in [Story -> StoryType]
    BY <1>8 DEF Reject, StoryType, StoryStatus
  <2> QED
    BY <1>8, <2>1, UseIsTyped DEF Reject, Bounds
<1>9. ASSUME NEW s \in Story, RecordMerge(s) PROVE Types'
  <2>1. story' \in [Story -> StoryType]
    BY <1>9 DEF RecordMerge, StoryType, StoryStatus
  <2>2. agents' \in [Agent -> AgentType]
    <3>1. CASE UNCHANGED agents
      BY <3>1
    <3>2. CASE agents' = [agents EXCEPT ![story[s].agent].story = None,
                                        ![story[s].agent].status = "idle"]
      BY <3>2 DEF AgentType
    <3> QED
      BY <1>9, <3>1, <3>2 DEF RecordMerge
  <2> QED
    BY <1>9, <2>1, <2>2 DEF RecordMerge
<1>10. ASSUME NEW s \in Story, SyncMerge(s) PROVE Types'
  <2>1. story' \in [Story -> StoryType]
    BY <1>10 DEF SyncMerge, StoryType, StoryStatus
  <2>2. agents' \in [Agent -> AgentType]
    BY <1>10, TurnIsTyped DEF SyncMerge
  <2> QED
    BY <1>10, <2>1, <2>2 DEF SyncMerge
<1>11. ASSUME NEW s \in Story, ApproveCommand(s) PROVE Types'
  <2>1. story' \in [Story -> StoryType]
    BY <1>11 DEF ApproveCommand, StoryType, StoryStatus
  <2> QED
    BY <1>11, <2>1, UseIsTyped DEF ApproveCommand, Bounds
<1>12. ASSUME NEW s \in Story, NEW a \in Agent, Claim(a, s) PROVE Types'
  <2>1. story' \in [Story -> StoryType]
    BY <1>12 DEF Claim, StoryType, StoryStatus
  <2> QED
    BY <1>12, <2>1, UseIsTyped DEF Claim, Bounds
<1> QED
  BY <1>1, <1>2, <1>3, <1>4, <1>5, <1>6, <1>7, <1>8, <1>9, <1>10, <1>11, <1>12
     DEF Others, MergeStory

-----------------------------------------------------------------------------
(* What a step may do to the rows without disturbing the invariant. *)

LEMMA NoneIsNobody == None \notin Agent /\ None \notin Story
BY AssignmentAssumption DEF Agent

\* Agents may end, be created or be left without a story; a story may change
\* its agent once it is merged or when nobody in force holds it.
LEMMA RowsHold ==
  ASSUME Types, Types', Pairing, NoSharing, HoldersWork,
         \A a \in Agent : \/ agents'[a] = agents[a]
                          \/ agents'[a].status \notin {"idle", "working"}
                          \/ agents'[a].story = None,
         \A s \in Story :
           \/ /\ story'[s].agent = story[s].agent
              /\ story[s].status # "merged" \/ story'[s].status = "merged"
           \/ story'[s].agent = None /\ story'[s].status = "merged"
           \/ \A a \in Agent : agents'[a] = agents[a] /\ Active(a) => agents[a].story # s
  PROVE  Pairing' /\ NoSharing' /\ HoldersWork'
<1> DEFINE holds(a) == agents'[a] = agents[a] /\ Active(a) /\ agents[a].story # None
<1>1. \A a \in Agent : Active(a)' /\ agents'[a].story # None => holds(a)
  BY DEF Active
<1>2. Pairing'
  <2>1. SUFFICES ASSUME NEW a \in Agent, holds(a)
                 PROVE  LET s == agents[a].story IN
                          \/ story'[s].agent = a
                          \/ story'[s].status = "merged" /\ story'[s].agent = None
    BY <1>1 DEF Pairing
  <2>2. agents[a].story \in Story
    BY <2>1 DEF Types, AgentType
  <2> QED
    BY <2>1, <2>2 DEF Pairing
<1>3. NoSharing'
  BY <1>1 DEF NoSharing
<1>4. HoldersWork'
  BY <1>1 DEF HoldersWork
<1> QED
  BY <1>2, <1>3, <1>4

\* The same with all agents left alone.
LEMMA StoriesChange ==
  ASSUME Types, Types', Pairing, NoSharing, HoldersWork, UNCHANGED agents,
         \A s \in Story :
           \/ /\ story'[s].agent = story[s].agent
              /\ story[s].status # "merged" \/ story'[s].status = "merged"
           \/ story'[s].agent = None /\ story'[s].status = "merged"
           \/ \A a \in Agent : Active(a) => agents[a].story # s
  PROVE  Pairing' /\ NoSharing' /\ HoldersWork'
BY RowsHold

\* Agents turned from a merged story take their own stories only.
LEMMA TurnedRowsHold ==
  ASSUME Types, Types', NoSharing, HoldersWork, NEW merged, TurnAgentsFrom(merged, story'),
         \A a \in Agent : Active(a) /\ agents[a].story # None =>
           \/ story'[agents[a].story].agent = a
           \/ story'[agents[a].story].status = "merged" /\ story'[agents[a].story].agent = None
  PROVE  Pairing' /\ NoSharing' /\ HoldersWork'
<1> DEFINE stale == {a \in Agent : Active(a) /\ agents[a].story \in merged}
<1>1. PICK next \in [stale -> Story \cup {None}] :
        /\ \A a \in stale : next[a] \in NextFor(a, story')
        /\ agents' = [a \in Agent |->
             IF a \in stale THEN Turned(agents[a], next[a]) ELSE agents[a]]
  BY DEF TurnAgentsFrom
<1>2. \A a \in stale : next[a] = None \/ (/\ next[a] \in Story
                                          /\ story'[next[a]].agent = a
                                          /\ story'[next[a]].status # "merged")
  BY <1>1 DEF NextFor
<1>3. \A a \in stale : /\ agents'[a].story = next[a]
                       /\ next[a] # None => agents'[a].status = "working"
  <2>1. \A row \in AgentType : \A s :
          /\ Turned(row, s).story = s
          /\ s # None => Turned(row, s).status = "working"
    BY DEF Turned, AgentType
  <2>2. \A a \in stale : agents'[a] = Turned(agents[a], next[a]) /\ agents[a] \in AgentType
    BY <1>1 DEF Types
  <2> QED
    BY <2>1, <2>2
<1>4. \A a \in Agent \ stale : agents'[a] = agents[a]
  BY <1>1
<1> HIDE DEF stale
<1>5. Pairing'
  BY <1>2, <1>3, <1>4 DEF Pairing, Active
<1>6. HoldersWork'
  BY <1>3, <1>4 DEF HoldersWork, Active
<1>7. NoSharing'
  <2> SUFFICES ASSUME NEW a \in Agent, NEW b \in Agent, Active(a)', Active(b)',
                      agents'[a].story # None, agents'[a].story = agents'[b].story
               PROVE  a = b
    BY DEF NoSharing
  <2>1. CASE a \in stale /\ b \in stale
    BY <1>2, <1>3, <2>1
  <2>2. CASE a \in stale /\ b \notin stale
    BY <1>2, <1>3, <1>4, <2>2 DEF Active
  <2>3. CASE a \notin stale /\ b \in stale
    BY <1>2, <1>3, <1>4, <2>3 DEF Active
  <2>4. CASE a \notin stale /\ b \notin stale
    BY <1>4, <2>4 DEF NoSharing, Active
  <2> QED
    BY <2>1, <2>2, <2>3, <2>4
<1> QED
  BY <1>5, <1>6, <1>7

\* Outside of an assignment, nothing is picked; a new one starts with nothing.
LEMMA NothingIsPicked ==
  ASSUME PickedIsQueued, Unlocked
  PROVE  /\ assigning.todo = {} /\ assigning.current = None
         /\ UNCHANGED assigning => PickedIsQueued'
BY DEF PickedIsQueued, Unlocked

LEMMA FreshPicksNothing ==
  ASSUME assigning'.todo = {}, assigning'.current = None
  PROVE  PickedIsQueued'
BY DEF PickedIsQueued

LEMMA AtRestPicksNothing == AtRest.todo = {} /\ AtRest.current = None
BY DEF AtRest

\* Merged stories that stay merged keep the reasons of the agents to be ended.
LEMMA EndingHolds ==
  ASSUME Types, EndingIsMerged, UNCHANGED manager,
         \A s \in Story : story[s].status = "merged" => story'[s].status = "merged"
  PROVE  EndingIsMerged'
<1>1. \A e \in manager.ending : e[2] \in Story \cup {None}
  BY DEF Types, ManagerType
<1> QED
  BY <1>1 DEF EndingIsMerged

\* Outside of a spin-down nobody is to be ended.
LEMMA NobodyEnds ==
  ASSUME Types, EndingIsMerged,
         manager.stage \notin {"mergedKill", "mergedWrite", "idleKill", "idleWrite"}
  PROVE  /\ manager.ending = {}
         /\ \A stage : Goto(stage) => EndingIsMerged'
<1>1. manager.ending = {}
  BY DEF EndingIsMerged
<1>2. ASSUME NEW stage, Goto(stage) PROVE manager'.ending = {}
  BY <1>1, <1>2 DEF Goto, Types, ManagerType
<1> QED
  BY <1>1, <1>2 DEF EndingIsMerged

\* Stories that are left alone, with open pull requests.
LEMMA SameStories ==
  ASSUME MergedAreClosed, QueuedAreNobodys, UNCHANGED <<story, open>>
  PROVE  MergedAreClosed' /\ QueuedAreNobodys'
BY DEF MergedAreClosed, QueuedAreNobodys

-----------------------------------------------------------------------------
(* Each step preserves the invariant. *)

Rest ==
  /\ Pairing /\ NoSharing /\ HoldersWork /\ MergedAreClosed
  /\ QueuedAreNobodys /\ PickedIsQueued /\ EndingIsMerged

\* A new agent, or none, while stories and the manager are left alone.
LEMMA SpawnKeepsRest ==
  ASSUME Types, Types', Rest, UNCHANGED <<story, open, manager>>,
         UNCHANGED agents \/ \E level, index : Spawn(level, index)
  PROVE  Pairing' /\ NoSharing' /\ HoldersWork' /\ MergedAreClosed'
         /\ QueuedAreNobodys' /\ EndingIsMerged'
<1>1. \A a \in Agent : agents'[a] = agents[a] \/ agents'[a].story = None
  BY DEF Spawn, Types
<1>2. Pairing' /\ NoSharing' /\ HoldersWork'
  BY <1>1, RowsHold DEF Rest
<1> QED
  BY <1>2, SameStories, EndingHolds DEF Rest

LEMMA AssigningKeepsRest ==
  ASSUME Types, Types', Rest, Assigning
  PROVE  Rest'
<1> USE DEF Rest
<1>0. assigning \in AssigningType /\ assigning.todo \subseteq Story
  BY DEF Types, AssigningType
<1>1. CASE ScaleUp
  <2>1. UNCHANGED agents \/ \E level, index : Spawn(level, index)
    BY <1>1 DEF ScaleUp, SpawnFails
  <2>2. PickedIsQueued'
    <3>1. assigning.current = None
      BY <1>1 DEF ScaleUp, PickedIsQueued
    <3>2. assigning'.todo = assigning.todo /\ assigning'.current = None
          /\ assigning'.phase # "rest"
      BY <1>0, <1>1, <3>1 DEF ScaleUp, AssigningType
    <3> QED
      BY <1>1, <3>1, <3>2 DEF PickedIsQueued, ScaleUp
  <2> QED
    BY <1>1, <2>1, <2>2, SpawnKeepsRest DEF ScaleUp
<1>2. CASE BeginAssigning
  <2>1. assigning.current = None
    BY <1>2 DEF BeginAssigning, PickedIsQueued
  <2>2. PICK slots, next :
          \/ assigning' = AtRest
          \/ assigning' = [assigning EXCEPT !.phase = "senior", !.todo = With("planned"),
                                            !.slots = slots, !.next = next]
    BY <1>2 DEF BeginAssigning
  <2>3. CASE assigning' = AtRest
    BY <1>2, <2>3, AtRestPicksNothing, FreshPicksNothing, SpawnKeepsRest DEF BeginAssigning
  <2>4. CASE assigning' # AtRest
    <3>1. /\ assigning'.todo = With("planned") /\ assigning'.current = None
          /\ assigning'.phase = "senior"
      BY <1>0, <2>1, <2>2, <2>4 DEF AssigningType
    <3>2. PickedIsQueued'
      <4>1. \A s \in With("planned") : s # None /\ story'[s].status = "planned"
        BY <1>2, NoneIsNobody DEF With, BeginAssigning
      <4> QED
        BY <3>1, <4>1 DEF PickedIsQueued
    <3> QED
      BY <1>2, <3>2, SpawnKeepsRest DEF BeginAssigning
  <2> QED
    BY <2>3, <2>4
<1>3. CASE EnsureSenior
  <2>1. UNCHANGED agents \/ \E level, index : Spawn(level, index)
    BY <1>3 DEF EnsureSenior, SpawnFails
  <2>2. PickedIsQueued'
    <3>1. assigning.current = None
      BY <1>3 DEF EnsureSenior, PickedIsQueued
    <3>2. CASE assigning' = AtRest
      BY <3>2, AtRestPicksNothing, FreshPicksNothing
    <3>3. CASE assigning' # AtRest
      <4>1. assigning'.todo = assigning.todo /\ assigning'.current = None
            /\ assigning'.phase = "stories"
        BY <1>0, <1>3, <3>1, <3>3 DEF EnsureSenior, AssigningType
      <4> QED
        BY <1>3, <3>1, <4>1 DEF PickedIsQueued, EnsureSenior
    <3> QED
      BY <3>2, <3>3
  <2> QED
    BY <1>3, <2>1, <2>2, SpawnKeepsRest DEF EnsureSenior
<1>4. CASE SpawnForStory
  <2>1. UNCHANGED agents \/ \E level, index : Spawn(level, index)
    BY <1>4 DEF SpawnForStory, SpawnFails
  <2>2. /\ assigning'.todo = assigning.todo /\ assigning'.phase = "stories"
        /\ assigning'.current \in {None, assigning.current}
        /\ assigning'.slots = assigning.slots
    BY <1>0, <1>4 DEF SpawnForStory, AssigningType
  <2>3. PickedIsQueued'
    <3>1. None \notin assigning.todo
      BY <1>0, NoneIsNobody
    <3> QED
      BY <1>4, <2>2, <3>1 DEF PickedIsQueued, SpawnForStory
  <2> QED
    BY <1>4, <2>1, <2>3, SpawnKeepsRest DEF SpawnForStory
<1>5. CASE EndAssigning
  BY <1>5, AtRestPicksNothing, FreshPicksNothing, SpawnKeepsRest DEF EndAssigning
<1>6. ASSUME NEW s \in Story, PickStory(s) PROVE Rest'
  <2>1. /\ assigning'.todo = assigning.todo \ {s}
        /\ assigning'.current \in {s, None}
        /\ assigning'.phase = "stories" /\ assigning'.slots = assigning.slots
    BY <1>0, <1>6 DEF PickStory, AssigningType
  <2>2. PickedIsQueued'
    <3>1. None \notin assigning.todo /\ assigning.slots > 0 /\ s \in assigning.todo
      BY <1>0, <1>6, NoneIsNobody DEF PickStory, SlotLeft
    <3> QED
      BY <1>6, <2>1, <3>1 DEF PickedIsQueued, PickStory
  <2> QED
    BY <1>6, <2>2, SpawnKeepsRest DEF PickStory
<1>7. ASSUME NEW a \in Agent, Assign(a) PROVE Rest'
  <2> DEFINE s == assigning.current
  <2>1. s \in Story /\ story[s].status = "planned" /\ story[s].agent = None
    BY <1>0, <1>7 DEF Assign, AssigningType, PickedIsQueued, QueuedAreNobodys
  <2>2. /\ agents'[a].story = s /\ agents'[a].status = "working"
        /\ \A b \in Agent \ {a} : agents'[b] = agents[b]
    BY <1>7 DEF Assign, Types, AgentType
  <2>3. /\ story'[s] = [status |-> "in_progress", agent |-> a]
        /\ \A t \in Story \ {s} : story'[t] = story[t]
    BY <1>7, <2>1 DEF Assign, Types
  <2>4. a # None
    BY NoneIsNobody
  <2>5. \A b \in Agent : Active(b) => agents[b].story # s
    BY <2>1, NoneIsNobody DEF Pairing
  <2>6. Pairing'
    <3>1. SUFFICES ASSUME NEW b \in Agent, Active(b)', agents'[b].story # None
                   PROVE  \/ story'[agents'[b].story].agent = b
                          \/ /\ story'[agents'[b].story].status = "merged"
                             /\ story'[agents'[b].story].agent = None
      BY DEF Pairing
    <3>2. CASE b = a
      BY <2>2, <2>3, <3>2
    <3>3. CASE b # a
      <4>1. agents'[b] = agents[b] /\ Active(b) /\ agents[b].story \in Story \ {s}
        BY <2>2, <2>5, <3>1, <3>3 DEF Active, Types, AgentType
      <4> QED
        BY <2>3, <3>1, <4>1 DEF Pairing
    <3> QED
      BY <3>2, <3>3
  <2>7. NoSharing'
    BY <2>2, <2>5 DEF NoSharing, Active
  <2>8. HoldersWork'
    BY <2>2 DEF HoldersWork, Active
  <2>9. MergedAreClosed'
    BY <1>7, <2>3 DEF Assign, MergedAreClosed, Types
  <2>10. QueuedAreNobodys'
    BY <2>3 DEF QueuedAreNobodys
  <2>11. PickedIsQueued'
    <3>1. /\ assigning'.todo = assigning.todo /\ assigning'.current = None
          /\ assigning'.phase = "stories"
      BY <1>0, <1>7 DEF Assign, AssigningType
    <3>2. \A t \in assigning.todo : t \in Story \ {s} /\ t # None
      BY <1>0, NoneIsNobody DEF PickedIsQueued
    <3> QED
      BY <2>3, <3>1, <3>2 DEF PickedIsQueued
  <2>12. EndingIsMerged'
    BY <1>7, <2>1, <2>3, EndingHolds DEF Assign
  <2> QED
    BY <2>6, <2>7, <2>8, <2>9, <2>10, <2>11, <2>12
<1> QED
  BY <1>1, <1>2, <1>3, <1>4, <1>5, <1>6, <1>7 DEF Assigning

\* A health check takes no story from an agent in force that holds it.
LEMMA HealthCheckSpares ==
  ASSUME Types, Pairing, NoSharing, HoldersWork, HealthCheck,
         NEW a \in Agent, Active(a), ~Dead(a), agents[a].story # None
  PROVE  story'[agents[a].story] = story[agents[a].story]
<1> DEFINE revived == {agents[b].story : b \in {c \in Agent : Dead(c)}} \ {None}
           ended == [b \in Agent |-> IF Dead(b) THEN Terminated(agents[b]) ELSE agents[b]]
           requeued == [t \in Story |-> IF t \in revived THEN Requeued(story[t]) ELSE story[t]]
           orphans == Orphans(requeued, ended)
           s == agents[a].story
<1>1. story' = [t \in Story |-> IF t \in orphans THEN Requeued(requeued[t]) ELSE requeued[t]]
  BY DEF HealthCheck
<1>2. s \in Story
  BY DEF Types, AgentType
<1>3. s \notin revived
  BY DEF Dead, NoSharing
<1>4. requeued[s] = story[s]
  BY <1>2, <1>3
<1>5. ended[a] = agents[a]
  OBVIOUS
<1>6. s \notin orphans
  <2>1. \/ requeued[s].agent = a
        \/ requeued[s].status = "merged" /\ requeued[s].agent = None
    BY <1>4 DEF Pairing
  <2>2. ended[a].status = "working" /\ ended[a].story = s
    BY <1>5 DEF HoldersWork
  <2>3. a # None
    BY NoneIsNobody
  <2> HIDE DEF requeued, ended, s
  <2> QED
    BY <2>1, <2>2, <2>3 DEF Orphans
<1> HIDE DEF orphans, requeued
<1> QED
  BY <1>1, <1>2, <1>4, <1>6

LEMMA HealthCheckKeepsRest ==
  ASSUME Types, Types', Rest, HealthCheck
  PROVE  Rest'
<1> USE DEF Rest
<1> DEFINE revived == {agents[b].story : b \in {c \in Agent : Dead(c)}} \ {None}
           ended == [b \in Agent |-> IF Dead(b) THEN Terminated(agents[b]) ELSE agents[b]]
           requeued == [t \in Story |-> IF t \in revived THEN Requeued(story[t]) ELSE story[t]]
           orphans == Orphans(requeued, ended)
<1>0. /\ agents' = ended
      /\ story' = [t \in Story |-> IF t \in orphans THEN Requeued(requeued[t]) ELSE requeued[t]]
      /\ Begin("manager") \/ UNCHANGED assigning
      /\ At("health") /\ Unlocked /\ Goto("reconcile")
      /\ UNCHANGED <<alive, open, bounds>>
  BY DEF HealthCheck
<1>1. \A s \in Story : \/ story'[s] = story[s]
                       \/ story'[s].status = "planned" /\ story'[s].agent = None
  <2>1. \A row \in StoryType : Requeued(row).status = "planned" /\ Requeued(row).agent = None
    BY DEF Requeued, StoryType
  <2>2. \A s \in Story : requeued[s] \in StoryType
    BY RowsStayTyped DEF Types
  <2>3. \A s \in Story : requeued[s] = story[s] \/ requeued[s] = Requeued(story[s])
    OBVIOUS
  <2>4. \A s \in Story : story[s] \in StoryType
    BY DEF Types
  <2> HIDE DEF requeued, orphans
  <2> QED
    BY <1>0, <2>1, <2>2, <2>3, <2>4
<1>2. \A a \in Agent : \/ agents'[a] = agents[a] /\ ~Dead(a)
                       \/ agents'[a].status = "terminated"
  BY <1>0 DEF Terminated, Types, AgentType
<1>3. Pairing' /\ NoSharing' /\ HoldersWork'
  <2>1. \A a \in Agent : Active(a)' => agents'[a] = agents[a] /\ ~Dead(a) /\ Active(a)
    BY <1>2 DEF Active
  <2>2. \A a \in Agent : Active(a)' /\ agents[a].story # None =>
          story'[agents[a].story] = story[agents[a].story]
    BY <2>1, HealthCheckSpares
  <2>3. Pairing'
    BY <2>1, <2>2 DEF Pairing
  <2>4. NoSharing'
    BY <2>1 DEF NoSharing
  <2>5. HoldersWork'
    BY <2>1 DEF HoldersWork
  <2> QED
    BY <2>3, <2>4, <2>5
<1>4. MergedAreClosed'
  BY <1>0, <1>1 DEF MergedAreClosed, Types
<1>5. QueuedAreNobodys'
  BY <1>1 DEF QueuedAreNobodys
<1>6. PickedIsQueued'
  BY <1>0, BeginIsTyped, FreshPicksNothing, NothingIsPicked
<1>7. EndingIsMerged'
  BY <1>0, NobodyEnds DEF At
<1> QED
  BY <1>3, <1>4, <1>5, <1>6, <1>7

LEMMA SpinDownKeepsRest ==
  ASSUME Types, Types', Rest, ReadMerged \/ ReadIdle \/ KillSessions \/ WriteEnded
  PROVE  Rest'
<1> USE DEF Rest
<1>1. CASE ReadMerged
  <2>1. \A s \in Story :
          \/ story'[s] = story[s]
          \/ /\ story[s].status = "merged"
             /\ story'[s].status = "merged" /\ story'[s].agent = None
    <3>1. \A s \in Story : \/ story'[s] = story[s]
                           \/ /\ story[s].status = "merged"
                              /\ story'[s] = [story[s] EXCEPT !.agent = None]
      BY <1>1 DEF ReadMerged, With
    <3> QED
      BY <3>1 DEF Types, StoryType
  <2>2. Pairing' /\ NoSharing' /\ HoldersWork'
    BY <1>1, <2>1, StoriesChange DEF ReadMerged
  <2>3. MergedAreClosed'
    BY <1>1, <2>1 DEF ReadMerged, MergedAreClosed, Types
  <2>4. QueuedAreNobodys'
    BY <2>1 DEF QueuedAreNobodys
  <2>5. PickedIsQueued'
    <3>1. UNCHANGED assigning /\ Unlocked
      BY <1>1 DEF ReadMerged
    <3> QED
      BY <3>1, NothingIsPicked
  <2>6. EndingIsMerged'
    <3> DEFINE mergedOf(a) == {s \in With("merged") : story[s].agent = a}
               movedOn(a, s) == agents[a].story \notin {None, s} \/ HasOtherWork(a, s)
               detached == {s \in With("merged") : /\ story[s].agent # None
                                                   /\ Active(story[s].agent)
                                                   /\ movedOn(story[s].agent, s)}
               ending == {e \in Agent \X Story :
                            Active(e[1]) /\ e[2] \in mergedOf(e[1]) \ detached}
               unused == {<<a, None>> : a \in {b \in Agent :
                            /\ agents[b].status = "working" /\ agents[b].story = None
                            /\ ~HasOtherWork(b, None)}}
               all == ending \cup unused
    <3>1. manager' = [manager EXCEPT !.ending = all,
                        !.stage = IF all = {} THEN "idle" ELSE "mergedKill"]
      BY <1>1 DEF ReadMerged
    <3>2. \A e \in all : e[2] # None => e[2] \in Story /\ story[e[2]].status = "merged"
      BY DEF With
    <3> HIDE DEF all
    <3>3. manager'.ending = all /\ (all # {} => manager'.stage = "mergedKill")
      BY <3>1 DEF Types, ManagerType
    <3>4. \A e \in all : e[2] # None => story'[e[2]].status = "merged"
      BY <2>1, <3>2
    <3> QED
      BY <3>3, <3>4 DEF EndingIsMerged
  <2> QED
    BY <2>2, <2>3, <2>4, <2>5, <2>6
<1>2. CASE ReadIdle
  <2>1. UNCHANGED <<story, agents, open, assigning>> /\ Unlocked
    BY <1>2 DEF ReadIdle
  <2>2. Pairing' /\ NoSharing' /\ HoldersWork'
    BY <2>1, StoriesChange
  <2>3. PickedIsQueued'
    BY <2>1, NothingIsPicked
  <2>4. EndingIsMerged'
    <3> DEFINE ending == {<<a, None>> : a \in {b \in Agent : agents[b].status = "working"}}
    <3>1. \/ manager' = [stage |-> "health", seen |-> {}, ending |-> {}]
          \/ manager' = [manager EXCEPT !.ending = ending, !.stage = "idleKill"]
      BY <1>2 DEF ReadIdle
    <3>2. \A e \in ending : e[2] = None
      OBVIOUS
    <3> HIDE DEF ending
    <3>3. \/ manager'.ending = {}
          \/ manager'.ending = ending /\ manager'.stage = "idleKill"
      <4>1. CASE manager' = [stage |-> "health", seen |-> {}, ending |-> {}]
        BY <4>1
      <4>2. CASE manager' = [manager EXCEPT !.ending = ending, !.stage = "idleKill"]
        BY <4>2 DEF Types, ManagerType
      <4> QED
        BY <3>1, <4>1, <4>2
    <3> QED
      BY <3>2, <3>3 DEF EndingIsMerged
  <2> QED
    BY <2>1, <2>2, <2>3, <2>4, SameStories
<1>3. CASE KillSessions
  <2>1. UNCHANGED <<story, agents, open, assigning>>
    BY <1>3 DEF KillSessions
  <2>2. Pairing' /\ NoSharing' /\ HoldersWork'
    BY <2>1, StoriesChange
  <2>3. PickedIsQueued'
    BY <2>1 DEF PickedIsQueued
  <2>4. EndingIsMerged'
    <3>1. manager'.ending = manager.ending /\ manager'.stage \in {"mergedWrite", "idleWrite"}
      BY <1>3 DEF KillSessions, Goto, Types, ManagerType
    <3> QED
      BY <2>1, <3>1 DEF EndingIsMerged
  <2> QED
    BY <2>1, <2>2, <2>3, <2>4, SameStories
<1>4. CASE WriteEnded
  <2>1. \A s \in Story :
          \/ story'[s] = story[s]
          \/ /\ story[s].status = "merged"
             /\ story'[s].status = "merged" /\ story'[s].agent = None
    <3>1. \A s \in Story : \/ story'[s] = story[s]
                           \/ /\ s \in {e[2] : e \in manager.ending}
                              /\ story'[s] = [story[s] EXCEPT !.agent = None]
      BY <1>4 DEF WriteEnded
    <3>2. \A s \in Story : s \in {e[2] : e \in manager.ending} => story[s].status = "merged"
      BY NoneIsNobody DEF EndingIsMerged
    <3> QED
      BY <3>1, <3>2 DEF Types, StoryType
  <2>2. \A a \in Agent : agents'[a] = agents[a] \/ agents'[a].status = "terminated"
    BY <1>4 DEF WriteEnded, Terminated, Types, AgentType
  <2>3. Pairing' /\ NoSharing' /\ HoldersWork'
    BY <2>1, <2>2, RowsHold
  <2>4. MergedAreClosed'
    BY <1>4, <2>1 DEF WriteEnded, MergedAreClosed, Types
  <2>5. QueuedAreNobodys'
    BY <2>1 DEF QueuedAreNobodys
  <2>6. PickedIsQueued'
    <3>1. UNCHANGED assigning /\ Unlocked
      BY <1>4 DEF WriteEnded
    <3> QED
      BY <3>1, NothingIsPicked
  <2>7. EndingIsMerged'
    <3>1. manager'.ending = {}
      BY <1>4 DEF WriteEnded, Types, ManagerType
    <3> QED
      BY <3>1 DEF EndingIsMerged
  <2> QED
    BY <2>3, <2>4, <2>5, <2>6, <2>7
<1> QED
  BY <1>1, <1>2, <1>3, <1>4

LEMMA CheckKeepsRest ==
  ASSUME Types, Types', Rest, Check
  PROVE  Rest'
<1> USE DEF Rest
<1>1. CASE HealthCheck
  BY <1>1, HealthCheckKeepsRest
<1>2. CASE ReconcileAgentsOnMergedStories
  <2>1. /\ Unlocked /\ UNCHANGED <<story, open, assigning>> /\ At("reconcile")
        /\ TurnAgentsFrom(With("merged"), story') /\ Goto("auto")
    BY <1>2 DEF ReconcileAgentsOnMergedStories
  <2>2. \A a \in Agent : Active(a) /\ agents[a].story # None =>
           \/ story'[agents[a].story].agent = a
           \/ story'[agents[a].story].status = "merged" /\ story'[agents[a].story].agent = None
    BY <2>1 DEF Pairing
  <2>3. Pairing' /\ NoSharing' /\ HoldersWork'
    BY <2>1, <2>2, TurnedRowsHold
  <2>4. PickedIsQueued'
    BY <2>1, NothingIsPicked
  <2>5. EndingIsMerged'
    BY <2>1, NobodyEnds DEF At
  <2> QED
    BY <2>1, <2>3, <2>4, <2>5, SameStories
<1>3. CASE AutoAssignPlannedStories
  <2>1. /\ Unlocked /\ UNCHANGED <<story, agents, open>> /\ At("auto")
        /\ Start("manager") \/ UNCHANGED assigning
        /\ Goto("discover")
    BY <1>3 DEF AutoAssignPlannedStories
  <2>2. Pairing' /\ NoSharing' /\ HoldersWork'
    BY <2>1, StoriesChange
  <2>3. PickedIsQueued'
    BY <2>1, StartIsTyped, FreshPicksNothing, NothingIsPicked
  <2>4. EndingIsMerged'
    BY <2>1, NobodyEnds DEF At
  <2> QED
    BY <2>1, <2>2, <2>3, <2>4, SameStories
<1>4. CASE Discover
  <2>1. Unlocked /\ UNCHANGED <<story, agents, open, assigning>> /\ At("discover")
    BY <1>4 DEF Discover
  <2>2. Pairing' /\ NoSharing' /\ HoldersWork'
    BY <2>1, StoriesChange
  <2>3. PickedIsQueued'
    BY <2>1, NothingIsPicked
  <2>4. EndingIsMerged'
    <3>1. manager.ending = {}
      BY <2>1, NobodyEnds DEF At
    <3>2. manager'.ending = {}
      BY <1>4, <3>1 DEF Discover, Goto, Types, ManagerType
    <3> QED
      BY <3>2 DEF EndingIsMerged
  <2> QED
    BY <2>1, <2>2, <2>3, <2>4, SameStories
<1>5. CASE RecoverUnassignedQAFailedStories
  <2>1. /\ Unlocked /\ UNCHANGED <<agents, open>> /\ At("recover")
        /\ story' = [s \in Story |-> IF s \in Lost THEN Requeued(story[s]) ELSE story[s]]
        /\ Begin("manager") \/ UNCHANGED assigning
        /\ Goto("merged")
    BY <1>5 DEF RecoverUnassignedQAFailedStories
  <2>2. \A s \in Story :
          \/ story'[s] = story[s]
          \/ /\ story[s].status = "qa_failed" /\ story[s].agent = None
             /\ story'[s].status = "planned" /\ story'[s].agent = None
    BY <2>1 DEF Lost, With, Requeued, Types, StoryType
  <2>3. Pairing' /\ NoSharing' /\ HoldersWork'
    BY <2>1, <2>2, StoriesChange
  <2>4. MergedAreClosed'
    BY <2>1, <2>2 DEF MergedAreClosed, Types
  <2>5. QueuedAreNobodys'
    BY <2>2 DEF QueuedAreNobodys
  <2>6. PickedIsQueued'
    <3>1. CASE Begin("manager")
      BY <3>1, BeginIsTyped, FreshPicksNothing
    <3>2. CASE UNCHANGED assigning
      BY <2>1, <3>2, NothingIsPicked
    <3> QED
      BY <2>1, <3>1, <3>2
  <2>7. EndingIsMerged'
    BY <2>1, NobodyEnds DEF At
  <2> QED
    BY <2>3, <2>4, <2>5, <2>6, <2>7
<1> QED
  BY <1>1, <1>2, <1>3, <1>4, <1>5, SpinDownKeepsRest DEF Check

\* A step on story s alone, with agents and the manager left alone; the story
\* was not merged, or is merged on.
LEMMA OneStoryChanges ==
  ASSUME Types, Types', Rest, NEW s \in Story,
         UNCHANGED <<agents, manager, assigning>>, Unlocked,
         \A t \in Story \ {s} : story'[t] = story[t],
         story[s].status # "merged" \/ story'[s].status = "merged",
         \/ story'[s].agent = story[s].agent
         \/ story[s].agent = None /\ story[s].status # "merged",
         story'[s].status \notin {"planned", "estimated"} \/ story'[s].agent = None,
         open' \subseteq open \cup {s},
         s \in open' => story'[s].status # "merged"
  PROVE  Rest'
<1> USE DEF Rest
<1>1. \A t \in Story :
        \/ /\ story'[t].agent = story[t].agent
           /\ story[t].status # "merged" \/ story'[t].status = "merged"
        \/ \A a \in Agent : Active(a) => agents[a].story # t
  BY NoneIsNobody DEF Pairing
<1>2. Pairing' /\ NoSharing' /\ HoldersWork'
  BY <1>1, StoriesChange
<1>3. MergedAreClosed'
  <2>1. \A t \in open' \ {s} : t \in open /\ t \in Story \ {s}
    BY DEF Types
  <2> QED
    BY <2>1 DEF MergedAreClosed
<1>4. QueuedAreNobodys'
  BY DEF QueuedAreNobodys
<1>5. PickedIsQueued'
  BY NothingIsPicked
<1>6. EndingIsMerged'
  BY EndingHolds
<1> QED
  BY <1>2, <1>3, <1>4, <1>5, <1>6

\* A step that leaves stories, agents and pull requests alone.
LEMMA RowsAloneKeepRest ==
  ASSUME Types, Types', Rest, UNCHANGED <<story, agents, open>>,
         \/ UNCHANGED assigning
         \/ assigning'.todo = {} /\ assigning'.current = None,
         UNCHANGED manager \/ manager'.ending = {}
  PROVE  Rest'
<1> USE DEF Rest
<1>1. Pairing' /\ NoSharing' /\ HoldersWork'
  BY StoriesChange
<1>2. PickedIsQueued'
  BY DEF PickedIsQueued
<1>3. EndingIsMerged'
  BY DEF EndingIsMerged
<1> QED
  BY <1>1, <1>2, <1>3, SameStories

LEMMA MergesKeepRest ==
  ASSUME Types, Types', Rest, NEW s \in Story, RecordMerge(s) \/ SyncMerge(s)
  PROVE  Rest'
<1> USE DEF Rest
<1>0. /\ Unlocked /\ s \in open /\ open' = open \ {s}
      /\ UNCHANGED <<manager, assigning>>
      /\ story[s].status # "merged"
  BY DEF RecordMerge, SyncMerge, MergedAreClosed
<1>1. /\ story'[s].status = "merged"
      /\ story'[s].agent = None \/ story'[s].agent = story[s].agent
      /\ \A t \in Story \ {s} : story'[t] = story[t]
  BY DEF RecordMerge, SyncMerge, Types, StoryType
<1>2. MergedAreClosed'
  BY <1>0, <1>1 DEF MergedAreClosed, Types
<1>3. QueuedAreNobodys'
  BY <1>1 DEF QueuedAreNobodys
<1>4. PickedIsQueued'
  BY <1>0, NothingIsPicked
<1>5. EndingIsMerged'
  BY <1>0, <1>1, EndingHolds
<1>6. Pairing' /\ NoSharing' /\ HoldersWork'
  <2>1. CASE RecordMerge(s)
    <3> DEFINE b == story[s].agent
    <3>1. story'[s].agent = b
      BY <2>1 DEF RecordMerge, Types, StoryType
    <3>2. \A a \in Agent : agents'[a] = agents[a] \/ agents'[a].story = None
      <4>1. CASE UNCHANGED agents
        BY <4>1
      <4>2. CASE agents' = [agents EXCEPT ![b].story = None, ![b].status = "idle"]
        BY <4>2 DEF Types, AgentType
      <4> QED
        BY <2>1, <4>1, <4>2 DEF RecordMerge
    <3> QED
      BY <1>0, <1>1, <3>1, <3>2, RowsHold
  <2>2. CASE SyncMerge(s)
    <3>1. story' = [story EXCEPT ![s] = [status |-> "merged", agent |-> None]]
          /\ TurnAgentsFrom({s}, story')
      BY <2>2 DEF SyncMerge
    <3>2. story'[s].agent = None
      BY <3>1 DEF Types
    <3>3. \A a \in Agent : Active(a) /\ agents[a].story # None =>
            \/ story'[agents[a].story].agent = a
            \/ story'[agents[a].story].status = "merged" /\ story'[agents[a].story].agent = None
      <4> SUFFICES ASSUME NEW a \in Agent, Active(a), agents[a].story # None
                   PROVE  \/ story'[agents[a].story].agent = a
                          \/ /\ story'[agents[a].story].status = "merged"
                             /\ story'[agents[a].story].agent = None
        OBVIOUS
      <4>1. agents[a].story \in Story
        BY DEF Types, AgentType
      <4> QED
        BY <1>1, <3>2, <4>1 DEF Pairing
    <3> QED
      BY <3>1, <3>3, TurnedRowsHold
  <2> QED
    BY <2>1, <2>2
<1> QED
  BY <1>2, <1>3, <1>4, <1>5, <1>6

LEMMA OthersKeepRest ==
  ASSUME Types, Types', Rest, Others
  PROVE  Rest'
<1> USE DEF Rest
<1>1. CASE AssignCommand
  BY <1>1, StartIsTyped, RowsAloneKeepRest DEF AssignCommand
<1>2. CASE AbortCheck
  <2>1. manager'.ending = {}
    BY <1>2 DEF AbortCheck
  <2> QED
    BY <1>2, <2>1, AtRestPicksNothing, RowsAloneKeepRest DEF AbortCheck
<1>3. CASE AbortCommand
  BY <1>3, AtRestPicksNothing, RowsAloneKeepRest DEF AbortCommand
<1>4. ASSUME NEW session \in alive, SessionDies(session) PROVE Rest'
  BY <1>4, RowsAloneKeepRest DEF SessionDies
<1>5. ASSUME NEW s \in Story, HandOver(s) \/ Complete(s) \/ Submit(s) PROVE Rest'
  <2>1. /\ Unlocked /\ UNCHANGED <<agents, manager, assigning>>
        /\ story[s].status # "merged" /\ open' \subseteq open \cup {s}
    BY <1>5 DEF HandOver, Complete, Submit
  <2>2. /\ \A t \in Story \ {s} : story'[t] = story[t]
        /\ story'[s].agent = story[s].agent /\ story'[s].status # "merged"
        /\ story'[s].status \in {"planned", "estimated"} => story[s].status = "estimated"
    BY <1>5 DEF HandOver, Complete, Submit, Types, StoryType
  <2>3. story'[s].status \notin {"planned", "estimated"} \/ story'[s].agent = None
    BY <2>2 DEF QueuedAreNobodys
  <2> QED
    BY <2>1, <2>2, <2>3, OneStoryChanges
<1>6. ASSUME NEW s \in Story, Reject(s) PROVE Rest'
  <2>1. /\ Unlocked /\ UNCHANGED <<agents, manager, assigning>>
        /\ story[s].status # "merged" /\ open' = open \ {s}
    BY <1>6 DEF Reject, MergedAreClosed
  <2>2. /\ \A t \in Story \ {s} : story'[t] = story[t]
        /\ story'[s].agent = story[s].agent /\ story'[s].status = "qa_failed"
    BY <1>6 DEF Reject, Types, StoryType
  <2> QED
    BY <2>1, <2>2, OneStoryChanges
<1>7. ASSUME NEW s \in Story, RecordMerge(s) \/ SyncMerge(s) PROVE Rest'
  BY <1>7, MergesKeepRest
<1>8. ASSUME NEW s \in Story, ApproveCommand(s) PROVE Rest'
  <2>1. /\ Unlocked /\ UNCHANGED <<agents, manager, assigning>> /\ open' = open \ {s}
    BY <1>8 DEF ApproveCommand
  <2>2. /\ \A t \in Story \ {s} : story'[t] = story[t]
        /\ story'[s].agent = story[s].agent /\ story'[s].status = "merged"
    BY <1>8 DEF ApproveCommand, Types, StoryType
  <2> QED
    BY <2>1, <2>2, OneStoryChanges
<1>9. ASSUME NEW s \in Story, NEW a \in Agent, Claim(a, s) PROVE Rest'
  <2>1. /\ Unlocked /\ UNCHANGED <<agents, manager, assigning, open>>
        /\ story[s].status \in {"planned", "qa_failed"} /\ story[s].agent \in {None, a}
    BY <1>9 DEF Claim
  <2>2. /\ \A t \in Story \ {s} : story'[t] = story[t]
        /\ story'[s] = [status |-> "in_progress", agent |-> a]
    BY <1>9 DEF Claim, Types
  <2> QED
    BY <2>1, <2>2, OneStoryChanges
<1> QED
  BY <1>1, <1>2, <1>3, <1>4, <1>5, <1>6, <1>7, <1>8, <1>9 DEF Others, MergeStory

-----------------------------------------------------------------------------
(* The theorems. *)

LEMMA InitHolds == Init => IInv
<1> SUFFICES ASSUME Init PROVE IInv
  OBVIOUS
<1>1. TypeOK
  BY InitIsTyped
<1>2. Pairing /\ NoSharing /\ HoldersWork
  BY DEF Init, Pairing, NoSharing, HoldersWork, Active
<1>3. MergedAreClosed /\ QueuedAreNobodys
  BY DEF Init, MergedAreClosed, QueuedAreNobodys
<1>4. PickedIsQueued /\ EndingIsMerged
  BY DEF Init, AtRest, PickedIsQueued, EndingIsMerged
<1> QED
  BY <1>1, <1>2, <1>3, <1>4 DEF IInv

LEMMA StepHolds == IInv /\ [Next]_vars => IInv'
<1> SUFFICES ASSUME IInv, [Next]_vars PROVE IInv'
  OBVIOUS
<1>0. Types /\ Rest
  BY TypesAreTypeOK DEF IInv, Rest
<1>1. Types' /\ Rest'
  <2>1. CASE Assigning
    <3>1. Types'
      BY <1>0, <2>1, AssigningIsTyped DEF Rest
    <3> QED
      BY <1>0, <2>1, <3>1, AssigningKeepsRest
  <2>2. CASE Check
    BY <1>0, <2>2, CheckIsTyped, CheckKeepsRest
  <2>3. CASE Others
    BY <1>0, <2>3, OthersIsTyped, OthersKeepRest
  <2>4. CASE UNCHANGED vars
    <3>1. UNCHANGED <<story, agents, alive, open, manager, assigning, bounds>>
      BY <2>4 DEF vars
    <3>2. Types'
      BY <1>0, <3>1 DEF Types
    <3> QED
      BY <1>0, <3>1, <3>2, RowsAloneKeepRest
  <2> QED
    BY <2>1, <2>2, <2>3, <2>4 DEF Next
<1> QED
  BY <1>1, TypesAreTypeOKNext DEF IInv, Rest

LEMMA Invariant == Spec => []IInv
BY InitHolds, StepHolds, PTL DEF Spec

\* The state always has its type: no count of slots becomes negative, no story is
\* assigned to what is not an agent.
THEOREM TypeCorrect == Spec => []TypeOK
<1>1. IInv => TypeOK
  BY DEF IInv
<1> QED
  BY <1>1, Invariant, PTL

\* The two pointers agree: no two agents in force work on one story, whatever
\* dies, is rejected, claimed, merged or assigned meanwhile.
THEOREM AgreementOfPointers == Spec => []PointersAgree
<1>1. IInv => PointersAgree
  BY DEF IInv, Pairing, PointersAgree
<1> QED
  BY <1>1, Invariant, PTL

\* A planned story is nobody's, so assignStories, which passes over stories that
\* have an agent, passes over none for good.
THEOREM PlannedAreUnassigned == Spec => []PlannedIsUnassigned
<1>1. IInv => PlannedIsUnassigned
  BY DEF IInv, QueuedAreNobodys, PlannedIsUnassigned, With
<1> QED
  BY <1>1, Invariant, PTL

\* No step takes a story in progress from the agent that works on it, unless it
\* is merged: not the health check, which ends agents and queues stories again,
\* not the assignment of the same story, not the spin-down, not a claim.
THEOREM WorkStays == Spec => WorkIsNotTakenAway
<1> DEFINE kept == \A s \in Story : LET a == story[s].agent IN
              (story[s].status = "in_progress" /\ a # None) =>
                ((Live(a) /\ agents[a].story = s) =>
                  (story'[s].agent = a \/ story'[s].status = "merged"))
<1>1. ASSUME IInv, [Next]_vars PROVE kept
  <2> SUFFICES ASSUME NEW s \in Story, story[s].status = "in_progress",
                      story[s].agent # None, Live(story[s].agent),
                      agents[story[s].agent].story = s
               PROVE  story'[s].agent = story[s].agent \/ story'[s].status = "merged"
    OBVIOUS
  <2>0. Types /\ IInv /\ story[s].agent \in Agent
    BY <1>1, TypesAreTypeOK DEF IInv, Types, StoryType
  <2> USE DEF Types
  <2>1. CASE Assigning
    <3>1. UNCHANGED story \/ \E a \in Agent : Assign(a)
      BY <2>1 DEF Assigning, ScaleUp, BeginAssigning, EnsureSenior, SpawnForStory,
                  EndAssigning, PickStory
    <3>2. ASSUME NEW a \in Agent, Assign(a) PROVE story'[s] = story[s]
      <4>1. assigning.current # s
        BY <2>0, <3>2 DEF Assign, IInv, PickedIsQueued
      <4> QED
        BY <2>0, <3>2, <4>1 DEF Assign
    <3> QED
      BY <3>1, <3>2
  <2>2. CASE Check
    <3>1. CASE HealthCheck
      <4>1. Active(story[s].agent) /\ ~Dead(story[s].agent)
        BY DEF Live, Dead
      <4>2. s # None
        BY NoneIsNobody
      <4> QED
        BY <2>0, <3>1, <4>1, <4>2, HealthCheckSpares DEF IInv
    <3>2. CASE RecoverUnassignedQAFailedStories
      BY <2>0, <3>2 DEF RecoverUnassignedQAFailedStories, Lost, With
    <3>3. CASE ReadMerged
      BY <2>0, <3>3 DEF ReadMerged, With
    <3>4. CASE WriteEnded
      <4>1. s \notin {e[2] : e \in manager.ending}
        BY <2>0, NoneIsNobody DEF IInv, EndingIsMerged
      <4> QED
        BY <2>0, <3>4, <4>1 DEF WriteEnded
    <3>5. CASE UNCHANGED story
      BY <3>5
    <3> QED
      BY <2>2, <3>1, <3>2, <3>3, <3>4, <3>5
         DEF Check, ReconcileAgentsOnMergedStories, AutoAssignPlannedStories, Discover,
             ReadIdle, KillSessions
  <2>3. CASE Others
    <3>1. ASSUME NEW t \in Story, HandOver(t) \/ Complete(t) \/ Submit(t) \/ Reject(t)
          PROVE  story'[s].agent = story[s].agent
      BY <2>0, <3>1 DEF HandOver, Complete, Submit, Reject, StoryType
    <3>2. ASSUME NEW t \in Story, MergeStory(t)
          PROVE  story'[s].agent = story[s].agent \/ story'[s].status = "merged"
      BY <2>0, <3>2 DEF MergeStory, RecordMerge, SyncMerge, ApproveCommand, StoryType
    <3>3. ASSUME NEW t \in Story, NEW a \in Agent, Claim(a, t)
          PROVE  story'[s] = story[s]
      <4>1. t # s
        BY <3>3 DEF Claim
      <4> QED
        BY <2>0, <3>3, <4>1 DEF Claim
    <3>4. CASE UNCHANGED story
      BY <3>4
    <3> QED
      BY <2>3, <3>1, <3>2, <3>3, <3>4
         DEF Others, AssignCommand, AbortCheck, AbortCommand, SessionDies
  <2>4. CASE UNCHANGED vars
    BY <2>4 DEF vars
  <2> QED
    BY <1>1, <2>1, <2>2, <2>3, <2>4 DEF Next
<1> QED
  BY <1>1, Invariant, PTL DEF Spec, WorkIsNotTakenAway

\* After a health check, every story in progress has an agent in force whose
\* session runs and whose row says that it works on the story.
THEOREM RepairByHealthCheck == Spec => HealthCheckRepairs
<1> DEFINE repaired == \A s \in InProgress' :
              LET a == story'[s].agent
              IN a # None /\ Live(a) /\ agents[a].story = s /\ agents[a].status = "working"
<1>1. ASSUME IInv, HealthCheck PROVE repaired
  <2> DEFINE revived == {agents[b].story : b \in {c \in Agent : Dead(c)}} \ {None}
             ended == [b \in Agent |-> IF Dead(b) THEN Terminated(agents[b]) ELSE agents[b]]
             requeued == [t \in Story |-> IF t \in revived THEN Requeued(story[t]) ELSE story[t]]
             orphans == Orphans(requeued, ended)
  <2>0. Types
    BY <1>1, TypesAreTypeOK DEF IInv
  <2>1. story' = [t \in Story |-> IF t \in orphans THEN Requeued(requeued[t]) ELSE requeued[t]]
    BY <1>1 DEF HealthCheck
  <2> SUFFICES ASSUME NEW s \in Story, story'[s].status = "in_progress"
               PROVE  LET a == story'[s].agent
                      IN a # None /\ Live(a) /\ agents[a].story = s
                         /\ agents[a].status = "working"
    BY DEF InProgress, With
  <2>2. \A row \in StoryType : Requeued(row).status = "planned"
    BY DEF Requeued, StoryType
  <2>3. \A t \in Story : story[t] \in StoryType /\ requeued[t] \in StoryType
    BY <2>0, RowsStayTyped DEF Types
  <2>4. s \notin orphans /\ story'[s] = requeued[s]
    <3> HIDE DEF requeued, orphans
    <3> QED
      BY <2>1, <2>2, <2>3
  <2>5. requeued[s] = story[s]
    <3>1. requeued[s] = story[s] \/ requeued[s] = Requeued(story[s])
      OBVIOUS
    <3> HIDE DEF requeued, orphans
    <3> QED
      BY <2>2, <2>3, <2>4, <3>1
  <2> DEFINE a == story[s].agent
  <2>6. a \in Agent /\ ended[a].status = "working" /\ ended[a].story = s
    <3>1. story[s].status = "in_progress"
      BY <2>4, <2>5
    <3>2. a # None /\ ended[a].status = "working" /\ ended[a].story = s
      <4> HIDE DEF requeued, ended
      <4> QED
        BY <2>4, <2>5, <3>1 DEF Orphans
    <3> QED
      BY <2>3, <3>2 DEF StoryType
  <2>7. ~Dead(a) /\ ended[a] = agents[a]
    <3>1. agents[a] \in AgentType
      BY <2>0, <2>6 DEF Types
    <3>2. Terminated(agents[a]).status = "terminated"
      BY <3>1 DEF Terminated, AgentType
    <3> QED
      BY <2>6, <3>2
  <2>8. Live(a)
    BY <2>6, <2>7 DEF Live, Dead, Active
  <2> QED
    BY <2>4, <2>5, <2>6, <2>7, <2>8, NoneIsNobody
<1>2. IInv => (HealthCheck => repaired)
  BY <1>1
<1> QED
  BY <1>2, Invariant, PTL DEF HealthCheckRepairs
-----------------------------------------------------------------------------
(* The limit on parallel work.  Every slot a session still has for stories  *)
(* counts as a story in progress, so that nothing anybody else does while   *)
(* it assigns can make it one too many.                                     *)

SlotsAreLeft ==
  Cardinality(InProgress) + assigning.slots <= MaxParallel + bounds["claims"]

LEMMA SlotNumbers ==
  ASSUME Types
  PROVE  /\ Cardinality(InProgress) \in Nat /\ IsFiniteSet(InProgress)
         /\ assigning.slots \in Nat /\ bounds["claims"] \in Nat /\ MaxParallel \in Nat
<1>1. InProgress \in SUBSET Story
  BY DEF InProgress, With
<1>2. IsFiniteSet(InProgress)
  BY <1>1, AssignmentAssumption, FS_Subset
<1> QED
  BY <1>1, <1>2, CountsAreNat, AssignmentAssumption DEF Types, AssigningType, Bounds

LEMMA LessInProgress ==
  ASSUME Types, Types', SlotsAreLeft, InProgress' \subseteq InProgress,
         assigning'.slots <= assigning.slots, bounds'["claims"] >= bounds["claims"]
  PROVE  SlotsAreLeft'
<1>1. Cardinality(InProgress') <= Cardinality(InProgress)
  BY SlotNumbers, FS_Subset
<1>2. Cardinality(InProgress') \in Nat /\ assigning'.slots \in Nat /\ bounds'["claims"] \in Nat
  <2>1. InProgress' \in SUBSET Story
    BY DEF InProgress, With
  <2> QED
    BY <2>1, CountsAreNat DEF Types, AssigningType, Bounds
<1> QED
  BY <1>1, <1>2, SlotNumbers DEF SlotsAreLeft

\* One more story in progress, which took a slot or was claimed.
LEMMA OneMoreInProgress ==
  ASSUME Types, Types', SlotsAreLeft, NEW s \in Story, InProgress' \subseteq InProgress \cup {s},
         \/ assigning'.slots = assigning.slots - 1 /\ bounds'["claims"] = bounds["claims"]
         \/ assigning'.slots = assigning.slots /\ bounds'["claims"] = bounds["claims"] + 1
  PROVE  SlotsAreLeft'
<1>1. Cardinality(InProgress \cup {s}) <= Cardinality(InProgress) + 1
      /\ IsFiniteSet(InProgress \cup {s}) /\ Cardinality(InProgress \cup {s}) \in Nat
  <2>1. IsFiniteSet(InProgress) /\ Cardinality(InProgress) \in Nat
    BY SlotNumbers
  <2>2. /\ IsFiniteSet(InProgress \cup {s})
        /\ Cardinality(InProgress \cup {s}) = IF s \in InProgress THEN Cardinality(InProgress)
                                               ELSE Cardinality(InProgress) + 1
    BY <2>1, FS_AddElement
  <2> QED
    BY <2>1, <2>2
<1>2. Cardinality(InProgress') <= Cardinality(InProgress \cup {s})
  BY <1>1, FS_Subset
<1>3. Cardinality(InProgress') \in Nat
  <2>1. InProgress' \in SUBSET Story
    BY DEF InProgress, With
  <2> QED
    BY <2>1, CountsAreNat
<1> QED
  BY <1>1, <1>2, <1>3, SlotNumbers DEF SlotsAreLeft

LEMMA UsedUp ==
  ASSUME Types, NEW b \in Bounds \ {"claims"}, Use(b)
  PROVE  bounds'["claims"] = bounds["claims"]
BY DEF Types, Use, Bounds

LEMMA SpawnUses ==
  ASSUME Types, NEW level, NEW index, Spawn(level, index) \/ SpawnFails
  PROVE  bounds'["claims"] = bounds["claims"]
BY UsedUp DEF Spawn, SpawnFails, Bounds

LEMMA AtRestHasNoSlots == AtRest.slots = 0
BY DEF AtRest

LEMMA StartHasNoSlots ==
  ASSUME NEW by, Start(by) \/ Begin(by)
  PROVE  assigning'.slots = 0
<1>1. CASE Begin(by)
  BY <1>1 DEF Begin, AtRest
<1>2. CASE Start(by)
  <2>1. PICK next, last :
          \/ assigning' = [AtRest EXCEPT !.by = by, !.phase = "scale", !.next = next, !.last = last]
          \/ assigning' = [AtRest EXCEPT !.by = by, !.phase = "begin"]
    BY <1>2 DEF Start
  <2> QED
    BY <2>1 DEF AtRest
<1> QED
  BY <1>1, <1>2

LEMMA AssigningKeepsLimit ==
  ASSUME Types, Types', SlotsAreLeft, Assigning
  PROVE  SlotsAreLeft'
<1>1. CASE BeginAssigning
  <2>1. UNCHANGED <<story, bounds>>
    BY <1>1 DEF BeginAssigning
  <2>2. InProgress' = InProgress
    BY <2>1 DEF InProgress, With
  <2>3. CASE assigning' = AtRest
    BY <2>1, <2>2, <2>3, AtRestHasNoSlots, SlotNumbers, LessInProgress
  <2>4. CASE assigning' # AtRest
    <3>1. PICK next : assigning' =
                [assigning EXCEPT !.phase = "senior", !.todo = With("planned"),
                     !.slots = MaxParallel - Cardinality(InProgress), !.next = next]
      BY <1>1, <2>4 DEF BeginAssigning
    <3>2. assigning'.slots = MaxParallel - Cardinality(InProgress)
      BY <3>1 DEF Types, AssigningType
    <3> QED
      BY <2>1, <2>2, <3>2, SlotNumbers DEF SlotsAreLeft
  <2> QED
    BY <2>3, <2>4
<1>2. ASSUME NEW a \in Agent, Assign(a) PROVE SlotsAreLeft'
  <2>1. assigning.current \in Story
    BY <1>2 DEF Assign, Types, AssigningType
  <2>2. InProgress' \subseteq InProgress \cup {assigning.current}
    BY <1>2 DEF Assign, InProgress, With, Types
  <2>3. assigning'.slots = assigning.slots - 1 /\ UNCHANGED bounds
    BY <1>2 DEF Assign, Types, AssigningType
  <2> QED
    BY <2>1, <2>2, <2>3, OneMoreInProgress
<1>3. CASE ScaleUp \/ EnsureSenior \/ SpawnForStory \/ EndAssigning \/ \E s \in Story : PickStory(s)
  <2>1. UNCHANGED story
    BY <1>3 DEF ScaleUp, EnsureSenior, SpawnForStory, EndAssigning, PickStory
  <2>2. bounds'["claims"] = bounds["claims"]
    BY <1>3, SpawnUses DEF ScaleUp, EnsureSenior, SpawnForStory, EndAssigning, PickStory
  <2>3. assigning'.slots = assigning.slots \/ assigning' = AtRest
    BY <1>3 DEF ScaleUp, EnsureSenior, SpawnForStory, EndAssigning, PickStory, Types, AssigningType
  <2>4. assigning'.slots <= assigning.slots
    BY <2>3, AtRestHasNoSlots, SlotNumbers
  <2>5. InProgress' = InProgress
    BY <2>1 DEF InProgress, With
  <2> QED
    BY <2>2, <2>4, <2>5, SlotNumbers, LessInProgress
<1> QED
  BY <1>1, <1>2, <1>3 DEF Assigning

LEMMA CheckKeepsLimit ==
  ASSUME Types, Types', SlotsAreLeft, Check
  PROVE  SlotsAreLeft'
<1>1. UNCHANGED bounds
  BY DEF Check, HealthCheck, ReconcileAgentsOnMergedStories, AutoAssignPlannedStories, Discover,
         RecoverUnassignedQAFailedStories, ReadMerged, ReadIdle, KillSessions, WriteEnded
<1>2. assigning'.slots <= assigning.slots
  <2>1. UNCHANGED assigning \/ Start("manager") \/ Begin("manager")
    BY DEF Check, HealthCheck, ReconcileAgentsOnMergedStories, AutoAssignPlannedStories, Discover,
           RecoverUnassignedQAFailedStories, ReadMerged, ReadIdle, KillSessions, WriteEnded
  <2> QED
    BY <2>1, StartHasNoSlots, SlotNumbers
<1>3. \A s \in Story : story'[s].status # "in_progress" \/ story[s].status = "in_progress"
  <2>1. CASE HealthCheck
    <3> DEFINE revived == {agents[b].story : b \in {c \in Agent : Dead(c)}} \ {None}
               ended == [b \in Agent |-> IF Dead(b) THEN Terminated(agents[b]) ELSE agents[b]]
               requeued == [t \in Story |-> IF t \in revived THEN Requeued(story[t]) ELSE story[t]]
               orphans == Orphans(requeued, ended)
    <3>1. story' = [t \in Story |-> IF t \in orphans THEN Requeued(requeued[t]) ELSE requeued[t]]
      BY <2>1 DEF HealthCheck
    <3>2. \A row \in StoryType : Requeued(row) \in StoryType /\ Requeued(row).status = "planned"
      BY RowsStayTyped DEF Requeued, StoryType
    <3>3. \A t \in Story : story[t] \in StoryType
      BY DEF Types
    <3> HIDE DEF revived, orphans
    <3>4. \A t \in Story : requeued[t] \in StoryType /\ requeued[t].status \in {"planned", story[t].status}
      BY <3>2, <3>3
    <3> HIDE DEF requeued
    <3>5. \A t \in Story : story'[t].status \in {"planned", requeued[t].status}
      BY <3>1, <3>2, <3>4
    <3> QED
      BY <3>4, <3>5
  <2>2. CASE RecoverUnassignedQAFailedStories
    BY <2>2 DEF RecoverUnassignedQAFailedStories, Requeued, Types, StoryType
  <2>3. CASE ReadMerged
    BY <2>3 DEF ReadMerged, Types, StoryType
  <2>4. CASE WriteEnded
    BY <2>4 DEF WriteEnded, Types, StoryType
  <2>5. CASE UNCHANGED story
    BY <2>5
  <2> QED
    BY <2>1, <2>2, <2>3, <2>4, <2>5
       DEF Check, ReconcileAgentsOnMergedStories, AutoAssignPlannedStories, Discover, ReadIdle, KillSessions
<1>4. InProgress' \subseteq InProgress
  BY <1>3 DEF InProgress, With
<1> QED
  BY <1>1, <1>2, <1>4, SlotNumbers, LessInProgress

LEMMA OthersKeepLimit ==
  ASSUME Types, Types', SlotsAreLeft, Others
  PROVE  SlotsAreLeft'
<1>1. ASSUME NEW s \in Story, NEW a \in Agent, Claim(a, s) PROVE SlotsAreLeft'
  <2>1. UNCHANGED assigning /\ bounds'["claims"] = bounds["claims"] + 1
    BY <1>1 DEF Claim, Use, Types, Bounds
  <2>2. InProgress' \subseteq InProgress \cup {s}
    BY <1>1 DEF Claim, InProgress, With, Types
  <2> QED
    BY <2>1, <2>2, OneMoreInProgress
<1>2. CASE AssignCommand \/ AbortCheck \/ AbortCommand
  <2>1. UNCHANGED story
    BY <1>2 DEF AssignCommand, AbortCheck, AbortCommand
  <2>2. bounds'["claims"] = bounds["claims"]
    BY <1>2, UsedUp DEF AssignCommand, AbortCheck, AbortCommand, Types, Bounds
  <2>3. assigning'.slots <= assigning.slots
    BY <1>2, StartHasNoSlots, AtRestHasNoSlots, SlotNumbers DEF AssignCommand, AbortCheck, AbortCommand
  <2>4. InProgress' = InProgress
    BY <2>1 DEF InProgress, With
  <2> QED
    BY <2>2, <2>3, <2>4, SlotNumbers, LessInProgress
<1>3. ASSUME NEW session \in alive, SessionDies(session) PROVE SlotsAreLeft'
  <2>1. UNCHANGED <<story, assigning>> /\ bounds'["claims"] = bounds["claims"]
    BY <1>3, UsedUp DEF SessionDies, Bounds
  <2>2. InProgress' = InProgress
    BY <2>1 DEF InProgress, With
  <2> QED
    BY <2>1, <2>2, SlotNumbers, LessInProgress
<1>4. ASSUME NEW s \in Story, HandOver(s) \/ Complete(s) \/ Submit(s) \/ Reject(s) \/ MergeStory(s)
      PROVE  SlotsAreLeft'
  <2>1. UNCHANGED assigning /\ bounds'["claims"] = bounds["claims"]
    BY <1>4, UsedUp DEF HandOver, Complete, Submit, Reject, MergeStory, RecordMerge, SyncMerge,
                        ApproveCommand, Bounds
  <2>2. InProgress' \subseteq InProgress
    BY <1>4 DEF HandOver, Complete, Submit, Reject, MergeStory, RecordMerge, SyncMerge,
                ApproveCommand, InProgress, With, Types, StoryType
  <2> QED
    BY <2>1, <2>2, SlotNumbers, LessInProgress
<1> QED
  BY <1>1, <1>2, <1>3, <1>4 DEF Others

LEMMA LimitStep == IInv /\ SlotsAreLeft /\ [Next]_vars => SlotsAreLeft'
<1> SUFFICES ASSUME IInv, SlotsAreLeft, [Next]_vars PROVE SlotsAreLeft'
  OBVIOUS
<1>1. Types /\ Types'
  BY StepHolds, TypesAreTypeOK, TypesAreTypeOKNext DEF IInv
<1>2. CASE UNCHANGED vars
  <2>1. UNCHANGED <<story, assigning, bounds>>
    BY <1>2 DEF vars
  <2>2. InProgress' = InProgress
    BY <2>1 DEF InProgress, With
  <2> QED
    BY <1>1, <2>1, <2>2, SlotNumbers, LessInProgress
<1> QED
  BY <1>1, <1>2, AssigningKeepsLimit, CheckKeepsLimit, OthersKeepLimit DEF Next

LEMMA LimitInit == Init => SlotsAreLeft
<1> SUFFICES ASSUME Init PROVE SlotsAreLeft
  OBVIOUS
<1>1. InProgress = {}
  BY DEF Init, InProgress, With
<1>2. Cardinality(InProgress) = 0 /\ assigning.slots = 0 /\ bounds["claims"] = 0
  BY <1>1, AtRestHasNoSlots, FS_EmptySet DEF Init, Bounds
<1> QED
  BY <1>2, AssignmentAssumption DEF SlotsAreLeft

\* max_parallel_stories holds whoever assigns, dies, is rejected or merged in
\* between, but for what agents claim by themselves.
THEOREM ParallelLimit == Spec => []WithinParallelLimit
<1>1. IInv /\ SlotsAreLeft => WithinParallelLimit
  BY TypesAreTypeOK, SlotNumbers DEF IInv, SlotsAreLeft, WithinParallelLimit
<1> QED
  BY <1>1, Invariant, LimitInit, LimitStep, PTL DEF Spec

=============================================================================
