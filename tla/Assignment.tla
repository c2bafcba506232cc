----------------------------- MODULE Assignment -----------------------------
(***************************************************************************)
(* Who works on what: the scheduler of one team (src/orchestrator), the    *)
(* steps of the manager that take stories from agents or end agents        *)
(* (src/cli/commands/manager) and the commands of the agents.              *)
(*                                                                         *)
(* A story row names its agent (assigned_agent_id), an agent row names its *)
(* story (current_story_id) and its tmux session.  The code keeps the two  *)
(* pointers in step by hand, at a dozen places, while sessions die, and    *)
(* while the manager lets go of the database lock to talk to tmux.         *)
(*                                                                         *)
(* Everything done under the lock is one step, except assignStories and    *)
(* checkScaling, which save after each agent and each story: they are      *)
(* `assigning', and the others wait until that is idle.                    *)
(***************************************************************************)
EXTENDS Naturals, FiniteSets

CONSTANTS
  Story,
  Later,          \* stories the tech lead has yet to hand over
  Dependencies,   \* <<s, t>>: story s depends on story t
  Wanted,         \* Wanted[s]: the level of agent the complexity of s asks for
  None,           \* no story, no agent
  MaxParallel,    \* scaling.max_parallel_stories
  SeniorCapacity, \* scaling.senior_capacity, for stories of one point
  MaxAgents,      \* bounds of the model: agents ever created,
  MaxDeaths,      \* sessions that die,
  MaxFailures,    \* failed spawns,
  MaxRejections,  \* rejected pull requests,
  MaxClaims,      \* claims,
  MaxApprovals,   \* merges by `hive pr approve',
  MaxCommands,    \* runs of `hive assign',
  MaxCrashes,     \* aborted checks of the manager and aborted commands,
  MaxInAll        \* and how many of all these, hive assign excepted

Level == {"junior", "intermediate", "senior"}

Agent == 1..MaxAgents   \* rows of the table of agents, in the order of creation

ASSUME AssignmentAssumption ==
  /\ IsFiniteSet(Story)
  /\ Later \subseteq Story /\ Dependencies \subseteq Story \X Story
  /\ Wanted \in [Story -> Level]
  /\ None \notin Story /\ None \notin Nat
  /\ MaxParallel \in Nat /\ SeniorCapacity \in Nat \ {0} /\ MaxAgents \in Nat

VARIABLES
  story,     \* story[s]: its status and the agent it is assigned to
  agents,    \* agents[a]: type, number of the session, status, current story
  alive,     \* the tmux sessions that run
  open,      \* stories with an open pull request
  manager,   \* where the manager's check is, the sessions it discovered, the
             \* agents it is about to spin down, each with the reason's story
  assigning, \* the session that scales or assigns, and where it is
  bounds     \* what has been used of the bounds

vars == <<story, agents, alive, open, manager, assigning, bounds>>

StoryStatus == {"estimated", "planned", "in_progress", "review",
                "pr_submitted", "qa_failed", "merged"}

Stages == {"health", "reconcile", "auto", "discover", "recover", "merged",
           "mergedKill", "mergedWrite", "idle", "idleKill", "idleWrite"}

AtRest == [by |-> "nobody", phase |-> "rest", todo |-> {}, current |-> None,
           fallback |-> FALSE, slots |-> 0, next |-> 0, last |-> 0]

Bounds == {"deaths", "failures", "rejections", "claims", "approvals",
           "commands", "crashes", "all"}

Session == Level \X Nat

TypeOK ==
  /\ story \in [Story -> [status : StoryStatus, agent : Agent \cup {None}]]
  /\ agents \in [Agent -> [type : Level, index : Nat,
                           status : {"absent", "idle", "working", "terminated"},
                           story : Story \cup {None}]]
  /\ alive \subseteq Session
  /\ open \subseteq Story
  /\ manager \in [stage : Stages, seen : SUBSET Session,
                  ending : SUBSET (Agent \X (Story \cup {None}))]
  /\ assigning \in [by : {"nobody", "manager", "command"},
                    phase : {"rest", "scale", "begin", "senior", "stories"},
                    todo : SUBSET Story, current : Story \cup {None},
                    fallback : BOOLEAN, slots : Nat, next : Nat, last : Nat]
  /\ bounds \in [Bounds -> Nat]

Init ==
  /\ story = [s \in Story |->
       [status |-> IF s \in Later THEN "estimated" ELSE "planned", agent |-> None]]
  /\ agents = [a \in Agent |->
       [type |-> "senior", index |-> 0, status |-> "absent", story |-> None]]
  /\ alive = {} /\ open = {}
  /\ manager = [stage |-> "health", seen |-> {}, ending |-> {}]
  /\ assigning = AtRest
  /\ bounds = [b \in Bounds |-> 0]

-----------------------------------------------------------------------------
(* Queries. *)

With(status) == {s \in Story : story[s].status = status}

InProgress == With("in_progress")

Active(a) == agents[a].status \in {"idle", "working"}

SessionOf(a) == <<agents[a].type, agents[a].index>>

\* The agent's row is in force and its session runs.
Live(a) == Active(a) /\ SessionOf(a) \in alive

\* Mutant: goes by the sessions that were discovered, not by those that run.
FaultyDead(a) == Active(a) /\ SessionOf(a) \notin manager.seen

\* The row is in force, its session is gone.
Dead(a) == Active(a) /\ SessionOf(a) \notin alive

ActiveSeniors == {a \in Agent : Active(a) /\ agents[a].type = "senior"}

IdleOf(level) == {a \in Agent : agents[a].status = "idle" /\ agents[a].type = level}

DependenciesMerged(s) ==
  \A t \in Story : <<s, t>> \in Dependencies => story[t].status = "merged"

\* topologicalSort returns null.
Circular(stories) ==
  \E S \in SUBSET stories :
    S # {} /\ \A s \in S : \E t \in S : <<s, t>> \in Dependencies

IsBlocker(s) == \E t \in Story : <<t, s>> \in Dependencies

Workload(a) ==
  Cardinality({s \in Story : /\ story[s].agent = a
                             /\ story[s].status \in {"in_progress", "review", "qa_failed"}})

\* selectAgentWithLeastWorkload, and find() over rows in their order.
LeastLoaded(S) ==
  {a \in S : \A b \in S : \/ Workload(a) < Workload(b)
                          \/ Workload(a) = Workload(b) /\ a <= b}

First(S) == {a \in S : \A b \in S : a <= b}

Unlocked == assigning.phase = "rest"

Below(b, max) == bounds[b] < max /\ bounds["all"] < MaxInAll

Use(b) == bounds' = [bounds EXCEPT ![b] = @ + 1, !["all"] = @ + 1]

\* Mutant: the story keeps its agent.
FaultyRequeued(row) == [row EXCEPT !.status = "planned"]

\* The story waits for an agent again.
Requeued(row) == [row EXCEPT !.status = "planned", !.agent = None]

Terminated(row) == [row EXCEPT !.status = "terminated", !.story = None]

-----------------------------------------------------------------------------
(* checkScaling and assignStories: one session, a step per save. *)

\* checkScaling up to its loop: the points of what can be assigned now.
Start(by) ==
  LET slots == IF Cardinality(InProgress) < MaxParallel
                 THEN MaxParallel - Cardinality(InProgress) ELSE 0
      assignable == Cardinality({s \in With("planned") : DependenciesMerged(s)})
      points == IF assignable < slots THEN assignable ELSE slots
      needed == (points + SeniorCapacity - 1) \div SeniorCapacity
      current == Cardinality(ActiveSeniors)
  IN assigning' = IF needed > current
                    THEN [AtRest EXCEPT !.by = by, !.phase = "scale",
                                        !.next = current + 1, !.last = needed]
                    ELSE [AtRest EXCEPT !.by = by, !.phase = "begin"]

Begin(by) == assigning' = [AtRest EXCEPT !.by = by, !.phase = "begin"]

Free == First({a \in Agent : agents[a].status = "absent"})

\* spawnAgent: the row and its session; a session of that name is used as is.
Spawn(level, index) ==
  \E a \in Free :
    /\ agents' = [agents EXCEPT ![a] =
         [type |-> level, index |-> index, status |-> "idle", story |-> None]]
    /\ alive' = alive \cup {<<level, index>>}
    /\ UNCHANGED bounds

\* No worktree, no session: the row is deleted again.
SpawnFails ==
  /\ Below("failures", MaxFailures) /\ Use("failures")
  /\ UNCHANGED <<agents, alive>>

\* spawnSenior finds a senior with a running session under the number it is to
\* use: returns it or throws, and nothing changes either way.
SeniorRuns(index) ==
  /\ \E a \in ActiveSeniors : agents[a].index = index
  /\ <<"senior", index>> \in alive

ScaleUp ==
  /\ assigning.phase = "scale"
  /\ assigning' = IF assigning.next = assigning.last
                    THEN [assigning EXCEPT !.phase = "begin", !.next = 0, !.last = 0]
                    ELSE [assigning EXCEPT !.next = @ + 1]
  /\ IF SeniorRuns(assigning.next)
       THEN UNCHANGED <<agents, alive, bounds>>
       ELSE Spawn("senior", assigning.next) \/ SpawnFails
  /\ UNCHANGED <<story, open, manager>>

\* Seniors are numbered on from the greatest number in force.
BeginAssigning ==
  /\ assigning.phase = "begin"
  /\ \E top \in {0} \cup {agents[a].index : a \in ActiveSeniors} :
       /\ \A a \in ActiveSeniors : agents[a].index <= top
       /\ assigning' =
            IF \/ Cardinality(InProgress) >= MaxParallel
               \/ With("planned") = {} \/ Circular(With("planned"))
              THEN AtRest
              ELSE [assigning EXCEPT !.phase = "senior", !.todo = With("planned"),
                     !.slots = MaxParallel - Cardinality(InProgress), !.next = top + 1]
  /\ UNCHANGED <<story, agents, alive, open, manager, bounds>>

\* No story is handed out without an idle senior to fall back on.
EnsureSenior ==
  /\ assigning.phase = "senior"
  /\ \/ /\ IdleOf("senior") # {}
        /\ assigning' = [assigning EXCEPT !.phase = "stories"]
        /\ UNCHANGED <<agents, alive, bounds>>
     \/ /\ IdleOf("senior") = {} /\ Spawn("senior", assigning.next)
        /\ assigning' = [assigning EXCEPT !.phase = "stories", !.next = @ + 1]
     \/ /\ IdleOf("senior") = {} /\ SpawnFails
        /\ assigning' = AtRest
  /\ UNCHANGED <<story, open, manager>>

\* Mutant: one too many.
FaultySlotLeft == assigning.slots >= 0

SlotLeft == assigning.slots > 0

\* The next of the planned stories, blockers first; stories assigned in the
\* meantime and stories with unmerged dependencies are passed over.
PickStory(s) ==
  /\ assigning.phase = "stories" /\ assigning.current = None /\ SlotLeft
  /\ s \in assigning.todo
  /\ IsBlocker(s) \/ \A t \in assigning.todo : ~IsBlocker(t)
  /\ assigning' = [assigning EXCEPT !.todo = @ \ {s},
       !.current = IF story[s].agent = None /\ DependenciesMerged(s) THEN s ELSE None]
  /\ UNCHANGED <<story, agents, alive, open, manager, bounds>>

LevelOf(s) == IF IsBlocker(s) THEN "senior" ELSE Wanted[s]

\* The idle agent a story goes to; after a failed spawn, one of a higher level.
Target(s) ==
  IF LevelOf(s) = "senior" THEN First(IdleOf("senior"))
  ELSE IF ~assigning.fallback THEN LeastLoaded(IdleOf(LevelOf(s)))
  ELSE IF LevelOf(s) = "junior" /\ IdleOf("intermediate") # {}
         THEN LeastLoaded(IdleOf("intermediate"))
  ELSE First(IdleOf("senior"))

\* Juniors and intermediates are numbered by the rows there are, ended ones too.
NextIndex(level) ==
  1 + Cardinality({a \in Agent : agents[a].status # "absent" /\ agents[a].type = level})

SpawnForStory ==
  LET s == assigning.current
      senior == LevelOf(s) = "senior" \/ assigning.fallback
  IN /\ assigning.phase = "stories" /\ s # None /\ Target(s) = {}
     /\ \/ /\ senior /\ Spawn("senior", assigning.next)
           /\ assigning' = [assigning EXCEPT !.next = @ + 1]
        \/ /\ ~senior /\ Spawn(LevelOf(s), NextIndex(LevelOf(s)))
           /\ UNCHANGED assigning
        \/ /\ senior /\ SpawnFails
           /\ assigning' = [assigning EXCEPT !.next = @ + 1, !.current = None,
                                             !.fallback = FALSE]
        \/ /\ ~senior /\ SpawnFails
           /\ assigning' = [assigning EXCEPT !.fallback = TRUE]
     /\ UNCHANGED <<story, open, manager>>

Assign(a) ==
  LET s == assigning.current
  IN /\ assigning.phase = "stories" /\ s # None /\ a \in Target(s)
     /\ story' = [story EXCEPT ![s] = [status |-> "in_progress", agent |-> a]]
     /\ agents' = [agents EXCEPT ![a].status = "working", ![a].story = s]
     /\ assigning' = [assigning EXCEPT !.current = None, !.fallback = FALSE,
                                       !.slots = @ - 1]
     /\ UNCHANGED <<alive, open, manager, bounds>>

EndAssigning ==
  /\ assigning.phase = "stories" /\ assigning.current = None
  /\ assigning.todo = {} \/ ~SlotLeft
  /\ assigning' = AtRest
  /\ UNCHANGED <<story, agents, alive, open, manager, bounds>>

Assigning ==
  \/ ScaleUp \/ BeginAssigning \/ EnsureSenior \/ SpawnForStory \/ EndAssigning
  \/ \E s \in Story : PickStory(s)
  \/ \E a \in Agent : Assign(a)

\* hive assign
AssignCommand ==
  /\ Unlocked /\ bounds["commands"] < MaxCommands
  /\ bounds' = [bounds EXCEPT !["commands"] = @ + 1]
  /\ Start("command")
  /\ UNCHANGED <<story, agents, alive, open, manager>>

-----------------------------------------------------------------------------
(* The manager's check, step by step. *)

At(stage) == manager.stage = stage

Goto(stage) == manager' = [manager EXCEPT !.stage = stage]

\* Stories of agents that are gone; stories in progress nobody works on.
Orphans(st, ag) ==
  {s \in Story :
     \/ /\ st[s].agent # None
        /\ ag[st[s].agent].status \in {"absent", "terminated"}
     \/ /\ st[s].status = "in_progress"
        /\ \/ st[s].agent = None
           \/ ag[st[s].agent].status # "working"
           \/ ag[st[s].agent].story # s}

\* runHealthCheck: ends the rows of dead sessions, queues their stories and the
\* orphans again and, if there are any, assigns in the same session.
HealthCheck ==
  LET revived == {agents[a].story : a \in {b \in Agent : Dead(b)}} \ {None}
      ended == [a \in Agent |-> IF Dead(a) THEN Terminated(agents[a]) ELSE agents[a]]
      requeued == [s \in Story |-> IF s \in revived THEN Requeued(story[s]) ELSE story[s]]
      orphans == Orphans(requeued, ended)
  IN /\ At("health") /\ Unlocked
     /\ agents' = ended
     /\ story' = [s \in Story |-> IF s \in orphans THEN Requeued(requeued[s]) ELSE requeued[s]]
     /\ IF revived \cup orphans # {} THEN Begin("manager") ELSE UNCHANGED assigning
     /\ Goto("reconcile")
     /\ UNCHANGED <<alive, open, bounds>>

Urgency == [in_progress |-> 0, review |-> 1, qa_failed |-> 2, pr_submitted |-> 3,
            planned |-> 4, estimated |-> 5]

\* The story an agent turns to when its story is merged (ties by update time).
NextFor(a, st) ==
  LET mine == {s \in Story : st[s].agent = a /\ st[s].status # "merged"}
      urgent == {s \in mine : \A t \in mine : Urgency[st[s].status] <= Urgency[st[t].status]}
  IN IF mine = {} THEN {None} ELSE urgent

Turned(row, s) ==
  [row EXCEPT !.story = s, !.status = IF s = None THEN "idle" ELSE "working"]

\* cleanupAgentsReferencingMergedStory, for each of `merged'.
TurnAgentsFrom(merged, st) ==
  LET stale == {a \in Agent : Active(a) /\ agents[a].story \in merged}
  IN \E next \in [stale -> Story \cup {None}] :
       /\ \A a \in stale : next[a] \in NextFor(a, st)
       /\ agents' = [a \in Agent |->
            IF a \in stale THEN Turned(agents[a], next[a]) ELSE agents[a]]

ReconcileAgentsOnMergedStories ==
  /\ At("reconcile") /\ Unlocked
  /\ TurnAgentsFrom(With("merged"), story)
  /\ Goto("auto")
  /\ UNCHANGED <<story, alive, open, assigning, bounds>>

\* Mutant: only what QA has failed.
FaultyUnassigned == {s \in With("qa_failed") : story[s].agent = None}

Unassigned == {s \in With("planned") \cup With("qa_failed") : story[s].agent = None}

AutoAssignPlannedStories ==
  /\ At("auto") /\ Unlocked
  /\ IF Unassigned # {} THEN Start("manager") ELSE UNCHANGED assigning
  /\ Goto("discover")
  /\ UNCHANGED <<story, agents, alive, open, bounds>>

\* The check ends here without sessions; sessions of QA agents, which the
\* same check has started for stories in QA, are not in `alive'.
Discover ==
  /\ At("discover") /\ Unlocked
  /\ IF alive = {} /\ With("pr_submitted") \cup With("qa_failed") = {}
       THEN Goto("health")
       ELSE manager' = [manager EXCEPT !.stage = "recover", !.seen = alive]
  /\ UNCHANGED <<story, agents, alive, open, assigning, bounds>>

\* Mutant: whether the story has an agent is not looked at.
FaultyLost == With("qa_failed")

\* Sent back by QA, and nobody is there to fix it.
Lost == {s \in With("qa_failed") : story[s].agent = None}

RecoverUnassignedQAFailedStories ==
  /\ At("recover") /\ Unlocked
  /\ story' = [s \in Story |-> IF s \in Lost THEN Requeued(story[s]) ELSE story[s]]
  /\ IF Lost # {} THEN Begin("manager") ELSE UNCHANGED assigning
  /\ Goto("merged")
  /\ UNCHANGED <<agents, alive, open, bounds>>

HasOtherWork(a, s) ==
  \E t \in Story \ {s} : story[t].agent = a /\ story[t].status # "merged"

\* Spin-down, first phase: an agent that has moved on keeps running and its
\* merged story is detached; the others are to end, and agents with nothing.
ReadMerged ==
  LET mergedOf(a) == {s \in With("merged") : story[s].agent = a}
      movedOn(a, s) == agents[a].story \notin {None, s} \/ HasOtherWork(a, s)
      detached == {s \in With("merged") : /\ story[s].agent # None
                                          /\ Active(story[s].agent)
                                          /\ movedOn(story[s].agent, s)}
      ending == {e \in Agent \X Story :
                   Active(e[1]) /\ e[2] \in mergedOf(e[1]) \ detached}
      unused == {<<a, None>> : a \in {b \in Agent :
                   /\ agents[b].status = "working" /\ agents[b].story = None
                   /\ ~HasOtherWork(b, None)}}
  IN /\ At("merged") /\ Unlocked
     /\ story' = [s \in Story |->
          IF s \in detached THEN [story[s] EXCEPT !.agent = None] ELSE story[s]]
     /\ manager' = [manager EXCEPT !.ending = ending \cup unused,
          !.stage = IF ending \cup unused = {} THEN "idle" ELSE "mergedKill"]
     /\ UNCHANGED <<agents, alive, open, assigning, bounds>>

\* With an empty pipeline every working agent is to end.
ReadIdle ==
  LET ending == IF \A s \in Story : story[s].status \in {"merged", "estimated"}
                  THEN {<<a, None>> : a \in {b \in Agent : agents[b].status = "working"}}
                  ELSE {}
  IN /\ At("idle") /\ Unlocked
     /\ manager' = IF ending = {}
          THEN [stage |-> "health", seen |-> {}, ending |-> {}]
          ELSE [manager EXCEPT !.ending = ending, !.stage = "idleKill"]
     /\ UNCHANGED <<story, agents, alive, open, assigning, bounds>>

Ending == {e[1] : e \in manager.ending}

\* Second phase, without the lock: the sessions, as far as they were discovered.
KillSessions ==
  /\ (At("mergedKill") \/ At("idleKill"))
  /\ alive' = alive \ ({SessionOf(a) : a \in Ending} \cap manager.seen)
  /\ Goto(IF At("mergedKill") THEN "mergedWrite" ELSE "idleWrite")
  /\ UNCHANGED <<story, agents, open, assigning, bounds>>

\* Third phase: the rows, whatever has become of them since.
WriteEnded ==
  LET stories == {e[2] : e \in manager.ending}
  IN /\ (At("mergedWrite") \/ At("idleWrite")) /\ Unlocked
     /\ agents' = [a \in Agent |->
          IF a \in Ending THEN Terminated(agents[a]) ELSE agents[a]]
     /\ story' = [s \in Story |->
          IF s \in stories THEN [story[s] EXCEPT !.agent = None] ELSE story[s]]
     /\ manager' = IF At("mergedWrite")
          THEN [manager EXCEPT !.ending = {}, !.stage = "idle"]
          ELSE [stage |-> "health", seen |-> {}, ending |-> {}]
     /\ UNCHANGED <<alive, open, assigning, bounds>>

Check ==
  \/ HealthCheck \/ ReconcileAgentsOnMergedStories \/ AutoAssignPlannedStories
  \/ Discover \/ RecoverUnassignedQAFailedStories
  \/ ReadMerged \/ ReadIdle \/ KillSessions \/ WriteEnded

\* The manager's check throws or its process dies; the next one starts over.
AbortCheck ==
  /\ manager.stage # "health" /\ Below("crashes", MaxCrashes) /\ Use("crashes")
  /\ manager' = [stage |-> "health", seen |-> {}, ending |-> {}]
  /\ assigning' = IF assigning.by = "manager" THEN AtRest ELSE assigning
  /\ UNCHANGED <<story, agents, alive, open>>

AbortCommand ==
  /\ assigning.by = "command" /\ Below("crashes", MaxCrashes) /\ Use("crashes")
  /\ assigning' = AtRest
  /\ UNCHANGED <<story, agents, alive, open, manager>>

-----------------------------------------------------------------------------
(* Agents, reviewers and the merge queue, each under the lock. *)

\* The tech lead hands a story over.
HandOver(s) ==
  /\ Unlocked /\ story[s].status = "estimated"
  /\ story' = [story EXCEPT ![s].status = "planned"]
  /\ UNCHANGED <<agents, alive, open, manager, assigning, bounds>>

SessionDies(session) ==
  /\ session \in alive /\ Below("deaths", MaxDeaths) /\ Use("deaths")
  /\ alive' = alive \ {session}
  /\ UNCHANGED <<story, agents, open, manager, assigning>>

\* my-stories claim: the agent's own row stays as it is.
Claim(a, s) ==
  /\ Unlocked /\ Below("claims", MaxClaims) /\ Use("claims")
  /\ Live(a) /\ \A b \in 1..(a - 1) : ~(Active(b) /\ SessionOf(b) = SessionOf(a))
  /\ story[s].status \in {"planned", "qa_failed"}
  /\ story[s].agent \in {None, a} /\ DependenciesMerged(s)
  /\ story' = [story EXCEPT ![s] = [status |-> "in_progress", agent |-> a]]
  /\ UNCHANGED <<agents, alive, open, manager, assigning>>

AtWork(s) == story[s].agent # None /\ Live(story[s].agent)

\* my-stories complete
Complete(s) ==
  /\ Unlocked /\ AtWork(s) /\ story[s].status = "in_progress"
  /\ story' = [story EXCEPT ![s].status = "review"]
  /\ UNCHANGED <<agents, alive, open, manager, assigning, bounds>>

\* pr submit
Submit(s) ==
  /\ Unlocked /\ AtWork(s)
  /\ story[s].status \in {"in_progress", "review", "qa_failed"}
  /\ story' = [story EXCEPT ![s].status = "pr_submitted"]
  /\ open' = open \cup {s}
  /\ UNCHANGED <<agents, alive, manager, assigning, bounds>>

\* pr reject
Reject(s) ==
  /\ Unlocked /\ s \in open /\ Below("rejections", MaxRejections) /\ Use("rejections")
  /\ story' = [story EXCEPT ![s].status = "qa_failed"]
  /\ open' = open \ {s}
  /\ UNCHANGED <<agents, alive, manager, assigning>>

\* The outcome of an auto-merge: the story keeps its agent, the agent is idle.
RecordMerge(s) ==
  LET a == story[s].agent
  IN /\ Unlocked /\ s \in open
     /\ story' = [story EXCEPT ![s].status = "merged"]
     /\ open' = open \ {s}
     /\ IF a # None /\ agents[a].story = s
          THEN agents' = [agents EXCEPT ![a].story = None, ![a].status = "idle"]
          ELSE UNCHANGED agents
     /\ UNCHANGED <<alive, manager, assigning, bounds>>

\* syncMergedPRs: merged on GitHub and not known here.
SyncMerge(s) ==
  LET st == [story EXCEPT ![s] = [status |-> "merged", agent |-> None]]
  IN /\ Unlocked /\ s \in open /\ story[s].status # "merged"
     /\ story' = st /\ open' = open \ {s}
     /\ TurnAgentsFrom({s}, st)
     /\ UNCHANGED <<alive, manager, assigning, bounds>>

\* pr approve merges by itself: no agent is looked at.
ApproveCommand(s) ==
  /\ Unlocked /\ s \in open /\ Below("approvals", MaxApprovals) /\ Use("approvals")
  /\ story' = [story EXCEPT ![s].status = "merged"]
  /\ open' = open \ {s}
  /\ UNCHANGED <<agents, alive, manager, assigning>>

MergeStory(s) == RecordMerge(s) \/ SyncMerge(s) \/ ApproveCommand(s)

Others ==
  \/ AssignCommand \/ AbortCheck \/ AbortCommand
  \/ \E session \in alive : SessionDies(session)
  \/ \E s \in Story : HandOver(s) \/ Complete(s) \/ Submit(s) \/ Reject(s) \/ MergeStory(s)
  \/ \E s \in Story, a \in Agent : Claim(a, s)

Next == Assigning \/ Check \/ Others

Spec == Init /\ [][Next]_vars

Advance(s) == HandOver(s) \/ Submit(s) \/ MergeStory(s)

\* The manager's timer goes on, a session that has the lock gets on with it, and
\* whoever advances a story gets the lock in time.
Fairness ==
  WF_vars(Assigning) /\ SF_vars(Check) /\ \A s \in Story : SF_vars(Advance(s))

LiveSpec == Spec /\ Fairness

-----------------------------------------------------------------------------
(* Properties. *)

\* No two agents work on one story, and none works on a story that is another's:
\* the agent row that points to a story in the pipeline is the story's agent.
PointersAgree ==
  \A a \in Agent : LET s == agents[a].story IN
    Active(a) /\ s # None => story[s].agent = a \/ story[s].status = "merged"

\* max_parallel_stories holds but for what agents claim by themselves.
WithinParallelLimit == Cardinality(InProgress) <= MaxParallel + bounds["claims"]

\* A planned story is nobody's: assignStories passes over one that is.
PlannedIsUnassigned == \A s \in With("planned") : story[s].agent = None

\* A story in progress stays with an agent that works on it: whose row points to
\* it and whose session runs.
WorkIsNotTakenAway ==
  [][\A s \in Story : LET a == story[s].agent IN
       (story[s].status = "in_progress" /\ a # None) =>
         ((Live(a) /\ agents[a].story = s) =>
           (story'[s].agent = a \/ story'[s].status = "merged"))]_vars

\* After a health check, whoever is recorded to work on a story does.
HealthCheckRepairs ==
  [][HealthCheck => \A s \in InProgress' :
       LET a == story'[s].agent
       IN a # None /\ Live(a) /\ agents[a].story = s /\ agents[a].status = "working"]_vars

\* Two agents in force do not share a session.
SessionsAreUnique ==
  \A a, b \in Agent : Active(a) /\ Active(b) /\ SessionOf(a) = SessionOf(b) => a = b

\* A merged story leaves that status by no step of the manager.
MergedIsFinal ==
  [][\A s \in With("merged") : Check => story'[s].status = "merged"]_vars

\* A session is never killed while its agent has a story in progress.
KillsNoWorker ==
  [][KillSessions => \A s \in InProgress, a \in Agent :
       (story[s].agent = a /\ Live(a)) => SessionOf(a) \in alive']_vars

\* Every story is merged in the end.
StoriesAreMerged == <>[](\A s \in Story : story[s].status = "merged")

=============================================================================
