------------------------- MODULE RequirementPipeline -------------------------
(***************************************************************************)
(* One requirement from `hive req' to its sign-off, where e2e_tests are    *)
(* configured: the tech lead plans stories, the manager recovers a stalled *)
(* handoff, the scheduler makes the feature branch, and once every story   *)
(* is merged a test agent decides whether the branch is merged into main.  *)
(*                                                                         *)
(* The manager's check is one sequence of steps with the lock given up in  *)
(* between; the tech lead, developers and `hive assign' act at any point,  *)
(* on rows the check has read.  How a planned story comes to be merged is  *)
(* the subject of Assignment and MergeQueue: here it is one step.          *)
(***************************************************************************)
EXTENDS Naturals, FiniteSets

CONSTANTS
    Story,          \* the stories the tech lead may create
    Tester,         \* agent ids of the feature test agents
    Target,         \* the target branches a requirement may be submitted with
    MaxDeaths       \* bound: how often the manager's process dies

ASSUME PipelineAssumption ==
    IsFiniteSet(Story) /\ Target \subseteq {"main", "custom"} /\ MaxDeaths \in Nat

VARIABLES
    requirement,    \* its row
    status,         \* status of the stories; "none" before they are created
    assigned,       \* the stories with an assigned_agent_id
    techLead,       \* the tech lead's tmux session
    branch,         \* the feature branch in git
    featurePR,      \* its pull request on GitHub
    tester,         \* per test agent: its rows in agents and agent_logs
    check,          \* the manager's check: its next step, and what it has read
    nudged,         \* planningHandoffState: the stories its signature counts
    recent,         \* which of "update" and "nudge" is not long enough ago
    deaths

rows == <<requirement, status, assigned, tester>>
world == <<techLead, branch, featurePR>>
vars == <<rows, world, check, nudged, recent, deaths>>

ReqStatus == {"pending", "planning", "planned", "in_progress",
              "sign_off", "sign_off_failed", "sign_off_passed"}
StoryStatus == {"none", "draft", "estimated", "planned", "in_progress", "merged"}
Step == {"handoff", "nudge", "promote", "restart", "respawn", "sign-off", "results",
         "candidate", "merge", "record", "error"}

Created == {s \in Story : status[s] # "none"}
Estimated == {s \in Story : status[s] = "estimated"}
ActivePipeline == {s \in Story : status[s] \in {"planned", "in_progress"}}
AllMerged == Created # {} /\ \A s \in Created : status[s] = "merged"

TypeOK ==
    /\ requirement \in [status : ReqStatus, feature_branch : BOOLEAN,
                        target_branch : Target \cup {"main", "feature"}]
    /\ status \in [Story -> StoryStatus] /\ assigned \subseteq Story
    /\ techLead \in {"none", "running", "dead"}
    /\ branch \in {"none", "local", "pushed"}
    /\ featurePR \in {"none", "open", "merged"}
    /\ tester \in [Tester -> [agent : {"none", "running", "done"}, spawnLog : BOOLEAN,
                              result : {"none", "passed", "failed"}, handled : BOOLEAN]]
    /\ check \in [at : Step, stories : SUBSET Story, testers : SUBSET Tester]
    /\ nudged \subseteq Story /\ recent \subseteq {"update", "nudge"}
    /\ deaths \in 0 .. MaxDeaths

NewCheck == [at |-> "handoff", stories |-> {}, testers |-> {}]
NoTester == [agent |-> "none", spawnLog |-> FALSE, result |-> "none", handled |-> FALSE]

Init ==
    /\ requirement = [status |-> "pending", feature_branch |-> FALSE, target_branch |-> "main"]
    /\ status = [s \in Story |-> "none"] /\ assigned = {}
    /\ techLead = "none" /\ branch = "none" /\ featurePR = "none"
    /\ tester = [t \in Tester |-> NoTester]
    /\ check = NewCheck /\ nudged = {} /\ recent = {} /\ deaths = 0

SetStatus(st) == requirement' = [requirement EXCEPT !.status = st]
GoTo(step) == check' = [check EXCEPT !.at = step, !.stories = {}]
-----------------------------------------------------------------------------
(***************************************************************************)
(* `hive req': the requirement is in planning whether or not the tech      *)
(* lead's session could be started.                                        *)
(***************************************************************************)
SubmitRequirement(target) ==
    /\ requirement.status = "pending"
    /\ requirement' = [requirement EXCEPT !.status = "planning", !.target_branch = target]
    /\ techLead' \in {"none", "running"}
    /\ UNCHANGED <<status, assigned, tester, branch, featurePR, check, nudged, recent, deaths>>

(***************************************************************************)
(* The tech lead at work, with `hive stories create' and `update' or its   *)
(* own SQL, in no order the code enforces.                                 *)
(***************************************************************************)
PlanStory(s) ==
    /\ techLead = "running" /\ requirement.status # "pending"
    /\ \E st \in CASE status[s] = "none" -> {"draft", "estimated"}
                   [] status[s] = "draft" -> {"estimated"}
                   [] status[s] = "estimated" -> {"planned"}
                   [] OTHER -> {} :
          status' = [status EXCEPT ![s] = st]
    /\ recent' = recent \cup {"update"}
    /\ UNCHANGED <<requirement, assigned, tester, world, check, nudged, deaths>>

\* "When done planning, update the requirement status to 'planned'"
FinishPlanning ==
    /\ techLead = "running" /\ requirement.status = "planning"
    /\ SetStatus("planned")
    /\ UNCHANGED <<status, assigned, tester, world, check, nudged, recent, deaths>>

TechLeadDies ==
    /\ techLead = "running" /\ techLead' = "dead"
    /\ UNCHANGED <<rows, branch, featurePR, check, nudged, recent, deaths>>

-----------------------------------------------------------------------------
(***************************************************************************)
(* Scheduler.assignStories, from the manager or `hive assign': a planned   *)
(* requirement without a feature branch gets one, or goes on without it if *)
(* a git command fails; then some of the waiting stories are assigned.     *)
(***************************************************************************)
isEligibleForFeatureBranch == requirement.status = "planned" /\ ~requirement.feature_branch

\* git branch fails where the branch exists; git push may fail after it
createRequirementFeatureBranch ==
    \/ /\ branch = "none" /\ branch' = "pushed"
       /\ requirement' = [status |-> "in_progress", feature_branch |-> TRUE,
                          target_branch |-> "feature"]
    \/ /\ branch' \in IF branch = "none" THEN {"none", "local"} ELSE {branch}
       /\ SetStatus("in_progress")

Waiting == {s \in Story : status[s] = "planned" /\ s \notin assigned}

AssignStories ==
    /\ \E s \in Story : status[s] = "planned"
    /\ \/ isEligibleForFeatureBranch /\ createRequirementFeatureBranch
       \/ ~isEligibleForFeatureBranch /\ UNCHANGED <<requirement, branch>>
    /\ \E S \in SUBSET Waiting :
          /\ status' = [s \in Story |-> IF s \in S THEN "in_progress" ELSE status[s]]
          /\ assigned' = assigned \cup S
    /\ UNCHANGED <<tester, techLead, featurePR, check, nudged, recent, deaths>>

\* the process dies after the git commands and before the row is saved
DieWhileBranching ==
    /\ deaths < MaxDeaths /\ deaths' = deaths + 1
    /\ \E s \in Story : status[s] = "planned"
    /\ isEligibleForFeatureBranch /\ branch = "none"
    /\ branch' \in {"local", "pushed"}
    /\ check' = NewCheck /\ nudged' = {}
    /\ UNCHANGED <<rows, techLead, featurePR, recent>>

\* a story's agent is done and its pull request is merged
MergeStory(s) ==
    /\ s \in assigned
    /\ status' = [status EXCEPT ![s] = "merged"]
    /\ assigned' = assigned \ {s}
    /\ UNCHANGED <<requirement, tester, world, check, nudged, recent, deaths>>

-----------------------------------------------------------------------------
(***************************************************************************)
(* handleStalledPlanningHandoff.  Estimated stories of a requirement that  *)
(* nobody works on are stalled once they have not been touched for a       *)
(* while: the tech lead is told, and the next time, or if it cannot be     *)
(* told, the stories as they were read are made planned.                   *)
(***************************************************************************)
FaultySameHandoff(stories) == FALSE     \* the state is looked up under another key
SameHandoff(stories) == nudged # {} /\ Cardinality(nudged) = Cardinality(stories)

Stale == "update" \notin recent
CoolingDown == "nudge" \in recent

HandoffNotStalled ==
    /\ check.at = "handoff"
    /\ Estimated = {} \/ ~Stale \/ ActivePipeline # {}
    /\ nudged' = {} /\ GoTo("restart")
    /\ UNCHANGED <<rows, world, recent, deaths>>

HandoffStalled ==
    /\ check.at = "handoff"
    /\ Estimated # {} /\ Stale /\ ActivePipeline = {}
    /\ check' = [check EXCEPT
          !.at = IF ~SameHandoff(Estimated) THEN "nudge"
                 ELSE IF CoolingDown THEN "restart" ELSE "promote",
          !.stories = Estimated]
    /\ UNCHANGED <<rows, world, nudged, recent, deaths>>

nudgeTechLeadForStalledHandoff ==
    /\ check.at = "nudge"
    /\ \/ /\ techLead = "running"
          /\ nudged' = check.stories /\ recent' = recent \cup {"nudge"}
          /\ GoTo("restart")
       \/ /\ techLead # "running"
          /\ check' = [check EXCEPT !.at = "promote"]
          /\ UNCHANGED <<nudged, recent>>
    /\ UNCHANGED <<rows, world, deaths>>

\* without looking at what the stories and the requirement have become
promoteEstimatedStoriesToPlanned ==
    /\ check.at = "promote"
    /\ status' = [s \in Story |-> IF s \in check.stories THEN "planned" ELSE status[s]]
    /\ SetStatus("planned")
    /\ nudged' = {} /\ recent' = recent \cup {"update"}
    /\ GoTo("restart")
    /\ UNCHANGED <<assigned, tester, world, deaths>>

(***************************************************************************)
(* restartStaleTechLead kills an idle tech lead of a certain age and       *)
(* starts another in its session; if that fails the whole check fails, and *)
(* a session that is not running is not restarted.                         *)
(***************************************************************************)
SkipRestart ==
    /\ check.at = "restart" /\ GoTo("sign-off")
    /\ UNCHANGED <<rows, world, nudged, recent, deaths>>

KillTechLead ==
    /\ check.at = "restart" /\ techLead = "running"
    /\ techLead' = "dead" /\ GoTo("respawn")
    /\ UNCHANGED <<rows, branch, featurePR, nudged, recent, deaths>>

RespawnTechLead ==
    /\ check.at = "respawn"
    /\ \/ techLead' = "running" /\ GoTo("sign-off")
       \/ techLead' = "dead" /\ check' = NewCheck
    /\ UNCHANGED <<rows, branch, featurePR, nudged, recent, deaths>>

-----------------------------------------------------------------------------
(***************************************************************************)
(* checkFeatureSignOff.  A check without a tmux session of hive ends       *)
(* before it.  The requirement goes to sign_off with the spawn of a test   *)
(* agent, and back if that fails.                                          *)
(***************************************************************************)
HiveSessions == techLead = "running" \/ assigned # {} \/ \E t \in Tester : tester[t].agent = "running"

NoSessions ==
    /\ check.at = "sign-off" /\ ~HiveSessions
    /\ check' = NewCheck
    /\ UNCHANGED <<rows, world, nudged, recent, deaths>>

ReadyForSignOff ==
    /\ requirement.status = "in_progress" /\ AllMerged
    /\ requirement.feature_branch \/ requirement.target_branch # "main"

NoSignOff ==
    /\ check.at = "sign-off" /\ HiveSessions /\ ~ReadyForSignOff
    /\ GoTo("results")
    /\ UNCHANGED <<rows, world, nudged, recent, deaths>>

SpawnFeatureTest(t) ==
    /\ check.at = "sign-off" /\ HiveSessions /\ ReadyForSignOff /\ tester[t] = NoTester
    /\ SetStatus("sign_off")
    /\ tester' = [tester EXCEPT ![t].agent = "running", ![t].spawnLog = TRUE]
    /\ GoTo("results")
    /\ UNCHANGED <<status, assigned, world, nudged, recent, deaths>>

FaultyReverted == "planned"
Reverted == "in_progress"

SpawnFails ==
    /\ check.at = "sign-off" /\ HiveSessions /\ ReadyForSignOff
    /\ SetStatus(Reverted)
    /\ GoTo("results")
    /\ UNCHANGED <<status, assigned, tester, world, nudged, recent, deaths>>

\* spawnAgent saves the database before the spawn is logged
DieWhileSpawning(t) ==
    /\ deaths < MaxDeaths /\ deaths' = deaths + 1
    /\ check.at = "sign-off" /\ HiveSessions /\ ReadyForSignOff /\ tester[t] = NoTester
    /\ SetStatus("sign_off")
    /\ tester' = [tester EXCEPT ![t].agent = "running"]
    /\ check' = NewCheck /\ nudged' = {}
    /\ UNCHANGED <<status, assigned, world, recent>>

(***************************************************************************)
(* A test agent that follows its prompt does not leave a result in the     *)
(* logs: without a tracker it writes to the tech lead, and with one        *)
(* `hive progress' fails, for a requirement is not a story.  Only a        *)
(* `hive progress' without a tracker, which somebody may run all the same, *)
(* leaves one.                                                             *)
(***************************************************************************)
FinishTests(t) ==
    /\ tester[t].agent = "running"
    /\ tester' = [tester EXCEPT ![t].agent = "done"]
    /\ UNCHANGED <<requirement, status, assigned, world, check, nudged, recent, deaths>>

ReportProgress(t, result) ==
    /\ tester[t].agent # "none" /\ tester[t].result = "none"
    /\ tester' = [tester EXCEPT ![t].agent = "done", ![t].result = result]
    /\ UNCHANGED <<requirement, status, assigned, world, check, nudged, recent, deaths>>

-----------------------------------------------------------------------------
(***************************************************************************)
(* checkFeatureTestResult: what it reads under the lock, and then, one     *)
(* candidate after the other, what it does about it without the lock.      *)
(***************************************************************************)
Candidate(t) ==
    /\ tester[t].result # "none" /\ ~tester[t].handled /\ tester[t].spawnLog
    /\ requirement.status = "sign_off" /\ requirement.feature_branch

NextCandidate(testers) ==
    check' = IF testers = {} THEN NewCheck
             ELSE [check EXCEPT !.at = "candidate", !.testers = testers]

ReadResults ==
    /\ check.at = "results"
    /\ NextCandidate({t \in Tester : Candidate(t)})
    /\ UNCHANGED <<rows, world, nudged, recent, deaths>>

\* one at a time: the others stay in check.testers
Settle(t, st) ==
    /\ SetStatus(st)
    /\ tester' = [tester EXCEPT ![t].handled = TRUE]
    /\ NextCandidate(check.testers \ {t})
    /\ UNCHANGED <<status, assigned, nudged, recent, deaths>>

Current == CHOOSE t \in check.testers : TRUE

handleTestFailure ==
    /\ check.at = "candidate" /\ tester[Current].result = "failed"
    /\ Settle(Current, "sign_off_failed")
    /\ UNCHANGED world

\* gh pr create fails without the branch, or if there is a pull request
CreateFeaturePR ==
    /\ check.at = "candidate" /\ tester[Current].result = "passed"
    /\ \/ branch = "pushed" /\ featurePR = "none" /\ featurePR' = "open" /\ GoTo("merge")
       \/ UNCHANGED featurePR /\ GoTo("error")
    /\ UNCHANGED <<rows, techLead, branch, nudged, recent, deaths>>

AfterMerge(merged) == IF merged THEN "record" ELSE "error"

MergeFeaturePR ==
    /\ check.at = "merge"
    /\ \/ featurePR' = "merged" /\ branch' = "none" /\ GoTo(AfterMerge(TRUE))
       \/ UNCHANGED <<featurePR, branch>> /\ GoTo(AfterMerge(FALSE))
    /\ UNCHANGED <<rows, techLead, nudged, recent, deaths>>

RecordPassed ==
    /\ check.at = "record"
    /\ \/ Settle(Current, "sign_off_passed")
       \/ GoTo("error") /\ UNCHANGED <<rows, nudged, recent, deaths>>
    /\ UNCHANGED world

FaultyRecordError == SetStatus("sign_off") /\ NextCandidate(check.testers \ {Current})
                     /\ UNCHANGED <<status, assigned, tester, nudged, recent, deaths>>
RecordError == Settle(Current, "sign_off")

HandleError == check.at = "error" /\ RecordError /\ UNCHANGED world

ManagerDies ==
    /\ deaths < MaxDeaths /\ deaths' = deaths + 1
    /\ check' = NewCheck /\ nudged' = {}
    /\ UNCHANGED <<rows, world, recent>>

TimePasses ==
    /\ \E what \in recent : recent' = recent \ {what}
    /\ UNCHANGED <<rows, world, check, nudged, deaths>>

CheckStep ==
    \/ HandoffNotStalled \/ HandoffStalled
    \/ nudgeTechLeadForStalledHandoff \/ promoteEstimatedStoriesToPlanned
    \/ SkipRestart \/ KillTechLead \/ RespawnTechLead
    \/ NoSessions \/ NoSignOff \/ SpawnFails \/ \E t \in Tester : SpawnFeatureTest(t)
    \/ ReadResults \/ handleTestFailure \/ CreateFeaturePR \/ MergeFeaturePR
    \/ RecordPassed \/ HandleError

Next ==
    \/ CheckStep \/ ManagerDies \/ TimePasses
    \/ FinishPlanning \/ TechLeadDies \/ AssignStories \/ DieWhileBranching
    \/ \E target \in Target : SubmitRequirement(target)
    \/ \E s \in Story : PlanStory(s) \/ MergeStory(s)
    \/ \E t \in Tester :
          \/ DieWhileSpawning(t) \/ FinishTests(t)
          \/ \E result \in {"passed", "failed"} : ReportProgress(t, result)

Spec == Init /\ [][Next]_vars

(***************************************************************************)
(* The manager's timer starts a check after the other, time passes, a      *)
(* spawn that is retried succeeds in the end, and a test agent ends.       *)
(***************************************************************************)
Fairness ==
    /\ WF_vars(CheckStep) /\ WF_vars(TimePasses)
    /\ SF_vars(\E t \in Tester : SpawnFeatureTest(t))
    /\ \A t \in Tester : WF_vars(FinishTests(t))

FairSpec == Spec /\ Fairness
-----------------------------------------------------------------------------
(***************************************************************************)
(* Stories that are estimated while nobody works on the requirement do not *)
(* stay so, whether the tech lead hears of it or its session is gone, and  *)
(* whichever step of the check the manager dies in.                        *)
(***************************************************************************)
HandoffCompletes ==
    (Estimated # {} /\ ActivePipeline = {}) ~> (Estimated = {} \/ ActivePipeline # {})

(***************************************************************************)
(* A requirement with a feature branch and nothing left to merge gets its  *)
(* sign-off, after a failed spawn too, while some session of hive runs.    *)
(***************************************************************************)
SignOffStarts ==
    (ReadyForSignOff /\ techLead = "running")
        ~> (requirement.status = "sign_off" \/ ~AllMerged \/ techLead # "running")

(***************************************************************************)
(* A logged test result is acted on once, whatever gh does and wherever    *)
(* the manager dies: it does not come up again check after check.          *)
(***************************************************************************)
ResultsAreHandled ==
    \A t \in Tester :
        (Candidate(t) /\ techLead = "running")
            ~> (tester[t].handled \/ requirement.status # "sign_off" \/ techLead # "running")

(***************************************************************************)
(* A requirement has passed only if its feature branch is in main: a pull  *)
(* request that could not be made or merged never counts as merged.        *)
(***************************************************************************)
PassedIsMerged == requirement.status = "sign_off_passed" => featurePR = "merged"

(***************************************************************************)
(* What README.md says of the sign-off: it ends with a verdict.            *)
(***************************************************************************)
SignOffEnds ==
    (requirement.status = "sign_off")
        ~> (requirement.status \in {"sign_off_passed", "sign_off_failed"})

=============================================================================
