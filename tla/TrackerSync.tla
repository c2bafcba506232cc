----------------------------- MODULE TrackerSync -----------------------------
(***************************************************************************)
(* Stories of hive and their issues in Jira.  Every check of the manager   *)
(* runs syncFromJira in one session of the database: it makes the issues   *)
(* and subtasks that are missing, pulls statuses from Jira and pushes the  *)
(* ones that are behind.  Between the checks an assignment queues a hook   *)
(* that makes the subtask at once, every change of a status is pushed once *)
(* in the background, and people move issues about on the board.           *)
(*                                                                         *)
(* What Jira has done stays done, whether or not the session that asked    *)
(* for it lives to save what it learnt.                                    *)
(***************************************************************************)
EXTENDS Naturals, Sequences, FiniteSets

CONSTANTS
    Story,          \* the stories
    Mapped,         \* the hive statuses that status_mapping gives an issue status
    MaxChanges,     \* bound: assignments and status changes in hive
    MaxMishaps      \* bound: issues moved on the board, sessions and answers that are lost

ASSUME TrackerAssumption ==
    {"draft", "merged"} \subseteq Mapped /\ {MaxChanges, MaxMishaps} \subseteq Nat

VARIABLES
    saved,          \* the rows of the stories on disk
    session,        \* who has the database, and the rows as they are there
    step,           \* the step of syncFromJira, and the stories left in it
    issue,          \* Jira's issues in the order they were made
    subtasks,       \* per story: the subtasks made for it
    hook,           \* per story: its assignment hook in the manager's queue
    pushes,         \* status changes that have yet to be pushed
    moves, changes, lost

jira == <<issue, subtasks>>
vars == <<saved, session, step, jira, hook, pushes, moves, changes, lost>>

\* isForwardTransition and isStatusRegression do not agree on this order
STATUS_ORDER == [draft |-> 0, estimated |-> 1, planned |-> 2, in_progress |-> 3, review |-> 4,
                 pr_submitted |-> 5, qa |-> 6, qa_failed |-> 4, merged |-> 7]
STORY_STATUS_ORDER == [STATUS_ORDER EXCEPT !.pr_submitted = 7, !.qa = 5, !.qa_failed = 6,
                                           !.merged = 8]
Status == DOMAIN STATUS_ORDER

ASSUME MappingAssumption == Mapped \subseteq Status

isForwardTransition(from, to) == STATUS_ORDER[to] >= STATUS_ORDER[from]
isStatusRegression(from, to) == STORY_STATUS_ORDER[to] < STORY_STATUS_ORDER[from]

Row == [status : Status, key : Nat, assigned : BOOLEAN, subtask : BOOLEAN]
SyncSteps == <<"issues", "subtasks", "pull", "push">>
Idle == [at |-> 0, left |-> {}]

TypeOK ==
    /\ saved \in [Story -> Row]
    /\ session \in [by : {"nobody", "sync", "assignment"}, rows : [Story -> Row]]
    /\ step \in [at : 0 .. Len(SyncSteps), left : SUBSET Story]
    /\ issue \in Seq([story : Story, status : Mapped \cup {"unmapped"}])
    /\ subtasks \in [Story -> Nat]
    /\ hook \in [Story -> {"none", "queued", "created"}]
    /\ pushes \subseteq Story \X Status
    /\ moves \in 0 .. MaxMishaps /\ changes \in 0 .. MaxChanges /\ lost \in 0 .. MaxMishaps

Closed(rows) == [by |-> "nobody", rows |-> rows]

Init ==
    /\ saved \in [Story -> [status : {"draft", "planned"}, key : {0},
                            assigned : {FALSE}, subtask : {FALSE}]]
    /\ session = Closed(saved)
    /\ step = Idle /\ issue = <<>> /\ subtasks = [s \in Story |-> 0]
    /\ hook = [s \in Story |-> "none"] /\ pushes = {}
    /\ moves = 0 /\ changes = 0 /\ lost = 0
-----------------------------------------------------------------------------
(* What Jira does when asked. *)

CreateIssue(s) == issue' = Append(issue, [story |-> s, status |-> "draft"])
CreateSubtask(s) == subtasks' = [subtasks EXCEPT ![s] = @ + 1]

\* no status is mapped to it, the workflow has no such transition, or the call fails
transitionJiraIssue(key, st) ==
    \/ UNCHANGED issue
    \/ /\ key # 0 /\ st \in Mapped
       /\ issue' = [issue EXCEPT ![key].status = st]

\* somebody drags the issue to another column
MoveIssue(i, st) ==
    /\ moves + lost < MaxMishaps /\ moves' = moves + 1
    /\ st \in Mapped \cup {"unmapped"} /\ issue[i].status # st
    /\ issue' = [issue EXCEPT ![i].status = st]
    /\ UNCHANGED <<saved, session, step, subtasks, hook, pushes, changes, lost>>
-----------------------------------------------------------------------------
(* A story goes on in hive, by a command or another step of the check. *)

NextStatus(st) ==
    CASE st = "draft" -> {"planned"}
      [] st = "in_progress" -> {"pr_submitted", "planned"}
      [] st = "pr_submitted" -> {"qa"}
      [] st = "qa" -> {"qa_failed", "merged"}
      [] st = "qa_failed" -> {"planned"}
      [] OTHER -> {}

ChangeStatus(s, st) ==
    /\ session.by = "nobody" /\ st \in NextStatus(saved[s].status)
    /\ changes < MaxChanges /\ changes' = changes + 1
    /\ saved' = [saved EXCEPT ![s].status = st, ![s].assigned = @ /\ st \notin {"planned", "merged"}]
    /\ session' = Closed(saved')
    /\ pushes' = pushes \cup {<<s, st>>}
    /\ UNCHANGED <<step, jira, hook, moves, lost>>

\* `hive stories create': the issue is made at once, for a draft too
SyncStory(s) ==
    /\ session.by = "nobody" /\ saved[s].status = "draft" /\ saved[s].key = 0
    /\ CreateIssue(s)
    /\ \/ /\ saved' = [saved EXCEPT ![s].key = Len(issue')]
          /\ session' = Closed(saved') /\ UNCHANGED lost
       \/ /\ moves + lost < MaxMishaps /\ lost' = lost + 1      \* no answer, or killed before it saves
          /\ UNCHANGED <<saved, session>>
    /\ UNCHANGED <<step, subtasks, hook, pushes, moves, changes>>

\* syncStatusForStory: whatever the issue's status has become, and only once
PushStatus(s, st) ==
    /\ <<s, st>> \in pushes /\ pushes' = pushes \ {<<s, st>>}
    /\ transitionJiraIssue(saved[s].key, st)
    /\ UNCHANGED <<saved, session, step, subtasks, hook, moves, changes, lost>>

AssignStory(s) ==
    /\ session.by # "sync" /\ saved[s].status = "planned"
    /\ changes < MaxChanges /\ changes' = changes + 1
    /\ saved' = [saved EXCEPT ![s].status = "in_progress", ![s].assigned = TRUE]
    /\ session' = [by |-> "assignment", rows |-> saved']
    /\ hook' = [hook EXCEPT ![s] = "queued"]
    /\ pushes' = pushes \cup {<<s, "in_progress">>}
    /\ UNCHANGED <<step, jira, moves, lost>>

(***************************************************************************)
(* handleJiraAfterAssignment runs in the queue.  The session it belongs to *)
(* need not be open any more: what it reads or writes then is lost.        *)
(***************************************************************************)
Open == session.by = "assignment"

StartHook(s) ==
    /\ hook[s] = "queued"
    /\ \/ /\ Open /\ saved[s].key # 0 /\ ~saved[s].subtask
          /\ CreateSubtask(s) /\ hook' = [hook EXCEPT ![s] = "created"]
       \/ hook' = [hook EXCEPT ![s] = "none"] /\ UNCHANGED subtasks
    /\ UNCHANGED <<saved, session, step, issue, pushes, moves, changes, lost>>

EndHook(s) ==
    /\ hook[s] = "created" /\ hook' = [hook EXCEPT ![s] = "none"]
    /\ IF Open THEN saved' = [saved EXCEPT ![s].subtask = TRUE] ELSE UNCHANGED saved
    /\ session' = [session EXCEPT !.rows = IF Open THEN saved' ELSE @]
    /\ UNCHANGED <<step, jira, pushes, moves, changes, lost>>

\* `hive assign' waits for the queue, the manager's autoAssignPlannedStories does not
EndAssignment ==
    /\ Open /\ session' = Closed(saved)
    /\ UNCHANGED <<saved, step, jira, hook, pushes, moves, changes, lost>>
-----------------------------------------------------------------------------
(***************************************************************************)
(* syncFromJira: each step takes the stories its query selects, one by     *)
(* one, and an error costs that story its turn only.                       *)
(***************************************************************************)
Unsynced(row) == row.key = 0 /\ row.status # "draft"
FaultyMissesSubtask(row) == row.key # 0 /\ ~row.subtask /\ row.status = "in_progress"
MissesSubtask(row) == row.key # 0 /\ row.assigned /\ ~row.subtask /\ row.status # "merged"
HasIssue(row) == row.key # 0 /\ row.status # "merged"

Selects(at, row) ==
    CASE at = 1 -> Unsynced(row)
      [] at = 2 -> MissesSubtask(row)
      [] OTHER -> HasIssue(row)

At(name) == step.at # 0 /\ SyncSteps[step.at] = name
Work(rows) == session' = [session EXCEPT !.rows = rows]
Turn(s) == s \in step.left /\ step' = [step EXCEPT !.left = @ \ {s}]

BeginStep(at) == step' = [at |-> at, left |-> {s \in Story : Selects(at, session.rows[s])}]

BeginSync ==
    /\ session.by = "nobody"
    /\ session' = [by |-> "sync", rows |-> saved] /\ BeginStep(1)
    /\ UNCHANGED <<saved, jira, hook, pushes, moves, changes, lost>>

NextStep ==
    /\ step.at \in 1 .. Len(SyncSteps) - 1 /\ step.left = {}
    /\ BeginStep(step.at + 1)
    /\ UNCHANGED <<saved, session, jira, hook, pushes, moves, changes, lost>>

FaultySavedAfterSync == saved       \* nothing is saved unless a status was pulled
SavedAfterSync == session.rows

EndSync ==
    /\ At("push") /\ step.left = {}
    /\ saved' = SavedAfterSync /\ session' = Closed(SavedAfterSync) /\ step' = Idle
    /\ UNCHANGED <<jira, hook, pushes, moves, changes, lost>>

\* any of the steps: an error of the API is logged
CallFails(s) ==
    /\ Turn(s)
    /\ UNCHANGED <<saved, session, jira, hook, pushes, moves, changes, lost>>

SyncIssue(s) ==
    /\ At("issues") /\ Turn(s)
    /\ CreateIssue(s)
    /\ Work([session.rows EXCEPT ![s].key = Len(issue')])
    /\ UNCHANGED <<saved, subtasks, hook, pushes, moves, changes, lost>>

\* Jira has made the issue, but its answer does not arrive
AnswerLost(s) ==
    /\ moves + lost < MaxMishaps /\ lost' = lost + 1
    /\ At("issues") /\ Turn(s)
    /\ CreateIssue(s)
    /\ UNCHANGED <<saved, session, subtasks, hook, pushes, moves, changes>>

RepairSubtask(s) ==
    /\ At("subtasks") /\ Turn(s)
    /\ CreateSubtask(s)
    /\ LET row == session.rows[s] IN
          /\ Work([session.rows EXCEPT ![s].subtask = TRUE])
          /\ IF row.status = "planned" THEN UNCHANGED issue
             ELSE transitionJiraIssue(row.key, row.status)
    /\ UNCHANGED <<saved, hook, pushes, moves, changes, lost>>

PullStatus(s) ==
    /\ At("pull") /\ Turn(s)
    /\ LET row == session.rows[s] jiraStatus == issue[row.key].status IN
          /\ jiraStatus \in Mapped /\ jiraStatus # row.status
          /\ ~isStatusRegression(row.status, jiraStatus) /\ isForwardTransition(row.status, jiraStatus)
          /\ Work([session.rows EXCEPT ![s].status = jiraStatus])
    /\ UNCHANGED <<saved, jira, hook, pushes, moves, changes, lost>>

Differs(jiraStatus, row) == jiraStatus \in Mapped /\ jiraStatus # row.status

\* the other way round: the arguments are swapped
FaultyIsBehind(jiraStatus, row) ==
    Differs(jiraStatus, row) /\ isForwardTransition(row.status, jiraStatus)
IsBehind(jiraStatus, row) ==
    Differs(jiraStatus, row) /\ isForwardTransition(jiraStatus, row.status)

PushIfBehind(s) ==
    /\ At("push") /\ Turn(s)
    /\ LET row == session.rows[s] IN
          /\ IsBehind(issue[row.key].status, row)
          /\ row.status \in Mapped
          /\ issue' = [issue EXCEPT ![row.key].status = row.status]
    /\ UNCHANGED <<saved, session, subtasks, hook, pushes, moves, changes, lost>>

\* the manager dies, or cannot save: the session and what waits in its queue are gone
SessionLost ==
    /\ session.by # "nobody" /\ moves + lost < MaxMishaps /\ lost' = lost + 1
    /\ session' = Closed(saved) /\ step' = Idle
    /\ hook' = [s \in Story |-> "none"] /\ pushes' = {}
    /\ UNCHANGED <<saved, jira, moves, changes>>

Sync ==
    \/ BeginSync \/ NextStep \/ EndSync
    \/ \E s \in Story :
          \/ CallFails(s) \/ SyncIssue(s) \/ AnswerLost(s)
          \/ RepairSubtask(s) \/ PullStatus(s) \/ PushIfBehind(s)

Next ==
    \/ Sync \/ SessionLost \/ EndAssignment
    \/ \E i \in 1 .. Len(issue), st \in Status \cup {"unmapped"} : MoveIssue(i, st)
    \/ \E s \in Story :
          \/ SyncStory(s) \/ AssignStory(s) \/ StartHook(s) \/ EndHook(s)
          \/ \E st \in Status : ChangeStatus(s, st) \/ PushStatus(s, st)

Spec == Init /\ [][Next]_vars

(***************************************************************************)
(* The manager checks again and again, sessions end, and a call that is    *)
(* made again and again is answered in the end.                            *)
(***************************************************************************)
Fairness ==
    /\ WF_vars(Sync) /\ WF_vars(EndAssignment)
    /\ \A s \in Story :
          SF_vars(SyncIssue(s)) /\ SF_vars(RepairSubtask(s)) /\ SF_vars(PushIfBehind(s))

FairSpec == Spec /\ Fairness
-----------------------------------------------------------------------------
(***************************************************************************)
(* Check after check, a story is not given another issue: it takes a lost  *)
(* answer or a lost session for each one too many.                         *)
(***************************************************************************)
OneIssueForAStory ==
    \A s \in Story : Cardinality({i \in 1 .. Len(issue) : issue[i].story = s}) <= 1 + lost

(***************************************************************************)
(* Every story that is past its draft gets an issue, however it was made   *)
(* and however far it has gone by then.                                    *)
(***************************************************************************)
StoriesReachTheTracker ==
    \A s \in Story : (saved[s].status # "draft") ~> (saved[s].key # 0)

(***************************************************************************)
(* What a failed or overtaken push left behind is made up for: a status    *)
(* that lasts gets to Jira, whatever columns the issue has been through,   *)
(* unless the issue is ahead or in a column without a mapping.             *)
(***************************************************************************)
Behind(s, st) ==
    /\ HasIssue(saved[s]) /\ saved[s].status = st
    /\ LET jiraStatus == issue[saved[s].key].status IN
          jiraStatus \in Mapped /\ jiraStatus # st /\ isForwardTransition(jiraStatus, st)

TrackerCatchesUp ==
    \A s \in Story : \A st \in Mapped \ {"draft"} : Behind(s, st) ~> ~Behind(s, st)

(***************************************************************************)
(* An assigned story gets a subtask even if its hook came too early,       *)
(* before the story had an issue, or failed.                               *)
(***************************************************************************)
AwaitsSubtask(s) == HasIssue(saved[s]) /\ saved[s].assigned /\ ~saved[s].subtask

AssignedStoriesGetSubtasks ==
    \A s \in Story : AwaitsSubtask(s) ~> ~AwaitsSubtask(s)

(***************************************************************************)
(* scheduler.ts: "skip if subtask was already created (prevents duplicates *)
(* if both the original hook and the repair loop fire for the same story)" *)
(***************************************************************************)
OneSubtaskForAStory == \A s \in Story : subtasks[s] <= 1

=============================================================================
