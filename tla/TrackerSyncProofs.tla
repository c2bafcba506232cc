-------------------------- MODULE TrackerSyncProofs --------------------------
(***************************************************************************)
(* Proofs about TrackerSync, for any stories, mapping and bounds.          *)
(*                                                                         *)
(* IssuesCounted is what makes OneIssueForAStory inductive: an issue of a  *)
(* story is the one its row knows, in the session under way, or there is a *)
(* lost answer or session to account for it.                               *)
(***************************************************************************)
EXTENDS TrackerSync, FiniteSetTheorems, TLAPS

Issue == [story : Story, status : Mapped \cup {"unmapped"}]
SessionType == [by : {"nobody", "sync", "assignment"}, rows : [Story -> Row]]
StepType == [at : 0 .. 4, left : SUBSET Story]

(* TypeOK in parts. *)
RowsOK == saved \in [Story -> Row] /\ session \in SessionType
StepOK == step \in StepType
JiraOK == issue \in Seq(Issue) /\ subtasks \in [Story -> Nat]
QueueOK == hook \in [Story -> {"none", "queued", "created"}] /\ pushes \subseteq Story \X Status
BoundsOK == moves \in 0 .. MaxMishaps /\ changes \in 0 .. MaxChanges /\ lost \in 0 .. MaxMishaps

\* Only a sync works on rows that are not saved, and only while it takes its steps.
SessionInv ==
    /\ step.at # 0 <=> session.by = "sync"
    /\ step.at = 0 => step.left = {}
    /\ session.by # "sync" => session.rows = saved

\* Its first step has only stories left that have no issue yet.
LeftInv == step.at = 1 => \A s \in step.left : session.rows[s].key = 0

IssuesOf(jiraIssues, s) == {i \in 1 .. Len(jiraIssues) : jiraIssues[i].story = s}
Known(rows, s) == IF rows[s].key = 0 THEN 0 ELSE 1

IssuesCounted == \A s \in Story : Cardinality(IssuesOf(issue, s)) <= Known(session.rows, s) + lost

\* The issue a row knows is one of its own story.
KeyOK(row, s, jiraIssues) ==
    row.key # 0 => row.key \in 1 .. Len(jiraIssues) /\ jiraIssues[row.key].story = s
KeysAreOfTheStory ==
    \A s \in Story : KeyOK(saved[s], s, issue) /\ KeyOK(session.rows[s], s, issue)

Typed == RowsOK /\ StepOK /\ JiraOK /\ QueueOK /\ BoundsOK
Inv == Typed /\ SessionInv /\ LeftInv /\ IssuesCounted /\ KeysAreOfTheStory

LEMMA InvIsTyped == Inv => TypeOK
<1>1. Len(SyncSteps) = 4
  BY DEF SyncSteps
<1> QED
  BY <1>1 DEF Inv, Typed, TypeOK, RowsOK, StepOK, JiraOK, QueueOK, BoundsOK, SessionType, StepType, Issue

-----------------------------------------------------------------------------
(* Statuses and steps. *)

LEMMA StatusesAre ==
  Status = {"draft", "estimated", "planned", "in_progress", "review", "pr_submitted", "qa",
            "qa_failed", "merged"}
BY DEF Status, STATUS_ORDER

LEMMA StepsAre ==
  ASSUME StepOK
  PROVE  /\ At("issues") <=> step.at = 1
         /\ At("subtasks") <=> step.at = 2
         /\ At("pull") <=> step.at = 3
         /\ At("push") <=> step.at = 4
<1>1. step.at \in {0, 1, 2, 3, 4}
  BY DEF StepOK, StepType
<1>2. SyncSteps[1] = "issues" /\ SyncSteps[2] = "subtasks" /\ SyncSteps[3] = "pull" /\ SyncSteps[4] = "push"
  BY DEF SyncSteps
<1> QED
  BY <1>1, <1>2 DEF At

-----------------------------------------------------------------------------
(* Issues are numbered in the order they are made. *)

\* A new issue, of story s.
LEMMA IssueAppended ==
  ASSUME JiraOK, NEW s \in Story, CreateIssue(s)
  PROVE  /\ issue' \in Seq(Issue)
         /\ Len(issue') = Len(issue) + 1 /\ Len(issue) \in Nat
         /\ issue'[Len(issue')].story = s
         /\ \A i \in 1 .. Len(issue) : issue'[i] = issue[i]
<1>1. [story |-> s, status |-> "draft"] \in Issue
  BY TrackerAssumption DEF Issue
<1>2. issue \in Seq(Issue) /\ issue' = Append(issue, [story |-> s, status |-> "draft"])
  BY DEF JiraOK, CreateIssue
<1>3. Len(issue) \in Nat
  BY <1>2
<1> QED
  BY <1>1, <1>2, <1>3

LEMMA IssuesFinite ==
  ASSUME JiraOK, NEW s
  PROVE  IsFiniteSet(IssuesOf(issue, s)) /\ Cardinality(IssuesOf(issue, s)) \in Nat
<1>1. Len(issue) \in Nat
  BY DEF JiraOK
<1>2. IsFiniteSet(1 .. Len(issue)) /\ IssuesOf(issue, s) \subseteq 1 .. Len(issue)
  BY <1>1, FS_Interval DEF IssuesOf
<1> QED
  BY <1>2, FS_Subset, FS_CardinalityType

LEMMA IssueCountAppended ==
  ASSUME JiraOK, NEW s \in Story, CreateIssue(s)
  PROVE  /\ Cardinality(IssuesOf(issue', s)) = Cardinality(IssuesOf(issue, s)) + 1
         /\ \A r \in Story \ {s} : IssuesOf(issue', r) = IssuesOf(issue, r)
<1>1. /\ Len(issue') = Len(issue) + 1 /\ Len(issue) \in Nat
      /\ issue'[Len(issue')].story = s
      /\ \A i \in 1 .. Len(issue) : issue'[i] = issue[i]
  BY IssueAppended
<1>2. 1 .. Len(issue') = (1 .. Len(issue)) \cup {Len(issue')} /\ Len(issue') \notin 1 .. Len(issue)
  BY <1>1
<1>3. IssuesOf(issue', s) = IssuesOf(issue, s) \cup {Len(issue')}
  BY <1>1, <1>2 DEF IssuesOf
<1>4. Len(issue') \notin IssuesOf(issue, s)
  BY <1>2 DEF IssuesOf
<1>5. Cardinality(IssuesOf(issue', s)) = Cardinality(IssuesOf(issue, s)) + 1
  BY <1>3, <1>4, IssuesFinite, FS_AddElement
<1>6. \A r \in Story \ {s} : IssuesOf(issue', r) = IssuesOf(issue, r)
  BY <1>1, <1>2 DEF IssuesOf
<1> QED
  BY <1>5, <1>6

\* Issues that at most change their status.
OnlyStatuses ==
    /\ issue' \in Seq(Issue) /\ Len(issue') = Len(issue)
    /\ \A i \in 1 .. Len(issue) : issue'[i].story = issue[i].story

LEMMA StatusSet ==
  ASSUME JiraOK, NEW key \in Nat, NEW st \in Mapped \cup {"unmapped"},
         issue' = [issue EXCEPT ![key].status = st]
  PROVE  OnlyStatuses
<1>1. issue \in Seq(Issue) /\ Len(issue) \in Nat /\ DOMAIN issue = 1 .. Len(issue)
  BY DEF JiraOK
<1>2. \A i \in 1 .. Len(issue) : issue[i] \in Issue
  BY <1>1
<1>3. DOMAIN issue' = 1 .. Len(issue)
  BY <1>1
<1>4. \A i \in 1 .. Len(issue) : issue'[i] \in Issue /\ issue'[i].story = issue[i].story
  BY <1>1, <1>2 DEF Issue
<1>5. issue' \in [1 .. Len(issue) -> Issue]
  BY <1>1, <1>4
<1>6. issue' \in Seq(Issue) /\ Len(issue') = Len(issue)
  BY <1>1, <1>5
<1> QED
  BY <1>4, <1>6 DEF OnlyStatuses

LEMMA SameIssues ==
  ASSUME JiraOK, UNCHANGED issue
  PROVE  OnlyStatuses
BY DEF JiraOK, OnlyStatuses

LEMMA Transitioned ==
  ASSUME JiraOK, NEW key \in Nat, NEW st, transitionJiraIssue(key, st)
  PROVE  OnlyStatuses
BY StatusSet, SameIssues DEF transitionJiraIssue

-----------------------------------------------------------------------------
(* Steps that make no issue. *)

LEMMA NoIssueMade ==
  ASSUME Inv, Typed', OnlyStatuses,
         \A s \in Story : /\ saved'[s].key \in {saved[s].key, session.rows[s].key}
                          /\ session'.rows[s].key \in {saved[s].key, session.rows[s].key},
         \/ lost' = lost /\ \A s \in Story : session'.rows[s].key = session.rows[s].key
         \/ lost' = lost + 1
  PROVE  IssuesCounted' /\ KeysAreOfTheStory'
<1>1. \A s \in Story : IssuesOf(issue', s) = IssuesOf(issue, s)
  BY DEF OnlyStatuses, IssuesOf
<1>2. lost \in Nat
  BY DEF Inv, Typed, BoundsOK
<1>3. IssuesCounted'
  <2> SUFFICES ASSUME NEW s \in Story
               PROVE  Cardinality(IssuesOf(issue', s)) <= Known(session'.rows, s) + lost'
    BY DEF IssuesCounted
  <2>1. Cardinality(IssuesOf(issue, s)) \in Nat
    BY IssuesFinite DEF Inv, Typed
  <2>2. Cardinality(IssuesOf(issue, s)) <= Known(session.rows, s) + lost
    BY DEF Inv, IssuesCounted
  <2>3. Known(session'.rows, s) + lost' >= Known(session.rows, s) + lost
    BY <1>2 DEF Known
  <2>4. Known(session'.rows, s) \in Nat /\ Known(session.rows, s) \in Nat /\ lost' \in Nat
    BY <1>2 DEF Known
  <2> QED
    BY <1>1, <1>2, <2>1, <2>2, <2>3, <2>4
<1>4. KeysAreOfTheStory'
  <2> SUFFICES ASSUME NEW s \in Story
               PROVE  KeyOK(saved'[s], s, issue') /\ KeyOK(session'.rows[s], s, issue')
    BY DEF KeysAreOfTheStory
  <2>1. KeyOK(saved[s], s, issue) /\ KeyOK(session.rows[s], s, issue)
    BY DEF Inv, KeysAreOfTheStory
  <2> QED
    BY <2>1 DEF KeyOK, OnlyStatuses
<1> QED
  BY <1>3, <1>4

\* Rows that keep their keys, while nobody's sync has them.
LEMMA OutsideOfSync ==
  ASSUME Inv, session.by # "sync", session'.by # "sync", Typed', OnlyStatuses, step' = step,
         session'.rows = saved', \A s \in Story : saved'[s].key = saved[s].key, lost' = lost
  PROVE  Inv'
<1>1. SessionInv' /\ LeftInv'
  BY DEF Inv, SessionInv, LeftInv
<1>2. IssuesCounted' /\ KeysAreOfTheStory'
  <2>1. session.rows = saved
    BY DEF Inv, SessionInv
  <2> QED
    BY <2>1, NoIssueMade
<1> QED
  BY <1>1, <1>2 DEF Inv

\* Nothing but the board, the queue and the counts of what happened changes.
LEMMA RowsAlone ==
  ASSUME Inv, QueueOK', BoundsOK', subtasks' \in [Story -> Nat], OnlyStatuses,
         UNCHANGED <<saved, session, step, lost>>
  PROVE  Inv'
<1>1. Typed'
  BY DEF Inv, Typed, RowsOK, StepOK, JiraOK, OnlyStatuses
<1>2. SessionInv' /\ LeftInv'
  BY DEF Inv, SessionInv, LeftInv
<1>3. IssuesCounted' /\ KeysAreOfTheStory'
  BY <1>1, NoIssueMade
<1> QED
  BY <1>1, <1>2, <1>3 DEF Inv

LEMMA MoveInv ==
  ASSUME Inv, NEW i \in 1 .. Len(issue), NEW st, MoveIssue(i, st)
  PROVE  Inv'
<1>1. JiraOK /\ Len(issue) \in Nat
  BY DEF Inv, Typed, JiraOK
<1>2. OnlyStatuses
  <2>1. i \in Nat /\ st \in Mapped \cup {"unmapped"} /\ issue' = [issue EXCEPT ![i].status = st]
    BY <1>1 DEF MoveIssue
  <2> QED
    BY <1>1, <2>1, StatusSet
<1>3. BoundsOK'
  BY TrackerAssumption DEF MoveIssue, Inv, Typed, BoundsOK
<1>4. QueueOK' /\ subtasks' \in [Story -> Nat]
  BY DEF MoveIssue, Inv, Typed, QueueOK, JiraOK
<1> QED
  BY <1>2, <1>3, <1>4, RowsAlone DEF MoveIssue

LEMMA ChangeStatusInv ==
  ASSUME Inv, NEW s \in Story, NEW st \in Status, ChangeStatus(s, st)
  PROVE  Inv'
<1>1. saved \in [Story -> Row]
  BY DEF Inv, Typed, RowsOK
<1>2. /\ saved' \in [Story -> Row] /\ \A r \in Story : saved'[r].key = saved[r].key
  BY <1>1 DEF ChangeStatus, Row
<1>3. Typed'
  <2>1. RowsOK'
    BY <1>2 DEF ChangeStatus, Closed, RowsOK, SessionType
  <2>2. StepOK' /\ JiraOK'
    BY DEF ChangeStatus, jira, Inv, Typed, StepOK, JiraOK
  <2>3. QueueOK'
    BY DEF ChangeStatus, Inv, Typed, QueueOK
  <2>4. BoundsOK'
    BY TrackerAssumption DEF ChangeStatus, Inv, Typed, BoundsOK
  <2> QED
    BY <2>1, <2>2, <2>3, <2>4 DEF Typed
<1>4. OnlyStatuses
  BY SameIssues DEF ChangeStatus, jira, Inv, Typed
<1> QED
  BY <1>2, <1>3, <1>4, OutsideOfSync DEF ChangeStatus, Closed

LEMMA AssignStoryInv ==
  ASSUME Inv, NEW s \in Story, AssignStory(s)
  PROVE  Inv'
<1>1. saved \in [Story -> Row]
  BY DEF Inv, Typed, RowsOK
<1>2. /\ saved' \in [Story -> Row] /\ \A r \in Story : saved'[r].key = saved[r].key
  BY <1>1, StatusesAre DEF AssignStory, Row
<1>3. Typed'
  <2>1. RowsOK'
    BY <1>2 DEF AssignStory, RowsOK, SessionType
  <2>2. StepOK' /\ JiraOK'
    BY DEF AssignStory, jira, Inv, Typed, StepOK, JiraOK
  <2>3. QueueOK'
    BY StatusesAre DEF AssignStory, Inv, Typed, QueueOK
  <2>4. BoundsOK'
    BY TrackerAssumption DEF AssignStory, Inv, Typed, BoundsOK
  <2> QED
    BY <2>1, <2>2, <2>3, <2>4 DEF Typed
<1>4. OnlyStatuses
  BY SameIssues DEF AssignStory, jira, Inv, Typed
<1> QED
  BY <1>2, <1>3, <1>4, OutsideOfSync DEF AssignStory

LEMMA HooksInv ==
  ASSUME Inv, NEW s \in Story, StartHook(s) \/ EndHook(s) \/ \E st \in Status : PushStatus(s, st)
  PROVE  Inv'
<1>0. JiraOK /\ QueueOK /\ saved \in [Story -> Row]
  BY DEF Inv, Typed, RowsOK
<1>1. CASE StartHook(s)
  <2>1. QueueOK' /\ subtasks' \in [Story -> Nat]
    <3>1. subtasks \in [Story -> Nat] /\ subtasks[s] + 1 \in Nat
      BY <1>0 DEF JiraOK
    <3>2. subtasks' = subtasks \/ subtasks' = [subtasks EXCEPT ![s] = subtasks[s] + 1]
      BY <1>1 DEF StartHook, CreateSubtask
    <3>3. QueueOK'
      BY <1>0, <1>1 DEF StartHook, QueueOK
    <3> QED
      BY <3>1, <3>2, <3>3
  <2>2. BoundsOK' /\ OnlyStatuses
    BY <1>0, <1>1, SameIssues DEF StartHook, Inv, Typed, BoundsOK
  <2> QED
    BY <1>1, <2>1, <2>2, RowsAlone DEF StartHook
<1>2. CASE \E st \in Status : PushStatus(s, st)
  <2>1. QueueOK' /\ subtasks' \in [Story -> Nat]
    BY <1>0, <1>2 DEF PushStatus, QueueOK, JiraOK
  <2>2. saved[s].key \in Nat
    BY <1>0 DEF Row
  <2>3. BoundsOK' /\ OnlyStatuses
    BY <1>0, <1>2, <2>2, Transitioned DEF PushStatus, Inv, Typed, BoundsOK
  <2> QED
    BY <1>2, <2>1, <2>3, RowsAlone DEF PushStatus
<1>3. CASE EndHook(s) /\ ~Open
  <2>1. UNCHANGED <<saved, session>>
    BY <1>3 DEF EndHook, Inv, Typed, RowsOK, SessionType
  <2>2. QueueOK' /\ subtasks' \in [Story -> Nat]
    BY <1>0, <1>3 DEF EndHook, QueueOK, JiraOK, jira
  <2>3. BoundsOK' /\ OnlyStatuses
    BY <1>0, <1>3, SameIssues DEF EndHook, jira, Inv, Typed, BoundsOK
  <2> QED
    BY <1>3, <2>1, <2>2, <2>3, RowsAlone DEF EndHook
<1>4. CASE EndHook(s) /\ Open
  <2>1. session \in SessionType
    BY DEF Inv, Typed, RowsOK
  <2>2. saved' = [saved EXCEPT ![s].subtask = TRUE] /\ session' = [session EXCEPT !.rows = saved']
    BY <1>4 DEF EndHook
  <2>3. saved' \in [Story -> Row] /\ \A r \in Story : saved'[r].key = saved[r].key
    BY <1>0, <2>2 DEF Row
  <2>4. session'.rows = saved' /\ session'.by = "assignment" /\ session' \in SessionType
    BY <1>4, <2>1, <2>2, <2>3 DEF SessionType, Open
  <2>5. QueueOK' /\ JiraOK' /\ StepOK' /\ BoundsOK'
    BY <1>0, <1>4 DEF EndHook, QueueOK, JiraOK, jira, Inv, Typed, StepOK, BoundsOK
  <2>6. Typed'
    BY <2>3, <2>4, <2>5 DEF Typed, RowsOK
  <2>7. OnlyStatuses
    BY <1>0, <1>4, SameIssues DEF EndHook, jira
  <2> QED
    BY <1>4, <2>3, <2>4, <2>6, <2>7, OutsideOfSync DEF EndHook, Open
<1> QED
  BY <1>1, <1>2, <1>3, <1>4

LEMMA EndAssignmentInv ==
  ASSUME Inv, EndAssignment
  PROVE  Inv'
<1>1. Typed'
  BY DEF EndAssignment, Closed, jira, Inv, Typed, RowsOK, SessionType, StepOK, JiraOK, QueueOK, BoundsOK
<1>2. OnlyStatuses
  BY SameIssues DEF EndAssignment, jira, Inv, Typed
<1> QED
  BY <1>1, <1>2, OutsideOfSync DEF EndAssignment, Closed, Open

LEMMA SessionLostInv ==
  ASSUME Inv, SessionLost
  PROVE  Inv'
<1>1. BoundsOK'
  BY TrackerAssumption DEF SessionLost, Inv, Typed, BoundsOK
<1>2. Typed'
  BY <1>1 DEF SessionLost, Closed, Idle, jira, Inv, Typed, RowsOK, SessionType, StepOK, StepType, JiraOK, QueueOK
<1>3. OnlyStatuses
  BY SameIssues DEF SessionLost, jira, Inv, Typed
<1>4. session'.rows = saved /\ session'.by = "nobody" /\ step'.at = 0 /\ step'.left = {}
      /\ lost' = lost + 1 /\ saved' = saved
  BY DEF SessionLost, Closed, Idle
<1>5. IssuesCounted' /\ KeysAreOfTheStory'
  BY <1>2, <1>3, <1>4, NoIssueMade
<1>6. SessionInv' /\ LeftInv'
  BY <1>4 DEF SessionInv, LeftInv
<1> QED
  BY <1>2, <1>5, <1>6 DEF Inv

-----------------------------------------------------------------------------
(* Steps that make an issue, for a row that knows none. *)

LEMMA IssueMade ==
  ASSUME Inv, Typed', NEW s \in Story, CreateIssue(s), session.rows[s].key = 0,
         \/ lost' = lost /\ session'.rows[s].key # 0
         \/ lost' = lost + 1,
         \A r \in Story \ {s} : saved'[r].key = saved[r].key
                                /\ session'.rows[r].key = session.rows[r].key,
         saved'[s].key \in {saved[s].key, Len(issue')},
         session'.rows[s].key \in {session.rows[s].key, Len(issue')}
  PROVE  IssuesCounted' /\ KeysAreOfTheStory'
<1>1. /\ Len(issue') = Len(issue) + 1 /\ Len(issue) \in Nat
      /\ issue'[Len(issue')].story = s
      /\ \A i \in 1 .. Len(issue) : issue'[i] = issue[i]
  BY IssueAppended DEF Inv, Typed
<1>2. /\ Cardinality(IssuesOf(issue', s)) = Cardinality(IssuesOf(issue, s)) + 1
      /\ \A r \in Story \ {s} : IssuesOf(issue', r) = IssuesOf(issue, r)
  BY IssueCountAppended DEF Inv, Typed
<1>3. lost \in Nat
  BY DEF Inv, Typed, BoundsOK
<1>4. IssuesCounted'
  <2> SUFFICES ASSUME NEW r \in Story
               PROVE  Cardinality(IssuesOf(issue', r)) <= Known(session'.rows, r) + lost'
    BY DEF IssuesCounted
  <2>1. Cardinality(IssuesOf(issue, r)) \in Nat
    BY IssuesFinite DEF Inv, Typed
  <2>2. Cardinality(IssuesOf(issue, r)) <= Known(session.rows, r) + lost
    BY DEF Inv, IssuesCounted
  <2>3. CASE r = s
    BY <1>2, <1>3, <2>1, <2>2, <2>3 DEF Known
  <2>4. CASE r # s
    <3>1. Known(session'.rows, r) = Known(session.rows, r) /\ Known(session.rows, r) \in Nat
      BY <2>4 DEF Known
    <3> QED
      BY <1>2, <1>3, <2>1, <2>2, <2>4, <3>1
  <2> QED
    BY <2>3, <2>4
<1>5. KeysAreOfTheStory'
  <2> SUFFICES ASSUME NEW r \in Story
               PROVE  KeyOK(saved'[r], r, issue') /\ KeyOK(session'.rows[r], r, issue')
    BY DEF KeysAreOfTheStory
  <2>1. KeyOK(saved[r], r, issue) /\ KeyOK(session.rows[r], r, issue)
    BY DEF Inv, KeysAreOfTheStory
  <2>2. KeyOK(saved[r], r, issue') /\ KeyOK(session.rows[r], r, issue')
    BY <1>1, <2>1 DEF KeyOK
  <2>3. Len(issue') \in 1 .. Len(issue')
    BY <1>1
  <2> QED
    BY <1>1, <2>2, <2>3 DEF KeyOK
<1> QED
  BY <1>4, <1>5

LEMMA SyncStoryInv ==
  ASSUME Inv, NEW s \in Story, SyncStory(s)
  PROVE  Inv'
<1>1. /\ saved \in [Story -> Row] /\ JiraOK /\ session.by = "nobody" /\ session.rows = saved
      /\ saved[s].key = 0 /\ CreateIssue(s)
  BY DEF Inv, Typed, RowsOK, SessionInv, SyncStory
<1>2. issue' \in Seq(Issue) /\ Len(issue') \in Nat /\ Len(issue') # 0
  BY <1>1, IssueAppended
<1>3. /\ saved' \in [Story -> Row] /\ session' \in SessionType
      /\ session'.rows = saved' /\ session'.by = "nobody"
      /\ \A r \in Story \ {s} : saved'[r].key = saved[r].key
      /\ \/ lost' = lost /\ saved'[s].key = Len(issue')
         \/ moves + lost < MaxMishaps /\ lost' = lost + 1 /\ saved'[s].key = saved[s].key
  <2>1. CASE saved' = [saved EXCEPT ![s].key = Len(issue')] /\ session' = Closed(saved') /\ UNCHANGED lost
    BY <1>1, <1>2, <2>1 DEF Row, Closed, SessionType
  <2>2. CASE moves + lost < MaxMishaps /\ lost' = lost + 1 /\ UNCHANGED <<saved, session>>
    BY <1>1, <2>2 DEF Inv, Typed, RowsOK
  <2> QED
    BY <2>1, <2>2 DEF SyncStory
<1>4. Typed'
  <2>1. BoundsOK'
    BY <1>3, TrackerAssumption DEF SyncStory, Inv, Typed, BoundsOK
  <2>2. StepOK' /\ QueueOK' /\ JiraOK'
    BY <1>2 DEF SyncStory, Inv, Typed, StepOK, QueueOK, JiraOK
  <2> QED
    BY <1>3, <2>1, <2>2 DEF Typed, RowsOK
<1>5. IssuesCounted' /\ KeysAreOfTheStory'
  BY <1>1, <1>2, <1>3, <1>4, IssueMade
<1>6. SessionInv' /\ LeftInv'
  BY <1>3 DEF SyncStory, Inv, SessionInv, LeftInv
<1> QED
  BY <1>4, <1>5, <1>6 DEF Inv

\* What a turn of a story does to the step.
LEMMA TurnOK ==
  ASSUME Inv, NEW s \in Story, Turn(s)
  PROVE  /\ step' \in StepType /\ step'.at = step.at /\ step'.left = step.left \ {s}
         /\ step.at # 0 /\ session.by = "sync" /\ s \in step.left
BY DEF Inv, Typed, StepOK, StepType, SessionInv, Turn

\* The rows the session works on.
LEMMA WorkOK ==
  ASSUME Inv, NEW rows \in [Story -> Row], Work(rows)
  PROVE  session' \in SessionType /\ session'.rows = rows /\ session'.by = session.by
BY DEF Inv, Typed, RowsOK, SessionType, Work

LEMMA IssueStepInv ==
  ASSUME Inv, NEW s \in Story, SyncIssue(s) \/ AnswerLost(s)
  PROVE  Inv'
<1>1. /\ step' \in StepType /\ step'.at = step.at /\ step'.left = step.left \ {s}
      /\ step.at = 1 /\ session.by = "sync" /\ s \in step.left
  BY TurnOK, StepsAre DEF SyncIssue, AnswerLost, Inv, Typed
<1>2. session.rows[s].key = 0 /\ CreateIssue(s) /\ UNCHANGED <<saved, subtasks, hook, pushes, moves, changes>>
  BY <1>1 DEF Inv, LeftInv, SyncIssue, AnswerLost
<1>3. issue' \in Seq(Issue) /\ Len(issue') \in Nat /\ Len(issue') # 0
  BY <1>2, IssueAppended DEF Inv, Typed
<1>4. session.rows \in [Story -> Row]
  BY DEF Inv, Typed, RowsOK, SessionType
<1>5. /\ session' \in SessionType /\ session'.by = "sync"
      /\ \A r \in Story \ {s} : session'.rows[r].key = session.rows[r].key
      /\ \/ lost' = lost /\ session'.rows[s].key = Len(issue')
         \/ moves + lost < MaxMishaps /\ lost' = lost + 1 /\ session'.rows[s].key = session.rows[s].key
  <2>1. CASE SyncIssue(s)
    <3>1. Work([session.rows EXCEPT ![s].key = Len(issue')]) /\ lost' = lost
      BY <2>1 DEF SyncIssue
    <3>2. [session.rows EXCEPT ![s].key = Len(issue')] \in [Story -> Row]
      BY <1>3, <1>4 DEF Row
    <3>3. session' \in SessionType /\ session'.rows = [session.rows EXCEPT ![s].key = Len(issue')]
          /\ session'.by = "sync"
      BY <1>1, <3>1, <3>2, WorkOK
    <3> QED
      BY <1>4, <3>1, <3>3 DEF Row
  <2>2. CASE AnswerLost(s)
    BY <1>1, <2>2 DEF AnswerLost, Inv, Typed, RowsOK
  <2> QED
    BY <2>1, <2>2
<1>6. Typed'
  <2>1. BoundsOK'
    BY <1>2, <1>5, TrackerAssumption DEF Inv, Typed, BoundsOK
  <2>2. StepOK' /\ QueueOK' /\ JiraOK' /\ saved' \in [Story -> Row]
    BY <1>1, <1>2, <1>3 DEF Inv, Typed, StepOK, QueueOK, JiraOK, RowsOK
  <2> QED
    BY <1>5, <2>1, <2>2 DEF Typed, RowsOK
<1>7. IssuesCounted' /\ KeysAreOfTheStory'
  BY <1>2, <1>3, <1>5, <1>6, IssueMade
<1>8. SessionInv'
  BY <1>1, <1>5 DEF SessionInv
<1>9. LeftInv'
  <2>1. \A r \in step'.left : r \in Story /\ r # s /\ r \in step.left
    BY <1>1 DEF StepType, Inv, Typed, StepOK
  <2> QED
    BY <1>1, <1>5, <2>1 DEF Inv, LeftInv
<1> QED
  BY <1>6, <1>7, <1>8, <1>9 DEF Inv

-----------------------------------------------------------------------------
(* The other steps of a sync. *)

\* A turn that leaves the keys alone.
LEMMA TurnInv ==
  ASSUME Inv, NEW s \in Story, Turn(s), session' \in SessionType, session'.by = session.by,
         \A r \in Story : session'.rows[r].key = session.rows[r].key,
         subtasks' \in [Story -> Nat], OnlyStatuses,
         UNCHANGED <<saved, hook, pushes, moves, changes, lost>>
  PROVE  Inv'
<1>1. /\ step' \in StepType /\ step'.at = step.at /\ step'.left = step.left \ {s}
      /\ step.at # 0 /\ session.by = "sync"
  BY TurnOK
<1>2. Typed'
  BY <1>1 DEF Inv, Typed, RowsOK, StepOK, JiraOK, QueueOK, BoundsOK, OnlyStatuses
<1>3. IssuesCounted' /\ KeysAreOfTheStory'
  BY <1>2, NoIssueMade
<1>4. SessionInv'
  BY <1>1 DEF SessionInv
<1>5. LeftInv'
  BY <1>1 DEF Inv, LeftInv, Typed, StepOK, StepType
<1> QED
  BY <1>2, <1>3, <1>4, <1>5 DEF Inv

LEMMA TurnsInv ==
  ASSUME Inv, NEW s \in Story, CallFails(s) \/ RepairSubtask(s) \/ PullStatus(s) \/ PushIfBehind(s)
  PROVE  Inv'
<1>0. /\ session \in SessionType /\ session.rows \in [Story -> Row] /\ session.rows[s] \in Row
      /\ JiraOK /\ subtasks \in [Story -> Nat]
  BY DEF Inv, Typed, RowsOK, SessionType, JiraOK
<1>1. CASE CallFails(s)
  BY <1>0, <1>1, SameIssues, TurnInv DEF CallFails, jira
<1>2. CASE RepairSubtask(s)
  <2>1. Work([session.rows EXCEPT ![s].subtask = TRUE]) /\ Turn(s)
        /\ subtasks' = [subtasks EXCEPT ![s] = subtasks[s] + 1]
        /\ (UNCHANGED issue \/ transitionJiraIssue(session.rows[s].key, session.rows[s].status))
        /\ UNCHANGED <<saved, hook, pushes, moves, changes, lost>>
    BY <1>2 DEF RepairSubtask, CreateSubtask
  <2>2. OnlyStatuses
    BY <1>0, <2>1, SameIssues, Transitioned DEF Row
  <2>3. [session.rows EXCEPT ![s].subtask = TRUE] \in [Story -> Row]
    BY <1>0 DEF Row
  <2>4. session' \in SessionType /\ session'.by = session.by
        /\ session'.rows = [session.rows EXCEPT ![s].subtask = TRUE]
    BY <2>1, <2>3, WorkOK
  <2>5. \A r \in Story : session'.rows[r].key = session.rows[r].key
    BY <1>0, <2>4 DEF Row
  <2>6. subtasks' \in [Story -> Nat]
    BY <1>0, <2>1
  <2> QED
    BY <2>1, <2>2, <2>4, <2>5, <2>6, TurnInv
<1>3. CASE PullStatus(s)
  <2> DEFINE st == issue[session.rows[s].key].status
  <2>1. Work([session.rows EXCEPT ![s].status = st]) /\ Turn(s) /\ st \in Status
        /\ UNCHANGED <<saved, jira, hook, pushes, moves, changes, lost>>
    BY <1>3, MappingAssumption DEF PullStatus
  <2> HIDE DEF st
  <2>2. [session.rows EXCEPT ![s].status = st] \in [Story -> Row]
    BY <1>0, <2>1 DEF Row
  <2>3. session' \in SessionType /\ session'.by = session.by
        /\ session'.rows = [session.rows EXCEPT ![s].status = st]
    BY <2>1, <2>2, WorkOK
  <2>4. \A r \in Story : session'.rows[r].key = session.rows[r].key
    BY <1>0, <2>3 DEF Row
  <2> QED
    BY <1>0, <2>1, <2>3, <2>4, SameIssues, TurnInv DEF jira
<1>4. CASE PushIfBehind(s)
  <2>1. Turn(s) /\ session.rows[s].status \in Mapped
        /\ issue' = [issue EXCEPT ![session.rows[s].key].status = session.rows[s].status]
        /\ UNCHANGED <<saved, session, subtasks, hook, pushes, moves, changes, lost>>
    BY <1>4 DEF PushIfBehind
  <2>2. OnlyStatuses
    BY <1>0, <2>1, StatusSet DEF Row
  <2> QED
    BY <1>0, <2>1, <2>2, TurnInv
<1> QED
  BY <1>1, <1>2, <1>3, <1>4

LEMMA BeginStepOK ==
  ASSUME NEW at \in 1 .. 4, BeginStep(at)
  PROVE  /\ step' \in StepType /\ step'.at = at
         /\ at = 1 => \A s \in step'.left : session'.rows[s].key = 0 \/ session'.rows # session.rows
BY DEF BeginStep, StepType, Selects, Unsynced

LEMMA SyncStepsInv ==
  ASSUME Inv, BeginSync \/ NextStep \/ EndSync
  PROVE  Inv'
<1>0. /\ session \in SessionType /\ session.rows \in [Story -> Row] /\ saved \in [Story -> Row]
      /\ JiraOK /\ step \in StepType
  BY DEF Inv, Typed, RowsOK, SessionType, StepOK
<1>1. CASE BeginSync
  <2>1. session' = [by |-> "sync", rows |-> saved] /\ session.rows = saved
    BY <1>1 DEF BeginSync, Inv, SessionInv
  <2>2. step' \in StepType /\ step'.at = 1 /\ LeftInv'
    BY <1>1, <2>1, BeginStepOK DEF BeginSync, LeftInv
  <2>3. Typed'
    BY <1>0, <1>1, <2>1, <2>2 DEF BeginSync, jira, Inv, Typed, RowsOK, SessionType, StepOK, JiraOK, QueueOK, BoundsOK
  <2>4. OnlyStatuses
    BY <1>0, <1>1, SameIssues DEF BeginSync, jira
  <2>5. IssuesCounted' /\ KeysAreOfTheStory'
    BY <1>1, <2>1, <2>3, <2>4, NoIssueMade DEF BeginSync
  <2>6. SessionInv'
    BY <2>1, <2>2 DEF SessionInv
  <2> QED
    BY <2>2, <2>3, <2>5, <2>6 DEF Inv
<1>2. CASE NextStep
  <2>0. step.at \in 1 .. 3
    <3>1. Len(SyncSteps) - 1 = 3
      BY DEF SyncSteps
    <3> QED
      BY <1>2, <3>1 DEF NextStep
  <2>1. step' \in StepType /\ step'.at = step.at + 1 /\ session.by = "sync" /\ session' = session
    BY <1>2, <2>0, BeginStepOK DEF NextStep, Inv, SessionInv
  <2>2. Typed'
    BY <1>0, <1>2, <2>1 DEF NextStep, jira, Inv, Typed, RowsOK, StepOK, JiraOK, QueueOK, BoundsOK
  <2>3. OnlyStatuses
    BY <1>0, <1>2, SameIssues DEF NextStep, jira
  <2>4. IssuesCounted' /\ KeysAreOfTheStory'
    BY <1>2, <2>1, <2>2, <2>3, NoIssueMade DEF NextStep
  <2>5. SessionInv' /\ LeftInv'
    BY <2>0, <2>1 DEF SessionInv, LeftInv
  <2> QED
    BY <2>2, <2>4, <2>5 DEF Inv
<1>3. CASE EndSync
  <2>1. /\ saved' = session.rows /\ session' = Closed(session.rows) /\ step' = Idle
        /\ UNCHANGED <<jira, hook, pushes, moves, changes, lost>>
    BY <1>3 DEF EndSync, SavedAfterSync
  <2>2. session'.rows = session.rows /\ session'.by = "nobody" /\ session' \in SessionType
    BY <1>0, <2>1 DEF Closed, SessionType
  <2>3. step'.at = 0 /\ step'.left = {} /\ step' \in StepType
    BY <2>1 DEF Idle, StepType
  <2>4. Typed'
    BY <1>0, <2>1, <2>2, <2>3 DEF jira, Inv, Typed, RowsOK, StepOK, JiraOK, QueueOK, BoundsOK
  <2>5. OnlyStatuses
    BY <1>0, <2>1, SameIssues DEF jira
  <2>6. IssuesCounted' /\ KeysAreOfTheStory'
    BY <2>1, <2>2, <2>4, <2>5, NoIssueMade
  <2>7. SessionInv' /\ LeftInv'
    BY <2>1, <2>2, <2>3 DEF SessionInv, LeftInv
  <2> QED
    BY <2>4, <2>6, <2>7 DEF Inv
<1> QED
  BY <1>1, <1>2, <1>3

-----------------------------------------------------------------------------
LEMMA InitInv == Init => Inv
<1> SUFFICES ASSUME Init PROVE Inv
  OBVIOUS
<1>1. saved \in [Story -> Row] /\ \A s \in Story : saved[s].key = 0
  <2>1. \A s \in Story : saved[s] \in Row /\ saved[s].key = 0
    <3> SUFFICES ASSUME NEW s \in Story PROVE saved[s] \in Row /\ saved[s].key = 0
      OBVIOUS
    <3>1. saved[s] \in [status : {"draft", "planned"}, key : {0}, assigned : {FALSE}, subtask : {FALSE}]
      BY DEF Init
    <3>2. {"draft", "planned"} \subseteq Status /\ 0 \in Nat
      BY StatusesAre
    <3> QED
      BY <3>1, <3>2 DEF Row
  <2> QED
    BY <2>1 DEF Init
<1>2. session \in SessionType /\ session.rows = saved /\ session.by = "nobody"
  BY <1>1 DEF Init, Closed, SessionType
<1>3. Typed
  BY <1>1, <1>2, TrackerAssumption
     DEF Init, Idle, Typed, RowsOK, StepOK, StepType, JiraOK, QueueOK, BoundsOK
<1>4. SessionInv /\ LeftInv
  BY <1>2 DEF Init, Idle, SessionInv, LeftInv
<1>5. KeysAreOfTheStory
  BY <1>1, <1>2 DEF KeysAreOfTheStory, KeyOK
<1>6. IssuesCounted
  <2> SUFFICES ASSUME NEW s \in Story PROVE Cardinality(IssuesOf(issue, s)) <= Known(session.rows, s) + lost
    BY DEF IssuesCounted
  <2>1. IssuesOf(issue, s) = {}
    BY DEF Init, IssuesOf
  <2> QED
    BY <2>1, FS_EmptySet DEF Init, Known
<1> QED
  BY <1>3, <1>4, <1>5, <1>6 DEF Inv

LEMMA StutterInv ==
  ASSUME Inv, UNCHANGED vars
  PROVE  Inv'
BY DEF vars, jira, Inv, Typed, RowsOK, StepOK, JiraOK, QueueOK, BoundsOK, SessionInv, LeftInv,
       IssuesCounted, IssuesOf, Known, KeysAreOfTheStory, KeyOK

LEMMA NextInv ==
  ASSUME Inv, [Next]_vars
  PROVE  Inv'
<1>1. CASE Sync
  BY <1>1, SyncStepsInv, IssueStepInv, TurnsInv DEF Sync
<1>2. CASE SessionLost \/ EndAssignment
  BY <1>2, SessionLostInv, EndAssignmentInv
<1>3. ASSUME NEW i \in 1 .. Len(issue), NEW st, MoveIssue(i, st) PROVE Inv'
  BY <1>3, MoveInv
<1>4. ASSUME NEW s \in Story, \/ SyncStory(s) \/ AssignStory(s) \/ StartHook(s) \/ EndHook(s)
                              \/ \E st \in Status : ChangeStatus(s, st) \/ PushStatus(s, st)
      PROVE  Inv'
  BY <1>4, SyncStoryInv, AssignStoryInv, HooksInv, ChangeStatusInv
<1>5. CASE UNCHANGED vars
  BY <1>5, StutterInv
<1> QED
  BY <1>1, <1>2, <1>3, <1>4, <1>5 DEF Next

LEMMA InvAlways == Spec => []Inv
BY InitInv, NextInv, PTL DEF Spec

(* Every variable keeps its type: what is pulled from a mapped column is a  *)
(* status of hive, a row's key is a number of an issue.                     *)
THEOREM TypeCorrect == Spec => []TypeOK
BY InvAlways, InvIsTyped, PTL

(* A story has one issue, and one more at most for each answer or session   *)
(* that was lost: the sync makes none for a story whose row knows one.      *)
THEOREM StoriesHaveOneIssue == Spec => []OneIssueForAStory
<1>1. Inv => OneIssueForAStory
  <2> SUFFICES ASSUME Inv, NEW s \in Story
               PROVE  Cardinality(IssuesOf(issue, s)) <= 1 + lost
    BY DEF OneIssueForAStory, IssuesOf
  <2>1. Cardinality(IssuesOf(issue, s)) \in Nat /\ lost \in Nat
    BY IssuesFinite DEF Inv, Typed, BoundsOK
  <2>2. Cardinality(IssuesOf(issue, s)) <= Known(session.rows, s) + lost
    BY DEF Inv, IssuesCounted
  <2> QED
    BY <2>1, <2>2 DEF Known
<1> QED
  BY <1>1, InvAlways, PTL

(* The key in a story's row, saved or in the session under way, is that of  *)
(* an issue made for this story, so what is pulled from it and pushed to it *)
(* is never another story's status.                                         *)
THEOREM KeysNameTheStorysIssue == Spec => []KeysAreOfTheStory
<1>1. Inv => KeysAreOfTheStory
  BY DEF Inv
<1> QED
  BY <1>1, InvAlways, PTL
=============================================================================
