----------------------- MODULE AgentMonitoringProofs -----------------------
(***************************************************************************)
(* Proofs about AgentMonitoring, for any agents, messages and limits.      *)
(*                                                                         *)
(* ContextInv says what a check carries at each of its stages, MessageInv  *)
(* that the messages it carries are still what it took them for when it    *)
(* marks them, though the fast loop and the commands have had them since.  *)
(***************************************************************************)
EXTENDS AgentMonitoring, TLAPS

MessageRow == [status : {"unsent", "pending", "read", "replied"}, told : BOOLEAN]

(* TypeOK in parts. *)
WorldOK ==
    /\ pane \in [Agent -> Visible \cup {"gone"}]
    /\ row \in [Agent -> {"working", "terminated"}]
    /\ story \in [Agent -> {"none", "in_progress", "pr_submitted", "merged"}]
EscalationsOK == escalations \subseteq Escalation /\ recent \subseteq Agent
MessagesOK == message \in [Message -> MessageRow]
MemoryOK ==
    /\ tracked \in [Agent -> {"none", "human", "other"}]
    /\ nudges \in [Agent -> 0 .. MaxNudges]
    /\ intervening \in [Agent -> SUBSET Interventions]
    /\ attempts \in [Agent -> 0 .. HardReset]

BeforeSessions == {"rest", "health", "discover", "stale", "fetch"}

\* Until the sessions are visited the check carries nothing.
ContextInv ==
    /\ checkQueued \in BOOLEAN /\ pc \in Stages
    /\ checkQueued => pc # "rest"
    /\ sessions \subseteq Agent /\ todo \subseteq sessions
    /\ toMark \subseteq fetched /\ fetched \subseteq Message
    /\ seen \in Visible /\ judged \in Visible
    /\ pc \in BeforeSessions => todo = {} /\ fetched = {} /\ toMark = {}

BoundsOK == aborts \in 0 .. MaxAborts /\ restarts \in 0 .. MaxRestarts

MessageInv ==
    /\ \A m \in fetched : message[m].status # "unsent"
    /\ \A m \in toMark : message[m].told
    /\ ReadMeansTold

Inv == WorldOK /\ EscalationsOK /\ MessagesOK /\ MemoryOK /\ ContextInv /\ BoundsOK /\ MessageInv

LEMMA InvIsTyped == Inv => TypeOK
BY DEF Inv, TypeOK, WorldOK, EscalationsOK, MessagesOK, MemoryOK, ContextInv, BoundsOK, MessageRow

-----------------------------------------------------------------------------
(* What the parts of the actions do. *)

LEMMA EndOK ==
  ASSUME ContextInv, End
  PROVE  ContextInv' /\ fetched' = {} /\ toMark' = {}
BY DEF ContextInv, End, DropContext, Stages, Visible, BeforeSessions

LEMMA NextSessionOK ==
  ASSUME ContextInv, NEW a \in Agent, NextSession(a), pc \notin BeforeSessions
  PROVE  ContextInv' /\ fetched' = fetched /\ toMark' = toMark
BY DEF ContextInv, NextSession, Stages, Visible, BeforeSessions

LEMMA SentOK ==
  ASSUME ContextInv, NEW a \in Agent, Sent(a), pc \notin BeforeSessions
  PROVE  ContextInv' /\ fetched' \subseteq fetched /\ toMark' \subseteq toMark
BY EndOK, NextSessionOK DEF Sent

\* Messages that are left alone.
LEMMA SameMessages ==
  ASSUME MessageInv, MessagesOK, UNCHANGED message, fetched' \subseteq fetched, toMark' \subseteq toMark
  PROVE  MessageInv' /\ MessagesOK'
BY DEF MessageInv, ReadMeansTold, MessagesOK

LEMMA SameContext ==
  ASSUME ContextInv, UNCHANGED <<checkQueued, pc, check>>
  PROVE  ContextInv' /\ fetched' \subseteq fetched /\ toMark' \subseteq toMark
BY DEF ContextInv, check

LEMMA CreateOK ==
  ASSUME EscalationsOK, NEW a \in Agent, NEW kind \in Kinds, Create(a, kind)
  PROVE  EscalationsOK'
BY DEF EscalationsOK, Create, Escalation

\* A step that leaves the messages alone.
LEMMA QuietStep ==
  ASSUME Inv, UNCHANGED message, WorldOK', EscalationsOK', MemoryOK', BoundsOK',
         ContextInv' /\ fetched' \subseteq fetched /\ toMark' \subseteq toMark
  PROVE  Inv'
BY SameMessages DEF Inv

LEMMA SameWorld == ASSUME WorldOK, UNCHANGED world PROVE WorldOK'
BY DEF WorldOK, world

LEMMA SameRecords == ASSUME EscalationsOK, UNCHANGED <<escalations, recent>> PROVE EscalationsOK'
BY DEF EscalationsOK

LEMMA SameMemory == ASSUME MemoryOK, UNCHANGED memory PROVE MemoryOK'
BY DEF MemoryOK, memory

LEMMA SameBounds == ASSUME BoundsOK, UNCHANGED bounds PROVE BoundsOK'
BY DEF BoundsOK, bounds

LEMMA InitInv == Init => Inv
<1> SUFFICES ASSUME Init PROVE Inv
  OBVIOUS
<1>1. WorldOK
  BY DEF Init, WorldOK, Visible
<1>2. EscalationsOK /\ MessagesOK
  BY DEF Init, EscalationsOK, MessagesOK, MessageRow
<1>3. MemoryOK
  BY LimitAssumption DEF Init, MemoryOK
<1>4. ContextInv
  BY DEF Init, ContextInv, Visible, Stages
<1>5. BoundsOK
  BY LimitAssumption DEF Init, BoundsOK
<1>6. MessageInv
  BY DEF Init, MessageInv, ReadMeansTold
<1> QED
  BY <1>1, <1>2, <1>3, <1>4, <1>5, <1>6 DEF Inv

-----------------------------------------------------------------------------
(* The timer, and before the sessions are visited. *)
LEMMA TimerInv ==
  ASSUME Inv, Tick \/ Abort \/ Restart
  PROVE  Inv'
<1>1. CASE Tick
  <2>1. ContextInv' /\ fetched' \subseteq fetched /\ toMark' \subseteq toMark
    BY <1>1 DEF Tick, Inv, ContextInv, check, Stages, BeforeSessions
  <2> QED
    BY <1>1, <2>1, QuietStep, SameWorld, SameRecords, SameMemory, SameBounds DEF Tick, Inv, records
<1>2. CASE Abort
  <2>1. BoundsOK'
    BY <1>2, LimitAssumption DEF Abort, Inv, BoundsOK
  <2>2. ContextInv' /\ fetched' \subseteq fetched /\ toMark' \subseteq toMark
    BY <1>2, EndOK DEF Abort, Inv
  <2> QED
    BY <1>2, <2>1, <2>2, QuietStep, SameWorld, SameRecords, SameMemory DEF Abort, Inv, records
<1>3. CASE Restart
  <2>1. BoundsOK'
    BY <1>3, LimitAssumption DEF Restart, Inv, BoundsOK
  <2>2. ContextInv' /\ fetched' \subseteq fetched /\ toMark' \subseteq toMark
    BY <1>3 DEF Restart, Inv, ContextInv, DropContext, Stages, Visible, BeforeSessions
  <2>3. MemoryOK'
    BY <1>3, LimitAssumption DEF Restart, MemoryOK
  <2> QED
    BY <1>3, <2>1, <2>2, <2>3, QuietStep, SameWorld, SameRecords DEF Restart, Inv, records
<1> QED
  BY <1>1, <1>2, <1>3

LEMMA BeforeSessionsInv ==
  ASSUME Inv, HealthCheck \/ Discover \/ ResolveStaleEscalations \/ FetchMessages
  PROVE  Inv'
<1>1. CASE HealthCheck
  <2>1. ContextInv' /\ fetched' \subseteq fetched /\ toMark' \subseteq toMark
    BY <1>1 DEF HealthCheck, Inv, ContextInv, check, Stages, BeforeSessions
  <2>2. WorldOK'
    BY <1>1 DEF HealthCheck, Inv, WorldOK
  <2> QED
    BY <1>1, <2>1, <2>2, QuietStep, SameRecords, SameMemory, SameBounds DEF HealthCheck, Inv, records
<1>2. CASE Discover
  <2>1. ContextInv' /\ fetched' \subseteq fetched /\ toMark' \subseteq toMark
    BY <1>2 DEF Discover, Inv, ContextInv, Stages, BeforeSessions
  <2> QED
    BY <1>2, <2>1, QuietStep, SameWorld, SameRecords, SameMemory, SameBounds DEF Discover, Inv, records
<1>3. CASE ResolveStaleEscalations
  <2>1. ContextInv' /\ fetched' \subseteq fetched /\ toMark' \subseteq toMark
    <3>1. CASE sessions = {}
      BY <1>3, <3>1, EndOK DEF ResolveStaleEscalations, Inv
    <3>2. CASE sessions # {}
      BY <1>3, <3>2 DEF ResolveStaleEscalations, Inv, ContextInv, check, Stages, BeforeSessions
    <3> QED
      BY <3>1, <3>2
  <2>2. EscalationsOK'
    BY <1>3 DEF ResolveStaleEscalations, Inv, EscalationsOK, Resolve
  <2> QED
    BY <1>3, <2>1, <2>2, QuietStep, SameWorld, SameMemory, SameBounds DEF ResolveStaleEscalations, Inv
<1>4. CASE FetchMessages
  <2>1. ContextInv'
    BY <1>4 DEF FetchMessages, Inv, ContextInv, Stages, BeforeSessions, Pending
  <2>2. MessageInv' /\ MessagesOK'
    BY <1>4 DEF FetchMessages, Inv, MessageInv, ContextInv, Pending, BeforeSessions, MessagesOK, ReadMeansTold, records
  <2> QED
    BY <1>4, <2>1, <2>2, SameWorld, SameRecords, SameMemory, SameBounds DEF FetchMessages, Inv, records
<1> QED
  BY <1>1, <1>2, <1>3, <1>4

-----------------------------------------------------------------------------
(* A session at hand. *)

LEMMA ToldOK ==
  ASSUME MessagesOK, NEW ms \in SUBSET Message
  PROVE  /\ Told(ms) \in [Message -> MessageRow]
         /\ \A m \in Message : /\ Told(ms)[m].status = message[m].status
                               /\ message[m].told => Told(ms)[m].told
                               /\ m \in ms /\ Pasted(m) => Told(ms)[m].told
BY DEF MessagesOK, Told, MessageRow

\* What is pasted without throwing has reached the session.
LEMMA VisitInv ==
  ASSUME Inv, NEW a \in Agent, Visit(a)
  PROVE  Inv'
<1> DEFINE unread == {m \in fetched : To[m] = a}
<1>1. unread \subseteq fetched /\ fetched \subseteq Message
  BY DEF Inv, ContextInv
<1>2. EscalationsOK' /\ WorldOK' /\ MemoryOK' /\ BoundsOK'
  BY SameWorld, SameRecords, SameMemory, SameBounds DEF Visit, Inv
<1>3. CASE Throws(unread, a)
  <2>1. End /\ UNCHANGED message
    BY <1>3 DEF Visit
  <2> QED
    BY <1>2, <2>1, EndOK, QuietStep DEF Inv
<1>4. CASE ~Throws(unread, a)
  <2>1. /\ message' = Told(unread) /\ toMark' = toMark \cup unread /\ seen' = Captured(a)
        /\ pc' = "judge" /\ pc = "scan"
        /\ UNCHANGED <<checkQueued, sessions, todo, fetched, judged>>
    BY <1>4 DEF Visit
  <2>2. Captured(a) \in Visible
    BY DEF Captured, Inv, WorldOK, Visible
  <2>3. ContextInv'
    BY <1>1, <2>1, <2>2 DEF Inv, ContextInv, Stages, BeforeSessions
  <2>4. \A m \in unread : Pasted(m)
    BY <1>4 DEF Throws, Pasted
  <2>5. /\ Told(unread) \in [Message -> MessageRow]
        /\ \A m \in Message : /\ Told(unread)[m].status = message[m].status
                              /\ message[m].told => Told(unread)[m].told
                              /\ m \in unread /\ Pasted(m) => Told(unread)[m].told
    BY <1>1, ToldOK DEF Inv
  <2> HIDE DEF unread
  <2>6. MessagesOK'
    BY <2>1, <2>5 DEF MessagesOK
  <2>7. MessageInv'
    BY <1>1, <2>1, <2>4, <2>5 DEF Inv, MessageInv, ReadMeansTold, ContextInv
  <2> QED
    BY <1>2, <2>3, <2>6, <2>7 DEF Inv
<1> QED
  BY <1>3, <1>4

LEMMA ClearedOK ==
  ASSUME MemoryOK, NEW a \in Agent, Cleared(a)
  PROVE  intervening' \in [Agent -> SUBSET Interventions]
BY DEF MemoryOK, Cleared

LEMMA ForceBypassOK ==
  ASSUME Inv, NEW a \in Agent, ForceBypass(a), UNCHANGED <<row, story>>
  PROVE  WorldOK' /\ ContextInv' /\ fetched' \subseteq fetched /\ toMark' \subseteq toMark
<1>1. WorldOK'
  BY DEF ForceBypass, Inv, WorldOK, Visible
<1>2. CASE End
  BY <1>1, <1>2, EndOK DEF Inv
<1>3. CASE UNCHANGED <<checkQueued, pc, check>>
  BY <1>1, <1>3, SameContext DEF Inv
<1> QED
  BY <1>2, <1>3 DEF ForceBypass

LEMMA JudgeInv ==
  ASSUME Inv, NEW a \in Agent, EnforceBypass(a) \/ Judge(a)
  PROVE  Inv'
<1>1. CASE EnforceBypass(a)
  <2>1. WorldOK' /\ ContextInv' /\ fetched' \subseteq fetched /\ toMark' \subseteq toMark
    BY <1>1, ForceBypassOK DEF EnforceBypass
  <2> QED
    BY <1>1, <2>1, QuietStep, SameRecords, SameMemory, SameBounds DEF EnforceBypass, Inv, records
<1>2. CASE Judge(a)
  <2>1. judged' \in Visible /\ ContextInv' /\ fetched' \subseteq fetched /\ toMark' \subseteq toMark
    BY <1>2 DEF Judge, Inv, ContextInv, Visible, Stages, BeforeSessions
  <2>2. tracked' \in [Agent -> {"none", "human", "other"}]
    BY <1>2 DEF Judge, Inv, MemoryOK, TrackedAs
  <2>3. /\ nudges' \in [Agent -> 0 .. MaxNudges]
        /\ intervening' \in [Agent -> SUBSET Interventions]
    <3>1. CASE judged' \in Waiting
      BY <1>2, <3>1 DEF Judge, Inv, MemoryOK
    <3>2. CASE judged' \notin Waiting
      <4>1. nudges' = [nudges EXCEPT ![a] = 0] /\ Cleared(a)
        BY <1>2, <3>2 DEF Judge
      <4> QED
        BY <4>1, ClearedOK, LimitAssumption DEF Inv, MemoryOK
    <3> QED
      BY <3>1, <3>2
  <2>4. MemoryOK'
    BY <1>2, <2>2, <2>3 DEF Judge, Inv, MemoryOK
  <2> QED
    BY <1>2, <2>1, <2>4, QuietStep, SameWorld, SameRecords, SameBounds DEF Judge, Inv, records
<1> QED
  BY <1>1, <1>2

LEMMA PromptInv ==
  ASSUME Inv, NEW a \in Agent, AutoApprove(a) \/ RestoreBypass(a)
  PROVE  Inv'
<1>1. CASE AutoApprove(a)
  <2>1. WorldOK'
    BY <1>1 DEF AutoApprove, Approve, Inv, WorldOK, Visible
  <2>2. ContextInv' /\ fetched' \subseteq fetched /\ toMark' \subseteq toMark
    BY <1>1, NextSessionOK DEF AutoApprove, Inv, BeforeSessions
  <2> QED
    BY <1>1, <2>1, <2>2, QuietStep, SameRecords, SameMemory, SameBounds DEF AutoApprove, Inv, records
<1>2. CASE RestoreBypass(a)
  <2>1. WorldOK' /\ ContextInv' /\ fetched' \subseteq fetched /\ toMark' \subseteq toMark
    BY <1>2, ForceBypassOK DEF RestoreBypass
  <2>2. MemoryOK'
    BY <1>2 DEF RestoreBypass, Inv, MemoryOK
  <2> QED
    BY <1>2, <2>1, <2>2, QuietStep, SameRecords, SameBounds DEF RestoreBypass, Inv, records
<1> QED
  BY <1>1, <1>2

\* The steps that keep nothing but where the check is.
LEMMA PassingInv ==
  ASSUME Inv, NEW a \in Agent,
         \/ BackOff(a) \/ AwaitRecovery(a) \/ LeaveIdle(a) \/ SkipAssessment(a) \/ Assess(a)
         \/ SkipStuck(a) \/ FindStuck(a)
  PROVE  Inv'
<1>1. UNCHANGED <<world, records, memory, bounds>>
  BY DEF BackOff, AwaitRecovery, LeaveIdle, SkipAssessment, Assess, SkipStuck, FindStuck
<1>2. ContextInv' /\ fetched' \subseteq fetched /\ toMark' \subseteq toMark
  <2>1. pc \notin BeforeSessions
    BY DEF BackOff, AwaitRecovery, LeaveIdle, SkipAssessment, Assess, SkipStuck, FindStuck, BeforeSessions
  <2>2. CASE Sent(a) \/ NextSession(a)
    BY <2>1, <2>2, SentOK, NextSessionOK DEF Inv
  <2>3. CASE /\ UNCHANGED <<checkQueued, check>>
             /\ pc' \in {"assess", "verdict", "verdict on stuck"}
    BY <2>3 DEF Inv, ContextInv, check, Stages, BeforeSessions
  <2> QED
    BY <2>2, <2>3 DEF BackOff, AwaitRecovery, LeaveIdle, SkipAssessment, Assess, SkipStuck, FindStuck
<1> QED
  BY <1>1, <1>2, QuietStep, SameWorld, SameRecords, SameMemory, SameBounds DEF Inv, records

LEMMA RecoverInterruptedInv ==
  ASSUME Inv, NEW a \in Agent, RecoverInterrupted(a)
  PROVE  Inv'
<1>1. pc \notin BeforeSessions
  BY DEF RecoverInterrupted, BeforeSessions
<1>2. ContextInv' /\ fetched' \subseteq fetched /\ toMark' \subseteq toMark
  BY <1>1, SentOK, NextSessionOK DEF RecoverInterrupted, Inv
<1>3. WorldOK'
  BY DEF RecoverInterrupted, Inv, WorldOK
<1>4. attempts[a] \in 0 .. HardReset
  BY DEF Inv, MemoryOK
<1>5. MemoryOK'
  BY <1>4, LimitAssumption DEF RecoverInterrupted, Attempt, Inv, MemoryOK
<1> QED
  BY <1>2, <1>3, <1>5, QuietStep, SameRecords, SameBounds DEF RecoverInterrupted, Inv, records

LEMMA EscalateInv ==
  ASSUME Inv, NEW a \in Agent, Escalate(a) \/ Recovered(a)
  PROVE  Inv'
<1>1. pc \notin BeforeSessions
  BY DEF Escalate, Recovered, BeforeSessions
<1>2. ContextInv' /\ fetched' \subseteq fetched /\ toMark' \subseteq toMark
  BY <1>1, SentOK, NextSessionOK DEF Escalate, Recovered, Inv
<1>3. CASE Escalate(a)
  <2>1. EscalationsOK'
    BY <1>3, CreateOK, SameRecords DEF Escalate, Inv, Kinds
  <2> QED
    BY <1>2, <1>3, <2>1, QuietStep, SameWorld, SameMemory, SameBounds DEF Escalate, Inv
<1>4. CASE Recovered(a)
  <2>1. EscalationsOK'
    BY <1>4 DEF Recovered, Resolve, Inv, EscalationsOK
  <2>2. MemoryOK'
    BY <1>4, LimitAssumption DEF Recovered, Inv, MemoryOK
  <2> QED
    BY <1>2, <1>4, <2>1, <2>2, QuietStep, SameWorld, SameBounds DEF Recovered, Inv
<1> QED
  BY <1>3, <1>4

-----------------------------------------------------------------------------
(* The answer of the classifier. *)
LEMMA InterveneOK ==
  ASSUME Inv, NEW a \in Agent, NEW kind \in Interventions, NEW others \in SUBSET Interventions,
         Intervene(a, kind, others), UNCHANGED attempts, pc \notin BeforeSessions
  PROVE  /\ ContextInv' /\ fetched' \subseteq fetched /\ toMark' \subseteq toMark
         /\ MemoryOK' /\ EscalationsOK' /\ UNCHANGED story
<1>1. ContextInv' /\ fetched' \subseteq fetched /\ toMark' \subseteq toMark
  BY NextSessionOK DEF Intervene, Inv
<1>2. MemoryOK'
  BY DEF Intervene, Inv, MemoryOK
<1>3. EscalationsOK'
  BY CreateOK, SameRecords DEF Intervene, Inv, Kinds
<1> QED
  BY <1>1, <1>2, <1>3 DEF Intervene

LEMMA NudgeOK ==
  ASSUME Inv, NEW a \in Agent, Nudge(a), UNCHANGED attempts, pc \notin BeforeSessions, ~NudgesSpent(a)
  PROVE  /\ ContextInv' /\ fetched' \subseteq fetched /\ toMark' \subseteq toMark
         /\ MemoryOK' /\ EscalationsOK' /\ UNCHANGED story
<1>1. ContextInv' /\ fetched' \subseteq fetched /\ toMark' \subseteq toMark
  BY SentOK DEF Nudge, Inv
<1>2. EscalationsOK'
  BY SameRecords DEF Nudge, Inv
<1>3. intervening' \in [Agent -> SUBSET Interventions]
  BY ClearedOK DEF Nudge, Inv
<1>4. nudges[a] \in 0 .. MaxNudges
  BY DEF Inv, MemoryOK
<1>5. Nudged(a) \in 0 .. MaxNudges
  BY <1>4, LimitAssumption DEF Nudged, NudgesSpent
<1>6. MemoryOK'
  BY <1>3, <1>5 DEF Nudge, Inv, MemoryOK
<1> QED
  BY <1>1, <1>2, <1>6 DEF Nudge

LEMMA DoneOK ==
  ASSUME Inv, NEW a \in Agent, Progress(a) \/ DropIt(a), UNCHANGED attempts, pc \notin BeforeSessions
  PROVE  /\ ContextInv' /\ fetched' \subseteq fetched /\ toMark' \subseteq toMark
         /\ MemoryOK' /\ EscalationsOK'
         /\ story' \in [Agent -> {"none", "in_progress", "pr_submitted", "merged"}]
<1>1. ContextInv' /\ fetched' \subseteq fetched /\ toMark' \subseteq toMark
  BY SentOK, NextSessionOK DEF Progress, DropIt, Inv
<1>2. EscalationsOK'
  BY SameRecords DEF Progress, DropIt, Inv
<1>3. intervening' \in [Agent -> SUBSET Interventions]
  BY ClearedOK DEF Progress, DropIt, Inv
<1>4. MemoryOK'
  BY <1>3 DEF Progress, DropIt, Inv, MemoryOK
<1>5. story' \in [Agent -> {"none", "in_progress", "pr_submitted", "merged"}]
  BY DEF Progress, DropIt, Inv, WorldOK
<1> QED
  BY <1>1, <1>2, <1>4, <1>5

LEMMA VerdictInv ==
  ASSUME Inv, NEW a \in Agent, Verdict(a)
  PROVE  Inv'
<1>1. pc \notin BeforeSessions /\ UNCHANGED <<pane, row, message, attempts, bounds>>
  BY DEF Verdict, BeforeSessions
<1>2. story \in [Agent -> {"none", "in_progress", "pr_submitted", "merged"}]
  BY DEF Inv, WorldOK
<1>3. intervening[a] \in SUBSET Interventions /\ {} \in SUBSET Interventions
  BY DEF Inv, MemoryOK
<1>4. /\ ContextInv' /\ fetched' \subseteq fetched /\ toMark' \subseteq toMark
      /\ MemoryOK' /\ EscalationsOK'
      /\ story' \in [Agent -> {"none", "in_progress", "pr_submitted", "merged"}]
  <2>1. \/ Intervene(a, "timeout", intervening[a]) \/ Intervene(a, "done_false", {})
        \/ (Nudge(a) /\ ~NudgesSpent(a)) \/ Progress(a) \/ DropIt(a)
    <3>1. PICK answer \in Answers :
            CASE answer = "timeout" -> Intervene(a, "timeout", intervening[a])
              [] answer = "done" -> Done(a)
              [] answer = "unfinished" ->
                    IF NudgesSpent(a) THEN Intervene(a, "done_false", {}) ELSE Nudge(a)
      BY DEF Verdict
    <3>2. CASE answer = "timeout"
      BY <3>1, <3>2
    <3>3. CASE answer = "done"
      BY <3>1, <3>3 DEF Done
    <3>4. CASE answer = "unfinished"
      BY <3>1, <3>4
    <3> QED
      BY <3>2, <3>3, <3>4 DEF Answers
  <2>2. CASE Intervene(a, "timeout", intervening[a])
    BY <1>1, <1>2, <1>3, <2>2, InterveneOK DEF Interventions
  <2>3. CASE Intervene(a, "done_false", {})
    BY <1>1, <1>2, <1>3, <2>3, InterveneOK DEF Interventions
  <2>4. CASE Nudge(a) /\ ~NudgesSpent(a)
    BY <1>1, <1>2, <2>4, NudgeOK
  <2>5. CASE Progress(a) \/ DropIt(a)
    BY <1>1, <2>5, DoneOK
  <2> QED
    BY <2>1, <2>2, <2>3, <2>4, <2>5
<1>5. WorldOK'
  BY <1>1, <1>4 DEF Inv, WorldOK
<1> QED
  BY <1>1, <1>4, <1>5, QuietStep, SameBounds DEF Inv

LEMMA FindWorkingInv ==
  ASSUME Inv, NEW a \in Agent, FindWorking(a)
  PROVE  Inv'
<1>1. ContextInv' /\ fetched' \subseteq fetched /\ toMark' \subseteq toMark
  BY NextSessionOK DEF FindWorking, Inv, BeforeSessions
<1>2. intervening' \in [Agent -> SUBSET Interventions]
  BY ClearedOK DEF FindWorking, Inv
<1>3. nudges' \in [Agent -> 0 .. MaxNudges]
  BY LimitAssumption DEF FindWorking, Inv, MemoryOK
<1>4. MemoryOK'
  BY <1>2, <1>3 DEF FindWorking, Inv, MemoryOK
<1> QED
  BY <1>1, <1>4, QuietStep, SameWorld, SameRecords, SameBounds DEF FindWorking, Inv, records

LEMMA OnSessionInv ==
  ASSUME Inv, NEW a \in Agent, OnSession(a)
  PROVE  Inv'
BY VisitInv, JudgeInv, PromptInv, PassingInv, RecoverInterruptedInv, EscalateInv, VerdictInv, FindWorkingInv
   DEF OnSession

-----------------------------------------------------------------------------
(* After the sessions. *)
LEMMA AfterSessionsInv ==
  ASSUME Inv, MarkRead \/ RemindFails \/ ReadStuck \/ Finish
  PROVE  Inv'
<1>1. CASE MarkRead
  <2>1. ContextInv'
    BY <1>1 DEF MarkRead, Inv, ContextInv, Stages, BeforeSessions
  <2>2. MessagesOK'
    BY <1>1 DEF MarkRead, Marked, Inv, MessagesOK, MessageRow
  <2>3. \A m \in Message : /\ message'[m].told = message[m].told
                           /\ message'[m].status = message[m].status \/ m \in toMark
    BY <1>1 DEF MarkRead, Marked, Inv, MessagesOK, MessageRow
  <2>4. MessageInv'
    BY <1>1, <2>3 DEF MarkRead, Inv, MessageInv, ReadMeansTold
  <2> QED
    BY <1>1, <2>1, <2>2, <2>4, SameWorld, SameRecords, SameMemory, SameBounds DEF MarkRead, Inv
<1>2. CASE ReadStuck
  <2>1. ContextInv' /\ fetched' \subseteq fetched /\ toMark' \subseteq toMark
    BY <1>2 DEF ReadStuck, Inv, ContextInv, Stages, BeforeSessions
  <2> QED
    BY <1>2, <2>1, QuietStep, SameWorld, SameRecords, SameMemory, SameBounds DEF ReadStuck, Inv, records
<1>3. CASE RemindFails \/ Finish
  <2>1. ContextInv' /\ fetched' \subseteq fetched /\ toMark' \subseteq toMark
    BY <1>3, EndOK DEF RemindFails, Finish, Inv
  <2> QED
    BY <1>3, <2>1, QuietStep, SameWorld, SameRecords, SameMemory, SameBounds DEF RemindFails, Finish, Inv, records
<1> QED
  BY <1>1, <1>2, <1>3

-----------------------------------------------------------------------------
(* Everyone else. *)

\* What a message may become without anything a check carries going wrong.
Fair(old, new) ==
    /\ old.status # "unsent" => new.status # "unsent"
    /\ old.status # "unsent" /\ old.told => new.told
    /\ new.status \in {"read", "replied"} => new.told \/ old.status = new.status

LEMMA OthersMessages ==
  ASSUME Inv, NEW new \in [Message -> MessageRow], message' = new,
         \A m \in Message : Fair(message[m], new[m]),
         UNCHANGED <<checkQueued, pc, check, escalations, recent, memory, bounds>>, WorldOK'
  PROVE  Inv'
<1>1. ContextInv' /\ fetched' = fetched /\ toMark' = toMark
  BY SameContext DEF Inv, check
<1>2. MessagesOK'
  BY DEF MessagesOK
<1>3. fetched \subseteq Message /\ toMark \subseteq fetched
  BY DEF Inv, ContextInv
<1>4. MessageInv'
  BY <1>1, <1>3 DEF Inv, MessageInv, ReadMeansTold, Fair
<1> QED
  BY <1>1, <1>2, <1>4, SameRecords, SameMemory, SameBounds DEF Inv

LEMMA FastLoopInv ==
  ASSUME Inv, ForwardPending
  PROVE  Inv'
<1> DEFINE Live == {m \in Pending : Reaches(To[m])}
<1>1. Live \subseteq Message /\ \A m \in Live : Pasted(m) /\ message[m].status = "pending"
  BY DEF Pending, Pasted
<1>2. message \in [Message -> MessageRow]
  BY DEF Inv, MessagesOK
<1>3. UNCHANGED <<checkQueued, pc, check, escalations, recent, memory, bounds>>
  BY DEF ForwardPending
<1>4. CASE /\ message' = [m \in Message |-> IF m \in Live THEN [status |-> "read", told |-> TRUE]
                                                          ELSE message[m]]
           /\ UNCHANGED pane
  <2>1. WorldOK'
    BY <1>4, SameWorld DEF ForwardPending, Inv, world
  <2>2. message' \in [Message -> MessageRow]
    BY <1>2, <1>4 DEF MessageRow
  <2>3. \A m \in Message : Fair(message[m], message'[m])
    BY <1>1, <1>4 DEF Fair
  <2> QED
    BY <1>3, <2>1, <2>2, <2>3, OthersMessages
<1>5. ASSUME NEW m \in Live, NEW ms \in SUBSET Live,
             pane' = [pane EXCEPT ![To[m]] = "gone"], message' = Told(ms)
      PROVE  Inv'
  <2>1. WorldOK'
    BY <1>5 DEF ForwardPending, Inv, WorldOK
  <2>2. /\ Told(ms) \in [Message -> MessageRow]
        /\ \A x \in Message : /\ Told(ms)[x].status = message[x].status
                              /\ message[x].told => Told(ms)[x].told
    BY <1>1, ToldOK DEF Inv
  <2>3. \A x \in Message : Fair(message[x], Told(ms)[x])
    BY <2>2 DEF Fair
  <2> QED
    BY <1>3, <1>5, <2>1, <2>2, <2>3, OthersMessages
<1> QED
  BY <1>4, <1>5 DEF ForwardPending

LEMMA OfAgentsInv ==
  ASSUME Inv, NEW a \in Agent, AgentMoves(a) \/ SessionDies(a) \/ Submit(a) \/ Merge(a)
  PROVE  Inv'
<1>1. UNCHANGED <<records, memory, checkQueued, pc, check, bounds>>
  BY DEF AgentMoves, SessionDies, Submit, Merge
<1>2. WorldOK'
  <2>1. CASE AgentMoves(a)
    BY <2>1, ScreensAssumption DEF AgentMoves, Inv, WorldOK
  <2>2. CASE SessionDies(a)
    BY <2>2 DEF SessionDies, Inv, WorldOK
  <2>3. CASE Submit(a) \/ Merge(a)
    BY <2>3 DEF Submit, Merge, Inv, WorldOK
  <2> QED
    BY <2>1, <2>2, <2>3
<1> QED
  BY <1>1, <1>2, QuietStep, SameContext, SameRecords, SameMemory, SameBounds DEF Inv, records

LEMMA OfMessagesInv ==
  ASSUME Inv, NEW m \in Message, Send(m) \/ SendDirectly(m) \/ Read(m) \/ Reply(m)
  PROVE  Inv'
<1>1. message \in [Message -> MessageRow]
  BY DEF Inv, MessagesOK
<1>2. PICK status \in {"pending", "read", "replied"}, told \in BOOLEAN :
        /\ Changed(m, status, told)
        /\ Fair(message[m], [status |-> status, told |-> told])
  <2>1. CASE Send(m)
    BY <2>1 DEF Send, Fair
  <2>2. CASE SendDirectly(m) \/ Read(m) \/ Reply(m)
    BY <2>2 DEF SendDirectly, Read, Reply, Fair
  <2> QED
    BY <2>1, <2>2
<1>3. message' \in [Message -> MessageRow]
  BY <1>1, <1>2 DEF Changed, MessageRow
<1>4. \A x \in Message : Fair(message[x], message'[x])
  BY <1>1, <1>2 DEF Changed, Fair
<1>5. WorldOK'
  BY <1>2, SameWorld DEF Changed, Inv
<1> QED
  BY <1>2, <1>3, <1>4, <1>5, OthersMessages DEF Changed

LEMMA OfPeopleInv ==
  ASSUME Inv, (\E e \in escalations : Acknowledge(e) \/ Settle(e)) \/ (\E a \in Agent : Age(a))
  PROVE  Inv'
<1>1. UNCHANGED <<world, message, memory, checkQueued, pc, check, bounds>>
  BY DEF Acknowledge, Settle, Age
<1>2. EscalationsOK'
  BY DEF Inv, EscalationsOK, Escalation, Acknowledge, Settle, Resolve, Age
<1> QED
  BY <1>1, <1>2, QuietStep, SameContext, SameWorld, SameMemory, SameBounds DEF Inv

-----------------------------------------------------------------------------
LEMMA StutterInv ==
  ASSUME Inv, UNCHANGED vars
  PROVE  Inv'
BY QuietStep, SameContext, SameWorld, SameRecords, SameMemory, SameBounds DEF Inv, vars, records

LEMMA NextInv ==
  ASSUME Inv, [Next]_vars
  PROVE  Inv'
<1>1. CASE Tick \/ Abort \/ Restart
  BY <1>1, TimerInv
<1>2. CASE CheckStep
  BY <1>2, BeforeSessionsInv, AfterSessionsInv, OnSessionInv DEF CheckStep
<1>3. CASE ForwardPending
  BY <1>3, FastLoopInv
<1>4. CASE OfAgents
  BY <1>4, OfAgentsInv DEF OfAgents
<1>5. CASE OfMessages
  BY <1>5, OfMessagesInv DEF OfMessages
<1>6. CASE OfPeople \/ \E a \in Agent : Age(a)
  BY <1>6, OfPeopleInv DEF OfPeople
<1>7. CASE UNCHANGED vars
  BY <1>7, StutterInv
<1> QED
  BY <1>1, <1>2, <1>3, <1>4, <1>5, <1>6, <1>7 DEF Next

THEOREM InvAlways == Spec => []Inv
BY InitInv, NextInv, PTL DEF Spec

(* Every variable keeps its type: the nudges and the attempts of a story    *)
(* end at their limits, the loops visit sessions they discovered.           *)
THEOREM TypeCorrect == Spec => []TypeOK
BY InvAlways, InvIsTyped, PTL

(* A message is marked read only once its agent has it before its eyes, by  *)
(* whichever of the two loops and the two commands.                         *)
THEOREM ReadMessagesWereTold == Spec => []ReadMeansTold
<1>1. Inv => ReadMeansTold
  BY DEF Inv, MessageInv
<1> QED
  BY <1>1, InvAlways, PTL

\* The tick that asks for another check is kept as long as it is wanted.
THEOREM QueuedTicksAreKept == Spec => []NoTickIsLost
<1>1. Inv => NoTickIsLost
  BY DEF Inv, ContextInv, NoTickIsLost
<1> QED
  BY <1>1, InvAlways, PTL

-----------------------------------------------------------------------------
(* A reply is final: what marks messages as read leaves it alone, also when *)
(* the reply came after the check had read the message.                     *)
THEOREM RepliesAreFinal == Spec => RepliesStand
<1> DEFINE Stands == \A m \in Message : message[m].status = "replied" => message'[m].status = "replied"
<1>1. ASSUME Inv, [Next]_vars PROVE [Stands]_vars
  <2> SUFFICES ASSUME Next PROVE Stands
    BY <1>1
  <2>1. message \in [Message -> MessageRow]
    BY <1>1 DEF Inv, MessagesOK
  <2>2. \A ms \in SUBSET Message : message' = Told(ms) => Stands
    BY <1>1, ToldOK DEF Inv
  <2>3. CASE Tick \/ Abort \/ Restart
    BY <2>3 DEF Tick, Abort, Restart, records
  <2>4. CASE CheckStep
    <3>1. CASE HealthCheck \/ Discover \/ ResolveStaleEscalations \/ FetchMessages
      BY <3>1 DEF HealthCheck, Discover, ResolveStaleEscalations, FetchMessages, records
    <3>2. CASE RemindFails \/ ReadStuck \/ Finish
      BY <3>2 DEF RemindFails, ReadStuck, Finish, records
    <3>3. CASE MarkRead
      BY <2>1, <3>3 DEF MarkRead, Marked, Pending
    <3>4. ASSUME NEW a \in Agent, Visit(a) PROVE Stands
      <4>1. UNCHANGED message \/ message' = Told({m \in fetched : To[m] = a})
        BY <3>4 DEF Visit
      <4>2. {m \in fetched : To[m] = a} \in SUBSET Message
        BY <1>1 DEF Inv, ContextInv
      <4> QED
        BY <2>2, <4>1, <4>2
    <3>5. ASSUME NEW a \in Agent, OnSession(a), ~Visit(a) PROVE Stands
      <4>1. UNCHANGED message
        BY <3>5 DEF OnSession, EnforceBypass, Judge, AutoApprove, RestoreBypass, BackOff, AwaitRecovery,
             RecoverInterrupted, Escalate, Recovered, LeaveIdle, SkipAssessment, Assess, Verdict,
             SkipStuck, FindWorking, FindStuck, records
      <4> QED
        BY <4>1
    <3> QED
      BY <2>4, <3>1, <3>2, <3>3, <3>4, <3>5 DEF CheckStep
  <2>5. CASE ForwardPending
    <3>1. \/ message' = [m \in Message |-> IF m \in {x \in Pending : Reaches(To[x])}
                                             THEN [status |-> "read", told |-> TRUE] ELSE message[m]]
          \/ \E ms \in SUBSET Message : message' = Told(ms)
      BY <2>5 DEF ForwardPending, Pending
    <3> QED
      BY <2>1, <2>2, <3>1 DEF Pending
  <2>6. CASE OfMessages
    BY <2>1, <2>6 DEF OfMessages, Send, SendDirectly, Read, Reply, Changed
  <2>7. CASE OfAgents \/ OfPeople \/ \E a \in Agent : Age(a)
    BY <2>7 DEF OfAgents, AgentMoves, SessionDies, Submit, Merge, OfPeople, Acknowledge, Settle, Age, records
  <2> QED
    BY <2>3, <2>4, <2>5, <2>6, <2>7 DEF Next
<1> QED
  BY <1>1, InvAlways, PTL DEF Spec, RepliesStand
=============================================================================
