-------------------------- MODULE AgentMonitoring --------------------------
(***************************************************************************)
(* The manager watches the agents' terminals                               *)
(* (src/cli/commands/manager/index.ts): a check starts on a timer or when  *)
(* one was asked for during the last (runCheck), forwards messages, looks  *)
(* at the screen of every session, and nudges, restarts or escalates.      *)
(* Meanwhile agents work and die, people answer escalations, and a second  *)
(* timer forwards messages on its own.                                     *)
(*                                                                         *)
(* Steps that change the database take its lock, so each is one action;    *)
(* between them everyone else goes on.  Cooldowns, ages and the time a     *)
(* screen has stood still are nondeterministic.  An agent has one session  *)
(* and one story; the scheduler's replacements are in module Assignment.   *)
(***************************************************************************)
EXTENDS Naturals

CONSTANTS
    Agent,        \* registered agents, each with its session
    Message,      \* messages of `hive msg' and `hive message'
    To,           \* To[m]: the agent a message is for
    Screens,      \* Screens[a]: what the agent's terminal may come to show
    MaxNudges,    \* config.manager.max_stuck_nudges_per_story
    HardReset,    \* INTERRUPTION_HARD_RESET_ATTEMPTS
    BranchKnown,  \* can the branch of a story be told from its row or worktree?
    MaxAborts,    \* bound: checks that fail for want of the database lock
    MaxRestarts   \* bound: restarts of the manager

ASSUME AgentAssumption == Agent \subseteq Nat /\ To \in [Message -> Agent]
ASSUME LimitAssumption ==
    {MaxNudges, HardReset, MaxAborts, MaxRestarts} \subseteq Nat /\ BranchKnown \in BOOLEAN

VARIABLES
    pane,         \* what the agent's terminal shows
    row,          \* status of the agent's row
    story,        \* status of its story
    escalations,  \* the active rows of table escalations; equal ones count once
    recent,       \* agents with a row, active or resolved, younger than the lookback
    message,      \* the messages' rows; told: did its agent get to see it?
    tracked,      \* agentStates[].lastState, as far as anyone asks for it
    nudges,       \* agentStates[].storyStuckNudgeCount
    intervening,  \* the two maps of interventions
    attempts,     \* interruptionRecoveryAttempts
    checkQueued, pc,
    sessions,     \* ctx.hiveSessions
    todo,         \* sessions the present loop has still to visit
    fetched, toMark,  \* messages read for forwarding, and forwarded
    seen, judged, \* the state of the session at hand: captured, and decided on
    aborts, restarts

world == <<pane, row, story>>
records == <<escalations, recent, message>>
memory == <<tracked, nudges, intervening, attempts>>
check == <<sessions, todo, fetched, toMark, seen, judged>>
bounds == <<aborts, restarts>>
vars == <<world, records, memory, checkQueued, pc, check, bounds>>

(***************************************************************************)
(* What detectAgentState makes of a screen.  Permission stands for every   *)
(* prompt the manager may answer itself; a screen that is gone is captured *)
(* as empty text, which tells nothing.                                     *)
(***************************************************************************)
Visible == {"working", "idle", "complete", "asking", "permission", "interrupted", "limited", "unknown"}
Waiting == Visible \ {"working", "unknown"}

ASSUME ScreensAssumption == \A a \in Agent : Screens[a] \subseteq Visible

FaultyNeedsHuman == {"asking", "interrupted"}
NeedsHuman == {"asking", "permission", "interrupted"}

Captured(a) == IF pane[a] = "gone" THEN "unknown" ELSE pane[a]
\* Sending keys to it does not throw.
Reaches(a) == pane[a] # "gone"

Interventions == {"timeout", "done_false"}
Kinds == Interventions \cup {"approval"}

Escalation == [from : Agent, kind : Kinds, status : {"pending", "acknowledged"}]

Stages == {"rest", "health", "discover", "stale", "fetch", "scan", "judge", "handle",
           "assess", "verdict", "mark", "stuck", "nudge", "verdict on stuck"}

TypeOK ==
    /\ pane \in [Agent -> Visible \cup {"gone"}]
    /\ row \in [Agent -> {"working", "terminated"}]
    /\ story \in [Agent -> {"none", "in_progress", "pr_submitted", "merged"}]
    /\ escalations \subseteq Escalation /\ recent \subseteq Agent
    /\ message \in [Message -> [status : {"unsent", "pending", "read", "replied"}, told : BOOLEAN]]
    /\ tracked \in [Agent -> {"none", "human", "other"}]
    /\ nudges \in [Agent -> 0 .. MaxNudges]
    /\ intervening \in [Agent -> SUBSET Interventions]
    /\ attempts \in [Agent -> 0 .. HardReset]
    /\ checkQueued \in BOOLEAN /\ pc \in Stages
    /\ sessions \subseteq Agent /\ todo \subseteq sessions
    /\ toMark \subseteq fetched /\ fetched \subseteq Message
    /\ seen \in Visible /\ judged \in Visible
    /\ aborts \in 0 .. MaxAborts /\ restarts \in 0 .. MaxRestarts

Init ==
    /\ pane \in [Agent -> {"working", "gone"}]
    /\ row = [a \in Agent |-> IF pane[a] = "gone" THEN "terminated" ELSE "working"]
    /\ story = [a \in Agent |-> IF pane[a] = "gone" THEN "none" ELSE "in_progress"]
    /\ escalations = {} /\ recent = {}
    /\ message = [m \in Message |-> [status |-> "unsent", told |-> FALSE]]
    /\ tracked = [a \in Agent |-> "none"]
    /\ nudges = [a \in Agent |-> 0]
    /\ intervening = [a \in Agent |-> {}]
    /\ attempts = [a \in Agent |-> 0]
    /\ sessions = {} /\ todo = {} /\ fetched = {} /\ toMark = {}
    /\ seen = "unknown" /\ judged = "unknown"
    /\ checkQueued = FALSE /\ pc = "rest" /\ aborts = 0 /\ restarts = 0

-----------------------------------------------------------------------------
(* Rows. *)

ActiveOf(a) == {e \in escalations : e.from = a}
ActiveKinds(a) == {e.kind : e \in ActiveOf(a)}

\* createEscalation
Create(a, kind) ==
    /\ escalations' = escalations \cup {[from |-> a, kind |-> kind, status |-> "pending"]}
    /\ recent' = recent \cup {a}

\* updateEscalation of each of rows
Resolve(rows) == escalations' = escalations \ rows /\ UNCHANGED recent

FaultyPending ==    \* held back while the agent is busy
    {m \in Message : message[m].status = "pending" /\ pane[To[m]] = "idle"}

\* getAllPendingMessages
Pending == {m \in Message : message[m].status = "pending"}

\* markMessagesRead leaves alone what was read or answered in the meantime.
Marked(ids) == [m \in Message |-> IF m \in ids \cap Pending
                                  THEN [message[m] EXCEPT !.status = "read"] ELSE message[m]]

\* sendMessageWithConfirmation: pasted, whether its echo is found or not.
Pasted(m) == Reaches(To[m])

Told(ms) == [m \in Message |-> IF m \in ms /\ Pasted(m)
                               THEN [message[m] EXCEPT !.told = TRUE] ELSE message[m]]

-----------------------------------------------------------------------------
(* The timer and the end of a check. *)

\* A tick during a check is remembered, any number of them as one.
Tick ==
    /\ IF pc = "rest" THEN pc' = "health" /\ UNCHANGED checkQueued
                      ELSE pc' = pc /\ checkQueued' = TRUE
    /\ UNCHANGED <<world, records, memory, check, bounds>>

\* ctx goes with the check.
DropContext ==
    /\ sessions' = {} /\ todo' = {} /\ fetched' = {} /\ toMark' = {}
    /\ seen' = "unknown" /\ judged' = "unknown"

\* The check returns, or throws; the queued one follows.
End ==
    /\ DropContext
    /\ checkQueued' = FALSE /\ pc' = IF checkQueued THEN "health" ELSE "rest"

\* The database lock is not to be had in time.
Abort ==
    /\ pc # "rest" /\ aborts < MaxAborts
    /\ aborts' = aborts + 1
    /\ End
    /\ UNCHANGED <<world, records, memory, restarts>>

Restart ==
    /\ restarts < MaxRestarts
    /\ restarts' = restarts + 1
    /\ tracked' = [a \in Agent |-> "none"]
    /\ nudges' = [a \in Agent |-> 0]
    /\ intervening' = [a \in Agent |-> {}]
    /\ attempts' = [a \in Agent |-> 0]
    /\ DropContext /\ pc' = "rest" /\ checkQueued' = FALSE
    /\ UNCHANGED <<world, records, aborts>>

-----------------------------------------------------------------------------
(* Before the sessions are visited. *)

\* The rows of agents whose session is gone are terminated, their stories
\* go to others.
HealthCheck ==
    /\ pc = "health" /\ pc' = "discover"
    /\ row' = [a \in Agent |-> IF pane[a] = "gone" THEN "terminated" ELSE row[a]]
    /\ story' = [a \in Agent |-> IF pane[a] = "gone" THEN "none" ELSE story[a]]
    /\ UNCHANGED <<pane, records, memory, checkQueued, check, bounds>>

Discover ==
    /\ pc = "discover" /\ pc' = "stale"
    /\ sessions' = {a \in Agent : pane[a] # "gone"}
    /\ UNCHANGED <<world, records, memory, checkQueued, todo, fetched, toMark, seen, judged, bounds>>

\* findStaleSessionEscalations: their agent has ended or has no session.
IsStale(e) ==
    /\ e.status = "pending"
    /\ row[e.from] = "terminated" \/ e.from \notin sessions

\* Past the lookback a row has the required age; before, it may.
ResolveStaleEscalations ==
    /\ pc = "stale"
    /\ LET stale == {e \in escalations : IsStale(e)}
       IN \E rows \in SUBSET stale :
            /\ {e \in stale : e.from \notin recent} \subseteq rows
            /\ Resolve(rows)
    /\ IF sessions = {} THEN End ELSE pc' = "fetch" /\ UNCHANGED <<checkQueued, check>>
    /\ UNCHANGED <<world, message, memory, bounds>>

\* Phase 1 of scanAgentSessions.
FetchMessages ==
    /\ pc = "fetch" /\ pc' = "scan"
    /\ fetched' = Pending /\ todo' = sessions
    /\ UNCHANGED <<world, records, memory, checkQueued, sessions, toMark, seen, judged, bounds>>

-----------------------------------------------------------------------------
(* Phase 2 of scanAgentSessions.  At pc "judge", "handle" and "assess" one  *)
(* session is at hand.                                                     *)

FaultyThrows(unread, a) == FALSE      \* goes on after a failure
\* forwardMessages throws
Throws(unread, a) == unread # {} /\ ~Reaches(a)

\* forwardMessages and captureTmuxPane, without the lock.
Visit(a) ==
    /\ pc = "scan" /\ a \in todo
    /\ LET unread == {m \in fetched : To[m] = a}
       IN IF Throws(unread, a)
          THEN End /\ UNCHANGED message
          ELSE /\ message' = Told(unread) /\ toMark' = toMark \cup unread
               /\ seen' = Captured(a)
               /\ pc' = "judge"
               /\ UNCHANGED <<checkQueued, sessions, todo, fetched, judged>>
    /\ UNCHANGED <<world, escalations, recent, memory, bounds>>

\* The session at hand is the least one left to do.
AtHand(a) == a \in todo /\ \A b \in todo : a <= b
NextSession(a) ==
    /\ todo' = todo \ {a}
    /\ pc' = IF pc \in {"nudge", "verdict on stuck"} THEN "nudge" ELSE "scan"
    /\ seen' = "unknown" /\ judged' = "unknown"
    /\ UNCHANGED <<checkQueued, sessions, fetched, toMark>>

\* On to the next session, unless what was just sent to this one failed.
Sent(a) == IF Reaches(a) THEN NextSession(a) ELSE End

\* applyHumanInterventionStateOverride: whatever the screen shows, an agent
\* is taken to be asking while an intervention in its story is open.
Overridden(a) ==
    /\ story[a] # "none"
    /\ intervening[a] # {} \/ ActiveKinds(a) \cap Interventions # {}

Cleared(a) == intervening' = [intervening EXCEPT ![a] = {}]

\* updateAgentStateTracking
TrackedAs(state) == IF state \in NeedsHuman \cup {"limited"} THEN "human" ELSE "other"

\* forceBypassMode: its keys take the prompt away, or they reach no session
\* and it throws.
ForceBypass(a) ==
    \/ /\ pane[a] = "permission" /\ pane' = [pane EXCEPT ![a] = "working"]
       /\ UNCHANGED <<checkQueued, pc, check>>
    \/ ~Reaches(a) /\ End /\ UNCHANGED pane

\* enforceBypassMode, before the screen is judged: what was captured stays.
EnforceBypass(a) ==
    /\ pc = "judge" /\ AtHand(a) /\ seen = "permission"
    /\ ForceBypass(a)
    /\ UNCHANGED <<row, story, records, memory, bounds>>

Judge(a) ==
    /\ pc = "judge" /\ AtHand(a) /\ pc' = "handle"
    /\ judged' = IF Overridden(a) THEN "asking" ELSE seen
    /\ tracked' = [tracked EXCEPT ![a] = TrackedAs(judged')]
    /\ IF judged' \in Waiting THEN UNCHANGED <<nudges, intervening>>
       ELSE nudges' = [nudges EXCEPT ![a] = 0] /\ Cleared(a)
    /\ UNCHANGED <<world, records, attempts, checkQueued, sessions, todo, fetched, toMark, seen, bounds>>

\* autoApprovePermission answers a prompt that is still there.
Approve(a) == pane[a] = "permission" /\ pane' = [pane EXCEPT ![a] = "working"]

\* handlePermissionPrompt: the prompt is answered; if it stays, handling goes on.
AutoApprove(a) ==
    /\ pc = "handle" /\ AtHand(a) /\ judged = "permission"
    /\ Approve(a)
    /\ NextSession(a)
    /\ UNCHANGED <<row, story, records, memory, bounds>>

\* handlePlanApproval: the mode is restored, yet handling goes on.
RestoreBypass(a) ==
    /\ pc = "handle" /\ AtHand(a) /\ judged = "permission"
    /\ ForceBypass(a)
    /\ tracked' = [tracked EXCEPT ![a] = IF Reaches(a) THEN "other" ELSE @]
    /\ UNCHANGED <<row, story, records, nudges, intervening, attempts, bounds>>

\* handleEscalationAndNudge, by what was seen and judged.
\* A rate limit: the agent is told to pause, or was told so lately.
BackOff(a) ==
    /\ pc = "handle" /\ AtHand(a) /\ seen = "limited"
    /\ \/ Sent(a)
       \/ pc' = "assess" /\ UNCHANGED <<checkQueued, check>>
    /\ UNCHANGED <<world, records, memory, bounds>>

Interrupted == seen = "interrupted" /\ judged = seen

\* An interruption after which the agent was told to go on too short ago
AwaitRecovery(a) ==
    /\ pc = "handle" /\ AtHand(a) /\ Interrupted
    /\ NextSession(a)
    /\ UNCHANGED <<world, records, memory, bounds>>

\* the attempts counted once the prompt has been sent
Attempt(a) == IF Reaches(a) THEN attempts[a] + 1 ELSE attempts[a]

\* It is told to go on; after HardReset times in vain its session is ended.
RecoverInterrupted(a) ==
    /\ pc = "handle" /\ AtHand(a) /\ Interrupted
    /\ IF attempts[a] >= HardReset
       THEN /\ pane' = [pane EXCEPT ![a] = "gone"]
            /\ attempts' = [attempts EXCEPT ![a] = 0]
            /\ NextSession(a)
       ELSE /\ attempts' = [attempts EXCEPT ![a] = Attempt(a)]
            /\ Sent(a)
            /\ UNCHANGED pane
    /\ UNCHANGED <<row, story, records, tracked, nudges, intervening, bounds>>

\* A person is asked, once within the lookback.
Escalate(a) ==
    /\ pc = "handle" /\ AtHand(a) /\ seen # "limited"
    /\ judged \in NeedsHuman /\ ~Interrupted
    /\ IF a \in recent THEN NextSession(a) /\ UNCHANGED <<escalations, recent>>
                      ELSE Create(a, "approval") /\ Sent(a)
    /\ UNCHANGED <<world, message, memory, bounds>>

\* What an agent at work no longer needs answered.
RecoveredRows(a) == ActiveOf(a)

Recovered(a) ==
    /\ pc = "handle" /\ AtHand(a) /\ seen # "limited" /\ judged \notin Waiting
    /\ Resolve(RecoveredRows(a))
    /\ attempts' = [attempts EXCEPT ![a] = 0]
    /\ NextSession(a)
    /\ UNCHANGED <<world, message, tracked, nudges, intervening, bounds>>

LeaveIdle(a) ==
    /\ pc = "handle" /\ AtHand(a)
    /\ judged \in Waiting \ (NeedsHuman \cup {"limited"}) /\ pc' = "assess"
    /\ UNCHANGED <<world, records, memory, checkQueued, check, bounds>>

-----------------------------------------------------------------------------
(* The completion classifier is asked about a screen that stands still;    *)
(* the answer takes a while and may be that it timed out.                  *)

\* Not standing still for long enough, or nothing to ask about.
SkipAssessment(a) ==
    /\ pc = "assess" /\ AtHand(a) /\ NextSession(a)
    /\ UNCHANGED <<world, records, memory, bounds>>

Assess(a) ==
    /\ pc = "assess" /\ AtHand(a)
    /\ judged \in Waiting \ NeedsHuman /\ story[a] \in {"in_progress", "pr_submitted"}
    /\ pc' = "verdict"
    /\ UNCHANGED <<world, records, memory, checkQueued, check, bounds>>

\* markClassifierTimeoutForHumanIntervention, markDoneFalseForHumanIntervention
Intervene(a, kind, others) ==
    /\ intervening' = [intervening EXCEPT ![a] = others \cup {kind}]
    /\ tracked' = [tracked EXCEPT ![a] = "human"]
    /\ IF kind \in ActiveKinds(a) THEN UNCHANGED <<escalations, recent>> ELSE Create(a, kind)
    /\ NextSession(a)
    /\ UNCHANGED <<story, nudges>>

\* autoProgressDoneStory: a pull request for the story, if it has no open one,
\* whatever became of the story since it was read.
Progress(a) ==
    /\ story' = [story EXCEPT ![a] = "pr_submitted"]
    /\ Cleared(a) /\ Sent(a)
    /\ UNCHANGED <<escalations, recent, tracked, nudges>>

NudgesSpent(a) == nudges[a] >= MaxNudges

FaultyNudged(a) == nudges[a]

\* the nudges counted once one more has been sent
Nudged(a) == IF Reaches(a) THEN nudges[a] + 1 ELSE nudges[a]

Nudge(a) ==
    /\ nudges' = [nudges EXCEPT ![a] = Nudged(a)]
    /\ Cleared(a) /\ Sent(a)
    /\ UNCHANGED <<story, escalations, recent, tracked>>

DropIt(a) ==
    /\ Cleared(a) /\ NextSession(a)
    /\ UNCHANGED <<story, escalations, recent, tracked, nudges>>

\* Done, but not to be submitted without a branch: the other loop nudges on.
Done(a) ==
    IF story[a] = "pr_submitted" \/ BranchKnown THEN Progress(a)
    ELSE IF pc = "verdict on stuck" /\ ~NudgesSpent(a) THEN Nudge(a) ELSE DropIt(a)

\* What the classifier, or the heuristic in its place, makes of a screen
Answers == {"done", "unfinished"} \cup {"timeout"}

Verdict(a) ==
    /\ pc \in {"verdict", "verdict on stuck"} /\ AtHand(a)
    /\ \E answer \in Answers :
        CASE answer = "timeout" -> Intervene(a, "timeout", intervening[a])
          [] answer = "done" -> Done(a)
          [] answer = "unfinished" ->
                IF NudgesSpent(a) THEN Intervene(a, "done_false", {}) ELSE Nudge(a)
    /\ UNCHANGED <<pane, row, message, attempts, bounds>>

-----------------------------------------------------------------------------
(* After the sessions were visited. *)

\* batchMarkMessagesRead
MarkRead ==
    /\ pc = "scan" /\ todo = {} /\ pc' = "stuck"
    /\ message' = Marked(toMark)
    /\ fetched' = {} /\ toMark' = {}
    /\ UNCHANGED <<world, escalations, recent, memory, checkQueued, sessions, todo, seen, judged, bounds>>

\* Agents with rejected work and seniors are reminded (notifyQAOfQueuedPRs,
\* nudgeQAFailedStories): nothing to keep, unless one of them is gone.
RemindFails ==
    /\ pc = "stuck" /\ \E a \in sessions : ~Reaches(a)
    /\ End
    /\ UNCHANGED <<world, records, memory, bounds>>

\* nudgeStuckStories reads the stories in progress; none too fresh is visited
\* for long (SkipStuck).
ReadStuck ==
    /\ pc = "stuck" /\ pc' = "nudge"
    /\ todo' = {a \in sessions : story[a] = "in_progress"}
    /\ UNCHANGED <<world, records, memory, checkQueued, sessions, fetched, toMark, seen, judged, bounds>>

\* A person is dealing with it, it was nudged lately, or the screen has not
\* stood still for long.
SkipStuck(a) ==
    /\ pc = "nudge" /\ AtHand(a) /\ NextSession(a)
    /\ UNCHANGED <<world, records, memory, bounds>>

\* The screen shows work, or nothing that can be told and not for long.
FindWorking(a) ==
    /\ pc = "nudge" /\ AtHand(a)
    /\ tracked[a] # "human" /\ Captured(a) \notin Waiting
    /\ nudges' = [nudges EXCEPT ![a] = 0] /\ Cleared(a)
    /\ NextSession(a)
    /\ UNCHANGED <<world, records, tracked, attempts, bounds>>

FindStuck(a) ==
    /\ pc = "nudge" /\ AtHand(a)
    /\ tracked[a] # "human" /\ Captured(a) \notin NeedsHuman \cup {"working"}
    /\ pc' = "verdict on stuck"
    /\ UNCHANGED <<world, records, memory, checkQueued, check, bounds>>

\* notifyUnassignedStories tells the seniors, or throws where one is gone: the
\* check is over in either case.
Finish ==
    /\ pc = "nudge" /\ todo = {} /\ End
    /\ UNCHANGED <<world, records, memory, bounds>>

-----------------------------------------------------------------------------
(* The fast loop, the agents and the people. *)

\* forwardPendingMessages, all of it under the lock.  A session that goes away
\* on the way makes it throw: some messages are pasted and none is marked.
ForwardPending ==
    LET Live == {m \in Pending : Reaches(To[m])}
    IN /\ Live # {}
       /\ \/ /\ message' = [m \in Message |-> IF m \in Live THEN [status |-> "read", told |-> TRUE]
                                                            ELSE message[m]]
             /\ UNCHANGED pane
          \/ \E m \in Live, ms \in SUBSET Live :
                /\ pane' = [pane EXCEPT ![To[m]] = "gone"]
                /\ m \notin ms /\ message' = Told(ms)
    /\ UNCHANGED <<row, story, escalations, recent, memory, checkQueued, pc, check, bounds>>

AgentMoves(a) ==
    /\ Reaches(a)
    /\ \E screen \in Screens[a] \ {pane[a]} : pane' = [pane EXCEPT ![a] = screen]
    /\ UNCHANGED <<row, story, records, memory, checkQueued, pc, check, bounds>>

SessionDies(a) ==
    /\ Reaches(a) /\ pane' = [pane EXCEPT ![a] = "gone"]
    /\ UNCHANGED <<row, story, records, memory, checkQueued, pc, check, bounds>>

\* hive pr submit, and the merge on approval
Submit(a) ==
    /\ Reaches(a) /\ story[a] = "in_progress"
    /\ story' = [story EXCEPT ![a] = "pr_submitted"]
    /\ UNCHANGED <<pane, row, records, memory, checkQueued, pc, check, bounds>>

Merge(a) ==
    /\ story[a] = "pr_submitted" /\ story' = [story EXCEPT ![a] = "merged"]
    /\ UNCHANGED <<pane, row, records, memory, checkQueued, pc, check, bounds>>

Changed(m, status, told) ==
    /\ message' = [message EXCEPT ![m] = [status |-> status, told |-> told]]
    /\ UNCHANGED <<world, escalations, recent, memory, checkQueued, pc, check, bounds>>

\* hive msg send; hive message; hive msg read; hive msg reply
Send(m) == message[m].status = "unsent" /\ Changed(m, "pending", FALSE)
SendDirectly(m) == message[m].status = "unsent" /\ Reaches(To[m]) /\ Changed(m, "read", TRUE)
Read(m) == message[m].status = "pending" /\ Changed(m, "read", TRUE)
Reply(m) == message[m].status \in {"pending", "read"} /\ message[m].told /\ Changed(m, "replied", TRUE)

\* hive escalations acknowledge; hive escalations resolve; the lookback passes
Acknowledge(e) ==
    /\ e.status = "pending"
    /\ escalations' = (escalations \ {e}) \cup {[e EXCEPT !.status = "acknowledged"]}
    /\ UNCHANGED <<world, recent, message, memory, checkQueued, pc, check, bounds>>

Settle(e) ==
    /\ Resolve({e})
    /\ UNCHANGED <<world, message, memory, checkQueued, pc, check, bounds>>

Age(a) ==
    /\ a \in recent /\ recent' = recent \ {a}
    /\ UNCHANGED <<world, escalations, message, memory, checkQueued, pc, check, bounds>>

-----------------------------------------------------------------------------
OnSession(a) ==
    \/ Visit(a) \/ EnforceBypass(a) \/ Judge(a) \/ AutoApprove(a) \/ RestoreBypass(a) \/ BackOff(a)
    \/ AwaitRecovery(a) \/ RecoverInterrupted(a) \/ Escalate(a) \/ Recovered(a) \/ LeaveIdle(a)
    \/ SkipAssessment(a) \/ Assess(a) \/ Verdict(a)
    \/ SkipStuck(a) \/ FindWorking(a) \/ FindStuck(a)

CheckStep ==
    \/ HealthCheck \/ Discover \/ ResolveStaleEscalations \/ FetchMessages
    \/ MarkRead \/ RemindFails \/ ReadStuck \/ Finish
    \/ \E a \in Agent : OnSession(a)

OfAgents == \E a \in Agent : AgentMoves(a) \/ SessionDies(a) \/ Submit(a) \/ Merge(a)
OfMessages == \E m \in Message : Send(m) \/ SendDirectly(m) \/ Read(m) \/ Reply(m)
OfPeople == \E e \in escalations : Acknowledge(e) \/ Settle(e)

Next ==
    \/ Tick \/ CheckStep \/ Abort \/ Restart
    \/ ForwardPending \/ OfAgents \/ OfMessages \/ OfPeople \/ \E a \in Agent : Age(a)

Spec == Init /\ [][Next]_vars

\* The timers run, a check goes on step by step, time passes; a cooldown or a
\* window that holds something back is over some time.
Fairness ==
    /\ WF_vars(Tick) /\ WF_vars(CheckStep) /\ WF_vars(ForwardPending)
    /\ \A a \in Agent : WF_vars(Age(a)) /\ SF_vars(RecoverInterrupted(a)) /\ SF_vars(FindStuck(a))

LiveSpec == Spec /\ Fairness

-----------------------------------------------------------------------------
(* A message is marked read only when its agent has it before its eyes: not *)
(* by a check that read it and came to nothing, whichever of the two loops  *)
(* and the two commands got there first.                                    *)
ReadMeansTold == \A m \in Message : message[m].status \in {"read", "replied"} => message[m].told

\* A tick during a check is not forgotten when the check returns or throws.
NoTickIsLost == checkQueued => pc # "rest"

(* A reply written while a check was on its way is not taken back by the    *)
(* check's marking as read.                                                 *)
RepliesStand ==
    [][\A m \in Message : message[m].status = "replied" => message'[m].status = "replied"]_vars

\* A message reaches its agent, unless the agent's session is gone.
MessagesArrive ==
    \A m \in Message :
        message[m].status = "pending" ~> message[m].told \/ pane[To[m]] = "gone"

(* A prompt that stays comes before a person, though the manager may try to *)
(* answer it and fail, or be busy with another session.                     *)
QuestionsReachPeople ==
    \A a \in Agent :
        pane[a] = "permission" ~> pane[a] # "permission" \/ ActiveOf(a) # {} \/ a \in recent

(* A story whose agent just stands there is submitted or comes before a     *)
(* person: the nudges come to an end.                                       *)
StuckStoriesGetAttention ==
    \A a \in Agent :
        pane[a] = "idle" /\ story[a] = "in_progress"
            ~> \/ pane[a] # "idle" \/ story[a] # "in_progress"
               \/ ActiveOf(a) # {} \/ intervening[a] # {}

\* An interrupted agent goes on, or its session is ended and replaced.
InterruptionsEnd ==
    \A a \in Agent : pane[a] = "interrupted" ~> pane[a] # "interrupted" \/ Overridden(a)

(* What a working agent had asked is closed without a person, unless the    *)
(* manager takes the agent to be stuck.                                     *)
RecoveredAgentsAreCleared ==
    \A a \in Agent :
        pane[a] = "working" /\ ActiveOf(a) # {}
            ~> pane[a] # "working" \/ ActiveOf(a) = {} \/ Overridden(a)

\* What an agent that has ended had asked does not stay open.
DeadAgentsEscalationsClose ==
    \A a \in Agent :
        row[a] = "terminated" ~> \A e \in ActiveOf(a) : e.status = "acknowledged"

=============================================================================
