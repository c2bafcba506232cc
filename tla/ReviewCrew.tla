----------------------------- MODULE ReviewCrew -----------------------------
(***************************************************************************)
(* The QA agents of a team, on top of the merge queue they work off.  A    *)
(* check of the manager begins with a health check of the agents and with  *)
(* the scaling of the crew to the pending work (checkMergeQueue), and asks *)
(* tmux for its sessions before it hands out reviews.                      *)
(*                                                                         *)
(* An agent's row and its tmux session are two things: sessions end by     *)
(* themselves, rows without session are left by a scaling that is cut off, *)
(* and a session's name, a number here, is used again by a later row.      *)
(* Rows that no query can tell apart from none are left out (Tidy).        *)
(***************************************************************************)
EXTENDS MergeQueue, SequencesExt

CONSTANTS
    PendingPerAgent,    \* qa.scaling.pending_per_agent (2.5 in the code)
    MaxDeaths,          \* bound: QA sessions that end by themselves
    MaxSpawnFailures    \* bound: scalings that fail

ASSUME CrewAssumption ==
    /\ QA = 1 .. Cardinality(QA)            \* qa.scaling.max_agents of them
    /\ PendingPerAgent \in Nat \ {0} /\ {MaxDeaths, MaxSpawnFailures} \subseteq Nat

VARIABLES
    crew,       \* the rows of QA agents, oldest first
    tmux,       \* the QA sessions that run
    atPrompt,   \* ended sessions last seen idle at their prompt (agentStates)
    check,      \* where the check is with the crew, and what it knows of it
    mishaps     \* how much of the bounds is used

crewVars == <<crew, tmux, atPrompt, check, mishaps>>

NoSession == NoOne
Agent == [session : QA \cup {NoSession}, active : BOOLEAN]
Checking(step) == [at |-> step, sessions |-> {}, idle |-> {}]

-----------------------------------------------------------------------------
Active(c) == {k \in DOMAIN c : c[k].active}

\* A row that ended counts only while it is the newest of its session.
Tidy(c) == LET Counts(k) == \/ c[k].active
                            \/ c[k].session # NoSession
                               /\ \A j \in DOMAIN c : j > k => c[j].session # c[k].session
           IN  [i \in 1 .. Cardinality({k \in DOMAIN c : Counts(k)}) |->
                   c[CHOOSE k \in DOMAIN c : Counts(k) /\ Cardinality({j \in 1 .. k : Counts(j)}) = i]]

Ended(c, K) == Tidy([k \in DOMAIN c |-> IF k \in K THEN [c[k] EXCEPT !.active = FALSE] ELSE c[k]])

\* Of the sessions that ended, those that waited at their prompt when last
\* scanned.  (While a session has an agent in force the note does not matter.)
Notes(ended, waited) == waited \subseteq ended /\ atPrompt' = (atPrompt \ ended) \cup waited

\* agentsBySessionName: the newest row of a session stands for it.
AgentOf(q) == {k \in DOMAIN crew : crew[k].session = q /\ \A j \in DOMAIN crew : j > k => crew[j].session # q}

CrewInit ==
    /\ Init
    /\ crew = <<>> /\ tmux = {} /\ atPrompt = {} /\ check = Checking("health")
    /\ mishaps = [deaths |-> 0, failures |-> 0]

(***************************************************************************)
(* healthCheck ends the rows whose session is gone; rows without a session *)
(* it passes over.  (What it does to developers and stories: Assignment.)  *)
(***************************************************************************)
Gone == {k \in Active(crew) : crew[k].session # NoSession /\ crew[k].session \notin tmux}

HealthCheck(waited) ==
    /\ mgr.at = "claim" /\ check.at = "health"
    /\ crew' = Ended(crew, Gone)
    /\ Notes({crew[k].session : k \in Gone}, waited)
    /\ check' = Checking("scale")
    /\ UNCHANGED <<vars, tmux, mishaps>>

(***************************************************************************)
(* scaleQAAgents.                                                          *)
(***************************************************************************)
Pending == {s \in Story : \/ story[s].status \in {"pr_submitted", "qa_failed"}
                          \/ story[s].status # "merged" /\ OpenRowsOf(s) # {}}

\* A mutation, used by no action: rounded down.
FaultyNeeded == Min({Cardinality(Pending) \div PendingPerAgent, Cardinality(QA)})
Needed == Min({(Cardinality(Pending) + PendingPerAgent - 1) \div PendingPerAgent, Cardinality(QA)})

Missing == (Cardinality(Active(crew)) + 1) .. Needed

KeepCrew ==
    /\ Cardinality(Active(crew)) = Needed
    /\ UNCHANGED <<crew, tmux, atPrompt, mishaps>>

\* The agents are spawned at the same time.  One that is up has its session,
\* be it one that was running already; one that failed has no row any more;
\* of one that was cut off the row stays, without its session.
Spawned(up, cut) ==
    crew \o [i \in 1 .. Cardinality(up \cup cut) |->
               LET q == SetToSortSeq(up \cup cut, <)[i]
               IN  [session |-> IF q \in up THEN q ELSE NoSession, active |-> TRUE]]

SpawnQA ==
    /\ Missing # {}
    /\ crew' = Tidy(Spawned(Missing, {}))
    /\ tmux' = tmux \cup Missing
    /\ Notes(Missing, {})
    /\ UNCHANGED mishaps

\* Promise.all gives up with the first spawn that fails, while the others go
\* on beside the rest of the check, whose database is closed for them.
SpawnFails(failed, up) ==
    LET cut == Missing \ (failed \cup up)
    IN  /\ mishaps.failures < MaxSpawnFailures
        /\ failed # {} /\ failed \cup up \subseteq Missing /\ failed \cap up = {}
        /\ crew' = Tidy(Spawned(up, cut))
        /\ \E running \in SUBSET cut : tmux' = tmux \cup up \cup running
        /\ Notes(up, {})
        /\ mishaps' = [mishaps EXCEPT !.failures = @ + 1]

\* The manager dies meanwhile: rows reach the file when a spawn has ended.
DieWhileScaling(up, running) ==
    /\ mgr.at = "claim" /\ check.at = "scale" /\ Missing # {}
    /\ up \subseteq running /\ running \subseteq Missing
    /\ crew' = IF up = {} THEN crew ELSE Tidy(Spawned(up, Missing \ up))
    /\ tmux' = tmux \cup running
    /\ atPrompt' = {} /\ check' = Checking("health")
    /\ Spend("restarts", MaxRestarts)
    /\ UNCHANGED <<rows, story, gh, mgr, mishaps>>

\* isAgentReviewingPR compares reviewed_by, a session, with the agent's id:
\* ids (negative here) are the names of no session.
Id(k) == -k
isAgentReviewingPR(k) == \E i \in With({"reviewing"}) : rows[i].reviewer = Id(k)

\* The order is by a number at the end of the agent's id, which is random.
ScaleDown(K, waited) ==
    LET spare == Cardinality(Active(crew)) - Needed
        terminable == {k \in Active(crew) : ~isAgentReviewingPR(k)}
    IN  /\ spare > 0
        /\ K \subseteq terminable /\ Cardinality(K) = Min({spare, Cardinality(terminable)})
        /\ crew' = Ended(crew, K)
        /\ tmux' = tmux \ {crew[k].session : k \in K}
        /\ Notes({crew[k].session : k \in K} \ {NoSession}, waited)
        /\ UNCHANGED mishaps

scaleQAAgents ==
    \/ KeepCrew \/ SpawnQA
    \/ \E F, U \in SUBSET QA : SpawnFails(F, U)
    \/ \E K \in SUBSET DOMAIN crew, W \in SUBSET QA : ScaleDown(K, W)

ScaleCrew ==
    /\ mgr.at = "claim" /\ check.at = "scale"
    /\ scaleQAAgents
    /\ check' = Checking("ready")
    /\ UNCHANGED vars

\* checkMergeQueue again, after an import or an assignment of the manager, or in
\* `hive pr submit', `hive pr sync' and `hive assign'; not counted on.
ScaleElsewhere == scaleQAAgents /\ UNCHANGED <<vars, check>>

(***************************************************************************)
(* The sessions, and which of them have an idle agent, as of the middle of *)
(* the check.  An agent in force is idle whatever it does: nothing writes  *)
(* another status to the row of a QA agent.                                *)
(***************************************************************************)
IdleBySession == {q \in QA : \E k \in AgentOf(q) : crew[k].active}

Discover ==
    /\ mgr.at = "dispatch" /\ check.at = "ready"
    /\ check' = [at |-> "scanned", sessions |-> tmux,
                 idle |-> IdleBySession \cup {q \in atPrompt : AgentOf(q) # {}}]
    /\ UNCHANGED <<vars, crew, tmux, atPrompt, mishaps>>

-----------------------------------------------------------------------------
(***************************************************************************)
(* The steps of the merge queue that depend on the crew: a check returns   *)
(* early when it knows of no session, a review goes to every session with  *)
(* an idle agent that has none, and a review is taken back, or judged by   *)
(* its comments, if its reviewer is idle.                                  *)
(***************************************************************************)
Dispatch ==
    /\ check.at = "scanned"
    /\ \/ NoSessions /\ check.sessions = {}
       \/ notifyQAOfQueuedPRs((check.sessions \cap IdleBySession) \ ReviewingSessions)

OfIdle(I) == \A i \in I : rows[i].reviewer \in check.idle

WithCrew ==
    \/ Dispatch
    \/ \E I \in SUBSET DOMAIN rows : OfIdle(I) /\ (PickCommented(I) \/ requeueStaleReviewingPRs(I))

Otherwise ==
    \/ ClaimApproved \/ ApplyMergeResults \/ ListMerged \/ syncMergedPRs
    \/ ListOpen \/ syncOpenPRs \/ ReadRowsByStory \/ ApplyViews
    \/ RejectCommented \/ handleRejectedPRs
    \/ \E C \in SUBSET Pr : closeStalePRs(C)
    \/ \E I \in SUBSET DOMAIN rows : ViewReviewing(I)
    \/ \E i \in DOMAIN rows : MergeOnGitHub(i)
    \/ \E T \in SUBSET Story : recoverUnassignedQAFailedStories(T) \/ PickStuck(T)
    \/ \E s \in Story : autoProgressDoneStory(s) \/ NoBranch(s)

ManagerStep ==
    /\ mgr.at = "claim" => check.at = "ready"
    /\ WithCrew \/ Otherwise
    /\ check' = IF mgr.at # "claim" /\ mgr'.at = "claim" THEN Checking("health")
                ELSE IF mgr.at = "requeue" THEN Checking("scanned") ELSE check
    /\ UNCHANGED <<crew, tmux, atPrompt, mishaps>>

CrewStep ==
    \/ ScaleCrew \/ Discover
    \/ \E W \in SUBSET QA : HealthCheck(W)

Restart ==
    \/ /\ RestartManager
       /\ atPrompt' = {} /\ check' = Checking("health")
       /\ UNCHANGED <<crew, tmux, mishaps>>
    \/ \E U, R \in SUBSET QA : DieWhileScaling(U, R)

SessionEnds(q) ==
    /\ q \in tmux /\ mishaps.deaths < MaxDeaths
    /\ tmux' = tmux \ {q}
    /\ mishaps' = [mishaps EXCEPT !.deaths = @ + 1]
    /\ UNCHANGED <<vars, crew, atPrompt, check>>

CrewNext ==
    \/ ManagerStep \/ CrewStep \/ ScaleElsewhere \/ Restart
    \/ (Command \/ Elsewhere) /\ UNCHANGED crewVars
    \/ \E q \in QA : SessionEnds(q)

CrewSpec == CrewInit /\ [][CrewNext]_<<vars, crewVars>>

(***************************************************************************)
(* Fairness.  The manager runs on a timer, a listing of GitHub succeeds    *)
(* time and again, and the time of a review runs out (reviewing_timeout).  *)
(* That there is a session to review, and that it counts as idle, is not   *)
(* assumed.  QA need not ever answer.                                      *)
(***************************************************************************)
CrewFairness ==
    /\ WF_<<vars, crewVars>>(ManagerStep)
    /\ WF_<<vars, crewVars>>(CrewStep)
    /\ SF_<<vars, crewVars>>(ManagerStep /\ ListMerged /\ \A g \in Pr : gh[g] = "merged" => g \in mgr'.prs)
    /\ \A i \in 1 .. MaxRows : SF_<<vars, crewVars>>(ManagerStep /\
            \E R \in SUBSET DOMAIN rows : i \in R /\ OfIdle(R) /\ requeueStaleReviewingPRs(R))

LiveSpec == CrewSpec /\ CrewFairness

-----------------------------------------------------------------------------
\* Every variable of the crew has its type; Tidy leaves no row that ended before
\* another of its session.
CrewTypeOK ==
    /\ TypeOK
    /\ crew \in Seq(Agent) /\ Tidy(crew) = crew
    /\ tmux \subseteq QA /\ atPrompt \subseteq QA
    /\ check \in [at : {"health", "scale", "ready", "scanned"},
                  sessions : SUBSET QA, idle : SUBSET QA]
    /\ mishaps \in [deaths : 0 .. MaxDeaths, failures : 0 .. MaxSpawnFailures]

(***************************************************************************)
(* A row leaves the queue, or its story is merged, though QA never         *)
(* answers, sessions end, spawns fail and the manager restarts: the crew   *)
(* is scaled up, a session gets the review, the review times out, and is   *)
(* given up in the end.                                                    *)
(***************************************************************************)
RowsLeaveTheQueue ==
    \A i \in 1 .. MaxRows :
        (i \in DOMAIN rows /\ i \in OpenRows)
            ~> (i \notin OpenRows \/ story[StoryOfRow(i)].status = "merged")

-----------------------------------------------------------------------------
(* What does not hold, and what the repository says of the crew and the code
   does not do. *)
\* RowsLeaveTheQueue of the rows of merged stories too: work on a merged story
\* is not pending, and without pending work there is no crew.
QueueDrains == \A i \in 1 .. MaxRows : (i \in DOMAIN rows /\ i \in OpenRows) ~> i \notin OpenRows

\* scheduler.ts: "skip agents that are actively reviewing a PR".
ReviewersAreSpared ==
    [][\A q \in tmux \ tmux' : mishaps' = mishaps => ~\E i \in With({"reviewing"}) : rows[i].reviewer = q]_<<vars, crewVars>>

\* scheduler.ts: a failure "leaves a zombie agent" unless its row is cleaned up.
NoZombies == \A k \in Active(crew) : crew[k].session # NoSession
=============================================================================
