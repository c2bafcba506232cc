# A verification development for Hive

TLA+ models of `hungry-ghost-hive`, checked with TLC, with theorems proved with TLAPS. Paths below
are relative to the repository's `src/` (`manager/` and `commands/` are in `cli/`), except `README.md:N`, its README.

Hive runs a team of coding agents in tmux sessions. A person gives it a requirement, a tech lead
agent cuts it into stories, the manager assigns stories to developer agents, QA agents review the
pull requests, and the manager merges them. The state is one database per workspace, a SQLite file
every command loads and writes back whole. In distributed mode several hosts run a manager each;
a RAFT-like election picks the one that schedules, and the tables are replicated by events over HTTP.

1. Inventory
2. Plan
3. The modules
4. Runs, bounds and fairness
5. Proofs
6. Disagreements between the code and what it says
7. What is not modelled

## 1. Inventory

### Components, state, operations

| Component | State | Operations | Interacts with |
|---|---|---|---|
| Election `cluster/raft-state-machine.ts`, `heartbeat-manager.ts` | term, role, votedFor, leaderId, peers, election in flight, catching up; durable term and vote | start an election, count votes, grant a vote, step down, send, accept, reject a heartbeat, restart | other nodes (HTTP), raft store, runtime |
| Membership `cluster/runtime.ts`, `cluster-http-server.ts`, `cli/commands/cluster.ts` | each node's list of peers | join, leave, redirect, carry the list in heartbeats | election |
| Raft store `cluster/raft-store.ts` | state file, append-only log, snapshot | setState, append, compact, load, rebuild | the file system |
| Replication `cluster/runtime.ts`, `events.ts`, `sync.ts`, `adapters.ts` | events, row versions, row hashes, counter, snapshot vector; caches of events and snapshot | scan for local changes, pull deltas, recover from a snapshot, prune, serve | database, peers, election |
| Duplicate merging `cluster/story-merge.ts` | similar stories | merge a story into its canonical one | replication |
| Merge queue `utils/auto-merge.ts`, `utils/pr-sync.ts`, `manager/pr-sync-orchestrator.ts`, `manager/qa-review-handler.ts`, `commands/pr.ts` | rows of `pull_requests`, statuses of stories | submit, review, approve, reject, claim, merge, import, close stale, dispatch, time out, requeue | GitHub, QA crew, database |
| QA crew `orchestrator/scheduler.ts` | rows and sessions of QA agents | scale up and down, health check, spawn, look up the idle ones | merge queue, tmux |
| Story recovery `manager/stuck-story-processor.ts` | stories, pull requests, nudge counts | infer progress, submit for an agent, nudge, reassign after QA failure | merge queue, tmux, classifier |
| Agent monitoring `manager/index.ts`, `escalation-handler.ts`, `agent-monitoring.ts`, `session-resolution.ts` | check in progress, check queued, observed states, interventions, escalations | tick, check, approve, restore bypass, restart, nudge, escalate, resolve | tmux, classifier, people |
| Messages `commands/msg.ts`, `message.ts`, `manager/index.ts` | rows of `messages` | send, forward (two paths), read, reply, mark | tmux sessions |
| Database `db/client.ts`, `db/lock.ts`, `db/provider.ts`, `utils/with-hive-context.ts` | the file, its temporary and backup file, the lock directory, a copy in memory per session, applied migrations | lock, load, migrate, transaction, save, close, release | every command |
| Scheduler `orchestrator/` | stories, agents, sessions, worktrees | assign, scale, health check, recover orphans, spawn | tmux, git, database |
| Requirements `commands/req.ts`, `progress.ts`, `manager/handoff-recovery.ts`, `feature-sign-off.ts`, `feature-test-result.ts`, `orchestrator/feature-branch.ts` | requirement states, feature branch and its pull request, test agents | create, plan, hand off, branch, sign off, act on the result | tech lead, scheduler, git, gh |
| Trackers `integrations/jira`, `confluence`, `connectors/` | issue keys, subtasks, statuses, a queue of operations | make issues and subtasks, push and pull statuses | remote APIs, database |
| Text and I/O (agents, runtimes, detectors, parsers, prompts, wizards, dashboard, auth, config) | none of the system's | | |

### What is hard

* **Unlocked gaps.** A step of the manager that talks to GitHub, tmux or a model reads under the lock,
  lets go, and writes what it decided under the lock again. Commands and GitHub go on in the gap.
* **A lock with an age.** The database lock is taken over when it is not refreshed for 30 s, and code
  blocks the event loop that refreshes it.
* **Whole-file saves.** A session writes everything it loaded, in the schema of the hive it belongs to. Two
  overlapping sessions undo each other.
* **Elections without a log.** Terms, votes and heartbeats follow RAFT; what is replicated does not: rows
  go by last-writer-wins with wall-clock stamps, pruned logs and snapshots.
* **Crashes.** A process may die between any two writes; the manager has `kill` paths, and agents are
  terminal sessions that disappear.
* **Retries and timeouts.** Reviews time out and are dispatched again, merges are tried again, checks
  queue up behind one another, a tracker is asked again after an answer was lost.
* **State in memory of the manager.** Nudges, interventions and observed states are lost with its process while
  the rows they are about stay.

`PROJECT.json` lists each such place under `hazards`, with the properties that cover it.

### What makes each component correct

* Election: at most one leader per term; a vote survives restarts; a deposed leader steps down; no
  leader with an incomplete state. Membership: a node that is listed ends up as a follower.
* Raft store: nothing a node answered with is lost, and no event is logged twice.
* Replication: every node's rows are the result of the events it knows, an event is never skipped
  or sent back, an id denotes one event, nodes come to the same rows, duplicates disappear.
* Merge queue and crew: merged means merged on GitHub; nothing merges unapproved; a QA session has one review at a
  time; every row leaves the queue, whatever becomes of reviewers; a verdict stands; a merged story is merged for good.
* Database: sessions exclude each other, no saved change is lost, the lock comes free, a hive of any age can
  open the file and finds each value in its column.
* Scheduler: a story has one agent and an agent one story; a story is assigned after its dependencies; the
  limit of parallel stories holds; the story of a dead agent is assigned again; all stories are merged.
* Monitoring: a tick is never lost, a message is read only if its agent was told of it, questions and stuck stories
  come before a person, an escalation is resolved.
* Requirements: a stalled hand-off completes, a sign-off starts when all is merged, a result is acted on once.
* Trackers: one issue for a story, and the tracker catches up with the story.

## 2. Plan

| # | Module | State | Left to do |
|---|---|---|---|
| 1 | `HiveElection`, `HiveElectionProofs` | done, proved | |
| 2 | `HiveMembership` (extends `HiveElection`) | done | which changes of the lists keep quorums intersecting |
| 3 | `RaftStore` over `DurableStore`, `RaftStoreProofs` | done, proved | |
| 4 | `Replication` over `LastWriterWins`, `ReplicationProofs` | done, proved | |
| 5 | `MergeQueue`, `MergeQueueProofs` | done, proved | |
| 6 | `ReviewCrew` (extends `MergeQueue`) | done | |
| 7 | `HiveDb` over `SerialStore`, `HiveDbProofs` | done, proved | |
| 8 | `HiveUpgrade` (extends `HiveDb`), proofs in `HiveDbProofs` | done, proved | |
| 9 | `Assignment`, `AssignmentProofs` | done, proved | |
| 10 | `AgentMonitoring`, `AgentMonitoringProofs` | done, proved | |
| 11 | `RequirementPipeline` | done | |
| 12 | `TrackerSync`, `TrackerSyncProofs` | done, proved | |
| 13 | `DependencyOrder` | planned | topological sort and capacity selection as functions against reference definitions, over all small graphs |

## 3. The modules

Every definition that stands for code is in the `map` of `PROJECT.json` with its lines. Definitions
named `Faulty...` (and `UnversionedApplied`, `StubbornShouldApply`) are mutated forms of the definition they
precede: no action uses them, and `mutants` says which property each one violates when it takes its
definition's place. A module `MC...` gives the constants of a module their values for TLC.

### HiveElection

One node per cluster member: `currentTerm`, `role`, `votedFor`, `leaderId`, `peers`, `isCatchingUp` and
`ballot` are the fields of `RaftStateMachine` and the locals of `startElection`; `raftStore` and
`raftLog` are the files. `msgs` holds requests that were sent and answers on their way back. A
request whose sender no longer waits (timeout, restart) stays in `msgs` closed: it can still be
delivered, its answer goes nowhere. That gives lost, delayed and reordered requests.

`StartElection` is the part of `startElection` up to the first await; `HandleVoteResponse`,
`DeposedByVoteResponse` and `VoteRequestFails` are the continuations of the parallel requests,
and the one that settles the last request runs the rest (`FinishElection`). `HandleVoteRequest` and
`AcceptHeartbeat`/`RejectHeartbeat` are the handlers. `DieWhileVoting` is a death between the two writes
of a vote. A heartbeat carries the sender's list of peers, which the receiver adopts.

Abstractions: time (timeouts may fire whenever they are armed), the cluster's HTTP layer, leases.

### HiveMembership

The election with changing lists: `Join` is `hive cluster join`, `HandleMembershipLeave` the endpoint for leaving; both
change the list of a leader and nothing else, and the heartbeats of `HiveElection` do the rest. A node that is no
leader refuses, and the command reports a failure, so these requests are no steps. `MembersFollow` is the promise.

### RaftStore and DurableStore

`stateFile`, `logFile` with `tornTail`, and `snapshotFile` are the files of one node; `state`, `knownEventIds`,
`snapshot` and `batch` its memory; `pc` names the write that is due. `AppendLine` and `PersistState` are the two
writes of an append, `CreateSnapshot` and `CompactLog` those of a compaction. `DieInAppend` tears a line; `Start` is
the constructor, `RecoveredState` and `RecoveredEvents` what it makes of the files. An entry torn off stays
as a tail without an end, and the next line is lost with it: `spoilt` of `DurableStore` says that at most one event
is hit, and only until a snapshot or a death.

### Replication and LastWriterWins

Each node has a database `db[n]` (rows, the row values known from the last scan, row versions, events,
counter, snapshot vector), the copy on disk `saved[n]`, what its HTTP server answers from
(`published[n]`), and `sync[n]`, the peers it has yet to pull from. A sync runs under the database lock, so edits
happen between syncs; pulls from different peers follow one another. `SaveDb` is the save that
follows, `Crash` falls back to the saved copy while the caches were served already.

`LastWriterWins` is what replication promises: a register per row and node that holds some written
version and only ever moves to a newer one. `LastWriterWinsSpec` says that `Replication` implements it.

Abstractions: one table, rows whole; a request and its answer are one step; the similarity of
stories is given by `CanonicalOf`; ids are fresh, so a row is created once; `Skew` is each clock's offset
and `now` advances with every scan that emits events.

### MergeQueue

`rows` are the rows of `pull_requests` in the order of `created_at`; `linked` says that the
GitHub number is known. `gh` is the state of every pull request on GitHub, `story` the status of every
story. `mgr` is where the manager's check is and what it carries over an unlocked gap: the rows
it claimed, what GitHub answered, the list it fetched.

The manager's actions follow `managerCheck` in order: claim approved rows, merge them on GitHub,
write the outcomes; list merged pull requests, write them; list open ones, import them; read
rows and close stale pull requests; view reviewing ones, write; dispatch to QA sessions; find reviews
that consist of a comment and reject them; requeue timed-out reviews; send rejected rows back; recover
stories without agent; submit for a stuck agent. Commands (`submit`, `sync`, `complete`, `review`,
`Approve...`, `reject`) run under the lock from first read to last write and are one step each.
GitHub and people (`OpenPr`, `MergedElsewhere`, `ClosedElsewhere`) are the environment.

Abstractions: the eight outcomes of an attempted merge are grouped by what is written for them; picking
reviewing rows and viewing them is one step, since the rows are looked at again before the write;
idleness, ages and timeouts are nondeterministic; a closed pull request is never reopened; agents'
pointers to stories, trackers and logs are left out. `MaxTimeouts` is 3 in the code and 1 in the runs.
`told` and `verdict` in a row record dispatches and verdicts for the properties only.

### ReviewCrew

The merge queue with the agents that work it off, in place of its free choice of idle sessions. `crew` are the
rows of QA agents, `tmux` the sessions that run, `check` where the check is with the crew and which sessions it
knows of. A check begins with `HealthCheck`, then `scaleQAAgents` (`SpawnQA`, `SpawnFails`, `DieWhileScaling`,
`ScaleDown`) to the number `Needed` for the pending work, then `Discover`, the list of sessions the later steps believe in.
`ManagerStep` is the merge queue's check with the crew it found; `ScaleElsewhere` is the scaling the pr commands do;
`SessionEnds` takes a session at any moment. `Tidy` drops rows no query can tell from none, which keeps the state finite.

### HiveDb and SerialStore

A database is the set of changes made to it. `lock`, `owner` and `holds` are the lock directory, the
living process that made it, and the belief of each process that it holds it; `pc` is where a process is
in `withHiveContext`; `mem`, `begun`, `tmp` and `file` are its copy, the copy at BEGIN, `hive.db.tmp`
and `hive.db`. The lock itself (proper-lockfile) is external: a directory made atomically, refreshed
by a timer of its owner, stale after 30 s without refresh, removed by `release()` and by an exit hook
without looking whose it is, unless the owner has noticed that it is not its own any more. Taking
over a stale directory is one step.

`save()` is two steps, writing the temporary file and renaming it, since other processes run in
between; within a process nothing does, it is synchronous. `stalls` counts the sessions that blocked longer than
the stale time: up to `MaxStalls` times a living owner's lock goes stale. `LoadsFail` lets `getDatabase` throw.

`SerialStore` is the promise: sessions open one after the other on what the last one wrote. `HiveDb`
implements it with the file as store and the copies in memory as views, as long as nobody stalls.

### HiveUpgrade

The same sessions with the schema that travels with the rows: `memSchema`, `tmpSchema`, `fileSchema`. Each process
has the first `VersionOf[p]` of the eighteen `MIGRATIONS`, applies what is missing to what it loaded
(`LoadAndMigrate`), and writes the result with its next save. A table is the sequence of its columns with the
column each value was written to; `UpAgents`, `UpRequirements` and `UpStories` say what each migration does to
it, copies by position and by name included. `ReadOnlyCopy` is what `getReadOnlyDatabase` makes of the file.

### Assignment

`story[s]` is the status of a row of `stories` and its `assigned_agent_id`; `agents[a]` is a row of `agents`
(type, number in the session's name, status, `current_story_id`), numbered in the order of creation;
`alive` are the tmux sessions; `open` the stories with an open pull request (their rows are the subject of
`MergeQueue`). A row of agents says working, and a session is gone, or a story names an agent that has long
ended: the code keeps these apart by hand, and the module asks whether it does.

Everything a command or a step of the manager does under the lock is one step, with one exception:
`checkScaling` and `assignStories` save after each agent they spawn and each story they assign, so a death
between two of those leaves half of it. They are the variable `assigning`, with a step per save, and
nobody else takes the lock until it is at rest. `manager` is the stage of the manager's check, the sessions it
discovered, and the agents the spin-down is about to end: `ReadMerged` and `ReadIdle` read under the lock,
`KillSessions` kills without it, `WriteEnded` writes with it again.

`HealthCheck`, `ReconcileAgentsOnMergedStories`, `AutoAssignPlannedStories`, `Discover`,
`RecoverUnassignedQAFailedStories`, `ReadMerged`, `ReadIdle` are the steps of `managerCheck` in its order.
`HandOver`, `Claim`, `Complete`, `Submit`, `Reject`, the three ways of merging and `AssignCommand` are
everyone else; `SessionDies`, `AbortCheck` and `AbortCommand` what goes wrong.

Abstractions: one team; stories of one point; the status `qa`, which only the merge queue distinguishes,
is left out; the refactor share of the capacity is not applied; QA agents and their sessions are in
`ReviewCrew`, so the check may not end early in `Discover` while QA has something to do; the health check and the
recovery of orphans are one step, and so is the killing of several sessions; the number of a new
agent is read where it is used. A session left over when the process dies between the creation of a session
and the row of its agent is not modelled, nor are the commands that remove agents
(`agents cleanup`, `hive cleanup`).

### AgentMonitoring

What one check does about the agents' terminals, with the checks' own scheduling. `pane`, `row`, `story` are the
world: what the terminal shows, the agent's row, its story. `escalations`, `recent` (what the lookback of 30 minutes
still sees) and `message` are rows; `tracked`, `nudges`, `intervening`, `attempts` the maps of the manager's process, which
`Restart` empties. `pc` is the stage of the check, `todo` the sessions the loop at hand has still to visit, `seen` and `judged`
the state that was captured and what was made of it.

`Tick`, `End`, `Abort` are `runCheck` with its queued tick. `FetchMessages`, `Visit`, `MarkRead` are the
check's forwarding, `ForwardPending` the fast loop beside it. Per session follow `Judge`, `AutoApprove`, `RestoreBypass`,
`BackOff`, `AwaitRecovery`, `RecoverInterrupted`, `Escalate`, `Recovered`, `LeaveIdle`; after the loop `RemindFails`, `ReadStuck`,
and per stuck story `FindWorking`, `FindStuck`, `Assess`, `Verdict`, `Nudge`. The classifier's verdict is any of its three
answers. A call to tmux that throws ends the loop it is in (`Throws`, `Sent`), which is how one dead session can
keep the others from being looked at. An agent has one session and one story; equal escalations count once.

### RequirementPipeline

One requirement: its row, the stories' statuses, the tech lead's session, the feature branch, its pull request, and the
rows of the test agents. `check` is where the manager is and what it has read: the stalled hand-off (`HandoffStalled`
to `RespawnTechLead`), the sign-off (`ReadyForSignOff`, `SpawnFeatureTest`), the results (`ReadResults`, `NextCandidate`,
`CreateFeaturePR`, `MergeFeaturePR`, `RecordPassed`, `RecordError`). `PlanStory`, `FinishPlanning`, `AssignStories`,
`MergeStory`, `FinishTests`, `ReportProgress` are everyone else. `Die...` are deaths between two writes that are saved
apart, `ManagerDies` one between two steps. How a planned story comes to be merged is one step here.

### TrackerSync

`saved` are the rows on disk and `session` those of the session that has the database, the manager's sync or an
assignment; `issue` and `subtasks` are what Jira has made, and it stays made when the session is lost (`SessionLost`) or an
answer is. The sync's four steps are `SyncIssue`, `RepairSubtask`, `PullStatus`, `PushIfBehind`, one call each; `hook`
is the queued operation of an assignment, `pushes` the changes that are pushed once, in the background. The two
orders of statuses the code has, `STATUS_ORDER` and `STORY_STATUS_ORDER`, are both there, as they differ.

## 4. Runs, bounds and fairness

`PROJECT.json` names every run with its properties; here is what the bounds are for.

* `election`: three nodes are the least with a majority that is neither one nor all; two candidates and
  two terms let two elections compete and one overtake the other; a candidate, which votes as well, restarts.
* `membership`: a founder that knows nobody and a newcomer that knows the founder, two terms, both may campaign and restart,
  the newcomer may be added and removed at any time. With more nodes the liveness graph is out of reach.
* `raft_store`: one vote, two events, two lines before a compaction, five indexes: a compaction happens before, between
  and after the events, and a death at each write of it.
* `replication`: two nodes, a story of one and its duplicate of the other, two values, three edits, and more scans than
  the edits and merges can make emit, with room for every event, under fairness. `replication_truncated` shrinks the
  cache to one event and the database to two, so that every second pull needs a snapshot, and lets a node die.
* `queue`: one pull request, two rows for it, one QA session, with reviews claimed by hand, and any two of two verdicts, a late
  completion and a restart of the manager, so that every race of a verdict with the manager's gaps occurs.
* `crew`: one row and a crew of at most one, each of: a verdict, a timeout, a restart of the manager, a session that ends and
  a spawn that fails. One of each is what it takes to lose a reviewer at each step of a review; no step assumes a reviewer.
* `db`: the manager of an old hive (twelve migrations), a command and a read-only command of the new one (eighteen,
  sixteen), on a file made by the first hive, the old or the new one; two changes, one stall, unreadable files.
* `assignment`: three stories, one depending on another, one handed over late, two at a time; a run of `hive assign`, and any one of a
  death of a session, a failed spawn, a rejection, a claim, a merge by `pr approve`, an aborted check or command. Eight
  agents are more than the mishaps can make the code spawn (with fewer, a spawn finds no row and deadlock is reported).
* `monitoring`: one agent, since the check looks at one session after the other and what another can do to it is to
  make the check throw, which `Abort` does. The instance is in two halves to stay small: in one there are two messages, queued ticks,
  an aborted check and a restart while the agent works, is limited or dies; in the other its screen goes through
  all states, with one nudge and one recovery before the hard reset.
* `pipeline`: two stories, planned and merged in two rounds if it comes to that, so that a sign-off may fail and be repeated; two test
  agents; both kinds of target branch; one death of the manager.
* `tracker`: one story on a board of three columns, which leaves statuses without one; four changes take it from planned to
  merged; and one issue moved by hand, one lost answer or one lost session.

More holds of these instances than the runs ask, to stay short. With a property of the second column in place of the
properties of the run's configuration, TLC finds no error either:

| Configuration | Checks |
|---|---|
| `MCHiveElection` | `TypeOK`, `MajorityReachedTermOfLeader` |
| `MCRaftStore` | `TypeOK`, `IndexesGrow`, `EventsAreLoggedOnce` |
| `MCReplication`, `MCMergeQueue`, `MCHiveUpgrade` | `TypeOK` |
| `MCReviewCrew` | `CrewTypeOK` |
| `MCAssignmentMishaps` (as it stands) | two stories under any three mishaps: `TypeOK`, `PointersAgree`, `PlannedIsUnassigned`, `WorkIsNotTakenAway`, `HealthCheckRepairs` |
| `MCAgentMonitoring` | `TypeOK`, `NoTickIsLost`, `RepliesStand`, `InterruptionsEnd`, `RecoveredAgentsAreCleared`, `DeadAgentsEscalationsClose` |
| `MCRequirementPipeline` | `TypeOK`, `PassedIsMerged` |
| `MCTrackerSync` | `TypeOK`, `StoriesReachTheTracker` |

The properties that fail are in section 6.

Deadlock is not checked where the bounds (`MaxTerm`, `MaxEdits`, `MaxScans`) bring the model to a halt and in
`RequirementPipeline`, where a requirement comes to its end; everywhere else it is.

Fairness and why the code justifies it:

* Election and membership: a leader's interval timer goes on; current heartbeats and their answers get through in the
  end, or a request times out (`request_timeout_ms`). Nothing is assumed of election timers, votes and restarts;
  joins and leaves are operators' doing and end.
* Replication: the manager syncs on its interval (weak fairness of the beginning, the end and the save); a peer asked
  again and again answers at last (strong fairness of the pulls, because a failed one ends the attempt). A peer that
  refuses a request for its old fencing token does so until the terms have met.
* Crew: the manager's checks run on a timer (weak fairness of its steps); a listing of merged pull requests that
  includes what is merged succeeds time and again; a reviewing row is time and again found timed out with its reviewer idle.
  QA need never answer, and no session need live: the scaling has to provide one.
* Database: an orphaned lock directory ages, a process that is in a step of its own takes it, a session's work ends.
  Crashes, exits and stalls are never fair.
* Assignment: a session that holds the lock goes on (weak fairness of `Assigning`); the manager's timer ticks and its
  check gets the lock in time (strong fairness of `Check`, because others may hold it whenever it asks); whoever
  has the next step of a story, from the hand-over to the merge, gets the lock in time as well (strong fairness of
  `Advance` per story). Agents need not complete, claim or stay alive, and nobody need run `hive assign`.
* Monitoring: both timers tick, a check goes on, a rate limit and an agent's silence age; a check that comes to an interrupted or
  stuck session time and again is not every time kept from it by a throw before (strong fairness of `RecoverInterrupted`
  and `FindStuck`). Agents, people and the classifier owe nothing.
* Requirements: the manager goes on after a death and its cooldowns pass; a test agent that was asked to report does; making a test
  agent succeeds time and again. The tech lead, git and gh owe nothing.
* Trackers: the manager syncs and an assignment ends; a call to Jira repeated for one story is answered at last.

## 5. Proofs

TLAPS checks the eight modules `...Proofs` for all values of the constants that meet the named assumptions. Those
assumptions are of two kinds. An `ASSUME` of a module says what a configuration has to be (finite sets,
bounds that are numbers, a home for each row). An `ASSUME` of a theorem is a restriction of the system, stated with
the theorem; each of them holds of the run that checks the same property:

| Assumption | What it says | Theorems | Without it |
|---|---|---|---|
| `FullConfigLists` | a configured list of peers leaves out at most the node | `SplitsNeedRevote`, `MajorityReachesTermOfLeader` | majorities need not intersect |
| `RecheckMayFail = FALSE` | the look at GitHub after `gh pr merge --auto` succeeds | `MergedRowsAreMerged` | refuted (`MCMergeQueueRecheck`) |
| `Claimants \subseteq {NoOne}` | nobody gives `hive pr review` a reviewer's name | `ReviewersHaveOneReview` | the command looks at no other row |
| `EqualClocks` | the nodes' clocks agree | `RowsFollow` and the four below | nodes differ (`MCReplicationSkew`) |
| `NothingForgotten` | no node dies, and the database has room for every event | `ImplementsLastWriterWins`, `NodesWithTheSameEventsAgree` | ids are reused (`MCReplicationTruncated`) |
| `RoomForAll` | and so have the cache and a delta | `HistoriesHaveNoGap`, `EventsHaveCauses` | refuted (`MCReplicationGap`) |

**Election.** `TypeCorrect`. `VotesOncePerTerm` rests on `VoteInv` (with `NodeInv`): a vote in memory
is the vote in the file or was cleared by winning, the log names every vote of the past with terms not
above the current one; a death between the two writes loses the entry of a vote that was not
answered. `TermsAndVotesSurvive` is the action property from the same invariant.
`SplitsNeedRevote` and `MajorityReachesTermOfLeader` add `MajorityInv`: counted votes are logged
grants, and a winner had a majority of them. They assume `FullConfigLists`, that each
configured list leaves out at most the node itself, which static configuration files of a cluster give and joins
and leaves break; majorities of such lists intersect (proved from the library's facts about cardinality).

**Database.** `TypeCorrect` without proviso. What the others state ends with the first stall (`stalls = 0 =>`), as the code has
nothing against it: a process stopped in its session is joined by another. `LockInv` says that until then a process in a
session holds the lock and a holder owns a fresh directory; hence one session (`Exclusive`). `ViewInv` adds that the
memory of a session includes the file, that the copy at BEGIN does too, and that the temporary file of a saver is its memory;
hence no save drops a change (`NothingSavedIsLost`), and every step is a step of the serial
store or leaves it alone (`ImplementsSerialStore`). `HiveUpgrade` takes these sessions as they are
and adds the schema (`UpgradesAreSessions`).

**Upgrades.** `ValuesStayInTheirColumns` speaks of the result of a run of migrations and does not survive one: a file with a migration on
record and one of its columns missing would do today and fail at the next upgrade. `Sound` says that the columns of a table are exactly those
which the recorded migrations bring to it, and that nothing is recorded before `001-initial`. `ApplySound` keeps it over one migration, with those
it builds on behind it: what 013 copies by name is then there (`RequirementsTable`), and its list leaves nothing out that
any migration brings (`RequirementsBroughtAre`, `AgentsAreOf013`). `RunSound` goes through the loop of `runMigrations`, by the least step at
which it would fail, and finds the record grown by all migrations of the hive. So a hive finds at least the columns of a database
made by itself (`ValuesAreFound`), and 015, which does not look, finds no `markdown_path` unless it is on record (`EveryHiveOpens`).
These two hold through stalls and torn sessions as well, because a schema is only ever migrated or copied.

**Assignment.** All five theorems rest on one invariant, `IInv`. `PointersAgree` is not inductive: a merged story
that is planned again (section 6) goes to a new agent, and if an old one still pointed to it, there would be two.
`Pairing` therefore says what becomes of a merged story (it keeps its agent or is nobody's), and `NoSharing`
that no two agents in force point to one story, merged or not. `HoldersWork` (an agent with a story is
working) is what keeps `HealthCheck` from taking the stories of agents in force; the lemma `HealthCheckSpares` says so.
`QueuedAreNobodys` and `PickedIsQueued` carry what `assignStories` has read over its saves: the stories still to be
handed out are planned and nobody's. `MergedAreClosed` keeps a rejection from reaching a merged story, and
`EndingIsMerged` keeps the write after the unlocked gap of the spin-down to merged stories. `WorkStays` and
`RepairByHealthCheck` are action properties from the same invariant; the steps that turn agents from a merged
story share the lemma `TurnedRowsHold`, and those that change one story `OneStoryChanges`.

`ParallelLimit` adds `SlotsAreLeft`: over the saves of `assignStories`, the stories under way and the slots the loop
still has do not exceed the limit, because everything that happens in between only ends work; a claim is charged to `bounds`.

**Raft store.** `Inv` ties the memory to the files: where no write is due they agree (`MemoryInv`), and a known event
is in the log, in the snapshot, or spoilt by a torn line (`EventsInv`). `ReadyIsRecovered` draws the conclusion that
what the constructor would compute from the files is what the node holds, the index included, which the code takes as
the greatest of three sources. Hence `AnswersSurvive`, `LogNamesEntriesOnce` and `FilesImplementDurableStore`; in the
refinement the entry counts when its line is whole and, without an event, when the state is written.

**Replication.** Five layers, each over the one before. `Types`. `FollowInv`: wherever events are kept (databases,
saved copies, caches) each has been stamped before `now`, a version belongs to one event, and the row, the known value
and the version of a key are those of its newest event (`Stamped`, `Distinct`, `Sound`); deltas, snapshots, pruning
and the merging of duplicates each have a lemma over an arbitrary database, so the proof of a step only says which
databases it puts where. `RegisterInv` adds that an id denotes one event and that a row's version is that of an event
the node knows (`Identified`, `CountedBy`, `Grounded`), which maps every step to `LastWriterWins`. `GapInv` adds that
the events of each actor a node has or serves are a prefix of those it emitted, and that a served vector names events
that are served. `CountInv` charges every event, and every row that differs from what was last emitted, to an edit or
to a merge, which changes two rows; imports make no such difference, and without a gap no snapshot is taken, whose
rows would be emitted again. `ImportIsIdempotent` is about the operator alone.

**Merge queue.** `MergedIsMergedOnGitHub` (`Truth` is that, under its proviso) is not inductive alone: it needs that
the results the manager holds over an unlocked gap, the list it fetched and the views it took say merged only of
merged pull requests (`ManagerOK`), and on GitHub merged is for good. `ManagerOK` further says that an attempt under
way is for a row that was approved, which gives `MergesAreApproved` over verdicts in the gap. `ReviewersHaveOneReview`
is inductive with `Inv`: idle sessions and queued rows are paired by rank, which is injective (`RankIsStrict`).

**Monitoring.** `Inv` is a conjunction about the loop (`ContextInv`: what is queued, judged and yet to visit at each
stage) and about messages (`MessageInv`: what a loop is about to mark as read was told). `RepliesAreFinal` needs that
a marking changes messages only that are still pending when it writes.

**Trackers.** `OneIssueForAStory` is not inductive: Jira's issues have to be counted against the rows of the session
at work, not against those on disk. `IssuesCounted` does so (a story whose key the session does not know has no issue
but those lost, with a key one more), `SessionInv` says that outside a sync the session has the rows of the disk, and
`LeftInv` that the sync makes issues for stories without a key only. `KeyOK` is what the numbers of issues mean, hence
`KeysNameTheStorysIssue`.

What stays with TLC: liveness (TLAPS has neither fairness nor ENABLED here), hence all properties under `WF` and `SF`;
and the modules `HiveMembership`, `ReviewCrew` and `RequirementPipeline`.

## 6. Disagreements between the code and what it says

Stated as properties of the modules, to be run by hand (`tlc -config <configuration> <module>`; the module is the one
whose name it begins with). A configuration in the table checks the property as it stands, or, where it is one of the
runs of section 4 or marked with a star, with the property in place of its own; TLC answers with a counterexample.

| Configuration | Property it refutes | What the code does |
|---|---|---|
| `MCHiveElection` | `ElectionSafety` | two leaders of one term: the winner of an election clears its vote and may vote again |
| `MCHiveElection` | `RedirectsToAnotherNode` | a restarted leader redirects to itself |
| `MCHiveElection` | `FollowersPullFromTheirLeader` | a follower drops the leader from the peers it pulls from |
| `MCHiveElectionCatchUp` | `NeverElectedWhileCatchingUp` | a node becomes leader during its snapshot recovery |
| `MCReplicationSkew` | `NodesConverge` | clocks that differ keep rows different |
| `MCReplicationGap` | `NoGapInHistory` | an incomplete delta, applied for want of a snapshot, hides events |
| `MCReplicationTruncated` | `IdsDenoteOneEvent` | a death before the save reuses event ids |
| `MCMergeQueue` | `RejectionStands` | a reviewer's rejection is overwritten by the late outcome of a merge that was under way |
| `MCMergeQueue` | `MergedStoryStaysMerged` | a merged story does not stay merged |
| `MCMergeQueue` | `NoDuplicateRows` | a resubmission makes a second row |
| `MCMergeQueueTried` | `ApprovedRowsAreTried` | approved rows without a number are never tried |
| `MCMergeQueueStale` | `OnlySupersededAreClosed` | the newest pull request is closed as stale |
| `MCMergeQueueRecheck` | `MergedIsMergedOnGitHub` | merged is recorded when the check itself fails |
| `MCReviewCrewZombie` | `NoZombies` | a scaling that is cut off leaves rows without a session, which count as crew |
| `MCReviewCrewZombie` * | `ReviewersAreSpared` | scaling down looks a reviewer up by the wrong name and ends it in the middle of its review |
| `MCReviewCrew` | `QueueDrains` | the row of a merged story is nobody's pending work: without other work there is no crew, and it stays queued |
| `MCAssignment` | `MergedIsFinal` | the idle spin-down (`spin-down.ts:244`) and the health check (`scheduler.ts:794`) end an agent and leave its id in the merged story; the recovery of orphans plans that story again |
| `MCAssignment` | `KillsNoWorker` | `hive assign` gives a story to an agent between the reading and the killing of the spin-down, which then kills it (`spin-down.ts:53`) |
| `MCAssignmentSessions` | `SessionsAreUnique` | a senior is spawned under the number of one whose session has died and whose row is still in force (`scheduler.ts:1014`): two rows, one session |
| `MCHiveUpgrade` | `AgentsKeepTheirValues` | migrations 013 and 014 copy the table of agents by position (`client.ts:499`, `client.ts:558`), and the columns added before stand at the end |
| `MCRequirementPipelineVerdict` | `SignOffEnds` | the report the test agent is prompted for fails, as `progress` asks for a story (`progress.ts:45`): the sign-off has no verdict |
| `MCTrackerSync` | `OneSubtaskForAStory` | the repair and the hook of one assignment each make a subtask |

Read in the code while modelling, without a run of their own:

* Membership: `hive cluster join` through a follower fails (307 without `Location`), and so does every `hive cluster leave`, which asks
  the node itself. A leave may leave two leaders that do not know of each other.
* Crew: agents count as idle while they review, so a review may time out at work; a review whose reviewer has ended is not
  requeued unless its terminal was last seen at the prompt.
* Monitoring: `resolveOrphanedSessionEscalations` looks for session names where escalations carry agent ids, and finds none. An
  intervention once made is not forgotten short of a restart. An escalation that was acknowledged is not resolved when
  its agent dies. One that outlives the lookback of 30 minutes is made again. A story whose branch is unknown is
  judged done and never escalated.
* Database: read-only commands load without the lock and migrate their own copy only. A load that throws leaves the manager
  holding the lock it took (`KeptByDaemon`, the proviso of `LockComesFree`).
* Requirements: only the making of the feature branch sets `in_progress`. A target branch other than the default stays
  in `sign_off`. A second result read in one batch overwrites the verdict of the first. The comment of
  `handleTestFailure` speaks of an escalation nobody makes. The making of a branch that exists locally fails for good.
* Trackers: a push that fails is repeated by the next sync only, and that passes over merged stories. An answer lost after Jira
  made the issue gives the story a second one (why `OneIssueForAStory` allows as many as answers were lost).
  `STATUS_ORDER` and `STORY_STATUS_ORDER` disagree about `pr_submitted`, `qa` and `qa_failed`.
* Not called from anywhere in `src/`: `syncAllTeamOpenPRs`, `syncMergedPRsFromGitHub` and `closeStaleGitHubPRs` of
  `pr-sync.ts`, `postSignOffReport`.

## 7. What is not modelled

The components with status `not_modelled` in `PROJECT.json`, with reasons: they are programs around a language model, I/O,
text, remote APIs or declarations. Of the modelled ones:

* the Postgres mode: it takes no lock file, its transactions run on a pool whose statements need not share a
  connection, and what isolates them is the server's and not this code's;
* in clusters, authentication, fencing tokens (they delay, section 4), the checks of a follower, and the differences between tables;
* in the merge queue, the 20 entries of GitHub lists, counting timeouts over the last 100 logs, rows without a story, and partial
  autonomy; wall-clock ages anywhere other than as nondeterministic timeouts;
* in the scheduler, refactor work and its share of the capacity, auditors, models and worktrees;
* in monitoring, what the classifier is asked, plan mode, and token counting;
* in trackers, epics, sprints, comments and Confluence pages;
* commands that reset or delete (`cleanup`, `agents cleanup`, `nuke`): they end what runs, whatever state it is in.
