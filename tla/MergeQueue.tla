----------------------------- MODULE MergeQueue -----------------------------
(***************************************************************************)
(* The merge queue: the pull_requests table and the story statuses, as the *)
(* manager's check loop, the `hive pr` and `hive my-stories` commands and  *)
(* GitHub change them.                                                     *)
(*                                                                         *)
(* A check of the manager is a fixed order of steps.  A step that calls    *)
(* GitHub reads the database under the lock, calls GitHub without it, and  *)
(* writes under it again, so commands and GitHub run in between; a command *)
(* runs under the lock from its first read to its last write.  `mgr' is    *)
(* where the check is and what it carries over such a gap.                 *)
(*                                                                         *)
(* Rows stand in the order of created_at.  A pull request of GitHub is     *)
(* named by its number and has a branch of its own; a row is `linked' when *)
(* it has the number.  Every branch names its story.                       *)
(***************************************************************************)
EXTENDS Integers, Sequences, FiniteSets

CONSTANTS
    Story,
    Pr,             \* numbers of pull requests on GitHub
    StoryOf,        \* the story whose id the branch of a pull request holds
    DependsOn,      \* <<s, t>>: story s depends on story t
    QA,             \* QA sessions, numbers in the order tmux lists them
    NoOne,          \* no reviewer
    Claimants,      \* who calls `hive pr review' (NoOne: without --from)
    RecheckMayFail, \* the second `gh pr view' of an auto-merge may fail
    MaxTimeouts,    \* requeues before a review is rejected (3 in the code)
    MaxRows,        \* bound: rows
    MaxVerdicts,    \* bound: approvals and rejections by command
    MaxCompletes,   \* bound: `hive my-stories complete' calls
    MaxRestarts,    \* bound: restarts of the manager
    MaxInAll        \* bound: all of these together

ASSUME NumberAssumption ==
    Pr \subseteq Nat /\ IsFiniteSet(Pr) /\ QA \subseteq Nat \ {0} /\ NoOne = 0
ASSUME StoryAssumption == StoryOf \in [Pr -> Story] /\ DependsOn \subseteq Story \X Story
ASSUME ClaimantAssumption == Claimants \subseteq QA \cup {NoOne} /\ RecheckMayFail \in BOOLEAN
ASSUME BoundAssumption ==
    {MaxTimeouts, MaxRows, MaxVerdicts, MaxCompletes, MaxRestarts, MaxInAll} \subseteq Nat

VARIABLES
    rows,   \* pull_requests, oldest first
    story,  \* status and assignment of each story
    gh,     \* what GitHub says of each pull request
    mgr,    \* the manager's check
    spent   \* how much of the bounds is used

vars == <<rows, story, gh, mgr, spent>>

Status == {"queued", "reviewing", "approved", "merged", "rejected", "closed"}
StoryStatus == {"planned", "in_progress", "review", "qa_failed", "pr_submitted", "merged"}

\* "armed": open, and GitHub merges it by itself when the checks pass
GitHubState == {"none", "open", "armed", "merged", "closed"}

\* told: a QA session was asked to review it; verdict: the last one given by a
\* command, "withdrawn" when it is a rejection after an approval
Row == [branch : Pr, linked : BOOLEAN, status : Status, reviewer : QA \cup {NoOne},
        manual : BOOLEAN, timeouts : 0..(MaxTimeouts + 1), told : BOOLEAN,
        verdict : {"none", "approved", "rejected", "withdrawn"}]

createPullRequest(g, linked) ==
    [branch |-> g, linked |-> linked, status |-> "queued", reviewer |-> NoOne,
     manual |-> FALSE, timeouts |-> 0, told |-> FALSE, verdict |-> "none"]

-----------------------------------------------------------------------------
(* Queries. *)
With(S) == {i \in DOMAIN rows : rows[i].status \in S}
OpenRows == With({"queued", "reviewing"})
StoryOfRow(i) == StoryOf[rows[i].branch]
OpenRowsOf(s) == {i \in OpenRows : StoryOfRow(i) = s}
IsOpen(g) == gh[g] \in {"open", "armed"}

(* Updates of some rows and of some stories. *)
SetRows(S, Change(_)) == [i \in DOMAIN rows |-> IF i \in S THEN Change(rows[i]) ELSE rows[i]]
SetStatus(S, status) == SetRows(S, LAMBDA r : [r EXCEPT !.status = status])
Rejected(r) == [r EXCEPT !.status = "rejected", !.manual = FALSE]
SetStories(T, status) == [s \in Story |-> IF s \in T THEN [story[s] EXCEPT !.status = status] ELSE story[s]]
MergeStories(T) == [s \in Story |-> IF s \in T THEN [status |-> "merged", assigned |-> FALSE] ELSE story[s]]

\* One more of what is bounded.
Spend(what, max) ==
    /\ spent[what] < max /\ spent.verdicts + spent.completes + spent.restarts < MaxInAll
    /\ spent' = [spent EXCEPT ![what] = @ + 1]

-----------------------------------------------------------------------------
(***************************************************************************)
(* Operators named Faulty... are mutations of the definition after them,   *)
(* used by no action.                                                      *)
(***************************************************************************)
At(step) == [at |-> step, todo |-> {}, got |-> {}, prs |-> {}, stories |-> {}]

Init ==
    /\ rows = <<>>
    /\ story = [s \in Story |-> [status |-> "in_progress", assigned |-> TRUE]]
    /\ gh = [g \in Pr |-> "none"]
    /\ mgr = At("claim")
    /\ spent = [verdicts |-> 0, completes |-> 0, restarts |-> 0]

(***************************************************************************)
(* autoMergeApprovedPRs.  The claimed rows are put back to 'queued', which *)
(* is also how a row waits for a QA session.                               *)
(***************************************************************************)
FaultyClaimable(r) == r.status \in {"queued", "approved"} /\ ~r.manual /\ r.linked
Claimable(r) == r.status = "approved" /\ ~r.manual /\ r.linked

ClaimApproved ==
    LET claimed == {i \in DOMAIN rows : Claimable(rows[i])} IN
    /\ mgr.at = "claim"
    /\ rows' = SetStatus(claimed, "queued")
    /\ mgr' = IF claimed = {} THEN At("listMerged") ELSE [At("merge") EXCEPT !.todo = claimed]
    /\ UNCHANGED <<story, gh, spent>>

\* What the calls to GitHub may come to for a pull request in state x, and its
\* state after them.  "left": unknown_state, conflicts, auto_merge_pending;
\* "retry": branch_updated, ci_blocked, merge_failed, of which the last may
\* have merged; "merged": merged, ci_bypassed.
FaultyMergeOutcomes(x) ==
    {[what |-> "left", after |-> x], [what |-> "merged", after |-> IF x = "open" THEN "armed" ELSE x]}

MergeOutcomes(x) ==
    {[what |-> "left", after |-> x]} \cup
    CASE x = "merged" -> {[what |-> "alreadyMerged", after |-> x]}
      [] x = "closed" -> {[what |-> "alreadyClosed", after |-> x]}
      [] OTHER -> {[what |-> "retry", after |-> x], [what |-> "retry", after |-> "merged"],
                   [what |-> "merged", after |-> "merged"], [what |-> "left", after |-> "armed"]}
                  \cup (IF RecheckMayFail THEN {[what |-> "merged", after |-> "armed"]} ELSE {})

MergeOnGitHub(i) ==
    /\ mgr.at = "merge"
    /\ i \in mgr.todo
    /\ \E o \in MergeOutcomes(gh[rows[i].branch]) :
        /\ gh' = [gh EXCEPT ![rows[i].branch] = o.after]
        /\ mgr' = [mgr EXCEPT !.todo = @ \ {i}, !.got = @ \cup {[row |-> i, what |-> o.what]},
                              !.at = IF mgr.todo = {i} THEN "apply" ELSE @]
    /\ UNCHANGED <<rows, story, spent>>

RowAfter(r, what) ==
    CASE what = "left" -> r
      [] what = "retry" -> [r EXCEPT !.status = "approved"]
      [] what \in {"merged", "alreadyMerged"} -> [r EXCEPT !.status = "merged"]
      [] what = "alreadyClosed" -> [r EXCEPT !.status = "closed"]

StoryAfter(st, what) ==
    CASE what = "merged" -> [st EXCEPT !.status = "merged"]
      [] what = "alreadyMerged" -> [status |-> "merged", assigned |-> FALSE]
      [] OTHER -> st

\* No row is looked at again before it is written.
ApplyMergeResults ==
    LET ResultOf(i) == (CHOOSE o \in mgr.got : o.row = i).what
        claimed == {o.row : o \in mgr.got}
        StoriesWith(w) == {StoryOfRow(o.row) : o \in {p \in mgr.got : p.what = w}} IN
    /\ mgr.at = "apply"
    /\ rows' = [i \in DOMAIN rows |-> IF i \in claimed THEN RowAfter(rows[i], ResultOf(i)) ELSE rows[i]]
    /\ story' = [s \in Story |->
                    IF s \in StoriesWith("alreadyMerged") THEN StoryAfter(story[s], "alreadyMerged")
                    ELSE IF s \in StoriesWith("merged") THEN StoryAfter(story[s], "merged")
                    ELSE story[s]]
    /\ mgr' = At("listMerged")
    /\ UNCHANGED <<gh, spent>>

-----------------------------------------------------------------------------
(* The steps that bring database and GitHub together.  A failed listing is *)
(* an empty one.                                                           *)
ListMerged ==
    /\ mgr.at = "listMerged"
    /\ \E P \in {{}, {g \in Pr : gh[g] = "merged"}} : mgr' = [At("syncMerged") EXCEPT !.prs = P]
    /\ UNCHANGED <<rows, story, gh, spent>>

FaultySyncMergedPRs ==
    /\ mgr.at = "syncMerged"
    /\ mgr' = At("listOpen")
    /\ story' = MergeStories({StoryOf[g] : g \in {h \in mgr.prs : \E i \in OpenRows : rows[i].branch = h}})
    /\ UNCHANGED <<rows, gh, spent>>

syncMergedPRs ==
    LET found == {StoryOf[g] : g \in mgr.prs} IN
    /\ mgr.at = "syncMerged"
    /\ story' = MergeStories({s \in found : story[s].status # "merged"})
    /\ mgr' = At("listOpen")
    /\ UNCHANGED <<rows, gh, spent>>

\* fetchOpenGitHubPRs, when gh answers
Listed == {g \in Pr : IsOpen(g)}

ListOpen ==
    /\ mgr.at = "listOpen"
    /\ \E P \in {{}, Listed} : mgr' = [At("importOpen") EXCEPT !.prs = P]
    /\ UNCHANGED <<rows, story, gh, spent>>

\* the one sequence of the numbers of S that falls
NewestFirst(S) ==
    {order \in [1 .. Cardinality(S) -> S] : \A i, j \in DOMAIN order : i < j => order[i] > order[j]}

\* Appends a row for each pull request of P whose story is not merged; GitHub
\* lists the newest first.  Bound: with no room for the rows there is none.
Import(P) ==
    LET new == {g \in P : story[StoryOf[g]].status # "merged"}
        room == Len(rows) + Cardinality(new) <= MaxRows IN
    \E imports \in NewestFirst(IF room THEN new ELSE {}) :
        rows' = rows \o [k \in DOMAIN imports |-> createPullRequest(imports[k], TRUE)]

\* getExistingPRIdentifiers: by their branch or their number; a row that is
\* merged or closed may name its branch in vain.
Known(includeTerminalBranches) ==
    {rows[i].branch : i \in {j \in DOMAIN rows :
        includeTerminalBranches \/ rows[j].linked \/ rows[j].status \notin {"merged", "closed"}}}

syncOpenPRs ==
    /\ mgr.at = "importOpen"
    /\ Import(mgr.prs \ Known(TRUE))
    /\ mgr' = At("readRows")
    /\ UNCHANGED <<story, gh, spent>>

ReadRowsByStory ==
    /\ mgr.at = "readRows"
    /\ mgr' = [At("closeStale") EXCEPT !.todo = DOMAIN rows \ With({"closed"})]
    /\ UNCHANGED <<rows, story, gh, spent>>

\* mgr.todo are the rows as they were; a row's branch and link never change.
Stale(g) ==
    LET mine == {i \in mgr.todo : StoryOfRow(i) = StoryOf[g]} IN
    /\ IsOpen(g)
    /\ mine # {}
    /\ \A i \in mine : rows[i].linked /\ rows[i].branch # g

closeStalePRs(C) ==
    /\ mgr.at = "closeStale"
    /\ C \subseteq {g \in Pr : Stale(g)}
    /\ gh' = [g \in Pr |-> IF g \in C THEN "closed" ELSE gh[g]]
    /\ mgr' = At("view")
    /\ UNCHANGED <<rows, story, spent>>

(***************************************************************************)
(* recoverStaleReviewingPRs, for the rows V that are old enough and whose  *)
(* `gh pr view' succeeds.  Picking a row and viewing its pull request are  *)
(* one step: the row is looked at again before it is written.              *)
(***************************************************************************)
ViewReviewing(V) ==
    LET ended == {i \in V : ~IsOpen(rows[i].branch)} IN
    /\ mgr.at = "view"
    /\ V \subseteq {i \in With({"reviewing"}) : rows[i].linked}
    /\ mgr' = IF ended = {} THEN At("dispatch")
              ELSE [At("applyViews") EXCEPT !.got = {[row |-> i, what |-> gh[rows[i].branch]] : i \in ended}]
    /\ UNCHANGED <<rows, story, gh, spent>>

ApplyViews ==
    LET Still(w) == {i \in With({"reviewing"}) : [row |-> i, what |-> w] \in mgr.got} IN
    /\ mgr.at = "applyViews"
    /\ rows' = [i \in DOMAIN rows |->
                    IF i \in Still("merged") THEN [rows[i] EXCEPT !.status = "merged"]
                    ELSE IF i \in Still("closed") THEN Rejected(rows[i]) ELSE rows[i]]
    /\ story' = MergeStories({StoryOfRow(i) : i \in Still("merged")})
    /\ mgr' = At("dispatch")
    /\ UNCHANGED <<gh, spent>>

-----------------------------------------------------------------------------
(* The review of queued rows.  Which QA sessions are idle, and for how long*)
(* a review has been under way, is not in the model: any set may be.       *)
FaultyReviewingSessions == {rows[i].reviewer : i \in With({"queued"})} \ {NoOne}
ReviewingSessions == {rows[i].reviewer : i \in With({"reviewing"})} \ {NoOne}

\* The oldest rows go to the idle sessions, one each.
Rank(S, x) == Cardinality({y \in S : y < x})

notifyQAOfQueuedPRs(Idle) ==
    LET IsFor(q, i) ==
            /\ i \in With({"queued"})
            /\ Rank(Idle, q) = Rank(With({"queued"}), i) IN
    /\ mgr.at = "dispatch"
    /\ Idle \subseteq QA \ ReviewingSessions
    /\ rows' = [i \in DOMAIN rows |->
                    IF \E q \in Idle : IsFor(q, i)
                    THEN [rows[i] EXCEPT !.status = "reviewing", !.told = TRUE,
                                         !.reviewer = CHOOSE q \in Idle : IsFor(q, i)]
                    ELSE rows[i]]
    /\ mgr' = At("pickCommented")
    /\ UNCHANGED <<story, gh, spent>>

\* managerCheck returns early when no tmux session is left.
NoSessions ==
    /\ mgr.at = "dispatch"
    /\ mgr' = At("claim")
    /\ UNCHANGED <<rows, story, gh, spent>>

\* autoRejectCommentOnlyReviews: the rows P have an idle reviewer and feedback
\* on GitHub.
PickCommented(P) ==
    /\ mgr.at = "pickCommented"
    /\ P \subseteq {i \in With({"reviewing"}) : rows[i].linked /\ rows[i].reviewer # NoOne}
    /\ mgr' = IF P = {} THEN At("requeue") ELSE [At("rejectCommented") EXCEPT !.todo = P]
    /\ UNCHANGED <<rows, story, gh, spent>>

RejectCommented ==
    /\ mgr.at = "rejectCommented"
    /\ rows' = SetRows(mgr.todo, Rejected)
    /\ story' = SetStories({StoryOfRow(i) : i \in mgr.todo}, "qa_failed")
    /\ mgr' = At("requeue")
    /\ UNCHANGED <<gh, spent>>

\* The reviews R have timed out with an idle reviewer.  timeouts counts the
\* PR_REVIEW_TIMEOUT logs of the row.
Requeued(r) == [r EXCEPT !.status = "queued", !.reviewer = NoOne, !.timeouts = @ + 1]

TimedOut(r) == [Rejected(r) EXCEPT !.timeouts = MaxTimeouts + 1]

requeueStaleReviewingPRs(R) ==
    LET GivenUp(i) == rows[i].timeouts >= MaxTimeouts IN
    /\ mgr.at = "requeue"
    /\ R \subseteq {i \in With({"reviewing"}) : rows[i].reviewer # NoOne}
    /\ rows' = SetRows(R, LAMBDA r : IF r.timeouts >= MaxTimeouts THEN TimedOut(r) ELSE Requeued(r))
    /\ story' = SetStories({StoryOfRow(i) : i \in {j \in R : GivenUp(j)}}, "qa_failed")
    /\ mgr' = At("closeRejected")
    /\ UNCHANGED <<gh, spent>>

handleRejectedPRs ==
    /\ mgr.at = "closeRejected"
    /\ rows' = SetStatus(With({"rejected"}), "closed")
    /\ story' = SetStories({StoryOfRow(i) : i \in With({"rejected"})}, "qa_failed")
    /\ mgr' = At("recover")
    /\ UNCHANGED <<gh, spent>>

\* The scheduler assigns the stories T of those it finds planned.
recoverUnassignedQAFailedStories(T) ==
    LET failed == {s \in Story : story[s].status = "qa_failed" /\ ~story[s].assigned}
        planned == {s \in Story : story[s].status = "planned"} \cup failed IN
    /\ mgr.at = "recover"
    /\ T \subseteq IF failed = {} THEN {} ELSE planned
    /\ story' = [s \in Story |->
                    IF s \in T THEN [status |-> "in_progress", assigned |-> TRUE]
                    ELSE IF s \in failed THEN [story[s] EXCEPT !.status = "planned"] ELSE story[s]]
    /\ mgr' = At("pickStuck")
    /\ UNCHANGED <<rows, gh, spent>>

-----------------------------------------------------------------------------
(* nudgeStuckStories: the stories S look done to the classifier, which is  *)
(* asked, like git for the branch, after the lock is let go.               *)
PickStuck(S) ==
    /\ mgr.at = "pickStuck"
    /\ S \subseteq {s \in Story : story[s].status = "in_progress" /\ story[s].assigned}
    /\ mgr' = IF S = {} THEN At("claim") ELSE [At("autoProgress") EXCEPT !.stories = S]
    /\ UNCHANGED <<rows, story, gh, spent>>

\* The story is the one read before; only the rows are looked at again.
autoProgressDoneStory(s) ==
    /\ mgr.at = "autoProgress"
    /\ s \in mgr.stories
    /\ story' = SetStories({s}, "pr_submitted")
    /\ \/ /\ OpenRowsOf(s) # {}
          /\ UNCHANGED rows
       \/ /\ OpenRowsOf(s) = {}
          /\ Len(rows) < MaxRows
          /\ \E g \in Pr : StoryOf[g] = s /\ rows' = Append(rows, createPullRequest(g, FALSE))
    /\ mgr' = IF mgr.stories = {s} THEN At("claim") ELSE [mgr EXCEPT !.stories = @ \ {s}]
    /\ UNCHANGED <<gh, spent>>

\* No branch is found (or, as a bound, there is no room for the row).
NoBranch(s) ==
    /\ mgr.at = "autoProgress"
    /\ s \in mgr.stories
    /\ OpenRowsOf(s) = {}
    /\ mgr' = IF mgr.stories = {s} THEN At("claim") ELSE [mgr EXCEPT !.stories = @ \ {s}]
    /\ UNCHANGED <<rows, story, gh, spent>>

RestartManager ==
    /\ mgr' = At("claim")
    /\ Spend("restarts", MaxRestarts)
    /\ UNCHANGED <<rows, story, gh>>

-----------------------------------------------------------------------------
(* Commands: developers. *)
\* The open rows of the story `hive pr submit' closes: not those of the same
\* pull request.
Superseded(g, linked) ==
    {i \in OpenRowsOf(StoryOf[g]) : ~(linked /\ rows[i].linked /\ rows[i].branch = g)}

submit(g, linked) ==
    /\ Len(rows) < MaxRows
    /\ linked => gh[g] # "none"
    /\ rows' = Append(SetStatus(Superseded(g, linked), "closed"), createPullRequest(g, linked))
    /\ story' = SetStories({StoryOf[g]}, "pr_submitted")
    /\ UNCHANGED <<gh, mgr, spent>>

complete(s) ==
    /\ Spend("completes", MaxCompletes)
    /\ story' = SetStories({s}, "review")
    /\ UNCHANGED <<rows, gh, mgr>>

\* `hive pr sync' asks GitHub under the lock.
sync ==
    /\ Import(Listed \ Known(FALSE))
    /\ rows' # rows
    /\ UNCHANGED <<story, gh, mgr, spent>>

(* Commands: QA. *)
\* Rows of stories whose dependencies are at work or done, the oldest first,
\* come before the others.
areDependenciesSatisfied(i) ==
    \A s \in Story : <<StoryOfRow(i), s>> \in DependsOn => story[s].status # "planned"

Before(i, j) ==
    IF areDependenciesSatisfied(i) = areDependenciesSatisfied(j) THEN i < j
    ELSE areDependenciesSatisfied(i)

getNextInQueue == {i \in With({"queued"}) : \A j \in With({"queued"}) \ {i} : Before(i, j)}

\* `hive pr review': whatever the caller has already.
review(q) ==
    /\ getNextInQueue # {}
    /\ rows' = SetRows(getNextInQueue,
                       LAMBDA r : [r EXCEPT !.status = "reviewing", !.reviewer = q, !.told = TRUE])
    /\ UNCHANGED <<story, gh, mgr, spent>>

Verdict(i) == rows[i].told /\ Spend("verdicts", MaxVerdicts)

Approved(r, q, status, manual) ==
    [r EXCEPT !.status = status, !.reviewer = q, !.manual = manual, !.verdict = "approved"]

\* autoMergeApprovedPRs called with the lock held: no other process of the
\* hive runs meanwhile.  d is a database and GitHub; the rows come in order.
AutoMergedRow(d, i) ==
    IF ~Claimable(d.rows[i]) THEN {d}
    ELSE LET g == d.rows[i].branch
             claimed == [d.rows[i] EXCEPT !.status = "queued"] IN
         {[rows |-> [d.rows EXCEPT ![i] = RowAfter(claimed, o.what)],
           story |-> [d.story EXCEPT ![StoryOf[g]] = StoryAfter(@, o.what)],
           gh |-> [d.gh EXCEPT ![g] = o.after]] : o \in MergeOutcomes(d.gh[g])}

AutoMerged(d) ==
    LET upTo[i \in 0..Len(d.rows)] ==
            IF i = 0 THEN {d} ELSE UNION {AutoMergedRow(e, i) : e \in upTo[i - 1]} IN
    upTo[Len(d.rows)]

\* `hive pr approve', when gh merges (or says that it has merged before)
ApproveAndMerge(q, i) ==
    LET g == rows[i].branch IN
    /\ Verdict(i)
    /\ rows[i].status # "merged"
    /\ rows[i].linked /\ gh[g] \in {"open", "armed", "merged"}
    /\ gh' = [gh EXCEPT ![g] = "merged"]
    /\ rows' = [rows EXCEPT ![i] = Approved(@, q, "merged", FALSE)]
    /\ story' = SetStories({StoryOf[g]}, "merged")
    /\ UNCHANGED mgr

\* ... when it does not, or fails after it has, or the row has no number
ApproveAndRetry(q, i) ==
    LET g == rows[i].branch
        after == IF rows[i].linked /\ IsOpen(g) THEN {gh[g], "merged"} ELSE {gh[g]} IN
    /\ Verdict(i)
    /\ rows[i].status # "merged"
    /\ \E x \in after :
        \E e \in AutoMerged([rows |-> [rows EXCEPT ![i] = Approved(@, q, "approved", FALSE)],
                             story |-> story, gh |-> [gh EXCEPT ![g] = x]]) :
            rows' = e.rows /\ story' = e.story /\ gh' = e.gh
    /\ UNCHANGED mgr

\* ... with --no-merge
ApproveOnly(q, i) ==
    /\ Verdict(i)
    /\ rows[i].status # "merged"
    /\ rows' = [rows EXCEPT ![i] = Approved(@, q, "approved", TRUE)]
    /\ UNCHANGED <<story, gh, mgr>>

RejectedBy(r, q) ==
    [Rejected(r) EXCEPT !.reviewer = q,
        !.verdict = IF @ \in {"approved", "withdrawn"} THEN "withdrawn" ELSE "rejected"]

reject(q, i) ==
    /\ Verdict(i)
    /\ rows' = [rows EXCEPT ![i] = RejectedBy(@, q)]
    /\ story' = SetStories({StoryOfRow(i)}, "qa_failed")
    /\ UNCHANGED <<gh, mgr>>

(* GitHub and its users. *)
OpenPr(g) ==
    /\ gh[g] = "none"
    /\ gh' = [gh EXCEPT ![g] = "open"]
    /\ UNCHANGED <<rows, story, mgr, spent>>

MergedElsewhere(g) ==
    /\ IsOpen(g)
    /\ gh' = [gh EXCEPT ![g] = "merged"]
    /\ UNCHANGED <<rows, story, mgr, spent>>

ClosedElsewhere(g) ==
    /\ IsOpen(g)
    /\ gh' = [gh EXCEPT ![g] = "closed"]
    /\ UNCHANGED <<rows, story, mgr, spent>>

-----------------------------------------------------------------------------
Manager ==
    \/ ClaimApproved \/ ApplyMergeResults \/ ListMerged \/ syncMergedPRs
    \/ ListOpen \/ syncOpenPRs \/ ReadRowsByStory \/ ApplyViews \/ NoSessions
    \/ RejectCommented \/ handleRejectedPRs
    \/ \E C \in SUBSET Pr : closeStalePRs(C)
    \/ \E I \in SUBSET DOMAIN rows :
           ViewReviewing(I) \/ PickCommented(I) \/ requeueStaleReviewingPRs(I)
    \/ \E i \in DOMAIN rows : MergeOnGitHub(i)
    \/ \E Idle \in SUBSET QA : notifyQAOfQueuedPRs(Idle)
    \/ \E T \in SUBSET Story : recoverUnassignedQAFailedStories(T) \/ PickStuck(T)
    \/ \E s \in Story : autoProgressDoneStory(s) \/ NoBranch(s)

Command ==
    \/ \E g \in Pr : submit(g, TRUE) \/ submit(g, FALSE)
    \/ sync
    \/ \E s \in Story : complete(s)
    \/ \E q \in Claimants : review(q)
    \/ \E q \in QA, i \in DOMAIN rows :
           ApproveAndMerge(q, i) \/ ApproveAndRetry(q, i) \/ ApproveOnly(q, i) \/ reject(q, i)

Elsewhere == \E g \in Pr : OpenPr(g) \/ MergedElsewhere(g) \/ ClosedElsewhere(g)

Next == Manager \/ RestartManager \/ Command \/ Elsewhere

Spec == Init /\ [][Next]_vars

(***************************************************************************)
(* Fairness.  The manager runs on a timer; a listing of GitHub succeeds    *)
(* and some session is there time and again; an idle QA session is found   *)
(* time and again while there is a free one; a review that goes on and on  *)
(* is found timed out with its reviewer idle (ReviewCrew does without      *)
(* these two assumptions).  QA need not ever answer.                       *)
(***************************************************************************)
Fairness ==
    /\ WF_vars(Manager)
    /\ SF_vars(ListMerged /\ \A g \in Pr : gh[g] = "merged" => g \in mgr'.prs)
    /\ SF_vars(\E Idle \in SUBSET QA \ {{}} : notifyQAOfQueuedPRs(Idle))
    /\ SF_vars(notifyQAOfQueuedPRs({}))
    /\ \A i \in 1..MaxRows : SF_vars(\E R \in SUBSET DOMAIN rows : i \in R /\ requeueStaleReviewingPRs(R))

FairSpec == Spec /\ Fairness

-----------------------------------------------------------------------------
Step == {"claim", "merge", "apply", "listMerged", "syncMerged", "listOpen", "importOpen",
         "readRows", "closeStale", "view", "applyViews", "dispatch", "pickCommented",
         "rejectCommented", "requeue", "closeRejected", "recover", "pickStuck", "autoProgress"}

Finding == [row : 1..MaxRows, what : {"left", "retry", "merged", "alreadyMerged", "alreadyClosed", "closed"}]

\* Types.
TypeOK ==
    /\ rows \in Seq(Row) /\ Len(rows) <= MaxRows
    /\ story \in [Story -> [status : StoryStatus, assigned : BOOLEAN]]
    /\ gh \in [Pr -> GitHubState]
    /\ mgr \in [at : Step, todo : SUBSET (DOMAIN rows), got : SUBSET Finding,
                prs : SUBSET Pr, stories : SUBSET Story]
    /\ spent \in [verdicts : 0..MaxVerdicts, completes : 0..MaxCompletes, restarts : 0..MaxRestarts]

-----------------------------------------------------------------------------
(* Safety. *)
\* What the database calls merged is merged on GitHub: a merged row's pull
\* request, and for a merged story some pull request of it (updatePhase of
\* autoMergeApprovedPRs, syncMergedPRs, recoverStaleReviewingPRs, approve).
MergedIsMergedOnGitHub ==
    /\ \A i \in With({"merged"}) : gh[rows[i].branch] = "merged"
    /\ \A s \in Story : story[s].status = "merged" => \E g \in Pr : StoryOf[g] = s /\ gh[g] = "merged"

\* The hive merges no pull request QA has never approved, however rows are
\* claimed, requeued, imported and written back (claimPhase, approve).
MergesFollowApproval ==
    [][\A g \in Pr :
        gh[g] # "merged" /\ gh'[g] = "merged" =>
            \/ MergedElsewhere(g)
            \/ \E i \in DOMAIN rows : rows'[i].branch = g /\ rows'[i].verdict \in {"approved", "withdrawn"}]_vars

\* As long as reviews are handed out by the manager only, a QA session has at
\* most one review at a time (reviewingSessions of notifyQAOfQueuedPRs).
OneReviewAtATime ==
    \A i, j \in With({"reviewing"}) :
        rows[i].reviewer = rows[j].reviewer /\ rows[i].reviewer # NoOne => i = j

(* Liveness. *)
\* A story whose pull request GitHub has merged ends up merged whatever late
\* verdicts, resubmissions and progress inferences do to it (syncMergedPRs).
MergedStoryRecovers ==
    \A s \in Story :
        <>(\E g \in Pr : StoryOf[g] = s /\ gh[g] = "merged") => <>[](story[s].status = "merged")

-----------------------------------------------------------------------------
(* What the repository says of the queue and the code does not do. *)
\* README.md: "merged --> [*]" is the last of the story states.
MergedStoryStaysMerged ==
    [][\A s \in Story : story[s].status = "merged" => story'[s].status = "merged"]_vars

\* pr.ts: `hive pr reject' is to "Reject a PR and send back for fixes"; a row
\* rejected after its approval is not one that waits to be merged.
RejectionStands == \A i \in With({"approved"}) : rows[i].verdict # "withdrawn"

\* README.md: "Approved PRs are automatically merged": an approved row for which
\* a merge by hand was not asked is not left alone for good while its pull
\* request is open.
Untried(i) == i \in With({"approved"}) /\ ~rows[i].manual /\ IsOpen(rows[i].branch)

ApprovedRowsAreTried == \A i \in 1..MaxRows : Untried(i) ~> ~Untried(i)

\* README.md: the queue has "automatic duplicate detection".
NoDuplicateRows ==
    \A i, j \in OpenRows : rows[i].linked /\ rows[j].linked /\ rows[i].branch = rows[j].branch => i = j

\* pr-sync.ts: closed are pull requests "superseded by newer PRs"; none is for
\* which a row stands in the queue at that moment.
OnlySupersededAreClosed ==
    [][\A g \in Pr : IsOpen(g) /\ gh'[g] = "closed" /\ mgr' # mgr =>
            ~\E i \in With({"queued", "reviewing", "approved"}) : rows[i].linked /\ rows[i].branch = g]_vars
=============================================================================
