-------------------------- MODULE MergeQueueProofs --------------------------
(***************************************************************************)
(* Proofs about MergeQueue, for any stories, pull requests, QA sessions    *)
(* and bounds.                                                             *)
(***************************************************************************)
EXTENDS MergeQueue, FiniteSetTheorems, SequenceTheorems, WellFoundedInduction, TLAPS

\* A verdict that lets the hive merge: the code withdraws none.
Granted == {"approved", "withdrawn"}

\* What no step does to a row.
Follows(r, s) ==
    /\ s \in Row
    /\ s.branch = r.branch /\ s.linked = r.linked
    /\ r.verdict \in Granted => s.verdict \in Granted

\* Rows are changed in place.
RowsUpdated ==
    /\ rows' = [i \in DOMAIN rows |-> rows'[i]]
    /\ \A i \in DOMAIN rows : Follows(rows[i], rows'[i])

\* Rows are added behind the others.
RowsKept ==
    /\ rows' \in Seq(Row) /\ Len(rows') <= MaxRows
    /\ Len(rows) <= Len(rows') /\ DOMAIN rows \subseteq DOMAIN rows'
    /\ \A i \in DOMAIN rows : Follows(rows[i], rows'[i])
    /\ \A i \in DOMAIN rows' \ DOMAIN rows :
          /\ rows'[i].status = "queued" /\ rows'[i].verdict = "none"
          /\ rows'[i].linked => gh[rows'[i].branch] # "none"

-----------------------------------------------------------------------------
(* Rows. *)
LEMMA SeqOfFunction ==
  ASSUME NEW S, NEW n \in Nat, NEW f \in [1 .. n -> S]
  PROVE  f \in Seq(S) /\ Len(f) = n /\ DOMAIN f = 1 .. n
OBVIOUS

LEMMA RowsTyped ==
  ASSUME TypeOK
  PROVE  /\ Len(rows) \in Nat /\ MaxRows \in Nat /\ DOMAIN rows = 1 .. Len(rows)
         /\ \A i \in DOMAIN rows : rows[i] \in Row
         /\ DOMAIN rows \subseteq 1 .. MaxRows
<1>1. Len(rows) \in Nat /\ DOMAIN rows = 1 .. Len(rows) /\ MaxRows \in Nat
  BY LenProperties, BoundAssumption DEF TypeOK
<1>2. \A i \in DOMAIN rows : rows[i] \in Row
  BY <1>1, ElementOfSeq DEF TypeOK
<1> QED
  BY <1>1, <1>2 DEF TypeOK

LEMMA FollowsItself ==
  ASSUME TypeOK
  PROVE  \A i \in DOMAIN rows : Follows(rows[i], rows[i])
BY RowsTyped DEF Follows

LEMMA UpdatedRowsAreKept ==
  ASSUME TypeOK, RowsUpdated
  PROVE  RowsKept /\ DOMAIN rows' = DOMAIN rows /\ Len(rows') = Len(rows)
<1>1. Len(rows) \in Nat /\ DOMAIN rows = 1 .. Len(rows) /\ Len(rows) <= MaxRows
  BY RowsTyped DEF TypeOK
<1>2. rows' \in [1 .. Len(rows) -> Row]
  BY <1>1 DEF RowsUpdated, Follows
<1>3. rows' \in Seq(Row) /\ Len(rows') = Len(rows) /\ DOMAIN rows' = DOMAIN rows
  BY <1>1, <1>2, SeqOfFunction
<1> QED
  BY <1>1, <1>3 DEF RowsUpdated, RowsKept

LEMMA SameRowsAreKept ==
  ASSUME TypeOK, UNCHANGED rows
  PROVE  RowsKept /\ DOMAIN rows' = DOMAIN rows /\ Len(rows') = Len(rows)
<1>1. rows = [i \in DOMAIN rows |-> rows[i]]
  BY RowsTyped DEF TypeOK
<1> QED
  BY <1>1, FollowsItself, UpdatedRowsAreKept DEF RowsUpdated

NewRow(r, g, linked) ==
    /\ r \in Row /\ r.branch = g /\ r.linked = linked
    /\ r.status = "queued" /\ r.verdict = "none"

LEMMA NewRowTyped ==
  ASSUME NEW g \in Pr
  PROVE  /\ NewRow(createPullRequest(g, TRUE), g, TRUE)
         /\ NewRow(createPullRequest(g, FALSE), g, FALSE)
BY BoundAssumption DEF createPullRequest, Row, Status, NewRow

LEMMA ImportedRowsAreKept ==
  ASSUME TypeOK, NEW P \in SUBSET Pr, \A g \in P : gh[g] # "none", Import(P)
  PROVE  RowsKept /\ \A i \in DOMAIN rows : rows'[i] = rows[i]
<1> DEFINE new == {g \in P : story[StoryOf[g]].status # "merged"}
           room == Len(rows) + Cardinality(new) <= MaxRows
           some == IF room THEN new ELSE {}
<1>1. PICK imports \in NewestFirst(some) :
         rows' = rows \o [k \in DOMAIN imports |-> createPullRequest(imports[k], TRUE)]
  BY DEF Import
<1> DEFINE n == Cardinality(some)
           added == [k \in DOMAIN imports |-> createPullRequest(imports[k], TRUE)]
<1>2. n \in Nat /\ Len(rows) + n <= MaxRows
  <2>1. IsFiniteSet(new) /\ Cardinality({}) = 0 /\ IsFiniteSet({})
    BY NumberAssumption, FS_Subset, FS_EmptySet
  <2>2. Cardinality(new) \in Nat
    BY <2>1, FS_CardinalityType
  <2> HIDE DEF new
  <2>3. CASE room
    BY <2>2, <2>3
  <2>4. CASE ~room
    BY <2>1, <2>4, RowsTyped DEF TypeOK
  <2> QED
    BY <2>3, <2>4
<1>3. imports \in [1 .. n -> Pr] /\ \A k \in 1 .. n : gh[imports[k]] # "none"
  BY <1>1 DEF NewestFirst
<1> HIDE DEF n, some
<1>4. /\ added \in [1 .. n -> Row]
      /\ \A k \in 1 .. n : /\ added[k].status = "queued" /\ added[k].verdict = "none"
                           /\ gh[added[k].branch] # "none"
  <2>1. DOMAIN imports = 1 .. n
    BY <1>3
  <2>2. \A k \in 1 .. n : added[k] = createPullRequest(imports[k], TRUE) /\ imports[k] \in Pr
    BY <1>3, <2>1
  <2>3. \A k \in 1 .. n : /\ added[k] \in Row /\ added[k].branch = imports[k]
                          /\ added[k].status = "queued" /\ added[k].verdict = "none"
    <3> HIDE DEF added
    <3> SUFFICES ASSUME NEW k \in 1 .. n
                 PROVE  /\ added[k] \in Row /\ added[k].branch = imports[k]
                        /\ added[k].status = "queued" /\ added[k].verdict = "none"
      OBVIOUS
    <3>1. added[k] = createPullRequest(imports[k], TRUE) /\ imports[k] \in Pr
      BY <2>2
    <3>2. NewRow(added[k], imports[k], TRUE)
      BY <3>1, NewRowTyped
    <3> QED
      BY <3>2 DEF NewRow
  <2>4. added = [k \in 1 .. n |-> added[k]]
    BY <2>1
  <2> HIDE DEF added
  <2> QED
    BY <1>3, <2>3, <2>4
<1>5. added \in Seq(Row) /\ Len(added) = n
  BY <1>2, <1>4, SeqOfFunction
<1> HIDE DEF added
<1>6. rows' = rows \o added
  BY <1>1 DEF added
<1>7. /\ rows' \in Seq(Row) /\ Len(rows') = Len(rows) + n
      /\ \A i \in 1 .. Len(rows) + n : rows'[i] = IF i <= Len(rows) THEN rows[i] ELSE added[i - Len(rows)]
  <2>1. rows \in Seq(Row)
    BY DEF TypeOK
  <2> QED
    BY <1>5, <1>6, <2>1, ConcatProperties
<1>8. DOMAIN rows' = 1 .. Len(rows) + n /\ DOMAIN rows = 1 .. Len(rows) /\ Len(rows) \in Nat
  BY <1>7, LenProperties, RowsTyped
<1>9. \A i \in DOMAIN rows : rows'[i] = rows[i]
  BY <1>2, <1>7, <1>8
<1>10. \A i \in DOMAIN rows' \ DOMAIN rows :
          /\ rows'[i].status = "queued" /\ rows'[i].verdict = "none"
          /\ gh[rows'[i].branch] # "none"
  <2> SUFFICES ASSUME NEW i \in DOMAIN rows' \ DOMAIN rows
               PROVE  /\ rows'[i].status = "queued" /\ rows'[i].verdict = "none"
                      /\ gh[rows'[i].branch] # "none"
    OBVIOUS
  <2>1. i - Len(rows) \in 1 .. n /\ rows'[i] = added[i - Len(rows)]
    BY <1>2, <1>7, <1>8
  <2> QED
    BY <1>4, <2>1 DEF added
<1> QED
  BY <1>2, <1>7, <1>8, <1>9, <1>10, FollowsItself DEF RowsKept

Becomes(r, s, status) == Follows(r, s) /\ s.status = status

\* What the steps do to a row.
LEMMA RowsBecome ==
  ASSUME NEW r \in Row
  PROVE  /\ \A s \in Status : Becomes(r, [r EXCEPT !.status = s], s)
         /\ Becomes(r, Rejected(r), "rejected")
         /\ r.timeouts < MaxTimeouts => Becomes(r, Requeued(r), "queued")
         /\ Becomes(r, TimedOut(r), "rejected")
         /\ \A q \in QA \cup {NoOne} :
               Becomes(r, [r EXCEPT !.status = "reviewing", !.reviewer = q, !.told = TRUE], "reviewing")
         /\ \A q \in QA, s \in Status, manual \in BOOLEAN :
               Becomes(r, Approved(r, q, s, manual), s) /\ Approved(r, q, s, manual).verdict = "approved"
         /\ \A q \in QA : Becomes(r, RejectedBy(r, q), "rejected")
<1> USE DEF Row, Follows, Granted, Becomes
<1>1. MaxTimeouts \in Nat
  BY BoundAssumption
<1>2. /\ \A s \in Status : Becomes(r, [r EXCEPT !.status = s], s)
      /\ Becomes(r, Rejected(r), "rejected")
  BY DEF Rejected, Status
<1>3. r.timeouts < MaxTimeouts => Becomes(r, Requeued(r), "queued")
  <2> SUFFICES ASSUME r.timeouts < MaxTimeouts
               PROVE  Becomes(r, Requeued(r), "queued")
    OBVIOUS
  <2>1. r.timeouts \in 0 .. (MaxTimeouts + 1)
    OBVIOUS
  <2>2. r.timeouts + 1 \in 0 .. (MaxTimeouts + 1)
    BY <1>1, <2>1
  <2> QED
    BY <2>2 DEF Requeued, Status
<1>4. Becomes(r, TimedOut(r), "rejected")
  <2>1. MaxTimeouts + 1 \in 0 .. (MaxTimeouts + 1)
    BY <1>1
  <2>2. /\ Rejected(r) \in Row /\ Rejected(r).branch = r.branch /\ Rejected(r).linked = r.linked /\ Rejected(r).verdict = r.verdict
        /\ Rejected(r).status = "rejected"
    BY DEF Rejected, Status
  <2> DEFINE m == MaxTimeouts + 1
  <2> HIDE DEF m
  <2>3. m \in 0 .. (MaxTimeouts + 1)
    BY <2>1 DEF m
  <2>4. Becomes(r, [Rejected(r) EXCEPT !.timeouts = m], "rejected")
    BY <2>2, <2>3
  <2> QED
    BY <2>4 DEF m, TimedOut
<1>5. \A q \in QA \cup {NoOne} :
         Becomes(r, [r EXCEPT !.status = "reviewing", !.reviewer = q, !.told = TRUE], "reviewing")
  BY DEF Status
<1>6. \A q \in QA, s \in Status, manual \in BOOLEAN :
         Becomes(r, Approved(r, q, s, manual), s) /\ Approved(r, q, s, manual).verdict = "approved"
  BY DEF Approved
<1>7. \A q \in QA : Becomes(r, RejectedBy(r, q), "rejected")
  BY DEF RejectedBy, Rejected, Status
<1> QED
  BY <1>2, <1>3, <1>4, <1>5, <1>6, <1>7

Outcome == {"left", "retry", "merged", "alreadyMerged", "alreadyClosed", "closed"}

LEMMA RowAfterFollows ==
  ASSUME NEW r \in Row, NEW w \in Outcome \ {"closed"}
  PROVE  /\ Follows(r, RowAfter(r, w))
         /\ RowAfter(r, w).verdict = r.verdict
         /\ RowAfter(r, w).status = "approved" => r.status = "approved" \/ w = "retry"
         /\ RowAfter(r, w).status = "merged" => r.status = "merged" \/ w \in {"merged", "alreadyMerged"}
         /\ RowAfter(r, w).status = "reviewing" => RowAfter(r, w) = r
<1> USE DEF Row, Follows
<1>1. CASE w = "left"
  BY <1>1 DEF RowAfter
<1>2. CASE w = "retry"
  BY <1>2 DEF RowAfter, Status
<1>3. CASE w \in {"merged", "alreadyMerged"}
  BY <1>3 DEF RowAfter, Status
<1>4. CASE w = "alreadyClosed"
  BY <1>4 DEF RowAfter, Status
<1> QED
  BY <1>1, <1>2, <1>3, <1>4 DEF Outcome

LEMMA OutcomesAre ==
  ASSUME NEW x \in GitHubState, NEW o \in MergeOutcomes(x)
  PROVE  /\ o.what \in Outcome \ {"closed"} /\ o.after \in GitHubState
         /\ x = "merged" => o.after = "merged"
         /\ x # "none" => o.after # "none"
         /\ o.what = "alreadyMerged" => x = "merged"
         /\ ~RecheckMayFail /\ o.what = "merged" => o.after = "merged"
<1>1. CASE x = "merged"
  BY <1>1 DEF MergeOutcomes, Outcome, GitHubState
<1>2. CASE x = "closed"
  BY <1>2 DEF MergeOutcomes, Outcome, GitHubState
<1>3. CASE x \notin {"merged", "closed"}
  <2>1. MergeOutcomes(x) \subseteq
          {[what |-> "left", after |-> x],
           [what |-> "retry", after |-> x], [what |-> "retry", after |-> "merged"],
           [what |-> "merged", after |-> "merged"], [what |-> "left", after |-> "armed"]}
          \cup (IF RecheckMayFail THEN {[what |-> "merged", after |-> "armed"]} ELSE {})
    BY <1>3 DEF MergeOutcomes
  <2> QED
    BY <1>3, <2>1 DEF Outcome, GitHubState
<1> QED
  BY <1>1, <1>2, <1>3

-----------------------------------------------------------------------------
(* AutoMerged: what holds of a database and GitHub, and from one to the    *)
(* next.                                                                   *)
Hive == [rows : Seq(Row), story : [Story -> [status : StoryStatus, assigned : BOOLEAN]],
         gh : [Pr -> GitHubState]]

ApprovedIsGranted(rs) == \A i \in DOMAIN rs : rs[i].status = "approved" => rs[i].verdict \in Granted

MergedIsTrue(d) ==
    /\ \A i \in DOMAIN d.rows : d.rows[i].status = "merged" => d.gh[d.rows[i].branch] = "merged"
    /\ \A s \in Story : d.story[s].status = "merged" => \E g \in Pr : StoryOf[g] = s /\ d.gh[g] = "merged"

Leads(d, e) ==
    /\ e \in Hive
    /\ Len(e.rows) = Len(d.rows) /\ DOMAIN e.rows = DOMAIN d.rows
    /\ \A i \in DOMAIN d.rows : Follows(d.rows[i], e.rows[i])
    /\ \A i \in DOMAIN d.rows : e.rows[i].status = "reviewing" => e.rows[i] = d.rows[i]
    /\ ApprovedIsGranted(e.rows)
    /\ \A g \in Pr : d.gh[g] = "merged" => e.gh[g] = "merged"
    /\ \A g \in Pr : d.gh[g] # "none" => e.gh[g] # "none"
    /\ \A g \in Pr : d.gh[g] # "merged" /\ e.gh[g] = "merged" =>
            \E i \in DOMAIN e.rows : e.rows[i].branch = g /\ e.rows[i].verdict \in Granted
    /\ ~RecheckMayFail /\ MergedIsTrue(d) => MergedIsTrue(e)

LEMMA HiveTyped ==
  ASSUME NEW d \in Hive
  PROVE  /\ Len(d.rows) \in Nat /\ DOMAIN d.rows = 1 .. Len(d.rows)
         /\ \A i \in DOMAIN d.rows : d.rows[i] \in Row
<1>1. d.rows \in Seq(Row)
  BY DEF Hive
<1> QED
  BY <1>1, LenProperties, ElementOfSeq

LEMMA LeadsItself ==
  ASSUME NEW d \in Hive, ApprovedIsGranted(d.rows)
  PROVE  Leads(d, d)
<1>1. \A i \in DOMAIN d.rows : Follows(d.rows[i], d.rows[i])
  BY HiveTyped DEF Follows
<1> QED
  BY <1>1 DEF Leads

LEMMA LeadsOn ==
  ASSUME NEW d \in Hive, NEW e \in Hive, NEW f \in Hive, Leads(d, e), Leads(e, f)
  PROVE  Leads(d, f)
<1>1. \A i \in DOMAIN d.rows : Follows(d.rows[i], f.rows[i])
  BY DEF Leads, Follows
<1>2. \A i \in DOMAIN d.rows : f.rows[i].status = "reviewing" => f.rows[i] = d.rows[i]
  BY DEF Leads
<1>3. ASSUME NEW g \in Pr, d.gh[g] # "merged", f.gh[g] = "merged"
      PROVE  \E i \in DOMAIN f.rows : f.rows[i].branch = g /\ f.rows[i].verdict \in Granted
  <2>1. CASE e.gh[g] = "merged"
    <3>1. PICK i \in DOMAIN e.rows : e.rows[i].branch = g /\ e.rows[i].verdict \in Granted
      BY <1>3, <2>1 DEF Leads
    <3>2. Follows(e.rows[i], f.rows[i]) /\ i \in DOMAIN f.rows
      BY DEF Leads
    <3> QED
      BY <3>1, <3>2 DEF Follows
  <2>2. CASE e.gh[g] # "merged"
    BY <1>3, <2>2 DEF Leads
  <2> QED
    BY <2>1, <2>2
<1> QED
  BY <1>1, <1>2, <1>3 DEF Leads

LEMMA StoryAfterTyped ==
  ASSUME NEW st \in [status : StoryStatus, assigned : BOOLEAN], NEW w \in Outcome
  PROVE  /\ StoryAfter(st, w) \in [status : StoryStatus, assigned : BOOLEAN]
         /\ StoryAfter(st, w).status = "merged" => st.status = "merged" \/ w \in {"merged", "alreadyMerged"}
<1>1. CASE w = "merged"
  BY <1>1 DEF StoryAfter, StoryStatus
<1>2. CASE w = "alreadyMerged"
  BY <1>2 DEF StoryAfter, StoryStatus
<1>3. CASE w \notin {"merged", "alreadyMerged"}
  BY <1>3 DEF StoryAfter
<1> QED
  BY <1>1, <1>2, <1>3

LEMMA AutoMergedRowLeads ==
  ASSUME NEW d \in Hive, ApprovedIsGranted(d.rows),
         NEW i \in DOMAIN d.rows, NEW e \in AutoMergedRow(d, i)
  PROVE  Leads(d, e)
<1>1. CASE ~Claimable(d.rows[i])
  BY <1>1, LeadsItself DEF AutoMergedRow
<1>2. CASE Claimable(d.rows[i])
  <2> DEFINE g == d.rows[i].branch
             r == [d.rows[i] EXCEPT !.status = "queued"]
  <2>1. PICK o \in MergeOutcomes(d.gh[g]) :
           e = [rows |-> [d.rows EXCEPT ![i] = RowAfter(r, o.what)],
                story |-> [d.story EXCEPT ![StoryOf[g]] = StoryAfter(@, o.what)],
                gh |-> [d.gh EXCEPT ![g] = o.after]]
    BY <1>2 DEF AutoMergedRow
  <2> DEFINE s == RowAfter(r, o.what)
             st == StoryAfter(d.story[StoryOf[g]], o.what)
  <2>2. /\ d.rows[i] \in Row /\ d.rows[i].status = "approved" /\ d.rows[i].verdict \in Granted
        /\ DOMAIN d.rows = 1 .. Len(d.rows) /\ d.rows \in Seq(Row) /\ Len(d.rows) \in Nat
        /\ \A j \in DOMAIN d.rows : d.rows[j] \in Row
    BY <1>2, HiveTyped DEF Claimable, ApprovedIsGranted, Hive
  <2>3. g \in Pr /\ StoryOf[g] \in Story /\ d.gh[g] \in GitHubState
    BY <2>2, StoryAssumption DEF Row, Hive
  <2>4. /\ o.what \in Outcome \ {"closed"} /\ o.after \in GitHubState
        /\ d.gh[g] = "merged" => o.after = "merged"
        /\ d.gh[g] # "none" => o.after # "none"
        /\ o.what = "alreadyMerged" => d.gh[g] = "merged"
        /\ ~RecheckMayFail /\ o.what = "merged" => o.after = "merged"
    BY <2>1, <2>3, OutcomesAre
  <2>5. r \in Row /\ r.status = "queued" /\ r.branch = g /\ r.linked = d.rows[i].linked /\ r.verdict = d.rows[i].verdict
    BY <2>2 DEF Row, Status
  <2>6. /\ s \in Row /\ s.branch = g /\ s.linked = d.rows[i].linked /\ s.verdict = d.rows[i].verdict
        /\ s.status = "merged" => o.what \in {"merged", "alreadyMerged"}
        /\ s.status # "reviewing"
    <3>1. RowAfter(r, o.what).status = "reviewing" => RowAfter(r, o.what) = r
      BY <2>4, <2>5, RowAfterFollows
    <3> QED
      BY <2>4, <2>5, <3>1, RowAfterFollows DEF Follows
  <2>7. /\ st \in [status : StoryStatus, assigned : BOOLEAN]
        /\ st.status = "merged" => d.story[StoryOf[g]].status = "merged" \/ o.what \in {"merged", "alreadyMerged"}
    BY <2>3, <2>4, StoryAfterTyped DEF Hive
  <2> HIDE DEF s, st, g, r
  <2>8. /\ e.rows = [d.rows EXCEPT ![i] = s]
        /\ e.story = [d.story EXCEPT ![StoryOf[g]] = st]
        /\ e.gh = [d.gh EXCEPT ![g] = o.after]
    BY <2>1 DEF s, st, g, r
  <2>9. /\ e.rows \in Seq(Row) /\ Len(e.rows) = Len(d.rows) /\ DOMAIN e.rows = DOMAIN d.rows
        /\ e.rows[i] = s /\ \A j \in DOMAIN d.rows : j # i => e.rows[j] = d.rows[j]
    BY <2>2, <2>6, <2>8, ExceptSeq
  <2>10. e \in Hive
    <3>1. e = [rows |-> e.rows, story |-> e.story, gh |-> e.gh]
      BY <2>1
    <3>2. e.story \in [Story -> [status : StoryStatus, assigned : BOOLEAN]] /\ e.gh \in [Pr -> GitHubState]
      BY <2>3, <2>4, <2>7, <2>8 DEF Hive
    <3> QED
      BY <2>9, <3>1, <3>2 DEF Hive
  <2>11. \A j \in DOMAIN d.rows : Follows(d.rows[j], e.rows[j])
    BY <2>2, <2>6, <2>9 DEF Follows, g
  <2>12. \A j \in DOMAIN d.rows : e.rows[j].status = "reviewing" => e.rows[j] = d.rows[j]
    BY <2>6, <2>9
  <2>13. ApprovedIsGranted(e.rows)
    BY <2>2, <2>6, <2>9 DEF ApprovedIsGranted
  <2>14. e.gh[g] = o.after /\ \A h \in Pr : h # g => e.gh[h] = d.gh[h]
    BY <2>3, <2>8 DEF Hive
  <2>15. \A h \in Pr : /\ d.gh[h] = "merged" => e.gh[h] = "merged"
                       /\ d.gh[h] # "none" => e.gh[h] # "none"
    BY <2>4, <2>14
  <2>16. \A h \in Pr : d.gh[h] # "merged" /\ e.gh[h] = "merged" =>
            \E j \in DOMAIN e.rows : e.rows[j].branch = h /\ e.rows[j].verdict \in Granted
    BY <2>2, <2>6, <2>9, <2>14
  <2>17. ASSUME ~RecheckMayFail, MergedIsTrue(d)
         PROVE  MergedIsTrue(e)
    <3>1. o.what \in {"merged", "alreadyMerged"} => e.gh[g] = "merged"
      BY <2>4, <2>14, <2>17
    <3>2. ASSUME NEW j \in DOMAIN e.rows, e.rows[j].status = "merged"
          PROVE  e.gh[e.rows[j].branch] = "merged"
      <4>1. CASE j = i
        BY <2>6, <2>9, <3>1, <3>2, <4>1
      <4>2. CASE j # i
        <5>1. d.rows[j].branch \in Pr /\ e.rows[j] = d.rows[j]
          BY <2>2, <2>9, <4>2 DEF Row
        <5> QED
          BY <2>9, <2>15, <2>17, <3>2, <5>1 DEF MergedIsTrue
      <4> QED
        BY <4>1, <4>2
    <3>3. ASSUME NEW t \in Story, e.story[t].status = "merged"
          PROVE  \E h \in Pr : StoryOf[h] = t /\ e.gh[h] = "merged"
      <4>1. CASE t = StoryOf[g] /\ o.what \in {"merged", "alreadyMerged"}
        BY <2>3, <3>1, <4>1
      <4>2. CASE ~(t = StoryOf[g] /\ o.what \in {"merged", "alreadyMerged"})
        <5>1. d.story[t].status = "merged"
          BY <2>3, <2>7, <2>8, <3>3, <4>2 DEF Hive
        <5> QED
          BY <2>15, <2>17, <5>1 DEF MergedIsTrue
      <4> QED
        BY <4>1, <4>2
    <3> QED
      BY <3>2, <3>3 DEF MergedIsTrue
  <2> QED
    BY <2>9, <2>10, <2>11, <2>12, <2>13, <2>15, <2>16, <2>17 DEF Leads
<1> QED
  BY <1>1, <1>2

AutoMergedRows(S, i) == UNION {AutoMergedRow(e, i) : e \in S}

\* f is what AutoMerged defines, for the first n rows.
IsUpTo(f, d, n) == f = [i \in 0 .. n |-> IF i = 0 THEN {d} ELSE AutoMergedRows(f[i - 1], i)]

LEMMA UpToExists ==
  ASSUME NEW d, NEW m \in Nat
  PROVE  \E f : IsUpTo(f, d, m)
<1> DEFINE T == {n \in Nat : ~\E f : IsUpTo(f, d, n)}
<1> SUFFICES ASSUME T # {} PROVE FALSE
  OBVIOUS
<1>1. PICK n \in T : \A k \in T : ~(<<k, n>> \in OpToRel(<, Nat))
  <2>1. T \subseteq Nat
    OBVIOUS
  <2> HIDE DEF T
  <2> QED
    BY <2>1, WFMin, NatLessThanWellFounded
<1>2. \A k \in T : ~(k < n)
  BY <1>1 DEF OpToRel
<1>3. CASE n = 0
  <2> DEFINE f == [i \in 0 .. 0 |-> {d}]
  <2>1. f = [i \in 0 .. 0 |-> IF i = 0 THEN {d} ELSE AutoMergedRows(f[i - 1], i)]
    OBVIOUS
  <2> QED
    BY <1>3, <2>1 DEF IsUpTo
<1>4. CASE n # 0
  <2>1. n - 1 \in Nat /\ n - 1 \notin T
    BY <1>2, <1>4
  <2>2. PICK f : IsUpTo(f, d, n - 1)
    BY <2>1
  <2>3. \A i \in 0 .. n - 1 : f[i] = IF i = 0 THEN {d} ELSE AutoMergedRows(f[i - 1], i)
    BY <2>2 DEF IsUpTo
  <2> DEFINE g == [i \in 0 .. n |-> IF i = n THEN AutoMergedRows(f[n - 1], n) ELSE f[i]]
             h == [i \in 0 .. n |-> IF i = 0 THEN {d} ELSE AutoMergedRows(g[i - 1], i)]
  <2>4. \A i \in 0 .. n : g[i] = IF i = n THEN AutoMergedRows(f[n - 1], n) ELSE f[i]
    OBVIOUS
  <2>5. \A i \in 0 .. n : h[i] = IF i = 0 THEN {d} ELSE AutoMergedRows(g[i - 1], i)
    OBVIOUS
  <2>6. ASSUME NEW i \in 0 .. n PROVE g[i] = h[i]
    <3>1. CASE i = 0
      BY <1>4, <2>3, <2>4, <2>5, <3>1
    <3>2. CASE i # 0 /\ i # n
      <4>1. i - 1 \in 0 .. n /\ i - 1 # n /\ i \in 0 .. n - 1
        BY <3>2
      <4> HIDE DEF g, h
      <4>2. g[i - 1] = f[i - 1]
        BY <2>4, <4>1
      <4> QED
        BY <2>3, <2>4, <2>5, <3>2, <4>1, <4>2
    <3>3. CASE i = n
      <4>1. n - 1 \in 0 .. n /\ n - 1 # n /\ n \in 0 .. n
        BY <1>4
      <4> HIDE DEF g, h
      <4>2. g[n - 1] = f[n - 1]
        BY <2>4, <4>1
      <4> QED
        BY <1>4, <2>4, <2>5, <3>3, <4>1, <4>2
    <3> QED
      BY <3>1, <3>2, <3>3
  <2>7. g = h
    BY <2>6
  <2>8. IsUpTo(g, d, n)
    <3> HIDE DEF g
    <3> QED
      BY <2>7 DEF IsUpTo
  <2> QED
    BY <2>8
<1> QED
  BY <1>3, <1>4

\* Every way through the rows.
LEMMA AutoMergedLeads ==
  ASSUME NEW d \in Hive, ApprovedIsGranted(d.rows), NEW e \in AutoMerged(d)
  PROVE  Leads(d, e)
<1> DEFINE n == Len(d.rows)
           upTo == CHOOSE f : IsUpTo(f, d, n)
<1>1. n \in Nat /\ DOMAIN d.rows = 1 .. n
  BY HiveTyped
<1>2. IsUpTo(upTo, d, n)
  BY <1>1, UpToExists
<1>3. e \in upTo[n]
  BY DEF AutoMerged, IsUpTo, AutoMergedRows
<1> HIDE DEF upTo, n
<1>4. \A i \in 0 .. n : upTo[i] = IF i = 0 THEN {d} ELSE AutoMergedRows(upTo[i - 1], i)
  BY <1>2 DEF IsUpTo
<1> DEFINE T == {i \in 0 .. n : ~\A c \in upTo[i] : Leads(d, c)}
<1> SUFFICES ASSUME T # {} PROVE FALSE
  BY <1>1, <1>3
<1>5. PICK i \in T : \A k \in T : ~(<<k, i>> \in OpToRel(<, Nat))
  <2>1. T \subseteq Nat
    BY <1>1
  <2> HIDE DEF T
  <2> QED
    BY <2>1, WFMin, NatLessThanWellFounded
<1>6. \A k \in T : ~(k < i)
  <2>1. T \subseteq Nat
    BY <1>1
  <2> HIDE DEF T
  <2> QED
    BY <1>5, <2>1 DEF OpToRel
<1>7. CASE i = 0
  BY <1>1, <1>4, <1>7, LeadsItself
<1>8. CASE i # 0
  <2>1. i - 1 \in 0 .. n /\ i - 1 \notin T /\ i \in DOMAIN d.rows
    BY <1>1, <1>6, <1>8
  <2>2. \A b \in upTo[i - 1] : Leads(d, b)
    BY <2>1
  <2>3. upTo[i] = AutoMergedRows(upTo[i - 1], i)
    BY <1>4, <1>8
  <2>4. ASSUME NEW c \in upTo[i] PROVE Leads(d, c)
    <3>1. PICK b \in upTo[i - 1] : c \in AutoMergedRow(b, i)
      BY <2>3 DEF AutoMergedRows
    <3>2. Leads(d, b)
      BY <2>2
    <3>3. b \in Hive /\ ApprovedIsGranted(b.rows) /\ i \in DOMAIN b.rows
      BY <2>1, <3>2 DEF Leads
    <3>4. Leads(b, c)
      BY <3>1, <3>3, AutoMergedRowLeads
    <3>5. c \in Hive
      BY <3>4 DEF Leads
    <3> QED
      BY <3>2, <3>3, <3>4, <3>5, LeadsOn
  <2> QED
    BY <2>4
<1> QED
  BY <1>7, <1>8

-----------------------------------------------------------------------------
(***************************************************************************)
(* The invariant.  What a check has read before it lets go of the lock is  *)
(* still true when it writes: the rows it has claimed keep a verdict that  *)
(* lets the hive merge, though commands change them meanwhile, and what    *)
(* GitHub has merged stays merged.                                         *)
(***************************************************************************)
\* What the carried result o says of GitHub.
SaysMerged(o) ==
    \/ o.what = "alreadyMerged"
    \/ o.what = "merged" /\ (~RecheckMayFail \/ mgr.at = "applyViews")

ManagerOK ==
    /\ mgr \in [at : Step, todo : SUBSET (DOMAIN rows), got : SUBSET Finding,
                prs : SUBSET Pr, stories : SUBSET Story]
    /\ \A o \in mgr.got : o.row \in DOMAIN rows
    /\ mgr.at = "merge" => \A i \in mgr.todo : rows[i].verdict \in Granted
    /\ mgr.at \in {"merge", "apply"} =>
           \A o \in mgr.got : o.what # "closed" /\ rows[o.row].verdict \in Granted
    /\ \A o \in mgr.got : SaysMerged(o) => gh[rows[o.row].branch] = "merged"
    /\ mgr.at = "syncMerged" => \A g \in mgr.prs : gh[g] = "merged"
    /\ mgr.at = "importOpen" => \A g \in mgr.prs : gh[g] # "none"

\* A row that has a number has a pull request.
LinkedExist == \A i \in DOMAIN rows : rows[i].linked => gh[rows[i].branch] # "none"

Truth == ~RecheckMayFail => MergedIsMergedOnGitHub

Inv ==
    /\ TypeOK
    /\ ApprovedIsGranted(rows)
    /\ ManagerOK
    /\ LinkedExist
    /\ Truth

StoriesOK == story \in [Story -> [status : StoryStatus, assigned : BOOLEAN]]
SpentOK == spent \in [verdicts : 0..MaxVerdicts, completes : 0..MaxCompletes, restarts : 0..MaxRestarts]

GitHubKept ==
    /\ gh' \in [Pr -> GitHubState]
    /\ \A g \in Pr : gh[g] = "merged" => gh'[g] = "merged"
    /\ \A g \in Pr : gh[g] # "none" => gh'[g] # "none"

\* A row of the next state that was the same before, or is none that the
\* invariant speaks of.
Quiet(r, s) ==
    /\ Follows(r, s)
    /\ s.status \in {"approved", "merged"} => s.status = r.status
    /\ s.status = "reviewing" => s = r

\* A story that is merged was so, or has a merged pull request.
StoriesTrue ==
    ~RecheckMayFail => \A s \in Story : story'[s].status = "merged" =>
        \/ story[s].status = "merged"
        \/ \E g \in Pr : StoryOf[g] = s /\ gh'[g] = "merged"

RowsTrue ==
    ~RecheckMayFail => \A i \in DOMAIN rows : rows'[i].status = "merged" =>
        rows[i].status = "merged" \/ gh'[rows[i].branch] = "merged"

\* The parts of a step.
Kept ==
    /\ RowsKept /\ GitHubKept /\ StoriesOK' /\ SpentOK'
    /\ ApprovedIsGranted(rows') /\ ManagerOK'
    /\ Truth'

\* No row is given to a reviewer by the step.
NoneHandedOut == \A i \in DOMAIN rows : rows'[i].status = "reviewing" => rows'[i] = rows[i]

LEMMA InvMeans ==
  ASSUME Inv
  PROVE  /\ TypeOK /\ StoriesOK /\ gh \in [Pr -> GitHubState] /\ SpentOK /\ ManagerOK
         /\ rows \in Seq(Row) /\ Len(rows) \in Nat /\ DOMAIN rows = 1 .. Len(rows) /\ Len(rows) <= MaxRows
         /\ MaxRows \in Nat
         /\ \A i \in DOMAIN rows : rows[i] \in Row /\ rows[i].branch \in Pr /\ StoryOfRow(i) \in Story
<1>1. \A i \in DOMAIN rows : rows[i] \in Row
  BY RowsTyped DEF Inv
<1>2. \A i \in DOMAIN rows : rows[i].branch \in Pr /\ StoryOfRow(i) \in Story
  BY <1>1, StoryAssumption DEF Row, StoryOfRow
<1> QED
  BY <1>1, <1>2, RowsTyped DEF Inv, TypeOK, StoriesOK, SpentOK

LEMMA KeptIsInv ==
  ASSUME Inv, Kept
  PROVE  Inv'
<1>1. LinkedExist'
  <2> SUFFICES ASSUME NEW i \in DOMAIN rows', rows'[i].linked
               PROVE  gh'[rows'[i].branch] # "none"
    BY DEF LinkedExist
  <2>1. CASE i \in DOMAIN rows
    <3>1. rows[i].linked /\ rows[i].branch = rows'[i].branch /\ rows[i].branch \in Pr
      BY <2>1, InvMeans DEF Kept, RowsKept, Follows
    <3> QED
      BY <2>1, <3>1 DEF Inv, LinkedExist, Kept, GitHubKept
  <2>2. CASE i \notin DOMAIN rows
    <3>1. rows'[i] \in Row
      <4>1. DOMAIN rows' = 1 .. Len(rows')
        BY LenProperties DEF Kept, RowsKept
      <4> QED
        BY <4>1, ElementOfSeq DEF Kept, RowsKept
    <3>2. rows'[i].branch \in Pr
      BY <3>1 DEF Row
    <3> QED
      BY <2>2, <3>2 DEF Kept, RowsKept, GitHubKept
  <2> QED
    BY <2>1, <2>2
<1> QED
  BY <1>1 DEF Kept, Inv, TypeOK, ManagerOK, StoriesOK, SpentOK, RowsKept, GitHubKept

LEMMA KeptManagerIsOK ==
  ASSUME Inv, RowsKept, GitHubKept, UNCHANGED mgr
  PROVE  ManagerOK'
<1>1. mgr' = mgr
  OBVIOUS
<1>2. \A i \in DOMAIN rows : /\ i \in DOMAIN rows' /\ rows'[i].branch = rows[i].branch
                             /\ rows[i].verdict \in Granted => rows'[i].verdict \in Granted
                             /\ rows[i].branch \in Pr
  BY InvMeans DEF RowsKept, Follows
<1>3. \A g \in Pr : (gh[g] = "merged" => gh'[g] = "merged") /\ (gh[g] # "none" => gh'[g] # "none")
  BY DEF GitHubKept
<1>4. ManagerOK
  BY DEF Inv
<1>5. /\ mgr' \in [at : Step, todo : SUBSET (DOMAIN rows'), got : SUBSET Finding,
                   prs : SUBSET Pr, stories : SUBSET Story]
      /\ \A o \in mgr'.got : o.row \in DOMAIN rows'
      /\ mgr'.at = "merge" => \A i \in mgr'.todo : rows'[i].verdict \in Granted
  BY <1>1, <1>2, <1>4 DEF ManagerOK
<1>6. mgr'.at \in {"merge", "apply"} =>
           \A o \in mgr'.got : o.what # "closed" /\ rows'[o.row].verdict \in Granted
  BY <1>1, <1>2, <1>4 DEF ManagerOK
<1>7. \A o \in mgr'.got : SaysMerged(o)' => gh'[rows'[o.row].branch] = "merged"
  BY <1>1, <1>2, <1>3, <1>4 DEF ManagerOK, SaysMerged
<1>8. /\ mgr'.at = "syncMerged" => \A g \in mgr'.prs : gh'[g] = "merged"
      /\ mgr'.at = "importOpen" => \A g \in mgr'.prs : gh'[g] # "none"
  BY <1>1, <1>3, <1>4 DEF ManagerOK
<1> QED
  BY <1>5, <1>6, <1>7, <1>8 DEF ManagerOK

LEMMA ManagerAtIsOK ==
  ASSUME NEW s \in Step, mgr' = At(s)
  PROVE  ManagerOK'
<1>1. /\ At(s) \in [at : Step, todo : SUBSET (DOMAIN rows'), got : SUBSET Finding,
                    prs : SUBSET Pr, stories : SUBSET Story]
      /\ At(s).got = {} /\ At(s).todo = {} /\ At(s).prs = {}
  BY DEF At
<1> QED
  BY <1>1 DEF ManagerOK

LEMMA StoriesSet ==
  ASSUME StoriesOK, NEW T, NEW status \in StoryStatus \ {"merged"}, story' = SetStories(T, status)
  PROVE  StoriesOK' /\ StoriesTrue
BY DEF StoriesOK, SetStories, StoriesTrue

LEMMA StoriesMerged ==
  ASSUME StoriesOK, NEW T, story' = MergeStories(T),
         \A s \in T : \E g \in Pr : StoryOf[g] = s /\ gh'[g] = "merged"
  PROVE  StoriesOK' /\ StoriesTrue
BY DEF StoriesOK, MergeStories, StoryStatus, StoriesTrue

LEMMA StoriesSame ==
  ASSUME StoriesOK, UNCHANGED story
  PROVE  StoriesOK' /\ StoriesTrue
BY DEF StoriesOK, StoriesTrue

LEMMA TruthKept ==
  ASSUME Inv, RowsKept, GitHubKept, RowsTrue, StoriesTrue
  PROVE  Truth'
<1> SUFFICES ASSUME ~RecheckMayFail PROVE MergedIsMergedOnGitHub'
  BY DEF Truth
<1>1. MergedIsMergedOnGitHub
  BY DEF Inv, Truth
<1>2. ASSUME NEW i \in DOMAIN rows', rows'[i].status = "merged"
      PROVE  gh'[rows'[i].branch] = "merged"
  <2>1. i \in DOMAIN rows
    BY <1>2 DEF RowsKept
  <2>2. rows'[i].branch = rows[i].branch /\ rows[i].branch \in Pr
    BY <2>1, InvMeans DEF RowsKept, Follows
  <2> QED
    BY <1>1, <1>2, <2>1, <2>2 DEF RowsTrue, MergedIsMergedOnGitHub, With, GitHubKept
<1>3. ASSUME NEW s \in Story, story'[s].status = "merged"
      PROVE  \E g \in Pr : StoryOf[g] = s /\ gh'[g] = "merged"
  BY <1>1, <1>3 DEF StoriesTrue, MergedIsMergedOnGitHub, GitHubKept
<1> QED
  BY <1>2, <1>3 DEF MergedIsMergedOnGitHub, With

\* No row becomes approved, or only by a verdict.
LEMMA StillGranted ==
  ASSUME Inv, RowsKept,
         \A i \in DOMAIN rows : rows'[i].status = "approved" =>
            rows[i].status = "approved" \/ rows'[i].verdict \in Granted
  PROVE  ApprovedIsGranted(rows')
<1> SUFFICES ASSUME NEW i \in DOMAIN rows', rows'[i].status = "approved"
             PROVE  rows'[i].verdict \in Granted
  BY DEF ApprovedIsGranted
<1>1. CASE i \in DOMAIN rows
  BY <1>1 DEF Inv, ApprovedIsGranted, RowsKept, Follows
<1>2. CASE i \notin DOMAIN rows
  BY <1>2 DEF RowsKept
<1> QED
  BY <1>1, <1>2

RowsOK == RowsKept /\ ApprovedIsGranted(rows') /\ RowsTrue

LEMMA QuietRowsAreOK ==
  ASSUME Inv, rows' = [i \in DOMAIN rows |-> rows'[i]], \A i \in DOMAIN rows : Quiet(rows[i], rows'[i])
  PROVE  RowsOK /\ NoneHandedOut /\ DOMAIN rows' = DOMAIN rows
<1>1. RowsKept /\ DOMAIN rows' = DOMAIN rows
  BY UpdatedRowsAreKept DEF RowsUpdated, Quiet, Inv
<1>2. ApprovedIsGranted(rows')
  BY <1>1, StillGranted DEF Quiet
<1> QED
  BY <1>1, <1>2 DEF RowsOK, NoneHandedOut, Quiet, RowsTrue

LEMMA SameRowsAreOK ==
  ASSUME Inv, UNCHANGED rows
  PROVE  RowsOK /\ NoneHandedOut /\ DOMAIN rows' = DOMAIN rows
BY SameRowsAreKept, StillGranted DEF Inv, RowsOK, NoneHandedOut, RowsTrue

LEMMA SameGitHubIsKept ==
  ASSUME Inv, UNCHANGED gh
  PROVE  GitHubKept
BY DEF Inv, TypeOK, GitHubKept

LEMMA StepIsKept ==
  ASSUME Inv, RowsOK, GitHubKept, StoriesOK', StoriesTrue, ManagerOK', SpentOK'
  PROVE  Kept
BY TruthKept DEF Kept, RowsOK

-----------------------------------------------------------------------------
(* The manager: approved rows. *)
LEMMA ClaimApprovedKeeps ==
  ASSUME Inv, ClaimApproved
  PROVE  Kept /\ NoneHandedOut
<1> DEFINE claimed == {i \in DOMAIN rows : Claimable(rows[i])}
<1>1. \A i \in DOMAIN rows : rows'[i] = IF i \in claimed THEN [rows[i] EXCEPT !.status = "queued"] ELSE rows[i]
  BY DEF ClaimApproved, SetStatus, SetRows
<1>2. rows' = [i \in DOMAIN rows |-> rows'[i]]
  BY DEF ClaimApproved, SetStatus, SetRows
<1>3. \A i \in claimed : Becomes(rows[i], rows'[i], "queued")
  <2> SUFFICES ASSUME NEW i \in claimed PROVE Becomes(rows[i], rows'[i], "queued")
    OBVIOUS
  <2>1. rows[i] \in Row /\ "queued" \in Status
    BY InvMeans DEF Status
  <2>2. Becomes(rows[i], [rows[i] EXCEPT !.status = "queued"], "queued")
    BY <2>1, RowsBecome
  <2> QED
    BY <1>1, <2>2
<1>4. RowsOK /\ NoneHandedOut /\ DOMAIN rows' = DOMAIN rows
  <2>1. \A i \in DOMAIN rows : Quiet(rows[i], rows'[i])
    BY <1>1, <1>3, FollowsItself, InvMeans DEF Becomes, Quiet
  <2> QED
    BY <1>2, <2>1, QuietRowsAreOK
<1>5. ManagerOK'
  <2>1. CASE claimed = {}
    BY <2>1, ManagerAtIsOK DEF ClaimApproved, Step
  <2>2. CASE claimed # {}
    <3>1. mgr' = [at |-> "merge", todo |-> claimed, got |-> {}, prs |-> {}, stories |-> {}]
      BY <2>2 DEF ClaimApproved, At
    <3>2. \A i \in claimed : rows'[i].verdict \in Granted
      BY <1>3 DEF Inv, ApprovedIsGranted, Claimable, Becomes, Follows
    <3> QED
      BY <1>4, <3>1, <3>2 DEF ManagerOK, Step
  <2> QED
    BY <2>1, <2>2
<1> QED
  BY <1>4, <1>5, StepIsKept, InvMeans, SameGitHubIsKept, StoriesSame DEF ClaimApproved, SpentOK

\* The call may merge: what it says is what holds on GitHub.
LEMMA MergeOnGitHubKeeps ==
  ASSUME Inv, NEW i \in DOMAIN rows, MergeOnGitHub(i)
  PROVE  /\ Kept /\ NoneHandedOut
         /\ rows[i].verdict \in Granted
         /\ \A g \in Pr : g # rows[i].branch => gh'[g] = gh[g]
<1> DEFINE g == rows[i].branch
<1>1. PICK o \in MergeOutcomes(gh[g]) :
        /\ gh' = [gh EXCEPT ![g] = o.after]
        /\ mgr' = [mgr EXCEPT !.todo = @ \ {i}, !.got = @ \cup {[row |-> i, what |-> o.what]},
                              !.at = IF mgr.todo = {i} THEN "apply" ELSE @]
  BY DEF MergeOnGitHub
<1>2. g \in Pr /\ gh \in [Pr -> GitHubState] /\ gh[g] \in GitHubState
  BY InvMeans
<1>3. /\ o.what \in Outcome \ {"closed"} /\ o.after \in GitHubState
      /\ gh[g] = "merged" => o.after = "merged"
      /\ gh[g] # "none" => o.after # "none"
      /\ o.what = "alreadyMerged" => gh[g] = "merged"
      /\ ~RecheckMayFail /\ o.what = "merged" => o.after = "merged"
  BY <1>2, OutcomesAre
<1>4. GitHubKept /\ gh'[g] = o.after /\ \A h \in Pr : h # g => gh'[h] = gh[h]
  BY <1>1, <1>2, <1>3 DEF GitHubKept
<1>5. RowsOK /\ NoneHandedOut /\ rows' = rows
  BY SameRowsAreOK DEF MergeOnGitHub
<1>6. mgr.at = "merge" /\ i \in mgr.todo /\ rows[i].verdict \in Granted
  BY InvMeans DEF MergeOnGitHub, ManagerOK
<1>7. ManagerOK'
  <2> DEFINE f == [row |-> i, what |-> o.what]
  <2>1. f \in Finding /\ f.row = i /\ f.what = o.what
    BY <1>3, RowsTyped DEF Finding, Outcome, Inv
  <2>2. /\ mgr' \in [at : Step, todo : SUBSET (DOMAIN rows), got : SUBSET Finding,
                     prs : SUBSET Pr, stories : SUBSET Story]
        /\ mgr'.todo \subseteq mgr.todo /\ mgr'.got = mgr.got \cup {f} /\ mgr'.at \in {"merge", "apply"}
    <3> HIDE DEF f
    <3>1. mgr' = [mgr EXCEPT !.todo = @ \ {i}, !.got = @ \cup {f},
                              !.at = IF mgr.todo = {i} THEN "apply" ELSE @]
      BY <1>1 DEF f
    <3> QED
      BY <1>6, <2>1, <3>1, InvMeans DEF ManagerOK, Step
  <2> HIDE DEF f
  <2>3. SaysMerged(f)' => gh'[g] = "merged"
    BY <1>3, <1>4, <2>1, <2>2 DEF SaysMerged
  <2>4. \A p \in mgr.got : SaysMerged(p)' => gh'[rows'[p.row].branch] = "merged"
    <3>1. \A p \in mgr.got : SaysMerged(p)' => SaysMerged(p)
      BY <2>2 DEF SaysMerged
    <3> QED
      BY <1>4, <1>5, <3>1, InvMeans DEF ManagerOK, GitHubKept
  <2>5. \A p \in mgr'.got : SaysMerged(p)' => gh'[rows'[p.row].branch] = "merged"
    BY <1>5, <2>1, <2>2, <2>3, <2>4
  <2> QED
    BY <1>3, <1>5, <1>6, <2>1, <2>2, <2>5, InvMeans DEF ManagerOK
<1> QED
  BY <1>4, <1>5, <1>6, <1>7, StepIsKept, InvMeans, StoriesSame DEF MergeOnGitHub, SpentOK
LEMMA ApplyMergeResultsKeeps ==
  ASSUME Inv, ApplyMergeResults
  PROVE  Kept /\ NoneHandedOut
<1> DEFINE Of(i) == CHOOSE o \in mgr.got : o.row = i
           claimed == {o.row : o \in mgr.got}
<1>1. \A i \in DOMAIN rows : rows'[i] = IF i \in claimed THEN RowAfter(rows[i], Of(i).what) ELSE rows[i]
  BY DEF ApplyMergeResults
<1>2. rows' = [i \in DOMAIN rows |-> rows'[i]]
  BY DEF ApplyMergeResults
<1>3. \A i \in claimed : Of(i) \in mgr.got /\ Of(i).row = i
  OBVIOUS
<1> HIDE DEF Of
<1>4. \A o \in mgr.got : /\ o.what \in Outcome \ {"closed"}
                         /\ o.row \in DOMAIN rows /\ rows[o.row].verdict \in Granted
                         /\ SaysMerged(o) => gh[rows[o.row].branch] = "merged"
  BY InvMeans DEF ApplyMergeResults, ManagerOK, Finding, Outcome
<1>5. ASSUME NEW o \in mgr.got, ~RecheckMayFail, o.what \in {"merged", "alreadyMerged"}
      PROVE  gh[rows[o.row].branch] = "merged"
  BY <1>4, <1>5 DEF SaysMerged
<1>6. ASSUME NEW i \in DOMAIN rows
      PROVE  /\ Follows(rows[i], rows'[i])
             /\ rows'[i].status = "approved" => rows[i].status = "approved" \/ rows'[i].verdict \in Granted
             /\ ~RecheckMayFail /\ rows'[i].status = "merged" =>
                  rows[i].status = "merged" \/ gh[rows[i].branch] = "merged"
             /\ rows'[i].status = "reviewing" => rows'[i] = rows[i]
  <2>1. CASE i \in claimed
    <3> DEFINE w == Of(i).what
    <3>1. /\ rows'[i] = RowAfter(rows[i], w) /\ w \in Outcome \ {"closed"} /\ rows[i] \in Row
          /\ rows[i].verdict \in Granted
          /\ ~RecheckMayFail /\ w \in {"merged", "alreadyMerged"} => gh[rows[i].branch] = "merged"
      BY <1>1, <1>3, <1>4, <1>5, <2>1, InvMeans
    <3> HIDE DEF w
    <3>2. /\ Follows(rows[i], rows'[i]) /\ rows'[i].verdict = rows[i].verdict
          /\ rows'[i].status = "merged" => rows[i].status = "merged" \/ w \in {"merged", "alreadyMerged"}
          /\ rows'[i].status = "reviewing" => rows'[i] = rows[i]
      BY <3>1, RowAfterFollows
    <3> QED
      BY <3>1, <3>2
  <2>2. CASE i \notin claimed
    <3>1. rows'[i] = rows[i]
      BY <1>1, <2>2
    <3> QED
      BY <3>1, FollowsItself, InvMeans
  <2> QED
    BY <2>1, <2>2
<1>7. RowsKept /\ DOMAIN rows' = DOMAIN rows
  BY <1>2, <1>6, UpdatedRowsAreKept, InvMeans DEF RowsUpdated
<1>8. RowsOK /\ NoneHandedOut
  <2>1. ApprovedIsGranted(rows')
    BY <1>6, <1>7, StillGranted
  <2>2. gh' = gh
    BY DEF ApplyMergeResults
  <2> QED
    BY <1>6, <1>7, <2>1, <2>2 DEF RowsOK, RowsTrue, NoneHandedOut
<1>9. StoriesOK' /\ StoriesTrue
  <2> DEFINE With_(w) == {StoryOfRow(o.row) : o \in {p \in mgr.got : p.what = w}}
  <2>1. story' = [s \in Story |->
                    IF s \in With_("alreadyMerged") THEN StoryAfter(story[s], "alreadyMerged")
                    ELSE IF s \in With_("merged") THEN StoryAfter(story[s], "merged")
                    ELSE story[s]]
    BY DEF ApplyMergeResults
  <2>2. \A s \in Story : \A w \in {"merged", "alreadyMerged"} :
            StoryAfter(story[s], w) \in [status : StoryStatus, assigned : BOOLEAN]
    BY InvMeans, StoryAfterTyped DEF StoriesOK, Outcome
  <2>3. ASSUME NEW w \in {"merged", "alreadyMerged"}, NEW s \in With_(w), ~RecheckMayFail
        PROVE  \E g \in Pr : StoryOf[g] = s /\ gh'[g] = "merged"
    <3>1. PICK o \in mgr.got : o.what = w /\ s = StoryOfRow(o.row)
      OBVIOUS
    <3>2. gh[rows[o.row].branch] = "merged"
      BY <1>5, <2>3, <3>1
    <3>3. rows[o.row].branch \in Pr /\ StoryOf[rows[o.row].branch] = s
      BY <1>4, <3>1, InvMeans DEF StoryOfRow
    <3> QED
      BY <3>2, <3>3 DEF ApplyMergeResults
  <2> HIDE DEF With_
  <2>4. StoriesOK'
    BY <2>1, <2>2, InvMeans DEF StoriesOK
  <2>5. StoriesTrue
    BY <2>1, <2>3 DEF StoriesTrue
  <2> QED
    BY <2>4, <2>5
<1>10. ManagerOK'
  BY ManagerAtIsOK DEF ApplyMergeResults, Step
<1> QED
  BY <1>8, <1>9, <1>10, StepIsKept, InvMeans, SameGitHubIsKept DEF ApplyMergeResults, SpentOK

-----------------------------------------------------------------------------
(* The manager: the steps that leave the rows alone. *)
LEMMA ListingsKeep ==
  ASSUME Inv, ListMerged \/ ListOpen \/ ReadRowsByStory
  PROVE  Kept /\ NoneHandedOut
<1>1. ManagerOK'
  <2>1. CASE ListMerged
    <3>1. PICK P \in SUBSET Pr : /\ \A g \in P : gh[g] = "merged"
                                 /\ mgr' = [At("syncMerged") EXCEPT !.prs = P]
      BY <2>1 DEF ListMerged
    <3>2. mgr' = [at |-> "syncMerged", todo |-> {}, got |-> {}, prs |-> P, stories |-> {}]
      BY <3>1 DEF At
    <3> QED
      BY <2>1, <3>1, <3>2 DEF ManagerOK, Step, ListMerged
  <2>2. CASE ListOpen
    <3>1. PICK P \in SUBSET Pr : /\ \A g \in P : gh[g] # "none"
                                 /\ mgr' = [At("importOpen") EXCEPT !.prs = P]
      BY <2>2 DEF ListOpen, Listed, IsOpen
    <3>2. mgr' = [at |-> "importOpen", todo |-> {}, got |-> {}, prs |-> P, stories |-> {}]
      BY <3>1 DEF At
    <3> QED
      BY <2>2, <3>1, <3>2 DEF ManagerOK, Step, ListOpen
  <2>3. CASE ReadRowsByStory
    <3>1. PICK T \in SUBSET DOMAIN rows : mgr' = [At("closeStale") EXCEPT !.todo = T]
      BY <2>3 DEF ReadRowsByStory
    <3>2. mgr' = [at |-> "closeStale", todo |-> T, got |-> {}, prs |-> {}, stories |-> {}]
      BY <3>1 DEF At
    <3>3. rows' = rows
      BY <2>3 DEF ReadRowsByStory
    <3> QED
      BY <3>1, <3>2, <3>3 DEF ManagerOK, Step
  <2> QED
    BY <2>1, <2>2, <2>3
<1>2. UNCHANGED <<rows, story, gh, spent>>
  BY DEF ListMerged, ListOpen, ReadRowsByStory
<1> QED
  BY <1>1, <1>2, StepIsKept, InvMeans, SameGitHubIsKept, StoriesSame, SameRowsAreOK DEF SpentOK

LEMMA SyncMergedKeeps ==
  ASSUME Inv, syncMergedPRs
  PROVE  Kept /\ NoneHandedOut
<1> DEFINE T == {s \in {StoryOf[g] : g \in mgr.prs} : story[s].status # "merged"}
<1>1. story' = MergeStories(T)
  BY DEF syncMergedPRs
<1>2. \A s \in T : \E g \in Pr : StoryOf[g] = s /\ gh'[g] = "merged"
  BY InvMeans DEF syncMergedPRs, ManagerOK
<1>3. StoriesOK' /\ StoriesTrue
  <2> HIDE DEF T
  <2> QED
    BY <1>1, <1>2, StoriesMerged, InvMeans
<1>4. ManagerOK'
  BY ManagerAtIsOK DEF syncMergedPRs, Step
<1> QED
  BY <1>3, <1>4, StepIsKept, InvMeans, SameGitHubIsKept, SameRowsAreOK DEF syncMergedPRs, SpentOK

LEMMA CloseStaleKeeps ==
  ASSUME Inv, NEW C \in SUBSET Pr, closeStalePRs(C)
  PROVE  Kept /\ NoneHandedOut /\ \A g \in Pr : gh'[g] = "merged" => gh[g] = "merged"
<1>1. \A g \in Pr : gh'[g] = IF g \in C THEN "closed" ELSE gh[g]
  BY DEF closeStalePRs
<1>2. \A g \in C : gh[g] # "merged"
  BY DEF closeStalePRs, Stale, IsOpen
<1>3. GitHubKept
  BY <1>1, <1>2, InvMeans DEF GitHubKept, closeStalePRs, GitHubState
<1>4. ManagerOK'
  BY ManagerAtIsOK DEF closeStalePRs, Step
<1> QED
  BY <1>1, <1>3, <1>4, StepIsKept, InvMeans, SameRowsAreOK, StoriesSame DEF closeStalePRs, SpentOK

LEMMA PicksKeep ==
  ASSUME Inv, \/ \E V \in SUBSET DOMAIN rows : ViewReviewing(V) \/ PickCommented(V)
              \/ \E S \in SUBSET Story : PickStuck(S)
  PROVE  Kept /\ NoneHandedOut
<1>1. ASSUME NEW V \in SUBSET DOMAIN rows, ViewReviewing(V) PROVE ManagerOK'
  <2> DEFINE ended == {i \in V : ~IsOpen(rows[i].branch)}
             G == {[row |-> i, what |-> gh[rows[i].branch]] : i \in ended}
  <2>1. CASE ended = {}
    BY <1>1, <2>1, ManagerAtIsOK DEF ViewReviewing, Step
  <2>2. CASE ended # {}
    <3>1. mgr' = [at |-> "applyViews", todo |-> {}, got |-> G, prs |-> {}, stories |-> {}]
      BY <1>1, <2>2 DEF ViewReviewing, At
    <3>2. ASSUME NEW i \in ended
          PROVE  i \in DOMAIN rows /\ i \in 1 .. MaxRows /\ gh[rows[i].branch] \in {"merged", "closed"}
      <4>1. i \in DOMAIN rows /\ rows[i].linked /\ rows[i].branch \in Pr /\ ~IsOpen(rows[i].branch)
        BY <1>1, InvMeans DEF ViewReviewing
      <4>2. gh[rows[i].branch] # "none" /\ gh[rows[i].branch] \in GitHubState
        BY <4>1, InvMeans DEF Inv, LinkedExist
      <4> QED
        BY <4>1, <4>2, RowsTyped DEF IsOpen, GitHubState, Inv
    <3>3. ASSUME NEW o \in G
          PROVE  /\ o \in Finding /\ o.row \in DOMAIN rows
                 /\ o.what = gh[rows[o.row].branch] /\ o.what \in {"merged", "closed"}
      <4>1. PICK i \in ended : o = [row |-> i, what |-> gh[rows[i].branch]]
        OBVIOUS
      <4> QED
        BY <3>2, <4>1 DEF Finding
    <3>4. rows' = rows /\ gh' = gh
      BY <1>1 DEF ViewReviewing
    <3> HIDE DEF G
    <3>5. \A o \in mgr'.got : SaysMerged(o)' => gh'[rows'[o.row].branch] = "merged"
      BY <3>1, <3>3, <3>4 DEF SaysMerged
    <3>6. /\ mgr' \in [at : Step, todo : SUBSET (DOMAIN rows'), got : SUBSET Finding,
                      prs : SUBSET Pr, stories : SUBSET Story]
          /\ \A o \in mgr'.got : o.row \in DOMAIN rows'
          /\ mgr'.at = "applyViews"
      BY <3>1, <3>3, <3>4 DEF Step
    <3> QED
      BY <3>5, <3>6 DEF ManagerOK
  <2> QED
    BY <2>1, <2>2
<1>2. ASSUME NEW P \in SUBSET DOMAIN rows, PickCommented(P) PROVE ManagerOK'
  <2>1. CASE P = {}
    BY <1>2, <2>1, ManagerAtIsOK DEF PickCommented, Step
  <2>2. CASE P # {}
    <3>1. mgr' = [at |-> "rejectCommented", todo |-> P, got |-> {}, prs |-> {}, stories |-> {}]
      BY <1>2, <2>2 DEF PickCommented, At
    <3>2. rows' = rows
      BY <1>2 DEF PickCommented
    <3> QED
      BY <3>1, <3>2 DEF ManagerOK, Step
  <2> QED
    BY <2>1, <2>2
<1>3. ASSUME NEW S \in SUBSET Story, PickStuck(S) PROVE ManagerOK'
  <2>1. CASE S = {}
    BY <1>3, <2>1, ManagerAtIsOK DEF PickStuck, Step
  <2>2. CASE S # {}
    <3>1. mgr' = [at |-> "autoProgress", todo |-> {}, got |-> {}, prs |-> {}, stories |-> S]
      BY <1>3, <2>2 DEF PickStuck, At
    <3> QED
      BY <3>1 DEF ManagerOK, Step
  <2> QED
    BY <2>1, <2>2
<1>4. UNCHANGED <<rows, story, gh, spent>>
  BY DEF ViewReviewing, PickCommented, PickStuck
<1>5. ManagerOK'
  BY <1>1, <1>2, <1>3
<1> QED
  BY <1>4, <1>5, StepIsKept, InvMeans, SameGitHubIsKept, StoriesSame, SameRowsAreOK DEF SpentOK

LEMMA NoSessionsKeeps ==
  ASSUME Inv, NoSessions
  PROVE  Kept /\ NoneHandedOut
<1>1. ManagerOK'
  BY ManagerAtIsOK DEF NoSessions, Step
<1> QED
  BY <1>1, StepIsKept, InvMeans, SameGitHubIsKept, StoriesSame, SameRowsAreOK DEF SpentOK, NoSessions

LEMMA RecoverKeeps ==
  ASSUME Inv, NEW T \in SUBSET Story, recoverUnassignedQAFailedStories(T)
  PROVE  Kept /\ NoneHandedOut
<1>1. ManagerOK'
  BY ManagerAtIsOK DEF recoverUnassignedQAFailedStories, Step
<1>2. StoriesOK' /\ StoriesTrue
  BY InvMeans DEF recoverUnassignedQAFailedStories, StoriesOK, StoryStatus, StoriesTrue
<1> QED
  BY <1>1, <1>2, StepIsKept, InvMeans, SameGitHubIsKept, SameRowsAreOK
     DEF SpentOK, recoverUnassignedQAFailedStories

\* What a step leaves of the stories to progress.
LEMMA StoriesLeftAreOK ==
  ASSUME Inv, RowsKept, UNCHANGED gh, mgr.at = "autoProgress", NEW s \in Story,
         mgr' = IF mgr.stories = {s} THEN At("claim") ELSE [mgr EXCEPT !.stories = @ \ {s}]
  PROVE  ManagerOK'
<1>1. CASE mgr.stories = {s}
  BY <1>1, ManagerAtIsOK DEF Step
<1>2. CASE mgr.stories # {s}
  <2>1. ManagerOK
    BY DEF Inv
  <2>2. /\ mgr' \in [at : Step, todo : SUBSET (DOMAIN rows), got : SUBSET Finding,
                     prs : SUBSET Pr, stories : SUBSET Story]
        /\ mgr'.at = "autoProgress" /\ mgr'.todo = mgr.todo /\ mgr'.got = mgr.got
    BY <1>2, <2>1 DEF ManagerOK
  <2>3. mgr' \in [at : Step, todo : SUBSET (DOMAIN rows'), got : SUBSET Finding,
                   prs : SUBSET Pr, stories : SUBSET Story]
    BY <2>2 DEF RowsKept
  <2>4. \A o \in mgr.got : /\ o.row \in DOMAIN rows /\ o.row \in DOMAIN rows'
                           /\ rows'[o.row].branch = rows[o.row].branch
                           /\ SaysMerged(o)' => SaysMerged(o)
    BY <2>1, <2>2 DEF ManagerOK, RowsKept, Follows, SaysMerged
  <2>5. \A o \in mgr'.got : SaysMerged(o)' => gh'[rows'[o.row].branch] = "merged"
    BY <2>1, <2>2, <2>4 DEF ManagerOK
  <2> QED
    BY <2>2, <2>3, <2>4, <2>5 DEF ManagerOK
<1> QED
  BY <1>1, <1>2

LEMMA NoBranchKeeps ==
  ASSUME Inv, NEW s \in Story, NoBranch(s)
  PROVE  Kept /\ NoneHandedOut
<1>1. RowsOK /\ NoneHandedOut /\ RowsKept
  BY SameRowsAreOK DEF NoBranch, RowsOK
<1>2. ManagerOK'
  BY <1>1, StoriesLeftAreOK DEF NoBranch
<1> QED
  BY <1>1, <1>2, StepIsKept, InvMeans, SameGitHubIsKept, StoriesSame DEF SpentOK, NoBranch

LEMMA SpendIsOK ==
  ASSUME SpentOK, \/ Spend("restarts", MaxRestarts) \/ Spend("completes", MaxCompletes)
                  \/ Spend("verdicts", MaxVerdicts)
  PROVE  SpentOK'
BY BoundAssumption DEF Spend, SpentOK

LEMMA RestartKeeps ==
  ASSUME Inv, RestartManager
  PROVE  Kept /\ NoneHandedOut
<1>1. ManagerOK'
  BY ManagerAtIsOK DEF RestartManager, Step
<1>2. SpentOK'
  BY SpendIsOK, InvMeans DEF RestartManager
<1> QED
  BY <1>1, <1>2, StepIsKept, InvMeans, SameGitHubIsKept, StoriesSame, SameRowsAreOK DEF RestartManager

-----------------------------------------------------------------------------
(* The manager: the steps that change rows. *)
LEMMA ImportKeepsRows ==
  ASSUME Inv, NEW P \in SUBSET Pr, \A g \in P : gh[g] # "none", Import(P), UNCHANGED gh
  PROVE  RowsOK /\ NoneHandedOut
<1>1. RowsKept /\ \A i \in DOMAIN rows : rows'[i] = rows[i]
  BY ImportedRowsAreKept, InvMeans
<1>2. ApprovedIsGranted(rows')
  BY <1>1, StillGranted
<1> QED
  BY <1>1, <1>2 DEF RowsOK, RowsTrue, NoneHandedOut

LEMMA SyncOpenKeeps ==
  ASSUME Inv, syncOpenPRs
  PROVE  Kept /\ NoneHandedOut
<1> DEFINE P == mgr.prs \ Known(TRUE)
<1>1. P \in SUBSET Pr /\ \A g \in P : gh[g] # "none"
  BY InvMeans DEF syncOpenPRs, ManagerOK
<1>2. Import(P) /\ UNCHANGED gh
  BY DEF syncOpenPRs
<1>3. RowsOK /\ NoneHandedOut
  <2> HIDE DEF P
  <2> QED
    BY <1>1, <1>2, ImportKeepsRows
<1>4. ManagerOK'
  BY ManagerAtIsOK DEF syncOpenPRs, Step
<1> QED
  BY <1>3, <1>4, StepIsKept, InvMeans, SameGitHubIsKept, StoriesSame DEF SpentOK, syncOpenPRs

LEMMA ApplyViewsKeeps ==
  ASSUME Inv, ApplyViews
  PROVE  Kept /\ NoneHandedOut
<1> DEFINE Still(w) == {i \in With({"reviewing"}) : [row |-> i, what |-> w] \in mgr.got}
<1>1. \A i \in DOMAIN rows : rows'[i] = IF i \in Still("merged") THEN [rows[i] EXCEPT !.status = "merged"]
                                        ELSE IF i \in Still("closed") THEN Rejected(rows[i]) ELSE rows[i]
  BY DEF ApplyViews
<1>2. rows' = [i \in DOMAIN rows |-> rows'[i]]
  BY DEF ApplyViews
<1>3. ASSUME NEW i \in Still("merged")
      PROVE  i \in DOMAIN rows /\ gh[rows[i].branch] = "merged"
  <2> DEFINE o == [row |-> i, what |-> "merged"]
  <2>1. o \in mgr.got /\ o.row = i /\ o.what = "merged" /\ i \in DOMAIN rows
    BY DEF With
  <2> HIDE DEF o
  <2>2. SaysMerged(o)
    BY <2>1 DEF SaysMerged, ApplyViews
  <2> QED
    BY <2>1, <2>2, InvMeans DEF ManagerOK
<1> HIDE DEF Still
<1>4. ASSUME NEW i \in DOMAIN rows
      PROVE  /\ Follows(rows[i], rows'[i])
             /\ rows'[i].status = "approved" => rows[i].status = "approved"
             /\ rows'[i].status = "merged" => rows[i].status = "merged" \/ gh[rows[i].branch] = "merged"
             /\ rows'[i].status = "reviewing" => rows'[i] = rows[i]
  <2>1. rows[i] \in Row /\ "merged" \in Status
    BY InvMeans DEF Status
  <2>2. /\ Becomes(rows[i], [rows[i] EXCEPT !.status = "merged"], "merged")
        /\ Becomes(rows[i], Rejected(rows[i]), "rejected")
    BY <2>1, RowsBecome
  <2>3. CASE i \in Still("merged")
    BY <1>1, <1>3, <2>2, <2>3 DEF Becomes
  <2>4. CASE i \notin Still("merged") /\ i \in Still("closed")
    BY <1>1, <2>2, <2>4 DEF Becomes
  <2>5. CASE i \notin Still("merged") /\ i \notin Still("closed")
    <3>1. rows'[i] = rows[i]
      BY <1>1, <2>5
    <3> QED
      BY <3>1, FollowsItself, InvMeans
  <2> QED
    BY <2>3, <2>4, <2>5
<1>5. RowsKept /\ DOMAIN rows' = DOMAIN rows
  BY <1>2, <1>4, UpdatedRowsAreKept, InvMeans DEF RowsUpdated
<1>6. RowsOK /\ NoneHandedOut
  <2>1. ApprovedIsGranted(rows')
    BY <1>4, <1>5, StillGranted
  <2>2. gh' = gh
    BY DEF ApplyViews
  <2> QED
    BY <1>4, <1>5, <2>1, <2>2 DEF RowsOK, RowsTrue, NoneHandedOut
<1>7. StoriesOK' /\ StoriesTrue
  <2> DEFINE T == {StoryOfRow(i) : i \in Still("merged")}
  <2>1. story' = MergeStories(T)
    BY DEF ApplyViews, Still
  <2>2. ASSUME NEW s \in T PROVE \E g \in Pr : StoryOf[g] = s /\ gh'[g] = "merged"
    <3>1. PICK i \in Still("merged") : s = StoryOfRow(i)
      OBVIOUS
    <3>2. rows[i].branch \in Pr /\ StoryOf[rows[i].branch] = s /\ gh[rows[i].branch] = "merged"
      BY <1>3, <3>1, InvMeans DEF StoryOfRow
    <3> QED
      BY <3>2 DEF ApplyViews
  <2> HIDE DEF T
  <2> QED
    BY <2>1, <2>2, StoriesMerged, InvMeans
<1>8. ManagerOK'
  BY ManagerAtIsOK DEF ApplyViews, Step
<1> QED
  BY <1>6, <1>7, <1>8, StepIsKept, InvMeans, SameGitHubIsKept DEF SpentOK, ApplyViews

\* Some rows become rejected, queued or closed.
LEMMA EndedRowsAreQuiet ==
  ASSUME Inv, rows' = [i \in DOMAIN rows |-> rows'[i]],
         \A i \in DOMAIN rows : \/ rows'[i] = rows[i]
                                \/ \E status \in {"rejected", "queued", "closed"} :
                                      Becomes(rows[i], rows'[i], status)
  PROVE  RowsOK /\ NoneHandedOut /\ DOMAIN rows' = DOMAIN rows
<1>1. \A i \in DOMAIN rows : Quiet(rows[i], rows'[i])
  BY FollowsItself, InvMeans DEF Quiet, Becomes
<1> QED
  BY <1>1, QuietRowsAreOK

LEMMA RejectCommentedKeeps ==
  ASSUME Inv, RejectCommented
  PROVE  Kept /\ NoneHandedOut
<1>1. /\ rows' = [i \in DOMAIN rows |-> rows'[i]]
      /\ \A i \in DOMAIN rows : rows'[i] = IF i \in mgr.todo THEN Rejected(rows[i]) ELSE rows[i]
  BY DEF RejectCommented, SetRows
<1>2. \A i \in DOMAIN rows : Becomes(rows[i], Rejected(rows[i]), "rejected")
  BY RowsBecome, InvMeans
<1>3. RowsOK /\ NoneHandedOut
  BY <1>1, <1>2, EndedRowsAreQuiet
<1>4. StoriesOK' /\ StoriesTrue
  BY StoriesSet, InvMeans DEF RejectCommented, StoryStatus
<1>5. ManagerOK'
  BY ManagerAtIsOK DEF RejectCommented, Step
<1> QED
  BY <1>3, <1>4, <1>5, StepIsKept, InvMeans, SameGitHubIsKept DEF SpentOK, RejectCommented

LEMMA RequeueKeeps ==
  ASSUME Inv, NEW R \in SUBSET DOMAIN rows, requeueStaleReviewingPRs(R)
  PROVE  Kept /\ NoneHandedOut
<1>1. /\ rows' = [i \in DOMAIN rows |-> rows'[i]]
      /\ \A i \in DOMAIN rows :
            rows'[i] = IF i \in R THEN IF rows[i].timeouts >= MaxTimeouts THEN TimedOut(rows[i]) ELSE Requeued(rows[i])
                       ELSE rows[i]
  BY DEF requeueStaleReviewingPRs, SetRows
<1>2. \A i \in DOMAIN rows : /\ Becomes(rows[i], TimedOut(rows[i]), "rejected")
                             /\ ~(rows[i].timeouts >= MaxTimeouts) => Becomes(rows[i], Requeued(rows[i]), "queued")
  <2> SUFFICES ASSUME NEW i \in DOMAIN rows
               PROVE  /\ Becomes(rows[i], TimedOut(rows[i]), "rejected")
                      /\ ~(rows[i].timeouts >= MaxTimeouts) => Becomes(rows[i], Requeued(rows[i]), "queued")
    OBVIOUS
  <2>1. rows[i] \in Row /\ rows[i].timeouts \in Nat /\ MaxTimeouts \in Nat
    BY InvMeans, BoundAssumption DEF Row
  <2>2. /\ Becomes(rows[i], TimedOut(rows[i]), "rejected")
        /\ rows[i].timeouts < MaxTimeouts => Becomes(rows[i], Requeued(rows[i]), "queued")
    BY <2>1, RowsBecome
  <2>3. ~(rows[i].timeouts >= MaxTimeouts) => rows[i].timeouts < MaxTimeouts
    BY <2>1
  <2> QED
    BY <2>2, <2>3
<1>3. RowsOK /\ NoneHandedOut
  BY <1>1, <1>2, EndedRowsAreQuiet
<1>4. StoriesOK' /\ StoriesTrue
  BY StoriesSet, InvMeans DEF requeueStaleReviewingPRs, StoryStatus
<1>5. ManagerOK'
  BY ManagerAtIsOK DEF requeueStaleReviewingPRs, Step
<1> QED
  BY <1>3, <1>4, <1>5, StepIsKept, InvMeans, SameGitHubIsKept DEF SpentOK, requeueStaleReviewingPRs

LEMMA SetStatusEnds ==
  ASSUME Inv, NEW S, NEW status \in {"rejected", "queued", "closed"}
  PROVE  /\ SetStatus(S, status) = [i \in DOMAIN rows |-> SetStatus(S, status)[i]]
         /\ DOMAIN SetStatus(S, status) = DOMAIN rows
         /\ \A i \in DOMAIN rows : \/ SetStatus(S, status)[i] = rows[i]
                                   \/ Becomes(rows[i], SetStatus(S, status)[i], status)
<1>1. \A i \in DOMAIN rows : SetStatus(S, status)[i] = IF i \in S THEN [rows[i] EXCEPT !.status = status] ELSE rows[i]
  BY DEF SetStatus, SetRows
<1>2. \A i \in DOMAIN rows : Becomes(rows[i], [rows[i] EXCEPT !.status = status], status)
  <2> SUFFICES ASSUME NEW i \in DOMAIN rows
               PROVE  Becomes(rows[i], [rows[i] EXCEPT !.status = status], status)
    OBVIOUS
  <2>1. rows[i] \in Row /\ status \in Status
    BY InvMeans DEF Status
  <2> QED
    BY <2>1, RowsBecome
<1> QED
  BY <1>1, <1>2 DEF SetStatus, SetRows

LEMMA HandleRejectedKeeps ==
  ASSUME Inv, handleRejectedPRs
  PROVE  Kept /\ NoneHandedOut
<1>1. RowsOK /\ NoneHandedOut
  BY SetStatusEnds, EndedRowsAreQuiet DEF handleRejectedPRs
<1>2. StoriesOK' /\ StoriesTrue
  BY StoriesSet, InvMeans DEF handleRejectedPRs, StoryStatus
<1>3. ManagerOK'
  BY ManagerAtIsOK DEF handleRejectedPRs, Step
<1> QED
  BY <1>1, <1>2, <1>3, StepIsKept, InvMeans, SameGitHubIsKept DEF SpentOK, handleRejectedPRs

\* Rows are given to reviewers.
LEMMA ReviewedRowsAreOK ==
  ASSUME Inv, rows' = [i \in DOMAIN rows |-> rows'[i]],
         \A i \in DOMAIN rows : rows'[i] = rows[i] \/ Becomes(rows[i], rows'[i], "reviewing")
  PROVE  RowsOK /\ DOMAIN rows' = DOMAIN rows
<1>1. RowsKept /\ DOMAIN rows' = DOMAIN rows
  BY UpdatedRowsAreKept, FollowsItself, InvMeans DEF RowsUpdated, Becomes
<1>2. ApprovedIsGranted(rows')
  BY <1>1, StillGranted DEF Becomes
<1> QED
  BY <1>1, <1>2 DEF RowsOK, RowsTrue, Becomes

\* The oldest queued rows go to the idle sessions: each to one of them.
LEMMA NotifyGives ==
  ASSUME Inv, NEW Idle \in SUBSET QA, notifyQAOfQueuedPRs(Idle)
  PROVE  /\ rows' = [i \in DOMAIN rows |-> rows'[i]]
         /\ \A i \in DOMAIN rows :
              \/ rows'[i] = rows[i]
              \/ \E q \in Idle : /\ i \in With({"queued"}) /\ Rank(Idle, q) = Rank(With({"queued"}), i)
                                 /\ Becomes(rows[i], rows'[i], "reviewing") /\ rows'[i].reviewer = q
<1> DEFINE IsFor(q, i) == i \in With({"queued"}) /\ Rank(Idle, q) = Rank(With({"queued"}), i)
           Q(i) == CHOOSE q \in Idle : IsFor(q, i)
<1>1. \A i \in DOMAIN rows :
         rows'[i] = IF \E q \in Idle : IsFor(q, i)
                    THEN [rows[i] EXCEPT !.status = "reviewing", !.told = TRUE, !.reviewer = Q(i)]
                    ELSE rows[i]
  BY DEF notifyQAOfQueuedPRs
<1>2. rows' = [i \in DOMAIN rows |-> rows'[i]]
  BY DEF notifyQAOfQueuedPRs
<1>3. \A i \in DOMAIN rows : (\E q \in Idle : IsFor(q, i)) => Q(i) \in Idle /\ IsFor(Q(i), i)
  OBVIOUS
<1> HIDE DEF Q
<1>4. ASSUME NEW i \in DOMAIN rows, \E q \in Idle : IsFor(q, i)
      PROVE  \E q \in Idle : /\ IsFor(q, i)
                             /\ Becomes(rows[i], rows'[i], "reviewing") /\ rows'[i].reviewer = q
  <2>1. Q(i) \in Idle /\ IsFor(Q(i), i) /\ Q(i) \in QA
    BY <1>3, <1>4
  <2>2. rows[i] \in Row
    BY InvMeans
  <2>3. rows'[i] = [rows[i] EXCEPT !.status = "reviewing", !.reviewer = Q(i), !.told = TRUE]
    BY <1>1, <1>4, <2>2 DEF Row
  <2>4. Becomes(rows[i], rows'[i], "reviewing")
    <3>1. \A q \in QA \cup {NoOne} :
             Becomes(rows[i], [rows[i] EXCEPT !.status = "reviewing", !.reviewer = q, !.told = TRUE], "reviewing")
      BY <2>2, RowsBecome
    <3> QED
      BY <2>1, <2>3, <3>1
  <2>5. rows'[i].reviewer = Q(i)
    BY <2>2, <2>3 DEF Row
  <2> QED
    BY <2>1, <2>4, <2>5
<1> QED
  BY <1>1, <1>2, <1>4

LEMMA NotifyKeeps ==
  ASSUME Inv, NEW Idle \in SUBSET QA, notifyQAOfQueuedPRs(Idle)
  PROVE  Kept
<1>1. RowsOK
  BY NotifyGives, ReviewedRowsAreOK
<1>2. ManagerOK'
  BY ManagerAtIsOK DEF notifyQAOfQueuedPRs, Step
<1> QED
  BY <1>1, <1>2, StepIsKept, InvMeans, SameGitHubIsKept, StoriesSame DEF SpentOK, notifyQAOfQueuedPRs

LEMMA AppendedRowIsOK ==
  ASSUME Inv, UNCHANGED gh, Len(rows) < MaxRows,
         NEW rs, rs = [i \in DOMAIN rows |-> rs[i]], \A i \in DOMAIN rows : Quiet(rows[i], rs[i]),
         NEW g \in Pr, NEW linked \in BOOLEAN, linked => gh[g] # "none",
         NEW r, NewRow(r, g, linked), rows' = Append(rs, r)
  PROVE  RowsOK /\ NoneHandedOut
<1>1. rs \in Seq(Row) /\ Len(rs) = Len(rows) /\ DOMAIN rs = 1 .. Len(rows)
  <2>1. DOMAIN rows = 1 .. Len(rows) /\ Len(rows) \in Nat
    BY InvMeans
  <2>2. rs \in [1 .. Len(rows) -> Row]
    BY <2>1 DEF Quiet, Follows
  <2> QED
    BY <2>1, <2>2, SeqOfFunction
<1>2. r \in Row
  BY DEF NewRow
<1>3. /\ rows' \in Seq(Row) /\ Len(rows') = Len(rows) + 1 /\ DOMAIN rows' = 1 .. Len(rows) + 1
      /\ rows'[Len(rows) + 1] = r
      /\ \A i \in 1 .. Len(rows) : rows'[i] = rs[i]
  BY <1>1, <1>2, AppendProperties
<1>4. DOMAIN rows = 1 .. Len(rows) /\ Len(rows) \in Nat /\ MaxRows \in Nat
  BY InvMeans
<1>5. \A i \in DOMAIN rows' \ DOMAIN rows : rows'[i] = r
  BY <1>3, <1>4
<1>6. RowsKept
  <2>1. Len(rows') <= MaxRows /\ Len(rows) <= Len(rows') /\ DOMAIN rows \subseteq DOMAIN rows'
    BY <1>3, <1>4
  <2>2. \A i \in DOMAIN rows : Follows(rows[i], rows'[i])
    BY <1>3, <1>4 DEF Quiet
  <2> QED
    BY <1>3, <1>5, <2>1, <2>2 DEF RowsKept, NewRow
<1>7. \A i \in DOMAIN rows : Quiet(rows[i], rows'[i])
  BY <1>3, <1>4
<1>8. ApprovedIsGranted(rows')
  BY <1>6, <1>7, StillGranted DEF Quiet
<1> QED
  BY <1>6, <1>7, <1>8 DEF RowsOK, RowsTrue, NoneHandedOut, Quiet

LEMMA SameRowIsQuiet ==
  ASSUME Inv
  PROVE  \A i \in DOMAIN rows : Quiet(rows[i], rows[i])
BY FollowsItself, InvMeans DEF Quiet

LEMMA AutoProgressKeeps ==
  ASSUME Inv, NEW s \in Story, autoProgressDoneStory(s)
  PROVE  Kept /\ NoneHandedOut
<1>1. RowsOK /\ NoneHandedOut
  <2>1. CASE UNCHANGED rows
    BY <2>1, SameRowsAreOK
  <2>2. CASE Len(rows) < MaxRows /\ \E g \in Pr : rows' = Append(rows, createPullRequest(g, FALSE))
    <3>1. PICK g \in Pr : rows' = Append(rows, createPullRequest(g, FALSE))
      BY <2>2
    <3>2. NewRow(createPullRequest(g, FALSE), g, FALSE)
      BY NewRowTyped
    <3>3. rows = [i \in DOMAIN rows |-> rows[i]]
      BY InvMeans
    <3>4. UNCHANGED gh
      BY DEF autoProgressDoneStory
    <3> QED
      BY <2>2, <3>1, <3>2, <3>3, <3>4, SameRowIsQuiet, AppendedRowIsOK
  <2> QED
    BY <2>1, <2>2 DEF autoProgressDoneStory
<1>2. StoriesOK' /\ StoriesTrue
  BY StoriesSet, InvMeans DEF autoProgressDoneStory, StoryStatus
<1>3. ManagerOK'
  BY <1>1, StoriesLeftAreOK DEF autoProgressDoneStory, RowsOK
<1> QED
  BY <1>1, <1>2, <1>3, StepIsKept, InvMeans, SameGitHubIsKept DEF SpentOK, autoProgressDoneStory

-----------------------------------------------------------------------------
(* The commands. *)
LEMMA CommandIsKept ==
  ASSUME Inv, RowsOK, GitHubKept, StoriesOK', StoriesTrue, UNCHANGED mgr, SpentOK'
  PROVE  Kept
BY KeptManagerIsOK, StepIsKept DEF RowsOK

LEMMA SubmitKeeps ==
  ASSUME Inv, NEW g \in Pr, NEW linked \in BOOLEAN, submit(g, linked)
  PROVE  Kept /\ NoneHandedOut
<1> DEFINE rs == SetStatus(Superseded(g, linked), "closed")
<1>1. NewRow(createPullRequest(g, linked), g, linked)
  BY NewRowTyped
<1>2. rs = [i \in DOMAIN rows |-> rs[i]] /\ \A i \in DOMAIN rows : Quiet(rows[i], rs[i])
  <2> DEFINE S == Superseded(g, linked)
  <2> HIDE DEF S
  <2>1. /\ SetStatus(S, "closed") = [i \in DOMAIN rows |-> SetStatus(S, "closed")[i]]
        /\ \A i \in DOMAIN rows : \/ SetStatus(S, "closed")[i] = rows[i]
                                  \/ Becomes(rows[i], SetStatus(S, "closed")[i], "closed")
    BY SetStatusEnds
  <2>2. \A i \in DOMAIN rows : Quiet(rows[i], SetStatus(S, "closed")[i])
    BY <2>1, SameRowIsQuiet DEF Quiet, Becomes
  <2> QED
    BY <2>1, <2>2 DEF S
<1>3. /\ rows' = Append(rs, createPullRequest(g, linked)) /\ UNCHANGED <<gh, mgr, spent>>
      /\ Len(rows) < MaxRows /\ (linked => gh[g] # "none")
  BY DEF submit
<1>4. RowsOK /\ NoneHandedOut
  <2> HIDE DEF rs
  <2> QED
    BY <1>1, <1>2, <1>3, AppendedRowIsOK
<1>5. StoriesOK' /\ StoriesTrue
  BY StoriesSet, InvMeans DEF submit, StoryStatus
<1> QED
  BY <1>3, <1>4, <1>5, CommandIsKept, InvMeans, SameGitHubIsKept DEF SpentOK

LEMMA SyncAndCompleteKeep ==
  ASSUME Inv, sync \/ \E s \in Story : complete(s)
  PROVE  Kept /\ NoneHandedOut
<1>1. CASE sync
  <2> DEFINE P == Listed \ Known(FALSE)
  <2>1. P \in SUBSET Pr /\ \A g \in P : gh[g] # "none"
    BY DEF Listed, IsOpen
  <2>2. Import(P) /\ UNCHANGED <<story, gh, mgr, spent>>
    BY <1>1 DEF sync
  <2>3. RowsOK /\ NoneHandedOut
    <3> HIDE DEF P
    <3> QED
      BY <2>1, <2>2, ImportKeepsRows
  <2> QED
    BY <2>2, <2>3, CommandIsKept, InvMeans, SameGitHubIsKept, StoriesSame DEF SpentOK
<1>2. ASSUME NEW s \in Story, complete(s) PROVE Kept /\ NoneHandedOut
  <2>1. RowsOK /\ NoneHandedOut
    BY <1>2, SameRowsAreOK DEF complete
  <2>2. StoriesOK' /\ StoriesTrue
    BY <1>2, StoriesSet, InvMeans DEF complete, StoryStatus
  <2>3. SpentOK'
    BY <1>2, SpendIsOK, InvMeans DEF complete
  <2> QED
    BY <1>2, <2>1, <2>2, <2>3, CommandIsKept, SameGitHubIsKept DEF complete
<1> QED
  BY <1>1, <1>2

LEMMA ReviewKeeps ==
  ASSUME Inv, NEW q \in Claimants, review(q)
  PROVE  /\ Kept
         /\ \A i \in DOMAIN rows : rows'[i] = rows[i] \/ (rows'[i].reviewer = q /\ rows'[i].status = "reviewing")
<1> DEFINE next == getNextInQueue
<1>1. /\ rows' = [i \in DOMAIN rows |-> rows'[i]]
      /\ \A i \in DOMAIN rows :
            rows'[i] = IF i \in next THEN [rows[i] EXCEPT !.status = "reviewing", !.reviewer = q, !.told = TRUE]
                       ELSE rows[i]
  BY DEF review, SetRows
<1>2. \A i \in DOMAIN rows :
         LET s == [rows[i] EXCEPT !.status = "reviewing", !.reviewer = q, !.told = TRUE] IN
         Becomes(rows[i], s, "reviewing") /\ s.reviewer = q
  <2> SUFFICES ASSUME NEW i \in DOMAIN rows
               PROVE  LET s == [rows[i] EXCEPT !.status = "reviewing", !.reviewer = q, !.told = TRUE] IN
                      Becomes(rows[i], s, "reviewing") /\ s.reviewer = q
    OBVIOUS
  <2>1. rows[i] \in Row /\ q \in QA \cup {NoOne}
    BY InvMeans, ClaimantAssumption
  <2>2. Becomes(rows[i], [rows[i] EXCEPT !.status = "reviewing", !.reviewer = q, !.told = TRUE], "reviewing")
    BY <2>1, RowsBecome
  <2> QED
    BY <2>1, <2>2 DEF Row
<1> HIDE DEF next
<1>3. RowsOK
  BY <1>1, <1>2, ReviewedRowsAreOK
<1>4. Kept
  BY <1>3, CommandIsKept, InvMeans, SameGitHubIsKept, StoriesSame DEF SpentOK, review
<1> QED
  BY <1>1, <1>2, <1>4 DEF Becomes

\* One row is given a verdict.
LEMMA VerdictFacts ==
  ASSUME Inv, NEW i \in DOMAIN rows, NEW r, Becomes(rows[i], r, r.status)
  PROVE  /\ [rows EXCEPT ![i] = r] = [j \in DOMAIN rows |-> [rows EXCEPT ![i] = r][j]]
         /\ [rows EXCEPT ![i] = r] \in Seq(Row)
         /\ Len([rows EXCEPT ![i] = r]) = Len(rows) /\ DOMAIN [rows EXCEPT ![i] = r] = DOMAIN rows
         /\ [rows EXCEPT ![i] = r][i] = r
         /\ \A j \in DOMAIN rows : j # i => [rows EXCEPT ![i] = r][j] = rows[j]
         /\ \A j \in DOMAIN rows : Follows(rows[j], [rows EXCEPT ![i] = r][j])
<1>1. r \in Row /\ rows \in Seq(Row) /\ DOMAIN rows = 1 .. Len(rows) /\ Len(rows) \in Nat
  BY InvMeans DEF Becomes, Follows
<1>2. /\ [rows EXCEPT ![i] = r] \in Seq(Row) /\ Len([rows EXCEPT ![i] = r]) = Len(rows)
      /\ \A j \in 1 .. Len(rows) : [rows EXCEPT ![i] = r][j] = IF j = i THEN r ELSE rows[j]
  BY <1>1, ExceptSeq
<1> QED
  BY <1>1, <1>2, FollowsItself, InvMeans DEF Becomes

LEMMA ApproveAndMergeKeeps ==
  ASSUME Inv, NEW q \in QA, NEW i \in DOMAIN rows, ApproveAndMerge(q, i)
  PROVE  /\ Kept /\ NoneHandedOut
         /\ rows'[i].branch = rows[i].branch /\ rows'[i].verdict \in Granted
         /\ \A g \in Pr : g # rows[i].branch => gh'[g] = gh[g]
<1> DEFINE g == rows[i].branch
           r == Approved(rows[i], q, "merged", FALSE)
<1>1. g \in Pr /\ StoryOf[g] = StoryOfRow(i) /\ gh \in [Pr -> GitHubState] /\ rows[i] \in Row
  BY InvMeans DEF StoryOfRow
<1>2. /\ gh' = [gh EXCEPT ![g] = "merged"] /\ rows' = [rows EXCEPT ![i] = r]
      /\ story' = SetStories({StoryOf[g]}, "merged") /\ UNCHANGED mgr /\ Spend("verdicts", MaxVerdicts)
  <2>1. rows' = [rows EXCEPT ![i] = Approved(@, q, "merged", FALSE)]
    BY DEF ApproveAndMerge
  <2> QED
    BY <2>1 DEF ApproveAndMerge, Verdict
<1>3. Becomes(rows[i], r, "merged") /\ r.verdict = "approved"
  <2>1. \A s \in Status, manual \in BOOLEAN :
           Becomes(rows[i], Approved(rows[i], q, s, manual), s) /\ Approved(rows[i], q, s, manual).verdict = "approved"
    BY <1>1, RowsBecome
  <2> QED
    BY <2>1 DEF Status
<1> HIDE DEF r
<1>4. /\ rows' = [j \in DOMAIN rows |-> rows'[j]] /\ rows'[i] = r
      /\ \A j \in DOMAIN rows : j # i => rows'[j] = rows[j]
      /\ \A j \in DOMAIN rows : Follows(rows[j], rows'[j])
  BY <1>2, <1>3, VerdictFacts DEF Becomes
<1>5. RowsKept
  BY <1>4, UpdatedRowsAreKept, InvMeans DEF RowsUpdated
<1>6. GitHubKept /\ gh'[g] = "merged" /\ \A h \in Pr : h # g => gh'[h] = gh[h]
  BY <1>1, <1>2 DEF GitHubKept, GitHubState
<1>7. RowsOK /\ NoneHandedOut
  <2>1. ApprovedIsGranted(rows')
    BY <1>3, <1>4, <1>5, StillGranted DEF Granted, Becomes
  <2> QED
    BY <1>3, <1>4, <1>5, <1>6, <2>1 DEF RowsOK, RowsTrue, NoneHandedOut, Becomes
<1>8. StoriesOK' /\ StoriesTrue
  BY <1>1, <1>2, <1>6, InvMeans DEF StoriesOK, StoriesTrue, SetStories, StoryStatus
<1>9. SpentOK'
  BY <1>2, SpendIsOK, InvMeans
<1>10. Kept
  BY <1>2, <1>6, <1>7, <1>8, <1>9, CommandIsKept
<1> QED
  BY <1>3, <1>4, <1>6, <1>7, <1>10 DEF Becomes, Follows, Granted

LEMMA ApproveOnlyKeeps ==
  ASSUME Inv, NEW q \in QA, NEW i \in DOMAIN rows, ApproveOnly(q, i)
  PROVE  Kept /\ NoneHandedOut
<1> DEFINE r == Approved(rows[i], q, "approved", TRUE)
<1>1. rows' = [rows EXCEPT ![i] = r] /\ UNCHANGED <<story, gh, mgr>> /\ Spend("verdicts", MaxVerdicts)
  <2>1. rows' = [rows EXCEPT ![i] = Approved(@, q, "approved", TRUE)]
    BY DEF ApproveOnly
  <2> QED
    BY <2>1 DEF ApproveOnly, Verdict
<1>2. Becomes(rows[i], r, "approved") /\ r.verdict = "approved"
  <2>1. \A s \in Status, manual \in BOOLEAN :
           Becomes(rows[i], Approved(rows[i], q, s, manual), s) /\ Approved(rows[i], q, s, manual).verdict = "approved"
    BY InvMeans, RowsBecome
  <2> QED
    BY <2>1 DEF Status
<1> HIDE DEF r
<1>3. /\ rows' = [j \in DOMAIN rows |-> rows'[j]] /\ rows'[i] = r
      /\ \A j \in DOMAIN rows : j # i => rows'[j] = rows[j]
      /\ \A j \in DOMAIN rows : Follows(rows[j], rows'[j])
  BY <1>1, <1>2, VerdictFacts DEF Becomes
<1>4. RowsKept
  BY <1>3, UpdatedRowsAreKept, InvMeans DEF RowsUpdated
<1>5. RowsOK /\ NoneHandedOut
  <2>1. ApprovedIsGranted(rows')
    BY <1>2, <1>3, <1>4, StillGranted DEF Granted
  <2> QED
    BY <1>2, <1>3, <1>4, <2>1 DEF RowsOK, RowsTrue, NoneHandedOut, Becomes
<1>6. SpentOK'
  BY <1>1, SpendIsOK, InvMeans
<1> QED
  BY <1>1, <1>5, <1>6, CommandIsKept, InvMeans, SameGitHubIsKept, StoriesSame

LEMMA RejectKeeps ==
  ASSUME Inv, NEW q \in QA, NEW i \in DOMAIN rows, reject(q, i)
  PROVE  Kept /\ NoneHandedOut
<1> DEFINE r == RejectedBy(rows[i], q)
<1>1. /\ rows' = [rows EXCEPT ![i] = r] /\ UNCHANGED <<gh, mgr>> /\ Spend("verdicts", MaxVerdicts)
      /\ story' = SetStories({StoryOfRow(i)}, "qa_failed")
  <2>1. rows' = [rows EXCEPT ![i] = RejectedBy(@, q)]
    BY DEF reject
  <2> QED
    BY <2>1 DEF reject, Verdict
<1>2. Becomes(rows[i], r, "rejected")
  BY InvMeans, RowsBecome
<1> HIDE DEF r
<1>3. /\ rows' = [j \in DOMAIN rows |-> rows'[j]] /\ rows'[i] = r
      /\ \A j \in DOMAIN rows : j # i => rows'[j] = rows[j]
  BY <1>1, <1>2, VerdictFacts DEF Becomes
<1>4. RowsOK /\ NoneHandedOut
  BY <1>2, <1>3, EndedRowsAreQuiet
<1>5. StoriesOK' /\ StoriesTrue
  BY <1>1, StoriesSet, InvMeans DEF StoryStatus
<1>6. SpentOK'
  BY <1>1, SpendIsOK, InvMeans
<1> QED
  BY <1>1, <1>4, <1>5, <1>6, CommandIsKept, SameGitHubIsKept

LEMMA GitHubKeeps ==
  ASSUME Inv, NEW g \in Pr, OpenPr(g) \/ MergedElsewhere(g) \/ ClosedElsewhere(g)
  PROVE  /\ Kept /\ NoneHandedOut
         /\ \A h \in Pr : gh'[h] = "merged" /\ gh[h] # "merged" => MergedElsewhere(h)
<1>1. /\ UNCHANGED <<rows, story, mgr, spent>> /\ gh \in [Pr -> GitHubState]
      /\ \E x \in {"open", "merged", "closed"} : gh' = [gh EXCEPT ![g] = x]
      /\ gh[g] # "merged" /\ (gh'[g] = "open" => gh[g] = "none")
  BY InvMeans DEF OpenPr, MergedElsewhere, ClosedElsewhere, IsOpen
<1>2. GitHubKept
  BY <1>1 DEF GitHubKept, GitHubState
<1>3. \A h \in Pr : gh'[h] = "merged" /\ gh[h] # "merged" => MergedElsewhere(h)
  BY <1>1 DEF OpenPr, MergedElsewhere, ClosedElsewhere, IsOpen
<1> QED
  BY <1>1, <1>2, <1>3, CommandIsKept, InvMeans, StoriesSame, SameRowsAreOK DEF SpentOK

LEMMA ApproveAndRetryKeeps ==
  ASSUME Inv, NEW q \in QA, NEW i \in DOMAIN rows, ApproveAndRetry(q, i)
  PROVE  /\ Kept /\ NoneHandedOut
         /\ \A g \in Pr : gh[g] # "merged" /\ gh'[g] = "merged" =>
               \E j \in DOMAIN rows : rows'[j].branch = g /\ rows'[j].verdict \in Granted
<1> DEFINE g == rows[i].branch
           r == Approved(rows[i], q, "approved", FALSE)
           after == IF rows[i].linked /\ IsOpen(g) THEN {gh[g], "merged"} ELSE {gh[g]}
<1>1. PICK x \in after :
        \E e \in AutoMerged([rows |-> [rows EXCEPT ![i] = r], story |-> story, gh |-> [gh EXCEPT ![g] = x]]) :
            rows' = e.rows /\ story' = e.story /\ gh' = e.gh
  <2>1. \E y \in after :
          \E e \in AutoMerged([rows |-> [rows EXCEPT ![i] = Approved(@, q, "approved", FALSE)],
                               story |-> story, gh |-> [gh EXCEPT ![g] = y]]) :
              rows' = e.rows /\ story' = e.story /\ gh' = e.gh
    BY DEF ApproveAndRetry
  <2> QED
    BY <2>1
<1> DEFINE d == [rows |-> [rows EXCEPT ![i] = r], story |-> story, gh |-> [gh EXCEPT ![g] = x]]
<1>2. PICK e \in AutoMerged(d) : rows' = e.rows /\ story' = e.story /\ gh' = e.gh
  BY <1>1
<1>3. UNCHANGED mgr /\ Spend("verdicts", MaxVerdicts)
  BY DEF ApproveAndRetry, Verdict
<1>4. g \in Pr /\ gh \in [Pr -> GitHubState] /\ rows[i] \in Row /\ story \in [Story -> [status : StoryStatus, assigned : BOOLEAN]]
  BY InvMeans DEF StoriesOK
<1>5. Becomes(rows[i], r, "approved") /\ r.verdict = "approved"
  <2>1. \A s \in Status, manual \in BOOLEAN :
           Becomes(rows[i], Approved(rows[i], q, s, manual), s) /\ Approved(rows[i], q, s, manual).verdict = "approved"
    BY <1>4, RowsBecome
  <2> QED
    BY <2>1 DEF Status
<1>6. /\ x \in GitHubState
      /\ gh[g] = "merged" => x = "merged"
      /\ gh[g] # "none" => x # "none"
      /\ x = "merged" \/ x = gh[g]
  BY <1>4 DEF GitHubState
<1>7. d.rows = [rows EXCEPT ![i] = r] /\ d.story = story /\ d.gh = [gh EXCEPT ![g] = x]
  OBVIOUS
<1> HIDE DEF r
<1>8. /\ d.rows \in Seq(Row) /\ Len(d.rows) = Len(rows) /\ DOMAIN d.rows = DOMAIN rows
      /\ d.rows[i] = r /\ \A j \in DOMAIN rows : j # i => d.rows[j] = rows[j]
      /\ \A j \in DOMAIN rows : Follows(rows[j], d.rows[j])
  BY <1>5, <1>7, VerdictFacts DEF Becomes
<1>9. d.gh \in [Pr -> GitHubState] /\ d.gh[g] = x /\ \A h \in Pr : h # g => d.gh[h] = gh[h]
  BY <1>4, <1>6, <1>7
<1>10. d \in Hive
  BY <1>4, <1>7, <1>8, <1>9 DEF Hive
<1> HIDE DEF d, after
<1>11. ApprovedIsGranted(d.rows)
  BY <1>5, <1>8 DEF ApprovedIsGranted, Inv, Granted
<1>12. Leads(d, e)
  BY <1>2, <1>10, <1>11, AutoMergedLeads
<1>13. /\ rows' \in Seq(Row) /\ Len(rows') = Len(rows) /\ DOMAIN rows' = DOMAIN rows
       /\ ApprovedIsGranted(rows')
       /\ story' \in [Story -> [status : StoryStatus, assigned : BOOLEAN]]
       /\ gh' \in [Pr -> GitHubState]
  BY <1>2, <1>8, <1>12 DEF Leads, Hive
<1>14. \A j \in DOMAIN rows : Follows(rows[j], rows'[j])
  BY <1>2, <1>8, <1>12 DEF Leads, Follows
<1>15. RowsKept
  BY <1>13, <1>14, InvMeans DEF RowsKept
<1>16. GitHubKept
  <2>1. \A h \in Pr : /\ gh[h] = "merged" => d.gh[h] = "merged"
                      /\ gh[h] # "none" => d.gh[h] # "none"
    BY <1>6, <1>9
  <2> QED
    BY <1>2, <1>12, <1>13, <2>1 DEF GitHubKept, Leads
<1>17. NoneHandedOut
  <2> SUFFICES ASSUME NEW j \in DOMAIN rows, rows'[j].status = "reviewing" PROVE rows'[j] = rows[j]
    BY DEF NoneHandedOut
  <2>1. rows'[j] = d.rows[j]
    BY <1>2, <1>8, <1>12 DEF Leads
  <2>2. j # i
    BY <1>5, <1>8, <2>1 DEF Becomes
  <2> QED
    BY <1>8, <2>1, <2>2
<1>18. SpentOK'
  BY <1>3, SpendIsOK, InvMeans
<1>19. ManagerOK'
  BY <1>3, <1>15, <1>16, KeptManagerIsOK
<1>20. Truth'
  <2> SUFFICES ASSUME ~RecheckMayFail PROVE MergedIsMergedOnGitHub'
    BY DEF Truth
  <2>1. MergedIsMergedOnGitHub
    BY DEF Inv, Truth
  <2>2. MergedIsTrue(d)
    <3>1. ASSUME NEW j \in DOMAIN d.rows, d.rows[j].status = "merged"
          PROVE  d.gh[d.rows[j].branch] = "merged"
      <4>1. j # i /\ d.rows[j] = rows[j] /\ j \in DOMAIN rows
        BY <1>5, <1>8, <3>1 DEF Becomes
      <4>2. gh[rows[j].branch] = "merged" /\ rows[j].branch \in Pr
        BY <2>1, <3>1, <4>1, InvMeans DEF MergedIsMergedOnGitHub, With
      <4> QED
        BY <1>6, <1>9, <4>1, <4>2
    <3>2. ASSUME NEW s \in Story, d.story[s].status = "merged"
          PROVE  \E h \in Pr : StoryOf[h] = s /\ d.gh[h] = "merged"
      <4>1. PICK h \in Pr : StoryOf[h] = s /\ gh[h] = "merged"
        BY <1>7, <2>1, <3>2 DEF MergedIsMergedOnGitHub, d
      <4> QED
        BY <1>6, <1>9, <4>1
    <3> QED
      BY <3>1, <3>2 DEF MergedIsTrue
  <2>3. MergedIsTrue(e)
    BY <1>12, <2>2 DEF Leads
  <2> QED
    BY <1>2, <2>3 DEF MergedIsTrue, MergedIsMergedOnGitHub, With
<1>21. ASSUME NEW h \in Pr, gh[h] # "merged", gh'[h] = "merged"
       PROVE  \E j \in DOMAIN rows : rows'[j].branch = h /\ rows'[j].verdict \in Granted
  <2>1. CASE d.gh[h] = "merged"
    <3>1. h = g
      BY <1>9, <1>21, <2>1
    <3>2. Follows(d.rows[i], e.rows[i])
      BY <1>8, <1>12 DEF Leads
    <3>3. rows'[i].branch = g /\ rows'[i].verdict \in Granted
      BY <1>2, <1>5, <1>8, <3>2 DEF Follows, Becomes, Granted
    <3> QED
      BY <3>1, <3>3
  <2>2. CASE d.gh[h] # "merged"
    <3>1. \E j \in DOMAIN e.rows : e.rows[j].branch = h /\ e.rows[j].verdict \in Granted
      BY <1>2, <1>12, <1>21, <2>2 DEF Leads
    <3> QED
      BY <1>2, <1>13, <3>1
  <2> QED
    BY <2>1, <2>2
<1> QED
  BY <1>13, <1>15, <1>16, <1>17, <1>18, <1>19, <1>20, <1>21 DEF Kept, StoriesOK

-----------------------------------------------------------------------------
(* Steps. *)
HandsOut ==
    \/ \E Idle \in SUBSET QA : notifyQAOfQueuedPRs(Idle)
    \/ \E q \in Claimants : review(q)

\* The hive merges by these.
Merges ==
    \/ \E i \in DOMAIN rows : MergeOnGitHub(i)
    \/ \E q \in QA, i \in DOMAIN rows : ApproveAndMerge(q, i) \/ ApproveAndRetry(q, i)

OtherStep ==
    \/ ClaimApproved \/ ApplyMergeResults \/ ListMerged \/ syncMergedPRs
    \/ ListOpen \/ syncOpenPRs \/ ReadRowsByStory \/ ApplyViews \/ NoSessions
    \/ RejectCommented \/ handleRejectedPRs
    \/ \E I \in SUBSET DOMAIN rows :
           ViewReviewing(I) \/ PickCommented(I) \/ requeueStaleReviewingPRs(I)
    \/ \E T \in SUBSET Story : recoverUnassignedQAFailedStories(T) \/ PickStuck(T)
    \/ \E s \in Story : autoProgressDoneStory(s) \/ NoBranch(s)
    \/ RestartManager
    \/ \E g \in Pr : submit(g, TRUE) \/ submit(g, FALSE)
    \/ sync
    \/ \E s \in Story : complete(s)
    \/ \E q \in QA, i \in DOMAIN rows : ApproveOnly(q, i) \/ reject(q, i)

LEMMA StepsAre ==
  ASSUME Next
  PROVE  HandsOut \/ Merges \/ OtherStep \/ Elsewhere \/ \E C \in SUBSET Pr : closeStalePRs(C)
BY DEF Next, Manager, Command, HandsOut, Merges, OtherStep

LEMMA OtherStepKeeps ==
  ASSUME Inv, OtherStep
  PROVE  Kept /\ NoneHandedOut /\ UNCHANGED gh
<1>1. UNCHANGED gh
  BY DEF OtherStep, ClaimApproved, ApplyMergeResults, ListMerged, syncMergedPRs, ListOpen, syncOpenPRs,
         ReadRowsByStory, ApplyViews, NoSessions, RejectCommented, handleRejectedPRs, ViewReviewing,
         PickCommented, requeueStaleReviewingPRs, recoverUnassignedQAFailedStories, PickStuck,
         autoProgressDoneStory, NoBranch, RestartManager, submit, sync, complete, ApproveOnly, reject
<1>2. CASE \/ ClaimApproved \/ ApplyMergeResults \/ ListMerged \/ syncMergedPRs
           \/ ListOpen \/ syncOpenPRs \/ ReadRowsByStory \/ ApplyViews \/ NoSessions
           \/ RejectCommented \/ handleRejectedPRs \/ RestartManager
  BY <1>1, <1>2, ClaimApprovedKeeps, ApplyMergeResultsKeeps, ListingsKeep, SyncMergedKeeps, SyncOpenKeeps,
     ApplyViewsKeeps, NoSessionsKeeps, RejectCommentedKeeps, HandleRejectedKeeps, RestartKeeps
<1>3. CASE \E I \in SUBSET DOMAIN rows :
               ViewReviewing(I) \/ PickCommented(I) \/ requeueStaleReviewingPRs(I)
  BY <1>1, <1>3, PicksKeep, RequeueKeeps
<1>4. CASE \E T \in SUBSET Story : recoverUnassignedQAFailedStories(T) \/ PickStuck(T)
  BY <1>1, <1>4, RecoverKeeps, PicksKeep
<1>5. CASE \E s \in Story : autoProgressDoneStory(s) \/ NoBranch(s)
  BY <1>1, <1>5, AutoProgressKeeps, NoBranchKeeps
<1>6. CASE \E g \in Pr : submit(g, TRUE) \/ submit(g, FALSE)
  <2>1. TRUE \in BOOLEAN /\ FALSE \in BOOLEAN
    OBVIOUS
  <2> QED
    BY <1>1, <1>6, <2>1, SubmitKeeps
<1>7. CASE sync \/ \E s \in Story : complete(s)
  BY <1>1, <1>7, SyncAndCompleteKeep
<1>8. CASE \E q \in QA, i \in DOMAIN rows : ApproveOnly(q, i) \/ reject(q, i)
  BY <1>1, <1>8, ApproveOnlyKeeps, RejectKeeps
<1> QED
  BY <1>2, <1>3, <1>4, <1>5, <1>6, <1>7, <1>8 DEF OtherStep

LEMMA StepKeeps ==
  ASSUME Inv, Next
  PROVE  Kept /\ (HandsOut \/ NoneHandedOut)
BY StepsAre, NotifyKeeps, ReviewKeeps, MergeOnGitHubKeeps, ApproveAndMergeKeeps, ApproveAndRetryKeeps,
   OtherStepKeeps, GitHubKeeps, CloseStaleKeeps DEF HandsOut, Merges, Elsewhere

LEMMA InitInv == Init => Inv
<1> SUFFICES ASSUME Init PROVE Inv
  OBVIOUS
<1>1. rows = <<>> /\ rows \in Seq(Row) /\ Len(rows) = 0 /\ DOMAIN rows = {}
  BY EmptySeq DEF Init
<1>2. mgr = [at |-> "claim", todo |-> {}, got |-> {}, prs |-> {}, stories |-> {}]
  BY DEF Init, At
<1>3. mgr \in [at : Step, todo : SUBSET (DOMAIN rows), got : SUBSET Finding,
               prs : SUBSET Pr, stories : SUBSET Story]
  BY <1>2 DEF Step
<1>4. TypeOK
  BY <1>1, <1>3, BoundAssumption DEF Init, TypeOK, StoryStatus, GitHubState
<1>5. ManagerOK
  BY <1>2, <1>3 DEF ManagerOK
<1>6. Truth
  BY <1>1 DEF Init, Truth, MergedIsMergedOnGitHub, With
<1> QED
  BY <1>1, <1>4, <1>5, <1>6 DEF Inv, ApprovedIsGranted, LinkedExist

LEMMA NextInv == Inv /\ [Next]_vars => Inv'
<1>1. ASSUME Inv, Next PROVE Inv'
  BY <1>1, StepKeeps, KeptIsInv
<1>2. ASSUME Inv, UNCHANGED vars PROVE Inv'
  BY <1>2 DEF vars, Inv, TypeOK, ApprovedIsGranted, ManagerOK, SaysMerged, LinkedExist, Truth,
              MergedIsMergedOnGitHub, With
<1> QED
  BY <1>1, <1>2

LEMMA InvHolds == Spec => []Inv
BY InitInv, NextInv, PTL DEF Spec

-----------------------------------------------------------------------------
(* Results. *)

\* Every variable keeps its type; rows, claims and results read under the lock
\* name rows and pull requests that are there (pull_requests, managerCheck).
THEOREM TypeCorrect == Spec => []TypeOK
BY InvHolds, PTL DEF Inv

\* As long as the second look at GitHub after a merge does not fail, what the
\* database calls merged GitHub has merged, however long ago the check has
\* claimed its rows and whatever commands do in between (updatePhase of
\* autoMergeApprovedPRs, syncMergedPRs, recoverStaleReviewingPRs, approve).
THEOREM MergedRowsAreMerged ==
  ASSUME RecheckMayFail = FALSE
  PROVE  Spec => []MergedIsMergedOnGitHub
<1>1. Inv => MergedIsMergedOnGitHub
  BY DEF Inv, Truth
<1> QED
  BY <1>1, InvHolds, PTL

LEMMA MergeStep ==
  ASSUME Inv, [Next]_vars, NEW g \in Pr, gh[g] # "merged", gh'[g] = "merged"
  PROVE  \/ MergedElsewhere(g)
         \/ \E i \in DOMAIN rows : rows'[i].branch = g /\ rows'[i].verdict \in {"approved", "withdrawn"}
<1>1. CASE OtherStep \/ UNCHANGED vars
  BY <1>1, OtherStepKeeps DEF vars
<1>2. CASE HandsOut
  BY <1>2 DEF HandsOut, notifyQAOfQueuedPRs, review
<1>3. CASE \E C \in SUBSET Pr : closeStalePRs(C)
  BY <1>3, CloseStaleKeeps
<1>4. CASE Elsewhere
  BY <1>4, GitHubKeeps DEF Elsewhere
<1>5. ASSUME NEW i \in DOMAIN rows, MergeOnGitHub(i)
      PROVE  rows'[i].branch = g /\ rows'[i].verdict \in Granted
  <2>1. g = rows[i].branch /\ rows[i].verdict \in Granted
    BY <1>5, MergeOnGitHubKeeps
  <2> QED
    BY <1>5, <2>1 DEF MergeOnGitHub
<1>6. ASSUME NEW q \in QA, NEW i \in DOMAIN rows, ApproveAndMerge(q, i)
      PROVE  rows'[i].branch = g /\ rows'[i].verdict \in Granted
  BY <1>6, ApproveAndMergeKeeps
<1>7. ASSUME NEW q \in QA, NEW i \in DOMAIN rows, ApproveAndRetry(q, i)
      PROVE  \E j \in DOMAIN rows : rows'[j].branch = g /\ rows'[j].verdict \in Granted
  BY <1>7, ApproveAndRetryKeeps
<1>8. CASE Merges
  BY <1>5, <1>6, <1>7, <1>8 DEF Merges, Granted
<1> QED
  BY <1>1, <1>2, <1>3, <1>4, <1>8, StepsAre

\* The hive merges no pull request QA has never approved: a row's verdict that
\* lets it be merged outlives the claim, the requeue and the import of the row
\* (claimPhase of autoMergeApprovedPRs, approve).
THEOREM MergesAreApproved == Spec => MergesFollowApproval
<1>1. Inv /\ [Next]_vars =>
        [\A g \in Pr : gh[g] # "merged" /\ gh'[g] = "merged" =>
            \/ MergedElsewhere(g)
            \/ \E i \in DOMAIN rows : rows'[i].branch = g /\ rows'[i].verdict \in {"approved", "withdrawn"}]_vars
  BY MergeStep
<1> QED
  BY <1>1, InvHolds, PTL DEF Spec, MergesFollowApproval

\* The places of different members of a finite set of numbers differ.
LEMMA RankIsStrict ==
  ASSUME NEW n \in Nat, NEW S \in SUBSET (1 .. n), NEW x \in S, NEW y \in S, Rank(S, x) = Rank(S, y)
  PROVE  x = y
<1>1. ASSUME NEW a \in S, NEW b \in S, a < b PROVE Rank(S, a) < Rank(S, b)
  <2> DEFINE A == {z \in S : z < a}
             B == {z \in S : z < b}
  <2>1. IsFiniteSet(1 .. n)
    BY FS_Interval
  <2>2. IsFiniteSet(S)
    BY <2>1, FS_Subset
  <2>3. IsFiniteSet(A) /\ IsFiniteSet(B)
    BY <2>2, FS_Subset
  <2>4. a \notin A /\ A \cup {a} \subseteq B
    <3>1. a \in Nat /\ b \in Nat /\ \A z \in S : z \in Nat
      OBVIOUS
    <3>2. ~(a < a) /\ \A z \in S : z < a => z < b
      BY <1>1, <3>1
    <3> QED
      BY <1>1, <3>2
  <2>5. IsFiniteSet(A \cup {a}) /\ Cardinality(A \cup {a}) = Cardinality(A) + 1
    BY <2>3, <2>4, FS_AddElement
  <2>6. Cardinality(A \cup {a}) <= Cardinality(B)
    BY <2>3, <2>4, FS_Subset
  <2>7. Cardinality(A) \in Nat /\ Cardinality(B) \in Nat
    BY <2>3, FS_CardinalityType
  <2> HIDE DEF A, B
  <2>8. Cardinality(A) < Cardinality(B)
    BY <2>5, <2>6, <2>7
  <2> QED
    BY <2>8 DEF Rank, A, B
<1>2. \A a \in S : Rank(S, a) \in Nat
  <2> SUFFICES ASSUME NEW a \in S PROVE Rank(S, a) \in Nat
    OBVIOUS
  <2>1. IsFiniteSet(1 .. n)
    BY FS_Interval
  <2>2. {z \in S : z < a} \in SUBSET (1 .. n)
    OBVIOUS
  <2>3. IsFiniteSet({z \in S : z < a})
    BY <2>1, <2>2, FS_Subset
  <2> QED
    BY <2>3, FS_CardinalityType DEF Rank
<1>3. x \in Nat /\ y \in Nat /\ Rank(S, x) \in Nat /\ Rank(S, y) \in Nat
  BY <1>2
<1>4. ~(x < y) /\ ~(y < x)
  <2>1. x < y => Rank(S, x) < Rank(S, y)
    BY <1>1
  <2>2. y < x => Rank(S, y) < Rank(S, x)
    BY <1>1
  <2> QED
    BY <1>3, <2>1, <2>2
<1> QED
  BY <1>3, <1>4

LEMMA OneReviewStep ==
  ASSUME Claimants \subseteq {NoOne}, Inv, OneReviewAtATime, [Next]_vars
  PROVE  OneReviewAtATime'
<1> SUFFICES ASSUME NEW i \in DOMAIN rows', NEW j \in DOMAIN rows',
                    rows'[i].status = "reviewing", rows'[j].status = "reviewing",
                    rows'[i].reviewer = rows'[j].reviewer, rows'[i].reviewer # NoOne
             PROVE  i = j
  BY DEF OneReviewAtATime, With
<1>1. CASE UNCHANGED vars
  BY <1>1 DEF vars, OneReviewAtATime, With
<1>2. CASE Next
  <2>1. Kept /\ (HandsOut \/ NoneHandedOut)
    BY <1>2, StepKeeps
  <2>2. i \in DOMAIN rows /\ j \in DOMAIN rows
    BY <2>1 DEF Kept, RowsKept
  <2>3. CASE NoneHandedOut
    BY <2>2, <2>3 DEF NoneHandedOut, OneReviewAtATime, With
  <2>4. ASSUME NEW q \in Claimants, review(q) PROVE i = j
    <3>1. q = NoOne
      OBVIOUS
    <3>2. rows'[i] = rows[i] /\ rows'[j] = rows[j]
      BY <2>2, <2>4, <3>1, ReviewKeeps
    <3> QED
      BY <2>2, <3>2 DEF OneReviewAtATime, With
  <2>5. ASSUME NEW Idle \in SUBSET QA, notifyQAOfQueuedPRs(Idle) PROVE i = j
    <3> DEFINE Queued == With({"queued"})
               Given(k) == \E q \in Idle : /\ k \in Queued /\ Rank(Idle, q) = Rank(Queued, k)
                                           /\ Becomes(rows[k], rows'[k], "reviewing") /\ rows'[k].reviewer = q
    <3>1. \A k \in DOMAIN rows : rows'[k] = rows[k] \/ Given(k)
      BY <2>5, NotifyGives
    <3>2. \A k \in DOMAIN rows : rows[k].status = "reviewing" => rows[k].reviewer \notin Idle
      BY <2>5, NumberAssumption DEF notifyQAOfQueuedPRs, ReviewingSessions, With
    <3>3. CASE rows'[i] = rows[i] /\ rows'[j] = rows[j]
      BY <2>2, <3>3 DEF OneReviewAtATime, With
    <3>4. CASE Given(i) /\ Given(j)
      <4>1. i \in Queued /\ j \in Queued /\ Rank(Queued, i) = Rank(Queued, j)
        BY <3>4
      <4>2. Queued \in SUBSET (1 .. Len(rows)) /\ Len(rows) \in Nat
        BY InvMeans DEF With
      <4> HIDE DEF Queued
      <4> QED
        BY <4>1, <4>2, RankIsStrict
    <3>5. CASE Given(i) /\ rows'[j] = rows[j]
      BY <2>2, <3>2, <3>5
    <3>6. CASE Given(j) /\ rows'[i] = rows[i]
      BY <2>2, <3>2, <3>6
    <3> QED
      BY <2>2, <3>1, <3>3, <3>4, <3>5, <3>6
  <2> QED
    BY <2>1, <2>3, <2>4, <2>5 DEF HandsOut
<1> QED
  BY <1>1, <1>2

\* As long as no one but the manager names a reviewer, a QA session has at most
\* one review at a time (reviewingSessions of notifyQAOfQueuedPRs).
THEOREM ReviewersHaveOneReview ==
  ASSUME Claimants \subseteq {NoOne}
  PROVE  Spec => []OneReviewAtATime
<1>1. Init => OneReviewAtATime
  BY DEF Init, OneReviewAtATime, With
<1>2. Inv /\ OneReviewAtATime /\ [Next]_vars => OneReviewAtATime'
  BY OneReviewStep
<1> QED
  BY <1>1, <1>2, InvHolds, PTL DEF Spec
=============================================================================
