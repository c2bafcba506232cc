------------------------- MODULE HiveElectionProofs -------------------------
(***************************************************************************)
(* Proofs about HiveElection, for every set of nodes, configuration and    *)
(* bound.                                                                  *)
(***************************************************************************)
EXTENDS HiveElection, FiniteSetTheorems, TLAPS

-----------------------------------------------------------------------------
(***************************************************************************)
(* Type correctness                                                        *)
(***************************************************************************)

\* Abandoning requests and losing answers leaves messages behind.
LEMMA AbandonedType ==
    ASSUME NEW m \in Message, IsRequest(m)
    PROVE  Abandoned(m) \in Message
BY DEF Message, VoteRequest, VoteResponse, HeartbeatRequest, HeartbeatResponse,
       IsRequest, Abandoned

\* The fields of a message, by its type.
LEMMA MessageFields ==
    ASSUME NEW m \in Message
    PROVE  /\ m.from \in Node /\ m.to \in Node /\ m.term \in Terms
           /\ m.type = "request-vote" => m \in VoteRequest /\ m.open \in BOOLEAN
           /\ m.type = "vote-response" =>
                m.vote_granted \in BOOLEAN /\ m.leader_id \in NodeOrNone
           /\ m.type = "heartbeat" => m.peers \in SUBSET Node /\ m.open \in BOOLEAN
BY DEF Message, VoteRequest, VoteResponse, HeartbeatRequest, HeartbeatResponse

\* persistRaftState writes a durable state when the fields it writes are typed.
LEMMA PersistType ==
    ASSUME NEW n \in Node, raftStore \in [Node -> DurableState],
           currentTerm' \in [Node -> Terms], votedFor' \in [Node -> NodeOrNone],
           leaderId' \in [Node -> NodeOrNone], persistRaftState(n)
    PROVE  raftStore' \in [Node -> DurableState]
BY DEF persistRaftState, DurableState

LEMMA StepDownType ==
    ASSUME TypeOK, NEW n \in Node, NEW term \in Terms, NEW leader \in NodeOrNone,
           stepDown(n, term, leader)
    PROVE  /\ currentTerm' \in [Node -> Terms] /\ role' \in [Node -> Roles]
           /\ votedFor' \in [Node -> NodeOrNone] /\ leaderId' \in [Node -> NodeOrNone]
           /\ raftStore' \in [Node -> DurableState]
<1>1. /\ currentTerm' \in [Node -> Terms] /\ role' \in [Node -> Roles]
      /\ votedFor' \in [Node -> NodeOrNone] /\ leaderId' \in [Node -> NodeOrNone]
  BY DEF TypeOK, stepDown, Roles, NodeOrNone
<1>. QED  BY <1>1, PersistType DEF stepDown, TypeOK

\* An answer, or its absence, changes only what the ballot awaits and counts.
LEMMA BallotUpdate ==
    ASSUME NEW b \in Ballot, NEW awaiting \in SUBSET Node, NEW votes \in SUBSET Node
    PROVE  /\ [b EXCEPT !.awaiting = awaiting] \in Ballot
           /\ [b EXCEPT !.awaiting = awaiting, !.votes = votes] \in Ballot
BY DEF Ballot

\* An election that ends, by a win or not, keeps the types.
LEMMA BecomeLeaderType ==
    ASSUME TypeOK, NEW n \in Node, BecomeLeader(n)
    PROVE  /\ currentTerm' \in [Node -> Terms] /\ role' \in [Node -> Roles]
           /\ votedFor' \in [Node -> NodeOrNone] /\ leaderId' \in [Node -> NodeOrNone]
           /\ raftStore' \in [Node -> DurableState]
           /\ raftLog' \in [Node -> SUBSET LogEntry]
<1>1. /\ currentTerm' \in [Node -> Terms] /\ role' \in [Node -> Roles]
      /\ votedFor' \in [Node -> NodeOrNone] /\ leaderId' \in [Node -> NodeOrNone]
  BY DEF TypeOK, BecomeLeader, Roles, NodeOrNone
<1>2. raftStore' \in [Node -> DurableState]
  BY <1>1, PersistType DEF BecomeLeader, TypeOK
<1>3. Entry("election_won", ballot[n].term, n) \in LogEntry
  BY DEF TypeOK, Entry, LogEntry, Ballot
<1>4. raftLog' \in [Node -> SUBSET LogEntry]
  BY <1>3 DEF TypeOK, BecomeLeader, appendDurableEntries
<1>. QED  BY <1>1, <1>2, <1>4

LEMMA SettleType ==
    ASSUME TypeOK, NEW n \in Node, NEW p \in Node, NEW votes \in SUBSET Node,
           SettleRequest(n, p, votes)
    PROVE  /\ currentTerm' \in [Node -> Terms] /\ role' \in [Node -> Roles]
           /\ votedFor' \in [Node -> NodeOrNone] /\ leaderId' \in [Node -> NodeOrNone]
           /\ raftStore' \in [Node -> DurableState]
           /\ raftLog' \in [Node -> SUBSET LogEntry]
           /\ ballot' \in [Node -> Ballot]
<1>1. CASE ballot[n].awaiting \ {p} = {} /\ FinishElection(n, votes)
  <2>1. ballot' \in [Node -> Ballot]
    BY <1>1, BoundsAssumption DEF FinishElection, TypeOK, NoBallot, Ballot, Terms
  <2>2. CASE BecomeLeader(n)
    BY <2>1, <2>2, BecomeLeaderType
  <2>3. CASE UNCHANGED <<raftVars, raftStore, raftLog>>
    BY <2>1, <2>3 DEF TypeOK, raftVars
  <2>. QED  BY <1>1, <2>2, <2>3 DEF FinishElection
<1>2. CASE /\ ballot' = [ballot EXCEPT ![n].awaiting = ballot[n].awaiting \ {p},
                                       ![n].votes = votes]
           /\ UNCHANGED <<raftVars, raftStore, raftLog>>
  <2>. DEFINE settled == [ballot[n] EXCEPT !.awaiting = ballot[n].awaiting \ {p}, !.votes = votes]
  <2>1. settled \in Ballot
    <3>1. ballot[n] \in Ballot /\ ballot[n].awaiting \in SUBSET Node
      BY DEF TypeOK, Ballot
    <3>. QED  BY <3>1, BallotUpdate
  <2>2. ballot' = [ballot EXCEPT ![n] = settled]
    BY <1>2 DEF TypeOK
  <2>3. ballot' \in [Node -> Ballot]
    BY <2>1, <2>2 DEF TypeOK
  <2>. QED  BY <1>2, <2>3 DEF TypeOK, raftVars
<1>. QED  BY <1>1, <1>2 DEF SettleRequest

LEMMA StartFromType ==
    ASSUME TypeOK, NEW n \in Node, NEW state \in DurableState, NEW pending \in SUBSET Message,
           StartFrom(n, state, pending)
    PROVE  /\ currentTerm' \in [Node -> Terms] /\ role' \in [Node -> Roles]
           /\ votedFor' \in [Node -> NodeOrNone] /\ leaderId' \in [Node -> NodeOrNone]
           /\ peers' \in [Node -> SUBSET Node] /\ isCatchingUp' \in [Node -> BOOLEAN]
           /\ ballot' \in [Node -> Ballot] /\ msgs' \subseteq Message
<1>1. /\ currentTerm' \in [Node -> Terms] /\ role' \in [Node -> Roles]
      /\ votedFor' \in [Node -> NodeOrNone] /\ leaderId' \in [Node -> NodeOrNone]
  BY DEF TypeOK, StartFrom, Roles, DurableState
<1>2. peers' \in [Node -> SUBSET Node] /\ isCatchingUp' \in [Node -> BOOLEAN]
  BY PeersAssumption DEF TypeOK, StartFrom
<1>3. ballot' \in [Node -> Ballot]
  BY BoundsAssumption DEF TypeOK, StartFrom, NoBallot, Ballot, Terms
<1>4. msgs' \subseteq Message
  BY AbandonedType DEF StartFrom
<1>. QED  BY <1>1, <1>2, <1>3, <1>4

(***************************************************************************)
(* Every step keeps the types: one step per action of Next.                *)
(***************************************************************************)
LEMMA TypeStep == TypeOK /\ [Next]_vars => TypeOK'
<1>. SUFFICES ASSUME TypeOK, [Next]_vars PROVE TypeOK'
  OBVIOUS
<1>1. ASSUME NEW n \in Node, StartElection(n) PROVE TypeOK'
  <2>1. NextTerm(n) \in Terms
    BY <1>1, BoundsAssumption DEF TypeOK, StartElection, NextTerm, MayCampaign, Terms
  <2>2. /\ currentTerm' \in [Node -> Terms] /\ role' \in [Node -> Roles]
        /\ votedFor' \in [Node -> NodeOrNone] /\ leaderId' \in [Node -> NodeOrNone]
    BY <1>1, <2>1 DEF TypeOK, StartElection, Roles, NodeOrNone
  <2>3. raftStore' \in [Node -> DurableState]
    BY <1>1, <2>2, PersistType DEF TypeOK, StartElection
  <2>4. raftLog' \in [Node -> SUBSET LogEntry]
    BY <1>1, <2>1 DEF TypeOK, StartElection, appendDurableEntries, Entry, LogEntry
  <2>5. ballot' \in [Node -> Ballot]
    BY <1>1, <2>1 DEF TypeOK, StartElection, Ballot
  <2>6. msgs' \subseteq Message
    BY <1>1, <2>1 DEF TypeOK, StartElection, Message, VoteRequest
  <2>. QED  BY <1>1, <2>2, <2>3, <2>4, <2>5, <2>6 DEF TypeOK, StartElection
<1>2. ASSUME NEW n \in Node, CampaignAlone(n) PROVE TypeOK'
  <2>1. NextTerm(n) \in Terms
    BY <1>2, BoundsAssumption DEF TypeOK, CampaignAlone, NextTerm, MayCampaign, Terms
  <2>2. /\ currentTerm' \in [Node -> Terms] /\ role' \in [Node -> Roles]
        /\ votedFor' \in [Node -> NodeOrNone] /\ leaderId' \in [Node -> NodeOrNone]
    BY <1>2, <2>1 DEF TypeOK, CampaignAlone, Roles, NodeOrNone
  <2>3. raftStore' \in [Node -> DurableState]
    BY <1>2, <2>2, PersistType DEF TypeOK, CampaignAlone
  <2>4. raftLog' \in [Node -> SUBSET LogEntry]
    BY <1>2, <2>1 DEF TypeOK, CampaignAlone, appendDurableEntries, Entry, LogEntry
  <2>. QED  BY <1>2, <2>2, <2>3, <2>4 DEF TypeOK, CampaignAlone
<1>3. ASSUME NEW n \in Node, SendHeartbeats(n) PROVE TypeOK'
  <2>1. msgs' \subseteq Message
    BY <1>3 DEF TypeOK, SendHeartbeats, Message, HeartbeatRequest
  <2>. QED  BY <1>3, <2>1 DEF TypeOK, SendHeartbeats, raftVars
<1>4. ASSUME NEW n \in Node, BeginCatchUp(n) \/ EndCatchUp(n) PROVE TypeOK'
  BY <1>4 DEF TypeOK, BeginCatchUp, EndCatchUp, raftVars
<1>5. ASSUME NEW n \in Node, Restart(n) PROVE TypeOK'
  <2>1. raftStore[n] \in DurableState /\ msgs \in SUBSET Message
    BY DEF TypeOK
  <2>. QED  BY <1>5, <2>1, StartFromType DEF TypeOK, Restart
<1>6. ASSUME NEW n \in Node, NEW p \in Node, VoteRequestFails(n, p) PROVE TypeOK'
  <2>1. ballot[n].votes \in SUBSET Node
    BY DEF TypeOK, Ballot
  <2>2. msgs' \subseteq Message
    BY <1>6, AbandonedType DEF TypeOK, VoteRequestFails, IsRequest
  <2>. QED  BY <1>6, <2>1, <2>2, SettleType DEF TypeOK, VoteRequestFails
<1>7. ASSUME NEW n \in Node, NEW m \in msgs, HandleVoteRequest(n, m) PROVE TypeOK'
  <2>1. m \in Message /\ m.from \in Node /\ m.term \in Terms
    BY MessageFields DEF TypeOK
  <2>2. /\ currentTerm' \in [Node -> Terms] /\ role' \in [Node -> Roles]
        /\ leaderId' \in [Node -> NodeOrNone]
    BY <1>7, <2>1 DEF TypeOK, HandleVoteRequest, Roles, NodeOrNone
  <2>3. /\ votedFor' \in [Node -> NodeOrNone] /\ raftStore' \in [Node -> DurableState]
    BY <1>7, <2>1, <2>2, PersistType DEF TypeOK, HandleVoteRequest, NodeOrNone
  <2>4. raftLog' \in [Node -> SUBSET LogEntry]
    BY <1>7, <2>1 DEF TypeOK, HandleVoteRequest, appendDurableEntries, Entry, LogEntry
  <2>5. msgs' \subseteq Message
    <3>. DEFINE response == [type |-> "vote-response", from |-> n, to |-> m.from,
                             request |-> m.term, term |-> currentTerm'[n],
                             vote_granted |-> CanVote(n, m), leader_id |-> leaderId'[n]]
    <3>1. response \in Message
      <4>1. CanVote(n, m) \in BOOLEAN
        BY DEF CanVote
      <4>. QED  BY <2>1, <2>2, <4>1 DEF Message, VoteResponse
    <3>2. msgs' = Answer(m, response)
      BY <1>7 DEF HandleVoteRequest
    <3>. QED  BY <3>1, <3>2 DEF TypeOK, Answer
  <2>. QED  BY <1>7, <2>2, <2>3, <2>4, <2>5 DEF TypeOK, HandleVoteRequest
<1>8. ASSUME NEW n \in Node, NEW m \in msgs, DieWhileVoting(n, m) PROVE TypeOK'
  <2>. DEFINE deposed == [current_term |-> m.term, voted_for |-> None, leader_id |-> None]
  <2>1. deposed \in DurableState /\ msgs \ {m} \in SUBSET Message
    BY MessageFields DEF TypeOK, DurableState, NodeOrNone
  <2>2. raftStore' \in [Node -> DurableState]
    BY <1>8, <2>1 DEF TypeOK, DieWhileVoting
  <2>. QED  BY <1>8, <2>1, <2>2, StartFromType DEF TypeOK, DieWhileVoting
<1>9. ASSUME NEW n \in Node, NEW m \in msgs, DeposedByVoteResponse(n, m) PROVE TypeOK'
  <2>1. m.term \in Terms /\ m.leader_id \in NodeOrNone
    BY <1>9, MessageFields DEF TypeOK, DeposedByVoteResponse, Awaited
  <2>2. ballot' \in [Node -> Ballot]
    <3>1. BallotWithout(n, m.from) \in Ballot
      <4>1. ballot[n] \in Ballot /\ ballot[n].awaiting \ {m.from} \in SUBSET Node
        BY DEF TypeOK, Ballot
      <4>2. NoBallot \in Ballot
        BY BoundsAssumption DEF NoBallot, Ballot, Terms
      <4>. QED  BY <4>1, <4>2, BallotUpdate DEF BallotWithout
    <3>. QED  BY <1>9, <3>1 DEF TypeOK, DeposedByVoteResponse
  <2>. QED  BY <1>9, <2>1, <2>2, StepDownType DEF TypeOK, DeposedByVoteResponse
<1>10. ASSUME NEW n \in Node, NEW m \in msgs, HandleVoteResponse(n, m) PROVE TypeOK'
  <2>. DEFINE votes == ballot[n].votes \cup (IF CountsVote(n, m) THEN {m.from} ELSE {})
  <2>1. m.from \in Node /\ votes \in SUBSET Node
    BY MessageFields DEF TypeOK, Ballot
  <2>2. SettleRequest(n, m.from, votes)
    BY <1>10 DEF HandleVoteResponse
  <2>. QED  BY <1>10, <2>1, <2>2, SettleType DEF TypeOK, HandleVoteResponse
<1>11. ASSUME NEW n \in Node, NEW m \in msgs, RejectHeartbeat(n, m) PROVE TypeOK'
  <2>1. msgs' \subseteq Message
    BY <1>11, MessageFields DEF TypeOK, RejectHeartbeat, Message, HeartbeatResponse
  <2>. QED  BY <1>11, <2>1 DEF TypeOK, RejectHeartbeat, raftVars
<1>12. ASSUME NEW n \in Node, NEW m \in msgs, AcceptHeartbeat(n, m) PROVE TypeOK'
  <2>1. m.from \in Node /\ m.term \in Terms /\ m.peers \in SUBSET Node
    BY <1>12, MessageFields DEF TypeOK, AcceptHeartbeat
  <2>2. /\ currentTerm' \in [Node -> Terms] /\ role' \in [Node -> Roles]
        /\ votedFor' \in [Node -> NodeOrNone] /\ leaderId' \in [Node -> NodeOrNone]
    BY <1>12, <2>1 DEF TypeOK, AcceptHeartbeat, Roles, NodeOrNone
  <2>3. raftStore' \in [Node -> DurableState]
    BY <1>12, <2>2, PersistType DEF TypeOK, AcceptHeartbeat
  <2>4. peers' \in [Node -> SUBSET Node]
    BY <1>12, <2>1 DEF TypeOK, AcceptHeartbeat
  <2>. QED  BY <1>12, <2>2, <2>3, <2>4 DEF TypeOK, AcceptHeartbeat
<1>13. ASSUME NEW n \in Node, NEW m \in msgs, HandleHeartbeatResponse(n, m) PROVE TypeOK'
  <2>1. m.term \in Terms /\ m.from \in NodeOrNone
    BY MessageFields DEF TypeOK, NodeOrNone
  <2>2. CASE stepDown(n, m.term, m.from)
    BY <1>13, <2>1, <2>2, StepDownType DEF TypeOK, HandleHeartbeatResponse
  <2>3. CASE UNCHANGED <<raftVars, raftStore>>
    BY <1>13, <2>3 DEF TypeOK, HandleHeartbeatResponse, raftVars
  <2>. QED  BY <1>13, <2>2, <2>3 DEF HandleHeartbeatResponse
<1>14. CASE UNCHANGED vars
  BY <1>14 DEF TypeOK, vars
<1>. QED  BY <1>1, <1>2, <1>3, <1>4, <1>5, <1>6, <1>7, <1>8, <1>9, <1>10, <1>11,
             <1>12, <1>13, <1>14 DEF Next

\* The types hold in every reachable state.
THEOREM TypeCorrect == Spec => []TypeOK
<1>1. Init => TypeOK
  BY BoundsAssumption, PeersAssumption
     DEF Init, TypeOK, Terms, Roles, NodeOrNone, Ballot, NoBallot, DurableState
<1>. QED  BY <1>1, TypeStep, PTL DEF Spec

-----------------------------------------------------------------------------
(***************************************************************************)
(* One vote per term                                                       *)
(***************************************************************************)

LEMMA EntriesDiffer ==
    ASSUME NEW k1, NEW t1, NEW c1, NEW k2, NEW t2, NEW c2, Entry(k1, t1, c1) = Entry(k2, t2, c2)
    PROVE  k1 = k2 /\ t1 = t2 /\ c1 = c2
BY DEF Entry

\* What a node that a step does not touch keeps.
LEMMA OtherNode ==
    ASSUME NEW x \in Node, NodeInv(x), currentTerm'[x] = currentTerm[x],
           votedFor'[x] = votedFor[x], leaderId'[x] = leaderId[x],
           raftStore'[x] = raftStore[x], raftLog'[x] = raftLog[x]
    PROVE  NodeInv(x)'
BY DEF NodeInv, StoreIsCurrent, LogIsBehindTerm, VoteIsKept, OneVoteUnlessWon, VotedFor, Won

\* A new term begins with no votes in the log.
LEMMA NoVoteInNewTerm ==
    ASSUME TypeOK, NEW n \in Node, NodeInv(n), NEW term \in Terms, term > currentTerm[n],
           NEW c \in Node
    PROVE  ~VotedFor(n, term, c) /\ ~Won(n, term)
<1>1. ASSUME NEW k, NEW d, Entry(k, term, d) \in raftLog[n] PROVE FALSE
  <2>1. Entry(k, term, d).term <= currentTerm[n]
    BY <1>1 DEF NodeInv, LogIsBehindTerm
  <2>. QED  BY <2>1 DEF Entry, TypeOK, Terms
<1>. QED  BY <1>1 DEF VotedFor, Won

\* Entering a later term without a vote.
LEMMA NewTermWithoutVote ==
    ASSUME TypeOK, TypeOK', NEW n \in Node, NodeInv(n), currentTerm'[n] > currentTerm[n],
           StoreIsCurrent(n)', raftLog'[n] = raftLog[n]
    PROVE  NodeInv(n)'
<1>1. LogIsBehindTerm(n)'
  BY DEF NodeInv, LogIsBehindTerm, TypeOK, Terms, LogEntry
<1>2. \A c \in Node : ~VotedFor(n, currentTerm[n], c)'
  <2>1. currentTerm'[n] \in Terms
    BY DEF TypeOK
  <2>2. \A c \in Node : ~VotedFor(n, currentTerm'[n], c)
    BY <2>1, NoVoteInNewTerm
  <2>. QED  BY <2>2 DEF VotedFor
<1>3. VoteIsKept(n)'
  BY <1>2 DEF VoteIsKept
<1>4. OneVoteUnlessWon(n)'
  BY DEF NodeInv, OneVoteUnlessWon, VotedFor, Won
<1>. QED  BY <1>1, <1>3, <1>4 DEF NodeInv

\* Winning, in the term the node is in.
LEMMA WinningStep ==
    ASSUME TypeOK, TypeOK', NEW n \in Node, NodeInv(n), currentTerm'[n] = currentTerm[n],
           StoreIsCurrent(n)',
           raftLog'[n] = raftLog[n] \cup {Entry("election_won", currentTerm[n], n)}
    PROVE  NodeInv(n)'
<1>1. LogIsBehindTerm(n)'
  BY DEF NodeInv, LogIsBehindTerm, TypeOK, Terms, Entry
<1>2. Won(n, currentTerm[n])'
  BY DEF Won
<1>3. \A term \in Terms, c \in Node : VotedFor(n, term, c)' => VotedFor(n, term, c)
  BY EntriesDiffer DEF VotedFor
<1>4. \A term \in Terms : Won(n, term) => Won(n, term)'
  BY DEF Won
<1>5. OneVoteUnlessWon(n)'
  BY <1>3, <1>4 DEF NodeInv, OneVoteUnlessWon
<1>. QED  BY <1>1, <1>2, <1>5 DEF NodeInv, VoteIsKept

\* Casting a vote for c that does not contradict the log: in a new term, or in
\* the present one when votedFor is free or c's already.
LEMMA VotingStep ==
    ASSUME TypeOK, TypeOK', NEW n \in Node, NodeInv(n), NEW c \in Node,
           NEW e, e = Entry("vote_granted", currentTerm'[n], c) \/
                  (c = n /\ e = Entry("election_start", currentTerm'[n], n)),
           \/ currentTerm'[n] > currentTerm[n]
           \/ currentTerm'[n] = currentTerm[n] /\ votedFor[n] \in {None, c},
           votedFor'[n] = c, StoreIsCurrent(n)', raftLog'[n] = raftLog[n] \cup {e}
    PROVE  NodeInv(n)'
<1>1. LogIsBehindTerm(n)'
  BY DEF NodeInv, LogIsBehindTerm, TypeOK, Terms, Entry, LogEntry
<1>2. ASSUME NEW d \in Node, VotedFor(n, currentTerm'[n], d)
      PROVE  d = c \/ Won(n, currentTerm'[n])
  <2>1. CASE currentTerm'[n] > currentTerm[n]
    BY <1>2, <2>1, NoVoteInNewTerm DEF TypeOK
  <2>2. CASE currentTerm'[n] = currentTerm[n] /\ votedFor[n] \in {None, c}
    BY <1>2, <2>2, NodeAssumption DEF NodeInv, VoteIsKept
  <2>. QED  BY <2>1, <2>2
<1>3. ASSUME NEW term \in Terms, NEW d \in Node, VotedFor(n, term, d)'
      PROVE  VotedFor(n, term, d) \/ (term = currentTerm'[n] /\ d = c)
  BY <1>3, EntriesDiffer DEF VotedFor
<1>4. \A term \in Terms : Won(n, term) => Won(n, term)'
  BY DEF Won
<1>5. VoteIsKept(n)'
  BY <1>2, <1>3, <1>4 DEF VoteIsKept, TypeOK
<1>6. ASSUME NEW d1 \in Node, NEW d2 \in Node, NEW term \in Terms, d1 # d2,
             VotedFor(n, term, d1)', VotedFor(n, term, d2)'
      PROVE  Won(n, term)'
  <2>1. CASE VotedFor(n, term, d1) /\ VotedFor(n, term, d2)
    BY <1>4, <1>6, <2>1 DEF NodeInv, OneVoteUnlessWon
  <2>2. CASE term = currentTerm'[n]
    BY <1>2, <1>3, <1>4, <1>6, <2>2
  <2>. QED  BY <1>3, <1>6, <2>1, <2>2
<1>. QED  BY <1>1, <1>5, <1>6 DEF NodeInv, OneVoteUnlessWon

\* What FinishElection and stepDown do to the fields NodeInv reads.
LEMMA StepDownStep ==
    ASSUME TypeOK, TypeOK', \A x \in Node : NodeInv(x), NEW n \in Node, NEW term, NEW leader,
           term > currentTerm[n], stepDown(n, term, leader), UNCHANGED raftLog
    PROVE  \A x \in Node : NodeInv(x)'
<1>1. NodeInv(n)'
  <2>1. currentTerm'[n] = term /\ StoreIsCurrent(n)'
    BY DEF TypeOK, stepDown, persistRaftState, StoreIsCurrent
  <2>. QED  BY <2>1, NewTermWithoutVote
<1>2. ASSUME NEW x \in Node, x # n PROVE NodeInv(x)'
  BY <1>2, OtherNode DEF TypeOK, stepDown, persistRaftState
<1>. QED  BY <1>1, <1>2

LEMMA SettleStep ==
    ASSUME TypeOK, TypeOK', \A x \in Node : NodeInv(x), NEW n \in Node, NEW p \in Node,
           NEW votes, SettleRequest(n, p, votes)
    PROVE  \A x \in Node : NodeInv(x)'
<1>1. CASE WinsElection(n, votes) /\ BecomeLeader(n)
  <2>1. NodeInv(n)'
    <3>1. currentTerm'[n] = currentTerm[n] /\ StoreIsCurrent(n)'
      BY <1>1 DEF TypeOK, BecomeLeader, persistRaftState, StoreIsCurrent
    <3>2. raftLog'[n] = raftLog[n] \cup {Entry("election_won", currentTerm[n], n)}
      BY <1>1 DEF TypeOK, WinsElection, BecomeLeader, appendDurableEntries
    <3>. QED  BY <3>1, <3>2, WinningStep
  <2>2. ASSUME NEW x \in Node, x # n PROVE NodeInv(x)'
    BY <1>1, <2>2, OtherNode DEF TypeOK, BecomeLeader, persistRaftState, appendDurableEntries
  <2>. QED  BY <2>1, <2>2
<1>2. CASE UNCHANGED <<raftVars, raftStore, raftLog>>
  BY <1>2, OtherNode DEF raftVars
<1>. QED  BY <1>1, <1>2 DEF SettleRequest, FinishElection

(***************************************************************************)
(* Every step keeps NodeInv.                                               *)
(***************************************************************************)
LEMMA VoteStep == VoteInv /\ [Next]_vars => VoteInv'
<1>. SUFFICES ASSUME VoteInv, [Next]_vars PROVE \A x \in Node : NodeInv(x)'
  BY TypeStep DEF VoteInv
<1>. USE DEF VoteInv
<1>0. TypeOK'
  BY TypeStep
<1>1. ASSUME NEW n \in Node, StartElection(n) PROVE \A x \in Node : NodeInv(x)'
  <2>1. NodeInv(n)'
    <3>1. currentTerm'[n] > currentTerm[n] /\ votedFor'[n] = n /\ StoreIsCurrent(n)'
      BY <1>1 DEF TypeOK, Terms, StartElection, NextTerm, persistRaftState, StoreIsCurrent
    <3>2. raftLog'[n] = raftLog[n] \cup {Entry("election_start", currentTerm'[n], n)}
      BY <1>1 DEF TypeOK, StartElection, appendDurableEntries
    <3>. QED  BY <1>0, <3>1, <3>2, VotingStep
  <2>2. ASSUME NEW x \in Node, x # n PROVE NodeInv(x)'
    BY <1>1, <2>2, OtherNode DEF TypeOK, StartElection, persistRaftState, appendDurableEntries
  <2>. QED  BY <2>1, <2>2
<1>2. ASSUME NEW n \in Node, CampaignAlone(n) PROVE \A x \in Node : NodeInv(x)'
  <2>1. NodeInv(n)'
    <3>1. currentTerm'[n] > currentTerm[n] /\ StoreIsCurrent(n)'
      BY <1>2 DEF TypeOK, Terms, CampaignAlone, NextTerm, persistRaftState, StoreIsCurrent
    <3>2. CASE QuorumSize(n) <= 1
      <4>1. raftLog'[n] = raftLog[n] \cup {Entry("election_start", currentTerm'[n], n),
                                           Entry("election_won", currentTerm'[n], n)}
        BY <1>2, <3>2 DEF TypeOK, CampaignAlone, appendDurableEntries
      <4>2. LogIsBehindTerm(n)'
        BY <1>0, <3>1, <4>1 DEF NodeInv, LogIsBehindTerm, TypeOK, Terms, Entry, LogEntry
      <4>3. Won(n, currentTerm[n])' /\ \A t \in Terms : Won(n, t) => Won(n, t)'
        BY <4>1 DEF Won
      <4>4. \A t \in Terms, c \in Node :
                VotedFor(n, t, c)' => VotedFor(n, t, c) \/ t = currentTerm'[n]
        BY <4>1, EntriesDiffer DEF VotedFor
      <4>5. OneVoteUnlessWon(n)'
        BY <4>3, <4>4 DEF NodeInv, OneVoteUnlessWon
      <4>. QED  BY <3>1, <4>2, <4>3, <4>5 DEF NodeInv, VoteIsKept
    <3>3. CASE ~(QuorumSize(n) <= 1)
      <4>1. votedFor'[n] = n
        BY <1>2, <3>3 DEF TypeOK, CampaignAlone
      <4>2. raftLog'[n] = raftLog[n] \cup {Entry("election_start", currentTerm'[n], n)}
        BY <1>2, <3>3 DEF TypeOK, CampaignAlone, appendDurableEntries
      <4>. QED  BY <1>0, <3>1, <4>1, <4>2, VotingStep
    <3>. QED  BY <3>2, <3>3
  <2>2. ASSUME NEW x \in Node, x # n PROVE NodeInv(x)'
    BY <1>2, <2>2, OtherNode DEF TypeOK, CampaignAlone, persistRaftState, appendDurableEntries
  <2>. QED  BY <2>1, <2>2
<1>3. ASSUME NEW n \in Node, Restart(n) PROVE \A x \in Node : NodeInv(x)'
  <2>1. \A x \in Node : /\ currentTerm'[x] = currentTerm[x] /\ votedFor'[x] = votedFor[x]
                        /\ leaderId'[x] = leaderId[x] /\ UNCHANGED <<raftStore, raftLog>>
    BY <1>3 DEF TypeOK, Restart, StartFrom, NodeInv, StoreIsCurrent
  <2>. QED  BY <2>1, OtherNode
<1>4. ASSUME NEW n \in Node, NEW p \in Node, VoteRequestFails(n, p)
      PROVE  \A x \in Node : NodeInv(x)'
  BY <1>0, <1>4, SettleStep DEF VoteRequestFails
<1>5. ASSUME NEW n \in Node, NEW m \in msgs, HandleVoteRequest(n, m)
      PROVE  \A x \in Node : NodeInv(x)'
  <2>0. m.from \in Node /\ m.term \in Terms
    BY MessageFields DEF TypeOK
  <2>1. NodeInv(n)'
    <3>1. CASE CanVote(n, m)
      <4>1. /\ currentTerm'[n] = m.term /\ votedFor'[n] = m.from /\ StoreIsCurrent(n)'
            /\ \/ currentTerm'[n] > currentTerm[n]
               \/ currentTerm'[n] = currentTerm[n] /\ votedFor[n] \in {None, m.from}
        BY <1>5, <2>0, <3>1
           DEF TypeOK, Terms, HandleVoteRequest, CanVote, persistRaftState, StoreIsCurrent
      <4>2. raftLog'[n] = raftLog[n] \cup {Entry("vote_granted", currentTerm'[n], m.from)}
        BY <1>5, <3>1, <4>1 DEF TypeOK, HandleVoteRequest, appendDurableEntries
      <4>. QED  BY <1>0, <2>0, <4>1, <4>2, VotingStep
    <3>2. CASE ~CanVote(n, m)
      BY <1>5, <3>2, OtherNode DEF HandleVoteRequest, CanVote
    <3>. QED  BY <3>1, <3>2
  <2>2. ASSUME NEW x \in Node, x # n PROVE NodeInv(x)'
    BY <1>5, <2>2, OtherNode DEF TypeOK, HandleVoteRequest, persistRaftState, appendDurableEntries
  <2>. QED  BY <2>1, <2>2
<1>6. ASSUME NEW n \in Node, NEW m \in msgs, DieWhileVoting(n, m)
      PROVE  \A x \in Node : NodeInv(x)'
  <2>1. NodeInv(n)'
    <3>1. currentTerm'[n] = m.term /\ StoreIsCurrent(n)'
      BY <1>6 DEF TypeOK, DieWhileVoting, StartFrom, StoreIsCurrent
    <3>. QED  BY <1>0, <1>6, <3>1, NewTermWithoutVote DEF DieWhileVoting
  <2>2. ASSUME NEW x \in Node, x # n PROVE NodeInv(x)'
    BY <1>6, <2>2, OtherNode DEF TypeOK, DieWhileVoting, StartFrom
  <2>. QED  BY <2>1, <2>2
<1>7. ASSUME NEW n \in Node, NEW m \in msgs, DeposedByVoteResponse(n, m)
      PROVE  \A x \in Node : NodeInv(x)'
  BY <1>0, <1>7, StepDownStep DEF DeposedByVoteResponse
<1>8. ASSUME NEW n \in Node, NEW m \in msgs, HandleVoteResponse(n, m)
      PROVE  \A x \in Node : NodeInv(x)'
  <2>1. m.from \in Node
    BY MessageFields DEF TypeOK
  <2>. QED  BY <1>0, <1>8, <2>1, SettleStep DEF HandleVoteResponse
<1>9. ASSUME NEW n \in Node, NEW m \in msgs, AcceptHeartbeat(n, m)
      PROVE  \A x \in Node : NodeInv(x)'
  <2>0. m.from \in Node /\ m.term \in Terms
    BY MessageFields DEF TypeOK
  <2>1. /\ currentTerm'[n] = m.term /\ StoreIsCurrent(n)' /\ UNCHANGED raftLog
        /\ m.term = currentTerm[n] => votedFor'[n] = votedFor[n]
    BY <1>9, <2>0 DEF TypeOK, Terms, AcceptHeartbeat, persistRaftState, StoreIsCurrent
  <2>2. NodeInv(n)'
    <3>1. CASE m.term > currentTerm[n]
      BY <1>0, <2>1, <3>1, NewTermWithoutVote
    <3>2. CASE m.term = currentTerm[n]
      BY <2>1, <3>2 DEF NodeInv, LogIsBehindTerm, VoteIsKept, OneVoteUnlessWon, VotedFor, Won
    <3>. QED  BY <1>9, <2>0, <3>1, <3>2 DEF AcceptHeartbeat, IsCurrent, TypeOK, Terms
  <2>3. ASSUME NEW x \in Node, x # n PROVE NodeInv(x)'
    BY <1>9, <2>3, OtherNode DEF TypeOK, AcceptHeartbeat, persistRaftState
  <2>. QED  BY <2>2, <2>3
<1>10. ASSUME NEW n \in Node, NEW m \in msgs, HandleHeartbeatResponse(n, m)
       PROVE  \A x \in Node : NodeInv(x)'
  <2>1. CASE TellsOfNewTerm(n, m) /\ stepDown(n, m.term, m.from)
    BY <1>0, <1>10, <2>1, StepDownStep DEF HandleHeartbeatResponse, TellsOfNewTerm
  <2>2. CASE UNCHANGED <<raftVars, raftStore>>
    BY <1>10, <2>2, OtherNode DEF HandleHeartbeatResponse, raftVars
  <2>. QED  BY <1>10, <2>1, <2>2 DEF HandleHeartbeatResponse
<1>11. ASSUME NEW n \in Node,
              \/ SendHeartbeats(n) \/ BeginCatchUp(n) \/ EndCatchUp(n)
              \/ \E m \in msgs : RejectHeartbeat(n, m)
       PROVE  \A x \in Node : NodeInv(x)'
  BY <1>11, OtherNode DEF SendHeartbeats, BeginCatchUp, EndCatchUp, RejectHeartbeat, raftVars
<1>12. CASE UNCHANGED vars
  BY <1>12, OtherNode DEF vars
<1>. QED  BY <1>1, <1>2, <1>3, <1>4, <1>5, <1>6, <1>7, <1>8, <1>9, <1>10, <1>11, <1>12 DEF Next

LEMMA VoteInvariant == Spec => []VoteInv
<1>1. Init => VoteInv
  <2>1. Init => TypeOK
    BY BoundsAssumption, PeersAssumption
       DEF Init, TypeOK, Terms, Roles, NodeOrNone, Ballot, NoBallot, DurableState
  <2>2. Init => \A n \in Node : NodeInv(n)
    BY DEF Init, NodeInv, StoreIsCurrent, LogIsBehindTerm, VoteIsKept, OneVoteUnlessWon, VotedFor, Won
  <2>. QED  BY <2>1, <2>2 DEF VoteInv
<1>. QED  BY <1>1, VoteStep, PTL DEF Spec

(***************************************************************************)
(* A node votes twice in a term only if it won it: from the invariant that *)
(* a node's log and its votedFor agree on the term it is in.               *)
(***************************************************************************)
THEOREM VotesOncePerTerm == Spec => []OneVotePerTermUnlessWon
<1>1. VoteInv => OneVotePerTermUnlessWon
  BY DEF VoteInv, NodeInv, OneVoteUnlessWon, OneVotePerTermUnlessWon
<1>. QED  BY <1>1, VoteInvariant, PTL

-----------------------------------------------------------------------------
(***************************************************************************)
(* Terms and votes survive                                                 *)
(***************************************************************************)

LEMMA StepDownKeeps ==
    ASSUME TypeOK, NEW n \in Node, NEW term \in Terms, NEW leader,
           term > currentTerm[n], stepDown(n, term, leader)
    PROVE  \A x \in Node : KeepsTermAndVote(x)
BY DEF TypeOK, Terms, stepDown, KeepsTermAndVote

LEMMA SettleKeeps ==
    ASSUME TypeOK, NEW n \in Node, NEW p, NEW votes, SettleRequest(n, p, votes)
    PROVE  \A x \in Node : KeepsTermAndVote(x)
<1>1. CASE BecomeLeader(n)
  BY <1>1 DEF TypeOK, Terms, BecomeLeader, KeepsTermAndVote
<1>2. CASE UNCHANGED <<raftVars, raftStore, raftLog>>
  BY <1>2 DEF TypeOK, Terms, raftVars, KeepsTermAndVote
<1>. QED  BY <1>1, <1>2 DEF SettleRequest, FinishElection

LEMMA KeepStep == VoteInv /\ [Next]_vars => \A x \in Node : KeepsTermAndVote(x)
<1>. SUFFICES ASSUME VoteInv, [Next]_vars PROVE \A x \in Node : KeepsTermAndVote(x)
  OBVIOUS
<1>0. TypeOK
  BY DEF VoteInv
<1>1. ASSUME NEW n \in Node, StartElection(n) \/ CampaignAlone(n)
      PROVE  \A x \in Node : KeepsTermAndVote(x)
  <2>1. /\ currentTerm'[n] = currentTerm[n] + 1
        /\ \A x \in Node \ {n} : currentTerm'[x] = currentTerm[x] /\ votedFor'[x] = votedFor[x]
    <3>1. CASE StartElection(n)
      BY <1>0, <3>1 DEF TypeOK, StartElection, NextTerm
    <3>2. CASE CampaignAlone(n)
      BY <1>0, <3>2 DEF TypeOK, CampaignAlone, NextTerm
    <3>. QED  BY <1>1, <3>1, <3>2
  <2>. QED  BY <1>0, <2>1 DEF TypeOK, Terms, KeepsTermAndVote
<1>2. ASSUME NEW n \in Node, Restart(n) PROVE \A x \in Node : KeepsTermAndVote(x)
  <2>1. \A x \in Node : currentTerm'[x] = currentTerm[x] /\ votedFor'[x] = votedFor[x]
    BY <1>0, <1>2 DEF VoteInv, TypeOK, Restart, StartFrom, NodeInv, StoreIsCurrent
  <2>. QED  BY <1>0, <2>1 DEF TypeOK, Terms, KeepsTermAndVote
<1>3. ASSUME NEW n \in Node, NEW p \in Node, VoteRequestFails(n, p)
      PROVE  \A x \in Node : KeepsTermAndVote(x)
  BY <1>0, <1>3, SettleKeeps DEF VoteRequestFails
<1>4. ASSUME NEW n \in Node, NEW m \in msgs,
             \/ HandleVoteRequest(n, m) \/ DieWhileVoting(n, m) \/ AcceptHeartbeat(n, m)
      PROVE  \A x \in Node : KeepsTermAndVote(x)
  <2>1. m.term \in Terms
    BY <1>0, MessageFields DEF TypeOK
  <2>2. CASE HandleVoteRequest(n, m)
    BY <1>0, <2>1, <2>2 DEF TypeOK, Terms, HandleVoteRequest, CanVote, KeepsTermAndVote
  <2>3. CASE DieWhileVoting(n, m)
    BY <1>0, <2>1, <2>3 DEF TypeOK, Terms, DieWhileVoting, StartFrom, KeepsTermAndVote
  <2>4. CASE AcceptHeartbeat(n, m)
    BY <1>0, <2>1, <2>4 DEF TypeOK, Terms, AcceptHeartbeat, IsCurrent, KeepsTermAndVote
  <2>. QED  BY <1>4, <2>2, <2>3, <2>4
<1>5. ASSUME NEW n \in Node, NEW m \in msgs,
             DeposedByVoteResponse(n, m) \/ HandleHeartbeatResponse(n, m)
      PROVE  \A x \in Node : KeepsTermAndVote(x)
  <2>1. m.term \in Terms
    BY <1>0, MessageFields DEF TypeOK
  <2>2. CASE UNCHANGED <<raftVars, raftStore>>
    BY <1>0, <2>2 DEF TypeOK, Terms, raftVars, KeepsTermAndVote
  <2>. QED  BY <1>0, <1>5, <2>1, <2>2, StepDownKeeps
            DEF DeposedByVoteResponse, HandleHeartbeatResponse, TellsOfNewTerm
<1>6. ASSUME NEW n \in Node, NEW m \in msgs, HandleVoteResponse(n, m)
      PROVE  \A x \in Node : KeepsTermAndVote(x)
  BY <1>0, <1>6, SettleKeeps DEF HandleVoteResponse
<1>7. ASSUME NEW n \in Node,
             \/ SendHeartbeats(n) \/ BeginCatchUp(n) \/ EndCatchUp(n)
             \/ \E m \in msgs : RejectHeartbeat(n, m)
      PROVE  \A x \in Node : KeepsTermAndVote(x)
  <2>1. UNCHANGED <<currentTerm, votedFor>>
    BY <1>7 DEF SendHeartbeats, BeginCatchUp, EndCatchUp, RejectHeartbeat, raftVars
  <2>. QED  BY <1>0, <2>1 DEF TypeOK, Terms, KeepsTermAndVote
<1>8. CASE UNCHANGED vars
  BY <1>0, <1>8 DEF TypeOK, Terms, vars, KeepsTermAndVote
<1>. QED  BY <1>1, <1>2, <1>3, <1>4, <1>5, <1>6, <1>7, <1>8 DEF Next

\* No step, a restart included, takes back a term or a vote (save by winning).
THEOREM TermsAndVotesSurvive == Spec => TermAndVoteSurvive
<1>1. VoteInv /\ [Next]_vars => [\A n \in Node : KeepsTermAndVote(n)]_vars
  BY KeepStep
<1>. QED  BY <1>1, VoteInvariant, PTL DEF Spec, TermAndVoteSurvive

-----------------------------------------------------------------------------
(***************************************************************************)
(* Majorities                                                              *)
(***************************************************************************)

\* Every set of nodes has a size.
LEMMA NodeSetSize ==
    ASSUME NEW Q \in SUBSET Node
    PROVE  /\ IsFiniteSet(Q) /\ Cardinality(Q) \in Nat /\ Cardinality(Node) \in Nat
           /\ Cardinality(Q) <= Cardinality(Node)
BY NodeAssumption, FS_Subset, FS_CardinalityType

\* quorum() is a majority of the cluster when the list leaves out one node at most.
LEMMA QuorumIsMajority ==
    ASSUME TypeOK, NEW n \in Node, IsFullList(peers[n]), NEW Q \in SUBSET Node,
           Cardinality(Q) >= QuorumSize(n)
    PROVE  2 * Cardinality(Q) > Cardinality(Node)
<1>1. Cardinality(peers[n]) \in Nat /\ Cardinality(Q) \in Nat /\ Cardinality(Node) \in Nat
  BY NodeSetSize DEF TypeOK
<1>. QED  BY <1>1 DEF IsFullList, QuorumSize

\* The durable log only grows.
LEMMA LogStep == VoteInv /\ [Next]_vars => \A x \in Node : raftLog[x] \subseteq raftLog'[x]
<1>. SUFFICES ASSUME TypeOK, [Next]_vars, NEW x \in Node PROVE raftLog[x] \subseteq raftLog'[x]
  BY DEF VoteInv
<1>1. ASSUME NEW n \in Node, NEW p, NEW votes, SettleRequest(n, p, votes)
      PROVE  raftLog[x] \subseteq raftLog'[x]
  BY <1>1 DEF TypeOK, SettleRequest, FinishElection, BecomeLeader, appendDurableEntries
<1>2. ASSUME NEW n \in Node, StartElection(n) PROVE raftLog[x] \subseteq raftLog'[x]
  BY <1>2 DEF TypeOK, StartElection, appendDurableEntries
<1>3. ASSUME NEW n \in Node, CampaignAlone(n) PROVE raftLog[x] \subseteq raftLog'[x]
  BY <1>3 DEF TypeOK, CampaignAlone, appendDurableEntries
<1>4. ASSUME NEW n \in Node, NEW m \in msgs, HandleVoteRequest(n, m)
      PROVE  raftLog[x] \subseteq raftLog'[x]
  BY <1>4 DEF TypeOK, HandleVoteRequest, appendDurableEntries
<1>5. ASSUME NEW n \in Node, NEW p \in Node, VoteRequestFails(n, p)
      PROVE  raftLog[x] \subseteq raftLog'[x]
  BY <1>1, <1>5 DEF VoteRequestFails
<1>6. ASSUME NEW n \in Node, NEW m \in msgs, HandleVoteResponse(n, m)
      PROVE  raftLog[x] \subseteq raftLog'[x]
  BY <1>1, <1>6 DEF HandleVoteResponse
<1>7. ASSUME NEW n \in Node, NEW m \in msgs,
             \/ DieWhileVoting(n, m) \/ DeposedByVoteResponse(n, m) \/ RejectHeartbeat(n, m)
             \/ AcceptHeartbeat(n, m) \/ HandleHeartbeatResponse(n, m)
      PROVE  raftLog' = raftLog
  BY <1>7 DEF DieWhileVoting, DeposedByVoteResponse, RejectHeartbeat, AcceptHeartbeat,
              HandleHeartbeatResponse
<1>8. ASSUME NEW n \in Node,
             SendHeartbeats(n) \/ BeginCatchUp(n) \/ EndCatchUp(n) \/ Restart(n)
      PROVE  raftLog' = raftLog
  BY <1>8 DEF SendHeartbeats, BeginCatchUp, EndCatchUp, Restart
<1>9. UNCHANGED vars => raftLog' = raftLog
  BY DEF vars
<1>. QED  BY <1>2, <1>3, <1>4, <1>5, <1>6, <1>7, <1>8, <1>9 DEF Next

\* Votes and majorities in the logs are there to stay.
LEMMA VotesStay ==
    ASSUME \A x \in Node : raftLog[x] \subseteq raftLog'[x]
    PROVE  /\ \A q, c \in Node, t \in Terms : VotedFor(q, t, c) => VotedFor(q, t, c)'
           /\ \A q \in Node, t \in Terms : Won(q, t) => Won(q, t)'
           /\ \A n \in Node, t \in Terms : HasMajority(n, t) => HasMajority(n, t)'
<1>1. /\ \A q, c \in Node, t \in Terms : VotedFor(q, t, c) => VotedFor(q, t, c)'
      /\ \A q \in Node, t \in Terms : Won(q, t) => Won(q, t)'
  BY DEF VotedFor, Won
<1>. QED  BY <1>1 DEF HasMajority

LEMMA ListStep ==
    FullConfigLists /\ VoteInv /\ ListsAreFull /\ [Next]_vars => ListsAreFull'
<1>. SUFFICES ASSUME FullConfigLists, TypeOK, ListsAreFull, [Next]_vars PROVE ListsAreFull'
  BY DEF VoteInv
<1>. USE DEF ListsAreFull, IsFullList
<1>1. ASSUME NEW n \in Node, SendHeartbeats(n) PROVE ListsAreFull'
  BY <1>1 DEF SendHeartbeats
<1>2. ASSUME NEW n \in Node, NEW state, NEW pending, pending \subseteq msgs,
             StartFrom(n, state, pending)
      PROVE  ListsAreFull'
  <2>1. \A m \in msgs' : m.type = "heartbeat" => IsFullList(m.peers)
    <3>. SUFFICES ASSUME NEW r \in pending,
                         NEW m, m = (IF IsRequest(r) /\ r.from = n THEN Abandoned(r) ELSE r),
                         m.type = "heartbeat"
                  PROVE  IsFullList(m.peers)
      BY <1>2 DEF StartFrom
    <3>1. r \in Message /\ r \in msgs
      BY <1>2 DEF TypeOK
    <3>2. r.type = "heartbeat" /\ m.peers = r.peers
      BY <3>1 DEF Abandoned, Message, VoteRequest, VoteResponse, HeartbeatRequest,
                  HeartbeatResponse, IsRequest
    <3>. QED  BY <3>1, <3>2
  <2>2. \A x \in Node : IsFullList(peers'[x])
    BY <1>2 DEF TypeOK, StartFrom, FullConfigLists
  <2>. QED  BY <2>1, <2>2
<1>3. ASSUME NEW n \in Node, NEW p \in Node, VoteRequestFails(n, p) PROVE ListsAreFull'
  <2>1. \A m \in msgs' : m.type = "heartbeat" => IsFullList(m.peers)
    <3>. SUFFICES ASSUME NEW r \in msgs,
                         NEW m, \/ m = r
                                \/ r.type = "request-vote" /\ m = Abandoned(r),
                         m.type = "heartbeat"
                  PROVE  IsFullList(m.peers)
      BY <1>3 DEF VoteRequestFails
    <3>1. r \in Message
      BY DEF TypeOK
    <3>2. m = r
      BY <3>1 DEF Abandoned, Message, VoteRequest, VoteResponse, HeartbeatRequest,
                  HeartbeatResponse
    <3>. QED  BY <3>2
  <2>. QED  BY <1>3, <2>1 DEF VoteRequestFails
<1>4. ASSUME NEW n \in Node, NEW m \in msgs, AcceptHeartbeat(n, m) PROVE ListsAreFull'
  BY <1>4 DEF TypeOK, AcceptHeartbeat
<1>5. ASSUME NEW n \in Node, NEW m \in msgs,
             \/ HandleVoteRequest(n, m) \/ RejectHeartbeat(n, m)
             \/ DeposedByVoteResponse(n, m) \/ HandleVoteResponse(n, m)
             \/ HandleHeartbeatResponse(n, m)
      PROVE  ListsAreFull'
  <2>1. peers' = peers /\ \A r \in msgs' : r \in msgs \/ r.type # "heartbeat"
    BY <1>5 DEF HandleVoteRequest, RejectHeartbeat, DeposedByVoteResponse, HandleVoteResponse,
                HandleHeartbeatResponse, Answer
  <2>. QED  BY <2>1
<1>6. ASSUME NEW n \in Node, StartElection(n) PROVE ListsAreFull'
  BY <1>6 DEF StartElection
<1>7. ASSUME NEW n \in Node, CampaignAlone(n) \/ BeginCatchUp(n) \/ EndCatchUp(n)
      PROVE  ListsAreFull'
  BY <1>7 DEF CampaignAlone, BeginCatchUp, EndCatchUp
<1>8. CASE UNCHANGED vars
  BY <1>8 DEF vars
<1>9. ASSUME NEW n \in Node, Restart(n) PROVE ListsAreFull'
  BY <1>2, <1>9 DEF Restart
<1>10. ASSUME NEW n \in Node, NEW m \in msgs, DieWhileVoting(n, m) PROVE ListsAreFull'
  <2>1. msgs \ {m} \subseteq msgs
    OBVIOUS
  <2>. QED  BY <1>2, <1>10, <2>1 DEF DieWhileVoting
<1>. HIDE DEF ListsAreFull, IsFullList
<1>. QED  BY <1>1, <1>3, <1>4, <1>5, <1>6, <1>7, <1>8, <1>9, <1>10 DEF Next

-----------------------------------------------------------------------------
(***************************************************************************)
(* A ballot counts votes that are in the voters' logs                      *)
(***************************************************************************)

\* What the step of another node, or the end of the call, makes of a ballot.
LEMMA BallotKeptOrEnded ==
    ASSUME TypeOK, CountedVotesAreLogged, \A x \in Node : raftLog[x] \subseteq raftLog'[x],
           NEW n \in Node,
           \/ ballot'[n].votes = {}
           \/ ballot'[n].votes = ballot[n].votes /\ ballot'[n].term = ballot[n].term
    PROVE  (\A q \in ballot[n].votes : VotedFor(q, ballot[n].term, n))'
<1>1. ballot[n].term \in Terms /\ ballot[n].votes \in SUBSET Node
  BY DEF TypeOK, Ballot
<1>. QED  BY <1>1 DEF CountedVotesAreLogged, VotedFor

LEMMA SettledBallots ==
    ASSUME TypeOK, CountedVotesAreLogged, \A x \in Node : raftLog[x] \subseteq raftLog'[x],
           NEW n \in Node, NEW p \in Node, NEW votes \in SUBSET Node,
           \A q \in votes : VotedFor(q, ballot[n].term, n), SettleRequest(n, p, votes)
    PROVE  CountedVotesAreLogged'
<1>1. ballot[n] \in Ballot /\ ballot[n].term \in Terms
  BY DEF TypeOK, Ballot
<1>2. ASSUME NEW x \in Node, x # n PROVE ballot'[x] = ballot[x]
  BY <1>2 DEF TypeOK, SettleRequest, FinishElection
<1>3. CASE ballot'[n] = NoBallot
  BY <1>2, <1>3, BallotKeptOrEnded DEF NoBallot, CountedVotesAreLogged
<1>4. CASE ballot' = [ballot EXCEPT ![n].awaiting = ballot[n].awaiting \ {p},
                                    ![n].votes = votes]
  <2>1. ballot'[n].votes = votes /\ ballot'[n].term = ballot[n].term
    BY <1>1, <1>4 DEF TypeOK, Ballot
  <2>2. (\A q \in ballot[n].votes : VotedFor(q, ballot[n].term, n))'
    BY <2>1 DEF VotedFor
  <2>. QED  BY <1>2, <2>2, BallotKeptOrEnded DEF CountedVotesAreLogged
<1>. QED  BY <1>3, <1>4 DEF SettleRequest, FinishElection, TypeOK

\* The votes counted after an answer are in the logs, as those before it were.
LEMMA CountedAfterResponse ==
    ASSUME TypeOK, CountedVotesAreLogged, GrantedVotesAreLogged,
           NEW n \in Node, NEW m \in msgs, HandleVoteResponse(n, m)
    PROVE  \E votes \in SUBSET Node :
               /\ \A q \in votes : VotedFor(q, ballot[n].term, n)
               /\ SettleRequest(n, m.from, votes)
<1>. DEFINE votes == ballot[n].votes \cup (IF CountsVote(n, m) THEN {m.from} ELSE {})
<1>1. votes \in SUBSET Node
  BY MessageFields DEF TypeOK, Ballot
<1>2. \A q \in ballot[n].votes : VotedFor(q, ballot[n].term, n)
  BY DEF CountedVotesAreLogged
<1>3. CountsVote(n, m) => VotedFor(m.from, ballot[n].term, n)
  BY DEF HandleVoteResponse, Awaited, CountsVote, GrantedVotesAreLogged
<1>4. SettleRequest(n, m.from, votes)
  BY DEF HandleVoteResponse
<1>5. \A q \in votes : VotedFor(q, ballot[n].term, n)
  BY <1>2, <1>3
<1>. QED  BY <1>1, <1>4, <1>5

LEMMA CountedStep ==
    VoteInv /\ CountedVotesAreLogged /\ GrantedVotesAreLogged /\ [Next]_vars
        => CountedVotesAreLogged'
<1>. SUFFICES ASSUME VoteInv, CountedVotesAreLogged, GrantedVotesAreLogged, [Next]_vars
              PROVE  CountedVotesAreLogged'
  OBVIOUS
<1>0. TypeOK /\ \A x \in Node : raftLog[x] \subseteq raftLog'[x]
  BY LogStep DEF VoteInv
<1>a. ASSUME \A x \in Node : \/ ballot'[x].votes = {}
                            \/ /\ ballot'[x].votes = ballot[x].votes
                               /\ ballot'[x].term = ballot[x].term
      PROVE  CountedVotesAreLogged'
  BY <1>0, <1>a, BallotKeptOrEnded DEF CountedVotesAreLogged
<1>1. ASSUME NEW n \in Node, StartElection(n) PROVE CountedVotesAreLogged'
  <2>1. \A x \in Node \ {n} : ballot'[x] = ballot[x]
    BY <1>0, <1>1 DEF TypeOK, StartElection
  <2>2. ballot'[n].votes = {n} /\ ballot'[n].term = NextTerm(n)
    BY <1>0, <1>1 DEF TypeOK, StartElection
  <2>3. Entry("election_start", NextTerm(n), n) \in raftLog'[n]
    BY <1>0, <1>1 DEF TypeOK, StartElection, appendDurableEntries
  <2>4. (\A q \in ballot[n].votes : VotedFor(q, ballot[n].term, n))'
    BY <2>2, <2>3 DEF VotedFor
  <2>. QED  BY <1>0, <2>1, <2>2, <2>4, BallotKeptOrEnded DEF CountedVotesAreLogged
<1>2. ASSUME NEW n \in Node, NEW p \in Node, VoteRequestFails(n, p)
      PROVE  CountedVotesAreLogged'
  <2>1. ballot[n].votes \in SUBSET Node
    BY <1>0 DEF TypeOK, Ballot
  <2>2. \A q \in ballot[n].votes : VotedFor(q, ballot[n].term, n)
    BY DEF CountedVotesAreLogged
  <2>. QED  BY <1>0, <1>2, <2>1, <2>2, SettledBallots DEF VoteRequestFails
<1>3. ASSUME NEW n \in Node, NEW m \in msgs, HandleVoteResponse(n, m)
      PROVE  CountedVotesAreLogged'
  BY <1>0, <1>3, MessageFields, CountedAfterResponse, SettledBallots DEF TypeOK
<1>4. ASSUME NEW n \in Node, NEW m \in msgs, DeposedByVoteResponse(n, m)
      PROVE  CountedVotesAreLogged'
  <2>1. ballot' = [ballot EXCEPT ![n] = BallotWithout(n, m.from)]
    BY <1>4 DEF DeposedByVoteResponse
  <2>2. \/ BallotWithout(n, m.from).votes = {}
        \/ /\ BallotWithout(n, m.from).votes = ballot[n].votes
           /\ BallotWithout(n, m.from).term = ballot[n].term
    BY <1>0 DEF TypeOK, Ballot, BallotWithout, NoBallot
  <2>. QED  BY <1>0, <1>a, <2>1, <2>2 DEF TypeOK
<1>5. ASSUME NEW n \in Node, NEW state, NEW pending, StartFrom(n, state, pending)
      PROVE  CountedVotesAreLogged'
  BY <1>0, <1>5, <1>a DEF TypeOK, StartFrom, NoBallot
<1>6. ASSUME ballot' = ballot PROVE CountedVotesAreLogged'
  BY <1>6, <1>a
<1>7. ASSUME NEW n \in Node, NEW m \in msgs,
             \/ HandleVoteRequest(n, m) \/ RejectHeartbeat(n, m)
             \/ AcceptHeartbeat(n, m) \/ HandleHeartbeatResponse(n, m)
      PROVE  ballot' = ballot
  BY <1>7 DEF HandleVoteRequest, RejectHeartbeat, AcceptHeartbeat, HandleHeartbeatResponse
<1>8. ASSUME NEW n \in Node,
             CampaignAlone(n) \/ SendHeartbeats(n) \/ BeginCatchUp(n) \/ EndCatchUp(n)
      PROVE  ballot' = ballot
  BY <1>8 DEF CampaignAlone, SendHeartbeats, BeginCatchUp, EndCatchUp
<1>9. UNCHANGED vars => ballot' = ballot
  BY DEF vars
<1>10. ASSUME NEW n \in Node, Restart(n) PROVE CountedVotesAreLogged'
  BY <1>5, <1>10 DEF Restart
<1>11. ASSUME NEW n \in Node, NEW m \in msgs, DieWhileVoting(n, m)
       PROVE  CountedVotesAreLogged'
  BY <1>5, <1>11 DEF DieWhileVoting
<1>. QED  BY <1>1, <1>2, <1>3, <1>4, <1>6, <1>7, <1>8, <1>9, <1>10, <1>11 DEF Next

(***************************************************************************)
(* A granted vote in flight is in the voter's log                          *)
(***************************************************************************)
LEMMA GrantedStep ==
    VoteInv /\ GrantedVotesAreLogged /\ [Next]_vars => GrantedVotesAreLogged'
<1>. SUFFICES ASSUME TypeOK, \A x \in Node : raftLog[x] \subseteq raftLog'[x],
                     GrantedVotesAreLogged, [Next]_vars
              PROVE  GrantedVotesAreLogged'
  BY LogStep DEF VoteInv
<1>0. ASSUME NEW r \in msgs, r.type = "vote-response", r.vote_granted
      PROVE  VotedFor(r.from, r.request, r.to)'
  <2>1. r.from \in Node /\ VotedFor(r.from, r.request, r.to)
    BY <1>0, MessageFields DEF TypeOK, GrantedVotesAreLogged
  <2>. QED  BY <2>1 DEF VotedFor
<1>a. ASSUME \A r \in msgs' : r \in msgs \/ r.type # "vote-response"
      PROVE  GrantedVotesAreLogged'
  BY <1>0, <1>a DEF GrantedVotesAreLogged
<1>b. \A r \in msgs : IsRequest(r) => Abandoned(r).type # "vote-response"
  BY DEF TypeOK, IsRequest, Abandoned, Message, VoteRequest, VoteResponse,
         HeartbeatRequest, HeartbeatResponse
<1>1. ASSUME NEW n \in Node, NEW m \in msgs, HandleVoteRequest(n, m)
      PROVE  GrantedVotesAreLogged'
  <2>. DEFINE response == [type |-> "vote-response", from |-> n, to |-> m.from,
                           request |-> m.term, term |-> currentTerm'[n],
                           vote_granted |-> CanVote(n, m), leader_id |-> leaderId'[n]]
  <2>1. \A r \in msgs' : r \in msgs \/ r = response
    BY <1>1 DEF HandleVoteRequest, Answer
  <2>2. CanVote(n, m) => Entry("vote_granted", m.term, m.from) \in raftLog'[n]
    BY <1>1 DEF TypeOK, HandleVoteRequest, appendDurableEntries
  <2>3. CanVote(n, m) => VotedFor(n, m.term, m.from)'
    BY <2>2 DEF VotedFor
  <2>4. ASSUME NEW r \in msgs', r.type = "vote-response", r.vote_granted
        PROVE  VotedFor(r.from, r.request, r.to)'
    <3>1. CASE r = response
      <4>1. r.from = n /\ r.request = m.term /\ r.to = m.from /\ CanVote(n, m)
        BY <2>4, <3>1
      <4>. QED  BY <2>3, <4>1
    <3>. QED  BY <1>0, <2>1, <2>4, <3>1
  <2>. QED  BY <2>4 DEF GrantedVotesAreLogged
<1>2. ASSUME NEW n \in Node, StartElection(n) PROVE GrantedVotesAreLogged'
  BY <1>2, <1>a DEF StartElection
<1>3. ASSUME NEW n \in Node, SendHeartbeats(n) PROVE GrantedVotesAreLogged'
  BY <1>3, <1>a DEF SendHeartbeats
<1>4. ASSUME NEW n \in Node, NEW m \in msgs, RejectHeartbeat(n, m)
      PROVE  GrantedVotesAreLogged'
  BY <1>4, <1>a DEF RejectHeartbeat
<1>5. ASSUME NEW n \in Node, NEW p \in Node, VoteRequestFails(n, p)
      PROVE  GrantedVotesAreLogged'
  BY <1>5, <1>a, <1>b DEF VoteRequestFails, IsRequest
<1>6. ASSUME NEW n \in Node, NEW state, NEW pending, pending \subseteq msgs,
             StartFrom(n, state, pending)
      PROVE  GrantedVotesAreLogged'
  BY <1>6, <1>a, <1>b DEF StartFrom
<1>7. ASSUME msgs' \subseteq msgs PROVE GrantedVotesAreLogged'
  BY <1>7, <1>a
<1>8. ASSUME NEW n \in Node, NEW m \in msgs,
             \/ DeposedByVoteResponse(n, m) \/ HandleVoteResponse(n, m)
             \/ AcceptHeartbeat(n, m) \/ HandleHeartbeatResponse(n, m)
      PROVE  msgs' \subseteq msgs
  BY <1>8 DEF DeposedByVoteResponse, HandleVoteResponse, AcceptHeartbeat,
              HandleHeartbeatResponse
<1>9. ASSUME NEW n \in Node, CampaignAlone(n) \/ BeginCatchUp(n) \/ EndCatchUp(n)
      PROVE  msgs' \subseteq msgs
  BY <1>9 DEF CampaignAlone, BeginCatchUp, EndCatchUp
<1>10. UNCHANGED vars => msgs' \subseteq msgs
  BY DEF vars
<1>11. ASSUME NEW n \in Node, Restart(n) PROVE GrantedVotesAreLogged'
  BY <1>6, <1>11 DEF Restart
<1>12. ASSUME NEW n \in Node, NEW m \in msgs, DieWhileVoting(n, m)
       PROVE  GrantedVotesAreLogged'
  <2>1. msgs \ {m} \subseteq msgs
    OBVIOUS
  <2>. QED  BY <1>6, <1>12, <2>1 DEF DieWhileVoting
<1>. QED  BY <1>1, <1>2, <1>3, <1>4, <1>5, <1>7, <1>8, <1>9, <1>10, <1>11, <1>12 DEF Next

-----------------------------------------------------------------------------
(***************************************************************************)
(* Winners had a majority, and leaders are winners                         *)
(***************************************************************************)
Elected == WinnersHadMajority /\ LeadersWonTheirTerm

\* A step that records no win and makes no leader.
LEMMA NobodyElected ==
    ASSUME TypeOK, Elected, \A x \in Node : raftLog[x] \subseteq raftLog'[x],
           \A x \in Node, t \in Terms : Won(x, t)' => Won(x, t),
           \A x \in Node : role'[x] = "leader" =>
               role[x] = "leader" /\ currentTerm'[x] = currentTerm[x]
    PROVE  Elected'
<1>1. WinnersHadMajority'
  BY VotesStay DEF Elected, WinnersHadMajority
<1>2. LeadersWonTheirTerm'
  BY DEF Elected, LeadersWonTheirTerm, Won
<1>. QED  BY <1>1, <1>2 DEF Elected

\* A step that records the win of a term by a node the majority voted for.
LEMMA OneElected ==
    ASSUME TypeOK, Elected, \A x \in Node : raftLog[x] \subseteq raftLog'[x],
           NEW n \in Node, NEW t \in Terms, currentTerm'[n] = t, Won(n, t)', HasMajority(n, t)',
           \A s \in Terms : Won(n, s)' => Won(n, s) \/ s = t,
           \A x \in Node \ {n} : /\ raftLog'[x] = raftLog[x] /\ role'[x] = role[x]
                                 /\ currentTerm'[x] = currentTerm[x]
    PROVE  Elected'
<1>1. ASSUME NEW x \in Node, NEW s \in Terms, Won(x, s)' PROVE HasMajority(x, s)'
  <2>1. CASE x = n /\ s = t
    BY <2>1
  <2>2. CASE Won(x, s)
    BY <2>2, VotesStay DEF Elected, WinnersHadMajority
  <2>3. CASE x # n
    BY <1>1, <2>2, <2>3 DEF Won
  <2>. QED  BY <1>1, <2>1, <2>2, <2>3
<1>2. ASSUME NEW x \in Node, role'[x] = "leader" PROVE Won(x, currentTerm[x])'
  <2>1. CASE x = n
    BY <2>1 DEF Won
  <2>2. CASE x # n
    BY <1>2, <2>2 DEF Elected, LeadersWonTheirTerm, Won
  <2>. QED  BY <2>1, <2>2
<1>. QED  BY <1>1, <1>2 DEF Elected, WinnersHadMajority, LeadersWonTheirTerm

\* startElection wins with the votes of a majority only.
LEMMA SettledElection ==
    ASSUME TypeOK, ListsAreFull, Elected, \A x \in Node : raftLog[x] \subseteq raftLog'[x],
           NEW n \in Node, NEW p \in Node, NEW votes \in SUBSET Node,
           \A q \in votes : VotedFor(q, ballot[n].term, n), SettleRequest(n, p, votes)
    PROVE  Elected'
<1>1. CASE UNCHANGED <<raftVars, raftStore, raftLog>>
  <2>1. \A x \in Node, t \in Terms : Won(x, t)' => Won(x, t)
    BY <1>1 DEF Won
  <2>. QED  BY <1>1, <2>1, NobodyElected DEF raftVars
<1>2. CASE WinsElection(n, votes) /\ BecomeLeader(n)
  <2>. DEFINE t == currentTerm[n]
  <2>1. t \in Terms /\ t = ballot[n].term /\ currentTerm'[n] = t
    BY <1>2 DEF TypeOK, WinsElection, BecomeLeader
  <2>2. raftLog' = [raftLog EXCEPT ![n] = raftLog[n] \cup {Entry("election_won", t, n)}]
    BY <1>2, <2>1 DEF BecomeLeader, appendDurableEntries
  <2>3. 2 * Cardinality(votes) > Cardinality(Node)
    BY <1>2, QuorumIsMajority DEF WinsElection, ListsAreFull
  <2>. HIDE DEF t
  <2>. SUFFICES ASSUME NEW u \in Terms, u = t PROVE Elected'
    BY <2>1
  <2>4. HasMajority(n, u)'
    <3>1. \A q \in votes : VotedFor(q, u, n)'
      BY <2>1, VotesStay
    <3>. QED  BY <2>3, <3>1 DEF HasMajority
  <2>5. Won(n, u)' /\ \A s \in Terms : Won(n, s)' => Won(n, s) \/ s = u
    BY <2>2, EntriesDiffer DEF TypeOK, Won
  <2>6. \A x \in Node \ {n} : /\ raftLog'[x] = raftLog[x] /\ role'[x] = role[x]
                              /\ currentTerm'[x] = currentTerm[x]
    BY <1>2, <2>2 DEF TypeOK, BecomeLeader
  <2>. QED  BY <2>1, <2>4, <2>5, <2>6, OneElected
<1>. QED  BY <1>1, <1>2 DEF SettleRequest, FinishElection

\* A node alone on its list wins without asking only if it is the cluster.
LEMMA AloneElection ==
    ASSUME TypeOK, ListsAreFull, Elected, \A x \in Node : raftLog[x] \subseteq raftLog'[x],
           NEW n \in Node, CampaignAlone(n)
    PROVE  Elected'
<1>. DEFINE t == NextTerm(n)
<1>1. t \in Terms /\ currentTerm'[n] = t
  BY BoundsAssumption DEF TypeOK, Terms, CampaignAlone, MayCampaign, NextTerm
<1>2. \A x \in Node \ {n} : /\ raftLog'[x] = raftLog[x] /\ role'[x] = role[x]
                            /\ currentTerm'[x] = currentTerm[x]
  BY DEF TypeOK, CampaignAlone, appendDurableEntries
<1>. HIDE DEF t
<1>. SUFFICES ASSUME NEW u \in Terms, u = t PROVE Elected'
  BY <1>1
<1>3. CASE QuorumSize(n) <= 1
  <2>1. raftLog'[n] = raftLog[n] \cup {Entry("election_start", u, n), Entry("election_won", u, n)}
    BY <1>3 DEF TypeOK, CampaignAlone, appendDurableEntries, t
  <2>2. 2 * Cardinality({n}) > Cardinality(Node)
    <3>1. Cardinality({n}) = 1 /\ Cardinality(peers[n]) \in Nat
      BY FS_Singleton, NodeSetSize DEF TypeOK
    <3>2. Cardinality({n}) >= QuorumSize(n)
      BY <1>3, <3>1 DEF QuorumSize
    <3>. QED  BY <3>2, QuorumIsMajority DEF ListsAreFull
  <2>3. HasMajority(n, u)'
    BY <2>1, <2>2 DEF HasMajority, VotedFor
  <2>4. Won(n, u)' /\ \A s \in Terms : Won(n, s)' => Won(n, s) \/ s = u
    BY <2>1, EntriesDiffer DEF Won
  <2>. QED  BY <1>1, <1>2, <2>3, <2>4, OneElected
<1>4. CASE ~(QuorumSize(n) <= 1)
  <2>1. raftLog'[n] = raftLog[n] \cup {Entry("election_start", u, n)} /\ role'[n] # "leader"
    BY <1>4 DEF TypeOK, CampaignAlone, appendDurableEntries, t
  <2>2. \A x \in Node, s \in Terms : Won(x, s)' => Won(x, s)
    BY <1>2, <2>1, EntriesDiffer DEF Won
  <2>. QED  BY <1>2, <2>1, <2>2, NobodyElected
<1>. QED  BY <1>3, <1>4

LEMMA ElectedStep ==
    VoteInv /\ MajorityInv /\ [Next]_vars => Elected'
<1>. SUFFICES ASSUME TypeOK, VoteInv, \A x \in Node : raftLog[x] \subseteq raftLog'[x],
                     ListsAreFull, CountedVotesAreLogged, GrantedVotesAreLogged, Elected,
                     [Next]_vars
              PROVE  Elected'
  BY LogStep DEF VoteInv, MajorityInv, Elected
<1>a. ASSUME raftLog' = raftLog,
             \A x \in Node : role'[x] = "leader" =>
                 role[x] = "leader" /\ currentTerm'[x] = currentTerm[x]
      PROVE  Elected'
  <2>1. \A x \in Node, t \in Terms : Won(x, t)' => Won(x, t)
    BY <1>a DEF Won
  <2>. QED  BY <1>a, <2>1, NobodyElected
<1>b. ASSUME NEW n \in Node, NEW term, NEW leader, stepDown(n, term, leader), raftLog' = raftLog
      PROVE  Elected'
  BY <1>a, <1>b DEF TypeOK, stepDown
<1>1. ASSUME NEW n \in Node, StartElection(n) PROVE Elected'
  <2>1. raftLog' = [raftLog EXCEPT ![n] = raftLog[n] \cup {Entry("election_start", NextTerm(n), n)}]
    BY <1>1 DEF StartElection, appendDurableEntries
  <2>2. \A x \in Node, t \in Terms : Won(x, t)' => Won(x, t)
    BY <2>1, EntriesDiffer DEF TypeOK, Won
  <2>3. \A x \in Node : role'[x] = "leader" =>
            role[x] = "leader" /\ currentTerm'[x] = currentTerm[x]
    BY <1>1 DEF TypeOK, StartElection
  <2>. QED  BY <2>2, <2>3, NobodyElected
<1>2. ASSUME NEW n \in Node, CampaignAlone(n) PROVE Elected'
  BY <1>2, AloneElection
<1>3. ASSUME NEW n \in Node, NEW p \in Node, VoteRequestFails(n, p) PROVE Elected'
  <2>1. ballot[n].votes \in SUBSET Node
    BY DEF TypeOK, Ballot
  <2>2. \A q \in ballot[n].votes : VotedFor(q, ballot[n].term, n)
    BY DEF CountedVotesAreLogged
  <2>. QED  BY <1>3, <2>1, <2>2, SettledElection DEF VoteRequestFails
<1>4. ASSUME NEW n \in Node, NEW m \in msgs, HandleVoteResponse(n, m) PROVE Elected'
  BY <1>4, MessageFields, CountedAfterResponse, SettledElection DEF TypeOK
<1>5. ASSUME NEW n \in Node, NEW m \in msgs, HandleVoteRequest(n, m) PROVE Elected'
  <2>1. \/ raftLog' = raftLog
        \/ raftLog' = [raftLog EXCEPT ![n] = raftLog[n] \cup
                                        {Entry("vote_granted", m.term, m.from)}]
    BY <1>5 DEF HandleVoteRequest, appendDurableEntries
  <2>2. \A x \in Node, t \in Terms : Won(x, t)' => Won(x, t)
    BY <2>1, EntriesDiffer DEF TypeOK, Won
  <2>3. \A x \in Node : role'[x] = "leader" =>
            role[x] = "leader" /\ currentTerm'[x] = currentTerm[x]
    BY <1>5 DEF TypeOK, HandleVoteRequest
  <2>. QED  BY <2>2, <2>3, NobodyElected
<1>6. ASSUME NEW n \in Node, NEW state, NEW pending, StartFrom(n, state, pending),
             raftLog' = raftLog
      PROVE  Elected'
  BY <1>6, <1>a DEF TypeOK, StartFrom
<1>7. ASSUME NEW n \in Node, NEW m \in msgs, AcceptHeartbeat(n, m) PROVE Elected'
  BY <1>7, <1>a DEF TypeOK, AcceptHeartbeat
<1>8. ASSUME NEW n \in Node, NEW m \in msgs, DeposedByVoteResponse(n, m) PROVE Elected'
  BY <1>8, <1>b DEF DeposedByVoteResponse
<1>9. ASSUME UNCHANGED <<raftVars, raftLog>> PROVE Elected'
  BY <1>9, <1>a DEF raftVars
<1>10. ASSUME NEW n \in Node, NEW m \in msgs, HandleHeartbeatResponse(n, m) PROVE Elected'
  BY <1>9, <1>10, <1>b DEF HandleHeartbeatResponse
<1>11. ASSUME NEW n \in Node,
              \/ SendHeartbeats(n) \/ BeginCatchUp(n) \/ EndCatchUp(n)
              \/ \E m \in msgs : RejectHeartbeat(n, m)
       PROVE  UNCHANGED <<raftVars, raftLog>>
  BY <1>11 DEF SendHeartbeats, BeginCatchUp, EndCatchUp, RejectHeartbeat
<1>12. UNCHANGED vars => UNCHANGED <<raftVars, raftLog>>
  BY DEF vars, raftVars
<1>13. ASSUME NEW n \in Node, Restart(n) PROVE Elected'
  BY <1>6, <1>13 DEF Restart
<1>14. ASSUME NEW n \in Node, NEW m \in msgs, DieWhileVoting(n, m) PROVE Elected'
  BY <1>6, <1>14 DEF DieWhileVoting
<1>. QED  BY <1>1, <1>2, <1>3, <1>4, <1>5, <1>7, <1>8, <1>9, <1>10, <1>11, <1>12, <1>13, <1>14
          DEF Next

LEMMA MajorityInvariant ==
    ASSUME FullConfigLists
    PROVE  Spec => [](VoteInv /\ MajorityInv)
<1>1. Init => MajorityInv
  BY DEF Init, MajorityInv, ListsAreFull, FullConfigLists, CountedVotesAreLogged, NoBallot,
         GrantedVotesAreLogged, WinnersHadMajority, Won, LeadersWonTheirTerm
<1>2. VoteInv /\ MajorityInv /\ [Next]_vars => MajorityInv'
  BY FullConfigLists, ListStep, CountedStep, GrantedStep, ElectedStep DEF MajorityInv, Elected
<1>. QED  BY <1>1, <1>2, VoteInvariant, PTL DEF Spec

(***************************************************************************)
(* Two majorities share a node, which voted for both winners: it is one    *)
(* that won the term itself.                                               *)
(***************************************************************************)
THEOREM SplitsNeedRevote ==
    ASSUME FullConfigLists
    PROVE  Spec => []SplitLeadershipNeedsRevote
<1>1. VoteInv /\ MajorityInv => SplitLeadershipNeedsRevote
  <2>. SUFFICES ASSUME VoteInv, MajorityInv, NEW a \in Node, NEW b \in Node, NEW term \in Terms,
                       Won(a, term), Won(b, term), a # b
                PROVE  \E q \in Node : Won(q, term) /\ VotedFor(q, term, a) /\ VotedFor(q, term, b)
    BY DEF SplitLeadershipNeedsRevote
  <2>1. PICK Q \in SUBSET Node : /\ 2 * Cardinality(Q) > Cardinality(Node)
                                 /\ \A q \in Q : VotedFor(q, term, a)
    BY DEF MajorityInv, WinnersHadMajority, HasMajority
  <2>2. PICK R \in SUBSET Node : /\ 2 * Cardinality(R) > Cardinality(Node)
                                 /\ \A q \in R : VotedFor(q, term, b)
    BY DEF MajorityInv, WinnersHadMajority, HasMajority
  <2>3. PICK q \in Node : q \in Q \cap R
    <3>1. /\ Cardinality(Q) \in Nat /\ Cardinality(R) \in Nat /\ Cardinality(Node) \in Nat
          /\ IsFiniteSet(Node)
      BY NodeSetSize, NodeAssumption
    <3>2. Cardinality(Q) + Cardinality(R) > Cardinality(Node)
      BY <2>1, <2>2, <3>1
    <3>. QED  BY <3>1, <3>2, FS_MajoritiesIntersect
  <2>4. VotedFor(q, term, a) /\ VotedFor(q, term, b)
    BY <2>1, <2>2, <2>3
  <2>. QED  BY <2>4 DEF VoteInv, NodeInv, OneVoteUnlessWon
<1>. QED  BY <1>1, MajorityInvariant, PTL

(***************************************************************************)
(* The voters of a leader's term reached it, and no term goes back.        *)
(***************************************************************************)
THEOREM MajorityReachesTermOfLeader ==
    ASSUME FullConfigLists
    PROVE  Spec => []MajorityReachedTermOfLeader
<1>1. VoteInv /\ MajorityInv => MajorityReachedTermOfLeader
  <2>. SUFFICES ASSUME VoteInv, MajorityInv, NEW n \in Node, role[n] = "leader"
                PROVE  2 * Cardinality({q \in Node : currentTerm[q] >= currentTerm[n]})
                           > Cardinality(Node)
    BY DEF MajorityReachedTermOfLeader
  <2>. DEFINE Reached == {q \in Node : currentTerm[q] >= currentTerm[n]}
  <2>1. currentTerm[n] \in Terms /\ Won(n, currentTerm[n])
    BY DEF VoteInv, TypeOK, MajorityInv, LeadersWonTheirTerm
  <2>2. PICK Q \in SUBSET Node : /\ 2 * Cardinality(Q) > Cardinality(Node)
                                 /\ \A q \in Q : VotedFor(q, currentTerm[n], n)
    BY <2>1 DEF MajorityInv, WinnersHadMajority, HasMajority
  <2>3. Q \subseteq Reached
    <3>. SUFFICES ASSUME NEW q \in Q PROVE currentTerm[q] >= currentTerm[n]
      OBVIOUS
    <3>1. VotedFor(q, currentTerm[n], n) /\ LogIsBehindTerm(q)
      BY <2>2 DEF VoteInv, NodeInv
    <3>2. PICK e \in raftLog[q] : e.term = currentTerm[n]
      BY <3>1 DEF VotedFor, Entry
    <3>3. currentTerm[n] <= currentTerm[q]
      BY <3>1, <3>2 DEF LogIsBehindTerm
    <3>. QED  BY <2>1, <3>3 DEF VoteInv, TypeOK, Terms
  <2>4. Reached \in SUBSET Node
    OBVIOUS
  <2>5. Cardinality(Q) <= Cardinality(Reached)
    <3>1. IsFiniteSet(Reached)
      BY <2>4, NodeSetSize
    <3>. QED  BY <2>3, <3>1, FS_Subset
  <2>6. Cardinality(Q) \in Nat /\ Cardinality(Reached) \in Nat /\ Cardinality(Node) \in Nat
    BY <2>4, NodeSetSize
  <2>. HIDE DEF Reached
  <2>7. 2 * Cardinality(Reached) > Cardinality(Node)
    BY <2>2, <2>5, <2>6
  <2>. QED  BY <2>7 DEF Reached
<1>. QED  BY <1>1, MajorityInvariant, PTL
=============================================================================
