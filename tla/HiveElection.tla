---------------------------- MODULE HiveElection ----------------------------
(***************************************************************************)
(* Leader election of the distributed mode (src/cluster): the state        *)
(* machine RaftStateMachine and the HeartbeatManager of every node, over   *)
(* the HTTP requests they exchange.                                        *)
(*                                                                         *)
(* A handler of the code runs to completion on Node's event loop, so each  *)
(* is one action; what interleaves are the awaits, i.e. the requests and   *)
(* answers in msgs.  Wall-clock deadlines are abstracted: an election      *)
(* timer may fire, and a request may time out, at any moment.              *)
(***************************************************************************)
EXTENDS Integers, FiniteSets

CONSTANTS
    Node,           \* node ids of the cluster
    None,           \* null
    ConfigPeers,    \* config.peers of every node: the ids in its config file
    TimerNodes,     \* bound: the nodes whose election timer may fire
    RestartNodes,   \* bound: the nodes whose process may die and start again
    CatchUpNodes,   \* bound: the nodes whose sync may need a snapshot
    MaxTerm         \* bound: no election is started beyond this term

ASSUME NodeAssumption == IsFiniteSet(Node) /\ None \notin Node
ASSUME PeersAssumption == ConfigPeers \in [Node -> SUBSET Node]
ASSUME BoundsAssumption ==
    /\ MaxTerm \in Nat
    /\ TimerNodes \subseteq Node /\ RestartNodes \subseteq Node /\ CatchUpNodes \subseteq Node

VARIABLES
    currentTerm, role, votedFor, leaderId,  \* fields of RaftStateMachine
    peers,          \* getPeers(): the dynamic list, or the configured one
    isCatchingUp,
    ballot,         \* the startElection call under way, if any
    raftStore,      \* the durable state written by persistRaftState
    raftLog,        \* the election entries of the durable log
    msgs            \* requests and answers under way

raftVars == <<currentTerm, role, votedFor, leaderId>>
vars == <<currentTerm, role, votedFor, leaderId, peers, isCatchingUp, ballot,
          raftStore, raftLog, msgs>>

Terms == 0 .. MaxTerm
Roles == {"leader", "follower", "candidate"}
NodeOrNone == Node \cup {None}

(***************************************************************************)
(* electionInFlight, and the local variables of startElection: the term it *)
(* campaigns for, the peers it still awaits and the votes it counted.      *)
(***************************************************************************)
Ballot == [inFlight : BOOLEAN, term : Terms,
           awaiting : SUBSET Node, votes : SUBSET Node]
NoBallot == [inFlight |-> FALSE, term |-> 0, awaiting |-> {}, votes |-> {}]

DurableState == [current_term : Terms, voted_for : NodeOrNone, leader_id : NodeOrNone]
LogEntry == [type : {"election_start", "vote_granted", "election_won"},
             term : Terms, node : Node]

(***************************************************************************)
(* A request is open while its sender still waits for the answer: the      *)
(* request of a sender that timed out or died may be handled all the same. *)
(***************************************************************************)
VoteRequest == [type : {"request-vote"}, from : Node, to : Node, term : Terms,
                open : BOOLEAN]
VoteResponse == [type : {"vote-response"}, from : Node, to : Node, request : Terms,
                 term : Terms, vote_granted : BOOLEAN, leader_id : NodeOrNone]
HeartbeatRequest == [type : {"heartbeat"}, from : Node, to : Node, term : Terms,
                     peers : SUBSET Node, open : BOOLEAN]
HeartbeatResponse == [type : {"heartbeat-response"}, from : Node, to : Node, term : Terms]
Message == VoteRequest \cup VoteResponse \cup HeartbeatRequest \cup HeartbeatResponse

IsRequest(m) == m.type \in {"request-vote", "heartbeat"}
Abandoned(m) == [m EXCEPT !.open = FALSE]

(***************************************************************************)
(* Operators named Faulty... are mutations: variants of the definition     *)
(* that follows them, with a plausible bug, which violates one of the      *)
(* properties (PROJECT.json says which).  No action uses them.             *)
(***************************************************************************)
Entry(type, term, node) == [type |-> type, term |-> term, node |-> node]

\* quorum(): the listed peers and the node itself, whoever is on the list
QuorumSize(n) == (Cardinality(peers[n]) + 1) \div 2 + 1

FaultyPersist(n) ==        \* the vote is not written
    raftStore' = [raftStore EXCEPT ![n] =
        [current_term |-> currentTerm'[n], voted_for |-> @.voted_for,
         leader_id |-> leaderId'[n]]]

(***************************************************************************)
(* The two effects every handler ends with.                                *)
(***************************************************************************)
persistRaftState(n) ==
    raftStore' = [raftStore EXCEPT ![n] =
        [current_term |-> currentTerm'[n], voted_for |-> votedFor'[n],
         leader_id |-> leaderId'[n]]]

appendDurableEntries(n, entries) == raftLog' = [raftLog EXCEPT ![n] = @ \cup entries]

stepDown(n, term, leader) ==
    /\ currentTerm' = [currentTerm EXCEPT ![n] = term]
    /\ role' = [role EXCEPT ![n] = "follower"]
    /\ votedFor' = [votedFor EXCEPT ![n] = None]
    /\ leaderId' = [leaderId EXCEPT ![n] = leader]
    /\ persistRaftState(n)

-----------------------------------------------------------------------------
Init ==
    /\ currentTerm = [n \in Node |-> 0]
    /\ role = [n \in Node |-> "follower"]
    /\ votedFor = [n \in Node |-> None]
    /\ leaderId = [n \in Node |-> None]
    /\ peers = ConfigPeers
    /\ isCatchingUp = [n \in Node |-> FALSE]
    /\ ballot = [n \in Node |-> NoBallot]
    /\ raftStore = [n \in Node |->
                      [current_term |-> 0, voted_for |-> None, leader_id |-> None]]
    /\ raftLog = [n \in Node |-> {}]
    /\ msgs = {}

(***************************************************************************)
(* The end of startElection, once Promise.all has settled: the votes are   *)
(* counted against the quorum of the peer list as it is by then.  Winning  *)
(* clears the vote of the term just won.                                   *)
(***************************************************************************)
BecomeLeader(n) ==
    /\ role' = [role EXCEPT ![n] = "leader"]
    /\ leaderId' = [leaderId EXCEPT ![n] = n]
    /\ votedFor' = [votedFor EXCEPT ![n] = None]
    /\ UNCHANGED currentTerm
    /\ persistRaftState(n)
    /\ appendDurableEntries(n, {Entry("election_won", ballot[n].term, n)})

WinsElection(n, votes) ==
    /\ role[n] = "candidate"
    /\ currentTerm[n] = ballot[n].term
    /\ Cardinality(votes) >= QuorumSize(n)

FinishElection(n, votes) ==
    /\ ballot' = [ballot EXCEPT ![n] = NoBallot]
    /\ \/ WinsElection(n, votes) /\ BecomeLeader(n)
       \/ ~WinsElection(n, votes) /\ UNCHANGED <<raftVars, raftStore, raftLog>>

\* the request to p is settled, and votes are what n has counted by now
SettleRequest(n, p, votes) ==
    LET awaiting == ballot[n].awaiting \ {p} IN
    \/ awaiting = {} /\ FinishElection(n, votes)
    \/ /\ awaiting # {}
       /\ ballot' = [ballot EXCEPT ![n].awaiting = awaiting, ![n].votes = votes]
       /\ UNCHANGED <<raftVars, raftStore, raftLog>>

(***************************************************************************)
(* The election timer of n fires past its deadline: a new term, a vote for *)
(* itself, and one request to every listed peer at once.                   *)
(***************************************************************************)
NextTerm(n) == currentTerm[n] + 1

MayCampaign(n) ==
    /\ role[n] # "leader" /\ ~isCatchingUp[n] /\ ~ballot[n].inFlight
    /\ currentTerm[n] < MaxTerm /\ n \in TimerNodes

StartElection(n) ==
    LET term == NextTerm(n)
        asked == peers[n] \ {n}
    IN  /\ MayCampaign(n) /\ asked # {}
        /\ currentTerm' = [currentTerm EXCEPT ![n] = term]
        /\ role' = [role EXCEPT ![n] = "candidate"]
        /\ votedFor' = [votedFor EXCEPT ![n] = n]
        /\ leaderId' = [leaderId EXCEPT ![n] = None]
        /\ persistRaftState(n)
        /\ appendDurableEntries(n, {Entry("election_start", term, n)})
        /\ ballot' = [ballot EXCEPT ![n] =
              [inFlight |-> TRUE, term |-> term, awaiting |-> asked, votes |-> {n}]]
        /\ msgs' = msgs \cup [type : {"request-vote"}, from : {n}, to : asked,
                              term : {term}, open : {TRUE}]
        /\ UNCHANGED <<peers, isCatchingUp>>

(***************************************************************************)
(* With nobody but itself on the list the same call ends at once: a node   *)
(* without peers leads, a node that is its own only peer needs two votes.  *)
(***************************************************************************)
CampaignAlone(n) ==
    LET term == NextTerm(n)
        wins == QuorumSize(n) <= 1
    IN  /\ MayCampaign(n) /\ peers[n] \subseteq {n}
        /\ currentTerm' = [currentTerm EXCEPT ![n] = term]
        /\ role' = [role EXCEPT ![n] = IF wins THEN "leader" ELSE "candidate"]
        /\ votedFor' = [votedFor EXCEPT ![n] = IF wins THEN None ELSE n]
        /\ leaderId' = [leaderId EXCEPT ![n] = IF wins THEN n ELSE None]
        /\ persistRaftState(n)
        /\ appendDurableEntries(n, {Entry("election_start", term, n)} \cup
              IF wins THEN {Entry("election_won", term, n)} ELSE {})
        /\ UNCHANGED <<peers, isCatchingUp, ballot, msgs>>

(***************************************************************************)
(* The answer of one peer in the await of startElection.  A higher term    *)
(* deposes the candidate; a grant counts only while n is still the         *)
(* candidate of the ballot's term.                                         *)
(***************************************************************************)
\* m is the answer to a request the call under way still awaits
Awaited(n, m) ==
    /\ m.type = "vote-response" /\ m.to = n
    /\ m.from \in ballot[n].awaiting /\ m.request = ballot[n].term

FaultyCountsVote(n, m) == role[n] = "candidate"     \* a denial counts, too
CountsVote(n, m) ==
    /\ m.vote_granted
    /\ role[n] = "candidate"
    /\ currentTerm[n] = ballot[n].term

FaultyBallotWithout(n, p) == [ballot[n] EXCEPT !.awaiting = @ \ {p}]     \* never finishes
BallotWithout(n, p) ==
    IF ballot[n].awaiting = {p} THEN NoBallot
    ELSE [ballot[n] EXCEPT !.awaiting = @ \ {p}]

DeposedByVoteResponse(n, m) ==
    /\ m \in msgs /\ Awaited(n, m)
    /\ m.term > currentTerm[n]
    /\ stepDown(n, m.term, m.leader_id)
    /\ ballot' = [ballot EXCEPT ![n] = BallotWithout(n, m.from)]
    /\ msgs' = msgs \ {m}
    /\ UNCHANGED <<peers, isCatchingUp, raftLog>>

HandleVoteResponse(n, m) ==
    /\ m \in msgs /\ Awaited(n, m)
    /\ m.term <= currentTerm[n]
    /\ SettleRequest(n, m.from,
          ballot[n].votes \cup (IF CountsVote(n, m) THEN {m.from} ELSE {}))
    /\ msgs' = msgs \ {m}
    /\ UNCHANGED <<peers, isCatchingUp>>

(***************************************************************************)
(* postJson gives null: the peer is unreachable, answered with an error,   *)
(* or not before request_timeout_ms.  The request itself may still arrive. *)
(***************************************************************************)
VoteRequestFails(n, p) ==
    /\ p \in ballot[n].awaiting
    /\ SettleRequest(n, p, ballot[n].votes)
    /\ msgs' = {IF m.type = "request-vote" /\ m.from = n /\ m.to = p
                THEN Abandoned(m) ELSE m :
                m \in {r \in msgs : IsRequest(r) \/ ~Awaited(n, r) \/ r.from # p}}
    /\ UNCHANGED <<peers, isCatchingUp>>

(***************************************************************************)
(* POST /election/request-vote at n.  A higher term first deposes n.  The  *)
(* vote goes to the first candidate of a term to ask, whatever n's role.   *)
(***************************************************************************)
Answer(m, response) == (msgs \ {m}) \cup (IF m.open THEN {response} ELSE {})

FaultyCanVote(n, m) == m.term >= currentTerm[n]      \* votedFor is not looked at
CanVote(n, m) ==
    \/ m.term > currentTerm[n]
    \/ m.term = currentTerm[n] /\ votedFor[n] \in {None, m.from}

HandleVoteRequest(n, m) ==
    LET deposed == m.term > currentTerm[n]
        canVote == CanVote(n, m)
    IN  /\ m \in msgs /\ m.type = "request-vote" /\ m.to = n
        /\ \/ /\ deposed
              /\ currentTerm' = [currentTerm EXCEPT ![n] = m.term]
              /\ role' = [role EXCEPT ![n] = "follower"]
              /\ leaderId' = [leaderId EXCEPT ![n] = None]
           \/ ~deposed /\ UNCHANGED <<currentTerm, role, leaderId>>
        /\ \/ /\ canVote
              /\ votedFor' = [votedFor EXCEPT ![n] = m.from]
              /\ persistRaftState(n)
              /\ appendDurableEntries(n, {Entry("vote_granted", m.term, m.from)})
           \/ ~canVote /\ UNCHANGED <<votedFor, raftStore, raftLog>>
        /\ msgs' = Answer(m,
              [type |-> "vote-response", from |-> n, to |-> m.from, request |-> m.term,
               term |-> currentTerm'[n], vote_granted |-> canVote,
               leader_id |-> leaderId'[n]])
        /\ UNCHANGED <<peers, isCatchingUp, ballot>>

-----------------------------------------------------------------------------
(***************************************************************************)
(* The heartbeat timer of a leader: its term (which is also the fencing    *)
(* token) and its peer list go to every listed peer.  One is sent every    *)
(* interval, so copies of a heartbeat may be under way for ever: it is     *)
(* never taken out of msgs.                                                *)
(***************************************************************************)
SendHeartbeats(n) ==
    /\ role[n] = "leader"
    /\ msgs' = msgs \cup [type : {"heartbeat"}, from : {n}, to : peers[n] \ {n},
                          term : {currentTerm[n]}, peers : {peers[n]}, open : {TRUE}]
    /\ UNCHANGED <<raftVars, peers, isCatchingUp, ballot, raftStore, raftLog>>

FaultyIsCurrent(n, m) ==        \* a leader does not hear another one of its term
    \/ m.term > currentTerm[n]
    \/ m.term = currentTerm[n] /\ role[n] # "leader"
IsCurrent(n, m) == m.term >= currentTerm[n]

(***************************************************************************)
(* POST /election/heartbeat at n, from a stale leader: rejected.           *)
(***************************************************************************)
RejectHeartbeat(n, m) ==
    /\ m \in msgs /\ m.type = "heartbeat" /\ m.to = n
    /\ ~IsCurrent(n, m) /\ m.open
    /\ msgs' = msgs \cup {[type |-> "heartbeat-response", from |-> n, to |-> m.from,
                           term |-> currentTerm[n]]}
    /\ UNCHANGED <<raftVars, peers, isCatchingUp, ballot, raftStore, raftLog>>

(***************************************************************************)
(* POST /election/heartbeat at n, accepted: n follows the sender, forgets  *)
(* its vote only if the term is new, and takes over the sender's peer      *)
(* list if it is not empty.  The answer carries the heartbeat's own term,  *)
(* which its sender ignores, and is left out.                              *)
(***************************************************************************)
AcceptHeartbeat(n, m) ==
    /\ m \in msgs /\ m.type = "heartbeat" /\ m.to = n
    /\ IsCurrent(n, m)
    /\ currentTerm' = [currentTerm EXCEPT ![n] = m.term]
    /\ role' = [role EXCEPT ![n] = "follower"]
    /\ votedFor' = [votedFor EXCEPT ![n] = IF m.term > currentTerm[n] THEN None ELSE @]
    /\ leaderId' = [leaderId EXCEPT ![n] = m.from]
    /\ persistRaftState(n)
    /\ peers' = [peers EXCEPT ![n] = IF m.peers = {} THEN @ ELSE m.peers]
    /\ UNCHANGED <<isCatchingUp, ballot, raftLog, msgs>>

(***************************************************************************)
(* A rejected heartbeat's answer back at its sender, in whatever role it   *)
(* is by now: a higher term deposes it in favour of the peer that told.    *)
(***************************************************************************)
FaultyTellsOfNewTerm(n, m) == m.term > currentTerm[n] /\ role[n] # "leader"
TellsOfNewTerm(n, m) == m.term > currentTerm[n]

HandleHeartbeatResponse(n, m) ==
    /\ m \in msgs /\ m.type = "heartbeat-response" /\ m.to = n
    /\ msgs' = msgs \ {m}
    /\ \/ TellsOfNewTerm(n, m) /\ stepDown(n, m.term, m.from)
       \/ ~TellsOfNewTerm(n, m) /\ UNCHANGED <<raftVars, raftStore>>
    /\ UNCHANGED <<peers, isCatchingUp, ballot, raftLog>>

-----------------------------------------------------------------------------
(***************************************************************************)
(* recoverFromSnapshot holds isCatchingUp from the request of a snapshot   *)
(* to its application, or to the end of the sync when the request fails.   *)
(***************************************************************************)
BeginCatchUp(n) ==
    /\ n \in CatchUpNodes /\ ~isCatchingUp[n]
    /\ isCatchingUp' = [isCatchingUp EXCEPT ![n] = TRUE]
    /\ UNCHANGED <<raftVars, peers, ballot, raftStore, raftLog, msgs>>

EndCatchUp(n) ==
    /\ isCatchingUp[n]
    /\ isCatchingUp' = [isCatchingUp EXCEPT ![n] = FALSE]
    /\ UNCHANGED <<raftVars, peers, ballot, raftStore, raftLog, msgs>>

(***************************************************************************)
(* The process of n dies and is started again (initializeRaftStore): what  *)
(* is not in the store is lost, its open connections with it.  A node that *)
(* is down for a while is one that is slow to handle requests.             *)
(***************************************************************************)
StartFrom(n, state, pending) ==
    /\ currentTerm' = [currentTerm EXCEPT ![n] = state.current_term]
    /\ votedFor' = [votedFor EXCEPT ![n] = state.voted_for]
    /\ leaderId' = [leaderId EXCEPT ![n] = state.leader_id]
    /\ role' = [role EXCEPT ![n] = "follower"]
    /\ peers' = [peers EXCEPT ![n] = ConfigPeers[n]]
    /\ isCatchingUp' = [isCatchingUp EXCEPT ![n] = FALSE]
    /\ ballot' = [ballot EXCEPT ![n] = NoBallot]
    /\ msgs' = {IF IsRequest(m) /\ m.from = n THEN Abandoned(m) ELSE m :
                m \in {r \in pending : IsRequest(r) \/ r.to # n}}

Restart(n) ==
    /\ n \in RestartNodes
    /\ StartFrom(n, raftStore[n], msgs)
    /\ UNCHANGED <<raftStore, raftLog>>

(***************************************************************************)
(* handleVoteRequest writes the store twice when the term is new, in       *)
(* stepDown and for the vote: the process may die in between.              *)
(***************************************************************************)
DieWhileVoting(n, m) ==
    LET deposed == [current_term |-> m.term, voted_for |-> None, leader_id |-> None] IN
    /\ n \in RestartNodes
    /\ m \in msgs /\ m.type = "request-vote" /\ m.to = n /\ m.term > currentTerm[n]
    /\ raftStore' = [raftStore EXCEPT ![n] = deposed]
    /\ StartFrom(n, deposed, msgs \ {m})
    /\ UNCHANGED raftLog

Next ==
    \E n \in Node :
        \/ StartElection(n)
        \/ CampaignAlone(n)
        \/ SendHeartbeats(n)
        \/ BeginCatchUp(n)
        \/ EndCatchUp(n)
        \/ Restart(n)
        \/ \E p \in Node : VoteRequestFails(n, p)
        \/ \E m \in msgs :
              \/ HandleVoteRequest(n, m)
              \/ DieWhileVoting(n, m)
              \/ DeposedByVoteResponse(n, m)
              \/ HandleVoteResponse(n, m)
              \/ RejectHeartbeat(n, m)
              \/ AcceptHeartbeat(n, m)
              \/ HandleHeartbeatResponse(n, m)

Spec == Init /\ [][Next]_vars

(***************************************************************************)
(* Fairness: the heartbeat interval of a running leader keeps firing; the  *)
(* heartbeats of its present term are handled by the peers they are sent   *)
(* to and their answers come back (the network works, at least now and     *)
(* then, and a heartbeat is sent again and again); a request that is not   *)
(* answered times out (request_timeout_ms).  Nothing is assumed of         *)
(* election timers, of vote requests or of restarts.                       *)
(***************************************************************************)
HandleHeartbeatFrom(n, p) ==
    \E m \in msgs :
        m.from = p /\ m.term = currentTerm[p] /\ (RejectHeartbeat(n, m) \/ AcceptHeartbeat(n, m))

Fairness ==
    \A n \in Node :
        /\ WF_vars(SendHeartbeats(n))
        /\ WF_vars(\E m \in msgs : HandleHeartbeatResponse(n, m))
        /\ \A p \in Node :
              /\ WF_vars(HandleHeartbeatFrom(n, p))
              /\ WF_vars(VoteRequestFails(n, p))

FairSpec == Spec /\ Fairness

-----------------------------------------------------------------------------
(***************************************************************************)
(* Properties                                                              *)
(***************************************************************************)

\* Every variable has its type: in particular no handler stores or sends a
\* term above the bound or a vote for anything but a node.
TypeOK ==
    /\ currentTerm \in [Node -> Terms]
    /\ role \in [Node -> Roles]
    /\ votedFor \in [Node -> NodeOrNone]
    /\ leaderId \in [Node -> NodeOrNone]
    /\ peers \in [Node -> SUBSET Node]
    /\ isCatchingUp \in [Node -> BOOLEAN]
    /\ ballot \in [Node -> Ballot]
    /\ raftStore \in [Node -> DurableState]
    /\ raftLog \in [Node -> SUBSET LogEntry]
    /\ msgs \subseteq Message

Won(n, term) == Entry("election_won", term, n) \in raftLog[n]

\* c holds n's vote of the term, by n's own durable log
VotedFor(n, term, c) ==
    \/ Entry("vote_granted", term, c) \in raftLog[n]
    \/ n = c /\ Entry("election_start", term, n) \in raftLog[n]

(***************************************************************************)
(* One vote per term, as far as the code has it: across restarts, stale    *)
(* requests and lost answers, a node votes for two candidates of one term  *)
(* only if it won that term itself (startElection clears votedFor then).   *)
(***************************************************************************)
OneVotePerTermUnlessWon ==
    \A n, c, d \in Node : \A term \in Terms :
        VotedFor(n, term, c) /\ VotedFor(n, term, d) /\ c # d => Won(n, term)

(***************************************************************************)
(* Two nodes win the same term only through a winner of that term that     *)
(* voted for both of them: no lost, late or repeated message and no crash  *)
(* splits the leadership in another way.                                   *)
(***************************************************************************)
SplitLeadershipNeedsRevote ==
    \A a, b \in Node : \A term \in Terms :
        Won(a, term) /\ Won(b, term) /\ a # b =>
            \E q \in Node : Won(q, term) /\ VotedFor(q, term, a) /\ VotedFor(q, term, b)

(***************************************************************************)
(* A leader is a leader of a term that a majority of the cluster has       *)
(* reached: a node cut off from the majority campaigns in vain, and terms  *)
(* that a majority entered never go back (not even over restarts).         *)
(***************************************************************************)
MajorityReachedTermOfLeader ==
    \A n \in Node : role[n] = "leader" =>
        2 * Cardinality({q \in Node : currentTerm[q] >= currentTerm[n]}) > Cardinality(Node)

(***************************************************************************)
(* A node's term never decreases, and in a term its vote, once cast,       *)
(* changes only by winning: persistRaftState precedes every answer, so a   *)
(* restart forgets neither.                                                *)
(***************************************************************************)
KeepsTermAndVote(n) ==
    /\ currentTerm'[n] >= currentTerm[n]
    /\ currentTerm'[n] = currentTerm[n] /\ votedFor[n] # None =>
          \/ votedFor'[n] = votedFor[n]
          \/ role'[n] = "leader" /\ votedFor'[n] = None

TermAndVoteSurvive == [][\A n \in Node : KeepsTermAndVote(n)]_vars

(***************************************************************************)
(* A leader that lists a peer of a later term does not stay one while it   *)
(* does: its own heartbeats bring it the news.                             *)
(***************************************************************************)
StaleLeaderIsDeposed ==
    \A n, p \in Node :
        (role[n] = "leader" /\ p \in peers[n] /\ currentTerm[p] > currentTerm[n])
            ~> (role[n] # "leader" \/ p \notin peers[n])

(***************************************************************************)
(* electionInFlight is released, whatever the peers answer and whoever     *)
(* deposes the candidate meanwhile: the node can campaign again.           *)
(***************************************************************************)
ElectionsEnd ==
    \A n \in Node : ballot[n].inFlight ~> ~ballot[n].inFlight

(***************************************************************************)
(* Per README.md:637, "only one node is elected leader at a time": taken   *)
(* as Raft's election safety, at most one leader per term.                 *)
(***************************************************************************)
ElectionSafety ==
    \A a, b \in Node : role[a] = "leader" /\ role[b] = "leader" /\ a # b =>
        currentTerm[a] # currentTerm[b]

(***************************************************************************)
(* raft-state-machine.ts:124: while it is catching up from a snapshot "the *)
(* node must not become leader until it has a complete, current state".    *)
(***************************************************************************)
NeverElectedWhileCatchingUp ==
    [][\A n \in Node :
          role[n] # "leader" /\ role'[n] = "leader" => ~isCatchingUp[n]]_vars

(***************************************************************************)
(* runtime.ts:306: a node that is not the leader answers a join with a     *)
(* redirect "to leader", the node of leaderId: never to itself.            *)
(***************************************************************************)
RedirectsToAnotherNode ==
    \A n \in Node : role[n] # "leader" => leaderId[n] # n

(***************************************************************************)
(* README.md:640, "followers stay in sync": replication is pulled from the *)
(* listed peers (runtime.ts:459), so a follower lists the leader it        *)
(* follows.                                                                *)
(***************************************************************************)
FollowersPullFromTheirLeader ==
    \A n \in Node : role[n] = "follower" /\ leaderId[n] \notin {None, n} =>
        leaderId[n] \in peers[n]
-----------------------------------------------------------------------------
(***************************************************************************)
(* The inductive invariants behind the safety properties.  VoteInv is      *)
(* about each node alone: its store is what it has in memory, its log is   *)
(* not ahead of its term, and the votes its log holds for its present term *)
(* are the one in votedFor, unless it won that term.                       *)
(***************************************************************************)
StoreIsCurrent(n) ==
    raftStore[n] = [current_term |-> currentTerm[n], voted_for |-> votedFor[n],
                    leader_id |-> leaderId[n]]

LogIsBehindTerm(n) == \A e \in raftLog[n] : e.term <= currentTerm[n]

VoteIsKept(n) ==
    \A c \in Node : VotedFor(n, currentTerm[n], c) =>
        votedFor[n] = c \/ Won(n, currentTerm[n])

OneVoteUnlessWon(n) ==
    \A c, d \in Node : \A term \in Terms :
        VotedFor(n, term, c) /\ VotedFor(n, term, d) /\ c # d => Won(n, term)

NodeInv(n) ==
    StoreIsCurrent(n) /\ LogIsBehindTerm(n) /\ VoteIsKept(n) /\ OneVoteUnlessWon(n)

VoteInv == TypeOK /\ \A n \in Node : NodeInv(n)

(***************************************************************************)
(* MajorityInv relates the nodes: counted and granted votes are in the     *)
(* voters' logs, and whoever won a term has the votes of a majority.  It   *)
(* takes peer lists that leave out at most one node, as configured lists   *)
(* do and as the list of a leader does.                                    *)
(***************************************************************************)
IsFullList(list) == Cardinality(list) + 1 >= Cardinality(Node)
FullConfigLists == \A n \in Node : IsFullList(ConfigPeers[n])

ListsAreFull ==
    /\ \A n \in Node : IsFullList(peers[n])
    /\ \A m \in msgs : m.type = "heartbeat" => IsFullList(m.peers)

CountedVotesAreLogged ==
    \A n \in Node : \A q \in ballot[n].votes : VotedFor(q, ballot[n].term, n)

GrantedVotesAreLogged ==
    \A m \in msgs : m.type = "vote-response" /\ m.vote_granted =>
        VotedFor(m.from, m.request, m.to)

HasMajority(n, term) ==
    \E Q \in SUBSET Node :
        2 * Cardinality(Q) > Cardinality(Node) /\ \A q \in Q : VotedFor(q, term, n)

WinnersHadMajority == \A n \in Node : \A term \in Terms : Won(n, term) => HasMajority(n, term)

LeadersWonTheirTerm == \A n \in Node : role[n] = "leader" => Won(n, currentTerm[n])

MajorityInv ==
    /\ ListsAreFull /\ CountedVotesAreLogged /\ GrantedVotesAreLogged
    /\ WinnersHadMajority /\ LeadersWonTheirTerm
=============================================================================
