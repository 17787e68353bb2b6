--------------------------- MODULE RaftElection ---------------------------
(***************************************************************************)
(* The role state machine of josefine-raft (josefine-raft/src/raft.rs,     *)
(* follower.rs, candidate.rs) run by a cluster of nodes that talk over     *)
(* one FIFO line-protocol TCP stream per ordered pair of nodes             *)
(* (the NodeActor of josefine-raft/src/node.rs).                           *)
(*                                                                         *)
(* Each node applies one Command at a time (RaftHandle::apply); an action  *)
(* below is one whole apply().  Election (election.rs), the Leader role    *)
(* (leader.rs) and the Rpc trait (rpc.rs) are not among the sources and    *)
(* are modelled from spec.md section 4.3/4.4; their definitions say so.    *)
(*                                                                         *)
(* The log is not part of this module: Append commands and Propose belong  *)
(* to the replication model.                                               *)
(***************************************************************************)
EXTENDS Naturals, FiniteSets, Sequences, SequencesExt, TLC

CONSTANTS
    Server,     \* node ids of the cluster (the NodeMap, fixed at bootstrap)
    Nil,        \* Option::None
    MaxTerm,    \* bound on current_term: no election starts beyond it
    Lossy       \* TRUE: a NodeActor may lose a queued line (writer is None)

ASSUME MaxTerm \in Nat /\ Lossy \in BOOLEAN /\ Nil \notin Server

Follower  == "Follower"
Candidate == "Candidate"
Leader    == "Leader"

VARIABLES
    currentTerm,  \* State.current_term
    votedFor,     \* State.voted_for
    role,         \* which RaftHandle variant holds the node
    leaderId,     \* Follower.leader_id (only the Follower role has one)
    votes,        \* Candidate.election: the map NodeId -> granted; a Leader
                  \* keeps the one it won, a Follower has none
    chan,         \* chan[<<s, r>>]: lines queued on the stream from s to r
    \* history variables, never read by an action's guard:
    elections     \* every <<node, term>> at which a node became Leader

nodeVars == <<currentTerm, votedFor, role, leaderId, votes>>
ghostVars == <<elections>>
vars == <<nodeVars, chan, ghostVars>>

Terms == 0..MaxTerm

\* A quorum is a strict majority of the cluster: ceil((N+1)/2) nodes.
Quorum == {Q \in SUBSET Server : 2 * Cardinality(Q) > Cardinality(Server)}

\* The RPC lines a node sends.
VoteRequestMsg(t, c) == [type |-> "VoteRequest", term |-> t, from |-> c]
VoteResponseMsg(t, v, g) ==
    [type |-> "VoteResponse", term |-> t, from |-> v, granted |-> g]
HeartbeatMsg(t, l) == [type |-> "Heartbeat", term |-> t, from |-> l]

Msg == {VoteRequestMsg(t, c) : t \in Terms, c \in Server}
       \cup {VoteResponseMsg(t, v, g) : t \in Terms, v \in Server, g \in BOOLEAN}
       \cup {HeartbeatMsg(t, l) : t \in Terms, l \in Server}

TypeOK ==
    /\ currentTerm \in [Server -> Terms]
    /\ votedFor \in [Server -> Server \cup {Nil}]
    /\ role \in [Server -> {Follower, Candidate, Leader}]
    /\ leaderId \in [Server -> Server \cup {Nil}]
    \* only the Follower role carries a leader_id (the role is a type)
    /\ \A n \in Server : leaderId[n] # Nil => role[n] = Follower
    /\ \A n \in Server : votes[n] \in [DOMAIN votes[n] -> BOOLEAN]
                         /\ DOMAIN votes[n] \subseteq Server
    /\ chan \in [Server \X Server -> Seq(Msg)]

-----------------------------------------------------------------------------
(* Election: election.rs is not among the sources; its behaviour is the    *)
(* one spec.md 4.3 gives it.                                               *)

\* Election::election_status: Elected once the granted votes are a quorum,
\* Defeated once the denials leave no quorum reachable, Voting otherwise.
Granted(v) == {s \in DOMAIN v : v[s]}
Denied(v)  == {s \in DOMAIN v : ~v[s]}

Elected(v) == Granted(v) \in Quorum
DefeatedMutNever(v) == FALSE
Defeated(v) == (Server \ Denied(v)) \notin Quorum

\* Election::vote: insert into the map, overwriting an earlier answer.
Vote(v, voter, g) == (voter :> g) @@ v

-----------------------------------------------------------------------------
(* Transport: Rpc::respond_vote and the broadcast of a VoteRequest (rpc.rs *)
(* is not among the sources) queue one line on a stream.                   *)

Send(c, s, r, m) == [c EXCEPT ![<<s, r>>] = Append(@, m)]

Broadcast(c, s, m) ==
    [p \in DOMAIN c |-> IF p[1] = s /\ p[2] # s THEN Append(c[p], m) ELSE c[p]]

-----------------------------------------------------------------------------
(* Role transitions, each ending in the RaftHandle variant it returns.     *)

\* The role struct a transition builds: Candidate and Leader hold the
\* election, the Follower built by a From impl holds none.
KeepElection(n, v) == votes' = [votes EXCEPT ![n] = v]
DropElection(n) == votes' = [votes EXCEPT ![n] = <<>>]

\* The outcome of Candidate::apply(VoteResponse) once the vote is recorded
\* in v: Raft<Candidate> -> Raft<Leader> on Elected, -> Raft<Follower> on
\* Defeated (From impls of candidate.rs), a Candidate while Voting.
Tally(n, v) ==
    \/ /\ Elected(v)
       /\ role' = [role EXCEPT ![n] = Leader]
       /\ KeepElection(n, v)
       /\ elections' = elections \cup {<<n, currentTerm'[n]>>}
    \/ /\ ~Elected(v) /\ Defeated(v)
       /\ role' = [role EXCEPT ![n] = Follower]
       /\ DropElection(n)
       /\ UNCHANGED elections
    \/ /\ ~Elected(v) /\ ~Defeated(v)
       /\ role' = [role EXCEPT ![n] = Candidate]
       /\ KeepElection(n, v)
       /\ UNCHANGED elections

\* From<Raft<Follower>> for Raft<Candidate>: the Candidate struct has no
\* leader_id, so the one the Follower knew is gone.
FollowerToCandidateMutKeepLeader(n) == leaderId' = leaderId
FollowerToCandidate(n) == leaderId' = [leaderId EXCEPT ![n] = Nil]

\* Follower::apply(Timeout): Raft<Follower> -> Raft<Candidate> with a new
\* Election over the cluster and no leader_id, then seek_election: vote for
\* self, increment the term, and apply the self VoteResponse.  The
\* VoteRequest broadcast is the one spec.md 4.3 asks of a new Candidate.
Timeout(n) ==
    /\ role[n] = Follower
    /\ currentTerm[n] < MaxTerm
    /\ currentTerm' = [currentTerm EXCEPT ![n] = @ + 1]
    /\ votedFor' = [votedFor EXCEPT ![n] = n]
    /\ FollowerToCandidate(n)
    /\ Tally(n, (n :> TRUE))
    /\ chan' = Broadcast(chan, n, VoteRequestMsg(currentTerm'[n], n))

\* Leader heartbeat (leader.rs; spec.md 4.4): a Heartbeat line to a peer.
\* A stream that still holds this heartbeat gets no second copy: the
\* Follower's handling of a Heartbeat is idempotent.
SendHeartbeat(n, p) ==
    /\ role[n] = Leader
    /\ p # n
    /\ HeartbeatMsg(currentTerm[n], n) \notin ToSet(chan[<<n, p>>])
    /\ chan' = Send(chan, n, p, HeartbeatMsg(currentTerm[n], n))
    /\ UNCHANGED <<nodeVars, ghostVars>>

-----------------------------------------------------------------------------
(* Handlers of a line m from s delivered to node n.  rest is the channel   *)
(* function with m already taken off its stream.                           *)

\* Follower::apply: Heartbeat sets leader_id (and resets the election timer,
\* which is not modelled); VoteRequest answers granted = true, recording
\* nothing; every other command falls through to `_`.
FollowerHandle(n, s, m, rest) ==
    /\ \/ /\ m.type = "Heartbeat"
          /\ leaderId' = [leaderId EXCEPT ![n] = m.from]
          /\ chan' = rest
       \/ /\ m.type = "VoteRequest"
          /\ chan' = Send(rest, n, s, VoteResponseMsg(currentTerm[n], n, TRUE))
          /\ UNCHANGED leaderId
       \/ /\ m.type = "VoteResponse"
          /\ chan' = rest
          /\ UNCHANGED leaderId
    /\ UNCHANGED <<currentTerm, votedFor, role, votes, ghostVars>>

\* Candidate::apply: VoteRequest is denied; a VoteResponse is recorded in
\* the election whatever its term; a Heartbeat of term >= current_term
\* turns the node into a Follower with no leader_id (io.heartbeat has no
\* modelled state); a stale Heartbeat is ignored.
CandidateHandle(n, s, m, rest) ==
    \/ /\ m.type = "VoteRequest"
       /\ chan' = Send(rest, n, s, VoteResponseMsg(currentTerm[n], n, FALSE))
       /\ UNCHANGED <<nodeVars, ghostVars>>
    \/ /\ m.type = "VoteResponse"
       /\ chan' = rest
       /\ UNCHANGED <<currentTerm, votedFor, leaderId>>
       /\ Tally(n, Vote(votes[n], m.from, m.granted))
    \/ /\ m.type = "Heartbeat"
       /\ m.term >= currentTerm[n]
       /\ role' = [role EXCEPT ![n] = Follower]
       /\ DropElection(n)
       /\ chan' = rest
       /\ UNCHANGED <<currentTerm, votedFor, leaderId, elections>>
    \/ /\ m.type = "Heartbeat"
       /\ m.term < currentTerm[n]
       /\ chan' = rest
       /\ UNCHANGED <<nodeVars, ghostVars>>

\* Raft::term: forget the vote and take the new term.
StepDown(n, t) ==
    /\ currentTerm' = [currentTerm EXCEPT ![n] = t]
    /\ votedFor' = [votedFor EXCEPT ![n] = Nil]

\* The test a Leader applies to a line's term before stepping down
\* (leader.rs; spec.md 4.4: "any message with term > current_term").
HigherTermMutNe(n, m) == m.term # currentTerm[n]
HigherTerm(n, m) == m.term > currentTerm[n]

\* Leader::apply (leader.rs; spec.md 4.4): a line of higher term makes the
\* node step down through Raft::term (voted_for := None, current_term :=
\* term) and handle the line as a Follower; otherwise a VoteRequest is
\* denied and every other line ignored.
LeaderHandle(n, s, m, rest) ==
    \/ /\ HigherTerm(n, m)
       /\ StepDown(n, m.term)
       /\ role' = [role EXCEPT ![n] = Follower]
       /\ leaderId' = [leaderId EXCEPT ![n] = IF m.type = "Heartbeat" THEN m.from
                                                                     ELSE Nil]
       /\ chan' = IF m.type = "VoteRequest"
                  THEN Send(rest, n, s, VoteResponseMsg(m.term, n, TRUE))
                  ELSE rest
       /\ DropElection(n)
       /\ UNCHANGED elections
    \/ /\ ~HigherTerm(n, m)
       /\ chan' = IF m.type = "VoteRequest"
                  THEN Send(rest, n, s, VoteResponseMsg(currentTerm[n], n, FALSE))
                  ELSE rest
       /\ UNCHANGED <<nodeVars, ghostVars>>

\* RaftHandle::apply: the line at the head of the stream from s to n is
\* dispatched to the handler of n's current role.
Receive(s, n) ==
    /\ s # n
    /\ chan[<<s, n>>] # <<>>
    /\ LET m == Head(chan[<<s, n>>])
           rest == [chan EXCEPT ![<<s, n>>] = Tail(@)]
       IN  \/ role[n] = Follower /\ FollowerHandle(n, s, m, rest)
           \/ role[n] = Candidate /\ CandidateHandle(n, s, m, rest)
           \/ role[n] = Leader /\ LeaderHandle(n, s, m, rest)

\* A line is lost: NodeActor::handle drops it while writer is None (before
\* started() has connected, or after a failed connect, whose backoff stops
\* the actor), and a write error stops the actor (Running::Stop) with the
\* lines it holds.  The head of a stream is lost; the rest keep their order.
Drop(s, n) ==
    /\ Lossy
    /\ s # n
    /\ chan[<<s, n>>] # <<>>
    /\ chan' = [chan EXCEPT ![<<s, n>>] = Tail(@)]
    /\ UNCHANGED <<nodeVars, ghostVars>>

-----------------------------------------------------------------------------
\* RaftHandle::new: every node starts as a Follower at term 0 with no vote.
Init ==
    /\ currentTerm = [n \in Server |-> 0]
    /\ votedFor = [n \in Server |-> Nil]
    /\ role = [n \in Server |-> Follower]
    /\ leaderId = [n \in Server |-> Nil]
    /\ votes = [n \in Server |-> <<>>]
    /\ chan = [p \in Server \X Server |-> <<>>]
    /\ elections = {}

Next ==
    \/ \E n \in Server : Timeout(n)
    \/ \E s, n \in Server : SendHeartbeat(s, n) \/ Receive(s, n) \/ Drop(s, n)

\* The driver feeds every queued line into apply (one command queue per
\* node) and keeps sending Timeout; a TCP stream that is connected
\* delivers what it holds.
Fairness ==
    /\ \A s, n \in Server : WF_vars(Receive(s, n))
    /\ \A n \in Server : WF_vars(Timeout(n))

Spec == Init /\ [][Next]_vars /\ Fairness

-----------------------------------------------------------------------------
(* Properties                                                              *)

\* At most one node is ever elected Leader in a term (spec.md 3.6).  This
\* rests on Follower::apply(VoteRequest) granting at most one candidate per
\* term.
ElectionSafety ==
    \A e1, e2 \in elections : e1[2] = e2[2] => e1[1] = e2[1]

\* The role and term of every node move as ElectionSpec allows (spec.md 3,
\* 4.2-4.4): current_term never falls (Raft::term is the only assignment
\* besides seek_election's increment, and a Leader calls it only for a
\* higher term), a node becomes Leader only by winning at the term it
\* stood in, and a Leader leaves only for a Follower of a higher term.
ES == INSTANCE ElectionSpec WITH term <- currentTerm

ImplementsElectionSpec == ES!Spec

\* A Candidate's election does not last forever: it ends in Leader or
\* Follower, or a Timeout starts a fresh one at a higher term (spec.md
\* 4.3), even when some line of the election is lost.
CandidateResolves ==
    \A n \in Server, t \in Terms :
        (role[n] = Candidate /\ currentTerm[n] = t)
            ~> (role[n] # Candidate \/ currentTerm[n] # t)

=============================================================================
