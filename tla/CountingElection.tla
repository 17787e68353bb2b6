-------------------------- MODULE CountingElection --------------------------
(***************************************************************************)
(* The Candidate of the earlier raft module (src/src/raft/candidate.rs,    *)
(* src/src/raft/raft.rs), seen from one node: it counts the Vote commands  *)
(* it receives against majority(cluster.len()), where cluster is the Vec   *)
(* of nodes that add_node_to_cluster pushes onto.                          *)
(*                                                                         *)
(* The Follower and Leader roles of that module are not among the sources: *)
(* becoming a Candidate on a timeout and a Leader stepping down are taken  *)
(* from spec.md 4.2/4.4.                                                   *)
(***************************************************************************)
EXTENDS Naturals, FiniteSets, Sequences, SequencesExt

CONSTANTS
    Self,          \* the id of this node
    Nodes,         \* ids of the nodes
    Joiners,       \* ids add_node_to_cluster may be called with
    MaxClusterLen  \* bound on the length of the cluster Vec

ASSUME Self \in Nodes /\ Joiners \subseteq Nodes /\ MaxClusterLen \in Nat \ {0}

VARIABLES
    cluster,  \* Raft.cluster: Vec<Node>, duplicates possible
    role,     \* the ApplyResult variant holding the node
    votes,    \* Candidate.votes: HashMap<u64, bool>
    asked     \* peers that still owe an answer to the current election

vars == <<cluster, role, votes, asked>>

-----------------------------------------------------------------------------
(* The pure tally.                                                         *)

\* majority(total): 0 for a one-node cluster, total / 2 + 1 otherwise.
Majority(total) == IF total = 1 THEN 0 ELSE (total \div 2) + 1

\* The reference: a quorum of a set of nodes is a strict majority of it.
Quorum(S) == {Q \in SUBSET S : 2 * Cardinality(Q) > Cardinality(S)}

\* The fold over the votes map: <<granted votes, answers>>.
TalliedMutSwap(v) == <<Cardinality(DOMAIN v),
                       Cardinality({id \in DOMAIN v : v[id]})>>
Tallied(v) == <<Cardinality({id \in DOMAIN v : v[id]}),
                Cardinality(DOMAIN v)>>

\* The condition that turns the Candidate into a Leader.
Wins(v) == Tallied(v)[1] > Majority(Len(cluster))

Granted(v) == {id \in DOMAIN v : v[id]}

TypeOK ==
    /\ cluster \in Seq(Nodes) /\ Len(cluster) <= MaxClusterLen
    /\ role \in {"Follower", "Candidate", "Leader"}
    /\ votes \in [DOMAIN votes -> BOOLEAN] /\ DOMAIN votes \subseteq Nodes
    /\ asked \subseteq Nodes
    \* the Follower struct holds no votes map
    /\ role = "Follower" => votes = <<>>

-----------------------------------------------------------------------------

\* Raft::add_node_to_cluster: push the node, whatever the role, even if it
\* is already there.
AddNode(n) ==
    /\ Len(cluster) < MaxClusterLen
    /\ cluster' = Append(cluster, n)
    /\ UNCHANGED <<role, votes, asked>>

\* Candidate::apply(Vote): insert the answer, fold the map into <<votes,
\* total>>, and become Leader when votes > majority(cluster.len()).
Tally(v) ==
    /\ votes' = v
    /\ role' = IF Wins(v) THEN "Leader" ELSE "Candidate"

\* A Follower's election timeout (spec.md 4.2) and seek_election: a fresh
\* Candidate applies Vote { from: self, voted: true } to itself.  The
\* peers asked are the other nodes of the cluster.
SeekElection ==
    /\ role = "Follower"
    /\ asked' = ToSet(cluster) \ {Self}
    /\ Tally(Self :> TRUE)
    /\ UNCHANGED cluster

\* Candidate::apply(Vote) with a peer's answer.
Vote(from, voted) ==
    /\ role = "Candidate"
    /\ from \in asked
    /\ asked' = asked \ {from}
    /\ Tally((from :> voted) @@ votes)
    /\ UNCHANGED cluster

\* Candidate::apply(Append | Heartbeat): Raft<Candidate> -> Raft<Follower>,
\* whatever the sender's term.  The entries handed to io.append belong to
\* the log, which this module leaves out.
CandidateStepDownMutKeepVotes ==
    /\ role = "Candidate"
    /\ role' = "Follower"
    /\ asked' = {}
    /\ UNCHANGED <<cluster, votes>>
CandidateStepDown ==
    /\ role = "Candidate"
    /\ role' = "Follower"
    /\ votes' = <<>>
    /\ asked' = {}
    /\ UNCHANGED cluster

\* A Leader meets a higher term and steps down (spec.md 4.4).
LeaderStepDown ==
    /\ role = "Leader"
    /\ role' = "Follower"
    /\ votes' = <<>>
    /\ asked' = {}
    /\ UNCHANGED cluster

Init ==
    /\ cluster = <<Self>>
    /\ role = "Follower"
    /\ votes = <<>>
    /\ asked = {}

Next ==
    \/ \E n \in Joiners : AddNode(n)
    \/ SeekElection
    \/ \E from \in Nodes, voted \in BOOLEAN : Vote(from, voted)
    \/ CandidateStepDown
    \/ LeaderStepDown

Spec == Init /\ [][Next]_vars

-----------------------------------------------------------------------------
(* Properties                                                              *)

\* majority() agrees with the quorum rule for the current cluster length:
\* `votes > majority(total)` holds exactly when the votes are a strict
\* majority of total, for every vote count.
MajorityIsQuorum ==
    LET total == Len(cluster)
    IN  \A k \in 0..total : (k > Majority(total)) = (2 * k > total)

\* When a Candidate becomes Leader its granted votes are a quorum of the
\* distinct nodes of its cluster: the fold counts grants, never answers,
\* and duplicates in the cluster Vec only make the bar higher.
LeaderHasQuorum ==
    [][role # "Leader" /\ role' = "Leader" =>
         Granted(votes') \in Quorum(ToSet(cluster'))]_vars

=============================================================================
