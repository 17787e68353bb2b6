------------------------ MODULE MCCountingElection ------------------------
(* Model-checking instance of CountingElection: this node and four peers.  *)
EXTENDS CountingElection

CONSTANTS s, a, b, c, d

MCNodes == {s, a, b, c, d}

\* add_node_to_cluster is called with the peers (the cluster starts with
\* this node).
MCJoiners == {a, b, c, d}

\* The peers are interchangeable; this node is not.
MCSymmetry == Permutations({a, b, c, d})
=============================================================================
