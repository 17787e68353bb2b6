-------------------------- MODULE MCRaftElection --------------------------
(* Model-checking instance of RaftElection: nodes as model values.        *)
EXTENDS RaftElection

CONSTANTS n1, n2, n3

MCServer == {n1, n2, n3}

\* Two nodes, for the liveness runs: every election needs the peer's answer.
MCServer2 == {n1, n2}

\* Permuting node ids maps behaviours to behaviours: nothing in the model
\* orders nodes.  Not used with liveness properties.
MCSymmetry == Permutations(MCServer)
=============================================================================
