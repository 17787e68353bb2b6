--------------------------- MODULE ElectionSpec ----------------------------
(***************************************************************************)
(* What a Raft node promises of its role and term (spec.md 3, 4.2-4.4),   *)
(* one node per step, whatever the messages that drive it:                 *)
(*   - a term only grows; it grows by one when an election starts, and     *)
(*     otherwise only when the node meets a higher term;                   *)
(*   - only a Candidate that wins becomes Leader, in the term it stood in, *)
(*     or a node alone in its cluster at the start of its election;        *)
(*   - a Leader keeps its term as long as it leads and leaves only for a   *)
(*     Follower of a higher term.                                          *)
(* The module is only used as a property: its steps constrain the primed  *)
(* state instead of choosing it.                                           *)
(***************************************************************************)
EXTENDS Naturals

CONSTANT Server

VARIABLES term, role

Roles == {"Follower", "Candidate", "Leader"}

\* No node but n changes.
Only(n) == \A m \in Server \ {n} : term'[m] = term[m] /\ role'[m] = role[m]

\* A Follower or Candidate times out and stands at the next term (4.2, 4.3);
\* its own vote may already be a quorum.
BeginElection(n) ==
    /\ role[n] \in {"Follower", "Candidate"}
    /\ term'[n] = term[n] + 1
    /\ role'[n] \in {"Candidate", "Leader"}

\* A Candidate counts a quorum of grants: Leader in the same term (4.3).
Win(n) ==
    /\ role[n] = "Candidate"
    /\ term'[n] = term[n]
    /\ role'[n] = "Leader"

\* A Candidate gives up its election for a Follower at its term or a
\* higher one (4.3: defeat, a leader's heartbeat, a higher term).
Abandon(n) ==
    /\ role[n] = "Candidate"
    /\ term'[n] >= term[n]
    /\ role'[n] = "Follower"

\* A Leader or Follower meets a higher term: Follower at that term (4.4).
AdoptTerm(n) ==
    /\ role[n] \in {"Follower", "Leader"}
    /\ term'[n] > term[n]
    /\ role'[n] = "Follower"

Init ==
    /\ term = [n \in Server |-> 0]
    /\ role = [n \in Server |-> "Follower"]

Next ==
    \E n \in Server :
        /\ Only(n)
        /\ BeginElection(n) \/ Win(n) \/ Abandon(n) \/ AdoptTerm(n)

Spec == Init /\ [][Next]_<<term, role>>

=============================================================================
