\* Every election ends when every line is delivered, and every node moves
\* as ElectionSpec allows: two nodes, four elections each, no symmetry
\* (liveness).
CONSTANTS
    n1 = n1
    n2 = n2
    n3 = n3
    Nil = Nil
    Server <- MCServer2
    MaxTerm = 4
    Lossy = FALSE
SPECIFICATION Spec
PROPERTIES
    CandidateResolves
    ImplementsElectionSpec
\* Every node may end at term MaxTerm with no timeout left to take.
CHECK_DEADLOCK FALSE
