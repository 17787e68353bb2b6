\* Safety of elections: three nodes, two elections per node at most, any
\* line may be lost.
CONSTANTS
    n1 = n1
    n2 = n2
    n3 = n3
    Nil = Nil
    Server <- MCServer
    MaxTerm = 2
    Lossy = TRUE
SYMMETRY MCSymmetry
INIT Init
NEXT Next
INVARIANTS
    TypeOK
\* Every node may end at term MaxTerm with no timeout left to take.
CHECK_DEADLOCK FALSE
