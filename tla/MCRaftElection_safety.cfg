\* Two Leaders elected in one term: a Follower grants every VoteRequest.
CONSTANTS
    n1 = n1
    n2 = n2
    n3 = n3
    Nil = Nil
    Server <- MCServer
    MaxTerm = 2
    Lossy = FALSE
SYMMETRY MCSymmetry
INIT Init
NEXT Next
INVARIANT ElectionSafety
CHECK_DEADLOCK FALSE
