\* An election whose lines are lost never ends: Timeout is ignored by a Candidate.
CONSTANTS
    n1 = n1
    n2 = n2
    n3 = n3
    Nil = Nil
    Server <- MCServer2
    MaxTerm = 2
    Lossy = TRUE
SPECIFICATION Spec
PROPERTY CandidateResolves
CHECK_DEADLOCK FALSE
