\* Counting tally of src/src/raft/candidate.rs: clusters of up to five entries.
CONSTANTS
    s = s
    a = a
    b = b
    c = c
    d = d
    Self = s
    Nodes <- MCNodes
    Joiners <- MCJoiners
    MaxClusterLen = 5
SYMMETRY MCSymmetry
INIT Init
NEXT Next
INVARIANT TypeOK
PROPERTY LeaderHasQuorum
