\* majority() against the quorum rule for cluster sizes 1..4.
CONSTANTS
    s = s
    a = a
    b = b
    c = c
    d = d
    Self = s
    Nodes <- MCNodes
    Joiners <- MCJoiners
    MaxClusterLen = 5
SYMMETRY MCSymmetry
INIT Init
NEXT Next
INVARIANT MajorityIsQuorum
