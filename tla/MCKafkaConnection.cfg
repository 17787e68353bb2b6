CONSTANTS
    r1 = r1
    r2 = r2
    r3 = r3
    r4 = r4
    None = None
    Reqs <- MCReqs
    BrokerMayFail = TRUE
    Cancel = TRUE
    ServerMayStop = TRUE
INIT Init
NEXT Next
SYMMETRY MCSymmetry
INVARIANT TypeOK
\* Callers stop submitting and every task may wait for input for good.
CHECK_DEADLOCK FALSE
