CONSTANTS
    r1 = r1
    r2 = r2
    r3 = r3
    r4 = r4
    None = None
    Reqs <- MCReqs
    BrokerMayFail = FALSE
    Cancel = FALSE
    ServerMayStop = FALSE
SPECIFICATION Spec
PROPERTY CallerAnswered
\* Callers stop submitting and every task may wait for input for good.
CHECK_DEADLOCK FALSE
