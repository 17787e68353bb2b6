CONSTANTS
    r1 = r1
    r2 = r2
    r3 = r3
    r4 = r4
    None = None
    Reqs <- MCReqs2
    BrokerMayFail = TRUE
    Cancel = TRUE
    ServerMayStop = TRUE
SPECIFICATION Spec
PROPERTY CallerAnswered
\* Callers stop submitting and every task may wait for input for good.
CHECK_DEADLOCK FALSE
