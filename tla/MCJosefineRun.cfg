\* run's three tasks, the broker and Raft tasks failing or not, the
\* shutdown signal at any point (liveness).
CONSTANT MayFail = TRUE
SPECIFICATION Spec
INVARIANT TypeOK
PROPERTIES
    NoOrphanTask
    ShutdownReturns
\* run has returned and its tasks have ended: the process stops.
CHECK_DEADLOCK FALSE
