\* Two Broker handlers and two CreateTopicsHandlers on two names, two
\* partitions a topic, an empty or one-broker list, failing proposals.
CONSTANTS
    h1 = h1
    h2 = h2
    h3 = h3
    h4 = h4
    a = a
    b = b
    Handlers <- MCHandlers
    Controllers <- MCControllers
    Names <- MCNames
    NumPartitions = 2
    BrokerCounts = {0, 1}
    MayFail = TRUE
INIT Init
NEXT Next
SYMMETRY MCSymmetry
INVARIANT TypeOK
INVARIANT OkMeansCreated
\* Every handler ends returning Ok, Err or having panicked.
CHECK_DEADLOCK FALSE
