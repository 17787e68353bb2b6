--------------------------- MODULE MCCreateTopics ---------------------------
EXTENDS CreateTopics, TLC

CONSTANTS h1, h2, h3, h4, a, b

\* h1 and h2 run Broker::handle, h3 and h4 CreateTopicsHandler::handle.
MCHandlers == {h1, h2, h3, h4}
MCControllers == {h3, h4}
MCNames == {a, b}
MCSymmetry == Permutations({h1, h2}) \cup Permutations({h3, h4}) \cup Permutations(MCNames)
=============================================================================
