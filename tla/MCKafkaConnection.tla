------------------------- MODULE MCKafkaConnection -------------------------
EXTENDS KafkaConnection, TLC

CONSTANTS r1, r2, r3, r4

MCReqs == {r1, r2, r3, r4}
MCReqs2 == {r1, r2}
MCSymmetry == Permutations(MCReqs)
=============================================================================
