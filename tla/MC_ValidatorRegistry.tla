------------------------- MODULE MC_ValidatorRegistry -------------------------
EXTENDS ValidatorRegistry, TLC

CONSTANTS m1, m2, k1, k2

MC_Modules == {m1, m2}
MC_OperatorIds == {0, 1}
MC_Pubkeys == {k1, k2}
=============================================================================
