CONSTANTS
    m1 = m1
    m2 = m2
    k1 = k1
    k2 = k2
    Modules <- MC_Modules
    OperatorIds <- MC_OperatorIds
    Pubkeys <- MC_Pubkeys
    KacMayLag = TRUE
SPECIFICATION Spec
INVARIANTS
    TypeOK
    ExitedNeverExceedsChain
