CONSTANTS
    o1 = o1
    o2 = o2
    Operators <- MC_Operators
    Owner <- MC_OwnerOneOperator
    ActivationEpoch <- MC_ActivationEpochTwo
    NumValidators = 2
    SlotsPerEpoch = 2
    ShardCommitteePeriod = 0
    DelinquentTimeoutInSlots = 2
    DelayedTimeoutInSlots = 4
    ExitDelay = 1
    MaxActivationEpoch = 1
    MaxSlot = 6
    FarFutureEpoch = 100
SPECIFICATION FairSpec
PROPERTY StuckEventuallyReported
