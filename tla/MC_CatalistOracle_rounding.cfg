CONSTANTS
    o1 = o1
    o2 = o2
    Operators <- MC_Operators
    Owner <- MC_Owner
    ActivationEpoch <- MC_ActivationEpoch
    NumValidators = 3
    SlotsPerEpoch = 2
    ShardCommitteePeriod = 0
    DelinquentTimeoutInSlots = 2
    DelayedTimeoutInSlots = 3
    ExitDelay = 1
    MaxActivationEpoch = 1
    MaxSlot = 6
    FarFutureEpoch = 100
SPECIFICATION Spec
INVARIANT ReturnedBeforeAvailabilityDeadline
