\* The events of a tap in every order, and the tails, one part at a time.
SPECIFICATION ThreadSpec
CONSTANTS
    w1 = w1
    w2 = w2
    None = None
    Wheels <- TwoWheels
    Addresses = {a1, a2}
    IdentityOf <- OneModel
    SourceOf <- OneVirtual
    Events <- SomeEvents
    Configs <- OnAndOff
    Inventories <- SomeInventories
    TouchWindow = 1
    ResetWindow = 1
    HighAge = 0
    TimeoutAge = 1
    ObservedAge = 2
    IdleAge = 2
    U64Max = 8
    SampleInterval = 2
    SampleTtl = 2
    TailDuration = 3
    SessionGap = 4
    StopThreshold = 1
    Inputs <- WheelTicks
    MaxEvents = 3
    MaxResets = 1
SYMMETRY AddressesAlike
INVARIANTS
    TouchDecidesOnce
    MagicMouseNeedsEvidence
    GestureSteady
    IdentityOfTicker
    WakeCoversTails
    LedgerBalanced
    MotionStaysNearInput
PROPERTY
    LeaseSampledOnce
CHECK_DEADLOCK FALSE
