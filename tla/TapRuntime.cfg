\* The settings process against macOS, the user and a headless runtime.
SPECIFICATION FairSpec
CONSTANTS
    Threads <- TwoThreads
    MaxAttempts = 3
    UnhealthySamples = 2
    HealthySamples = 3
    MaxDisturbances = 2
INVARIANTS
    TypeOK
    OneTap
    RegisteredPortAlive
    OneTapThread
PROPERTIES
    PollTellsTruth
    SwitchOnSettles
    RestartsEnd
