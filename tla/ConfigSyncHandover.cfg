\* The window and a headless runtime take turns at owning the tap.
SPECIFICATION FairSpec
CONSTANTS
    Seed <- SeedConfig
    UiEdits <- WindowEdit
    TrayEdits <- MenuEdit
    CliEdits <- CommandEdit
    WindowOnlyEdits <- None
    Toggles <- WindowAndCommandSwitch
    Owners <- Processes
    MaxClicksPerTick = 1
    SocketCapacity = 1
    MaxStarts = 2
    MaxFaults = 0
INVARIANTS LiveAgreesWhenQuiet
PROPERTIES LiveConverges
