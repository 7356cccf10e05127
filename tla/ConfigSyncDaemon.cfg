\* A headless runtime owns the tap; a file operation may fail.
SPECIFICATION FairSpec
CONSTANTS
    Seed <- SeedConfig
    UiEdits <- WindowEdit
    TrayEdits <- MenuEdit
    CliEdits <- CommandEdits
    WindowOnlyEdits <- SecondCommand
    Toggles <- AllSwitch
    Owners <- DaemonOnly
    MaxClicksPerTick = 1
    SocketCapacity = 1
    MaxStarts = 1
    MaxFaults = 1
INVARIANTS CopiesInOrder WindowAgreesWhenQuiet
PROPERTIES NoLostEdit  ImplementsRegister WindowConverges
