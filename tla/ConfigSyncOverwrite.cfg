\* A tray click saves a copy the listener has just made stale.
SPECIFICATION Spec
CONSTANTS
    Seed <- SeedConfig
    UiEdits <- WindowEdit
    TrayEdits <- MenuEdit
    CliEdits <- CommandEdit
    WindowOnlyEdits <- None
    Toggles <- AllSwitch
    Owners <- GuiOnly
    MaxClicksPerTick = 1
    SocketCapacity = 1
    MaxStarts = 2
    MaxFaults = 0
PROPERTIES CliWriteKept
