\* A command switches off while the window's own switching off is unsaved.
SPECIFICATION Spec
CONSTANTS
    Seed <- SeedConfig
    UiEdits <- WindowEdit
    TrayEdits <- None
    CliEdits <- CommandEdit
    WindowOnlyEdits <- None
    Toggles <- AllSwitch
    Owners <- DaemonOnly
    MaxClicksPerTick = 1
    SocketCapacity = 1
    MaxStarts = 1
    MaxFaults = 0
INVARIANT PauseEndsWithSwitch
