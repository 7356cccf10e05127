\* The parts of the settings window, one at a time.
SPECIFICATION WindowSpec
CONSTANTS
    None = None
    a = a
    off = off
    fast = fast
    precise = precise
    Devices <- TwoDevices
    Aliases = {a}
    Presets = {off, fast, precise}
    Steps = {3, 5}
    Kinds = {"Mouse"}
    Defaults <- Fresh
    Written <- FromCommand
    Importable <- ToImport
    MaxEdits = 2
    MaxDialogs = 1
    Gui = gui
    Commands = {c1, c2}
    Mice = {m1, m2}
    Never = Never
    Units = {m1, m2}
    NotYet = NotYet
    MaxTime = 5
    MaxPlugs = 3
    Capacity = 2
    MaxNow = 2
    MaxScrolls = 3
    Matrices <- ShortMatrix
    Deltas <- SomeDeltas
    Bad = Bad
    NoTrial = NoTrial
    MaxClock = 5
    MaxEvents = 4
SYMMETRY CommandsAlike
INVARIANTS
    TypeOK
    ListIsCorrected
    TestNeedsItsDevice
PROPERTIES
    EditReachesItsTargetOnly
    OwnershipMovesWhole
    BenchmarkResultEarned
