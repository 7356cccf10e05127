\* Every operation of the store, two failing calls, one kill or power loss.
SPECIFICATION Spec
CONSTANTS
    updater = updater
    saver = saver
    creator = creator
    repairer = repairer
    Procs = {updater, saver, creator, repairer}
    Operation <- Operations
    UserDocs = {fine, bad}
    Broken = {bad}
    Defaults = Defaults
    Nobody = Nobody
    NoFile = NoFile
    None = None
    MaxFaults = 2
    MaxCrashes = 1
INVARIANTS AcknowledgedEditsStay WholeDocument BrokenBytesSurvive NoStrayFiles
PROPERTIES FailedRepairRestores ImplementsAtomicStore
CHECK_DEADLOCK FALSE
