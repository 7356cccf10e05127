\* Settings processes that start and end while commands edit the file.
SPECIFICATION FairSpec
CONSTANTS
    Launches <- TwoLaunches
    Reloaders <- OneReloader
    Openers <- OneOpener
    Running <- Nobody
    MaxQuits = 1
INVARIANTS
    OnePrimary
PROPERTIES
    CommitReachesWindow
    NewsIsKept
    OpenDelivered
    OpenIsKept
CHECK_DEADLOCK FALSE
