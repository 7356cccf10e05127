\* Does a launch that finds the lock taken always find a window?
SPECIFICATION FairSpec
CONSTANTS
    Launches <- OneLaunch
    Reloaders <- OneReloader
    Openers <- Nobody
    Running <- Nobody
    MaxQuits = 0
PROPERTY
    LaunchOpensWindow
CHECK_DEADLOCK FALSE
