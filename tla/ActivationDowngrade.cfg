\* Can a reload replace a pending request to show the window?
SPECIFICATION Spec
CONSTANTS
    Launches <- OneLaunch
    Reloaders <- TwoReloaders
    Openers <- OneOpener
    Running <- Primary
    MaxQuits = 0
PROPERTY
    NoDowngrade
CHECK_DEADLOCK FALSE
