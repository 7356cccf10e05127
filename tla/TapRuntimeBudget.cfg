\* Is the attempt budget kept through a loss of the permission, as documented?
SPECIFICATION FairSpec
CONSTANTS
    Threads <- TwoThreads
    MaxAttempts = 3
    UnhealthySamples = 2
    HealthySamples = 3
    MaxDisturbances = 2
PROPERTY
    BudgetSurvivesFlap
