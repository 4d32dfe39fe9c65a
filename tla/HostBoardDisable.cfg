SPECIFICATION FairSpec
CONSTANTS
    RepeatPeriod = 1
    MaxLate = 0
    MaxDelay = 1
    CmdTimeout = 2
    MaxLine = 2
PROPERTY
    DisableHolds
