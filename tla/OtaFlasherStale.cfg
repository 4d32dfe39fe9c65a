\* Two children: an abort of the first and a quick second start.
SPECIFICATION Spec
CONSTANTS
    MaxStarts = 2
    MaxTimers = 1
    MaxTries = 1
INVARIANTS
    KillsOnlyItsTarget
CHECK_DEADLOCK FALSE
