\* Three children in a row, two abort timers at once, two polls.
SPECIFICATION Spec
CONSTANTS
    MaxStarts = 3
    MaxTimers = 2
    MaxTries = 2
INVARIANTS
    TypeOK
    OneFlasher
    ExitMeansReaped
    PollKillsOnlyMute
PROPERTIES
    ExitIsReported
    AbortSucceeds
\* The object is destroyed, or all children have been started and ended.
CHECK_DEADLOCK FALSE
