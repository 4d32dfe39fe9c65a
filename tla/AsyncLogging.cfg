\* Two lines fill a buffer; a batch of four buffers is a storm, a batch of
\* three is written whole.  A file of more than five lines is full.  The day
\* changes once, after the second of the three seconds.
SPECIFICATION Spec
CONSTANTS
    NoBuffer = NoBuffer
    Capacity = 2
    StormLimit = 3
    MaxLines = 8
    rollSize = 5
    flushInterval = 1
    checkEveryN = 3
    kRollPerSeconds = 4
    StartTime = 6
    MaxTime = 8
INVARIANTS
    BuffersCirculate
    DayRolls
PROPERTIES
    QueuePromised
    FileBounded
    Durable
    StopReturns
\* The thread has ended, or the process has crashed.
CHECK_DEADLOCK FALSE
