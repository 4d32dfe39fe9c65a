\* Units of 100 ms: the constants of link/ConSm.h and of the board's watchdog,
\* ticks up to 100 ms late, frames on their way for up to 100 ms.
SPECIFICATION LinkSpec
CONSTANTS
    kPingTime = 10
    kRepeatPingTime = 3
    kMaxPingRepeat = 2
    kConRspTimeout = 4
    kConRetryMax = 5
    MaxLate = 1
    MaxDelay = 1
    BoardTimeout = 30
INVARIANTS
    HostGivesUpFirst
    SplitBounded
PROPERTIES
    SessionIsRebuilt
