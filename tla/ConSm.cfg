\* Units of 100 ms: the constants of link/ConSm.h, ticks up to 200 ms late.
SPECIFICATION Spec
CONSTANTS
    kPingTime = 10
    kRepeatPingTime = 3
    kMaxPingRepeat = 2
    kConRspTimeout = 4
    kConRetryMax = 5
    MaxLate = 2
INVARIANTS
    TimersFitState
    SilenceNoticed
    HandshakeBounded
PROPERTIES
    SessionPromised
