\* A board that requests the session itself after it was flashed.
SPECIFICATION Spec
CONSTANTS
    Client = {c1, c2}
    kPingTime = 1
    kRepeatPingTime = 1
    kMaxPingRepeat = 0
    kConRspTimeout = 1
    kConRetryMax = 1
    conRetryMs = 1
    enResendMs = 1
    quiesceTimeoutMs = 1
    recoverTimeoutMs = 1
INVARIANTS
    RecoveringHasNoSession
