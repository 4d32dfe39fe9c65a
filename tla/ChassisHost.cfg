\* Two clients; every timeout is as short as it can be while its boundary
\* (reached, not reached, passed) still shows.
SPECIFICATION Spec
CONSTANTS
    Client = {c1, c2}
    kPingTime = 1
    kRepeatPingTime = 1
    kMaxPingRepeat = 0
    kConRspTimeout = 1
    kConRetryMax = 1
    conRetryMs = 1
    enResendMs = 1
    quiesceTimeoutMs = 1
    recoverTimeoutMs = 1
INVARIANTS
    SpeedIsAuthorised
    ChildIffFlashing
PROPERTIES
    DisableIsSticky
    SilentWhileFlashing
    UpdateEnds
    Reconnects
