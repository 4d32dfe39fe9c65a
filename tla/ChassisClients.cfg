\* Two clients, timeouts of one unit, and pings that are on the line long
\* enough for a later ping to overtake an earlier one's answer.
SPECIFICATION Spec
CONSTANTS
    Client = {c1, c2}
    None = None
    rxTimeoutMs = 1
    quiesceTimeoutMs = 1
    recoverTimeoutMs = 1
    MaxEcho = 1
INVARIANTS
    TypeOK
    ResultIsTold
PROPERTIES
    ToldIsOwed
    SilenceReported
