\* Frames of two bytes, a tty that takes three, a buffer of at most five:
\* partial writes, waiting frames and the overflow all occur.
SPECIFICATION Spec
CONSTANTS
    FrameLen = 2
    Room = 3
    kTxOverflowLimit = 5
    MaxAccepted = 10
INVARIANTS
    TypeOK
    InOrder
    ArmedIffPending
PROPERTIES
    LossIsNoticed
\* The process has crashed.
CHECK_DEADLOCK FALSE
