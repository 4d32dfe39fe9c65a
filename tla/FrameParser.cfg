\* Three items on the line, one of them bad; a payload of at most five bytes,
\* so that a false header can claim a whole frame and a part of the next.
SPECIFICATION ParserSpec
CONSTANTS
    NaN = NaN
    kMaxPayload = 5
    Payload <- MCPayload
    Noise <- MCNoise
    Flip = {1, 255}
    Chunk = {1, 8}
    FirstSeq = 169
    MaxSent = 3
    MaxBad = 1
INVARIANTS
    ParserTypeOK
    ChunkingIrrelevant
    OnlySent
    Resynchronises
\* Everything was sent and read.
CHECK_DEADLOCK FALSE
