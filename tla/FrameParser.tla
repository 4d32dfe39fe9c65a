------------------------------ MODULE FrameParser ------------------------------
(***************************************************************************)
(* Frames on the serial line and the FrameParser at its end.  The line     *)
(* carries good frames, and a few times something else: noise, a frame cut *)
(* short, a frame with a damaged byte.  The reader gets the bytes in       *)
(* chunks of any size, and may lose the port and open it again.            *)
(***************************************************************************)
EXTENDS FrameCodec

CONSTANTS
    Payload,    \* the payloads that are sent
    Noise,      \* byte sequences that are no frames
    Flip,       \* what a damaged byte is XORed with
    Chunk,      \* the sizes of the chunks that are read
    FirstSeq,   \* the sender's sequence counter at the beginning
    MaxSent,    \* bound: frames and others on the line in one run
    MaxBad      \* bound: those of them that are no good frames

ASSUME ParserAssumption ==
    /\ \A payload \in Payload : payload \in Seq(Byte) /\ Len(payload) <= kMaxPayload
    /\ Noise \subseteq Seq(Byte) /\ Flip \subseteq 1 .. 255
    /\ Chunk \subseteq Nat \ {0}
    /\ FirstSeq \in Byte /\ MaxSent \in Nat /\ MaxBad \in Nat

VARIABLES
    line,      \* bytes on their way
    fed,       \* bytes that were read
    parser,    \* parser_
    got,       \* the frames that feed() has returned
    txSeq,     \* the sender's sequence counter
    sent,      \* the good frames, each with the place of its first byte,
               \* which is Gone if the port was lost before its last byte came
    bad,       \* faults so far: things other than good frames, lost ports
    badFrom,   \* where the first of them begins (of what was read), or 0
    badTo      \* where the last of them ends, or 0

parserVars == <<line, fed, parser, got, txSeq, sent, bad, badFrom, badTo>>

ParserInit ==
    /\ line = <<>> /\ fed = <<>>
    /\ parser = EmptyParser
    /\ got = <<>>
    /\ txSeq = FirstSeq
    /\ sent = <<>>
    /\ bad = 0 /\ badFrom = 0 /\ badTo = 0

-----------------------------------------------------------------------------
Gone == 0
Place == Len(fed) + Len(line)
MaySend == Len(sent) + bad < MaxSent

NextFrame(payload) == [type |-> 1, seq |-> txSeq, payload |-> payload]

SendFrame(payload) ==
    /\ MaySend
    /\ line' = line \o packFrame(NextFrame(payload))
    /\ txSeq' = (txSeq + 1) % 256
    /\ sent' = Append(sent, [frame |-> NextFrame(payload), at |-> Place + 1])
    /\ UNCHANGED <<fed, parser, got, bad, badFrom, badTo>>

\* Bytes arrive that are no good frame.
Spoil(bytes) ==
    /\ MaySend /\ bad < MaxBad
    /\ line' = line \o bytes
    /\ bad' = bad + 1
    /\ badFrom' = IF badFrom = 0 THEN Place + 1 ELSE badFrom
    /\ badTo' = Place + Len(bytes)
    /\ UNCHANGED <<fed, parser, got, sent>>

SendNoise(bytes) == Spoil(bytes) /\ UNCHANGED txSeq

\* A frame one of whose bytes is damaged.
SendDamaged(payload, i, mask) ==
    /\ Spoil([packFrame(NextFrame(payload)) EXCEPT ![i] = Xor(@, mask)])
    /\ txSeq' = (txSeq + 1) % 256

\* A frame that is cut off after n bytes.
SendCut(payload, n) ==
    /\ Spoil(SubSeq(packFrame(NextFrame(payload)), 1, n))
    /\ txSeq' = (txSeq + 1) % 256

\* Seeded fault: what was left of the last chunk is forgotten.
FeedForgets(n) ==
    /\ n <= Len(line)
    /\ fed' = fed \o SubSeq(line, 1, n)
    /\ line' = SubSeq(line, n + 1, Len(line))
    /\ parser' = feed([parser EXCEPT !.buf = <<>>], SubSeq(line, 1, n))
    /\ got' = got \o parser'.out
    /\ UNCHANGED <<txSeq, sent, bad, badFrom, badTo>>

\* onSerialData() with n bytes.
Feed(n) ==
    /\ n <= Len(line)
    /\ fed' = fed \o SubSeq(line, 1, n)
    /\ line' = SubSeq(line, n + 1, Len(line))
    /\ parser' = feed(parser, SubSeq(line, 1, n))
    /\ got' = got \o parser'.out
    /\ UNCHANGED <<txSeq, sent, bad, badFrom, badTo>>

Unread(s) == s.at + kFrameOverhead + Len(s.frame.payload) - 1 > Len(fed)

\* The port is lost and opened again: what was not read is lost, parser_
\* keeps what it has.
Reopen ==
    /\ fed # <<>> /\ bad < MaxBad
    /\ line' = <<>>
    /\ sent' = [i \in DOMAIN sent |->
                   IF Unread(sent[i]) THEN [sent[i] EXCEPT !.at = Gone] ELSE sent[i]]
    /\ bad' = bad + 1
    /\ badFrom' = IF badFrom = 0 THEN Len(fed) ELSE Min({badFrom, Len(fed)})
    /\ badTo' = Len(fed)
    /\ UNCHANGED <<fed, parser, got, txSeq>>

ParserNext ==
    \/ \E payload \in Payload :
          \/ SendFrame(payload)
          \/ \E i \in 1 .. kFrameOverhead + Len(payload), mask \in Flip :
                SendDamaged(payload, i, mask)
          \/ \E n \in 1 .. kFrameOverhead + Len(payload) - 1 : SendCut(payload, n)
    \/ \E bytes \in Noise : SendNoise(bytes)
    \/ \E n \in Chunk : Feed(n)
    \/ Reopen

ParserSpec == ParserInit /\ [][ParserNext]_parserVars

-----------------------------------------------------------------------------
AnyFrame == [type : Byte, seq : Byte, payload : Seq(Byte)]

\* What is kept between two calls is the beginning of one frame: it begins
\* like one and is shorter than the longest, so that the buffer is bounded.
ParserTypeOK ==
    /\ line \in Seq(Byte) /\ fed \in Seq(Byte)
    /\ parser.buf \in Seq(Byte) /\ Len(parser.buf) < kMaxFrame
    /\ parser.buf # <<>> => parser.buf[1] = kHead0
    /\ {parser.frames, parser.crcErr, parser.drop} \subseteq Nat
    /\ got \in Seq(AnyFrame)

\* How the bytes are cut into chunks makes no difference: the frames returned
\* so far, the statistics and the buffer are those of one call with all bytes.
ChunkingIrrelevant ==
    LET once == feed(EmptyParser, fed)
    IN  got = once.out /\ parser = [once EXCEPT !.out = parser.out]

\* Nothing is made up: the frames returned are good frames that were sent, in
\* the order they were sent, each once, whatever noise and damage there is.
OnlySent ==
    \E from \in [DOMAIN got -> DOMAIN sent] :
        /\ \A i \in DOMAIN got : got[i] = sent[from[i]].frame
        /\ \A i, j \in DOMAIN got : i < j => from[i] < from[j]

\* A frame in which no header seems to begin after its own.
Plain(f) == Headers(Tail(packFrame(f))) = {}

\* The parser finds its way back: a good frame is lost only if something bad
\* came before it, and then only among the next kMaxFrame - 4 bytes, which a
\* false header, or the beginning of a frame that was left in parser_ when the
\* port was lost, can claim as its own (if no payload looks like a header).
Resynchronises ==
    line = <<>> =>
        \A i \in DOMAIN sent :
            \/ sent[i].frame \in ToSet(got)
            \/ sent[i].at = Gone
            \/ /\ badFrom # 0
               /\ sent[i].at > badFrom
               /\ \/ sent[i].at <= badTo + kMaxFrame - 4
                  \/ \E j \in 1 .. i : sent[j].at > badFrom /\ ~Plain(sent[j].frame)

=============================================================================
