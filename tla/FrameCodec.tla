------------------------------ MODULE FrameCodec ------------------------------
(***************************************************************************)
(* The frame format of proto/FrameCodec: the checksum, the packing of a    *)
(* frame, and one round of the loop in FrameParser::feed() that takes      *)
(* frames out of the bytes received.  Recursion is by functions, and the   *)
(* operation on bits a sum, so that the module can be reasoned about.      *)
(***************************************************************************)
EXTENDS PayloadCodec, SequencesExt

CONSTANT kMaxPayload    \* longest payload (32)

ASSUME CodecAssumption == kMaxPayload \in 0 .. 84

kHead0 == 170
kHead1 == 85
kFrameOverhead == 7
kMaxFrame == kFrameOverhead + kMaxPayload

-----------------------------------------------------------------------------
(* CRC16-MODBUS.                                                           *)

\* a ^ b of two 16-bit numbers: the bit of weight w, four bits, all of them.
XorBit(a, b, w) == w * (((a \div w) + (b \div w)) % 2)

XorFour(a, b, w) ==
    XorBit(a, b, w) + XorBit(a, b, 2 * w) + XorBit(a, b, 4 * w) + XorBit(a, b, 8 * w)

Xor(a, b) ==
    XorFour(a, b, 1) + XorFour(a, b, 16) + XorFour(a, b, 256) + XorFour(a, b, 4096)

\* One of the eight shifts for a byte.
Shift(crc) ==
    IF crc % 2 = 1 THEN Xor(crc \div 2, 40961) ELSE crc \div 2

ShiftTwice(crc) == Shift(Shift(crc))

CrcByte(crc, b) == ShiftTwice(ShiftTwice(ShiftTwice(ShiftTwice(Xor(crc, b)))))

crc16Modbus(data) ==
    LET crc[i \in 0 .. Len(data)] ==
            IF i = 0 THEN 65535 ELSE CrcByte(crc[i - 1], data[i])
    IN  crc[Len(data)]

\* The two checksum bytes of a frame whose type, length, sequence number and
\* payload are given.
Checksum(covered) == putU16(crc16Modbus(covered))

packFrame(f) ==
    LET covered == <<f.type, Len(f.payload), f.seq>> \o f.payload
    IN  <<kHead0, kHead1>> \o covered \o Checksum(covered)

-----------------------------------------------------------------------------
(* The parser: its buffer, its statistics, and the frames that the current *)
(* call of feed() has found.                                               *)

EmptyParser == [buf |-> <<>>, frames |-> 0, crcErr |-> 0, drop |-> 0, out |-> <<>>]

Headers(buf) ==
    {i \in 1 .. Len(buf) - 1 : buf[i] = kHead0 /\ buf[i + 1] = kHead1}

\* The first n bytes of the buffer are removed, and counted as c.
Dropped(p, n, c) ==
    [p EXCEPT !.buf = SubSeq(@, n + 1, Len(@)), !.drop = @ + c]

\* No header: only a last byte that may begin one is kept.
WithoutHeader(p) ==
    LET keep == IF p.buf # <<>> /\ Last(p.buf) = kHead0 THEN 1 ELSE 0
        n    == Len(p.buf) - keep
    IN  Dropped(p, n, n)

\* Seeded fault: the checksum of a complete frame is not looked at.
TakeUnchecked(p, plen) ==
    [Dropped(p, kFrameOverhead + plen, 0) EXCEPT
        !.frames = @ + 1,
        !.out = Append(@, [type |-> p.buf[3], seq |-> p.buf[5],
                           payload |-> SubSeq(p.buf, 6, 5 + plen)])]

\* A complete frame leaves the buffer; it is good if its checksum is.
TakeFrame(p, plen) ==
    LET rest == Dropped(p, kFrameOverhead + plen, 0)
    IN  IF SubSeq(p.buf, 6 + plen, 7 + plen) = Checksum(SubSeq(p.buf, 3, 5 + plen))
        THEN [rest EXCEPT
                 !.frames = @ + 1,
                 !.out = Append(@, [type |-> p.buf[3], seq |-> p.buf[5],
                                    payload |-> SubSeq(p.buf, 6, 5 + plen)])]
        ELSE [rest EXCEPT !.crcErr = @ + 1]

\* Seeded fault: every length is believed.
TooLongNever(plen) == FALSE

TooLong(plen) == plen > kMaxPayload

\* What the loop does with a header at the front of the buffer.
AtHeader(p) ==
    LET plen == p.buf[4]
    IN  IF Len(p.buf) < 5 THEN p
        ELSE IF TooLong(plen) THEN Dropped(p, 2, 1)
        ELSE IF Len(p.buf) < kFrameOverhead + plen THEN p
        ELSE TakeFrame(p, plen)

\* One round of the loop; a parser that waits for more bytes is unchanged.
Round(p) ==
    LET heads == Headers(p.buf)
    IN  IF heads = {} THEN WithoutHeader(p)
        ELSE AtHeader(Dropped(p, Min(heads) - 1, Min(heads) - 1))

\* The parser after n rounds.
Rounds(p, n) ==
    LET after[i \in 0 .. n] == IF i = 0 THEN p ELSE Round(after[i - 1])
    IN  after[n]

\* The parser with bytes that were received.
Received(p, data) == [p EXCEPT !.buf = @ \o data]

\* The parser after feed(data).  A round that does not wait removes at least
\* one byte, so there are never more rounds than bytes.
feed(p, data) ==
    LET start == Received([p EXCEPT !.out = <<>>], data)
    IN  Rounds(start, Len(start.buf))

=============================================================================
