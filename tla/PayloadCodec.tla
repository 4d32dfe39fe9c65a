------------------------------ MODULE PayloadCodec ------------------------------
(***************************************************************************)
(* The payloads of proto/FrameCodec: numbers in little-endian bytes, the   *)
(* payloads that the host packs and those that it parses.                  *)
(*                                                                         *)
(* A payload is the sequence of the bytes that were received, of which     *)
(* payload[k + 1] is p[k].  A number of 32 bits is the pair of its low and *)
(* its high half, whether it is a count, a time or a float.  A scaled      *)
(* number stays the integer it is on the line (tenths of rpm, hundredths   *)
(* of a degree), and the speed of a wheel that is asked for is a whole     *)
(* number of hundredths of rpm, or NaN.                                    *)
(***************************************************************************)
EXTENDS Integers, Sequences

CONSTANT NaN    \* a speed that is not a number

ASSUME NaNAssumption == NaN \notin Int

Unsigned(n) == 0 .. n - 1
Signed(n) == -n .. n - 1

Byte == Unsigned(256)
U16 == Unsigned(65536)
I16 == Signed(32768)
U32 == U16 \X U16

-----------------------------------------------------------------------------
(* Numbers.                                                                *)

putU16(x) == <<x % 256, (x \div 256) % 256>>

\* The cast to uint16_t takes the number modulo 2^16.
putI16(x) == putU16(x % 65536)

putU32(x) == putU16(x[1]) \o putU16(x[2])

getU16(p, k) == p[k + 1] + 256 * p[k + 2]

getI16(p, k) ==
    IF getU16(p, k) > 32767 THEN getU16(p, k) - 65536 ELSE getU16(p, k)

getU32(p, k) == <<getU16(p, k), getU16(p, k + 2)>>

\* Three numbers in a row, of two or of four bytes each.
Three16(p, k) == [i \in 0 .. 2 |-> getI16(p, k + 2 * i)]
Three32(p, k) == [i \in 0 .. 2 |-> getU32(p, k + 4 * i)]

-----------------------------------------------------------------------------
(* Telemetry: when a parser takes a payload, and what it makes of it.      *)

EncTaken(p) == Len(p) \in {18, 22}

parseEnc(p) ==
    [count |-> Three32(p, 0),
     rpm   |-> Three16(p, 12),
     hasTs |-> Len(p) = 22,
     tMs   |-> IF Len(p) = 22 THEN getU32(p, 18) ELSE <<0, 0>>]

EncData == [count : [0 .. 2 -> U32], rpm : [0 .. 2 -> I16], hasTs : BOOLEAN, tMs : U32]

ImuTaken(p) == Len(p) = 18

parseImu(p) ==
    [accel |-> Three16(p, 0), gyro |-> Three16(p, 6), rpy |-> Three16(p, 12)]

ImuData == [accel : [0 .. 2 -> I16], gyro : [0 .. 2 -> I16], rpy : [0 .. 2 -> I16]]

StatusTaken(p) == Len(p) >= 5

parseStatus(p) ==
    [uptime |-> p[1], rsv |-> p[2], imuOk |-> p[3], en |-> p[4], mode |-> p[5],
     con    |-> IF Len(p) > 5 THEN p[6] ELSE 0,
     hasCon |-> Len(p) > 5]

StatusData ==
    [uptime : Byte, rsv : Byte, imuOk : Byte, en : Byte, mode : Byte,
     con : Byte, hasCon : BOOLEAN]

TelemetryTaken(p) == Len(p) = 18

parseTelemetry(p) ==
    [tgt |-> Three16(p, 0), rpm |-> Three16(p, 6), out |-> Three16(p, 12)]

TelemetryData == [tgt : [0 .. 2 -> I16], rpm : [0 .. 2 -> I16], out : [0 .. 2 -> I16]]

OdomTaken(p) == Len(p) = 24

parseOdom(p) == [speed |-> Three32(p, 0), pose |-> Three32(p, 12)]

OdomData == [speed : [0 .. 2 -> U32], pose : [0 .. 2 -> U32]]

SysidMetaTaken(p) == Len(p) = 26

parseSysidMeta(p) ==
    [mode |-> p[1], motor |-> p[2], decim |-> p[3], status |-> p[4],
     gains |-> Three32(p, 4), amp |-> getI16(p, 16), bias |-> getI16(p, 18),
     n |-> getU16(p, 20), tStart |-> getU32(p, 22)]

SysidMeta ==
    [mode : Byte, motor : Byte, decim : Byte, status : Byte,
     gains : [0 .. 2 -> U32], amp : I16, bias : I16, n : U16, tStart : U32]

\* The sample count of the frame is that of its length.
SysidDataTaken(p) ==
    /\ Len(p) >= 14
    /\ (Len(p) - 4) % 10 = 0
    /\ p[3] = (Len(p) - 4) \div 10

SysidSampleAt(p, i) ==
    [idx |-> (getU16(p, 0) + i) % 65536, tMs |-> getU32(p, 4 + 10 * i),
     ref |-> getI16(p, 8 + 10 * i), rpm |-> getI16(p, 10 + 10 * i),
     out |-> getI16(p, 12 + 10 * i)]

parseSysidData(p) == [i \in 1 .. p[3] |-> SysidSampleAt(p, i - 1)]

SysidSample == [idx : U16, tMs : U32, ref : I16, rpm : I16, out : I16]

-----------------------------------------------------------------------------
(* The CON payload.                                                        *)

kConSenderBoard == 1
kConSenderHost == 2
kConProtocolType == 3
kConProtocolVersion == 1
ConMsgType == 0 .. 5

ConTaken(p) ==
    /\ Len(p) = 4
    /\ p[2] = kConProtocolType
    /\ p[3] \in ConMsgType
    /\ p[4] = kConProtocolVersion

unpackCon(p) == [sender |-> p[1], msgType |-> p[3]]

packCon(msgType, sender) == <<sender, kConProtocolType, msgType, kConProtocolVersion>>

-----------------------------------------------------------------------------
(* Commands.                                                               *)

Clamped(r) ==
    IF r > 327670 THEN 327670 ELSE IF r < -327680 THEN -327680 ELSE r

\* lround() of ten times the speed: to the nearest tenth of rpm, half away
\* from zero.
Rounded(r) == IF r >= 0 THEN (r + 5) \div 10 ELSE -((5 - r) \div 10)

\* What the speed r may become on the line.  NaN passes both comparisons of
\* the clamp, and what lround() makes of it is not specified.
Tenths(r) == IF r = NaN THEN I16 ELSE {Rounded(Clamped(r))}

packCmdVel(rpm) ==
    {putI16(t[0]) \o putI16(t[1]) \o putI16(t[2]) :
        t \in {u \in [0 .. 2 -> I16] : \A i \in 0 .. 2 : u[i] \in Tenths(rpm[i])}}

packCmdEn(en) == <<IF en THEN 1 ELSE 0>>

packCmdPid(kp, ki, kd) == putU32(kp) \o putU32(ki) \o putU32(kd)

packCmdTwist(vx, vy, wz) == putU32(vx) \o putU32(vy) \o putU32(wz)

Sign(s) == IF s >= 0 THEN 1 ELSE 255

packCmdSign(sign) == <<Sign(sign[0]), Sign(sign[1]), Sign(sign[2])>>

packPing(tMs) == putU32(tMs)

PingTaken(p) == Len(p) = 4

parsePing(p) == getU32(p, 0)

=============================================================================
