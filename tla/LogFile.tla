-------------------------------- MODULE LogFile --------------------------------
(***************************************************************************)
(* The rolling log file, log/LogFile and log/FileUtil, as operators on a   *)
(* record: one thread writes it, so there is no lock.  Sizes are in lines, *)
(* times in seconds.  Files open and take what they are given; the names   *)
(* they get, which hold the second of the opening, are left out.           *)
(*                                                                         *)
(*   lines          all that was appended, in all files                    *)
(*   synced         how many of them the system has for certain; the rest  *)
(*                  may still be in the buffer of the open file            *)
(*   written        writtenBytes() of the open file                        *)
(*   count, startOfPeriod, lastRoll, lastFlush     the members             *)
(*   stale          appends to the open file on another day than its own   *)
(*                  (history)                                              *)
(***************************************************************************)
EXTENDS Integers, Sequences

CONSTANTS
    rollSize,         \* rollSize_
    flushInterval,    \* flushInterval_
    checkEveryN,      \* checkEveryN_
    kRollPerSeconds   \* kRollPerSeconds_, the length of a day

ASSUME LogFileAssumption ==
    /\ {rollSize, flushInterval} \subseteq Nat
    /\ {checkEveryN, kRollPerSeconds} \subseteq Nat \ {0}

Period(now) == (now \div kRollPerSeconds) * kRollPerSeconds

\* lastRoll_(0) comes after file_ in the order of declaration and overwrites
\* what getLogFileName() has put there.
NewLogFile ==
    [lines |-> <<>>, synced |-> 0, written |-> 0, count |-> 0,
     startOfPeriod |-> Period(0), lastRoll |-> 0, lastFlush |-> 0, stale |-> 0]

Write(log, lines) ==
    [log EXCEPT !.lines = @ \o lines, !.written = @ + Len(lines)]

Flush(log) == [log EXCEPT !.synced = Len(log.lines)]

\* Seeded fault: the roll of a full file leaves the lines of its buffer to
\* the next flush, which is that of the new file.
RollFileUnflushed(log, now) ==
    IF now > log.lastRoll
    THEN [log EXCEPT !.lines = SubSeq(@, 1, log.synced), !.written = 0, !.stale = 0,
                     !.lastRoll = now, !.lastFlush = now,
                     !.startOfPeriod = Period(now)]
    ELSE log

\* Closing the old file flushes it.  Two files cannot have the same second.
RollFile(log, now) ==
    IF now > log.lastRoll
    THEN [Flush(log) EXCEPT !.written = 0, !.stale = 0,
                            !.lastRoll = now, !.lastFlush = now,
                            !.startOfPeriod = Period(now)]
    ELSE log

\* What is done on every checkEveryN-th append.
PeriodicCheck(log, now) ==
    IF Period(now) # log.startOfPeriod THEN RollFile(log, now)
    ELSE IF now - log.lastFlush > flushInterval
         THEN Flush([log EXCEPT !.lastFlush = now])
         ELSE log

\* Seeded fault: the counter is compared before it is increased.
CountedLate(log, now) ==
    IF log.count >= checkEveryN
    THEN PeriodicCheck([log EXCEPT !.count = 0], now)
    ELSE [log EXCEPT !.count = @ + 1]

Counted(log, now) ==
    IF log.count + 1 >= checkEveryN
    THEN PeriodicCheck([log EXCEPT !.count = 0], now)
    ELSE [log EXCEPT !.count = @ + 1]

\* The test for a full file.
Full(log) == log.written > rollSize

Dated(log, now) ==
    IF Period(now) = log.startOfPeriod THEN log ELSE [log EXCEPT !.stale = @ + 1]

\* Seeded fault: the size is tested on the occasion of the periodic check.
AppendUnlockedLazily(log, lines, now) ==
    LET wrote == Dated(Write(log, lines), now)
    IN  IF Full(wrote) /\ wrote.count + 1 >= checkEveryN
        THEN RollFile(wrote, now) ELSE Counted(wrote, now)

AppendUnlocked(log, lines, now) ==
    LET wrote == Dated(Write(log, lines), now)
    IN  IF Full(wrote) THEN RollFile(wrote, now) ELSE Counted(wrote, now)

=============================================================================
