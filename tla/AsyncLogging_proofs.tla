-------------------------- MODULE AsyncLogging_proofs --------------------------
(***************************************************************************)
(* Proofs about AsyncLogging and its LogFile, for every capacity, limit,   *)
(* length of a day and number of lines: the buffers circulate, files are   *)
(* bounded, a new day begins a new file in time, and the logger implements *)
(* the queue of LogFifo.                                                   *)
(***************************************************************************)
EXTENDS AsyncLogging, TLAPS, WellFoundedInduction

Buffer == Seq(Nat)
Pointer == Buffer \cup {NoBuffer}

LogType ==
    [lines : Seq(Nat), synced : Nat, written : Nat, count : Nat,
     startOfPeriod : Nat, lastRoll : Nat, lastFlush : Nat, stale : Nat]

-----------------------------------------------------------------------------
(* The file.                                                               *)

\* The file is that of the day of its roll.  Appends that belong to another
\* day are counted by count too, and they stop being made when it is reset.
LogInv(log, time) ==
    /\ log \in LogType
    /\ log.lastRoll <= time
    /\ log.startOfPeriod = Period(log.lastRoll)
    /\ log.count < checkEveryN
    /\ log.stale <= log.count
    /\ log.stale > 0 => Period(time) # log.startOfPeriod

LEMMA DivMonotone ==
    ASSUME NEW K \in Nat \ {0}, NEW a \in Nat, NEW b \in Nat, a <= b
    PROVE  a \div K <= b \div K
<1> DEFINE p == a \div K
           q == b \div K
<1>1. p \in Nat /\ q \in Nat
  BY SMT
<1>2. K * p <= a /\ b < K * (q + 1)
  BY SMT
<1>3. SUFFICES ASSUME p > q PROVE FALSE
  BY <1>1
<1>4. p >= q + 1
  BY <1>1, <1>3
<1>5. K * p >= K * (q + 1)
  BY <1>1, <1>4, SMT
<1>6. K * p \in Nat /\ K * (q + 1) \in Nat
  BY <1>1, SMT
<1> HIDE DEF p, q
<1>7. QED
  BY <1>2, <1>5, <1>6

\* Days come one after the other.
LEMMA PeriodMonotone ==
    ASSUME NEW a \in Nat, NEW b \in Nat, a <= b
    PROVE  /\ Period(a) \in Nat
           /\ Period(a) <= Period(b)
<1> DEFINE K == kRollPerSeconds
           p == a \div K
           q == b \div K
<1>1. K \in Nat \ {0}
  BY LogFileAssumption
<1>2. p \in Nat /\ q \in Nat
  BY <1>1, SMT
<1>3. p <= q
  BY <1>1, DivMonotone
<1> HIDE DEF K, p, q
<1>4. p * K <= q * K /\ p * K \in Nat
  BY <1>1, <1>2, <1>3, SMT
<1>5. QED
  BY <1>4 DEF Period, K, p, q

LEMMA NewLogFileInv == ASSUME NEW time \in Nat PROVE LogInv(NewLogFile, time)
<1>1. Period(0) \in Nat
  BY PeriodMonotone
<1>2. checkEveryN \in Nat \ {0}
  BY LogFileAssumption
<1>3. QED
  BY <1>1, <1>2 DEF LogInv, LogType, NewLogFile

LEMMA FlushType ==
    ASSUME NEW log \in LogType
    PROVE  /\ Flush(log) \in LogType
           /\ Flush(log).count = log.count
  BY DEF LogType, Flush

LEMMA FlushInv ==
    ASSUME NEW log, NEW time \in Nat, LogInv(log, time)
    PROVE  /\ LogInv(Flush(log), time)
           /\ Flush(log).written = log.written
  BY DEF LogInv, LogType, Flush

\* A new day that comes makes it another day for the file that is open.
LEMMA TimeInv ==
    ASSUME NEW log, NEW time \in Nat, NEW later \in Nat, time <= later,
           LogInv(log, time)
    PROVE  LogInv(log, later)
<1>1. log.lastRoll \in Nat /\ log.stale \in Nat /\ log.startOfPeriod \in Nat
  BY DEF LogInv, LogType
<1>2. log.startOfPeriod <= Period(time) /\ Period(time) <= Period(later)
  BY <1>1, PeriodMonotone DEF LogInv
<1>3. Period(time) \in Nat /\ Period(later) \in Nat
  BY PeriodMonotone
<1>4. log.stale > 0 => Period(later) # log.startOfPeriod
  BY <1>1, <1>2, <1>3 DEF LogInv
<1>5. QED
  BY <1>1, <1>4 DEF LogInv

\* The file as append_unlocked() finds it after the write, before it rolls,
\* checks or counts: the append that was made is not yet counted.
Wrote(log, time) ==
    /\ log \in LogType
    /\ log.lastRoll <= time
    /\ log.startOfPeriod = Period(log.lastRoll)
    /\ log.count < checkEveryN
    /\ log.stale <= log.count + 1
    /\ log.stale > 0 => Period(time) # log.startOfPeriod

LEMMA DatedWrite ==
    ASSUME NEW log, NEW lines \in Seq(Nat), NEW time \in Nat, LogInv(log, time)
    PROVE  /\ Wrote(Dated(Write(log, lines), time), time)
           /\ Dated(Write(log, lines), time).written = log.written + Len(lines)
           /\ Dated(Write(log, lines), time).lastRoll = log.lastRoll
<1> DEFINE w == Write(log, lines)
<1>1. /\ w \in LogType
      /\ w.lastRoll = log.lastRoll /\ w.startOfPeriod = log.startOfPeriod
      /\ w.count = log.count /\ w.stale = log.stale
      /\ w.written = log.written + Len(lines)
  <2>1. log \in LogType
    BY DEF LogInv
  <2>2. log.lines \o lines \in Seq(Nat)
    BY <2>1 DEF LogType
  <2>3. log.written + Len(lines) \in Nat
    BY <2>1 DEF LogType
  <2> DEFINE all == log.lines \o lines
             size == log.written + Len(lines)
  <2>4. w = [log EXCEPT !.lines = all, !.written = size]
    BY DEF Write
  <2> HIDE DEF w, all, size
  <2>5. QED
    BY <2>1, <2>2, <2>3, <2>4 DEF LogType, all, size
<1> HIDE DEF w
<1>2. CASE Period(time) = w.startOfPeriod
  <2>1. Dated(w, time) = w
    BY <1>2 DEF Dated
  <2>2. log.stale = 0
    BY <1>1, <1>2 DEF LogInv, LogType
  <2>3. QED
    BY <1>1, <2>1, <2>2 DEF LogInv, LogType, Wrote, w
<1>3. CASE Period(time) # w.startOfPeriod
  <2>1. Dated(w, time) = [w EXCEPT !.stale = @ + 1]
    BY <1>3 DEF Dated
  <2>2. w.stale \in Nat /\ w.stale + 1 \in Nat
    BY <1>1 DEF LogType
  <2> DEFINE d == Dated(w, time)
  <2>3. /\ d \in LogType
        /\ d.lastRoll = w.lastRoll /\ d.startOfPeriod = w.startOfPeriod
        /\ d.count = w.count /\ d.written = w.written /\ d.stale = w.stale + 1
    BY <1>1, <2>1, <2>2 DEF LogType
  <2> HIDE DEF d
  <2>4. d.stale <= d.count + 1
    BY <1>1, <2>3 DEF LogInv, LogType
  <2>5. Wrote(d, time)
    BY <1>1, <1>3, <2>3, <2>4 DEF LogInv, Wrote
  <2>6. QED
    BY <1>1, <2>3, <2>5 DEF d, w
<1>4. QED
  BY <1>2, <1>3

\* A roll that is not refused.
LEMMA RolledInv ==
    ASSUME NEW log \in LogType, NEW time \in Nat,
           time > log.lastRoll, log.count < checkEveryN
    PROVE  /\ LogInv(RollFile(log, time), time)
           /\ RollFile(log, time).written = 0
<1> DEFINE flushed == Flush(log)
           day == Period(time)
           rolled == [flushed EXCEPT !.written = 0, !.stale = 0, !.lastRoll = time,
                                     !.lastFlush = time, !.startOfPeriod = day]
<1>1. RollFile(log, time) = rolled
  BY DEF RollFile
<1>2. flushed \in LogType /\ flushed.count = log.count
  BY FlushType
<1>3. day \in Nat
  BY PeriodMonotone
<1> HIDE DEF flushed, day
<1>4. /\ rolled \in LogType
      /\ rolled.written = 0 /\ rolled.stale = 0 /\ rolled.count = log.count
      /\ rolled.lastRoll = time /\ rolled.startOfPeriod = day
  BY <1>2, <1>3 DEF LogType
<1> HIDE DEF rolled
<1>5. log.count \in Nat
  BY DEF LogType
<1>6. QED
  BY <1>1, <1>4, <1>5 DEF LogInv, day

\* Rolling is refused only within the second, and so on the day, of the last
\* one.
LEMMA RollInv ==
    ASSUME NEW log, NEW time \in Nat, Wrote(log, time)
    PROVE  /\ LogInv(RollFile(log, time), time)
           /\ \/ RollFile(log, time).written = 0
              \/ time = log.lastRoll
<1>1. CASE time > log.lastRoll
  BY <1>1, RolledInv DEF Wrote
<1>2. CASE ~(time > log.lastRoll)
  <2>1. RollFile(log, time) = log /\ time = log.lastRoll
    BY <1>2 DEF RollFile, Wrote, LogType
  <2>2. log.stale = 0
    BY <2>1 DEF Wrote, LogType
  <2>3. QED
    BY <2>1, <2>2 DEF Wrote, LogInv, LogType
<1>3. QED
  BY <1>1, <1>2

LEMMA CountedInv ==
    ASSUME NEW log, NEW time \in Nat, Wrote(log, time)
    PROVE  LogInv(Counted(log, time), time)
<1> checkEveryN \in Nat \ {0}
  BY LogFileAssumption
<1>1. CASE log.count + 1 < checkEveryN
  <2>1. Counted(log, time) = [log EXCEPT !.count = @ + 1]
    BY <1>1 DEF Counted, Wrote, LogType
  <2>2. QED
    BY <1>1, <2>1 DEF Wrote, LogInv, LogType
<1>2. CASE ~(log.count + 1 < checkEveryN)
  <2> DEFINE reset == [log EXCEPT !.count = 0]
  <2>1. Counted(log, time) = PeriodicCheck(reset, time)
    BY <1>2 DEF Counted, Wrote, LogType
  <2>2. /\ reset \in LogType /\ reset.count = 0
        /\ reset.lastRoll = log.lastRoll /\ reset.startOfPeriod = log.startOfPeriod
        /\ reset.stale = log.stale
    BY DEF Wrote, LogType
  <2> HIDE DEF reset
  <2>3. CASE Period(time) # log.startOfPeriod
    <3>1. PeriodicCheck(reset, time) = RollFile(reset, time)
      BY <2>2, <2>3 DEF PeriodicCheck
    <3>2. time > reset.lastRoll
      BY <2>2, <2>3 DEF Wrote, LogType
    <3>3. QED
      BY <2>1, <2>2, <3>1, <3>2, RolledInv
  <2>4. CASE Period(time) = log.startOfPeriod
    <3>1. reset.stale = 0
      BY <2>2, <2>4 DEF Wrote, LogType
    <3>2. LogInv(reset, time)
      BY <2>2, <3>1 DEF Wrote, LogInv, LogType
    <3>3. LogInv([reset EXCEPT !.lastFlush = time], time)
      BY <3>2 DEF LogInv, LogType
    <3>4. \/ PeriodicCheck(reset, time) = Flush([reset EXCEPT !.lastFlush = time])
          \/ PeriodicCheck(reset, time) = reset
      BY <2>2, <2>4 DEF PeriodicCheck
    <3>5. QED
      BY <2>1, <3>2, <3>3, <3>4, FlushInv
  <2>5. QED
    BY <2>3, <2>4
<1>3. QED
  BY <1>1, <1>2

\* What append_unlocked() does to a file: it keeps the invariant, and a file
\* that was full before is given up unless it was begun in this second.
LEMMA AppendInv ==
    ASSUME NEW log, NEW lines \in Seq(Nat), NEW time \in Nat, LogInv(log, time)
    PROVE  /\ LogInv(AppendUnlocked(log, lines, time), time)
           /\ Full(log) => \/ AppendUnlocked(log, lines, time).written = 0
                           \/ time = log.lastRoll
<1> DEFINE wrote == Dated(Write(log, lines), time)
<1>1. /\ Wrote(wrote, time)
      /\ wrote.written = log.written + Len(lines)
      /\ wrote.lastRoll = log.lastRoll
  BY DatedWrite
<1>2. AppendUnlocked(log, lines, time) =
          IF Full(wrote) THEN RollFile(wrote, time) ELSE Counted(wrote, time)
  BY DEF AppendUnlocked
<1>3. Full(log) => Full(wrote)
  BY <1>1, LogFileAssumption DEF Full, LogInv, LogType
<1> HIDE DEF wrote
<1>4. QED
  BY <1>1, <1>2, <1>3, RollInv, CountedInv

-----------------------------------------------------------------------------
(* The buffers.                                                            *)

Control == {"head", "wait", "write", "exit"}

PointersOK ==
    /\ {current, next, new1, new2} \subseteq Pointer
    /\ buffers \in Seq(Pointer)
    /\ batch \in Seq(Pointer)
    /\ pc \in Control
    /\ {done, appended} \subseteq Nat

FileOK == now \in Nat /\ LogInv(output, now)

Owning(queue) == \A i \in 1 .. Len(queue) : queue[i] \in Buffer

\* Where the four buffers are, as long as no batch was too large.  A spare
\* buffer of the front end is missing only if a full one is queued, and one
\* of the background thread only if the batch holds one more to recycle.
Circulation ==
    /\ ~crashed
    /\ current \in Buffer
    /\ Owning(buffers) /\ Owning(batch)
    /\ next = NoBuffer => Len(buffers) >= 1
    /\ pc # "write" => new1 = <<>> /\ new2 = <<>>
    /\ pc = "write" =>
          /\ new1 = NoBuffer
          /\ \/ new2 = <<>> /\ Len(batch) >= 1
             \/ new2 = NoBuffer /\ Len(batch) >= 2

IInv ==
    /\ PointersOK
    /\ FileOK
    /\ ~backlog => Circulation

\* The null pointer is not a buffer, and an empty buffer is.
LEMMA NotNull == NoBuffer \notin Buffer /\ <<>> \in Buffer
  BY LoggingAssumption DEF Buffer

LEMMA AppendOwning ==
    ASSUME NEW queue \in Seq(Pointer), NEW b \in Buffer, Owning(queue)
    PROVE  /\ Append(queue, b) \in Seq(Pointer)
           /\ Len(Append(queue, b)) = Len(queue) + 1
           /\ Owning(Append(queue, b))
<1>1. b \in Pointer
  BY DEF Pointer
<1>2. Append(queue, b) \in Seq(Pointer) /\ Len(Append(queue, b)) = Len(queue) + 1
  BY <1>1
<1>3. ASSUME NEW i \in 1 .. Len(Append(queue, b))
      PROVE  Append(queue, b)[i] \in Buffer
  BY <1>1, <1>2 DEF Owning
<1>4. QED
  BY <1>2, <1>3 DEF Owning

LEMMA InitIInv == Init => IInv
<1> SUFFICES ASSUME Init PROVE IInv
  OBVIOUS
<1>1. PointersOK
  BY NotNull DEF Init, PointersOK, Pointer, Control
<1>2. FileOK
  BY NewLogFileInv, LoggingAssumption DEF Init, FileOK
<1>3. Circulation
  BY NotNull DEF Init, Circulation, Owning
<1>4. QED
  BY <1>1, <1>2, <1>3 DEF IInv

\* Steps that leave the file and the clock alone, or only flush.
LEMMA FileKept ==
    ASSUME FileOK, now' = now, output' = output \/ output' = Flush(output)
    PROVE  FileOK'
  BY FlushInv DEF FileOK

LEMMA AppendFitsKeeps == IInv /\ AppendFits => IInv'
<1> SUFFICES ASSUME IInv, AppendFits PROVE IInv'
  OBVIOUS
<1> USE DEF AppendFits, CanAppend, IInv, front, back
<1>1. current \in Buffer /\ appended + 1 \in Nat
  BY DEF PointersOK, Pointer
<1>2. current' \in Buffer
  BY <1>1 DEF Buffer
<1>3. PointersOK'
  BY <1>1, <1>2 DEF PointersOK, Pointer
<1>4. FileOK'
  BY FileKept
<1>5. ASSUME ~backlog' PROVE Circulation'
  BY <1>2, <1>5 DEF Circulation, Owning
<1>6. QED
  BY <1>3, <1>4, <1>5

LEMMA AppendSwitchesKeeps == IInv /\ AppendSwitches => IInv'
<1> SUFFICES ASSUME IInv, AppendSwitches PROVE IInv'
  OBVIOUS
<1> USE DEF AppendSwitches, CanAppend, IInv, front, back
<1>1. /\ current \in Buffer /\ appended + 1 \in Nat
      /\ (IF next = NoBuffer THEN <<>> ELSE next) \in Buffer
  BY NotNull DEF PointersOK, Pointer
<1>2. current' \in Buffer
  BY <1>1 DEF Buffer
<1>3. PointersOK'
  <2>1. buffers' \in Seq(Pointer)
    BY <1>1 DEF PointersOK, Pointer
  <2>2. QED
    BY <1>1, <1>2, <2>1 DEF PointersOK, Pointer
<1>4. FileOK'
  BY FileKept
<1>5. ASSUME ~backlog' PROVE Circulation'
  <2>1. Circulation
    BY <1>5
  <2>2. Owning(buffers') /\ Len(buffers') = Len(buffers) + 1
    BY <1>1, <2>1, AppendOwning DEF PointersOK, Circulation
  <2>3. Len(buffers') >= 1
    BY <2>2 DEF PointersOK
  <2>4. QED
    BY <1>2, <2>1, <2>2, <2>3 DEF Circulation, Owning
<1>6. QED
  BY <1>3, <1>4, <1>5

\* Nothing can crash while the buffers circulate.
LEMMA CrashKeeps ==
    ASSUME IInv, Crash, ~Circulation
    PROVE  IInv'
<1> USE DEF Crash, IInv, front, back
<1>1. backlog /\ backlog' = backlog
  OBVIOUS
<1>2. PointersOK' /\ FileOK'
  BY FileKept DEF PointersOK
<1>3. QED
  BY <1>1, <1>2

LEMMA AppendCrashesKeeps == IInv /\ AppendCrashes => IInv'
<1>1. IInv /\ AppendCrashes => ~Circulation
  BY NotNull DEF AppendCrashes, Circulation
<1>2. QED
  BY <1>1, CrashKeeps DEF AppendCrashes

LEMMA StopKeeps == IInv /\ Stop => IInv'
<1> SUFFICES ASSUME IInv, Stop PROVE IInv'
  OBVIOUS
<1> USE DEF Stop, IInv, back
<1>1. PointersOK' /\ FileOK'
  BY FileKept DEF PointersOK
<1>2. ASSUME ~backlog' PROVE Circulation'
  BY <1>2 DEF Circulation, Owning
<1>3. QED
  BY <1>1, <1>2

LEMMA ElapseKeeps == IInv /\ Elapse => IInv'
<1> SUFFICES ASSUME IInv, Elapse PROVE IInv'
  OBVIOUS
<1> USE DEF Elapse, IInv, front, back
<1>1. PointersOK'
  BY DEF PointersOK
<1>2. FileOK'
  <2>1. now \in Nat /\ now' \in Nat /\ now <= now' /\ LogInv(output, now)
    BY DEF FileOK
  <2>2. LogInv(output, now')
    BY <2>1, TimeInv
  <2>3. QED
    BY <2>1, <2>2 DEF FileOK
<1>3. ASSUME ~backlog' PROVE Circulation'
  BY <1>3 DEF Circulation, Owning
<1>4. QED
  BY <1>1, <1>2, <1>3

LEMMA LoopHeadKeeps == IInv /\ LoopHead => IInv'
<1> SUFFICES ASSUME IInv, LoopHead PROVE IInv'
  OBVIOUS
<1> USE DEF LoopHead, IInv, front
<1>1. PointersOK'
  BY DEF PointersOK, Control
<1>2. FileOK'
  BY FileKept
<1>3. ASSUME ~backlog' PROVE Circulation'
  BY <1>3 DEF Circulation, Owning
<1>4. QED
  BY <1>1, <1>2, <1>3

LEMMA SwapKeeps == IInv /\ Swap => IInv'
<1> SUFFICES ASSUME IInv, Swap PROVE IInv'
  OBVIOUS
<1> USE DEF Swap, SwapAs, IInv
<1>1. PointersOK'
  <2>1. batch' \in Seq(Pointer) /\ buffers' \in Seq(Pointer)
    BY DEF PointersOK
  <2>2. {current', next', new1', new2'} \subseteq Pointer
    BY DEF PointersOK, Pointer
  <2>3. QED
    BY <2>1, <2>2 DEF PointersOK, Control
<1>2. FileOK'
  BY FileKept
<1>3. ASSUME ~backlog' PROVE Circulation'
  <2>1. Circulation /\ new1 = <<>> /\ new2 = <<>>
    BY <1>3 DEF Circulation
  <2>2. Owning(batch') /\ Len(batch') = Len(buffers) + 1
    BY <2>1, AppendOwning DEF PointersOK, Circulation
  <2>3. Owning(buffers') /\ current' \in Buffer /\ new1' = NoBuffer /\ pc' = "write"
    BY <2>1, NotNull DEF Owning
  <2>4. Len(buffers) \in Nat /\ <<>> # NoBuffer
    BY NotNull DEF PointersOK
  <2>5. next' # NoBuffer
    BY <2>1, <2>4
  <2>6. \/ new2' = <<>> /\ Len(batch') >= 1
        \/ new2' = NoBuffer /\ Len(batch') >= 2
    BY <2>1, <2>2, <2>4 DEF Circulation
  <2>7. QED
    BY <2>1, <2>2, <2>3, <2>5, <2>6 DEF Circulation
<1>4. QED
  BY <1>1, <1>2, <1>3

LEMMA DropStormKeeps == IInv /\ DropStorm => IInv'
<1> SUFFICES ASSUME IInv, DropStorm PROVE IInv'
  OBVIOUS
<1> USE DEF DropStorm, Storm, IInv, front
<1>1. /\ batch' \in Seq(Pointer) /\ Len(batch') = 2
      /\ \A i \in 1 .. 2 : i \in 1 .. Len(batch) /\ batch'[i] = batch[i]
  BY LoggingAssumption DEF PointersOK
<1>2. PointersOK'
  BY <1>1 DEF PointersOK
<1>3. FileOK'
  <2>1. <<Notice>> \in Seq(Nat)
    BY DEF Notice
  <2>2. QED
    BY <2>1, AppendInv DEF FileOK
<1>4. ASSUME ~backlog' PROVE Circulation'
  <2>1. Circulation
    BY <1>4
  <2>2. Owning(batch')
    BY <1>1, <2>1 DEF Circulation, Owning
  <2>3. Len(batch') = 2 /\ batch' = SubSeq(batch, 1, 2)
    BY <1>1
  <2> HIDE DEF DropStorm
  <2>4. UNCHANGED <<crashed, current, buffers, next, pc, new1, new2>>
    BY DEF DropStorm
  <2>5. QED
    BY <2>1, <2>2, <2>3, <2>4 DEF Circulation, Owning
<1>5. QED
  BY <1>2, <1>3, <1>4

LEMMA WriteBufferKeeps == IInv /\ WriteBuffer => IInv'
<1> SUFFICES ASSUME IInv, WriteBuffer PROVE IInv'
  OBVIOUS
<1> USE DEF IInv
<1>1. /\ done < Len(batch) /\ done + 1 \in Nat /\ done + 1 \in 1 .. Len(batch)
      /\ batch[done + 1] \in Pointer
  BY DEF WriteBuffer, PointersOK
<1>2. CASE batch[done + 1] = NoBuffer
  <2>1. ~Circulation
    BY <1>1, <1>2, NotNull DEF Circulation, Owning
  <2>2. Crash
    BY <1>2 DEF WriteBuffer
  <2>3. QED
    BY <2>1, <2>2, CrashKeeps
<1>3. CASE batch[done + 1] # NoBuffer
  <2> USE <1>3 DEF WriteBuffer, front
  <2>1. PointersOK'
    BY <1>1 DEF PointersOK
  <2>2. FileOK'
    <3>1. batch[done + 1] \in Seq(Nat)
      BY <1>1 DEF Pointer, Buffer
    <3>2. QED
      BY <3>1, AppendInv DEF FileOK
  <2>3. ASSUME ~backlog' PROVE Circulation'
    BY <2>3 DEF Circulation, Owning
  <2>4. QED
    BY <2>1, <2>2, <2>3
<1>4. QED
  BY <1>2, <1>3

LEMMA RecycleKeeps == IInv /\ Recycle => IInv'
<1> SUFFICES ASSUME IInv, Recycle PROVE IInv'
  OBVIOUS
<1> USE DEF IInv
<1> DEFINE take1 == Len(batch) <= 2 /\ new1 = NoBuffer
           take2 == new2 = NoBuffer
           left  == IF take1 THEN Len(batch) - 1 ELSE Len(batch)
<1>1. Len(batch) \in Nat
  BY DEF PointersOK
<1>2. CASE take2 /\ left = 0
  <2>1. ~Circulation
    BY <1>1, <1>2, NotNull DEF Recycle, Circulation
  <2>2. Crash
    BY <1>2 DEF Recycle
  <2>3. QED
    BY <2>1, <2>2, CrashKeeps
<1>3. CASE ~(take2 /\ left = 0)
  <2>1. /\ pc = "write" /\ ~crashed
        /\ pc' = "head"
        /\ new1' = IF take1 THEN <<>> ELSE new1
        /\ new2' = IF take2 THEN <<>> ELSE new2
        /\ batch' = <<>> /\ done' = 0
        /\ output' = Flush(output)
        /\ backlog' = (backlog \/ Len(batch) > 2)
        /\ UNCHANGED <<front, now, crashed>>
    BY <1>3 DEF Recycle
  <2> HIDE DEF take1, take2, left
  <2> USE DEF front
  <2>2. PointersOK'
    <3>1. {new1', new2'} \subseteq Pointer
      BY <2>1, NotNull DEF PointersOK, Pointer
    <3>2. QED
      BY <2>1, <3>1 DEF PointersOK, Control
  <2>3. FileOK'
    BY <2>1, FileKept
  <2>4. ASSUME ~backlog' PROVE Circulation'
    <3> ~(backlog \/ Len(batch) > 2)
      BY <2>1, <2>4, Zenon
    <3>1. Circulation /\ Len(batch) <= 2
      BY <1>1
    <3>2. new1' = <<>> /\ new2' = <<>>
      BY <2>1, <3>1 DEF Circulation, take1, take2
    <3>3. QED
      BY <2>1, <3>1, <3>2 DEF Circulation, Owning
  <2>5. QED
    BY <2>2, <2>3, <2>4
<1>4. QED
  BY <1>2, <1>3

LEMMA NextKeeps == IInv /\ [Next]_vars => IInv'
<1> SUFFICES ASSUME IInv, [Next]_vars PROVE IInv'
  OBVIOUS
<1>1. CASE UNCHANGED vars
  BY <1>1 DEF vars, front, back, IInv, PointersOK, FileOK, Circulation, Owning
<1>2. QED
  BY <1>1, AppendFitsKeeps, AppendSwitchesKeeps, AppendCrashesKeeps, StopKeeps,
     ElapseKeeps, LoopHeadKeeps, SwapKeeps, DropStormKeeps, WriteBufferKeeps,
     RecycleKeeps
     DEF Next, Background

\* IInv is inductive.
THEOREM InvariantInductive == Spec => []IInv
  BY InitIInv, NextKeeps, PTL DEF Spec

-----------------------------------------------------------------------------
\* As long as no batch of more than two buffers was written (the branch of
\* AsyncLogging::threadFunc that does not give newBuffer1 back), both spare
\* buffers are back at the head of the loop, append() has a buffer, and no
\* null pointer is used: for buffers and storms of every size.
THEOREM BuffersCirculateHolds == Spec => []BuffersCirculate
<1>1. IInv => BuffersCirculate
  BY NotNull DEF IInv, Circulation, BuffersCirculate
<1>2. QED
  BY <1>1, InvariantInductive, PTL

\* For every checkEveryN and every length of a day fewer than checkEveryN
\* appends go to the file of another day (LogFile::append_unlocked).
THEOREM DayRollsHolds == Spec => []DayRolls
<1>1. IInv => DayRolls
  BY LogFileAssumption DEF IInv, FileOK, LogInv, LogType, DayRolls
<1>2. QED
  BY <1>1, InvariantInductive, PTL

\* For every rollSize a file that is over its limit grows only within the
\* second it was begun in (LogFile::append_unlocked, rollFile).
THEOREM FileBoundedHolds == Spec => FileBounded
<1> DEFINE Grown == output'.written > output.written /\ Full(output)
                        => now = output.lastRoll
<1>1. ASSUME IInv, Next PROVE Grown
  <2>1. output.written \in Nat /\ now \in Nat /\ LogInv(output, now)
    BY <1>1 DEF IInv, FileOK, LogInv, LogType
  <2>2. CASE output' = output
    BY <2>1, <2>2
  <2>3. CASE output' = Flush(output)
    BY <2>1, <2>3, FlushInv
  <2>4. CASE DropStorm
    <3>1. <<Notice>> \in Seq(Nat)
      BY DEF Notice
    <3>2. output' = AppendUnlocked(output, <<Notice>>, now)
      BY <2>4 DEF DropStorm
    <3>3. \/ ~Full(output) \/ output'.written = 0
          \/ now = output.lastRoll
      BY <2>1, <3>1, <3>2, AppendInv
    <3>4. QED
      BY <2>1, <3>3
  <2>5. CASE WriteBuffer /\ batch[done + 1] # NoBuffer
    <3>1. batch[done + 1] \in Seq(Nat)
      BY <1>1, <2>5 DEF WriteBuffer, IInv, PointersOK, Pointer, Buffer
    <3>2. output' = AppendUnlocked(output, batch[done + 1], now)
      BY <2>5 DEF WriteBuffer
    <3>3. \/ ~Full(output) \/ output'.written = 0
          \/ now = output.lastRoll
      BY <2>1, <3>1, <3>2, AppendInv
    <3>4. QED
      BY <2>1, <3>3
  <2>6. QED
    <3>1. \/ output' = output \/ output' = Flush(output)
          \/ DropStorm
          \/ WriteBuffer /\ batch[done + 1] # NoBuffer
      BY <1>1 DEF Next, Background, AppendFits, AppendSwitches, AppendCrashes, Stop,
           Elapse, LoopHead, Swap, SwapAs, WriteBuffer, Recycle, Crash, back
    <3>2. QED
      BY <2>2, <2>3, <2>4, <2>5, <3>1
<1>2. IInv /\ [Next]_vars => [Grown]_vars
  BY <1>1
<1>3. QED
  BY <1>2, InvariantInductive, PTL DEF Spec, FileBounded

-----------------------------------------------------------------------------
(* Induction, stated for a set instead of a predicate: a set of natural    *)
(* numbers is proved to hold all of them by its least missing element.     *)

LEMMA Induction ==
    ASSUME NEW P, 0 \in P, \A n \in Nat : n \in P => n + 1 \in P
    PROVE  Nat \subseteq P
<1> SUFFICES ASSUME NEW k \in Nat, k \notin P PROVE FALSE
  OBVIOUS
<1> DEFINE R == OpToRel(<, Nat)
           Missing == {n \in Nat : n \notin P}
<1>1. Missing \subseteq Nat /\ Missing # {}
  OBVIOUS
<1>2. IsWellFoundedOn(R, Nat)
  BY NatLessThanWellFounded, Zenon
<1>3. \A a, b \in Nat : a < b => <<a, b>> \in R
  BY DEF OpToRel
<1> HIDE DEF R, Missing
<1>4. PICK m \in Missing : \A y \in Missing : <<y, m>> \notin R
  BY <1>1, <1>2, WFMin
<1>5. m \in Nat /\ m \notin P
  BY <1>4 DEF Missing
<1>6. m - 1 \in Nat /\ m - 1 < m
  BY <1>5
<1>7. m - 1 \notin Missing
  BY <1>3, <1>4, <1>5, <1>6
<1>8. m - 1 \in P
  BY <1>6, <1>7 DEF Missing
<1> QED
  BY <1>5, <1>6, <1>8

\* A set of sequences that holds the empty one and all prolongations of its
\* elements holds all sequences.
LEMMA SequenceInduction ==
    ASSUME NEW S, NEW P, <<>> \in P,
           \A s \in Seq(S), x \in S : s \in P => Append(s, x) \in P
    PROVE  Seq(S) \subseteq P
<1> DEFINE Q == {n \in Nat : \A s \in Seq(S) : Len(s) = n => s \in P}
<1>1. 0 \in Q
  BY \A s \in Seq(S) : Len(s) = 0 => s = <<>>
<1>2. ASSUME NEW n \in Nat, n \in Q PROVE n + 1 \in Q
  <2> SUFFICES ASSUME NEW s \in Seq(S), Len(s) = n + 1 PROVE s \in P
    OBVIOUS
  <2> DEFINE t == SubSeq(s, 1, n)
  <2>1. t \in Seq(S) /\ Len(t) = n /\ s[n + 1] \in S
    OBVIOUS
  <2>2. s = Append(t, s[n + 1])
    OBVIOUS
  <2>3. t \in P
    BY <1>2, <2>1
  <2> HIDE DEF t
  <2> QED
    BY <2>1, <2>2, <2>3
<1> HIDE DEF Q
<1>3. Nat \subseteq Q
  BY <1>1, <1>2, Induction
<1> QED
  BY <1>3 DEF Q

-----------------------------------------------------------------------------
(* FlattenSeq, which the community modules define by recursion.            *)

\* f[i] is the concatenation of the first i sequences of ss.
Flattens(f, ss, n) ==
    f = [i \in 1 .. n |-> IF i = 1 THEN ss[i] ELSE f[i - 1] \o ss[i]]

LEMMA FlattensExists ==
    ASSUME NEW ss, NEW n \in Nat
    PROVE  \E f : Flattens(f, ss, n)
<1> DEFINE P == {m \in Nat : \E f : Flattens(f, ss, m)}
<1>1. 0 \in P
  <2> DEFINE f == [i \in 1 .. 0 |-> ss]
  <2>1. Flattens(f, ss, 0)
    BY DEF Flattens
  <2> QED
    BY <2>1
<1>2. ASSUME NEW m \in Nat, m \in P PROVE m + 1 \in P
  <2>1. PICK f : Flattens(f, ss, m)
    BY <1>2
  <2> DEFINE g == [i \in 1 .. m + 1 |->
                     IF i = m + 1 THEN IF i = 1 THEN ss[i] ELSE f[i - 1] \o ss[i]
                     ELSE f[i]]
             h == [i \in 1 .. m + 1 |-> IF i = 1 THEN ss[i] ELSE g[i - 1] \o ss[i]]
  <2>2. ASSUME NEW i \in 1 .. m + 1 PROVE g[i] = h[i]
    <3>1. CASE i = m + 1
      <4>1. i # 1 => i - 1 \in 1 .. m + 1 /\ i - 1 # m + 1
        BY <3>1
      <4>2. i # 1 => g[i - 1] = f[i - 1]
        BY <4>1
      <4> QED
        BY <3>1, <4>2
    <3>2. CASE i # m + 1
      <4>1. i \in 1 .. m /\ (i # 1 => i - 1 \in 1 .. m + 1 /\ i - 1 # m + 1)
        BY <3>2
      <4>2. f[i] = IF i = 1 THEN ss[i] ELSE f[i - 1] \o ss[i]
        BY <2>1, <4>1, Zenon DEF Flattens
      <4>3. g[i] = f[i] /\ (i # 1 => g[i - 1] = f[i - 1])
        BY <3>2, <4>1
      <4> QED
        BY <4>2, <4>3
    <3> QED
      BY <3>1, <3>2
  <2>3. g = h
    BY <2>2
  <2>4. Flattens(g, ss, m + 1)
    BY <2>3 DEF Flattens
  <2> QED
    BY <2>4
<1> HIDE DEF P
<1>3. Nat \subseteq P
  BY <1>1, <1>2, Induction
<1> QED
  BY <1>3 DEF P

\* Sequences that begin alike are flattened alike.
LEMMA FlattensAlike ==
    ASSUME NEW ss, NEW tt, NEW f, NEW g, NEW m \in Nat, NEW n \in Nat
    PROVE  /\ m <= n
           /\ \A i \in 1 .. m : ss[i] = tt[i]
           /\ Flattens(f, ss, m)
           /\ Flattens(g, tt, n)
           => \A k \in 1 .. m : f[k] = g[k]
<1> SUFFICES ASSUME m <= n,
                    \A i \in 1 .. m : ss[i] = tt[i],
                    Flattens(f, ss, m),
                    Flattens(g, tt, n),
                    NEW k \in 1 .. m
             PROVE  f[k] = g[k]
  OBVIOUS
<1> DEFINE P == {i \in Nat : i \in 1 .. m => f[i] = g[i]}
<1>1. 0 \in P
  OBVIOUS
<1>2. ASSUME NEW i \in Nat, i \in P PROVE i + 1 \in P
  <2> SUFFICES ASSUME i + 1 \in 1 .. m PROVE f[i + 1] = g[i + 1]
    OBVIOUS
  <2> DEFINE j == i + 1
  <2>1. j \in 1 .. m /\ j \in 1 .. n /\ j - 1 = i
    OBVIOUS
  <2> HIDE DEF j
  <2>2. /\ f[j] = IF j = 1 THEN ss[j] ELSE f[j - 1] \o ss[j]
        /\ g[j] = IF j = 1 THEN tt[j] ELSE g[j - 1] \o tt[j]
    BY <2>1, Zenon DEF Flattens
  <2>3. j # 1 => i \in 1 .. m
    BY <2>1
  <2>4. j # 1 => f[j - 1] = g[j - 1]
    BY <1>2, <2>1, <2>3
  <2>5. ss[j] = tt[j]
    BY <2>1
  <2>6. f[j] = g[j]
    BY <2>2, <2>4, <2>5
  <2> QED
    BY <2>6 DEF j
<1> HIDE DEF P
<1>3. Nat \subseteq P
  BY <1>1, <1>2, Induction
<1>4. k \in Nat
  OBVIOUS
<1> QED
  BY <1>3, <1>4 DEF P

\* The function by which FlattenSeq is defined.
LEMMA FlattenIs ==
    ASSUME NEW ss, Len(ss) \in Nat \ {0}
    PROVE  \E f : Flattens(f, ss, Len(ss)) /\ FlattenSeq(ss) = f[Len(ss)]
<1> DEFINE f == CHOOSE h : Flattens(h, ss, Len(ss))
<1>1. Flattens(f, ss, Len(ss))
  BY FlattensExists
<1>2. FlattenSeq(ss) = f[Len(ss)]
  BY DEF FlattenSeq, Flattens
<1> QED
  BY <1>1, <1>2

\* One more sequence.
LEMMA FlattenAppend ==
    ASSUME NEW S, NEW ss \in Seq(Seq(S)), NEW s \in Seq(S)
    PROVE  /\ FlattenSeq(<<>>) = <<>>
           /\ FlattenSeq(Append(ss, s)) = FlattenSeq(ss) \o s
<1> DEFINE n == Len(ss)
           tt == Append(ss, s)
<1>0. FlattenSeq(<<>>) = <<>>
  BY DEF FlattenSeq
<1>1. /\ n \in Nat /\ Len(tt) = n + 1 /\ tt[n + 1] = s
      /\ \A i \in 1 .. n : ss[i] = tt[i]
  OBVIOUS
<1> HIDE DEF tt
<1>2. PICK g : Flattens(g, tt, n + 1) /\ FlattenSeq(tt) = g[n + 1]
  BY <1>1, FlattenIs
<1>3. g[n + 1] = IF n + 1 = 1 THEN s ELSE g[n] \o s
  <2> DEFINE j == n + 1
  <2>1. j \in 1 .. j /\ j - 1 = n /\ tt[j] = s /\ Flattens(g, tt, j)
    BY <1>1, <1>2
  <2> HIDE DEF j, n
  <2>2. g[j] = IF j = 1 THEN tt[j] ELSE g[j - 1] \o tt[j]
    BY <2>1, Zenon DEF Flattens
  <2> QED
    BY <2>1, <2>2 DEF j
<1>4. CASE n = 0
  <2>1. ss = <<>> /\ <<>> \o s = s
    BY <1>4
  <2> QED
    BY <1>0, <1>2, <1>3, <1>4, <2>1 DEF tt
<1>5. CASE n # 0
  <2>1. PICK f : Flattens(f, ss, n) /\ FlattenSeq(ss) = f[n]
    BY <1>1, <1>5, FlattenIs
  <2>2. n \in 1 .. n /\ n <= n + 1 /\ n + 1 # 1 /\ n + 1 \in Nat
    BY <1>1, <1>5
  <2> DEFINE j == n + 1
  <2>3. f[n] = g[n]
    <3>1. /\ n \in Nat /\ j \in Nat /\ n <= j /\ n \in 1 .. n
          /\ \A i \in 1 .. n : ss[i] = tt[i]
          /\ Flattens(f, ss, n) /\ Flattens(g, tt, j)
      BY <1>1, <1>2, <2>1, <2>2
    <3> HIDE DEF n, j
    <3> QED
      BY <3>1, FlattensAlike
  <2> QED
    BY <1>0, <1>2, <1>3, <2>1, <2>2, <2>3 DEF tt
<1> QED
  BY <1>4, <1>5

LEMMA FlattenType ==
    ASSUME NEW S, NEW ss \in Seq(Seq(S))
    PROVE  FlattenSeq(ss) \in Seq(S)
<1> DEFINE P == {tt \in Seq(Seq(S)) : FlattenSeq(tt) \in Seq(S)}
<1>1. <<>> \in P
  <2>1. <<>> \in Seq(Seq(S)) /\ <<>> \in Seq(S)
    OBVIOUS
  <2> QED
    BY <2>1, FlattenAppend
<1>2. ASSUME NEW tt \in Seq(Seq(S)), NEW s \in Seq(S), tt \in P
      PROVE  Append(tt, s) \in P
  <2>1. FlattenSeq(Append(tt, s)) = FlattenSeq(tt) \o s
    BY FlattenAppend
  <2>2. Append(tt, s) \in Seq(Seq(S))
    OBVIOUS
  <2>3. FlattenSeq(tt) \in Seq(S)
    BY <1>2
  <2>4. FlattenSeq(tt) \o s \in Seq(S)
    BY <2>3
  <2> QED
    BY <2>1, <2>2, <2>4
<1> HIDE DEF P
<1>3. Seq(Seq(S)) \subseteq P
  BY <1>1, <1>2, SequenceInduction
<1> QED
  BY <1>3 DEF P

\* Joining before or after flattening makes no difference.
LEMMA FlattenJoin ==
    ASSUME NEW S, NEW ss \in Seq(Seq(S)), NEW tt \in Seq(Seq(S))
    PROVE  FlattenSeq(ss \o tt) = FlattenSeq(ss) \o FlattenSeq(tt)
<1> DEFINE P == {uu \in Seq(Seq(S)) : FlattenSeq(ss \o uu) = FlattenSeq(ss) \o FlattenSeq(uu)}
<1>0. FlattenSeq(ss) \in Seq(S)
  BY FlattenType
<1>1. <<>> \in P
  <2>1. FlattenSeq(<<>>) = <<>> /\ <<>> \in Seq(Seq(S))
    BY DEF FlattenSeq
  <2>2. ss \o <<>> = ss /\ FlattenSeq(ss) \o <<>> = FlattenSeq(ss)
    BY <1>0
  <2> QED
    BY <2>1, <2>2
<1>2. ASSUME NEW uu \in Seq(Seq(S)), NEW s \in Seq(S), uu \in P
      PROVE  Append(uu, s) \in P
  <2>1. ss \o Append(uu, s) = Append(ss \o uu, s) /\ ss \o uu \in Seq(Seq(S))
    OBVIOUS
  <2>2. /\ FlattenSeq(Append(ss \o uu, s)) = FlattenSeq(ss \o uu) \o s
        /\ FlattenSeq(Append(uu, s)) = FlattenSeq(uu) \o s
    BY <2>1, FlattenAppend
  <2>3. FlattenSeq(uu) \in Seq(S)
    BY FlattenType
  <2>4. (FlattenSeq(ss) \o FlattenSeq(uu)) \o s = FlattenSeq(ss) \o (FlattenSeq(uu) \o s)
    BY <1>0, <2>3
  <2>5. Append(uu, s) \in Seq(Seq(S))
    OBVIOUS
  <2>6. FlattenSeq(ss \o uu) = FlattenSeq(ss) \o FlattenSeq(uu)
    BY <1>2
  <2>7. FlattenSeq(ss \o Append(uu, s)) = FlattenSeq(ss) \o FlattenSeq(Append(uu, s))
    BY <2>1, <2>2, <2>4, <2>6
  <2> QED
    BY <2>5, <2>7
<1> HIDE DEF P
<1>3. Seq(Seq(S)) \subseteq P
  BY <1>1, <1>2, SequenceInduction
<1> QED
  BY <1>3 DEF P

\* When a sequence is two others, one after the other.
LEMMA JoinIs ==
    ASSUME NEW T, NEW a \in Seq(T), NEW b \in Seq(T), NEW c \in Seq(T),
           Len(c) = Len(a) + Len(b),
           \A i \in 1 .. Len(a) : c[i] = a[i],
           \A i \in 1 .. Len(b) : c[Len(a) + i] = b[i]
    PROVE  c = a \o b
<1>2. ASSUME NEW i \in 1 .. Len(c) PROVE c[i] = (a \o b)[i]
  <2>1. CASE i <= Len(a)
    <3>1. i \in 1 .. Len(a)
      BY <2>1
    <3>2. (a \o b)[i] = a[i]
      BY <3>1
    <3> QED
      BY <3>1, <3>2
  <2>2. CASE i > Len(a)
    <3> DEFINE k == i - Len(a)
    <3>1. k \in 1 .. Len(b) /\ i = Len(a) + k
      BY <2>2
    <3>2. (a \o b)[i] = b[k]
      BY <2>2
    <3>3. c[Len(a) + k] = b[k]
      BY <3>1
    <3> QED
      BY <3>1, <3>2, <3>3
  <2> QED
    BY <2>1, <2>2
<1>3. a \o b \in Seq(T) /\ Len(a \o b) = Len(a) + Len(b)
  OBVIOUS
<1> QED
  BY <1>2, <1>3

\* Flattening what the function c makes of the elements of p.
Mapped(c, p) == [i \in 1 .. Len(p) |-> c[p[i]]]

Flat(c, p) == FlattenSeq(Mapped(c, p))

Opens(c, D, S) == c \in [D -> Seq(S)]

LEMMA MappedType ==
    ASSUME NEW D, NEW S, NEW c, Opens(c, D, S), NEW p \in Seq(D)
    PROVE  Mapped(c, p) \in Seq(Seq(S)) /\ Len(Mapped(c, p)) = Len(p)
<1>1. Len(p) \in Nat /\ \A i \in 1 .. Len(p) : c[p[i]] \in Seq(S)
  BY DEF Opens
<1> QED
  BY <1>1 DEF Mapped

LEMMA FlatType ==
    ASSUME NEW D, NEW S, NEW c, Opens(c, D, S), NEW p \in Seq(D)
    PROVE  Flat(c, p) \in Seq(S)
  BY MappedType, FlattenType DEF Flat

LEMMA FlatJoin ==
    ASSUME NEW D, NEW S, NEW c, Opens(c, D, S), NEW p \in Seq(D), NEW q \in Seq(D)
    PROVE  Flat(c, p \o q) = Flat(c, p) \o Flat(c, q)
<1> DEFINE r == p \o q
           mp == Mapped(c, p)
           mq == Mapped(c, q)
           mr == Mapped(c, r)
<1>1. r \in Seq(D) /\ Len(r) = Len(p) + Len(q) /\ Len(p) \in Nat /\ Len(q) \in Nat
  OBVIOUS
<1>2. /\ mp \in Seq(Seq(S)) /\ mq \in Seq(Seq(S)) /\ mr \in Seq(Seq(S))
      /\ Len(mp) = Len(p) /\ Len(mq) = Len(q) /\ Len(mr) = Len(p) + Len(q)
  <2> HIDE DEF r
  <2>1. /\ Mapped(c, p) \in Seq(Seq(S)) /\ Len(Mapped(c, p)) = Len(p)
        /\ Mapped(c, q) \in Seq(Seq(S)) /\ Len(Mapped(c, q)) = Len(q)
    BY MappedType
  <2>2. Mapped(c, r) \in Seq(Seq(S)) /\ Len(Mapped(c, r)) = Len(r)
    BY <1>1, MappedType
  <2> QED
    BY <1>1, <2>1, <2>2
<1>3. ASSUME NEW i \in 1 .. Len(p) PROVE mr[i] = mp[i]
  <2>1. r[i] = p[i] /\ i \in 1 .. Len(r)
    BY <1>1
  <2> HIDE DEF r
  <2> QED
    BY <2>1 DEF Mapped
<1>4. ASSUME NEW i \in 1 .. Len(q) PROVE mr[Len(p) + i] = mq[i]
  <2>1. r[Len(p) + i] = q[i] /\ Len(p) + i \in 1 .. Len(r)
    BY <1>1
  <2> HIDE DEF r
  <2> QED
    BY <2>1 DEF Mapped
<1>5. mr = mp \o mq
  <2> HIDE DEF mp, mq, mr
  <2>1. /\ Len(mr) = Len(mp) + Len(mq)
        /\ \A i \in 1 .. Len(mp) : mr[i] = mp[i]
        /\ \A i \in 1 .. Len(mq) : mr[Len(mp) + i] = mq[i]
    BY <1>2, <1>3, <1>4
  <2> QED
    BY <1>2, <2>1, JoinIs
<1>6. FlattenSeq(mp \o mq) = FlattenSeq(mp) \o FlattenSeq(mq)
  <2> HIDE DEF mp, mq
  <2> QED
    BY <1>2, FlattenJoin
<1> QED
  BY <1>5, <1>6 DEF Flat

LEMMA FlatOne ==
    ASSUME NEW D, NEW S, NEW c, Opens(c, D, S), NEW x \in D
    PROVE  Flat(c, <<>>) = <<>> /\ Flat(c, <<x>>) = c[x]
<1>1. Mapped(c, <<>>) = <<>>
  BY DEF Mapped
<1>2. Mapped(c, <<x>>) = Append(<<>>, c[x])
  BY DEF Mapped
<1>3. <<>> \in Seq(Seq(S)) /\ c[x] \in Seq(S) /\ <<>> \o c[x] = c[x]
  BY DEF Opens
<1> QED
  BY <1>1, <1>2, <1>3, FlattenAppend DEF Flat

-----------------------------------------------------------------------------
(* What pointers own, and what lines of a file were logged.                *)

Contents(pointer) == IF pointer = NoBuffer THEN <<>> ELSE pointer
AsLogged(line) == IF line = Notice THEN <<>> ELSE <<line>>

contents == [pointer \in Pointer |-> Contents(pointer)]
asLogged == [line \in Nat |-> AsLogged(line)]

LEMMA ContentsType == Opens(contents, Pointer, Nat)
  BY NotNull DEF Opens, Contents, contents, Pointer, Buffer

LEMMA RealType == Opens(asLogged, Nat, Nat)
  BY DEF Opens, AsLogged, asLogged

LEMMA OwnedIs == ASSUME NEW p \in Seq(Pointer) PROVE Owned(p) = Flat(contents, p)
<1>1. DOMAIN p = 1 .. Len(p) /\ \A i \in 1 .. Len(p) : p[i] \in Pointer
  OBVIOUS
<1> QED
  BY <1>1 DEF Owned, Flat, Mapped, contents, Contents

LEMMA LoggedIs == ASSUME NEW p \in Seq(Nat) PROVE Logged(p) = Flat(asLogged, p)
<1>1. DOMAIN p = 1 .. Len(p) /\ \A i \in 1 .. Len(p) : p[i] \in Nat
  OBVIOUS
<1> QED
  BY <1>1 DEF Logged, Flat, Mapped, asLogged, AsLogged

LEMMA OwnedJoin ==
    ASSUME NEW p \in Seq(Pointer), NEW q \in Seq(Pointer)
    PROVE  /\ Owned(p) \in Seq(Nat)
           /\ Owned(p \o q) = Owned(p) \o Owned(q)
<1> DEFINE r == p \o q
<1>1. r \in Seq(Pointer)
  OBVIOUS
<1>2. Flat(contents, p \o q) = Flat(contents, p) \o Flat(contents, q)
  BY ContentsType, FlatJoin
<1>4. Flat(contents, p) \in Seq(Nat)
  BY ContentsType, FlatType
<1> HIDE DEF r
<1>3. Owned(r) = Flat(contents, r) /\ Owned(p) = Flat(contents, p) /\ Owned(q) = Flat(contents, q)
  BY <1>1, OwnedIs
<1> QED
  BY <1>2, <1>3, <1>4 DEF r

LEMMA OwnedOne ==
    ASSUME NEW b \in Pointer
    PROVE  /\ Contents(b) \in Seq(Nat)
           /\ Owned(<<b>>) = Contents(b)
           /\ Owned(<<>>) = <<>>
<1>1. <<b>> \in Seq(Pointer) /\ <<>> \in Seq(Pointer)
  OBVIOUS
<1>2. contents[b] = Contents(b) /\ contents[b] \in Seq(Nat)
  BY ContentsType DEF contents, Opens
<1>3. Flat(contents, <<>>) = <<>> /\ Flat(contents, <<b>>) = contents[b]
  BY ContentsType, FlatOne
<1>4. Owned(<<b>>) = Flat(contents, <<b>>) /\ Owned(<<>>) = Flat(contents, <<>>)
  BY <1>1, OwnedIs
<1> QED
  BY <1>2, <1>3, <1>4

LEMMA LoggedJoin ==
    ASSUME NEW p \in Seq(Nat), NEW q \in Seq(Nat)
    PROVE  /\ Logged(p) \in Seq(Nat)
           /\ Logged(p \o q) = Logged(p) \o Logged(q)
<1> DEFINE r == p \o q
<1>1. r \in Seq(Nat)
  OBVIOUS
<1>2. Flat(asLogged, p \o q) = Flat(asLogged, p) \o Flat(asLogged, q)
  BY RealType, FlatJoin
<1>4. Flat(asLogged, p) \in Seq(Nat)
  BY RealType, FlatType
<1> HIDE DEF r
<1>3. Logged(r) = Flat(asLogged, r) /\ Logged(p) = Flat(asLogged, p) /\ Logged(q) = Flat(asLogged, q)
  BY <1>1, LoggedIs
<1> QED
  BY <1>2, <1>3, <1>4 DEF r

LEMMA LoggedOne ==
    ASSUME NEW l \in Nat
    PROVE  Logged(<<l>>) = AsLogged(l) /\ Logged(<<>>) = <<>>
<1>1. <<l>> \in Seq(Nat) /\ <<>> \in Seq(Nat)
  OBVIOUS
<1>2. asLogged[l] = AsLogged(l)
  BY DEF asLogged
<1> QED
  BY <1>1, <1>2, LoggedIs, RealType, FlatOne

\* Lines of the front end are no notices.
Numbers == Nat \ {0}

LEMMA LoggedSame == ASSUME NEW s \in Seq(Numbers) PROVE Logged(s) = s
<1> DEFINE P == {t \in Seq(Numbers) : Logged(t) = t}
<1>1. <<>> \in P
  <2>1. Logged(<<>>) = <<>>
    BY 0 \in Nat, LoggedOne
  <2> QED
    BY <2>1
<1>2. ASSUME NEW t \in Seq(Numbers), NEW l \in Numbers, t \in P
      PROVE  Append(t, l) \in P
  <2>1. /\ t \in Seq(Nat) /\ <<l>> \in Seq(Nat) /\ l \in Nat
        /\ Append(t, l) = t \o <<l>> /\ Append(t, l) \in Seq(Numbers)
    BY DEF Numbers
  <2>2. Logged(<<l>>) = <<l>>
    BY <2>1, LoggedOne DEF AsLogged, Notice, Numbers
  <2>3. Logged(t \o <<l>>) = Logged(t) \o Logged(<<l>>)
    BY <2>1, LoggedJoin
  <2>4. Logged(t) = t
    BY <1>2
  <2>5. Logged(Append(t, l)) = Append(t, l)
    BY <2>1, <2>2, <2>3, <2>4
  <2> QED
    BY <2>1, <2>5
<1> HIDE DEF P
<1>3. Seq(Numbers) \subseteq P
  BY <1>1, <1>2, SequenceInduction
<1> QED
  BY <1>3 DEF P

FullBuffer == {b \in Seq(Numbers) : Len(b) = Capacity}

LEMMA FullIsBuffer == FullBuffer \subseteq Pointer
  BY DEF FullBuffer, Pointer, Buffer, Numbers

\* So many full buffers hold so many lines.
LEMMA FullLength ==
    ASSUME NEW p \in Seq(FullBuffer)
    PROVE  Len(Owned(p)) = Len(p) * Capacity
<1> DEFINE P == {q \in Seq(FullBuffer) : Len(Owned(q)) = Len(q) * Capacity}
<1>0. Capacity \in Nat
  BY LoggingAssumption
<1>1. <<>> \in P
  <2>1. Owned(<<>>) = <<>>
    BY OwnedOne, NotNull DEF Pointer
  <2> QED
    BY <1>0, <2>1
<1>2. ASSUME NEW q \in Seq(FullBuffer), NEW b \in FullBuffer, q \in P
      PROVE  Append(q, b) \in P
  <2>1. /\ q \in Seq(Pointer) /\ b \in Pointer /\ <<b>> \in Seq(Pointer)
        /\ Append(q, b) = q \o <<b>> /\ Append(q, b) \in Seq(FullBuffer)
        /\ Len(Append(q, b)) = Len(q) + 1 /\ Len(q) \in Nat
    BY FullIsBuffer
  <2>2. Contents(b) = b /\ Len(b) = Capacity /\ b \in Seq(Nat)
    BY NotNull DEF Contents, FullBuffer, Buffer, Numbers
  <2>3. Owned(Append(q, b)) = Owned(q) \o b /\ Owned(q) \in Seq(Nat)
    BY <2>1, <2>2, OwnedJoin, OwnedOne
  <2>4. Len(Owned(q) \o b) = Len(Owned(q)) + Capacity
    <3> DEFINE o == Owned(q)
    <3>1. o \in Seq(Nat) /\ b \in Seq(Nat)
      BY <2>2, <2>3
    <3> HIDE DEF o
    <3>2. Len(o \o b) = Len(o) + Len(b)
      BY <3>1
    <3> QED
      BY <2>2, <3>2 DEF o
  <2>5. Len(Owned(q)) = Len(q) * Capacity
    BY <1>2
  <2>6. Len(q) * Capacity + Capacity = (Len(q) + 1) * Capacity
    BY <1>0, <2>1
  <2> QED
    BY <2>1, <2>3, <2>4, <2>5, <2>6
<1> HIDE DEF P
<1>3. Seq(FullBuffer) \subseteq P
  BY <1>1, <1>2, SequenceInduction
<1> QED
  BY <1>3 DEF P

-----------------------------------------------------------------------------
(* Sequences that are put together and taken apart.                        *)

LEMMA SameSeq ==
    ASSUME NEW T, NEW s \in Seq(T), NEW t \in Seq(T), Len(s) = Len(t),
           \A i \in 1 .. Len(s) : s[i] = t[i]
    PROVE  s = t
  OBVIOUS

LEMMA SubSeqIs ==
    ASSUME NEW T, NEW s \in Seq(T), NEW b \in Seq(T), NEW i \in Nat,
           i + Len(b) <= Len(s),
           \A k \in 1 .. Len(b) : s[i + k] = b[k]
    PROVE  SubSeq(s, i + 1, i + Len(b)) = b
<1> DEFINE t == SubSeq(s, i + 1, i + Len(b))
<1>1. t \in Seq(T) /\ Len(t) = Len(b)
  OBVIOUS
<1>2. ASSUME NEW k \in 1 .. Len(b) PROVE t[k] = b[k]
  <2>1. t[k] = s[i + k]
    OBVIOUS
  <2> QED
    BY <2>1
<1> HIDE DEF t
<1>3. \A k \in 1 .. Len(t) : t[k] = b[k]
  BY <1>1, <1>2
<1>4. t = b
  BY <1>1, <1>3, SameSeq
<1> QED
  BY <1>4 DEF t

\* A sequence is taken apart where it was put together.
LEMMA TakeApart ==
    ASSUME NEW T, NEW a \in Seq(T), NEW b \in Seq(T)
    PROVE  /\ a \o b \in Seq(T)
           /\ Len(a \o b) = Len(a) + Len(b)
           /\ SubSeq(a \o b, 1, Len(a)) = a
           /\ SubSeq(a \o b, Len(a) + 1, Len(a \o b)) = b
<1> DEFINE s == a \o b
<1>1. s \in Seq(T) /\ Len(s) = Len(a) + Len(b) /\ Len(a) \in Nat /\ Len(b) \in Nat
  OBVIOUS
<1>2. \A k \in 1 .. Len(a) : s[0 + k] = a[k]
  OBVIOUS
<1>3. \A k \in 1 .. Len(b) : s[Len(a) + k] = b[k]
  OBVIOUS
<1> HIDE DEF s
<1>4. SubSeq(s, 0 + 1, 0 + Len(a)) = a
  BY <1>1, <1>2, SubSeqIs
<1>5. SubSeq(s, Len(a) + 1, Len(a) + Len(b)) = b
  BY <1>1, <1>3, SubSeqIs
<1> QED
  BY <1>1, <1>4, <1>5 DEF s

\* A sequence is put together where it was taken apart.
LEMMA PutTogether ==
    ASSUME NEW T, NEW s \in Seq(T), NEW i \in 0 .. Len(s)
    PROVE  /\ SubSeq(s, 1, i) \in Seq(T)
           /\ SubSeq(s, i + 1, Len(s)) \in Seq(T)
           /\ Len(SubSeq(s, 1, i)) = i
           /\ s = SubSeq(s, 1, i) \o SubSeq(s, i + 1, Len(s))
<1> DEFINE a == SubSeq(s, 1, i)
           b == SubSeq(s, i + 1, Len(s))
<1>0. i \in Nat /\ Len(s) \in Nat
  OBVIOUS
<1>1. /\ a \in Seq(T) /\ b \in Seq(T) /\ Len(a) = i /\ Len(b) = Len(s) - i
      /\ \A k \in 1 .. i : s[k] = a[k]
      /\ \A k \in 1 .. Len(s) - i : s[i + k] = b[k]
  OBVIOUS
<1> HIDE DEF a, b
<1>2. /\ Len(s) = Len(a) + Len(b)
      /\ \A k \in 1 .. Len(a) : s[k] = a[k]
      /\ \A k \in 1 .. Len(b) : s[Len(a) + k] = b[k]
  BY <1>0, <1>1
<1>3. s = a \o b
  BY <1>1, <1>2, JoinIs
<1> QED
  BY <1>1, <1>3 DEF a, b

LEMMA Regroup ==
    ASSUME NEW T, NEW a \in Seq(T), NEW b \in Seq(T), NEW c \in Seq(T)
    PROVE  (a \o b) \o c = a \o (b \o c)
  OBVIOUS

LEMMA RegroupLines ==
    \A a, b, c \in Seq(Nat) : (a \o b) \o c = a \o (b \o c)
  OBVIOUS

LEMMA OwnedThree ==
    ASSUME NEW p \in Seq(Pointer), NEW q \in Seq(Pointer), NEW c \in Pointer
    PROVE  /\ Owned(p) \in Seq(Nat) /\ Owned(q) \in Seq(Nat) /\ Contents(c) \in Seq(Nat)
           /\ Owned((p \o q) \o <<c>>) = (Owned(p) \o Owned(q)) \o Contents(c)
<1> DEFINE r == p \o q
<1>1. r \in Seq(Pointer) /\ <<c>> \in Seq(Pointer)
  OBVIOUS
<1>2. Owned(r) = Owned(p) \o Owned(q)
  BY OwnedJoin
<1> HIDE DEF r
<1>3. Owned(r \o <<c>>) = Owned(r) \o Owned(<<c>>)
  BY <1>1, OwnedJoin
<1>4. Owned(<<c>>) = Contents(c) /\ Contents(c) \in Seq(Nat)
  BY OwnedOne
<1>5. Owned(p) \in Seq(Nat) /\ Owned(q) \in Seq(Nat)
  BY OwnedJoin
<1> QED
  BY <1>2, <1>3, <1>4, <1>5 DEF r

-----------------------------------------------------------------------------
(* The steps of the queue.                                                 *)

LEMMA StepAccept ==
    ASSUME NEW way \in Seq(Nat), OnTheWay = way,
           OnTheWay' = Append(way, appended + 1), appended' = appended + 1,
           Logged(output'.lines) = Logged(output.lines)
    PROVE  Queue!Accept
  BY DEF Queue!Accept

LEMMA StepDeliver ==
    ASSUME NEW first \in Seq(Nat), NEW rest \in Seq(Nat),
           OnTheWay = first \o rest, OnTheWay' = rest, appended' = appended,
           Logged(output'.lines) = Logged(output.lines) \o first,
           Logged(output.lines) \in Seq(Nat)
    PROVE  [Queue!Next]_<<appended, OnTheWay, Logged(output.lines)>>
<1>0. Len(first) \in Nat /\ Len(rest) \in Nat
  OBVIOUS
<1>1. CASE first = <<>>
  <2>1. first \o rest = rest /\ Logged(output.lines) \o first = Logged(output.lines)
    BY <1>1
  <2> QED
    BY <2>1
<1>2. CASE first # <<>>
  <2> DEFINE way == first \o rest
             n == Len(first)
  <2>1. /\ Len(way) = n + Len(rest) /\ SubSeq(way, 1, n) = first
        /\ SubSeq(way, n + 1, Len(way)) = rest
    BY TakeApart
  <2>2. n # 0
    BY <1>2
  <2>3. n \in 1 .. Len(way)
    BY <1>0, <2>1, <2>2
  <2> HIDE DEF n, way
  <2>4. OnTheWay = way
    BY DEF way
  <2>5. /\ Logged(output'.lines) = Logged(output.lines) \o SubSeq(OnTheWay, 1, n)
        /\ OnTheWay' = SubSeq(OnTheWay, n + 1, Len(OnTheWay))
        /\ n \in 1 .. Len(OnTheWay)
    BY <2>1, <2>3, <2>4
  <2>6. Queue!Deliver
    BY <2>5 DEF Queue!Deliver
  <2> QED
    BY <2>6 DEF Queue!Next
<1> QED
  BY <1>1, <1>2

\* What is cut out of the middle of a sequence.
LEMMA CutOut ==
    ASSUME NEW T, NEW a \in Seq(T), NEW b \in Seq(T), NEW c \in Seq(T), b # <<>>,
           NEW s, s = a \o (b \o c), NEW ab, ab = a \o b
    PROVE  /\ Len(ab) \in Nat /\ Len(s) \in Nat
           /\ Len(a) < Len(ab) /\ Len(ab) <= Len(s)
           /\ SubSeq(s, 1, Len(a)) = a
           /\ SubSeq(s, Len(ab) + 1, Len(s)) = c
<1> DEFINE bc == b \o c
<1>1. bc \in Seq(T) /\ Len(bc) = Len(b) + Len(c)
  BY TakeApart
<1>2. ab \in Seq(T) /\ Len(ab) = Len(a) + Len(b)
  BY TakeApart
<1>3. s = ab \o c
  <2>1. (a \o b) \o c = a \o (b \o c)
    BY Regroup
  <2> QED
    BY <2>1, Zenon
<1>4. Len(s) = Len(a) + Len(bc) /\ SubSeq(s, 1, Len(a)) = a
  <2>1. bc \in Seq(T) /\ s = a \o bc
    BY <1>1
  <2> HIDE DEF bc
  <2>2. Len(a \o bc) = Len(a) + Len(bc)
    BY <2>1, TakeApart
  <2>3. SubSeq(a \o bc, 1, Len(a)) = a
    BY <2>1, TakeApart
  <2> QED
    BY <2>1, <2>2, <2>3
<1>5. SubSeq(s, Len(ab) + 1, Len(s)) = c
  BY <1>2, <1>3, TakeApart
<1>6. Len(a) \in Nat /\ Len(b) \in Nat \ {0} /\ Len(c) \in Nat
  OBVIOUS
<1> HIDE DEF bc
<1>7. Len(ab) \in Nat /\ Len(s) \in Nat /\ Len(a) < Len(ab) /\ Len(ab) <= Len(s)
  BY <1>1, <1>2, <1>4, <1>6
<1> QED
  BY <1>4, <1>5, <1>7

LEMMA StepDiscard ==
    ASSUME NEW spared \in Seq(Nat), NEW lost \in Seq(Nat), NEW rest \in Seq(Nat),
           Len(spared) = 2 * Capacity,
           OnTheWay = spared \o (lost \o rest), OnTheWay' = spared \o rest,
           Len(OnTheWay) >= StormLimit * Capacity, appended' = appended,
           Logged(output'.lines) = Logged(output.lines)
    PROVE  [Queue!Next]_<<appended, OnTheWay, Logged(output.lines)>>
<1>1. CASE lost = <<>>
  <2>1. lost \o rest = rest
    BY <1>1
  <2> QED
    BY <2>1
<1>2. CASE lost # <<>>
  <2> DEFINE way == spared \o (lost \o rest)
             both == spared \o lost
             i == 2 * Capacity + 1
             j == Len(both) + 1
  <2>1. /\ Len(both) \in Nat /\ Len(way) \in Nat
        /\ Len(spared) < Len(both) /\ Len(both) <= Len(way)
        /\ SubSeq(way, 1, Len(spared)) = spared
        /\ SubSeq(way, Len(both) + 1, Len(way)) = rest
    <3>1. way = spared \o (lost \o rest) /\ both = spared \o lost
      OBVIOUS
    <3> HIDE DEF way, both
    <3>2. Len(both) \in Nat /\ Len(way) \in Nat
      BY <1>2, <3>1, CutOut
    <3>3. Len(spared) < Len(both)
      BY <1>2, <3>1, CutOut
    <3>4. Len(both) <= Len(way)
      BY <1>2, <3>1, CutOut
    <3>5. SubSeq(way, 1, Len(spared)) = spared
      BY <1>2, <3>1, CutOut
    <3>6. SubSeq(way, Len(both) + 1, Len(way)) = rest
      BY <1>2, <3>1, CutOut
    <3> QED
      BY <3>2, <3>3, <3>4, <3>5, <3>6
  <2>3. OnTheWay = way
    OBVIOUS
  <2> HIDE DEF way, both
  <2>2. i \in Nat /\ i - 1 = Len(spared) /\ j \in Nat
    BY <2>1, LoggingAssumption
  <2>4. i \in i .. Len(way) /\ j \in i + 1 .. Len(way) + 1
    BY <2>1, <2>2
  <2> HIDE DEF i, j
  <2>5. OnTheWay' = SubSeq(way, 1, i - 1) \o SubSeq(way, j, Len(way))
    BY <2>1, <2>2 DEF j
  <2>6. \E k \in i .. Len(OnTheWay) : \E l \in k + 1 .. Len(OnTheWay) + 1 :
            OnTheWay' = SubSeq(OnTheWay, 1, k - 1) \o SubSeq(OnTheWay, l, Len(OnTheWay))
    BY <2>3, <2>4, <2>5
  <2>7. Queue!Discard
    BY <2>6 DEF Queue!Discard, i
  <2> QED
    BY <2>7 DEF Queue!Next
<1> QED
  BY <1>1, <1>2

-----------------------------------------------------------------------------
(* The lines in the file.                                                  *)

LEMMA RollLines ==
    ASSUME NEW log \in LogType, NEW time
    PROVE  /\ Flush(log).lines = log.lines
           /\ RollFile(log, time).lines = log.lines
<1>1. Flush(log).lines = log.lines /\ Flush(log) \in LogType
  BY DEF Flush, LogType
<1> DEFINE flushed == Flush(log)
<1> HIDE DEF flushed
<1>2. [flushed EXCEPT !.written = 0, !.stale = 0, !.lastRoll = time,
                      !.lastFlush = time, !.startOfPeriod = Period(time)].lines = flushed.lines
  BY <1>1 DEF LogType, flushed
<1> QED
  BY <1>1, <1>2 DEF RollFile, flushed

LEMMA CountedLines ==
    ASSUME NEW log \in LogType, NEW time
    PROVE  Counted(log, time).lines = log.lines
<1> DEFINE reset == [log EXCEPT !.count = 0]
           more == [log EXCEPT !.count = @ + 1]
<1>1. reset \in LogType /\ reset.lines = log.lines /\ more.lines = log.lines
  BY DEF LogType
<1> HIDE DEF reset
<1> DEFINE checked == [reset EXCEPT !.lastFlush = time]
<1>2. checked.lines = reset.lines /\ Flush(checked).lines = checked.lines
  BY <1>1 DEF LogType, Flush
<1>3. RollFile(reset, time).lines = reset.lines
  BY <1>1, RollLines
<1> HIDE DEF checked
<1>4. PeriodicCheck(reset, time).lines = reset.lines
  BY <1>2, <1>3 DEF PeriodicCheck, checked
<1> HIDE DEF more
<1> QED
  BY <1>1, <1>4 DEF Counted, reset, more

\* append_unlocked() adds what it is given, whatever it does to the files.
LEMMA AppendLines ==
    ASSUME NEW log, NEW lines \in Seq(Nat), NEW time \in Nat, LogInv(log, time)
    PROVE  AppendUnlocked(log, lines, time).lines = log.lines \o lines
<1> DEFINE wrote == Dated(Write(log, lines), time)
<1>1. wrote \in LogType
  BY DatedWrite DEF Wrote
<1>2. wrote.lines = log.lines \o lines
  <2>1. log \in LogType
    BY DEF LogInv
  <2> DEFINE w == Write(log, lines)
  <2>2. w.lines = log.lines \o lines /\ w = [w EXCEPT !.lines = @]
    BY <2>1 DEF Write, LogType
  <2>3. [w EXCEPT !.stale = @ + 1].lines = w.lines
    <3> HIDE DEF w
    <3> QED
      BY <2>2
  <2> HIDE DEF w
  <2> QED
    BY <2>2, <2>3 DEF Dated, w
<1> HIDE DEF wrote
<1>3. RollFile(wrote, time).lines = wrote.lines /\ Counted(wrote, time).lines = wrote.lines
  BY <1>1, RollLines, CountedLines
<1> QED
  BY <1>2, <1>3 DEF AppendUnlocked, wrote

-----------------------------------------------------------------------------
(* The invariant of the refinement: lines are in the buffers in order, and *)
(* all buffers that were queued are full but the last one of a batch.      *)

\* The spare buffers are empty where they are owned.
Spare == {<<>>, NoBuffer}

LinePointer == Seq(Numbers) \cup {NoBuffer}

QueueInv ==
    /\ current \in LinePointer
    /\ current # NoBuffer => Len(current) <= Capacity
    /\ {next, new1, new2} \subseteq Spare
    /\ buffers \in Seq(FullBuffer)
    /\ batch \in Seq(LinePointer)
    /\ \A i \in 1 .. Len(batch) - 1 : batch[i] \in FullBuffer
    /\ pc # "write" => batch = <<>> /\ done = 0
    /\ done \in 0 .. Len(batch)
    /\ done > 0 => Len(batch) <= StormLimit

LEMMA LineNull ==
    /\ NoBuffer \notin Seq(Numbers) /\ <<>> \in Seq(Numbers)
    /\ LinePointer \subseteq Pointer
    /\ FullBuffer \subseteq LinePointer
    /\ NoBuffer \notin FullBuffer
<1>1. Seq(Numbers) \subseteq Seq(Nat)
  BY DEF Numbers
<1>2. <<>> \in Seq(Numbers)
  OBVIOUS
<1> QED
  BY <1>1, <1>2, LoggingAssumption DEF LinePointer, Pointer, FullBuffer, Buffer

LEMMA QueueInvInit == Init => QueueInv
<1> SUFFICES ASSUME Init PROVE QueueInv
  OBVIOUS
<1>1. Capacity \in Nat
  BY LoggingAssumption
<1> QED
  BY <1>1, LineNull DEF Init, QueueInv, LinePointer, Spare

LEMMA QueueInvNext == IInv /\ QueueInv /\ [Next]_vars => QueueInv'
<1> SUFFICES ASSUME IInv, QueueInv, [Next]_vars PROVE QueueInv'
  OBVIOUS
<1>0. /\ Capacity \in Nat \ {0} /\ StormLimit \in Nat /\ StormLimit >= 2
      /\ appended \in Nat /\ NoBuffer # <<>> /\ Len(batch) \in Nat
  <2>1. Capacity \in Nat \ {0} /\ StormLimit \in Nat /\ StormLimit >= 2
    BY LoggingAssumption
  <2>2. appended \in Nat /\ Len(batch) \in Nat
    BY DEF IInv, PointersOK
  <2>3. NoBuffer # <<>>
    BY LineNull
  <2> QED
    BY <2>1, <2>2, <2>3
<1>01. \A b \in Spare : b \in LinePointer /\ (b # NoBuffer => Len(b) <= Capacity)
  <2>1. <<>> \in LinePointer /\ NoBuffer \in LinePointer /\ Len(<<>>) = 0
    BY LineNull DEF LinePointer
  <2>2. 0 <= Capacity
    BY <1>0
  <2> QED
    BY <2>1, <2>2 DEF Spare
<1> USE DEF front, back
<1>1. CASE UNCHANGED vars
  BY <1>1 DEF vars, QueueInv
<1>2. CASE AppendFits
  <2>1. current \in Seq(Numbers) /\ appended + 1 \in Numbers /\ Len(current) < Capacity
    BY <1>0, <1>2 DEF AppendFits, QueueInv, LinePointer, Numbers
  <2>2. current' \in Seq(Numbers) /\ Len(current') = Len(current) + 1
    BY <1>2, <2>1 DEF AppendFits
  <2>3. Len(current') <= Capacity
    BY <1>0, <2>1, <2>2
  <2> QED
    BY <1>2, <2>2, <2>3 DEF AppendFits, QueueInv, LinePointer
<1>3. CASE AppendSwitches
  <2>1. current \in FullBuffer
    BY <1>0, <1>3 DEF AppendSwitches, QueueInv, LinePointer, FullBuffer
  <2>2. buffers' \in Seq(FullBuffer)
    BY <1>3, <2>1 DEF AppendSwitches, QueueInv
  <2>3. current' = Append(<<>>, appended + 1) /\ appended + 1 \in Numbers
    <3>1. (IF next = NoBuffer THEN <<>> ELSE next) = <<>>
      BY DEF QueueInv, Spare
    <3>2. current' = Append(IF next = NoBuffer THEN <<>> ELSE next, appended + 1)
      BY <1>3 DEF AppendSwitches
    <3>3. appended + 1 \in Numbers
      BY <1>0 DEF Numbers
    <3> QED
      BY <3>1, <3>2, <3>3, Zenon
  <2>4. current' \in Seq(Numbers) /\ Len(current') = 1
    <3> DEFINE line == appended + 1
    <3>1. line \in Numbers /\ current' = Append(<<>>, line)
      BY <2>3
    <3> HIDE DEF line
    <3>2. Append(<<>>, line) \in Seq(Numbers) /\ Len(Append(<<>>, line)) = 1
      BY <3>1
    <3> QED
      BY <3>1, <3>2
  <2>5. current' \in LinePointer /\ Len(current') <= Capacity
    BY <1>0, <2>4 DEF LinePointer
  <2>6. /\ next' = NoBuffer
        /\ UNCHANGED <<new1, new2>>
    BY <1>3 DEF AppendSwitches
  <2>8. batch' = batch /\ pc' = pc /\ done' = done
    BY <1>3 DEF AppendSwitches
  <2>7. {next', new1', new2'} \subseteq Spare
    BY <2>6 DEF QueueInv, Spare
  <2> QED
    BY <2>2, <2>5, <2>7, <2>8 DEF QueueInv
<1>4. CASE Crash
  BY <1>4 DEF Crash, QueueInv
<1>5. CASE Stop
  BY <1>5 DEF Stop, QueueInv
<1>6. CASE Elapse
  BY <1>6 DEF Elapse, QueueInv
<1>7. CASE LoopHead
  BY <1>7 DEF LoopHead, QueueInv
<1>8. CASE Swap
  <2>1. /\ batch' = Append(buffers, current) /\ buffers' = <<>> /\ current' = new1
        /\ new1' = NoBuffer /\ pc = "wait" /\ pc' = "write" /\ done' = done
        /\ IF next = NoBuffer THEN next' = new2 /\ new2' = NoBuffer
                              ELSE UNCHANGED <<next, new2>>
    BY <1>8 DEF Swap, SwapAs
  <2>2. buffers \in Seq(FullBuffer) /\ current \in LinePointer /\ new1 \in Spare /\ done = 0
    BY <2>1 DEF QueueInv
  <2>3. buffers \in Seq(LinePointer) /\ Len(buffers) \in Nat
        /\ \A i \in 1 .. Len(buffers) : buffers[i] \in FullBuffer
    BY <2>2, LineNull
  <2>4. batch' \in Seq(LinePointer) /\ Len(batch') = Len(buffers) + 1
        /\ \A i \in 1 .. Len(buffers) : batch'[i] = buffers[i]
    BY <2>1, <2>2, <2>3
  <2>5. \A i \in 1 .. Len(batch') - 1 : batch'[i] \in FullBuffer
    BY <2>3, <2>4
  <2>6. current' \in LinePointer /\ (current' # NoBuffer => Len(current') <= Capacity)
    BY <1>01, <2>1, <2>2
  <2>7. {next', new1', new2'} \subseteq Spare /\ buffers' \in Seq(FullBuffer)
    BY <2>1 DEF QueueInv, Spare
  <2>8. done' \in 0 .. Len(batch') /\ ~(done' > 0)
    BY <2>1, <2>2, <2>3, <2>4
  <2> QED
    BY <2>1, <2>4, <2>5, <2>6, <2>7, <2>8 DEF QueueInv
<1>9. CASE DropStorm
  <2>1. /\ pc' = pc /\ pc = "write" /\ done' = done /\ batch' = SubSeq(batch, 1, 2)
        /\ UNCHANGED <<current, next, new1, new2, buffers>> /\ Len(batch) > StormLimit
    BY <1>9 DEF DropStorm, Storm
  <2>2. batch \in Seq(LinePointer) /\ done = 0
    BY <1>0, <2>1 DEF QueueInv
  <2>3. batch' \in Seq(LinePointer) /\ Len(batch') = 2
        /\ \A i \in 1 .. 2 : i \in 1 .. Len(batch) - 1 /\ batch'[i] = batch[i]
    BY <1>0, <2>1, <2>2
  <2>4. \A i \in 1 .. Len(batch') - 1 : batch'[i] \in FullBuffer
    BY <2>3 DEF QueueInv
  <2>5. done' \in 0 .. Len(batch') /\ ~(done' > 0)
    BY <2>1, <2>2, <2>3
  <2> QED
    BY <2>1, <2>3, <2>4, <2>5 DEF QueueInv
<1>10. CASE WriteBuffer
  <2>1. CASE Crash
    BY <2>1 DEF Crash, QueueInv
  <2>2. CASE ~Crash
    <3>1. /\ pc' = pc /\ done' = done + 1 /\ batch' = batch /\ done < Len(batch)
          /\ Len(batch) <= StormLimit /\ pc = "write"
          /\ UNCHANGED <<current, next, new1, new2, buffers>>
      BY <1>0, <1>10, <2>2 DEF WriteBuffer, Storm
    <3>2. done' \in 0 .. Len(batch')
      BY <1>0, <3>1 DEF QueueInv
    <3> QED
      BY <3>1, <3>2 DEF QueueInv
  <2> QED
    BY <2>1, <2>2
<1>11. CASE Recycle
  <2>1. CASE Crash
    BY <2>1 DEF Crash, QueueInv
  <2>2. CASE ~Crash
    <3>1. /\ pc' = "head" /\ batch' = <<>> /\ done' = 0
          /\ new1' \in {<<>>, new1} /\ new2' \in {<<>>, new2}
          /\ UNCHANGED <<current, next, buffers>>
      BY <1>11, <2>2 DEF Recycle
    <3>2. {next', new1', new2'} \subseteq Spare
      BY <3>1 DEF QueueInv, Spare
    <3>3. /\ batch' \in Seq(LinePointer) /\ Len(batch') = 0
          /\ done' \in 0 .. Len(batch') /\ ~(done' > 0)
          /\ \A i \in 1 .. Len(batch') - 1 : batch'[i] \in FullBuffer
      BY <3>1
    <3> QED
      BY <3>1, <3>2, <3>3 DEF QueueInv
  <2> QED
    BY <2>1, <2>2
<1> QED
  BY <1>1, <1>2, <1>3, <1>4, <1>5, <1>6, <1>7, <1>8, <1>9, <1>10, <1>11
     DEF Next, Background, AppendCrashes

\* What a step of the logger is for the queue.
QueueStep == [Queue!Next]_<<appended, OnTheWay, Logged(output.lines)>>

\* The lines in what is left of a batch b, in full buffers q and in c.
Way(b, d, q, c) == (Owned(SubSeq(b, d + 1, Len(b))) \o Owned(q)) \o Contents(c)

LEMMA WayIs ==
    ASSUME NEW b \in Seq(LinePointer), NEW d \in 0 .. Len(b),
           NEW q \in Seq(FullBuffer), NEW c \in LinePointer
    PROVE  /\ Owned(SubSeq(b, d + 1, Len(b)) \o q \o <<c>>) = Way(b, d, q, c)
           /\ Owned(SubSeq(b, d + 1, Len(b))) \in Seq(Nat)
           /\ Owned(q) \in Seq(Nat) /\ Contents(c) \in Seq(Nat)
           /\ Way(b, d, q, c) \in Seq(Nat)
<1> DEFINE r == SubSeq(b, d + 1, Len(b))
<1>1. r \in Seq(LinePointer)
  OBVIOUS
<1>2. r \in Seq(Pointer) /\ q \in Seq(Pointer) /\ c \in Pointer
  BY <1>1, LineNull
<1> HIDE DEF r
<1>3. /\ Owned(r) \in Seq(Nat) /\ Owned(q) \in Seq(Nat) /\ Contents(c) \in Seq(Nat)
      /\ Owned((r \o q) \o <<c>>) = (Owned(r) \o Owned(q)) \o Contents(c)
  BY <1>2, OwnedThree
<1>4. (Owned(r) \o Owned(q)) \o Contents(c) \in Seq(Nat)
  BY <1>3
<1> QED
  BY <1>3, <1>4 DEF r, Way

LEMMA OnTheWayIs ==
    ASSUME IInv, QueueInv
    PROVE  /\ OnTheWay = Way(batch, done, buffers, current)
           /\ Owned(SubSeq(batch, done + 1, Len(batch))) \in Seq(Nat)
           /\ Owned(buffers) \in Seq(Nat) /\ Contents(current) \in Seq(Nat)
           /\ OnTheWay \in Seq(Nat)
  BY WayIs DEF QueueInv, OnTheWay

LEMMA OnTheWayNext ==
    ASSUME QueueInv'
    PROVE  /\ OnTheWay' = Way(batch', done', buffers', current')
           /\ OnTheWay' \in Seq(Nat)
<1>1. /\ batch' \in Seq(LinePointer) /\ done' \in 0 .. Len(batch')
      /\ buffers' \in Seq(FullBuffer) /\ current' \in LinePointer
  BY DEF QueueInv
<1>2. OnTheWay' = Owned(SubSeq(batch', done' + 1, Len(batch')) \o buffers' \o <<current'>>)
  BY DEF OnTheWay
<1> QED
  BY <1>1, <1>2, WayIs

\* Steps that leave all lines where they are.
LEMMA SameWay ==
    ASSUME UNCHANGED <<appended, batch, done, buffers, current>>,
           output'.lines = output.lines
    PROVE  QueueStep
<1>1. OnTheWay' = OnTheWay
  BY DEF OnTheWay
<1>2. Logged(output.lines)' = Logged(output.lines)
  BY DEF Logged
<1> QED
  BY <1>1, <1>2 DEF QueueStep

LEMMA OutputType == IInv => /\ output \in LogType /\ output.lines \in Seq(Nat)
                            /\ LogInv(output, now) /\ now \in Nat
  BY DEF IInv, FileOK, LogInv, LogType

LEMMA AppendFitsStep ==
    ASSUME IInv, QueueInv, QueueInv', AppendFits PROVE QueueStep
<1> DEFINE r == Owned(SubSeq(batch, done + 1, Len(batch)))
           f == r \o Owned(buffers)
<1>1. /\ current # NoBuffer /\ current' = Append(current, appended + 1)
      /\ UNCHANGED <<batch, done, buffers, output>> /\ appended' = appended + 1
  BY DEF AppendFits, back
<1>2. f \in Seq(Nat) /\ OnTheWay = f \o Contents(current) /\ OnTheWay \in Seq(Nat)
  BY OnTheWayIs DEF Way
<1>3. OnTheWay' = f \o Contents(current')
  BY <1>1, OnTheWayNext DEF Way
<1>4. current \in Seq(Numbers) /\ current' # NoBuffer
  <2>1. current \in Seq(Numbers) /\ appended + 1 \in Numbers
    BY <1>1 DEF QueueInv, LinePointer, IInv, PointersOK, Numbers
  <2>2. current' \in Seq(Numbers)
    BY <1>1, <2>1
  <2> QED
    BY <2>1, <2>2, LineNull
<1>5. Contents(current) = current /\ Contents(current') = Append(current, appended + 1)
  BY <1>1, <1>4 DEF Contents
<1>6. current \in Seq(Nat) /\ appended + 1 \in Nat
  BY <1>4 DEF Numbers, IInv, PointersOK
<1> HIDE DEF f
<1>7. f \o Append(current, appended + 1) = Append(f \o current, appended + 1)
  BY <1>2, <1>6
<1>8. OnTheWay' = Append(OnTheWay, appended + 1)
  BY <1>2, <1>3, <1>5, <1>7
<1>9. Logged(output'.lines) = Logged(output.lines)
  BY <1>1
<1> QED
  BY <1>1, <1>2, <1>8, <1>9, StepAccept DEF QueueStep, Queue!Next

LEMMA AppendSwitchesStep ==
    ASSUME IInv, QueueInv, QueueInv', AppendSwitches PROVE QueueStep
<1> DEFINE r == Owned(SubSeq(batch, done + 1, Len(batch)))
<1>1. /\ current # NoBuffer /\ buffers' = Append(buffers, current)
      /\ current' = Append(IF next = NoBuffer THEN <<>> ELSE next, appended + 1)
      /\ UNCHANGED <<batch, done, output>> /\ appended' = appended + 1
  BY DEF AppendSwitches, back
<1>2. /\ r \in Seq(Nat) /\ Owned(buffers) \in Seq(Nat) /\ Contents(current) \in Seq(Nat)
      /\ OnTheWay = (r \o Owned(buffers)) \o Contents(current) /\ OnTheWay \in Seq(Nat)
  BY OnTheWayIs DEF Way
<1>3. OnTheWay' = (r \o Owned(buffers')) \o Contents(current')
  BY <1>1, OnTheWayNext DEF Way
<1> HIDE DEF r
<1>4. Contents(current') = <<appended + 1>>
  <2>1. (IF next = NoBuffer THEN <<>> ELSE next) = <<>>
    BY DEF QueueInv, Spare
  <2>2. current' = Append(<<>>, appended + 1)
    BY <1>1, <2>1, Zenon
  <2>3. appended + 1 \in Nat
    BY DEF IInv, PointersOK
  <2>4. <<appended + 1>> \in Seq(Nat) /\ Append(<<>>, appended + 1) = <<appended + 1>>
    BY <2>3
  <2>5. current' # NoBuffer
    BY <2>2, <2>4, NotNull DEF Buffer
  <2> QED
    BY <2>2, <2>4, <2>5 DEF Contents
<1>5. Owned(buffers') = Owned(buffers) \o Contents(current)
  <2>1. buffers \in Seq(Pointer) /\ current \in Pointer /\ <<current>> \in Seq(Pointer)
    BY LineNull DEF QueueInv
  <2>2. buffers' = buffers \o <<current>>
    BY <1>1, <2>1
  <2>3. Owned(buffers \o <<current>>) = Owned(buffers) \o Owned(<<current>>)
    BY <2>1, OwnedJoin
  <2> QED
    BY <2>1, <2>2, <2>3, OwnedOne
<1>6. OnTheWay' = Append(OnTheWay, appended + 1)
  <2>1. appended + 1 \in Nat
    BY DEF IInv, PointersOK
  <2> DEFINE o == Owned(buffers)
             c == Contents(current)
             n == appended + 1
  <2>2. o \in Seq(Nat) /\ c \in Seq(Nat) /\ n \in Nat
    BY <1>2, <2>1
  <2> HIDE DEF o, c, n
  <2>3. (r \o (o \o c)) \o <<n>> = Append((r \o o) \o c, n)
    <3>0. r \in Seq(Nat)
      BY <1>2
    <3>1. (r \o o) \o c = r \o (o \o c)
      BY <2>2, <3>0, RegroupLines
    <3>2. (r \o o) \o c \in Seq(Nat)
      BY <1>2, <2>2
    <3> DEFINE s == (r \o o) \o c
    <3> HIDE DEF s
    <3>3. s \o <<n>> = Append(s, n)
      BY <2>2, <3>2 DEF s
    <3> QED
      BY <3>1, <3>3 DEF s
  <2> QED
    BY <1>2, <1>3, <1>4, <1>5, <2>3 DEF o, c, n
<1>7. Logged(output'.lines) = Logged(output.lines)
  BY <1>1
<1> QED
  BY <1>1, <1>2, <1>6, <1>7, StepAccept DEF QueueStep, Queue!Next

LEMMA SwapStep ==
    ASSUME IInv, QueueInv, QueueInv', Swap PROVE QueueStep
<1>1. /\ batch' = Append(buffers, current) /\ buffers' = <<>> /\ current' = new1
      /\ pc = "wait" /\ done' = done /\ UNCHANGED <<output, appended>>
  BY DEF Swap, SwapAs
<1>2. batch = <<>> /\ done = 0 /\ new1 \in Spare
  BY <1>1 DEF QueueInv
<1>3. buffers \in Seq(Pointer) /\ current \in Pointer /\ <<current>> \in Seq(Pointer)
  BY LineNull DEF QueueInv
<1>4. OnTheWay = (Owned(<<>>) \o Owned(buffers)) \o Contents(current)
  <2>1. SubSeq(batch, done + 1, Len(batch)) = <<>>
    BY <1>2
  <2> QED
    BY <2>1, OnTheWayIs DEF Way
<1>5. OnTheWay' = (Owned(batch') \o Owned(<<>>)) \o Contents(new1)
  <2>1. batch' \in Seq(Pointer)
    BY <1>1, <1>3
  <2>2. SubSeq(batch', 1, Len(batch')) = batch'
    BY <2>1
  <2>3. SubSeq(batch', done' + 1, Len(batch')) = batch'
    BY <1>1, <1>2, <2>2
  <2> QED
    BY <1>1, <2>3, OnTheWayNext DEF Way
<1>6. Owned(batch') = Owned(buffers) \o Contents(current)
  <2>1. batch' = buffers \o <<current>>
    BY <1>1, <1>3
  <2>2. Owned(buffers \o <<current>>) = Owned(buffers) \o Owned(<<current>>)
    BY <1>3, OwnedJoin
  <2> QED
    BY <1>3, <2>1, <2>2, OwnedOne
<1>7. /\ Owned(<<>>) = <<>> /\ Contents(new1) = <<>>
      /\ Owned(buffers) \in Seq(Nat) /\ Contents(current) \in Seq(Nat)
  BY <1>2, <1>3, OwnedOne, OwnedJoin DEF Contents, Spare
<1>8. OnTheWay' = OnTheWay
  <2> DEFINE o == Owned(buffers)
             c == Contents(current)
  <2>1. o \in Seq(Nat) /\ c \in Seq(Nat)
    BY <1>7
  <2> HIDE DEF o, c
  <2>2. ((o \o c) \o <<>>) \o <<>> = (<<>> \o o) \o c
    BY <2>1
  <2> QED
    BY <1>4, <1>5, <1>6, <1>7, <2>2 DEF o, c
<1>9. Logged(output.lines)' = Logged(output.lines)
  BY <1>1 DEF Logged
<1> QED
  BY <1>1, <1>8, <1>9 DEF QueueStep

LEMMA DropStormStep ==
    ASSUME IInv, QueueInv, QueueInv', DropStorm PROVE QueueStep
<1> DEFINE head == SubSeq(batch, 1, 2)
           tail == SubSeq(batch, 3, Len(batch))
           rest == Owned(buffers) \o Contents(current)
<1>1. /\ Len(batch) > StormLimit /\ batch' = head
      /\ output' = AppendUnlocked(output, <<Notice>>, now)
      /\ done' = done /\ UNCHANGED <<appended, buffers, current>>
  BY DEF DropStorm, Storm, front
<1>2. /\ batch \in Seq(LinePointer) /\ Len(batch) \in Nat /\ done = 0
      /\ StormLimit \in Nat /\ StormLimit >= 2 /\ Capacity \in Nat
      /\ \A i \in 1 .. StormLimit : batch[i] \in FullBuffer
  BY <1>1, LoggingAssumption DEF QueueInv
<1>3. head \in Seq(FullBuffer) /\ Len(head) = 2 /\ tail \in Seq(LinePointer)
  <2>0. Len(batch) >= 2 /\ \A i \in 1 .. 2 : i \in 1 .. StormLimit
    BY <1>1, <1>2
  <2>1. Len(head) = 2 /\ head \in Seq(LinePointer) /\ tail \in Seq(LinePointer)
        /\ \A i \in 1 .. 2 : head[i] = batch[i] /\ i \in 1 .. StormLimit
    BY <1>2, <2>0
  <2> HIDE DEF head, tail
  <2>2. \A i \in 1 .. 2 : head[i] \in FullBuffer
    BY <1>2, <2>1
  <2> QED
    BY <2>1, <2>2
<1>4. batch = head \o tail
  BY <1>1, <1>2, PutTogether
<1>5. head \in Seq(Pointer) /\ tail \in Seq(Pointer)
  <2> HIDE DEF head, tail
  <2> QED
    BY <1>3, FullIsBuffer, LineNull
<1>6. /\ Owned(batch) = Owned(head) \o Owned(tail)
      /\ Owned(head) \in Seq(Nat) /\ Owned(tail) \in Seq(Nat)
  <2> HIDE DEF head, tail
  <2> QED
    BY <1>4, <1>5, OwnedJoin
<1>7. Len(Owned(head)) = 2 * Capacity
  <2> HIDE DEF head
  <2> QED
    BY <1>3, FullLength
<1>8. /\ OnTheWay = (Owned(batch) \o Owned(buffers)) \o Contents(current)
      /\ Owned(buffers) \in Seq(Nat) /\ Contents(current) \in Seq(Nat)
  <2>1. SubSeq(batch, done + 1, Len(batch)) = batch
    BY <1>2
  <2> QED
    BY <2>1, OnTheWayIs DEF Way
<1>9. OnTheWay' = (Owned(head) \o Owned(buffers)) \o Contents(current)
  <2>1. SubSeq(head, 1, Len(head)) = head
    <3> HIDE DEF head
    <3> QED
      BY <1>3
  <2>2. SubSeq(batch', done' + 1, Len(batch')) = head
    BY <1>1, <1>2, <2>1
  <2> QED
    BY <1>1, <2>2, OnTheWayNext DEF Way
<1> DEFINE h == Owned(head)
           t == Owned(tail)
           o == Owned(buffers)
           c == Contents(current)
<1>10. /\ h \in Seq(Nat) /\ t \in Seq(Nat) /\ o \in Seq(Nat) /\ c \in Seq(Nat)
       /\ OnTheWay = ((h \o t) \o o) \o c /\ OnTheWay' = (h \o o) \o c
       /\ Len(h) = 2 * Capacity
  BY <1>6, <1>7, <1>8, <1>9
<1> HIDE DEF h, t, o, c
<1>11. /\ o \o c \in Seq(Nat)
       /\ (h \o o) \o c = h \o (o \o c)
       /\ ((h \o t) \o o) \o c = h \o (t \o (o \o c))
  <2>1. o \o c \in Seq(Nat) /\ h \o t \in Seq(Nat)
    BY <1>10
  <2>0. h \in Seq(Nat) /\ t \in Seq(Nat) /\ o \in Seq(Nat) /\ c \in Seq(Nat)
    BY <1>10
  <2>2. (h \o o) \o c = h \o (o \o c)
    BY <2>0, RegroupLines
  <2>3. ((h \o t) \o o) \o c = (h \o t) \o (o \o c)
    <3> DEFINE ht == h \o t
    <3>1. ht \in Seq(Nat)
      BY <2>1
    <3> HIDE DEF ht
    <3>2. (ht \o o) \o c = ht \o (o \o c)
      BY <2>0, <3>1, RegroupLines
    <3> QED
      BY <3>2 DEF ht
  <2>4. (h \o t) \o (o \o c) = h \o (t \o (o \o c))
    <3> DEFINE oc == o \o c
    <3>1. oc \in Seq(Nat)
      BY <2>1
    <3> HIDE DEF oc
    <3>2. (h \o t) \o oc = h \o (t \o oc)
      BY <2>0, <3>1, RegroupLines
    <3> QED
      BY <3>2 DEF oc
  <2> QED
    BY <2>1, <2>2, <2>3, <2>4
<1>12. Logged(output'.lines) = Logged(output.lines)
  <2>1. <<Notice>> \in Seq(Nat) /\ Notice \in Nat
    BY DEF Notice
  <2>2. output'.lines = output.lines \o <<Notice>>
    BY <1>1, <2>1, OutputType, AppendLines
  <2>3. Logged(output.lines \o <<Notice>>) = Logged(output.lines) \o Logged(<<Notice>>)
        /\ Logged(output.lines) \in Seq(Nat)
    BY <2>1, OutputType, LoggedJoin
  <2>4. Logged(<<Notice>>) = <<>>
    BY <2>1, LoggedOne DEF AsLogged
  <2>5. Logged(output.lines) \o <<>> = Logged(output.lines)
    BY <2>3
  <2> QED
    BY <2>2, <2>3, <2>4, <2>5
<1>13. Len(OnTheWay) >= StormLimit * Capacity
  <2> DEFINE full == SubSeq(batch, 1, StormLimit)
             more == SubSeq(batch, StormLimit + 1, Len(batch))
  <2>1. /\ full \in Seq(LinePointer) /\ more \in Seq(LinePointer)
        /\ Len(full) = StormLimit
        /\ batch = full \o more
    <3>1. StormLimit \in 0 .. Len(batch) /\ batch \in Seq(LinePointer)
      BY <1>1, <1>2
    <3> QED
      BY <3>1, PutTogether
  <2>2. \A i \in 1 .. StormLimit : full[i] = batch[i]
    BY <1>1, <1>2
  <2> HIDE DEF full, more
  <2>3. full \in Seq(FullBuffer)
    BY <1>2, <2>1, <2>2
  <2>4. Len(Owned(full)) = StormLimit * Capacity
    BY <2>1, <2>3, FullLength
  <2>5. full \in Seq(Pointer) /\ more \in Seq(Pointer)
    BY <2>1, LineNull
  <2>6. /\ Owned(batch) = Owned(full) \o Owned(more)
        /\ Owned(full) \in Seq(Nat) /\ Owned(more) \in Seq(Nat)
    BY <2>1, <2>5, OwnedJoin
  <2> DEFINE a == Owned(full)
             b == Owned(more)
  <2>7. a \in Seq(Nat) /\ b \in Seq(Nat) /\ OnTheWay = ((a \o b) \o o) \o c
    BY <1>8, <2>6 DEF o, c
  <2>8. Len(a) = StormLimit * Capacity
    BY <2>4
  <2> HIDE DEF a, b
  <2>9. Len(((a \o b) \o o) \o c) >= Len(a)
    BY <1>10, <2>7
  <2> QED
    BY <2>7, <2>8, <2>9
<1>14. appended' = appended
  BY <1>1
<1> QED
  BY <1>10, <1>11, <1>12, <1>13, <1>14, StepDiscard DEF QueueStep

LEMMA WriteBufferStep ==
    ASSUME IInv, QueueInv, QueueInv', WriteBuffer PROVE QueueStep
<1>1. CASE Crash
  BY <1>1, SameWay DEF Crash, front, back
<1>2. CASE ~Crash
  <2> DEFINE b == batch[done + 1]
             r == SubSeq(batch, done + 1, Len(batch))
             r2 == SubSeq(batch, done + 2, Len(batch))
  <2>1. /\ done < Len(batch) /\ b # NoBuffer /\ done' = done + 1
        /\ output' = AppendUnlocked(output, b, now)
        /\ UNCHANGED <<batch, buffers, current, appended>>
    BY <1>2 DEF WriteBuffer, front
  <2>2. batch \in Seq(LinePointer) /\ done \in Nat /\ Len(batch) \in Nat
    BY DEF QueueInv
  <2>3. b \in LinePointer /\ r2 \in Seq(LinePointer) /\ r = <<b>> \o r2
    <3>1. b \in LinePointer /\ r \in Seq(LinePointer) /\ r2 \in Seq(LinePointer)
          /\ <<b>> \in Seq(LinePointer)
          /\ Len(r) = Len(batch) - done /\ Len(r2) = Len(batch) - done - 1
      BY <2>1, <2>2
    <3>2. /\ r[1] = b
          /\ \A i \in 1 .. Len(batch) - done - 1 : r[1 + i] = r2[i]
      BY <2>1, <2>2
    <3> HIDE DEF r, r2, b
    <3>3. \A i \in 1 .. Len(<<b>>) : r[i] = <<b>>[i]
      BY <3>2
    <3>4. /\ Len(r) = Len(<<b>>) + Len(r2)
          /\ \A i \in 1 .. Len(r2) : r[Len(<<b>>) + i] = r2[i]
      BY <2>1, <2>2, <3>1, <3>2
    <3> QED
      BY <3>1, <3>3, <3>4, JoinIs
  <2>4. b \in Seq(Numbers) /\ b \in Seq(Nat)
    BY <2>1, <2>3 DEF LinePointer, Numbers
  <2>5. Owned(r) = b \o Owned(r2) /\ Owned(r2) \in Seq(Nat)
    <3>1. b \in Pointer /\ r2 \in Seq(Pointer) /\ <<b>> \in Seq(Pointer)
      BY <2>3, LineNull
    <3> HIDE DEF r, r2, b
    <3>2. Owned(<<b>> \o r2) = Owned(<<b>>) \o Owned(r2) /\ Owned(r2) \in Seq(Nat)
      BY <3>1, OwnedJoin
    <3>3. Owned(<<b>>) = b
      BY <2>1, <3>1, OwnedOne DEF Contents
    <3> QED
      BY <2>3, <3>2, <3>3
  <2>6. OnTheWay = (Owned(r) \o Owned(buffers)) \o Contents(current)
        /\ Owned(buffers) \in Seq(Nat) /\ Contents(current) \in Seq(Nat)
    BY OnTheWayIs DEF Way
  <2>7. OnTheWay' = (Owned(r2) \o Owned(buffers)) \o Contents(current)
    <3>1. SubSeq(batch', done' + 1, Len(batch')) = r2
      BY <2>1, <2>2
    <3> QED
      BY <2>1, <3>1, OnTheWayNext DEF Way
  <2> DEFINE p == Owned(r2)
             o == Owned(buffers)
             c == Contents(current)
             rest == (p \o o) \o c
  <2>8. /\ p \in Seq(Nat) /\ o \in Seq(Nat) /\ c \in Seq(Nat)
        /\ OnTheWay = ((b \o p) \o o) \o c /\ OnTheWay' = rest
    BY <2>5, <2>6, <2>7
  <2> HIDE DEF b, p, o, c
  <2>9. rest \in Seq(Nat) /\ ((b \o p) \o o) \o c = b \o rest
    <3>1. p \o o \in Seq(Nat) /\ rest \in Seq(Nat)
      BY <2>8
    <3>0. b \in Seq(Nat) /\ p \in Seq(Nat) /\ o \in Seq(Nat) /\ c \in Seq(Nat)
      BY <2>4, <2>8
    <3>2. (b \o p) \o o = b \o (p \o o)
      BY <3>0, RegroupLines
    <3>3. (b \o (p \o o)) \o c = b \o ((p \o o) \o c)
      BY <3>0, <3>1, RegroupLines
    <3> QED
      BY <3>1, <3>2, <3>3
  <2>10. /\ Logged(output'.lines) = Logged(output.lines) \o b
         /\ Logged(output.lines) \in Seq(Nat)
    <3>1. output'.lines = output.lines \o b
      BY <2>1, <2>4, OutputType, AppendLines
    <3>2. Logged(output.lines \o b) = Logged(output.lines) \o Logged(b)
          /\ Logged(output.lines) \in Seq(Nat)
      BY <2>4, OutputType, LoggedJoin
    <3> QED
      BY <2>4, <3>1, <3>2, LoggedSame
  <2>11. appended' = appended
    BY <2>1
  <2> HIDE DEF rest
  <2> QED
    BY <2>4, <2>8, <2>9, <2>10, <2>11, StepDeliver DEF QueueStep
<1> QED
  BY <1>1, <1>2

LEMMA RecycleStep ==
    ASSUME IInv, QueueInv, QueueInv', Recycle PROVE QueueStep
<1>1. CASE Crash
  BY <1>1, SameWay DEF Crash, front, back
<1>2. CASE ~Crash
  <2>1. /\ done = Len(batch) /\ batch' = <<>> /\ done' = 0
        /\ output' = Flush(output)
        /\ UNCHANGED <<buffers, current, appended>>
    BY <1>2 DEF Recycle, front
  <2>2. SubSeq(batch, done + 1, Len(batch)) = <<>>
    BY <2>1 DEF QueueInv
  <2>3. SubSeq(batch', done' + 1, Len(batch')) = <<>>
    BY <2>1
  <2>4. OnTheWay = Way(batch, done, buffers, current)
        /\ OnTheWay' = Way(batch', done', buffers', current')
    BY OnTheWayIs, OnTheWayNext
  <2>5. OnTheWay' = OnTheWay
    BY <2>1, <2>2, <2>3, <2>4 DEF Way
  <2>6. Logged(output'.lines) = Logged(output.lines)
    BY <2>1, OutputType, RollLines
  <2> QED
    BY <2>1, <2>5, <2>6 DEF QueueStep
<1> QED
  BY <1>1, <1>2

\* Every step is one of the queue, or none.
LEMMA NextStep ==
    ASSUME IInv, QueueInv, QueueInv', [Next]_vars PROVE QueueStep
<1>1. CASE UNCHANGED vars
  BY <1>1, SameWay DEF vars, front, back
<1>2. CASE AppendCrashes
  BY <1>2, SameWay DEF AppendCrashes, Crash, front, back
<1>3. CASE Stop
  BY <1>3, SameWay DEF Stop, back
<1>4. CASE Elapse
  BY <1>4, SameWay DEF Elapse, front, back
<1>5. CASE LoopHead
  <2>1. output'.lines = output.lines
    BY <1>5, OutputType, RollLines DEF LoopHead
  <2> QED
    BY <1>5, <2>1, SameWay DEF LoopHead, front
<1> QED
  BY <1>1, <1>2, <1>3, <1>4, <1>5, AppendFitsStep, AppendSwitchesStep, SwapStep,
     DropStormStep, WriteBufferStep, RecycleStep
     DEF Next, Background

LEMMA QueueInit == Init => Queue!Init
<1> SUFFICES ASSUME Init PROVE Queue!Init
  OBVIOUS
<1>1. OnTheWay = <<>>
  <2>1. Contents(current) = <<>> /\ SubSeq(batch, done + 1, Len(batch)) = <<>>
    BY DEF Init, Contents
  <2>2. OnTheWay = (Owned(<<>>) \o Owned(<<>>)) \o <<>>
    BY <2>1, QueueInvInit, InitIInv, OnTheWayIs DEF Way, Init
  <2>3. Owned(<<>>) = <<>>
    BY NotNull, OwnedOne DEF Pointer
  <2> QED
    BY <2>2, <2>3
<1>2. Logged(output.lines) = <<>>
  <2>1. output.lines = <<>>
    BY DEF Init, NewLogFile
  <2> QED
    BY <2>1, 0 \in Nat, LoggedOne
<1> QED
  BY <1>1, <1>2 DEF Init, Queue!Init

\* Whatever the front end appends, and however the background thread swaps,
\* writes and recycles buffers and rolls files: no line is lost, repeated or
\* overtaken by another, except that the storm protection, and nothing else,
\* discards lines, when StormLimit full buffers wait, and spares the oldest two
\* (AsyncLogging::append, threadFunc; LogFile::append_unlocked).
THEOREM QueueIsPromised == Spec => QueuePromised
<1>1. Init => QueueInv
  BY QueueInvInit
<1>2. IInv /\ QueueInv /\ [Next]_vars => QueueInv'
  BY QueueInvNext
<1>3. IInv /\ QueueInv /\ QueueInv' /\ [Next]_vars
        => [Queue!Next]_<<appended, OnTheWay, Logged(output.lines)>>
  BY NextStep DEF QueueStep
<1> QED
  BY <1>1, <1>2, <1>3, QueueInit, InvariantInductive, PTL
     DEF Spec, QueuePromised, Queue!Spec

===============================================================================
