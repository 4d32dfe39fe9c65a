----------------------------- MODULE AsyncLogging -----------------------------
(***************************************************************************)
(* The double-buffered logger, log/AsyncLogging: any number of threads     *)
(* append lines under mutex_, one background thread swaps the full buffers *)
(* out, writes them to a LogFile and recycles them.                        *)
(*                                                                         *)
(* A line is its number in the order in which append() took the lock, a    *)
(* buffer is the sequence of lines in it, and a unique_ptr that owns       *)
(* nothing is NoBuffer.  The build is the default one (Release), in which  *)
(* the assertions are compiled out: the process crashes where a pointer    *)
(* that owns nothing is used.                                              *)
(***************************************************************************)
EXTENDS LogFile, SequencesExt

CONSTANTS
    NoBuffer,     \* the null pointer
    Capacity,     \* lines that fit into a buffer
    StormLimit,   \* longest batch that is written whole (25)
    MaxLines,     \* bound: lines appended in one run
    StartTime,    \* when the program starts, in seconds
    MaxTime       \* bound: when the clock stops

ASSUME LoggingAssumption ==
    /\ Capacity \in Nat \ {0}
    /\ StormLimit \in Nat /\ StormLimit >= 2
    /\ MaxLines \in Nat
    /\ NoBuffer \notin Seq(Nat)
    /\ StartTime \in Nat \ {0} /\ MaxTime \in Nat

VARIABLES
    running,   \* running_
    current,   \* currentBuffer_
    next,      \* nextBuffer_
    buffers,   \* buffers_
    pc,        \* where the background thread is
    new1,      \* its newBuffer1
    new2,      \* its newBuffer2
    batch,     \* its buffersToWrite
    done,      \* how many of them are written
    output,    \* its LogFile
    appended,  \* lines appended so far
    backlog,   \* a batch of more than two buffers was written whole
    now,       \* time(), which is never set back
    crashed

front == <<running, current, next, buffers, appended>>
back == <<pc, new1, new2, batch, done, output, backlog>>
vars == <<front, back, now, crashed>>

Line == 1 .. MaxLines

\* The line that reports what the storm protection has dropped.
Notice == 0

\* start() was called, as main() does before it installs the logger.
Init ==
    /\ running = TRUE
    /\ current = <<>> /\ next = <<>>
    /\ buffers = <<>>
    /\ pc = "head"
    /\ new1 = <<>> /\ new2 = <<>>
    /\ batch = <<>>
    /\ done = 0
    /\ output = NewLogFile
    /\ appended = 0
    /\ backlog = FALSE
    /\ now = StartTime
    /\ crashed = FALSE

Crash == crashed' = TRUE /\ UNCHANGED <<front, back, now>>

Elapse ==
    /\ ~crashed /\ now < MaxTime
    /\ now' = now + 1
    /\ UNCHANGED <<front, back, crashed>>

-----------------------------------------------------------------------------
(* The threads that log.                                                   *)

CanAppend == ~crashed /\ appended < MaxLines

AppendFits ==
    /\ CanAppend /\ current # NoBuffer
    /\ Len(current) < Capacity
    /\ current' = Append(current, appended + 1)
    /\ appended' = appended + 1
    /\ UNCHANGED <<running, next, buffers, back, now, crashed>>

\* The current buffer is full: it is queued, and the spare one, or else a
\* freshly allocated one, takes its place.
AppendSwitches ==
    /\ CanAppend /\ current # NoBuffer
    /\ Len(current) >= Capacity
    /\ buffers' = Append(buffers, current)
    /\ current' = Append(IF next = NoBuffer THEN <<>> ELSE next, appended + 1)
    /\ next' = NoBuffer
    /\ appended' = appended + 1
    /\ UNCHANGED <<running, back, now, crashed>>

AppendCrashes == CanAppend /\ current = NoBuffer /\ Crash

\* stop(), whose join() is the wait for pc = "exit".
Stop ==
    /\ ~crashed /\ running
    /\ running' = FALSE
    /\ UNCHANGED <<current, next, buffers, appended, back, now, crashed>>

-----------------------------------------------------------------------------
(* The background thread.                                                  *)

\* The condition of the loop is read before the lock is taken; at the end of
\* the thread the file is flushed and closed.
LoopHead ==
    /\ ~crashed /\ pc = "head"
    /\ pc' = IF running THEN "wait" ELSE "exit"
    /\ output' = IF running THEN output ELSE Flush(output)
    /\ UNCHANGED <<front, new1, new2, batch, done, backlog, now, crashed>>

SwapAs(taken) ==
    /\ ~crashed /\ pc = "wait"
    /\ pc' = "write"
    /\ batch' = taken
    /\ buffers' = <<>>
    /\ current' = new1
    /\ new1' = NoBuffer
    /\ IF next = NoBuffer THEN next' = new2 /\ new2' = NoBuffer
                          ELSE UNCHANGED <<next, new2>>
    /\ UNCHANGED <<running, appended, done, output, backlog, now, crashed>>

\* Seeded faults: a wait that goes on until there is a full buffer, and the
\* current buffer put in front of the full ones.
SwapWaitsForWork == buffers # <<>> /\ SwapAs(Append(buffers, current))
SwapCurrentFirst == SwapAs(<<current>> \o buffers)

\* The wait is over, because it was not needed, by a notification or after
\* flushInterval_, and everything that was logged is taken out.
Swap == SwapAs(Append(buffers, current))

Storm == Len(batch) > StormLimit

\* The storm protection keeps two buffers and says so in the file.
DropStorm ==
    /\ ~crashed /\ pc = "write" /\ Storm
    /\ batch' = SubSeq(batch, 1, 2)
    /\ output' = AppendUnlocked(output, <<Notice>>, now)
    /\ UNCHANGED <<front, pc, new1, new2, done, backlog, now, crashed>>

\* Seeded fault: a stopped thread leaves with the rest of its batch.
WriteBufferUnlessStopped ==
    /\ ~crashed /\ pc = "write" /\ ~Storm /\ done < Len(batch)
    /\ IF batch[done + 1] = NoBuffer THEN Crash
       ELSE /\ IF running
               THEN /\ done' = done + 1
                    /\ output' = AppendUnlocked(output, batch[done + 1], now)
                    /\ UNCHANGED pc
               ELSE pc' = "exit" /\ UNCHANGED <<done, output>>
            /\ UNCHANGED <<front, new1, new2, batch, backlog, now, crashed>>

WriteBuffer ==
    /\ ~crashed /\ pc = "write" /\ ~Storm /\ done < Len(batch)
    /\ IF batch[done + 1] = NoBuffer THEN Crash
       ELSE /\ done' = done + 1
            /\ output' = AppendUnlocked(output, batch[done + 1], now)
            /\ UNCHANGED <<front, pc, new1, new2, batch, backlog, now, crashed>>

\* Seeded fault: the second buffer is not given back.
RecycleFirstOnly ==
    /\ ~crashed /\ pc = "write" /\ ~Storm /\ done = Len(batch)
    /\ pc' = "head"
    /\ new1' = IF Len(batch) <= 2 /\ new1 = NoBuffer THEN <<>> ELSE new1
    /\ batch' = <<>> /\ done' = 0
    /\ output' = Flush(output)
    /\ backlog' = (backlog \/ Len(batch) > 2)
    /\ UNCHANGED <<front, new2, now, crashed>>

\* Recycling, which gives newBuffer1 back only if the batch was not cut to
\* two, and the flush; pop_back() of an empty batch would crash.
Recycle ==
    LET take1 == Len(batch) <= 2 /\ new1 = NoBuffer
        take2 == new2 = NoBuffer
        left  == IF take1 THEN Len(batch) - 1 ELSE Len(batch)
    IN  /\ ~crashed /\ pc = "write" /\ ~Storm /\ done = Len(batch)
        /\ IF take2 /\ left = 0 THEN Crash
           ELSE /\ pc' = "head"
                /\ new1' = IF take1 THEN <<>> ELSE new1
                /\ new2' = IF take2 THEN <<>> ELSE new2
                /\ batch' = <<>> /\ done' = 0
                /\ output' = Flush(output)
                /\ backlog' = (backlog \/ Len(batch) > 2)
                /\ UNCHANGED <<front, now, crashed>>

Background == LoopHead \/ Swap \/ DropStorm \/ WriteBuffer \/ Recycle

Next ==
    \/ AppendFits \/ AppendSwitches \/ AppendCrashes
    \/ Stop
    \/ Background
    \/ Elapse

\* The background thread is scheduled, and a wait ends after flushInterval_.
Fairness == WF_vars(Background)

Spec == Init /\ [][Next]_vars /\ Fairness

-----------------------------------------------------------------------------
\* The lines in the buffers that the pointers own, in order.
Owned(pointers) ==
    FlattenSeq([i \in DOMAIN pointers |->
                    IF pointers[i] = NoBuffer THEN <<>> ELSE pointers[i]])

\* The lines on their way to the file, the oldest first.
OnTheWay == Owned(SubSeq(batch, done + 1, Len(batch)) \o buffers \o <<current>>)

\* The lines of a file without the notices.
Logged(lines) ==
    FlattenSeq([i \in DOMAIN lines |->
                    IF lines[i] = Notice THEN <<>> ELSE <<lines[i]>>])

Queue ==
    INSTANCE LogFifo WITH
        Overload  <- StormLimit * Capacity,
        Reserve   <- 2 * Capacity,
        accepted  <- appended,
        pending   <- OnTheWay,
        delivered <- Logged(output.lines)

\* The logger is a queue: switching, swapping, recycling and dropping of
\* buffers and rolling of files neither lose nor repeat nor reorder a line,
\* except that a storm, and nothing else, costs lines, the oldest two full
\* buffers of which are spared.
QueuePromised == Queue!Spec

\* The four buffers circulate: as long as no batch of more than two buffers
\* was written, both spares are back, empty, at the head of the loop, the
\* front end always has a buffer to append to, and nothing crashes.
BuffersCirculate ==
    ~backlog => /\ ~crashed
                /\ current # NoBuffer
                /\ pc \in {"head", "wait", "exit"} => new1 = <<>> /\ new2 = <<>>

\* A file over its limit (LogFile::append_unlocked) is given up by the next
\* append, unless that comes within the second the file was begun in, in
\* which rollFile() does nothing.
FileBounded ==
    [][output'.written > output.written /\ Full(output) => now = output.lastRoll]_vars

\* Fewer than checkEveryN appends go to the file of another day, although
\* the day is looked at only now and then, by a counter which other branches
\* of append_unlocked() leave alone.
DayRolls == output.stale < checkEveryN

OnDisk == ToSet(SubSeq(output.lines, 1, output.synced))

\* The lines that are still with the front end.
InFront == ToSet(Owned(Append(buffers, current)))

\* A line reaches the disk or is dropped, at a low rate of logging too.  A
\* stop() in the middle of a write costs the lines that were appended after
\* the last swap, because the thread ends without another one, but none of
\* those that it had taken.
Durable ==
    \A i \in Line :
        (appended >= i) ~>
            \/ i \in OnDisk
            \/ i \notin ToSet(output.lines) \cup ToSet(OnTheWay)
            \/ pc = "exit" /\ i \in InFront
            \/ crashed

\* stop() returns, and what was given to the file is on the disk then.
StopReturns ==
    ~running ~> \/ pc = "exit" /\ output.synced = Len(output.lines)
                \/ crashed

=============================================================================
