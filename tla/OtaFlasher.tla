------------------------------ MODULE OtaFlasher ------------------------------
(***************************************************************************)
(* The supervisor of the flashing script, ota/OtaFlasher: one child at a   *)
(* time in a process group of its own, its output read through a pipe, its *)
(* end noticed by end-of-file and then waitpid(), and an abort that sends  *)
(* SIGTERM at once and SIGKILL from a timer.                               *)
(*                                                                         *)
(* Children are numbered in the order of their start.  The timers of the   *)
(* loop fire at any later moment, in any order.  The child and the helper  *)
(* programs it starts may close their output, end and ignore SIGTERM as    *)
(* they like; SIGKILL to the group always ends all of them.                *)
(***************************************************************************)
EXTENDS Integers, FiniteSets

CONSTANTS
    MaxStarts,   \* bound: children started by one run
    MaxTimers,   \* bound: abort timers that are armed at once
    MaxTries     \* polls of waitpid() before the child is killed (200)

ASSUME FlasherAssumption ==
    MaxStarts \in Nat \ {0} /\ MaxTimers \in Nat \ {0} /\ MaxTries \in Nat

VARIABLES
    starts,      \* children started so far
    pid,         \* pid_: the running child, or 0
    proc,        \* what has become of each child's process
    held,        \* the write end of the current pipe is still held by someone
    fd,          \* pipeFd_ is open
    queued,      \* detachPipe() calls waiting in the loop's queue
    poll,        \* the argument of the armed pollReap() timer, or -1
    timers,      \* armed SIGKILL timers of killGroup()
    calls,       \* calls of exitCb_ for each child
    termed,      \* children that killGroup() was asked to end
    mute,        \* children that had nobody left to write their output
    timerKilled, \* children to whose group a timer has sent SIGKILL
    pollKilled,  \* children killed because polling gave up
    gone         \* the object was destroyed

vars == <<starts, pid, proc, held, fd, queued, poll, timers, calls, termed,
          mute, timerKilled, pollKilled, gone>>

history == <<termed, timerKilled, pollKilled>>

Child == 1 .. MaxStarts
None == 0
NoPoll == -1

Init ==
    /\ starts = 0
    /\ pid = None
    /\ proc = [i \in Child |-> "none"]
    /\ held = FALSE /\ fd = FALSE
    /\ queued = 0 /\ poll = NoPoll /\ timers = 0
    /\ calls = [i \in Child |-> 0]
    /\ termed = {} /\ mute = {} /\ timerKilled = {} /\ pollKilled = {}
    /\ gone = FALSE

-----------------------------------------------------------------------------
(* The child and the helpers in its process group.                         *)

\* The write end is closed: the child is mute from here on.
Released(h) ==
    /\ held' = h
    /\ mute' = IF h THEN mute ELSE mute \cup {pid}

\* A script that closes its output but goes on running.
CloseOutput ==
    /\ pid # None /\ proc[pid] = "alive" /\ held
    /\ Released(FALSE)
    /\ UNCHANGED <<starts, pid, proc, fd, queued, poll, timers, calls, history, gone>>

\* The child ends; a helper may still hold the pipe.
ChildEnds ==
    /\ pid # None /\ proc[pid] = "alive"
    /\ proc' = [proc EXCEPT ![pid] = "zombie"]
    /\ \E h \in BOOLEAN : (h => held) /\ Released(h)
    /\ UNCHANGED <<starts, pid, fd, queued, poll, timers, calls, history, gone>>

HelperEnds ==
    /\ pid # None /\ proc[pid] = "zombie" /\ held
    /\ Released(FALSE)
    /\ UNCHANGED <<starts, pid, proc, fd, queued, poll, timers, calls, history, gone>>

-----------------------------------------------------------------------------
(* The object.                                                             *)

\* start() with a child that could be spawned; it refuses while pid_ > 0, and
\* a failed pipe() or posix_spawnp() leaves everything as it was.
Start ==
    /\ ~gone /\ pid = None /\ starts < MaxStarts
    /\ starts' = starts + 1
    /\ pid' = starts + 1
    /\ proc' = [proc EXCEPT ![starts + 1] = "alive"]
    /\ held' = TRUE /\ fd' = TRUE
    /\ UNCHANGED <<queued, poll, timers, calls, mute, history, gone>>

\* killGroup()
KillGroup ==
    /\ ~gone /\ pid # None /\ timers < MaxTimers
    /\ termed' = termed \cup {pid}
    /\ timers' = timers + 1
    /\ UNCHANGED <<starts, pid, proc, held, fd, queued, poll, calls, mute,
                   timerKilled, pollKilled, gone>>

\* Seeded fault: SIGKILL is sent to the child instead of its process group.
KillTimerSparesHelpers ==
    /\ ~gone /\ timers > 0
    /\ timers' = timers - 1
    /\ IF pid = None THEN UNCHANGED <<proc, held, mute, timerKilled>>
       ELSE /\ timerKilled' = timerKilled \cup {pid}
            /\ proc' = [proc EXCEPT ![pid] = "zombie"]
            /\ \E h \in BOOLEAN : (h => held) /\ Released(h)
    /\ UNCHANGED <<starts, pid, fd, queued, poll, calls, termed, pollKilled, gone>>

\* The timer of killGroup(): it looks at the child that runs now.
KillTimer ==
    /\ ~gone /\ timers > 0
    /\ timers' = timers - 1
    /\ IF pid = None THEN UNCHANGED <<proc, held, mute, timerKilled>>
       ELSE /\ timerKilled' = timerKilled \cup {pid}
            /\ proc' = [proc EXCEPT ![pid] = "zombie"]
            /\ Released(FALSE)
    /\ UNCHANGED <<starts, pid, fd, queued, poll, calls, termed, pollKilled, gone>>

\* Seeded fault: every event queues its own detachPipe().
DetachTasksUnguarded(n) == n

\* The tasks that n calls of scheduleDetachPipe() leave in the queue.
DetachTasks(n) == 1

\* End-of-file or an error on the pipe, reported by n callbacks of the same
\* event; the channel is disabled from here on.
Hangup ==
    /\ ~gone /\ fd /\ ~held /\ queued = 0
    /\ \E n \in 1 .. 2 : queued' = DetachTasks(n)
    /\ UNCHANGED <<starts, pid, proc, held, fd, poll, timers, calls, mute, history, gone>>

\* finish() for the child that was reaped.
Finish ==
    /\ proc' = [proc EXCEPT ![pid] = "reaped"]
    /\ calls' = [calls EXCEPT ![pid] = @ + 1]
    /\ pid' = None
    /\ poll' = NoPoll

\* Seeded faults: end-of-file is taken for the end of the child; a child
\* that goes on running is polled without end.
PollReapTrustsEof(tries) ==
    IF pid = None THEN UNCHANGED <<pid, proc, poll, calls, pollKilled>>
    ELSE /\ calls' = [calls EXCEPT ![pid] = @ + 1]
         /\ pid' = None /\ poll' = NoPoll
         /\ UNCHANGED <<proc, pollKilled>>

PollReapForever(tries) ==
    IF pid = None THEN UNCHANGED <<pid, proc, poll, calls, pollKilled>>
    ELSE IF proc[pid] = "zombie" THEN Finish /\ UNCHANGED pollKilled
    ELSE poll' = tries /\ UNCHANGED <<pid, proc, calls, pollKilled>>

\* pollReap(): reap, or look again later, or kill and wait.
PollReap(tries) ==
    IF pid = None
    THEN poll' = NoPoll /\ UNCHANGED <<pid, proc, calls, pollKilled>>
    ELSE IF proc[pid] = "zombie" THEN Finish /\ UNCHANGED pollKilled
    ELSE IF tries < MaxTries
         THEN poll' = tries + 1 /\ UNCHANGED <<pid, proc, calls, pollKilled>>
    ELSE Finish /\ pollKilled' = pollKilled \cup {pid}

\* detachPipe(), from the queue.
DetachPipe ==
    /\ ~gone /\ queued > 0
    /\ queued' = queued - 1
    /\ IF fd THEN fd' = FALSE /\ PollReap(0)
       ELSE UNCHANGED <<fd, pid, proc, poll, calls, pollKilled>>
    /\ UNCHANGED <<starts, held, timers, mute, termed, timerKilled, gone>>

PollTimer ==
    /\ ~gone /\ poll # NoPoll
    /\ PollReap(poll)
    /\ UNCHANGED <<starts, held, fd, queued, timers, mute, termed, timerKilled, gone>>

\* The destructor: terminate, wait, kill and reap.
Destroy ==
    /\ ~gone
    /\ gone' = TRUE
    /\ pid' = None
    /\ proc' = IF pid = None THEN proc ELSE [proc EXCEPT ![pid] = "reaped"]
    /\ fd' = FALSE
    /\ UNCHANGED <<starts, held, queued, poll, timers, calls, mute, history>>

Next ==
    \/ CloseOutput \/ ChildEnds \/ HelperEnds
    \/ Start \/ KillGroup \/ KillTimer \/ Hangup \/ DetachPipe \/ PollTimer
    \/ Destroy

\* The loop delivers events, queued tasks and timers.  Neither the child nor
\* its helpers are assumed to end by themselves.
Fairness ==
    /\ WF_vars(Hangup) /\ WF_vars(DetachPipe)
    /\ WF_vars(PollTimer) /\ WF_vars(KillTimer)

Spec == Init /\ [][Next]_vars /\ Fairness

-----------------------------------------------------------------------------
\* One detachPipe() at a time, one poll, and for each child the exit callback
\* at most once.
TypeOK ==
    /\ starts \in 0 .. MaxStarts
    /\ pid \in 0 .. MaxStarts
    /\ proc \in [Child -> {"none", "alive", "zombie", "reaped"}]
    /\ held \in BOOLEAN /\ fd \in BOOLEAN /\ gone \in BOOLEAN
    /\ queued \in 0 .. 1 /\ poll \in {NoPoll} \cup 1 .. MaxTries
    /\ timers \in 0 .. MaxTimers
    /\ calls \in [Child -> 0 .. 1]
    /\ termed \subseteq Child /\ mute \subseteq Child
    /\ timerKilled \subseteq Child /\ pollKilled \subseteq Child

\* There is never a second flashing script on the port: a process that is not
\* reaped is the one that pid_ names, so that a next start() is refused and
\* an abort reaches it.
OneFlasher == \A i \in Child : proc[i] \in {"alive", "zombie"} => pid = i

\* The exit callback tells the truth: it is made for a child that was reaped,
\* and a child that was reaped by a living object has had its callback.
ExitMeansReaped ==
    \A i \in Child : /\ calls[i] = 1 => proc[i] = "reaped"
                     /\ proc[i] = "reaped" => calls[i] = 1 \/ gone

\* The fallback of pollReap() only kills a child that has closed its output,
\* never one whose pipe is still in use.
PollKillsOnlyMute == pollKilled \subseteq mute

\* exitCb_ is called for every child whose output has ended (ota/OtaFlasher.h:
\* exactly once), even if it closes its output and goes on running.
ExitIsReported ==
    \A i \in Child : (pid = i /\ ~held) ~> (calls[i] = 1 \/ gone)

\* An abort succeeds, even against a child that ignores SIGTERM, and even if
\* the child has ended and a helper keeps its output open for ever, which
\* nothing but an abort gets the flasher past.
AbortSucceeds ==
    \A i \in Child : (i \in termed) ~> (calls[i] = 1 \/ gone)

\* The comment on the timer of killGroup() (ota/OtaFlasher.cc:131): it checks
\* by itself that its child still runs, so it need not be cancelled.
KillsOnlyItsTarget == timerKilled \subseteq termed

=============================================================================
