--------------------------- MODULE OtaFlasher_proofs ---------------------------
(***************************************************************************)
(* The safety of the flashing supervisor, for any number of children,      *)
(* timers and polls.                                                       *)
(*                                                                         *)
(* IInv ties pid_ to the one process that is not reaped, and shows that    *)
(* whatever may kill a child for being mute (a queued detachPipe(), an     *)
(* armed poll) exists only for the child that runs now and is mute.        *)
(***************************************************************************)
EXTENDS OtaFlasher, TLAPS

\* The processes: the unreaped one is pid_, and numbers are used in order.
Processes ==
    /\ \A i \in Child : proc[i] \in {"alive", "zombie"} <=> pid = i
    /\ \A i \in Child : proc[i] = "none" <=> i > starts

\* The exit callback is made when a child is reaped by a living object.
Callbacks ==
    \A i \in Child : /\ calls[i] = 1 => proc[i] = "reaped"
                     /\ proc[i] = "reaped" => calls[i] = 1 \/ gone

\* A living object polls, or is about to poll, the running child only after
\* its output has ended.
Polling ==
    /\ ~held /\ pid # None => pid \in mute
    /\ fd => pid # None
    /\ queued > 0 /\ ~gone => fd /\ ~held
    /\ poll # NoPoll /\ ~gone => pid # None /\ ~held /\ ~fd

IInv == TypeOK /\ Processes /\ Callbacks /\ Polling /\ PollKillsOnlyMute

\* The constants in the form the steps below need.
LEMMA Constants ==
    /\ MaxStarts \in Nat /\ MaxTimers \in Nat /\ MaxTries \in Nat
    /\ None \notin Child /\ None \in 0 .. MaxStarts
    /\ NoPoll \notin 1 .. MaxTries
    /\ Child \subseteq 0 .. MaxStarts
    /\ 1 \in Child
BY FlasherAssumption DEF None, NoPoll, Child

\* A running child is a child.
LEMMA PidIsChild ==
    ASSUME TypeOK, pid # None
    PROVE  pid \in Child
BY Constants DEF TypeOK, Child, None

\* The invariant holds before the first child is started.
LEMMA InitInv == Init => IInv
<1> SUFFICES ASSUME Init PROVE IInv
  OBVIOUS
<1>1. TypeOK
  <2>1. /\ 0 \in 0 .. MaxStarts /\ 0 \in 0 .. MaxTimers
        /\ proc \in [Child -> {"none", "alive", "zombie", "reaped"}]
        /\ calls \in [Child -> 0 .. 1]
    BY Constants DEF Init
  <2>2. /\ starts \in 0 .. MaxStarts /\ pid \in 0 .. MaxStarts
        /\ queued \in 0 .. 1 /\ poll \in {NoPoll} \cup 1 .. MaxTries
        /\ timers \in 0 .. MaxTimers
    BY <2>1 DEF Init, None
  <2>3. /\ held \in BOOLEAN /\ fd \in BOOLEAN /\ gone \in BOOLEAN
        /\ termed \subseteq Child /\ mute \subseteq Child
        /\ timerKilled \subseteq Child /\ pollKilled \subseteq Child
    BY DEF Init
  <2> QED
    BY <2>1, <2>2, <2>3 DEF TypeOK
<1>2. Processes
  BY Constants DEF Init, Processes, Child
<1>3. Callbacks /\ Polling /\ PollKillsOnlyMute
  BY DEF Init, Callbacks, Polling, PollKillsOnlyMute
<1> QED
  BY <1>1, <1>2, <1>3 DEF IInv

\* What the child and its helpers do by themselves.
LEMMA ChildInv ==
    ASSUME IInv, CloseOutput \/ ChildEnds \/ HelperEnds
    PROVE  IInv'
<1> USE DEF IInv, TypeOK, Processes, Callbacks, Polling, PollKillsOnlyMute,
            Released, history
<1>0. pid \in Child
  BY PidIsChild DEF CloseOutput, ChildEnds, HelperEnds
<1>1. CASE CloseOutput
  BY <1>0, <1>1 DEF CloseOutput
<1>2. CASE ChildEnds
  BY <1>0, <1>2 DEF ChildEnds
<1>3. CASE HelperEnds
  BY <1>0, <1>3 DEF HelperEnds
<1> QED
  BY <1>1, <1>2, <1>3

\* start() takes the next number, and finds nothing left of the last child.
LEMMA StartInv ==
    ASSUME IInv, Start
    PROVE  IInv'
<1>1. starts + 1 \in Child /\ starts \in Nat
  BY Constants DEF IInv, TypeOK, Start, Child
<1>2. /\ pid = None /\ ~gone /\ ~fd /\ queued = 0 /\ poll = NoPoll
  BY DEF IInv, TypeOK, Polling, Start
<1>3. proc[starts + 1] = "none" /\ calls[starts + 1] = 0
  BY <1>1, <1>2 DEF IInv, TypeOK, Processes, Callbacks, Child
<1>4. /\ starts' = starts + 1 /\ pid' = starts + 1
      /\ proc' = [proc EXCEPT ![starts + 1] = "alive"]
      /\ held' = TRUE /\ fd' = TRUE
      /\ UNCHANGED <<queued, poll, timers, calls, mute, termed, timerKilled,
                     pollKilled, gone>>
  BY DEF Start, history
<1>5. TypeOK'
  BY <1>1, <1>4, Constants DEF IInv, TypeOK
<1>6. Processes'
  BY <1>1, <1>2, <1>3, <1>4, Constants DEF IInv, TypeOK, Processes, Child
<1>7. Callbacks'
  BY <1>1, <1>3, <1>4 DEF IInv, TypeOK, Callbacks
<1>8. Polling' /\ PollKillsOnlyMute'
  BY <1>1, <1>2, <1>4, Constants DEF IInv, Polling, PollKillsOnlyMute
<1> QED
  BY <1>5, <1>6, <1>7, <1>8 DEF IInv

\* An abort, its timer, the end of the pipe and the destructor.
LEMMA ControlInv ==
    ASSUME IInv, KillGroup \/ KillTimer \/ Hangup \/ Destroy
    PROVE  IInv'
<1> USE DEF IInv, TypeOK, Processes, Callbacks, Polling, PollKillsOnlyMute, history
<1>1. CASE KillGroup
  <2>1. pid \in Child
    BY <1>1, PidIsChild DEF KillGroup
  <2> QED
    BY <1>1, <2>1, Constants DEF KillGroup
<1>2. CASE KillTimer
  <2>1. timers' \in 0 .. MaxTimers
    BY <1>2, Constants DEF KillTimer
  <2>2. CASE pid = None
    <3>1. UNCHANGED <<starts, pid, proc, held, fd, queued, poll, calls, termed,
                      mute, timerKilled, pollKilled, gone>>
      BY <1>2, <2>2 DEF KillTimer
    <3> QED
      BY <2>1, <3>1
  <2>3. CASE pid # None
    <3>1. pid \in Child
      BY <2>3, PidIsChild
    <3>2. /\ proc' = [proc EXCEPT ![pid] = "zombie"] /\ held' = FALSE
          /\ mute' = mute \cup {pid} /\ timerKilled' = timerKilled \cup {pid}
          /\ UNCHANGED <<starts, pid, fd, queued, poll, calls, termed, pollKilled, gone>>
      BY <1>2, <2>3 DEF KillTimer, Released
    <3> QED
      BY <2>1, <2>3, <3>1, <3>2
  <2> QED
    BY <2>2, <2>3
<1>3. CASE Hangup
  BY <1>3, Constants DEF Hangup, DetachTasks
<1>4. CASE Destroy
  <2>1. CASE pid = None
    BY <1>4, <2>1, Constants DEF Destroy
  <2>2. CASE pid # None
    <3>1. pid \in Child
      BY <2>2, PidIsChild
    <3> QED
      BY <1>4, <2>2, <3>1, Constants DEF Destroy
  <2> QED
    BY <2>1, <2>2
<1> QED
  BY <1>1, <1>2, <1>3, <1>4

\* Reaping, polling again, or killing a child whose output has ended.
LEMMA PollInv ==
    ASSUME IInv, ~gone, NEW tries \in Nat, tries <= MaxTries, PollReap(tries),
           ~held, pid # None, fd' = FALSE, queued' = 0,
           UNCHANGED <<starts, held, timers, mute, termed, timerKilled, gone>>
    PROVE  IInv'
<1> USE DEF IInv, TypeOK, Processes, Callbacks, Polling, PollKillsOnlyMute
<1>1. pid \in Child /\ pid \in mute
  BY PidIsChild
<1>2. proc[pid] \in {"alive", "zombie"} /\ calls[pid] = 0
  <2>1. proc[pid] \in {"alive", "zombie"}
    BY <1>1
  <2>2. calls[pid] \in 0 .. 1 /\ calls[pid] # 1
    BY <1>1, <2>1
  <2> QED
    BY <2>1, <2>2
<1>3. ASSUME Finish, pollKilled' \in {pollKilled, pollKilled \cup {pid}} PROVE IInv'
  <2>0. calls[pid] + 1 = 1
    BY <1>2
  <2>1. /\ proc' = [proc EXCEPT ![pid] = "reaped"] /\ pid' = None /\ poll' = NoPoll
        /\ calls' = [calls EXCEPT ![pid] = 1]
    BY ONLY <1>3, <2>0 DEF Finish
  <2>2. TypeOK'
    <3>1. /\ pid' \in 0 .. MaxStarts /\ poll' \in {NoPoll} \cup 1 .. MaxTries
          /\ queued' \in 0 .. 1 /\ pollKilled' \subseteq Child
      BY <1>1, <1>3, <2>1, Constants
    <3>2. /\ proc' \in [Child -> {"none", "alive", "zombie", "reaped"}]
          /\ calls' \in [Child -> 0 .. 1]
      BY <1>1, <2>1
    <3> QED
      BY <3>1, <3>2
  <2>3. Processes'
    BY <1>1, <1>2, <2>1, Constants
  <2>4. Callbacks'
    BY <1>1, <2>1
  <2>5. Polling' /\ PollKillsOnlyMute'
    BY <1>1, <1>3, <2>1
  <2> QED
    BY <2>2, <2>3, <2>4, <2>5
<1>4. CASE tries < MaxTries /\ poll' = tries + 1 /\ UNCHANGED <<pid, proc, calls, pollKilled>>
  <2>1. poll' \in 1 .. MaxTries
    BY <1>4, Constants
  <2>2. /\ UNCHANGED <<starts, pid, proc, held, timers, calls, mute, termed,
                     timerKilled, pollKilled, gone>>
        /\ fd' = FALSE /\ queued' = 0
    BY <1>4
  <2>3. TypeOK'
    <3>1. /\ poll' \in {NoPoll} \cup 1 .. MaxTries /\ queued' \in 0 .. 1
          /\ starts' \in 0 .. MaxStarts /\ pid' \in 0 .. MaxStarts
          /\ timers' \in 0 .. MaxTimers
      BY <2>1, <2>2
    <3>2. /\ proc' \in [Child -> {"none", "alive", "zombie", "reaped"}]
          /\ calls' \in [Child -> 0 .. 1]
      BY <2>2
    <3>3. /\ held' \in BOOLEAN /\ fd' \in BOOLEAN /\ gone' \in BOOLEAN
          /\ termed' \subseteq Child /\ mute' \subseteq Child
          /\ timerKilled' \subseteq Child /\ pollKilled' \subseteq Child
      BY <2>2
    <3> HIDE DEF Processes, Callbacks, Polling, PollKillsOnlyMute, IInv
    <3> QED
      BY ONLY <3>1, <3>2, <3>3 DEF TypeOK
  <2>4. Processes' /\ Callbacks' /\ PollKillsOnlyMute'
    BY <2>2
  <2>5. Polling'
    BY <2>1, <2>2
  <2> QED
    BY <2>3, <2>4, <2>5
<1>5. CASE proc[pid] = "zombie"
  BY <1>3, <1>5 DEF PollReap
<1>6. CASE proc[pid] # "zombie" /\ tries < MaxTries
  BY <1>4, <1>6 DEF PollReap
<1>7. CASE proc[pid] # "zombie" /\ ~(tries < MaxTries)
  BY <1>3, <1>7 DEF PollReap
<1> QED
  BY <1>5, <1>6, <1>7

\* The queued detachPipe() and the timer of pollReap().
LEMMA ReapInv ==
    ASSUME IInv, DetachPipe \/ PollTimer
    PROVE  IInv'
<1>1. CASE DetachPipe
  <2>1. fd /\ ~held /\ pid # None /\ queued' = 0
    BY <1>1 DEF DetachPipe, IInv, TypeOK, Polling
  <2>2. 0 \in Nat /\ 0 <= MaxTries
    BY Constants
  <2> QED
    BY <1>1, <2>1, <2>2, PollInv DEF DetachPipe
<1>2. CASE PollTimer
  <2>1. /\ ~held /\ pid # None /\ poll \in Nat /\ poll <= MaxTries
        /\ fd' = FALSE /\ queued' = 0
    BY <1>2, Constants DEF PollTimer, IInv, TypeOK, Polling
  <2> QED
    BY <1>2, <2>1, PollInv DEF PollTimer
<1> QED
  BY <1>1, <1>2

\* The invariant is inductive.
LEMMA NextInv == IInv /\ [Next]_vars => IInv'
<1> SUFFICES ASSUME IInv, [Next]_vars PROVE IInv'
  OBVIOUS
<1>1. CASE UNCHANGED vars
  BY <1>1 DEF vars, history, IInv, TypeOK, Processes, Callbacks, Polling,
              PollKillsOnlyMute
<1> QED
  BY <1>1, ChildInv, StartInv, ControlInv, ReapInv DEF Next

\* The invariant holds in every reachable state.
LEMMA InvariantHolds == Spec => []IInv
<1> QED
  BY InitInv, NextInv, PTL DEF Spec

\* The fields keep their types, and exitCb_ is called at most once per child.
THEOREM TypesHold == Spec => []TypeOK
<1>1. IInv => TypeOK
  BY DEF IInv
<1> QED
  BY <1>1, InvariantHolds, PTL

\* There is never a second flashing script: an unreaped process is pid_.
THEOREM OneFlasherHolds == Spec => []OneFlasher
<1>1. IInv => OneFlasher
  BY DEF IInv, Processes, OneFlasher
<1> QED
  BY <1>1, InvariantHolds, PTL

\* The exit callback is made exactly for the children that were reaped by a
\* living object.
THEOREM ExitMeansReapedHolds == Spec => []ExitMeansReaped
<1>1. IInv => ExitMeansReaped
  BY DEF IInv, Callbacks, ExitMeansReaped
<1> QED
  BY <1>1, InvariantHolds, PTL

\* Giving up on a child that goes on running kills only one whose output has
\* ended.
THEOREM PollKillsOnlyMuteHolds == Spec => []PollKillsOnlyMute
<1>1. IInv => PollKillsOnlyMute
  BY DEF IInv
<1> QED
  BY <1>1, InvariantHolds, PTL

=============================================================================
