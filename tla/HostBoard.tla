------------------------------ MODULE HostBoard ------------------------------
(***************************************************************************)
(* The host and the board with the commands that move the chassis between  *)
(* them: enabling, disabling, stopping, the repeated speed command, the    *)
(* board's answer in STATUS, and the phases of an update that take part.   *)
(*                                                                         *)
(* The CON session is taken from LinkSession, which ConSm implements; who  *)
(* of the TCP clients gives a command makes no difference here.  Frames    *)
(* travel for up to MaxDelay, in order.  Until calm holds, any frame can   *)
(* be lost, which stands for a closed port and a failed write as well, the *)
(* session can fail and the board can restart.                             *)
(***************************************************************************)
EXTENDS Naturals, Sequences

CONSTANTS
    RepeatPeriod,       \* of onRepeatTimer(), in units of time
    MaxLate,            \* how late it may run
    MaxDelay,           \* how long a frame may travel
    CmdTimeout,         \* of a speed command on the board
    MaxLine             \* bound: frames under way to the board

ASSUME HostBoardAssumption ==
    /\ RepeatPeriod \in Nat \ {0}
    /\ MaxLate \in Nat
    /\ MaxDelay \in Nat
    /\ CmdTimeout \in Nat
    /\ MaxLine \in Nat

VARIABLES
    phase, report,      \* of the session: conSm_ as LinkSession has it
    userDisabled,       \* userDisabled_
    moving,             \* cmdMode_ is not kNone
    ota,                \* otaState_; its timeouts can come at any time
    repeatAge,          \* time since onRepeatTimer() last ran
    toBoard,            \* frames under way, oldest first
    toHost,             \* what STATUS frames under way say of en, one at most
    en,                 \* the board's driverEn_
    driving,            \* the board has target speeds
    cmdAge,             \* time since its lastCmd_, while it is driving
    calm,               \* the faults have stopped
    overrun,            \* time for which the chassis drives, or a speed is under
                        \* way to it, although the host does not want it to move
    fed                 \* time for which it has been wanted to, in calm

session == <<phase, report>>
host == <<userDisabled, moving, repeatAge>>
board == <<en, driving, cmdAge>>
system == <<session, ota, host, board, toBoard, toHost, calm>>
vars == <<system, overrun, fed>>

Session == INSTANCE LinkSession

FrameType == {"SPEED", "STOP", "EN0", "EN1"}

\* The bounds at which the ages stop counting: past every comparison.
OverrunMax == CmdTimeout + MaxDelay + 2
FedMax == RepeatPeriod + MaxLate + MaxDelay + 1

Ready == phase \in {"CONNECTED", "DISCONNECTING"}
otaBusy == ota # "NONE"

\* The host wants the chassis to move: what onRepeatTimer() asks.
Authorised == moving /\ ~userDisabled /\ Ready

Init ==
    /\ Session!Init
    /\ userDisabled = FALSE /\ moving = FALSE
    /\ ota = "NONE"
    /\ repeatAge = 0
    /\ toBoard = <<>> /\ toHost = <<>>
    /\ en \in BOOLEAN
    /\ driving = FALSE /\ cmdAge = 0
    /\ calm = FALSE
    /\ overrun = 0 /\ fed = 0

-----------------------------------------------------------------------------
(* The line to the board.                                                  *)

\* What may be left of the frames (two at most) a handler writes.
Survivors(types) ==
    IF calm THEN {types}
    ELSE {<<>>, types} \cup {<<types[i]>> : i \in DOMAIN types}

\* sendFrameToBoard(), once for each of types.
Write(types) ==
    /\ Len(toBoard) + Len(types) <= MaxLine
    /\ \E s \in Survivors(types) :
          toBoard' = toBoard \o [i \in DOMAIN s |-> [type |-> s[i], age |-> 0]]

\* A call of connect(): without its request there is no handshake.
Connect == Session!Open \/ (~calm /\ Session!Stay)

-----------------------------------------------------------------------------
(* The commands of the clients.                                            *)

CmdSpeed ==
    /\ ~otaBusy
    /\ moving' = TRUE
    /\ Session!Stay
    /\ UNCHANGED <<userDisabled, repeatAge, ota, board, toBoard,
                   toHost, calm>>

\* Command stop, or the loss of the connection in control.
StopDriving ==
    /\ moving' = FALSE
    /\ Write(<<"STOP">>)
    /\ Session!Stay
    /\ UNCHANGED <<userDisabled, repeatAge, ota, board, toHost, calm>>

CmdEnable ==
    /\ ~otaBusy
    /\ userDisabled' = FALSE
    /\ Write(<<"EN1">>)
    /\ IF phase = "DISCONNECTED" THEN Connect ELSE Session!Stay
    /\ UNCHANGED <<moving, repeatAge, ota, board, toHost, calm>>

CmdDisable ==
    /\ ~otaBusy
    /\ userDisabled' = TRUE
    /\ moving' = FALSE
    /\ Write(<<"EN0">>)
    /\ IF phase = "CONNECTED"
       THEN Session!Close \/ (~calm /\ Session!End) ELSE Session!Stay
    /\ UNCHANGED <<repeatAge, ota, board, toHost, calm>>

CmdFlash ==
    /\ ~otaBusy
    /\ ota' = "QUIESCING"
    /\ userDisabled' = TRUE
    /\ moving' = FALSE
    /\ Write(<<"STOP", "EN0">>)
    /\ Session!Stay
    /\ UNCHANGED <<repeatAge, board, toHost, calm>>

\* Before the erasing and after the writing, an update is just given up.
CmdFlashAbort ==
    /\ ota \in {"QUIESCING", "RECOVERING"}
    /\ ota' = "NONE"
    /\ Session!Stay
    /\ UNCHANGED <<host, board, toBoard, toHost, calm>>

-----------------------------------------------------------------------------
(* The update, and the session.                                            *)

\* conSm_.reset(), then the child, which may not start.
BeginFlasher ==
    /\ \/ phase = "DISCONNECTED" /\ Session!Stay
       \/ Session!Fail
       \/ Session!End
    /\ ota' \in {"FLASHING", "NONE"}

QuiesceExpired ==
    /\ ota = "QUIESCING"
    /\ BeginFlasher
    /\ UNCHANGED <<host, board, toBoard, toHost, calm>>

RecoverExpired ==
    /\ ota = "RECOVERING"
    /\ ota' = "NONE"
    /\ Session!Stay
    /\ UNCHANGED <<host, board, toBoard, toHost, calm>>

Reconnect ==
    /\ ota # "FLASHING" /\ phase = "DISCONNECTED"
    /\ Connect
    /\ UNCHANGED <<host, ota, board, toBoard, toHost, calm>>

\* The flashing child has exited, well or not.
ChildExit ==
    /\ ota = "FLASHING"
    /\ ota' \in {"RECOVERING", "NONE"}
    /\ Session!Stay
    /\ UNCHANGED <<host, board, toBoard, toHost, calm>>

\* Seeded fault: only an enabled board is told again.
OnReadyIfEnabled ==
    /\ IF userDisabled THEN UNCHANGED toBoard
       ELSE Write(<<"EN1">>)
    /\ ota' = IF ota = "RECOVERING" THEN "NONE" ELSE ota

\* onCommState(READY).
OnReady ==
    /\ Write(<<IF userDisabled THEN "EN0" ELSE "EN1">>)
    /\ ota' = IF ota = "RECOVERING" THEN "NONE" ELSE ota

\* The handshake succeeds, or the board asks for a session.
Established ==
    /\ Session!Establish
    /\ OnReady
    /\ UNCHANGED <<userDisabled, moving, repeatAge, board, toHost, calm>>

\* The session ends: closed as requested, or lost in a fault or an update.
SessionEnds ==
    /\ phase = "DISCONNECTING" \/ ~calm \/ ota = "FLASHING"
    /\ Session!Fail \/ Session!End
    /\ UNCHANGED <<host, ota, board, toBoard, toHost, calm>>

\* The session begins, and its answer cannot be sent.
SessionFlickers ==
    /\ ~calm
    /\ Session!Flicker
    /\ OnReady
    /\ UNCHANGED <<userDisabled, moving, repeatAge, board, toHost, calm>>

-----------------------------------------------------------------------------
(* Frames from the board, and the repeated speed command.                  *)

\* PT_STATUS: a board that is seen disabled, but should be enabled, is told
\* again; enResendMs (see ChassisHost) may hold this back.
StatusHeals ==
    /\ toHost = <<FALSE>> /\ toHost' = <<>>
    /\ ~userDisabled /\ Ready
    /\ Write(<<"EN1">>)
    /\ Session!Stay
    /\ UNCHANGED <<host, ota, board, calm>>

\* PT_STATUS: the board confirms that it is disabled for the update.
StatusConfirms ==
    /\ toHost = <<FALSE>> /\ toHost' = <<>>
    /\ ota = "QUIESCING"
    /\ BeginFlasher
    /\ UNCHANGED <<host, board, toBoard, calm>>

StatusPasses ==
    /\ toHost # <<>> /\ toHost' = <<>>
    /\ toHost = <<FALSE>> /\ ~userDisabled /\ Ready => Len(toBoard) < MaxLine
    /\ ota = "QUIESCING" => toHost = <<TRUE>>
    /\ Session!Stay
    /\ UNCHANGED <<host, ota, board, toBoard, calm>>

\* Seeded fault: the speed is repeated for a disabled chassis as well.
RepeatTimerUngated ==
    /\ repeatAge >= RepeatPeriod
    /\ repeatAge' = 0
    /\ IF moving /\ Ready THEN Write(<<"SPEED">>) ELSE UNCHANGED toBoard
    /\ Session!Stay
    /\ UNCHANGED <<userDisabled, moving, ota, board, toHost, calm>>

RepeatTimer ==
    /\ repeatAge >= RepeatPeriod
    /\ repeatAge' = 0
    /\ IF Authorised THEN Write(<<"SPEED">>) ELSE UNCHANGED toBoard
    /\ Session!Stay
    /\ UNCHANGED <<userDisabled, moving, ota, board, toHost, calm>>

-----------------------------------------------------------------------------
(* The board.                                                              *)

\* CMD_VEL and CMD_TWIST set the targets, whether the motors are enabled or
\* not; CMD_STOP and CMD_EN with 0 clear them.
BoardTakes(type) ==
    /\ en' = IF type \in {"EN0", "EN1"} THEN type = "EN1" ELSE en
    /\ driving' = (type = "SPEED" \/ (type = "EN1" /\ driving))
    /\ cmdAge' = IF type = "EN1" THEN cmdAge ELSE 0

BoardReceive ==
    /\ toBoard # <<>>
    /\ toBoard' = Tail(toBoard)
    /\ BoardTakes(Head(toBoard).type)
    /\ Session!Stay
    /\ UNCHANGED <<host, ota, toHost, calm>>

\* Seeded fault: a unit of time too early.
OverdueEarly == driving /\ cmdAge >= CmdTimeout

\* The speed command is too old.
Overdue == driving /\ cmdAge > CmdTimeout

\* pump() looks at the age of the command.
BoardTimeout ==
    /\ Overdue
    /\ driving' = FALSE /\ cmdAge' = 0
    /\ Session!Stay
    /\ UNCHANGED <<en, host, ota, toBoard, toHost, calm>>

\* One STATUS is under way at a time: they are a second apart.
BoardStatus ==
    /\ toHost = <<>>
    /\ \E lost \in {FALSE, ~calm} :
          toHost' = IF lost THEN <<>> ELSE <<en>>
    /\ Session!Stay
    /\ UNCHANGED <<host, ota, board, toBoard, calm>>

\* The board restarts, in a fault or for an update; what is under way is lost.
BoardRestart ==
    /\ ~calm \/ ota = "FLASHING"
    /\ en' = FALSE /\ driving' = FALSE /\ cmdAge' = 0
    /\ toBoard' = <<>> /\ toHost' = <<>>
    /\ Session!Stay
    /\ UNCHANGED <<host, ota, calm>>

-----------------------------------------------------------------------------
(* Faults and time.                                                        *)

FaultsStop ==
    /\ ~calm /\ calm' = TRUE
    /\ Session!Stay
    /\ UNCHANGED <<host, ota, board, toBoard, toHost>>

\* Every frame and timer that is due comes before time goes on.
Elapse ==
    /\ \A i \in DOMAIN toBoard : toBoard[i].age < MaxDelay
    /\ repeatAge < RepeatPeriod + MaxLate
    /\ ~Overdue
    /\ toBoard' = [i \in DOMAIN toBoard |-> [toBoard[i] EXCEPT !.age = @ + 1]]
    /\ repeatAge' = repeatAge + 1
    /\ cmdAge' = IF driving THEN cmdAge + 1 ELSE cmdAge
    /\ Session!Stay
    /\ UNCHANGED <<userDisabled, moving, ota, en, driving, toHost, calm>>

Coming == \E i \in DOMAIN toBoard : toBoard[i].type = "SPEED"

\* The two ages the properties speak of, when d units of time have passed.
Watch(d) ==
    /\ overrun' = IF Authorised' \/ ~(driving \/ Coming)' THEN 0
                  ELSE IF overrun + d < OverrunMax THEN overrun + d ELSE OverrunMax
    /\ fed' = IF ~(Authorised' /\ calm') THEN 0
              ELSE IF fed + d < FedMax THEN fed + d ELSE FedMax

-----------------------------------------------------------------------------

Command ==
    \/ CmdSpeed \/ StopDriving \/ CmdEnable \/ CmdDisable
    \/ CmdFlash \/ CmdFlashAbort

\* The two parts of onWatchdogTimer() that concern the board are steps of their
\* own here: whether the second follows at once is up to its throttle.
WatchdogTimer == QuiesceExpired \/ RecoverExpired \/ Reconnect

HandshakeEnds ==
    \/ phase = "CONNECTING" /\ Established
    \/ phase = "DISCONNECTING" /\ SessionEnds

Handler ==
    \/ WatchdogTimer \/ ChildExit
    \/ Established \/ SessionEnds \/ SessionFlickers
    \/ StatusHeals \/ StatusConfirms \/ StatusPasses
    \/ RepeatTimer

Board == BoardReceive \/ BoardTimeout \/ BoardStatus \/ BoardRestart

Timely == (Command \/ Handler \/ Board \/ FaultsStop) /\ Watch(0)
Passing == Elapse /\ Watch(1)

Next == Timely \/ Passing

Spec == Init /\ [][Next]_vars

\* Time passes, timers run, frames arrive, a child ends (OtaFlasher), and once
\* the faults have stopped a handshake succeeds (ConLink).  Strong where the
\* bound of the line can disable a handler that the code would run.
Fairness ==
    /\ WF_system(Elapse)
    /\ SF_system(RepeatTimer)
    /\ SF_system(StatusHeals)
    /\ WF_system(StatusConfirms \/ StatusPasses)
    /\ SF_system(HandshakeEnds)
    /\ WF_system(WatchdogTimer \/ ChildExit)
    /\ WF_system(BoardReceive \/ BoardTimeout)
    /\ WF_system(BoardStatus)

FairSpec == Spec /\ Fairness

-----------------------------------------------------------------------------
(* Properties.                                                             *)

\* Every age within its bound, the frames under way among those the host
\* sends to move the chassis, and no more.
TypeOK ==
    /\ phase \in Session!Phase
    /\ report \in {<<>>, <<"READY">>, <<"NOT_READY">>, <<"READY", "NOT_READY">>}
    /\ userDisabled \in BOOLEAN /\ moving \in BOOLEAN
    /\ ota \in {"NONE", "QUIESCING", "FLASHING", "RECOVERING"}
    /\ repeatAge \in 0 .. RepeatPeriod + MaxLate
    /\ toBoard \in Seq([type : FrameType, age : 0 .. MaxDelay])
    /\ Len(toBoard) <= MaxLine
    /\ toHost \in {<<>>, <<TRUE>>, <<FALSE>>}
    /\ en \in BOOLEAN /\ driving \in BOOLEAN
    /\ cmdAge \in 0 .. CmdTimeout + 1
    /\ calm \in BOOLEAN
    /\ overrun \in 0 .. OverrunMax /\ fed \in 0 .. FedMax

\* Whatever is lost, delayed or restarted, the chassis drives on for at most
\* one travelling time and one timeout of the board after the host no longer
\* wants it to: after a stop, a disable, an update or the end of the session.
MotionStops == driving => overrun <= MaxDelay + CmdTimeout + 1

\* The other side of the timeout: while nothing is lost and the host wants the
\* chassis to move, frames that are late are no reason for the board to stop, as
\* long as RepeatPeriod + MaxLate + MaxDelay <= CmdTimeout.
KeepsMoving == fed = FedMax => driving

\* Without faults, the board comes to agree with the user on whether the motors
\* are enabled.  It is told so by the command, by the READY callback, and, if it
\* should be enabled, again because of STATUS.  A lost disable has to wait for
\* the next session.
BoardAgrees ==
    (calm /\ (userDisabled => phase = "DISCONNECTED")) ~> (en # userDisabled)

\* The host tells the client that has its update cancelled that the motors stay
\* disabled.  Violated: a disable that is lost during a session is not repeated.
DisableHolds == (calm /\ userDisabled) ~> (~en \/ ~userDisabled)

=============================================================================
