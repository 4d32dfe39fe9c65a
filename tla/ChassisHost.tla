----------------------------- MODULE ChassisHost -----------------------------
(***************************************************************************)
(* The control part of app/ChassisHost: who drives the chassis, who has    *)
(* disabled it, the CON session to the board, the reconnecting watchdog    *)
(* and the firmware update that suspends all of it.                        *)
(*                                                                         *)
(* Everything runs in one event loop, so a handler is one action.  The     *)
(* surroundings are open: clients come, go and send any command, the board *)
(* sends any frame, the port can be lost at any time, and any one write of *)
(* a handler can fail: send() still answers TRUE, the frame is lost, and   *)
(* the port is closed for the rest of the handler.                         *)
(***************************************************************************)
EXTENDS ConSmOps, FiniteSets

CONSTANTS
    Client,             \* the TCP connections that can exist at once
    conRetryMs,         \* HostOptions, in units of time
    enResendMs,
    quiesceTimeoutMs,
    recoverTimeoutMs

ASSUME HostAssumption ==
    /\ None \notin Client
    /\ conRetryMs \in Nat
    /\ enResendMs \in Nat
    /\ quiesceTimeoutMs \in Nat
    /\ recoverTimeoutMs \in Nat

VARIABLES
    con,           \* conSm_
    open,          \* serial_.isOpen()
    unread,        \* frames of the last read are left although the port closed
    conns,         \* conns_
    speedConn,     \* speedConn_, or None
    moving,        \* cmdMode_ is not kNone
    userDisabled,  \* userDisabled_
    enAge,         \* time since lastEnSentMs_, up to enResendMs + 1
    retryAge,      \* time since lastRetryMs_, up to conRetryMs
    ota,           \* otaState_
    phaseAge,      \* time since otaPhaseStartMs_ in a phase with a timeout
    child,         \* flasher_->running()
    wire,          \* the last CMD_EN frame that was written to the port
    vel            \* the last step wrote a speed frame to the port

vars == <<con, open, unread, conns, speedConn, moving, userDisabled, enAge,
          retryAge, ota, phaseAge, child, wire, vel>>

drive == <<conns, speedConn, moving>>
update == <<ota, phaseAge, child>>

OtaState == {"NONE", "QUIESCING", "FLASHING", "RECOVERING"}
Enable == {"EN0", "EN1"}

otaBusy == ota # "NONE"

\* The bounds at which the ages stop counting: past every comparison.
EnAgeMax == enResendMs + 1
PhaseAgeMax == IF quiesceTimeoutMs < recoverTimeoutMs
               THEN recoverTimeoutMs + 1 ELSE quiesceTimeoutMs + 1

\* start() has tried to open the port.  At start-up every age has long
\* passed, because the clock does not begin with the process.
Init ==
    /\ con = InitConSm
    /\ open \in BOOLEAN
    /\ unread = FALSE
    /\ conns = {}
    /\ speedConn = None
    /\ moving = FALSE
    /\ userDisabled = FALSE
    /\ enAge = EnAgeMax
    /\ retryAge = conRetryMs
    /\ ota = "NONE"
    /\ phaseAge = 0
    /\ child = FALSE
    /\ wire = None
    /\ vel = FALSE

-----------------------------------------------------------------------------
(* The writes of one handler, of which the f-th fails (none, if f is 0):   *)
(* o says whether the port is open when the handler begins.                *)

Fault == 0 .. 2

\* What sendFrameToBoard() answers for the i-th write.
Accepted(o, f, i) == o /\ (f = 0 \/ i <= f)

\* The i-th write gets to the wire.
Written(o, f, i) == Accepted(o, f, i) /\ i # f

\* The port after n writes.
OpenAfter(o, f, n) == o /\ (f = 0 \/ n < f)

\* A handler that writes no speed frame and leaves no frame unread.
Quiet == unread' = FALSE /\ vel' = FALSE

-----------------------------------------------------------------------------
(* TCP connections and their commands.                                     *)

ClientUp(c) ==
    /\ c \notin conns
    /\ conns' = conns \cup {c}
    /\ Quiet
    /\ UNCHANGED <<con, open, speedConn, moving, userDisabled, enAge, retryAge,
                   update, wire>>

\* Seeded fault: the speed command outlives the connection it came from.
ClientDownKeepsDriving(c) ==
    /\ c \in conns
    /\ conns' = conns \ {c}
    /\ Quiet
    /\ UNCHANGED <<con, open, speedConn, moving, userDisabled, enAge, retryAge,
                   update, wire>>

\* The connection in control is lost: stop repeating, and brake.
ClientDown(c) ==
    /\ c \in conns
    /\ conns' = conns \ {c}
    /\ IF speedConn = c
       THEN /\ moving' = FALSE
            /\ speedConn' = None
            /\ \E f \in Fault : open' = OpenAfter(open, f, 1)
       ELSE UNCHANGED <<moving, speedConn, open>>
    /\ Quiet
    /\ UNCHANGED <<con, userDisabled, enAge, retryAge, update, wire>>

\* Commands v and rpm.
CmdSpeed(c) ==
    /\ c \in conns /\ ~otaBusy
    /\ moving' = TRUE
    /\ speedConn' = c
    /\ Quiet
    /\ UNCHANGED <<con, open, conns, userDisabled, enAge, retryAge, update, wire>>

\* Command stop, which is let through during an update.
CmdStop(c) ==
    /\ c \in conns
    /\ moving' = FALSE
    /\ speedConn' = None
    /\ \E f \in Fault : open' = OpenAfter(open, f, 1)
    /\ Quiet
    /\ UNCHANGED <<con, conns, userDisabled, enAge, retryAge, update, wire>>

\* Command en 1: CMD_EN first, then connect() when there is no session.
CmdEnable(c) ==
    /\ c \in conns /\ ~otaBusy
    /\ userDisabled' = FALSE
    /\ enAge' = 0
    /\ \E f \in Fault :
          LET r == IF con.state = "DISCONNECTED"
                   THEN Connect(con, Accepted(open, f, 2)) ELSE Outcome(con)
          IN  /\ con' = r.c
              /\ wire' = IF Written(open, f, 1) THEN "EN1" ELSE wire
              /\ open' = OpenAfter(open, f, 1 + Len(r.out))
    /\ Quiet
    /\ UNCHANGED <<conns, speedConn, moving, retryAge, update>>

\* Command en 0: the sticky flag, CMD_EN, then disconnect().
CmdDisable(c) ==
    /\ c \in conns /\ ~otaBusy
    /\ userDisabled' = TRUE
    /\ moving' = FALSE
    /\ \E f \in Fault :
          LET r == Disconnect(con, Accepted(open, f, 2))
          IN  /\ con' = r.c
              /\ wire' = IF Written(open, f, 1) THEN "EN0" ELSE wire
              /\ open' = OpenAfter(open, f, 1 + Len(r.out))
    /\ Quiet
    /\ UNCHANGED <<conns, speedConn, enAge, retryAge, update>>

\* Command flash, past its checks of the caller and of the file name: stop
\* driving, disable, and wait for the board to confirm that it stands still.
CmdFlash(c) ==
    /\ c \in conns /\ ~otaBusy
    /\ ota' = "QUIESCING"
    /\ phaseAge' = 0
    /\ moving' = FALSE
    /\ speedConn' = None
    /\ userDisabled' = TRUE
    /\ \E f \in Fault :
          /\ wire' = IF Written(open, f, 2) THEN "EN0" ELSE wire
          /\ open' = OpenAfter(open, f, 2)
    /\ Quiet
    /\ UNCHANGED <<con, conns, enAge, retryAge, child>>

\* Seeded fault: an update that is being written is given up as well.
CmdFlashAbortAlways(c) ==
    /\ c \in conns /\ otaBusy
    /\ ota' = "NONE"
    /\ phaseAge' = 0
    /\ Quiet
    /\ UNCHANGED <<con, open, drive, userDisabled, enAge, retryAge, child, wire>>

\* Command flash_abort.  During FLASHING it refuses, or with "force" signals
\* the child, whose exit then ends the phase: nothing changes here.
CmdFlashAbort(c) ==
    /\ c \in conns
    /\ ota \in {"QUIESCING", "RECOVERING"}
    /\ ota' = "NONE"
    /\ phaseAge' = 0
    /\ Quiet
    /\ UNCHANGED <<con, open, drive, userDisabled, enAge, retryAge, child, wire>>

-----------------------------------------------------------------------------
(* The firmware update.                                                    *)

\* otaBeginFlasher(): the session is dropped without a frame, then the child
\* is started, unless that fails.  The session before it is c.
BeginFlasher(c, started) ==
    /\ con' = Reset(c).c
    /\ phaseAge' = 0
    /\ IF started /\ ~child
       THEN ota' = "FLASHING" /\ child' = TRUE
       ELSE ota' = "NONE" /\ UNCHANGED child

\* otaOnChildExit(): the child has exited and was reaped.
ChildExit ==
    /\ child
    /\ child' = FALSE
    /\ IF ota # "FLASHING" THEN UNCHANGED <<ota, phaseAge, retryAge>>
       ELSE \E ok \in BOOLEAN :
               /\ ota' = IF ok THEN "RECOVERING" ELSE "NONE"
               /\ phaseAge' = 0
               /\ retryAge' = IF ok THEN conRetryMs ELSE retryAge
    /\ Quiet
    /\ UNCHANGED <<con, open, drive, userDisabled, enAge, wire>>

-----------------------------------------------------------------------------
(* Frames of the board.                                                    *)

\* The rest of a read is still handled when a write closes the port.
Handling == open \/ unread
StillHandling == unread' = (Handling /\ ~open') /\ vel' = FALSE

\* A frame that changes nothing here: telemetry, a ping answer, a CON frame
\* of this host that came back.
OtherFrame ==
    /\ Handling
    /\ UNCHANGED <<con, open, drive, userDisabled, enAge, retryAge, update, wire>>
    /\ StillHandling

\* A STATUS frame: enable again a board that has come back disabled, and
\* start the flasher once the board itself says that it is disabled.
StatusFrame(en) ==
    /\ Handling
    /\ LET heal == /\ ~userDisabled /\ con.comm = "READY"
                   /\ en = 0 /\ enAge > enResendMs
       IN  \E f \in Fault :
              /\ enAge' = IF heal THEN 0 ELSE enAge
              /\ wire' = IF heal /\ Written(open, f, 1) THEN "EN1" ELSE wire
              /\ open' = OpenAfter(open, f, IF heal THEN 1 ELSE 0)
    /\ IF ota = "QUIESCING" /\ en = 0
       THEN \E started \in BOOLEAN : BeginFlasher(con, started)
       ELSE UNCHANGED <<con, update>>
    /\ StillHandling
    /\ UNCHANGED <<drive, userDisabled, retryAge>>

\* Seeded fault: a new session enables the motors whatever the user said.
EnableOnReadyAlways == "EN1"

\* The CMD_EN frame of onCommState(READY).
EnableOnReady == IF userDisabled THEN "EN0" ELSE "EN1"

\* A CON frame of the board, with onCommState() as callback.  The machine's
\* own write is the first; only READY makes the callback write another.
ConFrame(m) ==
    /\ Handling
    /\ \E f \in Fault :
          LET r     == OnFrame(con, m, Accepted(open, f, 1))
              ready == \E i \in DOMAIN r.fired : r.fired[i] = "READY"
              n     == Len(r.out)
          IN  /\ con' = r.c
              /\ wire' = IF ready /\ Written(open, f, n + 1)
                         THEN EnableOnReady ELSE wire
              /\ open' = OpenAfter(open, f, IF ready THEN n + 1 ELSE n)
              /\ enAge' = IF ready THEN 0 ELSE enAge
              /\ ota' = IF ready /\ ota = "RECOVERING" THEN "NONE" ELSE ota
              /\ phaseAge' = IF ready /\ ota = "RECOVERING" THEN 0 ELSE phaseAge
    /\ StillHandling
    /\ UNCHANGED <<drive, userDisabled, retryAge, child>>

-----------------------------------------------------------------------------
(* The periodic tasks, the port and the time.                              *)

\* onConTick()
ConTick ==
    /\ \E f \in Fault :
          LET ok1 == Accepted(open, f, 1)
              ok2 == Accepted(open, f, 1 + Len(TickRsp(con, ok1).out))
              r   == Tick(con, ok1, ok2)
          IN  /\ con' = r.c
              /\ open' = OpenAfter(open, f, Len(r.out))
    /\ Quiet
    /\ UNCHANGED <<drive, userDisabled, enAge, retryAge, update, wire>>

\* Seeded fault: the speed command is repeated although it was disabled.
RepeatTimerWhileDisabled ==
    /\ moving
    /\ con.comm = "READY"
    /\ \E f \in Fault :
          /\ vel' = Written(open, f, 1)
          /\ open' = OpenAfter(open, f, 1)
    /\ unread' = FALSE
    /\ UNCHANGED <<con, drive, userDisabled, enAge, retryAge, update, wire>>

\* onRepeatTimer()
RepeatTimer ==
    /\ moving /\ ~userDisabled
    /\ con.comm = "READY"
    /\ \E f \in Fault :
          /\ vel' = Written(open, f, 1)
          /\ open' = OpenAfter(open, f, 1)
    /\ unread' = FALSE
    /\ UNCHANGED <<con, drive, userDisabled, enAge, retryAge, update, wire>>

\* Seeded fault: no reconnecting while the user has disabled the motors.
ReconnectDueUnlessDisabled(o, st, otaNow, age) ==
    /\ otaNow # "FLASHING" /\ o /\ st = "DISCONNECTED"
    /\ age >= conRetryMs /\ ~userDisabled

\* Seeded fault: reconnecting goes on while the board is being flashed.
ReconnectDueWhileFlashing(o, st, otaNow, age) ==
    o /\ st = "DISCONNECTED" /\ age >= conRetryMs

ReconnectDue(o, st, otaNow, age) ==
    /\ otaNow # "FLASHING" /\ o /\ st = "DISCONNECTED"
    /\ age >= conRetryMs

\* Seeded fault: nothing ends the wait for the rebuilt session.
RecoverExpiredNever == FALSE

RecoverExpired == ota = "RECOVERING" /\ phaseAge > recoverTimeoutMs

\* onWatchdogTimer(): first the port is opened again (reopen: that works),
\* which lifts the throttle; then the timeouts of the update; then, with what
\* these have changed, the CON session is requested.
WatchdogTimer ==
    \E reopen, started \in BOOLEAN, f \in Fault :
       LET o       == open \/ reopen
           age     == IF ~open /\ reopen THEN conRetryMs ELSE retryAge
           quiesce == ota = "QUIESCING" /\ phaseAge > quiesceTimeoutMs
           c       == IF quiesce THEN Reset(con).c ELSE con
           begun   == quiesce /\ started /\ ~child
           otaNow  == IF begun THEN "FLASHING"
                      ELSE IF quiesce \/ RecoverExpired THEN "NONE" ELSE ota
           due     == ReconnectDue(o, c.state, otaNow, age)
           r       == IF due THEN Connect(c, Accepted(o, f, 1)) ELSE Outcome(c)
       IN  /\ con' = r.c
           /\ open' = OpenAfter(o, f, Len(r.out))
           /\ ota' = otaNow
           /\ child' = (child \/ begun)
           /\ phaseAge' = IF otaNow = ota THEN phaseAge ELSE 0
           /\ retryAge' = IF due THEN 0 ELSE age
           /\ Quiet
           /\ UNCHANGED <<drive, userDisabled, enAge, wire>>

\* Unplugged, a failed read, or a failed write of a command that changes
\* nothing else (pid, sign, ping).
PortLost ==
    /\ open
    /\ open' = FALSE
    /\ Quiet
    /\ UNCHANGED <<con, drive, userDisabled, enAge, retryAge, update, wire>>

Elapse ==
    /\ con' = Elapsed(con)
    /\ enAge' = IF enAge < EnAgeMax THEN enAge + 1 ELSE enAge
    /\ retryAge' = IF retryAge < conRetryMs THEN retryAge + 1 ELSE retryAge
    /\ phaseAge' = IF ota \in {"QUIESCING", "RECOVERING"} /\ phaseAge < PhaseAgeMax
                   THEN phaseAge + 1 ELSE phaseAge
    /\ Quiet
    /\ UNCHANGED <<open, drive, userDisabled, ota, child, wire>>

Command(c) ==
    \/ CmdSpeed(c) \/ CmdStop(c) \/ CmdEnable(c) \/ CmdDisable(c)
    \/ CmdFlash(c) \/ CmdFlashAbort(c)

Frame ==
    \/ OtherFrame
    \/ \E en \in {0, 1} : StatusFrame(en)
    \/ \E m \in ConMsg : ConFrame(m)

Next ==
    \/ \E c \in Client : ClientUp(c) \/ ClientDown(c) \/ Command(c)
    \/ Frame
    \/ ConTick \/ RepeatTimer \/ WatchdogTimer
    \/ ChildExit \/ PortLost \/ Elapse

\* The loop runs its timers again and again, time passes, and the flashing
\* script ends (a child that never does is outside of this module).
Fairness == WF_vars(WatchdogTimer) /\ WF_vars(Elapse) /\ WF_vars(ChildExit)

Spec == Init /\ [][Next]_vars /\ Fairness

-----------------------------------------------------------------------------
TypeOK ==
    /\ con \in ConSmType
    /\ open \in BOOLEAN /\ unread \in BOOLEAN
    /\ conns \subseteq Client
    /\ speedConn \in Client \cup {None}
    /\ moving \in BOOLEAN /\ userDisabled \in BOOLEAN
    /\ enAge \in 0 .. EnAgeMax
    /\ retryAge \in 0 .. conRetryMs
    /\ ota \in OtaState
    /\ phaseAge \in 0 .. PhaseAgeMax
    /\ child \in BOOLEAN
    /\ wire \in Enable \cup {None}
    /\ vel \in BOOLEAN

\* Motion always has a master: the speed command that is being repeated
\* belongs to a connection that is still there, so a client that vanishes
\* never leaves the chassis driving, whoever takes over and whatever else
\* was commanded in between.
MotionHasMaster == moving => speedConn \in conns

\* During an update nothing drives the chassis and the sticky flag is set.
UpdateIsDisabled == otaBusy => userDisabled /\ ~moving

\* A speed frame goes out only for a connected master, enabled motors, and
\* no update.
SpeedIsAuthorised == vel => speedConn \in conns /\ ~userDisabled /\ ~otaBusy

\* The flashing child runs in the FLASHING phase and only then: it is never
\* orphaned by an abort or a timeout, and never started twice.
ChildIffFlashing == child <=> ota = "FLASHING"

\* A disabled chassis stays disabled: while the user's (or the update's)
\* disable is in force, the last CMD_EN on the wire does not become 1 again,
\* whatever sessions, self-healing and reconnecting do.
DisableIsSticky ==
    [][userDisabled /\ userDisabled' /\ wire # "EN1" => wire' # "EN1"]_vars

\* The host does not start a handshake of its own while the board is being
\* flashed: no timer, no command, no reopened port makes it.
SilentWhileFlashing ==
    [][ota = "FLASHING" /\ ota' = "FLASHING" /\ con.state = "DISCONNECTED"
          => con'.state # "CONNECTING"]_vars

\* Every update ends, and the host then takes commands again.
UpdateEnds == otaBusy ~> ~otaBusy

\* A lost session is requested again while the port is open and no board is
\* being flashed.
Reconnects ==
    (open /\ con.state = "DISCONNECTED" /\ ota # "FLASHING")
        ~> (~open \/ con.state # "DISCONNECTED" \/ ota = "FLASHING")

\* The comment on the phases (app/ChassisHost.h:157): RECOVERING waits for
\* the session to be rebuilt, and is left when it is.
RecoveringHasNoSession == ota = "RECOVERING" => con.comm # "READY"

=============================================================================
