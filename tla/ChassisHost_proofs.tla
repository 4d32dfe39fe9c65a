-------------------------- MODULE ChassisHost_proofs --------------------------
(***************************************************************************)
(* The safety of the control part of ChassisHost, for any set of clients   *)
(* and all timeouts.                                                       *)
(*                                                                         *)
(* Who drives, who has disabled and what the update does is decided by the *)
(* host alone: Discipline is inductive whatever the CON session does.  The *)
(* types of the session need the outcomes of the methods of ConSm.         *)
(***************************************************************************)
EXTENDS ChassisHost, ConSmOps_proofs

\* The four invariants of driving and updating, which need each other: a
\* speed frame is authorised because the update that is under way has set
\* the sticky flag and because the motion has a master.
Discipline ==
    /\ MotionHasMaster
    /\ UpdateIsDisabled
    /\ ChildIffFlashing
    /\ SpeedIsAuthorised

\* Discipline holds at the start.
LEMMA InitDiscipline == Init => Discipline
BY DEF Init, Discipline, MotionHasMaster, UpdateIsDisabled, ChildIffFlashing,
       SpeedIsAuthorised, otaBusy

\* A client that comes, goes or commands keeps the discipline.
LEMMA ClientDiscipline ==
    ASSUME Discipline, NEW c \in Client,
           ClientUp(c) \/ ClientDown(c) \/ Command(c)
    PROVE  Discipline'
<1> USE DEF Discipline, MotionHasMaster, UpdateIsDisabled, ChildIffFlashing,
            SpeedIsAuthorised, otaBusy, Quiet, update, drive
<1>1. CASE ClientUp(c)
  BY <1>1 DEF ClientUp
<1>2. CASE ClientDown(c)
  BY <1>2 DEF ClientDown
<1>3. CASE CmdSpeed(c)
  BY <1>3 DEF CmdSpeed
<1>4. CASE CmdStop(c)
  BY <1>4 DEF CmdStop
<1>5. CASE CmdEnable(c)
  BY <1>5 DEF CmdEnable
<1>6. CASE CmdDisable(c)
  BY <1>6 DEF CmdDisable
<1>7. CASE CmdFlash(c)
  BY <1>7 DEF CmdFlash
<1>8. CASE CmdFlashAbort(c)
  BY <1>8 DEF CmdFlashAbort
<1> QED
  BY <1>1, <1>2, <1>3, <1>4, <1>5, <1>6, <1>7, <1>8 DEF Command

\* A frame of the board keeps the discipline.
LEMMA FrameDiscipline ==
    ASSUME Discipline, Frame
    PROVE  Discipline'
<1> USE DEF Discipline, MotionHasMaster, UpdateIsDisabled, ChildIffFlashing,
            SpeedIsAuthorised, otaBusy, StillHandling, update, drive
<1>1. CASE OtherFrame
  BY <1>1 DEF OtherFrame
<1>2. ASSUME NEW en \in {0, 1}, StatusFrame(en) PROVE Discipline'
  BY <1>2 DEF StatusFrame, BeginFlasher
<1>3. ASSUME NEW m \in ConMsg, ConFrame(m) PROVE Discipline'
  BY <1>3 DEF ConFrame
<1> QED
  BY <1>1, <1>2, <1>3 DEF Frame

\* The timers, the child, the port and the time keep the discipline.
LEMMA TimerDiscipline ==
    ASSUME Discipline,
           ConTick \/ RepeatTimer \/ WatchdogTimer \/ ChildExit \/ PortLost \/ Elapse
    PROVE  Discipline'
<1> USE DEF Discipline, MotionHasMaster, UpdateIsDisabled, ChildIffFlashing,
            SpeedIsAuthorised, otaBusy, Quiet, update, drive
<1>1. CASE ConTick
  BY <1>1 DEF ConTick
<1>2. CASE RepeatTimer
  BY <1>2 DEF RepeatTimer
<1>3. CASE WatchdogTimer
  <2>1. PICK started \in BOOLEAN :
           LET quiesce == ota = "QUIESCING" /\ phaseAge > quiesceTimeoutMs
               begun   == quiesce /\ started /\ ~child
           IN  /\ ota' = IF begun THEN "FLASHING"
                         ELSE IF quiesce \/ RecoverExpired THEN "NONE" ELSE ota
               /\ child' = (child \/ begun)
    BY <1>3 DEF WatchdogTimer
  <2>2. vel' = FALSE /\ UNCHANGED <<conns, speedConn, moving, userDisabled>>
    BY <1>3 DEF WatchdogTimer
  <2>3. ChildIffFlashing' /\ (ota' # "NONE" => ota # "NONE")
    BY <2>1 DEF RecoverExpired
  <2> QED
    BY <2>2, <2>3
<1>4. CASE ChildExit
  BY <1>4 DEF ChildExit
<1>5. CASE PortLost
  BY <1>5 DEF PortLost
<1>6. CASE Elapse
  BY <1>6 DEF Elapse
<1> QED
  BY <1>1, <1>2, <1>3, <1>4, <1>5, <1>6

\* Discipline is inductive.
LEMMA NextDiscipline == Discipline /\ [Next]_vars => Discipline'
<1> SUFFICES ASSUME Discipline, [Next]_vars PROVE Discipline'
  OBVIOUS
<1>1. ASSUME NEW c \in Client, ClientUp(c) \/ ClientDown(c) \/ Command(c)
      PROVE  Discipline'
  BY <1>1, ClientDiscipline
<1>2. CASE UNCHANGED vars
  BY <1>2 DEF vars, Discipline, MotionHasMaster, UpdateIsDisabled,
              ChildIffFlashing, SpeedIsAuthorised, otaBusy
<1> QED
  BY <1>1, <1>2, FrameDiscipline, TimerDiscipline DEF Next

\* Discipline holds in every reachable state.
LEMMA DisciplineHolds == Spec => []Discipline
<1> QED
  BY InitDiscipline, NextDiscipline, PTL DEF Spec

\* A speed command that is repeated belongs to a connection that is still
\* there, for any number of clients.
THEOREM MotionHasMasterHolds == Spec => []MotionHasMaster
<1>1. Discipline => MotionHasMaster
  BY DEF Discipline
<1> QED
  BY <1>1, DisciplineHolds, PTL

\* Nothing drives the chassis during an update.
THEOREM UpdateIsDisabledHolds == Spec => []UpdateIsDisabled
<1>1. Discipline => UpdateIsDisabled
  BY DEF Discipline
<1> QED
  BY <1>1, DisciplineHolds, PTL

\* The flashing child runs in the FLASHING phase and only then.
THEOREM ChildIffFlashingHolds == Spec => []ChildIffFlashing
<1>1. Discipline => ChildIffFlashing
  BY DEF Discipline
<1> QED
  BY <1>1, DisciplineHolds, PTL

\* A speed frame is written only for a connected master, enabled motors and
\* no update.
THEOREM SpeedIsAuthorisedHolds == Spec => []SpeedIsAuthorised
<1>1. Discipline => SpeedIsAuthorised
  BY DEF Discipline
<1> QED
  BY <1>1, DisciplineHolds, PTL

-----------------------------------------------------------------------------
\* While the disable is in force no handler writes CMD_EN = 1: the sessions
\* that come and go, the self-healing on STATUS and the commands of other
\* clients leave the motors disabled.
THEOREM DisableIsStickyHolds == Spec => DisableIsSticky
<1> DEFINE Sticky == userDisabled /\ userDisabled' /\ wire # "EN1" => wire' # "EN1"
<1>1. ASSUME Next PROVE Sticky
  <2> SUFFICES ASSUME userDisabled, userDisabled', wire # "EN1"
               PROVE  wire' # "EN1"
    OBVIOUS
  <2>1. ASSUME NEW c \in Client, ClientUp(c) \/ ClientDown(c) \/ Command(c)
        PROVE  wire' # "EN1"
    BY <2>1 DEF ClientUp, ClientDown, Command, CmdSpeed, CmdStop, CmdEnable,
                CmdDisable, CmdFlash, CmdFlashAbort
  <2>2. CASE OtherFrame
    BY <2>2 DEF OtherFrame
  <2>3. ASSUME NEW en \in {0, 1}, StatusFrame(en) PROVE wire' # "EN1"
    BY <2>3 DEF StatusFrame
  <2>4. ASSUME NEW m \in ConMsg, ConFrame(m) PROVE wire' # "EN1"
    BY <2>4 DEF ConFrame, EnableOnReady
  <2>5. CASE ConTick \/ RepeatTimer \/ WatchdogTimer
    BY <2>5 DEF ConTick, RepeatTimer, WatchdogTimer
  <2>6. CASE ChildExit \/ PortLost \/ Elapse
    BY <2>6 DEF ChildExit, PortLost, Elapse
  <2> QED
    BY <1>1, <2>1, <2>2, <2>3, <2>4, <2>5, <2>6 DEF Next, Frame
<1>2. ASSUME [Next]_vars PROVE [Sticky]_vars
  BY <1>1, <1>2
<1> QED
  BY <1>2, PTL DEF Spec, DisableIsSticky

-----------------------------------------------------------------------------
(* The session: its types, and what starts a handshake.                    *)

\* What sendFrameToBoard() answers is a Boolean.
LEMMA AcceptedBoolean ==
    ASSUME NEW o \in BOOLEAN, NEW f, NEW i
    PROVE  Accepted(o, f, i) \in BOOLEAN
BY DEF Accepted

\* The port is open or closed after any number of writes.
LEMMA OpenAfterBoolean ==
    ASSUME NEW o \in BOOLEAN, NEW f, NEW n
    PROVE  OpenAfter(o, f, n) \in BOOLEAN
BY DEF OpenAfter

\* A machine that was idle, asked for a session, got one or kept its state
\* is in order.
LEMMA OutcomeGood ==
    ASSUME NEW c, Good(c), NEW e,
           e = c \/ Ended(e) \/ Live(e) \/ Asking(c, e) \/ Refreshed(c, e)
             \/ Ticked(c, e)
    PROVE  Good(e)
BY DEF Ended, Live, Asking, Refreshed, Ticked

\* The machine stays in order with every action.
LEMMA SessionGood ==
    ASSUME Good(con), open \in BOOLEAN, Next
    PROVE  Good(con)'
<1>1. ASSUME NEW c \in Client, ClientUp(c) \/ ClientDown(c) \/ CmdSpeed(c)
                 \/ CmdStop(c) \/ CmdFlash(c) \/ CmdFlashAbort(c)
      PROVE  Good(con)'
  BY <1>1 DEF ClientUp, ClientDown, CmdSpeed, CmdStop, CmdFlash, CmdFlashAbort
<1>2. ASSUME NEW c \in Client, CmdEnable(c) PROVE Good(con)'
  <2>1. PICK f \in Fault :
           con' = IF con.state = "DISCONNECTED"
                  THEN Connect(con, Accepted(open, f, 2)).c ELSE Outcome(con).c
    BY <1>2 DEF CmdEnable
  <2> QED
    BY <2>1, AcceptedBoolean, ConnectOutcome, UnchangedOutcome, OutcomeGood
<1>3. ASSUME NEW c \in Client, CmdDisable(c) PROVE Good(con)'
  <2>1. PICK f \in Fault : con' = Disconnect(con, Accepted(open, f, 2)).c
    BY <1>3 DEF CmdDisable
  <2> QED
    BY <2>1, AcceptedBoolean, DisconnectOutcome, OutcomeGood
<1>4. CASE OtherFrame \/ RepeatTimer \/ ChildExit \/ PortLost
  BY <1>4 DEF OtherFrame, RepeatTimer, ChildExit, PortLost
<1>5. ASSUME NEW en \in {0, 1}, StatusFrame(en) PROVE Good(con)'
  <2>1. con' = con \/ con' = Reset(con).c
    BY <1>5 DEF StatusFrame, BeginFlasher
  <2> QED
    BY <2>1, ResetOutcome, OutcomeGood
<1>6. ASSUME NEW m \in ConMsg, ConFrame(m) PROVE Good(con)'
  <2>1. PICK f \in Fault : con' = OnFrame(con, m, Accepted(open, f, 1)).c
    BY <1>6 DEF ConFrame
  <2> QED
    BY <2>1, AcceptedBoolean, FrameOutcome, OutcomeGood
<1>7. CASE ConTick
  <2>1. PICK f \in Fault :
           con' = Tick(con, Accepted(open, f, 1),
                       Accepted(open, f, 1 + Len(TickRsp(con, Accepted(open, f, 1)).out))).c
    BY <1>7 DEF ConTick
  <2> QED
    BY <2>1, AcceptedBoolean, TickOutcome, OutcomeGood
<1>8. CASE WatchdogTimer
  <2> DEFINE c == IF ota = "QUIESCING" /\ phaseAge > quiesceTimeoutMs
                  THEN Reset(con).c ELSE con
  <2>1. PICK reopen \in BOOLEAN, f \in Fault :
           \/ con' = Connect(c, Accepted(open \/ reopen, f, 1)).c
           \/ con' = Outcome(c).c
    BY <1>8 DEF WatchdogTimer
  <2>2. Good(c)
    BY ResetOutcome, OutcomeGood
  <2> HIDE DEF c
  <2> QED
    BY <2>1, <2>2, AcceptedBoolean, ConnectOutcome, UnchangedOutcome, OutcomeGood
<1>9. CASE Elapse
  BY <1>9, ElapsedGood DEF Elapse
<1> QED
  BY <1>1, <1>2, <1>3, <1>4, <1>5, <1>6, <1>7, <1>8, <1>9 DEF Next, Command, Frame

\* Every field keeps its type, and the machine stays in order.
Typed == TypeOK /\ Good(con)

\* The ages and timeouts are natural numbers, and the idle machine is typed.
LEMMA TypedInit == Init => Typed
<1>1. Good(InitConSm)
  <2>1. InitConSm \in ConSmType
    BY TimingAssumption DEF InitConSm, ConSmType, State, CommState, Timer, Unarmed,
       Request, Response
  <2> QED
    BY <2>1 DEF InitConSm, Good, Loose, NoResidue, ReadyIffSession,
       NeverWaitsUntimed, Unarmed
<1> SUFFICES ASSUME Init PROVE Typed
  OBVIOUS
<1>2. Good(con) /\ con \in ConSmType
  BY <1>1 DEF Init, Good, Loose
<1>3. /\ EnAgeMax \in 0 .. EnAgeMax /\ conRetryMs \in 0 .. conRetryMs
      /\ 0 \in 0 .. PhaseAgeMax
  BY HostAssumption DEF EnAgeMax, PhaseAgeMax
<1> QED
  BY <1>2, <1>3 DEF Init, Typed, TypeOK, OtaState

\* The types other than the machine's, which are kept by every action.
Fields ==
    /\ open \in BOOLEAN /\ unread \in BOOLEAN
    /\ conns \subseteq Client
    /\ speedConn \in Client \cup {None}
    /\ moving \in BOOLEAN /\ userDisabled \in BOOLEAN
    /\ enAge \in 0 .. EnAgeMax
    /\ retryAge \in 0 .. conRetryMs
    /\ ota \in OtaState
    /\ phaseAge \in 0 .. PhaseAgeMax
    /\ child \in BOOLEAN
    /\ wire \in Enable \cup {None}
    /\ vel \in BOOLEAN

\* Writing frames never leaves the port, or the last CMD_EN, untyped.
LEMMA ClientFields ==
    ASSUME Fields, NEW c \in Client, ClientUp(c) \/ ClientDown(c) \/ Command(c)
    PROVE  Fields'
<1> USE DEF Fields, Quiet, update, drive, Enable
<1>0. 0 \in 0 .. EnAgeMax /\ 0 \in 0 .. PhaseAgeMax /\ {"NONE", "QUIESCING"} \subseteq OtaState
  BY HostAssumption DEF EnAgeMax, PhaseAgeMax, OtaState
<1>1. CASE ClientUp(c) \/ CmdSpeed(c) \/ CmdFlashAbort(c)
  BY <1>0, <1>1 DEF ClientUp, CmdSpeed, CmdFlashAbort
<1>2. CASE ClientDown(c)
  BY <1>2, OpenAfterBoolean DEF ClientDown
<1>3. CASE CmdStop(c)
  BY <1>3, OpenAfterBoolean, ZenonT(60) DEF CmdStop
<1>4. CASE CmdEnable(c)
  BY <1>0, <1>4, OpenAfterBoolean, ZenonT(60) DEF CmdEnable
<1>5. CASE CmdDisable(c)
  BY <1>5, OpenAfterBoolean, ZenonT(60) DEF CmdDisable
<1>6. CASE CmdFlash(c)
  BY <1>0, <1>6, OpenAfterBoolean DEF CmdFlash
<1> QED
  BY <1>1, <1>2, <1>3, <1>4, <1>5, <1>6 DEF Command

\* The same for the frames of the board.
LEMMA FrameFields ==
    ASSUME Fields, Frame
    PROVE  Fields'
<1> USE DEF Fields, StillHandling, Handling, update, drive, Enable
<1>0. 0 \in 0 .. EnAgeMax /\ 0 \in 0 .. PhaseAgeMax /\ {"NONE", "FLASHING"} \subseteq OtaState
  BY HostAssumption DEF EnAgeMax, PhaseAgeMax, OtaState
<1>1. CASE OtherFrame
  BY <1>1 DEF OtherFrame
<1>2. ASSUME NEW en \in {0, 1}, StatusFrame(en) PROVE Fields'
  BY <1>0, <1>2, OpenAfterBoolean, ZenonT(60) DEF StatusFrame, BeginFlasher
<1>3. ASSUME NEW m \in ConMsg, ConFrame(m) PROVE Fields'
  BY <1>0, <1>3, OpenAfterBoolean, ZenonT(60) DEF ConFrame, EnableOnReady
<1> QED
  BY <1>1, <1>2, <1>3 DEF Frame

\* The same for the timers, the child, the port and the time.
LEMMA TimerFields ==
    ASSUME Fields,
           ConTick \/ RepeatTimer \/ WatchdogTimer \/ ChildExit \/ PortLost \/ Elapse
    PROVE  Fields'
<1> USE DEF Fields, Quiet, update, drive, Enable
<1>0. /\ 0 \in 0 .. EnAgeMax /\ 0 \in 0 .. PhaseAgeMax
      /\ {"NONE", "FLASHING", "RECOVERING"} \subseteq OtaState
      /\ conRetryMs \in 0 .. conRetryMs /\ 0 \in 0 .. conRetryMs
      /\ conRetryMs \in Nat /\ EnAgeMax \in Nat /\ PhaseAgeMax \in Nat
  BY HostAssumption DEF EnAgeMax, PhaseAgeMax, OtaState
<1>1. CASE ConTick
  BY <1>1, OpenAfterBoolean, ZenonT(60) DEF ConTick
<1>2. CASE RepeatTimer
  BY <1>2, OpenAfterBoolean DEF RepeatTimer, Written, Accepted
<1>3. CASE WatchdogTimer
  <2>1. PICK reopen \in BOOLEAN, started \in BOOLEAN, f \in Fault :
           /\ \E n : open' = OpenAfter(open \/ reopen, f, n)
           /\ ota' \in {"FLASHING", "NONE", ota}
           /\ child' \in BOOLEAN
           /\ phaseAge' \in {0, phaseAge}
           /\ retryAge' \in {0, conRetryMs, retryAge}
    BY <1>3 DEF WatchdogTimer
  <2>2. Quiet /\ UNCHANGED <<drive, userDisabled, enAge, wire>>
    BY <1>3 DEF WatchdogTimer
  <2> QED
    BY <1>0, <2>1, <2>2, OpenAfterBoolean
<1>4. CASE ChildExit
  BY <1>0, <1>4 DEF ChildExit
<1>5. CASE PortLost
  BY <1>5 DEF PortLost
<1>6. CASE Elapse
  <2>1. enAge' \in 0 .. EnAgeMax
    BY <1>0, <1>6 DEF Elapse
  <2>2. retryAge' \in 0 .. conRetryMs
    BY <1>0, <1>6 DEF Elapse
  <2>3. phaseAge' \in 0 .. PhaseAgeMax
    BY <1>0, <1>6 DEF Elapse
  <2>4. Quiet /\ UNCHANGED <<open, drive, userDisabled, ota, child, wire>>
    BY <1>6 DEF Elapse
  <2> QED
    BY <2>1, <2>2, <2>3, <2>4
<1> QED
  BY <1>1, <1>2, <1>3, <1>4, <1>5, <1>6

\* Typed is inductive.
LEMMA TypedNext == Typed /\ [Next]_vars => Typed'
<1> SUFFICES ASSUME Typed, [Next]_vars PROVE Typed'
  OBVIOUS
<1>1. Fields /\ Good(con) /\ open \in BOOLEAN
  BY DEF Typed, TypeOK, Fields
<1>2. CASE Next
  <2>1. Good(con)'
    BY <1>1, <1>2, SessionGood
  <2>2. ASSUME NEW c \in Client, ClientUp(c) \/ ClientDown(c) \/ Command(c)
        PROVE  Fields'
    BY <1>1, <2>2, ClientFields
  <2>3. Fields'
    BY <1>1, <1>2, <2>2, FrameFields, TimerFields DEF Next
  <2> QED
    BY <2>1, <2>3 DEF Typed, TypeOK, Fields, Good, Loose
<1>3. CASE UNCHANGED vars
  <2>1. UNCHANGED con /\ Good(con)'
    BY <1>1, <1>3 DEF vars
  <2> QED
    BY <1>1, <1>3, <2>1 DEF vars, Typed, TypeOK, Good, Loose
<1> QED
  BY <1>2, <1>3

\* The state of the host keeps its types, for any clients and timeouts.
THEOREM TypesHold == Spec => []TypeOK
<1>1. Typed => TypeOK
  BY DEF Typed
<1> QED
  BY <1>1, TypedInit, TypedNext, PTL DEF Spec

\* While the board is being flashed no handshake is started: the commands
\* that could are refused, the watchdog holds back, and a frame or a tick
\* does not turn a closed session into a request.
THEOREM SilentWhileFlashingHolds == Spec => SilentWhileFlashing
<1> DEFINE Flashing == ota = "FLASHING" /\ ota' = "FLASHING" /\ con.state = "DISCONNECTED"
           Silent == Flashing => con'.state # "CONNECTING"
<1>1. ASSUME Typed, Next, Flashing PROVE con'.state # "CONNECTING"
  <2>0. Good(con) /\ open \in BOOLEAN
    BY <1>1 DEF Typed, TypeOK
  <2>1. ASSUME NEW c \in Client, ClientUp(c) \/ ClientDown(c) \/ Command(c)
        PROVE  con'.state # "CONNECTING"
    <3>1. CASE CmdEnable(c) \/ CmdDisable(c)
      BY <1>1, <3>1 DEF CmdEnable, CmdDisable, otaBusy
    <3>2. CASE ClientUp(c) \/ ClientDown(c) \/ CmdSpeed(c) \/ CmdStop(c)
                 \/ CmdFlash(c) \/ CmdFlashAbort(c)
      BY <1>1, <3>2
      DEF ClientUp, ClientDown, CmdSpeed, CmdStop, CmdFlash, CmdFlashAbort
    <3> QED
      BY <2>1, <3>1, <3>2 DEF Command
  <2>2. CASE OtherFrame \/ RepeatTimer \/ ChildExit \/ PortLost
    BY <1>1, <2>2 DEF OtherFrame, RepeatTimer, ChildExit, PortLost
  <2>3. ASSUME NEW en \in {0, 1}, StatusFrame(en) PROVE con'.state # "CONNECTING"
    BY <1>1, <2>3 DEF StatusFrame
  <2>4. ASSUME NEW m \in ConMsg, ConFrame(m) PROVE con'.state # "CONNECTING"
    <3>1. PICK f \in Fault : con' = OnFrame(con, m, Accepted(open, f, 1)).c
      BY <2>4 DEF ConFrame
    <3>2. con' = con \/ Ended(con') \/ Live(con') \/ Refreshed(con, con')
      BY <2>0, <3>1, AcceptedBoolean, FrameOutcome
    <3> QED
      BY <1>1, <3>2 DEF Ended, Live, Refreshed
  <2>5. CASE ConTick
    <3>1. PICK f \in Fault :
             con' = Tick(con, Accepted(open, f, 1),
                         Accepted(open, f, 1 + Len(TickRsp(con, Accepted(open, f, 1)).out))).c
      BY <2>5 DEF ConTick
    <3>2. Ended(con') \/ Ticked(con, con')
      BY <2>0, <3>1, AcceptedBoolean, TickOutcome
    <3> QED
      BY <1>1, <3>2 DEF Ended, Ticked
  <2>6. CASE WatchdogTimer
    <3>1. con' = Outcome(con).c
      BY <1>1, <2>6 DEF WatchdogTimer, ReconnectDue
    <3> QED
      BY <1>1, <3>1, UnchangedOutcome
  <2>7. CASE Elapse
    BY <1>1, <2>0, <2>7 DEF Elapse, Elapsed, Good, Loose, ConSmType
  <2> QED
    BY <1>1, <2>1, <2>2, <2>3, <2>4, <2>5, <2>6, <2>7 DEF Next, Frame
<1>2. ASSUME Typed, [Next]_vars PROVE [Silent]_vars
  BY <1>1, <1>2
<1> QED
  BY <1>2, TypedInit, TypedNext, PTL DEF Spec, SilentWhileFlashing

=============================================================================
