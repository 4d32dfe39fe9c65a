------------------------- MODULE ChassisClients_proofs -------------------------
(***************************************************************************)
(* Whom the host tells what, for any number of clients, every timeout and  *)
(* every time a ping takes.                                                *)
(*                                                                         *)
(* The invariant ties what the host keeps for itself (pingConn, otaConn)   *)
(* to what its clients know of (asked, awaits).                            *)
(***************************************************************************)
EXTENDS ChassisClients, TLAPS

-----------------------------------------------------------------------------
(* The inductive invariant, in the parts that are disturbed together.      *)

LinksInv ==
    conns \subseteq Client /\ closing \subseteq conns /\ watchers \subseteq conns

PingTyped ==
    /\ pingConn \in conns \cup {None}
    /\ pingAge \in 0 .. MaxEcho + 1 /\ echoes \subseteq 0 .. MaxEcho
    /\ asked \in [Client -> -1 .. MaxEcho]

\* The ping that is remembered is the last of its client.
PingOwed == pingConn # None /\ pingAge <= MaxEcho => asked[pingConn] = pingAge

PingInv == PingTyped /\ PingOwed

\* The connection that is remembered for an update waits for its result; any
\* other that still waits has said quit.
UpdateInv ==
    /\ ota \in {"NONE", "QUIESCING", "FLASHING", "RECOVERING"}
    /\ phaseAge \in 0 .. PhaseAgeMax
    /\ otaConn \in conns \cup {None}
    /\ ota = "NONE" => otaConn = None
    /\ awaits \subseteq conns
    /\ otaConn # None => otaConn \in awaits
    /\ awaits \subseteq closing \cup {otaConn}

AlarmInv ==
    /\ silence \in -1 .. rxTimeoutMs + 1
    /\ {open, unread, warned, reported} \subseteq BOOLEAN

IInv == LinksInv /\ PingInv /\ UpdateInv /\ AlarmInv

\* What ToldIsOwed says of a step.
Owed ==
    \A m \in told' :
        /\ m.what = "pong" => m.age = asked[m.to]
        /\ m.what \in {"progress", "result"} => m.to \in awaits

LEMMA InvIsTyped == IInv => TypeOK
BY DEF IInv, TypeOK, LinksInv, PingInv, PingTyped, UpdateInv, AlarmInv

LEMMA Bounds ==
    /\ 0 \in 0 .. PhaseAgeMax /\ PhaseAgeMax \in Nat
    /\ 0 \in -1 .. rxTimeoutMs + 1 /\ -1 \in -1 .. rxTimeoutMs + 1
    /\ 0 \in 0 .. MaxEcho + 1 /\ 0 \in 0 .. MaxEcho
    /\ 0 \in -1 .. MaxEcho /\ -1 \in -1 .. MaxEcho
BY ClientsAssumption DEF PhaseAgeMax

LEMMA OlderBounded ==
    ASSUME NEW max \in Nat, NEW age \in 0 .. max
    PROVE  Older(age, max) \in 0 .. max /\ Older(age, max) <= age + 1
           /\ (age < max => Older(age, max) = age + 1)
BY DEF Older

-----------------------------------------------------------------------------
(* What leaves a part alone, and what an update does to its part.          *)

LEMMA PingAside ==
    ASSUME PingInv, UNCHANGED <<conns, ping>>
    PROVE  PingInv'
BY DEF PingInv, PingTyped, PingOwed, ping

LEMMA UpdateAside ==
    ASSUME UpdateInv, UNCHANGED <<conns, closing, update>>
    PROVE  UpdateInv'
BY DEF UpdateInv, update, PhaseAgeMax

\* A message to the connection of the update is owed to it, if it goes out.
LEMMA StarterOwed ==
    ASSUME LinksInv, UpdateInv, NEW what \in {"progress", "result"},
           told' = Send(otaConn, what, 0)
    PROVE  Owed
<1> SUFFICES ASSUME NEW m \in told'
             PROVE  /\ m.what = "pong" => m.age = asked[m.to]
                    /\ m.what \in {"progress", "result"} => m.to \in awaits
  BY DEF Owed
<1>1. otaConn \in conns \ closing /\ m = [to |-> otaConn, what |-> what, age |-> 0]
  BY DEF Send, Message
<1>2. otaConn \in awaits
  BY <1>1, ClientsAssumption DEF UpdateInv, LinksInv
<1>3. m.to = otaConn /\ m.what # "pong"
  BY <1>1
<1> QED
  BY <1>2, <1>3

LEMMA FinishKeeps ==
    ASSUME LinksInv, UpdateInv, Finish, UNCHANGED <<conns, closing>>
    PROVE  UpdateInv' /\ Owed
<1>1. /\ told' = Send(otaConn, "result", 0)
      /\ ota' = "NONE" /\ phaseAge' = 0 /\ otaConn' = None
      /\ awaits' = awaits \ {m.to : m \in told'}
  BY DEF Finish
<1>2. awaits' \subseteq closing
  <2>1. CASE otaConn \in conns \ closing
    <3>1. told' = {[to |-> otaConn, what |-> "result", age |-> 0]}
      BY <1>1, <2>1 DEF Send, Message
    <3>2. {m.to : m \in told'} = {otaConn}
      BY <3>1
    <3> QED
      BY <1>1, <3>2 DEF UpdateInv
  <2>2. CASE otaConn \notin conns \ closing
    BY <1>1, <2>2 DEF UpdateInv
  <2> QED
    BY <2>1, <2>2
<1>3. awaits' \subseteq conns
  BY <1>1 DEF UpdateInv
<1> QED
  BY <1>1, <1>2, <1>3, StarterOwed, Bounds DEF UpdateInv, PhaseAgeMax

LEMMA EnterKeeps ==
    ASSUME LinksInv, UpdateInv, NEW phase \in {"FLASHING", "RECOVERING"}, Enter(phase),
           UNCHANGED <<conns, closing>>
    PROVE  UpdateInv' /\ Owed
<1>1. /\ told' = Send(otaConn, "progress", 0)
      /\ ota' = phase /\ phaseAge' = 0
      /\ UNCHANGED <<otaConn, awaits>>
  BY DEF Enter, Progress
<1> QED
  BY <1>1, StarterOwed, Bounds DEF UpdateInv, PhaseAgeMax

LEMMA BeginKeeps ==
    ASSUME LinksInv, UpdateInv, Begin, UNCHANGED <<conns, closing>>
    PROVE  UpdateInv' /\ Owed
BY FinishKeeps, EnterKeeps DEF Begin

LEMMA MuteOwed == Mute => Owed
BY DEF Mute, Owed

LEMMA PortTyped ==
    ASSUME AlarmInv, NEW o \in BOOLEAN, MayClose(o)
    PROVE  open' \in BOOLEAN
BY DEF MayClose

-----------------------------------------------------------------------------
(* The steps.                                                              *)

LEMMA InitKeeps == Init => IInv
<1> SUFFICES ASSUME Init PROVE IInv
  OBVIOUS
<1>1. LinksInv /\ UpdateInv
  BY Bounds DEF Init, LinksInv, UpdateInv
<1>2. PingInv
  BY Bounds, ClientsAssumption DEF Init, PingInv, PingTyped, PingOwed, Unasked
<1>3. AlarmInv
  BY Bounds DEF Init, AlarmInv, Never
<1> QED
  BY <1>1, <1>2, <1>3 DEF IInv

LEMMA ClientUpKeeps ==
    ASSUME IInv, NEW c \in Client, ClientUp(c)
    PROVE  IInv' /\ Owed
<1>1. /\ conns' = conns \cup {c} /\ Mute /\ unread' = FALSE
      /\ UNCHANGED <<closing, watchers, ping, update, open, alarm>>
  BY DEF ClientUp, NoFrames
<1>2. LinksInv'
  BY <1>1 DEF IInv, LinksInv
<1>3. PingInv'
  BY <1>1 DEF IInv, PingInv, PingTyped, PingOwed, ping
<1>4. UpdateInv'
  BY <1>1 DEF IInv, UpdateInv, update, PhaseAgeMax
<1>5. AlarmInv'
  BY <1>1 DEF IInv, AlarmInv, alarm
<1> QED
  BY <1>1, <1>2, <1>3, <1>4, <1>5, MuteOwed DEF IInv

LEMMA ClientDownKeeps ==
    ASSUME IInv, NEW c \in Client, ClientDown(c)
    PROVE  IInv' /\ Owed
<1>1. /\ conns' = conns \ {c} /\ closing' = closing \ {c}
      /\ watchers' = watchers \ {c}
      /\ pingConn' = IF pingConn = c THEN None ELSE pingConn
      /\ otaConn' = IF otaConn = c THEN None ELSE otaConn
      /\ asked' = [asked EXCEPT ![c] = Unasked]
      /\ awaits' = awaits \ {c}
      /\ MayClose(open) /\ Mute /\ unread' = FALSE
      /\ UNCHANGED <<pingAge, echoes, ota, phaseAge, alarm>>
  BY DEF ClientDown, Watching, StarterWithout, NoFrames
<1>2. LinksInv'
  BY <1>1 DEF IInv, LinksInv
<1>3. PingInv'
  <2>1. PingTyped'
    BY <1>1, Bounds DEF IInv, PingInv, PingTyped, Unasked
  <2>2. ASSUME pingConn' # None PROVE asked'[pingConn'] = asked[pingConn]
    BY <1>1, <2>2, ClientsAssumption DEF IInv, PingInv, PingTyped, LinksInv
  <2> QED
    BY <1>1, <2>1, <2>2 DEF IInv, PingInv, PingOwed
<1>4. UpdateInv'
  BY <1>1, ClientsAssumption DEF IInv, UpdateInv, PhaseAgeMax
<1>5. AlarmInv'
  BY <1>1, PortTyped DEF IInv, AlarmInv, alarm
<1> QED
  BY <1>1, <1>2, <1>3, <1>4, <1>5, MuteOwed DEF IInv

LEMMA CmdPingKeeps ==
    ASSUME IInv, NEW c \in Client, CmdPing(c)
    PROVE  IInv' /\ Owed
<1>1. /\ c \in conns /\ pingConn' = c /\ pingAge' = 0
      /\ asked' = [asked EXCEPT ![c] = 0]
      /\ MayClose(open) /\ (echoes' = echoes \cup {0} \/ echoes' = echoes)
      /\ Mute /\ unread' = FALSE
      /\ UNCHANGED <<links, update, alarm>>
  BY DEF CmdPing, NoFrames
<1>2. LinksInv' /\ UpdateInv'
  BY <1>1, UpdateAside DEF IInv, LinksInv, links
<1>3. PingInv'
  <2>1. PingTyped'
    BY <1>1, Bounds DEF IInv, PingInv, PingTyped, links
  <2>2. asked'[pingConn'] = 0
    BY <1>1 DEF IInv, PingInv, PingTyped
  <2> QED
    BY <1>1, <2>1, <2>2 DEF PingInv, PingOwed
<1>4. AlarmInv'
  BY <1>1, PortTyped DEF IInv, AlarmInv, alarm
<1> QED
  BY <1>1, <1>2, <1>3, <1>4, MuteOwed DEF IInv

\* The other commands.
LEMMA CommandKeeps ==
    ASSUME IInv, NEW c \in Client, Command(c)
    PROVE  IInv' /\ Owed
<1>1. CASE CmdPing(c)
  BY <1>1, CmdPingKeeps
<1>2. CASE CmdWatch(c)
  <2>1. /\ c \in conns /\ watchers' \in {watchers \cup {c}, watchers \ {c}}
        /\ Mute /\ unread' = FALSE
        /\ UNCHANGED <<conns, closing, ping, update, open, alarm>>
    BY <1>2 DEF CmdWatch, NoFrames
  <2>2. LinksInv' /\ PingInv' /\ UpdateInv'
    BY <2>1, PingAside, UpdateAside DEF IInv, LinksInv
  <2>3. AlarmInv'
    BY <2>1 DEF IInv, AlarmInv, alarm
  <2> QED
    BY <2>1, <2>2, <2>3, MuteOwed DEF IInv
<1>3. CASE CmdQuit(c)
  <2>1. /\ c \in conns /\ closing' = closing \cup {c} /\ Mute /\ unread' = FALSE
        /\ UNCHANGED <<conns, watchers, ping, update, open, alarm>>
    BY <1>3 DEF CmdQuit, NoFrames
  <2>2. LinksInv' /\ PingInv'
    BY <2>1, PingAside DEF IInv, LinksInv
  <2>3. UpdateInv'
    BY <2>1 DEF IInv, UpdateInv, update, PhaseAgeMax
  <2>4. AlarmInv'
    BY <2>1 DEF IInv, AlarmInv, alarm
  <2> QED
    BY <2>1, <2>2, <2>3, <2>4, MuteOwed DEF IInv
<1>4. CASE CmdFlash(c)
  <2>1. /\ c \in conns /\ ota = "NONE"
        /\ ota' = "QUIESCING" /\ phaseAge' = 0 /\ otaConn' = c
        /\ awaits' = awaits \cup {c}
        /\ MayClose(open) /\ Mute /\ unread' = FALSE
        /\ UNCHANGED <<links, ping, alarm>>
    BY <1>4 DEF CmdFlash, NoFrames
  <2>2. LinksInv' /\ PingInv'
    BY <2>1, PingAside DEF IInv, LinksInv, links
  <2>3. UpdateInv'
    <3>1. awaits \subseteq closing
      BY <2>1, ClientsAssumption DEF IInv, UpdateInv, LinksInv
    <3> QED
      BY <2>1, <3>1, Bounds DEF IInv, UpdateInv, links, PhaseAgeMax
  <2>4. AlarmInv'
    BY <2>1, PortTyped DEF IInv, AlarmInv, alarm
  <2> QED
    BY <2>1, <2>2, <2>3, <2>4, MuteOwed DEF IInv
<1>5. CASE CmdFlashAbort(c)
  <2>1. Finish /\ unread' = FALSE /\ UNCHANGED <<links, ping, open, alarm>>
    BY <1>5 DEF CmdFlashAbort, NoFrames
  <2>2. LinksInv' /\ PingInv' /\ UpdateInv' /\ Owed
    BY <2>1, PingAside, FinishKeeps DEF IInv, LinksInv, links
  <2>3. AlarmInv'
    BY <2>1 DEF IInv, AlarmInv, alarm
  <2> QED
    BY <2>2, <2>3 DEF IInv
<1>6. CASE CmdWrite(c)
  <2>1. /\ open' = FALSE /\ Mute /\ unread' = FALSE
        /\ UNCHANGED <<links, ping, update, alarm>>
    BY <1>6 DEF CmdWrite, NoFrames
  <2>2. LinksInv' /\ PingInv' /\ UpdateInv'
    BY <2>1, PingAside, UpdateAside DEF IInv, LinksInv, links
  <2>3. AlarmInv'
    BY <2>1 DEF IInv, AlarmInv, alarm
  <2> QED
    BY <2>1, <2>2, <2>3, MuteOwed DEF IInv
<1> QED
  BY <1>1, <1>2, <1>3, <1>4, <1>5, <1>6 DEF Command

LEMMA HandleTyped ==
    ASSUME AlarmInv, Handle
    PROVE  AlarmInv'
<1>1. /\ silence' = 0 /\ reported' = FALSE /\ warned' = FALSE
      /\ MayClose(open) /\ unread' = ~open'
  BY DEF Handle, Heard
<1>2. open' \in BOOLEAN
  BY <1>1, PortTyped DEF AlarmInv
<1> QED
  BY <1>1, <1>2, Bounds DEF AlarmInv

\* Frames of the board: a pong is owed because the ping that is remembered is
\* the last of its client.
LEMMA FrameKeeps ==
    ASSUME IInv, Frame
    PROVE  IInv' /\ Owed
<1>1. ASSUME Handle PROVE LinksInv' /\ AlarmInv' /\ UNCHANGED <<conns, closing>>
  BY <1>1, HandleTyped DEF IInv, LinksInv, Handle, links
<1>2. CASE OtherFrame
  BY <1>1, <1>2, PingAside, UpdateAside, MuteOwed DEF OtherFrame, IInv
<1>3. CASE DisabledFrame
  BY <1>1, <1>3, PingAside, BeginKeeps DEF DisabledFrame, IInv
<1>4. CASE ReadyFrame
  BY <1>1, <1>4, PingAside, FinishKeeps DEF ReadyFrame, IInv
<1>5. ASSUME NEW age \in echoes, EchoFrame(age) PROVE IInv' /\ Owed
  <2>1. /\ Handle /\ echoes' = echoes \ {age}
        /\ UNCHANGED <<pingAge, update>>
    BY <1>5 DEF EchoFrame
  <2>2. LinksInv' /\ AlarmInv' /\ UNCHANGED <<conns, closing>> /\ UpdateInv'
    BY <1>1, <2>1, UpdateAside DEF IInv
  <2>3. CASE IsAnswer(age)
    <3>1. /\ told' = Send(pingConn, "pong", age)
          /\ asked' = [asked EXCEPT ![pingConn] = Unasked]
          /\ pingConn' = None
      BY <1>5, <2>3 DEF EchoFrame
    <3>2. PingInv'
      BY <2>1, <2>2, <3>1, Bounds DEF IInv, PingInv, PingTyped, PingOwed, Unasked
    <3>3. asked[pingConn] = age
      <4>1. pingConn # None /\ age = pingAge /\ pingAge \in 0 .. MaxEcho
        BY <2>3 DEF IsAnswer, IInv, PingInv, PingTyped
      <4> QED
        BY <4>1, ClientsAssumption DEF IInv, PingInv, PingOwed
    <3>4. Owed
      <4> SUFFICES ASSUME NEW m \in told'
                   PROVE  /\ m.what = "pong" => m.age = asked[m.to]
                          /\ m.what \in {"progress", "result"} => m.to \in awaits
        BY DEF Owed
      <4>1. m = [to |-> pingConn, what |-> "pong", age |-> age]
        BY <3>1 DEF Send, Message
      <4> QED
        BY <3>3, <4>1
    <3> QED
      BY <2>2, <3>2, <3>4 DEF IInv
  <2>4. CASE ~IsAnswer(age)
    <3>1. Mute /\ UNCHANGED <<asked, pingConn>>
      BY <1>5, <2>4 DEF EchoFrame
    <3>2. PingInv'
      BY <2>1, <2>2, <3>1 DEF IInv, PingInv, PingTyped, PingOwed
    <3> QED
      BY <2>2, <3>1, <3>2, MuteOwed DEF IInv
  <2> QED
    BY <2>3, <2>4
<1> QED
  BY <1>2, <1>3, <1>4, <1>5 DEF Frame

LEMMA ChildKeeps ==
    ASSUME IInv, ChildLine \/ ChildExit
    PROVE  IInv' /\ Owed
<1>1. unread' = FALSE /\ UNCHANGED <<links, ping, open, alarm>>
  BY DEF ChildLine, ChildExit, NoFrames
<1>2. LinksInv' /\ PingInv' /\ AlarmInv' /\ UNCHANGED <<conns, closing>>
  <2>1. AlarmInv'
    BY <1>1 DEF IInv, AlarmInv, alarm
  <2> QED
    BY <1>1, <2>1, PingAside DEF IInv, LinksInv, links
<1>3. CASE ChildLine
  <2>1. told' = Send(otaConn, "progress", 0) /\ UNCHANGED update
    BY <1>3 DEF ChildLine, Progress
  <2> QED
    BY <1>2, <2>1, UpdateAside, StarterOwed DEF IInv
<1>4. CASE ChildExit
  <2>1. Enter("RECOVERING") \/ Finish
    BY <1>4 DEF ChildExit
  <2> QED
    BY <1>2, <2>1, EnterKeeps, FinishKeeps DEF IInv
<1> QED
  BY <1>3, <1>4

LEMMA PublishKeeps ==
    ASSUME IInv, Publish
    PROVE  IInv' /\ Owed
<1>1. /\ told' = UNION {Send(c, "telemetry", 0) : c \in watchers}
      /\ unread' = FALSE /\ UNCHANGED <<links, ping, update, open, alarm>>
  BY DEF Publish, NoFrames
<1>2. Owed
  <2> SUFFICES ASSUME NEW m \in told'
               PROVE  m.what \notin {"pong", "progress", "result"}
    BY DEF Owed
  <2>1. PICK c \in watchers : m \in Send(c, "telemetry", 0)
    BY <1>1
  <2>2. m = [to |-> c, what |-> "telemetry", age |-> 0]
    BY <2>1 DEF Send, Message
  <2> QED
    BY <2>2
<1>3. LinksInv' /\ PingInv' /\ UpdateInv'
  BY <1>1, PingAside, UpdateAside DEF IInv, LinksInv, links
<1>4. AlarmInv'
  BY <1>1 DEF IInv, AlarmInv, alarm
<1> QED
  BY <1>2, <1>3, <1>4 DEF IInv

LEMMA WatchdogKeeps ==
    ASSUME IInv, WatchdogTimer
    PROVE  IInv' /\ Owed
<1>1. PICK o \in {open, TRUE} :
       /\ \/ Begin \/ Finish
          \/ Mute /\ UNCHANGED update
       /\ \E warn \in BOOLEAN :
             warned' = (warned \/ warn) /\ reported' = (reported \/ warn)
       /\ MayClose(o) /\ unread' = FALSE
       /\ UNCHANGED <<links, ping, silence>>
  <2>1. PICK o \in {open, TRUE} :
           /\ IF ota = "QUIESCING" /\ phaseAge > quiesceTimeoutMs THEN Begin
              ELSE IF ota = "RECOVERING" /\ phaseAge > recoverTimeoutMs THEN Finish
              ELSE Mute /\ UNCHANGED update
           /\ LET warn == /\ ota' = "NONE" /\ o
                          /\ silence > rxTimeoutMs
                          /\ ~warned
              IN  warned' = (warned \/ warn) /\ reported' = (reported \/ warn)
           /\ MayClose(o) /\ NoFrames
           /\ UNCHANGED <<links, ping, silence>>
    BY DEF WatchdogTimer
  <2> DEFINE warn == /\ ota' = "NONE" /\ o
                     /\ silence > rxTimeoutMs
                     /\ ~warned
  <2>2. warned' = (warned \/ warn) /\ reported' = (reported \/ warn)
    BY <2>1
  <2>3. \E w \in BOOLEAN : warned' = (warned \/ w) /\ reported' = (reported \/ w)
    <3>1. warn \in BOOLEAN
      BY DEF warn
    <3> HIDE DEF warn
    <3> QED
      BY <2>2, <3>1, Zenon
  <2> QED
    BY <2>1, <2>3, Zenon DEF NoFrames
<1>2. LinksInv' /\ PingInv' /\ UNCHANGED <<conns, closing>>
  BY <1>1, PingAside DEF IInv, LinksInv, links
<1>3. UpdateInv' /\ Owed
  BY <1>1, <1>2, BeginKeeps, FinishKeeps, UpdateAside, MuteOwed DEF IInv
<1>4. AlarmInv'
  <2>1. open' \in BOOLEAN
    BY <1>1, PortTyped DEF IInv, AlarmInv
  <2>2. warned' \in BOOLEAN /\ reported' \in BOOLEAN
    BY <1>1, Zenon
  <2> QED
    BY <1>1, <2>1, <2>2 DEF IInv, AlarmInv
<1> QED
  BY <1>2, <1>3, <1>4 DEF IInv

LEMMA LossKeeps ==
    ASSUME IInv, PortLost \/ \E age \in echoes : LoseEcho(age)
    PROVE  IInv' /\ Owed
<1>1. /\ Mute /\ unread' = FALSE /\ open' \in {open, FALSE}
      /\ echoes' \subseteq echoes
      /\ UNCHANGED <<links, pingConn, pingAge, asked, update, alarm>>
  BY DEF PortLost, LoseEcho, NoFrames, ping
<1>2. LinksInv' /\ UpdateInv'
  BY <1>1, UpdateAside DEF IInv, LinksInv, links
<1>3. PingInv'
  BY <1>1 DEF IInv, PingInv, PingTyped, PingOwed, links
<1>4. AlarmInv'
  BY <1>1 DEF IInv, AlarmInv, alarm
<1> QED
  BY <1>1, <1>2, <1>3, <1>4, MuteOwed DEF IInv

\* Time passes: the ping that is remembered and the client's own grow older
\* together, until both are past MaxEcho.
LEMMA ElapseKeeps ==
    ASSUME IInv, Elapse
    PROVE  IInv' /\ Owed
<1>1. /\ pingAge' = Older(pingAge, MaxEcho + 1)
      /\ echoes' = {age + 1 : age \in echoes \ {MaxEcho}}
      /\ asked' = [c \in Client |-> IF asked[c] \in {Unasked, MaxEcho} THEN Unasked
                                    ELSE asked[c] + 1]
      /\ phaseAge' = IF ota \in {"QUIESCING", "RECOVERING"}
                     THEN Older(phaseAge, PhaseAgeMax) ELSE phaseAge
      /\ silence' = IF silence = Never THEN Never ELSE Older(silence, rxTimeoutMs + 1)
      /\ Mute /\ unread' = FALSE
      /\ UNCHANGED <<links, pingConn, ota, otaConn, awaits, open, warned, reported>>
  BY DEF Elapse, NoFrames
<1>2. LinksInv'
  BY <1>1 DEF IInv, LinksInv, links
<1>3. PingTyped /\ MaxEcho \in Nat
  BY ClientsAssumption DEF IInv, PingInv
<1>4. /\ pingAge' \in 0 .. MaxEcho + 1
      /\ pingAge' <= MaxEcho => pingAge' = pingAge + 1 /\ pingAge < MaxEcho
  <2> DEFINE max == MaxEcho + 1
  <2>1. max \in Nat /\ pingAge \in 0 .. max /\ pingAge' = Older(pingAge, max)
    BY <1>1, <1>3 DEF PingTyped
  <2>2. /\ pingAge' \in 0 .. max
        /\ pingAge < max => pingAge' = pingAge + 1
    BY <2>1, OlderBounded
  <2>3. ~(pingAge < max) => pingAge' = pingAge
    BY <2>1 DEF Older
  <2> QED
    BY <1>3, <2>1, <2>2, <2>3
<1>5. PingTyped'
  <2>1. echoes' \subseteq 0 .. MaxEcho
    BY <1>1, <1>3 DEF PingTyped
  <2>2. \A c \in Client : asked[c] \in -1 .. MaxEcho
    BY <1>3 DEF PingTyped
  <2>3. asked' \in [Client -> -1 .. MaxEcho]
    BY <1>1, <1>3, <2>2 DEF Unasked
  <2> QED
    BY <1>1, <1>3, <1>4, <2>1, <2>3 DEF PingTyped, links
<1>6. PingOwed'
  <2> SUFFICES ASSUME pingConn # None, pingAge' <= MaxEcho
               PROVE  asked'[pingConn] = pingAge'
    BY <1>1 DEF PingOwed
  <2>1. pingAge' = pingAge + 1 /\ pingAge < MaxEcho /\ pingAge \in Nat
    BY <1>3, <1>4 DEF PingTyped
  <2>2. asked[pingConn] = pingAge
    BY <1>3, <2>1 DEF IInv, PingInv, PingOwed
  <2>3. pingConn \in Client
    BY <1>3 DEF PingTyped, IInv, LinksInv
  <2> QED
    BY <1>1, <1>3, <2>1, <2>2, <2>3 DEF Unasked
<1>7. UpdateInv'
  <2>1. phaseAge' \in 0 .. PhaseAgeMax
    BY <1>1, Bounds, OlderBounded DEF IInv, UpdateInv
  <2> QED
    BY <1>1, <2>1 DEF IInv, UpdateInv, links, PhaseAgeMax
<1>8. AlarmInv'
  <2>1. silence' \in -1 .. rxTimeoutMs + 1
    <3>1. CASE silence = Never
      BY <1>1, <3>1, Bounds DEF Never
    <3>2. CASE silence # Never
      <4>1. silence \in 0 .. rxTimeoutMs + 1 /\ rxTimeoutMs + 1 \in Nat
        BY <3>2, ClientsAssumption DEF IInv, AlarmInv, Never
      <4>2. silence' \in 0 .. rxTimeoutMs + 1
        BY <1>1, <3>2, <4>1, OlderBounded
      <4> QED
        BY <4>2, ClientsAssumption
    <3> QED
      BY <3>1, <3>2
  <2> QED
    BY <1>1, <2>1 DEF IInv, AlarmInv
<1> QED
  BY <1>1, <1>2, <1>5, <1>6, <1>7, <1>8, MuteOwed DEF IInv, PingInv

LEMMA NextKeeps ==
    ASSUME IInv, Next
    PROVE  IInv' /\ Owed
<1>1. ASSUME NEW c \in Client, ClientUp(c) \/ ClientDown(c) \/ Command(c)
      PROVE  IInv' /\ Owed
  BY <1>1, ClientUpKeeps, ClientDownKeeps, CommandKeeps
<1> QED
  BY <1>1, FrameKeeps, ChildKeeps, PublishKeeps, WatchdogKeeps, LossKeeps, ElapseKeeps
     DEF Next

LEMMA InvariantInductive == Spec => []IInv
<1>1. IInv /\ UNCHANGED vars => IInv'
  BY DEF vars, IInv, LinksInv, PingInv, PingTyped, PingOwed, UpdateInv, AlarmInv, PhaseAgeMax
<1>2. IInv /\ [Next]_vars => IInv'
  BY <1>1, NextKeeps
<1> QED
  BY <1>2, InitKeeps, PTL DEF Spec

-----------------------------------------------------------------------------
(* What follows from it.                                                   *)

\* TypeOK holds: no connection that is gone is kept anywhere.
THEOREM TypesHold == Spec => []TypeOK
BY InvIsTyped, InvariantInductive, PTL

\* ResultIsTold holds: whoever ends an update, and however, only a client that
\* has said quit still waits for the result of it.
THEOREM ResultIsToldHolds == Spec => []ResultIsTold
<1>1. IInv => ResultIsTold
  BY ClientsAssumption DEF IInv, LinksInv, UpdateInv, ResultIsTold
<1> QED
  BY <1>1, InvariantInductive, PTL

\* ToldIsOwed holds: pongs, progress and results go to those they are meant for.
THEOREM ToldIsOwedHolds == Spec => ToldIsOwed
<1>1. IInv /\ [Next]_vars => [Owed]_vars
  BY NextKeeps
<1>2. IInv /\ [Next]_vars => [\A m \in told' :
          /\ m.what = "pong" => m.age = asked[m.to]
          /\ m.what \in {"progress", "result"} => m.to \in awaits]_vars
  BY <1>1 DEF Owed
<1> QED
  BY <1>2, InvariantInductive, PTL DEF Spec, ToldIsOwed

================================================================================
