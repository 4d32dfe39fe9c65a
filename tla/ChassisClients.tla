---------------------------- MODULE ChassisClients ----------------------------
(***************************************************************************)
(* What app/ChassisHost tells its TCP clients: telemetry to those that     *)
(* watch, the answer of a ping, the progress and the result of an update   *)
(* to the client that started it, and the warning that the board is        *)
(* silent.                                                                 *)
(*                                                                         *)
(* What the host does to the board is the subject of ChassisHost; here its *)
(* writes only count because any of them may close the port.  A client     *)
(* that comes back is a new connection.  Replies to the sender of a        *)
(* command, and broadcasts other than the warning, are left out.           *)
(***************************************************************************)
EXTENDS Integers

CONSTANTS
    Client,             \* the TCP connections that can exist at once
    None,
    rxTimeoutMs,        \* HostOptions, in units of time
    quiesceTimeoutMs,
    recoverTimeoutMs,
    MaxEcho             \* how long a ping is on its way, or lost

ASSUME ClientsAssumption ==
    /\ None \notin Client
    /\ rxTimeoutMs \in Nat /\ quiesceTimeoutMs \in Nat /\ recoverTimeoutMs \in Nat
    /\ MaxEcho \in Nat

VARIABLES
    conns,      \* conns_
    closing,    \* connections that have said quit: shut down on our side
    watchers,   \* watchers_
    pingConn,   \* pingConn_, or None
    pingAge,    \* time since lastPingSentMs_, which is also lastPingId_
    echoes,     \* the ages of the pings that are on the line
    ota,        \* otaState_
    phaseAge,   \* time since otaPhaseStartMs_ in a phase with a timeout
    otaConn,    \* otaConn_, or None
    open,       \* serial_.isOpen()
    unread,     \* frames of the last read are left although the port closed
    silence,    \* time since lastFrameMs_, or Never
    warned,     \* rxSilenceWarned_
    told,       \* what the last step sent, and to whom
    asked,      \* for each client, the time since its ping that may still be answered
    awaits,     \* the clients that wait for the result of their update
    reported    \* the warning was broadcast since the last frame

vars == <<conns, closing, watchers, pingConn, pingAge, echoes, ota, phaseAge,
          otaConn, open, unread, silence, warned, told, asked, awaits, reported>>

links == <<conns, closing, watchers>>
ping == <<pingConn, pingAge, echoes, asked>>
update == <<ota, phaseAge, otaConn, awaits>>
alarm == <<silence, warned, reported>>

Never == -1
Unasked == -1
PhaseAgeMax == IF quiesceTimeoutMs < recoverTimeoutMs
               THEN recoverTimeoutMs + 1 ELSE quiesceTimeoutMs + 1

Init ==
    /\ conns = {} /\ closing = {} /\ watchers = {}
    /\ pingConn = None /\ pingAge = MaxEcho + 1 /\ echoes = {}
    /\ ota = "NONE" /\ phaseAge = 0 /\ otaConn = None
    /\ open \in BOOLEAN /\ unread = FALSE
    /\ silence = Never /\ warned = FALSE
    /\ told = {}
    /\ asked = [c \in Client |-> Unasked]
    /\ awaits = {} /\ reported = FALSE

-----------------------------------------------------------------------------
Message(c, what, age) == [to |-> c, what |-> what, age |-> age]

\* A message to connection c, which is dropped once c is shut down.
Send(c, what, age) ==
    IF c \in conns \ closing THEN {Message(c, what, age)} ELSE {}

\* A handler that sends nothing, one that leaves no frame unread, and the
\* port after writes any of which may have closed it.
Mute == told' = {}
NoFrames == unread' = FALSE
MayClose(o) == open' \in {o, FALSE}

\* otaSendProgress(): to the client that started the update, or to the log.
Progress == told' = Send(otaConn, "progress", 0)

\* otaFinish()
Finish ==
    /\ told' = Send(otaConn, "result", 0)
    /\ ota' = "NONE" /\ phaseAge' = 0 /\ otaConn' = None
    /\ awaits' = awaits \ {m.to : m \in told'}

Enter(phase) ==
    /\ Progress
    /\ ota' = phase /\ phaseAge' = 0
    /\ UNCHANGED <<otaConn, awaits>>

\* otaBeginFlasher()
Begin == Enter("FLASHING") \/ Finish

-----------------------------------------------------------------------------
(* Connections and commands.                                               *)

ClientUp(c) ==
    /\ c \notin conns
    /\ conns' = conns \cup {c}
    /\ Mute /\ NoFrames
    /\ UNCHANGED <<closing, watchers, ping, update, open, alarm>>

\* Seeded faults: the subscription outlives its connection; any connection
\* that ends takes the progress of the update with it.
StillWatching(c) == watchers
Starter(c) == None

Watching(c) == watchers \ {c}
StarterWithout(c) == IF otaConn = c THEN None ELSE otaConn

\* The connection is gone; a brake command may be written.
ClientDown(c) ==
    /\ c \in conns
    /\ conns' = conns \ {c} /\ closing' = closing \ {c}
    /\ watchers' = Watching(c)
    /\ pingConn' = IF pingConn = c THEN None ELSE pingConn
    /\ otaConn' = StarterWithout(c)
    /\ asked' = [asked EXCEPT ![c] = Unasked]
    /\ awaits' = awaits \ {c}
    /\ MayClose(open)
    /\ Mute /\ NoFrames
    /\ UNCHANGED <<pingAge, echoes, ota, phaseAge, alarm>>

\* Command ping: a new ping takes the place of an unanswered one.
CmdPing(c) ==
    /\ c \in conns /\ ota = "NONE" /\ open
    /\ pingConn' = c /\ pingAge' = 0
    /\ asked' = [asked EXCEPT ![c] = 0]
    /\ MayClose(open)
    /\ echoes' = IF open' THEN echoes \cup {0} ELSE echoes
    /\ Mute /\ NoFrames
    /\ UNCHANGED <<links, update, alarm>>

CmdWatch(c) ==
    /\ c \in conns
    /\ watchers' \in {watchers \cup {c}, watchers \ {c}}
    /\ Mute /\ NoFrames
    /\ UNCHANGED <<conns, closing, ping, update, open, alarm>>

CmdQuit(c) ==
    /\ c \in conns
    /\ closing' = closing \cup {c}
    /\ Mute /\ NoFrames
    /\ UNCHANGED <<conns, watchers, ping, update, open, alarm>>

\* Command flash, past its checks of the caller and of the file name.
CmdFlash(c) ==
    /\ c \in conns /\ ota = "NONE"
    /\ ota' = "QUIESCING" /\ phaseAge' = 0 /\ otaConn' = c
    /\ awaits' = awaits \cup {c}
    /\ MayClose(open)
    /\ Mute /\ NoFrames
    /\ UNCHANGED <<links, ping, alarm>>

\* Command flash_abort, of whichever client, when it ends the update.
CmdFlashAbort(c) ==
    /\ c \in conns /\ ota \in {"QUIESCING", "RECOVERING"}
    /\ Finish
    /\ NoFrames
    /\ UNCHANGED <<links, ping, open, alarm>>

\* The commands that only write to the board.
CmdWrite(c) ==
    /\ c \in conns /\ open
    /\ open' = FALSE
    /\ Mute /\ NoFrames
    /\ UNCHANGED <<links, ping, update, alarm>>

-----------------------------------------------------------------------------
(* Frames of the board; the handling of any of them may write.             *)

\* Seeded fault: once given, the warning is never given again.
HeardOnce == silence' = 0 /\ reported' = FALSE /\ UNCHANGED warned

Heard == silence' = 0 /\ reported' = FALSE /\ warned' = FALSE

Handle ==
    /\ open \/ unread
    /\ Heard
    /\ MayClose(open) /\ unread' = ~open'
    /\ UNCHANGED links

\* Telemetry, and what else is only stored.
OtherFrame == Handle /\ Mute /\ UNCHANGED <<ping, update>>

\* A STATUS frame that says that the motors are disabled.
DisabledFrame ==
    /\ Handle
    /\ ota = "QUIESCING" /\ Begin
    /\ UNCHANGED ping

\* A CON frame that makes the session READY.
ReadyFrame ==
    /\ Handle
    /\ ota = "RECOVERING" /\ Finish
    /\ UNCHANGED ping

\* Seeded fault: every echo is taken for that of the last ping.
IsAnswerAlways(age) == pingConn # None

IsAnswer(age) == pingConn # None /\ age = pingAge

\* The board sends a ping back.
EchoFrame(age) ==
    /\ Handle
    /\ echoes' = echoes \ {age}
    /\ IF IsAnswer(age)
       THEN /\ told' = Send(pingConn, "pong", age)
            /\ asked' = [asked EXCEPT ![pingConn] = Unasked]
            /\ pingConn' = None
       ELSE Mute /\ UNCHANGED <<asked, pingConn>>
    /\ UNCHANGED <<pingAge, update>>

Frame == OtherFrame \/ DisabledFrame \/ ReadyFrame \/ \E age \in echoes : EchoFrame(age)

-----------------------------------------------------------------------------
(* The flashing child and the periodic tasks.                              *)

ChildLine ==
    /\ ota = "FLASHING"
    /\ Progress /\ NoFrames
    /\ UNCHANGED <<links, ping, update, open, alarm>>

ChildExit ==
    /\ ota = "FLASHING"
    /\ Enter("RECOVERING") \/ Finish
    /\ NoFrames
    /\ UNCHANGED <<links, ping, open, alarm>>

\* onOdomTimer() and onSlowTimer()
Publish ==
    /\ watchers # {}
    /\ told' = UNION {Send(c, "telemetry", 0) : c \in watchers}
    /\ NoFrames
    /\ UNCHANGED <<links, ping, update, open, alarm>>

\* onWatchdogTimer(): the port is opened again, the timeouts of the update
\* follow, then the silence of the board is looked at; connect() may write.
WatchdogTimer ==
    \E o \in {open, TRUE} :
       /\ IF ota = "QUIESCING" /\ phaseAge > quiesceTimeoutMs THEN Begin
          ELSE IF ota = "RECOVERING" /\ phaseAge > recoverTimeoutMs THEN Finish
          ELSE Mute /\ UNCHANGED update
       /\ LET warn == /\ ota' = "NONE" /\ o
                      /\ silence > rxTimeoutMs     \* and so not Never
                      /\ ~warned
          IN  warned' = (warned \/ warn) /\ reported' = (reported \/ warn)
       /\ MayClose(o) /\ NoFrames
       /\ UNCHANGED <<links, ping, silence>>

PortLost ==
    /\ open /\ open' = FALSE
    /\ Mute /\ NoFrames
    /\ UNCHANGED <<links, ping, update, alarm>>

LoseEcho(age) ==
    /\ echoes' = echoes \ {age}
    /\ Mute /\ NoFrames
    /\ UNCHANGED <<links, pingConn, pingAge, asked, update, open, alarm>>

\* An age goes on up to max, past every comparison.
Older(age, max) == IF age < max THEN age + 1 ELSE age

Elapse ==
    /\ pingAge' = Older(pingAge, MaxEcho + 1)
    /\ echoes' = {age + 1 : age \in echoes \ {MaxEcho}}
    /\ asked' = [c \in Client |-> IF asked[c] \in {Unasked, MaxEcho} THEN Unasked
                                  ELSE asked[c] + 1]
    /\ phaseAge' = IF ota \in {"QUIESCING", "RECOVERING"}
                   THEN Older(phaseAge, PhaseAgeMax) ELSE phaseAge
    /\ silence' = IF silence = Never THEN Never ELSE Older(silence, rxTimeoutMs + 1)
    /\ Mute /\ NoFrames
    /\ UNCHANGED <<links, pingConn, ota, otaConn, awaits, open, warned, reported>>

Command(c) ==
    \/ CmdPing(c) \/ CmdWatch(c) \/ CmdQuit(c)
    \/ CmdFlash(c) \/ CmdFlashAbort(c) \/ CmdWrite(c)

Next ==
    \/ \E c \in Client : ClientUp(c) \/ ClientDown(c) \/ Command(c)
    \/ Frame
    \/ ChildLine \/ ChildExit
    \/ Publish \/ WatchdogTimer
    \/ PortLost \/ (\E age \in echoes : LoseEcho(age)) \/ Elapse

\* The loop runs its timers.
Fairness == WF_vars(WatchdogTimer)

Spec == Init /\ [][Next]_vars /\ Fairness

-----------------------------------------------------------------------------
\* The types; a connection that is gone is in none of the places where the
\* host keeps connections, and only an update has one that started it.
TypeOK ==
    /\ conns \subseteq Client
    /\ closing \subseteq conns /\ watchers \subseteq conns /\ awaits \subseteq conns
    /\ pingConn \in conns \cup {None}
    /\ otaConn \in conns \cup {None}
    /\ ota \in {"NONE", "QUIESCING", "FLASHING", "RECOVERING"}
    /\ ota = "NONE" => otaConn = None
    /\ pingAge \in 0 .. MaxEcho + 1 /\ echoes \subseteq 0 .. MaxEcho
    /\ asked \in [Client -> -1 .. MaxEcho]
    /\ phaseAge \in 0 .. PhaseAgeMax
    /\ silence \in -1 .. rxTimeoutMs + 1
    /\ {open, unread, warned, reported} \subseteq BOOLEAN

\* Nobody is told what was not meant for it: a pong goes to a client whose
\* own last ping it answers, with the time since that very ping, whatever
\* other pings were sent, lost or late; progress and result of an update go
\* to the client that started this update.
ToldIsOwed ==
    [][\A m \in told' :
          /\ m.what = "pong" => m.age = asked[m.to]
          /\ m.what \in {"progress", "result"} => m.to \in awaits]_vars

\* A client that has started an update and stays is told how it ended,
\* whichever way it ends, whoever ends it and whoever leaves in the meantime:
\* nobody but a client that has said quit still waits when it is over.
ResultIsTold == ota = "NONE" => awaits \subseteq closing

\* A board that falls silent, on an open port and outside of an update, is
\* reported, each time it does so.
SilenceReported ==
    (open /\ ota = "NONE" /\ silence > rxTimeoutMs)
        ~> (reported \/ ~open \/ ota # "NONE" \/ silence <= rxTimeoutMs)

=============================================================================
