-------------------------------- MODULE ConLink --------------------------------
(***************************************************************************)
(* The CON session between the host and the board: a ConSm on one side,    *)
(* the board of tools/mock_board (its 3 s watchdog and its answers) on the *)
(* other, and a serial line that delays, and may lose, every frame.        *)
(*                                                                         *)
(* The host opens a session whenever there is none, as the watchdog of     *)
(* ChassisHost does (its throttle is left out: a retry may come at any     *)
(* time), and the user may close it.  The faults (losses, failed writes,   *)
(* restarts of the board, closing by the user) may stop for good.          *)
(***************************************************************************)
EXTENDS ConSmOps

CONSTANTS
    MaxLate,      \* how late the tick timer of the event loop may fire
    MaxDelay,     \* how long a frame is on its way
    BoardTimeout  \* the board's watchdog (3 s)

ASSUME LinkAssumption ==
    MaxLate \in Nat /\ MaxDelay \in Nat /\ BoardTimeout \in Nat \ {0}

VARIABLES
    con,      \* conSm_
    late,     \* time since tick() last ran
    toBoard,  \* frames on their way to the board, the oldest first
    toHost,   \* frames on their way to the host
    ready,    \* conReady_ of the board
    seen,     \* time since lastCon_ of the board, while it is ready
    split,    \* time since the host is READY and the board is not
    calm      \* no more faults

linkVars == <<con, late, toBoard, toHost, ready, seen, split, calm>>

board == <<ready, seen>>

LinkInit ==
    /\ con = InitConSm
    /\ late = 0
    /\ toBoard = <<>> /\ toHost = <<>>
    /\ ready = FALSE /\ seen = 0
    /\ split = 0
    /\ calm = FALSE

-----------------------------------------------------------------------------
\* A frame is put on the line now.
Frame(m) == [msg |-> m, age |-> 0]

Frames(out) == [i \in DOMAIN out |-> Frame(out[i])]

Aged(line) == [i \in DOMAIN line |-> [line[i] EXCEPT !.age = @ + 1]]

\* A write of the host: it may fail while there are faults.
SendResult == IF calm THEN {TRUE} ELSE BOOLEAN

\* The host's machine takes outcome r, whose frames go on the line.
Take(r) ==
    /\ con' = r.c
    /\ toBoard' = toBoard \o Frames(r.out)

\* split is observed: it starts over when the two agree, or when the host
\* learns of a new session.
Observe == split' = IF con'.comm = "READY" /\ ~ready' THEN split ELSE 0

-----------------------------------------------------------------------------
(* The host.                                                               *)

\* Seeded fault: the host only asks for a session while it hears the board.
ReconnectWhenHeard ==
    /\ con.state = "DISCONNECTED" /\ toHost # <<>>
    /\ \E ok \in SendResult : Take(Connect(con, ok))
    /\ UNCHANGED <<late, toHost, board, calm>>
    /\ Observe

\* The reconnecting part of onWatchdogTimer().
Reconnect ==
    /\ con.state = "DISCONNECTED"
    /\ \E ok \in SendResult : Take(Connect(con, ok))
    /\ UNCHANGED <<late, toHost, board, calm>>
    /\ Observe

\* Command en 0.
UserDisconnect ==
    /\ ~calm
    /\ con.state = "CONNECTED"
    /\ \E ok \in SendResult : Take(Disconnect(con, ok))
    /\ UNCHANGED <<late, toHost, board, calm>>
    /\ Observe

\* A CON frame of the board is handled.
HostReceive ==
    /\ toHost # <<>>
    /\ toHost' = Tail(toHost)
    /\ \E ok \in SendResult : Take(OnFrame(con, Head(toHost).msg, ok))
    /\ UNCHANGED <<late, board, calm>>
    /\ Observe

\* onConTick()
HostTick ==
    /\ \E ok1, ok2 \in SendResult : Take(Tick(con, ok1, ok2))
    /\ late' = 0
    /\ UNCHANGED <<toHost, board, calm>>
    /\ Observe

-----------------------------------------------------------------------------
(* The board.                                                              *)

\* Seeded fault: a ping does not rebuild the session on the board.
BoardTakesRequestOnly(m) ==
    IF m = "ENABLE_REQ"
    THEN ready' = TRUE /\ seen' = 0 /\ toHost' = Append(toHost, Frame("ENABLE_RSP"))
    ELSE IF m = "DISABLE_REQ"
    THEN ready' = FALSE /\ seen' = 0 /\ toHost' = Append(toHost, Frame("DISABLE_RSP"))
    ELSE IF m = "PING_REQ"
    THEN /\ seen' = 0
         /\ toHost' = Append(toHost, Frame("PING_RSP"))
         /\ UNCHANGED ready
    ELSE UNCHANGED <<board, toHost>>

\* Seeded fault: pings are answered but do not feed the watchdog.
BoardTakesUnfed(m) ==
    IF m = "ENABLE_REQ"
    THEN ready' = TRUE /\ seen' = 0 /\ toHost' = Append(toHost, Frame("ENABLE_RSP"))
    ELSE IF m = "DISABLE_REQ"
    THEN ready' = FALSE /\ seen' = 0 /\ toHost' = Append(toHost, Frame("DISABLE_RSP"))
    ELSE IF m = "PING_REQ"
    THEN ready' = TRUE /\ toHost' = Append(toHost, Frame("PING_RSP")) /\ UNCHANGED seen
    ELSE UNCHANGED <<board, toHost>>

\* A CON frame of the host: requests and pings are answered, and both an
\* ENABLE request and a ping build the session.
BoardTakes(m) ==
    IF m \in {"ENABLE_REQ", "PING_REQ"}
    THEN /\ ready' = TRUE
         /\ seen' = 0
         /\ toHost' = Append(toHost, Frame(IF m = "PING_REQ" THEN "PING_RSP"
                                                             ELSE "ENABLE_RSP"))
    ELSE IF m = "DISABLE_REQ"
    THEN ready' = FALSE /\ seen' = 0 /\ toHost' = Append(toHost, Frame("DISABLE_RSP"))
    ELSE UNCHANGED <<board, toHost>>

BoardReceive ==
    /\ toBoard # <<>>
    /\ toBoard' = Tail(toBoard)
    /\ BoardTakes(Head(toBoard).msg)
    /\ UNCHANGED <<con, late, calm>>
    /\ Observe

\* The watchdog of pump(): no CON frame of the host for too long.
BoardWatchdog ==
    /\ ready /\ seen > BoardTimeout
    /\ ready' = FALSE /\ seen' = 0
    /\ UNCHANGED <<con, late, toBoard, toHost, calm>>
    /\ Observe

-----------------------------------------------------------------------------
(* The surroundings.                                                       *)

LoseToBoard ==
    /\ ~calm /\ toBoard # <<>>
    /\ toBoard' = Tail(toBoard)
    /\ UNCHANGED <<con, late, toHost, board, split, calm>>

LoseToHost ==
    /\ ~calm /\ toHost # <<>>
    /\ toHost' = Tail(toHost)
    /\ UNCHANGED <<con, late, toBoard, board, split, calm>>

\* The board loses its power for a moment.
BoardRestart ==
    /\ ~calm /\ ready
    /\ ready' = FALSE /\ seen' = 0
    /\ UNCHANGED <<con, late, toBoard, toHost, calm>>
    /\ Observe

FaultsStop ==
    /\ ~calm
    /\ calm' = TRUE
    /\ UNCHANGED <<con, late, toBoard, toHost, board, split>>

\* Time passes, unless a tick or a frame is due, or the board's watchdog,
\* which pump() looks at every 20 ms.
Elapse ==
    /\ late <= MaxLate
    /\ \A i \in DOMAIN toBoard : toBoard[i].age < MaxDelay
    /\ \A i \in DOMAIN toHost : toHost[i].age < MaxDelay
    /\ ~(ready /\ seen > BoardTimeout)
    /\ con' = Elapsed(con)
    /\ late' = late + 1
    /\ toBoard' = Aged(toBoard) /\ toHost' = Aged(toHost)
    /\ seen' = IF ready THEN seen + 1 ELSE seen
    /\ split' = IF con.comm = "READY" /\ ~ready THEN split + 1 ELSE split
    /\ UNCHANGED <<ready, calm>>

LinkNext ==
    \/ Reconnect \/ UserDisconnect \/ HostReceive \/ HostTick
    \/ BoardReceive \/ BoardWatchdog
    \/ LoseToBoard \/ LoseToHost \/ BoardRestart \/ FaultsStop
    \/ Elapse

\* What the two sides and the time are bound to do.  A tick, a delivery and
\* the board's watchdog hold up the time when they are due, so it is enough
\* that one or the other of them goes on; nothing makes the faults happen or
\* stop.
Progress == HostReceive \/ HostTick \/ BoardReceive \/ BoardWatchdog \/ Elapse

LinkFairness == WF_linkVars(Reconnect) /\ WF_linkVars(Progress)

LinkSpec == LinkInit /\ [][LinkNext]_linkVars /\ LinkFairness

-----------------------------------------------------------------------------
Overdue(t) == t + MaxLate
PingRound == (kMaxPingRepeat + 1) * Overdue(kRepeatPingTime)

\* The host gives up first: whatever is lost, the board's watchdog never
\* ends a session that the host takes for CONNECTED.  This is a relation
\* between the constants of both sides (link/ConSm.h and the 3 s watchdog)
\* that no single program can check.
HostGivesUpFirst == con.state = "CONNECTED" /\ ready => seen <= BoardTimeout

\* A session that only the host believes in (the board was restarted) is
\* rebuilt by a ping or given up within the keep-alive bound.
SplitBounded ==
    con.state = "CONNECTED" =>
        split <= Overdue(kPingTime) + PingRound + MaxDelay

\* Once the faults stop the session is rebuilt, on both sides, for good.
SessionIsRebuilt == calm ~> [](con.state = "CONNECTED" /\ ready)

=============================================================================
