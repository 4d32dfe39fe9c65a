-------------------------------- MODULE ConSm --------------------------------
(***************************************************************************)
(* One ConSm object of link/ConSm.cc in the most general surroundings: the *)
(* application may call connect(), disconnect() and reset() at any time,   *)
(* the peer may send any CON message at any time, every call of sendFn_    *)
(* may succeed or fail, and the periodic tick() may run late by up to      *)
(* MaxLate units.  What holds here holds for every peer and every owner.   *)
(***************************************************************************)
EXTENDS ConSmOps

CONSTANT MaxLate    \* how late the tick timer of the event loop may fire

ASSUME LateAssumption == MaxLate \in Nat

VARIABLES
    con,     \* the fields of the ConSm object
    fired,   \* the communication states given to commCb_ by the last step
    told,    \* the communication state commCb_ was given most recently
    late,    \* time since tick() last ran
    quiet,   \* time in a session since the last sign of life of the peer
    waited   \* time since the current handshake began

vars == <<con, fired, told, late, quiet, waited>>

Handshake == {"CONNECTING", "DISCONNECTING"}

Init ==
    /\ con = InitConSm
    /\ fired = <<>>
    /\ told = "NOT_READY"
    /\ late = 0
    /\ quiet = 0
    /\ waited = 0

-----------------------------------------------------------------------------
\* The object takes the outcome r of a method.  told, quiet and waited only
\* observe it; alive says that the method was given a sign of life.
Take(r, alive) ==
    /\ con' = r.c
    /\ fired' = r.fired
    /\ told' = IF r.fired = <<>> THEN told ELSE r.fired[Len(r.fired)]
    /\ quiet' = IF alive \/ con.comm # "READY" \/ r.c.comm # "READY"
                THEN 0 ELSE quiet
    /\ waited' = IF r.c.state = con.state THEN waited ELSE 0

ConnectCall ==
    /\ \E ok \in BOOLEAN : Take(Connect(con, ok), FALSE)
    /\ UNCHANGED late

DisconnectCall ==
    /\ \E ok \in BOOLEAN : Take(Disconnect(con, ok), FALSE)
    /\ UNCHANGED late

ResetCall == Take(Reset(con), FALSE) /\ UNCHANGED late

\* The messages by which a peer shows, during a session, that it is alive.
SignOfLife(m) ==
    \/ m = "PING_RSP"
    \/ m = "ENABLE_REQ" /\ con.state = "CONNECTED"

FrameCall(m) ==
    /\ \E ok \in BOOLEAN : Take(OnFrame(con, m, ok), SignOfLife(m))
    /\ UNCHANGED late

TickCall ==
    /\ \E ok1, ok2 \in BOOLEAN : Take(Tick(con, ok1, ok2), FALSE)
    /\ late' = 0

\* Time passes, but the next tick is never more than MaxLate overdue.
Elapse ==
    /\ late < MaxLate + 1
    /\ con' = Elapsed(con)
    /\ late' = late + 1
    /\ quiet' = IF con.comm = "READY" THEN quiet + 1 ELSE quiet
    /\ waited' = IF con.state \in Handshake THEN waited + 1 ELSE waited
    /\ fired' = <<>>
    /\ UNCHANGED told

Next ==
    \/ ConnectCall
    \/ DisconnectCall
    \/ ResetCall
    \/ \E m \in ConMsg : FrameCall(m)
    \/ TickCall
    \/ Elapse

Spec == Init /\ [][Next]_vars

-----------------------------------------------------------------------------
\* The fields keep their types; reqRep_ and pingRep_ stay within the
\* retransmission limits of the header.
TypeOK ==
    /\ con \in ConSmType
    /\ fired \in Seq(CommState)
    /\ told \in CommState
    /\ late \in 0 .. MaxLate + 1
    /\ quiet \in Nat
    /\ waited \in Nat

\* ConSm is never stuck, and nothing of the past disturbs it: whatever is
\* lost, fails to be sent or is answered, a handshake has its answer timer
\* and the right request to repeat, and a session its keep-alive; when they
\* are over they leave neither a timer that a later tick would act on nor
\* spent retransmissions that would shorten the next handshake.
TimersFitState == NeverWaitsUntimed(con) /\ NoResidue(con)

\* commCb_ is never missed: what the application was told last is what
\* comm() answers, and that is READY exactly while there is a session.
ToldTheTruth == told = con.comm /\ ReadyIffSession(con)

Session == INSTANCE LinkSession WITH phase <- con.state, report <- fired

\* Whatever is lost, late or fails to be sent, the object goes through the
\* phases of a LinkSession and reports each beginning and each end of a
\* session, once, in order, and in the call that brings it about.
SessionPromised == Session!Spec

\* The period of one attempt with its tick as late as it may be.
Overdue(t) == t + MaxLate

\* A peer that falls silent is noticed: no session outlives its last sign
\* of life by more than the keep-alive period and the repeated pings.  In
\* DISCONNECTING the pings may be repeated once over, because disconnect()
\* clears pingRep_ while a ping is unanswered.
PingRound == (kMaxPingRepeat + 1) * Overdue(kRepeatPingTime)
SilenceNoticed ==
    /\ con.state = "CONNECTED" => quiet <= Overdue(kPingTime) + PingRound
    /\ con.state = "DISCONNECTING" =>
          quiet <= Overdue(kPingTime) + PingRound + PingRound

\* A handshake is over, one way or the other, once the request and all its
\* retransmissions have timed out.
HandshakeBounded ==
    con.state \in Handshake =>
        waited <= (kConRetryMax + 1) * Overdue(kConRspTimeout)

=============================================================================
