------------------------------ MODULE ConSmOps ------------------------------
(***************************************************************************)
(* The CON client state machine of link/ConSm.h and link/ConSm.cc, as      *)
(* operators on a record.  Every public method of the class is an operator *)
(* from the machine's fields to an outcome: the new fields, the CON frames *)
(* handed to sendFn_ in order, and the communication states handed to      *)
(* commCb_ in order.  Modules that own a ConSm (the stand-alone machine,   *)
(* the link to the board, the host) apply these operators to their own     *)
(* variable, so all of them run the same machine.                          *)
(*                                                                         *)
(* Deadlines are kept relative to the current time: a timer is Unarmed     *)
(* (the code's 0) or the time left, and 0 means that the deadline has been *)
(* reached.  The caller lets time pass with Elapsed.                       *)
(***************************************************************************)
EXTENDS Integers, Sequences

CONSTANTS
    kPingTime,        \* kPingTimeMs: keep-alive period after an answer
    kRepeatPingTime,  \* kRepeatPingTimeMs: period of unanswered pings
    kMaxPingRepeat,   \* kMaxPingRepeat
    kConRspTimeout,   \* kConRspTimeoutMs: handshake answer timeout
    kConRetryMax      \* kConRetryMax: handshake retransmissions

ASSUME TimingAssumption ==
    /\ kPingTime \in Nat \ {0}
    /\ kRepeatPingTime \in Nat \ {0}
    /\ kMaxPingRepeat \in Nat
    /\ kConRspTimeout \in Nat \ {0}
    /\ kConRetryMax \in Nat

State == {"DISCONNECTED", "CONNECTING", "CONNECTED", "DISCONNECTING"}
CommState == {"NOT_READY", "READY"}
Event == {"ENABLE", "ENABLE_REQUEST", "DISABLE", "DISABLE_REQUEST",
          "ACCEPT", "REJECT"}

Request == {"ENABLE_REQ", "DISABLE_REQ"}
Response == {"ENABLE_RSP", "DISABLE_RSP"}
ConMsg == Request \cup Response \cup {"PING_REQ", "PING_RSP"}

None == "none"      \* no frame to send, no callback, no follow-up event
Unarmed == -1       \* a deadline field holding 0 in the code

Timer == Nat \cup {Unarmed}

ConSmType ==
    [state   : State,
     comm    : CommState,
     rsp     : Timer,
     ping    : Timer,
     pingRep : 0 .. kMaxPingRepeat + 1,
     reqRep  : 0 .. kConRetryMax,
     curReq  : Request \cup Response]

\* The field initialisers of the class.
InitConSm ==
    [state |-> "DISCONNECTED", comm |-> "NOT_READY", rsp |-> Unarmed,
     ping |-> Unarmed, pingRep |-> 0, reqRep |-> 0, curReq |-> "ENABLE_REQ"]

\* One unit of time passes for an armed deadline.
CountDown(t) == IF t > 0 THEN t - 1 ELSE t

Elapsed(c) == [c EXCEPT !.rsp = CountDown(@), !.ping = CountDown(@)]

-----------------------------------------------------------------------------
(* Deferred: the new fields, and what the transition asks flush() to do.   *)

\* Nothing happens.
Ignore(c) ==
    [c |-> c, send |-> None, cancelRsp |-> FALSE, cancelPing |-> FALSE,
     armPing |-> FALSE, fire |-> None]

\* Move to state st and send m, recorded in curReq_.
Sending(c, st, m) ==
    [c |-> [c EXCEPT !.state = st, !.curReq = m], send |-> m,
     cancelRsp |-> FALSE, cancelPing |-> FALSE, armPing |-> FALSE, fire |-> None]

\* The session begins (or begins again); m is the answer to send, if any.
ToConnected(c, m) ==
    [c |-> [c EXCEPT !.state = "CONNECTED", !.reqRep = 0, !.comm = "READY",
                     !.curReq = IF m = None THEN @ ELSE m],
     send |-> m, cancelRsp |-> TRUE, cancelPing |-> FALSE, armPing |-> TRUE,
     fire |-> "READY"]

\* The handshake failed.
GiveUp(c) ==
    [c |-> [c EXCEPT !.state = "DISCONNECTED", !.reqRep = 0],
     send |-> None, cancelRsp |-> TRUE, cancelPing |-> FALSE,
     armPing |-> FALSE, fire |-> None]

\* Seeded fault: comm_ changes but its callback is forgotten.
NoReport(c) == None

\* The callback for comm_ := NOT_READY, made only when it was READY.
LostComm(c) == IF c.comm = "READY" THEN "NOT_READY" ELSE None

\* Keep-alive or peer reject: the session is lost, pingRep_ is left alone.
Drop(c) ==
    [c |-> [c EXCEPT !.state = "DISCONNECTED", !.comm = "NOT_READY"],
     send |-> None, cancelRsp |-> TRUE, cancelPing |-> TRUE,
     armPing |-> FALSE, fire |-> LostComm(c)]

\* The session is closed; m is the answer to send, if any.
ToDisconnected(c, m) ==
    [c |-> [c EXCEPT !.state = "DISCONNECTED", !.comm = "NOT_READY",
                     !.pingRep = 0, !.reqRep = 0,
                     !.curReq = IF m = None THEN @ ELSE m],
     send |-> m, cancelRsp |-> TRUE, cancelPing |-> TRUE, armPing |-> FALSE,
     fire |-> LostComm(c)]

\* The transition table; a pair that is not listed changes nothing.
Sm(c, ev) ==
    CASE c.state = "DISCONNECTED" /\ ev = "ENABLE" ->
            Sending(c, "CONNECTING", "ENABLE_REQ")
      [] c.state = "DISCONNECTED" /\ ev = "ENABLE_REQUEST" ->
            Sending(c, "CONNECTING", "ENABLE_RSP")
      [] c.state = "CONNECTING" /\ ev = "ACCEPT" -> ToConnected(c, None)
      [] c.state = "CONNECTING" /\ ev = "REJECT" -> GiveUp(c)
      [] c.state \in {"CONNECTING", "CONNECTED"} /\ ev = "ENABLE_REQUEST" ->
            ToConnected(c, "ENABLE_RSP")
      [] c.state \in {"CONNECTING", "CONNECTED"} /\ ev = "DISABLE" ->
            Sending(c, "DISCONNECTING", "DISABLE_REQ")
      [] c.state = "CONNECTED" /\ ev = "DISABLE_REQUEST" ->
            ToDisconnected(c, "DISABLE_RSP")
      [] c.state = "CONNECTED" /\ ev = "REJECT" -> Drop(c)
      [] c.state = "DISCONNECTING" /\ ev = "REJECT" -> ToDisconnected(c, None)
      [] OTHER -> Ignore(c)

-----------------------------------------------------------------------------
(* Timers and the execution of deferred effects.                           *)

PingArmed(c) ==
    c.comm = "READY" /\ c.state \in {"CONNECTED", "DISCONNECTING"}

SchedulePingStd(c) ==
    [c EXCEPT !.pingRep = 0,
              !.ping = IF PingArmed(c) THEN kPingTime ELSE Unarmed]

\* The frames for which sendFn_ was called and returned TRUE, the calls of
\* commCb_, and the event that process() must handle next.
Outcome(c) == [c |-> c, out |-> <<>>, fired |-> <<>>, followUp |-> None]

Sent(d, ok) == d.send # None /\ ok

\* The deadlines after the cancellations and the arming of a sent request.
FlushTimers(d, ok) ==
    [d.c EXCEPT !.rsp = IF Sent(d, ok) /\ d.send \in Request THEN kConRspTimeout
                        ELSE IF d.cancelRsp THEN Unarmed ELSE @,
                !.ping = IF d.cancelPing THEN Unarmed ELSE @]

\* A failed send is a REJECT, a sent answer counts as accepted by the peer.
FollowUp(d, ok) ==
    CASE d.send # None /\ ~ok -> "REJECT"
      [] Sent(d, ok) /\ d.send \in Response -> "ACCEPT"
      [] OTHER -> None

Flush(d, ok) ==
    [c |-> IF d.armPing THEN SchedulePingStd(FlushTimers(d, ok))
                        ELSE FlushTimers(d, ok),
     out |-> IF Sent(d, ok) THEN <<d.send>> ELSE <<>>,
     fired |-> IF d.fire = None THEN <<>> ELSE <<d.fire>>,
     followUp |-> FollowUp(d, ok)]

\* The outcome of r followed by the outcome s.
Then(r, s) == [s EXCEPT !.out = r.out \o s.out, !.fired = r.fired \o s.fired]

\* Seeded fault: the result of sendFn_ is ignored.
ProcessIgnoresFailure(c, ev, ok) ==
    LET r == Flush(Sm(c, ev), ok)
    IN  IF r.followUp \in {None, "REJECT"} THEN r
        ELSE Then(r, Flush(Sm(r.c, r.followUp), ok))

\* ok is the result of sendFn_, which process() calls at most once: the
\* follow-up events ACCEPT and REJECT send nothing and have no follow-up.
Process(c, ev, ok) ==
    LET r == Flush(Sm(c, ev), ok)
    IN  IF r.followUp = None THEN r
        ELSE Then(r, Flush(Sm(r.c, r.followUp), ok))

-----------------------------------------------------------------------------
(* The public methods.                                                     *)

Connect(c, ok) ==
    IF c.state \in {"CONNECTED", "CONNECTING"} THEN Outcome(c)
    ELSE Process(c, "ENABLE", ok)

Disconnect(c, ok) ==
    IF c.state = "CONNECTED"
    THEN Process([c EXCEPT !.pingRep = 0], "DISABLE", ok)
    ELSE Outcome(c)

Reset(c) ==
    [Outcome([c EXCEPT !.state = "DISCONNECTED", !.comm = "NOT_READY",
                       !.rsp = Unarmed, !.ping = Unarmed,
                       !.pingRep = 0, !.reqRep = 0])
        EXCEPT !.fired = IF c.comm = "READY" THEN <<"NOT_READY">> ELSE <<>>]

OnFrame(c, m, ok) ==
    CASE m = "ENABLE_REQ"  -> Process(c, "ENABLE_REQUEST", ok)
      [] m = "ENABLE_RSP"  -> Process(c, "ACCEPT", ok)
      [] m = "DISABLE_REQ" -> Process(c, "DISABLE_REQUEST", ok)
      [] m = "DISABLE_RSP" -> Process(c, "REJECT", ok)
      [] m = "PING_RSP"    -> Outcome(SchedulePingStd(c))
      [] m = "PING_REQ"    -> Outcome(c)

\* Seeded fault: a retransmission that is not counted.
TickRspUncounted(c, ok) ==
    IF c.rsp # 0 \/ ~ok THEN Outcome(c)
    ELSE [Outcome([c EXCEPT !.rsp = kConRspTimeout]) EXCEPT !.out = <<c.curReq>>]

\* tick(), first half: the handshake answer timed out.
TickRsp(c, ok) ==
    LET late     == [c EXCEPT !.rsp = Unarmed]
        retrying == c.reqRep < kConRetryMax
                    /\ c.state \in {"CONNECTING", "DISCONNECTING"}
        again    == [late EXCEPT !.reqRep = @ + 1]
    IN  IF c.rsp # 0 THEN Outcome(c)
        ELSE IF ~retrying THEN Process(late, "REJECT", ok)
        ELSE IF ok THEN [Outcome([again EXCEPT !.rsp = kConRspTimeout])
                            EXCEPT !.out = <<c.curReq>>]
        ELSE Process(again, "REJECT", ok)

\* Seeded fault: one repeated ping too many (< read as <=).
TickPingOneMore(c, ok) ==
    IF c.ping # 0 THEN Outcome(c)
    ELSE IF c.pingRep > kMaxPingRepeat + 1 \/ ~ok
         THEN Process([c EXCEPT !.ping = Unarmed], "REJECT", ok)
    ELSE [Outcome([c EXCEPT !.ping = kRepeatPingTime, !.pingRep = @ + 1])
             EXCEPT !.out = <<"PING_REQ">>]

\* tick(), second half: the keep-alive deadline passed.
TickPing(c, ok) ==
    LET late  == [c EXCEPT !.ping = Unarmed]
        again == [late EXCEPT !.pingRep = @ + 1]
    IN  IF c.ping # 0 THEN Outcome(c)
        ELSE IF c.pingRep > kMaxPingRepeat THEN Process(late, "REJECT", ok)
        ELSE IF c.comm # "READY" THEN Outcome(again)
        ELSE IF ~ok THEN Process(again, "REJECT", ok)
        ELSE [Outcome(IF PingArmed(again)
                      THEN [again EXCEPT !.ping = kRepeatPingTime]
                      ELSE again)
                 EXCEPT !.out = <<"PING_REQ">>]

\* ok1 and ok2 are the results of the two calls of sendFn_ a tick can make.
Tick(c, ok1, ok2) ==
    LET r == TickRsp(c, ok1) IN Then(r, TickPing(r.c, ok2))

-----------------------------------------------------------------------------
(* Facts about the fields that the methods keep, whatever is sent and      *)
(* received.                                                               *)

\* A state that waits for the peer has an armed timer to leave it by, and a
\* retransmission repeats the request that belongs to the state: the
\* machine is never stuck in a handshake, or connected without keep-alive.
NeverWaitsUntimed(c) ==
    /\ c.state \in {"CONNECTING", "DISCONNECTING"} =>
          /\ c.rsp # Unarmed
          /\ c.curReq = IF c.state = "CONNECTING" THEN "ENABLE_REQ"
                                                  ELSE "DISABLE_REQ"
    /\ c.state \in {"CONNECTED", "DISCONNECTING"} => c.ping # Unarmed

\* What is left of a session when it is over: nothing that a later tick
\* could act on, and a full retransmission budget for the next handshake.
NoResidue(c) ==
    /\ c.state \in {"DISCONNECTED", "CONNECTED"} =>
          c.rsp = Unarmed /\ c.reqRep = 0
    /\ c.state \in {"DISCONNECTED", "CONNECTING"} => c.ping = Unarmed

\* The application is told READY exactly while a session exists.
ReadyIffSession(c) ==
    (c.comm = "READY") <=> (c.state \in {"CONNECTED", "DISCONNECTING"})

=============================================================================
