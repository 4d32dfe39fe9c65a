--------------------------- MODULE ConSmOps_proofs ---------------------------
(***************************************************************************)
(* What the methods of ConSm do, for every value of the timing constants.  *)
(*                                                                         *)
(* Every public method of the class is shown to have one of a few outcomes *)
(* (the session has ended, it is new, a request is under way, the timers   *)
(* were refreshed or ticked), and to report the communication state that   *)
(* it leaves behind.                                                       *)
(***************************************************************************)
EXTENDS ConSmOps, TLAPS

\* The part of the invariant that also holds between the steps of a method.
Loose(c) == c \in ConSmType /\ NoResidue(c) /\ ReadyIffSession(c)

Good(c) == Loose(c) /\ NeverWaitsUntimed(c)

\* What a method can leave behind: nothing, a new session, a new request.
Ended(e) ==
    /\ Good(e)
    /\ e.state = "DISCONNECTED"

Live(e) ==
    /\ Good(e)
    /\ e.state = "CONNECTED" /\ e.ping = kPingTime /\ e.pingRep = 0

Asking(c, e) ==
    /\ Good(e)
    /\ \/ c.state = "DISCONNECTED" /\ e.state = "CONNECTING"
       \/ c.state = "CONNECTED" /\ e.state = "DISCONNECTING"
    /\ e.rsp = kConRspTimeout /\ e.reqRep = 0
    /\ e.ping = c.ping

\* The application is told the communication state that is left behind.
Reported(c, e, f) ==
    /\ f \in Seq(CommState)
    /\ f = <<>> => e.comm = c.comm
    /\ f # <<>> => f[Len(f)] = e.comm

-----------------------------------------------------------------------------
\* The transition table, state by state.
LEMMA SmForm ==
    ASSUME NEW c
    PROVE  /\ c.state = "DISCONNECTED" =>
               /\ Sm(c, "ENABLE") = Sending(c, "CONNECTING", "ENABLE_REQ")
               /\ Sm(c, "ENABLE_REQUEST") = Sending(c, "CONNECTING", "ENABLE_RSP")
               /\ \A ev \in {"DISABLE_REQUEST", "ACCEPT", "REJECT"} : Sm(c, ev) = Ignore(c)
           /\ c.state = "CONNECTING" =>
               /\ Sm(c, "ACCEPT") = ToConnected(c, None)
               /\ Sm(c, "REJECT") = GiveUp(c)
               /\ Sm(c, "ENABLE_REQUEST") = ToConnected(c, "ENABLE_RSP")
               /\ Sm(c, "DISABLE_REQUEST") = Ignore(c)
           /\ c.state = "CONNECTED" =>
               /\ Sm(c, "ENABLE_REQUEST") = ToConnected(c, "ENABLE_RSP")
               /\ Sm(c, "ACCEPT") = Ignore(c)
               /\ Sm(c, "DISABLE") = Sending(c, "DISCONNECTING", "DISABLE_REQ")
               /\ Sm(c, "DISABLE_REQUEST") = ToDisconnected(c, "DISABLE_RSP")
               /\ Sm(c, "REJECT") = Drop(c)
           /\ c.state = "DISCONNECTING" =>
               /\ Sm(c, "REJECT") = ToDisconnected(c, None)
               /\ \A ev \in Event \ {"REJECT"} : Sm(c, ev) = Ignore(c)
BY DEF Sm, Event

\* The object written out field by field.
Con(st, cm, rs, pi, pr, rr, cq) ==
    [state |-> st, comm |-> cm, rsp |-> rs, ping |-> pi,
     pingRep |-> pr, reqRep |-> rr, curReq |-> cq]

\* The fields of an object written out.
LEMMA ConFields ==
    ASSUME NEW st, NEW cm, NEW rs, NEW pi, NEW pr, NEW rr, NEW cq
    PROVE  LET e == Con(st, cm, rs, pi, pr, rr, cq)
           IN  /\ e.state = st /\ e.comm = cm /\ e.rsp = rs /\ e.ping = pi
               /\ e.pingRep = pr /\ e.reqRep = rr /\ e.curReq = cq
BY DEF Con

\* An object written out from typed values is typed.
LEMMA ConTyped ==
    ASSUME NEW st \in State, NEW cm \in CommState, NEW rs \in Timer,
           NEW pi \in Timer, NEW pr \in 0 .. kMaxPingRepeat + 1,
           NEW rr \in 0 .. kConRetryMax, NEW cq \in Request \cup Response
    PROVE  Con(st, cm, rs, pi, pr, rr, cq) \in ConSmType
BY DEF Con, ConSmType

\* The types of the fields of a typed object.
LEMMA ConSmFields ==
    ASSUME NEW c \in ConSmType
    PROVE  /\ c.state \in State /\ c.comm \in CommState
           /\ c.rsp \in Timer /\ c.ping \in Timer
           /\ c.pingRep \in 0 .. kMaxPingRepeat + 1
           /\ c.reqRep \in 0 .. kConRetryMax
           /\ c.curReq \in Request \cup Response
BY DEF ConSmType

\* Deadlines armed by the code are timers that have not been reached.
LEMMA ConstTyped ==
    /\ Unarmed \in Timer /\ kPingTime \in Timer /\ kRepeatPingTime \in Timer
    /\ kConRspTimeout \in Timer
    /\ 0 \in 0 .. kMaxPingRepeat + 1 /\ 0 \in 0 .. kConRetryMax
    /\ Unarmed # 0 /\ kPingTime # Unarmed /\ kConRspTimeout # Unarmed
    /\ kRepeatPingTime # Unarmed /\ kRepeatPingTime # 0
    /\ kPingTime # 0 /\ kConRspTimeout # 0
BY TimingAssumption DEF Timer, Unarmed

\* flush() after a transition the table does not list.
LEMMA FlushIgnore ==
    ASSUME NEW c \in ConSmType, NEW ok \in BOOLEAN
    PROVE  LET r == Flush(Ignore(c), ok)
           IN  r.c = c /\ r.fired = <<>> /\ r.followUp = None
BY DEF Flush, FlushTimers, FollowUp, Sent, Ignore, ConSmType, Request, Response, None

\* flush() after the transitions that send a request or an answer.
LEMMA FlushSending ==
    ASSUME NEW c \in ConSmType, NEW st \in State, NEW ok \in BOOLEAN,
           NEW m \in Request \cup Response
    PROVE  LET r == Flush(Sending(c, st, m), ok)
           IN  /\ r.c = Con(st, c.comm,
                            IF ok /\ m \in Request THEN kConRspTimeout ELSE c.rsp,
                            c.ping, c.pingRep, c.reqRep, m)
               /\ r.fired = <<>>
               /\ r.followUp = IF ~ok THEN "REJECT"
                               ELSE IF m \in Response THEN "ACCEPT" ELSE None
BY DEF Flush, FlushTimers, FollowUp, Sent, Sending, ConSmType, Request, Response,
       None, State, Con

\* flush() after toConnected(): the keep-alive starts, the handshake timer stops.
LEMMA FlushToConnected ==
    ASSUME NEW c \in ConSmType, NEW m \in {"ENABLE_RSP", None}, NEW ok \in BOOLEAN
    PROVE  LET r == Flush(ToConnected(c, m), ok)
           IN  /\ r.c = Con("CONNECTED", "READY", Unarmed, kPingTime, 0, 0,
                            IF m = None THEN c.curReq ELSE m)
               /\ r.fired = <<"READY">>
               /\ r.followUp = IF m = None THEN None
                               ELSE IF ok THEN "ACCEPT" ELSE "REJECT"
<1> DEFINE d == ToConnected(c, m)
           cq == IF m = None THEN c.curReq ELSE m
           e == Con("CONNECTED", "READY", Unarmed, c.ping, c.pingRep, 0, cq)
<1>1. FlushTimers(d, ok) = e
  <2>1. /\ d.c = Con("CONNECTED", "READY", c.rsp, c.ping, c.pingRep, 0, cq)
        /\ d.send = m /\ d.cancelRsp = TRUE /\ d.cancelPing = FALSE
    BY DEF ToConnected, ConSmType, Con
  <2>2. m \notin Request
    BY DEF Request, None
  <2> HIDE DEF d, cq
  <2>3. FlushTimers(d, ok) = [d.c EXCEPT !.rsp = Unarmed, !.ping = d.c.ping]
    BY <2>1, <2>2, Zenon DEF FlushTimers
  <2>4. d.c.ping = c.ping
    BY <2>1 DEF Con
  <2>5. [Con("CONNECTED", "READY", c.rsp, c.ping, c.pingRep, 0, cq)
            EXCEPT !.rsp = Unarmed] = e
    BY DEF Con
  <2>6. [e EXCEPT !.ping = c.ping] = e
    BY DEF Con
  <2> HIDE DEF e
  <2> QED
    BY <2>1, <2>3, <2>4, <2>5, <2>6
<1> HIDE DEF cq
<1>2. SchedulePingStd(e) = Con("CONNECTED", "READY", Unarmed, kPingTime, 0, 0, cq)
  <2>1. PingArmed(e)
    BY DEF PingArmed, Con
  <2>2. [e EXCEPT !.pingRep = 0] =
            Con("CONNECTED", "READY", Unarmed, c.ping, 0, 0, cq)
    BY DEF Con
  <2>3. [Con("CONNECTED", "READY", Unarmed, c.ping, 0, 0, cq) EXCEPT !.ping = kPingTime] =
            Con("CONNECTED", "READY", Unarmed, kPingTime, 0, 0, cq)
    BY DEF Con
  <2> HIDE DEF e
  <2>4. SchedulePingStd(e) = [e EXCEPT !.pingRep = 0, !.ping = kPingTime]
    BY <2>1 DEF SchedulePingStd
  <2> QED
    BY <2>2, <2>3, <2>4
<1>3. d.armPing /\ d.fire = "READY" /\ d.send = m
  BY DEF ToConnected
<1> HIDE DEF d, e
<1>4. Flush(d, ok).c = Con("CONNECTED", "READY", Unarmed, kPingTime, 0, 0, cq)
  BY <1>1, <1>2, <1>3 DEF Flush
<1>5. /\ Flush(d, ok).fired = <<"READY">>
      /\ Flush(d, ok).followUp = IF m = None THEN None
                                 ELSE IF ok THEN "ACCEPT" ELSE "REJECT"
  BY <1>3 DEF Flush, FollowUp, Sent, Response, None
<1> QED BY <1>4, <1>5 DEF d, cq

\* flush() after toDisconnected(): nothing is armed, the lost session is reported.
LEMMA FlushToDisconnected ==
    ASSUME NEW c \in ConSmType, NEW m \in {"DISABLE_RSP", None}, NEW ok \in BOOLEAN
    PROVE  LET r == Flush(ToDisconnected(c, m), ok)
           IN  /\ r.c = Con("DISCONNECTED", "NOT_READY", Unarmed, Unarmed, 0, 0,
                            IF m = None THEN c.curReq ELSE m)
               /\ r.fired = IF c.comm = "READY" THEN <<"NOT_READY">> ELSE <<>>
               /\ r.followUp = IF m = None THEN None
                               ELSE IF ok THEN "ACCEPT" ELSE "REJECT"
BY DEF Flush, FlushTimers, FollowUp, Sent, ConSmType, Request, Response, None,
       ToDisconnected, LostComm, Con

\* flush() after a rejected session: as toDisconnected(), with pingRep_ left alone.
LEMMA FlushDrop ==
    ASSUME NEW c \in ConSmType, NEW ok \in BOOLEAN
    PROVE  LET r == Flush(Drop(c), ok)
           IN  /\ r.c = Con("DISCONNECTED", "NOT_READY", Unarmed, Unarmed,
                            c.pingRep, c.reqRep, c.curReq)
               /\ r.fired = IF c.comm = "READY" THEN <<"NOT_READY">> ELSE <<>>
               /\ r.followUp = None
BY DEF Flush, FlushTimers, FollowUp, Sent, ConSmType, Request, Response, None,
       Drop, LostComm, Con

\* flush() after a rejected handshake: the answer timer stops.
LEMMA FlushGiveUp ==
    ASSUME NEW c \in ConSmType, NEW ok \in BOOLEAN
    PROVE  LET r == Flush(GiveUp(c), ok)
           IN  /\ r.c = Con("DISCONNECTED", c.comm, Unarmed, c.ping, c.pingRep, 0,
                            c.curReq)
               /\ r.fired = <<>>
               /\ r.followUp = None
BY DEF Flush, FlushTimers, FollowUp, Sent, ConSmType, Request, Response, None,
       GiveUp, Con

-----------------------------------------------------------------------------
\* process() is its first flush, or that followed by the follow-up's.
LEMMA ProcessSteps ==
    ASSUME NEW c, NEW ev, NEW ok \in BOOLEAN
    PROVE  LET r == Flush(Sm(c, ev), ok)
               s == Flush(Sm(r.c, r.followUp), ok)
           IN  /\ r.followUp = None => Process(c, ev, ok) = r
               /\ r.followUp # None =>
                     /\ Process(c, ev, ok).c = s.c
                     /\ Process(c, ev, ok).fired = r.fired \o s.fired
<1> DEFINE r == Flush(Sm(c, ev), ok)
           s == Flush(Sm(r.c, r.followUp), ok)
<1>1. Process(c, ev, ok) = IF r.followUp = None THEN r ELSE Then(r, s)
  BY DEF Process
<1>2. Then(r, s).c = s.c /\ Then(r, s).fired = r.fired \o s.fired
  BY DEF Then, Flush
<1> QED BY <1>1, <1>2

\* A disconnected object without deadlines is idle.
LEMMA IdleIntro ==
    ASSUME NEW pr \in 0 .. kMaxPingRepeat + 1, NEW cq \in Request \cup Response
    PROVE  Ended(Con("DISCONNECTED", "NOT_READY", Unarmed, Unarmed, pr, 0, cq))
<1> DEFINE e == Con("DISCONNECTED", "NOT_READY", Unarmed, Unarmed, pr, 0, cq)
<1> SUFFICES Ended(e)
  OBVIOUS
<1>1. e \in ConSmType
  BY ConTyped, ConstTyped DEF State, CommState
<1>2. e.state = "DISCONNECTED" /\ e.comm = "NOT_READY" /\ e.rsp = Unarmed
      /\ e.ping = Unarmed /\ e.reqRep = 0
  BY ConFields
<1> HIDE DEF e
<1> QED
  BY <1>1, <1>2
  DEF Ended, Good, Loose, NeverWaitsUntimed, NoResidue, ReadyIffSession

\* A connected object with a fresh keep-alive is live.
LEMMA LiveIntro ==
    ASSUME NEW cq \in Request \cup Response
    PROVE  Live(Con("CONNECTED", "READY", Unarmed, kPingTime, 0, 0, cq))
<1> DEFINE e == Con("CONNECTED", "READY", Unarmed, kPingTime, 0, 0, cq)
<1> SUFFICES Live(e)
  OBVIOUS
<1>1. e \in ConSmType
  BY ConTyped, ConstTyped DEF State, CommState
<1>2. e.state = "CONNECTED" /\ e.comm = "READY" /\ e.rsp = Unarmed
      /\ e.ping = kPingTime /\ e.reqRep = 0 /\ e.pingRep = 0
  BY ConFields
<1> HIDE DEF e
<1> QED
  BY <1>1, <1>2, ConstTyped
  DEF Live, Good, Loose, NeverWaitsUntimed, NoResidue, ReadyIffSession

\* A REJECT ends whatever was going on, in every state.
LEMMA RejectOutcome ==
    ASSUME NEW c, Loose(c), NEW ok \in BOOLEAN
    PROVE  LET r == Flush(Sm(c, "REJECT"), ok)
           IN  /\ Ended(r.c) /\ r.c.comm = "NOT_READY"
               /\ r.fired = IF c.comm = "READY" THEN <<"NOT_READY">> ELSE <<>>
               /\ Process(c, "REJECT", ok) = r
<1> DEFINE r == Flush(Sm(c, "REJECT"), ok)
           Ends == /\ Ended(r.c) /\ r.followUp = None
                   /\ r.fired = IF c.comm = "READY" THEN <<"NOT_READY">> ELSE <<>>
<1>0. c \in ConSmType
  BY DEF Loose
<1>1. r.followUp = None => Process(c, "REJECT", ok) = r
  BY ProcessSteps
<1>2. Ended(r.c) => r.c.comm = "NOT_READY"
  BY DEF Ended, Good, Loose, ReadyIffSession, ConSmType, CommState
<1> SUFFICES Ends
  BY <1>1, <1>2
<1>3. CASE c.state = "DISCONNECTED"
  <2>1. Sm(c, "REJECT") = Ignore(c)
    BY <1>3, SmForm
  <2>2. r.c = c /\ r.fired = <<>> /\ r.followUp = None
    BY <1>0, <2>1, FlushIgnore
  <2>3. c.comm = "NOT_READY" /\ Ended(c)
    BY <1>0, <1>3 DEF Loose, Good, Ended, NeverWaitsUntimed, ReadyIffSession, ConSmType, CommState
  <2> QED
    BY <2>2, <2>3
<1>4. CASE c.state = "CONNECTING"
  <2>1. Sm(c, "REJECT") = GiveUp(c)
    BY <1>4, SmForm
  <2>2. c.comm = "NOT_READY" /\ c.ping = Unarmed
    BY <1>0, <1>4 DEF Loose, NoResidue, ReadyIffSession, ConSmType, CommState
  <2> QED
    BY <1>0, <2>1, <2>2, FlushGiveUp, IdleIntro, ConSmFields
<1>5. CASE c.state = "CONNECTED"
  <2>1. Sm(c, "REJECT") = Drop(c)
    BY <1>5, SmForm
  <2>2. c.reqRep = 0
    BY <1>5 DEF Loose, NoResidue
  <2> QED
    BY <1>0, <2>1, <2>2, FlushDrop, IdleIntro, ConSmFields
<1>6. CASE c.state = "DISCONNECTING"
  <2>1. Sm(c, "REJECT") = ToDisconnected(c, None)
    BY <1>6, SmForm
  <2> QED
    BY <1>0, <2>1, FlushToDisconnected, IdleIntro, ConSmFields, ConstTyped
<1> QED
  BY <1>0, <1>3, <1>4, <1>5, <1>6 DEF ConSmType, State

\* An ACCEPT opens the session of a CONNECTING object and is ignored by any
\* other.
LEMMA AcceptOutcome ==
    ASSUME NEW c \in ConSmType, NEW ok \in BOOLEAN
    PROVE  LET r == Flush(Sm(c, "ACCEPT"), ok)
           IN  /\ r.followUp = None /\ Process(c, "ACCEPT", ok) = r
               /\ c.state = "CONNECTING" => Live(r.c) /\ r.fired = <<"READY">>
               /\ c.state # "CONNECTING" => r.c = c /\ r.fired = <<>>
<1> DEFINE r == Flush(Sm(c, "ACCEPT"), ok)
<1>1. r.followUp = None => Process(c, "ACCEPT", ok) = r
  BY ProcessSteps
<1>2. CASE c.state = "CONNECTING"
  <2>1. Sm(c, "ACCEPT") = ToConnected(c, None)
    BY <1>2, SmForm
  <2> QED
    BY <1>1, <1>2, <2>1, FlushToConnected, LiveIntro, ConSmFields
<1>3. CASE c.state # "CONNECTING"
  <2>1. Sm(c, "ACCEPT") = Ignore(c)
    BY <1>3, SmForm, ConSmFields DEF State, Event
  <2> QED
    BY <1>1, <1>3, <2>1, FlushIgnore
<1> QED
  BY <1>2, <1>3

\* comm_ follows from the state.
LEMMA ReadyOnlyInSession ==
    ASSUME NEW c, Loose(c)
    PROVE  c.comm = IF c.state \in {"CONNECTED", "DISCONNECTING"}
                    THEN "READY" ELSE "NOT_READY"
BY DEF Loose, ReadyIffSession, ConSmType, CommState

\* No callback is needed when comm_ stays.
LEMMA ReportedNothing ==
    ASSUME NEW c, NEW e, e.comm = c.comm
    PROVE  Reported(c, e, <<>>)
BY DEF Reported

\* One callback with the new comm_ reports it.
LEMMA ReportedOne ==
    ASSUME NEW c, NEW e, e.comm \in CommState
    PROVE  Reported(c, e, <<e.comm>>)
BY DEF Reported

\* A REJECT leaves the object idle and reports a lost session.
LEMMA RejectReported ==
    ASSUME NEW c, Loose(c), NEW ok \in BOOLEAN
    PROVE  LET r == Process(c, "REJECT", ok)
           IN  Ended(r.c) /\ Reported(c, r.c, r.fired)
<1> DEFINE r == Process(c, "REJECT", ok)
<1>1. /\ Ended(r.c) /\ r.c.comm = "NOT_READY"
      /\ r.fired = IF c.comm = "READY" THEN <<"NOT_READY">> ELSE <<>>
  BY RejectOutcome
<1>2. c.comm \in CommState
  BY DEF Loose, ConSmType
<1> SUFFICES Ended(r.c) /\ Reported(c, r.c, r.fired)
  OBVIOUS
<1> HIDE DEF r
<1>3. CASE c.comm = "READY"
  BY <1>1, <1>3, ReportedOne DEF CommState
<1>4. CASE c.comm = "NOT_READY"
  BY <1>1, <1>4, ReportedNothing
<1> QED
  BY <1>1, <1>2, <1>3, <1>4 DEF CommState

\* Reports compose.
LEMMA ReportedThen ==
    ASSUME NEW c, NEW e, NEW g, NEW f, NEW h,
           Reported(c, e, f), Reported(e, g, h)
    PROVE  Reported(c, g, f \o h)
<1>1. f \in Seq(CommState) /\ h \in Seq(CommState)
  BY DEF Reported
<1>2. CASE h = <<>>
  <2>1. f \o h = f
    BY <1>1, <1>2
  <2> QED
    BY <1>2, <2>1 DEF Reported
<1>3. CASE h # <<>>
  <2>1. /\ f \o h \in Seq(CommState) /\ f \o h # <<>>
        /\ (f \o h)[Len(f \o h)] = h[Len(h)]
    BY <1>1, <1>3
  <2> QED
    BY <1>3, <2>1 DEF Reported
<1> QED
  BY <1>2, <1>3

\* process() when its first flush leaves e behind and has a follow-up.
LEMMA FollowUpOutcome ==
    ASSUME NEW c, NEW ev, NEW ok \in BOOLEAN, NEW e, Loose(e),
           NEW x \in {"ACCEPT", "REJECT"},
           Flush(Sm(c, ev), ok).c = e, Flush(Sm(c, ev), ok).followUp = x,
           Reported(c, e, Flush(Sm(c, ev), ok).fired)
    PROVE  LET r == Process(c, ev, ok)
           IN  /\ x = "REJECT" => Ended(r.c)
               /\ x = "ACCEPT" /\ e.state = "CONNECTING" => Live(r.c)
               /\ x = "ACCEPT" /\ e.state # "CONNECTING" => r.c = e
               /\ Reported(c, r.c, r.fired)
<1> DEFINE p == Flush(Sm(c, ev), ok)
           q == Flush(Sm(e, x), ok)
           r == Process(c, ev, ok)
<1>1. p.followUp # None
  BY DEF None
<1>2. /\ r.c = Flush(Sm(p.c, p.followUp), ok).c
      /\ r.fired = p.fired \o Flush(Sm(p.c, p.followUp), ok).fired
  BY <1>1, ProcessSteps, ZenonT(60)
<1>3. r.c = q.c /\ r.fired = p.fired \o q.fired
  <2>1. p.c = e /\ p.followUp = x
    OBVIOUS
  <2> HIDE DEF p
  <2>2. Flush(Sm(p.c, p.followUp), ok) = q
    BY <2>1
  <2> HIDE DEF q
  <2> QED
    BY <1>2, <2>2
<1>a. Reported(c, e, p.fired)
  OBVIOUS
<1>4. Process(e, x, ok) = q
  BY RejectOutcome, AcceptOutcome DEF Loose
<1>5. CASE x = "REJECT"
  <2>1. Ended(q.c) /\ Reported(e, q.c, q.fired)
    BY <1>4, <1>5, RejectReported
  <2>2. Reported(c, q.c, p.fired \o q.fired)
    <3> HIDE DEF p, q
    <3> QED
      BY <1>a, <2>1, ReportedThen
  <2> SUFFICES Ended(r.c) /\ Reported(c, r.c, r.fired)
    BY <1>5
  <2> HIDE DEF p, q, r
  <2> QED
    BY <1>3, <2>1, <2>2
<1>6. CASE x = "ACCEPT"
  <2>1. /\ e.state = "CONNECTING" => Live(q.c) /\ q.fired = <<"READY">>
        /\ e.state # "CONNECTING" => q.c = e /\ q.fired = <<>>
    BY <1>6, AcceptOutcome DEF Loose
  <2>2. Live(q.c) => q.c.comm = "READY"
    BY DEF Live, Good, Loose, ReadyIffSession
  <2>3. Reported(e, q.c, q.fired)
    <3> HIDE DEF q
    <3>1. CASE e.state = "CONNECTING"
      <4>1. q.c.comm = "READY" /\ q.fired = <<q.c.comm>> /\ q.c.comm \in CommState
        BY <2>1, <2>2, <3>1 DEF CommState
      <4> QED
        BY <4>1, ReportedOne
    <3>2. CASE e.state # "CONNECTING"
      BY <2>1, <3>2, ReportedNothing
    <3> QED
      BY <3>1, <3>2
  <2> SUFFICES /\ e.state = "CONNECTING" => Live(r.c)
               /\ e.state # "CONNECTING" => r.c = e
               /\ Reported(c, r.c, r.fired)
    BY <1>6
  <2> HIDE DEF p, q, r
  <2> QED
    BY <1>3, <1>a, <2>1, <2>3, ReportedThen
<1> QED
  BY <1>5, <1>6

\* A request that is sent starts a handshake; one that cannot be sent ends
\* in DISCONNECTED at once.
LEMMA RequestOutcome ==
    ASSUME NEW c, Good(c), NEW ok \in BOOLEAN, NEW ev, NEW st, NEW m,
           \/ c.state = "DISCONNECTED" /\ ev = "ENABLE"
                /\ st = "CONNECTING" /\ m = "ENABLE_REQ"
           \/ c.state = "CONNECTED" /\ ev = "DISABLE"
                /\ st = "DISCONNECTING" /\ m = "DISABLE_REQ"
    PROVE  LET r == Process(c, ev, ok)
           IN  /\ Ended(r.c) \/ Asking(c, r.c)
               /\ Asking(c, r.c) => r.c.pingRep = c.pingRep
               /\ Reported(c, r.c, r.fired)
<1> DEFINE p == Flush(Sm(c, ev), ok)
           e == Con(st, c.comm, IF ok THEN kConRspTimeout ELSE c.rsp,
                    c.ping, c.pingRep, c.reqRep, m)
<1>0. c \in ConSmType /\ Loose(c) /\ st \in State /\ m \in Request
  BY DEF Good, Loose, State, Request
<1>1. Sm(c, ev) = Sending(c, st, m)
  BY SmForm
<1>2. p.c = e /\ p.fired = <<>> /\ p.followUp = IF ok THEN None ELSE "REJECT"
  BY <1>0, <1>1, FlushSending DEF Request, Response
<1>3. /\ e.state = st /\ e.comm = c.comm /\ e.ping = c.ping /\ e.pingRep = c.pingRep
      /\ e.reqRep = c.reqRep /\ e.curReq = m
      /\ e.rsp = IF ok THEN kConRspTimeout ELSE c.rsp
  BY DEF Con
<1>4. e \in ConSmType
  BY <1>0, ConTyped, ConSmFields, ConstTyped
<1>5. c.rsp = Unarmed /\ c.reqRep = 0
  BY DEF Good, Loose, NoResidue
<1> HIDE DEF e
<1>6. Loose(e)
  BY <1>0, <1>3, <1>4, <1>5 DEF Loose, NoResidue, ReadyIffSession
<1>7. CASE ok
  <2>1. Asking(c, e)
    BY <1>0, <1>3, <1>5, <1>6, <1>7, ConstTyped
    DEF Asking, Good, NeverWaitsUntimed
  <2>2. Process(c, ev, ok) = p
    <3>1. p.followUp = None
      BY <1>2, <1>7
    <3> QED
      BY <3>1, ProcessSteps
  <2> QED
    BY <1>2, <1>3, <2>1, <2>2, ReportedNothing
<1>8. CASE ~ok
  <2>1. p.followUp = "REJECT" /\ Reported(c, e, p.fired)
    BY <1>2, <1>3, <1>8, ReportedNothing
  <2>2. /\ Ended(Process(c, ev, ok).c)
        /\ Reported(c, Process(c, ev, ok).c, Process(c, ev, ok).fired)
    BY <1>2, <1>6, <2>1, FollowUpOutcome
  <2> QED
    BY <2>2 DEF Asking, Ended
<1> QED
  BY <1>7, <1>8

\* A transition the table does not list changes and reports nothing.
LEMMA IgnoreOutcome ==
    ASSUME NEW c \in ConSmType, NEW ev, NEW ok \in BOOLEAN, Sm(c, ev) = Ignore(c)
    PROVE  LET r == Process(c, ev, ok) IN r.c = c /\ Reported(c, r.c, r.fired)
<1> DEFINE p == Flush(Sm(c, ev), ok)
<1>1. p.c = c /\ p.fired = <<>> /\ p.followUp = None
  BY FlushIgnore
<1>2. Process(c, ev, ok) = p
  BY <1>1, ProcessSteps
<1> HIDE DEF p
<1> QED
  BY <1>1, <1>2, ReportedNothing

\* The session opened, or opened again, by a request of the peer: it stays
\* open if the answer could be sent.
LEMMA EnableRequestOutcome ==
    ASSUME NEW c, Good(c), NEW ok \in BOOLEAN
    PROVE  LET r == Process(c, "ENABLE_REQUEST", ok)
           IN  /\ Reported(c, r.c, r.fired)
               /\ \/ Ended(r.c)
                  \/ Live(r.c) /\ c.state # "DISCONNECTING"
                  \/ r.c = c /\ c.state = "DISCONNECTING"
<1> DEFINE p == Flush(Sm(c, "ENABLE_REQUEST"), ok)
           r == Process(c, "ENABLE_REQUEST", ok)
           x == IF ok THEN "ACCEPT" ELSE "REJECT"
<1>0. c \in ConSmType /\ Loose(c) /\ x \in {"ACCEPT", "REJECT"}
  BY DEF Good, Loose
<1>1. CASE c.state = "DISCONNECTED"
  <2> DEFINE e == Con("CONNECTING", c.comm, c.rsp, c.ping, c.pingRep, c.reqRep,
                      "ENABLE_RSP")
  <2>1. Sm(c, "ENABLE_REQUEST") = Sending(c, "CONNECTING", "ENABLE_RSP")
    BY <1>1, SmForm
  <2>2. "CONNECTING" \in State /\ "ENABLE_RSP" \in Request \cup Response
        /\ "ENABLE_RSP" \notin Request /\ "ENABLE_RSP" \in Response
    BY DEF State, Request, Response
  <2>3. p.c = e /\ p.fired = <<>> /\ p.followUp = x
    BY <1>0, <2>1, <2>2, FlushSending
  <2>4. e \in ConSmType
    BY <1>0, <2>2, ConTyped, ConSmFields
  <2>5. e.state = "CONNECTING" /\ e.comm = c.comm /\ e.ping = c.ping
    BY DEF Con
  <2> HIDE DEF e
  <2>6. Loose(e)
    BY <1>0, <1>1, <2>4, <2>5 DEF Loose, NoResidue, ReadyIffSession
  <2>7. Reported(c, e, p.fired)
    BY <2>3, <2>5, ReportedNothing
  <2> HIDE DEF x
  <2>8. /\ x = "REJECT" => Ended(r.c)
        /\ x = "ACCEPT" => Live(r.c)
        /\ Reported(c, r.c, r.fired)
    BY <1>0, <2>3, <2>5, <2>6, <2>7, FollowUpOutcome
  <2> QED
    BY <1>0, <1>1, <2>8
<1>2. CASE c.state \in {"CONNECTING", "CONNECTED"}
  <2> DEFINE e == Con("CONNECTED", "READY", Unarmed, kPingTime, 0, 0, "ENABLE_RSP")
  <2>1. Sm(c, "ENABLE_REQUEST") = ToConnected(c, "ENABLE_RSP")
    BY <1>2, SmForm
  <2>2. p.c = e /\ p.fired = <<"READY">> /\ p.followUp = x
    BY <1>0, <2>1, FlushToConnected DEF None
  <2>3. Live(e)
    BY LiveIntro DEF Response
  <2> HIDE DEF e
  <2>4. Loose(e) /\ e.state = "CONNECTED" /\ e.comm = "READY" /\ e.comm \in CommState
    BY <2>3 DEF Live, Good, Loose, ReadyIffSession, CommState
  <2>5. Reported(c, e, p.fired)
    BY <2>2, <2>4, ReportedOne
  <2> HIDE DEF x
  <2>6. /\ x = "REJECT" => Ended(r.c)
        /\ x = "ACCEPT" => r.c = e
        /\ Reported(c, r.c, r.fired)
    BY <1>0, <2>2, <2>4, <2>5, FollowUpOutcome
  <2> QED
    BY <1>0, <1>2, <2>3, <2>6
<1>3. CASE c.state = "DISCONNECTING"
  <2>1. Sm(c, "ENABLE_REQUEST") = Ignore(c)
    BY <1>3, SmForm DEF Event
  <2> QED
    BY <1>0, <1>3, <2>1, IgnoreOutcome
<1> QED
  BY <1>0, <1>1, <1>2, <1>3, ConSmFields DEF State

\* A DISABLE_REQUEST ends a session and is ignored outside of one.
LEMMA DisableRequestOutcome ==
    ASSUME NEW c, Good(c), NEW ok \in BOOLEAN
    PROVE  LET r == Process(c, "DISABLE_REQUEST", ok)
           IN  /\ Reported(c, r.c, r.fired)
               /\ Ended(r.c) \/ r.c = c
<1> DEFINE p == Flush(Sm(c, "DISABLE_REQUEST"), ok)
           r == Process(c, "DISABLE_REQUEST", ok)
           x == IF ok THEN "ACCEPT" ELSE "REJECT"
<1>0. c \in ConSmType /\ Loose(c) /\ x \in {"ACCEPT", "REJECT"}
  BY DEF Good, Loose
<1>1. CASE c.state = "CONNECTED"
  <2> DEFINE e == Con("DISCONNECTED", "NOT_READY", Unarmed, Unarmed, 0, 0, "DISABLE_RSP")
  <2>1. Sm(c, "DISABLE_REQUEST") = ToDisconnected(c, "DISABLE_RSP")
    BY <1>1, SmForm
  <2>2. c.comm = "READY"
    BY <1>0, <1>1, ReadyOnlyInSession
  <2>3. p.c = e /\ p.fired = <<"NOT_READY">> /\ p.followUp = x
    BY <1>0, <2>1, <2>2, FlushToDisconnected DEF None
  <2>4. Ended(e)
    BY IdleIntro, ConstTyped DEF Response
  <2>5. e.comm = "NOT_READY"
    BY DEF Con
  <2> HIDE DEF e
  <2>6. Loose(e) /\ e.state = "DISCONNECTED" /\ e.comm \in CommState
    BY <2>4 DEF Ended, Good, Loose, ConSmType
  <2>7. Reported(c, e, p.fired)
    BY <2>3, <2>5, <2>6, ReportedOne
  <2> HIDE DEF x
  <2>8. /\ x = "REJECT" => Ended(r.c)
        /\ x = "ACCEPT" => r.c = e
        /\ Reported(c, r.c, r.fired)
    BY <1>0, <2>3, <2>6, <2>7, FollowUpOutcome
  <2> QED
    BY <1>0, <2>4, <2>8
<1>2. CASE c.state # "CONNECTED"
  <2>1. Sm(c, "DISABLE_REQUEST") = Ignore(c)
    BY <1>0, <1>2, SmForm, ConSmFields DEF State, Event
  <2> QED
    BY <1>0, <2>1, IgnoreOutcome
<1> QED
  BY <1>1, <1>2

-----------------------------------------------------------------------------
(* The public methods.                                                     *)

\* A method that returns early changes and reports nothing.
LEMMA UnchangedOutcome ==
    ASSUME NEW c
    PROVE  Outcome(c).c = c /\ Reported(c, Outcome(c).c, Outcome(c).fired)
BY ReportedNothing DEF Outcome

\* connect() starts a handshake, or changes nothing: in DISCONNECTING the table drops it.
LEMMA ConnectOutcome ==
    ASSUME NEW c, Good(c), NEW ok \in BOOLEAN
    PROVE  LET r == Connect(c, ok)
           IN  /\ r.c = c \/ Ended(r.c) \/ Asking(c, r.c) \/ c.state = "DISCONNECTING"
               /\ c.state = "DISCONNECTING" => r.c = c
               /\ Asking(c, r.c) => r.c.pingRep = c.pingRep
               /\ Reported(c, r.c, r.fired)
<1> DEFINE r == Connect(c, ok)
<1>0. c \in ConSmType
  BY DEF Good, Loose
<1>1. CASE c.state \in {"CONNECTED", "CONNECTING"}
  <2>1. r = Outcome(c)
    BY <1>1 DEF Connect
  <2>2. ~ Asking(c, c)
    BY DEF Asking
  <2> HIDE DEF r
  <2> QED
    BY <1>1, <2>1, <2>2, UnchangedOutcome DEF r
<1>2. CASE c.state = "DISCONNECTED"
  <2>1. r = Process(c, "ENABLE", ok)
    BY <1>2 DEF Connect
  <2> QED
    BY <1>2, <2>1, RequestOutcome
<1>3. CASE c.state = "DISCONNECTING"
  <2>1. r = Process(c, "ENABLE", ok) /\ Sm(c, "ENABLE") = Ignore(c)
    BY <1>3, SmForm DEF Connect, Event
  <2>2. r.c = c /\ Reported(c, r.c, r.fired)
    BY <1>0, <2>1, IgnoreOutcome
  <2>3. ~ Asking(c, c)
    BY DEF Asking
  <2> QED
    BY <1>3, <2>2, <2>3
<1> QED
  BY <1>0, <1>1, <1>2, <1>3, ConSmFields DEF State

\* disconnect() starts the closing handshake of a session, with pingRep_ cleared.
LEMMA DisconnectOutcome ==
    ASSUME NEW c, Good(c), NEW ok \in BOOLEAN
    PROVE  LET r == Disconnect(c, ok)
           IN  /\ r.c = c \/ Ended(r.c) \/ Asking(c, r.c)
               /\ Asking(c, r.c) => r.c.pingRep = 0
               /\ Reported(c, r.c, r.fired)
<1> DEFINE r == Disconnect(c, ok)
<1>0. c \in ConSmType
  BY DEF Good, Loose
<1>1. CASE c.state = "CONNECTED"
  <2> DEFINE e == [c EXCEPT !.pingRep = 0]
  <2>1. /\ e \in ConSmType /\ e.state = c.state /\ e.comm = c.comm /\ e.ping = c.ping
        /\ e.rsp = c.rsp /\ e.pingRep = 0 /\ e.reqRep = c.reqRep /\ e.curReq = c.curReq
    BY <1>0, ConstTyped DEF ConSmType
  <2>2. r = Process(e, "DISABLE", ok)
    BY <1>1 DEF Disconnect
  <2> HIDE DEF e
  <2>3. Good(e)
    BY <2>1 DEF Good, Loose, NeverWaitsUntimed, NoResidue, ReadyIffSession
  <2>4. /\ Ended(r.c) \/ Asking(e, r.c)
        /\ Asking(e, r.c) => r.c.pingRep = e.pingRep
        /\ Reported(e, r.c, r.fired)
    BY <1>1, <2>1, <2>2, <2>3, RequestOutcome
  <2>5. Asking(e, r.c) <=> Asking(c, r.c)
    BY <2>1 DEF Asking
  <2>6. Reported(c, r.c, r.fired)
    BY <2>1, <2>4 DEF Reported
  <2> QED
    BY <2>1, <2>4, <2>5, <2>6
<1>2. CASE c.state # "CONNECTED"
  <2>1. r = Outcome(c)
    BY <1>2 DEF Disconnect
  <2>2. ~ Asking(c, c)
    BY DEF Asking
  <2> HIDE DEF r
  <2> QED
    BY <2>1, <2>2, UnchangedOutcome DEF r
<1> QED
  BY <1>1, <1>2

\* reset() leaves the object idle and reports a lost session.
LEMMA ResetOutcome ==
    ASSUME NEW c, Good(c)
    PROVE  Ended(Reset(c).c) /\ Reported(c, Reset(c).c, Reset(c).fired)
<1> DEFINE e == Con("DISCONNECTED", "NOT_READY", Unarmed, Unarmed, 0, 0, c.curReq)
<1>0. c \in ConSmType
  BY DEF Good, Loose
<1>1. Reset(c).c = e
  BY <1>0 DEF Reset, Outcome, Con, ConSmType
<1>2. Reset(c).fired = IF c.comm = "READY" THEN <<"NOT_READY">> ELSE <<>>
  BY DEF Reset, Outcome
<1>3. Ended(e)
  BY <1>0, IdleIntro, ConstTyped, ConSmFields
<1>4. e.comm = "NOT_READY"
  BY DEF Con
<1>5. c.comm \in {"READY", "NOT_READY"}
  BY <1>0, ConSmFields DEF CommState
<1> HIDE DEF e
<1>6. CASE c.comm = "READY"
  BY <1>1, <1>2, <1>3, <1>4, <1>6, ReportedOne DEF CommState
<1>7. CASE c.comm = "NOT_READY"
  BY <1>1, <1>2, <1>3, <1>4, <1>7, ReportedNothing
<1> QED
  BY <1>5, <1>6, <1>7

\* The keep-alive of a session starts over.
Refreshed(c, e) ==
    /\ Good(e)
    /\ e.state = c.state /\ e.comm = c.comm
    /\ e.rsp = c.rsp /\ e.reqRep = c.reqRep
    /\ e.pingRep = 0
    /\ c.state \in {"CONNECTED", "DISCONNECTING"} => e.ping = kPingTime

\* schedulePingStd() refreshes the keep-alive of a session.
LEMMA SchedulePingOutcome ==
    ASSUME NEW c, Good(c)
    PROVE  Refreshed(c, SchedulePingStd(c))
<1> DEFINE e == SchedulePingStd(c)
<1>0. c \in ConSmType
  BY DEF Good, Loose
<1>1. PingArmed(c) <=> c.state \in {"CONNECTED", "DISCONNECTING"}
  BY DEF Good, Loose, ReadyIffSession, PingArmed
<1>2. CASE PingArmed(c)
  <2>1. e = [c EXCEPT !.pingRep = 0, !.ping = kPingTime]
    BY <1>2 DEF SchedulePingStd
  <2>2. e \in ConSmType
    BY <1>0, <2>1, ConstTyped DEF ConSmType
  <2>3. /\ e.state = c.state /\ e.comm = c.comm /\ e.rsp = c.rsp /\ e.reqRep = c.reqRep
        /\ e.pingRep = 0 /\ e.ping = kPingTime /\ e.curReq = c.curReq
    BY <1>0, <2>1 DEF ConSmType
  <2> HIDE DEF e
  <2>4. Good(e)
    BY <1>1, <1>2, <2>2, <2>3, ConstTyped
    DEF Good, Loose, NeverWaitsUntimed, NoResidue, ReadyIffSession
  <2> QED
    BY <2>3, <2>4 DEF Refreshed, e
<1>3. CASE ~PingArmed(c)
  <2>1. e = [c EXCEPT !.pingRep = 0, !.ping = Unarmed]
    BY <1>3 DEF SchedulePingStd
  <2>2. e \in ConSmType
    BY <1>0, <2>1, ConstTyped DEF ConSmType
  <2>3. /\ e.state = c.state /\ e.comm = c.comm /\ e.rsp = c.rsp /\ e.reqRep = c.reqRep
        /\ e.pingRep = 0 /\ e.ping = Unarmed /\ e.curReq = c.curReq
    BY <1>0, <2>1 DEF ConSmType
  <2> HIDE DEF e
  <2>4. Good(e)
    BY <1>1, <1>3, <2>2, <2>3
    DEF Good, Loose, NeverWaitsUntimed, NoResidue, ReadyIffSession
  <2> QED
    BY <1>1, <1>3, <2>3, <2>4 DEF Refreshed, e
<1> QED
  BY <1>2, <1>3

\* A message of the peer leaves the object as it was, idle, in a new session,
\* or with its keep-alive refreshed; it renews a running session only if it
\* is one of the signs of life.
LEMMA FrameOutcome ==
    ASSUME NEW c, Good(c), NEW m \in ConMsg, NEW ok \in BOOLEAN
    PROVE  LET r == OnFrame(c, m, ok)
           IN  /\ \/ r.c = c
                  \/ Ended(r.c)
                  \/ /\ Live(r.c)
                     /\ c.comm = "READY" => m = "ENABLE_REQ" /\ c.state = "CONNECTED"
                  \/ m = "PING_RSP" /\ Refreshed(c, r.c)
               /\ Reported(c, r.c, r.fired)
<1> DEFINE r == OnFrame(c, m, ok)
<1>0. c \in ConSmType /\ Loose(c)
  BY DEF Good, Loose
<1>00. c.comm = "READY" => c.state \in {"CONNECTED", "DISCONNECTING"}
  BY <1>0, ReadyOnlyInSession
<1>1. CASE m = "ENABLE_REQ"
  <2>1. r = Process(c, "ENABLE_REQUEST", ok)
    BY <1>1 DEF OnFrame
  <2> QED
    BY <1>00, <1>1, <2>1, EnableRequestOutcome
<1>2. CASE m = "ENABLE_RSP"
  <2> DEFINE q == Flush(Sm(c, "ACCEPT"), ok)
  <2>1. r = Process(c, "ACCEPT", ok)
    BY <1>2 DEF OnFrame
  <2>2. /\ r = q
        /\ c.state = "CONNECTING" => Live(q.c) /\ q.fired = <<"READY">>
        /\ c.state # "CONNECTING" => q.c = c /\ q.fired = <<>>
    BY <1>0, <2>1, AcceptOutcome
  <2> SUFFICES /\ r.c = c \/ (Live(r.c) /\ c.state = "CONNECTING")
               /\ Reported(c, r.c, r.fired)
    BY <1>00
  <2> HIDE DEF q, r
  <2>3. CASE c.state = "CONNECTING"
    <3>1. r.c.comm = "READY" /\ r.fired = <<r.c.comm>> /\ r.c.comm \in CommState
      BY <2>2, <2>3 DEF Live, Good, Loose, ReadyIffSession, CommState
    <3> QED
      BY <2>2, <2>3, <3>1, ReportedOne
  <2>4. CASE c.state # "CONNECTING"
    <3>1. r.c = c /\ r.fired = <<>>
      BY <2>2, <2>4
    <3> QED
      BY <3>1, ReportedNothing
  <2> QED
    BY <2>3, <2>4
<1>3. CASE m = "DISABLE_REQ"
  <2>1. r = Process(c, "DISABLE_REQUEST", ok)
    BY <1>3 DEF OnFrame
  <2> QED
    BY <2>1, DisableRequestOutcome
<1>4. CASE m = "DISABLE_RSP"
  <2>1. r = Process(c, "REJECT", ok)
    BY <1>4 DEF OnFrame
  <2> QED
    BY <1>0, <2>1, RejectReported
<1>5. CASE m = "PING_RSP"
  <2>1. r = Outcome(SchedulePingStd(c))
    BY <1>5 DEF OnFrame
  <2>2. r.c = SchedulePingStd(c) /\ r.fired = <<>>
    BY <2>1 DEF Outcome
  <2>3. Refreshed(c, r.c)
    BY <2>2, SchedulePingOutcome
  <2>4. r.c.comm = c.comm
    BY <2>3 DEF Refreshed
  <2> SUFFICES Refreshed(c, r.c) /\ Reported(c, r.c, r.fired)
    BY <1>5
  <2> HIDE DEF r
  <2> QED
    BY <2>2, <2>3, <2>4, ReportedNothing
<1>6. CASE m = "PING_REQ"
  <2>1. r = Outcome(c)
    BY <1>6 DEF OnFrame
  <2> QED
    BY <2>1, UnchangedOutcome
<1> QED
  BY <1>1, <1>2, <1>3, <1>4, <1>5, <1>6 DEF ConMsg, Request, Response

\* One deadline before and after a tick: it was not reached and stays as it
\* is, or it was reached and is armed again with one more repetition.
Rearmed(t, n, limit, period, t2, n2) ==
    \/ t # 0 /\ t2 = t /\ n2 = n
    \/ t = 0 /\ n < limit /\ n2 = n + 1 /\ t2 = period

RspTicked(c, e) == Rearmed(c.rsp, c.reqRep, kConRetryMax, kConRspTimeout,
                           e.rsp, e.reqRep)

PingTicked(c, e) == Rearmed(c.ping, c.pingRep, kMaxPingRepeat + 1,
                            kRepeatPingTime, e.ping, e.pingRep)

\* The first half of tick() leaves the object as it was, gives up the
\* handshake, or repeats its request.
LEMMA TickRspOutcome ==
    ASSUME NEW c, Good(c), NEW ok \in BOOLEAN
    PROVE  LET r == TickRsp(c, ok)
           IN  /\ Reported(c, r.c, r.fired)
               /\ \/ Ended(r.c)
                  \/ /\ Good(r.c) /\ r.c.state = c.state /\ r.c.comm = c.comm
                     /\ r.c.ping = c.ping /\ r.c.pingRep = c.pingRep
                     /\ RspTicked(c, r.c)
<1> DEFINE r == TickRsp(c, ok)
           over == [c EXCEPT !.rsp = Unarmed]
           again == [over EXCEPT !.reqRep = @ + 1]
           sent == [again EXCEPT !.rsp = kConRspTimeout]
           retrying == c.reqRep < kConRetryMax
                       /\ c.state \in {"CONNECTING", "DISCONNECTING"}
<1>0. c \in ConSmType /\ Loose(c) /\ NeverWaitsUntimed(c)
  BY DEF Good, Loose
<1>1. CASE c.rsp # 0
  <2>1. r = Outcome(c)
    BY <1>1 DEF TickRsp
  <2>2. RspTicked(c, c)
    BY <1>1 DEF RspTicked, Rearmed
  <2>3. r.c = c /\ Reported(c, r.c, r.fired)
    BY <2>1, UnchangedOutcome
  <2> HIDE DEF r
  <2> QED
    BY <2>2, <2>3 DEF r
<1>2. ASSUME c.rsp = 0
      PROVE  /\ Reported(c, r.c, r.fired)
             /\ \/ Ended(r.c)
                \/ /\ Good(r.c) /\ r.c.state = c.state /\ r.c.comm = c.comm
                   /\ r.c.ping = c.ping /\ r.c.pingRep = c.pingRep
                   /\ RspTicked(c, r.c)
  <2>1. c.state \in {"CONNECTING", "DISCONNECTING"}
    BY <1>0, <1>2, ConstTyped, ConSmFields DEF Loose, NoResidue, State
  <2>2. /\ over \in ConSmType /\ over.state = c.state /\ over.comm = c.comm
        /\ over.rsp = Unarmed /\ over.ping = c.ping /\ over.pingRep = c.pingRep
        /\ over.reqRep = c.reqRep /\ over.curReq = c.curReq
    BY <1>0, ConstTyped DEF ConSmType
  <2>3. /\ retrying => again \in ConSmType
        /\ again.state = c.state /\ again.comm = c.comm
        /\ again.rsp = Unarmed /\ again.ping = c.ping /\ again.pingRep = c.pingRep
        /\ again.reqRep = c.reqRep + 1 /\ again.curReq = c.curReq
    <3> HIDE DEF over
    <3>1. retrying => c.reqRep + 1 \in 0 .. kConRetryMax
      BY <1>0, ConSmFields, TimingAssumption
    <3> QED
      BY <2>2, <3>1 DEF ConSmType
  <2>4. /\ retrying => sent \in ConSmType
        /\ retrying => /\ sent.state = c.state /\ sent.comm = c.comm
                       /\ sent.rsp = kConRspTimeout /\ sent.ping = c.ping
                       /\ sent.pingRep = c.pingRep
                       /\ sent.reqRep = c.reqRep + 1 /\ sent.curReq = c.curReq
    <3> HIDE DEF again
    <3> QED
      BY <2>3, ConstTyped DEF ConSmType
  <2>5. r = IF ~retrying THEN Process(over, "REJECT", ok)
            ELSE IF ok THEN [Outcome(sent) EXCEPT !.out = <<c.curReq>>]
            ELSE Process(again, "REJECT", ok)
    BY <1>2 DEF TickRsp
  <2> HIDE DEF over, again, sent
  <2>6. Loose(over)
    BY <1>0, <2>1, <2>2 DEF Loose, NoResidue, ReadyIffSession
  <2>7. retrying => Loose(again)
    BY <1>0, <2>1, <2>3 DEF Loose, NoResidue, ReadyIffSession
  <2>8. retrying => Good(sent) /\ RspTicked(c, sent)
    BY <1>0, <1>2, <2>1, <2>4, ConstTyped
    DEF Good, Loose, NoResidue, ReadyIffSession, NeverWaitsUntimed, RspTicked, Rearmed
  <2>9. CASE ~retrying
    <3>1. r = Process(over, "REJECT", ok)
      BY <2>5, <2>9
    <3>2. Ended(r.c) /\ Reported(over, r.c, r.fired)
      BY <2>6, <3>1, RejectReported
    <3> QED
      BY <2>2, <3>2 DEF Reported
  <2>10. CASE retrying /\ ok
    <3>1. r.c = sent /\ r.fired = <<>>
      BY <2>5, <2>10 DEF Outcome
    <3> HIDE DEF r
    <3> QED
      BY <2>4, <2>8, <2>10, <3>1, ReportedNothing
  <2>11. CASE retrying /\ ~ok
    <3>1. r = Process(again, "REJECT", ok)
      BY <2>5, <2>11
    <3>2. Ended(r.c) /\ Reported(again, r.c, r.fired)
      BY <2>7, <2>11, <3>1, RejectReported
    <3> QED
      BY <2>3, <3>2 DEF Reported
  <2> QED
    BY <2>9, <2>10, <2>11
<1> QED
  BY <1>1, <1>2

\* The second half of tick() leaves the object as it was, drops the session,
\* or sends a ping; the keep-alive is only ever due in a session.
LEMMA TickPingOutcome ==
    ASSUME NEW c, Good(c), NEW ok \in BOOLEAN
    PROVE  LET r == TickPing(c, ok)
           IN  /\ Reported(c, r.c, r.fired)
               /\ \/ Ended(r.c)
                  \/ /\ Good(r.c) /\ r.c.state = c.state /\ r.c.comm = c.comm
                     /\ r.c.rsp = c.rsp /\ r.c.reqRep = c.reqRep
                     /\ PingTicked(c, r.c)
               /\ c.ping # 0 => r.c = c
<1> DEFINE r == TickPing(c, ok)
           over == [c EXCEPT !.ping = Unarmed]
           again == [over EXCEPT !.pingRep = @ + 1]
           sent == [again EXCEPT !.ping = kRepeatPingTime]
           spent == c.pingRep > kMaxPingRepeat
<1>0. c \in ConSmType /\ Loose(c) /\ NeverWaitsUntimed(c)
  BY DEF Good, Loose
<1>1. CASE c.ping # 0
  <2>1. r = Outcome(c)
    BY <1>1 DEF TickPing
  <2>2. PingTicked(c, c)
    BY <1>1 DEF PingTicked, Rearmed
  <2>3. r.c = c /\ Reported(c, r.c, r.fired)
    BY <2>1, UnchangedOutcome
  <2> HIDE DEF r
  <2> QED
    BY <2>2, <2>3 DEF r
<1>2. ASSUME c.ping = 0
      PROVE  /\ Reported(c, r.c, r.fired)
             /\ \/ Ended(r.c)
                \/ /\ Good(r.c) /\ r.c.state = c.state /\ r.c.comm = c.comm
                   /\ r.c.rsp = c.rsp /\ r.c.reqRep = c.reqRep
                   /\ PingTicked(c, r.c)
  <2>1. c.state \in {"CONNECTED", "DISCONNECTING"} /\ c.comm = "READY"
    BY <1>0, <1>2, ConstTyped, ConSmFields DEF Loose, NoResidue, State, ReadyIffSession
  <2>2. /\ over \in ConSmType /\ over.state = c.state /\ over.comm = c.comm
        /\ over.rsp = c.rsp /\ over.ping = Unarmed /\ over.pingRep = c.pingRep
        /\ over.reqRep = c.reqRep /\ over.curReq = c.curReq
    BY <1>0, ConstTyped DEF ConSmType
  <2>3. /\ ~spent => again \in ConSmType
        /\ again.state = c.state /\ again.comm = c.comm
        /\ again.rsp = c.rsp /\ again.ping = Unarmed /\ again.pingRep = c.pingRep + 1
        /\ again.reqRep = c.reqRep /\ again.curReq = c.curReq
    <3> HIDE DEF over
    <3>1. ~spent => c.pingRep + 1 \in 0 .. kMaxPingRepeat + 1
      BY <1>0, ConSmFields, TimingAssumption
    <3> QED
      BY <2>2, <3>1 DEF ConSmType
  <2>4. ~spent => /\ sent \in ConSmType
                  /\ sent.state = c.state /\ sent.comm = c.comm
                  /\ sent.ping = kRepeatPingTime /\ sent.rsp = c.rsp
                  /\ sent.pingRep = c.pingRep + 1
                  /\ sent.reqRep = c.reqRep /\ sent.curReq = c.curReq
    <3> HIDE DEF again
    <3> QED
      BY <2>3, ConstTyped DEF ConSmType
  <2>5. PingArmed(again)
    <3> HIDE DEF again
    <3> QED
      BY <2>1, <2>3 DEF PingArmed
  <2>6. r = IF spent THEN Process(over, "REJECT", ok)
            ELSE IF ~ok THEN Process(again, "REJECT", ok)
            ELSE [Outcome(sent) EXCEPT !.out = <<"PING_REQ">>]
    BY <1>2, <2>1, <2>5 DEF TickPing
  <2> HIDE DEF over, again, sent
  <2>7. Loose(over)
    BY <1>0, <2>1, <2>2 DEF Loose, NoResidue, ReadyIffSession
  <2>8. ~spent => Loose(again)
    BY <1>0, <2>1, <2>3 DEF Loose, NoResidue, ReadyIffSession
  <2>9. ~spent => Good(sent) /\ PingTicked(c, sent)
    <3>1. ~spent => c.pingRep < kMaxPingRepeat + 1
      BY <1>0, ConSmFields, TimingAssumption
    <3> QED
      BY <1>0, <1>2, <2>1, <2>4, <3>1, ConstTyped
      DEF Good, Loose, NoResidue, ReadyIffSession, NeverWaitsUntimed, PingTicked, Rearmed
  <2>10. CASE spent
    <3>1. r = Process(over, "REJECT", ok)
      BY <2>6, <2>10
    <3>2. Ended(r.c) /\ Reported(over, r.c, r.fired)
      BY <2>7, <3>1, RejectReported
    <3> QED
      BY <2>2, <3>2 DEF Reported
  <2>11. CASE ~spent /\ ok
    <3>1. r.c = sent /\ r.fired = <<>>
      BY <2>6, <2>11 DEF Outcome
    <3> HIDE DEF r
    <3> QED
      BY <2>4, <2>9, <2>11, <3>1, ReportedNothing
  <2>12. CASE ~spent /\ ~ok
    <3>1. r = Process(again, "REJECT", ok)
      BY <2>6, <2>12
    <3>2. Ended(r.c) /\ Reported(again, r.c, r.fired)
      BY <2>8, <2>12, <3>1, RejectReported
    <3> QED
      BY <2>3, <3>2 DEF Reported
  <2> QED
    BY <2>10, <2>11, <2>12
<1> QED
  BY <1>1, <1>2

\* What a tick leaves of an object that is still in the same state.
Ticked(c, e) ==
    /\ Good(e) /\ e.state = c.state /\ e.comm = c.comm
    /\ RspTicked(c, e) /\ PingTicked(c, e)

\* A tick ends the handshake or the session, or keeps it with the reached
\* deadlines armed again.
LEMMA TickOutcome ==
    ASSUME NEW c, Good(c), NEW ok1 \in BOOLEAN, NEW ok2 \in BOOLEAN
    PROVE  LET r == Tick(c, ok1, ok2)
           IN  /\ Ended(r.c) \/ Ticked(c, r.c)
               /\ Reported(c, r.c, r.fired)
<1> DEFINE p == TickRsp(c, ok1)
           q == TickPing(p.c, ok2)
           r == Tick(c, ok1, ok2)
<1>1. r.c = q.c /\ r.fired = p.fired \o q.fired
  <2>1. r = [q EXCEPT !.out = p.out \o q.out, !.fired = p.fired \o q.fired]
    BY DEF Tick, Then
  <2>2. q = [c |-> q.c, out |-> q.out, fired |-> q.fired, followUp |-> q.followUp]
    BY ZenonT(60) DEF TickPing, Process, Flush, Then, Outcome
  <2> HIDE DEF p, q, r
  <2> QED
    BY <2>1, <2>2
<1>2. /\ Reported(c, p.c, p.fired)
      /\ \/ Ended(p.c)
         \/ /\ Good(p.c) /\ p.c.state = c.state /\ p.c.comm = c.comm
            /\ p.c.ping = c.ping /\ p.c.pingRep = c.pingRep
            /\ RspTicked(c, p.c)
  BY TickRspOutcome
<1>3. Good(p.c)
  BY <1>2 DEF Ended
<1>4. /\ Reported(p.c, q.c, q.fired)
      /\ \/ Ended(q.c)
         \/ /\ Good(q.c) /\ q.c.state = p.c.state /\ q.c.comm = p.c.comm
            /\ q.c.rsp = p.c.rsp /\ q.c.reqRep = p.c.reqRep
            /\ PingTicked(p.c, q.c)
      /\ p.c.ping # 0 => q.c = p.c
  BY <1>3, TickPingOutcome
<1> SUFFICES /\ Ended(r.c) \/ Ticked(c, r.c)
             /\ Reported(c, r.c, r.fired)
  OBVIOUS
<1> HIDE DEF p, q, r
<1>5. Reported(c, r.c, r.fired)
  BY <1>1, <1>2, <1>4, ReportedThen
<1>6. CASE Ended(p.c)
  <2>1. p.c.ping # 0
    BY <1>6, ConstTyped DEF Ended, Good, Loose, NoResidue
  <2> QED
    BY <1>1, <1>4, <1>5, <1>6, <2>1
<1>7. CASE ~Ended(p.c)
  BY <1>1, <1>2, <1>4, <1>5, <1>7 DEF Ticked, RspTicked, PingTicked
<1> QED
  BY <1>6, <1>7

-----------------------------------------------------------------------------
\* Time only brings the armed deadlines nearer: an armed timer stays armed,
\* and nothing else changes.
LEMMA ElapsedGood ==
    ASSUME NEW c, Good(c)
    PROVE  Good(Elapsed(c))
<1> DEFINE e == Elapsed(c)
<1>1. c \in ConSmType
  BY DEF Good, Loose
<1>2. c.ping \in Nat \cup {-1} /\ c.rsp \in Nat \cup {-1}
  BY <1>1, ConSmFields DEF Timer, Unarmed
<1>3. CountDown(c.ping) \in Timer /\ CountDown(c.rsp) \in Timer
  BY <1>2 DEF CountDown, Timer, Unarmed
<1>4. e \in ConSmType
  BY <1>1, <1>3 DEF Elapsed, ConSmType
<1>5. /\ e.state = c.state /\ e.comm = c.comm /\ e.pingRep = c.pingRep
      /\ e.reqRep = c.reqRep /\ e.curReq = c.curReq
      /\ e.ping = CountDown(c.ping) /\ e.rsp = CountDown(c.rsp)
  BY <1>1 DEF Elapsed, ConSmType
<1> HIDE DEF e
<1>6. /\ e.ping = Unarmed <=> c.ping = Unarmed
      /\ e.rsp = Unarmed <=> c.rsp = Unarmed
  BY <1>2, <1>5 DEF CountDown, Unarmed
<1>7. Good(e)
  BY <1>4, <1>5, <1>6
  DEF Good, Loose, NoResidue, ReadyIffSession, NeverWaitsUntimed
<1> QED
  BY <1>7 DEF e

=============================================================================
