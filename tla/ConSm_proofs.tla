---------------------------- MODULE ConSm_proofs ----------------------------
(***************************************************************************)
(* Proofs about ConSm for every value of the timing constants.             *)
(*                                                                         *)
(* ConSmOps_proofs says what each method can leave behind.  Here every such *)
(* outcome is shown to keep the inductive invariant, which ties the two    *)
(* observed stretches of time to the counters and deadlines of the object. *)
(* The second part shows that ConSm implements LinkSession.                *)
(***************************************************************************)
EXTENDS ConSm, ConSmOps_proofs

-----------------------------------------------------------------------------
(* The inductive invariant.                                                *)

\* The time n periods may take when every tick of them is as late as it may.
Spent(n, period) == n * Overdue(period)

\* A reached deadline has been waiting for the tick for all but one of the
\* units since the last tick.
Grace(t, l) == IF t = 0 THEN l - 1 ELSE 0

\* A deadline can only have been reached since the last tick.
Due(c, l) == (c.ping = 0 => l >= 1) /\ (c.rsp = 0 => l >= 1)

\* disconnect() clears pingRep_ without arming the keep-alive again.
Slack(c) == IF c.state = "DISCONNECTING" THEN PingRound ELSE 0

\* The silence so far and the time to the next ping fit in the periods that
\* pingRep_ has counted.
QuietOk(c, l, q) ==
    c.state \in {"CONNECTED", "DISCONNECTING"} =>
        q + c.ping <= kPingTime + Spent(c.pingRep, kRepeatPingTime) + Slack(c)
                        + Grace(c.ping, l)

\* The handshake so far and the time to the next retransmission fit in the
\* periods that reqRep_ has counted.
WaitOk(c, l, w) ==
    c.state \in Handshake =>
        w + c.rsp <= kConRspTimeout + Spent(c.reqRep, kConRspTimeout)
                        + Grace(c.rsp, l)

IInv ==
    /\ TypeOK
    /\ Good(con)
    /\ told = con.comm
    /\ Due(con, late)
    /\ QuietOk(con, late, quiet)
    /\ WaitOk(con, late, waited)

\* Counting periods: none, one more, and no more than the limit.
LEMMA SpentRules ==
    ASSUME NEW t \in Nat \ {0}
    PROVE  /\ Spent(0, t) = 0
           /\ \A n \in Nat : /\ Spent(n, t) \in Nat
                             /\ Spent(n + 1, t) = Spent(n, t) + t + MaxLate
                             /\ \A m \in 0 .. n : Spent(m, t) <= Spent(n, t)
<1> DEFINE k == t + MaxLate
<1>0. k \in Nat
  BY LateAssumption
<1>1. \A n : Spent(n, t) = n * k
  BY DEF Spent, Overdue
<1> HIDE DEF k
<1>2. 0 * k = 0
  BY <1>0
<1>3. ASSUME NEW n \in Nat
      PROVE  n * k \in Nat /\ (n + 1) * k = n * k + k
  BY <1>0
<1>4. ASSUME NEW n \in Nat, NEW m \in 0 .. n
      PROVE  m * k <= n * k
  <2>1. n - m \in Nat /\ m \in Nat
    OBVIOUS
  <2>2. PICK d \in Nat : n = m + d
    BY <2>1
  <2>3. (m + d) * k = m * k + d * k /\ d * k \in Nat /\ m * k \in Nat
    BY <1>0, <2>1
  <2> QED
    BY <2>2, <2>3
<1> QED
  BY <1>1, <1>2, <1>3, <1>4, LateAssumption DEF k

\* A number of periods is a time.
LEMMA SpentNat ==
    ASSUME NEW t \in Nat \ {0}, NEW n \in Nat
    PROVE  Spent(n, t) \in Nat
BY SpentRules

\* Fewer periods take no more time.
LEMMA SpentMonotone ==
    ASSUME NEW t \in Nat \ {0}, NEW n \in Nat, NEW m \in 0 .. n
    PROVE  Spent(m, t) <= Spent(n, t)
BY SpentRules

\* One period more.
LEMMA SpentNext ==
    ASSUME NEW t \in Nat \ {0}, NEW n \in Nat
    PROVE  Spent(n + 1, t) = Spent(n, t) + t + MaxLate
BY SpentRules

\* The keep-alive round is the time of all repeated pings.
LEMMA RoundIsSpent ==
    /\ PingRound = Spent(kMaxPingRepeat + 1, kRepeatPingTime)
    /\ PingRound \in Nat
<1>1. PingRound = Spent(kMaxPingRepeat + 1, kRepeatPingTime)
  BY DEF PingRound, Spent
<1>2. kRepeatPingTime \in Nat \ {0} /\ kMaxPingRepeat + 1 \in Nat
  BY TimingAssumption
<1> QED
  BY <1>1, <1>2, SpentRules

\* The initial object is idle.
LEMMA InitInv == Init => IInv
<1> SUFFICES ASSUME Init PROVE IInv
  OBVIOUS
<1>1. con = Con("DISCONNECTED", "NOT_READY", Unarmed, Unarmed, 0, 0, "ENABLE_REQ")
  BY DEF Init, InitConSm, Con
<1>2. Ended(con)
  BY <1>1, IdleIntro, ConstTyped DEF Request
<1>3. con.comm = "NOT_READY"
  BY <1>1 DEF Con
<1>4. /\ con \in ConSmType /\ con.state = "DISCONNECTED"
      /\ con.rsp = Unarmed /\ con.ping = Unarmed
  BY <1>2 DEF Ended, Good, Loose, NoResidue
<1>5. /\ fired \in Seq(CommState) /\ told \in CommState /\ told = con.comm
      /\ late = 0 /\ quiet \in Nat /\ waited \in Nat
  BY <1>3 DEF Init, CommState
<1>6. TypeOK
  BY <1>4, <1>5, LateAssumption DEF TypeOK
<1> QED
  BY <1>2, <1>4, <1>5, <1>6, ConstTyped
  DEF IInv, Ended, Due, QuietOk, WaitOk, Handshake

\* The parts of the invariant that only name what the methods report.
LEMMA TakeTold ==
    ASSUME IInv, NEW r, NEW alive \in BOOLEAN, Take(r, alive),
           Good(r.c), Reported(con, r.c, r.fired), late' \in 0 .. MaxLate + 1
    PROVE  TypeOK' /\ Good(con)' /\ (told = con.comm)'
<1>1. con' = r.c /\ fired' = r.fired
  BY DEF Take
<1>2. told' = r.c.comm
  <2>1. told = con.comm
    BY DEF IInv
  <2> QED
    BY <2>1 DEF Take, Reported
<1>3. quiet' \in Nat /\ waited' \in Nat
  BY DEF Take, IInv, TypeOK
<1>4. r.c \in ConSmType /\ r.c.comm \in CommState
  BY DEF Good, Loose, ConSmType
<1>5. fired' \in Seq(CommState)
  BY <1>1 DEF Reported
<1> QED
  BY <1>1, <1>2, <1>3, <1>4, <1>5 DEF TypeOK

\* Every method but tick() keeps the invariant.
LEMMA TakeInv ==
    ASSUME IInv, NEW r, NEW alive \in BOOLEAN, Take(r, alive), UNCHANGED late,
           Reported(con, r.c, r.fired),
           \/ r.c = con
           \/ Ended(r.c)
           \/ Live(r.c) /\ (con.comm = "READY" => alive)
           \/ Refreshed(con, r.c) /\ alive
           \/ Asking(con, r.c) /\ r.c.pingRep \in {0, con.pingRep}
    PROVE  IInv'
<1> DEFINE e == r.c
           Timing == Due(con', late') /\ QuietOk(con', late', quiet')
                        /\ WaitOk(con', late', waited')
<1>0. /\ con' = e /\ late' = late
      /\ quiet' = IF alive \/ con.comm # "READY" \/ e.comm # "READY" THEN 0 ELSE quiet
      /\ waited' = IF e.state = con.state THEN waited ELSE 0
  BY DEF Take
<1>1. Good(e)
  BY DEF Ended, Live, Refreshed, Asking, IInv
<1>2. TypeOK' /\ Good(con)' /\ (told = con.comm)'
  BY <1>1, TakeTold DEF IInv, TypeOK
<1> SUFFICES Timing
  BY <1>2 DEF IInv
<1>3. /\ Good(con) /\ con \in ConSmType /\ e \in ConSmType
      /\ Due(con, late) /\ QuietOk(con, late, quiet) /\ WaitOk(con, late, waited)
      /\ late \in 0 .. MaxLate + 1 /\ quiet \in Nat /\ waited \in Nat
  BY <1>1 DEF IInv, TypeOK, Good, Loose
<1>4. Spent(0, kRepeatPingTime) = 0 /\ Spent(0, kConRspTimeout) = 0
      /\ \A n \in Nat : Spent(n, kRepeatPingTime) \in Nat
                        /\ Spent(n, kConRspTimeout) \in Nat
  BY SpentRules, TimingAssumption
<1>5. /\ con.pingRep \in Nat /\ con.reqRep \in Nat
      /\ con.ping \in Nat \cup {-1} /\ con.rsp \in Nat \cup {-1}
      /\ e.pingRep \in Nat /\ e.reqRep \in Nat
      /\ e.ping \in Nat \cup {-1} /\ e.rsp \in Nat \cup {-1}
      /\ kPingTime \in Nat \ {0} /\ kConRspTimeout \in Nat \ {0}
  BY <1>3, ConSmFields, TimingAssumption DEF Timer, Unarmed
<1> HIDE DEF e
<1>6. CASE e = con
  <2>1. Due(con', late') /\ WaitOk(con', late', waited')
    BY <1>0, <1>3, <1>6
  <2>2. quiet' <= quiet /\ quiet' \in Nat
    BY <1>0, <1>3
  <2>3. QuietOk(con', late', quiet')
    <3> SUFFICES ASSUME e.state \in {"CONNECTED", "DISCONNECTING"}
                 PROVE  QuietOk(e, late, quiet')
      BY <1>0 DEF QuietOk
    <3>1. Slack(e) \in Nat /\ Grace(e.ping, late) \in Int
      BY <1>3, <1>5, RoundIsSpent DEF Slack, Grace
    <3> QED
      BY <1>3, <1>4, <1>5, <1>6, <2>2, <3>1 DEF QuietOk
  <2> QED
    BY <2>1, <2>3
<1>7. CASE Ended(e)
  <2>1. e.state = "DISCONNECTED" /\ e.rsp # 0 /\ e.ping # 0
    BY <1>7, ConstTyped DEF Ended, Good, Loose, NoResidue
  <2> QED
    BY <1>0, <2>1 DEF Due, QuietOk, WaitOk, Handshake
<1>8. CASE Live(e) /\ (con.comm = "READY" => alive)
  <2>1. e.state = "CONNECTED" /\ e.rsp # 0 /\ e.ping = kPingTime /\ e.pingRep = 0
    BY <1>8, ConstTyped DEF Live, Good, Loose, NoResidue
  <2>2. quiet' = 0
    BY <1>0, <1>8
  <2> QED
    BY <1>0, <1>4, <1>5, <2>1, <2>2 DEF Due, QuietOk, WaitOk, Handshake, Slack, Grace
<1>9. CASE Refreshed(con, e) /\ alive
  <2>1. /\ e.state = con.state /\ e.rsp = con.rsp /\ e.reqRep = con.reqRep
        /\ e.pingRep = 0 /\ e.ping # 0
        /\ e.state \in {"CONNECTED", "DISCONNECTING"} => e.ping = kPingTime
    BY <1>3, <1>9, ConstTyped, ConSmFields DEF Refreshed, Good, Loose, NoResidue, State
  <2>2. quiet' = 0 /\ waited' = waited
    BY <1>0, <1>9, <2>1
  <2>3. Due(con', late') /\ WaitOk(con', late', waited')
    BY <1>0, <1>3, <2>1, <2>2 DEF Due, WaitOk
  <2>4. QuietOk(con', late', quiet')
    BY <1>0, <1>4, <1>5, <2>1, <2>2, RoundIsSpent DEF QuietOk, Slack, Grace
  <2> QED
    BY <2>3, <2>4
<1>10. CASE Asking(con, e) /\ e.pingRep \in {0, con.pingRep}
  <2>1. /\ e.state # con.state /\ e.rsp = kConRspTimeout /\ e.rsp # 0
        /\ e.reqRep = 0 /\ e.ping = con.ping
    BY <1>10, ConstTyped DEF Asking
  <2>2. waited' = 0 /\ quiet' \in Nat /\ quiet' <= quiet
    BY <1>0, <1>3, <2>1
  <2>3. Due(con', late')
    BY <1>0, <1>3, <2>1 DEF Due
  <2>4. WaitOk(con', late', waited')
    BY <1>0, <1>4, <1>5, <2>1, <2>2 DEF WaitOk, Grace
  <2>5. QuietOk(con', late', quiet')
    <3> SUFFICES ASSUME e.state \in {"CONNECTED", "DISCONNECTING"}
                 PROVE  QuietOk(e, late, quiet')
      BY <1>0 DEF QuietOk
    <3>1. con.state = "CONNECTED" /\ e.state = "DISCONNECTING"
      <4>1. e.state = "CONNECTING" \/ (con.state = "CONNECTED" /\ e.state = "DISCONNECTING")
        BY <1>10 DEF Asking
      <4> QED
        BY <4>1
    <3>2. quiet + con.ping <= kPingTime + Spent(con.pingRep, kRepeatPingTime)
                                 + Grace(con.ping, late)
      <4>1. Slack(con) = 0
        BY <3>1 DEF Slack
      <4>2. Grace(con.ping, late) \in Int /\ Spent(con.pingRep, kRepeatPingTime) \in Int
        BY <1>3, <1>4, <1>5 DEF Grace
      <4>3. quiet + con.ping <= kPingTime + Spent(con.pingRep, kRepeatPingTime)
                                   + Slack(con) + Grace(con.ping, late)
        BY <1>3, <3>1 DEF QuietOk
      <4> QED
        BY <1>5, <4>1, <4>2, <4>3
    <3>3. Spent(con.pingRep, kRepeatPingTime) <= PingRound
      <4>1. /\ con.pingRep \in 0 .. kMaxPingRepeat + 1
            /\ kMaxPingRepeat + 1 \in Nat /\ kRepeatPingTime \in Nat \ {0}
        BY <1>3, TimingAssumption, ConSmFields
      <4> QED
        BY <4>1, RoundIsSpent, SpentRules
    <3>4. Grace(con.ping, late) \in Int /\ Slack(e) = PingRound
      BY <1>3, <3>1 DEF Grace, Slack
    <3> QED
      <4>1. /\ Spent(e.pingRep, kRepeatPingTime) \in Nat
            /\ Spent(con.pingRep, kRepeatPingTime) \in Nat
            /\ quiet \in Nat /\ PingRound \in Nat
        BY <1>3, <1>4, <1>5, RoundIsSpent
      <4>2. quiet' + e.ping <= kPingTime + Spent(e.pingRep, kRepeatPingTime)
                                 + Slack(e) + Grace(e.ping, late)
        BY <1>5, <2>1, <2>2, <3>2, <3>3, <3>4, <4>1
      <4> QED
        BY <4>2 DEF QuietOk
  <2> QED
    BY <2>3, <2>4, <2>5
<1> QED
  BY <1>6, <1>7, <1>8, <1>9, <1>10 DEF e

\* The time x so far and the time to the deadline t fit in n counted periods.
Within(x, t, n, period, base, l) ==
    x + t <= base + Spent(n, period) + Grace(t, l)

\* A repetition opens the next period, and the tick that makes it pays for
\* the time the reached deadline has waited.
LEMMA RearmedTime ==
    ASSUME NEW t \in Nat \cup {-1}, NEW n \in Nat, NEW limit \in Nat,
           NEW period \in Nat \ {0}, NEW t2 \in Nat \cup {-1}, NEW n2 \in Nat,
           Rearmed(t, n, limit, period, t2, n2),
           NEW l \in 0 .. MaxLate + 1, NEW x \in Nat, NEW base \in Int,
           Within(x, t, n, period, base, l)
    PROVE  Within(x, t2, n2, period, base, 0)
<1>1. Spent(n, period) \in Nat /\ Spent(n + 1, period) = Spent(n, period) + period + MaxLate
  BY SpentRules
<1>0. x + t <= base + Spent(n, period) + Grace(t, l)
  BY DEF Within
<1> SUFFICES x + t2 <= base + Spent(n2, period) + Grace(t2, 0)
  BY DEF Within
<1>2. CASE t # 0
  <2>1. t2 = t /\ n2 = n
    BY <1>2 DEF Rearmed
  <2> QED
    BY <1>0, <1>2, <2>1 DEF Grace
<1>3. CASE t = 0
  <2>1. n2 = n + 1 /\ t2 = period
    BY <1>3 DEF Rearmed
  <2>2. Grace(t, l) <= MaxLate /\ Grace(t2, 0) = 0 /\ Grace(t, l) \in Int
    BY <1>3, <2>1, LateAssumption DEF Grace
  <2>3. x <= base + Spent(n, period) + MaxLate
    BY <1>0, <1>1, <1>3, <2>2, LateAssumption
  <2> QED
    BY <1>1, <2>1, <2>2, <2>3, LateAssumption
<1> QED
  BY <1>2, <1>3

\* A tick keeps the invariant.
LEMMA TickInv ==
    ASSUME IInv, TickCall
    PROVE  IInv'
<1>1. PICK ok1 \in BOOLEAN, ok2 \in BOOLEAN : Take(Tick(con, ok1, ok2), FALSE)
  BY DEF TickCall
<1> DEFINE r == Tick(con, ok1, ok2)
           e == r.c
<1>2. Good(con) /\ con \in ConSmType /\ late \in 0 .. MaxLate + 1
      /\ Due(con, late) /\ QuietOk(con, late, quiet) /\ WaitOk(con, late, waited)
      /\ quiet \in Nat /\ waited \in Nat
  BY DEF IInv, TypeOK
<1>3. (Ended(e) \/ Ticked(con, e)) /\ Reported(con, e, r.fired)
  BY <1>2, TickOutcome
<1> HIDE DEF r
<1>4. late' = 0 /\ 0 \in 0 .. MaxLate + 1
  BY LateAssumption DEF TickCall
<1>5. Good(e) /\ e \in ConSmType
  BY <1>3 DEF Ended, Ticked, Good, Loose
<1>6. TypeOK' /\ Good(con)' /\ (told = con.comm)'
  BY <1>1, <1>3, <1>4, <1>5, TakeTold DEF r
<1>7. /\ con' = e
      /\ quiet' = IF con.comm # "READY" \/ e.comm # "READY" THEN 0 ELSE quiet
      /\ waited' = IF e.state = con.state THEN waited ELSE 0
  BY <1>1 DEF Take, r
<1>8. /\ con.pingRep \in Nat /\ con.reqRep \in Nat
      /\ con.ping \in Nat \cup {-1} /\ con.rsp \in Nat \cup {-1}
      /\ e.pingRep \in Nat /\ e.reqRep \in Nat
      /\ e.ping \in Nat \cup {-1} /\ e.rsp \in Nat \cup {-1}
      /\ kPingTime \in Nat \ {0} /\ kConRspTimeout \in Nat \ {0}
      /\ kRepeatPingTime \in Nat \ {0}
      /\ kMaxPingRepeat + 1 \in Nat /\ kConRetryMax \in Nat
  BY <1>2, <1>5, ConSmFields, TimingAssumption DEF Timer, Unarmed
<1> HIDE DEF e
<1> SUFFICES Due(con', late') /\ QuietOk(con', late', quiet') /\ WaitOk(con', late', waited')
  BY <1>6 DEF IInv
<1>9. CASE Ended(e)
  <2>1. e.state = "DISCONNECTED" /\ e.rsp # 0 /\ e.ping # 0
    BY <1>9, ConstTyped DEF Ended, Good, Loose, NoResidue
  <2> QED
    BY <1>7, <2>1 DEF Due, QuietOk, WaitOk, Handshake
<1>10. CASE Ticked(con, e)
  <2>1. e.state = con.state /\ e.comm = con.comm /\ Slack(e) = Slack(con)
    BY <1>10 DEF Ticked, Slack
  <2>2. /\ Rearmed(con.rsp, con.reqRep, kConRetryMax, kConRspTimeout, e.rsp, e.reqRep)
        /\ Rearmed(con.ping, con.pingRep, kMaxPingRepeat + 1, kRepeatPingTime,
                   e.ping, e.pingRep)
    BY <1>10 DEF Ticked, RspTicked, PingTicked
  <2>3. Due(con', late')
    BY <1>7, <1>8, <2>2 DEF Due, Rearmed
  <2>4. QuietOk(con', late', quiet')
    <3> SUFFICES ASSUME e.state \in {"CONNECTED", "DISCONNECTING"}
                 PROVE  quiet' + e.ping <= kPingTime
                            + Spent(e.pingRep, kRepeatPingTime) + Slack(e)
                            + Grace(e.ping, 0)
      BY <1>4, <1>7 DEF QuietOk
    <3> DEFINE base == kPingTime + Slack(con)
    <3>1. base \in Int /\ Slack(con) \in Int
      BY <1>8, RoundIsSpent DEF Slack
    <3>2. Spent(con.pingRep, kRepeatPingTime) \in Int /\ Grace(con.ping, late) \in Int
          /\ Spent(e.pingRep, kRepeatPingTime) \in Int /\ Grace(e.ping, 0) \in Int
      BY <1>2, <1>8, SpentNat DEF Grace
    <3>3. quiet + con.ping <= base + Spent(con.pingRep, kRepeatPingTime)
                                + Grace(con.ping, late)
      <4>1. quiet + con.ping <= kPingTime + Spent(con.pingRep, kRepeatPingTime)
                                  + Slack(con) + Grace(con.ping, late)
        BY <1>2, <2>1 DEF QuietOk
      <4> QED
        BY <1>8, <3>1, <3>2, <4>1
    <3>4. con.comm = "READY"
      BY <1>2, <2>1 DEF Good, Loose, ReadyIffSession
    <3>5. quiet' = quiet
      BY <1>7, <2>1, <3>4
    <3> HIDE DEF base
    <3>6. quiet + e.ping <= base + Spent(e.pingRep, kRepeatPingTime) + Grace(e.ping, 0)
      <4>1. Within(quiet, con.ping, con.pingRep, kRepeatPingTime, base, late)
        BY <3>3 DEF Within
      <4>2. Within(quiet, e.ping, e.pingRep, kRepeatPingTime, base, 0)
        <5>1. /\ con.ping \in Nat \cup {-1} /\ con.pingRep \in Nat
              /\ e.ping \in Nat \cup {-1} /\ e.pingRep \in Nat
              /\ kRepeatPingTime \in Nat \ {0}
              /\ late \in 0 .. MaxLate + 1 /\ quiet \in Nat /\ base \in Int
          BY <1>2, <1>8, <3>1
        <5> DEFINE limit == kMaxPingRepeat + 1
        <5>2. /\ limit \in Nat
              /\ Rearmed(con.ping, con.pingRep, limit, kRepeatPingTime, e.ping, e.pingRep)
          BY <1>8, <2>2
        <5> HIDE DEF limit
        <5> QED
          BY <4>1, <5>1, <5>2, RearmedTime, ZenonT(40)
      <4> QED
        BY <4>2 DEF Within
    <3> QED
      BY <1>2, <1>8, <2>1, <3>1, <3>2, <3>5, <3>6 DEF base
  <2>5. WaitOk(con', late', waited')
    <3> SUFFICES ASSUME e.state \in Handshake
                 PROVE  waited + e.rsp <= kConRspTimeout
                            + Spent(e.reqRep, kConRspTimeout) + Grace(e.rsp, 0)
      BY <1>4, <1>7, <2>1 DEF WaitOk
    <3>1. waited + con.rsp <= kConRspTimeout + Spent(con.reqRep, kConRspTimeout)
                                + Grace(con.rsp, late)
      BY <1>2, <2>1 DEF WaitOk
    <3>2. kConRspTimeout \in Int
      BY <1>8
    <3>3. Within(waited, con.rsp, con.reqRep, kConRspTimeout, kConRspTimeout, late)
      BY <3>1 DEF Within
    <3>4. Within(waited, e.rsp, e.reqRep, kConRspTimeout, kConRspTimeout, 0)
      <4>1. /\ con.rsp \in Nat \cup {-1} /\ con.reqRep \in Nat
            /\ e.rsp \in Nat \cup {-1} /\ e.reqRep \in Nat
            /\ kConRspTimeout \in Nat \ {0} /\ kConRetryMax \in Nat
            /\ late \in 0 .. MaxLate + 1 /\ waited \in Nat
        BY <1>2, <1>8
      <4> QED
        BY <2>2, <3>2, <3>3, <4>1, RearmedTime, ZenonT(60)
    <3> QED
      BY <3>4 DEF Within
  <2> QED
    BY <2>3, <2>4, <2>5
<1> QED
  BY <1>3, <1>9, <1>10 DEF e

\* A unit of time moves from a deadline to the time that has passed; once
\* the deadline is reached the lateness of the tick takes it.
LEMMA CountDownTime ==
    ASSUME NEW t \in Nat \cup {-1}, t # -1, NEW l \in Nat, NEW x \in Nat,
           NEW bound \in Int, t = 0 => l >= 1, x + t <= bound + Grace(t, l)
    PROVE  x + 1 + CountDown(t) <= bound + Grace(CountDown(t), l + 1)
BY DEF CountDown, Grace

\* The passing of time keeps the invariant.
LEMMA ElapseInv ==
    ASSUME IInv, Elapse
    PROVE  IInv'
<1> DEFINE e == Elapsed(con)
<1>1. /\ late < MaxLate + 1 /\ con' = e /\ late' = late + 1
      /\ quiet' = IF con.comm = "READY" THEN quiet + 1 ELSE quiet
      /\ waited' = IF con.state \in Handshake THEN waited + 1 ELSE waited
      /\ fired' = <<>> /\ told' = told
  BY DEF Elapse
<1>2. /\ Good(con) /\ con \in ConSmType /\ late \in 0 .. MaxLate + 1
      /\ Due(con, late) /\ QuietOk(con, late, quiet) /\ WaitOk(con, late, waited)
      /\ quiet \in Nat /\ waited \in Nat /\ told = con.comm /\ told \in CommState
  BY DEF IInv, TypeOK
<1>3. /\ con.pingRep \in Nat /\ con.reqRep \in Nat
      /\ con.ping \in Nat \cup {-1} /\ con.rsp \in Nat \cup {-1}
      /\ kPingTime \in Nat /\ kConRspTimeout \in Nat \ {0}
      /\ kRepeatPingTime \in Nat \ {0}
  BY <1>2, ConSmFields, TimingAssumption DEF Timer, Unarmed
<1>4. CountDown(con.ping) \in Timer /\ CountDown(con.rsp) \in Timer
  BY <1>3 DEF CountDown, Timer, Unarmed
<1>5. e \in ConSmType
  BY <1>2, <1>4 DEF Elapsed, ConSmType
<1>6. /\ e.state = con.state /\ e.comm = con.comm /\ e.pingRep = con.pingRep
      /\ e.reqRep = con.reqRep /\ e.curReq = con.curReq
      /\ e.ping = CountDown(con.ping) /\ e.rsp = CountDown(con.rsp)
  BY <1>2 DEF Elapsed, ConSmType
<1> HIDE DEF e
<1>7. /\ e.ping = Unarmed <=> con.ping = Unarmed
      /\ e.rsp = Unarmed <=> con.rsp = Unarmed
  BY <1>3, <1>6 DEF CountDown, Unarmed
<1>8. Good(e)
  BY <1>2, ElapsedGood DEF e
<1>9. TypeOK' /\ Good(con)' /\ (told = con.comm)'
  <2>1. late + 1 \in 0 .. MaxLate + 1 /\ quiet' \in Nat /\ waited' \in Nat
    BY <1>1, <1>2, LateAssumption
  <2> QED
    BY <1>1, <1>2, <1>5, <1>6, <1>8, <2>1 DEF TypeOK
<1>10. Due(con', late')
  BY <1>1, <1>2 DEF Due
<1>11. QuietOk(con', late', quiet')
  <2> SUFFICES ASSUME con.state \in {"CONNECTED", "DISCONNECTING"}
               PROVE  quiet' + CountDown(con.ping) <= kPingTime
                          + Spent(con.pingRep, kRepeatPingTime) + Slack(e)
                          + Grace(CountDown(con.ping), late + 1)
    BY <1>1, <1>6 DEF QuietOk
  <2> DEFINE bound == kPingTime + Spent(con.pingRep, kRepeatPingTime) + Slack(con)
  <2>1. con.comm = "READY" /\ con.ping # -1 /\ Slack(e) = Slack(con)
    BY <1>2, <1>6 DEF Good, Loose, ReadyIffSession, NeverWaitsUntimed, Slack, Unarmed
  <2>2. bound \in Int
    BY <1>3, SpentNat, RoundIsSpent DEF Slack
  <2>3. quiet + con.ping <= bound + Grace(con.ping, late)
    BY <1>2 DEF QuietOk
  <2>4. (con.ping = 0 => late >= 1) /\ late \in Nat
    BY <1>2 DEF Due
  <2> HIDE DEF bound
  <2>5. quiet + 1 + CountDown(con.ping) <= bound + Grace(CountDown(con.ping), late + 1)
    BY <1>2, <1>3, <2>1, <2>2, <2>3, <2>4, CountDownTime
  <2> QED
    BY <1>1, <2>1, <2>5 DEF bound
<1>12. WaitOk(con', late', waited')
  <2> SUFFICES ASSUME con.state \in Handshake
               PROVE  waited' + CountDown(con.rsp) <= kConRspTimeout
                          + Spent(con.reqRep, kConRspTimeout)
                          + Grace(CountDown(con.rsp), late + 1)
    BY <1>1, <1>6 DEF WaitOk
  <2> DEFINE bound == kConRspTimeout + Spent(con.reqRep, kConRspTimeout)
  <2>1. con.rsp # -1
    BY <1>2 DEF Good, NeverWaitsUntimed, Unarmed, Handshake
  <2>2. bound \in Int
    BY <1>3, SpentNat
  <2>3. waited + con.rsp <= bound + Grace(con.rsp, late)
    BY <1>2 DEF WaitOk
  <2>4. (con.rsp = 0 => late >= 1) /\ late \in Nat
    BY <1>2 DEF Due
  <2> HIDE DEF bound
  <2>5. waited + 1 + CountDown(con.rsp) <= bound + Grace(CountDown(con.rsp), late + 1)
    BY <1>2, <1>3, <2>1, <2>2, <2>3, <2>4, CountDownTime
  <2> QED
    BY <1>1, <2>5 DEF bound
<1> QED
  BY <1>9, <1>10, <1>11, <1>12 DEF IInv

\* Every step keeps the invariant.
LEMMA NextInv == IInv /\ [Next]_vars => IInv'
<1> SUFFICES ASSUME IInv, [Next]_vars PROVE IInv'
  OBVIOUS
<1>0. Good(con)
  BY DEF IInv
<1>1. CASE ConnectCall
  <2>1. PICK ok \in BOOLEAN : Take(Connect(con, ok), FALSE)
    BY <1>1 DEF ConnectCall
  <2> DEFINE r == Connect(con, ok)
  <2>2. /\ r.c = con \/ Ended(r.c) \/ Asking(con, r.c)
        /\ Asking(con, r.c) => r.c.pingRep \in {0, con.pingRep}
        /\ Reported(con, r.c, r.fired)
    BY <1>0, ConnectOutcome
  <2>3. UNCHANGED late /\ FALSE \in BOOLEAN
    BY <1>1 DEF ConnectCall
  <2>4. Take(r, FALSE)
    BY <2>1
  <2> HIDE DEF r
  <2> QED
    BY <2>2, <2>3, <2>4, TakeInv
<1>2. CASE DisconnectCall
  <2>1. PICK ok \in BOOLEAN : Take(Disconnect(con, ok), FALSE)
    BY <1>2 DEF DisconnectCall
  <2> DEFINE r == Disconnect(con, ok)
  <2>2. /\ r.c = con \/ Ended(r.c) \/ Asking(con, r.c)
        /\ Asking(con, r.c) => r.c.pingRep \in {0, con.pingRep}
        /\ Reported(con, r.c, r.fired)
    BY <1>0, DisconnectOutcome
  <2>3. UNCHANGED late /\ FALSE \in BOOLEAN
    BY <1>2 DEF DisconnectCall
  <2>4. Take(r, FALSE)
    BY <2>1
  <2> HIDE DEF r
  <2> QED
    BY <2>2, <2>3, <2>4, TakeInv
<1>3. CASE ResetCall
  <2>1. Take(Reset(con), FALSE) /\ UNCHANGED late /\ FALSE \in BOOLEAN
    BY <1>3 DEF ResetCall
  <2>2. Ended(Reset(con).c) /\ Reported(con, Reset(con).c, Reset(con).fired)
    BY <1>0, ResetOutcome
  <2> QED
    BY <2>1, <2>2, TakeInv
<1>4. CASE \E m \in ConMsg : FrameCall(m)
  <2>1. PICK m \in ConMsg : FrameCall(m)
    BY <1>4
  <2>2. PICK ok \in BOOLEAN : Take(OnFrame(con, m, ok), SignOfLife(m))
    BY <2>1 DEF FrameCall
  <2> DEFINE r == OnFrame(con, m, ok)
             alive == SignOfLife(m)
  <2>3. /\ \/ r.c = con
           \/ Ended(r.c)
           \/ /\ Live(r.c)
              /\ con.comm = "READY" => m = "ENABLE_REQ" /\ con.state = "CONNECTED"
           \/ m = "PING_RSP" /\ Refreshed(con, r.c)
        /\ Reported(con, r.c, r.fired)
    BY <1>0, FrameOutcome
  <2>4. /\ m = "ENABLE_REQ" /\ con.state = "CONNECTED" => alive
        /\ m = "PING_RSP" => alive
        /\ alive \in BOOLEAN
    BY DEF SignOfLife
  <2>5. UNCHANGED late /\ Take(r, alive)
    BY <2>1, <2>2 DEF FrameCall
  <2> HIDE DEF r, alive
  <2> QED
    BY <2>3, <2>4, <2>5, TakeInv
<1>5. CASE TickCall
  BY <1>5, TickInv
<1>6. CASE Elapse
  BY <1>6, ElapseInv
<1>7. CASE UNCHANGED vars
  BY <1>7 DEF vars, IInv, TypeOK, Good, Loose, NoResidue, ReadyIffSession,
              NeverWaitsUntimed, Due, QuietOk, WaitOk
<1> QED
  BY <1>1, <1>2, <1>3, <1>4, <1>5, <1>6, <1>7 DEF Next

\* The invariant holds in every reachable state.
LEMMA InvariantHolds == Spec => []IInv
<1> QED
  BY InitInv, NextInv, PTL DEF Spec

\* The invariant gives the time bound of the keep-alive.
LEMMA SilenceFollows == IInv => SilenceNoticed
<1> SUFFICES ASSUME IInv, con.state \in {"CONNECTED", "DISCONNECTING"}
             PROVE  quiet <= Overdue(kPingTime) + PingRound + Slack(con)
  <2>1. Overdue(kPingTime) \in Int /\ PingRound \in Int
    BY TimingAssumption, LateAssumption, RoundIsSpent DEF Overdue
  <2> QED
    BY <2>1 DEF SilenceNoticed, Slack
<1>1. /\ con \in ConSmType /\ late \in 0 .. MaxLate + 1 /\ quiet \in Nat
      /\ con.ping # Unarmed
      /\ quiet + con.ping <= kPingTime + Spent(con.pingRep, kRepeatPingTime)
                               + Slack(con) + Grace(con.ping, late)
  BY DEF IInv, TypeOK, Good, NeverWaitsUntimed, QuietOk
<1>2. /\ con.pingRep \in 0 .. kMaxPingRepeat + 1 /\ kMaxPingRepeat + 1 \in Nat
      /\ kRepeatPingTime \in Nat \ {0} /\ kPingTime \in Nat
      /\ con.ping \in Nat
  BY <1>1, TimingAssumption, ConSmFields DEF Timer
<1>3. /\ Spent(con.pingRep, kRepeatPingTime) \in Nat
      /\ Spent(con.pingRep, kRepeatPingTime) <= PingRound
  <2>1. con.pingRep \in Nat
    BY <1>2
  <2> QED
    BY <1>2, <2>1, RoundIsSpent, SpentMonotone, SpentNat
<1>4. /\ Grace(con.ping, late) \in Int /\ Slack(con) \in Nat
      /\ Grace(con.ping, late) <= con.ping + MaxLate
  BY <1>1, <1>2, RoundIsSpent, LateAssumption DEF Grace, Slack
<1> QED
  BY <1>1, <1>2, <1>3, <1>4, RoundIsSpent, LateAssumption DEF Overdue

\* The invariant gives the time bound of a handshake.
LEMMA HandshakeFollows == IInv => HandshakeBounded
<1> SUFFICES ASSUME IInv, con.state \in Handshake
             PROVE  waited <= (kConRetryMax + 1) * Overdue(kConRspTimeout)
  BY DEF HandshakeBounded
<1>1. /\ con \in ConSmType /\ late \in 0 .. MaxLate + 1 /\ waited \in Nat
      /\ con.rsp # Unarmed
      /\ waited + con.rsp <= kConRspTimeout + Spent(con.reqRep, kConRspTimeout)
                               + Grace(con.rsp, late)
  BY DEF IInv, TypeOK, Good, NeverWaitsUntimed, WaitOk, Handshake
<1>2. /\ con.reqRep \in 0 .. kConRetryMax /\ kConRetryMax \in Nat
      /\ kConRspTimeout \in Nat \ {0} /\ con.rsp \in Nat
  BY <1>1, TimingAssumption, ConSmFields DEF Timer
<1>3. /\ Spent(con.reqRep, kConRspTimeout) \in Nat
      /\ Spent(con.reqRep, kConRspTimeout) <= Spent(kConRetryMax, kConRspTimeout)
      /\ Spent(kConRetryMax, kConRspTimeout) \in Nat
      /\ Spent(kConRetryMax + 1, kConRspTimeout)
            = Spent(kConRetryMax, kConRspTimeout) + kConRspTimeout + MaxLate
  <2>1. con.reqRep \in Nat
    BY <1>2
  <2> QED
    BY <1>2, <2>1, SpentMonotone, SpentNext, SpentNat
<1>4. Grace(con.rsp, late) \in Int /\ Grace(con.rsp, late) <= con.rsp + MaxLate
  BY <1>1, <1>2, LateAssumption DEF Grace
<1>5. waited <= Spent(kConRetryMax + 1, kConRspTimeout)
  BY <1>1, <1>2, <1>3, <1>4, LateAssumption
<1> QED
  BY <1>5 DEF Spent

\* The fields keep their types, and the repetition counters their limits.
THEOREM TypesHold == Spec => []TypeOK
<1>1. IInv => TypeOK
  BY DEF IInv
<1> QED
  BY <1>1, InvariantHolds, PTL

\* Whatever is lost or fails, the object has a deadline to leave a handshake
\* or a session by, and starts the next with a full budget and without old
\* deadlines (process(), tick(), toDisconnected()).
THEOREM TimersFitStateHolds == Spec => []TimersFitState
<1>1. IInv => TimersFitState
  BY DEF IInv, Good, Loose, TimersFitState
<1> QED
  BY <1>1, InvariantHolds, PTL

\* commCb_ is called whenever comm_ changes, with the value it changes to.
THEOREM ToldTheTruthHolds == Spec => []ToldTheTruth
<1>1. IInv => ToldTheTruth
  BY DEF IInv, Good, Loose, ToldTheTruth
<1> QED
  BY <1>1, InvariantHolds, PTL

\* A session does not outlive its last sign of life by more than the
\* keep-alive, for all timing constants and every lateness of the tick.
THEOREM SilenceNoticedHolds == Spec => []SilenceNoticed
<1> QED
  BY SilenceFollows, InvariantHolds, PTL

\* A handshake is over after its request and retransmissions timed out.
THEOREM HandshakeBoundedHolds == Spec => []HandshakeBounded
<1> QED
  BY HandshakeFollows, InvariantHolds, PTL

-----------------------------------------------------------------------------
(***************************************************************************)
(* The refinement: ConSm implements LinkSession.  Each method takes the    *)
(* session through one of the abstract steps and makes exactly the         *)
(* callbacks of that step.                                                 *)
(*                                                                         *)
(* The outcome lemmas of ConSmOps_proofs say what a method leaves behind   *)
(* and what it reports last; here the reports are followed one by one.     *)
(***************************************************************************)

\* The step of LinkSession from the object c to e with the callbacks f.
Promise(c, e, f) ==
    \/ c.state = e.state /\ f = <<>>
    \/ c.state = "DISCONNECTED" /\ e.state = "CONNECTING" /\ f = <<>>
    \/ c.state = "CONNECTING" /\ e.state = "DISCONNECTED" /\ f = <<>>
    \/ /\ c.state \in {"DISCONNECTED", "CONNECTING", "CONNECTED"}
       /\ e.state = "CONNECTED" /\ f = <<"READY">>
    \/ /\ c.state \in {"CONNECTING", "CONNECTED"}
       /\ e.state = "DISCONNECTED" /\ f = <<"READY", "NOT_READY">>
    \/ c.state = "CONNECTED" /\ e.state = "DISCONNECTING" /\ f = <<>>
    \/ /\ c.state \in {"CONNECTED", "DISCONNECTING"}
       /\ e.state = "DISCONNECTED" /\ f = <<"NOT_READY">>

\* The callbacks that a follow-up event x adds when it meets the object e.
FollowUpFired(e, x) ==
    IF x = "REJECT"
    THEN IF e.comm = "READY" THEN <<"NOT_READY">> ELSE <<>>
    ELSE IF e.state = "CONNECTING" THEN <<"READY">> ELSE <<>>

\* process() reports what its first flush reports, then what the follow-up adds.
LEMMA FollowUpFires ==
    ASSUME NEW c, NEW ev, NEW ok \in BOOLEAN, NEW e, Loose(e),
           NEW x \in {"ACCEPT", "REJECT"},
           Flush(Sm(c, ev), ok).c = e, Flush(Sm(c, ev), ok).followUp = x
    PROVE  /\ Process(c, ev, ok).fired
                  = Flush(Sm(c, ev), ok).fired \o FollowUpFired(e, x)
           /\ x = "REJECT" => Process(c, ev, ok).c.state = "DISCONNECTED"
           /\ x = "ACCEPT" => Process(c, ev, ok).c.state =
                  IF e.state = "CONNECTING" THEN "CONNECTED" ELSE e.state
<1> DEFINE p == Flush(Sm(c, ev), ok)
           q == Flush(Sm(e, x), ok)
           r == Process(c, ev, ok)
<1>1. p.followUp # None
  BY DEF None
<1>2. /\ r.c = Flush(Sm(p.c, p.followUp), ok).c
      /\ r.fired = p.fired \o Flush(Sm(p.c, p.followUp), ok).fired
  BY <1>1, ProcessSteps, ZenonT(60)
<1>3. r.c = q.c /\ r.fired = p.fired \o q.fired
  <2>1. p.c = e /\ p.followUp = x
    OBVIOUS
  <2> HIDE DEF p
  <2>2. Flush(Sm(p.c, p.followUp), ok) = q
    BY <2>1
  <2> HIDE DEF q
  <2> QED
    BY <1>2, <2>2
<1>4. CASE x = "REJECT"
  <2>1. Ended(q.c) /\ q.fired = FollowUpFired(e, x)
    BY <1>4, RejectOutcome DEF FollowUpFired
  <2> SUFFICES r.fired = p.fired \o FollowUpFired(e, x) /\ r.c.state = "DISCONNECTED"
    BY <1>4
  <2> HIDE DEF p, q, r
  <2> QED
    BY <1>3, <2>1 DEF Ended
<1>5. CASE x = "ACCEPT"
  <2>1. /\ e.state = "CONNECTING" => Live(q.c) /\ q.fired = <<"READY">>
        /\ e.state # "CONNECTING" => q.c = e /\ q.fired = <<>>
    BY <1>5, AcceptOutcome DEF Loose
  <2>2. /\ q.fired = FollowUpFired(e, x)
        /\ q.c.state = IF e.state = "CONNECTING" THEN "CONNECTED" ELSE e.state
    <3> HIDE DEF q
    <3> QED
      BY <1>5, <2>1 DEF FollowUpFired, Live
  <2> SUFFICES /\ r.fired = p.fired \o FollowUpFired(e, x)
               /\ r.c.state = IF e.state = "CONNECTING" THEN "CONNECTED" ELSE e.state
    BY <1>5
  <2> HIDE DEF p, q, r
  <2> QED
    BY <1>3, <2>2
<1> QED
  BY <1>4, <1>5

\* A REJECT ends a session or a handshake.
LEMMA RejectPromise ==
    ASSUME NEW c, Loose(c), NEW ok \in BOOLEAN
    PROVE  LET r == Process(c, "REJECT", ok) IN Promise(c, r.c, r.fired)
<1> DEFINE r == Process(c, "REJECT", ok)
<1>1. /\ Ended(r.c)
      /\ r.fired = IF c.comm = "READY" THEN <<"NOT_READY">> ELSE <<>>
  BY RejectOutcome
<1>2. /\ c.comm = "READY" <=> c.state \in {"CONNECTED", "DISCONNECTING"}
      /\ c.state \in State
  BY DEF Loose, ReadyIffSession, ConSmType
<1> SUFFICES Promise(c, r.c, r.fired)
  OBVIOUS
<1> HIDE DEF r
<1> QED
  BY <1>1, <1>2 DEF Promise, Ended, State

\* An ACCEPT opens a session, in CONNECTING only.
LEMMA AcceptPromise ==
    ASSUME NEW c, Loose(c), NEW ok \in BOOLEAN
    PROVE  LET r == Process(c, "ACCEPT", ok) IN Promise(c, r.c, r.fired)
<1> DEFINE r == Process(c, "ACCEPT", ok)
<1>1. /\ c.state = "CONNECTING" => Live(r.c) /\ r.fired = <<"READY">>
      /\ c.state # "CONNECTING" => r.c = c /\ r.fired = <<>>
  BY AcceptOutcome DEF Loose
<1> SUFFICES Promise(c, r.c, r.fired)
  OBVIOUS
<1> HIDE DEF r
<1> QED
  BY <1>1 DEF Promise, Live

\* A transition that the table does not list is a step of nothing.
LEMMA IgnorePromise ==
    ASSUME NEW c \in ConSmType, NEW ev, NEW ok \in BOOLEAN, Sm(c, ev) = Ignore(c)
    PROVE  LET r == Process(c, ev, ok) IN Promise(c, r.c, r.fired)
<1> DEFINE p == Flush(Sm(c, ev), ok)
<1>1. p.c = c /\ p.fired = <<>> /\ p.followUp = None
  BY FlushIgnore
<1>2. Process(c, ev, ok) = p
  BY <1>1, ProcessSteps
<1> HIDE DEF p
<1> QED
  BY <1>1, <1>2 DEF Promise

\* A request that cannot be sent ends in DISCONNECTED.
LEMMA RequestPromise ==
    ASSUME NEW c, Good(c), NEW ok \in BOOLEAN, NEW ev, NEW st, NEW m,
           \/ c.state = "DISCONNECTED" /\ ev = "ENABLE"
                /\ st = "CONNECTING" /\ m = "ENABLE_REQ"
           \/ c.state = "CONNECTED" /\ ev = "DISABLE"
                /\ st = "DISCONNECTING" /\ m = "DISABLE_REQ"
    PROVE  LET r == Process(c, ev, ok) IN Promise(c, r.c, r.fired)
<1> DEFINE p == Flush(Sm(c, ev), ok)
           r == Process(c, ev, ok)
           e == Con(st, c.comm, IF ok THEN kConRspTimeout ELSE c.rsp,
                    c.ping, c.pingRep, c.reqRep, m)
<1>0. c \in ConSmType /\ Loose(c) /\ st \in State /\ m \in Request
  BY DEF Good, Loose, State, Request
<1>1. Sm(c, ev) = Sending(c, st, m)
  BY SmForm
<1>2. p.c = e /\ p.fired = <<>> /\ p.followUp = IF ok THEN None ELSE "REJECT"
  BY <1>0, <1>1, FlushSending DEF Request, Response
<1>3. /\ e.state = st /\ e.comm = c.comm /\ e.ping = c.ping
      /\ e.reqRep = c.reqRep
      /\ e.rsp = IF ok THEN kConRspTimeout ELSE c.rsp
  BY DEF Con
<1>4. e \in ConSmType
  BY <1>0, ConTyped, ConSmFields, ConstTyped
<1>5. c.comm = "READY" <=> c.state = "CONNECTED"
  BY DEF Good, Loose, ReadyIffSession
<1> HIDE DEF e
<1>6. Loose(e)
  BY <1>0, <1>3, <1>4 DEF Loose, NoResidue, ReadyIffSession
<1> SUFFICES Promise(c, r.c, r.fired)
  OBVIOUS
<1>7. CASE ok
  <2>1. r = p
    <3>1. p.followUp = None
      BY <1>2, <1>7
    <3> QED
      BY <3>1, ProcessSteps
  <2> HIDE DEF p, r
  <2> QED
    BY <1>2, <1>3, <2>1 DEF Promise
<1>8. CASE ~ok
  <2>1. p.c = e /\ p.followUp = "REJECT"
    BY <1>2, <1>8
  <2>2. r.fired = p.fired \o FollowUpFired(e, "REJECT") /\ r.c.state = "DISCONNECTED"
    BY <1>6, <2>1, FollowUpFires
  <2> HIDE DEF p, r
  <2>3. r.fired = FollowUpFired(e, "REJECT")
    BY <1>2, <2>2 DEF FollowUpFired
  <2> QED
    BY <1>3, <1>5, <2>2, <2>3 DEF Promise, FollowUpFired
<1> QED
  BY <1>7, <1>8

\* A request of the peer opens the session, or opens it again.
LEMMA EnableRequestPromise ==
    ASSUME NEW c, Good(c), NEW ok \in BOOLEAN
    PROVE  LET r == Process(c, "ENABLE_REQUEST", ok) IN Promise(c, r.c, r.fired)
<1> DEFINE p == Flush(Sm(c, "ENABLE_REQUEST"), ok)
           r == Process(c, "ENABLE_REQUEST", ok)
           x == IF ok THEN "ACCEPT" ELSE "REJECT"
<1>0. c \in ConSmType /\ Loose(c) /\ x \in {"ACCEPT", "REJECT"}
  BY DEF Good, Loose
<1> SUFFICES Promise(c, r.c, r.fired)
  OBVIOUS
<1>1. CASE c.state = "DISCONNECTED"
  <2> DEFINE e == Con("CONNECTING", c.comm, c.rsp, c.ping, c.pingRep, c.reqRep,
                      "ENABLE_RSP")
  <2>1. Sm(c, "ENABLE_REQUEST") = Sending(c, "CONNECTING", "ENABLE_RSP")
    BY <1>1, SmForm
  <2>2. "CONNECTING" \in State /\ "ENABLE_RSP" \in Request \cup Response
        /\ "ENABLE_RSP" \notin Request /\ "ENABLE_RSP" \in Response
    BY DEF State, Request, Response
  <2>3. p.c = e /\ p.fired = <<>> /\ p.followUp = x
    BY <1>0, <2>1, <2>2, FlushSending
  <2>4. e \in ConSmType
    BY <1>0, <2>2, ConTyped, ConSmFields
  <2>5. e.state = "CONNECTING" /\ e.comm = c.comm /\ e.ping = c.ping
        /\ c.comm # "READY"
    BY <1>0, <1>1 DEF Con, Loose, ReadyIffSession
  <2> HIDE DEF e
  <2>6. Loose(e)
    BY <1>0, <1>1, <2>4, <2>5 DEF Loose, NoResidue, ReadyIffSession
  <2> HIDE DEF x
  <2>7. /\ r.fired = p.fired \o FollowUpFired(e, x)
        /\ x = "REJECT" => r.c.state = "DISCONNECTED"
        /\ x = "ACCEPT" => r.c.state = "CONNECTED"
    BY <1>0, <2>3, <2>5, <2>6, FollowUpFires
  <2> HIDE DEF p, r
  <2>8. r.fired = IF x = "REJECT" THEN <<>> ELSE <<"READY">>
    BY <2>3, <2>5, <2>7 DEF FollowUpFired
  <2> QED
    BY <1>0, <1>1, <2>7, <2>8 DEF Promise
<1>2. CASE c.state \in {"CONNECTING", "CONNECTED"}
  <2> DEFINE e == Con("CONNECTED", "READY", Unarmed, kPingTime, 0, 0, "ENABLE_RSP")
  <2>1. Sm(c, "ENABLE_REQUEST") = ToConnected(c, "ENABLE_RSP")
    BY <1>2, SmForm
  <2>2. p.c = e /\ p.fired = <<"READY">> /\ p.followUp = x
    BY <1>0, <2>1, FlushToConnected DEF None
  <2>3. Live(e)
    BY LiveIntro DEF Response
  <2> HIDE DEF e
  <2>4. Loose(e) /\ e.state = "CONNECTED" /\ e.comm = "READY"
    BY <2>3 DEF Live, Good, Loose, ReadyIffSession
  <2> HIDE DEF x
  <2>5. /\ r.fired = p.fired \o FollowUpFired(e, x)
        /\ x = "REJECT" => r.c.state = "DISCONNECTED"
        /\ x = "ACCEPT" => r.c.state = "CONNECTED"
    BY <1>0, <2>2, <2>4, FollowUpFires
  <2> HIDE DEF p, r
  <2>6. r.fired = IF x = "REJECT" THEN <<"READY", "NOT_READY">> ELSE <<"READY">>
    BY <2>2, <2>4, <2>5 DEF FollowUpFired
  <2> QED
    BY <1>0, <1>2, <2>5, <2>6 DEF Promise
<1>3. CASE c.state = "DISCONNECTING"
  <2>1. Sm(c, "ENABLE_REQUEST") = Ignore(c)
    BY <1>3, SmForm DEF Event
  <2> QED
    BY <1>0, <2>1, IgnorePromise
<1> QED
  BY <1>0, <1>1, <1>2, <1>3, ConSmFields DEF State

\* A request of the peer closes the session.
LEMMA DisableRequestPromise ==
    ASSUME NEW c, Good(c), NEW ok \in BOOLEAN
    PROVE  LET r == Process(c, "DISABLE_REQUEST", ok) IN Promise(c, r.c, r.fired)
<1> DEFINE p == Flush(Sm(c, "DISABLE_REQUEST"), ok)
           r == Process(c, "DISABLE_REQUEST", ok)
           x == IF ok THEN "ACCEPT" ELSE "REJECT"
<1>0. c \in ConSmType /\ Loose(c) /\ x \in {"ACCEPT", "REJECT"}
  BY DEF Good, Loose
<1> SUFFICES Promise(c, r.c, r.fired)
  OBVIOUS
<1>1. CASE c.state = "CONNECTED"
  <2> DEFINE e == Con("DISCONNECTED", "NOT_READY", Unarmed, Unarmed, 0, 0, "DISABLE_RSP")
  <2>1. Sm(c, "DISABLE_REQUEST") = ToDisconnected(c, "DISABLE_RSP")
    BY <1>1, SmForm
  <2>2. c.comm = "READY"
    BY <1>0, <1>1, ReadyOnlyInSession
  <2>3. p.c = e /\ p.fired = <<"NOT_READY">> /\ p.followUp = x
    BY <1>0, <2>1, <2>2, FlushToDisconnected DEF None
  <2>4. Ended(e) /\ e.comm = "NOT_READY"
    BY IdleIntro, ConstTyped DEF Response, Con
  <2> HIDE DEF e
  <2>5. Loose(e) /\ e.state = "DISCONNECTED"
    BY <2>4 DEF Ended, Good
  <2> HIDE DEF x
  <2>6. /\ r.fired = p.fired \o FollowUpFired(e, x)
        /\ r.c.state = "DISCONNECTED"
    BY <1>0, <2>3, <2>5, FollowUpFires
  <2> HIDE DEF p, r
  <2>7. r.fired = <<"NOT_READY">>
    BY <2>3, <2>4, <2>5, <2>6 DEF FollowUpFired
  <2> QED
    BY <1>1, <2>6, <2>7 DEF Promise
<1>2. CASE c.state # "CONNECTED"
  <2>1. Sm(c, "DISABLE_REQUEST") = Ignore(c)
    BY <1>0, <1>2, SmForm, ConSmFields DEF State, Event
  <2> QED
    BY <1>0, <2>1, IgnorePromise
<1> QED
  BY <1>1, <1>2

-----------------------------------------------------------------------------
(* The public methods.                                                     *)

\* connect() opens, fails to open, or does nothing.
LEMMA ConnectPromise ==
    ASSUME NEW c, Good(c), NEW ok \in BOOLEAN
    PROVE  Promise(c, Connect(c, ok).c, Connect(c, ok).fired)
<1> DEFINE r == Connect(c, ok)
<1>0. c \in ConSmType
  BY DEF Good, Loose
<1>1. CASE c.state \in {"CONNECTED", "CONNECTING"}
  BY <1>1 DEF Connect, Outcome, Promise
<1>2. CASE c.state = "DISCONNECTED"
  <2>1. r = Process(c, "ENABLE", ok)
    BY <1>2 DEF Connect
  <2> QED
    BY <1>2, <2>1, RequestPromise
<1>3. CASE c.state = "DISCONNECTING"
  <2>1. r = Process(c, "ENABLE", ok) /\ Sm(c, "ENABLE") = Ignore(c)
    BY <1>3, SmForm DEF Connect, Event
  <2> QED
    BY <1>0, <2>1, IgnorePromise
<1> QED
  BY <1>0, <1>1, <1>2, <1>3, ConSmFields DEF State

\* disconnect() closes the session, or loses it, or does nothing.
LEMMA DisconnectPromise ==
    ASSUME NEW c, Good(c), NEW ok \in BOOLEAN
    PROVE  Promise(c, Disconnect(c, ok).c, Disconnect(c, ok).fired)
<1> DEFINE r == Disconnect(c, ok)
<1>0. c \in ConSmType
  BY DEF Good, Loose
<1>1. CASE c.state = "CONNECTED"
  <2> DEFINE e == [c EXCEPT !.pingRep = 0]
  <2>1. /\ e \in ConSmType /\ e.state = c.state /\ e.comm = c.comm /\ e.ping = c.ping
        /\ e.rsp = c.rsp /\ e.reqRep = c.reqRep /\ e.curReq = c.curReq
    BY <1>0, ConstTyped DEF ConSmType
  <2>2. r = Process(e, "DISABLE", ok)
    BY <1>1 DEF Disconnect
  <2> HIDE DEF e
  <2>3. Good(e)
    BY <2>1 DEF Good, Loose, NeverWaitsUntimed, NoResidue, ReadyIffSession
  <2>4. Promise(e, r.c, r.fired)
    BY <1>1, <2>1, <2>2, <2>3, RequestPromise
  <2> HIDE DEF r
  <2>5. Promise(c, r.c, r.fired)
    BY <2>1, <2>4 DEF Promise
  <2> QED
    BY <2>5 DEF r
<1>2. CASE c.state # "CONNECTED"
  BY <1>2 DEF Disconnect, Outcome, Promise
<1> QED
  BY <1>1, <1>2

\* reset() ends whatever there is.
LEMMA ResetPromise ==
    ASSUME NEW c, Good(c)
    PROVE  Promise(c, Reset(c).c, Reset(c).fired)
<1> DEFINE r == Reset(c)
<1>1. r.c.state = "DISCONNECTED"
  BY ResetOutcome DEF Ended
<1>2. r.fired = IF c.comm = "READY" THEN <<"NOT_READY">> ELSE <<>>
  BY DEF Reset, Outcome
<1>3. /\ c.comm = "READY" <=> c.state \in {"CONNECTED", "DISCONNECTING"}
      /\ c.state \in State
  BY DEF Good, Loose, ReadyIffSession, ConSmType
<1> HIDE DEF r
<1>4. Promise(c, r.c, r.fired)
  BY <1>1, <1>2, <1>3 DEF Promise, State
<1> QED
  BY <1>4 DEF r

\* onFrame(), message by message.
LEMMA FramePromise ==
    ASSUME NEW c, Good(c), NEW m \in ConMsg, NEW ok \in BOOLEAN
    PROVE  Promise(c, OnFrame(c, m, ok).c, OnFrame(c, m, ok).fired)
<1> DEFINE r == OnFrame(c, m, ok)
<1>0. Loose(c)
  BY DEF Good
<1>1. CASE m = "ENABLE_REQ"
  <2>1. r = Process(c, "ENABLE_REQUEST", ok)
    BY <1>1 DEF OnFrame
  <2> QED
    BY <2>1, EnableRequestPromise
<1>2. CASE m = "ENABLE_RSP"
  <2>1. r = Process(c, "ACCEPT", ok)
    BY <1>2 DEF OnFrame
  <2> QED
    BY <1>0, <2>1, AcceptPromise
<1>3. CASE m = "DISABLE_REQ"
  <2>1. r = Process(c, "DISABLE_REQUEST", ok)
    BY <1>3 DEF OnFrame
  <2> QED
    BY <2>1, DisableRequestPromise
<1>4. CASE m = "DISABLE_RSP"
  <2>1. r = Process(c, "REJECT", ok)
    BY <1>4 DEF OnFrame
  <2> QED
    BY <1>0, <2>1, RejectPromise
<1>5. CASE m = "PING_RSP"
  <2>1. r.c = SchedulePingStd(c) /\ r.fired = <<>>
    BY <1>5 DEF OnFrame, Outcome
  <2>2. r.c.state = c.state
    BY <2>1, SchedulePingOutcome DEF Refreshed
  <2> HIDE DEF r
  <2>3. Promise(c, r.c, r.fired)
    BY <2>1, <2>2 DEF Promise
  <2> QED
    BY <2>3 DEF r
<1>6. CASE m = "PING_REQ"
  BY <1>6 DEF OnFrame, Outcome, Promise
<1> QED
  BY <1>1, <1>2, <1>3, <1>4, <1>5, <1>6 DEF ConMsg, Request, Response

\* Either half of a tick keeps the state in silence or ends in DISCONNECTED.
Halved(c, e, f) ==
    \/ e.state = c.state /\ f = <<>>
    \/ Ended(e) /\ Promise(c, e, f)

\* An object that differs from c in its timers and counters only.
LEMMA HalvedReject ==
    ASSUME NEW c, NEW d, Loose(d), d.state = c.state, NEW ok \in BOOLEAN
    PROVE  LET r == Process(d, "REJECT", ok) IN Halved(c, r.c, r.fired)
<1> DEFINE r == Process(d, "REJECT", ok)
<1>1. Ended(r.c) /\ Promise(d, r.c, r.fired)
  BY RejectPromise, RejectReported
<1> SUFFICES Halved(c, r.c, r.fired)
  OBVIOUS
<1> HIDE DEF r
<1> QED
  BY <1>1 DEF Halved, Promise

\* The first half of tick().
LEMMA TickRspPromise ==
    ASSUME NEW c, Good(c), NEW ok \in BOOLEAN
    PROVE  Halved(c, TickRsp(c, ok).c, TickRsp(c, ok).fired)
<1> DEFINE r == TickRsp(c, ok)
           over == [c EXCEPT !.rsp = Unarmed]
           again == [over EXCEPT !.reqRep = @ + 1]
           sent == [again EXCEPT !.rsp = kConRspTimeout]
           retrying == c.reqRep < kConRetryMax
                       /\ c.state \in {"CONNECTING", "DISCONNECTING"}
<1>0. c \in ConSmType /\ Loose(c)
  BY DEF Good, Loose
<1>1. CASE c.rsp # 0
  BY <1>1 DEF TickRsp, Outcome, Halved
<1>2. CASE c.rsp = 0
  <2>1. c.state \in {"CONNECTING", "DISCONNECTING"}
    BY <1>0, <1>2, ConstTyped, ConSmFields DEF Loose, NoResidue, State
  <2>2. /\ over \in ConSmType /\ over.state = c.state /\ over.comm = c.comm
        /\ over.rsp = Unarmed /\ over.ping = c.ping /\ over.reqRep = c.reqRep
    BY <1>0, ConstTyped DEF ConSmType
  <2>3. /\ retrying => again \in ConSmType
        /\ again.state = c.state /\ again.comm = c.comm
        /\ again.rsp = Unarmed /\ again.ping = c.ping
    <3> HIDE DEF over
    <3>1. retrying => c.reqRep + 1 \in 0 .. kConRetryMax
      BY <1>0, ConSmFields, TimingAssumption
    <3> QED
      BY <2>2, <3>1 DEF ConSmType
  <2>4. sent.state = again.state
    BY DEF ConSmType
  <2>5. r = IF ~retrying THEN Process(over, "REJECT", ok)
            ELSE IF ok THEN [Outcome(sent) EXCEPT !.out = <<c.curReq>>]
            ELSE Process(again, "REJECT", ok)
    BY <1>2 DEF TickRsp
  <2> HIDE DEF over, again, sent
  <2>6. Loose(over)
    BY <1>0, <2>1, <2>2 DEF Loose, NoResidue, ReadyIffSession
  <2>7. retrying => Loose(again)
    BY <1>0, <2>1, <2>3 DEF Loose, NoResidue, ReadyIffSession
  <2>8. CASE ~retrying
    BY <2>2, <2>5, <2>6, <2>8, HalvedReject
  <2>9. CASE retrying /\ ok
    <3>1. r.c = sent /\ r.fired = <<>>
      BY <2>5, <2>9 DEF Outcome
    <3> QED
      BY <2>3, <2>4, <3>1 DEF Halved
  <2>10. CASE retrying /\ ~ok
    BY <2>3, <2>5, <2>7, <2>10, HalvedReject
  <2> QED
    BY <2>8, <2>9, <2>10
<1> QED
  BY <1>1, <1>2

\* The second half of tick().
LEMMA TickPingPromise ==
    ASSUME NEW c, Good(c), NEW ok \in BOOLEAN
    PROVE  Halved(c, TickPing(c, ok).c, TickPing(c, ok).fired)
<1> DEFINE r == TickPing(c, ok)
           over == [c EXCEPT !.ping = Unarmed]
           again == [over EXCEPT !.pingRep = @ + 1]
           sent == [again EXCEPT !.ping = kRepeatPingTime]
           spent == c.pingRep > kMaxPingRepeat
<1>0. c \in ConSmType /\ Loose(c)
  BY DEF Good, Loose
<1>1. CASE c.ping # 0
  BY <1>1 DEF TickPing, Outcome, Halved
<1>2. CASE c.ping = 0
  <2>1. c.state \in {"CONNECTED", "DISCONNECTING"} /\ c.comm = "READY"
    BY <1>0, <1>2, ConstTyped, ConSmFields DEF Loose, NoResidue, State, ReadyIffSession
  <2>2. /\ over \in ConSmType /\ over.state = c.state /\ over.comm = c.comm
        /\ over.rsp = c.rsp /\ over.ping = Unarmed /\ over.reqRep = c.reqRep
        /\ over.pingRep = c.pingRep
    BY <1>0, ConstTyped DEF ConSmType
  <2>3. /\ ~spent => again \in ConSmType
        /\ again.state = c.state /\ again.comm = c.comm
        /\ again.rsp = c.rsp /\ again.ping = Unarmed /\ again.reqRep = c.reqRep
    <3> HIDE DEF over
    <3>1. ~spent => c.pingRep + 1 \in 0 .. kMaxPingRepeat + 1
      BY <1>0, ConSmFields, TimingAssumption
    <3> QED
      BY <2>2, <3>1 DEF ConSmType
  <2>4. sent.state = again.state
    BY DEF ConSmType
  <2>5. PingArmed(again)
    <3> HIDE DEF again
    <3> QED
      BY <2>1, <2>3 DEF PingArmed
  <2>6. r = IF spent THEN Process(over, "REJECT", ok)
            ELSE IF ~ok THEN Process(again, "REJECT", ok)
            ELSE [Outcome(sent) EXCEPT !.out = <<"PING_REQ">>]
    BY <1>2, <2>1, <2>5 DEF TickPing
  <2> HIDE DEF over, again, sent
  <2>7. Loose(over)
    BY <1>0, <2>1, <2>2 DEF Loose, NoResidue, ReadyIffSession
  <2>8. ~spent => Loose(again)
    BY <1>0, <2>1, <2>3 DEF Loose, NoResidue, ReadyIffSession
  <2>9. CASE spent
    BY <2>2, <2>6, <2>7, <2>9, HalvedReject
  <2>10. CASE ~spent /\ ok
    <3>1. r.c = sent /\ r.fired = <<>>
      BY <2>6, <2>10 DEF Outcome
    <3> QED
      BY <2>3, <2>4, <3>1 DEF Halved
  <2>11. CASE ~spent /\ ~ok
    BY <2>3, <2>6, <2>8, <2>11, HalvedReject
  <2> QED
    BY <2>9, <2>10, <2>11
<1> QED
  BY <1>1, <1>2

\* tick(): when its first half ends the session, its second half does nothing.
LEMMA TickPromise ==
    ASSUME NEW c, Good(c), NEW ok1 \in BOOLEAN, NEW ok2 \in BOOLEAN
    PROVE  Promise(c, Tick(c, ok1, ok2).c, Tick(c, ok1, ok2).fired)
<1> DEFINE p == TickRsp(c, ok1)
           q == TickPing(p.c, ok2)
           r == Tick(c, ok1, ok2)
<1>1. r.c = q.c /\ r.fired = p.fired \o q.fired
  <2>1. r = [q EXCEPT !.out = p.out \o q.out, !.fired = p.fired \o q.fired]
    BY DEF Tick, Then
  <2>2. q = [c |-> q.c, out |-> q.out, fired |-> q.fired, followUp |-> q.followUp]
    BY ZenonT(60) DEF TickPing, Process, Flush, Then, Outcome
  <2> HIDE DEF p, q, r
  <2> QED
    BY <2>1, <2>2
<1>2. Halved(c, p.c, p.fired)
  BY TickRspPromise
<1>3. Good(p.c)
  BY TickRspOutcome DEF Ended
<1>4. Halved(p.c, q.c, q.fired)
  BY <1>3, TickPingPromise
<1>5. Ended(p.c) => q.c = p.c /\ q.fired = <<>>
  <2>1. SUFFICES ASSUME Ended(p.c) PROVE q.c = p.c /\ q.fired = <<>>
    OBVIOUS
  <2>2. p.c.ping # 0
    BY <2>1, ConstTyped DEF Ended, Good, Loose, NoResidue
  <2> QED
    BY <2>2 DEF TickPing, Outcome
<1> SUFFICES Promise(c, r.c, r.fired)
  OBVIOUS
<1> HIDE DEF p, q, r
<1>6. CASE Ended(p.c)
  <2>1. Promise(c, p.c, p.fired)
    BY <1>2 DEF Halved, Promise
  <2>2. p.fired \in {<<>>, <<"READY">>, <<"NOT_READY">>, <<"READY", "NOT_READY">>}
    BY <2>1 DEF Promise
  <2>3. p.fired \o <<>> = p.fired
    BY <2>2
  <2>4. r.c = p.c /\ r.fired = p.fired
    BY <1>1, <1>5, <1>6, <2>3
  <2> QED
    BY <2>1, <2>4
<1>7. CASE ~Ended(p.c)
  <2>1. p.c.state = c.state /\ p.fired = <<>>
    BY <1>2, <1>7 DEF Halved
  <2>2. Promise(c, q.c, q.fired)
    BY <1>4, <2>1 DEF Halved, Promise
  <2>3. r.fired = q.fired
    BY <1>1, <2>1, <2>2 DEF Promise
  <2> QED
    BY <1>1, <2>2, <2>3
<1> QED
  BY <1>6, <1>7

-----------------------------------------------------------------------------
(* The steps, one by one.                                                  *)

\* A method that keeps its promise is a step of the abstract session.
LEMMA TakeStep ==
    ASSUME NEW r, NEW alive \in BOOLEAN, Take(r, alive),
           Promise(con, r.c, r.fired)
    PROVE  Session!Next
<1>1. con' = r.c /\ fired' = r.fired
  BY DEF Take
<1>2. Promise(con, con', fired')
  BY <1>1
<1> QED
  BY <1>2 DEF Promise, Session!Next, Session!Open, Session!Fail, Session!Establish,
     Session!Flicker, Session!Close, Session!End, Session!Stay, Session!Step

\* Every step of the object is one of the session, or none.
LEMMA StepRefines ==
    ASSUME IInv, [Next]_vars
    PROVE  [Session!Next]_<<con.state, fired>>
<1>0. Good(con) /\ con \in ConSmType
  BY DEF IInv, Good, Loose
<1>1. CASE ConnectCall
  BY <1>0, <1>1, ConnectPromise, TakeStep DEF ConnectCall
<1>2. CASE DisconnectCall
  BY <1>0, <1>2, DisconnectPromise, TakeStep DEF DisconnectCall
<1>3. CASE ResetCall
  BY <1>0, <1>3, ResetPromise, TakeStep DEF ResetCall
<1>4. ASSUME NEW m \in ConMsg, FrameCall(m)
      PROVE  Session!Next
  <2>1. SignOfLife(m) \in BOOLEAN
    BY DEF SignOfLife
  <2>2. PICK ok \in BOOLEAN : Take(OnFrame(con, m, ok), SignOfLife(m))
    BY <1>4 DEF FrameCall
  <2> QED
    BY <1>0, <2>1, <2>2, FramePromise, TakeStep
<1>5. CASE TickCall
  <2>1. PICK ok1 \in BOOLEAN, ok2 \in BOOLEAN : Take(Tick(con, ok1, ok2), FALSE)
    BY <1>5 DEF TickCall
  <2> QED
    BY <1>0, <2>1, TickPromise, TakeStep
<1>6. CASE Elapse
  <2>1. con'.state = con.state /\ fired' = <<>>
    BY <1>0, <1>6 DEF Elapse, Elapsed, ConSmType
  <2> QED
    BY <2>1 DEF Session!Next, Session!Stay, Session!Step
<1>7. CASE UNCHANGED vars
  BY <1>7 DEF vars
<1> QED
  BY <1>1, <1>2, <1>3, <1>4, <1>5, <1>6, <1>7 DEF Next

\* process(), flush() and tick() never skip a phase of the session, and
\* commCb_ is called once for each beginning and each end, in order,
\* whatever is sent, lost, late or received.
THEOREM SessionIsPromised == Spec => SessionPromised
<1>1. Init => Session!Init
  BY DEF Init, InitConSm, Session!Init
<1>2. IInv /\ [Next]_vars => [Session!Next]_<<con.state, fired>>
  BY StepRefines
<1> QED
  BY <1>1, <1>2, InvariantHolds, PTL DEF Spec, SessionPromised, Session!Spec

=============================================================================
