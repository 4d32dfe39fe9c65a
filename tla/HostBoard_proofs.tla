--------------------------- MODULE HostBoard_proofs ---------------------------
(***************************************************************************)
(* The chassis stops, for every delay, timeout and length of the line, and *)
(* whatever is lost; and it keeps moving while nothing is lost and the     *)
(* board waits long enough.                                                *)
(*                                                                         *)
(* The invariant follows a speed frame from the host to the motors: the    *)
(* host wanted to move when it was sent, so the overrun is no greater than *)
(* the age of the frame, and later no greater than MaxDelay and the age of *)
(* the command.  The other invariant, FeedInv, says of every speed on the  *)
(* line, and of the one the board obeys, that the next is on its way or is *)
(* still to be sent in time.                                               *)
(***************************************************************************)
EXTENDS HostBoard, TLAPS, SequenceTheorems

LineFrame == [type : FrameType, age : 0 .. MaxDelay]

\* The types of everything but the two ages that are only watched.
SystemTyped ==
    /\ phase \in Session!Phase
    /\ report \in {<<>>, <<"READY">>, <<"NOT_READY">>, <<"READY", "NOT_READY">>}
    /\ userDisabled \in BOOLEAN /\ moving \in BOOLEAN
    /\ ota \in {"NONE", "QUIESCING", "FLASHING", "RECOVERING"}
    /\ repeatAge \in 0 .. RepeatPeriod + MaxLate
    /\ toBoard \in Seq(LineFrame)
    /\ Len(toBoard) <= MaxLine
    /\ toHost \in {<<>>, <<TRUE>>, <<FALSE>>}
    /\ en \in BOOLEAN /\ driving \in BOOLEAN
    /\ cmdAge \in 0 .. CmdTimeout + 1
    /\ calm \in BOOLEAN

\* A speed under way is at least as old as the host's wish to stop.
LineFresh ==
    \A i \in 1 .. Len(toBoard) : toBoard[i].type = "SPEED" => overrun <= toBoard[i].age

\* So is the command the board obeys, but for the time it travelled.
CommandFresh == driving => overrun <= MaxDelay + cmdAge

IInv == TypeOK /\ LineFresh /\ CommandFresh

\* A step in which no time passes brings no new speed onto the line, and none to
\* the motors but from the line, unless the host wants to move.
NothingNew ==
    Authorised' \/
    /\ \A i \in 1 .. Len(toBoard') : toBoard'[i].type = "SPEED" =>
          \E j \in 1 .. Len(toBoard) : toBoard'[i] = toBoard[j]
    /\ driving' => \/ driving /\ cmdAge' = cmdAge
                   \/ \E j \in 1 .. Len(toBoard) : toBoard[j].type = "SPEED"

LEMMA SystemHasType == TypeOK => SystemTyped
BY DEF TypeOK, SystemTyped, LineFrame

\* New frames, of certain types, come behind those on the line.
Extends(types) ==
    /\ Len(toBoard) <= Len(toBoard')
    /\ \A i \in 1 .. Len(toBoard) : toBoard'[i] = toBoard[i]
    /\ \A i \in 1 .. Len(toBoard') :
          i > Len(toBoard) => toBoard'[i].age = 0 /\ toBoard'[i].type \in types

LEMMA FramesTyped ==
    \A line \in Seq(LineFrame) :
        /\ Len(line) \in Nat
        /\ \A i \in 1 .. Len(line) :
              line[i].age \in Nat /\ line[i].age <= MaxDelay /\ line[i].type \in FrameType
<1> SUFFICES ASSUME NEW line \in Seq(LineFrame), NEW i \in 1 .. Len(line)
             PROVE  line[i].age \in Nat /\ line[i].age <= MaxDelay /\ line[i].type \in FrameType
  BY LenProperties
<1>1. line[i] \in LineFrame
  BY ElementOfSeq
<1> QED
  BY <1>1, HostBoardAssumption DEF LineFrame

\* What Write() leaves on the line; without faults, every frame of it.
LEMMA WriteExtends ==
    ASSUME SystemTyped, NEW types \in Seq(FrameType), Len(types) \in {1, 2}, Write(types)
    PROVE  /\ toBoard' \in Seq(LineFrame) /\ Len(toBoard') <= MaxLine
           /\ Extends({types[k] : k \in 1 .. Len(types)})
           /\ calm => Len(toBoard') = Len(toBoard) + Len(types)
<1>1. PICK s \in Survivors(types) :
          toBoard' = toBoard \o [i \in DOMAIN s |-> [type |-> s[i], age |-> 0]]
  BY DEF Write
<1>2. /\ s \in Seq(FrameType) /\ Len(s) <= Len(types) /\ (calm => Len(s) = Len(types))
      /\ \A i \in 1 .. Len(s) : \E k \in 1 .. Len(types) : s[i] = types[k]
  <2>1. CASE s = types
    BY <2>1, LenProperties
  <2>2. CASE s = <<>> /\ ~calm
    BY <2>2, LenProperties
  <2>3. ASSUME NEW k \in 1 .. Len(types), s = <<types[k]>>, ~calm
        PROVE  <1>2
    <3>1. types[k] \in FrameType
      BY ElementOfSeq
    <3>2. s \in Seq(FrameType) /\ Len(s) = 1 /\ s[1] = types[k]
      BY <2>3, <3>1
    <3>3. 1 .. Len(s) = {1}
      BY <3>2
    <3> QED
      BY <2>3, <3>2, <3>3
  <2>4. DOMAIN types = 1 .. Len(types)
    BY LenProperties
  <2> QED
    BY <2>1, <2>2, <2>3, <2>4 DEF Survivors
<1> DEFINE new == [i \in DOMAIN s |-> [type |-> s[i], age |-> 0]]
<1>3. /\ new \in Seq(LineFrame) /\ Len(new) = Len(s)
      /\ \A i \in 1 .. Len(new) : new[i].type = s[i] /\ new[i].age = 0
  <2>1. DOMAIN s = 1 .. Len(s) /\ Len(s) \in Nat /\ s \in [1 .. Len(s) -> FrameType]
    BY <1>2, LenProperties
  <2>2. new \in [1 .. Len(s) -> LineFrame]
    BY <2>1, HostBoardAssumption DEF LineFrame
  <2>3. new \in Seq(LineFrame)
    BY <2>1, <2>2
  <2>4. Len(new) = Len(s)
    BY <2>1, <2>2, <2>3, LenProperties
  <2> QED
    BY <2>1, <2>2, <2>3, <2>4
<1> HIDE DEF new
<1> DEFINE joined == toBoard \o new
<1>4. toBoard \in Seq(LineFrame) /\ new \in Seq(LineFrame)
  BY <1>3 DEF SystemTyped
<1>5. /\ joined \in Seq(LineFrame) /\ Len(joined) = Len(toBoard) + Len(new)
      /\ \A i \in 1 .. Len(toBoard) + Len(new) : joined[i] =
            IF i <= Len(toBoard) THEN toBoard[i] ELSE new[i - Len(toBoard)]
  BY <1>4, ConcatProperties, Zenon
<1>6. toBoard' = joined
  BY <1>1 DEF new
<1> HIDE DEF joined
<1>7. Len(toBoard) \in Nat /\ Len(new) \in Nat
  BY <1>4, LenProperties
<1>8. \A i \in 1 .. Len(toBoard) : toBoard'[i] = toBoard[i]
  BY <1>5, <1>6, <1>7
<1>9. ASSUME NEW i \in 1 .. Len(toBoard'), i > Len(toBoard)
      PROVE  toBoard'[i].age = 0 /\ toBoard'[i].type \in {types[k] : k \in 1 .. Len(types)}
  <2>1. i - Len(toBoard) \in 1 .. Len(new) /\ toBoard'[i] = new[i - Len(toBoard)]
    BY <1>5, <1>6, <1>7, <1>9
  <2>2. \E k \in 1 .. Len(types) : s[i - Len(toBoard)] = types[k]
    BY <1>2, <1>3, <2>1
  <2> QED
    BY <1>3, <2>1, <2>2
<1>10. Len(toBoard) <= Len(toBoard')
  BY <1>5, <1>6, <1>7
<1>11. calm => Len(toBoard') = Len(toBoard) + Len(types)
  BY <1>2, <1>3, <1>5, <1>6
<1>12. toBoard' \in Seq(LineFrame)
  BY <1>5, <1>6
<1>13. Len(toBoard') <= MaxLine
  <2>1. Len(toBoard) + Len(types) <= MaxLine /\ Len(types) \in Nat
    BY DEF Write
  <2> QED
    BY <1>2, <1>3, <1>5, <1>6, <1>7, <2>1, HostBoardAssumption
<1> QED
  BY <1>8, <1>9, <1>10, <1>11, <1>12, <1>13 DEF Extends

\* Of the frames written, only some get onto the line, each new.
LEMMA WriteOutcome ==
    ASSUME SystemTyped, NEW types \in Seq(FrameType), Len(types) \in {1, 2}, Write(types)
    PROVE  /\ toBoard' \in Seq(LineFrame) /\ Len(toBoard') <= MaxLine
           /\ \A i \in 1 .. Len(toBoard') :
                 \/ i \in 1 .. Len(toBoard) /\ toBoard'[i] = toBoard[i]
                 \/ \E k \in 1 .. Len(types) : toBoard'[i].type = types[k]
<1>1. Len(toBoard) \in Nat /\ Len(toBoard') \in Nat
  BY WriteExtends, LenProperties DEF SystemTyped
<1>2. /\ toBoard' \in Seq(LineFrame) /\ Len(toBoard') <= MaxLine
      /\ Extends({types[k] : k \in 1 .. Len(types)})
  BY WriteExtends
<1> SUFFICES ASSUME NEW i \in 1 .. Len(toBoard')
             PROVE  \/ i \in 1 .. Len(toBoard) /\ toBoard'[i] = toBoard[i]
                    \/ \E k \in 1 .. Len(types) : toBoard'[i].type = types[k]
  BY <1>2
<1>3. i > Len(toBoard) => toBoard'[i].type \in {types[k] : k \in 1 .. Len(types)}
  BY <1>2 DEF Extends
<1>4. i <= Len(toBoard) => i \in 1 .. Len(toBoard) /\ toBoard'[i] = toBoard[i]
  BY <1>1, <1>2 DEF Extends
<1> QED
  BY <1>1, <1>3, <1>4

\* The session's part of a step keeps its types.
LEMMA SessionTyped ==
    ASSUME SystemTyped,
           \/ Session!Stay \/ Session!Open \/ Session!Fail \/ Session!Establish
           \/ Session!Flicker \/ Session!Close \/ Session!End
    PROVE  /\ phase' \in Session!Phase
           /\ report' \in {<<>>, <<"READY">>, <<"NOT_READY">>, <<"READY", "NOT_READY">>}
BY DEF SystemTyped, Session!Phase, Session!Step, Session!Stay, Session!Open,
       Session!Fail, Session!Establish, Session!Flicker, Session!Close, Session!End

\* Frames other than speeds are nothing new.
LEMMA WriteOther ==
    ASSUME SystemTyped, NEW types \in {<<"STOP">>, <<"EN0">>, <<"EN1">>, <<"STOP", "EN0">>},
           Write(types), UNCHANGED board
    PROVE  /\ toBoard' \in Seq(LineFrame) /\ Len(toBoard') <= MaxLine
           /\ NothingNew
<1>1. /\ types \in Seq(FrameType) /\ Len(types) \in {1, 2}
      /\ \A k \in 1 .. Len(types) : types[k] # "SPEED"
  <2>1. ASSUME NEW t \in {"STOP", "EN0", "EN1"}, types = <<t>> PROVE <1>1
    <3>1. types \in Seq(FrameType) /\ Len(types) = 1 /\ types[1] = t
      BY <2>1 DEF FrameType
    <3> QED
      BY <3>1
  <2>2. CASE types = <<"STOP", "EN0">>
    <3>1. /\ types \in Seq(FrameType) /\ Len(types) = 2
          /\ types[1] = "STOP" /\ types[2] = "EN0"
      BY <2>2 DEF FrameType
    <3>2. 1 .. 2 = {1, 2}
      OBVIOUS
    <3> QED
      BY <3>1, <3>2
  <2> QED
    BY <2>1, <2>2
<1>2. /\ toBoard' \in Seq(LineFrame) /\ Len(toBoard') <= MaxLine
      /\ \A i \in 1 .. Len(toBoard') :
            \/ i \in 1 .. Len(toBoard) /\ toBoard'[i] = toBoard[i]
            \/ \E k \in 1 .. Len(types) : toBoard'[i].type = types[k]
  BY <1>1, WriteOutcome
<1>3. driving' = driving /\ cmdAge' = cmdAge
  BY DEF board
<1> QED
  BY <1>1, <1>2, <1>3 DEF NothingNew

LEMMA ZeroBounded == 0 \in 0 .. RepeatPeriod + MaxLate /\ 0 \in 0 .. CmdTimeout + 1
BY HostBoardAssumption

LEMMA NoWrite ==
    ASSUME UNCHANGED <<toBoard, board>>
    PROVE  NothingNew
BY DEF NothingNew, board

\* The commands.
LEMMA CommandStep ==
    ASSUME SystemTyped, Command
    PROVE  SystemTyped' /\ NothingNew
<1>1. CASE CmdSpeed
  BY <1>1, SessionTyped, NoWrite DEF CmdSpeed, SystemTyped, board
<1>2. CASE StopDriving
  BY <1>2, SessionTyped, WriteOther DEF StopDriving, SystemTyped, board
<1>3. CASE CmdEnable
  BY <1>3, SessionTyped, WriteOther DEF CmdEnable, Connect, SystemTyped, board
<1>4. CASE CmdDisable
  BY <1>4, SessionTyped, WriteOther DEF CmdDisable, SystemTyped, board
<1>5. CASE CmdFlash
  BY <1>5, SessionTyped, WriteOther DEF CmdFlash, SystemTyped, board
<1>6. CASE CmdFlashAbort
  BY <1>6, SessionTyped, NoWrite DEF CmdFlashAbort, SystemTyped, host, board
<1> QED
  BY <1>1, <1>2, <1>3, <1>4, <1>5, <1>6 DEF Command

\* The handlers of the host.
LEMMA HandlerStep ==
    ASSUME SystemTyped, Handler
    PROVE  SystemTyped' /\ NothingNew
<1>1. CASE QuiesceExpired
  BY <1>1, SessionTyped, NoWrite DEF QuiesceExpired, BeginFlasher, SystemTyped, host, board
<1>2. CASE RecoverExpired
  BY <1>2, SessionTyped, NoWrite DEF RecoverExpired, SystemTyped, host, board
<1>3. CASE Reconnect
  BY <1>3, SessionTyped, NoWrite DEF Reconnect, Connect, SystemTyped, host, board
<1>4. CASE ChildExit
  BY <1>4, SessionTyped, NoWrite DEF ChildExit, SystemTyped, host, board
<1>5. ASSUME Established \/ SessionFlickers PROVE SystemTyped' /\ NothingNew
  <2>1. /\ Write(<<IF userDisabled THEN "EN0" ELSE "EN1">>)
        /\ ota' = IF ota = "RECOVERING" THEN "NONE" ELSE ota
        /\ UNCHANGED <<userDisabled, moving, repeatAge, board, toHost, calm>>
        /\ Session!Establish \/ Session!Flicker
    BY <1>5 DEF Established, SessionFlickers, OnReady
  <2>2. <<IF userDisabled THEN "EN0" ELSE "EN1">> \in {<<"EN0">>, <<"EN1">>}
    BY DEF SystemTyped
  <2>3. toBoard' \in Seq(LineFrame) /\ Len(toBoard') <= MaxLine /\ NothingNew
    BY <2>1, <2>2, WriteOther
  <2> QED
    BY <2>1, <2>3, SessionTyped DEF SystemTyped, board
<1>6. CASE SessionEnds
  BY <1>6, SessionTyped, NoWrite DEF SessionEnds, SystemTyped, host, board
<1>7. CASE StatusHeals
  BY <1>7, SessionTyped, WriteOther DEF StatusHeals, SystemTyped, host, board
<1>8. CASE StatusConfirms
  BY <1>8, SessionTyped, NoWrite DEF StatusConfirms, BeginFlasher, SystemTyped, host, board
<1>9. CASE StatusPasses
  BY <1>9, SessionTyped, NoWrite DEF StatusPasses, SystemTyped, host, board
<1>10. CASE RepeatTimer
  <2>1. repeatAge' = 0 /\ Session!Stay
        /\ UNCHANGED <<userDisabled, moving, ota, board, toHost, calm>>
    BY <1>10 DEF RepeatTimer
  <2>2. CASE ~Authorised
    <3>1. toBoard' = toBoard
      BY <1>10, <2>2 DEF RepeatTimer
    <3> QED
      BY <2>1, <3>1, SessionTyped, NoWrite, ZeroBounded DEF SystemTyped, board
  <2>3. CASE Authorised
    <3>1. Authorised'
      BY <2>1, <2>3 DEF Authorised, Ready, Session!Stay, Session!Step
    <3>2. <<"SPEED">> \in Seq(FrameType) /\ Len(<<"SPEED">>) = 1
      BY DEF FrameType
    <3>3. toBoard' \in Seq(LineFrame) /\ Len(toBoard') <= MaxLine
      BY <1>10, <2>3, <3>2, WriteOutcome DEF RepeatTimer
    <3> QED
      BY <2>1, <3>1, <3>3, SessionTyped, ZeroBounded DEF NothingNew, SystemTyped, board
  <2> QED
    BY <2>2, <2>3
<1> QED
  BY <1>1, <1>2, <1>3, <1>4, <1>5, <1>6, <1>7, <1>8, <1>9, <1>10 DEF Handler, WatchdogTimer

\* The board, and the end of the faults.
LEMMA BoardStep ==
    ASSUME SystemTyped, Board \/ FaultsStop
    PROVE  SystemTyped' /\ NothingNew
<1>1. CASE BoardReceive
  <2>1. /\ toBoard # <<>> /\ toBoard' = Tail(toBoard) /\ Session!Stay
        /\ UNCHANGED <<host, ota, toHost, calm>>
        /\ BoardTakes(Head(toBoard).type)
    BY <1>1 DEF BoardReceive
  <2>2. toBoard \in Seq(LineFrame)
    BY DEF SystemTyped
  <2>3. /\ Head(toBoard) \in LineFrame /\ toBoard' \in Seq(LineFrame)
        /\ Len(toBoard') = Len(toBoard) - 1
        /\ \A i \in 1 .. Len(toBoard') : toBoard'[i] = toBoard[i + 1]
    BY <2>1, <2>2, HeadTailProperties
  <2>4. Len(toBoard) \in Nat \ {0} /\ Head(toBoard) = toBoard[1]
    BY <2>1, <2>2, EmptySeq
  <2> DEFINE t == Head(toBoard).type
  <2>9. /\ en' = IF t \in {"EN0", "EN1"} THEN t = "EN1" ELSE en
        /\ driving' = (t = "SPEED" \/ (t = "EN1" /\ driving))
        /\ cmdAge' = IF t = "EN1" THEN cmdAge ELSE 0
    BY <2>1 DEF BoardTakes
  <2>10. t = toBoard[1].type
    BY <2>4
  <2> HIDE DEF t
  <2>5. /\ en' \in BOOLEAN /\ driving' \in BOOLEAN /\ cmdAge' \in 0 .. CmdTimeout + 1
    <3>1. en' \in BOOLEAN /\ driving' \in BOOLEAN
      BY <2>9, Zenon DEF SystemTyped
    <3>2. cmdAge' \in 0 .. CmdTimeout + 1
      BY <2>9, ZeroBounded DEF SystemTyped
    <3> QED
      BY <3>1, <3>2
  <2>6. SystemTyped'
    <3>1. Len(toBoard') <= MaxLine
      BY <2>3, <2>4, HostBoardAssumption DEF SystemTyped
    <3> QED
      BY <2>1, <2>3, <2>5, <3>1, SessionTyped DEF SystemTyped, host
  <2>7. \A i \in 1 .. Len(toBoard') : toBoard'[i].type = "SPEED" =>
           \E j \in 1 .. Len(toBoard) : toBoard'[i] = toBoard[j]
    BY <2>3, <2>4
  <2>8. driving' => \/ driving /\ cmdAge' = cmdAge
                    \/ \E j \in 1 .. Len(toBoard) : toBoard[j].type = "SPEED"
    <3>1. CASE t = "SPEED"
      <4>1. 1 \in 1 .. Len(toBoard)
        BY <2>4
      <4> QED
        BY <2>10, <3>1, <4>1, Zenon
    <3>2. CASE t = "EN1"
      BY <2>9, <3>2
    <3>3. CASE t \notin {"SPEED", "EN1"}
      BY <2>9, <3>3
    <3> QED
      BY <3>1, <3>2, <3>3
  <2> QED
    BY <2>6, <2>7, <2>8 DEF NothingNew
<1>2. CASE BoardTimeout
  <2>1. driving' = FALSE /\ cmdAge' = 0 /\ Session!Stay
        /\ UNCHANGED <<en, host, ota, toBoard, toHost, calm>>
    BY <1>2 DEF BoardTimeout
  <2> QED
    BY <2>1, SessionTyped, ZeroBounded DEF SystemTyped, NothingNew, host
<1>3. CASE BoardStatus
  BY <1>3, SessionTyped, NoWrite DEF BoardStatus, SystemTyped, host, board
<1>4. CASE BoardRestart
  <2>1. toBoard' = <<>> /\ Len(<<>>) = 0 /\ <<>> \in Seq(LineFrame)
    BY <1>4, EmptySeq DEF BoardRestart
  <2>2. /\ en' = FALSE /\ driving' = FALSE /\ cmdAge' = 0 /\ toHost' = <<>>
        /\ Session!Stay /\ UNCHANGED <<host, ota, calm>>
    BY <1>4 DEF BoardRestart
  <2>3. Len(toBoard') = 0
    BY <2>1
  <2>4. Len(toBoard') <= MaxLine /\ 1 .. Len(toBoard') = {}
    BY <2>3, HostBoardAssumption
  <2>5. SystemTyped'
    BY <2>1, <2>2, <2>4, SessionTyped, ZeroBounded DEF SystemTyped, host
  <2>6. NothingNew
    BY <2>2, <2>4 DEF NothingNew
  <2> QED
    BY <2>5, <2>6
<1>5. CASE FaultsStop
  BY <1>5, SessionTyped, NoWrite DEF FaultsStop, SystemTyped, host, board
<1> QED
  BY <1>1, <1>2, <1>3, <1>4, <1>5 DEF Board

-----------------------------------------------------------------------------
(* The inductive invariant.                                                *)

LEMMA WatchTyped ==
    ASSUME TypeOK, NEW d \in {0, 1}, Watch(d)
    PROVE  /\ overrun' \in 0 .. OverrunMax /\ fed' \in 0 .. FedMax
           /\ overrun' <= overrun + d
           /\ Authorised' => overrun' = 0
<1>1. /\ OverrunMax \in Nat /\ FedMax \in Nat
      /\ overrun \in 0 .. OverrunMax /\ fed \in 0 .. FedMax
  BY HostBoardAssumption DEF TypeOK, OverrunMax, FedMax
<1>2. /\ overrun' = IF Authorised' \/ ~(driving \/ Coming)' THEN 0
                    ELSE IF overrun + d < OverrunMax THEN overrun + d ELSE OverrunMax
      /\ fed' = IF ~(Authorised' /\ calm') THEN 0
                ELSE IF fed + d < FedMax THEN fed + d ELSE FedMax
  BY DEF Watch
<1>3. overrun' \in 0 .. OverrunMax /\ fed' \in 0 .. FedMax
  BY <1>1, <1>2
<1>4. overrun' <= overrun + d
  BY <1>1, <1>2
<1>5. Authorised' => overrun' = 0
  BY <1>2
<1> QED
  BY <1>3, <1>4, <1>5

LEMMA TypedAgain ==
    ASSUME SystemTyped', overrun' \in 0 .. OverrunMax, fed' \in 0 .. FedMax
    PROVE  TypeOK'
BY DEF SystemTyped, TypeOK, LineFrame, OverrunMax, FedMax

LEMMA LaterStill == \A a, b, c \in Nat : a <= b => a <= b + c
OBVIOUS

\* A step in which no time passes.
LEMMA TimelyStep ==
    ASSUME IInv, Timely
    PROVE  IInv'
<1>1. SystemTyped
  BY SystemHasType DEF IInv
<1>2. SystemTyped' /\ NothingNew
  BY <1>1, CommandStep, HandlerStep, BoardStep DEF Timely
<1>3. /\ overrun' \in 0 .. OverrunMax /\ fed' \in 0 .. FedMax
      /\ overrun' <= overrun /\ overrun \in Nat /\ overrun' \in Nat
      /\ Authorised' => overrun' = 0
  <2>1. TypeOK /\ Watch(0)
    BY DEF IInv, Timely
  <2>2. overrun \in 0 .. OverrunMax /\ OverrunMax \in Nat
    BY <2>1, HostBoardAssumption DEF TypeOK, OverrunMax
  <2> QED
    BY <2>1, <2>2, WatchTyped
<1>4. TypeOK'
  BY <1>2, <1>3, TypedAgain
<1>5. /\ \A i \in 1 .. Len(toBoard) : toBoard[i] \in LineFrame
      /\ \A i \in 1 .. Len(toBoard') : toBoard'[i] \in LineFrame
      /\ cmdAge \in Nat /\ cmdAge' \in Nat
  BY <1>1, <1>2, ElementOfSeq, HostBoardAssumption DEF SystemTyped
<1>6. /\ \A i \in 1 .. Len(toBoard) : toBoard[i].age \in Nat /\ toBoard[i].age <= MaxDelay
      /\ \A i \in 1 .. Len(toBoard') : toBoard'[i].age \in Nat
  BY <1>5, HostBoardAssumption DEF LineFrame
<1>9. cmdAge' \in Nat /\ MaxDelay \in Nat
  BY <1>5, HostBoardAssumption
<1>7. CASE Authorised'
  <2>1. overrun' = 0
    BY <1>3, <1>7
  <2>2. LineFresh'
    BY <1>6, <2>1 DEF LineFresh
  <2>3. CommandFresh'
    <3>1. overrun' <= MaxDelay + cmdAge'
      <4>1. overrun' <= MaxDelay /\ overrun' \in Nat
        BY <1>9, <2>1
      <4> QED
        BY <1>9, <4>1, LaterStill
    <3> QED
      BY <3>1 DEF CommandFresh
  <2> QED
    BY <1>4, <2>2, <2>3 DEF IInv
<1>8. CASE ~Authorised'
  <2>1. LineFresh'
    <3> SUFFICES ASSUME NEW i \in 1 .. Len(toBoard'), toBoard'[i].type = "SPEED"
                 PROVE  overrun' <= toBoard'[i].age
      BY DEF LineFresh
    <3>1. PICK j \in 1 .. Len(toBoard) : toBoard'[i] = toBoard[j]
      BY <1>2, <1>8 DEF NothingNew
    <3>2. overrun <= toBoard[j].age
      BY <3>1 DEF IInv, LineFresh
    <3> QED
      BY <1>3, <1>6, <3>1, <3>2
  <2>2. CommandFresh'
    <3> SUFFICES ASSUME driving' PROVE overrun' <= MaxDelay + cmdAge'
      BY DEF CommandFresh
    <3>1. CASE driving /\ cmdAge' = cmdAge
      BY <1>3, <1>5, <3>1, HostBoardAssumption DEF IInv, CommandFresh
    <3>2. ASSUME NEW j \in 1 .. Len(toBoard), toBoard[j].type = "SPEED"
          PROVE  overrun' <= MaxDelay + cmdAge'
      <4>1. overrun <= toBoard[j].age
        BY <3>2 DEF IInv, LineFresh
      <4>2. toBoard[j].age \in Nat /\ toBoard[j].age <= MaxDelay
        BY <1>6
      <4>3. overrun' <= MaxDelay
        BY <1>3, <1>9, <4>1, <4>2
      <4> QED
        BY <1>3, <1>9, <4>3, LaterStill
    <3> QED
      BY <1>2, <1>8, <3>1, <3>2 DEF NothingNew
  <2> QED
    BY <1>4, <2>1, <2>2 DEF IInv
<1> QED
  BY <1>7, <1>8

\* Time passes: the frames, the command and the overrun grow older together.
LEMMA PassingStep ==
    ASSUME IInv, Passing
    PROVE  IInv'
<1>1. SystemTyped /\ TypeOK
  BY SystemHasType DEF IInv
<1>2. /\ \A i \in DOMAIN toBoard : toBoard[i].age < MaxDelay
      /\ repeatAge < RepeatPeriod + MaxLate
      /\ ~Overdue
      /\ toBoard' = [i \in DOMAIN toBoard |-> [toBoard[i] EXCEPT !.age = @ + 1]]
      /\ repeatAge' = repeatAge + 1
      /\ cmdAge' = IF driving THEN cmdAge + 1 ELSE cmdAge
      /\ Session!Stay
      /\ UNCHANGED <<userDisabled, moving, ota, en, driving, toHost, calm>>
      /\ Watch(1)
  BY DEF Passing, Elapse
<1>3. /\ DOMAIN toBoard = 1 .. Len(toBoard) /\ Len(toBoard) \in Nat
      /\ \A i \in 1 .. Len(toBoard) : toBoard[i] \in LineFrame
  BY <1>1, LenProperties, ElementOfSeq DEF SystemTyped
<1>4. \A i \in 1 .. Len(toBoard) :
          /\ toBoard[i].age \in Nat /\ toBoard[i].age < MaxDelay
          /\ toBoard'[i].type = toBoard[i].type
          /\ toBoard'[i].age = toBoard[i].age + 1
          /\ toBoard'[i] \in LineFrame
  <2> SUFFICES ASSUME NEW i \in 1 .. Len(toBoard)
               PROVE  /\ toBoard[i].age \in Nat /\ toBoard[i].age < MaxDelay
                      /\ toBoard'[i].type = toBoard[i].type
                      /\ toBoard'[i].age = toBoard[i].age + 1
                      /\ toBoard'[i] \in LineFrame
    OBVIOUS
  <2>1. toBoard[i] \in LineFrame /\ toBoard[i].age < MaxDelay
    BY <1>2, <1>3
  <2>2. toBoard[i].age \in 0 .. MaxDelay /\ toBoard[i].type \in FrameType
    BY <2>1 DEF LineFrame
  <2>3. toBoard'[i] = [toBoard[i] EXCEPT !.age = @ + 1]
    BY <1>2, <1>3
  <2>4. toBoard'[i] = [type |-> toBoard[i].type, age |-> toBoard[i].age + 1]
    BY <2>1, <2>3 DEF LineFrame
  <2>5. toBoard[i].age + 1 \in 0 .. MaxDelay
    BY <2>1, <2>2, HostBoardAssumption
  <2> QED
    BY <2>1, <2>2, <2>4, <2>5 DEF LineFrame
<1>5. toBoard' \in Seq(LineFrame) /\ Len(toBoard') = Len(toBoard)
  <2>1. toBoard' \in [1 .. Len(toBoard) -> LineFrame]
    BY <1>2, <1>3, <1>4
  <2>2. toBoard' \in Seq(LineFrame)
    BY <1>3, <2>1
  <2> QED
    BY <1>3, <2>1, <2>2, LenProperties
<1>6. cmdAge' \in 0 .. CmdTimeout + 1
  BY <1>1, <1>2, HostBoardAssumption DEF SystemTyped, Overdue
<1>7. repeatAge' \in 0 .. RepeatPeriod + MaxLate
  BY <1>1, <1>2, HostBoardAssumption DEF SystemTyped
<1>8. SystemTyped'
  BY <1>1, <1>2, <1>5, <1>6, <1>7, SessionTyped DEF SystemTyped
<1>9. /\ overrun' \in 0 .. OverrunMax /\ fed' \in 0 .. FedMax
      /\ overrun' <= overrun + 1 /\ overrun \in Nat /\ overrun' \in Nat
  <2>1. overrun \in 0 .. OverrunMax /\ OverrunMax \in Nat
    BY <1>1, HostBoardAssumption DEF TypeOK, OverrunMax
  <2> QED
    BY <1>1, <1>2, <2>1, WatchTyped
<1>10. LineFresh'
  <2> SUFFICES ASSUME NEW i \in 1 .. Len(toBoard), toBoard'[i].type = "SPEED"
               PROVE  overrun' <= toBoard'[i].age
    BY <1>5 DEF LineFresh
  <2>1. overrun <= toBoard[i].age
    BY <1>4 DEF IInv, LineFresh
  <2> QED
    BY <1>4, <1>9, <2>1
<1>11. CommandFresh'
  <2> SUFFICES ASSUME driving' PROVE overrun' <= MaxDelay + cmdAge'
    BY DEF CommandFresh
  <2>1. driving /\ cmdAge' = cmdAge + 1
    BY <1>2
  <2>2. overrun <= MaxDelay + cmdAge /\ cmdAge \in Nat
    BY <1>1, <2>1, HostBoardAssumption DEF IInv, CommandFresh, SystemTyped
  <2> QED
    BY <1>9, <2>1, <2>2, HostBoardAssumption
<1> QED
  BY <1>8, <1>9, <1>10, <1>11, TypedAgain DEF IInv

THEOREM InvariantInductive == Spec => []IInv
<1>1. Init => IInv
  <2> SUFFICES ASSUME Init PROVE IInv
    OBVIOUS
  <2>1. toBoard = <<>> /\ Len(<<>>) = 0 /\ <<>> \in Seq(LineFrame)
    BY EmptySeq DEF Init
  <2>2. 1 .. Len(toBoard) = {} /\ Len(toBoard) <= MaxLine
    BY <2>1, HostBoardAssumption
  <2>3. 0 \in 0 .. OverrunMax /\ 0 \in 0 .. FedMax
    BY HostBoardAssumption DEF OverrunMax, FedMax
  <2>4. TypeOK
    BY <2>1, <2>2, <2>3, ZeroBounded DEF Init, Session!Init, Session!Phase, TypeOK, LineFrame
  <2> QED
    BY <2>2, <2>4 DEF Init, IInv, LineFresh, CommandFresh
<1>2. IInv /\ [Next]_vars => IInv'
  <2>1. IInv /\ UNCHANGED vars => IInv'
    <3> SUFFICES ASSUME IInv, UNCHANGED vars PROVE IInv'
      OBVIOUS
    <3>1. /\ toBoard' = toBoard /\ overrun' = overrun /\ driving' = driving
          /\ cmdAge' = cmdAge
      BY DEF vars, system, board
    <3>2. LineFresh' /\ CommandFresh'
      BY <3>1 DEF IInv, LineFresh, CommandFresh
    <3>3. TypeOK'
      BY DEF IInv, TypeOK, vars, system, session, host, board
    <3> QED
      BY <3>2, <3>3 DEF IInv
  <2> QED
    BY <2>1, TimelyStep, PassingStep DEF Next
<1> QED
  BY <1>1, <1>2, PTL DEF Spec

\* MotionStops holds: the chassis drives on for at most one travelling time and
\* one timeout, for every delay, timeout, lateness and length of the line.
THEOREM MotionStopsHolds == Spec => []MotionStops
<1>1. IInv => MotionStops
  <2> SUFFICES ASSUME IInv, driving PROVE overrun <= MaxDelay + CmdTimeout + 1
    BY DEF MotionStops
  <2>1. overrun <= MaxDelay + cmdAge /\ cmdAge \in 0 .. CmdTimeout + 1
        /\ overrun \in 0 .. OverrunMax
    BY DEF IInv, CommandFresh, TypeOK
  <2> QED
    BY <2>1, HostBoardAssumption DEF OverrunMax
<1> QED
  BY <1>1, InvariantInductive, PTL

\* TypeOK holds: the ages and the line stay within their bounds.
THEOREM TypesHold == Spec => []TypeOK
<1>1. IInv => TypeOK
  BY DEF IInv
<1> QED
  BY <1>1, InvariantInductive, PTL

-----------------------------------------------------------------------------
(* The other side: the motors are not stopped by frames that are late.     *)

\* The frames that end a movement.
Halts == {"STOP", "EN0"}

\* The longest time between two speeds.
Gap == RepeatPeriod + MaxLate

\* A repeated speed is not older than what the board waits for.
InTime == RepeatPeriod + MaxLate + MaxDelay <= CmdTimeout

\* Frames arrive in the order in which they were sent.
Ordered == \A i, j \in 1 .. Len(toBoard) : i <= j => toBoard[j].age <= toBoard[i].age

\* What could end a movement was sent before the host wanted it.
HaltsOld == \A i \in 1 .. Len(toBoard) : toBoard[i].type \in Halts => fed <= toBoard[i].age

\* Behind the k-th frame comes a speed that follows within Gap on what is
\* age old, or it is to be sent in time for that.
Followed(k, age) ==
    \/ age <= repeatAge
    \/ \E j \in 1 .. Len(toBoard) :
          k < j /\ toBoard[j].type = "SPEED" /\ age <= toBoard[j].age + Gap

\* Every speed on the line is followed by the next, if not then because the host
\* has not wanted to move for long enough.
LineFollowed ==
    \A i \in 1 .. Len(toBoard) : toBoard[i].type = "SPEED" =>
        Followed(i, fed) \/ Followed(i, toBoard[i].age)

\* So is the speed which the board obeys, and nothing on the line ends it.
BoardFollowed ==
    \/ Followed(0, fed)
    \/ /\ driving /\ Followed(0, cmdAge)
       /\ \A i \in 1 .. Len(toBoard) : toBoard[i].type \notin Halts

\* An update has disabled the chassis.
UpdateDisables == otaBusy => userDisabled

FeedInv == Ordered /\ HaltsOld /\ LineFollowed /\ BoardFollowed /\ UpdateDisables

LEMMA NothingExtends ==
    ASSUME SystemTyped, toBoard' = toBoard, NEW types
    PROVE  Extends(types)
<1>1. Len(toBoard) \in Nat
  BY LenProperties DEF SystemTyped
<1> QED
  BY <1>1 DEF Extends

\* A write of one frame, and of two.
LEMMA WriteOneExtends ==
    ASSUME SystemTyped, NEW type \in FrameType, Write(<<type>>)
    PROVE  Extends({type}) /\ (calm => Len(toBoard') = Len(toBoard) + 1)
<1> DEFINE types == <<type>>
<1>1. types \in Seq(FrameType) /\ Len(types) = 1 /\ types[1] = type /\ Write(types)
  OBVIOUS
<1> HIDE DEF types
<1>2. {types[k] : k \in 1 .. Len(types)} = {type}
  <2>1. 1 .. Len(types) = {1}
    BY <1>1
  <2> QED
    BY <1>1, <2>1
<1> QED
  BY <1>1, <1>2, WriteExtends

LEMMA WriteAnyExtends ==
    ASSUME SystemTyped, Write(<<"STOP", "EN0">>)
    PROVE  Extends(FrameType)
<1> DEFINE types == <<"STOP", "EN0">>
<1>1. types \in Seq(FrameType) /\ Len(types) = 2 /\ Write(types)
  BY DEF FrameType
<1> HIDE DEF types
<1>2. Extends({types[k] : k \in 1 .. Len(types)})
  BY <1>1, WriteExtends
<1>3. {types[k] : k \in 1 .. Len(types)} \subseteq FrameType
  BY <1>1, ElementOfSeq
<1> QED
  BY <1>2, <1>3 DEF Extends

LEMMA ExtendsMore ==
    ASSUME NEW types, NEW more, types \subseteq more, Extends(types)
    PROVE  Extends(more)
BY DEF Extends

LEMMA GapTyped ==
    /\ Gap \in Nat /\ MaxDelay \in Nat /\ CmdTimeout \in Nat
    /\ FedMax = Gap + MaxDelay + 1
    /\ InTime <=> Gap + MaxDelay <= CmdTimeout
BY HostBoardAssumption DEF Gap, FedMax, InTime

\* The repeat timer has run within Gap.
LEMMA AgesTyped ==
    ASSUME SystemTyped
    PROVE  repeatAge \in Nat /\ repeatAge <= Gap /\ cmdAge \in Nat
BY GapTyped DEF SystemTyped, Gap

\* While the host does not want to move, nothing is asked of the line.
LEMMA NotFed ==
    ASSUME SystemTyped', fed' = 0
    PROVE  HaltsOld' /\ LineFollowed' /\ BoardFollowed'
<1>1. /\ \A i \in 1 .. Len(toBoard') : toBoard'[i].age \in Nat
      /\ 0 <= repeatAge'
  BY FramesTyped, GapTyped DEF SystemTyped
<1>2. HaltsOld'
  BY <1>1 DEF HaltsOld
<1>3. LineFollowed'
  BY <1>1 DEF LineFollowed, Followed
<1>4. BoardFollowed'
  BY <1>1 DEF BoardFollowed, Followed
<1> QED
  BY <1>2, <1>3, <1>4

LEMMA ExtendsOrdered ==
    ASSUME SystemTyped, SystemTyped', Ordered, NEW types, Extends(types)
    PROVE  Ordered'
<1>1. /\ \A i \in 1 .. Len(toBoard') : toBoard'[i].age \in Nat
      /\ Len(toBoard) \in Nat /\ Len(toBoard') \in Nat
  BY FramesTyped DEF SystemTyped
<1> SUFFICES ASSUME NEW i \in 1 .. Len(toBoard'), NEW j \in 1 .. Len(toBoard'), i <= j
             PROVE  toBoard'[j].age <= toBoard'[i].age
  BY DEF Ordered
<1>2. CASE j <= Len(toBoard)
  <2>1. i \in 1 .. Len(toBoard) /\ j \in 1 .. Len(toBoard)
    BY <1>1, <1>2
  <2>2. toBoard[j].age <= toBoard[i].age
    BY <2>1 DEF Ordered
  <2> QED
    BY <2>1, <2>2 DEF Extends
<1>3. CASE j > Len(toBoard)
  <2>1. toBoard'[j].age = 0
    BY <1>3 DEF Extends
  <2> QED
    BY <1>1, <2>1
<1> QED
  BY <1>1, <1>2, <1>3

\* What is followed stays so when frames are written, and when the timer runs
\* and writes a speed.
LEMMA FollowedKept ==
    ASSUME SystemTyped, SystemTyped', NEW types, Extends(types),
           \/ repeatAge' = repeatAge
           \/ types = {"SPEED"} /\ Len(toBoard') = Len(toBoard) + 1,
           NEW k \in 0 .. Len(toBoard), NEW age \in Nat, Followed(k, age)
    PROVE  \/ age <= repeatAge'
           \/ \E j \in 1 .. Len(toBoard') :
                 k < j /\ toBoard'[j].type = "SPEED" /\ age <= toBoard'[j].age + Gap
<1>1. Len(toBoard) \in Nat /\ Len(toBoard') \in Nat /\ repeatAge \in Nat /\ repeatAge <= Gap
  BY FramesTyped, AgesTyped DEF SystemTyped
<1>2. CASE age <= repeatAge
  <2>1. CASE repeatAge' = repeatAge
    BY <1>2, <2>1
  <2>2. CASE types = {"SPEED"} /\ Len(toBoard') = Len(toBoard) + 1
    <3> DEFINE j == Len(toBoard) + 1
    <3>1. j \in 1 .. Len(toBoard') /\ j > Len(toBoard) /\ k < j
      BY <1>1, <2>2
    <3>2. toBoard'[j].type = "SPEED" /\ toBoard'[j].age = 0
      BY <2>2, <3>1 DEF Extends
    <3>3. age <= 0 + Gap
      BY <1>1, <1>2, GapTyped
    <3> QED
      BY <3>1, <3>2, <3>3
  <2> QED
    BY <2>1, <2>2
<1>3. ASSUME NEW j \in 1 .. Len(toBoard),
             k < j, toBoard[j].type = "SPEED", age <= toBoard[j].age + Gap
      PROVE  \E i \in 1 .. Len(toBoard') :
                k < i /\ toBoard'[i].type = "SPEED" /\ age <= toBoard'[i].age + Gap
  <2>1. j \in 1 .. Len(toBoard') /\ toBoard'[j] = toBoard[j]
    BY <1>1 DEF Extends
  <2> QED
    BY <1>3, <2>1
<1> QED
  BY <1>2, <1>3 DEF Followed

\* Steps that only write enables, or the speed of the timer.
LEMMA WrittenFollowed ==
    ASSUME SystemTyped, SystemTyped', FeedInv, fed \in Nat, fed' = fed,
           driving' = driving, cmdAge' = cmdAge,
           NEW types, Extends(types),
           \/ types = {"EN1"} /\ repeatAge' = repeatAge
           \/ types = {"SPEED"} /\ Len(toBoard') = Len(toBoard) + 1
    PROVE  HaltsOld' /\ LineFollowed' /\ BoardFollowed'
<1>1. /\ Len(toBoard) \in Nat /\ Len(toBoard') \in Nat /\ cmdAge \in Nat
      /\ \A i \in 1 .. Len(toBoard) : toBoard[i].age \in Nat
      /\ repeatAge' \in Nat
  BY FramesTyped, AgesTyped, GapTyped DEF SystemTyped
<1>2. ASSUME NEW i \in 1 .. Len(toBoard')
      PROVE  \/ i \in 1 .. Len(toBoard) /\ toBoard'[i] = toBoard[i]
             \/ /\ i > Len(toBoard) /\ toBoard'[i].age = 0
                /\ toBoard'[i].type \in types
  BY <1>1 DEF Extends
<1>3. types \cap Halts = {}
  BY DEF Halts
<1>4. HaltsOld'
  BY <1>2, <1>3 DEF FeedInv, HaltsOld
<1>5. LineFollowed'
  <2> SUFFICES ASSUME NEW i \in 1 .. Len(toBoard'), toBoard'[i].type = "SPEED"
               PROVE  Followed(i, fed)' \/ Followed(i, toBoard[i].age)'
    BY DEF LineFollowed
  <2>1. CASE i \in 1 .. Len(toBoard) /\ toBoard'[i] = toBoard[i]
    <3>1. Followed(i, fed) \/ Followed(i, toBoard[i].age)
      BY <2>1 DEF FeedInv, LineFollowed
    <3>2. i \in 0 .. Len(toBoard) /\ toBoard[i].age \in Nat
      BY <1>1, <2>1
    <3> QED
      BY <2>1, <3>1, <3>2, FollowedKept DEF Followed
  <2>2. CASE i > Len(toBoard) /\ toBoard'[i].age = 0 /\ toBoard'[i].type \in types
    <3>1. toBoard'[i].age <= repeatAge'
      BY <1>1, <2>2
    <3> QED
      BY <3>1 DEF Followed
  <2> QED
    BY <1>2, <2>1, <2>2
<1>6. BoardFollowed'
  <2>1. 0 \in 0 .. Len(toBoard)
    BY <1>1
  <2>2. CASE Followed(0, fed)
    BY <2>1, <2>2, FollowedKept DEF BoardFollowed, Followed
  <2>3. CASE ~Followed(0, fed)
    <3>1. /\ driving /\ Followed(0, cmdAge)
          /\ \A i \in 1 .. Len(toBoard) : toBoard[i].type \notin Halts
      BY <2>3 DEF FeedInv, BoardFollowed
    <3>2. \A i \in 1 .. Len(toBoard') : toBoard'[i].type \notin Halts
      BY <1>2, <1>3, <3>1
    <3>3. Followed(0, cmdAge)'
      BY <1>1, <2>1, <3>1, FollowedKept DEF Followed
    <3> QED
      BY <3>1, <3>2, <3>3 DEF BoardFollowed
  <2> QED
    BY <2>2, <2>3
<1> QED
  BY <1>4, <1>5, <1>6

LEMMA ReceivedOrdered ==
    ASSUME SystemTyped, Ordered, BoardReceive
    PROVE  Ordered'
<1>1. toBoard \in Seq(LineFrame) /\ toBoard # <<>> /\ toBoard' = Tail(toBoard)
  BY DEF SystemTyped, BoardReceive
<1>2. /\ Len(toBoard') = Len(toBoard) - 1 /\ Len(toBoard) \in Nat
      /\ \A i \in 1 .. Len(toBoard') : toBoard'[i] = toBoard[i + 1]
  BY <1>1, HeadTailProperties, LenProperties
<1> SUFFICES ASSUME NEW i \in 1 .. Len(toBoard'), NEW j \in 1 .. Len(toBoard'), i <= j
             PROVE  toBoard'[j].age <= toBoard'[i].age
  BY DEF Ordered
<1>3. i + 1 \in 1 .. Len(toBoard) /\ j + 1 \in 1 .. Len(toBoard) /\ i + 1 <= j + 1
  BY <1>2
<1> QED
  BY <1>2, <1>3 DEF Ordered

\* The board takes the oldest frame: what followed that frame on the line now
\* follows the command the board obeys.
LEMMA ReceivedFollowed ==
    ASSUME SystemTyped, SystemTyped', FeedInv, fed \in Nat, fed' = fed, BoardReceive
    PROVE  HaltsOld' /\ LineFollowed' /\ BoardFollowed'
<1> DEFINE t == Head(toBoard).type
<1>1. /\ toBoard # <<>> /\ toBoard' = Tail(toBoard) /\ repeatAge' = repeatAge
      /\ driving' = (t = "SPEED" \/ (t = "EN1" /\ driving))
      /\ cmdAge' = IF t = "EN1" THEN cmdAge ELSE 0
  BY DEF BoardReceive, BoardTakes, host
<1>2. toBoard \in Seq(LineFrame)
  BY DEF SystemTyped
<1>3. /\ Len(toBoard') = Len(toBoard) - 1
      /\ \A i \in 1 .. Len(toBoard') : toBoard'[i] = toBoard[i + 1]
  BY <1>1, <1>2, HeadTailProperties
<1>4. Len(toBoard) \in Nat \ {0} /\ t = toBoard[1].type
  BY <1>1, <1>2, EmptySeq
<1> HIDE DEF t
<1>5. /\ \A i \in 1 .. Len(toBoard) :
            toBoard[i].age \in Nat /\ toBoard[i].type \in FrameType
      /\ cmdAge \in Nat /\ repeatAge \in Nat
  BY <1>2, FramesTyped, AgesTyped
<1>6. ASSUME NEW k \in Nat, NEW age, Followed(k + 1, age)
      PROVE  \/ age <= repeatAge'
             \/ \E j \in 1 .. Len(toBoard') :
                   k < j /\ toBoard'[j].type = "SPEED" /\ age <= toBoard'[j].age + Gap
  <2>1. CASE age <= repeatAge
    BY <1>1, <2>1
  <2>2. ASSUME NEW j \in 1 .. Len(toBoard),
               k + 1 < j, toBoard[j].type = "SPEED", age <= toBoard[j].age + Gap
        PROVE  \E i \in 1 .. Len(toBoard') :
                  k < i /\ toBoard'[i].type = "SPEED" /\ age <= toBoard'[i].age + Gap
    <3>1. j - 1 \in 1 .. Len(toBoard') /\ k < j - 1
      BY <1>3, <1>4, <2>2
    <3>2. toBoard'[j - 1] = toBoard[j]
      BY <1>3, <3>1
    <3> QED
      BY <2>2, <3>1, <3>2
  <2> QED
    BY <1>6, <2>1, <2>2 DEF Followed
<1>7. ASSUME NEW i \in 1 .. Len(toBoard')
      PROVE  i + 1 \in 1 .. Len(toBoard) /\ toBoard'[i] = toBoard[i + 1]
  BY <1>3, <1>4
<1>9. HaltsOld'
  BY <1>7 DEF FeedInv, HaltsOld
<1>10. LineFollowed'
  <2> SUFFICES ASSUME NEW i \in 1 .. Len(toBoard'), toBoard'[i].type = "SPEED"
               PROVE  Followed(i, fed)' \/ Followed(i, toBoard[i].age)'
    BY DEF LineFollowed
  <2>1. Followed(i + 1, fed) \/ Followed(i + 1, toBoard[i + 1].age)
    BY <1>7 DEF FeedInv, LineFollowed
  <2>2. i \in Nat
    OBVIOUS
  <2>3. CASE Followed(i + 1, fed)
    BY <1>6, <2>2, <2>3 DEF Followed
  <2>4. CASE Followed(i + 1, toBoard[i + 1].age)
    <3>1. \/ toBoard[i + 1].age <= repeatAge'
          \/ \E j \in 1 .. Len(toBoard') :
                i < j /\ toBoard'[j].type = "SPEED" /\ toBoard[i + 1].age <= toBoard'[j].age + Gap
      BY <1>6, <2>2, <2>4
    <3>2. toBoard[i + 1] = toBoard'[i]
      BY <1>7
    <3> QED
      BY <3>1, <3>2 DEF Followed
  <2> QED
    BY <2>1, <2>3, <2>4
<1>11. BoardFollowed'
  <2>1. CASE t = "SPEED"
    <3>1. driving' /\ cmdAge' = 0 /\ 1 \in 1 .. Len(toBoard)
      <4>1. driving'
        BY <1>1, <2>1, Zenon
      <4>2. t # "EN1"
        BY <2>1
      <4> QED
        BY <1>1, <1>4, <4>1, <4>2
    <3>2. Followed(1, fed) \/ Followed(1, toBoard[1].age)
      BY <1>4, <2>1, <3>1 DEF FeedInv, LineFollowed
    <3>3. CASE Followed(1, fed)
      <4>1. Followed(0 + 1, fed) /\ 0 \in Nat
        BY <3>3
      <4> QED
        BY <1>6, <4>1 DEF BoardFollowed, Followed
    <3>4. CASE ~Followed(1, fed) /\ Followed(1, toBoard[1].age)
      <4>1. toBoard[1].age \in Nat /\ toBoard[1].age < fed
        <5>1. toBoard[1].age \in Nat
          BY <1>5, <3>1
        <5>2. ~(fed <= toBoard[1].age)
          <6>1. CASE toBoard[1].age <= repeatAge
            BY <1>5, <3>4, <5>1, <6>1 DEF Followed
          <6>2. ASSUME NEW j \in 1 .. Len(toBoard), 1 < j, toBoard[j].type = "SPEED",
                       toBoard[1].age <= toBoard[j].age + Gap
                PROVE  ~(fed <= toBoard[1].age)
            <7>1. ~(fed <= toBoard[j].age + Gap)
              BY <3>4, <6>2 DEF Followed
            <7> QED
              BY <1>5, <5>1, <6>2, <7>1, GapTyped
          <6> QED
            BY <3>4, <6>1, <6>2 DEF Followed
        <5> QED
          BY <5>1, <5>2
      <4>2. \A i \in 1 .. Len(toBoard') : toBoard'[i].type \notin Halts
        <5> SUFFICES ASSUME NEW i \in 1 .. Len(toBoard'), toBoard'[i].type \in Halts
                     PROVE  FALSE
          OBVIOUS
        <5>1. fed <= toBoard[i + 1].age
          BY <1>7 DEF FeedInv, HaltsOld
        <5>2. toBoard[i + 1].age <= toBoard[1].age
          BY <1>7, <3>1 DEF FeedInv, Ordered
        <5> QED
          BY <1>5, <1>7, <4>1, <5>1, <5>2
      <4>3. Followed(0, cmdAge)'
        BY <1>1, <1>5, <3>1 DEF Followed
      <4> QED
        BY <3>1, <4>2, <4>3 DEF BoardFollowed
    <3> QED
      BY <3>2, <3>3, <3>4
  <2>2. CASE t # "SPEED"
    <3>1. ASSUME NEW age, Followed(0, age)
          PROVE  Followed(1, age)
      <4>1. \A j \in 1 .. Len(toBoard) : 0 < j /\ toBoard[j].type = "SPEED" => 1 < j
        BY <1>4, <2>2
      <4> QED
        BY <3>1, <4>1 DEF Followed
    <3>2. CASE Followed(0, fed)
      <4>1. Followed(0 + 1, fed) /\ 0 \in Nat
        BY <3>1, <3>2
      <4> QED
        BY <1>6, <4>1 DEF BoardFollowed, Followed
    <3>3. CASE ~Followed(0, fed)
      <4>1. /\ driving /\ Followed(0, cmdAge)
            /\ \A i \in 1 .. Len(toBoard) : toBoard[i].type \notin Halts
        BY <3>3 DEF FeedInv, BoardFollowed
      <4>2. t = "EN1"
        <5>1. t \in FrameType /\ t \notin Halts
          BY <1>4, <1>5, <4>1
        <5> QED
          BY <2>2, <5>1 DEF FrameType, Halts
      <4>3. driving' /\ cmdAge' = cmdAge
        BY <1>1, <4>1, <4>2
      <4>4. \A i \in 1 .. Len(toBoard') : toBoard'[i].type \notin Halts
        BY <1>7, <4>1
      <4>5. Followed(0, cmdAge)'
        <5>1. Followed(0 + 1, cmdAge) /\ 0 \in Nat
          BY <3>1, <4>1
        <5> QED
          BY <1>6, <4>3, <5>1 DEF Followed
      <4> QED
        BY <4>3, <4>4, <4>5 DEF BoardFollowed
    <3> QED
      BY <3>2, <3>3
  <2> QED
    BY <2>1, <2>2
<1> QED
  BY <1>9, <1>10, <1>11

\* What a step in which no time passes does to the speeds and their followers.
FeedStep ==
    \/ ~(Authorised' /\ calm') /\ (Extends(FrameType) \/ toBoard' = <<>>)
    \/ Extends({"EN1"}) /\ UNCHANGED <<driving, cmdAge, repeatAge>>
    \/ /\ Extends({"SPEED"}) /\ Len(toBoard') = Len(toBoard) + 1
       /\ UNCHANGED <<driving, cmdAge>>
    \/ BoardReceive
    \/ BoardTimeout

LEMMA CommandFeeds ==
    ASSUME SystemTyped, UpdateDisables, Command
    PROVE  FeedStep /\ UpdateDisables'
<1>1. CASE CmdSpeed
  <2>1. Extends({"EN1"})
    BY <1>1, NothingExtends DEF CmdSpeed
  <2> QED
    BY <1>1, <2>1 DEF CmdSpeed, FeedStep, UpdateDisables, otaBusy, board
<1>2. CASE StopDriving
  <2>1. Extends(FrameType)
    BY <1>2, WriteOneExtends, ExtendsMore DEF StopDriving, FrameType
  <2>2. ~Authorised'
    BY <1>2 DEF StopDriving, Authorised
  <2> QED
    BY <1>2, <2>1, <2>2 DEF StopDriving, FeedStep, UpdateDisables, otaBusy
<1>3. CASE CmdEnable
  <2>1. Extends({"EN1"})
    BY <1>3, WriteOneExtends DEF CmdEnable, FrameType
  <2> QED
    BY <1>3, <2>1 DEF CmdEnable, FeedStep, UpdateDisables, otaBusy, board
<1>4. CASE CmdDisable
  <2>1. Extends(FrameType)
    BY <1>4, WriteOneExtends, ExtendsMore DEF CmdDisable, FrameType
  <2>2. ~Authorised'
    BY <1>4 DEF CmdDisable, Authorised
  <2> QED
    BY <1>4, <2>1, <2>2 DEF CmdDisable, FeedStep, UpdateDisables, otaBusy
<1>5. CASE CmdFlash
  <2>1. Extends(FrameType)
    BY <1>5, WriteAnyExtends DEF CmdFlash
  <2>2. ~Authorised'
    BY <1>5 DEF CmdFlash, Authorised
  <2> QED
    BY <1>5, <2>1, <2>2 DEF CmdFlash, FeedStep, UpdateDisables, otaBusy
<1>6. CASE CmdFlashAbort
  <2>1. Extends({"EN1"})
    BY <1>6, NothingExtends DEF CmdFlashAbort
  <2> QED
    BY <1>6, <2>1 DEF CmdFlashAbort, FeedStep, UpdateDisables, otaBusy, host, board
<1> QED
  BY <1>1, <1>2, <1>3, <1>4, <1>5, <1>6 DEF Command

\* Handlers that leave the line, the wish of the user and the board alone.
LEMMA AsideFeeds ==
    ASSUME SystemTyped, UpdateDisables, UNCHANGED <<host, board, toBoard>>,
           ota' # ota => otaBusy \/ ota' = "NONE"
    PROVE  FeedStep /\ UpdateDisables'
<1>1. Extends({"EN1"})
  BY NothingExtends
<1> QED
  BY <1>1 DEF FeedStep, UpdateDisables, otaBusy, host, board

LEMMA HandlerFeeds ==
    ASSUME SystemTyped, UpdateDisables, Handler
    PROVE  FeedStep /\ UpdateDisables'
<1>1. CASE QuiesceExpired
  BY <1>1, AsideFeeds DEF QuiesceExpired, otaBusy
<1>2. CASE RecoverExpired
  BY <1>2, AsideFeeds DEF RecoverExpired
<1>3. CASE Reconnect
  BY <1>3, AsideFeeds DEF Reconnect
<1>4. CASE ChildExit
  BY <1>4, AsideFeeds DEF ChildExit, otaBusy
<1>5. ASSUME Established \/ SessionFlickers PROVE FeedStep /\ UpdateDisables'
  <2>1. /\ Write(<<IF userDisabled THEN "EN0" ELSE "EN1">>)
        /\ ota' = IF ota = "RECOVERING" THEN "NONE" ELSE ota
        /\ UNCHANGED <<userDisabled, moving, repeatAge, board>>
    BY <1>5 DEF Established, SessionFlickers, OnReady
  <2>2. UpdateDisables'
    BY <2>1 DEF UpdateDisables, otaBusy
  <2>3. CASE userDisabled
    <3>1. Extends(FrameType)
      BY <2>1, <2>3, WriteOneExtends, ExtendsMore DEF FrameType
    <3>2. ~Authorised'
      BY <2>1, <2>3 DEF Authorised
    <3> QED
      BY <2>2, <3>1, <3>2 DEF FeedStep
  <2>4. CASE ~userDisabled
    <3>1. Extends({"EN1"})
      BY <2>1, <2>4, WriteOneExtends DEF FrameType
    <3> QED
      BY <2>1, <2>2, <3>1 DEF FeedStep, board
  <2> QED
    BY <2>3, <2>4
<1>6. CASE SessionEnds
  BY <1>6, AsideFeeds DEF SessionEnds
<1>7. CASE StatusHeals
  <2>1. Extends({"EN1"})
    BY <1>7, WriteOneExtends DEF StatusHeals, FrameType
  <2> QED
    BY <1>7, <2>1 DEF StatusHeals, FeedStep, UpdateDisables, otaBusy, host, board
<1>8. CASE StatusConfirms
  BY <1>8, AsideFeeds DEF StatusConfirms, otaBusy
<1>9. CASE StatusPasses
  BY <1>9, AsideFeeds DEF StatusPasses
<1>10. CASE RepeatTimer
  <2>1. /\ repeatAge' = 0 /\ Session!Stay
        /\ UNCHANGED <<userDisabled, moving, ota, board, calm>>
    BY <1>10 DEF RepeatTimer
  <2>2. UpdateDisables'
    BY <2>1 DEF UpdateDisables, otaBusy
  <2>3. Authorised' <=> Authorised
    BY <2>1 DEF Authorised, Ready, Session!Stay, Session!Step
  <2>4. CASE ~Authorised
    <3>1. Extends(FrameType)
      BY <1>10, <2>4, NothingExtends DEF RepeatTimer
    <3> QED
      BY <2>2, <2>3, <2>4, <3>1 DEF FeedStep
  <2>5. CASE Authorised
    <3>1. Extends({"SPEED"}) /\ (calm => Len(toBoard') = Len(toBoard) + 1)
      BY <1>10, <2>5, WriteOneExtends DEF RepeatTimer, FrameType
    <3>2. CASE calm
      BY <2>1, <2>2, <3>1, <3>2 DEF FeedStep, board
    <3>3. CASE ~calm
      <4>1. Extends(FrameType) /\ ~calm'
        BY <2>1, <3>1, <3>3, ExtendsMore DEF FrameType
      <4> QED
        BY <2>2, <4>1 DEF FeedStep
    <3> QED
      BY <3>2, <3>3
  <2> QED
    BY <2>4, <2>5
<1> QED
  BY <1>1, <1>2, <1>3, <1>4, <1>5, <1>6, <1>7, <1>8, <1>9, <1>10 DEF Handler, WatchdogTimer

LEMMA BoardFeeds ==
    ASSUME SystemTyped, UpdateDisables, Board \/ FaultsStop
    PROVE  FeedStep /\ UpdateDisables'
<1>1. CASE BoardReceive
  BY <1>1 DEF BoardReceive, FeedStep, UpdateDisables, otaBusy, host
<1>2. CASE BoardTimeout
  BY <1>2 DEF BoardTimeout, FeedStep, UpdateDisables, otaBusy, host
<1>3. CASE BoardStatus
  BY <1>3, AsideFeeds DEF BoardStatus
<1>4. CASE BoardRestart
  <2>1. ~(Authorised' /\ calm')
    BY <1>4 DEF BoardRestart, UpdateDisables, otaBusy, Authorised, host
  <2> QED
    BY <1>4, <2>1 DEF BoardRestart, FeedStep, UpdateDisables, otaBusy, host
<1>5. CASE FaultsStop
  BY <1>5, AsideFeeds DEF FaultsStop
<1> QED
  BY <1>1, <1>2, <1>3, <1>4, <1>5 DEF Board

\* A step in which no time passes.
LEMMA TimelyFed ==
    ASSUME InTime, TypeOK, TypeOK', FeedInv, Timely
    PROVE  FeedInv'
<1>1. SystemTyped
  BY SystemHasType
<1>2. SystemTyped'
  BY DEF TypeOK, SystemTyped, LineFrame
<1>3. FeedStep /\ UpdateDisables'
  BY <1>1, CommandFeeds, HandlerFeeds, BoardFeeds DEF FeedInv, Timely
<1>4. fed \in Nat /\ (fed' = fed \/ fed' = 0) /\ (~(Authorised' /\ calm') => fed' = 0)
  <2>1. fed \in 0 .. FedMax /\ FedMax \in Nat
    BY GapTyped DEF TypeOK
  <2>2. fed' = IF ~(Authorised' /\ calm') THEN 0
               ELSE IF fed + 0 < FedMax THEN fed + 0 ELSE FedMax
    BY DEF Timely, Watch
  <2> QED
    BY <2>1, <2>2
<1>5. CASE ~(Authorised' /\ calm') /\ (Extends(FrameType) \/ toBoard' = <<>>)
  <2>1. HaltsOld' /\ LineFollowed' /\ BoardFollowed'
    BY <1>2, <1>4, <1>5, NotFed
  <2>2. Ordered'
    <3>1. CASE Extends(FrameType)
      BY <1>1, <1>2, <3>1, ExtendsOrdered DEF FeedInv
    <3>2. CASE toBoard' = <<>>
      <4>1. 1 .. Len(toBoard') = {}
        BY <3>2
      <4> QED
        BY <4>1 DEF Ordered
    <3> QED
      BY <1>5, <3>1, <3>2
  <2> QED
    BY <1>3, <2>1, <2>2 DEF FeedInv
<1>6. ASSUME \/ Extends({"EN1"}) /\ UNCHANGED <<driving, cmdAge, repeatAge>>
             \/ /\ Extends({"SPEED"}) /\ Len(toBoard') = Len(toBoard) + 1
                /\ UNCHANGED <<driving, cmdAge>>
      PROVE  FeedInv'
  <2>1. Ordered'
    BY <1>1, <1>2, <1>6, ExtendsOrdered DEF FeedInv
  <2>2. HaltsOld' /\ LineFollowed' /\ BoardFollowed'
    <3>1. CASE fed' = 0
      BY <1>2, <3>1, NotFed
    <3>2. CASE fed' = fed
      BY <1>1, <1>2, <1>4, <1>6, <3>2, WrittenFollowed
    <3> QED
      BY <1>4, <3>1, <3>2
  <2> QED
    BY <1>3, <2>1, <2>2 DEF FeedInv
<1>7. CASE BoardReceive
  <2>1. Ordered'
    BY <1>1, <1>7, ReceivedOrdered DEF FeedInv
  <2>2. HaltsOld' /\ LineFollowed' /\ BoardFollowed'
    <3>1. CASE fed' = 0
      BY <1>2, <3>1, NotFed
    <3>2. CASE fed' = fed
      BY <1>1, <1>2, <1>4, <1>7, <3>2, ReceivedFollowed
    <3> QED
      BY <1>4, <3>1, <3>2
  <2> QED
    BY <1>3, <2>1, <2>2 DEF FeedInv
<1>8. CASE BoardTimeout
  <2>1. toBoard' = toBoard /\ repeatAge' = repeatAge
    BY <1>8 DEF BoardTimeout, host
  <2>2. CASE fed' = 0
    BY <1>2, <1>3, <2>1, <2>2, NotFed DEF FeedInv, Ordered
  <2>3. CASE fed' = fed
    <3>1. Ordered' /\ HaltsOld' /\ LineFollowed'
      BY <2>1, <2>3 DEF FeedInv, Ordered, HaltsOld, LineFollowed, Followed
    <3>2. ~Followed(0, cmdAge)
      <4>1. cmdAge > CmdTimeout
        BY <1>8 DEF BoardTimeout, Overdue
      <4>2. /\ repeatAge \in Nat /\ repeatAge <= Gap /\ cmdAge \in Nat
            /\ \A j \in 1 .. Len(toBoard) :
                  toBoard[j].age \in Nat /\ toBoard[j].age <= MaxDelay
        BY <1>1, AgesTyped, FramesTyped DEF SystemTyped
      <4>3. ~(cmdAge <= repeatAge)
        BY <4>1, <4>2, GapTyped
      <4>4. ASSUME NEW j \in 1 .. Len(toBoard), cmdAge <= toBoard[j].age + Gap
            PROVE  FALSE
        BY <4>1, <4>2, <4>4, GapTyped
      <4> QED
        BY <4>3, <4>4 DEF Followed
    <3>3. Followed(0, fed)
      BY <3>2 DEF FeedInv, BoardFollowed
    <3>4. BoardFollowed'
      BY <2>1, <2>3, <3>3 DEF BoardFollowed, Followed
    <3> QED
      BY <1>3, <3>1, <3>4 DEF FeedInv
  <2> QED
    BY <1>4, <2>2, <2>3
<1> QED
  BY <1>3, <1>5, <1>6, <1>7, <1>8 DEF FeedStep

\* Time passes: frames, command, timer and the time of the host's wish grow
\* older together.
LEMMA PassingFed ==
    ASSUME TypeOK, TypeOK', FeedInv, Passing
    PROVE  FeedInv'
<1>1. SystemTyped
  BY SystemHasType
<1>2. SystemTyped'
  BY DEF TypeOK, SystemTyped, LineFrame
<1>3. /\ toBoard' = [i \in DOMAIN toBoard |-> [toBoard[i] EXCEPT !.age = @ + 1]]
      /\ repeatAge' = repeatAge + 1
      /\ cmdAge' = IF driving THEN cmdAge + 1 ELSE cmdAge
      /\ UNCHANGED <<userDisabled, ota, driving>>
      /\ Watch(1)
  BY DEF Passing, Elapse
<1>4. /\ DOMAIN toBoard = 1 .. Len(toBoard) /\ Len(toBoard) \in Nat
      /\ \A i \in 1 .. Len(toBoard) : toBoard[i] \in LineFrame
  BY <1>1, LenProperties, ElementOfSeq DEF SystemTyped
<1>5. Len(toBoard') = Len(toBoard)
  <2>1. toBoard' \in Seq(LineFrame) /\ DOMAIN toBoard' = DOMAIN toBoard
    BY <1>2, <1>3 DEF SystemTyped
  <2> QED
    BY <1>4, <2>1, LenProperties
<1>6. ASSUME NEW i \in 1 .. Len(toBoard)
      PROVE  /\ toBoard'[i].type = toBoard[i].type
             /\ toBoard'[i].age = toBoard[i].age + 1
             /\ toBoard[i].age \in Nat
  <2>1. toBoard'[i] = [toBoard[i] EXCEPT !.age = @ + 1] /\ toBoard[i] \in LineFrame
    BY <1>3, <1>4
  <2>2. toBoard'[i] = [type |-> toBoard[i].type, age |-> toBoard[i].age + 1]
    BY <2>1 DEF LineFrame
  <2> QED
    BY <2>1, <2>2, HostBoardAssumption DEF LineFrame
<1>7. fed \in Nat /\ fed' \in Nat /\ fed' <= fed + 1
  <2>1. fed \in 0 .. FedMax /\ FedMax \in Nat
    BY GapTyped DEF TypeOK
  <2>2. fed' = IF ~(Authorised' /\ calm') THEN 0
               ELSE IF fed + 1 < FedMax THEN fed + 1 ELSE FedMax
    BY <1>3 DEF Watch
  <2> QED
    BY <2>1, <2>2
<1>8. repeatAge \in Nat /\ cmdAge \in Nat /\ Gap \in Nat
  BY <1>1, AgesTyped, GapTyped
<1>9. ASSUME NEW k \in Nat, NEW age \in Nat, NEW older \in Nat,
             older <= age + 1, Followed(k, age)
      PROVE  \/ older <= repeatAge'
             \/ \E j \in 1 .. Len(toBoard') :
                   k < j /\ toBoard'[j].type = "SPEED" /\ older <= toBoard'[j].age + Gap
  <2>1. CASE age <= repeatAge
    BY <1>3, <1>8, <1>9, <2>1
  <2>2. ASSUME NEW j \in 1 .. Len(toBoard),
               k < j, toBoard[j].type = "SPEED", age <= toBoard[j].age + Gap
        PROVE  \E i \in 1 .. Len(toBoard') :
                  k < i /\ toBoard'[i].type = "SPEED" /\ older <= toBoard'[i].age + Gap
    <3>1. older <= (toBoard[j].age + 1) + Gap
      BY <1>6, <1>8, <1>9, <2>2
    <3>2. /\ toBoard'[j].type = "SPEED" /\ toBoard'[j].age = toBoard[j].age + 1
          /\ j \in 1 .. Len(toBoard')
      BY <1>5, <1>6, <2>2
    <3> QED
      BY <2>2, <3>1, <3>2
  <2> QED
    BY <1>9, <2>1, <2>2 DEF Followed
<1>10. Ordered'
  BY <1>5, <1>6 DEF FeedInv, Ordered
<1>11. HaltsOld'
  <2> SUFFICES ASSUME NEW i \in 1 .. Len(toBoard), toBoard'[i].type \in Halts
               PROVE  fed' <= toBoard'[i].age
    BY <1>5 DEF HaltsOld
  <2>1. fed <= toBoard[i].age
    BY <1>6 DEF FeedInv, HaltsOld
  <2> QED
    BY <1>6, <1>7, <2>1
<1>12. LineFollowed'
  <2> SUFFICES ASSUME NEW i \in 1 .. Len(toBoard), toBoard'[i].type = "SPEED"
               PROVE  Followed(i, fed)' \/ Followed(i, toBoard[i].age)'
    BY <1>5 DEF LineFollowed
  <2>1. Followed(i, fed) \/ Followed(i, toBoard[i].age)
    BY <1>6 DEF FeedInv, LineFollowed
  <2>2. toBoard'[i].age \in Nat /\ toBoard'[i].age <= toBoard[i].age + 1 /\ i \in Nat
    BY <1>6
  <2>3. CASE Followed(i, fed)
    BY <1>7, <1>9, <2>2, <2>3 DEF Followed
  <2>4. CASE Followed(i, toBoard[i].age)
    BY <1>6, <1>9, <2>2, <2>4 DEF Followed
  <2> QED
    BY <2>1, <2>3, <2>4
<1>13. BoardFollowed'
  <2>1. CASE Followed(0, fed)
    BY <1>7, <1>9, <2>1 DEF BoardFollowed, Followed
  <2>2. CASE ~Followed(0, fed)
    <3>1. /\ driving /\ Followed(0, cmdAge)
          /\ \A i \in 1 .. Len(toBoard) : toBoard[i].type \notin Halts
      BY <2>2 DEF FeedInv, BoardFollowed
    <3>2. cmdAge' \in Nat /\ cmdAge' <= cmdAge + 1
      BY <1>3, <1>8
    <3>3. Followed(0, cmdAge)'
      BY <1>8, <1>9, <3>1, <3>2 DEF Followed
    <3>4. \A i \in 1 .. Len(toBoard') : toBoard'[i].type \notin Halts
      BY <1>5, <1>6, <3>1
    <3> QED
      BY <1>3, <3>1, <3>3, <3>4 DEF BoardFollowed
  <2> QED
    BY <2>1, <2>2
<1>14. UpdateDisables'
  BY <1>3 DEF FeedInv, UpdateDisables, otaBusy
<1> QED
  BY <1>10, <1>11, <1>12, <1>13, <1>14 DEF FeedInv

\* KeepsMoving holds, for every length of the line, as long as a speed is
\* repeated, late as it may be, and arrives before the board gives up.
THEOREM KeepsMovingHolds ==
    ASSUME InTime
    PROVE  Spec => []KeepsMoving
<1>1. Init => FeedInv
  <2> SUFFICES ASSUME Init PROVE FeedInv
    OBVIOUS
  <2>1. 1 .. Len(toBoard) = {}
    BY DEF Init
  <2>2. Followed(0, fed)
    BY DEF Init, Followed
  <2> QED
    BY <2>1, <2>2 DEF Init, FeedInv, Ordered, HaltsOld, LineFollowed, BoardFollowed,
                      UpdateDisables, otaBusy
<1>2. TypeOK /\ TypeOK' /\ FeedInv /\ [Next]_vars => FeedInv'
  <2>1. FeedInv /\ UNCHANGED vars => FeedInv'
    <3> SUFFICES ASSUME FeedInv, UNCHANGED vars PROVE FeedInv'
      OBVIOUS
    <3>1. /\ toBoard' = toBoard /\ fed' = fed /\ driving' = driving
          /\ cmdAge' = cmdAge /\ repeatAge' = repeatAge
          /\ ota' = ota /\ userDisabled' = userDisabled
      BY DEF vars, system, host, board
    <3> QED
      BY <3>1 DEF FeedInv, Ordered, HaltsOld, LineFollowed, BoardFollowed, Followed,
                  UpdateDisables, otaBusy
  <2> QED
    BY <2>1, TimelyFed, PassingFed DEF Next
<1>3. TypeOK /\ FeedInv => KeepsMoving
  <2> SUFFICES ASSUME TypeOK, FeedInv, fed = FedMax PROVE driving
    BY DEF KeepsMoving
  <2>1. /\ repeatAge \in Nat /\ repeatAge <= Gap
        /\ \A j \in 1 .. Len(toBoard) :
              toBoard[j].age \in Nat /\ toBoard[j].age <= MaxDelay
    BY SystemHasType, AgesTyped, FramesTyped DEF SystemTyped
  <2>2. ~(fed <= repeatAge)
    BY <2>1, GapTyped
  <2>3. ASSUME NEW j \in 1 .. Len(toBoard), fed <= toBoard[j].age + Gap
        PROVE  FALSE
    BY <2>1, <2>3, GapTyped
  <2>4. ~Followed(0, fed)
    BY <2>2, <2>3 DEF Followed
  <2> QED
    BY <2>4 DEF FeedInv, BoardFollowed
<1> QED
  BY <1>1, <1>2, <1>3, TypesHold, PTL DEF Spec

=============================================================================
