--------------------------- MODULE SerialLine_proofs ---------------------------
(***************************************************************************)
(* What goes over the serial line, for every value of the constants: the   *)
(* bytes, which SerialPort keeps in order for every length of a frame,     *)
(* every tty and every limit of the buffer; the payloads, which            *)
(* PayloadCodec packs and parses, for every number and every payload; the  *)
(* session of ConLink, which the host gives up before the board does; and  *)
(* the frames, which FrameParser finds among all bytes, noise and faults.  *)
(***************************************************************************)
EXTENDS SerialPort, PayloadCodec, ConLink, ConSmOps_proofs, FrameParser,
        WellFoundedInduction, SequenceTheorems

-----------------------------------------------------------------------------
(* Sequences of bytes.                                                     *)

\* The bytes accepted so far, in order.
Accepted(n) == [i \in 1 .. n |-> i]

\* The next frame after the first a bytes.
NextBytes(a) == [i \in 1 .. FrameLen |-> a + i]

LEMMA AcceptedType ==
    ASSUME NEW n \in Nat
    PROVE  Accepted(n) \in Seq(Nat) /\ Len(Accepted(n)) = n
  BY SMT DEF Accepted

LEMMA FrameType ==
    ASSUME NEW a \in Nat
    PROVE  NextBytes(a) \in Seq(Nat) /\ Len(NextBytes(a)) = FrameLen
  BY PortAssumption, SMT DEF NextBytes

\* The bytes of a frame that is accepted follow those accepted before.
LEMMA Grown ==
    ASSUME NEW a \in Nat
    PROVE  Accepted(a) \o NextBytes(a) = Accepted(a + FrameLen)
  <1> DEFINE s == Accepted(a) \o NextBytes(a)
             t == Accepted(a + FrameLen)
  <1>1. FrameLen \in Nat /\ a + FrameLen \in Nat
    BY PortAssumption, SMT
  <1>2. /\ s \in Seq(Nat) /\ Len(s) = a + FrameLen
        /\ \A i \in 1 .. a + FrameLen :
              s[i] = IF i <= a THEN Accepted(a)[i] ELSE NextBytes(a)[i - a]
    <2> DEFINE u == Accepted(a)
               v == NextBytes(a)
    <2>1. u \in Seq(Nat) /\ Len(u) = a /\ v \in Seq(Nat) /\ Len(v) = FrameLen
      BY AcceptedType, FrameType
    <2> HIDE DEF u, v
    <2>2. /\ u \o v \in Seq(Nat) /\ Len(u \o v) = Len(u) + Len(v)
          /\ \A i \in 1 .. Len(u) + Len(v) :
                (u \o v)[i] = IF i <= Len(u) THEN u[i] ELSE v[i - Len(u)]
      BY <2>1, ConcatProperties
    <2>3. /\ u \o v \in Seq(Nat) /\ Len(u \o v) = a + FrameLen
          /\ \A i \in 1 .. a + FrameLen : (u \o v)[i] = IF i <= a THEN u[i] ELSE v[i - a]
      BY <2>1, <2>2
    <2> QED
      BY <2>3 DEF u, v
  <1>3. t \in Seq(Nat) /\ Len(t) = a + FrameLen
    BY <1>1, AcceptedType
  <1>4. ASSUME NEW i \in 1 .. a + FrameLen PROVE s[i] = t[i]
    <2>1. t[i] = i
      BY DEF Accepted
    <2>2. CASE i <= a
      BY <1>1, <1>2, <2>1, <2>2, SMT DEF Accepted
    <2>3. CASE ~(i <= a)
      <3>1. i - a \in 1 .. FrameLen /\ a + (i - a) = i
        BY <1>1, <2>3, SMT
      <3>2. NextBytes(a)[i - a] = i
        BY <3>1 DEF NextBytes
      <3> QED
        BY <1>2, <2>1, <2>3, <3>2
    <2> QED
      BY <2>2, <2>3
  <1> HIDE DEF s, t
  <1>5. s = t
    BY <1>2, <1>3, <1>4, SeqEqual
  <1> QED
    BY <1>5 DEF s, t

\* A sequence cut in two.
LEMMA Cut ==
    ASSUME NEW S, NEW s \in Seq(S), NEW n \in 0 .. Len(s)
    PROVE  /\ SubSeq(s, 1, n) \in Seq(S) /\ Len(SubSeq(s, 1, n)) = n
           /\ SubSeq(s, n + 1, Len(s)) \in Seq(S)
           /\ Len(SubSeq(s, n + 1, Len(s))) = Len(s) - n
           /\ SubSeq(s, 1, n) \o SubSeq(s, n + 1, Len(s)) = s
  <1>1. Len(s) \in Nat /\ n \in Nat
    BY SMT
  <1>2. /\ 1 \in 1 .. Len(s) + 1 /\ n \in 1 - 1 .. Len(s)
        /\ Len(s) \in n .. Len(s)
    BY <1>1, SMT
  <1>3. SubSeq(s, 1, n) \o SubSeq(s, n + 1, Len(s)) = SubSeq(s, 1, Len(s))
    BY <1>2, ConcatAdjacentSubSeq
  <1>4. SubSeq(s, 1, Len(s)) = s
    BY SubSeqFull
  <1>5. SubSeq(s, 1, n) \in Seq(S) /\ Len(SubSeq(s, 1, n)) = n
    BY <1>1, SMT
  <1>6. /\ SubSeq(s, n + 1, Len(s)) \in Seq(S)
        /\ Len(SubSeq(s, n + 1, Len(s))) = Len(s) - n
    BY <1>1, SMT
  <1> QED
    BY <1>3, <1>4, <1>5, <1>6

\* Min() of the community modules, of two numbers.
LEMMA MinOfTwo ==
    ASSUME NEW a \in Int, NEW b \in Int
    PROVE  /\ Min({a, b}) \in Int
           /\ Min({a, b}) <= a /\ Min({a, b}) <= b
  <1>1. \E x \in {a, b} : \A y \in {a, b} : x =< y
    <2>1. a =< b \/ b =< a
      BY SMT
    <2>2. a =< a /\ b =< b
      BY SMT
    <2> QED
      BY <2>1, <2>2
  <1>2. Min({a, b}) \in {a, b} /\ \A y \in {a, b} : Min({a, b}) =< y
    BY <1>1 DEF Min
  <1> QED
    BY <1>2

-----------------------------------------------------------------------------
(* The inductive invariant: the three invariants of the run, which need no *)
(* strengthening but each other.                                           *)

IInv == TypeOK /\ InOrder /\ ArmedIffPending

\* What a write may take is there, and the tty has room for it.
LEMMA TakenFits ==
    ASSUME TypeOK, NEW s \in Seq(Bytes), NEW n \in Taken(s)
    PROVE  n \in 0 .. Len(s) /\ room - n \in 0 .. Room
  <1>1. room \in Int /\ 0 <= room /\ room <= Room /\ Room \in Int
    BY PortAssumption, SMT DEF TypeOK
  <1>2. Len(s) \in Nat
    OBVIOUS
  <1>3. CASE port = "open"
    <2>1. Min({room, Len(s)}) \in Int /\ Min({room, Len(s)}) <= room
          /\ Min({room, Len(s)}) <= Len(s)
      <3>1. Len(s) \in Int
        BY <1>2, SMT
      <3> QED
        BY <1>1, <3>1, MinOfTwo
    <2>2. n \in 0 .. Min({room, Len(s)})
      BY <1>3 DEF Taken
    <2> QED
      BY <1>1, <1>2, <2>1, <2>2, SMT
  <1>4. CASE port # "open"
    <2>1. n = 0
      BY <1>4 DEF Taken
    <2> QED
      BY <1>1, <1>2, <2>1, SMT
  <1> QED
    BY <1>3, <1>4

\* A step that leaves the bytes alone and does not begin a new opening keeps
\* the invariant if it keeps the types of the event.
Aside ==
    /\ UNCHANGED <<buffer, accepted, wire>>
    /\ \/ isOpen /\ isOpen' /\ UNCHANGED writing
       \/ ~isOpen' /\ writing' = FALSE
    /\ plugged' \in BOOLEAN /\ port' \in {"closed", "open", "dead"}
    /\ reading' \in BOOLEAN /\ dangling' \in BOOLEAN /\ crashed' \in BOOLEAN
    /\ room' \in 0 .. Room
    /\ todo' \in Seq({"hup", "err", "in", "out"})

LEMMA AsideKeeps == IInv /\ Aside => IInv'
  <1> SUFFICES ASSUME IInv, Aside PROVE IInv'
    OBVIOUS
  <1>1. UNCHANGED <<buffer, accepted, wire>> /\ (isOpen' => isOpen)
    BY DEF Aside
  <1>2. writing' \in BOOLEAN
    BY DEF Aside, IInv, TypeOK
  <1>3. TypeOK'
    BY <1>1, <1>2 DEF Aside, IInv, TypeOK
  <1>4. InOrder'
    BY <1>1 DEF IInv, InOrder
  <1>5. ArmedIffPending'
    BY <1>1 DEF Aside, IInv, ArmedIffPending
  <1> QED
    BY <1>3, <1>4, <1>5 DEF IInv

\* Closing keeps all but the channel.
LEMMA CloseIsAside ==
    ASSUME IInv, CloseInLoop,
           UNCHANGED <<plugged, buffer, accepted, wire, room, crashed>>,
           reading' \in BOOLEAN, todo' \in Seq({"hup", "err", "in", "out"})
    PROVE  Aside
  BY DEF IInv, TypeOK, CloseInLoop, Aside, isOpen

LEMMA EmptySequences ==
    <<>> \in Seq(Bytes) /\ <<>> \in Seq({"hup", "err", "in", "out"})
  <1>1. \A S : <<>> \in Seq(S)
    OBVIOUS
  <1> QED
    BY <1>1

LEMMA ReturnType ==
    ASSUME IInv, todo # <<>>, Return
    PROVE  reading' \in BOOLEAN /\ todo' \in Seq({"hup", "err", "in", "out"})
  <1>1. todo \in Seq({"hup", "err", "in", "out"})
    BY DEF IInv, TypeOK
  <1>2. Tail(todo) \in Seq({"hup", "err", "in", "out"})
    BY <1>1, HeadTailProperties
  <1> QED
    BY <1>2 DEF Return

LEMMA CallbacksType ==
    ASSUME NEW events
    PROVE  Callbacks(events) \in Seq({"hup", "err", "in", "out"})
  <1> DEFINE C == {"hup", "err", "in", "out"}
             a == IF "hup" \in events /\ "in" \notin events THEN <<"hup">> ELSE <<>>
             b == IF "err" \in events THEN <<"err">> ELSE <<>>
             c == IF "in" \in events THEN <<"in">> ELSE <<>>
             d == IF "out" \in events THEN <<"out">> ELSE <<>>
  <1>1. a \in Seq(C) /\ b \in Seq(C) /\ c \in Seq(C) /\ d \in Seq(C)
    <2>1. ASSUME NEW x \in C PROVE <<x>> \in Seq(C)
      OBVIOUS
    <2>2. <<>> \in Seq(C)
      OBVIOUS
    <2>3. "hup" \in C /\ "err" \in C /\ "in" \in C /\ "out" \in C
      OBVIOUS
    <2> HIDE DEF C
    <2> QED
      BY <2>1, <2>2, <2>3
  <1> HIDE DEF a, b, c, d, C
  <1>2. a \o b \o c \o d \in Seq(C)
    BY <1>1
  <1> QED
    BY <1>2 DEF Callbacks, a, b, c, d, C

-----------------------------------------------------------------------------
(* The steps.                                                              *)

LEMMA InitIInv == Init => IInv
  <1> SUFFICES ASSUME Init PROVE IInv
    OBVIOUS
  <1>1. Room \in Nat /\ MaxAccepted \in Nat
    BY PortAssumption
  <1>2. 0 \in 0 .. MaxAccepted /\ Room \in 0 .. Room
    BY <1>1, SMT
  <1>3. TypeOK
    BY <1>2, EmptySequences DEF Init, TypeOK, isOpen
  <1> QED
    BY <1>3 DEF IInv, Init, InOrder, ArmedIffPending, isOpen

\* The steps of the tty.
LEMMA TtyKeeps == IInv /\ (Unplug \/ Plug \/ Drain) => IInv'
  <1> SUFFICES ASSUME IInv, Unplug \/ Plug \/ Drain PROVE IInv'
    OBVIOUS
  <1>1. room' \in 0 .. Room
    BY PortAssumption, SMT DEF IInv, TypeOK, Unplug, Plug, Drain
  <1>2. Aside
    BY <1>1 DEF IInv, TypeOK, ArmedIffPending, Aside, Unplug, Plug, Drain, isOpen, event
  <1> QED
    BY <1>2, AsideKeeps

LEMMA OpenDeviceKeeps == IInv /\ OpenDevice => IInv'
  <1> SUFFICES ASSUME IInv, OpenDevice PROVE IInv'
    OBVIOUS
  <1>1. /\ Room \in Nat /\ MaxAccepted \in Nat /\ kTxOverflowLimit \in Nat
        /\ Len(<<>>) = 0
    BY PortAssumption
  <1>2. Accepted(0) = <<>>
    BY AcceptedType, SMT
  <1>3. /\ port' = "open" /\ writing' = FALSE /\ buffer' = <<>>
        /\ accepted' = 0 /\ wire' = <<>> /\ room' = Room
        /\ UNCHANGED <<plugged, todo, reading, dangling, crashed>>
    BY DEF OpenDevice, event
  <1>4. 0 \in 0 .. MaxAccepted /\ Room \in 0 .. Room /\ 0 <= kTxOverflowLimit
    BY <1>1, SMT
  <1>5. TypeOK'
    BY <1>1, <1>3, <1>4, EmptySequences DEF IInv, TypeOK
  <1>6. InOrder'
    <2>1. <<>> \o <<>> = <<>>
      OBVIOUS
    <2> QED
      BY <1>2, <1>3, <2>1 DEF InOrder, Accepted
  <1>7. ArmedIffPending'
    BY <1>3 DEF ArmedIffPending
  <1> QED
    BY <1>5, <1>6, <1>7 DEF IInv

LEMMA CloseDeviceKeeps == IInv /\ CloseDevice => IInv'
  <1> SUFFICES ASSUME IInv, CloseDevice PROVE IInv'
    OBVIOUS
  <1>1. Aside
    BY CloseIsAside DEF IInv, TypeOK, CloseDevice, tty, event
  <1> QED
    BY <1>1, AsideKeeps

\* The tail of a frame, of which the first n bytes were written directly, waits
\* behind the buffer.
LEMMA SendKeeps == IInv /\ Send => IInv'
  <1> SUFFICES ASSUME IInv, Send PROVE IInv'
    OBVIOUS
  <1> DEFINE frame == [i \in 1 .. FrameLen |-> accepted + i]
  <1>1. /\ isOpen /\ accepted + FrameLen <= MaxAccepted
        /\ UNCHANGED <<plugged, todo, reading, crashed>>
    BY DEF Send, event
  <1>2. /\ accepted \in Nat /\ FrameLen \in Nat \ {0} /\ MaxAccepted \in Nat
        /\ accepted + FrameLen \in 0 .. MaxAccepted
        /\ kTxOverflowLimit \in Nat
        /\ buffer \in Seq(Bytes) /\ wire \in Seq(Bytes)
    BY <1>1, PortAssumption, SMT DEF IInv, TypeOK
  <1>3. frame \in Seq(Bytes) /\ Len(frame) = FrameLen
    BY <1>1, <1>2, SMT DEF Bytes
  <1>4. CASE /\ CloseInLoop
             /\ UNCHANGED <<buffer, accepted, wire, room>>
    <2>1. Aside
      BY <1>1, <1>4, CloseIsAside DEF IInv, TypeOK
    <2> QED
      BY <2>1, AsideKeeps
  <1>5. ASSUME NEW n \in IF Direct THEN Taken(frame) ELSE {0},
               accepted' = accepted + FrameLen, Written(frame, n),
               buffer' = buffer \o SubSeq(frame, n + 1, FrameLen),
               IF n < FrameLen /\ Overflow(buffer') THEN CloseInLoop
               ELSE StaysOpen /\ writing' = Arm(buffer')
        PROVE  IInv'
    <2> DEFINE head == SubSeq(frame, 1, n)
               tail == SubSeq(frame, n + 1, FrameLen)
    <2>1. n \in 0 .. FrameLen /\ room - n \in 0 .. Room
      <3>1. CASE Direct
        BY <1>3, <1>5, <3>1, TakenFits DEF IInv
      <3>2. CASE ~Direct
        <4>1. n = 0
          BY <1>5, <3>2
        <4>2. room \in 0 .. Room /\ Room \in Nat
          BY PortAssumption DEF IInv, TypeOK
        <4> QED
          BY <1>2, <4>1, <4>2, SMT
      <3> QED
        BY <3>1, <3>2
    <2>2. /\ head \in Seq(Bytes) /\ tail \in Seq(Bytes)
          /\ Len(tail) = FrameLen - n /\ head \o tail = frame
      <3> HIDE DEF frame
      <3> QED
        BY <1>3, <2>1, Cut
    <2>3. wire' = wire \o head /\ buffer' = buffer \o tail /\ room' = room - n
      BY <1>5 DEF Written
    <2> HIDE DEF head, tail
    <2>4. ~Direct => head = <<>>
      BY <1>3, <1>5, SMT DEF head
    <2>5. /\ wire' \in Seq(Bytes) /\ buffer' \in Seq(Bytes)
          /\ Len(buffer') = Len(buffer) + Len(tail)
      BY <1>2, <2>2, <2>3, ConcatProperties
    <2>6. wire' \o buffer' = (wire \o buffer) \o frame
      <3>1. CASE Direct
        <4>1. buffer = <<>>
          BY <3>1 DEF Direct
        <4>2. buffer' = tail /\ wire \o buffer = wire
          BY <1>2, <2>2, <2>3, <4>1, ConcatEmptySeq
        <4>3. (wire \o head) \o tail = wire \o (head \o tail)
          <5>1. wire \in Seq(Bytes) /\ head \in Seq(Bytes) /\ tail \in Seq(Bytes)
            BY <1>2, <2>2
          <5> HIDE DEF frame
          <5> QED
            BY <5>1, ConcatAssociative
        <4> QED
          BY <2>2, <2>3, <4>2, <4>3
      <3>2. CASE ~Direct
        <4>1. wire' = wire /\ tail = frame
          BY <1>2, <2>2, <2>3, <2>4, <3>2, ConcatEmptySeq
        <4>2. (wire \o buffer) \o frame = wire \o (buffer \o frame)
          BY <1>2, <1>3, ConcatAssociative
        <4> QED
          BY <2>3, <4>1, <4>2
      <3> QED
        BY <3>1, <3>2
    <2>7. InOrder'
      <3>1. wire \o buffer = Accepted(accepted)
        BY <1>1 DEF IInv, InOrder, Accepted
      <3>2. wire' \o buffer' = Accepted(accepted + FrameLen)
        BY <1>2, <2>6, <3>1, Grown DEF NextBytes
      <3> QED
        BY <1>5, <3>2 DEF InOrder, Accepted
    <2>8. /\ writing' \in BOOLEAN /\ dangling' \in BOOLEAN
          /\ port' \in {"closed", "open", "dead"}
      BY <1>5 DEF IInv, TypeOK, CloseInLoop, StaysOpen, Arm
    <2>9. CASE n < FrameLen /\ Overflow(buffer')
      <3>1. ~isOpen' /\ writing' = FALSE
        BY <1>5, <2>9 DEF CloseInLoop, isOpen
      <3>2. TypeOK'
        BY <1>1, <1>2, <1>5, <2>1, <2>3, <2>5, <2>8, <3>1 DEF IInv, TypeOK
      <3>3. ArmedIffPending'
        BY <3>1 DEF ArmedIffPending
      <3> QED
        BY <2>7, <3>2, <3>3 DEF IInv
    <2>10. CASE ~(n < FrameLen /\ Overflow(buffer'))
      <3>1. UNCHANGED <<port, dangling>> /\ writing' = Arm(buffer')
        BY <1>5, <2>10 DEF StaysOpen
      <3>2. Len(buffer') <= kTxOverflowLimit
        <4>1. CASE n < FrameLen
          BY <1>2, <2>5, <2>10, <4>1, SMT DEF Overflow
        <4>2. CASE ~(n < FrameLen)
          <5>1. n = FrameLen /\ Len(tail) = 0 /\ n # 0
            BY <1>2, <2>1, <2>2, <4>2, SMT
          <5>2. buffer = <<>>
            BY <1>5, <5>1 DEF Direct
          <5> QED
            BY <1>2, <2>5, <5>1, <5>2, SMT
        <4> QED
          BY <4>1, <4>2
      <3>3. TypeOK'
        BY <1>1, <1>2, <1>5, <2>1, <2>3, <2>5, <2>8, <3>2 DEF IInv, TypeOK
      <3>4. writing => buffer' # <<>>
        <4>1. writing => Len(buffer) # 0
          BY <1>2 DEF IInv, ArmedIffPending
        <4>2. writing => Len(buffer') # 0
          BY <1>2, <2>2, <2>5, <4>1, SMT
        <4> QED
          BY <4>2
      <3>5. ArmedIffPending'
        <4>1. isOpen'
          BY <1>1, <3>1 DEF isOpen
        <4>2. writing' <=> buffer' # <<>>
          BY <3>1, <3>4 DEF Arm
        <4> QED
          BY <4>1, <4>2 DEF ArmedIffPending
      <3> QED
        BY <2>7, <3>3, <3>5 DEF IInv
    <2> QED
      BY <2>9, <2>10
  <1> QED
    <2>1. \/ CloseInLoop /\ UNCHANGED <<buffer, accepted, wire, room>>
          \/ \E n \in IF Direct THEN Taken(frame) ELSE {0} :
                /\ accepted' = accepted + FrameLen /\ Written(frame, n)
                /\ buffer' = buffer \o SubSeq(frame, n + 1, FrameLen)
                /\ IF n < FrameLen /\ Overflow(buffer') THEN CloseInLoop
                   ELSE StaysOpen /\ writing' = Arm(buffer')
      <3> HIDE DEF frame
      <3> QED
        BY DEF Send, frame
    <2> QED
      BY <1>4, <1>5, <2>1

LEMMA HandleEventKeeps == IInv /\ HandleEvent => IInv'
  <1> SUFFICES ASSUME IInv, HandleEvent PROVE IInv'
    OBVIOUS
  <1>1. /\ isOpen
        /\ UNCHANGED <<plugged, room, port, writing, buffer, accepted, wire,
                       reading, dangling, crashed>>
    BY DEF HandleEvent, tty
  <1>2. todo' \in Seq({"hup", "err", "in", "out"})
    <2>1. PICK events \in Events : todo' = Callbacks(events)
      BY DEF HandleEvent
    <2> QED
      BY <2>1, CallbacksType
  <1>3. Aside
    BY <1>1, <1>2 DEF IInv, TypeOK, Aside, isOpen
  <1> QED
    BY <1>3, AsideKeeps

\* The callbacks that close the port, or leave it and its bytes alone.
LEMMA LossAndReadKeep == IInv /\ (HandleLoss \/ HandleRead \/ ReadEnds) => IInv'
  <1> SUFFICES ASSUME IInv, HandleLoss \/ HandleRead \/ ReadEnds PROVE IInv'
    OBVIOUS
  <1>1. /\ todo # <<>>
        /\ UNCHANGED <<plugged, room, buffer, accepted, wire, crashed>>
    BY DEF HandleLoss, HandleRead, ReadEnds, Running, tty
  <1>2. \/ CloseInLoop
        \/ UNCHANGED <<port, writing, dangling>>
    BY DEF HandleLoss, HandleRead, ReadEnds, StaysOpen
  <1>3. \/ Return
        \/ reading' = TRUE /\ UNCHANGED todo
    BY DEF HandleLoss, HandleRead, ReadEnds
  <1>4. reading' \in BOOLEAN /\ todo' \in Seq({"hup", "err", "in", "out"})
    <2>1. CASE Return
      BY <1>1, <2>1, ReturnType
    <2>2. CASE reading' = TRUE /\ UNCHANGED todo
      BY <2>2 DEF IInv, TypeOK
    <2> QED
      BY <1>3, <2>1, <2>2
  <1>5. CASE CloseInLoop
    BY <1>1, <1>4, <1>5, CloseIsAside, AsideKeeps
  <1>6. CASE UNCHANGED <<port, writing, dangling>>
    <2>1. Aside
      <3>1. \/ isOpen /\ isOpen' /\ UNCHANGED writing
            \/ ~isOpen' /\ writing' = FALSE
        BY <1>6 DEF IInv, TypeOK, ArmedIffPending, isOpen
      <3> QED
        BY <1>1, <1>4, <1>6, <3>1 DEF IInv, TypeOK, Aside
    <2> QED
      BY <2>1, AsideKeeps
  <1> QED
    BY <1>2, <1>5, <1>6

\* Bytes go from the front of the buffer to the end of the wire.
LEMMA HandleWriteKeeps == IInv /\ HandleWrite => IInv'
  <1> SUFFICES ASSUME IInv, HandleWrite PROVE IInv'
    OBVIOUS
  <1>1. /\ todo # <<>> /\ Return
        /\ UNCHANGED <<plugged, accepted, crashed>>
    BY DEF HandleWrite, Running
  <1>2. reading' \in BOOLEAN /\ todo' \in Seq({"hup", "err", "in", "out"})
    BY <1>1, ReturnType
  <1>3. CASE StaysOpen /\ UNCHANGED <<writing, buffer, wire, room>>
    <2>1. \/ isOpen /\ isOpen' /\ UNCHANGED writing
          \/ ~isOpen' /\ writing' = FALSE
      BY <1>3 DEF IInv, TypeOK, ArmedIffPending, StaysOpen, isOpen
    <2>2. Aside
      BY <1>1, <1>2, <1>3, <2>1 DEF IInv, TypeOK, Aside, StaysOpen
    <2> QED
      BY <2>2, AsideKeeps
  <1>4. CASE CloseInLoop /\ UNCHANGED <<buffer, wire, room>>
    BY <1>1, <1>2, <1>4, CloseIsAside, AsideKeeps
  <1>5. ASSUME NEW n \in Taken(buffer) \ {0}, isOpen,
               Written(buffer, n), buffer' = SubSeq(buffer, n + 1, Len(buffer)),
               writing' = Disarm(buffer'), StaysOpen
        PROVE  IInv'
    <2>1. buffer \in Seq(Bytes) /\ wire \in Seq(Bytes) /\ Len(buffer) \in Nat
      BY DEF IInv, TypeOK
    <2>2. n \in 0 .. Len(buffer) /\ room - n \in 0 .. Room
      BY <1>5, <2>1, TakenFits DEF IInv
    <2> DEFINE head == SubSeq(buffer, 1, n)
    <2>3. /\ head \in Seq(Bytes) /\ buffer' \in Seq(Bytes)
          /\ Len(buffer') = Len(buffer) - n /\ head \o buffer' = buffer
      BY <1>5, <2>1, <2>2, Cut
    <2>4. wire' = wire \o head /\ room' = room - n
      BY <1>5 DEF Written
    <2> HIDE DEF head
    <2>5. wire' \in Seq(Bytes)
      BY <2>1, <2>3, <2>4, ConcatProperties
    <2>6. wire' \o buffer' = wire \o buffer
      <3>1. /\ wire \in Seq(Bytes) /\ head \in Seq(Bytes)
            /\ buffer' \in Seq(Bytes)
        BY <2>1, <2>3
      <3>2. \A r \in Seq(Bytes) : (wire \o head) \o r = wire \o (head \o r)
        BY <3>1, ConcatAssociative
      <3> QED
        BY <2>3, <2>4, <3>1, <3>2
    <2>7. isOpen' /\ UNCHANGED <<port, dangling>>
      BY <1>5 DEF StaysOpen, isOpen
    <2>8. Len(buffer') <= kTxOverflowLimit
      <3>1. Len(buffer) <= kTxOverflowLimit /\ kTxOverflowLimit \in Nat
        BY <1>5, PortAssumption DEF IInv, TypeOK
      <3> QED
        BY <2>1, <2>2, <2>3, <3>1, SMT
    <2>9. writing' \in BOOLEAN
      BY <1>5 DEF Disarm
    <2>10. TypeOK'
      BY <1>1, <1>2, <2>2, <2>3, <2>4, <2>5, <2>7, <2>8, <2>9 DEF IInv, TypeOK
    <2>11. InOrder'
      BY <1>1, <1>5, <2>6 DEF IInv, InOrder
    <2>12. ArmedIffPending'
      BY <1>5, <2>7 DEF ArmedIffPending, Disarm
    <2> QED
      BY <2>10, <2>11, <2>12 DEF IInv
  <1> QED
    <2>1. \/ StaysOpen /\ UNCHANGED <<writing, buffer, wire, room>>
          \/ CloseInLoop /\ UNCHANGED <<buffer, wire, room>>
          \/ \E n \in Taken(buffer) \ {0} :
                /\ isOpen /\ Written(buffer, n)
                /\ buffer' = SubSeq(buffer, n + 1, Len(buffer))
                /\ writing' = Disarm(buffer') /\ StaysOpen
      BY DEF HandleWrite
    <2> QED
      BY <1>3, <1>4, <1>5, <2>1

LEMMA CrashKeeps == IInv /\ (Crash \/ UNCHANGED vars) => IInv'
  <1> SUFFICES ASSUME IInv, Crash \/ UNCHANGED vars PROVE IInv'
    OBVIOUS
  <1>1. UNCHANGED <<plugged, port, writing, buffer, accepted, wire, room, todo,
                    reading, dangling>>
    BY DEF Crash, vars, tty, event
  <1>2. crashed' \in BOOLEAN
    BY DEF Crash, vars, IInv, TypeOK
  <1>3. Aside
    BY <1>1, <1>2 DEF IInv, TypeOK, ArmedIffPending, Aside, isOpen
  <1> QED
    BY <1>3, AsideKeeps

LEMMA InvariantInductive == Spec => []IInv
  <1>1. IInv /\ [Next]_vars => IInv'
    BY TtyKeeps, OpenDeviceKeeps, CloseDeviceKeeps, SendKeeps, HandleEventKeeps,
       LossAndReadKeep, HandleWriteKeeps, CrashKeeps DEF Next
  <1> QED
    BY InitIInv, <1>1, PTL DEF Spec

-----------------------------------------------------------------------------
\* TypeOK holds: the buffer of an open port never exceeds the limit.
THEOREM TypesHold == Spec => []TypeOK
  <1>1. IInv => TypeOK
    BY DEF IInv
  <1> QED
    BY <1>1, InvariantInductive, PTL

\* InOrder holds: no byte is lost, repeated or overtaken, and none is left over
\* from an earlier opening.
THEOREM InOrderHolds == Spec => []InOrder
  <1>1. IInv => InOrder
    BY DEF IInv
  <1> QED
    BY <1>1, InvariantInductive, PTL

\* ArmedIffPending holds: POLLOUT is asked for exactly while bytes wait.
THEOREM ArmedIffPendingHolds == Spec => []ArmedIffPending
  <1>1. IInv => ArmedIffPending
    BY DEF IInv
  <1> QED
    BY <1>1, InvariantInductive, PTL

-----------------------------------------------------------------------------
(* Numbers.                                                                *)

LEMMA InUnsigned ==
    ASSUME NEW n \in Nat, NEW x
    PROVE  x \in Unsigned(n) <=> x \in Int /\ 0 <= x /\ x < n
  BY SMT DEF Unsigned

LEMMA InSigned ==
    ASSUME NEW n \in Nat, NEW x
    PROVE  x \in Signed(n) <=> x \in Int /\ -n <= x /\ x < n
  BY SMT DEF Signed

\* The ranges of the numbers, as inequalities.
LEMMA Ranges ==
    ASSUME NEW x
    PROVE  /\ x \in Byte <=> x \in Int /\ 0 <= x /\ x < 256
           /\ x \in U16 <=> x \in Int /\ 0 <= x /\ x < 65536
           /\ x \in I16 <=> x \in Int /\ -32768 <= x /\ x < 32768
  <1>1. x \in Byte <=> x \in Int /\ 0 <= x /\ x < 256
    BY InUnsigned, SMT DEF Byte
  <1>2. x \in U16 <=> x \in Int /\ 0 <= x /\ x < 65536
    BY InUnsigned, SMT DEF U16
  <1>3. x \in I16 <=> x \in Int /\ -32768 <= x /\ x < 32768
    BY InSigned, SMT DEF I16
  <1> QED
    BY <1>1, <1>2, <1>3

\* Two bytes within the payload are a 16-bit number.
LEMMA Get16 ==
    ASSUME NEW p \in Seq(Byte), NEW k \in Nat, k + 2 <= Len(p)
    PROVE  getU16(p, k) \in U16 /\ getI16(p, k) \in I16
  <1>1. p[k + 1] \in Byte /\ p[k + 2] \in Byte
    BY SMT
  <1> DEFINE u == getU16(p, k)
  <1>2. u \in Int /\ 0 <= u /\ u < 65536
    <2>1. /\ p[k + 1] \in Int /\ 0 <= p[k + 1] /\ p[k + 1] < 256
          /\ p[k + 2] \in Int /\ 0 <= p[k + 2] /\ p[k + 2] < 256
      BY <1>1, Ranges
    <2> QED
      BY <2>1, SMT DEF getU16
  <1>3. u \in U16
    BY <1>2, Ranges
  <1>4. getI16(p, k) \in Int /\ -32768 <= getI16(p, k) /\ getI16(p, k) < 32768
    BY <1>2, SMT DEF getI16
  <1> QED
    BY <1>3, <1>4, Ranges

\* Four bytes within the payload are a 32-bit number.
LEMMA Get32 ==
    ASSUME NEW p \in Seq(Byte), NEW k \in Nat, k + 4 <= Len(p)
    PROVE  getU32(p, k) \in U32
  <1>1. getU16(p, k) \in U16 /\ getU16(p, k + 2) \in U16
    BY Get16, SMT
  <1> QED
    BY <1>1 DEF getU32, U32

LEMMA GetThree16 ==
    ASSUME NEW p \in Seq(Byte), NEW k \in Nat, k + 6 <= Len(p)
    PROVE  Three16(p, k) \in [0 .. 2 -> I16]
  <1>1. ASSUME NEW i \in 0 .. 2 PROVE getI16(p, k + 2 * i) \in I16
    <2>1. k + 2 * i \in Nat /\ k + 2 * i + 2 <= Len(p)
      BY SMT
    <2> QED
      BY SMT, <2>1, Get16
  <1> QED
    BY SMT, <1>1 DEF Three16

LEMMA GetThree32 ==
    ASSUME NEW p \in Seq(Byte), NEW k \in Nat, k + 12 <= Len(p)
    PROVE  Three32(p, k) \in [0 .. 2 -> U32]
  <1>1. ASSUME NEW i \in 0 .. 2 PROVE getU32(p, k + 4 * i) \in U32
    <2>1. k + 4 * i \in Nat /\ k + 4 * i + 4 <= Len(p)
      BY SMT
    <2> QED
      BY SMT, <2>1, Get32
  <1> QED
    BY SMT, <1>1 DEF Three32

\* A number of 16 bits is put together from its two bytes.
LEMMA TwoBytes ==
    ASSUME NEW x \in Int, 0 <= x, x < 65536
    PROVE  /\ (x % 256) + 256 * ((x \div 256) % 256) = x
  BY SMT

\* A 16-bit number, signed or not, is read back as it was written
\* (putU16, putI16, getU16, getI16).
THEOREM Numbers16Survive ==
    /\ \A x \in U16 : getU16(putU16(x), 0) = x
    /\ \A x \in I16 : getI16(putI16(x), 0) = x
  <1>1. ASSUME NEW x \in U16 PROVE getU16(putU16(x), 0) = x
    <2>1. x \in Int /\ 0 <= x /\ x < 65536
      BY Ranges
    <2>2. getU16(putU16(x), 0) = (x % 256) + 256 * ((x \div 256) % 256)
      BY SMT DEF getU16, putU16
    <2> QED
      BY <2>1, <2>2, TwoBytes, SMT
  <1>2. ASSUME NEW x \in I16 PROVE getI16(putI16(x), 0) = x
    <2>1. x \in Int /\ -32768 <= x /\ x < 32768
      BY Ranges
    <2>2. /\ x % 65536 \in Int /\ 0 <= x % 65536 /\ x % 65536 < 65536
          /\ x % 65536 = IF x >= 0 THEN x ELSE x + 65536
      BY <2>1, SMT
    <2>3. getU16(putI16(x), 0) = x % 65536
      BY <2>2, <1>1, Ranges DEF putI16
    <2> QED
      BY <2>1, <2>2, <2>3, SMT DEF getI16
  <1> QED
    BY <1>1, <1>2

\* A number is read from its own part of a payload.
LEMMA GetLeft ==
    ASSUME NEW s \in Seq(Byte), NEW t \in Seq(Byte), NEW k \in Nat, k + 2 <= Len(s)
    PROVE  getU16(s \o t, k) = getU16(s, k) /\ getI16(s \o t, k) = getI16(s, k)
  <1>1. (s \o t)[k + 1] = s[k + 1] /\ (s \o t)[k + 2] = s[k + 2]
    BY ConcatProperties, SMT
  <1> QED
    BY <1>1 DEF getU16, getI16

LEMMA GetRight ==
    ASSUME NEW s \in Seq(Byte), NEW t \in Seq(Byte), NEW k \in Nat, k + 2 <= Len(t)
    PROVE  /\ getU16(s \o t, Len(s) + k) = getU16(t, k)
           /\ getI16(s \o t, Len(s) + k) = getI16(t, k)
  <1>1. ASSUME NEW j \in 1 .. Len(t) PROVE (s \o t)[Len(s) + j] = t[j]
    <2>1. Len(s) + j \in 1 .. Len(s) + Len(t) /\ ~(Len(s) + j <= Len(s))
          /\ Len(s) + j - Len(s) = j
      BY SMT
    <2> QED
      BY <2>1, ConcatProperties
  <1>2. /\ (s \o t)[Len(s) + (k + 1)] = t[k + 1]
        /\ (s \o t)[Len(s) + (k + 2)] = t[k + 2]
    BY <1>1, SMT
  <1>3. Len(s) + (k + 1) = Len(s) + k + 1 /\ Len(s) + (k + 2) = Len(s) + k + 2
    BY SMT
  <1> QED
    BY <1>2, <1>3 DEF getU16, getI16

\* What putU16() and putI16() write is two bytes.
LEMMA Put16 ==
    ASSUME NEW x \in Int
    PROVE  /\ putU16(x) \in Seq(Byte) /\ Len(putU16(x)) = 2
           /\ putI16(x) \in Seq(Byte) /\ Len(putI16(x)) = 2
  <1>1. ASSUME NEW y \in Int PROVE putU16(y) \in Seq(Byte) /\ Len(putU16(y)) = 2
    <2>1. /\ y % 256 \in Int /\ 0 <= y % 256 /\ y % 256 < 256
          /\ (y \div 256) % 256 \in Int
          /\ 0 <= (y \div 256) % 256 /\ (y \div 256) % 256 < 256
      BY SMT
    <2>2. y % 256 \in Byte /\ (y \div 256) % 256 \in Byte
      BY <2>1, Ranges
    <2> QED
      BY <2>2 DEF putU16
  <1>2. x % 65536 \in Int
    BY SMT
  <1> QED
    BY <1>1, <1>2 DEF putI16

\* The echo of a ping carries the identifier that the host compares it with,
\* and no other (packPing, parsePing).
THEOREM PingComesBack ==
    \A t \in U32 : PingTaken(packPing(t)) /\ parsePing(packPing(t)) = t
  <1> SUFFICES ASSUME NEW t \in U32
               PROVE  PingTaken(packPing(t)) /\ parsePing(packPing(t)) = t
    OBVIOUS
  <1> DEFINE low == putU16(t[1])  high == putU16(t[2])
  <1>1. t[1] \in U16 /\ t[2] \in U16 /\ t = <<t[1], t[2]>>
    BY DEF U32
  <1>2. t[1] \in Int /\ t[2] \in Int
    BY <1>1, Ranges
  <1>3. low \in Seq(Byte) /\ high \in Seq(Byte) /\ Len(low) = 2 /\ Len(high) = 2
    BY <1>2, Put16
  <1>4. packPing(t) = low \o high
    BY DEF packPing, putU32
  <1>5. Len(low \o high) = 4
    <2>1. Len(low \o high) = Len(low) + Len(high)
      BY <1>3, ConcatProperties
    <2> QED
      BY <2>1, <1>3, SMT
  <1>6. getU16(low \o high, 0) = t[1]
    <2>1. getU16(low \o high, 0) = getU16(low, 0)
      <3>1. 0 \in Nat /\ 0 + 2 <= Len(low)
        BY <1>3, SMT
      <3> QED
        BY <3>1, <1>3, GetLeft
    <2> QED
      BY <2>1, <1>1, Numbers16Survive
  <1>7. getU16(low \o high, 2) = t[2]
    <2>1. getU16(low \o high, Len(low) + 0) = getU16(high, 0)
      <3>1. 0 \in Nat /\ 0 + 2 <= Len(high)
        BY <1>3, SMT
      <3> QED
        BY <3>1, <1>3, GetRight
    <2>2. Len(low) + 0 = 2
      BY <1>3, SMT
    <2> QED
      BY <2>1, <2>2, <1>1, Numbers16Survive
  <1> QED
    <2>1. getU16(low \o high, 0 + 2) = t[2]
      <3>1. 0 + 2 = 2
        BY SMT
      <3> QED
        BY <3>1, <1>7
    <2> QED
      BY <1>1, <1>4, <1>5, <1>6, <2>1 DEF PingTaken, parsePing, getU32

-----------------------------------------------------------------------------
(* Parsing.                                                                *)

LEMMA GetByte ==
    ASSUME NEW p \in Seq(Byte), NEW k \in Nat \ {0}, k <= Len(p)
    PROVE  p[k] \in Byte
  OBVIOUS

\* A parser that takes a payload makes numbers of the declared widths of it:
\* nothing is read beyond the bytes that were received, for every payload.
THEOREM ParsersStayInside ==
    \A p \in Seq(Byte) :
        /\ EncTaken(p)       => parseEnc(p) \in EncData
        /\ ImuTaken(p)       => parseImu(p) \in ImuData
        /\ StatusTaken(p)    => parseStatus(p) \in StatusData
        /\ TelemetryTaken(p) => parseTelemetry(p) \in TelemetryData
        /\ OdomTaken(p)      => parseOdom(p) \in OdomData
        /\ SysidMetaTaken(p) => parseSysidMeta(p) \in SysidMeta
  <1> SUFFICES ASSUME NEW p \in Seq(Byte)
               PROVE  /\ EncTaken(p)       => parseEnc(p) \in EncData
                      /\ ImuTaken(p)       => parseImu(p) \in ImuData
                      /\ StatusTaken(p)    => parseStatus(p) \in StatusData
                      /\ TelemetryTaken(p) => parseTelemetry(p) \in TelemetryData
                      /\ OdomTaken(p)      => parseOdom(p) \in OdomData
                      /\ SysidMetaTaken(p) => parseSysidMeta(p) \in SysidMeta
    OBVIOUS
  <1>1. ASSUME EncTaken(p) PROVE parseEnc(p) \in EncData
    <2>1. Three32(p, 0) \in [0 .. 2 -> U32] /\ Three16(p, 12) \in [0 .. 2 -> I16]
      <3>1. /\ 0 \in Nat /\ 0 + 12 <= Len(p)
            /\ 12 \in Nat /\ 12 + 6 <= Len(p)
        <4>1. CASE Len(p) = 18
          BY <4>1, SMT
        <4>2. CASE Len(p) = 22
          BY <4>2, SMT
        <4> QED
          BY <1>1, <4>1, <4>2 DEF EncTaken
      <3> QED
        BY <3>1, GetThree32, GetThree16
    <2>2. CASE Len(p) = 22
      <3>1. getU32(p, 18) \in U32
        <4>1. 18 \in Nat /\ 18 + 4 <= Len(p)
          BY <2>2, SMT
        <4> QED
          BY <4>1, Get32
      <3> QED
        BY <2>1, <2>2, <3>1 DEF parseEnc, EncData
    <2>3. CASE Len(p) # 22
      <3>1. <<0, 0>> \in U32
        BY Ranges, SMT DEF U32
      <3> QED
        BY <2>1, <2>3, <3>1 DEF parseEnc, EncData
    <2> QED
      BY <2>2, <2>3
  <1>2. ASSUME Len(p) = 18
        PROVE  /\ Three16(p, 0) \in [0 .. 2 -> I16]
               /\ Three16(p, 6) \in [0 .. 2 -> I16]
               /\ Three16(p, 12) \in [0 .. 2 -> I16]
    <2>1. /\ 0 \in Nat /\ 0 + 6 <= Len(p)
          /\ 6 \in Nat /\ 6 + 6 <= Len(p)
          /\ 12 \in Nat /\ 12 + 6 <= Len(p)
      BY <1>2, SMT
    <2> QED
      BY <2>1, GetThree16
  <1>3. ASSUME ImuTaken(p) PROVE parseImu(p) \in ImuData
    BY <1>2, <1>3 DEF ImuTaken, parseImu, ImuData
  <1>4. ASSUME TelemetryTaken(p) PROVE parseTelemetry(p) \in TelemetryData
    BY <1>2, <1>4 DEF TelemetryTaken, parseTelemetry, TelemetryData
  <1>5. ASSUME StatusTaken(p) PROVE parseStatus(p) \in StatusData
    <2>1. /\ p[1] \in Byte /\ p[2] \in Byte /\ p[3] \in Byte
          /\ p[4] \in Byte /\ p[5] \in Byte
      BY <1>5, GetByte, SMT DEF StatusTaken
    <2>2. (IF Len(p) > 5 THEN p[6] ELSE 0) \in Byte
      <3>1. CASE Len(p) > 5
        BY <3>1, GetByte, SMT
      <3>2. CASE ~(Len(p) > 5)
        BY <3>2, Ranges, SMT
      <3> QED
        BY <3>1, <3>2
    <2> QED
      BY <2>1, <2>2 DEF parseStatus, StatusData
  <1>6. ASSUME OdomTaken(p) PROVE parseOdom(p) \in OdomData
    <2>1. Three32(p, 0) \in [0 .. 2 -> U32] /\ Three32(p, 12) \in [0 .. 2 -> U32]
      <3>1. /\ 0 \in Nat /\ 0 + 12 <= Len(p)
            /\ 12 \in Nat /\ 12 + 12 <= Len(p)
        BY <1>6, SMT DEF OdomTaken
      <3> QED
        BY <3>1, GetThree32
    <2> QED
      BY <2>1 DEF parseOdom, OdomData
  <1>7. ASSUME SysidMetaTaken(p) PROVE parseSysidMeta(p) \in SysidMeta
    <2>1. p[1] \in Byte /\ p[2] \in Byte /\ p[3] \in Byte /\ p[4] \in Byte
      BY <1>7, GetByte, SMT DEF SysidMetaTaken
    <2>2. Three32(p, 4) \in [0 .. 2 -> U32]
      <3>1. 4 \in Nat /\ 4 + 12 <= Len(p)
        BY <1>7, SMT DEF SysidMetaTaken
      <3> QED
        BY <3>1, GetThree32
    <2>3. getI16(p, 16) \in I16 /\ getI16(p, 18) \in I16 /\ getU16(p, 20) \in U16
      <3>1. /\ 16 \in Nat /\ 16 + 2 <= Len(p)
            /\ 18 \in Nat /\ 18 + 2 <= Len(p)
            /\ 20 \in Nat /\ 20 + 2 <= Len(p)
        BY <1>7, SMT DEF SysidMetaTaken
      <3> QED
        BY <3>1, Get16
    <2>4. getU32(p, 22) \in U32
      <3>1. 22 \in Nat /\ 22 + 4 <= Len(p)
        BY <1>7, SMT DEF SysidMetaTaken
      <3> QED
        BY <3>1, Get32
    <2> QED
      BY <2>1, <2>2, <2>3, <2>4 DEF parseSysidMeta, SysidMeta
  <1> QED
    BY <1>1, <1>3, <1>4, <1>5, <1>6, <1>7

\* The samples of a SYSID_DATA frame lie within it, however the count in the
\* frame and its length were chosen, and a frame of at most 32 bytes has one
\* or two of them (parseSysidData).
THEOREM SamplesStayInside ==
    \A p \in Seq(Byte) :
        SysidDataTaken(p) =>
            /\ parseSysidData(p) \in [1 .. p[3] -> SysidSample]
            /\ Len(p) <= 32 => p[3] \in 1 .. 2
  <1> SUFFICES ASSUME NEW p \in Seq(Byte), SysidDataTaken(p)
               PROVE  /\ parseSysidData(p) \in [1 .. p[3] -> SysidSample]
                      /\ Len(p) <= 32 => p[3] \in 1 .. 2
    OBVIOUS
  <1>1. /\ Len(p) \in Nat /\ 14 <= Len(p) /\ (Len(p) - 4) % 10 = 0
        /\ p[3] = (Len(p) - 4) \div 10
    BY SMT DEF SysidDataTaken
  <1>2. p[3] \in Nat /\ 10 * p[3] + 4 = Len(p) /\ 1 <= p[3]
    BY <1>1, SMT
  <1>3. Len(p) <= 32 => p[3] \in 1 .. 2
    BY <1>1, <1>2, SMT
  <1>4. ASSUME NEW i \in 1 .. p[3] PROVE SysidSampleAt(p, i - 1) \in SysidSample
    <2> DEFINE j == i - 1
    <2>1. j \in Nat /\ 4 + 10 * j + 10 <= Len(p)
      BY <1>2, SMT
    <2>2. getU32(p, 4 + 10 * j) \in U32
      <3>1. 4 + 10 * j \in Nat /\ 4 + 10 * j + 4 <= Len(p)
        BY <1>1, <2>1, SMT
      <3> QED
        BY <3>1, Get32
    <2>3. getI16(p, 8 + 10 * j) \in I16
      <3>1. 8 + 10 * j \in Nat /\ 8 + 10 * j + 2 <= Len(p)
        BY <1>1, <2>1, SMT
      <3> QED
        BY <3>1, Get16
    <2>4. getI16(p, 10 + 10 * j) \in I16
      <3>1. 10 + 10 * j \in Nat /\ 10 + 10 * j + 2 <= Len(p)
        BY <1>1, <2>1, SMT
      <3> QED
        BY <3>1, Get16
    <2>5. getI16(p, 12 + 10 * j) \in I16
      <3>1. 12 + 10 * j \in Nat /\ 12 + 10 * j + 2 <= Len(p)
        BY <1>1, <2>1, SMT
      <3> QED
        BY <3>1, Get16
    <2>6. (getU16(p, 0) + j) % 65536 \in U16
      <3>1. getU16(p, 0) \in U16
        BY <1>1, Get16, SMT
      <3>2. getU16(p, 0) \in Int
        BY <3>1, Ranges
      <3>3. /\ (getU16(p, 0) + j) % 65536 \in Int
            /\ 0 <= (getU16(p, 0) + j) % 65536
            /\ (getU16(p, 0) + j) % 65536 < 65536
        BY <3>2, <2>1, SMT
      <3> QED
        BY <3>3, Ranges
    <2> QED
      BY <2>2, <2>3, <2>4, <2>5, <2>6 DEF SysidSampleAt, SysidSample
  <1> QED
    BY <1>3, <1>4 DEF parseSysidData

\* unpackCon() takes exactly the payloads that packCon() makes of a message
\* of the protocol, and gets the message and its sender back.
THEOREM ConIsExact ==
    \A p \in Seq(Byte) :
        /\ ConTaken(p) <=> \E m \in ConMsgType, s \in Byte : p = packCon(m, s)
        /\ \A m \in ConMsgType, s \in Byte :
              p = packCon(m, s) => unpackCon(p) = [sender |-> s, msgType |-> m]
  <1> SUFFICES ASSUME NEW p \in Seq(Byte)
               PROVE  /\ ConTaken(p) <=> \E m \in ConMsgType, s \in Byte : p = packCon(m, s)
                      /\ \A m \in ConMsgType, s \in Byte :
                            p = packCon(m, s) => unpackCon(p) = [sender |-> s, msgType |-> m]
    OBVIOUS
  <1>1. ASSUME NEW m \in ConMsgType, NEW s \in Byte, p = packCon(m, s)
        PROVE  ConTaken(p) /\ unpackCon(p) = [sender |-> s, msgType |-> m]
    BY <1>1 DEF packCon, ConTaken, unpackCon
  <1>2. ASSUME ConTaken(p)
        PROVE  \E m \in ConMsgType, s \in Byte : p = packCon(m, s)
    <2>1. p[1] \in Byte /\ p[3] \in ConMsgType
      BY <1>2, GetByte, SMT DEF ConTaken
    <2>2. p = <<p[1], p[2], p[3], p[4]>>
      BY <1>2, SMT DEF ConTaken
    <2>3. p = packCon(p[3], p[1])
      BY <1>2, <2>2 DEF ConTaken, packCon
    <2> QED
      BY <2>1, <2>3
  <1> QED
    BY <1>1, <1>2

-----------------------------------------------------------------------------
(* The speeds of the wheels.                                               *)

\* The speed in tenths of rpm is within the range of the line, and no further
\* than half a tenth from the clamped speed.
LEMMA TenthsOfNumber ==
    ASSUME NEW r \in Int
    PROVE  /\ Rounded(Clamped(r)) \in I16
           /\ -5 <= 10 * Rounded(Clamped(r)) - Clamped(r)
           /\ 10 * Rounded(Clamped(r)) - Clamped(r) <= 5
           /\ -327680 <= r /\ r <= 327670 => Clamped(r) = r
  <1> DEFINE c == Clamped(r)  d == Rounded(Clamped(r))
  <1>1. /\ c \in Int /\ -327680 <= c /\ c <= 327670
        /\ -327680 <= r /\ r <= 327670 => c = r
    BY SMT DEF Clamped
  <1>2. /\ d \in Int /\ -32768 <= d /\ d < 32768
        /\ -5 <= 10 * d - c /\ 10 * d - c <= 5
    BY <1>1, SMT DEF Rounded
  <1>3. d \in I16
    BY <1>2, Ranges
  <1> QED
    BY <1>1, <1>2, <1>3

\* Three numbers one after another are read back from their places.
LEMMA ThreeInARow ==
    ASSUME NEW t \in [0 .. 2 -> I16], NEW i \in 0 .. 2
    PROVE  getI16(putI16(t[0]) \o putI16(t[1]) \o putI16(t[2]), 2 * i) = t[i]
  <1> DEFINE a == putI16(t[0])  b == putI16(t[1])  c == putI16(t[2])
  <1>1. t[0] \in I16 /\ t[1] \in I16 /\ t[2] \in I16
    BY SMT
  <1>2. t[0] \in Int /\ t[1] \in Int /\ t[2] \in Int
    BY <1>1, Ranges
  <1>3. /\ a \in Seq(Byte) /\ b \in Seq(Byte) /\ c \in Seq(Byte)
        /\ Len(a) = 2 /\ Len(b) = 2 /\ Len(c) = 2
    BY <1>2, Put16
  <1>4. a \o b \in Seq(Byte) /\ Len(a \o b) = Len(a) + Len(b)
    BY <1>3, ConcatProperties
  <1>5. Len(a \o b) = 4
    BY <1>3, <1>4, SMT
  <1>6. 0 \in Nat /\ 0 + 2 <= 2 /\ 0 + 2 <= 4 /\ 2 \in Nat /\ 2 + 2 <= 4
        /\ 2 + 0 = 2 /\ 4 + 0 = 4
    BY SMT
  <1>7. getI16((a \o b) \o c, 0) = t[0]
    <2>1. getI16((a \o b) \o c, 0) = getI16(a \o b, 0)
      BY <1>3, <1>4, <1>5, <1>6, GetLeft
    <2>2. getI16(a \o b, 0) = getI16(a, 0)
      BY <1>3, <1>6, GetLeft
    <2> QED
      BY <2>1, <2>2, <1>1, Numbers16Survive
  <1>8. getI16((a \o b) \o c, 2) = t[1]
    <2>1. getI16((a \o b) \o c, 2) = getI16(a \o b, 2)
      BY <1>3, <1>4, <1>5, <1>6, GetLeft
    <2>2. getI16(a \o b, Len(a) + 0) = getI16(b, 0)
      BY <1>3, <1>6, GetRight
    <2> QED
      BY <2>1, <2>2, <1>1, <1>3, <1>6, Numbers16Survive
  <1>9. getI16((a \o b) \o c, 4) = t[2]
    <2>1. getI16((a \o b) \o c, Len(a \o b) + 0) = getI16(c, 0)
      BY <1>3, <1>4, <1>6, GetRight
    <2> QED
      BY <2>1, <1>1, <1>5, <1>6, Numbers16Survive
  <1>10. \/ i = 0 /\ 2 * i = 0
         \/ i = 1 /\ 2 * i = 2
         \/ i = 2 /\ 2 * i = 4
    BY SMT
  <1> QED
    BY <1>7, <1>8, <1>9, <1>10

\* The board reads the speed that was asked for, to the nearest tenth, and
\* the nearest speed of the line if it was out of range (packCmdVel): for
\* every wheel whose speed is a number, whatever the other two are given.
\* What lround() makes of NaN is unspecified and nothing is claimed about it,
\* but it spoils no other wheel.
THEOREM SpeedSaturates ==
    \A rpm \in [0 .. 2 -> Int \cup {NaN}] : \A p \in packCmdVel(rpm) : \A i \in 0 .. 2 :
        rpm[i] \in Int =>
            LET c == Clamped(rpm[i])
            IN  /\ -5 <= 10 * getI16(p, 2 * i) - c /\ 10 * getI16(p, 2 * i) - c <= 5
                /\ -327680 <= rpm[i] /\ rpm[i] <= 327670 => c = rpm[i]
  <1> SUFFICES ASSUME NEW rpm \in [0 .. 2 -> Int \cup {NaN}],
                      NEW p \in packCmdVel(rpm), NEW i \in 0 .. 2,
                      rpm[i] \in Int
               PROVE  LET c == Clamped(rpm[i])
                      IN  /\ -5 <= 10 * getI16(p, 2 * i) - c
                          /\ 10 * getI16(p, 2 * i) - c <= 5
                          /\ -327680 <= rpm[i] /\ rpm[i] <= 327670 => c = rpm[i]
    OBVIOUS
  <1>1. PICK t \in [0 .. 2 -> I16] :
            /\ \A j \in 0 .. 2 : t[j] \in Tenths(rpm[j])
            /\ p = putI16(t[0]) \o putI16(t[1]) \o putI16(t[2])
    BY DEF packCmdVel
  <1>2. getI16(p, 2 * i) = t[i]
    BY <1>1, ThreeInARow
  <1>3. rpm[i] # NaN
    BY NaNAssumption
  <1>4. t[i] = Rounded(Clamped(rpm[i]))
    BY <1>1, <1>3 DEF Tenths
  <1> QED
    BY <1>2, <1>4, TenthsOfNumber

-----------------------------------------------------------------------------
(* The session over the line: time is counted since the board last heard   *)
(* the host (seen) and since the two disagree (split).  Each of them fits  *)
(* in the pings that the host has counted, because an answer of the board  *)
(* that is still on its way is at least as old as the two.                 *)

\* An answer of the board on its way to the host.
Answer == [msg : Response \cup {"PING_RSP"}, age : 0 .. MaxDelay]

\* The board heard the host when it sent the answer f, and agreed with it
\* unless f closes the session.
Recent(f, s, p) == s <= f.age /\ (f.msg # "DISABLE_RSP" => p <= f.age)

Answers(answers, s, p) ==
    answers \in Seq(Answer) /\ \A i \in 1 .. Len(answers) : Recent(answers[i], s, p)

\* The time n repeated pings may take when every tick is as late as it may.
Spent(n) == n * Overdue(kRepeatPingTime)

\* A reached deadline has been waiting for the tick for all but one of the
\* units since the last tick.
Grace(t, l) == IF t = 0 THEN l - 1 ELSE 0

\* The time x and the time to the next ping fit in the pings that were counted.
Within(x, t, n, l) == x + t <= MaxDelay + kPingTime + Spent(n) + Grace(t, l)

\* Of a session that the host takes for CONNECTED.
Counted(c, l, x) == Within(x, c.ping, c.pingRep, l)

Session(c, l, r, s, p) ==
    /\ Good(c)
    /\ r \/ c.comm # "READY" => p = 0
    /\ c.state = "CONNECTED" =>
          /\ c.ping = 0 => l >= 1
          /\ Counted(c, l, s) /\ Counted(c, l, p)

LinkInv ==
    /\ late \in 0 .. MaxLate + 1
    /\ ready \in BOOLEAN /\ seen \in Nat /\ split \in Nat
    /\ Session(con, late, ready, seen, split)
    /\ Answers(toHost, seen, split)

-----------------------------------------------------------------------------
\* Counting repeated pings: none, one more, and no more than the limit.
LEMMA SpentRules ==
    /\ Spent(0) = 0
    /\ \A n \in Nat : /\ Spent(n) \in Nat
                      /\ Spent(n + 1) = Spent(n) + kRepeatPingTime + MaxLate
                      /\ \A m \in 0 .. n : Spent(m) <= Spent(n)
<1> DEFINE k == kRepeatPingTime + MaxLate
<1>0. k \in Nat /\ kRepeatPingTime \in Nat /\ MaxLate \in Nat
  BY LinkAssumption, TimingAssumption
<1>1. \A n : Spent(n) = n * k
  BY DEF Spent, Overdue
<1> HIDE DEF k
<1>2. 0 * k = 0
  BY <1>0
<1>3. ASSUME NEW n \in Nat
      PROVE  n * k \in Nat /\ (n + 1) * k = n * k + k
  BY <1>0
<1>4. ASSUME NEW n \in Nat, NEW m \in 0 .. n
      PROVE  m * k <= n * k
  <2>0. n - m \in Nat
    OBVIOUS
  <2>1. PICK d \in Nat : n = m + d
    BY <2>0
  <2>2. (m + d) * k = m * k + d * k /\ d * k \in Nat /\ m * k \in Nat
    BY <1>0
  <2> QED
    BY <2>1, <2>2
<1> QED
  BY <1>0, <1>1, <1>2, <1>3, <1>4 DEF k

\* The keep-alive round is the time of all repeated pings.
LEMMA RoundIsSpent ==
    PingRound = Spent(kMaxPingRepeat + 1) /\ kMaxPingRepeat + 1 \in Nat
BY TimingAssumption DEF PingRound, Spent

\* The fields that the counting is about are numbers.
LEMMA PingFields ==
    ASSUME NEW c, Good(c)
    PROVE  /\ c.state \in State /\ c.comm \in CommState
           /\ c.pingRep \in 0 .. kMaxPingRepeat + 1 /\ c.pingRep \in Nat
           /\ c.ping \in Nat \cup {-1}
           /\ c.state = "CONNECTED" => c.ping \in Nat
           /\ Spent(c.pingRep) \in Nat /\ Spent(c.pingRep) <= PingRound
           /\ kPingTime \in Nat \ {0} /\ MaxDelay \in Nat /\ MaxLate \in Nat
           /\ kRepeatPingTime \in Nat \ {0} /\ PingRound \in Nat
<1>1. c \in ConSmType /\ (c.state = "CONNECTED" => c.ping # Unarmed)
  BY DEF Good, Loose, NeverWaitsUntimed
<1>2. /\ c.state \in State /\ c.comm \in CommState
      /\ c.pingRep \in 0 .. kMaxPingRepeat + 1
      /\ c.ping \in Nat \cup {-1} /\ (c.state = "CONNECTED" => c.ping \in Nat)
  BY <1>1, ConSmFields DEF Timer, Unarmed
<1>3. kMaxPingRepeat + 1 \in Nat /\ c.pingRep \in Nat
  BY <1>2, TimingAssumption
<1> QED
  BY <1>2, <1>3, SpentRules, RoundIsSpent, TimingAssumption, LinkAssumption

\* The bound that the counting amounts to.
LEMMA CountedBound ==
    ASSUME NEW c, Good(c), c.state = "CONNECTED", NEW l \in 0 .. MaxLate + 1,
           NEW x \in Nat, c.ping = 0 => l >= 1, Counted(c, l, x)
    PROVE  x <= Overdue(kPingTime) + PingRound + MaxDelay
<1>1. x + c.ping <= MaxDelay + kPingTime + Spent(c.pingRep) + Grace(c.ping, l)
  BY DEF Counted, Within
<1>2. Grace(c.ping, l) <= MaxLate /\ Grace(c.ping, l) \in Int
  BY PingFields DEF Grace
<1> QED
  BY <1>1, <1>2, PingFields DEF Overdue

\* Less time than was counted is counted as well.
LEMMA CountedLess ==
    ASSUME NEW c, Good(c), NEW l \in 0 .. MaxLate + 1, c.state = "CONNECTED",
           NEW x \in Nat, NEW y \in Nat, y <= x, Counted(c, l, x)
    PROVE  Counted(c, l, y)
<1>1. x + c.ping <= MaxDelay + kPingTime + Spent(c.pingRep) + Grace(c.ping, l)
  BY DEF Counted, Within
<1>2. Grace(c.ping, l) \in Int
  BY PingFields DEF Grace
<1>3. y + c.ping <= MaxDelay + kPingTime + Spent(c.pingRep) + Grace(c.ping, l)
  BY <1>1, <1>2, PingFields
<1> QED
  BY <1>3 DEF Counted, Within

\* After an answer of the board the counting starts over.
LEMMA CountedAnew ==
    ASSUME NEW c, Good(c), c.ping = kPingTime, c.pingRep = 0, NEW l,
           NEW x \in Nat, x <= MaxDelay
    PROVE  Counted(c, l, x)
<1>1. c.ping # 0
  BY ConstTyped
<1> QED
  BY <1>1, SpentRules, PingFields DEF Counted, Within, Grace

\* A tick that repeats a ping pays for the time the reached deadline waited.
LEMMA CountedTick ==
    ASSUME NEW c, Good(c), NEW e, Good(e), c.state = "CONNECTED", PingTicked(c, e),
           NEW l \in 0 .. MaxLate + 1, NEW x \in Nat, Counted(c, l, x)
    PROVE  Counted(e, 0, x) /\ e.ping # 0
<1>1. x + c.ping <= MaxDelay + kPingTime + Spent(c.pingRep) + Grace(c.ping, l)
  BY DEF Counted, Within
<1>2. CASE c.ping # 0
  BY <1>1, <1>2 DEF PingTicked, Rearmed, Counted, Within, Grace
<1>3. CASE c.ping = 0
  <2>1. e.pingRep = c.pingRep + 1 /\ e.ping = kRepeatPingTime /\ e.ping # 0
    BY <1>3, ConstTyped DEF PingTicked, Rearmed
  <2>2. Spent(e.pingRep) = Spent(c.pingRep) + kRepeatPingTime + MaxLate
    BY <2>1, SpentRules, PingFields
  <2>3. Grace(c.ping, l) <= MaxLate /\ Grace(c.ping, l) \in Int /\ Grace(e.ping, 0) = 0
    BY <1>3, <2>1, PingFields DEF Grace
  <2>4. x + e.ping <= MaxDelay + kPingTime + Spent(e.pingRep) + Grace(e.ping, 0)
    BY <1>1, <1>3, <2>1, <2>2, <2>3, PingFields
  <2> QED
    BY <2>1, <2>4 DEF Counted, Within
<1> QED
  BY <1>2, <1>3

\* A unit of time brings the next ping nearer, or makes the tick later.
LEMMA CountedElapse ==
    ASSUME NEW c, Good(c), NEW e, e.ping = CountDown(c.ping), e.pingRep = c.pingRep,
           c.state = "CONNECTED", NEW l \in Nat, NEW x \in Nat, NEW y \in Nat,
           y <= x + 1, c.ping = 0 => l >= 1, Counted(c, l, x)
    PROVE  Counted(e, l + 1, y)
<1>1. x + c.ping <= MaxDelay + kPingTime + Spent(c.pingRep) + Grace(c.ping, l)
  BY DEF Counted, Within
<1>2. e.ping + Grace(c.ping, l) + 1 <= c.ping + Grace(e.ping, l + 1)
      /\ Grace(c.ping, l) \in Int /\ Grace(e.ping, l + 1) \in Int /\ e.ping \in Int
  BY PingFields DEF Grace, CountDown
<1>3. y + e.ping <= MaxDelay + kPingTime + Spent(e.pingRep) + Grace(e.ping, l + 1)
  BY <1>1, <1>2, PingFields
<1> QED
  BY <1>3 DEF Counted, Within

-----------------------------------------------------------------------------
\* An answer is taken from the line, or lost; the two times do not grow.
LEMMA AnswersTail ==
    ASSUME NEW answers, NEW s \in Nat, NEW p \in Nat, Answers(answers, s, p), answers # <<>>
    PROVE  /\ Answers(Tail(answers), s, p)
           /\ Head(answers) \in Answer /\ Recent(Head(answers), s, p)
<1>1. answers \in Seq(Answer) /\ \A i \in 1 .. Len(answers) : Recent(answers[i], s, p)
  BY DEF Answers
<1>2. /\ Len(answers) \in Nat \ {0} /\ Head(answers) = answers[1] /\ answers[1] \in Answer
      /\ Tail(answers) \in Seq(Answer) /\ Len(Tail(answers)) = Len(answers) - 1
      /\ \A i \in 1 .. Len(Tail(answers)) : Tail(answers)[i] = answers[i + 1]
  BY <1>1
<1>3. \A i \in 1 .. Len(Tail(answers)) : Recent(Tail(answers)[i], s, p)
  BY <1>1, <1>2
<1> QED
  BY <1>1, <1>2, <1>3 DEF Answers

\* Answers stay recent when the times start over.
LEMMA AnswersLess ==
    ASSUME NEW answers, NEW s \in Nat, NEW p \in Nat, NEW s2 \in Nat, NEW p2 \in Nat,
           s2 <= s, p2 <= p, Answers(answers, s, p)
    PROVE  Answers(answers, s2, p2)
<1>1. answers \in Seq(Answer) /\ \A i \in 1 .. Len(answers) : Recent(answers[i], s, p)
  BY DEF Answers
<1>2. ASSUME NEW i \in 1 .. Len(answers)
      PROVE  Recent(answers[i], s2, p2)
  <2>1. answers[i] \in Answer /\ Recent(answers[i], s, p)
    BY <1>1
  <2>2. answers[i].age \in Nat
    BY <2>1, LinkAssumption DEF Answer
  <2> QED
    BY <2>1, <2>2 DEF Recent
<1> QED
  BY <1>1, <1>2 DEF Answers

\* The board answers: it has just heard the host.
LEMMA AnswersAppend ==
    ASSUME NEW answers, NEW p \in Nat, Answers(answers, 0, p),
           NEW m \in Response \cup {"PING_RSP"}, m # "DISABLE_RSP" => p = 0
    PROVE  Answers(Append(answers, Frame(m)), 0, p)
<1> DEFINE f == Frame(m)
           more == Append(answers, f)
<1>1. answers \in Seq(Answer) /\ \A i \in 1 .. Len(answers) : Recent(answers[i], 0, p)
  BY DEF Answers
<1>2. f \in Answer /\ f.age = 0 /\ f.msg = m
  BY LinkAssumption DEF Frame, Answer
<1>3. Recent(f, 0, p)
  BY <1>2 DEF Recent
<1> HIDE DEF f
<1>4. /\ more \in Seq(Answer) /\ Len(more) = Len(answers) + 1
      /\ \A i \in 1 .. Len(answers) : more[i] = answers[i]
      /\ more[Len(answers) + 1] = f
  BY <1>1, <1>2
<1>5. \A i \in 1 .. Len(more) : i \in 1 .. Len(answers) \/ i = Len(answers) + 1
  BY <1>1, <1>4
<1> HIDE DEF more
<1> QED
  BY <1>1, <1>3, <1>4, <1>5 DEF Answers, more, f

\* The answers on the line grow older with the two times.
LEMMA AnswersAged ==
    ASSUME NEW answers, NEW s \in Nat, NEW p \in Nat, NEW s2 \in Nat, NEW p2 \in Nat,
           s2 <= s + 1, p2 <= p + 1, Answers(answers, s, p),
           \A i \in DOMAIN answers : answers[i].age < MaxDelay
    PROVE  Answers(Aged(answers), s2, p2)
<1> DEFINE older == Aged(answers)
<1>1. answers \in Seq(Answer) /\ \A i \in 1 .. Len(answers) : Recent(answers[i], s, p)
  BY DEF Answers
<1>2. /\ DOMAIN answers = 1 .. Len(answers) /\ Len(answers) \in Nat
      /\ \A i \in 1 .. Len(answers) : answers[i] \in Answer
  BY <1>1
<1>3. older = [i \in 1 .. Len(answers) |-> [answers[i] EXCEPT !.age = @ + 1]]
  BY <1>2 DEF Aged
<1>4. ASSUME NEW f \in Answer, f.age < MaxDelay, Recent(f, s, p)
      PROVE  LET g == [f EXCEPT !.age = @ + 1]
             IN  g \in Answer /\ Recent(g, s2, p2)
  <2> DEFINE g == [f EXCEPT !.age = @ + 1]
  <2>1. f.age \in 0 .. MaxDelay /\ MaxDelay \in Nat
    BY LinkAssumption DEF Answer
  <2>2. f.age + 1 \in 0 .. MaxDelay
    BY <1>4, <2>1
  <2>3. g \in Answer /\ g.age = f.age + 1 /\ g.msg = f.msg
    BY <2>2 DEF Answer
  <2> HIDE DEF g
  <2>4. Recent(g, s2, p2)
    BY <1>4, <2>1, <2>3 DEF Recent
  <2> QED
    BY <2>3, <2>4 DEF g
<1>5. ASSUME NEW i \in 1 .. Len(answers)
      PROVE  older[i] \in Answer /\ Recent(older[i], s2, p2)
  BY <1>1, <1>2, <1>3, <1>4
<1>6. older \in Seq(Answer) /\ Len(older) = Len(answers)
  <2>1. older \in [1 .. Len(answers) -> Answer]
    BY <1>3, <1>5
  <2> QED
    BY <1>2, <2>1
<1> QED
  BY <1>5, <1>6 DEF Answers

-----------------------------------------------------------------------------
\* The times start over, or stay: the counting is not disturbed.
LEMMA SessionLess ==
    ASSUME NEW c, NEW l \in 0 .. MaxLate + 1, NEW r, NEW s \in Nat, NEW p \in Nat,
           Session(c, l, r, s, p),
           NEW r2, NEW s2 \in Nat, NEW p2 \in Nat, s2 <= s, p2 <= p,
           r2 \/ c.comm # "READY" => p2 = 0
    PROVE  Session(c, l, r2, s2, p2)
BY CountedLess DEF Session

\* What split becomes when no time passes.
LEMMA ObserveLess ==
    ASSUME Observe, split \in Nat
    PROVE  /\ split' \in Nat /\ split' <= split
           /\ ready' \/ con'.comm # "READY" => split' = 0
BY DEF Observe

\* A step of the board, or a loss, keeps the invariant if the line does.
LEMMA BoardKeeps ==
    ASSUME LinkInv, UNCHANGED <<con, late>>, ready' \in BOOLEAN,
           seen' \in {0, seen}, Observe \/ UNCHANGED <<ready, split>>,
           Answers(toHost', seen', split')
    PROVE  LinkInv'
<1>1. split' \in Nat /\ split' <= split /\ (ready' \/ con.comm # "READY" => split' = 0)
  BY ObserveLess DEF LinkInv, Session
<1>2. seen' \in Nat /\ seen' <= seen
  BY DEF LinkInv
<1>3. Session(con, late, ready', seen', split')
  BY <1>1, <1>2, SessionLess DEF LinkInv
<1> QED
  BY <1>1, <1>2, <1>3 DEF LinkInv

\* A call of the host's machine keeps the invariant: a session begins, or is
\* refreshed, with a recent answer only.
LEMMA HostKeeps ==
    ASSUME LinkInv, NEW e, con' = e, UNCHANGED <<late, ready, seen>>, Observe,
           Answers(toHost', seen, split),
           \/ e = con
           \/ Ended(e)
           \/ Asking(con, e)
           \/ Live(e) /\ con.comm # "READY" /\ seen <= MaxDelay
           \/ Refreshed(con, e) /\ seen <= MaxDelay /\ split <= MaxDelay
    PROVE  LinkInv'
<1>1. split' \in Nat /\ split' <= split /\ (ready \/ e.comm # "READY" => split' = 0)
  BY ObserveLess DEF LinkInv
<1>2. seen \in Nat /\ split \in Nat /\ late \in 0 .. MaxLate + 1 /\ MaxDelay \in Nat
  BY LinkAssumption DEF LinkInv
<1>3. Answers(toHost', seen, split')
  BY <1>1, <1>2, AnswersLess
<1>4. Session(con, late, ready, seen, split) /\ Good(con)
  BY DEF LinkInv, Session
<1> SUFFICES Session(e, late, ready, seen, split')
  BY <1>1, <1>2, <1>3 DEF LinkInv
<1>5. CASE e = con
  BY <1>1, <1>2, <1>4, <1>5, SessionLess
<1>6. CASE Ended(e) \/ Asking(con, e)
  <2>1. Good(e) /\ e.state # "CONNECTED"
    BY <1>6 DEF Ended, Asking
  <2> QED
    BY <1>1, <2>1 DEF Session
<1>7. CASE Live(e) /\ con.comm # "READY" /\ seen <= MaxDelay
  <2>1. Good(e) /\ e.ping = kPingTime /\ e.pingRep = 0 /\ e.ping # 0
    BY <1>7, ConstTyped DEF Live
  <2>2. split' = 0
    BY <1>1, <1>2, <1>4, <1>7 DEF Session
  <2>3. Counted(e, late, seen) /\ Counted(e, late, split')
    BY <1>2, <1>7, <2>1, <2>2, CountedAnew
  <2> QED
    BY <1>1, <2>1, <2>3 DEF Session
<1>8. CASE Refreshed(con, e) /\ seen <= MaxDelay /\ split <= MaxDelay
  <2>1. Good(e) /\ e.pingRep = 0 /\ (e.state = "CONNECTED" => e.ping = kPingTime)
    BY <1>8 DEF Refreshed
  <2>2. split' <= MaxDelay
    BY <1>1, <1>2, <1>8
  <2>3. e.state = "CONNECTED" => Counted(e, late, seen) /\ Counted(e, late, split')
    BY <1>1, <1>2, <1>8, <2>1, <2>2, CountedAnew
  <2> QED
    BY <1>1, <2>1, <2>3, ConstTyped DEF Session
<1> QED
  BY <1>5, <1>6, <1>7, <1>8

\* Writes succeed or fail.
LEMMA SendResults == SendResult \subseteq BOOLEAN
BY DEF SendResult

LEMMA HostReceiveKeeps == LinkInv /\ HostReceive => LinkInv'
<1> SUFFICES ASSUME LinkInv, HostReceive PROVE LinkInv'
  OBVIOUS
<1> DEFINE m == Head(toHost).msg
<1>1. PICK ok \in BOOLEAN : Take(OnFrame(con, m, ok))
  BY SendResults DEF HostReceive
<1> DEFINE e == OnFrame(con, m, ok).c
<1>2. con' = e
  BY <1>1 DEF Take
<1>3. /\ UNCHANGED <<late, ready, seen>> /\ Observe
      /\ toHost # <<>> /\ toHost' = Tail(toHost)
  BY DEF HostReceive, board
<1>4. /\ Good(con) /\ seen \in Nat /\ split \in Nat /\ Answers(toHost, seen, split)
      /\ ready \/ con.comm # "READY" => split = 0
  BY DEF LinkInv, Session
<1>5. /\ Answers(toHost', seen, split)
      /\ Head(toHost) \in Answer /\ Recent(Head(toHost), seen, split)
  BY <1>3, <1>4, AnswersTail
<1>6. /\ m \in ConMsg /\ m # "ENABLE_REQ"
      /\ seen <= MaxDelay /\ (m = "PING_RSP" => split <= MaxDelay)
  <2>1. Head(toHost).age \in 0 .. MaxDelay /\ m \in Response \cup {"PING_RSP"}
    BY <1>5 DEF Answer
  <2> QED
    BY <1>4, <1>5, <2>1, LinkAssumption DEF Recent, ConMsg, Response
<1>7. \/ e = con
      \/ Ended(e)
      \/ Live(e) /\ con.comm # "READY"
      \/ m = "PING_RSP" /\ Refreshed(con, e)
  <2> HIDE DEF m
  <2> QED
    BY <1>4, <1>6, FrameOutcome
<1> HIDE DEF m, e
<1> QED
  BY <1>2, <1>3, <1>5, <1>6, <1>7, HostKeeps

LEMMA HostAsksKeeps == LinkInv /\ (Reconnect \/ UserDisconnect) => LinkInv'
<1> SUFFICES ASSUME LinkInv, Reconnect \/ UserDisconnect PROVE LinkInv'
  OBVIOUS
<1>1. /\ Good(con) /\ Answers(toHost, seen, split)
      /\ UNCHANGED <<late, ready, seen, toHost>> /\ Observe
  BY DEF LinkInv, Session, Reconnect, UserDisconnect, board
<1>2. CASE Reconnect
  <2>1. PICK ok \in BOOLEAN : Take(Connect(con, ok))
    BY <1>2, SendResults DEF Reconnect
  <2> DEFINE e == Connect(con, ok).c
  <2>2. con' = e /\ con.state = "DISCONNECTED"
    BY <1>2, <2>1 DEF Take, Reconnect
  <2>3. e = con \/ Ended(e) \/ Asking(con, e)
    BY <1>1, <2>2, ConnectOutcome
  <2> HIDE DEF e
  <2> QED
    BY <1>1, <2>2, <2>3, HostKeeps
<1>3. CASE UserDisconnect
  <2>1. PICK ok \in BOOLEAN : Take(Disconnect(con, ok))
    BY <1>3, SendResults DEF UserDisconnect
  <2> DEFINE e == Disconnect(con, ok).c
  <2>2. con' = e
    BY <2>1 DEF Take
  <2>3. e = con \/ Ended(e) \/ Asking(con, e)
    BY <1>1, DisconnectOutcome
  <2> HIDE DEF e
  <2> QED
    BY <1>1, <2>2, <2>3, HostKeeps
<1> QED
  BY <1>2, <1>3

LEMMA HostTickKeeps == LinkInv /\ HostTick => LinkInv'
<1> SUFFICES ASSUME LinkInv, HostTick PROVE LinkInv'
  OBVIOUS
<1>1. PICK ok1 \in BOOLEAN, ok2 \in BOOLEAN : Take(Tick(con, ok1, ok2))
  BY SendResults DEF HostTick
<1> DEFINE e == Tick(con, ok1, ok2).c
<1>2. con' = e
  BY <1>1 DEF Take
<1>3. UNCHANGED <<toHost, ready, seen>> /\ Observe /\ late' = 0
  BY DEF HostTick, board
<1>4. /\ Session(con, late, ready, seen, split) /\ Good(con)
      /\ seen \in Nat /\ split \in Nat /\ Answers(toHost, seen, split)
      /\ late \in 0 .. MaxLate + 1 /\ 0 \in 0 .. MaxLate + 1
  BY LinkAssumption DEF LinkInv, Session
<1>5. Ended(e) \/ Ticked(con, e)
  BY <1>4, TickOutcome
<1> HIDE DEF e
<1>6. split' \in Nat /\ split' <= split /\ (ready \/ e.comm # "READY" => split' = 0)
  BY <1>2, <1>3, <1>4, ObserveLess
<1>7. Answers(toHost', seen, split')
  BY <1>3, <1>4, <1>6, AnswersLess
<1> SUFFICES Session(e, 0, ready, seen, split')
  BY <1>2, <1>3, <1>4, <1>6, <1>7 DEF LinkInv
<1>8. CASE Ended(e)
  <2>1. Good(e) /\ e.state # "CONNECTED"
    BY <1>8 DEF Ended
  <2> QED
    BY <1>6, <2>1 DEF Session
<1>9. CASE Ticked(con, e)
  <2>1. Good(e) /\ e.state = con.state /\ PingTicked(con, e)
    BY <1>9 DEF Ticked
  <2>2. ASSUME e.state = "CONNECTED"
        PROVE  e.ping # 0 /\ Counted(e, 0, seen) /\ Counted(e, 0, split')
    <3>1. con.state = "CONNECTED" /\ Counted(con, late, seen) /\ Counted(con, late, split)
      BY <1>4, <2>1, <2>2 DEF Session
    <3>2. Counted(con, late, split')
      BY <1>4, <1>6, <3>1, CountedLess
    <3> QED
      BY <1>4, <1>6, <2>1, <3>1, <3>2, CountedTick
  <2> QED
    BY <1>6, <2>1, <2>2 DEF Session
<1> QED
  BY <1>5, <1>8, <1>9

LEMMA BoardReceiveKeeps == LinkInv /\ BoardReceive => LinkInv'
<1> SUFFICES ASSUME LinkInv, BoardReceive PROVE LinkInv'
  OBVIOUS
<1> DEFINE m == Head(toBoard).msg
<1>1. BoardTakes(m) /\ Observe /\ UNCHANGED <<con, late>>
  BY DEF BoardReceive
<1>2. Answers(toHost, seen, split) /\ seen \in Nat /\ split \in Nat /\ ready \in BOOLEAN
  BY DEF LinkInv
<1>3. split' \in Nat /\ split' <= split /\ (ready' => split' = 0)
  BY <1>1, <1>2, ObserveLess
<1>4. Answers(toHost, 0, split') /\ Answers(toHost, seen, split')
  BY <1>2, <1>3, AnswersLess
<1> HIDE DEF m
<1>5. CASE m \in {"ENABLE_REQ", "PING_REQ"}
  <2> DEFINE a == IF m = "PING_REQ" THEN "PING_RSP" ELSE "ENABLE_RSP"
  <2>1. ready' = TRUE /\ seen' = 0 /\ toHost' = Append(toHost, Frame(a))
    BY <1>1, <1>5 DEF BoardTakes
  <2>2. a \in Response \cup {"PING_RSP"}
    BY DEF Response
  <2>3. Answers(toHost', 0, split')
    BY <1>3, <1>4, <2>1, <2>2, AnswersAppend
  <2> QED
    BY <1>1, <2>1, <2>3, BoardKeeps
<1>6. CASE m = "DISABLE_REQ"
  <2>1. /\ ready' = FALSE /\ seen' = 0
        /\ toHost' = Append(toHost, Frame("DISABLE_RSP"))
    BY <1>1, <1>6 DEF BoardTakes
  <2>2. Answers(toHost', 0, split')
    BY <1>3, <1>4, <2>1, AnswersAppend DEF Response
  <2> QED
    BY <1>1, <2>1, <2>2, BoardKeeps
<1>7. CASE m \notin {"ENABLE_REQ", "PING_REQ", "DISABLE_REQ"}
  <2>1. UNCHANGED <<ready, seen, toHost>>
    BY <1>1, <1>7 DEF BoardTakes, board
  <2> QED
    BY <1>1, <1>2, <1>4, <2>1, BoardKeeps
<1> QED
  BY <1>5, <1>6, <1>7

\* The watchdog, a restart, a loss on either way, and the end of the faults.
LEMMA OthersKeep ==
    LinkInv /\ (\/ BoardWatchdog \/ BoardRestart \/ LoseToBoard \/ LoseToHost
                \/ FaultsStop \/ UNCHANGED linkVars) => LinkInv'
<1>1. ASSUME LinkInv, BoardWatchdog \/ BoardRestart PROVE LinkInv'
  <2>1. /\ ready' = FALSE /\ seen' = 0 /\ Observe
        /\ UNCHANGED <<con, late, toHost>>
    BY <1>1 DEF BoardWatchdog, BoardRestart
  <2>2. Answers(toHost, seen, split) /\ seen \in Nat /\ split \in Nat
    BY <1>1 DEF LinkInv
  <2>3. split' \in Nat /\ split' <= split
    BY <2>1, <2>2, ObserveLess
  <2>4. Answers(toHost', seen', split')
    BY <2>1, <2>2, <2>3, AnswersLess
  <2> QED
    BY <1>1, <2>1, <2>4, BoardKeeps
<1>2. ASSUME LinkInv, LoseToHost PROVE LinkInv'
  <2>1. /\ toHost # <<>> /\ toHost' = Tail(toHost)
        /\ UNCHANGED <<con, late, ready, seen, split>>
    BY <1>2 DEF LoseToHost, board
  <2>2. Answers(toHost', seen, split)
    BY <1>2, <2>1, AnswersTail DEF LinkInv
  <2> QED
    BY <1>2, <2>1, <2>2 DEF LinkInv
<1>3. ASSUME LinkInv, LoseToBoard \/ FaultsStop \/ UNCHANGED linkVars PROVE LinkInv'
  <2>1. UNCHANGED <<con, late, toHost, ready, seen, split>>
    BY <1>3 DEF LoseToBoard, FaultsStop, linkVars, board
  <2> QED
    BY <1>3, <2>1 DEF LinkInv
<1> QED
  BY <1>1, <1>2, <1>3

\* What the time leaves of the machine.
LEMMA ElapsedFields ==
    ASSUME NEW c, Good(c)
    PROVE  LET e == Elapsed(c)
           IN  /\ e.state = c.state /\ e.comm = c.comm /\ e.pingRep = c.pingRep
               /\ e.ping = CountDown(c.ping)
BY DEF Good, Loose, Elapsed, ConSmType

LEMMA ElapseKeeps == LinkInv /\ Elapse => LinkInv'
<1> SUFFICES ASSUME LinkInv, Elapse PROVE LinkInv'
  OBVIOUS
<1> DEFINE e == Elapsed(con)
<1>1. /\ Session(con, late, ready, seen, split) /\ Good(con)
      /\ seen \in Nat /\ split \in Nat /\ ready \in BOOLEAN
      /\ late \in 0 .. MaxLate + 1 /\ late \in Nat
      /\ Answers(toHost, seen, split) /\ MaxLate \in Nat
  BY LinkAssumption DEF LinkInv, Session
<1>2. /\ con' = e /\ late' = late + 1 /\ late' \in 0 .. MaxLate + 1
      /\ ready' = ready
      /\ seen' = IF ready THEN seen + 1 ELSE seen
      /\ split' = IF con.comm = "READY" /\ ~ready THEN split + 1 ELSE split
  BY <1>1 DEF Elapse
<1>3. /\ seen' \in Nat /\ seen' <= seen + 1
      /\ split' \in Nat /\ split' <= split + 1
  BY <1>1, <1>2
<1>4. Answers(toHost', seen', split')
  BY <1>1, <1>3, AnswersAged DEF Elapse
<1>5. /\ Good(e) /\ e.state = con.state /\ e.comm = con.comm
      /\ e.pingRep = con.pingRep /\ e.ping = CountDown(con.ping)
  BY <1>1, ElapsedGood, ElapsedFields
<1> HIDE DEF e
<1>6. ready \/ e.comm # "READY" => split' = 0
  BY <1>1, <1>2, <1>5 DEF Session
<1>7. ASSUME e.state = "CONNECTED"
      PROVE  Counted(e, late + 1, seen') /\ Counted(e, late + 1, split')
  <2>1. /\ con.state = "CONNECTED" /\ (con.ping = 0 => late >= 1)
        /\ Counted(con, late, seen) /\ Counted(con, late, split)
    BY <1>1, <1>5, <1>7 DEF Session
  <2> QED
    BY <1>1, <1>3, <1>5, <2>1, CountedElapse
<1>8. late + 1 >= 1
  BY <1>1
<1>9. Session(e, late + 1, ready, seen', split')
  BY <1>5, <1>6, <1>7, <1>8 DEF Session
<1> QED
  BY <1>1, <1>2, <1>3, <1>4, <1>9 DEF LinkInv

\* Neither side knows of a session at first.
LEMMA LinkInitInv == LinkInit => LinkInv
<1> SUFFICES ASSUME LinkInit PROVE LinkInv
  OBVIOUS
<1>1. con = Con("DISCONNECTED", "NOT_READY", Unarmed, Unarmed, 0, 0, "ENABLE_REQ")
  BY DEF LinkInit, InitConSm, Con
<1>2. Ended(con)
  BY <1>1, IdleIntro, ConstTyped DEF Request
<1>3. Good(con) /\ con.state # "CONNECTED"
  BY <1>2 DEF Ended
<1>4. Session(con, late, ready, seen, split)
  BY <1>3 DEF LinkInit, Session
<1>5. Answers(toHost, seen, split)
  BY DEF LinkInit, Answers
<1>6. late = 0 /\ ready = FALSE /\ seen = 0 /\ split = 0
  BY DEF LinkInit
<1>7. 0 \in 0 .. MaxLate + 1
  BY LinkAssumption
<1> QED
  BY <1>4, <1>5, <1>6, <1>7 DEF LinkInv

LEMMA LinkInductive == LinkSpec => []LinkInv
<1>1. LinkInv /\ [LinkNext]_linkVars => LinkInv'
  BY HostReceiveKeeps, HostAsksKeeps, HostTickKeeps, BoardReceiveKeeps, OthersKeep,
     ElapseKeeps
  DEF LinkNext
<1> QED
  BY <1>1, LinkInitInv, PTL DEF LinkSpec

-----------------------------------------------------------------------------
\* The board's watchdog is longer than the host takes to give up a session:
\* with the constants of the code 3 s against 1.9 s, a late tick in each of
\* the four periods, and a delay.
BoardIsPatient == Overdue(kPingTime) + PingRound + MaxDelay <= BoardTimeout

\* The host gives up first, for all constants that leave it the time to,
\* however frames are lost and delayed and writes fail: the watchdog of the
\* board never ends a session that the host takes for CONNECTED.
THEOREM HostGivesUpFirstHolds ==
    ASSUME BoardIsPatient
    PROVE  LinkSpec => []HostGivesUpFirst
<1>1. LinkInv => HostGivesUpFirst
  <2> SUFFICES ASSUME LinkInv, con.state = "CONNECTED" PROVE seen <= BoardTimeout
    BY DEF HostGivesUpFirst
  <2>1. seen <= Overdue(kPingTime) + PingRound + MaxDelay
    BY CountedBound DEF LinkInv, Session
  <2>2. Good(con) /\ seen \in Nat /\ BoardTimeout \in Nat
    BY LinkAssumption DEF LinkInv, Session
  <2>3. Overdue(kPingTime) + PingRound + MaxDelay \in Nat
    BY <2>2, PingFields DEF Overdue
  <2> QED
    BY <2>1, <2>2, <2>3, BoardIsPatient DEF BoardIsPatient
<1> QED
  BY <1>1, LinkInductive, PTL

\* A session that only the host believes in ends, or is rebuilt, within the
\* keep-alive bound, for all constants.
THEOREM SplitBoundedHolds == LinkSpec => []SplitBounded
<1>1. LinkInv => SplitBounded
  BY CountedBound DEF LinkInv, Session, SplitBounded
<1> QED
  BY <1>1, LinkInductive, PTL

-----------------------------------------------------------------------------
(* FrameParser: the bytes and their checksum.                              *)

LEMMA CodecConstants ==
    /\ kMaxPayload \in Nat /\ kMaxPayload <= 84
    /\ kHead0 = 170 /\ kHead1 = 85 /\ kFrameOverhead = 7
    /\ kMaxFrame = 7 + kMaxPayload
    /\ Byte = 0 .. 255
  BY CodecAssumption DEF kHead0, kHead1, kFrameOverhead, kMaxFrame, Byte, Unsigned

LEMMA ByteIs == \A b \in Byte : b \in Nat /\ b <= 255
  BY DEF Byte, Unsigned

LEMMA XorBitType ==
    ASSUME NEW a \in Nat, NEW b \in Nat, NEW w \in Nat \ {0}
    PROVE  XorBit(a, b, w) \in 0 .. w
<1> DEFINE x == a \div w
           y == b \div w
           z == (x + y) % 2
<1>1. x \in Nat /\ y \in Nat
  BY SMT
<1> HIDE DEF x, y
<1>2. z \in 0 .. 1
  BY <1>1
<1> HIDE DEF z
<1>3. z = 0 \/ z = 1
  BY <1>2
<1>4. w * z \in 0 .. w
  BY <1>3
<1> QED
  BY <1>4 DEF XorBit, x, y, z

LEMMA XorFourType ==
    ASSUME NEW a \in Nat, NEW b \in Nat, NEW w \in Nat \ {0}
    PROVE  XorFour(a, b, w) \in 0 .. 15 * w
<1>1. 2 * w \in Nat \ {0} /\ 4 * w \in Nat \ {0} /\ 8 * w \in Nat \ {0}
  OBVIOUS
<1>2. XorBit(a, b, w) \in 0 .. w
  BY XorBitType
<1>3. XorBit(a, b, 2 * w) \in 0 .. 2 * w
  BY <1>1, XorBitType
<1>4. XorBit(a, b, 4 * w) \in 0 .. 4 * w
  BY <1>1, XorBitType
<1>5. XorBit(a, b, 8 * w) \in 0 .. 8 * w
  BY <1>1, XorBitType
<1> QED
  BY <1>2, <1>3, <1>4, <1>5 DEF XorFour

LEMMA XorType ==
    ASSUME NEW a \in Nat, NEW b \in Nat
    PROVE  /\ Xor(a, b) \in Nat
           /\ a \in Byte /\ b \in Byte => Xor(a, b) \in Byte
<1> DEFINE v == 16
           w == 256
           x == 4096
           one == XorFour(a, b, 1)
           two == XorFour(a, b, v)
           three == XorFour(a, b, w)
           four == XorFour(a, b, x)
<1>1. v \in Nat \ {0} /\ w \in Nat \ {0} /\ x \in Nat \ {0} /\ 1 \in Nat \ {0}
  OBVIOUS
<1>2. Xor(a, b) = one + two + three + four
  BY DEF Xor
<1>3. v = 16
  OBVIOUS
<1>4. ASSUME a \in Byte, b \in Byte PROVE three = 0 /\ four = 0
  <2>1. a \in 0 .. 255 /\ b \in 0 .. 255
    BY <1>4, CodecConstants
  <2>2. /\ XorBit(a, b, 256) = 0 /\ XorBit(a, b, 2 * 256) = 0
        /\ XorBit(a, b, 4 * 256) = 0 /\ XorBit(a, b, 8 * 256) = 0
    BY <2>1 DEF XorBit
  <2>3. /\ XorBit(a, b, 4096) = 0 /\ XorBit(a, b, 2 * 4096) = 0
        /\ XorBit(a, b, 4 * 4096) = 0 /\ XorBit(a, b, 8 * 4096) = 0
    BY <2>1 DEF XorBit
  <2>4. three = 0
    BY <2>2 DEF XorFour
  <2>5. four = 0
    BY <2>3 DEF XorFour
  <2> QED
    BY <2>4, <2>5
<1> HIDE DEF v, w, x
<1>5. one \in 0 .. 15 * 1
  BY <1>1, XorFourType, Zenon
<1>6. two \in 0 .. 15 * v
  BY <1>1, XorFourType
<1>7. three \in 0 .. 15 * w
  BY <1>1, XorFourType
<1>8. four \in 0 .. 15 * x
  BY <1>1, XorFourType
<1> HIDE DEF one, two, three, four
<1>9. Xor(a, b) \in Nat
  BY <1>1, <1>2, <1>5, <1>6, <1>7, <1>8
<1>10. ASSUME a \in Byte, b \in Byte PROVE Xor(a, b) \in 0 .. 255
  BY <1>2, <1>3, <1>4, <1>5, <1>6, <1>10
<1> QED
  BY <1>9, <1>10, CodecConstants

LEMMA ShiftType == ASSUME NEW crc \in Nat PROVE ShiftTwice(crc) \in Nat
<1>1. ASSUME NEW c \in Nat PROVE Shift(c) \in Nat
  <2>1. c \div 2 \in Nat
    BY SMT
  <2> QED
    BY <2>1, XorType DEF Shift
<1> QED
  BY <1>1 DEF ShiftTwice

LEMMA CrcByteType ==
    ASSUME NEW crc \in Nat, NEW b \in Byte PROVE CrcByte(crc, b) \in Nat
<1>1. b \in Nat
  BY CodecConstants
<1> DEFINE x == Xor(crc, b)
<1>2. x \in Nat
  BY <1>1, XorType, Zenon
<1> HIDE DEF x
<1>3. ShiftTwice(ShiftTwice(ShiftTwice(ShiftTwice(x)))) \in Nat
  BY <1>2, ShiftType, Zenon
<1> QED
  BY <1>3 DEF CrcByte, x

-----------------------------------------------------------------------------
(* Induction, stated for a set instead of a predicate: a set of natural    *)
(* numbers is proved to hold all of them by its least missing element.     *)

LEMMA Induction ==
    ASSUME NEW P, 0 \in P, \A n \in Nat : n \in P => n + 1 \in P
    PROVE  Nat \subseteq P
<1> SUFFICES ASSUME NEW k \in Nat, k \notin P PROVE FALSE
  OBVIOUS
<1> DEFINE R == OpToRel(<, Nat)
           Missing == {n \in Nat : n \notin P}
<1>1. Missing \subseteq Nat /\ Missing # {}
  OBVIOUS
<1>2. IsWellFoundedOn(R, Nat)
  BY NatLessThanWellFounded, Zenon
<1>3. \A a, b \in Nat : a < b => <<a, b>> \in R
  BY DEF OpToRel
<1> HIDE DEF R, Missing
<1>4. PICK m \in Missing : \A y \in Missing : <<y, m>> \notin R
  BY <1>1, <1>2, WFMin
<1>5. m \in Nat /\ m \notin P
  BY <1>4 DEF Missing
<1>6. m - 1 \in Nat /\ m - 1 < m
  BY <1>5
<1>7. m - 1 \notin Missing
  BY <1>3, <1>4, <1>5, <1>6
<1>8. m - 1 \in P
  BY <1>6, <1>7 DEF Missing
<1> QED
  BY <1>5, <1>6, <1>8

-----------------------------------------------------------------------------
(* The two functions that the codec defines by recursion.                  *)

CrcFirst == 65535

\* f[i] is the checksum of the first i bytes.
CrcOf(f, data, n) ==
    f = [i \in 0 .. n |-> IF i = 0 THEN CrcFirst ELSE CrcByte(f[i - 1], data[i])]

LEMMA CrcExists == ASSUME NEW data, NEW n \in Nat PROVE \E f : CrcOf(f, data, n)
<1> DEFINE P == {m \in Nat : \E f : CrcOf(f, data, m)}
<1>1. 0 \in P
  <2> DEFINE f == [i \in 0 .. 0 |-> CrcFirst]
  <2>1. CrcOf(f, data, 0)
    BY DEF CrcOf
  <2> QED
    BY <2>1
<1>2. ASSUME NEW m \in Nat, m \in P PROVE m + 1 \in P
  <2>1. PICK f : CrcOf(f, data, m)
    BY <1>2
  <2> DEFINE g == [i \in 0 .. m + 1 |->
                     IF i = m + 1 THEN CrcByte(f[i - 1], data[i]) ELSE f[i]]
             h == [i \in 0 .. m + 1 |->
                     IF i = 0 THEN CrcFirst ELSE CrcByte(g[i - 1], data[i])]
  <2>2. ASSUME NEW i \in 0 .. m + 1 PROVE g[i] = h[i]
    <3>1. CASE i = m + 1
      <4>1. i # 0 /\ i - 1 \in 0 .. m + 1 /\ i - 1 # m + 1
        BY <3>1
      <4>2. g[i - 1] = f[i - 1]
        BY <4>1
      <4> QED
        BY <3>1, <4>1, <4>2
    <3>2. CASE i # m + 1
      <4>1. i \in 0 .. m /\ (i # 0 => i - 1 \in 0 .. m + 1 /\ i - 1 # m + 1)
        BY <3>2
      <4>2. f[i] = IF i = 0 THEN CrcFirst ELSE CrcByte(f[i - 1], data[i])
        BY <2>1, <4>1, Zenon DEF CrcOf
      <4>3. g[i] = f[i] /\ (i # 0 => g[i - 1] = f[i - 1])
        BY <3>2, <4>1
      <4> QED
        BY <4>2, <4>3
    <3> QED
      BY <3>1, <3>2
  <2>3. g = h
    BY <2>2
  <2>4. CrcOf(g, data, m + 1)
    BY <2>3 DEF CrcOf
  <2> QED
    BY <2>4
<1> HIDE DEF P
<1>3. Nat \subseteq P
  BY <1>1, <1>2, Induction
<1> QED
  BY <1>3 DEF P

LEMMA CrcType == ASSUME NEW data \in Seq(Byte) PROVE crc16Modbus(data) \in Nat
<1> DEFINE n == Len(data)
           f == CHOOSE g : CrcOf(g, data, n)
<1>1. n \in Nat
  OBVIOUS
<1>2. CrcOf(f, data, n)
  BY <1>1, CrcExists
<1>3. crc16Modbus(data) = f[n]
  BY DEF crc16Modbus, CrcOf, CrcFirst
<1> DEFINE P == {i \in Nat : i <= n => f[i] \in Nat}
<1> HIDE DEF f, n
<1>4. 0 \in P
  <2>1. 0 \in 0 .. n
    BY <1>1
  <2>2. f[0] = CrcFirst
    BY <1>2, <2>1 DEF CrcOf
  <2> QED
    BY <2>2 DEF CrcFirst
<1>5. ASSUME NEW i \in Nat, i \in P PROVE i + 1 \in P
  <2> SUFFICES ASSUME i + 1 <= n PROVE f[i + 1] \in Nat
    OBVIOUS
  <2> DEFINE j == i + 1
  <2>1. j \in 0 .. n /\ j # 0 /\ j - 1 = i /\ j \in 1 .. n
    BY <1>1
  <2> HIDE DEF j
  <2>2. f[j] = IF j = 0 THEN CrcFirst ELSE CrcByte(f[j - 1], data[j])
    BY <1>2, <2>1, Zenon DEF CrcOf
  <2>3. f[j] = CrcByte(f[i], data[j])
    BY <2>1, <2>2
  <2>4. f[i] \in Nat /\ data[j] \in Byte
    BY <1>1, <1>5, <2>1 DEF n, j
  <2>5. f[j] \in Nat
    BY <2>3, <2>4, CrcByteType
  <2> QED
    BY <2>5 DEF j
<1> HIDE DEF P
<1>6. Nat \subseteq P
  BY <1>4, <1>5, Induction
<1>7. f[n] \in Nat
  BY <1>1, <1>6 DEF P
<1> QED
  BY <1>3, <1>7

\* f[i] is the parser after i rounds.
RoundsOf(f, p, n) ==
    f = [i \in 0 .. n |-> IF i = 0 THEN p ELSE Round(f[i - 1])]

LEMMA RoundsExists == ASSUME NEW p, NEW n \in Nat PROVE \E f : RoundsOf(f, p, n)
<1> DEFINE P == {m \in Nat : \E f : RoundsOf(f, p, m)}
<1>1. 0 \in P
  <2> DEFINE f == [i \in 0 .. 0 |-> p]
  <2>1. RoundsOf(f, p, 0)
    BY DEF RoundsOf
  <2> QED
    BY <2>1
<1>2. ASSUME NEW m \in Nat, m \in P PROVE m + 1 \in P
  <2>1. PICK f : RoundsOf(f, p, m)
    BY <1>2
  <2> DEFINE g == [i \in 0 .. m + 1 |-> IF i = m + 1 THEN Round(f[i - 1]) ELSE f[i]]
             h == [i \in 0 .. m + 1 |-> IF i = 0 THEN p ELSE Round(g[i - 1])]
  <2>2. ASSUME NEW i \in 0 .. m + 1 PROVE g[i] = h[i]
    <3>1. CASE i = m + 1
      <4>1. i # 0 /\ i - 1 \in 0 .. m + 1 /\ i - 1 # m + 1
        BY <3>1
      <4>2. g[i - 1] = f[i - 1]
        BY <4>1
      <4> QED
        BY <3>1, <4>1, <4>2
    <3>2. CASE i # m + 1
      <4>1. i \in 0 .. m /\ (i # 0 => i - 1 \in 0 .. m + 1 /\ i - 1 # m + 1)
        BY <3>2
      <4>2. f[i] = IF i = 0 THEN p ELSE Round(f[i - 1])
        BY <2>1, <4>1, Zenon DEF RoundsOf
      <4>3. g[i] = f[i] /\ (i # 0 => g[i - 1] = f[i - 1])
        BY <3>2, <4>1
      <4> QED
        BY <4>2, <4>3
    <3> QED
      BY <3>1, <3>2
  <2>3. g = h
    BY <2>2
  <2>4. RoundsOf(g, p, m + 1)
    BY <2>3 DEF RoundsOf
  <2> QED
    BY <2>4
<1> HIDE DEF P
<1>3. Nat \subseteq P
  BY <1>1, <1>2, Induction
<1> QED
  BY <1>3 DEF P

LEMMA RoundsAlike ==
    ASSUME NEW p, NEW f, NEW g, NEW m \in Nat,
           RoundsOf(f, p, m), RoundsOf(g, p, m + 1)
    PROVE  f[m] = g[m]
<1> DEFINE P == {i \in Nat : i <= m => f[i] = g[i]}
<1>1. 0 \in P
  <2>1. 0 \in 0 .. m /\ 0 \in 0 .. m + 1
    OBVIOUS
  <2>2. f[0] = p /\ g[0] = p
    BY <2>1 DEF RoundsOf
  <2> QED
    BY <2>2
<1>2. ASSUME NEW i \in Nat, i \in P PROVE i + 1 \in P
  <2> SUFFICES ASSUME i + 1 <= m PROVE f[i + 1] = g[i + 1]
    OBVIOUS
  <2> DEFINE j == i + 1
  <2>1. j \in 0 .. m /\ j \in 0 .. m + 1 /\ j # 0 /\ j - 1 = i /\ i <= m
    OBVIOUS
  <2> HIDE DEF j
  <2>2. /\ f[j] = IF j = 0 THEN p ELSE Round(f[j - 1])
        /\ g[j] = IF j = 0 THEN p ELSE Round(g[j - 1])
    BY <2>1, Zenon DEF RoundsOf
  <2>3. f[j] = g[j]
    BY <1>2, <2>1, <2>2
  <2> QED
    BY <2>3 DEF j
<1> HIDE DEF P
<1>3. Nat \subseteq P
  BY <1>1, <1>2, Induction
<1> QED
  BY <1>3 DEF P

\* One round more.
LEMMA RoundsStep ==
    ASSUME NEW p, NEW n \in Nat
    PROVE  /\ Rounds(p, 0) = p
           /\ Rounds(p, n + 1) = Round(Rounds(p, n))
<1> DEFINE Fn(m) == CHOOSE g : RoundsOf(g, p, m)
<1>1. \A m \in Nat : RoundsOf(Fn(m), p, m)
  BY RoundsExists
<1>2. \A m \in Nat : Rounds(p, m) = Fn(m)[m]
  BY DEF Rounds, RoundsOf
<1> DEFINE z == Fn(0)
           f == Fn(n)
           g == Fn(n + 1)
           j == n + 1
<1>3. /\ RoundsOf(z, p, 0) /\ Rounds(p, 0) = z[0]
      /\ RoundsOf(f, p, n) /\ Rounds(p, n) = f[n]
      /\ RoundsOf(g, p, j) /\ Rounds(p, j) = g[j]
  <2>1. 0 \in Nat /\ n + 1 \in Nat
    OBVIOUS
  <2> QED
    BY <1>1, <1>2, <2>1
<1> HIDE DEF Fn, z, f, g
<1>4. z[0] = p
  BY <1>3 DEF RoundsOf
<1>5. f[n] = g[n]
  BY <1>3, RoundsAlike
<1>6. j \in 0 .. j /\ j # 0 /\ j - 1 = n
  OBVIOUS
<1> HIDE DEF j
<1>7. g[j] = IF j = 0 THEN p ELSE Round(g[j - 1])
  BY <1>3, <1>6, Zenon DEF RoundsOf
<1> QED
  BY <1>3, <1>4, <1>5, <1>6, <1>7 DEF j

-----------------------------------------------------------------------------
(* Frames and what is left of a buffer when bytes are taken from its front. *)

LEMMA ChecksumType ==
    ASSUME NEW covered \in Seq(Byte)
    PROVE  Checksum(covered) \in Seq(Byte) /\ Len(Checksum(covered)) = 2
<1> DEFINE crc == crc16Modbus(covered)
<1>1. crc \in Nat
  BY CrcType
<1> HIDE DEF crc
<1>2. crc \div 256 \in Nat
  BY <1>1, SMT
<1>3. crc % 256 \in 0 .. 255 /\ (crc \div 256) % 256 \in 0 .. 255
  BY <1>1, <1>2
<1>4. crc % 256 \in Byte /\ (crc \div 256) % 256 \in Byte
  BY <1>3, CodecConstants
<1>5. putU16(crc) \in Seq(Byte) /\ Len(putU16(crc)) = 2
  BY <1>4 DEF putU16
<1> QED
  BY <1>5 DEF Checksum, crc

From(buf, k) == SubSeq(buf, k + 1, Len(buf))

LEMMA FromIs ==
    ASSUME NEW S, NEW buf \in Seq(S), NEW k \in 0 .. Len(buf)
    PROVE  /\ From(buf, k) \in Seq(S)
           /\ Len(From(buf, k)) = Len(buf) - k
           /\ \A i \in 1 .. Len(buf) - k : From(buf, k)[i] = buf[k + i]
  BY DEF From

LEMMA SameSeq ==
    ASSUME NEW S, NEW s \in Seq(S), NEW t \in Seq(S), Len(s) = Len(t),
           \A i \in 1 .. Len(s) : s[i] = t[i]
    PROVE  s = t
  OBVIOUS

LEMMA InSeq ==
    ASSUME NEW S, NEW s \in Seq(S), NEW i \in DOMAIN s
    PROVE  i \in Nat \ {0} /\ i \in 1 .. Len(s) /\ s[i] \in S
  OBVIOUS

LEMMA LengthByte ==
    ASSUME NEW buf \in Seq(Byte), NEW q \in Nat \ {0}, q + 3 <= Len(buf)
    PROVE  buf[q + 3] \in Byte /\ buf[q + 3] \in Nat /\ Len(buf) \in Nat
<1>1. buf[q + 3] \in Byte
  OBVIOUS
<1> QED
  BY <1>1, ByteIs

LEMMA ByteAt ==
    ASSUME NEW buf \in Seq(Byte), NEW i \in Nat \ {0}, i <= Len(buf)
    PROVE  buf[i] \in Byte /\ buf[i] \in Nat
<1>1. buf[i] \in Byte
  OBVIOUS
<1> QED
  BY <1>1, ByteIs

LEMMA FromFrom ==
    ASSUME NEW S, NEW buf \in Seq(S), NEW k \in Nat, NEW m \in Nat, k + m <= Len(buf)
    PROVE  From(From(buf, k), m) = From(buf, k + m)
<1> DEFINE a == From(buf, k)
           b == From(a, m)
           c == From(buf, k + m)
<1>1. k \in 0 .. Len(buf) /\ k + m \in 0 .. Len(buf) /\ m \in 0 .. Len(buf) - k
  OBVIOUS
<1>2. /\ a \in Seq(S) /\ Len(a) = Len(buf) - k
      /\ \A i \in 1 .. Len(buf) - k : a[i] = buf[k + i]
  BY <1>1, FromIs
<1>3. /\ c \in Seq(S) /\ Len(c) = Len(buf) - (k + m)
      /\ \A i \in 1 .. Len(buf) - (k + m) : c[i] = buf[(k + m) + i]
  BY <1>1, FromIs
<1> HIDE DEF a, c
<1>4. m \in 0 .. Len(a)
  BY <1>1, <1>2
<1>5. /\ b \in Seq(S) /\ Len(b) = Len(a) - m
      /\ \A i \in 1 .. Len(a) - m : b[i] = a[m + i]
  BY <1>2, <1>4, FromIs
<1> HIDE DEF b
<1>6. Len(b) = Len(c) /\ \A i \in 1 .. Len(b) : b[i] = c[i]
  BY <1>1, <1>2, <1>3, <1>5
<1>7. b = c
  BY <1>3, <1>5, <1>6, SameSeq
<1> QED
  BY <1>7 DEF a, b, c

LEMMA FromJoin ==
    ASSUME NEW S, NEW buf \in Seq(S), NEW k \in 0 .. Len(buf), NEW data \in Seq(S)
    PROVE  From(buf \o data, k) = From(buf, k) \o data
<1> DEFINE all == buf \o data
           a == From(all, k)
           b == From(buf, k) \o data
<1>1. /\ all \in Seq(S) /\ Len(all) = Len(buf) + Len(data)
      /\ \A i \in 1 .. Len(buf) : all[i] = buf[i]
      /\ \A i \in 1 .. Len(data) : all[Len(buf) + i] = data[i]
  OBVIOUS
<1> HIDE DEF all
<1>2. /\ a \in Seq(S) /\ Len(a) = Len(all) - k
      /\ \A i \in 1 .. Len(all) - k : a[i] = all[k + i]
  <2>1. k \in 0 .. Len(all)
    BY <1>1
  <2> QED
    BY <1>1, <2>1, FromIs
<1>3. /\ From(buf, k) \in Seq(S) /\ Len(From(buf, k)) = Len(buf) - k
      /\ \A i \in 1 .. Len(buf) - k : From(buf, k)[i] = buf[k + i]
  BY FromIs
<1> HIDE DEF a
<1>4. /\ b \in Seq(S) /\ Len(b) = (Len(buf) - k) + Len(data)
      /\ \A i \in 1 .. Len(buf) - k : b[i] = buf[k + i]
      /\ \A i \in 1 .. Len(data) : b[(Len(buf) - k) + i] = data[i]
  <2> DEFINE c == From(buf, k)
             n == Len(buf) - k
  <2>1. c \in Seq(S) /\ Len(c) = n /\ \A i \in 1 .. n : c[i] = buf[k + i]
    BY <1>3
  <2> HIDE DEF c, n
  <2>2. /\ c \o data \in Seq(S) /\ Len(c \o data) = Len(c) + Len(data)
        /\ \A i \in 1 .. Len(c) : (c \o data)[i] = c[i]
        /\ \A i \in 1 .. Len(data) : (c \o data)[Len(c) + i] = data[i]
    <3>1. c \in Seq(S) /\ data \in Seq(S)
      BY <2>1
    <3> QED
      BY <3>1
  <2> QED
    BY <2>1, <2>2 DEF c, n
<1> HIDE DEF b
<1>5. ASSUME NEW i \in 1 .. Len(a) PROVE a[i] = b[i]
  <2>1. CASE i <= Len(buf) - k
    BY <1>1, <1>2, <1>4, <2>1
  <2>2. CASE i > Len(buf) - k
    <3> DEFINE j == i - (Len(buf) - k)
    <3>1. j \in 1 .. Len(data) /\ k + i = Len(buf) + j /\ i = (Len(buf) - k) + j
      BY <1>1, <1>2, <2>2
    <3> HIDE DEF j
    <3>2. all[Len(buf) + j] = data[j] /\ b[(Len(buf) - k) + j] = data[j]
      BY <1>1, <1>4, <3>1
    <3>3. a[i] = all[k + i]
      BY <1>2
    <3> QED
      BY <3>1, <3>2, <3>3
  <2> QED
    BY <2>1, <2>2, <1>2
<1>6. a = b
  BY <1>1, <1>2, <1>4, <1>5, SameSeq
<1> QED
  BY <1>6 DEF a, b, all

\* A part of a buffer does not change when more bytes come.
LEMMA PartJoin ==
    ASSUME NEW S, NEW buf \in Seq(S), NEW data \in Seq(S),
           NEW m \in Nat \ {0}, NEW n \in Nat, n <= Len(buf)
    PROVE  SubSeq(buf \o data, m, n) = SubSeq(buf, m, n)
  OBVIOUS

\* A frame that can be sent.
SentFrame == {f \in AnyFrame : Len(f.payload) <= kMaxPayload}

Size(f) == kFrameOverhead + Len(f.payload)

LEMMA PackIs ==
    ASSUME NEW f \in SentFrame
    PROVE  LET plen == Len(f.payload)
               bytes == packFrame(f)
           IN  /\ plen \in Nat /\ plen <= kMaxPayload
               /\ bytes \in Seq(Byte) /\ Len(bytes) = 7 + plen
               /\ bytes[1] = kHead0 /\ bytes[2] = kHead1 /\ bytes[3] = f.type
               /\ bytes[4] = plen /\ bytes[5] = f.seq
               /\ SubSeq(bytes, 6, 5 + plen) = f.payload
               /\ SubSeq(bytes, 6 + plen, 7 + plen) = Checksum(SubSeq(bytes, 3, 5 + plen))
<1> DEFINE plen == Len(f.payload)
           front == <<f.type, plen, f.seq>>
           covered == front \o f.payload
           check == Checksum(covered)
           head == <<kHead0, kHead1>>
           body == head \o covered
           bytes == body \o check
<1>1. /\ f.type \in Byte /\ f.seq \in Byte /\ f.payload \in Seq(Byte)
      /\ plen \in Nat /\ plen <= kMaxPayload
  BY DEF SentFrame, AnyFrame
<1>2. plen \in Byte /\ kHead0 \in Byte /\ kHead1 \in Byte
  <2>1. plen \in Nat /\ plen <= kMaxPayload
    BY <1>1
  <2> HIDE DEF plen
  <2>2. plen \in 0 .. 255
    BY <2>1, CodecConstants
  <2> QED
    BY <2>2, CodecConstants
<1>3. front \in Seq(Byte) /\ Len(front) = 3
      /\ front[1] = f.type /\ front[2] = plen /\ front[3] = f.seq
  BY <1>1, <1>2
<1>4. head \in Seq(Byte) /\ Len(head) = 2 /\ head[1] = kHead0 /\ head[2] = kHead1
  BY <1>2
<1>5. packFrame(f) = bytes
  BY DEF packFrame
<1> HIDE DEF front, head
<1>6. /\ covered \in Seq(Byte) /\ Len(covered) = 3 + plen
      /\ \A i \in 1 .. 3 : covered[i] = front[i]
      /\ \A i \in 1 .. plen : covered[3 + i] = f.payload[i]
  <2>1. /\ covered \in Seq(Byte) /\ Len(covered) = Len(front) + Len(f.payload)
        /\ \A i \in 1 .. Len(front) : covered[i] = front[i]
        /\ \A i \in 1 .. Len(f.payload) : covered[Len(front) + i] = f.payload[i]
    <3>1. front \in Seq(Byte) /\ f.payload \in Seq(Byte)
      BY <1>1, <1>3
    <3> QED
      BY <3>1
  <2> HIDE DEF covered
  <2> QED
    BY <1>3, <2>1
<1> HIDE DEF covered
<1>7. check \in Seq(Byte) /\ Len(check) = 2
  BY <1>6, ChecksumType
<1> HIDE DEF check
<1>8. /\ body \in Seq(Byte) /\ Len(body) = 5 + plen
      /\ body[1] = kHead0 /\ body[2] = kHead1
      /\ \A i \in 1 .. 3 + plen : body[2 + i] = covered[i]
  <2>1. /\ body \in Seq(Byte) /\ Len(body) = Len(head) + Len(covered)
        /\ \A i \in 1 .. Len(head) : body[i] = head[i]
        /\ \A i \in 1 .. Len(covered) : body[Len(head) + i] = covered[i]
    <3>1. head \in Seq(Byte) /\ covered \in Seq(Byte)
      BY <1>4, <1>6
    <3> QED
      BY <3>1
  <2> HIDE DEF body, plen
  <2> QED
    BY <1>1, <1>4, <1>6, <2>1
<1> HIDE DEF body
<1>9. /\ bytes \in Seq(Byte) /\ Len(bytes) = 7 + plen
      /\ \A i \in 1 .. 5 + plen : bytes[i] = body[i]
      /\ \A i \in 1 .. 2 : bytes[(5 + plen) + i] = check[i]
  <2>1. /\ bytes \in Seq(Byte) /\ Len(bytes) = Len(body) + Len(check)
        /\ \A i \in 1 .. Len(body) : bytes[i] = body[i]
        /\ \A i \in 1 .. Len(check) : bytes[Len(body) + i] = check[i]
    <3>1. body \in Seq(Byte) /\ check \in Seq(Byte)
      BY <1>7, <1>8
    <3> QED
      BY <3>1
  <2> HIDE DEF bytes, plen
  <2> QED
    BY <1>1, <1>7, <1>8, <2>1
<1> HIDE DEF bytes
<1>10. /\ bytes[1] = kHead0 /\ bytes[2] = kHead1 /\ bytes[3] = f.type
       /\ bytes[4] = plen /\ bytes[5] = f.seq
  <2>1. /\ bytes[1] = body[1] /\ bytes[2] = body[2] /\ bytes[3] = body[3]
        /\ bytes[4] = body[4] /\ bytes[5] = body[5]
    BY <1>1, <1>9
  <2>2. body[3] = covered[1] /\ body[4] = covered[2] /\ body[5] = covered[3]
    BY <1>1, <1>8
  <2> QED
    BY <1>3, <1>6, <1>8, <2>1, <2>2
<1>11. SubSeq(bytes, 6, 5 + plen) = f.payload
  <2> DEFINE s == SubSeq(bytes, 6, 5 + plen)
  <2>1. /\ s \in Seq(Byte) /\ Len(s) = plen
        /\ \A i \in 1 .. plen : s[i] = bytes[5 + i]
    BY <1>1, <1>9
  <2> HIDE DEF s
  <2>2. ASSUME NEW i \in 1 .. plen PROVE s[i] = f.payload[i]
    <3>1. bytes[5 + i] = body[5 + i]
      BY <1>1, <1>9
    <3>2. body[2 + (3 + i)] = covered[3 + i]
      BY <1>1, <1>8
    <3>3. 2 + (3 + i) = 5 + i
      OBVIOUS
    <3> QED
      BY <1>6, <2>1, <3>1, <3>2, <3>3
  <2>3. s = f.payload
    BY <1>1, <2>1, <2>2, SameSeq
  <2> QED
    BY <2>3 DEF s
<1>12. SubSeq(bytes, 3, 5 + plen) = covered
  <2> DEFINE s == SubSeq(bytes, 3, 5 + plen)
  <2>1. /\ s \in Seq(Byte) /\ Len(s) = 3 + plen
        /\ \A i \in 1 .. 3 + plen : s[i] = bytes[2 + i]
    BY <1>1, <1>9
  <2> HIDE DEF s
  <2>2. ASSUME NEW i \in 1 .. 3 + plen PROVE s[i] = covered[i]
    <3>1. bytes[2 + i] = body[2 + i]
      BY <1>1, <1>9
    <3> QED
      BY <1>8, <2>1, <3>1
  <2>3. s = covered
    BY <1>6, <2>1, <2>2, SameSeq
  <2> QED
    BY <2>3 DEF s
<1>13. SubSeq(bytes, 6 + plen, 7 + plen) = check
  <2> DEFINE s == SubSeq(bytes, 6 + plen, 7 + plen)
  <2>1. /\ s \in Seq(Byte) /\ Len(s) = 2
        /\ \A i \in 1 .. 2 : s[i] = bytes[(5 + plen) + i]
    BY <1>1, <1>9
  <2> HIDE DEF s
  <2>2. s = check
    BY <1>7, <1>9, <2>1, SameSeq
  <2> QED
    BY <2>2 DEF s
<1> QED
  BY <1>1, <1>5, <1>9, <1>10, <1>11, <1>12, <1>13 DEF check

-----------------------------------------------------------------------------
(* The bytes that are skipped in search of a header.                       *)

LEMMA MinIs ==
    ASSUME NEW S, S \subseteq Nat, S # {}
    PROVE  Min(S) \in S /\ \A x \in S : Min(S) <= x
<1> DEFINE R == OpToRel(<, Nat)
<1>1. IsWellFoundedOn(R, Nat)
  BY NatLessThanWellFounded, Zenon
<1>2. \A a, b \in Nat : a < b => <<a, b>> \in R
  BY DEF OpToRel
<1> HIDE DEF R
<1>3. PICK m \in S : \A y \in S : <<y, m>> \notin R
  BY <1>1, WFMin
<1>4. ASSUME NEW y \in S PROVE m <= y
  <2>1. m \in Nat /\ y \in Nat
    OBVIOUS
  <2>2. ~(y < m)
    BY <1>2, <1>3, <2>1
  <2> QED
    BY <2>1, <2>2
<1> QED
  BY <1>3, <1>4 DEF Min

\* A header begins with byte i.
HeadAt(buf, i) == i \in 1 .. Len(buf) - 1 /\ buf[i] = kHead0 /\ buf[i + 1] = kHead1

\* The buffer may end within a header.
HalfHead(buf) == buf # <<>> /\ buf[Len(buf)] = kHead0

\* The first k bytes are those in front of the first header, or all but a byte
\* that may begin one.
SkipIs(buf, k) ==
    /\ k \in 0 .. Len(buf)
    /\ \A i \in 1 .. k : ~HeadAt(buf, i)
    /\ \/ HeadAt(buf, k + 1)
       \/ k = Len(buf) /\ ~HalfHead(buf)
       \/ k = Len(buf) - 1 /\ HalfHead(buf)

Skip(buf) ==
    IF Headers(buf) # {} THEN Min(Headers(buf)) - 1
    ELSE IF HalfHead(buf) THEN Len(buf) - 1 ELSE Len(buf)

LEMMA HeadersIs ==
    ASSUME NEW buf \in Seq(Byte)
    PROVE  Headers(buf) = {i \in Nat : HeadAt(buf, i)}
  BY DEF Headers, HeadAt

LEMMA SkipFound ==
    ASSUME NEW buf \in Seq(Byte)
    PROVE  /\ SkipIs(buf, Skip(buf))
           /\ Headers(buf) # {} <=> HeadAt(buf, Skip(buf) + 1)
<1> DEFINE heads == Headers(buf)
           n == Len(buf)
<1>1. n \in Nat /\ (HalfHead(buf) => n # 0)
  BY DEF HalfHead
<1>2. heads = {i \in Nat : HeadAt(buf, i)}
  BY HeadersIs
<1>3. CASE heads # {}
  <2> DEFINE m == Min(heads)
  <2>1. m \in heads /\ \A x \in heads : m <= x
    BY <1>2, <1>3, MinIs
  <2> HIDE DEF m, heads
  <2>2. m \in Nat /\ HeadAt(buf, m)
    BY <1>2, <2>1
  <2>3. m \in 1 .. n - 1
    BY <2>2 DEF HeadAt
  <2>4. Skip(buf) = m - 1
    BY <1>3 DEF Skip, m, heads
  <2>5. \A i \in 1 .. m - 1 : ~HeadAt(buf, i)
    BY <1>2, <2>1, <2>3
  <2>6. m - 1 \in 0 .. n /\ (m - 1) + 1 = m
    BY <1>1, <2>3
  <2> QED
    BY <1>3, <2>2, <2>4, <2>5, <2>6 DEF SkipIs, heads
<1>4. CASE heads = {}
  <2>1. \A i \in Nat : ~HeadAt(buf, i)
    BY <1>2, <1>4
  <2>2. Skip(buf) = IF HalfHead(buf) THEN n - 1 ELSE n
    BY <1>4 DEF Skip
  <2>3. Skip(buf) \in 0 .. n
    BY <1>1, <2>2
  <2> QED
    BY <1>1, <1>4, <2>1, <2>2, <2>3 DEF SkipIs
<1> QED
  BY <1>3, <1>4

LEMMA SkipUnique ==
    ASSUME NEW buf \in Seq(Byte), NEW k, SkipIs(buf, k), NEW m, SkipIs(buf, m)
    PROVE  k = m
<1> DEFINE n == Len(buf)
<1>1. n \in Nat /\ k \in 0 .. n /\ m \in 0 .. n
  BY DEF SkipIs
<1>2. ASSUME NEW x \in 0 .. n, NEW y \in 0 .. n, SkipIs(buf, x), SkipIs(buf, y), x < y
      PROVE  FALSE
  <2>1. x + 1 \in 1 .. y
    BY <1>2, <1>1
  <2>2. ~HeadAt(buf, x + 1)
    BY <1>2, <2>1 DEF SkipIs
  <2>3. x = n - 1 /\ y = n /\ HalfHead(buf)
    BY <1>1, <1>2, <2>2 DEF SkipIs
  <2>4. ~HeadAt(buf, y + 1)
    BY <1>1, <2>3 DEF HeadAt
  <2> QED
    BY <1>1, <1>2, <2>3, <2>4 DEF SkipIs
<1> QED
  BY <1>1, <1>2

-----------------------------------------------------------------------------
(* One round.                                                              *)

AnyParser ==
    [buf : Seq(Byte), frames : Nat, crcErr : Nat, drop : Nat, out : Seq(AnyFrame)]

LEMMA DroppedIs ==
    ASSUME NEW p \in AnyParser, NEW n \in 0 .. Len(p.buf), NEW c \in Nat
    PROVE  /\ Dropped(p, n, c) \in AnyParser
           /\ Dropped(p, n, c).buf = From(p.buf, n)
           /\ Dropped(p, n, c).drop = p.drop + c
           /\ Dropped(p, n, c).frames = p.frames
           /\ Dropped(p, n, c).crcErr = p.crcErr
           /\ Dropped(p, n, c).out = p.out
<1>1. From(p.buf, n) \in Seq(Byte)
  BY FromIs DEF AnyParser
<1>2. p.drop + c \in Nat
  BY DEF AnyParser
<1>3. Dropped(p, n, c) = [p EXCEPT !.buf = From(p.buf, n), !.drop = p.drop + c]
  BY DEF Dropped, From, AnyParser
<1> QED
  BY <1>1, <1>2, <1>3 DEF AnyParser

LEMMA SameParser ==
    ASSUME NEW p \in AnyParser, NEW q \in AnyParser,
           p.buf = q.buf, p.frames = q.frames, p.crcErr = q.crcErr, p.drop = q.drop,
           p.out = q.out
    PROVE  p = q
  BY DEF AnyParser

\* What the front of a buffer is: a false header, or a whole frame with a good
\* checksum or not.
TooLongAt(buf) == Len(buf) >= 5 /\ buf[4] > kMaxPayload

Whole(buf) == Len(buf) >= 5 /\ buf[4] <= kMaxPayload /\ Len(buf) >= 7 + buf[4]

Sound(buf) ==
    SubSeq(buf, 6 + buf[4], 7 + buf[4]) = Checksum(SubSeq(buf, 3, 5 + buf[4]))

FrameOf(buf) ==
    [type |-> buf[3], seq |-> buf[5], payload |-> SubSeq(buf, 6, 5 + buf[4])]

LEMMA FrameOfType ==
    ASSUME NEW buf \in Seq(Byte), Whole(buf)
    PROVE  FrameOf(buf) \in AnyFrame /\ buf[4] \in Nat /\ 7 + buf[4] \in 1 .. Len(buf)
<1> DEFINE n == buf[4]
<1>1. n \in Byte /\ buf[3] \in Byte /\ buf[5] \in Byte /\ Len(buf) \in Nat
  <2>1. Len(buf) \in Nat /\ Len(buf) >= 5
    BY DEF Whole
  <2> QED
    BY <2>1
<1> HIDE DEF n
<1>2. n \in Nat
  BY <1>1, ByteIs
<1>3. 7 + n <= Len(buf)
  BY DEF Whole, n
<1>4. SubSeq(buf, 6, 5 + n) \in Seq(Byte)
  BY <1>1, <1>2, <1>3
<1> QED
  BY <1>1, <1>2, <1>3, <1>4 DEF FrameOf, AnyFrame, n

\* The parser after the frame at the front of its buffer was taken.
AfterFrame(p) ==
    IF Sound(p.buf)
    THEN [buf |-> From(p.buf, 7 + p.buf[4]), frames |-> p.frames + 1,
          crcErr |-> p.crcErr, drop |-> p.drop, out |-> Append(p.out, FrameOf(p.buf))]
    ELSE [buf |-> From(p.buf, 7 + p.buf[4]), frames |-> p.frames,
          crcErr |-> p.crcErr + 1, drop |-> p.drop, out |-> p.out]

LEMMA AfterFrameIs ==
    ASSUME NEW p \in AnyParser, Whole(p.buf)
    PROVE  /\ AfterFrame(p) \in AnyParser
           /\ TakeFrame(p, p.buf[4]) = AfterFrame(p)
<1> DEFINE n == 7 + p.buf[4]
           rest == Dropped(p, n, 0)
           good == Append(p.out, FrameOf(p.buf))
<1>0. /\ p.buf \in Seq(Byte) /\ p.out \in Seq(AnyFrame) /\ Len(p.buf) \in Nat
      /\ p.frames \in Nat /\ p.crcErr \in Nat /\ p.drop \in Nat
  BY DEF AnyParser
<1>1. n \in 0 .. Len(p.buf) /\ FrameOf(p.buf) \in AnyFrame /\ p.buf[4] \in Nat
  <2>1. FrameOf(p.buf) \in AnyFrame /\ p.buf[4] \in Nat /\ n \in 1 .. Len(p.buf)
    BY <1>0, FrameOfType
  <2> HIDE DEF n
  <2>2. n \in 0 .. Len(p.buf)
    BY <1>0, <2>1
  <2> QED
    BY <2>1, <2>2
<1>2. /\ rest \in AnyParser /\ rest.buf = From(p.buf, n) /\ rest.drop = p.drop
      /\ rest.frames = p.frames /\ rest.crcErr = p.crcErr /\ rest.out = p.out
  <2>1. p.drop + 0 = p.drop
    BY DEF AnyParser
  <2> QED
    BY <1>1, <2>1, DroppedIs
<1>3. good \in Seq(AnyFrame) /\ p.frames + 1 \in Nat /\ p.crcErr + 1 \in Nat
  <2> DEFINE f == FrameOf(p.buf)
  <2>1. f \in AnyFrame
    BY <1>1
  <2> HIDE DEF f
  <2>2. Append(p.out, f) \in Seq(AnyFrame)
    BY <1>0, <2>1
  <2>3. p.frames + 1 \in Nat /\ p.crcErr + 1 \in Nat
    BY <1>0
  <2> QED
    BY <2>2, <2>3 DEF f
<1>4. TakeFrame(p, p.buf[4]) =
         IF Sound(p.buf)
         THEN [rest EXCEPT !.frames = @ + 1, !.out = Append(@, FrameOf(p.buf))]
         ELSE [rest EXCEPT !.crcErr = @ + 1]
  BY DEF TakeFrame, Sound, FrameOf, kFrameOverhead
<1>5. TakeFrame(p, p.buf[4]) =
         IF Sound(p.buf) THEN [rest EXCEPT !.frames = p.frames + 1, !.out = good]
         ELSE [rest EXCEPT !.crcErr = p.crcErr + 1]
  <2> HIDE DEF rest
  <2> QED
    BY <1>2, <1>4 DEF AnyParser
<1> HIDE DEF rest, good, n
<1>6. rest = [buf |-> From(p.buf, n), frames |-> p.frames, crcErr |-> p.crcErr,
              drop |-> p.drop, out |-> p.out]
  BY <1>2 DEF AnyParser
<1>7. CASE Sound(p.buf)
  <2>1. AfterFrame(p) = [buf |-> From(p.buf, n), frames |-> p.frames + 1,
                    crcErr |-> p.crcErr, drop |-> p.drop, out |-> good]
    BY <1>7 DEF AfterFrame, n, good
  <2>2. TakeFrame(p, p.buf[4]) = AfterFrame(p)
    BY <1>5, <1>6, <1>7, <2>1
  <2>3. AfterFrame(p) \in AnyParser
    <3>1. From(p.buf, n) \in Seq(Byte)
      BY <1>2 DEF AnyParser
    <3> QED
      BY <1>0, <1>3, <2>1, <3>1 DEF AnyParser
  <2> QED
    BY <2>2, <2>3
<1>8. CASE ~Sound(p.buf)
  <2>1. AfterFrame(p) = [buf |-> From(p.buf, n), frames |-> p.frames,
                    crcErr |-> p.crcErr + 1, drop |-> p.drop, out |-> p.out]
    BY <1>8 DEF AfterFrame, n
  <2>2. TakeFrame(p, p.buf[4]) = AfterFrame(p)
    BY <1>5, <1>6, <1>8, <2>1
  <2>3. AfterFrame(p) \in AnyParser
    <3>1. From(p.buf, n) \in Seq(Byte)
      BY <1>2 DEF AnyParser
    <3> QED
      BY <1>0, <1>3, <2>1, <3>1 DEF AnyParser
  <2> QED
    BY <2>2, <2>3
<1> QED
  BY <1>7, <1>8

\* What a round does with a header at the front.
LEMMA AtHeaderIs ==
    ASSUME NEW p \in AnyParser
    PROVE  /\ TooLongAt(p.buf) => AtHeader(p) = Dropped(p, 2, 1)
           /\ Whole(p.buf) => AtHeader(p) = AfterFrame(p)
           /\ ~TooLongAt(p.buf) /\ ~Whole(p.buf) => AtHeader(p) = p
<1>1. Len(p.buf) \in Nat /\ p.buf \in Seq(Byte)
  BY DEF AnyParser
<1>2. Len(p.buf) >= 5 => p.buf[4] \in Nat
  <2>1. Len(p.buf) >= 5 => p.buf[4] \in Byte
    BY <1>1
  <2> QED
    BY <2>1, ByteIs
<1>3. AtHeader(p) = IF Len(p.buf) < 5 THEN p
                    ELSE IF p.buf[4] > kMaxPayload THEN Dropped(p, 2, 1)
                    ELSE IF Len(p.buf) < 7 + p.buf[4] THEN p
                    ELSE TakeFrame(p, p.buf[4])
  BY DEF AtHeader, TooLong, kFrameOverhead
<1>4. kMaxPayload \in Nat
  BY CodecConstants
<1>5. CASE Len(p.buf) < 5
  <2>1. ~TooLongAt(p.buf) /\ ~Whole(p.buf)
    BY <1>1, <1>5 DEF TooLongAt, Whole
  <2> QED
    BY <1>3, <1>5, <2>1
<1>6. CASE TooLongAt(p.buf)
  <2>1. Len(p.buf) >= 5 /\ p.buf[4] > kMaxPayload /\ ~(Len(p.buf) < 5)
    BY <1>1, <1>6 DEF TooLongAt
  <2>2. ~Whole(p.buf)
    BY <1>2, <1>4, <2>1 DEF Whole
  <2> QED
    BY <1>3, <1>6, <2>1, <2>2
<1>7. CASE Whole(p.buf)
  <2>1. ~(Len(p.buf) < 5) /\ ~(p.buf[4] > kMaxPayload) /\ ~(Len(p.buf) < 7 + p.buf[4])
    BY <1>1, <1>2, <1>4, <1>7 DEF Whole
  <2>2. ~TooLongAt(p.buf)
    BY <2>1 DEF TooLongAt
  <2> QED
    BY <1>3, <1>7, <2>1, <2>2, AfterFrameIs
<1>8. CASE Len(p.buf) >= 5 /\ ~TooLongAt(p.buf) /\ ~Whole(p.buf)
  <2>1. ~(Len(p.buf) < 5) /\ ~(p.buf[4] > kMaxPayload) /\ Len(p.buf) < 7 + p.buf[4]
    BY <1>1, <1>2, <1>4, <1>8 DEF TooLongAt, Whole
  <2> QED
    BY <1>3, <1>8, <2>1
<1> QED
  BY <1>1, <1>5, <1>6, <1>7, <1>8

\* The parser without the bytes in front of the first header.
Skipped(p) == Dropped(p, Skip(p.buf), Skip(p.buf))

LEMMA SkippedIs ==
    ASSUME NEW p \in AnyParser
    PROVE  /\ Skip(p.buf) \in 0 .. Len(p.buf)
           /\ Skipped(p) \in AnyParser
           /\ Skipped(p).buf = From(p.buf, Skip(p.buf))
           /\ Skipped(p).drop = p.drop + Skip(p.buf)
           /\ Skipped(p).frames = p.frames
           /\ Skipped(p).crcErr = p.crcErr
           /\ Skipped(p).out = p.out
<1>1. p.buf \in Seq(Byte)
  BY DEF AnyParser
<1>2. Skip(p.buf) \in 0 .. Len(p.buf)
  BY <1>1, SkipFound DEF SkipIs
<1>3. Skip(p.buf) \in Nat
  BY <1>2
<1> QED
  BY <1>2, <1>3, DroppedIs DEF Skipped

\* A round skips what is in front of a header and looks at the header; without
\* a header, one byte at most is left.
LEMMA RoundIs ==
    ASSUME NEW p \in AnyParser
    PROVE  Round(p) = AtHeader(Skipped(p))
<1> DEFINE heads == Headers(p.buf)
           k == Skip(p.buf)
<1>1. p.buf \in Seq(Byte) /\ Len(p.buf) \in Nat
  BY DEF AnyParser
<1>2. CASE heads # {}
  BY <1>2 DEF Round, Skipped, Skip
<1>3. CASE heads = {}
  <2>1. p.buf # <<>> => Last(p.buf) = p.buf[Len(p.buf)]
    BY DEF Last
  <2>2. k = Len(p.buf) - (IF HalfHead(p.buf) THEN 1 ELSE 0)
    BY <1>1, <1>3 DEF Skip
  <2>3. WithoutHeader(p) = Skipped(p)
    <3>1. CASE HalfHead(p.buf)
      BY <2>1, <2>2, <3>1 DEF WithoutHeader, Skipped, HalfHead
    <3>2. CASE ~HalfHead(p.buf)
      BY <2>1, <2>2, <3>2 DEF WithoutHeader, Skipped, HalfHead
    <3> QED
      BY <3>1, <3>2
  <2>4. Len(Skipped(p).buf) = Len(p.buf) - k
    BY <1>1, SkippedIs, FromIs
  <2>5. Len(Skipped(p).buf) < 5
    BY <1>1, <2>2, <2>4
  <2>6. AtHeader(Skipped(p)) = Skipped(p)
    BY <2>5 DEF AtHeader
  <2>7. Round(p) = WithoutHeader(p)
    BY <1>3 DEF Round
  <2> QED
    BY <2>3, <2>6, <2>7
<1> QED
  BY <1>2, <1>3

-----------------------------------------------------------------------------
(* Bytes that come later.                                                  *)

LEMMA HeadFrom ==
    ASSUME NEW buf \in Seq(Byte), NEW k \in 0 .. Len(buf), NEW i \in Nat \ {0}
    PROVE  HeadAt(From(buf, k), i) <=> HeadAt(buf, k + i)
<1> DEFINE a == From(buf, k)
           n == Len(buf)
<1>1. n \in Nat /\ Len(a) = n - k /\ \A j \in 1 .. n - k : a[j] = buf[k + j]
  <2>1. n \in Nat
    OBVIOUS
  <2> QED
    BY <2>1, FromIs
<1>2. k + (i + 1) = (k + i) + 1
  OBVIOUS
<1> HIDE DEF a
<1>3. ASSUME i \in 1 .. (n - k) - 1 PROVE HeadAt(a, i) <=> HeadAt(buf, k + i)
  <2>1. i \in 1 .. n - k /\ i + 1 \in 1 .. n - k /\ k + i \in 1 .. n - 1
    BY <1>1, <1>3
  <2> DEFINE j == i + 1
  <2>2. a[i] = buf[k + i] /\ a[j] = buf[k + j]
    BY <1>1, <2>1
  <2>3. k + j = (k + i) + 1
    BY <1>2
  <2> QED
    BY <1>1, <1>3, <2>1, <2>2, <2>3 DEF HeadAt
<1>4. ASSUME i \notin 1 .. (n - k) - 1 PROVE HeadAt(a, i) <=> HeadAt(buf, k + i)
  <2>1. k + i \notin 1 .. n - 1
    BY <1>1, <1>4
  <2> QED
    BY <1>1, <1>4, <2>1 DEF HeadAt
<1> QED
  BY <1>3, <1>4 DEF a

LEMMA HalfFrom ==
    ASSUME NEW buf \in Seq(Byte), NEW k \in Nat, k < Len(buf)
    PROVE  HalfHead(From(buf, k)) <=> HalfHead(buf)
<1> DEFINE a == From(buf, k)
           n == Len(buf)
<1>1. /\ n \in Nat /\ k \in 0 .. n /\ a \in Seq(Byte)
      /\ Len(a) = n - k /\ \A j \in 1 .. n - k : a[j] = buf[k + j]
  <2>1. n \in Nat /\ k \in 0 .. n
    OBVIOUS
  <2> QED
    BY <2>1, FromIs
<1> HIDE DEF a
<1> DEFINE m == n - k
<1>2. m \in 1 .. n - k /\ k + m = n
  BY <1>1
<1>3. a[m] = buf[n]
  BY <1>1, <1>2
<1>4. a # <<>> /\ buf # <<>>
  BY <1>1, <1>2
<1> QED
  BY <1>1, <1>3, <1>4 DEF HalfHead, a

\* What is skipped at once is skipped in two steps.
LEMMA SkipJoin ==
    ASSUME NEW buf \in Seq(Byte), NEW data \in Seq(Byte)
    PROVE  Skip(buf \o data) = Skip(buf) + Skip(From(buf, Skip(buf)) \o data)
<1> DEFINE k == Skip(buf)
           all == buf \o data
           rest == From(all, k)
           m == Skip(rest)
           n == Len(buf)
<1>1. SkipIs(buf, k) /\ n \in Nat /\ Len(data) \in Nat
  BY SkipFound
<1>2. k \in 0 .. n /\ \A i \in 1 .. k : ~HeadAt(buf, i)
  BY <1>1 DEF SkipIs
<1>3. rest = From(buf, k) \o data
  BY <1>2, FromJoin
<1>4. /\ all \in Seq(Byte) /\ Len(all) = n + Len(data)
      /\ \A i \in 1 .. n : all[i] = buf[i]
  OBVIOUS
<1> HIDE DEF k, all, n
<1>5. k \in 0 .. Len(all)
  BY <1>1, <1>2, <1>4
<1>6. /\ rest \in Seq(Byte) /\ Len(rest) = Len(all) - k
  BY <1>4, <1>5, FromIs
<1>7. \A i \in Nat \ {0} : HeadAt(rest, i) <=> HeadAt(all, k + i)
  BY <1>4, <1>5, HeadFrom
<1>8. k < Len(all) => (HalfHead(rest) <=> HalfHead(all))
  BY <1>2, <1>4, HalfFrom
<1> HIDE DEF rest
<1>9. SkipIs(rest, m)
  BY <1>6, SkipFound
<1> HIDE DEF m
<1> DEFINE a == Len(all)
           r == Len(rest)
<1>10. m \in 0 .. r /\ k + m \in 0 .. a /\ k \in 0 .. a /\ a \in Nat /\ r = a - k
  <2>1. m \in 0 .. r
    BY <1>9 DEF SkipIs
  <2>2. a \in Nat
    BY <1>4
  <2>3. k \in 0 .. a /\ r = a - k
    BY <1>5, <1>6
  <2> HIDE DEF a, r
  <2> QED
    BY <2>1, <2>2, <2>3
<1>11. ASSUME NEW i \in 1 .. k + m PROVE ~HeadAt(all, i)
  <2>1. CASE i > k
    <3> DEFINE j == i - k
    <3>1. j \in 1 .. m /\ j \in Nat \ {0} /\ i = k + j
      BY <1>2, <1>10, <2>1
    <3>2. ~HeadAt(rest, j)
      BY <1>9, <3>1 DEF SkipIs
    <3> QED
      BY <1>7, <3>1, <3>2
  <2>2. CASE i <= k /\ i < n
    <3> DEFINE j == i + 1
    <3>1. i \in 1 .. k /\ i \in 1 .. n /\ j \in 1 .. n /\ i \in 1 .. n - 1
      BY <1>1, <1>2, <2>2
    <3>2. ~HeadAt(buf, i)
      BY <1>2, <3>1
    <3>3. all[i] = buf[i] /\ all[j] = buf[j]
      BY <1>4, <3>1
    <3> QED
      BY <3>1, <3>2, <3>3 DEF HeadAt, n
  <2>3. CASE i <= k /\ i = n
    <3>1. k = n /\ n # 0 /\ i \in 1 .. n
      BY <1>1, <1>2, <2>3
    <3>2. ~HeadAt(buf, k + 1)
      BY <1>1, <3>1 DEF HeadAt, n
    <3>3. ~HalfHead(buf)
      BY <1>1, <3>1, <3>2 DEF SkipIs, n
    <3>4. buf[n] # kHead0
      BY <3>1, <3>3 DEF HalfHead, n
    <3> QED
      BY <1>4, <2>3, <3>1, <3>4 DEF HeadAt
  <2> QED
    BY <1>1, <1>2, <1>10, <2>1, <2>2, <2>3
<1>12. SkipIs(all, k + m)
  <2>1. CASE HeadAt(rest, m + 1)
    <3> DEFINE j == m + 1
    <3>1. j \in Nat \ {0} /\ k + j = (k + m) + 1
      BY <1>2, <1>10
    <3>2. HeadAt(all, k + j)
      BY <1>7, <2>1, <3>1
    <3> QED
      BY <1>10, <1>11, <3>1, <3>2 DEF SkipIs
  <2>2. CASE m = Len(rest) /\ ~HalfHead(rest) /\ ~HeadAt(rest, m + 1)
    <3>1. k + m = a
      <4>1. m = r
        BY <2>2
      <4> HIDE DEF a, r
      <4> QED
        BY <4>1, <1>10
    <3>2. CASE k < Len(all)
      BY <1>8, <1>10, <1>11, <2>2, <3>1, <3>2 DEF SkipIs
    <3>3. CASE k = Len(all)
      <4>1. k = n /\ Len(data) = 0
        BY <1>1, <1>2, <1>4, <3>3
      <4>2. all = buf
        BY <4>1 DEF all
      <4>3. m = 0 /\ k + m = k
        BY <1>2, <1>6, <1>10, <3>3, <1>4
      <4> QED
        BY <1>1, <4>2, <4>3
    <3> QED
      BY <1>5, <3>2, <3>3
  <2>3. CASE m = Len(rest) - 1 /\ HalfHead(rest)
    <3>1. k + m = a - 1 /\ k < a
      <4>1. m = r - 1
        BY <2>3
      <4> HIDE DEF a, r
      <4> QED
        BY <4>1, <1>10
    <3>2. HalfHead(all)
      BY <1>8, <2>3, <3>1
    <3> QED
      BY <1>10, <1>11, <3>1, <3>2 DEF SkipIs
  <2> QED
    BY <1>9, <2>1, <2>2, <2>3 DEF SkipIs
<1>13. SkipIs(all, Skip(all))
  BY <1>4, SkipFound
<1>14. Skip(all) = k + m
  BY <1>4, <1>12, <1>13, SkipUnique
<1> QED
  BY <1>3, <1>14 DEF k, m, all, rest

LEMMA ReceivedIs ==
    ASSUME NEW p \in AnyParser, NEW data \in Seq(Byte)
    PROVE  /\ Received(p, data) \in AnyParser
           /\ Received(p, data).buf = p.buf \o data
           /\ Received(p, data).drop = p.drop
           /\ Received(p, data).frames = p.frames
           /\ Received(p, data).crcErr = p.crcErr
           /\ Received(p, data).out = p.out
<1>1. p.buf \o data \in Seq(Byte)
  <2>1. p.buf \in Seq(Byte)
    BY DEF AnyParser
  <2> QED
    BY <2>1
<1> QED
  BY <1>1 DEF Received, AnyParser

LEMMA SkippedJoin ==
    ASSUME NEW p \in AnyParser, NEW data \in Seq(Byte)
    PROVE  Skipped(Received(p, data)) = Skipped(Received(Skipped(p), data))
<1> DEFINE k == Skip(p.buf)
           q == Skipped(p)
           r == Received(q, data)
           m == Skip(r.buf)
           all == Received(p, data)
           u == Skipped(all)
           v == Skipped(r)
<1>0. p.buf \in Seq(Byte) /\ p.drop \in Nat
  BY DEF AnyParser
<1>1. /\ q \in AnyParser /\ q.buf = From(p.buf, k) /\ q.drop = p.drop + k
      /\ q.frames = p.frames /\ q.crcErr = p.crcErr /\ q.out = p.out
      /\ k \in 0 .. Len(p.buf)
  BY SkippedIs
<1> HIDE DEF q
<1>2. /\ r \in AnyParser /\ r.buf = q.buf \o data /\ r.drop = q.drop
      /\ r.frames = q.frames /\ r.crcErr = q.crcErr /\ r.out = q.out
  BY <1>1, ReceivedIs
<1> HIDE DEF r
<1>3. /\ all \in AnyParser /\ all.buf = p.buf \o data /\ all.drop = p.drop
      /\ all.frames = p.frames /\ all.crcErr = p.crcErr /\ all.out = p.out
  BY ReceivedIs
<1> HIDE DEF all
<1>4. /\ u \in AnyParser /\ u.buf = From(all.buf, Skip(all.buf))
      /\ u.drop = all.drop + Skip(all.buf)
      /\ u.frames = all.frames /\ u.crcErr = all.crcErr /\ u.out = all.out
      /\ Skip(all.buf) \in 0 .. Len(all.buf)
  BY <1>3, SkippedIs
<1>5. /\ v \in AnyParser /\ v.buf = From(r.buf, m) /\ v.drop = r.drop + m
      /\ v.frames = r.frames /\ v.crcErr = r.crcErr /\ v.out = r.out
      /\ m \in 0 .. Len(r.buf)
  BY <1>2, SkippedIs
<1> HIDE DEF u, v
<1>6. Skip(all.buf) = k + m
  BY <1>0, <1>1, <1>2, <1>3, SkipJoin
<1>7. r.buf = From(all.buf, k)
  <2>1. From(p.buf \o data, k) = From(p.buf, k) \o data
    BY <1>0, <1>1, FromJoin
  <2> QED
    BY <1>1, <1>2, <1>3, <2>1
<1>8. v.buf = u.buf
  <2>1. all.buf \in Seq(Byte) /\ k \in Nat /\ m \in Nat /\ k + m <= Len(all.buf)
    BY <1>1, <1>3, <1>4, <1>5, <1>6 DEF AnyParser
  <2>2. From(From(all.buf, k), m) = From(all.buf, k + m)
    BY <2>1, FromFrom
  <2> QED
    BY <1>4, <1>5, <1>6, <1>7, <2>2
<1>9. v.drop = u.drop
  BY <1>0, <1>1, <1>2, <1>3, <1>4, <1>5, <1>6
<1>10. u = v
  <2>1. /\ v.buf = u.buf /\ v.drop = u.drop /\ v.frames = u.frames
        /\ v.crcErr = u.crcErr /\ v.out = u.out
    BY <1>1, <1>2, <1>3, <1>4, <1>5, <1>8, <1>9
  <2> QED
    BY <1>4, <1>5, <2>1, SameParser
<1> QED
  BY <1>10 DEF u, v, all, r, q

-----------------------------------------------------------------------------
(* A round with more bytes behind the buffer.                              *)

\* A round that finds enough to go on acts on a header.
Acts(p) == TooLongAt(Skipped(p).buf) \/ Whole(Skipped(p).buf)

LEMMA TooLongIs ==
    ASSUME NEW buf \in Seq(Byte), TooLongAt(buf) \/ Whole(buf)
    PROVE  5 <= Len(buf) /\ buf[4] \in Nat /\ Len(buf) \in Nat
<1>1. Len(buf) \in Nat /\ Len(buf) >= 5
  BY DEF TooLongAt, Whole
<1>2. buf[4] \in Byte
  BY <1>1
<1> QED
  BY <1>1, <1>2, ByteIs

\* The front of a buffer stays what it is.
LEMMA FrontJoin ==
    ASSUME NEW buf \in Seq(Byte), NEW data \in Seq(Byte)
    PROVE  /\ TooLongAt(buf) => TooLongAt(buf \o data)
           /\ Whole(buf) =>
                 /\ Whole(buf \o data)
                 /\ Sound(buf \o data) <=> Sound(buf)
                 /\ FrameOf(buf \o data) = FrameOf(buf)
                 /\ (buf \o data)[4] = buf[4]
<1> DEFINE all == buf \o data
           n == buf[4]
<1>1. /\ all \in Seq(Byte) /\ Len(all) = Len(buf) + Len(data)
      /\ Len(buf) \in Nat /\ Len(data) \in Nat
      /\ \A i \in 1 .. Len(buf) : all[i] = buf[i]
  OBVIOUS
<1>2. ASSUME Whole(buf)
      PROVE  /\ SubSeq(all, 6, 5 + n) = SubSeq(buf, 6, 5 + n)
             /\ SubSeq(all, 3, 5 + n) = SubSeq(buf, 3, 5 + n)
             /\ SubSeq(all, 6 + n, 7 + n) = SubSeq(buf, 6 + n, 7 + n)
  <2>1. n \in Nat /\ 7 + n <= Len(buf)
    BY <1>1, <1>2, TooLongIs DEF Whole
  <2> HIDE DEF n
  <2>2. /\ 5 + n \in Nat /\ 5 + n <= Len(buf) /\ 7 + n \in Nat
        /\ 6 + n \in Nat \ {0} /\ 6 \in Nat \ {0} /\ 3 \in Nat \ {0}
    BY <1>1, <2>1
  <2>3. SubSeq(buf \o data, 6, 5 + n) = SubSeq(buf, 6, 5 + n)
    BY <2>2, PartJoin, Zenon
  <2>4. SubSeq(buf \o data, 3, 5 + n) = SubSeq(buf, 3, 5 + n)
    BY <2>2, PartJoin, Zenon
  <2>5. SubSeq(buf \o data, 6 + n, 7 + n) = SubSeq(buf, 6 + n, 7 + n)
    BY <2>1, <2>2, PartJoin, Zenon
  <2> QED
    BY <2>3, <2>4, <2>5 DEF all
<1> HIDE DEF all
<1>3. ASSUME TooLongAt(buf) \/ Whole(buf)
      PROVE  all[3] = buf[3] /\ all[4] = buf[4] /\ all[5] = buf[5] /\ Len(all) >= 5
  BY <1>1, <1>3, TooLongIs
<1>4. ASSUME TooLongAt(buf) PROVE TooLongAt(all)
  BY <1>3, <1>4 DEF TooLongAt
<1>5. ASSUME Whole(buf) PROVE Whole(all) /\ all[4] = buf[4]
  <2>1. n \in Nat /\ Len(buf) >= 7 + n /\ n <= kMaxPayload /\ all[4] = n
    BY <1>3, <1>5, TooLongIs DEF Whole
  <2> HIDE DEF n
  <2>2. Len(all) >= 7 + n
    BY <1>1, <2>1
  <2> QED
    BY <1>3, <1>5, <2>1, <2>2 DEF Whole
<1>6. ASSUME Whole(buf) PROVE (Sound(all) <=> Sound(buf)) /\ FrameOf(all) = FrameOf(buf)
  <2>1. all[4] = n /\ all[3] = buf[3] /\ all[5] = buf[5]
    BY <1>3, <1>6
  <2> QED
    BY <1>2, <1>6, <2>1 DEF Sound, FrameOf
<1> QED
  BY <1>4, <1>5, <1>6 DEF all

LEMMA AtHeaderJoin ==
    ASSUME NEW p \in AnyParser, NEW data \in Seq(Byte), TooLongAt(p.buf) \/ Whole(p.buf)
    PROVE  AtHeader(Received(p, data)) = Received(AtHeader(p), data)
<1> DEFINE r == Received(p, data)
<1>0. p.buf \in Seq(Byte) /\ 5 <= Len(p.buf) /\ p.buf[4] \in Nat /\ Len(p.buf) \in Nat
  <2>1. p.buf \in Seq(Byte)
    BY DEF AnyParser
  <2> QED
    BY <2>1, TooLongIs
<1>1. /\ r \in AnyParser /\ r.buf = p.buf \o data /\ r.drop = p.drop
      /\ r.frames = p.frames /\ r.crcErr = p.crcErr /\ r.out = p.out
  BY ReceivedIs
<1> HIDE DEF r
<1>2. CASE TooLongAt(p.buf)
  <2> DEFINE q == Dropped(p, 2, 1)
             t == Dropped(r, 2, 1)
             u == Received(q, data)
  <2>1. 2 \in 0 .. Len(p.buf) /\ 2 \in 0 .. Len(r.buf) /\ 1 \in Nat
    BY <1>0, <1>1
  <2>2. AtHeader(p) = q /\ AtHeader(r) = t
    BY <1>0, <1>1, <1>2, AtHeaderIs, FrontJoin
  <2>3. /\ q \in AnyParser /\ q.buf = From(p.buf, 2) /\ q.drop = p.drop + 1
        /\ q.frames = p.frames /\ q.crcErr = p.crcErr /\ q.out = p.out
    BY <2>1, DroppedIs, Zenon
  <2>4. /\ t \in AnyParser /\ t.buf = From(r.buf, 2) /\ t.drop = r.drop + 1
        /\ t.frames = r.frames /\ t.crcErr = r.crcErr /\ t.out = r.out
    BY <1>1, <2>1, DroppedIs, Zenon
  <2> HIDE DEF q, t
  <2>5. /\ u \in AnyParser /\ u.buf = q.buf \o data /\ u.drop = q.drop
        /\ u.frames = q.frames /\ u.crcErr = q.crcErr /\ u.out = q.out
    BY <2>3, ReceivedIs
  <2> HIDE DEF u
  <2>6. From(p.buf \o data, 2) = From(p.buf, 2) \o data
    BY <1>0, <2>1, FromJoin, Zenon
  <2>7. /\ t.buf = u.buf /\ t.drop = u.drop /\ t.frames = u.frames
        /\ t.crcErr = u.crcErr /\ t.out = u.out
    BY <1>1, <2>3, <2>4, <2>5, <2>6
  <2>8. t = u
    BY <2>4, <2>5, <2>7, SameParser
  <2> QED
    BY <2>2, <2>8 DEF u, r
<1>3. CASE Whole(p.buf)
  <2> DEFINE q == AfterFrame(p)
             t == AfterFrame(r)
             u == Received(q, data)
             n == 7 + p.buf[4]
             b == From(p.buf, n)
             c == From(r.buf, n)
             f == FrameOf(p.buf)
  <2>1. /\ Whole(r.buf) /\ (Sound(r.buf) <=> Sound(p.buf))
        /\ FrameOf(r.buf) = f /\ r.buf[4] = p.buf[4]
    BY <1>0, <1>1, <1>3, FrontJoin
  <2>2. AtHeader(p) = q /\ AtHeader(r) = t /\ q \in AnyParser /\ t \in AnyParser
    BY <1>0, <1>1, <1>3, <2>1, AtHeaderIs, AfterFrameIs
  <2>3. n \in 0 .. Len(p.buf)
    <3>1. n \in 1 .. Len(p.buf)
      BY <1>0, <1>3, FrameOfType
    <3> QED
      BY <1>0, <3>1
  <2>4. c = b \o data
    BY <1>0, <1>1, <2>3, FromJoin
  <2>5. IF Sound(p.buf)
        THEN q = [buf |-> b, frames |-> p.frames + 1, crcErr |-> p.crcErr,
                  drop |-> p.drop, out |-> Append(p.out, f)]
        ELSE q = [buf |-> b, frames |-> p.frames, crcErr |-> p.crcErr + 1,
                  drop |-> p.drop, out |-> p.out]
    BY DEF AfterFrame
  <2>6. IF Sound(p.buf)
        THEN t = [buf |-> c, frames |-> p.frames + 1, crcErr |-> p.crcErr,
                  drop |-> p.drop, out |-> Append(p.out, f)]
        ELSE t = [buf |-> c, frames |-> p.frames, crcErr |-> p.crcErr + 1,
                  drop |-> p.drop, out |-> p.out]
    BY <1>1, <2>1 DEF AfterFrame
  <2> HIDE DEF q, t, b, c, f
  <2>7. /\ u \in AnyParser /\ u.buf = q.buf \o data /\ u.drop = q.drop
        /\ u.frames = q.frames /\ u.crcErr = q.crcErr /\ u.out = q.out
    BY <2>2, ReceivedIs
  <2> HIDE DEF u
  <2>8. /\ t.buf = u.buf /\ t.drop = u.drop /\ t.frames = u.frames
        /\ t.crcErr = u.crcErr /\ t.out = u.out
    <3>1. CASE Sound(p.buf)
      <4>1. q = [buf |-> b, frames |-> p.frames + 1, crcErr |-> p.crcErr,
                 drop |-> p.drop, out |-> Append(p.out, f)]
        BY <2>5, <3>1
      <4>2. t = [buf |-> c, frames |-> p.frames + 1, crcErr |-> p.crcErr,
                 drop |-> p.drop, out |-> Append(p.out, f)]
        BY <2>6, <3>1
      <4> QED
        BY <2>4, <2>7, <4>1, <4>2, Zenon
    <3>2. CASE ~Sound(p.buf)
      <4>1. q = [buf |-> b, frames |-> p.frames, crcErr |-> p.crcErr + 1,
                 drop |-> p.drop, out |-> p.out]
        BY <2>5, <3>2
      <4>2. t = [buf |-> c, frames |-> p.frames, crcErr |-> p.crcErr + 1,
                 drop |-> p.drop, out |-> p.out]
        BY <2>6, <3>2
      <4> QED
        BY <2>4, <2>7, <4>1, <4>2, Zenon
    <3> QED
      BY <3>1, <3>2
  <2>9. t = u
    BY <2>2, <2>7, <2>8, SameParser
  <2> QED
    BY <2>2, <2>9 DEF u, r
<1> QED
  BY <1>2, <1>3

\* A skipped parser with more than a byte begins with a header.
LEMMA SkippedFront ==
    ASSUME NEW p \in AnyParser
    PROVE  LET q == Skipped(p)
           IN  /\ Len(q.buf) >= 2 => HeadAt(q.buf, 1)
               /\ Len(q.buf) = 1 => q.buf[1] = kHead0
<1> DEFINE q == Skipped(p)
           k == Skip(p.buf)
           n == Len(p.buf)
<1>1. p.buf \in Seq(Byte) /\ n \in Nat
  BY DEF AnyParser
<1>2. k \in 0 .. n /\ q.buf = From(p.buf, k) /\ q \in AnyParser
  BY SkippedIs
<1>3. Len(q.buf) = n - k /\ \A i \in 1 .. n - k : q.buf[i] = p.buf[k + i]
  BY <1>1, <1>2, FromIs
<1>4. SkipIs(p.buf, k)
  BY <1>1, SkipFound
<1> HIDE DEF q, k
<1>5. ASSUME Len(q.buf) >= 2 PROVE HeadAt(q.buf, 1)
  <2>1. k + 1 # n /\ k + 1 # n + 1
    BY <1>1, <1>2, <1>3, <1>5
  <2>2. HeadAt(p.buf, k + 1)
    BY <1>1, <1>2, <1>4, <2>1 DEF SkipIs
  <2> DEFINE j == 1
  <2>3. j \in Nat \ {0} /\ k + 1 = k + j /\ j = 1
    OBVIOUS
  <2> HIDE DEF j
  <2> QED
    BY <1>1, <1>2, <2>2, <2>3, HeadFrom
<1>6. ASSUME Len(q.buf) = 1 PROVE q.buf[1] = kHead0
  <2>1. k = n - 1 /\ k + 1 = n /\ n # 0
    <3>1. n - k = 1 /\ n \in Nat /\ k \in 0 .. n
      BY <1>1, <1>2, <1>3, <1>6
    <3> HIDE DEF n
    <3> QED
      BY <3>1
  <2>2. ~HeadAt(p.buf, k + 1)
    BY <1>1, <2>1 DEF HeadAt
  <2>3. HalfHead(p.buf)
    BY <1>1, <1>2, <1>4, <2>1, <2>2 DEF SkipIs
  <2>4. q.buf[1] = p.buf[k + 1]
    <3> DEFINE j == 1
    <3>1. j \in 1 .. n - k /\ k + j = k + 1
      BY <1>1, <1>2, <2>1
    <3> HIDE DEF j
    <3>2. q.buf[j] = p.buf[k + j]
      BY <1>3, <3>1
    <3> QED
      BY <3>1, <3>2 DEF j
  <2> QED
    BY <2>1, <2>3, <2>4 DEF HalfHead
<1> QED
  BY <1>5, <1>6 DEF q

\* Nothing is skipped in front of a header.
LEMMA SkipNone ==
    ASSUME NEW p \in AnyParser, HeadAt(p.buf, 1)
    PROVE  Skip(p.buf) = 0 /\ Skipped(p) = p
<1>1. p.buf \in Seq(Byte) /\ Len(p.buf) \in Nat /\ p.drop \in Nat
  BY DEF AnyParser
<1>2. SkipIs(p.buf, 0)
  BY <1>1 DEF SkipIs
<1>3. Skip(p.buf) = 0
  BY <1>1, <1>2, SkipFound, SkipUnique
<1>4. From(p.buf, 0) = p.buf
  BY <1>1 DEF From
<1>5. /\ Skipped(p) \in AnyParser /\ Skipped(p).buf = p.buf
      /\ Skipped(p).drop = p.drop /\ Skipped(p).frames = p.frames
      /\ Skipped(p).crcErr = p.crcErr /\ Skipped(p).out = p.out
  <2>1. p.drop + 0 = p.drop
    BY <1>1
  <2> QED
    BY <1>3, <1>4, <2>1, SkippedIs
<1> QED
  BY <1>3, <1>5, SameParser

-----------------------------------------------------------------------------
(* Rounds until the parser waits.                                          *)

\* A round acts on the header that is found, or only skips.
LEMMA RoundCases ==
    ASSUME NEW p \in AnyParser
    PROVE  LET q == Skipped(p)
           IN  /\ q \in AnyParser
               /\ TooLongAt(q.buf) => Round(p) = Dropped(q, 2, 1)
               /\ Whole(q.buf) => Round(p) = AfterFrame(q)
               /\ ~Acts(p) => Round(p) = q
               /\ Acts(p) => HeadAt(q.buf, 1) /\ Skipped(q) = q /\ 5 <= Len(q.buf)
<1> DEFINE q == Skipped(p)
<1>1. q \in AnyParser /\ Round(p) = AtHeader(q)
  BY SkippedIs, RoundIs
<1>2. q.buf \in Seq(Byte) /\ Len(q.buf) \in Nat
  BY <1>1 DEF AnyParser
<1>3. Len(q.buf) >= 2 => HeadAt(q.buf, 1)
  BY SkippedFront
<1>4. Acts(p) <=> TooLongAt(q.buf) \/ Whole(q.buf)
  BY DEF Acts
<1> HIDE DEF q
<1>5. ASSUME Acts(p) PROVE HeadAt(q.buf, 1) /\ Skipped(q) = q /\ 5 <= Len(q.buf)
  <2>1. 5 <= Len(q.buf)
    BY <1>2, <1>4, <1>5, TooLongIs
  <2>2. HeadAt(q.buf, 1)
    BY <1>2, <1>3, <2>1
  <2> QED
    BY <1>1, <2>1, <2>2, SkipNone
<1> QED
  BY <1>1, <1>4, <1>5, AtHeaderIs DEF q

LEMMA RoundType ==
    ASSUME NEW p \in AnyParser
    PROVE  /\ Round(p) \in AnyParser
           /\ Round(p) = p \/ Len(Round(p).buf) < Len(p.buf)
<1> DEFINE q == Skipped(p)
           k == Skip(p.buf)
           r == Round(p)
<1>1. p.buf \in Seq(Byte) /\ Len(p.buf) \in Nat
  BY DEF AnyParser
<1>2. /\ q \in AnyParser /\ k \in 0 .. Len(p.buf) /\ q.buf = From(p.buf, k)
  BY SkippedIs
<1>3. Len(q.buf) = Len(p.buf) - k /\ Len(q.buf) \in Nat /\ q.buf \in Seq(Byte)
  BY <1>1, <1>2, FromIs
<1>4. CASE TooLongAt(q.buf)
  <2>1. r = Dropped(q, 2, 1) /\ 5 <= Len(q.buf)
    BY <1>4, RoundCases DEF Acts
  <2>2. 2 \in 0 .. Len(q.buf) /\ 1 \in Nat
    BY <1>3, <2>1
  <2>3. Dropped(q, 2, 1) \in AnyParser /\ Dropped(q, 2, 1).buf = From(q.buf, 2)
    BY <1>2, <2>2, DroppedIs, Zenon
  <2>4. Len(From(q.buf, 2)) = Len(q.buf) - 2
    BY <1>3, <2>2, FromIs, Zenon
  <2>5. Len(r.buf) < Len(p.buf)
    <3> DEFINE x == Len(p.buf)
               y == Len(q.buf)
               z == Len(r.buf)
    <3>1. x \in Nat /\ y \in Nat /\ k \in 0 .. x /\ y = x - k /\ z = y - 2
      BY <1>1, <1>2, <1>3, <2>1, <2>3, <2>4
    <3> HIDE DEF x, y, z, k
    <3>2. z < x
      BY <3>1
    <3> QED
      BY <3>2 DEF x, z
  <2> QED
    BY <2>1, <2>3, <2>5
<1>5. CASE Whole(q.buf)
  <2> DEFINE n == 7 + q.buf[4]
  <2>1. r = AfterFrame(q) /\ r \in AnyParser
    BY <1>2, <1>5, RoundCases, AfterFrameIs
  <2>2. n \in 1 .. Len(q.buf)
    BY <1>3, <1>5, FrameOfType
  <2>3. r.buf = From(q.buf, n)
    BY <2>1 DEF AfterFrame
  <2> HIDE DEF n
  <2>4. n \in 0 .. Len(q.buf)
    BY <1>3, <2>2
  <2>5. Len(r.buf) = Len(q.buf) - n
    BY <1>3, <2>3, <2>4, FromIs
  <2>6. Len(r.buf) < Len(p.buf)
    BY <1>1, <1>2, <1>3, <2>2, <2>5
  <2> QED
    BY <2>1, <2>6
<1>6. CASE ~Acts(p)
  <2>1. r = q
    BY <1>6, RoundCases
  <2>2. CASE k = 0
    <3>1. From(p.buf, 0) = p.buf
      BY <1>1 DEF From
    <3>2. p.drop + 0 = p.drop
      BY DEF AnyParser
    <3>3. q = p
      BY <1>2, <2>2, <3>1, <3>2, SkippedIs, SameParser
    <3> QED
      BY <2>1, <3>3
  <2>3. CASE k # 0
    <3>1. Len(q.buf) < Len(p.buf)
      BY <1>1, <1>2, <1>3, <2>3
    <3> QED
      BY <1>2, <2>1, <3>1
  <2> QED
    BY <2>2, <2>3
<1> QED
  BY <1>4, <1>5, <1>6 DEF Acts

\* Bytes that come before a round or after it: nothing is lost by waiting.
LEMMA RoundJoin ==
    ASSUME NEW p \in AnyParser, NEW data \in Seq(Byte)
    PROVE  \/ Round(Received(p, data)) = Received(Round(p), data)
           \/ Round(Received(p, data)) = Round(Received(Round(p), data))
<1> DEFINE q == Skipped(p)
           r == Received(p, data)
           t == Received(q, data)
<1>1. q \in AnyParser /\ r \in AnyParser /\ t \in AnyParser
  BY RoundCases, ReceivedIs
<1>2. Skipped(r) = Skipped(t)
  BY SkippedJoin
<1>3. Round(r) = AtHeader(Skipped(t)) /\ Round(t) = AtHeader(Skipped(t))
  BY <1>1, <1>2, RoundIs
<1>4. CASE ~Acts(p)
  BY <1>3, <1>4, RoundCases
<1>5. CASE Acts(p)
  <2>1. HeadAt(q.buf, 1) /\ (TooLongAt(q.buf) \/ Whole(q.buf)) /\ 5 <= Len(q.buf)
    BY <1>5, RoundCases DEF Acts
  <2>2. HeadAt(t.buf, 1)
    <3>1. t.buf = q.buf \o data /\ q.buf \in Seq(Byte)
      BY <1>1, ReceivedIs DEF AnyParser
    <3> DEFINE a == q.buf
    <3> HIDE DEF a
    <3>2. a \in Seq(Byte) /\ 5 <= Len(a) /\ HeadAt(a, 1) /\ t.buf = a \o data
      BY <2>1, <3>1 DEF a
    <3>3. /\ Len(a \o data) = Len(a) + Len(data)
          /\ (a \o data)[1] = a[1] /\ (a \o data)[2] = a[2]
          /\ Len(a) \in Nat /\ Len(data) \in Nat
      BY <3>2
    <3> HIDE DEF t
    <3> QED
      BY <3>2, <3>3 DEF HeadAt
  <2>3. Skipped(t) = t
    BY <1>1, <2>2, SkipNone
  <2>4. AtHeader(t) = Received(AtHeader(q), data)
    BY <1>1, <2>1, AtHeaderJoin
  <2>5. AtHeader(q) = Round(p)
    BY RoundIs
  <2> QED
    BY <1>3, <2>3, <2>4, <2>5
<1> QED
  BY <1>4, <1>5

LEMMA RoundsType ==
    ASSUME NEW p \in AnyParser
    PROVE  \A n \in Nat :
              /\ Rounds(p, n) \in AnyParser
              /\ \/ Round(Rounds(p, n)) = Rounds(p, n)
                 \/ Len(Rounds(p, n).buf) + n <= Len(p.buf)
<1> DEFINE P == {n \in Nat :
                    /\ Rounds(p, n) \in AnyParser
                    /\ \/ Round(Rounds(p, n)) = Rounds(p, n)
                       \/ Len(Rounds(p, n).buf) + n <= Len(p.buf)}
<1>0. \A q \in AnyParser : Len(q.buf) \in Nat
  BY DEF AnyParser
<1>1. 0 \in P
  <2>1. Rounds(p, 0) = p
    BY RoundsStep
  <2>2. Len(p.buf) + 0 <= Len(p.buf)
    BY <1>0
  <2> QED
    BY <2>1, <2>2
<1>2. ASSUME NEW n \in Nat, n \in P PROVE n + 1 \in P
  <2> DEFINE q == Rounds(p, n)
             r == Rounds(p, n + 1)
  <2>1. q \in AnyParser /\ r = Round(q) /\ r \in AnyParser
    BY <1>2, RoundsStep, RoundType
  <2>2. CASE Round(q) = q
    <3>1. Round(r) = r
      BY <2>1, <2>2
    <3> QED
      BY <2>1, <3>1
  <2>3. CASE Round(q) # q
    <3>1. Len(q.buf) + n <= Len(p.buf) /\ Len(r.buf) < Len(q.buf)
      BY <1>2, <2>1, <2>3, RoundType
    <3>2. Len(q.buf) \in Nat /\ Len(r.buf) \in Nat /\ Len(p.buf) \in Nat
      BY <1>0, <2>1
    <3> DEFINE x == Len(p.buf)
               y == Len(q.buf)
               z == Len(r.buf)
    <3>3. x \in Nat /\ y \in Nat /\ z \in Nat /\ y + n <= x /\ z < y
      BY <3>1, <3>2
    <3>4. ASSUME z + (n + 1) <= x PROVE n + 1 \in P
      <4>1. n + 1 \in Nat
        OBVIOUS
      <4> HIDE DEF q
      <4>2. r \in AnyParser /\ Len(r.buf) + (n + 1) <= Len(p.buf)
        BY <2>1, <3>4
      <4> QED
        BY <4>1, <4>2, Zenon
    <3> HIDE DEF x, y, z, P
    <3> QED
      BY <3>3, <3>4
  <2> QED
    BY <2>2, <2>3
<1> HIDE DEF P
<1>3. Nat \subseteq P
  BY <1>1, <1>2, Induction
<1> QED
  BY <1>3 DEF P

\* The parser when it waits.
Settled(p) == Rounds(p, Len(p.buf))

LEMMA SettledRests ==
    ASSUME NEW p \in AnyParser
    PROVE  Settled(p) \in AnyParser /\ Round(Settled(p)) = Settled(p)
<1> DEFINE q == Settled(p)
           n == Len(p.buf)
<1>1. n \in Nat
  BY DEF AnyParser
<1>2. /\ q \in AnyParser
      /\ Round(q) = q \/ Len(q.buf) + n <= n
  BY <1>1, RoundsType DEF Settled
<1>3. Round(q) = q \/ Len(Round(q).buf) < Len(q.buf)
  BY <1>2, RoundType
<1>4. Len(q.buf) \in Nat /\ Len(Round(q).buf) \in Nat
  BY <1>2, RoundType DEF AnyParser
<1> HIDE DEF q, n
<1>5. Round(q) = q
  BY <1>1, <1>2, <1>3, <1>4
<1> QED
  BY <1>2, <1>5 DEF q

\* More rounds change nothing.
LEMMA SettledLater ==
    ASSUME NEW p \in AnyParser, NEW n \in Nat, n >= Len(p.buf)
    PROVE  Rounds(p, n) = Settled(p)
<1> DEFINE m == Len(p.buf)
           P == {i \in Nat : Rounds(p, m + i) = Settled(p)}
<1>1. m \in Nat
  BY DEF AnyParser
<1>2. 0 \in P
  <2>1. m + 0 = m
    BY <1>1
  <2> QED
    BY <2>1 DEF Settled
<1>3. ASSUME NEW i \in Nat, i \in P PROVE i + 1 \in P
  <2>1. m + i \in Nat /\ m + (i + 1) = (m + i) + 1
    <3> HIDE DEF m
    <3> QED
      BY <1>1
  <2>2. Rounds(p, (m + i) + 1) = Round(Rounds(p, m + i))
    BY <2>1, RoundsStep
  <2> QED
    BY <1>3, <2>1, <2>2, SettledRests
<1> HIDE DEF P
<1>4. Nat \subseteq P
  BY <1>2, <1>3, Induction
<1>5. n - m \in Nat /\ m + (n - m) = n
  BY <1>1
<1> QED
  BY <1>4, <1>5 DEF P

\* The first round may be told apart as well as the last.
LEMMA RoundsFirst ==
    ASSUME NEW p
    PROVE  \A n \in Nat : Rounds(p, n + 1) = Rounds(Round(p), n)
<1> DEFINE P == {n \in Nat : Rounds(p, n + 1) = Rounds(Round(p), n)}
<1>1. 0 \in P
  <2>1. /\ Rounds(p, 0) = p /\ Rounds(Round(p), 0) = Round(p)
        /\ Rounds(p, 0 + 1) = Round(Rounds(p, 0))
    <3>1. 0 \in Nat
      OBVIOUS
    <3> QED
      BY <3>1, RoundsStep, Zenon
  <2> QED
    BY <2>1, Zenon
<1>2. ASSUME NEW n \in Nat, n \in P PROVE n + 1 \in P
  <2> DEFINE m == n + 1
  <2>1. m \in Nat
    OBVIOUS
  <2>2. Rounds(p, m) = Rounds(Round(p), n) /\ Rounds(Round(p), m) = Round(Rounds(Round(p), n))
    BY <1>2, RoundsStep
  <2> HIDE DEF m
  <2>3. Rounds(p, m + 1) = Round(Rounds(p, m))
    BY <2>1, RoundsStep
  <2>4. Rounds(p, m + 1) = Rounds(Round(p), m)
    BY <2>2, <2>3
  <2> QED
    BY <2>1, <2>4 DEF m
<1> HIDE DEF P
<1>3. Nat \subseteq P
  BY <1>1, <1>2, Induction
<1> QED
  BY <1>3 DEF P

LEMMA SettledRound ==
    ASSUME NEW p \in AnyParser
    PROVE  Settled(Round(p)) = Settled(p)
<1> DEFINE r == Round(p)
           n == Len(p.buf)
<1>1. n \in Nat /\ r \in AnyParser /\ Len(r.buf) \in Nat
  BY RoundType DEF AnyParser
<1>2. Len(r.buf) <= n
  <2>1. r = p \/ Len(r.buf) < n
    BY RoundType
  <2> HIDE DEF r
  <2> QED
    BY <1>1, <2>1
<1>3. Rounds(r, n) = Settled(r)
  BY <1>1, <1>2, SettledLater
<1>4. Rounds(p, n + 1) = Rounds(r, n)
  BY <1>1, RoundsFirst
<1>5. n + 1 \in Nat /\ n + 1 >= n
  BY <1>1
<1>6. Rounds(p, n + 1) = Settled(p)
  BY <1>5, SettledLater
<1> QED
  BY <1>3, <1>4, <1>6

\* It makes no difference whether the parser is left to wait before more bytes
\* come.
LEMMA SettledJoin ==
    ASSUME NEW p \in AnyParser, NEW data \in Seq(Byte)
    PROVE  Settled(Received(p, data)) = Settled(Received(Settled(p), data))
<1> DEFINE P == {n \in Nat :
                   Settled(Received(Rounds(p, n), data)) = Settled(Received(p, data))}
<1>1. 0 \in P
  BY RoundsStep
<1>2. ASSUME NEW n \in Nat, n \in P PROVE n + 1 \in P
  <2> DEFINE q == Rounds(p, n)
             r == Round(q)
             u == Received(q, data)
             v == Received(r, data)
  <2>1. q \in AnyParser /\ r \in AnyParser /\ u \in AnyParser /\ v \in AnyParser
    BY RoundsType, RoundType, ReceivedIs
  <2>2. Rounds(p, n + 1) = r
    BY RoundsStep
  <2>3. Settled(u) = Settled(Received(p, data))
    BY <1>2
  <2>4. Settled(Round(u)) = Settled(u) /\ Settled(Round(v)) = Settled(v)
    BY <2>1, SettledRound
  <2>5. Round(u) = v \/ Round(u) = Round(v)
    BY <2>1, RoundJoin
  <2>6. Settled(v) = Settled(u)
    BY <2>4, <2>5
  <2> QED
    BY <2>2, <2>3, <2>6
<1> HIDE DEF P
<1>3. Nat \subseteq P
  BY <1>1, <1>2, Induction
<1>4. Len(p.buf) \in P
  BY <1>3 DEF AnyParser
<1> QED
  BY <1>4 DEF P, Settled

-----------------------------------------------------------------------------
(* The frames that were found before are not looked at.                    *)

\* The parser as if it had found these frames first.
Before(p, found) == [p EXCEPT !.out = found \o @]

LEMMA BeforeIs ==
    ASSUME NEW p \in AnyParser, NEW found \in Seq(AnyFrame)
    PROVE  /\ Before(p, found) \in AnyParser
           /\ Before(p, found).out = found \o p.out
           /\ Before(p, found).buf = p.buf
           /\ Before(p, found).drop = p.drop
           /\ Before(p, found).frames = p.frames
           /\ Before(p, found).crcErr = p.crcErr
<1>1. found \o p.out \in Seq(AnyFrame)
  <2>1. p.out \in Seq(AnyFrame)
    BY DEF AnyParser
  <2> QED
    BY <2>1
<1> QED
  BY <1>1 DEF Before, AnyParser

LEMMA JoinAppend ==
    ASSUME NEW S, NEW s \in Seq(S), NEW t \in Seq(S), NEW e \in S
    PROVE  s \o Append(t, e) = Append(s \o t, e)
  OBVIOUS

LEMMA RoundBefore ==
    ASSUME NEW p \in AnyParser, NEW found \in Seq(AnyFrame)
    PROVE  Round(Before(p, found)) = Before(Round(p), found)
<1> DEFINE b == Before(p, found)
           q == Skipped(p)
           r == Skipped(b)
           t == Before(q, found)
<1>1. /\ b \in AnyParser /\ b.out = found \o p.out /\ b.buf = p.buf
      /\ b.drop = p.drop /\ b.frames = p.frames /\ b.crcErr = p.crcErr
  BY BeforeIs
<1> HIDE DEF b
<1>2. /\ q \in AnyParser /\ q.buf = From(p.buf, Skip(p.buf))
      /\ q.drop = p.drop + Skip(p.buf)
      /\ q.frames = p.frames /\ q.crcErr = p.crcErr /\ q.out = p.out
  BY SkippedIs
<1>3. /\ r \in AnyParser /\ r.buf = From(b.buf, Skip(b.buf))
      /\ r.drop = b.drop + Skip(b.buf)
      /\ r.frames = b.frames /\ r.crcErr = b.crcErr /\ r.out = b.out
  BY <1>1, SkippedIs
<1> HIDE DEF q, r
<1>4. /\ t \in AnyParser /\ t.out = found \o q.out /\ t.buf = q.buf
      /\ t.drop = q.drop /\ t.frames = q.frames /\ t.crcErr = q.crcErr
  BY <1>2, BeforeIs
<1> HIDE DEF t
<1>5. r = t
  <2>1. /\ r.buf = t.buf /\ r.frames = t.frames /\ r.crcErr = t.crcErr
        /\ r.drop = t.drop /\ r.out = t.out
    BY <1>1, <1>2, <1>3, <1>4, Zenon
  <2> QED
    BY <1>3, <1>4, <2>1, SameParser
<1>6. CASE TooLongAt(q.buf)
  <2> DEFINE u == Dropped(q, 2, 1)
             v == Dropped(t, 2, 1)
             w == Before(u, found)
  <2>1. Round(p) = u /\ Round(b) = v
    BY <1>1, <1>4, <1>5, <1>6, RoundCases DEF q, r
  <2>2. 2 \in 0 .. Len(q.buf) /\ 1 \in Nat
    <3>1. q.buf \in Seq(Byte)
      BY <1>2 DEF AnyParser
    <3> QED
      BY <1>6, <3>1, TooLongIs
  <2>3. /\ u \in AnyParser /\ u.buf = From(q.buf, 2) /\ u.drop = q.drop + 1
        /\ u.frames = q.frames /\ u.crcErr = q.crcErr /\ u.out = q.out
    BY <1>2, <2>2, DroppedIs, Zenon
  <2>4. /\ v \in AnyParser /\ v.buf = From(t.buf, 2) /\ v.drop = t.drop + 1
        /\ v.frames = t.frames /\ v.crcErr = t.crcErr /\ v.out = t.out
    <3>1. 2 \in 0 .. Len(t.buf)
      BY <1>4, <2>2
    <3> QED
      BY <1>4, <2>2, <3>1, DroppedIs, Zenon
  <2> HIDE DEF u, v
  <2>5. /\ w \in AnyParser /\ w.out = found \o u.out /\ w.buf = u.buf
        /\ w.drop = u.drop /\ w.frames = u.frames /\ w.crcErr = u.crcErr
    BY <2>3, BeforeIs
  <2> HIDE DEF w
  <2>6. v = w
    <3>1. /\ v.buf = w.buf /\ v.frames = w.frames /\ v.crcErr = w.crcErr
          /\ v.drop = w.drop /\ v.out = w.out
      BY <1>4, <2>3, <2>4, <2>5, Zenon
    <3> QED
      BY <2>4, <2>5, <3>1, SameParser
  <2> QED
    BY <2>1, <2>6 DEF b, w
<1>7. CASE Whole(q.buf)
  <2> DEFINE u == AfterFrame(q)
             v == AfterFrame(t)
             w == Before(u, found)
             f == FrameOf(q.buf)
             c == From(q.buf, 7 + q.buf[4])
             left == q.out
             all == found \o left
  <2>1. Round(p) = u /\ Round(b) = v /\ u \in AnyParser /\ v \in AnyParser
    BY <1>1, <1>2, <1>4, <1>5, <1>7, RoundCases, AfterFrameIs DEF q, r
  <2>2. IF Sound(q.buf)
        THEN u = [buf |-> c, frames |-> q.frames + 1, crcErr |-> q.crcErr,
                  drop |-> q.drop, out |-> Append(left, f)]
        ELSE u = [buf |-> c, frames |-> q.frames, crcErr |-> q.crcErr + 1,
                  drop |-> q.drop, out |-> left]
    BY DEF AfterFrame
  <2>3. IF Sound(q.buf)
        THEN v = [buf |-> c, frames |-> q.frames + 1, crcErr |-> q.crcErr,
                  drop |-> q.drop, out |-> Append(all, f)]
        ELSE v = [buf |-> c, frames |-> q.frames, crcErr |-> q.crcErr + 1,
                  drop |-> q.drop, out |-> all]
    BY <1>4 DEF AfterFrame
  <2>4. f \in AnyFrame /\ left \in Seq(AnyFrame)
    <3>1. q.buf \in Seq(Byte) /\ q.out \in Seq(AnyFrame)
      BY <1>2 DEF AnyParser
    <3> QED
      BY <1>7, <3>1, FrameOfType
  <2> HIDE DEF u, v, f, c, left
  <2>5. /\ w \in AnyParser /\ w.out = found \o u.out /\ w.buf = u.buf
        /\ w.drop = u.drop /\ w.frames = u.frames /\ w.crcErr = u.crcErr
    BY <2>1, BeforeIs
  <2>6. found \o Append(left, f) = Append(all, f)
    BY <2>4, JoinAppend
  <2> HIDE DEF w, all
  <2>7. CASE Sound(q.buf)
    <3>1. u = [buf |-> c, frames |-> q.frames + 1, crcErr |-> q.crcErr,
               drop |-> q.drop, out |-> Append(left, f)]
      BY <2>2, <2>7
    <3>2. v = [buf |-> c, frames |-> q.frames + 1, crcErr |-> q.crcErr,
               drop |-> q.drop, out |-> Append(all, f)]
      BY <2>3, <2>7
    <3>3. v = w
      <4>1. /\ v.buf = w.buf /\ v.frames = w.frames /\ v.crcErr = w.crcErr
            /\ v.drop = w.drop /\ v.out = w.out
        BY <2>5, <2>6, <3>1, <3>2, Zenon
      <4> QED
        BY <2>1, <2>5, <4>1, SameParser
    <3> QED
      BY <2>1, <3>3 DEF b, w
  <2>8. CASE ~Sound(q.buf)
    <3>1. u = [buf |-> c, frames |-> q.frames, crcErr |-> q.crcErr + 1,
               drop |-> q.drop, out |-> left]
      BY <2>2, <2>8
    <3>2. v = [buf |-> c, frames |-> q.frames, crcErr |-> q.crcErr + 1,
               drop |-> q.drop, out |-> all]
      BY <2>3, <2>8
    <3>3. v = w
      <4>1. /\ v.buf = w.buf /\ v.frames = w.frames /\ v.crcErr = w.crcErr
            /\ v.drop = w.drop /\ v.out = w.out
        BY <2>5, <3>1, <3>2, Zenon DEF all
      <4> QED
        BY <2>1, <2>5, <4>1, SameParser
    <3> QED
      BY <2>1, <3>3 DEF b, w
  <2> QED
    BY <2>7, <2>8
<1>8. CASE ~(TooLongAt(q.buf) \/ Whole(q.buf))
  <2>1. ~Acts(p) /\ ~Acts(b)
    BY <1>4, <1>5, <1>8 DEF Acts, q, r
  <2>2. Round(p) = q /\ Round(b) = r
    BY <1>1, <2>1, RoundCases DEF q, r
  <2> QED
    BY <1>5, <2>2 DEF b, t
<1> QED
  BY <1>6, <1>7, <1>8

LEMMA SettledBefore ==
    ASSUME NEW p \in AnyParser, NEW found \in Seq(AnyFrame)
    PROVE  Settled(Before(p, found)) = Before(Settled(p), found)
<1> DEFINE P == {n \in Nat : Rounds(Before(p, found), n) = Before(Rounds(p, n), found)}
<1>1. 0 \in P
  BY RoundsStep
<1>2. ASSUME NEW n \in Nat, n \in P PROVE n + 1 \in P
  <2>1. /\ Rounds(Before(p, found), n + 1) = Round(Rounds(Before(p, found), n))
        /\ Rounds(p, n + 1) = Round(Rounds(p, n))
        /\ Rounds(p, n) \in AnyParser
    BY RoundsStep, RoundsType
  <2>2. Round(Before(Rounds(p, n), found)) = Before(Round(Rounds(p, n)), found)
    BY <2>1, RoundBefore
  <2> QED
    BY <1>2, <2>1, <2>2
<1> HIDE DEF P
<1>3. Nat \subseteq P
  BY <1>1, <1>2, Induction
<1>4. Len(p.buf) \in P
  BY <1>3 DEF AnyParser
<1>5. Before(p, found).buf = p.buf
  BY BeforeIs
<1> QED
  BY <1>4, <1>5 DEF P, Settled

-----------------------------------------------------------------------------
(* The state.                                                              *)

\* What the lemmas about a step need of the variables.
Typed ==
    /\ line \in Seq(Byte) /\ fed \in Seq(Byte)
    /\ parser \in AnyParser
    /\ got \in Seq(AnyFrame)
    /\ txSeq \in Byte

LEMMA EmptyType ==
    EmptyParser \in AnyParser /\ EmptyParser.buf = <<>> /\ EmptyParser.out = <<>>
  BY DEF EmptyParser, AnyParser

\* The parser at the beginning of feed().
Starts(p, data) == Received([p EXCEPT !.out = <<>>], data)

LEMMA StartsIs ==
    ASSUME NEW p \in AnyParser, NEW data \in Seq(Byte)
    PROVE  /\ Starts(p, data) \in AnyParser
           /\ Starts(p, data).buf = p.buf \o data
           /\ Starts(p, data).out = <<>>
           /\ feed(p, data) = Settled(Starts(p, data))
<1> DEFINE q == [p EXCEPT !.out = <<>>]
<1>1. q \in AnyParser /\ q.buf = p.buf /\ q.out = <<>>
  <2>1. <<>> \in Seq(AnyFrame)
    OBVIOUS
  <2> QED
    BY <2>1 DEF AnyParser
<1> HIDE DEF q
<1>2. /\ Received(q, data) \in AnyParser /\ Received(q, data).buf = q.buf \o data
      /\ Received(q, data).out = q.out
  BY <1>1, ReceivedIs
<1>3. Starts(p, data) = Received(q, data)
  BY DEF Starts, q
<1>4. feed(p, data) = Settled(Starts(p, data))
  BY DEF feed, Starts, Settled
<1> QED
  BY <1>1, <1>2, <1>3, <1>4

\* A chunk of the line, and what is left of it.
Chunked(n) == SubSeq(line, 1, n)

LEMMA ChunkIs ==
    ASSUME Typed, NEW n \in Nat, n <= Len(line)
    PROVE  /\ Chunked(n) \in Seq(Byte) /\ Len(Chunked(n)) = n
           /\ \A i \in 1 .. n : Chunked(n)[i] = line[i]
           /\ From(line, n) \in Seq(Byte)
           /\ Len(From(line, n)) = Len(line) - n
           /\ Chunked(n) \o From(line, n) = line
<1>1. line \in Seq(Byte) /\ Len(line) \in Nat /\ n \in 0 .. Len(line)
  BY DEF Typed
<1> DEFINE a == Chunked(n)
           b == From(line, n)
           c == a \o b
<1>2. a \in Seq(Byte) /\ Len(a) = n /\ \A i \in 1 .. n : a[i] = line[i]
  BY <1>1 DEF Chunked
<1>3. /\ b \in Seq(Byte) /\ Len(b) = Len(line) - n
      /\ \A i \in 1 .. Len(line) - n : b[i] = line[n + i]
  BY <1>1, FromIs
<1> HIDE DEF a, b
<1>4. /\ c \in Seq(Byte) /\ Len(c) = Len(a) + Len(b)
      /\ \A i \in 1 .. Len(a) : c[i] = a[i]
      /\ \A i \in 1 .. Len(b) : c[Len(a) + i] = b[i]
  BY <1>2, <1>3
<1> HIDE DEF c
<1>5. ASSUME NEW i \in 1 .. Len(c) PROVE c[i] = line[i]
  <2>1. CASE i <= n
    BY <1>1, <1>2, <1>4, <1>5, <2>1
  <2>2. CASE i > n
    <3> DEFINE j == i - n
    <3>1. j \in 1 .. Len(b) /\ i = n + j
      BY <1>1, <1>2, <1>3, <1>4, <2>2
    <3> HIDE DEF j
    <3>2. c[n + j] = b[j] /\ b[j] = line[n + j]
      BY <1>2, <1>3, <1>4, <3>1
    <3> QED
      BY <3>1, <3>2
  <2> QED
    BY <1>1, <2>1, <2>2, <1>2, <1>3, <1>4
<1>6. Len(c) = Len(line)
  BY <1>1, <1>2, <1>3, <1>4
<1>7. c = line
  BY <1>1, <1>4, <1>5, <1>6, SameSeq
<1> QED
  BY <1>2, <1>3, <1>7 DEF a, b, c

LEMMA FrameToSend ==
    ASSUME Typed, NEW payload \in Payload
    PROVE  /\ NextFrame(payload) \in SentFrame
           /\ NextFrame(payload).payload = payload
           /\ Size(NextFrame(payload)) = kFrameOverhead + Len(payload)
           /\ packFrame(NextFrame(payload)) \in Seq(Byte)
           /\ Len(packFrame(NextFrame(payload))) = Size(NextFrame(payload))
           /\ Size(NextFrame(payload)) \in 7 .. kMaxFrame
<1> DEFINE f == NextFrame(payload)
<1>1. payload \in Seq(Byte) /\ Len(payload) <= kMaxPayload
  BY ParserAssumption
<1>2. f.payload = payload /\ f \in AnyFrame
  <2>1. 1 \in Byte
    BY DEF Byte, Unsigned
  <2> QED
    BY <1>1, <2>1 DEF Typed, NextFrame, AnyFrame
<1>3. f \in SentFrame
  BY <1>1, <1>2 DEF SentFrame
<1> HIDE DEF f
<1>4. Size(f) = kFrameOverhead + Len(payload)
  BY <1>2 DEF Size
<1>5. packFrame(f) \in Seq(Byte) /\ Len(packFrame(f)) = 7 + Len(f.payload)
  BY <1>3, PackIs
<1>6. Size(f) \in 7 .. kMaxFrame
  BY <1>1, <1>4, CodecConstants
<1> QED
  BY <1>2, <1>3, <1>4, <1>5, <1>6, CodecConstants DEF f

-----------------------------------------------------------------------------
(* The steps, without what tells their variants apart.                     *)

Sends(f) ==
    /\ line' = line \o packFrame(f)
    /\ sent' = Append(sent, [frame |-> f, at |-> Place + 1])
    /\ txSeq' \in Byte
    /\ UNCHANGED <<fed, parser, got, bad, badFrom, badTo>>

Spoils(bytes) == Spoil(bytes) /\ txSeq' \in Byte

Reads(n) == n \in Nat \ {0} /\ Feed(n)

LEMMA StepIs ==
    ASSUME Typed, ParserNext
    PROVE  \/ \E f \in SentFrame : Sends(f)
           \/ \E bytes \in Seq(Byte) : Spoils(bytes)
           \/ \E n \in Nat \ {0} : Reads(n)
           \/ Reopen
<1>1. txSeq \in Byte /\ (txSeq + 1) % 256 \in Byte
  BY DEF Typed, Byte, Unsigned
<1>2. ASSUME NEW payload \in Payload, SendFrame(payload)
      PROVE  \E f \in SentFrame : Sends(f)
  <2>1. NextFrame(payload) \in SentFrame
    BY FrameToSend
  <2>2. Sends(NextFrame(payload))
    BY <1>1, <1>2 DEF SendFrame, Sends
  <2> QED
    BY <2>1, <2>2
<1>3. ASSUME NEW payload \in Payload, NEW i \in 1 .. kFrameOverhead + Len(payload),
             NEW mask \in Flip, SendDamaged(payload, i, mask)
      PROVE  \E bytes \in Seq(Byte) : Spoils(bytes)
  <2> DEFINE a == packFrame(NextFrame(payload))
             b == [a EXCEPT ![i] = Xor(@, mask)]
  <2>1. a \in Seq(Byte) /\ i \in 1 .. Len(a)
    BY FrameToSend
  <2>2. mask \in Byte /\ mask \in Nat
    BY ParserAssumption DEF Byte, Unsigned
  <2>3. a[i] \in Byte
    BY <2>1
  <2>4. Xor(a[i], mask) \in Byte
    BY <2>2, <2>3, ByteIs, XorType
  <2> DEFINE x == Xor(a[i], mask)
  <2>5. Spoil(b) /\ b = [a EXCEPT ![i] = x]
    BY <1>3 DEF SendDamaged
  <2> HIDE DEF a, b, x
  <2>6. [a EXCEPT ![i] = x] \in Seq(Byte)
    BY <2>1, <2>4 DEF x
  <2>7. Spoils(b)
    BY <1>1, <1>3, <2>5 DEF SendDamaged, Spoils
  <2> QED
    BY <2>5, <2>6, <2>7
<1>4. ASSUME NEW payload \in Payload, NEW n \in 1 .. kFrameOverhead + Len(payload) - 1,
             SendCut(payload, n)
      PROVE  \E bytes \in Seq(Byte) : Spoils(bytes)
  <2> DEFINE a == packFrame(NextFrame(payload))
             b == SubSeq(a, 1, n)
  <2>1. a \in Seq(Byte) /\ n \in 1 .. Len(a)
    BY FrameToSend, ParserAssumption, CodecConstants
  <2>2. Spoil(b)
    BY <1>4 DEF SendCut
  <2>3. Spoils(b)
    BY <1>1, <1>4, <2>2 DEF SendCut, Spoils
  <2> HIDE DEF a
  <2>4. b \in Seq(Byte)
    BY <2>1
  <2> QED
    BY <2>3, <2>4
<1>5. ASSUME NEW bytes \in Noise, SendNoise(bytes)
      PROVE  bytes \in Seq(Byte) /\ Spoils(bytes)
  BY <1>1, <1>5, ParserAssumption DEF SendNoise, Spoils
<1>6. ASSUME NEW n \in Chunk, Feed(n) PROVE n \in Nat \ {0} /\ Reads(n)
  BY <1>6, ParserAssumption DEF Reads
<1> QED
  BY <1>2, <1>3, <1>4, <1>5, <1>6 DEF ParserNext

-----------------------------------------------------------------------------
(* Chunks.                                                                 *)

Once == feed(EmptyParser, fed)

OnceOk == Typed /\ ChunkingIrrelevant

LEMMA OnceIs ==
    ASSUME Typed
    PROVE  Once \in AnyParser /\ Round(Once) = Once
  BY EmptyType, StartsIs, SettledRests DEF Typed, Once

\* The parser as it is after one more chunk.
LEMMA ReadOnce ==
    ASSUME OnceOk, NEW n \in Nat \ {0}, Reads(n)
    PROVE  Typed' /\ ChunkingIrrelevant'
<1> DEFINE s == Chunked(n)
           e == Starts(EmptyParser, fed)
           all == Starts(EmptyParser, fed \o s)
           z == Starts(parser, s)
           r == Received(Once, s)
           b == Before(z, got)
<1>1. Typed /\ n <= Len(line) /\ Once \in AnyParser
  BY OnceIs DEF OnceOk, Reads, Feed
<1>2. /\ parser \in AnyParser /\ got \in Seq(AnyFrame) /\ fed \in Seq(Byte)
      /\ s \in Seq(Byte)
  BY <1>1, ChunkIs DEF Typed
<1>3. /\ fed' = fed \o s /\ line' = From(line, n) /\ parser' = feed(parser, s)
      /\ got' = got \o parser'.out /\ txSeq' = txSeq
  BY DEF Reads, Feed, Chunked, From
<1>4. z \in AnyParser /\ z.buf = parser.buf \o s /\ z.out = <<>> /\ parser' = Settled(z)
  BY <1>2, <1>3, StartsIs
<1>5. parser' \in AnyParser
  BY <1>4, SettledRests
<1>6. fed \o s \in Seq(Byte)
  <2> HIDE DEF s
  <2> QED
    BY <1>2
<1>7. Typed'
  <2>1. parser'.out \in Seq(AnyFrame)
    BY <1>5 DEF AnyParser
  <2> DEFINE o == parser'.out
  <2> HIDE DEF o
  <2>2. got \o o \in Seq(AnyFrame)
    BY <1>2, <2>1 DEF o
  <2>3. From(line, n) \in Seq(Byte) /\ txSeq \in Byte
    BY <1>1, ChunkIs DEF Typed
  <2> QED
    BY <1>3, <1>5, <1>6, <2>2, <2>3 DEF Typed, o
<1>8. Once = Settled(e) /\ e \in AnyParser /\ e.buf = EmptyParser.buf \o fed /\ e.out = <<>>
  BY <1>2, EmptyType, StartsIs DEF Once
<1>9. /\ Once' = Settled(all) /\ all \in AnyParser
      /\ all.buf = EmptyParser.buf \o (fed \o s) /\ all.out = <<>>
  BY <1>3, <1>6, EmptyType, StartsIs DEF Once
<1>10. all = Received(e, s)
  <2> DEFINE u == Received(e, s)
  <2>1. /\ u \in AnyParser /\ u.buf = e.buf \o s /\ u.out = e.out
        /\ u.drop = e.drop /\ u.frames = e.frames /\ u.crcErr = e.crcErr
    BY <1>2, <1>8, ReceivedIs
  <2>2. /\ e.drop = 0 /\ e.frames = 0 /\ e.crcErr = 0
        /\ all.drop = 0 /\ all.frames = 0 /\ all.crcErr = 0
    BY DEF Starts, Received, EmptyParser
  <2> HIDE DEF s, e, all, u
  <2>3. (EmptyParser.buf \o fed) \o s = EmptyParser.buf \o (fed \o s)
    <3>1. <<>> \o fed = fed /\ <<>> \o (fed \o s) = fed \o s
      BY <1>2, <1>6
    <3> QED
      BY <3>1, EmptyType
  <2>4. /\ all.buf = u.buf /\ all.frames = u.frames /\ all.crcErr = u.crcErr
        /\ all.drop = u.drop /\ all.out = u.out
    BY <1>8, <1>9, <2>1, <2>2, <2>3, Zenon
  <2> QED
    BY <1>9, <2>1, <2>4, SameParser DEF u
<1>11. Once' = Settled(r)
  BY <1>2, <1>8, <1>9, <1>10, SettledJoin
<1>12. got = Once.out /\ parser = [Once EXCEPT !.out = parser.out]
  BY DEF OnceOk, ChunkingIrrelevant, Once
<1>13. r = b
  <2>1. /\ r \in AnyParser /\ r.buf = Once.buf \o s /\ r.out = Once.out
        /\ r.drop = Once.drop /\ r.frames = Once.frames /\ r.crcErr = Once.crcErr
    BY <1>1, <1>2, ReceivedIs
  <2>2. /\ b \in AnyParser /\ b.buf = z.buf /\ b.out = got \o z.out
        /\ b.drop = z.drop /\ b.frames = z.frames /\ b.crcErr = z.crcErr
    BY <1>2, <1>4, BeforeIs
  <2>3. z.drop = parser.drop /\ z.frames = parser.frames /\ z.crcErr = parser.crcErr
    BY <1>2 DEF Starts, Received, AnyParser
  <2>4. /\ parser.buf = Once.buf /\ parser.drop = Once.drop
        /\ parser.frames = Once.frames /\ parser.crcErr = Once.crcErr
    <3>1. /\ [Once EXCEPT !.out = parser.out].buf = Once.buf
          /\ [Once EXCEPT !.out = parser.out].drop = Once.drop
          /\ [Once EXCEPT !.out = parser.out].frames = Once.frames
          /\ [Once EXCEPT !.out = parser.out].crcErr = Once.crcErr
      BY <1>1 DEF AnyParser
    <3> QED
      BY <1>12, <3>1
  <2>5. got \o <<>> = got
    BY <1>2
  <2> HIDE DEF r, b, z, s
  <2>6. /\ r.buf = b.buf /\ r.frames = b.frames /\ r.crcErr = b.crcErr
        /\ r.drop = b.drop /\ r.out = b.out
    BY <1>4, <1>12, <2>1, <2>2, <2>3, <2>4, <2>5
  <2> QED
    BY <2>1, <2>2, <2>6, SameParser
<1>14. Once' = Before(parser', got)
  BY <1>2, <1>4, <1>11, <1>13, SettledBefore
<1>15. got' = Once'.out /\ parser' = [Once' EXCEPT !.out = parser'.out]
  <2> DEFINE q == parser'
             o == Once'
             t == [o EXCEPT !.out = q.out]
  <2>1. /\ o \in AnyParser /\ o.out = got \o q.out /\ o.buf = q.buf
        /\ o.drop = q.drop /\ o.frames = q.frames /\ o.crcErr = q.crcErr
    BY <1>2, <1>5, <1>14, BeforeIs
  <2>2. q.out \in Seq(AnyFrame) /\ q \in AnyParser
    BY <1>5 DEF AnyParser
  <2> HIDE DEF q, o
  <2>3. /\ t \in AnyParser /\ t.out = q.out /\ t.buf = o.buf
        /\ t.drop = o.drop /\ t.frames = o.frames /\ t.crcErr = o.crcErr
    BY <2>1, <2>2 DEF AnyParser
  <2>4. q = t
    BY <2>1, <2>2, <2>3, SameParser
  <2>5. got' = o.out
    BY <1>3, <2>1 DEF q
  <2> QED
    BY <2>4, <2>5 DEF q, o
<1> QED
  BY <1>7, <1>15 DEF ChunkingIrrelevant, Once

LEMMA OnceKept == ASSUME OnceOk, [ParserNext]_parserVars PROVE OnceOk'
<1>1. Typed
  BY DEF OnceOk
<1>2. ASSUME NEW f \in SentFrame, Sends(f) PROVE OnceOk'
  <2>1. packFrame(f) \in Seq(Byte)
    BY PackIs
  <2>2. line' \in Seq(Byte)
    BY <1>1, <1>2, <2>1 DEF Typed, Sends
  <2> QED
    BY <1>2, <2>2 DEF OnceOk, Typed, ChunkingIrrelevant, Sends
<1>3. ASSUME NEW bytes \in Seq(Byte), Spoils(bytes) PROVE OnceOk'
  <2>1. line' \in Seq(Byte)
    BY <1>1, <1>3 DEF Typed, Spoils, Spoil
  <2> QED
    BY <1>3, <2>1 DEF OnceOk, Typed, ChunkingIrrelevant, Spoils, Spoil
<1>4. ASSUME NEW n \in Nat \ {0}, Reads(n) PROVE OnceOk'
  BY <1>4, ReadOnce DEF OnceOk
<1>5. CASE Reopen
  <2>1. <<>> \in Seq(Byte)
    OBVIOUS
  <2> QED
    BY <1>5, <2>1 DEF OnceOk, Typed, ChunkingIrrelevant, Reopen
<1>6. CASE UNCHANGED parserVars
  BY <1>6 DEF parserVars, OnceOk, Typed, ChunkingIrrelevant
<1> QED
  BY <1>1, <1>2, <1>3, <1>4, <1>5, <1>6, StepIs

LEMMA RoundsNone == ASSUME NEW p \in AnyParser, p.buf = <<>> PROVE Settled(p) = p
<1>1. Len(p.buf) = 0
  BY Zenon, EmptySeq
<1> QED
  BY <1>1, RoundsStep DEF Settled

LEMMA OnceFirst == ParserInit => OnceOk
<1> SUFFICES ASSUME ParserInit PROVE OnceOk
  OBVIOUS
<1>1. Typed
  <2>1. /\ line = <<>> /\ fed = <<>> /\ parser = EmptyParser /\ got = <<>>
        /\ txSeq \in Byte
    BY ParserAssumption DEF ParserInit
  <2>2. <<>> \in Seq(Byte) /\ <<>> \in Seq(AnyFrame)
    OBVIOUS
  <2> QED
    BY <2>1, <2>2, EmptyType DEF Typed
<1>2. Once = Starts(EmptyParser, <<>>)
  <2>1. <<>> \in Seq(Byte) /\ <<>> \o <<>> = <<>>
    OBVIOUS
  <2>2. /\ Starts(EmptyParser, <<>>) \in AnyParser
        /\ Starts(EmptyParser, <<>>).buf = <<>>
        /\ feed(EmptyParser, <<>>) = Settled(Starts(EmptyParser, <<>>))
    BY <2>1, EmptyType, StartsIs
  <2> QED
    BY <2>2, RoundsNone DEF Once, ParserInit
<1>3. Starts(EmptyParser, <<>>) = EmptyParser
  <2>1. <<>> \in Seq(Byte) /\ <<>> \o <<>> = <<>>
    OBVIOUS
  <2> DEFINE s == Starts(EmptyParser, <<>>)
  <2>2. /\ s \in AnyParser /\ s.buf = <<>> /\ s.out = <<>>
    BY <2>1, EmptyType, StartsIs
  <2>3. /\ s.drop = EmptyParser.drop /\ s.frames = EmptyParser.frames
        /\ s.crcErr = EmptyParser.crcErr
    BY DEF Starts, Received, EmptyParser
  <2> HIDE DEF s
  <2>4. s = EmptyParser
    BY <2>2, <2>3, EmptyType, SameParser
  <2> QED
    BY <2>4 DEF s
<1>4. EmptyParser = [EmptyParser EXCEPT !.out = EmptyParser.out]
  BY DEF EmptyParser
<1> QED
  BY <1>1, <1>2, <1>3, <1>4, EmptyType DEF OnceOk, ChunkingIrrelevant, ParserInit, Once

-----------------------------------------------------------------------------
(* What waits in the buffer.                                               *)

\* The shape of a buffer with which the parser waits.
Waiting(buf) ==
    /\ Len(buf) >= 2 => HeadAt(buf, 1)
    /\ Len(buf) = 1 => buf[1] = kHead0
    /\ ~TooLongAt(buf) /\ ~Whole(buf)

LEMMA RestIs ==
    ASSUME NEW p \in AnyParser, Round(p) = p
    PROVE  Waiting(p.buf)
<1> DEFINE q == Skipped(p)
           k == Skip(p.buf)
<1>1. /\ p.drop \in Nat /\ p.frames \in Nat /\ p.crcErr \in Nat /\ p.buf \in Seq(Byte)
  BY DEF AnyParser
<1>2. /\ q \in AnyParser /\ q.drop = p.drop + k /\ q.frames = p.frames
      /\ q.crcErr = p.crcErr /\ k \in 0 .. Len(p.buf) /\ q.buf = From(p.buf, k)
  BY SkippedIs
<1>3. k \in Nat
  BY <1>2
<1> HIDE DEF q, k
<1>4. ~TooLongAt(q.buf)
  <2> SUFFICES ASSUME TooLongAt(q.buf) PROVE FALSE
    OBVIOUS
  <2>1. p = Dropped(q, 2, 1) /\ 5 <= Len(q.buf)
    BY RoundCases DEF Acts, q
  <2>2. q.buf \in Seq(Byte) /\ Len(q.buf) \in Nat
    BY <1>2 DEF AnyParser
  <2>3. 2 \in 0 .. Len(q.buf) /\ 1 \in Nat
    BY <2>1, <2>2
  <2>4. p.drop = q.drop + 1
    BY <1>2, <2>1, <2>3, DroppedIs, Zenon
  <2> QED
    BY <1>1, <1>2, <1>3, <2>4
<1>5. ~Whole(q.buf)
  <2> SUFFICES ASSUME Whole(q.buf) PROVE FALSE
    OBVIOUS
  <2>1. p = AfterFrame(q)
    BY RoundCases DEF q
  <2>2. p.frames = q.frames + 1 \/ p.crcErr = q.crcErr + 1
    BY <2>1 DEF AfterFrame
  <2> QED
    BY <1>1, <1>2, <2>2
<1>6. p = q
  BY <1>4, <1>5, RoundCases DEF Acts, q
<1> QED
  BY <1>4, <1>5, <1>6, SkippedFront DEF Waiting, q

\* The rest that is kept is shorter than a frame.
LEMMA WaitingShort ==
    ASSUME NEW buf \in Seq(Byte), Waiting(buf)
    PROVE  Len(buf) < kMaxFrame /\ (buf # <<>> => buf[1] = kHead0)
<1>1. Len(buf) \in Nat /\ kMaxPayload \in Nat /\ kMaxFrame = 7 + kMaxPayload
  BY CodecConstants
<1>2. Len(buf) >= 5 => buf[4] \in Nat
  BY ByteIs
<1>3. Len(buf) < kMaxFrame
  <2>1. CASE Len(buf) < 5
    BY <1>1, <2>1
  <2>2. CASE Len(buf) >= 5
    <3>1. buf[4] \in Nat /\ buf[4] <= kMaxPayload /\ ~(Len(buf) >= 7 + buf[4])
      BY <1>1, <1>2, <2>2 DEF Waiting, TooLongAt, Whole
    <3> DEFINE n == buf[4]
               m == Len(buf)
    <3>2. n \in Nat /\ n <= kMaxPayload /\ m < 7 + n /\ m \in Nat
      BY <1>1, <3>1
    <3> HIDE DEF n, m
    <3>3. m < 7 + kMaxPayload
      BY <1>1, <3>2
    <3> QED
      BY <1>1, <3>3 DEF m
  <2> QED
    BY <1>1, <2>1, <2>2
<1>4. ASSUME buf # <<>> PROVE buf[1] = kHead0
  <2>1. Len(buf) # 0
    BY <1>4
  <2>2. CASE Len(buf) = 1
    BY <2>2 DEF Waiting
  <2>3. CASE Len(buf) # 1
    <3> DEFINE n == Len(buf)
    <3>2. n \in Nat /\ n # 0 /\ n # 1
      BY <1>1, <2>1, <2>3
    <3> HIDE DEF n
    <3>3. n >= 2
      BY <3>2
    <3>1. Len(buf) >= 2
      BY <3>3 DEF n
    <3> QED
      BY <3>1 DEF Waiting, HeadAt
  <2> QED
    BY <2>2, <2>3
<1> QED
  BY <1>3, <1>4

LEMMA RestOfOnce ==
    ASSUME OnceOk
    PROVE  parser.buf = Once.buf /\ parser.buf \in Seq(Byte) /\ Waiting(parser.buf)
<1>1. Once \in AnyParser /\ Round(Once) = Once
  BY OnceIs DEF OnceOk
<1>2. parser = [Once EXCEPT !.out = parser.out]
  BY DEF OnceOk, ChunkingIrrelevant, Once
<1>3. parser.buf = Once.buf
  <2>1. [Once EXCEPT !.out = parser.out].buf = Once.buf
    BY <1>1 DEF AnyParser
  <2> QED
    BY <1>2, <2>1
<1> QED
  BY <1>1, <1>3, RestIs DEF AnyParser

LEMMA ParserTypeFollows == OnceOk => ParserTypeOK
<1> SUFFICES ASSUME OnceOk PROVE ParserTypeOK
  OBVIOUS
<1>1. Len(parser.buf) < kMaxFrame /\ (parser.buf # <<>> => parser.buf[1] = kHead0)
  BY RestOfOnce, WaitingShort
<1>2. {parser.frames, parser.crcErr, parser.drop} \subseteq Nat
  BY DEF OnceOk, Typed, AnyParser
<1> QED
  BY <1>1, <1>2, RestOfOnce DEF OnceOk, Typed, ParserTypeOK

\* The frames returned, the statistics and the rest that is kept are those of
\* one call with all bytes, whatever the chunks were, and whenever the port was
\* lost and opened again: no byte is looked at twice or forgotten.
THEOREM ChunksIrrelevant == ParserSpec => []ChunkingIrrelevant
<1>1. OnceOk => ChunkingIrrelevant
  BY DEF OnceOk
<1> QED
  BY <1>1, OnceFirst, OnceKept, PTL DEF ParserSpec

\* The buffer of the parser is the beginning of one frame, and shorter than the
\* longest, in every state.
THEOREM ParserTypesHold == ParserSpec => []ParserTypeOK
  BY OnceFirst, OnceKept, ParserTypeFollows, PTL DEF ParserSpec

-----------------------------------------------------------------------------
(* Where the frames are among the bytes.                                   *)

Item == [frame : SentFrame, at : Nat]

\* The place of a frame whose bytes all come through, and of its last byte.
Here(s) == s.at # Gone
Stop(s) == s.at + Size(s.frame) - 1

PlacedIn(str, s) ==
    /\ Stop(s) <= Len(str)
    /\ \A k \in 1 .. Size(s.frame) : str[(s.at - 1) + k] = packFrame(s.frame)[k]

Covers(s, b) == Here(s) /\ s.at <= b /\ b <= Stop(s)

\* A byte that belongs to no good frame.
Stray(str, items, b) ==
    b \in 1 .. Len(str) /\ \A i \in DOMAIN items : ~Covers(items[i], b)

\* The good frames are among the bytes, in their order, and apart.
Placed(str, items) ==
    \A i \in DOMAIN items : Here(items[i]) => PlacedIn(str, items[i])

Ordered(items) ==
    \A i, j \in DOMAIN items :
        Here(items[i]) /\ Here(items[j]) /\ i < j => Stop(items[i]) < items[j].at

\* No byte after the last fault is stray, and no frame lies across its end.
Marked(str, items, to) ==
    /\ to <= Len(str)
    /\ \A i \in DOMAIN items :
          Here(items[i]) => (Stop(items[i]) <= to \/ items[i].at > to)
    /\ \A b \in Nat : Stray(str, items, b) => b <= to

\* A frame after a stray byte begins after the first fault.
Since(str, items, from) ==
    \A b \in Nat : Stray(str, items, b) =>
        /\ from # 0 /\ from <= Len(str)
        /\ \A i \in DOMAIN items :
              Here(items[i]) /\ items[i].at > b => items[i].at > from

Layout(str, items, from, to) ==
    /\ str \in Seq(Byte) /\ items \in Seq(Item) /\ from \in Nat /\ to \in Nat
    /\ Placed(str, items) /\ Ordered(items)
    /\ Marked(str, items, to) /\ Since(str, items, from)

\* A frame that Resynchronises allows to be lost.
Excused(items, i, from, to) ==
    /\ from # 0
    /\ items[i].at > from
    /\ \/ items[i].at <= to + kMaxFrame - 4
       \/ \E j \in 1 .. i : items[j].at > from /\ ~Plain(items[j].frame)

LEMMA PlacedIs ==
    ASSUME NEW str \in Seq(Byte), NEW s \in Item, Here(s), PlacedIn(str, s)
    PROVE  /\ s.at \in Nat \ {0} /\ Stop(s) \in Nat /\ Stop(s) <= Len(str)
           /\ Size(s.frame) \in 7 .. kMaxFrame /\ Stop(s) = s.at + Size(s.frame) - 1
           /\ Size(s.frame) = 7 + Len(s.frame.payload)
           /\ str[s.at] = kHead0 /\ str[s.at + 1] = kHead1
           /\ str[s.at + 3] = Len(s.frame.payload)
           /\ str[s.at + 3] \in Nat /\ str[s.at + 3] <= kMaxPayload
<1> DEFINE f == s.frame
           n == Len(f.payload)
           bytes == packFrame(f)
           a == s.at
<1>1. f \in SentFrame /\ a \in Nat /\ a # 0
  BY DEF Item, Here, Gone
<1>2. /\ n \in Nat /\ n <= kMaxPayload /\ bytes[1] = kHead0 /\ bytes[2] = kHead1
      /\ bytes[4] = n
  BY <1>1, PackIs
<1>3. Size(f) = 7 + n
  BY DEF Size, kFrameOverhead
<1>4. Stop(s) <= Len(str) /\ Stop(s) = a + Size(f) - 1
  BY DEF PlacedIn, Stop
<1>5. \A k \in 1 .. Size(f) : str[(a - 1) + k] = bytes[k]
  BY DEF PlacedIn
<1> HIDE DEF f, n, bytes, a
<1> DEFINE i == 1
           j == 2
           k == 4
<1>6. /\ i \in 1 .. Size(f) /\ j \in 1 .. Size(f) /\ k \in 1 .. Size(f)
      /\ (a - 1) + i = a /\ (a - 1) + j = a + 1 /\ (a - 1) + k = a + 3
  BY <1>1, <1>2, <1>3
<1> HIDE DEF i, j, k
<1>7. str[a] = bytes[i] /\ str[a + 1] = bytes[j] /\ str[a + 3] = bytes[k]
  BY <1>5, <1>6
<1>8. str[a] = kHead0 /\ str[a + 1] = kHead1 /\ str[a + 3] = n
  BY <1>2, <1>7 DEF i, j, k
<1>9. Size(f) \in 7 .. kMaxFrame /\ a + Size(f) - 1 \in Nat
  BY <1>1, <1>2, <1>3, CodecConstants
<1> QED
  BY <1>1, <1>2, <1>3, <1>4, <1>8, <1>9 DEF f, n, a

\* The header of a frame is no part of another header's first four bytes.
LEMMA NotWithin ==
    ASSUME NEW str \in Seq(Byte), NEW s \in Item, Here(s), PlacedIn(str, s),
           NEW q \in Nat, str[q + 1] = kHead1, str[q + 3] <= kMaxPayload
    PROVE  s.at # q + 1 /\ s.at # q + 2 /\ s.at # q + 3
<1> DEFINE a == s.at
<1>1. str[a] = 170 /\ str[a + 1] = 85 /\ a \in Nat
  BY PlacedIs, CodecConstants
<1>2. str[q + 1] = 85 /\ ~(str[q + 3] = 85) /\ ~(str[q + 3] = 170)
  BY CodecConstants
<1> HIDE DEF a
<1>3. a # q + 1
  BY <1>1, <1>2
<1>4. a # q + 2
  <2>1. a = q + 2 => a + 1 = q + 3
    BY <1>1
  <2> QED
    BY <1>1, <1>2, <2>1
<1>5. a # q + 3
  BY <1>1, <1>2
<1> QED
  BY <1>3, <1>4, <1>5 DEF a

\* A fault with a stray byte in a false header reaches beyond its length byte.
LEMMA Claim ==
    ASSUME NEW str, NEW items, NEW from, NEW to, Layout(str, items, from, to),
           NEW q \in Nat \ {0}, q + 3 <= Len(str),
           str[q + 1] = kHead1, str[q + 3] <= kMaxPayload,
           NEW b \in {q, q + 1}, Stray(str, items, b)
    PROVE  to >= q + 3
<1>1. /\ str \in Seq(Byte) /\ items \in Seq(Item) /\ to \in Nat /\ Len(str) \in Nat
      /\ b \in Nat /\ b >= q
  BY DEF Layout
<1>2. b <= to
  BY <1>1 DEF Layout, Marked
<1> SUFFICES ASSUME to < q + 3 PROVE FALSE
  BY <1>1
<1> DEFINE c == to + 1
<1>3. c \in Nat /\ c \in 1 .. Len(str) /\ ~(c <= to) /\ c <= q + 3 /\ c >= q + 1
  BY <1>1, <1>2
<1>4. ~Stray(str, items, c)
  BY <1>3 DEF Layout, Marked
<1>5. PICK k \in DOMAIN items : Covers(items[k], c)
  BY <1>3, <1>4 DEF Stray
<1> DEFINE s == items[k]
<1>6. s \in Item /\ Here(s) /\ s.at <= c /\ c <= Stop(s)
  BY <1>1, <1>5 DEF Covers
<1>7. PlacedIn(str, s) /\ (Stop(s) <= to \/ s.at > to)
  BY <1>6 DEF Layout, Placed, Marked
<1> HIDE DEF s
<1>8. s.at \in Nat /\ Stop(s) \in Nat
  BY <1>1, <1>6, <1>7, PlacedIs
<1>9. s.at = c
  <2> DEFINE x == s.at
             y == Stop(s)
  <2>1. x \in Nat /\ y \in Nat /\ x <= c /\ c <= y /\ (y <= to \/ x > to)
    BY <1>6, <1>7, <1>8
  <2>2. c = to + 1 /\ to \in Nat
    BY <1>1
  <2> HIDE DEF x, y, c
  <2>3. x = c
    BY <2>1, <2>2
  <2> QED
    BY <2>3 DEF x
<1>10. s.at # q + 1 /\ s.at # q + 2 /\ s.at # q + 3
  BY <1>1, <1>6, <1>7, NotWithin
<1> HIDE DEF c
<1> QED
  BY <1>3, <1>9, <1>10

\* A frame with a header inside is not plain.
LEMMA NotPlain ==
    ASSUME NEW str \in Seq(Byte), NEW s \in Item, Here(s), PlacedIn(str, s),
           NEW q \in Nat, s.at < q, q + 1 <= Stop(s),
           str[q] = kHead0, str[q + 1] = kHead1
    PROVE  ~Plain(s.frame)
<1> DEFINE f == s.frame
           bytes == packFrame(f)
           a == s.at
           n == Size(f)
           rest == Tail(bytes)
           j == q - a
           i == j + 1
           k == i + 1
<1>1. a \in Nat \ {0} /\ n \in Nat /\ n >= 7 /\ q + 1 <= a + n - 1
  BY PlacedIs
<1>2. bytes \in Seq(Byte) /\ Len(bytes) = n
  <2>1. f \in SentFrame
    BY DEF Item
  <2>2. Len(f.payload) \in Nat
    BY <2>1 DEF SentFrame, AnyFrame
  <2> QED
    BY <2>1, PackIs DEF Size, kFrameOverhead
<1>3. \A m \in 1 .. n : str[(a - 1) + m] = bytes[m]
  BY DEF PlacedIn
<1> HIDE DEF f, bytes, a, n
<1>4. /\ rest \in Seq(Byte) /\ Len(rest) = n - 1
      /\ \A m \in 1 .. n - 1 : rest[m] = bytes[m + 1]
  BY <1>1, <1>2
<1>5. /\ j \in 1 .. n - 2 /\ i \in 1 .. n /\ k \in 1 .. n
      /\ (a - 1) + i = q /\ (a - 1) + k = q + 1 /\ i \in 1 .. n - 1 /\ j \in 1 .. n - 1
  <2>1. a < q
    BY DEF a
  <2> QED
    BY <1>1, <2>1
<1> HIDE DEF rest
<1>6. bytes[i] = kHead0 /\ bytes[k] = kHead1
  <2> HIDE DEF i, j, k
  <2> QED
    BY <1>3, <1>5
<1>7. rest[j] = kHead0 /\ rest[i] = kHead1
  BY <1>4, <1>5, <1>6
<1>8. j \in Headers(rest)
  BY <1>4, <1>5, <1>7 DEF Headers
<1> QED
  BY <1>8 DEF Plain, rest, bytes, f

\* The parser has passed the frames that begin among the first n bytes: each is
\* excused, or was returned.
Passed(items, frames, n, from, to) ==
    \A i \in DOMAIN items :
        Here(items[i]) /\ items[i].at <= n =>
            \/ Excused(items, i, from, to)
            \/ items[i].frame \in ToSet(frames) /\ Stop(items[i]) <= n

\* A header that begins no frame: the frames that it claims are excused.
LEMMA FalseHeader ==
    ASSUME NEW str, NEW items, NEW from, NEW to, Layout(str, items, from, to),
           NEW q \in Nat \ {0}, q + 3 <= Len(str),
           str[q] = kHead0, str[q + 1] = kHead1, str[q + 3] <= kMaxPayload,
           NEW frames, Passed(items, frames, q - 1, from, to),
           \A k \in DOMAIN items : Here(items[k]) => items[k].at # q,
           NEW i \in DOMAIN items, Here(items[i]), q < items[i].at,
           items[i].at <= q + 6 + str[q + 3]
    PROVE  Excused(items, i, from, to)
<1>1. /\ str \in Seq(Byte) /\ items \in Seq(Item) /\ to \in Nat /\ from \in Nat
      /\ Len(str) \in Nat /\ str[q + 3] \in Nat
  <2>1. str \in Seq(Byte) /\ items \in Seq(Item) /\ to \in Nat /\ from \in Nat
    BY DEF Layout
  <2>2. str[q + 3] \in Nat /\ Len(str) \in Nat
    BY <2>1, LengthByte
  <2> QED
    BY <2>1, <2>2
<1>2. ASSUME NEW k \in DOMAIN items PROVE items[k] \in Item /\ items[k].at \in Nat
  <2>1. items[k] \in Item
    BY <1>1, InSeq
  <2> QED
    BY <2>1 DEF Item
\* A stray byte of the header excuses the frame.
<1>3. ASSUME NEW b \in {q, q + 1}, Stray(str, items, b), items[i].at > b \/ items[i].at > from
      PROVE  Excused(items, i, from, to)
  <2>1. to >= q + 3
    BY <1>3, Claim
  <2>2. b \in Nat
    OBVIOUS
  <2>3. from # 0 /\ items[i].at > from
    BY <1>3, <2>2 DEF Layout, Since
  <2>4. items[i].at <= to + kMaxFrame - 4
    <3> DEFINE x == items[i].at
               n == str[q + 3]
    <3>1. x \in Nat /\ n \in Nat /\ n <= kMaxPayload /\ x <= q + 6 + n
      BY <1>1, <1>2
    <3> HIDE DEF x, n
    <3>2. x <= to + kMaxFrame - 4
      BY <1>1, <2>1, <3>1, CodecConstants
    <3> QED
      BY <3>2 DEF x
  <2> QED
    BY <2>3, <2>4 DEF Excused
<1>4. CASE Stray(str, items, q)
  BY <1>3, <1>4
<1>5. CASE ~Stray(str, items, q)
  <2>1. q \in 1 .. Len(str)
    BY <1>1
  <2>2. PICK k \in DOMAIN items : Covers(items[k], q)
    BY <1>5, <2>1 DEF Stray
  <2> DEFINE s == items[k]
             x == items[i].at
             y == s.at
             e == Stop(s)
  <2>3. s \in Item /\ Here(s) /\ y <= q /\ q <= e /\ y # q /\ PlacedIn(str, s)
    BY <1>2, <2>2 DEF Covers, Layout, Placed
  <2>4. y \in Nat /\ e \in Nat /\ x \in Nat
    BY <1>1, <1>2, <2>3, PlacedIs
  <2>5. y < q /\ y < x /\ y <= q - 1 /\ ~(e <= q - 1)
    <3>1. q < x
      OBVIOUS
    <3> HIDE DEF x, y, e, s
    <3> QED
      BY <2>3, <2>4, <3>1
  <2>6. Excused(items, k, from, to)
    BY <2>3, <2>5 DEF Passed
  <2>7. from # 0 /\ y > from
    BY <2>6 DEF Excused
  <2>8. x > from
    <3> HIDE DEF x, y
    <3> QED
      BY <1>1, <2>4, <2>5, <2>7
  <2>9. CASE q + 1 <= e
    <3>1. ~Plain(s.frame)
      BY <1>1, <2>3, <2>5, <2>9, NotPlain
    <3>2. k \in 1 .. i
      <4>1. k \in Nat \ {0} /\ i \in Nat \ {0}
        BY <1>1, InSeq
      <4>2. ~(i < k)
        <5>1. i < k => Stop(items[i]) < y
          BY <2>3 DEF Layout, Ordered
        <5>2. Stop(items[i]) \in Nat /\ x <= Stop(items[i])
          <6>1. PlacedIn(str, items[i])
            BY DEF Layout, Placed
          <6> DEFINE z == Stop(items[i])
                     n == Size(items[i].frame)
          <6>2. z \in Nat /\ n \in Nat /\ n >= 7 /\ z = x + n - 1
            BY <1>1, <1>2, <6>1, PlacedIs
          <6> HIDE DEF z, n, x
          <6>3. x <= z
            BY <2>4, <6>2
          <6> QED
            BY <6>2, <6>3 DEF z
        <5> DEFINE z == Stop(items[i])
        <5> HIDE DEF x, y, z
        <5> QED
          BY <2>4, <2>5, <5>1, <5>2 DEF z
      <4> QED
        BY <4>1, <4>2
    <3> QED
      BY <2>7, <2>8, <3>1, <3>2 DEF Excused
  <2>10. CASE ~(q + 1 <= e)
    <3> DEFINE b == q + 1
    <3>1. e = q
      <4> HIDE DEF e
      <4> QED
        BY <2>3, <2>4, <2>10
    <3>2. b \in 1 .. Len(str)
      BY <1>1
    <3>3. ASSUME NEW m \in DOMAIN items, Covers(items[m], b) PROVE FALSE
      <4> DEFINE t == items[m]
                 u == t.at
                 v == Stop(t)
      <4>1. t \in Item /\ Here(t) /\ u <= b /\ b <= v /\ PlacedIn(str, t)
        BY <1>2, <3>3 DEF Covers, Layout, Placed
      <4>2. u \in Nat /\ v \in Nat
        BY <1>1, <4>1, PlacedIs
      <4>3. u # q + 1
        BY <1>1, <4>1, NotWithin
      <4>4. (k < m => e < u) /\ (m < k => v < y)
        BY <2>3, <4>1 DEF Layout, Ordered
      <4>5. k # m
        <5>1. e # v
          <6> HIDE DEF v, e
          <6> QED
            BY <3>1, <4>1, <4>2
        <5> QED
          BY <5>1
      <4>6. k \in Nat /\ m \in Nat
        <5>1. k \in Nat \ {0} /\ m \in Nat \ {0}
          BY <1>1, InSeq
        <5> QED
          BY <5>1
      <4> HIDE DEF t, u, v, s, y, e
      <4> QED
        BY <2>4, <2>5, <3>1, <4>1, <4>2, <4>3, <4>4, <4>5, <4>6
    <3>4. Stray(str, items, b)
      BY <3>2, <3>3 DEF Stray
    <3> QED
      BY <1>3, <2>8, <3>4
  <2> QED
    BY <2>9, <2>10
<1> QED
  BY <1>4, <1>5

-----------------------------------------------------------------------------
(* Rounds over the bytes that were read.                                   *)

\* Of the bytes str, those in all were read.
Begins(all, str) ==
    /\ all \in Seq(Byte) /\ Len(all) <= Len(str)
    /\ \A i \in 1 .. Len(all) : str[i] = all[i]

LEMMA PartIs ==
    ASSUME NEW s \in Seq(Byte), NEW t \in Seq(Byte), NEW n \in Nat,
           n <= Len(s), n <= Len(t), \A j \in 1 .. n : s[j] = t[j],
           NEW a \in Nat \ {0}, NEW b \in Nat, b <= n
    PROVE  SubSeq(s, a, b) = SubSeq(t, a, b)
<1> DEFINE u == SubSeq(s, a, b)
           v == SubSeq(t, a, b)
           m == IF a <= b THEN b - a + 1 ELSE 0
<1>1. /\ u \in Seq(Byte) /\ Len(u) = m /\ m \in Nat
      /\ \A i \in 1 .. m : u[i] = s[a + i - 1]
  OBVIOUS
<1>2. /\ v \in Seq(Byte) /\ Len(v) = m
      /\ \A i \in 1 .. m : v[i] = t[a + i - 1]
  OBVIOUS
<1> HIDE DEF u, v
<1>3. ASSUME NEW i \in 1 .. m PROVE u[i] = v[i]
  <2>1. a + i - 1 \in 1 .. n
    OBVIOUS
  <2> QED
    BY <1>1, <1>2, <2>1
<1> HIDE DEF m
<1>4. u = v
  BY <1>1, <1>2, <1>3, SameSeq
<1> QED
  BY <1>4 DEF u, v

\* A buffer that begins with a frame that was sent.
LEMMA FrontIs ==
    ASSUME NEW buf \in Seq(Byte), NEW f \in SentFrame, Size(f) <= Len(buf),
           \A j \in 1 .. Size(f) : buf[j] = packFrame(f)[j]
    PROVE  Whole(buf) /\ Sound(buf) /\ FrameOf(buf) = f /\ buf[4] = Len(f.payload)
<1> DEFINE n == Len(f.payload)
           bytes == packFrame(f)
           size == Size(f)
<1>1. /\ n \in Nat /\ n <= kMaxPayload
      /\ bytes \in Seq(Byte) /\ Len(bytes) = 7 + n
      /\ bytes[3] = f.type /\ bytes[4] = n /\ bytes[5] = f.seq
      /\ SubSeq(bytes, 6, 5 + n) = f.payload
      /\ SubSeq(bytes, 6 + n, 7 + n) = Checksum(SubSeq(bytes, 3, 5 + n))
  BY PackIs
<1>2. size = 7 + n
  BY DEF Size, kFrameOverhead
<1>3. f = [type |-> f.type, seq |-> f.seq, payload |-> f.payload]
  BY DEF SentFrame, AnyFrame
<1>4. size <= Len(buf) /\ \A j \in 1 .. size : buf[j] = bytes[j]
  OBVIOUS
<1> HIDE DEF n, bytes, size
<1>5. /\ 6 \in Nat \ {0} /\ 3 \in Nat \ {0} /\ 6 + n \in Nat \ {0}
      /\ 5 + n \in Nat /\ 7 + n \in Nat /\ size \in Nat
      /\ 5 + n <= size /\ 7 + n <= size /\ size <= Len(bytes)
  BY <1>1, <1>2
\* Parts within the frame are equal.
<1> DEFINE Same(a, b) == SubSeq(buf, a, b) = SubSeq(bytes, a, b)
<1>13. ASSUME NEW a \in Nat \ {0}, NEW b \in Nat, b <= size PROVE Same(a, b)
  <2>1. /\ buf \in Seq(Byte) /\ bytes \in Seq(Byte) /\ size \in Nat
        /\ size <= Len(buf) /\ size <= Len(bytes) /\ \A j \in 1 .. size : buf[j] = bytes[j]
    BY <1>1, <1>4, <1>5
  <2> QED
    BY <1>13, <2>1, PartIs
<1> HIDE DEF Same
<1>14. Same(6, 5 + n) /\ Same(3, 5 + n) /\ Same(6 + n, 7 + n)
  BY <1>5, <1>13, Zenon
<1>6. SubSeq(buf, 6, 5 + n) = SubSeq(bytes, 6, 5 + n)
  BY <1>14 DEF Same
<1>7. SubSeq(buf, 3, 5 + n) = SubSeq(bytes, 3, 5 + n)
  BY <1>14 DEF Same
<1>8. SubSeq(buf, 6 + n, 7 + n) = SubSeq(bytes, 6 + n, 7 + n)
  BY <1>14 DEF Same
<1>9. buf[3] = f.type /\ buf[4] = n /\ buf[5] = f.seq /\ Len(buf) >= 5 /\ Len(buf) >= 7 + n
  <2>1. 3 \in 1 .. size /\ 4 \in 1 .. size /\ 5 \in 1 .. size
    BY <1>1, <1>2
  <2>2. buf[3] = bytes[3] /\ buf[4] = bytes[4] /\ buf[5] = bytes[5]
    BY <1>4, <2>1
  <2> QED
    BY <1>1, <1>2, <1>4, <2>2
<1>10. Sound(buf)
  BY <1>1, <1>7, <1>8, <1>9 DEF Sound
<1>11. FrameOf(buf) = f
  BY <1>1, <1>3, <1>6, <1>9 DEF FrameOf
<1>12. Whole(buf)
  BY <1>1, <1>9 DEF Whole
<1> QED
  BY <1>9, <1>10, <1>11, <1>12 DEF n

\* Where a parser is when it has skipped to the next header.
LEMMA SkippedAt ==
    ASSUME NEW all \in Seq(Byte), NEW n \in 0 .. Len(all),
           NEW p \in AnyParser, p.buf = From(all, n)
    PROVE  LET q == Skipped(p)
               m == n + Skip(p.buf)
           IN  /\ q \in AnyParser /\ q.buf = From(all, m) /\ q.out = p.out
               /\ m \in 0 .. Len(all) /\ n <= m
               /\ \A x \in n + 1 .. m : ~HeadAt(all, x)
               /\ \A x \in n + 1 .. m : x = Len(all) => all[x] # kHead0
<1> DEFINE q == Skipped(p)
           k == Skip(p.buf)
           m == n + k
           len == Len(all)
<1>1. /\ p.buf \in Seq(Byte) /\ Len(p.buf) = len - n /\ len \in Nat
      /\ \A i \in 1 .. len - n : p.buf[i] = all[n + i]
  <2>1. /\ From(all, n) \in Seq(Byte) /\ Len(From(all, n)) = len - n
        /\ \A i \in 1 .. len - n : From(all, n)[i] = all[n + i]
    BY FromIs
  <2>2. len \in Nat
    OBVIOUS
  <2> QED
    BY <2>1, <2>2
<1>2. /\ q \in AnyParser /\ q.buf = From(p.buf, k) /\ q.out = p.out /\ k \in 0 .. Len(p.buf)
  BY SkippedIs
<1>3. SkipIs(p.buf, k)
  BY <1>1, SkipFound
<1> HIDE DEF q, k, len
<1>4. k \in Nat /\ m \in 0 .. len /\ n <= m /\ n + k <= len
  BY <1>1, <1>2 DEF len
<1>5. q.buf = From(all, m)
  <2>1. n \in Nat /\ n + k <= Len(all)
    BY <1>4 DEF len
  <2> QED
    BY <1>2, <1>4, <2>1, FromFrom
<1>6. ASSUME NEW x \in n + 1 .. m PROVE ~HeadAt(all, x)
  <2> DEFINE i == x - n
  <2>1. i \in 1 .. k /\ i \in Nat \ {0} /\ n + i = x
    BY <1>4
  <2> HIDE DEF i
  <2>2. ~HeadAt(p.buf, i)
    BY <1>3, <2>1 DEF SkipIs
  <2> QED
    BY <2>1, <2>2, HeadFrom
<1>7. ASSUME NEW x \in n + 1 .. m, x = len PROVE all[x] # kHead0
  <2>1. m = len /\ k = len - n /\ k \in Nat \ {0} /\ k \in 1 .. len - n /\ n + k = x
    BY <1>1, <1>4, <1>7
  <2>2. ~HeadAt(p.buf, k + 1)
    BY <1>1, <2>1 DEF HeadAt
  <2>3. ~HalfHead(p.buf)
    <3>1. k # Len(p.buf) - 1
      BY <1>1, <2>1
    <3> QED
      BY <1>3, <2>2, <3>1 DEF SkipIs
  <2>4. p.buf # <<>> /\ p.buf[k] = all[x] /\ Len(p.buf) = k
    BY <1>1, <2>1
  <2> QED
    BY <2>3, <2>4 DEF HalfHead
<1> QED
  BY <1>2, <1>4, <1>5, <1>6, <1>7 DEF q, k, len

\* No frame begins among the bytes that are skipped.
LEMMA NoneSkipped ==
    ASSUME NEW str, NEW items, NEW from, NEW to, Layout(str, items, from, to),
           NEW all, Begins(all, str), NEW n \in 0 .. Len(all), NEW m \in 0 .. Len(all),
           n <= m,
           \A x \in n + 1 .. m : ~HeadAt(all, x),
           \A x \in n + 1 .. m : x = Len(all) => all[x] # kHead0,
           NEW i \in DOMAIN items, Here(items[i]), items[i].at <= m
    PROVE  items[i].at <= n
<1> DEFINE s == items[i]
           x == s.at
           y == x + 1
           len == Len(all)
<1>1. s \in Item /\ PlacedIn(str, s) /\ str \in Seq(Byte)
  <2>1. items \in Seq(Item)
    BY DEF Layout
  <2> QED
    BY <2>1, InSeq DEF Layout, Placed
<1>2. str[x] = kHead0 /\ str[y] = kHead1 /\ x \in Nat \ {0}
  BY <1>1, PlacedIs
<1>3. len \in Nat /\ \A j \in 1 .. len : str[j] = all[j]
  <2>1. all \in Seq(Byte)
    BY DEF Begins
  <2> QED
    BY <2>1 DEF Begins
<1>4. x <= m /\ m \in 0 .. len /\ n \in 0 .. len
  OBVIOUS
<1> HIDE DEF s, x, len
<1> SUFFICES ASSUME ~(x <= n) PROVE FALSE
  BY DEF x, s
<1>5. x \in n + 1 .. m /\ x \in 1 .. len
  BY <1>2, <1>3, <1>4
<1>6. all[x] = kHead0
  BY <1>2, <1>3, <1>5
<1>7. CASE x = len
  BY <1>5, <1>6, <1>7 DEF len
<1>8. CASE x # len
  <2>1. y \in 1 .. len /\ x \in 1 .. len - 1
    BY <1>3, <1>5, <1>8
  <2>2. all[y] = kHead1
    BY <1>2, <1>3, <2>1
  <2>3. HeadAt(all, x)
    BY <1>6, <2>1, <2>2 DEF HeadAt, len
  <2> QED
    BY <1>5, <2>3
<1> QED
  BY <1>7, <1>8

\* What was returned stays returned.
LEMMA AppendKeeps ==
    ASSUME NEW S, NEW s \in Seq(S), NEW e \in S
    PROVE  ToSet(s) \subseteq ToSet(Append(s, e)) /\ e \in ToSet(Append(s, e))
<1> DEFINE v == Append(s, e)
           n == Len(s) + 1
<1>1. /\ \A i \in DOMAIN s : i \in DOMAIN v /\ v[i] = s[i]
      /\ n \in DOMAIN v /\ v[n] = e
  OBVIOUS
<1> HIDE DEF v, n
<1> QED
  BY <1>1 DEF ToSet, v

LEMMA PassedStays ==
    ASSUME NEW items, NEW frames, NEW more, ToSet(frames) \subseteq ToSet(more),
           NEW n \in Nat, NEW m \in Nat, n <= m, NEW from, NEW to,
           Passed(items, frames, n, from, to),
           NEW i \in DOMAIN items, Here(items[i]), Stop(items[i]) \in Nat, items[i].at <= n
    PROVE  \/ Excused(items, i, from, to)
           \/ items[i].frame \in ToSet(more) /\ Stop(items[i]) <= m
<1>1. \/ Excused(items, i, from, to)
      \/ items[i].frame \in ToSet(frames) /\ Stop(items[i]) <= n
  BY DEF Passed
<1> DEFINE y == Stop(items[i])
<1>2. y \in Nat
  OBVIOUS
<1> HIDE DEF y
<1>3. y <= n => y <= m
  BY <1>2
<1> QED
  BY <1>1, <1>3 DEF y

LEMMA LayoutTypes ==
    ASSUME NEW str, NEW items, NEW from, NEW to, Layout(str, items, from, to),
           NEW i \in DOMAIN items
    PROVE  /\ items[i] \in Item /\ i \in Nat \ {0}
           /\ Here(items[i]) =>
                 /\ PlacedIn(str, items[i])
                 /\ items[i].at \in Nat /\ Stop(items[i]) \in Nat
                 /\ items[i].at <= Stop(items[i])
<1>1. items \in Seq(Item) /\ str \in Seq(Byte)
  BY DEF Layout
<1>2. items[i] \in Item /\ i \in Nat \ {0}
  BY <1>1, InSeq
<1>3. ASSUME Here(items[i])
      PROVE  PlacedIn(str, items[i]) /\ items[i].at \in Nat /\ Stop(items[i]) \in Nat
             /\ items[i].at <= Stop(items[i])
  <2>1. PlacedIn(str, items[i])
    BY <1>3 DEF Layout, Placed
  <2> DEFINE s == items[i]
             x == s.at
             y == Stop(s)
             n == Size(s.frame)
  <2>2. x \in Nat \ {0} /\ y \in Nat /\ n \in Nat /\ n >= 7 /\ y = x + n - 1
    BY <1>1, <1>2, <1>3, <2>1, PlacedIs
  <2> HIDE DEF x, y, n
  <2>3. x \in Nat /\ x <= y
    BY <2>2
  <2> QED
    BY <2>1, <2>2, <2>3 DEF x, y
<1> QED
  BY <1>2, <1>3

\* What was read of the bytes, and the header at the front of the rest.
LEMMA ReadIs ==
    ASSUME NEW str \in Seq(Byte), NEW all, Begins(all, str)
    PROVE  /\ all \in Seq(Byte) /\ Len(all) \in Nat /\ Len(str) \in Nat
           /\ Len(all) <= Len(str) /\ \A i \in 1 .. Len(all) : str[i] = all[i]
<1>1. all \in Seq(Byte)
  BY DEF Begins
<1> QED
  BY <1>1 DEF Begins

LEMMA RestAt ==
    ASSUME NEW str \in Seq(Byte), NEW all, Begins(all, str), NEW k \in 0 .. Len(all),
           NEW buf, buf = From(all, k)
    PROVE  /\ buf \in Seq(Byte) /\ Len(buf) = Len(all) - k /\ k \in Nat
           /\ Len(buf) \in Nat /\ k + Len(buf) = Len(all) /\ k <= Len(str)
           /\ \A y \in 1 .. Len(buf) : buf[y] = str[k + y]
<1> DEFINE len == Len(all)
           m == Len(buf)
<1>1. /\ all \in Seq(Byte) /\ len \in Nat /\ Len(str) \in Nat
      /\ len <= Len(str) /\ \A i \in 1 .. len : str[i] = all[i]
  BY ReadIs
<1>2. /\ buf \in Seq(Byte) /\ m = len - k
      /\ \A y \in 1 .. len - k : buf[y] = all[k + y]
  BY <1>1, FromIs
<1>3. k \in 0 .. len
  OBVIOUS
<1> HIDE DEF len, m
<1>4. k \in Nat /\ m \in Nat /\ k + m = len /\ k <= Len(str)
  BY <1>1, <1>2, <1>3
<1>5. ASSUME NEW y \in 1 .. m PROVE buf[y] = str[k + y]
  <2>1. y \in 1 .. len - k /\ k + y \in 1 .. len
    BY <1>2, <1>4
  <2> QED
    BY <1>1, <1>2, <2>1
<1> QED
  BY <1>2, <1>4, <1>5 DEF len, m

LEMMA HeaderIs ==
    ASSUME NEW str \in Seq(Byte), NEW all, Begins(all, str), NEW k \in 0 .. Len(all),
           NEW buf, buf = From(all, k), HeadAt(buf, 1), 5 <= Len(buf),
           NEW h, h = k + 1
    PROVE  /\ h \in Nat \ {0} /\ h + 3 <= Len(str)
           /\ str[h] = kHead0 /\ str[h + 1] = kHead1 /\ str[h + 3] = buf[4]
           /\ buf[4] \in Nat
<1> DEFINE m == Len(buf)
           c == 4
           a == 1
           b == 2
<1>1. /\ buf \in Seq(Byte) /\ k \in Nat /\ m \in Nat /\ k + m <= Len(str)
      /\ Len(str) \in Nat
      /\ \A y \in 1 .. m : buf[y] = str[k + y]
  <2>1. Len(all) <= Len(str) /\ Len(str) \in Nat
    BY ReadIs
  <2> QED
    BY <2>1, RestAt
<1>2. buf[a] = kHead0 /\ buf[b] = kHead1
  BY DEF HeadAt
<1>3. 5 <= m
  OBVIOUS
<1> HIDE DEF m
<1>4. /\ a \in 1 .. m /\ b \in 1 .. m /\ c \in 1 .. m
      /\ k + a = h /\ k + b = h + 1 /\ k + c = h + 3
      /\ h \in Nat \ {0} /\ h + 3 <= Len(str) /\ c \in Nat \ {0} /\ c <= m
  BY <1>1, <1>3
<1> DEFINE n == buf[c]
<1> HIDE DEF a, b, c
<1>5. n \in Nat
  BY <1>1, <1>4, ByteAt DEF m
<1>6. buf[a] = str[k + a] /\ buf[b] = str[k + b] /\ buf[c] = str[k + c]
  BY <1>1, <1>4
<1>7. str[h] = kHead0 /\ str[h + 1] = kHead1 /\ str[h + 3] = n
  BY <1>2, <1>4, <1>6
<1> HIDE DEF n
<1>8. n = buf[4]
  BY DEF n, c
<1> QED
  BY <1>4, <1>5, <1>7, <1>8

\* The header with a length that is too large begins no frame.
LEMMA PassTooLong ==
    ASSUME NEW str, NEW items, NEW from, NEW to, Layout(str, items, from, to),
           NEW all, Begins(all, str), NEW k \in 0 .. Len(all),
           NEW buf, buf = From(all, k), HeadAt(buf, 1), TooLongAt(buf),
           NEW frames, Passed(items, frames, k, from, to)
    PROVE  k + 2 \in 0 .. Len(all) /\ Passed(items, frames, k + 2, from, to)
<1> DEFINE h == k + 1
           m == k + 2
           n4 == buf[4]
<1>1. str \in Seq(Byte)
  BY DEF Layout
<1>2. /\ buf \in Seq(Byte) /\ k \in Nat /\ Len(buf) \in Nat /\ k + Len(buf) = Len(all)
  BY <1>1, RestAt
<1>3. 5 <= Len(buf)
  BY <1>2, TooLongIs
<1>4. n4 > kMaxPayload
  BY DEF TooLongAt
<1>5. /\ h \in Nat \ {0} /\ str[h] = kHead0 /\ str[h + 1] = kHead1 /\ str[h + 3] = n4
      /\ n4 \in Nat
  BY <1>1, <1>3, HeaderIs
<1>6. h = k + 1 /\ m = k + 2 /\ m \in Nat /\ k <= m
  BY <1>2
<1> HIDE DEF h, m, n4
<1>7. ASSUME NEW i \in DOMAIN items, Here(items[i]), items[i].at <= m, ~(items[i].at <= k)
      PROVE  FALSE
  <2> DEFINE s == items[i]
             x == s.at
  <2>1. s \in Item /\ PlacedIn(str, s) /\ x \in Nat
    BY <1>7, LayoutTypes
  <2>2. str[x] = kHead0 /\ str[x + 3] <= kMaxPayload
    BY <1>1, <1>7, <2>1, PlacedIs
  <2>3. x <= m /\ ~(x <= k)
    BY <1>7
  <2> HIDE DEF x
  <2>4. x = h \/ x = h + 1
    BY <1>2, <1>6, <2>1, <2>3
  <2>5. CASE x = h
    <3>1. n4 <= kMaxPayload /\ kMaxPayload \in Nat
      BY <1>5, <2>2, <2>5, CodecConstants
    <3> QED
      BY <1>4, <1>5, <3>1
  <2>6. CASE x = h + 1
    <3>1. str[h + 1] = kHead0
      BY <2>2, <2>6
    <3>2. kHead0 # kHead1
      BY DEF kHead0, kHead1
    <3> QED
      BY <1>5, <3>1, <3>2, Zenon
  <2> QED
    BY <2>4, <2>5, <2>6
<1>8. \A i \in DOMAIN items : Here(items[i]) => items[i].at \in Nat /\ Stop(items[i]) \in Nat
  BY LayoutTypes
<1>9. Passed(items, frames, m, from, to)
  <2> SUFFICES ASSUME NEW i \in DOMAIN items, Here(items[i]), items[i].at <= m
               PROVE  \/ Excused(items, i, from, to)
                      \/ items[i].frame \in ToSet(frames) /\ Stop(items[i]) <= m
    BY DEF Passed
  <2>1. CASE items[i].at <= k
    <3>1. Stop(items[i]) \in Nat
      BY <1>8
    <3> QED
      BY <1>2, <1>6, <2>1, <3>1, PassedStays
  <2>2. CASE ~(items[i].at <= k)
    BY <1>7, <2>2
  <2> QED
    BY <2>1, <2>2
<1>10. m \in 0 .. Len(all)
  BY <1>2, <1>3, <1>6
<1> QED
  BY <1>9, <1>10 DEF m

\* A sent frame at the front of the rest is the frame that is taken.
LEMMA FrontSent ==
    ASSUME NEW str \in Seq(Byte), NEW all, Begins(all, str), NEW k \in 0 .. Len(all),
           NEW buf, buf = From(all, k), HeadAt(buf, 1), Whole(buf),
           NEW s \in Item, Here(s), PlacedIn(str, s), s.at = k + 1
    PROVE  /\ Sound(buf) /\ FrameOf(buf) = s.frame
           /\ Stop(s) = k + (7 + buf[4])
<1> DEFINE h == k + 1
           g == s.frame
           n == buf[4]
           d == 7 + n
<1>1. /\ buf \in Seq(Byte) /\ k \in Nat /\ Len(buf) \in Nat
      /\ \A y \in 1 .. Len(buf) : buf[y] = str[k + y]
  BY RestAt
<1>2. 5 <= Len(buf) /\ d <= Len(buf)
  BY <1>1, TooLongIs DEF Whole
<1>3. str[h + 3] = n /\ n \in Nat
  BY <1>2, HeaderIs
<1>4. g \in SentFrame
  BY DEF Item
<1>5. Size(g) = 7 + Len(g.payload) /\ str[s.at + 3] = Len(g.payload)
  BY PlacedIs
<1>6. Size(g) = d
  BY <1>3, <1>5
<1>7. \A y \in 1 .. Size(g) : str[(s.at - 1) + y] = packFrame(g)[y]
  BY DEF PlacedIn
<1>8. s.at - 1 = k
  <2> DEFINE x == s.at
  <2>1. x = k + 1
    OBVIOUS
  <2> HIDE DEF x
  <2>2. x - 1 = k
    BY <1>1, <2>1
  <2> QED
    BY <2>2 DEF x
<1>9. ASSUME NEW y \in 1 .. Size(g) PROVE buf[y] = packFrame(g)[y]
  <2>1. y \in 1 .. Len(buf)
    <3> HIDE DEF n
    <3> QED
      BY <1>1, <1>2, <1>3, <1>6
  <2>2. str[k + y] = packFrame(g)[y]
    BY <1>7, <1>8
  <2> QED
    BY <1>1, <2>1, <2>2
<1>10. Sound(buf) /\ FrameOf(buf) = g
  BY <1>1, <1>2, <1>4, <1>6, <1>9, FrontIs
<1>11. Stop(s) = h + d - 1
  BY <1>6 DEF Stop
<1>12. h + d - 1 = k + d
  <2> HIDE DEF n
  <2> QED
    BY <1>1, <1>3
<1> QED
  BY <1>10, <1>11, <1>12

\* The parser after a complete frame: the frames returned so far.
AfterTaking(frames, buf) ==
    IF Sound(buf) THEN Append(frames, FrameOf(buf)) ELSE frames

\* A complete frame is one that was sent, or all that begin in it are excused.
LEMMA PassWhole ==
    ASSUME NEW str, NEW items, NEW from, NEW to, Layout(str, items, from, to),
           NEW all, Begins(all, str), NEW k \in 0 .. Len(all),
           NEW buf, buf = From(all, k), HeadAt(buf, 1), Whole(buf),
           NEW frames \in Seq(AnyFrame), Passed(items, frames, k, from, to)
    PROVE  /\ k + (7 + buf[4]) \in 0 .. Len(all)
           /\ Passed(items, AfterTaking(frames, buf), k + (7 + buf[4]), from, to)
<1> DEFINE h == k + 1
           n4 == buf[4]
           d == 7 + n4
           m == k + d
           more == AfterTaking(frames, buf)
<1>1. str \in Seq(Byte)
  BY DEF Layout
<1>2. buf \in Seq(Byte) /\ k \in Nat /\ Len(buf) \in Nat /\ k + Len(buf) = Len(all)
  BY <1>1, RestAt
<1>3. 5 <= Len(buf) /\ d <= Len(buf) /\ n4 <= kMaxPayload
  BY <1>2, TooLongIs DEF Whole
<1>4. /\ h \in Nat \ {0} /\ h + 3 <= Len(str)
      /\ str[h] = kHead0 /\ str[h + 1] = kHead1 /\ str[h + 3] = n4
      /\ n4 \in Nat
  BY <1>1, <1>3, HeaderIs
<1>5. /\ m \in Nat /\ k <= m /\ m <= Len(all) /\ h = k + 1 /\ m = h + 6 + n4 /\ h - 1 = k
  <2> HIDE DEF n4
  <2> QED
    BY <1>2, <1>3, <1>4
<1>6. FrameOf(buf) \in AnyFrame
  BY <1>2, FrameOfType
<1>7. ToSet(frames) \subseteq ToSet(more) /\ (Sound(buf) => FrameOf(buf) \in ToSet(more))
  BY <1>6, AppendKeeps DEF AfterTaking
<1> HIDE DEF h, m, d, n4, more
<1>8. ASSUME NEW j \in DOMAIN items, Here(items[j]), items[j].at = h
      PROVE  items[j].frame \in ToSet(more) /\ Stop(items[j]) = m
  <2>1. items[j] \in Item /\ PlacedIn(str, items[j]) /\ items[j].at = k + 1
    BY <1>5, <1>8, LayoutTypes
  <2> QED
    BY <1>1, <1>7, <1>8, <2>1, FrontSent DEF m, d, n4
<1>9. ASSUME NEW i \in DOMAIN items, Here(items[i]), items[i].at <= m, ~(items[i].at <= k)
      PROVE  \/ Excused(items, i, from, to)
             \/ items[i].frame \in ToSet(more) /\ Stop(items[i]) <= m
  <2> DEFINE x == items[i].at
  <2>1. /\ x \in Nat /\ x <= m /\ ~(x <= k)
        /\ Stop(items[i]) \in Nat /\ x <= Stop(items[i])
    BY <1>9, LayoutTypes
  <2>2. CASE \E j \in DOMAIN items : Here(items[j]) /\ items[j].at = h
    <3>1. PICK j \in DOMAIN items : Here(items[j]) /\ items[j].at = h
      BY <2>2
    <3>2. items[j].frame \in ToSet(more) /\ Stop(items[j]) = m
      BY <1>8, <3>1
    <3>3. CASE i = j
      <4>1. m <= m
        BY <1>5
      <4> QED
        BY <3>2, <3>3, <4>1
    <3>4. CASE i # j
      <4> DEFINE y == Stop(items[i])
                 z == Stop(items[j])
      <4>1. (i < j => y < h) /\ (j < i => z < x)
        BY <1>9, <3>1 DEF Layout, Ordered
      <4>2. i \in Nat \ {0} /\ j \in Nat \ {0} /\ y \in Nat /\ x <= y /\ z = m
        BY <2>1, <3>2, LayoutTypes
      <4> HIDE DEF x, y, z
      <4>3. i < j \/ j < i
        BY <3>4, <4>2
      <4>4. CASE i < j
        <5>1. y < h
          BY <4>1, <4>4
        <5>2. x <= k
          BY <1>2, <1>5, <2>1, <4>2, <5>1
        <5> QED
          BY <2>1, <5>2
      <4>5. CASE j < i
        <5>1. m < x
          BY <4>1, <4>2, <4>5
        <5> QED
          BY <1>5, <2>1, <5>1
      <4> QED
        BY <4>3, <4>4, <4>5
    <3> QED
      BY <3>3, <3>4
  <2>3. CASE \A j \in DOMAIN items : Here(items[j]) => items[j].at # h
    <3>1. x # h
      BY <1>9, <2>3
    <3> HIDE DEF x
    <3>2. h < x /\ x <= h + 6 + str[h + 3]
      BY <1>2, <1>4, <1>5, <2>1, <3>1
    <3>3. str[h + 3] <= kMaxPayload
      BY <1>3, <1>4
    <3>4. Passed(items, frames, h - 1, from, to)
      BY <1>5
    <3>5. Here(items[i]) /\ h < items[i].at /\ items[i].at <= h + 6 + str[h + 3]
      BY <1>9, <3>2 DEF x
    <3>6. Excused(items, i, from, to)
      BY <1>4, <2>3, <3>3, <3>4, <3>5, FalseHeader
    <3> QED
      BY <3>6
  <2> QED
    BY <2>2, <2>3
<1>10. \A i \in DOMAIN items : Here(items[i]) => items[i].at \in Nat /\ Stop(items[i]) \in Nat
  BY LayoutTypes
<1>11. Passed(items, more, m, from, to)
  <2> SUFFICES ASSUME NEW i \in DOMAIN items, Here(items[i]), items[i].at <= m
               PROVE  \/ Excused(items, i, from, to)
                      \/ items[i].frame \in ToSet(more) /\ Stop(items[i]) <= m
    BY DEF Passed
  <2>1. CASE items[i].at <= k
    <3>1. Stop(items[i]) \in Nat
      BY <1>10
    <3> QED
      BY <1>2, <1>5, <1>7, <2>1, <3>1, PassedStays
  <2>2. CASE ~(items[i].at <= k)
    BY <1>9, <2>2
  <2> QED
    BY <2>1, <2>2
<1>12. m \in 0 .. Len(all)
  BY <1>2, <1>5
<1> QED
  BY <1>11, <1>12 DEF m, d, n4, more

\* A round passes the frames that it reads.
LEMMA RoundPassed ==
    ASSUME NEW str, NEW items, NEW from, NEW to, Layout(str, items, from, to),
           NEW all, Begins(all, str), NEW n \in 0 .. Len(all),
           NEW p \in AnyParser, p.buf = From(all, n), NEW frames \in Seq(AnyFrame),
           Passed(items, frames \o p.out, n, from, to)
    PROVE  \E m \in 0 .. Len(all) :
              /\ Round(p).buf = From(all, m)
              /\ Passed(items, frames \o Round(p).out, m, from, to)
<1> DEFINE q == Skipped(p)
           r == Round(p)
           k == n + Skip(p.buf)
           found == frames \o q.out
<1>1. str \in Seq(Byte) /\ all \in Seq(Byte) /\ Len(all) \in Nat
  <2>1. str \in Seq(Byte)
    BY DEF Layout
  <2> QED
    BY <2>1, ReadIs
<1>2. /\ q \in AnyParser /\ q.buf = From(all, k) /\ q.out = p.out
      /\ k \in 0 .. Len(all) /\ n <= k
      /\ \A x \in n + 1 .. k : ~HeadAt(all, x)
      /\ \A x \in n + 1 .. k : x = Len(all) => all[x] # kHead0
  BY <1>1, SkippedAt
<1>3. n \in Nat /\ k \in Nat
  BY <1>1, <1>2
<1>4. Passed(items, found, k, from, to)
  <2> SUFFICES ASSUME NEW i \in DOMAIN items, Here(items[i]), items[i].at <= k
               PROVE  \/ Excused(items, i, from, to)
                      \/ items[i].frame \in ToSet(found) /\ Stop(items[i]) <= k
    BY DEF Passed
  <2> HIDE DEF q, k
  <2>1. items[i].at <= n
    BY <1>2, NoneSkipped
  <2>2. Stop(items[i]) \in Nat
    BY LayoutTypes
  <2>3. ToSet(frames \o p.out) \subseteq ToSet(found)
    BY <1>2
  <2> HIDE DEF found
  <2> QED
    BY <1>2, <1>3, <2>1, <2>2, <2>3, PassedStays
<1>5. q.out \in Seq(AnyFrame) /\ q.buf \in Seq(Byte)
  <2> HIDE DEF q
  <2> QED
    BY <1>2 DEF AnyParser
<1>6. found \in Seq(AnyFrame)
  <2> DEFINE o == q.out
  <2> HIDE DEF o
  <2>1. frames \o o \in Seq(AnyFrame)
    BY <1>5 DEF o
  <2> QED
    BY <2>1 DEF o
<1>7. TooLongAt(q.buf) \/ Whole(q.buf) => HeadAt(q.buf, 1) /\ 5 <= Len(q.buf)
  BY RoundCases DEF Acts
<1> HIDE DEF k
<1>8. ASSUME NEW m \in 0 .. Len(all), r.buf = From(all, m),
             Passed(items, frames \o r.out, m, from, to)
      PROVE  \E x \in 0 .. Len(all) :
                r.buf = From(all, x) /\ Passed(items, frames \o r.out, x, from, to)
  BY <1>8
<1>9. CASE ~Acts(p)
  <2>1. r = q
    BY <1>9, RoundCases
  <2> HIDE DEF q, r
  <2>2. r.buf = From(all, k) /\ Passed(items, frames \o r.out, k, from, to)
    BY <1>2, <1>4, <2>1
  <2> QED
    BY <1>2, <1>8, <2>2 DEF r
<1>10. CASE TooLongAt(q.buf)
  <2>1. r = Dropped(q, 2, 1)
    BY <1>10, RoundCases
  <2> HIDE DEF q, r
  <2>2. HeadAt(q.buf, 1) /\ 5 <= Len(q.buf)
    BY <1>7, <1>10
  <2>3. k + 2 \in 0 .. Len(all) /\ Passed(items, found, k + 2, from, to)
    BY <1>2, <1>4, <1>10, <2>2, PassTooLong
  <2>4. 2 \in 0 .. Len(q.buf) /\ 1 \in Nat
    <3>1. Len(q.buf) \in Nat
      BY <1>5
    <3> QED
      BY <2>2, <3>1
  <2>5. r.buf = From(q.buf, 2) /\ r.out = q.out
    BY <1>2, <2>1, <2>4, DroppedIs, Zenon
  <2>6. From(From(all, k), 2) = From(all, k + 2)
    <3> DEFINE c == 2
    <3>1. c \in Nat /\ k + c <= Len(all)
      BY <1>1, <2>3
    <3> HIDE DEF c
    <3>2. From(From(all, k), c) = From(all, k + c)
      BY <1>1, <1>3, <3>1, FromFrom
    <3> QED
      BY <3>2 DEF c
  <2> DEFINE m == k + 2
  <2>7. /\ m \in 0 .. Len(all) /\ r.buf = From(all, m)
        /\ Passed(items, frames \o r.out, m, from, to)
    BY <1>2, <2>3, <2>5, <2>6
  <2> HIDE DEF m
  <2> QED
    BY <1>8, <2>7 DEF r
<1>11. CASE Whole(q.buf)
  <2> DEFINE d == 7 + q.buf[4]
             m == k + d
             f == FrameOf(q.buf)
  <2>1. r = AfterFrame(q)
    BY <1>11, RoundCases
  <2>2. r.buf = From(q.buf, d)
    BY <2>1 DEF AfterFrame
  <2>3. r.out = IF Sound(q.buf) THEN Append(q.out, f) ELSE q.out
    BY <2>1 DEF AfterFrame
  <2> HIDE DEF q, r
  <2>4. HeadAt(q.buf, 1)
    BY <1>7, <1>11
  <2>5. m \in 0 .. Len(all) /\ Passed(items, AfterTaking(found, q.buf), m, from, to)
    BY <1>2, <1>4, <1>6, <1>11, <2>4, PassWhole
  <2>6. d \in Nat
    <3>1. d \in 1 .. Len(q.buf)
      BY <1>5, <1>11, FrameOfType
    <3> HIDE DEF d
    <3> QED
      BY <3>1
  <2>7. From(From(all, k), d) = From(all, m)
    <3> HIDE DEF d
    <3>1. k + d <= Len(all)
      BY <1>1, <2>5
    <3> QED
      BY <1>1, <1>3, <2>6, <3>1, FromFrom
  <2>8. AfterTaking(found, q.buf) = frames \o r.out
    <3>1. CASE Sound(q.buf)
      <4>1. f \in AnyFrame
        BY <1>5, <1>11, FrameOfType
      <4>2. frames \o Append(q.out, f) = Append(frames \o q.out, f)
        <5> DEFINE o == q.out
        <5>1. o \in Seq(AnyFrame)
          BY <1>5
        <5> HIDE DEF o, f
        <5>2. frames \o Append(o, f) = Append(frames \o o, f)
          BY <4>1, <5>1, JoinAppend
        <5> QED
          BY <5>2 DEF o
      <4> QED
        BY <2>3, <3>1, <4>2 DEF AfterTaking
    <3>2. CASE ~Sound(q.buf)
      BY <2>3, <3>2 DEF AfterTaking
    <3> QED
      BY <3>1, <3>2
  <2>9. r.buf = From(all, m) /\ Passed(items, frames \o r.out, m, from, to)
    BY <1>2, <2>2, <2>5, <2>7, <2>8
  <2> HIDE DEF m
  <2> QED
    BY <1>8, <2>5, <2>9 DEF r
<1> QED
  BY <1>9, <1>10, <1>11 DEF Acts

\* And so do all rounds of one call.
LEMMA SettledPassed ==
    ASSUME NEW str, NEW items, NEW from, NEW to, Layout(str, items, from, to),
           NEW all, Begins(all, str), NEW n \in 0 .. Len(all),
           NEW p \in AnyParser, p.buf = From(all, n), NEW frames \in Seq(AnyFrame),
           Passed(items, frames \o p.out, n, from, to)
    PROVE  \E m \in 0 .. Len(all) :
              /\ Settled(p).buf = From(all, m)
              /\ Passed(items, frames \o Settled(p).out, m, from, to)
<1> DEFINE At(q) == \E m \in 0 .. Len(all) :
                       q.buf = From(all, m) /\ Passed(items, frames \o q.out, m, from, to)
           P == {i \in Nat : At(Rounds(p, i))}
<1>1. 0 \in P
  <2>1. Rounds(p, 0) = p
    BY RoundsStep
  <2> QED
    BY <2>1
<1>2. ASSUME NEW i \in Nat, i \in P PROVE i + 1 \in P
  <2> DEFINE q == Rounds(p, i)
  <2>1. q \in AnyParser /\ Rounds(p, i + 1) = Round(q) /\ At(q)
    BY <1>2, RoundsType, RoundsStep
  <2> HIDE DEF q
  <2>2. PICK m \in 0 .. Len(all) :
           q.buf = From(all, m) /\ Passed(items, frames \o q.out, m, from, to)
    BY <2>1
  <2>3. At(Round(q))
    BY <2>1, <2>2, RoundPassed
  <2> QED
    BY <2>1, <2>3
<1> HIDE DEF P
<1>3. Nat \subseteq P
  BY <1>1, <1>2, Induction
<1>4. Len(p.buf) \in P
  BY <1>3 DEF AnyParser
<1> QED
  BY <1>4 DEF P, Settled

-----------------------------------------------------------------------------
(* The line gets longer, or is cut off.                                    *)

LEMMA JoinIs ==
    ASSUME NEW S, NEW s \in Seq(S), NEW t \in Seq(S)
    PROVE  /\ s \o t \in Seq(S) /\ Len(s \o t) = Len(s) + Len(t)
           /\ Len(s) \in Nat /\ Len(t) \in Nat
           /\ \A i \in 1 .. Len(s) : (s \o t)[i] = s[i]
           /\ \A i \in 1 .. Len(t) : (s \o t)[Len(s) + i] = t[i]
  OBVIOUS

LEMMA PlacedJoin ==
    ASSUME NEW str \in Seq(Byte), NEW more \in Seq(Byte), NEW s \in Item, Here(s),
           PlacedIn(str, s)
    PROVE  PlacedIn(str \o more, s)
<1> DEFINE all == str \o more
           a == s.at
           n == Size(s.frame)
           len == Len(str)
<1>1. /\ Len(all) = len + Len(more) /\ len \in Nat /\ Len(more) \in Nat
      /\ \A i \in 1 .. len : all[i] = str[i]
  BY JoinIs
<1>2. a \in Nat \ {0} /\ n \in Nat /\ Stop(s) = a + n - 1 /\ Stop(s) <= len
  BY PlacedIs
<1>3. \A k \in 1 .. n : str[(a - 1) + k] = packFrame(s.frame)[k]
  BY DEF PlacedIn
<1> HIDE DEF all, a, n, len
<1>4. ASSUME NEW k \in 1 .. n PROVE all[(a - 1) + k] = packFrame(s.frame)[k]
  <2>1. (a - 1) + k \in 1 .. len
    BY <1>1, <1>2
  <2> QED
    BY <1>1, <1>3, <2>1
<1>5. Stop(s) <= Len(all)
  BY <1>1, <1>2
<1> QED
  BY <1>4, <1>5 DEF PlacedIn, all, a, n

LEMMA LayoutSend ==
    ASSUME NEW str, NEW items, NEW from, NEW to, Layout(str, items, from, to),
           NEW f \in SentFrame, NEW s, s = [frame |-> f, at |-> Len(str) + 1]
    PROVE  /\ Layout(str \o packFrame(f), Append(items, s), from, to)
           /\ Len(str \o packFrame(f)) >= Len(str)
<1> DEFINE bytes == packFrame(f)
           all == str \o bytes
           more == Append(items, s)
           n == Len(items)
           len == Len(str)
           size == Size(f)
<1>1. str \in Seq(Byte) /\ items \in Seq(Item) /\ from \in Nat /\ to \in Nat
  BY DEF Layout
<1>2. bytes \in Seq(Byte) /\ Len(bytes) = size /\ size \in Nat /\ size >= 7
  <2>1. bytes \in Seq(Byte) /\ Len(bytes) = 7 + Len(f.payload) /\ Len(f.payload) \in Nat
    BY PackIs
  <2>2. size = 7 + Len(f.payload)
    BY DEF Size, kFrameOverhead
  <2> HIDE DEF bytes, size
  <2> QED
    BY <2>1, <2>2
<1>3. /\ all \in Seq(Byte) /\ Len(all) = len + size /\ len \in Nat
      /\ \A i \in 1 .. len : all[i] = str[i]
      /\ \A i \in 1 .. size : all[len + i] = bytes[i]
  <2> HIDE DEF bytes, size
  <2>1. /\ str \o bytes \in Seq(Byte) /\ Len(str \o bytes) = Len(str) + Len(bytes)
        /\ Len(str) \in Nat
        /\ \A i \in 1 .. Len(str) : (str \o bytes)[i] = str[i]
        /\ \A i \in 1 .. Len(bytes) : (str \o bytes)[Len(str) + i] = bytes[i]
    <3>1. str \in Seq(Byte) /\ bytes \in Seq(Byte)
      BY <1>1, <1>2
    <3>2. str \o bytes \in Seq(Byte) /\ Len(str \o bytes) = Len(str) + Len(bytes)
          /\ Len(str) \in Nat
      BY <3>1
    <3>3. ASSUME NEW i \in 1 .. Len(str) PROVE (str \o bytes)[i] = str[i]
      BY <3>1
    <3>4. ASSUME NEW i \in 1 .. Len(bytes)
          PROVE  (str \o bytes)[Len(str) + i] = bytes[i]
      BY <3>1
    <3> QED
      BY <3>2, <3>3, <3>4
  <2> QED
    BY <1>2, <2>1
<1>4. s \in Item /\ s.at = len + 1 /\ Here(s) /\ Stop(s) = len + size
  <2>1. len + 1 \in Nat /\ len + 1 # 0 /\ (len + 1) + size - 1 = len + size
    BY <1>2, <1>3
  <2> HIDE DEF len, size
  <2>2. s.at = len + 1 /\ s.frame = f /\ s \in Item
    BY <2>1 DEF Item, len
  <2> QED
    BY <2>1, <2>2 DEF Here, Gone, Stop, size
<1>5. /\ more \in Seq(Item) /\ n \in Nat /\ n + 1 \in DOMAIN more
      /\ \A i \in DOMAIN items : i \in DOMAIN more /\ more[i] = items[i] /\ i \in 1 .. n
      /\ more[n + 1] = s
      /\ \A i \in DOMAIN more : i \in DOMAIN items \/ i = n + 1
  BY <1>1, <1>4
<1> HIDE DEF all, more, n, len, size
<1>6. ASSUME NEW i \in DOMAIN items, Here(items[i])
      PROVE  items[i] \in Item /\ PlacedIn(str, items[i]) /\ Stop(items[i]) \in Nat
             /\ Stop(items[i]) <= len
  <2>1. items[i] \in Item /\ PlacedIn(str, items[i])
    BY <1>6, LayoutTypes
  <2> QED
    BY <1>1, <1>6, <2>1, PlacedIs DEF len
<1>7. PlacedIn(all, s)
  <2>1. s.frame = f
    OBVIOUS
  <2>2. ASSUME NEW k \in 1 .. size PROVE all[(s.at - 1) + k] = bytes[k]
    <3>1. (s.at - 1) + k = len + k
      BY <1>3, <1>4
    <3> QED
      BY <1>3, <3>1
  <2>3. Stop(s) <= Len(all)
    BY <1>2, <1>3, <1>4
  <2> QED
    BY <2>1, <2>2, <2>3 DEF PlacedIn, size
<1>8. Placed(all, more)
  <2> SUFFICES ASSUME NEW i \in DOMAIN more, Here(more[i]) PROVE PlacedIn(all, more[i])
    BY DEF Placed
  <2>1. CASE i \in DOMAIN items
    <3>1. more[i] = items[i] /\ Here(items[i])
      BY <1>5, <2>1
    <3> QED
      BY <1>1, <1>2, <1>6, <2>1, <3>1, PlacedJoin DEF all
  <2>2. CASE i = n + 1
    BY <1>5, <1>7, <2>2
  <2> QED
    BY <1>5, <2>1, <2>2
<1>9. Ordered(more)
  <2> SUFFICES ASSUME NEW i \in DOMAIN more, NEW j \in DOMAIN more,
                      Here(more[i]), Here(more[j]), i < j
               PROVE  Stop(more[i]) < more[j].at
    BY DEF Ordered
  <2>1. CASE i \in DOMAIN items /\ j \in DOMAIN items
    <3>1. more[i] = items[i] /\ more[j] = items[j]
      BY <1>5, <2>1
    <3> QED
      BY <2>1, <3>1 DEF Layout, Ordered
  <2>2. CASE i \in DOMAIN items /\ j = n + 1
    <3>1. more[i] = items[i] /\ more[j] = s
      BY <1>5, <2>2
    <3> DEFINE x == Stop(items[i])
    <3>2. x \in Nat /\ x <= len
      BY <1>6, <2>2, <3>1
    <3> HIDE DEF x
    <3>3. x < len + 1
      BY <1>3, <3>2
    <3> QED
      BY <1>4, <3>1, <3>3 DEF x
  <2>3. CASE i = n + 1
    BY <1>5, <2>3
  <2> QED
    BY <1>5, <2>1, <2>2, <2>3
\* The stray bytes are those that were.
<1>10. ASSUME NEW b \in Nat, Stray(all, more, b) PROVE Stray(str, items, b) /\ b <= len
  <2>1. b \in 1 .. len + size
    BY <1>3, <1>10 DEF Stray
  <2>2. b <= len
    <3>1. ~Covers(s, b)
      BY <1>5, <1>10 DEF Stray
    <3>2. ~(len + 1 <= b /\ b <= len + size)
      BY <1>4, <3>1 DEF Covers
    <3> QED
      BY <1>2, <1>3, <2>1, <3>2
  <2>3. ASSUME NEW i \in DOMAIN items PROVE ~Covers(items[i], b)
    BY <1>5, <1>10 DEF Stray
  <2>4. b \in 1 .. len
    BY <1>2, <1>3, <2>1, <2>2
  <2> QED
    BY <2>2, <2>3, <2>4 DEF Stray, len
<1>11. to <= len /\ Len(all) >= len /\ to <= Len(all)
  <2>1. to <= len
    BY DEF Layout, Marked, len
  <2> QED
    BY <1>1, <1>2, <1>3, <2>1
<1>12. Marked(all, more, to)
  <2>1. ASSUME NEW i \in DOMAIN more, Here(more[i])
        PROVE  Stop(more[i]) <= to \/ more[i].at > to
    <3>1. CASE i \in DOMAIN items
      <4>1. more[i] = items[i]
        BY <1>5, <3>1
      <4> QED
        BY <2>1, <3>1, <4>1 DEF Layout, Marked
    <3>2. CASE i = n + 1
      <4>1. more[i] = s /\ len + 1 > to
        BY <1>1, <1>3, <1>5, <1>11, <3>2
      <4> QED
        BY <1>4, <4>1
    <3> QED
      BY <1>5, <3>1, <3>2
  <2>2. ASSUME NEW b \in Nat, Stray(all, more, b) PROVE b <= to
    BY <1>10, <2>2 DEF Layout, Marked
  <2> QED
    BY <1>11, <2>1, <2>2 DEF Marked
<1>13. Since(all, more, from)
  <2> SUFFICES ASSUME NEW b \in Nat, Stray(all, more, b)
               PROVE  /\ from # 0 /\ from <= Len(all)
                      /\ \A i \in DOMAIN more :
                            Here(more[i]) /\ more[i].at > b => more[i].at > from
    BY DEF Since
  <2>1. /\ from # 0 /\ from <= len
        /\ \A i \in DOMAIN items :
              Here(items[i]) /\ items[i].at > b => items[i].at > from
    BY <1>10 DEF Layout, Since, len
  <2>2. ASSUME NEW i \in DOMAIN more, Here(more[i]), more[i].at > b
        PROVE  more[i].at > from
    <3>1. CASE i \in DOMAIN items
      <4>1. more[i] = items[i]
        BY <1>5, <3>1
      <4> QED
        BY <2>1, <2>2, <3>1, <4>1
    <3>2. CASE i = n + 1
      <4>1. more[i] = s /\ len + 1 > from
        BY <1>1, <1>3, <1>5, <2>1, <3>2
      <4> QED
        BY <1>4, <4>1
    <3> QED
      BY <1>5, <3>1, <3>2
  <2>3. from <= Len(all)
    BY <1>1, <1>3, <1>11, <2>1
  <2> QED
    BY <2>1, <2>2, <2>3
<1> QED
  BY <1>1, <1>3, <1>5, <1>8, <1>9, <1>11, <1>12, <1>13 DEF Layout, all, more, len

LEMMA LayoutSpoil ==
    ASSUME NEW str, NEW items, NEW from, NEW to, Layout(str, items, from, to),
           from <= Len(str) + 1, NEW bytes \in Seq(Byte),
           NEW first, first = IF from = 0 THEN Len(str) + 1 ELSE from,
           NEW last, last = Len(str) + Len(bytes)
    PROVE  /\ Layout(str \o bytes, items, first, last)
           /\ first # 0 /\ to <= last /\ first <= Len(str \o bytes) + 1
<1> DEFINE all == str \o bytes
           len == Len(str)
<1>1. str \in Seq(Byte) /\ items \in Seq(Item) /\ from \in Nat /\ to \in Nat
  BY DEF Layout
<1>2. all \in Seq(Byte) /\ Len(all) = last /\ len \in Nat /\ last \in Nat /\ len <= last
  <2>1. all \in Seq(Byte) /\ Len(all) = last /\ len \in Nat /\ Len(bytes) \in Nat
    BY <1>1, JoinIs
  <2> QED
    BY <2>1
<1>3. first \in Nat /\ first # 0 /\ first <= len + 1 /\ (from # 0 => first = from)
  BY <1>1, <1>2
<1>4. to <= len
  BY DEF Layout, Marked
<1> HIDE DEF all, len
<1>5. ASSUME NEW i \in DOMAIN items, Here(items[i])
      PROVE  /\ items[i] \in Item /\ PlacedIn(str, items[i]) /\ Stop(items[i]) \in Nat
             /\ items[i].at \in Nat /\ items[i].at <= Stop(items[i])
             /\ Stop(items[i]) <= len
  <2>1. /\ items[i] \in Item /\ PlacedIn(str, items[i])
        /\ items[i].at \in Nat /\ items[i].at <= Stop(items[i])
    BY <1>5, LayoutTypes
  <2> QED
    BY <1>1, <1>5, <2>1, PlacedIs DEF len
<1>6. Placed(all, items)
  <2> SUFFICES ASSUME NEW i \in DOMAIN items, Here(items[i]) PROVE PlacedIn(all, items[i])
    BY DEF Placed
  <2> QED
    BY <1>1, <1>5, PlacedJoin DEF all
<1>7. Marked(all, items, last)
  <2>1. ASSUME NEW i \in DOMAIN items, Here(items[i]) PROVE Stop(items[i]) <= last
    <3> DEFINE x == Stop(items[i])
    <3>1. x \in Nat /\ x <= len
      BY <1>5, <2>1
    <3> HIDE DEF x
    <3>2. x <= last
      BY <1>2, <3>1
    <3> QED
      BY <3>2 DEF x
  <2>2. ASSUME NEW b \in Nat, Stray(all, items, b) PROVE b <= last
    BY <1>2, <2>2 DEF Stray
  <2>3. last <= Len(all)
    BY <1>2
  <2> QED
    BY <2>1, <2>2, <2>3 DEF Marked
<1>8. Since(all, items, first)
  <2> SUFFICES ASSUME NEW b \in Nat, Stray(all, items, b)
               PROVE  /\ first # 0 /\ first <= Len(all)
                      /\ \A i \in DOMAIN items :
                            Here(items[i]) /\ items[i].at > b => items[i].at > first
    BY DEF Since
  <2>1. b \in 1 .. last
    BY <1>2 DEF Stray
  <2>2. CASE b <= len
    <3>1. b \in 1 .. len
      BY <1>2, <2>1, <2>2
    <3>2. Stray(str, items, b)
      BY <3>1 DEF Stray, len
    <3>3. /\ from # 0 /\ from <= len
          /\ \A i \in DOMAIN items :
                Here(items[i]) /\ items[i].at > b => items[i].at > from
      BY <3>2 DEF Layout, Since, len
    <3>4. first = from /\ first <= Len(all)
      BY <1>1, <1>2, <1>3, <3>3
    <3> QED
      BY <1>3, <3>3, <3>4
  <2>3. CASE ~(b <= len)
    <3>1. first <= Len(all)
      BY <1>2, <1>3, <2>1, <2>3
    <3>2. ASSUME NEW i \in DOMAIN items, Here(items[i]), items[i].at > b PROVE FALSE
      <4> DEFINE x == items[i].at
                 y == Stop(items[i])
      <4>1. x \in Nat /\ y \in Nat /\ x <= y /\ y <= len /\ x > b
        BY <1>5, <3>2
      <4> HIDE DEF x, y
      <4> QED
        BY <1>2, <2>3, <4>1
    <3> QED
      BY <1>3, <3>1, <3>2
  <2> QED
    BY <2>2, <2>3
<1>9. Ordered(items)
  BY DEF Layout
<1>10. to <= last /\ first <= Len(all) + 1
  <2>1. to <= last
    BY <1>1, <1>2, <1>4
  <2> DEFINE x == Len(all)
  <2>2. x = last
    BY <1>2
  <2> HIDE DEF x
  <2>3. first <= x + 1
    BY <1>2, <1>3, <2>2
  <2> QED
    BY <2>1, <2>3 DEF x
<1> QED
  BY <1>1, <1>2, <1>3, <1>6, <1>7, <1>8, <1>9, <1>10 DEF Layout, all

LEMMA PlacedPart ==
    ASSUME NEW str \in Seq(Byte), NEW all, Begins(all, str), NEW s \in Item, Here(s),
           PlacedIn(str, s), Stop(s) <= Len(all)
    PROVE  PlacedIn(all, s)
<1> DEFINE a == s.at
           n == Size(s.frame)
           len == Len(all)
           x == Stop(s)
<1>1. /\ all \in Seq(Byte) /\ len \in Nat
      /\ \A i \in 1 .. len : str[i] = all[i]
  BY ReadIs
<1>2. a \in Nat \ {0} /\ n \in Nat /\ x = a + n - 1 /\ x <= len
  BY PlacedIs
<1>3. \A k \in 1 .. n : str[(a - 1) + k] = packFrame(s.frame)[k]
  BY DEF PlacedIn
<1> HIDE DEF a, n, len, x
<1>4. ASSUME NEW k \in 1 .. n PROVE all[(a - 1) + k] = packFrame(s.frame)[k]
  <2>1. (a - 1) + k \in 1 .. len
    BY <1>1, <1>2
  <2> QED
    BY <1>1, <1>3, <2>1
<1> QED
  BY <1>2, <1>4 DEF PlacedIn, a, n, len, x

\* What is left of the frames when only len bytes come through.
CutShort(items, len) ==
    [i \in DOMAIN items |->
        IF Stop(items[i]) > len THEN [items[i] EXCEPT !.at = Gone] ELSE items[i]]

IsCutShort(kept, items, len) ==
    /\ kept \in Seq(Item) /\ DOMAIN kept = DOMAIN items
    /\ \A i \in DOMAIN items :
          /\ Here(kept[i]) =>
                kept[i] = items[i] /\ Here(items[i]) /\ ~(Stop(items[i]) > len)
          /\ ~(Stop(items[i]) > len) => kept[i] = items[i]

LEMMA CutShortIs ==
    ASSUME NEW items \in Seq(Item), NEW len \in Nat
    PROVE  IsCutShort(CutShort(items, len), items, len)
<1> DEFINE kept == CutShort(items, len)
<1>1. DOMAIN kept = DOMAIN items
  BY DEF CutShort
<1>2. ASSUME NEW i \in DOMAIN items
      PROVE  /\ kept[i] \in Item
             /\ Here(kept[i]) =>
                   kept[i] = items[i] /\ Here(items[i]) /\ ~(Stop(items[i]) > len)
             /\ ~(Stop(items[i]) > len) => kept[i] = items[i]
  <2> DEFINE s == items[i]
             t == [s EXCEPT !.at = Gone]
  <2>1. s \in Item
    BY InSeq
  <2>2. t \in Item /\ t.frame = s.frame /\ t.at = Gone
    BY <2>1 DEF Item, Gone
  <2>3. CASE Stop(s) > len
    <3>1. kept[i] = t
      BY <2>3 DEF CutShort
    <3> HIDE DEF s, t, kept
    <3> QED
      BY <2>2, <2>3, <3>1 DEF Here, s
  <2>4. CASE ~(Stop(s) > len)
    <3>1. kept[i] = s
      BY <2>4 DEF CutShort
    <3> HIDE DEF s, t, kept
    <3> QED
      BY <2>1, <2>4, <3>1 DEF s
  <2> QED
    BY <2>3, <2>4
<1>3. kept \in Seq(Item)
  <2> DEFINE n == Len(items)
  <2>1. n \in Nat /\ DOMAIN items = 1 .. n
    OBVIOUS
  <2> HIDE DEF n
  <2>2. kept = [i \in 1 .. n |-> kept[i]]
    <3>1. kept = [i \in 1 .. n |->
             IF Stop(items[i]) > len THEN [items[i] EXCEPT !.at = Gone] ELSE items[i]]
      BY <2>1 DEF CutShort
    <3> QED
      BY <3>1
  <2>3. kept \in [1 .. n -> Item]
    BY <1>2, <2>1, <2>2
  <2> QED
    BY <2>1, <2>3
<1> QED
  BY <1>1, <1>2, <1>3 DEF IsCutShort

LEMMA LayoutCut ==
    ASSUME NEW str, NEW items, NEW from, NEW to, Layout(str, items, from, to),
           NEW all, Begins(all, str), all # <<>>,
           NEW kept, kept = CutShort(items, Len(all)),
           NEW first,
           first = IF from = 0 THEN Len(all) ELSE Min({from, Len(all)})
    PROVE  /\ Layout(all, kept, first, Len(all))
           /\ first # 0 /\ first <= Len(all) /\ (from # 0 => first <= from)
<1> DEFINE len == Len(all)
<1>1. str \in Seq(Byte) /\ items \in Seq(Item) /\ from \in Nat /\ to \in Nat
  BY DEF Layout
<1>2. /\ all \in Seq(Byte) /\ len \in Nat /\ len # 0 /\ len <= Len(str)
      /\ \A i \in 1 .. len : str[i] = all[i] /\ Len(str) \in Nat
  <2>1. /\ all \in Seq(Byte) /\ len \in Nat /\ len <= Len(str)
        /\ \A i \in 1 .. len : str[i] = all[i] /\ Len(str) \in Nat
    BY <1>1, ReadIs
  <2>2. len # 0
    BY <2>1
  <2> QED
    BY <2>1, <2>2
<1>3. /\ first \in Nat /\ first # 0 /\ first <= len /\ (from # 0 => first <= from)
  <2> HIDE DEF len
  <2>1. first = IF from = 0 THEN len ELSE Min({from, len})
    BY DEF len
  <2> DEFINE S == {from, len}
  <2>2. S \subseteq Nat /\ S # {}
    BY <1>1, <1>2
  <2>3. Min(S) \in S /\ \A x \in S : Min(S) <= x
    BY <2>2, MinIs
  <2> DEFINE m == Min(S)
  <2>4. (m = from \/ m = len) /\ m <= from /\ m <= len
    BY <2>3
  <2>5. first = IF from = 0 THEN len ELSE m
    BY <2>1
  <2> HIDE DEF S, m
  <2> QED
    BY <1>1, <1>2, <2>4, <2>5
<1>4. /\ kept \in Seq(Item) /\ DOMAIN kept = DOMAIN items
      /\ \A i \in DOMAIN items :
            /\ Here(kept[i]) =>
                  kept[i] = items[i] /\ Here(items[i]) /\ ~(Stop(items[i]) > len)
            /\ ~(Stop(items[i]) > len) => kept[i] = items[i]
  <2> HIDE DEF len
  <2>1. kept = CutShort(items, len)
    BY DEF len
  <2> QED
    <3>1. IsCutShort(CutShort(items, len), items, len)
      BY <1>1, <1>2, CutShortIs
    <3> QED
      BY <2>1, <3>1 DEF IsCutShort
<1> HIDE DEF len
<1>5. ASSUME NEW i \in DOMAIN kept, Here(kept[i])
      PROVE  /\ kept[i] = items[i] /\ i \in DOMAIN items /\ Here(items[i])
             /\ items[i] \in Item /\ PlacedIn(str, items[i]) /\ items[i].at \in Nat
             /\ Stop(items[i]) \in Nat /\ items[i].at <= Stop(items[i])
             /\ Stop(items[i]) <= len
  <2>1. i \in DOMAIN items
    BY <1>4
  <2>2. kept[i] = items[i] /\ Here(items[i]) /\ ~(Stop(items[i]) > len)
    BY <1>4, <1>5, <2>1
  <2>3. /\ items[i] \in Item /\ PlacedIn(str, items[i]) /\ items[i].at \in Nat
        /\ Stop(items[i]) \in Nat /\ items[i].at <= Stop(items[i])
    BY <2>1, <2>2, LayoutTypes
  <2> DEFINE x == Stop(items[i])
  <2>4. x \in Nat /\ ~(x > len)
    BY <2>2, <2>3
  <2> HIDE DEF x
  <2>5. x <= len
    BY <1>2, <2>4
  <2> QED
    BY <2>1, <2>2, <2>3, <2>5 DEF x
<1>6. Placed(all, kept)
  <2> SUFFICES ASSUME NEW i \in DOMAIN kept, Here(kept[i]) PROVE PlacedIn(all, kept[i])
    BY DEF Placed
  <2>1. /\ kept[i] \in Item /\ PlacedIn(str, kept[i]) /\ Stop(kept[i]) <= Len(all)
    BY <1>5 DEF len
  <2> QED
    BY <1>1, <2>1, PlacedPart
<1>7. Ordered(kept)
  <2> SUFFICES ASSUME NEW i \in DOMAIN kept, NEW j \in DOMAIN kept,
                      Here(kept[i]), Here(kept[j]), i < j
               PROVE  Stop(kept[i]) < kept[j].at
    BY DEF Ordered
  <2>1. /\ kept[i] = items[i] /\ i \in DOMAIN items /\ Here(items[i])
        /\ kept[j] = items[j] /\ j \in DOMAIN items /\ Here(items[j])
    BY <1>5
  <2> QED
    BY <2>1 DEF Layout, Ordered
<1>8. Marked(all, kept, len)
  <2>1. ASSUME NEW i \in DOMAIN kept, Here(kept[i]) PROVE Stop(kept[i]) <= len
    BY <1>5, <2>1
  <2>2. ASSUME NEW b \in Nat, Stray(all, kept, b) PROVE b <= len
    <3>1. b \in 1 .. len
      BY <2>2 DEF Stray, len
    <3> QED
      BY <1>2, <3>1
  <2>3. len <= Len(all)
    BY <1>2 DEF len
  <2> QED
    BY <2>1, <2>2, <2>3 DEF Marked
\* A byte that is stray now was stray, or is of a frame that was cut off; and
\* no frame that is left comes after that.
<1>9. ASSUME NEW b \in Nat, Stray(all, kept, b),
             NEW i \in DOMAIN kept, Here(kept[i]), kept[i].at > b
      PROVE  kept[i].at > first
  <2> DEFINE x == items[i].at
             y == Stop(items[i])
  <2>1. /\ kept[i] = items[i] /\ i \in DOMAIN items /\ Here(items[i])
        /\ x \in Nat /\ y \in Nat /\ x <= y /\ y <= len /\ x > b
    BY <1>5, <1>9
  <2>2. b \in 1 .. len
    BY <1>9 DEF Stray, len
  <2>3. CASE Stray(str, items, b)
    <3>1. from # 0 /\ x > from
      BY <2>1, <2>3 DEF Layout, Since
    <3> HIDE DEF x
    <3>2. x > first
      BY <1>1, <1>3, <2>1, <3>1
    <3> QED
      BY <2>1, <3>2 DEF x
  <2>4. CASE ~Stray(str, items, b)
    <3>1. b \in 1 .. Len(str)
      BY <1>2, <2>2
    <3>2. PICK k \in DOMAIN items : Covers(items[k], b)
      BY <2>4, <3>1 DEF Stray
    <3> DEFINE v == items[k].at
               w == Stop(items[k])
    <3>3. Here(items[k]) /\ v <= b /\ b <= w
      BY <3>2 DEF Covers
    <3>4. v \in Nat /\ w \in Nat
      BY <3>3, LayoutTypes
    <3>5. w > len
      <4>1. SUFFICES ASSUME ~(w > len) PROVE FALSE
        OBVIOUS
      <4>2. kept[k] = items[k] /\ k \in DOMAIN kept
        BY <1>4, <4>1
      <4>3. ~Covers(kept[k], b)
        BY <1>9, <4>2 DEF Stray
      <4> QED
        BY <3>2, <4>2, <4>3
    <3>6. i < k => y < v
      BY <2>1, <3>3 DEF Layout, Ordered
    <3>7. k < i => w < x
      BY <2>1, <3>3 DEF Layout, Ordered
    <3>8. i = k => x = v
      OBVIOUS
    <3>9. i \in Nat /\ k \in Nat
      BY <1>1, <2>1, InSeq
    <3> HIDE DEF x, y, v, w
    <3>10. CASE i < k
      BY <1>2, <2>1, <3>3, <3>4, <3>6, <3>10
    <3>11. CASE k < i
      BY <1>2, <2>1, <3>3, <3>4, <3>5, <3>7, <3>11
    <3>12. CASE i = k
      BY <2>1, <3>3, <3>4, <3>8, <3>12
    <3> QED
      BY <3>9, <3>10, <3>11, <3>12
  <2> QED
    BY <2>3, <2>4
<1>10. Since(all, kept, first)
  <2> SUFFICES ASSUME NEW b \in Nat, Stray(all, kept, b)
               PROVE  /\ first # 0 /\ first <= Len(all)
                      /\ \A i \in DOMAIN kept :
                            Here(kept[i]) /\ kept[i].at > b => kept[i].at > first
    BY DEF Since
  <2> QED
    BY <1>3, <1>9 DEF len
<1> QED
  BY <1>2, <1>3, <1>4, <1>6, <1>7, <1>8, <1>10 DEF Layout, len

-----------------------------------------------------------------------------
(* The frames that the parser has passed, after each step.                 *)

LEMMA LongerLimit ==
    ASSUME NEW x \in Nat, NEW to \in Nat, NEW last \in Nat, to <= last,
           x <= to + kMaxFrame - 4
    PROVE  x <= last + kMaxFrame - 4
  BY CodecConstants

LEMMA PassedSend ==
    ASSUME NEW items \in Seq(Item), NEW frames, NEW n \in Nat, NEW from, NEW to,
           Passed(items, frames, n, from, to), NEW s \in Item, s.at > n
    PROVE  Passed(Append(items, s), frames, n, from, to)
<1> DEFINE more == Append(items, s)
           len == Len(items)
<1>1. /\ len \in Nat /\ more[len + 1] = s
      /\ \A i \in DOMAIN items : i \in DOMAIN more /\ more[i] = items[i] /\ i \in 1 .. len
      /\ \A i \in 1 .. len : i \in DOMAIN items
      /\ \A i \in DOMAIN more : i \in DOMAIN items \/ i = len + 1
  OBVIOUS
<1> HIDE DEF more, len
<1>2. s.at \in Nat
  BY DEF Item
<1> SUFFICES ASSUME NEW i \in DOMAIN more, Here(more[i]), more[i].at <= n
             PROVE  \/ Excused(more, i, from, to)
                    \/ more[i].frame \in ToSet(frames) /\ Stop(more[i]) <= n
  BY DEF Passed, more
<1>3. i \in DOMAIN items
  <2> DEFINE x == s.at
  <2>1. x \in Nat /\ x > n
    BY <1>2
  <2> HIDE DEF x
  <2>2. ~(x <= n)
    BY <2>1
  <2>3. i # len + 1
    BY <1>1, <2>2 DEF x
  <2> QED
    BY <1>1, <2>3
<1>4. more[i] = items[i] /\ i \in 1 .. len
  BY <1>1, <1>3
<1>5. CASE Excused(items, i, from, to)
  <2>1. /\ from # 0 /\ items[i].at > from
        /\ \/ items[i].at <= to + kMaxFrame - 4
           \/ \E j \in 1 .. i : items[j].at > from /\ ~Plain(items[j].frame)
    BY <1>5 DEF Excused
  <2>2. ASSUME NEW j \in 1 .. i, items[j].at > from, ~Plain(items[j].frame)
        PROVE  more[j].at > from /\ ~Plain(more[j].frame)
    <3>1. j \in 1 .. len
      BY <1>1, <1>4
    <3>2. more[j] = items[j]
      BY <1>1, <3>1
    <3> QED
      BY <2>2, <3>2
  <2> QED
    BY <1>4, <2>1, <2>2 DEF Excused
<1>6. CASE ~Excused(items, i, from, to)
  BY <1>3, <1>4, <1>6 DEF Passed
<1> QED
  BY <1>5, <1>6

LEMMA PassedSpoil ==
    ASSUME NEW items \in Seq(Item), NEW frames, NEW n, NEW from, NEW to \in Nat,
           Passed(items, frames, n, from, to),
           NEW first, from # 0 => first = from, NEW last \in Nat, to <= last
    PROVE  Passed(items, frames, n, first, last)
<1> SUFFICES ASSUME NEW i \in DOMAIN items, Here(items[i]), items[i].at <= n
             PROVE  \/ Excused(items, i, first, last)
                    \/ items[i].frame \in ToSet(frames) /\ Stop(items[i]) <= n
  BY DEF Passed
<1>1. items[i] \in Item
  BY InSeq
<1>2. CASE Excused(items, i, from, to)
  <2> DEFINE x == items[i].at
  <2>1. first = from /\ x \in Nat
    BY <1>1, <1>2 DEF Excused, Item
  <2>2. ASSUME x <= to + kMaxFrame - 4 PROVE x <= last + kMaxFrame - 4
    <3> HIDE DEF x
    <3> QED
      BY <2>1, <2>2, LongerLimit
  <2> QED
    BY <1>2, <2>1, <2>2 DEF Excused
<1>3. CASE ~Excused(items, i, from, to)
  BY <1>3 DEF Passed
<1> QED
  BY <1>2, <1>3

LEMMA PassedCut ==
    ASSUME NEW str, NEW items, NEW from, NEW to, Layout(str, items, from, to),
           NEW frames, NEW n, Passed(items, frames, n, from, to),
           NEW len \in Nat, NEW kept, kept = CutShort(items, len),
           NEW first \in Nat, first # 0, from # 0 => first <= from
    PROVE  Passed(kept, frames, n, first, len)
<1>1. items \in Seq(Item) /\ from \in Nat
  BY DEF Layout
<1>2. /\ kept \in Seq(Item) /\ DOMAIN kept = DOMAIN items
      /\ \A i \in DOMAIN items :
            /\ Here(kept[i]) =>
                  kept[i] = items[i] /\ Here(items[i]) /\ ~(Stop(items[i]) > len)
            /\ ~(Stop(items[i]) > len) => kept[i] = items[i]
  BY <1>1, CutShortIs DEF IsCutShort
<1> SUFFICES ASSUME NEW i \in DOMAIN kept, Here(kept[i]), kept[i].at <= n
             PROVE  \/ Excused(kept, i, first, len)
                    \/ kept[i].frame \in ToSet(frames) /\ Stop(kept[i]) <= n
  BY DEF Passed
<1>3. /\ i \in DOMAIN items /\ kept[i] = items[i] /\ Here(items[i])
      /\ ~(Stop(items[i]) > len)
  BY <1>2
<1>4. CASE Excused(items, i, from, to)
  <2> DEFINE x == items[i].at
             y == Stop(items[i])
  <2>1. x \in Nat /\ y \in Nat /\ x <= y
    BY <1>3, LayoutTypes
  <2>2. from # 0 /\ x > from
    BY <1>4 DEF Excused
  <2>3. kept[i].at = x /\ ~(y > len)
    BY <1>3
  <2> HIDE DEF x, y
  <2>4. x > first /\ x <= len
    BY <1>1, <2>1, <2>2, <2>3
  <2>5. x <= len + kMaxFrame - 4
    BY <2>1, <2>4, CodecConstants
  <2> QED
    BY <2>3, <2>4, <2>5 DEF Excused
<1>5. CASE ~Excused(items, i, from, to)
  BY <1>3, <1>5 DEF Passed
<1> QED
  BY <1>4, <1>5

-----------------------------------------------------------------------------
(* The invariant of the parser and its line.                               *)

Stream == fed \o line

LayoutOk == Layout(Stream, sent, badFrom, badTo) /\ badFrom <= Len(Stream) + 1

PassedOk ==
    \E n \in 0 .. Len(fed) :
        parser.buf = From(fed, n) /\ Passed(sent, got, n, badFrom, badTo)

ParserOk == OnceOk /\ LayoutOk /\ PassedOk

LEMMA JoinJoin ==
    ASSUME NEW S, NEW s \in Seq(S), NEW t \in Seq(S), NEW u \in Seq(S)
    PROVE  (s \o t) \o u = s \o (t \o u)
<1> DEFINE a == s \o t
           b == t \o u
           x == a \o u
           y == s \o b
           k == Len(s)
           l == Len(t)
           m == Len(u)
<1>1. k \in Nat /\ l \in Nat /\ m \in Nat
  OBVIOUS
<1>2. /\ a \in Seq(S) /\ Len(a) = k + l
      /\ \A i \in 1 .. k : a[i] = s[i]
      /\ \A i \in 1 .. l : a[k + i] = t[i]
  OBVIOUS
<1>3. /\ b \in Seq(S) /\ Len(b) = l + m
      /\ \A i \in 1 .. l : b[i] = t[i]
      /\ \A i \in 1 .. m : b[l + i] = u[i]
  OBVIOUS
<1> HIDE DEF a, b
<1>4. /\ x \in Seq(S) /\ Len(x) = Len(a) + m
      /\ \A i \in 1 .. Len(a) : x[i] = a[i]
      /\ \A i \in 1 .. m : x[Len(a) + i] = u[i]
  <2>1. a \in Seq(S)
    BY <1>2
  <2>2. x \in Seq(S) /\ Len(x) = Len(a) + m
    BY <2>1
  <2>3. ASSUME NEW i \in 1 .. Len(a) PROVE x[i] = a[i]
    BY <2>1
  <2>4. ASSUME NEW i \in 1 .. m PROVE x[Len(a) + i] = u[i]
    BY <2>1
  <2> QED
    BY <2>2, <2>3, <2>4
<1>5. /\ y \in Seq(S) /\ Len(y) = k + Len(b)
      /\ \A i \in 1 .. k : y[i] = s[i]
      /\ \A i \in 1 .. Len(b) : y[k + i] = b[i]
  BY <1>3
<1> HIDE DEF x, y, k, l, m
<1>6. ASSUME NEW i \in 1 .. Len(x) PROVE x[i] = y[i]
  <2>1. CASE i <= k
    BY <1>1, <1>2, <1>3, <1>4, <1>5, <2>1
  <2>2. CASE k < i /\ i <= k + l
    <3> DEFINE j == i - k
    <3>1. j \in 1 .. l /\ i = k + j /\ j \in 1 .. Len(b) /\ i \in 1 .. Len(a)
      BY <1>1, <1>2, <1>3, <1>4, <2>2
    <3> HIDE DEF j
    <3>2. x[i] = a[k + j] /\ y[i] = b[j]
      BY <1>4, <1>5, <3>1
    <3> QED
      BY <1>2, <1>3, <3>1, <3>2
  <2>3. CASE k + l < i
    <3> DEFINE j == i - (k + l)
               h == l + j
    <3>1. /\ j \in 1 .. m /\ i = Len(a) + j /\ h \in 1 .. Len(b) /\ i = k + h
      BY <1>1, <1>2, <1>3, <1>4, <2>3
    <3>2. b[h] = u[j]
      BY <1>3, <3>1
    <3> HIDE DEF j, h
    <3>3. x[i] = u[j] /\ y[i] = b[h]
      BY <1>4, <1>5, <3>1
    <3> QED
      BY <3>2, <3>3
  <2> QED
    BY <1>1, <2>1, <2>2, <2>3
<1>7. Len(x) = Len(y)
  BY <1>1, <1>2, <1>3, <1>4, <1>5
<1>8. x = y
  BY <1>4, <1>5, <1>6, <1>7, SameSeq
<1> QED
  BY <1>8 DEF x, y, a, b

LEMMA BytesJoin ==
    \A s, t, u \in Seq(Byte) : (s \o t) \o u = s \o (t \o u)
  BY JoinJoin

LEMMA StreamIs ==
    ASSUME Typed
    PROVE  /\ Stream \in Seq(Byte) /\ Len(Stream) = Place /\ Len(Stream) \in Nat
           /\ Begins(fed, Stream) /\ Len(fed) \in Nat
<1>1. fed \in Seq(Byte) /\ line \in Seq(Byte)
  BY DEF Typed
<1>2. /\ Stream \in Seq(Byte) /\ Len(Stream) = Len(fed) + Len(line)
      /\ Len(fed) \in Nat /\ Len(line) \in Nat
      /\ \A i \in 1 .. Len(fed) : Stream[i] = fed[i]
  BY <1>1 DEF Stream
<1> QED
  BY <1>1, <1>2 DEF Begins, Place

LEMMA SendsKeep ==
    ASSUME Typed, LayoutOk, PassedOk, NEW f \in SentFrame, Sends(f)
    PROVE  LayoutOk' /\ PassedOk'
<1> DEFINE s == [frame |-> f, at |-> Len(Stream) + 1]
           bytes == packFrame(f)
<1>1. /\ Stream \in Seq(Byte) /\ Len(Stream) = Place /\ Len(Stream) \in Nat
      /\ Len(fed) \in Nat
  BY StreamIs
<1>2. /\ fed' = fed /\ line' = line \o bytes /\ parser' = parser /\ got' = got
      /\ sent' = Append(sent, s) /\ badFrom' = badFrom /\ badTo' = badTo
  BY <1>1 DEF Sends
<1>3. bytes \in Seq(Byte)
  BY PackIs
<1>4. Stream' = Stream \o bytes
  <2> HIDE DEF bytes
  <2>1. fed \in Seq(Byte) /\ line \in Seq(Byte)
    BY DEF Typed
  <2>2. (fed \o line) \o bytes = fed \o (line \o bytes)
    BY <1>3, <2>1, JoinJoin
  <2> QED
    BY <1>2, <2>2 DEF Stream
<1> HIDE DEF bytes
<1>5. /\ Layout(Stream \o bytes, Append(sent, s), badFrom, badTo)
      /\ Len(Stream \o bytes) >= Len(Stream)
  BY LayoutSend DEF LayoutOk, bytes
<1>6. LayoutOk'
  <2>1. Layout(Stream', sent', badFrom', badTo')
    BY <1>2, <1>4, <1>5
  <2>2. badFrom' <= Len(Stream') + 1
    <3> DEFINE x == Len(Stream)
               y == Len(Stream')
    <3>1. x \in Nat /\ y \in Nat /\ y >= x /\ badFrom <= x + 1 /\ badFrom \in Nat
      <4>1. Stream' \in Seq(Byte)
        BY <1>1, <1>3, <1>4
      <4>2. y \in Nat
        BY <4>1
      <4> QED
        BY <1>1, <1>4, <1>5, <4>2 DEF LayoutOk, Layout
    <3> HIDE DEF x, y
    <3>2. badFrom <= y + 1
      BY <3>1
    <3> QED
      BY <1>2, <3>2 DEF y
  <2> QED
    BY <2>1, <2>2 DEF LayoutOk
<1>7. PassedOk'
  <2>1. PICK n \in 0 .. Len(fed) :
           parser.buf = From(fed, n) /\ Passed(sent, got, n, badFrom, badTo)
    BY DEF PassedOk
  <2>2. s \in Item /\ s.at > n /\ n \in Nat
    <3> DEFINE x == Len(Stream)
    <3>1. x \in Nat /\ Len(fed) <= x
      BY <1>1, StreamIs DEF Begins
    <3> HIDE DEF x
    <3>2. x + 1 \in Nat /\ x + 1 > n /\ n \in Nat
      BY <1>1, <3>1
    <3>3. s.at = x + 1 /\ s.frame = f
      BY DEF x
    <3> QED
      BY <3>2, <3>3 DEF Item, x
  <2> HIDE DEF s
  <2>3. sent \in Seq(Item)
    BY DEF LayoutOk, Layout
  <2>4. Passed(Append(sent, s), got, n, badFrom, badTo)
    BY <2>1, <2>2, <2>3, PassedSend
  <2>5. n \in 0 .. Len(fed') /\ parser'.buf = From(fed', n)
        /\ Passed(sent', got', n, badFrom', badTo')
    BY <1>2, <2>1, <2>4
  <2> QED
    BY <2>5 DEF PassedOk
<1> QED
  BY <1>6, <1>7

LEMMA SpoilsKeep ==
    ASSUME Typed, LayoutOk, PassedOk, NEW bytes \in Seq(Byte), Spoils(bytes)
    PROVE  LayoutOk' /\ PassedOk'
<1> DEFINE first == IF badFrom = 0 THEN Len(Stream) + 1 ELSE badFrom
           last == Len(Stream) + Len(bytes)
<1>1. /\ Stream \in Seq(Byte) /\ Len(Stream) = Place /\ Len(Stream) \in Nat
      /\ Len(fed) \in Nat
  BY StreamIs
<1>2. /\ fed' = fed /\ line' = line \o bytes /\ parser' = parser /\ got' = got
      /\ sent' = sent /\ badFrom' = first /\ badTo' = last
  BY <1>1 DEF Spoils, Spoil
<1>3. Stream' = Stream \o bytes
  <2>1. fed \in Seq(Byte) /\ line \in Seq(Byte)
    BY DEF Typed
  <2>2. (fed \o line) \o bytes = fed \o (line \o bytes)
    BY <2>1, JoinJoin
  <2> QED
    BY <1>2, <2>2 DEF Stream
<1>4. Layout(Stream, sent, badFrom, badTo) /\ badFrom <= Len(Stream) + 1
  BY DEF LayoutOk
<1>5. /\ Layout(Stream \o bytes, sent, first, last)
      /\ first # 0 /\ badTo <= last /\ first <= Len(Stream \o bytes) + 1
  BY <1>4, LayoutSpoil
<1>6. LayoutOk'
  <2> HIDE DEF first, last
  <2>1. Layout(Stream', sent', badFrom', badTo') /\ badFrom' <= Len(Stream') + 1
    BY <1>2, <1>3, <1>5
  <2> QED
    BY <2>1 DEF LayoutOk
<1>7. PassedOk'
  <2>1. PICK n \in 0 .. Len(fed) :
           parser.buf = From(fed, n) /\ Passed(sent, got, n, badFrom, badTo)
    BY DEF PassedOk
  <2>2. badFrom # 0 => first = badFrom
    OBVIOUS
  <2>3. badTo \in Nat /\ last \in Nat /\ sent \in Seq(Item)
    <3>1. badTo \in Nat /\ sent \in Seq(Item)
      BY <1>4 DEF Layout
    <3>2. Len(bytes) \in Nat
      OBVIOUS
    <3> QED
      BY <1>1, <3>1, <3>2
  <2> HIDE DEF first, last
  <2>4. Passed(sent, got, n, first, last)
    BY <1>5, <2>1, <2>2, <2>3, PassedSpoil
  <2>5. n \in 0 .. Len(fed') /\ parser'.buf = From(fed', n)
        /\ Passed(sent', got', n, badFrom', badTo')
    BY <1>2, <2>1, <2>4
  <2> QED
    BY <2>5 DEF PassedOk
<1> QED
  BY <1>6, <1>7

\* The parser at the beginning of feed(), with the bytes that it is to look at.
LEMMA ReadsTake ==
    ASSUME Typed, NEW n \in Nat \ {0}, Reads(n), NEW p, p = Starts(parser, Chunked(n))
    PROVE  /\ Chunked(n) \in Seq(Byte) /\ Stream' = Stream /\ Begins(fed', Stream)
           /\ sent' = sent /\ badFrom' = badFrom /\ badTo' = badTo
           /\ p \in AnyParser /\ got \o p.out = got
           /\ parser' = Settled(p) /\ got' = got \o Settled(p).out
           /\ \A k \in 0 .. Len(fed) :
                 /\ k \in 0 .. Len(fed') /\ From(fed', k) = From(fed, k) \o Chunked(n)
                 /\ parser.buf = From(fed, k) => p.buf = From(fed', k)
<1> DEFINE data == Chunked(n)
           rest == From(line, n)
           all == fed \o data
<1>1. /\ fed \in Seq(Byte) /\ line \in Seq(Byte) /\ parser \in AnyParser
      /\ got \in Seq(AnyFrame)
  BY DEF Typed
<1>2. /\ n <= Len(line) /\ fed' = all /\ line' = rest /\ parser' = feed(parser, data)
      /\ got' = got \o parser'.out
      /\ sent' = sent /\ badFrom' = badFrom /\ badTo' = badTo
  BY DEF Reads, Feed, Chunked, From
<1>3. data \in Seq(Byte) /\ rest \in Seq(Byte) /\ data \o rest = line
  BY <1>2, ChunkIs
<1>4. p = Starts(parser, data)
  OBVIOUS
<1> HIDE DEF data, rest
<1>5. Stream' = Stream
  <2> HIDE DEF all
  <2>1. fed \in Seq(Byte) /\ data \in Seq(Byte) /\ rest \in Seq(Byte)
    BY <1>1, <1>3
  <2>2. (fed \o data) \o rest = fed \o (data \o rest)
    BY <2>1, BytesJoin
  <2> QED
    BY <1>2, <1>3, <2>2 DEF Stream, all
<1>6. /\ all \in Seq(Byte) /\ Len(all) \in Nat /\ Len(fed) \in Nat
      /\ Len(fed) <= Len(all)
  <2>1. all \in Seq(Byte) /\ Len(all) = Len(fed) + Len(data)
        /\ Len(fed) \in Nat /\ Len(data) \in Nat
    BY <1>1, <1>3
  <2> QED
    BY <2>1
<1>7. Begins(all, Stream)
  <2>1. all \o rest = Stream
    BY <1>2, <1>5 DEF Stream
  <2> HIDE DEF all
  <2>2. /\ Len(all \o rest) = Len(all) + Len(rest) /\ Len(rest) \in Nat
        /\ \A i \in 1 .. Len(all) : (all \o rest)[i] = all[i]
    BY <1>3, <1>6
  <2> QED
    BY <1>6, <2>1, <2>2 DEF Begins
<1>8. /\ p \in AnyParser /\ p.buf = parser.buf \o data /\ p.out = <<>>
      /\ feed(parser, data) = Settled(p)
  BY <1>1, <1>3, <1>4, StartsIs
<1>9. got \o p.out = got
  <2>1. got \o <<>> = got
    BY <1>1
  <2> QED
    BY <1>8, <2>1
<1>10. ASSUME NEW k \in 0 .. Len(fed)
       PROVE  k \in 0 .. Len(all) /\ From(all, k) = From(fed, k) \o data
  <2>1. From(all, k) = From(fed, k) \o data
    BY <1>1, <1>3, FromJoin
  <2> QED
    BY <1>6, <2>1
<1> HIDE DEF all
<1>11. /\ parser' = Settled(p) /\ got' = got \o Settled(p).out
  BY <1>2, <1>8
<1>12. ASSUME NEW k \in 0 .. Len(fed)
       PROVE  /\ k \in 0 .. Len(fed') /\ From(fed', k) = From(fed, k) \o data
              /\ parser.buf = From(fed, k) => p.buf = From(fed', k)
  BY <1>2, <1>8, <1>10
<1> QED
  BY <1>2, <1>3, <1>5, <1>7, <1>8, <1>9, <1>11, <1>12 DEF data

LEMMA ReadsKeep ==
    ASSUME Typed, LayoutOk, PassedOk, NEW n \in Nat \ {0}, Reads(n)
    PROVE  LayoutOk' /\ PassedOk'
<1> DEFINE p == Starts(parser, Chunked(n))
<1> HIDE DEF p
<1>1. /\ Stream' = Stream /\ Begins(fed', Stream)
      /\ sent' = sent /\ badFrom' = badFrom /\ badTo' = badTo
      /\ p \in AnyParser /\ got \o p.out = got
      /\ parser' = Settled(p) /\ got' = got \o Settled(p).out
      /\ \A k \in 0 .. Len(fed) :
            k \in 0 .. Len(fed') /\ (parser.buf = From(fed, k) => p.buf = From(fed', k))
  BY ReadsTake DEF p
<1>2. LayoutOk'
  BY <1>1 DEF LayoutOk
<1>3. PICK k \in 0 .. Len(fed) :
         parser.buf = From(fed, k) /\ Passed(sent, got, k, badFrom, badTo)
  BY DEF PassedOk
<1>4. /\ k \in 0 .. Len(fed') /\ p.buf = From(fed', k)
      /\ Passed(sent, got \o p.out, k, badFrom, badTo)
  BY <1>1, <1>3
<1>5. Layout(Stream, sent, badFrom, badTo) /\ got \in Seq(AnyFrame)
  BY DEF LayoutOk, Typed
<1>6. \E m \in 0 .. Len(fed') :
         /\ Settled(p).buf = From(fed', m)
         /\ Passed(sent, got \o Settled(p).out, m, badFrom, badTo)
  BY <1>1, <1>4, <1>5, SettledPassed
<1>7. PassedOk'
  BY <1>1, <1>6 DEF PassedOk
<1> QED
  BY <1>2, <1>7

LEMMA ReopenCuts ==
    ASSUME sent \in Seq(Item), Reopen
    PROVE  sent' = CutShort(sent, Len(fed))
<1> DEFINE len == Len(fed)
<1>1. \A i \in DOMAIN sent : Unread(sent[i]) <=> Stop(sent[i]) > len
  <2> SUFFICES ASSUME NEW i \in DOMAIN sent
               PROVE  Unread(sent[i]) <=> Stop(sent[i]) > len
    OBVIOUS
  <2> DEFINE s == sent[i]
             a == s.at
             k == Len(s.frame.payload)
  <2>1. s \in Item
    BY InSeq
  <2>2. a \in Nat /\ k \in Nat
    BY <2>1 DEF Item, SentFrame, AnyFrame
  <2>3. Unread(s) <=> a + kFrameOverhead + k - 1 > len
    BY DEF Unread
  <2>4. Stop(s) = a + (kFrameOverhead + k) - 1
    BY DEF Stop, Size
  <2> HIDE DEF s, a, k, len
  <2>5. a + kFrameOverhead + k - 1 = a + (kFrameOverhead + k) - 1
    BY <2>2, CodecConstants
  <2> QED
    BY <2>3, <2>4, <2>5 DEF s
<1>2. sent' = [i \in DOMAIN sent |->
                 IF Unread(sent[i]) THEN [sent[i] EXCEPT !.at = Gone] ELSE sent[i]]
  BY DEF Reopen
<1> HIDE DEF len
<1>3. sent' = [i \in DOMAIN sent |->
                 IF Stop(sent[i]) > len THEN [sent[i] EXCEPT !.at = Gone] ELSE sent[i]]
  BY <1>1, <1>2, Zenon
<1> QED
  BY <1>3 DEF CutShort, len

LEMMA ReopenKeeps ==
    ASSUME Typed, LayoutOk, PassedOk, Reopen
    PROVE  LayoutOk' /\ PassedOk'
<1> DEFINE len == Len(fed)
           kept == CutShort(sent, len)
           first == IF badFrom = 0 THEN len ELSE Min({badFrom, len})
<1>1. /\ Stream \in Seq(Byte) /\ Begins(fed, Stream) /\ len \in Nat
      /\ fed \in Seq(Byte)
  BY StreamIs DEF Typed
<1>2. Layout(Stream, sent, badFrom, badTo)
  BY DEF LayoutOk
<1>3. sent \in Seq(Item)
  BY <1>2 DEF Layout
<1>4. /\ fed # <<>> /\ fed' = fed /\ line' = <<>> /\ parser' = parser /\ got' = got
      /\ badFrom' = first /\ badTo' = len
  BY DEF Reopen
<1>5. sent' = kept
  BY <1>3, ReopenCuts
<1>6. Stream' = fed
  <2>1. fed \o <<>> = fed
    BY <1>1
  <2> QED
    BY <1>4, <2>1 DEF Stream
<1>7. /\ Layout(fed, kept, first, len)
      /\ first # 0 /\ first <= len /\ (badFrom # 0 => first <= badFrom)
  BY <1>1, <1>2, <1>4, LayoutCut
<1>8. first \in Nat
  <2> HIDE DEF first
  <2> QED
    BY <1>7 DEF Layout
<1>9. LayoutOk'
  <2>1. first <= len + 1
    <3> HIDE DEF first, len
    <3> QED
      BY <1>1, <1>7, <1>8
  <2> HIDE DEF first, kept
  <2>2. Layout(Stream', sent', badFrom', badTo') /\ badFrom' <= Len(Stream') + 1
    BY <1>4, <1>5, <1>6, <1>7, <2>1
  <2> QED
    BY <2>2 DEF LayoutOk
<1>10. PassedOk'
  <2>1. PICK n \in 0 .. Len(fed) :
           parser.buf = From(fed, n) /\ Passed(sent, got, n, badFrom, badTo)
    BY DEF PassedOk
  <2> HIDE DEF first, len
  <2>2. Passed(kept, got, n, first, len)
    BY <1>1, <1>2, <1>7, <1>8, <2>1, PassedCut
  <2> HIDE DEF kept
  <2>3. n \in 0 .. Len(fed') /\ parser'.buf = From(fed', n)
        /\ Passed(sent', got', n, badFrom', badTo')
    BY <1>4, <1>5, <2>1, <2>2
  <2> QED
    BY <2>3 DEF PassedOk
<1> QED
  BY <1>9, <1>10

LEMMA LayoutKept ==
    ASSUME ParserOk, [ParserNext]_parserVars
    PROVE  LayoutOk' /\ PassedOk'
<1>1. Typed /\ LayoutOk /\ PassedOk
  BY DEF ParserOk, OnceOk
<1>2. CASE ParserNext
  <2>1. ASSUME NEW f \in SentFrame, Sends(f) PROVE LayoutOk' /\ PassedOk'
    BY <1>1, <2>1, SendsKeep
  <2>2. ASSUME NEW bytes \in Seq(Byte), Spoils(bytes) PROVE LayoutOk' /\ PassedOk'
    BY <1>1, <2>2, SpoilsKeep
  <2>3. ASSUME NEW n \in Nat \ {0}, Reads(n) PROVE LayoutOk' /\ PassedOk'
    BY <1>1, <2>3, ReadsKeep
  <2>4. ASSUME Reopen PROVE LayoutOk' /\ PassedOk'
    BY <1>1, <2>4, ReopenKeeps
  <2> QED
    BY <1>1, <1>2, <2>1, <2>2, <2>3, <2>4, StepIs
<1>3. CASE UNCHANGED parserVars
  BY <1>1, <1>3 DEF parserVars, LayoutOk, PassedOk, Stream
<1> QED
  BY <1>2, <1>3

LEMMA LayoutFirst == ParserInit => LayoutOk /\ PassedOk
<1> SUFFICES ASSUME ParserInit PROVE LayoutOk /\ PassedOk
  OBVIOUS
<1> DEFINE e == <<>>
<1>1. /\ line = e /\ fed = e /\ sent = e /\ got = e /\ parser = EmptyParser
      /\ badFrom = 0 /\ badTo = 0
  BY DEF ParserInit
<1>2. e \in Seq(Byte) /\ e \in Seq(Item) /\ Len(e) = 0 /\ e \o e = e /\ DOMAIN e = {}
  OBVIOUS
<1> HIDE DEF e
<1>3. Stream = e
  BY <1>1, <1>2 DEF Stream
<1>4. Layout(e, e, 0, 0)
  <2>1. ASSUME NEW b \in Nat, Stray(e, e, b) PROVE FALSE
    BY <1>2, <2>1 DEF Stray
  <2>2. Placed(e, e) /\ Ordered(e)
    BY <1>2 DEF Placed, Ordered
  <2>3. Marked(e, e, 0)
    BY <1>2, <2>1 DEF Marked
  <2>4. Since(e, e, 0)
    BY <2>1 DEF Since
  <2> QED
    BY <1>2, <2>2, <2>3, <2>4 DEF Layout
<1>5. LayoutOk
  BY <1>1, <1>2, <1>3, <1>4 DEF LayoutOk
<1>6. PassedOk
  <2>1. parser.buf = From(fed, 0)
    <3>1. From(<<>>, 0) = <<>>
      BY DEF From
    <3> QED
      BY <1>1, <3>1, EmptyType DEF e
  <2>2. Passed(sent, got, 0, badFrom, badTo)
    BY <1>1, <1>2 DEF Passed
  <2>3. 0 \in 0 .. Len(fed)
    BY <1>1, <1>2
  <2> QED
    BY <2>1, <2>2, <2>3 DEF PassedOk
<1> QED
  BY <1>5, <1>6

LEMMA ParserOkFirst == ParserInit => ParserOk
  BY OnceFirst, LayoutFirst DEF ParserOk

LEMMA ParserOkKept == ParserOk /\ [ParserNext]_parserVars => ParserOk'
<1> SUFFICES ASSUME ParserOk, [ParserNext]_parserVars PROVE ParserOk'
  OBVIOUS
<1>1. OnceOk'
  BY OnceKept DEF ParserOk
<1>2. LayoutOk' /\ PassedOk'
  BY LayoutKept
<1> QED
  BY <1>1, <1>2 DEF ParserOk

-----------------------------------------------------------------------------
(* The way back.                                                           *)

\* The header with which the parser waits is no frame's, if all bytes were read.
LEMMA WaitsForNone ==
    ASSUME NEW str \in Seq(Byte), NEW n \in 0 .. Len(str),
           NEW buf, buf = From(str, n), ~Whole(buf),
           NEW s \in Item, Here(s), PlacedIn(str, s)
    PROVE  s.at # n + 1
<1> SUFFICES ASSUME s.at = n + 1 PROVE Whole(buf)
  OBVIOUS
<1> DEFINE f == s.frame
           size == Size(f)
           y == Stop(s)
<1>1. Begins(str, str)
  BY DEF Begins
<1>2. /\ buf \in Seq(Byte) /\ n \in Nat /\ Len(buf) \in Nat
      /\ n + Len(buf) = Len(str)
      /\ \A j \in 1 .. Len(buf) : buf[j] = str[n + j]
  BY <1>1, RestAt
<1>3. size \in Nat /\ y = (n + 1) + size - 1 /\ y <= Len(str) /\ f \in SentFrame
  BY PlacedIs DEF Item
<1>4. \A j \in 1 .. size : str[((n + 1) - 1) + j] = packFrame(f)[j]
  BY DEF PlacedIn
<1> HIDE DEF f, size, y
<1>5. size <= Len(buf)
  BY <1>2, <1>3
<1>6. ASSUME NEW j \in 1 .. size PROVE buf[j] = packFrame(f)[j]
  <2> DEFINE m == Len(buf)
  <2>1. m \in Nat /\ size \in Nat /\ size <= m /\ n \in Nat
    BY <1>2, <1>3, <1>5
  <2> HIDE DEF m
  <2>2. j \in 1 .. m
    BY <2>1
  <2>3. ((n + 1) - 1) + j = n + j
    BY <2>1
  <2>4. buf[j] = str[n + j]
    BY <1>2, <2>2 DEF m
  <2> QED
    BY <1>4, <2>3, <2>4
<1> QED
  BY <1>2, <1>3, <1>5, <1>6, FrontIs DEF size

\* A frame that the parser has read and not yet passed is excused.
LEMMA WaitingExcused ==
    ASSUME NEW str, NEW items, NEW from, NEW to, Layout(str, items, from, to),
           NEW n \in 0 .. Len(str), NEW buf, buf = From(str, n), Waiting(buf),
           NEW frames, Passed(items, frames, n, from, to),
           NEW i \in DOMAIN items, Here(items[i]), ~(items[i].at <= n)
    PROVE  Excused(items, i, from, to)
<1> DEFINE x == items[i].at
           y == Stop(items[i])
           size == Size(items[i].frame)
           m == Len(buf)
           len == Len(str)
           c == buf[4]
           h == n + 1
<1>1. str \in Seq(Byte) /\ Begins(str, str)
  BY DEF Layout, Begins
<1>2. buf \in Seq(Byte) /\ n \in Nat /\ m \in Nat /\ n + m = len /\ len \in Nat
  BY <1>1, RestAt
<1>3. items[i] \in Item /\ PlacedIn(str, items[i])
  BY LayoutTypes
<1>4. x \in Nat /\ y \in Nat /\ size \in Nat /\ size >= 7 /\ y = x + size - 1 /\ y <= len
  BY <1>1, <1>3, PlacedIs
<1>5. ~(x <= n)
  OBVIOUS
<1>6. m >= 7
  <2> HIDE DEF x, y, size, m, len
  <2> QED
    BY <1>2, <1>4, <1>5
<1>7. HeadAt(buf, 1) /\ ~TooLongAt(buf) /\ ~Whole(buf)
  <2>1. Len(buf) >= 2
    <3> HIDE DEF m
    <3>1. m >= 2
      BY <1>2, <1>6
    <3> QED
      BY <3>1 DEF m
  <2> QED
    BY <2>1 DEF Waiting
<1>8. 5 <= m
  <2> HIDE DEF m
  <2> QED
    BY <1>2, <1>6
<1>9. /\ h \in Nat \ {0} /\ h + 3 <= len
      /\ str[h] = kHead0 /\ str[h + 1] = kHead1 /\ str[h + 3] = c
      /\ c \in Nat
  BY <1>1, <1>7, <1>8, HeaderIs
<1>10. c <= kMaxPayload /\ m < 7 + c
  <2>1. ~(c > kMaxPayload)
    <3>1. m >= 5
      <4> HIDE DEF m
      <4> QED
        BY <1>2, <1>8
    <3> QED
      BY <1>7, <3>1 DEF TooLongAt
  <2>2. c <= kMaxPayload
    <3> HIDE DEF c
    <3> QED
      BY <1>9, <2>1, CodecConstants
  <2>3. ~(m >= 7 + c)
    <3>1. m >= 5
      <4> HIDE DEF m
      <4> QED
        BY <1>2, <1>8
    <3> QED
      BY <1>7, <2>2, <3>1 DEF Whole
  <2>4. m \in Nat /\ c \in Nat
    BY <1>2, <1>9
  <2> HIDE DEF m, c, h
  <2>5. m < 7 + c
    BY <2>3, <2>4
  <2> QED
    BY <2>2, <2>5
<1>11. ASSUME NEW k \in DOMAIN items, Here(items[k]) PROVE items[k].at # h
  <2>1. items[k] \in Item /\ PlacedIn(str, items[k])
    BY <1>11, LayoutTypes
  <2> QED
    BY <1>1, <1>7, <1>11, <2>1, WaitsForNone
<1>12. x # h
  BY <1>11
<1> HIDE DEF x, y, size, m, len, c, h
<1>13. /\ h < x /\ x <= h + 6 + c /\ h - 1 = n
  <2>1. x \in Nat /\ y \in Nat /\ x <= y /\ y <= len /\ x # h /\ ~(x <= n)
    BY <1>4, <1>5, <1>12
  <2>2. n \in Nat /\ m \in Nat /\ c \in Nat /\ h \in Nat /\ len \in Nat
    BY <1>2, <1>9
  <2>3. h = n + 1 /\ n + m = len /\ m < 7 + c
    BY <1>2, <1>10 DEF h
  <2>4. h < x /\ h - 1 = n
    BY <2>1, <2>2, <2>3
  <2>5. x <= h + 6 + c
    BY <2>1, <2>2, <2>3
  <2> QED
    BY <2>4, <2>5
<1>14. h < items[i].at /\ items[i].at <= h + 6 + str[h + 3]
  BY <1>9, <1>13 DEF x
<1>15. Passed(items, frames, h - 1, from, to) /\ str[h + 3] <= kMaxPayload
  BY <1>9, <1>10, <1>13
<1> QED
  BY <1>9, <1>11, <1>14, <1>15, FalseHeader DEF len

LEMMA WayBack == ParserOk => Resynchronises
<1> SUFFICES ASSUME ParserOk, line = <<>>, NEW i \in DOMAIN sent, sent[i].at # Gone
             PROVE  \/ sent[i].frame \in ToSet(got)
                    \/ Excused(sent, i, badFrom, badTo)
  BY DEF Resynchronises, Excused
<1>1. Typed /\ Waiting(parser.buf) /\ Layout(Stream, sent, badFrom, badTo)
  BY RestOfOnce DEF ParserOk, OnceOk, LayoutOk
<1>2. Stream = fed
  <2>1. fed \o <<>> = fed
    BY <1>1 DEF Typed
  <2> QED
    BY <2>1 DEF Stream
<1>3. PICK n \in 0 .. Len(fed) :
         parser.buf = From(fed, n) /\ Passed(sent, got, n, badFrom, badTo)
  BY DEF ParserOk, PassedOk
<1>4. Here(sent[i])
  BY DEF Here
<1>5. CASE sent[i].at <= n
  BY <1>3, <1>4, <1>5 DEF Passed
<1>6. CASE ~(sent[i].at <= n)
  BY <1>1, <1>2, <1>3, <1>4, <1>6, WaitingExcused
<1> QED
  BY <1>5, <1>6

\* A good frame that was read is returned, unless something bad came before it;
\* and then the parser loses at most those that begin among the next
\* kMaxFrame - 4 bytes, until a payload looks like a header: whatever the bytes,
\* the chunks and the faults are, and however many.
THEOREM FindsItsWayBack == ParserSpec => []Resynchronises
  BY ParserOkFirst, ParserOkKept, WayBack, PTL DEF ParserSpec

-----------------------------------------------------------------------------
(* Only what was sent.                                                     *)

\* Of what a round counts: so many bytes dropped, so many frames found.
Counts(p, dropped, found) ==
    /\ Round(p).crcErr = p.crcErr
    /\ Round(p).drop = p.drop + dropped /\ Round(p).frames = p.frames + found

\* A round that skips the bytes from n + 1 to k and then reads as far as m: it
\* waits, gives up a header, or finds a frame.
Moves(all, n, p, k, m) ==
    /\ n <= k /\ k <= m /\ Round(p).buf = From(all, m)
    /\ \A x \in n + 1 .. k : ~HeadAt(all, x)
    /\ \A x \in n + 1 .. k : x = Len(all) => all[x] # kHead0
    /\ \/ Round(p).out = p.out /\ m = k /\ Counts(p, k - n, 0)
       \/ /\ Round(p).out = p.out /\ HeadAt(From(all, k), 1)
          /\ \/ TooLongAt(From(all, k))
             \/ Whole(From(all, k)) /\ ~Sound(From(all, k))
       \/ /\ HeadAt(From(all, k), 1) /\ Whole(From(all, k)) /\ Sound(From(all, k))
          /\ m = k + (7 + From(all, k)[4])
          /\ Round(p).out = Append(p.out, FrameOf(From(all, k)))
          /\ Counts(p, k - n, 1)

LEMMA RoundMoves ==
    ASSUME NEW all \in Seq(Byte), NEW n \in 0 .. Len(all),
           NEW p \in AnyParser, p.buf = From(all, n)
    PROVE  \E k, m \in 0 .. Len(all) : Moves(all, n, p, k, m)
<1> DEFINE q == Skipped(p)
           r == Round(p)
           k == n + Skip(p.buf)
           Goes(i, j) ==
              /\ n <= i /\ i <= j /\ r.buf = From(all, j)
              /\ \A x \in n + 1 .. i : ~HeadAt(all, x)
              /\ \A x \in n + 1 .. i : x = Len(all) => all[x] # kHead0
              /\ \/ r.out = p.out /\ j = i /\ Counts(p, i - n, 0)
                 \/ /\ r.out = p.out /\ HeadAt(From(all, i), 1)
                    /\ \/ TooLongAt(From(all, i))
                       \/ Whole(From(all, i)) /\ ~Sound(From(all, i))
                 \/ /\ HeadAt(From(all, i), 1) /\ Whole(From(all, i)) /\ Sound(From(all, i))
                    /\ j = i + (7 + From(all, i)[4])
                    /\ r.out = Append(p.out, FrameOf(From(all, i)))
                    /\ Counts(p, i - n, 1)
<1>1. Begins(all, all) /\ Len(all) \in Nat
  BY DEF Begins
<1>2. /\ q \in AnyParser /\ q.buf = From(all, k) /\ q.out = p.out
      /\ k \in 0 .. Len(all) /\ n <= k
      /\ \A x \in n + 1 .. k : ~HeadAt(all, x)
      /\ \A x \in n + 1 .. k : x = Len(all) => all[x] # kHead0
  BY <1>1, SkippedAt
<1>3. n \in Nat /\ k \in Nat /\ k <= k
  BY <1>1, <1>2
<1>4. q.buf \in Seq(Byte)
  <2> HIDE DEF q
  <2> QED
    BY <1>2 DEF AnyParser
<1>5. TooLongAt(q.buf) \/ Whole(q.buf) => HeadAt(q.buf, 1) /\ 5 <= Len(q.buf)
  BY RoundCases DEF Acts
<1>6. (TooLongAt(q.buf) => r = Dropped(q, 2, 1)) /\ (Whole(q.buf) => r = AfterFrame(q))
      /\ (~Acts(p) => r = q)
  BY RoundCases
<1>7. Acts(p) <=> TooLongAt(q.buf) \/ Whole(q.buf)
  BY DEF Acts
<1>8. /\ q.drop = p.drop + (k - n) /\ q.crcErr = p.crcErr /\ q.frames = p.frames
      /\ p.frames \in Nat
  <2> DEFINE c == Skip(p.buf)
  <2>1. q.drop = p.drop + c /\ q.crcErr = p.crcErr /\ q.frames = p.frames
    BY SkippedIs
  <2>2. c \in Nat /\ n \in Nat /\ p.frames \in Nat
    <3>1. Len(p.buf) \in Nat /\ c \in 0 .. Len(p.buf)
      BY SkippedIs DEF AnyParser
    <3> QED
      BY <1>1, <3>1 DEF AnyParser
  <2> HIDE DEF c
  <2>3. (n + c) - n = c
    BY <2>2
  <2> QED
    BY <2>1, <2>2, <2>3 DEF c
<1> HIDE DEF q, r, k
<1>9. SUFFICES \E i, j \in 0 .. Len(all) : Goes(i, j)
  BY DEF r, Moves
<1>10. CASE ~Acts(p)
  <2>1. Counts(p, k - n, 0)
    BY <1>6, <1>8, <1>10 DEF Counts, r
  <2>2. Goes(k, k)
    BY <1>2, <1>3, <1>6, <1>10, <2>1
  <2> HIDE DEF Goes
  <2> QED
    BY <1>2, <2>2
<1>11. CASE TooLongAt(q.buf)
  <2> DEFINE c == 2
             m == k + c
  <2>1. 5 <= Len(q.buf) /\ Len(q.buf) \in Nat /\ k + Len(q.buf) = Len(all)
    BY <1>1, <1>2, <1>5, <1>11, RestAt
  <2>2. c \in 0 .. Len(q.buf) /\ 1 \in Nat /\ c \in Nat
    BY <2>1
  <2>3. m \in 0 .. Len(all) /\ k <= m /\ k + c <= Len(all)
    <3> DEFINE l == Len(q.buf)
    <3>1. 5 <= l /\ l \in Nat /\ k + l = Len(all)
      BY <2>1
    <3> HIDE DEF l
    <3> QED
      BY <1>1, <1>3, <3>1
  <2>4. r = Dropped(q, c, 1)
    BY <1>6, <1>11
  <2> HIDE DEF c
  <2>5. r.buf = From(q.buf, c) /\ r.out = q.out
    BY <1>2, <2>2, <2>4, DroppedIs, Zenon
  <2>6. From(From(all, k), c) = From(all, m)
    BY <1>1, <1>3, <2>2, <2>3, FromFrom
  <2>7. n <= m
    BY <1>1, <1>2, <1>3, <2>3
  <2> HIDE DEF m
  <2>8. Goes(k, m)
    <3>1. r.out = p.out /\ HeadAt(From(all, k), 1) /\ TooLongAt(From(all, k))
      BY <1>2, <1>5, <1>11, <2>5
    <3> QED
      BY <1>2, <2>3, <2>5, <2>6, <3>1
  <2> HIDE DEF Goes
  <2> QED
    BY <1>2, <2>3, <2>8
<1>12. CASE Whole(q.buf)
  <2> DEFINE d == 7 + q.buf[4]
             m == k + d
             f == FrameOf(q.buf)
  <2>1. r.buf = From(q.buf, d) /\ r.out = IF Sound(q.buf) THEN Append(q.out, f) ELSE q.out
    <3>1. r = AfterFrame(q)
      BY <1>6, <1>12
    <3>2. r.buf = From(q.buf, d)
      BY <3>1 DEF AfterFrame
    <3>3. r.out = IF Sound(q.buf) THEN Append(q.out, f) ELSE q.out
      BY <3>1 DEF AfterFrame
    <3> QED
      BY <3>2, <3>3
  <2>2. d \in 1 .. Len(q.buf) /\ k + Len(q.buf) = Len(all) /\ Len(q.buf) \in Nat
    BY <1>1, <1>2, <1>4, <1>12, FrameOfType, RestAt
  <2> HIDE DEF d
  <2>3. m \in 0 .. Len(all) /\ k <= m /\ k + d <= Len(all) /\ d \in Nat
    <3> DEFINE l == Len(q.buf)
    <3>1. d \in 1 .. l /\ l \in Nat /\ k + l = Len(all)
      BY <2>2
    <3> HIDE DEF l
    <3> QED
      BY <1>1, <1>3, <3>1
  <2>4. From(From(all, k), d) = From(all, m)
    BY <1>1, <1>3, <2>3, FromFrom
  <2>5. HeadAt(q.buf, 1)
    BY <1>5, <1>12
  <2>6. r.buf = From(all, m)
    BY <1>2, <2>1, <2>4
  <2>7. CASE Sound(q.buf)
    <3>1. r.out = Append(q.out, f)
      BY <2>1, <2>7
    <3>2. m = k + (7 + q.buf[4])
      BY DEF d
    <3>3. Counts(p, k - n, 1)
      <4>1. r.crcErr = q.crcErr /\ r.drop = q.drop /\ r.frames = q.frames + 1
        BY <1>6, <1>12, <2>7 DEF AfterFrame
      <4> QED
        BY <1>8, <4>1 DEF Counts, r
    <3> HIDE DEF m, f
    <3>4. /\ HeadAt(From(all, k), 1) /\ Whole(From(all, k)) /\ Sound(From(all, k))
          /\ m = k + (7 + From(all, k)[4])
          /\ r.out = Append(p.out, FrameOf(From(all, k)))
      BY <1>2, <1>12, <2>5, <2>7, <3>1, <3>2 DEF f
    <3>5. Goes(k, m)
      BY <1>2, <2>3, <2>6, <3>3, <3>4
    <3> HIDE DEF Goes
    <3> QED
      BY <1>2, <2>3, <3>5 DEF m
  <2>8. CASE ~Sound(q.buf)
    <3>1. r.out = p.out /\ HeadAt(From(all, k), 1) /\ Whole(From(all, k))
          /\ ~Sound(From(all, k))
      BY <1>2, <1>12, <2>1, <2>5, <2>8
    <3> HIDE DEF m
    <3>2. Goes(k, m)
      BY <1>2, <2>3, <2>6, <3>1
    <3> HIDE DEF Goes
    <3> QED
      BY <1>2, <2>3, <3>2 DEF m
  <2> QED
    BY <2>7, <2>8
<1> QED
  BY <1>7, <1>10, <1>11, <1>12

\* The frames returned are frames that came through among the first n bytes, in
\* their order and each once.
Traces(from, items, frames, n) ==
    /\ from \in [DOMAIN frames -> DOMAIN items]
    /\ \A i \in DOMAIN frames :
          /\ frames[i] = items[from[i]].frame
          /\ Here(items[from[i]]) /\ Stop(items[from[i]]) <= n
    /\ \A i, j \in DOMAIN frames : i < j => from[i] < from[j]

Traced(items, frames, n) == \E from : Traces(from, items, frames, n)

\* A complete frame with its checksum is found nowhere but where one was sent.
Genuine(all, items) ==
    \A k \in 0 .. Len(all) :
        HeadAt(From(all, k), 1) /\ Whole(From(all, k)) /\ Sound(From(all, k)) =>
            \E i \in DOMAIN items : items[i].at = k + 1

LEMMA TracedLater ==
    ASSUME NEW items, NEW frames, NEW n \in Nat, NEW m \in Nat, n <= m,
           \A i \in DOMAIN items : Here(items[i]) => Stop(items[i]) \in Nat,
           Traced(items, frames, n)
    PROVE  Traced(items, frames, m)
<1>1. PICK from : Traces(from, items, frames, n)
  BY DEF Traced
<1>2. ASSUME NEW i \in DOMAIN frames PROVE Stop(items[from[i]]) <= m
  <2> DEFINE y == Stop(items[from[i]])
  <2>1. from[i] \in DOMAIN items /\ Here(items[from[i]]) /\ y <= n
    BY <1>1 DEF Traces
  <2>2. y \in Nat
    BY <2>1
  <2> HIDE DEF y
  <2>3. y <= m
    BY <2>1, <2>2
  <2> QED
    BY <2>3 DEF y
<1>3. Traces(from, items, frames, m)
  BY <1>1, <1>2 DEF Traces
<1> QED
  BY <1>3 DEF Traced

LEMMA TracedMore ==
    ASSUME NEW str, NEW items, NEW first, NEW last, Layout(str, items, first, last),
           NEW frames \in Seq(AnyFrame), NEW n \in Nat, NEW m \in Nat, n <= m,
           Traced(items, frames, n),
           NEW k \in DOMAIN items, Here(items[k]), items[k].at > n, Stop(items[k]) <= m
    PROVE  Traced(items, Append(frames, items[k].frame), m)
<1> DEFINE f == items[k].frame
           more == Append(frames, f)
           len == Len(frames)
           x == items[k].at
           y == Stop(items[k])
<1>1. /\ x \in Nat /\ y \in Nat /\ x <= y /\ x > n /\ y <= m /\ k \in Nat
      /\ items[k] \in Item
  BY LayoutTypes
<1>2. f \in AnyFrame
  BY <1>1 DEF Item, SentFrame
<1>3. PICK old : Traces(old, items, frames, n)
  BY DEF Traced
<1>4. /\ len \in Nat /\ more \in Seq(AnyFrame) /\ more[len + 1] = f
      /\ \A i \in DOMAIN frames : i \in DOMAIN more /\ more[i] = frames[i] /\ i \in 1 .. len
      /\ \A i \in DOMAIN more : i \in DOMAIN frames \/ i = len + 1
      /\ \A i \in 1 .. len : i \in DOMAIN frames
  <2> HIDE DEF f
  <2> QED
    BY <1>2
<1> DEFINE from == [i \in DOMAIN more |-> IF i \in DOMAIN frames THEN old[i] ELSE k]
<1> HIDE DEF f, more, len, x, y
<1>5. ASSUME NEW i \in DOMAIN frames
      PROVE  /\ from[i] = old[i] /\ old[i] \in DOMAIN items /\ frames[i] = items[old[i]].frame
             /\ Here(items[old[i]]) /\ Stop(items[old[i]]) <= n
             /\ Stop(items[old[i]]) \in Nat /\ items[old[i]].at <= Stop(items[old[i]])
             /\ items[old[i]].at \in Nat /\ old[i] \in Nat
  <2>1. from[i] = old[i]
    BY <1>4
  <2>2. /\ old[i] \in DOMAIN items /\ frames[i] = items[old[i]].frame
        /\ Here(items[old[i]]) /\ Stop(items[old[i]]) <= n
    BY <1>3 DEF Traces
  <2>3. /\ Stop(items[old[i]]) \in Nat /\ items[old[i]].at <= Stop(items[old[i]])
        /\ items[old[i]].at \in Nat /\ old[i] \in Nat
    BY <2>2, LayoutTypes
  <2> QED
    BY <2>1, <2>2, <2>3
<1>6. ASSUME NEW i \in DOMAIN more, i \notin DOMAIN frames PROVE from[i] = k /\ i = len + 1
  BY <1>4, <1>6
\* The frame comes after all that were found.
<1>7. ASSUME NEW i \in DOMAIN frames PROVE old[i] < k
  <2> DEFINE v == items[old[i]].at
             w == Stop(items[old[i]])
             j == old[i]
  <2>1. /\ v \in Nat /\ w \in Nat /\ v <= w /\ w <= n /\ j \in Nat
        /\ j \in DOMAIN items /\ Here(items[j])
    BY <1>5
  <2>2. (j < k => w < x) /\ (k < j => y < v) /\ (j = k => v = x)
    BY <2>1 DEF Layout, Ordered, x, y
  <2> HIDE DEF v, w, j
  <2>3. x > n /\ x \in Nat /\ y \in Nat /\ x <= y /\ n \in Nat /\ k \in Nat
    BY <1>1
  <2>4. j # k
    BY <2>1, <2>2, <2>3
  <2>5. ~(k < j)
    BY <2>1, <2>2, <2>3
  <2>6. j < k
    BY <2>1, <2>3, <2>4, <2>5
  <2> QED
    BY <2>6 DEF j
<1>8. from \in [DOMAIN more -> DOMAIN items]
  <2>1. ASSUME NEW i \in DOMAIN more PROVE from[i] \in DOMAIN items
    BY <1>5, <1>6
  <2> QED
    BY <2>1
<1>9. ASSUME NEW i \in DOMAIN more
      PROVE  /\ more[i] = items[from[i]].frame
             /\ Here(items[from[i]]) /\ Stop(items[from[i]]) <= m
  <2>1. CASE i \in DOMAIN frames
    <3> DEFINE w == Stop(items[old[i]])
    <3>1. w \in Nat /\ w <= n
      BY <1>5, <2>1
    <3> HIDE DEF w
    <3>2. w <= m
      BY <3>1
    <3>3. Stop(items[old[i]]) <= m
      BY <3>2 DEF w
    <3> HIDE DEF from
    <3> QED
      BY <1>4, <1>5, <2>1, <3>3
  <2>2. CASE i \notin DOMAIN frames
    <3>1. from[i] = k /\ i = len + 1
      BY <1>6, <2>2
    <3> HIDE DEF from
    <3> QED
      BY <1>1, <1>4, <3>1 DEF f, y
  <2> QED
    BY <2>1, <2>2
<1>10. ASSUME NEW i \in DOMAIN more, NEW j \in DOMAIN more, i < j
       PROVE  from[i] < from[j]
  <2>1. i \in Nat /\ j \in Nat /\ (j \in DOMAIN frames \/ j = len + 1)
    BY <1>4, InSeq
  <2>2. i \in DOMAIN frames
    <3>1. CASE i = len + 1
      BY <1>4, <1>10, <2>1, <3>1
    <3> QED
      BY <1>4, <3>1
  <2>3. CASE j \in DOMAIN frames
    <3>1. old[i] < old[j]
      BY <1>3, <1>10, <2>2, <2>3 DEF Traces
    <3>2. from[i] = old[i] /\ from[j] = old[j]
      BY <1>5, <2>2, <2>3
    <3> HIDE DEF from
    <3> QED
      BY <3>1, <3>2
  <2>4. CASE j \notin DOMAIN frames
    <3>1. old[i] < k
      BY <1>7, <2>2
    <3>2. from[i] = old[i] /\ from[j] = k
      BY <1>5, <1>6, <2>2, <2>4
    <3> HIDE DEF from
    <3> QED
      BY <3>1, <3>2
  <2> QED
    BY <2>3, <2>4
<1>11. Traces(from, items, more, m)
  <2> HIDE DEF from
  <2> QED
    BY <1>8, <1>9, <1>10 DEF Traces
<1> QED
  BY <1>11 DEF Traced, more, f

LEMMA RoundTraced ==
    ASSUME NEW str, NEW items, NEW first, NEW last, Layout(str, items, first, last),
           NEW all, Begins(all, str), NEW n \in 0 .. Len(all), Genuine(all, items),
           NEW p \in AnyParser, p.buf = From(all, n), NEW frames \in Seq(AnyFrame),
           Traced(items, frames \o p.out, n)
    PROVE  \E m \in 0 .. Len(all) :
              Round(p).buf = From(all, m) /\ Traced(items, frames \o Round(p).out, m)
<1> DEFINE r == Round(p)
           o == p.out
           found == frames \o o
<1>1. str \in Seq(Byte) /\ all \in Seq(Byte) /\ Len(all) \in Nat
  <2>1. str \in Seq(Byte)
    BY DEF Layout
  <2> QED
    BY <2>1, ReadIs
<1>2. PICK k, m \in 0 .. Len(all) : Moves(all, n, p, k, m)
  BY <1>1, RoundMoves
<1>3. /\ n <= k /\ k <= m /\ r.buf = From(all, m)
      /\ \/ r.out = p.out
         \/ /\ HeadAt(From(all, k), 1) /\ Whole(From(all, k)) /\ Sound(From(all, k))
            /\ m = k + (7 + From(all, k)[4])
            /\ r.out = Append(p.out, FrameOf(From(all, k)))
  BY <1>2 DEF Moves
<1>4. n \in Nat /\ k \in Nat /\ m \in Nat /\ n <= m
  BY <1>1, <1>2, <1>3
<1>5. \A i \in DOMAIN items : Here(items[i]) => Stop(items[i]) \in Nat
  BY LayoutTypes
<1>6. o \in Seq(AnyFrame)
  BY DEF AnyParser
<1> HIDE DEF r, o
<1>7. found \in Seq(AnyFrame)
  BY <1>6
<1> HIDE DEF found
<1>8. Traced(items, found, n)
  BY DEF found, o
<1>9. CASE r.out = p.out
  <2>1. Traced(items, found, m)
    BY <1>4, <1>5, <1>8, TracedLater
  <2>2. frames \o r.out = found
    BY <1>9 DEF found, o
  <2> QED
    BY <1>3, <2>1, <2>2 DEF r
<1>10. CASE r.out # p.out
  <2> DEFINE buf == From(all, k)
  <2>1. /\ HeadAt(buf, 1) /\ Whole(buf) /\ Sound(buf)
        /\ m = k + (7 + buf[4]) /\ r.out = Append(o, FrameOf(buf))
    BY <1>3, <1>10 DEF o
  <2>2. PICK i \in DOMAIN items : items[i].at = k + 1
    BY <1>3, <2>1 DEF Genuine
  <2>3. Here(items[i])
    <3>1. k + 1 # 0
      BY <1>4
    <3> QED
      BY <2>2, <3>1 DEF Here, Gone
  <2>4. items[i] \in Item /\ PlacedIn(str, items[i])
    BY <2>3, LayoutTypes
  <2>5. FrameOf(buf) = items[i].frame /\ Stop(items[i]) = k + (7 + buf[4])
    BY <1>1, <1>2, <2>1, <2>2, <2>3, <2>4, FrontSent
  <2> HIDE DEF buf
  <2>6. Stop(items[i]) <= m /\ items[i].at > n
    <3>1. m <= m /\ k + 1 > n
      BY <1>3, <1>4
    <3> QED
      BY <2>1, <2>2, <2>5, <3>1
  <2>7. Traced(items, Append(found, items[i].frame), m)
    BY <1>4, <1>7, <1>8, <2>3, <2>6, TracedMore
  <2>8. frames \o r.out = Append(found, items[i].frame)
    <3> DEFINE f == items[i].frame
    <3>1. f \in AnyFrame
      BY <2>4 DEF Item, SentFrame
    <3>2. r.out = Append(o, f)
      BY <2>1, <2>5
    <3> HIDE DEF f
    <3>3. frames \o Append(o, f) = Append(frames \o o, f)
      BY <1>6, <3>1, JoinAppend
    <3> QED
      BY <3>2, <3>3 DEF f, found
  <2> QED
    BY <1>3, <2>7, <2>8 DEF r
<1> QED
  BY <1>9, <1>10

LEMMA SettledTraced ==
    ASSUME NEW str, NEW items, NEW first, NEW last, Layout(str, items, first, last),
           NEW all, Begins(all, str), NEW n \in 0 .. Len(all), Genuine(all, items),
           NEW p \in AnyParser, p.buf = From(all, n), NEW frames \in Seq(AnyFrame),
           Traced(items, frames \o p.out, n)
    PROVE  \E m \in 0 .. Len(all) :
              Settled(p).buf = From(all, m) /\ Traced(items, frames \o Settled(p).out, m)
<1> DEFINE At(q) == \E m \in 0 .. Len(all) :
                       q.buf = From(all, m) /\ Traced(items, frames \o q.out, m)
           P == {i \in Nat : At(Rounds(p, i))}
<1>1. 0 \in P
  <2>1. Rounds(p, 0) = p
    BY RoundsStep
  <2> QED
    BY <2>1
<1>2. ASSUME NEW i \in Nat, i \in P PROVE i + 1 \in P
  <2> DEFINE q == Rounds(p, i)
  <2>1. q \in AnyParser /\ Rounds(p, i + 1) = Round(q) /\ At(q)
    BY <1>2, RoundsType, RoundsStep
  <2> HIDE DEF q
  <2>2. PICK m \in 0 .. Len(all) :
           q.buf = From(all, m) /\ Traced(items, frames \o q.out, m)
    BY <2>1
  <2>3. At(Round(q))
    BY <2>1, <2>2, RoundTraced
  <2> QED
    BY <2>1, <2>3
<1> HIDE DEF P
<1>3. Nat \subseteq P
  BY <1>1, <1>2, Induction
<1>4. Len(p.buf) \in P
  BY <1>3 DEF AnyParser
<1> QED
  BY <1>4 DEF P, Settled

\* Noise and damage that look like a complete frame with its checksum cannot be
\* told from one that was sent: in what was read there are none.
NoForgery == Genuine(fed, sent)

TracedOk ==
    NoForgery =>
        \E n \in 0 .. Len(fed) : parser.buf = From(fed, n) /\ Traced(sent, got, n)

LEMMA SendsTraced ==
    ASSUME Typed, LayoutOk, TracedOk, NEW f \in SentFrame, Sends(f)
    PROVE  TracedOk'
<1> DEFINE s == [frame |-> f, at |-> Len(Stream) + 1]
           more == Append(sent, s)
           l == Len(sent)
<1>1. Len(Stream) = Place /\ Len(Stream) \in Nat /\ Len(fed) \in Nat
      /\ Len(fed) <= Len(Stream)
  BY StreamIs DEF Begins
<1>2. fed' = fed /\ parser' = parser /\ got' = got /\ sent' = more
  BY <1>1 DEF Sends
<1>3. sent \in Seq(Item) /\ s \in Item /\ s.at = Len(Stream) + 1
  <2>1. sent \in Seq(Item)
    BY DEF LayoutOk, Layout
  <2>2. Len(Stream) + 1 \in Nat
    BY <1>1
  <2> QED
    BY <2>1, <2>2 DEF Item
<1> HIDE DEF s
<1>4. /\ l \in Nat /\ more[l + 1] = s
      /\ \A i \in DOMAIN sent : i \in DOMAIN more /\ more[i] = sent[i]
      /\ \A i \in DOMAIN more : i \in DOMAIN sent \/ i = l + 1
  BY <1>3
<1> HIDE DEF more, l
<1> SUFFICES ASSUME NoForgery'
             PROVE  \E n \in 0 .. Len(fed) : parser.buf = From(fed, n) /\ Traced(more, got, n)
  BY <1>2 DEF TracedOk
<1>5. Genuine(fed, more)
  BY <1>2 DEF NoForgery
<1>6. NoForgery
  <2> SUFFICES ASSUME NEW k \in 0 .. Len(fed),
                      HeadAt(From(fed, k), 1), Whole(From(fed, k)), Sound(From(fed, k))
               PROVE  \E i \in DOMAIN sent : sent[i].at = k + 1
    BY DEF NoForgery, Genuine
  <2>1. PICK i \in DOMAIN more : more[i].at = k + 1
    BY <1>5 DEF Genuine
  <2>2. k < Len(fed)
    <3> DEFINE buf == From(fed, k)
    <3>1. Len(buf) = Len(fed) - k /\ k \in Nat
      BY FromIs DEF Typed
    <3>2. Len(buf) >= 5
      BY DEF Whole
    <3> HIDE DEF buf
    <3> QED
      BY <1>1, <3>1, <3>2
  <2>3. i # l + 1
    <3> SUFFICES ASSUME i = l + 1 PROVE FALSE
      OBVIOUS
    <3>1. Len(Stream) + 1 = k + 1
      BY <1>3, <1>4, <2>1
    <3> QED
      BY <1>1, <2>2, <3>1
  <2> QED
    BY <1>4, <2>1, <2>3
<1>7. PICK n \in 0 .. Len(fed) : parser.buf = From(fed, n) /\ Traced(sent, got, n)
  BY <1>6 DEF TracedOk
<1>8. PICK from : Traces(from, sent, got, n)
  BY <1>7 DEF Traced
<1>9. ASSUME NEW i \in DOMAIN got
      PROVE  /\ from[i] \in DOMAIN more /\ from[i] \in DOMAIN sent
             /\ more[from[i]] = sent[from[i]]
  <2>1. from[i] \in DOMAIN sent
    BY <1>8 DEF Traces
  <2> QED
    BY <1>4, <2>1
<1>10. Traces(from, more, got, n)
  <2>1. from \in [DOMAIN got -> DOMAIN more]
    BY <1>8, <1>9 DEF Traces
  <2> QED
    BY <1>8, <1>9, <2>1 DEF Traces
<1> QED
  BY <1>7, <1>10 DEF Traced

LEMMA ReadsTraced ==
    ASSUME Typed, LayoutOk, TracedOk, NEW n \in Nat \ {0}, Reads(n)
    PROVE  TracedOk'
<1> DEFINE p == Starts(parser, Chunked(n))
           data == Chunked(n)
<1> HIDE DEF p
<1>1. /\ data \in Seq(Byte) /\ Stream' = Stream /\ Begins(fed', Stream)
      /\ sent' = sent
      /\ p \in AnyParser /\ got \o p.out = got
      /\ parser' = Settled(p) /\ got' = got \o Settled(p).out
      /\ \A k \in 0 .. Len(fed) :
            /\ k \in 0 .. Len(fed') /\ From(fed', k) = From(fed, k) \o data
            /\ parser.buf = From(fed, k) => p.buf = From(fed', k)
  BY ReadsTake DEF p
<1>2. Layout(Stream, sent, badFrom, badTo) /\ got \in Seq(AnyFrame)
      /\ fed \in Seq(Byte)
  BY DEF LayoutOk, Typed
<1> SUFFICES ASSUME NoForgery'
             PROVE  \E m \in 0 .. Len(fed') :
                       parser'.buf = From(fed', m) /\ Traced(sent', got', m)
  BY DEF TracedOk
<1>3. Genuine(fed', sent)
  BY <1>1 DEF NoForgery
<1> HIDE DEF data
\* What looks like a frame in fed looks like one in fed'.
<1>4. NoForgery
  <2> SUFFICES ASSUME NEW k \in 0 .. Len(fed),
                      HeadAt(From(fed, k), 1), Whole(From(fed, k)), Sound(From(fed, k))
               PROVE  \E i \in DOMAIN sent : sent[i].at = k + 1
    BY DEF NoForgery, Genuine
  <2> DEFINE buf == From(fed, k)
             more == buf \o data
  <2>1. buf \in Seq(Byte)
    BY <1>2, FromIs
  <2>2. k \in 0 .. Len(fed') /\ From(fed', k) = more
    BY <1>1
  <2>3. HeadAt(buf, 1) /\ Whole(buf) /\ Sound(buf)
    OBVIOUS
  <2> HIDE DEF buf
  <2>4. Whole(more) /\ Sound(more)
    BY <1>1, <2>1, <2>3, FrontJoin
  <2>5. HeadAt(more, 1)
    <3>1. /\ Len(more) = Len(buf) + Len(data) /\ Len(buf) \in Nat /\ Len(data) \in Nat
          /\ \A i \in 1 .. Len(buf) : more[i] = buf[i]
      BY <1>1, <2>1
    <3>2. 1 \in 1 .. Len(buf) - 1 /\ buf[1] = kHead0 /\ buf[1 + 1] = kHead1
      BY <2>3 DEF HeadAt
    <3> HIDE DEF more
    <3>3. 1 \in 1 .. Len(more) - 1 /\ more[1] = buf[1] /\ more[1 + 1] = buf[1 + 1]
      BY <3>1, <3>2
    <3> QED
      BY <3>2, <3>3 DEF HeadAt
  <2> HIDE DEF more
  <2> QED
    BY <1>3, <2>2, <2>4, <2>5 DEF Genuine
<1>5. PICK k \in 0 .. Len(fed) : parser.buf = From(fed, k) /\ Traced(sent, got, k)
  BY <1>4 DEF TracedOk
<1>6. k \in 0 .. Len(fed') /\ p.buf = From(fed', k) /\ Traced(sent, got \o p.out, k)
  BY <1>1, <1>5
<1>7. \E m \in 0 .. Len(fed') :
         Settled(p).buf = From(fed', m) /\ Traced(sent, got \o Settled(p).out, m)
  BY <1>1, <1>2, <1>3, <1>6, SettledTraced
<1> QED
  BY <1>1, <1>7

LEMMA ReopenTraced ==
    ASSUME Typed, LayoutOk, TracedOk, Reopen
    PROVE  TracedOk'
<1> DEFINE len == Len(fed)
           kept == CutShort(sent, len)
<1>1. /\ fed' = fed /\ parser' = parser /\ got' = got
  BY DEF Reopen
<1>2. sent \in Seq(Item) /\ len \in Nat
  BY StreamIs DEF LayoutOk, Layout
<1>3. sent' = kept
  BY <1>2, ReopenCuts
<1>4. IsCutShort(kept, sent, len)
  BY <1>2, CutShortIs
<1> HIDE DEF len, kept
<1> SUFFICES ASSUME NoForgery'
             PROVE  \E n \in 0 .. Len(fed) : parser.buf = From(fed, n) /\ Traced(kept, got, n)
  BY <1>1, <1>3 DEF TracedOk
<1>5. Genuine(fed, kept)
  BY <1>1, <1>3 DEF NoForgery
<1>6. NoForgery
  <2> SUFFICES ASSUME NEW k \in 0 .. Len(fed),
                      HeadAt(From(fed, k), 1), Whole(From(fed, k)), Sound(From(fed, k))
               PROVE  \E i \in DOMAIN sent : sent[i].at = k + 1
    BY DEF NoForgery, Genuine
  <2>1. PICK i \in DOMAIN kept : kept[i].at = k + 1
    BY <1>5 DEF Genuine
  <2>2. k + 1 # 0
    BY <1>2 DEF len
  <2>3. Here(kept[i]) /\ i \in DOMAIN sent
    BY <1>4, <2>1, <2>2 DEF Here, Gone, IsCutShort
  <2>4. kept[i] = sent[i]
    BY <1>4, <2>3 DEF IsCutShort
  <2> QED
    BY <2>1, <2>3, <2>4
<1>7. PICK n \in 0 .. Len(fed) : parser.buf = From(fed, n) /\ Traced(sent, got, n)
  BY <1>6 DEF TracedOk
<1>8. PICK from : Traces(from, sent, got, n)
  BY <1>7 DEF Traced
<1>9. ASSUME NEW i \in DOMAIN got
      PROVE  from[i] \in DOMAIN kept /\ kept[from[i]] = sent[from[i]]
  <2>1. from[i] \in DOMAIN sent /\ Here(sent[from[i]]) /\ Stop(sent[from[i]]) <= n
    BY <1>8 DEF Traces
  <2> DEFINE y == Stop(sent[from[i]])
  <2>2. y \in Nat
    BY <2>1, LayoutTypes DEF LayoutOk
  <2>3. ~(y > len)
    <3>1. n \in Nat /\ n <= len /\ y <= n
      BY <1>2, <2>1 DEF len
    <3> HIDE DEF y
    <3> QED
      BY <1>2, <2>2, <3>1
  <2> QED
    BY <1>4, <2>1, <2>3 DEF IsCutShort
<1>10. Traces(from, kept, got, n)
  <2>1. from \in [DOMAIN got -> DOMAIN kept]
    BY <1>8, <1>9 DEF Traces
  <2> QED
    BY <1>8, <1>9, <2>1 DEF Traces
<1> QED
  BY <1>7, <1>10 DEF Traced

LEMMA TracedKept ==
    ASSUME ParserOk, TracedOk, [ParserNext]_parserVars
    PROVE  TracedOk'
<1>1. Typed /\ LayoutOk
  BY DEF ParserOk, OnceOk
<1>2. CASE ParserNext
  <2>1. ASSUME NEW f \in SentFrame, Sends(f) PROVE TracedOk'
    BY <1>1, <2>1, SendsTraced
  <2>2. ASSUME NEW bytes \in Seq(Byte), Spoils(bytes) PROVE TracedOk'
    BY <2>2 DEF Spoils, Spoil, TracedOk, NoForgery
  <2>3. ASSUME NEW n \in Nat \ {0}, Reads(n) PROVE TracedOk'
    BY <1>1, <2>3, ReadsTraced
  <2>4. ASSUME Reopen PROVE TracedOk'
    BY <1>1, <2>4, ReopenTraced
  <2> QED
    BY <1>1, <1>2, <2>1, <2>2, <2>3, <2>4, StepIs
<1>3. CASE UNCHANGED parserVars
  BY <1>3 DEF parserVars, TracedOk, NoForgery
<1> QED
  BY <1>2, <1>3

LEMMA TracedFirst == ParserInit => TracedOk
<1> SUFFICES ASSUME ParserInit PROVE TracedOk
  OBVIOUS
<1>1. fed = <<>> /\ got = <<>> /\ parser = EmptyParser
  BY DEF ParserInit
<1>2. parser.buf = From(fed, 0) /\ 0 \in 0 .. Len(fed)
  <2>1. From(<<>>, 0) = <<>>
    BY DEF From
  <2> QED
    BY <1>1, <2>1, EmptyType
<1>3. Traces(<<>>, sent, got, 0)
  BY <1>1 DEF Traces
<1> QED
  BY <1>2, <1>3 DEF TracedOk, Traced

LEMMA TracesSent == TracedOk => (NoForgery => OnlySent)
<1> SUFFICES ASSUME TracedOk, NoForgery PROVE OnlySent
  OBVIOUS
<1>1. PICK n \in 0 .. Len(fed) : parser.buf = From(fed, n) /\ Traced(sent, got, n)
  BY DEF TracedOk
<1>2. PICK from : Traces(from, sent, got, n)
  BY <1>1 DEF Traced
<1> QED
  BY <1>2 DEF Traces, OnlySent

\* Unless noise or damage looks like a complete frame with its checksum, the
\* frames returned are good frames that were sent, in their order and each once.
THEOREM OnlySentReturned == ParserSpec => [](NoForgery => OnlySent)
<1>1. ParserOk /\ TracedOk /\ [ParserNext]_parserVars => ParserOk' /\ TracedOk'
  BY ParserOkKept, TracedKept
<1> QED
  BY <1>1, ParserOkFirst, TracedFirst, TracesSent, PTL DEF ParserSpec

-----------------------------------------------------------------------------
(* A line without faults.                                                  *)

\* The frames are the first ones that were sent, read as far as byte n, and
\* nothing else was counted.
InStep(items, frames, n, p) ==
    /\ Len(frames) <= Len(items)
    /\ \A i \in DOMAIN frames : frames[i] = items[i].frame
    /\ \A i \in DOMAIN items : i <= Len(frames) => Stop(items[i]) <= n
    /\ \A i \in DOMAIN items : i > Len(frames) => items[i].at > n
    /\ p.drop = 0 /\ p.crcErr = 0 /\ p.frames = Len(frames)

\* Every byte is one of a frame that comes through.
Faultless(str, items) ==
    /\ \E to \in Nat : Layout(str, items, 0, to)
    /\ \A i \in DOMAIN items : Here(items[i])

\* The byte after those read is the first of the next frame.
LEMMA NextInStep ==
    ASSUME NEW str, NEW items, Faultless(str, items),
           NEW frames \in Seq(AnyFrame), NEW n \in Nat, n < Len(str),
           NEW p, InStep(items, frames, n, p)
    PROVE  Len(frames) + 1 \in DOMAIN items /\ items[Len(frames) + 1].at = n + 1
<1> DEFINE len == Len(frames)
           next == len + 1
           b == n + 1
<1>1. PICK to \in Nat : Layout(str, items, 0, to)
  BY DEF Faultless
<1>2. len \in Nat /\ b \in Nat /\ b \in 1 .. Len(str) /\ next \in Nat
  <2>1. str \in Seq(Byte) /\ Len(str) \in Nat
    <3>1. str \in Seq(Byte)
      BY <1>1 DEF Layout
    <3> QED
      BY <3>1
  <2>2. len \in Nat
    OBVIOUS
  <2> HIDE DEF len
  <2> QED
    BY <2>1, <2>2
<1>3. ~Stray(str, items, b)
  BY <1>1, <1>2 DEF Layout, Since
<1>4. PICK j \in DOMAIN items : Covers(items[j], b)
  BY <1>2, <1>3 DEF Stray
<1> DEFINE x == items[j].at
           y == Stop(items[j])
<1>5. x <= b /\ b <= y /\ Here(items[j]) /\ j \in Nat
  BY <1>1, <1>4, LayoutTypes DEF Covers
<1>6. x \in Nat /\ y \in Nat /\ x <= y
  BY <1>1, <1>5, LayoutTypes
<1>7. (j <= len => y <= n) /\ (j > len => x > n)
  BY DEF InStep
<1> HIDE DEF x, y, len
<1>8. j > len /\ x = b
  BY <1>2, <1>5, <1>6, <1>7
<1>9. items \in Seq(Item) /\ Len(items) \in Nat
  <2>1. items \in Seq(Item)
    BY <1>1 DEF Layout
  <2> QED
    BY <2>1
<1>10. next \in DOMAIN items /\ next > len
  <2>1. j \in 1 .. Len(items)
    BY <1>9
  <2>2. next \in 1 .. Len(items) /\ next > len
    BY <1>2, <1>5, <1>8, <1>9, <2>1
  <2> QED
    BY <1>9, <2>2
<1>11. j = next
  <2> SUFFICES ASSUME j # next PROVE FALSE
    OBVIOUS
  <2> DEFINE v == items[next].at
             w == Stop(items[next])
  <2>1. v \in Nat /\ w \in Nat /\ v <= w /\ Here(items[next])
    BY <1>1, <1>10, LayoutTypes DEF Faultless
  <2>2. v > n
    BY <1>10 DEF InStep, len
  <2>3. next < j
    BY <1>2, <1>5, <1>8
  <2>4. w < x
    BY <1>1, <1>5, <1>10, <2>1, <2>3 DEF Layout, Ordered, x
  <2> HIDE DEF v, w
  <2> QED
    BY <1>2, <1>6, <1>8, <2>1, <2>2, <2>4
<1> QED
  BY <1>8, <1>10, <1>11 DEF x, len

\* No frame has a length that is too large.
LEMMA NotTooLong ==
    ASSUME NEW str \in Seq(Byte), NEW all, Begins(all, str), NEW k \in 0 .. Len(all),
           NEW buf, buf = From(all, k), HeadAt(buf, 1),
           NEW s \in Item, Here(s), PlacedIn(str, s), s.at = k + 1
    PROVE  ~TooLongAt(buf)
<1> SUFFICES ASSUME TooLongAt(buf) PROVE FALSE
  OBVIOUS
<1> DEFINE h == k + 1
           c == buf[4]
<1>1. 5 <= Len(buf) /\ c > kMaxPayload
  BY DEF TooLongAt
<1>2. str[h + 3] = c /\ c \in Nat
  BY <1>1, HeaderIs
<1>3. str[h + 3] <= kMaxPayload
  BY PlacedIs
<1> HIDE DEF c
<1> QED
  BY <1>1, <1>2, <1>3, CodecConstants

LEMMA RoundInStep ==
    ASSUME NEW str, NEW items, Faultless(str, items),
           NEW all, Begins(all, str), NEW n \in 0 .. Len(all),
           NEW p \in AnyParser, p.buf = From(all, n), NEW frames \in Seq(AnyFrame),
           InStep(items, frames \o p.out, n, p)
    PROVE  \E m \in 0 .. Len(all) :
              /\ Round(p).buf = From(all, m)
              /\ InStep(items, frames \o Round(p).out, m, Round(p))
<1> DEFINE r == Round(p)
           o == p.out
           found == frames \o o
           len == Len(found)
           next == len + 1
<1>1. PICK to \in Nat : Layout(str, items, 0, to)
  BY DEF Faultless
<1>2. str \in Seq(Byte) /\ all \in Seq(Byte) /\ Len(all) \in Nat /\ Len(str) \in Nat
      /\ Len(all) <= Len(str)
  <2>1. str \in Seq(Byte)
    BY <1>1 DEF Layout
  <2> QED
    BY <2>1, ReadIs
<1>3. PICK k, m \in 0 .. Len(all) : Moves(all, n, p, k, m)
  BY <1>2, RoundMoves
<1> DEFINE buf == From(all, k)
<1>4. /\ n <= k /\ k <= m /\ r.buf = From(all, m)
      /\ \A x \in n + 1 .. k : ~HeadAt(all, x)
      /\ \A x \in n + 1 .. k : x = Len(all) => all[x] # kHead0
  BY <1>3 DEF Moves
<1>5. \/ r.out = o /\ m = k /\ Counts(p, k - n, 0)
      \/ HeadAt(buf, 1) /\ (TooLongAt(buf) \/ (Whole(buf) /\ ~Sound(buf)))
      \/ /\ HeadAt(buf, 1) /\ Whole(buf) /\ Sound(buf)
         /\ m = k + (7 + buf[4])
         /\ r.out = Append(o, FrameOf(buf))
         /\ Counts(p, k - n, 1)
  BY <1>3 DEF Moves
<1>6. n \in Nat /\ k \in Nat /\ m \in Nat
  BY <1>2, <1>3
<1>7. o \in Seq(AnyFrame)
  BY DEF AnyParser
<1> HIDE DEF r, o
<1>8. found \in Seq(AnyFrame)
  BY <1>7
<1> HIDE DEF found
<1>9. InStep(items, found, n, p)
  BY DEF found, o
<1>10. len \in Nat /\ next \in Nat
  <2>1. len \in Nat
    BY <1>8
  <2> HIDE DEF len
  <2> QED
    BY <2>1
\* Nothing is skipped, because the bytes that were read end a frame.
<1>11. CASE n < Len(str)
  <2> DEFINE s == items[next]
  <2>1. next \in DOMAIN items /\ s.at = n + 1
    BY <1>6, <1>8, <1>9, <1>11, NextInStep
  <2>2. Here(s) /\ s \in Item /\ PlacedIn(str, s)
    BY <1>1, <2>1, LayoutTypes DEF Faultless
  <2>3. k = n
    <3>1. s.at <= k => s.at <= n
      BY <1>1, <1>4, <2>1, <2>2, NoneSkipped
    <3> HIDE DEF s
    <3> QED
      BY <1>4, <1>6, <2>1, <3>1
  <2> HIDE DEF s
  <2>4. s.at = k + 1
    BY <2>1, <2>3
  <2>5. HeadAt(buf, 1) => ~TooLongAt(buf)
    BY <1>2, <2>2, <2>4, NotTooLong
  <2>6. HeadAt(buf, 1) /\ Whole(buf) =>
          Sound(buf) /\ FrameOf(buf) = s.frame /\ Stop(s) = k + (7 + buf[4])
    BY <1>2, <2>2, <2>4, FrontSent
  <2> HIDE DEF buf
  <2>7. k - n = 0
    BY <1>6, <2>3
  <2>8. CASE r.out = o /\ m = k /\ Counts(p, k - n, 0)
    <3>1. r.drop = p.drop + 0 /\ r.crcErr = p.crcErr /\ r.frames = p.frames + 0
      BY <2>7, <2>8 DEF Counts, r
    <3>2. p.drop \in Nat /\ p.frames \in Nat
      BY DEF AnyParser
    <3>3. r.drop = p.drop /\ r.crcErr = p.crcErr /\ r.frames = p.frames /\ m = n
      BY <2>3, <2>8, <3>1, <3>2
    <3>4. InStep(items, found, n, r)
      BY <1>9, <3>3 DEF InStep
    <3>5. frames \o r.out = found
      BY <2>8 DEF found
    <3> QED
      BY <1>4, <3>3, <3>4, <3>5 DEF r
  <2>9. CASE ~(r.out = o /\ m = k /\ Counts(p, k - n, 0))
    <3> DEFINE f == s.frame
               more == Append(found, f)
    <3>1. /\ m = k + (7 + buf[4]) /\ r.out = Append(o, f) /\ Counts(p, k - n, 1)
          /\ Stop(s) = m
      BY <1>5, <2>5, <2>6, <2>9
    <3>2. f \in AnyFrame
      BY <2>2 DEF Item, SentFrame
    <3> HIDE DEF f
    <3>3. frames \o r.out = more
      <4>1. frames \o Append(o, f) = Append(frames \o o, f)
        BY <1>7, <3>2, JoinAppend
      <4> QED
        BY <3>1, <4>1 DEF found
    <3>4. /\ Len(more) = next /\ more[next] = f
          /\ \A i \in DOMAIN more : (i \in DOMAIN found /\ more[i] = found[i]) \/ i = next
      BY <1>8, <3>2
    <3> HIDE DEF more
    <3>5. r.drop = 0 /\ r.crcErr = 0 /\ r.frames = next
      <4>1. r.drop = p.drop + 0 /\ r.crcErr = p.crcErr /\ r.frames = p.frames + 1
        BY <2>7, <3>1 DEF Counts, r
      <4>2. p.drop = 0 /\ p.crcErr = 0 /\ p.frames = len
        BY <1>9 DEF InStep
      <4> HIDE DEF len
      <4> QED
        BY <1>10, <4>1, <4>2
    <3>6. ASSUME NEW i \in DOMAIN more PROVE more[i] = items[i].frame
      <4>1. CASE i = next
        BY <3>4, <4>1 DEF f, s
      <4>2. CASE i # next
        BY <1>9, <3>4, <4>2 DEF InStep
      <4> QED
        BY <4>1, <4>2
    <3>7. ASSUME NEW i \in DOMAIN items
          PROVE  /\ i <= next => Stop(items[i]) <= m
                 /\ i > next => items[i].at > m
      <4> DEFINE x == items[i].at
                 y == Stop(items[i])
      <4>1. x \in Nat /\ y \in Nat /\ x <= y /\ Here(items[i]) /\ i \in Nat
        BY <1>1, LayoutTypes DEF Faultless
      <4>2. i <= len => y <= n
        BY <1>9 DEF InStep
      <4>3. i = next => y = m
        BY <3>1 DEF s
      <4>4. i > next => x > m
        <5> SUFFICES ASSUME i > next PROVE x > m
          OBVIOUS
        <5>1. next < i
          BY <1>10, <4>1
        <5>2. Stop(s) < x
          BY <1>1, <2>1, <2>2, <4>1, <5>1 DEF Layout, Ordered, s
        <5> HIDE DEF x, len
        <5> QED
          BY <1>6, <3>1, <4>1, <5>2
      <4> HIDE DEF x, y, len
      <4>5. i <= next => i <= len \/ i = next
        BY <1>10, <4>1
      <4>6. n <= m
        BY <1>4, <1>6
      <4>7. i <= next => y <= m
        BY <1>6, <4>1, <4>2, <4>3, <4>5, <4>6
      <4> QED
        BY <4>4, <4>7 DEF x, y
    <3>8. next <= Len(items)
      <4>1. items \in Seq(Item)
        BY <1>1 DEF Layout
      <4> QED
        BY <2>1, <4>1
    <3>9. InStep(items, more, m, r)
      BY <3>4, <3>5, <3>6, <3>7, <3>8 DEF InStep
    <3> QED
      BY <1>4, <3>3, <3>9 DEF r
  <2> QED
    BY <2>8, <2>9
\* All bytes were read.
<1>12. CASE ~(n < Len(str))
  <2>1. k = n /\ m = n /\ n = Len(all)
    BY <1>2, <1>3, <1>4, <1>6, <1>12
  <2>2. Len(buf) = 0
    <3>1. Len(buf) = Len(all) - k
      BY <1>2, FromIs
    <3> QED
      BY <1>2, <2>1, <3>1
  <2>3. ~HeadAt(buf, 1)
    <3> HIDE DEF buf
    <3> QED
      BY <2>2 DEF HeadAt
  <2>4. r.out = o /\ Counts(p, k - n, 0)
    BY <1>5, <2>3
  <2>5. k - n = 0
    BY <1>6, <2>1
  <2>6. r.drop = p.drop + 0 /\ r.crcErr = p.crcErr /\ r.frames = p.frames + 0
    BY <2>4, <2>5 DEF Counts, r
  <2>7. p.drop \in Nat /\ p.frames \in Nat
    BY DEF AnyParser
  <2>8. r.drop = p.drop /\ r.crcErr = p.crcErr /\ r.frames = p.frames
    BY <2>6, <2>7
  <2>9. InStep(items, found, n, r)
    BY <1>9, <2>8 DEF InStep
  <2>10. frames \o r.out = found
    BY <2>4 DEF found
  <2> QED
    BY <1>4, <2>1, <2>9, <2>10 DEF r
<1> QED
  BY <1>11, <1>12

LEMMA SettledInStep ==
    ASSUME NEW str, NEW items, Faultless(str, items),
           NEW all, Begins(all, str), NEW n \in 0 .. Len(all),
           NEW p \in AnyParser, p.buf = From(all, n), NEW frames \in Seq(AnyFrame),
           InStep(items, frames \o p.out, n, p)
    PROVE  \E m \in 0 .. Len(all) :
              /\ Settled(p).buf = From(all, m)
              /\ InStep(items, frames \o Settled(p).out, m, Settled(p))
<1> DEFINE At(q) == \E m \in 0 .. Len(all) :
                       q.buf = From(all, m) /\ InStep(items, frames \o q.out, m, q)
           P == {i \in Nat : At(Rounds(p, i))}
<1>1. 0 \in P
  <2>1. Rounds(p, 0) = p
    BY RoundsStep
  <2> QED
    BY <2>1
<1>2. ASSUME NEW i \in Nat, i \in P PROVE i + 1 \in P
  <2> DEFINE q == Rounds(p, i)
  <2>1. q \in AnyParser /\ Rounds(p, i + 1) = Round(q) /\ At(q)
    BY <1>2, RoundsType, RoundsStep
  <2> HIDE DEF q
  <2>2. PICK m \in 0 .. Len(all) :
           q.buf = From(all, m) /\ InStep(items, frames \o q.out, m, q)
    BY <2>1
  <2>3. At(Round(q))
    BY <2>1, <2>2, RoundInStep
  <2> QED
    BY <2>1, <2>3
<1> HIDE DEF P
<1>3. Nat \subseteq P
  BY <1>1, <1>2, Induction
<1>4. Len(p.buf) \in P
  BY <1>3 DEF AnyParser
<1> QED
  BY <1>4 DEF P, Settled

\* While no fault has occurred, what was returned is what was sent, in order and
\* each once; all of it, once all bytes are read; and no byte and no checksum is
\* counted as bad.
FaultlessIsExact ==
    bad = 0 =>
        /\ Len(got) <= Len(sent)
        /\ \A i \in DOMAIN got : got[i] = sent[i].frame
        /\ line = <<>> => Len(got) = Len(sent)
        /\ parser.frames = Len(got) /\ parser.drop = 0 /\ parser.crcErr = 0

FaultlessOk ==
    /\ bad \in Nat
    /\ bad = 0 =>
          /\ badFrom = 0 /\ \A i \in DOMAIN sent : Here(sent[i])
          /\ \E n \in 0 .. Len(fed) :
                parser.buf = From(fed, n) /\ InStep(sent, got, n, parser)

LEMMA FaultlessIs ==
    ASSUME Typed, LayoutOk, FaultlessOk, bad = 0
    PROVE  Faultless(Stream, sent) /\ Begins(fed, Stream)
<1>1. Layout(Stream, sent, 0, badTo) /\ badTo \in Nat
  BY DEF LayoutOk, FaultlessOk, Layout
<1> QED
  BY <1>1, StreamIs DEF Faultless, FaultlessOk

LEMMA SendsInStep ==
    ASSUME Typed, LayoutOk, FaultlessOk, NEW f \in SentFrame, Sends(f)
    PROVE  FaultlessOk'
<1> DEFINE s == [frame |-> f, at |-> Len(Stream) + 1]
           more == Append(sent, s)
           l == Len(sent)
<1>1. Len(Stream) = Place /\ Len(Stream) \in Nat /\ Len(fed) \in Nat
      /\ Len(fed) <= Len(Stream)
  BY StreamIs DEF Begins
<1>2. /\ fed' = fed /\ parser' = parser /\ got' = got /\ sent' = more
      /\ bad' = bad /\ badFrom' = badFrom
  BY <1>1 DEF Sends
<1>3. sent \in Seq(Item) /\ s \in Item /\ s.at = Len(Stream) + 1
  <2>1. sent \in Seq(Item)
    BY DEF LayoutOk, Layout
  <2>2. Len(Stream) + 1 \in Nat
    BY <1>1
  <2> QED
    BY <2>1, <2>2 DEF Item
<1> HIDE DEF s
<1>4. /\ l \in Nat /\ Len(more) = l + 1 /\ more[l + 1] = s
      /\ \A i \in DOMAIN sent : i \in DOMAIN more /\ more[i] = sent[i]
      /\ \A i \in DOMAIN more : i \in DOMAIN sent \/ i = l + 1
      /\ \A i \in 1 .. l : i \in DOMAIN sent
  BY <1>3
<1> HIDE DEF more, l
<1> SUFFICES ASSUME bad = 0
             PROVE  /\ badFrom = 0 /\ \A i \in DOMAIN more : Here(more[i])
                    /\ \E n \in 0 .. Len(fed) :
                          parser.buf = From(fed, n) /\ InStep(more, got, n, parser)
  BY <1>2 DEF FaultlessOk
<1>5. Here(s)
  BY <1>1, <1>3 DEF Here, Gone
<1>6. \A i \in DOMAIN more : Here(more[i])
  BY <1>4, <1>5 DEF FaultlessOk
<1>7. PICK n \in 0 .. Len(fed) : parser.buf = From(fed, n) /\ InStep(sent, got, n, parser)
  BY DEF FaultlessOk
<1> DEFINE c == Len(got)
<1>8. c \in Nat /\ c <= l /\ \A i \in DOMAIN got : i \in 1 .. c
  BY <1>7 DEF InStep, Typed, l
<1>9. n \in Nat /\ s.at > n
  BY <1>1, <1>3
<1>10. c <= Len(more)
  <2> HIDE DEF c
  <2> QED
    BY <1>4, <1>8
<1>11. ASSUME NEW i \in DOMAIN got PROVE got[i] = more[i].frame
  <2>1. i \in DOMAIN sent
    <3>1. i \in 1 .. l
      <4> HIDE DEF c
      <4> QED
        BY <1>4, <1>8
    <3> QED
      BY <1>4, <3>1
  <2> QED
    BY <1>4, <1>7, <2>1 DEF InStep
<1>12. ASSUME NEW i \in DOMAIN more
       PROVE  (i <= c => Stop(more[i]) <= n) /\ (i > c => more[i].at > n)
  <2>1. CASE i \in DOMAIN sent
    BY <1>4, <1>7, <2>1 DEF InStep
  <2>2. CASE i = l + 1
    <3>1. more[i].at > n
      BY <1>4, <1>9, <2>2
    <3>2. ~(i <= c)
      <4> HIDE DEF c
      <4> QED
        BY <1>4, <1>8, <2>2
    <3> QED
      BY <3>1, <3>2
  <2> QED
    BY <1>4, <2>1, <2>2
<1>13. InStep(more, got, n, parser)
  BY <1>7, <1>10, <1>11, <1>12 DEF InStep
<1> QED
  BY <1>6, <1>7, <1>13 DEF FaultlessOk

LEMMA ReadsInStep ==
    ASSUME Typed, LayoutOk, FaultlessOk, NEW n \in Nat \ {0}, Reads(n)
    PROVE  FaultlessOk'
<1> DEFINE p == Starts(parser, Chunked(n))
<1>1. p.drop = parser.drop /\ p.crcErr = parser.crcErr /\ p.frames = parser.frames
  BY DEF Starts, Received, Typed, AnyParser
<1> HIDE DEF p
<1>2. /\ Stream' = Stream /\ Begins(fed', Stream)
      /\ sent' = sent /\ badFrom' = badFrom
      /\ p \in AnyParser /\ got \o p.out = got
      /\ parser' = Settled(p) /\ got' = got \o Settled(p).out
      /\ \A k \in 0 .. Len(fed) :
            /\ k \in 0 .. Len(fed')
            /\ parser.buf = From(fed, k) => p.buf = From(fed', k)
  BY ReadsTake DEF p
<1>3. bad' = bad
  BY DEF Reads, Feed
<1> SUFFICES ASSUME bad = 0
             PROVE  /\ badFrom = 0 /\ \A i \in DOMAIN sent : Here(sent[i])
                    /\ \E m \in 0 .. Len(fed') :
                          parser'.buf = From(fed', m) /\ InStep(sent, got', m, parser')
  BY <1>2, <1>3 DEF FaultlessOk
<1>4. Faultless(Stream, sent) /\ got \in Seq(AnyFrame)
  BY FaultlessIs DEF Typed
<1>5. PICK k \in 0 .. Len(fed) : parser.buf = From(fed, k) /\ InStep(sent, got, k, parser)
  BY DEF FaultlessOk
<1>6. k \in 0 .. Len(fed') /\ p.buf = From(fed', k) /\ InStep(sent, got \o p.out, k, p)
  BY <1>1, <1>2, <1>5 DEF InStep
<1>7. \E m \in 0 .. Len(fed') :
         /\ Settled(p).buf = From(fed', m)
         /\ InStep(sent, got \o Settled(p).out, m, Settled(p))
  BY <1>2, <1>4, <1>6, SettledInStep
<1> QED
  BY <1>2, <1>7 DEF FaultlessOk

LEMMA FaultlessKept ==
    ASSUME ParserOk, FaultlessOk, [ParserNext]_parserVars
    PROVE  FaultlessOk'
<1>1. Typed /\ LayoutOk
  BY DEF ParserOk, OnceOk
<1>2. CASE ParserNext
  <2>1. ASSUME NEW f \in SentFrame, Sends(f) PROVE FaultlessOk'
    BY <1>1, <2>1, SendsInStep
  <2>2. ASSUME NEW bytes \in Seq(Byte), Spoils(bytes) PROVE FaultlessOk'
    BY <2>2 DEF Spoils, Spoil, FaultlessOk
  <2>3. ASSUME NEW n \in Nat \ {0}, Reads(n) PROVE FaultlessOk'
    BY <1>1, <2>3, ReadsInStep
  <2>4. ASSUME Reopen PROVE FaultlessOk'
    BY <2>4 DEF Reopen, FaultlessOk
  <2> QED
    BY <1>1, <1>2, <2>1, <2>2, <2>3, <2>4, StepIs
<1>3. CASE UNCHANGED parserVars
  BY <1>3 DEF parserVars, FaultlessOk
<1> QED
  BY <1>2, <1>3

LEMMA FaultlessFirst == ParserInit => FaultlessOk
<1> SUFFICES ASSUME ParserInit PROVE FaultlessOk
  OBVIOUS
<1>1. /\ fed = <<>> /\ got = <<>> /\ sent = <<>> /\ parser = EmptyParser
      /\ bad = 0 /\ badFrom = 0
  BY DEF ParserInit
<1>2. parser.buf = From(fed, 0) /\ 0 \in 0 .. Len(fed)
  <2>1. From(<<>>, 0) = <<>>
    BY DEF From
  <2> QED
    BY <1>1, <2>1, EmptyType
<1>3. parser.drop = 0 /\ parser.crcErr = 0 /\ parser.frames = 0
  BY <1>1 DEF EmptyParser
<1>4. InStep(sent, got, 0, parser)
  BY <1>1, <1>3 DEF InStep
<1> QED
  BY <1>1, <1>2, <1>4 DEF FaultlessOk

LEMMA FaultlessExact == ParserOk /\ FaultlessOk => FaultlessIsExact
<1> SUFFICES ASSUME ParserOk, FaultlessOk, bad = 0
             PROVE  /\ Len(got) <= Len(sent)
                    /\ \A i \in DOMAIN got : got[i] = sent[i].frame
                    /\ line = <<>> => Len(got) = Len(sent)
                    /\ parser.frames = Len(got) /\ parser.drop = 0 /\ parser.crcErr = 0
  BY DEF FaultlessIsExact
<1>1. /\ Typed /\ LayoutOk /\ Waiting(parser.buf)
      /\ got \in Seq(AnyFrame) /\ sent \in Seq(Item)
  BY RestOfOnce DEF ParserOk, OnceOk, LayoutOk, Layout, Typed
<1>2. PICK n \in 0 .. Len(fed) : parser.buf = From(fed, n) /\ InStep(sent, got, n, parser)
  BY DEF FaultlessOk
<1>3. ASSUME line = <<>> PROVE Len(got) = Len(sent)
  <2> DEFINE c == Len(got)
             l == Len(sent)
             next == c + 1
  <2>1. Stream = fed
    <3>1. fed \o <<>> = fed
      BY <1>1 DEF Typed
    <3> QED
      BY <1>3, <3>1 DEF Stream
  <2>2. Faultless(Stream, sent) /\ Stream \in Seq(Byte) /\ Len(Stream) \in Nat
    BY <1>1, FaultlessIs, StreamIs
  <2>3. c \in Nat /\ l \in Nat /\ c <= l /\ DOMAIN sent = 1 .. l
    BY <1>1, <1>2 DEF InStep
  <2> SUFFICES ASSUME c < l PROVE FALSE
    <3> HIDE DEF c, l
    <3>1. c = l
      BY <2>3
    <3> QED
      BY <3>1 DEF c, l
  <2>4. next \in DOMAIN sent /\ next > c
    <3> HIDE DEF c, l
    <3> QED
      BY <2>3
  <2> DEFINE s == sent[next]
             x == s.at
             y == Stop(s)
  <2>5. Here(s) /\ s \in Item /\ PlacedIn(Stream, s) /\ x \in Nat /\ y \in Nat /\ x <= y
    BY <1>1, <2>4, LayoutTypes DEF LayoutOk, FaultlessOk
  <2>6. x > n /\ y <= Len(Stream)
    BY <1>2, <2>4, <2>5 DEF InStep, PlacedIn
  <2>7. n \in Nat /\ n < Len(Stream)
    <3>1. n \in Nat
      BY <2>1, <2>2
    <3> HIDE DEF x, y
    <3> QED
      BY <2>2, <2>5, <2>6, <3>1
  <2>8. x = n + 1
    BY <1>1, <1>2, <2>2, <2>7, NextInStep
  <2>9. x # n + 1
    <3>1. ~Whole(parser.buf)
      BY <1>1 DEF Waiting
    <3> HIDE DEF s
    <3> QED
      BY <1>2, <2>1, <2>2, <2>5, <3>1, WaitsForNone
  <2> QED
    BY <2>8, <2>9
<1> QED
  BY <1>2, <1>3 DEF InStep

\* A line without faults is read exactly: the frames come out in the order in
\* which they went in, none is lost, repeated or made up whatever payloads look
\* like, and the statistics show no fault.
THEOREM FaultlessLineIsExact == ParserSpec => []FaultlessIsExact
<1>1. ParserOk /\ FaultlessOk /\ [ParserNext]_parserVars => ParserOk' /\ FaultlessOk'
  BY ParserOkKept, FaultlessKept
<1> QED
  BY <1>1, ParserOkFirst, FaultlessFirst, FaultlessExact, PTL DEF ParserSpec

=============================================================================
