------------------------------ MODULE SerialPort ------------------------------
(***************************************************************************)
(* The serial port of serial/SerialPort: a tty in the event loop, with a   *)
(* buffer for what the tty does not take at once.                          *)
(*                                                                         *)
(* A byte is its number in the order in which send() accepted it since the *)
(* port was opened.  The loop calls the callbacks of one event one after   *)
(* the other; send() is called by timers and client handlers between two   *)
(* events, and by the data callback within one.  The device may be         *)
(* unplugged at any time; a port that is open then is dead until it is     *)
(* closed, and a device plugged in again is opened anew.                   *)
(***************************************************************************)
EXTENDS Integers, Sequences, FiniteSetsExt

CONSTANTS
    FrameLen,           \* bytes of a frame
    Room,               \* bytes that the tty takes without sending any
    kTxOverflowLimit,   \* longest buffer of a port that stays open
    MaxAccepted         \* bound: bytes accepted in one opening

ASSUME PortAssumption ==
    /\ FrameLen \in Nat \ {0} /\ Room \in Nat \ {0}
    /\ kTxOverflowLimit \in Nat /\ MaxAccepted \in Nat

VARIABLES
    plugged,    \* the device is there
    port,       \* fd_: closed, open, or open although its device is gone
    writing,    \* the channel waits for POLLOUT
    buffer,     \* outputBuffer_
    accepted,   \* bytes accepted by send() in this opening
    wire,       \* bytes written to the tty in this opening
    room,       \* bytes that the tty takes now
    todo,       \* callbacks of the current event that are not done yet
    reading,    \* handleRead() is in its loop
    dangling,   \* the channel was destroyed by one of its own callbacks
    crashed

vars == <<plugged, port, writing, buffer, accepted, wire, room, todo, reading,
          dangling, crashed>>

tty == <<plugged, room>>
event == <<todo, reading>>

Init ==
    /\ plugged \in BOOLEAN
    /\ port = "closed"
    /\ writing = FALSE
    /\ buffer = <<>>
    /\ accepted = 0 /\ wire = <<>> /\ room = Room
    /\ todo = <<>> /\ reading = FALSE
    /\ dangling = FALSE /\ crashed = FALSE

isOpen == port # "closed"
Idle == ~crashed /\ todo = <<>>
Running(callback) == ~crashed /\ todo # <<>> /\ Head(todo) = callback

-----------------------------------------------------------------------------
(* The tty.                                                                *)

Unplug ==
    /\ ~crashed /\ plugged
    /\ plugged' = FALSE
    /\ port' = IF isOpen THEN "dead" ELSE port
    /\ UNCHANGED <<writing, buffer, accepted, wire, room, event, dangling, crashed>>

Plug ==
    /\ ~crashed /\ ~plugged
    /\ plugged' = TRUE
    /\ UNCHANGED <<port, writing, buffer, accepted, wire, room, event, dangling, crashed>>

\* The tty has sent a byte.
Drain ==
    /\ ~crashed /\ port = "open" /\ room < Room
    /\ room' = room + 1
    /\ UNCHANGED <<plugged, port, writing, buffer, accepted, wire, event, dangling, crashed>>

-----------------------------------------------------------------------------
(* Opening and closing.                                                    *)

\* Seeded fault: what was not written before is kept for the next opening.
OpenDeviceKeepsBuffer ==
    /\ Idle /\ ~isOpen /\ plugged
    /\ port' = "open"
    /\ writing' = FALSE
    /\ accepted' = 0 /\ wire' = <<>> /\ room' = Room
    /\ UNCHANGED <<plugged, buffer, event, dangling, crashed>>

\* openDevice() with its attachInLoop(); without a device it changes nothing.
OpenDevice ==
    /\ Idle /\ ~isOpen /\ plugged
    /\ port' = "open"
    /\ writing' = FALSE
    /\ buffer' = <<>>
    /\ accepted' = 0 /\ wire' = <<>> /\ room' = Room
    /\ UNCHANGED <<plugged, event, dangling, crashed>>

\* closeInLoop(), which does nothing on a closed port.  Within an event the
\* channel that is destroyed is the one whose callbacks are being made.
CloseInLoop ==
    /\ port' = "closed"
    /\ writing' = FALSE
    /\ dangling' = (dangling \/ (isOpen /\ todo # <<>>))

StaysOpen == UNCHANGED <<port, dangling>>

\* closeDevice(), by a timer or handler or from the data callback.
CloseDevice ==
    /\ ~crashed /\ (todo = <<>> \/ reading)
    /\ isOpen
    /\ CloseInLoop
    /\ UNCHANGED <<tty, buffer, accepted, wire, event, crashed>>

-----------------------------------------------------------------------------
(* Sending.                                                                *)

\* The fast path of sendInLoop().
Direct == ~writing /\ buffer = <<>>

\* Seeded fault: the buffer may grow without end.
OverflowNever(pending) == FALSE

Overflow(pending) == Len(pending) > kTxOverflowLimit
Arm(pending) == writing \/ pending # <<>>

\* What a write may take: nothing at all (EAGAIN, EINTR), or a part.
Taken(bytes) ==
    IF port = "open" THEN 0 .. Min({room, Len(bytes)}) ELSE {0}

\* The n first bytes are written.
Written(bytes, n) ==
    /\ wire' = wire \o SubSeq(bytes, 1, n)
    /\ room' = room - n

\* sendInLoop() with a frame, between two events or from the data callback.
Send ==
    /\ ~crashed /\ (todo = <<>> \/ reading)
    /\ isOpen /\ accepted + FrameLen <= MaxAccepted
    /\ LET frame == [i \in 1 .. FrameLen |-> accepted + i]
       IN  \/ /\ Direct /\ port = "dead"      \* a fault of the device
              /\ CloseInLoop
              /\ UNCHANGED <<buffer, accepted, wire, room>>
           \/ \E n \in IF Direct THEN Taken(frame) ELSE {0} :
                 LET pending == buffer \o SubSeq(frame, n + 1, FrameLen)
                 IN  /\ accepted' = accepted + FrameLen
                     /\ Written(frame, n)
                     /\ buffer' = pending
                     /\ IF n < FrameLen /\ Overflow(pending) THEN CloseInLoop
                        ELSE StaysOpen /\ writing' = Arm(pending)
    /\ UNCHANGED <<plugged, event, crashed>>

-----------------------------------------------------------------------------
(* Events: the loop calls close, error, read and write callback, in this   *)
(* order; the close callback only if there is nothing to read.             *)

Callbacks(events) ==
    (IF "hup" \in events /\ "in" \notin events THEN <<"hup">> ELSE <<>>) \o
    (IF "err" \in events THEN <<"err">> ELSE <<>>) \o
    (IF "in" \in events THEN <<"in">> ELSE <<>>) \o
    (IF "out" \in events THEN <<"out">> ELSE <<>>)

\* What poll reports: room to write, as long as it was asked for; data, at
\* any time; the loss of the device, in one way or another.
Events ==
    LET out == IF writing /\ room > 0 THEN {"out"} ELSE {}
    IN  IF port = "open" THEN {out, out \cup {"in"}} \ {{}}
        ELSE {lost \cup out : lost \in SUBSET {"hup", "err", "in"} \ {{}}}

HandleEvent ==
    /\ Idle /\ isOpen
    /\ \E events \in Events : todo' = Callbacks(events)
    /\ UNCHANGED <<tty, port, writing, buffer, accepted, wire, reading, dangling, crashed>>

\* A callback returns to the loop.
Return == todo' = Tail(todo) /\ reading' = FALSE

\* The close callback and handleError().
HandleLoss ==
    /\ Running("hup") \/ Running("err")
    /\ CloseInLoop
    /\ Return
    /\ UNCHANGED <<tty, buffer, accepted, wire, crashed>>

\* handleRead() enters its loop.
HandleRead ==
    /\ Running("in") /\ ~reading
    /\ IF isOpen THEN reading' = TRUE /\ UNCHANGED todo ELSE Return
    /\ UNCHANGED <<tty, port, writing, buffer, accepted, wire, dangling, crashed>>

\* Seeded fault: end-of-file is taken for the end of the data.
ReadEndsKeepsDead ==
    /\ Running("in") /\ reading
    /\ StaysOpen /\ UNCHANGED writing
    /\ Return
    /\ UNCHANGED <<tty, buffer, accepted, wire, crashed>>

\* The loop of handleRead() ends: with EAGAIN, or with end-of-file or an
\* error, which closes the port.
ReadEnds ==
    /\ Running("in") /\ reading
    /\ IF port = "open" THEN StaysOpen /\ UNCHANGED writing ELSE CloseInLoop
    /\ Return
    /\ UNCHANGED <<tty, buffer, accepted, wire, crashed>>

\* Seeded fault: POLLOUT stays on when all is written.
DisarmNever(rest) == TRUE

Disarm(rest) == rest # <<>>

HandleWrite ==
    /\ Running("out")
    /\ IF ~isOpen \/ ~writing
       THEN StaysOpen /\ UNCHANGED <<writing, buffer, wire, room>>
       ELSE \/ /\ port = "dead"
               /\ CloseInLoop
               /\ UNCHANGED <<buffer, wire, room>>
            \/ \E n \in Taken(buffer) \ {0} :
                  /\ Written(buffer, n)
                  /\ buffer' = SubSeq(buffer, n + 1, Len(buffer))
                  /\ writing' = Disarm(buffer')
                  /\ StaysOpen
    /\ Return
    /\ UNCHANGED <<plugged, accepted, crashed>>

\* The loop goes on with a channel that was destroyed: it may find the memory
\* as it was, or crash.
Crash ==
    /\ ~crashed /\ dangling /\ todo # <<>>
    /\ crashed' = TRUE
    /\ UNCHANGED <<tty, port, writing, buffer, accepted, wire, event, dangling>>

Next ==
    \/ Unplug \/ Plug \/ Drain
    \/ OpenDevice \/ CloseDevice \/ Send
    \/ HandleEvent \/ HandleLoss \/ HandleRead \/ ReadEnds \/ HandleWrite
    \/ Crash

\* The loop goes on.
Fairness ==
    /\ WF_vars(HandleEvent) /\ WF_vars(HandleLoss)
    /\ WF_vars(HandleRead) /\ WF_vars(ReadEnds) /\ WF_vars(HandleWrite)

Spec == Init /\ [][Next]_vars /\ Fairness

-----------------------------------------------------------------------------
Bytes == 1 .. MaxAccepted

\* The types, and the bound of the buffer: a tty that takes nothing does not
\* make it grow without end.
TypeOK ==
    /\ plugged \in BOOLEAN /\ port \in {"closed", "open", "dead"}
    /\ writing \in BOOLEAN /\ reading \in BOOLEAN
    /\ isOpen => Len(buffer) <= kTxOverflowLimit
    /\ buffer \in Seq(Bytes) /\ wire \in Seq(Bytes)
    /\ accepted \in 0 .. MaxAccepted
    /\ room \in 0 .. Room
    /\ todo \in Seq({"hup", "err", "in", "out"})
    /\ dangling \in BOOLEAN /\ crashed \in BOOLEAN

\* The bytes reach the tty in the order in which they were accepted, each
\* once, whichever of them are written directly and whichever later; nothing
\* of an earlier opening gets into a new one.
InOrder == isOpen => wire \o buffer = [i \in 1 .. accepted |-> i]

\* POLLOUT is asked for exactly while bytes are waiting: otherwise they would
\* wait for ever, or the loop would spin.
ArmedIffPending == writing <=> isOpen /\ buffer # <<>>

\* The loss of the device is noticed, however it shows.
LossIsNoticed == (port = "dead") ~> (port # "dead" \/ crashed)

=============================================================================
