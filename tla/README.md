# A formal model of mhost

mhost is the host process of a three-wheeled chassis. It talks to one board
over a serial line in binary frames and to any number of clients over TCP in
lines of text. It keeps a CON session with the board, repeats the speed command
of the client in control, brakes when that client disappears, brings the link
back when it is lost, and updates the board's firmware by a flashing script
that needs the line for itself.

This directory holds TLA+ modules that model the program, TLC configurations
that check them on small instances, and proofs of the most important results
for all values of the constants. `PROJECT.json` maps every definition to the
lines it stands for. Paths below are relative to the repository.

## Inventory

| component | state | operations | modelled in |
|---|---|---|---|
| `link/ConSm` | `state_`, `comm_`, `newComm_`, `reqRep_`, `pingRep_`, two deadlines, `cur_` | `connect`, `disconnect`, `reset`, `onFrame`, `tick` | `ConSmOps`, `ConSm`; what it promises in `LinkSession` |
| `app/ChassisHost`, control | `conns_`, `speedConn_`, `cmdMode_`, `userDisabled_`, `lastEnSentMs_`, `lastRetryMs_`, `otaState_`, `otaPhaseStartMs_` | the commands `v rpm stop en flash flash_abort`, frames, four timers, loss of the port, exit of the child | `ChassisHost`; with the board's enabling and motion in `HostBoard` |
| `app/ChassisHost`, clients | `watchers_`, `pingConn_`, `lastPingId_`, `otaConn_`, `lastFrameMs_`, `rxSilenceWarned_`; last values of the telemetry | `watch ping pid sign quit`, progress of an update, odometry and slow timers, silence warning | `ChassisClients`, without the values |
| `ota/OtaFlasher` | `pid_`, `fd_`, `exited_`, pending tasks and timers | `start`, `killGroup`, end of the pipe, `pollReap`, `finish`, destructor | `OtaFlasher` |
| `serial/SerialPort` | `fd_`, `channel_`, `outputBuffer_` | `openDevice`, `closeDevice`, `send`, four channel callbacks | `SerialPort` |
| `proto/FrameCodec` | `buf_`, `stats_` | `packFrame`, `FrameParser::feed`; payload codecs without state | `PayloadCodec`, `FrameCodec`, `FrameParser` |
| `log/AsyncLogging` | five buffer pointers, `buffers_`, `running_` | `append`, `stop`, the thread | `AsyncLogging`; what it promises in `LogFifo` |
| `log/LogFile`, `FileUtil` | `count_`, `startOfPeriod_`, `lastRoll_`, `lastFlush_` | `append`, `rollFile`, `flush` | `LogFile`, used by `AsyncLogging` |
| `log/Logger`, `LogStream`, `Timestamp` | one line in a thread's own buffer | formatting | no |
| `app/main.cc` | - | options, wiring, signals | no |
| `tools/mock_board.cc` | `conReady_`, `lastCon_`, `driverEn_`, target speeds, `lastCmd_`; motors | answers to CON frames, 3 s watchdog, commands and their timeout, STATUS; physics | CON part in `ConLink`, commands in `HostBoard`, frames in `FrameParser` |
| `tools/*.py`, `tests`, `samples`, `scripts` | - | test equipment and examples | no |

**Interaction.** Everything but the logger's background thread runs in one
event loop (muduo), so a handler is never interrupted by another: a handler is
one action. `ChassisHost` calls `ConSm` and `SerialPort` and is called back by
both within the same call: `connect()` sends a frame, the failed send is an
event of the same `ConSm`, its `flush()` calls `onCommState()`, which sends
`CMD_EN`. `SerialPort::send()` may close the port and so call `onSerialState()`
in the middle of the handler that sends. `OtaFlasher` reports the exit of its
child from a queued task. `AsyncLogging` shares its buffers between all threads
under one lock, and alone owns the `LogFile` it writes to.

**What is hard.** Nested calls and follow-up events (`ConSm::flush`), several
events of one `epoll` round against objects that an earlier one has destroyed
(`SerialPort`, `OtaFlasher`), timers that outlive what they were started for,
a firmware update whose phases are moved by frames, timers, a child process and
commands of several clients at once, messages that are lost, delayed or damaged
on a serial line, ticks that come late, and buffers that circulate between two
threads. The full list, with source lines, is under `hazards` in
`PROJECT.json`.

## Modules

`ConSmOps` - the machine of `link/ConSm` as operators on a record: `Sm` is
the transition table of `sm()`, `Flush` the sending and the callback of
`flush()`, `FollowUp` the event that a sent request or a failed send gives rise
to, and `Process` the loop of `process()`. Each public method is an operator
that takes the record and the results of the sends and yields the new record,
the frames sent and the callbacks made. Deadlines are kept relative to now.

`ConSm` - a `ConSm` with an arbitrary user and an arbitrary peer: any call,
any of the peer's messages, any send may fail, and `tick()` may come up to
`MaxLate` units late. The variables `told`, `quiet` and `waited` observe what
the application was told last, how long the peer is silent, and how long a
handshake lasts.

`LinkSession` - what a session promises without frames and timers: six kinds
of step between four phases, and the callbacks each of them makes. `ConSm`
implements it (`SessionPromised`); `HostBoard` uses it in the place of `ConSm`.

`ChassisHost` - the control part of the host, which embeds `ConSmOps`. One
action per command, frame type and timer. Any one write of a handler may fail
(`Fault`): `send()` still answers `true`, the frame is lost, and the port is
closed for the rest of the handler, as in `sendFrameToBoard()`. Frames that
follow in the same read are still handled (`unread`). The board is arbitrary.
Ages count up to just past the values they are compared with.

`ChassisClients` - the other face of the host: what it tells whom. The
update is reduced to its phases and to the steps that report progress or a
result, the port to whether it is open, and a ping to its age: two pings of
one millisecond share their identifier in the code, and their age here. `told`
is what a step sends. A write may close the port in the middle of any handler.
The replies a command gives at once to its sender are left out.

`ConLink` - `ConSmOps` on one side, the board's part of the CON protocol on
the other, and two queues of frames that age, get lost and arrive in order.
It is the composition that relates the two sides' timing constants. The host's
retry may come at any time (its 2 s throttle is left out) and the user may close
the session; `calm` marks the end of all faults.

`HostBoard` - the host and the board with the commands that move the chassis
between them: two queues of frames that age and get lost, the board's enable
flag, targets and command timeout, and those phases of an update that take part.
The session is `LinkSession`, whoever gives a command is left to `ChassisHost`,
and a throttle or a timeout of the host that `ChassisHost` has is any time here.
`overrun` measures for how long the chassis drives against the host's will,
`fed` for how long it could drive undisturbed.

`OtaFlasher` - the supervisor of the flashing script. A child may close its
output, end, or leave helpers that hold the pipe, in any order. One event of
the pipe gives up to three callbacks (close, error, read) that each schedule
`detachPipe()`. Abort timers and the poll timer of `pollReap()` fire late, in
any order, with a later child perhaps.

`SerialPort` - the port with its fast path, its buffer and the callbacks of
one event, one after another. A byte is its number in the order of `send()`. The
device may be unplugged at any moment and shows it as hang-up, error, or data
that ends, alone or together. `Crash` is what a destroyed channel may lead to.

`PayloadCodec` - every payload that the host packs or parses, byte by byte.
A scaled number is the integer on the line and a float its 32 bits; only the
speeds of the wheels, which the code clamps and rounds, have a value of their own,
and what `lround()` makes of NaN, which is unspecified, is left open: any number of
16 bits. `strtod()`, which lets NaN in, is not modelled.

`FrameCodec`, `FrameParser`, `FrameParserMC` - the checksum (with the real
polynomial), `packFrame()` and one round of `feed()`, byte by byte; the loops of
the source are recursive functions over its indices, and the exclusive or is that of
the binary digits, so that theorems can be stated about them. Then a line that carries pings and other good frames, noise, cut frames and damaged frames,
read in chunks, by a host that may lose its port and open it again with the
parser as it was (`Reopen`).

`LogFile` - the rolling file as operators on a record: appending, the roll of
a full file, the check for a new day and the flush that happen on every
`checkEveryN`-th append. The record starts as the constructor leaves it, with
`lastRoll_` and `startOfPeriod_` 0.

`AsyncLogging` - `append()` on any thread, `stop()`, and the background
thread cut at the points where it holds or does not hold the lock, writing to
its `LogFile` while the clock goes on. A buffer is a sequence of lines, a
moved-from pointer is `NoBuffer`. The build is the default one, without
assertions.

`LogFifo` - what the logger promises: a queue that may discard lines while too
many wait, sparing the oldest. `AsyncLogging` implements it (`QueuePromised`): the
lines on the way are those of the batch, the queued buffers and the current one,
in this order, whoever holds the pointers.

`ConSmOps_proofs`, `ConSm_proofs` (which also holds the refinement of
`LinkSession`), `ChassisHost_proofs`, `HostBoard_proofs`, `OtaFlasher_proofs`,
`AsyncLogging_proofs`, `ChassisClients_proofs`, `SerialLine_proofs` - the proofs.
The last one holds those of `SerialPort`, `PayloadCodec`, `ConLink` and `FrameParser`,
for which the names of the specifications of the latter two begin with `Link` and
`Parser`.

## Runs

| run | instance | what it shows |
|---|---|---|
| `consm` | header's constants in units of 100 ms, ticks up to 200 ms late | the machine is never stuck, leaves no timer or count behind, keeps its two time bounds, and implements `LinkSession` |
| `conlink` | the same constants, board watchdog 3 s, one unit of delay, of lateness | the board never ends a session the host believes in; a one-sided session is bounded; a session is rebuilt once faults stop |
| `chassis_host` | two clients, every timeout one unit | a speed is only sent for a client in control of an enabled, idle chassis, an update is quiet and ends, a disable is sticky, the child runs exactly in its phase, a lost session is asked for |
| `host_board` | repeat period 1, travel up to 1, command timeout 2, two frames on the line | the chassis stops in bounded time whatever is lost; late frames alone do not stop it; the board comes to agree on the enabling |
| `chassis_clients` | two clients, timeouts of one unit, pings on the line for up to one | no reference to a connection outlives it; a pong answers the client's own last ping; the starter of an update learns its result; each silence of the board is reported |
| `ota_flasher` | three children, two abort timers, two polls | never two flashers, the exit callback once and only for a reaped child, every abort succeeds |
| `serial_port` | frames of 2 bytes, a tty that takes 3, a limit of 5 | order, bound of the buffer, `POLLOUT` exactly while bytes wait, a lost device is noticed |
| `frame_parser` | three items, one of them bad, or a port lost and reopened; payload at most 5 bytes | chunks make no difference, nothing is made up, bounded loss after damage or reopening |
| `async_logging` | buffers of 2 lines, storm above 3 buffers, 8 lines, files of 5 lines, a check every 3rd append, three seconds with a new day in the third | implements `LogFifo`; buffers circulate; a full file and a file of yesterday are given up; every line is flushed, except those which the thread had not yet taken when it was stopped; `stop()` returns |

Three runs end in a violation and show a disagreement between the code and what
the repository says of it; the text of each is under `findings`:

| run | statement | what the code does |
|---|---|---|
| `host_recover` | RECOVERING waits for the session (`app/ChassisHost.h:157`) | a board that asks for a session before the script has exited gives it too early; the update is then reported as a timeout |
| `flasher_stale` | the kill timer checks its child by itself (`ota/OtaFlasher.cc:131`) | it kills the next child |
| `disable_lost` | the motors stay disabled (`app/ChassisHost.cc:330`, `:655`) | a `CMD_EN 0` that is lost in a session is never sent again |

Further disagreements that were read from the source or that a model shows without
a run of its own are listed under `findings` as well. In short: a batch of 3 to 25
buffers leaves a spare buffer null, against the assertion at `log/AsyncLogging.cc:74`
(`BuffersCirculate` holds up to such a batch, and is violated by it if its premise
`~backlog` is taken away); the storm protection keeps the oldest
instead of the newest buffers; a new log file is rolled at its first check; a file
that cannot be opened is written through a null pointer; a FATAL line does not
reach the disk; the port's channel is destroyed in its own event; `CommCb` is called
with READY twice when a peer requests its session twice (`LinkSession` allows for
it); any STATUS with `en` 0 is taken for the confirmation of the disable; the
silence warning measures across a closed port; the status line is published before
there is a status; a damaged length costs following frames; the comments on
`packCmdSign()` and `packCmdVel()` differ from what they do.

**Bounds, and why they are enough.** The timing constants of `consm` and
`conlink` are those of the program (`kPingTime` 1 s, `kRepeatPingTime` 0.3 s, two
repetitions, `kConRspTimeout` 0.4 s, five retransmissions, 3 s on the board) in
units of the 100 ms tick, so the bounds that are shown are the real ones. In
`conlink`, ticks are at most one unit late and frames at most one unit on their
way. With two units of lateness the longest silence that the host can produce
is within two units of the board's 3 s, so the relation of the two constants
holds with little to spare; with longer delays queues grow without bound,
because the throttle of the retry is not modelled. In `chassis_host` every
timeout is one unit: each comparison then has a state below, at and past its
boundary, and the ages saturate there. Two clients are enough for one to take
over from another and for a third party (the one who disables or updates) to be
either. In `chassis_clients` a ping that is on the line for one unit is late enough to
meet the next ping, of its own client or of the other. In `ota_flasher` three children let a timer of the first meet the
second and the third. In `serial_port` a frame can be written whole, in part or
not at all, two frames can wait, and a third overflows. In `frame_parser` the
payload limit is 5 instead of 32, which lets a false header claim a whole frame
and part of the next, with `Resynchronises` stated in terms of `kMaxFrame`; the
payloads (nothing, and the payload of a ping whose bytes are half a header),
sequence numbers and noise are those that make false headers. In `async_logging`
eight lines make a storm of four buffers and five make a batch of three, the
smallest after which a spare buffer is missing; a file is full in the middle of a
batch, rolls within its second and later ones both occur, and so do appends on a
new day with each value of the counter. In `host_board` the timeout is the
smallest that a repeat with one unit of travel keeps fed; the line holds what one
handler writes.

**Fairness.** `ChassisHost`: the watchdog timer, the clock and the end of the
child. The loop's timers fire as long as the loop runs; that the flashing script
ends is an assumption on the script (it can be aborted, but nothing in the code
limits its duration, so `UpdateEnds` rests on it). `ChassisClients`: the watchdog timer.
`ConLink`: the retry and the
progress of time, ticks and frames. `OtaFlasher`: queued tasks and timers run.
Neither the child nor a helper that holds the pipe is assumed to end: for
`ExitIsReported` the output has ended already, and `AbortSucceeds` shows that
SIGKILL to the group gets past both. Without an abort, a helper that stays keeps
the exit callback away for ever; the code has no remedy, and nothing promises it. `SerialPort`: the loop delivers what `poll` reports and goes through the callbacks;
no fairness of the tty, of `send()`, of plugging in or of reopening.
`AsyncLogging`: the thread runs; its `wait_for` returns after its timeout. The
clock is not assumed to go on, but it is never set back, and files open and take
what they are given. `HostBoard`: time, timers and
frames go on, a child ends (as in `ChassisHost`), and once the faults are over a
handshake succeeds, which `SessionIsRebuilt` of `conlink` shows. It is strong for
the handlers that write, because the bound on the frames under way, which the
code does not have, disables them now and then.
`ConSm` and `FrameParser` have safety properties only and no fairness.
Deadlock checking is off in the modules whose system may really stop (the
process has crashed, the object is gone, the bounded traffic is through); each
cfg says which.

## Proofs

All are checked by TLAPS from nothing but the definitions and the named
assumptions on the constants: the timing constants of the link are positive
numbers and the limits of repetition natural ones (`TimingAssumption`,
`LateAssumption`), the host's timeouts are natural and `None` is no client
(`HostAssumption`), there is at least one child and one abort timer
(`FlasherAssumption`), the periods of `HostBoard` are natural
(`HostBoardAssumption`), `None` is no client of `ChassisClients` and its timeouts are
natural (`ClientsAssumption`), delays and the board's watchdog are natural
(`LinkAssumption`), a frame has a byte and the tty has room for one
(`PortAssumption`), a storm has more than two buffers and a counter at least
one step (`LoggingAssumption`, `LogFileAssumption`), NaN is no number
(`NaNAssumption`), no length is taken for half a header (`CodecAssumption`: the limit of 32 is below
85), and payloads, noise and masks are bytes and chunks not empty (`ParserAssumption`). TLC checks the same assumptions for the instances.

*ConSm.* The invariants of the run are proved for all timing constants and
all lateness, and `TypeOK` and `ToldTheTruth`, which no run needs any more. The inductive invariant `IInv` consists of `TypeOK`, `Good(con)`
(a handshake has its answer timer and the right request to repeat, a session
its keep-alive, neither leaves anything behind, READY exactly in a session) and
two inequalities: the silence so far plus the time to the next ping is at most
the keep-alive period and the periods that `pingRep_` has counted (`QuietOk`),
and likewise the handshake so far and `reqRep_` (`WaitOk`). The bounds alone are
not inductive, because without the deadlines and counters a state within them
says nothing of the next tick. `Due` and `Grace` account for the lateness: a
deadline that was reached has waited at most since the last tick. The lemmas of
`ConSmOps_proofs` say, for each public method, which of a few forms its outcome
has (`Ended`, `Live`, `Asking` and the ticked and refreshed ones) and that the
callbacks made report the state left behind (`Reported`), whatever the sends
answer. They follow the follow-up events of `flush()` to their end and are used
again by the proof for the host.

*LinkSession.* `ConSm` implements it for every value of the constants
(`SessionIsPromised`). Each public method is followed through its flush and
follow-up events; the second part of `ConSm_proofs` shows for each kind of event which abstract
step the whole call is, and that the callbacks are those of that step, one by one.
The outcome lemmas above say where the call ends but not how often it reported, so
they are cited for the former only.

*ChassisHost.* The four invariants of driving and updating are proved together as
`Discipline`: a speed frame is authorised because the update under way has set
the sticky flag and because the motion has a master, so none of them is
inductive alone. `TypesHold` uses `Typed` (`TypeOK` and `Good(con)`) and the
outcome lemmas of `ConSm`. The two action properties follow from the actions,
one step per handler.

`MotionHasMaster` and `UpdateIsDisabled` are proved but have no run of their own:
`SpeedIsAuthorised` rests on both.

*HostBoard.* `MotionStops` holds for every delay, period, timeout and lateness. The
bound is not inductive: `IInv` follows a speed from the handler that sent it to the
motors. Its overrun is at most the age of the frame while it travels, and at most
`MaxDelay` and the age of the command once the board obeys it. `KeepsMoving` is the
other side and needs a condition on the constants, `InTime`: a period, the lateness of
a timer and a delay fit in the board's timeout. `FeedInv` says that every speed on the
line, and the one the board obeys, is followed by another within a period and a
lateness or will be in time (`LineFollowed`, `BoardFollowed`), that frames arrive in
the order of their ages, and that what could halt the motors was sent before the host
wanted to move.

*ChassisClients.* `TypeOK`, `ToldIsOwed` and `ResultIsTold` hold for every set of
clients, every timeout and every time a ping takes. `IInv` ties what the host keeps
(`pingConn_`, `otaConn_`) to what the clients know: while the echo of the remembered
ping can still come, that ping is the last of its client (`PingOwed`), the remembered
starter of an update waits for its result, and whoever else waits has said quit
(`UpdateInv`). `ToldIsOwed` follows for each handler from the invariant before it.

*ConLink.* `HostGivesUpFirst` is proved for all timing constants for which
`BoardIsPatient` holds: the host's keep-alive, its repetitions, a late tick in each
period and one delay fit in the board's watchdog. `SplitBounded` needs no condition.
`LinkInv` counts both the board's silence (`seen`) and the one-sided session (`split`)
against the keep-alive and the repetitions of the host (`Counted`), and knows that an
answer on its way to the host is at least as old as either of them (`Answers`): it is what
makes an answer that resets the host's count harmless.

*OtaFlasher.* `IInv` adds to the checked invariants what ties `pid_` to the
processes (`Processes`), the exit callback to the reaping (`Callbacks`), and the
queued task and the poll to a child that runs now and has closed its output
(`Polling`); the last is what keeps the fallback kill away from a healthy child.

*AsyncLogging and LogFile.* `BuffersCirculate`, `DayRolls` and `FileBounded` hold for
every capacity, storm limit, file size, length of a day and number of lines. `IInv` is
`PointersOK`, `FileOK` and, up to the first batch of more than two buffers,
`Circulation`: a spare buffer of the front end is missing only while a full one is
queued, and one of the thread only while the batch holds one to recycle. `FileOK`
ties the appends of another day to the counter that ends them.

*LogFifo.* `AsyncLogging` implements it (`QueueIsPromised`). `QueueInv` adds that every
queued buffer is full and holds lines only, so is every buffer of a batch but the last,
that spares are empty, and that a batch which is being written is no storm. Each action is
then one step of the queue or none: the switch of the buffers appends one line to the
flattened buffers, the swap regroups them, `WriteBuffer` moves a prefix to the file, and
`DropStorm` cuts out the middle, of which the full buffers in front have the length
that `LogFifo` asks for. What flattening does to sequences of any length is proved
by induction, which the library states with an operator as a parameter and this
module for a set (`Induction`, `SequenceInduction`): a least missing element,
which the well-foundedness of the natural numbers provides, cannot exist.

*SerialPort.* `TypeOK`, `InOrder` and `ArmedIffPending` hold for every length of a frame,
every tty, every limit and any number of openings, and their conjunction is inductive:
a frame is written directly only past an empty buffer, what `handleWrite()` takes from
the front of the buffer is what it appends to the wire, and a channel that is armed has
bytes waiting, to which a further send only adds. `Aside` collects the steps that move no byte.

*PayloadCodec.* What a run over a handful of payloads could not show is proved for
all of them: 16-bit numbers and the identifier of a ping survive the line, a parser
reads only bytes that were received, `unpackCon()` accepts exactly what `packCon()`
makes, the samples of a SYSID frame lie within it, a speed is rounded to the nearest
tenth within the limits, also beside a wheel that is given NaN (about that wheel
itself nothing is claimed).

*FrameParser.* The invariants of the run hold for every payload and limit, all noise and
damage, any number of faults and every cut into chunks, `OnlySent` under a condition
that is stated below. The inductive invariant
`ParserOk` has three parts. `OnceOk` says that the parser is as one call with all bytes
would have left it (`ChunkingIrrelevant`): a round of `feed()` that does not wait for more
does the same with more bytes behind, so the rounds over the old bytes, and then over
the rest and the new ones, are the rounds over all. `LayoutOk` says where the good frames
and the faults lie among the bytes read and under way. `PassedOk` follows the parser
through them: its buffer is what was read without its first n bytes, and every frame that
begins in these n was returned or is excused by a fault in front of it; one round at a time,
a good header is never stepped over unless a false one claims it. None of this is visible
in the state, which is why `Resynchronises` is not inductive. `TracedOk` is the
counterpart for `OnlySent`. What a checksum accepts cannot be told from what
was sent, so `OnlySent` is proved under `NoForgery`: among the bytes that were read, a complete
frame with a fitting checksum is found only where one was sent. Instances satisfy it
or not, depending on their noise; in the one TLC checks `OnlySent` holds without it.
On a line without faults no such condition is needed (`FaultlessLineIsExact`): every byte
is one of a frame (`Faultless`), so the parser never leaves their edges (`InStep`), returns
what was sent, in order and all of it, and counts no bad byte or checksum.
Of the checksum the proofs only use that it is two bytes and a function of what it
covers: none rests on the polynomial.

**Only model-checked.** All liveness properties: fairness and ENABLED are out of the
prover's reach. `OnlySent` without `NoForgery`, which depends on the bytes of the instance.
All other invariants, action properties and refinements of the passing runs are proved.

## Not modelled

The conversion of scaled integers and bits to floats and their printing, telemetry
values and reply texts, the names of log files and files that cannot be opened or
written, the configuration of the tty, splitting of the script's output into lines,
formatting of log lines (`Logger`, `LogStream`, `Timestamp`), `main`, the simulated
motors and the test clients. These are conversions without state of their own,
straight-line code or test equipment. Time is discrete. TCP is a set of connections
that send commands one at a time.

## Plan

Done: all modules above, and the proofs of `ConSm` with its refinement of
`LinkSession`, `ConLink`, `ChassisHost`, `ChassisClients`, `HostBoard`, `OtaFlasher`,
`SerialPort`, `AsyncLogging` with `LogFile` and its refinement of `LogFifo`,
`PayloadCodec` and `FrameParser`. Next, in this order:

1. *`HostBoard` implements the board's half of `ConLink`*: the session of the two as
   one abstract object with both views of it.
2. *Log front end*: the bounded line buffer of `LogStream` and what truncation keeps.
