# RTno2Proxy in TLA+

RTno2Proxy talks to an RTno component (an RT-component on a small board) over a
serial line or a TCP connection. The program `rtno2` reads commands from a
prompt (`getstate`, `activate`, `execute`, `print`, `inject`, ...), turns each
into request packets, and shows what comes back. The program `com2tcp` bridges
a serial port to a TCP socket. Everything here is about the source under
`src/`; the board's firmware is not part of the repository.

## Inventory

| Component | Source | State | Operations | Talks to |
|---|---|---|---|---|
| Command shell | `rtno_main.cpp` | the open device, the protocol object | open, close, exit, the end of the input, one command at a time | Protocol (calls), EtherTcp or Serial (constructs, deletes) |
| Protocol | `rtno2proxy/protocol.cpp` | none between calls; within one: the attempt, the profile being collected | `get_profile`, `get_state`, `get_ec_type`, `activate`, `deactivate`, `execute`, `send_inport_data`, `receive_outport_data` | Transport (calls) |
| Transport | `rtno2proxy/transport.cpp`, `rtno2/packet.h` | none between calls | `send`, `is_new`, `receive`, `read`, `write` | SerialDevice (calls, polls) |
| EtherTcp | `hal/EtherTcp.cpp` | a global ring of 256 bytes and its two indices, `m_Endflag`, a thread | constructor, destructor, `read`, `write`, `getSizeInRxBuffer`, `svc` (the thread) | Socket; the ring is shared by the threads of all EtherTcp objects and the main thread |
| Serial, SerialPort | `hal/Serial*.cpp` | a file descriptor | `read`, `write`, `getSizeInRxBuffer` | the operating system |
| Socket, ServerSocket | `hal/Socket.h`, `hal/ServerSocket.h` | a file descriptor | `connect`, `accept`, `read`, `write`, `setNonBlock` | the operating system |
| Bridge | `com2tcp_main.cpp` | one buffer, the current client | accept a client, then copy both ways until something fails | ServerSocket, Serial |
| Logger, spdlog | `rtno2proxy/logger.cpp`, `thirdparty/` | | | no effect on the behaviour |

What is hard about each, and what would make it correct:

* **Protocol.** Packets carry no identifier and nothing flushes the line, so an
  answer that is late, an attempt given up in the middle of a burst, or a
  damaged packet leaves something behind for the next reader. Correct would be:
  an operation happens once; an answer belongs to the call that returns it;
  what is left behind is bounded; every call returns.
* **EtherTcp.** The ring has a writer and a reader, no lock and no atomic, and more
  than one writer once a device was opened over another.
  Correct would be: the size reported is the size stored; the bytes come out
  once each and in order; a read never falls short of what was polled for and
  never hands out more than was asked for; a read whose bytes have arrived
  returns.
* **Transport.** After a timeout in the middle of a packet the rest of it is
  scanned for the start of the next. Correct would be: a packet handed over is
  one that was sent; a packet that is not handed over is reported; the framing
  recovers.
* **Command shell.** A sequence of legal commands (open twice, a failed open
  after a good one, close of a TCP device, the end of the input) must leave
  device, thread and protocol object consistent. A command must reach the
  device that is open and be answered by it, and a value that is typed must be
  the value the port gets.
* **Bridge.** Every byte read from one side is written to the other, in order
  and once; a client that leaves makes room for the next.

Every hazard, with the line where it bites and the properties that watch over
it, is in `PROJECT.json`.

## Modules

| Module | What it is |
|---|---|
| `RTno` | the board, as far as the host relies on it: which command answers which request, how a profile is listed. External. |
| `AtomicCall` | abstract: an operation takes effect at one instant between call and return |
| `Protocol` | `protocol_t`, the line, and what the line may do |
| `MCProtocol` | ports for TLC |
| `ProtocolProofs` | type correctness, and the bounds on staleness and backlog |
| `AtomicProofs` | what `get_profile` returns, and the refinement of `AtomicCall` |
| `PacketLink` | abstract: the packets written, and which of them are still waiting; a fault costs one packet at most |
| `Transport` | `transport_t`: `send`, and the reads of `is_new` and `receive` one by one, over a line of bytes |
| `MCTransport` | packets for TLC |
| `TransportProofs` | what the checksum tells, and that the framing implements `PacketLink` |
| `ByteFifo` | abstract: a FIFO of bytes |
| `RxRing` | the ring of `EtherTcp.cpp`, the `svc` thread, `transport_t::read` and `EtherTcp::read` |
| `RingProofs` | the ring's properties, and that it implements `ByteFifo` |
| `SharedRing` | the ring with the threads of several EtherTcp objects pushing into it, load by load |
| `PortData` | what `inject` makes of the text it is given, by the type of the port |
| `Shell` | `rtno_main.cpp` and the life of the devices it opens, with what they share |
| `MCShell` | ports and texts for TLC |
| `ShellProofs` | which device a command speaks to and whose answers it sees |
| `InjectProofs` | when the OK of `inject` means that the port has the value |
| `Bridge` | `com2tcp_main.cpp`, its clients and the serial port |
| `BridgeProofs` | what reaches the serial port and the clients |

The layers rest on each other by what they promise. `Protocol` takes from
`PacketLink`, which `Transport` implements, that packets come out whole and in
order: its received packet, `TimeOut`, its failures and its faults are what
`Protocol` calls `Receive...`, `TimeOut`, `CutShort` or `BadChecksum`, and
`LosePacket`. `Transport` takes from `RxRing` that a read delivers what it was
asked for or times out, which holds over TCP until one of the ring's `mishaps`.
`Shell` makes calls of `protocol_t`: it models a call as one request and the packets
read until its answer or a timeout, with the board's answers going through the ring
that all TCP devices share; what two threads do to each other's bytes there is in
`SharedRing`, and an answer that suffers from it is `spoilt` in `Shell`. `Bridge` is another
program and stands alone.

Definitions named after a slip (`...Slip` in most modules, `DistanceOffByOne`,
`ReadyOnMore` and the like in `RxRing`) are no part of a specification. Each is
a variant of the definition next to it with a plausible mistake in it,
kept to see that a property notices.

### Protocol

The host thread is at one of three places: idle, at the head of the retry loop,
or waiting for a packet. `Call` is the shell calling an operation, `Send` the
head of the loop (`transport_.send`, with the fresh `profile_t` of
`get_profile`), and the `Receive...` actions are the branches taken on the packet at
the head of the line: the awaited one, a port of a profile, an error, or
something else. `GiveUp` is the end of the loop. `send_inport_data` and
`receive_outport_data` make one attempt, whatever their `retry_count`
(`Attempts`).

The line is two queues. The board's answer to one request is one element of
`down`, a burst: for a profile, a packet for each port and the closing packet.
`is_new` and `receive` are seen from above: they hand over the packet at the
head, time out with it still there (`TimeOut`), break off inside it
(`CutShort`), or find its checksum wrong (`BadChecksum`). `Faults` says what
the line may do:

* `late`: a timeout may come while a request or an answer is still on its way;
* `damaged`: a packet is cut short or its checksum is wrong, at either end;
* `lost`: a request or a packet vanishes without a trace.

Three variables are histories that the code does not have: requests carry the
number of their call, `unanswered` counts the attempts that ended without
reading a closing packet, and `line` remembers what has happened to the line:
nothing (`timely`), something the host is told of (`late or damaged`), or a loss
it cannot see (`lossy`). `AtomicCall` has the first of these as `calm`, so
`AtomicWhenTimely` is checked in every behaviour with faults, up to its first
fault.

### Transport

The reader is between calls (`idle`) or at one of the five reads of `is_new`
and `receive` (`pc`); each read takes all the bytes it wants from `line`, or
runs out of time (`TimeOut`) and ends the call with the error of its place.
`Write` puts a whole frame on the line. That its bytes trickle in is seen as
`TimeOut`s that come while they are there. Such a timeout and `Alter`, which
changes a byte on its way, are faults; `MaxFaults` bounds them.

`ImplementsLink` maps the bytes back to packets: waiting, to `PacketLink`, are
the packets sent that nothing has touched and that are either not begun or
being read in step (`Waiting`, `Aligned`). So a packet stops waiting only by
being handed over or by a fault that takes no other with it; what is handed over
had waited longest; and with no fault nothing is reported that is not so. Bytes
carry the frame they belong to for this mapping only.

Packets of any content may be sent while the line is undisturbed. A fault is
considered only among `Resilient` packets: two start bytes in a row inside a
packet, or a sum that is a start byte, defeat the resynchronisation after a
timeout. Left out of the faults is what the format cannot tell: an altered
length, an altered byte that becomes a start byte, and two altered bytes in one
frame, which can cancel out in the sum.

### RxRing

Every access of either thread to `buffer`, `buffer_start` or `buffer_end` is a
step, as in the unoptimised build that `CMakeLists.txt` describes: `buffer_push`
stores the index twice, `Advance` and `Wrap`. The board may send at any time, so
the ring may overflow. `InOrderStores` says whether the reader sees svc's stores
in program order; where it need not, the byte may come after the index
(`AdvanceFirst`, `StoreLate`).

The ring does go wrong, in three ways, which the history `mishaps` records:

* `overflow`: as many bytes were unread as there are slots;
* `glimpse`: the reader looked at the size while the end index was `BUFSIZE` and the
  start index 0, so that an empty ring seemed full;
* `late`: a slot was read before its byte was in it.

Each property makes exception for those of them that it does not survive, and for
no other: `SizeIsStored` survives all and only excepts the instant of the `glimpse`
and a ring that is full, `NothingUnarrived` all but a `glimpse`, `NeverShort` those
that are `late`, and `InOrder` and the refinement of `ByteFifo`, which has the
absence of mishaps as `calm`, hold until the first. The run `ring_stale` shows what
a `glimpse` does. All of this assumes nothing of the board or the build.

A byte is represented by its place in the stream.

### SharedRing

`open` does not end the thread of the device it drops, so two threads may run
`buffer_push` on the same globals. Here its statements are taken apart into the loads
and the stores of `buffer_end`; the main thread takes a byte when the size says that
there is one. A byte is its place in the order in which the threads received theirs.
Two pushes at a time lose a byte, or leave a size that no byte accounts for
(`PushedIsStored`), even while the ring never fills and nothing is popped at a bad moment,
which the history `mishaps` tells. A store past the array, which two threads can bring about between
`Advance` and `Wrap`, would overwrite what the linker put there: that thread goes no
further in the model, so nothing is claimed of what follows.

### Shell and PortData

Devices are numbered in the order in which they were opened; the pointers
`serial_port` and `rtno` are numbers, 0 for null, and stay what the code leaves
them: an `open` that fails sets the one and not the other, an `open` that
succeeds drops the device that was open without closing it, and `close` deletes.
The three ways to run the program are `mode`: `whole` (`do_whole_interactive`),
`interactive` (a device on the command line), `once` (a device and a command).
Behind each device is one of `Components`, which may differ in their ports.

Each EtherTcp has its thread (`SvcStart`, `SvcReceive`, `SvcEnd`), which clears
`m_Endflag` when it starts, however late that is. All threads put what arrives
into the one `ring`, in which an answer remembers the device it came from. Answers
of two threads that meet there may spoil each other (`Meets`).

`Command` is `do_main` reading a line; `inject` and `print` first get the
profile (`profile`) and then speak to the port by its type (`data`). `Answer`
takes the answer at the head of the ring by its command, whoever it is from, and
for the two data operations returns the result it carries; `AnswerError` is a
`PACKET_ERROR`, `SkipAnswer` a packet that `get_profile` passes over, `OtherAnswer`
any other that fails the call, and `TimeOut` none in time. A component takes what it
is asked in order and performs it (`Perform`) or refuses it (`Refuse`); a request or
an answer may get lost (`LoseRequest`, `LoseAnswer`). The profile that comes is that
of one component; one put together from the packets of two devices is not modelled,
nor are the several ways in which a call fails told apart.

`Delete` sets the flag and destroys the device; for an EtherTcp the thread object
goes next (`delete`), and as it is joinable, that is `std::terminate` (`Terminate`).
`EndOfInput` is Ctrl+D, which `Quit` notices in `whole` mode alone.

`ScalarInjectIsKept` says when the OK of `inject` can be believed. Two histories of a
device count: `gaveup`, a call of it ended without its answer, which may still come;
and `failed`, a request to it was lost or refused. An OK is to be believed if no other
answer than the right one could come (`Undisturbed`: nothing was given up, and no
EtherTcp was dropped that shares the ring), whatever was lost and refused; and also if
nothing was lost or refused (`Obeying`), whoever's answer it was. With both, an OK can
belong to an earlier inject while the request of this one is lost: that is the run
`inject_stale`. The formula is about ports of one value whose type `inject` has a
branch for. OCTET is not among them: for it `inject` returns OK and sends nothing, so its
OK says nothing of the port, and the property cannot hold.

`PortData` says what `inject` sends for a text and a type (`Sent`) and what the
help says it would (`Meant`). They differ for sequences, for which the bytes sent
are those of the `std::vector` object. A text is a list of words, and `atoi`,
`atof` and the first character are functions on words.

### Bridge

The single thread is at one of its system calls (`pc`): accept, opening the
port, the size in the port's queue, read and send, receive and write. There is one `buffer` for both
directions, which keeps what it held where a read does not fill it. Bytes are
told apart by who sent them and which of his they are. The exceptions of `accept` and
of `SerialPort` are caught by nobody and end the program (`Throws`).

`Width` is both `MAX_BUFFER` and the number of values of the `uint8_t` in which
`Serial` takes its sizes, as both are 256: a size that fills the buffer is 0 to
`Serial::read` and `Serial::write` (`ByteSize`). Every way out of the loop is
`Drop`: the next client is accepted and the old one's descriptor stays open.
`full` is a history: the serial port has filled the buffer once, from when
on clients get what the buffer happened to hold.

## Runs

| Run | Question | Bounds |
|---|---|---|
| `protocol` | How stale can an answer be (`StalenessBounded`), how much can be outstanding (`BacklogBounded`), what can `get_profile` return (`ProfileIsSuffix`), does every call return (`CallReturns`), and is an operation atomic while the line is undisturbed (`AtomicWhenTimely`, refinement of `AtomicCall`)? | all eight operations, all faults, two input ports and an output port, 2 calls, 2 attempts each |
| `ring` | When is the size right (`SizeIsStored`, `SizeIsCongruent`), what may a read deliver (`NothingUnarrived`, `InOrder`) and when is it complete (`NeverShort`), how long is the ring a FIFO (`ImplementsFifo`), and does a read return whose bytes have arrived (`ArrivedIsRead`)? | 4 slots, 9 bytes: the indices wrap twice, and the ring may overflow; stores in any order; reads of 2 bytes have no deadline |
| `transport` | Are packets handed over whole and in order, whatever they contain; and with timeouts inside packets and altered bytes, does a fault cost one packet, and is nothing made up (`ImplementsLink`)? | bytes of 7 values; four packets, two of them with start bytes in length, data or sum; 3 sent, 2 faults |
| `shell` | Which device does a command speak to (`ProtocolMatchesDevice`), whose answers does it see (`ForeignOnlyFromDropped`), when does the OK of an inject mean that its value is in the port (`ScalarInjectIsKept`), does the program end with its input (`EndOfInputEnds`)? | three modes, TCP and serial, 2 devices opened and any number of failed opens, whose components have ports of the same names and of a type that inject knows or does not; 2 commands: `activate`, `inject` of one of two values, `print` |
| `bridge` | What reaches the serial port (`UpInOrder`) and the clients (`DownIsFresh`), and is a client that waits served (`WaitingIsServed`)? | 2 clients, a buffer of 3, 4 bytes up per client, 3 down |
| `late_execute` | expected violation of `ExecutesOncePerCall` | 2 calls, 2 attempts |
| `ring_overread` | expected violation of `OnlyWhatWasAsked` | 4 slots, 9 bytes, stores in order |
| `ring_stale` | expected violation of `OnlyArrivedIsRead` | the same |
| `ring_shared` | expected violation of `PushedIsStored` | 2 threads, 4 slots, 5 bytes |
| `shell_close` | expected violation of `NeverAborts` | one device, one command |
| `inject_stale` | expected violation of `InjectOkMeansSent` | two devices, two commands |
| `bridge_full` | expected violation of `AllIsWritten` | one client, a buffer of 3, 4 bytes up |

Why the bounds are enough. Two calls and two attempts give the interesting
protocol behaviours: an answer of an abandoned attempt read by the next attempt,
and one of an abandoned call read by the next call; two input ports allow a
profile to begin in the middle of a list. In `transport` the second packet is
the one that an error in the first must not harm, and the second fault may hit
what the reader does to recover from the first. In `ring` 9 bytes go round
4 slots twice, and more may come than the ring holds. In `shell` the second device is
the one that hears the first one's answers, and the second command the one that may take
the late answer of the first, or have its value replaced by it. In `bridge` 4 bytes are one
more than the buffer, so a full buffer is followed by another byte. That a client's
bytes come to an end there does no more than any bound: `WaitingIsServed` makes an
exception for one that goes on sending, and a client that stops is what it is about. The proofs
remove the bounds for most properties.

Deadlock is not checked: once the bound on calls, commands or bytes is reached, and
in the programs whenever the user types nothing, no client comes and the board is
silent, there is nothing to do; and both programs end.

What the expected violations show:

* `late_execute`: `execute` is retried on a timeout, and the board cannot tell
  a repetition from a new trigger.
* `ring_stale`: a read that looks at the size between the two index stores of a push
  whose byte was popped takes an empty ring for a full one, and reads old bytes.
* `ring_shared`: two threads in `buffer_push` lose a byte, or leave a size that no
  byte accounts for.
* `ring_overread`: `EtherTcp::read` looks at the size twice. A byte that arrives
  in between is read along with those asked for, and stored behind them.
* `shell_close`: `close` on a TCP device deletes an object whose `std::thread`
  nobody joined: the program is terminated. So do `exit` and a single command.
* `inject_stale`: `inject` takes the answer to an earlier inject, of a device that was
  dropped or of a call it gave up, for its own, and says OK although its request was lost.
* `bridge_full`: 256 bytes from a client make a size of 0 and are not written.

Other things the code does that a reader may not expect are in the models and have no
run of their own; a property leaves room for each:

* `activate`, `deactivate` and `execute` look at the command of the answer and not at
  the result in it: a component in its ERROR state refuses, and the call says OK
  (`ReceiveAnswer`, `AtomicCall!Return`).
* The 256th unread byte makes the ring look empty, and all are lost (`overflow`);
  nothing orders the byte before the index for the other thread, so that a slot can be
  read before its byte is in it (`late`).
* `inject` of a sequence sends the vector object and not its elements (`Sent`), and
  `inject` to a port of type OCTET says OK without having sent anything (`Injected`).
* 256 bytes or more in the serial port's queue make a read of size 0 (`Read`), and the
  client is sent what the buffer held before, again and again (`full`).
* A client that has nothing to say at the moment is dropped, as its socket does not
  block and the bridge takes that for a failure (`RecvFails`).

What the passing properties leave open is worth as much to a reader as what
they say. `StalenessBounded` allows an answer of an earlier call: after a
timeout, `print` of one port can show the value of another, for the port name in
the answer is skipped and not compared. `BacklogBounded` counts requests and bursts, not
bytes, and so does not say when 256 bytes are too few. `DownIsFresh` ends with the first
full buffer and allows gaps, which a `send` that takes fewer bytes leaves.
`WaitingIsServed` allows a client to be starved by one that goes on sending or that has
closed its end. `ForeignOnlyFromDropped` allows the answer of a device that was dropped to be
taken for that of the one that is open.

## Fairness

`Protocol!FairSpec` asks that the host thread runs (`HostStep`) and that the
board answers what reaches it (`Perform`). Both timeouts of the callers are
finite (1 s), so a waiting host always has a step to take in the end. The
caller is under no obligation to call. `RxRing!FairSpec` asks that both threads
run; nothing obliges the board to send (`Recv` is not fair). `Shell!FairSpec`
asks that the main thread goes on: it ends a wait by an answer or by its timeout,
which is finite, it sees the end of its input, and it finishes a deletion. Nothing
obliges the user to type or a component to answer. `Bridge!FairSpec` asks that
the thread goes on: its sockets do not block, and the serial port takes what is
written to it; `accept` is enabled only when a client waits.

## Proofs

`ProtocolProofs`, for every component, number of attempts and set of faults:

* `TypeCorrect`.
* `StalenessCorrect` and `BacklogCorrect`. Neither property is inductive. The
  invariant gives each answer and each request on the line a lower bound on the
  call it belongs to, by its place in the queue (`DownAges`, `UpAges`): each
  place further back costs one abandoned attempt, or a later call. `Turn`
  accounts for the attempt that is waiting or not yet sent.

`AtomicProofs`, for every component and number of attempts:

* `ProfileCorrect` (`ProfileIsSuffix`). The invariant `Portions` says that every
  burst on the line is an answer without ports or what is left of a listing, and
  `Collecting` that what a call has gathered is followed, in the listing, by what
  is left of the burst it reads from. `GatheredIsSuffix` is the
  step from packets to profiles.
* `AtomicCorrect` (`AtomicWhenTimely`). The invariant `TimelyInv` says that while
  the line is undisturbed an attempt that waits has its own request or its own
  answer on the line and nothing else, and that no attempt waits without; the
  call takes effect when the board answers, and is refused without effect. After
  the first disturbance every step is allowed, as the property states.

`RingProofs`, for every size of the ring:

* `TypeCorrect` and `PlacesKept` (`SizeIsCongruent`), however full the ring: the
  invariant ties the two indices to the numbers of bytes pushed and popped, modulo `N`.
* `SizeCorrect`: what is congruent and within one ring is equal, so the size is right
  whenever fewer bytes than slots are unread, but for the instant of the `glimpse`.
* `NothingEarly` and `ReadsInFull`: a read works with a size it read before; the
  invariant says that while it pops, what it has left is no more than what has been
  pushed, unless there was a `glimpse`, and no less than what was polled for unless
  there was an `overflow` as well.
* `OrderCorrect` and `RingIsFifo`: until the first mishap the slots from the start index on
  hold the bytes in order (with svc's own byte counted in where it comes late), and
  every step of the ring is a step of `ByteFifo` or a stutter.

None of these assumes anything of the board, the build or the order of the stores:
what they except is in the formulas, as `mishaps`.

`TransportProofs`, for bytes of any width, any packets whose length does not
wrap, and any number of packets and faults:

* `TypeCorrect`.
* `SumDiffers`: sequences of bytes that differ in one place differ in their sum.
  The library's induction rules cannot be used here, so `Induction` gets the
  step from the least element of a set of numbers, and `SumsExist` from it the
  partial sums of which `SumOf` is the last.
* `LinkCorrect` (`ImplementsLink`), step by step. The invariant `LinkInv` has
  three parts. `LineInv` says of the line that it holds the rest of a frame and
  then whole frames, in order (`InOrder`, `Whole`, `Begins`), each as it was
  written but for the one byte that was altered if one was (`UnreadCopies`), and
  that no start byte came up that was not written (`NoNewStart`). `ReadingCopy`
  says the same of the frame that is read, part of which the reader has in
  `header` and `data`. `InStep` and `Undisturbed` say where the reader is: past
  two start bytes it is in step with the frames, out of step it never sees two
  in a row, which needs that packets are `Resilient`, and without a fault it is
  never out of step. None of the three can be left out: that the reader keeps in
  step over `data` needs the length it read to be the length that was written,
  and that it cannot take the contents of a frame for the start of another needs
  that nothing on the line looks like a start that is none. When the sum is
  read, either the frame was untouched and the packet is the one written
  (`IntactReceived`), or one byte was altered and the sums differ
  (`AlteredReceived`).

`ShellProofs`, for every component, any mixture of devices and any sequence of
commands:

* `TypeCorrect` and `MatchCorrect`, together. Neither `TypeOK` nor
  `ProtocolMatchesDevice` is inductive alone: that the pointers lead to devices
  needs that a command is being carried out only with a device open
  (`DeviceOpen`), and what `rtno` points to matters once `serial_port` is null.
* `ForeignCorrect`. The invariant `Fed` says who can have put an answer into the
  ring: the EtherTcp that is open, or one that was dropped. A device that was
  closed cannot, for closing it ends the program.

`InjectProofs`, for every component, any mixture of devices and any sequence of
commands:

* `InjectCorrect` (`ScalarInjectIsKept`), from two invariants, one for each way in
  which an OK can be believed. If no other answer can come (`Undisturbed`), at most
  one request or answer of the device is anywhere, and it belongs to the call that
  waits (`Sole`); so an answer that says OK means that this request was performed
  (`SoleData`). If nothing was lost or refused (`Obeying`), the request of an inject
  that waits is the last one to its port (`Carried`), and since a component takes
  requests in order, what the port ends up with (`EndsUpWith`) changes by a later
  inject only. `Steady` is what a step does to either that begins and ends no call.

`BridgeProofs`, for any number of clients and any size of the buffer:

* `TypeCorrect`.
* `UpCorrect`. The invariant `Up` ties the last byte written to the number of
  bytes received from its client, and bytes that were received and not written
  to a multiple of `Width`; `Sizes` and `Queued` say what the buffer holds while
  it is on its way.
* `DownCorrect`. `Down` says that what clients got was read from the port before
  what the buffer holds, and that before what is still unread.

Every invariant, action property and refinement that a passing run checks is thus
proved. `SharedRing` is there for one expected violation. Only model-checked are the liveness properties `CallReturns`,
`ArrivedIsRead`, `EndOfInputEnds` and `WaitingIsServed`: liveness under fairness is
beyond the prover.

The proofs rest on the assumptions named in the modules: `PortsAssumption`,
`ProtocolAssumption`, `RingAssumption`, `WordsAssumption`, `ShellAssumption`,
`TransportAssumption` and `BridgeAssumption`. TLC evaluates them on the values of each run. `TransportAssumption` is
about the packets alone (they are made of bytes, and `getPacketLength` does not
wrap); what the line may do is in the actions.

## Not modelled

* The lengths of payloads: that a data length of 253 or more wraps
  `getPacketLength`, that a port packet is put together in 64 bytes, that the
  length of an array in an answer is a signed byte taken on trust. They are
  listed as hazards.
* The conversion of received data to values (`into`, `into_vec`) and their
  printing.
* The board's own timing, and its execution-context types other than the
  synchronous one.
* A `PACKET_ERROR` that carries `RESULT::OK`: no board is known to send one, and
  the code would then unwrap an empty optional.
* A damaged length byte that makes the host swallow packets behind the damaged
  one is seen in `Protocol` as damage and loss together.
* `inject` and `print` without their arguments, which read past the end of a
  vector.
* A `bind` or `listen` that fails: the bridge ends before anything happens.
* Logging; Windows variants of the device code; the class in `hal/Socket.cpp`,
  which is not built.
* `thirdparty/spdlog`, a vendored logging library. It is nine tenths of the lines
  of the source tree; of the repository's own lines the modules cover about
  a third, and much of the rest is declarations, logging, help texts and
  variants for other systems.

## What is left

* `PortData` could go on to the byte lengths of `send_inport_data`,
  `receive_outport_data` and `parse_port_profile`, with their widths.
* That `Protocol` needs no more of the line than `PacketLink` promises is argued
  above and not proved: its line is in bursts and has two directions.
