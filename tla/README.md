# Verification of the Ydle master

The Ydle master is a home-automation daemon. Nodes send sensor values over a 433
MHz radio; the master receives them, through a radio of its own or through an
Arduino gateway on a serial line, and posts them to a web interface, the IHM. The
other way round, the IHM asks the master's web server for commands, which go out
to the nodes and are acknowledged by them. This directory holds TLA+ models of
the parts where threads, radio, line and retries meet, the TLC runs that check
them, and proofs for every value of the constants where we have them.

Paths below are relative to the repository's root, here `src/`.

## 1. Inventory

| part | state | operations | talks to |
|---|---|---|---|
| IHM communication thread (`src/IhmCommunicationThread.cpp`, `misc/Thread.cpp`) | `ListCmd` under `listcmd_mutex`; locals of `ThreadAction` | `AddToListCmd` (run by protocol threads), `ThreadAction`, `putFrame` | protocols call it through `IProtocol::Notify`; it calls `NodesManager::GetNode`, `INode::GetData`, `RestBrowser::doPost` |
| Serial protocol (`plugins/serial-rf/serial-rf.cpp`, `.h`) | `mSendFrame`, `mHeaderOut`, `mDataOut`, `mSomething2Send`, `mWaitAck`, `mListMsg`, no lock | `SendMsg` (web thread), `Loop`, `ManageNewMsg`, `CheckACK` (its own thread) | the gateway, over the line; `Notify` |
| Gateway, serial end (`plugins/serial-rf/YdleSerial/serial.cpp`, `YdleSerial.ino`) | `mHeaderOut`, `mTabOut`, `mSomething2Send`, `mWaitAck`, input buffer | `SendBuf`, `Manager`, `Read`, `loop` | the master; the gateway's radio |
| Gateway, radio end (`plugins/serial-rf/YdleSerial/ydle.cpp`) | ring of two frames, receiver state, `frameToSend`, `transmission_on` | interrupt handler (`pll`, transmission), `receive`, `CancelLastReceive`, `send` | nodes; `loop` |
| GPIO radio protocol (`plugins/rf/protocolRF.cpp`) | `m_sendframe`, `m_FrameBits`, `mListACK`, receiver state, a recursive mutex | `SendMsg`, `transmit` (web thread), `listenSignal`, `pll`, `checkACK` (its own thread) | nodes; `Notify` |
| I2C radio protocol (`plugins/i2crf`) | `m_receivedframe`, `m_rx_done`, `m_sendframe`, no lock | `receive` (wiringPi's interrupt thread), `listenSignal` (its own), `SendMsg`, `transmit` (web thread) | an Arduino on the I2C bus; `Notify` |
| Node codecs (`plugins/node0.5`, `plugins/dht11`, `misc/Float.cpp`) | the values read last | `addData` (of both radio protocols), `GetData`, `ExtractData` | IHM thread |
| Nodes manager (`src/NodesManager.cpp`, `misc/Node.cpp`) | `_nodes`, `pProtocols`, set once by `Init` | `Init`, `GetNode`, `SendCmd` (to every protocol) | web server, IHM thread, protocols |
| Web server, request handler (`src/webServer.cpp`, `src/NodeRequestHandler.cpp`) | one `HTTPRequest` per connection; one thread | `HandleRequest`, `DispatchRequest`, `RequestCompleted`; `Run`: parameters, `SendCmd`, half a second of sleep | nodes manager, log |
| REST log destination (`src/restLoggerDestination.cpp`, `misc/logging.cpp`) | queue of lines and its mutex | `Write` (any thread), `run`, `Sending` | the IHM |
| Start-up (`src/master.cpp`, `src/Kernel.cpp`, `misc/Dir.cpp`, `misc/DynLoad.cpp`, `misc/SettingsParser.cpp`) | plugins, settings, protocols and features, set once | `main`, `Master::Master`, `Start`, `StartComm` | everything |
| `plugins/lua-scripts`, `lua1`, `titi` | a Lua interpreter | `Init`, `Run` of scripts; examples | `Kernel` |
| `plugins/serial-rf/rs232.cpp` | | third-party | |

What is hard in it, part by part, is the `hazards` list of `PROJECT.json`, each
entry at the line where it bites. In short:

* **Many threads, few locks.** The web server's thread runs `SendMsg` of each
  protocol, each protocol has a thread (I2C two), the IHM thread consumes their frames,
  and all of them log. The IHM list is locked; the serial and the I2C protocol lock
  nothing; the GPIO protocol locks the air but not the buffers it sends from, nor the
  list of commands that wait for an acknowledgement; the log's queue is locked, but its
  thread unlocks it whether or not it holds it.
* **Acknowledgements without names.** The serial line acknowledges "the last
  message", a node acknowledges "a command for me". Loss, delay and retries make
  these mean something else.
* **Retries** are counted in lists that two threads change.
* **Requests nobody foresaw** end the process, with all that runs in it.
* **Start-up order**: protocols run before anybody subscribed to them, a missing
  setting ends the process at some places and is passed over at others.
* **Two texts for one format**: what a node packs is read back by code written
  separately, with divisors and signs of its own.

What makes each part correct:

* IHM: every value of every decodable frame is posted, once, in order; the thread
  never takes from an empty list; nothing decodable is lost.
* Serial: what is aired was built by somebody; waiting for an acknowledgement
  ends; an acknowledgement believed is one that was meant; only commands wait for one.
* Receivers: what a node sends is what is handed over, whatever was heard before it;
  the receiver never indexes past its buffer and never stays inside a message.
* GPIO radio: one transmission at a time, none while a frame is handled; retries
  are bounded; `SendMsg` comes back.
* I2C radio: every frame is handed over whole and in order; its values are those
  the node packed.
* Commands: one request is one command to each protocol, answered once; none before
  the process is set up; a node has the plugin its settings say; what goes wrong is
  in the log.
* Log: every line that is written is posted once, in order.

## 2. Modules

```
IhmFeed                      what the IHM side promises (abstract)
IhmCommunication             the thread, its list, the subscription
  MCIhmCommunication           instance for TLC
  IhmCommunicationProofs       theorems
SerialLine                   the line and its messages
  SerialRF                     the master's end: two threads
  SerialGateway                the Arduino's end
    SerialLink                   both ends composed, properties, fairness
      MCSerialLink                 instance for TLC
      SerialLinkProofs             theorems
ProtocolRF                   the GPIO radio protocol: two threads
  MCProtocolRF                 instance for TLC
  ProtocolRFProofs             theorems
GatewayRadio                 the gateway's interrupt handler against its loop
  GatewayRadioProofs           theorems
RadioFrame                   a frame, its CRC and its half bits on the air
  Pll                          the receiver, sample by sample
    FrameReceiver                the receiver in front of nodes that transmit
      MCFrameReceiver              instances for TLC
      FrameReceiverProofs          theorems, of Pll too
NodeData                     what nodes pack and what the plugins read back
  I2CRF                        the I2C radio protocol: two readers and a writer
    MCI2CRF                      instance for TLC
    I2CRFProofs                  theorems
RestLog                      the log's queue, its writers and its thread
  RestLogProofs                theorems
  Kernel                       settings and plugins
    NodesManager                 the table of nodes, SendCmd
      WebServer                    from a request to SendCmd
        Master                       the process: start-up and threads
          MCMaster                     instance for TLC
          MasterProofs                 theorems (with RestLogProofs)
```

### IhmCommunication

`AddToListCmd`, `ReadSize`, `Pop` and `Reinsert` are the four critical sections of
`listcmd_mutex`; everything between them can be interleaved with arrivals. A frame
is named by its arrival number; what the thread can see of it is its sender, how
many values it carries and whether all have a known type. `GetData` is the outcome
of the plugin's method: a number of values, or `Blocks`, when `Node0_5::GetData`
meets a type it cannot skip and loops for ever. `DoPost` posts one value; whether
the IHM accepts is a nondeterministic choice the code never looks at. `Subscribe`
and `StartThread` are `Master::StartComm`; `NotifyNobody` is a frame that comes
before a protocol was subscribed to.

`IhmFeed` says the same without a thread: a sequence of arrivals, and a `Post` that
posts the earliest value owed. `ImplementsFeed` is the refinement, with `arrivals`
mapped to the outcome of each accepted frame.

### SerialLine, SerialRF, SerialGateway, SerialLink

A message on the line carries the CRC of one frame and the data of another, as
header and data are filled and written at different times. `Heard` is what a
reader can make of a message. The CRC covers the data only, and the type byte is only
asked to be a type (`serial-rf.cpp:44`): a message whose type byte is altered is taken for
an acknowledgement or a NOK, and an acknowledgement for a NOK or for a NORMAL message
with no data (`Empty`, whose CRC of nothing fits), which is acknowledged and, in the master, has
`ManageNewMsg` run again over the frame that was read before it. `genuine` and
`mistaken` are history: whether an acknowledgement was written for a frame that was read,
and whether what ended a wait was one of those. (Neither side of the code ever sends a NOK.)
The line may lose any message; a full one does. Left out: two altered bytes of one
message, data whose CRC-8 fits by accident, and data of a broken message
that stays in `mDataIn` or `mTabIn`.

`SerialRF` breaks `SendMsg` and `WriteMsg` into the steps at which the other thread
can interfere: the two halves of the `memcpy` into `mSendFrame`, the CRC, the copy
to `mDataOut`, the flag; and `Loop` into the reading of a message with its
acknowledgement, the building of an RF ACK (two halves), the lowering of the flag,
the writing of header and data, the timeout, and `CheckACK`. `SendMsg` looks at
`mSendFrame` three times, and the RF ACK can be built in it between any two: for the CRC, for the
type (`AskType`), and for the entry (`AddNew`). What is in `mListMsg` may then be an RF ACK, or half
of one. A frame is the pair of its address half and its data half; that a copy reads a mixture of
a third kind, halfway through a half, is left out. `sent` of an entry is kept although the code
never sets it: `CheckACK` is translated as it is written. The operations on
`mListMsg` are one step each: the race inside `std::list` is listed as a hazard.

`SerialGateway` has one thread; an action is one pass of `loop`: what `receive`
offers, `SendBuf`, then `Manager` with each outcome of `Read`.

Time is abstracted: a timeout may have elapsed whenever the code asks, but for one case.
The master's clock is milliseconds of an `int` of microseconds that wraps; `nearWrap` says that a
message was sent so close below the wrap that no later time exceeds `mTimeAck` by the
timeout. The timeout then cannot elapse.

### ProtocolRF

`transmit` is seven steps: `taille++` (`Size`), filling `m_FrameBits` (`Bits`), the
test of the type, the copy and the push on `mListACK` (`Push`, `Copy`, `PushBack`), the lock and first half of the transmission (`Air`), the second half
and the unlock (`AirEnd`). Both threads run it, with `m_sendframe` and
`m_FrameBits` shared and unprotected as in the code. The mutex is recursive: a
count and an owner. `Hear` is a sample that completes a frame; `CheckACK`,
`CheckDone`, `Retry` and `GiveUp` are the loop of `checkACK`, with the iterator `k`
moved as `erase` and `++` move it. A retry sends with `then = "next"`, an
acknowledgement with `then = "unlock"`. Between `Push` and `Copy` the listening thread may
put its own frame in `m_sendframe`, which is then what waits in `mListACK`. A step of `std::list`
is one step here too, and so is the copy of a frame: one that is half of each is left out.

### GatewayRadio

`TimerInterrupt` (`Start`, `Abandon`, `Complete` of a received message, and `Transmit`)
may run between any two steps of `Loop`; a received frame is its number and what loop
compares of it. `Receive` and `CheckCrc` are the beginning and the end of `receive`,
`SendBufHeader` and `SendBufCopy` the CRC and the `memcpy` of `SendBuf`: the handler may
overwrite the slot between any of them. A copy that changes halfway is told by a CRC that
does not fit. `Refused` is `SendBuf` returning false with `CancelLastReceive`. `Fill`
is the wait for `rx_active` and the filling of `frameToSend`, one step: while no
transmission is on nobody reads it meanwhile, and when one is `hist.overlap` says so.
`TransmissionOn` cuts a message that has begun since. A part stands for any piece of
`frameToSend`; parts it was not filled to are `Nothing`.

The line to the master is abstracted to the acknowledgement, which comes only for a
message the master can read; `SerialLink` is the detail of that.

### RadioFrame, Pll, FrameReceiver

`RadioFrame` is what `transmit` makes of a frame: `ComputeCrc` (`CrcTable` is the
table of `crc.cpp` by its polynomial), the bits in the order of `itob`, and the
half bits of `sendPair`.

`Pll` is `pll` as an operator from a receiver and a sample to a receiver, split as
the function is: `Ramp` and the sum of the samples, `HalfBit` when the ramp is full,
then `Collected` inside a message (`Shifted`, `BadSize`, `Whole`, `Completed`) or
`Sought` outside. `setDone(false)` of `listenSignal` is `Waiting`. The two copies of
`pll` are its two instances: `CountMod` is the width of `bit_count` (65536 stands for
the master's `int`, which no message can make wrap; 256 is the gateway's) and
`MaxSize` the limit in the length check (31 and 30). Left out: `sample_count` and
`t_start`, which only choose when the next sample is taken. The gateway tests the CRC
in `receive` instead of `pll`; frames without a bit error are the same to both. Its
`Spec` is the receiver in front of an arbitrary stream of samples.

`FrameReceiver` puts frames on the air in front of it. A step is one half bit of the
transmitter, eight calls of `pll`, or as much silence; `at` is the half bit that is next.
The first frame begins at any of the eight phases of the sampling. `Slip` is a half bit of
seven or nine samples; after one (`slip`) the two clocks agree for `SlipGap` half bits, 16 or
more, which is a drift of less than one percent. `Noise` is a pulse of one to seven samples while nobody sends,
`BreakOff` a node that stops anywhere in its frame. No code of the nodes is in the
repository: they are taken to send what `transmit` sends. `got` is the first frame handed
over since the last one began. Frames that begin while the receiver is inside a message
are swallowed by it, and so can be those that begin too soon after a start byte that broke off, of
which `rx_bits` still holds the beginning. `Delivered` is therefore about frames that begin
after `Pause` half bits of silence (`quiet`) with the receiver outside of a message, and are
not broken off themselves (`clean`).

### NodeData, I2CRF

`NodeData` has both texts of the format: `AddData` is `addData` (with `Packed` for a
whole frame: an item that does not fit is left out), `ExtractData` and `GetData` the
plugin of the node 0.5, `DhtGetData` and `Float16To32` that of the DHT11 with the
half-precision conversion of `misc/Float.cpp`. A value read is a fraction, as the code
divides by 20 or 40; a single is its sign, exponent and mantissa. `GetData` says whether
what it read is `sound`: at a type it does not know the code's loop makes no progress,
and an item cut by the end is completed from the bytes behind it. `ETAT` sets no value:
what is posted for it is the value of the item before, or an uninitialised float.
`ReadsAs` compares the two for a packet that is `Plain`: every value within the bits of its
type, and every item packed, as the length of the data after it shows.

`I2CRF` is the protocol around it. The device is external and assumed to do what the code
needs: it keeps the last frame in a register, raises a pin for it until it is read, and
another while its radio works. `Read`, `CopyHead` and `CopyData` are the steps of both
readers, on one `m_receivedframe`; `ReceiveNotify` and `ListenDone` hand over what is in
it at that moment. The `memcpy` takes as many bytes as the frame says it has: the end of
a frame longer than the 30 bytes read is `Garbage`. `Receive` and `Transmit` wait for the
pin of the radio. The mutex of `transmit` is unlocked and never locked, so it is not
there; `printFrame` and the bits of `itob`, which nobody reads, are left out.

### RestLog, Kernel, NodesManager, WebServer, Master

`RestLog` is `Write`, `run` and the filter by level. The queue is read at one step
and written at another (`found`), as a `std::queue` two threads are in is. `UnlockAnyway`
is the `unlock` after the loop, which `stray` remembers when it took the mutex from
a writer. `Sending` has the batch arrive or be lost, and the code does not look: lost are those of
a post that failed, of an error buffer or a handle of curl that could not be had, and of a body
that is no longer there when it is sent (`POSTFIELDS` is given a temporary string).

`Kernel` is what the process is made of: settings that are there or not, and plugins
that load or not, in any order `readdir` may give them. `NodesManager` is `Init` with the
exception it catches in the middle, and `SendCmd`, one `HandOn` for each protocol.
`WebServer` is what libmicrohttpd calls: several times for a request, from one thread, which
waits half a second in the handler. A URL is its names and how many slashes it has:
of more than one slash it is split, and there may be no first name (`Nameless`) or no second
(`NoAction`). `DispatchDies` and `ActionDies` are what the code then does, reading the
byte before NULL and making a string of NULL; `GetNodeDies` is a target outside of `_nodes`, when
what is there cannot be read. If it can, it is NULL or not (`IsNull`). What the code would do after
reading a pointer that leads nowhere is left at the end of the process. The target and the
parameter of a frame are the lowest byte of what was asked. Parameters are those
of the URL, as the form data of a body is kept where no handler looks for it. The branch for an
"unknown action" is for an empty name, which `strtok` never gives.

`Master` puts them in a process: the statements of `main` and of the constructor in
order (`SetUp`), each with what ends the process; then the web server's thread, the
thread of the log, and the IHM thread as far as it logs. A thread that logs is inside
`Write` until `Returned`. `SendMsg` of a protocol is the end of `HandOn`: what it does
there is `SerialLink`, `ProtocolRF` and `I2CRF`, what comes back from nodes
`IhmCommunication`. The debug lines of `Dump` are not modelled one by one, as at the
shipped level they do not reach the queue.

## 3. Runs

| run | instance | asks | result |
|---|---|---|---|
| `ihm` | 2 protocols, 3 nodes of different plugins, 3 frames of 6 kinds | `TypeOK`, `PopNeverEmpty`, `UnknownKeptForEver`, `KnownInOrder`, `ImplementsFeed` (with fairness) | hold |
| `ihm_reinsert` | the same | does a frame come back to the list when its post failed, as the comment at line 79 says? | no: `putFrame` ignores `doPost` |
| `serial_link` | commands, node frames and misread messages, 3 in all, or 1 command against an RF ACK built in the same buffers | `TypeOK`, `AiredWasBuilt`, `DownDelivered`, `UpDelivered`, `ErasedWasAired` | hold |
| `serial_acks` | 1 command, 1 node frame, misread messages, the clock near its wrap or not, fairness | `AckComes` | holds |
| `serial_retry` | the same, and a node that acknowledges | does a pending command ever leave `mListMsg`, as the comments of `CheckACK` say? | no: `sent_` is never set |
| `rf` | 2 commands, or 1 and 2 frames heard that ask for an acknowledgement, fairness | `TypeOK`, `AirExclusive`, `TrafficBounded`, `RetriesEnd`, `SendReturns` | hold |
| `rf_retry` | 2 commands, nothing heard | is a command on the air three times at most? | no: see below |
| `gateway_radio` | 3 frames received, with noise or not, 2 commands of 2 parts, fairness | `TypeOK`, `TakenInOrder`, `Readable`, `WholeOnAir`, `CommandCostsOneFrame`, `EveryFrameHandled`, `EveryCommandAired` | hold |
| `receiver` | 2 frames of 1, 3 or 31 bytes, 8 phases, 1 disturbance of a frame of 1 byte or of silence | `Bounded`, `MessageEnds`, `Delivered` | hold |
| `receiver_gateway` | 1 frame of 12 or 13 bytes, undisturbed, the gateway's widths | `Delivered` | no: a frame of 13 bytes never ends |
| `i2crf` | 1 frame of any of some 60 packets, or a long, a short and a long one and a command, fairness | `TypeOK`, `Delivered`, `EveryFrameNotified` | hold |
| `master` | 5 plugins, 4 entries, any one of 16 things missing; 2 requests, the first of 12 kinds; posts of the log that fail; fairness | `TypeOK`, `LinesInOrder`, `OneCommandPerAnswer`, `ServedWhenSetUp`, `FirstPluginWins`, `Answered`, `UnknownReported` | hold |

**Bounds.** `MaxFrames = 3` is the least with which a frame is popped, one is
waiting and one arrives; unknown, blocking and empty frames are all there.
`MaxLine = 2` lets an acknowledgement and a message, or two copies of a message,
be in flight; `MaxUp` and `Commands` give each end a second exchange after a first
with stale acknowledgements. `MaxEvents = 3` bounds commands, node frames and misread
messages together: two exchanges and one misread message, or one exchange and two. Where an RF ACK is built the line holds one message: the
race is inside the master. Two commands are the least that make `SendMsg` race with
the retry of another; two frames that ask for an acknowledgement the least that make
one meet the retry of another and a command at once.

In `gateway_radio` the third frame reuses the first slot of the ring and is the first
that can overrun it; the second command is the first that can overlap another; two parts
are the least a transmission can be left unfinished with.

Sizes 1, 3 and 31 are the smallest, one with bytes of data, and the largest; two
frames let whatever the first left in the receiver meet the second; one disturbance is
put at every half bit of the frame of one byte, and at every half bit of silence. The second
slip in a frame, for which `SlipGap` is there, and more than one disturbance are the
theorem's. `Pause = 4` is the least with which it holds: after a shorter one, the first half bit of the AGC
sequence can complete a start byte that broke off before its last three half bits. The size
is then read from the AGC sequence; as TLC finds from such a receiver with an arbitrary ramp, it
is mostly 0, and the message is given up in time, but can be 31 if that first half
bit is one sample long, and the frame is lost. This takes two disturbances, more than the run
has.

The instances whose specification is `MCSpec` bound the environment only, in a formula
named `Traffic`: which requests, frames and commands come, and with what else, never what
the code does with them.

In `i2crf` the packets hold the ends of every range and one value beyond them, items
that fill the frame and one too many, and half-precision numbers of every kind; three
frames, of which the second is shorter than the others, are the least that can leave the
end of an older one behind a newer, and be lost between two reads. In `master` a second
request is the first that can wait for the handler; the requests are of every method,
with parameters that are missing, nodes that are known, named twice or unknown, names that
are missing and a target outside of the table; the second asks for an unknown node or leaves a name
out; posts fail with one request; one
thing missing shows each way the start-up can end; the plugins come in two orders.

**Deadlock** is not checked: commands, frames, requests and arrivals are bounded, and
once they are used up a model may have nothing left to do; a process that died has nothing
either.

**Fairness.** *IHM*: main finishes `StartComm`, the thread is scheduled, each post
returns. The last is an assumption: `RestBrowser.cpp:139-149` sets no time limit.
*Serial*: every thread goes on (weak fairness); a message sent again and again is
heard in the end, and so is its acknowledgement, a timeout that the clock can show is seen in
the end (strong fairness, as losing a message does not disable them for good; near the wrap the clock
cannot show it, and nothing is assumed); altered type bytes, which only corruption makes, stop. *I2C*: the kernel runs both readers, and the device's radio comes to the end of a
frame. *Master*: every thread goes on (weak fairness), libmicrohttpd calls for each
connection, and a post of the log returns; clients come and go as they like. *GPIO*: the listening thread sleeps between samples
with the mutex free, so that a waiting web thread gets it (strong fairness of
`Transmit("web")`); an entry becomes late in the end. *Gateway*: `loop` and the timer go
on; a message that has begun ends (`EveryMessageEnds` is the proof, given samples); `send`
looks at `rx_active` between two messages in the end (strong fairness of `Fill`); the
master acknowledges a message it can read, which is sent again until then.

**Findings.**

* `ihm_reinsert`: `IhmCommunicationThread.cpp:123` against the comment at `:79`.
* `serial_retry`: `serial-rf.cpp:335` tests `sent_`, which `serial-rf.h:45` sets to
  false and nothing sets to true; the comments at `:322` and `:337` promise retries
  and removal.
* `rf_retry`: `checkACK` copies the entry it retries into `m_sendframe`
  (`protocolRF.cpp:918`) while the web thread is between its own copy (`:958`) and
  `push_back` (`:235`). The web thread then pushes, and sends, the retried command:
  it has two entries and is on the air more than three times, and the other command
  is never sent.
* `receiver_gateway`: `bit_count` of `ydle.cpp:106` has eight bits; it is 0 again after
  48 half bits of header and 16 for each of 13 bytes, before `ydle.cpp:563` finds the
  message whole. The comment at `:541` allows sizes up to 30 + 1, the test at `:542` up
  to 30.

**What the runs show that the code does not promise.** Some properties hold under
conditions the code does not ensure:

* `gateway_radio`: if three frames wait (`hist.overrun`), the oldest is lost, and if loop
  is in `SendBuf` just then the gateway sends, for ever, a message the master cannot read,
  and takes no more frames. If a command comes while the last one is being transmitted
  (`hist.overlap`), it is cut: `send` waits for `rx_active` only, not for
  `transmission_on`, although `ydle.cpp:410` speaks of the current transmission. And
  `Manager` returns for a command before it sends what `SendBuf` left: the next frame
  overwrites it (`CommandCostsOneFrame` bounds the loss).
* `serial_link`: `DownDelivered` and `UpDelivered` hold when nothing of an earlier exchange was on
  the line (`overlap`) and no message was misread (`mistaken`). A type byte altered on the way
  makes either end stop waiting for what the other never read.
* `serial_acks`: `AckComes` says nothing of a buffer whose header and data are of two frames, of one
  that was never filled (a NOK misread before the first message makes either end send what it does not
  have), nor of the time near the wrap (`nearWrap`). `serial-rf.cpp:250` subtracts two times of a
  clock that wraps (`IProtocol.h:32`) and does not allow for it, as `CheckTime` in `serial-rf.h:57` does: a
  message sent in the last half second before the wrap and lost is not sent again, and the master
  waits until something the gateway writes is taken for the acknowledgement.
* `rf`: `transmit` asks `m_sendframe` for its type (`protocolRF.cpp:229`) and copies it
  later (`:232`). An RF ACK the listening thread builds in between (`:741`) is what waits in `mListACK`
  and is retried, although the comment at `:228` speaks of commands; the command is not. The
  same happens to `SendMsg` of the serial protocol between `serial-rf.cpp:300` and `serial-rf.h:91`.
  The type invariants of `rf` and `serial_link` have such entries.
* `master`: lines keep their order until `run` releases the mutex of a writer (`stray`),
  which it can do whenever its `try_lock` fails; the comment before that `unlock`
  (`restLoggerDestination.cpp:55`) has it that the lock was taken. After that a line may
  be lost or doubled. If the settings of the nodes are
  incomplete the process serves all the same, and dies at the first command, as
  `pProtocols` was never set. With complete settings it dies too, of a URL of slashes only,
  of `/node/` and, as the memory happens to be, of a target that the table has no place for:
  `ServedWhenSetUp` says that it dies of nothing else. A node nobody knows gets its command and the request its
  "ok"; only the log says otherwise, and if the post with that line fails, nothing does.
* `i2crf`: frames are whole and in order as long as the interrupt and the listen thread do
  not read inside each other (`overlapped`), which nothing prevents; a frame can be
  handed over three times, and no more. Data beyond the 26 bytes that are read is whatever
  lay behind the buffer. `INode.h:18` gives temperatures a range of 204.7 degrees: twelve
  bits with a sign, divided by 20, are at most 102.35. A humidity is packed with a sign and
  read without.

## 4. Proofs

`IhmCommunicationProofs` proves, for any set of protocols, senders and frames and
any number of them, `TypeOK`, `PopNeverEmpty`, `UnknownKeptForEver`,
`KnownInOrder`, and that every step implements a step of `IhmFeed` or changes
nothing it sees (`ImplementsFeedSafety`).

The inductive invariant `IInv` joins these with `Progress`: `PopNeverEmpty` alone is
not inductive, since between two pops the thread is elsewhere; `Progress` says that
after the frame in hand there are still `size - i - 1` frames in the list.
The refinement needs `Frontier` as well: the frames that left the thread were
posted whole, the one in hand up to `index`, and those behind not at all. With
`KnownInOrder` this makes the value `DoPost` posts the least one owed.

`ProtocolRFProofs` proves `TypeOK`, `AirExclusive` and `TrafficBounded` of `ProtocolRF`, for
any commands, nodes and number of frames heard. `AirExclusive` is not inductive: it says
nothing of how often the mutex is held, and an `Unlock` too many would give it away.
`Owned` says who owns it and how often at each place of the two threads (twice only
while the listening thread transmits for a frame it handles), and `Returns` that
`transmit`, called from `checkACK`, goes back there, so that nothing is unlocked that
`listenSignal` did not lock. `Filled` says of which frames the buffers and the copy between `Copy` and
`PushBack` can be. `TrafficBounded` says nothing of the transmissions that are
still to come, so `Budget` pays for them in advance: a command sent and an acknowledgement
built buy three each, spent on those made, those the threads have begun (`Owed`) and the
retries the entries of `mListACK` have left (`Left`, a set of pairs, so that its cardinality
is the sum). It does not matter whose frame a thread finds in `m_sendframe`, which is why
the bound holds although `rf_retry` shows one command on the air too often.

`FrameReceiverProofs` proves `Bounded` and `MessageEnds` of `Pll` for any stream of samples
and any width of `bit_count` of at least eight bits and limit on the size up to 31, hence
for both copies of the code. The invariant `Sound` adds to the types that eleven times
the sum never exceeds the ramp (each sample adds at least 11 to it), and `Within`:
inside a message past its header the size is within its limits, the count has not
got to its end, and `length_ok` is set after the first half bit of data. The last is
what makes the test for the end, which asks for `length_ok`, fire in time.

It then proves `Delivered` of `FrameReceiver` (`FramesDelivered`): for any frames, any number
of them and of disturbances, and any `SlipGap` of at least 16. Two hypotheses are in the theorem: `CountFits`,
that `bit_count` can count the half bits of each frame (the master's can; the gateway's
cannot count 13 bytes, which is the finding of `receiver_gateway`), and `Pause >= 4`.
The argument, which is the design of `pll` put into an invariant (`OnAir`):

* *Two views of one receiver.* `View` leaves out the clock (ramp, sum, last sample), on which nothing else
  depends (`HalfBitView`, `OneSample`). When a half bit of the node ends, the receiver's own may be
  decided already, or be pending with all its samples taken; `Due` is the receiver with
  it decided. What is known about a frame is said of `Due`, and where the ramp is is said apart.
* *The clock.* `Off` is how far the ramp is from the transition, from either side. After
  every half bit of seven to nine samples `Clock` holds, that what the sum holds
  agrees with the last level. A transition brings the ramp nine nearer until it is within eight
  (`Turn`), a half bit without one leaves it (`Hold`), a short or long one puts it back
  by 20 at the most (`ShortTurn`, `LongTurn`, `SlipHold`). `Locks` adds this up: Manchester
  pairs have a transition in one half bit of two at least, so that 17 half bits after a
  slip, and in any case after the AGC sequence, the receiver is in step. Within 28 it
  hears every half bit as it was sent (`Heard`); before, in the AGC sequence, it may miss
  one, take it for 0 or hear a 0 too many (`Caught`).
* *The start byte.* Whatever the ramp makes of the AGC sequence, no two 1s follow each
  other (`NoPair`), so that it completes no start byte, after a pause of which `rx_bits` has
  forgotten what was before (`Quiet`, `Begun`). Then `Spelt` follows `rx_bits` half bit by half bit: only the sixteenth
  of the start byte makes the pattern.
* *The message.* `Collecting` says that `m` half bits of it have left the first bits of each
  byte in their places (`First`) and nothing anywhere else, which needs `Idle`, that a
  receiver outside of a message has forgotten the last one; `CollectingLast` that the last one hands the
  frame over with the CRC that `ComputeCrc` gives. It may be pending when the frame is over, and comes
  with the next eight samples, silent or noisy (`Over`, `Finishes`).

What `HalfBits` sends (`HalfBitsIs`, from `FrameBitsIs`) and that the CRC is a byte are lemmas
about the operators. `AirBounded` and `AirMessageEnds` are `Bounded` and `MessageEnds` for the
same system.

`GatewayRadioProofs` proves the five safety properties of `GatewayRadio`, for any
commands, any number of parts and of frames. The invariant has four parts. `ReadInv`: the ring
holds the last two frames, each in the slot of its number, and, while nothing was overrun,
what loop reads at each of its steps is the frame it thinks it reads. `AirInv`: while nothing
overlapped, the part of `frameToSend` that went out is the beginning of one command.
`CostInv` is an accounting that `CommandCostsOneFrame` lacks: the frames lost, and one
more if a frame waits while loop is busy with a command, are at most the commands given.

`SerialLinkProofs` proves the four safety properties and the action property of
`SerialLink`, for any commands, nodes, frames and length of the line. None is inductive:
what is believed when an acknowledgement arrives depends on what was in flight when it
was written. `DownInv` and `UpInv` say what the two lines may hold while no exchange
overlapped another, and that an acknowledgement among it that is genuine is of the last frame;
`BuiltInv` that every CRC in a buffer or on the line is that of
something `mSendFrame` once was, with `MasterFresh` for the time before the first message,
when the buffers hold none; `NodeAckInv` that a node's ACK on its way up has a command that was
aired, from which `ErasedCommandsAired` follows. That no entry ever has `sent` set, the finding of
`serial_retry`, is part of the types.

`RestLogProofs` proves the types and `LinesInOrder` of the log destination, for any
threads and lines; `LinesInOrder` needs `Exclusive`, that the mutex keeps one thread in the
queue as long as it was never stolen, and that this thread found the queue as it still is.
`MasterProofs` proves that the process implements the log destination
(`MasterLogsAsRestLog`, a refinement with the variables of the same names: whatever a
thread says is among `Texts`, and nothing but `Log` and `run` touches the queue), so that
`LinesInOrder` holds of it for any plugins, settings and requests; and
`ServedWhenSetUp`, from how far the start-up is (`StartedInOrder`), what cannot
have happened before the server is up (`ServesLate`), and `DeathOK`, that whoever is in
`Run` asks for a node and that the connection in hand when the process dies is still the one it
died of.

Three more theorems are about commands and nodes. `MasterTypeCorrect` needs what is loaded to
be what plugin files register (`LoadedOK`), the connection that is served to have begun and not to have
been answered (`ConnsOK`), and a command in hand to be within the list of protocols
(`CommandOK`). `MasterGivesEachOnce` is `OneCommandPerAnswer`; it needs `Distinct`, that no
protocol is loaded twice, and `GivenOK`, which says for each protocol exactly what it was
given: the connections answered, and the one in hand if `SendCmd` has passed that protocol.
`MasterFirstPluginWins` is `FirstPluginWins`, from `TableOK`, the same for as much of
the settings as `Init` has read, with `LineComes` for the line that is on its way through `Write`.

`I2CRFProofs` proves `TypeOK` and `Delivered` of `I2CRF`, for any packets, commands, garbage
and number of frames. `Delivered` has two halves.

* *The values* (`Decoded`). `ReadsBack` is the round trip between the two texts of the format:
  whatever a node packs, any number of items of any type in range, or any pair of
  words of a DHT11, `GetData` of its plugin reads as that. `ItemRead` is the round trip of
  one item wherever it lies in the data, `PackedPrefix` that later items leave earlier ones
  alone, `PacketReads` goes through the turns of the loop, and `SameFloat` is the half-precision
  conversion, zero, subnormals, infinities and normal numbers. `FrameInv` ties it to the protocol: what is
  handed over has the length of the packet its head is from and the bytes of the
  packet its body is from.
* *The order* (`WholeAndInOrder`). While nothing overlapped, one reader at most
  holds a frame and what it copied is in `m_receivedframe` (`OneHolds`, `CopiedInv`); what was
  handed over is not newer than what is held, nor that than the register (`OrderInv`). That a
  frame comes three times at most is not inductive, as nothing in it says that no fourth is coming.
  `BudgetInv` counts what may still bring it: the pending interrupt, the one that is being served,
  the pin the listen thread sees, and the readers that hold it. The sum of these
  and of the times it came never exceeds three.

What recursive functions compute (`Packing`, the turns of `GetData`, `GivenTo`, `After`, `Crc8`) is proved by a
least-number argument: `SetInduction`, an instance of the well-foundedness of `<` on a set of
numbers, applied to the set where a statement holds. It needs no induction theorem
with an operator for a parameter, and that such a function exists is proved the same way.

Only assumptions on the constants are used, those named in the modules, and TLC evaluates
each on the instances. The ones the proofs of the process and of the I2C protocol rest on:
`NamesAssumption` (`Kernel`: no protocol is registered twice, by one plugin file or two, as is
so of those in the repository), `NoPluginAssumption` (`NodesManager`: the value of a node without a
plugin is the name of none), `RequestsAssumption` (`WebServer`: a URL has no more names than slashes, and the numbers
of its parameters are integers), `EntriesAssumption` (`NodesManager`: the settings name nodes the table has a
place for), `BoundsAssumption` (`I2CRF`: the bounds are numbers, the garbage bytes) and
`PacketsAssumption` (`I2CRF`: the data of a packet is what its node packs of its items, which
are of the eight types of `INode.h`, or two words of sixteen bits for a DHT11; the values are any
integers). Those of the receiver: `CountModAssumption` and `MaxSizeAssumption` (`Pll`: at least eight
bits to count with, a size of at most 31, as `m_data` is that long), `FramesAssumption` (`FrameReceiver`:
a frame is of bytes, a type has three bits, and `taille` is what the receiver lets through),
`SlipGapAssumption` and `PauseAssumption` (how steady the clocks are, and that a pause is not nothing). `Spec` has no bound on the traffic beyond the constants: what `MCSpec` leaves to the
environment's formula is open there.

Model-checked only:

* liveness (`ImplementsFeed` with fairness, `AckComes`, `RetriesEnd`, `SendReturns`,
  `EveryFrameHandled`, `EveryCommandAired`, `Answered`, `UnknownReported`,
  `EveryFrameNotified`): out of the prover's reach;
* what the runs with a violation show, which are counterexamples.

## 5. Not modelled, and why

* `rs232.cpp` and the curl and libmicrohttpd libraries: third-party code; what the
  master sees of them is in the models (a line that loses and alters messages, posts that
  fail, calls that come again).
* The Lua feature (`plugins/lua-scripts`): work in progress, as `ydle.conf:63` says. That it
  is loaded, set up and started is in `Master`; its state is in the interpreter, and what it
  does in scripts. `lua1` and `titi` are examples.
* Handlers for static files and the default handler of the web server: `main` registers
  none.
* `Float32To16`, which nobody calls.
* Wording: log texts, JSON, URLs beyond their names and slashes, numbers parsed from parameters.
* Settings that give a plugin to a number outside of `_nodes`: `Init` writes there as well
  (`NodesManager.cpp:37`), and what it overwrites is not in the model. The settings are the owner's, unlike
  the requests.
* Strings that share their characters: the `strtok` of `DispatchRequest` writes into a copy of
  the URL, and a library whose strings are copied on write would have it cut the URL of the
  request itself.
* Memory: objects that are never freed (a response and a writer for each request, the error
  buffer of a post that could not begin), and what a `std::list` or `std::map` torn by two
  threads does. Their operations are one step each.
* Clocks: a timeout may have elapsed whenever the code asks, which includes the wrapping
  of its counters; that it may never elapse is modelled where one subtraction decides it
  (`serial-rf.cpp:250`).
* A post that never returns (`RestBrowser.cpp:139`): the code has no way out of it, so
  that it is an assumption of the fairness and not a property.

## 6. Plan

All that was planned is done: the IHM side, the serial link, the GPIO and I2C protocols, the
receivers, the gateway's radio, the codecs, the process from its start to commands and
log, and the theorems of each. Every safety invariant and action property a passing run checks is
a theorem. What would add to the project: `UpDelivered` and `DownDelivered` composed with
the gateway's radio; and the protocols' `SendMsg` in the place of the end of `HandOn`.
