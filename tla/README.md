# Formal models of the MCP2517FD USB-CAN adapter

TLA+ models, TLC runs and TLAPS proofs for the firmware in `src/main` (an ESP32
that drives a Microchip MCP2517FD over SPI and speaks a packet protocol over
USB) and for the host program `src/tools/pcan_view_gui.py`. Every definition is
translated from the code; `PROJECT.json` names, for each of them, the file and
the lines it stands for. Line numbers below are those of the same commit.

    tlc -workers 2 -config CanTasksRx.cfg MCCanTasks      # one run
    tlapm CanTasksProofs.tla                              # one module of proofs

## 1. Inventory

### The system

```
 CAN bus            MCP2517FD              ESP32                                host
 ------->  RX FIFO 1 (22) --SPI--> canfd_rx_task --usb_comm_write--> ring --> _rx_worker --> list
 <-------  TX FIFO 2 (6)  <--SPI--      ^    s_tx_queue (128)                     |
           OPMOD, registers             |        ^                               v
               INT pin --- GPIO edge ---+   usb_cmd_task <-- proto_parse_byte <-- _send_cmd
                                            (control commands: SPI under s_spi_mutex)  ^
                                        monitor task: get_diag                         |
                                                          main, cyclic, burst threads -+
```

* A received frame: the controller stores it in RX FIFO 1 and pulls INT low; the
  GPIO interrupt notifies `canfd_rx_task`, which drains the FIFO transfer by
  transfer under `s_spi_mutex`, serialises every frame into `usb_batch_buf` and
  writes the batch with `usb_comm_write` into the ring buffer of the USB driver.
  The host's receive thread reads the port in pieces and cuts them into packets.
* A transmit command: a thread of the host numbers and writes a packet in
  `_send_cmd`; `usb_cmd_task` parses it byte by byte, puts it in `s_tx_queue`,
  notifies `canfd_rx_task` and answers ACK or NACK. `canfd_rx_task` moves it to
  TX FIFO 2 and writes TX_CONFIRM.
* A control command (`SET_MODE`, `SET_BITRATE`, `SET_FILTER`, `BUS_CONTROL`):
  `usb_cmd_task` holds `s_spi_mutex` while it takes the controller through
  Configuration mode, polling its mode up to 50 times.

### Components

| component | state | operations | hard about it | correct when |
|---|---|---|---|---|
| CAN tasks (`can_tasks.c`) | `usb_batch_buf`, `s_tx_queue`, task notification, place in the loops, overflow count | interrupt, drain loop, batch and flush, transmit queue, watchdog yield, TX_FRAME, control commands, monitor | three tasks and an interrupt; mutex timeouts of 10 and 100 ms; wake-ups that coalesce | no frame stranded, lost by software, repeated or reordered; each command confirmed once and truthfully; batch stays in its buffer |
| Frame transfers (`mcp2517fd.c:505-700`) | RX FIFO 1, TX FIFO 2, RXOVIF, TXABT/TXERR | receive, transmit | several SPI transfers per operation, each may fail; the bus goes on meanwhile | a loss stays flagged until it is counted; a refused command left nothing behind |
| Initialisation and control (`mcp2517fd.c:116-420, 740-930`) | OPMOD, REQOP, timing, filters; `s_current_mode`, `s_current_*_bps` | init, request_mode, set_mode, set_bitrate, set_filter, bus_control | the controller answers in its own time, perhaps after the driver gave up | what the driver remembers is what the controller does; registers are written in Configuration mode only |
| Packet parser (`usb_protocol.c`) | `s_parse_state`, `s_rx_packet`, `s_payload_idx` | one byte at a time | cut packets, lost bytes, noise; no timeout and no reset | stays in its buffer, hands over only what was sent, finds its way back |
| USB link (`usb_comm.c`, `_rx_worker`) | driver buffers, `in_buf` | `usb_comm_write` of several tasks, read and scan on the host | no lock between writers, partial writes, giving up after three tries, two ports | nothing invented, repeated, reordered; independent of how reads cut the stream; writers come back |
| Host session (`pcan_view_gui.py`) | `running`, `ser`, `seq_num`, `cyclic_tx_running`, `last_sent_time`, two locks | connect, disconnect, receive, cyclic and burst threads, refresh timer, dialogs | threads of an earlier connection, idle calls that come late, locks held across dialogs | numbers in order, port not closed under a writer, period kept, threads end |
| Frame contents and filters (`mcp2517fd.c:21-44, 552-660, 879-910`) | slots of both FIFOs in the RAM, filter registers | pack, unpack, write and read a message object, set a filter | shifts and length codes at their boundaries; slots keep the bytes of earlier frames; the bits of extended filters | a frame is sent as asked and shown as it was; a filter selects what it says |
| Bit timing (`mcp2517fd.c:337-361, 727-817`) | none | two tables, one copy in init | values computed by hand | the controller runs at the rate the table is asked for |
| Counters and diagnostics (`can_tasks.c:37, 263-317`, `mcp2517fd.c:679-725`) | success counters, BDIAG1, local diags | increment, RESET_STATS, get_diag of two tasks | both readers clear the same register; an increment is no single step; ignored timeouts | no error lost, counters exact, display settles |
| Host message table (`pcan_view_gui.py:815-1173`) | `messages`, marks, counters, tree | update in batches, refresh in portions of 60, clear, pause, rate | the refresh clears marks before it shows, and shows a part | rows tell the frames, the display follows |
| CAN tracker | table, counters | add, print | nothing calls it | *not modelled* |
| Self test, build files, `pytest_blink.py` | – | – | – | *not modelled: diagnostics nothing calls, build options, a leftover template test* |

`PROJECT.json` lists 40 hazards of this code at their lines, with the properties
that cover them, or why none does.

## 2. Modules

| module | what it is |
|---|---|
| `FrameRelay` | abstract specification of the receive path: frames enter in order or are lost at the door, and leave in order, in groups |
| `CommandRelay` | abstract specification of the transmit path: commands are taken in or refused, answered, sent or dropped in their order, and confirmed in their order; one kind of fault puts a stale object in the place of one |
| `CanTasks` | CAN tasks, frame transfers, interrupt, SPI mutex, SPI faults |
| `BitTiming` | the tables of the bit timing for both oscillators, and what the controller makes of them |
| `DriverControl` | initialisation and control commands against the controller's modes; extends `BitTiming` |
| `FrameCodec` | identifiers, flags and lengths in the four representations of a frame |
| `FramePath` | contents of frames through the slots of both FIFOs, and acceptance filters; extends `FrameCodec` |
| `Diagnostics` | success counters, error register, BUS_DIAG messages |
| `Crc` | `proto_crc16`, CRC-16/CCITT, as a fold over bytes |
| `PacketParser` | the device's parser on a damaged stream |
| `UsbLink` | `usb_comm_write` of several tasks, two ports, the host's scanner |
| `HostSession` | threads, locks and flags of the host program |
| `HostTable` | the host's table of received messages and its display |
| `MCCanTasks`, `MCDriverControl`, `MCFramePath`, `MCDiagnostics`, `MCPacketParser`, `MCUsbLink`, `MCHostTable` | constants for TLC |
| `CanTasksProofs`, `DriverControlProofs`, `FramePathProofs`, `DiagnosticsProofs`, `PacketParserProofs`, `UsbLinkProofs`, `HostSessionProofs`, `HostTableProofs` | theorems about the module of that name |

The modules meet at these seams. `CanTasks` sees a control command as "takes the
mutex, perhaps aborts what is in the TX FIFO, gives it back"; `DriverControl`
models what it does to the controller meanwhile. `CanTasks` sees
`usb_comm_write` as a write that is taken or refused as a whole; `UsbLink` models
it byte by byte. `UsbLink` and `PacketParser` are the two directions of the same
packet format; both use `Crc` in their runs. `HostSession` models who writes
packets in which order; what becomes of their bytes is `PacketParser`'s. In
`CanTasks` a frame is a number; what it says is in `FramePath`, where each hop is
one step. `DriverControl` models when a filter may be written, `FramePath` what is
written. `CanTasks` sees `mcp2517fd_get_diag` as somebody who holds the mutex;
`Diagnostics` models what it reads and clears, and sees the frames as somebody who
holds the mutex. `HostTable` begins where the receive thread of `HostSession` and
`UsbLink` hands over a batch.

Definitions whose comment begins "A bug:" are variants of the definition after
them with a plausible mistake. They are no part of any specification: each shows
that a property can tell the code from the mistake.

### CanTasks

One step per SPI transfer, because the other tasks and the bus go on between two
transfers.

| code | model |
|---|---|
| RX FIFO 1, RXOVIF, slot 0 of its RAM | `rxFifo`, `rxovif`, `rxSlot0` |
| TX FIFO 2, TXABT or TXERR; its RAM and the slot of its user address | `txFifo`, `txFlag`, `aborted`; `txRam`, `txNext` |
| falling edge of INT; `ulTaskNotifyTake` | `edge`, `notify`; `Arrive`, `Isr`, `RxWake`, `RxTimeout` |
| `s_spi_mutex` and its timeouts | `mutex`; `RxTake`/`RxTakeTimeout`, `TxTake`/`TxTakeTimeout`, `CtlTake`/`CtlTakeTimeout` |
| `mcp2517fd_receive_frame` | `RxStatus`, `RxClear`, `RxRead`, `RxUinc` |
| batch, spill, chunk, final flush | `batch`, `batchLen`, `hand`; `RxAppend`, `RxSpill`, `RxChunk`, `RxFlush`, `SendBatch` |
| the loop over `s_tx_queue`, `mcp2517fd_transmit_frame`, TX_CONFIRM | `TxPop`, `TxNone`, `TxStatus`, `TxReset`, `TxRoom`, `TxWrite`, `TxConfirm` |
| `usb_cmd_task`, TX_FRAME | `UsbTxFrame`, `UsbNotify`, `UsbAck` |
| control commands; `mcp2517fd_get_diag` of the monitor and of GET_DIAG | `UsbControl`, `Ctl*`; `DiagTake`, `DiagGive` |
| results of `usb_comm_write` that nobody looks at | `LinkRefuses`: `SendBatch`, `Reply` ("lost") |
| `mcp2517fd_read8` and `read32` returning 0 on an error, ignored results of `write8` | `RxExitFault` ... `TxAddressFault` |

Abstractions: a frame is its number on the bus, a command its number, so that
order and identity can be stated; an object in the RAM that is neither of those is
`Foreign` on the receive side and 0 on the other. Entering Configuration mode with ABAT
raises the flag of the TX FIFO and takes the request to send from its frames
(`aborted`): they stay in it, unsent, until the next transmit resets the FIFO, or, where
that FRESET is lost, asks for all of them again with its TXREQ. That the RX FIFO keeps
its frames over a mode change is an assumption about the controller. An SPI
transfer that fails reads as 0 (a status also as 0xFF, without an error); left out is
a status read as 0xFF after a FRESET that was lost too, with the FIFO full, where the
code writes to a full FIFO. `hostRx`, `dropped`, `arrived`, `lost`, `onBus`, `ack`,
`conf` are what the two ends see, or histories of it: "lost" in the last two is an
answer the link refused. `owed` and `stray` are histories that name two places where
the code does not do what one would wish: a loss that RXOVIF has still to tell (all
losses but those between the count and the clear, `mcp2517fd.c:525-528`), and that a
failed read of the user address has queued a stale object (`mcp2517fd.c:618`). The
success counters are in `Diagnostics`.

### DriverControl

`opmod` is changed only by the controller (`ChipSwitch`), at any time after
`reqop` differs from it, or never. `request_mode` is `ReadMode`, `RequestConfig`,
`ConfigPoll`, `RequestGoal`, `GoalPoll`; the commands are `Start`, `Refuse`,
`Entered`, `WriteRegisters`, `FinishWrite`, `FinishMode`; initialisation is
`InitPoll`, `InitRefused`, `InitProgram`, `FinishInit`. Three histories say
what may be expected: `clean`, no request is pending besides the one the driver waits
for (a timeout makes it false, the next request that is answered makes it true);
`asked`, the mode the host chose, or Config when a timeout left that unsure; `rated`,
the rates were last written while `clean`. A register write outside
Configuration mode has no effect, as the data sheet, and the comments at
`mcp2517fd.c:838-842`, say. The timing registers are written in one step, and
SPI transfers do not fail here. `timing` holds the register values of `BitTiming`;
whether they stand for a rate is asked of `Runs`, the controller's arithmetic.

### FramePath and FrameCodec

| code | model |
|---|---|
| `canfd_frame_t`, payload of TX_FRAME and of RX_FRAME, message object | records of `HostPack`, `ParseTxFrame`, `SerializeRx`, `HostUnpack`; `txObj`, `rxObj` |
| `idf`, `raw_id`, flags words | numbers; `PackId`, `UnpackId`, `ObjectFlags`, `Decode`, shifts as products and quotients |
| `s_dlc_to_len`, `len_to_dlc` | functions of the same names |
| RAM of the FIFOs; CiFIFOUA | `txRam`, `rxRam`; `txNext`, `rxNext`, `TxSlot` |
| `write_len` and `tx_buf` | `WriteObject`: whole words of data, zeros behind the data; the rest of the slot stays |
| `mcp2517fd_set_filter` | `FilterRegisters`, `SetFilter`; `intents` remembers the command |

What the controller does with an object (`OnBus`) and a filter (`Passes`) is
external and follows its data sheet. A data byte is a pair of the frame it belongs
to and its index. The filter index and the time stamps are left out, as is a SPI
fault, which `CanTasks` has.

### Diagnostics

An increment of a success counter is `Load` and `Store`; RESET_STATS is `ResetRx`
and `ResetTx`. `mcp2517fd_get_diag` is `Take` (which reads the error counters),
`ReadBdiag`, `ClearBdiag`, for the monitor and for GET_DIAG; `TakeTimeout` leaves
the diag as it was, zeros or the last one. CiBDIAG1 is a set of flags and whether
its message counter is not 0, because get_diag compares the whole register. The
numbers of the error counters are abstracted to the level of the transmitter, which
is what the host shows. `WriteTaken` and `WriteRefused` are the two results of
`usb_comm_write`; with the first the host's display changes, and with the second the
flags the message tells of are noted in `gone`: the register is clear already.

### HostTable

`ProcessRxBatch` is `_process_rx_batch`, one step because `msg_lock` is held;
`Collect` is the refresh inside the lock, `Show` what it does after it; the other
timers and buttons run in the same thread and wait for `Show`. A frame is an
identifier and a kind; its data is its number, so that a row tells which frame it
shows. The loops of both are folds over the batch, the rows in the order of the
dictionary, and the items. Time stamps, the cycle time and the log file are left out.

### PacketParser

The stream is what the host writes: packets, cut off anywhere (`Damage`), with
bytes lost, and with noise between packets. `proto_parse_byte` is one action per
case of its switch. The buffer is a function on `0..MaxPayload - 1`, so a write
past it would be an error. `whole`, `streak`, `hunting` are histories used by the
properties.

### UsbLink

A task is in `usb_comm_write` at `pc[t]`: the loop over
`usb_serial_jtag_write_bytes` ("jtag") or the fallback to the UART ("check",
"put", "blocked"). `connected` may change once under way. With `Partial` TRUE the
driver may take what it has room for; the code's loop is written for that, so the
model allows it. The host peeks (`in_waiting`) and reads in two steps; `Scan` is
the loop over `in_buf`, a recursive function over positions, and `Look` one turn of
it. What it finds goes to `taken` by the code's test for a frame, command and length
(`Kind`); `MinFrame` is the shortest frame, 16 in the code and 2 in the run, whose
payloads are short. `done` is the history of the packets the host's port took whole,
`wire` that of all its bytes, and `torn` says that one was cut short or two were mixed.

### HostSession

`main` is the stack of handlers of the GUI thread: a modal dialog runs the event
loop inside a handler, and timers and idle calls run inside the dialog. Threads
are `rx[n]` per connection, `cyc[k]` per cyclic transmitter, and one burst. The
two locks are not variables: who is inside says whether they are free
(`TxLockFree`, `ListLockFree`). The refresh timer leaves a trace only when it has
to wait. `Edit` clears the list, or puts a frame in it: a new `TransmitFrame`, whose
`last_sent_time` is 0, so that it is due at once; `first` notes when a transmitter took
it first. `msg_lock`, the table of the list and the log file are left out.

## 3. Runs

### What each run checks

| run | configuration | properties |
|---|---|---|
| `rx` | `CanTasksRx.cfg` | `MutexExcludes`, `NoLostWakeup`, `BatchSafe`, `LossCounted`, `NotOvercounted`, `FramesConserved`, the refinement `RelaysFrames` of `FrameRelay`, and under fairness `EveryFrameLeaves`, `EveryCommandConfirmed` |
| `tx` | `CanTasksTx.cfg` | `RetrySafe` and the refinement `RelaysCommands` of `CommandRelay`, when any one SPI transfer may fail |
| `confirm` | `CanTasksConfirm.cfg` | `ConfirmMeansSent`: violated, see 5 |
| `control` | `DriverControl.cfg` | `ModeAgreement`, `WritesInConfig`, `RatesAgree`, `ModeKept`, `ThroughConfig`, `CommandAnswered` |
| `path` | `FramePath.cfg` | `SentAsAsked`, `OwnBytes`, `ShownAsReceived`, `FiltersAndRings` |
| `filter` | `FrameFilter.cfg` | `ExactMatch`: violated |
| `diag` | `Diagnostics.cfg` | `NoErrorLost`, `CountsExact`, `Settles` |
| `parser` | `PacketParser.cfg` | `TypeOK`, `OnlySent`, `WholeDelivered`, `Recovers` |
| `link` | `UsbLink.cfg` | `LinkOK`, `Authentic`, `CleanArrives`, `WritesReturn` |
| `session` | `HostSession.cfg` | `SessionOK`, `CyclicRate`, `PortStaysOpen`, `ThreadsEnd`, `PullNoticed` |
| `refresh` | `HostRefresh.cfg` | `RefreshGoesOn`: violated |
| `table` | `HostTable.cfg` | `TableOK`, `DisplayFollows`, `CatchesUp` |

`NoLostWakeup`, `BatchSafe`, `LinkOK`, `SessionOK`, `TableOK` and `FiltersAndRings` are
conjunctions of named parts; in the last four the type invariant of their module is
one of them. `TypeOK` of `CanTasks`, `DriverControl` and `Diagnostics` is proved (4) and
not part of a run.

### What the runs show

* **Receive path.** However the drain loop, the bus, a transmit and a control
  command interleave, each frame the FIFO took is at exactly one place, and the
  host sees the frames in the order of the bus, none twice (without SPI faults).
  A frame that arrives after the last look at the FIFO leaves an edge or a
  notification. Of a loss the overflow flag tells until it is counted, except where it
  falls between the count and the clear, which are different transfers: the code
  clears that one uncounted. No loss is counted twice all the same.
* **Transmit path.** Each command is answered before the next one is looked at;
  those taken in are sent in their order, none twice, and confirmed in their order,
  once each. A command whose NACK or confirmation says it failed has no frame in the
  queue, in the FIFO or on the bus, so that the host may send it again. All this also
  with a failed transfer, but for one: after a failed read of the user address an
  earlier command may go out twice and a confirmed one not at all (see 5). A command
  confirmed with OK may still be dropped (see 5), and the answer and the
  confirmation are gone where the link refuses them.
* **Liveness.** The drain loop may end early because a control command kept the
  mutex, and then INT stays low and no edge comes; the 10 ms timeout of
  `ulTaskNotifyTake` is what brings the frames out (without it
  `EveryFrameLeaves` fails). A transmit that times out is confirmed as busy. Both say that
  what came is gone in the end once nothing more comes.
* **Control.** As long as no request times out, the remembered mode is that of the
  controller, which runs at the remembered rates; registers are written in
  Configuration mode only, and a change of rate or filter keeps the mode the host
  chose. Every entry of the tables gives the rate it is listed under, a sample
  point between 75 and 82 % and a delay compensation at the sample point.
* **Frames.** A frame on the bus has the identifier and the kind of its command, and
  the host reads what was on the bus. Bytes of an earlier frame in the same slot get
  on the bus only where the length code stands for more than the words that are
  written. Standard filters select what they say whatever was set before; extended
  ones do not (see 5).
* **Diagnostics.** The two readers of the error register lose no flag to each other
  or to timeouts, only those set between a read and its clear and those of a message
  the link refuses, whose result the tasks ignore. A counter is exact
  unless a reset fell into an increment. Whatever stale messages are sent, the
  display ends on the state of the bus.
* **Parser.** What is handed over was sent, in order. A whole packet that meets a
  parser looking for one gets through whatever noise came before. After a cut, one whole
  packet can be swallowed in the scaled run (up to 17 empty ones with the code's 128
  bytes of payload, see 4); the one after it is handed over, if they hold no byte 0xAA,
  without reset or timeout.
* **Link.** The host's result does not depend on how its reads cut the stream.
  With partial and mixed writes packets are lost, but none is invented, and of a
  command that one task writes none is repeated or overtaken. As long as nothing is torn, everything the port took
  arrives. A task comes back from the JTAG path even if the host never reads.
* **Session.** The write of a packet happens in the lock that gave its number,
  and the port is not closed in between. Two cyclic transmitters may run at once
  after a quick stop and start, or a quick reconnection, but share `last_sent_time`,
  so that a frame keeps its period from the first time it was taken; a frame that is
  put in the list again is a new one and due at once. Threads of closed connections
  end, unless a dialog is left open, and a pulled port ends the connection.
* **Table.** Rows and rates count every frame once, through clears and pauses. A
  frame that comes while the refresh shows what it collected marks its row again, so
  that the first rows always catch up; rows behind the portion may not.

### Bounds, and why they are enough

* `CanTasks`. FIFO depths 1 or 2 instead of 22 and 6: "empty", "between", "full"
  and the wrap of the slots all occur. The batch is 5 units, flushed at 4, with
  packets of 3, 3, 1, ... units: two of 3 force the spill branch, 3 + 1 the chunk
  branch, and a rest is left for the final flush. In the code's numbers (1024 and
  256, packets of at most 88 bytes) the spill branch cannot be reached; the
  scaled instance reaches it, and the proof of `BatchBound` needs no relation
  between the numbers except that one packet fits. Four frames against depth 2
  overflow the FIFO before, during and after a drain, and twice, so that the second loss
  may fall between the count and the clear of the first; one transmit, one control
  command and one message that the link refuses, of any kind, are beside them (`rx`).
  Three commands against queue and FIFO of 2 reach both full conditions, and overtaking
  would show with two; the RX side has two frames against depth 1 there, and one SPI
  transfer fails anywhere (`tx`). What empties the TX FIFO there is a bus error; that a
  control command leads to it as well is in `rx` with one command. An abort and a
  failing transfer together, as a FRESET lost after an abort, are in the theorems only
  (`CommandsKept`, `SafeToRetry`), for any number of both.
* `DriverControl`. No bound on the number of commands. `PollMax` 2 instead of 50:
  "answers at once", "later", "not in time". Mode bytes Normal, Listen Only,
  Configuration, and 8, which REQOP cuts to 0 and whose request therefore always times
  out (`mcp2517fd.c:164-181`). One unsupported rate; of the 40 MHz
  tables the fastest, the slowest and those of init. The proof takes all entries of
  both tables.
* `FramePath`. Two slots for transmitting, one for receiving: with three commands a
  slot is used again, before and after an abort. Identifiers with parts of zeros, of
  ones and mixed; lengths 5, 8, 12, 33, 64 on both sides of words and length codes,
  one of a frame whose data did not arrive. Frames of other nodes of both kinds, one
  with an identifier that a filter meant for another would take. Two filters.
* `Diagnostics`. One error flag (flags do not influence each other, and the proof has
  any number), one of two counters moving, two increments, one reset, one GET_DIAG,
  one change of the level at any time; the monitor goes round without a bound. Four
  levels, of which one change reaches two.
* `HostTable`. Three identifiers against a portion of two; four frames in batches of
  up to two; one clear, two pauses.
* `PacketParser`. `MaxPayload` 2 instead of 128; payloads of 0, 1 and 2 bytes, one
  holding a first sync byte, one a whole beginning of a packet. Four packets, two
  damages, noise bytes 0xAA, 0x55 and 3. Sequence numbers do not wrap; with fewer
  packets than 256 a number names a packet.
* `UsbLink`. Packets of 8 and 10 bytes into buffers of 13 and 12: one fits, two do
  not. The payload of a frame looks like a beginning. Two tasks, two packets each,
  one change of `connected`, `MaxLength` 3 instead of 256.
* `HostSession`. Two connections (a thread of the first can meet the second), two
  cyclic transmitters, a burst of one, a clock of two instants, sequence numbers
  modulo 2, the smallest where an overtaken number can be seen. The user acts three
  times, where connecting, starting a transmitter, any other click and pulling the
  cable count and stopping does not: two connections and a transmitter, a connection
  and two transmitters that overlap (stop and start before the first has looked), or a
  connection, a change of the list and a transmitter or its dialog. All three at once
  are left to the proofs, which have no such bound.

`CHECK_DEADLOCK FALSE` is set where the system really stops: the bounded stream of
`PacketParser` is used up, the commands and frames of `FramePath` are, and the host
program is idle when nobody clicks.

### Fairness, and why the code justifies it

* `CanTasks`: weak fairness of the receive task, of a command that has begun, of
  the interrupt, of the end of a diagnostic read and of transmission on the bus;
  strong fairness of taking the mutex in the receive task, because a FreeRTOS mutex
  is handed to the waiter of highest priority and the receive task has it. Its
  10 ms timeout is a single tick and may occur under any holder, but not for ever
  without the mutex being taken once in between: control commands are bounded, and
  between two diagnostic reads lies the monitor's interval. A control command's
  100 ms timeout may occur under any holder. Nothing is assumed of the arrival of
  frames and commands.
* `DriverControl`: the driver's task runs. Nothing is assumed of the controller:
  `CommandAnswered` holds because the polls are bounded.
* `Diagnostics`: the tasks run, and who holds the mutex gives it back. The monitor,
  which asks once in a period, gets the mutex again and again, and does not time out
  for ever without getting it; the link takes its message now and then. If the host
  reads nothing, no display can settle.
* `HostTable`: the refresh timer comes again (it sets itself in a `finally`).
* `UsbLink`: tasks inside a write run. Nothing makes the host read.
* `HostSession`: one condition for each thread. Receive threads run (weak); the main
  thread, cyclic transmitters and the burst get a lock that is free again and again,
  and the event loop comes to its idle calls (strong; locks of
  CPython are not fair by specification, but waiters are woken by a release and
  holders sleep between two uses). No user is obliged to click: a dialog may stay
  open for ever, and a connection too.

## 4. Proofs

`tlapm` proves, for all values of the constants allowed by the named assumptions:

| module | theorem | statement |
|---|---|---|
| `CanTasksProofs` | `Invariance` | the inductive invariant holds in every reachable state |
| | `Typed`, `Exclusion`, `Wakeup`, `BatchKept`, `LossReported` | `Spec => []P` for `TypeOK`, `MutexExcludes`, `NoLostWakeup`, `BatchSafe`, `LossCounted` |
| | `Answering`, `TransmitOrder`, `SafeToRetry` | order and answers along the transmit path; `SentInOrder`, `RetrySafe`, with any number of SPI faults, until a read of the user address fails |
| | `CommandsKept` | `Spec => RelaysCommands`: the tasks implement `CommandRelay`, with any number of SPI faults of every kind |
| | `OneAnswer` | `Spec => [][ConfirmedOnce]_vars`, and that a command refused with NACK is never confirmed |
| | `Exactness`, `Conservation`, `CountExact` | `Spec => [](faults = 0 => P)` for `FramesConserved`, `NotOvercounted`, and the invariant behind them |
| | `Implementation` | `Spec /\ [](faults = 0) => RelaysFrames`: the tasks implement `FrameRelay` |
| `DriverControlProofs` | `Invariance` | the inductive invariant of driver and controller |
| | `Typed`, `Agrees`, `WritesSafe`, `RatesKept`, `ModeSurvives` | `TypeOK`, `ModeAgreement`, `WritesInConfig`, `RatesAgree`, `ModeKept` |
| | `PassesConfig` | the action property `ThroughConfig` |
| `FramePathProofs` | `Invariance` | each slot holds what its command asked for, or what was on the bus |
| | `Sent`, `Own`, `Shown`, `FiltersRight` | `SentAsAsked`, `OwnBytes`, `ShownAsReceived`, `FiltersAndRings` |
| `DiagnosticsProofs` | `Invariance` | types, mutex, loaded values, error flags |
| | `Typed`, `ErrorsKept`, `CountsKept` | `TypeOK`, `NoErrorLost`, `CountsExact` |
| `PacketParserProofs` | `BufferSafe` | `TypeOK`: no byte is written past the payload buffer, whatever the stream and whatever the checksum function |
| | `Following`, `Delivered` | the parser's place in the packet it follows; `WholeDelivered`, for every checksum function |
| | `CleanStream` | `Spec => [](damage = 0 => OnlySent)`, and all of the stream once it is used up |
| | `Bounded`, `Recovered` | `Spec => [](8 * Shadow >= MaxPayload + 6 => Recovers)`, for every checksum function, and the bound behind it |
| `UsbLinkProofs` | `Types`, `OnePass`, `LinkRight` | types and places; the inductive form of `ChunksDoNotMatter`; `LinkOK` |
| | `OnlyWhole`, `CleanGetsThrough` | what one pass over an untorn stream finds; `CleanArrives` |
| | `CleanIsAuthentic` | `Spec => []NothingElse`: on an untorn stream the host has always taken a beginning of what the port took whole |
| | `WrittenInTurn`, `CleanAuthentic` | `Spec => []InTurn` and `Spec => [](~torn => Authentic)` |
| `HostSessionProofs` | `Invariance` | the inductive invariant of threads, locks and flags |
| | `Ordered`, `RateKept` | `SessionOK`, `CyclicRate` |
| | `PortKept` | the action property `PortStaysOpen` |
| `HostTableProofs` | `Invariance` | rows, keys and counters tell the log |
| | `TableRight`, `Display` | `TableOK`, `DisplayFollows` |

**CanTasks.** None of the properties is inductive alone. The invariant joins the
types with a part for each: which places of the two tasks go with which holder of
the mutex; that the FIFO is not empty where a frame is read and removed, and not
full where one is written, since only the holder of the mutex empties the one and
fills the other; where the hand holds a frame or a command; that the batch is
empty outside the drain; that after a completed drain the FIFO is empty or an edge
or a notification is left, which needs that an edge comes exactly when the FIFO
was empty; that a queued command has a notification given or about to be given
whenever the task sleeps, yields or has not started; that RXOVIF is raised while a
loss is owed, and that none is where it is about to be cleared. The step
is proved action by action. `BatchBound`, the first part of `BatchSafe`, rests on `PktAssumption` only: one packet
fits in an empty buffer. The theorems hold with any number of SPI faults; `rx` checks
the same properties without faults.

**CanTasks, order and copies.** Two further invariants stand on the first. Along the
transmit path (`Kept`) the numbers of the commands ascend from the bus
through TX FIFO 2, the hand and the queue, each of the four before the next, and a
command with a negative answer is at none of them; a failed transfer only drops a
command. One does not: a failed read of the user address puts any object of the RAM in
the FIFO, and from then on (`stray`) only the queue and the hand are still in order
(`Queued`), which is what the confirmations need. Along the receive path (`Exact`) the hand, the batch and the host hold the
frames that were taken, in order, except that between the read of a frame and its
UINC the first of the FIFO is in the hand too; and RXOVIF, with the place between its
read and its clear, stands for losses that were not counted yet. That needs the
hypothesis `faults = 0`: after a failed UINC the frame is delivered again
(`mcp2517fd.c:546`), and after a failed clear of RXOVIF one loss is counted again.
`Implementation` maps every step to an `Enter`, a `Leave` or a stutter of `FrameRelay`;
its hypothesis `[](faults = 0)` is the same.

`CommandsKept` needs no such hypothesis: it maps every step to one of `CommandRelay`, where
`inside` is the row of TX FIFO 2, the hand and the queue, and `due` that of the commands
that wait for a confirmation (the hand and the queue, whether the frame was written
or not). A reset of the FIFO drops a run of frames at the front of the row, a refused
write or a timeout the one in the hand; the failed read of the user address is
`Replace`, which exchanges the one in the hand for any object, and after which a
negative confirmation promises nothing. Beside `Kept` it rests on
`Paced`: only the last command can be without an answer, and is just while
`usb_cmd_task` is on its way to the ACK. `OneAnswer` adds `Once`: a confirmed command is
neither in the hand nor in the queue, and one that is there was not refused. That
commands are sent in order (`SentInOrder`) is part of `RelaysCommands`, which the run checks.

**DriverControl.** The invariant says, for every place of the driver and while no
earlier request is pending, how `opmod`, `reqop` and the goal belong together: they
can differ only where the driver waits, and then one of the two modes is
Configuration. Where it waits, `reqop` is what it waits for also after a timeout, so
that an answer brings the agreement back. `ThroughConfig` follows, because the controller's only step is from
`opmod` to `reqop`. Two more parts say that the mode the host named is kept in
`prev` while registers are written, and that the timing in the registers runs at
the remembered rates, through any timeouts after it was written. For that every entry of both tables, and the values of init,
are computed through by lemmas. Assumptions: mode bytes are bytes, the polls at
least one, and the oscillator is one of the two the code knows.

**FramePath.** The properties speak of the last frame on the bus and of the last
message. The invariant says the same of every slot that waits: the object is that
of its command and the bytes of its RAM up to the last written word are the
command's, and that the slots of a FIFO lie in a ring before the user address, so
that a slot that waits is not written again. Lemmas, for all identifiers below 2^29 and all lengths up to
64, say that splitting and joining an identifier are inverse, that each flag is found where it was
put, and that the length code is the smallest that suffices. Nothing is assumed of
the frames but that they are frames. `FiltersRight` has an invariant of its own beside
this one: the user addresses point behind the slots that wait and do not meet them, and
each pair of filter registers is that of the last command for it. Lemmas on the bits of
`CiFLTOBJ` and `CiMASK` then say that a standard filter selects the identifiers
that agree with its own where its mask has ones. `FilterAssumption` (identifier and
mask are numbers) and `BoundAssumption` (the bounds are) are all it assumes.

**Diagnostics.** Three parts are added to the types and properties. The mutex is held by
exactly the reader that is between its transfers, so that no other reader is. What
is in the register of a reader that will clear it has been read or came late. And the value that
was loaded for an increment is still the counter's, unless it was reset since. The
proof has any number of flags, errors, frames and commands.

**PacketParser.** The invariant is `TypeOK` itself, which contains what makes it
inductive: in state "payload" the index is below the length, and the length is at
most the buffer. Lemmas say that a packet is a sequence of bytes, and that a parsed
byte is one. `Following` adds the stream: while a whole packet is on the line whose
beginning the parser has taken for one, what was read and what is still to be read make
up that packet, so that its checksum is that of its content and it is handed over; this
holds for any checksum function and after any damage. Without damage the parser is
always in such a place, and hands over what was sent. `Recovered` bounds the way back
after damage: a packet without a first sync byte cannot be mistaken for a beginning, so
a parser in the middle of what it takes for a packet needs, with each byte, one less to
be back at the start (`Needs`), and at most `MaxPayload + 6` of them. Eight bytes come
with each such packet at least, so for the code's 128 bytes 17 packets suffice.

**UsbLink.** That the pieces do not matter is not inductive for the bytes that have
arrived, since the next read adds some. The invariant `Chunks` says it for every
continuation of the stream: what the host has taken, with what it finds in its two
buffers and any bytes after them, is what one pass finds in the whole stream and those
bytes. A write then only instantiates the continuation, and a read needs `Pieces`: a
buffer can be scanned in two parts if what the loop leaves of the first is put before
the second. That lemma is an induction over the positions of the buffer, downwards (as
a set of positions, as in HostTable below), of three facts: a turn of the loop that
goes on in a buffer goes the same way in a longer one; a scan depends only on the bytes
from its position on; and what the loop skips when it stops holds no whole beginning.
`Clean` joins to this what the tasks wrote: while nothing is torn, either nobody is half
way and one pass finds just the packets that got there, or one task is, and the stream
ends with the written part of its packet, in which nothing is found. That rests on what
a packet looks like to the scanner (`WholeScan`, `PartScan`). Sync bytes inside a payload,
and any checksum function that gives two bytes, are allowed; the assumptions are that
payloads are no longer than the host takes and that a task's packets are numbered in a
byte.

`InTurn` is about the writers alone and holds of a torn stream too: what the port took
whole was begun by its task, before the packet the task is at, and the numbers of a
command that only one task writes (`Sole`) rise. Tasks may share a command, as the
monitor and GET_DIAG share BUS_DIAG (`can_tasks.c:267`, `:311`): the packets of such a
command do not tell which of the tasks wrote them, and their order is not stated; the
run's tasks have different commands. With `NothingElse` it gives `CleanAuthentic`: while
nothing is torn, what the host takes is `Authentic`, whatever the checksum function.

**HostSession.** The invariant says where the main thread may be in the stack of
handlers (below the innermost one there are only dialogs and the second command of a
setting); that a port without a session is one that a handler is about to close; that
who holds a number also holds the transmit lock, and that the port is open then; and
that `last_sent_time` moves by a whole period every time a frame is taken after its
first, which bounds what all transmitters together take of it. Connections, transmitters, clicks and the clock
have no bound but the constants.

**HostTable.** The rows are what the log says of their identifiers since the last
clear: count, last and first number, and the keys are the identifiers that occur, each
once. For the display one more invariant is needed, of the time between the look at
the table and the drawing: values that wait to be shown are those of their row unless
the row is marked again, and each of the first rows is marked, shown, or waits among the
first items. What the loops of the code compute, four folds, is proved by induction over
their steps. No induction theorem with an operator as a parameter can be used; the
lemma `Induction` says it of a set instead (a set of numbers with 0 that holds with
each number the next one holds all numbers), from the well-foundedness of finite sets.
Only the bounds and that the portion is not 0 are assumed.

**Only model-checked.** Liveness (`EveryFrameLeaves`, `EveryCommandConfirmed`,
`CommandAnswered`, `Settles`, `CatchesUp`, `WritesReturn`, `ThreadsEnd`,
`PullNoticed`), which TLAPS does not prove. What depends on the checksum: `OnlySent` on
a damaged stream and `Authentic` on a torn one are false for an arbitrary checksum
function (`CleanStream` and `CleanAuthentic` prove them of undamaged and untorn ones), and
the runs have the real one.
`FramesConserved`, `NotOvercounted` and `RelaysFrames` after a failed transfer are false,
as said above.

## 5. Disagreements found

Kept as runs whose property TLC violates:

* `confirm`: TX_CONFIRM with status OK is written when the frame is in TX FIFO 2
  (`can_tasks.c:107`); a reset of the FIFO at the next transmit
  (`mcp2517fd.c:604-605`), after a bus error or the ABAT of a mode change
  (`mcp2517fd.c:148`), discards it. `usb_protocol.h:122-126` calls the message a "transmit confirmation".
* `filter`: `mcp2517fd_set_filter` puts the extended part of an identifier in bits
  17:0 and the standard part in bits 28:18 of the filter and mask registers
  (`mcp2517fd.c:901-902`); the controller has them the other way round, as
  the message objects (`mcp2517fd.c:573`). `mcp2517fd.h:176` promises an exact match for
  mask 0x1FFFFFFF: the filter rejects the identifier it names, unless its two parts
  happen to coincide, and accepts another.
* `refresh`: `_toggle_cyclic` shows a modal dialog with `tx_list_lock` held
  (`pcan_view_gui.py:761`); the refresh timer runs in the dialog's event loop and
  waits for the same non-reentrant lock. Line 1042 says the timer chain "can NEVER
  die".

Noticed while modelling, reached by the models, and not kept as runs of their own:

* The drain loop ends on a mutex timeout as it does on an empty FIFO
  (`can_tasks.c:70-74`); only the 10 ms wake-up makes that harmless.
* The result of the UINC write is ignored (`mcp2517fd.c:546`): after a failure the
  frame is delivered and stays in the FIFO, so it is delivered twice
  (`RxUincFault`). Properties about the order and copies of received frames are
  therefore checked without faults.
* Nobody looks whether the read of TX FIFO 2's user address failed
  (`mcp2517fd.c:618`): the object is then written to slot 0 of RX FIFO 1, over a frame
  that may wait there, UINC with TXREQ (`665`) queues what an earlier command left in
  the slot, and the new command is confirmed with OK (`TxAddressFault`). It is the only
  failing transfer that sends a command twice: `RetrySafe` and `CommandRelay` hold until
  then.
* A loss between the count of RXOVIF and its clear is cleared uncounted
  (`mcp2517fd.c:525-528`).
* Nobody looks whether the link took an ACK, a NACK or a TX_CONFIRM
  (`can_tasks.c:114`, `245`); none is sent again.
* `s_current_mode` is set although the request failed (`mcp2517fd.c:847-848`), and
  a rate or filter change after BUS_CONTROL off puts the node on the bus again
  (`mcp2517fd.c:846`, `912`).
* `mcp2517fd_init` remembers the rates of Kconfig (`mcp2517fd.c:216-217`) and
  programs 500k and 2M (`345-367`); `RatesAgree` is stated for equal ones.
* The comment at `mcp2517fd.c:143-145` says that all transitions between operational
  modes must pass through Configuration mode. After a timeout the old request is
  pending; the controller may enter Configuration mode, where the next request finds
  it, and its write of REQOP may lead from one operational mode to another. While
  no old request is pending `ThroughConfig` holds and is proved.
* A command that finds the mode it wants while an old request is pending is answered
  at once and makes no request (`mcp2517fd.c:137-142`): the mode it remembers is wrong
  as soon as the controller gets to the old one, and so may be a register write that
  found Configuration mode in this way. `ModeAgreement`, `WritesInConfig`, `RatesAgree`
  and `ModeKept` except this case through `clean`.
* SET_MODE with a byte above 7 asks for its low three bits and waits for the whole byte
  (`mcp2517fd.c:164-181`): the controller may well change its mode, and the command
  times out and does not remember it. `ModeAgreement` is suspended until the next
  request that is answered.
* A data rate of 0, "match nominal or Classic CAN" (`mcp2517fd.c:774`,
  `mcp2517fd.h:160`), programs 1 Mbit/s; `Runs` claims nothing of the data phase then.
  With the 20 MHz oscillator 100k and 50k, 4M and 5M, which the host offers,
  are refused.
* FD frames of 25..28, 33..44 and 49..60 bytes are sent with a length code for more bytes
  than were written to the slot: the rest is what an earlier frame left there.
  Received remote frames, and classic ones with a length code above 8, are shown with
  bytes of an earlier frame.
* `README.md:29` of the repository says that the RX FIFO holds 24 messages; the code
  sets up 22.
* BDIAG1 is cleared nearly always, since its low half counts error-free messages
  (`mcp2517fd.c:717`); an error flag set between read and clear is lost. Flags that
  have no bit in BUS_DIAG (NFORM, TXBO_ERR, DFORM, DSTUFF, DCRC, ESI, DLCMM) are
  cleared too. The host ignores the error flags and the receive side's levels: it
  shows "Active (OK)" when only the receiver is passive.
* After a timeout GET_DIAG answers zeros (`can_tasks.c:265-267`) and the monitor its last
  values. RESET_STATS does not reset the overflow count. A reset that falls into an
  increment is undone.
* The refresh clears the marks of all changed rows and shows the first 60
  (`pcan_view_gui.py:1050`, `1068`): with more identifiers the others stay old until
  their next frame, although line 13 speaks of "0 dropped frames".
* A standard and an extended frame of one number share a row, which keeps the kind
  of the first (`pcan_view_gui.py:960`).
* Between `uart_get_tx_buffer_free_size` and `uart_write_bytes`
  (`usb_comm.c:82-88`) another task may fill the buffer: the write then blocks.
* `usb_comm.c:58-60` promises that packets are written atomically and never
  truncated; the loop below it neither locks nor goes on after three refusals.
* An idle call of `_handle_unexpected_disconnect` left by one connection ends the
  next; after a quick reconnection two receive threads read one port; the `finally`
  of `_cyclic_tx_worker` (`pcan_view_gui.py:803`) clears the flag of a newer one.

## 6. What is not modelled

* The watchdog yield's 500 ms clock, and starvation of the transmit queue while
  frames come as fast as they are drained: `CanTasks` bounds the frames of the bus,
  and whether a FIFO is drained faster than it fills is a matter of speeds.
* `can_tasks_stop`, `proto_parse_reset`, `mcp2517fd_self_test`, the CAN tracker:
  nothing in the repository calls them, so they have no behaviour to relate to.
* Pins, the oscillator and interrupt registers that `mcp2517fd_init` writes once, and
  SPI faults during control commands.
* The payloads of PING, ACK and TX_CONFIRM, time stamps, the uptime, BDIAG0, and the
  numbers of the error counters.
* `total_tx_count` and the sent counts of the host, which several threads change
  without a lock; its labels, dialogs' contents and log file.
* Installing USB drivers and console output.

## 7. Plan

Done in this order, by importance: the tasks around the mutex and the FIFOs
(`CanTasks`), mode control (`DriverControl`), the two directions of the USB stream
(`PacketParser`, `UsbLink`), the host's threads (`HostSession`), contents of frames and
filters (`FramePath`), bit timing (`BitTiming`), the host's table (`HostTable`), counters and
diagnostics (`Diagnostics`).

The receive and the transmit path each have an abstract specification (`FrameRelay`,
`CommandRelay`) that `CanTasks` is proved to implement. Every safety property of a passing
run is stated by a theorem, `OnlySent` and `Authentic` for streams that are not damaged or
torn. What could follow is an abstract specification of the link (packets get through
whole or not at all) that `UsbLink` implements while nothing is torn; `NothingElse` is its
safety part.
