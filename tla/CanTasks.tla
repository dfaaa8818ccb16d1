------------------------------ MODULE CanTasks ------------------------------
(***************************************************************************)
(* The tasks of main/can_tasks.c, the MCP2517FD FIFOs they share through    *)
(* the SPI mutex of main/mcp2517fd.c, and the interrupt that wakes them.    *)
(*                                                                         *)
(* Processes: the CAN controller (frames arrive, frames are sent), the GPIO *)
(* interrupt, canfd_rx_task, usb_cmd_task (transmit and control commands)   *)
(* and the short diagnostic reads.  An SPI transfer is one step; the tasks  *)
(* interleave between transfers exactly where the mutex lets them.          *)
(***************************************************************************)
EXTENDS Integers, Sequences, FiniteSets

CONSTANTS RxDepth,    \* entries of RX FIFO 1 (22 in the code)
          TxDepth,    \* entries of TX FIFO 2 (6)
          QueueLen,   \* entries of s_tx_queue (128)
          BatchCap,   \* sizeof(usb_batch_buf) (1024)
          FlushAt,    \* the chunk that is flushed at once (256)
          MaxRx,      \* bound: frames the bus carries
          PktSize,    \* bytes of the USB packet of each of these frames
          MaxTx,      \* bound: TX_FRAME commands of the host
          MaxCtl,     \* bound: control commands of the host
          MaxFaults,  \* bound: SPI transfers that fail
          MaxRefused  \* bound: USB messages the link refuses

ASSUME DepthAssumption == {RxDepth, TxDepth, QueueLen} \subseteq Nat \ {0}
ASSUME BatchAssumption == BatchCap \in Nat /\ FlushAt \in Nat
ASSUME BoundAssumption ==
  {MaxRx, MaxTx, MaxCtl, MaxFaults, MaxRefused} \subseteq Nat
ASSUME PktAssumption == PktSize \in [1..MaxRx + 1 -> 1..BatchCap]

VARIABLES
  \* the controller
  rxFifo, rxovif,       \* RX FIFO 1 and its sticky overflow flag
  rxSlot0,              \* the frame last stored in slot 0 of its RAM
  arrived, lost,        \* frames the bus carried, frames that met a full FIFO
  owed,                 \* a loss that RXOVIF has still to tell (see Arrive)
  txFifo, txFlag,       \* TX FIFO 2; TXABT or TXERR is set
  aborted,              \* ABAT took the request to send from its frames
  txRam, txNext,        \* the objects in its RAM, the slot written next
  onBus,                \* commands whose frame was sent on the bus
  stray,                \* history: a stale object was queued by TxAddressFault
  \* signals and locks
  edge, notify, mutex,  \* pending GPIO edge, task notification, s_spi_mutex
  faults,               \* SPI failures so far
  \* canfd_rx_task
  rxPc, drained,        \* its place; its drain loop ended on an empty FIFO
  hand, ovCount,        \* local frame (0: none), s_rx_overflow_count
  batch, batchLen,      \* frames in usb_batch_buf, batch_len
  txItem, txOk,         \* local tx_item (0: none), result of the transmit
  \* usb_cmd_task and its queue
  txQueue, usbPc, issued, ctls,
  \* what the host sees
  hostRx, dropped,      \* frames delivered, frames of refused USB writes
  refused,              \* USB messages the link refused
  ack, conf             \* answer to and confirmation of each command

chipRx  == <<rxFifo, rxovif, rxSlot0, arrived, lost, owed>>
chipTx  == <<txFifo, txFlag, aborted, txRam, txNext, onBus, stray>>
signals == <<edge, notify>>
rxTask  == <<rxPc, drained, hand, ovCount>>
stream  == <<batch, batchLen, hostRx, dropped, refused>>
txTask  == <<txItem, txOk, conf>>
usbTask == <<usbPc, issued, ctls, ack>>
vars == <<chipRx, chipTx, signals, mutex, faults, rxTask, stream, txTask,
          txQueue, usbTask>>

\* Frames carry their number; Foreign is any other object in the receive RAM
\* (the self-test's, or a transmit object written there by mistake).  Objects
\* carry the number of their command, 0 is one of no command.
Foreign == MaxRx + 1
Frame == 1..MaxRx + 1
Cmd   == 1..MaxTx
Item  == 0..MaxTx
RxPcs == {"boot", "wait", "take", "status", "clear", "read", "uinc", "stream",
          "chunk", "flush", "txpop", "txtake", "txstatus", "txreset",
          "txroom", "txwrite", "confirm", "yield"}
UsbPcs == {"idle", "notify", "ack", "ctltake", "config", "resume"}
Elems(s) == {s[i] : i \in DOMAIN s}

Init ==
  /\ rxFifo = <<>> /\ rxovif = FALSE /\ rxSlot0 = Foreign
  /\ arrived = 0 /\ lost = {} /\ owed = FALSE
  /\ txFifo = <<>> /\ txFlag = FALSE /\ aborted = FALSE /\ onBus = <<>>
  /\ txRam = [i \in 0..TxDepth - 1 |-> 0] /\ txNext = 0 /\ stray = FALSE
  /\ edge = FALSE /\ notify = FALSE /\ mutex = "none" /\ faults = 0
  /\ rxPc = "boot" /\ drained = FALSE /\ hand = 0 /\ ovCount = 0
  /\ batch = <<>> /\ batchLen = 0 /\ hostRx = <<>> /\ dropped = {} /\ refused = 0
  /\ txQueue = <<>> /\ txItem = 0 /\ txOk = FALSE
  /\ usbPc = "idle" /\ issued = 0 /\ ctls = 0
  /\ ack = [c \in Cmd |-> "none"] /\ conf = [c \in Cmd |-> "none"]

-----------------------------------------------------------------------------
(* The controller and the interrupt.                                       *)

Stored == (1..arrived) \ lost

\* A frame arrives; a full FIFO loses it and sets RXOVIF.  The INT pin falls
\* when the FIFO was empty.  Where the flag was read and is about to be cleared
\* (place "clear") a loss raises nothing new: the code will not tell it.
Arrive ==
  /\ arrived < MaxRx
  /\ arrived' = arrived + 1
  /\ IF Len(rxFifo) < RxDepth
       THEN /\ rxFifo' = Append(rxFifo, arrived + 1)
            /\ rxSlot0' = IF Cardinality(Stored) % RxDepth = 0 THEN arrived + 1
                                                              ELSE rxSlot0
            /\ edge' = (edge \/ rxFifo = <<>>)
            /\ UNCHANGED <<rxovif, lost, owed>>
       ELSE /\ lost' = lost \cup {arrived + 1}
            /\ rxovif' = TRUE
            /\ owed' = (owed \/ rxPc # "clear")
            /\ UNCHANGED <<rxFifo, rxSlot0, edge>>
  /\ UNCHANGED <<chipTx, notify, mutex, faults, rxTask, stream, txTask,
                 txQueue, usbTask>>

ChipTransmit ==
  /\ txFifo # <<>> /\ ~aborted
  /\ onBus' = Append(onBus, Head(txFifo))
  /\ txFifo' = Tail(txFifo)
  /\ UNCHANGED <<chipRx, txFlag, aborted, txRam, txNext, stray, signals, mutex,
                 faults, rxTask, stream, txTask, txQueue, usbTask>>

\* An error on the bus sets TXERR; the frame stays queued and is retried.
ChipTxError ==
  /\ txFifo # <<>> /\ ~aborted /\ ~txFlag
  /\ txFlag' = TRUE
  /\ UNCHANGED <<chipRx, txFifo, aborted, txRam, txNext, onBus, stray, signals,
                 mutex, faults, rxTask, stream, txTask, txQueue, usbTask>>

\* The handler ignores an edge that comes before the task exists.
Isr ==
  /\ edge /\ edge' = FALSE
  /\ notify' = (notify \/ rxPc # "boot")
  /\ UNCHANGED <<chipRx, chipTx, mutex, faults, rxTask, stream, txTask,
                 txQueue, usbTask>>

\* mcp2517fd_get_diag, called by the monitor task and by GET_DIAG: a few
\* transfers under the mutex, which touch none of the state kept here.
DiagTake ==
  /\ rxPc # "boot" /\ mutex = "none" /\ mutex' = "diag"
  /\ UNCHANGED <<chipRx, chipTx, signals, faults, rxTask, stream, txTask,
                 txQueue, usbTask>>

DiagGive ==
  /\ mutex = "diag" /\ mutex' = "none"
  /\ UNCHANGED <<chipRx, chipTx, signals, faults, rxTask, stream, txTask,
                 txQueue, usbTask>>

-----------------------------------------------------------------------------
(* canfd_rx_task: waiting and draining the RX FIFO.                         *)

StartTasks ==
  /\ rxPc = "boot" /\ rxPc' = "wait"
  /\ UNCHANGED <<chipRx, chipTx, signals, mutex, faults, drained, hand,
                 ovCount, stream, txTask, txQueue, usbTask>>

\* ulTaskNotifyTake returns and clears the notification ...
RxWake ==
  /\ rxPc = "wait" /\ notify
  /\ rxPc' = "take" /\ notify' = FALSE /\ drained' = FALSE
  /\ UNCHANGED <<chipRx, chipTx, edge, mutex, faults, hand, ovCount, stream,
                 txTask, txQueue, usbTask>>

\* A bug: the task waits for ever (portMAX_DELAY) and never times out.
RxNoTimeout == FALSE /\ UNCHANGED vars

\* ... or, with no notification, after its 10 ms.
RxTimeout ==
  /\ rxPc = "wait" /\ ~notify
  /\ rxPc' = "take" /\ drained' = FALSE
  /\ UNCHANGED <<chipRx, chipTx, signals, mutex, faults, hand, ovCount,
                 stream, txTask, txQueue, usbTask>>

RxTake ==
  /\ rxPc = "take" /\ mutex = "none"
  /\ rxPc' = "status" /\ mutex' = "rx"
  /\ UNCHANGED <<chipRx, chipTx, signals, faults, drained, hand, ovCount,
                 stream, txTask, txQueue, usbTask>>

\* Whoever holds the mutex: 10 ms are a single tick, of which little may be
\* left.  The drain loop then ends although nobody looked at the FIFO.
RxTakeTimeout ==
  /\ rxPc = "take" /\ mutex # "none"
  /\ rxPc' = "flush"
  /\ UNCHANGED <<chipRx, chipTx, signals, mutex, faults, drained, hand,
                 ovCount, stream, txTask, txQueue, usbTask>>

\* A bug: the overflow flag is cleared and not counted.
RxStatusUncounted ==
  /\ rxPc = "status"
  /\ IF rxFifo = <<>>
       THEN rxPc' = "flush" /\ mutex' = "none" /\ drained' = TRUE
       ELSE /\ rxPc' = IF rxovif THEN "clear" ELSE "read"
            /\ UNCHANGED <<mutex, drained>>
  /\ UNCHANGED <<chipRx, chipTx, signals, faults, hand, ovCount, stream,
                 txTask, txQueue, usbTask>>

\* The FIFO status ends the loop or leads to the frame; a raised overflow
\* flag is counted and then cleared by a transfer of its own.
RxStatus ==
  /\ rxPc = "status"
  /\ IF rxFifo = <<>>
       THEN /\ rxPc' = "flush" /\ mutex' = "none" /\ drained' = TRUE
            /\ UNCHANGED ovCount
       ELSE /\ rxPc' = IF rxovif THEN "clear" ELSE "read"
            /\ ovCount' = IF rxovif THEN ovCount + 1 ELSE ovCount
            /\ UNCHANGED <<mutex, drained>>
  /\ owed' = (owed /\ ~(rxFifo # <<>> /\ rxovif))
  /\ UNCHANGED <<rxFifo, rxovif, rxSlot0, arrived, lost, chipTx, signals, faults,
                 hand, stream, txTask, txQueue, usbTask>>

\* A bug: the overflow flag is counted and never cleared.
RxClearForgets ==
  /\ rxPc = "clear" /\ rxPc' = "read"
  /\ UNCHANGED <<chipRx, chipTx, signals, mutex, faults, drained, hand,
                 ovCount, stream, txTask, txQueue, usbTask>>

RxClear ==
  /\ rxPc = "clear" /\ rxPc' = "read" /\ rxovif' = FALSE
  /\ UNCHANGED <<rxFifo, rxSlot0, arrived, lost, owed, chipTx, signals, mutex,
                 faults, drained, hand, ovCount, stream, txTask, txQueue, usbTask>>

\* A bug: the newest frame is read, the oldest is removed.
RxReadNewest ==
  /\ rxPc = "read" /\ rxPc' = "uinc" /\ hand' = rxFifo[Len(rxFifo)]
  /\ UNCHANGED <<chipRx, chipTx, signals, mutex, faults, drained, ovCount,
                 stream, txTask, txQueue, usbTask>>

\* The burst read copies the oldest frame ...
RxRead ==
  /\ rxPc = "read" /\ rxPc' = "uinc" /\ hand' = Head(rxFifo)
  /\ UNCHANGED <<chipRx, chipTx, signals, mutex, faults, drained, ovCount,
                 stream, txTask, txQueue, usbTask>>

\* ... and UINC removes it from the FIFO; then the mutex is given back.
RxUinc ==
  /\ rxPc = "uinc" /\ rxPc' = "stream"
  /\ rxFifo' = Tail(rxFifo) /\ mutex' = "none"
  /\ UNCHANGED <<rxovif, rxSlot0, arrived, lost, owed, chipTx, signals, faults,
                 drained, hand, ovCount, stream, txTask, txQueue, usbTask>>

-----------------------------------------------------------------------------
(* canfd_rx_task: the batch towards the USB link.                           *)

\* The link refuses a message; nobody looks at the result of usb_comm_write.
LinkRefuses == refused < MaxRefused /\ refused' = refused + 1

\* A bug: the batch is sent and its length not reset.
SendBatchTwice ==
  /\ batch # <<>> /\ UNCHANGED <<batch, batchLen>>
  /\ \/ hostRx' = hostRx \o batch /\ UNCHANGED <<dropped, refused>>
     \/ dropped' = dropped \cup Elems(batch) /\ LinkRefuses /\ UNCHANGED hostRx

\* usb_comm_write of the whole batch, which the link takes or refuses; the
\* result is ignored and the batch is gone either way.
SendBatch ==
  /\ batch' = <<>> /\ batchLen' = 0
  /\ \/ hostRx' = hostRx \o batch /\ UNCHANGED <<dropped, refused>>
     \/ dropped' = dropped \cup Elems(batch) /\ LinkRefuses /\ UNCHANGED hostRx

Overflows == batchLen + PktSize[hand] > BatchCap

\* A batch with no room for the packet is sent first.
RxSpill ==
  /\ rxPc = "stream" /\ Overflows
  /\ SendBatch
  /\ UNCHANGED <<chipRx, chipTx, signals, mutex, faults, rxTask, txTask,
                 txQueue, usbTask>>

RxAppend ==
  /\ rxPc = "stream" /\ ~Overflows
  /\ batch' = Append(batch, hand)
  /\ batchLen' = batchLen + PktSize[hand]
  /\ hand' = 0
  /\ rxPc' = IF batchLen + PktSize[hand] >= FlushAt THEN "chunk" ELSE "take"
  /\ UNCHANGED <<chipRx, chipTx, signals, mutex, faults, drained, ovCount,
                 hostRx, dropped, refused, txTask, txQueue, usbTask>>

RxChunk ==
  /\ rxPc = "chunk" /\ rxPc' = "take"
  /\ SendBatch
  /\ UNCHANGED <<chipRx, chipTx, signals, mutex, faults, drained, hand,
                 ovCount, txTask, txQueue, usbTask>>

\* A bug: what is left after the drain waits for the next frame.
RxFlushForgets ==
  /\ rxPc = "flush" /\ rxPc' = "txpop"
  /\ UNCHANGED <<chipRx, chipTx, signals, mutex, faults, drained, hand,
                 ovCount, stream, txTask, txQueue, usbTask>>

\* After the drain loop the rest of the batch is sent.
RxFlush ==
  /\ rxPc = "flush" /\ rxPc' = "txpop"
  /\ IF batchLen > 0 THEN SendBatch ELSE UNCHANGED stream
  /\ UNCHANGED <<chipRx, chipTx, signals, mutex, faults, drained, hand,
                 ovCount, txTask, txQueue, usbTask>>

-----------------------------------------------------------------------------
(* canfd_rx_task: the transmit queue.                                       *)

TxPop ==
  /\ rxPc = "txpop" /\ txQueue # <<>>
  /\ rxPc' = "txtake" /\ txItem' = Head(txQueue) /\ txQueue' = Tail(txQueue)
  /\ UNCHANGED <<chipRx, chipTx, signals, mutex, faults, drained, hand,
                 ovCount, stream, txOk, conf, usbTask>>

\* A bug: notifications given during the pass are thrown away at its end.
TxNoneClears ==
  /\ rxPc = "txpop" /\ txQueue = <<>>
  /\ rxPc' \in {"wait", "yield"} /\ notify' = FALSE
  /\ UNCHANGED <<chipRx, chipTx, edge, mutex, faults, drained, hand, ovCount,
                 stream, txTask, txQueue, usbTask>>

\* An empty queue ends the pass, with vTaskDelay(1) when 500 ms went by
\* since the last one.
TxNone ==
  /\ rxPc = "txpop" /\ txQueue = <<>>
  /\ rxPc' \in {"wait", "yield"}
  /\ UNCHANGED <<chipRx, chipTx, signals, mutex, faults, drained, hand,
                 ovCount, stream, txTask, txQueue, usbTask>>

Yielded ==
  /\ rxPc = "yield" /\ rxPc' = "wait"
  /\ UNCHANGED <<chipRx, chipTx, signals, mutex, faults, drained, hand,
                 ovCount, stream, txTask, txQueue, usbTask>>

TxTake ==
  /\ rxPc = "txtake" /\ mutex = "none"
  /\ rxPc' = "txstatus" /\ mutex' = "rx"
  /\ UNCHANGED <<chipRx, chipTx, signals, faults, drained, hand, ovCount,
                 stream, txTask, txQueue, usbTask>>

\* The transmit ended with success or not: the confirmation is due.
TxEnd(success) == /\ rxPc' = "confirm" /\ txOk' = success
                  /\ UNCHANGED <<drained, hand, ovCount, txItem, conf>>

\* A bug: a command that met a busy mutex goes back to the loop with no answer.
TxTakeForgets ==
  /\ rxPc = "txtake" /\ mutex = "ctl"
  /\ rxPc' = "txpop" /\ txItem' = 0
  /\ UNCHANGED <<chipRx, chipTx, signals, mutex, faults, drained, hand,
                 ovCount, stream, txOk, conf, txQueue, usbTask>>

\* 100 ms only a control command holds the mutex (it polls the mode).
TxTakeTimeout ==
  /\ rxPc = "txtake" /\ mutex = "ctl"
  /\ TxEnd(FALSE)
  /\ UNCHANGED <<chipRx, chipTx, signals, mutex, faults, stream, txQueue,
                 usbTask>>

\* TXABT or TXERR leads to a reset of the FIFO, a full FIFO to an error.
TxStatus ==
  /\ rxPc = "txstatus"
  /\ \/ /\ txFlag \/ Len(txFifo) < TxDepth
        /\ rxPc' = IF txFlag THEN "txreset" ELSE "txwrite"
        /\ UNCHANGED <<mutex, drained, hand, ovCount, txTask>>
     \/ /\ ~txFlag /\ Len(txFifo) = TxDepth
        /\ TxEnd(FALSE) /\ mutex' = "none"
  /\ UNCHANGED <<chipRx, chipTx, signals, faults, stream, txQueue, usbTask>>

\* FRESET empties the FIFO and clears its flags and its pointers.
TxReset ==
  /\ rxPc = "txreset" /\ rxPc' = "txroom"
  /\ txFifo' = <<>> /\ txFlag' = FALSE /\ aborted' = FALSE /\ txNext' = 0
  /\ UNCHANGED <<chipRx, txRam, onBus, stray, signals, mutex, faults, drained,
                 hand, ovCount, stream, txTask, txQueue, usbTask>>

\* The status is read again.
TxRoom ==
  /\ rxPc = "txroom"
  /\ IF Len(txFifo) < TxDepth
       THEN rxPc' = "txwrite" /\ UNCHANGED <<mutex, drained, hand, ovCount, txTask>>
       ELSE TxEnd(FALSE) /\ mutex' = "none"
  /\ UNCHANGED <<chipRx, chipTx, signals, faults, stream, txQueue, usbTask>>

\* UINC takes over whatever the next slot holds, TXREQ asks the controller to
\* send all that is queued, aborted frames too.
Queue(object) ==
  /\ txFifo' = Append(txFifo, object) /\ txNext' = (txNext + 1) % TxDepth
  /\ aborted' = FALSE

\* A bug: the frame is queued and reported as an error.
TxWriteBusy ==
  /\ rxPc = "txwrite"
  /\ txRam' = [txRam EXCEPT ![txNext] = txItem] /\ Queue(txItem)
  /\ TxEnd(FALSE) /\ mutex' = "none"
  /\ UNCHANGED <<chipRx, txFlag, onBus, stray, signals, faults, stream, txQueue,
                 usbTask>>

\* The object is written to the RAM of the FIFO and UINC with TXREQ queues it.
TxWrite ==
  /\ rxPc = "txwrite"
  /\ txRam' = [txRam EXCEPT ![txNext] = txItem] /\ Queue(txItem)
  /\ TxEnd(TRUE) /\ mutex' = "none"
  /\ UNCHANGED <<chipRx, txFlag, onBus, stray, signals, faults, stream, txQueue,
                 usbTask>>

\* An answer reaches the host, or is lost where the link refuses it.
Reply(answer, reply) ==
  \/ reply = answer /\ UNCHANGED refused
  \/ reply = "lost" /\ LinkRefuses
Replies == {"ok", "busy", "lost"}

\* TX_CONFIRM with the command's sequence number and the result.
TxConfirm ==
  /\ rxPc = "confirm" /\ rxPc' = "txpop"
  /\ \E reply \in Replies :
       /\ Reply(IF txOk THEN "ok" ELSE "busy", reply)
       /\ conf' = [conf EXCEPT ![txItem] = reply]
  /\ txItem' = 0
  /\ UNCHANGED <<chipRx, chipTx, signals, mutex, faults, drained, hand, ovCount,
                 batch, batchLen, hostRx, dropped, txOk, txQueue, usbTask>>

-----------------------------------------------------------------------------
(* usb_cmd_task.                                                            *)

CanIssue == usbPc = "idle" /\ rxPc # "boot"

\* A bug: the command is put in front of those that wait.
UsbTxFrameFront ==
  /\ CanIssue /\ issued < MaxTx
  /\ issued' = issued + 1
  /\ IF Len(txQueue) < QueueLen
       THEN /\ txQueue' = <<issued + 1>> \o txQueue
            /\ usbPc' = "notify" /\ UNCHANGED <<ack, refused>>
       ELSE /\ \E reply \in Replies :
                 /\ Reply("busy", reply)
                 /\ ack' = [ack EXCEPT ![issued + 1] = reply]
            /\ UNCHANGED <<txQueue, usbPc>>
  /\ UNCHANGED <<chipRx, chipTx, signals, mutex, faults, rxTask, batch, batchLen,
                 hostRx, dropped, txTask, ctls>>

\* A TX_FRAME command: xQueueSend without waiting, NACK when it fails.
UsbTxFrame ==
  /\ CanIssue /\ issued < MaxTx
  /\ issued' = issued + 1
  /\ IF Len(txQueue) < QueueLen
       THEN /\ txQueue' = Append(txQueue, issued + 1)
            /\ usbPc' = "notify" /\ UNCHANGED <<ack, refused>>
       ELSE /\ \E reply \in Replies :
                 /\ Reply("busy", reply)
                 /\ ack' = [ack EXCEPT ![issued + 1] = reply]
            /\ UNCHANGED <<txQueue, usbPc>>
  /\ UNCHANGED <<chipRx, chipTx, signals, mutex, faults, rxTask, batch, batchLen,
                 hostRx, dropped, txTask, ctls>>

\* xTaskNotifyGive, then the answer: the confirmation may come before it.
UsbNotify ==
  /\ usbPc = "notify" /\ usbPc' = "ack" /\ notify' = TRUE
  /\ UNCHANGED <<chipRx, chipTx, edge, mutex, faults, rxTask, stream, txTask,
                 txQueue, issued, ctls, ack>>

UsbAck ==
  /\ usbPc = "ack" /\ usbPc' = "idle"
  /\ \E reply \in Replies :
       Reply("ok", reply) /\ ack' = [ack EXCEPT ![issued] = reply]
  /\ UNCHANGED <<chipRx, chipTx, signals, mutex, faults, rxTask, batch, batchLen,
                 hostRx, dropped, txTask, txQueue, issued, ctls>>

\* SET_BITRATE, SET_MODE, SET_FILTER and BUS_CONTROL, as far as the tasks
\* feel them (module DriverControl models what they do to the controller).
UsbControl ==
  /\ CanIssue /\ ctls < MaxCtl
  /\ ctls' = ctls + 1 /\ usbPc' = "ctltake"
  /\ UNCHANGED <<chipRx, chipTx, signals, mutex, faults, rxTask, stream,
                 txTask, txQueue, issued, ack>>

\* A bug: the command does not wait for the mutex.
CtlTakeUnlocked ==
  /\ usbPc = "ctltake"
  /\ usbPc' = "config" /\ mutex' = "ctl"
  /\ UNCHANGED <<chipRx, chipTx, signals, faults, rxTask, stream, txTask,
                 txQueue, issued, ctls, ack>>

CtlTake ==
  /\ usbPc = "ctltake" /\ mutex = "none"
  /\ usbPc' = "config" /\ mutex' = "ctl"
  /\ UNCHANGED <<chipRx, chipTx, signals, faults, rxTask, stream, txTask,
                 txQueue, issued, ctls, ack>>

\* 100 ms without the mutex: the command is refused.
CtlTakeTimeout ==
  /\ usbPc = "ctltake" /\ mutex # "none"
  /\ usbPc' = "idle"
  /\ UNCHANGED <<chipRx, chipTx, signals, mutex, faults, rxTask, stream,
                 txTask, txQueue, issued, ctls, ack>>

\* Configuration mode is requested with ABAT: queued frames stay in the FIFO,
\* flagged TXABT, and are not sent unless a later TXREQ asks for them.
CtlAbort ==
  /\ usbPc = "config" /\ usbPc' = "resume"
  /\ txFlag' = (txFlag \/ txFifo # <<>>) /\ aborted' = (aborted \/ txFifo # <<>>)
  /\ UNCHANGED <<chipRx, txFifo, txRam, txNext, onBus, stray, signals, mutex,
                 faults, rxTask, stream, txTask, txQueue, issued, ctls, ack>>

\* The mode was the requested one already: nothing is written.
CtlNoChange ==
  /\ usbPc = "config" /\ usbPc' = "resume"
  /\ UNCHANGED <<chipRx, chipTx, signals, mutex, faults, rxTask, stream,
                 txTask, txQueue, issued, ctls, ack>>

CtlGive ==
  /\ usbPc = "resume" /\ usbPc' = "idle" /\ mutex' = "none"
  /\ UNCHANGED <<chipRx, chipTx, signals, faults, rxTask, stream, txTask,
                 txQueue, issued, ctls, ack>>

-----------------------------------------------------------------------------
(* SPI transfers that fail.  mcp2517fd_read8 then returns 0, the results of  *)
(* mcp2517fd_write8 are not looked at.                                      *)

SpiFault == faults < MaxFaults /\ faults' = faults + 1

\* The status reads as empty or 0xFF, or the burst read fails: the loop ends.
RxExitFault ==
  /\ SpiFault /\ rxPc \in {"status", "read"}
  /\ rxPc' = "flush" /\ mutex' = "none"
  /\ UNCHANGED <<chipRx, chipTx, signals, drained, hand, ovCount, stream,
                 txTask, txQueue, usbTask>>

RxClearFault ==
  /\ SpiFault /\ rxPc = "clear"
  /\ rxPc' = "read"
  /\ UNCHANGED <<chipRx, chipTx, signals, mutex, drained, hand, ovCount,
                 stream, txTask, txQueue, usbTask>>

\* The user address reads as 0, the address of slot 0 of RX FIFO 1: the burst
\* read copies the frame that was last stored there.
RxAddressFault ==
  /\ SpiFault /\ rxPc = "read" /\ rxPc' = "uinc" /\ hand' = rxSlot0
  /\ UNCHANGED <<chipRx, chipTx, signals, mutex, drained, ovCount, stream,
                 txTask, txQueue, usbTask>>

\* UINC is lost and the frame is reported all the same.
RxUincFault ==
  /\ SpiFault /\ rxPc = "uinc" /\ rxPc' = "stream" /\ mutex' = "none"
  /\ UNCHANGED <<chipRx, chipTx, signals, drained, hand, ovCount, stream,
                 txTask, txQueue, usbTask>>

\* Read as 0 the TX FIFO looks full, read as 0xFF it asks for a reset.
TxStatusFault ==
  /\ SpiFault /\ rxPc \in {"txstatus", "txroom"}
  /\ \/ TxEnd(FALSE) /\ mutex' = "none"
     \/ /\ rxPc = "txstatus" /\ rxPc' = "txreset"
        /\ UNCHANGED <<mutex, drained, hand, ovCount, txTask>>
  /\ UNCHANGED <<chipRx, chipTx, signals, stream, txQueue, usbTask>>

\* FRESET is lost: the FIFO keeps its frames and its flags.
TxResetFault ==
  /\ SpiFault /\ rxPc = "txreset" /\ rxPc' = "txroom"
  /\ UNCHANGED <<chipRx, chipTx, signals, mutex, drained, hand, ovCount, stream,
                 txTask, txQueue, usbTask>>

\* The RAM write fails, with the object in the RAM or not, and is reported; or
\* UINC is lost and nobody knows.
TxWriteFault ==
  /\ SpiFault /\ rxPc = "txwrite" /\ mutex' = "none"
  /\ \E written, reported \in BOOLEAN :
       /\ written \/ reported
       /\ txRam' = IF written THEN [txRam EXCEPT ![txNext] = txItem] ELSE txRam
       /\ TxEnd(~reported)
  /\ UNCHANGED <<chipRx, txFifo, txFlag, aborted, txNext, onBus, stray, signals,
                 stream, txQueue, usbTask>>

\* The user address reads as 0: the object is written over slot 0 of RX FIFO 1,
\* UINC with TXREQ queues what an earlier command left in the slot of TX FIFO 2
\* and the command is confirmed.
TxAddressFault ==
  /\ SpiFault /\ rxPc = "txwrite"
  /\ rxFifo' = [i \in DOMAIN rxFifo |->
                  IF rxFifo[i] = rxSlot0 THEN Foreign ELSE rxFifo[i]]
  /\ rxSlot0' = Foreign
  /\ Queue(txRam[txNext]) /\ stray' = TRUE
  /\ TxEnd(TRUE) /\ mutex' = "none"
  /\ UNCHANGED <<rxovif, arrived, lost, owed, txFlag, txRam, onBus, signals,
                 stream, txQueue, usbTask>>

-----------------------------------------------------------------------------
RxTaskStep ==
  \/ StartTasks \/ RxWake \/ RxTimeout \/ RxTake \/ RxTakeTimeout
  \/ RxStatus \/ RxClear \/ RxRead \/ RxUinc
  \/ RxSpill \/ RxAppend \/ RxChunk \/ RxFlush
  \/ TxPop \/ TxNone \/ Yielded \/ TxTake \/ TxTakeTimeout
  \/ TxStatus \/ TxReset \/ TxRoom \/ TxWrite \/ TxConfirm
FaultStep ==
  \/ RxExitFault \/ RxClearFault \/ RxAddressFault \/ RxUincFault
  \/ TxStatusFault \/ TxResetFault \/ TxWriteFault \/ TxAddressFault
UsbFinish == \/ UsbNotify \/ UsbAck \/ CtlTake \/ CtlTakeTimeout
             \/ CtlAbort \/ CtlNoChange \/ CtlGive
UsbStep == UsbTxFrame \/ UsbControl \/ UsbFinish
ChipStep == Arrive \/ ChipTransmit \/ ChipTxError

Next == \/ RxTaskStep \/ FaultStep \/ UsbStep \/ ChipStep
        \/ Isr \/ DiagTake \/ DiagGive

Spec == Init /\ [][Next]_vars

(* A task that can run does run; a waiter of a mutex that is given back     *)
(* again and again gets it; the GPIO interrupt is taken; queued frames are  *)
(* sent; a diagnostic read ends, and since there are long pauses between    *)
(* them the receive task does not meet one every time.                      *)
Fairness == /\ WF_vars(RxTaskStep) /\ WF_vars(UsbFinish)
            /\ SF_vars(RxTake \/ TxTake)
            /\ []<><<RxTakeTimeout>>_vars => []<><<RxTake>>_vars
            /\ WF_vars(Isr) /\ WF_vars(ChipTransmit) /\ WF_vars(DiagGive)

FairSpec == Spec /\ Fairness

-----------------------------------------------------------------------------
(* Properties.                                                              *)

Ascending(s) == \A i, j \in DOMAIN s : i < j => s[i] < s[j]

\* Every variable has its type, no buffer holds more than its capacity, and
\* the mutex is owned by the task that is inside its critical section.
TypeOK ==
  /\ rxFifo \in Seq(Frame) /\ Len(rxFifo) <= RxDepth
  /\ rxovif \in BOOLEAN /\ rxSlot0 \in Frame /\ owed \in BOOLEAN
  /\ arrived \in 0..MaxRx /\ lost \subseteq Frame
  /\ txFifo \in Seq(Item) /\ Len(txFifo) <= TxDepth
  /\ txFlag \in BOOLEAN /\ aborted \in BOOLEAN /\ onBus \in Seq(Item)
  /\ txRam \in [0..TxDepth - 1 -> Item] /\ txNext \in 0..TxDepth - 1
  /\ stray \in BOOLEAN
  /\ edge \in BOOLEAN /\ notify \in BOOLEAN
  /\ mutex \in {"none", "rx", "ctl", "diag"} /\ faults \in 0..MaxFaults
  /\ rxPc \in RxPcs /\ drained \in BOOLEAN
  /\ hand \in 0..MaxRx + 1 /\ ovCount \in Nat
  /\ batch \in Seq(Frame) /\ batchLen \in Nat
  /\ hostRx \in Seq(Frame) /\ dropped \subseteq Frame /\ refused \in 0..MaxRefused
  /\ txQueue \in Seq(Cmd) /\ Len(txQueue) <= QueueLen
  /\ txItem \in Item /\ txOk \in BOOLEAN
  /\ usbPc \in UsbPcs /\ issued \in 0..MaxTx /\ ctls \in 0..MaxCtl
  /\ ack \in [Cmd -> {"none"} \cup Replies]
  /\ conf \in [Cmd -> {"none"} \cup Replies]

\* s_spi_mutex excludes: the receive task and the control commands never do
\* SPI transfers at the same time (mcp2517fd.c takes it in every function).
MutexExcludes ==
  /\ (mutex = "rx") <=> rxPc \in {"status", "clear", "read", "uinc", "txstatus",
                                  "txreset", "txroom", "txwrite"}
  /\ (mutex = "ctl") <=> usbPc \in {"config", "resume"}

\* can_tasks.c:70-73.  Once the drain loop has seen the FIFO empty, a frame
\* that comes later has left a falling edge or a notification behind: the
\* task never sleeps on a frame that only the 10 ms fallback would find.
NoLostRxWakeup == drained /\ rxFifo # <<>> => edge \/ notify

\* can_tasks.c:231-242.  The task never sleeps on a queued transmit command
\* with no notification given or about to be given.
NoLostTxWakeup ==
  rxPc = "wait" /\ txQueue # <<>> => notify \/ usbPc = "notify"

\* No wake-up is lost, of either kind: one notification stands for frames,
\* commands and edges that came together (can_tasks.c:45, 68 and 241).
NoLostWakeup == NoLostRxWakeup /\ NoLostTxWakeup

\* can_tasks.c:80-92.  memcpy never writes past the end of usb_batch_buf.
BatchBound == batchLen <= BatchCap

\* can_tasks.c:96-100, "all packets with zero delay".  No frame stays in the
\* batch while the task sleeps, yields or waits to transmit.
NothingHeldBack ==
  rxPc \in {"wait", "yield", "txpop", "txtake", "txstatus", "txreset",
            "txroom", "txwrite", "confirm"} => batch = <<>> /\ hand = 0

\* The batch buffer: nothing is written past its end, and nothing stays in it
\* however the drain loop ends (can_tasks.c:70-100).
BatchSafe == BatchBound /\ NothingHeldBack

\* mcp2517fd.c:524-529.  RXOVIF stays raised until the receive task has counted
\* it, loss after loss, whatever transfer fails and however the drain loop ends.
\* Not said of a loss between the counting and the clearing of the flag
\* (525-528): the code clears that one uncounted.
LossCounted == owed => rxovif

\* The overflow counter never exceeds the frames really lost, although the flag
\* is cleared by a transfer of its own and may be raised in between; as long as
\* no transfer fails (a lost write leaves the flag raised, to be counted again).
NotOvercounted ==
  ovCount + (IF rxovif /\ rxPc # "clear" THEN 1 ELSE 0) <= Cardinality(lost)

Held == IF rxPc = "stream" THEN <<hand>> ELSE <<>>
Pending == batch \o Held \o rxFifo

\* No frame is lost by the software, duplicated or invented: every frame the
\* bus carried is at exactly one place, and the host sees them in order.
FramesConserved ==
  /\ 1..arrived = lost \cup dropped \cup Elems(hostRx) \cup Elems(Pending)
  /\ lost \cap (dropped \cup Elems(hostRx) \cup Elems(Pending)) = {}
  /\ dropped \cap (Elems(hostRx) \cup Elems(Pending)) = {}
  /\ Ascending(hostRx \o Pending)

\* The same promise in the terms of module FrameRelay.
Relay == INSTANCE FrameRelay WITH pending <- Pending, delivered <- hostRx
RelaysFrames == Relay!RelaySpec

\* can_tasks.c:238-246 and 105-117.  A command that was reported as failed,
\* by NACK or by its confirmation, has no frame on the bus and none waiting:
\* the host may send it again without sending it twice.  Failed transfers do not
\* change that, but for the read of the user address (TxAddressFault): the code
\* does not look at its result and may queue the object of any earlier command.
RetrySafe ==
  ~stray => \A c \in Cmd :
    ack[c] = "busy" \/ conf[c] = "busy" =>
      c \notin Elems(onBus) \cup Elems(txFifo) \cup Elems(txQueue)

InHand == IF txItem # 0 /\ rxPc # "confirm" THEN <<txItem>> ELSE <<>>

\* Frames are sent in the order of the host's commands and none twice, as long
\* as no stale object was queued (TxAddressFault).
SentInOrder == ~stray => Ascending(onBus \o txFifo \o InHand \o txQueue)

\* can_tasks.c:105-117 and 231-246.  Commands are answered, sent and confirmed
\* as module CommandRelay says: in their order, none twice, and reported as
\* failed only when no frame of theirs can be sent any more; one failed transfer
\* alone, that of the user address, puts a stale object in the place of one.
Unconfirmed == (IF txItem # 0 THEN <<txItem>> ELSE <<>>) \o txQueue
Commands == INSTANCE CommandRelay WITH inside <- txFifo \o InHand \o txQueue,
                                       due <- Unconfirmed
RelaysCommands == Commands!CommandSpec

\* can_tasks.c:70-100.  However many frames the bus carries before it pauses,
\* they all leave the FIFO and the batch, for the host or a USB write that is
\* refused (FramesConserved): no lost wake-up strands one.
EveryFrameLeaves == <>[](Pending = <<>>)

\* can_tasks.c:105-117.  However many commands the host sends before it pauses,
\* every one that was acknowledged comes to its confirmation, whatever the
\* control commands and the other tasks do with the mutex.  The host hears of it
\* unless the link refuses the message ("lost"): the code looks at no result and
\* sends none again.
EveryCommandConfirmed ==
  <>[](\A c \in Cmd : ack[c] = "ok" => conf[c] # "none")

(* What the protocol's documentation says and the code does not do.         *)

\* usb_protocol.h:122-126, a TX_CONFIRM carries the "Transmitted CAN ID": a
\* frame confirmed as sent is sent sooner or later.
ConfirmMeansSent ==
  \A c \in Cmd : conf[c] = "ok" ~> c \in Elems(onBus)
=============================================================================
