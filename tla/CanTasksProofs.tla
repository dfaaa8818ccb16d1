--------------------------- MODULE CanTasksProofs ---------------------------
(***************************************************************************)
(* Safety of module CanTasks for every value of its constants; what its     *)
(* tasks promise about the frames themselves: transmit commands keep their  *)
(* order, a refused one leaves no frame behind, and the tasks implement     *)
(* module CommandRelay; received frames are conserved and relayed as module *)
(* FrameRelay says, as long as no SPI transfer fails.                       *)
(***************************************************************************)
EXTENDS CanTasks, SequenceTheorems, FiniteSetTheorems, TLAPS

Sending == {"txpop", "txtake", "txstatus", "txreset", "txroom", "txwrite",
            "confirm"}
Blocked == {"boot", "wait", "yield"}

\* What the receive task knows at each place: while it holds the mutex nobody
\* empties the FIFO it reads or fills the FIFO it writes; outside the drain
\* loop it keeps no frame back.
Places ==
  /\ rxPc \in {"clear", "read", "uinc"} => rxFifo # <<>>
  /\ rxPc = "txwrite" => Len(txFifo) < TxDepth
  /\ rxPc \in {"uinc", "stream"} <=> hand # 0
  /\ rxPc \in {"txtake", "txstatus", "txreset", "txroom", "txwrite", "confirm"}
       <=> txItem # 0
  /\ rxPc \in Sending \cup Blocked => batch = <<>>
  /\ batchLen = 0 => batch = <<>>

\* The two wake-ups, with what they need before the tasks exist.
Wakeups ==
  /\ NoLostRxWakeup
  /\ rxPc \in Blocked /\ txQueue # <<>> => notify \/ usbPc = "notify"
  /\ rxPc = "boot" => ~drained /\ txQueue = <<>>

\* RXOVIF is raised while a loss is owed; where it is about to be cleared, none
\* is.
Counted == LossCounted /\ (rxPc = "clear" => ~owed)

IInv == TypeOK /\ MutexExcludes /\ Places /\ Wakeups /\ Counted /\ BatchBound

\* The elements of a sequence over a set are in the set.
LEMMA ElemsSubset ==
  ASSUME NEW S, NEW s \in Seq(S) PROVE Elems(s) \subseteq S
  BY ElementOfSeq, LenProperties DEF Elems

USE DEF chipRx, chipTx, signals, rxTask, stream, txTask, usbTask, vars

\* The capacities and bounds are numbers.
LEMMA Bounds ==
  /\ RxDepth \in Nat /\ RxDepth > 0 /\ TxDepth \in Nat /\ TxDepth > 0
  /\ QueueLen \in Nat /\ BatchCap \in Nat /\ FlushAt \in Nat
  /\ MaxRx \in Nat /\ MaxTx \in Nat /\ MaxCtl \in Nat /\ MaxFaults \in Nat
  /\ MaxRefused \in Nat
  BY DepthAssumption, BatchAssumption, BoundAssumption

\* Every packet takes room in the batch.
LEMMA PktBytes ==
  ASSUME NEW f \in Frame PROVE PktSize[f] \in Nat /\ PktSize[f] > 0
  BY PktAssumption, Bounds DEF Frame

\* A batch that is sent or dropped leaves well-typed buffers.
LEMMA SendBatchType ==
  ASSUME TypeOK, SendBatch
  PROVE  /\ batch' \in Seq(Frame) /\ batchLen' \in Nat
         /\ hostRx' \in Seq(Frame) /\ dropped' \subseteq Frame
         /\ refused' \in 0..MaxRefused
<1>1. hostRx \o batch \in Seq(Frame) /\ Elems(batch) \subseteq Frame
  BY ConcatProperties, ElemsSubset DEF TypeOK
<1>2. <<>> \in Seq(Frame)
  BY EmptySeq
<1>3. refused' \in 0..MaxRefused
  BY Bounds, SMTT(40) DEF TypeOK, SendBatch, LinkRefuses
<1> QED BY <1>1, <1>2, <1>3 DEF TypeOK, SendBatch

\* An answer is one of the three, and the refusals stay within their bound.
LEMMA ReplyType ==
  ASSUME TypeOK, NEW answer \in Replies, NEW reply, Reply(answer, reply)
  PROVE  reply \in Replies /\ refused' \in 0..MaxRefused
  BY Bounds, SMTT(40) DEF TypeOK, Reply, Replies, LinkRefuses

\* The object written over slot 0 leaves a FIFO of the same length.
LEMMA Overwritten ==
  ASSUME TypeOK, TxAddressFault
  PROVE  /\ rxFifo' \in Seq(Frame) /\ Len(rxFifo') = Len(rxFifo)
         /\ (rxFifo' = <<>>) <=> (rxFifo = <<>>)
<1>1. rxFifo \in Seq(Frame) /\ Len(rxFifo) \in Nat /\ DOMAIN rxFifo = 1..Len(rxFifo)
  BY LenProperties DEF TypeOK
<1>2. Foreign \in Frame
  BY Bounds DEF Foreign, Frame
<1>3. rxFifo' \in [1..Len(rxFifo) -> Frame]
  BY <1>1, <1>2, ElementOfSeq DEF TxAddressFault
<1>4. rxFifo' \in Seq(Frame)
  BY <1>1, <1>3, IsASeq
<1>5. Len(rxFifo') = Len(rxFifo)
  BY <1>1, <1>3, <1>4, LenProperties
<1> QED BY <1>1, <1>4, <1>5, EmptySeq

\* What is queued in the TX FIFO, where it has room.
LEMMA QueueType ==
  ASSUME TypeOK, Len(txFifo) < TxDepth, NEW object \in Item, Queue(object)
  PROVE  /\ txFifo' \in Seq(Item) /\ Len(txFifo') <= TxDepth
         /\ txNext' \in 0..TxDepth - 1 /\ aborted' \in BOOLEAN
<1>1. /\ Append(txFifo, object) \in Seq(Item)
      /\ Len(Append(txFifo, object)) = Len(txFifo) + 1
  BY AppendProperties DEF TypeOK
<1>2. Len(txFifo) + 1 <= TxDepth
  BY LenProperties, Bounds DEF TypeOK
<1>3. (txNext + 1) % TxDepth \in 0..TxDepth - 1
  BY Bounds DEF TypeOK
<1> QED BY <1>1, <1>2, <1>3 DEF Queue

\* What the task holds is a frame or none, a command or none.
LEMMA HeldType ==
  ASSUME TypeOK
  PROVE  /\ txItem \in Nat /\ (txItem # 0 => txItem \in Cmd)
         /\ rxSlot0 \in Nat /\ rxSlot0 # 0
<1>1. txItem \in Item /\ rxSlot0 \in Frame
  BY DEF TypeOK
<1> QED BY <1>1, Bounds DEF Item, Cmd, Frame

\* A step that moves the receive task and takes a notification or a new round.
LEMMA MoveType ==
  ASSUME TypeOK, rxPc' \in RxPcs, drained' \in BOOLEAN, notify' \in BOOLEAN,
         rxovif' \in BOOLEAN, txOk' \in BOOLEAN,
         UNCHANGED <<rxFifo, rxSlot0, arrived, lost, owed, chipTx, edge, mutex,
                     faults, hand, ovCount, stream, txItem, conf, txQueue, usbTask>>
  PROVE  TypeOK'
  BY ZenonT(40) DEF TypeOK

\* A step keeps every variable in its type.
LEMMA TypeStep ==
  ASSUME TypeOK, MutexExcludes, Places, [Next]_vars
  PROVE  TypeOK'
<1> USE DEF TypeOK, RxPcs, UsbPcs
<1>1. CASE Arrive
  <2>1. arrived + 1 \in Frame /\ arrived + 1 \in 0..MaxRx
    BY <1>1, Bounds DEF Arrive, Frame
  <2>2. edge' \in BOOLEAN /\ owed' \in BOOLEAN /\ rxSlot0' \in Frame
    BY <1>1, <2>1 DEF Arrive
  <2>3. CASE Len(rxFifo) < RxDepth
    <3>1. /\ Append(rxFifo, arrived + 1) \in Seq(Frame)
          /\ Len(Append(rxFifo, arrived + 1)) = Len(rxFifo) + 1
      BY <2>1, AppendProperties
    <3>2. Len(rxFifo') <= RxDepth
      BY <1>1, <2>3, <3>1, LenProperties, Bounds DEF Arrive
    <3>3. /\ rxFifo' = Append(rxFifo, arrived + 1) /\ arrived' = arrived + 1
          /\ UNCHANGED <<rxovif, lost, chipTx, notify, mutex, faults, rxTask,
                         stream, txTask, txQueue, usbTask>>
      BY <1>1, <2>3 DEF Arrive
    <3> QED BY <2>1, <2>2, <3>1, <3>2, <3>3, SMTT(40)
  <2>4. CASE ~(Len(rxFifo) < RxDepth)
    BY <1>1, <2>1, <2>2, <2>4, SMTT(40) DEF Arrive
  <2> QED BY <2>3, <2>4
<1>2. CASE ChipTransmit
  <2>1. /\ Head(txFifo) \in Item /\ Tail(txFifo) \in Seq(Item)
        /\ Len(Tail(txFifo)) = Len(txFifo) - 1
    BY <1>2, HeadTailProperties DEF ChipTransmit
  <2>2. Append(onBus, Head(txFifo)) \in Seq(Item)
    BY <2>1, AppendProperties
  <2>3. Len(txFifo') <= TxDepth
    <3>1. Len(txFifo) \in Nat /\ Len(txFifo) <= TxDepth
      BY LenProperties
    <3>2. Len(Tail(txFifo)) <= TxDepth
      BY <2>1, <3>1, Bounds
    <3>3. txFifo' = Tail(txFifo)
      BY <1>2 DEF ChipTransmit
    <3> QED BY <3>2, <3>3
  <2>4. UNCHANGED <<chipRx, txFlag, aborted, txRam, txNext, stray, signals,
                    mutex, faults, rxTask, stream, txTask, txQueue, usbTask>>
    BY <1>2, SMTT(40) DEF ChipTransmit
  <2>5. onBus' \in Seq(Item) /\ txFifo' \in Seq(Item)
    BY <1>2, <2>1, <2>2 DEF ChipTransmit
  <2> QED BY <2>3, <2>4, <2>5, SMTT(40)
<1>3. CASE Isr
  <2>1. edge' \in BOOLEAN /\ notify' \in BOOLEAN
    BY <1>3 DEF Isr
  <2>2. UNCHANGED <<chipRx, chipTx, mutex, faults, rxTask, stream, txTask,
                    txQueue, usbTask>>
    BY <1>3 DEF Isr
  <2> QED BY <2>1, <2>2
<1>4. CASE ChipTxError
  BY <1>4 DEF ChipTxError
<1>5. CASE DiagTake
  BY <1>5 DEF DiagTake
<1>6. CASE DiagGive
  BY <1>6 DEF DiagGive
<1>7. CASE StartTasks
  BY <1>7 DEF StartTasks
<1>8. CASE RxWake
  <2>1. rxPc' \in RxPcs /\ drained' \in BOOLEAN /\ notify' \in BOOLEAN
    BY <1>8 DEF RxWake
  <2> QED BY <1>8, <2>1, MoveType DEF RxWake
<1>9. CASE RxTimeout
  <2>1. rxPc' \in RxPcs /\ drained' \in BOOLEAN /\ notify' \in BOOLEAN
    BY <1>9 DEF RxTimeout
  <2> QED BY <1>9, <2>1, MoveType DEF RxTimeout
<1>10. CASE RxTake
  BY <1>10 DEF RxTake
<1>11. CASE RxTakeTimeout
  BY <1>11 DEF RxTakeTimeout
<1>12. CASE RxClear
  <2>1. rxPc' \in RxPcs /\ rxovif' \in BOOLEAN
    BY <1>12 DEF RxClear
  <2> QED BY <1>12, <2>1, MoveType DEF RxClear
<1>13. CASE TxNone
  BY <1>13 DEF TxNone
<1>14. CASE Yielded
  BY <1>14 DEF Yielded
<1>15. CASE TxTake
  BY <1>15 DEF TxTake
<1>16. CASE UsbNotify
  BY <1>16 DEF UsbNotify
<1>17. CASE CtlTake
  BY <1>17 DEF CtlTake
<1>18. CASE CtlTakeTimeout
  BY <1>18 DEF CtlTakeTimeout
<1>19. CASE CtlNoChange
  BY <1>19 DEF CtlNoChange
<1>20. CASE CtlGive
  BY <1>20 DEF CtlGive
<1>21. CASE UsbControl
  <2>1. ctls' \in 0..MaxCtl
    BY <1>21, Bounds DEF UsbControl
  <2> QED BY <1>21, <2>1 DEF UsbControl
<1>22. CASE CtlAbort
  <2>1. txFlag' \in BOOLEAN /\ aborted' \in BOOLEAN
    BY <1>22 DEF CtlAbort
  <2> QED BY <1>22, <2>1 DEF CtlAbort
<1>23. CASE TxReset
  <2>1. /\ txFifo' \in Seq(Item) /\ Len(txFifo') <= TxDepth
        /\ txNext' \in 0..TxDepth - 1
    BY <1>23, EmptySeq, Bounds DEF TxReset
  <2>2. rxPc' \in RxPcs /\ txFlag' \in BOOLEAN /\ aborted' \in BOOLEAN
    BY <1>23 DEF TxReset
  <2>3. UNCHANGED <<chipRx, txRam, onBus, stray, signals, mutex, faults, drained,
                    hand, ovCount, stream, txTask, txQueue, usbTask>>
    BY <1>23 DEF TxReset
  <2> QED BY <2>1, <2>2, <2>3, SMTT(40)
<1>24. CASE RxStatus
  <2>1. ovCount' \in Nat /\ owed' \in BOOLEAN
    BY <1>24, SMTT(40) DEF RxStatus
  <2>2. rxPc' \in RxPcs /\ mutex' \in {"none", "rx"} /\ drained' \in BOOLEAN
    BY <1>24 DEF RxStatus, MutexExcludes
  <2> QED BY <1>24, <2>1, <2>2 DEF RxStatus
<1>25. CASE TxConfirm
  <2>1. PICK reply \in Replies :
          /\ Reply(IF txOk THEN "ok" ELSE "busy", reply)
          /\ conf' = [conf EXCEPT ![txItem] = reply]
    BY <1>25 DEF TxConfirm
  <2>2. refused' \in 0..MaxRefused
    BY <2>1, ReplyType DEF Replies
  <2>3. conf' \in [Cmd -> {"none"} \cup Replies]
    BY <2>1
  <2>4. txItem' \in Item
    BY <1>25, Bounds DEF TxConfirm, Item
  <2> QED BY <1>25, <2>2, <2>3, <2>4, SMTT(40) DEF TxConfirm
<1>26. CASE UsbAck
  <2>1. PICK reply \in Replies :
          Reply("ok", reply) /\ ack' = [ack EXCEPT ![issued] = reply]
    BY <1>26 DEF UsbAck
  <2>2. refused' \in 0..MaxRefused
    BY <2>1, ReplyType DEF Replies
  <2>3. ack' \in [Cmd -> {"none"} \cup Replies]
    BY <2>1
  <2> QED BY <1>26, <2>2, <2>3, SMTT(40) DEF UsbAck
<1>27. CASE RxRead
  <2>1. Head(rxFifo) \in Frame
    BY <1>27, HeadTailProperties DEF RxRead, Places
  <2>2. hand' \in 0..MaxRx + 1
    BY <1>27, <2>1, Bounds DEF RxRead, Frame
  <2> QED BY <1>27, <2>2, SMTT(40) DEF RxRead
<1>28. CASE RxUinc
  <2>1. Tail(rxFifo) \in Seq(Frame) /\ Len(Tail(rxFifo)) = Len(rxFifo) - 1
    BY <1>28, HeadTailProperties DEF RxUinc, Places
  <2>2. Len(rxFifo') <= RxDepth
    BY <1>28, <2>1, LenProperties, Bounds DEF RxUinc
  <2> QED BY <1>28, <2>1, <2>2 DEF RxUinc
<1>29. CASE RxSpill
  <2>1. SendBatch => /\ batch' \in Seq(Frame) /\ batchLen' \in Nat
                     /\ hostRx' \in Seq(Frame) /\ dropped' \subseteq Frame
                     /\ refused' \in 0..MaxRefused
    BY SendBatchType
  <2> QED BY <1>29, <2>1, SMTT(40) DEF RxSpill
<1>30. CASE RxChunk
  <2>1. SendBatch => /\ batch' \in Seq(Frame) /\ batchLen' \in Nat
                     /\ hostRx' \in Seq(Frame) /\ dropped' \subseteq Frame
                     /\ refused' \in 0..MaxRefused
    BY SendBatchType
  <2> QED BY <1>30, <2>1, SMTT(40) DEF RxChunk
<1>31. CASE RxFlush
  <2>1. SendBatch => /\ batch' \in Seq(Frame) /\ batchLen' \in Nat
                     /\ hostRx' \in Seq(Frame) /\ dropped' \subseteq Frame
                     /\ refused' \in 0..MaxRefused
    BY SendBatchType
  <2> QED BY <1>31, <2>1, SMTT(40) DEF RxFlush
<1>32. CASE RxAppend
  <2>1. hand \in Frame
    BY <1>32, Bounds DEF RxAppend, Places, Frame
  <2>2. Append(batch, hand) \in Seq(Frame) /\ PktSize[hand] \in Nat
    BY <2>1, AppendProperties, PktBytes
  <2>3. hand' \in 0..MaxRx + 1 /\ batchLen' \in Nat /\ batch' \in Seq(Frame)
    BY <1>32, <2>2, Bounds, SMTT(30) DEF RxAppend
  <2> QED BY <1>32, <2>3, SMTT(30) DEF RxAppend
<1>33. CASE TxPop
  <2>1. /\ Head(txQueue) \in Cmd /\ Tail(txQueue) \in Seq(Cmd)
        /\ Len(Tail(txQueue)) = Len(txQueue) - 1
    BY <1>33, HeadTailProperties DEF TxPop
  <2>2. txItem' \in Item /\ Len(txQueue') <= QueueLen
    BY <1>33, <2>1, LenProperties, Bounds, SMTT(40) DEF TxPop, Cmd, Item
  <2> QED BY <1>33, <2>1, <2>2, SMTT(30) DEF TxPop
<1>34. CASE TxTakeTimeout
  <2>1. rxPc' \in RxPcs /\ txOk' \in BOOLEAN
    BY <1>34 DEF TxTakeTimeout, TxEnd
  <2> QED BY <1>34, <2>1, MoveType DEF TxTakeTimeout, TxEnd
<1>35. CASE TxStatus
  <2>1. /\ rxPc' \in RxPcs /\ mutex' \in {mutex, "none"} /\ txOk' \in BOOLEAN
        /\ UNCHANGED <<drained, hand, ovCount, txItem, conf>>
    BY <1>35 DEF TxStatus, TxEnd
  <2>2. UNCHANGED <<chipRx, chipTx, signals, faults, stream, txQueue, usbTask>>
    BY <1>35 DEF TxStatus
  <2> QED BY <2>1, <2>2
<1>36. CASE TxWrite
  <2>1. /\ txFifo' \in Seq(Item) /\ Len(txFifo') <= TxDepth
        /\ txNext' \in 0..TxDepth - 1 /\ aborted' \in BOOLEAN
    BY <1>36, QueueType DEF TxWrite, Places
  <2>2. txRam' \in [0..TxDepth - 1 -> Item]
    BY <1>36 DEF TxWrite
  <2>3. rxPc' \in RxPcs /\ mutex' \in {mutex, "none"} /\ txOk' \in BOOLEAN
    BY <1>36 DEF TxWrite, TxEnd
  <2>4. UNCHANGED <<chipRx, txFlag, onBus, stray, signals, faults, stream, txQueue,
                    usbTask, drained, hand, ovCount, txItem, conf>>
    BY <1>36 DEF TxWrite, TxEnd
  <2> QED BY <2>1, <2>2, <2>3, <2>4, SMTT(40)
<1>37. CASE UsbTxFrame
  <2>1. issued + 1 \in Cmd /\ issued + 1 \in 0..MaxTx
    BY <1>37, Bounds DEF UsbTxFrame, Cmd
  <2>2. /\ Append(txQueue, issued + 1) \in Seq(Cmd)
        /\ Len(Append(txQueue, issued + 1)) = Len(txQueue) + 1
    BY <2>1, AppendProperties
  <2>3. txQueue' \in Seq(Cmd) /\ Len(txQueue') <= QueueLen
    <3>1. Len(txQueue) \in Nat /\ Len(txQueue) <= QueueLen
      BY LenProperties
    <3>2. CASE Len(txQueue) < QueueLen
      <4>1. txQueue' = Append(txQueue, issued + 1)
        BY <1>37, <3>2 DEF UsbTxFrame
      <4>2. Len(Append(txQueue, issued + 1)) <= QueueLen
        BY <2>2, <3>1, <3>2, Bounds
      <4> QED BY <2>2, <4>1, <4>2
    <3>3. CASE ~(Len(txQueue) < QueueLen)
      BY <1>37, <3>1, <3>3 DEF UsbTxFrame
    <3> QED BY <3>2, <3>3
  <2>4. ack' \in [Cmd -> {"none"} \cup Replies] /\ refused' \in 0..MaxRefused
    <3>1. CASE Len(txQueue) < QueueLen
      BY <1>37, <3>1 DEF UsbTxFrame
    <3>2. CASE ~(Len(txQueue) < QueueLen)
      <4>1. PICK reply \in Replies :
              /\ Reply("busy", reply)
              /\ ack' = [ack EXCEPT ![issued + 1] = reply]
        BY <1>37, <3>2 DEF UsbTxFrame
      <4>2. refused' \in 0..MaxRefused
        BY <4>1, ReplyType DEF Replies
      <4> QED BY <4>1, <4>2
    <3> QED BY <3>1, <3>2
  <2>5. usbPc' \in UsbPcs
    BY <1>37 DEF UsbTxFrame
  <2>6. /\ issued' = issued + 1
        /\ UNCHANGED <<chipRx, chipTx, signals, mutex, faults, rxTask, batch,
                       batchLen, hostRx, dropped, txTask, ctls>>
    BY <1>37 DEF UsbTxFrame
  <2> QED BY <2>1, <2>3, <2>4, <2>5, <2>6, SMTT(40)
<1>38. CASE RxExitFault
  <2>1. faults' \in 0..MaxFaults
    BY <1>38, Bounds DEF RxExitFault, SpiFault
  <2> QED BY <1>38, <2>1 DEF RxExitFault
<1>39. CASE RxClearFault
  <2>1. faults' \in 0..MaxFaults
    BY <1>39, Bounds DEF RxClearFault, SpiFault
  <2> QED BY <1>39, <2>1 DEF RxClearFault
<1>40. CASE RxUincFault
  <2>1. faults' \in 0..MaxFaults
    BY <1>40, Bounds DEF RxUincFault, SpiFault
  <2> QED BY <1>40, <2>1 DEF RxUincFault
<1>41. CASE RxAddressFault
  <2>1. faults' \in 0..MaxFaults
    BY <1>41, Bounds DEF RxAddressFault, SpiFault
  <2>2. hand' \in 0..MaxRx + 1
    BY <1>41, Bounds DEF RxAddressFault, Frame
  <2> QED BY <1>41, <2>1, <2>2, SMTT(40) DEF RxAddressFault
<1>42. CASE TxStatusFault
  <2>1. faults' \in 0..MaxFaults
    BY <1>42, Bounds DEF TxStatusFault, SpiFault
  <2>2. rxPc' \in RxPcs /\ mutex' \in {mutex, "none"} /\ txOk' \in BOOLEAN
    BY <1>42 DEF TxStatusFault, TxEnd
  <2> QED BY <1>42, <2>1, <2>2, SMTT(30) DEF TxStatusFault, TxEnd
<1>43. CASE TxResetFault
  <2>1. faults' \in 0..MaxFaults
    BY <1>43, Bounds DEF TxResetFault, SpiFault
  <2> QED BY <1>43, <2>1 DEF TxResetFault
<1>44. CASE TxWriteFault
  <2>1. faults' \in 0..MaxFaults
    BY <1>44, Bounds DEF TxWriteFault, SpiFault
  <2>2. rxPc' \in RxPcs /\ mutex' \in {mutex, "none"} /\ txOk' \in BOOLEAN
    BY <1>44 DEF TxWriteFault, TxEnd
  <2>3. txRam' \in [0..TxDepth - 1 -> Item]
    BY <1>44 DEF TxWriteFault
  <2>4. UNCHANGED <<chipRx, txFifo, txFlag, aborted, txNext, onBus, stray, signals,
                    stream, txQueue, usbTask, drained, hand, ovCount, txItem, conf>>
    BY <1>44 DEF TxWriteFault, TxEnd
  <2> QED BY <2>1, <2>2, <2>3, <2>4
<1>45. CASE TxRoom
  <2>1. /\ rxPc' \in RxPcs /\ mutex' \in {mutex, "none"} /\ txOk' \in BOOLEAN
        /\ UNCHANGED <<drained, hand, ovCount, txItem, conf>>
    BY <1>45 DEF TxRoom, TxEnd
  <2>2. UNCHANGED <<chipRx, chipTx, signals, faults, stream, txQueue, usbTask>>
    BY <1>45 DEF TxRoom
  <2> QED BY <2>1, <2>2
<1>46. CASE TxAddressFault
  <2>1. faults' \in 0..MaxFaults
    <3>1. faults \in 0..MaxFaults /\ faults < MaxFaults /\ faults' = faults + 1
      BY <1>46, ZenonT(40) DEF TxAddressFault, SpiFault
    <3> HIDE DEF TypeOK
    <3> QED BY <3>1, Bounds
  <2>2. rxFifo' \in Seq(Frame) /\ Len(rxFifo') <= RxDepth /\ rxSlot0' \in Frame
    <3>1. rxSlot0' = Foreign /\ Len(rxFifo) <= RxDepth
      BY <1>46, ZenonT(40) DEF TxAddressFault
    <3> HIDE DEF TypeOK
    <3> QED BY <1>46, <3>1, Overwritten, Bounds DEF Foreign, Frame
  <2>3. /\ txFifo' \in Seq(Item) /\ Len(txFifo') <= TxDepth
        /\ txNext' \in 0..TxDepth - 1 /\ aborted' \in BOOLEAN
    BY <1>46, QueueType DEF TxAddressFault, Places
  <2>4. /\ rxPc' \in RxPcs /\ mutex' \in {mutex, "none"} /\ txOk' \in BOOLEAN
        /\ stray' \in BOOLEAN
    BY <1>46 DEF TxAddressFault, TxEnd
  <2>5. UNCHANGED <<rxovif, arrived, lost, owed, txFlag, txRam, onBus, signals,
                    stream, txQueue, usbTask, drained, hand, ovCount, txItem, conf>>
    BY <1>46 DEF TxAddressFault, TxEnd
  <2> QED BY <2>1, <2>2, <2>3, <2>4, <2>5, SMTT(40)
<1>47. CASE UNCHANGED vars
  BY <1>47
<1> QED
  BY <1>1, <1>2, <1>3, <1>4, <1>5, <1>6, <1>7, <1>8, <1>9, <1>10, <1>11,
     <1>12, <1>13, <1>14, <1>15, <1>16, <1>17, <1>18, <1>19, <1>20, <1>21, <1>22,
     <1>23, <1>24, <1>25, <1>26, <1>27, <1>28, <1>29, <1>30, <1>31, <1>32, <1>33,
     <1>34, <1>35, <1>36, <1>37, <1>38, <1>39, <1>40, <1>41, <1>42, <1>43, <1>44,
     <1>45, <1>46, <1>47
  DEF Next, RxTaskStep, FaultStep, UsbStep, UsbFinish, ChipStep

\* A step keeps the mutex with the one task that is inside it.
LEMMA MutexStep ==
  ASSUME TypeOK, MutexExcludes, [Next]_vars
  PROVE  MutexExcludes'
<1> USE DEF MutexExcludes
<1>1. CASE Arrive
  BY <1>1 DEF Arrive
<1>2. CASE ChipTransmit
  BY <1>2 DEF ChipTransmit
<1>3. CASE ChipTxError
  BY <1>3 DEF ChipTxError
<1>4. CASE Isr
  BY <1>4 DEF Isr
<1>5. CASE DiagTake
  BY <1>5 DEF DiagTake
<1>6. CASE DiagGive
  BY <1>6 DEF DiagGive
<1>7. CASE StartTasks
  BY <1>7 DEF StartTasks
<1>8. CASE RxWake
  BY <1>8 DEF RxWake
<1>9. CASE RxTimeout
  BY <1>9 DEF RxTimeout
<1>10. CASE RxTake
  BY <1>10 DEF RxTake
<1>11. CASE RxTakeTimeout
  BY <1>11 DEF RxTakeTimeout
<1>12. CASE RxStatus
  BY <1>12 DEF RxStatus
<1>13. CASE RxClear
  BY <1>13 DEF RxClear
<1>14. CASE RxRead
  BY <1>14 DEF RxRead
<1>15. CASE RxUinc
  BY <1>15 DEF RxUinc
<1>16. CASE RxSpill
  BY <1>16 DEF RxSpill, SendBatch
<1>17. CASE RxAppend
  BY <1>17 DEF RxAppend
<1>18. CASE RxChunk
  BY <1>18 DEF RxChunk, SendBatch
<1>19. CASE RxFlush
  BY <1>19 DEF RxFlush, SendBatch
<1>20. CASE TxPop
  BY <1>20 DEF TxPop
<1>21. CASE TxNone
  BY <1>21 DEF TxNone
<1>22. CASE Yielded
  BY <1>22 DEF Yielded
<1>23. CASE TxTake
  BY <1>23 DEF TxTake
<1>24. CASE TxTakeTimeout
  BY <1>24 DEF TxTakeTimeout, TxEnd
<1>25. CASE TxStatus
  BY <1>25 DEF TxStatus, TxEnd
<1>26. CASE TxReset
  BY <1>26 DEF TxReset
<1>27. CASE TxWrite
  BY <1>27 DEF TxWrite, TxEnd
<1>28. CASE TxConfirm
  BY <1>28 DEF TxConfirm
<1>29. CASE RxExitFault
  BY <1>29 DEF RxExitFault
<1>30. CASE RxClearFault
  BY <1>30 DEF RxClearFault
<1>31. CASE RxAddressFault
  BY <1>31 DEF RxAddressFault
<1>32. CASE RxUincFault
  BY <1>32 DEF RxUincFault
<1>33. CASE TxStatusFault
  BY <1>33 DEF TxStatusFault, TxEnd
<1>34. CASE TxResetFault
  BY <1>34 DEF TxResetFault, TxEnd
<1>35. CASE TxWriteFault
  BY <1>35 DEF TxWriteFault, TxEnd
<1>36. CASE UsbTxFrame
  BY <1>36 DEF UsbTxFrame, CanIssue
<1>37. CASE UsbNotify
  BY <1>37 DEF UsbNotify
<1>38. CASE UsbAck
  BY <1>38 DEF UsbAck
<1>39. CASE UsbControl
  BY <1>39 DEF UsbControl, CanIssue
<1>40. CASE CtlTake
  BY <1>40 DEF CtlTake
<1>41. CASE CtlTakeTimeout
  BY <1>41 DEF CtlTakeTimeout
<1>42. CASE CtlAbort
  BY <1>42 DEF CtlAbort
<1>43. CASE CtlNoChange
  BY <1>43 DEF CtlNoChange
<1>44. CASE CtlGive
  BY <1>44 DEF CtlGive
<1>45. CASE TxRoom
  BY <1>45 DEF TxRoom, TxEnd
<1>46. CASE TxAddressFault
  BY <1>46 DEF TxAddressFault, TxEnd
<1>47. CASE UNCHANGED vars
  BY <1>47
<1> QED
  BY <1>1, <1>2, <1>3, <1>4, <1>5, <1>6, <1>7, <1>8, <1>9, <1>10, <1>11,
     <1>12, <1>13, <1>14, <1>15, <1>16, <1>17, <1>18, <1>19, <1>20, <1>21, <1>22,
     <1>23, <1>24, <1>25, <1>26, <1>27, <1>28, <1>29, <1>30, <1>31, <1>32, <1>33,
     <1>34, <1>35, <1>36, <1>37, <1>38, <1>39, <1>40, <1>41, <1>42, <1>43, <1>44,
     <1>45, <1>46, <1>47
  DEF Next, RxTaskStep, FaultStep, UsbStep, UsbFinish, ChipStep

\* A step keeps what the receive task knows at each place.
LEMMA PlacesStep ==
  ASSUME TypeOK, MutexExcludes, Places, [Next]_vars
  PROVE  Places'
<1> USE DEF Places, MutexExcludes, Sending, Blocked
<1>1. CASE Arrive
  BY <1>1 DEF Arrive
<1>2. CASE ChipTransmit
  <2>1. Len(Tail(txFifo)) = Len(txFifo) - 1 /\ Len(txFifo) \in Nat
    BY <1>2, HeadTailProperties, LenProperties DEF ChipTransmit, TypeOK
  <2>2. Len(txFifo) < TxDepth => Len(Tail(txFifo)) < TxDepth
    BY <2>1, Bounds
  <2> QED BY <1>2, <2>2 DEF ChipTransmit
<1>3. CASE ChipTxError
  BY <1>3 DEF ChipTxError
<1>4. CASE Isr
  BY <1>4 DEF Isr
<1>5. CASE DiagTake
  BY <1>5 DEF DiagTake
<1>6. CASE DiagGive
  BY <1>6 DEF DiagGive
<1>7. CASE StartTasks
  BY <1>7 DEF StartTasks
<1>8. CASE RxWake
  BY <1>8 DEF RxWake
<1>9. CASE RxTimeout
  BY <1>9 DEF RxTimeout
<1>10. CASE RxTake
  BY <1>10 DEF RxTake
<1>11. CASE RxTakeTimeout
  BY <1>11 DEF RxTakeTimeout
<1>12. CASE RxStatus
  BY <1>12 DEF RxStatus
<1>13. CASE RxClear
  BY <1>13 DEF RxClear
<1>14. CASE RxRead
  <2>1. Head(rxFifo) \in Frame
    BY <1>14, HeadTailProperties DEF RxRead, TypeOK
  <2>2. hand' # 0
    BY <1>14, <2>1, Bounds DEF RxRead, Frame
  <2> QED BY <1>14, <2>2 DEF RxRead
<1>15. CASE RxUinc
  BY <1>15 DEF RxUinc
<1>16. CASE RxSpill
  BY <1>16 DEF RxSpill, SendBatch
<1>17. CASE RxAppend
  <2>1. hand \in Frame
    BY <1>17, Bounds DEF RxAppend, TypeOK, Frame
  <2>2. batchLen + PktSize[hand] # 0
    BY <2>1, PktBytes, SMTT(30) DEF TypeOK
  <2> QED BY <1>17, <2>2 DEF RxAppend
<1>18. CASE RxChunk
  BY <1>18 DEF RxChunk, SendBatch
<1>19. CASE RxFlush
  <2>1. batch' = <<>>
    BY <1>19 DEF RxFlush, SendBatch, TypeOK
  <2> QED BY <1>19, <2>1 DEF RxFlush
<1>20. CASE TxPop
  <2>1. Head(txQueue) \in Cmd
    BY <1>20, HeadTailProperties DEF TxPop, TypeOK
  <2>2. txItem' # 0
    BY <1>20, <2>1, Bounds DEF TxPop, Cmd
  <2> QED BY <1>20, <2>2 DEF TxPop
<1>21. CASE TxNone
  BY <1>21 DEF TxNone
<1>22. CASE Yielded
  BY <1>22 DEF Yielded
<1>23. CASE TxTake
  BY <1>23 DEF TxTake
<1>24. CASE TxTakeTimeout
  BY <1>24 DEF TxTakeTimeout, TxEnd
<1>25. CASE TxStatus
  BY <1>25 DEF TxStatus, TxEnd
<1>26. CASE TxReset
  <2>1. Len(<<>>) < TxDepth
    BY Bounds
  <2> QED BY <1>26, <2>1 DEF TxReset
<1>27. CASE TxWrite
  BY <1>27 DEF TxWrite, TxEnd
<1>28. CASE TxConfirm
  BY <1>28 DEF TxConfirm
<1>29. CASE RxExitFault
  BY <1>29 DEF RxExitFault
<1>30. CASE RxClearFault
  BY <1>30 DEF RxClearFault
<1>31. CASE RxAddressFault
  <2>1. hand' # 0
    BY <1>31, HeldType DEF RxAddressFault
  <2> QED BY <1>31, <2>1 DEF RxAddressFault
<1>32. CASE RxUincFault
  BY <1>32 DEF RxUincFault
<1>33. CASE TxStatusFault
  BY <1>33 DEF TxStatusFault, TxEnd
<1>34. CASE TxResetFault
  BY <1>34 DEF TxResetFault, TxEnd
<1>35. CASE TxWriteFault
  BY <1>35 DEF TxWriteFault, TxEnd
<1>36. CASE UsbTxFrame
  BY <1>36 DEF UsbTxFrame, CanIssue
<1>37. CASE UsbNotify
  BY <1>37 DEF UsbNotify
<1>38. CASE UsbAck
  BY <1>38 DEF UsbAck
<1>39. CASE UsbControl
  BY <1>39 DEF UsbControl, CanIssue
<1>40. CASE CtlTake
  BY <1>40 DEF CtlTake
<1>41. CASE CtlTakeTimeout
  BY <1>41 DEF CtlTakeTimeout
<1>42. CASE CtlAbort
  BY <1>42 DEF CtlAbort
<1>43. CASE CtlNoChange
  BY <1>43 DEF CtlNoChange
<1>44. CASE CtlGive
  BY <1>44 DEF CtlGive
<1>45. CASE TxRoom
  BY <1>45 DEF TxRoom, TxEnd
<1>46. CASE TxAddressFault
  <2>1. (rxFifo' = <<>>) <=> (rxFifo = <<>>)
    BY <1>46, Overwritten
  <2> QED BY <1>46, <2>1 DEF TxAddressFault, TxEnd
<1>47. CASE UNCHANGED vars
  BY <1>47
<1> QED
  BY <1>1, <1>2, <1>3, <1>4, <1>5, <1>6, <1>7, <1>8, <1>9, <1>10, <1>11,
     <1>12, <1>13, <1>14, <1>15, <1>16, <1>17, <1>18, <1>19, <1>20, <1>21, <1>22,
     <1>23, <1>24, <1>25, <1>26, <1>27, <1>28, <1>29, <1>30, <1>31, <1>32, <1>33,
     <1>34, <1>35, <1>36, <1>37, <1>38, <1>39, <1>40, <1>41, <1>42, <1>43, <1>44,
     <1>45, <1>46, <1>47
  DEF Next, RxTaskStep, FaultStep, UsbStep, UsbFinish, ChipStep

\* A step that leaves work behind leaves a wake-up for it.
LEMMA WakeupsStep ==
  ASSUME TypeOK, Wakeups, [Next]_vars
  PROVE  Wakeups'
<1> USE DEF Wakeups, NoLostRxWakeup, Blocked
<1>1. CASE Arrive
  BY <1>1 DEF Arrive
<1>2. CASE ChipTransmit
  BY <1>2 DEF ChipTransmit
<1>3. CASE ChipTxError
  BY <1>3 DEF ChipTxError
<1>4. CASE Isr
  BY <1>4 DEF Isr
<1>5. CASE DiagTake
  BY <1>5 DEF DiagTake
<1>6. CASE DiagGive
  BY <1>6 DEF DiagGive
<1>7. CASE StartTasks
  BY <1>7 DEF StartTasks
<1>8. CASE RxWake
  BY <1>8 DEF RxWake
<1>9. CASE RxTimeout
  BY <1>9 DEF RxTimeout
<1>10. CASE RxTake
  BY <1>10 DEF RxTake
<1>11. CASE RxTakeTimeout
  BY <1>11 DEF RxTakeTimeout
<1>12. CASE RxStatus
  BY <1>12 DEF RxStatus
<1>13. CASE RxClear
  BY <1>13 DEF RxClear
<1>14. CASE RxRead
  BY <1>14 DEF RxRead
<1>15. CASE RxUinc
  BY <1>15 DEF RxUinc
<1>16. CASE RxSpill
  BY <1>16 DEF RxSpill, SendBatch
<1>17. CASE RxAppend
  BY <1>17 DEF RxAppend
<1>18. CASE RxChunk
  BY <1>18 DEF RxChunk, SendBatch
<1>19. CASE RxFlush
  BY <1>19 DEF RxFlush, SendBatch
<1>20. CASE TxPop
  BY <1>20 DEF TxPop
<1>21. CASE TxNone
  BY <1>21 DEF TxNone
<1>22. CASE Yielded
  BY <1>22 DEF Yielded
<1>23. CASE TxTake
  BY <1>23 DEF TxTake
<1>24. CASE TxTakeTimeout
  BY <1>24 DEF TxTakeTimeout, TxEnd
<1>25. CASE TxStatus
  BY <1>25 DEF TxStatus, TxEnd
<1>26. CASE TxReset
  BY <1>26 DEF TxReset
<1>27. CASE TxWrite
  BY <1>27 DEF TxWrite, TxEnd
<1>28. CASE TxConfirm
  BY <1>28 DEF TxConfirm
<1>29. CASE RxExitFault
  BY <1>29 DEF RxExitFault
<1>30. CASE RxClearFault
  BY <1>30 DEF RxClearFault
<1>31. CASE RxAddressFault
  BY <1>31 DEF RxAddressFault
<1>32. CASE RxUincFault
  BY <1>32 DEF RxUincFault
<1>33. CASE TxStatusFault
  BY <1>33 DEF TxStatusFault, TxEnd
<1>34. CASE TxResetFault
  BY <1>34 DEF TxResetFault, TxEnd
<1>35. CASE TxWriteFault
  BY <1>35 DEF TxWriteFault, TxEnd
<1>36. CASE UsbTxFrame
  BY <1>36 DEF UsbTxFrame, CanIssue
<1>37. CASE UsbNotify
  BY <1>37 DEF UsbNotify
<1>38. CASE UsbAck
  BY <1>38 DEF UsbAck
<1>39. CASE UsbControl
  BY <1>39 DEF UsbControl, CanIssue
<1>40. CASE CtlTake
  BY <1>40 DEF CtlTake
<1>41. CASE CtlTakeTimeout
  BY <1>41 DEF CtlTakeTimeout
<1>42. CASE CtlAbort
  BY <1>42 DEF CtlAbort
<1>43. CASE CtlNoChange
  BY <1>43 DEF CtlNoChange
<1>44. CASE CtlGive
  BY <1>44 DEF CtlGive
<1>45. CASE TxRoom
  BY <1>45 DEF TxRoom, TxEnd
<1>46. CASE TxAddressFault
  <2>1. (rxFifo' = <<>>) <=> (rxFifo = <<>>)
    BY <1>46, Overwritten
  <2> QED BY <1>46, <2>1 DEF TxAddressFault, TxEnd
<1>47. CASE UNCHANGED vars
  BY <1>47
<1> QED
  BY <1>1, <1>2, <1>3, <1>4, <1>5, <1>6, <1>7, <1>8, <1>9, <1>10, <1>11,
     <1>12, <1>13, <1>14, <1>15, <1>16, <1>17, <1>18, <1>19, <1>20, <1>21, <1>22,
     <1>23, <1>24, <1>25, <1>26, <1>27, <1>28, <1>29, <1>30, <1>31, <1>32, <1>33,
     <1>34, <1>35, <1>36, <1>37, <1>38, <1>39, <1>40, <1>41, <1>42, <1>43, <1>44,
     <1>45, <1>46, <1>47
  DEF Next, RxTaskStep, FaultStep, UsbStep, UsbFinish, ChipStep

\* A step that clears the overflow flag has counted the loss before.
LEMMA CountedStep ==
  ASSUME TypeOK, Counted, [Next]_vars
  PROVE  Counted'
<1> USE DEF Counted, LossCounted, TypeOK
<1>1. CASE Arrive
  BY <1>1 DEF Arrive
<1>2. CASE ChipTransmit
  BY <1>2 DEF ChipTransmit
<1>3. CASE ChipTxError
  BY <1>3 DEF ChipTxError
<1>4. CASE Isr
  BY <1>4 DEF Isr
<1>5. CASE DiagTake
  BY <1>5 DEF DiagTake
<1>6. CASE DiagGive
  BY <1>6 DEF DiagGive
<1>7. CASE StartTasks
  BY <1>7 DEF StartTasks
<1>8. CASE RxWake
  BY <1>8 DEF RxWake
<1>9. CASE RxTimeout
  BY <1>9 DEF RxTimeout
<1>10. CASE RxTake
  BY <1>10 DEF RxTake
<1>11. CASE RxTakeTimeout
  BY <1>11 DEF RxTakeTimeout
<1>12. CASE RxStatus
  BY <1>12 DEF RxStatus
<1>13. CASE RxClear
  BY <1>13 DEF RxClear
<1>14. CASE RxRead
  BY <1>14 DEF RxRead
<1>15. CASE RxUinc
  BY <1>15 DEF RxUinc
<1>16. CASE RxSpill
  BY <1>16 DEF RxSpill, SendBatch
<1>17. CASE RxAppend
  BY <1>17 DEF RxAppend
<1>18. CASE RxChunk
  BY <1>18 DEF RxChunk, SendBatch
<1>19. CASE RxFlush
  BY <1>19 DEF RxFlush, SendBatch
<1>20. CASE TxPop
  BY <1>20 DEF TxPop
<1>21. CASE TxNone
  BY <1>21 DEF TxNone
<1>22. CASE Yielded
  BY <1>22 DEF Yielded
<1>23. CASE TxTake
  BY <1>23 DEF TxTake
<1>24. CASE TxTakeTimeout
  BY <1>24 DEF TxTakeTimeout, TxEnd
<1>25. CASE TxStatus
  BY <1>25 DEF TxStatus, TxEnd
<1>26. CASE TxReset
  BY <1>26 DEF TxReset
<1>27. CASE TxWrite
  BY <1>27 DEF TxWrite, TxEnd
<1>28. CASE TxConfirm
  BY <1>28 DEF TxConfirm
<1>29. CASE RxExitFault
  BY <1>29 DEF RxExitFault
<1>30. CASE RxClearFault
  BY <1>30 DEF RxClearFault
<1>31. CASE RxAddressFault
  BY <1>31 DEF RxAddressFault
<1>32. CASE RxUincFault
  BY <1>32 DEF RxUincFault
<1>33. CASE TxStatusFault
  BY <1>33 DEF TxStatusFault, TxEnd
<1>34. CASE TxResetFault
  BY <1>34 DEF TxResetFault, TxEnd
<1>35. CASE TxWriteFault
  BY <1>35 DEF TxWriteFault, TxEnd
<1>36. CASE UsbTxFrame
  BY <1>36 DEF UsbTxFrame, CanIssue
<1>37. CASE UsbNotify
  BY <1>37 DEF UsbNotify
<1>38. CASE UsbAck
  BY <1>38 DEF UsbAck
<1>39. CASE UsbControl
  BY <1>39 DEF UsbControl, CanIssue
<1>40. CASE CtlTake
  BY <1>40 DEF CtlTake
<1>41. CASE CtlTakeTimeout
  BY <1>41 DEF CtlTakeTimeout
<1>42. CASE CtlAbort
  BY <1>42 DEF CtlAbort
<1>43. CASE CtlNoChange
  BY <1>43 DEF CtlNoChange
<1>44. CASE CtlGive
  BY <1>44 DEF CtlGive
<1>45. CASE TxRoom
  BY <1>45 DEF TxRoom, TxEnd
<1>46. CASE TxAddressFault
  BY <1>46 DEF TxAddressFault, TxEnd
<1>47. CASE UNCHANGED vars
  BY <1>47
<1> QED
  BY <1>1, <1>2, <1>3, <1>4, <1>5, <1>6, <1>7, <1>8, <1>9, <1>10, <1>11,
     <1>12, <1>13, <1>14, <1>15, <1>16, <1>17, <1>18, <1>19, <1>20, <1>21, <1>22,
     <1>23, <1>24, <1>25, <1>26, <1>27, <1>28, <1>29, <1>30, <1>31, <1>32, <1>33,
     <1>34, <1>35, <1>36, <1>37, <1>38, <1>39, <1>40, <1>41, <1>42, <1>43, <1>44,
     <1>45, <1>46, <1>47
  DEF Next, RxTaskStep, FaultStep, UsbStep, UsbFinish, ChipStep

\* A step that appends to the batch has made room for the packet before.
LEMMA BatchStep ==
  ASSUME TypeOK, Places, BatchBound, [Next]_vars
  PROVE  BatchBound'
<1> USE DEF BatchBound
<1>1. CASE RxAppend
  <2>1. hand \in Frame
    BY <1>1, Bounds DEF RxAppend, Places, TypeOK, Frame
  <2>2. batchLen + PktSize[hand] \in Nat
    BY <2>1, PktBytes, SMTT(30) DEF TypeOK
  <2> QED BY <1>1, <2>2, Bounds DEF RxAppend, Overflows
<1>2. CASE RxSpill \/ RxChunk \/ RxFlush
  BY <1>2, Bounds DEF RxSpill, RxChunk, RxFlush, SendBatch
<1>3. CASE UNCHANGED batchLen
  BY <1>3
<1>4. RxAppend \/ RxSpill \/ RxChunk \/ RxFlush \/ UNCHANGED batchLen
  BY DEF Next, RxTaskStep, FaultStep, UsbStep, UsbFinish, ChipStep, Arrive,
     ChipTransmit, ChipTxError, Isr, DiagTake, DiagGive, StartTasks, RxWake,
     RxTimeout, RxTake, RxTakeTimeout, RxStatus, RxClear, RxRead, RxUinc,
     TxPop, TxNone, Yielded, TxTake, TxTakeTimeout, TxStatus, TxReset, TxRoom, TxWrite,
     TxConfirm, RxExitFault, RxClearFault, RxAddressFault, RxUincFault,
     TxStatusFault, TxResetFault, TxWriteFault, TxAddressFault, UsbTxFrame,
     UsbNotify, UsbAck,
     UsbControl, CtlTake, CtlTakeTimeout, CtlAbort, CtlNoChange, CtlGive
<1> QED BY <1>1, <1>2, <1>3, <1>4

\* The invariant the proofs rest on.
THEOREM Invariance == Spec => []IInv
<1>1. Init => IInv
  <2> SUFFICES ASSUME Init PROVE IInv
    OBVIOUS
  <2>1. TypeOK
    <3>1. /\ <<>> \in Seq(Frame) /\ <<>> \in Seq(Cmd) /\ <<>> \in Seq(Item)
          /\ Len(<<>>) = 0
      BY EmptySeq
    <3>2. /\ 0 \in 0..MaxRx /\ 0 \in 0..MaxRx + 1 /\ 0 \in Item /\ 0 \in 0..MaxTx
          /\ 0 \in 0..MaxCtl /\ 0 \in 0..MaxFaults /\ 0 \in 0..MaxRefused
          /\ 0 <= RxDepth /\ 0 <= TxDepth /\ 0 <= QueueLen
          /\ 0 \in 0..TxDepth - 1 /\ Foreign \in Frame
      BY Bounds DEF Item, Foreign, Frame
    <3> QED BY <3>1, <3>2 DEF Init, TypeOK, RxPcs, UsbPcs
  <2>2. MutexExcludes /\ Wakeups /\ Counted
    BY DEF Init, MutexExcludes, Wakeups, NoLostRxWakeup, Counted, LossCounted
  <2>3. Places /\ BatchBound
    BY Bounds DEF Init, Places, BatchBound
  <2> QED BY <2>1, <2>2, <2>3 DEF IInv
<1>2. IInv /\ [Next]_vars => IInv'
  BY TypeStep, MutexStep, PlacesStep, WakeupsStep, CountedStep,
     BatchStep DEF IInv
<1> QED BY <1>1, <1>2, PTL DEF Spec

\* Every variable keeps its type and every buffer its capacity.
THEOREM Typed == Spec => []TypeOK
<1>1. IInv => TypeOK
  BY DEF IInv
<1> QED BY <1>1, Invariance, PTL

\* The SPI mutex keeps the tasks' transfers apart.
THEOREM Exclusion == Spec => []MutexExcludes
<1>1. IInv => MutexExcludes
  BY DEF IInv
<1> QED BY <1>1, Invariance, PTL

\* No frame waits in the FIFO of a task that drained it and then sleeps
\* without an edge or a notification to wake it, and no transmit command in
\* the queue of a task nobody will wake.
THEOREM Wakeup == Spec => []NoLostWakeup
<1>1. IInv => NoLostRxWakeup
  BY DEF IInv, Wakeups
<1>2. IInv => NoLostTxWakeup
  BY DEF IInv, Wakeups, NoLostTxWakeup, Blocked
<1>3. IInv => NoLostWakeup
  BY <1>1, <1>2 DEF NoLostWakeup
<1> QED BY <1>3, Invariance, PTL

\* The batch buffer is never written past its end, and the receive task keeps
\* no frame back in it while it sleeps or transmits.
THEOREM BatchKept == Spec => []BatchSafe
<1>1. IInv => BatchBound
  BY DEF IInv
<1>2. IInv => NothingHeldBack
  BY DEF IInv, Places, NothingHeldBack, Sending, Blocked
<1>3. IInv => BatchSafe
  BY <1>1, <1>2 DEF BatchSafe
<1> QED BY <1>3, Invariance, PTL

\* RXOVIF stays raised until the receive task has counted it, loss after loss,
\* but for a loss between the count and the clear (mcp2517fd.c:525-528); also
\* when SPI transfers fail.
THEOREM LossReported == Spec => []LossCounted
<1>1. IInv => LossCounted
  BY DEF IInv, Counted
<1> QED BY <1>1, Invariance, PTL

-----------------------------------------------------------------------------
(* Sequences of numbers in ascending order.                                *)

\* Everything in s is smaller than everything in t.
Before(s, t) == \A x \in Elems(s), y \in Elems(t) : x < y

\* Nothing in s is greater than n.
UpTo(s, n) == \A x \in Elems(s) : x <= n

\* The elements of the empty sequence and of a sequence of one.
LEMMA ElemsShort ==
  ASSUME NEW x
  PROVE  Elems(<<>>) = {} /\ Elems(<<x>>) = {x}
  BY DEF Elems

\* Append adds one element.
LEMMA ElemsAppend ==
  ASSUME NEW S, NEW s \in Seq(S), NEW e \in S
  PROVE  Elems(Append(s, e)) = Elems(s) \cup {e}
<1> DEFINE r == Append(s, e)
<1>1. /\ r \in Seq(S) /\ Len(r) = Len(s) + 1 /\ r[Len(s) + 1] = e
      /\ \A i \in 1..Len(s) : r[i] = s[i]
  BY AppendProperties
<1>2. DOMAIN r = 1..(Len(s) + 1) /\ DOMAIN s = 1..Len(s) /\ Len(s) \in Nat
  BY <1>1, LenProperties
<1>3. 1..(Len(s) + 1) = (1..Len(s)) \cup {Len(s) + 1}
  BY <1>2
<1> HIDE DEF r
<1>4. Elems(r) \subseteq Elems(s) \cup {e}
  BY <1>1, <1>2, <1>3 DEF Elems
<1>5. Elems(s) \subseteq Elems(r)
  <2> SUFFICES ASSUME NEW i \in 1..Len(s) PROVE s[i] \in Elems(r)
    BY <1>2 DEF Elems
  <2> QED BY <1>1, <1>2, <1>3 DEF Elems
<1>6. e \in Elems(r)
  BY <1>1, <1>2, <1>3 DEF Elems
<1> QED BY <1>4, <1>5, <1>6 DEF r

\* The elements of a concatenation are those of its parts.
LEMMA ElemsConcat ==
  ASSUME NEW S, NEW s \in Seq(S), NEW t \in Seq(S)
  PROVE  Elems(s \o t) = Elems(s) \cup Elems(t)
<1> DEFINE r == s \o t
<1>1. /\ r \in Seq(S) /\ Len(r) = Len(s) + Len(t)
      /\ \A i \in 1..Len(r) : r[i] = IF i <= Len(s) THEN s[i] ELSE t[i - Len(s)]
  BY ConcatProperties
<1>2. /\ DOMAIN r = 1..Len(r) /\ DOMAIN s = 1..Len(s) /\ DOMAIN t = 1..Len(t)
      /\ Len(s) \in Nat /\ Len(t) \in Nat
  BY <1>1, LenProperties
<1> HIDE DEF r
<1>3. Elems(r) \subseteq Elems(s) \cup Elems(t)
  <2> SUFFICES ASSUME NEW i \in 1..Len(r)
               PROVE  r[i] \in Elems(s) \cup Elems(t)
    BY <1>2 DEF Elems
  <2>1. CASE i <= Len(s)
    BY <1>1, <1>2, <2>1 DEF Elems
  <2>2. CASE ~(i <= Len(s))
    <3>1. i - Len(s) \in 1..Len(t) /\ r[i] = t[i - Len(s)]
      BY <1>1, <1>2, <2>2
    <3> QED BY <1>2, <3>1 DEF Elems
  <2> QED BY <2>1, <2>2
<1>4. Elems(s) \subseteq Elems(r)
  <2> SUFFICES ASSUME NEW i \in 1..Len(s)
               PROVE  s[i] \in Elems(r)
    BY <1>2 DEF Elems
  <2>1. i \in 1..Len(r) /\ r[i] = s[i]
    BY <1>1, <1>2
  <2> QED BY <1>2, <2>1 DEF Elems
<1>5. Elems(t) \subseteq Elems(r)
  <2> SUFFICES ASSUME NEW i \in 1..Len(t)
               PROVE  t[i] \in Elems(r)
    BY <1>2 DEF Elems
  <2>1. /\ i + Len(s) \in 1..Len(r) /\ ~(i + Len(s) <= Len(s))
        /\ (i + Len(s)) - Len(s) = i
    BY <1>1, <1>2
  <2>2. r[i + Len(s)] = t[i]
    BY <1>1, <2>1
  <2> QED BY <1>2, <2>1, <2>2 DEF Elems
<1> QED BY <1>3, <1>4, <1>5 DEF r

\* A sequence is its first element before the rest.
LEMMA ConsTail ==
  ASSUME NEW S, NEW s \in Seq(S), s # <<>>
  PROVE  /\ Head(s) \in S /\ Tail(s) \in Seq(S)
         /\ s = <<Head(s)>> \o Tail(s)
         /\ Elems(s) = {Head(s)} \cup Elems(Tail(s))
<1>1. /\ Head(s) \in S /\ Head(s) = s[1] /\ Tail(s) \in Seq(S)
      /\ Len(Tail(s)) = Len(s) - 1
      /\ \A i \in 1..Len(Tail(s)) : Tail(s)[i] = s[i + 1]
  BY HeadTailProperties
<1>2. Len(s) \in Nat /\ Len(s) > 0
  BY LenProperties, EmptySeq
<1> DEFINE r == <<Head(s)>> \o Tail(s)
<1>3. <<Head(s)>> \in Seq(S) /\ Len(<<Head(s)>>) = 1 /\ <<Head(s)>>[1] = Head(s)
  BY <1>1
<1>4. r \in Seq(S) /\ Len(r) = Len(s)
  BY <1>1, <1>2, <1>3, ConcatProperties
<1>5. \A i \in 1..Len(s) : r[i] = s[i]
  <2> SUFFICES ASSUME NEW i \in 1..Len(s) PROVE r[i] = s[i]
    OBVIOUS
  <2>1. r[i] = IF i <= 1 THEN <<Head(s)>>[i] ELSE Tail(s)[i - 1]
    BY <1>1, <1>3, <1>4, ConcatProperties
  <2> QED BY <1>1, <1>2, <1>3, <2>1
<1>6. s = r
  BY <1>4, <1>5, SeqEqual
<1>7. Elems(r) = Elems(<<Head(s)>>) \cup Elems(Tail(s))
  BY <1>1, <1>3, ElemsConcat, ZenonT(40)
<1>8. Elems(<<Head(s)>>) = {Head(s)}
  BY ElemsShort
<1> QED BY <1>1, <1>6, <1>7, <1>8

\* A concatenation ascends exactly when its parts do, one before the other.
LEMMA AscConcat ==
  ASSUME NEW S, S \subseteq Int, NEW s \in Seq(S), NEW t \in Seq(S)
  PROVE  Ascending(s \o t) <=> Ascending(s) /\ Ascending(t) /\ Before(s, t)
<1> DEFINE r == s \o t
<1>1. /\ r \in Seq(S) /\ Len(r) = Len(s) + Len(t)
      /\ \A i \in 1..Len(r) : r[i] = IF i <= Len(s) THEN s[i] ELSE t[i - Len(s)]
  BY ConcatProperties
<1>2. /\ DOMAIN r = 1..Len(r) /\ DOMAIN s = 1..Len(s) /\ DOMAIN t = 1..Len(t)
      /\ Len(s) \in Nat /\ Len(t) \in Nat
  BY <1>1, LenProperties
<1>3. /\ \A i \in 1..Len(s) : i \in 1..Len(r) /\ r[i] = s[i]
      /\ \A i \in 1..Len(t) : i + Len(s) \in 1..Len(r) /\ r[i + Len(s)] = t[i]
  BY <1>1, <1>2
<1> HIDE DEF r
<1>4. ASSUME Ascending(r)
      PROVE  Ascending(s) /\ Ascending(t) /\ Before(s, t)
  <2>1. Ascending(s)
    BY <1>2, <1>3, <1>4 DEF Ascending
  <2>2. Ascending(t)
    <3> SUFFICES ASSUME NEW i \in 1..Len(t), NEW j \in 1..Len(t), i < j
                 PROVE  t[i] < t[j]
      BY <1>2 DEF Ascending
    <3>1. r[i + Len(s)] < r[j + Len(s)]
      BY <1>2, <1>3, <1>4, SMTT(40) DEF Ascending
    <3> QED BY <1>3, <3>1
  <2>3. Before(s, t)
    <3> SUFFICES ASSUME NEW i \in 1..Len(s), NEW j \in 1..Len(t)
                 PROVE  s[i] < t[j]
      BY <1>2 DEF Before, Elems
    <3>1. r[i] < r[j + Len(s)]
      BY <1>2, <1>3, <1>4 DEF Ascending
    <3> QED BY <1>3, <3>1
  <2> QED BY <2>1, <2>2, <2>3
<1>5. ASSUME Ascending(s), Ascending(t), Before(s, t)
      PROVE  Ascending(r)
  <2> SUFFICES ASSUME NEW i \in 1..Len(r), NEW j \in 1..Len(r), i < j
               PROVE  r[i] < r[j]
    BY <1>2 DEF Ascending
  <2>1. CASE j <= Len(s)
    BY <1>1, <1>2, <1>5, <2>1, SMTT(30) DEF Ascending
  <2>2. CASE i <= Len(s) /\ ~(j <= Len(s))
    <3>1. r[i] = s[i] /\ i \in 1..Len(s)
      BY <1>1, <1>2, <2>2
    <3>2. r[j] = t[j - Len(s)] /\ j - Len(s) \in 1..Len(t)
      BY <1>1, <1>2, <2>2
    <3> QED BY <1>2, <1>5, <3>1, <3>2 DEF Before, Elems
  <2>3. CASE ~(i <= Len(s))
    <3>1. r[i] = t[i - Len(s)] /\ i - Len(s) \in 1..Len(t)
      BY <1>1, <1>2, <2>3
    <3>2. r[j] = t[j - Len(s)] /\ j - Len(s) \in 1..Len(t)
      BY <1>1, <1>2, <2>3
    <3>3. i - Len(s) < j - Len(s)
      BY <1>2
    <3> QED BY <1>2, <1>5, <3>1, <3>2, <3>3 DEF Ascending
  <2> QED BY <1>2, <2>1, <2>2, <2>3
<1> QED BY <1>4, <1>5 DEF r

\* Short sequences ascend.
LEMMA AscShort ==
  ASSUME NEW x
  PROVE  Ascending(<<>>) /\ Ascending(<<x>>)
  BY DEF Ascending

\* A greater element appended keeps the order.
LEMMA AscAppend ==
  ASSUME NEW S, S \subseteq Int, NEW s \in Seq(S), NEW e \in S,
         Ascending(s), \A x \in Elems(s) : x < e
  PROVE  Ascending(Append(s, e))
<1>1. Append(s, e) = s \o <<e>> /\ <<e>> \in Seq(S)
  BY AppendIsConcat
<1>2. Before(s, <<e>>)
  BY ElemsShort DEF Before
<1> QED BY <1>1, <1>2, AscConcat, AscShort

\* In an ascending sequence the first element is before the rest.
LEMMA AscTail ==
  ASSUME NEW S, S \subseteq Int, NEW s \in Seq(S), s # <<>>, Ascending(s)
  PROVE  Ascending(Tail(s)) /\ Before(<<Head(s)>>, Tail(s))
<1>1. <<Head(s)>> \in Seq(S) /\ Tail(s) \in Seq(S) /\ s = <<Head(s)>> \o Tail(s)
  BY ConsTail
<1> QED BY <1>1, AscConcat

USE DEF chipRx, chipTx, signals, rxTask, stream, txTask, usbTask, vars

-----------------------------------------------------------------------------
(* Transmit commands.                                                      *)

\* A sequence over a set is one over a larger set.
LEMMA SeqSubset ==
  ASSUME NEW S, NEW T, S \subseteq T, NEW s \in Seq(S)
  PROVE  s \in Seq(T)
<1>1. s \in [1..Len(s) -> S] /\ Len(s) \in Nat
  BY LenProperties
<1>2. s \in [1..Len(s) -> T]
  BY <1>1
<1> QED BY <1>1, <1>2, IsASeq

\* The commands that wait in the queue and in the task's hand were issued, and
\* are in order.
Queued == /\ Ascending(txQueue) /\ Before(InHand, txQueue)
          /\ UpTo(InHand, issued) /\ UpTo(txQueue, issued)

\* The way of a command is the queue, the task's hand, the TX FIFO, the bus:
\* whatever is further on was issued before, and nothing was issued later than
\* the last command.  SentInOrder says the same of the four places in a row,
\* which no step can be followed through.  A stale object (stray) ends it.
Ordered ==
  /\ Ascending(onBus) /\ Ascending(txFifo) /\ Ascending(txQueue)
  /\ Before(onBus, txFifo) /\ Before(onBus, InHand) /\ Before(onBus, txQueue)
  /\ Before(txFifo, InHand) /\ Before(txFifo, txQueue)
  /\ Before(InHand, txQueue)
  /\ UpTo(onBus, issued) /\ UpTo(txFifo, issued) /\ UpTo(InHand, issued)
  /\ UpTo(txQueue, issued)

\* The command was refused, or the receive task is about to say so.
Refused(c) == \/ ack[c] = "busy" \/ conf[c] = "busy"
              \/ rxPc = "confirm" /\ ~txOk /\ c = txItem

\* The command is at none of the places it is sent from.
Nowhere(c) == /\ c \notin Elems(onBus) /\ c \notin Elems(txFifo)
              /\ c \notin Elems(InHand) /\ c \notin Elems(txQueue)

\* A refused command was issued, and is gone.
Answered == \A c \in Cmd : Refused(c) => c <= issued /\ Nowhere(c)

\* No command is refused that was not refused before.
NoneRefused == \A c \in Cmd : Refused(c)' => Refused(c)

(* What a step does to the places of the commands.                         *)

Rests == UNCHANGED <<onBus, txFifo, InHand, txQueue, issued>> /\ NoneRefused

Sends == /\ txFifo # <<>>
         /\ onBus' = Append(onBus, Head(txFifo)) /\ txFifo' = Tail(txFifo)
         /\ UNCHANGED <<InHand, txQueue, issued>> /\ NoneRefused

Pops == /\ txQueue # <<>> /\ txQueue' = Tail(txQueue)
        /\ InHand' = <<Head(txQueue)>>
        /\ UNCHANGED <<onBus, txFifo, issued>> /\ NoneRefused

Gives == /\ InHand = <<txItem>> /\ InHand' = <<>>
         /\ UNCHANGED <<onBus, txFifo, txQueue, issued>>
         /\ \A c \in Cmd : Refused(c)' => Refused(c) \/ c = txItem

Flushes == /\ txFifo' = <<>>
           /\ UNCHANGED <<onBus, InHand, txQueue, issued>> /\ NoneRefused

Writes == /\ InHand = <<txItem>> /\ InHand' = <<>>
          /\ txFifo' = Append(txFifo, txItem)
          /\ UNCHANGED <<onBus, txQueue, issued>> /\ NoneRefused

Strays == /\ InHand = <<txItem>> /\ InHand' = <<>> /\ stray'
          /\ UNCHANGED <<onBus, txQueue, issued>>

Queues == /\ issued + 1 \in Cmd /\ issued' = issued + 1
          /\ txQueue' = Append(txQueue, issued + 1)
          /\ UNCHANGED <<onBus, txFifo, InHand>> /\ NoneRefused

Rejects == /\ issued' = issued + 1
           /\ UNCHANGED <<onBus, txFifo, InHand, txQueue>>
           /\ \A c \in Cmd : Refused(c)' => Refused(c) \/ c = issued + 1

\* The task holds a command in these places and in no other.
LEMMA HandPlaces ==
  ASSUME TypeOK, Places
  PROVE  /\ rxPc \in {"txtake", "txstatus", "txreset", "txroom", "txwrite"} =>
              InHand = <<txItem>> /\ txItem \in Cmd
         /\ rxPc \notin {"txtake", "txstatus", "txreset", "txroom", "txwrite"} =>
              InHand = <<>>
  BY HeldType DEF Places, InHand

\* The steps of the other tasks leave the commands alone.
LEMMA TxRests ==
  ASSUME TypeOK, Places,
         \/ Arrive \/ ChipTxError \/ Isr \/ DiagTake \/ DiagGive
         \/ StartTasks \/ RxWake \/ RxTimeout \/ RxTake \/ RxTakeTimeout
         \/ RxStatus \/ RxClear \/ RxRead \/ RxUinc
         \/ RxSpill \/ RxAppend \/ RxChunk \/ RxFlush
         \/ TxNone \/ Yielded \/ TxTake
         \/ RxExitFault \/ RxClearFault \/ RxAddressFault \/ RxUincFault
         \/ UsbNotify \/ UsbAck \/ UsbControl \/ CtlTake
         \/ CtlTakeTimeout \/ CtlAbort \/ CtlNoChange \/ CtlGive \/ UNCHANGED vars
  PROVE  Rests
<1>1. UNCHANGED <<onBus, txFifo, txItem, txQueue, issued>>
  BY DEF Arrive, ChipTxError, Isr, DiagTake, DiagGive, StartTasks, RxWake,
     RxTimeout, RxTake, RxTakeTimeout, RxStatus, RxClear, RxRead, RxUinc,
     RxSpill, RxAppend, RxChunk, RxFlush, TxNone, Yielded, TxTake, RxExitFault,
     RxClearFault, RxAddressFault, RxUincFault, UsbNotify, UsbAck, UsbControl,
     CtlTake, CtlTakeTimeout, CtlAbort, CtlNoChange, CtlGive
<1>2. UNCHANGED <<txOk, conf>>
  BY DEF Arrive, ChipTxError, Isr, DiagTake, DiagGive, StartTasks, RxWake,
     RxTimeout, RxTake, RxTakeTimeout, RxStatus, RxClear, RxRead, RxUinc,
     RxSpill, RxAppend, RxChunk, RxFlush, TxNone, Yielded, TxTake, RxExitFault,
     RxClearFault, RxAddressFault, RxUincFault, UsbNotify, UsbAck, UsbControl,
     CtlTake, CtlTakeTimeout, CtlAbort, CtlNoChange, CtlGive
<1>3. (rxPc = "confirm") <=> (rxPc' = "confirm")
  BY DEF Arrive, ChipTxError, Isr, DiagTake, DiagGive, StartTasks, RxWake,
     RxTimeout, RxTake, RxTakeTimeout, RxStatus, RxClear, RxRead, RxUinc,
     RxSpill, RxAppend, RxChunk, RxFlush, TxNone, Yielded, TxTake, RxExitFault,
     RxClearFault, RxAddressFault, RxUincFault, UsbNotify, UsbAck, UsbControl,
     CtlTake, CtlTakeTimeout, CtlAbort, CtlNoChange, CtlGive
<1>4. \A c \in Cmd : ack'[c] = "busy" => ack[c] = "busy"
  <2>1. ack' = ack \/ \E reply \in {"ok", "lost"} : ack' = [ack EXCEPT ![issued] = reply]
    BY DEF Arrive, ChipTxError, Isr, DiagTake, DiagGive, StartTasks, RxWake,
       RxTimeout, RxTake, RxTakeTimeout, RxStatus, RxClear, RxRead, RxUinc,
       RxSpill, RxAppend, RxChunk, RxFlush, TxNone, Yielded, TxTake,
       RxExitFault, RxClearFault, RxAddressFault, RxUincFault, UsbNotify,
       UsbAck, Reply, UsbControl, CtlTake, CtlTakeTimeout, CtlAbort, CtlNoChange,
       CtlGive
  <2>2. ack \in [Cmd -> {"none"} \cup Replies]
    BY DEF TypeOK
  <2> QED BY <2>1, <2>2
<1>5. InHand' = InHand
  BY <1>1, <1>3 DEF InHand
<1>6. NoneRefused
  BY <1>1, <1>2, <1>3, <1>4 DEF NoneRefused, Refused
<1> QED BY <1>1, <1>5, <1>6 DEF Rests

\* A command that ends gives its item away, and is refused or is not.
LEMMA TxEnds ==
  ASSUME TypeOK, Places, NEW ok \in BOOLEAN, TxEnd(ok), txItem # 0,
         rxPc # "confirm", UNCHANGED <<ack, conf>>
  PROVE  /\ InHand = <<txItem>> /\ InHand' = <<>>
         /\ ok => NoneRefused
         /\ \A c \in Cmd : Refused(c)' => Refused(c) \/ c = txItem
<1>1. rxPc' = "confirm" /\ txOk' = ok /\ txItem' = txItem
  BY DEF TxEnd
<1>2. InHand = <<txItem>> /\ InHand' = <<>>
  BY <1>1 DEF InHand
<1>3. \A c \in Cmd : Refused(c)' => Refused(c) \/ c = txItem
  BY <1>1 DEF Refused
<1>4. ok => NoneRefused
  BY <1>1 DEF NoneRefused, Refused
<1> QED BY <1>2, <1>3, <1>4

\* Every step is one of these moves.
LEMMA TxMoves ==
  ASSUME TypeOK, Places, [Next]_vars
  PROVE  \/ Rests \/ Sends \/ Pops \/ Gives \/ Flushes \/ Writes
         \/ (TxAddressFault /\ Strays) \/ Queues \/ Rejects
<1>1. CASE \/ Arrive \/ ChipTxError \/ Isr \/ DiagTake \/ DiagGive
           \/ StartTasks \/ RxWake \/ RxTimeout \/ RxTake \/ RxTakeTimeout
           \/ RxStatus \/ RxClear \/ RxRead \/ RxUinc
           \/ RxSpill \/ RxAppend \/ RxChunk \/ RxFlush
           \/ TxNone \/ Yielded \/ TxTake
           \/ RxExitFault \/ RxClearFault \/ RxAddressFault \/ RxUincFault
           \/ UsbNotify \/ UsbAck \/ UsbControl \/ CtlTake
           \/ CtlTakeTimeout \/ CtlAbort \/ CtlNoChange \/ CtlGive \/ UNCHANGED vars
  BY <1>1, TxRests
<1>2. CASE ChipTransmit
  BY <1>2 DEF ChipTransmit, Sends, InHand, NoneRefused, Refused
<1>3. CASE TxPop
  <2>1. Head(txQueue) \in Cmd
    BY <1>3, ConsTail DEF TxPop, TypeOK
  <2>2. InHand' = <<Head(txQueue)>>
    BY <1>3, <2>1 DEF TxPop, InHand, Cmd
  <2>3. NoneRefused
    BY <1>3 DEF TxPop, NoneRefused, Refused
  <2> QED BY <1>3, <2>2, <2>3 DEF TxPop, Pops
<1>4. CASE TxTakeTimeout
  <2>1. rxPc = "txtake" /\ TxEnd(FALSE) /\ txItem # 0
    BY <1>4 DEF TxTakeTimeout, Places
  <2>2. UNCHANGED <<onBus, txFifo, txQueue, issued, ack, conf>>
    BY <1>4 DEF TxTakeTimeout, TxEnd
  <2> QED BY <2>1, <2>2, TxEnds DEF Gives
<1>5. CASE TxStatus \/ TxRoom \/ TxStatusFault \/ TxResetFault \/ TxWriteFault
  <2>1. /\ rxPc \in {"txstatus", "txreset", "txroom", "txwrite"} /\ txItem # 0
        /\ UNCHANGED <<onBus, txFifo, txQueue, issued, ack, conf>>
    BY <1>5 DEF TxStatus, TxRoom, TxStatusFault, TxResetFault, TxWriteFault, TxEnd,
       Places
  <2>2. \/ TxEnd(TRUE) \/ TxEnd(FALSE)
        \/ rxPc' \in {"txreset", "txroom", "txwrite"} /\ UNCHANGED <<txItem, txOk>>
    BY <1>5 DEF TxStatus, TxRoom, TxStatusFault, TxResetFault, TxWriteFault
  <2>3. CASE TxEnd(TRUE) \/ TxEnd(FALSE)
    BY <2>1, <2>3, TxEnds DEF Gives
  <2>4. CASE rxPc' \in {"txreset", "txroom", "txwrite"} /\ UNCHANGED <<txItem, txOk>>
    BY <2>1, <2>4 DEF Rests, InHand, NoneRefused, Refused
  <2> QED BY <2>2, <2>3, <2>4
<1>6. CASE TxReset
  <2>1. txFifo' = <<>> /\ UNCHANGED <<onBus, txQueue, issued, txItem, txOk,
                                      ack, conf>>
    BY <1>6 DEF TxReset
  <2>2. (rxPc = "confirm") <=> (rxPc' = "confirm")
    BY <1>6 DEF TxReset
  <2> QED BY <2>1, <2>2 DEF Flushes, InHand, NoneRefused, Refused
<1>7. CASE TxWrite
  <2>1. rxPc = "txwrite" /\ TxEnd(TRUE) /\ txItem # 0
    BY <1>7 DEF TxWrite, Places
  <2>2. /\ txFifo' = Append(txFifo, txItem)
        /\ UNCHANGED <<onBus, txQueue, issued, ack, conf>>
    BY <1>7 DEF TxWrite, TxEnd, Queue
  <2> QED BY <2>1, <2>2, TxEnds DEF Writes
<1>8. CASE TxConfirm
  <2>1. rxPc = "confirm" /\ rxPc' = "txpop" /\ txItem' = 0
    BY <1>8 DEF TxConfirm
  <2>2. UNCHANGED <<onBus, txFifo, txQueue, issued, ack>>
    BY <1>8 DEF TxConfirm
  <2>3. InHand' = InHand
    BY <2>1 DEF InHand
  <2>4. \A c \in Cmd : conf'[c] = "busy" =>
                         conf[c] = "busy" \/ (c = txItem /\ ~txOk)
    <3>1. PICK reply \in Replies : /\ conf' = [conf EXCEPT ![txItem] = reply]
                                   /\ reply = "busy" => ~txOk
      BY <1>8 DEF TxConfirm, Reply
    <3>2. conf \in [Cmd -> {"none"} \cup Replies]
      BY DEF TypeOK
    <3> QED BY <3>1, <3>2
  <2>5. NoneRefused
    BY <2>1, <2>2, <2>4 DEF NoneRefused, Refused
  <2> QED BY <2>2, <2>3, <2>5 DEF Rests
<1>9. CASE UsbTxFrame
  <2>1. /\ issued' = issued + 1 /\ UNCHANGED <<onBus, txFifo>>
        /\ UNCHANGED <<rxPc, txItem, txOk, conf>>
    BY <1>9 DEF UsbTxFrame
  <2>2. InHand' = InHand
    BY <2>1 DEF InHand
  <2>3. CASE Len(txQueue) < QueueLen
    <3>1. txQueue' = Append(txQueue, issued + 1) /\ ack' = ack
      BY <1>9, <2>3 DEF UsbTxFrame
    <3>2. issued + 1 \in Cmd
      BY <1>9, Bounds DEF UsbTxFrame, TypeOK, Cmd
    <3> QED BY <2>1, <2>2, <3>1, <3>2 DEF Queues, NoneRefused, Refused
  <2>4. CASE ~(Len(txQueue) < QueueLen)
    <3>1. PICK reply \in Replies : /\ ack' = [ack EXCEPT ![issued + 1] = reply]
                                   /\ txQueue' = txQueue
      BY <1>9, <2>4 DEF UsbTxFrame
    <3>2. \A c \in Cmd : ack'[c] = "busy" => ack[c] = "busy" \/ c = issued + 1
      BY <3>1 DEF TypeOK
    <3> QED BY <2>1, <2>2, <3>1, <3>2 DEF Rejects, Refused
  <2> QED BY <2>3, <2>4
<1>10. CASE TxAddressFault
  <2>1. rxPc = "txwrite" /\ TxEnd(TRUE) /\ txItem # 0 /\ stray'
    BY <1>10 DEF TxAddressFault, Places
  <2>2. UNCHANGED <<onBus, txQueue, issued, ack, conf>>
    BY <1>10 DEF TxAddressFault, TxEnd
  <2> QED BY <1>10, <2>1, <2>2, TxEnds DEF Strays
<1> QED
  BY <1>1, <1>2, <1>3, <1>4, <1>5, <1>6, <1>7, <1>8, <1>9, <1>10
  DEF Next, RxTaskStep, FaultStep, UsbStep, UsbFinish, ChipStep

\* The places of the commands hold commands or stale objects, which are numbers.
LEMMA TxSequences ==
  ASSUME TypeOK, Places
  PROVE  /\ onBus \in Seq(Item) /\ txFifo \in Seq(Item) /\ InHand \in Seq(Item)
         /\ txQueue \in Seq(Item) /\ InHand \in Seq(Cmd) /\ txQueue \in Seq(Cmd)
         /\ issued \in Nat /\ Cmd \subseteq Item /\ Item \subseteq Int
<1>1. <<>> \in Seq(Cmd) /\ (txItem \in Cmd => <<txItem>> \in Seq(Cmd))
  BY EmptySeq
<1>2. InHand \in Seq(Cmd)
  BY <1>1, HandPlaces
<1>3. Cmd \subseteq Item /\ Item \subseteq Int
  BY Bounds DEF Cmd, Item
<1>4. txQueue \in Seq(Cmd)
  BY DEF TypeOK
<1>5. txQueue \in Seq(Item) /\ InHand \in Seq(Item)
  BY <1>2, <1>3, <1>4, SeqSubset
<1> QED BY <1>2, <1>3, <1>4, <1>5 DEF TypeOK

\* What a stale object ended does not come back.
LEMMA StrayStays ==
  ASSUME [Next]_vars, stray
  PROVE  stray'
  BY DEF Next, RxTaskStep, FaultStep, UsbStep, UsbFinish, ChipStep, Arrive,
     ChipTransmit, ChipTxError, Isr, DiagTake, DiagGive, StartTasks, RxWake,
     RxTimeout, RxTake, RxTakeTimeout, RxStatus, RxClear, RxRead, RxUinc,
     RxSpill, RxAppend, RxChunk, RxFlush, TxPop, TxNone, Yielded, TxTake,
     TxTakeTimeout, TxStatus, TxReset, TxRoom, TxWrite, TxConfirm, UsbTxFrame,
     UsbNotify, UsbAck, UsbControl, CtlTake, CtlTakeTimeout, CtlAbort, CtlNoChange,
     CtlGive, RxExitFault, RxClearFault, RxAddressFault, RxUincFault, TxStatusFault,
     TxResetFault, TxWriteFault, TxAddressFault

\* Every move keeps the waiting commands in order.
LEMMA QueuedStep ==
  ASSUME TypeOK, Places, Queued, [Next]_vars
  PROVE  Queued'
<1>0. /\ InHand \in Seq(Cmd) /\ txQueue \in Seq(Cmd) /\ issued \in Nat
      /\ Cmd \subseteq Int
  BY TxSequences
<1>e. \A x : Elems(<<>>) = {} /\ Elems(<<x>>) = {x}
  BY ElemsShort
<1>1. CASE Rests \/ Sends \/ Flushes
  BY <1>1 DEF Rests, Sends, Flushes, Queued, Before, UpTo, Ascending
<1>2. CASE Gives \/ Writes \/ Strays
  BY <1>2, <1>e DEF Gives, Writes, Strays, Queued, Before, UpTo, Ascending
<1>3. CASE Pops
  <2> DEFINE h == Head(txQueue)
  <2>1. h \in Cmd /\ Elems(txQueue) = {h} \cup Elems(Tail(txQueue))
    BY <1>0, <1>3, ConsTail DEF Pops
  <2>2. Ascending(Tail(txQueue)) /\ \A x \in Elems(Tail(txQueue)) : h < x
    BY <1>0, <1>3, <1>e, AscTail DEF Pops, Queued, Before
  <2> HIDE DEF h
  <2>3. txQueue' = Tail(txQueue) /\ InHand' = <<h>> /\ UNCHANGED issued
    BY <1>3 DEF Pops, h
  <2> QED BY <1>e, <2>1, <2>2, <2>3 DEF Queued, Before, UpTo
<1>4. CASE Queues
  <2>1. Elems(Append(txQueue, issued + 1)) = Elems(txQueue) \cup {issued + 1}
    BY <1>0, <1>4, ElemsAppend DEF Queues
  <2>2. Elems(InHand) \subseteq Cmd /\ Elems(txQueue) \subseteq Cmd
    BY <1>0, ElemsSubset
  <2>3. /\ \A x \in Cmd : x <= issued => x < issued + 1 /\ x <= issued + 1
        /\ issued + 1 <= issued + 1
    BY <1>0
  <2>4. Ascending(Append(txQueue, issued + 1))
    BY <1>0, <1>4, <2>2, <2>3, AscAppend DEF Queues, Queued, UpTo
  <2> QED BY <1>4, <2>1, <2>2, <2>3, <2>4 DEF Queues, Queued, Before, UpTo
<1>5. CASE Rejects
  <2>1. \A x \in Cmd : x <= issued => x <= issued + 1
    BY <1>0
  <2>2. Elems(InHand) \subseteq Cmd /\ Elems(txQueue) \subseteq Cmd
    BY <1>0, ElemsSubset
  <2> QED BY <1>5, <2>1, <2>2 DEF Rejects, Queued, Before, UpTo
<1> QED BY <1>1, <1>2, <1>3, <1>4, <1>5, TxMoves

\* Every move keeps the commands in order.
LEMMA OrderedStep ==
  ASSUME TypeOK, Places, Ordered, [Next]_vars, ~stray'
  PROVE  Ordered'
<1>0. /\ onBus \in Seq(Item) /\ txFifo \in Seq(Item) /\ InHand \in Seq(Item)
      /\ txQueue \in Seq(Item) /\ issued \in Nat
      /\ Cmd \subseteq Item /\ Item \subseteq Int
  BY TxSequences
<1>e. \A x : Elems(<<>>) = {} /\ Elems(<<x>>) = {x}
  BY ElemsShort
<1>1. CASE Rests
  BY <1>1 DEF Rests, Ordered, Before, UpTo, Ascending
<1>2. CASE Sends
  <2> DEFINE h == Head(txFifo)
  <2>1. h \in Item /\ Elems(txFifo) = {h} \cup Elems(Tail(txFifo))
    BY <1>0, <1>2, ConsTail DEF Sends
  <2>2. Ascending(Tail(txFifo)) /\ \A x \in Elems(Tail(txFifo)) : h < x
    BY <1>0, <1>2, <1>e, AscTail DEF Sends, Ordered, Before
  <2>3. Elems(Append(onBus, h)) = Elems(onBus) \cup {h}
    BY <1>0, <2>1, ElemsAppend
  <2>4. Ascending(Append(onBus, h))
    BY <1>0, <2>1, AscAppend DEF Ordered, Before
  <2> HIDE DEF h
  <2>5. /\ onBus' = Append(onBus, h) /\ txFifo' = Tail(txFifo)
        /\ UNCHANGED <<InHand, txQueue, issued>>
    BY <1>2 DEF Sends, h
  <2> QED BY <2>1, <2>2, <2>3, <2>4, <2>5 DEF Ordered, Before, UpTo
<1>3. CASE Pops
  <2> DEFINE h == Head(txQueue)
  <2>1. h \in Item /\ Elems(txQueue) = {h} \cup Elems(Tail(txQueue))
    BY <1>0, <1>3, ConsTail DEF Pops
  <2>2. Ascending(Tail(txQueue)) /\ \A x \in Elems(Tail(txQueue)) : h < x
    BY <1>0, <1>3, <1>e, AscTail DEF Pops, Ordered, Before
  <2> HIDE DEF h
  <2>3. /\ txQueue' = Tail(txQueue) /\ InHand' = <<h>>
        /\ UNCHANGED <<onBus, txFifo, issued>>
    BY <1>3 DEF Pops, h
  <2> QED BY <1>e, <2>1, <2>2, <2>3 DEF Ordered, Before, UpTo
<1>4. CASE Gives
  BY <1>4, <1>e DEF Gives, Ordered, Before, UpTo
<1>5. CASE Flushes
  BY <1>5, <1>e, AscShort DEF Flushes, Ordered, Before, UpTo
<1>6. CASE Writes
  <2>1. txItem \in Item
    BY <1>0, <1>6, ElementOfSeq DEF Writes
  <2>2. Elems(Append(txFifo, txItem)) = Elems(txFifo) \cup {txItem}
    BY <1>0, <2>1, ElemsAppend
  <2>3. \A x \in Elems(txFifo) : x < txItem
    BY <1>6, <1>e DEF Writes, Ordered, Before
  <2>4. Ascending(Append(txFifo, txItem))
    BY <1>0, <2>1, <2>3, AscAppend DEF Ordered
  <2> QED BY <1>6, <1>e, <2>2, <2>4 DEF Writes, Ordered, Before, UpTo
<1>7. CASE Queues
  <2>1. Elems(Append(txQueue, issued + 1)) = Elems(txQueue) \cup {issued + 1}
    BY <1>0, <1>7, ElemsAppend DEF Queues
  <2>2. /\ Elems(onBus) \subseteq Item /\ Elems(txFifo) \subseteq Item
        /\ Elems(InHand) \subseteq Item /\ Elems(txQueue) \subseteq Item
    BY <1>0, ElemsSubset
  <2>3. \A x \in Item : x <= issued => x < issued + 1 /\ x <= issued + 1
    BY <1>0
  <2>4. Ascending(Append(txQueue, issued + 1))
    BY <1>0, <1>7, <2>2, <2>3, AscAppend DEF Queues, Ordered, UpTo
  <2>5. issued + 1 <= issued + 1
    BY <1>0
  <2> QED BY <1>7, <2>1, <2>2, <2>3, <2>4, <2>5
          DEF Queues, Ordered, Before, UpTo
<1>8. CASE Rejects
  <2>1. \A x \in Item : x <= issued => x <= issued + 1
    BY <1>0
  <2>2. /\ Elems(onBus) \subseteq Item /\ Elems(txFifo) \subseteq Item
        /\ Elems(InHand) \subseteq Item /\ Elems(txQueue) \subseteq Item
    BY <1>0, ElemsSubset
  <2> QED BY <1>8, <2>1, <2>2 DEF Rejects, Ordered, Before, UpTo
<1>9. ~Strays
  BY DEF Strays
<1> QED
  BY <1>1, <1>2, <1>3, <1>4, <1>5, <1>6, <1>7, <1>8, <1>9, TxMoves

\* No move brings a refused command back, and a refusal finds it nowhere.
LEMMA AnsweredStep ==
  ASSUME TypeOK, Places, Ordered, Answered, [Next]_vars, ~stray'
  PROVE  Answered'
<1>0. /\ onBus \in Seq(Item) /\ txFifo \in Seq(Item) /\ InHand \in Seq(Item)
      /\ txQueue \in Seq(Item) /\ issued \in Nat
      /\ Cmd \subseteq Item /\ Item \subseteq Int
  BY TxSequences
<1>e. \A x : Elems(<<>>) = {} /\ Elems(<<x>>) = {x}
  BY ElemsShort
<1>1. CASE Rests
  BY <1>1 DEF Rests, Answered, Nowhere, NoneRefused
<1>2. CASE Sends
  <2> DEFINE h == Head(txFifo)
  <2>1. h \in Item /\ Elems(txFifo) = {h} \cup Elems(Tail(txFifo))
    BY <1>0, <1>2, ConsTail DEF Sends
  <2>2. Elems(Append(onBus, h)) = Elems(onBus) \cup {h}
    BY <1>0, <2>1, ElemsAppend
  <2> HIDE DEF h
  <2>3. /\ onBus' = Append(onBus, h) /\ txFifo' = Tail(txFifo)
        /\ UNCHANGED <<InHand, txQueue, issued>> /\ NoneRefused
    BY <1>2 DEF Sends, h
  <2> QED BY <2>1, <2>2, <2>3 DEF Answered, Nowhere, NoneRefused
<1>3. CASE Pops
  <2> DEFINE h == Head(txQueue)
  <2>1. h \in Item /\ Elems(txQueue) = {h} \cup Elems(Tail(txQueue))
    BY <1>0, <1>3, ConsTail DEF Pops
  <2> HIDE DEF h
  <2>2. /\ txQueue' = Tail(txQueue) /\ InHand' = <<h>>
        /\ UNCHANGED <<onBus, txFifo, issued>> /\ NoneRefused
    BY <1>3 DEF Pops, h
  <2> QED BY <1>e, <2>1, <2>2 DEF Answered, Nowhere, NoneRefused
<1>4. CASE Gives
  <2> SUFFICES ASSUME NEW c \in Cmd, Refused(c)'
               PROVE  c <= issued /\ Nowhere(c)'
    BY <1>4 DEF Answered, Gives
  <2>1. CASE Refused(c)
    BY <1>4, <1>e, <2>1 DEF Gives, Answered, Nowhere
  <2>2. CASE c = txItem
    <3>1. \A x \in Elems(onBus) \cup Elems(txFifo) : x < c
      BY <1>4, <1>e, <2>2 DEF Gives, Ordered, Before
    <3>2. (\A x \in Elems(txQueue) : c < x) /\ c <= issued
      BY <1>4, <1>e, <2>2 DEF Gives, Ordered, Before, UpTo
    <3>3. c \in Int
      BY <1>0
    <3>4. ~(c < c)
      BY <3>3
    <3> QED BY <1>4, <1>e, <3>1, <3>2, <3>4 DEF Gives, Nowhere
  <2> QED BY <1>4, <2>1, <2>2 DEF Gives
<1>5. CASE Flushes
  BY <1>5, <1>e DEF Flushes, Answered, Nowhere, NoneRefused
<1>6. CASE Writes
  <2>1. txItem \in Item
    BY <1>0, <1>6, ElementOfSeq DEF Writes
  <2>2. Elems(Append(txFifo, txItem)) = Elems(txFifo) \cup {txItem}
    BY <1>0, <2>1, ElemsAppend
  <2> QED BY <1>6, <1>e, <2>2 DEF Writes, Answered, Nowhere, NoneRefused
<1>7. CASE Queues
  <2>1. Elems(Append(txQueue, issued + 1)) = Elems(txQueue) \cup {issued + 1}
    BY <1>0, <1>7, ElemsAppend DEF Queues
  <2>2. \A x \in Cmd : x <= issued => x # issued + 1 /\ x <= issued + 1
    BY <1>0
  <2> QED BY <1>7, <2>1, <2>2 DEF Queues, Answered, Nowhere, NoneRefused
<1>8. CASE Rejects
  <2> SUFFICES ASSUME NEW c \in Cmd, Refused(c)'
               PROVE  c <= issued + 1 /\ Nowhere(c)'
    BY <1>8 DEF Answered, Rejects
  <2>1. CASE Refused(c)
    BY <1>0, <1>8, <2>1 DEF Rejects, Answered, Nowhere
  <2>2. CASE c = issued + 1
    <3>1. ~(issued + 1 <= issued) /\ issued + 1 <= issued + 1
      BY <1>0
    <3> QED BY <1>8, <2>2, <3>1 DEF Rejects, Ordered, UpTo, Nowhere
  <2> QED BY <1>8, <2>1, <2>2 DEF Rejects
<1>9. ~Strays
  BY DEF Strays
<1> QED
  BY <1>1, <1>2, <1>3, <1>4, <1>5, <1>6, <1>7, <1>8, <1>9, TxMoves

\* The places of the commands in a row are in order when they are pairwise.
LEMMA InARow ==
  ASSUME TypeOK, Places, Ordered
  PROVE  Ascending(onBus \o txFifo \o InHand \o txQueue)
<1>0. /\ onBus \in Seq(Item) /\ txFifo \in Seq(Item) /\ InHand \in Seq(Item)
      /\ txQueue \in Seq(Item) /\ Item \subseteq Int
  BY TxSequences
<1>e. Ascending(InHand)
  BY AscShort DEF InHand
<1> DEFINE r == onBus \o txFifo  q == r \o InHand
<1>1. /\ r \in Seq(Item) /\ Elems(r) = Elems(onBus) \cup Elems(txFifo)
      /\ Ascending(r)
  BY <1>0, ConcatProperties, ElemsConcat, AscConcat, ZenonT(40) DEF Ordered
<1> HIDE DEF r
<1>2. Before(r, InHand) /\ Before(r, txQueue)
  BY <1>1 DEF Before, Ordered
<1>3. q \in Seq(Item) /\ Elems(q) = Elems(r) \cup Elems(InHand) /\ Ascending(q)
  <2>1. q \in Seq(Item)
    BY <1>0, <1>1, ConcatProperties
  <2>2. Elems(q) = Elems(r) \cup Elems(InHand)
    BY <1>0, <1>1, ElemsConcat
  <2>3. Ascending(q)
    BY <1>0, <1>e, <1>1, <1>2, AscConcat
  <2> QED BY <2>1, <2>2, <2>3
<1> HIDE DEF q
<1>4. Before(q, txQueue)
  BY <1>2, <1>3 DEF Before, Ordered
<1>5. Ascending(q \o txQueue)
  BY <1>0, <1>3, <1>4, AscConcat DEF Ordered
<1> QED BY <1>5 DEF q, r

\* The waiting commands keep their order, whatever transfers fail; all of them
\* keep their order and their answers until a stale object is queued.
Kept == Queued /\ (~stray => Ordered /\ Answered)

\* The commands keep their order and their answers, with any number of failed
\* SPI transfers; only the failed read of the user address, whose result the
\* code does not look at, ends it for what is in the TX FIFO and on the bus
\* (mcp2517fd.c:603-672).
THEOREM Answering == Spec => []Kept
<1>1. Init => Kept
  <2> SUFFICES ASSUME Init PROVE Kept
    OBVIOUS
  <2>1. /\ onBus = <<>> /\ txFifo = <<>> /\ InHand = <<>> /\ txQueue = <<>>
    BY DEF Init, InHand
  <2>2. Elems(<<>>) = {} /\ Ascending(<<>>)
    BY ElemsShort, AscShort
  <2>3. \A c \in Cmd : ~Refused(c)
    BY DEF Init, Refused
  <2> QED BY <2>1, <2>2, <2>3 DEF Kept, Queued, Ordered, Before, UpTo, Answered
<1>2. IInv /\ Kept /\ [Next]_vars => Kept'
  BY QueuedStep, OrderedStep, AnsweredStep, StrayStays DEF IInv, Kept
<1> QED BY <1>1, <1>2, Invariance, PTL DEF Spec

\* Frames are sent in the order of the host's commands and none twice, whatever
\* resets, aborts and failing SPI transfers come in between (can_tasks.c:105-117,
\* mcp2517fd.c's transmit function); but for a failed read of the user address.
THEOREM TransmitOrder == Spec => []SentInOrder
<1>1. IInv /\ Kept => SentInOrder
  BY InARow DEF IInv, Kept, SentInOrder
<1> QED BY <1>1, Answering, Invariance, PTL

\* A command reported as failed has no frame on the bus and none waiting,
\* however often SPI transfers fail (can_tasks.c:105-117 and 238-246), as long
\* as no read of the user address did.
THEOREM SafeToRetry == Spec => []RetrySafe
<1>1. Kept => RetrySafe
  BY DEF Kept, Answered, RetrySafe, Refused, Nowhere
<1> QED BY <1>1, Answering, PTL

-----------------------------------------------------------------------------
(* Received frames, while every SPI transfer succeeds.                     *)

\* The task has in hand the frame that UINC is about to remove.
HandIsOldest == rxPc = "uinc" => hand = Head(rxFifo)

\* What holds of the received frames until the first transfer fails: the read
\* of a wrong frame, a lost UINC or a lost write to the overflow flag end it.
Exact == faults = 0 => HandIsOldest /\ NotOvercounted /\ FramesConserved

(* What a step does to the frames on their way.                            *)

Waits == UNCHANGED <<arrived, lost, dropped, hostRx, Pending>>

Enters == /\ arrived < MaxRx /\ arrived' = arrived + 1
          /\ Pending' = Append(Pending, arrived + 1)
          /\ UNCHANGED <<lost, dropped, hostRx>>

Misses == /\ arrived < MaxRx /\ arrived' = arrived + 1
          /\ lost' = lost \cup {arrived + 1}
          /\ UNCHANGED <<dropped, hostRx, Pending>>

Leaves == /\ Pending = batch \o Pending'
          /\ \/ hostRx' = hostRx \o batch /\ UNCHANGED dropped
             \/ dropped' = dropped \cup Elems(batch) /\ UNCHANGED hostRx
          /\ UNCHANGED <<arrived, lost>>

\* The sequences of frames are sequences of frames, which are numbers.
LEMMA RxSequences ==
  ASSUME TypeOK, Places
  PROVE  /\ batch \in Seq(Frame) /\ Held \in Seq(Frame)
         /\ rxFifo \in Seq(Frame) /\ hostRx \in Seq(Frame)
         /\ Pending \in Seq(Frame) /\ Frame \subseteq Int
         /\ Pending = batch \o (Held \o rxFifo)
         /\ arrived \in Nat /\ <<>> \in Seq(Frame)
<1>1. hand # 0 => hand \in Frame
  BY Bounds DEF TypeOK, Frame
<1>2. <<>> \in Seq(Frame) /\ (hand \in Frame => <<hand>> \in Seq(Frame))
  BY EmptySeq
<1>3. Held \in Seq(Frame)
  BY <1>1, <1>2 DEF Held, Places
<1>4. batch \in Seq(Frame) /\ rxFifo \in Seq(Frame) /\ hostRx \in Seq(Frame)
  BY DEF TypeOK
<1>5. batch \o Held \in Seq(Frame)
  BY <1>3, <1>4, ConcatProperties
<1>6. Pending \in Seq(Frame)
  BY <1>4, <1>5, ConcatProperties DEF Pending
<1>7. Pending = batch \o (Held \o rxFifo)
  BY <1>3, <1>4, ConcatAssociative DEF Pending
<1> QED BY <1>2, <1>3, <1>4, <1>6, <1>7, Bounds DEF Frame, TypeOK

\* While none has failed, the step is not the failure of a transfer.
LEMMA NoFault ==
  ASSUME TypeOK, faults' = 0
  PROVE  ~FaultStep
<1>1. faults' # faults + 1
  BY DEF TypeOK
<1> QED BY <1>1 DEF FaultStep, RxExitFault, RxClearFault, RxAddressFault,
        RxUincFault, TxStatusFault, TxResetFault, TxWriteFault, TxAddressFault, SpiFault

\* The number of failed transfers never goes back to zero.
LEMMA FaultsStay ==
  ASSUME TypeOK, [Next]_vars, faults' = 0
  PROVE  faults = 0
  BY NoFault DEF Next, RxTaskStep, UsbStep, UsbFinish, ChipStep, Arrive,
     ChipTransmit, ChipTxError, Isr, DiagTake, DiagGive, StartTasks, RxWake,
     RxTimeout, RxTake, RxTakeTimeout, RxStatus, RxClear, RxRead, RxUinc,
     RxSpill, RxAppend, RxChunk, RxFlush, TxPop, TxNone, Yielded, TxTake,
     TxTakeTimeout, TxStatus, TxReset, TxRoom, TxWrite, TxConfirm, UsbTxFrame, UsbNotify,
     UsbAck, UsbControl, CtlTake, CtlTakeTimeout, CtlAbort, CtlNoChange, CtlGive

\* The frames inside are a sequence of frames after the step, too.
LEMMA PendingType ==
  ASSUME TypeOK', Places'
  PROVE  Pending' \in Seq(Frame)
<1>1. hand' # 0 => hand' \in Frame
  BY Bounds DEF TypeOK, Frame
<1>2. <<>> \in Seq(Frame) /\ (hand' \in Frame => <<hand'>> \in Seq(Frame))
  BY EmptySeq
<1>3. Held' \in Seq(Frame)
  BY <1>1, <1>2 DEF Held, Places
<1>4. batch' \in Seq(Frame) /\ rxFifo' \in Seq(Frame)
  BY DEF TypeOK
<1>5. batch' \o Held' \in Seq(Frame)
  BY <1>3, <1>4, ConcatProperties
<1> QED BY <1>4, <1>5, ConcatProperties DEF Pending

\* Until a transfer fails, every step is one of these moves.
LEMMA RxMoves ==
  ASSUME TypeOK, Places, Places', TypeOK', [Next]_vars, faults' = 0, HandIsOldest
  PROVE  Waits \/ Enters \/ Misses \/ Leaves
<1>0. /\ batch \in Seq(Frame) /\ Held \in Seq(Frame) /\ rxFifo \in Seq(Frame)
      /\ Pending \in Seq(Frame) /\ <<>> \in Seq(Frame)
      /\ Pending = batch \o (Held \o rxFifo)
  BY RxSequences
<1>1. CASE Arrive
  <2>1. arrived + 1 \in Frame /\ arrived < MaxRx /\ arrived' = arrived + 1
    BY <1>1, Bounds DEF Arrive, Frame, TypeOK
  <2>2. UNCHANGED <<batch, Held, hostRx, dropped>>
    BY <1>1 DEF Arrive, Held
  <2>3. CASE Len(rxFifo) < RxDepth
    <3>1. rxFifo' = Append(rxFifo, arrived + 1) /\ lost' = lost
      BY <1>1, <2>3 DEF Arrive
    <3>2. rxFifo' = rxFifo \o <<arrived + 1>> /\ <<arrived + 1>> \in Seq(Frame)
      BY <1>0, <2>1, <3>1, AppendIsConcat
    <3>3. batch \o Held \in Seq(Frame)
      BY <1>0, ConcatProperties
    <3>4. (batch \o Held) \o rxFifo' = Pending \o <<arrived + 1>>
      BY <1>0, <3>2, <3>3, ConcatAssociative DEF Pending
    <3>5. Pending' = Append(Pending, arrived + 1)
      BY <1>0, <2>1, <2>2, <3>4, AppendIsConcat DEF Pending
    <3> QED BY <2>1, <2>2, <3>1, <3>5 DEF Enters
  <2>4. CASE ~(Len(rxFifo) < RxDepth)
    <3>1. lost' = lost \cup {arrived + 1} /\ rxFifo' = rxFifo
      BY <1>1, <2>4 DEF Arrive
    <3> QED BY <2>1, <2>2, <3>1 DEF Misses, Pending
  <2> QED BY <2>3, <2>4
<1>2. CASE RxUinc
  <2>1. rxPc = "uinc" /\ rxPc' = "stream" /\ rxFifo # <<>>
    BY <1>2 DEF RxUinc, Places
  <2>2. /\ rxFifo = <<Head(rxFifo)>> \o Tail(rxFifo)
        /\ <<Head(rxFifo)>> \in Seq(Frame) /\ Tail(rxFifo) \in Seq(Frame)
    BY <1>0, <2>1, ConsTail
  <2>3. Held = <<>> /\ Held' = <<Head(rxFifo)>>
    BY <1>2, <2>1 DEF RxUinc, Held, HandIsOldest
  <2>4. Pending = batch \o rxFifo
    BY <1>0, <2>3, ConcatEmptySeq
  <2>5. Pending' = (batch \o <<Head(rxFifo)>>) \o Tail(rxFifo)
    BY <1>2, <2>3 DEF RxUinc, Pending
  <2>6. (batch \o <<Head(rxFifo)>>) \o Tail(rxFifo)
        = batch \o (<<Head(rxFifo)>> \o Tail(rxFifo))
    BY <1>0, <2>2, ConcatAssociative, SMTT(30)
  <2>7. Pending' = Pending
    BY <2>2, <2>4, <2>5, <2>6, Zenon
  <2> QED BY <1>2, <2>7 DEF RxUinc, Waits
<1>3. CASE RxAppend
  <2>1. rxPc = "stream" /\ rxPc' # "stream" /\ hand \in Frame
    BY <1>3, Bounds DEF RxAppend, Places, TypeOK, Frame
  <2>2. Held = <<hand>> /\ Held' = <<>> /\ rxFifo' = rxFifo
    BY <1>3, <2>1 DEF RxAppend, Held
  <2>3. batch' = batch \o <<hand>> /\ <<hand>> \in Seq(Frame)
    BY <1>0, <1>3, <2>1, AppendIsConcat DEF RxAppend
  <2>4. batch' \o Held' = batch \o Held
    <3>1. batch' \in Seq(Frame)
      BY DEF TypeOK
    <3> QED BY <2>2, <2>3, <3>1, ConcatEmptySeq
  <2>5. Pending' = Pending
    BY <2>2, <2>4 DEF Pending
  <2> QED BY <1>3, <2>5 DEF RxAppend, Waits
<1>4. CASE RxSpill \/ RxChunk \/ (RxFlush /\ SendBatch)
  <2>1. /\ SendBatch /\ UNCHANGED <<rxFifo, arrived, lost>>
        /\ UNCHANGED Held
    BY <1>4 DEF RxSpill, RxChunk, RxFlush, Held
  <2>2. Pending' = (<<>> \o Held) \o rxFifo
    BY <2>1 DEF SendBatch, Pending
  <2>3. Pending' = Held \o rxFifo
    BY <1>0, <2>2, ConcatEmptySeq
  <2> QED BY <1>0, <2>1, <2>3 DEF Leaves, SendBatch
<1>5. CASE /\ UNCHANGED <<rxFifo, arrived, lost, batch, hostRx, dropped>>
           /\ (rxPc = "stream") <=> (rxPc' = "stream")
           /\ rxPc = "stream" => hand' = hand
  BY <1>5 DEF Waits, Pending, Held
<1>6. ~FaultStep
  BY NoFault
<1>7. \/ Arrive \/ RxUinc \/ RxAppend \/ RxSpill \/ RxChunk
      \/ RxFlush /\ SendBatch
      \/ UNCHANGED <<rxFifo, arrived, lost, batch, hostRx, dropped>>
  BY <1>6, ZenonT(40) DEF Next, RxTaskStep, UsbStep, UsbFinish, ChipStep,
     ChipTransmit, ChipTxError, Isr, DiagTake, DiagGive, StartTasks, RxWake,
     RxTimeout, RxTake, RxTakeTimeout, RxStatus, RxClear, RxRead, RxFlush,
     TxPop, TxNone, Yielded, TxTake, TxTakeTimeout, TxStatus, TxReset, TxRoom, TxWrite,
     TxConfirm, UsbTxFrame, UsbNotify, UsbAck,
     UsbControl, CtlTake, CtlTakeTimeout, CtlAbort, CtlNoChange, CtlGive
<1>8. \/ Arrive \/ RxUinc \/ RxAppend \/ RxSpill \/ RxChunk
      \/ /\ (rxPc = "stream") <=> (rxPc' = "stream")
         /\ rxPc = "stream" => hand' = hand
  BY <1>6 DEF Next, RxTaskStep, UsbStep, UsbFinish, ChipStep, TxEnd,
     ChipTransmit, ChipTxError, Isr, DiagTake, DiagGive, StartTasks, RxWake,
     RxTimeout, RxTake, RxTakeTimeout, RxStatus, RxClear, RxRead, RxFlush,
     TxPop, TxNone, Yielded, TxTake, TxTakeTimeout, TxStatus, TxReset, TxRoom, TxWrite,
     TxConfirm, UsbTxFrame, UsbNotify, UsbAck,
     UsbControl, CtlTake, CtlTakeTimeout, CtlAbort, CtlNoChange, CtlGive
<1> QED BY <1>1, <1>2, <1>3, <1>4, <1>5, <1>7, <1>8

\* Every move keeps each frame at exactly one place, and in order.
LEMMA ConservedStep ==
  ASSUME TypeOK, Places, Places', TypeOK', [Next]_vars, faults' = 0,
         HandIsOldest, FramesConserved
  PROVE  FramesConserved'
<1> DEFINE inside == Elems(Pending)
<1>0. /\ batch \in Seq(Frame) /\ hostRx \in Seq(Frame) /\ Pending \in Seq(Frame)
      /\ Frame \subseteq Int /\ arrived \in Nat
  BY RxSequences
<1>1. /\ 1..arrived = lost \cup dropped \cup Elems(hostRx) \cup inside
      /\ lost \cap (dropped \cup Elems(hostRx) \cup inside) = {}
      /\ dropped \cap (Elems(hostRx) \cup inside) = {}
      /\ Ascending(hostRx \o Pending)
  BY DEF FramesConserved
<1>2. Ascending(hostRx) /\ Ascending(Pending) /\ Before(hostRx, Pending)
  BY <1>0, <1>1, AscConcat
<1>3. CASE Waits
  BY <1>1, <1>3 DEF Waits, FramesConserved
<1>4. CASE Enters \/ Misses
  <2> DEFINE f == arrived + 1
  <2>1. f \in Frame /\ arrived' = f /\ 1..f = (1..arrived) \cup {f}
    BY <1>0, <1>4, Bounds DEF Enters, Misses, Frame
  <2>2. f \notin lost \cup dropped \cup Elems(hostRx) \cup inside
    BY <1>0, <1>1
  <2>3. \A x \in Elems(hostRx) \cup inside : x < f
    BY <1>0, <1>1
  <2>4. CASE Enters
    <3>1. Pending' = Append(Pending, f) /\ UNCHANGED <<lost, dropped, hostRx>>
      BY <2>4 DEF Enters
    <3> HIDE DEF f
    <3>2. Elems(Append(Pending, f)) = inside \cup {f}
      BY <1>0, <2>1, ElemsAppend
    <3>3. Ascending(Append(Pending, f)) /\ Append(Pending, f) \in Seq(Frame)
      BY <1>0, <1>2, <2>1, <2>3, AscAppend, AppendProperties
    <3>4. Before(hostRx, Append(Pending, f))
      BY <1>2, <2>3, <3>2 DEF Before
    <3>5. Ascending(hostRx \o Append(Pending, f))
      BY <1>0, <1>2, <3>3, <3>4, AscConcat
    <3> QED BY <1>1, <2>1, <2>2, <3>1, <3>2, <3>5 DEF FramesConserved
  <2>5. CASE Misses
    <3>1. lost' = lost \cup {f} /\ UNCHANGED <<dropped, hostRx, Pending>>
      BY <2>5 DEF Misses
    <3> HIDE DEF f
    <3> QED BY <1>1, <2>1, <2>2, <3>1 DEF FramesConserved
  <2> QED BY <1>4, <2>4, <2>5
<1>5. CASE Leaves
  <2>1. Pending = batch \o Pending' /\ UNCHANGED <<arrived, lost>>
    BY <1>5 DEF Leaves
  <2>2. Pending' \in Seq(Frame)
    BY PendingType
  <2>3. Elems(Pending) = Elems(batch) \cup Elems(Pending')
    BY <1>0, <2>1, <2>2, ElemsConcat
  <2>4. Ascending(batch) /\ Ascending(Pending') /\ Before(batch, Pending')
    BY <1>0, <1>2, <2>1, <2>2, AscConcat
  <2>5. Elems(batch) \cap Elems(Pending') = {}
    <3>1. Elems(batch) \subseteq Int
      BY <1>0, ElemsSubset
    <3>2. \A x \in Int : ~(x < x)
      OBVIOUS
    <3> QED BY <2>4, <3>1, <3>2 DEF Before
  <2>6. CASE hostRx' = hostRx \o batch /\ UNCHANGED dropped
    <3>1. hostRx' \in Seq(Frame) /\ Elems(hostRx') = Elems(hostRx) \cup Elems(batch)
      BY <1>0, <2>6, ElemsConcat, ConcatProperties
    <3>2. hostRx' \o Pending' = hostRx \o Pending
      BY <1>0, <2>1, <2>2, <2>6, ConcatAssociative, SMTT(30)
    <3> QED BY <1>1, <2>1, <2>3, <2>5, <2>6, <3>1, <3>2 DEF FramesConserved
  <2>7. CASE dropped' = dropped \cup Elems(batch) /\ UNCHANGED hostRx
    <3>1. Before(hostRx, Pending') /\ Elems(hostRx) \cap Elems(batch) = {}
      <4>1. Elems(batch) \subseteq Int
        BY <1>0, ElemsSubset
      <4>2. \A x \in Int : ~(x < x)
        OBVIOUS
      <4> QED BY <1>2, <2>3, <4>1, <4>2 DEF Before
    <3>2. Ascending(hostRx \o Pending')
      BY <1>0, <1>2, <2>2, <2>4, <3>1, AscConcat
    <3> QED BY <1>1, <2>1, <2>3, <2>5, <2>7, <3>1, <3>2 DEF FramesConserved
  <2> QED BY <1>5, <2>6, <2>7 DEF Leaves
<1> QED BY <1>3, <1>4, <1>5, RxMoves

\* The flag that is about to be cleared was counted, and every other raise of
\* it and every count is paid for by a lost frame of its own.
LEMMA OvercountStep ==
  ASSUME TypeOK, [Next]_vars, faults' = 0, FramesConserved, NotOvercounted
  PROVE  NotOvercounted'
<1>0. /\ lost \subseteq 1..arrived /\ arrived \in Nat /\ ovCount \in Nat
      /\ rxovif \in BOOLEAN
  BY DEF FramesConserved, TypeOK
<1>1. IsFiniteSet(lost) /\ Cardinality(lost) \in Nat
  <2>1. IsFiniteSet(1..arrived)
    BY <1>0, FS_Interval
  <2>2. IsFiniteSet(lost)
    BY <1>0, <2>1, FS_Subset
  <2> QED BY <2>2, FS_CardinalityType
<1>2. CASE Arrive
  <2>1. UNCHANGED <<rxPc, ovCount>>
    BY <1>2 DEF Arrive
  <2>2. CASE Len(rxFifo) < RxDepth
    BY <1>2, <2>1, <2>2 DEF Arrive, NotOvercounted
  <2>3. CASE ~(Len(rxFifo) < RxDepth)
    <3>1. lost' = lost \cup {arrived + 1} /\ rxovif' = TRUE
      BY <1>2, <2>3 DEF Arrive
    <3>2. Cardinality(lost') = Cardinality(lost) + 1
      BY <1>0, <1>1, <3>1, FS_AddElement
    <3>3. ovCount <= Cardinality(lost)
      BY <1>0, <1>1 DEF NotOvercounted
    <3> QED BY <1>0, <1>1, <2>1, <3>1, <3>2, <3>3 DEF NotOvercounted
  <2> QED BY <2>2, <2>3
<1>3. CASE RxStatus
  <2>1. rxPc = "status" /\ UNCHANGED <<lost, rxovif>>
    BY <1>3 DEF RxStatus
  <2>2. \/ rxPc' \in {"flush", "read"} /\ ovCount' = ovCount
        \/ rxovif /\ rxPc' = "clear" /\ ovCount' = ovCount + 1
    BY <1>3 DEF RxStatus
  <2> QED BY <1>0, <1>1, <2>1, <2>2 DEF NotOvercounted
<1>4. CASE RxClear
  <2>1. /\ rxPc = "clear" /\ rxPc' = "read" /\ rxovif' = FALSE
        /\ UNCHANGED <<lost, ovCount>>
    BY <1>4 DEF RxClear
  <2> QED BY <2>1 DEF NotOvercounted
<1>5. CASE /\ UNCHANGED <<lost, rxovif, ovCount>>
           /\ (rxPc = "clear") <=> (rxPc' = "clear")
  BY <1>5 DEF NotOvercounted
<1>6. ~FaultStep
  BY NoFault
<1>7. \/ Arrive \/ RxStatus \/ RxClear
      \/ /\ UNCHANGED <<lost, rxovif, ovCount>>
         /\ (rxPc = "clear") <=> (rxPc' = "clear")
  BY <1>6 DEF Next, RxTaskStep, UsbStep, UsbFinish, ChipStep, TxEnd, SendBatch,
     ChipTransmit, ChipTxError, Isr, DiagTake, DiagGive, StartTasks, RxWake,
     RxTimeout, RxTake, RxTakeTimeout, RxRead, RxUinc, RxSpill, RxAppend,
     RxChunk, RxFlush, TxPop, TxNone, Yielded, TxTake, TxTakeTimeout, TxStatus,
     TxReset, TxRoom, TxWrite, TxConfirm, UsbTxFrame, UsbNotify, UsbAck, UsbControl,
     CtlTake, CtlTakeTimeout, CtlAbort, CtlNoChange, CtlGive
<1> QED BY <1>2, <1>3, <1>4, <1>5, <1>7

\* Only the read of the oldest frame leads to UINC, and while the task holds
\* the mutex nobody else removes it: a frame that arrives goes to the end.
LEMMA OldestStep ==
  ASSUME TypeOK, Places, [Next]_vars, faults' = 0, HandIsOldest
  PROVE  HandIsOldest'
<1>1. CASE Arrive
  <2>1. UNCHANGED <<rxPc, hand>>
    BY <1>1 DEF Arrive
  <2>2. rxPc = "uinc" => rxFifo # <<>>
    BY DEF Places
  <2>3. rxFifo # <<>> => Head(rxFifo') = Head(rxFifo)
    <3>1. rxFifo \in Seq(Frame)
      BY DEF TypeOK
    <3>2. rxFifo' = rxFifo \/ rxFifo' = Append(rxFifo, arrived + 1)
      BY <1>1 DEF Arrive
    <3> QED BY <3>1, <3>2, HeadTailAppend
  <2> QED BY <2>1, <2>2, <2>3 DEF HandIsOldest
<1>2. CASE RxRead
  BY <1>2 DEF RxRead, HandIsOldest
<1>3. CASE UNCHANGED <<rxFifo, rxPc, hand>> \/ rxPc' # "uinc"
  BY <1>3 DEF HandIsOldest
<1>4. ~FaultStep
  BY NoFault
<1>5. Arrive \/ RxRead \/ UNCHANGED <<rxFifo, rxPc, hand>> \/ rxPc' # "uinc"
  BY <1>4 DEF Next, RxTaskStep, UsbStep, UsbFinish, ChipStep, TxEnd,
     ChipTransmit, ChipTxError, Isr, DiagTake, DiagGive, StartTasks, RxWake,
     RxTimeout, RxTake, RxTakeTimeout, RxStatus, RxClear, RxUinc, RxSpill,
     RxAppend, RxChunk, RxFlush, TxPop, TxNone, Yielded, TxTake, TxTakeTimeout,
     TxStatus, TxReset, TxRoom, TxWrite, TxConfirm, UsbTxFrame, UsbNotify, UsbAck,
     UsbControl, CtlTake, CtlTakeTimeout, CtlAbort, CtlNoChange, CtlGive
<1> QED BY <1>1, <1>2, <1>3, <1>5

\* The received frames are where they should be until a transfer fails.
THEOREM Exactness == Spec => []Exact
<1>1. Init => Exact
  <2> SUFFICES ASSUME Init PROVE HandIsOldest /\ NotOvercounted /\ FramesConserved
    BY DEF Exact
  <2>1. HandIsOldest
    BY DEF Init, HandIsOldest
  <2>2. NotOvercounted
    BY FS_EmptySet DEF Init, NotOvercounted
  <2>3. FramesConserved
    <3>1. Held = <<>>
      BY DEF Init, Held
    <3>2. <<>> \o <<>> = <<>>
      BY EmptySeq, ConcatEmptySeq
    <3>3. Pending = <<>> /\ hostRx \o Pending = <<>>
      BY <3>1, <3>2 DEF Init, Pending
    <3>4. Elems(<<>>) = {} /\ Ascending(<<>>)
      BY ElemsShort, AscShort
    <3>5. 1..arrived = {} /\ lost = {} /\ dropped = {} /\ hostRx = <<>>
      BY DEF Init
    <3> QED BY <3>3, <3>4, <3>5 DEF FramesConserved
  <2> QED BY <2>1, <2>2, <2>3
<1>2. IInv /\ IInv' /\ Exact /\ [Next]_vars => Exact'
  <2> SUFFICES ASSUME IInv, IInv', Exact, [Next]_vars, faults' = 0
               PROVE  (HandIsOldest /\ NotOvercounted /\ FramesConserved)'
    BY DEF Exact
  <2>1. TypeOK /\ Places /\ TypeOK' /\ Places'
    BY DEF IInv
  <2>2. HandIsOldest /\ NotOvercounted /\ FramesConserved
    BY <2>1, FaultsStay DEF Exact
  <2> QED BY <2>1, <2>2, OldestStep, OvercountStep, ConservedStep
<1> QED BY <1>1, <1>2, Invariance, PTL DEF Spec

\* As long as no SPI transfer failed, no frame is lost by the software,
\* duplicated or invented, and the host sees them in order
\* (can_tasks.c:70-100).
THEOREM Conservation == Spec => [](faults = 0 => FramesConserved)
<1>1. Exact => (faults = 0 => FramesConserved)
  BY DEF Exact
<1> QED BY <1>1, Exactness, PTL

\* As long as no SPI transfer failed, the overflow counter never exceeds the
\* frames the hardware lost (mcp2517fd.c:524-529).
THEOREM CountExact == Spec => [](faults = 0 => NotOvercounted)
<1>1. Exact => (faults = 0 => NotOvercounted)
  BY DEF Exact
<1> QED BY <1>1, Exactness, PTL

-----------------------------------------------------------------------------
(* The tasks implement the relay of module FrameRelay.                     *)

\* The parts of a concatenation.
LEMMA ConcatParts ==
  ASSUME NEW S, NEW s \in Seq(S), NEW t \in Seq(S)
  PROVE  /\ SubSeq(s \o t, 1, Len(s)) = s
         /\ SubSeq(s \o t, Len(s) + 1, Len(s \o t)) = t
<1> DEFINE r == s \o t
<1>1. /\ r \in Seq(S) /\ Len(r) = Len(s) + Len(t)
      /\ \A i \in 1..Len(r) : r[i] = IF i <= Len(s) THEN s[i] ELSE t[i - Len(s)]
      /\ Len(s) \in Nat /\ Len(t) \in Nat
  BY ConcatProperties, LenProperties
<1>2. \A i \in 1..Len(r) : r[i] \in S
  BY <1>1, ElementOfSeq
<1> HIDE DEF r
<1>3. SubSeq(r, 1, Len(s)) = s
  <2> DEFINE p == SubSeq(r, 1, Len(s))
  <2>1. \A i \in 1..Len(s) : r[i] \in S
    BY <1>1, <1>2
  <2>2. /\ p \in Seq(S)
        /\ Len(p) = (IF 1 <= Len(s) THEN Len(s) - 1 + 1 ELSE 0)
        /\ \A i \in 1..(Len(s) - 1 + 1) : p[i] = r[1 + i - 1]
    BY <1>1, <2>1, SubSeqProperties
  <2> HIDE DEF p
  <2>3. Len(p) = Len(s) /\ \A i \in 1..Len(s) : p[i] = s[i]
    BY <1>1, <2>2
  <2> QED BY <2>2, <2>3, SeqEqual DEF p
<1>4. SubSeq(r, Len(s) + 1, Len(r)) = t
  <2> DEFINE m == Len(s) + 1  p == SubSeq(r, m, Len(r))
  <2>1. \A i \in m..Len(r) : r[i] \in S
    BY <1>1, <1>2
  <2>2. /\ p \in Seq(S)
        /\ Len(p) = (IF m <= Len(r) THEN Len(r) - m + 1 ELSE 0)
        /\ \A i \in 1..(Len(r) - m + 1) : p[i] = r[m + i - 1]
    BY <1>1, <2>1, SubSeqProperties
  <2> HIDE DEF p
  <2>3. Len(p) = Len(t)
    BY <1>1, <2>2
  <2>4. ASSUME NEW i \in 1..Len(t) PROVE p[i] = t[i]
    <3>1. p[i] = r[m + i - 1] /\ m + i - 1 \in 1..Len(r)
          /\ ~(m + i - 1 <= Len(s)) /\ (m + i - 1) - Len(s) = i
      BY <1>1, <2>2
    <3> QED BY <1>1, <3>1
  <2> QED BY <2>2, <2>3, <2>4, SeqEqual DEF p
<1> QED BY <1>3, <1>4 DEF r

\* Every move is a step of the relay, or none.
LEMMA RelayStep ==
  ASSUME TypeOK, Places, TypeOK', Places', HandIsOldest, [Next]_vars, faults' = 0
  PROVE  [Relay!RelayNext]_(Relay!relayVars)
<1> USE DEF Relay!RelayNext, Relay!relayVars
<1>0. /\ batch \in Seq(Frame) /\ hostRx \in Seq(Frame) /\ Pending \in Seq(Frame)
  BY RxSequences
<1>1. CASE Waits
  BY <1>1 DEF Waits
<1>2. CASE Enters \/ Misses
  <2>1. arrived < MaxRx /\ arrived' = arrived + 1 /\ hostRx' = hostRx
    BY <1>2 DEF Enters, Misses
  <2>2. Pending' \in {Pending, Append(Pending, arrived + 1)}
    BY <1>2 DEF Enters, Misses
  <2> QED BY <2>1, <2>2 DEF Relay!Enter
<1>3. CASE Leaves
  <2>1. Pending = batch \o Pending' /\ arrived' = arrived
    BY <1>3 DEF Leaves
  <2>2. Pending' \in Seq(Frame)
    BY PendingType
  <2>3. CASE batch = <<>>
    <3>1. Pending' = Pending
      BY <2>1, <2>2, <2>3, ConcatEmptySeq
    <3>2. hostRx' = hostRx
      BY <1>0, <1>3, <2>3, ConcatEmptySeq DEF Leaves
    <3> QED BY <2>1, <3>1, <3>2
  <2>4. CASE batch # <<>>
    <3>1. Len(batch) \in 1..Len(Pending)
      BY <1>0, <2>1, <2>2, <2>4, ConcatProperties, EmptySeq, LenProperties
    <3>2. /\ SubSeq(Pending, 1, Len(batch)) = batch
          /\ SubSeq(Pending, Len(batch) + 1, Len(Pending)) = Pending'
      BY <1>0, <2>1, <2>2, ConcatParts
    <3>3. hostRx' \in {hostRx, hostRx \o batch}
      BY <1>3 DEF Leaves
    <3>4. Relay!Leave(Len(batch))
      BY <2>1, <3>2, <3>3 DEF Relay!Leave
    <3> QED BY <3>1, <3>4
  <2> QED BY <2>3, <2>4
<1> QED BY <1>1, <1>2, <1>3, RxMoves

\* As long as no SPI transfer fails, the tasks relay the frames as the
\* abstract relay does: in the order of the bus, a batch at a time.
THEOREM Implementation == Spec /\ [](faults = 0) => RelaysFrames
<1>1. Init => Relay!RelayInit
  <2> SUFFICES ASSUME Init PROVE Relay!RelayInit
    OBVIOUS
  <2>1. Held = <<>>
    BY DEF Init, Held
  <2>2. <<>> \o <<>> = <<>>
    BY EmptySeq, ConcatEmptySeq
  <2> QED BY <2>1, <2>2 DEF Init, Pending, Relay!RelayInit
<1>2. IInv /\ IInv' /\ Exact /\ faults = 0 /\ (faults = 0)' /\ [Next]_vars =>
        [Relay!RelayNext]_(Relay!relayVars)
  BY RelayStep DEF IInv, Exact
<1> QED BY <1>1, <1>2, Invariance, Exactness, PTL
        DEF Spec, RelaysFrames, Relay!RelaySpec

-----------------------------------------------------------------------------
(* The tasks implement the promise of module CommandRelay, whatever SPI     *)
(* transfers fail.                                                          *)

\* The place of usb_cmd_task tells whether the last command was answered.
Owing(pc) == pc \in {"notify", "ack"}
Paced == /\ Owing(usbPc) => issued > 0 /\ ack[issued] = "none"
         /\ ~Owing(usbPc) /\ issued > 0 => ack[issued] # "none"
         /\ \A c \in Cmd : c > issued => ack[c] = "none"

\* Where the commands are that may still be sent.
Inside == txFifo \o InHand \o txQueue

\* The sequence v is w with a part taken out.
Less(v, w) == /\ Len(v) < Len(w)
              /\ \E i, j \in 1..Len(w) :
                   v = SubSeq(w, 1, i - 1) \o SubSeq(w, j + 1, Len(w))

\* Taking a part out of the middle of a sequence.
LEMMA TakenOut ==
  ASSUME NEW S, NEW p \in Seq(S), NEW d \in Seq(S), NEW r \in Seq(S), d # <<>>
  PROVE  Less(p \o r, p \o d \o r)
<1> DEFINE w == p \o d \o r
<1>1. /\ Len(p) \in Nat /\ Len(d) \in Nat /\ Len(r) \in Nat /\ Len(d) > 0
      /\ p \o d \in Seq(S) /\ Len(p \o d) = Len(p) + Len(d)
      /\ Len(p \o r) = Len(p) + Len(r)
  BY ConcatProperties, LenProperties, EmptySeq
<1>2. Len(w) = Len(p) + Len(d) + Len(r)
  BY <1>1, ConcatProperties
<1>3. SubSeq(w, Len(p) + Len(d) + 1, Len(w)) = r
  BY <1>1, ConcatParts
<1>4. SubSeq(w, 1, Len(p)) = p
  <2>1. w = p \o (d \o r) /\ d \o r \in Seq(S)
    BY ConcatAssociative, ConcatProperties
  <2> QED BY <2>1, ConcatParts
<1> HIDE DEF w
<1>5. PICK i \in 1..Len(w), j \in 1..Len(w) :
        i - 1 = Len(p) /\ j + 1 = Len(p) + Len(d) + 1
  <2>1. Len(p) + 1 \in 1..Len(w) /\ Len(p) + Len(d) \in 1..Len(w)
    BY <1>1, <1>2
  <2> QED BY <1>1, <2>1
<1>6. p \o r = SubSeq(w, 1, i - 1) \o SubSeq(w, j + 1, Len(w))
  BY <1>3, <1>4, <1>5
<1>7. Len(p \o r) < Len(w)
  BY <1>1, <1>2
<1> QED BY <1>6, <1>7 DEF Less, w

\* The first element of a concatenation and what follows it.
LEMMA ConcatTail ==
  ASSUME NEW S, NEW s \in Seq(S), NEW t \in Seq(S), s # <<>>
  PROVE  s \o t # <<>> /\ Head(s \o t) = Head(s) /\ Tail(s \o t) = Tail(s) \o t
<1> DEFINE r == s \o t  u == Tail(s) \o t
<1>1. /\ r \in Seq(S) /\ Len(r) = Len(s) + Len(t)
      /\ Len(s) \in Nat /\ Len(t) \in Nat /\ Len(s) > 0
      /\ \A i \in 1..Len(r) : r[i] = IF i <= Len(s) THEN s[i] ELSE t[i - Len(s)]
  BY ConcatProperties, LenProperties, EmptySeq
<1>2. r # <<>>
  BY <1>1, EmptySeq
<1>3. /\ Tail(s) \in Seq(S) /\ Len(Tail(s)) = Len(s) - 1
      /\ \A i \in 1..Len(Tail(s)) : Tail(s)[i] = s[i + 1]
  BY HeadTailProperties
<1>4. /\ u \in Seq(S) /\ Len(u) = Len(s) - 1 + Len(t)
      /\ \A i \in 1..Len(u) : u[i] = IF i <= Len(s) - 1 THEN Tail(s)[i]
                                                        ELSE t[i - (Len(s) - 1)]
  BY <1>3, ConcatProperties
<1>5. /\ Tail(r) \in Seq(S) /\ Len(Tail(r)) = Len(r) - 1
      /\ \A i \in 1..Len(Tail(r)) : Tail(r)[i] = r[i + 1]
      /\ Head(r) = r[1] /\ Head(s) = s[1]
  BY <1>1, <1>2, HeadTailProperties
<1> HIDE DEF r, u
<1>6. Len(Tail(r)) = Len(u)
  BY <1>1, <1>4, <1>5
<1>7. ASSUME NEW i \in 1..Len(u) PROVE Tail(r)[i] = u[i]
  <2>1. /\ Tail(r)[i] = r[i + 1] /\ i + 1 \in 1..Len(r)
    BY <1>1, <1>4, <1>5, <1>6
  <2>2. CASE i <= Len(s) - 1
    BY <1>1, <1>3, <1>4, <2>1, <2>2
  <2>3. CASE ~(i <= Len(s) - 1)
    <3>1. r[i + 1] = t[i + 1 - Len(s)] /\ u[i] = t[i - (Len(s) - 1)]
      BY <1>1, <1>4, <2>1, <2>3
    <3>2. i + 1 - Len(s) = i - (Len(s) - 1)
      BY <1>1
    <3> QED BY <2>1, <3>1, <3>2
  <2> QED BY <2>2, <2>3
<1>8. Tail(r) = u
  BY <1>4, <1>5, <1>6, <1>7, SeqEqual
<1>9. Head(r) = Head(s)
  BY <1>1, <1>5
<1> QED BY <1>2, <1>8, <1>9 DEF r, u

\* Appending to the end of a concatenation.
LEMMA AppendToConcat ==
  ASSUME NEW S, NEW s \in Seq(S), NEW t \in Seq(S), NEW e \in S
  PROVE  s \o Append(t, e) = Append(s \o t, e)
<1>1. <<e>> \in Seq(S) /\ s \o t \in Seq(S)
  BY ConcatProperties
<1>2. Append(t, e) = t \o <<e>> /\ Append(s \o t, e) = (s \o t) \o <<e>>
  BY <1>1, AppendIsConcat
<1>3. (s \o t) \o <<e>> = s \o (t \o <<e>>)
  BY <1>1, ConcatAssociative, SMTT(40)
<1> QED BY <1>2, <1>3

\* The other steps answer and confirm nothing.
LEMMA QuietSteps ==
  ASSUME TypeOK, Places, [Next]_vars, ~UsbTxFrame, ~UsbAck, ~TxConfirm
  PROVE  /\ UNCHANGED <<issued, ack, conf, Unconfirmed>>
         /\ ~TxAddressFault => UNCHANGED stray
         /\ Owing(usbPc') <=> Owing(usbPc)
<1>1. CASE TxPop
  <2>1. /\ UNCHANGED <<conf, usbTask>> /\ txItem = 0 /\ txQueue \in Seq(Cmd)
        /\ txQueue # <<>> /\ txItem' = Head(txQueue) /\ txQueue' = Tail(txQueue)
    BY <1>1 DEF TxPop, Places, TypeOK
  <2>2. Head(txQueue) \in Cmd /\ txQueue = <<Head(txQueue)>> \o Tail(txQueue)
    BY <2>1, ConsTail
  <2>3. Unconfirmed = txQueue
    BY <2>1, ConcatEmptySeq DEF Unconfirmed
  <2>4. Unconfirmed' = <<Head(txQueue)>> \o Tail(txQueue)
    <3>1. Head(txQueue) # 0
      BY <2>2 DEF Cmd
    <3> QED BY <2>1, <3>1 DEF Unconfirmed
  <2>5. UNCHANGED stray
    BY <1>1 DEF TxPop
  <2> QED BY <2>1, <2>2, <2>3, <2>4, <2>5
<1>2. CASE UsbNotify
  BY <1>2 DEF UsbNotify, Unconfirmed, Owing
<1>3. CASE /\ UNCHANGED <<conf, issued, ack, usbPc, txItem, txQueue>>
           /\ ~TxAddressFault => UNCHANGED stray
  BY <1>3 DEF Unconfirmed
<1>4. CASE UsbControl \/ CtlTake \/ CtlTakeTimeout \/ CtlAbort \/ CtlNoChange \/ CtlGive
  BY <1>4 DEF UsbControl, CanIssue, CtlTake, CtlTakeTimeout, CtlAbort,
     CtlNoChange, CtlGive, Unconfirmed, Owing
<1>5. \/ TxPop \/ UsbNotify
      \/ /\ UNCHANGED <<conf, issued, ack, usbPc, txItem, txQueue>>
         /\ ~TxAddressFault => UNCHANGED stray
      \/ UsbControl \/ CtlTake \/ CtlTakeTimeout \/ CtlAbort \/ CtlNoChange \/ CtlGive
  BY DEF Next, RxTaskStep, FaultStep, UsbStep, UsbFinish, ChipStep,
     Arrive, ChipTransmit, ChipTxError, Isr, DiagTake, DiagGive, StartTasks,
     RxWake, RxTimeout, RxTake, RxTakeTimeout, RxStatus, RxClear, RxRead, RxUinc,
     RxSpill, RxAppend, RxChunk, RxFlush, SendBatch, TxNone, Yielded, TxTake,
     TxTakeTimeout, TxStatus, TxReset, TxRoom, TxWrite, TxEnd, RxExitFault,
     RxClearFault, RxAddressFault, RxUincFault, TxStatusFault, TxResetFault,
     TxWriteFault, TxAddressFault
<1> QED BY <1>1, <1>2, <1>3, <1>4, <1>5

\* usb_cmd_task answers a command before it looks at the next one.
LEMMA PacedStep ==
  ASSUME TypeOK, Places, Paced, [Next]_vars
  PROVE  Paced'
<1>0. /\ issued \in Nat /\ Cmd = 1..MaxTx /\ MaxTx \in Nat
      /\ ack \in [Cmd -> {"none"} \cup Replies] /\ "none" \notin Replies
  BY Bounds DEF TypeOK, Cmd, Replies
<1>1. CASE UsbTxFrame
  <2>1. /\ issued' = issued + 1 /\ issued + 1 \in Cmd /\ ~Owing(usbPc)
        /\ ack[issued + 1] = "none"
    BY <1>0, <1>1 DEF UsbTxFrame, CanIssue, Owing, Paced
  <2>2. \/ ack' = ack /\ Owing(usbPc')
        \/ /\ \E reply \in Replies : ack' = [ack EXCEPT ![issued + 1] = reply]
           /\ ~Owing(usbPc')
    BY <1>1 DEF UsbTxFrame, CanIssue, Owing
  <2>3. \A c \in Cmd : c > issued + 1 => ack[c] = "none" /\ c # issued + 1
    BY <1>0 DEF Paced
  <2> QED BY <1>0, <2>1, <2>2, <2>3 DEF Paced
<1>2. CASE UsbAck
  <2>1. /\ \E reply \in Replies : ack' = [ack EXCEPT ![issued] = reply]
        /\ UNCHANGED issued /\ Owing(usbPc) /\ ~Owing(usbPc')
    BY <1>2 DEF UsbAck, Owing
  <2>2. issued \in Cmd
    BY <1>0, <2>1 DEF Paced, TypeOK
  <2> QED BY <1>0, <2>1, <2>2 DEF Paced
<1>3. CASE TxConfirm
  BY <1>3 DEF TxConfirm, Paced
<1>4. CASE ~UsbTxFrame /\ ~UsbAck /\ ~TxConfirm
  <2>1. UNCHANGED <<issued, ack>> /\ (Owing(usbPc') <=> Owing(usbPc))
    BY <1>4, QuietSteps
  <2> QED BY <2>1 DEF Paced
<1> QED BY <1>1, <1>2, <1>3, <1>4

Associates(s, t, u) == (s \o t) \o u = s \o (t \o u)

\* Three sequences may be joined from either end.
LEMMA Grouped ==
  ASSUME NEW s \in Seq(Item), NEW t \in Seq(Item), NEW u \in Seq(Item)
  PROVE  Associates(s, t, u)
  BY ConcatAssociative DEF Associates

\* A step that answers and confirms nothing sends a frame, drops some, or
\* leaves them where they are or on their way.
LEMMA QuietRelay ==
  ASSUME TypeOK, Places, [Next]_vars, ~TxAddressFault,
         UNCHANGED <<issued, ack, conf, Unconfirmed>>
  PROVE  \/ UNCHANGED <<Inside, onBus>>
         \/ /\ Inside # <<>> /\ Inside' = Tail(Inside)
            /\ onBus' = Append(onBus, Head(Inside))
         \/ onBus' = onBus /\ Less(Inside', Inside)
<1>0. /\ onBus \in Seq(Item) /\ txFifo \in Seq(Item) /\ InHand \in Seq(Item)
      /\ txQueue \in Seq(Item) /\ issued \in Nat
  BY TxSequences
<1>r. PICK r \in Seq(Item) : r = InHand \o txQueue
  BY <1>0, ConcatProperties
<1>i. Inside = txFifo \o r
  BY <1>0, <1>r, ConcatAssociative, SMTT(40) DEF Inside
<1>1. CASE Rests
  BY <1>1 DEF Rests, Inside
<1>2. CASE Sends
  <2>1. /\ txFifo # <<>> /\ txFifo' = Tail(txFifo)
        /\ onBus' = Append(onBus, Head(txFifo)) /\ UNCHANGED <<InHand, txQueue>>
    BY <1>2 DEF Sends
  <2>2. Inside # <<>> /\ Head(Inside) = Head(txFifo) /\ Tail(Inside) = Tail(txFifo) \o r
    BY <1>0, <1>i, <2>1, ConcatTail
  <2>3. Inside' = Tail(txFifo) \o r
    <3>1. PICK t \in Seq(Item) : t = Tail(txFifo)
      BY <1>0, <2>1, HeadTailProperties
    <3>2. Inside' = t \o InHand \o txQueue
      BY <2>1, <3>1 DEF Inside
    <3>3. (t \o InHand) \o txQueue = t \o (InHand \o txQueue)
      <4>1. PICK h \in Seq(Item), q \in Seq(Item) : h = InHand /\ q = txQueue
        BY <1>0
      <4>2. Associates(t, h, q)
        BY <3>1, <4>1, Grouped
      <4> QED BY <4>1, <4>2 DEF Associates
    <3> QED BY <1>r, <3>1, <3>2, <3>3
  <2> QED BY <2>1, <2>2, <2>3
<1>3. CASE Pops
  <2>1. /\ txQueue # <<>> /\ txQueue' = Tail(txQueue) /\ InHand' = <<Head(txQueue)>>
        /\ UNCHANGED <<onBus, txFifo>>
    BY <1>3 DEF Pops
  <2>2. PICK h \in Item, q \in Seq(Item) :
          /\ h = Head(txQueue) /\ q = Tail(txQueue) /\ txQueue = <<h>> \o q
    BY <1>0, <2>1, ConsTail
  <2>3. /\ <<h>> \in Seq(Item) /\ <<>> \in Seq(Item)
        /\ (txItem \in Item => <<txItem>> \in Seq(Item))
    BY EmptySeq
  <2>4. InHand = <<>>
    <3>1. SUFFICES ASSUME InHand # <<>> PROVE FALSE
      OBVIOUS
    <3>2. txItem \in Item /\ Unconfirmed = <<txItem>> \o txQueue
      BY <3>1 DEF InHand, Unconfirmed, TypeOK
    <3>3. Unconfirmed' = <<h>> \o q
      BY <2>1, <2>2 DEF InHand, Unconfirmed
    <3>4. <<txItem>> \o (<<h>> \o q) = <<h>> \o q
      BY <2>2, <3>2, <3>3
    <3>5. <<h>> \o q \in Seq(Item) /\ Len(<<txItem>>) = 1
      BY <2>3, ConcatProperties
    <3>6. Len(<<txItem>> \o (<<h>> \o q)) = 1 + Len(<<h>> \o q)
      BY <2>3, <3>2, <3>5, ConcatProperties
    <3>7. Len(<<h>> \o q) \in Nat
      BY <3>5, LenProperties
    <3> QED BY <3>4, <3>6, <3>7
  <2>5. Inside = txFifo \o (<<h>> \o q)
    BY <1>0, <1>i, <1>r, <2>2, <2>4, ConcatEmptySeq
  <2>6. Inside' = (txFifo \o <<h>>) \o q
    BY <2>1, <2>2 DEF Inside
  <2>7. (txFifo \o <<h>>) \o q = txFifo \o (<<h>> \o q)
    BY <1>0, <2>3, ConcatAssociative
  <2> QED BY <2>1, <2>5, <2>6, <2>7
<1>4. CASE Gives
  <2>1. /\ InHand = <<txItem>> /\ InHand' = <<>> /\ UNCHANGED <<onBus, txFifo, txQueue>>
    BY <1>4 DEF Gives
  <2>2. Inside' = txFifo \o txQueue
    BY <1>0, <2>1, ConcatEmptySeq DEF Inside
  <2>3. InHand # <<>>
    BY <2>1
  <2>4. Less(txFifo \o txQueue, txFifo \o InHand \o txQueue)
    BY <1>0, <2>3, TakenOut
  <2> QED BY <2>1, <2>2, <2>4 DEF Inside
<1>5. CASE Flushes
  <2>1. txFifo' = <<>> /\ UNCHANGED <<onBus, InHand, txQueue>>
    BY <1>5 DEF Flushes
  <2>2. <<>> \in Seq(Item) /\ <<>> \o txFifo = txFifo /\ <<>> \o InHand = InHand
        /\ <<>> \o r = r
    BY <1>0, EmptySeq, ConcatEmptySeq
  <2>3. Inside' = r
    BY <1>r, <2>1, <2>2 DEF Inside
  <2>4. CASE txFifo = <<>>
    BY <1>i, <2>1, <2>2, <2>3, <2>4
  <2>5. CASE txFifo # <<>>
    <3>1. Less(<<>> \o r, <<>> \o txFifo \o r)
      BY <1>0, <2>2, <2>5, TakenOut
    <3> QED BY <1>i, <2>1, <2>2, <2>3, <3>1
  <2> QED BY <2>4, <2>5
<1>6. CASE Writes
  <2>1. /\ InHand = <<txItem>> /\ InHand' = <<>>
        /\ txFifo' = Append(txFifo, txItem) /\ UNCHANGED <<onBus, txQueue>>
    BY <1>6 DEF Writes
  <2>2. txItem \in Item
    BY <1>0, <2>1, ElementOfSeq
  <2>3. txFifo' = txFifo \o InHand /\ txFifo' \in Seq(Item)
    BY <1>0, <2>1, <2>2, AppendIsConcat, AppendProperties
  <2>4. txFifo' \o <<>> = txFifo'
    BY <2>3, ConcatEmptySeq
  <2> QED BY <2>1, <2>3, <2>4 DEF Inside
<1>7. ~Queues /\ ~Rejects
  BY <1>0 DEF Queues, Rejects
<1> QED BY <1>1, <1>2, <1>3, <1>4, <1>5, <1>6, <1>7, TxMoves

\* One element of u is exchanged for y.
Exchange(u, w, y) == \E i \in DOMAIN u : w = [u EXCEPT ![i] = y]

\* The element between two parts is exchanged.
LEMMA Exchanged ==
  ASSUME NEW S, NEW s \in Seq(S), NEW t \in Seq(S), NEW x \in S, NEW y \in S
  PROVE  Exchange(s \o <<x>> \o t, s \o <<y>> \o t, y)
<1>1. ASSUME NEW z \in S
      PROVE  /\ s \o <<z>> \o t \in [1..Len(s) + 1 + Len(t) -> S]
             /\ \A i \in 1..Len(s) + 1 + Len(t) :
                  (s \o <<z>> \o t)[i] = IF i <= Len(s) THEN s[i]
                       ELSE IF i = Len(s) + 1 THEN z ELSE t[i - (Len(s) + 1)]
  <2>1. <<z>> \in Seq(S) /\ Len(<<z>>) = 1 /\ Len(s) \in Nat /\ Len(t) \in Nat
    BY LenProperties
  <2>2. PICK u \in Seq(S) : u = s \o <<z>>
    BY <2>1, ConcatProperties
  <2>3. /\ Len(u) = Len(s) + 1
        /\ \A i \in 1..Len(s) + 1 : u[i] = IF i <= Len(s) THEN s[i] ELSE z
    BY <2>1, <2>2, ConcatProperties
  <2>4. PICK w \in Seq(S) : w = u \o t
    BY <2>2, ConcatProperties
  <2>5. /\ Len(w) = Len(s) + 1 + Len(t)
        /\ \A i \in 1..Len(w) : w[i] = IF i <= Len(u) THEN u[i] ELSE t[i - Len(u)]
    BY <2>1, <2>2, <2>3, <2>4, ConcatProperties
  <2>6. w \in [1..Len(w) -> S]
    BY <2>4, LenProperties
  <2>7. ASSUME NEW i \in 1..Len(w)
        PROVE  w[i] = IF i <= Len(s) THEN s[i]
                      ELSE IF i = Len(s) + 1 THEN z ELSE t[i - (Len(s) + 1)]
    BY <2>1, <2>3, <2>5
  <2> QED BY <2>2, <2>4, <2>5, <2>6, <2>7
<1>2. PICK v \in [1..Len(s) + 1 + Len(t) -> S] : v = s \o <<x>> \o t
  BY <1>1
<1>3. PICK w \in [1..Len(s) + 1 + Len(t) -> S] : w = s \o <<y>> \o t
  BY <1>1
<1>4. Len(s) \in Nat /\ Len(t) \in Nat
  BY LenProperties
<1>5. PICK m \in 1..Len(s) + 1 + Len(t) : m = Len(s) + 1
  BY <1>4
<1>6. \A i \in 1..Len(s) + 1 + Len(t) : w[i] = IF i = m THEN y ELSE v[i]
  BY <1>1, <1>2, <1>3, <1>4, <1>5
<1>7. w = [v EXCEPT ![m] = y]
  BY <1>6
<1> QED BY <1>2, <1>3, <1>7 DEF Exchange

\* Every step takes in, refuses, answers, sends, drops, replaces or confirms, or
\* none.
LEMMA CommandStep ==
  ASSUME TypeOK, Places, Kept, Paced, [Next]_vars
  PROVE  [Commands!CommandNext]_(Commands!commandVars)
<1> USE DEF Commands!CommandNext, Commands!commandVars
<1>0. /\ onBus \in Seq(Item) /\ txFifo \in Seq(Item) /\ InHand \in Seq(Item)
      /\ txQueue \in Seq(Item) /\ issued \in Nat
  BY TxSequences
<1>1. CASE UsbTxFrame
  <2>1. /\ issued < MaxTx /\ issued' = issued + 1 /\ issued + 1 \in Cmd
        /\ (issued > 0 => ack[issued] # "none")
        /\ UNCHANGED <<conf, onBus, txFifo, rxPc, txItem, stray>>
    BY <1>0, <1>1, Bounds DEF UsbTxFrame, CanIssue, Paced, Owing, Cmd
  <2>2. InHand' = InHand
    BY <2>1 DEF InHand
  <2>3. CASE Len(txQueue) < QueueLen
    <3>1. txQueue' = Append(txQueue, issued + 1) /\ ack' = ack
      BY <1>1, <2>3 DEF UsbTxFrame
    <3>0. issued + 1 \in Item
      BY <2>1, TxSequences
    <3>2. ASSUME NEW s \in Seq(Item)
          PROVE  s \o Append(txQueue, issued + 1) = Append(s \o txQueue, issued + 1)
      BY <1>0, <3>0, AppendToConcat
    <3>3. txFifo \o InHand \in Seq(Item)
      BY <1>0, ConcatProperties
    <3>4. PICK u \in Seq(Item) : u = IF txItem # 0 THEN <<txItem>> ELSE <<>>
      <4>1. txItem \in Item
        BY DEF TypeOK
      <4>2. <<>> \in Seq(Item) /\ <<txItem>> \in Seq(Item)
        BY <4>1, EmptySeq
      <4> QED BY <4>2
    <3>5. txFifo' \o InHand' \o txQueue' = Append(txFifo \o InHand \o txQueue, issued + 1)
      BY <2>1, <2>2, <3>1, <3>2, <3>3
    <3>6. Unconfirmed' = Append(Unconfirmed, issued + 1)
      BY <2>1, <3>1, <3>2, <3>4 DEF Unconfirmed
    <3> QED BY <2>1, <3>1, <3>5, <3>6 DEF Commands!TakeIn, Commands!Arrives
  <2>4. CASE ~(Len(txQueue) < QueueLen)
    <3>1. /\ \E r \in {"busy", "lost"} : ack' = [ack EXCEPT ![issued + 1] = r]
          /\ txQueue' = txQueue
      BY <1>1, <2>4 DEF UsbTxFrame, Reply
    <3>2. Unconfirmed' = Unconfirmed
      BY <2>1, <3>1 DEF Unconfirmed
    <3> QED BY <2>1, <2>2, <3>1, <3>2 DEF Commands!Refuse, Commands!Arrives
  <2> QED BY <2>3, <2>4
<1>2. CASE UsbAck
  <2>1. /\ issued > 0 /\ ack[issued] = "none"
        /\ \E r \in {"ok", "lost"} : ack' = [ack EXCEPT ![issued] = r]
        /\ UNCHANGED <<issued, conf, onBus, txFifo, txQueue, rxPc, txItem, stray>>
    BY <1>2 DEF UsbAck, Reply, Paced, Owing
  <2>2. InHand' = InHand /\ Unconfirmed' = Unconfirmed
    BY <2>1 DEF InHand, Unconfirmed
  <2> QED BY <2>1, <2>2 DEF Commands!Answer
<1>3. CASE TxConfirm
  <2>1. /\ rxPc = "confirm" /\ txItem \in Cmd /\ txItem # 0 /\ txItem' = 0
        /\ UNCHANGED <<issued, ack, onBus, txFifo, txQueue, stray>> /\ rxPc' = "txpop"
    BY <1>3, HeldType DEF TxConfirm, Places
  <2>r. PICK reply \in {"ok", "busy", "lost"} :
          conf' = [conf EXCEPT ![txItem] = reply] /\ (reply = "busy" => ~txOk)
    BY <1>3 DEF TxConfirm, Reply, Replies
  <2>2. InHand = <<>> /\ InHand' = <<>>
    BY <2>1 DEF InHand
  <2>3. Unconfirmed = <<txItem>> \o txQueue /\ Unconfirmed' = <<>> \o txQueue
    BY <2>1 DEF Unconfirmed
  <2>4. /\ Unconfirmed # <<>> /\ Head(Unconfirmed) = txItem
        /\ Tail(Unconfirmed) = Unconfirmed'
    <3>1. <<txItem>> \in Seq(Item) /\ <<txItem>> # <<>>
      BY DEF TypeOK
    <3>2. Head(<<txItem>>) = txItem /\ Tail(<<txItem>>) = <<>>
      OBVIOUS
    <3> QED BY <1>0, <2>3, <3>1, <3>2, ConcatTail
  <2>5. CASE txOk \/ stray
    BY <2>1, <2>r, <2>2, <2>4, <2>5 DEF Commands!Confirm
  <2>6. CASE ~txOk /\ ~stray
    <3>1. Nowhere(txItem)
      BY <2>1, <2>6 DEF Kept, Answered, Refused
    <3>2. \A i \in DOMAIN onBus : onBus[i] # txItem
      BY <3>1 DEF Nowhere, Elems
    <3>3. \A i \in DOMAIN Inside : Inside[i] # txItem
      <4>1. Elems(Inside) = Elems(txFifo) \cup Elems(InHand) \cup Elems(txQueue)
        <5>1. txFifo \o InHand \in Seq(Item)
          BY <1>0, ConcatProperties
        <5>2. Elems(txFifo \o InHand) = Elems(txFifo) \cup Elems(InHand)
          BY <1>0, ElemsConcat
        <5>3. \A s \in Seq(Item) : Elems(s \o txQueue) = Elems(s) \cup Elems(txQueue)
          BY <1>0, ElemsConcat
        <5> QED BY <5>1, <5>2, <5>3 DEF Inside
      <4>2. txItem \notin Elems(Inside)
        BY <3>1, <4>1 DEF Nowhere
      <4> QED BY <4>2 DEF Elems
    <3> QED BY <2>1, <2>r, <2>2, <2>4, <3>2, <3>3
            DEF Commands!Confirm, Commands!Gone, Inside
  <2> QED BY <2>5, <2>6
<1>5. CASE TxAddressFault
  <2>1. /\ rxPc = "txwrite" /\ rxPc' = "confirm" /\ txItem' = txItem /\ stray' = TRUE
        /\ txFifo' = Append(txFifo, txRam[txNext])
        /\ UNCHANGED <<issued, ack, conf, onBus, txQueue>>
    BY <1>5 DEF TxAddressFault, Queue, TxEnd
  <2>2. PICK y \in Item : y = txRam[txNext]
    BY DEF TypeOK
  <2>3. InHand = <<txItem>> /\ InHand' = <<>> /\ txItem \in Item
    BY <2>1, HandPlaces DEF InHand, TypeOK
  <2>4. Unconfirmed' = Unconfirmed
    BY <2>1 DEF Unconfirmed
  <2>5. txFifo' = txFifo \o <<y>> /\ <<y>> \in Seq(Item) /\ txFifo' \in Seq(Item)
    BY <1>0, <2>1, <2>2, AppendIsConcat, AppendProperties
  <2>6. txFifo' \o InHand' = txFifo \o <<y>>
    BY <2>3, <2>5, ConcatEmptySeq
  <2>7. /\ Inside' = txFifo \o <<y>> \o txQueue
        /\ Inside = txFifo \o <<txItem>> \o txQueue
    BY <2>1, <2>3, <2>6 DEF Inside
  <2>8. \E i \in DOMAIN Inside : Inside' = [Inside EXCEPT ![i] = y]
    <3>1. PICK s \in Seq(Item), t \in Seq(Item), x \in Item :
            s = txFifo /\ t = txQueue /\ x = txItem
      BY <1>0, <2>3
    <3>2. Exchange(s \o <<x>> \o t, s \o <<y>> \o t, y)
      BY <2>2, <3>1, Exchanged
    <3> QED BY <2>7, <3>1, <3>2 DEF Exchange
  <2> QED BY <2>1, <2>4, <2>8 DEF Commands!Replace, Inside, Item
<1>4. CASE ~UsbTxFrame /\ ~UsbAck /\ ~TxConfirm /\ ~TxAddressFault
  <2>1. UNCHANGED <<issued, ack, conf, Unconfirmed, stray>>
    BY <1>4, QuietSteps
  <2>2. CASE UNCHANGED <<Inside, onBus>>
    BY <2>1, <2>2 DEF Inside
  <2>3. CASE /\ Inside # <<>> /\ Inside' = Tail(Inside)
             /\ onBus' = Append(onBus, Head(Inside))
    BY <2>1, <2>3 DEF Inside, Commands!Send
  <2>4. CASE onBus' = onBus /\ Less(Inside', Inside)
    BY <2>1, <2>4 DEF Inside, Less, Commands!Drop
  <2> QED BY <1>4, <2>1, <2>2, <2>3, <2>4, QuietRelay
<1> QED BY <1>1, <1>2, <1>3, <1>4, <1>5

\* Every command is taken in or refused, answered before the next one, sent
\* and confirmed in its turn, and reported as failed only when no frame of it
\* is left, whatever SPI transfers fail (can_tasks.c:105-117 and 231-246), until
\* one of them, the read of the user address, puts a stale object in its place.
THEOREM CommandsKept == Spec => RelaysCommands
<1>1. Init => Commands!CommandInit /\ Paced
  <2> SUFFICES ASSUME Init PROVE Commands!CommandInit /\ Paced
    OBVIOUS
  <2>1. /\ onBus = <<>> /\ InHand = <<>> /\ Unconfirmed = <<>> \o <<>>
        /\ txFifo \o InHand \o txQueue = <<>> \o <<>> \o <<>>
    BY DEF Init, InHand, Unconfirmed
  <2>2. <<>> \o <<>> = <<>>
    BY EmptySeq, ConcatEmptySeq
  <2>3. Commands!CommandInit
    BY <2>1, <2>2 DEF Init, Commands!CommandInit, Cmd
  <2> QED BY <2>3 DEF Init, Paced, Owing
<1>2. IInv /\ Paced /\ [Next]_vars => Paced'
  BY PacedStep DEF IInv
<1>3. IInv /\ Kept /\ Paced /\ [Next]_vars =>
        [Commands!CommandNext]_(Commands!commandVars)
  BY CommandStep DEF IInv
<1> QED BY <1>1, <1>2, <1>3, Invariance, Answering, PTL
        DEF Spec, RelaysCommands, Commands!CommandSpec

-----------------------------------------------------------------------------
(* A command gets one confirmation at most, and none after a NACK.         *)

Known(c) == conf[c] # "none" \/ c = txItem \/ c \in Elems(txQueue)

Once == /\ \A c \in Cmd : Known(c) => c <= issued /\ ack[c] # "busy"
        /\ \A c \in Cmd : conf[c] # "none" => c # txItem /\ c \notin Elems(txQueue)
        /\ txItem # 0 => \A x \in Elems(txQueue) : txItem < x

ConfirmedOnce == \A c \in Cmd : conf[c] # "none" => conf'[c] = conf[c]

\* The way to the confirmation is gone once.
LEMMA OnceStep ==
  ASSUME TypeOK, Places, Queued, Paced, Once, [Next]_vars
  PROVE  Once' /\ ConfirmedOnce
<1>0. /\ txQueue \in Seq(Cmd) /\ issued \in Nat /\ Cmd \subseteq Int /\ 0 \notin Cmd
      /\ Elems(txQueue) \subseteq Cmd /\ txItem \in Nat
      /\ ack \in [Cmd -> {"none"} \cup Replies]
      /\ conf \in [Cmd -> {"none"} \cup Replies]
  <2>1. /\ issued \in 0..MaxTx /\ ack \in [Cmd -> {"none"} \cup Replies]
        /\ conf \in [Cmd -> {"none"} \cup Replies] /\ txQueue \in Seq(Cmd)
    BY DEF TypeOK
  <2>2. Cmd \subseteq Int /\ 0 \notin Cmd /\ issued \in Nat
    BY <2>1, Bounds DEF Cmd
  <2> QED BY <2>1, <2>2, ElemsSubset, HeldType
<1>1. CASE UsbTxFrame
  <2>1. /\ issued' = issued + 1 /\ issued + 1 \in Cmd /\ UNCHANGED <<conf, txItem>>
    BY <1>0, <1>1, Bounds DEF UsbTxFrame, Cmd
  <2>2. \A c \in Cmd : Known(c) => c # issued + 1 /\ c <= issued + 1
    BY <1>0 DEF Once
  <2>3. CASE Len(txQueue) < QueueLen
    <3>1. txQueue' = Append(txQueue, issued + 1) /\ ack' = ack
      BY <1>1, <2>3 DEF UsbTxFrame
    <3>2. Elems(txQueue') = Elems(txQueue) \cup {issued + 1}
      BY <1>0, <2>1, <3>1, ElemsAppend
    <3>3. ack[issued + 1] = "none" /\ issued + 1 <= issued + 1
      BY <1>0, <2>1 DEF Paced
    <3>4. txItem # 0 => txItem \in Cmd /\ txItem < issued + 1
      BY <1>0, HeldType DEF Once, Known
    <3>5. \A c \in Cmd : Known(c)' => Known(c) \/ c = issued + 1
      BY <2>1, <3>2 DEF Known
    <3>6. \A c \in Cmd : Known(c)' => c <= issued' /\ ack'[c] # "busy"
      BY <2>1, <2>2, <3>1, <3>3, <3>5 DEF Once
    <3>7. \A c \in Cmd : conf'[c] # "none" => c # txItem' /\ c \notin Elems(txQueue')
      BY <2>1, <2>2, <3>2 DEF Once, Known
    <3>8. txItem' # 0 => \A x \in Elems(txQueue') : txItem' < x
      BY <2>1, <3>2, <3>4 DEF Once
    <3> QED BY <2>1, <3>6, <3>7, <3>8 DEF Once, ConfirmedOnce
  <2>4. CASE ~(Len(txQueue) < QueueLen)
    <3>1. /\ \E reply \in Replies : ack' = [ack EXCEPT ![issued + 1] = reply]
          /\ txQueue' = txQueue
      BY <1>1, <2>4 DEF UsbTxFrame
    <3> QED BY <1>0, <2>1, <2>2, <3>1 DEF Once, Known, ConfirmedOnce
  <2> QED BY <2>3, <2>4
<1>2. CASE TxPop
  <2>1. /\ txItem = 0 /\ txQueue # <<>> /\ txQueue' = Tail(txQueue)
        /\ txItem' = Head(txQueue) /\ UNCHANGED <<conf, ack, issued>>
    BY <1>2 DEF TxPop, Places
  <2>2. PICK h \in Cmd : h = Head(txQueue) /\ Elems(txQueue) = {h} \cup Elems(Tail(txQueue))
    BY <1>0, <2>1, ConsTail
  <2>3. \A x \in Elems(Tail(txQueue)) : h < x
    <3>1. Before(<<Head(txQueue)>>, Tail(txQueue))
      BY <1>0, <2>1, AscTail DEF Queued
    <3>2. Elems(<<Head(txQueue)>>) = {Head(txQueue)}
      BY ElemsShort
    <3> QED BY <2>2, <3>1, <3>2 DEF Before
  <2> QED BY <2>1, <2>2, <2>3 DEF Once, Known, ConfirmedOnce
<1>3. CASE TxConfirm
  <2>1. /\ txItem \in Cmd /\ txItem # 0 /\ txItem' = 0
        /\ UNCHANGED <<issued, ack, txQueue>>
    BY <1>3, HeldType DEF TxConfirm, Places
  <2>r. PICK result \in Replies : conf' = [conf EXCEPT ![txItem] = result]
    BY <1>3 DEF TxConfirm
  <2>2. txItem \notin Elems(txQueue) /\ conf[txItem] = "none"
    <3>1. ~(txItem < txItem)
      BY <1>0
    <3> QED BY <2>1, <3>1 DEF Once
  <2>3. \A c \in Cmd : c # txItem => conf'[c] = conf[c]
    BY <1>0, <2>r
  <2>4. ConfirmedOnce
    BY <2>2, <2>3 DEF ConfirmedOnce
  <2>5. \A c \in Cmd : Known(c)' => Known(c)
    BY <1>0, <2>1, <2>3 DEF Known
  <2>6. \A c \in Cmd : conf'[c] # "none" => c # txItem' /\ c \notin Elems(txQueue')
    BY <1>0, <2>1, <2>2, <2>3 DEF Once
  <2> QED BY <2>1, <2>4, <2>5, <2>6 DEF Once
<1>4. CASE UsbAck
  <2>1. /\ \E reply \in {"ok", "lost"} : ack' = [ack EXCEPT ![issued] = reply]
        /\ UNCHANGED <<issued, conf, txQueue, txItem>>
    BY <1>4 DEF UsbAck, Reply
  <2> QED BY <1>0, <2>1 DEF Once, Known, ConfirmedOnce
<1>5. CASE UNCHANGED <<issued, ack, conf, txQueue, txItem>>
  BY <1>5 DEF Once, Known, ConfirmedOnce
<1>6. \/ UsbTxFrame \/ TxPop \/ TxConfirm \/ UsbAck
      \/ UNCHANGED <<issued, ack, conf, txQueue, txItem>>
  BY DEF Next, RxTaskStep, FaultStep, UsbStep, UsbFinish, ChipStep,
     Arrive, ChipTransmit, ChipTxError, Isr, DiagTake, DiagGive, StartTasks,
     RxWake, RxTimeout, RxTake, RxTakeTimeout, RxStatus, RxClear, RxRead, RxUinc,
     RxSpill, RxAppend, RxChunk, RxFlush, SendBatch, TxNone, Yielded, TxTake,
     TxTakeTimeout, TxStatus, TxReset, TxRoom, TxWrite, TxEnd, RxExitFault,
     RxClearFault, RxAddressFault, RxUincFault, TxStatusFault, TxResetFault,
     TxWriteFault, TxAddressFault, UsbNotify, UsbControl, CtlTake, CtlTakeTimeout, CtlAbort,
     CtlNoChange, CtlGive
<1> QED BY <1>1, <1>2, <1>3, <1>4, <1>5, <1>6

\* A confirmation is never taken back or repeated with another result, and a
\* command that was refused with NACK is never confirmed, so that the host
\* counts every command once (can_tasks.c:105-117 and 231-246).
THEOREM OneAnswer ==
  Spec => /\ [][ConfirmedOnce]_vars
          /\ [](\A c \in Cmd : conf[c] # "none" => ack[c] # "busy")
<1>1. Init => Paced /\ Once
  <2> SUFFICES ASSUME Init PROVE Paced /\ Once
    OBVIOUS
  <2>1. txQueue = <<>> /\ Elems(<<>>) = {}
    BY ElemsShort DEF Init
  <2>2. \A c \in Cmd : c # txItem
    BY Bounds DEF Init, Cmd
  <2> QED BY <2>1, <2>2 DEF Init, Paced, Owing, Once, Known
<1>2. IInv /\ Kept /\ Paced /\ Once /\ [Next]_vars =>
        Paced' /\ Once' /\ [ConfirmedOnce]_vars
  BY PacedStep, OnceStep DEF IInv, Kept
<1>3. Once => \A c \in Cmd : conf[c] # "none" => ack[c] # "busy"
  BY DEF Once, Known
<1> QED BY <1>1, <1>2, <1>3, Invariance, Answering, PTL DEF Spec
=============================================================================
