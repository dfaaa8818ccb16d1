------------------------- MODULE HostSessionProofs -------------------------
(***************************************************************************)
(* For any number of connections, transmitters, clicks and any period: the  *)
(* threads of tools/pcan_view_gui.py number their packets in the order they *)
(* write them, write to an open port, and keep to the period of a frame.    *)
(***************************************************************************)
EXTENDS HostSession, SequenceTheorems, TLAPS

HandlerNames == {"closing", "toggling", "asking", "refreshing", "editing",
                 "selecting", "selected", "sending"}

\* The main thread's handlers; below the innermost one there are only dialogs
\* (whose event loop calls it) and the second command of _send_bitrate_config.
Shape == /\ main \in Seq(HandlerNames)
         /\ \A i \in 1..Len(main) - 1 : main[i] \in {"asking", "sending"}

\* A port without a session is one that _disconnect is about to close: no
\* handler comes between the two and connects again.
Closing == /\ Top = "closing" => ~running
           /\ ~running /\ ser # 0 => Top = "closing"

\* Who has a number holds the transmit lock and found the port open; the main
\* thread is still in the handler that sends.
Writing == /\ phase[mainThread] = "numbered" => Top \in {"sending", "selected"}
           /\ \A t \in Senders : phase[t] = "numbered" => ser # 0 /\ num[t] = seq
           /\ seq \in Nat /\ num \in [Senders -> Nat]

\* The time a transmitter read is not in the future, nor is last_sent_time; and
\* every time but the first that the frame was taken has moved last_sent_time
\* by a whole period.
Paced == /\ clock \in Nat /\ collected \in Nat /\ first \in Nat /\ first <= clock
         /\ lastSent \in Int /\ lastSent <= clock
         /\ now \in [Cyclics -> Nat] /\ \A k \in Cyclics : now[k] <= clock
         /\ collected * Interval + first <= lastSent + Interval

\* The rest of the type invariant: flags, threads and the transmit lock.
Flags == /\ running \in BOOLEAN /\ cyclic \in BOOLEAN /\ paused \in BOOLEAN
         /\ listed \in BOOLEAN /\ pulled \in BOOLEAN
Port == /\ ser \in 0..sessions /\ sessions \in 0..MaxSessions
        /\ (pulled => ser # 0) /\ (running => ser # 0)
Threads ==
  /\ rx \in [Sessions -> {"none", "top", "read", "failed", "ended"}]
  /\ cyc \in [Cyclics -> {"none", "top", "timed", "looking", "due", "send", "final",
                          "ended"}]
  /\ phase \in [Senders -> {"out", "numbered"}]
  /\ \A t, u \in Senders : phase[t] # "out" /\ phase[u] # "out" => t = u

IInv == Shape /\ Closing /\ Writing /\ Paced /\ Flags /\ Port /\ Threads

-----------------------------------------------------------------------------
(* The stack of handlers.                                                   *)

\* An event loop is the outer one or that of a dialog.
LEMMA LoopOrDialog ==
  ASSUME Shape, Top \in {"loop", "asking"}, main # <<>>
  PROVE  main[Len(main)] = "asking"
<1>1. main[Len(main)] \in HandlerNames
  BY ElementOfSeq, LenProperties, EmptySeq DEF Shape
<1> QED BY <1>1 DEF Top, Last, HandlerNames

\* A handler that is called from an event loop is the innermost one.
LEMMA Called ==
  ASSUME Shape, Top \in {"loop", "asking"}, NEW h \in HandlerNames, Call(h)
  PROVE  Shape' /\ Top' = h
<1>1. /\ main' \in Seq(HandlerNames) /\ main' # <<>>
      /\ Len(main') = Len(main) + 1 /\ Len(main) \in Nat
      /\ \A i \in 1..Len(main) : main'[i] = main[i]
      /\ main'[Len(main) + 1] = h
  BY AppendProperties, LenProperties DEF Shape, Call
<1>2. Top' = h
  BY <1>1 DEF Top, Last
<1>3. ASSUME NEW i \in 1..Len(main') - 1 PROVE main'[i] \in {"asking", "sending"}
  <2>1. i \in 1..Len(main) /\ main'[i] = main[i]
    BY <1>1
  <2>2. main # <<>>
    BY <2>1
  <2>3. CASE i = Len(main)
    BY <2>1, <2>2, <2>3, LoopOrDialog
  <2>4. CASE i \in 1..Len(main) - 1
    BY <2>1, <2>4 DEF Shape
  <2> QED BY <1>1, <2>1, <2>3, <2>4
<1> QED BY <1>1, <1>2, <1>3 DEF Shape

\* What Front leaves, and what is on top of it.
LEMMA FrontShape ==
  ASSUME Shape
  PROVE  /\ Front(main) \in Seq(HandlerNames)
         /\ Len(Front(main)) = IF main = <<>> THEN 0 ELSE Len(main) - 1
         /\ \A i \in 1..Len(Front(main)) : /\ Front(main)[i] = main[i]
                                           /\ main[i] \in {"asking", "sending"}
<1>1. Len(main) \in Nat /\ (main # <<>> => Len(main) # 0)
  BY LenProperties, EmptySeq DEF Shape
<1>2. \A i \in 1..Len(main) - 1 : main[i] \in HandlerNames
  BY <1>1, ElementOfSeq DEF Shape
<1>3. /\ SubSeq(main, 1, Len(main) - 1) \in Seq(HandlerNames)
      /\ Len(SubSeq(main, 1, Len(main) - 1)) =
           IF 1 <= Len(main) - 1 THEN Len(main) - 1 - 1 + 1 ELSE 0
      /\ \A i \in 1..Len(main) - 1 - 1 + 1 :
           SubSeq(main, 1, Len(main) - 1)[i] = main[1 + i - 1]
  BY <1>1, <1>2, SubSeqProperties
<1>4. main = <<>> => Len(main) = 0
  OBVIOUS
<1> QED BY <1>1, <1>3, <1>4 DEF Front, Shape

\* A handler that returns leaves an event loop or a handler that sends.
LEMMA Returned ==
  ASSUME Shape, Return
  PROVE  Shape' /\ Top' \in {"loop", "asking", "sending"}
<1>1. main' = Front(main)
  BY DEF Return
<1>2. Len(main') \in Nat /\ (main' # <<>> => Len(main') # 0)
  BY <1>1, FrontShape, LenProperties, EmptySeq
<1>3. Shape'
  BY <1>1, <1>2, FrontShape DEF Shape
<1>4. main' # <<>> => Last(main') \in {"asking", "sending"}
  BY <1>1, <1>2, FrontShape DEF Last
<1> QED BY <1>3, <1>4 DEF Top

\* A handler that goes on as another one keeps its place.
LEMMA Became ==
  ASSUME Shape, NEW h \in HandlerNames, Become(h)
  PROVE  Shape' /\ Top' = h
<1> DEFINE f == Front(main)
<1>1. f \in Seq(HandlerNames) /\ \A i \in 1..Len(f) : f[i] \in {"asking", "sending"}
  BY FrontShape
<1>2. main' = Append(f, h)
  BY DEF Become
<1> HIDE DEF f
<1>3. /\ main' \in Seq(HandlerNames) /\ main' # <<>>
      /\ Len(main') = Len(f) + 1 /\ Len(f) \in Nat
      /\ \A i \in 1..Len(f) : main'[i] = f[i]
      /\ main'[Len(f) + 1] = h
  BY <1>1, <1>2, AppendProperties, LenProperties
<1> QED BY <1>1, <1>3 DEF Shape, Top, Last

\* The two commands of _send_bitrate_config.
LEMMA CalledTwice ==
  ASSUME Shape, Top \in {"loop", "asking"}, main' = main \o <<"sending", "sending">>
  PROVE  Shape' /\ Top' = "sending"
<1> DEFINE two == <<"sending", "sending">>
<1>1. /\ two \in Seq(HandlerNames) /\ Len(two) = 2 /\ two[1] = "sending"
      /\ two[2] = "sending"
  BY DEF HandlerNames
<1> HIDE DEF two
<1>2. /\ main' \in Seq(HandlerNames) /\ Len(main') = Len(main) + 2 /\ Len(main) \in Nat
      /\ \A i \in 1..Len(main) + 2 :
           main'[i] = IF i <= Len(main) THEN main[i] ELSE two[i - Len(main)]
  BY <1>1, ConcatProperties, LenProperties DEF Shape, two
<1>3. main'[Len(main) + 1] = "sending" /\ main'[Len(main) + 2] = "sending"
  BY <1>1, <1>2
<1>4. main' # <<>> /\ Top' = "sending"
  BY <1>2, <1>3 DEF Top, Last
<1>5. ASSUME NEW i \in 1..Len(main') - 1 PROVE main'[i] \in {"asking", "sending"}
  <2>1. CASE i = Len(main) + 1
    BY <1>3, <2>1
  <2>2. CASE i = Len(main)
    BY <1>2, <2>2, LoopOrDialog
  <2>3. CASE i \in 1..Len(main) - 1
    BY <1>2, <2>3 DEF Shape
  <2> QED BY <1>2, <2>1, <2>2, <2>3
<1> QED BY <1>2, <1>4, <1>5 DEF Shape

-----------------------------------------------------------------------------
(* Steps of the main thread.                                                *)

USE DEF flags, world, workers, sending, timing, queues, vars

\* The stack of the main thread keeps its shape, and a port without a session
\* is closed before anything else happens in the main thread.
LEMMA StackStep == ASSUME IInv, Next PROVE Shape' /\ Closing'
<1> USE DEF IInv
<1>1. CASE Connect
  <2>1. Top' = "sending" /\ Shape'
    BY <1>1, Called DEF Connect, Click, HandlerNames
  <2> QED BY <1>1, <2>1 DEF Connect, Closing
<1>2. CASE ClickDisconnect
  <2>1. Top' = "closing" /\ Shape'
    BY <1>2, Called DEF ClickDisconnect, Disconnect, HandlerNames
  <2> QED BY <1>2, <2>1 DEF ClickDisconnect, Disconnect, Closing
<1>3. CASE UnexpectedDisconnect
  <2>1. CASE running
    <3>1. Top' = "closing" /\ Shape'
      BY <1>3, <2>1, Called DEF UnexpectedDisconnect, Loops, Disconnect, HandlerNames
    <3> QED BY <1>3, <2>1, <3>1 DEF UnexpectedDisconnect, Disconnect, Closing
  <2>2. CASE ~running
    BY <1>3, <2>2 DEF UnexpectedDisconnect, Shape, Closing, Top
  <2> QED BY <2>1, <2>2
<1>4. CASE Close
  <2>1. Shape' /\ Top' \in {"loop", "asking", "sending"}
    BY <1>4, Returned DEF Close
  <2> QED BY <1>4, <2>1 DEF Close, Closing
<1>5. CASE ClickCyclic
  <2>1. CASE cyclic
    BY <1>5, <2>1 DEF ClickCyclic, Shape, Closing, Top
  <2>2. CASE ~cyclic
    <3>1. Shape' /\ Top' = "toggling"
      BY <1>5, <2>2, Called DEF ClickCyclic, Click, HandlerNames
    <3> QED BY <1>5, <3>1 DEF ClickCyclic, Closing
  <2> QED BY <2>1, <2>2
<1>6. CASE StartCyclic \/ RefreshEnds \/ Edit \/ CloseDialog
  <2>1. /\ Shape' /\ Top' \in {"loop", "asking", "sending"}
        /\ Top # "closing" /\ UNCHANGED <<running, ser>>
    BY <1>6, Returned DEF StartCyclic, RefreshEnds, Edit, CloseDialog
  <2> QED BY <2>1 DEF Closing
<1>7. CASE AskForFrames
  <2>1. Shape' /\ Top' = "asking"
    BY <1>7, Became DEF AskForFrames, HandlerNames
  <2> QED BY <1>7, <2>1 DEF AskForFrames, Closing
<1>8. CASE RefreshWaits
  <2>1. Shape' /\ Top' = "refreshing"
    BY <1>8, Called DEF RefreshWaits, Loops, HandlerNames
  <2> QED BY <1>8, <2>1 DEF RefreshWaits, Loops, Closing
<1>9. CASE ClickEdit
  <2>1. Shape' /\ Top' = "editing"
    BY <1>9, Called DEF ClickEdit, Click, HandlerNames
  <2> QED BY <1>9, <2>1 DEF ClickEdit, Click, Closing
<1>10. CASE ClickSend
  <2>1. Shape' /\ Top' \in {"selecting", "sending"}
    <3>1. Call("selecting") => Shape' /\ Top' = "selecting"
      BY <1>10, Called DEF ClickSend, Click, HandlerNames
    <3>2. Call("sending") => Shape' /\ Top' = "sending"
      BY <1>10, Called DEF ClickSend, Click, HandlerNames
    <3> QED BY <1>10, <3>1, <3>2 DEF ClickSend
  <2> QED BY <1>10, <2>1 DEF ClickSend, Closing
<1>11. CASE Select
  <2>1. Shape' /\ Top' # "closing"
    <3>1. CASE listed
      BY <1>11, <3>1, Became DEF Select, HandlerNames
    <3>2. CASE ~listed
      BY <1>11, <3>2, Returned DEF Select
    <3> QED BY <3>1, <3>2
  <2> QED BY <1>11, <2>1 DEF Select, Closing
<1>12. CASE SendConfig
  <2>1. Shape' /\ Top' = "sending"
    BY <1>12, CalledTwice DEF SendConfig, Loops
  <2> QED BY <1>12, <2>1 DEF SendConfig, Loops, Closing
<1>13. ASSUME NEW t \in Senders, SendStep(t) PROVE Shape' /\ Closing'
  <2>1. CASE main' = main
    <3>1. UNCHANGED <<running, ser>>
      BY <1>13 DEF SendStep, SendBegins, SendWrites, SendNumbers, SendReturns
    <3> QED BY <2>1, <3>1 DEF Shape, Closing, Top
  <2>2. CASE main' # main
    <3>1. /\ t = mainThread /\ Return /\ UNCHANGED <<running, ser>>
          /\ Top \in {"sending", "selected"}
      BY <1>13, <2>2, SessionAssumption DEF SendStep, SendBegins, SendWrites, SendNumbers, SendReturns,
         HasToSend, Return, Writing, mainThread, Cyclics, burstThread
    <3>2. Shape' /\ Top' # "closing"
      BY <3>1, Returned
    <3> QED BY <3>1, <3>2 DEF Closing
  <2> QED BY <2>1, <2>2
<1>14. CASE \/ ClickPause \/ ClickBurst \/ BurstStops \/ Pull \/ Tick
            \/ \E n \in Sessions : RxStep(n)
            \/ \E k \in Cyclics : CycStep(k)
  <2>1. UNCHANGED <<main, running, ser>>
    BY <1>14 DEF ClickPause, ClickBurst, BurstStops, Pull, Tick, RxStep, RxTop, RxRead,
       RxFailed, RxGoes, CycStep, CycTop, CycLooks, CycCollects, CycDue, CycFinal, CycGoes
  <2> QED BY <2>1 DEF Shape, Closing, Top
<1> QED
  BY <1>1, <1>2, <1>3, <1>4, <1>5, <1>6, <1>7, <1>8, <1>9, <1>10, <1>11, <1>12, <1>13,
     <1>14
  DEF Next, Clicks, Handlers

-----------------------------------------------------------------------------
(* The transmit lock.                                                       *)

\* While a thread has a number nobody else takes one, and the port stays.
LEMMA HoldsLock ==
  ASSUME IInv, Next, NEW t \in Senders, phase[t] = "numbered"
  PROVE  /\ UNCHANGED <<ser, seq, num>> \/ SendWrites(t)
         /\ ser' = ser
         /\ \A u \in Senders : phase'[u] # phase[u] => u = t
<1> USE DEF IInv
<1>1. ~TxLockFree
  BY DEF TxLockFree
<1>2. ~Connect
  BY DEF Connect, Click, Closing, Writing
<1>3. ~Close
  BY <1>1 DEF Close
<1>4. ASSUME NEW u \in Senders, SendStep(u) PROVE u = t /\ SendWrites(t)
  <2>1. SendWrites(u)
    BY <1>1, <1>4 DEF SendStep, SendBegins
  <2> QED BY <2>1 DEF SendWrites, Threads
<1>5. ASSUME SendWrites(t)
      PROVE ser' = ser /\ \A u \in Senders : phase'[u] # phase[u] => u = t
  BY <1>5 DEF SendWrites, SendReturns, Threads
<1>6. CASE \E u \in Senders : SendStep(u)
  BY <1>4, <1>5, <1>6
<1>7. CASE ~ \E u \in Senders : SendStep(u)
  <2>1. UNCHANGED <<ser, seq, num, phase>>
    BY <1>2, <1>3, <1>7 DEF Next, Clicks, Handlers, ClickDisconnect, Disconnect,
       UnexpectedDisconnect, ClickCyclic, StartCyclic, RefreshEnds, Edit, CloseDialog,
       AskForFrames, RefreshWaits, ClickEdit, ClickSend, Select, SendConfig, ClickPause,
       ClickBurst, BurstStops, Pull, Tick, RxStep, RxTop, RxRead, RxFailed, RxGoes, CycStep,
       CycTop, CycLooks, CycCollects, CycDue, CycFinal, CycGoes
  <2> QED BY <2>1
<1> QED BY <1>6, <1>7

\* The number of a packet that waits to be written stays the newest.
LEMMA WritingStep == ASSUME IInv, Next PROVE Writing'
<1> USE DEF IInv
<1>1. CASE \E t \in Senders : phase[t] = "numbered"
  <2>1. PICK t \in Senders : phase[t] = "numbered"
    BY <1>1
  <2>2. \A u \in Senders : phase[u] = "numbered" => u = t
    BY <2>1 DEF Threads
  <2>3. ser' = ser /\ \A u \in Senders : phase'[u] # phase[u] => u = t
    BY <2>1, HoldsLock
  <2>4. CASE SendWrites(t)
    <3>1. /\ seq' = seq /\ phase' = [phase EXCEPT ![t] = "out"]
          /\ num' = [num EXCEPT ![t] = 0]
      BY <2>4 DEF SendWrites, SendReturns
    <3>2. \A u \in Senders : phase'[u] # "numbered"
      BY <2>2, <3>1 DEF Threads
    <3> QED BY <3>1, <3>2 DEF Writing, mainThread, Senders
  <2>5. CASE UNCHANGED <<ser, seq, num>> /\ ~SendWrites(t)
    <3>1. ASSUME phase'[mainThread] = "numbered" PROVE Top' \in {"sending", "selected"}
      <4>1. mainThread \in Senders
        BY DEF mainThread, Senders
      <4>2. t = mainThread
        BY <2>1, <2>2, <2>3, <3>1, <4>1
      <4>3. ~ \E u \in Senders : SendStep(u)
        BY <2>1, <2>2, <2>5 DEF TxLockFree, SendStep, SendBegins, SendWrites
      <4>4. Top \in {"sending", "selected"}
        BY <2>1, <4>2 DEF Writing
      <4>5. main' = main
        BY <4>3, <4>4 DEF Next, Clicks, Handlers, Connect, Click,
           ClickDisconnect, Disconnect, UnexpectedDisconnect, Close, ClickCyclic,
           StartCyclic, RefreshEnds, Edit, CloseDialog, AskForFrames, RefreshWaits, Loops,
           ClickEdit, ClickSend, Select, SendConfig, ClickPause, ClickBurst, BurstStops,
           Pull, Tick, RxStep, RxTop, RxRead, RxFailed, RxGoes, CycStep, CycTop, CycLooks,
           CycCollects, CycDue, CycFinal, CycGoes
      <4> QED BY <4>4, <4>5 DEF Top
    <3> QED BY <2>1, <2>2, <2>3, <2>5, <3>1 DEF Writing
  <2> QED BY <2>1, <2>4, <2>5, HoldsLock
<1>2. CASE \A t \in Senders : phase[t] # "numbered"
  <2>1. CASE \E t \in Senders : SendBegins(t)
    <3>1. PICK t \in Senders : SendBegins(t)
      BY <2>1
    <3>2. CASE ser = 0
      <4>1. /\ seq' = seq /\ num' = [num EXCEPT ![t] = 0]
            /\ phase' = [phase EXCEPT ![t] = "out"]
        BY <3>1, <3>2 DEF SendBegins, SendNumbers, SendReturns
      <4>2. \A u \in Senders : phase'[u] # "numbered"
        BY <1>2, <4>1 DEF Threads
      <4> QED BY <4>1, <4>2 DEF Writing, mainThread, Senders
    <3>3. CASE ser # 0
      <4>1. /\ seq' = (seq + 1) % SeqSize /\ num' = [num EXCEPT ![t] = seq']
            /\ phase' = [phase EXCEPT ![t] = "numbered"]
            /\ UNCHANGED <<main, ser>>
        BY <3>1, <3>3 DEF SendBegins, SendNumbers
      <4>2. seq' \in Nat
        BY <4>1, SessionAssumption DEF Writing
      <4>3. t = mainThread => Top' \in {"sending", "selected"}
        BY <3>1, <4>1, SessionAssumption DEF SendBegins, HasToSend, mainThread, Cyclics,
           burstThread, Top
      <4>4. \A u \in Senders : phase'[u] = "numbered" => u = t
        BY <1>2, <4>1 DEF Threads
      <4> QED BY <3>3, <4>1, <4>2, <4>3, <4>4 DEF Writing, mainThread, Senders
    <3> QED BY <3>2, <3>3
  <2>2. CASE ~ \E t \in Senders : SendBegins(t)
    <3>1. UNCHANGED <<seq, num, phase>>
      BY <1>2, <2>2 DEF Next, Clicks, Handlers, Connect, ClickDisconnect, Disconnect,
         UnexpectedDisconnect, Close, ClickCyclic, StartCyclic, RefreshEnds, Edit,
         CloseDialog, AskForFrames, RefreshWaits, ClickEdit, ClickSend, Select, SendConfig,
         ClickPause, ClickBurst, BurstStops, Pull, Tick, RxStep, RxTop, RxRead, RxFailed,
         RxGoes, CycStep, CycTop, CycLooks, CycCollects, CycDue, CycFinal, CycGoes,
         SendStep, SendWrites
    <3> QED BY <1>2, <3>1 DEF Writing, mainThread, Senders
  <2> QED BY <2>1, <2>2
<1> QED BY <1>1, <1>2

\* A step keeps the threads in their places, and no two with a number.
LEMMA ThreadsStep == ASSUME IInv, Next PROVE Threads'
<1> USE DEF IInv, Threads
<1>1. CASE \E t \in Senders : SendBegins(t)
  <2>1. PICK t \in Senders : SendBegins(t)
    BY <1>1
  <2>2. /\ rx' = rx
        /\ cyc' \in {cyc, IF t \in Cyclics THEN [cyc EXCEPT ![t] = "top"] ELSE cyc}
        /\ phase' \in {[phase EXCEPT ![t] = "numbered"], [phase EXCEPT ![t] = "out"]}
    BY <2>1 DEF SendBegins, SendNumbers, SendReturns
  <2>3. \A u \in Senders : phase[u] = "out"
    BY <2>1 DEF SendBegins, TxLockFree
  <2> QED BY <2>2, <2>3
<1>2. CASE \E t \in Senders : SendWrites(t)
  <2>1. PICK t \in Senders : SendWrites(t)
    BY <1>2
  <2>2. /\ rx' = rx /\ phase' = [phase EXCEPT ![t] = "out"]
        /\ cyc' = IF t \in Cyclics THEN [cyc EXCEPT ![t] = "top"] ELSE cyc
    BY <2>1 DEF SendWrites, SendReturns
  <2> QED BY <2>2
<1>3. CASE Connect
  BY <1>3 DEF Connect
<1>4. CASE StartCyclic
  BY <1>4 DEF StartCyclic
<1>5. CASE \E n \in Sessions : RxStep(n)
  BY <1>5 DEF RxStep, RxTop, RxRead, RxFailed, RxGoes
<1>6. CASE \E k \in Cyclics : CycStep(k)
  BY <1>6 DEF CycStep, CycTop, CycLooks, CycCollects, CycDue, CycFinal, CycGoes
<1>7. CASE \/ ClickDisconnect \/ UnexpectedDisconnect \/ Close \/ ClickCyclic
           \/ RefreshEnds \/ Edit \/ CloseDialog \/ AskForFrames \/ RefreshWaits
           \/ ClickEdit \/ ClickSend \/ Select \/ SendConfig \/ ClickPause \/ ClickBurst
           \/ BurstStops \/ Pull \/ Tick
  BY <1>7 DEF ClickDisconnect, Disconnect, UnexpectedDisconnect, Close, ClickCyclic,
     RefreshEnds, Edit, CloseDialog, AskForFrames, RefreshWaits, ClickEdit, ClickSend,
     Select, SendConfig, ClickPause, ClickBurst, BurstStops, Pull, Tick
<1> QED
  BY <1>1, <1>2, <1>3, <1>4, <1>5, <1>6, <1>7 DEF Next, Clicks, Handlers, SendStep

Resting == UNCHANGED <<flags, listed, pulled>>

\* The actions that touch no flag.
LEMMA RestingSteps ==
  ASSUME Next
  PROVE  \/ Connect \/ ClickDisconnect \/ UnexpectedDisconnect \/ Close \/ ClickCyclic
         \/ StartCyclic \/ Edit \/ ClickPause \/ Pull \/ Resting
         \/ \E k \in Cyclics : CycStep(k)
BY DEF Resting, Next, Clicks, Handlers, RefreshEnds, CloseDialog, AskForFrames,
   RefreshWaits, ClickEdit, ClickSend, Select, SendConfig, ClickBurst, BurstStops, Tick,
   RxStep, RxTop, RxRead, RxFailed, RxGoes, SendStep, SendBegins, SendWrites, SendNumbers,
   SendReturns

USE DEF Resting

\* A step that sets a flag sets it to a truth value.
LEMMA FlagsStep == ASSUME IInv, Next PROVE Flags'
<1> USE DEF IInv, Flags
<1>1. CASE Connect
  BY <1>1 DEF Connect
<1>2. CASE ClickDisconnect \/ UnexpectedDisconnect
  BY <1>2 DEF ClickDisconnect, UnexpectedDisconnect, Disconnect
<1>3. CASE Close
  BY <1>3 DEF Close
<1>4. CASE ClickCyclic \/ StartCyclic \/ Edit \/ ClickPause
  BY <1>4 DEF ClickCyclic, StartCyclic, Edit, ClickPause
<1>5. CASE Pull
  BY <1>5 DEF Pull
<1>6. CASE \E k \in Cyclics : CycStep(k)
  <2>1. cyclic' \in {cyclic, FALSE} /\ UNCHANGED <<running, paused, listed, pulled>>
    BY <1>6 DEF CycStep, CycTop, CycLooks, CycCollects, CycDue, CycFinal, CycGoes
  <2> QED BY <2>1
<1>7. CASE Resting
  BY <1>7
<1> QED
  BY <1>1, <1>2, <1>3, <1>4, <1>5, <1>6, <1>7, RestingSteps

\* A step keeps a session on a port that is open.
LEMMA PortStep == ASSUME IInv, Next PROVE Port'
<1> USE DEF IInv, Port
<1>1. CASE Connect
  <2>1. /\ sessions' = sessions + 1 /\ ser' = sessions' /\ sessions < MaxSessions
    BY <1>1 DEF Connect
  <2>2. sessions' \in 0..MaxSessions /\ ser' \in 0..sessions' /\ ser' # 0
    BY <2>1, SessionAssumption
  <2> QED BY <2>2
<1>2. CASE ClickDisconnect \/ UnexpectedDisconnect
  <2>1. /\ UNCHANGED <<ser, sessions, pulled>> /\ (running' => running)
    BY <1>2 DEF ClickDisconnect, UnexpectedDisconnect, Disconnect
  <2> QED BY <2>1
<1>3. CASE Close
  <2>1. ~running' /\ ser' = 0 /\ ~pulled' /\ sessions' = sessions
    BY <1>3 DEF Close, Closing
  <2>2. 0 \in 0..sessions
    OBVIOUS
  <2> QED BY <2>1, <2>2
<1>4. CASE ClickCyclic \/ StartCyclic \/ Edit \/ ClickPause
  <2>1. UNCHANGED <<ser, sessions, pulled, running>>
    BY <1>4 DEF ClickCyclic, StartCyclic, Edit, ClickPause, Click
  <2> QED BY <2>1
<1>5. CASE Pull
  <2>1. UNCHANGED <<ser, sessions, running>> /\ ser # 0
    BY <1>5 DEF Pull, Alive
  <2> QED BY <2>1
<1>6. CASE \E k \in Cyclics : CycStep(k)
  <2>1. UNCHANGED <<ser, sessions, pulled, running>>
    BY <1>6 DEF CycStep, CycTop, CycLooks, CycCollects, CycDue, CycFinal, CycGoes
  <2> QED BY <2>1
<1>7. CASE Resting
  BY <1>7
<1> QED
  BY <1>1, <1>2, <1>3, <1>4, <1>5, <1>6, <1>7, RestingSteps

-----------------------------------------------------------------------------
(* The period.                                                              *)

\* One more period, one more frame.
LEMMA OneMore ==
  ASSUME NEW n \in Nat PROVE (n + 1) * Interval = n * Interval + Interval
BY SessionAssumption

\* A transmitter takes the frame only a whole period after the last time, of
\* whichever transmitter it was.
LEMMA PacedStep == ASSUME IInv, Next PROVE Paced'
<1> USE DEF IInv
<1>1. CASE \E k \in Cyclics : CycCollects(k)
  <2>1. PICK k \in Cyclics : CycCollects(k)
    BY <1>1
  <2>2. now' = [now EXCEPT ![k] = 0] /\ clock' = clock /\ Interval \in Nat
    BY <2>1, SessionAssumption DEF CycCollects, CycGoes
  <2>3. /\ now' \in [Cyclics -> Nat] /\ \A j \in Cyclics : now'[j] <= clock
        /\ now[k] \in Nat /\ now[k] <= clock
    BY <2>2 DEF Paced
  <2>4. CASE listed /\ now[k] - lastSent >= Interval
    <3>1. /\ lastSent' = now[k] /\ collected' = collected + 1
          /\ first' = IF collected = 0 THEN now[k] ELSE first
      BY <2>1, <2>4 DEF CycCollects, First
    <3>2. collected' * Interval + first' <= lastSent' + Interval
      <4>1. CASE collected = 0
        BY <2>2, <2>3, <3>1, <4>1
      <4>2. CASE collected # 0
        <5> DEFINE before == collected * Interval
        <5>1. before \in Int /\ before + first <= lastSent + Interval
          BY <2>2 DEF Paced
        <5>2. collected' * Interval = before + Interval
          BY <3>1, OneMore DEF Paced
        <5> HIDE DEF before
        <5> QED BY <2>2, <2>3, <2>4, <3>1, <4>2, <5>1, <5>2 DEF Paced
      <4> QED BY <4>1, <4>2
    <3> QED BY <2>2, <2>3, <3>1, <3>2 DEF Paced
  <2>5. CASE ~(listed /\ now[k] - lastSent >= Interval)
    <3>1. UNCHANGED timing
      BY <2>1, <2>5 DEF CycCollects
    <3> QED BY <2>2, <2>3, <3>1 DEF Paced, timing
  <2> QED BY <2>4, <2>5
<1>2. CASE \E k \in Cyclics : CycTop(k)
  BY <1>2 DEF CycTop, CycGoes, Paced, timing
<1>3. CASE Tick
  BY <1>3 DEF Tick, Paced, timing, workers
<1>3a. CASE Edit
  <2>1. UNCHANGED timing \/ (lastSent' = -Interval /\ collected' = 0 /\ first' = 0)
    BY <1>3a DEF Edit
  <2>2. UNCHANGED <<clock, now>> /\ Interval \in Nat
    BY <1>3a, SessionAssumption DEF Edit, world, workers
  <2> QED BY <2>1, <2>2 DEF Paced, timing
<1>4. CASE UNCHANGED <<clock, now, timing>>
  BY <1>4 DEF Paced, timing
<1>5. \/ UNCHANGED <<clock, now, timing>> \/ Tick \/ Edit
      \/ \E k \in Cyclics : CycCollects(k) \/ CycTop(k)
  BY DEF Next, Clicks, Handlers, Connect, ClickDisconnect, Disconnect,
     UnexpectedDisconnect, Close, ClickCyclic, StartCyclic, RefreshEnds, CloseDialog,
     AskForFrames, RefreshWaits, ClickEdit, ClickSend, Click, Select, SendConfig, ClickPause,
     ClickBurst, BurstStops, Pull, RxStep, RxTop, RxRead, RxFailed, RxGoes, CycStep,
     CycLooks, CycDue, CycFinal, CycGoes, SendStep, SendBegins, SendWrites, SendNumbers,
     SendReturns
<1> QED BY <1>1, <1>2, <1>3, <1>3a, <1>4, <1>5

\* So many whole periods fit into the time.
LEMMA PeriodsPassed ==
  ASSUME NEW n \in Nat, NEW c \in Nat, n * Interval <= c + Interval
  PROVE  n <= 1 + c \div Interval
<1> DEFINE q == c \div Interval
           whole == q * Interval
<1>1. Interval \in Nat /\ Interval > 0
  BY SessionAssumption
<1>2. q \in Nat /\ whole \in Nat /\ c < whole + Interval
  BY <1>1
<1>3. (q + 1) * Interval = whole + Interval /\ (q + 2) * Interval = whole + 2 * Interval
  BY <1>1, <1>2
<1>4. SUFFICES ASSUME n >= q + 2 PROVE FALSE
  BY <1>2
<1>5. n * Interval >= (q + 2) * Interval
  BY <1>1, <1>2, <1>4
<1> HIDE DEF q, whole
<1> QED BY <1>1, <1>2, <1>3, <1>5

-----------------------------------------------------------------------------
(* The theorems.                                                            *)

\* The invariant the proofs rest on.
THEOREM Invariance == Spec => []IInv
<1>1. Init => IInv
  <2> SUFFICES ASSUME Init PROVE IInv
    OBVIOUS
  <2>1. Shape /\ Closing
    BY EmptySeq DEF Init, Shape, Closing, Top
  <2>2. Flags
    BY DEF Init, Flags
  <2>3. Port
    BY SessionAssumption DEF Init, Port
  <2>4. Writing /\ Threads
    BY DEF Init, Writing, Threads, Senders, Cyclics, mainThread
  <2>5. Paced
    BY SessionAssumption DEF Init, Paced
  <2> QED BY <2>1, <2>2, <2>3, <2>4, <2>5 DEF IInv
<1>2. IInv /\ [Next]_vars => IInv'
  <2> SUFFICES ASSUME IInv, [Next]_vars PROVE IInv'
    OBVIOUS
  <2>1. CASE Next
    BY <2>1, StackStep, WritingStep, ThreadsStep, FlagsStep, PortStep, PacedStep DEF IInv
  <2>2. CASE UNCHANGED vars
    BY <2>2 DEF IInv, Shape, Closing, Writing, Paced, Flags, Port, Threads, Top
  <2> QED BY <2>1, <2>2
<1> QED BY <1>1, <1>2, PTL DEF Spec

\* pcan_view_gui.py:468-497.  Whatever the threads and clicks do, no two
\* threads are inside the transmit lock, a session has an open port, and the
\* packets leave in the order of their numbers.
THEOREM Ordered == Spec => []SessionOK
<1>1. IInv => SessionOK
  BY DEF IInv, SessionOK, TypeOK, NumbersInOrder, Shape, Flags, Port, Threads, Writing,
     HandlerNames
<1> QED BY <1>1, Invariance, PTL

\* pcan_view_gui.py:451-465, 484-488.  The port a thread is about to write to is
\* neither closed nor replaced, although _send_cmd and _toggle_connect do not
\* share a lock: only a closed port is replaced.
THEOREM PortKept == Spec => PortStaysOpen
<1>1. IInv /\ [Next]_vars =>
        [\A t \in Senders : phase[t] = "numbered" => ser # 0 /\ UNCHANGED ser]_vars
  BY HoldsLock DEF IInv, Writing
<1> QED BY <1>1, Invariance, PTL DEF Spec, PortStaysOpen

\* pcan_view_gui.py:775-785.  However many transmitters run at once and however
\* old the time is one of them has read, a frame is taken, from its first time on,
\* once in its period at most, for every period and for ever.
THEOREM RateKept == Spec => []CyclicRate
<1>1. ASSUME IInv PROVE CyclicRate
  <2>1. /\ lastSent <= clock /\ collected * Interval + first <= lastSent + Interval
        /\ collected \in Nat /\ clock \in Nat /\ lastSent \in Int
        /\ first \in Nat /\ first <= clock
    BY <1>1 DEF IInv, Paced
  <2>2. PICK c \in Nat : c = clock - first
    BY <2>1
  <2>3. collected * Interval <= c + Interval
    <3> DEFINE spent == collected * Interval
    <3>1. spent \in Int /\ spent + first <= lastSent + Interval /\ Interval \in Int
      BY <2>1, SessionAssumption
    <3> HIDE DEF spent
    <3>2. spent <= c + Interval
      BY <2>1, <2>2, <3>1
    <3> QED BY <3>2 DEF spent
  <2> QED BY <2>1, <2>2, <2>3, PeriodsPassed DEF CyclicRate
<1> QED BY <1>1, Invariance, PTL
=============================================================================
