---------------------------- MODULE HostSession ----------------------------
(***************************************************************************)
(* The threads of tools/pcan_view_gui.py that share a connection: the main  *)
(* thread with its event loop, the receive threads, the cyclic transmitters *)
(* and a burst, and the locks and flags between them.                       *)
(***************************************************************************)
EXTENDS Integers, Sequences, SequencesExt

CONSTANTS Interval,     \* cycle_ms of the frame of the list
          Burst,        \* frames of a burst
          SeqSize,      \* numbers of packets (256)
          MaxSessions,  \* bound: connections
          MaxCyclic,    \* bound: cyclic transmitters started
          MaxClicks,    \* bound: the user's acts, those that stop something not
          MaxTime       \* bound: the clock

ASSUME SessionAssumption ==
  /\ Interval \in Nat \ {0} /\ Burst \in Nat /\ SeqSize \in Nat \ {0, 1}
  /\ MaxSessions \in Nat /\ MaxCyclic \in Nat /\ MaxClicks \in Nat /\ MaxTime \in Nat

Sessions == 1..MaxSessions
Cyclics == 1..MaxCyclic
Senders == {0} \cup Cyclics \cup {MaxCyclic + 1}
mainThread == 0
burstThread == MaxCyclic + 1

VARIABLES main,         \* the handlers the main thread is in, innermost last
          running,      \* self.running
          cyclic,       \* self.cyclic_tx_running
          ser,          \* the session of self.ser, 0: None
          sessions,     \* connections made so far
          pulled,       \* the port of self.ser was pulled
          paused,       \* self.paused
          listed,       \* the transmit list has a frame
          idle,         \* calls of _handle_unexpected_disconnect to come
          config,       \* _send_bitrate_config is to run in 100 ms
          rx,           \* rx[n], where the receive thread of session n is
          cyc,          \* cyc[k], where the k-th cyclic transmitter is
          now,          \* now[k], the time it took
          started,      \* cyclic transmitters started
          burst,        \* frames the burst has to send
          lastSent,     \* last_sent_time of the frame
          seq,          \* self.seq_num
          phase, num,   \* where thread t is in _send_cmd, and its number
          collected,    \* history: times a cyclic transmitter took the frame ...
          first,        \* ... since it was listed, and the time of the first
          clicks, clock

flags == <<running, cyclic, ser, sessions, paused>>
world == <<pulled, clicks, clock>>
workers == <<rx, cyc, now, started, burst>>
sending == <<seq, phase, num>>
timing == <<lastSent, collected, first>>
queues == <<idle, config>>
vars == <<main, flags, world, listed, queues, workers, sending, timing>>

\* The list starts with three frames.
Init ==
  /\ main = <<>> /\ running = FALSE /\ cyclic = FALSE /\ ser = 0 /\ sessions = 0
  /\ pulled = FALSE /\ paused = FALSE /\ listed = TRUE /\ idle = 0 /\ config = FALSE
  /\ rx = [n \in Sessions |-> "none"] /\ cyc = [k \in Cyclics |-> "none"]
  /\ now = [k \in Cyclics |-> 0] /\ started = 0 /\ burst = 0
  /\ lastSent = -Interval /\ collected = 0 /\ first = 0
  /\ seq = 0 /\ phase = [t \in Senders |-> "out"] /\ num = [t \in Senders |-> 0]
  /\ clicks = 0 /\ clock = 0

-----------------------------------------------------------------------------
(* The two locks, and the port.                                             *)

TxLockFree == \A t \in Senders : phase[t] = "out"
ListLockFree == /\ \A i \in DOMAIN main : main[i] \notin {"asking", "selected"}
                /\ \A k \in Cyclics : cyc[k] # "looking"

\* The port answers: self.ser is there and was not pulled.
Alive == ser # 0 /\ ~pulled

Top == IF main = <<>> THEN "loop" ELSE Last(main)
Call(handler) == main' = Append(main, handler)
Return == main' = Front(main)
Become(handler) == main' = Append(Front(main), handler)

\* The event loop, also that of a modal dialog, takes timers and idle calls.
Loops == Top \in {"loop", "asking"}
Click == Top = "loop" /\ clicks < MaxClicks /\ clicks' = clicks + 1

-----------------------------------------------------------------------------
(* The main thread: connecting and disconnecting.                           *)

\* _toggle_connect: the new port replaces the old, and the ping follows.
Connect ==
  /\ Click /\ ~running /\ sessions < MaxSessions
  /\ sessions' = sessions + 1 /\ ser' = sessions'
  /\ running' = TRUE /\ rx' = [rx EXCEPT ![sessions'] = "top"]
  /\ config' = TRUE /\ Call("sending") /\ pulled' = FALSE
  /\ UNCHANGED <<cyclic, paused, clock, listed, idle, cyc, now, started, burst, sending, timing>>

Disconnect == /\ running' = FALSE /\ cyclic' = FALSE /\ Call("closing")
              /\ UNCHANGED <<ser, sessions, paused>>

ClickDisconnect ==
  /\ Top = "loop" /\ running /\ Disconnect
  /\ UNCHANGED <<world, listed, queues, workers, sending, timing>>

\* _handle_unexpected_disconnect, when the main thread has nothing else to do.
UnexpectedDisconnect ==
  /\ Loops /\ idle > 0 /\ idle' = idle - 1
  /\ IF running THEN Disconnect ELSE UNCHANGED <<main, flags>>
  /\ UNCHANGED <<world, listed, config, workers, sending, timing>>

\* A bug: the port is closed under the threads that write to it.
CloseUnlocked ==
  /\ Top = "closing"
  /\ ser' = 0 /\ Return /\ pulled' = FALSE
  /\ UNCHANGED <<running, cyclic, sessions, paused, clicks, clock, listed, queues, workers, sending, timing>>

\* The port is closed when no thread is writing to it.
Close ==
  /\ Top = "closing" /\ TxLockFree
  /\ ser' = 0 /\ Return /\ pulled' = FALSE
  /\ UNCHANGED <<running, cyclic, sessions, paused, clicks, clock, listed, queues, workers, sending, timing>>

-----------------------------------------------------------------------------
(* The main thread: the other handlers.                                     *)

\* _toggle_cyclic.
ClickCyclic ==
  /\ Top = "loop" /\ running
  /\ IF cyclic THEN cyclic' = FALSE /\ UNCHANGED <<main, clicks>>
               ELSE Click /\ started < MaxCyclic /\ Call("toggling") /\ UNCHANGED cyclic
  /\ UNCHANGED <<running, ser, sessions, paused, pulled, clock, listed, queues, workers, sending, timing>>

\* There is a frame: the transmitter starts.
StartCyclic ==
  /\ Top = "toggling" /\ ListLockFree /\ listed
  /\ cyclic' = TRUE /\ started' = started + 1
  /\ cyc' = [cyc EXCEPT ![started'] = "top"] /\ Return
  /\ UNCHANGED <<running, ser, sessions, paused, world, listed, queues, rx, now, burst, sending, timing>>

\* There is none: a dialog says so, inside the lock.
AskForFrames ==
  /\ Top = "toggling" /\ ListLockFree /\ ~listed /\ Become("asking")
  /\ UNCHANGED <<flags, world, listed, queues, workers, sending, timing>>

CloseDialog ==
  /\ Top = "asking" /\ Return
  /\ UNCHANGED <<flags, world, listed, queues, workers, sending, timing>>

\* _refresh, every 40 ms: it needs the lock of the list unless the display is
\* paused.  When it has not to wait it leaves no trace in this state.
RefreshWaits ==
  /\ Loops /\ ~paused /\ ~ListLockFree /\ Call("refreshing")
  /\ UNCHANGED <<flags, world, listed, queues, workers, sending, timing>>
RefreshEnds ==
  /\ Top = "refreshing" /\ ListLockFree /\ Return
  /\ UNCHANGED <<flags, world, listed, queues, workers, sending, timing>>

\* The list is cleared, or a frame is added or replaced: a new TransmitFrame,
\* with a last_sent_time of 0.0, which is due at once.
ClickEdit ==
  /\ Click /\ Call("editing")
  /\ UNCHANGED <<flags, pulled, clock, listed, queues, workers, sending, timing>>
Edit ==
  /\ Top = "editing" /\ ListLockFree /\ Return /\ listed' \in BOOLEAN
  /\ IF listed' THEN lastSent' = -Interval /\ collected' = 0 /\ first' = 0
                ELSE UNCHANGED timing
  /\ UNCHANGED <<flags, world, queues, workers, sending>>
\* The display is paused or goes on.
ClickPause ==
  /\ Click /\ paused' = ~paused
  /\ UNCHANGED <<main, running, cyclic, ser, sessions, pulled, clock, listed, queues, workers, sending, timing>>

\* _send_selected_frame: the lock of the list is kept while a frame of the list
\* is sent, not while one from the input fields is.
ClickSend ==
  /\ Click /\ running /\ (Call("selecting") \/ Call("sending"))
  /\ UNCHANGED <<flags, pulled, clock, listed, queues, workers, sending, timing>>
Select ==
  /\ Top = "selecting" /\ ListLockFree
  /\ IF listed THEN Become("selected") ELSE Return
  /\ UNCHANGED <<flags, world, listed, queues, workers, sending, timing>>

\* _send_burst: its thread gets the frames, those of the list or the one of the
\* input fields.
ClickBurst ==
  /\ Click /\ running /\ ListLockFree /\ burst = 0
  /\ burst' = Burst
  /\ UNCHANGED <<main, flags, pulled, clock, listed, queues, rx, cyc, now, started, sending, timing>>

\* _send_bitrate_config, 100 ms after a connection: two commands.
SendConfig ==
  /\ Loops /\ config /\ config' = FALSE /\ main' = main \o <<"sending", "sending">>
  /\ UNCHANGED <<flags, world, listed, idle, workers, sending, timing>>

-----------------------------------------------------------------------------
(* _send_cmd, in the main thread, a cyclic transmitter or the burst.        *)

HasToSend(t) == \/ t = mainThread /\ Top \in {"sending", "selected"}
                \/ t \in Cyclics /\ cyc[t] = "send"
                \/ t = burstThread /\ burst > 0 /\ running

\* The thread goes on after _send_cmd.
SendReturns(t) ==
  /\ phase' = [phase EXCEPT ![t] = "out"] /\ num' = [num EXCEPT ![t] = 0]
  /\ main' = IF t = mainThread THEN Front(main) ELSE main
  /\ cyc' = IF t \in Cyclics THEN [cyc EXCEPT ![t] = "top"] ELSE cyc
  /\ burst' = IF t = burstThread THEN burst - 1 ELSE burst
  /\ UNCHANGED <<flags, world, listed, queues, rx, now, started, timing>>

\* With the lock taken, the packet gets its number if the port is open.
SendNumbers(t) ==
  IF ser # 0
    THEN /\ seq' = (seq + 1) % SeqSize
         /\ num' = [num EXCEPT ![t] = seq'] /\ phase' = [phase EXCEPT ![t] = "numbered"]
         /\ UNCHANGED <<main, flags, world, listed, queues, workers, timing>>
    ELSE SendReturns(t) /\ UNCHANGED seq

\* A bug: the lock is not taken.
SendUnlocked(t) == HasToSend(t) /\ phase[t] = "out" /\ SendNumbers(t)
SendBegins(t) == HasToSend(t) /\ phase[t] = "out" /\ TxLockFree /\ SendNumbers(t)

\* It is written; or the write fails, which only the status text tells.
SendWrites(t) == phase[t] = "numbered" /\ SendReturns(t) /\ UNCHANGED seq

\* _burst_runner stops when the connection does.
BurstStops ==
  /\ burst > 0 /\ ~running /\ phase[burstThread] = "out" /\ burst' = 0
  /\ UNCHANGED <<main, flags, world, listed, queues, rx, cyc, now, started, sending, timing>>

SendStep(t) == SendBegins(t) \/ SendWrites(t)

-----------------------------------------------------------------------------
(* _rx_worker.  self.ser is read anew in every statement.                   *)

RxGoes(n, to) ==
  /\ rx' = [rx EXCEPT ![n] = to]
  /\ UNCHANGED <<main, flags, world, listed, cyc, now, started, burst, sending, timing>>

\* A bug: the thread does not look at self.running.
RxTopForever(n) ==
  /\ rx[n] = "top" /\ RxGoes(n, IF ser # 0 THEN "read" ELSE "top")
  /\ UNCHANGED queues

RxTop(n) ==
  /\ rx[n] = "top" /\ RxGoes(n, IF running /\ ser # 0 THEN "read" ELSE "ended")
  /\ UNCHANGED queues

\* A bug: a read error is no reason to stop.
RxReadAgain(n) ==
  /\ rx[n] = "read" /\ RxGoes(n, IF ser # 0 THEN "top" ELSE "failed")
  /\ UNCHANGED queues

\* in_waiting and the read: an error, or None instead of a port, ends the loop.
RxRead(n) ==
  /\ rx[n] = "read" /\ RxGoes(n, IF Alive THEN "top" ELSE "failed")
  /\ UNCHANGED queues

\* The main thread is told, if self.running is (still or again) set.
RxFailed(n) ==
  /\ rx[n] = "failed" /\ RxGoes(n, "ended")
  /\ idle' = IF running THEN idle + 1 ELSE idle
  /\ UNCHANGED config

RxStep(n) == RxTop(n) \/ RxRead(n) \/ RxFailed(n)

-----------------------------------------------------------------------------
(* _cyclic_tx_worker.                                                       *)

CycGoes(k, to) ==
  /\ cyc' = [cyc EXCEPT ![k] = to]
  /\ UNCHANGED <<main, running, ser, sessions, paused, world, listed, queues, rx, started, burst, sending>>

CycTop(k) ==
  /\ cyc[k] = "top"
  /\ IF running /\ cyclic THEN CycGoes(k, "timed") /\ now' = [now EXCEPT ![k] = clock]
                          ELSE CycGoes(k, "final") /\ UNCHANGED now
  /\ UNCHANGED <<cyclic, timing>>

\* It takes the lock of the list ...
CycLooks(k) ==
  /\ cyc[k] = "timed" /\ ListLockFree /\ CycGoes(k, "looking")
  /\ UNCHANGED <<cyclic, now, timing>>

\* History: when the frame that is taken was first taken.
First(k) == first' = IF collected = 0 THEN now[k] ELSE first

\* A bug: the time is not noted.
CycCollectsOnly(k) ==
  /\ cyc[k] = "looking"
  /\ IF listed /\ now[k] - lastSent >= Interval
       THEN collected' = collected + 1 /\ First(k) /\ CycGoes(k, "due")
       ELSE UNCHANGED <<collected, first>> /\ CycGoes(k, "top")
  /\ now' = [now EXCEPT ![k] = 0] /\ UNCHANGED <<cyclic, lastSent>>

\* ... takes the frame if it is due, notes the time, and gives the lock back.
CycCollects(k) ==
  /\ cyc[k] = "looking"
  /\ IF listed /\ now[k] - lastSent >= Interval
       THEN /\ lastSent' = now[k] /\ collected' = collected + 1 /\ First(k)
            /\ CycGoes(k, "due")
       ELSE UNCHANGED timing /\ CycGoes(k, "top")
  /\ now' = [now EXCEPT ![k] = 0] /\ UNCHANGED cyclic

CycDue(k) ==
  /\ cyc[k] = "due" /\ CycGoes(k, IF running /\ cyclic THEN "send" ELSE "top")
  /\ UNCHANGED <<cyclic, now, timing>>

\* The finally clause: the flag is cleared, whoever has set it since.
CycFinal(k) ==
  /\ cyc[k] = "final" /\ cyclic' = FALSE /\ CycGoes(k, "ended")
  /\ UNCHANGED <<now, timing>>

CycStep(k) == CycTop(k) \/ CycLooks(k) \/ CycCollects(k) \/ CycDue(k) \/ CycFinal(k)

-----------------------------------------------------------------------------
Pull ==
  /\ Alive /\ pulled' = TRUE
  /\ clicks < MaxClicks /\ clicks' = clicks + 1
  /\ UNCHANGED <<main, flags, clock, listed, queues, workers, sending, timing>>
Tick ==
  /\ clock < MaxTime /\ clock' = clock + 1
  /\ UNCHANGED <<main, flags, pulled, clicks, listed, queues, workers, sending, timing>>

Clicks == \/ Connect \/ ClickDisconnect \/ ClickCyclic \/ ClickEdit \/ ClickPause
          \/ ClickSend \/ ClickBurst \/ CloseDialog
Handlers == \/ Close \/ StartCyclic \/ AskForFrames \/ RefreshEnds \/ Edit \/ Select
Next == \/ Clicks \/ Handlers \/ UnexpectedDisconnect \/ RefreshWaits \/ SendConfig
        \/ \E t \in Senders : SendStep(t)
        \/ BurstStops
        \/ \E n \in Sessions : RxStep(n)
        \/ \E k \in Cyclics : CycStep(k)
        \/ Pull \/ Tick
Spec == Init /\ [][Next]_vars

\* The threads run, and one that waits for a lock gets it in the end; the
\* event loop comes to its idle calls.  Nobody has to click.
FairSpec ==
  /\ Spec
  /\ SF_vars(Handlers \/ SendStep(mainThread)) /\ SF_vars(UnexpectedDisconnect)
  /\ SF_vars(SendStep(burstThread) \/ BurstStops)
  /\ \A n \in Sessions : WF_vars(RxStep(n))
  /\ \A k \in Cyclics : SF_vars(SendStep(k) \/ CycStep(k))

-----------------------------------------------------------------------------
(* Properties.                                                              *)

\* Every variable keeps its type, and no lock is held twice.
TypeOK ==
  /\ main \in Seq({"closing", "toggling", "asking", "refreshing", "editing", "selecting",
                   "selected", "sending"})
  /\ running \in BOOLEAN /\ cyclic \in BOOLEAN /\ paused \in BOOLEAN /\ listed \in BOOLEAN
  /\ ser \in 0..sessions /\ sessions \in 0..MaxSessions /\ pulled \in BOOLEAN /\ (pulled => ser # 0)
  /\ rx \in [Sessions -> {"none", "top", "read", "failed", "ended"}]
  /\ cyc \in [Cyclics -> {"none", "top", "timed", "looking", "due", "send", "final", "ended"}]
  /\ phase \in [Senders -> {"out", "numbered"}]
  /\ \A t, u \in Senders : phase[t] # "out" /\ phase[u] # "out" => t = u
  /\ running => ser # 0

\* pcan_view_gui.py:483-488.  Whichever threads send, the packets leave in the
\* order of their numbers: the packet that is written has the newest.
NumbersInOrder == \A t \in Senders : phase[t] = "numbered" => num[t] = seq

\* No two threads are inside the transmit lock, a session runs on an open port,
\* and the packets are numbered in the order they leave.
SessionOK == TypeOK /\ NumbersInOrder

\* pcan_view_gui.py:451-465, 484-488.  A thread that found the port open writes
\* to that port: it is not closed or replaced before the packet is out.
PortStaysOpen ==
  [][\A t \in Senders : phase[t] = "numbered" => ser # 0 /\ UNCHANGED ser]_vars

\* pcan_view_gui.py:775-785.  However often the user starts and stops, so that
\* two transmitters run at once, and however old the time is that one of them
\* waits with, a frame is not taken more often, since it was first taken, than
\* its period allows.  One that is put in the list again is a new frame.
CyclicRate == collected <= 1 + (clock - first) \div Interval

\* The refresh inside a dialog waits for the lock the dialog is shown in.
Stuck == Top = "refreshing" /\ \E i \in DOMAIN main : main[i] = "asking"

\* pcan_view_gui.py:866-868, 775.  When the connection is closed for good its
\* threads end, those of earlier connections too, unless the dialog about an
\* empty list stays open, whose lock a transmitter may wait for.
ThreadsEnd ==
  <>[](~running /\ \A i \in DOMAIN main : main[i] # "asking") =>
    <>[](/\ \A n \in Sessions : rx[n] \in {"none", "ended"}
         /\ \A k \in Cyclics : cyc[k] \in {"none", "ended"}
         /\ burst = 0)

\* pcan_view_gui.py:431-440: "Cleanly transition to disconnected state if port
\* is pulled or fails."
PullNoticed == pulled ~> (~pulled \/ Stuck)

\* pcan_view_gui.py:1042: "the timer chain can NEVER die".
RefreshGoesOn == ~Stuck
=============================================================================
