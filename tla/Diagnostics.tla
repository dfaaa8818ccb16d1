----------------------------- MODULE Diagnostics -----------------------------
(***************************************************************************)
(* What the device tells of the bus and of itself: the two success counters *)
(* of main/can_tasks.c, which canfd_rx_task increments on one core and      *)
(* usb_cmd_task resets on the other, and mcp2517fd_get_diag, which the      *)
(* monitor task and the GET_DIAG command call, each to send a BUS_DIAG      *)
(* message.  mcp2517fd_get_diag clears the error flags it has read with a   *)
(* transfer of its own.                                                    *)
(*                                                                         *)
(* The USB link keeps the order of what is written (UsbLink), so that the   *)
(* host handles a message in the step that writes it.                       *)
(***************************************************************************)
EXTENDS Integers

CONSTANTS
  Kinds,      \* error flags of BDIAG1
  Reported,   \* those that proto_serialize_diag has a bit for
  MaxFrames,  \* bounds: frames received and sent between resets
  MaxChanges, \* bound: changes of the error state of the transmitter
  MaxGets, MaxResets   \* bounds on the commands of each kind

ASSUME KindsAssumption == Reported \subseteq Kinds
ASSUME BoundsAssumption ==
  /\ MaxFrames \in [{"rx", "tx"} -> Nat]
  /\ {MaxChanges, MaxGets, MaxResets} \subseteq Nat

Counters == {"rx", "tx"}      \* s_rx_success_count, s_tx_success_count
Readers == {"mon", "usb"}     \* canfd_monitor_task, usb_cmd_task
Levels == {"active", "warning", "passive", "off"}   \* TXWARN, TXBP, TXBO
Neighbours == { <<"active", "warning">>, <<"warning", "active">>,
                <<"warning", "passive">>, <<"passive", "warning">>,
                <<"passive", "off">>, <<"off", "active">> }

VARIABLES
  \* the controller
  level,        \* CiTREC: the error state of the transmitter
  bdiag,        \* CiBDIAG1: error flags, and whether EFMSGCNT is not 0
  changes,
  \* canfd_rx_task
  count,        \* the counters
  adding, reg,  \* the counter being incremented, the value that was loaded
  \* the mutex and its users
  mutex,
  pc, diag, msg,      \* of each reader: its place, its diag, its message
  gets, resets,       \* commands of the host so far
  \* the host
  shown,        \* state of the bus on the display
  \* history
  fresh,        \* frames counted since the last reset of each counter
  undone,       \* counters of which a reset fell into an increment
  latched,      \* error flags that were ever set
  late,         \* those set between the read and the clear of a get_diag
  told, gone    \* those in a message that the link took, and that it refused

chip == <<level, bdiag, changes, latched, late>>
counting == <<count, adding, reg, fresh, undone>>
readers == <<pc, diag, msg>>
commands == <<gets, resets>>
vars == <<chip, counting, mutex, readers, commands, shown, told, gone>>

NoDiag == [level |-> "active", errs |-> {}, counted |-> FALSE]
NoMsg == [level |-> "active", errs |-> {}]

Init ==
  /\ level = "active" /\ bdiag = [errs |-> {}, counted |-> FALSE] /\ changes = 0
  /\ count = [k \in Counters |-> 0] /\ adding = "none" /\ reg = 0
  /\ mutex = "none" /\ gets = 0 /\ resets = 0
  /\ pc = [r \in Readers |-> "idle"] /\ diag = [r \in Readers |-> NoDiag]
  /\ msg = [r \in Readers |-> NoMsg]
  /\ shown = "active"
  /\ fresh = [k \in Counters |-> 0] /\ undone = {}
  /\ latched = {} /\ late = {} /\ told = {} /\ gone = {}

-----------------------------------------------------------------------------
(* The controller. *)

\* What reader r has read is not 0.
Clears(r) == diag[r].errs # {} \/ diag[r].counted

\* An error on the bus sets its flag; that a reader stands between its read
\* and a clear is noted for the properties.
Latch(e) ==
  /\ e \notin latched
  /\ bdiag' = [bdiag EXCEPT !.errs = @ \cup {e}]
  /\ latched' = latched \cup {e}
  /\ late' = IF \E r \in Readers : pc[r] = "clear" /\ Clears(r)
             THEN late \cup {e} ELSE late
  /\ UNCHANGED <<level, changes, counting, mutex, readers, commands, shown, told, gone>>

\* An error-free message is counted in the low half of BDIAG1.
CountMessage ==
  /\ ~bdiag.counted /\ bdiag' = [bdiag EXCEPT !.counted = TRUE]
  /\ UNCHANGED <<level, changes, latched, late, counting, mutex, readers,
                 commands, shown, told, gone>>

\* The error counter of the transmitter crosses a limit, or the node is back
\* from Bus-Off.
ChangeLevel(l) ==
  /\ changes < MaxChanges /\ changes' = changes + 1
  /\ <<level, l>> \in Neighbours /\ level' = l
  /\ UNCHANGED <<bdiag, latched, late, counting, mutex, readers, commands,
                 shown, told, gone>>

-----------------------------------------------------------------------------
(* canfd_rx_task: an increment is a load and a store. *)

Load(k) ==
  /\ adding = "none" /\ fresh[k] < MaxFrames[k]
  /\ adding' = k /\ reg' = count[k]
  /\ UNCHANGED <<count, fresh, undone, chip, mutex, readers, commands, shown, told, gone>>

\* A bug: the frame was counted before, when it was taken.
StoreTwice ==
  /\ adding # "none" /\ adding' = "none" /\ reg' = 0
  /\ count' = [count EXCEPT ![adding] = reg + 2]
  /\ fresh' = [fresh EXCEPT ![adding] = @ + 1]
  /\ UNCHANGED <<undone, chip, mutex, readers, commands, shown, told, gone>>

Store ==
  /\ adding # "none" /\ adding' = "none" /\ reg' = 0
  /\ count' = [count EXCEPT ![adding] = reg + 1]
  /\ fresh' = [fresh EXCEPT ![adding] = @ + 1]
  /\ UNCHANGED <<undone, chip, mutex, readers, commands, shown, told, gone>>

\* The mutex is taken for a frame, or for a mode, rate or filter command (of
\* usb_cmd_task, which then has no other) ...
OtherTake ==
  /\ mutex = "none" /\ mutex' = "other"
  /\ UNCHANGED <<chip, counting, readers, commands, shown, told, gone>>

\* ... and given back.
OtherGive ==
  /\ mutex = "other" /\ mutex' = "none"
  /\ UNCHANGED <<chip, counting, readers, commands, shown, told, gone>>

-----------------------------------------------------------------------------
(* usb_cmd_task between the commands, and the monitor task between its      *)
(* periods; get_diag from its entry to the message.                         *)

Goto(r, p) == pc' = [pc EXCEPT ![r] = p]

ResetCounter(k) ==
  /\ count' = [count EXCEPT ![k] = 0]
  /\ fresh' = [fresh EXCEPT ![k] = 0]
  /\ undone' = IF adding = k THEN undone \cup {k} ELSE undone \ {k}

\* RESET_STATS: first the one counter, then the other.
ResetRx ==
  /\ pc["usb"] = "idle" /\ resets < MaxResets
  /\ resets' = resets + 1 /\ Goto("usb", "reset") /\ ResetCounter("rx")
  /\ UNCHANGED <<adding, reg, chip, mutex, diag, msg, gets, shown, told, gone>>

ResetTx ==
  /\ pc["usb"] = "reset" /\ Goto("usb", "idle") /\ ResetCounter("tx")
  /\ UNCHANGED <<adding, reg, chip, mutex, diag, msg, commands, shown, told, gone>>

\* GET_DIAG, with a diag of zeros.
AskDiag ==
  /\ pc["usb"] = "idle" /\ gets < MaxGets
  /\ gets' = gets + 1 /\ Goto("usb", "take")
  /\ UNCHANGED <<chip, counting, mutex, diag, msg, resets, shown, told, gone>>

Period ==
  /\ pc["mon"] = "idle" /\ Goto("mon", "take")
  /\ UNCHANGED <<chip, counting, mutex, diag, msg, commands, shown, told, gone>>

\* With the mutex the error counters are read.
Take(r) ==
  /\ pc[r] = "take" /\ mutex = "none"
  /\ mutex' = r /\ Goto(r, "bdiag")
  /\ diag' = [diag EXCEPT ![r].level = level]
  /\ UNCHANGED <<chip, counting, msg, commands, shown, told, gone>>

\* After 10 ms, a single tick of which little may be left, get_diag gives up;
\* its result is ignored and the message is made of the diag there is.
TakeTimeout(r) ==
  /\ pc[r] = "take" /\ mutex # "none" /\ Goto(r, "build")
  /\ UNCHANGED <<chip, counting, mutex, diag, msg, commands, shown, told, gone>>

ReadBdiag(r) ==
  /\ pc[r] = "bdiag" /\ Goto(r, "clear")
  /\ diag' = [diag EXCEPT ![r].errs = bdiag.errs, ![r].counted = bdiag.counted]
  /\ UNCHANGED <<chip, counting, mutex, msg, commands, shown, told, gone>>

\* The whole register is written with 0 if any of it was not 0, the counter
\* of messages included; then the mutex is given back.
ClearBdiag(r) ==
  /\ pc[r] = "clear" /\ Goto(r, "build") /\ mutex' = "none"
  /\ bdiag' = IF Clears(r) THEN [errs |-> {}, counted |-> FALSE] ELSE bdiag
  /\ UNCHANGED <<level, changes, latched, late, counting, diag, msg, commands,
                 shown, told, gone>>

\* A bug: one of the flags is forgotten.
FlagsShort(errs) == (errs \cap Reported) \ {CHOOSE e \in Reported : TRUE}

Flags(errs) == errs \cap Reported

Serialize(r) ==
  /\ pc[r] = "build" /\ Goto(r, "write")
  /\ msg' = [msg EXCEPT ![r] = [level |-> diag[r].level,
                                errs |-> Flags(diag[r].errs)]]
  /\ UNCHANGED <<chip, counting, mutex, diag, commands, shown, told, gone>>

\* The diag of GET_DIAG is a local of the command, that of the monitor stays
\* from one period to the next.
Leave(r) == /\ msg' = [msg EXCEPT ![r] = NoMsg]
            /\ diag' = IF r = "usb" THEN [diag EXCEPT ![r] = NoDiag] ELSE diag

\* The link takes the message, the host puts it on the display; the error
\* flags of BDIAG1 it does not look at.
WriteTaken(r) ==
  /\ pc[r] = "write" /\ Goto(r, "idle")
  /\ shown' = msg[r].level
  /\ told' = told \cup msg[r].errs
  /\ Leave(r)
  /\ UNCHANGED <<chip, counting, mutex, commands, gone>>

\* A bug: the task ends with a refused write.
WriteRefusedEnds(r) ==
  /\ pc[r] = "write" /\ Goto(r, "ended")
  /\ gone' = gone \cup msg[r].errs
  /\ Leave(r)
  /\ UNCHANGED <<chip, counting, mutex, commands, shown, told>>

\* The link refuses the message, which is gone with the flags it tells of:
\* the result is ignored and the register is clear already.
WriteRefused(r) ==
  /\ pc[r] = "write" /\ Goto(r, "idle")
  /\ gone' = gone \cup msg[r].errs
  /\ Leave(r)
  /\ UNCHANGED <<chip, counting, mutex, commands, shown, told>>

GetDiag(r) ==
  \/ Take(r) \/ TakeTimeout(r) \/ ReadBdiag(r) \/ ClearBdiag(r)
  \/ Serialize(r)

Next ==
  \/ \E e \in Kinds : Latch(e)
  \/ CountMessage
  \/ \E l \in Levels : ChangeLevel(l)
  \/ \E k \in Counters : Load(k)
  \/ Store \/ OtherTake \/ OtherGive
  \/ ResetRx \/ ResetTx \/ AskDiag \/ Period
  \/ \E r \in Readers : GetDiag(r) \/ WriteTaken(r) \/ WriteRefused(r)

Spec == Init /\ [][Next]_vars

\* The tasks run, whoever holds the mutex gives it back, the monitor, which
\* asks once in a period, does not find it held every time, and the link
\* takes its message now and then; frames, errors and commands may stop.
FairSpec ==
  /\ Spec
  /\ WF_vars(Period) /\ WF_vars(OtherGive) /\ WF_vars(ResetTx)
  /\ \A r \in Readers : WF_vars(GetDiag(r) \/ WriteTaken(r) \/ WriteRefused(r))
  /\ SF_vars(Take("mon")) /\ SF_vars(WriteTaken("mon"))
  /\ []<><<TakeTimeout("mon")>>_vars => []<><<Take("mon")>>_vars

-----------------------------------------------------------------------------
(* Types and properties. *)

Diag == [level : Levels, errs : SUBSET Kinds, counted : BOOLEAN]
Msg == [level : Levels, errs : SUBSET Reported]
Pcs == {"idle", "take", "bdiag", "clear", "build", "write"}

TypeOK ==
  /\ level \in Levels /\ changes \in Nat
  /\ bdiag \in [errs : SUBSET Kinds, counted : BOOLEAN]
  /\ count \in [Counters -> Nat] /\ adding \in Counters \cup {"none"} /\ reg \in Nat
  /\ mutex \in Readers \cup {"other", "none"}
  /\ {gets, resets} \subseteq Nat
  /\ pc \in [Readers -> Pcs \cup {"reset"}] /\ pc["mon"] \in Pcs
  /\ diag \in [Readers -> Diag] /\ msg \in [Readers -> Msg]
  /\ shown \in Levels
  /\ fresh \in [Counters -> Nat]
  /\ undone \subseteq Counters /\ latched \subseteq Kinds /\ late \subseteq Kinds
  /\ told \subseteq Reported /\ gone \subseteq Reported

\* Where the error flag e is on its way into a message of reader r.
OnItsWay(e, r) == \/ pc[r] \in {"clear", "build"} /\ e \in diag[r].errs
                  \/ pc[r] = "write" /\ e \in msg[r].errs

\* mcp2517fd.c:716-719, can_tasks.c:265-270 and 306-316.  An error flag is in
\* the register, on its way or in a message the link took, although two tasks
\* clear the register and share what they find in it, and although a get_diag
\* that times out makes a message of an old diag or of zeros.  There are two
\* ways to lose one: it is set between the read of a get_diag and its clear
\* (also one for the counter of messages alone), or the link refuses the message
\* that tells of it.
NoErrorLost ==
  \A e \in latched \cap Reported : \/ e \in bdiag.errs \cup told \cup late \cup gone
                                  \/ \E r \in Readers : OnItsWay(e, r)

\* can_tasks.c:76, 109 and 276-277.  A counter is the number of frames since
\* its last reset, unless that reset fell between the load and the store of an
\* increment, which undoes it and counts the frames since the reset before.
CountsExact == \A k \in Counters \ undone : count[k] = fresh[k]

\* can_tasks.c:306-316.  When the bus and the commands are quiet the display
\* settles on the state of the transmitter, whatever stale or zero messages came
\* before: messages of the monitor and answers to GET_DIAG may overtake each
\* other, and each may be made of a diag that was not read.
Settles == <>[](shown = level)
=============================================================================
