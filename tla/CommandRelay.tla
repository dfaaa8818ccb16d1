---------------------------- MODULE CommandRelay ----------------------------
(***************************************************************************)
(* What the adapter promises for the host's TX_FRAME commands, without any  *)
(* of its machinery.  A command is taken in or refused, and answered before *)
(* the next one is looked at; those taken in reach the bus in their order   *)
(* or are dropped on the way, and are confirmed in their order, once each:  *)
(* as failed only when nothing is left of them that could still be sent.    *)
(* A message to the host may be lost.  One fault is allowed for: an object   *)
(* of another command, or of none, may take the place of a frame on its way; *)
(* from then on a failure that is reported promises nothing.                 *)
(***************************************************************************)
EXTENDS Integers, Sequences

CONSTANT MaxTx       \* bound on the commands of the host

VARIABLES issued,    \* number of commands so far
          ack, conf, \* answer to and confirmation of each command
          due,       \* commands taken in and not yet confirmed, oldest first
          inside,    \* commands whose frame may still be sent, oldest first
          onBus,     \* commands whose frame was sent, oldest first
          stray      \* an object took the place of another one

commandVars == <<issued, ack, conf, due, inside, onBus, stray>>

CommandInit ==
  /\ issued = 0 /\ due = <<>> /\ inside = <<>> /\ onBus = <<>> /\ stray = FALSE
  /\ ack = [c \in 1..MaxTx |-> "none"] /\ conf = [c \in 1..MaxTx |-> "none"]

\* The next command comes, after the answer to the last one.
Arrives == /\ issued < MaxTx /\ issued' = issued + 1
           /\ issued > 0 => ack[issued] # "none"

TakeIn == /\ Arrives
          /\ due' = Append(due, issued + 1) /\ inside' = Append(inside, issued + 1)
          /\ UNCHANGED <<ack, conf, onBus, stray>>

Refuse == /\ Arrives
          /\ \E r \in {"busy", "lost"} : ack' = [ack EXCEPT ![issued + 1] = r]
          /\ UNCHANGED <<conf, due, inside, onBus, stray>>

Answer == /\ issued > 0 /\ ack[issued] = "none"
          /\ \E r \in {"ok", "lost"} : ack' = [ack EXCEPT ![issued] = r]
          /\ UNCHANGED <<issued, conf, due, inside, onBus, stray>>

Send == /\ inside # <<>>
        /\ onBus' = Append(onBus, Head(inside)) /\ inside' = Tail(inside)
        /\ UNCHANGED <<issued, ack, conf, due, stray>>

\* A bus error, a control command or a full FIFO takes a run of frames out.
Drop == /\ Len(inside') < Len(inside)
        /\ \E i, j \in 1..Len(inside) :
             inside' = SubSeq(inside, 1, i - 1) \o SubSeq(inside, j + 1, Len(inside))
        /\ UNCHANGED <<issued, ack, conf, due, onBus, stray>>

\* A stale object is sent in the place of a frame.
Replace == /\ \E i \in DOMAIN inside, x \in 0..MaxTx :
                inside' = [inside EXCEPT ![i] = x]
           /\ stray' = TRUE
           /\ UNCHANGED <<issued, ack, conf, due, onBus>>

Gone(c) == /\ \A i \in DOMAIN inside : inside[i] # c
           /\ \A i \in DOMAIN onBus : onBus[i] # c

Confirm == /\ due # <<>> /\ due' = Tail(due)
           /\ \E r \in {"ok", "busy", "lost"} :
                /\ r = "busy" => stray \/ Gone(Head(due))
                /\ conf' = [conf EXCEPT ![Head(due)] = r]
           /\ UNCHANGED <<issued, ack, inside, onBus, stray>>

CommandNext == \/ TakeIn \/ Refuse \/ Answer \/ Send \/ Drop \/ Replace
               \/ Confirm

CommandSpec == CommandInit /\ [][CommandNext]_commandVars
=============================================================================
