----------------------------- MODULE FrameRelay -----------------------------
(***************************************************************************)
(* What the adapter promises for received frames, without any of its       *)
(* machinery: frames enter the adapter in the order the bus carried them,   *)
(* some never enter (the hardware FIFO was full), and the frames inside     *)
(* leave in the same order, a group at a time, towards the host or, when    *)
(* the USB link refuses the group, nowhere.                                 *)
(***************************************************************************)
EXTENDS Integers, Sequences

CONSTANT MaxRx          \* bound on the frames the bus carries

VARIABLES arrived,      \* number of frames the bus has carried so far
          pending,      \* frames inside the adapter, oldest first
          delivered     \* frames the host has received, oldest first

relayVars == <<arrived, pending, delivered>>

RelayInit == arrived = 0 /\ pending = <<>> /\ delivered = <<>>

\* The next frame of the bus enters the adapter, or is lost at its door.
Enter == /\ arrived < MaxRx
         /\ arrived' = arrived + 1
         /\ pending' \in {pending, Append(pending, arrived + 1)}
         /\ UNCHANGED delivered

\* The n oldest frames leave together: all to the host, or none of them.
Leave(n) == /\ pending' = SubSeq(pending, n + 1, Len(pending))
            /\ delivered' \in {delivered, delivered \o SubSeq(pending, 1, n)}
            /\ UNCHANGED arrived

RelayNext == Enter \/ \E n \in 1..Len(pending) : Leave(n)

RelaySpec == RelayInit /\ [][RelayNext]_relayVars

\* The host sees every frame at most once and in the order of the bus.
RelayInOrder == \A i, j \in 1..Len(delivered \o pending) :
                   i < j => (delivered \o pending)[i] < (delivered \o pending)[j]
=============================================================================
