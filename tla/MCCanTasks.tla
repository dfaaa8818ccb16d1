----------------------------- MODULE MCCanTasks -----------------------------
(***************************************************************************)
(* Instances of CanTasks for TLC.                                          *)
(***************************************************************************)
EXTENDS CanTasks

\* Packets of 3, 3 and 1 units against a batch of 5 flushed at 4: two packets
\* of 3 do not fit together, one of 3 and one of 1 make a chunk.
MCPktSize == [f \in 1..MaxRx + 1 |-> IF f % 3 = 0 THEN 1 ELSE 3]
=============================================================================
