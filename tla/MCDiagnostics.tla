---------------------------- MODULE MCDiagnostics ----------------------------
(***************************************************************************)
(* An instance of Diagnostics for TLC: one error flag, which has a bit in  *)
(* the message.  The counters are alike: only one of them moves.           *)
(***************************************************************************)
EXTENDS Diagnostics

MCKinds == {"nack"}
MCFrames == [k \in Counters |-> IF k = "rx" THEN 2 ELSE 0]
=============================================================================
