----------------------------- MODULE MCHostTable -----------------------------
(***************************************************************************)
(* An instance of HostTable for TLC: three identifiers against portions of *)
(* two, one of them used by standard and extended frames.                  *)
(***************************************************************************)
EXTENDS HostTable

MCFrames == {<<1, "std">>, <<1, "ext">>, <<2, "std">>, <<3, "std">>}
=============================================================================
