-------------------------- MODULE MCDriverControl --------------------------
(***************************************************************************)
(* Instances of DriverControl for TLC.                                     *)
(***************************************************************************)
EXTENDS DriverControl

\* What init programs, the fastest and the slowest request, an unknown one.
MCRates == {<<500000, 2000000>>, <<1000000, 5000000>>, <<50000, 0>>,
            <<83333, 2000000>>}
MCConfigured == <<500000, 2000000>>

\* Normal, Listen Only, Configuration, and a byte that names no mode.
MCModeBytes == {0, 3, 4, 8}
=============================================================================
