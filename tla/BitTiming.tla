----------------------------- MODULE BitTiming -----------------------------
(***************************************************************************)
(* The bit timing registers of the controller (CiNBTCFG, CiDBTCFG, CiTDC):  *)
(* the tables of mcp2517fd_calculate_timing, written by hand for the two    *)
(* oscillators, the values mcp2517fd_init writes, and what the controller   *)
(* makes of them.                                                          *)
(***************************************************************************)
EXTENDS Integers

CONSTANT Clock   \* frequency of the oscillator in Hz

ASSUME ClockAssumption == Clock \in {20000000, 40000000}

\* BRP, TSEG1 and TSEG2 as in the registers, one less than they mean; the
\* jump width is TSEG2 everywhere.
Entry(b, t1, t2) == [brp |-> b, tseg1 |-> t1, tseg2 |-> t2]

\* Bits per second and registers.
NominalTable ==
  IF Clock = 40000000
    THEN { <<1000000, Entry(0, 30, 7)>>,  <<500000, Entry(4, 11, 2)>>,
           <<250000, Entry(9, 11, 2)>>,   <<125000, Entry(19, 11, 2)>>,
           <<100000, Entry(19, 14, 3)>>,  <<50000, Entry(39, 14, 3)>> }
    ELSE { <<1000000, Entry(0, 14, 3)>>,  <<500000, Entry(0, 30, 7)>>,
           <<250000, Entry(1, 30, 7)>>,   <<125000, Entry(3, 30, 7)>> }

\* A bug: the entry of 5 Mbit/s has the quanta of 4 Mbit/s.
DataTableSlip ==
  IF Clock = 40000000
    THEN { <<5000000, Entry(0, 6, 1), 7>>,   <<4000000, Entry(0, 6, 1), 7>>,
           <<2000000, Entry(0, 14, 3), 15>>, <<1000000, Entry(0, 30, 7), 31>>,
           <<0, Entry(0, 30, 7), 31>> }
    ELSE { <<2000000, Entry(0, 6, 1), 7>>,   <<1000000, Entry(0, 14, 3), 15>>,
           <<0, Entry(0, 14, 3), 15>> }

\* With the offset of the transmitter delay compensation.  A data rate of 0
\* has the registers of 1 Mbit/s, where mcp2517fd.c:774 and mcp2517fd.h:160 say
\* that it matches the nominal rate or means Classic CAN.
DataTable ==
  IF Clock = 40000000
    THEN { <<5000000, Entry(0, 4, 1), 5>>,   <<4000000, Entry(0, 6, 1), 7>>,
           <<2000000, Entry(0, 14, 3), 15>>, <<1000000, Entry(0, 30, 7), 31>>,
           <<0, Entry(0, 30, 7), 31>> }
    ELSE { <<2000000, Entry(0, 6, 1), 7>>,   <<1000000, Entry(0, 14, 3), 15>>,
           <<0, Entry(0, 14, 3), 15>> }

\* The pairs of a nominal and a data rate that do not end in
\* ESP_ERR_NOT_SUPPORTED.
TimingKnown(r) == /\ \E n \in NominalTable : n[1] = r[1]
                  /\ \E d \in DataTable : d[1] = r[2]

calculate_timing(r) ==
  LET n == CHOOSE e \in NominalTable : e[1] = r[1]
      d == CHOOSE e \in DataTable : e[1] = r[2]
  IN  [nominal |-> n[2], data |-> d[2], tdco |-> d[3]]

\* What init writes, whatever rates it is given.
Programmed == <<500000, 2000000>>
InitTiming ==
  IF Clock = 40000000
    THEN [nominal |-> Entry(4, 11, 2), data |-> Entry(0, 14, 3), tdco |-> 15]
    ELSE [nominal |-> Entry(0, 30, 7), data |-> Entry(0, 6, 1), tdco |-> 7]

-----------------------------------------------------------------------------
(* The controller.  A bit is a synchronisation quantum and the two segments, *)
(* each a quantum longer than its register; a quantum is BRP + 1 clocks.     *)

ClocksPerBit(e) == (e.brp + 1) * (e.tseg1 + e.tseg2 + 3)
ClocksToSample(e) == (e.brp + 1) * (e.tseg1 + 2)

\* The sample point lies between 75 % and 82 % of the bit.
SampledLate(e) == /\ 100 * ClocksToSample(e) >= 75 * ClocksPerBit(e)
                  /\ 100 * ClocksToSample(e) <= 82 * ClocksPerBit(e)

\* Data segments have registers of 5 and 4 bits, the offset has 6 and a sign.
DataFits(t) == t.data.tseg1 <= 31 /\ t.data.tseg2 <= 15 /\ t.tdco <= 63

\* The controller with timing t sends and receives at the rates r, samples
\* where the nodes around it do, and listens to its own fast bits at the
\* place where it samples them.  A data rate of 0 asks for no fast bits.
Runs(t, r) ==
  /\ r[1] * ClocksPerBit(t.nominal) = Clock /\ SampledLate(t.nominal)
  /\ r[2] # 0 => /\ r[2] * ClocksPerBit(t.data) = Clock /\ SampledLate(t.data)
                 /\ DataFits(t) /\ t.tdco = (t.data.brp + 1) * (t.data.tseg1 + 1)
=============================================================================
