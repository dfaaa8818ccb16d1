------------------------------ MODULE FramePath ------------------------------
(***************************************************************************)
(* The contents of CAN frames between the host, the RAM of the MCP2517FD   *)
(* and the bus: TX_FRAME commands become message objects in the slots of   *)
(* TX FIFO 2 and frames on the bus, frames from the bus (or, in Internal   *)
(* Loopback mode, the own ones) pass the acceptance filters into RX FIFO 1 *)
(* and become messages of the host.  Scheduling, failures and the queue in *)
(* between are the matter of CanTasks; here every hop is one step.         *)
(*                                                                         *)
(* A data byte is the pair of the frame it belongs to and its index, so    *)
(* that it can be told whose bytes a frame carries.                        *)
(***************************************************************************)
EXTENDS FrameCodec, Sequences

CONSTANTS
  HostFrames,    \* frames in the transmit list of the host
  OtherCommands, \* TX_FRAME payloads of other programs
  BusFrames,     \* frames other nodes send
  FilterCmds,    \* [idx, id, mask, ext] of SET_FILTER commands
  TxSlots, RxSlots,                      \* depth of the FIFOs (6 and 22)
  MaxCommands, MaxArrivals   \* bounds on what happens in a run

ASSUME HostAssumption ==
  \A f \in HostFrames : /\ f.id \in Nat /\ f.len \in 0..64
                        /\ {f.ext, f.fd, f.brs, f.rtr} \subseteq BOOLEAN
ASSUME OtherAssumption ==
  \A c \in OtherCommands : {c.id, c.flags, c.len, c.has} \subseteq Nat
ASSUME BusAssumption ==
  \A g \in BusFrames :
    /\ {g.ext, g.fd, g.brs, g.rtr} \subseteq BOOLEAN /\ g.dlc \in 0..15
    /\ g.sid \in Nat /\ g.sid < SidSize /\ g.eid \in Nat /\ g.eid < EidSize
    /\ (g.ext \/ g.eid = 0) /\ (g.fd => ~g.rtr) /\ (g.brs => g.fd)
ASSUME FilterAssumption ==
  \A c \in FilterCmds : {c.id, c.mask} \subseteq Nat /\ c.ext \in BOOLEAN
ASSUME DepthAssumption == {TxSlots, RxSlots} \subseteq Nat \ {0}
ASSUME BoundAssumption == {MaxCommands, MaxArrivals} \subseteq Nat

Commands == {HostPack(f) : f \in HostFrames} \cup OtherCommands
Index == 0..63
Filters == {0} \cup {c.idx : c \in FilterCmds}

Zero == <<0, 0>>           \* a byte that was never written or is padding
Byte(n, i) == <<n, i>>     \* byte i of command n, of arrival -n

VARIABLES
  loop,      \* the controller is in Internal Loopback mode
  cmds,      \* the commands so far
  arrivals,  \* number of frames received from other nodes
  txRam,     \* data bytes in the slots of TX FIFO 2
  txObj,     \* headers in the slots, with the number of the command
  txFifo,    \* slots that wait to be sent
  txNext,    \* slot the user address of TX FIFO 2 points at
  txAbt,     \* TXABT: waiting frames were aborted
  bus,       \* last frame this node sent on the bus
  rxRam, rxObj, rxFifo, rxNext,   \* the same for RX FIFO 1
  shown,     \* last message of the host, with the frame it was made of
  filters,   \* registers FLTCON.FLTEN, FLTOBJ and MASK
  intents    \* the SET_FILTER command behind each filter

txVars == <<cmds, txRam, txObj, txFifo, txNext, txAbt>>
rxVars == <<arrivals, rxRam, rxObj, rxFifo, rxNext>>
filterVars == <<filters, intents>>
vars == <<loop, txVars, rxVars, bus, shown, filterVars>>

NoFrame == [by |-> 0]
AcceptAll == [idx |-> 0, id |-> 0, mask |-> 0, ext |-> FALSE]

\* The RAM is cleared, filter 0 accepts everything.
Init ==
  /\ loop \in BOOLEAN
  /\ cmds = <<>>
  /\ arrivals = 0
  /\ txRam = [s \in 0..TxSlots-1 |-> [i \in Index |-> Zero]]
  /\ txObj = [s \in 0..TxSlots-1 |-> NoFrame]
  /\ txFifo = <<>>
  /\ txNext = 0
  /\ txAbt = FALSE
  /\ bus = NoFrame
  /\ rxRam = [s \in 0..RxSlots-1 |-> [i \in Index |-> Zero]]
  /\ rxObj = [s \in 0..RxSlots-1 |-> NoFrame]
  /\ rxFifo = <<>>
  /\ rxNext = 0
  /\ shown = NoFrame
  /\ filters = [i \in Filters |-> [on |-> i = 0, obj |-> 0, mask |-> 0]]
  /\ intents = [i \in {0} |-> AcceptAll]

-----------------------------------------------------------------------------
(* From the host to the RAM. *)

\* The user address after a reset of the FIFO is that of its first slot.
TxSlot == IF txAbt THEN 0 ELSE txNext

\* A bug: the last word is not rounded up.
WriteObjectShort(ram, n, f) ==
  [i \in Index |-> IF i < 4 * (f.len \div 4)
                   THEN IF i < f.has THEN Byte(n, i) ELSE Zero ELSE ram[i]]

\* The data words of tx_buf that are written; the rest of the slot stays.
WriteObject(ram, n, f) ==
  [i \in Index |-> IF i < WriteLen(f.len)
                   THEN IF i < f.has THEN Byte(n, i) ELSE Zero ELSE ram[i]]

Transmit(c) ==
  LET f == ParseTxFrame(c)
      n == Len(cmds) + 1
      waiting == IF txAbt THEN <<>> ELSE txFifo
  IN /\ Len(cmds) < MaxCommands
     /\ Len(waiting) < TxSlots
     /\ cmds' = Append(cmds, c)
     /\ txObj' = [txObj EXCEPT ![TxSlot] =
                    [by |-> n, raw |-> PackId(f.id, f.ext), flags |-> ObjectFlags(f)]]
     /\ txRam' = [txRam EXCEPT ![TxSlot] = WriteObject(@, n, f)]
     /\ txFifo' = Append(waiting, TxSlot)
     /\ txNext' = (TxSlot + 1) % TxSlots
     /\ txAbt' = FALSE
     /\ UNCHANGED <<loop, bus, rxVars, shown, filterVars>>

-----------------------------------------------------------------------------
(* The controller (external): frames on the bus and acceptance filters. *)

\* Bytes of data a frame has on the bus.
BusLen(fd, rtr, dlc) ==
  IF fd THEN s_dlc_to_len[dlc]
  ELSE IF rtr THEN 0 ELSE IF dlc > 8 THEN 8 ELSE dlc

\* The frame a message object stands for: a classic frame switches no rate
\* and an FD frame cannot be a remote frame.
OnBus(obj, ram) ==
  LET ext == HasBit(obj.flags, 16)
      fd  == HasBit(obj.flags, 128)
      rtr == HasBit(obj.flags, 32) /\ ~fd
      dlc == obj.flags % 16
  IN [by |-> obj.by, ext |-> ext, fd |-> fd, rtr |-> rtr,
      brs |-> HasBit(obj.flags, 64) /\ fd, dlc |-> dlc,
      sid |-> obj.raw % SidSize,
      eid |-> IF ext THEN (obj.raw \div SidSize) % EidSize ELSE 0,
      data |-> [i \in 0..BusLen(fd, rtr, dlc)-1 |-> ram[i]]]

\* a and b agree in the bits of mask m.
Agree(a, b, m) ==
  \A k \in 0..28 : HasBit(m, 2^k) => (HasBit(a, 2^k) <=> HasBit(b, 2^k))

\* FLTOBJ and MASK: SID in 10:0, EID in 28:11, EXIDE and MIDE in bit 30.
Passes(r, w) ==
  /\ r.on
  /\ HasBit(r.mask, 2^30) => (w.ext <=> HasBit(r.obj, 2^30))
  /\ Agree(w.sid, r.obj % SidSize, r.mask % SidSize)
  /\ w.ext => Agree(w.eid, (r.obj \div SidSize) % EidSize,
                           (r.mask \div SidSize) % EidSize)

Accepts(w) == \E i \in Filters : Passes(filters[i], w)

\* The frame w reaches RX FIFO 1, which loses it when it is full.
Store(w) ==
  IF Accepts(w) /\ Len(rxFifo) < RxSlots
  THEN /\ rxObj' = [rxObj EXCEPT ![rxNext] =
             [w |-> w, raw |-> w.sid + w.eid * SidSize,
              flags |-> w.dlc + BitIf(w.ext, 16) + BitIf(w.rtr, 32)
                              + BitIf(w.brs, 64) + BitIf(w.fd, 128)]]
       /\ rxRam' = [rxRam EXCEPT ![rxNext] =
             [i \in Index |-> IF i \in DOMAIN w.data THEN w.data[i] ELSE @[i]]]
       /\ rxFifo' = Append(rxFifo, rxNext)
       /\ rxNext' = (rxNext + 1) % RxSlots
  ELSE UNCHANGED <<rxObj, rxRam, rxFifo, rxNext>>

ChipSends ==
  LET w == OnBus(txObj[Head(txFifo)], txRam[Head(txFifo)])
  IN /\ txFifo # <<>> /\ ~txAbt
     /\ txFifo' = Tail(txFifo)
     /\ bus' = w
     /\ IF loop THEN Store(w) ELSE UNCHANGED <<rxObj, rxRam, rxFifo, rxNext>>
     /\ UNCHANGED <<loop, cmds, txRam, txObj, txNext, txAbt, arrivals, shown,
                    filterVars>>

BusSends(g) ==
  /\ ~loop
  /\ arrivals < MaxArrivals
  /\ arrivals' = arrivals + 1
  /\ Store([by |-> -arrivals', ext |-> g.ext, fd |-> g.fd, rtr |-> g.rtr,
            brs |-> g.brs, dlc |-> g.dlc, sid |-> g.sid, eid |-> g.eid,
            data |-> [i \in 0..BusLen(g.fd, g.rtr, g.dlc)-1 |-> Byte(-arrivals', i)]])
  /\ UNCHANGED <<loop, txVars, bus, shown, filterVars>>

-----------------------------------------------------------------------------
(* From the RAM to the host. *)

\* The number of data bytes the message of a decoded frame carries.
HostData(ram, m) == [i \in 0..m.len-1 |-> ram[i]]

Receive ==
  LET s == Head(rxFifo)
      m == HostUnpack(SerializeRx(Decode(rxObj[s])))
  IN /\ rxFifo # <<>>
     /\ rxFifo' = Tail(rxFifo)
     /\ shown' = [by |-> rxObj[s].w.by, msg |-> m, data |-> HostData(rxRam[s], m),
                  w |-> rxObj[s].w]
     /\ UNCHANGED <<loop, txVars, arrivals, rxRam, rxObj, rxNext, bus, filterVars>>

-----------------------------------------------------------------------------
(* SET_FILTER. *)

\* A bug: a standard filter matches extended frames as well.
FilterRegistersAnyIde(c) ==
  IF c.mask = 0 THEN [on |-> TRUE, obj |-> 0, mask |-> 0]
  ELSE IF c.ext
  THEN [on |-> TRUE, obj |-> (c.id % IdSize) + 2^30, mask |-> (c.mask % IdSize) + 2^30]
  ELSE [on |-> TRUE, obj |-> c.id % SidSize, mask |-> c.mask % SidSize]

\* EID is put in bits 17:0 and SID in bits 28:18, where the identifier has them.
FilterRegisters(c) ==
  IF c.mask = 0 THEN [on |-> TRUE, obj |-> 0, mask |-> 0]
  ELSE IF c.ext
  THEN [on |-> TRUE, obj |-> (c.id % IdSize) + 2^30, mask |-> (c.mask % IdSize) + 2^30]
  ELSE [on |-> TRUE, obj |-> c.id % SidSize, mask |-> (c.mask % SidSize) + 2^30]

\* Configuration mode, which the change passes through, aborts what waits.
SetFilter(c) ==
  /\ filters' = [filters EXCEPT ![c.idx] = FilterRegisters(c)]
  /\ intents' = [i \in DOMAIN intents \cup {c.idx} |-> IF i = c.idx THEN c ELSE intents[i]]
  /\ txAbt' = (txAbt \/ txFifo # <<>>)
  /\ UNCHANGED <<loop, cmds, txRam, txObj, txFifo, txNext, rxVars, bus, shown>>

Next ==
  \/ \E c \in Commands : Transmit(c)
  \/ ChipSends
  \/ \E g \in BusFrames : BusSends(g)
  \/ Receive
  \/ \E c \in FilterCmds : SetFilter(c)

Spec == Init /\ [][Next]_vars

-----------------------------------------------------------------------------
(* Types. *)

Message == [id : Nat, len : 0..64,
            ext : BOOLEAN, fd : BOOLEAN, brs : BOOLEAN, rtr : BOOLEAN]

\* The slots that wait follow each other and end before the user address.
InRing(fifo, next, slots) ==
  /\ next \in 0..slots-1
  /\ Len(fifo) <= slots
  /\ \A k \in 1..Len(fifo) : fifo[k] = (next + 2 * slots - Len(fifo) + k - 1) % slots

TypeOK ==
  /\ loop \in BOOLEAN /\ txAbt \in BOOLEAN
  /\ Len(cmds) <= MaxCommands /\ arrivals \in 0..MaxArrivals
  /\ InRing(txFifo, txNext, TxSlots)
  /\ InRing(rxFifo, rxNext, RxSlots)
  /\ shown = NoFrame \/ shown.msg \in Message
  /\ DOMAIN intents = {i \in Filters : filters[i].on}

-----------------------------------------------------------------------------
(* Properties. *)

\* The identifier of a frame on the bus.
BusId(w) == IF w.ext THEN w.sid * EidSize + w.eid ELSE w.sid

\* Frame w has the identifier and the kind that command c asks for.
AsAsked(w, c) ==
  /\ w.ext <=> HasBit(c.flags, 1)
  /\ w.fd  <=> HasBit(c.flags, 2)
  /\ w.brs <=> HasBit(c.flags, 4) /\ w.fd
  /\ w.rtr <=> HasBit(c.flags, 8) /\ ~w.fd
  /\ BusId(w) = c.id % (IF w.ext THEN IdSize ELSE SidSize)

\* A frame on the bus has the identifier and the kind the command asked for:
\* identifiers are cut to the width of the kind, a bit rate switch needs an FD
\* frame, a remote frame a classic one (transmit_frame packs what the host
\* packed).
SentAsAsked == bus # NoFrame => AsAsked(bus, cmds[bus.by])

\* Frame w, sent for command n, carries all the bytes of f and no others.
OwnData(w, f, n) ==
  LET sent == DOMAIN w.data
  IN /\ w.fd => /\ 0..f.len-1 \subseteq sent
                /\ \A d \in 0..15 : s_dlc_to_len[d] >= f.len =>
                                      sent \subseteq 0..s_dlc_to_len[d]-1
     /\ ~w.fd /\ ~w.rtr => \A i \in 0..7 : i < f.len => i \in sent
     /\ \A i \in sent : i < WriteLen(f.len) =>
          w.data[i] = IF i < f.has THEN Byte(n, i) ELSE Zero
     /\ \A i \in sent : w.data[i] \notin {Zero, Byte(n, i)} =>
          f.len \in 25..28 \cup 33..44 \cup 49..60

\* No byte of a command is cut off by the length code, which is the smallest
\* one that suffices, and up to the last word that transmit_frame writes a
\* frame carries its own bytes and zeros.  Bytes of an earlier frame in the same
\* slot are sent only behind it, in FD frames of a length that is not rounded
\* to a length code by whole words (25..28, 33..44, 49..60).
OwnBytes == bus # NoFrame => OwnData(bus, ParseTxFrame(cmds[bus.by]), bus.by)

\* Message m with these data bytes says what frame w said.
SaysWhatItWas(m, data, w) ==
  /\ m.id = BusId(w)
  /\ <<m.ext, m.fd, m.brs, m.rtr>> = <<w.ext, w.fd, w.brs, w.rtr>>
  /\ m.len = s_dlc_to_len[w.dlc]
  /\ \A i \in DOMAIN w.data : i < m.len /\ data[i] = w.data[i]

\* What the host reads in an RX_FRAME message is the identifier, the kind and
\* the data of the frame that was on the bus.  The length is that of the length
\* code: bytes behind the data of a remote frame or of a classic frame with a
\* code above 8 are those of an earlier frame (receive_frame copies them).
ShownAsReceived == shown # NoFrame => SaysWhatItWas(shown.msg, shown.data, shown.w)

\* The frames a SET_FILTER command asks for (mcp2517fd.h:172-179): mask 0 means
\* all, otherwise those of the kind that agree with the identifier in the mask.
Wants(c, w) ==
  \/ c.mask = 0
  \/ /\ w.ext <=> c.ext
     /\ Agree(BusId(w), c.id, c.mask % (IF c.ext THEN IdSize ELSE SidSize))

Wanted(w) == \E i \in DOMAIN intents : Wants(intents[i], w)
ExtendedFilter == \E i \in DOMAIN intents : intents[i].ext /\ intents[i].mask # 0

\* Standard frames pass exactly the filters that ask for them, whatever filters
\* were set before; extended frames do while no filter names an extended
\* identifier (set_filter, and filter 0 of init).
FiltersMean ==
  \A g \in BusFrames : ~g.ext \/ ~ExtendedFilter => (Accepts(g) <=> Wanted(g))

\* The FIFOs are rings of their slots, a filter is on when it was set, and the
\* filters select what their commands mean.
FiltersAndRings == TypeOK /\ FiltersMean

\* mcp2517fd.h:176 of set_filter: 0x1FFFFFFF means an exact match.
ExactMatch ==
  \A g \in BusFrames : g.ext => (Accepts(g) <=> Wanted(g))
=============================================================================
