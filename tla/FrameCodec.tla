----------------------------- MODULE FrameCodec -----------------------------
(***************************************************************************)
(* The representations a CAN frame takes on its way: the payload of a      *)
(* TX_FRAME command (tools/pcan_view_gui.py), canfd_frame_t                *)
(* (main/can_tasks.c), the message object of the controller                *)
(* (main/mcp2517fd.c) and the payload of an RX_FRAME message               *)
(* (main/usb_protocol.c).  Identifiers and flags are the numbers the code  *)
(* computes; a shift is a product or a quotient, a mask a remainder.       *)
(***************************************************************************)
EXTENDS Integers

SidSize == 2048                  \* 2^11: the standard part of an identifier
EidSize == 262144                \* 2^18: the part only extended frames have
IdSize  == SidSize * EidSize     \* 2^29

\* The bit of weight w of x, and a Boolean as that bit.
HasBit(x, w) == (x \div w) % 2 = 1
BitIf(b, w) == IF b THEN w ELSE 0

-----------------------------------------------------------------------------
(* Lengths. *)

s_dlc_to_len ==
  [dlc \in 0..15 |-> IF dlc <= 8 THEN dlc
                     ELSE IF dlc <= 12 THEN 4 * (dlc - 6)
                     ELSE IF dlc = 13 THEN 32 ELSE 16 * (dlc - 11)]

len_to_dlc(len) ==
  IF len <= 8 THEN len
  ELSE IF len <= 12 THEN 9 ELSE IF len <= 16 THEN 10 ELSE IF len <= 20 THEN 11
  ELSE IF len <= 24 THEN 12 ELSE IF len <= 32 THEN 13
  ELSE IF len <= 48 THEN 14 ELSE 15

\* The bytes of data that are written to the RAM: whole words.
WriteLen(len) == 4 * ((len + 3) \div 4)

-----------------------------------------------------------------------------
(* Identifiers in message objects: the standard part in bits 10:0, the     *)
(* extended part in bits 28:11.                                            *)

\* A bug: the extended part is not shifted past the standard one.
PackIdOverlap(id, ext) ==
  IF ext THEN ((id \div EidSize) % SidSize) + (id % EidSize) ELSE id

PackId(id, ext) ==
  IF ext THEN ((id \div EidSize) % SidSize) + (id % EidSize) * SidSize ELSE id

\* A bug: the parts stay where the identifier has them.
UnpackIdPlain(raw, ext) == raw % (IF ext THEN IdSize ELSE SidSize)

UnpackId(raw, ext) ==
  IF ext THEN ((raw \div SidSize) % EidSize) + (raw % SidSize) * EidSize
  ELSE raw % SidSize

-----------------------------------------------------------------------------
(* The flags of the protocol and the flags word of a message object.       *)

ProtoFlags(f) ==
  BitIf(f.ext, 1) + BitIf(f.fd, 2) + BitIf(f.brs, 4) + BitIf(f.rtr, 8)

ObjectFlags(f) ==
  len_to_dlc(f.len) + BitIf(f.ext, 16) + BitIf(f.rtr, 32)
                    + BitIf(f.brs, 64) + BitIf(f.fd, 128)

\* struct.pack('<IBB', ...) of the host's TransmitFrame, with len bytes of data.
HostPack(f) == [id |-> f.id, flags |-> ProtoFlags(f), len |-> f.len, has |-> f.len]

\* The frame the device makes of the payload of a TX_FRAME command of which
\* "has" bytes of data have arrived: data that is missing is zero.
ParseTxFrame(c) ==
  LET len == IF c.len > 64 THEN 64 ELSE c.len
  IN [id |-> c.id, ext |-> HasBit(c.flags, 1), fd |-> HasBit(c.flags, 2),
      brs |-> HasBit(c.flags, 4), rtr |-> HasBit(c.flags, 8),
      len |-> len, has |-> IF c.has >= len THEN len ELSE 0]

\* The frame of a message object in the RX FIFO.
Decode(obj) ==
  LET ext == HasBit(obj.flags, 16)
  IN [id |-> UnpackId(obj.raw, ext), ext |-> ext, rtr |-> HasBit(obj.flags, 32),
      brs |-> HasBit(obj.flags, 64), fd |-> HasBit(obj.flags, 128),
      len |-> s_dlc_to_len[obj.flags % 16]]

\* The header of an RX_FRAME message, and what the host reads in it.
SerializeRx(f) == [id |-> f.id, flags |-> ProtoFlags(f), len |-> f.len]

HostUnpack(m) ==
  [id |-> m.id, ext |-> HasBit(m.flags, 1), fd |-> HasBit(m.flags, 2),
   brs |-> HasBit(m.flags, 4), rtr |-> HasBit(m.flags, 8), len |-> m.len]
=============================================================================
