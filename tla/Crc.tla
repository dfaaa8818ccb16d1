-------------------------------- MODULE Crc --------------------------------
(***************************************************************************)
(* The checksum of both ends of the link: proto_crc16 of                    *)
(* main/usb_protocol.c and fast_crc16 of tools/pcan_view_gui.py.            *)
(***************************************************************************)
EXTENDS Integers, Sequences, Bitwise

\* One bit of CRC16-CCITT: shift left, and take the polynomial 0x1021 off when
\* the highest bit falls out.
CrcBit(c) == IF c >= 32768 THEN ((2 * c) % 65536) ^^ 4129 ELSE 2 * c

\* The eight bits of a byte at once, from a table of what they come to.
CrcTable == [i \in 0..255 |-> LET shifted[n \in 0..8] ==
                                  IF n = 0 THEN i * 256 ELSE CrcBit(shifted[n - 1])
                            IN  shifted[8]]
Xor4 == [x, y \in 0..15 |-> x ^^ y]
Xor8(x, y) == 16 * Xor4[x \div 16, y \div 16] + Xor4[x % 16, y % 16]
CrcByte(c, b) ==
  LET t == CrcTable[Xor8(c \div 256, b)]
  IN  256 * Xor8(c % 256, t \div 256) + (t % 256)

\* proto_crc16: the checksum starts at 0xFFFF and takes the bytes in order.
Crc16(bytes) ==
  LET crcOf[n \in 0..Len(bytes)] == IF n = 0 THEN 65535 ELSE CrcByte(crcOf[n - 1], bytes[n])
  IN  crcOf[Len(bytes)]
=============================================================================
