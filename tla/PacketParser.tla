---------------------------- MODULE PacketParser ----------------------------
(***************************************************************************)
(* The packet format of main/usb_protocol.c and its parser, which takes one *)
(* byte at a time: what it makes of a stream in which packets are cut,      *)
(* bytes are lost and noise comes in between.                              *)
(***************************************************************************)
EXTENDS Integers, Sequences

CONSTANTS Crc(_),       \* proto_crc16 of a sequence of bytes
          MaxPayload,   \* PROTO_MAX_PAYLOAD_SIZE (128)
          Cmds,         \* command bytes
          Payloads,     \* payloads, sequences of bytes
          NoiseBytes,   \* bytes that no packet sent
          MaxPackets,   \* bound: packets sent, fewer than the 256 of seq
          MaxDamage,    \* bound: packets cut, bytes lost and noise
          Shadow        \* packets a parser that lost its place can swallow

Byte == 0..255
Word == {n \in Nat : n < 65536}
Sync1 == 170
Sync2 == 85

\* The bytes the checksum covers: command, sequence number, length, payload.
Covered(cmd, seq, len, payload) == <<cmd, seq, len \div 256, len % 256>> \o payload

ASSUME ByteAssumption ==
  /\ Cmds \subseteq Byte /\ NoiseBytes \subseteq Byte
  /\ Payloads \subseteq Seq(Byte) /\ \A p \in Payloads : Len(p) <= MaxPayload
ASSUME CrcAssumption ==
  \A cmd \in Cmds, seq \in 1..MaxPackets, p \in Payloads :
    Crc(Covered(cmd, seq, Len(p), p)) \in Word
ASSUME SizeAssumption ==
  /\ MaxPayload \in 1..255 /\ MaxPackets \in 1..255
  /\ MaxDamage \in Nat /\ Shadow \in Nat

VARIABLES state,          \* s_parse_state
          cmd, seq, len,  \* fields of s_rx_packet ...
          payload, crc,
          idx,            \* s_payload_idx
          line,           \* bytes of the current packet not yet parsed
          sent, got,      \* packets of the host, packets handed to the task
          whole,          \* the current packet was not damaged
          streak,         \* whole plain packets in a row, up to it
          hunting,        \* the parser looked for a packet when it began
          damage          \* how often the stream was damaged

fields == <<cmd, seq, len, payload, crc, idx>>
history == <<sent, whole, streak, hunting, damage>>
vars == <<state, fields, line, got, history>>

States == {"sync1", "sync2", "cmd", "seq", "lenmsb", "lenlsb", "payload",
           "crcmsb", "crclsb"}

Init ==
  /\ state = "sync1" /\ cmd = 0 /\ seq = 0 /\ len = 0 /\ crc = 0 /\ idx = 0
  /\ payload = [i \in 0..MaxPayload - 1 |-> 0]
  /\ line = <<>> /\ sent = <<>> /\ got = <<>>
  /\ whole = TRUE /\ streak = 0 /\ hunting = TRUE /\ damage = 0

-----------------------------------------------------------------------------
(* The stream.                                                              *)

\* pack_packet of the host: two sync bytes, the covered bytes, the checksum.
Pack(c, s, p) ==
  LET covered == Covered(c, s, Len(p), p)
  IN  <<Sync1, Sync2>> \o covered \o <<Crc(covered) \div 256, Crc(covered) % 256>>

\* Nothing in the packet looks like the beginning of another.
Plain(packet) == \A i \in 2..Len(packet) : packet[i] # Sync1

\* The host sends a packet, numbered by _next_seq.
Send ==
  /\ line = <<>> /\ Len(sent) < MaxPackets
  /\ \E c \in Cmds, p \in Payloads :
       /\ line' = Pack(c, Len(sent) + 1, p)
       /\ sent' = Append(sent, [cmd |-> c, seq |-> Len(sent) + 1, payload |-> p])
  /\ streak' = IF Plain(line') THEN streak + 1 ELSE 0
  /\ whole' = TRUE /\ hunting' = (state \in {"sync1", "sync2"})
  /\ UNCHANGED <<state, fields, got, damage>>

\* The write of a packet times out and the rest is not sent, or a byte is lost.
Damage ==
  /\ line # <<>> /\ damage < MaxDamage
  /\ damage' = damage + 1 /\ whole' = FALSE /\ streak' = 0
  /\ line' \in {<<>>, Tail(line)}
  /\ UNCHANGED <<state, fields, got, sent, hunting>>

\* A byte between packets that belongs to none.
Noise ==
  /\ line = <<>> /\ damage < MaxDamage
  /\ damage' = damage + 1 /\ whole' = FALSE /\ streak' = 0
  /\ \E b \in NoiseBytes : line' = <<b>>
  /\ UNCHANGED <<state, fields, got, sent, hunting>>

-----------------------------------------------------------------------------
(* proto_parse_byte, one action per case of its switch.                     *)

Parse(at) == state = at /\ line # <<>> /\ line' = Tail(line) /\ UNCHANGED history
byte == Head(line)

ParseSync1 ==
  /\ Parse("sync1")
  /\ state' = IF byte = Sync1 THEN "sync2" ELSE "sync1"
  /\ UNCHANGED <<fields, got>>

\* A bug: the second of two first sync bytes is not taken as the beginning.
ParseSync2Restarts ==
  /\ Parse("sync2")
  /\ state' = IF byte = Sync2 THEN "cmd" ELSE "sync1"
  /\ UNCHANGED <<fields, got>>

ParseSync2 ==
  /\ Parse("sync2")
  /\ state' = IF byte = Sync2 THEN "cmd" ELSE IF byte = Sync1 THEN "sync2" ELSE "sync1"
  /\ UNCHANGED <<fields, got>>

ParseCmd ==
  /\ Parse("cmd") /\ state' = "seq" /\ cmd' = byte
  /\ UNCHANGED <<seq, len, payload, crc, idx, got>>

ParseSeq ==
  /\ Parse("seq") /\ state' = "lenmsb" /\ seq' = byte
  /\ UNCHANGED <<cmd, len, payload, crc, idx, got>>

ParseLenMsb ==
  /\ Parse("lenmsb") /\ state' = "lenlsb" /\ len' = byte * 256
  /\ UNCHANGED <<cmd, seq, payload, crc, idx, got>>

\* A bug: one byte too many is let through.
ParseLenOneMore ==
  /\ Parse("lenlsb") /\ len' = len + byte
  /\ state' = IF len' > MaxPayload + 1 THEN "sync1"
             ELSE IF len' = 0 THEN "crcmsb" ELSE "payload"
  /\ idx' = IF state' = "payload" THEN 0 ELSE idx
  /\ UNCHANGED <<cmd, seq, payload, crc, got>>

\* A length the buffer has no room for ends the packet; length 0 goes on with
\* the checksum.
ParseLenLsb ==
  /\ Parse("lenlsb") /\ len' = len + byte
  /\ state' = IF len' > MaxPayload THEN "sync1"
             ELSE IF len' = 0 THEN "crcmsb" ELSE "payload"
  /\ idx' = IF state' = "payload" THEN 0 ELSE idx
  /\ UNCHANGED <<cmd, seq, payload, crc, got>>

ParsePayload ==
  /\ Parse("payload")
  /\ payload' = [payload EXCEPT ![idx] = byte]
  /\ idx' = idx + 1
  /\ state' = IF idx + 1 >= len THEN "crcmsb" ELSE "payload"
  /\ UNCHANGED <<cmd, seq, len, crc, got>>

ParseCrcMsb ==
  /\ Parse("crcmsb") /\ state' = "crclsb" /\ crc' = byte * 256
  /\ UNCHANGED <<cmd, seq, len, payload, idx, got>>

Content == [i \in 1..len |-> payload[i - 1]]

\* A bug: a wrong checksum leaves the parser where it is.
ParseCrcStuck ==
  /\ Parse("crclsb") /\ crc' = crc + byte
  /\ IF Crc(Covered(cmd, seq, len, Content)) = crc'
       THEN /\ got' = Append(got, [cmd |-> cmd, seq |-> seq, payload |-> Content])
            /\ state' = "sync1"
       ELSE UNCHANGED <<got, state>>
  /\ UNCHANGED <<cmd, seq, len, payload, idx>>

\* A bug: the checksum is not compared.
ParseCrcUnchecked ==
  /\ Parse("crclsb") /\ state' = "sync1" /\ crc' = crc + byte
  /\ got' = Append(got, [cmd |-> cmd, seq |-> seq, payload |-> Content])
  /\ UNCHANGED <<cmd, seq, len, payload, idx>>

\* The packet is handed over when the checksum is right, and forgotten when
\* not: the bytes it consisted of are not searched for another packet.
ParseCrcLsb ==
  /\ Parse("crclsb") /\ state' = "sync1" /\ crc' = crc + byte
  /\ got' = IF Crc(Covered(cmd, seq, len, Content)) = crc'
              THEN Append(got, [cmd |-> cmd, seq |-> seq, payload |-> Content])
              ELSE got
  /\ UNCHANGED <<cmd, seq, len, payload, idx>>

-----------------------------------------------------------------------------
ParseStep == \/ ParseSync1 \/ ParseSync2 \/ ParseCmd \/ ParseSeq
             \/ ParseLenMsb \/ ParseLenLsb \/ ParsePayload
             \/ ParseCrcMsb \/ ParseCrcLsb
Next == Send \/ Damage \/ Noise \/ ParseStep
Spec == Init /\ [][Next]_vars

-----------------------------------------------------------------------------
(* Properties.                                                              *)

\* What the parser keeps between two bytes.  In particular the next byte of a
\* payload has its place in s_rx_packet.payload.
KeptOK ==
  /\ state \in States
  /\ cmd \in Byte /\ seq \in Byte /\ len \in Word /\ crc \in Word
  /\ payload \in [0..MaxPayload - 1 -> Byte] /\ idx \in 0..MaxPayload
  /\ state = "payload" => idx < len /\ len <= MaxPayload
  /\ state \in {"crcmsb", "crclsb"} => len <= MaxPayload
  /\ state = "lenlsb" => len % 256 = 0
  /\ state = "crclsb" => crc % 256 = 0
Packet == [cmd : Cmds, seq : 1..MaxPackets, payload : Payloads]
HistoryOK ==
  /\ sent \in Seq(Packet)
  /\ whole \in BOOLEAN /\ hunting \in BOOLEAN
  /\ streak \in Nat /\ damage \in 0..MaxDamage

\* Every variable keeps its type, and the parser its place in the buffer.
TypeOK == KeptOK /\ HistoryOK /\ line \in Seq(Byte)

\* usb_protocol.c:106-147.  What the parser hands over was sent: no packet is
\* put together from pieces of two, repeated or overtaken.
OnlySent ==
  /\ \A i \in DOMAIN got : /\ got[i].seq \in DOMAIN sent
                           /\ got[i] = sent[got[i].seq]
  /\ \A i, j \in DOMAIN got : i < j => got[i].seq < got[j].seq

\* usb_protocol.c:50-63.  A packet that arrives whole while the parser looks
\* for one is handed over, whatever noise came before and whatever its
\* payload holds.
WholeDelivered ==
  line = <<>> /\ sent # <<>> /\ whole /\ hunting =>
    got # <<>> /\ got[Len(got)] = sent[Len(sent)]

\* usb_protocol.c:80-91, 130-147.  Nothing resets the parser and a half-read
\* packet does not time out, yet the parser finds its way back: after Shadow
\* whole packets that hold no first sync byte, the next one is handed over.
Recovers ==
  line = <<>> /\ streak > Shadow => got # <<>> /\ got[Len(got)] = sent[Len(sent)]
=============================================================================
