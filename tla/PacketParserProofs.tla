------------------------- MODULE PacketParserProofs -------------------------
(***************************************************************************)
(* For every checksum function, every size of the payload buffer and every  *)
(* stream: the parser of main/usb_protocol.c keeps inside its buffer.       *)
(***************************************************************************)
EXTENDS PacketParser, SequenceTheorems, TLAPS

\* What pack_packet makes is a sequence of bytes.
LEMMA PackIsBytes ==
  ASSUME NEW c \in Cmds, NEW s \in 1..MaxPackets, NEW p \in Payloads
  PROVE  Pack(c, s, p) \in Seq(Byte)
<1> DEFINE covered == Covered(c, s, Len(p), p)
           crcOf == Crc(covered)
<1>1. p \in Seq(Byte) /\ Len(p) \in Nat /\ Len(p) <= 255
  <2>1. p \in Seq(Byte)
    BY ByteAssumption
  <2>2. Len(p) <= MaxPayload
    BY ByteAssumption
  <2>3. Len(p) \in Nat
    BY <2>1, LenProperties
  <2>4. MaxPayload \in Nat /\ MaxPayload <= 255
    BY SizeAssumption
  <2>5. Len(p) <= 255
    BY <2>2, <2>3, <2>4, Z3
  <2> QED BY <2>1, <2>3, <2>5, Zenon
<1>2. /\ c \in Byte
      /\ s \in Byte
      /\ Len(p) \div 256 \in Byte /\ Len(p) % 256 \in Byte
  <2>1. c \in Byte
    BY ByteAssumption
  <2>2. s \in Byte
    BY SizeAssumption DEF Byte
  <2>3. Len(p) \div 256 \in Byte /\ Len(p) % 256 \in Byte
    <3> DEFINE n == Len(p)
    <3>1. n \in Nat /\ n <= 255
      BY <1>1
    <3> HIDE DEF n
    <3>2. n \div 256 \in Byte /\ n % 256 \in Byte
      BY <3>1 DEF Byte
    <3> QED BY <3>2 DEF n
  <2> QED BY <2>1, <2>2, <2>3
<1>3. covered \in Seq(Byte)
  <2>1. <<c, s, Len(p) \div 256, Len(p) % 256>> \in Seq(Byte)
    BY <1>2
  <2> QED BY <1>1, <2>1, ConcatProperties DEF Covered
<1>4. crcOf \in Word
  BY CrcAssumption
<1> HIDE DEF crcOf
<1>5. crcOf \div 256 \in Byte /\ crcOf % 256 \in Byte
  BY <1>4 DEF Byte, Word
<1>6. <<crcOf \div 256, crcOf % 256>> \in Seq(Byte)
  BY <1>5
<1>8. Sync1 \in Byte /\ Sync2 \in Byte
  BY DEF Byte, Sync1, Sync2
<1>9. <<Sync1, Sync2>> \in Seq(Byte)
  BY <1>8
<1>7. Pack(c, s, p) = <<Sync1, Sync2>> \o covered \o <<crcOf \div 256, crcOf % 256>>
  BY DEF Pack, crcOf
<1> HIDE DEF covered
<1> QED BY <1>3, <1>6, <1>7, <1>9, ConcatProperties

\* The next packet is one of those MaxPackets allows.
LEMMA SentCount ==
  ASSUME sent \in Seq(Packet), Len(sent) < MaxPackets
  PROVE  Len(sent) + 1 \in 1..MaxPackets
<1>1. Len(sent) \in Nat
  BY LenProperties
<1> QED BY <1>1, SizeAssumption

\* The host's record of what it sent is one of packets.
LEMMA SentStep == ASSUME sent \in Seq(Packet), Send PROVE sent' \in Seq(Packet)
<1>1. Len(sent) + 1 \in 1..MaxPackets
  BY SentCount DEF Send
<1>2. PICK c \in Cmds, p \in Payloads :
        sent' = Append(sent, [cmd |-> c, seq |-> Len(sent) + 1, payload |-> p])
  BY DEF Send
<1>3. [cmd |-> c, seq |-> Len(sent) + 1, payload |-> p] \in Packet
  BY <1>1 DEF Packet
<1> QED BY <1>2, <1>3, AppendProperties

\* Sending, damage and noise leave the line a sequence of bytes, and so does
\* taking a byte off it.
LEMMA LineStep ==
  ASSUME line \in Seq(Byte), sent \in Seq(Packet), Next
  PROVE  line' \in Seq(Byte)
<1>1. ASSUME line' = Tail(line), line # <<>> PROVE line' \in Seq(Byte)
  BY <1>1, HeadTailProperties
<1>2. CASE Send
  <2>1. PICK c \in Cmds, p \in Payloads : line' = Pack(c, Len(sent) + 1, p)
    BY <1>2 DEF Send
  <2>2. Len(sent) + 1 \in 1..MaxPackets
    BY <1>2, SentCount DEF Send
  <2> QED BY <2>1, <2>2, PackIsBytes
<1>3. CASE Damage
  <2>1. line # <<>> /\ line' \in {<<>>, Tail(line)}
    BY <1>3 DEF Damage
  <2> QED BY <1>1, <2>1, EmptySeq
<1>4. CASE Noise
  <2>1. PICK b \in NoiseBytes : line' = <<b>>
    BY <1>4 DEF Noise
  <2>2. b \in Byte
    BY ByteAssumption
  <2> QED BY <2>1, <2>2
<1>5. CASE ParseStep
  <2>1. line # <<>> /\ line' = Tail(line)
    BY <1>5 DEF ParseStep, Parse, ParseSync1, ParseSync2, ParseCmd, ParseSeq,
       ParseLenMsb, ParseLenLsb, ParsePayload, ParseCrcMsb, ParseCrcLsb
  <2> QED BY <1>1, <2>1
<1> QED BY <1>2, <1>3, <1>4, <1>5 DEF Next

\* The byte that is parsed is one.
LEMMA ByteIsByte == ASSUME line \in Seq(Byte), line # <<>> PROVE byte \in 0..255
<1>1. Head(line) \in Byte
  BY HeadTailProperties
<1> QED BY <1>1 DEF byte, Byte

\* Every step of the parser keeps what it keeps.
LEMMA ParseKeeps ==
  ASSUME KeptOK, byte \in 0..255, ParseStep
  PROVE  KeptOK'
<1> USE SizeAssumption
<1>0. byte * 256 \in Word /\ (byte * 256) % 256 = 0
  BY DEF Word
<1>1. CASE ParseSync1
  BY <1>1 DEF KeptOK, States, ParseSync1, Parse, fields, Byte, Word
<1>2. CASE ParseSync2
  BY <1>2 DEF KeptOK, States, ParseSync2, Parse, fields, Byte, Word
<1>3. CASE ParseCmd
  BY <1>3 DEF KeptOK, States, ParseCmd, Parse, fields, Byte, Word
<1>4. CASE ParseSeq
  BY <1>4 DEF KeptOK, States, ParseSeq, Parse, fields, Byte, Word
<1>5. CASE ParseLenMsb
  <2>1. /\ state' = "lenlsb" /\ len' = byte * 256
        /\ UNCHANGED <<cmd, seq, payload, crc, idx>>
    BY <1>5 DEF ParseLenMsb, Parse
  <2>2. len' \in Word /\ len' % 256 = 0
    BY <1>0, <2>1
  <2> QED BY <2>1, <2>2 DEF KeptOK, States
<1>6. CASE ParseLenLsb
  <2>1. /\ state = "lenlsb" /\ len' = len + byte
        /\ state' = IF len' > MaxPayload THEN "sync1"
                    ELSE IF len' = 0 THEN "crcmsb" ELSE "payload"
        /\ idx' = IF state' = "payload" THEN 0 ELSE idx
        /\ UNCHANGED <<cmd, seq, payload, crc>>
    BY <1>6 DEF ParseLenLsb, Parse
  <2>2. len' \in Word
    BY <2>1 DEF KeptOK, Word
  <2>3. state' \in States /\ idx' \in 0..MaxPayload
    BY <2>1 DEF KeptOK, States
  <2>4. state' = "payload" => idx' < len' /\ len' <= MaxPayload
    BY <2>1, <2>2 DEF Word
  <2>5. state' \in {"crcmsb", "crclsb"} => len' <= MaxPayload
    BY <2>1, <2>2 DEF Word
  <2>6. state' # "lenlsb" /\ state' # "crclsb"
    BY <2>1
  <2>7. /\ cmd' \in Byte /\ seq' \in Byte /\ crc' \in Word
        /\ payload' \in [0..MaxPayload - 1 -> Byte]
    BY <2>1 DEF KeptOK
  <2> QED BY <2>2, <2>3, <2>4, <2>5, <2>6, <2>7 DEF KeptOK
<1>7. CASE ParsePayload
  BY <1>7 DEF KeptOK, States, ParsePayload, Parse, fields, Byte, Word
<1>8. CASE ParseCrcMsb
  <2>1. /\ state = "crcmsb" /\ state' = "crclsb" /\ crc' = byte * 256
        /\ UNCHANGED <<cmd, seq, len, payload, idx>>
    BY <1>8 DEF ParseCrcMsb, Parse
  <2>2. crc' \in Word /\ crc' % 256 = 0
    BY <1>0, <2>1
  <2> QED BY <2>1, <2>2 DEF KeptOK, States
<1>9. CASE ParseCrcLsb
  <2>1. /\ state = "crclsb" /\ state' = "sync1" /\ crc' = crc + byte
        /\ UNCHANGED <<cmd, seq, len, payload, idx>>
    BY <1>9 DEF ParseCrcLsb, Parse
  <2>2. crc' \in Word
    BY <2>1 DEF KeptOK, Word
  <2> QED BY <2>1, <2>2 DEF KeptOK, States
<1> QED BY <1>1, <1>2, <1>3, <1>4, <1>5, <1>6, <1>7, <1>8, <1>9 DEF ParseStep

\* Every action keeps the type invariant.
LEMMA TypeStep == ASSUME TypeOK, [Next]_vars PROVE TypeOK'
<1>1. CASE Next
  <2>1. line' \in Seq(Byte)
    BY <1>1, LineStep DEF TypeOK, HistoryOK
  <2>2. KeptOK'
    <3>1. CASE Send \/ Damage \/ Noise
      BY <3>1 DEF TypeOK, KeptOK, Send, Damage, Noise, fields
    <3>2. CASE ParseStep
      <4>1. line # <<>>
        BY <3>2 DEF ParseStep, Parse, ParseSync1, ParseSync2, ParseCmd, ParseSeq,
           ParseLenMsb, ParseLenLsb, ParsePayload, ParseCrcMsb, ParseCrcLsb
      <4> QED BY <3>2, <4>1, ByteIsByte, ParseKeeps DEF TypeOK
    <3> QED BY <1>1, <3>1, <3>2 DEF Next
  <2>3. HistoryOK'
    <3>1. CASE Send
      BY <3>1, SentStep DEF TypeOK, HistoryOK, Send
    <3>2. CASE Damage \/ Noise
      <4>1. /\ damage < MaxDamage /\ damage' = damage + 1
            /\ whole' = FALSE /\ streak' = 0 /\ UNCHANGED <<sent, hunting>>
        BY <3>2 DEF Damage, Noise
      <4>2. damage' \in 0..MaxDamage
        BY <4>1, SizeAssumption DEF TypeOK, HistoryOK
      <4> QED BY <4>1, <4>2 DEF TypeOK, HistoryOK
    <3>3. CASE ParseStep
      BY <3>3 DEF TypeOK, HistoryOK, history, ParseStep, Parse, ParseSync1, ParseSync2,
         ParseCmd, ParseSeq, ParseLenMsb, ParseLenLsb, ParsePayload, ParseCrcMsb,
         ParseCrcLsb
    <3> QED BY <1>1, <3>1, <3>2, <3>3 DEF Next
  <2> QED BY <2>1, <2>2, <2>3 DEF TypeOK
<1>2. CASE UNCHANGED vars
  BY <1>2 DEF TypeOK, KeptOK, HistoryOK, vars, fields, history
<1> QED BY <1>1, <1>2

\* usb_protocol.c:80-104.  Whatever arrives, the parser writes the payload
\* inside s_rx_packet.payload, and what it keeps has its type.
THEOREM BufferSafe == Spec => []TypeOK
<1>1. Init => KeptOK
  BY SizeAssumption DEF Init, KeptOK, States, Byte, Word
<1>2. Init => HistoryOK /\ line \in Seq(Byte)
  <2>1. <<>> \in Seq(Packet) /\ <<>> \in Seq(Byte)
    BY EmptySeq
  <2> QED BY <2>1, SizeAssumption DEF Init, HistoryOK
<1>3. TypeOK /\ [Next]_vars => TypeOK'
  BY TypeStep
<1> QED BY <1>1, <1>2, <1>3, PTL DEF Spec, TypeOK

-----------------------------------------------------------------------------
(* Where the parser is in a packet that it follows from its beginning.      *)

\* The bytes of packet q on the line.
Bytes(q) == Pack(q.cmd, q.seq, q.payload)
Size(q) == Len(q.payload) + 8

\* How many bytes of q are parsed.
At(q) == Size(q) - Len(line)

\* What is on the line is the rest of q.
Rest(q) ==
  /\ line \in Seq(Byte) /\ Len(line) <= Size(q)
  /\ \A i \in 1..Len(line) : line[i] = Bytes(q)[At(q) + i]

\* The state after as many bytes, the fields that are read, and the packet
\* handed over at the end.
Along(q) ==
  LET at == At(q)
      n  == Len(q.payload)
  IN  /\ at = 0 => state \in {"sync1", "sync2"}
      /\ at = 1 => state = "sync2"
      /\ at = 2 => state = "cmd"
      /\ at = 3 => state = "seq"
      /\ at = 4 => state = "lenmsb"
      /\ at = 5 => state = "lenlsb" /\ len = 0
      /\ at \in 6..n+5 => state = "payload" /\ idx = at - 6
      /\ at = n + 6 => state = "crcmsb"
      /\ at = n + 7 => /\ state = "crclsb"
                       /\ crc = (Crc(Covered(q.cmd, q.seq, n, q.payload)) \div 256) * 256
      /\ at = n + 8 => state = "sync1" /\ got # <<>> /\ got[Len(got)] = q
      /\ at \in 3..n+7 => cmd = q.cmd
      /\ at \in 4..n+7 => seq = q.seq
      /\ at \in 6..n+7 => /\ len = n
                          /\ \A i \in 1..n : i <= at - 6 => payload[i - 1] = q.payload[i]

\* The type of what is handed over.
Handed == [cmd : Byte, seq : Byte, payload : Seq(Byte)]

\* The numbers of a packet.
LEMMA PacketFields ==
  ASSUME NEW q \in Packet
  PROVE  /\ q.cmd \in Cmds /\ q.seq \in 1..MaxPackets /\ q.payload \in Payloads
         /\ q.payload \in Seq(Byte) /\ Len(q.payload) \in Nat
         /\ Len(q.payload) <= MaxPayload /\ Len(q.payload) <= 255
         /\ q = [cmd |-> q.cmd, seq |-> q.seq, payload |-> q.payload]
<1>1. /\ q.cmd \in Cmds /\ q.seq \in 1..MaxPackets /\ q.payload \in Payloads
      /\ q = [cmd |-> q.cmd, seq |-> q.seq, payload |-> q.payload]
  BY DEF Packet
<1>2. q.payload \in Seq(Byte) /\ Len(q.payload) <= MaxPayload
  BY <1>1, ByteAssumption
<1>3. Len(q.payload) \in Nat
  BY <1>2, LenProperties
<1> DEFINE n == Len(q.payload)
<1>4. n \in Nat /\ n <= MaxPayload
  BY <1>2, <1>3
<1> HIDE DEF n
<1>5. n <= 255
  BY <1>4, SizeAssumption
<1> QED BY <1>1, <1>2, <1>4, <1>5 DEF n

\* The bytes of a packet, one by one.
LEMMA PackBytes ==
  ASSUME NEW q \in Packet
  PROVE  LET n == Len(q.payload)
             k == Crc(Covered(q.cmd, q.seq, n, q.payload))
         IN  /\ Bytes(q) \in Seq(Byte) /\ Len(Bytes(q)) = n + 8
             /\ Bytes(q)[1] = Sync1 /\ Bytes(q)[2] = Sync2
             /\ Bytes(q)[3] = q.cmd /\ Bytes(q)[4] = q.seq
             /\ Bytes(q)[5] = 0 /\ Bytes(q)[6] = n
             /\ \A i \in 1..n : Bytes(q)[i + 6] = q.payload[i]
             /\ Bytes(q)[n + 7] = k \div 256 /\ Bytes(q)[n + 8] = k % 256
             /\ k \in Word
<1> DEFINE p == q.payload
           n == Len(p)
           covered == Covered(q.cmd, q.seq, n, p)
           k == Crc(covered)
           head == <<q.cmd, q.seq, n \div 256, n % 256>>
           sync == <<Sync1, Sync2>>
           last == <<k \div 256, k % 256>>
<1>1. /\ q.cmd \in Cmds /\ q.seq \in 1..MaxPackets /\ p \in Payloads
      /\ p \in Seq(Byte) /\ n \in Nat /\ n <= 255
  BY PacketFields
<1>2. Bytes(q) \in Seq(Byte) /\ k \in Word
  BY <1>1, PackIsBytes, CrcAssumption DEF Bytes
<1>3. Bytes(q) = (sync \o covered) \o last
  BY DEF Bytes, Pack
<1>4. covered = head \o p
  BY DEF Covered
<1> HIDE DEF p, covered, k
<1>5. n \div 256 = 0 /\ n % 256 = n
  <2> HIDE DEF n
  <2> QED BY <1>1, SMT
<1>6. /\ covered \in Seq(Byte) /\ Len(covered) = n + 4
      /\ covered[1] = q.cmd /\ covered[2] = q.seq
      /\ covered[3] = n \div 256 /\ covered[4] = n % 256
      /\ \A i \in 1..n : covered[i + 4] = p[i]
  <2>1. p \in Seq(Byte) /\ head \in Seq(Byte) /\ Len(head) = 4
    <3>1. q.cmd \in Byte
      BY <1>1, ByteAssumption
    <3>2. q.seq \in Byte
      <4>1. q.seq \in 1..MaxPackets
        BY <1>1
      <4> QED BY <4>1, SizeAssumption DEF Byte
    <3>3. n \div 256 \in Byte /\ n % 256 \in Byte
      <4> HIDE DEF n
      <4> QED BY <1>1, <1>5 DEF Byte
    <3> QED BY <1>1, <3>1, <3>2, <3>3
  <2>2. head[1] = q.cmd /\ head[2] = q.seq /\ head[3] = n \div 256 /\ head[4] = n % 256
    OBVIOUS
  <2> HIDE DEF head, n
  <2>3. /\ covered \in Seq(Byte) /\ Len(covered) = Len(head) + Len(p)
        /\ \A i \in 1..Len(head) + Len(p) :
             covered[i] = IF i <= Len(head) THEN head[i] ELSE p[i - Len(head)]
    BY <1>4, <2>1, ConcatProperties
  <2>4. Len(covered) = n + 4
    BY <2>1, <2>3, <1>1 DEF n
  <2>5. covered[1] = head[1] /\ covered[2] = head[2] /\ covered[3] = head[3]
        /\ covered[4] = head[4]
    BY <2>1, <2>3, <1>1 DEF n
  <2>6. ASSUME NEW i \in 1..n PROVE covered[i + 4] = p[i]
    <3>1. i + 4 \in 1..Len(head) + Len(p) /\ ~(i + 4 <= Len(head)) /\ i + 4 - Len(head) = i
      BY <2>1, <1>1 DEF n
    <3> QED BY <2>3, <3>1
  <2> QED BY <2>2, <2>3, <2>4, <2>5, <2>6
<1>7. last \in Seq(Byte) /\ Len(last) = 2 /\ last[1] = k \div 256 /\ last[2] = k % 256
  <2>1. k \div 256 \in Byte /\ k % 256 \in Byte
    BY <1>2 DEF Word, Byte
  <2> QED BY <2>1
<1>8. sync \in Seq(Byte) /\ Len(sync) = 2 /\ sync[1] = Sync1 /\ sync[2] = Sync2
  BY DEF Sync1, Sync2, Byte
<1> HIDE DEF n, head, sync, last
<1>9. PICK most : most = sync \o covered
  OBVIOUS
<1>10. /\ most \in Seq(Byte) /\ Len(most) = n + 6
       /\ \A i \in 1..n + 6 : most[i] = IF i <= 2 THEN sync[i] ELSE covered[i - 2]
  <2>1. /\ most \in Seq(Byte) /\ Len(most) = Len(sync) + Len(covered)
        /\ \A i \in 1..Len(sync) + Len(covered) :
             most[i] = IF i <= Len(sync) THEN sync[i] ELSE covered[i - Len(sync)]
    <3>1. sync \in Seq(Byte) /\ covered \in Seq(Byte)
      BY <1>6, <1>8
    <3> QED BY <1>9, <3>1, ConcatProperties
  <2>2. Len(sync) + Len(covered) = n + 6
    BY <1>1, <1>6, <1>8
  <2> QED BY <2>1, <2>2, <1>8
<1>11. /\ Len(Bytes(q)) = n + 8
       /\ \A i \in 1..n + 8 : Bytes(q)[i] = IF i <= n + 6 THEN most[i] ELSE last[i - (n + 6)]
  <2>1. PICK all : all = most \o last
    OBVIOUS
  <2>2. /\ Len(all) = Len(most) + Len(last)
        /\ \A i \in 1..Len(most) + Len(last) :
             all[i] = IF i <= Len(most) THEN most[i] ELSE last[i - Len(most)]
    <3>1. most \in Seq(Byte) /\ last \in Seq(Byte)
      BY <1>7, <1>10
    <3> QED BY <2>1, <3>1, ConcatProperties
  <2>3. Len(most) + Len(last) = n + 8
    BY <1>1, <1>7, <1>10
  <2>4. Bytes(q) = all
    BY <1>3, <1>9, <2>1
  <2> QED BY <2>2, <2>3, <2>4, <1>10
<1>12. \A i \in 1..n + 6 : Bytes(q)[i] = most[i]
  BY <1>1, <1>11
<1>13. Bytes(q)[1] = Sync1 /\ Bytes(q)[2] = Sync2
  <2>1. 1 \in 1..n + 6 /\ 2 \in 1..n + 6
    BY <1>1
  <2>2. most[1] = sync[1] /\ most[2] = sync[2]
    BY <1>10, <2>1
  <2> QED BY <1>8, <1>12, <2>1, <2>2
<1>14. ASSUME NEW i \in 1..n + 4 PROVE Bytes(q)[i + 2] = covered[i]
  <2>1. i + 2 \in 1..n + 6 /\ ~(i + 2 <= 2) /\ i + 2 - 2 = i
    BY <1>1
  <2> QED BY <1>10, <1>12, <2>1
<1>15. /\ Bytes(q)[3] = q.cmd /\ Bytes(q)[4] = q.seq
       /\ Bytes(q)[5] = 0 /\ Bytes(q)[6] = n
  <2>1. 1 \in 1..n + 4 /\ 2 \in 1..n + 4 /\ 3 \in 1..n + 4 /\ 4 \in 1..n + 4
    BY <1>1
  <2>2. /\ Bytes(q)[1 + 2] = covered[1] /\ Bytes(q)[2 + 2] = covered[2]
        /\ Bytes(q)[3 + 2] = covered[3] /\ Bytes(q)[4 + 2] = covered[4]
    BY <1>14, <2>1
  <2> QED BY <1>5, <1>6, <2>2
<1>16. ASSUME NEW i \in 1..n PROVE Bytes(q)[i + 6] = p[i]
  <2>1. i + 4 \in 1..n + 4 /\ i + 4 + 2 = i + 6
    BY <1>1
  <2>2. Bytes(q)[i + 4 + 2] = covered[i + 4]
    BY <1>14, <2>1
  <2> QED BY <1>6, <2>1, <2>2
<1>17. Bytes(q)[n + 7] = k \div 256 /\ Bytes(q)[n + 8] = k % 256
  BY <1>1, <1>7, <1>11
<1> QED BY <1>2, <1>11, <1>13, <1>15, <1>16, <1>17 DEF n, k, covered, p

\* The byte that is parsed next, and the rest.
LEMMA NextByte ==
  ASSUME NEW q \in Packet, Rest(q), line # <<>>, line' = Tail(line)
  PROVE  /\ At(q) \in 0..Len(q.payload) + 7 /\ At(q)' = At(q) + 1
         /\ byte = Bytes(q)[At(q) + 1]
         /\ Rest(q)'
         /\ line' = <<>> <=> At(q) = Len(q.payload) + 7
<1>1. Len(q.payload) \in Nat
  BY PacketFields
<1>2. line \in Seq(Byte) /\ Len(line) \in Nat /\ Len(line) > 0 /\ byte = line[1]
  BY DEF Rest, byte
<1>3. /\ line' \in Seq(Byte) /\ Len(line') = Len(line) - 1
      /\ \A i \in 1..Len(line') : line'[i] = line[i + 1]
  BY <1>2
<1>4. Len(line) <= Len(q.payload) + 8
  BY DEF Rest, Size
<1>5. At(q)' = At(q) + 1 /\ At(q) \in 0..Len(q.payload) + 7
  BY <1>1, <1>2, <1>3, <1>4 DEF At, Size
<1>6. byte = Bytes(q)[At(q) + 1]
  BY <1>2 DEF Rest
<1>7. Rest(q)'
  <2>1. ASSUME NEW i \in 1..Len(line') PROVE line'[i] = Bytes(q)[At(q)' + i]
    <3>1. i + 1 \in 1..Len(line) /\ At(q) + (i + 1) = At(q)' + i
      BY <1>2, <1>3, <1>5
    <3>2. line[i + 1] = Bytes(q)[At(q) + (i + 1)]
      BY <3>1 DEF Rest
    <3> QED BY <1>3, <3>1, <3>2
  <2>2. Len(line') <= Size(q)
    BY <1>1, <1>2, <1>3, <1>4 DEF Size
  <2> QED BY <1>3, <2>1, <2>2 DEF Rest, Size, Bytes
<1>8. line' = <<>> <=> At(q) = Len(q.payload) + 7
  <2>1. line' = <<>> <=> Len(line') = 0
    BY <1>3, EmptySeq, Zenon
  <2>2. At(q) = Len(q.payload) + 8 - Len(line)
    BY DEF At, Size
  <2> QED BY <1>1, <1>2, <1>3, <2>1, <2>2
<1> QED BY <1>5, <1>6, <1>7, <1>8

\* The state tells which case of the switch is taken.
LEMMA StepOf ==
  ASSUME ParseStep
  PROVE  /\ line # <<>> /\ line' = Tail(line) /\ UNCHANGED history
         /\ state = "sync1" => ParseSync1
         /\ state = "sync2" => ParseSync2
         /\ state = "cmd" => ParseCmd
         /\ state = "seq" => ParseSeq
         /\ state = "lenmsb" => ParseLenMsb
         /\ state = "lenlsb" => ParseLenLsb
         /\ state = "payload" => ParsePayload
         /\ state = "crcmsb" => ParseCrcMsb
         /\ state = "crclsb" => ParseCrcLsb
  BY DEF ParseStep, Parse, ParseSync1, ParseSync2, ParseCmd, ParseSeq,
     ParseLenMsb, ParseLenLsb, ParsePayload, ParseCrcMsb, ParseCrcLsb

\* The payload that was read is that of the packet, and so is the checksum.
LEMMA ReadWhole ==
  ASSUME KeptOK, NEW q \in Packet, len = Len(q.payload), cmd = q.cmd, seq = q.seq,
         \A i \in 1..Len(q.payload) : payload[i - 1] = q.payload[i]
  PROVE  /\ Content = q.payload
         /\ Covered(cmd, seq, len, Content) = Covered(q.cmd, q.seq, Len(q.payload), q.payload)
         /\ [cmd |-> cmd, seq |-> seq, payload |-> Content] = q
         /\ q \in Handed
<1>1. /\ q.payload \in Seq(Byte) /\ q.cmd \in Cmds
      /\ q = [cmd |-> q.cmd, seq |-> q.seq, payload |-> q.payload]
  BY PacketFields
<1>2. Content = q.payload
  <2>1. DOMAIN q.payload = 1..Len(q.payload)
        /\ q.payload = [i \in DOMAIN q.payload |-> q.payload[i]]
    BY <1>1
  <2>2. Content = [i \in 1..Len(q.payload) |-> payload[i - 1]]
    BY DEF Content
  <2> QED BY <2>1, <2>2
<1>3. q \in Handed
  <2>1. q.cmd \in Byte /\ q.seq \in Byte
    BY DEF KeptOK
  <2> QED BY <1>1, <2>1 DEF Handed
<1> QED BY <1>1, <1>2, <1>3

\* Every byte of a packet takes the parser to the next place in it, and the
\* last one to the packet.
LEMMA AlongStep ==
  ASSUME KeptOK, got \in Seq(Handed), NEW q \in Packet, Rest(q), Along(q), ParseStep
  PROVE  /\ Rest(q)' /\ Along(q)'
         /\ got' = IF line' = <<>> THEN Append(got, q) ELSE got
<1> DEFINE n == Len(q.payload)
           at == At(q)
           k == Crc(Covered(q.cmd, q.seq, n, q.payload))
<1>1. n \in Nat /\ n <= MaxPayload /\ n <= 255 /\ MaxPayload \in Nat
  <2>1. n \in Nat /\ n <= MaxPayload /\ n <= 255
    BY PacketFields
  <2>2. MaxPayload \in Nat
    BY SizeAssumption
  <2> QED BY <2>1, <2>2
<1>2. /\ at \in 0..n + 7 /\ At(q)' = at + 1 /\ byte = Bytes(q)[at + 1]
      /\ Rest(q)' /\ (line' = <<>> <=> at = n + 7)
  BY StepOf, NextByte
<1>3. /\ Bytes(q)[1] = 170 /\ Bytes(q)[2] = 85
      /\ Bytes(q)[3] = q.cmd /\ Bytes(q)[4] = q.seq
      /\ Bytes(q)[5] = 0 /\ Bytes(q)[6] = n
      /\ \A i \in 1..n : Bytes(q)[i + 6] = q.payload[i]
      /\ Bytes(q)[n + 7] = k \div 256 /\ Bytes(q)[n + 8] = k % 256
      /\ k \in Word
  <2>1. Sync1 = 170 /\ Sync2 = 85
    BY DEF Sync1, Sync2
  <2>2. Bytes(q)[1] = Sync1 /\ Bytes(q)[2] = Sync2
    BY PackBytes, Zenon
  <2>3. /\ Bytes(q)[3] = q.cmd /\ Bytes(q)[4] = q.seq
        /\ Bytes(q)[5] = 0 /\ Bytes(q)[6] = n
        /\ Bytes(q)[n + 7] = k \div 256 /\ Bytes(q)[n + 8] = k % 256
        /\ k \in Word
    BY PackBytes, ZenonT(40)
  <2>4. \A i \in 1..n : Bytes(q)[i + 6] = q.payload[i]
    BY PackBytes, Zenon
  <2> QED BY <2>1, <2>2, <2>3, <2>4
<1>4. /\ at = 0 => state \in {"sync1", "sync2"}
      /\ at = 1 => state = "sync2"
      /\ at = 2 => state = "cmd"
      /\ at = 3 => state = "seq"
      /\ at = 4 => state = "lenmsb"
      /\ at = 5 => state = "lenlsb" /\ len = 0
      /\ at \in 6..n+5 => state = "payload" /\ idx = at - 6
      /\ at = n + 6 => state = "crcmsb"
      /\ at = n + 7 => state = "crclsb" /\ crc = (k \div 256) * 256
      /\ at \in 3..n+7 => cmd = q.cmd
      /\ at \in 4..n+7 => seq = q.seq
      /\ at \in 6..n+7 => len = n /\ \A i \in 1..n : i <= at - 6 => payload[i - 1] = q.payload[i]
  BY DEF Along
<1>5. SUFFICES
        /\ at + 1 = 1 => state' = "sync2"
        /\ at + 1 = 2 => state' = "cmd"
        /\ at + 1 = 3 => state' = "seq"
        /\ at + 1 = 4 => state' = "lenmsb"
        /\ at + 1 = 5 => state' = "lenlsb" /\ len' = 0
        /\ at + 1 \in 6..n+5 => state' = "payload" /\ idx' = at + 1 - 6
        /\ at + 1 = n + 6 => state' = "crcmsb"
        /\ at + 1 = n + 7 => state' = "crclsb" /\ crc' = (k \div 256) * 256
        /\ at + 1 = n + 8 => state' = "sync1" /\ got' # <<>> /\ got'[Len(got')] = q
        /\ at + 1 \in 3..n+7 => cmd' = q.cmd
        /\ at + 1 \in 4..n+7 => seq' = q.seq
        /\ at + 1 \in 6..n+7 => /\ len' = n
                               /\ \A i \in 1..n : i <= at + 1 - 6 =>
                                                 payload'[i - 1] = q.payload[i]
        /\ got' = IF at = n + 7 THEN Append(got, q) ELSE got
  <2> HIDE DEF k
  <2>1. at + 1 # 0
    BY <1>1, <1>2
  <2> QED BY <1>2, <2>1, SMTT(30) DEF Along, k
<1> HIDE DEF n, at, k
<1>6. CASE at = 0
  <2>1. state' = "sync2" /\ got' = got
    BY <1>2, <1>3, <1>4, <1>6, StepOf DEF ParseSync1, ParseSync2, Sync1, Sync2
  <2> QED BY <1>1, <1>6, <2>1
<1>7. CASE at = 1
  <2>1. state' = "cmd" /\ got' = got
    BY <1>2, <1>3, <1>4, <1>7, StepOf DEF ParseSync2, Sync1, Sync2
  <2> QED BY <1>1, <1>7, <2>1
<1>8. CASE at = 2
  <2>1. state' = "seq" /\ cmd' = q.cmd /\ got' = got
    BY <1>2, <1>3, <1>4, <1>8, StepOf DEF ParseCmd
  <2> QED BY <1>1, <1>8, <2>1
<1>9. CASE at = 3
  <2>1. state' = "lenmsb" /\ seq' = q.seq /\ cmd' = cmd /\ got' = got
    BY <1>2, <1>3, <1>4, <1>9, StepOf DEF ParseSeq
  <2> QED BY <1>1, <1>4, <1>9, <2>1
<1>10. CASE at = 4
  <2>1. /\ state' = "lenlsb" /\ len' = 0 * 256 /\ UNCHANGED <<cmd, seq>>
        /\ got' = got
    BY <1>2, <1>3, <1>4, <1>10, StepOf DEF ParseLenMsb
  <2> QED BY <1>1, <1>4, <1>10, <2>1
<1>11. CASE at = 5
  <2>1. /\ len' = 0 + n /\ UNCHANGED <<cmd, seq>> /\ got' = got
        /\ state' = IF len' > MaxPayload THEN "sync1"
                    ELSE IF len' = 0 THEN "crcmsb" ELSE "payload"
        /\ idx' = IF state' = "payload" THEN 0 ELSE idx
    BY <1>2, <1>3, <1>4, <1>11, StepOf DEF ParseLenLsb
  <2>2. /\ len' = n /\ n = 0 => state' = "crcmsb"
        /\ n # 0 => state' = "payload" /\ idx' = 0
    BY <1>1, <2>1
  <2> QED BY <1>1, <1>4, <1>11, <2>1, <2>2
<1>12. CASE at \in 6..n + 5
  <2>1. /\ payload' = [payload EXCEPT ![idx] = byte] /\ idx' = idx + 1
        /\ state' = IF idx + 1 >= len THEN "crcmsb" ELSE "payload"
        /\ UNCHANGED <<cmd, seq, len, got>>
    BY <1>4, <1>12, StepOf DEF ParsePayload
  <2>2. idx = at - 6 /\ len = n
    BY <1>1, <1>4, <1>12
  <2>3. byte = q.payload[at - 5]
    <3>1. at - 5 \in 1..n /\ at - 5 + 6 = at + 1
      BY <1>1, <1>12
    <3> QED BY <1>2, <1>3, <3>1
  <2>4. ASSUME NEW i \in 1..n, i <= at + 1 - 6
        PROVE  payload'[i - 1] = q.payload[i]
    <3>1. i - 1 \in DOMAIN payload
      BY <1>1 DEF KeptOK
    <3>2. CASE i - 1 = idx
      <4>1. i = at - 5
        BY <1>1, <1>12, <2>2, <3>2
      <4> QED BY <2>1, <2>3, <3>1, <3>2, <4>1
    <3>3. CASE i - 1 # idx
      <4>1. i <= at - 6
        BY <1>1, <1>12, <2>2, <2>4, <3>3
      <4>2. payload[i - 1] = q.payload[i]
        BY <1>1, <1>4, <1>12, <4>1
      <4> QED BY <2>1, <3>1, <3>3, <4>2
    <3> QED BY <3>2, <3>3
  <2>5. /\ at + 1 \in 6..n + 5 => state' = "payload" /\ idx' = at + 1 - 6
        /\ at + 1 = n + 6 => state' = "crcmsb"
    BY <1>1, <1>12, <2>1, <2>2
  <2>6. cmd' = q.cmd /\ seq' = q.seq /\ len' = n
    BY <1>1, <1>4, <1>12, <2>1
  <2> QED BY <1>1, <1>12, <2>1, <2>4, <2>5, <2>6
<1>13. CASE at = n + 6
  <2>1. /\ state' = "crclsb" /\ crc' = byte * 256
        /\ UNCHANGED <<cmd, seq, len, payload, got>>
    BY <1>4, <1>13, StepOf DEF ParseCrcMsb
  <2>2. byte = k \div 256
    <3>1. at + 1 = n + 7
      BY <1>1, <1>13
    <3> QED BY <1>2, <1>3, <3>1
  <2>3. /\ cmd = q.cmd /\ seq = q.seq /\ len = n
        /\ \A i \in 1..n : payload[i - 1] = q.payload[i]
    <3>1. at \in 3..n + 7 /\ at \in 4..n + 7 /\ at \in 6..n + 7
      BY <1>1, <1>13
    <3>2. \A i \in 1..n : i <= at - 6
      BY <1>1, <1>13
    <3> QED BY <1>4, <3>1, <3>2
  <2> QED BY <1>1, <1>13, <2>1, <2>2, <2>3
<1>14. CASE at = n + 7
  <2>1. /\ state' = "sync1" /\ crc' = crc + byte
        /\ got' = IF Crc(Covered(cmd, seq, len, Content)) = crc'
                    THEN Append(got, [cmd |-> cmd, seq |-> seq, payload |-> Content])
                    ELSE got
    BY <1>4, <1>14, StepOf DEF ParseCrcLsb
  <2>2. byte = k % 256
    <3>1. at + 1 = n + 8
      BY <1>1, <1>14
    <3> QED BY <1>2, <1>3, <3>1
  <2>3. crc' = k
    <3>1. crc = (k \div 256) * 256 /\ k \in Nat
      BY <1>3, <1>4, <1>14 DEF Word
    <3> QED BY <2>1, <2>2, <3>1
  <2>4. /\ cmd = q.cmd /\ seq = q.seq /\ len = n
        /\ \A i \in 1..n : payload[i - 1] = q.payload[i]
    <3>1. at \in 3..n + 7 /\ at \in 4..n + 7 /\ at \in 6..n + 7
      BY <1>1, <1>14
    <3>2. \A i \in 1..n : i <= at - 6
      BY <1>1, <1>14
    <3> QED BY <1>4, <3>1, <3>2
  <2>5. /\ Covered(cmd, seq, len, Content) = Covered(q.cmd, q.seq, n, q.payload)
        /\ [cmd |-> cmd, seq |-> seq, payload |-> Content] = q /\ q \in Handed
    BY <2>4, ReadWhole DEF n
  <2>6. got' = Append(got, q)
    BY <2>1, <2>3, <2>5 DEF k
  <2>7. got' # <<>> /\ got'[Len(got')] = q
    BY <2>5, <2>6
  <2> QED BY <1>1, <1>14, <2>1, <2>6, <2>7
<1> QED
  <2>1. \/ at = 0 \/ at = 1 \/ at = 2 \/ at = 3 \/ at = 4 \/ at = 5
        \/ at \in 6..n + 5 \/ at = n + 6 \/ at = n + 7
    BY <1>1, <1>2
  <2> QED BY <2>1, <1>6, <1>7, <1>8, <1>9, <1>10, <1>11, <1>12, <1>13, <1>14

-----------------------------------------------------------------------------
(* What is delivered.                                                       *)

\* The parser follows a whole packet that found it looking for one.
Follows ==
  sent # <<>> /\ whole /\ hunting =>
    Rest(sent[Len(sent)]) /\ Along(sent[Len(sent)])

\* Packets are numbered as they are sent.
Numbered == \A i \in DOMAIN sent : sent[i].seq = i

\* While the stream is undamaged, the packets handed over are those sent, but
\* for the last one while it is on the line.
Undamaged ==
  damage = 0 =>
    /\ whole /\ hunting
    /\ line = <<>> => got = sent /\ state = "sync1"
    /\ line # <<>> => sent # <<>> /\ sent = Append(got, sent[Len(sent)])

Delivery == got \in Seq(Handed) /\ Numbered /\ Follows /\ Undamaged

\* The packet that was sent last is one.
LEMMA LastSent ==
  ASSUME TypeOK, sent # <<>>
  PROVE  sent[Len(sent)] \in Packet
  BY DEF TypeOK, HistoryOK

\* What is handed over has its type.
LEMMA HandedType ==
  ASSUME TypeOK, got \in Seq(Handed), ParseStep
  PROVE  got' \in Seq(Handed)
<1>1. ASSUME state = "crclsb", got' # got PROVE got' \in Seq(Handed)
  <2>1. got' = Append(got, [cmd |-> cmd, seq |-> seq, payload |-> Content])
    BY <1>1, StepOf DEF ParseCrcLsb
  <2>2. len \in Nat /\ len <= MaxPayload /\ payload \in [0..MaxPayload - 1 -> Byte]
        /\ cmd \in Byte /\ seq \in Byte
    BY <1>1 DEF TypeOK, KeptOK, Word
  <2>3. Content \in [1..len -> Byte]
    BY <2>2, SizeAssumption DEF Content
  <2>4. Content \in Seq(Byte)
    BY <2>2, <2>3, SeqDef
  <2> QED BY <2>1, <2>2, <2>4 DEF Handed
<1>2. state # "crclsb" => got' = got
  BY DEF ParseStep, Parse, ParseSync1, ParseSync2, ParseCmd, ParseSeq,
     ParseLenMsb, ParseLenLsb, ParsePayload, ParseCrcMsb, ParseCrcLsb
<1> QED BY <1>1, <1>2

\* A packet that is sent is on the line from its beginning.
LEMMA SendDelivers == ASSUME TypeOK, Delivery, Send PROVE Delivery'
<1>1. PICK c \in Cmds, p \in Payloads :
        /\ line' = Pack(c, Len(sent) + 1, p)
        /\ sent' = Append(sent, [cmd |-> c, seq |-> Len(sent) + 1, payload |-> p])
  BY DEF Send
<1>2. /\ line = <<>> /\ whole' = TRUE /\ hunting' = (state \in {"sync1", "sync2"})
      /\ UNCHANGED <<state, got, damage>>
  BY DEF Send, fields
<1>3. sent \in Seq(Packet) /\ Len(sent) \in Nat
  BY DEF TypeOK, HistoryOK
<1>4. PICK q \in Packet : q = [cmd |-> c, seq |-> Len(sent) + 1, payload |-> p]
  <2>1. Len(sent) + 1 \in 1..MaxPackets
    BY <1>3, SentCount DEF Send
  <2> QED BY <2>1 DEF Packet
<1>5. q.cmd = c /\ q.seq = Len(sent) + 1 /\ q.payload = p
  BY <1>4
<1>6. line' = Bytes(q) /\ sent' = Append(sent, q)
  BY <1>1, <1>4, <1>5 DEF Bytes
<1>7. /\ sent' # <<>> /\ Len(sent') = Len(sent) + 1 /\ sent'[Len(sent')] = q
      /\ \A i \in DOMAIN sent' :
           \/ i \in DOMAIN sent /\ sent'[i] = sent[i]
           \/ i = Len(sent) + 1 /\ sent'[i] = q
  <2>1. /\ Len(sent') = Len(sent) + 1 /\ DOMAIN sent' = 1..Len(sent) + 1
        /\ DOMAIN sent = 1..Len(sent)
        /\ sent'[Len(sent) + 1] = q
        /\ \A i \in 1..Len(sent) : sent'[i] = sent[i]
    BY <1>3, <1>6
  <2>2. sent' # <<>> /\ sent'[Len(sent')] = q
    BY <1>3, <1>6, <2>1
  <2>3. ASSUME NEW i \in DOMAIN sent', i \notin DOMAIN sent PROVE i = Len(sent) + 1
    BY <1>3, <2>1, <2>3
  <2>4. ASSUME NEW i \in DOMAIN sent'
        PROVE  \/ i \in DOMAIN sent /\ sent'[i] = sent[i]
               \/ i = Len(sent) + 1 /\ sent'[i] = q
    <3>1. CASE i \in DOMAIN sent
      BY <2>1, <3>1
    <3>2. CASE i \notin DOMAIN sent
      BY <2>1, <2>3, <3>2
    <3> QED BY <3>1, <3>2
  <2> QED BY <2>1, <2>2, <2>4
<1>8. Len(q.payload) \in Nat /\ line' \in Seq(Byte) /\ Len(line') = Len(q.payload) + 8
  BY <1>4, <1>6, PackBytes, PacketFields
<1>9. At(q)' = 0 /\ Rest(q)'
  <2>1. At(q)' = 0
    BY <1>8 DEF At, Size
  <2>2. \A i \in 1..Len(line') : line'[i] = Bytes(q)[0 + i]
    BY <1>6
  <2> QED BY <1>8, <2>1, <2>2 DEF Rest, Size, Bytes
<1>10. hunting' => Along(q)'
  <2> SUFFICES ASSUME hunting' PROVE Along(q)'
    OBVIOUS
  <2>1. state' \in {"sync1", "sync2"}
    BY <1>2
  <2> DEFINE n == Len(q.payload)
  <2>2. /\ n \in Nat /\ 0 # n + 6 /\ 0 # n + 7 /\ 0 # n + 8
        /\ 0 \notin 3..n + 7 /\ 0 \notin 4..n + 7 /\ 0 \notin 6..n + 7 /\ 0 \notin 6..n + 5
    BY <1>8
  <2> HIDE DEF n
  <2> QED BY <1>9, <2>1, <2>2 DEF Along, n
<1>11. Follows'
  BY <1>7, <1>9, <1>10 DEF Follows, Rest, Along, At, Bytes, Size
<1>12. Numbered'
  BY <1>5, <1>7 DEF Delivery, Numbered
<1>13. Undamaged'
  <2>1. line' # <<>>
    BY <1>8
  <2> QED BY <1>2, <1>6, <1>7, <2>1 DEF Delivery, Undamaged
<1> QED BY <1>2, <1>11, <1>12, <1>13 DEF Delivery

\* A parsed byte of a packet the parser follows takes it along.
LEMMA ParseDelivers == ASSUME TypeOK, Delivery, ParseStep PROVE Delivery'
<1>1. line # <<>> /\ line' = Tail(line) /\ UNCHANGED history
  BY StepOf
<1>2. UNCHANGED <<sent, whole, hunting, damage>>
  BY <1>1 DEF history
<1>3. got' \in Seq(Handed)
  BY HandedType DEF Delivery
<1>4. Numbered'
  BY <1>2 DEF Delivery, Numbered
<1>5. CASE sent # <<>> /\ whole /\ hunting
  <2>1. PICK q \in Packet : q = sent[Len(sent)]
    BY <1>5, LastSent
  <2>2. Rest(q) /\ Along(q)
    BY <1>5, <2>1 DEF Delivery, Follows
  <2>3. /\ Rest(q)' /\ Along(q)'
        /\ got' = IF line' = <<>> THEN Append(got, q) ELSE got
    BY <2>2, AlongStep DEF Delivery, TypeOK
  <2>4. Follows'
    BY <1>2, <2>1, <2>3 DEF Follows, Rest, Along, At, Bytes, Size
  <2>5. line' = <<>> => state' = "sync1"
    <3>1. Len(q.payload) \in Nat
      BY PacketFields
    <3>2. line' = <<>> => At(q)' = Len(q.payload) + 8
      BY <3>1 DEF At, Size
    <3> QED BY <2>3, <3>2 DEF Along
  <2>6. Undamaged'
    BY <1>1, <1>2, <2>1, <2>3, <2>5 DEF Delivery, Undamaged
  <2> QED BY <1>3, <1>4, <2>4, <2>6 DEF Delivery
<1>6. CASE ~(sent # <<>> /\ whole /\ hunting)
  <2>1. damage # 0
    BY <1>1, <1>6 DEF Delivery, Undamaged
  <2> QED BY <1>2, <1>3, <1>4, <1>6, <2>1 DEF Delivery, Follows, Undamaged
<1> QED BY <1>5, <1>6

\* The invariant behind what is delivered, for every checksum function.
THEOREM Following == Spec => []Delivery
<1>1. Init => Delivery
  BY DEF Init, Delivery, Numbered, Follows, Undamaged
<1>2. TypeOK /\ Delivery /\ [Next]_vars => Delivery'
  <2> SUFFICES ASSUME TypeOK, Delivery, [Next]_vars PROVE Delivery'
    OBVIOUS
  <2>1. CASE Send
    BY <2>1, SendDelivers
  <2>2. CASE Damage \/ Noise
    <3>1. /\ whole' = FALSE /\ damage' = damage + 1 /\ UNCHANGED <<got, sent>>
          /\ damage \in Nat
      BY <2>2 DEF Damage, Noise, TypeOK, HistoryOK
    <3> QED BY <3>1 DEF Delivery, Numbered, Follows, Undamaged
  <2>3. CASE ParseStep
    BY <2>3, ParseDelivers
  <2>4. CASE UNCHANGED vars
    BY <2>4 DEF vars, fields, history, Delivery, Numbered, Follows, Undamaged,
       Rest, Along, At, Size, Bytes
  <2> QED BY <2>1, <2>2, <2>3, <2>4 DEF Next
<1> QED BY <1>1, <1>2, BufferSafe, PTL DEF Spec

\* usb_protocol.c:50-63.  A packet that arrives whole while the parser looks
\* for one is handed over, whatever noise came before, for every payload and
\* every checksum function.
THEOREM Delivered == Spec => []WholeDelivered
<1>1. TypeOK /\ Delivery => WholeDelivered
  <2> SUFFICES ASSUME TypeOK, Delivery, line = <<>>, sent # <<>>, whole, hunting
               PROVE  got # <<>> /\ got[Len(got)] = sent[Len(sent)]
    BY DEF WholeDelivered
  <2>1. PICK q \in Packet : q = sent[Len(sent)]
    BY LastSent
  <2>2. Along(q)
    BY <2>1 DEF Delivery, Follows
  <2>3. Len(q.payload) \in Nat
    BY PacketFields
  <2>4. At(q) = Len(q.payload) + 8
    BY <2>3 DEF At, Size
  <2> QED BY <2>1, <2>2, <2>4 DEF Along
<1> QED BY <1>1, BufferSafe, Following, PTL

\* usb_protocol.c:48-151.  On a stream that is not damaged the packets handed
\* over are those that were sent, in their order, and all of them once the line
\* is empty, whatever the payloads hold.
THEOREM CleanStream ==
  Spec => [](damage = 0 => OnlySent /\ (line = <<>> => got = sent))
<1>1. TypeOK /\ Delivery => (damage = 0 => OnlySent /\ (line = <<>> => got = sent))
  <2> SUFFICES ASSUME TypeOK, Delivery, damage = 0
               PROVE  OnlySent /\ (line = <<>> => got = sent)
    OBVIOUS
  <2>1. \A i \in DOMAIN got : i \in DOMAIN sent /\ got[i] = sent[i]
    BY DEF Delivery, Undamaged
  <2>2. \A i \in DOMAIN sent : sent[i].seq = i
    BY DEF Delivery, Numbered
  <2>3. line = <<>> => got = sent
    BY DEF Delivery, Undamaged
  <2> QED BY <2>1, <2>2, <2>3 DEF OnlySent
<1> QED BY <1>1, BufferSafe, Following, PTL

-----------------------------------------------------------------------------
(* How the parser finds its place again.                                    *)

\* The bytes it takes at most until it looks for a packet.
Needs ==
  IF state = "cmd" THEN MaxPayload + 6
  ELSE IF state = "seq" THEN MaxPayload + 5
  ELSE IF state = "lenmsb" THEN MaxPayload + 4
  ELSE IF state = "lenlsb" THEN MaxPayload + 3
  ELSE IF state = "payload" THEN len - idx + 2
  ELSE IF state = "crcmsb" THEN 2
  ELSE IF state = "crclsb" THEN 1
  ELSE 0

Lost == state \notin {"sync1", "sync2"}
Free1 == \A i \in 1..Len(line) : line[i] # Sync1

\* In a row of whole plain packets it either looks for a packet and finds no
\* beginning in what is left of this one, or it has swallowed all of the row and
\* no more than the longest packet it may think it is in.
Settling ==
  streak > 0 =>
    /\ whole /\ sent # <<>> /\ Plain(line)
    /\ ~hunting =>
         /\ 8 * (streak - 1) + 1 <= MaxPayload + 6
         /\ \/ state = "sync1" /\ Free1
            \/ Lost /\ 8 * streak + Needs <= MaxPayload + 6 + Len(line)

\* A parser that is in a packet needs a byte at least, and never more than the
\* longest packet has.
LEMMA NeedsBound == ASSUME KeptOK, Lost PROVE Needs \in 1..MaxPayload + 6
<1>1. MaxPayload \in Nat
  BY SizeAssumption
<1>2. state = "payload" => idx \in Nat /\ len \in Nat /\ idx < len /\ len <= MaxPayload
  BY <1>1 DEF KeptOK, Word
<1> QED BY <1>1, <1>2 DEF KeptOK, Lost, States, Needs

\* A byte takes it nearer.
LEMMA NeedsLess ==
  ASSUME KeptOK, Lost, ParseStep, byte \in 0..255
  PROVE  state' = "sync1" \/ (Lost' /\ Needs' \in Nat /\ Needs' <= Needs - 1)
<1>1. MaxPayload \in Nat
  BY SizeAssumption
<1>2. state = "payload" => idx \in Nat /\ len \in Nat /\ idx < len /\ len <= MaxPayload
  BY <1>1 DEF KeptOK, Word
<1>3. CASE state = "cmd"
  BY <1>1, <1>3, StepOf DEF ParseCmd, Lost, Needs
<1>4. CASE state = "seq"
  BY <1>1, <1>4, StepOf DEF ParseSeq, Lost, Needs
<1>5. CASE state = "lenmsb"
  BY <1>1, <1>5, StepOf DEF ParseLenMsb, Lost, Needs
<1>6. CASE state = "lenlsb"
  <2>1. /\ len' = len + byte /\ len' \in Nat
        /\ state' = IF len' > MaxPayload THEN "sync1"
                    ELSE IF len' = 0 THEN "crcmsb" ELSE "payload"
        /\ idx' = IF state' = "payload" THEN 0 ELSE idx
    BY <1>6, StepOf DEF ParseLenLsb, KeptOK, Word
  <2> QED BY <1>1, <1>6, <2>1 DEF Lost, Needs
<1>7. CASE state = "payload"
  <2>1. /\ idx' = idx + 1 /\ len' = len
        /\ state' = IF idx + 1 >= len THEN "crcmsb" ELSE "payload"
    BY <1>7, StepOf DEF ParsePayload
  <2> QED BY <1>2, <1>7, <2>1 DEF Lost, Needs
<1>8. CASE state = "crcmsb"
  BY <1>8, StepOf DEF ParseCrcMsb, Lost, Needs
<1>9. CASE state = "crclsb"
  BY <1>9, StepOf DEF ParseCrcLsb
<1> QED BY <1>3, <1>4, <1>5, <1>6, <1>7, <1>8, <1>9 DEF KeptOK, Lost, States

\* A packet has at least 8 bytes.
LEMMA SendSettles == ASSUME TypeOK, Delivery, Settling, Send PROVE Settling'
<1>1. /\ line = <<>> /\ sent \in Seq(Packet) /\ whole' = TRUE
      /\ streak' = IF Plain(line') THEN streak + 1 ELSE 0
      /\ hunting' = (state \in {"sync1", "sync2"}) /\ streak \in Nat
      /\ UNCHANGED <<state, len, idx>>
  BY DEF Send, TypeOK, HistoryOK, fields
<1>2. PICK c \in Cmds, p \in Payloads :
        /\ line' = Pack(c, Len(sent) + 1, p)
        /\ sent' = Append(sent, [cmd |-> c, seq |-> Len(sent) + 1, payload |-> p])
  BY DEF Send
<1>3. sent' # <<>> /\ Len(line') \in Nat /\ Len(line') >= 8
  <2>1. PICK q \in Packet : q = [cmd |-> c, seq |-> Len(sent) + 1, payload |-> p]
    <3>1. Len(sent) + 1 \in 1..MaxPackets
      BY <1>1, SentCount DEF Send
    <3> QED BY <3>1 DEF Packet
  <2>2. line' = Bytes(q) /\ sent' = Append(sent, q) /\ Len(q.payload) \in Nat
    BY <1>2, <2>1, PacketFields DEF Bytes
  <2>3. Len(line') = Len(q.payload) + 8
    BY <2>2, PackBytes
  <2> QED BY <1>1, <2>2, <2>3
<1>4. ASSUME streak' > 0, ~hunting'
      PROVE  /\ 8 * (streak' - 1) + 1 <= MaxPayload + 6
             /\ Lost' /\ 8 * streak' + Needs' <= MaxPayload + 6 + Len(line')
  <2>1. Lost /\ streak' = streak + 1 /\ Plain(line')
    <3>1. state \notin {"sync1", "sync2"}
      BY <1>1, <1>4, Zenon
    <3>2. Plain(line')
      BY <1>1, <1>4
    <3> QED BY <1>1, <3>1, <3>2 DEF Lost
  <2>2. Needs \in 1..MaxPayload + 6 /\ MaxPayload \in Nat
    BY <2>1, NeedsBound, SizeAssumption DEF TypeOK
  <2>3. Needs' = Needs /\ Lost'
    BY <1>1, <2>1 DEF Needs, Lost
  <2>4. 8 * streak + Needs <= MaxPayload + 6
    <3>1. CASE streak = 0
      BY <2>2, <3>1
    <3>2. CASE streak > 0
      <4>1. ~hunting
        <5> SUFFICES ASSUME hunting PROVE FALSE
          OBVIOUS
        <5>1. PICK q \in Packet : q = sent[Len(sent)]
          BY <3>2, LastSent DEF Settling
        <5>2. Along(q)
          BY <3>2, <5>1 DEF Settling, Delivery, Follows
        <5>3. Len(q.payload) \in Nat
          BY PacketFields
        <5>4. At(q) = Len(q.payload) + 8
          BY <1>1, <5>3 DEF At, Size
        <5> QED BY <2>1, <5>2, <5>4 DEF Along, Lost
      <4>2. Len(line) = 0
        BY <1>1
      <4> QED BY <2>1, <2>2, <3>2, <4>1, <4>2 DEF Settling, Lost
    <3> QED BY <1>1, <3>1, <3>2
  <2> QED BY <1>1, <1>3, <2>1, <2>2, <2>3, <2>4
<1>5. streak' > 0 => Plain(line')
  BY <1>1
<1>6. Plain(line') => Plain(line)'
  BY DEF Plain
<1> QED BY <1>1, <1>3, <1>4, <1>5, <1>6 DEF Settling

\* A byte of a packet keeps the bound.
LEMMA ParseSettles == ASSUME TypeOK, Settling, ParseStep PROVE Settling'
<1> SUFFICES ASSUME streak' > 0 PROVE Settling'
  BY DEF Settling
<1>1. line # <<>> /\ line' = Tail(line) /\ UNCHANGED <<sent, whole, streak, hunting>>
  BY StepOf DEF history
<1>2. /\ line \in Seq(Byte) /\ Len(line) \in Nat /\ Len(line) > 0
      /\ Len(line') = Len(line) - 1 /\ \A i \in 1..Len(line') : line'[i] = line[i + 1]
  BY <1>1 DEF TypeOK
<1>3. streak > 0 /\ streak \in Nat /\ whole /\ sent # <<>> /\ Plain(line)
  BY <1>1 DEF Settling, TypeOK, HistoryOK
<1>4. Free1'
  <2>1. ASSUME NEW i \in 1..Len(line') PROVE line'[i] # Sync1
    <3>1. i + 1 \in 2..Len(line) /\ line'[i] = line[i + 1]
      BY <1>2
    <3> QED BY <1>3, <3>1 DEF Plain
  <2> QED BY <2>1 DEF Free1, Sync1
<1>5. Plain(line)'
  <2>1. \A i \in 2..Len(line') : i \in 1..Len(line')
    BY <1>2
  <2> QED BY <1>4, <2>1 DEF Free1, Plain
<1>6. byte \in 0..255
  BY <1>1, ByteIsByte DEF TypeOK
<1>7. ASSUME ~hunting
      PROVE  \/ state' = "sync1"
             \/ Lost' /\ 8 * streak' + Needs' <= MaxPayload + 6 + Len(line')
  <2>1. CASE state = "sync1" /\ Free1
    <3>1. byte # Sync1
      <4>1. byte = line[1] /\ 1 \in 1..Len(line)
        BY <1>2 DEF byte
      <4> QED BY <2>1, <4>1 DEF Free1
    <3> QED BY <2>1, <3>1, StepOf DEF ParseSync1
  <2>2. CASE Lost /\ 8 * streak + Needs <= MaxPayload + 6 + Len(line)
    <3>1. state' = "sync1" \/ (Lost' /\ Needs' \in Nat /\ Needs' <= Needs - 1)
      BY <1>6, <2>2, NeedsLess DEF TypeOK
    <3>2. Needs \in Nat /\ MaxPayload \in Nat
      BY <2>2, NeedsBound, SizeAssumption DEF TypeOK
    <3> QED BY <1>1, <1>2, <1>3, <2>2, <3>1, <3>2
  <2> QED BY <1>3, <1>7, <2>1, <2>2 DEF Settling
<1>8. ~hunting => 8 * (streak - 1) + 1 <= MaxPayload + 6
  BY <1>3 DEF Settling
<1> QED BY <1>1, <1>3, <1>4, <1>5, <1>7, <1>8 DEF Settling

\* The bound behind the way back.
THEOREM Bounded == Spec => []Settling
<1>1. Init => Settling
  BY DEF Init, Settling
<1>2. TypeOK /\ Delivery /\ Settling /\ [Next]_vars => Settling'
  <2> SUFFICES ASSUME TypeOK, Delivery, Settling, [Next]_vars PROVE Settling'
    OBVIOUS
  <2>1. CASE Send
    BY <2>1, SendSettles
  <2>2. CASE Damage \/ Noise
    BY <2>2 DEF Damage, Noise, Settling
  <2>3. CASE ParseStep
    BY <2>3, ParseSettles
  <2>4. CASE UNCHANGED vars
    BY <2>4 DEF vars, fields, history, Settling, Plain, Free1, Lost, Needs
  <2> QED BY <2>1, <2>2, <2>3, <2>4 DEF Next
<1> QED BY <1>1, <1>2, BufferSafe, Following, PTL DEF Spec

\* usb_protocol.c:80-91, 130-147.  A parser that has lost its place has found it
\* again after as many whole packets without a first sync byte as it takes to
\* fill the longest packet it may think it is in, and the next one is handed
\* over.  For MaxPayload = 128 those are 17 packets.
THEOREM Recovered == Spec => [](8 * Shadow >= MaxPayload + 6 => Recovers)
<1>1. TypeOK /\ Settling /\ WholeDelivered => (8 * Shadow >= MaxPayload + 6 => Recovers)
  <2> SUFFICES ASSUME TypeOK, Settling, WholeDelivered, 8 * Shadow >= MaxPayload + 6,
                      line = <<>>, streak > Shadow
               PROVE  got # <<>> /\ got[Len(got)] = sent[Len(sent)]
    BY DEF Recovers
  <2>1. streak \in Nat /\ Shadow \in Nat /\ MaxPayload \in Nat
    BY SizeAssumption DEF TypeOK, HistoryOK
  <2>2. streak > 0 /\ whole /\ sent # <<>>
    BY <2>1 DEF Settling
  <2>3. ~hunting => 8 * (streak - 1) + 1 <= MaxPayload + 6
    BY <2>2 DEF Settling
  <2>4. hunting
    BY <2>1, <2>3 DEF TypeOK, HistoryOK
  <2> QED BY <2>2, <2>4 DEF WholeDelivered
<1> QED BY <1>1, BufferSafe, Bounded, Delivered, PTL
=============================================================================
