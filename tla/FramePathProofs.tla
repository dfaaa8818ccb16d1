---------------------------- MODULE FramePathProofs ----------------------------
(***************************************************************************)
(* The contents of frames in both directions, for all frames, commands,     *)
(* filters and depths: what is in a slot that waits agrees with what it was *)
(* written for, whatever the slot held before; the slots lie in rings; and  *)
(* a filter for standard frames selects what its command asks for.          *)
(***************************************************************************)
EXTENDS FramePath, TLAPS

-----------------------------------------------------------------------------
(* Lemmas about the codec (module FrameCodec).                              *)

\* The message object holds an identifier in two parts; put together again they
\* are the identifier cut to 29 bits (PackId of an extended frame).
LEMMA IdParts ==
  ASSUME NEW id \in Nat, NEW raw,
         raw = ((id \div 262144) % 2048) + (id % 262144) * 2048
  PROVE  raw \in Nat /\ (raw % 2048) * 262144 + ((raw \div 2048) % 262144) = id % 536870912
<1>1. PICK h : h = (id \div 262144) % 2048
  OBVIOUS
<1>2. PICK l : l = id % 262144
  OBVIOUS
<1>3. h \in Nat /\ h < 2048 /\ l \in Nat /\ l < 262144
  BY <1>1, <1>2
<1>4. h * 262144 + l = id % 536870912
  BY <1>1, <1>2
<1>5. raw = h + l * 2048
  BY <1>1, <1>2
<1>6. raw \in Nat /\ raw % 2048 = h /\ (raw \div 2048) % 262144 = l
  BY <1>3, <1>5, SMT
<1> QED BY <1>4, <1>6, SMT

\* The flags word: every bit is found where it was put, and the length code
\* beside them.
LEMMA FlagsWord ==
  ASSUME NEW x, x.ext \in BOOLEAN, x.rtr \in BOOLEAN, x.brs \in BOOLEAN, x.fd \in BOOLEAN,
         NEW dlc \in 0..15, NEW w,
         w = dlc + BitIf(x.ext, 16) + BitIf(x.rtr, 32) + BitIf(x.brs, 64) + BitIf(x.fd, 128)
  PROVE  /\ w % 16 = dlc
         /\ HasBit(w, 16) = x.ext /\ HasBit(w, 32) = x.rtr
         /\ HasBit(w, 64) = x.brs /\ HasBit(w, 128) = x.fd
  BY DEF BitIf, HasBit

\* The flags byte of the protocol.
LEMMA FlagsByte ==
  ASSUME NEW f, f.ext \in BOOLEAN, f.fd \in BOOLEAN, f.brs \in BOOLEAN, f.rtr \in BOOLEAN
  PROVE  /\ ProtoFlags(f) \in Nat
         /\ HasBit(ProtoFlags(f), 1) <=> f.ext
         /\ HasBit(ProtoFlags(f), 2) <=> f.fd
         /\ HasBit(ProtoFlags(f), 4) <=> f.brs
         /\ HasBit(ProtoFlags(f), 8) <=> f.rtr
  BY DEF ProtoFlags, BitIf, HasBit

\* The length code suffices and is the smallest one that does.
LEMMA LengthCode ==
  ASSUME NEW len \in 0..64
  PROVE  /\ len_to_dlc(len) \in 0..15
         /\ s_dlc_to_len[len_to_dlc(len)] \in 0..64
         /\ len <= s_dlc_to_len[len_to_dlc(len)]
         /\ \A d \in 0..15 : s_dlc_to_len[d] >= len => s_dlc_to_len[len_to_dlc(len)] <= s_dlc_to_len[d]
         /\ len <= 8 => len_to_dlc(len) = len
         /\ len > 8 => len_to_dlc(len) > 8
  BY DEF len_to_dlc, s_dlc_to_len

\* The words written cover the data; the code asks for more bytes than were
\* written only for these lengths.
LEMMA WordsWritten ==
  ASSUME NEW len \in 0..64
  PROVE  /\ WriteLen(len) \in Nat /\ len <= WriteLen(len)
         /\ s_dlc_to_len[len_to_dlc(len)] <= WriteLen(len)
              \/ len \in 25..28 \cup 33..44 \cup 49..60
  BY DEF len_to_dlc, s_dlc_to_len, WriteLen

LEMMA CodeLength == \A d \in 0..15 : s_dlc_to_len[d] \in 0..64 /\ (d <= 8 => s_dlc_to_len[d] = d)
                                     /\ (d > 8 => s_dlc_to_len[d] > 8)
  BY DEF s_dlc_to_len

-----------------------------------------------------------------------------
(* Slots.                                                                   *)

\* Header o and bytes ram are what transmit_frame wrote for command n, which is c.
Holds(o, ram, c, n) ==
  LET f == ParseTxFrame(c)
  IN  /\ o.by = n
      /\ o.raw = PackId(f.id, f.ext) /\ o.flags = ObjectFlags(f)
      /\ \A i \in Index : i < WriteLen(f.len) =>
                          ram[i] = IF i < f.has THEN Byte(n, i) ELSE Zero

\* A frame as it can be on the bus.
Wire(w) ==
  /\ w.ext \in BOOLEAN /\ w.fd \in BOOLEAN /\ w.brs \in BOOLEAN /\ w.rtr \in BOOLEAN
  /\ w.dlc \in 0..15
  /\ w.sid \in Nat /\ w.sid < SidSize /\ w.eid \in Nat /\ w.eid < EidSize
  /\ w.ext \/ w.eid = 0
  /\ DOMAIN w.data = 0..BusLen(w.fd, w.rtr, w.dlc)-1

\* Header o and bytes ram are those of frame o.w.
Keeps(o, ram) ==
  /\ Wire(o.w)
  /\ o.raw = o.w.sid + o.w.eid * SidSize
  /\ o.flags = o.w.dlc + BitIf(o.w.ext, 16) + BitIf(o.w.rtr, 32)
                       + BitIf(o.w.brs, 64) + BitIf(o.w.fd, 128)
  /\ \A i \in DOMAIN o.w.data : ram[i] = o.w.data[i]

\* Every command has numbers in its fields.
LEMMA CommandFields ==
  ASSUME NEW c \in Commands
  PROVE  c.id \in Nat /\ c.flags \in Nat /\ c.len \in Nat /\ c.has \in Nat
<1>1. CASE c \in OtherCommands
  BY <1>1, OtherAssumption
<1>2. ASSUME NEW f \in HostFrames, c = HostPack(f)
      PROVE  c.id \in Nat /\ c.flags \in Nat /\ c.len \in Nat /\ c.has \in Nat
  <2>1. f.id \in Nat /\ f.len \in 0..64
    BY HostAssumption
  <2>2. f.ext \in BOOLEAN /\ f.fd \in BOOLEAN /\ f.brs \in BOOLEAN /\ f.rtr \in BOOLEAN
    BY HostAssumption
  <2>3. ProtoFlags(f) \in Nat
    BY <2>2, FlagsByte
  <2> QED BY <1>2, <2>1, <2>3 DEF HostPack
<1> QED BY <1>1, <1>2 DEF Commands

\* The frame the device makes of any command is one it can send.
LEMMA ParsedFields ==
  ASSUME NEW c, c.id \in Nat, c.len \in Nat, c.has \in Nat
  PROVE  LET f == ParseTxFrame(c)
         IN  /\ f.id = c.id /\ f.len \in 0..64 /\ f.has \in 0..f.len
             /\ f.ext \in BOOLEAN /\ f.fd \in BOOLEAN
             /\ f.brs \in BOOLEAN /\ f.rtr \in BOOLEAN
             /\ f.ext <=> HasBit(c.flags, 1)
             /\ f.fd <=> HasBit(c.flags, 2)
             /\ f.brs <=> HasBit(c.flags, 4)
             /\ f.rtr <=> HasBit(c.flags, 8)
<1>1. \A w : HasBit(c.flags, w) \in BOOLEAN
  BY DEF HasBit
<1> QED BY <1>1 DEF ParseTxFrame

\* The identifier on the bus is the command's, cut to the width of its kind.
LEMMA IdSent ==
  ASSUME NEW f, f.id \in Nat, f.ext \in BOOLEAN, NEW raw, raw = PackId(f.id, f.ext),
         NEW sid, sid = raw % SidSize,
         NEW eid, eid = IF f.ext THEN (raw \div SidSize) % EidSize ELSE 0
  PROVE  /\ sid \in Nat /\ sid < SidSize /\ eid \in Nat /\ eid < EidSize
         /\ (IF f.ext THEN sid * EidSize + eid ELSE sid)
              = f.id % (IF f.ext THEN IdSize ELSE SidSize)
<1>1. CASE f.ext
  <2>1. raw = ((f.id \div 262144) % 2048) + (f.id % 262144) * 2048
    BY <1>1 DEF PackId, SidSize, EidSize
  <2>2. raw \in Nat /\ (raw % 2048) * 262144 + ((raw \div 2048) % 262144) = f.id % 536870912
    BY <2>1, IdParts
  <2>3. sid = raw % 2048 /\ eid = (raw \div 2048) % 262144
    BY <1>1 DEF SidSize, EidSize
  <2>4. sid * 262144 + eid = f.id % 536870912
    BY <2>2, <2>3
  <2>5. sid \in Nat /\ sid < 2048 /\ eid \in Nat /\ eid < 262144
    BY <2>2, <2>3, SMT
  <2>6. SidSize = 2048 /\ EidSize = 262144 /\ IdSize = 536870912
    BY DEF EidSize, IdSize, SidSize
  <2>7. sid \in Nat /\ sid < SidSize /\ eid \in Nat /\ eid < EidSize
    BY <2>5, <2>6, SMT
  <2>8. (IF f.ext THEN IdSize ELSE SidSize) = 536870912
    BY <1>1, <2>6, SMT
  <2>9. (IF f.ext THEN sid * EidSize + eid ELSE sid) = f.id % 536870912
    <3>1. (IF f.ext THEN sid * EidSize + eid ELSE sid) = sid * EidSize + eid
      BY <1>1, Zenon
    <3>2. EidSize = 262144
      BY <2>6, SMT
    <3>3. sid * EidSize + eid = sid * 262144 + eid
      BY <3>2, SMT
    <3> QED BY <2>4, <3>1, <3>3, SMT
  <2> QED BY <2>7, <2>8, <2>9, SMT
<1>2. CASE ~f.ext
  <2>1. SidSize = 2048 /\ EidSize = 262144
    BY DEF EidSize, SidSize
  <2>2. raw = f.id /\ sid = f.id % SidSize /\ eid = 0
    BY <1>2, SMT DEF PackId
  <2> QED BY <1>2, <2>1, <2>2, SMT
<1> QED BY <1>1, <1>2, SMT

\* The frame the controller makes of a slot that holds command c.
LEMMA SlotSent ==
  ASSUME NEW c \in Commands, NEW n, NEW o, NEW ram, Holds(o, ram, c, n)
  PROVE  LET w == OnBus(o, ram)
         IN  /\ w.by = n /\ Wire(w)
             /\ AsAsked(w, c) /\ OwnData(w, ParseTxFrame(c), n)
<1> DEFINE w == OnBus(o, ram)
           f == ParseTxFrame(c)
           dlc == len_to_dlc(f.len)
<1>1. c.id \in Nat /\ c.flags \in Nat /\ c.len \in Nat /\ c.has \in Nat
  BY CommandFields
<1>2. /\ f.id = c.id /\ f.len \in 0..64 /\ f.has \in 0..f.len
      /\ f.ext \in BOOLEAN /\ f.fd \in BOOLEAN
      /\ f.brs \in BOOLEAN /\ f.rtr \in BOOLEAN
      /\ f.ext <=> HasBit(c.flags, 1)
      /\ f.fd <=> HasBit(c.flags, 2)
      /\ f.brs <=> HasBit(c.flags, 4)
      /\ f.rtr <=> HasBit(c.flags, 8)
  BY <1>1, ParsedFields
<1>3. o.by = n /\ o.raw = PackId(f.id, f.ext) /\ o.flags = ObjectFlags(f)
  BY DEF Holds
<1>4. \A i \in Index : i < WriteLen(f.len) => ram[i] = IF i < f.has THEN Byte(n, i) ELSE Zero
  BY DEF Holds
<1> HIDE DEF f
<1>5. /\ dlc \in 0..15 /\ s_dlc_to_len[dlc] \in 0..64 /\ f.len <= s_dlc_to_len[dlc]
      /\ \A d \in 0..15 : s_dlc_to_len[d] >= f.len => s_dlc_to_len[dlc] <= s_dlc_to_len[d]
      /\ f.len <= 8 => dlc = f.len
      /\ f.len > 8 => dlc > 8
      /\ WriteLen(f.len) \in Nat /\ f.len <= WriteLen(f.len)
      /\ s_dlc_to_len[dlc] <= WriteLen(f.len) \/ f.len \in 25..28 \cup 33..44 \cup 49..60
  BY <1>2, LengthCode, WordsWritten, Zenon
<1>6. /\ o.flags % 16 = dlc
      /\ HasBit(o.flags, 16) = f.ext /\ HasBit(o.flags, 32) = f.rtr
      /\ HasBit(o.flags, 64) = f.brs /\ HasBit(o.flags, 128) = f.fd
  <2>1. o.flags = dlc + BitIf(f.ext, 16) + BitIf(f.rtr, 32) + BitIf(f.brs, 64)
                      + BitIf(f.fd, 128)
    BY <1>3, Zenon DEF ObjectFlags
  <2> HIDE DEF dlc
  <2> QED BY <1>2, <1>5, <2>1, FlagsWord, SMT
<1>7. /\ w.by = n /\ w.ext = f.ext /\ w.fd = f.fd /\ w.rtr = (f.rtr /\ ~f.fd)
      /\ w.brs = (f.brs /\ f.fd) /\ w.dlc = dlc
      /\ w.sid = o.raw % SidSize
      /\ w.eid = IF f.ext THEN (o.raw \div SidSize) % EidSize ELSE 0
      /\ w.data = [i \in 0..BusLen(f.fd, f.rtr /\ ~f.fd, dlc)-1 |-> ram[i]]
  <2>1. /\ w.by = o.by /\ w.ext = HasBit(o.flags, 16) /\ w.fd = HasBit(o.flags, 128)
        /\ w.rtr = (HasBit(o.flags, 32) /\ ~HasBit(o.flags, 128))
        /\ w.brs = (HasBit(o.flags, 64) /\ HasBit(o.flags, 128))
        /\ w.dlc = o.flags % 16 /\ w.sid = o.raw % SidSize
        /\ w.eid = IF HasBit(o.flags, 16) THEN (o.raw \div SidSize) % EidSize ELSE 0
        /\ w.data = [i \in 0..BusLen(HasBit(o.flags, 128),
                                     HasBit(o.flags, 32) /\ ~HasBit(o.flags, 128),
                                     o.flags % 16)-1 |-> ram[i]]
    BY DEF OnBus
  <2> HIDE DEF w, dlc
  <2>2. w.by = n /\ w.ext = f.ext /\ w.fd = f.fd /\ w.dlc = dlc /\ w.sid = o.raw % SidSize
    BY <1>3, <1>6, <2>1, ZenonT(40)
  <2>3. w.rtr = (f.rtr /\ ~f.fd) /\ w.brs = (f.brs /\ f.fd)
    BY <1>6, <2>1, SMT
  <2>4. w.eid = IF f.ext THEN (o.raw \div SidSize) % EidSize ELSE 0
    BY <1>6, <2>1, SMT
  <2>5. w.data = [i \in 0..BusLen(f.fd, f.rtr /\ ~f.fd, dlc)-1 |-> ram[i]]
    BY <1>6, <2>1, SMT
  <2> QED BY <2>2, <2>3, <2>4, <2>5, Zenon
<1> HIDE DEF w, dlc
<1>8. /\ w.sid \in Nat /\ w.sid < SidSize /\ w.eid \in Nat /\ w.eid < EidSize
      /\ (IF f.ext THEN w.sid * EidSize + w.eid ELSE w.sid)
           = f.id % (IF f.ext THEN IdSize ELSE SidSize)
  BY <1>1, <1>2, <1>3, <1>7, IdSent, SMT
<1>9. Wire(w)
  BY <1>2, <1>5, <1>7, <1>8 DEF Wire
<1>10. AsAsked(w, c)
  BY <1>2, <1>7, <1>8 DEF AsAsked, BusId
<1>11. OwnData(w, f, n)
  <2> DEFINE len == BusLen(f.fd, f.rtr /\ ~f.fd, dlc)
  <2>1. /\ f.fd => len = s_dlc_to_len[dlc]
        /\ ~f.fd /\ f.rtr => len = 0
        /\ ~f.fd /\ ~f.rtr => len = IF dlc > 8 THEN 8 ELSE dlc
    BY DEF BusLen
  <2>2. len \in 0..64 /\ (len <= WriteLen(f.len) \/ f.fd)
    BY <1>2, <1>5, <2>1, SMT
  <2>3. DOMAIN w.data = 0..len-1 /\ \A i \in 0..len-1 : w.data[i] = ram[i]
    BY <1>7
  <2> HIDE DEF len
  <2>4. f.fd => /\ 0..f.len-1 \subseteq 0..len-1
                /\ \A d \in 0..15 : s_dlc_to_len[d] >= f.len => 0..len-1 \subseteq 0..s_dlc_to_len[d]-1
    <3> SUFFICES ASSUME f.fd
                 PROVE  /\ 0..f.len-1 \subseteq 0..len-1
                        /\ \A d \in 0..15 : s_dlc_to_len[d] >= f.len =>
                                              0..len-1 \subseteq 0..s_dlc_to_len[d]-1
      OBVIOUS
    <3>1. len = s_dlc_to_len[dlc]
      BY <2>1
    <3>2. 0..f.len-1 \subseteq 0..len-1
      BY <1>2, <1>5, <3>1
    <3>3. ASSUME NEW d \in 0..15, s_dlc_to_len[d] >= f.len
          PROVE  0..len-1 \subseteq 0..s_dlc_to_len[d]-1
      <4>1. len <= s_dlc_to_len[d] /\ s_dlc_to_len[d] \in 0..64
        BY <1>5, <3>1, <3>3, CodeLength
      <4> QED BY <2>2, <4>1
    <3> QED BY <3>2, <3>3
  <2>5. ~f.fd /\ ~f.rtr => \A i \in 0..7 : i < f.len => i \in 0..len-1
    BY <1>2, <1>5, <2>1, SMT
  <2>6. \A i \in 0..len-1 : i < WriteLen(f.len) =>
          w.data[i] = IF i < f.has THEN Byte(n, i) ELSE Zero
    <3> SUFFICES ASSUME NEW i \in 0..len-1, i < WriteLen(f.len)
                 PROVE  w.data[i] = IF i < f.has THEN Byte(n, i) ELSE Zero
      OBVIOUS
    <3>1. i \in Index
      BY <2>2, SMT DEF Index
    <3>2. ram[i] = IF i < f.has THEN Byte(n, i) ELSE Zero
      BY <1>4, <3>1, Zenon
    <3> QED BY <2>3, <3>2, Zenon
  <2>7. \A i \in 0..len-1 : w.data[i] \notin {Zero, Byte(n, i)} =>
          f.len \in 25..28 \cup 33..44 \cup 49..60
    <3> SUFFICES ASSUME NEW i \in 0..len-1, w.data[i] \notin {Zero, Byte(n, i)}
                 PROVE  f.len \in 25..28 \cup 33..44 \cup 49..60
      OBVIOUS
    <3>1. i \in Nat /\ i < len /\ i >= WriteLen(f.len)
      BY <1>5, <2>2, <2>6
    <3>2. f.fd /\ len = s_dlc_to_len[dlc]
      BY <1>5, <2>1, <2>2, <3>1, SMT
    <3> QED BY <1>5, <2>2, <3>1, <3>2, SMT
  <2> QED BY <1>7, <2>3, <2>4, <2>5, <2>6, <2>7 DEF OwnData
<1> QED BY <1>7, <1>9, <1>10, <1>11 DEF f, w

\* What the host reads in the message made of a slot of RX FIFO 1.
LEMMA SlotShown ==
  ASSUME NEW o, NEW ram, Keeps(o, ram)
  PROVE  LET m == HostUnpack(SerializeRx(Decode(o)))
         IN  SaysWhatItWas(m, HostData(ram, m), o.w)
<1> DEFINE w == o.w
           d == Decode(o)
           m == HostUnpack(SerializeRx(d))
<1>1. /\ w.ext \in BOOLEAN /\ w.fd \in BOOLEAN /\ w.brs \in BOOLEAN /\ w.rtr \in BOOLEAN
      /\ w.dlc \in 0..15
      /\ w.sid \in Nat /\ w.sid < SidSize /\ w.eid \in Nat /\ w.eid < EidSize
      /\ w.ext \/ w.eid = 0
      /\ DOMAIN w.data = 0..BusLen(w.fd, w.rtr, w.dlc)-1
  BY DEF Keeps, Wire
<1>2. /\ o.raw = w.sid + w.eid * SidSize
      /\ o.flags = w.dlc + BitIf(w.ext, 16) + BitIf(w.rtr, 32)
                         + BitIf(w.brs, 64) + BitIf(w.fd, 128)
      /\ \A i \in DOMAIN w.data : ram[i] = w.data[i]
  BY DEF Keeps
<1> HIDE DEF w
<1>3. /\ o.flags % 16 = w.dlc
      /\ HasBit(o.flags, 16) = w.ext /\ HasBit(o.flags, 32) = w.rtr
      /\ HasBit(o.flags, 64) = w.brs /\ HasBit(o.flags, 128) = w.fd
  <2>1. w.ext \in BOOLEAN /\ w.rtr \in BOOLEAN /\ w.brs \in BOOLEAN /\ w.fd \in BOOLEAN
        /\ w.dlc \in 0..15
    BY <1>1
  <2>2. o.flags = w.dlc + BitIf(w.ext, 16) + BitIf(w.rtr, 32)
                        + BitIf(w.brs, 64) + BitIf(w.fd, 128)
    BY <1>2
  <2> QED BY <2>1, <2>2, FlagsWord, SMT
<1>4. UnpackId(o.raw, w.ext) = IF w.ext THEN w.sid * EidSize + w.eid ELSE w.sid
  <2>1. SidSize = 2048 /\ EidSize = 262144
    BY DEF SidSize, EidSize
  <2>2. CASE w.ext
    <3>1. o.raw = w.sid + w.eid * 2048
      BY <1>2, <2>1, SMT
    <3>2. w.sid \in Nat /\ w.sid < 2048 /\ w.eid \in Nat /\ w.eid < 262144
      BY <1>1, <2>1, SMT
    <3>3. o.raw % 2048 = w.sid /\ (o.raw \div 2048) % 262144 = w.eid
      <4>1. PICK x : x = w.sid
        OBVIOUS
      <4>2. PICK y : y = w.eid
        OBVIOUS
      <4>3. x \in Nat /\ x < 2048 /\ y \in Nat /\ y < 262144 /\ o.raw = x + y * 2048
        BY <3>1, <3>2, <4>1, <4>2, SMT
      <4>4. o.raw % 2048 = x /\ (o.raw \div 2048) % 262144 = y
        BY <4>3, SMT
      <4> QED BY <4>1, <4>2, <4>4, SMT
    <3>4. UnpackId(o.raw, w.ext) = w.eid + w.sid * 262144
      BY <2>1, <2>2, <3>3, SMT DEF UnpackId
    <3>5. w.sid * EidSize + w.eid = w.eid + w.sid * 262144
      BY <1>1, <2>1, SMT
    <3>6. UnpackId(o.raw, w.ext) = w.sid * EidSize + w.eid
      BY <3>4, <3>5, SMT
    <3> QED BY <2>2, <3>6, Zenon
  <2>3. CASE ~w.ext
    <3>1. o.raw = w.sid
      BY <1>1, <1>2, <2>1, <2>3, SMT
    <3>2. UnpackId(o.raw, w.ext) = o.raw % 2048
      BY <2>1, <2>3, SMT DEF UnpackId
    <3> QED BY <1>1, <2>1, <2>3, <3>1, <3>2, SMT
  <2> QED BY <2>2, <2>3, Zenon
<1>5. /\ d.id = UnpackId(o.raw, w.ext)
      /\ d.ext = w.ext /\ d.fd = w.fd /\ d.brs = w.brs /\ d.rtr = w.rtr
      /\ d.len = s_dlc_to_len[w.dlc]
  <2>1. /\ d.id = UnpackId(o.raw, HasBit(o.flags, 16))
        /\ d.ext = HasBit(o.flags, 16) /\ d.fd = HasBit(o.flags, 128)
        /\ d.brs = HasBit(o.flags, 64) /\ d.rtr = HasBit(o.flags, 32)
        /\ d.len = s_dlc_to_len[o.flags % 16]
    BY DEF Decode
  <2> HIDE DEF d
  <2> QED BY <1>3, <2>1, Zenon
<1> HIDE DEF d
<1>6. /\ m.id = d.id /\ m.len = d.len
      /\ m.ext = d.ext /\ m.fd = d.fd /\ m.brs = d.brs /\ m.rtr = d.rtr
  <2>1. /\ m.id = d.id /\ m.len = d.len
        /\ m.ext = HasBit(ProtoFlags(d), 1) /\ m.fd = HasBit(ProtoFlags(d), 2)
        /\ m.brs = HasBit(ProtoFlags(d), 4) /\ m.rtr = HasBit(ProtoFlags(d), 8)
    BY DEF SerializeRx, HostUnpack
  <2>2. d.ext \in BOOLEAN /\ d.fd \in BOOLEAN /\ d.brs \in BOOLEAN /\ d.rtr \in BOOLEAN
    BY <1>1, <1>5, Zenon
  <2>3. /\ HasBit(ProtoFlags(d), 1) <=> d.ext
        /\ HasBit(ProtoFlags(d), 2) <=> d.fd
        /\ HasBit(ProtoFlags(d), 4) <=> d.brs
        /\ HasBit(ProtoFlags(d), 8) <=> d.rtr
    BY <2>2, FlagsByte
  <2>4. \A x : HasBit(ProtoFlags(d), x) \in BOOLEAN
    BY DEF HasBit
  <2> HIDE DEF m
  <2> QED BY <2>1, <2>2, <2>3, <2>4, SMT
<1> HIDE DEF m
<1>7. m.id = BusId(w) /\ m.len = s_dlc_to_len[w.dlc]
      /\ <<m.ext, m.fd, m.brs, m.rtr>> = <<w.ext, w.fd, w.brs, w.rtr>>
  BY <1>4, <1>5, <1>6, Zenon DEF BusId
<1>8. ASSUME NEW i \in DOMAIN w.data
      PROVE  i < m.len /\ HostData(ram, m)[i] = w.data[i]
  <2> DEFINE len == BusLen(w.fd, w.rtr, w.dlc)
  <2>1. len \in Nat /\ len <= s_dlc_to_len[w.dlc] /\ s_dlc_to_len[w.dlc] \in 0..64
    <3>1. w.dlc \in 0..15 /\ s_dlc_to_len[w.dlc] \in 0..64
          /\ (w.dlc <= 8 => s_dlc_to_len[w.dlc] = w.dlc)
          /\ (w.dlc > 8 => s_dlc_to_len[w.dlc] > 8)
      BY <1>1, CodeLength
    <3>2. len \in {s_dlc_to_len[w.dlc], 0, IF w.dlc > 8 THEN 8 ELSE w.dlc}
      BY DEF BusLen
    <3> HIDE DEF len
    <3> QED BY <3>1, <3>2, SMT
  <2>2. i \in 0..len-1
    BY <1>1, <1>8, Zenon
  <2> HIDE DEF len
  <2>3. i < m.len /\ i \in 0..m.len-1
    BY <1>7, <2>1, <2>2, SMT
  <2>4. HostData(ram, m)[i] = ram[i]
    BY <2>3, Zenon DEF HostData
  <2> QED BY <1>2, <1>8, <2>3, <2>4, Zenon
<1> QED BY <1>7, <1>8 DEF SaysWhatItWas, m, d, w

-----------------------------------------------------------------------------
(* The invariant.                                                           *)

Slots(n) == 0..n-1

Fields ==
  /\ cmds \in Seq(Commands) /\ arrivals \in Nat /\ txAbt \in BOOLEAN
  /\ txNext \in Slots(TxSlots) /\ rxNext \in Slots(RxSlots)
  /\ txFifo \in Seq(Slots(TxSlots)) /\ rxFifo \in Seq(Slots(RxSlots))
  /\ DOMAIN txObj = Slots(TxSlots) /\ DOMAIN txRam = Slots(TxSlots)
  /\ DOMAIN rxObj = Slots(RxSlots) /\ DOMAIN rxRam = Slots(RxSlots)

\* A slot that waits to be sent holds the command it is numbered with.
TxHeld ==
  \A k \in DOMAIN txFifo : \E n \in DOMAIN cmds :
    Holds(txObj[txFifo[k]], txRam[txFifo[k]], cmds[n], n)

\* A slot that waits to be read holds the frame it was written for.
RxHeld == \A k \in DOMAIN rxFifo : Keeps(rxObj[rxFifo[k]], rxRam[rxFifo[k]])

\* What was sent last is what its command asked for.
BusRight ==
  bus # NoFrame =>
    \E n \in DOMAIN cmds : /\ bus.by = n /\ AsAsked(bus, cmds[n])
                          /\ OwnData(bus, ParseTxFrame(cmds[n]), n)

IInv == Fields /\ TxHeld /\ RxHeld /\ BusRight /\ ShownAsReceived

\* The slot after a slot, around the ring.
LEMMA NextSlot ==
  ASSUME NEW n \in Nat \ {0}, NEW k \in Slots(n)
  PROVE  (k + 1) % n \in Slots(n) /\ 0 \in Slots(n)
  BY DEF Slots

\* The controller stores a frame that can be on the bus in a free slot, whose
\* old contents do not matter, or drops it.
LEMMA StoreHeld ==
  ASSUME Fields, RxHeld, NEW w, Wire(w), Store(w)
  PROVE  /\ rxNext' \in Slots(RxSlots) /\ rxFifo' \in Seq(Slots(RxSlots))
         /\ DOMAIN rxObj' = Slots(RxSlots) /\ DOMAIN rxRam' = Slots(RxSlots)
         /\ RxHeld'
<1> USE DEF Fields
<1>1. CASE UNCHANGED <<rxObj, rxRam, rxFifo, rxNext>>
  BY <1>1 DEF RxHeld
<1>2. ASSUME NEW obj, NEW ram,
             obj.w = w, obj.raw = w.sid + w.eid * SidSize,
             obj.flags = w.dlc + BitIf(w.ext, 16) + BitIf(w.rtr, 32)
                               + BitIf(w.brs, 64) + BitIf(w.fd, 128),
             \A i \in DOMAIN w.data : ram[i] = w.data[i],
             rxObj' = [rxObj EXCEPT ![rxNext] = obj],
             rxRam' = [rxRam EXCEPT ![rxNext] = ram],
             rxFifo' = Append(rxFifo, rxNext), rxNext' = (rxNext + 1) % RxSlots
      PROVE  /\ rxNext' \in Slots(RxSlots) /\ rxFifo' \in Seq(Slots(RxSlots))
             /\ DOMAIN rxObj' = Slots(RxSlots) /\ DOMAIN rxRam' = Slots(RxSlots)
             /\ RxHeld'
  <2>1. Keeps(obj, ram)
    BY <1>2, Zenon DEF Keeps
  <2>2. rxNext' \in Slots(RxSlots)
    BY <1>2, NextSlot, DepthAssumption
  <2>3. rxFifo' \in Seq(Slots(RxSlots))
    BY <1>2
  <2>4. DOMAIN rxObj' = Slots(RxSlots) /\ DOMAIN rxRam' = Slots(RxSlots)
    BY <1>2
  <2>5. ASSUME NEW k \in DOMAIN rxFifo'
        PROVE  Keeps(rxObj'[rxFifo'[k]], rxRam'[rxFifo'[k]])
    <3>1. rxFifo'[k] = rxNext \/ (k \in DOMAIN rxFifo /\ rxFifo'[k] = rxFifo[k])
      BY <1>2
    <3>2. rxObj'[rxNext] = obj /\ rxRam'[rxNext] = ram
      BY <1>2
    <3>3. \A s \in Slots(RxSlots) : s # rxNext => rxObj'[s] = rxObj[s] /\ rxRam'[s] = rxRam[s]
      BY <1>2
    <3>4. CASE rxFifo'[k] = rxNext
      BY <2>1, <3>2, <3>4, Zenon
    <3>5. CASE rxFifo'[k] # rxNext
      <4>1. k \in DOMAIN rxFifo /\ rxFifo'[k] = rxFifo[k]
        BY <3>1, <3>5
      <4>2. rxFifo[k] \in Slots(RxSlots)
        BY <4>1
      <4> QED BY <3>3, <3>5, <4>1, <4>2, Zenon DEF RxHeld
    <3> QED BY <3>4, <3>5
  <2> QED BY <2>2, <2>3, <2>4, <2>5 DEF RxHeld
<1>3. CASE Accepts(w) /\ Len(rxFifo) < RxSlots
  <2> DEFINE obj == [w |-> w, raw |-> w.sid + w.eid * SidSize,
                     flags |-> w.dlc + BitIf(w.ext, 16) + BitIf(w.rtr, 32)
                                     + BitIf(w.brs, 64) + BitIf(w.fd, 128)]
             ram == [i \in Index |-> IF i \in DOMAIN w.data THEN w.data[i] ELSE rxRam[rxNext][i]]
  <2>1. /\ rxObj' = [rxObj EXCEPT ![rxNext] = obj]
        /\ rxRam' = [rxRam EXCEPT ![rxNext] = ram]
        /\ rxFifo' = Append(rxFifo, rxNext) /\ rxNext' = (rxNext + 1) % RxSlots
    BY <1>3 DEF Store
  <2>2. /\ obj.w = w /\ obj.raw = w.sid + w.eid * SidSize
        /\ obj.flags = w.dlc + BitIf(w.ext, 16) + BitIf(w.rtr, 32)
                              + BitIf(w.brs, 64) + BitIf(w.fd, 128)
    OBVIOUS
  <2>3. \A i \in DOMAIN w.data : i \in Index
    <3>1. DOMAIN w.data = 0..BusLen(w.fd, w.rtr, w.dlc)-1 /\ w.dlc \in 0..15
      BY DEF Wire
    <3>2. PICK len : len = BusLen(w.fd, w.rtr, w.dlc)
      OBVIOUS
    <3>3. len = s_dlc_to_len[w.dlc] \/ len = 0 \/ len = 8 \/ len = w.dlc
      BY <3>2 DEF BusLen
    <3>4. s_dlc_to_len[w.dlc] \in 0..64
      BY <3>1, CodeLength
    <3>5. len \in 0..64
      <4>1. w.dlc \in 0..15
        BY <3>1
      <4>2. w.dlc \in 0..64 /\ 0 \in 0..64 /\ 8 \in 0..64
        BY <4>1
      <4> QED BY <3>3, <3>4, <4>2, Zenon
    <3>6. DOMAIN w.data = 0..len-1
      BY <3>1, <3>2
    <3>7. 0..len-1 \subseteq 0..63
      BY <3>5
    <3> QED BY <3>6, <3>7 DEF Index
  <2>4. \A i \in DOMAIN w.data : ram[i] = w.data[i]
    BY <2>3
  <2> HIDE DEF obj, ram
  <2> QED BY <1>2, <2>1, <2>2, <2>4
<1> QED BY <1>1, <1>3 DEF Store

USE DEF txVars, rxVars, filterVars, vars

\* Writing a command into the slot at the user address and queueing the slot.
LEMMA TransmitStep ==
  ASSUME Fields, TxHeld, BusRight, NEW c \in Commands, Transmit(c)
  PROVE  /\ cmds' \in Seq(Commands) /\ txAbt' \in BOOLEAN
         /\ txNext' \in Slots(TxSlots) /\ txFifo' \in Seq(Slots(TxSlots))
         /\ DOMAIN txObj' = Slots(TxSlots) /\ DOMAIN txRam' = Slots(TxSlots)
         /\ TxHeld' /\ BusRight'
<1> USE DEF Fields
<1> DEFINE f == ParseTxFrame(c)
           n == Len(cmds) + 1
           obj == [by |-> n, raw |-> PackId(f.id, f.ext), flags |-> ObjectFlags(f)]
           ram == WriteObject(txRam[TxSlot], n, f)
           waiting == IF txAbt THEN <<>> ELSE txFifo
<1>1. /\ cmds' = Append(cmds, c)
      /\ txObj' = [txObj EXCEPT ![TxSlot] = obj]
      /\ txRam' = [txRam EXCEPT ![TxSlot] = ram]
      /\ txFifo' = Append(waiting, TxSlot)
      /\ txNext' = (TxSlot + 1) % TxSlots
      /\ txAbt' = FALSE /\ bus' = bus
  BY DEF Transmit
<1>2. Holds(obj, ram, c, n)
  BY Zenon DEF Holds, WriteObject
<1>3. TxSlot \in Slots(TxSlots)
  BY NextSlot, DepthAssumption DEF TxSlot
<1> HIDE DEF f, obj, ram
<1>4. waiting \in Seq(Slots(TxSlots)) /\ \A k \in DOMAIN waiting : k \in DOMAIN txFifo /\ waiting[k] = txFifo[k]
  OBVIOUS
<1> HIDE DEF waiting
<1>5. cmds' \in Seq(Commands) /\ txAbt' \in BOOLEAN /\ txFifo' \in Seq(Slots(TxSlots))
  <2>1. cmds' \in Seq(Commands)
    BY <1>1
  <2>2. txFifo' \in Seq(Slots(TxSlots))
    BY <1>1, <1>3, <1>4
  <2>3. txAbt' \in BOOLEAN
    BY <1>1
  <2> QED BY <2>1, <2>2, <2>3
<1>6. txNext' \in Slots(TxSlots)
  BY <1>1, <1>3, NextSlot, DepthAssumption
<1>7. DOMAIN txObj' = Slots(TxSlots) /\ DOMAIN txRam' = Slots(TxSlots)
  BY <1>1
<1>8. /\ n \in DOMAIN cmds' /\ cmds'[n] = c
      /\ \A m \in DOMAIN cmds : m \in DOMAIN cmds' /\ cmds'[m] = cmds[m]
  BY <1>1
<1>9. ASSUME NEW k \in DOMAIN txFifo'
      PROVE  \E m \in DOMAIN cmds' : Holds(txObj'[txFifo'[k]], txRam'[txFifo'[k]], cmds'[m], m)
  <2>1. txFifo'[k] = TxSlot \/ (k \in DOMAIN waiting /\ txFifo'[k] = waiting[k])
    BY <1>1, <1>4
  <2>2. txObj'[TxSlot] = obj /\ txRam'[TxSlot] = ram
    BY <1>1, <1>3
  <2>3. \A s \in Slots(TxSlots) : s # TxSlot => txObj'[s] = txObj[s] /\ txRam'[s] = txRam[s]
    BY <1>1
  <2>4. CASE txFifo'[k] = TxSlot
    BY <1>2, <1>8, <2>2, <2>4, Zenon
  <2>5. CASE txFifo'[k] # TxSlot
    <3>1. k \in DOMAIN txFifo /\ txFifo'[k] = txFifo[k]
      BY <1>4, <2>1, <2>5
    <3>2. txFifo[k] \in Slots(TxSlots)
      BY <3>1
    <3>3. PICK m \in DOMAIN cmds : Holds(txObj[txFifo[k]], txRam[txFifo[k]], cmds[m], m)
      BY <3>1 DEF TxHeld
    <3> QED BY <1>8, <2>3, <2>5, <3>1, <3>2, <3>3, Zenon
  <2> QED BY <2>4, <2>5
<1>10. TxHeld'
  BY <1>9 DEF TxHeld
<1>11. BusRight'
  BY <1>1, <1>8, Zenon DEF BusRight
<1> QED BY <1>5, <1>6, <1>7, <1>10, <1>11

\* The frame that is sent next is what its slot holds; it may come back.
LEMMA SendStep ==
  ASSUME IInv, ChipSends
  PROVE  IInv'
<1> USE DEF Fields
<1> DEFINE s == Head(txFifo)
           w == OnBus(txObj[s], txRam[s])
<1>1. /\ txFifo # <<>> /\ txFifo' = Tail(txFifo) /\ bus' = w
      /\ Store(w) \/ UNCHANGED <<rxObj, rxRam, rxFifo, rxNext>>
      /\ UNCHANGED <<cmds, txRam, txObj, txNext, txAbt, arrivals, shown>>
  BY DEF ChipSends
<1>2. Fields /\ TxHeld /\ RxHeld /\ ShownAsReceived
  BY DEF IInv
<1>3. 1 \in DOMAIN txFifo /\ s = txFifo[1]
  BY <1>1, <1>2
<1>4. PICK n \in DOMAIN cmds : Holds(txObj[s], txRam[s], cmds[n], n)
  BY <1>2, <1>3 DEF TxHeld
<1>5. cmds[n] \in Commands
  BY <1>2, <1>4
<1>6. w.by = n /\ Wire(w) /\ AsAsked(w, cmds[n]) /\ OwnData(w, ParseTxFrame(cmds[n]), n)
  BY <1>4, <1>5, SlotSent
<1> HIDE DEF s, w
<1>7. BusRight'
  BY <1>1, <1>4, <1>6, Zenon DEF BusRight
<1>8. /\ txFifo' \in Seq(Slots(TxSlots))
      /\ \A k \in DOMAIN txFifo' : k + 1 \in DOMAIN txFifo /\ txFifo'[k] = txFifo[k + 1]
  BY <1>1, <1>2
<1>9. TxHeld'
  <2> SUFFICES ASSUME NEW k \in DOMAIN txFifo'
               PROVE  \E m \in DOMAIN cmds' : Holds(txObj'[txFifo'[k]], txRam'[txFifo'[k]], cmds'[m], m)
    BY DEF TxHeld
  <2>1. k + 1 \in DOMAIN txFifo /\ txFifo'[k] = txFifo[k + 1]
    BY <1>8
  <2>2. PICK m \in DOMAIN cmds : Holds(txObj[txFifo[k + 1]], txRam[txFifo[k + 1]], cmds[m], m)
    BY <1>2, <2>1 DEF TxHeld
  <2> QED BY <1>1, <2>1, <2>2, Zenon
<1>10. /\ rxNext' \in Slots(RxSlots) /\ rxFifo' \in Seq(Slots(RxSlots))
       /\ DOMAIN rxObj' = Slots(RxSlots) /\ DOMAIN rxRam' = Slots(RxSlots)
       /\ RxHeld'
  <2>1. CASE Store(w)
    BY <1>2, <1>6, <2>1, StoreHeld
  <2>2. CASE UNCHANGED <<rxObj, rxRam, rxFifo, rxNext>>
    BY <1>2, <2>2 DEF RxHeld
  <2> QED BY <1>1, <2>1, <2>2
<1>11. ShownAsReceived'
  BY <1>1, <1>2 DEF ShownAsReceived
<1>12. Fields'
  BY <1>1, <1>2, <1>8, <1>10
<1> QED BY <1>7, <1>9, <1>10, <1>11, <1>12 DEF IInv

\* What is read first is what its slot holds.
LEMMA ReceiveStep ==
  ASSUME IInv, Receive
  PROVE  IInv'
<1> USE DEF Fields
<1> DEFINE s == Head(rxFifo)
           m == HostUnpack(SerializeRx(Decode(rxObj[s])))
<1>1. /\ rxFifo # <<>> /\ rxFifo' = Tail(rxFifo)
      /\ shown' = [by |-> rxObj[s].w.by, msg |-> m, data |-> HostData(rxRam[s], m),
                   w |-> rxObj[s].w]
      /\ UNCHANGED <<txVars, arrivals, rxRam, rxObj, rxNext, bus>>
  BY DEF Receive
<1>2. Fields /\ TxHeld /\ RxHeld /\ BusRight
  BY DEF IInv
<1>3. 1 \in DOMAIN rxFifo /\ s = rxFifo[1]
  BY <1>1, <1>2
<1>4. Keeps(rxObj[s], rxRam[s])
  BY <1>2, <1>3 DEF RxHeld
<1>5. SaysWhatItWas(m, HostData(rxRam[s], m), rxObj[s].w)
  BY <1>4, SlotShown
<1> HIDE DEF s, m
<1>6. ShownAsReceived'
  <2>1. shown'.msg = m /\ shown'.data = HostData(rxRam[s], m) /\ shown'.w = rxObj[s].w
    BY <1>1
  <2> QED BY <1>5, <2>1, Zenon DEF ShownAsReceived
<1>7. /\ rxFifo' \in Seq(Slots(RxSlots))
      /\ \A k \in DOMAIN rxFifo' : k + 1 \in DOMAIN rxFifo /\ rxFifo'[k] = rxFifo[k + 1]
  BY <1>1, <1>2
<1>8. RxHeld'
  BY <1>1, <1>2, <1>7 DEF RxHeld
<1>9. Fields'
  BY <1>1, <1>2, <1>7
<1>10. TxHeld' /\ BusRight'
  BY <1>1, <1>2 DEF TxHeld, BusRight
<1> QED BY <1>6, <1>8, <1>9, <1>10 DEF IInv

\* A frame from another node arrives.
LEMMA ArriveStep ==
  ASSUME IInv, NEW g \in BusFrames, BusSends(g)
  PROVE  IInv'
<1> USE DEF Fields
<1> DEFINE w == [by |-> -arrivals', ext |-> g.ext, fd |-> g.fd, rtr |-> g.rtr,
                 brs |-> g.brs, dlc |-> g.dlc, sid |-> g.sid, eid |-> g.eid,
                 data |-> [i \in 0..BusLen(g.fd, g.rtr, g.dlc)-1 |-> Byte(-arrivals', i)]]
<1>1. arrivals' = arrivals + 1 /\ Store(w) /\ UNCHANGED <<txVars, bus, shown>>
  BY DEF BusSends
<1>2. Fields /\ TxHeld /\ RxHeld /\ BusRight /\ ShownAsReceived
  BY DEF IInv
<1>3. Wire(w)
  <2>1. /\ w.ext = g.ext /\ w.fd = g.fd /\ w.rtr = g.rtr /\ w.brs = g.brs /\ w.dlc = g.dlc
        /\ w.sid = g.sid /\ w.eid = g.eid
        /\ DOMAIN w.data = 0..BusLen(g.fd, g.rtr, g.dlc)-1
    OBVIOUS
  <2> HIDE DEF w
  <2>2. /\ g.ext \in BOOLEAN /\ g.fd \in BOOLEAN /\ g.brs \in BOOLEAN /\ g.rtr \in BOOLEAN
        /\ g.dlc \in 0..15 /\ g.sid \in Nat /\ g.sid < SidSize /\ g.eid \in Nat /\ g.eid < EidSize
        /\ g.ext \/ g.eid = 0
    BY BusAssumption
  <2> QED BY <2>1, <2>2, Zenon DEF Wire
<1> HIDE DEF w
<1>4. /\ rxNext' \in Slots(RxSlots) /\ rxFifo' \in Seq(Slots(RxSlots))
      /\ DOMAIN rxObj' = Slots(RxSlots) /\ DOMAIN rxRam' = Slots(RxSlots)
      /\ RxHeld'
  BY <1>1, <1>2, <1>3, StoreHeld
<1>5. TxHeld' /\ BusRight' /\ ShownAsReceived'
  BY <1>1, <1>2 DEF TxHeld, BusRight, ShownAsReceived
<1>6. Fields'
  BY <1>1, <1>2, <1>4
<1> QED BY <1>4, <1>5, <1>6 DEF IInv

\* The inductive invariant of the frames' contents.
THEOREM Invariance == Spec => []IInv
<1>1. Init => IInv
  <2> SUFFICES ASSUME Init PROVE IInv
    OBVIOUS
  <2>1. TxSlots \in Nat \ {0} /\ RxSlots \in Nat \ {0}
    BY DepthAssumption
  <2>2. Fields
    <3>1. 0 \in Slots(TxSlots) /\ 0 \in Slots(RxSlots)
      BY <2>1 DEF Slots
    <3>2. /\ cmds \in Seq(Commands) /\ txFifo \in Seq(Slots(TxSlots))
          /\ rxFifo \in Seq(Slots(RxSlots))
      BY DEF Init
    <3>3. arrivals \in Nat /\ txAbt \in BOOLEAN /\ txNext = 0 /\ rxNext = 0
      BY DEF Init
    <3>4. /\ DOMAIN txObj = Slots(TxSlots) /\ DOMAIN txRam = Slots(TxSlots)
          /\ DOMAIN rxObj = Slots(RxSlots) /\ DOMAIN rxRam = Slots(RxSlots)
      BY DEF Init, Slots
    <3> QED BY <3>1, <3>2, <3>3, <3>4 DEF Fields
  <2>3. TxHeld /\ RxHeld
    BY DEF Init, TxHeld, RxHeld
  <2>4. BusRight /\ ShownAsReceived
    BY DEF Init, BusRight, ShownAsReceived
  <2> QED BY <2>2, <2>3, <2>4 DEF IInv
<1>2. IInv /\ [Next]_vars => IInv'
  <2> SUFFICES ASSUME IInv, [Next]_vars PROVE IInv'
    OBVIOUS
  <2>1. ASSUME NEW c \in Commands, Transmit(c) PROVE IInv'
    <3>1. UNCHANGED <<bus, rxVars, shown>>
      BY <2>1 DEF Transmit
    <3>2. Fields /\ TxHeld /\ RxHeld /\ BusRight /\ ShownAsReceived
      BY DEF IInv
    <3>3. /\ cmds' \in Seq(Commands) /\ txAbt' \in BOOLEAN
          /\ txNext' \in Slots(TxSlots) /\ txFifo' \in Seq(Slots(TxSlots))
          /\ DOMAIN txObj' = Slots(TxSlots) /\ DOMAIN txRam' = Slots(TxSlots)
          /\ TxHeld' /\ BusRight'
      BY <2>1, <3>2, TransmitStep
    <3>4. RxHeld' /\ ShownAsReceived'
      BY <3>1, <3>2 DEF RxHeld, ShownAsReceived
    <3>5. Fields'
      BY <3>1, <3>2, <3>3 DEF Fields
    <3> QED BY <3>3, <3>4, <3>5 DEF IInv
  <2>2. CASE ChipSends
    BY <2>2, SendStep
  <2>3. ASSUME NEW g \in BusFrames, BusSends(g) PROVE IInv'
    BY <2>3, ArriveStep
  <2>4. CASE Receive
    BY <2>4, ReceiveStep
  <2>5. ASSUME NEW c \in FilterCmds, SetFilter(c) PROVE IInv'
    <3>1. UNCHANGED <<cmds, txRam, txObj, txFifo, txNext, rxVars, bus, shown>> /\ txAbt' \in BOOLEAN
      BY <2>5 DEF SetFilter, IInv, Fields
    <3> QED BY <3>1 DEF IInv, Fields, TxHeld, RxHeld, BusRight, ShownAsReceived
  <2>6. CASE UNCHANGED vars
    BY <2>6 DEF IInv, Fields, TxHeld, RxHeld, BusRight, ShownAsReceived
  <2> QED BY <2>1, <2>2, <2>3, <2>4, <2>5, <2>6 DEF Next
<1> QED BY <1>1, <1>2, PTL DEF Spec

\* A frame on the bus is what its command asked for, for every identifier and
\* flag byte a program can send (mcp2517fd.c:617-653, can_tasks.c:210-230).
THEOREM Sent == Spec => []SentAsAsked
<1>1. IInv => SentAsAsked
  BY DEF IInv, BusRight, SentAsAsked
<1> QED BY <1>1, Invariance, PTL

\* Data bytes on the bus are the command's own up to the last word, whatever
\* the slot held before, for every length (mcp2517fd.c:23-44, 639-656).
THEOREM Own == Spec => []OwnBytes
<1>1. IInv => OwnBytes
  BY DEF IInv, BusRight, OwnBytes
<1> QED BY <1>1, Invariance, PTL

\* The host shows the identifier, the kind and the bytes that were on the bus,
\* for every frame and depth (mcp2517fd.c:553-583, usb_protocol.c:224-279).
THEOREM Shown == Spec => []ShownAsReceived
<1>1. IInv => ShownAsReceived
  BY DEF IInv
<1> QED BY <1>1, Invariance, PTL

-----------------------------------------------------------------------------
(* Filters.  The bits of identifiers and registers (mcp2517fd.c:879-910).   *)

\* The weights of the bits of an identifier.
LEMMA Weights ==
  /\ 2^0 = 1 /\ 2^1 = 2 /\ 2^2 = 4
  /\ 2^3 = 8 /\ 2^4 = 16 /\ 2^5 = 32
  /\ 2^6 = 64 /\ 2^7 = 128 /\ 2^8 = 256
  /\ 2^9 = 512 /\ 2^10 = 1024 /\ 2^11 = 2048
  /\ 2^12 = 4096 /\ 2^13 = 8192 /\ 2^14 = 16384
  /\ 2^15 = 32768 /\ 2^16 = 65536 /\ 2^17 = 131072
  /\ 2^18 = 262144 /\ 2^19 = 524288 /\ 2^20 = 1048576
  /\ 2^21 = 2097152 /\ 2^22 = 4194304 /\ 2^23 = 8388608
  /\ 2^24 = 16777216 /\ 2^25 = 33554432 /\ 2^26 = 67108864
  /\ 2^27 = 134217728 /\ 2^28 = 268435456
  /\ 2^30 = 1073741824
  BY SMT

\* A positive number, and from bit 11 on at least 2048.
IsWeight(k) == 2^k \in Nat /\ 2^k > 0 /\ (k > 10 => 2^k >= 2048)

\* What every weight of a bit is.
LEMMA WeightSize == ASSUME NEW k \in 0..28 PROVE IsWeight(k)
<1>1. \/ k = 0 \/ k = 1 \/ k = 2 \/ k = 3 \/ k = 4 \/ k = 5 \/ k = 6 \/ k = 7
      \/ k = 8 \/ k = 9 \/ k = 10 \/ k = 11 \/ k = 12 \/ k = 13 \/ k = 14
      \/ k = 15 \/ k = 16 \/ k = 17 \/ k = 18 \/ k = 19 \/ k = 20 \/ k = 21
      \/ k = 22 \/ k = 23 \/ k = 24 \/ k = 25 \/ k = 26 \/ k = 27 \/ k = 28
  OBVIOUS
<1>2. /\ IsWeight(0) /\ IsWeight(1) /\ IsWeight(2) /\ IsWeight(3) /\ IsWeight(4) /\ IsWeight(5)
      /\ IsWeight(6) /\ IsWeight(7) /\ IsWeight(8) /\ IsWeight(9) /\ IsWeight(10) /\ IsWeight(11)
      /\ IsWeight(12) /\ IsWeight(13) /\ IsWeight(14) /\ IsWeight(15) /\ IsWeight(16) /\ IsWeight(17)
      /\ IsWeight(18) /\ IsWeight(19) /\ IsWeight(20) /\ IsWeight(21) /\ IsWeight(22) /\ IsWeight(23)
      /\ IsWeight(24) /\ IsWeight(25) /\ IsWeight(26) /\ IsWeight(27) /\ IsWeight(28)
  BY Weights, SMT DEF IsWeight
<1> QED BY <1>1, <1>2, ZenonT(40)

\* A mask of eleven bits looks at the standard part of an identifier only.
LEMMA LowBit ==
  ASSUME NEW id \in Nat, NEW m \in Nat, m < 2048, NEW k \in 0..28, HasBit(m, 2^k)
  PROVE  HasBit(id % 2048, 2^k) <=> HasBit(id, 2^k)
<1>1. k \in 0..10
  <2> SUFFICES ASSUME k \in 11..28 PROVE FALSE
    OBVIOUS
  <2>1. IsWeight(k)
    BY WeightSize, SMT
  <2>2. 2^k \in Nat /\ 2^k >= 2048
    BY <2>1, SMT DEF IsWeight
  <2>3. (m \div (2^k)) % 2 = 1
    BY SMT DEF HasBit
  <2>4. ASSUME NEW b \in Nat, b >= 2048 PROVE (m \div b) % 2 = 0
    <3>1. m \div b = 0
      BY <2>4, SMT
    <3> QED BY <2>4, <3>1, SMT
  <2> QED BY <2>2, <2>3, <2>4
<1>2. CASE k = 0
  BY <1>2, Weights DEF HasBit
<1>3. CASE k = 1
  BY <1>3, Weights DEF HasBit
<1>4. CASE k = 2
  BY <1>4, Weights DEF HasBit
<1>5. CASE k = 3
  BY <1>5, Weights DEF HasBit
<1>6. CASE k = 4
  BY <1>6, Weights DEF HasBit
<1>7. CASE k = 5
  BY <1>7, Weights DEF HasBit
<1>8. CASE k = 6
  BY <1>8, Weights DEF HasBit
<1>9. CASE k = 7
  BY <1>9, Weights DEF HasBit
<1>10. CASE k = 8
  BY <1>10, Weights DEF HasBit
<1>11. CASE k = 9
  BY <1>11, Weights DEF HasBit
<1>12. CASE k = 10
  BY <1>12, Weights DEF HasBit
<1> QED BY <1>1, <1>2, <1>3, <1>4, <1>5, <1>6, <1>7, <1>8, <1>9, <1>10, <1>11, <1>12

\* Whatever the mask, no bit of zero is set.
LEMMA NoBits == ASSUME NEW k \in 0..28 PROVE ~HasBit(0, 2^k)
<1>1. IsWeight(k)
  BY WeightSize, Zenon
<1>2. 2^k \in Nat /\ 2^k > 0
  BY <1>1, SMT DEF IsWeight
<1>3. ASSUME NEW b \in Nat, b > 0 PROVE (0 \div b) % 2 = 0
  BY <1>3
<1>4. (0 \div (2^k)) % 2 = 0
  BY <1>2, <1>3, Zenon
<1> QED BY <1>4, SMT DEF HasBit

\* Bit 30 of a register, beside an identifier or a mask of 29 bits.
LEMMA IdeBit ==
  ASSUME NEW x \in Nat, x < 536870912
  PROVE  ~HasBit(x, 2^30) /\ HasBit(x + 2^30, 2^30)
<1>1. 2^30 = 1073741824
  BY Weights
<1>2. x \div 1073741824 = 0 /\ (x + 1073741824) \div 1073741824 = 1
  BY SMT
<1> QED BY <1>1, <1>2 DEF HasBit

\* The registers that a command sets pass the standard frames it asks for, and
\* the extended ones unless it names an extended identifier.
LEMMA RegistersMean ==
  ASSUME NEW c, c.id \in Nat, c.mask \in Nat, c.ext \in BOOLEAN,
         NEW g \in BusFrames, ~g.ext \/ ~(c.ext /\ c.mask # 0)
  PROVE  Passes(FilterRegisters(c), g) <=> Wants(c, g)
<1>0. g.ext \in BOOLEAN
  BY BusAssumption
<1>1. CASE c.mask = 0
  <2>1. FilterRegisters(c) = [on |-> TRUE, obj |-> 0, mask |-> 0]
    BY <1>1 DEF FilterRegisters
  <2>2. ~HasBit(0, 2^30)
    BY IdeBit
  <2>3. 0 % SidSize = 0 /\ (0 \div SidSize) % EidSize = 0
    BY DEF SidSize, EidSize
  <2>4. \A a, b : Agree(a, b, 0)
    BY NoBits DEF Agree
  <2> QED BY <1>1, <2>1, <2>2, <2>3, <2>4 DEF Passes, Wants
<1>2. CASE c.mask # 0 /\ ~c.ext
  <2> DEFINE id == c.id % 2048  m == c.mask % 2048
  <2>1. FilterRegisters(c) = [on |-> TRUE, obj |-> id, mask |-> m + 2^30]
    BY <1>2 DEF FilterRegisters, SidSize
  <2>2. id \in Nat /\ id < 2048 /\ m \in Nat /\ m < 2048
    OBVIOUS
  <2>3. Wants(c, g) <=> ~g.ext /\ Agree(g.sid, c.id, m)
    BY <1>0, <1>2 DEF Wants, BusId, SidSize
  <2>4. Agree(g.sid, c.id, m) <=> Agree(g.sid, id, m)
    BY <2>2, LowBit, SMTT(30) DEF Agree
  <2> HIDE DEF id, m
  <2>5. HasBit(m + 2^30, 2^30) /\ ~HasBit(id, 2^30)
    BY <2>2, IdeBit
  <2>6. id % SidSize = id /\ (m + 2^30) % SidSize = m
    BY <2>2, Weights DEF SidSize
  <2>7. Passes(FilterRegisters(c), g) <=> ~g.ext /\ Agree(g.sid, id, m)
    BY <1>0, <2>1, <2>5, <2>6 DEF Passes
  <2> QED BY <2>3, <2>4, <2>7
<1>3. CASE c.mask # 0 /\ c.ext
  <2>1. ~g.ext
    BY <1>3
  <2>2. ~Wants(c, g)
    BY <1>3, <2>1 DEF Wants
  <2> DEFINE id == c.id % 536870912  m == c.mask % 536870912
  <2>3. FilterRegisters(c) = [on |-> TRUE, obj |-> id + 2^30, mask |-> m + 2^30]
    BY <1>3 DEF FilterRegisters, IdSize, SidSize, EidSize
  <2>4. id \in Nat /\ id < 536870912 /\ m \in Nat /\ m < 536870912
    OBVIOUS
  <2> HIDE DEF id, m
  <2>5. HasBit(m + 2^30, 2^30) /\ HasBit(id + 2^30, 2^30)
    BY <2>4, IdeBit
  <2>6. ~Passes(FilterRegisters(c), g)
    BY <2>1, <2>3, <2>5 DEF Passes
  <2> QED BY <2>2, <2>6
<1> QED BY <1>1, <1>2, <1>3

-----------------------------------------------------------------------------
(* Rings.                                                                  *)

\* A slot counted twice around the ring is the same slot, and the slot after
\* the last one is the first.
LEMMA Around ==
  ASSUME NEW slots \in Nat \ {0}, NEW x \in 0..slots-1
  PROVE  /\ x % slots = x /\ (x + slots) % slots = x
         /\ (x + 2 * slots) % slots = x
         /\ (x + 1) % slots = IF x + 1 = slots THEN 0 ELSE x + 1
<1>1. slots \in Nat /\ slots > 0 /\ x \in Nat /\ x < slots
  OBVIOUS
<1>2. x % slots = x
  BY <1>1, SMT
<1>3. (x + slots) % slots = x
  BY <1>1, SMT
<1>4. (x + 2 * slots) % slots = x
  BY <1>1, SMT
<1>5. CASE x + 1 = slots
  <2>1. slots % slots = 0
    BY <1>1, SMT
  <2> QED BY <1>2, <1>3, <1>4, <1>5, <2>1
<1>6. CASE x + 1 # slots
  <2>1. (x + 1) % slots = x + 1
    BY <1>1, <1>6, SMT
  <2> QED BY <1>2, <1>3, <1>4, <1>6, <2>1
<1> QED BY <1>5, <1>6

\* Queueing the slot at the user address of a ring that is not full.
LEMMA RingAppend ==
  ASSUME NEW slots \in Nat \ {0}, NEW T, NEW fifo \in Seq(T), NEW next \in T,
         InRing(fifo, next, slots), Len(fifo) < slots
  PROVE  InRing(Append(fifo, next), (next + 1) % slots, slots)
<1> DEFINE n == Len(fifo)  r == Append(fifo, next)  up == (next + 1) % slots
<1>1. /\ n \in Nat /\ n < slots /\ slots \in Nat /\ slots > 0
      /\ next \in 0..slots-1
      /\ \A k \in 1..n : fifo[k] = (next + 2 * slots - n + k - 1) % slots
  BY DEF InRing
<1>2. /\ Len(r) = n + 1 /\ r[n + 1] = next
      /\ \A k \in 1..n : r[k] = fifo[k]
  OBVIOUS
<1>3. up = IF next + 1 = slots THEN 0 ELSE next + 1
  BY <1>1, Around
<1> HIDE DEF n, r, up
<1>4. up \in 0..slots-1 /\ n + 1 <= slots
  BY <1>1, <1>3
<1>5. ASSUME NEW k \in 1..(n + 1)
      PROVE  r[k] = (up + 2 * slots - (n + 1) + k - 1) % slots
  <2>1. CASE k = n + 1 /\ next + 1 = slots
    <3>1. up + 2 * slots - (n + 1) + k - 1 = (slots - 1) + slots
      BY <1>1, <1>3, <2>1
    <3>2. slots - 1 \in 0..slots-1 /\ next = slots - 1
      BY <1>1, <2>1
    <3>3. ((slots - 1) + slots) % slots = slots - 1
      BY <3>2, Around
    <3>4. r[k] = slots - 1
      BY <1>2, <2>1, <3>2
    <3> QED BY <3>1, <3>3, <3>4
  <2>2. CASE k = n + 1 /\ next + 1 # slots
    <3>1. up + 2 * slots - (n + 1) + k - 1 = next + 2 * slots
      BY <1>1, <1>3, <2>2
    <3>2. (next + 2 * slots) % slots = next
      BY <1>1, Around
    <3>3. r[k] = next
      BY <1>2, <2>2
    <3> QED BY <3>1, <3>2, <3>3
  <2>3. CASE k # n + 1 /\ next + 1 # slots
    <3>1. k \in 1..n
      BY <1>1, <2>3
    <3>2. up + 2 * slots - (n + 1) + k - 1 = next + 2 * slots - n + k - 1
      BY <1>1, <1>3, <2>3
    <3> QED BY <1>1, <1>2, <3>1, <3>2
  <2>4. CASE k # n + 1 /\ next + 1 = slots
    <3> DEFINE x == slots - n + k - 2
    <3>1. k \in 1..n /\ x \in 0..slots-1
      BY <1>1, <2>4
    <3>2. up + 2 * slots - (n + 1) + k - 1 = x + slots
      BY <1>1, <1>3, <2>4
    <3>3. next + 2 * slots - n + k - 1 = x + 2 * slots
      BY <1>1, <2>4
    <3>4. (x + slots) % slots = x /\ (x + 2 * slots) % slots = x
      BY <3>1, Around
    <3> QED BY <1>1, <1>2, <3>1, <3>2, <3>3, <3>4
  <2> QED BY <2>1, <2>2, <2>3, <2>4
<1> QED BY <1>2, <1>4, <1>5 DEF InRing, r, up

\* Taking the oldest slot off a ring.
LEMMA RingTail ==
  ASSUME NEW slots \in Nat \ {0}, NEW T, NEW fifo \in Seq(T), fifo # <<>>,
         NEW next, InRing(fifo, next, slots)
  PROVE  InRing(Tail(fifo), next, slots)
<1>1. /\ Len(Tail(fifo)) = Len(fifo) - 1 /\ Len(fifo) \in Nat
      /\ \A k \in 1..Len(Tail(fifo)) :
           k + 1 \in 1..Len(fifo) /\ Tail(fifo)[k] = fifo[k + 1]
  OBVIOUS
<1>2. /\ next \in 0..slots-1 /\ Len(fifo) <= slots
      /\ \A k \in 1..Len(fifo) :
           fifo[k] = (next + 2 * slots - Len(fifo) + k - 1) % slots
  BY DEF InRing
<1>3. ASSUME NEW k \in 1..Len(Tail(fifo))
      PROVE  Tail(fifo)[k]
             = (next + 2 * slots - Len(Tail(fifo)) + k - 1) % slots
  <2>1. next + 2 * slots - Len(fifo) + (k + 1) - 1
        = next + 2 * slots - Len(Tail(fifo)) + k - 1
    BY <1>1, <1>2
  <2> QED BY <1>1, <1>2, <2>1
<1> QED BY <1>1, <1>2, <1>3 DEF InRing

\* The empty ring.
LEMMA RingEmpty ==
  ASSUME NEW slots \in Nat \ {0}
  PROVE  InRing(<<>>, 0, slots)
  BY DEF InRing

-----------------------------------------------------------------------------
(* The invariant.                                                          *)

Rings == InRing(txFifo, txNext, TxSlots) /\ InRing(rxFifo, rxNext, RxSlots)

\* The registers of a filter that is on are those of the last command for it.
Registers ==
  /\ DOMAIN filters = Filters /\ DOMAIN intents \subseteq Filters
  /\ \A i \in DOMAIN intents : /\ intents[i] \in FilterCmds \cup {AcceptAll}
                               /\ filters[i] = FilterRegisters(intents[i])
  /\ \A i \in Filters : i \notin DOMAIN intents => filters[i].on = FALSE

Counts ==
  /\ loop \in BOOLEAN /\ Len(cmds) <= MaxCommands /\ arrivals \in 0..MaxArrivals
  /\ shown = NoFrame \/ shown.msg \in Message

\* What SET_FILTER and AcceptAll hold.
LEMMA FilterFields ==
  ASSUME NEW c \in FilterCmds \cup {AcceptAll}
  PROVE  c.id \in Nat /\ c.mask \in Nat /\ c.ext \in BOOLEAN
<1>1. CASE c \in FilterCmds
  BY <1>1, FilterAssumption
<1>2. CASE c = AcceptAll
  <2>1. c.id = 0 /\ c.mask = 0
    BY <1>2 DEF AcceptAll
  <2>2. c.ext \in BOOLEAN
    BY <1>2, Zenon DEF AcceptAll
  <2> QED BY <2>1, <2>2
<1> QED BY <1>1, <1>2

\* A command turns its filter on.
LEMMA RegistersOn == ASSUME NEW c PROVE FilterRegisters(c).on = TRUE
<1>1. CASE c.mask = 0
  BY <1>1 DEF FilterRegisters
<1>2. CASE c.mask # 0 /\ c.ext
  BY <1>2 DEF FilterRegisters
<1>3. CASE c.mask # 0 /\ ~c.ext
  BY <1>3 DEF FilterRegisters
<1> QED BY <1>1, <1>2, <1>3

\* While the registers are those of the commands, the filters select what the
\* commands mean.
LEMMA FiltersSelect == ASSUME Registers PROVE FiltersMean
<1> SUFFICES ASSUME NEW g \in BusFrames, ~g.ext \/ ~ExtendedFilter
             PROVE  Accepts(g) <=> Wanted(g)
  BY DEF FiltersMean
<1>1. ASSUME NEW i \in DOMAIN intents
      PROVE  i \in Filters /\ (Passes(filters[i], g) <=> Wants(intents[i], g))
  <2>1. /\ intents[i] \in FilterCmds \cup {AcceptAll} /\ i \in Filters
        /\ filters[i] = FilterRegisters(intents[i])
    BY <1>1 DEF Registers
  <2>2. ~g.ext \/ ~(intents[i].ext /\ intents[i].mask # 0)
    BY <1>1 DEF ExtendedFilter
  <2> QED BY <2>1, <2>2, FilterFields, RegistersMean
<1>2. ASSUME NEW i \in Filters, i \notin DOMAIN intents
      PROVE  ~Passes(filters[i], g)
  BY <1>2 DEF Registers, Passes
<1> QED BY <1>1, <1>2 DEF Accepts, Wanted

\* The invariant says all that FiltersAndRings does.
LEMMA RingsAndRegisters ==
  ASSUME Fields, Rings, Registers, Counts PROVE FiltersAndRings
<1>1. DOMAIN intents = {i \in Filters : filters[i].on}
  <2>1. ASSUME NEW i \in DOMAIN intents PROVE i \in Filters /\ filters[i].on
    <3>1. i \in Filters /\ filters[i] = FilterRegisters(intents[i])
      BY <2>1 DEF Registers
    <3> QED BY <3>1, RegistersOn
  <2>2. ASSUME NEW i \in Filters, filters[i].on PROVE i \in DOMAIN intents
    BY <2>2 DEF Registers
  <2> QED BY <2>1, <2>2
<1> QED BY <1>1, FiltersSelect DEF FiltersAndRings, TypeOK, Fields, Rings, Counts

\* The message the host reads is one.
LEMMA MessageType ==
  ASSUME NEW o, NEW ram, Keeps(o, ram)
  PROVE  HostUnpack(SerializeRx(Decode(o))) \in Message
<1> DEFINE m == HostUnpack(SerializeRx(Decode(o)))
<1>1. /\ m.id = BusId(o.w) /\ m.len = s_dlc_to_len[o.w.dlc]
      /\ <<m.ext, m.fd, m.brs, m.rtr>> = <<o.w.ext, o.w.fd, o.w.brs, o.w.rtr>>
  BY SlotShown, Zenon DEF SaysWhatItWas
<1>2. m = [id |-> m.id, ext |-> m.ext, fd |-> m.fd, brs |-> m.brs, rtr |-> m.rtr,
           len |-> m.len]
  BY Zenon DEF HostUnpack
<1> HIDE DEF m
<1>3. /\ o.w.ext \in BOOLEAN /\ o.w.fd \in BOOLEAN /\ o.w.brs \in BOOLEAN
      /\ o.w.rtr \in BOOLEAN /\ o.w.dlc \in 0..15 /\ o.w.sid \in Nat
      /\ o.w.eid \in Nat
  BY DEF Keeps, Wire
<1>4. m.id \in Nat
  BY <1>1, <1>3 DEF BusId, EidSize
<1>5. m.len \in 0..64
  BY <1>1, <1>3, CodeLength
<1>6. m.ext \in BOOLEAN /\ m.fd \in BOOLEAN /\ m.brs \in BOOLEAN /\ m.rtr \in BOOLEAN
  BY <1>1, <1>3
<1>7. m \in Message
  BY <1>2, <1>4, <1>5, <1>6, Zenon DEF Message
<1> QED BY <1>7 DEF m

-----------------------------------------------------------------------------
(* The steps.                                                              *)

\* The depth of both FIFOs.
LEMMA Depth == TxSlots \in Nat \ {0} /\ RxSlots \in Nat \ {0}
  BY DepthAssumption

\* A frame is queued at the user address, or at slot 0 after an abort.
LEMMA TransmitRing ==
  ASSUME Fields, Rings, NEW c \in Commands, Transmit(c)
  PROVE  InRing(txFifo, txNext, TxSlots)'
<1> DEFINE waiting == IF txAbt THEN <<>> ELSE txFifo
<1>1. /\ Len(waiting) < TxSlots /\ txFifo' = Append(waiting, TxSlot)
      /\ txNext' = (TxSlot + 1) % TxSlots
  BY DEF Transmit
<1>2. TxSlots \in Nat \ {0} /\ 0 \in Slots(TxSlots)
  BY Depth DEF Slots
<1>3. waiting \in Seq(Slots(TxSlots)) /\ TxSlot \in Slots(TxSlots)
  BY <1>2 DEF Fields, TxSlot
<1>4. InRing(waiting, TxSlot, TxSlots)
  <2>1. CASE txAbt
    BY <1>2, <2>1, RingEmpty DEF TxSlot
  <2>2. CASE ~txAbt
    BY <2>2 DEF Rings, TxSlot
  <2> QED BY <2>1, <2>2
<1> HIDE DEF waiting
<1>5. InRing(Append(waiting, TxSlot), (TxSlot + 1) % TxSlots, TxSlots)
  BY <1>1, <1>2, <1>3, <1>4, RingAppend
<1> QED BY <1>1, <1>5 DEF InRing

\* A frame is stored at the user address, or not at all.
LEMMA StoreRing ==
  ASSUME Fields, Rings, NEW w,
         Store(w) \/ UNCHANGED <<rxObj, rxRam, rxFifo, rxNext>>
  PROVE  InRing(rxFifo, rxNext, RxSlots)'
<1>1. CASE UNCHANGED <<rxFifo, rxNext>>
  BY <1>1 DEF Rings, InRing
<1>2. CASE /\ Len(rxFifo) < RxSlots /\ rxFifo' = Append(rxFifo, rxNext)
           /\ rxNext' = (rxNext + 1) % RxSlots
  <2>1. rxFifo \in Seq(Slots(RxSlots)) /\ rxNext \in Slots(RxSlots)
    BY DEF Fields
  <2>2. InRing(Append(rxFifo, rxNext), (rxNext + 1) % RxSlots, RxSlots)
    BY <1>2, <2>1, Depth, RingAppend DEF Rings
  <2> QED BY <1>2, <2>2 DEF InRing
<1> QED BY <1>1, <1>2 DEF Store

\* Every step keeps the rings.
LEMMA RingsKept == ASSUME Fields, Rings, [Next]_vars PROVE Rings'
<1> USE DEF txVars, rxVars, filterVars
<1>1. ASSUME NEW c \in Commands, Transmit(c) PROVE Rings'
  <2>1. UNCHANGED <<rxFifo, rxNext>>
    BY <1>1 DEF Transmit
  <2>2. InRing(txFifo, txNext, TxSlots)'
    BY <1>1, TransmitRing
  <2> QED BY <2>1, <2>2 DEF Rings, InRing
<1>2. CASE ChipSends
  <2>1. /\ txFifo # <<>> /\ txFifo' = Tail(txFifo) /\ txNext' = txNext
        /\ \E w : Store(w) \/ UNCHANGED <<rxObj, rxRam, rxFifo, rxNext>>
    BY <1>2 DEF ChipSends
  <2>2. InRing(rxFifo, rxNext, RxSlots)'
    BY <2>1, StoreRing
  <2>3. InRing(Tail(txFifo), txNext, TxSlots)
    BY <2>1, Depth, RingTail DEF Fields, Rings
  <2> QED BY <2>1, <2>2, <2>3 DEF Rings, InRing
<1>3. ASSUME NEW g \in BusFrames, BusSends(g) PROVE Rings'
  <2>1. UNCHANGED <<txFifo, txNext>> /\ \E w : Store(w)
    BY <1>3 DEF BusSends
  <2>2. InRing(rxFifo, rxNext, RxSlots)'
    BY <2>1, StoreRing
  <2> QED BY <2>1, <2>2 DEF Rings, InRing
<1>4. CASE Receive
  <2>1. /\ rxFifo # <<>> /\ rxFifo' = Tail(rxFifo)
        /\ UNCHANGED <<rxNext, txFifo, txNext>>
    BY <1>4 DEF Receive
  <2>2. InRing(Tail(rxFifo), rxNext, RxSlots)
    BY <2>1, Depth, RingTail DEF Fields, Rings
  <2> QED BY <2>1, <2>2 DEF Rings, InRing
<1>5. ASSUME NEW c \in FilterCmds, SetFilter(c) PROVE Rings'
  BY <1>5 DEF SetFilter, Rings, InRing
<1>6. CASE UNCHANGED vars
  BY <1>6 DEF vars, Rings, InRing
<1> QED BY <1>1, <1>2, <1>3, <1>4, <1>5, <1>6 DEF Next

\* Only SET_FILTER changes a filter: its own.
LEMMA RegistersKept == ASSUME Registers, [Next]_vars PROVE Registers'
<1>1. CASE UNCHANGED filterVars
  BY <1>1 DEF Registers, filterVars
<1>2. ASSUME NEW c \in FilterCmds, SetFilter(c) PROVE Registers'
  <2>1. /\ filters' = [filters EXCEPT ![c.idx] = FilterRegisters(c)]
        /\ intents' = [i \in DOMAIN intents \cup {c.idx} |->
                        IF i = c.idx THEN c ELSE intents[i]]
    BY <1>2 DEF SetFilter
  <2>2. c.idx \in Filters
    BY DEF Filters
  <2> QED BY <2>1, <2>2 DEF Registers
<1>3. UNCHANGED filterVars \/ \E c \in FilterCmds : SetFilter(c)
  BY DEF Next, Transmit, ChipSends, BusSends, Receive, vars
<1> QED BY <1>1, <1>2, <1>3

\* The bounds of a run, and what the host reads.
LEMMA CountsKept ==
  ASSUME Fields, RxHeld, Counts, [Next]_vars PROVE Counts'
<1> USE DEF txVars, rxVars, filterVars
<1>0. MaxCommands \in Nat /\ MaxArrivals \in Nat
  BY BoundAssumption
<1>1. ASSUME NEW c \in Commands, Transmit(c) PROVE Counts'
  <2>1. /\ Len(cmds) < MaxCommands /\ cmds' = Append(cmds, c)
        /\ UNCHANGED <<loop, arrivals, shown>>
    BY <1>1 DEF Transmit
  <2>2. Len(cmds') = Len(cmds) + 1 /\ Len(cmds) \in Nat
    BY <2>1 DEF Fields
  <2> QED BY <1>0, <2>1, <2>2 DEF Counts
<1>2. CASE ChipSends
  BY <1>2 DEF ChipSends, Counts
<1>3. ASSUME NEW g \in BusFrames, BusSends(g) PROVE Counts'
  BY <1>0, <1>3 DEF BusSends, Counts
<1>4. CASE Receive
  <2>1. /\ rxFifo # <<>>
        /\ shown'.msg = HostUnpack(SerializeRx(Decode(rxObj[Head(rxFifo)])))
        /\ UNCHANGED <<loop, cmds, arrivals>>
    BY <1>4 DEF Receive
  <2>2. 1 \in DOMAIN rxFifo /\ Head(rxFifo) = rxFifo[1]
    BY <2>1 DEF Fields
  <2>3. Keeps(rxObj[Head(rxFifo)], rxRam[Head(rxFifo)])
    BY <2>2 DEF RxHeld
  <2>4. shown'.msg \in Message
    BY <2>1, <2>3, MessageType
  <2> QED BY <2>1, <2>4 DEF Counts
<1>5. ASSUME NEW c \in FilterCmds, SetFilter(c) PROVE Counts'
  BY <1>5 DEF SetFilter, Counts
<1>6. CASE UNCHANGED vars
  BY <1>6 DEF vars, Counts
<1> QED BY <1>1, <1>2, <1>3, <1>4, <1>5, <1>6 DEF Next

\* Before the first command only filter 0 is on, and accepts everything.
LEMMA FilterInit == ASSUME Init PROVE Rings /\ Registers /\ Counts
<1>1. Rings
  BY Depth, RingEmpty DEF Init, Rings
<1>2. Registers
  <2>1. FilterRegisters(AcceptAll) = [on |-> TRUE, obj |-> 0, mask |-> 0]
    BY DEF FilterRegisters, AcceptAll
  <2>2. /\ filters = [i \in Filters |-> [on |-> i = 0, obj |-> 0, mask |-> 0]]
        /\ intents = [i \in {0} |-> AcceptAll]
    BY DEF Init
  <2>3. 0 \in Filters
    BY DEF Filters
  <2>4. filters[0] = [on |-> TRUE, obj |-> 0, mask |-> 0]
    BY <2>2, <2>3
  <2>5. \A i \in Filters : i \notin {0} => filters[i].on = FALSE
    BY <2>2
  <2> QED BY <2>1, <2>2, <2>3, <2>4, <2>5 DEF Registers
<1>3. Counts
  BY BoundAssumption DEF Init, Counts
<1> QED BY <1>1, <1>2, <1>3

\* The filters select the frames that the SET_FILTER commands so far ask for,
\* the standard ones under any filters and the extended ones while no filter
\* names an extended identifier, and the FIFOs are rings of their slots, for
\* all filters, frames and depths (mcp2517fd.c:658-692, 553-583, 617-656).
THEOREM FiltersRight == Spec => []FiltersAndRings
<1> DEFINE J == Rings /\ Registers /\ Counts
<1>1. Init => J
  BY FilterInit
<1>2. IInv /\ J /\ [Next]_vars => J'
  <2> SUFFICES ASSUME IInv, J, [Next]_vars PROVE J'
    OBVIOUS
  <2>1. Fields /\ RxHeld
    BY DEF IInv
  <2> QED BY <2>1, RingsKept, RegistersKept, CountsKept
<1>3. IInv /\ J => FiltersAndRings
  BY RingsAndRegisters DEF IInv
<1> HIDE DEF J
<1> QED BY <1>1, <1>2, <1>3, Invariance, PTL DEF Spec
=============================================================================
