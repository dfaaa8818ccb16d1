------------------------------ MODULE UsbLink ------------------------------
(***************************************************************************)
(* The way from the device's tasks to the host's receive thread:            *)
(* usb_comm_write of main/usb_comm.c, which several tasks call without a    *)
(* lock, the buffers of the two ports under it, and the parser of           *)
(* _rx_worker in tools/pcan_view_gui.py, which reads one of them in chunks. *)
(***************************************************************************)
EXTENDS Integers, Sequences, FiniteSetsExt

CONSTANTS Tasks,        \* tasks that write packets
          Crc(_),       \* checksum of a sequence of bytes
          Cmd,          \* Cmd[t], the command byte of the packets of task t
          Payload,      \* Payload[t], their payload
          FrameCmd,     \* MSG_RX_FRAME
          MinFrame,     \* shortest payload of a frame (16)
          MaxLength,    \* longest payload the host takes (256)
          Room,         \* Room[p], size of the transmit buffer of port p
          HostPort,     \* the port the host has open
          Partial,      \* the JTAG driver may take a part of what it is given
          MaxPackets,   \* bound: packets of a task
          MaxPlugs      \* bound: changes of usb_serial_jtag_is_connected

Ports == {"jtag", "uart"}
Byte == 0..255
Word == {n \in Nat : n < 65536}
Sync1 == 170
Sync2 == 85
MaxRetries == 3

\* The bytes the checksum covers: command, sequence number, length, payload.
Covered(cmd, seq, payload) ==
  <<cmd, seq, Len(payload) \div 256, Len(payload) % 256>> \o payload

ASSUME LinkAssumption ==
  /\ HostPort \in Ports /\ Partial \in BOOLEAN
  /\ Room \in [Ports -> Nat \ {0}]
  /\ Cmd \in [Tasks -> Byte] /\ Payload \in [Tasks -> Seq(Byte)]
  /\ MinFrame \in Nat /\ MaxPackets \in Byte /\ MaxPlugs \in Nat
  /\ MaxLength \in Word /\ \A t \in Tasks : Len(Payload[t]) <= MaxLength
ASSUME CrcAssumption ==
  \A t \in Tasks, n \in 1..MaxPackets : Crc(Covered(Cmd[t], n, Payload[t])) \in Word

VARIABLES connected,    \* usb_serial_jtag_is_connected()
          pc,           \* pc[t], where task t is in usb_comm_write
          written,      \* written[t] and ...
          retries,      \* retries[t] of its loop
          count,        \* packets task t has begun, the sequence number
          buffer,       \* buffer[p], bytes in the transmit buffer of port p
          toRead,       \* what the receive thread is about to read, 0: not known
          inBuf,        \* in_buf
          taken,        \* packets it put into batch_msgs or gave to _handle_packet
          wire,         \* history: all bytes the host's port was given
          done,         \* history: packets that got there, in order
          torn,         \* history: one was cut short, or two were mixed
          plugs         \* history: changes of connected

task == <<pc, written, retries, count>>
host == <<toRead, inBuf, taken>>
history == <<wire, done, torn>>
vars == <<connected, task, buffer, host, history, plugs>>

\* Frames go to batch_msgs, other packets to _handle_packet.
Kinds == {"frame", "answer"}
Kind(cmd, length) == IF cmd = FrameCmd /\ length >= MinFrame THEN "frame" ELSE "answer"
None == [k \in Kinds |-> <<>>]

Init ==
  /\ connected = (HostPort = "jtag") /\ plugs = 0
  /\ pc = [t \in Tasks |-> "idle"] /\ count = [t \in Tasks |-> 0]
  /\ written = [t \in Tasks |-> 0] /\ retries = [t \in Tasks |-> 0]
  /\ buffer = [p \in Ports |-> <<>>]
  /\ toRead = 0 /\ inBuf = <<>> /\ taken = None
  /\ wire = <<>> /\ done = None /\ torn = FALSE

-----------------------------------------------------------------------------
(* usb_comm_write.                                                          *)

Pack(cmd, seq, payload) ==
  LET covered == Covered(cmd, seq, payload)
  IN  <<Sync1, Sync2>> \o covered \o <<Crc(covered) \div 256, Crc(covered) % 256>>

Packets == [t \in Tasks |-> [n \in 1..MaxPackets |-> Pack(Cmd[t], n, Payload[t])]]
Data(t) == Packets[t][count[t]]
Size(t) == 8 + Len(Payload[t])
Left(t) == Size(t) - written[t]
Free(p) == Room[p] - Len(buffer[p])

\* The packet of task t has got to the host's port.
Finish(t) ==
  LET kind == Kind(Cmd[t], Len(Payload[t]))
  IN  [done EXCEPT ![kind] = Append(@, <<Cmd[t], count[t]>>)]

\* Task u has written a part of its packet to port p.
Half(u, p) == written[u] > 0 /\ pc[u] = (IF p = "jtag" THEN "jtag" ELSE "blocked")

\* The next n bytes of the packet of task t go to port p.  History: the
\* packet has got there, or it is in pieces with another one between them.
Put(t, p, n) ==
  LET bytes == SubSeq(Data(t), written[t] + 1, written[t] + n)
  IN  /\ buffer' = [buffer EXCEPT ![p] = @ \o bytes]
      /\ written' = [written EXCEPT ![t] = @ + n]
      /\ IF p = HostPort
           THEN /\ wire' = wire \o bytes
                /\ done' = IF n = Left(t) THEN Finish(t) ELSE done
                /\ torn' = (torn \/ \E u \in Tasks \ {t} : Half(u, p))
           ELSE UNCHANGED history

\* A task has a packet to write.
Begin(t) ==
  /\ pc[t] = "idle" /\ count[t] < MaxPackets
  /\ pc' = [pc EXCEPT ![t] = IF connected THEN "jtag" ELSE "check"]
  /\ count' = [count EXCEPT ![t] = @ + 1]
  /\ written' = [written EXCEPT ![t] = 0] /\ retries' = [retries EXCEPT ![t] = 0]
  /\ UNCHANGED <<connected, buffer, host, history, plugs>>

\* A bug: the rest of a packet is given to the driver as if it were a packet.
AcceptRestarts(t) ==
  /\ pc[t] = "jtag"
  /\ \E n \in 1..Left(t) :
       /\ n = Left(t) \/ (Partial /\ n = Free("jtag"))
       /\ n <= Free("jtag")
       /\ LET bytes == SubSeq(Data(t), 1, n)
          IN  /\ buffer' = [buffer EXCEPT !["jtag"] = @ \o bytes]
              /\ wire' = wire \o bytes
       /\ written' = [written EXCEPT ![t] = @ + n]
       /\ done' = IF n = Left(t) THEN Finish(t) ELSE done
       /\ pc' = [pc EXCEPT ![t] = IF n = Left(t) THEN "idle" ELSE "jtag"]
  /\ UNCHANGED <<connected, retries, count, host, torn, plugs>>

\* usb_serial_jtag_write_bytes takes all it is given, or what there is room
\* for if the driver takes parts.
Accept(t) ==
  /\ pc[t] = "jtag"
  /\ \E n \in 1..Left(t) :
       /\ n = Left(t) \/ (Partial /\ n = Free("jtag"))
       /\ n <= Free("jtag") /\ Put(t, "jtag", n)
       /\ pc' = [pc EXCEPT ![t] = IF n = Left(t) THEN "idle" ELSE "jtag"]
  /\ UNCHANGED <<connected, retries, count, host, plugs>>

\* A bug: it is tried until there is room.
RefuseForever(t) ==
  /\ pc[t] = "jtag" /\ Left(t) > Free("jtag")
  /\ UNCHANGED vars

\* There is no room for 2 ms.  The third time the rest is given up.
Refuse(t) ==
  /\ pc[t] = "jtag" /\ Left(t) > Free("jtag")
  /\ retries' = [retries EXCEPT ![t] = @ + 1]
  /\ pc' = [pc EXCEPT ![t] = IF retries[t] + 1 < MaxRetries THEN "jtag" ELSE "idle"]
  /\ torn' = (torn \/ (pc'[t] = "idle" /\ written[t] > 0 /\ HostPort = "jtag"))
  /\ UNCHANGED <<connected, written, count, buffer, host, wire, done, plugs>>

\* The fallback path: uart_get_tx_buffer_free_size, and nothing is written if
\* the packet does not fit.
Check(t) ==
  /\ pc[t] = "check"
  /\ pc' = [pc EXCEPT ![t] = IF Free("uart") >= Size(t) THEN "put" ELSE "idle"]
  /\ UNCHANGED <<connected, written, retries, count, buffer, host, history, plugs>>

\* uart_write_bytes returns when all of the packet is in the buffer, and keeps
\* other tasks out until then.
UartWrite(t) ==
  /\ \/ pc[t] = "put" /\ \A u \in Tasks : pc[u] # "blocked"
     \/ pc[t] = "blocked" /\ Free("uart") > 0
  /\ LET n == Min({Left(t), Free("uart")})
     IN  /\ Put(t, "uart", n)
         /\ pc' = [pc EXCEPT ![t] = IF n = Left(t) THEN "idle" ELSE "blocked"]
  /\ UNCHANGED <<connected, retries, count, host, plugs>>

WriteStep(t) == Accept(t) \/ Refuse(t) \/ Check(t) \/ UartWrite(t)

-----------------------------------------------------------------------------
(* The cable, and the port the host does not have open.                     *)

Plug ==
  /\ plugs < MaxPlugs /\ plugs' = plugs + 1
  /\ connected' = ~connected
  /\ UNCHANGED <<task, buffer, host, history>>

\* The UART sends what it has to nobody.
Unheard ==
  /\ HostPort # "uart" /\ buffer["uart"] # <<>>
  /\ buffer' = [buffer EXCEPT !["uart"] = <<>>]
  /\ UNCHANGED <<connected, task, host, history, plugs>>

-----------------------------------------------------------------------------
(* _rx_worker.                                                              *)

\* Half of a beginning at the end of the buffer is kept.  A bug: it is not.
EndOfNothingForgets(buf) == Len(buf)
EndOfNothing(buf) == IF buf[Len(buf)] = Sync1 THEN Len(buf) - 1 ELSE Len(buf)

\* The checksum of the packet that begins after position i is right.  A bug:
\* it is not compared.
RightOrNot(buf, i, length) == TRUE
Right(buf, i, length) ==
  Crc(SubSeq(buf, i + 3, i + 6 + length)) = 256 * buf[i + 7 + length] + buf[i + 8 + length]

\* The first beginning of a packet after position pos, and the length it tells.
Beginnings(buf, pos) ==
  {i \in pos..Len(buf) - 2 : buf[i + 1] = Sync1 /\ buf[i + 2] = Sync2}
Length(buf, i) == 256 * buf[i + 5] + buf[i + 6]

\* The loop over in_buf goes on after position pos: the packets it finds and
\* how far it gets.
Look(buf, from, pos) ==
  LET i == Min(Beginnings(buf, pos))
      length == Length(buf, i)
      rest == from[i + 8 + length]
      stop(p) == [frame |-> <<>>, answer |-> <<>>, pos |-> p]
  IN  IF Len(buf) - pos < 8 THEN stop(pos)
      ELSE IF Beginnings(buf, pos) = {} THEN stop(EndOfNothing(buf))
      ELSE IF Len(buf) - i < 8 THEN stop(i)
      ELSE IF length > MaxLength THEN from[i + 2]
      ELSE IF Len(buf) - i < 8 + length THEN stop(i)
      ELSE IF Right(buf, i, length)
        THEN [rest EXCEPT ![Kind(buf[i + 3], length)] = <<<<buf[i + 3], buf[i + 4]>>>> \o @]
        ELSE rest

Scan(buf) ==
  LET from[pos \in 0..Len(buf)] == Look(buf, from, pos)
  IN  from[0]

\* in_waiting: what there is, or one byte to wait for.
Peek ==
  /\ toRead = 0
  /\ toRead' = Max({1, Len(buffer[HostPort])})
  /\ UNCHANGED <<connected, task, buffer, inBuf, taken, history, plugs>>

\* The read returns at most as much; frames are handled as a batch, after the
\* other packets.
Read ==
  /\ toRead > 0 /\ toRead' = 0
  /\ LET n == Min({toRead, Len(buffer[HostPort])})
         buf == inBuf \o SubSeq(buffer[HostPort], 1, n)
         scan == Scan(buf)
     IN  /\ buffer' = [buffer EXCEPT ![HostPort] = SubSeq(@, n + 1, Len(@))]
         /\ inBuf' = SubSeq(buf, scan.pos + 1, Len(buf))
         /\ taken' = [k \in Kinds |-> taken[k] \o scan[k]]
  /\ UNCHANGED <<connected, task, history, plugs>>

-----------------------------------------------------------------------------
Next == \/ \E t \in Tasks : Begin(t) \/ WriteStep(t)
        \/ Plug \/ Unheard \/ Peek \/ Read

\* Tasks run.  Nothing makes the host read.
Spec == Init /\ [][Next]_vars
FairSpec == Spec /\ \A t \in Tasks : WF_vars(WriteStep(t))

-----------------------------------------------------------------------------
(* Properties.                                                              *)

\* Every variable keeps its type, and the buffers their sizes.
TypeOK ==
  /\ connected \in BOOLEAN /\ torn \in BOOLEAN /\ plugs \in 0..MaxPlugs
  /\ pc \in [Tasks -> {"idle", "jtag", "check", "put", "blocked"}]
  /\ count \in [Tasks -> 0..MaxPackets] /\ retries \in [Tasks -> 0..MaxRetries]
  /\ written \in [Tasks -> Nat] /\ \A t \in Tasks : written[t] <= Size(t)
  /\ buffer \in [Ports -> Seq(Byte)] /\ \A p \in Ports : Len(buffer[p]) <= Room[p]
  /\ toRead \in Nat /\ inBuf \in Seq(Byte) /\ wire \in Seq(Byte)
  /\ taken \in [Kinds -> Seq(Byte \X Byte)] /\ done \in [Kinds -> Seq(Byte \X Byte)]

\* pcan_view_gui.py:878-930.  What the host makes of the stream does not depend
\* on the pieces it comes in: with what is in the two buffers it has found what
\* one pass over everything the port was given finds.
ChunksDoNotMatter ==
  LET all == Scan(wire)
      rest == Scan(inBuf \o buffer[HostPort])
  IN  \A k \in Kinds : taken[k] \o rest[k] = all[k]

\* The buffers of both ends keep their types and bounds (the driver's take no
\* more than they have room for, a task gives up after its retries), and what
\* the host makes of them does not depend on the pieces.
LinkOK == TypeOK /\ ChunksDoNotMatter

\* One task at most writes packets of this command: its number tells which
\* packet it is.  (Two tasks write BUS_DIAG, can_tasks.c:267 and :311.)
Sole(cmd) == \A t, u \in Tasks : Cmd[t] = cmd /\ Cmd[u] = cmd => t = u

\* usb_comm.c:61-77, pcan_view_gui.py:915-923.  However the writes of the tasks
\* are cut and mixed, every packet the host takes was written by one task up
\* to its last byte, and those of a command only one task writes come once and
\* in their order.
Authentic ==
  \A k \in Kinds : \A i \in DOMAIN taken[k] :
    /\ \E j \in DOMAIN done[k] : done[k][j] = taken[k][i]
    /\ \A j \in 1..i - 1 : Sole(taken[k][i][1]) /\ taken[k][j][1] = taken[k][i][1] =>
                           taken[k][j][2] < taken[k][i][2]

\* usb_comm.c:58-60.  As long as no write is given up half way and no two are
\* mixed, every packet the port took gets to the host.
CleanArrives ==
  ~torn /\ inBuf \o buffer[HostPort] = <<>> => taken = done

\* usb_comm.c:64-76.  A task comes back from usb_comm_write even if the host
\* never reads: the CAN tasks do not stop with it.
WritesReturn == \A t \in Tasks : pc[t] = "jtag" ~> pc[t] = "idle"
=============================================================================
