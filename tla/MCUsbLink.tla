------------------------------ MODULE MCUsbLink ------------------------------
(***************************************************************************)
(* Instances of UsbLink for TLC: the receive task's frames, and the answers *)
(* of the command task.                                                    *)
(***************************************************************************)
EXTENDS UsbLink, Crc

MCTasks == {"rx", "cmd"}
MCCmd == [rx |-> 129, cmd |-> 128]
\* The payload of a frame looks like the beginning of a packet.
MCPayload == [rx |-> <<170, 85>>, cmd |-> <<>>]
MCRoom == [jtag |-> 13, uart |-> 12]
=============================================================================
