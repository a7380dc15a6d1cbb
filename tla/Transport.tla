------------------------------ MODULE Transport ------------------------------
(***************************************************************************)
(* transport_t: packets in a stream of bytes.  A frame is two start bytes, *)
(* command, result, length, the data, and the sum of all but the start     *)
(* bytes.  Nothing is escaped: command, data or sum may hold a start byte. *)
(* is_new scans for two start bytes in a row and receive reads what        *)
(* follows; either gives up when a read runs out of time, and what is left *)
(* of the packet is then scanned by the next is_new.                       *)
(*                                                                         *)
(* A byte on the line also carries the frame it was written in and its     *)
(* place there, which only the properties look at.                         *)
(***************************************************************************)
EXTENDS Naturals, Sequences

CONSTANTS
    M,           \* how many values a byte has
    Start,       \* 0x0a
    Packets,     \* the packets the far end writes
    MaxPackets,  \* bound on the packets written
    MaxFaults    \* bound on untimely timeouts and altered bytes

Byte == 0 .. M - 1

ASSUME TransportAssumption ==
    /\ M \in Nat /\ Start \in Byte
    /\ Packets \subseteq [cmd: Byte, res: Byte, data: Seq(Byte)]
    /\ \A p \in Packets : Len(p.data) + 3 < M   \* getPacketLength does not wrap
    /\ MaxPackets \in Nat /\ MaxFaults \in Nat

VARIABLES
    line,        \* bytes written and not yet read
    pc,          \* which read of is_new or receive is next
    header,      \* header[0..2] of receive
    data,        \* data_buffer of receive
    ret,         \* what the last is_new or receive that ended said
    sent,        \* history: the packets written
    altered,     \* history: the frames with an altered byte
    faults       \* history: how many faults there were

reader == <<pc, header, data>>
vars == <<line, reader, ret, sent, altered, faults>>

Nothing == << >>

(* The stream, the place in it and the buffers of the reader keep their    *)
(* types: three bytes of header, and what was returned is a packet.        *)
TypeOK ==
    /\ line \in Seq([b: Byte, frame: Nat, place: Nat])
    /\ pc \in {"idle", "start1", "start2", "header", "data", "sum"}
    /\ header \in [1 .. 3 -> Byte]
    /\ data \in Seq(Byte)
    /\ ret.res \in {"OK", "TIMEOUT", "PACKET_HEADER_TIMEOUT", "PACKET_BODY_TIMEOUT",
                    "PACKET_CHECKSUM_TIMEOUT", "CHECKSUM_ERROR"}
    /\ ret.value = Nothing \/ ret.value[1] \in [cmd: Byte, res: Byte, data: Seq(Byte)]
    /\ sent \in Seq(Packets)
    /\ altered \in SUBSET (1 .. Len(sent))
    /\ faults \in Nat

(* packet_t: the bytes that are sent and summed.  The length of the whole  *)
(* is a byte, too.                                                         *)
Serialized(p) ==
    LET bytes == <<p.cmd, p.res, Len(p.data)>> \o p.data
    IN  SubSeq(bytes, 1, Len(bytes) % M)

(* The sum of the first bytes, as a byte.                                  *)
SumOf(bytes) ==
    LET sum[i \in 0 .. Len(bytes)] == IF i = 0 THEN 0 ELSE (sum[i - 1] + bytes[i]) % M
    IN  sum[Len(bytes)]

Sum(p) == SumOf(Serialized(p))

(* transport_t::send, and the far end likewise.                            *)
Frame(p) == <<Start, Start>> \o Serialized(p) \o <<Sum(p)>>

(* Packets the reader can find its way through from anywhere inside: no    *)
(* two start bytes follow each other, and the sum, which the next frame's  *)
(* start byte would follow, is none.                                       *)
Resilient(p) ==
    LET f == Frame(p) IN
    /\ f[Len(f)] # Start
    /\ \A i \in 2 .. Len(f) - 1 : ~(f[i] = Start /\ f[i + 1] = Start)

Disturb ==
    /\ faults < MaxFaults /\ \A i \in DOMAIN sent : Resilient(sent[i])
    /\ faults' = faults + 1

Init ==
    /\ line = << >> /\ pc = "idle" /\ header = <<0, 0, 0>> /\ data = << >>
    /\ ret = [res |-> "OK", value |-> Nothing]
    /\ sent = << >> /\ altered = {} /\ faults = 0

(* All of a frame at once: a read that finds its bytes not yet there times *)
(* out as one whose bytes come too late.  Once there was a fault, only     *)
(* resilient packets are considered.                                       *)
Write(p) ==
    /\ Len(sent) < MaxPackets
    /\ faults > 0 => Resilient(p)
    /\ sent' = Append(sent, p)
    /\ line' = line \o [i \in DOMAIN Frame(p) |->
                           [b |-> Frame(p)[i], frame |-> Len(sent'), place |-> i]]
    /\ UNCHANGED <<reader, ret, altered, faults>>

-----------------------------------------------------------------------------
(* Slip: a header of four bytes.                                           *)
WantedSlip == CASE pc \in {"start1", "start2", "sum"} -> 1
                [] pc = "header" -> 4
                [] pc = "data" -> header[3]
                [] OTHER -> 0

(* How many bytes the read that is next asks for.                          *)
Wanted == CASE pc \in {"start1", "start2", "sum"} -> 1
            [] pc = "header" -> 3
            [] pc = "data" -> header[3]
            [] OTHER -> 0

(* transport_t::read delivers all it was asked for, or nothing.            *)
Read ==
    /\ Len(line) >= Wanted
    /\ line' = SubSeq(line, Wanted + 1, Len(line))
    /\ UNCHANGED <<sent, altered, faults>>

Got == [i \in 1 .. Wanted |-> line[i].b]

(* The caller asks is_new, and calls receive at once when it says OK.      *)
IsNew ==
    /\ pc = "idle"
    /\ pc' = "start1"
    /\ UNCHANGED <<line, header, data, ret, sent, altered, faults>>

(* Slip: one start byte is enough.                                         *)
FirstStartSlip ==
    /\ pc = "start1" /\ Read
    /\ pc' = IF Got[1] = Start THEN "header" ELSE "start1"
    /\ UNCHANGED <<header, data, ret>>

FirstStart ==
    /\ pc = "start1" /\ Read
    /\ pc' = IF Got[1] = Start THEN "start2" ELSE "start1"
    /\ UNCHANGED <<header, data, ret>>

(* A start byte followed by something else: both are dropped.              *)
SecondStart ==
    /\ pc = "start2" /\ Read
    /\ pc' = IF Got[1] = Start THEN "header" ELSE "start1"
    /\ UNCHANGED <<header, data, ret>>

ReadHeader ==
    /\ pc = "header" /\ Read
    /\ header' = Got
    /\ pc' = "data"
    /\ UNCHANGED <<data, ret>>

ReadData ==
    /\ pc = "data" /\ Read
    /\ data' = Got
    /\ pc' = "sum"
    /\ UNCHANGED <<header, ret>>

Received == [cmd |-> header[1], res |-> header[2], data |-> data]

(* Slip: the sum is read and not compared.                                 *)
ReadSumSlip ==
    /\ pc = "sum" /\ Read
    /\ ret' = [res |-> "OK", value |-> <<Received>>]
    /\ pc' = "idle"
    /\ UNCHANGED <<header, data>>

ReadSum ==
    /\ pc = "sum" /\ Read
    /\ ret' = IF Sum(Received) = Got[1]
              THEN [res |-> "OK", value |-> <<Received>>]
              ELSE [res |-> "CHECKSUM_ERROR", value |-> Nothing]
    /\ pc' = "idle"
    /\ UNCHANGED <<header, data>>

(* The read that is next runs out of time: for want of bytes, or because   *)
(* they come too late for it.                                              *)
TimeOut ==
    /\ pc # "idle" /\ Wanted > 0
    /\ \/ Len(line) < Wanted /\ UNCHANGED faults
       \/ Len(line) >= Wanted /\ Disturb
    /\ ret' = [res |-> CASE pc = "header" -> "PACKET_HEADER_TIMEOUT"
                         [] pc = "data" -> "PACKET_BODY_TIMEOUT"
                         [] pc = "sum" -> "PACKET_CHECKSUM_TIMEOUT"
                         [] OTHER -> "TIMEOUT",
               value |-> Nothing]
    /\ pc' = "idle"
    /\ UNCHANGED <<line, header, data, sent, altered>>

(* A byte is altered on its way, at most one of a frame.  The length is    *)
(* left alone, and no byte becomes a start byte: past those nothing in the *)
(* format can tell.                                                        *)
Alter ==
    /\ Disturb
    /\ \E i \in DOMAIN line, b \in Byte :
          /\ line[i].frame \notin altered /\ line[i].place # 5
          /\ b \notin {Start, line[i].b}
          /\ line' = [line EXCEPT ![i].b = b]
          /\ altered' = altered \cup {line[i].frame}
    /\ UNCHANGED <<reader, ret, sent>>

Next ==
    \/ \E p \in Packets : Write(p)
    \/ IsNew \/ FirstStart \/ SecondStart \/ ReadHeader \/ ReadData \/ ReadSum \/ TimeOut
    \/ Alter

Spec == Init /\ [][Next]_vars

-----------------------------------------------------------------------------
(* Properties.                                                             *)

(* The reader is inside the frame at the head of the line and knows it.    *)
Aligned ==
    /\ line # << >>
    /\ Head(line).place = CASE pc = "start2" -> 2
                            [] pc = "header" -> 3
                            [] pc = "data" -> 6
                            [] pc = "sum" -> 6 + Len(data)
                            [] OTHER -> 0

(* The packets that can still be handed over: untouched, and either not    *)
(* begun or being read.                                                    *)
Pending(f) ==
    /\ f \notin altered
    /\ \/ \E i \in DOMAIN line : line[i].frame = f /\ line[i].place = 1
       \/ Aligned /\ Head(line).frame = f

Waiting == {f \in DOMAIN sent : Pending(f)}

Link == INSTANCE PacketLink WITH written <- sent, waiting <- Waiting

(* The framing gives protocol_t the link it builds on.  On an undisturbed  *)
(* line this is so whatever the packets contain.  With untimely timeouts   *)
(* or altered bytes it is so for packets in which no two start bytes       *)
(* follow each other and the sum is none.                                  *)
ImplementsLink == Link!Spec
=============================================================================
