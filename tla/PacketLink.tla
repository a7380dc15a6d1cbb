----------------------------- MODULE PacketLink -----------------------------
(***************************************************************************)
(* What protocol_t builds on: packets come out whole, in the order in      *)
(* which they were written, or the reader is told of a failure.  A fault   *)
(* of the line costs one packet at most, when it happens, and afterwards   *)
(* reads may fail; none is ever made up, altered or repeated.              *)
(***************************************************************************)
EXTENDS Naturals, Sequences

CONSTANT Packets

VARIABLES
    written,    \* the packets written, in order
    waiting,    \* those that are still to be read, by their places in written
    ret,        \* what the last is_new or receive that ended said
    faults      \* how often a time has run out early or a byte was altered

vars == <<written, waiting, ret, faults>>

Nothing == << >>
Failures == {"TIMEOUT", "PACKET_HEADER_TIMEOUT", "PACKET_BODY_TIMEOUT",
             "PACKET_CHECKSUM_TIMEOUT", "CHECKSUM_ERROR"}

Init ==
    /\ written = << >> /\ waiting = {}
    /\ ret = [res |-> "OK", value |-> Nothing] /\ faults = 0

Write ==
    /\ \E p \in Packets : written' = Append(written, p)
    /\ waiting' = waiting \cup {Len(written')}
    /\ UNCHANGED <<ret, faults>>

Read ==
    /\ \E i \in waiting :
          /\ \A j \in waiting : i <= j
          /\ ret' = [res |-> "OK", value |-> <<written[i]>>]
          /\ waiting' = waiting \ {i}
    /\ UNCHANGED <<written, faults>>

(* Without faults, only for want of packets.                               *)
TimeOut ==
    /\ waiting = {} \/ faults > 0
    /\ ret' = [res |-> "TIMEOUT", value |-> Nothing]
    /\ UNCHANGED <<written, waiting, faults>>

Fail ==
    /\ faults > 0
    /\ \E f \in Failures : ret' = [res |-> f, value |-> Nothing]
    /\ UNCHANGED <<written, waiting, faults>>

Fault ==
    /\ faults' = faults + 1
    /\ waiting' = waiting \/ \E i \in waiting : waiting' = waiting \ {i}
    /\ ret' = ret \/ \E f \in Failures : ret' = [res |-> f, value |-> Nothing]
    /\ UNCHANGED written

Next == Write \/ Read \/ TimeOut \/ Fail \/ Fault

Spec == Init /\ [][Next]_vars
=============================================================================
