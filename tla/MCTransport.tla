----------------------------- MODULE MCTransport -----------------------------
(***************************************************************************)
(* Packets for TLC, of bytes 0 .. 6 with 2 for the start byte.             *)
(***************************************************************************)
EXTENDS Transport

Packet(d) == [cmd |-> 1, res |-> 3, data |-> d]

(* The first two are resilient; the others have start bytes next to each   *)
(* other in length and data, or one for the sum.                           *)
MCPackets ==
    {Packet(<< >>), Packet(<<0, 2>>), Packet(<<2, 2>>), Packet(<<4>>)}
=============================================================================
