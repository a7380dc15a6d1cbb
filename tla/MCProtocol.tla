----------------------------- MODULE MCProtocol -----------------------------
(***************************************************************************)
(* Components small enough for TLC: one without ports, and one with two    *)
(* input ports, so that a profile can be cut in the middle of a list.      *)
(***************************************************************************)
EXTENDS Protocol

MCTwoInPorts == <<"in0", "in1">>
MCOutPorts == <<"out0">>
MCNoPorts == << >>
=============================================================================
