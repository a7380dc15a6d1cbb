-------------------------------- MODULE RTno --------------------------------
(***************************************************************************)
(* The component on the board, at the far end of the line.  Its firmware   *)
(* is not in this repository: what is written here is what protocol_t      *)
(* relies on (which command answers which request, which results come      *)
(* back, in which order a profile is listed), nothing more.                *)
(***************************************************************************)
EXTENDS Naturals, Sequences

CONSTANTS
    InPorts,    \* the component's input ports, in the order it lists them
    OutPorts    \* its output ports, likewise

ASSUME PortsAssumption == InPorts \in Seq(STRING) /\ OutPorts \in Seq(STRING)

PortNames == {InPorts[i] : i \in DOMAIN InPorts} \cup {OutPorts[i] : i \in DOMAIN OutPorts}

(* Commands of command.h that the host sends, and those it only receives.  *)
Retried == {"GET_STATE", "GET_CONTEXT_TYPE", "GET_PROFILE", "ACTIVATE", "DEACTIVATE", "EXECUTE"}
SingleShot == {"SEND_DATA", "RECEIVE_DATA"}
Operations == Retried \cup SingleShot
PacketErrors == {"PACKET_ERROR", "PACKET_ERROR_CHECKSUM", "PACKET_ERROR_TIMEOUT"}

Results == {"OK", "ERR", "TIMEOUT", "CHECKSUM_ERROR", "INVALID_PRESTATE",
            "INPORT_NOT_FOUND", "OUTPORT_NOT_FOUND", "OUTPORT_BUFFER_EMPTY"}
States == {"INACTIVE", "ACTIVE", "ERROR"}
Data == States \cup PortNames \cup {"PROXY_SYNCHRONOUS", "none"}

PortPackets == [cmd: {"INPORT_PROFILE", "OUTPORT_PROFILE"}, port: PortNames]
Profiles == [in: Seq(PortNames), out: Seq(PortNames)]

(* The packets that precede the closing packet of a profile: its input     *)
(* ports, then its output ports.                                           *)
Listing(ins, outs) ==
    [i \in 1 .. Len(ins) |-> [cmd |-> "INPORT_PROFILE", port |-> ins[i]]]
    \o [i \in 1 .. Len(outs) |-> [cmd |-> "OUTPORT_PROFILE", port |-> outs[i]]]
PortListing == Listing(InPorts, OutPorts)

-----------------------------------------------------------------------------
(* d is the board: its lifecycle state, and how often on_execute has run.  *)
Boards == [state: States, execs: Nat]

Refusal(d, cmd, port) ==
    CASE cmd = "ACTIVATE" /\ d.state # "INACTIVE" -> "INVALID_PRESTATE"
      [] cmd \in {"DEACTIVATE", "EXECUTE"} /\ d.state # "ACTIVE" -> "INVALID_PRESTATE"
      [] cmd = "SEND_DATA" /\ \A i \in DOMAIN InPorts : InPorts[i] # port -> "INPORT_NOT_FOUND"
      [] cmd = "RECEIVE_DATA" /\ \A i \in DOMAIN OutPorts : OutPorts[i] # port -> "OUTPORT_NOT_FOUND"
      [] cmd = "RECEIVE_DATA" /\ d.execs = 0 -> "OUTPORT_BUFFER_EMPTY"
      [] OTHER -> "OK"

Effect(d, cmd, port) ==
    IF Refusal(d, cmd, port) # "OK" THEN d
    ELSE CASE cmd = "ACTIVATE" -> [d EXCEPT !.state = "ACTIVE"]
           [] cmd = "DEACTIVATE" -> [d EXCEPT !.state = "INACTIVE"]
           [] cmd = "EXECUTE" -> [d EXCEPT !.execs = @ + 1]
           [] OTHER -> d

Content(d, cmd, port) ==
    CASE cmd = "GET_STATE" -> d.state
      [] cmd = "GET_CONTEXT_TYPE" -> "PROXY_SYNCHRONOUS"
      [] cmd = "RECEIVE_DATA" -> port
      [] OTHER -> "none"

(* What the board may write back: its answer under the request's own       *)
(* command, or, when it refuses, a PACKET_ERROR that carries the result.   *)
Replies(d, cmd, port) ==
    LET refusal == Refusal(d, cmd, port) IN
    [cmd: {cmd} \cup (IF refusal = "OK" THEN {} ELSE {"PACKET_ERROR"}),
     res: {refusal},
     data: {Content(d, cmd, port)},
     ports: {IF cmd = "GET_PROFILE" THEN PortListing ELSE << >>}]
=============================================================================
