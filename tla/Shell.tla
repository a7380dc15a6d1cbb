-------------------------------- MODULE Shell --------------------------------
(***************************************************************************)
(* rtno_main.cpp: the commands that open and close a device, and those     *)
(* that speak to the component behind it.  Devices are numbered in the     *)
(* order in which they were opened.  An EtherTcp has a thread that moves   *)
(* what arrives into the ring that every EtherTcp of the program shares; a *)
(* Serial is read directly.                                                *)
(*                                                                         *)
(* A call of protocol_t is one request and what is read until its answer   *)
(* or a timeout; its retries are in Protocol, the bytes below it in        *)
(* Transport, RxRing and SharedRing.  Requests and answers may be lost,    *)
(* and a component may refuse what it is asked.                            *)
(***************************************************************************)
EXTENDS PortData

CONSTANTS
    Components,        \* behind the devices: the type code of each port
    Modes,             \* how the program is started
    Kinds,             \* of devices: "tcp", "serial"
    Calls,             \* operations of the commands that make one call
    MaxOpens,          \* bound on the devices opened
    MaxCommands        \* bound on the commands to a component

ASSUME ShellAssumption ==
    /\ \A c \in Components : /\ c.in \in [DOMAIN c.in -> TypeCodes]
                             /\ c.out \in [DOMAIN c.out -> TypeCodes]
    /\ Modes \subseteq {"whole", "interactive", "once"}
    /\ Kinds \subseteq {"tcp", "serial"}
    /\ Calls \subseteq {"GET_PROFILE", "GET_STATE", "GET_CONTEXT_TYPE", "ACTIVATE",
                        "DEACTIVATE", "EXECUTE"}
    /\ MaxOpens \in Nat /\ MaxCommands \in Nat

VARIABLES
    mode,          \* which of do_whole_interactive, do_interactive or one command
    pc,            \* where the main thread is
    serial_port,   \* the device the pointer points to, 0 for null
    rtno,          \* the device of the protocol_t the pointer points to, 0 for null
    cmd,           \* the command being carried out
    ret,           \* what the last call that ended returned
    dev,           \* every device ever opened, and the component behind it
    ring,          \* answers in the ring of EtherTcp.cpp, with the device they came from
    eof,           \* the input has ended
    dropped,       \* history: devices that were open when another was opened
    typed          \* history: how many commands do_main was given

main == <<mode, pc, serial_port, rtno, cmd, ret, dropped, typed>>
vars == <<main, dev, ring, eof>>

Ids == 1 .. Len(dev)
Stopped == pc \in {"ended", "aborted"}
Operations == Calls \cup {"GET_PROFILE", "SEND_DATA", "RECEIVE_DATA"}
InPorts == UNION {DOMAIN c.in : c \in Components}
OutPorts == UNION {DOMAIN c.out : c \in Components}

Lines ==
    [op: Calls, port: {"none"}, text: {<< >>}]
    \cup [op: {"inject"}, port: InPorts, text: Texts]
    \cup [op: {"print"}, port: OutPorts, text: {<< >>}]
NoCommand == [op |-> "none", port |-> "none", text |-> << >>]
Commands == Lines \cup {NoCommand}
Requests == [op: Operations, port: InPorts \cup OutPorts \cup {"none"}, value: Seq(Elements)]
(* The commands of answers.  Of their results, that they are OK or not.    *)
Answers == [op: Operations \cup {"PACKET_ERROR"}, res: {"OK", "ERR"}]
(* What the bytes of two threads make of each other is not a packet.       *)
Items == [from: Nat, op: Operations \cup {"PACKET_ERROR", "spoilt"}, res: {"OK", "ERR"}]
Results == {"OK", "ERR", "TIMEOUT", "INPORT_NOT_FOUND", "OUTPORT_NOT_FOUND"}
(* failed, gaveup: histories, whether a request was lost or refused, and   *)
(* whether a call ended without an answer.                                 *)
Devices == [kind: Kinds, component: Components, deleted: BOOLEAN,
            thread: {"none", "starting", "running", "over"}, Endflag: BOOLEAN,
            asked: Seq(Requests), answers: Seq(Answers), in: [InPorts -> Seq(Elements)],
            failed: BOOLEAN, gaveup: BOOLEAN]

(* The pointers point to devices, the ring holds answers of devices, and   *)
(* the component's buffers hold elements of port data.                     *)
TypeOK ==
    /\ mode \in Modes
    /\ pc \in {"start", "prompt", "call", "profile", "data", "finish", "delete",
               "ended", "aborted"}
    /\ serial_port \in Ids \cup {0} /\ rtno \in Ids \cup {0}
    /\ cmd \in Commands
    /\ ret \in [cmd: Commands, res: Results, dev: Ids \cup {0}, from: Ids \cup {0}]
    /\ dev \in Seq(Devices)
    /\ ring \in Seq(Items) /\ \A i \in DOMAIN ring : ring[i].from \in Ids
    /\ eof \in BOOLEAN
    /\ dropped \subseteq Ids
    /\ typed \in Nat

Init ==
    /\ mode \in Modes
    /\ pc = IF mode = "whole" THEN "prompt" ELSE "start"
    /\ serial_port = 0 /\ rtno = 0
    /\ cmd = NoCommand
    /\ ret = [cmd |-> NoCommand, res |-> "OK", dev |-> 0, from |-> 0]
    /\ dev = << >> /\ ring = << >>
    /\ eof = FALSE /\ dropped = {} /\ typed = 0

-----------------------------------------------------------------------------
(* Opening and closing.                                                    *)

(* create_serial.  The constructor of EtherTcp starts the thread.          *)
NewDevice(kind, component) ==
    [kind |-> kind, component |-> component, deleted |-> FALSE,
     thread |-> IF kind = "tcp" THEN "starting" ELSE "none", Endflag |-> FALSE,
     asked |-> << >>, answers |-> << >>, in |-> [p \in InPorts |-> << >>],
     failed |-> FALSE, gaveup |-> FALSE]

Prompted == pc = "prompt" /\ ~eof

(* Slip: a protocol_t that is there is kept.                               *)
OpenSlip(kind, component) ==
    /\ pc = "start" \/ (Prompted /\ mode = "whole")
    /\ Len(dev) < MaxOpens
    /\ dev' = Append(dev, NewDevice(kind, component))
    /\ serial_port' = Len(dev) + 1
    /\ rtno' = IF rtno = 0 THEN Len(dev) + 1 ELSE rtno
    /\ dropped' = dropped \cup ({serial_port} \ {0})
    /\ pc' = "prompt"
    /\ UNCHANGED <<mode, typed, cmd, ret, ring, eof>>

(* open, or the start of a program that was given a device.  A device that *)
(* is open is not looked at.                                               *)
Open(kind, component) ==
    /\ pc = "start" \/ (Prompted /\ mode = "whole")
    /\ Len(dev) < MaxOpens
    /\ dev' = Append(dev, NewDevice(kind, component))
    /\ serial_port' = Len(dev) + 1
    /\ rtno' = Len(dev) + 1
    /\ dropped' = dropped \cup ({serial_port} \ {0})
    /\ pc' = "prompt"
    /\ UNCHANGED <<mode, typed, cmd, ret, ring, eof>>

(* Slip: the pointer is set before the constructor has thrown.             *)
OpenFailsSlip ==
    /\ pc = "start" \/ (Prompted /\ mode = "whole")
    /\ serial_port' = Len(dev) + 1
    /\ dropped' = dropped \cup ({serial_port} \ {0})
    /\ pc' = IF pc = "start" THEN "ended" ELSE "prompt"
    /\ UNCHANGED <<mode, typed, rtno, cmd, ret, dev, ring, eof>>

(* create_serial caught an exception: the prompt goes on with the          *)
(* protocol_t it had, and a program that was given the device returns -1.  *)
OpenFails ==
    /\ pc = "start" \/ (Prompted /\ mode = "whole")
    /\ serial_port' = 0
    /\ dropped' = dropped \cup ({serial_port} \ {0})
    /\ pc' = IF pc = "start" THEN "ended" ELSE "prompt"
    /\ UNCHANGED <<mode, typed, rtno, cmd, ret, dev, ring, eof>>

(* delete rtno; delete serial_port.  ~EtherTcp sets the flag and deletes   *)
(* the socket; then the members go, the thread among them.                 *)
Delete(next) ==
    /\ rtno' = 0
    /\ IF serial_port = 0
       THEN pc' = next /\ UNCHANGED dev
       ELSE /\ pc' = IF dev[serial_port].kind = "tcp" THEN "delete" ELSE next
            /\ dev' = [dev EXCEPT ![serial_port].deleted = TRUE, ![serial_port].Endflag = TRUE]
    /\ serial_port' = IF pc' = "delete" THEN serial_port ELSE 0
    /\ UNCHANGED <<mode, cmd, ret, ring, eof, dropped, typed>>

Close ==
    /\ Prompted /\ mode = "whole"
    /\ Delete("prompt")

(* do_interactive leaves without deleting anything.                        *)
Exit ==
    /\ Prompted
    /\ \/ mode = "whole" /\ Delete("ended")
       \/ mode = "interactive" /\ pc' = "ended"
          /\ UNCHANGED <<mode, serial_port, rtno, cmd, ret, dev, ring, eof, dropped, typed>>

(* After the one command of the command line.                              *)
Finish ==
    /\ pc = "finish"
    /\ Delete("ended")

(* Slip: the thread detached in the destructor.                            *)
TerminateSlip ==
    /\ pc = "delete"
    /\ pc' = IF mode = "whole" THEN "prompt" ELSE "ended"
    /\ serial_port' = 0
    /\ UNCHANGED <<mode, rtno, cmd, ret, dropped, typed, dev, ring, eof>>

(* m_thread is neither joined nor detached: ~thread calls terminate.       *)
Terminate ==
    /\ pc = "delete"
    /\ pc' = "aborted"
    /\ UNCHANGED <<mode, serial_port, rtno, cmd, ret, dropped, typed, dev, ring, eof>>

EndOfInput ==
    /\ ~Stopped /\ mode # "once"
    /\ eof' = TRUE
    /\ UNCHANGED <<main, dev, ring>>

(* Slip: the end is noticed only when there is no device.                  *)
QuitSlip ==
    /\ pc = "prompt" /\ eof /\ mode = "whole" /\ rtno = 0
    /\ pc' = "ended"
    /\ UNCHANGED <<mode, serial_port, rtno, cmd, ret, dropped, typed, dev, ring, eof>>

(* do_interactive, which does not look whether getline succeeds, goes      *)
(* round its loop instead.                                                 *)
Quit ==
    /\ pc = "prompt" /\ eof /\ mode = "whole"
    /\ pc' = "ended"
    /\ UNCHANGED <<mode, serial_port, rtno, cmd, ret, dropped, typed, dev, ring, eof>>

-----------------------------------------------------------------------------
(* Commands to the component.                                              *)

Ask(op, port, value) ==
    dev' = [dev EXCEPT ![rtno].asked = Append(@, [op |-> op, port |-> port, value |-> value])]

Resume == IF mode = "once" THEN "finish" ELSE "prompt"

(* do_main, which ignores a command it does not know.  The command line of *)
(* "once" is its only one; do_interactive always has a device.             *)
Command(c) ==
    /\ Prompted /\ serial_port # 0 /\ typed < MaxCommands
    /\ mode = "once" => typed = 0
    /\ cmd' = c
    /\ \/ c.op = "none" /\ pc' = Resume /\ UNCHANGED dev
       \/ c.op \in Calls /\ pc' = "call" /\ Ask(c.op, "none", << >>)
       \/ c.op \in {"inject", "print"} /\ pc' = "profile" /\ Ask("GET_PROFILE", "none", << >>)
    /\ typed' = typed + 1
    /\ UNCHANGED <<mode, serial_port, rtno, ret, dropped, ring, eof>>

Return(res, from) ==
    /\ pc' = Resume
    /\ ret' = [cmd |-> cmd, res |-> res, dev |-> rtno, from |-> from]
    /\ UNCHANGED <<mode, serial_port, rtno, cmd, dropped, typed>>

Waiting == pc \in {"call", "profile", "data"}
Awaited == CASE pc = "call" -> cmd.op
             [] pc = "profile" -> "GET_PROFILE"
             [] pc = "data" -> IF cmd.op = "inject" THEN "SEND_DATA" ELSE "RECEIVE_DATA"
             [] OTHER -> "none"

(* The answer at the head of what the device of rtno has received.         *)
Arrived == IF dev[rtno].kind = "tcp" THEN ring
           ELSE [i \in DOMAIN dev[rtno].answers |->
                    [from |-> rtno, op |-> dev[rtno].answers[i].op, res |-> dev[rtno].answers[i].res]]
Take(d) == IF d[rtno].kind = "tcp" THEN ring' = Tail(ring) /\ dev' = d
           ELSE dev' = [d EXCEPT ![rtno].answers = Tail(@)] /\ UNCHANGED ring
AskAndTake(op, value) ==
    /\ pc' = "data"
    /\ Take([dev EXCEPT ![rtno].asked =
          Append(@, [op |-> op, port |-> cmd.port, value |-> value])])
    /\ UNCHANGED <<mode, serial_port, rtno, cmd, ret, dropped, typed>>

(* inject and print find the port in the profile that came, whoever's it   *)
(* is: it may lack the first ports of a component                          *)
(* (Protocol!ProfileIsSuffix).  Then they speak to it by its type.         *)
Inject(answer) ==
    LET types == dev[answer.from].component.in IN
    /\ cmd.op = "inject"
    /\ \/ /\ cmd.port \in DOMAIN types /\ types[cmd.port] \in Injected
          /\ AskAndTake("SEND_DATA", Sent(types[cmd.port], cmd.text))
       \/ /\ cmd.port \in DOMAIN types /\ types[cmd.port] \notin Injected
          /\ Return("OK", answer.from) /\ Take(dev)
       \/ Return("INPORT_NOT_FOUND", answer.from) /\ Take(dev)

PrintPort(answer) ==
    LET types == dev[answer.from].component.out IN
    /\ cmd.op = "print"
    /\ \/ /\ cmd.port \in DOMAIN types /\ types[cmd.port] \in Printed
          /\ AskAndTake("RECEIVE_DATA", << >>)
       \/ /\ cmd.port \in DOMAIN types /\ types[cmd.port] \notin Printed \cup Skipped
          /\ Return("ERR", answer.from) /\ Take(dev)
       \/ Return("OUTPORT_NOT_FOUND", answer.from) /\ Take(dev)

(* Slip: no operation looks at the result.                                 *)
AnswerSlip ==
    /\ Waiting /\ Arrived # << >> /\ Head(Arrived).op = Awaited
    /\ LET answer == Head(Arrived) IN
       \/ pc = "profile" /\ (Inject(answer) \/ PrintPort(answer))
       \/ pc \in {"call", "data"} /\ Return("OK", answer.from) /\ Take(dev)
    /\ UNCHANGED eof

(* The answer is taken by its command, whoever it is from.  Only the two   *)
(* data operations look at the result it carries.                          *)
Answer ==
    /\ Waiting /\ Arrived # << >> /\ Head(Arrived).op = Awaited
    /\ LET answer == Head(Arrived) IN
       \/ pc = "profile" /\ (Inject(answer) \/ PrintPort(answer))
       \/ pc = "data" /\ Return(answer.res, answer.from) /\ Take(dev)
       \/ pc = "call" /\ Return("OK", answer.from) /\ Take(dev)
    /\ UNCHANGED eof

(* A PACKET_ERROR, of whichever kind, ends a call.                         *)
AnswerError ==
    /\ Waiting /\ Arrived # << >> /\ Head(Arrived).op = "PACKET_ERROR"
    /\ Return("ERR", Head(Arrived).from)
    /\ Take(dev)
    /\ UNCHANGED eof

(* What is not a packet may be scanned over in search of one, and          *)
(* get_profile skips the answers to other operations.                      *)
SkipAnswer ==
    /\ Waiting /\ Arrived # << >> /\ Head(Arrived).op \notin {Awaited, "PACKET_ERROR"}
    /\ Head(Arrived).op = "spoilt" \/ Awaited = "GET_PROFILE"
    /\ Take(dev)
    /\ UNCHANGED <<main, eof>>

GivenUp == [dev EXCEPT ![rtno].gaveup = TRUE]
Failure == IF Awaited = "GET_PROFILE" THEN "TIMEOUT" ELSE "ERR"

(* Another answer, or what is not one, is taken for the failure of the     *)
(* call.                                                                   *)
OtherAnswer ==
    /\ Waiting /\ Arrived # << >> /\ Head(Arrived).op \notin {Awaited, "PACKET_ERROR"}
    /\ Head(Arrived).op = "spoilt" \/ Awaited # "GET_PROFILE"
    /\ Return(Failure, Head(Arrived).from)
    /\ Take(GivenUp)
    /\ UNCHANGED eof

TimeOut ==
    /\ Waiting
    /\ Return(Failure, 0)
    /\ dev' = GivenUp
    /\ UNCHANGED <<ring, eof>>

-----------------------------------------------------------------------------
(* The threads and the components.                                         *)

SvcStart(d) ==
    /\ ~Stopped /\ dev[d].thread = "starting"
    /\ dev' = [dev EXCEPT ![d].thread = "running", ![d].Endflag = FALSE]
    /\ UNCHANGED <<main, ring, eof>>

(* Another thread is pushing an answer into the ring, or has just done so. *)
Meets(d) ==
    \E e \in Ids \ {d} :
        /\ dev[e].thread = "running"
        /\ dev[e].answers # << >> \/ (ring # << >> /\ ring[Len(ring)].from = e)

(* It may have looked at the flag before it was set.  The Socket it uses   *)
(* may be deleted by then, but deleting one does not close it.  The pushes *)
(* of two threads can spoil each other (SharedRing).                       *)
SvcReceive(d) ==
    /\ ~Stopped /\ dev[d].thread = "running" /\ dev[d].answers # << >>
    /\ LET answer == Head(dev[d].answers) IN
       \E op \in {answer.op} \cup (IF Meets(d) THEN {"spoilt"} ELSE {}) :
          ring' = Append(ring, [from |-> d, op |-> op, res |-> answer.res])
    /\ dev' = [dev EXCEPT ![d].answers = Tail(@)]
    /\ UNCHANGED <<main, eof>>

SvcEnd(d) ==
    /\ ~Stopped /\ dev[d].thread = "running" /\ dev[d].Endflag
    /\ dev' = [dev EXCEPT ![d].thread = "over"]
    /\ UNCHANGED <<main, ring, eof>>

(* The component takes a request, and answers it.                          *)
Known(d, req) ==
    CASE req.op = "SEND_DATA" -> req.port \in DOMAIN dev[d].component.in
      [] req.op = "RECEIVE_DATA" -> req.port \in DOMAIN dev[d].component.out
      [] OTHER -> TRUE

Perform(d) ==
    /\ ~Stopped /\ dev[d].asked # << >> /\ Known(d, Head(dev[d].asked))
    /\ LET req == Head(dev[d].asked) IN
       dev' = [dev EXCEPT ![d].asked = Tail(@),
                          ![d].answers = Append(@, [op |-> req.op, res |-> "OK"]),
                          ![d].in = IF req.op = "SEND_DATA" THEN [@ EXCEPT ![req.port] = req.value]
                                    ELSE @]
    /\ UNCHANGED <<main, ring, eof>>

(* It refuses it, or could not read it, and says so by a result or by a    *)
(* PACKET_ERROR.                                                           *)
Refuse(d) ==
    /\ ~Stopped /\ dev[d].asked # << >>
    /\ \E op \in {Head(dev[d].asked).op, "PACKET_ERROR"} :
          dev' = [dev EXCEPT ![d].asked = Tail(@),
                             ![d].answers = Append(@, [op |-> op, res |-> "ERR"]),
                             ![d].failed = TRUE]
    /\ UNCHANGED <<main, ring, eof>>

LoseRequest(d) ==
    /\ ~Stopped /\ dev[d].asked # << >>
    /\ dev' = [dev EXCEPT ![d].asked = Tail(@), ![d].failed = TRUE]
    /\ UNCHANGED <<main, ring, eof>>

LoseAnswer(d) ==
    /\ ~Stopped /\ dev[d].answers # << >>
    /\ dev' = [dev EXCEPT ![d].answers = Tail(@)]
    /\ UNCHANGED <<main, ring, eof>>

Answered == Answer \/ AnswerError \/ SkipAnswer \/ OtherAnswer \/ TimeOut

Next ==
    \/ \E kind \in Kinds, component \in Components : Open(kind, component)
    \/ OpenFails \/ Close \/ Exit \/ Finish \/ Terminate \/ Quit \/ EndOfInput
    \/ \E c \in Commands : Command(c)
    \/ Answered
    \/ \E d \in Ids : \/ SvcStart(d) \/ SvcReceive(d) \/ SvcEnd(d)
                      \/ Perform(d) \/ Refuse(d) \/ LoseRequest(d) \/ LoseAnswer(d)

Spec == Init /\ [][Next]_vars

(* The main thread runs once it has nothing to wait for but a timeout.     *)
FairSpec == Spec /\ WF_vars(Quit) /\ WF_vars(Answered) /\ WF_vars(Terminate)

-----------------------------------------------------------------------------
(* Properties.                                                             *)

(* A command is carried out with the protocol_t of the device that is open *)
(* and with no other: the two pointers, which open, an open that fails and *)
(* close set apart from each other, agree whenever do_main may be called,  *)
(* and the device they lead to has not been deleted.                       *)
ProtocolMatchesDevice ==
    serial_port # 0 /\ pc \notin {"delete", "aborted"}
        => rtno = serial_port /\ ~dev[serial_port].deleted

(* The ring is shared by every EtherTcp, and a device that was dropped by  *)
(* opening another still feeds it.  An answer that is not from the device  *)
(* of the command can come from such a one only, and only if both are      *)
(* EtherTcp.                                                               *)
ForeignOnlyFromDropped ==
    ret.from \notin {0, ret.dev}
        => /\ ret.from \in dropped
           /\ dev[ret.from].kind = "tcp" /\ dev[ret.dev].kind = "tcp"

(* What the component's port holds once it has read all it was sent.       *)
EndsUpWith(d, port, value) ==
    LET sent == {i \in DOMAIN d.asked : d.asked[i].op = "SEND_DATA" /\ d.asked[i].port = port}
    IN IF sent = {} THEN d.in[port] = value
       ELSE \E i \in sent : d.asked[i].value = value /\ \A j \in sent : j <= i

(* What an inject that reported OK has sent to a port of one value whose   *)
(* type it has a branch for is what the port ends up with.                 *)
InjectIsKept ==
    LET type == dev[ret.dev].component.in
        port == ret.cmd.port
    IN  ret.cmd.op = "inject" /\ ret.res = "OK" /\ pc # "data"
        /\ port \in DOMAIN type /\ type[port] \in Scalars \cap Injected
            => EndsUpWith(dev[ret.dev], port, Meant(type[port], ret.cmd.text))

(* No answer but that of d to the call that waits can come for d: none of  *)
(* its calls was given up, and no EtherTcp that was dropped shares the     *)
(* ring with it.                                                           *)
Alone(d) == dev[d].kind = "tcp" => \A e \in dropped : dev[e].kind # "tcp"
Undisturbed(d) == ~dev[d].gaveup /\ Alone(d)

(* Whatever d was asked it has done or will do, and the others whose       *)
(* answers may come for d have the same component.                         *)
Alike(d) ==
    dev[d].kind = "tcp"
        => \A e \in Ids : dev[e].kind = "tcp" => dev[e].component = dev[d].component
Obeying(d) == ~dev[d].failed /\ Alike(d)

(* When inject reports OK for a port of one value whose type it has a      *)
(* branch for, the value that was typed is in the port or on its way       *)
(* there, and nothing sent earlier can still replace it.  If no answer     *)
(* could be taken for another's, that is so however many requests were     *)
(* lost and refused; and if nothing was lost or refused, whoever's answer  *)
(* made inject report OK.                                                  *)
ScalarInjectIsKept ==
    ret.dev # 0 /\ (Undisturbed(ret.dev) \/ Obeying(ret.dev))
        => InjectIsKept

(* Ctrl+D ends the program with a device open, in the middle of a command, *)
(* or not opened at all.                                                   *)
EndOfInputEnds == eof /\ mode = "whole" ~> Stopped

(* What the usage text says.                                               *)

(* "This function send value to inport's input buffer."  Not even for the  *)
(* types that inject has a branch for.                                     *)
InjectOkMeansSent == InjectIsKept

(* "close.     # Close serial device."                                     *)
NeverAborts == pc # "aborted"

=============================================================================
