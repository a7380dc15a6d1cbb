------------------------------ MODULE Protocol ------------------------------
(***************************************************************************)
(* protocol_t: one operation at a time is turned into a request packet, up *)
(* to RetryCount times, and the packets that come back are matched against *)
(* it by their command alone.  No packet carries an identifier and nothing *)
(* ever flushes the line, so an answer that arrives after its attempt has  *)
(* been given up is still there for whoever reads next.                    *)
(*                                                                         *)
(* The line is two FIFO queues.  An entry of "down" is the burst of        *)
(* packets the board wrote for one request: the port packets not yet read, *)
(* then the closing packet.  Framing is below this module: is_new and      *)
(* receive hand over the packet at the head, time out, or spoil it.        *)
(***************************************************************************)
EXTENDS RTno, SequencesExt

CONSTANTS
    RetryCount,  \* retry_count of the retried operations
    Calls,       \* the operations the caller makes, a subset of Operations
    Faults,      \* what the line may do, a subset of FaultKinds
    MaxCalls     \* bound on the number of calls

FaultKinds == {"late", "damaged", "lost"}

ASSUME ProtocolAssumption ==
    /\ RetryCount \in Nat \ {0}
    /\ Calls \subseteq Operations
    /\ Faults \subseteq FaultKinds
    /\ MaxCalls \in Nat

VARIABLES
    pc,          \* where the host thread is: "idle", at the loop head, or waiting
    op, port,    \* the operation being called and the port it names
    tries,       \* requests sent for this call
    profile,     \* the local profile_t of get_profile
    ret,         \* what the last call returned
    up, down,    \* the line, towards the board and back
    dev,         \* the board
    calls,       \* history: calls made; a request carries the number of its call
    unanswered,  \* history: attempts that ended without reading a closing packet
    line         \* history: "timely", "late or damaged", or "lossy" once it lost a packet

host == <<pc, op, port, tries, profile, ret>>
vars == <<host, up, down, dev, calls, unanswered, line>>

NoProfile == [in |-> << >>, out |-> << >>]

Lines == {"timely", "late or damaged", "lossy"}
Requests == [cmd: Operations, port: PortNames \cup {"none"}, call: Nat]
Bursts == [cmd: Operations \cup PacketErrors, res: Results, data: Data,
           ports: Seq(PortPackets), call: Nat]
(* ret.reply, a history field: the call whose request produced the answer. *)
Returns == [op: Operations \cup {"none"}, port: PortNames \cup {"none"}, res: Results,
            data: Data, profile: Profiles, call: Nat, reply: Nat]

TypeOK ==
    /\ pc \in {"idle", "loop", "wait"}
    /\ op \in Operations \cup {"none"} /\ (pc # "idle" => op \in Operations)
    /\ port \in PortNames \cup {"none"}
    /\ tries \in Nat
    /\ profile \in Profiles
    /\ ret \in Returns
    /\ up \in Seq(Requests)
    /\ down \in Seq(Bursts)
    /\ dev \in Boards
    /\ calls \in Nat /\ unanswered \in Nat
    /\ line \in Lines

Init ==
    /\ pc = "idle" /\ op = "none" /\ port = "none" /\ tries = 0
    /\ profile = NoProfile
    /\ ret = [op |-> "none", port |-> "none", res |-> "OK", data |-> "none",
              profile |-> NoProfile, call |-> 0, reply |-> 0]
    /\ up = << >> /\ down = << >>
    /\ dev \in [state: States, execs: {0}]
    /\ calls = 0 /\ unanswered = 0
    /\ line = "timely"

Disturbed == line' = IF line = "lossy" THEN "lossy" ELSE "late or damaged"

-----------------------------------------------------------------------------
(* The host thread.                                                        *)

Attempts == IF op \in SingleShot THEN 1 ELSE RetryCount

(* The caller names a port only for the two data operations.               *)
Call(o, p) ==
    /\ pc = "idle" /\ calls < MaxCalls
    /\ o \in Calls /\ (o \in SingleShot <=> p # "none")
    /\ pc' = "loop" /\ op' = o /\ port' = p /\ tries' = 0
    /\ calls' = calls + 1
    /\ UNCHANGED <<profile, ret, up, down, dev, unanswered, line>>

(* A slip for the checks of the properties, like every definition named    *)
(* "...Slip" below: one profile_t for all the attempts of get_profile.     *)
SendSlip ==
    /\ pc = "loop" /\ tries < Attempts
    /\ up' = Append(up, [cmd |-> op, port |-> port, call |-> calls])
    /\ tries' = tries + 1
    /\ profile' = IF tries = 0 THEN NoProfile ELSE profile
    /\ pc' = "wait"
    /\ UNCHANGED <<op, port, ret, down, dev, calls, unanswered, line>>

(* ... or the request written twice over.                                  *)
SendTwiceSlip ==
    /\ pc = "loop" /\ tries < Attempts
    /\ LET req == [cmd |-> op, port |-> port, call |-> calls] IN up' = up \o <<req, req>>
    /\ tries' = tries + 1
    /\ profile' = NoProfile
    /\ pc' = "wait"
    /\ UNCHANGED <<op, port, ret, down, dev, calls, unanswered, line>>

(* Head of the retry loop: send, with a fresh profile_t for get_profile.   *)
Send ==
    /\ pc = "loop" /\ tries < Attempts
    /\ up' = Append(up, [cmd |-> op, port |-> port, call |-> calls])
    /\ tries' = tries + 1
    /\ profile' = NoProfile
    /\ pc' = "wait"
    /\ UNCHANGED <<op, port, ret, down, dev, calls, unanswered, line>>

Return(res, data, prof, reply) ==
    /\ pc' = "idle"
    /\ ret' = [op |-> op, port |-> port, res |-> res, data |-> data,
               profile |-> prof, call |-> calls, reply |-> reply]
    /\ UNCHANGED <<op, port, tries, profile>>

GiveUpSlip ==
    /\ pc = "loop" /\ tries > Attempts
    /\ Return(IF op = "GET_PROFILE" THEN "TIMEOUT" ELSE "ERR", "none", NoProfile, calls)
    /\ UNCHANGED <<up, down, dev, calls, unanswered, line>>

(* The loop ran out of attempts.                                           *)
GiveUp ==
    /\ pc = "loop" /\ tries >= Attempts
    /\ Return(IF op = "GET_PROFILE" THEN "TIMEOUT" ELSE "ERR", "none", NoProfile, calls)
    /\ UNCHANGED <<up, down, dev, calls, unanswered, line>>

NextAttempt == pc' = "loop" /\ UNCHANGED <<op, port, tries, profile, ret>>

(* Once the packet at the head of the line is taken off it.                *)
AfterPacket ==
    IF Head(down).ports # << >>
    THEN [down EXCEPT ![1].ports = Tail(@)]
    ELSE Tail(down)

(* A port packet: get_profile collects it, any other operation takes it    *)
(* for an unknown command and fails the attempt.                           *)
ReceivePort ==
    /\ pc = "wait" /\ down # << >> /\ Head(down).ports # << >>
    /\ down' = AfterPacket
    /\ LET pac == Head(Head(down).ports) IN
       \/ /\ op = "GET_PROFILE"
          /\ profile' = IF pac.cmd = "INPORT_PROFILE"
                        THEN [profile EXCEPT !.in = Append(@, pac.port)]
                        ELSE [profile EXCEPT !.out = Append(@, pac.port)]
          /\ UNCHANGED <<pc, op, port, tries, ret, unanswered>>
       \/ /\ op # "GET_PROFILE"
          /\ NextAttempt
          /\ unanswered' = unanswered + 1
    /\ UNCHANGED <<up, dev, calls, line>>

AtClosing == pc = "wait" /\ down # << >> /\ Head(down).ports = << >>

(* Any command passes for the awaited one.                                 *)
ReceiveAnswerSlip ==
    /\ AtClosing
    /\ LET pac == Head(down) IN
       Return(IF op \in SingleShot THEN pac.res ELSE "OK", pac.data, profile, pac.call)
    /\ down' = Tail(down)
    /\ UNCHANGED <<up, dev, calls, unanswered, line>>

(* The answer is looked at and left on the line.                           *)
AnswerLeftSlip ==
    /\ AtClosing /\ Head(down).cmd = op
    /\ LET pac == Head(down) IN
       Return(IF op \in SingleShot THEN pac.res ELSE "OK", pac.data, profile, pac.call)
    /\ UNCHANGED <<up, down, dev, calls, unanswered, line>>

(* The awaited command.  Only the two data operations look at the result   *)
(* the packet carries; the others report OK.                               *)
ReceiveAnswer ==
    /\ AtClosing /\ Head(down).cmd = op
    /\ LET pac == Head(down) IN
       Return(IF op \in SingleShot THEN pac.res ELSE "OK", pac.data, profile, pac.call)
    /\ down' = Tail(down)
    /\ UNCHANGED <<up, dev, calls, unanswered, line>>

(* Some other packet, outside get_profile: this attempt has failed.        *)
ReceiveOther ==
    /\ AtClosing /\ op # "GET_PROFILE" /\ Head(down).cmd # op
    /\ NextAttempt
    /\ down' = Tail(down)
    /\ UNCHANGED <<up, dev, calls, unanswered, line>>

(* The packet's command where a RESULT belongs.                            *)
ReceiveProfileErrorSlip ==
    /\ AtClosing /\ op = "GET_PROFILE" /\ Head(down).cmd \in PacketErrors
    /\ Return(Head(down).cmd, "none", NoProfile, Head(down).call)
    /\ down' = Tail(down)
    /\ UNCHANGED <<up, dev, calls, unanswered, line>>

(* In get_profile an error packet ends the call, without another attempt.  *)
ReceiveProfileError ==
    /\ AtClosing /\ op = "GET_PROFILE" /\ Head(down).cmd \in PacketErrors
    /\ LET pac == Head(down) IN
       Return(CASE pac.cmd = "PACKET_ERROR" -> "ERR"
                [] pac.cmd = "PACKET_ERROR_CHECKSUM" -> "CHECKSUM_ERROR"
                [] pac.cmd = "PACKET_ERROR_TIMEOUT" -> "TIMEOUT",
              "none", NoProfile, pac.call)
    /\ down' = Tail(down)
    /\ UNCHANGED <<up, dev, calls, unanswered, line>>

(* ... and a packet that belongs to another operation is skipped.          *)
SkipUnknown ==
    /\ AtClosing /\ op = "GET_PROFILE" /\ Head(down).cmd \in Operations \ {op}
    /\ down' = Tail(down)
    /\ UNCHANGED <<host, up, dev, calls, unanswered, line>>

(* is_new ran out of wait_usec: nothing had arrived, because nothing was   *)
(* coming or because it came later than that.                              *)
TimeOut ==
    /\ pc = "wait"
    /\ \/ up = << >> /\ down = << >> /\ UNCHANGED line
       \/ (up # << >> \/ down # << >>) /\ "late" \in Faults /\ Disturbed
    /\ NextAttempt
    /\ unanswered' = unanswered + 1
    /\ UNCHANGED <<up, down, dev, calls>>

(* The packet at the head broke off: is_new or receive timed out inside it *)
(* and what is left of it will be scanned over.                            *)
CutShort ==
    /\ pc = "wait" /\ down # << >> /\ "damaged" \in Faults
    /\ Disturbed
    /\ NextAttempt
    /\ down' = AfterPacket
    /\ unanswered' = unanswered + 1
    /\ UNCHANGED <<up, dev, calls>>

(* The packet at the head was read to its end with a wrong checksum.       *)
BadChecksum ==
    /\ pc = "wait" /\ down # << >> /\ "damaged" \in Faults
    /\ Disturbed
    /\ \/ op # "GET_PROFILE" /\ NextAttempt
       \/ op = "GET_PROFILE" /\ Return("CHECKSUM_ERROR", "none", NoProfile, calls)
    /\ down' = AfterPacket
    /\ unanswered' = unanswered + 1
    /\ UNCHANGED <<up, dev, calls>>

HostStep ==
    \/ Send \/ GiveUp \/ ReceivePort \/ ReceiveAnswer \/ ReceiveOther
    \/ ReceiveProfileError \/ SkipUnknown \/ TimeOut \/ CutShort \/ BadChecksum

-----------------------------------------------------------------------------
(* The board and the line.                                                 *)

(* The board takes a request that reached it whole and answers it.         *)
Perform ==
    /\ up # << >>
    /\ LET req == Head(up) IN
       /\ \E r \in Replies(dev, req.cmd, req.port) :
              down' = Append(down, [cmd |-> r.cmd, res |-> r.res, data |-> r.data,
                                    ports |-> r.ports, call |-> req.call])
       /\ dev' = Effect(dev, req.cmd, req.port)
    /\ up' = Tail(up)
    /\ UNCHANGED <<host, calls, unanswered, line>>

(* The board could not read the request.                                   *)
Reject ==
    /\ up # << >> /\ "damaged" \in Faults
    /\ Disturbed
    /\ \E c \in PacketErrors :
          down' = Append(down, [cmd |-> c, res |-> "ERR", data |-> "none",
                                ports |-> << >>, call |-> Head(up).call])
    /\ up' = Tail(up)
    /\ UNCHANGED <<host, dev, calls, unanswered>>

LoseRequest ==
    /\ up # << >> /\ "lost" \in Faults
    /\ line' = "lossy"
    /\ up' = Tail(up)
    /\ UNCHANGED <<host, down, dev, calls, unanswered>>

(* A packet vanishes.  The host cannot tell when, so it may as well be     *)
(* when the packet is next to be read.                                     *)
LosePacket ==
    /\ down # << >> /\ "lost" \in Faults
    /\ line' = "lossy"
    /\ down' = AfterPacket
    /\ UNCHANGED <<host, up, dev, calls, unanswered>>

Next ==
    \/ \E o \in Operations, p \in PortNames \cup {"none"} : Call(o, p)
    \/ HostStep
    \/ Perform \/ Reject \/ LoseRequest \/ LosePacket

Spec == Init /\ [][Next]_vars

(* The host thread runs, its timeouts are finite, and a board that has a   *)
(* request answers it; the caller is under no obligation.                  *)
FairSpec == Spec /\ WF_vars(HostStep) /\ WF_vars(Perform)

-----------------------------------------------------------------------------
(* Properties.                                                             *)

(* An answer may belong to an earlier call, for packets carry no           *)
(* identifier, but never to one further back than the number of attempts   *)
(* that ended without an answer; with none of those, every answer is the   *)
(* answer to the call that returns it (the retry loops, matched by         *)
(* command in wait_and_receive_command and get_profile).                   *)
StalenessBounded == ret.call <= ret.reply + unanswered

(* Requests and answers outstanding: one while an attempt waits, and one   *)
(* more for each attempt that was abandoned.  It is what the receive       *)
(* buffer has to hold, as nothing flushes it.                              *)
BacklogBounded ==
    Len(up) + Len(down) <= unanswered + (IF pc = "wait" THEN 1 ELSE 0)

(* If the line loses no packet silently, a profile that is returned lists  *)
(* the last ports of the component, in order and none twice: get_profile   *)
(* may have begun to read in the middle of the answer to an attempt it had *)
(* abandoned.                                                              *)
ProfileIsSuffix ==
    ret.op = "GET_PROFILE" /\ ret.res = "OK" /\ line # "lossy"
        => IsSuffix(Listing(ret.profile.in, ret.profile.out), PortListing)

(* Every call returns, whatever the line loses or damages.                 *)
CallReturns == pc # "idle" ~> pc = "idle"

(* What the usage text says of the operations.                             *)

(* "Eventually, the RTno's 'on_execute' function is called once."          *)
ExecutesOncePerCall == dev.execs <= calls

-----------------------------------------------------------------------------
(* On a line that answers in time and loses nothing, an operation is       *)
(* atomic.  It has been performed once its answer is on its way back.      *)
Answered == pc # "idle" /\ down # << >> /\ Head(down).cmd = op

Atomic == INSTANCE AtomicCall WITH
    phase <- IF pc = "idle" THEN "idle" ELSE IF Answered THEN "done" ELSE "called",
    answer <- IF Answered THEN [res |-> Head(down).res, data |-> Head(down).data]
              ELSE [res |-> "OK", data |-> "none"],
    ret <- [op |-> ret.op, port |-> ret.port, res |-> ret.res, data |-> ret.data,
            profile |-> ret.profile],
    calm <- (line = "timely")

AtomicWhenTimely == Atomic!Spec
=============================================================================
