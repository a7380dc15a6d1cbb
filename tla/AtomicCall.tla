----------------------------- MODULE AtomicCall -----------------------------
(***************************************************************************)
(* What a caller of protocol_t hopes for: an operation takes effect on the *)
(* board at one instant between its call and its return, at most once, and *)
(* what it returns is what the board had at that instant.  No line, no     *)
(* attempts, no packets.                                                   *)
(***************************************************************************)
EXTENDS RTno

VARIABLES
    phase,      \* "idle", "called" (not yet performed) or "done"
    op, port,   \* the operation and the port it names
    answer,     \* what the board answered, once done
    dev,        \* the board
    ret,        \* what the last call returned
    calm        \* nothing has disturbed the line so far

vars == <<phase, op, port, answer, dev, ret, calm>>

NoAnswer == [res |-> "OK", data |-> "none"]
Failures == {"ERR", "CHECKSUM_ERROR", "TIMEOUT"}

Init ==
    /\ phase = "idle" /\ op = "none" /\ port = "none" /\ answer = NoAnswer
    /\ dev \in [state: States, execs: {0}]
    /\ ret = [op |-> "none", port |-> "none", res |-> "OK", data |-> "none",
              profile |-> [in |-> << >>, out |-> << >>]]
    /\ calm = TRUE

Call ==
    /\ phase = "idle" /\ phase' = "called"
    /\ op' \in Operations
    /\ port' \in IF op' \in SingleShot THEN PortNames ELSE {"none"}
    /\ UNCHANGED <<answer, dev, ret>>

Perform ==
    /\ phase = "called" /\ phase' = "done"
    /\ dev' = Effect(dev, op, port)
    /\ answer' = [res |-> Refusal(dev, op, port), data |-> Content(dev, op, port)]
    /\ UNCHANGED <<op, port, ret>>

(* Only the data operations pass the board's result on.                    *)
Return ==
    /\ phase = "done" /\ phase' = "idle"
    /\ ret' = [op |-> op, port |-> port, data |-> answer.data,
               res |-> IF op \in SingleShot THEN answer.res ELSE "OK",
               profile |-> IF op = "GET_PROFILE" THEN [in |-> InPorts, out |-> OutPorts]
                           ELSE [in |-> << >>, out |-> << >>]]
    /\ answer' = NoAnswer
    /\ UNCHANGED <<op, port, dev>>

(* A call the board refuses may fail, and then nothing has happened.       *)
Fail ==
    /\ phase = "called" /\ phase' = "idle"
    /\ Refusal(dev, op, port) # "OK"
    /\ \E f \in Failures :
          ret' = [op |-> op, port |-> port, res |-> f, data |-> "none",
                  profile |-> [in |-> << >>, out |-> << >>]]
    /\ UNCHANGED <<op, port, answer, dev>>

(* Once the line has been disturbed nothing is promised any more.          *)
Next ==
    \/ calm /\ calm' /\ (Call \/ Perform \/ Return \/ Fail)
    \/ ~calm'

Spec == Init /\ [][Next]_vars
=============================================================================
