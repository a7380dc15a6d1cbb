----------------------------- MODULE ShellProofs -----------------------------
(***************************************************************************)
(* What holds of the shell for any component, any number of devices opened *)
(* and any number of commands.                                             *)
(***************************************************************************)
EXTENDS Shell, TLAPS

(* A command is carried out while a device is open.                        *)
DeviceOpen == Waiting \/ pc = "delete" => serial_port # 0

TypeInv == TypeOK /\ DeviceOpen /\ ProtocolMatchesDevice

-----------------------------------------------------------------------------
(* What a step does to the devices that are there.                         *)

(* What create_serial makes is a device.                                   *)
LEMMA NewDeviceType ==
    ASSUME NEW kind \in Kinds, NEW component \in Components
    PROVE  NewDevice(kind, component) \in Devices
<1>1. [p \in InPorts |-> << >>] \in [InPorts -> Seq(Elements)]
  OBVIOUS
<1> QED
  BY <1>1 DEF NewDevice, Devices

(* None is made, deleted, or given another kind or component.              *)
Like(x, y) ==
    /\ x.kind = y.kind /\ x.component = y.component /\ x.deleted = y.deleted
    /\ x.thread = "none" <=> y.thread = "none"
Kept == \/ UNCHANGED dev
        \/ \E i \in Ids : \E x \in Devices : Like(x, dev[i]) /\ dev' = [dev EXCEPT ![i] = x]

(* A step on one device leaves all of them what they were.                 *)
LEMMA KeptDevices ==
    ASSUME dev \in Seq(Devices), Kept
    PROVE  /\ dev' \in Seq(Devices) /\ Ids' = Ids
           /\ \A i \in Ids : Like(dev'[i], dev[i])
<1>1. CASE UNCHANGED dev
  BY <1>1 DEF Ids, Like
<1>2. ASSUME NEW i \in Ids, NEW x \in Devices, Like(x, dev[i]), dev' = [dev EXCEPT ![i] = x]
      PROVE  /\ dev' \in Seq(Devices) /\ Ids' = Ids
             /\ \A j \in Ids : Like(dev'[j], dev[j])
  <2>1. dev' \in Seq(Devices) /\ Len(dev') = Len(dev)
    BY <1>2 DEF Ids
  <2>2. ASSUME NEW j \in Ids PROVE Like(dev'[j], dev[j])
    <3>1. dev'[j] = IF j = i THEN x ELSE dev[j]
      BY <1>2 DEF Ids
    <3> QED
      BY <1>2, <3>1 DEF Like
  <2> QED
    BY <2>1, <2>2 DEF Ids
<1> QED
  BY <1>1, <1>2 DEF Kept

(* Sending a request to a device changes neither what it is nor its        *)
(* answers.                                                                *)
LEMMA AskedType ==
    ASSUME NEW d \in Devices, NEW req \in Requests
    PROVE  LET x == [d EXCEPT !.asked = Append(@, req)]
           IN x \in Devices /\ Like(x, d) /\ x.answers = d.answers
<1>1. Append(d.asked, req) \in Seq(Requests)
  BY DEF Devices
<1> QED
  BY <1>1 DEF Devices, Like

(* Taking an answer from a device leaves it a device, and the answer is    *)
(* one.                                                                    *)
LEMMA AnsweredType ==
    ASSUME NEW d \in Devices, d.answers # << >>
    PROVE  LET x == [d EXCEPT !.answers = Tail(@)]
           IN x \in Devices /\ Like(x, d) /\ Head(d.answers) \in Answers
<1>1. Tail(d.answers) \in Seq(Answers) /\ Head(d.answers) \in Answers
  BY DEF Devices
<1> QED
  BY <1>1 DEF Devices, Like

(* The thread of an EtherTcp goes on without changing what the device is.  *)
LEMMA ThreadType ==
    ASSUME NEW d \in Devices, NEW t \in {"running", "over"}, d.thread # "none"
    PROVE  /\ [d EXCEPT !.thread = t, !.Endflag = FALSE] \in Devices
           /\ Like([d EXCEPT !.thread = t, !.Endflag = FALSE], d)
           /\ [d EXCEPT !.thread = t] \in Devices
           /\ Like([d EXCEPT !.thread = t], d)
  BY DEF Devices, Like

(* ~EtherTcp leaves the record of the device as it was but for the two     *)
(* flags.                                                                  *)
LEMMA DeletedType ==
    ASSUME NEW d \in Devices
    PROVE  LET x == [d EXCEPT !.deleted = TRUE, !.Endflag = TRUE]
           IN x \in Devices /\ x.kind = d.kind /\ x.thread = d.thread /\ x.component = d.component
  BY DEF Devices

(* inject sends elements for every type and text, the vector's pointers    *)
(* among them.                                                             *)
LEMMA SentType ==
    ASSUME NEW type \in TypeCodes, NEW text \in Texts
    PROVE  Sent(type, text) \in Seq(Elements)
<1>1. text \in Seq(Words) /\ text # << >>
  BY WordsAssumption
<1>2. Head(text) \in Words
  BY <1>1
<1>n. ASSUME NEW w \in Words PROVE Element(Number[w]) \in Elements /\ Element(Letter[w]) \in Elements
  BY <1>n, WordsAssumption DEF Element, Elements
<1>e. ASSUME NEW n \in Nat PROVE Element(n) \in Elements
  BY DEF Element, Elements
<1>3. CASE type \in Sequenced
  <2>1. [vector |-> "pointers"] \in Elements
    BY DEF Elements
  <2>2. Sent(type, text) = [i \in 1 .. Len(text) |-> [vector |-> "pointers"]] /\ Len(text) \in Nat
    BY <1>1, <1>3 DEF Sent
  <2> DEFINE v == [vector |-> "pointers"]
  <2> HIDE DEF v
  <2>3. [i \in 1 .. Len(text) |-> v] \in Seq(Elements)
    BY <2>1, <2>2 DEF v
  <2> QED
    BY <2>2, <2>3 DEF v
<1>4. CASE type \notin Sequenced
  <2>1. Sent(type, text) = Meant(type, text)
    BY <1>4 DEF Sent
  <2>2. \/ Meant(type, text) = <<Element(1)>> \/ Meant(type, text) = <<Element(0)>>
        \/ Meant(type, text) = <<Element(Letter[Head(text)])>>
        \/ Meant(type, text) = <<Element(Number[Head(text)])>>
    BY <1>4 DEF Meant
  <2>3. ASSUME NEW x \in Elements PROVE <<x>> \in Seq(Elements)
    OBVIOUS
  <2>4. /\ Element(0) \in Elements /\ Element(1) \in Elements
        /\ Element(Letter[Head(text)]) \in Elements /\ Element(Number[Head(text)]) \in Elements
    BY <1>2, <1>e, <1>n
  <2>5. Meant(type, text) \in Seq(Elements)
    BY <2>2, <2>3, <2>4
  <2> QED
    BY <2>1, <2>5
<1> QED
  BY <1>3, <1>4

-----------------------------------------------------------------------------
(* Answers.                                                                *)

(* While an answer is awaited the two pointers lead to the device that is  *)
(* open.                                                                   *)
LEMMA OpenDevice ==
    ASSUME TypeInv, Waiting
    PROVE  rtno \in Ids /\ rtno = serial_port /\ dev[rtno] \in Devices
<1>1. rtno = serial_port /\ serial_port # 0
  BY DEF TypeInv, DeviceOpen, ProtocolMatchesDevice, Waiting
<1>2. rtno \in Ids /\ dev \in Seq(Devices)
  BY <1>1 DEF TypeInv, TypeOK
<1> QED
  BY <1>1, <1>2 DEF Ids

(* What has arrived is from the ring for an EtherTcp and from the device   *)
(* itself for a Serial.                                                    *)
LEMMA ArrivedType ==
    ASSUME TypeInv, Waiting, Arrived # << >>
    PROVE  /\ Head(Arrived) \in Items /\ Head(Arrived).from \in Ids
           /\ dev[rtno].kind # "tcp" => /\ Head(Arrived).from = rtno /\ dev[rtno].answers # << >>
                                        /\ Head(Arrived).op = Head(dev[rtno].answers).op
                                        /\ Head(Arrived).res = Head(dev[rtno].answers).res
           /\ dev[rtno].kind = "tcp" => Head(Arrived) = Head(ring) /\ ring # << >>
<1>1. rtno \in Ids /\ dev[rtno] \in Devices
  BY OpenDevice
<1>2. ring \in Seq(Items) /\ \A i \in DOMAIN ring : ring[i].from \in Ids
  BY DEF TypeInv, TypeOK
<1>3. CASE dev[rtno].kind = "tcp"
  <2>1. Arrived = ring
    BY <1>3 DEF Arrived
  <2>2. Head(ring) \in Items /\ Head(ring) = ring[1] /\ 1 \in DOMAIN ring
    BY <1>2, <2>1
  <2> QED
    BY <1>2, <1>3, <2>1, <2>2
<1>4. CASE dev[rtno].kind # "tcp"
  <2> DEFINE answers == dev[rtno].answers
             item == [from |-> rtno, op |-> answers[1].op, res |-> answers[1].res]
  <2>1. answers \in Seq(Answers)
    BY <1>1 DEF Devices
  <2>2. Arrived = [i \in 1 .. Len(answers) |->
                      [from |-> rtno, op |-> answers[i].op, res |-> answers[i].res]]
    BY <1>4, <2>1 DEF Arrived
  <2>3. Len(answers) # 0
    BY <2>1, <2>2
  <2>4. Head(Arrived) = item /\ answers[1] \in Answers /\ Head(answers) = answers[1]
    BY <2>1, <2>2, <2>3
  <2>5. item \in Items
    BY <1>1, <2>4 DEF Answers, Items, Ids
  <2> QED
    BY <1>1, <1>4, <2>1, <2>3, <2>4, <2>5
<1> QED
  BY <1>3, <1>4

(* Taking an answer, with or without asking for something before.          *)
LEMMA TakeType ==
    ASSUME TypeInv, Waiting, Arrived # << >>,
           NEW x \in Devices, Like(x, dev[rtno]), x.answers = dev[rtno].answers,
           Take([dev EXCEPT ![rtno] = x])
    PROVE  Kept /\ (ring' = ring \/ (ring # << >> /\ ring' = Tail(ring)))
<1> DEFINE d == [dev EXCEPT ![rtno] = x]
<1>1. rtno \in Ids /\ dev[rtno] \in Devices /\ dev \in Seq(Devices)
  BY OpenDevice DEF TypeInv, TypeOK
<1>2. d[rtno] = x
  BY <1>1 DEF Ids
<1>3. CASE dev[rtno].kind = "tcp"
  <2>1. dev' = d /\ ring' = Tail(ring) /\ ring # << >>
    BY <1>2, <1>3, ArrivedType DEF Take, Like
  <2> QED
    BY <1>1, <2>1 DEF Kept
<1>4. CASE dev[rtno].kind # "tcp"
  <2> DEFINE y == [x EXCEPT !.answers = Tail(@)]
  <2>1. dev' = [d EXCEPT ![rtno].answers = Tail(@)] /\ ring' = ring
    BY <1>2, <1>4 DEF Take, Like
  <2>2. [d EXCEPT ![rtno].answers = Tail(@)] = [dev EXCEPT ![rtno] = y]
    BY <1>1, <1>2 DEF Ids
  <2>3. y \in Devices /\ Like(y, x)
    BY <1>4, ArrivedType, AnsweredType
  <2>4. Like(y, dev[rtno])
    BY <2>3 DEF Like
  <2> HIDE DEF y
  <2> QED
    BY <1>1, <2>1, <2>2, <2>3, <2>4 DEF Kept
<1> QED
  BY <1>3, <1>4

(* What a step that takes an answer leaves.                                *)
Continued ==
    /\ pc' \in {"data", "finish", "prompt", pc}
    /\ UNCHANGED <<mode, serial_port, rtno, cmd, dropped, typed, eof>>
    /\ Kept /\ (ring' = ring \/ (ring # << >> /\ ring' = Tail(ring)))
    /\ \/ UNCHANGED ret
       \/ /\ ret'.cmd = cmd /\ ret'.res \in Results /\ ret'.dev = rtno
          /\ ret' \in [cmd: Commands, res: Results, dev: Ids \cup {0}, from: Ids \cup {0}]
          /\ ret'.from = 0 \/ (Arrived # << >> /\ ret'.from = Head(Arrived).from)

(* EtherTcp::read and Serial::read take an answer and change nothing else. *)
LEMMA TakeOnlyType ==
    ASSUME TypeInv, Waiting, Arrived # << >>, Take(dev)
    PROVE  Kept /\ (ring' = ring \/ (ring # << >> /\ ring' = Tail(ring)))
<1>1. rtno \in Ids /\ dev[rtno] \in Devices /\ dev \in Seq(Devices)
  BY OpenDevice DEF TypeInv, TypeOK
<1>2. [dev EXCEPT ![rtno] = dev[rtno]] = dev
  BY <1>1 DEF Ids
<1>3. Like(dev[rtno], dev[rtno])
  BY DEF Like
<1> QED
  BY <1>1, <1>2, <1>3, TakeType

(* The end of a call leaves devices and pointers alone.                    *)
LEMMA ReturnType ==
    ASSUME TypeInv, Waiting, NEW res \in Results, NEW from \in Ids \cup {0}, Return(res, from)
    PROVE  /\ pc' \in {"data", "finish", "prompt", pc}
           /\ UNCHANGED <<mode, serial_port, rtno, cmd, dropped, typed>>
           /\ ret'.cmd = cmd /\ ret'.res \in Results /\ ret'.dev = rtno /\ ret'.from = from
           /\ ret' \in [cmd: Commands, res: Results, dev: Ids \cup {0}, from: Ids \cup {0}]
<1>1. ret' = [cmd |-> cmd, res |-> res, dev |-> rtno, from |-> from]
  BY DEF Return
<1>2. cmd \in Commands /\ rtno \in Ids \cup {0}
  BY DEF TypeInv, TypeOK
<1>3. ret' \in [cmd: Commands, res: Results, dev: Ids \cup {0}, from: Ids \cup {0}]
  BY <1>1, <1>2
<1> QED
  BY <1>1, <1>3 DEF Return, Resume

(* inject and print send well-formed requests, whatever component they     *)
(* take the type of the port from.                                         *)
LEMMA RequestTypes ==
    ASSUME TypeInv, NEW c \in Components
    PROVE  /\ cmd.op = "inject" /\ cmd.port \in DOMAIN c.in
                => [op |-> "SEND_DATA", port |-> cmd.port,
                    value |-> Sent(c.in[cmd.port], cmd.text)] \in Requests
           /\ cmd.op = "print" /\ cmd.port \in DOMAIN c.out
                => [op |-> "RECEIVE_DATA", port |-> cmd.port, value |-> << >>] \in Requests
<1>1. cmd \in Commands
  BY DEF TypeInv, TypeOK
<1>2. ASSUME cmd.op = "inject", cmd.port \in DOMAIN c.in
      PROVE  [op |-> "SEND_DATA", port |-> cmd.port,
              value |-> Sent(c.in[cmd.port], cmd.text)] \in Requests
  <2>1. cmd.text \in Texts /\ cmd.port \in InPorts
    BY <1>1, <1>2, ShellAssumption DEF Commands, Lines, NoCommand
  <2>2. c.in[cmd.port] \in TypeCodes
    BY <1>2, ShellAssumption
  <2>3. Sent(c.in[cmd.port], cmd.text) \in Seq(Elements)
    BY <2>1, <2>2, SentType
  <2> QED
    BY <2>1, <2>3 DEF Requests, Operations
<1>3. ASSUME cmd.op = "print", cmd.port \in DOMAIN c.out
      PROVE  [op |-> "RECEIVE_DATA", port |-> cmd.port, value |-> << >>] \in Requests
  <2>1. cmd.port \in OutPorts
    BY <1>1, <1>3, ShellAssumption DEF Commands, Lines, NoCommand
  <2> QED
    BY <2>1 DEF Requests, Operations
<1> QED
  BY <1>2, <1>3

(* The second call of inject and print, made once the profile has come.    *)
LEMMA AskAndTakeType ==
    ASSUME TypeInv, Waiting, Arrived # << >>, NEW op, NEW value, AskAndTake(op, value),
           [op |-> op, port |-> cmd.port, value |-> value] \in Requests
    PROVE  Kept /\ (ring' = ring \/ (ring # << >> /\ ring' = Tail(ring)))
<1> DEFINE req == [op |-> op, port |-> cmd.port, value |-> value]
           x == [dev[rtno] EXCEPT !.asked = Append(@, req)]
<1>1. rtno \in Ids /\ dev[rtno] \in Devices /\ dev \in Seq(Devices)
  BY OpenDevice DEF TypeInv, TypeOK
<1>2. x \in Devices /\ Like(x, dev[rtno]) /\ x.answers = dev[rtno].answers
  BY <1>1, AskedType
<1>3. [dev EXCEPT ![rtno].asked = Append(@, req)] = [dev EXCEPT ![rtno] = x]
  BY <1>1 DEF Ids
<1>4. Take([dev EXCEPT ![rtno] = x])
  BY <1>3 DEF AskAndTake
<1> HIDE DEF x
<1> QED
  BY <1>2, <1>4, TakeType

(* Giving a call up is kept in the history of the device.                  *)
LEMMA GivenUpType ==
    ASSUME TypeInv, Waiting
    PROVE  \E x \in Devices : /\ Like(x, dev[rtno]) /\ GivenUp = [dev EXCEPT ![rtno] = x]
                              /\ x = [dev[rtno] EXCEPT !.gaveup = TRUE]
                              /\ x.answers = dev[rtno].answers
<1> DEFINE x == [dev[rtno] EXCEPT !.gaveup = TRUE]
<1>1. rtno \in Ids /\ dev[rtno] \in Devices /\ dev \in Seq(Devices)
  BY OpenDevice DEF TypeInv, TypeOK
<1>2. x \in Devices /\ Like(x, dev[rtno]) /\ x.answers = dev[rtno].answers
  BY <1>1 DEF Devices, Like
<1>3. GivenUp = [dev EXCEPT ![rtno] = x]
  BY <1>1 DEF GivenUp, Ids
<1> HIDE DEF x
<1>4. x = [dev[rtno] EXCEPT !.gaveup = TRUE]
  BY DEF x
<1> QED
  BY <1>2, <1>3, <1>4

(* Whatever comes, or does not come, the call goes on or returns.          *)
LEMMA AnswerContinues ==
    ASSUME TypeInv, Answered
    PROVE  Waiting /\ Continued
<1>r. "OK" \in Results /\ "ERR" \in Results /\ Failure \in Results
      /\ "INPORT_NOT_FOUND" \in Results /\ "OUTPORT_NOT_FOUND" \in Results
  BY DEF Results, Failure
<1>0. 0 \in Ids \cup {0} /\ (Waiting /\ Arrived # << >> => Head(Arrived).from \in Ids \cup {0})
  BY ArrivedType
<1>1. ASSUME Waiting, UNCHANGED eof, Kept, ring' = ring \/ (ring # << >> /\ ring' = Tail(ring)),
             NEW res \in Results, NEW from \in Ids \cup {0}, Return(res, from),
             from = 0 \/ (Arrived # << >> /\ from = Head(Arrived).from)
      PROVE  Continued
  BY <1>1, ReturnType DEF Continued
<1>2. ASSUME Waiting, Arrived # << >>, UNCHANGED eof, NEW op, NEW value, AskAndTake(op, value),
             [op |-> op, port |-> cmd.port, value |-> value] \in Requests
      PROVE  Continued
  BY <1>2, AskAndTakeType DEF Continued, AskAndTake
<1>3. ASSUME Waiting, Arrived # << >>, UNCHANGED eof, NEW res \in Results, Take(dev),
             Return(res, Head(Arrived).from)
      PROVE  Continued
  BY <1>0, <1>1, <1>3, TakeOnlyType
<1>4. CASE Answer
  <2> DEFINE answer == Head(Arrived)
  <2>1. Waiting /\ Arrived # << >> /\ UNCHANGED eof
    BY <1>4 DEF Answer
  <2>2. answer.res \in Results /\ dev[answer.from].component \in Components
    <3>1. answer \in Items /\ dev[answer.from] \in Devices
      BY <2>1, ArrivedType DEF TypeInv, TypeOK, Ids
    <3>2. answer.res \in {"OK", "ERR"}
      BY <3>1 DEF Items
    <3> QED
      BY <3>1, <3>2 DEF Devices, Results
  <2>3. ASSUME NEW res \in Results, Return(res, answer.from), Take(dev) PROVE Continued
    BY <1>3, <2>1, <2>3
  <2>4. CASE Inject(answer)
    <3> DEFINE types == dev[answer.from].component.in
    <3>1. CASE /\ cmd.op = "inject" /\ cmd.port \in DOMAIN types
               /\ AskAndTake("SEND_DATA", Sent(types[cmd.port], cmd.text))
      BY <1>2, <2>1, <2>2, <3>1, RequestTypes
    <3>2. CASE \E res \in Results : Return(res, answer.from) /\ Take(dev)
      BY <2>1, <2>3, <3>2
    <3> QED
      BY <1>r, <2>4, <3>1, <3>2 DEF Inject
  <2>5. CASE PrintPort(answer)
    <3> DEFINE types == dev[answer.from].component.out
    <3>1. CASE cmd.op = "print" /\ cmd.port \in DOMAIN types /\ AskAndTake("RECEIVE_DATA", << >>)
      BY <1>2, <2>1, <2>2, <3>1, RequestTypes
    <3>2. CASE \E res \in Results : Return(res, answer.from) /\ Take(dev)
      BY <2>1, <2>3, <3>2
    <3> QED
      BY <1>r, <2>5, <3>1, <3>2 DEF PrintPort
  <2>6. \/ Inject(answer) \/ PrintPort(answer)
        \/ \E res \in Results : Return(res, answer.from) /\ Take(dev)
    BY <1>4, <1>r, <2>2 DEF Answer
  <2> QED
    BY <2>1, <2>3, <2>4, <2>5, <2>6
<1>5. CASE AnswerError
  BY <1>3, <1>5, <1>r DEF AnswerError
<1>6. CASE SkipAnswer
  <2>1. Waiting /\ Arrived # << >> /\ Take(dev) /\ UNCHANGED <<main, eof>>
    BY <1>6 DEF SkipAnswer
  <2> QED
    BY <2>1, TakeOnlyType DEF Continued, main
<1>7. CASE OtherAnswer
  <2>1. Waiting /\ Arrived # << >> /\ Take(GivenUp) /\ UNCHANGED eof
        /\ Return(Failure, Head(Arrived).from)
    BY <1>7 DEF OtherAnswer
  <2>2. Kept /\ (ring' = ring \/ (ring # << >> /\ ring' = Tail(ring)))
    BY <2>1, GivenUpType, TakeType
  <2> QED
    BY <1>0, <1>1, <1>r, <2>1, <2>2
<1>8. CASE TimeOut
  <2>1. Waiting /\ UNCHANGED <<ring, eof>> /\ dev' = GivenUp /\ Return(Failure, 0)
    BY <1>8 DEF TimeOut
  <2>2. Kept
    BY <2>1, GivenUpType, OpenDevice DEF Kept
  <2> QED
    BY <1>0, <1>1, <1>r, <2>1, <2>2
<1> QED
  BY <1>4, <1>5, <1>6, <1>7, <1>8 DEF Answered, Answer, AnswerError, SkipAnswer, OtherAnswer, TimeOut

-----------------------------------------------------------------------------
(* The threads and the components.                                         *)

(* The record of d after each of the steps that are not the main thread's. *)
Started(x) == [x EXCEPT !.thread = "running", !.Endflag = FALSE]
Received(x) == [x EXCEPT !.answers = Tail(@)]
Over(x) == [x EXCEPT !.thread = "over"]
Performed(x) ==
    LET req == Head(x.asked)
    IN  [x EXCEPT !.asked = Tail(@), !.answers = Append(@, [op |-> req.op, res |-> "OK"]),
                  !.in = IF req.op = "SEND_DATA" THEN [@ EXCEPT ![req.port] = req.value] ELSE @]
Refused(x, op) ==
    [x EXCEPT !.asked = Tail(@), !.answers = Append(@, [op |-> op, res |-> "ERR"]), !.failed = TRUE]
RequestLost(x) == [x EXCEPT !.asked = Tail(@), !.failed = TRUE]

(* What the component does with a request leaves the device a device.      *)
LEMMA PerformedType ==
    ASSUME NEW d \in Devices, d.asked # << >>, NEW in \in [InPorts -> Seq(Elements)],
           NEW answer \in Answers, NEW failed \in BOOLEAN, NEW x,
           x = [d EXCEPT !.asked = Tail(@), !.answers = Append(@, answer), !.in = in,
                         !.failed = failed]
    PROVE  x \in Devices /\ Like(x, d)
<1>1. Tail(d.asked) \in Seq(Requests) /\ Append(d.answers, answer) \in Seq(Answers)
  BY DEF Devices
<1> QED
  BY <1>1 DEF Devices, Like

(* So does a request that is lost.                                         *)
LEMMA RequestLostType ==
    ASSUME NEW d \in Devices, d.asked # << >>
    PROVE  RequestLost(d) \in Devices /\ Like(RequestLost(d), d)
<1>1. Tail(d.asked) \in Seq(Requests)
  BY DEF Devices
<1> QED
  BY <1>1 DEF Devices, Like, RequestLost

(* The value of a request has a place in the component's ports.            *)
LEMMA RequestValue ==
    ASSUME NEW d \in Devices, d.asked # << >>
    PROVE  LET req == Head(d.asked)
           IN  /\ req \in Requests
               /\ (IF req.op = "SEND_DATA" THEN [d.in EXCEPT ![req.port] = req.value] ELSE d.in)
                     \in [InPorts -> Seq(Elements)]
<1> DEFINE req == Head(d.asked)
<1>1. req \in Requests /\ d.in \in [InPorts -> Seq(Elements)]
  BY DEF Devices
<1>2. req.value \in Seq(Elements)
  BY <1>1 DEF Requests
<1> HIDE DEF req
<1>3. [d.in EXCEPT ![req.port] = req.value] \in [InPorts -> Seq(Elements)]
  BY <1>1, <1>2
<1> QED
  BY <1>1, <1>3 DEF req

(* A step of the svc thread of d, of its component or of its line.         *)
Stepped(d) ==
    \/ SvcStart(d) /\ dev[d].thread # "none" /\ dev' = [dev EXCEPT ![d] = Started(dev[d])]
    \/ SvcReceive(d) /\ dev[d].answers # << >> /\ dev' = [dev EXCEPT ![d] = Received(dev[d])]
    \/ SvcEnd(d) /\ dev[d].thread # "none" /\ dev' = [dev EXCEPT ![d] = Over(dev[d])]
    \/ Perform(d) /\ dev[d].asked # << >> /\ dev' = [dev EXCEPT ![d] = Performed(dev[d])]
    \/ /\ Refuse(d) /\ dev[d].asked # << >>
       /\ \E op \in {Head(dev[d].asked).op, "PACKET_ERROR"} :
             dev' = [dev EXCEPT ![d] = Refused(dev[d], op)]
    \/ LoseRequest(d) /\ dev[d].asked # << >> /\ dev' = [dev EXCEPT ![d] = RequestLost(dev[d])]
    \/ LoseAnswer(d) /\ dev[d].answers # << >> /\ dev' = [dev EXCEPT ![d] = Received(dev[d])]

(* Each of them changes the record of that device only.                    *)
LEMMA OthersStep ==
    ASSUME dev \in Seq(Devices), NEW d \in Ids,
           \/ SvcStart(d) \/ SvcReceive(d) \/ SvcEnd(d)
           \/ Perform(d) \/ Refuse(d) \/ LoseRequest(d) \/ LoseAnswer(d)
    PROVE  Stepped(d)
<1>1. SvcStart(d) => Stepped(d)
  BY DEF SvcStart, Stepped, Started, Ids
<1>2. SvcReceive(d) => Stepped(d)
  BY DEF SvcReceive, Stepped, Received, Ids
<1>3. SvcEnd(d) => Stepped(d)
  BY DEF SvcEnd, Stepped, Over, Ids
<1>4. Perform(d) => Stepped(d)
  BY DEF Perform, Stepped, Performed, Ids
<1>5. Refuse(d) => Stepped(d)
  BY DEF Refuse, Stepped, Refused, Ids
<1>6. LoseRequest(d) => Stepped(d)
  BY DEF LoseRequest, Stepped, RequestLost, Ids
<1>7. LoseAnswer(d) => Stepped(d)
  BY DEF LoseAnswer, Stepped, Received, Ids
<1> QED
  BY <1>1, <1>2, <1>3, <1>4, <1>5, <1>6, <1>7

(* The svc threads and the components leave the main thread's variables    *)
(* alone.                                                                  *)
LEMMA OthersKeep ==
    ASSUME TypeInv, NEW d \in Ids, Stepped(d)
    PROVE  /\ Kept /\ UNCHANGED <<main, eof>> /\ ~Stopped
           /\ \/ ring' = ring
              \/ /\ dev[d].thread = "running" /\ SvcReceive(d)
                 /\ \E item \in Items : item.from = d /\ ring' = Append(ring, item)
<1>1. dev \in Seq(Devices) /\ dev[d] \in Devices
  BY DEF TypeInv, TypeOK, Ids
<1>k. ASSUME NEW x \in Devices, Like(x, dev[d]), dev' = [dev EXCEPT ![d] = x] PROVE Kept
  BY <1>k DEF Kept
<1>2. CASE SvcStart(d) /\ dev[d].thread # "none" /\ dev' = [dev EXCEPT ![d] = Started(dev[d])]
  BY <1>1, <1>2, <1>k, ThreadType DEF SvcStart, Started
<1>3. CASE SvcReceive(d) /\ dev[d].answers # << >> /\ dev' = [dev EXCEPT ![d] = Received(dev[d])]
  <2>1. Kept /\ Head(dev[d].answers) \in Answers
    BY <1>1, <1>3, <1>k, AnsweredType DEF Received
  <2> DEFINE answer == Head(dev[d].answers)
             item(op) == [from |-> d, op |-> op, res |-> answer.res]
  <2>2. PICK op \in {answer.op, "spoilt"} : ring' = Append(ring, item(op))
    BY <1>3 DEF SvcReceive
  <2>3. item(op) \in Items /\ item(op).from = d
    BY <2>1, <2>2 DEF Items, Answers, Ids
  <2> HIDE DEF item
  <2> QED
    BY <1>3, <2>1, <2>2, <2>3 DEF SvcReceive
<1>4. CASE SvcEnd(d) /\ dev[d].thread # "none" /\ dev' = [dev EXCEPT ![d] = Over(dev[d])]
  BY <1>1, <1>4, <1>k, ThreadType DEF SvcEnd, Over
<1>5. CASE Perform(d) /\ dev[d].asked # << >> /\ dev' = [dev EXCEPT ![d] = Performed(dev[d])]
  <2> DEFINE req == Head(dev[d].asked)
             in == IF req.op = "SEND_DATA" THEN [dev[d].in EXCEPT ![req.port] = req.value]
                   ELSE dev[d].in
             answer == [op |-> req.op, res |-> "OK"]
  <2>1. req \in Requests /\ in \in [InPorts -> Seq(Elements)] /\ answer \in Answers
    BY <1>1, <1>5, RequestValue DEF Requests, Answers
  <2>2. dev[d].failed \in BOOLEAN
    BY <1>1 DEF Devices
  <2>3. Performed(dev[d]) = [dev[d] EXCEPT !.asked = Tail(@), !.answers = Append(@, answer),
                                           !.in = in, !.failed = dev[d].failed]
    BY <1>1 DEF Performed, Devices
  <2>4. Performed(dev[d]) \in Devices /\ Like(Performed(dev[d]), dev[d])
    <3> HIDE DEF in, answer
    <3> QED
      BY <1>1, <1>5, <2>1, <2>2, <2>3, PerformedType
  <2> QED
    BY <1>5, <1>k, <2>4 DEF Perform
<1>6. CASE /\ Refuse(d) /\ dev[d].asked # << >>
           /\ \E op \in {Head(dev[d].asked).op, "PACKET_ERROR"} :
                 dev' = [dev EXCEPT ![d] = Refused(dev[d], op)]
  <2>1. PICK op \in {Head(dev[d].asked).op, "PACKET_ERROR"} :
                 dev' = [dev EXCEPT ![d] = Refused(dev[d], op)]
    BY <1>6
  <2> DEFINE answer == [op |-> op, res |-> "ERR"]
  <2>2. answer \in Answers /\ dev[d].in \in [InPorts -> Seq(Elements)] /\ TRUE \in BOOLEAN
    <3>1. Head(dev[d].asked) \in Requests
      BY <1>1, <1>6, RequestValue
    <3> QED
      BY <1>1, <3>1 DEF Requests, Answers, Devices
  <2>3. Refused(dev[d], op) = [dev[d] EXCEPT !.asked = Tail(@), !.answers = Append(@, answer),
                                             !.in = dev[d].in, !.failed = TRUE]
    BY <1>1 DEF Refused, Devices
  <2>4. Refused(dev[d], op) \in Devices /\ Like(Refused(dev[d], op), dev[d])
    <3> HIDE DEF answer
    <3> QED
      BY <1>1, <1>6, <2>2, <2>3, PerformedType
  <2> QED
    BY <1>6, <1>k, <2>1, <2>4 DEF Refuse
<1>7. CASE LoseRequest(d) /\ dev[d].asked # << >> /\ dev' = [dev EXCEPT ![d] = RequestLost(dev[d])]
  <2>1. RequestLost(dev[d]) \in Devices /\ Like(RequestLost(dev[d]), dev[d])
    BY <1>1, <1>7, RequestLostType
  <2> QED
    BY <1>7, <1>k, <2>1 DEF LoseRequest
<1>8. CASE LoseAnswer(d) /\ dev[d].answers # << >> /\ dev' = [dev EXCEPT ![d] = Received(dev[d])]
  BY <1>1, <1>8, <1>k, AnsweredType DEF LoseAnswer, Received
<1> QED
  BY <1>2, <1>3, <1>4, <1>5, <1>6, <1>7, <1>8 DEF Stepped

-----------------------------------------------------------------------------
(* The steps of the main thread that are not answers.                      *)

(* do_main sends a request to the open device, or does nothing.            *)
LEMMA CommandKeeps ==
    ASSUME TypeInv, NEW c \in Commands, Command(c)
    PROVE  /\ Kept /\ serial_port # 0
           /\ pc' \in {"call", "profile", "finish", "prompt"} /\ cmd' \in Commands /\ typed' \in Nat
           /\ UNCHANGED <<mode, serial_port, rtno, ret, dropped, ring, eof>>
<1>1. serial_port # 0 /\ pc = "prompt"
  BY DEF Command, Prompted
<1>2. rtno = serial_port /\ rtno \in Ids /\ dev \in Seq(Devices) /\ dev[rtno] \in Devices
  <2>1. rtno = serial_port /\ rtno \in Ids /\ dev \in Seq(Devices)
    BY <1>1 DEF TypeInv, TypeOK, ProtocolMatchesDevice
  <2> QED
    BY <2>1 DEF Ids
<1>3. ASSUME NEW op \in Operations, Ask(op, "none", << >>) PROVE Kept
  <2> DEFINE req == [op |-> op, port |-> "none", value |-> << >>]
             x == [dev[rtno] EXCEPT !.asked = Append(@, req)]
  <2>1. req \in Requests
    BY DEF Requests
  <2>2. x \in Devices /\ Like(x, dev[rtno])
    <3> HIDE DEF req
    <3> QED
      BY <1>2, <2>1, AskedType
  <2>3. dev' = [dev EXCEPT ![rtno] = x]
    BY <1>2, <1>3 DEF Ask, Ids
  <2> HIDE DEF x
  <2> QED
    BY <1>2, <2>2, <2>3 DEF Kept
<1>4. Kept
  <2>1. c.op \in Calls => c.op \in Operations
    BY DEF Operations
  <2>2. "GET_PROFILE" \in Operations
    BY DEF Operations
  <2> QED
    BY <1>3, <2>1, <2>2 DEF Command, Kept
<1>5. typed' \in Nat
  BY DEF Command, TypeInv, TypeOK
<1> QED
  BY <1>1, <1>4, <1>5 DEF Command, Resume

(* close and exit clear the protocol pointer, and delete the device that   *)
(* is open.                                                                *)
LEMMA DeleteType ==
    ASSUME TypeInv, NEW next, next \in {"prompt", "ended"}, Delete(next)
    PROVE  /\ dev' \in Seq(Devices) /\ Ids' = Ids
           /\ \A i \in Ids : /\ dev'[i].kind = dev[i].kind /\ dev'[i].thread = dev[i].thread
                             /\ dev'[i].component = dev[i].component
           /\ rtno' = 0
           /\ \/ /\ pc' = next /\ serial_port' = 0
                 /\ serial_port # 0 => dev[serial_port].kind # "tcp"
              \/ pc' = "delete" /\ serial_port' = serial_port /\ serial_port # 0
           /\ UNCHANGED <<mode, cmd, ret, ring, eof, dropped, typed>>
<1>1. dev \in Seq(Devices) /\ serial_port \in Ids \cup {0}
  BY DEF TypeInv, TypeOK
<1>n. next # "delete"
  OBVIOUS
<1>2. CASE serial_port = 0
  BY <1>1, <1>2, <1>n DEF Delete, Ids
<1>3. CASE serial_port # 0
  <2>1. serial_port \in Ids /\ dev[serial_port] \in Devices
    BY <1>1, <1>3 DEF Ids
  <2> DEFINE x == [dev[serial_port] EXCEPT !.deleted = TRUE, !.Endflag = TRUE]
  <2>2. dev' = [dev EXCEPT ![serial_port] = x]
    BY <1>1, <1>3, <2>1 DEF Delete, Ids
  <2>3. /\ x \in Devices /\ x.kind = dev[serial_port].kind /\ x.thread = dev[serial_port].thread
        /\ x.component = dev[serial_port].component
    BY <2>1, DeletedType
  <2> HIDE DEF x
  <2>4. dev' \in Seq(Devices) /\ Len(dev') = Len(dev)
    BY <1>1, <2>1, <2>2, <2>3 DEF Ids
  <2>5. ASSUME NEW i \in Ids
        PROVE  /\ dev'[i].kind = dev[i].kind /\ dev'[i].thread = dev[i].thread
               /\ dev'[i].component = dev[i].component
    <3>1. dev'[i] = IF i = serial_port THEN x ELSE dev[i]
      BY <1>1, <2>2 DEF Ids
    <3> QED
      BY <2>3, <3>1
  <2> QED
    BY <1>3, <1>n, <2>4, <2>5 DEF Delete, Ids
<1> QED
  BY <1>2, <1>3

(* open adds a device and points both pointers to it.                      *)
LEMMA OpenType ==
    ASSUME TypeInv, NEW kind \in Kinds, NEW component \in Components, Open(kind, component)
    PROVE  /\ dev' \in Seq(Devices) /\ Ids' = Ids \cup {serial_port'} /\ serial_port' \notin Ids
           /\ serial_port' # 0
           /\ \A i \in Ids : dev'[i] = dev[i]
           /\ dev'[serial_port'] = NewDevice(kind, component)
           /\ rtno' = serial_port' /\ pc' = "prompt"
           /\ dropped' = dropped \cup ({serial_port} \ {0})
           /\ UNCHANGED <<mode, typed, cmd, ret, ring, eof>>
<1>1. dev \in Seq(Devices) /\ NewDevice(kind, component) \in Devices
  BY NewDeviceType DEF TypeInv, TypeOK
<1>2. dev' = Append(dev, NewDevice(kind, component)) /\ serial_port' = Len(dev) + 1 /\ rtno' = Len(dev) + 1
  BY DEF Open
<1>3. dev' \in Seq(Devices) /\ Len(dev') = Len(dev) + 1
  BY <1>1, <1>2
<1>4. \A i \in Ids : dev'[i] = dev[i]
  BY <1>1, <1>2 DEF Ids
<1>5. Ids' = Ids \cup {Len(dev) + 1} /\ Len(dev) + 1 \notin Ids /\ Len(dev) + 1 # 0
  BY <1>1, <1>3 DEF Ids
<1>6. dev'[Len(dev) + 1] = NewDevice(kind, component)
  BY <1>1, <1>2
<1> QED
  BY <1>2, <1>3, <1>4, <1>5, <1>6 DEF Open

(* Devices are not forgotten: what refers to them goes on to.              *)
LEMMA TypesLast ==
    ASSUME TypeOK, Ids \subseteq Ids', UNCHANGED <<mode, ret, ring, eof>>,
           dev' \in Seq(Devices), serial_port' \in Ids' \cup {0}, rtno' \in Ids' \cup {0},
           cmd' \in Commands, typed' \in Nat, dropped' \subseteq Ids',
           pc' \in {"start", "prompt", "call", "profile", "data", "finish", "delete",
                    "ended", "aborted"}
    PROVE  TypeOK'
<1>1. ring' \in Seq(Items) /\ \A i \in DOMAIN ring' : ring'[i].from \in Ids'
  BY DEF TypeOK
<1>2. ret' \in [cmd: Commands, res: Results, dev: Ids' \cup {0}, from: Ids' \cup {0}]
  BY DEF TypeOK
<1> QED
  BY <1>1, <1>2 DEF TypeOK

(* The start of main.                                                      *)
LEMMA InitType == Init => TypeInv
<1> SUFFICES ASSUME Init PROVE TypeInv
  OBVIOUS
<1>1. NoCommand \in Commands /\ "OK" \in Results
  BY DEF Commands, Results
<1>2. ret \in [cmd: Commands, res: Results, dev: Ids \cup {0}, from: Ids \cup {0}]
  BY <1>1 DEF Init
<1>3. dev \in Seq(Devices) /\ ring \in Seq(Items) /\ \A i \in DOMAIN ring : ring[i].from \in Ids
  BY DEF Init
<1>4. TypeOK
  BY <1>1, <1>2, <1>3 DEF Init, TypeOK
<1>5. DeviceOpen /\ ProtocolMatchesDevice
  BY DEF Init, DeviceOpen, ProtocolMatchesDevice, Waiting
<1> QED
  BY <1>4, <1>5 DEF TypeInv

(* Types and pointers are kept by every step; none of the three parts is   *)
(* inductive alone.                                                        *)
LEMMA NextType == TypeInv /\ [Next]_vars => TypeInv'
<1> SUFFICES ASSUME TypeInv, [Next]_vars PROVE TypeInv'
  OBVIOUS
<1>t. TypeOK /\ dev \in Seq(Devices) /\ serial_port \in Ids \cup {0}
  BY DEF TypeInv, TypeOK
<1>k. ASSUME Kept, UNCHANGED <<mode, serial_port, rtno, dropped>>, cmd' \in Commands, typed' \in Nat,
             eof' \in BOOLEAN, ring' \in Seq(Items), \A i \in DOMAIN ring' : ring'[i].from \in Ids,
             ret' \in [cmd: Commands, res: Results, dev: Ids \cup {0}, from: Ids \cup {0}],
             pc' \in {"start", "prompt", "call", "profile", "data", "finish", "delete",
                      "ended", "aborted"},
             DeviceOpen', pc \notin {"delete", "aborted"} \/ pc' \in {"delete", "aborted"}
      PROVE  TypeInv'
  <2>1. dev' \in Seq(Devices) /\ Ids' = Ids /\ \A i \in Ids : Like(dev'[i], dev[i])
    BY <1>t, <1>k, KeptDevices
  <2>2. TypeOK'
    BY <1>t, <1>k, <2>1 DEF TypeOK
  <2>3. ProtocolMatchesDevice'
    BY <1>t, <1>k, <2>1 DEF TypeInv, ProtocolMatchesDevice, Like
  <2> QED
    BY <1>k, <2>2, <2>3 DEF TypeInv
<1>1. ASSUME NEW kind \in Kinds, NEW component \in Components, Open(kind, component) PROVE TypeInv'
  <2>1. TypeOK'
    BY <1>t, <1>1, OpenType, TypesLast DEF TypeOK
  <2>2. DeviceOpen'
    BY <1>1, OpenType DEF DeviceOpen, Waiting
  <2>3. ~dev'[serial_port'].deleted
    <3>1. NewDevice(kind, component).deleted = FALSE
      BY DEF NewDevice
    <3> QED
      BY <1>1, <3>1, OpenType
  <2>4. ProtocolMatchesDevice'
    BY <1>1, <2>3, OpenType DEF ProtocolMatchesDevice
  <2> QED
    BY <2>1, <2>2, <2>4 DEF TypeInv
<1>2. CASE OpenFails
  <2>1. TypeOK'
    BY <1>t, <1>2 DEF OpenFails, TypeOK, Ids
  <2>2. DeviceOpen' /\ ProtocolMatchesDevice'
    BY <1>2 DEF OpenFails, DeviceOpen, Waiting, ProtocolMatchesDevice
  <2> QED
    BY <2>1, <2>2 DEF TypeInv
<1>3. ASSUME NEW next, next \in {"prompt", "ended"}, Delete(next) PROVE TypeInv'
  <2>d. /\ dev' \in Seq(Devices) /\ Ids' = Ids /\ rtno' = 0
        /\ \/ pc' = next /\ serial_port' = 0
           \/ pc' = "delete" /\ serial_port' = serial_port /\ serial_port # 0
        /\ UNCHANGED <<mode, cmd, ret, ring, eof, dropped, typed>>
    <3> USE DeleteType
    <3>1. dev' \in Seq(Devices) /\ Ids' = Ids /\ rtno' = 0
      BY <1>3
    <3>2. \/ pc' = next /\ serial_port' = 0
          \/ pc' = "delete" /\ serial_port' = serial_port /\ serial_port # 0
      BY <1>3
    <3>3. UNCHANGED <<mode, cmd, ret, ring, eof, dropped, typed>>
      BY <1>3
    <3> QED
      BY <3>1, <3>2, <3>3
  <2>1. TypeOK'
    <3>1. pc' \in {"prompt", "ended", "delete"} /\ serial_port' \in Ids \cup {0}
      BY <1>t, <1>3, <2>d
    <3> QED
      BY <1>t, <2>d, <3>1, TypesLast DEF TypeOK
  <2>2. DeviceOpen' /\ ProtocolMatchesDevice'
    BY <1>3, <2>d DEF DeviceOpen, Waiting, ProtocolMatchesDevice
  <2> QED
    BY <2>1, <2>2 DEF TypeInv
<1>4. ASSUME pc' \in {"ended", "aborted"}, pc \in {"prompt", "delete"}, pc = "delete" => pc' = "aborted",
             UNCHANGED <<mode, serial_port, rtno, cmd, ret, dev, ring, eof, dropped, typed>>
      PROVE  TypeInv'
  <2>1. TypeOK'
    BY <1>t, <1>4 DEF TypeOK, Ids
  <2>2. DeviceOpen' /\ ProtocolMatchesDevice'
    BY <1>4 DEF TypeInv, DeviceOpen, Waiting, ProtocolMatchesDevice
  <2> QED
    BY <2>1, <2>2 DEF TypeInv
<1>5. CASE Close
  BY <1>3, <1>5 DEF Close
<1>6. CASE Exit
  BY <1>3, <1>4, <1>6 DEF Exit, Prompted
<1>7. CASE Finish
  BY <1>3, <1>7 DEF Finish
<1>8. CASE Terminate
  BY <1>4, <1>8 DEF Terminate
<1>9. CASE Quit
  BY <1>4, <1>9 DEF Quit
<1>10. CASE EndOfInput
  <2>1. TypeOK'
    BY <1>t, <1>10 DEF EndOfInput, main, TypeOK, Ids
  <2> QED
    BY <1>10, <2>1 DEF EndOfInput, main, TypeInv, DeviceOpen, Waiting, ProtocolMatchesDevice
<1>11. ASSUME NEW c \in Commands, Command(c) PROVE TypeInv'
  <2>1. pc = "prompt" /\ serial_port # 0
    BY <1>11 DEF Command, Prompted
  <2>2. DeviceOpen'
    BY <1>11, CommandKeeps DEF DeviceOpen
  <2>3. /\ ring' \in Seq(Items) /\ \A i \in DOMAIN ring' : ring'[i].from \in Ids
        /\ eof' \in BOOLEAN
        /\ ret' \in [cmd: Commands, res: Results, dev: Ids \cup {0}, from: Ids \cup {0}]
    BY <1>t, <1>11, CommandKeeps DEF TypeOK
  <2> QED
    BY <1>k, <1>11, <2>1, <2>2, <2>3, CommandKeeps
<1>12. CASE Answered
  <2>1. Waiting /\ Continued
    BY <1>12, AnswerContinues
  <2>2. serial_port # 0 /\ pc \in {"call", "profile", "data"}
    BY <2>1 DEF TypeInv, DeviceOpen, Waiting
  <2>3. DeviceOpen'
    BY <2>1, <2>2 DEF DeviceOpen, Continued
  <2>4. ring' \in Seq(Items) /\ \A i \in DOMAIN ring' : ring'[i].from \in Ids
    <3>1. ring \in Seq(Items) /\ \A i \in DOMAIN ring : ring[i].from \in Ids
      BY <1>t DEF TypeOK
    <3>2. CASE ring # << >> /\ ring' = Tail(ring)
      <4>1. /\ Tail(ring) \in Seq(Items)
            /\ \A i \in DOMAIN Tail(ring) : i + 1 \in DOMAIN ring /\ Tail(ring)[i] = ring[i + 1]
        BY <3>1, <3>2
      <4> QED
        BY <3>1, <3>2, <4>1
    <3> QED
      BY <2>1, <3>1, <3>2 DEF Continued
  <2>5. ret' \in [cmd: Commands, res: Results, dev: Ids \cup {0}, from: Ids \cup {0}]
        /\ cmd' \in Commands /\ typed' \in Nat /\ eof' \in BOOLEAN
    BY <1>t, <2>1 DEF Continued, TypeOK
  <2> QED
    BY <1>k, <2>1, <2>2, <2>3, <2>4, <2>5 DEF Continued
<1>13. ASSUME NEW d \in Ids, Stepped(d) PROVE TypeInv'
  <2>1. Kept /\ UNCHANGED <<main, eof>>
    BY <1>13, OthersKeep
  <2>2. ring' \in Seq(Items) /\ \A i \in DOMAIN ring' : ring'[i].from \in Ids
    <3>1. ring \in Seq(Items) /\ \A i \in DOMAIN ring : ring[i].from \in Ids
      BY <1>t DEF TypeOK
    <3>2. ASSUME NEW item \in Items, item.from = d, ring' = Append(ring, item)
          PROVE  ring' \in Seq(Items) /\ \A i \in DOMAIN ring' : ring'[i].from \in Ids
      <4>1. /\ ring' \in Seq(Items)
            /\ \A i \in DOMAIN ring' : ring'[i] = IF i \in DOMAIN ring THEN ring[i] ELSE item
        BY <3>1, <3>2
      <4> QED
        BY <3>1, <3>2, <4>1
    <3> QED
      BY <1>13, <3>1, <3>2, OthersKeep
  <2>3. DeviceOpen'
    BY <2>1 DEF main, TypeInv, DeviceOpen, Waiting
  <2> QED
    BY <1>k, <1>t, <2>1, <2>2, <2>3 DEF main, TypeOK
<1>14. CASE UNCHANGED vars
  <2>1. TypeOK'
    BY <1>t, <1>14 DEF vars, main, TypeOK, Ids
  <2> QED
    BY <1>14, <2>1 DEF vars, main, TypeInv, DeviceOpen, Waiting, ProtocolMatchesDevice
<1> QED
  BY <1>t, <1>1, <1>2, <1>5, <1>6, <1>7, <1>8, <1>9, <1>10, <1>11, <1>12, <1>13, <1>14, OthersStep
     DEF Next

(* The pointers point to devices that were opened, and what the ring and   *)
(* the component's buffers hold is what their readers take it for.         *)
THEOREM TypeCorrect == Spec => []TypeOK
<1>1. TypeInv => TypeOK
  BY DEF TypeInv
<1> QED
  BY <1>1, InitType, NextType, PTL DEF Spec

(* However devices are opened, fail to open and are closed, a command is   *)
(* carried out with the protocol_t of the device that is open, and on none *)
(* that was deleted.                                                       *)
THEOREM MatchCorrect == Spec => []ProtocolMatchesDevice
<1>1. TypeInv => ProtocolMatchesDevice
  BY DEF TypeInv
<1> QED
  BY <1>1, InitType, NextType, PTL DEF Spec

-----------------------------------------------------------------------------
(* What the ring is fed with.                                              *)

(* An EtherTcp that is not the open device was dropped, only an EtherTcp   *)
(* has a thread, and what is in the ring is from one.                      *)
Fed ==
    /\ \A d \in Ids : dev[d].kind = "tcp" => d = serial_port \/ d \in dropped
    /\ \A d \in Ids : dev[d].kind # "tcp" => dev[d].thread = "none"
    /\ \A i \in DOMAIN ring : dev[ring[i].from].kind = "tcp"
    /\ ret.dev = 0 => ret.from = 0

(* Nothing comes into the ring but from an EtherTcp.                       *)
TcpOnly ==
    \A i \in DOMAIN ring' : \/ \E j \in DOMAIN ring : ring'[i] = ring[j]
                            \/ ring'[i].from \in Ids /\ dev[ring'[i].from].kind = "tcp"

(* The ring is empty at the start of main.                                 *)
LEMMA InitFed == Init => Fed /\ ForeignOnlyFromDropped
  BY DEF Init, Fed, ForeignOnlyFromDropped, Ids

(* svc feeds the ring from its own device, and a thread runs only behind   *)
(* the open device or a dropped one.                                       *)
LEMMA NextFed ==
    TypeInv /\ Fed /\ ForeignOnlyFromDropped /\ [Next]_vars => Fed' /\ ForeignOnlyFromDropped'
<1> SUFFICES ASSUME TypeInv, Fed, ForeignOnlyFromDropped, [Next]_vars
             PROVE  Fed' /\ ForeignOnlyFromDropped'
  OBVIOUS
<1>t. /\ TypeOK /\ dev \in Seq(Devices) /\ serial_port \in Ids \cup {0}
      /\ ring \in Seq(Items) /\ \A i \in DOMAIN ring : ring[i].from \in Ids
      /\ ret.dev \in Ids \cup {0} /\ ret.from \in Ids \cup {0} /\ dropped \subseteq Ids
  BY DEF TypeInv, TypeOK
<1>0. 0 \notin Ids
  BY DEF Ids
<1>r. ASSUME UNCHANGED ret, dropped \subseteq dropped', \A i \in Ids : dev'[i].kind = dev[i].kind
      PROVE  ForeignOnlyFromDropped'
  <2>1. CASE ret.from \in {0, ret.dev}
    BY <1>r, <2>1 DEF ForeignOnlyFromDropped
  <2>2. CASE ret.from \notin {0, ret.dev}
    <3>1. ret.dev \in Ids /\ ret.from \in Ids
      BY <1>t, <2>2 DEF Fed
    <3> QED
      BY <1>r, <2>2, <3>1 DEF ForeignOnlyFromDropped
  <2> QED
    BY <2>1, <2>2
<1>k. ASSUME Kept, UNCHANGED <<serial_port, dropped>>,
             TcpOnly, ret'.dev = 0 => ret'.from = 0
      PROVE  Fed'
  <2>1. Ids' = Ids /\ \A i \in Ids : Like(dev'[i], dev[i])
    BY <1>t, <1>k, KeptDevices
  <2>2. ASSUME NEW i \in DOMAIN ring'
        PROVE  ring'[i].from \in Ids /\ dev[ring'[i].from].kind = "tcp"
    BY <1>t, <1>k, <2>2 DEF Fed, TcpOnly
  <2>3. \A i \in DOMAIN ring' : dev'[ring'[i].from].kind = "tcp"
    BY <2>1, <2>2 DEF Like
  <2>4. ASSUME NEW d \in Ids
        PROVE  /\ dev'[d].kind = "tcp" => d = serial_port' \/ d \in dropped'
               /\ dev'[d].kind # "tcp" => dev'[d].thread = "none"
    BY <1>k, <2>1, <2>4 DEF Fed, Like
  <2> QED
    BY <1>k, <2>1, <2>3, <2>4 DEF Fed
<1>u. ASSUME Kept, UNCHANGED <<serial_port, dropped, ret, ring>> PROVE Fed' /\ ForeignOnlyFromDropped'
  <2>1. \A i \in Ids : dev'[i].kind = dev[i].kind
    BY <1>t, <1>u, KeptDevices DEF Like
  <2>2. ForeignOnlyFromDropped'
    BY <1>r, <1>u, <2>1
  <2>3. TcpOnly
    BY <1>u DEF TcpOnly
  <2>4. ret'.dev = 0 => ret'.from = 0
    BY <1>u DEF Fed
  <2> QED
    BY <1>k, <1>u, <2>2, <2>3, <2>4
<1>e. UNCHANGED dev => Kept
  BY DEF Kept
<1>1. ASSUME NEW kind \in Kinds, NEW component \in Components, Open(kind, component)
      PROVE  Fed' /\ ForeignOnlyFromDropped'
  <2>1. /\ Ids' = Ids \cup {serial_port'} /\ \A i \in Ids : dev'[i] = dev[i]
        /\ dev'[serial_port'] = NewDevice(kind, component)
        /\ dropped' = dropped \cup ({serial_port} \ {0}) /\ UNCHANGED <<ret, ring>>
    BY <1>1, OpenType DEF TypeInv
  <2>2. NewDevice(kind, component).kind # "tcp" => NewDevice(kind, component).thread = "none"
    BY DEF NewDevice
  <2>3. \A d \in Ids' : /\ dev'[d].kind = "tcp" => d = serial_port' \/ d \in dropped'
                        /\ dev'[d].kind # "tcp" => dev'[d].thread = "none"
    BY <1>0, <2>1, <2>2 DEF Fed
  <2>4. \A i \in DOMAIN ring' : dev'[ring'[i].from].kind = "tcp"
    BY <1>t, <2>1 DEF Fed
  <2>5. Fed'
    BY <2>1, <2>3, <2>4 DEF Fed
  <2>6. ForeignOnlyFromDropped'
    <3>1. dropped \subseteq dropped' /\ \A i \in Ids : dev'[i].kind = dev[i].kind
      BY <2>1
    <3> QED
      BY <1>r, <2>1, <3>1
  <2> QED
    BY <2>5, <2>6
<1>2. CASE OpenFails
  <2>1. /\ serial_port' = 0 /\ dropped' = dropped \cup ({serial_port} \ {0})
        /\ UNCHANGED <<ret, ring, dev, Ids>>
    BY <1>2 DEF OpenFails, Ids
  <2>2. Fed'
    BY <1>0, <2>1 DEF Fed
  <2>3. dropped \subseteq dropped' /\ \A i \in Ids : dev'[i].kind = dev[i].kind
    BY <2>1
  <2> QED
    BY <1>r, <2>1, <2>2, <2>3
<1>3. ASSUME NEW next, next \in {"prompt", "ended"}, Delete(next) PROVE Fed' /\ ForeignOnlyFromDropped'
  <2>1. Ids' = Ids /\ \A i \in Ids : dev'[i].kind = dev[i].kind
    BY <1>3, DeleteType
  <2>2. UNCHANGED <<dropped, ret, ring>>
    BY <1>3, DeleteType
  <2>3. \/ serial_port' = 0 /\ (serial_port # 0 => dev[serial_port].kind # "tcp")
        \/ serial_port' = serial_port /\ serial_port # 0
    BY <1>3, DeleteType
  <2>4. ASSUME NEW d \in Ids PROVE dev'[d].thread = dev[d].thread
    BY <1>3, <2>4, DeleteType
  <2>5. \A d \in Ids : /\ dev'[d].kind = "tcp" => d = serial_port' \/ d \in dropped'
                       /\ dev'[d].kind # "tcp" => dev'[d].thread = "none"
    BY <1>0, <2>1, <2>2, <2>3, <2>4 DEF Fed
  <2>6. \A i \in DOMAIN ring' : dev'[ring'[i].from].kind = "tcp"
    BY <1>t, <2>1, <2>2 DEF Fed
  <2>7. Fed'
    BY <2>1, <2>2, <2>5, <2>6 DEF Fed
  <2> QED
    BY <1>r, <2>1, <2>2, <2>7
<1>4. CASE Close
  BY <1>3, <1>4 DEF Close
<1>5. CASE Exit
  BY <1>3, <1>5, <1>e, <1>u DEF Exit
<1>6. CASE Finish
  BY <1>3, <1>6 DEF Finish
<1>7. CASE Terminate \/ Quit \/ EndOfInput
  BY <1>7, <1>e, <1>u DEF Terminate, Quit, EndOfInput, main
<1>8. ASSUME NEW c \in Commands, Command(c) PROVE Fed' /\ ForeignOnlyFromDropped'
  BY <1>8, <1>u, CommandKeeps
<1>9. CASE Answered
  <2>1. Waiting /\ Continued
    BY <1>9, AnswerContinues
  <2>2. /\ Kept /\ UNCHANGED <<serial_port, rtno, dropped>>
        /\ ring' = ring \/ (ring # << >> /\ ring' = Tail(ring))
        /\ \/ UNCHANGED ret
           \/ /\ ret'.dev = rtno
              /\ ret'.from = 0 \/ (Arrived # << >> /\ ret'.from = Head(Arrived).from)
    BY <2>1 DEF Continued
  <2>3. rtno \in Ids /\ rtno = serial_port
    BY <2>1, OpenDevice
  <2>4. TcpOnly
    <3>1. CASE ring' = ring
      BY <3>1 DEF TcpOnly
    <3>2. CASE ring # << >> /\ ring' = Tail(ring)
      <4>1. \A i \in DOMAIN ring' : i + 1 \in DOMAIN ring /\ ring'[i] = ring[i + 1]
        BY <1>t, <3>2
      <4> QED
        BY <4>1 DEF TcpOnly
    <3> QED
      BY <2>2, <3>1, <3>2
  <2>5. ret'.dev = 0 => ret'.from = 0
    BY <1>0, <2>2, <2>3 DEF Fed
  <2>6. Fed'
    BY <1>k, <2>2, <2>4, <2>5
  <2>7. Ids' = Ids /\ \A i \in Ids : dev'[i].kind = dev[i].kind
    BY <1>t, <2>2, KeptDevices DEF Like
  <2>8. ForeignOnlyFromDropped'
    <3>1. CASE UNCHANGED ret
      BY <1>r, <2>2, <2>7, <3>1
    <3>2. CASE ret'.dev = rtno /\ ret'.from = 0
      BY <3>2 DEF ForeignOnlyFromDropped
    <3>3. CASE ret'.dev = rtno /\ Arrived # << >> /\ ret'.from = Head(Arrived).from
      <4>1. CASE dev[rtno].kind # "tcp"
        BY <2>1, <3>3, <4>1, ArrivedType DEF ForeignOnlyFromDropped
      <4>2. CASE dev[rtno].kind = "tcp"
        <5>1. ring # << >> /\ ret'.from = Head(ring).from
          BY <2>1, <3>3, <4>2, ArrivedType
        <5>2. 1 \in DOMAIN ring /\ Head(ring) = ring[1]
          BY <1>t, <5>1
        <5>3. ret'.from \in Ids /\ dev[ret'.from].kind = "tcp"
          BY <1>t, <5>1, <5>2 DEF Fed
        <5>4. ret'.from = serial_port \/ ret'.from \in dropped
          BY <5>3 DEF Fed
        <5> QED
          BY <2>2, <2>3, <2>7, <3>3, <4>2, <5>3, <5>4 DEF ForeignOnlyFromDropped
      <4> QED
        BY <4>1, <4>2
    <3> QED
      BY <2>2, <3>1, <3>2, <3>3
  <2> QED
    BY <2>6, <2>8
<1>10. ASSUME NEW d \in Ids, Stepped(d) PROVE Fed' /\ ForeignOnlyFromDropped'
  <2>1. Kept /\ UNCHANGED <<main, eof>>
    BY <1>10, OthersKeep
  <2>2. CASE ring' = ring
    BY <1>u, <2>1, <2>2 DEF main
  <2>3. ASSUME dev[d].thread = "running", NEW item \in Items, item.from = d, ring' = Append(ring, item)
        PROVE  Fed' /\ ForeignOnlyFromDropped'
    <3>1. dev[d].kind = "tcp"
      BY <1>10, <2>3 DEF Fed
    <3>2. TcpOnly
      <4>1. ASSUME NEW i \in DOMAIN ring'
            PROVE  \/ \E j \in DOMAIN ring : ring'[i] = ring[j]
                   \/ ring'[i].from \in Ids /\ dev[ring'[i].from].kind = "tcp"
        <5>1. (i \in DOMAIN ring /\ ring'[i] = ring[i]) \/ ring'[i] = item
          BY <1>t, <2>3, <4>1
        <5> QED
          BY <1>10, <2>3, <3>1, <5>1
      <4> QED
        BY <4>1 DEF TcpOnly
    <3>3. ret'.dev = 0 => ret'.from = 0
      BY <2>1 DEF main, Fed
    <3>4. Fed'
      BY <1>k, <2>1, <3>2, <3>3 DEF main
    <3>5. \A i \in Ids : dev'[i].kind = dev[i].kind
      BY <1>t, <2>1, KeptDevices DEF Like
    <3> QED
      BY <1>r, <2>1, <3>4, <3>5 DEF main
  <2> QED
    BY <1>10, <2>2, <2>3, OthersKeep
<1>11. CASE UNCHANGED vars
  BY <1>11, <1>e, <1>u DEF vars, main
<1> QED
  BY <1>t, <1>1, <1>2, <1>4, <1>5, <1>6, <1>7, <1>8, <1>9, <1>10, <1>11, OthersStep DEF Next

(* An answer from a device other than that of the command is from one that *)
(* another open dropped, and both are EtherTcp.                            *)
THEOREM ForeignCorrect == Spec => []ForeignOnlyFromDropped
  BY InitType, InitFed, NextType, NextFed, PTL DEF Spec
=============================================================================
