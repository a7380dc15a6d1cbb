---------------------------- MODULE InjectProofs ----------------------------
(***************************************************************************)
(* A value that inject reported sent is the one the port ends up with, for *)
(* any components, any number of devices and any sequence of commands,     *)
(* whatever is lost and refused, as long as no answer can be taken for     *)
(* another's; and whatever answers are mistaken, as long as nothing is     *)
(* lost or refused.                                                        *)
(***************************************************************************)
EXTENDS ShellProofs, Integers

Sends(req, port) == req.op = "SEND_DATA" /\ req.port = port

(* The device y is as far as x: every port ends up with the same.          *)
Same(y, x) ==
    \A port \in InPorts : \A value : EndsUpWith(x, port, value) => EndsUpWith(y, port, value)

-----------------------------------------------------------------------------
(* What a request does to what a port ends up with.                        *)

(* A request for something else leaves the ports alone, and one that sends *)
(* to a port is what the port ends up with.                                *)
LEMMA Asked ==
    ASSUME NEW x \in Devices, NEW y, NEW req \in Requests, NEW port,
           y.asked = Append(x.asked, req), y.in = x.in
    PROVE  /\ Sends(req, port) => EndsUpWith(y, port, req.value)
           /\ \A value : ~Sends(req, port) /\ EndsUpWith(x, port, value) => EndsUpWith(y, port, value)
<1> DEFINE was == {i \in DOMAIN x.asked : Sends(x.asked[i], port)}
           is == {i \in DOMAIN y.asked : Sends(y.asked[i], port)}
           n == Len(x.asked) + 1
<1>1. x.asked \in Seq(Requests)
  BY DEF Devices
<1>2. /\ DOMAIN x.asked = 1 .. Len(x.asked) /\ DOMAIN y.asked = 1 .. n /\ Len(x.asked) \in Nat
      /\ y.asked[n] = req /\ \A i \in DOMAIN x.asked : y.asked[i] = x.asked[i]
  BY <1>1
<1>3. CASE Sends(req, port)
  <2>1. n \in is /\ \A j \in is : j <= n
    BY <1>2, <1>3
  <2> QED
    BY <1>2, <1>3, <2>1 DEF EndsUpWith, Sends
<1>4. ASSUME ~Sends(req, port), NEW value, EndsUpWith(x, port, value) PROVE EndsUpWith(y, port, value)
  <2>1. is = was
    BY <1>2, <1>4
  <2>2. \A i \in was : i \in DOMAIN x.asked
    OBVIOUS
  <2> QED
    BY <1>2, <1>4, <2>1, <2>2 DEF EndsUpWith, Sends
<1> QED
  BY <1>3, <1>4

(* The component takes requests in order, so a port ends up with what it   *)
(* would have before.                                                      *)
LEMMA PerformedSame ==
    ASSUME NEW x \in Devices, x.asked # << >>, NEW y, y.asked = Tail(x.asked),
           y.in = IF Head(x.asked).op = "SEND_DATA"
                  THEN [x.in EXCEPT ![Head(x.asked).port] = Head(x.asked).value] ELSE x.in
    PROVE  Same(y, x)
<1> SUFFICES ASSUME NEW port \in InPorts, NEW value, EndsUpWith(x, port, value)
             PROVE  EndsUpWith(y, port, value)
  BY DEF Same
<1> DEFINE was == {i \in DOMAIN x.asked : Sends(x.asked[i], port)}
           is == {i \in DOMAIN y.asked : Sends(y.asked[i], port)}
<1>1. x.asked \in Seq(Requests) /\ x.in \in [InPorts -> Seq(Elements)]
  BY DEF Devices
<1>2. /\ DOMAIN x.asked = 1 .. Len(x.asked) /\ Len(x.asked) \in Nat /\ 1 \in DOMAIN x.asked
      /\ DOMAIN y.asked = 1 .. Len(x.asked) - 1 /\ Head(x.asked) = x.asked[1]
      /\ \A i \in DOMAIN y.asked : i + 1 \in DOMAIN x.asked /\ y.asked[i] = x.asked[i + 1]
      /\ \A i \in DOMAIN x.asked : i \in Nat /\ (i # 1 => i - 1 \in DOMAIN y.asked)
  BY <1>1
<1>3. \A i \in DOMAIN y.asked : i \in is <=> i + 1 \in was
  BY <1>2
<1>4. CASE was = {}
  <2>1. is = {}
    BY <1>2, <1>3, <1>4
  <2>2. ~Sends(x.asked[1], port)
    BY <1>2, <1>4
  <2>3. x.in[port] = value
    BY <1>4 DEF EndsUpWith, Sends
  <2>4. y.in[port] = value
    BY <1>1, <1>2, <2>2, <2>3 DEF Sends
  <2> QED
    BY <2>1, <2>4 DEF EndsUpWith, Sends
<1>5. CASE was # {}
  <2>1. PICK i \in was : x.asked[i].value = value /\ \A j \in was : j <= i
    BY <1>5 DEF EndsUpWith, Sends
  <2>2. CASE i = 1
    <3>1. is = {}
      <4>1. ASSUME NEW j \in is PROVE FALSE
        <5>1. j \in DOMAIN y.asked /\ j + 1 \in was
          BY <1>3, <4>1
        <5>2. j + 1 <= 1 /\ j \in 1 .. Len(x.asked) - 1
          BY <1>2, <2>1, <2>2, <5>1
        <5> QED
          BY <1>2, <5>2
      <4> QED
        BY <4>1
    <3>2. Sends(x.asked[1], port)
      BY <2>2
    <3>3. y.in[port] = value
      BY <1>1, <1>2, <2>1, <2>2, <3>2 DEF Sends
    <3> QED
      BY <3>1, <3>3 DEF EndsUpWith, Sends
  <2>3. CASE i # 1
    <3>1. i - 1 \in is /\ y.asked[i - 1].value = value
      BY <1>2, <2>1, <2>3
    <3>2. ASSUME NEW j \in is PROVE j <= i - 1
      <4>1. j \in Nat /\ j + 1 \in was /\ i \in Nat
        BY <1>2, <1>3, <3>2
      <4> QED
        BY <2>1, <4>1
    <3> QED
      BY <3>1, <3>2 DEF EndsUpWith, Sends
  <2> QED
    BY <2>2, <2>3
<1> QED
  BY <1>4, <1>5

(* What a port ends up with depends on what was asked of the component and *)
(* on what it holds.                                                       *)
LEMMA SameRecord ==
    ASSUME NEW x, NEW y, y.asked = x.asked, y.in = x.in PROVE Same(y, x)
  BY DEF Same, EndsUpWith

(* With nothing on its way to it a port keeps what it has.                 *)
LEMMA NoneSent ==
    ASSUME NEW x, NEW port, \A i \in DOMAIN x.asked : x.asked[i].op # "SEND_DATA"
    PROVE  \A value : EndsUpWith(x, port, value) <=> x.in[port] = value
<1>1. {i \in DOMAIN x.asked : x.asked[i].op = "SEND_DATA" /\ x.asked[i].port = port} = {}
  OBVIOUS
<1> QED
  BY <1>1 DEF EndsUpWith

(* So it does when a request for something else is lost or refused.        *)
LEMMA LostSame ==
    ASSUME NEW x \in Devices, x.asked # << >>, NEW y, y.asked = Tail(x.asked), y.in = x.in,
           \A i \in DOMAIN x.asked : x.asked[i].op # "SEND_DATA"
    PROVE  Same(y, x)
<1>1. x.asked \in Seq(Requests)
  BY DEF Devices
<1>2. \A i \in DOMAIN y.asked : i + 1 \in DOMAIN x.asked /\ y.asked[i] = x.asked[i + 1]
  BY <1>1
<1>3. \A i \in DOMAIN y.asked : y.asked[i].op # "SEND_DATA"
  BY <1>2
<1>4. ASSUME NEW port \in InPorts, NEW value, EndsUpWith(x, port, value)
      PROVE  EndsUpWith(y, port, value)
  <2>1. x.in[port] = value
    BY <1>4, NoneSent
  <2>2. y.in[port] = value
    BY <2>1
  <2> QED
    BY <1>3, <2>2, NoneSent
<1> QED
  BY <1>4 DEF Same

-----------------------------------------------------------------------------
(* The invariant.                                                          *)

(* What is on its way to a device and back, the ring with it.              *)
Load(x, line) ==
    Len(x.asked) + Len(x.answers) + (IF x.kind = "tcp" THEN Len(line) ELSE 0)
Only(x, op) == \A i \in DOMAIN x.asked : x.asked[i].op = op

(* Where no answer can be taken for another's, there is one request, or    *)
(* one answer, on its way at most: that of the call that waits.            *)
Sole ==
    \A d \in Ids : Undisturbed(d)
        => /\ Load(dev[d], ring) <= (IF Waiting /\ d = rtno THEN 1 ELSE 0)
           /\ Only(dev[d], Awaited)

Injecting == pc = "data" /\ cmd.op = "inject"
Own == dev[rtno].component.in
Ack(answer) == answer.op = "SEND_DATA" /\ answer.res = "OK"

(* Requests on their way carry the value, and an answer that says OK says  *)
(* that the port has it.                                                   *)
Honest(x, line, port, value) ==
    /\ \A i \in DOMAIN x.asked : x.asked[i].port = port /\ x.asked[i].value = value
    /\ \A i \in DOMAIN x.answers : Ack(x.answers[i]) => x.in[port] = value
    /\ x.kind = "tcp" => \A i \in DOMAIN line : Ack(line[i]) => x.in[port] = value
SoleData ==
    Injecting /\ Undisturbed(rtno)
        => /\ cmd.port \in DOMAIN Own
           /\ Honest(dev[rtno], ring, cmd.port, Sent(Own[cmd.port], cmd.text))

(* Where nothing is lost or refused, the request of inject is the last one *)
(* to its port.                                                            *)
Carried ==
    Injecting /\ Obeying(rtno)
        => /\ cmd.port \in DOMAIN Own
           /\ EndsUpWith(dev[rtno], cmd.port, Sent(Own[cmd.port], cmd.text))

(* The other calls are not an inject.                                      *)
Others ==
    /\ pc = "call" => cmd.op \in Calls
    /\ ret.cmd.op = "inject" /\ ret.res = "OK" => ret.dev \in Ids

InjectInv ==
    /\ TypeInv /\ Fed /\ ForeignOnlyFromDropped
    /\ Sole /\ SoleData /\ Carried /\ Others /\ ScalarInjectIsKept

(* inject names an input port, and is none of the other commands.          *)
LEMMA InjectPort ==
    ASSUME NEW c \in Commands
    PROVE  c.op = "inject" => c.op \notin Calls /\ c.port \in InPorts
  BY ShellAssumption DEF Commands, Lines, NoCommand

(* An answer that is not the open device's is from one that disturbs it;   *)
(* where that does not matter they have the same component.                *)
LEMMA AnswerOfOwn ==
    ASSUME TypeInv, Fed, Waiting, Arrived # << >>, Undisturbed(rtno) \/ Obeying(rtno)
    PROVE  dev[Head(Arrived).from].component = dev[rtno].component
<1>1. rtno \in Ids /\ rtno = serial_port /\ Head(Arrived).from \in Ids
  BY OpenDevice, ArrivedType
<1>2. CASE dev[rtno].kind # "tcp"
  BY <1>2, ArrivedType
<1>3. CASE dev[rtno].kind = "tcp"
  <2>1. Head(Arrived) = ring[1] /\ 1 \in DOMAIN ring
    <3>1. Head(Arrived) = Head(ring) /\ ring # << >> /\ ring \in Seq(Items)
      BY <1>3, ArrivedType DEF TypeInv, TypeOK
    <3> QED
      BY <3>1
  <2>2. dev[Head(Arrived).from].kind = "tcp"
    BY <2>1 DEF Fed
  <2>3. Head(Arrived).from = rtno \/ Head(Arrived).from \in dropped
    BY <1>1, <2>2 DEF Fed
  <2> QED
    BY <1>1, <1>3, <2>2, <2>3 DEF Undisturbed, Alone, Obeying, Alike
<1> QED
  BY <1>2, <1>3

(* An EtherTcp that is alone has the ring for itself.                      *)
LEMMA RingOfOwn ==
    ASSUME TypeInv, Fed, NEW d \in Ids, Alone(d), dev[d].kind = "tcp",
           NEW e \in Ids, dev[e].kind = "tcp"
    PROVE  e = d
  BY DEF Fed, Alone

(* What disturbs a device is not undone, and neither is a failure.         *)
LEMMA Monotone ==
    ASSUME TypeInv, Ids \subseteq Ids', dropped \subseteq dropped',
           \A i \in Ids : /\ dev'[i].kind = dev[i].kind /\ dev'[i].component = dev[i].component
                          /\ dev[i].gaveup => dev'[i].gaveup
                          /\ dev[i].failed => dev'[i].failed
    PROVE  \A d \in Ids : (Undisturbed(d)' => Undisturbed(d)) /\ (Obeying(d)' => Obeying(d))
<1>1. dropped \subseteq Ids
  BY DEF TypeInv, TypeOK
<1>2. ASSUME NEW d \in Ids, Undisturbed(d)' PROVE Undisturbed(d)
  BY <1>1, <1>2 DEF Undisturbed, Alone
<1>3. ASSUME NEW d \in Ids, Obeying(d)' PROVE Obeying(d)
  BY <1>3 DEF Obeying, Alike
<1> QED
  BY <1>2, <1>3

(* A step on one device.                                                   *)
LEMMA SeqSubset == ASSUME NEW S, NEW T, S \subseteq T, NEW s \in Seq(S) PROVE s \in Seq(T)
  BY \A i \in 1 .. Len(s) : s[i] \in T

(* The others stay what they are.                                          *)
LEMMA OneChanges ==
    ASSUME dev \in Seq(Devices), NEW d \in Ids, NEW x, dev' = [dev EXCEPT ![d] = x]
    PROVE  Ids' = Ids /\ dev'[d] = x /\ \A i \in Ids : dev'[i] = IF i = d THEN x ELSE dev[i]
<1> DEFINE S == Devices \cup {x}
<1>1. dev \in Seq(S) /\ x \in S
  BY SeqSubset
<1> HIDE DEF S
<1> QED
  BY <1>1 DEF Ids

-----------------------------------------------------------------------------
(* The threads, the components and the line.                               *)

(* A step adds nothing to what is on its way, and no answer that says OK   *)
(* and is not true.                                                        *)
Calm(y, after, x, line) ==
    /\ Load(y, after) <= Load(x, line)
    /\ \A op : Only(x, op) => Only(y, op)
    /\ \A port \in InPorts : \A value :
          Load(x, line) <= 1 /\ Only(x, "SEND_DATA") /\ Honest(x, line, port, value)
              => Honest(y, after, port, value)

(* The sum of the three.                                                   *)
LEMMA LoadIs ==
    ASSUME NEW x, NEW line, Len(x.asked) \in Nat, Len(x.answers) \in Nat, Len(line) \in Nat
    PROVE  /\ x.kind = "tcp" => Load(x, line) = Len(x.asked) + Len(x.answers) + Len(line)
           /\ x.kind # "tcp" => Load(x, line) = Len(x.asked) + Len(x.answers)
           /\ Load(x, line) \in Nat
<1> DEFINE a == Len(x.asked)
           b == Len(x.answers)
           c == IF x.kind = "tcp" THEN Len(line) ELSE 0
<1>1. Load(x, line) = a + b + c
  BY DEF Load
<1>2. a \in Nat /\ b \in Nat /\ c \in Nat
  OBVIOUS
<1>3. (x.kind = "tcp" => c = Len(line)) /\ (x.kind # "tcp" => c = 0)
  OBVIOUS
<1> HIDE DEF a, b, c
<1>4. Load(x, line) \in Nat /\ (c = 0 => Load(x, line) = a + b)
  BY <1>1, <1>2
<1> QED
  BY <1>1, <1>3, <1>4 DEF a, b

LEMMA LoadNat == ASSUME NEW x \in Devices, NEW line \in Seq(Items) PROVE Load(x, line) \in Nat
<1>1. Len(x.asked) \in Nat /\ Len(x.answers) \in Nat /\ Len(line) \in Nat
  BY DEF Devices
<1> QED
  BY <1>1, LoadIs

(* What makes it no larger, and what it says when it is one.               *)
LEMMA LoadLess ==
    ASSUME NEW x, NEW line, NEW y, NEW after, y.kind = x.kind,
           Len(x.asked) \in Nat, Len(x.answers) \in Nat, Len(line) \in Nat,
           Len(y.asked) \in Nat, Len(y.answers) \in Nat, Len(after) \in Nat,
           NEW a \in Int, NEW b \in Int, NEW c \in Int,
           Len(y.asked) = Len(x.asked) + a, Len(y.answers) = Len(x.answers) + b,
           Len(after) = Len(line) + c, a + b <= 0, a + b + c <= 0
    PROVE  Load(y, after) <= Load(x, line)
<1>1. ASSUME NEW k \in Nat, NEW l \in Nat, NEW m \in Nat
      PROVE  (k + a) + (l + b) <= k + l /\ (k + a) + (l + b) + (m + c) <= k + l + m
  OBVIOUS
<1>2. /\ x.kind = "tcp" => Load(x, line) = Len(x.asked) + Len(x.answers) + Len(line)
      /\ x.kind # "tcp" => Load(x, line) = Len(x.asked) + Len(x.answers)
  BY LoadIs
<1>3. /\ x.kind = "tcp" => Load(y, after) = Len(y.asked) + Len(y.answers) + Len(after)
      /\ x.kind # "tcp" => Load(y, after) = Len(y.asked) + Len(y.answers)
  BY LoadIs
<1> QED
  BY <1>1, <1>2, <1>3

(* One request on its way is all there is.                                 *)
LEMMA LoadOne ==
    ASSUME NEW x, NEW line, Len(x.asked) \in Nat, Len(x.answers) \in Nat, Len(line) \in Nat,
           Load(x, line) <= 1
    PROVE  /\ Len(x.asked) >= 1
                => /\ Len(x.asked) = 1 /\ Len(x.answers) = 0
                   /\ x.kind = "tcp" => Len(line) = 0
           /\ Len(x.answers) >= 1 \/ (x.kind = "tcp" /\ Len(line) >= 1)
                => Len(x.asked) = 0
           /\ Load(x, line) <= 0
                => /\ Len(x.asked) = 0 /\ Len(x.answers) = 0
                   /\ x.kind = "tcp" => Len(line) = 0
<1>1. ASSUME NEW k \in Nat, NEW l \in Nat, NEW m \in Nat, k + l + m <= 1
      PROVE  /\ k >= 1 => k = 1 /\ l = 0 /\ m = 0
             /\ l >= 1 \/ m >= 1 => k = 0
             /\ k + l + m <= 0 => k = 0 /\ l = 0 /\ m = 0
  BY <1>1
<1>2. ASSUME NEW k \in Nat, NEW l \in Nat, k + l <= 1
      PROVE  /\ k >= 1 => k = 1 /\ l = 0
             /\ l >= 1 => k = 0
             /\ k + l <= 0 => k = 0 /\ l = 0
  BY <1>2
<1>3. /\ x.kind = "tcp" => Load(x, line) = Len(x.asked) + Len(x.answers) + Len(line)
      /\ x.kind # "tcp" => Load(x, line) = Len(x.asked) + Len(x.answers)
  BY LoadIs
<1>4. CASE x.kind = "tcp"
  BY <1>1, <1>3, <1>4
<1>5. CASE x.kind # "tcp"
  BY <1>2, <1>3, <1>5
<1> QED
  BY <1>4, <1>5

(* A step of the thread, or one that is none of the device's.              *)
LEMMA ThreadCalm ==
    ASSUME NEW x \in Devices, NEW line, NEW after, NEW y,
           y.kind = x.kind, y.asked = x.asked, y.answers = x.answers, y.in = x.in,
           Len(line) \in Nat, x.kind = "tcp" => after = line
    PROVE  Calm(y, after, x, line)
<1>1. /\ Len(x.asked) \in Nat /\ Len(x.answers) \in Nat
  BY DEF Devices
<1>2. Load(y, after) = Load(x, line)
  BY DEF Load
<1>3. Load(x, line) \in Nat
  BY <1>1, LoadIs
<1>4. Load(y, after) <= Load(x, line)
  BY <1>2, <1>3
<1>5. \A op : Only(x, op) => Only(y, op)
  BY DEF Only
<1>6. \A port, value : Honest(x, line, port, value) => Honest(y, after, port, value)
  BY DEF Honest
<1> QED
  BY <1>4, <1>5, <1>6 DEF Calm

(* EtherTcp::read takes the first answer out of the ring.                  *)
LEMMA ReadCalm ==
    ASSUME NEW x \in Devices, NEW line \in Seq(Items), line # << >>, NEW y,
           y.kind = x.kind, y.asked = x.asked, y.answers = x.answers, y.in = x.in
    PROVE  Calm(y, Tail(line), x, line)
<1>1. /\ Len(x.asked) \in Nat /\ Len(x.answers) \in Nat
  BY DEF Devices
<1>2. /\ Len(line) \in Nat /\ Len(Tail(line)) \in Nat /\ Len(Tail(line)) = Len(line) + (-1)
      /\ \A i \in DOMAIN Tail(line) : i + 1 \in DOMAIN line /\ Tail(line)[i] = line[i + 1]
  OBVIOUS
<1>3. Load(y, Tail(line)) <= Load(x, line)
  <2>1. Len(y.asked) = Len(x.asked) + 0 /\ Len(y.answers) = Len(x.answers) + 0
    BY <1>1
  <2>2. 0 \in Int /\ -1 \in Int /\ 0 + 0 <= 0 /\ 0 + 0 + (-1) <= 0
    OBVIOUS
  <2>3. Len(y.asked) \in Nat /\ Len(y.answers) \in Nat
    BY <1>1
  <2> QED
    BY <1>1, <1>2, <2>1, <2>2, <2>3, LoadLess
<1>5. \A op : Only(x, op) => Only(y, op)
  BY DEF Only
<1>6. \A port, value : Honest(x, line, port, value) => Honest(y, Tail(line), port, value)
  BY <1>2 DEF Honest
<1> QED
  BY <1>3, <1>5, <1>6 DEF Calm

(* An answer goes into the ring, as it is or spoilt, or is lost.           *)
LEMMA ReceiveCalm ==
    ASSUME NEW x \in Devices, x.answers # << >>, NEW line \in Seq(Items), NEW after, NEW y,
           y.kind = x.kind, y.asked = x.asked, y.answers = Tail(x.answers), y.in = x.in,
           \/ after = line
           \/ \E item \in Items :
                 /\ item.op \in {Head(x.answers).op, "spoilt"} /\ item.res = Head(x.answers).res
                 /\ after = Append(line, item)
    PROVE  Calm(y, after, x, line)
<1>1. x.asked \in Seq(Requests) /\ x.answers \in Seq(Answers)
  BY DEF Devices
<1>2. /\ Len(x.asked) \in Nat /\ Len(x.answers) \in Nat /\ Len(line) \in Nat
      /\ Len(y.answers) = Len(x.answers) - 1
      /\ 1 \in DOMAIN x.answers /\ Head(x.answers) = x.answers[1]
      /\ \A i \in DOMAIN y.answers : i + 1 \in DOMAIN x.answers /\ y.answers[i] = x.answers[i + 1]
  BY <1>1
<1>3. Len(after) \in Nat /\ (Len(after) = Len(line) \/ Len(after) = Len(line) + 1)
  BY <1>2
<1>4. \A i \in DOMAIN after : \/ i \in DOMAIN line /\ after[i] = line[i]
                             \/ /\ after[i].op \in {x.answers[1].op, "spoilt"}
                                /\ after[i].res = x.answers[1].res
  <2>1. CASE after = line
    BY <2>1
  <2>2. ASSUME NEW item \in Items, item.op \in {x.answers[1].op, "spoilt"},
               item.res = x.answers[1].res, after = Append(line, item), NEW i \in DOMAIN after
        PROVE  \/ i \in DOMAIN line /\ after[i] = line[i]
               \/ after[i].op \in {x.answers[1].op, "spoilt"} /\ after[i].res = x.answers[1].res
    <3>1. after[i] = IF i \in DOMAIN line THEN line[i] ELSE item
      BY <2>2
    <3> QED
      BY <2>2, <3>1
  <2> QED
    BY <1>2, <2>1, <2>2
<1>5. Load(y, after) <= Load(x, line)
  <2>1. /\ Len(y.asked) \in Nat /\ Len(y.asked) = Len(x.asked) + 0
        /\ Len(y.answers) \in Nat /\ Len(y.answers) = Len(x.answers) + (-1)
    BY <1>1, <1>2
  <2>2. PICK c \in {0, 1} : Len(after) = Len(line) + c
    BY <1>2, <1>3
  <2>3. c \in Int /\ -1 \in Int /\ 0 \in Int /\ 0 + (-1) <= 0 /\ 0 + (-1) + c <= 0
    BY <2>2
  <2> QED
    BY <1>2, <1>3, <2>1, <2>2, <2>3, LoadLess
<1>6. \A op : Only(x, op) => Only(y, op)
  BY DEF Only
<1>7. ASSUME NEW port \in InPorts, NEW value, Honest(x, line, port, value)
      PROVE  Honest(y, after, port, value)
  <2>1. \A i \in DOMAIN y.answers : Ack(y.answers[i]) => y.in[port] = value
    BY <1>2, <1>7 DEF Honest
  <2>2. Ack(x.answers[1]) => y.in[port] = value
    BY <1>2, <1>7 DEF Honest
  <2>3. y.kind = "tcp" => \A i \in DOMAIN after : Ack(after[i]) => y.in[port] = value
    BY <1>4, <1>7, <2>2 DEF Honest, Ack
  <2> QED
    BY <1>7, <2>1, <2>3 DEF Honest
<1> QED
  BY <1>5, <1>6, <1>7 DEF Calm

(* A request is taken, and answered or not.  One that is performed leaves  *)
(* its value in the port, and no other answer says OK.                     *)
LEMMA RequestCalm ==
    ASSUME NEW x \in Devices, x.asked # << >>, NEW line \in Seq(Items), NEW y,
           y.kind = x.kind, y.asked = Tail(x.asked),
           \/ y.answers = x.answers /\ y.in = x.in
           \/ /\ \E answer \in Answers :
                    answer.res = "ERR" /\ y.answers = Append(x.answers, answer)
              /\ y.in = x.in
           \/ /\ \E answer \in Answers :
                    answer.op = Head(x.asked).op /\ y.answers = Append(x.answers, answer)
              /\ y.in = IF Head(x.asked).op = "SEND_DATA"
                        THEN [x.in EXCEPT ![Head(x.asked).port] = Head(x.asked).value] ELSE x.in
    PROVE  Calm(y, line, x, line)
<1>1. /\ x.asked \in Seq(Requests) /\ x.answers \in Seq(Answers)
      /\ x.in \in [InPorts -> Seq(Elements)]
  BY DEF Devices
<1>2. /\ Len(x.asked) \in Nat /\ Len(x.answers) \in Nat /\ Len(line) \in Nat
      /\ Len(y.asked) = Len(x.asked) - 1
      /\ 1 \in DOMAIN x.asked /\ Head(x.asked) = x.asked[1]
      /\ \A i \in DOMAIN y.asked : i + 1 \in DOMAIN x.asked /\ y.asked[i] = x.asked[i + 1]
  BY <1>1
<1>3. Len(y.answers) \in Nat /\ (Len(y.answers) = Len(x.answers) \/ Len(y.answers) = Len(x.answers) + 1)
  BY <1>1, <1>2
<1>4. Load(y, line) <= Load(x, line)
  <2>1. Len(y.asked) \in Nat /\ Len(y.asked) = Len(x.asked) + (-1) /\ Len(line) = Len(line) + 0
    BY <1>1, <1>2
  <2>2. PICK b \in {0, 1} : Len(y.answers) = Len(x.answers) + b
    BY <1>2, <1>3
  <2>3. b \in Int /\ -1 \in Int /\ 0 \in Int /\ (-1) + b <= 0 /\ (-1) + b + 0 <= 0
    BY <2>2
  <2> QED
    BY <1>2, <1>3, <2>1, <2>2, <2>3, LoadLess
<1>5. \A op : Only(x, op) => Only(y, op)
  BY <1>2 DEF Only
<1>6. ASSUME NEW port \in InPorts, NEW value, Load(x, line) <= 1, Only(x, "SEND_DATA"),
             Honest(x, line, port, value)
      PROVE  Honest(y, line, port, value)
  <2>1. Len(x.answers) = 0 /\ Len(x.asked) = 1 /\ (x.kind = "tcp" => Len(line) = 0)
    <3>1. Len(x.asked) >= 1
      BY <1>1, <1>2
    <3> QED
      BY <1>2, <1>6, <3>1, LoadOne
  <2>2. x.answers = << >> /\ y.asked = << >> /\ (x.kind = "tcp" => line = << >>)
    <3>1. y.asked = << >>
      BY <1>1, <1>2, <2>1
    <3>2. x.answers = << >> /\ (x.kind = "tcp" => line = << >>)
      BY <1>1, <2>1
    <3> QED
      BY <3>1, <3>2
  <2>3. x.asked[1].op = "SEND_DATA" /\ x.asked[1].port = port /\ x.asked[1].value = value
    BY <1>2, <1>6 DEF Only, Honest
  <2>4. ASSUME NEW i \in DOMAIN y.answers, Ack(y.answers[i]) PROVE y.in[port] = value
    <3>1. CASE \E answer \in Answers : answer.res = "ERR" /\ y.answers = Append(x.answers, answer)
      <4>1. PICK answer \in Answers : answer.res = "ERR" /\ y.answers = Append(x.answers, answer)
        BY <3>1
      <4>2. y.answers = <<answer>>
        BY <2>2, <4>1
      <4>3. y.answers[i] = answer
        BY <2>4, <4>2
      <4> QED
        BY <2>4, <4>1, <4>3 DEF Ack
    <3>2. CASE y.in = [x.in EXCEPT ![port] = value]
      BY <1>1, <3>2
    <3>3. y.answers # x.answers
      BY <2>2, <2>4
    <3> QED
      BY <1>2, <2>3, <3>1, <3>2, <3>3
  <2>5. \A i \in DOMAIN y.asked : y.asked[i].port = port /\ y.asked[i].value = value
    BY <1>2, <1>6 DEF Honest
  <2>6. y.kind = "tcp" => \A i \in DOMAIN line : Ack(line[i]) => y.in[port] = value
    BY <2>2
  <2> QED
    BY <2>4, <2>5, <2>6 DEF Honest
<1> QED
  BY <1>4, <1>5, <1>6 DEF Calm

(* A request that is lost or refused.                                      *)
Failing(y, x) ==
    y.failed /\ x.asked # << >> /\ y.asked = Tail(x.asked) /\ y.in = x.in

(* What each device may do while no call begins or ends.                   *)
Steady ==
    /\ Ids' = Ids
    /\ \A i \in Ids :
          /\ Undisturbed(i)' => Undisturbed(i) /\ Calm(dev'[i], ring', dev[i], ring)
          /\ Obeying(i)' => Obeying(i)
          /\ Same(dev'[i], dev[i]) \/ Failing(dev'[i], dev[i])
          /\ dev'[i].component = dev[i].component

(* Nothing happens.                                                        *)
LEMMA StutterSteady == TypeInv /\ UNCHANGED <<main, dev, ring>> => Steady
<1> SUFFICES ASSUME TypeInv, UNCHANGED <<main, dev, ring>> PROVE Steady
  OBVIOUS
<1>1. /\ Ids' = Ids /\ dropped' = dropped /\ dev' = dev /\ ring' = ring
      /\ ring \in Seq(Items) /\ \A i \in Ids : dev[i] \in Devices
  BY DEF main, Ids, TypeInv, TypeOK
<1>2. \A i \in Ids : (Undisturbed(i)' => Undisturbed(i)) /\ (Obeying(i)' => Obeying(i))
  BY <1>1, Monotone
<1>3. \A i \in Ids : Calm(dev[i], ring, dev[i], ring) /\ Same(dev[i], dev[i])
  BY <1>1, ThreadCalm, SameRecord
<1> QED
  BY <1>1, <1>2, <1>3 DEF Steady

(* A step on one device.                                                   *)
LEMMA OneSteady ==
    ASSUME TypeInv, Fed, NEW d \in Ids, NEW y, dev' = [dev EXCEPT ![d] = y],
           UNCHANGED dropped, ring' = ring \/ dev[d].kind = "tcp",
           y.kind = dev[d].kind, y.component = dev[d].component,
           dev[d].gaveup => y.gaveup, dev[d].failed => y.failed,
           y.gaveup \/ Calm(y, ring', dev[d], ring),
           Same(y, dev[d]) \/ Failing(y, dev[d])
    PROVE  Steady
<1>1. /\ dev \in Seq(Devices) /\ ring \in Seq(Items) /\ \A i \in Ids : dev[i] \in Devices
  BY DEF TypeInv, TypeOK, Ids
<1>5. Ids' = Ids /\ dev'[d] = y /\ \A i \in Ids : dev'[i] = IF i = d THEN y ELSE dev[i]
  BY <1>1, OneChanges
<1>6. \A i \in Ids : (Undisturbed(i)' => Undisturbed(i)) /\ (Obeying(i)' => Obeying(i))
  BY <1>5, Monotone
<1>7. ASSUME NEW i \in Ids, Undisturbed(i)' PROVE Calm(dev'[i], ring', dev[i], ring)
  <2>1. CASE i = d
    BY <1>5, <1>7, <2>1 DEF Undisturbed
  <2>2. CASE i # d
    <3>1. dev'[i] = dev[i] /\ dev[i] \in Devices /\ Len(ring) \in Nat
      BY <1>1, <1>5, <2>2
    <3>2. dev[i].kind = "tcp" => ring' = ring
      BY <1>6, <1>7, <2>2, RingOfOwn DEF Undisturbed
    <3> QED
      BY <3>1, <3>2, ThreadCalm
  <2> QED
    BY <2>1, <2>2
<1>8. ASSUME NEW i \in Ids
      PROVE  /\ Same(dev'[i], dev[i]) \/ Failing(dev'[i], dev[i])
             /\ dev'[i].component = dev[i].component
  BY <1>5, SameRecord
<1> QED
  BY <1>5, <1>6, <1>7, <1>8 DEF Steady

(* A step of the thread of d, of its component or of its line.             *)
LEMMA OthersSteady ==
    ASSUME TypeInv, Fed, NEW d \in Ids, Stepped(d) PROVE Steady
<1> DEFINE x == dev[d]
           Step(y) == /\ y.kind = x.kind /\ y.component = x.component /\ y.gaveup = x.gaveup
                      /\ x.failed => y.failed
                      /\ Calm(y, ring', x, ring)
                      /\ Same(y, x) \/ Failing(y, x)
<1>1. /\ dev \in Seq(Devices) /\ x \in Devices /\ ring \in Seq(Items)
      /\ \A i \in Ids : dev[i] \in Devices
  BY DEF TypeInv, TypeOK, Ids
<1>2. /\ UNCHANGED main
      /\ ring' = ring \/ (x.kind = "tcp" /\ SvcReceive(d))
  BY OthersKeep DEF Fed
<1>3. \E y : dev' = [dev EXCEPT ![d] = y] /\ Step(y)
  <2> HIDE DEF x
  <2>t. ASSUME NEW y, y.kind = x.kind, y.asked = x.asked, y.answers = x.answers, y.in = x.in,
               ring' = ring
        PROVE  Calm(y, ring', x, ring) /\ Same(y, x)
    BY <1>1, <2>t, ThreadCalm, SameRecord
  <2>1. CASE SvcStart(d) /\ dev' = [dev EXCEPT ![d] = Started(x)]
    <3> DEFINE y == Started(x)
    <3>1. /\ y.kind = x.kind /\ y.component = x.component /\ y.gaveup = x.gaveup
          /\ y.failed = x.failed /\ y.asked = x.asked /\ y.answers = x.answers /\ y.in = x.in
      BY <1>1 DEF Started, Devices
    <3>2. ring' = ring
      BY <2>1 DEF SvcStart
    <3> HIDE DEF y
    <3>3. Calm(y, ring', x, ring) /\ Same(y, x)
      BY <2>t, <3>1, <3>2
    <3> QED
      BY <2>1, <3>1, <3>3 DEF y
  <2>2. CASE SvcEnd(d) /\ dev' = [dev EXCEPT ![d] = Over(x)]
    <3> DEFINE y == Over(x)
    <3>1. /\ y.kind = x.kind /\ y.component = x.component /\ y.gaveup = x.gaveup
          /\ y.failed = x.failed /\ y.asked = x.asked /\ y.answers = x.answers /\ y.in = x.in
      BY <1>1 DEF Over, Devices
    <3>2. ring' = ring
      BY <2>2 DEF SvcEnd
    <3> HIDE DEF y
    <3>3. Calm(y, ring', x, ring) /\ Same(y, x)
      BY <2>t, <3>1, <3>2
    <3> QED
      BY <2>2, <3>1, <3>3 DEF y
  <2>3. CASE /\ SvcReceive(d) \/ LoseAnswer(d)
             /\ x.answers # << >> /\ dev' = [dev EXCEPT ![d] = Received(x)]
    <3> DEFINE y == Received(x)
    <3>1. /\ y.kind = x.kind /\ y.component = x.component /\ y.gaveup = x.gaveup
          /\ y.failed = x.failed /\ y.asked = x.asked /\ y.answers = Tail(x.answers) /\ y.in = x.in
      BY <1>1 DEF Received, Devices
    <3>2. \/ ring' = ring
          \/ \E item \in Items :
                /\ item.op \in {Head(x.answers).op, "spoilt"} /\ item.res = Head(x.answers).res
                /\ ring' = Append(ring, item)
      <4>1. CASE LoseAnswer(d)
        BY <4>1 DEF LoseAnswer
      <4>2. CASE SvcReceive(d)
        <5> DEFINE item(op) == [from |-> d, op |-> op, res |-> Head(x.answers).res]
        <5>1. PICK op \in {Head(x.answers).op, "spoilt"} : ring' = Append(ring, item(op))
          BY <4>2 DEF SvcReceive, x
        <5>2. Head(x.answers) \in Answers
          BY <1>1, <2>3, AnsweredType
        <5>3. item(op) \in Items /\ item(op).op = op /\ item(op).res = Head(x.answers).res
          BY <5>1, <5>2 DEF Items, Answers, Ids
        <5> HIDE DEF item
        <5> QED
          BY <5>1, <5>3
      <4> QED
        BY <2>3, <4>1, <4>2
    <3> HIDE DEF y
    <3>3. Calm(y, ring', x, ring)
      BY <1>1, <2>3, <3>1, <3>2, ReceiveCalm
    <3>4. Same(y, x)
      BY <3>1, SameRecord
    <3> QED
      BY <2>3, <3>1, <3>3, <3>4 DEF y
  <2>4. CASE Perform(d) /\ x.asked # << >> /\ dev' = [dev EXCEPT ![d] = Performed(x)]
    <3> DEFINE y == Performed(x)
               answer == [op |-> Head(x.asked).op, res |-> "OK"]
    <3>1. /\ y.kind = x.kind /\ y.component = x.component /\ y.gaveup = x.gaveup
          /\ y.failed = x.failed /\ y.asked = Tail(x.asked) /\ y.answers = Append(x.answers, answer)
          /\ y.in = IF Head(x.asked).op = "SEND_DATA"
                    THEN [x.in EXCEPT ![Head(x.asked).port] = Head(x.asked).value] ELSE x.in
      BY <1>1 DEF Performed, Devices
    <3>2. answer \in Answers /\ answer.op = Head(x.asked).op
      <4>1. Head(x.asked) \in Requests
        BY <1>1, <2>4, RequestValue
      <4> QED
        BY <4>1 DEF Requests, Answers
    <3> HIDE DEF y, answer
    <3>3. ring' = ring
      BY <2>4 DEF Perform
    <3>4. Calm(y, ring, x, ring)
      BY <1>1, <2>4, <3>1, <3>2, RequestCalm
    <3>5. Same(y, x)
      BY <1>1, <2>4, <3>1, PerformedSame
    <3> QED
      BY <2>4, <3>1, <3>3, <3>4, <3>5 DEF y
  <2>5. ASSUME Refuse(d), x.asked # << >>, NEW op \in {Head(x.asked).op, "PACKET_ERROR"},
               dev' = [dev EXCEPT ![d] = Refused(x, op)]
        PROVE  \E y : dev' = [dev EXCEPT ![d] = y] /\ Step(y)
    <3> DEFINE y == Refused(x, op)
               answer == [op |-> op, res |-> "ERR"]
    <3>1. /\ y.kind = x.kind /\ y.component = x.component /\ y.gaveup = x.gaveup
          /\ y.failed = TRUE /\ y.asked = Tail(x.asked) /\ y.answers = Append(x.answers, answer)
          /\ y.in = x.in
      BY <1>1 DEF Refused, Devices
    <3>2. answer \in Answers /\ answer.res = "ERR"
      <4>1. Head(x.asked) \in Requests
        BY <1>1, <2>5, RequestValue
      <4> QED
        BY <2>5, <4>1 DEF Requests, Answers
    <3> HIDE DEF y, answer
    <3>3. ring' = ring
      BY <2>5 DEF Refuse
    <3>4. Calm(y, ring, x, ring)
      BY <1>1, <2>5, <3>1, <3>2, RequestCalm
    <3>5. Failing(y, x)
      BY <2>5, <3>1 DEF Failing
    <3> QED
      BY <2>5, <3>1, <3>3, <3>4, <3>5 DEF y
  <2>6. CASE LoseRequest(d) /\ x.asked # << >> /\ dev' = [dev EXCEPT ![d] = RequestLost(x)]
    <3> DEFINE y == RequestLost(x)
    <3>1. /\ y.kind = x.kind /\ y.component = x.component /\ y.gaveup = x.gaveup
          /\ y.failed = TRUE /\ y.asked = Tail(x.asked) /\ y.answers = x.answers
          /\ y.in = x.in
      BY <1>1 DEF RequestLost, Devices
    <3> HIDE DEF y
    <3>3. ring' = ring
      BY <2>6 DEF LoseRequest
    <3>4. Calm(y, ring, x, ring)
      BY <1>1, <2>6, <3>1, RequestCalm
    <3>5. Failing(y, x)
      BY <2>6, <3>1 DEF Failing
    <3> QED
      BY <2>6, <3>1, <3>3, <3>4, <3>5 DEF y
  <2> QED
    BY <2>1, <2>2, <2>3, <2>4, <2>5, <2>6 DEF Stepped, x
<1> HIDE DEF Step
<1>4. PICK y : dev' = [dev EXCEPT ![d] = y] /\ Step(y)
  BY <1>3
<1> USE DEF Step
<1>5. y.kind = x.kind /\ y.component = x.component /\ (x.gaveup => y.gaveup)
  BY <1>4
<1> QED
  BY <1>2, <1>4, <1>5, OneSteady DEF main

-----------------------------------------------------------------------------
(* What keeps the invariant.                                               *)

(* Nothing is on its way to a device whose load is nothing.                *)
LEMMA LoadZero ==
    ASSUME NEW x \in Devices, NEW line \in Seq(Items), Load(x, line) <= 0
    PROVE  x.asked = << >> /\ \A op : Only(x, op)
<1>1. Len(x.asked) \in Nat /\ Len(x.answers) \in Nat /\ Len(line) \in Nat /\ x.asked \in Seq(Requests)
  BY DEF Devices
<1>2. Load(x, line) \in Nat
  BY <1>1, LoadIs
<1>3. Len(x.asked) = 0
  BY <1>1, <1>2, LoadOne
<1> QED
  BY <1>1, <1>3 DEF Only

(* Between two calls nothing is on its way for a device that is            *)
(* undisturbed.                                                            *)
LEMMA NoneAwaited ==
    ASSUME TypeInv, ~Waiting, \A i \in Ids : Undisturbed(i) => Load(dev[i], ring) <= 0
    PROVE  Sole
<1>1. ring \in Seq(Items) /\ \A i \in Ids : dev[i] \in Devices
  BY DEF TypeInv, TypeOK, Ids
<1> QED
  BY <1>1, LoadZero DEF Sole

(* A request that is lost or refused then was not inject's.                *)
LEMMA FailingSame ==
    ASSUME TypeInv, Sole, Others, NEW d \in Ids, Undisturbed(d), pc # "data",
           NEW y, Failing(y, dev[d])
    PROVE  Same(y, dev[d])
<1>1. ring \in Seq(Items) /\ dev[d] \in Devices
  BY DEF TypeInv, TypeOK, Ids
<1>2. Waiting
  <2>1. ASSUME ~Waiting PROVE FALSE
    <3>1. Load(dev[d], ring) <= 0
      BY <2>1 DEF Sole
    <3> QED
      BY <1>1, <3>1, LoadZero DEF Failing
  <2> QED
    BY <2>1
<1>3. Awaited # "SEND_DATA"
  BY <1>2, ShellAssumption DEF Waiting, Awaited, Others
<1>4. \A i \in DOMAIN dev[d].asked : dev[d].asked[i].op # "SEND_DATA"
  BY <1>3 DEF Sole, Only
<1> QED
  BY <1>1, <1>4, LostSame DEF Failing

(* What inject reported stays true.                                        *)
LEMMA ScalarLast ==
    ASSUME TypeInv, Others, ScalarInjectIsKept, UNCHANGED ret, Ids \subseteq Ids',
           pc = "data" => pc' = "data",
           \A i \in Ids :
              /\ dev'[i].component = dev[i].component
              /\ Undisturbed(i)' => Undisturbed(i)
              /\ Obeying(i)' => Obeying(i)
              /\ pc # "data" /\ (Undisturbed(i)' \/ Obeying(i)') => Same(dev'[i], dev[i])
    PROVE  ScalarInjectIsKept'
<1> DEFINE d == ret.dev
           port == ret.cmd.port
           type == dev[d].component.in
           value == Meant(type[port], ret.cmd.text)
<1> SUFFICES ASSUME d # 0, Undisturbed(d)' \/ Obeying(d)', ret.cmd.op = "inject", ret.res = "OK",
                    pc' # "data", port \in DOMAIN dev'[d].component.in,
                    dev'[d].component.in[port] \in Scalars \cap Injected
             PROVE  EndsUpWith(dev'[d], port, Meant(dev'[d].component.in[port], ret.cmd.text))
  BY DEF ScalarInjectIsKept, InjectIsKept
<1>1. d \in Ids /\ ret.cmd \in Commands
  BY DEF Others, TypeInv, TypeOK
<1>2. port \in InPorts
  BY <1>1, InjectPort
<1>3. /\ dev'[d].component = dev[d].component /\ Same(dev'[d], dev[d])
      /\ Undisturbed(d) \/ Obeying(d)
  BY <1>1
<1>4. EndsUpWith(dev[d], port, value)
  BY <1>1, <1>3 DEF ScalarInjectIsKept, InjectIsKept
<1> QED
  BY <1>2, <1>3, <1>4 DEF Same

(* Steps that leave the main thread where it is.                           *)
LEMMA SteadyKeeps ==
    ASSUME InjectInv, TypeInv', Steady, UNCHANGED main
    PROVE  Sole' /\ SoleData' /\ Carried' /\ Others' /\ ScalarInjectIsKept'
<1>1. /\ UNCHANGED <<pc, rtno, cmd, ret>> /\ Waiting' = Waiting /\ Awaited' = Awaited
      /\ Injecting' = Injecting /\ Ids' = Ids
  BY DEF main, Waiting, Awaited, Injecting, Steady
<1>2. /\ ring \in Seq(Items) /\ ring' \in Seq(Items)
      /\ \A i \in Ids : dev[i] \in Devices /\ dev'[i] \in Devices
  BY <1>1 DEF InjectInv, TypeInv, TypeOK, Ids
<1>3. \A i \in Ids : Load(dev[i], ring) \in Nat /\ Load(dev'[i], ring') \in Nat
  BY <1>2, LoadNat
<1>4. Sole'
  <2>1. ASSUME NEW i \in Ids, Undisturbed(i)'
        PROVE  /\ Load(dev'[i], ring') <= (IF Waiting /\ i = rtno THEN 1 ELSE 0)
               /\ Only(dev'[i], Awaited)
    <3>1. /\ Load(dev[i], ring) <= (IF Waiting /\ i = rtno THEN 1 ELSE 0)
          /\ Only(dev[i], Awaited)
      BY <2>1 DEF InjectInv, Sole, Steady
    <3>2. Load(dev'[i], ring') <= Load(dev[i], ring) /\ Only(dev'[i], Awaited)
      BY <2>1, <3>1 DEF Steady, Calm
    <3> QED
      BY <1>3, <3>1, <3>2
  <2> QED
    BY <1>1, <2>1 DEF Sole
<1>5. Injecting => rtno \in Ids /\ cmd.port \in InPorts /\ Own' = Own
  <2>1. Injecting => Waiting /\ cmd \in Commands
    BY DEF Injecting, Waiting, InjectInv, TypeInv, TypeOK
  <2> QED
    BY <1>1, <2>1, OpenDevice, InjectPort DEF InjectInv, Injecting, Own, Steady
<1>6. SoleData'
  <2>1. ASSUME Injecting, Undisturbed(rtno)'
        PROVE  /\ cmd.port \in DOMAIN Own
               /\ Honest(dev'[rtno], ring', cmd.port, Sent(Own[cmd.port], cmd.text))
    <3>1. Undisturbed(rtno) /\ Calm(dev'[rtno], ring', dev[rtno], ring)
      BY <1>1, <1>5, <2>1 DEF Steady, Undisturbed, Alone
    <3>2. Waiting /\ Awaited = "SEND_DATA"
      BY <2>1 DEF Injecting, Waiting, Awaited
    <3>3. Load(dev[rtno], ring) <= 1 /\ Only(dev[rtno], "SEND_DATA")
      BY <1>5, <2>1, <3>1, <3>2 DEF InjectInv, Sole
    <3> QED
      BY <1>5, <2>1, <3>1, <3>3 DEF InjectInv, SoleData, Calm
  <2> QED
    BY <1>1, <1>5, <2>1 DEF SoleData
<1>7. Carried'
  <2>1. ASSUME Injecting, Obeying(rtno)'
        PROVE  /\ cmd.port \in DOMAIN Own
               /\ EndsUpWith(dev'[rtno], cmd.port, Sent(Own[cmd.port], cmd.text))
    <3>1. Obeying(rtno) /\ Same(dev'[rtno], dev[rtno])
      BY <1>1, <1>5, <2>1 DEF Steady, Obeying, Alike, Failing
    <3> QED
      BY <1>5, <2>1, <3>1 DEF InjectInv, Carried, Same
  <2> QED
    BY <1>1, <1>5, <2>1 DEF Carried
<1>8. Others'
  BY <1>1 DEF InjectInv, Others
<1>9. ASSUME NEW i \in Ids, pc # "data", Undisturbed(i)' \/ Obeying(i)'
      PROVE  Same(dev'[i], dev[i])
  <2>1. CASE Same(dev'[i], dev[i])
    BY <2>1
  <2>2. CASE Failing(dev'[i], dev[i])
    <3>1. Undisturbed(i)
      BY <1>9, <2>2 DEF Steady, Failing, Obeying
    <3> QED
      BY <1>9, <2>2, <3>1, FailingSame DEF InjectInv
  <2> QED
    BY <2>1, <2>2 DEF Steady
<1>10. ScalarInjectIsKept'
  BY <1>1, <1>9, ScalarLast DEF InjectInv, Steady
<1> QED
  BY <1>4, <1>6, <1>7, <1>8, <1>10

(* Steps of the main thread before, after and between calls, and the first *)
(* request of a command.                                                   *)
LEMMA MovesOn ==
    ASSUME InjectInv, UNCHANGED ret, Ids \subseteq Ids', dropped \subseteq dropped',
           pc # "data", pc' # "data", pc' = "call" => cmd'.op \in Calls,
           \A i \in Ids : /\ dev'[i].kind = dev[i].kind /\ dev'[i].component = dev[i].component
                          /\ dev'[i].gaveup = dev[i].gaveup /\ dev'[i].failed = dev[i].failed
                          /\ Same(dev'[i], dev[i])
    PROVE  SoleData' /\ Carried' /\ Others' /\ ScalarInjectIsKept'
<1>2. \A i \in Ids : (Undisturbed(i)' => Undisturbed(i)) /\ (Obeying(i)' => Obeying(i))
  BY Monotone DEF InjectInv
<1>3. ScalarInjectIsKept'
  BY <1>2, ScalarLast DEF InjectInv
<1>4. Others'
  BY DEF InjectInv, Others
<1>5. SoleData' /\ Carried'
  BY DEF SoleData, Carried, Injecting
<1> QED
  BY <1>3, <1>4, <1>5

(* The same, with nothing asked before or after.                           *)
LEMMA StaysIdle ==
    ASSUME InjectInv, TypeInv', UNCHANGED <<ret, ring>>, Ids' = Ids, dropped \subseteq dropped',
           ~Waiting, ~Waiting',
           \A i \in Ids : /\ dev'[i].kind = dev[i].kind /\ dev'[i].component = dev[i].component
                          /\ dev'[i].gaveup = dev[i].gaveup /\ dev'[i].failed = dev[i].failed
                          /\ dev'[i].asked = dev[i].asked /\ dev'[i].answers = dev[i].answers
                          /\ dev'[i].in = dev[i].in
    PROVE  Sole' /\ SoleData' /\ Carried' /\ Others' /\ ScalarInjectIsKept'
<1>1. \A i \in Ids : Same(dev'[i], dev[i])
  BY SameRecord
<1>2. pc # "data" /\ pc' \notin {"call", "data"}
  BY DEF Waiting
<1>3. SoleData' /\ Carried' /\ Others' /\ ScalarInjectIsKept'
  BY <1>1, <1>2, MovesOn
<1>4. ASSUME NEW i \in Ids, Undisturbed(i)' PROVE Load(dev'[i], ring') <= 0
  <2>1. Undisturbed(i)
    BY <1>4, Monotone DEF InjectInv
  <2>2. Load(dev[i], ring) <= 0
    BY <2>1 DEF InjectInv, Sole
  <2>3. Load(dev'[i], ring') = Load(dev[i], ring)
    BY DEF Load
  <2> QED
    BY <2>2, <2>3
<1>5. Sole'
  <2>1. /\ ring' \in Seq(Items) /\ \A i \in Ids' : dev'[i] \in Devices
    BY DEF TypeInv, TypeOK, Ids
  <2>2. \A i \in Ids' : Undisturbed(i)' => Load(dev'[i], ring') <= 0 /\ \A op : Only(dev'[i], op)
    BY <1>4, <2>1, LoadZero
  <2> QED
    BY <2>2 DEF Sole
<1> QED
  BY <1>3, <1>5

(* open: the device has nothing to do yet, and if it has the ring to       *)
(* itself there has been no other that could have left anything there.     *)
LEMMA OpenKeeps ==
    ASSUME InjectInv, TypeInv', NEW kind \in Kinds, NEW component \in Components, Open(kind, component)
    PROVE  Sole' /\ SoleData' /\ Carried' /\ Others' /\ ScalarInjectIsKept'
<1>0. PICK n \in Nat : n = serial_port'
  <2>1. serial_port' \in Ids'
    BY OpenType DEF InjectInv
  <2> QED
    BY <2>1 DEF Ids
<1>1. /\ Ids' = Ids \cup {n} /\ n \notin Ids /\ \A i \in Ids : dev'[i] = dev[i]
      /\ dev'[n] = NewDevice(kind, component) /\ pc' = "prompt"
      /\ dropped' = dropped \cup ({serial_port} \ {0}) /\ UNCHANGED <<ret, ring>>
  BY <1>0, OpenType DEF InjectInv
<1>2. pc \in {"start", "prompt"}
  BY DEF Open, Prompted
<1>3. \A i \in Ids : Same(dev'[i], dev[i])
  BY <1>1, SameRecord
<1>4. SoleData' /\ Carried' /\ Others' /\ ScalarInjectIsKept'
  <2>1. Ids \subseteq Ids' /\ dropped \subseteq dropped'
    BY <1>1
  <2> QED
    BY <1>1, <1>2, <1>3, <2>1, MovesOn
<1>5. ring' \in Seq(Items) /\ ring \in Seq(Items) /\ \A i \in Ids' : dev'[i] \in Devices
  BY <1>1 DEF TypeInv, TypeOK, Ids
<1>6. ASSUME NEW i \in Ids, Undisturbed(i)' PROVE Load(dev'[i], ring') <= 0
  <2>1. \A j \in Ids : dev'[j] = dev[j]
    BY <1>1
  <2>2. Undisturbed(i)
    BY <1>1, <1>6, <2>1, Monotone DEF InjectInv
  <2> QED
    BY <1>1, <1>2, <2>2 DEF InjectInv, Sole, Waiting
<1>7. ASSUME Undisturbed(n)' PROVE Load(dev'[n], ring') <= 0
  <2>1. /\ dev'[n].asked = << >> /\ dev'[n].answers = << >>
    BY <1>1 DEF NewDevice
  <2>2. CASE dev'[n].kind = "tcp"
    <3>1. \A e \in dropped' : dev'[e].kind # "tcp"
      BY <1>7, <2>2 DEF Undisturbed, Alone
    <3>2. \A e \in Ids : dev[e].kind # "tcp"
      <4>1. ASSUME NEW e \in Ids, dev[e].kind = "tcp" PROVE FALSE
        <5>1. e \in dropped' /\ dev'[e].kind = "tcp"
          BY <1>1, <4>1 DEF InjectInv, Fed, Ids
        <5> QED
          BY <3>1, <5>1
      <4> QED
        BY <4>1
    <3>3. ring = << >>
      <4>1. ASSUME ring # << >> PROVE FALSE
        <5>1. 1 \in DOMAIN ring
          BY <1>5, <4>1
        <5> QED
          BY <3>2, <5>1 DEF InjectInv, TypeInv, TypeOK, Fed
      <4> QED
        BY <4>1
    <3> QED
      BY <1>1, <2>1, <2>2, <3>3 DEF Load
  <2>3. CASE dev'[n].kind # "tcp"
    BY <2>1, <2>3 DEF Load
  <2> QED
    BY <2>2, <2>3
<1>8. Sole'
  <2>1. \A i \in Ids' : Undisturbed(i)' => Load(dev'[i], ring') <= 0
    BY <1>1, <1>6, <1>7
  <2>2. \A i \in Ids' : Undisturbed(i)' => \A op : Only(dev'[i], op)
    BY <1>5, <2>1, LoadZero
  <2>3. ~Waiting'
    BY <1>1 DEF Waiting
  <2> QED
    BY <2>1, <2>2, <2>3 DEF Sole
<1> QED
  BY <1>4, <1>8

(* A request with nothing before it.                                       *)
LEMMA OneAsked ==
    ASSUME NEW y, NEW line, NEW req, y.asked = <<req>>, y.answers = << >>,
           y.kind = "tcp" => line = << >>
    PROVE  Load(y, line) <= 1 /\ Only(y, req.op)
<1>1. Len(y.asked) = 1 /\ Len(y.answers) = 0 /\ (y.kind = "tcp" => Len(line) = 0)
  OBVIOUS
<1>2. Load(y, line) = 1
  <2> DEFINE c == IF y.kind = "tcp" THEN Len(line) ELSE 0
  <2>1. c = 0
    BY <1>1
  <2>2. Load(y, line) = Len(y.asked) + Len(y.answers) + c
    BY DEF Load
  <2> HIDE DEF c
  <2>3. Load(y, line) = 1 + 0 + 0
    BY <1>1, <2>1, <2>2
  <2> QED
    BY <2>3
<1> QED
  BY <1>2 DEF Only

(* do_main: a command sends nothing to a port by its first call.           *)
LEMMA CommandInject ==
    ASSUME InjectInv, TypeInv', NEW c \in Commands, Command(c)
    PROVE  Sole' /\ SoleData' /\ Carried' /\ Others' /\ ScalarInjectIsKept'
<1>1. /\ pc = "prompt" /\ UNCHANGED <<ret, ring, dropped, rtno>> /\ cmd' = c
      /\ pc' \in {"call", "profile", "finish", "prompt"}
  BY DEF Command, Prompted, Resume
<1>2. rtno \in Ids /\ dev \in Seq(Devices) /\ dev[rtno] \in Devices /\ ring \in Seq(Items)
  <2>1. serial_port # 0
    BY DEF Command
  <2>2. rtno \in Ids /\ dev \in Seq(Devices) /\ ring \in Seq(Items)
    BY <1>1, <2>1 DEF InjectInv, TypeInv, TypeOK, ProtocolMatchesDevice
  <2> QED
    BY <2>2 DEF Ids
<1>3. CASE UNCHANGED dev /\ pc' \in {"finish", "prompt"}
  <2>1. Ids' = Ids /\ ~Waiting /\ ~Waiting'
    BY <1>1, <1>3 DEF Ids, Waiting
  <2> QED
    BY <1>1, <1>3, <2>1, StaysIdle
<1>4. ASSUME NEW op \in Operations \ {"SEND_DATA"}, Ask(op, "none", << >>),
             \/ pc' = "call" /\ c.op = op /\ op \in Calls
             \/ pc' = "profile" /\ op = "GET_PROFILE"
      PROVE  Sole' /\ SoleData' /\ Carried' /\ Others' /\ ScalarInjectIsKept'
  <2> DEFINE req == [op |-> op, port |-> "none", value |-> << >>]
             w == dev[rtno]
             x == [w EXCEPT !.asked = Append(@, req)]
  <2>1. req \in Requests /\ req.op = op
    BY DEF Requests
  <2>2. dev' = [dev EXCEPT ![rtno] = x]
    BY <1>2, <1>4 DEF Ask, Ids
  <2> HIDE DEF req
  <2>3. /\ x.asked = Append(w.asked, req) /\ x.in = w.in /\ x.answers = w.answers
        /\ x.kind = w.kind /\ x.component = w.component
        /\ x.gaveup = w.gaveup /\ x.failed = w.failed
    BY <1>2 DEF Devices
  <2> HIDE DEF x
  <2>4. Ids' = Ids /\ dev'[rtno] = x /\ \A i \in Ids : dev'[i] = IF i = rtno THEN x ELSE dev[i]
    BY <1>2, <2>2, OneChanges
  <2>5. ASSUME NEW port, NEW value, EndsUpWith(w, port, value) PROVE EndsUpWith(x, port, value)
    BY <1>2, <1>4, <2>1, <2>3, <2>5, Asked DEF Sends
  <2>6. \A i \in Ids : Same(dev'[i], dev[i])
    BY <2>4, <2>5, SameRecord DEF Same
  <2>7. \A i \in Ids : /\ dev'[i].kind = dev[i].kind /\ dev'[i].component = dev[i].component
                       /\ dev'[i].gaveup = dev[i].gaveup /\ dev'[i].failed = dev[i].failed
    BY <2>3, <2>4
  <2>8. SoleData' /\ Carried' /\ Others' /\ ScalarInjectIsKept'
    BY <1>1, <1>4, <2>4, <2>6, <2>7, MovesOn
  <2>9. Waiting' /\ Awaited' = op
    BY <1>1, <1>4 DEF Waiting, Awaited
  <2>10. ASSUME NEW i \in Ids, Undisturbed(i)'
         PROVE  /\ Load(dev'[i], ring') <= (IF i = rtno THEN 1 ELSE 0)
                /\ Only(dev'[i], op)
    <3>1. Undisturbed(i)
      BY <1>1, <2>4, <2>7, <2>10, Monotone DEF InjectInv
    <3>2. Load(dev[i], ring) <= 0
      BY <1>1, <3>1 DEF InjectInv, Sole, Waiting
    <3>3. CASE i = rtno
      <4>1. w.asked = << >> /\ w.answers = << >> /\ (w.kind = "tcp" => ring = << >>)
        <5>1. /\ Len(w.asked) \in Nat /\ Len(w.answers) \in Nat /\ Len(ring) \in Nat
              /\ w.asked \in Seq(Requests) /\ w.answers \in Seq(Answers)
          BY <1>2 DEF Devices
        <5>2. Load(w, ring) <= 1
          BY <1>2, <3>2, <3>3, LoadNat
        <5>3. Len(w.asked) = 0 /\ Len(w.answers) = 0 /\ (w.kind = "tcp" => Len(ring) = 0)
          BY <3>2, <3>3, <5>1, <5>2, LoadOne
        <5> QED
          BY <1>2, <5>1, <5>3
      <4>2. x.asked = <<req>> /\ x.answers = << >> /\ (x.kind = "tcp" => ring' = << >>)
        BY <1>1, <2>3, <4>1
      <4>3. Load(x, ring') <= 1 /\ Only(x, op)
        BY <2>1, <4>2, OneAsked
      <4> QED
        BY <2>4, <3>3, <4>3
    <3>4. CASE i # rtno
      <4>1. dev'[i] = dev[i] /\ ring' = ring /\ dev[i] \in Devices
        BY <1>1, <1>2, <2>4, <3>4 DEF Ids
      <4> QED
        BY <1>2, <3>2, <3>4, <4>1, LoadZero
    <3> QED
      BY <3>3, <3>4
  <2>11. Sole'
    BY <1>1, <2>4, <2>9, <2>10 DEF Sole
  <2> QED
    BY <2>8, <2>11
<1>5. c.op \in Calls => c.op \in Operations \ {"SEND_DATA"}
  BY ShellAssumption DEF Operations
<1>6. "GET_PROFILE" \in Operations \ {"SEND_DATA"}
  BY DEF Operations
<1> QED
  BY <1>1, <1>3, <1>4, <1>5, <1>6 DEF Command, Resume

(* close, exit and the end of a program that was given one command.        *)
LEMMA DeleteInject ==
    ASSUME InjectInv, TypeInv', pc \in {"prompt", "finish"},
           NEW next, next \in {"prompt", "ended"}, Delete(next)
    PROVE  Sole' /\ SoleData' /\ Carried' /\ Others' /\ ScalarInjectIsKept'
<1>1. /\ pc' \in {"prompt", "ended", "delete"} /\ UNCHANGED <<ret, ring, dropped>> /\ Ids' = Ids
  BY DeleteType DEF InjectInv
<1>2. ~Waiting /\ ~Waiting'
  BY <1>1 DEF Waiting
<1>3. \A i \in Ids : /\ dev'[i].kind = dev[i].kind /\ dev'[i].component = dev[i].component
                     /\ dev'[i].gaveup = dev[i].gaveup /\ dev'[i].failed = dev[i].failed
                     /\ dev'[i].asked = dev[i].asked /\ dev'[i].answers = dev[i].answers
                     /\ dev'[i].in = dev[i].in
  <2>1. CASE serial_port = 0
    BY <2>1 DEF Delete
  <2>2. CASE serial_port # 0
    <3>1. serial_port \in Ids /\ dev \in Seq(Devices) /\ dev[serial_port] \in Devices
      BY <2>2 DEF InjectInv, TypeInv, TypeOK, Ids
    <3> DEFINE x == [dev[serial_port] EXCEPT !.deleted = TRUE, !.Endflag = TRUE]
    <3>2. dev' = [dev EXCEPT ![serial_port] = x]
      BY <2>2, <3>1 DEF Delete, Ids
    <3>3. /\ x.kind = dev[serial_port].kind /\ x.component = dev[serial_port].component
          /\ x.gaveup = dev[serial_port].gaveup /\ x.failed = dev[serial_port].failed
          /\ x.asked = dev[serial_port].asked /\ x.answers = dev[serial_port].answers
          /\ x.in = dev[serial_port].in
      BY <3>1 DEF Devices
    <3> HIDE DEF x
    <3> QED
      BY <3>1, <3>2, <3>3, OneChanges
  <2> QED
    BY <2>1, <2>2
<1> QED
  BY <1>1, <1>2, <1>3, StaysIdle

-----------------------------------------------------------------------------
(* Answers.                                                                *)

(* The record of the device of rtno once an answer was taken for it.       *)
Took(y, x) ==
    /\ y.kind = x.kind /\ y.component = x.component /\ y.asked = x.asked /\ y.in = x.in
    /\ y.gaveup = x.gaveup /\ y.failed = x.failed
    /\ IF x.kind = "tcp"
       THEN y.answers = x.answers /\ ring # << >> /\ ring' = Tail(ring)
       ELSE y.answers = Tail(x.answers) /\ x.answers # << >> /\ ring' = ring

LEMMA Taken ==
    ASSUME TypeInv, Waiting, Arrived # << >>, NEW x \in Devices, x.kind = dev[rtno].kind,
           x.answers = dev[rtno].answers, Take([dev EXCEPT ![rtno] = x])
    PROVE  \E y : dev' = [dev EXCEPT ![rtno] = y] /\ Took(y, x)
<1>1. rtno \in Ids /\ dev[rtno] \in Devices /\ dev \in Seq(Devices)
  BY OpenDevice DEF TypeInv, TypeOK
<1> DEFINE d == [dev EXCEPT ![rtno] = x]
           y == [x EXCEPT !.answers = Tail(@)]
<1>2. d[rtno] = x
  BY <1>1 DEF Ids
<1>3. CASE dev[rtno].kind = "tcp"
  <2>1. dev' = d /\ ring' = Tail(ring) /\ ring # << >>
    BY <1>2, <1>3, ArrivedType DEF Take
  <2>2. Took(x, x)
    BY <1>3, <2>1 DEF Took
  <2> QED
    BY <2>1, <2>2
<1>4. CASE dev[rtno].kind # "tcp"
  <2>1. dev' = [d EXCEPT ![rtno].answers = Tail(@)] /\ ring' = ring /\ x.answers # << >>
    BY <1>2, <1>4, ArrivedType DEF Take
  <2>2. dev' = [dev EXCEPT ![rtno] = y]
    BY <1>1, <1>2, <2>1 DEF Ids
  <2>3. /\ y.kind = x.kind /\ y.component = x.component /\ y.asked = x.asked /\ y.in = x.in
        /\ y.gaveup = x.gaveup /\ y.failed = x.failed /\ y.answers = Tail(x.answers)
    BY DEF Devices
  <2> HIDE DEF y
  <2>4. Took(y, x)
    BY <1>4, <2>1, <2>3 DEF Took
  <2> QED
    BY <2>2, <2>4
<1> QED
  BY <1>3, <1>4

(* Taking an answer adds nothing to what is on its way.                    *)
LEMMA TookCalm ==
    ASSUME NEW x \in Devices, ring \in Seq(Items), NEW y, Took(y, x)
    PROVE  Calm(y, ring', x, ring) /\ Same(y, x)
<1>1. Same(y, x)
  BY SameRecord DEF Took
<1>2. CASE x.kind = "tcp"
  <2>1. ring # << >> /\ ring' = Tail(ring) /\ y.answers = x.answers
    BY <1>2 DEF Took
  <2>2. y.kind = x.kind /\ y.asked = x.asked /\ y.in = x.in
    BY DEF Took
  <2>3. Calm(y, Tail(ring), x, ring)
    BY <2>1, <2>2, ReadCalm
  <2> QED
    BY <1>1, <2>1, <2>3
<1>3. CASE x.kind # "tcp"
  <2>1. x.answers # << >> /\ ring' = ring /\ y.answers = Tail(x.answers)
    BY <1>3 DEF Took
  <2>2. y.kind = x.kind /\ y.asked = x.asked /\ y.in = x.in
    BY DEF Took
  <2>3. Calm(y, ring, x, ring)
    BY <2>1, <2>2, ReceiveCalm
  <2> QED
    BY <1>1, <2>1, <2>3
<1> QED
  BY <1>1, <1>2, <1>3

LEMMA TailOfOne == ASSUME NEW S, NEW s \in Seq(S), Len(s) = 1 PROVE Tail(s) = << >>
<1>1. Tail(s) \in Seq(S) /\ Len(Tail(s)) = 0
  OBVIOUS
<1>2. ASSUME NEW t \in Seq(S), Len(t) = 0 PROVE t = << >>
  BY <1>2
<1> QED
  BY <1>1, <1>2

(* Where one answer at most can come, there is nothing left once it has    *)
(* come; w is the device before a request that is made with it.            *)
LEMMA TookAll ==
    ASSUME NEW w \in Devices, ring \in Seq(Items), Load(w, ring) <= 1, NEW x, x.kind = w.kind,
           x.answers = w.answers, NEW y, Took(y, x)
    PROVE  w.asked = << >> /\ y.answers = << >> /\ (y.kind = "tcp" => ring' = << >>)
<1>1. /\ w.asked \in Seq(Requests) /\ w.answers \in Seq(Answers)
      /\ Len(w.asked) \in Nat /\ Len(w.answers) \in Nat /\ Len(ring) \in Nat
  BY DEF Devices
<1>2. /\ Load(w, ring) \in Nat
      /\ w.kind = "tcp" => Load(w, ring) = Len(w.asked) + Len(w.answers) + Len(ring)
      /\ w.kind # "tcp" => Load(w, ring) = Len(w.asked) + Len(w.answers)
  BY <1>1, LoadIs
<1>3. ASSUME NEW k \in Nat, NEW l \in Nat, NEW m \in Nat
      PROVE  /\ k + l + m <= 1 /\ m # 0 => k = 0 /\ l = 0 /\ m = 1
             /\ k + l <= 1 /\ l # 0 => k = 0 /\ l = 1
  OBVIOUS
<1>4. CASE w.kind = "tcp"
  <2>1. ring # << >> /\ ring' = Tail(ring) /\ y.answers = w.answers
    BY <1>4 DEF Took
  <2>2. Len(ring) # 0
    BY <2>1
  <2>3. Len(w.asked) = 0 /\ Len(w.answers) = 0 /\ Len(ring) = 1
    <3>1. Len(w.asked) + Len(w.answers) + Len(ring) <= 1
      BY <1>2, <1>4
    <3> QED
      BY <1>1, <1>3, <2>2, <3>1
  <2>4. w.asked = << >> /\ w.answers = << >>
    BY <1>1, <2>3
  <2>5. Tail(ring) = << >>
    BY <2>3, TailOfOne
  <2> QED
    BY <2>1, <2>4, <2>5
<1>5. CASE w.kind # "tcp"
  <2>1. y.kind # "tcp" /\ y.answers = Tail(w.answers) /\ w.answers # << >>
    BY <1>5 DEF Took
  <2>2. Len(w.answers) # 0
    BY <1>1, <2>1
  <2>3. Len(w.asked) = 0 /\ Len(w.answers) = 1
    <3>1. Len(w.asked) + Len(w.answers) <= 1
      BY <1>2, <1>5
    <3> QED
      BY <1>1, <1>3, <2>2, <3>1
  <2>4. w.asked = << >>
    BY <1>1, <2>3
  <2>5. Tail(w.answers) = << >>
    BY <1>1, <2>3, TailOfOne
  <2> QED
    BY <2>1, <2>4, <2>5
<1> QED
  BY <1>4, <1>5

(* An answer is taken, and nothing else happens to the devices; the call   *)
(* may be given up at that.                                                *)
LEMMA TakeSteady ==
    ASSUME TypeInv, Fed, Waiting, Arrived # << >>, UNCHANGED dropped, Take(dev) \/ Take(GivenUp)
    PROVE  /\ Steady
           /\ Load(dev[rtno], ring) <= 1 => Load(dev'[rtno], ring') <= 0
           /\ dev'[rtno].asked = dev[rtno].asked /\ dev'[rtno].in = dev[rtno].in
           /\ Take(dev) \/ dev'[rtno].gaveup
<1>1. /\ rtno \in Ids /\ dev[rtno] \in Devices /\ dev \in Seq(Devices) /\ ring \in Seq(Items)
  BY OpenDevice DEF TypeInv, TypeOK
<1>2. \E x \in Devices :
         /\ Like(x, dev[rtno]) /\ x.answers = dev[rtno].answers /\ x.asked = dev[rtno].asked
         /\ x.in = dev[rtno].in /\ x.failed = dev[rtno].failed
         /\ (Take(dev) /\ x = dev[rtno]) \/ x.gaveup
         /\ Take([dev EXCEPT ![rtno] = x])
  <2>1. CASE Take(dev)
    <3>1. [dev EXCEPT ![rtno] = dev[rtno]] = dev /\ Like(dev[rtno], dev[rtno])
      BY <1>1 DEF Ids, Like
    <3> QED
      BY <1>1, <2>1, <3>1
  <2>2. CASE Take(GivenUp)
    <3>1. PICK x \in Devices : /\ Like(x, dev[rtno]) /\ GivenUp = [dev EXCEPT ![rtno] = x]
                              /\ x = [dev[rtno] EXCEPT !.gaveup = TRUE]
                              /\ x.answers = dev[rtno].answers
      BY GivenUpType
    <3>2. /\ x.asked = dev[rtno].asked /\ x.in = dev[rtno].in /\ x.failed = dev[rtno].failed
          /\ x.gaveup
      BY <1>1, <3>1 DEF Devices
    <3> QED
      BY <2>2, <3>1, <3>2
  <2> QED
    BY <2>1, <2>2
<1>3. PICK x \in Devices :
         /\ Like(x, dev[rtno]) /\ x.answers = dev[rtno].answers /\ x.asked = dev[rtno].asked
         /\ x.in = dev[rtno].in /\ x.failed = dev[rtno].failed
         /\ (Take(dev) /\ x = dev[rtno]) \/ x.gaveup
         /\ Take([dev EXCEPT ![rtno] = x])
  BY <1>2
<1>4. PICK y : dev' = [dev EXCEPT ![rtno] = y] /\ Took(y, x)
  BY <1>3, Taken DEF Like
<1>5. Calm(y, ring', x, ring) /\ Same(y, x)
  BY <1>1, <1>4, TookCalm
<1>6. Same(y, dev[rtno])
  BY <1>3, <1>4, SameRecord DEF Took
<1>7. ring' = ring \/ dev[rtno].kind = "tcp"
  BY <1>3, <1>4 DEF Took, Like
<1>8. /\ y.kind = dev[rtno].kind /\ y.component = dev[rtno].component
      /\ dev[rtno].gaveup => y.gaveup
      /\ dev[rtno].failed => y.failed
      /\ y.gaveup \/ Calm(y, ring', dev[rtno], ring)
  BY <1>3, <1>4, <1>5 DEF Took, Like
<1>9. Steady
  BY <1>1, <1>4, <1>6, <1>7, <1>8, OneSteady
<1>10. dev'[rtno] = y
  BY <1>1, <1>4, OneChanges
<1>11. ASSUME Load(dev[rtno], ring) <= 1 PROVE Load(y, ring') <= 0
  <2>1. dev[rtno].asked = << >> /\ y.answers = << >> /\ (y.kind = "tcp" => ring' = << >>)
    BY <1>1, <1>3, <1>4, <1>11, TookAll DEF Like
  <2>2. y.asked = << >>
    BY <1>3, <1>4, <2>1 DEF Took
  <2>3. CASE y.kind = "tcp"
    BY <2>1, <2>2, <2>3 DEF Load
  <2>4. CASE y.kind # "tcp"
    BY <2>1, <2>2, <2>4 DEF Load
  <2> QED
    BY <2>3, <2>4
<1> QED
  BY <1>3, <1>4, <1>9, <1>10, <1>11 DEF Took

(* The end of a call.  That of inject reports OK after its request, when   *)
(* its answer said so, or for a type that it has no branch for.            *)
LEMMA Returned ==
    ASSUME InjectInv, TypeInv', Waiting, NEW res, NEW from, Return(res, from), Steady,
           Undisturbed(rtno)' => Load(dev'[rtno], ring') <= 0,
           res = "OK" /\ cmd.op = "inject"
               => \/ /\ (Undisturbed(rtno)' \/ Obeying(rtno)') /\ cmd.port \in DOMAIN Own
                        => Own[cmd.port] \notin Injected
                  \/ /\ pc = "data"
                     /\ Undisturbed(rtno)'
                           => EndsUpWith(dev'[rtno], cmd.port, Sent(Own[cmd.port], cmd.text))
    PROVE  Sole' /\ SoleData' /\ Carried' /\ Others' /\ ScalarInjectIsKept'
<1>1. /\ cmd \in Commands /\ rtno \in Ids /\ Ids' = Ids
      /\ dev'[rtno].component = dev[rtno].component
  BY OpenDevice DEF InjectInv, TypeInv, TypeOK, Steady
<1>2. /\ ret'.cmd = cmd /\ ret'.res = res /\ ret'.dev = rtno /\ rtno' = rtno
      /\ pc' \in {"finish", "prompt"}
  BY DEF Return, Resume
<1>3. Others' /\ SoleData' /\ Carried'
  BY <1>1, <1>2 DEF Others, SoleData, Carried, Injecting
<1>4. Sole'
  <2>1. ASSUME NEW i \in Ids, Undisturbed(i)' PROVE Load(dev'[i], ring') <= 0
    <3>1. CASE i = rtno
      <4>1. Undisturbed(rtno)'
        BY <1>2, <2>1, <3>1 DEF Undisturbed, Alone
      <4> QED
        BY <3>1, <4>1
    <3>2. CASE i # rtno
      <4>1. Load(dev[i], ring) <= 0 /\ Load(dev'[i], ring') <= Load(dev[i], ring)
        BY <2>1, <3>2 DEF InjectInv, Sole, Steady, Calm
      <4>2. Load(dev[i], ring) \in Nat /\ Load(dev'[i], ring') \in Nat
        <5>1. /\ dev[i] \in Devices /\ dev'[i] \in Devices
              /\ ring \in Seq(Items) /\ ring' \in Seq(Items)
          BY <1>1 DEF InjectInv, TypeInv, TypeOK, Ids
        <5> QED
          BY <5>1, LoadNat
      <4> QED
        BY <4>1, <4>2
    <3> QED
      BY <3>1, <3>2
  <2>2. ring' \in Seq(Items) /\ \A i \in Ids : dev'[i] \in Devices
    BY <1>1 DEF TypeInv, TypeOK, Ids
  <2>3. \A i \in Ids : Undisturbed(i)' => \A op : Only(dev'[i], op)
    BY <2>1, <2>2, LoadZero
  <2>4. ~Waiting'
    BY <1>2 DEF Waiting
  <2> QED
    BY <1>1, <2>1, <2>3, <2>4 DEF Sole
<1>5. ASSUME Undisturbed(rtno)' \/ Obeying(rtno)', cmd.op = "inject", res = "OK",
             cmd.port \in DOMAIN Own, Own[cmd.port] \in Scalars \cap Injected
      PROVE  EndsUpWith(dev'[rtno], cmd.port, Meant(Own[cmd.port], cmd.text))
  <2>1. /\ pc = "data" /\ cmd.port \in InPorts
        /\ Undisturbed(rtno)' => EndsUpWith(dev'[rtno], cmd.port, Sent(Own[cmd.port], cmd.text))
    BY <1>1, <1>5, InjectPort
  <2>2. Sent(Own[cmd.port], cmd.text) = Meant(Own[cmd.port], cmd.text)
    BY <1>5 DEF Scalars, Sequenced, Sent
  <2>3. CASE Undisturbed(rtno)'
    BY <2>1, <2>2, <2>3
  <2>4. CASE Obeying(rtno)'
    <3>1. Obeying(rtno) /\ ~dev'[rtno].failed
      BY <1>1, <1>2, <2>4 DEF Steady, Obeying, Alike
    <3>2. EndsUpWith(dev[rtno], cmd.port, Meant(Own[cmd.port], cmd.text))
      BY <1>5, <2>1, <2>2, <3>1 DEF InjectInv, Carried, Injecting
    <3>3. Same(dev'[rtno], dev[rtno])
      BY <1>1, <3>1 DEF Steady, Failing
    <3> QED
      BY <2>1, <3>2, <3>3 DEF Same
  <2> QED
    BY <1>5, <2>3, <2>4
<1>6. ScalarInjectIsKept'
  BY <1>1, <1>2, <1>5 DEF ScalarInjectIsKept, InjectIsKept, Own, Undisturbed, Alone, Obeying, Alike
<1> QED
  BY <1>3, <1>4, <1>6

(* The second call of inject and print, made once the profile has come.    *)
LEMMA AskedAndTaken ==
    ASSUME InjectInv, TypeInv', pc = "profile", Arrived # << >>, NEW op, NEW value,
           AskAndTake(op, value), [op |-> op, port |-> cmd.port, value |-> value] \in Requests,
           \/ op = "RECEIVE_DATA" /\ cmd.op # "inject"
           \/ /\ op = "SEND_DATA" /\ cmd.op = "inject"
              /\ Undisturbed(rtno) \/ Obeying(rtno)
                    => cmd.port \in DOMAIN Own /\ value = Sent(Own[cmd.port], cmd.text)
    PROVE  Sole' /\ SoleData' /\ Carried' /\ Others' /\ ScalarInjectIsKept'
<1> DEFINE req == [op |-> op, port |-> cmd.port, value |-> value]
           w == dev[rtno]
           x == [w EXCEPT !.asked = Append(@, req)]
<1>1. /\ Waiting /\ rtno \in Ids /\ w \in Devices /\ dev \in Seq(Devices) /\ ring \in Seq(Items)
      /\ cmd \in Commands /\ TypeInv /\ Fed
  <2>1. Waiting
    BY DEF Waiting
  <2> QED
    BY <2>1, OpenDevice DEF InjectInv, TypeInv, TypeOK
<1>2. /\ pc' = "data" /\ UNCHANGED <<rtno, cmd, ret, dropped>>
      /\ Take([dev EXCEPT ![rtno].asked = Append(@, req)])
  BY DEF AskAndTake
<1>3. req \in Requests /\ req.op = op /\ req.port = cmd.port /\ req.value = value
  OBVIOUS
<1> HIDE DEF req
<1>4. x \in Devices /\ x.kind = w.kind /\ x.answers = w.answers
  BY <1>1, <1>3, AskedType DEF Like
<1>5. /\ x.asked = Append(w.asked, req) /\ x.in = w.in /\ x.component = w.component
      /\ x.gaveup = w.gaveup /\ x.failed = w.failed
  BY <1>1 DEF Devices
<1>6. [dev EXCEPT ![rtno].asked = Append(@, req)] = [dev EXCEPT ![rtno] = x]
  BY <1>1 DEF Ids
<1> HIDE DEF x
<1>7. PICK y : dev' = [dev EXCEPT ![rtno] = y] /\ Took(y, x)
  BY <1>1, <1>2, <1>4, <1>6, Taken
<1>8. Ids' = Ids /\ dev'[rtno] = y /\ \A i \in Ids : dev'[i] = IF i = rtno THEN y ELSE dev[i]
  BY <1>1, <1>7, OneChanges
<1>9. /\ y.kind = w.kind /\ y.component = w.component /\ y.gaveup = w.gaveup /\ y.failed = w.failed
      /\ y.asked = Append(w.asked, req) /\ y.in = w.in
  BY <1>4, <1>5, <1>7 DEF Took
<1>10. \A i \in Ids : (Undisturbed(i)' => Undisturbed(i)) /\ (Obeying(i)' => Obeying(i))
  BY <1>1, <1>2, <1>8, <1>9, Monotone
<1>11. ASSUME Undisturbed(rtno)
       PROVE  y.asked = <<req>> /\ y.answers = << >> /\ (y.kind = "tcp" => ring' = << >>)
  <2>1. Load(w, ring) <= 1
    BY <1>1, <1>11 DEF InjectInv, Sole
  <2>2. w.asked = << >> /\ y.answers = << >> /\ (y.kind = "tcp" => ring' = << >>)
    BY <1>1, <1>4, <1>7, <2>1, TookAll
  <2> QED
    BY <1>9, <2>2
<1>12. Waiting' /\ Awaited' = op
  BY <1>2 DEF Waiting, Awaited
<1>13. Sole'
  <2>1. ASSUME NEW i \in Ids, Undisturbed(i)'
        PROVE  Load(dev'[i], ring') <= (IF i = rtno THEN 1 ELSE 0) /\ Only(dev'[i], op)
    <3>1. CASE i = rtno
      <4>1. Load(y, ring') <= 1 /\ Only(y, req.op)
        BY <1>10, <1>11, <2>1, <3>1, OneAsked
      <4> QED
        BY <1>3, <1>8, <3>1, <4>1
    <3>2. CASE i # rtno
      <4>1. Undisturbed(i) /\ dev'[i] = dev[i] /\ dev[i] \in Devices
        BY <1>1, <1>8, <1>10, <2>1, <3>2 DEF Ids
      <4>2. Load(dev[i], ring) <= 0
        BY <3>2, <4>1 DEF InjectInv, Sole
      <4>3. dev[i].kind = "tcp" => ring' = ring
        BY <1>1, <1>4, <1>7, <3>2, <4>1, RingOfOwn DEF Took, Undisturbed
      <4>4. Load(dev'[i], ring') = Load(dev[i], ring)
        BY <4>1, <4>3 DEF Load
      <4>5. \A o : Only(dev[i], o)
        BY <1>1, <4>1, <4>2, LoadZero
      <4> QED
        BY <3>2, <4>1, <4>2, <4>4, <4>5
    <3> QED
      BY <3>1, <3>2
  <2> QED
    BY <1>2, <1>8, <1>12, <2>1 DEF Sole
<1>14. Others'
  BY <1>2, <1>8 DEF InjectInv, Others
<1>15. ScalarInjectIsKept'
  BY <1>2 DEF ScalarInjectIsKept, InjectIsKept
<1>16. Own' = Own
  BY <1>2, <1>8, <1>9 DEF Own
<1>17. SoleData'
  <2>1. ASSUME cmd.op = "inject", Undisturbed(rtno)'
        PROVE  cmd.port \in DOMAIN Own /\ Honest(y, ring', cmd.port, Sent(Own[cmd.port], cmd.text))
    <3>1. Undisturbed(rtno)
      BY <1>1, <1>2, <1>10, <2>1 DEF Undisturbed, Alone
    <3>2. cmd.port \in DOMAIN Own /\ value = Sent(Own[cmd.port], cmd.text)
      BY <2>1, <3>1
    <3>3. \A i \in DOMAIN y.asked : y.asked[i] = req
      BY <1>11, <3>1
    <3>4. /\ \A i \in DOMAIN y.answers : FALSE
          /\ y.kind = "tcp" => \A i \in DOMAIN ring' : FALSE
      BY <1>11, <3>1
    <3> QED
      BY <1>3, <3>2, <3>3, <3>4 DEF Honest
  <2> QED
    BY <1>2, <1>8, <1>16, <2>1 DEF SoleData, Injecting
<1>18. Carried'
  <2>1. ASSUME cmd.op = "inject", Obeying(rtno)'
        PROVE  cmd.port \in DOMAIN Own /\ EndsUpWith(y, cmd.port, Sent(Own[cmd.port], cmd.text))
    <3>1. Obeying(rtno)
      BY <1>1, <1>2, <1>10, <2>1 DEF Obeying, Alike
    <3>2. /\ cmd.port \in DOMAIN Own /\ value = Sent(Own[cmd.port], cmd.text)
          /\ Sends(req, cmd.port)
      BY <1>3, <2>1, <3>1 DEF Sends
    <3>3. req \in Requests /\ y.asked = Append(w.asked, req) /\ y.in = w.in /\ w \in Devices
      BY <1>1, <1>3, <1>9
    <3> HIDE DEF w
    <3>4. EndsUpWith(y, cmd.port, req.value)
      BY <3>2, <3>3, Asked
    <3> QED
      BY <1>3, <3>2, <3>4
  <2> QED
    BY <1>2, <1>8, <1>16, <2>1 DEF Carried, Injecting
<1> QED
  BY <1>13, <1>14, <1>15, <1>17, <1>18

(* Nothing but the answer to the request that waits can end a call of      *)
(* inject with OK, and it says that the port has the value.                *)
LEMMA AnswerKeeps ==
    ASSUME InjectInv, TypeInv', Answered
    PROVE  Sole' /\ SoleData' /\ Carried' /\ Others' /\ ScalarInjectIsKept'
<1> DEFINE answer == Head(Arrived)
           Goal == Sole' /\ SoleData' /\ Carried' /\ Others' /\ ScalarInjectIsKept'
<1>1. Waiting /\ TypeInv /\ Fed
  BY AnswerContinues DEF InjectInv
<1>2. /\ rtno \in Ids /\ dev[rtno] \in Devices /\ ring \in Seq(Items) /\ cmd \in Commands
  BY <1>1, OpenDevice DEF TypeInv, TypeOK
<1>3. ASSUME Undisturbed(rtno) PROVE Load(dev[rtno], ring) <= 1 /\ Only(dev[rtno], Awaited)
  BY <1>1, <1>2, <1>3 DEF InjectInv, Sole
<1>t. ASSUME Arrived # << >>, Take(dev) \/ Take(GivenUp), UNCHANGED <<rtno, dropped>>
      PROVE  /\ Steady
             /\ Undisturbed(rtno)' => Undisturbed(rtno) /\ Load(dev'[rtno], ring') <= 0
             /\ Obeying(rtno)' => Obeying(rtno)
             /\ dev'[rtno].asked = dev[rtno].asked /\ dev'[rtno].in = dev[rtno].in
  <2>1. /\ Steady
        /\ Load(dev[rtno], ring) <= 1 => Load(dev'[rtno], ring') <= 0
        /\ dev'[rtno].asked = dev[rtno].asked /\ dev'[rtno].in = dev[rtno].in
    BY <1>1, <1>t, TakeSteady
  <2>2. /\ Undisturbed(rtno)' => Undisturbed(rtno)
        /\ Obeying(rtno)' => Obeying(rtno)
    <3>1. PICK d \in Ids : d = rtno /\ rtno' = d
      BY <1>2, <1>t
    <3>2. ASSUME Undisturbed(rtno)' PROVE Undisturbed(rtno)
      <4>1. Undisturbed(d)'
        BY <3>1, <3>2 DEF Undisturbed, Alone
      <4>2. Undisturbed(d)
        BY <2>1, <4>1 DEF Steady
      <4> QED
        BY <3>1, <4>2
    <3>3. ASSUME Obeying(rtno)' PROVE Obeying(rtno)
      <4>1. Obeying(d)'
        BY <3>1, <3>3 DEF Obeying, Alike
      <4>2. Obeying(d)
        BY <2>1, <4>1 DEF Steady
      <4> QED
        BY <3>1, <4>2
    <3> QED
      BY <3>2, <3>3
  <2>3. Undisturbed(rtno) => Load(dev[rtno], ring) <= 1
    BY <1>3, Zenon
  <2>4. ASSUME Undisturbed(rtno)' PROVE Undisturbed(rtno) /\ Load(dev'[rtno], ring') <= 0
    BY <2>1, <2>2, <2>3, <2>4
  <2> QED
    BY <2>1, <2>2, <2>4
<1>r. ASSUME Arrived # << >>, Take(dev) \/ Take(GivenUp), NEW res, NEW from, Return(res, from),
             res = "OK" => cmd.op # "inject"
      PROVE  Goal
  <2>1. UNCHANGED <<rtno, dropped>>
    BY <1>r DEF Return
  <2> QED
    BY <1>1, <1>r, <1>t, <2>1, Returned
<1>4. CASE Answer /\ pc = "call"
  <2>1. Arrived # << >> /\ Take(dev) /\ Return("OK", answer.from)
    BY <1>4 DEF Answer
  <2>2. cmd.op # "inject"
    BY <1>2, <1>4, InjectPort DEF InjectInv, Others
  <2> QED
    BY <1>r, <2>1, <2>2
<1>5. CASE Answer /\ pc = "data"
  <2>1. Arrived # << >> /\ Take(dev) /\ Return(answer.res, answer.from) /\ answer.op = Awaited
    BY <1>5 DEF Answer
  <2>2. UNCHANGED <<rtno, dropped>>
    BY <2>1 DEF Return
  <2>3. ASSUME answer.res = "OK", cmd.op = "inject", Undisturbed(rtno)'
        PROVE  EndsUpWith(dev'[rtno], cmd.port, Sent(Own[cmd.port], cmd.text))
    <3>1. Undisturbed(rtno) /\ Load(dev'[rtno], ring') <= 0
      BY <1>t, <2>1, <2>2, <2>3
    <3>2. Honest(dev[rtno], ring, cmd.port, Sent(Own[cmd.port], cmd.text))
      BY <1>5, <2>3, <3>1 DEF InjectInv, SoleData, Injecting
    <3>3. Ack(answer)
      BY <1>5, <2>1, <2>3 DEF Awaited, Ack
    <3>4. dev[rtno].in[cmd.port] = Sent(Own[cmd.port], cmd.text)
      <4>1. CASE dev[rtno].kind = "tcp"
        <5>1. answer = Head(ring) /\ ring # << >>
          BY <1>1, <2>1, <4>1, ArrivedType
        <5>2. answer = ring[1] /\ 1 \in DOMAIN ring
          BY <1>2, <5>1
        <5> QED
          BY <3>2, <3>3, <4>1, <5>2 DEF Honest
      <4>2. CASE dev[rtno].kind # "tcp"
        <5>1. /\ dev[rtno].answers # << >> /\ dev[rtno].answers \in Seq(Answers)
              /\ answer.op = Head(dev[rtno].answers).op /\ answer.res = Head(dev[rtno].answers).res
          BY <1>1, <1>2, <2>1, <4>2, ArrivedType DEF Devices
        <5>2. Head(dev[rtno].answers) = dev[rtno].answers[1] /\ 1 \in DOMAIN dev[rtno].answers
          BY <5>1
        <5>3. Ack(dev[rtno].answers[1])
          BY <3>3, <5>1, <5>2 DEF Ack
        <5> QED
          BY <3>2, <5>2, <5>3 DEF Honest
      <4> QED
        BY <4>1, <4>2
    <3>5. dev'[rtno].asked = << >> /\ dev'[rtno].in = dev[rtno].in
      <4>1. dev'[rtno] \in Devices /\ ring' \in Seq(Items)
        BY <1>2, <1>t, <2>1, <2>2 DEF TypeInv, TypeOK, Ids, Steady
      <4> QED
        BY <1>t, <2>1, <2>2, <3>1, <4>1, LoadZero
    <3>6. \A i \in DOMAIN dev'[rtno].asked : dev'[rtno].asked[i].op # "SEND_DATA"
      BY <3>5
    <3> QED
      BY <3>4, <3>5, <3>6, NoneSent
  <2> QED
    BY <1>1, <1>5, <1>t, <2>1, <2>2, <2>3, Returned
<1>6. CASE Answer /\ pc = "profile"
  <2>1. Arrived # << >> /\ (Inject(answer) \/ PrintPort(answer))
    BY <1>6 DEF Answer
  <2>2. dev[answer.from].component \in Components
    <3>1. dev[answer.from] \in Devices
      BY <1>1, <2>1, ArrivedType DEF TypeInv, TypeOK, Ids
    <3> QED
      BY <3>1 DEF Devices
  <2>3. Undisturbed(rtno) \/ Obeying(rtno) => dev[answer.from].component.in = Own
    BY <1>1, <2>1, AnswerOfOwn DEF Own
  <2>4. CASE Inject(answer)
    <3> DEFINE types == dev[answer.from].component.in
    <3>1. CASE /\ cmd.op = "inject" /\ cmd.port \in DOMAIN types /\ types[cmd.port] \in Injected
               /\ AskAndTake("SEND_DATA", Sent(types[cmd.port], cmd.text))
      <4>1. [op |-> "SEND_DATA", port |-> cmd.port, value |-> Sent(types[cmd.port], cmd.text)]
               \in Requests
        BY <1>1, <2>2, <3>1, RequestTypes
      <4> QED
        BY <1>6, <2>1, <2>3, <3>1, <4>1, AskedAndTaken
    <3>2. CASE /\ cmd.port \in DOMAIN types /\ types[cmd.port] \notin Injected
               /\ Return("OK", answer.from) /\ Take(dev)
      <4>1. UNCHANGED <<rtno, dropped>>
        BY <3>2 DEF Return
      <4>2. (Undisturbed(rtno)' \/ Obeying(rtno)') /\ cmd.port \in DOMAIN Own
              => Own[cmd.port] \notin Injected
        BY <1>t, <2>1, <2>3, <3>2, <4>1
      <4> QED
        BY <1>1, <1>t, <2>1, <3>2, <4>1, <4>2, Returned
    <3>3. CASE Return("INPORT_NOT_FOUND", answer.from) /\ Take(dev)
      BY <1>r, <2>1, <3>3
    <3> QED
      BY <2>4, <3>1, <3>2, <3>3 DEF Inject
  <2>5. CASE PrintPort(answer)
    <3> DEFINE types == dev[answer.from].component.out
    <3>0. cmd.op # "inject"
      BY <2>5 DEF PrintPort
    <3>1. CASE /\ cmd.op = "print" /\ cmd.port \in DOMAIN types
               /\ AskAndTake("RECEIVE_DATA", << >>)
      <4>1. [op |-> "RECEIVE_DATA", port |-> cmd.port, value |-> << >>] \in Requests
        BY <1>1, <2>2, <3>1, RequestTypes
      <4> QED
        BY <1>6, <2>1, <3>0, <3>1, <4>1, AskedAndTaken
    <3>2. CASE \E res : Return(res, answer.from) /\ Take(dev)
      BY <1>r, <2>1, <3>0, <3>2
    <3> QED
      BY <2>5, <3>1, <3>2 DEF PrintPort
  <2> QED
    BY <2>1, <2>4, <2>5
<1>7. CASE AnswerError
  BY <1>7, <1>r DEF AnswerError
<1>8. CASE SkipAnswer
  <2>1. Arrived # << >> /\ Take(dev) /\ UNCHANGED main
    BY <1>8 DEF SkipAnswer
  <2>2. Steady
    BY <1>t, <2>1 DEF main
  <2> QED
    BY <2>1, <2>2, SteadyKeeps
<1>9. CASE OtherAnswer
  <2>1. Failure # "OK"
    BY DEF Failure
  <2> QED
    BY <1>9, <1>r, <2>1 DEF OtherAnswer
<1>10. CASE TimeOut
  <2>1. Return(Failure, 0) /\ dev' = GivenUp /\ UNCHANGED <<ring, rtno, dropped>> /\ Failure # "OK"
    BY <1>10 DEF TimeOut, Return, Failure
  <2>2. PICK x \in Devices : /\ Like(x, dev[rtno]) /\ GivenUp = [dev EXCEPT ![rtno] = x]
                            /\ x = [dev[rtno] EXCEPT !.gaveup = TRUE]
                            /\ x.answers = dev[rtno].answers
    BY <1>1, GivenUpType
  <2>3. /\ x.asked = dev[rtno].asked /\ x.in = dev[rtno].in /\ x.failed = dev[rtno].failed
        /\ x.gaveup
    BY <1>2, <2>2 DEF Devices
  <2>4. Same(x, dev[rtno])
    BY <2>3, SameRecord
  <2>5. Steady
    BY <1>1, <1>2, <2>1, <2>2, <2>3, <2>4, OneSteady DEF Like
  <2>6. dev'[rtno].gaveup
    <3>1. dev \in Seq(Devices)
      BY <1>1 DEF TypeInv, TypeOK
    <3> QED
      BY <1>2, <2>1, <2>2, <2>3, <3>1, OneChanges
  <2>7. ~Undisturbed(rtno)'
    BY <2>1, <2>6 DEF Undisturbed
  <2> QED
    BY <1>1, <2>1, <2>5, <2>7, Returned
<1> QED
  BY <1>4, <1>5, <1>6, <1>7, <1>8, <1>9, <1>10 DEF Answered, Answer, Waiting

-----------------------------------------------------------------------------
(* The theorem.                                                            *)

(* Nothing has been injected at the start of main.                         *)
LEMMA InitInject == Init => InjectInv
<1>1. ASSUME Init PROVE Sole /\ SoleData /\ Carried /\ Others /\ ScalarInjectIsKept
  <2>1. pc \in {"prompt", "start"} /\ ret.cmd.op = "none" /\ ret.dev = 0 /\ Ids = {}
    BY <1>1 DEF Init, NoCommand, Ids
  <2> QED
    BY <2>1 DEF Sole, SoleData, Carried, Others, Injecting, ScalarInjectIsKept
<1> QED
  BY <1>1, InitType, InitFed DEF InjectInv

(* No step disturbs what an inject has sent.                               *)
LEMMA NextInject == InjectInv /\ [Next]_vars => InjectInv'
<1> SUFFICES ASSUME InjectInv, [Next]_vars
             PROVE  Sole' /\ SoleData' /\ Carried' /\ Others' /\ ScalarInjectIsKept'
  BY NextType, NextFed DEF InjectInv
<1>t. TypeInv /\ TypeInv' /\ Fed /\ dev \in Seq(Devices)
  BY NextType DEF InjectInv, TypeInv, TypeOK
<1>i. ASSUME UNCHANGED <<dev, ret, ring>>, dropped \subseteq dropped', ~Waiting, ~Waiting'
      PROVE  Sole' /\ SoleData' /\ Carried' /\ Others' /\ ScalarInjectIsKept'
  <2>1. Ids' = Ids
    BY <1>i DEF Ids
  <2> QED
    BY <1>i, <1>t, <2>1, StaysIdle
<1>s. ASSUME UNCHANGED <<main, dev, ring>>
      PROVE  Sole' /\ SoleData' /\ Carried' /\ Others' /\ ScalarInjectIsKept'
  BY <1>s, <1>t, StutterSteady, SteadyKeeps DEF main
<1>1. ASSUME NEW kind \in Kinds, NEW component \in Components, Open(kind, component)
      PROVE  Sole' /\ SoleData' /\ Carried' /\ Others' /\ ScalarInjectIsKept'
  BY <1>1, <1>t, OpenKeeps
<1>2. CASE OpenFails
  BY <1>2, <1>i DEF OpenFails, Prompted, Waiting
<1>3. CASE Close
  BY <1>3, <1>t, DeleteInject DEF Close, Prompted
<1>4. CASE Exit
  BY <1>4, <1>i, <1>t, DeleteInject DEF Exit, Prompted, Waiting
<1>5. CASE Finish
  BY <1>5, <1>t, DeleteInject DEF Finish
<1>6. CASE Terminate \/ Quit
  BY <1>6, <1>i DEF Terminate, Quit, Waiting
<1>7. CASE EndOfInput
  BY <1>7, <1>s DEF EndOfInput
<1>8. ASSUME NEW c \in Commands, Command(c)
      PROVE  Sole' /\ SoleData' /\ Carried' /\ Others' /\ ScalarInjectIsKept'
  BY <1>8, <1>t, CommandInject
<1>9. CASE Answered
  BY <1>9, <1>t, AnswerKeeps
<1>10. ASSUME NEW d \in Ids, Stepped(d)
       PROVE  Sole' /\ SoleData' /\ Carried' /\ Others' /\ ScalarInjectIsKept'
  BY <1>10, <1>t, OthersSteady, OthersKeep, SteadyKeeps
<1>11. CASE UNCHANGED vars
  BY <1>11, <1>s DEF vars
<1> QED
  BY <1>t, <1>1, <1>2, <1>3, <1>4, <1>5, <1>6, <1>7, <1>8, <1>9, <1>10, <1>11, OthersStep DEF Next

(* When inject reports OK the value that was typed is the one that the     *)
(* port ends up with, however many requests and answers were lost or       *)
(* refused, unless an answer could be taken for another's; and then too,   *)
(* if none was lost or refused.                                            *)
THEOREM InjectCorrect == Spec => []ScalarInjectIsKept
<1>1. InjectInv => ScalarInjectIsKept
  BY DEF InjectInv
<1> QED
  BY InitInject, NextInject, <1>1, PTL DEF Spec
=============================================================================
