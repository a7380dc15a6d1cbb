--------------------------- MODULE ProtocolProofs ---------------------------
(***************************************************************************)
(* How late an answer can be, and how much can be outstanding, for every   *)
(* component, every number of attempts and every mixture of faults.        *)
(***************************************************************************)
EXTENDS Protocol, TLAPS

-----------------------------------------------------------------------------
(* The board's operators yield what TypeOK says the line carries.          *)

(* A profile is listed in port packets.                                    *)
LEMMA ListingType ==
  ASSUME NEW ins \in Seq(PortNames), NEW outs \in Seq(PortNames)
  PROVE  Listing(ins, outs) \in Seq(PortPackets)
<1>1. [i \in 1 .. Len(ins) |-> [cmd |-> "INPORT_PROFILE", port |-> ins[i]]] \in Seq(PortPackets)
  BY DEF PortPackets
<1>2. [i \in 1 .. Len(outs) |-> [cmd |-> "OUTPORT_PROFILE", port |-> outs[i]]] \in Seq(PortPackets)
  BY DEF PortPackets
<1> QED
  BY <1>1, <1>2 DEF Listing

(* The ports of the component have port names.                             *)
LEMMA PortsAreNames == InPorts \in Seq(PortNames) /\ OutPorts \in Seq(PortNames)
<1>1. \A i \in 1 .. Len(InPorts) : InPorts[i] \in PortNames
  BY PortsAssumption DEF PortNames
<1>2. \A i \in 1 .. Len(OutPorts) : OutPorts[i] \in PortNames
  BY PortsAssumption DEF PortNames
<1> QED
  BY <1>1, <1>2, PortsAssumption

(* The board lists its own profile in port packets.                        *)
LEMMA PortListingType == PortListing \in Seq(PortPackets)
  BY ListingType, PortsAreNames DEF PortListing

(* What the board refuses with is a result.                                *)
LEMMA RefusalType ==
  ASSUME NEW d, NEW cmd, NEW p
  PROVE  Refusal(d, cmd, p) \in Results
  BY DEF Refusal, Results

(* A request leaves the board a board.                                     *)
LEMMA EffectType ==
  ASSUME NEW d \in Boards, NEW cmd, NEW p
  PROVE  Effect(d, cmd, p) \in Boards
  BY DEF Effect, Boards, States

(* What the board answers with is data.                                    *)
LEMMA ContentType ==
  ASSUME NEW d \in Boards, NEW cmd, NEW p \in PortNames \cup {"none"}
  PROVE  Content(d, cmd, p) \in Data
  BY DEF Content, Data, Boards

(* What the board writes back is a burst of packets.                       *)
LEMMA ReplyType ==
  ASSUME NEW d \in Boards, NEW req \in Requests, NEW r \in Replies(d, req.cmd, req.port)
  PROVE  [cmd |-> r.cmd, res |-> r.res, data |-> r.data, ports |-> r.ports,
          call |-> req.call] \in Bursts
<1>1. r.cmd \in Operations \cup PacketErrors
  BY DEF Replies, Requests, PacketErrors
<1>2. r.res \in Results
  BY RefusalType DEF Replies
<1>3. r.data \in Data
  BY ContentType DEF Replies, Requests
<1>4. r.ports \in Seq(PortPackets)
  <2>1. r.ports = PortListing \/ r.ports = << >>
    BY DEF Replies
  <2>2. << >> \in Seq(PortPackets)
    OBVIOUS
  <2> QED
    BY <2>1, <2>2, PortListingType
<1> QED
  BY <1>1, <1>2, <1>3, <1>4 DEF Bursts, Requests

(* Taking a packet off the line leaves a line.                             *)
LEMMA AfterPacketType ==
  ASSUME down \in Seq(Bursts), down # << >>
  PROVE  AfterPacket \in Seq(Bursts)
<1>1. Head(down) \in Bursts /\ Tail(down) \in Seq(Bursts) /\ 1 \in DOMAIN down
  OBVIOUS
<1>2. CASE Head(down).ports # << >>
  <2>1. down[1] \in Bursts /\ Tail(down[1].ports) \in Seq(PortPackets)
    BY <1>1, <1>2 DEF Bursts
  <2>2. ASSUME NEW b \in Bursts, NEW q \in Seq(PortPackets)
        PROVE  [b EXCEPT !.ports = q] \in Bursts
    BY DEF Bursts
  <2>3. [down[1] EXCEPT !.ports = Tail(@)] \in Bursts
    BY <1>1, <2>1, <2>2
  <2>4. ASSUME NEW b \in Bursts PROVE [down EXCEPT ![1] = b] \in Seq(Bursts)
    BY <1>1
  <2> QED
    <3>1. [down EXCEPT ![1].ports = Tail(@)] \in Seq(Bursts)
      BY <2>3, <2>4
    <3> QED
      BY <1>2, <3>1 DEF AfterPacket
<1>3. CASE Head(down).ports = << >>
  BY <1>1, <1>3 DEF AfterPacket
<1> QED
  BY <1>2, <1>3

-----------------------------------------------------------------------------
(* The constructor of protocol_t.                                          *)
LEMMA InitType == Init => TypeOK
<1>1. "timely" \in Lines
  BY DEF Lines
<1> QED
  BY <1>1 DEF Init, TypeOK, NoProfile, Profiles, Returns, Results, Data, Boards, States

(* A line that is disturbed is in one of its conditions.                   *)
LEMMA DisturbedType == line \in Lines /\ Disturbed => line' \in Lines
  BY DEF Disturbed, Lines

(* Every step of protocol_t and of the line keeps the types.               *)
LEMMA NextType == TypeOK /\ [Next]_vars => TypeOK'
<1> SUFFICES ASSUME TypeOK, [Next]_vars PROVE TypeOK'
  OBVIOUS
<1>n. NoProfile \in Profiles
  BY DEF NoProfile, Profiles
<1>d. "none" \in Data /\ {"OK", "ERR", "TIMEOUT", "CHECKSUM_ERROR"} \subseteq Results
  BY DEF Data, Results
<1>y. "lossy" \in Lines
  BY DEF Lines
<1>h. ASSUME down # << >>
      PROVE  /\ Head(down) \in Bursts /\ Tail(down) \in Seq(Bursts)
             /\ AfterPacket \in Seq(Bursts)
  BY <1>h, AfterPacketType DEF TypeOK
<1>1. ASSUME NEW o \in Operations, NEW p \in PortNames \cup {"none"}, Call(o, p)
      PROVE  TypeOK'
  BY <1>1 DEF Call, TypeOK, Boards
<1>2. CASE Send
  <2>1. up' \in Seq(Requests)
    BY <1>2 DEF Send, TypeOK, Requests
  <2> QED
    BY <1>2, <1>n, <2>1 DEF Send, TypeOK
<1>3. CASE GiveUp
  <2>1. ret' \in Returns
    BY <1>3, <1>n, <1>d DEF GiveUp, Return, Returns, TypeOK
  <2> QED
    BY <1>3, <2>1 DEF GiveUp, Return, TypeOK
<1>4. CASE ReceivePort
  <2>1. Head(Head(down).ports) \in PortPackets
    BY <1>4, <1>h DEF ReceivePort, Bursts
  <2>2. ASSUME NEW p \in PortNames
        PROVE  /\ [profile EXCEPT !.in = Append(@, p)] \in Profiles
               /\ [profile EXCEPT !.out = Append(@, p)] \in Profiles
    <3>1. ASSUME NEW prof \in Profiles, NEW q \in Seq(PortNames)
          PROVE  [prof EXCEPT !.in = q] \in Profiles /\ [prof EXCEPT !.out = q] \in Profiles
      BY DEF Profiles
    <3>2. /\ profile \in Profiles
          /\ Append(profile.in, p) \in Seq(PortNames) /\ Append(profile.out, p) \in Seq(PortNames)
      BY DEF TypeOK, Profiles
    <3> QED
      BY <3>1, <3>2
  <2>3. profile' \in Profiles
    BY <1>4, <2>1, <2>2 DEF ReceivePort, NextAttempt, TypeOK, PortPackets
  <2> QED
    BY <1>4, <1>h, <2>3 DEF ReceivePort, NextAttempt, TypeOK
<1>5. CASE ReceiveAnswer
  <2>1. ret' \in Returns
    BY <1>5, <1>h, <1>d DEF ReceiveAnswer, AtClosing, Return, Returns, TypeOK, Bursts
  <2> QED
    BY <1>5, <1>h, <2>1 DEF ReceiveAnswer, AtClosing, Return, TypeOK
<1>6. CASE ReceiveOther
  BY <1>6, <1>h DEF ReceiveOther, AtClosing, NextAttempt, TypeOK
<1>7. CASE ReceiveProfileError
  <2>1. ret' \in Returns
    BY <1>7, <1>h, <1>d, <1>n
    DEF ReceiveProfileError, AtClosing, Return, Returns, TypeOK, Bursts, PacketErrors
  <2> QED
    BY <1>7, <1>h, <2>1 DEF ReceiveProfileError, AtClosing, Return, TypeOK
<1>8. CASE SkipUnknown
  BY <1>8, <1>h DEF SkipUnknown, AtClosing, host, TypeOK
<1>9. CASE TimeOut
  <2>1. line' \in Lines
    BY <1>9, DisturbedType DEF TimeOut, TypeOK
  <2> QED
    BY <1>9, <2>1 DEF TimeOut, NextAttempt, TypeOK
<1>10. CASE CutShort
  BY <1>10, <1>h, DisturbedType DEF CutShort, NextAttempt, TypeOK
<1>11. CASE BadChecksum
  <2>1. ret' \in Returns
    BY <1>11, <1>d, <1>n DEF BadChecksum, NextAttempt, Return, Returns, TypeOK
  <2> QED
    BY <1>11, <1>h, <2>1, DisturbedType DEF BadChecksum, NextAttempt, Return, TypeOK
<1>12. CASE Perform
  <2>1. Head(up) \in Requests /\ Tail(up) \in Seq(Requests)
    BY <1>12 DEF Perform, TypeOK
  <2>2. dev' \in Boards
    BY <1>12, EffectType DEF Perform, TypeOK
  <2>3. down' \in Seq(Bursts)
    BY <1>12, <2>1, ReplyType DEF Perform, TypeOK
  <2> QED
    BY <1>12, <2>1, <2>2, <2>3 DEF Perform, host, TypeOK
<1>13. CASE Reject
  <2>1. Head(up) \in Requests /\ Tail(up) \in Seq(Requests)
    BY <1>13 DEF Reject, TypeOK
  <2>2. << >> \in Seq(PortPackets)
    OBVIOUS
  <2>3. down' \in Seq(Bursts)
    BY <1>13, <1>d, <2>1, <2>2 DEF Reject, TypeOK, Bursts, Requests
  <2> QED
    BY <1>13, <2>1, <2>3, DisturbedType DEF Reject, host, TypeOK
<1>14. CASE LoseRequest
  BY <1>14, <1>y DEF LoseRequest, host, TypeOK
<1>15. CASE LosePacket
  BY <1>15, <1>h, <1>y DEF LosePacket, host, TypeOK
<1>16. CASE UNCHANGED vars
  BY <1>16 DEF vars, host, TypeOK
<1> QED
  BY <1>1, <1>2, <1>3, <1>4, <1>5, <1>6, <1>7, <1>8, <1>9, <1>10, <1>11, <1>12, <1>13,
     <1>14, <1>15, <1>16 DEF Next, HostStep

(* Type correctness of the retry protocol, whatever the line does.         *)
THEOREM TypeCorrect == Spec => []TypeOK
  BY InitType, NextType, PTL DEF Spec

-----------------------------------------------------------------------------
(* The number of a request grows along the line, from the answer at the    *)
(* head of down to the request at the end of up.  How old each may be is   *)
(* settled by its place: each place further back needs an attempt that was *)
(* abandoned, or a later call.  An attempt that is still waiting, or not   *)
(* yet sent, has not used up its place: that is the difference made by     *)
(* Turn.                                                                   *)

Turn == IF pc = "wait" \/ (pc = "loop" /\ tries = 0) THEN calls - 1 ELSE calls

Youngest == Turn - unanswered

DownAges == \A j \in 1 .. Len(down) : Youngest + j <= down[j].call
UpAges == \A j \in 1 .. Len(up) : Youngest + Len(down) + j <= up[j].call

BoundInv == TypeOK /\ DownAges /\ UpAges /\ BacklogBounded /\ StalenessBounded

(* What TypeOK says of the numbers involved.                               *)
LEMMA Numbers ==
  TypeOK => /\ calls \in Nat /\ unanswered \in Nat /\ tries \in Nat
            /\ Len(up) \in Nat /\ Len(down) \in Nat /\ (Turn = calls - 1 \/ Turn = calls)
            /\ \A j \in 1 .. Len(down) : down[j].call \in Nat
            /\ \A j \in 1 .. Len(up) : up[j].call \in Nat
            /\ ret.call \in Nat /\ ret.reply \in Nat
<1> SUFFICES ASSUME TypeOK
             PROVE  /\ calls \in Nat /\ unanswered \in Nat /\ tries \in Nat
                    /\ Len(up) \in Nat /\ Len(down) \in Nat /\ (Turn = calls - 1 \/ Turn = calls)
                    /\ \A j \in 1 .. Len(down) : down[j].call \in Nat
                    /\ \A j \in 1 .. Len(up) : up[j].call \in Nat
                    /\ ret.call \in Nat /\ ret.reply \in Nat
  OBVIOUS
<1>1. calls \in Nat /\ unanswered \in Nat /\ tries \in Nat
  BY DEF TypeOK
<1>2. (Turn = calls - 1 \/ Turn = calls)
  BY DEF Turn
<1>3. up \in Seq(Requests) /\ down \in Seq(Bursts)
  BY DEF TypeOK
<1>4. Len(up) \in Nat /\ Len(down) \in Nat
  BY <1>3
<1>5. \A j \in 1 .. Len(down) : down[j].call \in Nat
  <2>1. \A b \in Bursts : b.call \in Nat
    BY DEF Bursts
  <2> QED
    BY <1>3, <2>1
<1>6. \A j \in 1 .. Len(up) : up[j].call \in Nat
  <2>1. \A r \in Requests : r.call \in Nat
    BY DEF Requests
  <2> QED
    BY <1>3, <2>1
<1>7. ret.call \in Nat /\ ret.reply \in Nat
  BY DEF TypeOK, Returns
<1> QED
  BY <1>1, <1>2, <1>4, <1>5, <1>6, <1>7

(* Line d is line down with its first k bursts gone, as far as calls go.   *)
Shifted(d, k) ==
    /\ Len(d) = Len(down) - k
    /\ \A j \in 1 .. Len(d) : d[j].call = down[j + k].call

(* What is left of the line once a packet is off it.                       *)
LEMMA AfterPacketCalls ==
  ASSUME TypeOK, down # << >>
  PROVE  \E k \in Nat : /\ k <= 1 /\ Shifted(AfterPacket, k)
                        /\ Head(down).ports = << >> => k = 1
<1>1. CASE Head(down).ports = << >>
  <2>1. AfterPacket = Tail(down)
    BY <1>1 DEF AfterPacket
  <2>2. Shifted(AfterPacket, 1)
    BY <2>1 DEF TypeOK, Shifted
  <2> QED
    BY <2>2
<1>2. CASE Head(down).ports # << >>
  <2>1. AfterPacket = [down EXCEPT ![1].ports = Tail(@)]
    BY <1>2 DEF AfterPacket
  <2>2. Len(AfterPacket) = Len(down) /\ \A j \in 1 .. Len(down) : AfterPacket[j].call = down[j].call
    BY <2>1 DEF TypeOK, Bursts
  <2>3. Len(down) \in Nat /\ \A j \in 1 .. Len(down) : j + 0 = j
    BY DEF TypeOK
  <2>4. Shifted(AfterPacket, 0)
    BY <2>2, <2>3 DEF Shifted
  <2> QED
    BY <1>2, <2>4
<1> QED
  BY <1>1, <1>2

(* A linear fact, free of state.                                           *)
LEMMA ShiftAge ==
  ASSUME NEW y \in Int, NEW y2 \in Int, NEW k \in Int, NEW j \in Int, NEW c \in Int,
         y2 <= y + k, y + (j + k) <= c
  PROVE  y2 + j <= c
  OBVIOUS

(* The ages survive the loss of k bursts if Youngest grows by no more.     *)
LEMMA AgesShifted ==
  ASSUME TypeOK, DownAges, UpAges, up' = up, NEW k \in Nat, k <= 1, Shifted(down', k),
         Youngest \in Int, Youngest' \in Int, Youngest' <= Youngest + k
  PROVE  DownAges' /\ UpAges'
<1>1. /\ Len(up) \in Nat /\ Len(down) \in Nat
      /\ \A j \in 1 .. Len(down) : down[j].call \in Nat
      /\ \A j \in 1 .. Len(up) : up[j].call \in Nat
  BY Numbers
<1>2. DownAges'
  <2> SUFFICES ASSUME NEW j \in Nat, j \in 1 .. Len(down')
               PROVE  Youngest' + j <= down'[j].call
    BY DEF DownAges
  <2>1. j + k \in 1 .. Len(down) /\ down'[j].call = down[j + k].call
    BY <1>1 DEF Shifted
  <2>2. down[j + k].call \in Int /\ Youngest + (j + k) <= down[j + k].call
    BY <1>1, <2>1 DEF DownAges
  <2>3. Youngest' + j <= down[j + k].call
    BY <2>2, ShiftAge
  <2> QED
    BY <2>1, <2>3
<1>3. UpAges'
  <2> SUFFICES ASSUME NEW j \in Nat, j \in 1 .. Len(up)
               PROVE  Youngest' + Len(down') + j <= up[j].call
    BY DEF UpAges
  <2>1. Len(down') \in Int /\ Len(down') = Len(down) - k
    BY <1>1 DEF Shifted
  <2>2. up[j].call \in Int /\ Youngest + Len(down) + j <= up[j].call
    BY <1>1 DEF UpAges
  <2>3. Youngest + ((Len(down') + j) + k) <= up[j].call
    BY <1>1, <2>1, <2>2
  <2>4. Youngest' + (Len(down') + j) <= up[j].call
    BY <2>1, <2>2, <2>3, ShiftAge
  <2> QED
    BY <2>1, <2>4
<1> QED
  BY <1>2, <1>3

(* The host takes k bursts off the line, or abandons its attempt, or both; *)
(* the ages stay within their bounds if that pays for the attempt.         *)
LEMMA AgesAfterRead ==
  ASSUME TypeOK, TypeOK', DownAges, UpAges, BacklogBounded, pc = "wait", up' = up,
         UNCHANGED <<calls, tries>>, NEW k \in Nat, k <= 1, Shifted(down', k),
         unanswered' = unanswered \/ unanswered' = unanswered + 1,
         pc' = "wait" \/ k = 1 \/ unanswered' = unanswered + 1
  PROVE  DownAges' /\ UpAges' /\ BacklogBounded'
<1>1. /\ calls \in Nat /\ unanswered \in Nat /\ Len(up) \in Nat /\ Len(down) \in Nat
      /\ \A j \in 1 .. Len(down) : down[j].call \in Nat
      /\ \A j \in 1 .. Len(up) : up[j].call \in Nat
      /\ Turn = calls - 1
  BY Numbers DEF Turn
<1>2. Youngest \in Int /\ Youngest' \in Int /\ Youngest' <= Youngest + k
  <2>1. /\ pc' = "wait" => Turn' = calls - 1
        /\ Turn' = calls - 1 \/ Turn' = calls
    BY DEF Turn
  <2>2. Youngest = (calls - 1) - unanswered
    BY <1>1 DEF Youngest
  <2>3. CASE unanswered' = unanswered
    <3>1. CASE Turn' = calls - 1
      <4>1. Youngest' = (calls - 1) - unanswered
        BY <2>3, <3>1 DEF Youngest
      <4> QED
        BY <1>1, <2>2, <4>1
    <3>2. CASE Turn' = calls /\ k = 1
      <4>1. Youngest' = calls - unanswered
        BY <2>3, <3>2 DEF Youngest
      <4> QED
        BY <1>1, <2>2, <3>2, <4>1
    <3>3. k = 1 \/ pc' = "wait"
      BY <1>1, <2>3
    <3> QED
      BY <2>1, <3>1, <3>2, <3>3
  <2>4. CASE unanswered' = unanswered + 1
    <3>1. Youngest' = (calls - 1) - (unanswered + 1) \/ Youngest' = calls - (unanswered + 1)
      BY <2>1, <2>4 DEF Youngest
    <3> QED
      BY <1>1, <2>2, <3>1
  <2> QED
    BY <2>3, <2>4
<1>3. DownAges' /\ UpAges'
  BY <1>1, <1>2, AgesShifted
<1>4. BacklogBounded'
  BY <1>1 DEF BacklogBounded, Shifted
<1> QED
  BY <1>3, <1>4

(* The line loses a packet, unseen by the host.                            *)
LEMMA AgesAfterLoss ==
  ASSUME TypeOK, DownAges, UpAges, BacklogBounded, up' = up,
         UNCHANGED <<pc, tries, calls, unanswered>>, NEW k \in Nat, k <= 1, Shifted(down', k)
  PROVE  DownAges' /\ UpAges' /\ BacklogBounded'
<1>1. /\ calls \in Nat /\ unanswered \in Nat /\ Len(up) \in Nat /\ Len(down) \in Nat
      /\ Youngest \in Int
  BY Numbers DEF Youngest
<1>2. Youngest' = Youngest
  BY DEF Youngest, Turn
<1>3. Youngest' \in Int /\ Youngest' <= Youngest + k
  BY <1>1, <1>2
<1>4. DownAges' /\ UpAges'
  BY <1>1, <1>3, AgesShifted
<1>5. BacklogBounded'
  BY <1>1 DEF BacklogBounded, Shifted
<1> QED
  BY <1>4, <1>5

(* The board answers the request at the head of up, or the line loses it.  *)
LEMMA AgesAfterRequest ==
  ASSUME TypeOK, TypeOK', DownAges, UpAges, BacklogBounded, up # << >>, up' = Tail(up),
         UNCHANGED <<pc, tries, calls, unanswered>>,
         \/ down' = down
         \/ \E b \in Bursts : b.call = Head(up).call /\ down' = Append(down, b)
  PROVE  DownAges' /\ UpAges' /\ BacklogBounded'
<1>1. /\ Len(up) \in Nat /\ Len(down) \in Nat /\ Youngest \in Int
      /\ \A j \in 1 .. Len(down) : down[j].call \in Nat
      /\ \A j \in 1 .. Len(up) : up[j].call \in Nat
  BY Numbers DEF Youngest
<1>2. Youngest' = Youngest
  BY DEF Youngest, Turn
<1>3. /\ up \in Seq(Requests) /\ down \in Seq(Bursts) /\ Len(up) >= 1 /\ Head(up) = up[1]
      /\ Len(up') = Len(up) - 1 /\ \A j \in 1 .. Len(up') : up'[j] = up[j + 1]
  BY DEF TypeOK
<1>4. CASE down' = down
  <2>1. DownAges'
    BY <1>2, <1>4 DEF DownAges
  <2>2. ASSUME NEW j \in Nat, j \in 1 .. Len(up')
        PROVE  Youngest + Len(down) + j <= up'[j].call
    <3>1. j + 1 \in 1 .. Len(up) /\ up'[j] = up[j + 1]
      BY <1>1, <1>3, <2>2
    <3>2. Youngest + Len(down) + (j + 1) <= up[j + 1].call /\ up[j + 1].call \in Nat
      BY <1>1, <3>1 DEF UpAges
    <3>3. Youngest + Len(down) + j <= up[j + 1].call
      BY <1>1, <3>2
    <3> QED
      BY <3>1, <3>3
  <2>3. UpAges'
    BY <1>2, <1>4, <2>2 DEF UpAges
  <2>4. BacklogBounded'
    BY <1>1, <1>3, <1>4 DEF BacklogBounded, TypeOK
  <2> QED
    BY <2>1, <2>3, <2>4
<1>5. ASSUME NEW b \in Bursts, b.call = up[1].call, down' = Append(down, b)
      PROVE  DownAges' /\ UpAges' /\ BacklogBounded'
  <2>1. /\ Len(down') = Len(down) + 1 /\ down'[Len(down) + 1] = b
        /\ \A j \in 1 .. Len(down) : down'[j] = down[j]
    BY <1>3, <1>5
  <2>2. Youngest + Len(down) + 1 <= up[1].call
    BY <1>1, <1>3 DEF UpAges
  <2>3. ASSUME NEW j \in Nat, j \in 1 .. Len(down) + 1
        PROVE  Youngest + j <= down'[j].call
    <3>1. CASE j \in 1 .. Len(down)
      BY <2>1, <3>1 DEF DownAges
    <3>2. CASE j = Len(down) + 1
      BY <1>1, <1>5, <2>1, <2>2, <3>2
    <3> QED
      BY <1>1, <2>3, <3>1, <3>2
  <2>4. DownAges'
    BY <1>2, <2>1, <2>3 DEF DownAges
  <2>5. ASSUME NEW j \in Nat, j \in 1 .. Len(up')
        PROVE  Youngest + (Len(down) + 1) + j <= up'[j].call
    <3>1. j + 1 \in 1 .. Len(up) /\ up'[j] = up[j + 1]
      BY <1>1, <1>3, <2>5
    <3>2. Youngest + Len(down) + (j + 1) <= up[j + 1].call /\ up[j + 1].call \in Nat
      BY <1>1, <3>1 DEF UpAges
    <3>3. Youngest + (Len(down) + 1) + j <= up[j + 1].call
      BY <1>1, <3>2
    <3> QED
      BY <3>1, <3>3
  <2>6. UpAges'
    BY <1>2, <2>1, <2>5 DEF UpAges
  <2>7. BacklogBounded'
    BY <1>1, <1>3, <2>1 DEF BacklogBounded, TypeOK
  <2> QED
    BY <2>4, <2>6, <2>7
<1> QED
  BY <1>3, <1>4, <1>5

(* Reading the awaited packet: it is no older than its place allows.       *)
LEMMA HeadAge ==
  ASSUME TypeOK, DownAges, pc = "wait", down # << >>
  PROVE  calls <= Head(down).call + unanswered
<1>1. /\ calls \in Nat /\ unanswered \in Nat /\ down[1].call \in Nat /\ 1 \in 1 .. Len(down)
      /\ Head(down) = down[1]
  BY Numbers DEF TypeOK
<1>2. (calls - 1) - unanswered + 1 <= down[1].call
  BY <1>1 DEF DownAges, Youngest, Turn
<1> QED
  BY <1>1, <1>2

(* Nothing is outstanding before the first call.                           *)
LEMMA InitBounds == Init => BoundInv
<1> SUFFICES ASSUME Init PROVE BoundInv
  OBVIOUS
<1>1. TypeOK
  BY InitType
<1>2. DownAges /\ UpAges
  BY DEF Init, DownAges, UpAges
<1>3. BacklogBounded /\ StalenessBounded
  BY DEF Init, BacklogBounded, StalenessBounded
<1> QED
  BY <1>1, <1>2, <1>3 DEF BoundInv

(* Every step keeps the bounds on what is outstanding and on how old it    *)
(* is.                                                                     *)
LEMMA NextBounds == BoundInv /\ [Next]_vars => BoundInv'
<1> SUFFICES ASSUME BoundInv, [Next]_vars PROVE BoundInv'
  OBVIOUS
<1>i. TypeOK /\ DownAges /\ UpAges /\ BacklogBounded /\ StalenessBounded
  BY DEF BoundInv
<1>t. TypeOK'
  BY <1>i, NextType
<1>n. /\ calls \in Nat /\ unanswered \in Nat /\ tries \in Nat
      /\ Len(up) \in Nat /\ Len(down) \in Nat
      /\ ret.call \in Nat /\ ret.reply \in Nat
  BY <1>i, Numbers
(* Reads: k is the number of bursts they take off the line.                *)
<1>r. ASSUME pc = "wait", up' = up, UNCHANGED <<calls, tries>>,
             \/ down' = down
             \/ down # << >> /\ down' = AfterPacket,
             unanswered' = unanswered \/ unanswered' = unanswered + 1,
             \/ pc' = "wait" \/ unanswered' = unanswered + 1
             \/ down' = AfterPacket /\ down # << >> /\ Head(down).ports = << >>
      PROVE  DownAges' /\ UpAges' /\ BacklogBounded'
  <2>1. PICK k \in Nat : /\ k <= 1 /\ Shifted(down', k)
                         /\ pc' = "wait" \/ k = 1 \/ unanswered' = unanswered + 1
    <3>1. CASE down # << >> /\ down' = AfterPacket
      <4>1. PICK k \in Nat : /\ k <= 1 /\ Shifted(AfterPacket, k)
                             /\ Head(down).ports = << >> => k = 1
        BY <1>i, <3>1, AfterPacketCalls
      <4> QED
        BY <1>r, <3>1, <4>1
    <3>2. CASE down' = down /\ ~(down # << >> /\ down' = AfterPacket)
      <4>1. Shifted(down', 0)
        BY <1>n, <3>2 DEF Shifted
      <4> QED
        BY <1>r, <3>2, <4>1
    <3> QED
      BY <1>r, <3>1, <3>2
  <2> QED
    BY <1>i, <1>t, <1>r, <2>1, AgesAfterRead
<1>1. ASSUME NEW o \in Operations, NEW p \in PortNames \cup {"none"}, Call(o, p)
      PROVE  BoundInv'
  <2>1. Turn' = Turn /\ UNCHANGED <<up, down, unanswered, ret>> /\ pc = "idle" /\ pc' = "loop"
    BY <1>n, <1>1 DEF Call, Turn
  <2> QED
    BY <1>i, <1>t, <2>1
    DEF BoundInv, DownAges, UpAges, Youngest, BacklogBounded, StalenessBounded
<1>2. CASE Send
  <2>1. pc = "loop" /\ pc' = "wait" /\ UNCHANGED <<down, unanswered, ret, calls>>
        /\ up' = Append(up, [cmd |-> op, port |-> port, call |-> calls])
    BY <1>2 DEF Send
  <2>2. Youngest \in Int /\ Youngest >= (calls - 1) - unanswered
    BY <1>n DEF Youngest, Turn
  <2>3. Youngest' = (calls - 1) - unanswered
    BY <2>1 DEF Youngest, Turn
  <2>4. Len(up) + Len(down) <= unanswered
    BY <1>i, <1>n, <2>1 DEF BacklogBounded
  <2>5. /\ Len(up') = Len(up) + 1 /\ up'[Len(up) + 1].call = calls
        /\ \A j \in 1 .. Len(up) : up'[j] = up[j] /\ up[j].call \in Nat
    BY <1>i, <2>1, Numbers DEF TypeOK
  <2>6. DownAges'
    <3> SUFFICES ASSUME NEW j \in Nat, j \in 1 .. Len(down)
                 PROVE  ((calls - 1) - unanswered) + j <= down[j].call
      BY <2>1, <2>3 DEF DownAges
    <3>1. Youngest + j <= down[j].call /\ down[j].call \in Nat
      BY <1>i, Numbers DEF DownAges
    <3> QED
      BY <1>n, <2>2, <3>1
  <2>7. UpAges'
    <3>1. ASSUME NEW j \in Nat, j \in 1 .. Len(up) + 1
          PROVE  ((calls - 1) - unanswered) + Len(down) + j <= up'[j].call
      <4>1. CASE j \in 1 .. Len(up)
        <5>1. Youngest + Len(down) + j <= up[j].call /\ up[j].call \in Nat
          BY <1>i, <2>5, <4>1 DEF UpAges
        <5>2. ((calls - 1) - unanswered) + Len(down) + j <= up[j].call
          BY <1>n, <2>2, <5>1
        <5> QED
          BY <2>5, <4>1, <5>2
      <4>2. CASE j = Len(up) + 1
        <5>1. ((calls - 1) - unanswered) + Len(down) + j <= calls
          BY <1>n, <2>4, <4>2
        <5> QED
          BY <2>5, <4>2, <5>1
      <4> QED
        BY <1>n, <3>1, <4>1, <4>2
    <3> QED
      BY <2>1, <2>3, <2>5, <3>1 DEF UpAges
  <2>8. BacklogBounded' /\ StalenessBounded'
    BY <1>i, <1>n, <2>1, <2>4, <2>5 DEF BacklogBounded, StalenessBounded
  <2> QED
    BY <1>t, <2>6, <2>7, <2>8 DEF BoundInv
<1>3. CASE GiveUp
  <2>1. tries # 0
    <3>1. RetryCount \in Nat /\ RetryCount # 0
      BY ProtocolAssumption
    <3> QED
      BY <1>3, <3>1 DEF GiveUp, Attempts
  <2>2. /\ UNCHANGED <<up, down, unanswered, calls>> /\ pc = "loop" /\ pc' = "idle"
        /\ ret'.call = calls /\ ret'.reply = calls
    BY <1>3 DEF GiveUp, Return
  <2>3. Turn' = Turn
    BY <2>1, <2>2 DEF Turn
  <2>4. DownAges' /\ UpAges' /\ BacklogBounded'
    BY <1>i, <2>2, <2>3 DEF DownAges, UpAges, Youngest, BacklogBounded
  <2>5. StalenessBounded'
    BY <1>n, <2>2 DEF StalenessBounded
  <2> QED
    BY <1>t, <2>4, <2>5 DEF BoundInv
(* The steps that read or abandon, and return nothing.                     *)
<1>4. CASE ReceivePort \/ ReceiveOther \/ SkipUnknown \/ TimeOut \/ CutShort
  <2>1. /\ pc = "wait" /\ UNCHANGED <<up, calls, tries, ret>>
        /\ unanswered' = unanswered \/ unanswered' = unanswered + 1
    BY <1>4
    DEF ReceivePort, ReceiveOther, SkipUnknown, TimeOut, CutShort, AtClosing, NextAttempt, host
  <2>2. /\ down' = down \/ (down # << >> /\ down' = AfterPacket)
        /\ \/ pc' = "wait" \/ unanswered' = unanswered + 1
           \/ down' = AfterPacket /\ down # << >> /\ Head(down).ports = << >>
    BY <1>4
    DEF ReceivePort, ReceiveOther, SkipUnknown, TimeOut, CutShort, AtClosing, NextAttempt, host,
        AfterPacket
  <2>3. DownAges' /\ UpAges' /\ BacklogBounded'
    BY <1>r, <2>1, <2>2
  <2>4. StalenessBounded'
    BY <1>i, <1>n, <2>1 DEF StalenessBounded
  <2> QED
    BY <1>t, <2>3, <2>4 DEF BoundInv
(* The steps that read a packet and return what it says.                   *)
<1>5. CASE ReceiveAnswer \/ ReceiveProfileError
  <2>1. /\ pc = "wait" /\ UNCHANGED <<up, calls, tries, unanswered>>
        /\ down # << >> /\ Head(down).ports = << >> /\ down' = AfterPacket
        /\ ret'.call = calls /\ ret'.reply = Head(down).call
    BY <1>5 DEF ReceiveAnswer, ReceiveProfileError, AtClosing, Return, AfterPacket
  <2>2. DownAges' /\ UpAges' /\ BacklogBounded'
    BY <1>r, <2>1
  <2>3. StalenessBounded'
    BY <1>i, <2>1, HeadAge DEF StalenessBounded
  <2> QED
    BY <1>t, <2>2, <2>3 DEF BoundInv
<1>6. CASE BadChecksum
  <2>1. /\ pc = "wait" /\ UNCHANGED <<up, calls, tries>> /\ down # << >> /\ down' = AfterPacket
        /\ unanswered' = unanswered + 1
        /\ ret' = ret \/ (ret'.call = calls /\ ret'.reply = calls)
    BY <1>6 DEF BadChecksum, NextAttempt, Return
  <2>2. DownAges' /\ UpAges' /\ BacklogBounded'
    BY <1>r, <2>1
  <2>3. StalenessBounded'
    BY <1>i, <1>n, <2>1 DEF StalenessBounded
  <2> QED
    BY <1>t, <2>2, <2>3 DEF BoundInv
<1>7. CASE Perform \/ Reject \/ LoseRequest
  <2>1. /\ up # << >> /\ up' = Tail(up)
        /\ UNCHANGED <<pc, tries, calls, unanswered, ret>>
    BY <1>7 DEF Perform, Reject, LoseRequest, host
  <2>2. down' = down \/ \E b \in Bursts : b.call = Head(up).call /\ down' = Append(down, b)
    <3>1. CASE Perform
      <4>1. Head(up) \in Requests
        BY <1>i, <2>1 DEF TypeOK
      <4>2. PICK r \in Replies(dev, Head(up).cmd, Head(up).port) :
              down' = Append(down, [cmd |-> r.cmd, res |-> r.res, data |-> r.data,
                                    ports |-> r.ports, call |-> Head(up).call])
        BY <3>1 DEF Perform
      <4>3. [cmd |-> r.cmd, res |-> r.res, data |-> r.data, ports |-> r.ports,
             call |-> Head(up).call] \in Bursts
        BY <1>i, <4>1, <4>2, ReplyType DEF TypeOK
      <4> QED
        BY <4>2, <4>3
    <3>2. CASE Reject
      <4>1. Head(up) \in Requests
        BY <1>i, <2>1 DEF TypeOK
      <4>2. PICK c \in PacketErrors :
              down' = Append(down, [cmd |-> c, res |-> "ERR", data |-> "none",
                                    ports |-> << >>, call |-> Head(up).call])
        BY <3>2 DEF Reject
      <4>3. [cmd |-> c, res |-> "ERR", data |-> "none", ports |-> << >>,
             call |-> Head(up).call] \in Bursts
        BY <4>1, <4>2 DEF Bursts, Requests, Results, Data
      <4> QED
        BY <4>2, <4>3
    <3>3. CASE LoseRequest
      BY <3>3 DEF LoseRequest
    <3> QED
      BY <1>7, <3>1, <3>2, <3>3
  <2>3. DownAges' /\ UpAges' /\ BacklogBounded'
    BY <1>i, <1>t, <2>1, <2>2, AgesAfterRequest
  <2>4. StalenessBounded'
    BY <1>i, <2>1 DEF StalenessBounded
  <2> QED
    BY <1>t, <2>3, <2>4 DEF BoundInv
<1>8. CASE LosePacket
  <2>1. /\ down # << >> /\ down' = AfterPacket
        /\ UNCHANGED <<pc, tries, calls, unanswered, ret, up>>
    BY <1>8 DEF LosePacket, host
  <2>2. PICK k \in Nat : k <= 1 /\ Shifted(down', k)
    BY <1>i, <2>1, AfterPacketCalls
  <2>3. DownAges' /\ UpAges' /\ BacklogBounded'
    BY <1>i, <1>t, <2>1, <2>2, AgesAfterLoss
  <2>4. StalenessBounded'
    BY <1>i, <2>1 DEF StalenessBounded
  <2> QED
    BY <1>t, <2>3, <2>4 DEF BoundInv
<1>9. CASE UNCHANGED vars
  BY <1>i, <1>t, <1>9
  DEF vars, host, BoundInv, DownAges, UpAges, Youngest, Turn, BacklogBounded, StalenessBounded
<1> QED
  BY <1>1, <1>2, <1>3, <1>4, <1>5, <1>6, <1>7, <1>8, <1>9 DEF Next, HostStep

(* However late, damaged or lost the packets are, an operation returns     *)
(* nothing older than the attempts that were abandoned account for.        *)
THEOREM StalenessCorrect == Spec => []StalenessBounded
<1>1. BoundInv => StalenessBounded
  BY DEF BoundInv
<1> QED
  BY InitBounds, NextBounds, <1>1, PTL DEF Spec

(* The line holds no more than one packet or burst for each attempt that   *)
(* was abandoned and one for the attempt that waits.                       *)
THEOREM BacklogCorrect == Spec => []BacklogBounded
<1>1. BoundInv => BacklogBounded
  BY DEF BoundInv
<1> QED
  BY InitBounds, NextBounds, <1>1, PTL DEF Spec
=============================================================================
