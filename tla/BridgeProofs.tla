---------------------------- MODULE BridgeProofs ----------------------------
(***************************************************************************)
(* What holds of the bridge for any number of clients, any width of the    *)
(* sizes and any number of bytes.                                          *)
(***************************************************************************)
EXTENDS Bridge, TLAPS

(* Where the thread is inside the inner loop it serves somebody, and the   *)
(* sizes it goes by are those of what is there.                            *)
Serving == pc \notin {"accept", "ended", "dead"}
Sizes ==
    /\ Serving => client # 0 /\ conn[client] = "served"
    /\ pc = "read" => 1 <= received_size /\ received_size <= Readable
    /\ pc \in {"send", "write"} => 1 <= received_size

(* Clients connect, and are accepted, in their order.                      *)
Queued ==
    /\ \A b, c \in Ids : b < c /\ conn[b] = "away" => conn[c] = "away"
    /\ \A c \in Ids : c <= client <=> conn[c] \in {"served", "dropped"}
    /\ \A c \in Ids : c > client => taken[c] = 0

-----------------------------------------------------------------------------
(* Sizes on their way through a byte.                                      *)

(* No bytes are a whole number of full buffers.                            *)
LEMMA ZeroModWidth == 0 % Width = 0
  BY BridgeAssumption

(* Serial takes a size for what it is unless it is that of a full buffer,  *)
(* which is 0 to it.                                                       *)
LEMMA ByteSizes ==
    ASSUME NEW size \in 1 .. Width
    PROVE  /\ size < Width => ByteSize(size) = size
           /\ size = Width => ByteSize(size) = 0
<1>1. ASSUME size < Width PROVE size % Width = size
  BY <1>1, BridgeAssumption
<1>2. Width % Width = 0
  BY BridgeAssumption
<1> QED
  BY <1>1, <1>2 DEF ByteSize

(* One more full buffer is still a whole number of them.                   *)
LEMMA WholeBuffers ==
    ASSUME NEW x \in Int, x % Width = 0
    PROVE  (x + Width) % Width = 0
<1>w. Width \in Nat \ {0}
  BY BridgeAssumption
<1> DEFINE q == x \div Width
<1>1. q \in Int /\ x = Width * q
  BY <1>w
<1>2. x + Width = Width * (q + 1)
  BY <1>1, <1>w
<1>3. ASSUME NEW y \in Int, NEW r \in Int, y = Width * r PROVE y % Width = 0
  BY <1>3, <1>w
<1>4. x + Width \in Int /\ q + 1 \in Int
  BY <1>1, <1>w
<1> HIDE DEF q
<1> QED
  BY <1>2, <1>3, <1>4

-----------------------------------------------------------------------------
(* Types, with the sizes that make them hold.                              *)

TypeInv == TypeOK /\ Sizes

(* What is on the stack is bytes, too.                                     *)
LEMMA JunkType == Junk \in [1 .. Width -> Bytes]
  BY DEF Junk, Byte, Bytes, Nobody

(* The start of main.                                                      *)
LEMMA InitType == Init => TypeInv
<1> SUFFICES ASSUME Init PROVE TypeInv
  OBVIOUS
<1>1. 0 \in 0 .. Clients /\ 0 \in 0 .. Width
  BY BridgeAssumption
<1>2. buffer \in [1 .. Width -> Bytes]
  BY JunkType DEF Init
<1>3. TypeOK
  <2>1. sent \in [Ids -> Nat] /\ taken \in [Ids -> Nat] /\ \A c \in Ids : taken[c] <= sent[c]
    BY DEF Init
  <2>2. got \in [Ids -> Seq(Bytes)] /\ serialOut \in Seq(Bytes)
    BY DEF Init
  <2>3. produced \in Nat /\ unread \in 1 .. produced + 1
    BY DEF Init
  <2>4. conn \in [Ids -> {"away", "waiting", "served", "dropped"}] /\ closed \in [Ids -> BOOLEAN]
    BY DEF Init
  <2> QED
    BY <1>1, <1>2, <2>1, <2>2, <2>3, <2>4 DEF Init, TypeOK
<1>4. Sizes
  BY DEF Init, Sizes, Serving
<1> QED
  BY <1>3, <1>4 DEF TypeInv

(* Leaving the inner loop, by any of its breaks.                           *)
LEMMA DropType ==
    TypeInv /\ Drop
        => /\ conn' \in [Ids -> {"away", "waiting", "served", "dropped"}]
           /\ received_size' \in 0 .. Width
           /\ buffer' \in [1 .. Width -> Bytes]
           /\ Sizes'
<1> SUFFICES ASSUME TypeInv, Drop
             PROVE  /\ conn' \in [Ids -> {"away", "waiting", "served", "dropped"}]
                    /\ received_size' \in 0 .. Width
                    /\ buffer' \in [1 .. Width -> Bytes]
                    /\ Sizes'
  OBVIOUS
<1>1. conn' \in [Ids -> {"away", "waiting", "served", "dropped"}]
  BY DEF Drop, TypeInv, TypeOK
<1>2. received_size' \in 0 .. Width
  BY BridgeAssumption DEF Drop
<1>3. buffer' \in [1 .. Width -> Bytes]
  BY JunkType DEF Drop
<1>4. Sizes'
  BY DEF Drop, Sizes, Serving
<1> QED
  BY <1>1, <1>2, <1>3, <1>4

(* Every step of the loop keeps types and sizes; the sizes alone keep a    *)
(* read from passing what is there.                                        *)
LEMMA NextType == TypeInv /\ [Next]_vars => TypeInv'
<1> SUFFICES ASSUME TypeInv, [Next]_vars PROVE TypeInv'
  OBVIOUS
<1>c. Serving => client \in Ids
  BY DEF TypeInv, TypeOK, Sizes, Ids
<1>b. ASSUME NEW f \in Ids \cup {Board}, NEW n \in Nat \ {0} PROVE Byte(f, n) \in Bytes
  BY <1>b DEF Byte, Bytes
<1>1. ASSUME NEW c \in Ids, Connect(c) PROVE TypeInv'
  BY <1>1 DEF Connect, Running, TypeInv, TypeOK, Sizes, Serving, Readable, thread, up, down
<1>2. ASSUME NEW c \in Ids, ClientSend(c) PROVE TypeInv'
  BY <1>2 DEF ClientSend, Running, TypeInv, TypeOK, Sizes, Serving, Readable, thread, down
<1>3. ASSUME NEW c \in Ids, ClientClose(c) PROVE TypeInv'
  BY <1>3 DEF ClientClose, Running, TypeInv, TypeOK, Sizes, Serving, Readable, thread, up, down
<1>4. CASE BoardSend
  BY <1>4 DEF BoardSend, Running, TypeInv, TypeOK, Sizes, Serving, Readable, thread, up
<1>5. CASE Accept
  BY <1>5, BridgeAssumption
  DEF Accept, Waiting, TypeInv, TypeOK, Sizes, Serving, Readable, Ids, up, down
<1>6. CASE OpenSerial
  BY <1>6 DEF OpenSerial, TypeInv, TypeOK, Sizes, Serving, Readable, up
<1>7. CASE Throws
  BY <1>7 DEF Throws, TypeInv, TypeOK, Sizes, Serving, Readable, up, down
<1>8. CASE Size
  BY <1>8, BridgeAssumption DEF Size, TypeInv, TypeOK, Sizes, Serving, Readable, up, down
<1>9. CASE Read
  <2> DEFINE size == ByteSize(received_size)
  <2>1. size \in Nat /\ size <= received_size /\ received_size <= Readable
    BY <1>9, ByteSizes, BridgeAssumption DEF Read, TypeInv, TypeOK, Sizes
  <2>2. buffer' \in [1 .. Width -> Bytes]
    <3>1. ASSUME NEW i \in 1 .. Width PROVE Byte(Board, unread + i - 1) \in Bytes
      <4>1. unread + i - 1 \in Nat \ {0}
        BY DEF TypeInv, TypeOK
      <4> QED
        BY <4>1, <1>b
    <3> QED
      BY <1>9, <3>1 DEF Read, TypeInv, TypeOK
  <2>3. unread' \in 1 .. produced + 1
    <3> HIDE DEF size
    <3>1. unread' = unread + size
      BY <1>9 DEF Read, size
    <3> QED
      BY <2>1, <3>1 DEF TypeInv, TypeOK, Readable
  <2> QED
    BY <1>9, <2>2, <2>3 DEF Read, TypeInv, TypeOK, Sizes, Serving, up
<1>10. CASE Send
  <2>1. ASSUME NEW k \in 1 .. received_size PROVE SubSeq(buffer, 1, k) \in Seq(Bytes)
    <3>1. buffer \in Seq(Bytes) /\ Len(buffer) = Width
      BY BridgeAssumption DEF TypeInv, TypeOK
    <3> QED
      BY <2>1, <3>1 DEF TypeInv, TypeOK
  <2>2. client \in Ids
    BY <1>10, <1>c DEF Send, Serving
  <2>3. ASSUME \E k \in 1 .. received_size :
                  got' = IF full THEN got
                         ELSE [got EXCEPT ![client] = @ \o SubSeq(buffer, 1, k)]
        PROVE  got' \in [Ids -> Seq(Bytes)]
    <3>1. PICK k \in 1 .. received_size :
                got' = IF full THEN got
                       ELSE [got EXCEPT ![client] = @ \o SubSeq(buffer, 1, k)]
      BY <2>3
    <3>2. got[client] \o SubSeq(buffer, 1, k) \in Seq(Bytes)
      BY <2>1, <2>2 DEF TypeInv, TypeOK
    <3>3. got' \in [Ids -> Seq(Bytes)]
      BY <3>1, <3>2 DEF TypeInv, TypeOK
    <3> QED
      BY <3>3
  <2>4. got' \in [Ids -> Seq(Bytes)]
    BY <1>10, <2>3 DEF Send, TypeInv, TypeOK
  <2>5. CASE Drop
    <3>1. pc' = "accept"
      BY <2>5 DEF Drop
    <3> QED
      BY <1>10, <2>4, <2>5, <3>1, DropType DEF Send, TypeInv, TypeOK, up
  <2>6. CASE pc' \in {"recv", "dead"} /\ UNCHANGED <<received_size, buffer, conn>>
    BY <1>10, <2>4, <2>6 DEF Send, TypeInv, TypeOK, Sizes, Serving, up
  <2> QED
    BY <1>10, <2>5, <2>6 DEF Send
<1>11. CASE Recv
  <2>1. client \in Ids
    BY <1>11, <1>c DEF Recv, Serving
  <2>2. PICK k \in 1 .. Width :
          /\ k <= sent[client] - taken[client]
          /\ received_size' = k
          /\ buffer' = [i \in 1 .. Width |-> IF i <= k THEN Byte(client, taken[client] + i)
                                             ELSE buffer[i]]
          /\ taken' = [taken EXCEPT ![client] = @ + k]
    BY <1>11 DEF Recv
  <2>3. buffer' \in [1 .. Width -> Bytes]
    <3>1. ASSUME NEW i \in 1 .. Width PROVE Byte(client, taken[client] + i) \in Bytes
      BY <1>b, <2>1 DEF TypeInv, TypeOK
    <3> QED
      BY <2>2, <3>1 DEF TypeInv, TypeOK
  <2>4. taken' \in [Ids -> Nat] /\ \A c \in Ids : taken'[c] <= sent[c]
    BY <2>1, <2>2, BridgeAssumption DEF TypeInv, TypeOK
  <2> QED
    BY <1>11, <2>2, <2>3, <2>4, BridgeAssumption
    DEF Recv, TypeInv, TypeOK, Sizes, Serving, down
<1>12. CASE RecvEnd
  BY <1>12, BridgeAssumption DEF RecvEnd, TypeInv, TypeOK, Sizes, Serving, Readable, up, down
<1>13. CASE RecvFails
  <2>1. Drop /\ pc' = "accept"
    BY <1>13 DEF RecvFails, Drop
  <2> QED
    BY <1>13, <2>1, DropType DEF RecvFails, TypeInv, TypeOK, up, down
<1>14. CASE Write
  <2>1. ASSUME NEW k \in Int, k <= Width PROVE SubSeq(buffer, 1, k) \in Seq(Bytes)
    <3>1. buffer \in Seq(Bytes) /\ Len(buffer) = Width
      BY BridgeAssumption DEF TypeInv, TypeOK
    <3> QED
      BY <2>1, <3>1
  <2>2. ByteSize(received_size) \in Nat /\ ByteSize(received_size) <= Width
    BY <1>14, ByteSizes, BridgeAssumption DEF Write, TypeInv, TypeOK, Sizes
  <2>3. ASSUME NEW k \in Int, k <= Width, serialOut' = serialOut \o SubSeq(buffer, 1, k)
        PROVE  serialOut' \in Seq(Bytes)
    BY <2>1, <2>3 DEF TypeInv, TypeOK
  <2>4. serialOut' \in Seq(Bytes)
    <3>1. CASE UNCHANGED serialOut
      BY <3>1 DEF TypeInv, TypeOK
    <3>2. CASE serialOut' = serialOut \o SubSeq(buffer, 1, ByteSize(received_size))
      <4>1. ByteSize(received_size) \in Int
        BY <2>2
      <4> QED
        BY <2>2, <2>3, <3>2, <4>1
    <3>3. CASE \E k \in 0 .. ByteSize(received_size) - 1 :
                  serialOut' = serialOut \o SubSeq(buffer, 1, k)
      <4>1. PICK k \in 0 .. ByteSize(received_size) - 1 :
                    serialOut' = serialOut \o SubSeq(buffer, 1, k)
        BY <3>3
      <4>2. k \in Int /\ k <= Width
        BY <2>2, <4>1, BridgeAssumption
      <4> QED
        BY <2>3, <4>1, <4>2
    <3> QED
      BY <1>14, <3>1, <3>2, <3>3 DEF Write
  <2>5. CASE Drop
    <3>1. pc' = "accept"
      BY <2>5 DEF Drop
    <3> QED
      BY <1>14, <2>4, <2>5, <3>1, DropType DEF Write, TypeInv, TypeOK, down
  <2>6. CASE /\ pc' \in {"size", "dead"} /\ UNCHANGED <<buffer, conn>>
             /\ received_size' \in {0, received_size}
    BY <1>14, <2>4, <2>6, BridgeAssumption DEF Write, TypeInv, TypeOK, Sizes, Serving, down
  <2> QED
    BY <1>14, <2>5, <2>6 DEF Write
<1>15. CASE UNCHANGED vars
  BY <1>15 DEF vars, thread, up, down, TypeInv, TypeOK, Sizes, Serving, Readable
<1> QED
  BY <1>1, <1>2, <1>3, <1>4, <1>5, <1>6, <1>7, <1>8, <1>9, <1>10, <1>11, <1>12, <1>13,
     <1>14, <1>15 DEF Next, Thread

(* Types: of the queues, which hold no more than was sent, and of the      *)
(* buffer, whatever the sizes become on their way.                         *)
THEOREM TypeCorrect == Spec => []TypeOK
<1>1. TypeInv => TypeOK
  BY DEF TypeInv
<1> QED
  BY <1>1, InitType, NextType, PTL DEF Spec

(* Types and sizes, for the theorems below.                                *)
LEMMA TypeInvCorrect == Spec => []TypeInv
  BY InitType, NextType, PTL DEF Spec

-----------------------------------------------------------------------------
(* The order of the clients.                                               *)

(* No client has connected when main starts.                               *)
LEMMA InitQueued == Init => Queued
  BY DEF Init, Queued, Ids

(* connect and accept keep the clients in their order.                     *)
LEMMA NextQueued == TypeInv /\ Queued /\ [Next]_vars => Queued'
<1> SUFFICES ASSUME TypeInv, Queued, [Next]_vars PROVE Queued'
  OBVIOUS
<1>c. Serving => client \in Ids
  BY DEF TypeInv, TypeOK, Sizes, Ids
<1>d. ASSUME Drop, client \in Ids, UNCHANGED <<client, taken>> PROVE Queued'
  BY <1>d DEF Drop, Queued, TypeInv, TypeOK
<1>u. ASSUME UNCHANGED <<client, conn, taken>> PROVE Queued'
  BY <1>u DEF Queued
<1>1. ASSUME NEW c \in Ids, Connect(c) PROVE Queued'
  <2>1. client < c
    BY <1>1 DEF Connect, Queued, TypeInv, TypeOK, Ids
  <2> QED
    BY <1>1, <2>1 DEF Connect, Queued, TypeInv, TypeOK, Ids, thread, up
<1>2. ASSUME NEW c \in Ids, ClientSend(c) PROVE Queued'
  BY <1>2, <1>u DEF ClientSend, thread
<1>3. ASSUME NEW c \in Ids, ClientClose(c) PROVE Queued'
  BY <1>3, <1>u DEF ClientClose, thread, up
<1>4. CASE BoardSend
  BY <1>4, <1>u DEF BoardSend, thread, up
<1>5. CASE Accept
  <2>1. PICK c \in Waiting : /\ \A b \in Waiting : c <= b
                             /\ client' = c
                             /\ conn' = [conn EXCEPT ![c] = "served"]
    BY <1>5 DEF Accept
  <2>2. c \in Ids /\ conn[c] = "waiting" /\ client < c
    <3>1. c \in Ids /\ conn[c] = "waiting"
      BY <2>1 DEF Waiting
    <3> QED
      BY <3>1 DEF Queued, TypeInv, TypeOK, Ids
  <2>3. ASSUME NEW b \in Ids, b < c PROVE conn[b] \in {"served", "dropped"}
    BY <2>1, <2>2, <2>3 DEF Waiting, Queued, TypeInv, TypeOK, Ids
  <2>4. UNCHANGED taken
    BY <1>5 DEF Accept, up
  <2>5. ASSUME NEW b \in Ids
        PROVE  /\ b <= client' <=> conn'[b] \in {"served", "dropped"}
               /\ b > client' => taken'[b] = 0
    BY <2>1, <2>2, <2>3, <2>4, <2>5 DEF Queued, TypeInv, TypeOK, Ids
  <2>6. ASSUME NEW a \in Ids, NEW b \in Ids, a < b, conn'[a] = "away" PROVE conn'[b] = "away"
    BY <2>1, <2>2, <2>3, <2>6 DEF Queued, TypeInv, TypeOK, Ids
  <2> QED
    BY <2>5, <2>6 DEF Queued
<1>6. CASE OpenSerial
  BY <1>6, <1>u DEF OpenSerial, up
<1>7. CASE Throws
  BY <1>7, <1>u DEF Throws, up
<1>8. CASE Size
  BY <1>8, <1>u DEF Size, up
<1>9. CASE Read
  BY <1>9, <1>u DEF Read, up
<1>10. CASE Send
  BY <1>10, <1>c, <1>d, <1>u DEF Send, Serving, up
<1>11. CASE Recv
  BY <1>11, <1>c DEF Recv, Serving, Queued, TypeInv, TypeOK, Ids
<1>12. CASE RecvEnd
  BY <1>12, <1>u DEF RecvEnd, up
<1>13. CASE RecvFails
  BY <1>13, <1>c, <1>d DEF RecvFails, Serving, up
<1>14. CASE Write
  BY <1>14, <1>c, <1>d, <1>u DEF Write, Serving
<1>15. CASE UNCHANGED vars
  BY <1>15, <1>u DEF vars, thread, up
<1> QED
  BY <1>1, <1>2, <1>3, <1>4, <1>5, <1>6, <1>7, <1>8, <1>9, <1>10, <1>11, <1>12, <1>13,
     <1>14, <1>15 DEF Next, Thread

-----------------------------------------------------------------------------
(* From the port to the clients.                                           *)

(* What the buffer holds of the port between the read and the send, while  *)
(* no read was of a whole buffer; what was sent before has lower numbers.  *)
Fresh == pc = "send" /\ ~full
Down ==
    /\ Fresh => /\ received_size < unread
                /\ \A i \in 1 .. received_size :
                      buffer[i] = Byte(Board, unread - received_size + i - 1)
    /\ \A c \in Ids : \A i \in DOMAIN got[c] :
          /\ got[c][i].from = Board
          /\ got[c][i].n < unread - (IF Fresh THEN received_size ELSE 0)
    /\ \A c \in Ids : c > client => got[c] = << >>

(* Nobody has been sent anything when main starts.                         *)
LEMMA InitDown == Init => Down /\ DownIsFresh
  BY DEF Init, Down, Fresh, DownIsFresh, Ids

(* Who is accepted comes after everybody accepted before.                  *)
LEMMA AcceptedLater ==
    TypeInv /\ Queued /\ Accept => client' \in Ids /\ client < client'
<1> SUFFICES ASSUME TypeInv, Queued, Accept PROVE client' \in Ids /\ client < client'
  OBVIOUS
<1>1. PICK c \in Waiting : client' = c
  BY DEF Accept
<1>2. c \in Ids /\ conn[c] = "waiting"
  BY DEF Waiting
<1> QED
  BY <1>1, <1>2 DEF Queued, TypeInv, TypeOK, Ids

(* Every step keeps the bytes of the board in their order.                 *)
LEMMA NextDown ==
    TypeInv /\ Queued /\ Down /\ DownIsFresh /\ [Next]_vars => Down' /\ DownIsFresh'
<1> SUFFICES ASSUME TypeInv, Queued, Down, DownIsFresh, [Next]_vars
             PROVE  Down' /\ DownIsFresh'
  OBVIOUS
<1>t. /\ received_size \in Nat /\ unread \in Nat /\ produced \in Nat /\ client \in Nat
      /\ unread <= produced + 1 /\ got \in [Ids -> Seq(Bytes)]
  BY BridgeAssumption DEF TypeInv, TypeOK
<1>c. Serving => client \in Ids
  BY DEF TypeInv, TypeOK, Sizes, Ids
<1>n. ASSUME NEW c \in Ids, NEW i \in DOMAIN got[c]
      PROVE  got[c][i] \in Bytes /\ got[c][i].n \in Nat
  <2>1. got[c] \in Seq(Bytes)
    BY <1>t
  <2>2. got[c][i] \in Bytes
    BY <2>1
  <2> QED
    BY <2>2 DEF Bytes
<1>k. ASSUME UNCHANGED got, ~Fresh', unread' \in Nat, unread <= unread',
             client' \in Nat, client <= client'
      PROVE  Down' /\ DownIsFresh'
  <2>1. ASSUME NEW c \in Ids, NEW i \in DOMAIN got[c]
        PROVE  got[c][i].from = Board /\ got[c][i].n < unread'
    BY <1>t, <1>n, <1>k, <2>1 DEF Down
  <2>2. ASSUME NEW c \in Ids, c > client' PROVE got[c] = << >>
    BY <1>t, <1>k, <2>2 DEF Down, Ids
  <2>3. Down'
    BY <1>k, <2>1, <2>2 DEF Down
  <2> QED
    BY <1>k, <2>3 DEF DownIsFresh
<1>u. ASSUME UNCHANGED <<pc, client, received_size, buffer, full, got, unread>>
      PROVE  Down' /\ DownIsFresh'
  BY <1>u DEF Down, Fresh, DownIsFresh
<1>1. ASSUME NEW c \in Ids, Connect(c) PROVE Down' /\ DownIsFresh'
  BY <1>1, <1>u DEF Connect, thread, down
<1>2. ASSUME NEW c \in Ids, ClientSend(c) PROVE Down' /\ DownIsFresh'
  BY <1>2, <1>u DEF ClientSend, thread, down
<1>3. ASSUME NEW c \in Ids, ClientClose(c) PROVE Down' /\ DownIsFresh'
  BY <1>3, <1>u DEF ClientClose, thread, down
<1>4. CASE BoardSend
  BY <1>4, <1>u DEF BoardSend, thread
<1>5. CASE Accept
  <2>1. client' \in Nat /\ client <= client'
    BY <1>5, <1>t, AcceptedLater DEF Ids
  <2>2. ~Fresh'
    BY <1>5 DEF Accept, Fresh
  <2> QED
    BY <1>5, <1>k, <1>t, <2>1, <2>2 DEF Accept, down
<1>6. CASE OpenSerial
  BY <1>6, <1>k, <1>t DEF OpenSerial, Fresh
<1>7. CASE Throws
  BY <1>7, <1>k, <1>t DEF Throws, Fresh, down
<1>8. CASE Size
  BY <1>8, <1>k, <1>t DEF Size, Fresh, down
<1>9. CASE Read
  <2>1. /\ received_size \in 1 .. Width /\ pc' = "send"
        /\ UNCHANGED <<client, received_size, got>>
        /\ unread' = unread + ByteSize(received_size)
        /\ full' = (full \/ received_size = Width)
        /\ buffer' = [i \in 1 .. Width |-> IF i <= ByteSize(received_size)
                                           THEN Byte(Board, unread + i - 1) ELSE buffer[i]]
    BY <1>9 DEF Read, TypeInv, TypeOK, Sizes
  <2>2. ByteSize(received_size) \in Nat
    BY <1>t, <2>1, ByteSizes, BridgeAssumption
  <2>3. CASE full'
    <3>1. ~Fresh'
      BY <2>3 DEF Fresh
    <3>2. unread' \in Nat /\ unread <= unread'
      BY <1>t, <2>1, <2>2
    <3> QED
      BY <1>k, <1>t, <2>1, <3>1, <3>2
  <2>4. CASE ~full'
    <3>1. received_size < Width /\ ByteSize(received_size) = received_size /\ ~Fresh /\ Fresh'
      <4>1. received_size # Width /\ ~full
        BY <2>1, <2>4
      <4>2. received_size < Width
        BY <2>1, <4>1, BridgeAssumption
      <4>3. ByteSize(received_size) = received_size
        BY <2>1, <4>2, ByteSizes
      <4>4. pc = "read"
        BY <1>9 DEF Read
      <4> QED
        BY <2>1, <2>4, <4>2, <4>3, <4>4 DEF Fresh
    <3>2. unread' = unread + received_size
      BY <2>1, <3>1
    <3>3. ASSUME NEW i \in 1 .. received_size
          PROVE  buffer'[i] = Byte(Board, unread' - received_size + i - 1)
      <4>1. i \in 1 .. Width /\ i <= ByteSize(received_size)
        BY <2>1, <3>1, BridgeAssumption
      <4>2. unread' - received_size + i - 1 = unread + i - 1
        BY <1>t, <3>2
      <4> QED
        BY <2>1, <4>1, <4>2
    <3>4. received_size < unread'
      BY <1>t, <3>2 DEF TypeInv, TypeOK
    <3>5. ASSUME NEW c \in Ids, NEW i \in DOMAIN got[c]
          PROVE  got[c][i].from = Board /\ got[c][i].n < unread' - received_size
      BY <1>t, <1>n, <3>1, <3>2, <3>5 DEF Down
    <3>6. Down'
      BY <2>1, <3>1, <3>3, <3>4, <3>5 DEF Down
    <3> QED
      BY <2>1, <3>6 DEF DownIsFresh
  <2> QED
    BY <2>3, <2>4
<1>10. CASE Send
  <2>1. client \in Ids /\ ~Fresh'
    BY <1>10, <1>c DEF Send, Drop, Serving, Fresh
  <2>2. UNCHANGED <<client, unread>>
    BY <1>10 DEF Send
  <2>3. CASE UNCHANGED got
    BY <1>k, <1>t, <2>1, <2>2, <2>3
  <2>4. ASSUME NEW k \in 1 .. received_size, ~full,
               got' = [got EXCEPT ![client] = @ \o SubSeq(buffer, 1, k)]
        PROVE  Down' /\ DownIsFresh'
    <3>1. Fresh
      BY <1>10, <2>4 DEF Send, Fresh
    <3>2. buffer \in Seq(Bytes) /\ Len(buffer) = Width /\ received_size <= Width
      BY BridgeAssumption DEF TypeInv, TypeOK
    <3> DEFINE new == SubSeq(buffer, 1, k)
    <3>3. /\ Len(new) = k /\ new \in Seq(Bytes)
          /\ \A i \in 1 .. k : new[i] = Byte(Board, unread - received_size + i - 1)
      <4>1. k \in Nat /\ 1 <= k /\ k <= received_size /\ k <= Len(buffer)
        BY <1>t, <2>4, <3>2, BridgeAssumption
      <4>2. Len(new) = k /\ new \in Seq(Bytes) /\ \A i \in 1 .. k : new[i] = buffer[i]
        BY <3>2, <4>1
      <4>3. ASSUME NEW i \in 1 .. k
            PROVE  buffer[i] = Byte(Board, unread - received_size + i - 1)
        <5>1. i \in 1 .. received_size
          BY <1>t, <4>1
        <5> QED
          BY <3>1, <5>1 DEF Down
      <4> QED
        BY <4>2, <4>3
    <3> HIDE DEF new
    <3>4. got'[client] = got[client] \o new /\ \A c \in Ids : c # client => got'[c] = got[c]
      BY <1>t, <2>1, <2>4 DEF new
    <3>5. ASSUME NEW c \in Ids, NEW i \in DOMAIN got'[c]
          PROVE  \/ /\ i \in DOMAIN got[c] /\ got'[c][i] = got[c][i]
                    /\ got[c][i].from = Board /\ got[c][i].n < unread - received_size
                 \/ /\ c = client /\ i > Len(got[c])
                    /\ got'[c][i] = Byte(Board, unread - received_size + (i - Len(got[c])) - 1)
      <4>1. ASSUME i \in DOMAIN got[c]
            PROVE  got[c][i].from = Board /\ got[c][i].n < unread - received_size
        BY <3>1, <4>1 DEF Down
      <4>2. CASE c # client
        BY <3>4, <3>5, <4>1, <4>2
      <4>3. CASE c = client
        <5>1. got[client] \in Seq(Bytes)
          BY <1>t, <2>1
        <5>2. i \in 1 .. Len(got[client]) + k
          BY <3>3, <3>4, <3>5, <4>3, <5>1
        <5>3. CASE i \in 1 .. Len(got[client])
          BY <3>3, <3>4, <4>1, <4>3, <5>1, <5>3
        <5>4. CASE i > Len(got[client])
          <6>1. i - Len(got[client]) \in 1 .. k
            BY <5>1, <5>2, <5>4
          <6>2. got'[client][i] = new[i - Len(got[client])]
            BY <3>3, <3>4, <5>1, <5>2, <5>4
          <6> QED
            BY <3>3, <4>3, <5>4, <6>1, <6>2
        <5> QED
          BY <5>1, <5>2, <5>3, <5>4
      <4> QED
        BY <4>2, <4>3
    <3>k. k \in Nat /\ k <= received_size /\ received_size < unread
      BY <1>t, <2>4, <3>1 DEF Down
    <3>b. ASSUME NEW c \in Ids, NEW i \in DOMAIN got'[c]
          PROVE  /\ i \in Nat /\ Len(got[c]) \in Nat
                 /\ c = client => i <= Len(got[c]) + k
      <4>1. got[c] \in Seq(Bytes)
        BY <1>t
      <4>2. CASE c # client
        BY <3>4, <4>1, <4>2
      <4>3. CASE c = client
        BY <3>3, <3>4, <4>1, <4>3
      <4> QED
        BY <4>2, <4>3
    <3>6. ASSUME NEW c \in Ids, NEW i \in DOMAIN got'[c]
          PROVE  got'[c][i].from = Board /\ got'[c][i].n \in Nat /\ got'[c][i].n < unread
      <4>1. CASE i \in DOMAIN got[c] /\ got'[c][i] = got[c][i]
                 /\ got[c][i].from = Board /\ got[c][i].n < unread - received_size
        BY <1>t, <1>n, <4>1
      <4>2. CASE /\ c = client /\ i > Len(got[c])
                 /\ got'[c][i] = Byte(Board, unread - received_size + (i - Len(got[c])) - 1)
        BY <1>t, <3>b, <3>k, <4>2 DEF Byte
      <4> QED
        BY <3>5, <4>1, <4>2
    <3>7. ASSUME NEW c \in Ids, c > client PROVE got'[c] = << >>
      BY <1>t, <2>1, <3>4, <3>7 DEF Down, Ids
    <3>8. Down'
      BY <1>t, <2>1, <2>2, <3>6, <3>7 DEF Down
    <3>9. ASSUME NEW c \in Ids, NEW d \in Ids, NEW i \in DOMAIN got'[c], NEW j \in DOMAIN got'[d],
                 c < d \/ (c = d /\ i < j)
          PROVE  got'[c][i].n < got'[d][j].n
      <4>1. CASE j \in DOMAIN got[d] /\ got'[d][j] = got[d][j]
        <5>1. i \in DOMAIN got[c] /\ got'[c][i] = got[c][i]
          <6>1. c < client \/ (c = client /\ d = client /\ i <= Len(got[c]))
            BY <1>t, <3>7, <3>9, <3>b, <4>1 DEF Ids, Down
          <6>2. i \in Nat /\ Len(got[c]) \in Nat
            BY <3>b
          <6>3. ~(c = client /\ i > Len(got[c]))
            BY <1>t, <6>1, <6>2 DEF Ids
          <6> QED
            BY <3>5, <6>3
        <5> QED
          BY <3>9, <4>1, <5>1 DEF DownIsFresh
      <4>2. CASE /\ d = client /\ j > Len(got[d])
                 /\ got'[d][j] = Byte(Board, unread - received_size + (j - Len(got[d])) - 1)
        <5>1. got'[d][j].n = unread - received_size + (j - Len(got[d])) - 1
          BY <4>2 DEF Byte
        <5>2. CASE i \in DOMAIN got[c] /\ got'[c][i] = got[c][i]
                   /\ got[c][i].n < unread - received_size
          <6>1. j \in Nat /\ Len(got[d]) \in Nat
            BY <3>b
          <6>2. got[c][i].n \in Nat
            BY <1>n, <5>2
          <6> QED
            BY <1>t, <4>2, <5>1, <5>2, <6>1, <6>2
        <5>3. CASE /\ c = client /\ i > Len(got[c])
                   /\ got'[c][i] = Byte(Board, unread - received_size + (i - Len(got[c])) - 1)
          <6>1. i < j /\ Len(got[c]) = Len(got[d])
            BY <3>9, <4>2, <5>3 DEF Ids
          <6>2. got'[c][i].n = unread - received_size + (i - Len(got[c])) - 1
            BY <5>3 DEF Byte
          <6> QED
            BY <1>t, <3>b, <3>k, <5>1, <6>1, <6>2
        <5> QED
          BY <3>5, <5>2, <5>3
      <4> QED
        BY <3>5, <4>1, <4>2
    <3> QED
      BY <3>6, <3>8, <3>9 DEF DownIsFresh
  <2> QED
    BY <1>10, <2>3, <2>4 DEF Send
<1>11. CASE Recv
  BY <1>11, <1>k, <1>t DEF Recv, Fresh, down
<1>12. CASE RecvEnd
  BY <1>12, <1>k, <1>t DEF RecvEnd, Fresh, down
<1>13. CASE RecvFails
  BY <1>13, <1>k, <1>t DEF RecvFails, Drop, Fresh, down
<1>14. CASE Write
  <2>1. ~Fresh'
    BY <1>14 DEF Write, Drop, Fresh
  <2> QED
    BY <1>14, <1>k, <1>t, <2>1 DEF Write, down
<1>15. CASE UNCHANGED vars
  BY <1>15, <1>u DEF vars, thread, down
<1> QED
  BY <1>1, <1>2, <1>3, <1>4, <1>5, <1>6, <1>7, <1>8, <1>9, <1>10, <1>11, <1>12, <1>13,
     <1>14, <1>15 DEF Next, Thread

(* No client is sent a byte that was sent before, to him or to another, or *)
(* one that is left in the buffer, until a whole buffer was read.          *)
THEOREM DownCorrect == Spec => []DownIsFresh
  BY InitType, InitQueued, InitDown, NextType, NextQueued, NextDown, PTL DEF Spec

-----------------------------------------------------------------------------
(* From the clients to the port.                                           *)

(* The byte last written, and how many bytes of the client that is served  *)
(* were received when it was.                                              *)
LastWritten == IF serialOut = << >> THEN Byte(Board, 1) ELSE serialOut[Len(serialOut)]
Before == IF LastWritten.from = client THEN LastWritten.n ELSE 0
InHand == IF pc = "write" THEN received_size ELSE 0

Up ==
    /\ LastWritten.from <= client
    /\ pc # "dead" /\ client # 0 =>
          /\ Before + InHand <= taken[client]
          /\ (taken[client] - InHand - Before) % Width = 0
    /\ pc = "write" => \A i \in 1 .. received_size :
                          buffer[i] = Byte(client, taken[client] - received_size + i)

(* Nothing has been written when main starts.                              *)
LEMMA InitUp == Init => Up /\ UpInOrder
  BY DEF Init, Up, UpInOrder, LastWritten, Byte, Board

(* What is written of the bytes in hand follows on what was written last.  *)
LEMMA Appended ==
    ASSUME TypeInv, Up, UpInOrder, pc = "write", client \in Ids, NEW k \in Nat, k <= received_size,
           serialOut' = serialOut \o SubSeq(buffer, 1, k)
    PROVE  /\ UpInOrder'
           /\ k = 0 => LastWritten' = LastWritten
           /\ k # 0 => LastWritten' = Byte(client, taken[client] - received_size + k)
<1> DEFINE new == SubSeq(buffer, 1, k)
           base == taken[client] - received_size
<1>1. /\ buffer \in Seq(Bytes) /\ Len(buffer) = Width /\ received_size \in Nat
      /\ received_size <= Width /\ taken[client] \in Nat /\ serialOut \in Seq(Bytes)
  BY BridgeAssumption DEF TypeInv, TypeOK
<1>2. new \in Seq(Bytes) /\ Len(new) = k /\ \A i \in 1 .. k : new[i] = buffer[i]
  BY <1>1
<1>3. ASSUME NEW i \in 1 .. k PROVE new[i] = Byte(client, base + i)
  <2>1. i \in 1 .. received_size
    BY <1>1
  <2> QED
    BY <1>2, <2>1 DEF Up
<1>4. base \in Int
  BY <1>1
<1>5. serialOut' = serialOut \o new
  OBVIOUS
<1>f. ASSUME k # 0 PROVE Follows(LastWritten, Byte(client, base + 1))
  <2>1. /\ LastWritten.from <= client /\ client \in Nat /\ client # 0
        /\ Before + received_size <= taken[client]
        /\ (taken[client] - received_size - Before) % Width = 0
    BY DEF Up, InHand, Ids
  <2>2. LastWritten \in [from : Int, n : Nat]
    <3>1. CASE serialOut = << >>
      BY <3>1 DEF LastWritten, Byte, Board
    <3>2. CASE serialOut # << >>
      <4>1. LastWritten \in Bytes
        BY <1>1, <3>2 DEF LastWritten
      <4> QED
        BY <4>1, BridgeAssumption DEF Bytes, Ids, Board, Nobody
    <3> QED
      BY <3>1, <3>2
  <2>3. Byte(client, base + 1).from = client /\ Byte(client, base + 1).n = base + 1
    BY DEF Byte
  <2>4. CASE LastWritten.from = client
    <3>1. Before = LastWritten.n
      BY <2>4 DEF Before
    <3>2. base + 1 > LastWritten.n /\ base + 1 - LastWritten.n - 1 = taken[client] - received_size - Before
      BY <1>1, <2>1, <2>2, <3>1
    <3>3. (base + 1 - LastWritten.n - 1) % Width = 0
      BY <2>1, <3>2
    <3> HIDE DEF base
    <3> DEFINE b == Byte(client, base + 1)
    <3>4. b.from = LastWritten.from /\ b.n > LastWritten.n /\ (b.n - LastWritten.n - 1) % Width = 0
      BY <1>4, <2>2, <2>3, <2>4, <3>2, <3>3, BridgeAssumption
    <3> HIDE DEF b
    <3>5. Follows(LastWritten, b)
      BY <3>4 DEF Follows
    <3> QED
      BY <3>5 DEF b
  <2>5. CASE LastWritten.from < client
    <3>1. Before = 0
      BY <2>1, <2>2, <2>5 DEF Before
    <3>2. base + 1 - 1 = taken[client] - received_size - Before
      BY <1>1, <3>1
    <3>3. (base + 1 - 1) % Width = 0
      BY <2>1, <3>2
    <3> HIDE DEF base
    <3> DEFINE b == Byte(client, base + 1)
    <3>4. b.from > LastWritten.from /\ (b.n - 1) % Width = 0
      BY <1>4, <2>1, <2>2, <2>3, <2>5, <3>3, BridgeAssumption
    <3> HIDE DEF b
    <3>5. Follows(LastWritten, b)
      BY <3>4 DEF Follows
    <3> QED
      BY <3>5 DEF b
  <2> QED
    BY <2>1, <2>2, <2>4, <2>5
<1>g. ASSUME NEW i \in Int PROVE Follows(Byte(client, base + i - 1), Byte(client, base + i))
  <2>1. base + i - (base + i - 1) - 1 = 0 /\ base + i > base + i - 1
    BY <1>4
  <2>2. /\ Byte(client, base + i - 1).from = client /\ Byte(client, base + i - 1).n = base + i - 1
        /\ Byte(client, base + i).from = client /\ Byte(client, base + i).n = base + i
    BY DEF Byte
  <2>3. (base + i - (base + i - 1) - 1) % Width = 0
    BY <2>1, ZeroModWidth
  <2> HIDE DEF base
  <2> QED
    BY <1>4, <2>1, <2>2, <2>3, BridgeAssumption DEF Follows
<1> HIDE DEF new
<1>6. Len(serialOut') = Len(serialOut) + k /\ Len(serialOut) \in Nat
  BY <1>1, <1>2, <1>5
<1>7. ASSUME NEW i \in 1 .. Len(serialOut) PROVE serialOut'[i] = serialOut[i]
  BY <1>1, <1>2, <1>5
<1>8. ASSUME NEW i \in 1 .. k PROVE serialOut'[Len(serialOut) + i] = Byte(client, base + i)
  <2>1. serialOut'[Len(serialOut) + i] = new[i]
    BY <1>1, <1>2, <1>5
  <2> QED
    BY <1>3, <2>1
<1> HIDE DEF base
<1>9. UpInOrder'
  <2> SUFFICES ASSUME NEW j \in 1 .. Len(serialOut')
               PROVE  /\ serialOut'[j].from \in Ids
                      /\ Follows(IF j = 1 THEN Byte(Board, 1) ELSE serialOut'[j - 1], serialOut'[j])
    <3>1. DOMAIN serialOut' = 1 .. Len(serialOut')
      BY <1>1, <1>2, <1>5
    <3> QED
      BY <3>1 DEF UpInOrder
  <2>1. CASE j \in 1 .. Len(serialOut)
    <3>1. serialOut'[j] = serialOut[j] /\ j \in DOMAIN serialOut
      BY <1>1, <1>7, <2>1
    <3>2. j # 1 => serialOut'[j - 1] = serialOut[j - 1]
      BY <1>6, <1>7, <2>1
    <3> QED
      BY <3>1, <3>2 DEF UpInOrder
  <2>2. CASE j > Len(serialOut)
    <3> DEFINE i == j - Len(serialOut)
    <3>1. i \in 1 .. k /\ j = Len(serialOut) + i
      BY <1>6, <2>2
    <3>2. serialOut'[j] = Byte(client, base + i)
      BY <1>8, <3>1
    <3>3. serialOut'[j].from \in Ids
      BY <3>2 DEF Byte
    <3>4. CASE i = 1
      <4>1. k # 0 /\ j = Len(serialOut) + 1
        BY <3>1, <3>4
      <4>2. (IF j = 1 THEN Byte(Board, 1) ELSE serialOut'[j - 1]) = LastWritten
        <5>1. CASE serialOut = << >>
          BY <4>1, <5>1 DEF LastWritten
        <5>2. CASE serialOut # << >>
          <6>1. j - 1 \in 1 .. Len(serialOut) /\ j # 1 /\ j - 1 = Len(serialOut)
            BY <1>1, <4>1, <5>2
          <6> QED
            BY <1>7, <5>2, <6>1 DEF LastWritten
        <5> QED
          BY <5>1, <5>2
      <4> QED
        BY <1>f, <3>2, <3>3, <3>4, <4>1, <4>2
    <3>5. CASE i # 1
      <4>1. i - 1 \in 1 .. k /\ j - 1 = Len(serialOut) + (i - 1) /\ j # 1 /\ i \in Int
        BY <1>6, <3>1, <3>5
      <4>2. serialOut'[j - 1] = Byte(client, base + (i - 1))
        BY <1>8, <4>1
      <4>3. base + (i - 1) = base + i - 1
        BY <1>4, <4>1
      <4> HIDE DEF i
      <4> QED
        BY <1>g, <3>2, <3>3, <4>1, <4>2, <4>3
    <3> QED
      BY <3>4, <3>5
  <2> QED
    BY <1>6, <2>1, <2>2
<1>10. k = 0 => LastWritten' = LastWritten
  <2> SUFFICES ASSUME k = 0 PROVE LastWritten' = LastWritten
    OBVIOUS
  <2>1. new = << >>
    BY <1>2
  <2>2. serialOut' = serialOut
    BY <1>1, <1>5, <2>1
  <2> QED
    BY <2>2 DEF LastWritten
<1>11. k # 0 => LastWritten' = Byte(client, base + k)
  <2> SUFFICES ASSUME k # 0 PROVE LastWritten' = Byte(client, base + k)
    OBVIOUS
  <2>1. k \in 1 .. k /\ Len(serialOut') = Len(serialOut) + k /\ Len(serialOut') # 0
    BY <1>6
  <2>2. serialOut' # << >>
    BY <2>1
  <2> QED
    BY <1>8, <2>1, <2>2 DEF LastWritten
<1> QED
  BY <1>9, <1>10, <1>11 DEF base

(* Every step keeps the bytes of the clients in their order.               *)
LEMMA NextUp ==
    TypeInv /\ Queued /\ Up /\ UpInOrder /\ [Next]_vars => Up' /\ UpInOrder'
<1> SUFFICES ASSUME TypeInv, Queued, Up, UpInOrder, [Next]_vars PROVE Up' /\ UpInOrder'
  OBVIOUS
<1>t. /\ received_size \in Nat /\ client \in Nat /\ taken \in [Ids -> Nat]
      /\ serialOut \in Seq(Bytes)
  BY BridgeAssumption DEF TypeInv, TypeOK
<1>c. Serving => client \in Ids
  BY DEF TypeInv, TypeOK, Sizes, Ids
<1>k. ASSUME UNCHANGED <<serialOut, client, taken>>, pc \notin {"write", "dead"}, pc' # "write"
      PROVE  Up' /\ UpInOrder'
  <2>1. UNCHANGED <<LastWritten, Before>> /\ InHand = 0 /\ InHand' = 0
    BY <1>k DEF LastWritten, Before, InHand
  <2> QED
    BY <1>k, <2>1 DEF Up, UpInOrder
<1>u. ASSUME UNCHANGED <<serialOut, client, taken, pc, buffer, received_size>>
      PROVE  Up' /\ UpInOrder'
  BY <1>u DEF Up, UpInOrder, LastWritten, Before, InHand
<1>1. ASSUME NEW c \in Ids, Connect(c) PROVE Up' /\ UpInOrder'
  BY <1>1, <1>u DEF Connect, thread, up
<1>2. ASSUME NEW c \in Ids, ClientSend(c) PROVE Up' /\ UpInOrder'
  BY <1>2, <1>u DEF ClientSend, thread
<1>3. ASSUME NEW c \in Ids, ClientClose(c) PROVE Up' /\ UpInOrder'
  BY <1>3, <1>u DEF ClientClose, thread, up
<1>4. CASE BoardSend
  BY <1>4, <1>u DEF BoardSend, thread, up
<1>5. CASE Accept
  <2>1. client' \in Ids /\ client < client' /\ UNCHANGED <<taken, serialOut>> /\ pc' \in {"open", "ended"}
    BY <1>5, AcceptedLater DEF Accept, up
  <2>2. taken'[client'] = 0
    BY <2>1 DEF Queued
  <2>3. LastWritten' = LastWritten /\ LastWritten.from <= client
    BY <2>1 DEF LastWritten, Up
  <2>4. LastWritten.from \in Int
    <3>1. CASE serialOut = << >>
      BY <3>1 DEF LastWritten, Byte, Board
    <3>2. CASE serialOut # << >>
      <4>1. LastWritten \in Bytes
        BY <1>t, <3>2 DEF LastWritten
      <4> QED
        BY <4>1, BridgeAssumption DEF Bytes, Ids, Board, Nobody
    <3> QED
      BY <3>1, <3>2
  <2>5. LastWritten'.from < client' /\ client' \in Nat
    BY <1>t, <2>1, <2>3, <2>4 DEF Ids
  <2>6. Before' = 0 /\ InHand' = 0
    BY <2>1, <2>3, <2>4, <2>5 DEF Before, InHand
  <2>7. Up'
    BY <2>1, <2>2, <2>3, <2>4, <2>5, <2>6, ZeroModWidth DEF Up
  <2> QED
    BY <2>1, <2>7 DEF UpInOrder
<1>6. CASE OpenSerial
  BY <1>6, <1>k DEF OpenSerial, up
<1>7. CASE Throws
  BY <1>7, <1>k DEF Throws, up
<1>8. CASE Size
  BY <1>8, <1>k DEF Size, up
<1>9. CASE Read
  BY <1>9, <1>k DEF Read, up
<1>10. CASE Send
  BY <1>10, <1>k DEF Send, Drop, up
<1>11. CASE Recv
  <2>1. client \in Ids /\ client # 0 /\ UNCHANGED <<serialOut, client>> /\ pc = "recv" /\ pc' = "write"
    BY <1>11, <1>c DEF Recv, Serving, Ids
  <2>2. PICK k \in 1 .. Width :
          /\ received_size' = k
          /\ buffer' = [i \in 1 .. Width |-> IF i <= k THEN Byte(client, taken[client] + i)
                                             ELSE buffer[i]]
          /\ taken' = [taken EXCEPT ![client] = @ + k]
    BY <1>11 DEF Recv
  <2>3. taken'[client] = taken[client] + k /\ k \in Nat /\ k <= Width /\ taken[client] \in Nat
    BY <1>t, <2>1, <2>2, BridgeAssumption
  <2>4. LastWritten' = LastWritten /\ Before' = Before /\ InHand = 0 /\ InHand' = k
    BY <2>1, <2>2 DEF LastWritten, Before, InHand
  <2>5. Before \in Int
    <3>1. CASE serialOut = << >>
      BY <3>1 DEF LastWritten, Before, Byte
    <3>2. CASE serialOut # << >>
      <4>1. LastWritten \in Bytes
        BY <1>t, <3>2 DEF LastWritten
      <4> QED
        BY <4>1 DEF Before, Bytes
    <3> QED
      BY <3>1, <3>2
  <2>6. taken'[client] - k - Before = taken[client] - 0 - Before
    BY <2>3, <2>5
  <2>7. ASSUME NEW i \in 1 .. k PROVE buffer'[i] = Byte(client, taken'[client] - k + i)
    <3>1. i \in 1 .. Width /\ i <= k /\ taken'[client] - k + i = taken[client] + i
      BY <2>3, BridgeAssumption
    <3> QED
      BY <2>2, <3>1
  <2>8. Before + 0 <= taken[client] /\ (taken[client] - 0 - Before) % Width = 0
    BY <2>1, <2>4 DEF Up
  <2>9. Before + k <= taken'[client]
    BY <2>3, <2>5, <2>8
  <2>10. LastWritten'.from <= client'
    BY <2>1, <2>4 DEF Up
  <2>11. Up'
    BY <2>1, <2>2, <2>4, <2>6, <2>7, <2>8, <2>9, <2>10 DEF Up
  <2> QED
    BY <2>1, <2>11 DEF UpInOrder
<1>12. CASE RecvEnd
  BY <1>12, <1>k DEF RecvEnd, up
<1>13. CASE RecvFails
  BY <1>13, <1>k DEF RecvFails, Drop, up
<1>14. CASE Write
  <2>1. client \in Ids /\ client # 0 /\ pc = "write" /\ UNCHANGED <<client, taken>>
    BY <1>14, <1>c DEF Write, Serving, Ids
  <2>2. received_size \in 1 .. Width /\ received_size \in Nat /\ taken[client] \in Nat
    BY <1>t, <2>1 DEF TypeInv, TypeOK, Sizes
  <2>3. /\ Before + received_size <= taken[client]
        /\ (taken[client] - received_size - Before) % Width = 0
        /\ LastWritten.from <= client
    BY <2>1 DEF Up, InHand
  <2>4. Before \in Int
    <3>1. CASE serialOut = << >>
      BY <3>1 DEF LastWritten, Before, Byte
    <3>2. CASE serialOut # << >>
      <4>1. LastWritten \in Bytes
        BY <1>t, <3>2 DEF LastWritten
      <4> QED
        BY <4>1 DEF Before, Bytes
    <3> QED
      BY <3>1, <3>2
  <2>5. ByteSize(received_size) \in Nat /\ ByteSize(received_size) <= received_size
    BY <2>2, ByteSizes, BridgeAssumption
  <2>6. ASSUME serialOut' = serialOut, ByteSize(received_size) = 0, pc' # "write"
        PROVE  Up' /\ UpInOrder'
    <3>1. received_size = Width
      BY <2>2, <2>6, ByteSizes, BridgeAssumption
    <3>2. LastWritten' = LastWritten /\ Before' = Before /\ InHand' = 0
      BY <2>1, <2>6 DEF LastWritten, Before, InHand
    <3>3. (taken[client] - 0 - Before) % Width = 0
      <4> DEFINE x == taken[client] - received_size - Before
      <4>1. x \in Int /\ x % Width = 0 /\ taken[client] - 0 - Before = x + Width
        BY <2>2, <2>3, <2>4, <3>1
      <4> HIDE DEF x
      <4> QED
        BY <4>1, WholeBuffers
    <3>4. Before + 0 <= taken[client]
      BY <2>2, <2>3, <2>4
    <3> QED
      BY <2>1, <2>3, <2>6, <3>2, <3>3, <3>4 DEF Up, UpInOrder
  <2>7. CASE pc' = "size" /\ serialOut' = serialOut \o SubSeq(buffer, 1, ByteSize(received_size))
    <3>1. /\ UpInOrder'
          /\ ByteSize(received_size) # 0
                => LastWritten' = Byte(client, taken[client] - received_size + ByteSize(received_size))
      BY <2>1, <2>5, <2>7, Appended
    <3>2. CASE ByteSize(received_size) = 0
      <4>1. serialOut' = serialOut
        <5>1. buffer \in Seq(Bytes)
          BY BridgeAssumption DEF TypeInv, TypeOK
        <5>2. SubSeq(buffer, 1, 0) = << >>
          BY <5>1
        <5> QED
          BY <1>t, <2>7, <3>2, <5>2
      <4> QED
        BY <2>6, <2>7, <3>2, <4>1
    <3>3. CASE ByteSize(received_size) # 0
      <4>1. ByteSize(received_size) = received_size
        BY <2>2, <3>3, ByteSizes, BridgeAssumption
      <4>2. LastWritten' = Byte(client, taken[client])
        BY <2>2, <3>1, <3>3, <4>1
      <4>3. LastWritten'.from = client /\ Before' = taken[client] /\ InHand' = 0
        BY <2>1, <2>7, <4>2 DEF Byte, Before, InHand
      <4>4. taken[client] - 0 - taken[client] = 0
        BY <2>2
      <4>5. taken[client] + 0 <= taken[client] /\ client <= client
        BY <1>t, <2>2
      <4>6. Up'
        BY <2>1, <2>7, <4>3, <4>4, <4>5, ZeroModWidth DEF Up
      <4> QED
        BY <3>1, <4>6
    <3> QED
      BY <3>2, <3>3
  <2>8. ASSUME NEW k \in 0 .. ByteSize(received_size) - 1, pc' = "dead",
               serialOut' = serialOut \o SubSeq(buffer, 1, k)
        PROVE  Up' /\ UpInOrder'
    <3>1. k \in Nat /\ k <= received_size
      BY <2>2, <2>5
    <3>2. /\ UpInOrder'
          /\ k = 0 => LastWritten' = LastWritten
          /\ k # 0 => LastWritten' = Byte(client, taken[client] - received_size + k)
      BY <2>1, <2>8, <3>1, Appended
    <3>3. LastWritten'.from <= client
      BY <1>t, <2>3, <3>2 DEF Byte
    <3> QED
      BY <2>1, <2>8, <3>2, <3>3 DEF Up
  <2>9. CASE ByteSize(received_size) = 0 /\ Drop /\ UNCHANGED serialOut
    BY <2>6, <2>9 DEF Drop
  <2> QED
    BY <1>14, <2>7, <2>8, <2>9 DEF Write
<1>15. CASE UNCHANGED vars
  BY <1>15, <1>u DEF vars, thread, up
<1> QED
  BY <1>1, <1>2, <1>3, <1>4, <1>5, <1>6, <1>7, <1>8, <1>9, <1>10, <1>11, <1>12, <1>13,
     <1>14, <1>15 DEF Next, Thread

(* What was written to the port is what was received from the clients, in  *)
(* order, but for the full buffers, which are lost as a whole.             *)
THEOREM UpCorrect == Spec => []UpInOrder
  BY InitType, InitQueued, InitUp, NextType, NextQueued, NextUp, PTL DEF Spec
=============================================================================
