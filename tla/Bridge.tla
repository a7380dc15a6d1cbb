-------------------------------- MODULE Bridge --------------------------------
(***************************************************************************)
(* com2tcp_main.cpp: a TCP server that relays between one client at a time *)
(* and a serial port, in one thread and through one buffer.                *)
(*                                                                         *)
(* Bytes are told apart by who sent them and which of his they are.  The   *)
(* kernel's queues are FIFO, so each is the bytes from one number to       *)
(* another.  The sizes Serial::read and Serial::write take are uint8_t,    *)
(* and MAX_BUFFER is as many values as one of those has: Width is both.    *)
(***************************************************************************)
EXTENDS Integers, Sequences

CONSTANTS
    Clients,   \* how many there are, numbered in the order they connect
    Width,     \* MAX_BUFFER, and 2^8
    MaxUp,     \* bound on the bytes a client sends
    MaxDown    \* bound on the bytes the board sends

ASSUME BridgeAssumption == Clients \in Nat /\ Width \in Nat \ {0} /\ MaxUp \in Nat /\ MaxDown \in Nat

VARIABLES
    pc,             \* where the thread is
    client,         \* the one that was accepted last, 0 before the first
    received_size,
    buffer,
    full,           \* history: the buffer was asked to be filled from the serial port
    conn, closed,   \* each client's connection, and whether its own end is closed
    sent, taken,    \* how many bytes each has sent, and recv has returned
    got,            \* history: what each was sent, until "full"
    produced,       \* how many bytes the board has sent
    unread,         \* the number of the first that is in the port's input queue
    serialOut       \* what was written to the port

thread == <<pc, client, received_size, buffer, full>>
up == <<sent, taken, serialOut>>
down == <<got, produced, unread>>
vars == <<thread, conn, closed, up, down>>

Ids == 1 .. Clients
Board == 0
Nobody == -1
Bytes == [from: Ids \cup {Board, Nobody}, n: Nat \ {0}]
Byte(from, n) == [from |-> from, n |-> n]
Junk == [i \in 1 .. Width |-> Byte(Nobody, 1)]

(* The queues hold no more than was sent, and the buffer bytes of somebody *)
(* or what was on the stack.                                               *)
TypeOK ==
    /\ pc \in {"accept", "open", "size", "read", "send", "recv", "write", "ended", "dead"}
    /\ client \in 0 .. Clients
    /\ received_size \in 0 .. Width
    /\ buffer \in [1 .. Width -> Bytes]
    /\ full \in BOOLEAN
    /\ conn \in [Ids -> {"away", "waiting", "served", "dropped"}]
    /\ closed \in [Ids -> BOOLEAN]
    /\ sent \in [Ids -> Nat] /\ taken \in [Ids -> Nat]
    /\ \A c \in Ids : taken[c] <= sent[c]
    /\ got \in [Ids -> Seq(Bytes)]
    /\ produced \in Nat /\ unread \in 1 .. produced + 1
    /\ serialOut \in Seq(Bytes)

Init ==
    /\ pc = "accept" /\ client = 0 /\ received_size = 0 /\ buffer = Junk
    /\ full = FALSE
    /\ conn = [c \in Ids |-> "away"] /\ closed = [c \in Ids |-> FALSE]
    /\ sent = [c \in Ids |-> 0] /\ taken = [c \in Ids |-> 0]
    /\ got = [c \in Ids |-> << >>]
    /\ produced = 0 /\ unread = 1
    /\ serialOut = << >>

-----------------------------------------------------------------------------
(* The clients and the board.                                              *)

Running == pc \notin {"ended", "dead"}

(* connect succeeds as soon as the server listens.                         *)
Connect(c) ==
    /\ Running /\ conn[c] = "away" /\ \A b \in Ids : b < c => conn[b] # "away"
    /\ conn' = [conn EXCEPT ![c] = "waiting"]
    /\ UNCHANGED <<thread, closed, up, down>>

(* A client may send and close before it is accepted, but nothing tells    *)
(* this from its doing so right after.                                     *)
ClientSend(c) ==
    /\ Running /\ conn[c] = "served" /\ ~closed[c] /\ sent[c] < MaxUp
    /\ sent' = [sent EXCEPT ![c] = @ + 1]
    /\ UNCHANGED <<thread, conn, closed, taken, serialOut, down>>

ClientClose(c) ==
    /\ Running /\ conn[c] = "served" /\ ~closed[c]
    /\ closed' = [closed EXCEPT ![c] = TRUE]
    /\ UNCHANGED <<thread, conn, up, down>>

BoardSend ==
    /\ Running /\ produced < MaxDown
    /\ produced' = produced + 1
    /\ UNCHANGED <<thread, conn, closed, up, got, unread>>

-----------------------------------------------------------------------------
(* The thread.                                                             *)

Waiting == {c \in Ids : conn[c] = "waiting"}

(* accept; if setNonBlock fails the program ends.                          *)
Accept ==
    /\ pc = "accept"
    /\ \E c \in Waiting :
          /\ \A b \in Waiting : c <= b
          /\ client' = c
          /\ conn' = [conn EXCEPT ![c] = "served"]
    /\ pc' \in {"open", "ended"}
    /\ UNCHANGED <<received_size, buffer, full, closed, up, down>>

(* Slip: the port is opened without a flush.                               *)
OpenSerialSlip ==
    /\ pc = "open" /\ pc' = "size"
    /\ unread' = 1
    /\ UNCHANGED <<client, received_size, buffer, full, conn, closed, up, got, produced>>

(* The constructor of SerialPort discards what is in the input queue.      *)
OpenSerial ==
    /\ pc = "open" /\ pc' = "size"
    /\ unread' = produced + 1
    /\ UNCHANGED <<client, received_size, buffer, full, conn, closed, up, got, produced>>

(* The exceptions of accept and of SerialPort are not caught.              *)
Throws ==
    /\ pc \in {"accept", "open", "size", "read"}
    /\ pc' = "dead"
    /\ UNCHANGED <<client, received_size, buffer, full, conn, closed, up, down>>

Readable == produced + 1 - unread

(* Slip: a select without a timeout.                                       *)
SizeSlip ==
    /\ pc = "size" /\ Readable > 0
    /\ received_size' = IF Readable > Width THEN Width ELSE Readable
    /\ pc' = IF Readable > 0 THEN "read" ELSE "recv"
    /\ UNCHANGED <<client, buffer, full, conn, closed, up, down>>

Size ==
    /\ pc = "size"
    /\ received_size' = IF Readable > Width THEN Width ELSE Readable
    /\ pc' = IF Readable > 0 THEN "read" ELSE "recv"
    /\ UNCHANGED <<client, buffer, full, conn, closed, up, down>>

(* A size on its way through SerialDevice, which takes a uint8_t.          *)
ByteSize(size) == size % Width

(* Slip: whatever is in the queue, a whole buffer of it is asked for.      *)
ReadSlip ==
    /\ pc = "read" /\ pc' = "send"
    /\ buffer' = [i \in 1 .. Width |-> Byte(Board, unread + i - 1)]
    /\ unread' = unread + Width
    /\ full' = (full \/ received_size = Width)
    /\ UNCHANGED <<client, received_size, conn, closed, up, got, produced>>

(* What read returns is only looked at for an error.                       *)
Read ==
    /\ pc = "read" /\ pc' = "send"
    /\ LET size == ByteSize(received_size) IN
       /\ buffer' = [i \in 1 .. Width |-> IF i <= size THEN Byte(Board, unread + i - 1)
                                          ELSE buffer[i]]
       /\ unread' = unread + size
    /\ full' = (full \/ received_size = Width)
    /\ UNCHANGED <<client, received_size, conn, closed, up, got, produced>>

(* Leaving the loop.  The descriptor of the client is not closed.          *)
Drop ==
    /\ pc' = "accept"
    /\ conn' = [conn EXCEPT ![client] = "dropped"]
    /\ received_size' = 0 /\ buffer' = Junk

(* send takes some of the bytes and the rest is forgotten, or takes none   *)
(* because it would block or the connection is broken; on a connection the *)
(* peer has reset it kills the program (SIGPIPE).                          *)
Send ==
    /\ pc = "send"
    /\ \/ /\ \E k \in 1 .. received_size :
                got' = IF full THEN got
                       ELSE [got EXCEPT ![client] = @ \o SubSeq(buffer, 1, k)]
          /\ pc' = "recv"
          /\ UNCHANGED <<received_size, buffer, conn>>
       \/ Drop /\ UNCHANGED got
       \/ closed[client] /\ pc' = "dead" /\ UNCHANGED <<received_size, buffer, conn, got>>
    /\ UNCHANGED <<client, full, closed, up, produced, unread>>

(* recv returns some of the bytes that are there.                          *)
Recv ==
    /\ pc = "recv" /\ pc' = "write"
    /\ \E k \in 1 .. Width :
          /\ k <= sent[client] - taken[client]
          /\ received_size' = k
          /\ buffer' = [i \in 1 .. Width |-> IF i <= k THEN Byte(client, taken[client] + i)
                                             ELSE buffer[i]]
          /\ taken' = [taken EXCEPT ![client] = @ + k]
    /\ UNCHANGED <<client, full, conn, closed, sent, serialOut, down>>

(* The peer has closed its end: recv returns 0, and the loop goes on.      *)
RecvEnd ==
    /\ pc = "recv" /\ closed[client] /\ taken[client] = sent[client]
    /\ received_size' = 0
    /\ pc' = "size"
    /\ UNCHANGED <<client, buffer, full, conn, closed, up, down>>

(* recv returns -1, because nothing has arrived yet or because it failed.  *)
RecvFails ==
    /\ pc = "recv"
    /\ Drop
    /\ UNCHANGED <<client, full, closed, up, down>>

(* Slip: the buffer is written as far as it goes.                          *)
WriteSlip ==
    /\ pc = "write"
    /\ serialOut' = serialOut \o (IF ByteSize(received_size) = 0 THEN << >> ELSE buffer)
    /\ pc' = "size" /\ received_size' = 0
    /\ UNCHANGED <<client, buffer, full, conn, closed, sent, taken, down>>

(* Byte by byte, until one fails.  With a size of 0 what is returned was   *)
(* never assigned, and may pass for an error.                              *)
Write ==
    /\ pc = "write"
    /\ LET size == ByteSize(received_size) IN
       \/ /\ serialOut' = serialOut \o SubSeq(buffer, 1, size)
          /\ pc' = "size" /\ received_size' = 0
          /\ UNCHANGED <<buffer, conn>>
       \/ /\ \E k \in 0 .. size - 1 : serialOut' = serialOut \o SubSeq(buffer, 1, k)
          /\ pc' = "dead"
          /\ UNCHANGED <<received_size, buffer, conn>>
       \/ size = 0 /\ Drop /\ UNCHANGED serialOut
    /\ UNCHANGED <<client, full, closed, sent, taken, down>>

Thread ==
    \/ Accept \/ OpenSerial \/ Size \/ Read \/ Send
    \/ Recv \/ RecvEnd \/ RecvFails \/ Write

Next ==
    \/ \E c \in Ids : Connect(c) \/ ClientSend(c) \/ ClientClose(c)
    \/ BoardSend
    \/ Thread \/ Throws

Spec == Init /\ [][Next]_vars

(* Nothing the thread does waits for anything but a client.                *)
FairSpec == Spec /\ WF_vars(Thread)

-----------------------------------------------------------------------------
(* Properties.                                                             *)

(* b may be written to the port next after a, or first of all if a is of   *)
(* nobody: bytes of one client in their order, those of an earlier client  *)
(* first, and none missing but for a whole number of full buffers.         *)
Follows(a, b) ==
    \/ b.from = a.from /\ b.n > a.n /\ (b.n - a.n - 1) % Width = 0
    \/ b.from > a.from /\ (b.n - 1) % Width = 0

(* What was written to the port is what was received from the clients, one *)
(* after the other, but for full buffers: those vanish as a whole, for     *)
(* their size is 0 to Serial::write.                                       *)
UpInOrder ==
    \A i \in DOMAIN serialOut :
       /\ serialOut[i].from \in Ids
       /\ Follows(IF i = 1 THEN Byte(Board, 1) ELSE serialOut[i - 1], serialOut[i])

(* Until the board has filled the buffer once, what a client gets is the   *)
(* board's bytes in their order, none twice, none that an earlier client   *)
(* got, and nothing that is left in the buffer from the other direction.   *)
DownIsFresh ==
    \A c, d \in Ids : \A i \in DOMAIN got[c], j \in DOMAIN got[d] :
       /\ got[c][i].from = Board
       /\ c < d \/ (c = d /\ i < j) => got[c][i].n < got[d][j].n

(* A client waits for ever only behind one that goes on sending for ever,  *)
(* or that has closed its end, which the bridge does not notice, or        *)
(* because the program has ended: one that falls silent gives way to it.   *)
WaitingIsServed ==
    \A c \in Ids :
       \/ []<>(conn[c] # "waiting" \/ ~Running \/ (client # 0 /\ closed[client]))
       \/ []<><<\E d \in Ids : ClientSend(d)>>_vars

(* What the code's comments and messages say.                              *)

(* "@brief write data to Tx Buffer of Serial Port."                        *)
AllIsWritten ==
    [][pc = "write" /\ pc' = "size" => Len(serialOut') = Len(serialOut) + received_size]_vars
=============================================================================
