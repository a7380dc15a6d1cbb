------------------------------- MODULE RxRing -------------------------------
(***************************************************************************)
(* The receive side of EtherTcp: a ring of BUFSIZE bytes between the       *)
(* thread that runs svc and the main thread, which polls the stored size   *)
(* in transport_t::read and then calls EtherTcp::read.  There is no lock   *)
(* and no atomic: each step below is one access to what the two share, as  *)
(* the build that CMakeLists.txt describes makes it, which asks for no     *)
(* optimisation.  The ring has no notion of being full: the board sends    *)
(* whenever it likes.                                                      *)
(*                                                                         *)
(* A byte is its place in the stream, so that a loss, a repetition or a    *)
(* reordering shows.                                                       *)
(***************************************************************************)
EXTENDS Integers, Sequences

CONSTANTS
    N,          \* BUFSIZE
    MaxBytes,   \* bound on the bytes the board sends, and on those read
    Forever,    \* sizes read with wait_usec = UINT32_MAX: no deadline
    InOrderStores   \* the main thread sees svc's stores in program order

ASSUME RingAssumption ==
    /\ N \in Nat /\ N >= 2
    /\ MaxBytes \in Nat
    /\ Forever \subseteq 1 .. N - 1
    /\ InOrderStores \in BOOLEAN

VARIABLES
    buffer, buffer_start, buffer_end,
    svc,        \* where the receiving thread is
    byte,       \* the local buf of svc
    pc,         \* where the main thread is
    size,       \* what transport_t::read asks for
    size_read,  \* the local of EtherTcp::read, counted down to zero
    last,       \* history: the byte popped most recently
    popped,     \* history: how many were
    mishaps     \* history: what has gone wrong between the two threads

shared == <<buffer, buffer_start, buffer_end>>
producer == <<svc, byte>>
consumer == <<pc, size, size_read, last, popped>>
vars == <<shared, producer, consumer, mishaps>>

Slots == 0 .. N - 1

(* As many bytes unread as the ring has slots; an empty ring looked at     *)
(* while buffer_end stands at BUFSIZE; a slot read before its byte is in.  *)
Mishaps == {"overflow", "glimpse", "late"}

TypeOK ==
    /\ buffer \in [Slots -> Nat]
    /\ buffer_start \in Slots
    /\ buffer_end \in 0 .. N
    /\ svc \in {"recv", "store", "advance", "wrap", "late", "later"}
    /\ byte \in Nat
    /\ pc \in {"idle", "poll", "check", "clip", "pop"}
    /\ size \in 1 .. N - 1
    /\ size_read \in 0 .. N
    /\ last \in Nat /\ popped \in Nat
    /\ mishaps \subseteq Mishaps

Init ==
    /\ buffer = [i \in Slots |-> 0] /\ buffer_start = 0 /\ buffer_end = 0
    /\ svc = "recv" /\ byte = 0
    /\ pc = "idle" /\ size = 1 /\ size_read = 0
    /\ last = 0 /\ popped = 0
    /\ mishaps = {}

(* Slips of Distance, for the checks of the properties; so are WrappedLate, *)
(* StoreAhead, ReadyOnAny, ReadyOnMore and PopAdvanced below.              *)
DistanceUnwrapped(end) == end - buffer_start
DistanceOffByOne(end) == IF end >= buffer_start THEN end - buffer_start ELSE end - buffer_start + N - 1
DistanceEmptyIsFull(end) == IF end > buffer_start THEN end - buffer_start ELSE end - buffer_start + N

(* get_buffer_size, for an end index that has been read.                   *)
Distance(end) == IF end >= buffer_start THEN end - buffer_start ELSE end - buffer_start + N
get_buffer_size == Distance(buffer_end)

-----------------------------------------------------------------------------
(* The thread of svc.                                                      *)

WrappedLate(i) == IF i > N THEN 0 ELSE i
Wrapped(i) == IF i >= N THEN 0 ELSE i

(* The bytes svc has made visible.                                         *)
Pushed == IF svc \in {"store", "advance"} THEN byte - 1 ELSE byte

(* The slot before the end index: where svc's byte goes.                   *)
OwnSlot == IF buffer_end = 0 THEN N - 1 ELSE buffer_end - 1

(* The socket had a byte: recv returned 1.                                 *)
Recv ==
    /\ svc = "recv" /\ byte < MaxBytes
    /\ byte' = byte + 1
    /\ svc' = "store"
    /\ UNCHANGED <<shared, consumer, mishaps>>

StoreAhead ==
    /\ svc = "store"
    /\ buffer' = [buffer EXCEPT ![Wrapped(buffer_end + 1)] = byte]
    /\ svc' = "advance"
    /\ UNCHANGED <<buffer_start, buffer_end, byte, consumer, mishaps>>

(* buffer[buffer_end] = dat                                                *)
Store ==
    /\ svc = "store"
    /\ buffer' = [buffer EXCEPT ![buffer_end] = byte]
    /\ svc' = "advance"
    /\ UNCHANGED <<buffer_start, buffer_end, byte, consumer, mishaps>>

Increment ==
    /\ buffer_end' = buffer_end + 1
    /\ mishaps' = mishaps \cup (IF byte - popped >= N THEN {"overflow"} ELSE {})
    /\ UNCHANGED <<buffer, buffer_start, byte, consumer>>

(* buffer_end++                                                            *)
Advance ==
    /\ svc = "advance" /\ svc' = "wrap"
    /\ Increment

(* Nothing orders the two stores for the other thread: on a machine that   *)
(* lets stores pass each other it may see the index move first, and even   *)
(* wrap.                                                                   *)
AdvanceFirst ==
    /\ svc = "store" /\ svc' = "late" /\ ~InOrderStores
    /\ Increment

StoreLate ==
    /\ svc \in {"late", "later"}
    /\ buffer' = [buffer EXCEPT ![OwnSlot] = byte]
    /\ svc' = IF svc = "late" THEN "wrap" ELSE "recv"
    /\ UNCHANGED <<buffer_start, buffer_end, byte, consumer, mishaps>>

(* if (buffer_end >= BUFSIZE) buffer_end = 0, a store of its own           *)
Wrap ==
    /\ svc \in {"wrap", "late"}
    /\ buffer_end' = Wrapped(buffer_end)
    /\ svc' = IF svc = "wrap" THEN "recv" ELSE "later"
    /\ UNCHANGED <<buffer, buffer_start, byte, consumer, mishaps>>

Push == Store \/ Advance \/ Wrap \/ AdvanceFirst \/ StoreLate

-----------------------------------------------------------------------------
(* The main thread.  Only it moves buffer_start, and svc never looks at    *)
(* it, so that a pop is one step.                                          *)

(* The sizes of transport_t::read are bytes, and so less than BUFSIZE.     *)
Request(n) ==
    /\ pc = "idle" /\ popped < MaxBytes
    /\ size' = n
    /\ pc' = "poll"
    /\ UNCHANGED <<shared, producer, size_read, last, popped, mishaps>>

(* A look at the size, which the end index gives wrongly at one instant.   *)
Look == mishaps' = mishaps \cup (IF buffer_end = N /\ buffer_start = 0 THEN {"glimpse"} ELSE {})

ReadyOnAny ==
    /\ pc = "poll" /\ get_buffer_size > 0
    /\ pc' = "check"
    /\ Look
    /\ UNCHANGED <<shared, producer, size, size_read, last, popped>>

ReadyOnMore ==
    /\ pc = "poll" /\ get_buffer_size > size
    /\ pc' = "check"
    /\ Look
    /\ UNCHANGED <<shared, producer, size, size_read, last, popped>>

(* getSizeInRxBuffer() >= size                                             *)
Ready ==
    /\ pc = "poll" /\ get_buffer_size >= size
    /\ pc' = "check"
    /\ Look
    /\ UNCHANGED <<shared, producer, size, size_read, last, popped>>

(* The poll came too early, and the deadline has passed.                   *)
TimeOut ==
    /\ pc = "poll" /\ size \notin Forever /\ get_buffer_size < size
    /\ pc' = "idle"
    /\ UNCHANGED <<shared, producer, size, size_read, last, popped, mishaps>>

(* size_read = size; if (size >= get_buffer_size()) ...                    *)
Check ==
    /\ pc = "check"
    /\ size_read' = size
    /\ pc' = IF size >= get_buffer_size THEN "clip" ELSE "pop"
    /\ Look
    /\ UNCHANGED <<shared, producer, size, last, popped>>

(* ... size_read = get_buffer_size(), a second look at the index           *)
Clip ==
    /\ pc = "clip"
    /\ size_read' = get_buffer_size
    /\ pc' = "pop"
    /\ Look
    /\ UNCHANGED <<shared, producer, size, last, popped>>

Popped ==
    /\ popped' = popped + 1
    /\ size_read' = size_read - 1
    /\ mishaps' = mishaps \cup
          (IF svc \in {"late", "later"} /\ buffer_start = OwnSlot THEN {"late"} ELSE {})
    /\ UNCHANGED <<buffer, buffer_end, producer, pc, size>>

PopAdvanced ==
    /\ pc = "pop" /\ size_read > 0
    /\ buffer_start' = Wrapped(buffer_start + 1)
    /\ last' = buffer[buffer_start']
    /\ Popped

buffer_pop ==
    /\ pc = "pop" /\ size_read > 0
    /\ last' = buffer[buffer_start]
    /\ buffer_start' = Wrapped(buffer_start + 1)
    /\ Popped

Finish ==
    /\ pc = "pop" /\ size_read = 0
    /\ pc' = "idle"
    /\ UNCHANGED <<shared, producer, size, size_read, last, popped, mishaps>>

Consumer == Ready \/ TimeOut \/ Check \/ Clip \/ buffer_pop \/ Finish

Next == Recv \/ Push \/ Consumer \/ \E n \in 1 .. N - 1 : Request(n)

Spec == Init /\ [][Next]_vars

(* Both threads run; nothing obliges the board to send.                    *)
FairSpec == Spec /\ WF_vars(Push) /\ WF_vars(Consumer)

-----------------------------------------------------------------------------
(* Properties.  The mishaps are the exceptions each one needs, and no      *)
(* others: what the ring does wrong, it does in these ways.                *)

(* "Get stored datasize of in Rx Buffer": whenever fewer bytes than slots  *)
(* are stored, getSizeInRxBuffer is right, at every instant the other      *)
(* thread may look and whatever has gone wrong before, except between the  *)
(* two index stores of a push whose byte has already been popped.          *)
SizeIsStored ==
    Pushed - popped \in 0 .. N - 1
        => \/ get_buffer_size = Pushed - popped
           \/ buffer_end = N /\ buffer_start = 0

(* Whatever goes wrong with the size, it is wrong by whole rings: the two  *)
(* indices never lose their place.                                         *)
SizeIsCongruent == (get_buffer_size - (Pushed - popped)) % N = 0

(* The bytes come out once each, in the order they went in, however the    *)
(* pops of EtherTcp::read fall between the stores of buffer_push, until    *)
(* the first mishap.                                                       *)
InOrder == mishaps = {} => last = popped

(* EtherTcp::read never hands out a byte that has not arrived, although    *)
(* the size it works with is one it read before: not even when the ring    *)
(* overflows, and only an empty ring that was taken for a full one makes   *)
(* it do so.                                                               *)
NothingUnarrived == "glimpse" \notin mishaps => popped <= Pushed

(* transport_t::read ignores what SerialDevice::read returns: it relies on *)
(* a read never falling short of the size it polled for.  It does so only  *)
(* if the ring overflows in between, or the poll saw a size that was wrong.*)
NeverShort ==
    [][pc # "pop" /\ pc' = "pop" /\ mishaps' \subseteq {"late"} => size_read' >= size]_vars

(* A read that waits for no more than has arrived returns, unless the ring *)
(* overflows.                                                              *)
ArrivedIsRead ==
    (pc = "poll" /\ byte - popped >= size) ~> (pc = "idle" \/ "overflow" \in mishaps)

(* What the comments of the code say.                                      *)

(* "read data from RxBuffer of Serial Port": what read hands out has       *)
(* arrived, even if the ring never was full.                               *)
OnlyArrivedIsRead == "overflow" \notin mishaps => popped <= Pushed

(* The header of a packet is read as its three bytes, "COMMAND, RESULT,    *)
(* length", into an array of three.                                        *)
OnlyWhatWasAsked == pc = "pop" => size_read <= size

-----------------------------------------------------------------------------
(* The ring is a FIFO until the first mishap: what is stored is the slots  *)
(* from the start index up to where the end index will be once it has been *)
(* wrapped, and svc's byte counts from when the index has moved.           *)
Slot(i) == IF buffer_start + i < N THEN buffer_start + i ELSE buffer_start + i - N
Held(s) == IF svc \in {"late", "later"} /\ s = OwnSlot THEN byte ELSE buffer[s]

Stored == [i \in 1 .. Distance(Wrapped(buffer_end)) |-> Held(Slot(i - 1))]

Fifo == INSTANCE ByteFifo WITH stored <- Stored, next <- Pushed + 1, calm <- (mishaps = {})

ImplementsFifo == Fifo!Spec
=============================================================================
