----------------------------- MODULE SharedRing -----------------------------
(***************************************************************************)
(* The ring of EtherTcp when several svc threads push into it: opening a   *)
(* second TCP device drops the first without ending its thread, and the    *)
(* ring belongs to the file and not to the object.  RxRing has one pushing *)
(* thread; here buffer_push is taken apart into the loads and stores that  *)
(* an unoptimised build makes, and the main thread takes one byte at a     *)
(* time when the size says that there is one.                              *)
(*                                                                         *)
(* A byte is its place in the order in which the threads received theirs.  *)
(***************************************************************************)
EXTENDS Integers

CONSTANTS
    N,          \* BUFSIZE
    Threads,    \* the EtherTcp objects whose svc runs
    MaxBytes    \* bound on the bytes received

VARIABLES
    buffer, buffer_start, buffer_end,
    svc,        \* where each thread is in buffer_push
    dat,        \* its argument
    loaded,     \* the value of buffer_end a thread has loaded
    received,   \* history: the bytes received by all threads
    last,       \* history: the byte popped most recently
    popped,     \* history: how many were
    mishaps     \* history: what has gone wrong even with one thread: the ring
                \* was full, or a byte popped with the index to be wrapped

vars == <<buffer, buffer_start, buffer_end, svc, dat, loaded,
          received, last, popped, mishaps>>

Slots == 0 .. N - 1

Init ==
    /\ buffer = [i \in Slots |-> 0] /\ buffer_start = 0 /\ buffer_end = 0
    /\ svc = [t \in Threads |-> "recv"]
    /\ dat = [t \in Threads |-> 0] /\ loaded = [t \in Threads |-> 0]
    /\ received = 0 /\ last = 0 /\ popped = 0
    /\ mishaps = {}

get_buffer_size ==
    IF buffer_end >= buffer_start THEN buffer_end - buffer_start ELSE buffer_end - buffer_start + N

Resting == \A t \in Threads : svc[t] = "recv"

-----------------------------------------------------------------------------
Goto(t, here, there) == svc[t] = here /\ svc' = [svc EXCEPT ![t] = there]

Recv(t) ==
    /\ received < MaxBytes
    /\ Goto(t, "recv", "index")
    /\ received' = received + 1
    /\ dat' = [dat EXCEPT ![t] = received']
    /\ mishaps' = mishaps \cup (IF received' - popped >= N THEN {"overflow"} ELSE {})
    /\ UNCHANGED <<buffer, buffer_start, buffer_end, loaded, last, popped>>

LoadEnd(t) ==
    /\ loaded' = [loaded EXCEPT ![t] = buffer_end]
    /\ UNCHANGED <<buffer, buffer_start, buffer_end, dat, received, last, popped, mishaps>>

(* buffer[buffer_end] = dat.  An index past the slots, which another       *)
(* thread has yet to wrap, leads to what lies behind the ring, which this  *)
(* module has not: there the thread goes no further.                       *)
Index(t) == Goto(t, "index", "store") /\ LoadEnd(t)

Store(t) ==
    /\ loaded[t] \in Slots
    /\ Goto(t, "store", "load")
    /\ buffer' = [buffer EXCEPT ![loaded[t]] = dat[t]]
    /\ UNCHANGED <<buffer_start, buffer_end, dat, loaded, received, last, popped, mishaps>>

(* buffer_end++                                                            *)
Load(t) == Goto(t, "load", "advance") /\ LoadEnd(t)

Advance(t) ==
    /\ Goto(t, "advance", "test")
    /\ buffer_end' = loaded[t] + 1
    /\ UNCHANGED <<buffer, buffer_start, dat, loaded, received, last, popped, mishaps>>

(* if (buffer_end >= BUFSIZE) buffer_end = 0                               *)
Test(t) ==
    /\ Goto(t, "test", IF buffer_end >= N THEN "wrap" ELSE "recv")
    /\ UNCHANGED <<buffer, buffer_start, buffer_end, dat, loaded, received, last, popped, mishaps>>

Wrap(t) ==
    /\ Goto(t, "wrap", "recv")
    /\ buffer_end' = 0
    /\ UNCHANGED <<buffer, buffer_start, dat, loaded, received, last, popped, mishaps>>

(* The main thread.                                                        *)
buffer_pop ==
    /\ get_buffer_size > 0 /\ popped < MaxBytes
    /\ mishaps' = mishaps \cup (IF buffer_end >= N THEN {"glimpse"} ELSE {})
    /\ last' = buffer[buffer_start]
    /\ buffer_start' = IF buffer_start + 1 >= N THEN 0 ELSE buffer_start + 1
    /\ popped' = popped + 1
    /\ UNCHANGED <<buffer, buffer_end, svc, dat, loaded, received>>

buffer_push(t) == Index(t) \/ Store(t) \/ Load(t) \/ Advance(t) \/ Test(t) \/ Wrap(t)

Next == buffer_pop \/ \E t \in Threads : Recv(t) \/ buffer_push(t)

Spec == Init /\ [][Next]_vars

-----------------------------------------------------------------------------
(* "Get stored datasize of in Rx Buffer": when no push is under way, the   *)
(* size is what was received and not yet read, whichever thread pushed it, *)
(* unless something went wrong that one thread can do by itself.           *)
PushedIsStored ==
    mishaps = {} /\ Resting => get_buffer_size = received - popped
=============================================================================
