----------------------------- MODULE RingProofs -----------------------------
(***************************************************************************)
(* The ring of EtherTcp, for every capacity and with no assumption on how  *)
(* fast the board sends, how svc's two index stores fall between the looks *)
(* of the main thread, or in which order its stores are seen.  What the    *)
(* code does wrong is in the theorems as mishaps, each with the promises   *)
(* it breaks.                                                              *)
(***************************************************************************)
EXTENDS RxRing, TLAPS

(* buffer_end stands at BUFSIZE only between the increment and the wrap.   *)
EndInRing == buffer_end = N => svc \in {"wrap", "late"}

TypeInv == TypeOK /\ EndInRing

(* The indices as EtherTcp.cpp initialises them.                           *)
LEMMA InitType == Init => TypeInv
  BY RingAssumption DEF Init, TypeInv, TypeOK, EndInRing, Slots, Mishaps

(* The wrapped index of buffer_push is one of a slot.                      *)
LEMMA WrappedInSlots == ASSUME NEW i \in 0 .. N PROVE Wrapped(i) \in Slots
  BY RingAssumption DEF Wrapped, Slots

(* get_buffer_size stays within the ring for any two indices.              *)
LEMMA DistanceInRing ==
  ASSUME TypeOK, NEW e \in 0 .. N
  PROVE  Distance(e) \in 0 .. N
  BY RingAssumption DEF TypeOK, Distance, Slots

(* Every access of either thread keeps the indices in range.               *)
LEMMA NextType == TypeInv /\ [Next]_vars => TypeInv'
<1> SUFFICES ASSUME TypeInv, [Next]_vars PROVE TypeInv'
  OBVIOUS
<1> USE RingAssumption DEF TypeInv, TypeOK, EndInRing, Slots
<1>1. CASE Recv
  BY <1>1 DEF Recv, shared, consumer
<1>2. CASE Store
  BY <1>2 DEF Store, consumer
<1>3. CASE Advance
  BY <1>3 DEF Advance, Increment, consumer, Mishaps
<1>4. CASE Wrap
  BY <1>4 DEF Wrap, Wrapped, consumer
<1>5. CASE AdvanceFirst
  BY <1>5 DEF AdvanceFirst, Increment, consumer, Mishaps
<1>6. CASE StoreLate
  <2>1. buffer' \in [Slots -> Nat] /\ svc' \in {"wrap", "recv"}
    BY <1>6 DEF StoreLate
  <2>2. svc' = "recv" => buffer_end # N
    BY <1>6 DEF StoreLate
  <2> QED
    BY <1>6, <2>1, <2>2 DEF StoreLate, consumer
<1>7. CASE Ready
  BY <1>7 DEF Ready, Look, shared, producer, Mishaps
<1>8. CASE TimeOut
  BY <1>8 DEF TimeOut, shared, producer
<1>9. CASE Check
  BY <1>9 DEF Check, Look, shared, producer, Mishaps
<1>10. CASE Clip
  <2>1. get_buffer_size \in 0 .. N
    BY DistanceInRing DEF get_buffer_size
  <2> QED
    BY <1>10, <2>1 DEF Clip, Look, shared, producer, Mishaps
<1>11. CASE buffer_pop
  <2>1. buffer_start' \in Slots
    BY <1>11, WrappedInSlots DEF buffer_pop
  <2>2. last' \in Nat /\ popped' \in Nat /\ size_read' \in 0 .. N
    BY <1>11 DEF buffer_pop, Popped
  <2>3. mishaps' \subseteq Mishaps
    BY <1>11 DEF buffer_pop, Popped, Mishaps
  <2> QED
    BY <1>11, <2>1, <2>2, <2>3 DEF buffer_pop, Popped, producer
<1>12. CASE Finish
  BY <1>12 DEF Finish, shared, producer
<1>13. ASSUME NEW n \in 1 .. N - 1, Request(n) PROVE TypeInv'
  BY <1>13 DEF Request, shared, producer
<1>14. CASE UNCHANGED vars
  BY <1>14 DEF vars, shared, producer, consumer
<1> QED
  BY <1>1, <1>2, <1>3, <1>4, <1>5, <1>6, <1>7, <1>8, <1>9, <1>10, <1>11, <1>12,
     <1>13, <1>14 DEF Next, Push, Consumer

(* Type correctness: both indices stay where they may be, however the      *)
(* accesses of svc and of the main thread interleave.                      *)
THEOREM TypeCorrect == Spec => []TypeOK
<1>1. TypeInv => TypeOK
  BY DEF TypeInv
<1> QED
  BY InitType, NextType, <1>1, PTL DEF Spec

-----------------------------------------------------------------------------
(* The size, as far as it is right whatever happens: by whole rings.  Each *)
(* step moves it by what it stores or pops, or by that and a whole ring.   *)

(* One ring more or less is still a whole number of rings.                 *)
LEMMA WholeRings ==
    ASSUME NEW x \in Int, x % N = 0, NEW y \in {x, x + N, x - N}
    PROVE  y % N = 0
<1>w. N \in Nat \ {0}
  BY RingAssumption
<1> DEFINE q == x \div N
<1>1. q \in Int /\ x = N * q
  BY <1>w
<1>2. x + N = N * (q + 1) /\ x - N = N * (q - 1)
  BY <1>1, <1>w
<1>3. ASSUME NEW z \in Int, NEW r \in Int, z = N * r PROVE z % N = 0
  BY <1>3, <1>w
<1>4. x + N \in Int /\ q + 1 \in Int /\ x - N \in Int /\ q - 1 \in Int
  BY <1>1, <1>w
<1> HIDE DEF q
<1>5. (x + N) % N = 0 /\ (x - N) % N = 0
  BY <1>2, <1>3, <1>4
<1> QED
  BY <1>5

(* A whole number of rings, short of one ring down and at most one up, is  *)
(* none or one.                                                            *)
LEMMA NoneOrOne ==
    ASSUME NEW x \in Int, x % N = 0, -N < x, x <= N
    PROVE  x = 0 \/ x = N
<1>w. N \in Nat \ {0}
  BY RingAssumption
<1> DEFINE q == x \div N
<1>1. q \in Int /\ x = N * q
  BY <1>w
<1> HIDE DEF q
<1>2. q <= -1 => N * q <= -N
  BY <1>1, <1>w
<1>3. q >= 2 => N * q >= N + N
  BY <1>1, <1>w
<1>4. q = 0 \/ q = 1
  BY <1>1, <1>2, <1>3, <1>w
<1> QED
  BY <1>1, <1>4, <1>w

(* Every access keeps the indices congruent to the numbers of bytes pushed *)
(* and popped.                                                             *)
LEMMA NextCongruent == TypeInv /\ SizeIsCongruent /\ [Next]_vars => SizeIsCongruent'
<1> SUFFICES ASSUME TypeInv, SizeIsCongruent, [Next]_vars PROVE SizeIsCongruent'
  OBVIOUS
<1> USE RingAssumption
<1>t. /\ N \in Nat /\ N >= 2 /\ byte \in Nat /\ popped \in Nat
      /\ buffer_start \in Slots /\ buffer_end \in 0 .. N
      /\ buffer_end = N => svc \in {"wrap", "late"}
      /\ get_buffer_size \in 0 .. N
  BY DistanceInRing DEF TypeInv, TypeOK, EndInRing, get_buffer_size
<1> DEFINE error == get_buffer_size - (Pushed - popped)
<1>e. error \in Int /\ error % N = 0
  BY <1>t DEF SizeIsCongruent, Pushed
<1>m. ASSUME error' = error \/ error' = error + N \/ error' = error - N PROVE SizeIsCongruent'
  <2>1. SizeIsCongruent' <=> error' % N = 0
    BY DEF SizeIsCongruent
  <2> HIDE DEF error
  <2> QED
    BY <1>e, <1>m, <2>1, WholeRings
<1>1. CASE Recv
  BY <1>1, <1>t, <1>m DEF Recv, shared, consumer, get_buffer_size, Distance, Pushed
<1>2. CASE Store \/ StoreLate
  BY <1>2, <1>t, <1>m DEF Store, StoreLate, consumer, get_buffer_size, Distance, Pushed
<1>3. CASE Advance \/ AdvanceFirst
  <2>1. /\ svc \in {"store", "advance"} /\ svc' \in {"wrap", "late"}
        /\ UNCHANGED <<byte, popped, buffer_start>>
        /\ buffer_end' = buffer_end + 1
    BY <1>3 DEF Advance, AdvanceFirst, Increment, consumer
  <2>2. Pushed' = Pushed + 1 /\ popped' = popped /\ Pushed \in Int
    BY <1>t, <2>1 DEF Pushed
  <2>3. get_buffer_size' = get_buffer_size + 1 \/ get_buffer_size' = get_buffer_size + 1 - N
    BY <1>t, <2>1 DEF get_buffer_size, Distance, Slots
  <2>4. error' = error \/ error' = error - N
    BY <1>t, <2>2, <2>3
  <2> QED
    BY <1>m, <2>4
<1>4. CASE Wrap
  <2>1. /\ UNCHANGED <<byte, popped, buffer_start>> /\ Pushed' = Pushed /\ Pushed \in Int
        /\ buffer_end' = Wrapped(buffer_end)
    BY <1>4, <1>t DEF Wrap, consumer, Pushed
  <2>2. get_buffer_size' = get_buffer_size \/ get_buffer_size' = get_buffer_size - N
    BY <1>t, <2>1 DEF get_buffer_size, Distance, Wrapped, Slots
  <2>3. error' = error \/ error' = error - N
    BY <1>t, <2>1, <2>2
  <2> QED
    BY <1>m, <2>3
<1>5. CASE buffer_pop
  <2>1. /\ UNCHANGED <<byte, svc, buffer_end>> /\ Pushed' = Pushed /\ Pushed \in Int
        /\ buffer_start' = Wrapped(buffer_start + 1) /\ popped' = popped + 1
    BY <1>5, <1>t DEF buffer_pop, Popped, producer, Pushed
  <2>2. get_buffer_size' = get_buffer_size - 1 \/ get_buffer_size' = get_buffer_size - 1 + N
    BY <1>t, <2>1 DEF get_buffer_size, Distance, Wrapped, Slots
  <2>3. error' = error \/ error' = error + N
    BY <1>t, <2>1, <2>2
  <2> QED
    BY <1>m, <2>3
<1>6. CASE Ready \/ TimeOut \/ Check \/ Clip \/ Finish \/ (\E n \in 1 .. N - 1 : Request(n))
           \/ UNCHANGED vars
  <2>1. UNCHANGED <<shared, producer, popped>>
    BY <1>6 DEF Ready, TimeOut, Check, Clip, Finish, Request, vars, consumer
  <2>2. error' = error
    BY <2>1 DEF shared, producer, get_buffer_size, Distance, Pushed
  <2> QED
    BY <1>m, <2>2
<1> QED
  BY <1>1, <1>2, <1>3, <1>4, <1>5, <1>6 DEF Next, Push, Consumer

SizeInv == TypeInv /\ SizeIsCongruent

(* The ring is empty at first.                                             *)
LEMMA InitSize == Init => SizeInv
<1> SUFFICES ASSUME Init PROVE SizeInv
  OBVIOUS
<1>1. 0 % N = 0
  BY RingAssumption
<1>2. get_buffer_size = 0 /\ Pushed = 0 /\ popped = 0
  BY RingAssumption DEF Init, get_buffer_size, Distance, Pushed
<1>3. get_buffer_size - (Pushed - popped) = 0
  BY <1>2
<1> QED
  BY <1>1, <1>3, InitType DEF SizeInv, SizeIsCongruent

(* Together the two are inductive.                                         *)
LEMMA NextSize == SizeInv /\ [Next]_vars => SizeInv'
  BY NextType, NextCongruent DEF SizeInv

(* However full the ring, the size that is reported is wrong by whole      *)
(* rings at most: svc and the pops never lose their places.                *)
THEOREM PlacesKept == Spec => []SizeIsCongruent
<1>1. SizeInv => SizeIsCongruent
  BY DEF SizeInv
<1> QED
  BY InitSize, NextSize, <1>1, PTL DEF Spec

(* When fewer bytes than slots are stored the size is right, or a whole    *)
(* ring too large between the two stores of buffer_end.                    *)
LEMMA SizeWhenStored == SizeInv => SizeIsStored
<1> SUFFICES ASSUME SizeInv, Pushed - popped \in 0 .. N - 1,
                    ~(buffer_end = N /\ buffer_start = 0)
             PROVE  get_buffer_size = Pushed - popped
  BY DEF SizeIsStored
<1> USE RingAssumption
<1>1. /\ byte \in Nat /\ popped \in Nat /\ Pushed \in Int /\ N \in Nat
      /\ get_buffer_size \in 0 .. N - 1
  BY DEF SizeInv, TypeInv, TypeOK, Slots, get_buffer_size, Distance, Pushed
<1> DEFINE error == get_buffer_size - (Pushed - popped)
<1>2. error \in Int /\ error % N = 0 /\ -N < error /\ error < N
  BY <1>1 DEF SizeInv, SizeIsCongruent
<1>3. error = 0
  <2> HIDE DEF error
  <2> QED
    BY <1>1, <1>2, NoneOrOne
<1> QED
  BY <1>1, <1>3

(* Whatever has gone wrong before, the size of a ring with room in it is   *)
(* right, at every instant but one.                                        *)
THEOREM SizeCorrect == Spec => []SizeIsStored
  BY InitSize, NextSize, SizeWhenStored, PTL DEF Spec

-----------------------------------------------------------------------------
(* A read in progress, as long as no empty ring was taken for a full one.  *)

(* What EtherTcp::read still has to pop has arrived.                       *)
Arrived ==
    "glimpse" \notin mishaps
        => popped <= Pushed /\ (pc = "pop" => popped + size_read <= Pushed)

EarlyInv == SizeInv /\ Arrived

(* A size that was read, and not at the wrong instant, is of bytes that    *)
(* are there: an overfull ring reports less than it holds.                 *)
LEMMA SeenIsThere ==
  ASSUME SizeInv, popped <= Pushed, ~(buffer_end = N /\ buffer_start = 0)
  PROVE  get_buffer_size <= Pushed - popped
<1>1. byte \in Nat /\ popped \in Nat /\ Pushed \in Int /\ N \in Nat
      /\ get_buffer_size \in 0 .. N
  BY RingAssumption, DistanceInRing DEF SizeInv, TypeInv, TypeOK, get_buffer_size, Pushed
<1>2. CASE Pushed - popped \in 0 .. N - 1
  BY <1>1, <1>2, SizeWhenStored DEF SizeIsStored
<1>3. CASE Pushed - popped >= N
  BY <1>1, <1>3
<1> QED
  BY <1>1, <1>2, <1>3

(* The steps of svc and of the poll only add to what a read may take.      *)
LEMMA NextArrived == EarlyInv /\ [Next]_vars => EarlyInv'
<1> SUFFICES ASSUME EarlyInv, [Next]_vars, "glimpse" \notin mishaps'
             PROVE  popped' <= Pushed' /\ (pc' = "pop" => popped' + size_read' <= Pushed')
  BY NextSize DEF EarlyInv, Arrived
<1> USE RingAssumption
<1>t. /\ byte \in Nat /\ popped \in Nat /\ size \in 1 .. N - 1 /\ size_read \in 0 .. N
      /\ get_buffer_size \in 0 .. N /\ N \in Nat /\ Pushed \in Int
  BY DistanceInRing DEF EarlyInv, SizeInv, TypeInv, TypeOK, get_buffer_size, Pushed
<1>g. "glimpse" \notin mishaps
  BY DEF Next, Recv, Push, Store, Advance, Wrap, AdvanceFirst, StoreLate, Increment, Consumer,
         Ready, TimeOut, Check, Clip, buffer_pop, Popped, Finish, Request, Look, vars
<1>a. popped <= Pushed /\ (pc = "pop" => popped + size_read <= Pushed)
  BY <1>g DEF EarlyInv, Arrived
<1>1. CASE Recv \/ Push \/ UNCHANGED vars
  <2>1. UNCHANGED <<popped, size_read, pc>> /\ Pushed' >= Pushed
    BY <1>1, <1>t DEF Recv, Push, Store, Advance, Wrap, AdvanceFirst, StoreLate, Increment,
                      Pushed, vars, consumer, producer
  <2>2. Pushed' \in Int
    BY <1>1, <1>t DEF Recv, Push, Store, Advance, Wrap, AdvanceFirst, StoreLate, Increment,
                      Pushed, vars, producer
  <2> QED
    BY <1>a, <1>t, <2>1, <2>2
<1>2. CASE Ready \/ TimeOut \/ Finish \/ \E n \in 1 .. N - 1 : Request(n)
  BY <1>2, <1>a DEF Ready, TimeOut, Finish, Request, producer, Pushed
<1>3. CASE Check \/ Clip
  <2>1. ~(buffer_end = N /\ buffer_start = 0)
    BY <1>3 DEF Check, Clip, Look
  <2>2. get_buffer_size <= Pushed - popped
    BY <2>1, <1>a, SeenIsThere DEF EarlyInv
  <2>3. popped' = popped /\ Pushed' = Pushed /\ (pc' = "pop" => size_read' <= get_buffer_size)
    BY <1>3, <1>t DEF Check, Clip, Pushed, producer
  <2>4. size_read' \in Int
    BY <1>3, <1>t DEF Check, Clip
  <2>5. ASSUME pc' = "pop" PROVE popped + size_read' <= Pushed
    <3>1. size_read' <= get_buffer_size
      BY <2>3, <2>5
    <3>2. size_read' <= Pushed - popped
      BY <1>t, <2>2, <2>4, <3>1
    <3>3. ASSUME NEW a \in Int, NEW b \in Int, NEW c \in Int, c <= b - a PROVE a + c <= b
      BY <3>3
    <3>4. popped \in Int /\ Pushed \in Int /\ size_read' \in Int
      BY <1>t, <2>4
    <3>5. size_read' <= Pushed - popped => popped + size_read' <= Pushed
      BY <3>3, <3>4
    <3> QED
      BY <3>2, <3>5
  <2> QED
    BY <1>a, <2>3, <2>5
<1>4. CASE buffer_pop
  BY <1>4, <1>a, <1>t DEF buffer_pop, Popped, producer, Pushed
<1> QED
  BY <1>1, <1>2, <1>3, <1>4 DEF Next, Consumer

(* EtherTcp::read hands out no byte that has not arrived, in a ring of any *)
(* fill level, unless an empty one was looked at between the two stores of *)
(* its end index.                                                          *)
THEOREM NothingEarly == Spec => []NothingUnarrived
<1>1. Init => EarlyInv
  BY InitSize DEF Init, EarlyInv, Arrived, Pushed
<1>2. EarlyInv => NothingUnarrived
  BY DEF EarlyInv, Arrived, NothingUnarrived
<1> QED
  BY NextArrived, <1>1, <1>2, PTL DEF Spec

-----------------------------------------------------------------------------
(* A read that follows a poll, as long as the ring does not overflow       *)
(* either.                                                                 *)

Clear == mishaps \subseteq {"late"}

Ample ==
    Clear => /\ Pushed - popped < N
             /\ pc \in {"check", "clip"} => size <= Pushed - popped

FullInv == EarlyInv /\ Ample

(* With fewer bytes than slots, a look at another instant is right.        *)
LEMMA SeenIsStored ==
  ASSUME FullInv, Clear, ~(buffer_end = N /\ buffer_start = 0)
  PROVE  get_buffer_size = Pushed - popped
<1>1. byte \in Nat /\ popped \in Nat /\ Pushed \in Int /\ N \in Nat
  BY RingAssumption DEF FullInv, EarlyInv, SizeInv, TypeInv, TypeOK, Pushed
<1>2. "glimpse" \notin mishaps
  BY DEF Clear
<1>3. popped <= Pushed /\ Pushed - popped < N
  BY <1>2 DEF FullInv, EarlyInv, Arrived, Ample
<1>4. Pushed - popped \in 0 .. N - 1
  BY <1>1, <1>3
<1> QED
  BY <1>4, SizeWhenStored DEF FullInv, EarlyInv, SizeIsStored

(* What has gone wrong stays gone wrong.                                   *)
LEMMA MishapsStay == [Next]_vars => mishaps \subseteq mishaps'
  BY DEF Next, Recv, Push, Store, Advance, Wrap, AdvanceFirst, StoreLate, Increment, Consumer,
         Ready, TimeOut, Check, Clip, buffer_pop, Popped, Finish, Request, Look, vars

(* Nobody but the main thread takes bytes out, so that what was polled for *)
(* is still there when it is read.                                         *)
LEMMA NextAmple == FullInv /\ [Next]_vars => FullInv'
<1> SUFFICES ASSUME FullInv, [Next]_vars, Clear'
             PROVE  /\ Pushed' - popped' < N
                    /\ pc' \in {"check", "clip"} => size' <= Pushed' - popped'
  BY NextArrived DEF FullInv, Ample
<1> USE RingAssumption
<1>t. /\ byte \in Nat /\ popped \in Nat /\ size \in 1 .. N - 1
      /\ get_buffer_size \in 0 .. N /\ N \in Nat /\ Pushed \in Int
  BY DistanceInRing DEF FullInv, EarlyInv, SizeInv, TypeInv, TypeOK, get_buffer_size, Pushed
<1>c. Clear
  BY MishapsStay DEF Clear
<1>a. /\ Pushed - popped < N
      /\ pc \in {"check", "clip"} => size <= Pushed - popped
  BY <1>c DEF FullInv, Ample
<1>1. CASE Recv \/ Store \/ Wrap \/ StoreLate \/ UNCHANGED vars
  BY <1>1, <1>a, <1>t
  DEF Recv, Store, Wrap, StoreLate, Pushed, vars, consumer, producer
<1>2. CASE Advance \/ AdvanceFirst
  <2>1. byte - popped < N
    BY <1>2, <1>t DEF Advance, AdvanceFirst, Increment, Clear
  <2>2. Pushed' = byte /\ Pushed = byte - 1 /\ UNCHANGED <<popped, pc, size>>
    BY <1>2 DEF Advance, AdvanceFirst, Increment, Pushed, consumer
  <2> QED
    BY <1>a, <1>t, <2>1, <2>2
<1>3. CASE Ready
  <2>1. ~(buffer_end = N /\ buffer_start = 0)
    BY <1>3 DEF Ready, Look, Clear
  <2>2. get_buffer_size = Pushed - popped
    BY <2>1, <1>c, SeenIsStored
  <2> QED
    BY <1>3, <1>a, <2>2 DEF Ready, producer, Pushed
<1>4. CASE TimeOut \/ Check \/ Clip \/ Finish \/ \E n \in 1 .. N - 1 : Request(n)
  BY <1>4, <1>a DEF TimeOut, Check, Clip, Finish, Request, producer, Pushed
<1>5. CASE buffer_pop
  BY <1>5, <1>a, <1>t DEF buffer_pop, Popped, producer, Pushed
<1> QED
  BY <1>1, <1>2, <1>3, <1>4, <1>5 DEF Next, Push, Consumer

(* The ring holds nothing at first.                                        *)
LEMMA InitFull == Init => FullInv
  BY RingAssumption, InitSize DEF Init, FullInv, EarlyInv, Arrived, Ample, Pushed

(* A read falls short of the size that transport_t::read polled for only   *)
(* after an overflow, or after a look at the one wrong instant.            *)
THEOREM ReadsInFull == Spec => NeverShort
<1>1. FullInv /\ [Next]_vars
        => [pc # "pop" /\ pc' = "pop" /\ mishaps' \subseteq {"late"} => size_read' >= size]_vars
  <2> SUFFICES ASSUME FullInv, Next, pc # "pop", pc' = "pop", mishaps' \subseteq {"late"}
               PROVE  size_read' >= size
    OBVIOUS
  <2>0. size \in 1 .. N - 1 /\ N \in Nat
    BY RingAssumption DEF FullInv, EarlyInv, SizeInv, TypeInv, TypeOK
  <2>c. Clear
    BY MishapsStay DEF Clear
  <2>1. CASE Check
    BY <2>1, <2>0 DEF Check
  <2>2. CASE Clip
    <3>1. ~(buffer_end = N /\ buffer_start = 0)
      BY <2>2 DEF Clip, Look
    <3>2. get_buffer_size = Pushed - popped
      BY <3>1, <2>c, SeenIsStored
    <3> QED
      BY <2>2, <2>c, <3>2 DEF Clip, FullInv, Ample
  <2>3. Check \/ Clip
    BY DEF Next, Recv, Push, Store, Advance, Wrap, AdvanceFirst, StoreLate, Increment, Consumer,
           consumer, Ready, TimeOut, buffer_pop, Popped, Finish, Request
  <2> QED
    BY <2>1, <2>2, <2>3
<1> QED
  BY InitFull, NextAmple, <1>1, PTL DEF Spec, NeverShort

-----------------------------------------------------------------------------
(* The order, until the first mishap.  The slots from start to end hold    *)
(* the bytes that follow the one popped last, counting the byte that svc   *)
(* is late to store, and svc's own slot holds its byte before it counts.   *)

(* The bytes stored, once the end index will have been wrapped.            *)
Count == Distance(Wrapped(buffer_end))

SlotsHold ==
    \A s \in Slots : Distance(s) < Count => Held(s) = popped + Distance(s) + 1
OwnSlotHolds == svc = "advance" => buffer[buffer_end] = byte

Ordered == mishaps = {} => InOrder /\ SlotsHold /\ OwnSlotHolds

OrderInv == FullInv /\ Ordered

(* Without a mishap the wrapped end index always gives the right size, and *)
(* a read takes no more than that.                                         *)
LEMMA CountIsStored ==
  ASSUME FullInv, mishaps = {}
  PROVE  /\ Count = Pushed - popped /\ Count \in 0 .. N - 1
         /\ pc = "pop" => size_read <= Count
<1> USE RingAssumption
<1>1. /\ byte \in Nat /\ popped \in Nat /\ Pushed \in Int /\ N \in Nat
      /\ buffer_start \in Slots /\ buffer_end \in 0 .. N
      /\ get_buffer_size \in 0 .. N /\ size_read \in 0 .. N
  BY DistanceInRing DEF FullInv, EarlyInv, SizeInv, TypeInv, TypeOK, get_buffer_size, Pushed
<1>2. /\ popped <= Pushed /\ Pushed - popped < N
      /\ pc = "pop" => popped + size_read <= Pushed
  BY DEF FullInv, EarlyInv, Arrived, Ample, Clear
<1>3. Count \in 0 .. N - 1
  BY <1>1 DEF Count, Distance, Wrapped, Slots
<1>4. Count = get_buffer_size \/ Count = get_buffer_size - N
  BY <1>1 DEF Count, get_buffer_size, Distance, Wrapped, Slots
<1> DEFINE error == get_buffer_size - (Pushed - popped)
<1>5. error \in Int /\ error % N = 0 /\ -N < error /\ error <= N
  BY <1>1, <1>2 DEF FullInv, EarlyInv, SizeInv, SizeIsCongruent
<1>6. error = 0 \/ error = N
  <2> HIDE DEF error
  <2> QED
    BY <1>5, NoneOrOne
<1>7. Count = Pushed - popped
  BY <1>1, <1>2, <1>3, <1>4, <1>6
<1> QED
  BY <1>1, <1>2, <1>3, <1>7

(* The wrap does not move what it counts.                                  *)
LEMMA WrapKeepsCount ==
  ASSUME TypeInv, Wrap
  PROVE  Count' = Count /\ (svc = "late" => OwnSlot' = OwnSlot)
  BY RingAssumption DEF TypeInv, TypeOK, Slots, Wrap, Count, Distance, Wrapped, OwnSlot

(* A pop makes the distance to any end index smaller by one, around the    *)
(* ring.                                                                   *)
LEMMA DistanceAfterPop ==
  ASSUME TypeOK, NEW e \in Slots, buffer_start' = Wrapped(buffer_start + 1)
  PROVE  Distance(e)' = IF e = buffer_start THEN N - 1 ELSE Distance(e) - 1
  BY RingAssumption DEF TypeOK, Slots, Distance, Wrapped

(* Nothing is stored at first.                                             *)
LEMMA InitOrder == Init => OrderInv
<1> SUFFICES ASSUME Init PROVE OrderInv
  OBVIOUS
<1>1. InOrder /\ OwnSlotHolds
  BY DEF Init, InOrder, OwnSlotHolds
<1>2. SlotsHold
  BY RingAssumption DEF Init, SlotsHold, Slots, Count, Distance, Wrapped
<1> QED
  BY <1>1, <1>2, InitFull DEF OrderInv, Ordered

(* Every access that is no mishap keeps the stored bytes a run of the      *)
(* stream.                                                                 *)
LEMMA NextOrder == OrderInv /\ [Next]_vars => OrderInv'
<1> SUFFICES ASSUME OrderInv, [Next]_vars, mishaps' = {}
             PROVE  InOrder' /\ SlotsHold' /\ OwnSlotHolds'
  BY NextAmple DEF OrderInv, Ordered
<1> USE RingAssumption
<1>c. mishaps = {}
  BY MishapsStay
<1>n. FullInv /\ FullInv'
  BY NextAmple DEF OrderInv
<1>t. /\ buffer \in [Slots -> Nat] /\ buffer_start \in Slots /\ buffer_end \in 0 .. N
      /\ buffer_end = N => svc \in {"wrap", "late"}
      /\ byte \in Nat /\ popped \in Nat /\ N \in Nat /\ N >= 2
      /\ Count = Pushed - popped /\ Count \in 0 .. N - 1
      /\ pc = "pop" => size_read <= Count
  BY <1>c, <1>n, CountIsStored DEF FullInv, EarlyInv, SizeInv, TypeInv, TypeOK, EndInRing
<1>u. Count' = Pushed' - popped' /\ Count' \in 0 .. N - 1
  <2>1. FullInv /\ mishaps = {} => Count = Pushed - popped /\ Count \in 0 .. N - 1
    BY CountIsStored
  <2>2. (FullInv /\ mishaps = {} => Count = Pushed - popped /\ Count \in 0 .. N - 1)'
    BY <1>n, CountIsStored, PTL
  <2> QED
    BY <1>n, <2>2
<1>o. last = popped /\ SlotsHold /\ OwnSlotHolds
  BY <1>c DEF OrderInv, Ordered, InOrder
<1>1. CASE Recv \/ Ready \/ TimeOut \/ Check \/ Clip \/ Finish
           \/ (\E n \in 1 .. N - 1 : Request(n)) \/ UNCHANGED vars
  <2>1. UNCHANGED <<shared, last, popped>>
        /\ (svc' = "advance" => svc = "advance" /\ byte' = byte)
        /\ (svc \in {"late", "later"} => svc' = svc /\ byte' = byte)
        /\ (svc' \in {"late", "later"} => svc' = svc)
    BY <1>1 DEF Recv, Ready, TimeOut, Check, Clip, Finish, Request, vars, producer, consumer
  <2>2. \A s \in Slots : Held(s)' = Held(s) /\ Distance(s)' = Distance(s)
    BY <2>1 DEF Held, OwnSlot, shared, Distance
  <2>3. Count' = Count
    BY <2>1 DEF Count, Distance, Wrapped, shared
  <2> QED
    BY <1>o, <2>1, <2>2, <2>3 DEF SlotsHold, OwnSlotHolds, InOrder, shared
<1>2. CASE Store
  <2>1. \A s \in Slots : Distance(s) < Count => s # buffer_end
    BY <1>2, <1>t DEF Store, Count, Wrapped, Slots
  <2>2. \A s \in Slots : Distance(s)' = Distance(s) /\ Count' = Count
    BY <1>2 DEF Store, Count, Distance, Wrapped
  <2>3. \A s \in Slots : s # buffer_end => Held(s)' = Held(s)
    BY <1>2, <1>t DEF Store, Held
  <2>4. SlotsHold'
    BY <1>2, <1>o, <2>1, <2>2, <2>3 DEF Store, SlotsHold, consumer
  <2>5. OwnSlotHolds' /\ InOrder'
    BY <1>2, <1>t, <1>o DEF Store, OwnSlotHolds, InOrder, consumer, Slots
  <2> QED
    BY <2>4, <2>5
<1>3. CASE Advance \/ AdvanceFirst
  <2>1. /\ buffer_end' = buffer_end + 1 /\ svc \in {"store", "advance"}
        /\ svc' \in {"wrap", "late"} /\ (svc' = "wrap" => svc = "advance")
        /\ UNCHANGED <<buffer, buffer_start, byte, popped, last>>
    BY <1>3 DEF Advance, AdvanceFirst, Increment, consumer
  <2>2. Count' = Count + 1
    BY <1>t, <1>u, <2>1 DEF Pushed
  <2>3. \A s \in Slots : Distance(s) = Count => s = buffer_end
    BY <1>t, <2>1 DEF Count, Distance, Slots, Wrapped
  <2>4. \A s \in Slots : s = buffer_end => Held(s)' = byte
    BY <1>t, <1>o, <2>1 DEF Held, OwnSlot, OwnSlotHolds, Slots
  <2>5. \A s \in Slots : s # buffer_end => Held(s)' = Held(s)
    BY <1>t, <2>1 DEF Held, OwnSlot, Slots
  <2>6. byte = popped + Count + 1
    BY <1>t, <2>1 DEF Pushed
  <2>7. \A s \in Slots : Distance(s) \in Nat /\ Distance(s)' = Distance(s)
    BY <1>t, <2>1 DEF Distance, Slots
  <2>8. SlotsHold'
    <3>1. ASSUME NEW s \in Slots, Distance(s) < Count + 1
          PROVE  Held(s)' = popped + Distance(s) + 1
      <4>1. CASE s = buffer_end
        <5>1. Distance(s) = Count
          BY <4>1, <1>t, <2>1 DEF Count, Wrapped, Slots
        <5> QED
          BY <4>1, <5>1, <2>4, <2>6
      <4>2. CASE s # buffer_end
        <5>1. Distance(s) < Count
          BY <4>2, <3>1, <1>t, <2>3, <2>7
        <5> QED
          BY <4>2, <5>1, <1>o, <2>5 DEF SlotsHold
      <4> QED
        BY <4>1, <4>2
    <3> QED
      BY <2>1, <2>2, <2>7, <3>1 DEF SlotsHold
  <2> QED
    BY <1>o, <2>1, <2>8 DEF OwnSlotHolds, InOrder
<1>4. CASE Wrap
  <2>1. Count' = Count /\ (svc = "late" => OwnSlot' = OwnSlot)
    BY <1>4, <1>n, WrapKeepsCount DEF FullInv, EarlyInv, SizeInv
  <2>2. \A s \in Slots : Held(s)' = Held(s) /\ Distance(s)' = Distance(s)
    BY <1>4, <2>1 DEF Wrap, Held, Distance
  <2>3. SlotsHold'
    BY <1>4, <1>o, <2>1, <2>2 DEF Wrap, SlotsHold, consumer
  <2> QED
    BY <1>4, <1>o, <2>3 DEF Wrap, OwnSlotHolds, InOrder, consumer
<1>5. CASE StoreLate
  <2>1. OwnSlot \in Slots
    BY <1>t DEF OwnSlot, Slots
  <2>2. \A s \in Slots : Held(s)' = Held(s) /\ Distance(s)' = Distance(s)
    BY <1>5, <1>t, <2>1 DEF StoreLate, Held, Distance
  <2>3. Count' = Count
    BY <1>5 DEF StoreLate, Count, Distance, Wrapped
  <2>4. SlotsHold'
    BY <1>5, <1>o, <2>2, <2>3 DEF StoreLate, SlotsHold, consumer
  <2> QED
    BY <1>5, <1>o, <2>4 DEF StoreLate, OwnSlotHolds, InOrder, consumer
<1>6. CASE buffer_pop
  <2>1. Count > 0 /\ Count' = Count - 1
    BY <1>6, <1>t, <1>u DEF buffer_pop, Popped, producer, Pushed, FullInv, EarlyInv,
       SizeInv, TypeInv, TypeOK, OrderInv
  <2>2. \A s \in Slots : /\ Distance(s) \in Nat /\ Distance(s) < N
                         /\ Distance(s)' = IF s = buffer_start THEN N - 1 ELSE Distance(s) - 1
    BY <1>6, <1>t, <1>n, DistanceAfterPop
    DEF buffer_pop, FullInv, EarlyInv, SizeInv, TypeInv, Distance, Slots
  <2>3. Distance(buffer_start) = 0 /\ Held(buffer_start) = buffer[buffer_start]
    <3>1. ~(svc \in {"late", "later"} /\ buffer_start = OwnSlot)
      BY <1>6 DEF buffer_pop, Popped
    <3> QED
      BY <1>t, <3>1 DEF Held, Distance, Slots
  <2>4. last' = popped'
    BY <1>6, <1>t, <1>o, <2>1, <2>3 DEF buffer_pop, Popped, SlotsHold
  <2>5. \A s \in Slots : Held(s)' = Held(s)
    BY <1>6 DEF buffer_pop, Popped, producer, Held, OwnSlot
  <2>6. SlotsHold'
    BY <1>6, <1>t, <1>o, <2>1, <2>2, <2>5 DEF buffer_pop, Popped, SlotsHold
  <2> QED
    BY <1>6, <1>o, <2>4, <2>6 DEF buffer_pop, Popped, producer, InOrder, OwnSlotHolds
<1> QED
  BY <1>1, <1>2, <1>3, <1>4, <1>5, <1>6 DEF Next, Push, Consumer

(* The bytes come out once each and in the order they arrived, for every   *)
(* interleaving of the two threads, until an overflow, a look at the wrong *)
(* instant or a slot read before its byte is in it: those are all the ways *)
(* in which they do not.                                                   *)
THEOREM OrderCorrect == Spec => []InOrder
<1>1. OrderInv => InOrder
  BY DEF OrderInv, Ordered, InOrder
<1> QED
  BY InitOrder, NextOrder, <1>1, PTL DEF Spec

-----------------------------------------------------------------------------
(* The ring implements the FIFO.  What is stored is the run of bytes after *)
(* the one popped last; Run(p, k) is the k bytes after byte p.             *)

Run(p, k) == [i \in 1 .. k |-> p + i]

(* A run of numbers and the one that follows it.                           *)
LEMMA RunAppend ==
  ASSUME NEW p \in Nat, NEW k \in Nat
  PROVE  Append(Run(p, k), p + k + 1) = Run(p, k + 1)
  BY DEF Run

(* A run of numbers without its first.                                     *)
LEMMA RunTail ==
  ASSUME NEW p \in Nat, NEW k \in Nat
  PROVE  /\ Head(Run(p, k + 1)) = p + 1
         /\ Tail(Run(p, k + 1)) = Run(p + 1, k)
         /\ Run(p, k + 1) # << >>
  BY DEF Run

StoredRun ==
    mishaps = {}
        => /\ popped \in Nat /\ byte \in Nat /\ Count \in Nat
           /\ Count = Pushed - popped
           /\ Stored = Run(popped, Count)

(* What ByteFifo sees in the ring is the run between popped and pushed.    *)
LEMMA StoredIsRun == OrderInv => StoredRun
<1> SUFFICES ASSUME OrderInv, mishaps = {}
             PROVE  /\ popped \in Nat /\ byte \in Nat /\ Count \in Nat
                    /\ Count = Pushed - popped
                    /\ Stored = Run(popped, Count)
  BY DEF StoredRun
<1> USE RingAssumption
<1>1. /\ popped \in Nat /\ byte \in Nat /\ N \in Nat
      /\ Count \in 0 .. N - 1 /\ Count = Pushed - popped
      /\ buffer_start \in Slots
  BY CountIsStored DEF OrderInv, FullInv, EarlyInv, SizeInv, TypeInv, TypeOK
<1>2. ASSUME NEW i \in 1 .. Count PROVE Held(Slot(i - 1)) = popped + i
  <2>1. Slot(i - 1) \in Slots /\ Distance(Slot(i - 1)) = i - 1
    BY <1>1 DEF Slot, Slots, Distance
  <2> QED
    BY <1>1, <2>1 DEF OrderInv, Ordered, SlotsHold
<1>3. Stored = [i \in 1 .. Count |-> Held(Slot(i - 1))]
  BY DEF Stored, Count
<1> QED
  BY <1>1, <1>2, <1>3 DEF Run

(* Until the first mishap the ring is the FIFO that a SerialDevice         *)
(* promises: each step of either thread puts one byte in, takes one out,   *)
(* or changes nothing that can be seen.                                    *)
THEOREM RingIsFifo == Spec => ImplementsFifo
<1>1. Init => Fifo!Init
  <2> SUFFICES ASSUME Init PROVE Fifo!Init
    OBVIOUS
  <2>1. Distance(Wrapped(buffer_end)) = 0 /\ Pushed = 0 /\ last = 0
    BY RingAssumption DEF Init, Distance, Wrapped, Pushed
  <2>2. Stored = << >>
    BY <2>1 DEF Stored
  <2>3. mishaps = {}
    BY DEF Init
  <2> QED
    BY <2>1, <2>2, <2>3 DEF Fifo!Init
<1>2. OrderInv /\ OrderInv' /\ StoredRun /\ StoredRun' /\ [Next]_vars
        => [Fifo!Next]_(Fifo!vars)
  <2> SUFFICES ASSUME OrderInv, OrderInv', StoredRun, StoredRun', [Next]_vars,
                      mishaps' = {}
               PROVE  [Fifo!Next]_(Fifo!vars)
    BY DEF Fifo!Next
  <2>c. mishaps = {}
    BY MishapsStay
  <2>1. /\ popped \in Nat /\ Count \in Nat /\ Count = Pushed - popped
        /\ Stored = Run(popped, Count)
    BY <2>c DEF StoredRun
  <2>2. /\ popped' \in Nat /\ Count' \in Nat /\ Count' = Pushed' - popped'
        /\ Stored' = Run(popped', Count')
    BY DEF StoredRun
  <2>3. byte \in Nat /\ Pushed \in Int
    BY <2>c DEF StoredRun, Pushed
  <2>4. CASE Advance \/ AdvanceFirst
    <3>1. Pushed' = Pushed + 1 /\ popped' = popped /\ last' = last
      BY <2>3, <2>4 DEF Advance, AdvanceFirst, Increment, Pushed, consumer
    <3>2. Count' = Count + 1
      BY <2>1, <2>2, <2>3, <3>1
    <3>3. Stored' = Append(Stored, Pushed + 1)
      <4>1. Pushed + 1 = popped + Count + 1
        BY <2>1, <2>3
      <4>2. Append(Run(popped, Count), popped + Count + 1) = Run(popped, Count + 1)
        BY <2>1, RunAppend
      <4> QED
        BY <2>1, <2>2, <3>1, <3>2, <4>1, <4>2
    <3> QED
      BY <2>3, <2>c, <3>1, <3>3 DEF Fifo!Next, Fifo!Arrive
  <2>5. CASE buffer_pop
    <3>1. Pushed' = Pushed /\ popped' = popped + 1 /\ last' = popped'
      BY <2>5 DEF buffer_pop, Popped, producer, Pushed, OrderInv, Ordered, InOrder
    <3>2. Count' = Count - 1
      BY <2>1, <2>2, <2>3, <3>1
    <3>3. Stored # << >> /\ popped + 1 = Head(Stored) /\ Stored' = Tail(Stored)
      <4>1. PICK k \in Nat : k = Count' /\ Count = k + 1
        BY <2>1, <2>2, <3>2
      <4>2. Stored = Run(popped, k + 1) /\ Stored' = Run(popped + 1, k)
        BY <2>1, <2>2, <3>1, <4>1
      <4>3. /\ Head(Run(popped, k + 1)) = popped + 1
            /\ Tail(Run(popped, k + 1)) = Run(popped + 1, k)
            /\ Run(popped, k + 1) # << >>
        BY <2>1, RunTail
      <4> QED
        BY <4>2, <4>3
    <3> QED
      BY <2>c, <3>1, <3>3 DEF Fifo!Next, Fifo!Take
  <2>6. CASE ~Advance /\ ~AdvanceFirst /\ ~buffer_pop
    <3>1. last' = last /\ popped' = popped /\ Pushed' = Pushed
      BY <2>3, <2>6
      DEF Next, Recv, Push, Store, Wrap, StoreLate, Consumer, Ready, TimeOut,
          Check, Clip, Finish, Request, vars, producer, consumer, Pushed
    <3>2. Stored' = Stored
      BY <2>1, <2>2, <3>1
    <3> QED
      BY <2>c, <3>1, <3>2 DEF Fifo!vars
  <2> QED
    BY <2>4, <2>5, <2>6
<1> QED
  BY InitOrder, NextOrder, StoredIsRun, <1>1, <1>2, PTL DEF Spec, ImplementsFifo, Fifo!Spec
=============================================================================
