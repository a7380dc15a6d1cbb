-------------------------- MODULE TransportProofs --------------------------
(***************************************************************************)
(* The framing for bytes of any width, any packets and any number of       *)
(* faults: transport_t keeps its types, and implements PacketLink.         *)
(***************************************************************************)
EXTENDS Transport, SequenceTheorems, WellFoundedInduction, TLAPS

-----------------------------------------------------------------------------
(* Induction, from the fact that a set of natural numbers has a least one. *)

LEMMA Least ==
    ASSUME NEW T \in SUBSET Nat, T # {} PROVE \E x \in T : \A y \in T : x <= y
<1> DEFINE R == {ss \in Nat \X Nat : ss[1] < ss[2]}
<1>1. IsWellFoundedOn(R, Nat)
  BY NatLessThanWellFounded DEF OpToRel
<1> HIDE DEF R
<1>2. PICK x \in T : \A y \in T : <<y, x>> \notin R
  BY <1>1, WFMin
<1>3. ASSUME NEW y \in T PROVE x <= y
  <2>1. <<y, x>> \in Nat \X Nat
    OBVIOUS
  <2> QED
    BY <1>2, <1>3, <2>1 DEF R
<1> QED
  BY <1>3

(* A set of numbers that holds 0 and, with a number, the next holds all.   *)
LEMMA Induction ==
    ASSUME NEW S, 0 \in S, \A n \in Nat : n \in S => n + 1 \in S PROVE Nat \subseteq S
<1> SUFFICES ASSUME Nat \ S # {} PROVE FALSE
  OBVIOUS
<1>1. PICK x \in Nat \ S : \A y \in Nat \ S : x <= y
  BY Least
<1>2. x - 1 \in Nat /\ x - 1 \notin Nat \ S
  BY <1>1
<1> QED
  BY <1>1, <1>2

-----------------------------------------------------------------------------
(* Sums.                                                                   *)

LEMMA SomeBytes == M \in Nat /\ M > 0 /\ 0 \in Byte
  BY TransportAssumption DEF Byte

(* The sum of two bytes as a byte.                                         *)
LEMMA ByteSum ==
    ASSUME NEW x \in Byte, NEW y \in Byte
    PROVE  (x + y) % M \in Byte /\ (x + y) % M = IF x + y < M THEN x + y ELSE x + y - M
  BY TransportAssumption DEF Byte

LEMMA ByteIsNat ==
    ASSUME NEW x \in Byte PROVE x \in Nat /\ x < M
  BY TransportAssumption DEF Byte

(* Different bytes are told apart by what they sum to with a third.        *)
LEMMA OneByte ==
    ASSUME NEW x \in Byte, NEW y \in Byte, NEW z \in Byte, y # z
    PROVE  (x + y) % M # (x + z) % M /\ (y + x) % M # (z + x) % M
<1>1. x + y = y + x /\ x + z = z + x
  BY ByteIsNat
<1>2. (x + y) % M # (x + z) % M
  <2>1. x \in Nat /\ y \in Nat /\ z \in Nat /\ M \in Nat /\ x < M /\ y < M /\ z < M
    BY ByteIsNat, TransportAssumption
  <2>2. (x + y) % M = IF x + y < M THEN x + y ELSE x + y - M
    BY ByteSum
  <2>3. (x + z) % M = IF x + z < M THEN x + z ELSE x + z - M
    BY ByteSum
  <2> QED
    BY <2>1, <2>2, <2>3
<1> QED
  BY <1>1, <1>2

(* g holds the sums of the first 0, 1, 2, ... of the bytes.                *)
Sums(g, bytes, n) == g[0] = 0 /\ \A i \in 1 .. n : g[i] = (g[i - 1] + bytes[i]) % M

(* There are such sums, so getSum is one of them, and a byte.              *)
LEMMA SumsExist ==
    ASSUME NEW bytes \in Seq(Byte)
    PROVE  \E g \in [0 .. Len(bytes) -> Byte] :
              Sums(g, bytes, Len(bytes)) /\ SumOf(bytes) = g[Len(bytes)]
<1> DEFINE n == Len(bytes)
           S == {k \in Nat : k <= n => \E g \in [0 .. k -> Byte] : Sums(g, bytes, k)}
           Unfold(g) == [i \in 0 .. n |-> IF i = 0 THEN 0 ELSE (g[i - 1] + bytes[i]) % M]
<1>m. M \in Nat /\ M > 0 /\ 0 \in Byte /\ n \in Nat
  BY SomeBytes
<1>1. 0 \in S
  <2>1. [i \in 0 .. 0 |-> 0] \in [0 .. 0 -> Byte] /\ Sums([i \in 0 .. 0 |-> 0], bytes, 0)
    BY <1>m DEF Sums
  <2> QED
    BY <2>1
<1>2. ASSUME NEW k \in Nat, k \in S PROVE k + 1 \in S
  <2> SUFFICES ASSUME k + 1 <= n PROVE \E g \in [0 .. k + 1 -> Byte] : Sums(g, bytes, k + 1)
    OBVIOUS
  <2>1. PICK g \in [0 .. k -> Byte] : Sums(g, bytes, k)
    BY <1>2, <1>m
  <2> DEFINE h == [i \in 0 .. k + 1 |-> IF i <= k THEN g[i] ELSE (g[k] + bytes[k + 1]) % M]
  <2>2. g[k] \in Byte /\ bytes[k + 1] \in Byte
    BY <1>m
  <2>3. (g[k] + bytes[k + 1]) % M \in Byte
    BY <2>2, ByteSum
  <2>4. h \in [0 .. k + 1 -> Byte]
    BY <2>3
  <2>a. \A i \in 0 .. k : h[i] = g[i]
    BY <2>2
  <2>b. h[k + 1] = (g[k] + bytes[k + 1]) % M
    BY <2>2
  <2> HIDE DEF h
  <2>5. /\ h[0] = g[0] /\ h[k + 1] = (h[k] + bytes[k + 1]) % M
        /\ \A i \in 1 .. k : h[i] = g[i] /\ h[i - 1] = g[i - 1]
    BY <2>a, <2>b
  <2>6. Sums(h, bytes, k + 1)
    BY <2>1, <2>5 DEF Sums
  <2> QED
    BY <2>4, <2>6
<1>3. PICK g \in [0 .. n -> Byte] : Sums(g, bytes, n)
  <2> HIDE DEF S
  <2>1. Nat \subseteq S
    BY <1>1, <1>2, Induction
  <2> QED
    BY <1>m, <2>1 DEF S
<1>4. g = Unfold(g)
  BY <1>3, <1>m DEF Sums
<1> DEFINE s == CHOOSE f : f = Unfold(f)
<1>5. s = Unfold(s)
  BY <1>4
<1>6. SumOf(bytes) = s[n]
  BY DEF SumOf
<1>a. s[0] = 0
  <2> HIDE DEF s
  <2>1. Unfold(s)[0] = 0
    BY <1>m
  <2> QED
    BY <1>5, <2>1
<1>b. ASSUME NEW i \in 1 .. n PROVE s[i] = (s[i - 1] + bytes[i]) % M
  <2>1. i \in 0 .. n /\ i # 0
    BY <1>m
  <2> HIDE DEF s
  <2>2. Unfold(s)[i] = (s[i - 1] + bytes[i]) % M
    BY <2>1
  <2> QED
    BY <1>5, <2>2
<1> HIDE DEF s
<1>7. Sums(s, bytes, n)
  BY <1>a, <1>b DEF Sums
<1> DEFINE E == {k \in Nat : k <= n => s[k] = g[k]}
<1>8. 0 \in E
  BY <1>3, <1>7 DEF Sums
<1>9. ASSUME NEW k \in Nat, k \in E PROVE k + 1 \in E
  <2>1. k + 1 <= n => s[k + 1] = (s[k] + bytes[k + 1]) % M /\ g[k + 1] = (g[k] + bytes[k + 1]) % M
    BY <1>3, <1>7, <1>m DEF Sums
  <2> QED
    BY <1>9, <1>m, <2>1
<1>10. s[n] = g[n]
  <2> HIDE DEF E
  <2>1. Nat \subseteq E
    BY <1>8, <1>9, Induction
  <2> QED
    BY <1>m, <2>1 DEF E
<1> QED
  BY <1>3, <1>6, <1>10

(* packet_t::getSum tells any one altered byte, wherever it is and however *)
(* long the packet: two sequences that differ in one byte differ in sum.   *)
THEOREM SumDiffers ==
    ASSUME NEW a \in Seq(Byte), NEW b \in Seq(Byte), Len(a) = Len(b),
           NEW k \in 1 .. Len(a), a[k] # b[k], \A i \in 1 .. Len(a) : i # k => a[i] = b[i]
    PROVE  SumOf(a) # SumOf(b)
<1> DEFINE n == Len(a)
<1>m. n \in Nat /\ k \in Nat
  OBVIOUS
<1>1. PICK g \in [0 .. n -> Byte] : Sums(g, a, n) /\ SumOf(a) = g[n]
  BY SumsExist
<1>2. PICK h \in [0 .. n -> Byte] : Sums(h, b, n) /\ SumOf(b) = h[n]
  BY SumsExist
<1> DEFINE S == {i \in Nat : i <= n => (g[i] = h[i] <=> i < k)}
<1>3. 0 \in S
  BY <1>1, <1>2, <1>m DEF Sums
<1>4. ASSUME NEW i \in Nat, i \in S PROVE i + 1 \in S
  <2> SUFFICES ASSUME i + 1 <= n PROVE g[i + 1] = h[i + 1] <=> i + 1 < k
    OBVIOUS
  <2>1. g[i + 1] = (g[i] + a[i + 1]) % M /\ h[i + 1] = (h[i] + b[i + 1]) % M
    BY <1>1, <1>2, <1>m DEF Sums
  <2>2. /\ g[i] \in Byte /\ a[i + 1] \in Byte /\ h[i] \in Byte /\ b[i + 1] \in Byte
        /\ i + 1 \in 1 .. n
    BY <1>m
  <2>3. g[i] = h[i] <=> i < k
    BY <1>4, <1>m
  <2>4. CASE i + 1 < k
    BY <2>1, <2>2, <2>3, <2>4, <1>m
  <2>5. CASE i + 1 = k
    <3>1. g[i] = h[i] /\ a[i + 1] # b[i + 1]
      BY <2>3, <2>5
    <3> QED
      BY <2>1, <2>2, <2>5, <3>1, OneByte
  <2>6. CASE i + 1 > k
    <3>1. g[i] # h[i] /\ a[i + 1] = b[i + 1]
      BY <2>2, <2>3, <2>6, <1>m
    <3> QED
      BY <2>1, <2>2, <2>6, <3>1, OneByte
  <2> QED
    BY <1>m, <2>4, <2>5, <2>6
<1>5. g[n] # h[n]
  <2> HIDE DEF S
  <2>1. Nat \subseteq S
    BY <1>3, <1>4, Induction
  <2> QED
    BY <1>m, <2>1 DEF S
<1> QED
  BY <1>1, <1>2, <1>5

-----------------------------------------------------------------------------
(* Frames.                                                                 *)

Fits(p) == p \in [cmd: Byte, res: Byte, data: Seq(Byte)] /\ Len(p.data) + 3 < M

LEMMA SerializedBytes ==
    ASSUME NEW p, Fits(p)
    PROVE  /\ Serialized(p) \in Seq(Byte) /\ Len(Serialized(p)) = Len(p.data) + 3
           /\ Serialized(p)[1] = p.cmd /\ Serialized(p)[2] = p.res
           /\ Serialized(p)[3] = Len(p.data)
           /\ \A k \in 1 .. Len(p.data) : Serialized(p)[k + 3] = p.data[k]
<1> DEFINE head == <<p.cmd, p.res, Len(p.data)>>
           n == Len(p.data)
<1>1. /\ p.cmd \in Byte /\ p.res \in Byte /\ p.data \in Seq(Byte)
      /\ n \in Nat /\ M \in Nat /\ n + 3 < M
  BY TransportAssumption DEF Fits
<1>2. n \in Byte
  BY <1>1 DEF Byte
<1>3. head \in Seq(Byte) /\ Len(head) = 3
  BY <1>1, <1>2
<1> DEFINE all == head \o p.data
<1>4. /\ all \in Seq(Byte) /\ Len(all) = n + 3
      /\ \A i \in 1 .. n + 3 : all[i] = IF i <= 3 THEN head[i] ELSE p.data[i - 3]
  BY <1>1, <1>3
<1>5. (n + 3) % M = n + 3
  <2>1. n + 3 \in Byte /\ 0 \in Byte /\ (n + 3) + 0 = n + 3
    BY <1>1 DEF Byte
  <2>2. ((n + 3) + 0) % M = IF (n + 3) + 0 < M THEN (n + 3) + 0 ELSE (n + 3) + 0 - M
    BY <2>1, ByteSum
  <2> QED
    BY <1>1, <2>1, <2>2
<1>6. Serialized(p) = SubSeq(all, 1, n + 3)
  BY <1>4, <1>5 DEF Serialized
<1> HIDE DEF all, head
<1>7. /\ SubSeq(all, 1, n + 3) \in Seq(Byte) /\ Len(SubSeq(all, 1, n + 3)) = n + 3
      /\ \A i \in 1 .. n + 3 : SubSeq(all, 1, n + 3)[i] = all[i]
  BY <1>1, <1>4
<1>8. /\ \A i \in 1 .. n + 3 : Serialized(p)[i] = IF i <= 3 THEN head[i] ELSE p.data[i - 3]
      /\ Serialized(p) \in Seq(Byte) /\ Len(Serialized(p)) = n + 3
  BY <1>4, <1>6, <1>7
<1>9. 1 \in 1 .. n + 3 /\ 2 \in 1 .. n + 3 /\ 3 \in 1 .. n + 3
  BY <1>1
<1>10. /\ Serialized(p)[1] = p.cmd /\ Serialized(p)[2] = p.res
       /\ Serialized(p)[3] = n
  BY <1>8, <1>9 DEF head
<1>11. ASSUME NEW k \in 1 .. n PROVE Serialized(p)[k + 3] = p.data[k]
  <2>1. k + 3 \in 1 .. n + 3 /\ ~(k + 3 <= 3) /\ k + 3 - 3 = k
    BY <1>1
  <2> QED
    BY <1>8, <2>1
<1> QED
  BY <1>8, <1>10, <1>11

LEMMA SumIsByte ==
    ASSUME NEW p, Fits(p) PROVE Sum(p) \in Byte
<1>1. PICK g \in [0 .. Len(Serialized(p)) -> Byte] : SumOf(Serialized(p)) = g[Len(Serialized(p))]
  BY SerializedBytes, SumsExist
<1> QED
  BY <1>1, SerializedBytes DEF Sum

LEMMA FrameBytes ==
    ASSUME NEW p, Fits(p)
    PROVE  /\ Frame(p) \in Seq(Byte) /\ Len(Frame(p)) = Len(p.data) + 6
           /\ Frame(p)[1] = Start /\ Frame(p)[2] = Start
           /\ \A k \in 1 .. Len(p.data) + 3 : Frame(p)[k + 2] = Serialized(p)[k]
           /\ Frame(p)[Len(p.data) + 6] = Sum(p)
<1> DEFINE n == Len(p.data)
           s == Serialized(p)
           front == <<Start, Start>> \o s
<1>1. s \in Seq(Byte) /\ Len(s) = n + 3 /\ n \in Nat /\ Sum(p) \in Byte
  BY SerializedBytes, SumIsByte DEF Fits
<1>2. Start \in Byte
  BY TransportAssumption
<1> HIDE DEF s
<1>3. /\ front \in Seq(Byte) /\ Len(front) = n + 5
      /\ \A k \in 1 .. n + 5 : front[k] = IF k <= 2 THEN Start ELSE s[k - 2]
  BY <1>1, <1>2
<1> HIDE DEF front
<1>4. Frame(p) = front \o <<Sum(p)>>
  BY DEF Frame, front, s
<1>5. /\ Frame(p) \in Seq(Byte) /\ Len(Frame(p)) = n + 6
      /\ \A k \in 1 .. n + 6 : Frame(p)[k] = IF k <= n + 5 THEN front[k] ELSE Sum(p)
  BY <1>1, <1>3, <1>4
<1>6. ASSUME NEW k \in 1 .. n + 3 PROVE Frame(p)[k + 2] = s[k]
  <2>1. k + 2 \in 1 .. n + 5 /\ k + 2 \in 1 .. n + 6 /\ ~(k + 2 <= 2) /\ k + 2 - 2 = k /\ k + 2 <= n + 5
    BY <1>1
  <2> QED
    BY <1>3, <1>5, <2>1
<1>7. /\ 1 \in 1 .. n + 6 /\ 2 \in 1 .. n + 6 /\ 1 \in 1 .. n + 5 /\ 2 \in 1 .. n + 5
      /\ n + 6 \in 1 .. n + 6 /\ 1 <= n + 5 /\ 2 <= n + 5 /\ ~(n + 6 <= n + 5)
  BY <1>1
<1>8. Frame(p)[1] = Start /\ Frame(p)[2] = Start /\ Frame(p)[n + 6] = Sum(p)
  BY <1>3, <1>5, <1>7
<1> QED
  BY <1>5, <1>6, <1>8 DEF s

(* A packet is what its frame holds.                                       *)
LEMMA FrameFields ==
    ASSUME NEW p, Fits(p)
    PROVE  /\ Frame(p)[3] = p.cmd /\ Frame(p)[4] = p.res /\ Frame(p)[5] = Len(p.data)
           /\ \A k \in 1 .. Len(p.data) : Frame(p)[k + 5] = p.data[k]
<1> DEFINE n == Len(p.data)
<1>1. n \in Nat
  BY DEF Fits
<1>2. 1 \in 1 .. n + 3 /\ 2 \in 1 .. n + 3 /\ 3 \in 1 .. n + 3 /\ 1 + 2 = 3 /\ 2 + 2 = 4 /\ 3 + 2 = 5
  BY <1>1
<1>3. Frame(p)[3] = p.cmd /\ Frame(p)[4] = p.res /\ Frame(p)[5] = n
  BY <1>2, FrameBytes, SerializedBytes
<1>4. ASSUME NEW k \in 1 .. n PROVE Frame(p)[k + 5] = p.data[k]
  <2>1. k + 3 \in 1 .. n + 3 /\ (k + 3) + 2 = k + 5
    BY <1>1
  <2>2. Frame(p)[(k + 3) + 2] = Serialized(p)[k + 3]
    BY <2>1, FrameBytes
  <2> QED
    BY <2>1, <2>2, SerializedBytes
<1> QED
  BY <1>3, <1>4

-----------------------------------------------------------------------------
(* The inductive invariant.                                                *)

(* The bytes of the f-th packet that was written.                          *)
F(f) == Frame(sent[f])
L(f) == Len(F(f))

(* The line holds the rest of a frame and then whole frames, in order.     *)
InOrder ==
    \A i, j \in DOMAIN line : i < j =>
        \/ line[i].frame < line[j].frame
        \/ line[i].frame = line[j].frame /\ line[i].place < line[j].place

Whole ==
    \A i \in DOMAIN line :
        /\ line[i].frame \in DOMAIN sent /\ line[i].place \in 1 .. L(line[i].frame)
        /\ i + L(line[i].frame) - line[i].place <= Len(line)
        /\ \A j \in 0 .. L(line[i].frame) - line[i].place :
              /\ line[i + j].frame = line[i].frame
              /\ line[i + j].place = line[i].place + j

Begins ==
    \A i \in DOMAIN line :
        i > 1 /\ line[i - 1].place = L(line[i - 1].frame) => line[i].place = 1

(* The bytes c are those of the frame f, but for one that was altered.     *)
IsCopy(c, f, hit) ==
    IF hit
    THEN \E k \in 1 .. Len(f) :
            /\ k # 5 /\ c[k] \notin {Start, f[k]}
            /\ \A j \in 1 .. Len(f) : j # k => c[j] = f[j]
    ELSE \A j \in 1 .. Len(f) : c[j] = f[j]

Unread(i) == [k \in 1 .. L(line[i].frame) |-> line[i + k - 1].b]

(* What the reader holds of the frame it is in, and what it is to read.    *)
Held(k) == CASE k <= 2 -> Start
             [] k \in 3 .. 5 -> header[k - 2]
             [] OTHER -> data[k - 5]

Reading == [k \in 1 .. L(line[1].frame) |->
               IF k < line[1].place THEN Held(k) ELSE line[k + 1 - line[1].place].b]

UnreadCopies ==
    \A i \in DOMAIN line :
        line[i].place = 1 => IsCopy(Unread(i), F(line[i].frame), line[i].frame \in altered)

ReadingCopy ==
    Aligned => IsCopy(Reading, F(line[1].frame), line[1].frame \in altered)

(* No start byte comes up that was not written.                            *)
NoNewStart ==
    \A i \in DOMAIN line : line[i].b = Start => F(line[i].frame)[line[i].place] = Start

(* Once two start bytes were seen the reader is in step with the frames.   *)
(* Out of step it sees no two of them.                                     *)
InStep ==
    /\ pc \in {"header", "data", "sum"} => Aligned
    /\ pc = "start2" /\ ~Aligned =>
          /\ line # << >> /\ line[1].place >= 3
          /\ F(line[1].frame)[line[1].place] # Start
    /\ pc = "sum" => Len(data) = header[3]

Undisturbed ==
    /\ faults = 0 => /\ altered = {}
                     /\ pc \in {"idle", "start1"} => line = << >> \/ line[1].place = 1
                     /\ pc = "start2" => Aligned
    /\ faults > 0 => \A f \in DOMAIN sent : Resilient(sent[f])

LineInv == InOrder /\ Whole /\ Begins /\ UnreadCopies /\ NoNewStart
LinkInv == TypeOK /\ LineInv /\ ReadingCopy /\ InStep /\ Undisturbed

-----------------------------------------------------------------------------
(* What the invariant says of one byte and of the frame that is read.      *)

LEMMA FrameOf ==
    ASSUME TypeOK, NEW f \in DOMAIN sent
    PROVE  /\ Fits(sent[f]) /\ L(f) \in Nat /\ L(f) >= 6 /\ F(f) \in Seq(Byte) /\ Len(F(f)) = L(f)
           /\ F(f)[1] = Start /\ F(f)[2] = Start /\ F(f)[5] = L(f) - 6
<1>1. sent[f] \in Packets
  BY DEF TypeOK
<1>2. Fits(sent[f])
  BY <1>1, TransportAssumption DEF Fits
<1>3. Len(sent[f].data) \in Nat
  BY <1>2 DEF Fits
<1> QED
  BY <1>2, <1>3, FrameBytes, FrameFields DEF F, L

LEMMA ByteOf ==
    ASSUME TypeOK, Whole, NEW i \in DOMAIN line
    PROVE  /\ line[i].b \in Byte /\ line[i].frame \in DOMAIN sent /\ line[i].frame \in Nat
           /\ line[i].place \in Nat /\ line[i].place \in 1 .. L(line[i].frame)
           /\ i \in Nat /\ i >= 1 /\ i <= Len(line) /\ Len(line) \in Nat
           /\ L(line[i].frame) \in Nat /\ L(line[i].frame) >= 6
<1> DEFINE Bytes == [b: Byte, frame: Nat, place: Nat]
<1>0. line \in Seq(Bytes)
  BY DEF TypeOK
<1> HIDE DEF Bytes
<1>1. /\ line[i] \in Bytes
      /\ i \in Nat /\ i >= 1 /\ i <= Len(line) /\ Len(line) \in Nat
  BY <1>0
<1>2. line[i].frame \in DOMAIN sent /\ line[i].place \in 1 .. L(line[i].frame)
  BY DEF Whole
<1> QED
  BY <1>1, <1>2, FrameOf DEF Bytes

(* The rest of its frame follows a byte.                                   *)
LEMMA Follows ==
    ASSUME TypeOK, Whole, NEW i \in DOMAIN line, NEW k \in line[i].place .. L(line[i].frame)
    PROVE  /\ i + k - line[i].place \in DOMAIN line
           /\ line[i + k - line[i].place].frame = line[i].frame
           /\ line[i + k - line[i].place].place = k
<1> DEFINE p == line[i].place
           j == k - p
<1>1. /\ p \in Nat /\ L(line[i].frame) \in Nat /\ i \in Nat /\ i >= 1 /\ Len(line) \in Nat
      /\ DOMAIN line = 1 .. Len(line)
  BY ByteOf DEF TypeOK
<1>2. k \in Nat /\ j \in 0 .. L(line[i].frame) - p /\ i + k - p = i + j /\ p + j = k
  BY <1>1
<1>3. i + L(line[i].frame) - p <= Len(line)
  BY DEF Whole
<1>4. i + j \in DOMAIN line
  BY <1>1, <1>2, <1>3
<1>5. line[i + j].frame = line[i].frame /\ line[i + j].place = p + j
  BY <1>2 DEF Whole
<1> QED
  BY <1>2, <1>4, <1>5

LEMMA UnreadByte ==
    ASSUME TypeOK, Whole, NEW i \in DOMAIN line, line[i].place = 1,
           NEW k \in 1 .. L(line[i].frame)
    PROVE  /\ i + k - 1 \in DOMAIN line /\ Unread(i)[k] = line[i + k - 1].b
           /\ line[i + k - 1].frame = line[i].frame /\ line[i + k - 1].place = k
  BY Follows DEF Unread

(* The copy of a frame in which nothing was altered is the frame.          *)
LEMMA SameCopy ==
    ASSUME NEW c, NEW d, NEW f, NEW hit, Len(f) \in Nat,
           \A k \in 1 .. Len(f) : c[k] = d[k], IsCopy(c, f, hit)
    PROVE  IsCopy(d, f, hit)
  BY DEF IsCopy

LEMMA OutOfFrame ==
    ASSUME TypeOK, Whole, pc \in {"idle", "start1"} PROVE ~Aligned
<1> SUFFICES ASSUME Aligned PROVE FALSE
  OBVIOUS
<1>1. line # << >> /\ Head(line).place = 0
  BY DEF Aligned
<1>2. 1 \in DOMAIN line /\ Head(line) = line[1]
  BY <1>1 DEF TypeOK
<1>3. line[1].place >= 1
  BY <1>2, ByteOf
<1> QED
  BY <1>1, <1>2, <1>3

LEMMA OutOfFrameNext ==
    ASSUME TypeOK', Whole', pc' \in {"idle", "start1"} PROVE ~Aligned'
<1> SUFFICES ASSUME Aligned' PROVE FALSE
  OBVIOUS
<1>1. line' # << >> /\ Head(line').place = 0
  BY DEF Aligned
<1>2. 1 \in DOMAIN line' /\ Head(line') = line'[1]
  BY <1>1 DEF TypeOK
<1>3. (line[1].place \in 1 .. L(line[1].frame))'
  BY <1>2 DEF Whole
<1> QED
  BY <1>1, <1>2, <1>3

LEMMA AlignedPlace ==
    ASSUME TypeOK, Whole, Aligned
    PROVE  /\ 1 \in DOMAIN line /\ Head(line) = line[1] /\ line # << >>
           /\ pc \in {"start2", "header", "data", "sum"}
           /\ pc = "start2" => line[1].place = 2
           /\ pc = "header" => line[1].place = 3
           /\ pc = "data" => line[1].place = 6
           /\ pc = "sum" => line[1].place = 6 + Len(data)
           /\ line[1].place >= 2
<1>1. line # << >>
  BY DEF Aligned
<1>2. 1 \in DOMAIN line /\ Head(line) = line[1]
  BY <1>1 DEF TypeOK
<1>3. pc \in {"start2", "header", "data", "sum"}
  BY OutOfFrame DEF TypeOK
<1>4. Len(data) \in Nat
  BY DEF TypeOK
<1> QED
  BY <1>1, <1>2, <1>3, <1>4 DEF Aligned

(* The frame being read: where it starts on the line, and its length.      *)
LEMMA InFrame ==
    ASSUME TypeOK, LineInv, ReadingCopy, InStep, Aligned
    PROVE  /\ \A k \in 1 .. L(line[1].frame) :
                 Reading[k] = IF k < line[1].place THEN Held(k) ELSE line[k + 1 - line[1].place].b
           /\ IsCopy(Reading, F(line[1].frame), line[1].frame \in altered)
           /\ pc \in {"data", "sum"} => header[3] = L(line[1].frame) - 6
           /\ pc = "sum" => line[1].place = L(line[1].frame)
           /\ Len(line) >= Wanted
<1> DEFINE f == line[1].frame
           p == line[1].place
<1>1. /\ 1 \in DOMAIN line /\ pc \in {"start2", "header", "data", "sum"}
      /\ pc = "start2" => p = 2
      /\ pc = "header" => p = 3
      /\ pc = "data" => p = 6
      /\ pc = "sum" => p = 6 + Len(data)
  BY AlignedPlace DEF LineInv
<1>2. f \in DOMAIN sent /\ L(f) \in Nat /\ L(f) >= 6 /\ p \in Nat /\ p <= L(f) /\ Len(line) \in Nat
  BY <1>1, ByteOf DEF LineInv
<1>3. F(f)[5] = L(f) - 6 /\ Len(F(f)) = L(f)
  BY <1>2, FrameOf
<1>4. \A k \in 1 .. L(f) : Reading[k] = IF k < p THEN Held(k) ELSE line[k + 1 - p].b
  BY DEF Reading
<1>5. IsCopy(Reading, F(f), f \in altered)
  BY DEF ReadingCopy
<1>6. Reading[5] = F(f)[5]
  <2>1. 5 \in 1 .. Len(F(f))
    BY <1>2, <1>3
  <2> QED
    BY <1>5, <2>1 DEF IsCopy
<1>7. pc \in {"data", "sum"} => header[3] = L(f) - 6
  <2> SUFFICES ASSUME pc \in {"data", "sum"} PROVE header[3] = L(f) - 6
    OBVIOUS
  <2>1. 5 < p /\ 5 \in 1 .. L(f) /\ Len(data) \in Nat
    BY <1>1, <1>2 DEF TypeOK
  <2>2. Reading[5] = Held(5)
    BY <1>4, <2>1
  <2>3. Held(5) = header[3]
    BY DEF Held
  <2> QED
    BY <1>3, <1>6, <2>2, <2>3
<1>8. pc = "sum" => p = L(f)
  BY <1>1, <1>2, <1>7 DEF InStep
<1>9. Len(line) >= L(f) - p + 1
  BY <1>1, <1>2 DEF LineInv, Whole
<1>10. Len(line) >= Wanted
  <2>1. CASE pc = "start2"
    BY <1>1, <1>2, <1>9, <2>1 DEF Wanted
  <2>2. CASE pc = "header"
    BY <1>1, <1>2, <1>9, <2>2 DEF Wanted
  <2>3. CASE pc = "data"
    BY <1>1, <1>2, <1>7, <1>9, <2>3 DEF Wanted
  <2>4. CASE pc = "sum"
    BY <1>1, <1>2, <1>8, <1>9, <2>4 DEF Wanted
  <2> QED
    BY <1>1, <2>1, <2>2, <2>3, <2>4
<1> QED
  BY <1>4, <1>5, <1>7, <1>8, <1>10

-----------------------------------------------------------------------------
(* Reads.                                                                  *)

(* What is read goes from the front of the line, and what stays is as it   *)
(* was.                                                                    *)
LEMMA Shift ==
    ASSUME TypeOK, LineInv, Read, Wanted \in Nat
    PROVE  /\ line' \in Seq([b: Byte, frame: Nat, place: Nat])
           /\ Len(line') = Len(line) - Wanted
           /\ \A i \in DOMAIN line' : i + Wanted \in DOMAIN line /\ line'[i] = line[i + Wanted]
           /\ \A i \in DOMAIN line : i > Wanted =>
                 i - Wanted \in DOMAIN line' /\ line'[i - Wanted] = line[i]
           /\ LineInv'
<1>w. PICK w \in Nat : w = Wanted
  OBVIOUS
<1>n. PICK n \in Nat : n = Len(line)
  BY DEF TypeOK
<1> DEFINE Bytes == [b: Byte, frame: Nat, place: Nat]
<1>0. line \in Seq(Bytes)
  BY DEF TypeOK
<1> HIDE DEF Bytes
<1>1. w <= n /\ line' = SubSeq(line, w + 1, n) /\ DOMAIN line = 1 .. n
  BY <1>0, <1>w, <1>n DEF Read
<1>2. /\ line' \in Seq(Bytes) /\ Len(line') = n - w /\ DOMAIN line' = 1 .. n - w
      /\ \A i \in 1 .. n - w : line'[i] = line[i + w]
  <2>1. w + 1 \in Int /\ n \in Int /\ \A i \in w + 1 .. n : line[i] \in Bytes
    BY <1>0, <1>1
  <2>2. /\ line' \in Seq(Bytes)
        /\ Len(line') = IF w + 1 <= n THEN n - (w + 1) + 1 ELSE 0
        /\ \A i \in 1 .. n - (w + 1) + 1 : line'[i] = line[(w + 1) + i - 1]
    BY <1>1, <2>1, SubSeqProperties
  <2>3. n - (w + 1) + 1 = n - w /\ Len(line') = n - w
    BY <1>1, <2>2
  <2>4. ASSUME NEW i \in 1 .. n - w PROVE line'[i] = line[i + w]
    <3>1. (w + 1) + i - 1 = i + w
      BY <1>1
    <3> QED
      BY <2>2, <2>3, <3>1
  <2> QED
    BY <2>2, <2>3, <2>4
<1>3. ASSUME NEW i \in DOMAIN line'
      PROVE  i \in Nat /\ i + w \in DOMAIN line /\ line'[i] = line[i + w]
  <2>1. i \in 1 .. n - w
    BY <1>2, <1>3
  <2> QED
    BY <1>1, <1>2, <2>1
<1>4. ASSUME NEW i \in DOMAIN line, i > w
      PROVE  i - w \in DOMAIN line' /\ line'[i - w] = line[i]
  <2>1. i - w \in 1 .. n - w /\ (i - w) + w = i
    BY <1>1, <1>4
  <2> QED
    BY <1>2, <2>1
<1>5. /\ sent' = sent /\ altered' = altered
      /\ \A f : F(f)' = F(f) /\ L(f)' = L(f)
  BY DEF Read, F, L
<1>6. InOrder'
  <2> SUFFICES ASSUME NEW i \in DOMAIN line', NEW j \in DOMAIN line', i < j
               PROVE  \/ line'[i].frame < line'[j].frame
                      \/ line'[i].frame = line'[j].frame /\ line'[i].place < line'[j].place
    BY DEF InOrder
  <2>1. /\ i + w \in DOMAIN line /\ j + w \in DOMAIN line /\ i + w < j + w
        /\ line'[i] = line[i + w] /\ line'[j] = line[j + w]
    BY <1>3
  <2> QED
    BY <2>1 DEF LineInv, InOrder
<1>7. ASSUME NEW i \in DOMAIN line'
      PROVE  /\ i + w \in DOMAIN line /\ line'[i] = line[i + w]
             /\ line'[i].frame \in DOMAIN sent' /\ line'[i].place \in 1 .. L(line[i + w].frame)
             /\ i + L(line[i + w].frame) - line[i + w].place <= Len(line')
             /\ \A j \in 0 .. L(line[i + w].frame) - line[i + w].place :
                   /\ i + j \in DOMAIN line'
                   /\ line'[i + j] = line[i + w + j]
                   /\ line'[i + j].frame = line[i + w].frame
                   /\ line'[i + j].place = line[i + w].place + j
  <2> DEFINE a == i + w
             f == line[a].frame
             p == line[a].place
  <2>1. a \in DOMAIN line /\ line'[i] = line[a] /\ i \in Nat
    BY <1>3, <1>7
  <2>2. /\ f \in DOMAIN sent /\ p \in 1 .. L(f) /\ p \in Nat /\ L(f) \in Nat
        /\ a \in Nat /\ a + L(f) - p <= n
    BY <2>1, <1>n, ByteOf DEF LineInv, Whole
  <2>3. i + L(f) - p <= Len(line')
    BY <1>1, <1>2, <2>1, <2>2
  <2>4. ASSUME NEW j \in 0 .. L(f) - p
        PROVE  /\ i + j \in DOMAIN line' /\ line'[i + j] = line[a + j]
               /\ line'[i + j].frame = f /\ line'[i + j].place = p + j
    <3>a. j \in Nat /\ j <= L(f) - p /\ i >= 1
      BY <1>2, <2>1, <2>2
    <3>b. Len(line') = n - w /\ p \in Nat /\ L(f) \in Nat /\ i + L(f) - p <= Len(line')
      BY <1>2, <2>2, <2>3
    <3>c. i \in Nat /\ a = i + w
      BY <2>1
    <3> HIDE DEF a, f, p
    <3>1. i + j \in 1 .. n - w /\ i + j + w = a + j
      BY <3>a, <3>b, <3>c
    <3>2. line'[i + j] = line[a + j]
      BY <1>2, <3>1
    <3>3. line[a + j].frame = f /\ line[a + j].place = p + j
      BY <2>1 DEF LineInv, Whole, a, f, p
    <3> QED
      BY <1>2, <3>1, <3>2, <3>3
  <2> QED
    BY <1>5, <2>1, <2>2, <2>3, <2>4
<1>8. Whole'
  BY <1>5, <1>7 DEF Whole
<1>9. Begins'
  <2> SUFFICES ASSUME NEW i \in DOMAIN line', i > 1, line'[i - 1].place = L(line'[i - 1].frame)
               PROVE  line'[i].place = 1
    BY <1>5 DEF Begins
  <2>1. i - 1 \in DOMAIN line'
    BY <1>1, <1>2
  <2>2. /\ line'[i] = line[i + w] /\ line'[i - 1] = line[(i + w) - 1] /\ i + w \in DOMAIN line
        /\ i + w > 1
    BY <1>1, <1>2, <1>3, <2>1
  <2> QED
    BY <2>2 DEF LineInv, Begins
<1>10. UnreadCopies'
  <2> SUFFICES ASSUME NEW i \in DOMAIN line', line'[i].place = 1
               PROVE  IsCopy(Unread(i)', F(line'[i].frame), line'[i].frame \in altered)
    BY <1>5 DEF UnreadCopies
  <2> DEFINE a == i + w
             f == line[a].frame
  <2>1. /\ a \in DOMAIN line /\ line'[i] = line[a] /\ i \in Nat /\ line[a].place = 1
    BY <1>3
  <2>2. IsCopy(Unread(a), F(f), f \in altered)
    BY <2>1 DEF LineInv, UnreadCopies
  <2>3. L(f) = Len(F(f)) /\ L(f) \in Nat
    BY <2>1, ByteOf DEF LineInv, L
  <2>4. ASSUME NEW k \in 1 .. L(f) PROVE Unread(a)[k] = Unread(i)'[k]
    <3>1. Unread(a)[k] = line[a + k - 1].b
      BY <2>1, UnreadByte DEF LineInv
    <3>2. Unread(i)' = [j \in 1 .. L(f) |-> line'[i + j - 1].b]
      BY <1>5, <2>1 DEF Unread
    <3>3. k - 1 \in 0 .. L(f) - 1 /\ i + (k - 1) = i + k - 1 /\ a + (k - 1) = a + k - 1
      BY <2>1, <2>3, <1>1
    <3>4. line'[i + (k - 1)] = line[a + (k - 1)]
      BY <1>7, <2>1, <3>3
    <3> QED
      BY <3>1, <3>2, <3>3, <3>4
  <2> QED
    BY <2>1, <2>2, <2>3, <2>4, SameCopy
<1>11. NoNewStart'
  BY <1>3, <1>5 DEF LineInv, NoNewStart
<1> QED
  BY <1>1, <1>2, <1>3, <1>4, <1>6, <1>8, <1>9, <1>10, <1>11, <1>w, <1>n DEF LineInv, Bytes

(* A read that stays inside the frame at the head of the line.             *)
LEMMA HeadKept ==
    ASSUME TypeOK, LineInv, Read, Wanted \in Nat, 1 \in DOMAIN line,
           line[1].place + Wanted <= L(line[1].frame)
    PROVE  /\ line' # << >> /\ 1 \in DOMAIN line' /\ Head(line') = line'[1]
           /\ line'[1].frame = line[1].frame /\ line'[1].place = line[1].place + Wanted
           /\ \A k \in line'[1].place .. L(line[1].frame) :
                 line'[k + 1 - line'[1].place] = line[k + 1 - line[1].place]
<1>w. PICK w \in Nat : w = Wanted
  OBVIOUS
<1>p. PICK p \in Nat : p = line[1].place
  BY ByteOf DEF LineInv
<1>f. PICK f : f = line[1].frame
  OBVIOUS
<1>1. L(f) \in Nat /\ p + w <= L(f) /\ p >= 1
  BY <1>w, <1>p, <1>f, ByteOf DEF LineInv
<1>2. ASSUME NEW k \in p + w .. L(f)
      PROVE  /\ k + 1 - p \in DOMAIN line /\ line[k + 1 - p].frame = f
             /\ line[k + 1 - p].place = k /\ k + 1 - (p + w) \in DOMAIN line'
             /\ line'[k + 1 - (p + w)] = line[k + 1 - p]
  <2>1. k \in p .. L(f) /\ k \in Nat /\ k >= p + w
    BY <1>1
  <2>2. /\ 1 + k - p \in DOMAIN line /\ line[1 + k - p].frame = f
        /\ line[1 + k - p].place = k
    BY <2>1, <1>p, <1>f, Follows DEF LineInv
  <2>3. 1 + k - p = k + 1 - p /\ k + 1 - p > w /\ k + 1 - p - w = k + 1 - (p + w)
    BY <2>1
  <2> QED
    BY <2>2, <2>3, <1>w, Shift
<1>3. p + w \in p + w .. L(f) /\ p + w + 1 - (p + w) = 1
  BY <1>1
<1>4. 1 \in DOMAIN line' /\ line'[1].frame = f /\ line'[1].place = p + w
  BY <1>2, <1>3
<1>5. line' \in Seq([b: Byte, frame: Nat, place: Nat])
  BY Shift
<1>6. line' # << >> /\ Head(line') = line'[1]
  BY <1>4, <1>5
<1> QED
  BY <1>2, <1>4, <1>6, <1>w, <1>p, <1>f

(* What the reader has and what it will read stay a copy.                  *)
LEMMA CopyKept ==
    ASSUME TypeOK, LineInv, Read, Wanted \in Nat, 1 \in DOMAIN line,
           line[1].place + Wanted <= L(line[1].frame),
           NEW c, IsCopy(c, F(line[1].frame), line[1].frame \in altered),
           \A k \in 1 .. L(line[1].frame) :
              c[k] = IF k < line[1].place + Wanted THEN Held(k)' ELSE line[k + 1 - line[1].place].b
    PROVE  ReadingCopy'
<1>1. /\ line' # << >> /\ line'[1].frame = line[1].frame
      /\ line'[1].place = line[1].place + Wanted
      /\ \A k \in line'[1].place .. L(line[1].frame) :
            line'[k + 1 - line'[1].place] = line[k + 1 - line[1].place]
  BY HeadKept
<1>f. PICK f : f = line[1].frame
  OBVIOUS
<1>2. sent' = sent /\ altered' = altered /\ F(f)' = F(f) /\ L(f)' = L(f)
  BY DEF Read, F, L
<1>3. L(f) \in Nat /\ Len(F(f)) = L(f) /\ line[1].place \in Nat
  BY <1>f, ByteOf, FrameOf DEF LineInv
<1>4. Reading' = [k \in 1 .. L(f) |->
                    IF k < line'[1].place THEN Held(k)' ELSE line'[k + 1 - line'[1].place].b]
  BY <1>1, <1>2, <1>f DEF Reading
<1>5. ASSUME NEW k \in 1 .. L(f) PROVE c[k] = Reading'[k]
  <2>1. CASE k < line'[1].place
    BY <2>1, <1>1, <1>4, <1>f
  <2>2. CASE ~(k < line'[1].place)
    <3>1. k \in line'[1].place .. L(f)
      BY <2>2, <1>1, <1>3
    <3> QED
      BY <2>2, <3>1, <1>1, <1>4, <1>f
  <2> QED
    BY <2>1, <2>2
<1>6. IsCopy(Reading', F(f), f \in altered)
  BY <1>3, <1>5, <1>f, SameCopy
<1> QED
  BY <1>1, <1>2, <1>6, <1>f DEF ReadingCopy

(* Whether a frame can still be read, if the byte it starts with stays.    *)
OnLine(f) == \E i \in DOMAIN line : line[i].frame = f /\ line[i].place = 1

LEMMA OnLineKept ==
    ASSUME TypeOK, LineInv, Read, Wanted \in Nat, NEW f,
           \A i \in 1 .. Wanted : line[i].frame = f => line[i].place # 1
    PROVE  OnLine(f)' <=> OnLine(f)
<1>w. PICK w \in Nat : w = Wanted
  OBVIOUS
<1>1. ASSUME OnLine(f) PROVE OnLine(f)'
  <2>1. PICK i \in DOMAIN line : line[i].frame = f /\ line[i].place = 1
    BY <1>1 DEF OnLine
  <2>2. i \in Nat /\ i >= 1
    BY DEF TypeOK
  <2>3. i > w
    BY <1>w, <2>1, <2>2
  <2> QED
    BY <1>w, <2>1, <2>3, Shift DEF OnLine
<1>2. ASSUME OnLine(f)' PROVE OnLine(f)
  BY <1>2, Shift DEF OnLine
<1> QED
  BY <1>1, <1>2

-----------------------------------------------------------------------------
(* Every step keeps the invariant.                                         *)

LEMMA InitInv == Init => LinkInv
<1> SUFFICES ASSUME Init PROVE LinkInv
  OBVIOUS
<1>1. 0 \in Byte /\ 0 \in Nat
  <2>1. M \in Nat /\ Start \in 0 .. M - 1
    BY TransportAssumption DEF Byte
  <2> QED
    BY <2>1 DEF Byte
<1>2. TypeOK
  BY <1>1 DEF Init, TypeOK
<1>3. DOMAIN line = {} /\ ~Aligned
  BY DEF Init, Aligned
<1>4. LineInv
  BY <1>3 DEF LineInv, InOrder, Whole, Begins, UnreadCopies, NoNewStart
<1> QED
  BY <1>2, <1>3, <1>4 DEF LinkInv, ReadingCopy, InStep, Undisturbed, Init

LEMMA IsNewInv ==
    ASSUME LinkInv, IsNew PROVE LinkInv'
<1>1. /\ pc = "idle" /\ pc' = "start1"
      /\ UNCHANGED <<line, header, data, ret, sent, altered, faults>>
  BY DEF IsNew
<1>2. TypeOK'
  BY <1>1 DEF LinkInv, TypeOK
<1>3. LineInv'
  <2>1. (\A f : F(f)' = F(f) /\ L(f)' = L(f)) /\ \A i : Unread(i)' = Unread(i)
    BY <1>1 DEF F, L, Unread
  <2> QED
    BY <1>1, <2>1 DEF LinkInv, LineInv, InOrder, Whole, Begins, UnreadCopies, NoNewStart
<1>4. ~Aligned'
  BY <1>1, <1>2, <1>3, OutOfFrameNext DEF LineInv
<1> QED
  BY <1>1, <1>2, <1>3, <1>4 DEF LinkInv, ReadingCopy, InStep, Undisturbed

(* A start byte that is not a frame's first is the second of an altered or *)
(* abandoned frame, or one of its contents; no other follows it.           *)
LEMMA StrayStart ==
    ASSUME LinkInv, 1 \in DOMAIN line, line[1].b = Start, line[1].place # 1, faults > 0
    PROVE  /\ line[1].place + 1 <= L(line[1].frame)
           /\ F(line[1].frame)[line[1].place + 1] # Start
<1> DEFINE f == line[1].frame
           p == line[1].place
<1>1. /\ f \in DOMAIN sent /\ p \in Nat /\ p \in 1 .. L(f) /\ L(f) \in Nat /\ L(f) >= 6
      /\ p >= 2
  BY ByteOf DEF LinkInv, LineInv
<1>2. Resilient(sent[f])
  BY <1>1 DEF LinkInv, Undisturbed
<1>3. /\ F(f)[L(f)] # Start
      /\ \A i \in 2 .. L(f) - 1 : ~(F(f)[i] = Start /\ F(f)[i + 1] = Start)
  BY <1>2 DEF Resilient, F, L
<1>4. F(f)[p] = Start
  BY DEF LinkInv, LineInv, NoNewStart
<1>5. p # L(f)
  BY <1>3, <1>4
<1>6. p \in 2 .. L(f) - 1
  BY <1>1, <1>5
<1> QED
  BY <1>1, <1>3, <1>4, <1>6

(* The frame that begins at the head of the line begins with a start byte, *)
(* unless it was altered.                                                  *)
LEMMA FirstByte ==
    ASSUME TypeOK, LineInv, 1 \in DOMAIN line, line[1].place = 1, line[1].frame \notin altered
    PROVE  line[1].b = Start
<1>1. /\ line[1].frame \in DOMAIN sent /\ 1 \in 1 .. L(line[1].frame)
      /\ Len(F(line[1].frame)) = L(line[1].frame) /\ F(line[1].frame)[1] = Start
  BY ByteOf, FrameOf DEF LineInv
<1>2. Unread(1)[1] = line[1 + 1 - 1].b
  BY <1>1, UnreadByte DEF LineInv
<1>3. IsCopy(Unread(1), F(line[1].frame), line[1].frame \in altered)
  BY DEF LineInv, UnreadCopies
<1> QED
  BY <1>1, <1>2, <1>3 DEF IsCopy

LEMMA FirstStartRead ==
    ASSUME LinkInv, FirstStart
    PROVE  /\ Wanted = 1 /\ Read /\ 1 \in DOMAIN line /\ Got[1] = line[1].b /\ ~Aligned
           /\ pc' = IF line[1].b = Start THEN "start2" ELSE "start1"
           /\ TypeOK' /\ LineInv'
           /\ line[1].b = Start /\ line[1].place = 1 => Aligned' /\ ReadingCopy'
           /\ line[1].b = Start /\ line[1].place # 1 =>
                 faults > 0 /\ ~Aligned' /\ line' # << >> /\ line'[1].place >= 3
                 /\ F(line'[1].frame)[line'[1].place] # Start
           /\ Aligned' => line[1].b = Start /\ line[1].place = 1
                          /\ line' # << >> /\ Head(line').frame = line[1].frame
<1>1. Wanted = 1 /\ Read /\ pc = "start1"
  BY DEF FirstStart, Wanted
<1>2. 1 \in DOMAIN line /\ Len(line) \in Nat
  BY <1>1 DEF Read, LinkInv, TypeOK
<1>3. Got[1] = line[1].b
  BY <1>1 DEF Got
<1>4. /\ pc' = IF line[1].b = Start THEN "start2" ELSE "start1"
      /\ UNCHANGED <<header, data, ret, sent, altered, faults>>
  BY <1>3 DEF FirstStart, Read
<1>5. LineInv' /\ line' \in Seq([b: Byte, frame: Nat, place: Nat])
  BY <1>1, Shift DEF LinkInv
<1>6. TypeOK'
  BY <1>4, <1>5 DEF LinkInv, TypeOK
<1>7. ~Aligned
  BY <1>1, OutOfFrame DEF LinkInv, LineInv
<1> DEFINE f == line[1].frame
           p == line[1].place
<1>8. f \in DOMAIN sent /\ p \in Nat /\ p >= 1 /\ p <= L(f) /\ L(f) \in Nat /\ L(f) >= 6
  BY <1>2, ByteOf DEF LinkInv, LineInv
<1>9. \A g : F(g)' = F(g)
  BY <1>4 DEF F
<1>10. ASSUME line[1].b = Start, p = 1
       PROVE  /\ Aligned' /\ ReadingCopy'
              /\ line' # << >> /\ Head(line').frame = line[1].frame
  <2>1. p + Wanted <= L(f)
    BY <1>1, <1>8, <1>10
  <2>2. line' # << >> /\ Head(line') = line'[1] /\ line'[1].place = 2 /\ line'[1].frame = f
    BY <1>1, <1>2, <1>10, <2>1, HeadKept DEF LinkInv
  <2>3. PICK c : c = Unread(1)
    OBVIOUS
  <2>4. IsCopy(c, F(f), f \in altered)
    BY <1>2, <1>10, <2>3 DEF LinkInv, LineInv, UnreadCopies
  <2>5. ASSUME NEW k \in 1 .. L(f)
        PROVE  c[k] = IF k < p + Wanted THEN Held(k)' ELSE line[k + 1 - p].b
    <3>1. c[k] = line[1 + k - 1].b /\ 1 + k - 1 = k /\ k + 1 - 1 = k
      BY <1>2, <1>10, <2>3, UnreadByte DEF LinkInv, LineInv
    <3>2. k < 2 => k = 1 /\ k <= 2
      BY <1>8
    <3>3. k <= 2 => Held(k)' = Start
      BY DEF Held
    <3> QED
      BY <1>1, <1>10, <3>1, <3>2, <3>3
  <2>6. ReadingCopy'
    BY <1>1, <1>2, <2>1, <2>4, <2>5, CopyKept DEF LinkInv
  <2> QED
    BY <1>4, <1>10, <2>2, <2>6 DEF Aligned
<1>11. ASSUME line[1].b = Start, p # 1
       PROVE  /\ faults > 0 /\ ~Aligned' /\ line' # << >> /\ line'[1].place >= 3
              /\ F(line'[1].frame)[line'[1].place] # Start
  <2>1. faults > 0
    BY <1>1, <1>2, <1>11 DEF LinkInv, TypeOK, Undisturbed
  <2>2. p + 1 <= L(f) /\ F(f)[p + 1] # Start
    BY <1>2, <1>11, <2>1, StrayStart
  <2>3. line' # << >> /\ Head(line') = line'[1] /\ line'[1].place = p + 1 /\ line'[1].frame = f
    BY <1>1, <1>2, <2>2, HeadKept DEF LinkInv
  <2>4. p + 1 >= 3
    BY <1>8, <1>11
  <2>5. ~Aligned'
    BY <1>4, <1>11, <2>3, <2>4 DEF Aligned
  <2> QED
    BY <2>1, <2>2, <2>3, <2>4, <2>5
<1>12. ASSUME line[1].b # Start PROVE ~Aligned'
  BY <1>4, <1>5, <1>6, <1>12, OutOfFrameNext DEF LineInv
<1> QED
  BY <1>1, <1>2, <1>3, <1>4, <1>5, <1>6, <1>7, <1>10, <1>11, <1>12

LEMMA FirstStartInv ==
    ASSUME LinkInv, FirstStart PROVE LinkInv'
<1>1. /\ 1 \in DOMAIN line /\ TypeOK' /\ LineInv' /\ pc = "start1"
      /\ pc' = IF line[1].b = Start THEN "start2" ELSE "start1"
      /\ UNCHANGED <<sent, altered, faults>>
  BY FirstStartRead DEF FirstStart, Read
<1>2. \A g : F(g)' = F(g)
  BY <1>1 DEF F
<1>3. CASE line[1].b = Start /\ line[1].place = 1
  BY <1>1, <1>3, FirstStartRead DEF LinkInv, InStep, Undisturbed
<1>4. CASE line[1].b = Start /\ line[1].place # 1
  BY <1>1, <1>2, <1>4, FirstStartRead DEF LinkInv, InStep, Undisturbed, ReadingCopy
<1>5. CASE line[1].b # Start
  <2>1. ~Aligned' /\ line # << >>
    BY <1>1, <1>5, FirstStartRead DEF LinkInv, TypeOK
  <2>2. faults # 0
    <3> SUFFICES ASSUME faults = 0 PROVE FALSE
      OBVIOUS
    <3>1. altered = {} /\ line[1].place = 1
      BY <1>1, <2>1 DEF LinkInv, Undisturbed
    <3> QED
      BY <1>1, <1>5, <3>1, FirstByte DEF LinkInv
  <2> QED
    BY <1>1, <1>5, <2>1, <2>2 DEF LinkInv, InStep, Undisturbed, ReadingCopy
<1> QED
  BY <1>3, <1>4, <1>5

LEMMA SecondStartRead ==
    ASSUME LinkInv, SecondStart
    PROVE  /\ Wanted = 1 /\ Read /\ 1 \in DOMAIN line /\ line[1].place >= 2
           /\ pc' = IF line[1].b = Start THEN "header" ELSE "start1"
           /\ TypeOK' /\ LineInv'
           /\ line[1].b = Start =>
                 /\ Aligned /\ Aligned' /\ ReadingCopy'
                 /\ Head(line) = line[1] /\ Head(line').frame = line[1].frame
           /\ line[1].b # Start =>
                 ~Aligned' /\ (Aligned => Head(line) = line[1] /\ line[1].frame \in altered)
<1>1. Wanted = 1 /\ Read /\ pc = "start2"
  BY DEF SecondStart, Wanted
<1>2. 1 \in DOMAIN line /\ Len(line) \in Nat /\ Head(line) = line[1] /\ line # << >>
  BY <1>1 DEF Read, LinkInv, TypeOK
<1>3. Got[1] = line[1].b
  BY <1>1 DEF Got
<1>4. /\ pc' = IF line[1].b = Start THEN "header" ELSE "start1"
      /\ UNCHANGED <<header, data, ret, sent, altered, faults>>
  BY <1>3 DEF SecondStart, Read
<1>5. LineInv' /\ line' \in Seq([b: Byte, frame: Nat, place: Nat])
  BY <1>1, Shift DEF LinkInv
<1>6. TypeOK'
  BY <1>4, <1>5 DEF LinkInv, TypeOK
<1> DEFINE f == line[1].frame
           p == line[1].place
<1>7. /\ f \in DOMAIN sent /\ p \in Nat /\ L(f) \in Nat /\ L(f) >= 6
      /\ Len(F(f)) = L(f) /\ F(f)[2] = Start
  BY <1>2, ByteOf, FrameOf DEF LinkInv, LineInv
<1>8. ASSUME Aligned
      PROVE  /\ p = 2 /\ IsCopy(Reading, F(f), f \in altered)
             /\ \A k \in 1 .. L(f) : Reading[k] = IF k < p THEN Held(k) ELSE line[k + 1 - p].b
  BY <1>1, <1>8, AlignedPlace, InFrame DEF LinkInv, LineInv
<1>9. p >= 2
  <2>1. ~Aligned => p >= 3
    BY <1>1 DEF LinkInv, InStep
  <2> QED
    BY <2>1, <1>7, <1>8
<1>10. line[1].b = Start => Aligned
  BY <1>1, <1>2 DEF LinkInv, LineInv, InStep, NoNewStart
<1>11. ASSUME line[1].b = Start
       PROVE  Aligned' /\ ReadingCopy' /\ Head(line').frame = f
  <2>1. p = 2 /\ p + Wanted <= L(f)
    BY <1>1, <1>7, <1>8, <1>10, <1>11
  <2>2. line' # << >> /\ Head(line') = line'[1] /\ line'[1].place = 3 /\ line'[1].frame = f
    BY <1>1, <1>2, <2>1, HeadKept DEF LinkInv
  <2>3. PICK c : c = Reading
    OBVIOUS
  <2>4. IsCopy(c, F(f), f \in altered)
    BY <1>8, <1>10, <1>11, <2>3
  <2>5. ASSUME NEW k \in 1 .. L(f)
        PROVE  c[k] = IF k < p + Wanted THEN Held(k)' ELSE line[k + 1 - p].b
    <3>1. c[k] = IF k < p THEN Held(k) ELSE line[k + 1 - p].b
      BY <1>8, <1>10, <1>11, <2>3
    <3>2. CASE k < 2
      <4>1. k <= 2 /\ k < p + Wanted
        BY <3>2, <2>1, <1>1, <1>7
      <4> QED
        BY <3>1, <3>2, <2>1, <4>1 DEF Held
    <3>3. CASE k = 2
      <4>1. k <= 2 /\ k < p + Wanted /\ ~(k < p) /\ k + 1 - p = 1
        BY <3>3, <2>1, <1>1
      <4> QED
        BY <3>1, <4>1, <1>11 DEF Held
    <3>4. CASE k > 2
      <4>1. ~(k < p + Wanted) /\ ~(k < p)
        BY <3>4, <2>1, <1>1, <1>7
      <4> QED
        BY <3>1, <4>1
    <3> QED
      BY <3>2, <3>3, <3>4, <1>7
  <2>6. ReadingCopy'
    BY <1>1, <1>2, <2>1, <2>4, <2>5, CopyKept DEF LinkInv
  <2> QED
    BY <1>4, <1>11, <2>2, <2>6 DEF Aligned
<1>12. ASSUME line[1].b # Start PROVE ~Aligned'
  BY <1>4, <1>5, <1>6, <1>12, OutOfFrameNext DEF LineInv
<1>13. ASSUME line[1].b # Start, Aligned PROVE f \in altered
  <2>1. p = 2 /\ 2 \in 1 .. L(f) /\ 2 + 1 - p = 1 /\ ~(2 < p)
    BY <1>7, <1>8, <1>13
  <2>2. Reading[2] = line[1].b
    BY <1>8, <1>13, <2>1
  <2> QED
    BY <1>7, <1>8, <1>13, <2>1, <2>2 DEF IsCopy
<1> QED
  BY <1>1, <1>2, <1>4, <1>5, <1>6, <1>9, <1>10, <1>11, <1>12, <1>13

LEMMA SecondStartInv ==
    ASSUME LinkInv, SecondStart PROVE LinkInv'
<1>1. /\ TypeOK' /\ LineInv' /\ pc = "start2"
      /\ pc' = IF line[1].b = Start THEN "header" ELSE "start1"
      /\ UNCHANGED <<sent, altered, faults>>
  BY SecondStartRead DEF SecondStart, Read
<1>2. CASE line[1].b = Start
  BY <1>1, <1>2, SecondStartRead DEF LinkInv, InStep, Undisturbed
<1>3. CASE line[1].b # Start
  <2>1. ~Aligned' /\ (Aligned => line[1].frame \in altered)
    BY <1>3, SecondStartRead
  <2>2. faults # 0
    BY <1>1, <2>1 DEF LinkInv, Undisturbed
  <2> QED
    BY <1>1, <1>3, <2>1, <2>2 DEF LinkInv, InStep, Undisturbed, ReadingCopy
<1> QED
  BY <1>2, <1>3

(* The reader stays inside the frame, and what it holds a copy of it.      *)
LEMMA HeaderRead ==
    ASSUME LinkInv, ReadHeader
    PROVE  /\ Wanted = 3 /\ Read /\ line[1].place = 3
           /\ Aligned /\ Aligned' /\ ReadingCopy' /\ TypeOK' /\ LineInv'
           /\ Head(line) = line[1] /\ Head(line').frame = line[1].frame
<1>1. Wanted = 3 /\ Read /\ pc = "header" /\ pc' = "data" /\ header' = Got
  BY DEF ReadHeader, Wanted
<1>2. Aligned
  BY <1>1 DEF LinkInv, InStep
<1>3. 1 \in DOMAIN line /\ Head(line) = line[1] /\ line[1].place = 3
  BY <1>1, <1>2, AlignedPlace DEF LinkInv, LineInv
<1>4. UNCHANGED <<data, ret, sent, altered, faults>>
  BY DEF ReadHeader, Read
<1>5. LineInv' /\ line' \in Seq([b: Byte, frame: Nat, place: Nat])
  BY <1>1, Shift DEF LinkInv
<1> DEFINE f == line[1].frame
<1>6. f \in DOMAIN sent /\ L(f) \in Nat /\ L(f) >= 6
  BY <1>3, ByteOf DEF LinkInv, LineInv
<1>7. Got = [i \in 1 .. 3 |-> line[i].b] /\ \A i \in 1 .. 3 : Got[i] = line[i].b
  BY <1>1 DEF Got
<1>8. TypeOK'
  <2>1. \A i \in 1 .. 3 : i \in DOMAIN line
    BY <1>1 DEF LinkInv, TypeOK, Read
  <2>2. \A i \in 1 .. 3 : line[i].b \in Byte
    BY <2>1, ByteOf DEF LinkInv, LineInv
  <2>3. header' \in [1 .. 3 -> Byte]
    BY <1>1, <1>7, <2>2
  <2> QED
    BY <1>1, <1>4, <1>5, <2>3 DEF LinkInv, TypeOK
<1>9. line[1].place + Wanted <= L(f)
  BY <1>1, <1>3, <1>6
<1>10. /\ line' # << >> /\ Head(line') = line'[1] /\ line'[1].place = 6 /\ line'[1].frame = f
  BY <1>1, <1>3, <1>9, HeadKept DEF LinkInv
<1>11. PICK c : c = Reading
  OBVIOUS
<1>12. /\ IsCopy(c, F(f), f \in altered)
       /\ \A k \in 1 .. L(f) : c[k] = IF k < 3 THEN Held(k) ELSE line[k + 1 - 3].b
  BY <1>2, <1>3, <1>11, InFrame DEF LinkInv
<1>13. ASSUME NEW k \in 1 .. L(f)
       PROVE  c[k] = IF k < line[1].place + Wanted THEN Held(k)' ELSE line[k + 1 - line[1].place].b
  <2>1. c[k] = IF k < 3 THEN Held(k) ELSE line[k + 1 - 3].b
    BY <1>12
  <2>2. line[1].place + Wanted = 6
    BY <1>1, <1>3
  <2>3. CASE k < 3
    <3>1. k <= 2 /\ k < 6
      BY <2>3, <1>6
    <3> QED
      BY <2>1, <2>2, <2>3, <3>1 DEF Held
  <2>4. CASE k \in 3 .. 5
    <3>1. ~(k <= 2) /\ ~(k < 3) /\ k < 6 /\ k - 2 \in 1 .. 3 /\ k + 1 - 3 = k - 2
      BY <2>4
    <3>2. Held(k)' = header'[k - 2]
      BY <2>4, <3>1 DEF Held
    <3> QED
      BY <1>1, <1>7, <2>1, <2>2, <3>1, <3>2
  <2>5. CASE k >= 6
    <3>1. ~(k < 6) /\ ~(k < 3)
      BY <2>5, <1>6
    <3> QED
      BY <1>3, <2>1, <2>2, <3>1
  <2> QED
    BY <2>3, <2>4, <2>5, <1>6
<1>14. ReadingCopy'
  BY <1>1, <1>3, <1>9, <1>12, <1>13, CopyKept DEF LinkInv
<1>15. Aligned'
  BY <1>1, <1>10 DEF Aligned
<1> QED
  BY <1>1, <1>2, <1>3, <1>5, <1>8, <1>10, <1>14, <1>15

LEMMA ReadHeaderInv ==
    ASSUME LinkInv, ReadHeader PROVE LinkInv'
<1>1. pc' = "data" /\ UNCHANGED <<sent, altered, faults>>
  BY DEF ReadHeader, Read
<1> QED
  BY <1>1, HeaderRead DEF LinkInv, InStep, Undisturbed

LEMMA DataRead ==
    ASSUME LinkInv, ReadData
    PROVE  /\ Wanted = header[3] /\ Wanted \in Nat /\ Read /\ line[1].place = 6
           /\ line[1].place + Wanted = L(line[1].frame)
           /\ Aligned /\ Aligned' /\ ReadingCopy' /\ TypeOK' /\ LineInv'
           /\ Head(line) = line[1] /\ Head(line').frame = line[1].frame
           /\ Len(data') = header'[3]
<1>1. Wanted = header[3] /\ Read /\ pc = "data" /\ pc' = "sum" /\ data' = Got
  BY DEF ReadData, Wanted
<1>2. Aligned
  BY <1>1 DEF LinkInv, InStep
<1>3. 1 \in DOMAIN line /\ Head(line) = line[1] /\ line[1].place = 6
  BY <1>1, <1>2, AlignedPlace DEF LinkInv, LineInv
<1>4. UNCHANGED <<header, ret, sent, altered, faults>>
  BY DEF ReadData, Read
<1>w. PICK w \in Nat : w = Wanted
  BY <1>1, ByteIsNat DEF LinkInv, TypeOK
<1>5. LineInv' /\ line' \in Seq([b: Byte, frame: Nat, place: Nat])
  BY <1>1, <1>w, Shift DEF LinkInv
<1> DEFINE f == line[1].frame
<1>6. f \in DOMAIN sent /\ L(f) \in Nat /\ L(f) >= 6
  BY <1>3, ByteOf DEF LinkInv, LineInv
<1>7. Got = [i \in 1 .. w |-> line[i].b]
  BY <1>w DEF Got
<1>8. data' \in Seq(Byte) /\ Len(data') = w /\ \A i \in 1 .. w : data'[i] = line[i].b
  <2>1. \A i \in 1 .. w : i \in DOMAIN line
    BY <1>1, <1>w DEF LinkInv, TypeOK, Read
  <2>2. \A i \in 1 .. w : line[i].b \in Byte
    BY <2>1, ByteOf DEF LinkInv, LineInv
  <2>3. data' \in [1 .. w -> Byte]
    BY <1>1, <1>7, <2>2
  <2> QED
    BY <1>1, <1>7, <2>3
<1>9. TypeOK'
  BY <1>1, <1>4, <1>5, <1>8 DEF LinkInv, TypeOK
<1>10. header[3] = L(f) - 6 /\ 6 + w = L(f)
  BY <1>1, <1>2, <1>6, <1>w, InFrame DEF LinkInv
<1>11. line[1].place + Wanted <= L(f) /\ line[1].place + Wanted = L(f)
  BY <1>3, <1>6, <1>10, <1>w
<1>12. /\ line' # << >> /\ Head(line') = line'[1] /\ line'[1].frame = f
       /\ line'[1].place = line[1].place + Wanted
  BY <1>3, <1>1, <1>w, <1>11, HeadKept DEF LinkInv
<1>13. PICK c : c = Reading
  OBVIOUS
<1>14. /\ IsCopy(c, F(f), f \in altered)
       /\ \A k \in 1 .. L(f) : c[k] = IF k < 6 THEN Held(k) ELSE line[k + 1 - 6].b
  BY <1>2, <1>3, <1>13, InFrame DEF LinkInv
<1>15. ASSUME NEW k \in 1 .. L(f)
       PROVE  c[k] = IF k < line[1].place + Wanted THEN Held(k)' ELSE line[k + 1 - line[1].place].b
  <2>1. c[k] = IF k < 6 THEN Held(k) ELSE line[k + 1 - 6].b
    BY <1>14
  <2>2. line[1].place + Wanted = 6 + w /\ line[1].place = 6
    BY <1>3, <1>w
  <2>3. CASE k <= 5
    <3>1. k < 6 /\ k < 6 + w
      BY <2>3, <1>6
    <3>2. Held(k)' = Held(k)
      <4>1. k <= 2 \/ k \in 3 .. 5
        BY <2>3, <1>6
      <4> QED
        BY <1>4, <4>1 DEF Held
    <3> QED
      BY <2>1, <2>2, <3>1, <3>2
  <2>4. CASE k > 5 /\ k < 6 + w
    <3>1. /\ ~(k < 6) /\ ~(k <= 2) /\ ~(k \in 3 .. 5)
          /\ k - 5 \in 1 .. w /\ k + 1 - 6 = k - 5
      BY <2>4, <1>6
    <3>2. Held(k)' = data'[k - 5]
      BY <3>1 DEF Held
    <3> QED
      BY <1>8, <2>1, <2>2, <2>4, <3>1, <3>2
  <2>5. CASE k >= 6 + w
    <3>1. ~(k < 6 + w) /\ ~(k < 6)
      BY <2>5, <1>6
    <3> QED
      BY <2>1, <2>2, <3>1
  <2> QED
    BY <2>3, <2>4, <2>5, <1>6
<1>16. ReadingCopy'
  BY <1>1, <1>3, <1>w, <1>11, <1>14, <1>15, CopyKept DEF LinkInv
<1>17. Aligned'
  BY <1>1, <1>3, <1>8, <1>12, <1>w DEF Aligned
<1> QED
  BY <1>1, <1>2, <1>3, <1>4, <1>5, <1>8, <1>9, <1>11, <1>12, <1>16, <1>17, <1>w

LEMMA ReadDataInv ==
    ASSUME LinkInv, ReadData PROVE LinkInv'
<1>1. pc' = "sum" /\ UNCHANGED <<sent, altered, faults>>
  BY DEF ReadData, Read
<1> QED
  BY <1>1, DataRead DEF LinkInv, InStep, Undisturbed

LEMMA SumRead ==
    ASSUME LinkInv, ReadSum
    PROVE  /\ Wanted = 1 /\ Read /\ Aligned /\ ~Aligned' /\ TypeOK' /\ LineInv'
           /\ 1 \in DOMAIN line /\ Head(line) = line[1] /\ line[1].place = L(line[1].frame)
           /\ Got[1] = line[1].b
           /\ Received \in [cmd: Byte, res: Byte, data: Seq(Byte)]
           /\ line' = << >> \/ line'[1].place = 1
<1>1. Wanted = 1 /\ Read /\ pc = "sum" /\ pc' = "idle"
  BY DEF ReadSum, Wanted
<1>2. Aligned
  BY <1>1 DEF LinkInv, InStep
<1>3. 1 \in DOMAIN line /\ Head(line) = line[1] /\ line[1].place = L(line[1].frame)
  BY <1>1, <1>2, AlignedPlace, InFrame DEF LinkInv, LineInv
<1>4. UNCHANGED <<header, data, sent, altered, faults>>
  BY DEF ReadSum, Read
<1>5. LineInv' /\ line' \in Seq([b: Byte, frame: Nat, place: Nat])
  BY <1>1, Shift DEF LinkInv
<1>6. Received \in [cmd: Byte, res: Byte, data: Seq(Byte)]
  BY DEF LinkInv, TypeOK, Received
<1>7. TypeOK'
  <2>1. CASE Sum(Received) = Got[1]
    <3>1. ret' = [res |-> "OK", value |-> <<Received>>]
      BY <2>1 DEF ReadSum
    <3>2. ret'.value[1] = Received /\ ret'.res = "OK"
      BY <3>1
    <3> QED
      BY <1>1, <1>4, <1>5, <1>6, <3>2 DEF LinkInv, TypeOK
  <2>2. CASE Sum(Received) # Got[1]
    <3>1. ret'.value = Nothing /\ ret'.res = "CHECKSUM_ERROR"
      BY <2>2 DEF ReadSum
    <3> QED
      BY <1>1, <1>4, <1>5, <3>1 DEF LinkInv, TypeOK
  <2> QED
    BY <2>1, <2>2
<1>8. ~Aligned'
  BY <1>1, <1>5, <1>7, OutOfFrameNext DEF LineInv
<1>9. line' = << >> \/ line'[1].place = 1
  <2> SUFFICES ASSUME line' # << >> PROVE line'[1].place = 1
    OBVIOUS
  <2>1. 1 \in DOMAIN line'
    BY <1>5
  <2>2. 2 \in DOMAIN line /\ line'[1] = line[2]
    BY <1>1, <2>1, Shift DEF LinkInv
  <2>3. 2 > 1 /\ 2 - 1 = 1
    OBVIOUS
  <2>4. Begins
    BY DEF LinkInv, LineInv
  <2>5. line[2 - 1].place = L(line[2 - 1].frame) => line[2].place = 1
    BY <2>2, <2>3, <2>4 DEF Begins
  <2> QED
    BY <1>3, <2>2, <2>3, <2>5
<1>10. Got[1] = line[1].b
  BY <1>1 DEF Got
<1> QED
  BY <1>1, <1>2, <1>3, <1>5, <1>6, <1>7, <1>8, <1>9, <1>10

LEMMA ReadSumInv ==
    ASSUME LinkInv, ReadSum PROVE LinkInv'
<1>1. pc' = "idle" /\ UNCHANGED <<sent, altered, faults>>
  BY DEF ReadSum, Read
<1> QED
  BY <1>1, SumRead DEF LinkInv, InStep, Undisturbed, ReadingCopy

(* A read that runs out of time for want of bytes is the first one of      *)
(* is_new, on an empty line.                                               *)
LEMMA WantOfBytes ==
    ASSUME LinkInv, pc # "idle", Wanted > 0, Len(line) < Wanted
    PROVE  pc = "start1" /\ line = << >> /\ ~Aligned
<1>1. ~Aligned
  <2> SUFFICES ASSUME Aligned PROVE FALSE
    OBVIOUS
  <2>1. Len(line) >= Wanted
    BY InFrame DEF LinkInv
  <2>2. Wanted \in Nat
    BY ByteIsNat DEF LinkInv, TypeOK, Wanted
  <2> QED
    BY <2>1, <2>2 DEF LinkInv, TypeOK
<1>2. pc \in {"start1", "start2"}
  BY <1>1 DEF LinkInv, InStep, TypeOK
<1>3. Wanted = 1
  BY <1>2 DEF Wanted
<1>4. line = << >>
  BY <1>3 DEF LinkInv, TypeOK
<1> QED
  BY <1>1, <1>2, <1>4 DEF LinkInv, InStep

LEMMA TimeOutInv ==
    ASSUME LinkInv, TimeOut PROVE LinkInv'
<1>1. /\ pc # "idle" /\ Wanted > 0 /\ pc' = "idle"
      /\ UNCHANGED <<line, header, data, sent, altered>>
      /\ \/ Len(line) < Wanted /\ faults' = faults
         \/ Len(line) >= Wanted /\ Disturb
  BY DEF TimeOut
<1>2. ret'.value = Nothing /\ ret'.res \in {"TIMEOUT", "PACKET_HEADER_TIMEOUT", "PACKET_BODY_TIMEOUT", "PACKET_CHECKSUM_TIMEOUT"}
  BY DEF TimeOut
<1>3. TypeOK'
  BY <1>1, <1>2 DEF LinkInv, TypeOK, Disturb
<1>4. LineInv'
  <2>1. (\A f : F(f)' = F(f) /\ L(f)' = L(f)) /\ \A i : Unread(i)' = Unread(i)
    BY <1>1 DEF F, L, Unread
  <2> QED
    BY <1>1, <2>1 DEF LinkInv, LineInv, InOrder, Whole, Begins, UnreadCopies, NoNewStart
<1>5. ~Aligned'
  BY <1>1, <1>3, <1>4, OutOfFrameNext DEF LineInv
<1>6. Undisturbed'
  <2>1. CASE Len(line) < Wanted /\ faults' = faults
    BY <1>1, <2>1, WantOfBytes DEF LinkInv, Undisturbed
  <2>2. CASE Disturb
    BY <1>1, <2>2 DEF LinkInv, Undisturbed, Disturb, TypeOK
  <2> QED
    BY <1>1, <2>1, <2>2
<1> QED
  BY <1>1, <1>3, <1>4, <1>5, <1>6 DEF LinkInv, InStep, ReadingCopy

(* The line with one more frame.                                           *)
Longer(p, n, m, s) ==
    /\ m >= 6 /\ sent' \in Seq(Packets)
    /\ DOMAIN sent = 1 .. s - 1 /\ DOMAIN sent' = 1 .. s /\ Len(sent') = s
    /\ DOMAIN line = 1 .. n /\ DOMAIN line' = 1 .. n + m /\ Len(line') = n + m
    /\ \A f \in DOMAIN sent : f \in DOMAIN sent' /\ F(f)' = F(f) /\ L(f)' = L(f)
    /\ F(s)' = Frame(p) /\ L(s)' = m
    /\ line' \in Seq([b: Byte, frame: Nat, place: Nat])
    /\ \A i \in 1 .. n : line'[i] = line[i]
    /\ \A k \in 1 .. m : line'[n + k] = [b |-> Frame(p)[k], frame |-> s, place |-> k]

LEMMA Written ==
    ASSUME TypeOK, Whole, NEW p \in Packets, Write(p),
           NEW n \in Nat, n = Len(line), NEW m \in Nat, m = Len(Frame(p)),
           NEW s \in Nat, s = Len(sent) + 1
    PROVE  Longer(p, n, m, s)
<1> DEFINE Bytes == [b: Byte, frame: Nat, place: Nat]
           fr == Frame(p)
<1>1. Fits(p) /\ Len(p.data) \in Nat
  BY TransportAssumption DEF Fits
<1>2. fr \in Seq(Byte) /\ Len(fr) = Len(p.data) + 6
  BY <1>1, FrameBytes
<1>3. /\ sent \in Seq(Packets) /\ Len(sent) \in Nat /\ DOMAIN sent = 1 .. Len(sent)
      /\ line \in Seq(Bytes) /\ DOMAIN line = 1 .. n
  BY DEF TypeOK
<1>4. /\ sent' = Append(sent, p)
      /\ line' = line \o [i \in DOMAIN fr |-> [b |-> fr[i], frame |-> Len(sent'), place |-> i]]
  BY DEF Write
<1>5. /\ sent' \in Seq(Packets) /\ Len(sent') = s /\ DOMAIN sent = 1 .. s - 1
      /\ DOMAIN sent' = 1 .. s /\ sent'[s] = p
      /\ \A f \in 1 .. s - 1 : sent'[f] = sent[f] /\ f \in 1 .. s
  BY <1>3, <1>4
<1>6. /\ \A f \in DOMAIN sent : f \in DOMAIN sent' /\ F(f)' = F(f) /\ L(f)' = L(f)
      /\ F(s)' = fr /\ L(s)' = m
  BY <1>5 DEF F, L
<1> DEFINE new == [i \in 1 .. m |-> [b |-> fr[i], frame |-> s, place |-> i]]
<1>7. DOMAIN fr = 1 .. m
  BY <1>2
<1>8. new \in Seq(Bytes) /\ Len(new) = m /\ \A k \in 1 .. m : new[k] = [b |-> fr[k], frame |-> s, place |-> k]
  <2>1. ASSUME NEW k \in 1 .. m PROVE [b |-> fr[k], frame |-> s, place |-> k] \in Bytes
    BY <1>2, <1>7
  <2> HIDE DEF Bytes
  <2>2. new \in [1 .. m -> Bytes]
    BY <2>1
  <2> QED
    BY <2>2
<1>9. line' = line \o new
  BY <1>4, <1>5, <1>7
<1> HIDE DEF new, Bytes
<1>10. /\ line' \in Seq(Bytes) /\ Len(line') = n + m /\ DOMAIN line' = 1 .. n + m
       /\ \A i \in 1 .. n + m : line'[i] = IF i <= n THEN line[i] ELSE new[i - n]
  <2>1. /\ line \o new \in Seq(Bytes) /\ Len(line \o new) = Len(line) + Len(new)
        /\ \A i \in 1 .. Len(line) + Len(new) :
              (line \o new)[i] = IF i <= Len(line) THEN line[i] ELSE new[i - Len(line)]
    BY <1>3, <1>8, ConcatProperties
  <2>2. /\ line' \in Seq(Bytes) /\ Len(line') = n + m
        /\ \A i \in 1 .. n + m : line'[i] = IF i <= n THEN line[i] ELSE new[i - n]
    BY <2>1, <1>8, <1>9
  <2> QED
    BY <2>2
<1>11. \A i \in 1 .. n : line'[i] = line[i]
  BY <1>10
<1>12. ASSUME NEW k \in 1 .. m PROVE line'[n + k] = [b |-> Frame(p)[k], frame |-> s, place |-> k]
  <2>1. n + k \in 1 .. n + m /\ ~(n + k <= n) /\ n + k - n = k
    OBVIOUS
  <2> QED
    BY <1>8, <1>10, <2>1
<1>13. m >= 6
  BY <1>1, <1>2
<1>14. line' \in Seq([b: Byte, frame: Nat, place: Nat])
  BY <1>10 DEF Bytes
<1> QED
  BY <1>3, <1>5, <1>6, <1>10, <1>11, <1>12, <1>13, <1>14 DEF Longer

LEMMA WriteLineInv ==
    ASSUME LinkInv, NEW p \in Packets, Write(p) PROVE LineInv'
<1>n. PICK n \in Nat : n = Len(line)
  BY DEF LinkInv, TypeOK
<1>m. PICK m \in Nat : m = Len(Frame(p))
  BY TransportAssumption, FrameBytes DEF Fits
<1>s. PICK s \in Nat : s = Len(sent) + 1
  BY DEF LinkInv, TypeOK
<1>1. /\ m >= 6 /\ DOMAIN line = 1 .. n /\ DOMAIN line' = 1 .. n + m /\ Len(line') = n + m
      /\ DOMAIN sent = 1 .. s - 1 /\ DOMAIN sent' = 1 .. s
      /\ \A f \in DOMAIN sent : f \in DOMAIN sent' /\ F(f)' = F(f) /\ L(f)' = L(f)
      /\ F(s)' = Frame(p) /\ L(s)' = m
      /\ \A i \in 1 .. n : line'[i] = line[i]
      /\ \A k \in 1 .. m : line'[n + k] = [b |-> Frame(p)[k], frame |-> s, place |-> k]
      /\ altered' = altered /\ altered \subseteq 1 .. s - 1
  <2>1. altered' = altered /\ altered \subseteq 1 .. s - 1
    BY <1>s DEF LinkInv, TypeOK, Write
  <2>2. TypeOK /\ Whole
    BY DEF LinkInv, LineInv
  <2>3. Longer(p, n, m, s)
    BY <1>n, <1>m, <1>s, <2>2, Written
  <2> QED
    BY <2>1, <2>3 DEF Longer
<1>a. /\ m >= 6 /\ DOMAIN line = 1 .. n /\ DOMAIN line' = 1 .. n + m /\ Len(line') = n + m
  BY <1>1
<1>b. \A i \in 1 .. n : line'[i] = line[i]
  BY <1>1
<1>c. \A k \in 1 .. m : line'[n + k] = [b |-> Frame(p)[k], frame |-> s, place |-> k]
  BY <1>1
<1>2. ASSUME NEW i \in 1 .. n
      PROVE  /\ line'[i] = line[i] /\ i \in DOMAIN line /\ i \in Nat
             /\ line[i].frame \in DOMAIN sent /\ line[i].frame \in Nat /\ line[i].frame < s
             /\ line[i].place \in Nat /\ line[i].place >= 1 /\ line[i].place <= L(line[i].frame)
             /\ L(line[i].frame) \in Nat
             /\ i + L(line[i].frame) - line[i].place <= n
  BY <1>1, <1>n, ByteOf DEF LinkInv, LineInv, Whole
<1>3. ASSUME NEW i \in DOMAIN line', i \notin 1 .. n
      PROVE  /\ i - n \in 1 .. m /\ i \in Nat /\ line'[i].b = Frame(p)[i - n]
             /\ line'[i].frame = s /\ line'[i].place = i - n
  <2>1. i - n \in 1 .. m /\ n + (i - n) = i /\ i \in Nat
    BY <1>a, <1>3
  <2>2. line'[n + (i - n)] = [b |-> Frame(p)[i - n], frame |-> s, place |-> i - n]
    BY <1>c, <2>1
  <2> QED
    BY <2>1, <2>2
<1>4. InOrder'
  <2> SUFFICES ASSUME NEW i \in DOMAIN line', NEW j \in DOMAIN line', i < j
               PROVE  \/ line'[i].frame < line'[j].frame
                      \/ line'[i].frame = line'[j].frame /\ line'[i].place < line'[j].place
    BY DEF InOrder
  <2>1. CASE j \in 1 .. n
    <3>1. i \in 1 .. n
      BY <1>1, <2>1
    <3> QED
      BY <2>1, <3>1, <1>2 DEF LinkInv, LineInv, InOrder
  <2>2. CASE j \notin 1 .. n /\ i \in 1 .. n
    BY <2>2, <1>2, <1>3
  <2>3. CASE j \notin 1 .. n /\ i \notin 1 .. n
    BY <2>3, <1>3
  <2> QED
    BY <2>1, <2>2, <2>3
<1>5. Whole'
  <2> SUFFICES ASSUME NEW i \in DOMAIN line'
               PROVE  (/\ line[i].frame \in DOMAIN sent /\ line[i].place \in 1 .. L(line[i].frame)
                       /\ i + L(line[i].frame) - line[i].place <= Len(line)
                       /\ \A j \in 0 .. L(line[i].frame) - line[i].place :
                             /\ line[i + j].frame = line[i].frame
                             /\ line[i + j].place = line[i].place + j)'
    BY DEF Whole
  <2>1. CASE i \in 1 .. n
    <3>1. PICK f : f = line[i].frame
      OBVIOUS
    <3>2. PICK q \in Nat : q = line[i].place
      BY <1>2, <2>1
    <3>3. PICK l \in Nat : l = L(f)
      BY <1>2, <2>1, <3>1
    <3>4. ASSUME NEW j \in 0 .. l - q
          PROVE  line'[i + j].frame = f /\ line'[i + j].place = q + j
      <4>1. i + j \in 1 .. n
        BY <1>2, <2>1, <3>1, <3>2, <3>3
      <4>2. line[i + j].frame = f /\ line[i + j].place = q + j
        BY <1>2, <2>1, <3>1, <3>2, <3>3 DEF LinkInv, LineInv, Whole
      <4> QED
        BY <1>1, <4>1, <4>2
    <3>5. line'[i] = line[i] /\ f \in DOMAIN sent /\ q \in 1 .. l /\ i + l - q <= n
      BY <1>2, <2>1, <3>1, <3>2, <3>3
    <3>6. L(f)' = l /\ f \in DOMAIN sent'
      BY <1>1, <3>3, <3>5
    <3>7. i + l - q <= n + m
      BY <2>1, <3>5
    <3> QED
      BY <1>1, <3>1, <3>2, <3>4, <3>5, <3>6, <3>7
  <2>2. CASE i \notin 1 .. n
    <3>1. PICK k \in 1 .. m : k = i - n
      BY <1>3, <2>2
    <3>a. i = n + k
      BY <1>3, <2>2, <3>1
    <3>2. line'[i].frame = s /\ line'[i].place = k /\ s \in DOMAIN sent' /\ L(s)' = m /\ i = n + k
      <4>1. s \in DOMAIN sent' /\ L(s)' = m
        BY <1>1, <1>s DEF LinkInv, TypeOK
      <4> QED
        BY <1>3, <2>2, <3>1, <3>a, <4>1
    <3>3. i + m - k <= n + m
      BY <3>2
    <3>4. ASSUME NEW j \in 0 .. m - k
          PROVE  line'[i + j].frame = s /\ line'[i + j].place = k + j
      <4>1. k + j \in 1 .. m /\ n + (k + j) = i + j
        BY <3>2
      <4>2. line'[n + (k + j)] = [b |-> Frame(p)[k + j], frame |-> s, place |-> k + j]
        BY <1>1, <4>1
      <4> QED
        BY <4>1, <4>2
    <3> QED
      BY <1>1, <3>2, <3>3, <3>4
  <2> QED
    BY <2>1, <2>2
<1>6. Begins'
  <2> SUFFICES ASSUME NEW i \in DOMAIN line', i > 1,
                      (line[i - 1].place = L(line[i - 1].frame))'
               PROVE  line'[i].place = 1
    BY DEF Begins
  <2>1. CASE i \in 1 .. n
    <3>1. i - 1 \in 1 .. n
      BY <2>1
    <3>2. line'[i - 1] = line[i - 1] /\ L(line[i - 1].frame)' = L(line[i - 1].frame)
      BY <1>1, <1>2, <3>1
    <3>3. line[i - 1].place = L(line[i - 1].frame)
      BY <1>1, <1>2, <3>1, <3>2
    <3> QED
      BY <1>2, <2>1, <3>3 DEF LinkInv, LineInv, Begins
  <2>2. CASE i \notin 1 .. n /\ i - 1 \in 1 .. n
    <3>1. i - n = 1
      BY <1>1, <2>2
    <3> QED
      BY <1>3, <2>2, <3>1
  <2>3. CASE i \notin 1 .. n /\ i - 1 \notin 1 .. n
    <3>1. i - 1 \in DOMAIN line'
      BY <1>1
    <3>2. line'[i - 1].place = (i - 1) - n /\ line'[i - 1].frame = s
      BY <1>3, <2>3, <3>1
    <3>3. (i - 1) - n = m
      BY <1>1, <3>2
    <3>4. i - n \in 1 .. m
      BY <1>3, <2>3
    <3>5. i \in Nat
      BY <1>1
    <3> QED
      BY <3>3, <3>4, <3>5
  <2> QED
    BY <2>1, <2>2, <2>3
<1>7. UnreadCopies'
  <2> SUFFICES ASSUME NEW i \in DOMAIN line', line'[i].place = 1
               PROVE  IsCopy(Unread(i), F(line[i].frame), line[i].frame \in altered)'
    BY DEF UnreadCopies
  <2>1. CASE i \in 1 .. n
    <3>1. PICK f : f = line[i].frame
      OBVIOUS
    <3>2. i \in DOMAIN line /\ line[i].place = 1 /\ f \in DOMAIN sent /\ line'[i] = line[i] /\ i \in Nat
      BY <1>2, <2>1, <3>1
    <3>3. PICK l \in Nat : l = L(f)
      BY <1>2, <2>1, <3>1
    <3>4. IsCopy(Unread(i), F(f), f \in altered)
      BY <3>1, <3>2 DEF LinkInv, LineInv, UnreadCopies
    <3>5. F(f)' = F(f) /\ L(f)' = l /\ Len(F(f)) = l
      BY <1>1, <3>2, <3>3 DEF L
    <3>6. Unread(i)' = [k \in 1 .. l |-> line'[i + k - 1].b]
      BY <3>1, <3>2, <3>5 DEF Unread
    <3>7. ASSUME NEW k \in 1 .. l PROVE Unread(i)[k] = Unread(i)'[k]
      <4>1. i + k - 1 \in DOMAIN line /\ Unread(i)[k] = line[i + k - 1].b
        BY <3>1, <3>2, <3>3, UnreadByte DEF LinkInv, LineInv
      <4> QED
        BY <1>1, <3>6, <4>1
    <3>8. IsCopy(Unread(i)', F(f), f \in altered)
      BY <3>4, <3>5, <3>7, SameCopy
    <3> QED
      BY <1>1, <3>1, <3>2, <3>5, <3>8
  <2>2. CASE i \notin 1 .. n
    <3>1. line'[i].frame = s /\ i = n + 1 /\ i \in Nat
      BY <1>3, <2>2
    <3>2. s \notin altered'
      BY <1>1
    <3>3. Unread(i)' = [k \in 1 .. m |-> line'[i + k - 1].b]
      BY <1>1, <3>1 DEF Unread
    <3>4. ASSUME NEW k \in 1 .. m PROVE Unread(i)'[k] = Frame(p)[k]
      <4>1. i + k - 1 = n + k
        BY <3>1
      <4>a. line'[n + k] = [b |-> Frame(p)[k], frame |-> s, place |-> k]
        BY <1>c
      <4>2. line'[n + k].b = Frame(p)[k]
        BY <4>a
      <4>3. Unread(i)'[k] = line'[i + k - 1].b
        BY <3>3
      <4> QED
        BY <4>1, <4>2, <4>3
    <3> QED
      BY <1>1, <1>m, <3>1, <3>2, <3>4 DEF IsCopy
  <2> QED
    BY <2>1, <2>2
<1>8. NoNewStart'
  <2> SUFFICES ASSUME NEW i \in DOMAIN line', line'[i].b = Start
               PROVE  (F(line[i].frame)[line[i].place] = Start)'
    BY DEF NoNewStart
  <2>1. CASE i \in 1 .. n
    <3>1. F(line[i].frame)[line[i].place] = Start /\ line'[i] = line[i]
      BY <1>2, <2>1 DEF LinkInv, LineInv, NoNewStart
    <3> QED
      BY <1>1, <1>2, <2>1, <3>1
  <2>2. CASE i \notin 1 .. n
    BY <1>1, <1>3, <2>2
  <2> QED
    BY <2>1, <2>2
<1> QED
  BY <1>4, <1>5, <1>6, <1>7, <1>8 DEF LineInv

(* The reader does not notice that a packet was written.                   *)
LEMMA WriteAligned ==
    ASSUME LinkInv, NEW p \in Packets, Write(p)
    PROVE  /\ line # << >> =>
                 /\ 1 \in DOMAIN line /\ line' # << >> /\ line'[1] = line[1] /\ Head(line') = line[1]
                 /\ Head(line) = line[1]
                 /\ F(line[1].frame)' = F(line[1].frame) /\ L(line[1].frame)' = L(line[1].frame)
                 /\ line[1].frame \in DOMAIN sent /\ L(line[1].frame) \in Nat
           /\ line = << >> => line' # << >> /\ line'[1].place = 1
           /\ Aligned' <=> Aligned
           /\ Aligned => Head(line') = Head(line)
<1>n. PICK n \in Nat : n = Len(line)
  BY DEF LinkInv, TypeOK
<1>m. PICK m \in Nat : m = Len(Frame(p))
  BY TransportAssumption, FrameBytes DEF Fits
<1>s. PICK s \in Nat : s = Len(sent) + 1
  BY DEF LinkInv, TypeOK
<1>1. Longer(p, n, m, s)
  BY <1>n, <1>m, <1>s, Written DEF LinkInv, LineInv
<1>3. UNCHANGED <<pc, header, data>>
  BY DEF Write, reader
<1>4. line' \in Seq([b: Byte, frame: Nat, place: Nat])
  BY <1>1 DEF Longer
<1>6. ASSUME line # << >>
      PROVE  /\ 1 \in DOMAIN line /\ line' # << >> /\ line'[1] = line[1] /\ Head(line') = line[1]
             /\ Head(line) = line[1]
             /\ F(line[1].frame)' = F(line[1].frame) /\ L(line[1].frame)' = L(line[1].frame)
             /\ line[1].frame \in DOMAIN sent /\ L(line[1].frame) \in Nat
  <2>1. 1 \in DOMAIN line /\ 1 \in 1 .. n
    BY <1>6, <1>n DEF LinkInv, TypeOK
  <2>2. line'[1] = line[1] /\ 1 \in DOMAIN line'
    BY <1>1, <2>1 DEF Longer
  <2>3. line' # << >> /\ Head(line') = line'[1] /\ Head(line) = line[1]
    BY <1>4, <1>6, <2>2
  <2>4. line[1].frame \in DOMAIN sent /\ L(line[1].frame) \in Nat
    BY <2>1, ByteOf DEF LinkInv, LineInv
  <2>5. \A f \in DOMAIN sent : F(f)' = F(f) /\ L(f)' = L(f)
    BY <1>1 DEF Longer
  <2>6. F(line[1].frame)' = F(line[1].frame) /\ L(line[1].frame)' = L(line[1].frame)
    BY <2>2, <2>4, <2>5
  <2> QED
    BY <2>1, <2>2, <2>3, <2>4, <2>6
<1>7. ASSUME line = << >> PROVE line' # << >> /\ line'[1].place = 1 /\ Head(line') = line'[1]
  <2>1. n = 0 /\ 1 \in 1 .. m /\ n + 1 = 1 /\ 1 \in DOMAIN line'
    BY <1>1, <1>7, <1>n DEF Longer
  <2>2. line'[1] = [b |-> Frame(p)[1], frame |-> s, place |-> 1]
    BY <1>1, <2>1 DEF Longer
  <2> QED
    BY <1>4, <2>1, <2>2
<1>8. Aligned' <=> Aligned
  <2>1. CASE line # << >>
    BY <1>3, <1>6, <2>1 DEF Aligned
  <2>2. CASE line = << >>
    <3>1. Len(data) \in Nat
      BY DEF LinkInv, TypeOK
    <3> QED
      BY <1>3, <1>7, <2>2, <3>1 DEF Aligned
  <2> QED
    BY <2>1, <2>2
<1>9. Aligned => line # << >>
  BY DEF Aligned
<1> QED
  BY <1>6, <1>7, <1>8, <1>9

LEMMA WriteInv ==
    ASSUME LinkInv, NEW p \in Packets, Write(p) PROVE LinkInv'
<1>n. PICK n \in Nat : n = Len(line)
  BY DEF LinkInv, TypeOK
<1>m. PICK m \in Nat : m = Len(Frame(p))
  BY TransportAssumption, FrameBytes DEF Fits
<1>s. PICK s \in Nat : s = Len(sent) + 1
  BY DEF LinkInv, TypeOK
<1>1. Longer(p, n, m, s)
  BY <1>n, <1>m, <1>s, Written DEF LinkInv, LineInv
<1>2. UNCHANGED <<reader, ret, altered, faults>> /\ (faults > 0 => Resilient(p))
  BY DEF Write
<1>3. UNCHANGED <<pc, header, data, ret, altered, faults>>
  BY <1>2 DEF reader
<1>4. TypeOK'
  <2>1. altered \in SUBSET (1 .. s - 1) /\ 1 .. s - 1 \subseteq 1 .. s
    BY <1>s DEF LinkInv, TypeOK
  <2>2. sent' \in Seq(Packets) /\ Len(sent') = s /\ line' \in Seq([b: Byte, frame: Nat, place: Nat])
    BY <1>1 DEF Longer
  <2> QED
    BY <1>3, <2>1, <2>2 DEF LinkInv, TypeOK
<1>5. LineInv'
  BY WriteLineInv
<1>6. line # << >> =>
         /\ 1 \in DOMAIN line /\ line' # << >> /\ line'[1] = line[1] /\ Head(line') = line[1]
         /\ Head(line) = line[1]
         /\ F(line[1].frame)' = F(line[1].frame) /\ L(line[1].frame)' = L(line[1].frame)
         /\ line[1].frame \in DOMAIN sent /\ L(line[1].frame) \in Nat
  BY WriteAligned
<1>7. line = << >> => line' # << >> /\ line'[1].place = 1
  BY WriteAligned
<1>8. Aligned' <=> Aligned
  BY WriteAligned
<1>9. ReadingCopy'
  <2> SUFFICES ASSUME Aligned, line # << >>
               PROVE  IsCopy(Reading, F(line[1].frame), line[1].frame \in altered)'
    BY <1>8 DEF ReadingCopy, Aligned
  <2>1. PICK f : f = line[1].frame
    OBVIOUS
  <2>2. /\ line'[1] = line[1] /\ F(f)' = F(f) /\ L(f)' = L(f) /\ L(f) = Len(F(f)) /\ L(f) \in Nat
        /\ 1 \in DOMAIN line
    BY <1>6, <2>1 DEF L
  <2>3. IsCopy(Reading, F(f), f \in altered)
    BY <2>1 DEF LinkInv, ReadingCopy
  <2>4. Reading' = [k \in 1 .. L(f) |->
                     IF k < line[1].place THEN Held(k)' ELSE line'[k + 1 - line[1].place].b]
    BY <2>1, <2>2 DEF Reading
  <2>5. ASSUME NEW k \in 1 .. L(f) PROVE Reading[k] = Reading'[k]
    <3>1. CASE k < line[1].place
      BY <1>3, <2>1, <2>4, <3>1 DEF Reading, Held
    <3>2. CASE ~(k < line[1].place)
      <4>1. k \in line[1].place .. L(f)
        BY <2>2, <3>2, ByteOf DEF LinkInv, LineInv
      <4>2. 1 + k - line[1].place \in DOMAIN line
        BY <2>1, <2>2, <4>1, Follows DEF LinkInv, LineInv
      <4>3. k + 1 - line[1].place = 1 + k - line[1].place
        BY <2>2, ByteOf DEF LinkInv, LineInv
      <4>4. line'[k + 1 - line[1].place] = line[k + 1 - line[1].place]
        BY <1>1, <4>2, <4>3 DEF Longer
      <4> QED
        BY <2>1, <2>4, <3>2, <4>4 DEF Reading
    <3> QED
      BY <3>1, <3>2
  <2>6. IsCopy(Reading', F(f), f \in altered)
    BY <2>2, <2>3, <2>5, SameCopy
  <2> QED
    BY <1>3, <2>1, <2>2, <2>6
<1>10. InStep'
  <2>1. pc = "start2" /\ ~Aligned =>
           line' # << >> /\ line'[1].place >= 3 /\ (F(line[1].frame)[line[1].place])' # Start
    BY <1>6 DEF LinkInv, InStep
  <2> QED
    BY <1>3, <1>8, <2>1 DEF LinkInv, InStep
<1>11. Undisturbed'
  <2>1. ASSUME faults > 0, NEW f \in DOMAIN sent' PROVE Resilient(sent'[f])
    <3>1. sent' = Append(sent, p) /\ sent \in Seq(Packets)
      BY DEF Write, LinkInv, TypeOK
    <3>2. (f \in DOMAIN sent /\ sent'[f] = sent[f]) \/ sent'[f] = p
      BY <3>1
    <3> QED
      BY <1>2, <2>1, <3>2 DEF LinkInv, Undisturbed
  <2>2. faults = 0 /\ pc \in {"idle", "start1"} => line' = << >> \/ line'[1].place = 1
    BY <1>6, <1>7 DEF LinkInv, Undisturbed
  <2> QED
    BY <1>3, <1>8, <2>1, <2>2 DEF LinkInv, Undisturbed
<1> QED
  BY <1>4, <1>5, <1>9, <1>10, <1>11 DEF LinkInv

-----------------------------------------------------------------------------
(* A byte is altered.                                                      *)

LEMMA OnePlace ==
    ASSUME TypeOK, InOrder, Whole, NEW i \in DOMAIN line, NEW j \in DOMAIN line,
           line[i].frame = line[j].frame, line[i].place = line[j].place
    PROVE  i = j
<1>1. i \in Nat /\ j \in Nat /\ line[i].frame \in Nat /\ line[i].place \in Nat
  BY ByteOf
<1>2. ~(i < j)
  BY <1>1 DEF InOrder
<1>3. ~(j < i)
  BY <1>1 DEF InOrder
<1> QED
  BY <1>1, <1>2, <1>3

LEMMA AlteredCopy ==
    ASSUME NEW c, NEW d, NEW f, NEW k \in 1 .. Len(f), k # 5, IsCopy(c, f, FALSE),
           d[k] \notin {Start, c[k]}, \A j \in 1 .. Len(f) : j # k => d[j] = c[j]
    PROVE  IsCopy(d, f, TRUE)
  BY DEF IsCopy

(* The byte i of the line becomes x.                                       *)
AlterAt(i, x) ==
    /\ line[i].frame \notin altered /\ line[i].place # 5
    /\ x \notin {Start, line[i].b}
    /\ DOMAIN line' = DOMAIN line /\ Len(line') = Len(line)
    /\ line' \in Seq([b: Byte, frame: Nat, place: Nat])
    /\ \A j \in DOMAIN line : /\ line'[j].frame = line[j].frame /\ line'[j].place = line[j].place
                              /\ line'[j].b = IF j = i THEN x ELSE line[j].b
    /\ altered' = altered \cup {line[i].frame} /\ sent' = sent
    /\ \A f : F(f)' = F(f) /\ L(f)' = L(f)

LEMMA Altering ==
    ASSUME TypeOK, Alter PROVE \E i \in DOMAIN line, x \in Byte : AlterAt(i, x)
<1>1. PICK i \in DOMAIN line, x \in Byte :
          /\ line[i].frame \notin altered /\ line[i].place # 5
          /\ x \notin {Start, line[i].b}
          /\ line' = [line EXCEPT ![i].b = x]
          /\ altered' = altered \cup {line[i].frame}
  BY DEF Alter
<1> DEFINE Bytes == [b: Byte, frame: Nat, place: Nat]
<1>2. line \in Seq(Bytes)
  BY DEF TypeOK
<1>3. \A j \in DOMAIN line : line[j] \in Bytes
  <2> HIDE DEF Bytes
  <2> QED
    BY <1>2
<1>4. DOMAIN line' = DOMAIN line /\ \A j \in DOMAIN line : line'[j] = IF j = i THEN [line[i] EXCEPT !.b = x] ELSE line[j]
  BY <1>1, <1>2
<1>5. \A j \in DOMAIN line : /\ line'[j].frame = line[j].frame /\ line'[j].place = line[j].place
                             /\ line'[j].b = IF j = i THEN x ELSE line[j].b
                             /\ line'[j] \in Bytes
  BY <1>3, <1>4
<1>6. Len(line) \in Nat /\ DOMAIN line = 1 .. Len(line)
  BY <1>2
<1> HIDE DEF Bytes
<1>7. line' = [j \in 1 .. Len(line) |-> line'[j]] 
  BY <1>1, <1>4, <1>6
<1>8. line' \in Seq(Bytes) /\ Len(line') = Len(line)
  BY <1>5, <1>6, <1>7
<1>9. sent' = sent /\ \A f : F(f)' = F(f) /\ L(f)' = L(f)
  BY DEF Alter, F, L
<1> QED
  BY <1>1, <1>4, <1>5, <1>8, <1>9 DEF AlterAt, Bytes

LEMMA AlterLineInv ==
    ASSUME LinkInv, NEW a \in DOMAIN line, NEW x \in Byte, AlterAt(a, x) PROVE LineInv'
<1>1. /\ DOMAIN line' = DOMAIN line /\ Len(line') = Len(line) /\ sent' = sent
      /\ \A j \in DOMAIN line : line'[j].frame = line[j].frame /\ line'[j].place = line[j].place
      /\ \A f : F(f)' = F(f) /\ L(f)' = L(f)
  BY DEF AlterAt
<1>2. TypeOK /\ InOrder /\ Whole /\ Begins /\ UnreadCopies /\ NoNewStart
  BY DEF LinkInv, LineInv
<1>3. InOrder'
  BY <1>1, <1>2 DEF InOrder
<1>4. Whole'
  <2> SUFFICES ASSUME NEW i \in DOMAIN line
               PROVE  (/\ line[i].frame \in DOMAIN sent /\ line[i].place \in 1 .. L(line[i].frame)
                       /\ i + L(line[i].frame) - line[i].place <= Len(line)
                       /\ \A j \in 0 .. L(line[i].frame) - line[i].place :
                             /\ line[i + j].frame = line[i].frame
                             /\ line[i + j].place = line[i].place + j)'
    BY <1>1 DEF Whole
  <2>1. ASSUME NEW j \in 0 .. L(line[i].frame) - line[i].place
        PROVE  line'[i + j].frame = line[i].frame /\ line'[i + j].place = line[i].place + j
    <3>1. /\ line[i].place \in Nat /\ L(line[i].frame) \in Nat
          /\ line[i].place + j \in line[i].place .. L(line[i].frame)
          /\ i + (line[i].place + j) - line[i].place = i + j
      BY <1>2, ByteOf
    <3>2. i + j \in DOMAIN line
      BY <1>2, <3>1, Follows
    <3>3. line[i + j].frame = line[i].frame /\ line[i + j].place = line[i].place + j
      BY <1>2 DEF Whole
    <3> QED
      BY <1>1, <3>2, <3>3
  <2>2. /\ line[i].frame \in DOMAIN sent /\ line[i].place \in 1 .. L(line[i].frame)
        /\ i + L(line[i].frame) - line[i].place <= Len(line)
    BY <1>2 DEF Whole
  <2> QED
    BY <1>1, <2>1, <2>2
<1>5. Begins'
  <2> SUFFICES ASSUME NEW i \in DOMAIN line, i > 1, (line[i - 1].place = L(line[i - 1].frame))'
               PROVE  line'[i].place = 1
    BY <1>1 DEF Begins
  <2>1. i - 1 \in DOMAIN line
    BY <1>2 DEF TypeOK
  <2>2. line[i - 1].place = L(line[i - 1].frame)
    BY <1>1, <2>1
  <2> QED
    BY <1>1, <1>2, <2>2 DEF Begins
<1>6. UnreadCopies'
  <2> SUFFICES ASSUME NEW i \in DOMAIN line, line[i].place = 1
               PROVE  IsCopy(Unread(i)', F(line[i].frame), line[i].frame \in altered')
    BY <1>1 DEF UnreadCopies
  <2>1. PICK f : f = line[i].frame
    OBVIOUS
  <2>2. /\ L(f) \in Nat /\ L(f) = Len(F(f)) /\ i \in Nat
        /\ IsCopy(Unread(i), F(f), f \in altered)
    BY <1>2, <2>1, ByteOf DEF UnreadCopies, L
  <2>3. Unread(i)' = [k \in 1 .. L(f) |-> line'[i + k - 1].b]
    BY <1>1, <2>1 DEF Unread
  <2>4. ASSUME NEW k \in 1 .. L(f)
        PROVE  /\ i + k - 1 \in DOMAIN line /\ Unread(i)[k] = line[i + k - 1].b
               /\ Unread(i)'[k] = (IF i + k - 1 = a THEN x ELSE line[i + k - 1].b)
               /\ line[i + k - 1].frame = f /\ line[i + k - 1].place = k
    <3>1. /\ i + k - 1 \in DOMAIN line /\ Unread(i)[k] = line[i + k - 1].b
          /\ line[i + k - 1].frame = f /\ line[i + k - 1].place = k
      BY <1>2, <2>1, UnreadByte
    <3>2. Unread(i)'[k] = line'[i + k - 1].b
      BY <2>3
    <3> QED
      BY <3>1, <3>2 DEF AlterAt
  <2>5. CASE line[a].frame # f
    <3>1. ASSUME NEW k \in 1 .. L(f) PROVE Unread(i)[k] = Unread(i)'[k]
      BY <2>4, <2>5
    <3>2. f \in altered' <=> f \in altered
      BY <2>5 DEF AlterAt
    <3>3. IsCopy(Unread(i)', F(f), f \in altered)
      BY <2>2, <3>1, SameCopy
    <3> QED
      BY <2>1, <3>2, <3>3
  <2>6. CASE line[a].frame = f
    <3>1. f \notin altered /\ f \in altered'
      BY <2>6 DEF AlterAt
    <3>2. PICK k \in 1 .. L(f) : k = line[a].place
      BY <1>2, <2>6, ByteOf
    <3>3. i + k - 1 = a
      BY <1>2, <2>4, <2>6, <3>2, OnePlace
    <3>4. k # 5 /\ Unread(i)'[k] \notin {Start, Unread(i)[k]}
      BY <2>4, <3>2, <3>3 DEF AlterAt
    <3>5. ASSUME NEW j \in 1 .. L(f), j # k PROVE Unread(i)'[j] = Unread(i)[j]
      <4>1. i + j - 1 # a
        BY <2>4, <3>2, <3>5
      <4> QED
        BY <2>4, <4>1
    <3>6. IsCopy(Unread(i), F(f), FALSE)
      BY <2>2, <3>1 DEF IsCopy
    <3>7. IsCopy(Unread(i)', F(f), TRUE)
      BY <2>2, <3>4, <3>5, <3>6, AlteredCopy
    <3> QED
      BY <2>1, <3>1, <3>7 DEF IsCopy
  <2> QED
    BY <2>5, <2>6
<1>7. NoNewStart'
  <2> SUFFICES ASSUME NEW i \in DOMAIN line, line'[i].b = Start
               PROVE  (F(line[i].frame)[line[i].place] = Start)'
    BY <1>1 DEF NoNewStart
  <2>1. line[i].b = Start
    BY DEF AlterAt
  <2> QED
    BY <1>1, <1>2, <2>1 DEF NoNewStart
<1> QED
  BY <1>3, <1>4, <1>5, <1>6, <1>7 DEF LineInv

LEMMA AlterReading ==
    ASSUME LinkInv, NEW a \in DOMAIN line, NEW x \in Byte, AlterAt(a, x),
           UNCHANGED <<pc, header, data>>
    PROVE  (Aligned' <=> Aligned) /\ (Aligned => Head(line') = line'[1]) /\ ReadingCopy'
<1>1. /\ DOMAIN line' = DOMAIN line /\ sent' = sent
      /\ \A j \in DOMAIN line : line'[j].frame = line[j].frame /\ line'[j].place = line[j].place
      /\ \A f : F(f)' = F(f) /\ L(f)' = L(f)
  BY DEF AlterAt
<1>2. 1 \in DOMAIN line /\ line # << >> /\ line' # << >> /\ Head(line) = line[1] /\ Head(line') = line'[1]
  <2>1. line \in Seq([b: Byte, frame: Nat, place: Nat]) /\ line' \in Seq([b: Byte, frame: Nat, place: Nat])
    BY DEF LinkInv, TypeOK, AlterAt
  <2>2. Len(line) \in Nat /\ DOMAIN line = 1 .. Len(line) /\ Len(line') = Len(line) /\ a \in 1 .. Len(line)
    BY <2>1 DEF AlterAt
  <2> QED
    BY <2>1, <2>2
<1>3. Aligned' <=> Aligned
  BY <1>1, <1>2 DEF Aligned
<1>4. ASSUME Aligned PROVE IsCopy(Reading', F(line[1].frame), line[1].frame \in altered')
  <2>1. PICK f : f = line[1].frame
    OBVIOUS
  <2>2. PICK p \in Nat : p = line[1].place
    BY <1>2, ByteOf DEF LinkInv, LineInv
  <2>3. L(f) \in Nat /\ L(f) = Len(F(f)) /\ p >= 1 /\ IsCopy(Reading, F(f), f \in altered)
    BY <1>2, <1>4, <2>1, <2>2, ByteOf DEF LinkInv, LineInv, ReadingCopy, L
  <2>4. /\ Reading' = [k \in 1 .. L(f) |-> IF k < p THEN Held(k)' ELSE line'[k + 1 - p].b]
        /\ Reading = [k \in 1 .. L(f) |-> IF k < p THEN Held(k) ELSE line[k + 1 - p].b]
    BY <1>1, <1>2, <2>1, <2>2 DEF Reading
  <2>5. ASSUME NEW k \in 1 .. L(f), k < p PROVE Reading'[k] = Reading[k]
    BY <2>4, <2>5 DEF Held
  <2>6. ASSUME NEW k \in 1 .. L(f), ~(k < p)
        PROVE  /\ k + 1 - p \in DOMAIN line /\ Reading[k] = line[k + 1 - p].b
               /\ Reading'[k] = (IF k + 1 - p = a THEN x ELSE line[k + 1 - p].b)
               /\ line[k + 1 - p].frame = f /\ line[k + 1 - p].place = k
    <3>1. k \in p .. L(f) /\ 1 + k - p = k + 1 - p
      BY <2>3, <2>6
    <3>2. 1 + k - p \in DOMAIN line /\ line[1 + k - p].frame = f /\ line[1 + k - p].place = k
      BY <1>2, <2>1, <2>2, <3>1, Follows DEF LinkInv, LineInv
    <3>3. Reading[k] = line[k + 1 - p].b /\ Reading'[k] = line'[k + 1 - p].b
      BY <2>4, <2>6
    <3> QED
      BY <3>1, <3>2, <3>3 DEF AlterAt
  <2>7. CASE line[a].frame # f
    <3>1. ASSUME NEW k \in 1 .. L(f) PROVE Reading[k] = Reading'[k]
      BY <2>5, <2>6, <2>7
    <3>2. f \in altered' <=> f \in altered
      BY <2>7 DEF AlterAt
    <3>3. IsCopy(Reading', F(f), f \in altered)
      BY <2>3, <3>1, SameCopy
    <3> QED
      BY <2>1, <3>2, <3>3
  <2>8. CASE line[a].frame = f
    <3>1. f \notin altered /\ f \in altered'
      BY <2>8 DEF AlterAt
    <3>2. PICK k \in 1 .. L(f) : k = line[a].place
      BY <2>8, ByteOf DEF LinkInv, LineInv
    <3>a. a \in Nat /\ a >= 1
      BY DEF LinkInv, TypeOK
    <3>b. ~(k < p)
      <4>1. a = 1 \/ 1 < a
        BY <3>a
      <4>2. 1 < a => line[1].place < line[a].place
        <5>1. InOrder /\ f \in Nat
          BY <1>2, <2>1, ByteOf DEF LinkInv, LineInv
        <5> QED
          BY <1>2, <2>1, <2>8, <5>1 DEF InOrder
      <4> QED
        BY <2>2, <3>2, <4>1, <4>2
    <3>3. k + 1 - p = a
      BY <2>6, <2>8, <3>2, <3>b, OnePlace DEF LinkInv, LineInv
    <3>4. k # 5 /\ Reading'[k] \notin {Start, Reading[k]}
      BY <2>6, <3>2, <3>3, <3>b DEF AlterAt
    <3>5. ASSUME NEW j \in 1 .. L(f), j # k PROVE Reading'[j] = Reading[j]
      <4>1. CASE j < p
        BY <2>5, <4>1
      <4>2. CASE ~(j < p)
        <5>1. j + 1 - p # a
          BY <2>6, <3>2, <3>5, <4>2
        <5> QED
          BY <2>6, <4>2, <5>1
      <4> QED
        BY <4>1, <4>2
    <3>6. IsCopy(Reading, F(f), FALSE)
      BY <2>3, <3>1 DEF IsCopy
    <3>7. IsCopy(Reading', F(f), TRUE)
      BY <2>3, <3>4, <3>5, <3>6, AlteredCopy
    <3> QED
      BY <2>1, <3>1, <3>7 DEF IsCopy
  <2> QED
    BY <2>7, <2>8
<1>5. ReadingCopy'
  BY <1>1, <1>2, <1>3, <1>4 DEF ReadingCopy
<1> QED
  BY <1>2, <1>3, <1>5

LEMMA AlterInv ==
    ASSUME LinkInv, Alter PROVE LinkInv'
<1>1. PICK a \in DOMAIN line, x \in Byte : AlterAt(a, x)
  BY Altering DEF LinkInv
<1>2. UNCHANGED <<pc, header, data, ret, sent>> /\ Disturb
  BY DEF Alter, reader
<1>3. /\ DOMAIN line' = DOMAIN line /\ Len(line') = Len(line)
      /\ \A j \in DOMAIN line : line'[j].frame = line[j].frame /\ line'[j].place = line[j].place
      /\ \A f : F(f)' = F(f) /\ L(f)' = L(f)
      /\ line' \in Seq([b: Byte, frame: Nat, place: Nat])
      /\ altered' = altered \cup {line[a].frame}
  BY <1>1 DEF AlterAt
<1>4. line[a].frame \in 1 .. Len(sent) /\ 1 \in DOMAIN line /\ line # << >> /\ line' # << >>
  <2>1. line[a].frame \in DOMAIN sent /\ a \in 1 .. Len(line) /\ Len(line) \in Nat
    BY ByteOf DEF LinkInv, LineInv
  <2> QED
    BY <1>3, <2>1 DEF LinkInv, TypeOK
<1>5. TypeOK'
  <2>1. faults' \in Nat
    BY <1>2 DEF LinkInv, TypeOK, Disturb
  <2>2. altered' \in SUBSET (1 .. Len(sent'))
    BY <1>2, <1>3, <1>4 DEF LinkInv, TypeOK
  <2>3. TypeOK
    BY DEF LinkInv
  <2> QED
    BY <1>2, <1>3, <2>1, <2>2, <2>3 DEF TypeOK
<1>6. LineInv'
  BY <1>1, AlterLineInv
<1>7. (Aligned' <=> Aligned) /\ ReadingCopy'
  BY <1>1, <1>2, AlterReading
<1>8. InStep'
  BY <1>2, <1>3, <1>4, <1>7 DEF LinkInv, InStep
<1>9. Undisturbed'
  <2>1. faults' > 0 /\ \A f \in DOMAIN sent : Resilient(sent[f])
    BY <1>2 DEF Disturb, LinkInv, TypeOK
  <2> QED
    BY <1>2, <2>1 DEF Undisturbed
<1> QED
  BY <1>5, <1>6, <1>7, <1>8, <1>9 DEF LinkInv

-----------------------------------------------------------------------------

LEMMA Stutter ==
    ASSUME LinkInv, UNCHANGED vars PROVE LinkInv'
<1>1. UNCHANGED <<line, pc, header, data, ret, sent, altered, faults>>
  BY DEF vars, reader
<1>2. TypeOK'
  BY <1>1 DEF LinkInv, TypeOK
<1>3. (\A f : F(f)' = F(f) /\ L(f)' = L(f)) /\ (\A i : Unread(i)' = Unread(i)) /\ (\A k : Held(k)' = Held(k))
  BY <1>1 DEF F, L, Unread, Held
<1>4. LineInv'
  BY <1>1, <1>3 DEF LinkInv, LineInv, InOrder, Whole, Begins, UnreadCopies, NoNewStart
<1>5. (Aligned' <=> Aligned) /\ Reading' = Reading
  BY <1>1, <1>3 DEF Aligned, Reading
<1>6. ReadingCopy'
  BY <1>1, <1>3, <1>5 DEF LinkInv, ReadingCopy
<1>7. InStep' /\ Undisturbed'
  BY <1>1, <1>3, <1>5 DEF LinkInv, InStep, Undisturbed
<1> QED
  BY <1>2, <1>4, <1>6, <1>7 DEF LinkInv

LEMMA NextInv ==
    ASSUME LinkInv, [Next]_vars PROVE LinkInv'
<1>1. CASE \E p \in Packets : Write(p)
  BY <1>1, WriteInv
<1>2. CASE UNCHANGED vars
  BY <1>2, Stutter
<1> QED
  BY <1>1, <1>2, IsNewInv, FirstStartInv, SecondStartInv, ReadHeaderInv, ReadDataInv,
     ReadSumInv, TimeOutInv, AlterInv DEF Next

LEMMA Invariant == Spec => []LinkInv
<1>1. LinkInv /\ [Next]_vars => LinkInv'
  BY NextInv
<1> QED
  BY InitInv, <1>1, PTL DEF Spec

(* Whatever the packets, bytes and faults, transport_t's stream, buffers   *)
(* and answers keep their types.                                           *)
THEOREM TypeCorrect == Spec => []TypeOK
<1>1. LinkInv => TypeOK
  BY DEF LinkInv
<1> QED
  BY Invariant, <1>1, PTL

-----------------------------------------------------------------------------
(* Every step is one of PacketLink, or none.                               *)

LEMMA PendingIs ==
    ASSUME NEW f
    PROVE  Pending(f) <=> f \notin altered /\ (OnLine(f) \/ (Aligned /\ Head(line).frame = f))
  BY DEF Pending, OnLine

LEMMA PendingNext ==
    ASSUME NEW f
    PROVE  Pending(f)' <=> f \notin altered' /\ (OnLine(f)' \/ (Aligned' /\ Head(line').frame = f))
  BY DEF Pending, OnLine

LEMMA WaitingIs == Waiting = {f \in DOMAIN sent : Pending(f)}
  BY DEF Waiting

LEMMA WaitingNext == Waiting' = {f \in DOMAIN sent' : Pending(f)'}
  BY DEF Waiting

LEMMA SameWaiting ==
    ASSUME sent' = sent,
           \A f \in DOMAIN sent : Pending(f)' <=> Pending(f)
    PROVE  Waiting' = Waiting
  BY WaitingIs, WaitingNext

(* One packet less.                                                        *)
LEMMA LessWaiting ==
    ASSUME sent' = sent, NEW g,
           \A f \in DOMAIN sent : Pending(f)' <=> Pending(f) /\ f # g
    PROVE  Waiting' = Waiting \ {g}
  BY WaitingIs, WaitingNext

(* The frame that is read has lost its first byte to the reader.           *)
LEMMA HeadTaken ==
    ASSUME TypeOK, LineInv, 1 \in DOMAIN line, line[1].place # 1
    PROVE  ~OnLine(line[1].frame)
<1> SUFFICES ASSUME NEW i \in DOMAIN line, line[i].frame = line[1].frame, line[i].place = 1
             PROVE  FALSE
  BY DEF OnLine
<1>1. i \in Nat /\ i # 1 /\ i >= 1
  BY DEF TypeOK
<1>2. 1 < i
  BY <1>1
<1>3. line[1].place \in Nat /\ line[1].place >= 1 /\ line[1].frame \in Nat
  BY ByteOf DEF LineInv
<1> QED
  BY <1>2, <1>3 DEF LineInv, InOrder

LEMMA IsNewLink ==
    ASSUME LinkInv, IsNew PROVE UNCHANGED Link!vars
<1>1. /\ pc' = "start1" /\ pc = "idle"
      /\ UNCHANGED <<line, header, data, ret, sent, altered, faults>>
  BY DEF IsNew
<1>2. ~Aligned
  BY <1>1, OutOfFrame DEF LinkInv, LineInv
<1>3. LinkInv'
  BY IsNewInv
<1>4. ~Aligned'
  BY <1>1, <1>3, OutOfFrameNext DEF LinkInv, LineInv
<1>5. \A f : OnLine(f)' <=> OnLine(f)
  BY <1>1 DEF OnLine
<1>6. Waiting' = Waiting
  BY <1>1, <1>2, <1>4, <1>5, PendingIs, PendingNext, SameWaiting
<1> QED
  BY <1>1, <1>6 DEF Link!vars

LEMMA FirstStartLink ==
    ASSUME LinkInv, FirstStart PROVE UNCHANGED Link!vars
<1>1. /\ Wanted = 1 /\ Wanted \in Nat /\ Read /\ 1 \in DOMAIN line /\ ~Aligned
      /\ UNCHANGED <<ret, sent, altered, faults>>
  BY FirstStartRead DEF FirstStart, Read
<1>2. ASSUME NEW f \in DOMAIN sent PROVE Pending(f)' <=> Pending(f)
  <2>1. ASSUME line[1].place # 1 \/ line[1].frame # f PROVE OnLine(f)' <=> OnLine(f)
    <3>1. \A i \in 1 .. Wanted : line[i].frame = f => line[i].place # 1
      BY <1>1, <2>1
    <3> QED
      BY <1>1, <3>1, OnLineKept DEF LinkInv
  <2>2. CASE line[1].place = 1 /\ line[1].frame = f
    <3>1. OnLine(f)
      BY <1>1, <2>2 DEF OnLine
    <3>2. CASE line[1].b = Start
      BY <1>1, <2>2, <3>1, <3>2, FirstStartRead, PendingIs, PendingNext
    <3>3. CASE line[1].b # Start
      <4>1. f \in altered
        BY <1>1, <2>2, <3>3, FirstByte DEF LinkInv
      <4> QED
        BY <1>1, <4>1, PendingIs, PendingNext
    <3> QED
      BY <3>2, <3>3
  <2>3. CASE ~(line[1].place = 1 /\ line[1].frame = f)
    <3>1. OnLine(f)' <=> OnLine(f)
      BY <2>1, <2>3
    <3>2. ~(Aligned' /\ Head(line').frame = f)
      BY <2>3, FirstStartRead
    <3>3. ~(Aligned /\ Head(line).frame = f) /\ (f \in altered' <=> f \in altered)
      BY <1>1
    <3> QED
      BY <3>1, <3>2, <3>3, PendingIs, PendingNext
  <2> QED
    BY <2>2, <2>3
<1>3. Waiting' = Waiting
  BY <1>1, <1>2, SameWaiting
<1> QED
  BY <1>1, <1>3 DEF Link!vars

LEMMA SecondStartLink ==
    ASSUME LinkInv, SecondStart PROVE UNCHANGED Link!vars
<1>1. /\ Wanted = 1 /\ Wanted \in Nat /\ Read /\ 1 \in DOMAIN line /\ line[1].place # 1
      /\ UNCHANGED <<ret, sent, altered, faults>>
  BY SecondStartRead DEF SecondStart, Read
<1>2. ASSUME NEW f \in DOMAIN sent PROVE Pending(f)' <=> Pending(f)
  <2>1. OnLine(f)' <=> OnLine(f)
    <3>1. \A i \in 1 .. Wanted : line[i].frame = f => line[i].place # 1
      BY <1>1
    <3> QED
      BY <1>1, <3>1, OnLineKept DEF LinkInv
  <2>2. CASE line[1].b = Start
    BY <1>1, <2>1, <2>2, SecondStartRead, PendingIs, PendingNext
  <2>3. CASE line[1].b # Start
    <3>1. ~Aligned' /\ (Aligned /\ Head(line).frame = f => f \in altered)
      BY <2>3, SecondStartRead
    <3> QED
      BY <1>1, <2>1, <3>1, PendingIs, PendingNext
  <2> QED
    BY <2>2, <2>3
<1>3. Waiting' = Waiting
  BY <1>1, <1>2, SameWaiting
<1> QED
  BY <1>1, <1>3 DEF Link!vars

(* Reading on in a frame changes nothing for the one who waits.            *)
LEMMA InsideLink ==
    ASSUME LinkInv, Read, Wanted \in Nat, Aligned, Aligned',
           Head(line) = line[1], Head(line').frame = line[1].frame,
           line[1].place + Wanted <= L(line[1].frame)
    PROVE  Waiting' = Waiting
<1>1. UNCHANGED <<sent, altered>>
  BY DEF Read
<1>2. 1 \in DOMAIN line /\ line[1].place >= 2 /\ line[1].place \in Nat /\ L(line[1].frame) \in Nat
  BY AlignedPlace, ByteOf DEF LinkInv, LineInv
<1>3. ASSUME NEW i \in 1 .. Wanted PROVE line[i].place # 1
  <2>1. PICK p \in Nat : p = line[1].place
    BY <1>2
  <2>2. PICK k \in Nat : k = p + i - 1
    OBVIOUS
  <2>a. PICK l \in Nat : l = L(line[1].frame)
    BY <1>2
  <2>b. PICK w \in Nat : w = Wanted
    OBVIOUS
  <2>c. p >= 2 /\ p + w <= l /\ i \in 1 .. w
    BY <1>2, <2>1, <2>a, <2>b
  <2>3. k \in line[1].place .. L(line[1].frame) /\ 1 + k - line[1].place = i /\ k >= 2
    <3>1. k \in p .. l /\ 1 + k - p = i /\ k >= 2
      BY <2>2, <2>c
    <3> QED
      BY <2>1, <2>a, <3>1
  <2>4. line[1 + k - line[1].place].place = k
    BY <1>2, <2>3, Follows DEF LinkInv, LineInv
  <2> QED
    BY <2>3, <2>4
<1>4. \A f : OnLine(f)' <=> OnLine(f)
  BY <1>3, OnLineKept DEF LinkInv
<1> QED
  BY <1>1, <1>4, PendingIs, PendingNext, SameWaiting

LEMMA ReadHeaderLink ==
    ASSUME LinkInv, ReadHeader PROVE UNCHANGED Link!vars
<1>1. /\ Wanted = 3 /\ Wanted \in Nat /\ Read /\ UNCHANGED <<ret, sent, faults>>
      /\ Aligned /\ Aligned' /\ Head(line) = line[1] /\ Head(line').frame = line[1].frame
      /\ line[1].place = 3
  <2>1. Read /\ UNCHANGED <<ret, sent, faults>>
    BY DEF ReadHeader, Read
  <2> QED
    BY <2>1, HeaderRead
<1>2. 1 \in DOMAIN line
  BY <1>1, AlignedPlace DEF LinkInv, LineInv
<1>3. line[1].place + Wanted <= L(line[1].frame)
  BY <1>1, <1>2, ByteOf DEF LinkInv, LineInv
<1>4. Waiting' = Waiting
  BY <1>1, <1>3, InsideLink
<1> QED
  BY <1>1, <1>4 DEF Link!vars

LEMMA ReadDataLink ==
    ASSUME LinkInv, ReadData PROVE UNCHANGED Link!vars
<1>1. /\ Wanted \in Nat /\ Read /\ UNCHANGED <<ret, sent, faults>>
      /\ Aligned /\ Aligned' /\ Head(line) = line[1] /\ Head(line').frame = line[1].frame
      /\ line[1].place + Wanted = L(line[1].frame)
  BY DataRead DEF ReadData, Read
<1>2. 1 \in DOMAIN line
  BY <1>1, AlignedPlace DEF LinkInv, LineInv
<1>3. line[1].place + Wanted <= L(line[1].frame)
  BY <1>1, <1>2, ByteOf DEF LinkInv, LineInv
<1>4. Waiting' = Waiting
  BY <1>1, <1>3, InsideLink
<1> QED
  BY <1>1, <1>4 DEF Link!vars

(* What receive has when it compares the sums: the packet whose frame the  *)
(* bytes it read make up, but for the sum.                                 *)
LEMMA ReceivedFrame ==
    ASSUME LinkInv, ReadSum, NEW l, l = L(line[1].frame)
    PROVE  /\ Fits(Received) /\ Len(Frame(Received)) = l /\ l \in Nat /\ l >= 6
           /\ line[1].frame \in DOMAIN sent
           /\ \A j \in 1 .. l - 1 : Frame(Received)[j] = Reading[j]
           /\ Reading[l] = Got[1]
           /\ IsCopy(Reading, F(line[1].frame), line[1].frame \in altered)
<1> DEFINE f == line[1].frame
           r == Received
<1>1. /\ Aligned /\ 1 \in DOMAIN line /\ line[1].place = l /\ Got[1] = line[1].b /\ pc = "sum"
      /\ r \in [cmd: Byte, res: Byte, data: Seq(Byte)]
  BY SumRead DEF ReadSum
<1>2. /\ f \in DOMAIN sent /\ l \in Nat /\ l >= 6 /\ Fits(sent[f]) /\ Len(F(f)) = l
  BY <1>1, ByteOf, FrameOf DEF LinkInv, LineInv
<1>3. Len(sent[f].data) \in Nat /\ Len(sent[f].data) + 6 = l /\ Len(sent[f].data) + 3 < M
  BY <1>2, FrameBytes DEF Fits, F
<1>4. header[3] = l - 6 /\ Len(data) = header[3]
  BY <1>1, InFrame DEF LinkInv, InStep
<1>5. r.cmd = header[1] /\ r.res = header[2] /\ r.data = data
  BY DEF Received
<1>6. Len(r.data) = l - 6 /\ Fits(r)
  BY <1>1, <1>2, <1>3, <1>4, <1>5 DEF Fits
<1>7. /\ \A k \in 1 .. l : Reading[k] = IF k < l THEN Held(k) ELSE line[k + 1 - l].b
      /\ IsCopy(Reading, F(f), f \in altered)
  BY <1>1, InFrame DEF LinkInv
<1>8. Reading[l] = Got[1]
  <2>1. l \in 1 .. l /\ ~(l < l) /\ l + 1 - l = 1
    BY <1>2
  <2> QED
    BY <1>1, <1>7, <2>1
<1>9. /\ Len(Frame(r)) = Len(r.data) + 6 /\ Frame(r)[1] = Start /\ Frame(r)[2] = Start
      /\ Frame(r)[3] = r.cmd /\ Frame(r)[4] = r.res /\ Frame(r)[5] = Len(r.data)
      /\ \A k \in 1 .. Len(r.data) : Frame(r)[k + 5] = r.data[k]
  BY <1>6, FrameBytes, FrameFields
<1>10. ASSUME NEW j \in 1 .. l - 1 PROVE Frame(r)[j] = Reading[j]
  <2>1. j \in 1 .. l /\ j < l /\ j \in Nat
    BY <1>2
  <2>2. Reading[j] = Held(j)
    BY <1>7, <2>1
  <2>3. CASE j <= 2
    <3>1. j = 1 \/ j = 2
      BY <2>3
    <3> QED
      BY <1>9, <2>2, <2>3, <3>1 DEF Held
  <2>4. CASE j \in 3 .. 5
    <3>1. Held(j) = header[j - 2]
      BY <2>4 DEF Held
    <3>2. j = 3 \/ j = 4 \/ j = 5
      BY <2>4
    <3> QED
      BY <1>4, <1>5, <1>9, <2>2, <3>1, <3>2
  <2>5. CASE j >= 6
    <3>1. /\ ~(j <= 2) /\ ~(j \in 3 .. 5) /\ j - 5 \in 1 .. Len(r.data) /\ (j - 5) + 5 = j
      BY <1>2, <1>6, <2>1, <2>5
    <3>2. Held(j) = data[j - 5]
      BY <3>1 DEF Held
    <3>3. Frame(r)[(j - 5) + 5] = r.data[j - 5]
      BY <1>9, <3>1
    <3> QED
      BY <1>5, <2>2, <3>1, <3>2, <3>3
  <2> QED
    BY <2>1, <2>3, <2>4, <2>5
<1>11. Len(Frame(r)) = l
  BY <1>2, <1>6, <1>9
<1> QED
  BY <1>2, <1>6, <1>7, <1>8, <1>10, <1>11

(* Nothing was altered: the packet is the one that was written.            *)
LEMMA IntactReceived ==
    ASSUME LinkInv, ReadSum, line[1].frame \notin altered
    PROVE  Received = sent[line[1].frame] /\ Sum(Received) = Got[1]
<1> DEFINE f == line[1].frame
           r == Received
           p == sent[f]
<1>l. PICK l : l = L(f)
  OBVIOUS
<1>1. /\ Fits(r) /\ Len(Frame(r)) = l /\ l \in Nat /\ l >= 6 /\ f \in DOMAIN sent
      /\ \A j \in 1 .. l - 1 : Frame(r)[j] = Reading[j]
      /\ Reading[l] = Got[1] /\ IsCopy(Reading, F(f), f \in altered)
  BY <1>l, ReceivedFrame
<1>2. Fits(p) /\ F(f) = Frame(p) /\ Len(Frame(p)) = l
  BY <1>1, <1>l, FrameOf DEF LinkInv, F, L
<1>3. \A j \in 1 .. l : Reading[j] = Frame(p)[j]
  BY <1>1, <1>2 DEF IsCopy
<1>4. \A j \in 1 .. l - 1 : Frame(r)[j] = Frame(p)[j]
  BY <1>1, <1>3
<1>5. /\ Frame(r)[3] = r.cmd /\ Frame(r)[4] = r.res /\ Frame(r)[5] = Len(r.data)
      /\ \A k \in 1 .. Len(r.data) : Frame(r)[k + 5] = r.data[k]
      /\ Len(Frame(r)) = Len(r.data) + 6
  BY <1>1, FrameFields, FrameBytes
<1>6. /\ Frame(p)[3] = p.cmd /\ Frame(p)[4] = p.res /\ Frame(p)[5] = Len(p.data)
      /\ \A k \in 1 .. Len(p.data) : Frame(p)[k + 5] = p.data[k]
      /\ Len(Frame(p)) = Len(p.data) + 6 /\ Frame(p)[Len(p.data) + 6] = Sum(p)
  BY <1>2, FrameFields, FrameBytes
<1>7. /\ r \in [cmd: Byte, res: Byte, data: Seq(Byte)] /\ p \in [cmd: Byte, res: Byte, data: Seq(Byte)]
  BY <1>1, <1>2 DEF Fits
<1>8. 3 \in 1 .. l - 1 /\ 4 \in 1 .. l - 1 /\ 5 \in 1 .. l - 1
  BY <1>1
<1>9. r.cmd = p.cmd /\ r.res = p.res /\ Len(r.data) = Len(p.data)
  BY <1>4, <1>5, <1>6, <1>8
<1>10. r.data \in Seq(Byte) /\ p.data \in Seq(Byte)
  BY <1>7
<1>11. ASSUME NEW k \in 1 .. Len(r.data) PROVE r.data[k] = p.data[k]
  <2>1. k + 5 \in 1 .. l - 1
    BY <1>1, <1>5, <1>10
  <2> QED
    BY <1>4, <1>5, <1>6, <1>9, <2>1
<1>12. r.data = p.data
  BY <1>9, <1>10, <1>11, SeqEqual
<1>13. r = p
  BY <1>7, <1>9, <1>12
<1>14. Reading[l] = Sum(p)
  <2>1. l \in 1 .. l /\ Len(p.data) + 6 = l
    BY <1>1, <1>2, <1>6
  <2> QED
    BY <1>3, <1>6, <2>1
<1> QED
  BY <1>1, <1>13, <1>14

(* A byte was altered: the sums differ.                                    *)
LEMMA AlteredReceived ==
    ASSUME LinkInv, ReadSum, line[1].frame \in altered PROVE Sum(Received) # Got[1]
<1> DEFINE f == line[1].frame
           r == Received
           p == sent[f]
<1>l. PICK l : l = L(f)
  OBVIOUS
<1>1. /\ Fits(r) /\ Len(Frame(r)) = l /\ l \in Nat /\ l >= 6 /\ f \in DOMAIN sent
      /\ \A j \in 1 .. l - 1 : Frame(r)[j] = Reading[j]
      /\ Reading[l] = Got[1] /\ IsCopy(Reading, F(f), f \in altered)
  BY <1>l, ReceivedFrame
<1>2. Fits(p) /\ F(f) = Frame(p) /\ Len(Frame(p)) = l
  BY <1>1, <1>l, FrameOf DEF LinkInv, F, L
<1>3. PICK k \in 1 .. l :
          /\ Reading[k] \notin {Start, Frame(p)[k]}
          /\ \A j \in 1 .. l : j # k => Reading[j] = Frame(p)[j]
  BY <1>1, <1>2 DEF IsCopy
<1>4. /\ Len(Serialized(r)) = Len(r.data) + 3 /\ Serialized(r) \in Seq(Byte)
      /\ Len(Serialized(p)) = Len(p.data) + 3 /\ Serialized(p) \in Seq(Byte)
      /\ Len(r.data) \in Nat /\ Len(p.data) \in Nat
  <2>1. Len(Serialized(r)) = Len(r.data) + 3 /\ Serialized(r) \in Seq(Byte)
    BY <1>1, SerializedBytes
  <2>2. Len(Serialized(p)) = Len(p.data) + 3 /\ Serialized(p) \in Seq(Byte)
    BY <1>2, SerializedBytes
  <2>3. r.data \in Seq(Byte) /\ p.data \in Seq(Byte)
    BY <1>1, <1>2 DEF Fits
  <2> QED
    BY <2>1, <2>2, <2>3
<1>5. /\ Len(r.data) + 6 = l /\ Frame(r)[1] = Start /\ Frame(r)[2] = Start
      /\ \A i \in 1 .. Len(r.data) + 3 : Frame(r)[i + 2] = Serialized(r)[i]
  BY <1>1, FrameBytes
<1>6. /\ Len(p.data) + 6 = l /\ Frame(p)[Len(p.data) + 6] = Sum(p)
      /\ \A i \in 1 .. Len(p.data) + 3 : Frame(p)[i + 2] = Serialized(p)[i]
  BY <1>2, FrameBytes
<1>7. k >= 3
  <2>1. 1 \in 1 .. l - 1 /\ 2 \in 1 .. l - 1
    BY <1>1
  <2>2. k # 1 /\ k # 2
    BY <1>1, <1>3, <1>5, <2>1
  <2> QED
    BY <2>2
<1> DEFINE a == Serialized(r)
           b == Serialized(p)
<1>8. Len(a) = l - 3 /\ Len(b) = l - 3
  BY <1>1, <1>4, <1>5, <1>6
<1>9. ASSUME NEW i \in 1 .. l - 3
      PROVE  /\ i + 2 \in 1 .. l - 1 /\ i + 2 \in 1 .. l /\ a[i] = Reading[i + 2]
             /\ b[i] = Frame(p)[i + 2]
  <2>1. i + 2 \in 1 .. l - 1 /\ i + 2 \in 1 .. l /\ i \in 1 .. Len(r.data) + 3 /\ i \in 1 .. Len(p.data) + 3
    BY <1>1, <1>4, <1>5, <1>6
  <2> QED
    BY <1>1, <1>5, <1>6, <2>1
<1>10. CASE k = l
  <2>1. ASSUME NEW i \in 1 .. l - 3 PROVE a[i] = b[i]
    <3>1. i + 2 # k
      BY <1>1, <1>10
    <3> QED
      BY <1>3, <1>9, <3>1
  <2>2. a = b
    BY <1>4, <1>8, <2>1, SeqEqual
  <2>3. Sum(r) = Sum(p) /\ Frame(p)[l] = Sum(p)
    BY <1>6, <2>2 DEF Sum
  <2> QED
    BY <1>1, <1>3, <1>10, <2>3
<1>11. CASE k # l
  <2>1. k - 2 \in 1 .. l - 3 /\ (k - 2) + 2 = k
    BY <1>1, <1>7, <1>11
  <2>2. a[k - 2] # b[k - 2]
    BY <1>3, <1>9, <2>1
  <2>3. ASSUME NEW i \in 1 .. l - 3, i # k - 2 PROVE a[i] = b[i]
    <3>1. i + 2 # k
      BY <1>1, <2>3
    <3> QED
      BY <1>3, <1>9, <3>1
  <2>5. PICK q \in 1 .. Len(a) : q = k - 2
    BY <1>8, <2>1
  <2>6. a[q] # b[q] /\ \A i \in 1 .. Len(a) : i # q => a[i] = b[i]
    BY <1>8, <2>2, <2>3, <2>5
  <2>7. Len(a) = Len(b) /\ a \in Seq(Byte) /\ b \in Seq(Byte)
    BY <1>4, <1>8
  <2> HIDE DEF a, b
  <2>8. SumOf(a) # SumOf(b)
    BY <2>6, <2>7, SumDiffers
  <2>9. Sum(r) = SumOf(a) /\ Sum(p) = SumOf(b)
    BY DEF Sum, a, b
  <2>10. Reading[l] = Sum(p)
    <3>1. l \in 1 .. l /\ l # k /\ Frame(p)[l] = Sum(p)
      BY <1>1, <1>6, <1>11
    <3> QED
      BY <1>3, <3>1
  <2> QED
    BY <1>1, <2>8, <2>9, <2>10
<1> QED
  BY <1>10, <1>11

LEMMA ReadSumLink ==
    ASSUME LinkInv, ReadSum PROVE Link!Next
<1> DEFINE f == line[1].frame
<1>1. /\ Wanted = 1 /\ Wanted \in Nat /\ Read /\ Aligned /\ ~Aligned'
      /\ 1 \in DOMAIN line /\ Head(line) = line[1] /\ line[1].place = L(f)
  BY SumRead
<1>2. UNCHANGED <<sent, altered, faults>>
  BY <1>1 DEF Read
<1>3. f \in DOMAIN sent /\ line[1].place # 1
  BY <1>1, ByteOf DEF LinkInv, LineInv
<1>4. \A g : OnLine(g)' <=> OnLine(g)
  <2>1. \A g : \A i \in 1 .. Wanted : line[i].frame = g => line[i].place # 1
    BY <1>1, <1>3
  <2> QED
    BY <1>1, <2>1, OnLineKept DEF LinkInv
<1>5. ~OnLine(f)
  BY <1>1, <1>3, HeadTaken DEF LinkInv
<1>6. CASE f \notin altered
  <2>1. Received = sent[f] /\ Sum(Received) = Got[1]
    BY <1>6, IntactReceived
  <2>2. ret' = [res |-> "OK", value |-> <<sent[f]>>]
    BY <2>1 DEF ReadSum
  <2>3. f \in Waiting
    BY <1>1, <1>3, <1>6, PendingIs, WaitingIs
  <2>4. Waiting' = Waiting \ {f}
    <3>1. ASSUME NEW g \in DOMAIN sent PROVE Pending(g)' <=> Pending(g) /\ g # f
      BY <1>1, <1>2, <1>4, <1>5, PendingIs, PendingNext
    <3> QED
      BY <1>2, <3>1, LessWaiting
  <2>5. ASSUME NEW g \in Waiting PROVE f <= g
    <3>1. OnLine(g) \/ g = f
      BY <1>1, PendingIs, WaitingIs
    <3>2. f \in Nat
      BY <1>1, ByteOf DEF LinkInv, LineInv
    <3>3. CASE OnLine(g)
      <4>1. PICK i \in DOMAIN line : line[i].frame = g
        BY <3>3 DEF OnLine
      <4>2. i \in Nat /\ i >= 1 /\ g \in Nat
        BY <4>1, ByteOf DEF LinkInv, LineInv
      <4>3. i = 1 \/ 1 < i
        BY <4>2
      <4> QED
        BY <1>1, <3>2, <4>1, <4>2, <4>3 DEF LinkInv, LineInv, InOrder
    <3> QED
      BY <3>1, <3>2, <3>3
  <2>6. Link!Read
    BY <1>2, <2>2, <2>3, <2>4, <2>5 DEF Link!Read, Link!Nothing
  <2> QED
    BY <2>6 DEF Link!Next
<1>7. CASE f \in altered
  <2>1. faults > 0
    <3>1. faults \in Nat /\ (faults = 0 => altered = {})
      BY DEF LinkInv, Undisturbed, TypeOK
    <3>2. faults # 0
      BY <1>7, <3>1
    <3> QED
      BY <3>1, <3>2
  <2>2. ret' = [res |-> "CHECKSUM_ERROR", value |-> Nothing]
    BY <1>7, AlteredReceived DEF ReadSum
  <2>3. Waiting' = Waiting
    <3>1. ASSUME NEW g \in DOMAIN sent PROVE Pending(g)' <=> Pending(g)
      BY <1>1, <1>2, <1>4, <1>7, PendingIs, PendingNext
    <3> QED
      BY <1>2, <3>1, SameWaiting
  <2>4. Link!Fail
    BY <1>2, <2>1, <2>2, <2>3 DEF Link!Fail, Link!Failures, Link!Nothing, Nothing
  <2> QED
    BY <2>4 DEF Link!Next
<1> QED
  BY <1>6, <1>7

LEMMA TimeOutLink ==
    ASSUME LinkInv, TimeOut PROVE Link!Next
<1>1. /\ pc # "idle" /\ Wanted > 0 /\ pc' = "idle"
      /\ UNCHANGED <<line, header, data, sent, altered>>
      /\ \/ Len(line) < Wanted /\ faults' = faults
         \/ Len(line) >= Wanted /\ Disturb
  BY DEF TimeOut
<1>2. LinkInv'
  BY TimeOutInv
<1>3. ~Aligned'
  BY <1>1, <1>2, OutOfFrameNext DEF LinkInv, LineInv
<1>4. \A g : OnLine(g)' <=> OnLine(g)
  BY <1>1 DEF OnLine
<1>5. CASE Len(line) < Wanted /\ faults' = faults
  <2>1. pc = "start1" /\ line = << >> /\ ~Aligned
    BY <1>1, <1>5, WantOfBytes
  <2>2. \A g : ~OnLine(g)
    BY <2>1 DEF OnLine
  <2>3. Waiting = {}
    BY <2>1, <2>2, PendingIs, WaitingIs
  <2>4. Waiting' = Waiting
    BY <1>1, <1>3, <1>4, <2>1, <2>2, PendingIs, PendingNext, SameWaiting
  <2>5. ret' = [res |-> "TIMEOUT", value |-> Nothing]
    BY <2>1 DEF TimeOut
  <2>6. Link!TimeOut
    BY <1>1, <1>5, <2>3, <2>4, <2>5 DEF Link!TimeOut, Link!Nothing, Nothing
  <2> QED
    BY <2>6 DEF Link!Next
<1>6. CASE Disturb
  <2>1. faults' = faults + 1
    BY <1>6 DEF Disturb
  <2>2. \E r \in Link!Failures : ret' = [res |-> r, value |-> Nothing]
    BY DEF TimeOut, Link!Failures
  <2>3. Waiting' = Waiting \/ \E i \in Waiting : Waiting' = Waiting \ {i}
    <3>1. CASE Aligned
      <4>1. 1 \in DOMAIN line /\ Head(line) = line[1] /\ line[1].place # 1
        BY <3>1, AlignedPlace DEF LinkInv, LineInv
      <4>2. ~OnLine(line[1].frame)
        BY <4>1, HeadTaken DEF LinkInv
      <4>3. PICK f : f = line[1].frame
        OBVIOUS
      <4>4. ASSUME NEW g \in DOMAIN sent PROVE Pending(g)' <=> Pending(g) /\ g # f
        BY <1>1, <1>3, <1>4, <3>1, <4>1, <4>2, <4>3, PendingIs, PendingNext
      <4>5. Waiting' = Waiting \ {f}
        BY <1>1, <4>4, LessWaiting
      <4> QED
        BY <4>5
    <3>2. CASE ~Aligned
      BY <1>1, <1>3, <1>4, <3>2, PendingIs, PendingNext, SameWaiting
    <3> QED
      BY <3>1, <3>2
  <2>4. Link!Fault
    BY <1>1, <2>1, <2>2, <2>3 DEF Link!Fault, Link!Nothing, Nothing
  <2> QED
    BY <2>4 DEF Link!Next
<1> QED
  BY <1>1, <1>5, <1>6

LEMMA WriteLink ==
    ASSUME LinkInv, NEW p \in Packets, Write(p) PROVE Link!Next
<1>n. PICK n \in Nat : n = Len(line)
  BY DEF LinkInv, TypeOK
<1>m. PICK m \in Nat : m = Len(Frame(p))
  BY TransportAssumption, FrameBytes DEF Fits
<1>s. PICK s \in Nat : s = Len(sent) + 1
  BY DEF LinkInv, TypeOK
<1>1. Longer(p, n, m, s)
  BY <1>n, <1>m, <1>s, Written DEF LinkInv, LineInv
<1>2. sent' = Append(sent, p) /\ UNCHANGED <<pc, header, data, ret, altered, faults>>
  BY DEF Write, reader
<1>3. /\ m >= 6 /\ DOMAIN line = 1 .. n /\ DOMAIN line' = 1 .. n + m
      /\ DOMAIN sent = 1 .. s - 1 /\ DOMAIN sent' = 1 .. s /\ Len(sent') = s
      /\ \A i \in 1 .. n : line'[i] = line[i]
      /\ \A k \in 1 .. m : line'[n + k].frame = s /\ line'[n + k].place = k
  <2>1. \A k \in 1 .. m : line'[n + k] = [b |-> Frame(p)[k], frame |-> s, place |-> k]
    BY <1>1 DEF Longer
  <2>2. ASSUME NEW k \in 1 .. m PROVE line'[n + k].frame = s /\ line'[n + k].place = k
    <3>1. line'[n + k] = [b |-> Frame(p)[k], frame |-> s, place |-> k]
      BY <2>1
    <3> QED
      BY <3>1
  <2> QED
    BY <1>1, <2>2 DEF Longer
<1>4. (Aligned' <=> Aligned) /\ (Aligned => Head(line') = Head(line))
  BY WriteAligned
<1>5. ASSUME NEW f \in DOMAIN sent PROVE OnLine(f)' <=> OnLine(f)
  <2>1. ASSUME OnLine(f) PROVE OnLine(f)'
    <3>1. PICK i \in DOMAIN line : line[i].frame = f /\ line[i].place = 1
      BY <2>1 DEF OnLine
    <3>2. i \in DOMAIN line' /\ line'[i] = line[i]
      BY <1>3
    <3> QED
      BY <3>1, <3>2 DEF OnLine
  <2>2. ASSUME OnLine(f)' PROVE OnLine(f)
    <3>1. PICK i \in DOMAIN line' : line'[i].frame = f /\ line'[i].place = 1
      BY <2>2 DEF OnLine
    <3>2. i \in 1 .. n
      <4> SUFFICES ASSUME i \notin 1 .. n PROVE FALSE
        OBVIOUS
      <4>1. i - n \in 1 .. m /\ n + (i - n) = i
        BY <1>3
      <4>2. line'[i].frame = s
        BY <1>3, <4>1
      <4> QED
        BY <1>3, <3>1, <4>2
    <3> QED
      BY <1>3, <3>1, <3>2 DEF OnLine
  <2> QED
    BY <2>1, <2>2
<1>6. s \notin altered /\ s \in DOMAIN sent' /\ s \notin DOMAIN sent
  BY <1>3, <1>s DEF LinkInv, TypeOK
<1>7. Pending(s)'
  <2>1. 1 \in 1 .. m /\ n + 1 \in DOMAIN line'
    BY <1>3
  <2>2. OnLine(s)'
    BY <1>3, <2>1 DEF OnLine
  <2> QED
    BY <1>2, <1>6, <2>2, PendingNext
<1>8. ASSUME NEW f \in DOMAIN sent PROVE Pending(f)' <=> Pending(f)
  BY <1>2, <1>4, <1>5, PendingIs, PendingNext
<1>9. Waiting' = Waiting \cup {Len(sent')}
  <2>1. DOMAIN sent' = DOMAIN sent \cup {s}
    BY <1>3, <1>s DEF LinkInv, TypeOK
  <2> QED
    BY <1>3, <1>7, <1>8, <2>1, WaitingIs, WaitingNext
<1>10. Link!Write
  BY <1>2, <1>9 DEF Link!Write
<1> QED
  BY <1>10 DEF Link!Next

LEMMA AlterLink ==
    ASSUME LinkInv, Alter PROVE Link!Next
<1>1. PICK a \in DOMAIN line, x \in Byte : AlterAt(a, x)
  BY Altering DEF LinkInv
<1>2. UNCHANGED <<pc, header, data, ret, sent>> /\ Disturb
  BY DEF Alter, reader
<1>3. /\ DOMAIN line' = DOMAIN line
      /\ \A j \in DOMAIN line : line'[j].frame = line[j].frame /\ line'[j].place = line[j].place
      /\ altered' = altered \cup {line[a].frame}
  BY <1>1 DEF AlterAt
<1>4. \A g : OnLine(g)' <=> OnLine(g)
  BY <1>3 DEF OnLine
<1>5. (Aligned' <=> Aligned) /\ (Aligned => Head(line') = line'[1])
  BY <1>1, <1>2, AlterReading
<1>6. Aligned => Head(line').frame = Head(line).frame
  BY <1>3, <1>5, AlignedPlace DEF LinkInv, LineInv
<1>7. ASSUME NEW g \in DOMAIN sent PROVE Pending(g)' <=> Pending(g) /\ g # line[a].frame
  BY <1>3, <1>4, <1>5, <1>6, PendingIs, PendingNext
<1>8. PICK f : f = line[a].frame
  OBVIOUS
<1>9. Waiting' = Waiting \ {f}
  BY <1>2, <1>7, <1>8, LessWaiting
<1>10. faults' = faults + 1
  BY <1>2 DEF Disturb
<1>11. Link!Fault
  BY <1>2, <1>9, <1>10 DEF Link!Fault
<1> QED
  BY <1>11 DEF Link!Next

-----------------------------------------------------------------------------

LEMMA InitLink == Init => Link!Init
<1> SUFFICES ASSUME Init PROVE Link!Init
  OBVIOUS
<1>1. DOMAIN sent = {}
  BY DEF Init
<1>2. Waiting = {}
  BY <1>1, WaitingIs
<1> QED
  BY <1>2 DEF Init, Link!Init, Link!Nothing, Nothing

LEMMA NextLink ==
    ASSUME LinkInv, [Next]_vars PROVE [Link!Next]_(Link!vars)
<1>1. CASE \E p \in Packets : Write(p)
  BY <1>1, WriteLink
<1>2. CASE UNCHANGED vars
  <2>1. UNCHANGED <<line, pc, header, data, ret, sent, altered, faults>>
    BY <1>2 DEF vars, reader
  <2>2. Waiting' = Waiting
    BY <2>1 DEF Waiting, Pending, Aligned
  <2> QED
    BY <2>1, <2>2 DEF Link!vars
<1>3. CASE ReadSum \/ TimeOut \/ Alter
  BY <1>3, ReadSumLink, TimeOutLink, AlterLink
<1>4. CASE IsNew \/ FirstStart \/ SecondStart \/ ReadHeader \/ ReadData
  BY <1>4, IsNewLink, FirstStartLink, SecondStartLink, ReadHeaderLink, ReadDataLink
<1> QED
  BY <1>1, <1>2, <1>3, <1>4 DEF Next

(* The framing of transport_t gives protocol_t the link it builds on:      *)
(* packets come out whole and in order, and a fault costs one at most.     *)
THEOREM LinkCorrect == Spec => ImplementsLink
<1>1. LinkInv /\ [Next]_vars => [Link!Next]_(Link!vars)
  BY NextLink
<1> QED
  BY Invariant, InitLink, <1>1, PTL DEF Spec, ImplementsLink, Link!Spec

=============================================================================
