---------------------------- MODULE AtomicProofs ----------------------------
(***************************************************************************)
(* What get_profile may return on a line that loses nothing silently, and  *)
(* what any operation does on one that answers in time, for every          *)
(* component and every number of attempts.                                 *)
(***************************************************************************)
EXTENDS ProtocolProofs, SequenceTheorems

-----------------------------------------------------------------------------
(* The packets of a profile.  From(k) is what is left of them when the     *)
(* first k are read, and Gathered(j, k) the profile_t made of those after  *)
(* the first j and up to the k-th.                                         *)

Total == Len(PortListing)

From(k) == SubSeq(PortListing, k + 1, Total)

(* How many of the first k are input ports.                                *)
Cut(k) == IF k <= Len(InPorts) THEN k ELSE Len(InPorts)

Gathered(j, k) ==
    [in |-> SubSeq(InPorts, Cut(j) + 1, Cut(k)),
     out |-> SubSeq(OutPorts, j - Cut(j) + 1, k - Cut(k))]

(* A listing, packet by packet.                                            *)
LEMMA ListingPackets ==
  ASSUME NEW ins \in Seq(PortNames), NEW outs \in Seq(PortNames)
  PROVE  /\ Len(Listing(ins, outs)) = Len(ins) + Len(outs)
         /\ \A i \in 1 .. Len(ins) + Len(outs) : Listing(ins, outs)[i] =
               IF i <= Len(ins) THEN [cmd |-> "INPORT_PROFILE", port |-> ins[i]]
               ELSE [cmd |-> "OUTPORT_PROFILE", port |-> outs[i - Len(ins)]]
<1> DEFINE s == [i \in 1 .. Len(ins) |-> [cmd |-> "INPORT_PROFILE", port |-> ins[i]]]
           t == [i \in 1 .. Len(outs) |-> [cmd |-> "OUTPORT_PROFILE", port |-> outs[i]]]
<1>1. Len(ins) \in Nat /\ Len(outs) \in Nat
  BY LenProperties
<1>2. s \in Seq(PortPackets) /\ Len(s) = Len(ins)
  BY <1>1 DEF PortPackets
<1>3. t \in Seq(PortPackets) /\ Len(t) = Len(outs)
  BY <1>1 DEF PortPackets
<1>4. \A i \in 1 .. Len(ins) : s[i] = [cmd |-> "INPORT_PROFILE", port |-> ins[i]]
  OBVIOUS
<1>5. \A i \in 1 .. Len(outs) : t[i] = [cmd |-> "OUTPORT_PROFILE", port |-> outs[i]]
  OBVIOUS
<1>6. Listing(ins, outs) = s \o t
  BY DEF Listing
<1> HIDE DEF s, t
<1>7. /\ Len(s \o t) = Len(s) + Len(t)
      /\ \A i \in 1 .. Len(s) + Len(t) :
            (s \o t)[i] = IF i <= Len(s) THEN s[i] ELSE t[i - Len(s)]
  BY <1>2, <1>3, ConcatProperties
<1>8. ASSUME NEW i \in 1 .. Len(ins) + Len(outs)
      PROVE  (s \o t)[i] = IF i <= Len(ins) THEN [cmd |-> "INPORT_PROFILE", port |-> ins[i]]
                           ELSE [cmd |-> "OUTPORT_PROFILE", port |-> outs[i - Len(ins)]]
  <2>1. CASE i <= Len(ins)
    <3>1. i \in 1 .. Len(ins)
      BY <1>1, <2>1
    <3> QED
      BY <1>2, <1>3, <1>4, <1>7, <2>1, <3>1
  <2>2. CASE ~(i <= Len(ins))
    <3>1. i - Len(ins) \in 1 .. Len(outs)
      BY <1>1, <2>2
    <3>2. (s \o t)[i] = t[i - Len(ins)]
      BY <1>2, <1>3, <1>7, <2>2
    <3> QED
      BY <1>5, <2>2, <3>1, <3>2
  <2> QED
    BY <2>1, <2>2
<1> QED
  BY <1>2, <1>3, <1>6, <1>7, <1>8

(* The component's own.                                                    *)
LEMMA OwnPackets ==
  /\ Len(InPorts) \in Nat /\ Len(OutPorts) \in Nat
  /\ Total = Len(InPorts) + Len(OutPorts) /\ Total \in Nat
  /\ \A i \in 1 .. Total : PortListing[i] =
        IF i <= Len(InPorts) THEN [cmd |-> "INPORT_PROFILE", port |-> InPorts[i]]
        ELSE [cmd |-> "OUTPORT_PROFILE", port |-> OutPorts[i - Len(InPorts)]]
<1>1. Len(InPorts) \in Nat /\ Len(OutPorts) \in Nat
  BY PortsAreNames, LenProperties
<1>2. Total = Len(InPorts) + Len(OutPorts)
  BY PortsAreNames, ListingPackets DEF Total, PortListing
<1>3. Total \in Nat
  BY <1>1, <1>2
<1> QED
  BY <1>1, <1>2, <1>3, PortsAreNames, ListingPackets DEF PortListing

(* A part of a sequence, element by element.                               *)
LEMMA PartElements ==
  ASSUME NEW S, NEW s \in Seq(S), NEW a \in Nat, NEW b \in Nat, a <= b, b <= Len(s)
  PROVE  /\ SubSeq(s, a + 1, b) \in Seq(S) /\ Len(SubSeq(s, a + 1, b)) = b - a
         /\ \A i \in 1 .. b - a : SubSeq(s, a + 1, b)[i] = s[a + i]
<1>1. \A i \in a + 1 .. b : s[i] \in S
  BY LenProperties, ElementOfSeq
<1>2. /\ SubSeq(s, a + 1, b) \in Seq(S)
      /\ Len(SubSeq(s, a + 1, b)) = IF a + 1 <= b THEN b - (a + 1) + 1 ELSE 0
      /\ \A i \in 1 .. b - (a + 1) + 1 : SubSeq(s, a + 1, b)[i] = s[(a + 1) + i - 1]
  BY <1>1, SubSeqProperties
<1>3. /\ (IF a + 1 <= b THEN b - (a + 1) + 1 ELSE 0) = b - a
      /\ b - (a + 1) + 1 = b - a /\ \A i \in 1 .. b - a : (a + 1) + i - 1 = a + i
  OBVIOUS
<1> QED
  BY <1>2, <1>3

(* A part of a sequence grows by its next element.                         *)
LEMMA PartGrows ==
  ASSUME NEW S, NEW s \in Seq(S), NEW a \in Nat, NEW b \in Nat, a <= b, b < Len(s)
  PROVE  Append(SubSeq(s, a + 1, b), s[b + 1]) = SubSeq(s, a + 1, b + 1)
<1>1. /\ Len(s) \in Nat /\ a + 1 \in 1 .. Len(s) /\ b + 1 \in a + 1 .. Len(s)
      /\ (b + 1) - 1 = b
  BY LenProperties
<1>2. SubSeq(s, a + 1, b + 1) = SubSeq(s, a + 1, b) \o << s[b + 1] >>
  BY <1>1, SubSeqRecursiveSecond
<1>3. SubSeq(s, a + 1, b) \in Seq(S)
  BY <1>1, PartElements
<1>4. s[b + 1] \in S
  BY <1>1, ElementOfSeq
<1> QED
  BY <1>2, <1>3, <1>4, AppendIsConcat

(* get_profile collects a port.                                            *)
LEMMA PortCollected ==
  ASSUME NEW r \in Profiles, NEW p \in PortNames
  PROVE  /\ [r EXCEPT !.in = Append(@, p)] = [in |-> Append(r.in, p), out |-> r.out]
         /\ [r EXCEPT !.out = Append(@, p)] = [in |-> r.in, out |-> Append(r.out, p)]
<1>1. ASSUME NEW q, NEW s
      PROVE  /\ [r EXCEPT !.in = q] = [in |-> q, out |-> r.out]
             /\ [r EXCEPT !.out = s] = [in |-> r.in, out |-> s]
  BY DEF Profiles
<1> QED
  BY <1>1

(* What was collected is part of the component's profile.                  *)
LEMMA GatheredType ==
  ASSUME NEW j \in Nat, NEW k \in Nat, j <= k, k <= Total
  PROVE  /\ Gathered(j, k) \in Profiles
         /\ Gathered(j, k).in = SubSeq(InPorts, Cut(j) + 1, Cut(k))
         /\ Gathered(j, k).out = SubSeq(OutPorts, j - Cut(j) + 1, k - Cut(k))
<1>1. /\ Len(InPorts) \in Nat /\ Len(OutPorts) \in Nat /\ Total = Len(InPorts) + Len(OutPorts)
      /\ Total \in Nat
  BY OwnPackets
<1>2. /\ Cut(j) \in Nat /\ Cut(k) \in Nat /\ Cut(j) <= Cut(k) /\ Cut(k) <= Len(InPorts)
      /\ j - Cut(j) \in Nat /\ k - Cut(k) \in Nat /\ j - Cut(j) <= k - Cut(k)
      /\ k - Cut(k) <= Len(OutPorts)
  BY <1>1 DEF Cut
<1>3. SubSeq(InPorts, Cut(j) + 1, Cut(k)) \in Seq(PortNames)
  BY <1>2, PortsAreNames, PartElements
<1>4. SubSeq(OutPorts, j - Cut(j) + 1, k - Cut(k)) \in Seq(PortNames)
  <2> DEFINE b == j - Cut(j)
             c == k - Cut(k)
  <2>1. b \in Nat /\ c \in Nat /\ b <= c /\ c <= Len(OutPorts)
    BY <1>2
  <2> HIDE DEF b, c
  <2>2. SubSeq(OutPorts, b + 1, c) \in Seq(PortNames)
    BY <2>1, PortsAreNames, PartElements
  <2> QED
    BY <2>2 DEF b, c
<1> QED
  BY <1>3, <1>4 DEF Gathered, Profiles

(* Reading one more packet of a profile.                                   *)
LEMMA GatherMore ==
  ASSUME NEW j \in Nat, NEW k \in Nat, j <= k, k <= Total, From(k) # << >>
  PROVE  /\ k + 1 <= Total /\ Tail(From(k)) = From(k + 1)
         /\ \/ /\ Head(From(k)).cmd = "INPORT_PROFILE"
               /\ [Gathered(j, k) EXCEPT !.in = Append(@, Head(From(k)).port)]
                     = Gathered(j, k + 1)
            \/ /\ Head(From(k)).cmd = "OUTPORT_PROFILE"
               /\ [Gathered(j, k) EXCEPT !.out = Append(@, Head(From(k)).port)]
                     = Gathered(j, k + 1)
<1> DEFINE n == Len(InPorts)
<1>1. n \in Nat /\ Len(OutPorts) \in Nat /\ Total = n + Len(OutPorts) /\ Total \in Nat
  BY OwnPackets
<1>2. k < Total
  <2>1. Total < k + 1 => From(k) = << >>
    BY <1>1, SubSeqEmpty DEF From
  <2> QED
    BY <1>1, <2>1
<1>3. Tail(From(k)) = From(k + 1) /\ Head(From(k)) = PortListing[k + 1]
  <2>1. k + 1 \in 1 .. Total /\ Total \in k + 1 .. Total
    BY <1>1, <1>2
  <2> QED
    BY <2>1, PortListingType, HeadTailOfSubSeq DEF From, Total
<1>4. Gathered(j, k) \in Profiles
  BY GatheredType
<1>5. CASE k < n
  <2>1. PortListing[k + 1] = [cmd |-> "INPORT_PROFILE", port |-> InPorts[k + 1]]
    <3>1. k + 1 \in 1 .. Total /\ k + 1 <= n
      BY <1>1, <1>2, <1>5
    <3> QED
      BY <3>1, OwnPackets
  <2>2. Cut(k) = k /\ Cut(k + 1) = k + 1 /\ Cut(j) = j
    BY <1>1, <1>5 DEF Cut
  <2>3. Append(SubSeq(InPorts, j + 1, k), InPorts[k + 1]) = SubSeq(InPorts, j + 1, k + 1)
    BY <1>5, PartGrows, PortsAreNames
  <2>4. (k + 1) - (k + 1) = k - k
    BY <1>1
  <2>5. InPorts[k + 1] \in PortNames
    BY <1>1, <1>5, PortsAreNames, ElementOfSeq
  <2>6. Head(From(k)).cmd = "INPORT_PROFILE" /\ Head(From(k)).port = InPorts[k + 1]
    BY <1>3, <2>1
  <2>7. Gathered(j, k + 1) = [in |-> SubSeq(InPorts, j + 1, k + 1),
                              out |-> SubSeq(OutPorts, j - j + 1, k - k)]
    BY <2>2, <2>4 DEF Gathered
  <2>8. /\ Gathered(j, k).in = SubSeq(InPorts, j + 1, k)
        /\ Gathered(j, k).out = SubSeq(OutPorts, j - j + 1, k - k)
    BY <2>2, GatheredType
  <2>9. [Gathered(j, k) EXCEPT !.in = Append(@, Head(From(k)).port)]
           = [in |-> Append(Gathered(j, k).in, Head(From(k)).port), out |-> Gathered(j, k).out]
    BY <1>4, <2>5, <2>6, PortCollected
  <2>10. [in |-> Append(Gathered(j, k).in, Head(From(k)).port), out |-> Gathered(j, k).out]
           = Gathered(j, k + 1)
    BY <2>3, <2>6, <2>7, <2>8
  <2>11. k + 1 <= Total
    BY <1>1, <1>2
  <2> QED
    BY <1>3, <2>6, <2>9, <2>10, <2>11, Zenon
<1>6. CASE k >= n
  <2> DEFINE b == j - Cut(j)
             c == k - n
  <2>1. PortListing[k + 1] = [cmd |-> "OUTPORT_PROFILE", port |-> OutPorts[c + 1]]
    <3>1. k + 1 \in 1 .. Total /\ ~(k + 1 <= n) /\ (k + 1) - n = c + 1
      BY <1>1, <1>2, <1>6
    <3> QED
      BY <3>1, OwnPackets
  <2>2. /\ Cut(k) = n /\ Cut(k + 1) = n /\ b \in Nat /\ c \in Nat /\ b <= c
        /\ c < Len(OutPorts) /\ (k + 1) - n = c + 1
    BY <1>1, <1>2, <1>6 DEF Cut
  <2>3. /\ Gathered(j, k + 1)
             = [in |-> SubSeq(InPorts, Cut(j) + 1, n), out |-> SubSeq(OutPorts, b + 1, c + 1)]
        /\ Gathered(j, k).in = SubSeq(InPorts, Cut(j) + 1, n)
        /\ Gathered(j, k).out = SubSeq(OutPorts, b + 1, c)
    BY <2>2, GatheredType DEF Gathered
  <2> HIDE DEF b, c
  <2>4. Append(SubSeq(OutPorts, b + 1, c), OutPorts[c + 1]) = SubSeq(OutPorts, b + 1, c + 1)
    BY <2>2, PartGrows, PortsAreNames
  <2>5. OutPorts[c + 1] \in PortNames
    BY <1>1, <2>2, PortsAreNames, ElementOfSeq
  <2>6. Head(From(k)).cmd = "OUTPORT_PROFILE" /\ Head(From(k)).port = OutPorts[c + 1]
    BY <1>3, <2>1
  <2>7. [Gathered(j, k) EXCEPT !.out = Append(@, Head(From(k)).port)]
           = [in |-> Gathered(j, k).in, out |-> Append(Gathered(j, k).out, Head(From(k)).port)]
    BY <1>4, <2>5, <2>6, PortCollected
  <2>8. [in |-> Gathered(j, k).in, out |-> Append(Gathered(j, k).out, Head(From(k)).port)]
           = Gathered(j, k + 1)
    BY <2>3, <2>4, <2>6
  <2>9. k + 1 <= Total
    BY <1>1, <1>2
  <2> QED
    BY <1>3, <2>6, <2>7, <2>8, <2>9, Zenon
<1> QED
  BY <1>1, <1>5, <1>6

(* Before the first packet, and after the last.                            *)
LEMMA GatheredEnds ==
  /\ \A j \in Nat : j <= Total => Gathered(j, j) = NoProfile
  /\ Gathered(0, Total) = [in |-> InPorts, out |-> OutPorts]
  /\ From(0) = PortListing
  /\ \A k \in Nat : k <= Total /\ From(k) = << >> => k = Total
<1>1. /\ Total = Len(InPorts) + Len(OutPorts) /\ Len(InPorts) \in Nat /\ Len(OutPorts) \in Nat
      /\ Total \in Nat
  BY OwnPackets
<1>2. ASSUME NEW j \in Nat, j <= Total PROVE Gathered(j, j) = NoProfile
  <2>1. Cut(j) \in Int
    BY <1>1 DEF Cut
  <2>2. /\ SubSeq(InPorts, Cut(j) + 1, Cut(j)) = << >>
        /\ SubSeq(OutPorts, j - Cut(j) + 1, j - Cut(j)) = << >>
    BY <2>1, SubSeqEmpty
  <2> QED
    BY <2>2 DEF Gathered, NoProfile
<1>3. Gathered(0, Total) = [in |-> InPorts, out |-> OutPorts]
  <2>1. /\ Cut(0) = 0 /\ Cut(Total) = Len(InPorts) /\ Total - Cut(Total) = Len(OutPorts)
        /\ 0 + 1 = 1 /\ 0 - 0 = 0
    BY <1>1 DEF Cut
  <2>2. SubSeq(InPorts, 1, Len(InPorts)) = InPorts /\ SubSeq(OutPorts, 1, Len(OutPorts)) = OutPorts
    BY PortsAreNames, SubSeqFull
  <2> QED
    BY <2>1, <2>2 DEF Gathered
<1>4. From(0) = PortListing
  BY PortListingType, SubSeqFull DEF From, Total
<1>5. ASSUME NEW k \in Nat, k <= Total, From(k) = << >> PROVE k = Total
  <2>1. Len(From(k)) = Total - k
    <3>1. k <= Len(PortListing) /\ Len(PortListing) \in Nat /\ Len(PortListing) <= Len(PortListing)
      BY <1>1, <1>5 DEF Total
    <3> QED
      BY <3>1, PortListingType, PartElements DEF From, Total
  <2>2. Len(<< >>) = 0
    OBVIOUS
  <2> QED
    BY <1>1, <1>5, <2>1, <2>2
<1> QED
  BY <1>2, <1>3, <1>4, <1>5

(* A sequence read backwards.                                              *)
LEMMA ReverseElements ==
  ASSUME NEW S, NEW s \in Seq(S)
  PROVE  /\ Reverse(s) \in Seq(S) /\ Len(Reverse(s)) = Len(s)
         /\ \A i \in 1 .. Len(s) : Reverse(s)[i] = s[(Len(s) - i) + 1]
<1>1. Len(s) \in Nat
  BY LenProperties
<1>2. \A i \in 1 .. Len(s) : s[(Len(s) - i) + 1] \in S
  <2>1. \A i \in 1 .. Len(s) : (Len(s) - i) + 1 \in 1 .. Len(s)
    BY <1>1
  <2> QED
    BY <2>1, ElementOfSeq
<1>3. [i \in 1 .. Len(s) |-> s[(Len(s) - i) + 1]] \in Seq(S)
  BY <1>1, <1>2
<1>4. Len([i \in 1 .. Len(s) |-> s[(Len(s) - i) + 1]]) = Len(s)
  BY <1>1
<1> QED
  BY <1>3, <1>4 DEF Reverse

(* What is left of a sequence without its first j elements is a suffix.    *)
LEMMA LastPart ==
  ASSUME NEW S, NEW t \in Seq(S), NEW j \in Nat, j <= Len(t)
  PROVE  IsSuffix(SubSeq(t, j + 1, Len(t)), t)
<1> DEFINE s == SubSeq(t, j + 1, Len(t))
           l == Len(t) - j
<1>1. Len(t) \in Nat /\ l \in Nat /\ l <= Len(t)
  BY LenProperties
<1>2. /\ s \in Seq(S) /\ Len(s) = l
      /\ \A i \in 1 .. l : s[i] = t[j + i]
  BY <1>1, PartElements
<1> HIDE DEF s
<1>3. /\ Reverse(s) \in Seq(S) /\ Len(Reverse(s)) = l
      /\ Reverse(t) \in Seq(S) /\ Len(Reverse(t)) = Len(t)
  BY <1>2, ReverseElements
<1>4. ASSUME NEW i \in 1 .. l PROVE Reverse(s)[i] = Reverse(t)[i]
  <2>1. /\ i \in 1 .. Len(t) /\ (l - i) + 1 \in 1 .. l
        /\ j + ((l - i) + 1) = (Len(t) - i) + 1
    BY <1>1
  <2>2. Reverse(s)[i] = s[(l - i) + 1]
    BY <1>2, ReverseElements
  <2>3. Reverse(t)[i] = t[(Len(t) - i) + 1]
    BY <2>1, ReverseElements
  <2>4. s[(l - i) + 1] = t[j + ((l - i) + 1)]
    BY <1>2, <2>1
  <2> QED
    BY <2>1, <2>2, <2>3, <2>4
<1>5. SubSeq(Reverse(s), 1, l) = SubSeq(Reverse(t), 1, l)
  <2> DEFINE p == SubSeq(Reverse(s), 1, l)
             q == SubSeq(Reverse(t), 1, l)
  <2>1. 0 + 1 = 1 /\ l - 0 = l /\ \A i \in 1 .. l : 0 + i = i
    BY <1>1
  <2>2. p \in Seq(S) /\ Len(p) = l /\ \A i \in 1 .. l : p[i] = Reverse(s)[i]
    <3>1. /\ SubSeq(Reverse(s), 0 + 1, l) \in Seq(S) /\ Len(SubSeq(Reverse(s), 0 + 1, l)) = l - 0
          /\ \A i \in 1 .. l - 0 : SubSeq(Reverse(s), 0 + 1, l)[i] = Reverse(s)[0 + i]
      BY <1>1, <1>3, PartElements
    <3> QED
      BY <2>1, <3>1
  <2>3. q \in Seq(S) /\ Len(q) = l /\ \A i \in 1 .. l : q[i] = Reverse(t)[i]
    <3>1. /\ SubSeq(Reverse(t), 0 + 1, l) \in Seq(S) /\ Len(SubSeq(Reverse(t), 0 + 1, l)) = l - 0
          /\ \A i \in 1 .. l - 0 : SubSeq(Reverse(t), 0 + 1, l)[i] = Reverse(t)[0 + i]
      BY <1>1, <1>3, PartElements
    <3> QED
      BY <2>1, <3>1
  <2> HIDE DEF p, q
  <2> QED
    BY <1>4, <2>2, <2>3, SeqEqual DEF p, q
<1>6. IsPrefix(Reverse(s), Reverse(t))
  BY <1>1, <1>3, <1>5 DEF IsPrefix
<1> QED
  BY <1>6 DEF IsSuffix, s

(* A profile that ends with the last packet lists the last ports.          *)
LEMMA GatheredIsSuffix ==
  ASSUME NEW j \in Nat, j <= Total
  PROVE  IsSuffix(Listing(Gathered(j, Total).in, Gathered(j, Total).out), PortListing)
<1> DEFINE n == Len(InPorts)
           m == Len(OutPorts)
           c == Cut(j)
           ins == SubSeq(InPorts, c + 1, n)
           outs == SubSeq(OutPorts, j - c + 1, m)
           s == Listing(ins, outs)
<1>1. n \in Nat /\ m \in Nat /\ Total = n + m /\ Total \in Nat
  BY OwnPackets
<1>2. /\ c \in Nat /\ c <= n /\ j - c \in Nat /\ j - c <= m /\ (c < n => j = c)
      /\ Cut(Total) = n /\ Total - n = m
  BY <1>1 DEF Cut
<1>3. Gathered(j, Total).in = ins /\ Gathered(j, Total).out = outs
  <2>1. /\ Gathered(j, Total).in = SubSeq(InPorts, Cut(j) + 1, Cut(Total))
        /\ Gathered(j, Total).out = SubSeq(OutPorts, j - Cut(j) + 1, Total - Cut(Total))
    BY <1>1, GatheredType
  <2> QED
    BY <1>2, <2>1
<1>4. /\ ins \in Seq(PortNames) /\ Len(ins) = n - c
      /\ \A i \in 1 .. n - c : ins[i] = InPorts[c + i]
  <2>1. c \in Nat /\ c <= n /\ n <= Len(InPorts) /\ n \in Nat
    BY <1>1, <1>2
  <2> HIDE DEF c
  <2> QED
    BY <2>1, PortsAreNames, PartElements
<1>5. /\ outs \in Seq(PortNames) /\ Len(outs) = m - (j - c)
      /\ \A i \in 1 .. m - (j - c) : outs[i] = OutPorts[(j - c) + i]
  <2> DEFINE d == j - c
  <2>1. d \in Nat /\ d <= m
    BY <1>2
  <2> HIDE DEF d
  <2>2. /\ SubSeq(OutPorts, d + 1, m) \in Seq(PortNames) /\ Len(SubSeq(OutPorts, d + 1, m)) = m - d
        /\ \A i \in 1 .. m - d : SubSeq(OutPorts, d + 1, m)[i] = OutPorts[d + i]
    BY <1>1, <2>1, PortsAreNames, PartElements
  <2> QED
    BY <2>2 DEF d
<1> HIDE DEF c, ins, outs
<1>6. /\ Len(s) = Total - j /\ s \in Seq(PortPackets)
      /\ \A i \in 1 .. Total - j :
            s[i] = IF i <= n - c THEN [cmd |-> "INPORT_PROFILE", port |-> ins[i]]
                   ELSE [cmd |-> "OUTPORT_PROFILE", port |-> outs[i - (n - c)]]
  <2>1. (n - c) + (m - (j - c)) = Total - j
    BY <1>1, <1>2
  <2>2. s \in Seq(PortPackets)
    BY <1>4, <1>5, ListingType
  <2>3. /\ Len(s) = Len(ins) + Len(outs)
        /\ \A i \in 1 .. Len(ins) + Len(outs) :
              s[i] = IF i <= Len(ins) THEN [cmd |-> "INPORT_PROFILE", port |-> ins[i]]
                     ELSE [cmd |-> "OUTPORT_PROFILE", port |-> outs[i - Len(ins)]]
    BY <1>4, <1>5, ListingPackets
  <2> QED
    BY <1>4, <1>5, <2>1, <2>2, <2>3
<1>7. ASSUME NEW i \in 1 .. Total - j PROVE s[i] = PortListing[j + i]
  <2>0. j + i \in 1 .. Total
    BY <1>1
  <2>1. CASE i <= n - c
    <3>1. i \in 1 .. n - c /\ j + i = c + i /\ c + i <= n
      BY <1>1, <1>2, <2>1
    <3>2. s[i] = [cmd |-> "INPORT_PROFILE", port |-> InPorts[c + i]]
      BY <1>4, <1>6, <2>1, <3>1
    <3> QED
      BY <2>0, <3>1, <3>2, OwnPackets
  <2>2. CASE ~(i <= n - c)
    <3>1. /\ i - (n - c) \in 1 .. m - (j - c) /\ ~(j + i <= n)
          /\ (j - c) + (i - (n - c)) = (j + i) - n
      BY <1>1, <1>2, <2>2
    <3>2. s[i] = [cmd |-> "OUTPORT_PROFILE", port |-> OutPorts[(j - c) + (i - (n - c))]]
      BY <1>5, <1>6, <2>2, <3>1
    <3> QED
      BY <2>0, <3>1, <3>2, OwnPackets
  <2> QED
    BY <2>1, <2>2
<1> HIDE DEF s
<1>8. /\ From(j) \in Seq(PortPackets) /\ Len(From(j)) = Total - j
      /\ \A i \in 1 .. Total - j : From(j)[i] = PortListing[j + i]
  BY <1>1, PortListingType, PartElements DEF From, Total
<1>9. s = From(j)
  BY <1>6, <1>7, <1>8, SeqEqual
<1>10. IsSuffix(From(j), PortListing)
  BY PortListingType, LastPart DEF From, Total
<1> QED
  BY <1>3, <1>9, <1>10 DEF s

-----------------------------------------------------------------------------
(* A burst on a line that has lost nothing silently holds the last packets *)
(* of the component's profile, or no port packets at all; and what the     *)
(* host has collected ends where the burst at the head goes on.            *)

Portion(b) ==
    IF b.cmd = "GET_PROFILE" THEN \E k \in Nat : k <= Total /\ b.ports = From(k)
    ELSE b.ports = << >>

Continues(b) ==
    /\ b.cmd = "GET_PROFILE"
    /\ \E j, k \in Nat : j <= k /\ k <= Total /\ b.ports = From(k) /\ profile = Gathered(j, k)

Portions == \A i \in 1 .. Len(down) : Portion(down[i])

Collecting ==
    pc = "wait" /\ op = "GET_PROFILE"
        => profile = NoProfile \/ (down # << >> /\ Continues(Head(down)))

ProfileInv == TypeOK /\ ProfileIsSuffix /\ (line # "lossy" => Portions /\ Collecting)

(* Taking a port packet off the line leaves the rest of its burst.         *)
LEMMA PortTaken ==
  ASSUME TypeOK, down # << >>, Head(down).ports # << >>
  PROVE  /\ Len(AfterPacket) = Len(down) /\ AfterPacket # << >>
         /\ Head(AfterPacket).cmd = Head(down).cmd
         /\ Head(AfterPacket).ports = Tail(Head(down).ports)
         /\ AfterPacket[1] = Head(AfterPacket)
         /\ \A i \in 2 .. Len(down) : AfterPacket[i] = down[i]
<1>1. down \in Seq(Bursts) /\ down[1] \in Bursts /\ Head(down) = down[1] /\ 1 \in 1 .. Len(down)
  BY DEF TypeOK
<1>2. AfterPacket = [down EXCEPT ![1].ports = Tail(@)]
  BY DEF AfterPacket
<1>3. /\ AfterPacket[1].cmd = down[1].cmd /\ AfterPacket[1].ports = Tail(down[1].ports)
      /\ Len(AfterPacket) = Len(down) /\ \A i \in 2 .. Len(down) : AfterPacket[i] = down[i]
  BY <1>1, <1>2 DEF Bursts
<1>4. AfterPacket \in Seq(Bursts) /\ Len(AfterPacket) >= 1
  BY <1>1, <1>3, AfterPacketType, LenProperties
<1> QED
  BY <1>1, <1>3, <1>4

(* A packet is taken off the line, whatever becomes of it.                 *)
LEMMA PortionsAfterPacket ==
  ASSUME TypeOK, Portions, down # << >>, down' = AfterPacket
  PROVE  Portions'
<1>1. down \in Seq(Bursts) /\ Head(down) = down[1] /\ Len(down) \in Nat /\ Len(down) >= 1
  BY DEF TypeOK
<1>2. CASE Head(down).ports = << >>
  <2>1. down' = Tail(down)
    BY <1>2 DEF AfterPacket
  <2>2. Len(down') = Len(down) - 1 /\ \A i \in 1 .. Len(down') : down'[i] = down[i + 1]
    BY <1>1, <2>1, HeadTailProperties
  <2>3. \A i \in 1 .. Len(down') : i + 1 \in 1 .. Len(down)
    BY <1>1, <2>2
  <2> QED
    BY <2>2, <2>3 DEF Portions, Portion
<1>3. CASE Head(down).ports # << >>
  <2>1. Portion(down[1])
    BY <1>1 DEF Portions
  <2>2. down[1].cmd = "GET_PROFILE"
    BY <1>1, <1>3, <2>1 DEF Portion
  <2>3. PICK k \in Nat : k <= Total /\ down[1].ports = From(k)
    BY <2>1, <2>2 DEF Portion
  <2>4. k + 1 <= Total /\ Tail(From(k)) = From(k + 1)
    <3>1. k <= k /\ From(k) # << >>
      BY <1>1, <1>3, <2>3
    <3> QED
      BY <2>3, <3>1, GatherMore
  <2>5. down'[1].cmd = "GET_PROFILE" /\ down'[1].ports = From(k + 1)
    BY <1>1, <1>3, <2>2, <2>3, <2>4, PortTaken
  <2>6. ASSUME NEW i \in 1 .. Len(down') PROVE Portion(down'[i])
    <3>1. CASE i = 1
      BY <2>4, <2>5, <3>1 DEF Portion
    <3>2. CASE i # 1
      <4>1. i \in 2 .. Len(down) /\ down'[i] = down[i]
        BY <1>1, <1>3, <3>2, PortTaken
      <4> QED
        BY <1>1, <4>1 DEF Portions
    <3> QED
      BY <3>1, <3>2
  <2> QED
    BY <2>6 DEF Portions
<1> QED
  BY <1>2, <1>3

(* The board answers, or says that it could not read the request.          *)
LEMMA PortionsAppended ==
  ASSUME TypeOK, Portions, NEW b \in Bursts, Portion(b), down' = Append(down, b)
  PROVE  Portions' /\ (down # << >> => Head(down') = Head(down))
<1>1. down \in Seq(Bursts) /\ Len(down) \in Nat
  BY DEF TypeOK
<1>2. /\ Len(down') = Len(down) + 1 /\ down'[Len(down) + 1] = b
      /\ \A i \in 1 .. Len(down) : down'[i] = down[i]
  BY <1>1, AppendProperties
<1>3. Portions'
  <2>1. ASSUME NEW i \in 1 .. Len(down') PROVE Portion(down'[i])
    <3>1. CASE i = Len(down) + 1
      BY <1>2, <3>1
    <3>2. CASE i # Len(down) + 1
      <4>1. i \in 1 .. Len(down)
        BY <1>1, <1>2, <3>2
      <4> QED
        BY <1>2, <4>1 DEF Portions
    <3> QED
      BY <3>1, <3>2
  <2> QED
    BY <2>1 DEF Portions
<1>4. down # << >> => Head(down') = Head(down)
  BY <1>1, HeadTailAppend
<1> QED
  BY <1>3, <1>4

(* get_profile takes a port packet.                                        *)
LEMMA PortContinues ==
  ASSUME TypeOK, Portions, Collecting, ReceivePort, op = "GET_PROFILE"
  PROVE  down' # << >> /\ Continues(Head(down))' /\ pc' = "wait"
<1>1. /\ pc = "wait" /\ down # << >> /\ Head(down).ports # << >> /\ down' = AfterPacket
      /\ pc' = "wait"
      /\ profile' = IF Head(Head(down).ports).cmd = "INPORT_PROFILE"
                    THEN [profile EXCEPT !.in = Append(@, Head(Head(down).ports).port)]
                    ELSE [profile EXCEPT !.out = Append(@, Head(Head(down).ports).port)]
  BY DEF ReceivePort
<1>2. down \in Seq(Bursts) /\ Head(down) = down[1] /\ 1 \in 1 .. Len(down)
  BY <1>1 DEF TypeOK
<1>3. /\ Head(down).cmd = "GET_PROFILE"
      /\ \E k \in Nat : k <= Total /\ Head(down).ports = From(k)
  BY <1>1, <1>2 DEF Portions, Portion
<1>4. PICK j \in Nat, k \in Nat :
         j <= k /\ k <= Total /\ Head(down).ports = From(k) /\ profile = Gathered(j, k)
  <2>1. CASE profile = NoProfile
    <3>1. PICK k \in Nat : k <= Total /\ Head(down).ports = From(k)
      BY <1>3
    <3>2. profile = Gathered(k, k) /\ k <= k
      BY <2>1, <3>1, GatheredEnds
    <3> QED
      BY <3>1, <3>2
  <2>2. CASE Continues(Head(down))
    BY <2>2 DEF Continues
  <2> QED
    BY <1>1, <2>1, <2>2 DEF Collecting
<1>5. From(k) # << >>
  BY <1>1, <1>4
<1>6. /\ k + 1 <= Total /\ Tail(From(k)) = From(k + 1)
      /\ \/ /\ Head(From(k)).cmd = "INPORT_PROFILE"
            /\ [Gathered(j, k) EXCEPT !.in = Append(@, Head(From(k)).port)] = Gathered(j, k + 1)
         \/ /\ Head(From(k)).cmd = "OUTPORT_PROFILE"
            /\ [Gathered(j, k) EXCEPT !.out = Append(@, Head(From(k)).port)] = Gathered(j, k + 1)
  BY <1>4, <1>5, GatherMore
<1>7. profile' = Gathered(j, k + 1)
  <2>1. CASE Head(From(k)).cmd = "INPORT_PROFILE"
    BY <1>1, <1>4, <1>6, <2>1
  <2>2. CASE Head(From(k)).cmd # "INPORT_PROFILE"
    BY <1>1, <1>4, <1>6, <2>2
  <2> QED
    BY <2>1, <2>2
<1>8. /\ AfterPacket # << >> /\ Head(AfterPacket).cmd = "GET_PROFILE"
      /\ Head(AfterPacket).ports = From(k + 1)
  BY <1>1, <1>3, <1>4, <1>6, PortTaken
<1>9. j <= k + 1
  BY <1>4
<1> QED
  BY <1>1, <1>6, <1>7, <1>8, <1>9 DEF Continues

(* Nothing has been collected when protocol_t is made.                     *)
LEMMA InitProfile == Init => ProfileInv
<1>1. Init => TypeOK
  BY InitType
<1> QED
  BY <1>1 DEF Init, ProfileInv, ProfileIsSuffix, Portions, Collecting

(* What get_profile returns when it has read the closing packet.           *)
LEMMA ProfileReturned ==
  ASSUME TypeOK, Portions, Collecting, ReceiveAnswer, op = "GET_PROFILE"
  PROVE  IsSuffix(Listing(ret'.profile.in, ret'.profile.out), PortListing)
<1>1. /\ pc = "wait" /\ down # << >> /\ Head(down).ports = << >>
      /\ Head(down).cmd = "GET_PROFILE" /\ ret'.profile = profile
  BY DEF ReceiveAnswer, AtClosing, Return
<1>2. \E j \in Nat : j <= Total /\ profile = Gathered(j, Total)
  <2>1. CASE profile = NoProfile
    <3>1. Total \in Nat
      BY OwnPackets
    <3>2. Total <= Total
      BY <3>1
    <3> QED
      BY <2>1, <3>1, <3>2, GatheredEnds
  <2>2. CASE profile # NoProfile
    <3>1. PICK j \in Nat, k \in Nat :
             j <= k /\ k <= Total /\ Head(down).ports = From(k) /\ profile = Gathered(j, k)
      BY <1>1, <2>2 DEF Collecting, Continues
    <3>2. k = Total
      BY <1>1, <3>1, GatheredEnds
    <3> QED
      BY <3>1, <3>2
  <2> QED
    BY <2>1, <2>2
<1> QED
  BY <1>1, <1>2, GatheredIsSuffix

(* A request that is answered gets the whole listing, or no port packets.  *)
LEMMA ReplyIsPortion ==
  ASSUME NEW req, NEW r \in Replies(dev, req.cmd, req.port), NEW c
  PROVE  Portion([cmd |-> r.cmd, res |-> r.res, data |-> r.data, ports |-> r.ports, call |-> c])
<1>1. CASE req.cmd = "GET_PROFILE"
  <2>1. Refusal(dev, req.cmd, req.port) = "OK"
    BY <1>1 DEF Refusal
  <2>2. r.cmd = "GET_PROFILE" /\ r.ports = PortListing
    BY <1>1, <2>1 DEF Replies
  <2>3. Total \in Nat
    BY OwnPackets
  <2>4. 0 \in Nat /\ 0 <= Total
    BY <2>3
  <2>5. From(0) = PortListing
    BY GatheredEnds
  <2> QED
    BY <2>2, <2>4, <2>5 DEF Portion
<1>2. CASE req.cmd # "GET_PROFILE"
  BY <1>2 DEF Replies, Portion
<1> QED
  BY <1>1, <1>2

(* Every step keeps the profile in order, until the line loses a packet.   *)
LEMMA NextProfile == ProfileInv /\ [Next]_vars => ProfileInv'
<1> SUFFICES ASSUME ProfileInv, [Next]_vars PROVE ProfileInv'
  OBVIOUS
<1>i. TypeOK /\ ProfileIsSuffix /\ (line # "lossy" => Portions /\ Collecting)
  BY DEF ProfileInv
<1>t. TypeOK'
  BY <1>i, NextType
<1>1. ASSUME NEW o \in Operations, NEW p \in PortNames \cup {"none"}, Call(o, p)
      PROVE  ProfileInv'
  BY <1>i, <1>t, <1>1 DEF Call, ProfileInv, ProfileIsSuffix, Portions, Collecting
<1>2. CASE Send
  <2>1. UNCHANGED <<down, ret, line>> /\ profile' = NoProfile
    BY <1>2 DEF Send
  <2> QED
    BY <1>i, <1>t, <2>1 DEF ProfileInv, ProfileIsSuffix, Portions, Collecting
<1>3. CASE GiveUp
  <2>1. UNCHANGED <<down, line>> /\ pc' = "idle" /\ (op = "GET_PROFILE" => ret'.res = "TIMEOUT")
        /\ ret'.op = op
    BY <1>3 DEF GiveUp, Return
  <2> QED
    BY <1>i, <1>t, <2>1 DEF ProfileInv, ProfileIsSuffix, Portions, Collecting
<1>4. CASE ReceivePort
  <2>1. UNCHANGED <<op, ret, line>> /\ down # << >> /\ down' = AfterPacket
        /\ (op # "GET_PROFILE" => pc' = "loop")
    BY <1>4 DEF ReceivePort, NextAttempt
  <2>2. line # "lossy" => Portions'
    BY <1>i, <2>1, PortionsAfterPacket
  <2>3. line # "lossy" => Collecting'
    BY <1>i, <1>4, <2>1, PortContinues DEF Collecting
  <2> QED
    BY <1>i, <1>t, <2>1, <2>2, <2>3 DEF ProfileInv, ProfileIsSuffix
<1>5. CASE ReceiveAnswer
  <2>1. UNCHANGED line /\ down # << >> /\ down' = AfterPacket /\ pc' = "idle" /\ ret'.op = op
    BY <1>5 DEF ReceiveAnswer, AtClosing, Return, AfterPacket
  <2>2. line # "lossy" => Portions' /\ Collecting'
    BY <1>i, <2>1, PortionsAfterPacket DEF Collecting
  <2>3. ProfileIsSuffix'
    BY <1>i, <1>5, <2>1, ProfileReturned DEF ProfileIsSuffix
  <2> QED
    BY <1>t, <2>1, <2>2, <2>3 DEF ProfileInv
<1>6. CASE ReceiveOther \/ TimeOut \/ CutShort
  <2>1. UNCHANGED ret /\ pc' = "loop" /\ (line' # "lossy" => line # "lossy")
        /\ (UNCHANGED down \/ (down # << >> /\ down' = AfterPacket))
    BY <1>6 DEF ReceiveOther, TimeOut, CutShort, AtClosing, NextAttempt, AfterPacket, Disturbed
  <2>2. line' # "lossy" => Portions' /\ Collecting'
    BY <1>i, <2>1, PortionsAfterPacket DEF Portions, Collecting
  <2> QED
    BY <1>i, <1>t, <2>1, <2>2 DEF ProfileInv, ProfileIsSuffix
<1>7. CASE ReceiveProfileError
  <2>1. UNCHANGED line /\ down # << >> /\ down' = AfterPacket /\ pc' = "idle" /\ ret'.res # "OK"
    BY <1>7 DEF ReceiveProfileError, AtClosing, Return, AfterPacket, PacketErrors
  <2>2. line # "lossy" => Portions' /\ Collecting'
    BY <1>i, <2>1, PortionsAfterPacket DEF Collecting
  <2> QED
    BY <1>t, <2>1, <2>2 DEF ProfileInv, ProfileIsSuffix
<1>8. CASE SkipUnknown
  <2>1. UNCHANGED <<host, line>> /\ down # << >> /\ down' = AfterPacket /\ pc = "wait"
        /\ op = "GET_PROFILE" /\ Head(down).cmd # "GET_PROFILE"
    BY <1>8 DEF SkipUnknown, AtClosing, AfterPacket
  <2>2. line # "lossy" => Portions' /\ profile' = NoProfile
    BY <1>i, <2>1, PortionsAfterPacket DEF Collecting, Continues, host
  <2> QED
    BY <1>i, <1>t, <2>1, <2>2 DEF ProfileInv, ProfileIsSuffix, Collecting, host
<1>9. CASE BadChecksum
  <2>0. /\ down # << >> /\ down' = AfterPacket /\ (line' # "lossy" => line # "lossy")
        /\ \/ op # "GET_PROFILE" /\ NextAttempt
           \/ op = "GET_PROFILE" /\ Return("CHECKSUM_ERROR", "none", NoProfile, calls)
    BY <1>9 DEF BadChecksum, Disturbed
  <2>1. pc' # "wait" /\ (UNCHANGED ret \/ ret'.res = "CHECKSUM_ERROR")
    BY <2>0 DEF NextAttempt, Return
  <2>2. line' # "lossy" => Portions' /\ Collecting'
    BY <1>i, <2>0, <2>1, PortionsAfterPacket DEF Collecting
  <2> QED
    BY <1>i, <1>t, <2>0, <2>1, <2>2 DEF ProfileInv, ProfileIsSuffix
<1>10. CASE Perform \/ Reject
  <2>1. /\ UNCHANGED host /\ (line' # "lossy" => line # "lossy")
    BY <1>10 DEF Perform, Reject, Disturbed
  <2>2. \E b \in Bursts : Portion(b) /\ down' = Append(down, b)
    <3>0. up # << >> /\ Head(up) \in Requests
      BY <1>i, <1>10 DEF Perform, Reject, TypeOK
    <3>1. CASE Perform
      <4>1. PICK r \in Replies(dev, Head(up).cmd, Head(up).port) :
              down' = Append(down, [cmd |-> r.cmd, res |-> r.res, data |-> r.data,
                                    ports |-> r.ports, call |-> Head(up).call])
        BY <3>1 DEF Perform
      <4> QED
        BY <1>i, <3>0, <4>1, ReplyType, ReplyIsPortion DEF TypeOK
    <3>2. CASE Reject
      <4>1. PICK c \in PacketErrors :
              down' = Append(down, [cmd |-> c, res |-> "ERR", data |-> "none",
                                    ports |-> << >>, call |-> Head(up).call])
        BY <3>2 DEF Reject
      <4>2. [cmd |-> c, res |-> "ERR", data |-> "none", ports |-> << >>,
             call |-> Head(up).call] \in Bursts
        BY <3>0, <4>1 DEF Bursts, Requests, Results, Data
      <4>3. Portion([cmd |-> c, res |-> "ERR", data |-> "none", ports |-> << >>,
                     call |-> Head(up).call])
        BY <4>1 DEF Portion, PacketErrors
      <4> QED
        BY <4>1, <4>2, <4>3
    <3> QED
      BY <1>10, <3>1, <3>2
  <2>3. line' # "lossy" => Portions' /\ (down # << >> => Head(down') = Head(down) /\ down' # << >>)
    <3>1. line' # "lossy" => Portions' /\ (down # << >> => Head(down') = Head(down))
      BY <1>i, <2>1, <2>2, PortionsAppended
    <3>2. down' # << >>
      BY <1>i, <2>2, AppendProperties DEF TypeOK
    <3> QED
      BY <3>1, <3>2
  <2>4. line' # "lossy" => Collecting'
    BY <1>i, <2>1, <2>3 DEF Collecting, Continues, host
  <2> QED
    BY <1>i, <1>t, <2>1, <2>3, <2>4 DEF ProfileInv, ProfileIsSuffix, host
<1>11. CASE LoseRequest \/ LosePacket
  <2>1. UNCHANGED host /\ line' = "lossy"
    BY <1>11 DEF LoseRequest, LosePacket
  <2> QED
    BY <1>i, <1>t, <2>1 DEF ProfileInv, ProfileIsSuffix
<1>12. CASE UNCHANGED vars
  BY <1>i, <1>t, <1>12
  DEF vars, host, ProfileInv, ProfileIsSuffix, Portions, Collecting, Continues
<1> QED
  BY <1>1, <1>2, <1>3, <1>4, <1>5, <1>6, <1>7, <1>8, <1>9, <1>10, <1>11, <1>12
  DEF Next, HostStep

(* Whatever is late or damaged, a profile that get_profile returns is a    *)
(* last part of the component's, in order and without repetition, unless   *)
(* the line has lost a packet unseen.                                      *)
THEOREM ProfileCorrect == Spec => []ProfileIsSuffix
<1>1. ProfileInv => ProfileIsSuffix
  BY DEF ProfileInv
<1> QED
  BY InitProfile, NextProfile, <1>1, PTL DEF Spec

-----------------------------------------------------------------------------
(* As long as nothing has disturbed the line, there is a request on it or  *)
(* its answer, and both only while the host waits.                         *)

Requested ==
    /\ up = <<[cmd |-> op, port |-> port, call |-> calls]>> /\ down = << >>
    /\ profile = NoProfile

(* b answers the operation, which has been performed, or refuses it.       *)
Performed(b) ==
    /\ b.cmd = op
    /\ IF op = "GET_PROFILE"
       THEN \E k \in Nat : k <= Total /\ b.ports = From(k) /\ profile = Gathered(0, k)
       ELSE b.ports = << >> /\ profile = NoProfile

Refused(b) ==
    /\ b.cmd = "PACKET_ERROR" /\ b.ports = << >>
    /\ op # "GET_PROFILE" /\ Refusal(dev, op, port) # "OK"

Replied == up = << >> /\ \E b \in Bursts : down = <<b>> /\ (Performed(b) \/ Refused(b))

Timely ==
    /\ pc # "wait" => up = << >> /\ down = << >>
    /\ pc = "wait" => Requested \/ Replied
    /\ pc = "loop" /\ tries # 0 => Refusal(dev, op, port) # "OK"

TimelyInv == TypeOK /\ (line = "timely" => Timely)

(* A line of one burst.                                                    *)
LEMMA OneBurst ==
  ASSUME NEW b, down = <<b>>
  PROVE  /\ down # << >> /\ Head(down) = b /\ Tail(down) = << >>
         /\ b.ports = << >> => AfterPacket = << >>
  BY DEF AfterPacket

(* Nothing is on the line when protocol_t is made.                         *)
LEMMA InitTimely == Init => TimelyInv
<1>1. Init => TypeOK
  BY InitType
<1> QED
  BY <1>1 DEF Init, TimelyInv, Timely

(* A packet read from a timely line is a port of the profile being         *)
(* collected, the answer, or a refusal.                                    *)
LEMMA TimelyReads ==
  ASSUME TypeOK, Timely, pc = "wait", down # << >>
  PROVE  /\ up = << >>
         /\ \E b \in Bursts : down = <<b>> /\ Head(down) = b /\ (Performed(b) \/ Refused(b))
         /\ op = "GET_PROFILE" => Head(down).cmd = "GET_PROFILE"
         /\ op # "GET_PROFILE" => Head(down).ports = << >>
         /\ Head(down).ports = << >> => AfterPacket = << >> /\ Tail(down) = << >>
<1>1. up = << >> /\ \E b \in Bursts : down = <<b>> /\ (Performed(b) \/ Refused(b))
  BY DEF Timely, Requested, Replied
<1>2. PICK b \in Bursts : down = <<b>> /\ (Performed(b) \/ Refused(b))
  BY <1>1
<1>3. /\ Head(down) = b /\ Tail(down) = << >>
      /\ b.ports = << >> => AfterPacket = << >>
  BY <1>2, OneBurst
<1>4. /\ op = "GET_PROFILE" => b.cmd = "GET_PROFILE"
      /\ op # "GET_PROFILE" => b.ports = << >>
  BY <1>2 DEF Performed, Refused
<1> QED
  BY <1>1, <1>2, <1>3, <1>4

(* get_profile collects a port from a timely line.                         *)
LEMMA TimelyPort ==
  ASSUME TypeOK, Timely, ReceivePort
  PROVE  /\ op = "GET_PROFILE" /\ UNCHANGED <<pc, op, port, up, dev, ret>> /\ pc = "wait"
         /\ up = << >> /\ down # << >>
         /\ \E b \in Bursts : /\ down' = <<b>> /\ Performed(b)'
                             /\ b.cmd = Head(down).cmd /\ b.res = Head(down).res
                             /\ b.data = Head(down).data
<1>1. pc = "wait" /\ down # << >> /\ Head(down).ports # << >> /\ down' = AfterPacket
  BY DEF ReceivePort
<1>2. op = "GET_PROFILE"
  BY <1>1, TimelyReads
<1>3. /\ UNCHANGED <<pc, op, port, up, dev, ret>>
      /\ profile' = IF Head(Head(down).ports).cmd = "INPORT_PROFILE"
                    THEN [profile EXCEPT !.in = Append(@, Head(Head(down).ports).port)]
                    ELSE [profile EXCEPT !.out = Append(@, Head(Head(down).ports).port)]
  BY <1>2 DEF ReceivePort
<1>4. PICK b \in Bursts : down = <<b>> /\ Head(down) = b /\ (Performed(b) \/ Refused(b))
  BY <1>1, TimelyReads
<1>5. b.cmd = "GET_PROFILE" /\ Performed(b)
  BY <1>2, <1>4 DEF Performed, Refused
<1>6. PICK k \in Nat : k <= Total /\ b.ports = From(k) /\ profile = Gathered(0, k)
  BY <1>2, <1>5 DEF Performed
<1>7. 0 \in Nat /\ 0 <= k /\ From(k) # << >>
  BY <1>1, <1>4, <1>6
<1>8. /\ k + 1 <= Total /\ Tail(From(k)) = From(k + 1)
      /\ \/ /\ Head(From(k)).cmd = "INPORT_PROFILE"
            /\ [Gathered(0, k) EXCEPT !.in = Append(@, Head(From(k)).port)] = Gathered(0, k + 1)
         \/ /\ Head(From(k)).cmd = "OUTPORT_PROFILE"
            /\ [Gathered(0, k) EXCEPT !.out = Append(@, Head(From(k)).port)] = Gathered(0, k + 1)
  BY <1>6, <1>7, GatherMore
<1>9. profile' = Gathered(0, k + 1)
  <2>1. CASE Head(From(k)).cmd = "INPORT_PROFILE"
    BY <1>3, <1>4, <1>6, <1>8, <2>1
  <2>2. CASE Head(From(k)).cmd # "INPORT_PROFILE"
    BY <1>3, <1>4, <1>6, <1>8, <2>2
  <2> QED
    BY <2>1, <2>2
<1>10. PICK c \in Bursts : /\ down' = <<c>> /\ c.ports = From(k + 1) /\ c.cmd = b.cmd
                          /\ c.res = b.res /\ c.data = b.data
  <2> DEFINE c == AfterPacket[1]
  <2>1. /\ down \in Seq(Bursts) /\ down[1] = b /\ Len(down) = 1
        /\ AfterPacket = [down EXCEPT ![1].ports = Tail(@)]
    BY <1>1, <1>4 DEF AfterPacket, TypeOK
  <2>2. c.res = b.res /\ c.data = b.data /\ c.cmd = b.cmd /\ c.ports = Tail(b.ports)
    BY <2>1 DEF Bursts
  <2>3. AfterPacket \in Seq(Bursts) /\ Len(AfterPacket) = 1
    BY <1>1, <2>1, AfterPacketType, PortTaken
  <2>4. c \in Bursts /\ AfterPacket = <<c>>
    <3>1. c \in Bursts
      BY <2>3, ElementOfSeq
    <3>2. <<c>> \in Seq(Bursts) /\ Len(<<c>>) = 1 /\ <<c>>[1] = c
      BY <3>1
    <3> QED
      BY <2>3, <3>1, <3>2, SeqEqual
  <2> HIDE DEF c
  <2> QED
    BY <1>1, <1>6, <1>8, <2>2, <2>4
<1>11. Performed(c)'
  BY <1>2, <1>3, <1>5, <1>8, <1>9, <1>10 DEF Performed
<1> QED
  BY <1>1, <1>2, <1>3, <1>4, <1>10, <1>11, TimelyReads

(* The board answers the only request there is.                            *)
LEMMA TimelyReply ==
  ASSUME TypeOK, Timely, Perform
  PROVE  /\ pc = "wait" /\ down = << >> /\ up' = << >> /\ UNCHANGED <<pc, op, port, profile, ret>>
         /\ dev' = Effect(dev, op, port)
         /\ \E b \in Bursts :
               /\ down' = <<b>> /\ Head(down') = b
               /\ b.res = Refusal(dev, op, port) /\ b.data = Content(dev, op, port)
               /\ \/ Performed(b)'
                  \/ Refused(b)' /\ Refusal(dev, op, port) # "OK" /\ dev' = dev
<1>1. up # << >> /\ pc = "wait"
  BY DEF Perform, Timely
<1>2. /\ up = <<[cmd |-> op, port |-> port, call |-> calls]>> /\ down = << >>
      /\ profile = NoProfile
  BY <1>1 DEF Timely, Requested, Replied
<1>3. /\ Head(up) = [cmd |-> op, port |-> port, call |-> calls] /\ Tail(up) = << >>
      /\ Head(up) \in Requests
  <2>1. Head(up) = [cmd |-> op, port |-> port, call |-> calls] /\ Tail(up) = << >>
    BY <1>2
  <2>2. Head(up) \in Requests
    BY <1>1 DEF TypeOK
  <2> QED
    BY <2>1, <2>2
<1>4. /\ up' = << >> /\ dev' = Effect(dev, op, port) /\ UNCHANGED <<pc, op, port, profile, ret>>
  BY <1>3 DEF Perform, host
<1>5. PICK r \in Replies(dev, op, port) :
        down' = Append(down, [cmd |-> r.cmd, res |-> r.res, data |-> r.data,
                              ports |-> r.ports, call |-> calls])
  BY <1>3 DEF Perform
<1>6. [cmd |-> r.cmd, res |-> r.res, data |-> r.data, ports |-> r.ports, call |-> calls] \in Bursts
  BY <1>3, <1>5, ReplyType DEF TypeOK
<1>7. PICK b \in Bursts :
        b = [cmd |-> r.cmd, res |-> r.res, data |-> r.data, ports |-> r.ports, call |-> calls]
  BY <1>6
<1>8. /\ down' = <<b>> /\ Head(down') = b
      /\ b.res = Refusal(dev, op, port) /\ b.data = Content(dev, op, port)
      /\ b.ports = IF op = "GET_PROFILE" THEN PortListing ELSE << >>
      /\ b.cmd = op \/ (b.cmd = "PACKET_ERROR" /\ Refusal(dev, op, port) # "OK")
  <2>1. down' = <<b>> /\ Head(down') = b
    BY <1>2, <1>5, <1>7
  <2>2. /\ b.cmd = r.cmd /\ b.res = Refusal(dev, op, port) /\ b.data = Content(dev, op, port)
        /\ b.ports = IF op = "GET_PROFILE" THEN PortListing ELSE << >>
        /\ b.cmd = op \/ (b.cmd = "PACKET_ERROR" /\ Refusal(dev, op, port) # "OK")
    BY <1>5, <1>7 DEF Replies
  <2> QED
    BY <2>1, <2>2
<1>9. CASE b.cmd = op
  <2>1. CASE op = "GET_PROFILE"
    <3>1. /\ 0 \in Nat /\ 0 <= Total /\ From(0) = PortListing /\ Gathered(0, 0) = NoProfile
      <4>1. Total \in Nat
        BY OwnPackets
      <4>2. 0 \in Nat /\ 0 <= Total
        BY <4>1
      <4> QED
        BY <4>2, GatheredEnds
    <3>2. b.ports = From(0) /\ profile' = Gathered(0, 0) /\ op' = "GET_PROFILE" /\ b.cmd = op'
      BY <1>2, <1>4, <1>8, <1>9, <2>1, <3>1
    <3>3. Performed(b)'
      BY <3>1, <3>2 DEF Performed
    <3> QED
      BY <1>1, <1>2, <1>4, <1>8, <3>3
  <2>2. CASE op # "GET_PROFILE"
    <3>1. Performed(b)'
      BY <1>2, <1>4, <1>8, <1>9, <2>2 DEF Performed
    <3> QED
      BY <1>1, <1>2, <1>4, <1>8, <3>1
  <2> QED
    BY <2>1, <2>2
<1>10. CASE b.cmd = "PACKET_ERROR" /\ Refusal(dev, op, port) # "OK"
  <2>1. dev' = dev
    BY <1>4, <1>10 DEF Effect
  <2>2. op # "GET_PROFILE"
    BY <1>10 DEF Refusal
  <2>3. Refused(b)'
    BY <1>4, <1>8, <1>10, <2>1, <2>2 DEF Refused
  <2> QED
    BY <1>1, <1>2, <1>4, <1>8, <1>10, <2>1, <2>3
<1> QED
  BY <1>8, <1>9, <1>10

(* The answer of an operation, read from a timely line.                    *)
LEMMA TimelyAnswer ==
  ASSUME TypeOK, Timely, ReceiveAnswer
  PROVE  /\ pc = "wait" /\ down # << >> /\ Head(down).cmd = op /\ up = << >>
         /\ pc' = "idle" /\ up' = << >> /\ down' = << >> /\ UNCHANGED <<op, port, dev, tries>>
         /\ ret'.op = op /\ ret'.port = port /\ ret'.data = Head(down).data
         /\ ret'.res = IF op \in SingleShot THEN Head(down).res ELSE "OK"
         /\ ret'.profile = IF op = "GET_PROFILE" THEN [in |-> InPorts, out |-> OutPorts]
                           ELSE NoProfile
<1>1. /\ pc = "wait" /\ down # << >> /\ Head(down).ports = << >> /\ Head(down).cmd = op
      /\ pc' = "idle" /\ UNCHANGED <<op, port, dev, tries, up>> /\ down' = Tail(down)
      /\ ret'.op = op /\ ret'.port = port /\ ret'.data = Head(down).data
      /\ ret'.res = IF op \in SingleShot THEN Head(down).res ELSE "OK"
      /\ ret'.profile = profile
  BY DEF ReceiveAnswer, AtClosing, Return
<1>2. up = << >> /\ Tail(down) = << >>
  BY <1>1, TimelyReads
<1>3. PICK b \in Bursts : down = <<b>> /\ Head(down) = b /\ (Performed(b) \/ Refused(b))
  BY <1>1, TimelyReads
<1>4. Performed(b)
  <2>1. op \in Operations
    BY <1>1 DEF TypeOK
  <2>2. op # "PACKET_ERROR"
    BY <2>1 DEF Operations, Retried, SingleShot
  <2> QED
    BY <1>1, <1>3, <2>2 DEF Refused
<1>5. profile = IF op = "GET_PROFILE" THEN [in |-> InPorts, out |-> OutPorts] ELSE NoProfile
  <2>1. CASE op = "GET_PROFILE"
    <3>1. PICK k \in Nat : k <= Total /\ b.ports = From(k) /\ profile = Gathered(0, k)
      BY <1>4, <2>1 DEF Performed
    <3>2. k = Total
      BY <1>1, <1>3, <3>1, GatheredEnds
    <3> QED
      BY <2>1, <3>1, <3>2, GatheredEnds
  <2>2. CASE op # "GET_PROFILE"
    BY <1>4, <2>2 DEF Performed
  <2> QED
    BY <2>1, <2>2
<1> QED
  BY <1>1, <1>2, <1>5

(* Reading something else than the answer: a refusal.                      *)
LEMMA TimelyRefusal ==
  ASSUME TypeOK, Timely, ReceiveOther
  PROVE  /\ pc = "wait" /\ down # << >> /\ Head(down).cmd # op /\ Refusal(dev, op, port) # "OK"
         /\ pc' = "loop" /\ up' = << >> /\ down' = << >> /\ UNCHANGED <<op, port, dev, ret>>
<1>1. /\ pc = "wait" /\ down # << >> /\ Head(down).ports = << >> /\ Head(down).cmd # op
      /\ pc' = "loop" /\ UNCHANGED <<op, port, dev, ret, up>> /\ down' = Tail(down)
  BY DEF ReceiveOther, AtClosing, NextAttempt
<1>2. up = << >> /\ Tail(down) = << >>
  BY <1>1, TimelyReads
<1>3. PICK b \in Bursts : down = <<b>> /\ Head(down) = b /\ (Performed(b) \/ Refused(b))
  BY <1>1, TimelyReads
<1>4. Refused(b)
  BY <1>1, <1>3 DEF Performed
<1> QED
  BY <1>1, <1>2, <1>4 DEF Refused

(* What cannot happen on a timely line, or makes it one no more.           *)
LEMMA Untimely ==
  ASSUME TypeOK, Timely, line' = "timely"
  PROVE  /\ ~ReceiveProfileError /\ ~SkipUnknown /\ ~TimeOut /\ ~CutShort /\ ~BadChecksum
         /\ ~Reject /\ ~LoseRequest /\ ~LosePacket
<1>1. ~Disturbed
  BY DEF Disturbed
<1>2. ~CutShort /\ ~BadChecksum /\ ~Reject /\ ~LoseRequest /\ ~LosePacket
  BY <1>1 DEF CutShort, BadChecksum, Reject, LoseRequest, LosePacket
<1>3. ~TimeOut
  <2>1. pc = "wait" => up # << >> \/ down # << >>
    BY DEF Timely, Requested, Replied
  <2> QED
    BY <1>1, <2>1 DEF TimeOut
<1>4. ~ReceiveProfileError /\ ~SkipUnknown
  <2>1. ~(pc = "wait" /\ down # << >> /\ op = "GET_PROFILE" /\ Head(down).cmd # "GET_PROFILE")
    BY TimelyReads
  <2> QED
    BY <2>1 DEF ReceiveProfileError, SkipUnknown, AtClosing, PacketErrors
<1> QED
  BY <1>2, <1>3, <1>4

(* The loop is left only after an attempt.                                 *)
LEMMA GiveUpAfterRefusal ==
  ASSUME TypeOK, Timely, GiveUp
  PROVE  Refusal(dev, op, port) # "OK"
<1>1. RetryCount \in Nat /\ RetryCount # 0 /\ tries \in Nat
  BY ProtocolAssumption DEF TypeOK
<1>2. pc = "loop" /\ tries # 0
  BY <1>1 DEF GiveUp, Attempts
<1> QED
  BY <1>2 DEF Timely

(* Every step leaves the line as described, while it is timely.            *)
LEMMA NextTimely == TimelyInv /\ [Next]_vars => TimelyInv'
<1> SUFFICES ASSUME TypeOK, line = "timely" => Timely, [Next]_vars, line' = "timely", TypeOK'
             PROVE  Timely'
  BY NextType DEF TimelyInv
<1>0. line = "timely" /\ Timely
  <2>1. line' = line \/ line' = "lossy" \/ line' = (IF line = "lossy" THEN "lossy" ELSE "late or damaged")
    BY DEF Next, HostStep, vars, host, Call, Send, GiveUp, ReceivePort, ReceiveAnswer, ReceiveOther,
           ReceiveProfileError, SkipUnknown, TimeOut, CutShort, BadChecksum, Perform, Reject,
           LoseRequest, LosePacket, Disturbed
  <2> QED
    BY <2>1
<1>1. ASSUME NEW o \in Operations, NEW p \in PortNames \cup {"none"}, Call(o, p)
      PROVE  Timely'
  BY <1>0, <1>1 DEF Call, Timely
<1>2. CASE Send
  <2>1. up = << >> /\ down = << >> /\ pc' = "wait" /\ UNCHANGED <<op, port, calls, down>>
        /\ profile' = NoProfile /\ up' = Append(up, [cmd |-> op, port |-> port, call |-> calls])
    BY <1>0, <1>2 DEF Send, Timely
  <2>2. Requested'
    BY <2>1 DEF Requested
  <2> QED
    BY <2>1, <2>2 DEF Timely
<1>3. CASE GiveUp
  BY <1>0, <1>3 DEF GiveUp, Return, Timely
<1>4. CASE ReceivePort
  <2>1. /\ pc = "wait" /\ pc' = pc /\ up' = << >>
        /\ \E b \in Bursts : down' = <<b>> /\ Performed(b)'
    BY <1>0, <1>4, TimelyPort
  <2>2. Replied'
    BY <2>1 DEF Replied
  <2> QED
    BY <2>1, <2>2 DEF Timely
<1>5. CASE ReceiveAnswer
  <2>1. pc' = "idle" /\ up' = << >> /\ down' = << >>
    BY <1>0, <1>5, TimelyAnswer
  <2> QED
    BY <2>1 DEF Timely
<1>6. CASE ReceiveOther
  <2>1. /\ pc' = "loop" /\ up' = << >> /\ down' = << >> /\ Refusal(dev, op, port) # "OK"
        /\ UNCHANGED <<op, port, dev>>
    BY <1>0, <1>6, TimelyRefusal
  <2> QED
    BY <2>1 DEF Timely
<1>7. CASE Perform
  <2>1. /\ pc = "wait" /\ pc' = pc /\ up' = << >>
        /\ \E b \in Bursts : down' = <<b>> /\ (Performed(b)' \/ Refused(b)')
    BY <1>0, <1>7, TimelyReply
  <2>2. Replied'
    BY <2>1 DEF Replied
  <2> QED
    BY <2>1, <2>2 DEF Timely
<1>8. CASE UNCHANGED vars
  BY <1>0, <1>8
  DEF vars, host, Timely, Requested, Replied, Performed, Refused
<1> QED
  BY <1>0, <1>1, <1>2, <1>3, <1>4, <1>5, <1>6, <1>7, <1>8, Untimely DEF Next, HostStep

-----------------------------------------------------------------------------
(* The steps of AtomicCall in terms of protocol_t.                         *)

Phase == IF pc = "idle" THEN "idle" ELSE IF Answered THEN "done" ELSE "called"
Answer == IF Answered THEN [res |-> Head(down).res, data |-> Head(down).data]
          ELSE [res |-> "OK", data |-> "none"]
Returned == [op |-> ret.op, port |-> ret.port, res |-> ret.res, data |-> ret.data,
             profile |-> ret.profile]

(* The board of AtomicCall is the board.                                   *)
LEMMA SameBoard ==
  /\ Atomic!Operations = Operations /\ Atomic!SingleShot = SingleShot
  /\ Atomic!PortNames = PortNames /\ Atomic!States = States
  /\ \A d, c, p : /\ Atomic!Refusal(d, c, p) = Refusal(d, c, p)
                  /\ Atomic!Effect(d, c, p) = Effect(d, c, p)
                  /\ Atomic!Content(d, c, p) = Content(d, c, p)
<1>1. \A d, c, p : Atomic!Refusal(d, c, p) = Refusal(d, c, p)
  BY DEF Atomic!Refusal, Refusal
<1>2. \A d, c, p : Atomic!Effect(d, c, p) = Effect(d, c, p)
  BY <1>1 DEF Atomic!Effect, Effect
<1>3. \A d, c, p : Atomic!Content(d, c, p) = Content(d, c, p)
  BY DEF Atomic!Content, Content
<1>4. /\ Atomic!Operations = Operations /\ Atomic!SingleShot = SingleShot
      /\ Atomic!PortNames = PortNames /\ Atomic!States = States
  BY DEF Atomic!Operations, Operations, Atomic!SingleShot, SingleShot, Atomic!Retried, Retried,
         Atomic!PortNames, PortNames, Atomic!States, States
<1> QED
  BY <1>1, <1>2, <1>3, <1>4

(* Nothing of AtomicCall changes.                                          *)
LEMMA Stutters ==
  ASSUME Phase' = Phase, Answer' = Answer, Returned' = Returned, UNCHANGED <<op, port, dev, line>>
  PROVE  UNCHANGED Atomic!vars
  BY DEF Atomic!vars, Phase, Answer, Returned

(* Without an answer on the line there is none.                            *)
LEMMA NotAnswered ==
  ASSUME down = << >> \/ Head(down).cmd # op \/ pc = "idle"
  PROVE  /\ ~Answered /\ Answer = [res |-> "OK", data |-> "none"]
         /\ Phase = IF pc = "idle" THEN "idle" ELSE "called"
  BY DEF Answered, Answer, Phase

(* A protocol_t that was just made is where AtomicCall starts.             *)
LEMMA InitIsAtomic == Init => Atomic!Init
<1> SUFFICES ASSUME Init PROVE Atomic!Init
  OBVIOUS
<1>1. /\ pc = "idle" /\ op = "none" /\ port = "none" /\ line = "timely"
      /\ dev \in [state: States, execs: {0}]
      /\ Returned = [op |-> "none", port |-> "none", res |-> "OK", data |-> "none",
                     profile |-> [in |-> << >>, out |-> << >>]]
  BY DEF Init, Returned, NoProfile
<1>2. Phase = "idle" /\ Answer = [res |-> "OK", data |-> "none"]
  BY <1>1, NotAnswered
<1> QED
  BY <1>1, <1>2, SameBoard DEF Atomic!Init, Atomic!NoAnswer, Phase, Answer, Returned

(* Every step is one of AtomicCall, as long as the line is timely.         *)
LEMMA TimelyStep ==
  ASSUME TypeOK, TypeOK', Timely, Timely', Next, line = "timely", line' = "timely"
  PROVE  Atomic!Next \/ UNCHANGED Atomic!vars
<1>1. ASSUME NEW o \in Operations, NEW p \in PortNames \cup {"none"}, Call(o, p)
      PROVE  Atomic!Call
  <2>1. /\ pc = "idle" /\ pc' = "loop" /\ down' = << >> /\ op' = o /\ port' = p
        /\ (o \in SingleShot <=> p # "none") /\ UNCHANGED <<dev, ret>>
    BY <1>1 DEF Call, Timely
  <2>2. Phase = "idle" /\ Answer = [res |-> "OK", data |-> "none"]
    BY <2>1, NotAnswered
  <2>3. Phase' = "called" /\ Answer' = [res |-> "OK", data |-> "none"] /\ Returned' = Returned
    BY <2>1 DEF Answered, Phase, Answer, Returned
  <2>4. op' \in Operations /\ port' \in (IF op' \in SingleShot THEN PortNames ELSE {"none"})
    BY <2>1
  <2> QED
    BY <2>1, <2>2, <2>3, <2>4, SameBoard DEF Atomic!Call, Phase, Answer, Returned
<1>2. CASE Send
  <2>1. /\ pc = "loop" /\ pc' = "wait" /\ down = << >> /\ down' = << >>
        /\ UNCHANGED <<op, port, dev, ret>>
    BY <1>2 DEF Send, Timely
  <2>2. Phase' = Phase /\ Answer' = Answer /\ Returned' = Returned
    BY <2>1 DEF Answered, Phase, Answer, Returned
  <2> QED
    BY <2>1, <2>2, Stutters
<1>3. CASE GiveUp
  <2>1. /\ pc = "loop" /\ pc' = "idle" /\ down = << >> /\ UNCHANGED <<op, port, dev>>
        /\ \E f \in {"ERR", "CHECKSUM_ERROR", "TIMEOUT"} :
              Returned' = [op |-> op, port |-> port, res |-> f, data |-> "none", profile |-> NoProfile]
    BY <1>3 DEF GiveUp, Return, Timely, Returned
  <2>2. Phase = "called" /\ Answer = [res |-> "OK", data |-> "none"]
    BY <2>1, NotAnswered
  <2>3. Phase' = "idle" /\ Answer' = [res |-> "OK", data |-> "none"]
    BY <2>1 DEF Answered, Phase, Answer
  <2>4. Refusal(dev, op, port) # "OK"
    BY <1>3, GiveUpAfterRefusal
  <2>5. Atomic!Fail
    BY <2>1, <2>2, <2>3, <2>4, SameBoard
    DEF Atomic!Fail, Atomic!Failures, Phase, Answer, Returned, NoProfile
  <2> QED
    BY <2>5 DEF Atomic!Next
<1>4. CASE ReceivePort
  <2>1. /\ op = "GET_PROFILE" /\ UNCHANGED <<pc, op, port, dev, ret>> /\ pc = "wait" /\ down # << >>
        /\ \E b \in Bursts : /\ down' = <<b>> /\ b.cmd = Head(down).cmd /\ b.res = Head(down).res
                            /\ b.data = Head(down).data
    BY <1>4, TimelyPort
  <2>2. /\ down' # << >> /\ Head(down').cmd = Head(down).cmd /\ Head(down').res = Head(down).res
        /\ Head(down').data = Head(down).data
    BY <2>1
  <2>3. Phase' = Phase /\ Answer' = Answer /\ Returned' = Returned
    BY <2>1, <2>2 DEF Answered, Phase, Answer, Returned
  <2> QED
    BY <2>1, <2>3, Stutters
<1>5. CASE ReceiveAnswer
  <2>1. /\ pc = "wait" /\ down # << >> /\ Head(down).cmd = op /\ pc' = "idle"
        /\ UNCHANGED <<op, port, dev>>
        /\ ret'.op = op /\ ret'.port = port /\ ret'.data = Head(down).data
        /\ ret'.res = IF op \in SingleShot THEN Head(down).res ELSE "OK"
        /\ ret'.profile = IF op = "GET_PROFILE" THEN [in |-> InPorts, out |-> OutPorts]
                          ELSE NoProfile
    BY <1>5, TimelyAnswer
  <2>2. Phase = "done" /\ Answer = [res |-> Head(down).res, data |-> Head(down).data]
    BY <2>1 DEF Answered, Phase, Answer
  <2>3. Phase' = "idle" /\ Answer' = [res |-> "OK", data |-> "none"]
    BY <2>1 DEF Answered, Phase, Answer
  <2>4. Answer.res = Head(down).res /\ Answer.data = Head(down).data
    BY <2>2
  <2>5. Returned' = [op |-> op, port |-> port, data |-> Answer.data,
                     res |-> IF op \in SingleShot THEN Answer.res ELSE "OK",
                     profile |-> IF op = "GET_PROFILE" THEN [in |-> InPorts, out |-> OutPorts]
                                 ELSE [in |-> << >>, out |-> << >>]]
    BY <2>1, <2>4 DEF Returned, NoProfile
  <2>6. Atomic!Return
    BY <2>1, <2>2, <2>3, <2>5, SameBoard
    DEF Atomic!Return, Atomic!NoAnswer, Phase, Answer, Returned
  <2> QED
    BY <2>6 DEF Atomic!Next
<1>6. CASE ReceiveOther
  <2>1. /\ pc = "wait" /\ Head(down).cmd # op /\ pc' = "loop" /\ down' = << >>
        /\ UNCHANGED <<op, port, dev, ret>>
    BY <1>6, TimelyRefusal
  <2>2. Phase' = Phase /\ Answer' = Answer /\ Returned' = Returned
    BY <2>1 DEF Answered, Phase, Answer, Returned
  <2> QED
    BY <2>1, <2>2, Stutters
<1>7. CASE Perform
  <2>1. /\ pc = "wait" /\ down = << >> /\ UNCHANGED <<pc, op, port, ret>>
        /\ dev' = Effect(dev, op, port)
        /\ \E b \in Bursts :
               /\ down' = <<b>> /\ Head(down') = b
               /\ b.res = Refusal(dev, op, port) /\ b.data = Content(dev, op, port)
               /\ \/ Performed(b)'
                  \/ Refused(b)' /\ Refusal(dev, op, port) # "OK" /\ dev' = dev
    BY <1>7, TimelyReply
  <2>2. PICK b \in Bursts :
               /\ down' = <<b>> /\ Head(down') = b
               /\ b.res = Refusal(dev, op, port) /\ b.data = Content(dev, op, port)
               /\ \/ Performed(b)'
                  \/ Refused(b)' /\ Refusal(dev, op, port) # "OK" /\ dev' = dev
    BY <2>1
  <2>3. Phase = "called" /\ Answer = [res |-> "OK", data |-> "none"] /\ Returned' = Returned
    BY <2>1, NotAnswered DEF Returned
  <2>4. op \in Operations /\ op # "PACKET_ERROR" /\ down' # << >> /\ pc' # "idle"
    BY <2>1, <2>2 DEF TypeOK, Operations, Retried, SingleShot
  <2>5. CASE b.cmd = op
    <3>1. Phase' = "done" /\ Answer' = [res |-> Refusal(dev, op, port), data |-> Content(dev, op, port)]
      BY <2>1, <2>2, <2>4, <2>5 DEF Answered, Phase, Answer
    <3>2. Atomic!Perform
      BY <2>1, <2>3, <3>1, SameBoard DEF Atomic!Perform, Phase, Answer, Returned
    <3> QED
      BY <3>2 DEF Atomic!Next
  <2>6. CASE b.cmd # op
    <3>1. dev' = dev
      BY <2>1, <2>2, <2>6 DEF Performed
    <3>2. Phase' = "called" /\ Answer' = [res |-> "OK", data |-> "none"]
      BY <2>1, <2>2, <2>4, <2>6 DEF Answered, Phase, Answer
    <3> QED
      BY <2>1, <2>3, <3>1, <3>2, Stutters
  <2> QED
    BY <2>5, <2>6
<1> QED
  BY <1>1, <1>2, <1>3, <1>4, <1>5, <1>6, <1>7, Untimely DEF Next, HostStep, Atomic!Next

(* On a line that answers in time and loses nothing an operation takes     *)
(* effect once, at one instant between its call and its return, for every  *)
(* component and every number of attempts; nothing is promised after the   *)
(* first disturbance.                                                      *)
THEOREM AtomicCorrect == Spec => AtomicWhenTimely
<1>1. TimelyInv /\ TimelyInv' /\ [Next]_vars => [Atomic!Next]_(Atomic!vars)
  <2> SUFFICES ASSUME TimelyInv, TimelyInv', [Next]_vars PROVE [Atomic!Next]_(Atomic!vars)
    OBVIOUS
  <2>1. CASE UNCHANGED vars
    <3>1. UNCHANGED <<pc, op, port, down, dev, ret, line>>
      BY <2>1 DEF vars, host
    <3> QED
      BY <3>1 DEF Atomic!vars, Answered
  <2>2. CASE line' # "timely"
    BY <2>2 DEF Atomic!Next
  <2>3. CASE Next /\ line' = "timely"
    <3>1. line = "timely"
      BY <2>3
      DEF Next, HostStep, host, Call, Send, GiveUp, ReceivePort, ReceiveAnswer, ReceiveOther,
          ReceiveProfileError, SkipUnknown, TimeOut, CutShort, BadChecksum, Perform, Reject,
          LoseRequest, LosePacket, Disturbed
    <3> QED
      BY <2>3, <3>1, TimelyStep DEF TimelyInv
  <2> QED
    BY <2>1, <2>2, <2>3
<1> QED
  BY InitTimely, NextTimely, InitIsAtomic, <1>1, PTL DEF Spec, AtomicWhenTimely, Atomic!Spec
=============================================================================
