------------------------- MODULE UdpAssociateProofs -------------------------
(***************************************************************************)
(* The safety of UdpAssociate for every client stream, every datagram and  *)
(* every length of the addresses.  What a stream decodes to is defined by  *)
(* recursion; the lemmas on it are proved by induction on a set of         *)
(* offsets, which is first-order.                                          *)
(***************************************************************************)
EXTENDS UdpAssociate, TrojanHeaderProofs, WellFoundedInduction

-----------------------------------------------------------------------------
(* Induction on a set of natural numbers.                                  *)

LEMMA Upwards ==
  ASSUME NEW T \in SUBSET Nat, 0 \in T, \A n \in T : n + 1 \in T
  PROVE  T = Nat
<1> DEFINE R == OpToRel(<, Nat)
           B == Nat \ T
<1>1. SUFFICES ASSUME B # {} PROVE FALSE
  OBVIOUS
<1>2. IsWellFoundedOn(R, Nat)
  BY NatLessThanWellFounded
<1>3. PICK x \in B : \A y \in B : <<y, x>> \notin R
  <2> HIDE DEF R
  <2>1. B \subseteq Nat
    OBVIOUS
  <2> HIDE DEF B
  <2> QED
    BY <1>1, <1>2, <2>1, WFMin
<1>4. x - 1 \in B
  <2>1. x \in Nat /\ x # 0 /\ x \notin T
    BY <1>3
  <2>2. x - 1 \in Nat /\ (x - 1) + 1 = x
    BY <2>1
  <2> QED
    BY <2>1, <2>2
<1>5. <<x - 1, x>> \in R
  BY <1>3, <1>4 DEF OpToRel
<1> QED
  BY <1>3, <1>4, <1>5

\* From the end of 0 .. N backwards.
LEMMA Backwards ==
  ASSUME NEW N \in Nat, NEW T,
         \A n \in 0 .. N : (\A m \in n + 1 .. N : m \in T) => n \in T
  PROVE  \A n \in 0 .. N : n \in T
<1> DEFINE U == {k \in Nat : \A m \in 0 .. N : N < m + k => m \in T}
<1>1. 0 \in U
  OBVIOUS
<1>2. ASSUME NEW k \in U PROVE k + 1 \in U
  <2>1. SUFFICES ASSUME NEW m \in 0 .. N, N < m + (k + 1) PROVE m \in T
    OBVIOUS
  <2>2. \A i \in m + 1 .. N : i \in 0 .. N /\ N < i + k
    BY <1>2, <2>1
  <2>3. \A i \in m + 1 .. N : i \in T
    BY <1>2, <2>2
  <2> QED
    BY <2>3
<1>3. U = Nat
  <2>1. U \in SUBSET Nat
    OBVIOUS
  <2> HIDE DEF U
  <2> QED
    BY <1>1, <1>2, <2>1, Upwards
<1>4. N + 1 \in U
  <2> HIDE DEF U
  <2>1. N + 1 \in Nat
    OBVIOUS
  <2> QED
    BY <1>3, <2>1, Zenon
<1> QED
  BY <1>4

\* A set of natural numbers that is not empty has a least element.
LEMMA LeastExists ==
  ASSUME NEW S \in SUBSET Nat, S # {}
  PROVE  \E m \in S : \A k \in S : m <= k
<1> DEFINE R == OpToRel(<, Nat)
<1>1. IsWellFoundedOn(R, Nat)
  BY NatLessThanWellFounded
<1>2. PICK m \in S : \A k \in S : <<k, m>> \notin R
  <2> HIDE DEF R
  <2> QED
    BY <1>1, WFMin
<1>3. ASSUME NEW k \in S PROVE m <= k
  <2>1. ~(k < m)
    BY <1>2 DEF OpToRel
  <2> QED
    BY <2>1
<1> QED
  BY <1>3

-----------------------------------------------------------------------------
(* Decoding.                                                               *)

\* The recursive function in Decode.
IsDecoder(s, f) == f = [n \in 0 .. Len(s) |-> DecodeAfter(s, f, n)]
Decoder(s) == CHOOSE f : IsDecoder(s, f)

FirstEnd(s, n) ==
  CHOOSE m \in FrameEnds(s, n) : \A k \in FrameEnds(s, n) : m <= k

LEMMA FirstEndIsLeast ==
  ASSUME NEW s, NEW n \in Nat, FrameEnds(s, n) # {}
  PROVE  /\ FirstEnd(s, n) \in FrameEnds(s, n)
         /\ \A k \in FrameEnds(s, n) : FirstEnd(s, n) <= k
<1>1. FrameEnds(s, n) \in SUBSET Nat
  BY DEF FrameEnds
<1>2. \E m \in FrameEnds(s, n) : \A k \in FrameEnds(s, n) : m <= k
  BY <1>1, LeastExists
<1> QED
  BY <1>2 DEF FirstEnd

\* What follows offset n depends on what follows later offsets only.
LEMMA DecodeAfterLocal ==
  ASSUME NEW s, NEW n \in Nat, NEW f, NEW g,
         \A m \in n + 1 .. Len(s) : f[m] = g[m]
  PROVE  DecodeAfter(s, f, n) = DecodeAfter(s, g, n)
<1>1. CASE FrameEnds(s, n) = {}
  BY <1>1 DEF DecodeAfter
<1>2. CASE FrameEnds(s, n) # {}
  <2>1. FirstEnd(s, n) \in n + 1 .. Len(s)
    BY <1>2, FirstEndIsLeast DEF FrameEnds
  <2>2. f[FirstEnd(s, n)] = g[FirstEnd(s, n)]
    BY <2>1
  <2> QED
    BY <2>2 DEF DecodeAfter, FirstEnd
<1> QED
  BY <1>1, <1>2

\* The recursion is well-founded: a function that satisfies it is built from the
\* end of the stream.
LEMMA DecoderExists ==
  ASSUME NEW s, Len(s) \in Nat
  PROVE  IsDecoder(s, Decoder(s))
<1> DEFINE N == Len(s)
           From(f, n) == f = [m \in n .. N |-> DecodeAfter(s, f, m)]
           T == {n \in 0 .. N : \E f : From(f, n)}
<1>1. ASSUME NEW n \in 0 .. N, \A m \in n + 1 .. N : m \in T
      PROVE  n \in T
  <2>1. PICK f : \A m \in n + 1 .. N : f[m] = DecodeAfter(s, f, m)
    <3>1. CASE n = N
      BY <3>1
    <3>2. CASE n # N
      <4>1. n + 1 \in T
        BY <1>1, <3>2
      <4>2. PICK f : From(f, n + 1)
        BY <4>1
      <4> QED
        BY <4>2
    <3> QED
      BY <3>1, <3>2
  <2> DEFINE g == [m \in n .. N |-> DecodeAfter(s, f, m)]
  <2>2. \A m \in n + 1 .. N : g[m] = f[m]
    BY <2>1
  <2>3. ASSUME NEW m \in n .. N PROVE g[m] = DecodeAfter(s, g, m)
    <3>1. m \in Nat /\ \A i \in m + 1 .. N : f[i] = g[i]
      BY <2>2
    <3>2. DecodeAfter(s, f, m) = DecodeAfter(s, g, m)
      <4> HIDE DEF g
      <4> QED
        BY <3>1, DecodeAfterLocal
    <3> QED
      BY <3>2
  <2>4. From(g, n)
    <3>1. g = [m \in n .. N |-> g[m]]
      OBVIOUS
    <3> HIDE DEF g
    <3> QED
      BY <2>3, <3>1
  <2> HIDE DEF From, g
  <2> QED
    BY <2>4
<1>2. 0 \in T
  <2> HIDE DEF T
  <2>1. \A n \in 0 .. N : n \in T
    BY <1>1, Backwards
  <2> QED
    BY <2>1
<1>3. \E f : IsDecoder(s, f)
  BY <1>2 DEF IsDecoder
<1> QED
  BY <1>3 DEF Decoder

\* What Decode computes.
LEMMA DecodeUnfolds ==
  ASSUME NEW s, Len(s) \in Nat
  PROVE  /\ Decode(s) = Decoder(s)[0]
         /\ \A n \in 0 .. Len(s) : Decoder(s)[n] = DecodeAfter(s, Decoder(s), n)
<1>1. Decode(s) = Decoder(s)[0]
  BY DEF Decode, Decoder, IsDecoder
<1>2. IsDecoder(s, Decoder(s))
  BY DecoderExists
<1>3. ASSUME NEW n \in 0 .. Len(s)
      PROVE  Decoder(s)[n] = DecodeAfter(s, Decoder(s), n)
  BY <1>2 DEF IsDecoder
<1> QED
  BY <1>1, <1>3

-----------------------------------------------------------------------------
(* read_udp_frame.                                                         *)

UdpFrame == [is : {"Ok"}, address : [type : Byte, host : Seq(Byte), port : Nat],
             payload : Seq(Byte)]

\* The length of the payload of a frame whose address takes a bytes.
FrameSize(s, a) == 256 * s[a + 1] + s[a + 2]

\* The tests of read_udp_frame in their order, by the address's length.
LEMMA ReadFrameByLen ==
  ASSUME NEW s \in Seq(Byte), s # << >>,
         s[1] \in {TYPE_IPV4, TYPE_DOMAIN, TYPE_IPV6},
         ~(s[1] = TYPE_DOMAIN /\ Len(s) = 1),
         NEW a \in Nat, a = AddressLen(s, 0)
  PROVE  ReadFrame(s) =
           IF s[1] = TYPE_DOMAIN /\ s[2] = 0
             THEN Bad("DomainLength")
           ELSE IF Len(s) < a - 2
             THEN Short
           ELSE IF s[1] = TYPE_DOMAIN /\ ~ValidUtf8(HostBytes(s, 0))
             THEN Bad("InvalidUtf8")
           ELSE IF Len(s) < a + 4
             THEN Short
           ELSE IF ~CrlfAt(s, a + 2)
             THEN Bad("CrlfDelimiter")
           ELSE IF Len(s) < a + 4 + FrameSize(s, a)
             THEN Short
           ELSE [is |-> "Ok", address |-> AddressAt(s, 0),
                 payload |-> SubSeq(s, a + 5, a + 4 + FrameSize(s, a))]
<1>1. /\ (a + 4) - 3 = a + 1 /\ (a + 4) - 2 = a + 2 /\ (a + 4) + 1 = a + 5
      /\ a + 4 \in Nat
  OBVIOUS
<1> DEFINE h    == a + 4
           size == 256 * s[h - 3] + s[h - 2]
<1>2. ReadFrame(s) =
           IF s[1] = TYPE_DOMAIN /\ s[2] = 0
             THEN Bad("DomainLength")
           ELSE IF Len(s) < a - 2
             THEN Short
           ELSE IF s[1] = TYPE_DOMAIN /\ ~ValidUtf8(HostBytes(s, 0))
             THEN Bad("InvalidUtf8")
           ELSE IF Len(s) < h
             THEN Short
           ELSE IF ~CrlfAt(s, h - 2)
             THEN Bad("CrlfDelimiter")
           ELSE IF Len(s) < h + size
             THEN Short
           ELSE [is |-> "Ok", address |-> AddressAt(s, 0),
                 payload |-> SubSeq(s, h + 1, h + size)]
  BY Zenon, ZenonT(60) DEF ReadFrame
<1>3. size = FrameSize(s, a)
  BY <1>1, Zenon DEF FrameSize
<1> HIDE DEF size
<1> QED
  BY <1>1, <1>2, <1>3, Zenon

LEMMA KnownAtStart ==
  ASSUME NEW s \in Seq(Byte), s # << >>,
         s[1] \in {TYPE_IPV4, TYPE_DOMAIN, TYPE_IPV6},
         ~(s[1] = TYPE_DOMAIN /\ Len(s) = 1)
  PROVE  /\ AddressLenKnown(s, 0)
         /\ AddressLen(s, 0) \in Nat /\ AddressLen(s, 0) >= 4
<1>1. Len(s) \in Nat \ {0}
  BY EmptySeq
<1>2. AddressLenKnown(s, 0)
  <2>1. PICK l \in Nat \ {0} : l = Len(s)
    BY <1>1
  <2>2. 0 + 1 = 1 /\ l > 0 /\ (l # 1 => l > 1)
    OBVIOUS
  <2> QED
    BY <2>1, <2>2, Zenon DEF AddressLenKnown
<1> QED
  BY <1>2, ByteSeq, AddressLenNat

\* What read_udp_frame has read when it returns a frame.
LEMMA ReadFrameAccepts ==
  ASSUME NEW s \in Seq(Byte), ReadFrame(s).is = "Ok"
  PROVE  LET a == AddressLen(s, 0)
             n == FrameSize(s, a)
         IN  /\ AddressLenKnown(s, 0)
             /\ a \in Nat /\ a >= 4 /\ n \in Nat /\ a + 4 + n <= Len(s)
             /\ ReadFrame(s) = [is |-> "Ok", address |-> AddressAt(s, 0),
                                payload |-> SubSeq(s, a + 5, a + 4 + n)]
<1>1. /\ s # << >>
      /\ s[1] \in {TYPE_IPV4, TYPE_DOMAIN, TYPE_IPV6}
      /\ ~(s[1] = TYPE_DOMAIN /\ Len(s) = 1)
  BY Zenon DEF ReadFrame, Short, Bad
<1>2. PICK a \in Nat : a = AddressLen(s, 0) /\ a >= 4
  BY <1>1, KnownAtStart
<1>3. AddressLenKnown(s, 0)
  BY <1>1, KnownAtStart
<1>4. /\ ~(Len(s) < a + 4) /\ ~(Len(s) < a + 4 + FrameSize(s, a))
      /\ ReadFrame(s) = [is |-> "Ok", address |-> AddressAt(s, 0),
                         payload |-> SubSeq(s, a + 5, a + 4 + FrameSize(s, a))]
  <2>1. /\ Bad("DomainLength").is # "Ok" /\ Short.is # "Ok"
        /\ Bad("InvalidUtf8").is # "Ok" /\ Bad("CrlfDelimiter").is # "Ok"
    BY DEF Short, Bad
  <2>2. ReadFrame(s) =
           IF s[1] = TYPE_DOMAIN /\ s[2] = 0
             THEN Bad("DomainLength")
           ELSE IF Len(s) < a - 2
             THEN Short
           ELSE IF s[1] = TYPE_DOMAIN /\ ~ValidUtf8(HostBytes(s, 0))
             THEN Bad("InvalidUtf8")
           ELSE IF Len(s) < a + 4
             THEN Short
           ELSE IF ~CrlfAt(s, a + 2)
             THEN Bad("CrlfDelimiter")
           ELSE IF Len(s) < a + 4 + FrameSize(s, a)
             THEN Short
           ELSE [is |-> "Ok", address |-> AddressAt(s, 0),
                 payload |-> SubSeq(s, a + 5, a + 4 + FrameSize(s, a))]
    BY <1>1, <1>2, ReadFrameByLen, Zenon
  <2> QED
    BY <2>1, <2>2, Zenon
<1>5. PICK l \in Nat : l = Len(s)
  BY LenProperties
<1>6. s[a + 1] \in Nat /\ s[a + 2] \in Nat
  <2>1. a + 1 \in 1 .. Len(s) /\ a + 2 \in 1 .. Len(s)
    BY <1>4, <1>5
  <2>2. s \in Seq(Nat)
    BY ByteSeq
  <2> QED
    BY <2>1, <2>2, ElementOfSeq
<1>7. PICK n \in Nat : n = FrameSize(s, a)
  BY <1>6 DEF FrameSize
<1>8. a + 4 + n <= Len(s)
  <2>1. ~(l < a + 4 + n)
    BY <1>4, <1>5, <1>7
  <2> QED
    BY <1>5, <2>1
<1> QED
  BY <1>2, <1>3, <1>4, <1>7, <1>8

\* A slice of bytes is bytes.
LEMMA SliceOfBytes ==
  ASSUME NEW s \in Seq(Byte), NEW m \in Int, m >= 1, NEW n \in Int, n <= Len(s)
  PROVE  SubSeq(s, m, n) \in Seq(Byte)
<1>1. \A i \in m .. n : i \in 1 .. Len(s)
  BY LenProperties
<1>2. \A i \in m .. n : s[i] \in Byte
  BY <1>1, ElementOfSeq
<1> QED
  BY <1>2, SubSeqProperties

\* A frame is an address and a payload of bytes.
LEMMA ReadFrameType ==
  ASSUME NEW s \in Seq(Byte), ReadFrame(s).is = "Ok"
  PROVE  ReadFrame(s) \in UdpFrame
<1>1. PICK a \in Nat, n \in Nat :
        /\ a = AddressLen(s, 0) /\ a >= 4 /\ n = FrameSize(s, a)
        /\ a + 4 + n <= Len(s)
        /\ ReadFrame(s) = [is |-> "Ok", address |-> AddressAt(s, 0),
                           payload |-> SubSeq(s, a + 5, a + 4 + n)]
  BY ReadFrameAccepts, Zenon
<1>2. \A i \in 1 .. Len(s) : s[i] \in Byte
  BY ElementOfSeq
<1>3. PICK l \in Nat : l = Len(s)
  BY LenProperties
<1>4. SubSeq(s, a + 5, a + 4 + n) \in Seq(Byte)
  <2>1. /\ a + 5 \in Int /\ a + 5 >= 1
        /\ a + 4 + n \in Int
    OBVIOUS
  <2> QED
    BY <1>1, <2>1, SliceOfBytes
<1>5. HostBytes(s, 0) \in Seq(Byte)
  <2> DEFINE m == IF s[0 + 1] = TYPE_DOMAIN THEN 0 + 3 ELSE 0 + 2
             e == 0 + AddressLen(s, 0) - 2
  <2>1. m \in Int /\ m >= 1 /\ e \in Int /\ e <= Len(s)
    <3>1. a + 4 + n <= l
      BY <1>1, <1>3
    <3>2. 0 + a - 2 \in Int /\ 0 + a - 2 <= l
      BY <3>1
    <3>3. e \in Int /\ e <= Len(s)
      BY <1>1, <1>3, <3>2
    <3>4. 0 + 3 \in Int /\ 0 + 2 \in Int /\ 0 + 3 >= 1 /\ 0 + 2 >= 1
      OBVIOUS
    <3>5. m = 0 + 3 \/ m = 0 + 2
      OBVIOUS
    <3> HIDE DEF m, e
    <3> QED
      BY <3>3, <3>4, <3>5
  <2>2. HostBytes(s, 0) = SubSeq(s, m, e)
    BY DEF HostBytes
  <2> HIDE DEF m, e
  <2> QED
    BY <2>1, <2>2, SliceOfBytes
<1>6. 1 \in 1 .. Len(s) /\ a - 1 \in 1 .. Len(s) /\ a \in 1 .. Len(s)
  <2>1. a >= 4 /\ a + 4 + n <= l
    BY <1>1, <1>3
  <2>2. 1 \in 1 .. l /\ a - 1 \in 1 .. l /\ a \in 1 .. l
    BY <2>1
  <2> QED
    BY <1>3, <2>2
<1>7. PICK x \in Byte, y \in Byte, z \in Byte :
        x = s[1] /\ y = s[a - 1] /\ z = s[a]
  BY <1>2, <1>6
<1>8. AddressAt(s, 0) = [type |-> x, host |-> HostBytes(s, 0), port |-> 256 * y + z]
  <2>1. 0 + 1 = 1 /\ 0 + AddressLen(s, 0) = a
    BY <1>1
  <2>2. AddressAt(s, 0) = [type |-> s[1], host |-> HostBytes(s, 0),
                           port |-> 256 * s[a - 1] + s[a]]
    BY <2>1, Zenon DEF AddressAt
  <2> QED
    BY <1>7, <2>2, Zenon
<1>9. 256 * y + z \in Nat
  BY DEF Byte
<1> QED
  BY <1>1, <1>4, <1>5, <1>8, <1>9 DEF UdpFrame

\* What read_udp_frame has answered it answers on every extension.
LEMMA ReadFrameStable ==
  ASSUME NEW s \in Seq(Byte), NEW t \in Seq(Byte), Begins(s, t), ReadFrame(s) # Short
  PROVE  ReadFrame(t) = ReadFrame(s)
<1>1. PICK l \in Nat, k \in Nat : l = Len(s) /\ k = Len(t) /\ l <= k
  BY LenProperties DEF Begins
<1>2. s # << >>
  BY Zenon DEF ReadFrame
<1>3. l >= 1 /\ t # << >>
  <2>1. Len(s) \in Nat \ {0}
    BY <1>2, EmptySeq
  <2>2. Len(<< >>) = 0
    BY EmptySeq
  <2> QED
    BY <1>1, <2>1, <2>2
<1>4. \A i \in 1 .. l : s[i] = t[i]
  BY <1>1 DEF Begins
<1>5. s[1] = t[1]
  BY <1>3, <1>4
<1>6. CASE s[1] \notin {TYPE_IPV4, TYPE_DOMAIN, TYPE_IPV6}
  BY <1>2, <1>3, <1>5, <1>6, Zenon DEF ReadFrame
<1>7. CASE s[1] \in {TYPE_IPV4, TYPE_DOMAIN, TYPE_IPV6}
  <2>1. ~(s[1] = TYPE_DOMAIN /\ Len(s) = 1)
    BY <1>2, <1>7, Zenon DEF ReadFrame
  <2>2. ~(t[1] = TYPE_DOMAIN /\ Len(t) = 1)
    <3>1. k = 1 => l = 1
      BY <1>1, <1>3
    <3> QED
      BY <1>1, <1>5, <2>1, <3>1, Zenon
  <2>3. AddressLenKnown(s, 0)
    BY <1>2, <1>7, <2>1, KnownAtStart
  <2>4. PICK a \in Nat : a = AddressLen(s, 0) /\ a >= 4
    BY <1>2, <1>7, <2>1, KnownAtStart
  <2>5. s \in Seq(Nat) /\ t \in Seq(Nat)
    BY ByteSeq
  <2>6. a = AddressLen(t, 0)
    BY <2>3, <2>4, <2>5, AddressLenAgrees
  <2>7. s[1] = TYPE_DOMAIN => s[2] = t[2]
    <3>1. s[1] = TYPE_DOMAIN => 2 \in 1 .. l
      BY <1>1, <1>3, <2>1
    <3> QED
      BY <1>4, <3>1
  <2>8. ~(Len(s) < a - 2) => HostBytes(s, 0) = HostBytes(t, 0)
    <3> SUFFICES ASSUME ~(Len(s) < a - 2)
                 PROVE  HostBytes(s, 0) = HostBytes(t, 0)
      OBVIOUS
    <3>1. /\ 0 + 3 \in Nat \ {0} /\ 0 + 2 \in Nat \ {0}
          /\ 0 + a - 2 \in Int /\ 0 + a - 2 <= l /\ 0 + 1 = 1
      BY <1>1
    <3> DEFINE m == IF s[0 + 1] = TYPE_DOMAIN THEN 0 + 3 ELSE 0 + 2
    <3>2. m \in Nat \ {0}
      BY <3>1
    <3>3. /\ HostBytes(s, 0) = SubSeq(s, m, 0 + a - 2)
          /\ HostBytes(t, 0) = SubSeq(t, m, 0 + a - 2)
      BY <1>5, <2>4, <2>6, <3>1 DEF HostBytes
    <3> HIDE DEF m
    <3>4. 0 + a - 2 <= Len(s)
      BY <1>1, <3>1
    <3>5. SubSeq(s, m, 0 + a - 2) = SubSeq(t, m, 0 + a - 2)
      BY <2>5, <3>1, <3>2, <3>4, SubSeqAgrees
    <3> QED
      BY <3>3, <3>5
  <2>9. ~(Len(s) < a + 4) =>
          /\ CrlfAt(s, a + 2) <=> CrlfAt(t, a + 2)
          /\ FrameSize(s, a) = FrameSize(t, a) /\ FrameSize(s, a) \in Nat
          /\ AddressAt(s, 0) = AddressAt(t, 0)
    <3> SUFFICES ASSUME ~(Len(s) < a + 4)
                 PROVE  /\ CrlfAt(s, a + 2) <=> CrlfAt(t, a + 2)
                        /\ FrameSize(s, a) = FrameSize(t, a) /\ FrameSize(s, a) \in Nat
                        /\ AddressAt(s, 0) = AddressAt(t, 0)
      OBVIOUS
    <3>1. a + 4 <= l
      BY <1>1
    <3>2. /\ a + 1 \in 1 .. l /\ a + 2 \in 1 .. l
          /\ (a + 2) + 1 \in 1 .. l /\ (a + 2) + 2 \in 1 .. l
      BY <3>1
    <3>3. CrlfAt(s, a + 2) <=> CrlfAt(t, a + 2)
      BY <1>4, <3>2 DEF CrlfAt
    <3>4. PICK x \in Nat, y \in Nat : x = s[a + 1] /\ y = s[a + 2]
      BY <1>1, <2>5, <3>2, ElementOfSeq
    <3>5. t[a + 1] = x /\ t[a + 2] = y
      BY <1>4, <3>2, <3>4
    <3>6. 256 * x + y \in Nat
      OBVIOUS
    <3>7. FrameSize(s, a) = FrameSize(t, a) /\ FrameSize(s, a) \in Nat
      BY <3>4, <3>5, <3>6 DEF FrameSize
    <3>8. 0 + a <= l
      BY <3>1
    <3>9. 0 + AddressLen(s, 0) <= Len(s)
      BY <1>1, <2>4, <3>8
    <3>10. AddressAt(s, 0) = AddressAt(t, 0)
      BY <2>3, <2>5, <3>9, AddressAgrees
    <3> QED
      BY <3>3, <3>7, <3>10
  <2>10. /\ ~(Len(s) < a - 2) => ~(Len(t) < a - 2)
         /\ ~(Len(s) < a + 4) => ~(Len(t) < a + 4)
    BY <1>1
  <2>11. ASSUME ~(Len(s) < a + 4)
         PROVE  ~(Len(s) < a + 4 + FrameSize(s, a)) =>
                  /\ ~(Len(t) < a + 4 + FrameSize(s, a))
                  /\ SubSeq(s, a + 5, a + 4 + FrameSize(s, a))
                       = SubSeq(t, a + 5, a + 4 + FrameSize(s, a))
    <3>1. PICK n \in Nat : n = FrameSize(s, a)
      BY <2>9, <2>11
    <3> SUFFICES ASSUME ~(Len(s) < a + 4 + n)
                 PROVE  /\ ~(Len(t) < a + 4 + n)
                        /\ SubSeq(s, a + 5, a + 4 + n) = SubSeq(t, a + 5, a + 4 + n)
      BY <3>1
    <3>2. a + 4 + n <= l
      BY <1>1
    <3>3. ~(Len(t) < a + 4 + n)
      BY <1>1, <3>2
    <3>4. a + 5 \in Nat \ {0} /\ a + 4 + n \in Int /\ a + 4 + n <= Len(s)
      BY <1>1, <3>2
    <3> QED
      BY <2>5, <3>3, <3>4, SubSeqAgrees
  <2> DEFINE Of(u) ==
           IF u[1] = TYPE_DOMAIN /\ u[2] = 0
             THEN Bad("DomainLength")
           ELSE IF Len(u) < a - 2
             THEN Short
           ELSE IF u[1] = TYPE_DOMAIN /\ ~ValidUtf8(HostBytes(u, 0))
             THEN Bad("InvalidUtf8")
           ELSE IF Len(u) < a + 4
             THEN Short
           ELSE IF ~CrlfAt(u, a + 2)
             THEN Bad("CrlfDelimiter")
           ELSE IF Len(u) < a + 4 + FrameSize(u, a)
             THEN Short
           ELSE [is |-> "Ok", address |-> AddressAt(u, 0),
                 payload |-> SubSeq(u, a + 5, a + 4 + FrameSize(u, a))]
  <2>12. ReadFrame(s) = Of(s)
    BY <1>2, <1>7, <2>1, <2>4, ReadFrameByLen, Zenon
  <2>13. ReadFrame(t) = Of(t)
    BY <1>3, <1>5, <1>7, <2>2, <2>6, ReadFrameByLen, Zenon
  <2>14. CASE s[1] = TYPE_DOMAIN /\ s[2] = 0
    BY <1>5, <2>7, <2>12, <2>13, <2>14, Zenon
  <2>15. CASE ~(s[1] = TYPE_DOMAIN /\ s[2] = 0)
    <3>1. ~(Len(s) < a - 2)
      BY <2>12, <2>15, Zenon
    <3>2. ~(t[1] = TYPE_DOMAIN /\ t[2] = 0)
      BY <1>5, <2>7, <2>15, Zenon
    <3>3. CASE s[1] = TYPE_DOMAIN /\ ~ValidUtf8(HostBytes(s, 0))
      BY <1>5, <2>8, <2>10, <2>12, <2>13, <2>15, <3>1, <3>2, <3>3, Zenon
    <3>4. CASE ~(s[1] = TYPE_DOMAIN /\ ~ValidUtf8(HostBytes(s, 0)))
      <4>1. ~(Len(s) < a + 4)
        BY <2>12, <2>15, <3>1, <3>4, Zenon
      <4>2. ~(t[1] = TYPE_DOMAIN /\ ~ValidUtf8(HostBytes(t, 0)))
        BY <1>5, <2>8, <3>1, <3>4, Zenon
      <4>3. CASE ~CrlfAt(s, a + 2)
        BY <2>9, <2>10, <2>12, <2>13, <2>15, <3>1, <3>2, <3>4, <4>1, <4>2, <4>3, Zenon
      <4>4. CASE CrlfAt(s, a + 2)
        <5>1. ~(Len(s) < a + 4 + FrameSize(s, a))
          BY <2>12, <2>15, <3>1, <3>4, <4>1, <4>4, Zenon
        <5>2. ReadFrame(s) = [is |-> "Ok", address |-> AddressAt(s, 0),
                   payload |-> SubSeq(s, a + 5, a + 4 + FrameSize(s, a))]
          BY <2>12, <2>15, <3>1, <3>4, <4>1, <4>4, <5>1, Zenon
        <5>3. /\ FrameSize(s, a) = FrameSize(t, a)
              /\ AddressAt(s, 0) = AddressAt(t, 0)
              /\ CrlfAt(t, a + 2)
          BY <2>9, <4>1, <4>4, Zenon
        <5>4. /\ ~(Len(t) < a + 4 + FrameSize(t, a))
              /\ SubSeq(s, a + 5, a + 4 + FrameSize(s, a))
                   = SubSeq(t, a + 5, a + 4 + FrameSize(t, a))
          BY <2>11, <4>1, <5>1, <5>3, Zenon
        <5>5. ReadFrame(t) = [is |-> "Ok", address |-> AddressAt(t, 0),
                   payload |-> SubSeq(t, a + 5, a + 4 + FrameSize(t, a))]
          BY <2>10, <2>13, <3>1, <3>2, <4>1, <4>2, <5>3, <5>4, Zenon
        <5> QED
          BY <5>2, <5>3, <5>4, <5>5, Zenon
      <4> QED
        BY <4>3, <4>4
    <3> QED
      BY <3>3, <3>4
  <2> QED
    BY <2>14, <2>15
<1> QED
  BY <1>6, <1>7

-----------------------------------------------------------------------------
(* build_udp_frame.                                                        *)

MaxU16 == 65535

\* The two bytes of a port or of a payload's length.
LEMMA TwoBytes ==
  ASSUME NEW n \in U16
  PROVE  /\ n \in Nat /\ n \div 256 \in Byte /\ n % 256 \in Byte
         /\ 256 * (n \div 256) + (n % 256) = n
<1>1. n \in Nat /\ n <= MaxU16
  <2>1. U16 = 0 .. MaxU16 /\ MaxU16 \in Nat
    BY SMTT(60) DEF U16, MaxU16
  <2> QED
    BY <2>1, SMTT(60)
<1>2. n \div 256 \in 0 .. 255
  BY <1>1, SMTT(60) DEF MaxU16
<1>3. n % 256 \in 0 .. 255
  BY <1>1, SMTT(60)
<1>4. 256 * (n \div 256) + (n % 256) = n
  BY <1>1, SMTT(60)
<1> QED
  BY <1>1, <1>2, <1>3, <1>4, SMT DEF Byte

LEMMA AddressIsBytes ==
  ASSUME NEW a \in Address, a.type # TYPE_DOMAIN
  PROVE  EncodeAddress(a) \in Seq(Byte)
<1>1. a.type \in Byte /\ a.host \in Seq(Byte) /\ a.port \in U16
  BY DEF Address, Byte, TYPE_IPV4, TYPE_DOMAIN, TYPE_IPV6
<1>2. PICK x \in Byte, y \in Byte : x = a.port \div 256 /\ y = a.port % 256
  BY <1>1, TwoBytes, SMTT(60)
<1>3. <<a.type>> \in Seq(Byte) /\ <<x, y>> \in Seq(Byte)
  BY <1>1
<1>4. <<a.type>> \o a.host \in Seq(Byte)
  BY <1>1, <1>3, ConcatProperties
<1>5. <<a.type>> \o a.host \o <<x, y>> \in Seq(Byte)
  BY <1>3, <1>4, ConcatProperties
<1> QED
  BY <1>2, <1>5, Zenon DEF EncodeAddress

\* A frame the server builds reads back, and no sooner than it is whole.
LEMMA FrameReadsBack ==
  ASSUME NEW a \in Address, a.type # TYPE_DOMAIN,
         NEW p \in Seq(Byte), Len(p) \in U16
  PROVE  LET t == BuildFrame(a, p)
         IN  /\ t \in Seq(Byte) /\ t # << >>
             /\ ReadFrame(t) = [is |-> "Ok", address |-> a, payload |-> p]
             /\ \A j \in 0 .. Len(t) - 1 : ReadFrame(SubSeq(t, 1, j)).is # "Ok"
<1> DEFINE E == EncodeAddress(a)
           Q == <<Len(p) \div 256, Len(p) % 256, CR, LF>>
           t == E \o Q \o p
<1>1. PICK n \in Nat : n = Len(p) /\ n \in U16
  BY TwoBytes
<1>2. PICK x \in Byte, y \in Byte :
        x = Len(p) \div 256 /\ y = Len(p) % 256 /\ 256 * x + y = n
  BY <1>1, TwoBytes
<1>3. Q = <<x, y, CR, LF>> /\ Q \in Seq(Byte) /\ Len(Q) = 4
  BY <1>2 DEF CR, LF, Byte
<1>4. E \in Seq(Byte)
  BY AddressIsBytes
<1>5. E \in Seq(Nat) /\ Q \in Seq(Nat) /\ p \in Seq(Nat)
  BY <1>3, <1>4, ByteSeq, Zenon
<1>6. PICK e \in Nat : e = Len(E)
  BY <1>4, LenProperties
<1> HIDE DEF E, Q
<1>7. E \o Q \in Seq(Byte) /\ Len(E \o Q) = e + 4
  BY <1>3, <1>4, <1>6, ConcatProperties
<1>8. t \in Seq(Byte) /\ Len(t) = (e + 4) + n
  <2>1. (E \o Q) \o p \in Seq(Byte) /\ Len((E \o Q) \o p) = Len(E \o Q) + Len(p)
    BY <1>7, ConcatProperties, Zenon
  <2> QED
    BY <1>1, <1>7, <2>1
<1>9. t \in Seq(Nat) /\ E \o Q \in Seq(Nat)
  <2> HIDE DEF t
  <2> QED
    BY <1>7, <1>8, ByteSeq, Zenon
<1>10. Holds(t, 0, E) /\ Holds(t, e, Q) /\ Holds(t, e + 4, p)
  <2>1. Holds(t, 0, t)
    <3> HIDE DEF t
    <3>1. \A i \in 1 .. (e + 4) + n : 0 + i = i
      OBVIOUS
    <3>2. 0 + ((e + 4) + n) <= (e + 4) + n
      OBVIOUS
    <3> QED
      BY <1>8, <3>1, <3>2 DEF Holds
  <2>2. Holds(t, 0, E \o Q) /\ Holds(t, Len(E \o Q), p)
    BY <1>5, <1>9, <2>1, HeldNext
  <2> HIDE DEF t
  <2>3. Holds(t, 0, E) /\ Holds(t, Len(E), Q)
    BY <1>5, <1>9, <2>2, HeldNext
  <2> QED
    BY <1>6, <1>7, <2>2, <2>3
<1> HIDE DEF t
<1>11. t[e + 1] = x /\ t[e + 2] = y /\ t[e + 3] = CR /\ t[e + 4] = LF
  BY <1>3, <1>10 DEF Holds
<1>12. ReadAddress(t, 0) = [is |-> "Ok", address |-> a, len |-> e]
  BY <1>6, <1>9, <1>10, DecodedAddress DEF E
<1>13. /\ AddressAt(t, 0) = a /\ AddressLen(t, 0) = e
       /\ t[0 + 1] \in {TYPE_IPV4, TYPE_DOMAIN, TYPE_IPV6}
  <2>1. ReadAddress(t, 0).is = "Ok"
    BY <1>12
  <2>2. /\ Eof.is # "Ok" /\ Bad("InvalidAddressType").is # "Ok"
        /\ Bad("InvalidUtf8").is # "Ok"
    BY DEF Eof, Bad
  <2>3. /\ t[0 + 1] \in {TYPE_IPV4, TYPE_DOMAIN, TYPE_IPV6}
        /\ ReadAddress(t, 0) = [is |-> "Ok", address |-> AddressAt(t, 0),
                                len |-> AddressLen(t, 0)]
    BY <2>1, <2>2, Zenon DEF ReadAddress
  <2> QED
    BY <1>12, <2>3
<1>14. t[1] # TYPE_DOMAIN /\ t[1] \in {TYPE_IPV4, TYPE_DOMAIN, TYPE_IPV6}
  <2>1. 0 + 1 = 1
    OBVIOUS
  <2>2. AddressAt(t, 0).type = t[0 + 1]
    BY DEF AddressAt
  <2> QED
    BY <1>13, <2>1, <2>2
<1>15. t # << >>
  <2>1. Len(t) # 0
    BY <1>8
  <2> QED
    BY <2>1, EmptySeq
<1>16. e >= 4
  BY <1>13, <1>14, <1>15, <1>8, KnownAtStart
<1>17. ReadFrame(t) = [is |-> "Ok", address |-> a, payload |-> p]
  <2>1. FrameSize(t, e) = n
    BY <1>2, <1>11 DEF FrameSize
  <2>2. CrlfAt(t, e + 2)
    <3>1. (e + 2) + 1 = e + 3 /\ (e + 2) + 2 = e + 4
      OBVIOUS
    <3> QED
      BY <1>11, <3>1 DEF CrlfAt
  <2>3. ~(Len(t) < e - 2) /\ ~(Len(t) < e + 4) /\ ~(Len(t) < e + 4 + n)
    BY <1>8
  <2>4. SubSeq(t, e + 5, e + 4 + n) = p
    <3>1. (e + 4) + 1 = e + 5 /\ e + 4 \in Nat
      OBVIOUS
    <3>2. SubSeq(t, (e + 4) + 1, (e + 4) + Len(p)) = p
      BY <1>5, <1>9, <1>10, <3>1, HeldSlice
    <3> QED
      BY <1>1, <3>1, <3>2
  <2>5. ReadFrame(t) =
           IF t[1] = TYPE_DOMAIN /\ t[2] = 0
             THEN Bad("DomainLength")
           ELSE IF Len(t) < e - 2
             THEN Short
           ELSE IF t[1] = TYPE_DOMAIN /\ ~ValidUtf8(HostBytes(t, 0))
             THEN Bad("InvalidUtf8")
           ELSE IF Len(t) < e + 4
             THEN Short
           ELSE IF ~CrlfAt(t, e + 2)
             THEN Bad("CrlfDelimiter")
           ELSE IF Len(t) < e + 4 + FrameSize(t, e)
             THEN Short
           ELSE [is |-> "Ok", address |-> AddressAt(t, 0),
                 payload |-> SubSeq(t, e + 5, e + 4 + FrameSize(t, e))]
    BY <1>8, <1>13, <1>14, <1>15, ReadFrameByLen, Zenon
  <2>6. ReadFrame(t) = [is |-> "Ok", address |-> AddressAt(t, 0),
                        payload |-> SubSeq(t, e + 5, e + 4 + FrameSize(t, e))]
    BY <1>14, <2>1, <2>2, <2>3, <2>5, Zenon
  <2> QED
    BY <1>13, <2>1, <2>4, <2>6
<1>18. ASSUME NEW j \in 0 .. Len(t) - 1 PROVE ReadFrame(SubSeq(t, 1, j)).is # "Ok"
  <2> DEFINE u == SubSeq(t, 1, j)
  <2>1. SUFFICES ASSUME ReadFrame(u).is = "Ok" PROVE FALSE
    OBVIOUS
  <2>2. u \in Seq(Byte) /\ Len(u) = j /\ Begins(u, t)
    <3>1. j \in Int /\ 1 \in Int /\ 1 >= 1 /\ j <= Len(t)
      BY <1>8
    <3>2. \A i \in 1 .. j : i \in 1 .. Len(t)
      BY <1>8
    <3>3. \A i \in 1 .. j : t[i] \in Byte
      BY <1>8, <3>2, ElementOfSeq
    <3>4. /\ u \in Seq(Byte) /\ Len(u) = IF 1 <= j THEN j - 1 + 1 ELSE 0
          /\ \A i \in 1 .. j - 1 + 1 : u[i] = t[1 + i - 1]
      BY <3>1, <3>3, SubSeqProperties
    <3> HIDE DEF u
    <3>5. Len(u) = j
      BY <1>8, <3>4
    <3>6. \A i \in 1 .. j : u[i] = t[i]
      BY <1>8, <3>4
    <3> QED
      BY <3>1, <3>4, <3>5, <3>6 DEF Begins
  <2> HIDE DEF u
  <2>3. PICK b \in Nat, m \in Nat :
          /\ AddressLenKnown(u, 0)
          /\ b = AddressLen(u, 0) /\ m = FrameSize(u, b) /\ b + 4 + m <= Len(u)
          /\ ReadFrame(u) = [is |-> "Ok", address |-> AddressAt(u, 0),
                             payload |-> SubSeq(u, b + 5, b + 4 + m)]
    BY <2>1, <2>2, ReadFrameAccepts, Zenon
  <2>4. b = e
    <3>1. u \in Seq(Nat)
      BY <2>2, ByteSeq
    <3> QED
      BY <1>9, <1>13, <2>2, <2>3, <3>1, AddressLenAgrees
  <2>5. ReadFrame(t) = ReadFrame(u)
    <3>1. ReadFrame(u) # Short
      BY <2>1 DEF Short
    <3> QED
      BY <1>8, <2>2, <3>1, ReadFrameStable
  <2>6. SubSeq(u, b + 5, b + 4 + m) = p
    BY <1>17, <2>3, <2>5
  <2>7. Len(SubSeq(u, b + 5, b + 4 + m)) = m
    <3>1. \A i \in b + 5 .. b + 4 + m : i \in 1 .. Len(u)
      BY <1>8, <2>2, <2>3, SMTT(60)
    <3>2. \A i \in b + 5 .. b + 4 + m : u[i] \in Byte
      BY <2>2, <3>1, ElementOfSeq
    <3>3. b + 5 \in Int /\ b + 4 + m \in Int
      OBVIOUS
    <3>4. Len(SubSeq(u, b + 5, b + 4 + m)) =
            IF b + 5 <= b + 4 + m THEN (b + 4 + m) - (b + 5) + 1 ELSE 0
      BY <3>2, <3>3, SubSeqProperties
    <3>5. (IF b + 5 <= b + 4 + m THEN (b + 4 + m) - (b + 5) + 1 ELSE 0) = m
      OBVIOUS
    <3> QED
      BY <3>4, <3>5
  <2>8. m = n
    BY <1>1, <2>6, <2>7
  <2>9. e + 4 + n <= j
    BY <2>2, <2>3, <2>4, <2>8
  <2> QED
    BY <1>8, <2>9
<1>19. BuildFrame(a, p) = t
  BY Zenon DEF BuildFrame, t, E, Q
<1> QED
  BY <1>8, <1>15, <1>17, <1>18, <1>19

-----------------------------------------------------------------------------
(* What a stream decodes to as it grows.                                   *)

\* The two alternatives of DecodeAfter.
LEMMA DecoderCases ==
  ASSUME NEW s \in Seq(Byte), NEW n \in 0 .. Len(s)
  PROVE  LET m == FirstEnd(s, n)
             d == Decoder(s)[m]
         IN  /\ FrameEnds(s, n) = {} =>
                  Decoder(s)[n] = [frames |-> << >>, rest |-> SubSeq(s, n + 1, Len(s))]
             /\ FrameEnds(s, n) # {} =>
                  /\ m \in n + 1 .. Len(s)
                  /\ m \in FrameEnds(s, n)
                  /\ \A k \in FrameEnds(s, n) : m <= k
                  /\ Decoder(s)[n] = [frames |-> <<ReadFrame(SubSeq(s, n + 1, m))>> \o d.frames,
                                      rest   |-> d.rest]
<1>1. Len(s) \in Nat
  BY LenProperties
<1>2. Decoder(s)[n] = DecodeAfter(s, Decoder(s), n)
  BY <1>1, DecodeUnfolds
<1>3. CASE FrameEnds(s, n) = {}
  BY <1>2, <1>3, Zenon DEF DecodeAfter
<1>4. CASE FrameEnds(s, n) # {}
  <2>1. n \in Nat
    BY <1>1
  <2>2. /\ FirstEnd(s, n) \in FrameEnds(s, n)
        /\ \A k \in FrameEnds(s, n) : FirstEnd(s, n) <= k
    BY <1>4, <2>1, FirstEndIsLeast
  <2>3. FirstEnd(s, n) \in n + 1 .. Len(s)
    BY <2>2 DEF FrameEnds
  <2>4. Decoder(s)[n] =
          [frames |-> <<ReadFrame(SubSeq(s, n + 1, FirstEnd(s, n)))>>
                        \o Decoder(s)[FirstEnd(s, n)].frames,
           rest   |-> Decoder(s)[FirstEnd(s, n)].rest]
    BY <1>2, <1>4, Zenon DEF DecodeAfter, FirstEnd
  <2> QED
    BY <1>4, <2>2, <2>3, <2>4, Zenon
<1> QED
  BY <1>3, <1>4

\* What a stream decodes to are frames and bytes.
LEMMA DecodeType ==
  ASSUME NEW s \in Seq(Byte)
  PROVE  \A n \in 0 .. Len(s) : /\ Decoder(s)[n].frames \in Seq(UdpFrame)
                                /\ Decoder(s)[n].rest \in Seq(Byte)
<1> DEFINE T == {n \in 0 .. Len(s) : /\ Decoder(s)[n].frames \in Seq(UdpFrame)
                                     /\ Decoder(s)[n].rest \in Seq(Byte)}
<1>1. Len(s) \in Nat
  BY LenProperties
<1>2. ASSUME NEW n \in 0 .. Len(s), \A m \in n + 1 .. Len(s) : m \in T
      PROVE  n \in T
  <2>1. CASE FrameEnds(s, n) = {}
    <3>1. Decoder(s)[n] = [frames |-> << >>, rest |-> SubSeq(s, n + 1, Len(s))]
      BY <2>1, DecoderCases, Zenon
    <3>2. n + 1 \in Int /\ n + 1 >= 1 /\ Len(s) \in Int /\ Len(s) <= Len(s)
      BY <1>1
    <3>3. SubSeq(s, n + 1, Len(s)) \in Seq(Byte)
      BY <3>2, SliceOfBytes
    <3>4. << >> \in Seq(UdpFrame)
      BY EmptySeq
    <3>5. /\ Decoder(s)[n].frames \in Seq(UdpFrame)
          /\ Decoder(s)[n].rest \in Seq(Byte)
      BY <3>1, <3>3, <3>4
    <3> QED
      BY <3>5
  <2>2. CASE FrameEnds(s, n) # {}
    <3>1. PICK m \in n + 1 .. Len(s) :
            /\ m \in FrameEnds(s, n)
            /\ Decoder(s)[n] = [frames |-> <<ReadFrame(SubSeq(s, n + 1, m))>>
                                              \o Decoder(s)[m].frames,
                                rest   |-> Decoder(s)[m].rest]
      BY <2>2, DecoderCases, Zenon
    <3>2. m \in T
      BY <1>2, <3>1
    <3>3. n + 1 \in Int /\ n + 1 >= 1 /\ m \in Int /\ m <= Len(s)
      BY <1>1, <3>1
    <3>4. SubSeq(s, n + 1, m) \in Seq(Byte)
      BY <3>3, SliceOfBytes
    <3>5. ReadFrame(SubSeq(s, n + 1, m)).is = "Ok"
      BY <3>1 DEF FrameEnds
    <3>6. PICK v \in UdpFrame : v = ReadFrame(SubSeq(s, n + 1, m))
      BY <3>4, <3>5, ReadFrameType
    <3>7. <<v>> \in Seq(UdpFrame)
      OBVIOUS
    <3>8. <<v>> \o Decoder(s)[m].frames \in Seq(UdpFrame)
      BY <3>2, <3>7, ConcatProperties
    <3>9. /\ Decoder(s)[n].frames = <<v>> \o Decoder(s)[m].frames
          /\ Decoder(s)[n].rest = Decoder(s)[m].rest
      BY <3>1, <3>6
    <3> QED
      BY <3>2, <3>8, <3>9
  <2> QED
    BY <2>1, <2>2
<1>3. \A n \in 0 .. Len(s) : n \in T
  <2> HIDE DEF T
  <2> QED
    BY <1>1, <1>2, Backwards
<1> QED
  BY <1>3

\* One more byte completes the frame at hand or prolongs it.
Feed(d, b) ==
  LET v == ReadFrame(Append(d.rest, b))
  IN  IF v.is = "Ok" THEN [frames |-> Append(d.frames, v), rest |-> << >>]
                     ELSE [frames |-> d.frames, rest |-> Append(d.rest, b)]

LEMMA AppendBytes ==
  ASSUME NEW s \in Seq(Byte), NEW b \in Byte
  PROVE  /\ Append(s, b) \in Seq(Byte) /\ Len(Append(s, b)) = Len(s) + 1
         /\ Begins(s, Append(s, b))
<1>1. /\ Append(s, b) \in Seq(Byte) /\ Len(Append(s, b)) = Len(s) + 1
      /\ \A i \in 1 .. Len(s) : Append(s, b)[i] = s[i]
  BY AppendProperties
<1>2. Len(s) \in Nat
  BY LenProperties
<1> QED
  BY <1>1, <1>2 DEF Begins

LEMMA AppendSlices ==
  ASSUME NEW s \in Seq(Byte), NEW b \in Byte, NEW n \in 0 .. Len(s)
  PROVE  /\ \A m \in Int : m <= Len(s) =>
              SubSeq(Append(s, b), n + 1, m) = SubSeq(s, n + 1, m)
         /\ SubSeq(Append(s, b), n + 1, Len(s) + 1) = Append(SubSeq(s, n + 1, Len(s)), b)
<1> DEFINE t == Append(s, b)
<1>1. PICK l \in Nat : l = Len(s)
  BY LenProperties
<1>2. n + 1 \in Nat \ {0}
  BY <1>1
<1>3. s \in Seq(Nat) /\ t \in Seq(Nat) /\ Begins(s, t)
  BY AppendBytes, ByteSeq
<1>4. \A m \in Int : m <= Len(s) => SubSeq(t, n + 1, m) = SubSeq(s, n + 1, m)
  <2> HIDE DEF t
  <2> QED
    BY <1>2, <1>3, SubSeqAgrees
<1>5. SubSeq(t, n + 1, l + 1) = Append(SubSeq(s, n + 1, l), b)
  <2>1. /\ t \in Seq(Byte) /\ Len(t) = l + 1 /\ t[l + 1] = b
        /\ \A i \in 1 .. l : t[i] = s[i]
    BY <1>1, AppendProperties
  <2>2. SubSeq(t, n + 1, (l + 1)) = SubSeq(t, n + 1, (l + 1) - 1) \o <<t[l + 1]>>
    <3>1. n + 1 \in 1 .. Len(t) /\ l + 1 \in n + 1 .. Len(t)
      BY <1>1, <2>1
    <3> HIDE DEF t
    <3> QED
      BY <2>1, <3>1, SubSeqRecursiveSecond
  <2>3. SubSeq(t, n + 1, (l + 1) - 1) = SubSeq(s, n + 1, l)
    <3>1. (l + 1) - 1 = l /\ l \in Int /\ l <= l
      OBVIOUS
    <3> HIDE DEF t
    <3> QED
      BY <1>1, <1>4, <3>1
  <2>4. SubSeq(s, n + 1, l) \in Seq(Byte)
    <3>1. n + 1 \in Int /\ n + 1 >= 1 /\ l \in Int /\ l <= Len(s)
      BY <1>1
    <3> QED
      BY <3>1, SliceOfBytes
  <2>5. Append(SubSeq(s, n + 1, l), b) = SubSeq(s, n + 1, l) \o <<b>>
    BY <2>4, AppendIsConcat
  <2> HIDE DEF t
  <2> QED
    BY <2>1, <2>2, <2>3, <2>5
<1> QED
  BY <1>1, <1>4, <1>5

LEMMA FrameEndsAppend ==
  ASSUME NEW s \in Seq(Byte), NEW b \in Byte, NEW n \in 0 .. Len(s)
  PROVE  LET v == ReadFrame(Append(SubSeq(s, n + 1, Len(s)), b))
         IN  FrameEnds(Append(s, b), n) =
               FrameEnds(s, n) \cup (IF v.is = "Ok" THEN {Len(s) + 1} ELSE {})
<1> DEFINE t == Append(s, b)
           v == ReadFrame(Append(SubSeq(s, n + 1, Len(s)), b))
<1>1. PICK l \in Nat : l = Len(s)
  BY LenProperties
<1>2. Len(t) = l + 1
  BY <1>1, AppendBytes
<1>3. \A m \in n + 1 .. l : SubSeq(t, n + 1, m) = SubSeq(s, n + 1, m)
  <2>1. \A m \in n + 1 .. l : m \in Int /\ m <= Len(s)
    BY <1>1
  <2> QED
    BY <2>1, AppendSlices
<1>4. ReadFrame(SubSeq(t, n + 1, l + 1)) = v
  BY <1>1, AppendSlices
<1> HIDE DEF t, v
<1>5. n + 1 .. l + 1 = (n + 1 .. l) \cup {l + 1}
  BY <1>1
<1>6. FrameEnds(t, n) =
        {m \in (n + 1 .. l) \cup {l + 1} : ReadFrame(SubSeq(t, n + 1, m)).is = "Ok"}
  BY <1>2, <1>5 DEF FrameEnds
<1>7. FrameEnds(s, n) = {m \in n + 1 .. l : ReadFrame(SubSeq(t, n + 1, m)).is = "Ok"}
  BY <1>1, <1>3 DEF FrameEnds
<1>8. FrameEnds(t, n) = FrameEnds(s, n) \cup (IF v.is = "Ok" THEN {Len(s) + 1} ELSE {})
  BY <1>1, <1>4, <1>6, <1>7
<1> QED
  BY <1>8 DEF t, v

LEMMA ConcatBytes ==
  ASSUME NEW s \in Seq(Byte), NEW t \in Seq(Byte), NEW u \in Seq(Byte)
  PROVE  (s \o t) \o u = s \o (t \o u)
BY ConcatAssociative

LEMMA ConcatAppend ==
  ASSUME NEW S, NEW s \in Seq(S), NEW t \in Seq(S), NEW e \in S
  PROVE  s \o Append(t, e) = Append(s \o t, e)
<1>1. <<e>> \in Seq(S)
  OBVIOUS
<1>2. s \o t \in Seq(S)
  BY ConcatProperties
<1>3. Append(t, e) = t \o <<e>> /\ Append(s \o t, e) = (s \o t) \o <<e>>
  BY <1>2, AppendIsConcat
<1>4. (s \o t) \o <<e>> = s \o (t \o <<e>>)
  BY <1>1, ConcatAssociative
<1> QED
  BY <1>3, <1>4

LEMMA DecoderAppend ==
  ASSUME NEW s \in Seq(Byte), NEW b \in Byte
  PROVE  \A n \in 0 .. Len(s) : Decoder(Append(s, b))[n] = Feed(Decoder(s)[n], b)
<1> DEFINE t == Append(s, b)
           T == {n \in 0 .. Len(s) : Decoder(t)[n] = Feed(Decoder(s)[n], b)}
<1>1. PICK l \in Nat : l = Len(s)
  BY LenProperties
<1>2. t \in Seq(Byte) /\ Len(t) = l + 1
  BY <1>1, AppendBytes
<1>3. ASSUME NEW n \in 0 .. Len(s), \A m \in n + 1 .. Len(s) : m \in T
      PROVE  n \in T
  <2> DEFINE rest == SubSeq(s, n + 1, l)
             v    == ReadFrame(Append(rest, b))
  <2>1. FrameEnds(t, n) = FrameEnds(s, n) \cup (IF v.is = "Ok" THEN {l + 1} ELSE {})
    BY <1>1, FrameEndsAppend
  <2>2. n \in 0 .. Len(t)
    BY <1>1, <1>2
  <2>3. n \in Nat
    BY <1>1
  <2> HIDE DEF t
  <2>4. CASE FrameEnds(s, n) # {}
    <3>1. PICK m \in n + 1 .. l :
            /\ m \in FrameEnds(s, n)
            /\ \A k \in FrameEnds(s, n) : m <= k
            /\ Decoder(s)[n] = [frames |-> <<ReadFrame(SubSeq(s, n + 1, m))>>
                                              \o Decoder(s)[m].frames,
                                rest   |-> Decoder(s)[m].rest]
      BY <1>1, <2>4, DecoderCases, Zenon
    <3>2. PICK k \in n + 1 .. Len(t) :
            /\ k \in FrameEnds(t, n)
            /\ \A i \in FrameEnds(t, n) : k <= i
            /\ Decoder(t)[n] = [frames |-> <<ReadFrame(SubSeq(t, n + 1, k))>>
                                              \o Decoder(t)[k].frames,
                                rest   |-> Decoder(t)[k].rest]
      <4>1. FrameEnds(t, n) # {}
        BY <2>1, <2>4
      <4> QED
        BY <1>2, <2>2, <4>1, DecoderCases, Zenon
    <3>3. k = m
      <4>1. m \in FrameEnds(t, n)
        BY <2>1, <3>1
      <4>2. k <= m
        BY <3>2, <4>1
      <4>3. k # l + 1
        BY <1>1, <3>1, <3>2, <4>2
      <4>4. k \in FrameEnds(s, n)
        <5> HIDE DEF v
        <5> QED
          BY <2>1, <3>2, <4>3
      <4>5. m <= k
        BY <3>1, <4>4
      <4> QED
        BY <2>3, <3>1, <3>2, <4>2, <4>5
    <3>4. Decoder(t)[m] = Feed(Decoder(s)[m], b)
      BY <1>1, <1>3, <3>1
    <3>5. SubSeq(t, n + 1, m) = SubSeq(s, n + 1, m)
      <4>1. m \in Int /\ m <= Len(s)
        BY <1>1, <3>1
      <4> QED
        BY <4>1, AppendSlices DEF t
    <3>6. PICK x \in UdpFrame : x = ReadFrame(SubSeq(s, n + 1, m))
      <4>1. ReadFrame(SubSeq(s, n + 1, m)).is = "Ok"
        BY <3>1 DEF FrameEnds
      <4>2. n + 1 \in Int /\ n + 1 >= 1 /\ m \in Int /\ m <= Len(s)
        BY <1>1, <3>1
      <4>3. SubSeq(s, n + 1, m) \in Seq(Byte)
        BY <4>2, SliceOfBytes
      <4> QED
        BY <4>1, <4>3, ReadFrameType
    <3>7. PICK d : d = Decoder(s)[m] /\ d.frames \in Seq(UdpFrame) /\ d.rest \in Seq(Byte)
      <4>1. m \in 0 .. Len(s)
        BY <1>1, <3>1
      <4> QED
        BY <4>1, DecodeType
    <3>8. PICK w : w = ReadFrame(Append(d.rest, b))
      OBVIOUS
    <3>9. w.is = "Ok" => w \in UdpFrame
      <4>1. Append(d.rest, b) \in Seq(Byte)
        BY <3>7, AppendProperties
      <4> QED
        BY <3>8, <4>1, ReadFrameType
    <3>10. Decoder(s)[n].frames = <<x>> \o d.frames /\ Decoder(s)[n].rest = d.rest
      BY <3>1, <3>6, <3>7, SMTT(60)
    <3>11. Decoder(t)[n] = [frames |-> <<x>> \o Decoder(t)[m].frames,
                            rest   |-> Decoder(t)[m].rest]
      <4>1. ReadFrame(SubSeq(t, n + 1, k)) = x
        BY <3>3, <3>5, <3>6
      <4> QED
        BY <3>2, <3>3, <4>1, Zenon
    <3>12. CASE w.is = "Ok"
      <4>1. Decoder(t)[m] = [frames |-> Append(d.frames, w), rest |-> << >>]
        BY <3>4, <3>7, <3>8, <3>12, Zenon DEF Feed
      <4>2. Decoder(t)[n] = [frames |-> <<x>> \o Append(d.frames, w), rest |-> << >>]
        BY <3>11, <4>1
      <4>3. Feed(Decoder(s)[n], b) =
              [frames |-> Append(<<x>> \o d.frames, w), rest |-> << >>]
        BY <3>8, <3>10, <3>12, Zenon DEF Feed
      <4>4. <<x>> \o Append(d.frames, w) = Append(<<x>> \o d.frames, w)
        <5>1. ASSUME NEW F \in Seq(UdpFrame), NEW e \in UdpFrame
              PROVE  <<x>> \o Append(F, e) = Append(<<x>> \o F, e)
          <6>1. <<x>> \in Seq(UdpFrame)
            OBVIOUS
          <6> QED
            BY <6>1, ConcatAppend
        <5>2. d.frames \in Seq(UdpFrame) /\ w \in UdpFrame
          BY <3>7, <3>9, <3>12
        <5> QED
          BY <5>1, <5>2, Zenon
      <4> QED
        BY <4>2, <4>3, <4>4
    <3>13. CASE w.is # "Ok"
      <4>1. Decoder(t)[m] = [frames |-> d.frames, rest |-> Append(d.rest, b)]
        BY <3>4, <3>7, <3>8, <3>13, Zenon DEF Feed
      <4>2. Decoder(t)[n] = [frames |-> <<x>> \o d.frames, rest |-> Append(d.rest, b)]
        BY <3>11, <4>1
      <4>3. Feed(Decoder(s)[n], b) =
              [frames |-> <<x>> \o d.frames, rest |-> Append(d.rest, b)]
        BY <3>8, <3>10, <3>13, Zenon DEF Feed
      <4> QED
        BY <4>2, <4>3
    <3> QED
      BY <3>12, <3>13
  <2>5. CASE FrameEnds(s, n) = {}
    <3>1. Decoder(s)[n].frames = << >> /\ Decoder(s)[n].rest = rest
      <4>1. Decoder(s)[n] = [frames |-> << >>, rest |-> rest]
        BY <1>1, <2>5, DecoderCases, Zenon
      <4> QED
        BY <4>1
    <3>2. SubSeq(t, n + 1, l + 1) = Append(rest, b)
      BY <1>1, AppendSlices DEF t
    <3>3. CASE v.is = "Ok"
      <4>1. FrameEnds(t, n) = {l + 1}
        BY <2>1, <2>5, <3>3
      <4>2. Decoder(t)[n] = [frames |-> <<ReadFrame(SubSeq(t, n + 1, l + 1))>>
                                          \o Decoder(t)[l + 1].frames,
                            rest   |-> Decoder(t)[l + 1].rest]
        BY <1>2, <2>2, <4>1, DecoderCases
      <4>3. Decoder(t)[l + 1].frames = << >> /\ Decoder(t)[l + 1].rest = << >>
        <5>1. FrameEnds(t, l + 1) = {}
          BY <1>2 DEF FrameEnds
        <5>2. l + 1 \in 0 .. Len(t)
          BY <1>2
        <5>3. Decoder(t)[l + 1] = [frames |-> << >>, rest |-> SubSeq(t, (l + 1) + 1, l + 1)]
          BY <1>2, <5>1, <5>2, DecoderCases
        <5>4. SubSeq(t, (l + 1) + 1, l + 1) = << >>
          BY SubSeqEmpty
        <5> QED
          BY <5>3, <5>4
      <4>4. v \in UdpFrame
        <5>1. n + 1 \in Int /\ n + 1 >= 1 /\ l \in Int /\ l <= Len(s)
          BY <1>1
        <5>2. rest \in Seq(Byte)
          BY <5>1, SliceOfBytes
        <5>3. Append(rest, b) \in Seq(Byte)
          BY <5>2, AppendProperties
        <5> QED
          BY <3>3, <5>3, ReadFrameType
      <4> HIDE DEF rest, v
      <4>5. <<v>> \o << >> = <<v>> /\ Append(<< >>, v) = <<v>>
        BY <4>4
      <4>6. Decoder(t)[n] = [frames |-> <<v>>, rest |-> << >>]
        BY <3>2, <4>2, <4>3, <4>5 DEF v
      <4>7. Feed(Decoder(s)[n], b) = [frames |-> Append(<< >>, v), rest |-> << >>]
        BY <3>1, <3>3, Zenon DEF Feed, v
      <4> QED
        BY <4>5, <4>6, <4>7
    <3>4. CASE v.is # "Ok"
      <4>1. FrameEnds(t, n) = {}
        BY <2>1, <2>5, <3>4
      <4>2. Decoder(t)[n] = [frames |-> << >>, rest |-> SubSeq(t, n + 1, l + 1)]
        BY <1>2, <2>2, <4>1, DecoderCases
      <4>3. Feed(Decoder(s)[n], b) = [frames |-> << >>, rest |-> Append(rest, b)]
        BY <3>1, <3>4, Zenon DEF Feed
      <4> QED
        BY <3>2, <4>2, <4>3
    <3> QED
      BY <3>3, <3>4
  <2> QED
    BY <2>4, <2>5
<1>4. \A n \in 0 .. Len(s) : n \in T
  <2> HIDE DEF T
  <2>1. Len(s) \in Nat
    BY <1>1
  <2> QED
    BY <1>3, <2>1, Backwards
<1> QED
  BY <1>4

\* read_udp_frame called over and over, one byte at a time.
LEMMA DecodeAppend ==
  ASSUME NEW s \in Seq(Byte), NEW b \in Byte
  PROVE  /\ Decode(Append(s, b)) = Feed(Decode(s), b)
         /\ Decode(s).frames \in Seq(UdpFrame) /\ Decode(s).rest \in Seq(Byte)
<1>1. 0 \in 0 .. Len(s) /\ Len(s) \in Nat
  BY LenProperties
<1>2. Append(s, b) \in Seq(Byte) /\ Len(Append(s, b)) \in Nat
  BY AppendBytes, LenProperties
<1>3. Decode(s) = Decoder(s)[0] /\ Decode(Append(s, b)) = Decoder(Append(s, b))[0]
  BY <1>1, <1>2, DecodeUnfolds
<1> QED
  BY <1>1, <1>3, DecoderAppend, DecodeType, Zenon

LEMMA DecodedType ==
  ASSUME NEW s \in Seq(Byte)
  PROVE  Frames(s) \in Seq(UdpFrame) /\ Rest(s) \in Seq(Byte)
<1>1. 0 \in Byte
  BY DEF Byte
<1> QED
  BY <1>1, DecodeAppend DEF Frames, Rest

\* Nothing has been read.
LEMMA DecodeEmpty ==
  Decode(<< >>) = [frames |-> << >>, rest |-> << >>]
<1>1. << >> \in Seq(Byte) /\ Len(<< >>) = 0 /\ 0 \in 0 .. 0
  BY EmptySeq
<1>2. FrameEnds(<< >>, 0) = {}
  BY <1>1 DEF FrameEnds
<1>3. Decoder(<< >>)[0] = [frames |-> << >>, rest |-> SubSeq(<< >>, 0 + 1, 0)]
  BY <1>1, <1>2, DecoderCases
<1>4. SubSeq(<< >>, 0 + 1, 0) = << >>
  BY SubSeqEmpty
<1>5. Decode(<< >>) = Decoder(<< >>)[0]
  BY <1>1, DecodeUnfolds
<1> QED
  BY <1>3, <1>4, <1>5

\* The first i + 1 bytes of a stream.
LEMMA OneMore ==
  ASSUME NEW s \in Seq(Byte), NEW i \in Nat, i < Len(s)
  PROVE  /\ SubSeq(s, 1, i) \in Seq(Byte) /\ Len(SubSeq(s, 1, i)) = i
         /\ s[i + 1] \in Byte
         /\ SubSeq(s, 1, i + 1) = Append(SubSeq(s, 1, i), s[i + 1])
<1>1. PICK l \in Nat : l = Len(s)
  BY LenProperties
<1>2. /\ 1 \in Int /\ 1 >= 1 /\ i \in Int /\ i <= Len(s)
      /\ i + 1 \in 1 .. Len(s) /\ 1 \in 1 .. Len(s) /\ (i + 1) - 1 = i
  BY <1>1
<1>3. SubSeq(s, 1, i) \in Seq(Byte)
  BY <1>2, SliceOfBytes
<1>4. Len(SubSeq(s, 1, i)) = i
  <2>1. \A k \in 1 .. i : k \in 1 .. Len(s)
    BY <1>1
  <2>2. \A k \in 1 .. i : s[k] \in Byte
    BY <2>1, ElementOfSeq
  <2>3. Len(SubSeq(s, 1, i)) = IF 1 <= i THEN i - 1 + 1 ELSE 0
    BY <2>2, SubSeqProperties
  <2> QED
    BY <2>3
<1>5. s[i + 1] \in Byte
  BY <1>2, ElementOfSeq
<1>6. SubSeq(s, 1, i + 1) = SubSeq(s, 1, (i + 1) - 1) \o <<s[i + 1]>>
  <2>1. i + 1 \in 1 .. Len(s)
    BY <1>2
  <2> QED
    BY <1>2, <2>1, SubSeqRecursiveSecond
<1>7. Append(SubSeq(s, 1, i), s[i + 1]) = SubSeq(s, 1, i) \o <<s[i + 1]>>
  BY <1>3, <1>5, AppendIsConcat
<1> QED
  BY <1>2, <1>3, <1>4, <1>5, <1>6, <1>7

\* A whole frame after whole frames is one more frame, a part of it none.
LEMMA DecodeFrame ==
  ASSUME NEW s \in Seq(Byte), Rest(s) = << >>,
         NEW t \in Seq(Byte), t # << >>, ReadFrame(t).is = "Ok",
         \A j \in 0 .. Len(t) - 1 : ReadFrame(SubSeq(t, 1, j)).is # "Ok"
  PROVE  /\ Frames(s \o t) = Append(Frames(s), ReadFrame(t)) /\ Rest(s \o t) = << >>
         /\ \A j \in 0 .. Len(t) - 1 :
              /\ Frames(s \o SubSeq(t, 1, j)) = Frames(s)
              /\ Rest(s \o SubSeq(t, 1, j)) = SubSeq(t, 1, j)
<1> DEFINE u(j) == SubSeq(t, 1, j)
           U == {j \in Nat : j < Len(t) => /\ Frames(s \o u(j)) = Frames(s)
                                          /\ Rest(s \o u(j)) = u(j)}
<1>1. PICK l \in Nat : l = Len(t) /\ l >= 1
  <2>1. Len(t) \in Nat \ {0}
    BY EmptySeq
  <2> QED
    BY <2>1
<1>2. 0 \in U
  <2>1. u(0) = << >>
    BY SubSeqEmpty
  <2>2. s \o << >> = s
    BY ConcatEmptySeq
  <2> QED
    BY <2>1, <2>2
<1>3. ASSUME NEW j \in Nat, j < l
      PROVE  /\ u(j) \in Seq(Byte) /\ t[j + 1] \in Byte
             /\ u(j + 1) = Append(u(j), t[j + 1])
             /\ s \o u(j) \in Seq(Byte)
             /\ s \o u(j + 1) = Append(s \o u(j), t[j + 1])
  <2>1. /\ u(j) \in Seq(Byte) /\ t[j + 1] \in Byte
        /\ u(j + 1) = Append(u(j), t[j + 1])
    BY <1>1, <1>3, OneMore
  <2> HIDE DEF u
  <2>2. s \o Append(u(j), t[j + 1]) = Append(s \o u(j), t[j + 1])
    BY <2>1, ConcatAppend
  <2>3. s \o u(j) \in Seq(Byte)
    BY <2>1, ConcatProperties
  <2> QED
    BY <2>1, <2>2, <2>3
<1>4. ASSUME NEW j \in U PROVE j + 1 \in U
  <2> SUFFICES ASSUME j + 1 < l
               PROVE  /\ Frames(s \o u(j + 1)) = Frames(s)
                      /\ Rest(s \o u(j + 1)) = u(j + 1)
    BY <1>1
  <2>1. j \in Nat /\ j < l /\ j + 1 \in 0 .. Len(t) - 1
    BY <1>1
  <2>2. Frames(s \o u(j)) = Frames(s) /\ Rest(s \o u(j)) = u(j)
    BY <1>1, <2>1
  <2>3. ReadFrame(u(j + 1)).is # "Ok"
    BY <2>1
  <2> HIDE DEF u, U
  <2>4. /\ u(j + 1) = Append(u(j), t[j + 1])
        /\ s \o u(j + 1) = Append(s \o u(j), t[j + 1])
        /\ Decode(Append(s \o u(j), t[j + 1])) = Feed(Decode(s \o u(j)), t[j + 1])
    BY <1>3, <2>1, DecodeAppend
  <2>5. Feed(Decode(s \o u(j)), t[j + 1]) =
          [frames |-> Decode(s \o u(j)).frames, rest |-> u(j + 1)]
    BY <2>2, <2>3, <2>4, Zenon DEF Feed, Rest
  <2> QED
    <3>1. Decode(s \o u(j + 1)) =
            [frames |-> Decode(s \o u(j)).frames, rest |-> u(j + 1)]
      BY <2>4, <2>5
    <3>2. /\ Frames(s \o u(j + 1)) = Decode(s \o u(j)).frames
          /\ Rest(s \o u(j + 1)) = u(j + 1)
      BY <3>1 DEF Frames, Rest
    <3> QED
      BY <2>2, <3>2 DEF Frames
<1>5. U = Nat
  <2>1. U \in SUBSET Nat
    OBVIOUS
  <2> HIDE DEF U, u
  <2> QED
    BY <1>2, <1>4, <2>1, Upwards
<1>6. PICK j \in Nat : j + 1 = l /\ j < l
  <2>1. l - 1 \in Nat /\ (l - 1) + 1 = l /\ l - 1 < l
    BY <1>1
  <2> QED
    BY <2>1
<1>7. Frames(s \o u(j)) = Frames(s) /\ Rest(s \o u(j)) = u(j)
  BY <1>1, <1>5, <1>6
<1>8. u(j + 1) = t
  BY <1>1, <1>6, SubSeqFull
<1>11. \A i \in 0 .. Len(t) - 1 :
         Frames(s \o SubSeq(t, 1, i)) = Frames(s) /\ Rest(s \o SubSeq(t, 1, i)) = SubSeq(t, 1, i)
  <2>1. \A i \in 0 .. Len(t) - 1 : i \in Nat /\ i < Len(t)
    BY <1>1
  <2> QED
    BY <1>5, <2>1
<1> HIDE DEF u, U
<1>9. /\ t = Append(u(j), t[j + 1])
      /\ s \o t = Append(s \o u(j), t[j + 1])
      /\ Decode(Append(s \o u(j), t[j + 1])) = Feed(Decode(s \o u(j)), t[j + 1])
  BY <1>3, <1>6, <1>8, DecodeAppend
<1>10. Feed(Decode(s \o u(j)), t[j + 1]) =
         [frames |-> Append(Decode(s \o u(j)).frames, ReadFrame(t)), rest |-> << >>]
  BY <1>7, <1>9, Zenon DEF Feed, Rest
<1> QED
  BY <1>7, <1>9, <1>10, <1>11 DEF Frames, Rest

\* The frame at hand is malformed.
Spoiled(s) == \E n \in 0 .. Len(Rest(s)) : ReadFrame(SubSeq(Rest(s), 1, n)).is = "Bad"

\* More bytes add frames and do not mend a malformed one.
LEMMA FeedKeeps ==
  ASSUME NEW s \in Seq(Byte), NEW b \in Byte
  PROVE  /\ Frames(s) \in Seq(UdpFrame) /\ Rest(s) \in Seq(Byte)
         /\ Frames(Append(s, b)) \in Seq(UdpFrame)
         /\ Begins(Frames(s), Frames(Append(s, b)))
         /\ Spoiled(s) => Spoiled(Append(s, b))
<1> DEFINE r == Rest(s)
           q == Append(r, b)
           v == ReadFrame(q)
<1>1. Frames(s) \in Seq(UdpFrame) /\ r \in Seq(Byte)
  BY DecodedType
<1>2. Frames(Append(s, b)) = IF v.is = "Ok" THEN Append(Frames(s), v) ELSE Frames(s)
  <2>1. Decode(Append(s, b)) = Feed(Decode(s), b)
    BY DecodeAppend
  <2>2. CASE v.is = "Ok"
    <3>1. Feed(Decode(s), b) = [frames |-> Append(Frames(s), v), rest |-> << >>]
      BY <2>2, Zenon DEF Feed, Rest, Frames
    <3> QED
      BY <2>1, <2>2, <3>1 DEF Frames
  <2>3. CASE v.is # "Ok"
    <3>1. Feed(Decode(s), b) = [frames |-> Frames(s), rest |-> q]
      BY <2>3, Zenon DEF Feed, Rest, Frames
    <3> QED
      BY <2>1, <2>3, <3>1 DEF Frames
  <2> QED
    BY <2>2, <2>3
<1>3. v.is # "Ok" => Rest(Append(s, b)) = q
  <2>1. Decode(Append(s, b)) = Feed(Decode(s), b)
    BY DecodeAppend
  <2>2. v.is # "Ok" => Feed(Decode(s), b) = [frames |-> Frames(s), rest |-> q]
    BY Zenon DEF Feed, Rest, Frames
  <2> QED
    BY <2>1, <2>2 DEF Rest
<1>4. q \in Seq(Byte) /\ Len(q) = Len(r) + 1
  BY <1>1, AppendBytes
<1>5. v.is = "Ok" => v \in UdpFrame
  BY <1>4, ReadFrameType
<1>6. /\ Frames(Append(s, b)) \in Seq(UdpFrame)
      /\ Begins(Frames(s), Frames(Append(s, b)))
  <2> HIDE DEF v
  <2>1. PICK F \in Seq(UdpFrame) : F = Frames(s)
    BY <1>1
  <2>2. PICK l \in Nat : l = Len(F)
    BY LenProperties
  <2>3. Begins(F, F)
    BY <2>2 DEF Begins
  <2>4. ASSUME v \in UdpFrame PROVE Append(F, v) \in Seq(UdpFrame) /\ Begins(F, Append(F, v))
    <3>1. /\ Append(F, v) \in Seq(UdpFrame) /\ Len(Append(F, v)) = l + 1
          /\ \A i \in 1 .. l : Append(F, v)[i] = F[i]
      BY <2>2, <2>4, AppendProperties
    <3> QED
      BY <2>2, <3>1 DEF Begins
  <2> QED
    BY <1>2, <1>5, <2>1, <2>3, <2>4, Zenon
<1>7. Spoiled(s) => Spoiled(Append(s, b))
  <2> SUFFICES ASSUME Spoiled(s) PROVE Spoiled(Append(s, b))
    OBVIOUS
  <2>1. PICK n \in 0 .. Len(r) : ReadFrame(SubSeq(r, 1, n)).is = "Bad"
    BY DEF Spoiled
  <2>2. PICK l \in Nat : l = Len(r)
    BY <1>1, LenProperties
  <2> HIDE DEF r, v
  <2>3. 0 + 1 = 1 /\ n \in Int /\ n <= Len(r) /\ 0 \in 0 .. Len(r) /\ 1 \in Int /\ 1 >= 1
    BY <2>2
  <2>4. SubSeq(q, 1, n) = SubSeq(r, 1, n)
    <3>1. SubSeq(Append(r, b), 0 + 1, n) = SubSeq(r, 0 + 1, n)
      BY <1>1, <2>3, AppendSlices
    <3> QED
      BY <2>3, <3>1
  <2> HIDE DEF q
  <2>5. SubSeq(r, 1, n) \in Seq(Byte)
    BY <1>1, <2>3, SliceOfBytes
  <2>6. Begins(SubSeq(r, 1, n), q)
    <3>1. PICK k \in Nat : k = n
      BY <2>2
    <3>2. \A i \in 1 .. k : i \in 1 .. Len(q)
      BY <1>4, <2>2, <3>1
    <3>3. \A i \in 1 .. k : q[i] \in Byte
      BY <1>4, <3>2, ElementOfSeq
    <3>4. /\ Len(SubSeq(q, 1, k)) = IF 1 <= k THEN k - 1 + 1 ELSE 0
          /\ \A i \in 1 .. k - 1 + 1 : SubSeq(q, 1, k)[i] = q[1 + i - 1]
      BY <3>3, SubSeqProperties
    <3>5. Len(SubSeq(q, 1, k)) = k
      BY <3>4
    <3>6. \A i \in 1 .. k : SubSeq(q, 1, k)[i] = q[i]
      BY <3>4
    <3>7. k <= Len(q)
      BY <1>4, <2>2, <3>1
    <3>8. Begins(SubSeq(q, 1, k), q)
      BY <3>5, <3>6, <3>7 DEF Begins
    <3> QED
      BY <2>4, <3>1, <3>8
  <2>7. ReadFrame(q).is = "Bad"
    <3>1. ReadFrame(SubSeq(r, 1, n)) # Short
      BY <2>1 DEF Short
    <3>2. ReadFrame(q) = ReadFrame(SubSeq(r, 1, n))
      BY <1>4, <2>5, <2>6, <3>1, ReadFrameStable
    <3> QED
      BY <2>1, <3>2
  <2>8. Rest(Append(s, b)) = q
    BY <1>3, <2>7 DEF v
  <2>9. n \in 0 .. Len(q)
    BY <1>4, <2>2
  <2> QED
    BY <2>1, <2>4, <2>8, <2>9 DEF Spoiled
<1> QED
  BY <1>1, <1>6, <1>7

\* So the frames of the beginning of a stream are the first frames of the stream.
LEMMA FramesOfBeginning ==
  ASSUME NEW s \in Seq(Byte), NEW i \in 0 .. Len(s)
  PROVE  /\ Begins(Frames(SubSeq(s, 1, i)), Frames(s))
         /\ Spoiled(SubSeq(s, 1, i)) => Spoiled(s)
<1> DEFINE p(j) == SubSeq(s, 1, j)
           U == {k \in Nat : i + k <= Len(s) =>
                               /\ Begins(Frames(p(i)), Frames(p(i + k)))
                               /\ Spoiled(p(i)) => Spoiled(p(i + k))}
<1>1. PICK l \in Nat : l = Len(s)
  BY LenProperties
<1>2. i \in Nat /\ i + 0 = i
  BY <1>1
<1>3. 0 \in U
  <2>1. 1 \in Int /\ 1 >= 1 /\ i \in Int /\ i <= Len(s)
    BY <1>1
  <2>2. p(i) \in Seq(Byte)
    BY <2>1, SliceOfBytes
  <2>3. Frames(p(i)) \in Seq(UdpFrame)
    <3> HIDE DEF p
    <3> QED
      BY <2>2, DecodedType
  <2> HIDE DEF p
  <2>4. Begins(Frames(p(i)), Frames(p(i)))
    <3>1. Len(Frames(p(i))) \in Nat
      BY <2>3, LenProperties
    <3> QED
      BY <3>1 DEF Begins
  <2> QED
    BY <1>2, <2>4
<1>4. ASSUME NEW k \in U PROVE k + 1 \in U
  <2> SUFFICES ASSUME i + (k + 1) <= l
               PROVE  /\ Begins(Frames(p(i)), Frames(p(i + (k + 1))))
                      /\ Spoiled(p(i)) => Spoiled(p(i + (k + 1)))
    BY <1>1
  <2>1. k \in Nat /\ i + (k + 1) = (i + k) + 1 /\ i + k \in Nat /\ i + k < l
    BY <1>1
  <2>2. /\ Begins(Frames(p(i)), Frames(p(i + k)))
        /\ Spoiled(p(i)) => Spoiled(p(i + k))
    BY <1>1, <2>1
  <2>3. /\ p(i + k) \in Seq(Byte) /\ s[(i + k) + 1] \in Byte
        /\ p((i + k) + 1) = Append(p(i + k), s[(i + k) + 1])
    BY <1>1, <2>1, OneMore
  <2> HIDE DEF p, U
  <2>4. /\ Begins(Frames(p(i + k)), Frames(p((i + k) + 1)))
        /\ Spoiled(p(i + k)) => Spoiled(p((i + k) + 1))
    BY <2>3, FeedKeeps
  <2>5. Begins(Frames(p(i)), Frames(p((i + k) + 1)))
    <3>1. /\ Len(Frames(p(i + k))) \in Nat
          /\ Len(Frames(p((i + k) + 1))) \in Nat
      BY <2>3, FeedKeeps, LenProperties
    <3>2. Len(Frames(p(i))) \in Nat
      <4>1. 1 \in Int /\ 1 >= 1 /\ i \in Int /\ i <= Len(s)
        BY <1>1
      <4>2. p(i) \in Seq(Byte)
        BY <4>1, SliceOfBytes DEF p
      <4>3. Frames(p(i)) \in Seq(UdpFrame)
        BY <4>2, DecodedType
      <4> QED
        BY <4>3, LenProperties
    <3> QED
      BY <2>2, <2>4, <3>1, <3>2 DEF Begins
  <2> QED
    BY <2>1, <2>2, <2>4, <2>5
<1>5. U = Nat
  <2>1. U \in SUBSET Nat
    OBVIOUS
  <2> HIDE DEF U, p
  <2> QED
    BY <1>3, <1>4, <2>1, Upwards
<1>6. PICK k \in Nat : i + k = l
  <2>1. l - i \in Nat /\ i + (l - i) = l
    BY <1>1
  <2> QED
    BY <2>1
<1>7. p(i + k) = s
  BY <1>1, <1>6, SubSeqFull
<1>8. i + k <= l
  BY <1>6
<1> QED
  BY <1>1, <1>5, <1>7, <1>8

-----------------------------------------------------------------------------
(* Subsequences and sums of sequences of frames.                           *)

LEMMA SubsequenceOfEmpty == IsSubsequence(<< >>, << >>)
<1> DEFINE f == [i \in 1 .. 0 |-> i]
<1>1. Len(<< >>) = 0
  BY EmptySeq
<1>2. f \in [1 .. 0 -> 1 .. 0]
  OBVIOUS
<1> HIDE DEF f
<1>3. \A i \in 1 .. 0 : FALSE
  OBVIOUS
<1> SUFFICES \E g \in [1 .. 0 -> 1 .. 0] :
               /\ \A i, j \in 1 .. 0 : i < j => g[i] < g[j]
               /\ \A i \in 1 .. 0 : << >>[i] = << >>[g[i]]
  BY <1>1, Zenon DEF IsSubsequence
<1> QED
  BY <1>2, <1>3, Zenon

LEMMA SubsequenceOfLonger ==
  ASSUME NEW S, NEW s \in Seq(S), NEW t \in Seq(S), NEW u \in Seq(S),
         IsSubsequence(s, t), Begins(t, u)
  PROVE  IsSubsequence(s, u)
<1>1. PICK f \in [1 .. Len(s) -> 1 .. Len(t)] :
        /\ \A i, j \in 1 .. Len(s) : i < j => f[i] < f[j]
        /\ \A i \in 1 .. Len(s) : s[i] = t[f[i]]
  BY DEF IsSubsequence
<1>2. Len(t) \in Nat /\ Len(u) \in Nat /\ Len(t) <= Len(u)
  BY LenProperties DEF Begins
<1>3. f \in [1 .. Len(s) -> 1 .. Len(u)]
  BY <1>2
<1>4. \A i \in 1 .. Len(s) : s[i] = u[f[i]]
  BY <1>1 DEF Begins
<1> QED
  BY <1>1, <1>3, <1>4 DEF IsSubsequence

LEMMA AppendBegins ==
  ASSUME NEW S, NEW t \in Seq(S), NEW e \in S
  PROVE  Append(t, e) \in Seq(S) /\ Begins(t, Append(t, e))
<1>1. /\ Append(t, e) \in Seq(S) /\ Len(Append(t, e)) = Len(t) + 1
      /\ \A i \in 1 .. Len(t) : Append(t, e)[i] = t[i]
  BY AppendProperties
<1>2. Len(t) \in Nat
  BY LenProperties
<1> QED
  BY <1>1, <1>2 DEF Begins

LEMMA SubsequenceAppend ==
  ASSUME NEW S, NEW s \in Seq(S), NEW t \in Seq(S), NEW e \in S, IsSubsequence(s, t)
  PROVE  IsSubsequence(Append(s, e), Append(t, e))
<1>1. PICK f \in [1 .. Len(s) -> 1 .. Len(t)] :
        /\ \A i, j \in 1 .. Len(s) : i < j => f[i] < f[j]
        /\ \A i \in 1 .. Len(s) : s[i] = t[f[i]]
  BY DEF IsSubsequence
<1>2. PICK m \in Nat, n \in Nat : m = Len(s) /\ n = Len(t)
  BY LenProperties
<1> DEFINE a == Append(s, e)
           b == Append(t, e)
           g == [i \in 1 .. m + 1 |-> IF i <= m THEN f[i] ELSE n + 1]
<1>3. /\ Len(a) = m + 1 /\ a[m + 1] = e /\ \A i \in 1 .. m : a[i] = s[i]
      /\ Len(b) = n + 1 /\ b[n + 1] = e /\ \A i \in 1 .. n : b[i] = t[i]
  BY <1>2, AppendProperties
<1> HIDE DEF a, b
<1>4. \A i \in 1 .. m : f[i] \in 1 .. n
  BY <1>2
<1>5. g \in [1 .. m + 1 -> 1 .. n + 1]
  BY <1>4
<1>6. \A i, j \in 1 .. m + 1 : i < j => g[i] < g[j]
  <2> SUFFICES ASSUME NEW i \in 1 .. m + 1, NEW j \in 1 .. m + 1, i < j
               PROVE  g[i] < g[j]
    OBVIOUS
  <2>1. i \in 1 .. m /\ g[i] = f[i]
    OBVIOUS
  <2>2. CASE j <= m
    <3>1. j \in 1 .. m /\ g[j] = f[j]
      BY <2>2
    <3> QED
      BY <1>1, <1>2, <2>1, <3>1
  <2>3. CASE ~(j <= m)
    <3>1. g[j] = n + 1
      BY <2>3
    <3> QED
      BY <1>4, <2>1, <3>1
  <2> QED
    BY <2>2, <2>3
<1>7. ASSUME NEW i \in 1 .. m + 1 PROVE a[i] = b[g[i]]
  <2>1. CASE i <= m
    <3>1. i \in 1 .. m /\ g[i] = f[i]
      BY <2>1
    <3>2. a[i] = s[i] /\ s[i] = t[f[i]] /\ f[i] \in 1 .. n
      BY <1>1, <1>2, <1>3, <1>4, <3>1
    <3> QED
      BY <1>3, <3>1, <3>2
  <2>2. CASE ~(i <= m)
    <3>1. i = m + 1 /\ g[i] = n + 1
      BY <2>2
    <3> QED
      BY <1>3, <3>1
  <2> QED
    BY <2>1, <2>2
<1> HIDE DEF g
<1>8. IsSubsequence(a, b)
  BY <1>3, <1>5, <1>6, <1>7, ZenonT(60) DEF IsSubsequence
<1> QED
  BY <1>8 DEF a, b

\* The recursive function in PayloadBytes.
IsTotal(fs, f) ==
  f = [n \in 0 .. Len(fs) |-> IF n = 0 THEN 0 ELSE f[n - 1] + Len(fs[n].payload)]
Total(fs) == CHOOSE f : IsTotal(fs, f)

LEMMA TotalExists ==
  ASSUME NEW fs, Len(fs) \in Nat
  PROVE  IsTotal(fs, Total(fs))
<1> DEFINE At(f, n) == IF n = 0 THEN 0 ELSE f[n - 1] + Len(fs[n].payload)
           T == {n \in Nat : \E f : f = [m \in 0 .. n |-> At(f, m)]}
<1>1. 0 \in T
  <2>1. [m \in 0 .. 0 |-> 0] = [m \in 0 .. 0 |-> At([k \in 0 .. 0 |-> 0], m)]
    OBVIOUS
  <2> QED
    BY <2>1
<1>2. ASSUME NEW n \in T PROVE n + 1 \in T
  <2>1. PICK f : f = [m \in 0 .. n |-> At(f, m)]
    OBVIOUS
  <2> DEFINE g == [m \in 0 .. n + 1 |-> At(f, m)]
  <2>2. \A m \in 0 .. n : g[m] = f[m]
    BY <2>1
  <2>3. ASSUME NEW m \in 0 .. n + 1 PROVE At(f, m) = At(g, m)
    <3>1. CASE m = 0
      BY <3>1
    <3>2. CASE m # 0
      <4>1. m - 1 \in 0 .. n
        BY <3>2
      <4>2. g[m - 1] = f[m - 1]
        BY <2>2, <4>1
      <4> HIDE DEF g
      <4> QED
        BY <3>2, <4>2
    <3> QED
      BY <3>1, <3>2
  <2>4. g = [m \in 0 .. n + 1 |-> At(g, m)]
    <3> HIDE DEF At
    <3> QED
      BY <2>3
  <2> HIDE DEF g, At
  <2> QED
    BY <2>4
<1>3. T = Nat
  <2>1. T \in SUBSET Nat
    OBVIOUS
  <2> HIDE DEF T
  <2> QED
    BY <1>1, <1>2, <2>1, Upwards
<1>4. \E f : IsTotal(fs, f)
  BY <1>3 DEF IsTotal
<1> QED
  BY <1>4 DEF Total

\* Its values: they are determined, and natural numbers.
LEMMA TotalUnfolds ==
  ASSUME NEW fs, Len(fs) \in Nat
  PROVE  /\ PayloadBytes(fs) = Total(fs)[Len(fs)]
         /\ Total(fs)[0] = 0
         /\ \A n \in 0 .. Len(fs) : n # 0 =>
              Total(fs)[n] = Total(fs)[n - 1] + Len(fs[n].payload)
<1>1. PayloadBytes(fs) = Total(fs)[Len(fs)]
  BY DEF PayloadBytes, Total, IsTotal
<1>2. IsTotal(fs, Total(fs))
  BY TotalExists
<1>3. \A n \in 0 .. Len(fs) :
        Total(fs)[n] = IF n = 0 THEN 0 ELSE Total(fs)[n - 1] + Len(fs[n].payload)
  BY <1>2 DEF IsTotal
<1> QED
  BY <1>1, <1>3

LEMMA PayloadBytesEmpty == PayloadBytes(<< >>) = 0
<1>1. Len(<< >>) = 0
  BY EmptySeq
<1> QED
  BY <1>1, TotalUnfolds

\* One more frame adds its payload.
LEMMA PayloadBytesAppend ==
  ASSUME NEW fs \in Seq(UdpFrame), NEW x \in UdpFrame
  PROVE  PayloadBytes(Append(fs, x)) = PayloadBytes(fs) + Len(x.payload)
<1> DEFINE gs == Append(fs, x)
           f == Total(fs)
           g == Total(gs)
           T == {n \in Nat : n <= Len(fs) => g[n] = f[n]}
<1>1. PICK l \in Nat : l = Len(fs)
  BY LenProperties
<1>2. /\ Len(gs) = l + 1 /\ gs[l + 1] = x
      /\ \A i \in 1 .. l : gs[i] = fs[i]
  BY <1>1, AppendProperties
<1> HIDE DEF gs
<1>3. /\ PayloadBytes(fs) = f[l] /\ f[0] = 0
      /\ \A n \in 0 .. l : n # 0 => f[n] = f[n - 1] + Len(fs[n].payload)
  BY <1>1, TotalUnfolds
<1>4. /\ PayloadBytes(gs) = g[l + 1] /\ g[0] = 0
      /\ \A n \in 0 .. l + 1 : n # 0 => g[n] = g[n - 1] + Len(gs[n].payload)
  BY <1>1, <1>2, TotalUnfolds
<1> HIDE DEF f, g
<1>5. 0 \in T
  BY <1>3, <1>4
<1>6. ASSUME NEW n \in T PROVE n + 1 \in T
  <2> SUFFICES ASSUME n + 1 <= l PROVE g[n + 1] = f[n + 1]
    BY <1>1
  <2>1. /\ n + 1 \in 0 .. l /\ n + 1 \in 0 .. l + 1 /\ n + 1 # 0
        /\ (n + 1) - 1 = n /\ n <= l /\ n + 1 \in 1 .. l
    OBVIOUS
  <2>2. g[n] = f[n]
    BY <1>1, <2>1
  <2>3. f[n + 1] = f[n] + Len(fs[n + 1].payload)
    BY <1>3, <2>1
  <2>4. g[n + 1] = g[n] + Len(gs[n + 1].payload)
    BY <1>4, <2>1
  <2>5. gs[n + 1] = fs[n + 1]
    BY <1>2, <2>1
  <2> QED
    BY <2>2, <2>3, <2>4, <2>5
<1>7. T = Nat
  <2>1. T \in SUBSET Nat
    OBVIOUS
  <2> HIDE DEF T
  <2> QED
    BY <1>5, <1>6, <2>1, Upwards
<1>8. g[l] = f[l]
  <2>1. l \in T
    BY <1>7
  <2> QED
    BY <1>1, <2>1
<1>9. g[l + 1] = g[l] + Len(gs[l + 1].payload)
  <2>1. l + 1 \in 0 .. l + 1 /\ l + 1 # 0 /\ (l + 1) - 1 = l
    OBVIOUS
  <2> QED
    BY <1>4, <2>1
<1> QED
  BY <1>2, <1>3, <1>4, <1>8, <1>9 DEF gs

-----------------------------------------------------------------------------
(* The inductive invariant.                                                *)

\* The constants.
LEMMA Sizes ==
  /\ UDP_BUFFER_SIZE \in Nat /\ UDP_MAX_PAYLOAD_LEN \in Nat
  /\ UDP_BUFFER_SIZE <= UDP_MAX_PAYLOAD_LEN
  /\ \A n \in Nat : n <= UDP_MAX_PAYLOAD_LEN => n \in U16
  /\ MaxDatagrams \in Nat
<1>1. /\ UDP_BUFFER_SIZE \in Nat \ {0}
      /\ UDP_MAX_PAYLOAD_LEN \in UDP_BUFFER_SIZE .. MaxU16
      /\ MaxDatagrams \in Nat
  BY UdpAssumption, SMTT(60) DEF MaxU16
<1>2. MaxU16 \in Nat
  BY SMTT(60) DEF MaxU16
<1>3. U16 = 0 .. MaxU16
  BY SMTT(60) DEF U16, MaxU16
<1>4. /\ UDP_BUFFER_SIZE \in Nat /\ UDP_MAX_PAYLOAD_LEN \in Nat
      /\ UDP_BUFFER_SIZE <= UDP_MAX_PAYLOAD_LEN /\ UDP_MAX_PAYLOAD_LEN <= MaxU16
  BY <1>1, <1>2
<1>5. \A n \in Nat : n <= UDP_MAX_PAYLOAD_LEN => n \in U16
  BY <1>2, <1>3, <1>4
<1> QED
  BY <1>1, <1>4, <1>5

LEMMA ClientType ==
  ASSUME NEW c \in Clients
  PROVE  c.bytes \in Seq(Byte) /\ Len(c.bytes) \in Nat
<1>1. c.bytes \in Seq(Byte)
  BY UdpAssumption, SMT
<1> QED
  BY <1>1, LenProperties

LEMMA DatagramType ==
  ASSUME NEW d \in Datagrams
  PROVE  d.source \in Address /\ d.source.type # TYPE_DOMAIN /\ d.payload \in Seq(Byte)
BY UdpAssumption, SMT

\* What recv_from leaves of a payload fits a frame.
LEMMA CutFits ==
  ASSUME NEW p \in Seq(Byte)
  PROVE  /\ Cut(p) \in Seq(Byte) /\ Len(Cut(p)) \in U16 /\ FrameFits(Cut(p))
         /\ Cut(p) = SubSeq(p, 1, Len(Cut(p)))
         /\ Len(p) <= UDP_BUFFER_SIZE => Cut(p) = p
<1>1. PICK l \in Nat : l = Len(p)
  BY LenProperties
<1>2. PICK n \in Nat :
        /\ n = IF l <= UDP_BUFFER_SIZE THEN l ELSE UDP_BUFFER_SIZE
        /\ n <= l /\ n <= UDP_BUFFER_SIZE
  BY Sizes
<1>3. Cut(p) = SubSeq(p, 1, n)
  BY <1>1, <1>2 DEF Cut
<1>4. 1 \in Int /\ 1 >= 1 /\ n \in Int /\ n <= Len(p)
  BY <1>1, <1>2
<1>5. SubSeq(p, 1, n) \in Seq(Byte)
  BY <1>4, SliceOfBytes
<1>6. Len(SubSeq(p, 1, n)) = n
  <2>1. \A i \in 1 .. n : i \in 1 .. Len(p)
    BY <1>1, <1>2
  <2>2. \A i \in 1 .. n : p[i] \in Byte
    BY <2>1, ElementOfSeq
  <2>3. Len(SubSeq(p, 1, n)) = IF 1 <= n THEN n - 1 + 1 ELSE 0
    BY <2>2, SubSeqProperties
  <2> QED
    BY <2>3
<1>7. n <= UDP_MAX_PAYLOAD_LEN /\ n \in U16
  BY <1>2, Sizes
<1>8. Len(p) <= UDP_BUFFER_SIZE => SubSeq(p, 1, n) = p
  BY <1>1, <1>2, SubSeqFull
<1> QED
  BY <1>3, <1>5, <1>6, <1>7, <1>8 DEF FrameFits

\* The bytes read_udp_frame has consumed, and the datagrams recv_from returned.
Consumed == SubSeq(client.bytes, 1, pos)
Taken == Len(arrived) - Len(inbox)

\* From the client to the sockets.  Between two frames the pending frame is the
\* last one the stream carries, and what was sent is among those before it.
StreamInv ==
  /\ sent \in Seq(UdpFrame)
  /\ loop \in {"Resolve", "Send"} => frame \in UdpFrame
  /\ ~torn =>
       /\ loop # "Ended" => acc = Rest(Consumed)
       /\ loop \in {"Resolve", "Send"} =>
            \E F \in Seq(UdpFrame) :
              Frames(Consumed) = Append(F, frame) /\ IsSubsequence(sent, F)
       /\ IsSubsequence(sent, Frames(Consumed))
       /\ result = "BadFrame" => Spoiled(Consumed)

\* A datagram is in write_all, or was when it failed.
InHand == loop = "Reply" \/ put # 0

\* From the sockets to the client: the receive buffer is the end of what has
\* arrived, and the frames written are those of its beginning, followed by the
\* part that write_all has written of the next one.
ReplyInv ==
  LET back == Frames(replies)
  IN  /\ arrived \in Seq(Datagrams) /\ inbox \in Seq(Datagrams)
      /\ Taken \in Nat
      /\ \A i \in 1 .. Len(inbox) : inbox[i] = arrived[Taken + i]
      /\ put \in Nat /\ (put # 0 => loop \in {"Reply", "Ended"})
      /\ put = 0 => Rest(replies) = << >>
      /\ put # 0 =>
           /\ put < Len(Outgoing)
           /\ \E whole \in Seq(Byte) :
                Rest(whole) = << >> /\ replies = whole \o SubSeq(Outgoing, 1, put)
      /\ InHand => Taken = Len(back) + 1 /\ frame = Received(arrived[Taken])
      /\ loop \notin {"Reply", "Ended"} => Taken = Len(back)
      /\ Taken - Len(back) \in {0, 1}
      /\ \A i \in 1 .. Len(back) :
           back[i] = [is      |-> "Ok",
                      address |-> arrived[i].source,
                      payload |-> Cut(arrived[i].payload)]

UdpInv == TypeOK /\ StreamInv /\ ReplyInv /\ CountersMatchTraffic

-----------------------------------------------------------------------------
(* It holds at the start.                                                  *)

LEMMA UdpInit == Init => UdpInv
<1> SUFFICES ASSUME Init PROVE UdpInv
  OBVIOUS
<1> USE DEF Init
<1>1. client \in Clients /\ Len(client.bytes) \in Nat /\ client.bytes \in Seq(Byte)
  BY ClientType
<1>2. << >> \in Seq(Byte) /\ Len(<< >>) = 0 /\ << >> \in Seq(UdpFrame)
      /\ << >> \in Seq(Datagrams)
  BY EmptySeq
<1>3. Frames(<< >>) = << >> /\ Rest(<< >>) = << >>
  BY DecodeEmpty DEF Frames, Rest
<1>4. TypeOK
  BY <1>1, <1>2, Sizes DEF TypeOK, NewSession
<1>5. Consumed = << >>
  BY SubSeqEmpty DEF Consumed
<1>6. StreamInv
  BY <1>2, <1>3, <1>5, SubsequenceOfEmpty DEF StreamInv
<1>7. ReplyInv
  <2>1. Taken = 0
    BY <1>2 DEF Taken
  <2> QED
    BY <1>2, <1>3, <2>1 DEF ReplyInv, InHand
<1>8. CountersMatchTraffic
  BY <1>3, PayloadBytesEmpty DEF CountersMatchTraffic, NewSession
<1> QED
  BY <1>4, <1>6, <1>7, <1>8 DEF UdpInv

-----------------------------------------------------------------------------
(* What the steps of the loop do.                                          *)

\* read_udp_frame has one more byte.
LEMMA ByteRead ==
  ASSUME TypeOK, ReadByte, UNCHANGED client
  PROVE  LET b == client.bytes[pos + 1]
         IN  /\ b \in Byte /\ Append(acc, b) \in Seq(Byte)
             /\ Len(Append(acc, b)) = Len(acc) + 1
             /\ pos' \in 0 .. Len(client.bytes)
             /\ Consumed \in Seq(Byte)
             /\ Consumed' = Append(Consumed, b)
<1>1. client \in Clients /\ pos \in 0 .. Len(client.bytes) /\ acc \in Seq(Byte)
  BY DEF TypeOK
<1>2. client.bytes \in Seq(Byte) /\ Len(client.bytes) \in Nat
  BY <1>1, ClientType
<1>3. pos < Len(client.bytes) /\ pos' = pos + 1
  BY DEF ReadByte
<1>4. pos \in Nat /\ pos' \in 0 .. Len(client.bytes)
  BY <1>1, <1>2, <1>3
<1>5. /\ Consumed \in Seq(Byte) /\ client.bytes[pos + 1] \in Byte
      /\ SubSeq(client.bytes, 1, pos + 1) = Append(Consumed, client.bytes[pos + 1])
  BY <1>2, <1>3, <1>4, OneMore DEF Consumed
<1>6. Consumed' = SubSeq(client.bytes, 1, pos + 1)
  BY <1>3 DEF Consumed
<1>7. /\ Append(acc, client.bytes[pos + 1]) \in Seq(Byte)
      /\ Len(Append(acc, client.bytes[pos + 1])) = Len(acc) + 1
  BY <1>1, <1>5, AppendBytes
<1> QED
  BY <1>4, <1>5, <1>6, <1>7

\* In step, the bytes in hand decide what the stream decodes to.
LEMMA FrameRead ==
  ASSUME NEW s \in Seq(Byte), NEW b \in Byte
  PROVE  LET v == ReadFrame(Append(Rest(s), b))
         IN  /\ v.is = "Ok" => /\ Frames(Append(s, b)) = Append(Frames(s), v)
                               /\ Rest(Append(s, b)) = << >>
             /\ v.is # "Ok" => /\ Frames(Append(s, b)) = Frames(s)
                               /\ Rest(Append(s, b)) = Append(Rest(s), b)
<1> DEFINE v == ReadFrame(Append(Rest(s), b))
<1>1. Decode(Append(s, b)) = Feed(Decode(s), b)
  BY DecodeAppend
<1>2. v.is = "Ok" => Feed(Decode(s), b) = [frames |-> Append(Frames(s), v), rest |-> << >>]
  BY Zenon DEF Feed, Rest, Frames
<1>3. v.is # "Ok" => Feed(Decode(s), b) = [frames |-> Frames(s), rest |-> Append(Rest(s), b)]
  BY Zenon DEF Feed, Rest, Frames
<1>4. v.is = "Ok" => /\ Frames(Append(s, b)) = Append(Frames(s), v)
                     /\ Rest(Append(s, b)) = << >>
  <2> SUFFICES ASSUME v.is = "Ok"
               PROVE  /\ Decode(Append(s, b)).frames = Append(Frames(s), v)
                      /\ Decode(Append(s, b)).rest = << >>
    BY Zenon DEF Frames, Rest
  <2> HIDE DEF v
  <2> QED
    BY <1>1, <1>2
<1>5. v.is # "Ok" => /\ Frames(Append(s, b)) = Frames(s)
                     /\ Rest(Append(s, b)) = Append(Rest(s), b)
  <2> SUFFICES ASSUME v.is # "Ok"
               PROVE  /\ Decode(Append(s, b)).frames = Frames(s)
                      /\ Decode(Append(s, b)).rest = Append(Rest(s), b)
    BY Zenon DEF Frames, Rest
  <2> HIDE DEF v
  <2> QED
    BY <1>1, <1>3
<1> QED
  BY <1>4, <1>5

\* A frame and a datagram are not NoFrame.
LEMMA FrameIsSome ==
  /\ \A x \in UdpFrame : x # NoFrame
  /\ \A d : Received(d) # NoFrame
<1>1. \A x \in UdpFrame : DOMAIN x = {"is", "address", "payload"}
  BY DEF UdpFrame
<1>2. \A d : DOMAIN Received(d) = {"source", "payload"}
  BY DEF Received
<1>3. DOMAIN NoFrame = {}
  BY DEF NoFrame
<1> QED
  BY <1>1, <1>2, <1>3

\* recv_from takes the datagram that arrived next.
LEMMA DatagramTaken ==
  ASSUME ReplyInv, Recv
  PROVE  /\ frame' = Received(Head(inbox)) /\ Head(inbox) \in Datagrams
         /\ inbox' \in Seq(Datagrams) /\ Len(inbox') = Len(inbox) - 1
         /\ Taken' = Taken + 1 /\ Head(inbox) = arrived'[Taken']
         /\ \A i \in 1 .. Len(inbox') : inbox'[i] = arrived'[Taken' + i]
<1> USE DEF Recv
<1>1. inbox \in Seq(Datagrams) /\ arrived \in Seq(Datagrams)
  BY DEF ReplyInv
<1>2. Len(inbox) \in Nat \ {0} /\ Len(arrived) \in Nat
  BY <1>1, EmptySeq, LenProperties
<1>3. /\ Head(inbox) \in Datagrams /\ inbox' \in Seq(Datagrams)
      /\ Len(inbox') = Len(inbox) - 1
      /\ \A i \in 1 .. Len(inbox') : inbox'[i] = inbox[i + 1]
  BY <1>1, HeadTailProperties
<1>4. Head(inbox) = inbox[1]
  BY <1>1
<1>5. Taken \in Nat /\ Taken' = Taken + 1
  BY <1>2, <1>3 DEF Taken, ReplyInv
<1>6. \A i \in 1 .. Len(inbox) : inbox[i] = arrived[Taken + i]
  BY DEF ReplyInv
<1>7. Head(inbox) = arrived'[Taken']
  <2>1. 1 \in 1 .. Len(inbox)
    BY <1>2
  <2>2. inbox[1] = arrived[Taken + 1]
    BY <1>6, <2>1
  <2> QED
    BY <1>4, <1>5, <2>2
<1>8. ASSUME NEW i \in 1 .. Len(inbox') PROVE inbox'[i] = arrived'[Taken' + i]
  <2>1. i + 1 \in 1 .. Len(inbox) /\ Taken + (i + 1) = (Taken + 1) + i
    BY <1>2, <1>3, <1>5
  <2>2. inbox[i + 1] = arrived[Taken + (i + 1)]
    BY <1>6, <2>1
  <2> QED
    BY <1>3, <1>5, <2>1, <2>2
<1>9. frame' = Received(Head(inbox))
  BY Zenon DEF Received, Cut
<1> QED
  BY <1>3, <1>5, <1>7, <1>8, <1>9

\* What the loop has in hand to reply with.
LEMMA ReplyInHand ==
  ASSUME TypeOK, ReplyInv, InHand
  PROVE  /\ Taken \in 1 .. Len(arrived) /\ arrived[Taken] \in Datagrams
         /\ frame.source = arrived[Taken].source
         /\ frame.payload = Cut(arrived[Taken].payload)
         /\ frame.source \in Address /\ frame.source.type # TYPE_DOMAIN
         /\ frame.payload \in Seq(Byte) /\ Len(frame.payload) \in U16
         /\ FrameFits(frame.payload)
<1>1. /\ frame = Received(arrived[Taken]) /\ arrived \in Seq(Datagrams)
      /\ Taken \in Nat /\ Taken = Len(Frames(replies)) + 1
      /\ inbox \in Seq(Datagrams)
  BY DEF ReplyInv
<1>2. Taken \in 1 .. Len(arrived)
  <2>1. Len(Frames(replies)) \in Nat
    BY DecodedType, LenProperties DEF TypeOK
  <2>2. Len(arrived) \in Nat /\ Len(inbox) \in Nat
    BY <1>1, LenProperties
  <2> QED
    BY <1>1, <2>1, <2>2 DEF Taken
<1>3. arrived[Taken] \in Datagrams
  BY <1>1, <1>2, ElementOfSeq
<1>4. /\ frame.source = arrived[Taken].source
      /\ frame.payload = Cut(arrived[Taken].payload)
  BY <1>1 DEF Received
<1>5. /\ arrived[Taken].source \in Address /\ arrived[Taken].source.type # TYPE_DOMAIN
      /\ arrived[Taken].payload \in Seq(Byte)
  BY <1>3, DatagramType
<1> QED
  BY <1>2, <1>3, <1>4, <1>5, CutFits

\* One write of write_all: a part of the frame more, or the end of it and with
\* it one more frame.
LEMMA ReplyWritten ==
  ASSUME TypeOK, ReplyInv, Reply
  PROVE  LET x == [is |-> "Ok", address |-> frame.source, payload |-> frame.payload]
         IN  /\ Frames(replies) \in Seq(UdpFrame) /\ x \in UdpFrame
             /\ replies' \in Seq(Byte) /\ Len(frame.payload) \in Nat
             /\ UNCHANGED result
             /\ \/ /\ put' \in Nat \ {0} /\ put' < Len(Outgoing)
                   /\ UNCHANGED <<loop, frame, stats>>
                   /\ Frames(replies') = Frames(replies)
                   /\ \E whole \in Seq(Byte) :
                        /\ Rest(whole) = << >>
                        /\ replies' = whole \o SubSeq(Outgoing, 1, put')
                \/ /\ put' = 0 /\ loop' = "Wait"
                   /\ stats' = AddReceived(stats, Len(frame.payload))
                   /\ Frames(replies') = Append(Frames(replies), x)
                   /\ Rest(replies') = << >>
<1> DEFINE x == [is |-> "Ok", address |-> frame.source, payload |-> frame.payload]
           t == Outgoing
<1>1. loop = "Reply" /\ InHand
  BY DEF Reply, InHand
<1>2. /\ frame.source \in Address /\ frame.source.type # TYPE_DOMAIN
      /\ frame.payload \in Seq(Byte) /\ Len(frame.payload) \in U16
      /\ FrameFits(frame.payload)
  BY <1>1, ReplyInHand
<1>3. PICK n \in 1 .. Len(t) - put :
        replies' = replies \o SubSeq(t, put + 1, put + n) /\ Wrote(n) /\ UNCHANGED result
  BY <1>2 DEF Reply
<1>4. /\ t \in Seq(Byte) /\ t # << >> /\ ReadFrame(t) = x
      /\ \A j \in 0 .. Len(t) - 1 : ReadFrame(SubSeq(t, 1, j)).is # "Ok"
  BY <1>2, FrameReadsBack DEF Outgoing
<1>5. x.is = "Ok"
  OBVIOUS
<1>6. /\ IF put + n < Len(t)
           THEN put' = put + n /\ UNCHANGED <<loop, frame, stats>>
           ELSE /\ put' = 0 /\ loop' = "Wait"
                /\ stats' = AddReceived(stats, Len(frame.payload))
  BY <1>3 DEF Wrote
<1> HIDE DEF t, x
<1>7. replies \in Seq(Byte) /\ put \in Nat
  BY DEF TypeOK, ReplyInv
<1>8. PICK l \in Nat, p \in Nat : l = Len(t) /\ p = put
  BY <1>4, <1>7, LenProperties
<1>9. /\ n \in Nat /\ n >= 1 /\ p + n \in Nat /\ p < l /\ p + n <= l
      /\ p \in 0 .. Len(t) - 1
  BY <1>8
<1>10. PICK whole \in Seq(Byte) : Rest(whole) = << >> /\ replies = whole \o SubSeq(t, 1, p)
  <2>1. CASE p = 0
    <3>1. SubSeq(t, 1, 0) = << >> /\ replies \o << >> = replies
      BY <1>7, SubSeqEmpty, ConcatEmptySeq
    <3>2. Rest(replies) = << >>
      BY <1>8, <2>1 DEF ReplyInv
    <3> QED
      BY <1>7, <2>1, <3>1, <3>2
  <2>2. CASE p # 0
    BY <1>8, <2>2 DEF ReplyInv, t
  <2> QED
    BY <2>1, <2>2
<1>11. ReadFrame(t).is = "Ok"
  BY <1>4, <1>5
<1>12. /\ Frames(whole \o t) = Append(Frames(whole), ReadFrame(t))
       /\ Rest(whole \o t) = << >>
       /\ \A j \in 0 .. Len(t) - 1 : Frames(whole \o SubSeq(t, 1, j)) = Frames(whole)
  BY <1>4, <1>10, <1>11, DecodeFrame
<1>13. Frames(replies) = Frames(whole)
  BY <1>9, <1>10, <1>12
<1>14. replies' = whole \o SubSeq(t, 1, p + n) /\ SubSeq(t, 1, p + n) \in Seq(Byte)
  <2>1. SubSeq(t, 1, p) \in Seq(Byte) /\ SubSeq(t, 1, p + n) \in Seq(Byte)
        /\ SubSeq(t, p + 1, p + n) \in Seq(Byte)
    <3>1. /\ 1 \in Int /\ 1 >= 1 /\ p \in Int /\ p <= Len(t)
          /\ p + n \in Int /\ p + n <= Len(t) /\ p + 1 \in Int /\ p + 1 >= 1
      BY <1>8, <1>9
    <3> QED
      BY <1>4, <3>1, SliceOfBytes
  <2>2. SubSeq(t, 1, p) \o SubSeq(t, p + 1, p + n) = SubSeq(t, 1, p + n)
    <3>1. 1 \in 1 .. Len(t) + 1 /\ p \in 1 - 1 .. Len(t) /\ p + n \in p .. Len(t)
      BY <1>8, <1>9
    <3> QED
      BY <1>4, <3>1, ConcatAdjacentSubSeq
  <2>3. (whole \o SubSeq(t, 1, p)) \o SubSeq(t, p + 1, p + n) =
          whole \o (SubSeq(t, 1, p) \o SubSeq(t, p + 1, p + n))
    BY <1>10, <2>1, ConcatBytes
  <2>4. replies' = replies \o SubSeq(t, p + 1, p + n)
    BY <1>3, <1>8
  <2> QED
    BY <1>10, <2>1, <2>2, <2>3, <2>4
<1>15. replies' \in Seq(Byte)
  BY <1>14, ConcatProperties
<1>16. x \in UdpFrame
  BY <1>4, <1>11, ReadFrameType
<1>17. Frames(replies) \in Seq(UdpFrame)
  BY <1>7, DecodedType
<1>18. Len(frame.payload) \in Nat
  BY <1>2, LenProperties
<1>19. CASE p + n < l
  <2>1. /\ put' = p + n /\ UNCHANGED <<loop, frame, stats>>
    BY <1>6, <1>8, <1>19
  <2>2. put' \in Nat \ {0} /\ put' < Len(t) /\ put' \in 0 .. Len(t) - 1
    BY <1>8, <1>9, <1>19, <2>1
  <2>3. Frames(replies') = Frames(replies) /\ replies' = whole \o SubSeq(t, 1, put')
    BY <1>12, <1>13, <1>14, <2>1, <2>2
  <2> QED
    BY <1>3, <1>10, <1>15, <1>16, <1>17, <1>18, <2>1, <2>2, <2>3 DEF x, t
<1>20. CASE ~(p + n < l)
  <2>1. /\ put' = 0 /\ loop' = "Wait" /\ stats' = AddReceived(stats, Len(frame.payload))
    BY <1>6, <1>8, <1>20
  <2>2. p + n = Len(t)
    BY <1>8, <1>9, <1>20
  <2>3. replies' = whole \o t
    BY <1>4, <1>14, <2>2, SubSeqFull
  <2>4. Frames(replies') = Append(Frames(replies), x) /\ Rest(replies') = << >>
    BY <1>4, <1>12, <1>13, <2>3
  <2> QED
    BY <1>3, <1>15, <1>16, <1>17, <1>18, <2>1, <2>4 DEF x
<1> QED
  BY <1>19, <1>20

-----------------------------------------------------------------------------
(* Every step keeps the types.                                             *)

LEMMA TypeNext ==
  ASSUME UdpInv, [Next]_vars
  PROVE  TypeOK'
<1> USE DEF TypeOK
<1>0. TypeOK /\ StreamInv /\ ReplyInv
  BY DEF UdpInv
<1>1. << >> \in Seq(Byte) /\ Len(<< >>) = 0 /\ 0 <= pos
  <2>1. Len(client.bytes) \in Nat
    BY <1>0, ClientType
  <2> QED
    BY <1>0, <2>1, EmptySeq
<1>2. CASE UNCHANGED vars
  BY <1>0, <1>2 DEF vars
<1>3. CASE Bind
  BY <1>0, <1>3 DEF Bind, Return
<1>4. ASSUME ReadByte, UNCHANGED client
      PROVE  /\ pos' \in 0 .. Len(client.bytes) /\ 0 <= pos'
             /\ Append(acc, client.bytes[pos + 1]) \in Seq(Byte)
             /\ Len(Append(acc, client.bytes[pos + 1])) <= pos'
  <2>1. /\ pos' \in 0 .. Len(client.bytes)
        /\ Append(acc, client.bytes[pos + 1]) \in Seq(Byte)
        /\ Len(Append(acc, client.bytes[pos + 1])) = Len(acc) + 1
    BY <1>0, <1>4, ByteRead
  <2>2. Len(acc) \in Nat /\ Len(client.bytes) \in Nat
    BY <1>0, ClientType, LenProperties
  <2>3. pos' = pos + 1 /\ Len(acc) <= pos /\ pos \in 0 .. Len(client.bytes)
    BY <1>0, <1>4 DEF ReadByte
  <2> QED
    BY <2>1, <2>2, <2>3
<1>5. CASE ReadMore
  <2>1. ReadByte /\ UNCHANGED client
    BY <1>5 DEF ReadMore
  <2>2. acc' = Append(acc, client.bytes[pos + 1])
    BY <1>5 DEF ReadMore
  <2>3. acc' \in Seq(Byte) /\ Len(acc') <= pos' /\ pos' \in 0 .. Len(client'.bytes)
    BY <1>4, <2>1, <2>2
  <2> QED
    BY <1>0, <1>5, <2>3 DEF ReadMore
<1>6. CASE ClientFrame
  <2>1. ReadByte /\ UNCHANGED client
    BY <1>6 DEF ClientFrame
  <2>2. frame' # NoFrame
    <3>1. /\ frame' = ReadFrame(Append(acc, client.bytes[pos + 1]))
          /\ ReadFrame(Append(acc, client.bytes[pos + 1])).is = "Ok"
      BY <1>6 DEF ClientFrame
    <3> QED
      BY <1>4, <2>1, <3>1, ReadFrameType, FrameIsSome
  <2>3. pos' \in 0 .. Len(client'.bytes) /\ 0 <= pos'
    BY <1>4, <2>1
  <2> QED
    BY <1>0, <1>1, <1>6, <2>2, <2>3 DEF ClientFrame
<1>7. CASE ClientBadFrame
  <2>1. ReadByte /\ UNCHANGED client
    BY <1>7 DEF ClientBadFrame
  <2>2. pos' \in 0 .. Len(client'.bytes) /\ 0 <= pos'
    BY <1>4, <2>1
  <2> QED
    BY <1>0, <1>1, <1>7, <2>2 DEF ClientBadFrame, Return
<1>8. CASE ClientEnd \/ Timeout \/ RecvError
  BY <1>0, <1>1, <1>8 DEF ClientEnd, Timeout, RecvError, Return
<1>9. CASE Resolve
  BY <1>0, <1>9 DEF Resolve
<1>10. CASE SendTo
  <2>1. frame \in UdpFrame
    BY <1>0, <1>10 DEF SendTo, StreamInv
  <2>2. Len(frame.payload) \in Nat
    <3>1. frame.payload \in Seq(Byte)
      BY <2>1 DEF UdpFrame
    <3> QED
      BY <3>1, LenProperties
  <2>3. stats' \in [sent : Nat, received : Nat]
    BY <1>0, <1>10, <2>2 DEF SendTo, AddSent
  <2> QED
    BY <1>0, <1>10, <2>3 DEF SendTo
<1>11. CASE Recv
  <2>1. frame' = Received(Head(inbox)) /\ Head(inbox) \in Datagrams
        /\ Len(inbox') = Len(inbox) - 1
    BY <1>0, <1>11, DatagramTaken
  <2>2. FrameFits(frame'.payload) /\ frame' # NoFrame
    <3>1. Head(inbox).payload \in Seq(Byte)
      BY <2>1, DatagramType
    <3>2. frame'.payload = Cut(Head(inbox).payload)
      BY <2>1 DEF Received
    <3> QED
      BY <2>1, <3>1, <3>2, CutFits, FrameIsSome
  <2>3. Len(inbox') <= Len(arrived')
    <3>1. Len(inbox) \in Nat /\ Len(arrived) \in Nat
      BY <1>0, LenProperties DEF ReplyInv
    <3>2. arrived' = arrived
      BY <1>11 DEF Recv
    <3> QED
      BY <1>0, <2>1, <3>1, <3>2
  <2> QED
    BY <1>0, <1>1, <1>11, <2>2, <2>3 DEF Recv
<1>12. CASE Reply
  <2>1. loop = "Reply" /\ UNCHANGED <<client, pos, acc, inbox, arrived>>
    BY <1>12 DEF Reply
  <2>2. /\ replies' \in Seq(Byte) /\ Len(frame.payload) \in Nat /\ UNCHANGED result
        /\ \/ put' \in Nat \ {0} /\ UNCHANGED <<loop, frame, stats>>
           \/ /\ put' = 0 /\ loop' = "Wait"
              /\ stats' = AddReceived(stats, Len(frame.payload))
    BY <1>0, <1>12, ReplyWritten
  <2>3. stats' \in [sent : Nat, received : Nat]
    BY <1>0, <2>2 DEF AddReceived
  <2> QED
    BY <1>0, <2>1, <2>2, <2>3
<1>13. CASE ReplyError
  BY <1>0, <1>13 DEF ReplyError, Return
<1>14. CASE Arrive
  <2>1. PICK d \in Datagrams :
          inbox' = Append(inbox, d) /\ arrived' = Append(arrived, d)
    BY <1>14 DEF Arrive
  <2>2. /\ Len(inbox') = Len(inbox) + 1 /\ Len(arrived') = Len(arrived) + 1
        /\ Len(inbox) \in Nat /\ Len(arrived) \in Nat
    BY <1>0, <2>1, AppendProperties, LenProperties DEF ReplyInv
  <2>3. Len(inbox') <= Len(arrived') /\ Len(arrived') <= MaxDatagrams
    BY <1>0, <1>14, <2>2, Sizes DEF Arrive
  <2> QED
    BY <1>0, <1>14, <2>3 DEF Arrive
<1> QED
  BY <1>2, <1>3, <1>5, <1>6, <1>7, <1>8, <1>9, <1>10, <1>11, <1>12, <1>13, <1>14
  DEF Next, Poll

-----------------------------------------------------------------------------
(* Every step keeps the loop in step with the client.                      *)

\* A step that consumes nothing: the frame at hand stays or is sent or skipped.
LEMMA StreamKept ==
  ASSUME StreamInv, UNCHANGED <<client, pos, sent>>, ~torn' => ~torn,
         loop' # "Ended" => loop # "Ended" /\ (~torn' => acc' = acc),
         loop' \in {"Resolve", "Send"} => loop \in {"Resolve", "Send"} /\ frame' = frame,
         result' = "BadFrame" => result = "BadFrame"
  PROVE  StreamInv'
<1>1. Consumed' = Consumed
  BY DEF Consumed
<1>2. sent' = sent
  OBVIOUS
<1> QED
  BY <1>1, <1>2 DEF StreamInv

LEMMA StreamNext ==
  ASSUME UdpInv, [Next]_vars
  PROVE  StreamInv'
<1>0. TypeOK /\ StreamInv
  BY DEF UdpInv
<1>1. sent \in Seq(UdpFrame) /\ acc \in Seq(Byte)
  BY <1>0 DEF StreamInv, TypeOK
<1> DEFINE b == client.bytes[pos + 1]
           v == ReadFrame(Append(acc, b))
<1>2. ASSUME ReadByte, UNCHANGED <<client, torn>>
      PROVE  /\ b \in Byte /\ Append(acc, b) \in Seq(Byte) /\ Consumed \in Seq(Byte)
             /\ Frames(Consumed) \in Seq(UdpFrame)
             /\ Spoiled(Consumed) => Spoiled(Consumed')
             /\ ~torn => /\ acc = Rest(Consumed)
                         /\ IsSubsequence(sent, Frames(Consumed))
                         /\ v.is = "Ok" => /\ Frames(Consumed') = Append(Frames(Consumed), v)
                                           /\ Rest(Consumed') = << >>
                         /\ v.is # "Ok" => /\ Frames(Consumed') = Frames(Consumed)
                                           /\ Rest(Consumed') = Append(acc, b)
  <2>1. /\ b \in Byte /\ Append(acc, b) \in Seq(Byte)
        /\ Consumed \in Seq(Byte) /\ Consumed' = Append(Consumed, b)
    BY <1>0, <1>2, ByteRead
  <2>2. Frames(Consumed) \in Seq(UdpFrame) /\ (Spoiled(Consumed) => Spoiled(Consumed'))
    BY <2>1, FeedKeeps
  <2>3. ~torn => acc = Rest(Consumed) /\ IsSubsequence(sent, Frames(Consumed))
    BY <1>0, <1>2 DEF StreamInv, ReadByte
  <2>4. LET w == ReadFrame(Append(Rest(Consumed), b))
        IN  /\ w.is = "Ok" => /\ Frames(Consumed') = Append(Frames(Consumed), w)
                              /\ Rest(Consumed') = << >>
            /\ w.is # "Ok" => /\ Frames(Consumed') = Frames(Consumed)
                              /\ Rest(Consumed') = Append(Rest(Consumed), b)
    BY <2>1, FrameRead
  <2> HIDE DEF b
  <2> QED
    BY <2>1, <2>2, <2>3, <2>4
<1>3. CASE UNCHANGED vars
  BY <1>0, <1>3, StreamKept DEF vars
<1>4. CASE Bind
  BY <1>0, <1>4, StreamKept DEF Bind, Return
<1>5. CASE ReadMore
  <2>1. /\ ReadByte /\ UNCHANGED <<client, torn, loop, sent, result>>
        /\ loop = "Wait" /\ v = Short /\ acc' = Append(acc, b)
    BY <1>5 DEF ReadMore, ReadByte
  <2>2. v.is # "Ok"
    BY <2>1 DEF Short
  <2> HIDE DEF b, v
  <2>3. ~torn => /\ acc' = Rest(Consumed')
                 /\ IsSubsequence(sent, Frames(Consumed'))
                 /\ Spoiled(Consumed) => Spoiled(Consumed')
    BY <1>2, <2>1, <2>2
  <2>4. result = "BadFrame" /\ ~torn => Spoiled(Consumed)
    BY <1>0 DEF StreamInv
  <2> QED
    BY <1>1, <2>1, <2>3, <2>4 DEF StreamInv
<1>6. CASE ClientFrame
  <2>1. /\ ReadByte /\ UNCHANGED <<client, torn, sent, result>> /\ loop = "Wait"
        /\ v.is = "Ok" /\ frame' = v /\ acc' = << >> /\ loop' = "Resolve"
    BY <1>6 DEF ClientFrame, ReadByte
  <2>2. v \in UdpFrame
    BY <1>2, <2>1, ReadFrameType
  <2> HIDE DEF b, v
  <2>3. ~torn =>
          /\ acc' = Rest(Consumed')
          /\ Frames(Consumed) \in Seq(UdpFrame)
          /\ Frames(Consumed') = Append(Frames(Consumed), frame')
          /\ IsSubsequence(sent, Frames(Consumed))
          /\ Spoiled(Consumed) => Spoiled(Consumed')
    BY <1>2, <2>1
  <2>4. ~torn => IsSubsequence(sent, Frames(Consumed'))
    <3> SUFFICES ASSUME ~torn PROVE IsSubsequence(sent, Append(Frames(Consumed), v))
      BY <2>1, <2>3
    <3>1. PICK F \in Seq(UdpFrame) : F = Frames(Consumed)
      BY <2>3
    <3>2. Append(F, v) \in Seq(UdpFrame) /\ Begins(F, Append(F, v))
      BY <2>2, AppendBegins
    <3>3. IsSubsequence(sent, F)
      BY <2>3, <3>1
    <3>4. IsSubsequence(sent, Append(F, v))
      BY <1>1, <3>2, <3>3, SubsequenceOfLonger
    <3> QED
      BY <3>1, <3>4
  <2>5. result = "BadFrame" /\ ~torn => Spoiled(Consumed)
    BY <1>0 DEF StreamInv
  <2>6. sent' \in Seq(UdpFrame) /\ frame' \in UdpFrame
    BY <1>1, <2>1, <2>2
  <2>7. ~torn' =>
          /\ acc' = Rest(Consumed')
          /\ \E F \in Seq(UdpFrame) :
               Frames(Consumed') = Append(F, frame') /\ IsSubsequence(sent', F)
          /\ IsSubsequence(sent', Frames(Consumed'))
          /\ result' = "BadFrame" => Spoiled(Consumed')
    BY <2>1, <2>3, <2>4, <2>5
  <2> QED
    BY <2>6, <2>7 DEF StreamInv
<1>7. CASE ClientBadFrame
  <2>1. /\ ReadByte /\ UNCHANGED <<client, torn, sent>>
        /\ v.is = "Bad" /\ loop' = "Ended"
    BY <1>7 DEF ClientBadFrame, Return
  <2>2. Append(acc, b) \in Seq(Byte)
    BY <1>2, <2>1
  <2>3. ~torn => /\ Rest(Consumed') = Append(acc, b)
                 /\ IsSubsequence(sent, Frames(Consumed'))
    <3> HIDE DEF b, v
    <3> QED
      BY <1>2, <2>1
  <2>4. ~torn => Spoiled(Consumed')
    <3> SUFFICES ASSUME ~torn PROVE Spoiled(Consumed')
      OBVIOUS
    <3>1. PICK q \in Seq(Byte) : q = Append(acc, b)
      BY <2>2
    <3>2. SubSeq(q, 1, Len(q)) = q /\ Len(q) \in 0 .. Len(q)
      BY LenProperties, SubSeqFull
    <3>3. ReadFrame(q).is = "Bad" /\ Rest(Consumed') = q
      BY <2>1, <2>3, <3>1
    <3> QED
      BY <3>2, <3>3 DEF Spoiled
  <2> HIDE DEF b, v
  <2> QED
    BY <1>1, <2>1, <2>3, <2>4 DEF StreamInv
<1>8. CASE ClientEnd \/ Timeout \/ RecvError \/ ReplyError
  <2>1. /\ UNCHANGED <<client, pos, sent, torn>> /\ loop' = "Ended"
        /\ result' \in {"Ok", "Err"}
    BY <1>8 DEF ClientEnd, Timeout, RecvError, ReplyError, Return
  <2> QED
    BY <1>0, <2>1, StreamKept
<1>9. CASE Resolve
  BY <1>0, <1>9, StreamKept DEF Resolve
<1>10. CASE SendTo
  <2>1. /\ UNCHANGED <<client, pos, acc, torn, result>> /\ loop = "Send" /\ loop' = "Wait"
        /\ sent' = Append(sent, frame) \/ sent' = sent
    BY <1>10 DEF SendTo
  <2>2. frame \in UdpFrame
    BY <1>0, <2>1 DEF StreamInv
  <2>3. sent' \in Seq(UdpFrame)
    BY <1>1, <2>1, <2>2, AppendProperties
  <2>4. Consumed' = Consumed
    BY <2>1 DEF Consumed
  <2>5. ~torn => IsSubsequence(sent', Frames(Consumed))
    <3> SUFFICES ASSUME ~torn, sent' = Append(sent, frame)
                 PROVE  IsSubsequence(sent', Frames(Consumed))
      BY <1>0, <2>1 DEF StreamInv
    <3>1. PICK F \in Seq(UdpFrame) :
            Frames(Consumed) = Append(F, frame) /\ IsSubsequence(sent, F)
      BY <1>0, <2>1 DEF StreamInv
    <3>2. IsSubsequence(Append(sent, frame), Append(F, frame))
      BY <1>1, <2>2, <3>1, SubsequenceAppend
    <3> QED
      BY <3>1, <3>2
  <2>6. ~torn => acc = Rest(Consumed) /\ (result = "BadFrame" => Spoiled(Consumed))
    BY <1>0, <2>1 DEF StreamInv
  <2> QED
    BY <2>1, <2>3, <2>4, <2>5, <2>6 DEF StreamInv
<1>11. CASE Recv
  <2>1. /\ UNCHANGED <<client, pos, sent, result>> /\ loop = "Wait" /\ loop' = "Reply"
        /\ acc' = << >> /\ torn' = (torn \/ acc # << >>)
    BY <1>11 DEF Recv
  <2>2. ~torn' => ~torn /\ acc' = acc
    BY <2>1
  <2> QED
    BY <1>0, <2>1, <2>2, StreamKept
<1>12. CASE Reply
  <2>1. /\ UNCHANGED <<client, pos, acc, sent, torn>> /\ loop = "Reply"
        /\ loop' \in {"Wait", "Reply", "Ended"} /\ result' \in {result, "Err"}
    BY <1>12 DEF Reply, Return, Wrote
  <2> QED
    BY <1>0, <2>1, StreamKept
<1>13. CASE Arrive
  BY <1>0, <1>13, StreamKept DEF Arrive
<1> QED
  BY <1>3, <1>4, <1>5, <1>6, <1>7, <1>8, <1>9, <1>10, <1>11, <1>12, <1>13
  DEF Next, Poll

-----------------------------------------------------------------------------
(* Every step keeps the replies.                                           *)

\* A step of the client's side.
LEMMA ReplyKept ==
  ASSUME ReplyInv, UNCHANGED <<inbox, arrived, replies, put>>,
         loop' # "Reply", loop \notin {"Reply", "Ended"}
  PROVE  ReplyInv'
<1>1. Taken' = Taken
  BY DEF Taken
<1>2. put = 0 /\ put' = 0
  BY DEF ReplyInv
<1> QED
  BY <1>1, <1>2 DEF ReplyInv, InHand

LEMMA ReplyNext ==
  ASSUME UdpInv, [Next]_vars
  PROVE  ReplyInv'
<1>0. TypeOK /\ ReplyInv
  BY DEF UdpInv
<1>1. CASE UNCHANGED vars
  <2>1. /\ UNCHANGED <<inbox, arrived, put, replies, loop, frame>> /\ Taken' = Taken
        /\ Outgoing' = Outgoing
    BY <1>1 DEF vars, Taken, Outgoing
  <2> QED
    BY <1>0, <2>1 DEF ReplyInv, InHand
<1>2. CASE Bind \/ ReadMore \/ ClientFrame \/ ClientBadFrame \/ ClientEnd
            \/ Resolve \/ SendTo \/ Timeout \/ RecvError
  <2>1. /\ UNCHANGED <<inbox, arrived, put, replies>>
        /\ loop' # "Reply" /\ loop \notin {"Reply", "Ended"}
    BY <1>2 DEF Bind, ReadMore, ClientFrame, ClientBadFrame, ClientEnd, Resolve, SendTo,
                Timeout, RecvError, ReadByte, Return
  <2> QED
    BY <1>0, <2>1, ReplyKept
<1>3. CASE ReplyError
  <2>1. /\ UNCHANGED <<inbox, arrived, put, replies, frame>>
        /\ loop = "Reply" /\ loop' = "Ended" /\ Taken' = Taken /\ Outgoing' = Outgoing
    BY <1>3 DEF ReplyError, Return, Taken, Outgoing
  <2> QED
    BY <1>0, <2>1 DEF ReplyInv, InHand
<1>4. CASE Recv
  <2>1. /\ frame' = Received(arrived'[Taken']) /\ inbox' \in Seq(Datagrams)
        /\ Taken' = Taken + 1
        /\ \A i \in 1 .. Len(inbox') : inbox'[i] = arrived'[Taken' + i]
    BY <1>0, <1>4, DatagramTaken
  <2>2. /\ UNCHANGED <<arrived, put, replies>> /\ loop = "Wait" /\ loop' = "Reply"
    BY <1>4 DEF Recv
  <2>3. /\ Taken \in Nat /\ Taken = Len(Frames(replies)) /\ put = 0 /\ put' = 0
    BY <1>0, <2>2 DEF ReplyInv
  <2>4. /\ Taken' \in Nat /\ Taken' = Len(Frames(replies)) + 1
        /\ Taken' - Len(Frames(replies)) \in {0, 1}
    BY <2>1, <2>3
  <2> QED
    BY <1>0, <2>1, <2>2, <2>3, <2>4 DEF ReplyInv, InHand
<1>5. CASE Reply
  <2> DEFINE back == Frames(replies)
             x == [is |-> "Ok", address |-> frame.source, payload |-> frame.payload]
  <2>1. /\ UNCHANGED <<inbox, arrived>> /\ loop = "Reply" /\ Taken' = Taken /\ InHand
    BY <1>5 DEF Reply, Taken, InHand
  <2>2. /\ back \in Seq(UdpFrame) /\ x \in UdpFrame
        /\ \/ /\ put' \in Nat \ {0} /\ put' < Len(Outgoing)
              /\ UNCHANGED <<loop, frame>> /\ Frames(replies') = back
              /\ \E whole \in Seq(Byte) :
                   Rest(whole) = << >> /\ replies' = whole \o SubSeq(Outgoing, 1, put')
           \/ /\ put' = 0 /\ loop' = "Wait"
              /\ Frames(replies') = Append(back, x) /\ Rest(replies') = << >>
    BY <1>0, <1>5, ReplyWritten
  <2>3. x = [is |-> "Ok", address |-> arrived[Taken].source,
             payload |-> Cut(arrived[Taken].payload)]
    BY <1>0, <2>1, ReplyInHand
  <2>4. Taken \in Nat /\ Taken = Len(back) + 1
    BY <1>0, <2>1 DEF ReplyInv
  <2>5. CASE put' # 0
    <3>1. Outgoing' = Outgoing
      BY <2>2, <2>5 DEF Outgoing
    <3> HIDE DEF x
    <3> QED
      BY <1>0, <2>1, <2>2, <2>5, <3>1 DEF ReplyInv, InHand
  <2> HIDE DEF back, x
  <2>6. CASE put' = 0
    <3>0. /\ Frames(replies') = Append(back, x) /\ Rest(replies') = << >>
          /\ loop' = "Wait"
      BY <2>2, <2>6
    <3>5. PICK l \in Nat : l = Len(back)
      BY <2>2, LenProperties
    <3>6. /\ Len(Append(back, x)) = l + 1 /\ Append(back, x)[l + 1] = x
          /\ \A i \in 1 .. l : Append(back, x)[i] = back[i]
      BY <2>2, <3>5, AppendProperties
    <3>7. \A i \in 1 .. l : back[i] = [is      |-> "Ok",
                                       address |-> arrived[i].source,
                                       payload |-> Cut(arrived[i].payload)]
      BY <1>0, <3>5 DEF ReplyInv, back
    <3>8. ASSUME NEW i \in 1 .. l + 1
          PROVE  Append(back, x)[i] = [is      |-> "Ok",
                                       address |-> arrived[i].source,
                                       payload |-> Cut(arrived[i].payload)]
      <4>1. CASE i = l + 1
        BY <2>3, <2>4, <3>5, <3>6, <4>1
      <4>2. CASE i \in 1 .. l
        BY <3>6, <3>7, <4>2
      <4>3. i = l + 1 \/ i \in 1 .. l
        OBVIOUS
      <4> QED
        BY <4>1, <4>2, <4>3
    <3>9. /\ Taken' = Len(Frames(replies')) /\ Taken' - Len(Frames(replies')) \in {0, 1}
          /\ Len(Frames(replies')) = l + 1
      BY <2>1, <3>0, <2>4, <3>5, <3>6
    <3>10. \A i \in 1 .. Len(Frames(replies')) :
             Frames(replies')[i] = [is      |-> "Ok",
                                    address |-> arrived'[i].source,
                                    payload |-> Cut(arrived'[i].payload)]
      BY <2>1, <3>0, <3>8, <3>9
    <3>11. /\ arrived' \in Seq(Datagrams) /\ inbox' \in Seq(Datagrams) /\ Taken' \in Nat
           /\ \A i \in 1 .. Len(inbox') : inbox'[i] = arrived'[Taken' + i]
      BY <1>0, <2>1 DEF ReplyInv
    <3> QED
      BY <2>6, <3>0, <3>9, <3>10, <3>11 DEF ReplyInv, InHand
  <2> QED
    BY <2>2, <2>5, <2>6
<1>6. CASE Arrive
  <2>1. PICK d \in Datagrams :
          inbox' = Append(inbox, d) /\ arrived' = Append(arrived, d)
    BY <1>6 DEF Arrive
  <2>2. UNCHANGED <<loop, frame, put, replies>> /\ Outgoing' = Outgoing
        /\ InHand' = InHand
    BY <1>6 DEF Arrive, Outgoing, InHand
  <2>3. arrived \in Seq(Datagrams) /\ inbox \in Seq(Datagrams) /\ Taken \in Nat
    BY <1>0 DEF ReplyInv
  <2>4. PICK m \in Nat, n \in Nat : m = Len(inbox) /\ n = Len(arrived)
    BY <2>3, LenProperties
  <2>5. /\ inbox' \in Seq(Datagrams) /\ Len(inbox') = m + 1 /\ inbox'[m + 1] = d
        /\ \A i \in 1 .. m : inbox'[i] = inbox[i]
    BY <2>1, <2>3, <2>4, AppendProperties
  <2>6. /\ arrived' \in Seq(Datagrams) /\ Len(arrived') = n + 1 /\ arrived'[n + 1] = d
        /\ \A i \in 1 .. n : arrived'[i] = arrived[i]
    BY <2>1, <2>3, <2>4, AppendProperties
  <2>7. Taken' = Taken /\ Taken + m = n
    BY <2>3, <2>4, <2>5, <2>6 DEF Taken
  <2>8. ASSUME NEW i \in 1 .. m + 1 PROVE inbox'[i] = arrived'[Taken + i]
    <3>1. CASE i = m + 1
      <4>1. Taken + i = n + 1
        BY <2>3, <2>7, <3>1
      <4> QED
        BY <2>5, <2>6, <3>1, <4>1
    <3>2. CASE i \in 1 .. m
      <4>1. Taken + i \in 1 .. n
        BY <2>3, <2>7, <3>2
      <4>2. inbox[i] = arrived[Taken + i]
        BY <1>0, <2>4, <3>2 DEF ReplyInv
      <4> QED
        BY <2>5, <2>6, <3>2, <4>1, <4>2
    <3>3. i = m + 1 \/ i \in 1 .. m
      OBVIOUS
    <3> QED
      BY <3>1, <3>2, <3>3
  <2>9. \A i \in 1 .. Len(Frames(replies)) : i \in 1 .. n
    <3>1. Len(Frames(replies)) \in Nat
      BY <1>0, DecodedType, LenProperties DEF TypeOK
    <3>2. Taken - Len(Frames(replies)) \in {0, 1}
      BY <1>0 DEF ReplyInv
    <3> QED
      BY <2>3, <2>7, <3>1, <3>2
  <2>10. \A i \in 1 .. Len(Frames(replies')) :
           Frames(replies')[i] = [is      |-> "Ok",
                                  address |-> arrived'[i].source,
                                  payload |-> Cut(arrived'[i].payload)]
    BY <1>0, <2>2, <2>6, <2>9 DEF ReplyInv
  <2>11. InHand => frame = Received(arrived'[Taken])
    <3>1. InHand => Taken \in 1 .. n /\ frame = Received(arrived[Taken])
      BY <1>0, <2>4, ReplyInHand DEF ReplyInv
    <3> QED
      BY <2>6, <3>1
  <2>12. /\ Taken' \in Nat
         /\ InHand' => Taken' = Len(Frames(replies')) + 1
         /\ loop' \notin {"Reply", "Ended"} => Taken' = Len(Frames(replies'))
         /\ Taken' - Len(Frames(replies')) \in {0, 1}
    BY <1>0, <2>2, <2>7 DEF ReplyInv
  <2>13. \A i \in 1 .. Len(inbox') : inbox'[i] = arrived'[Taken' + i]
    BY <2>5, <2>7, <2>8
  <2>14. InHand' => frame' = Received(arrived'[Taken'])
    BY <2>2, <2>7, <2>11
  <2>15. /\ put' \in Nat /\ (put' # 0 => loop' \in {"Reply", "Ended"})
         /\ put' = 0 => Rest(replies') = << >>
         /\ put' # 0 =>
              /\ put' < Len(Outgoing')
              /\ \E whole \in Seq(Byte) :
                   Rest(whole) = << >> /\ replies' = whole \o SubSeq(Outgoing', 1, put')
    BY <1>0, <2>2 DEF ReplyInv
  <2> QED
    BY <2>5, <2>6, <2>10, <2>12, <2>13, <2>14, <2>15 DEF ReplyInv
<1> QED
  BY <1>1, <1>2, <1>3, <1>4, <1>5, <1>6 DEF Next, Poll

-----------------------------------------------------------------------------
(* Every step keeps the counters.                                          *)

LEMMA CountNext ==
  ASSUME UdpInv, [Next]_vars
  PROVE  CountersMatchTraffic'
<1>0. TypeOK /\ StreamInv /\ ReplyInv /\ CountersMatchTraffic
  BY DEF UdpInv
<1>1. stats = [sent |-> PayloadBytes(sent), received |-> PayloadBytes(Frames(replies))]
  BY <1>0 DEF CountersMatchTraffic
<1>2. CASE UNCHANGED <<sent, replies, stats>>
  BY <1>1, <1>2 DEF CountersMatchTraffic
<1>3. CASE SendTo
  <2>1. /\ UNCHANGED replies /\ loop = "Send"
        /\ \/ sent' = Append(sent, frame) /\ stats' = AddSent(stats, Len(frame.payload))
           \/ UNCHANGED <<sent, stats>>
    BY <1>3 DEF SendTo
  <2>2. sent \in Seq(UdpFrame) /\ frame \in UdpFrame
    BY <1>0, <2>1 DEF StreamInv
  <2>3. PayloadBytes(Append(sent, frame)) = PayloadBytes(sent) + Len(frame.payload)
    BY <2>2, PayloadBytesAppend
  <2> QED
    BY <1>1, <2>1, <2>3 DEF CountersMatchTraffic, AddSent
<1>4. CASE Reply
  <2> DEFINE x == [is |-> "Ok", address |-> frame.source, payload |-> frame.payload]
  <2>1. /\ Frames(replies) \in Seq(UdpFrame) /\ x \in UdpFrame
        /\ \/ Frames(replies') = Frames(replies) /\ stats' = stats
           \/ /\ Frames(replies') = Append(Frames(replies), x)
              /\ stats' = AddReceived(stats, Len(frame.payload))
    BY <1>0, <1>4, ReplyWritten
  <2>2. x.payload = frame.payload
    OBVIOUS
  <2> HIDE DEF x
  <2>3. PayloadBytes(Append(Frames(replies), x)) =
          PayloadBytes(Frames(replies)) + Len(frame.payload)
    BY <2>1, <2>2, PayloadBytesAppend
  <2>4. sent' = sent
    BY <1>4 DEF Reply
  <2>5. CASE Frames(replies') = Frames(replies) /\ stats' = stats
    BY <1>1, <2>4, <2>5 DEF CountersMatchTraffic
  <2>6. CASE /\ Frames(replies') = Append(Frames(replies), x)
             /\ stats' = AddReceived(stats, Len(frame.payload))
    BY <1>1, <2>3, <2>4, <2>6 DEF CountersMatchTraffic, AddReceived
  <2> QED
    BY <2>1, <2>5, <2>6
<1>5. CASE Bind \/ ReadMore \/ ClientFrame \/ ClientBadFrame \/ ClientEnd \/ Resolve
            \/ Timeout \/ RecvError \/ ReplyError \/ Recv \/ Arrive
  BY <1>2, <1>5
  DEF Bind, ReadMore, ClientFrame, ClientBadFrame, ClientEnd, Resolve, Timeout,
      RecvError, ReplyError, Recv, Arrive, ReadByte, Return
<1> QED
  BY <1>2, <1>3, <1>4, <1>5 DEF Next, Poll, vars

-----------------------------------------------------------------------------
(* The theorems.                                                           *)

LEMMA UdpSafety == Spec => []UdpInv
<1>1. UdpInv /\ [Next]_vars => UdpInv'
  <2> SUFFICES ASSUME UdpInv, [Next]_vars PROVE UdpInv'
    OBVIOUS
  <2>1. TypeOK' /\ StreamInv' /\ ReplyInv' /\ CountersMatchTraffic'
    BY TypeNext, StreamNext, ReplyNext, CountNext
  <2> QED
    BY <2>1 DEF UdpInv
<1> QED
  BY UdpInit, <1>1, PTL DEF Spec

(***************************************************************************)
(* The variables have their types, and build_udp_frame never refuses what  *)
(* recv_from has returned.                                                 *)
(***************************************************************************)
THEOREM UdpTypes == Spec => []TypeOK
<1>1. UdpInv => TypeOK
  BY DEF UdpInv
<1> QED
  BY <1>1, UdpSafety, PTL

(***************************************************************************)
(* For every client and as long as select! has dropped no read_udp_frame   *)
(* with bytes in hand: the loop holds the beginning of the frame the       *)
(* client is sending, has sent frames of the client only, in their order,  *)
(* and refuses malformed streams only.                                     *)
(***************************************************************************)
THEOREM UdpInStepUntilTorn == Spec => []InStepUntilTorn
<1>1. UdpInv => InStepUntilTorn
  <2> SUFFICES ASSUME UdpInv, ~torn
               PROVE  /\ loop # "Ended" => acc = Rest(SubSeq(client.bytes, 1, pos))
                      /\ IsSubsequence(sent, Frames(client.bytes))
                      /\ result = "BadFrame" => ~WellFormed(client.bytes)
    BY DEF InStepUntilTorn
  <2>1. /\ client \in Clients /\ pos \in 0 .. Len(client.bytes)
    BY DEF UdpInv, TypeOK
  <2>2. client.bytes \in Seq(Byte)
    BY <2>1, ClientType
  <2>3. /\ sent \in Seq(UdpFrame) /\ IsSubsequence(sent, Frames(Consumed))
        /\ loop # "Ended" => acc = Rest(Consumed)
        /\ result = "BadFrame" => Spoiled(Consumed)
    BY DEF UdpInv, StreamInv
  <2>4. /\ Begins(Frames(Consumed), Frames(client.bytes))
        /\ Spoiled(Consumed) => Spoiled(client.bytes)
    BY <2>1, <2>2, FramesOfBeginning DEF Consumed
  <2>5. IsSubsequence(sent, Frames(client.bytes))
    <3>1. Consumed \in Seq(Byte)
      <4>1. Len(client.bytes) \in Nat
        BY <2>2, LenProperties
      <4>2. 1 \in Int /\ 1 >= 1 /\ pos \in Int /\ pos <= Len(client.bytes)
        BY <2>1, <4>1
      <4> QED
        BY <2>2, <4>2, SliceOfBytes DEF Consumed
    <3>2. Frames(Consumed) \in Seq(UdpFrame) /\ Frames(client.bytes) \in Seq(UdpFrame)
      BY <2>2, <3>1, DecodedType
    <3> QED
      BY <2>3, <2>4, <3>2, SubsequenceOfLonger
  <2>6. Spoiled(client.bytes) => ~WellFormed(client.bytes)
    BY DEF Spoiled, WellFormed, Short
  <2> QED
    BY <2>3, <2>4, <2>5, <2>6 DEF Consumed
<1> QED
  BY <1>1, UdpSafety, PTL

(***************************************************************************)
(* For every sequence of datagrams and wherever write_all stalls or fails: *)
(* the bytes written to the client decode to them, in order, none skipped  *)
(* but the one in hand, and a frame cut short is the last.                 *)
(***************************************************************************)
THEOREM UdpRepliesReadBack == Spec => []RepliesReadBack
<1>1. UdpInv => RepliesReadBack
  <2> DEFINE back == Frames(replies)
  <2> SUFFICES ASSUME UdpInv
               PROVE  /\ Len(arrived) - Len(inbox) - Len(back) \in {0, 1}
                      /\ \A i \in 1 .. Len(back) :
                           /\ back[i].address = arrived[i].source
                           /\ back[i].payload =
                                SubSeq(arrived[i].payload, 1, Len(back[i].payload))
                           /\ Len(arrived[i].payload) <= UDP_BUFFER_SIZE =>
                                back[i].payload = arrived[i].payload
                      /\ Rest(replies) # << >> =>
                           /\ loop \in {"Reply", "Ended"} /\ Taken = Len(back) + 1
                           /\ Len(Rest(replies)) < Len(FrameOf(arrived[Taken]))
                           /\ Rest(replies) =
                                SubSeq(FrameOf(arrived[Taken]), 1, Len(Rest(replies)))
    BY DEF RepliesReadBack, Taken
  <2>1. /\ Taken \in Nat /\ Taken - Len(back) \in {0, 1}
        /\ arrived \in Seq(Datagrams) /\ inbox \in Seq(Datagrams)
        /\ \A i \in 1 .. Len(back) :
             back[i] = [is      |-> "Ok",
                        address |-> arrived[i].source,
                        payload |-> Cut(arrived[i].payload)]
    BY DEF UdpInv, ReplyInv
  <2>2. Len(back) \in Nat
    BY DecodedType, LenProperties DEF UdpInv, TypeOK
  <2>6. ASSUME Rest(replies) # << >>
        PROVE  /\ loop \in {"Reply", "Ended"} /\ Taken = Len(back) + 1
               /\ Len(Rest(replies)) < Len(FrameOf(arrived[Taken]))
               /\ Rest(replies) =
                    SubSeq(FrameOf(arrived[Taken]), 1, Len(Rest(replies)))
    <3> DEFINE t == Outgoing
    <3>1. /\ put \in Nat /\ put # 0 /\ InHand /\ put < Len(t)
          /\ loop \in {"Reply", "Ended"} /\ Taken = Len(back) + 1
          /\ frame = Received(arrived[Taken])
      BY <2>6 DEF UdpInv, ReplyInv, InHand
    <3>2. PICK whole \in Seq(Byte) :
            Rest(whole) = << >> /\ replies = whole \o SubSeq(t, 1, put)
      BY <3>1 DEF UdpInv, ReplyInv
    <3>3. FrameOf(arrived[Taken]) = t
      BY <3>1 DEF FrameOf, Outgoing, Received
    <3>4. /\ frame.source \in Address /\ frame.source.type # TYPE_DOMAIN
          /\ frame.payload \in Seq(Byte) /\ Len(frame.payload) \in U16
      BY <3>1, ReplyInHand DEF UdpInv
    <3>5. /\ t \in Seq(Byte) /\ t # << >>
          /\ ReadFrame(t) = [is |-> "Ok", address |-> frame.source,
                             payload |-> frame.payload]
          /\ \A j \in 0 .. Len(t) - 1 : ReadFrame(SubSeq(t, 1, j)).is # "Ok"
      BY <3>4, FrameReadsBack DEF Outgoing
    <3>6. ReadFrame(t).is = "Ok"
      BY <3>5
    <3> HIDE DEF t
    <3>7. Len(t) \in Nat /\ put \in 0 .. Len(t) - 1
      BY <3>1, <3>5, LenProperties
    <3>8. \A j \in 0 .. Len(t) - 1 : Rest(whole \o SubSeq(t, 1, j)) = SubSeq(t, 1, j)
      BY <3>2, <3>5, <3>6, DecodeFrame
    <3>9. Rest(replies) = SubSeq(t, 1, put)
      BY <3>2, <3>7, <3>8
    <3>10. Len(SubSeq(t, 1, put)) = put
      BY <3>1, <3>5, OneMore
    <3> QED
      BY <3>1, <3>3, <3>9, <3>10
  <2> HIDE DEF back
  <2>3. Len(arrived) - Len(inbox) - Len(back) \in {0, 1}
    BY <2>1 DEF Taken
  <2>4. Len(arrived) \in Nat /\ Len(inbox) \in Nat
    BY <2>1, LenProperties
  <2>5. ASSUME NEW i \in 1 .. Len(back)
        PROVE  /\ back[i].address = arrived[i].source
               /\ back[i].payload = SubSeq(arrived[i].payload, 1, Len(back[i].payload))
               /\ Len(arrived[i].payload) <= UDP_BUFFER_SIZE =>
                    back[i].payload = arrived[i].payload
    <3>1. i \in 1 .. Len(arrived)
      BY <2>1, <2>2, <2>4 DEF Taken
    <3>2. arrived[i] \in Datagrams
      BY <2>1, <3>1, ElementOfSeq
    <3>3. arrived[i].payload \in Seq(Byte)
      BY <3>2, DatagramType
    <3>4. /\ back[i].address = arrived[i].source
          /\ back[i].payload = Cut(arrived[i].payload)
      <4>1. back[i] = [is      |-> "Ok",
                       address |-> arrived[i].source,
                       payload |-> Cut(arrived[i].payload)]
        BY <2>1
      <4> QED
        BY <4>1
    <3> QED
      BY <3>3, <3>4, CutFits
  <2> QED
    BY <2>1, <2>3, <2>5, <2>6
<1> QED
  BY <1>1, UdpSafety, PTL

(***************************************************************************)
(* The session's counters are the payload bytes of the datagrams that were *)
(* sent and of the frames that were written.                               *)
(***************************************************************************)
THEOREM UdpCountersMatchTraffic == Spec => []CountersMatchTraffic
<1>1. UdpInv => CountersMatchTraffic
  BY DEF UdpInv
<1> QED
  BY <1>1, UdpSafety, PTL

=============================================================================
