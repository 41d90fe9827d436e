------------------------- MODULE TrojanHeaderProofs -------------------------
(***************************************************************************)
(* Facts about the wire format, for every length of the hash and of the IP *)
(* addresses.  The incremental parser: what it has decided on a buffer it  *)
(* decides on every extension of it, and it decides before the longest     *)
(* header's length.  Both parsers: they agree.  The encoding of an         *)
(* address: it reads back as what was encoded, and what was read encodes to *)
(* the bytes it was read from.                                             *)
(***************************************************************************)
EXTENDS TrojanHeader, SequenceTheorems, TLAPS

\* s is what a reader has of t so far.
Begins(s, t) ==
  /\ Len(s) <= Len(t)
  /\ \A i \in 1 .. Len(s) : s[i] = t[i]

LEMMA ByteSeq == ASSUME NEW s \in Seq(Byte) PROVE s \in Seq(Nat)
<1>1. \A i \in 1 .. Len(s) : s[i] \in Byte
  BY ElementOfSeq
<1>2. Byte \subseteq Nat
  BY DEF Byte
<1>3. \A i \in 1 .. Len(s) : s[i] \in Nat
  BY <1>1, <1>2
<1> QED
  BY <1>3, LenProperties

LEMMA SubSeqAgrees ==
  ASSUME NEW s \in Seq(Nat), NEW t \in Seq(Nat), Begins(s, t),
         NEW m \in Nat \ {0}, NEW n \in Int, n <= Len(s)
  PROVE  SubSeq(s, m, n) = SubSeq(t, m, n)
<1>1. \A i \in m .. n : s[i] \in Nat /\ t[i] \in Nat /\ s[i] = t[i]
  BY ElementOfSeq, LenProperties, SMTT(60) DEF Begins
<1>2. /\ SubSeq(s, m, n) \in Seq(Nat)
      /\ Len(SubSeq(s, m, n)) = IF m <= n THEN n - m + 1 ELSE 0
      /\ \A i \in 1 .. n - m + 1 : SubSeq(s, m, n)[i] = s[m + i - 1]
  BY <1>1, SubSeqProperties
<1>3. /\ SubSeq(t, m, n) \in Seq(Nat)
      /\ Len(SubSeq(t, m, n)) = IF m <= n THEN n - m + 1 ELSE 0
      /\ \A i \in 1 .. n - m + 1 : SubSeq(t, m, n)[i] = t[m + i - 1]
  BY <1>1, SubSeqProperties
<1>4. \A i \in 1 .. Len(SubSeq(s, m, n)) : SubSeq(s, m, n)[i] = SubSeq(t, m, n)[i]
  BY <1>1, <1>2, <1>3
<1> QED
  BY <1>2, <1>3, <1>4, SeqEqual

\* The address's type is known and, for a domain, its length byte.
AddressLenKnown(s, at) ==
  /\ Len(s) > at
  /\ s[at + 1] \in {TYPE_IPV4, TYPE_DOMAIN, TYPE_IPV6}
  /\ s[at + 1] = TYPE_DOMAIN => Len(s) > at + 1

LEMMA AddressLenType ==
  ASSUME NEW s \in Seq(Byte), NEW at \in Nat, AddressLenKnown(s, at)
  PROVE  /\ AddressLen(s, at) \in Nat
         /\ AddressLen(s, at) >= 4
         /\ AddressLen(s, at) <= LongestAddress
         /\ LongestAddress \in Nat
<1>1. at + 1 \in 1 .. Len(s)
  BY LenProperties DEF AddressLenKnown
<1>2. s[at + 1] = TYPE_DOMAIN => s[at + 2] \in 0 .. 255
  <2>1. s[at + 1] = TYPE_DOMAIN => at + 2 \in 1 .. Len(s)
    BY LenProperties DEF AddressLenKnown
  <2>2. \A i \in 1 .. Len(s) : s[i] \in Byte
    BY ElementOfSeq
  <2> QED
    BY <2>1, <2>2 DEF Byte
<1> DEFINE L == {1 + IPV4_OCTETS + 2, 1 + IPV6_OCTETS + 2, 1 + 1 + 255 + 2}
<1>3. \E n \in L : \A m \in L : m <= n
  BY LengthsAssumption
<1>4. LongestAddress \in L /\ \A m \in L : m <= LongestAddress
  BY <1>3 DEF LongestAddress
<1>5. L \subseteq Nat
  BY LengthsAssumption
<1>6. CASE s[at + 1] = TYPE_IPV4
  BY <1>4, <1>5, <1>6, LengthsAssumption, SMTT(60)
  DEF AddressLen, TYPE_IPV4, TYPE_DOMAIN, TYPE_IPV6
<1>7. CASE s[at + 1] = TYPE_IPV6
  BY <1>4, <1>5, <1>7, LengthsAssumption, SMTT(60)
  DEF AddressLen, TYPE_IPV4, TYPE_DOMAIN, TYPE_IPV6
<1>8. CASE s[at + 1] = TYPE_DOMAIN
  <2>1. AddressLen(s, at) = 1 + 1 + s[at + 2] + 2
    BY <1>8 DEF AddressLen, TYPE_IPV4, TYPE_DOMAIN, TYPE_IPV6
  <2>2. 259 <= LongestAddress /\ LongestAddress \in Nat
    BY <1>4, <1>5
  <2>3. PICK k \in 0 .. 255 : s[at + 2] = k
    BY <1>2, <1>8
  <2>4. AddressLen(s, at) = k + 4
    BY <2>1, <2>3
  <2> QED
    BY <2>2, <2>4
<1> QED
  BY <1>6, <1>7, <1>8 DEF AddressLenKnown

LEMMA AddressLenNat ==
  ASSUME NEW s \in Seq(Nat), NEW at \in Nat, AddressLenKnown(s, at)
  PROVE  AddressLen(s, at) \in Nat /\ AddressLen(s, at) >= 4
<1>1. CASE s[at + 1] = TYPE_IPV4
  BY <1>1, LengthsAssumption, SMTT(60) DEF AddressLen, TYPE_IPV4, TYPE_DOMAIN, TYPE_IPV6
<1>2. CASE s[at + 1] = TYPE_IPV6
  BY <1>2, LengthsAssumption, SMTT(60) DEF AddressLen, TYPE_IPV4, TYPE_DOMAIN, TYPE_IPV6
<1>3. CASE s[at + 1] = TYPE_DOMAIN
  <2>1. at + 2 \in 1 .. Len(s)
    BY <1>3, LenProperties DEF AddressLenKnown
  <2>2. PICK n \in Nat : s[at + 2] = n
    BY <2>1, ElementOfSeq
  <2>3. AddressLen(s, at) = 1 + 1 + n + 2
    BY <1>3, <2>2 DEF AddressLen, TYPE_IPV4, TYPE_DOMAIN, TYPE_IPV6
  <2> QED
    BY <2>3
<1> QED
  BY <1>1, <1>2, <1>3 DEF AddressLenKnown

LEMMA AddressLenAgrees ==
  ASSUME NEW s \in Seq(Nat), NEW t \in Seq(Nat), Begins(s, t),
         NEW at \in Nat, AddressLenKnown(s, at)
  PROVE  AddressLen(s, at) = AddressLen(t, at)
<1>1. s[at + 1] = t[at + 1]
  BY LenProperties DEF Begins, AddressLenKnown
<1>2. s[at + 1] = TYPE_DOMAIN => s[at + 2] = t[at + 2]
  BY LenProperties DEF Begins, AddressLenKnown
<1> QED
  BY <1>1, <1>2 DEF AddressLen, AddressLenKnown, TYPE_IPV4, TYPE_DOMAIN, TYPE_IPV6

\* An address that is there reads the same in every extension of the buffer.
LEMMA AddressAgrees ==
  ASSUME NEW s \in Seq(Nat), NEW t \in Seq(Nat), Begins(s, t),
         NEW at \in Nat, AddressLenKnown(s, at),
         at + AddressLen(s, at) <= Len(s)
  PROVE  /\ HostBytes(s, at) = HostBytes(t, at)
         /\ AddressAt(s, at) = AddressAt(t, at)
<1>1. AddressLen(s, at) = AddressLen(t, at) /\ s[at + 1] = t[at + 1]
  <2>1. at + 1 \in 1 .. Len(s)
    BY LenProperties DEF AddressLenKnown
  <2>2. s[at + 1] = t[at + 1]
    BY <2>1 DEF Begins
  <2> QED
    BY <2>2, AddressLenAgrees
<1>2. AddressLen(s, at) \in Nat /\ AddressLen(s, at) >= 4
  BY AddressLenNat
<1>3. HostBytes(s, at) = HostBytes(t, at)
  <2> DEFINE m == IF s[at + 1] = TYPE_DOMAIN THEN at + 3 ELSE at + 2
             n == at + AddressLen(s, at) - 2
  <2>1. m \in Nat \ {0} /\ n \in Int /\ n <= Len(s)
    BY <1>2, LenProperties, SMTT(60)
  <2>2. SubSeq(s, m, n) = SubSeq(t, m, n)
    BY <2>1, SubSeqAgrees, ZenonT(60)
  <2> QED
    BY <1>1, <2>2 DEF HostBytes
<1>4. LET end == at + AddressLen(s, at)
      IN  s[end - 1] = t[end - 1] /\ s[end] = t[end]
  <2>1. PICK end \in Nat : end = at + AddressLen(s, at)
    BY <1>2
  <2>2. end - 1 \in 1 .. Len(s) /\ end \in 1 .. Len(s)
    BY <1>2, <2>1, LenProperties, SMTT(60)
  <2>3. s[end - 1] = t[end - 1] /\ s[end] = t[end]
    BY <2>2 DEF Begins
  <2> QED
    BY <2>1, <2>3
<1> QED
  BY <1>1, <1>3, <1>4 DEF AddressAt

\* Address::read_from's answer, too, stays when more bytes come.
LEMMA ReadAddressStable ==
  ASSUME NEW s \in Seq(Nat), NEW t \in Seq(Nat), Begins(s, t),
         NEW at \in Nat, ReadAddress(s, at).is # "Eof"
  PROVE  ReadAddress(t, at) = ReadAddress(s, at)
<1>1. Len(s) \in Nat /\ Len(t) \in Nat /\ Len(s) <= Len(t)
  BY LenProperties DEF Begins
<1>2. ~(Len(s) < at + 1)
  BY DEF ReadAddress, Eof
<1>3. s[at + 1] = t[at + 1] /\ ~(Len(t) < at + 1)
  BY <1>1, <1>2, SMTT(60) DEF Begins
<1>4. CASE s[at + 1] \notin {TYPE_IPV4, TYPE_DOMAIN, TYPE_IPV6}
  BY <1>2, <1>3, <1>4 DEF ReadAddress
<1>5. CASE s[at + 1] \in {TYPE_IPV4, TYPE_DOMAIN, TYPE_IPV6}
  <2>1. ~(s[at + 1] = TYPE_DOMAIN /\ Len(s) < at + 2)
    BY <1>2, <1>5 DEF ReadAddress, Eof
  <2>2. AddressLenKnown(s, at)
    BY <1>1, <1>2, <1>5, <2>1, SMTT(60) DEF AddressLenKnown
  <2>3. PICK n \in Nat : n = AddressLen(s, at) /\ n >= 4
    BY <2>2, AddressLenNat
  <2>4. AddressLen(t, at) = n
    BY <2>2, <2>3, AddressLenAgrees
  <2>5. ~(Len(s) < at + n - 2)
    BY <1>2, <1>5, <2>1, <2>3 DEF ReadAddress, Eof
  <2>6. /\ ~(t[at + 1] = TYPE_DOMAIN /\ Len(t) < at + 2)
        /\ ~(Len(t) < at + n - 2)
    <3>1. PICK l \in Nat, m \in Nat : l = Len(s) /\ m = Len(t) /\ l <= m
      BY <1>1
    <3>2. ~(l < at + n - 2) => ~(m < at + n - 2)
      BY <3>1
    <3>3. ~(l < at + 2) => ~(m < at + 2)
      BY <3>1
    <3>4. ~(Len(t) < at + n - 2)
      BY <2>5, <3>1, <3>2
    <3>5. ~(t[at + 1] = TYPE_DOMAIN /\ Len(t) < at + 2)
      BY <1>3, <2>1, <3>1, <3>3
    <3> QED
      BY <3>4, <3>5
  <2>7. HostBytes(s, at) = HostBytes(t, at)
    <3> DEFINE m == IF s[at + 1] = TYPE_DOMAIN THEN at + 3 ELSE at + 2
    <3>1. m \in Nat \ {0} /\ at + n - 2 \in Int /\ at + n - 2 <= Len(s)
      <4>1. m \in Nat \ {0}
        OBVIOUS
      <4> QED
        BY <1>1, <2>5, <4>1
    <3>2. SubSeq(s, m, at + n - 2) = SubSeq(t, m, at + n - 2)
      BY <3>1, SubSeqAgrees
    <3> QED
      BY <1>3, <2>3, <2>4, <3>2 DEF HostBytes
  <2>8. CASE s[at + 1] = TYPE_DOMAIN /\ ~ValidUtf8(HostBytes(s, at))
    BY <1>2, <1>3, <1>5, <2>1, <2>3, <2>4, <2>5, <2>6, <2>7, <2>8 DEF ReadAddress
  <2>9. CASE ~(s[at + 1] = TYPE_DOMAIN /\ ~ValidUtf8(HostBytes(s, at)))
    <3>1. ~(Len(s) < at + n)
      BY <1>2, <1>5, <2>1, <2>3, <2>5, <2>9 DEF ReadAddress, Eof
    <3>2. ~(Len(t) < at + n)
      BY <1>1, <2>3, <3>1
    <3>3. AddressAt(s, at) = AddressAt(t, at)
      BY <1>1, <2>2, <2>3, <3>1, AddressAgrees
    <3> QED
      BY <1>2, <1>3, <1>5, <2>1, <2>3, <2>4, <2>5, <2>6, <2>7, <2>9, <3>1, <3>2, <3>3
      DEF ReadAddress
  <2> QED
    BY <2>8, <2>9
<1> QED
  BY <1>4, <1>5

\* Address::parse_from_buf has an answer only when the address is whole or its
\* type is unknown.
LEMMA ParseAddressCases ==
  ASSUME NEW s \in Seq(Byte), NEW at \in Nat, at <= Len(s),
         ParseAddress(s, at) # Short
  PROVE  /\ Len(s) > at
         /\ \/ /\ s[at + 1] \notin {TYPE_IPV4, TYPE_DOMAIN, TYPE_IPV6}
               /\ ParseAddress(s, at) = Bad("InvalidAddressType")
            \/ /\ AddressLenKnown(s, at)
               /\ at + AddressLen(s, at) <= Len(s)
               /\ ParseAddress(s, at) =
                    IF s[at + 1] = TYPE_DOMAIN /\ ~ValidUtf8(HostBytes(s, at))
                      THEN Bad("InvalidUtf8")
                      ELSE [is |-> "Ok", address |-> AddressAt(s, at),
                            len |-> AddressLen(s, at)]
<1>1. Len(s) \in Nat
  BY LenProperties
<1>2. Len(s) > at
  BY <1>1 DEF ParseAddress
<1>3. CASE s[at + 1] \notin {TYPE_IPV4, TYPE_DOMAIN, TYPE_IPV6}
  BY <1>1, <1>2, <1>3 DEF ParseAddress
<1>4. CASE s[at + 1] \in {TYPE_IPV4, TYPE_DOMAIN, TYPE_IPV6}
  <2>1. AddressLenKnown(s, at)
    BY <1>1, <1>2, <1>4 DEF ParseAddress, AddressLenKnown
  <2>2. AddressLen(s, at) \in Nat
    BY <2>1, AddressLenType
  <2>3. ~(Len(s) < at + AddressLen(s, at))
    BY <1>2, <1>4, <2>1 DEF ParseAddress, AddressLenKnown
  <2> QED
    BY <1>1, <1>2, <1>4, <2>1, <2>2, <2>3 DEF ParseAddress, AddressLenKnown
<1> QED
  BY <1>2, <1>3, <1>4

LEMMA ParseAddressStable ==
  ASSUME NEW s \in Seq(Byte), NEW t \in Seq(Byte), Begins(s, t),
         NEW at \in Nat, at <= Len(s), ParseAddress(s, at) # Short
  PROVE  ParseAddress(t, at) = ParseAddress(s, at)
<1>1. Len(s) \in Nat /\ Len(t) \in Nat /\ Len(s) <= Len(t) /\ Len(s) > at
  BY LenProperties, ParseAddressCases DEF Begins
<1>2. s[at + 1] = t[at + 1]
  BY <1>1 DEF Begins
<1>3. CASE s[at + 1] \notin {TYPE_IPV4, TYPE_DOMAIN, TYPE_IPV6}
  BY <1>1, <1>2, <1>3 DEF ParseAddress
<1>4. CASE s[at + 1] \in {TYPE_IPV4, TYPE_DOMAIN, TYPE_IPV6}
  <2>1. /\ AddressLenKnown(s, at)
        /\ at + AddressLen(s, at) <= Len(s)
        /\ ParseAddress(s, at) =
             IF s[at + 1] = TYPE_DOMAIN /\ ~ValidUtf8(HostBytes(s, at))
               THEN Bad("InvalidUtf8")
               ELSE [is |-> "Ok", address |-> AddressAt(s, at),
                     len |-> AddressLen(s, at)]
    BY <1>4, ParseAddressCases
  <2>2. /\ AddressLen(s, at) = AddressLen(t, at)
        /\ HostBytes(s, at) = HostBytes(t, at)
        /\ AddressAt(s, at) = AddressAt(t, at)
    BY <2>1, ByteSeq, AddressLenAgrees, AddressAgrees
  <2>3. AddressLen(s, at) \in Nat
    BY <2>1, AddressLenType
  <2>4. /\ Len(t) # at
        /\ ~(t[at + 1] = TYPE_DOMAIN /\ Len(t) = at + 1)
        /\ ~(Len(t) < at + AddressLen(t, at))
    BY <1>1, <1>2, <2>1, <2>2, <2>3 DEF AddressLenKnown
  <2>5. ParseAddress(t, at) =
             IF t[at + 1] = TYPE_DOMAIN /\ ~ValidUtf8(HostBytes(t, at))
               THEN Bad("InvalidUtf8")
               ELSE [is |-> "Ok", address |-> AddressAt(t, at),
                     len |-> AddressLen(t, at)]
    BY <1>2, <1>4, <2>4 DEF ParseAddress
  <2> QED
    BY <1>2, <2>1, <2>2, <2>5
<1> QED
  BY <1>3, <1>4

\* What Header::try_parse_from_buf has checked when it has an answer: what it
\* answers depends on the bytes it has checked, and they stay.
LEMMA TryParseStable ==
  ASSUME NEW s \in Seq(Byte), NEW t \in Seq(Byte), Begins(s, t),
         TryParse(s) # Short
  PROVE  TryParse(t) = TryParse(s)
<1>1. /\ Len(s) \in Nat /\ Len(t) \in Nat /\ Len(s) <= Len(t)
      /\ \A i \in 1 .. Len(s) : s[i] = t[i]
  BY LenProperties DEF Begins
<1>2. PASSWORD_HEX_LEN \in Nat \ {0} /\ CommandOffset = PASSWORD_HEX_LEN + 2
      /\ AddressOffset = PASSWORD_HEX_LEN + 3
  BY LengthsAssumption DEF CommandOffset, AddressOffset
<1>3. Len(s) >= PASSWORD_HEX_LEN + 2
  BY <1>1, <1>2 DEF TryParse
<1>4. /\ \A i \in 1 .. PASSWORD_HEX_LEN : s[i] = t[i]
      /\ CrlfAt(s, PASSWORD_HEX_LEN) <=> CrlfAt(t, PASSWORD_HEX_LEN)
  BY <1>1, <1>2, <1>3 DEF CrlfAt
<1>5. CASE \E i \in 1 .. PASSWORD_HEX_LEN : ~IsHexDigit(s[i])
  <2>1. \E i \in 1 .. PASSWORD_HEX_LEN : ~IsHexDigit(t[i])
    BY <1>4, <1>5
  <2> QED
    BY <1>1, <1>2, <1>3, <1>5, <2>1 DEF TryParse
<1>6. CASE ~\E i \in 1 .. PASSWORD_HEX_LEN : ~IsHexDigit(s[i])
  <2>0. ~\E i \in 1 .. PASSWORD_HEX_LEN : ~IsHexDigit(t[i])
    BY <1>4, <1>6
  <2>1. CASE ~CrlfAt(s, PASSWORD_HEX_LEN)
    BY <1>1, <1>2, <1>3, <1>4, <1>6, <2>0, <2>1 DEF TryParse
  <2>2. CASE CrlfAt(s, PASSWORD_HEX_LEN)
    <3>1. Len(s) >= CommandOffset + 1
      BY <1>1, <1>2, <1>3, <1>6, <2>2 DEF TryParse
    <3>2. s[CommandOffset + 1] = t[CommandOffset + 1]
      BY <1>1, <1>2, <3>1
    <3>3. CASE s[CommandOffset + 1] \notin CommandBytes
      BY <1>1, <1>2, <1>3, <1>4, <1>6, <2>0, <2>2, <3>1, <3>2, <3>3 DEF TryParse
    <3>4. CASE s[CommandOffset + 1] \in CommandBytes
      <4> DEFINE a == ParseAddress(s, AddressOffset)
                 b == ParseAddress(t, AddressOffset)
                 end == AddressOffset + a.len
                 rest(u, r) ==
                   IF r.is # "Ok" THEN r
                   ELSE IF Len(u) < AddressOffset + r.len + 2 THEN Short
                   ELSE IF ~CrlfAt(u, AddressOffset + r.len)
                     THEN Bad("CrlfAfterAddress")
                   ELSE [is       |-> "Ok",
                         password |-> SubSeq(u, 1, PASSWORD_HEX_LEN),
                         command  |-> Command(u[CommandOffset + 1]),
                         address  |-> r.address]
      <4>1. TryParse(s) = rest(s, a)
        BY <1>1, <1>2, <1>3, <1>6, <2>2, <3>1, <3>4 DEF TryParse
      <4>2. TryParse(t) = rest(t, b)
        BY <1>1, <1>2, <1>3, <1>4, <2>0, <2>2, <3>1, <3>2, <3>4 DEF TryParse
      <4>3. a # Short
        BY <4>1 DEF Short
      <4>4. b = a
        BY <1>1, <1>2, <3>1, <4>3, ParseAddressStable
      <4>5. CASE a.is # "Ok"
        BY <4>1, <4>2, <4>4, <4>5
      <4>6. CASE a.is = "Ok"
        <5>1. AddressLenKnown(s, AddressOffset) /\ a.len = AddressLen(s, AddressOffset)
          BY <1>1, <1>2, <3>1, <4>3, <4>6, ParseAddressCases DEF Bad
        <5>2. end \in Nat
          BY <1>2, <5>1, AddressLenType
        <5>3. Len(s) >= end + 2
          BY <1>1, <4>1, <4>6, <5>2
        <5>4. CrlfAt(s, end) <=> CrlfAt(t, end)
          BY <1>1, <5>2, <5>3 DEF CrlfAt
        <5>5. SubSeq(s, 1, PASSWORD_HEX_LEN) = SubSeq(t, 1, PASSWORD_HEX_LEN)
          BY <1>1, <1>2, <1>3, ByteSeq, SubSeqAgrees
        <5>6. ~(Len(t) < end + 2)
          BY <1>1, <5>2, <5>3
        <5> QED
          BY <3>2, <4>1, <4>2, <4>4, <4>6, <5>3, <5>4, <5>5, <5>6, <1>1, <5>2
      <4> QED
        BY <4>5, <4>6
    <3> QED
      BY <3>3, <3>4
  <2> QED
    BY <2>1, <2>2
<1> QED
  BY <1>5, <1>6

LEMMA LongestAddressType == LongestAddress \in Nat /\ LongestAddress >= 259
<1> DEFINE L == {1 + IPV4_OCTETS + 2, 1 + IPV6_OCTETS + 2, 1 + 1 + 255 + 2}
<1>1. \E n \in L : \A m \in L : m <= n
  BY LengthsAssumption
<1>2. LongestAddress \in L /\ \A m \in L : m <= LongestAddress
  BY <1>1 DEF LongestAddress
<1> QED
  BY <1>2, LengthsAssumption

\* With as many bytes as the longest address has, parse_from_buf answers.
LEMMA ParseAddressDecides ==
  ASSUME NEW s \in Seq(Byte), NEW at \in Nat, Len(s) >= at + LongestAddress
  PROVE  ParseAddress(s, at) # Short
<1>1. Len(s) \in Nat /\ Len(s) > at + 1
  BY LenProperties, LongestAddressType
<1>2. CASE s[at + 1] \notin {TYPE_IPV4, TYPE_DOMAIN, TYPE_IPV6}
  BY <1>1, <1>2 DEF ParseAddress, Short, Bad
<1>3. CASE s[at + 1] \in {TYPE_IPV4, TYPE_DOMAIN, TYPE_IPV6}
  <2>1. AddressLenKnown(s, at)
    BY <1>1, <1>3 DEF AddressLenKnown
  <2>2. ~(Len(s) < at + AddressLen(s, at))
    BY <1>1, <2>1, AddressLenType
  <2> QED
    BY <1>1, <1>3, <2>2 DEF ParseAddress, Short, Bad
<1> QED
  BY <1>2, <1>3

\* With as many bytes as the longest header has, try_parse_from_buf answers.
LEMMA TryParseDecides ==
  ASSUME NEW s \in Seq(Byte), TryParse(s) = Short
  PROVE  Len(s) < MaxHeaderLen
<1> SUFFICES ASSUME Len(s) >= MaxHeaderLen PROVE FALSE
  BY LenProperties, LongestAddressType, LengthsAssumption
  DEF MaxHeaderLen, AddressOffset
<1>1. /\ Len(s) \in Nat /\ PASSWORD_HEX_LEN \in Nat
      /\ AddressOffset = PASSWORD_HEX_LEN + 3
      /\ CommandOffset = PASSWORD_HEX_LEN + 2
      /\ LongestAddress \in Nat
      /\ Len(s) >= AddressOffset + LongestAddress + 2
  BY LenProperties, LongestAddressType, LengthsAssumption
  DEF MaxHeaderLen, AddressOffset, CommandOffset
<1> DEFINE a == ParseAddress(s, AddressOffset)
<1>2. a # Short
  BY <1>1, ParseAddressDecides
<1>3. CASE a.is # "Ok"
  BY <1>1, <1>2, <1>3 DEF TryParse, Short, Bad
<1>4. CASE a.is = "Ok"
  <2>1. AddressLenKnown(s, AddressOffset) /\ a.len = AddressLen(s, AddressOffset)
    BY <1>1, <1>2, <1>4, ParseAddressCases DEF Bad
  <2>2. a.len \in Nat /\ a.len <= LongestAddress
    BY <1>1, <2>1, AddressLenType
  <2>3. ~(Len(s) < AddressOffset + a.len + 2)
    BY <1>1, <2>2
  <2> QED
    BY <1>1, <1>4, <2>3 DEF TryParse, Short, Bad
<1> QED
  BY <1>3, <1>4

\* A header that try_parse_from_buf accepts ends, for compute_header_end too,
\* within the buffer, and at the same place in every extension of it.
LEMMA HeaderEndStable ==
  ASSUME NEW s \in Seq(Byte), NEW t \in Seq(Byte), Begins(s, t),
         TryParse(s).is = "Ok"
  PROVE  /\ HeaderEnd(s) \in Nat
         /\ HeaderEnd(s) <= Len(s)
         /\ HeaderEnd(t) = HeaderEnd(s)
<1>1. /\ Len(s) \in Nat /\ Len(t) \in Nat /\ PASSWORD_HEX_LEN \in Nat
      /\ AddressOffset = PASSWORD_HEX_LEN + 3
      /\ CommandOffset = PASSWORD_HEX_LEN + 2
      /\ Len(s) <= Len(t)
  BY LenProperties, LengthsAssumption DEF AddressOffset, CommandOffset, Begins
<1> DEFINE a == ParseAddress(s, AddressOffset)
<1>2. a.is = "Ok" /\ Len(s) >= CommandOffset + 1
      /\ ~(Len(s) < AddressOffset + a.len + 2)
  BY <1>1 DEF TryParse, Short, Bad
<1>3. a # Short /\ a # Bad("InvalidAddressType")
  BY <1>2 DEF Short, Bad
<1>4. /\ Len(s) > AddressOffset
      /\ AddressLenKnown(s, AddressOffset) /\ a.len = AddressLen(s, AddressOffset)
  BY <1>1, <1>2, <1>3, ParseAddressCases DEF Bad
<1>5. a.len \in Nat
  BY <1>1, <1>4, AddressLenType
<1>6. ParseAddress(t, AddressOffset) = a
  BY <1>1, <1>2, <1>3, ParseAddressStable
<1> QED
  BY <1>1, <1>2, <1>4, <1>5, <1>6 DEF HeaderEnd

\* A buffer that holds a stream's whole header is decided.
LEMMA HeaderDecides ==
  ASSUME NEW s \in Seq(Byte), NEW t \in Seq(Byte), Begins(s, t),
         TryParse(t).is = "Ok", HeaderEnd(t) <= Len(s)
  PROVE  TryParse(s) # Short
<1>1. /\ Len(s) \in Nat /\ Len(t) \in Nat /\ PASSWORD_HEX_LEN \in Nat
      /\ AddressOffset = PASSWORD_HEX_LEN + 3
      /\ CommandOffset = PASSWORD_HEX_LEN + 2
      /\ Len(s) <= Len(t)
      /\ \A i \in 1 .. Len(s) : s[i] = t[i]
  BY LenProperties, LengthsAssumption DEF AddressOffset, CommandOffset, Begins
<1> DEFINE a == ParseAddress(s, AddressOffset)
           b == ParseAddress(t, AddressOffset)
<1>2. b.is = "Ok" /\ Len(t) >= CommandOffset + 1
  BY <1>1 DEF TryParse, Short, Bad
<1>3. b # Short /\ b # Bad("InvalidAddressType")
  BY <1>2 DEF Short, Bad
<1>4. /\ AddressLenKnown(t, AddressOffset)
      /\ b.len = AddressLen(t, AddressOffset)
      /\ Len(t) > AddressOffset
  BY <1>1, <1>2, <1>3, ParseAddressCases DEF Bad
<1>5. b.len \in Nat /\ b.len >= 4
  BY <1>1, <1>4, AddressLenType
<1>6. Len(s) >= AddressOffset + b.len + 2
  BY <1>1, <1>2, <1>4, <1>5 DEF HeaderEnd
<1>7. /\ s[AddressOffset + 1] = t[AddressOffset + 1]
      /\ s[AddressOffset + 2] = t[AddressOffset + 2]
  BY <1>1, <1>5, <1>6
<1>8. AddressLenKnown(s, AddressOffset)
  BY <1>1, <1>4, <1>5, <1>6, <1>7 DEF AddressLenKnown
<1>9. AddressLen(s, AddressOffset) = b.len
  BY <1>1, <1>4, <1>8, AddressLenAgrees, ByteSeq
<1>10. a # Short
  BY <1>1, <1>5, <1>6, <1>8, <1>9 DEF ParseAddress, AddressLenKnown, Short, Bad
<1>11. CASE a.is # "Ok"
  BY <1>1, <1>5, <1>6, <1>10, <1>11 DEF TryParse, Short, Bad
<1>12. CASE a.is = "Ok"
  <2>1. AddressOffset \in Nat /\ AddressOffset <= Len(s)
    BY <1>1, <1>5, <1>6
  <2>2. a.len = AddressLen(s, AddressOffset)
    BY <1>10, <1>12, <2>1, ParseAddressCases DEF Bad
  <2> QED
    BY <1>1, <1>5, <1>6, <1>9, <1>12, <2>2 DEF TryParse, Short, Bad
<1> QED
  BY <1>11, <1>12

\* No accepted header is longer than the longest one.
LEMMA HeaderEndBounded ==
  ASSUME NEW s \in Seq(Byte), TryParse(s).is = "Ok"
  PROVE  HeaderEnd(s) \in Nat /\ HeaderEnd(s) <= MaxHeaderLen
<1>1. /\ Len(s) \in Nat /\ PASSWORD_HEX_LEN \in Nat
      /\ AddressOffset = PASSWORD_HEX_LEN + 3
      /\ CommandOffset = PASSWORD_HEX_LEN + 2
  BY LenProperties, LengthsAssumption DEF AddressOffset, CommandOffset
<1> DEFINE a == ParseAddress(s, AddressOffset)
<1>2. a.is = "Ok" /\ Len(s) >= CommandOffset + 1
  BY <1>1 DEF TryParse, Short, Bad
<1>3. a # Short /\ a # Bad("InvalidAddressType")
  BY <1>2 DEF Short, Bad
<1>4. /\ Len(s) > AddressOffset
      /\ AddressLenKnown(s, AddressOffset) /\ a.len = AddressLen(s, AddressOffset)
  BY <1>1, <1>2, <1>3, ParseAddressCases DEF Bad
<1>5. a.len \in Nat /\ a.len <= LongestAddress /\ LongestAddress \in Nat
  BY <1>1, <1>4, AddressLenType
<1> QED
  BY <1>1, <1>2, <1>4, <1>5 DEF HeaderEnd, MaxHeaderLen

-----------------------------------------------------------------------------
(* The two parsers.                                                        *)

\* Address::parse_from_buf and Address::read_from on the same bytes: read_from
\* may see that a domain is not UTF-8 before the port has arrived.
LEMMA AddressParsersAgree ==
  ASSUME NEW s \in Seq(Byte), NEW at \in Nat, at <= Len(s)
  PROVE  LET p == ParseAddress(s, at)
             r == ReadAddress(s, at)
         IN  /\ p = Short \/ (r = p /\ p.is \in {"Ok", "Bad"})
             /\ p = Short => r.is \in {"Eof", "Bad"}
<1>1. Len(s) \in Nat
  BY LenProperties
<1>2. CASE Len(s) = at
  BY <1>1, <1>2 DEF ParseAddress, ReadAddress, Short, Eof
<1>3. CASE Len(s) > at /\ s[at + 1] \notin {TYPE_IPV4, TYPE_DOMAIN, TYPE_IPV6}
  BY <1>1, <1>3 DEF ParseAddress, ReadAddress, Bad
<1>4. CASE Len(s) > at /\ s[at + 1] = TYPE_DOMAIN /\ Len(s) = at + 1
  BY <1>1, <1>4 DEF ParseAddress, ReadAddress, Short, Eof
<1>5. CASE AddressLenKnown(s, at)
  <2>1. PICK n \in Nat : n = AddressLen(s, at) /\ n >= 4
    BY <1>5, AddressLenType
  <2> DEFINE d == s[at + 1] = TYPE_DOMAIN /\ ~ValidUtf8(HostBytes(s, at))
             whole == [is |-> "Ok", address |-> AddressAt(s, at), len |-> n]
  <2>2. ParseAddress(s, at) =
          IF Len(s) < at + n THEN Short
          ELSE IF d THEN Bad("InvalidUtf8") ELSE whole
    BY <1>1, <1>5, <2>1 DEF ParseAddress, AddressLenKnown
  <2>3. ReadAddress(s, at) =
          IF Len(s) < at + n - 2 THEN Eof
          ELSE IF d THEN Bad("InvalidUtf8")
          ELSE IF Len(s) < at + n THEN Eof ELSE whole
    BY <1>1, <1>5, <2>1 DEF ReadAddress, AddressLenKnown
  <2> HIDE DEF d
  <2>4. CASE Len(s) < at + n
    BY <1>1, <2>1, <2>2, <2>3, <2>4 DEF Eof, Bad
  <2>5. CASE ~(Len(s) < at + n)
    <3> DEFINE x == IF d THEN Bad("InvalidUtf8") ELSE whole
    <3>1. ~(Len(s) < at + n - 2)
      BY <1>1, <2>1, <2>5
    <3>2. ParseAddress(s, at) = x /\ ReadAddress(s, at) = x
      BY <2>2, <2>3, <2>5, <3>1
    <3>3. x.is \in {"Ok", "Bad"}
      BY DEF Bad
    <3> QED
      BY <3>2, <3>3 DEF Short
  <2> QED
    BY <2>4, <2>5
<1> QED
  BY <1>1, <1>2, <1>3, <1>4, <1>5 DEF AddressLenKnown

\* Header::try_parse_from_buf and Header::read_from on the same bytes.
LEMMA HeaderParsersAgree ==
  ASSUME NEW s \in Seq(Byte)
  PROVE  LET t == TryParse(s)
             r == ReadHeader(s)
         IN  /\ t = Short \/ (r = t /\ t.is \in {"Ok", "Bad"})
             /\ t = Short => r.is \in {"Eof", "Bad"}
<1>1. /\ Len(s) \in Nat /\ PASSWORD_HEX_LEN \in Nat \ {0}
      /\ CommandOffset = PASSWORD_HEX_LEN + 2
      /\ AddressOffset = PASSWORD_HEX_LEN + 3
  BY LenProperties, LengthsAssumption DEF CommandOffset, AddressOffset
<1> DEFINE hex == ~\E i \in 1 .. PASSWORD_HEX_LEN : ~IsHexDigit(s[i])
           p == ParseAddress(s, AddressOffset)
           a == ReadAddress(s, AddressOffset)
<1>2. CASE Len(s) < PASSWORD_HEX_LEN + 2
  <2>1. TryParse(s) = Short
    BY <1>2 DEF TryParse
  <2>2. CASE Len(s) < PASSWORD_HEX_LEN
    BY <2>1, <2>2 DEF ReadHeader, Eof
  <2>3. CASE ~(Len(s) < PASSWORD_HEX_LEN)
    BY <1>2, <2>1, <2>3 DEF ReadHeader, Eof, Bad
  <2> QED
    BY <2>2, <2>3
<1>3. CASE ~(Len(s) < PASSWORD_HEX_LEN + 2)
  <2>1. ~(Len(s) < PASSWORD_HEX_LEN)
    BY <1>1, <1>3
  <2>2. CASE ~hex
    BY <1>3, <2>1, <2>2 DEF TryParse, ReadHeader, Bad
  <2>3. CASE hex /\ ~CrlfAt(s, PASSWORD_HEX_LEN)
    BY <1>3, <2>1, <2>3 DEF TryParse, ReadHeader, Bad
  <2>4. CASE hex /\ CrlfAt(s, PASSWORD_HEX_LEN) /\ Len(s) < CommandOffset + 1
    BY <1>3, <2>1, <2>4 DEF TryParse, ReadHeader, Bad, Short, Eof
  <2>5. CASE /\ hex /\ CrlfAt(s, PASSWORD_HEX_LEN) /\ ~(Len(s) < CommandOffset + 1)
             /\ s[CommandOffset + 1] \notin CommandBytes
    BY <1>3, <2>1, <2>5 DEF TryParse, ReadHeader, Bad
  <2>6. CASE /\ hex /\ CrlfAt(s, PASSWORD_HEX_LEN) /\ ~(Len(s) < CommandOffset + 1)
             /\ s[CommandOffset + 1] \in CommandBytes
    <3> DEFINE header(x) ==
                 [is |-> "Ok", password |-> SubSeq(s, 1, PASSWORD_HEX_LEN),
                  command |-> Command(s[CommandOffset + 1]), address |-> x.address]
               tail(x, short) ==
                 IF x.is # "Ok" THEN x
                 ELSE IF Len(s) < AddressOffset + x.len + 2 THEN short
                 ELSE IF ~CrlfAt(s, AddressOffset + x.len) THEN Bad("CrlfAfterAddress")
                 ELSE header(x)
    <3>1. TryParse(s) = tail(p, Short)
      BY <1>3, <2>6 DEF TryParse
    <3>2. ReadHeader(s) = tail(a, Eof)
      BY <1>3, <2>1, <2>6 DEF ReadHeader
    <3>3. /\ p = Short \/ (a = p /\ p.is \in {"Ok", "Bad"})
          /\ p = Short => a.is \in {"Eof", "Bad"}
      BY <1>1, <2>6, AddressParsersAgree
    <3> HIDE DEF p, a
    <3>4. CASE p = Short
      <4>1. tail(p, Short) = Short /\ tail(a, Eof) = a
        BY <3>3, <3>4 DEF Short
      <4> QED
        BY <3>1, <3>2, <3>3, <3>4, <4>1
    <3>5. CASE a = p /\ p.is \in {"Ok", "Bad"}
      <4>1. CASE p.is = "Bad"
        BY <3>1, <3>2, <3>5, <4>1
      <4>2. CASE p.is = "Ok"
        <5>1. CASE Len(s) < AddressOffset + p.len + 2
          BY <3>1, <3>2, <3>5, <4>2, <5>1 DEF Short, Eof
        <5>2. CASE ~(Len(s) < AddressOffset + p.len + 2)
          <6> DEFINE x == IF ~CrlfAt(s, AddressOffset + p.len)
                            THEN Bad("CrlfAfterAddress") ELSE header(p)
          <6>1. TryParse(s) = x /\ ReadHeader(s) = x
            BY <3>1, <3>2, <3>5, <4>2, <5>2
          <6>2. x.is \in {"Ok", "Bad"}
            BY DEF Bad
          <6> QED
            BY <6>1, <6>2 DEF Short
        <5> QED
          BY <5>1, <5>2
      <4> QED
        BY <3>5, <4>1, <4>2
    <3> QED
      BY <3>3, <3>4, <3>5
  <2> QED
    BY <2>2, <2>3, <2>4, <2>5, <2>6
<1> QED
  BY <1>2, <1>3

-----------------------------------------------------------------------------
(* Encoding and decoding.                                                  *)

\* The bytes p stand in s after offset k.
Holds(s, k, p) ==
  /\ k + Len(p) <= Len(s)
  /\ \A i \in 1 .. Len(p) : s[k + i] = p[i]

\* What stands there is the slice,
LEMMA HeldSlice ==
  ASSUME NEW s \in Seq(Nat), NEW k \in Nat, NEW p \in Seq(Nat), Holds(s, k, p)
  PROVE  SubSeq(s, k + 1, k + Len(p)) = p
<1>1. Len(s) \in Nat /\ Len(p) \in Nat
  BY LenProperties
<1>2. PICK n \in Nat : n = Len(p)
  BY <1>1
<1>3. \A i \in k + 1 .. k + n : s[i] \in Nat
  BY <1>1, <1>2, ElementOfSeq DEF Holds
<1>4. /\ SubSeq(s, k + 1, k + n) \in Seq(Nat)
      /\ Len(SubSeq(s, k + 1, k + n)) = n
      /\ \A i \in 1 .. n : SubSeq(s, k + 1, k + n)[i] = s[k + i]
  BY <1>3, SubSeqProperties
<1>5. \A i \in 1 .. n : SubSeq(s, k + 1, k + n)[i] = p[i]
  BY <1>2, <1>4 DEF Holds
<1> QED
  BY <1>2, <1>4, <1>5, SeqEqual

\* and the slice stands there.
LEMMA SliceHeld ==
  ASSUME NEW s \in Seq(Nat), NEW k \in Nat, NEW n \in Nat, k + n <= Len(s)
  PROVE  /\ SubSeq(s, k + 1, k + n) \in Seq(Nat)
         /\ Len(SubSeq(s, k + 1, k + n)) = n
         /\ Holds(s, k, SubSeq(s, k + 1, k + n))
<1>1. \A i \in k + 1 .. k + n : s[i] \in Nat
  BY LenProperties, ElementOfSeq
<1>2. /\ SubSeq(s, k + 1, k + n) \in Seq(Nat)
      /\ Len(SubSeq(s, k + 1, k + n)) = n
      /\ \A i \in 1 .. n : SubSeq(s, k + 1, k + n)[i] = s[k + i]
  BY <1>1, SubSeqProperties
<1> QED
  BY <1>2 DEF Holds

LEMMA HeldConcat ==
  ASSUME NEW s \in Seq(Nat), NEW k \in Nat, NEW p \in Seq(Nat), NEW q \in Seq(Nat)
  PROVE  Holds(s, k, p \o q) <=> Holds(s, k, p) /\ Holds(s, k + Len(p), q)
<1> DEFINE c == p \o q
<1>1. Len(s) \in Nat /\ Len(p) \in Nat /\ Len(q) \in Nat
  BY LenProperties
<1>2. PICK l \in Nat, m \in Nat, n \in Nat : l = Len(s) /\ m = Len(p) /\ n = Len(q)
  BY <1>1
<1>3. /\ Len(c) = m + n
      /\ \A i \in 1 .. m + n : c[i] = IF i <= m THEN p[i] ELSE q[i - m]
  BY <1>2, ConcatProperties
<1> HIDE DEF c
<1>4. \A i \in 1 .. m : c[i] = p[i]
  BY <1>3
<1>5. \A i \in 1 .. n : c[m + i] = q[i]
  <2> SUFFICES ASSUME NEW i \in 1 .. n PROVE c[m + i] = q[i]
    OBVIOUS
  <2>1. m + i \in 1 .. m + n /\ ~(m + i <= m) /\ (m + i) - m = i
    OBVIOUS
  <2> QED
    BY <1>3, <2>1
<1>6. ASSUME Holds(s, k, c) PROVE Holds(s, k, p) /\ Holds(s, k + m, q)
  <2>1. k + (m + n) <= l /\ \A i \in 1 .. m + n : s[k + i] = c[i]
    BY <1>2, <1>3, <1>6 DEF Holds
  <2>2. \A i \in 1 .. m : s[k + i] = p[i]
    <3> SUFFICES ASSUME NEW i \in 1 .. m PROVE s[k + i] = p[i]
      OBVIOUS
    <3>1. i \in 1 .. m + n
      OBVIOUS
    <3> QED
      BY <1>4, <2>1, <3>1
  <2>3. \A i \in 1 .. n : s[(k + m) + i] = q[i]
    <3> SUFFICES ASSUME NEW i \in 1 .. n PROVE s[(k + m) + i] = q[i]
      OBVIOUS
    <3>1. m + i \in 1 .. m + n /\ k + (m + i) = (k + m) + i
      OBVIOUS
    <3> QED
      BY <1>5, <2>1, <3>1
  <2>4. k + m <= l /\ (k + m) + n <= l
    BY <2>1
  <2> QED
    BY <1>2, <2>2, <2>3, <2>4 DEF Holds
<1>7. ASSUME Holds(s, k, p), Holds(s, k + m, q) PROVE Holds(s, k, c)
  <2>1. /\ (k + m) + n <= l
        /\ \A i \in 1 .. m : s[k + i] = p[i]
        /\ \A i \in 1 .. n : s[(k + m) + i] = q[i]
    BY <1>2, <1>7 DEF Holds
  <2>2. \A i \in 1 .. m + n : s[k + i] = c[i]
    <3> SUFFICES ASSUME NEW i \in 1 .. m + n PROVE s[k + i] = c[i]
      OBVIOUS
    <3>1. CASE i <= m
      <4>1. i \in 1 .. m
        BY <3>1
      <4> QED
        BY <1>4, <2>1, <4>1
    <3>2. CASE ~(i <= m)
      <4>1. i - m \in 1 .. n /\ (k + m) + (i - m) = k + i /\ m + (i - m) = i
        BY <3>2
      <4> QED
        BY <1>5, <2>1, <4>1
    <3> QED
      BY <3>1, <3>2
  <2>3. k + (m + n) <= l
    BY <2>1
  <2> QED
    BY <1>2, <1>3, <2>2, <2>3 DEF Holds
<1> QED
  BY <1>2, <1>6, <1>7 DEF c

LEMMA HeldPair ==
  ASSUME NEW s \in Seq(Nat), NEW k \in Nat, NEW a \in Nat, NEW b \in Nat
  PROVE  /\ <<a, b>> \in Seq(Nat) /\ Len(<<a, b>>) = 2
         /\ Holds(s, k, <<a, b>>) <=>
              k + 2 <= Len(s) /\ s[k + 1] = a /\ s[k + 2] = b
BY LenProperties, SMTT(60) DEF Holds

LEMMA HeldOne ==
  ASSUME NEW s \in Seq(Nat), NEW k \in Nat, NEW a \in Nat
  PROVE  /\ <<a>> \in Seq(Nat) /\ Len(<<a>>) = 1
         /\ Holds(s, k, <<a>>) <=> k + 1 <= Len(s) /\ s[k + 1] = a
BY LenProperties DEF Holds

\* Bytes of an encoded address before the host.
HostOffset(type) == IF type = TYPE_DOMAIN THEN 2 ELSE 1

\* Where the fields of an encoded address stand.
LEMMA EncodedAddress ==
  ASSUME NEW a, a.type \in Nat, a.host \in Seq(Nat), a.port \in Nat
  PROVE  /\ EncodeAddress(a) \in Seq(Nat)
         /\ Len(EncodeAddress(a)) = HostOffset(a.type) + Len(a.host) + 2
         /\ \A s \in Seq(Nat), k \in Nat :
              Holds(s, k, EncodeAddress(a)) <=>
                LET m == k + HostOffset(a.type)
                    n == m + Len(a.host)
                IN  /\ k + HostOffset(a.type) + Len(a.host) + 2 <= Len(s)
                    /\ s[k + 1] = a.type
                    /\ a.type = TYPE_DOMAIN => s[k + 2] = Len(a.host)
                    /\ Holds(s, m, a.host)
                    /\ s[n + 1] = a.port \div 256 /\ s[n + 2] = a.port % 256
<1> DEFINE f == IF a.type = TYPE_DOMAIN THEN <<a.type, Len(a.host)>> ELSE <<a.type>>
           p == <<a.port \div 256, a.port % 256>>
<1>1. PICK h \in Nat : h = Len(a.host)
  BY LenProperties
<1>2. a.port \div 256 \in Nat /\ a.port % 256 \in Nat
  OBVIOUS
<1>3. f \in Seq(Nat) /\ Len(f) = HostOffset(a.type)
  BY <1>1 DEF HostOffset
<1>4. p \in Seq(Nat) /\ Len(p) = 2
  BY <1>2
<1>5. EncodeAddress(a) = (f \o a.host) \o p
  BY DEF EncodeAddress
<1> HIDE DEF f, p
<1>6. f \o a.host \in Seq(Nat) /\ Len(f \o a.host) = HostOffset(a.type) + h
  BY <1>1, <1>3, ConcatProperties
<1>7. EncodeAddress(a) \in Seq(Nat) /\ Len(EncodeAddress(a)) = HostOffset(a.type) + h + 2
  <2> DEFINE b == f \o a.host
  <2>1. EncodeAddress(a) = b \o p /\ b \in Seq(Nat) /\ Len(b) = HostOffset(a.type) + h
    BY <1>5, <1>6
  <2> HIDE DEF b
  <2>2. b \o p \in Seq(Nat) /\ Len(b \o p) = Len(b) + Len(p)
    BY <1>4, <2>1, ConcatProperties
  <2> QED
    BY <1>4, <2>1, <2>2
<1>8. ASSUME NEW s \in Seq(Nat), NEW k \in Nat
      PROVE  Holds(s, k, EncodeAddress(a)) <=>
               /\ k + HostOffset(a.type) + h + 2 <= Len(s)
               /\ s[k + 1] = a.type
               /\ a.type = TYPE_DOMAIN => s[k + 2] = h
               /\ Holds(s, k + HostOffset(a.type), a.host)
               /\ s[k + HostOffset(a.type) + h + 1] = a.port \div 256
               /\ s[k + HostOffset(a.type) + h + 2] = a.port % 256
  <2>1. PICK o \in {1, 2} : o = HostOffset(a.type)
    BY DEF HostOffset
  <2>2. Holds(s, k, EncodeAddress(a)) <=>
          Holds(s, k, f) /\ Holds(s, k + o, a.host) /\ Holds(s, k + (o + h), p)
    <3>1. Holds(s, k, EncodeAddress(a)) <=>
            Holds(s, k, f \o a.host) /\ Holds(s, k + (o + h), p)
      <4> DEFINE b == f \o a.host
      <4>1. EncodeAddress(a) = b \o p /\ b \in Seq(Nat) /\ Len(b) = o + h
        BY <1>5, <1>6, <2>1
      <4> HIDE DEF b
      <4>2. Holds(s, k, b \o p) <=> Holds(s, k, b) /\ Holds(s, k + Len(b), p)
        BY <1>4, <4>1, HeldConcat
      <4> QED
        BY <4>1, <4>2 DEF b
    <3>2. Holds(s, k, f \o a.host) <=> Holds(s, k, f) /\ Holds(s, k + o, a.host)
      BY <1>3, <2>1, HeldConcat
    <3> QED
      BY <3>1, <3>2
  <2>3. Holds(s, k, f) <=>
          k + o <= Len(s) /\ s[k + 1] = a.type /\ (a.type = TYPE_DOMAIN => s[k + 2] = h)
    <3>1. CASE a.type = TYPE_DOMAIN
      <4>1. o = 2 /\ f = <<a.type, h>>
        BY <1>1, <2>1, <3>1 DEF f, HostOffset
      <4>2. Holds(s, k, <<a.type, h>>) <=> k + 2 <= Len(s) /\ s[k + 1] = a.type /\ s[k + 2] = h
        BY HeldPair, SMTT(60)
      <4> QED
        BY <3>1, <4>1, <4>2
    <3>2. CASE a.type # TYPE_DOMAIN
      <4>1. o = 1 /\ f = <<a.type>>
        BY <2>1, <3>2 DEF f, HostOffset
      <4>2. Holds(s, k, <<a.type>>) <=> k + 1 <= Len(s) /\ s[k + 1] = a.type
        BY HeldOne
      <4> QED
        BY <3>2, <4>1, <4>2
    <3> QED
      BY <3>1, <3>2
  <2>4. Holds(s, k + (o + h), p) <=>
          /\ k + (o + h) + 2 <= Len(s)
          /\ s[k + (o + h) + 1] = a.port \div 256
          /\ s[k + (o + h) + 2] = a.port % 256
    <3>1. PICK x \in Nat, y \in Nat : x = a.port \div 256 /\ y = a.port % 256
      BY <1>2
    <3>2. PICK g \in Nat : g = k + (o + h)
      OBVIOUS
    <3>3. Holds(s, g, <<x, y>>) <=> g + 2 <= Len(s) /\ s[g + 1] = x /\ s[g + 2] = y
      BY HeldPair
    <3> QED
      BY <3>1, <3>2, <3>3 DEF p
  <2>5. /\ k + (o + h) + 1 = k + o + h + 1 /\ k + (o + h) + 2 = k + o + h + 2
        /\ k + o + h + 2 <= Len(s) => k + o <= Len(s)
    BY LenProperties
  <2> QED
    BY <2>1, <2>2, <2>3, <2>4, <2>5
<1> QED
  BY <1>1, <1>7, <1>8

\* A whole address in s, its port's low byte being a byte, is the encoding of
\* what the parsers read it as: length bytes that no encoder writes included.
LEMMA AddressIsItsEncoding ==
  ASSUME NEW s \in Seq(Nat), NEW at \in Nat, AddressLenKnown(s, at),
         NEW len \in Nat, len = AddressLen(s, at), at + len <= Len(s),
         s[at + len] \in Byte
  PROVE  /\ AddressAt(s, at).type = s[at + 1]
         /\ AddressAt(s, at).host \in Seq(Nat)
         /\ AddressAt(s, at).port \in Nat
         /\ EncodeAddress(AddressAt(s, at)) \in Seq(Nat)
         /\ Len(EncodeAddress(AddressAt(s, at))) = len
         /\ Holds(s, at, EncodeAddress(AddressAt(s, at)))
<1> DEFINE a == AddressAt(s, at)
<1>1. Len(s) \in Nat /\ \A i \in 1 .. Len(s) : s[i] \in Nat
  BY LenProperties, ElementOfSeq
<1>2. PICK o \in {1, 2} : o = HostOffset(s[at + 1])
  BY DEF HostOffset
<1>3. PICK h \in Nat : len = o + h + 2 /\ (s[at + 1] = TYPE_DOMAIN => s[at + 2] = h)
  <2>1. CASE s[at + 1] = TYPE_IPV4
    BY <1>2, <2>1, LengthsAssumption
    DEF AddressLen, HostOffset, TYPE_IPV4, TYPE_DOMAIN, TYPE_IPV6
  <2>2. CASE s[at + 1] = TYPE_IPV6
    BY <1>2, <2>2, LengthsAssumption
    DEF AddressLen, HostOffset, TYPE_IPV4, TYPE_DOMAIN, TYPE_IPV6
  <2>3. CASE s[at + 1] = TYPE_DOMAIN
    <3>1. PICK n \in Nat : s[at + 2] = n
      BY <1>1, <2>3 DEF AddressLenKnown
    <3>2. AddressLen(s, at) = 1 + 1 + n + 2
      BY <2>3, <3>1 DEF AddressLen, TYPE_IPV4, TYPE_DOMAIN, TYPE_IPV6
    <3> QED
      BY <1>2, <2>3, <3>1, <3>2 DEF HostOffset
  <2> QED
    BY <2>1, <2>2, <2>3 DEF AddressLenKnown
<1>4. /\ a.type = s[at + 1] /\ a.host = HostBytes(s, at)
      /\ a.port = 256 * s[at + len - 1] + s[at + len]
  BY DEF AddressAt
<1>5. HostBytes(s, at) = SubSeq(s, (at + o) + 1, (at + o) + h)
  <2>1. (IF s[at + 1] = TYPE_DOMAIN THEN at + 3 ELSE at + 2) = (at + o) + 1
    BY <1>2 DEF HostOffset
  <2>2. at + len - 2 = (at + o) + h
    BY <1>3
  <2> QED
    BY <2>1, <2>2 DEF HostBytes
<1>6. a.host \in Seq(Nat) /\ Len(a.host) = h /\ Holds(s, at + o, a.host)
  <2>1. at + o \in Nat /\ (at + o) + h <= Len(s)
    BY <1>1, <1>3
  <2> QED
    <3>1. PICK g \in Nat : g = at + o
      BY <2>1
    <3>2. LET r == SubSeq(s, g + 1, g + h)
          IN  r \in Seq(Nat) /\ Len(r) = h /\ Holds(s, g, r)
      BY <2>1, <3>1, SliceHeld
    <3>3. a.host = SubSeq(s, g + 1, g + h)
      BY <1>4, <1>5, <3>1
    <3> QED
      BY <3>1, <3>2, <3>3
<1>7. PICK x \in Nat, y \in 0 .. 255 : x = s[at + len - 1] /\ y = s[at + len]
  <2>1. at + len - 1 \in 1 .. Len(s)
    BY <1>1, <1>3
  <2> QED
    BY <1>1, <2>1 DEF Byte
<1>8. a.port \in Nat /\ a.port \div 256 = x /\ a.port % 256 = y
  <2>1. a.port = 256 * x + y
    BY <1>4, <1>7
  <2>2. /\ 256 * x + y \in Nat
        /\ (256 * x + y) \div 256 = x
        /\ (256 * x + y) % 256 = y
    BY SMTT(30)
  <2> QED
    BY <2>1, <2>2
<1>9. a.type \in Nat
  BY <1>1, <1>4 DEF AddressLenKnown
<1> HIDE DEF a
<1>10. /\ at + o + h + 2 <= Len(s)
       /\ s[at + o + h + 1] = a.port \div 256 /\ s[at + o + h + 2] = a.port % 256
  <2>1. at + len - 1 = at + o + h + 1 /\ at + len = at + o + h + 2
    BY <1>3
  <2> QED
    BY <1>7, <1>8, <2>1
<1>11. Len(EncodeAddress(a)) = len /\ EncodeAddress(a) \in Seq(Nat)
  BY <1>2, <1>3, <1>4, <1>6, <1>8, <1>9, EncodedAddress, ZenonT(60)
<1>12. Holds(s, at, EncodeAddress(a))
  BY <1>2, <1>3, <1>4, <1>6, <1>8, <1>9, <1>10, EncodedAddress, ZenonT(60)
<1> QED
  BY <1>4, <1>6, <1>8, <1>11, <1>12 DEF a

\* An address that was encoded is read back.
LEMMA DecodedAddress ==
  ASSUME NEW s \in Seq(Nat), NEW at \in Nat, NEW a \in Address,
         Holds(s, at, EncodeAddress(a))
  PROVE  /\ Len(EncodeAddress(a)) \in Nat
         /\ ReadAddress(s, at) =
              [is |-> "Ok", address |-> a, len |-> Len(EncodeAddress(a))]
<1>1. /\ a = [type |-> a.type, host |-> a.host, port |-> a.port]
      /\ a.type \in {TYPE_IPV4, TYPE_DOMAIN, TYPE_IPV6}
      /\ a.host \in Seq(Byte)
      /\ a.type = TYPE_IPV4   => Len(a.host) = IPV4_OCTETS
      /\ a.type = TYPE_IPV6   => Len(a.host) = IPV6_OCTETS
      /\ a.type = TYPE_DOMAIN => ValidUtf8(a.host)
      /\ a.port \in U16
  <2>1. a \in [type : {TYPE_IPV4, TYPE_DOMAIN, TYPE_IPV6}, host : Seq(Byte), port : U16]
    BY DEF Address
  <2>2. /\ a.type = TYPE_IPV4   => Len(a.host) = IPV4_OCTETS
        /\ a.type = TYPE_IPV6   => Len(a.host) = IPV6_OCTETS
        /\ a.type = TYPE_DOMAIN => ValidUtf8(a.host)
    BY DEF Address
  <2>3. a = [type |-> a.type, host |-> a.host, port |-> a.port]
    BY <2>1
  <2>4. /\ a.type \in {TYPE_IPV4, TYPE_DOMAIN, TYPE_IPV6}
        /\ a.host \in Seq(Byte)
        /\ a.port \in U16
    BY <2>1
  <2> QED
    BY <2>2, <2>3, <2>4
<1>2. a.host \in Seq(Nat) /\ a.type \in Nat /\ a.port \in Nat
  <2>1. a.host \in Seq(Nat)
    BY <1>1, ByteSeq
  <2> QED
    <3>1. a.type \in Nat
      BY <1>1 DEF TYPE_IPV4, TYPE_DOMAIN, TYPE_IPV6
    <3>2. U16 \subseteq Nat
      BY SMT DEF U16
    <3> QED
      BY <1>1, <2>1, <3>1, <3>2
<1>3. PICK l \in Nat, h \in Nat, port \in Nat, o \in {1, 2} :
        /\ l = Len(s) /\ h = Len(a.host) /\ port = a.port
        /\ o = HostOffset(a.type)
  BY <1>2, LenProperties DEF HostOffset
<1>4. /\ Len(EncodeAddress(a)) = o + h + 2
      /\ at + o + h + 2 <= l
      /\ s[at + 1] = a.type
      /\ a.type = TYPE_DOMAIN => s[at + 2] = h
      /\ Holds(s, at + o, a.host)
      /\ s[at + o + h + 1] = port \div 256 /\ s[at + o + h + 2] = port % 256
  <2>1. /\ Len(EncodeAddress(a)) = HostOffset(a.type) + Len(a.host) + 2
        /\ at + HostOffset(a.type) + Len(a.host) + 2 <= Len(s)
        /\ s[at + 1] = a.type
        /\ a.type = TYPE_DOMAIN => s[at + 2] = Len(a.host)
        /\ Holds(s, at + HostOffset(a.type), a.host)
        /\ s[at + HostOffset(a.type) + Len(a.host) + 1] = a.port \div 256
        /\ s[at + HostOffset(a.type) + Len(a.host) + 2] = a.port % 256
    BY <1>2, EncodedAddress
  <2> QED
    BY <1>3, <2>1
<1>5. AddressLen(s, at) = o + h + 2
  <2>1. CASE a.type = TYPE_IPV4
    <3>1. s[at + 1] = TYPE_IPV4
      BY <1>4, <2>1
    <3>2. AddressLen(s, at) = 1 + IPV4_OCTETS + 2
      BY <3>1 DEF AddressLen, TYPE_IPV4, TYPE_DOMAIN, TYPE_IPV6
    <3>3. o = 1 /\ h = IPV4_OCTETS
      BY <1>1, <1>3, <2>1 DEF HostOffset, TYPE_IPV4, TYPE_DOMAIN, TYPE_IPV6
    <3> QED
      BY <3>2, <3>3
  <2>2. CASE a.type = TYPE_IPV6
    <3>1. s[at + 1] = TYPE_IPV6
      BY <1>4, <2>2
    <3>2. AddressLen(s, at) = 1 + IPV6_OCTETS + 2
      BY <3>1 DEF AddressLen, TYPE_IPV4, TYPE_DOMAIN, TYPE_IPV6
    <3>3. o = 1 /\ h = IPV6_OCTETS
      BY <1>1, <1>3, <2>2 DEF HostOffset, TYPE_IPV4, TYPE_DOMAIN, TYPE_IPV6
    <3> QED
      BY <3>2, <3>3
  <2>3. CASE a.type = TYPE_DOMAIN
    <3>1. AddressLen(s, at) = 1 + 1 + h + 2
      <4>1. s[at + 1] = TYPE_DOMAIN /\ s[at + 2] = h
        BY <1>4, <2>3
      <4> QED
        BY <4>1 DEF AddressLen, TYPE_IPV4, TYPE_DOMAIN, TYPE_IPV6
    <3>2. o = 2
      BY <1>3, <2>3 DEF HostOffset
    <3> QED
      BY <3>1, <3>2
  <2> QED
    BY <1>1, <2>1, <2>2, <2>3
<1>6. HostBytes(s, at) = a.host
  <2>1. PICK g \in Nat : g = at + o
    OBVIOUS
  <2>2. SubSeq(s, g + 1, g + Len(a.host)) = a.host
    BY <1>2, <1>4, <2>1, HeldSlice, ZenonT(60)
  <2>3. (IF s[at + 1] = TYPE_DOMAIN THEN at + 3 ELSE at + 2) = g + 1
    BY <1>3, <1>4, <2>1 DEF HostOffset
  <2>4. at + AddressLen(s, at) - 2 = g + Len(a.host)
    BY <1>3, <1>5, <2>1, SMTT(60)
  <2> QED
    BY <2>2, <2>3, <2>4 DEF HostBytes
<1>7. AddressAt(s, at) = a
  <2>1. PICK end \in Nat : end = at + AddressLen(s, at)
    BY <1>5
  <2>2. end = at + o + h + 2 /\ end - 1 = at + o + h + 1
    BY <1>5, <2>1
  <2>3. 256 * s[end - 1] + s[end] = port
    <3>1. s[end - 1] = port \div 256 /\ s[end] = port % 256
      BY <1>4, <2>2
    <3>2. 256 * (port \div 256) + (port % 256) = port
      BY SMTT(30)
    <3> QED
      BY <3>1, <3>2
  <2>4. AddressAt(s, at) = [type |-> s[at + 1], host |-> HostBytes(s, at),
                            port |-> 256 * s[end - 1] + s[end]]
    BY <2>1 DEF AddressAt
  <2> QED
    BY <1>1, <1>3, <1>4, <1>6, <2>3, <2>4
<1>8. /\ ~(l < at + 1) /\ ~(l < at + 2)
      /\ ~(l < at + (o + h + 2) - 2) /\ ~(l < at + (o + h + 2))
  BY <1>4
<1>9. ~(s[at + 1] = TYPE_DOMAIN /\ ~ValidUtf8(HostBytes(s, at)))
  BY <1>1, <1>4, <1>6
<1> QED
  BY <1>1, <1>3, <1>4, <1>5, <1>7, <1>8, <1>9 DEF ReadAddress

\* Sequences that stand one after the other from the start stand there together:
\* two of them,
LEMMA HeldNext ==
  ASSUME NEW s \in Seq(Nat), NEW p \in Seq(Nat), NEW q \in Seq(Nat)
  PROVE  /\ p \o q \in Seq(Nat) /\ Len(p \o q) = Len(p) + Len(q)
         /\ Holds(s, 0, p \o q) <=> Holds(s, 0, p) /\ Holds(s, Len(p), q)
<1>1. 0 + Len(p) = Len(p)
  BY LenProperties
<1>2. Holds(s, 0, p \o q) <=> Holds(s, 0, p) /\ Holds(s, 0 + Len(p), q)
  BY HeldConcat
<1>3. p \o q \in Seq(Nat) /\ Len(p \o q) = Len(p) + Len(q)
  BY ConcatProperties
<1> QED
  BY <1>1, <1>2, <1>3

\* and five.
LEMMA HeldFive ==
  ASSUME NEW s \in Seq(Nat),
         NEW p \in Seq(Nat), NEW q \in Seq(Nat), NEW x \in Seq(Nat),
         NEW y \in Seq(Nat), NEW z \in Seq(Nat)
  PROVE  LET i == Len(p)  j == Len(q)  k == Len(x)  l == Len(y)  n == Len(z)
         IN  /\ p \o q \o x \o y \o z \in Seq(Nat)
             /\ Len(p \o q \o x \o y \o z) = i + j + k + l + n
             /\ Holds(s, 0, p \o q \o x \o y \o z) <=>
                  /\ Holds(s, 0, p) /\ Holds(s, i, q) /\ Holds(s, i + j, x)
                  /\ Holds(s, i + j + k, y) /\ Holds(s, i + j + k + l, z)
<1> DEFINE A == p \o q
           B == A \o x
           C == B \o y
           D == C \o z
<1>1. /\ A \in Seq(Nat) /\ Len(A) = Len(p) + Len(q)
      /\ Holds(s, 0, A) <=> Holds(s, 0, p) /\ Holds(s, Len(p), q)
  BY HeldNext
<1> HIDE DEF A
<1>2. /\ B \in Seq(Nat) /\ Len(B) = Len(A) + Len(x)
      /\ Holds(s, 0, B) <=> Holds(s, 0, A) /\ Holds(s, Len(A), x)
  BY <1>1, HeldNext
<1> HIDE DEF B
<1>3. /\ C \in Seq(Nat) /\ Len(C) = Len(B) + Len(y)
      /\ Holds(s, 0, C) <=> Holds(s, 0, B) /\ Holds(s, Len(B), y)
  BY <1>2, HeldNext
<1> HIDE DEF C
<1>4. /\ D \in Seq(Nat) /\ Len(D) = Len(C) + Len(z)
      /\ Holds(s, 0, D) <=> Holds(s, 0, C) /\ Holds(s, Len(C), z)
  BY <1>3, HeldNext
<1>5. D = p \o q \o x \o y \o z
  BY DEF A, B, C
<1> HIDE DEF D
<1> QED
  BY <1>1, <1>2, <1>3, <1>4, <1>5

\* What try_parse_from_buf has read when it accepts, and where.
LEMMA TryParseAccepts ==
  ASSUME NEW s \in Seq(Byte), TryParse(s).is = "Ok"
  PROVE  LET len == AddressLen(s, AddressOffset)
             end == AddressOffset + len
         IN  /\ CrlfAt(s, PASSWORD_HEX_LEN)
             /\ s[CommandOffset + 1] \in CommandBytes
             /\ AddressLenKnown(s, AddressOffset)
             /\ len \in Nat /\ len >= 4
             /\ end + 2 <= Len(s)
             /\ CrlfAt(s, end)
             /\ HeaderEnd(s) = end + 2
             /\ TryParse(s) =
                  [is       |-> "Ok",
                   password |-> SubSeq(s, 1, PASSWORD_HEX_LEN),
                   command  |-> Command(s[CommandOffset + 1]),
                   address  |-> AddressAt(s, AddressOffset)]
<1>1. /\ Len(s) \in Nat /\ PASSWORD_HEX_LEN \in Nat
      /\ AddressOffset = PASSWORD_HEX_LEN + 3
      /\ CommandOffset = PASSWORD_HEX_LEN + 2
  BY LenProperties, LengthsAssumption DEF AddressOffset, CommandOffset
<1> DEFINE a == ParseAddress(s, AddressOffset)
<1>2. /\ ~(Len(s) < PASSWORD_HEX_LEN + 2)
      /\ ~\E i \in 1 .. PASSWORD_HEX_LEN : ~IsHexDigit(s[i])
      /\ CrlfAt(s, PASSWORD_HEX_LEN)
      /\ ~(Len(s) < CommandOffset + 1)
      /\ s[CommandOffset + 1] \in CommandBytes
      /\ a.is = "Ok"
  BY DEF TryParse, Short, Bad
<1>3. /\ ~(Len(s) < AddressOffset + a.len + 2)
      /\ CrlfAt(s, AddressOffset + a.len)
      /\ TryParse(s) = [is       |-> "Ok",
                        password |-> SubSeq(s, 1, PASSWORD_HEX_LEN),
                        command  |-> Command(s[CommandOffset + 1]),
                        address  |-> a.address]
  BY <1>2 DEF TryParse, Short, Bad
<1>4. a # Short /\ a # Bad("InvalidAddressType") /\ a # Bad("InvalidUtf8")
  BY <1>2 DEF Short, Bad
<1>5. /\ AddressLenKnown(s, AddressOffset)
      /\ a.len = AddressLen(s, AddressOffset)
      /\ a.address = AddressAt(s, AddressOffset)
      /\ Len(s) > AddressOffset
  BY <1>1, <1>2, <1>4, ParseAddressCases
<1>6. PICK n \in Nat : n = AddressLen(s, AddressOffset) /\ n >= 4
  BY <1>1, <1>5, AddressLenType
<1>7. HeaderEnd(s) = AddressOffset + n + 2
  BY <1>1, <1>2, <1>5, <1>6 DEF HeaderEnd
<1>8. AddressOffset + n + 2 <= Len(s)
  BY <1>1, <1>3, <1>5, <1>6
<1> QED
  BY <1>2, <1>3, <1>5, <1>6, <1>7, <1>8

\* The bytes that compute_header_end counts are the encoding of the header.
LEMMA HeaderIsItsEncoding ==
  ASSUME NEW s \in Seq(Byte), TryParse(s).is = "Ok"
  PROVE  SubSeq(s, 1, HeaderEnd(s)) = EncodeHeader(TryParse(s))
<1> DEFINE h   == TryParse(s)
           len == AddressLen(s, AddressOffset)
           end == AddressOffset + len
           P   == SubSeq(s, 1, PASSWORD_HEX_LEN)
           cmd == s[CommandOffset + 1]
           Q   == <<CR, LF, cmd>>
           E   == EncodeAddress(AddressAt(s, AddressOffset))
           R   == <<CR, LF>>
<1>1. /\ Len(s) \in Nat /\ PASSWORD_HEX_LEN \in Nat
      /\ AddressOffset = PASSWORD_HEX_LEN + 3
      /\ CommandOffset = PASSWORD_HEX_LEN + 2
  BY LenProperties, LengthsAssumption DEF AddressOffset, CommandOffset
<1>2. s \in Seq(Nat)
  BY ByteSeq
<1>3. /\ CrlfAt(s, PASSWORD_HEX_LEN)
      /\ cmd \in CommandBytes
      /\ AddressLenKnown(s, AddressOffset)
      /\ len \in Nat /\ len >= 4
      /\ end + 2 <= Len(s)
      /\ CrlfAt(s, end)
      /\ HeaderEnd(s) = end + 2
      /\ h = [is |-> "Ok", password |-> P, command |-> Command(cmd),
              address |-> AddressAt(s, AddressOffset)]
  BY TryParseAccepts
<1>4. CommandAsU8(h.command) = cmd
  BY <1>3 DEF CommandAsU8, Command, CommandBytes
<1>5. EncodeHeader(h) = ((P \o Q) \o E) \o R
  <2> HIDE DEF h, P, cmd
  <2>1. h.password = P /\ h.address = AddressAt(s, AddressOffset)
    BY <1>3
  <2> QED
    BY <1>4, <2>1 DEF EncodeHeader
<1>6. P \in Seq(Nat) /\ Len(P) = PASSWORD_HEX_LEN /\ Holds(s, 0, P)
  <2>1. /\ SubSeq(s, 0 + 1, 0 + PASSWORD_HEX_LEN) \in Seq(Nat)
        /\ Len(SubSeq(s, 0 + 1, 0 + PASSWORD_HEX_LEN)) = PASSWORD_HEX_LEN
        /\ Holds(s, 0, SubSeq(s, 0 + 1, 0 + PASSWORD_HEX_LEN))
    <3>1. 0 + PASSWORD_HEX_LEN <= Len(s)
      BY <1>1, <1>3
    <3> QED
      BY <1>1, <1>2, <3>1, SliceHeld
  <2>2. 0 + 1 = 1 /\ 0 + PASSWORD_HEX_LEN = PASSWORD_HEX_LEN
    BY <1>1
  <2> QED
    BY <2>1, <2>2
<1>7. Q \in Seq(Nat) /\ Len(Q) = 3 /\ Holds(s, PASSWORD_HEX_LEN, Q)
  <2>1. cmd \in Nat
    BY <1>3 DEF CommandBytes
  <2>2. /\ s[PASSWORD_HEX_LEN + 1] = CR /\ s[PASSWORD_HEX_LEN + 2] = LF
        /\ s[PASSWORD_HEX_LEN + 3] = cmd /\ PASSWORD_HEX_LEN + 3 <= Len(s)
    BY <1>1, <1>3 DEF CrlfAt
  <2>3. Q \in Seq(Nat) /\ Len(Q) = 3
    BY <2>1 DEF CR, LF
  <2>4. \A i \in 1 .. 3 : s[PASSWORD_HEX_LEN + i] = Q[i]
    <3>1. Q[1] = CR /\ Q[2] = LF /\ Q[3] = cmd
      OBVIOUS
    <3> QED
      BY <2>2, <3>1
  <2> QED
    BY <2>2, <2>3, <2>4 DEF Holds
<1>8. E \in Seq(Nat) /\ Len(E) = len /\ Holds(s, AddressOffset, E)
  <2>1. /\ AddressOffset \in Nat /\ AddressOffset + len <= Len(s)
        /\ AddressOffset + len \in 1 .. Len(s)
    BY <1>1, <1>3
  <2>2. s[AddressOffset + len] \in Byte
    BY <2>1, ElementOfSeq
  <2> QED
    BY <1>2, <1>3, <2>1, <2>2, AddressIsItsEncoding
<1>9. R \in Seq(Nat) /\ Len(R) = 2 /\ Holds(s, end, R)
  <2>1. CR \in Nat /\ LF \in Nat
    BY DEF CR, LF
  <2>2. end \in Nat
    BY <1>1, <1>3
  <2> QED
    BY <1>2, <1>3, <2>1, <2>2, HeldPair DEF CrlfAt
<1> HIDE DEF h, len, P, cmd, Q, E, R
<1> DEFINE A == P \o Q
           B == A \o E
           C == B \o R
<1>10. A \in Seq(Nat) /\ Len(A) = AddressOffset /\ Holds(s, 0, A)
  <2>1. A \in Seq(Nat) /\ Len(A) = Len(P) + Len(Q)
    BY <1>6, <1>7, ConcatProperties
  <2>2. 0 + PASSWORD_HEX_LEN = PASSWORD_HEX_LEN
    BY <1>1
  <2>3. Holds(s, 0, A)
    BY <1>2, <1>6, <1>7, <2>2, HeldConcat
  <2> QED
    BY <1>1, <1>6, <1>7, <2>1, <2>3
<1> HIDE DEF A
<1>11. B \in Seq(Nat) /\ Len(B) = end /\ Holds(s, 0, B)
  <2>1. B \in Seq(Nat) /\ Len(B) = Len(A) + Len(E)
    BY <1>8, <1>10, ConcatProperties
  <2>2. 0 + AddressOffset = AddressOffset
    BY <1>1
  <2>3. Holds(s, 0, B)
    BY <1>2, <1>8, <1>10, <2>2, HeldConcat
  <2> QED
    BY <1>8, <1>10, <2>1, <2>3
<1> HIDE DEF B
<1>12. C \in Seq(Nat) /\ Len(C) = end + 2 /\ Holds(s, 0, C)
  <2>1. C \in Seq(Nat) /\ Len(C) = Len(B) + Len(R)
    BY <1>9, <1>11, ConcatProperties
  <2>2. 0 + end = end
    BY <1>1, <1>3
  <2>3. Holds(s, 0, C)
    BY <1>2, <1>9, <1>11, <2>2, HeldConcat
  <2> QED
    BY <1>9, <1>11, <2>1, <2>3
<1>13. EncodeHeader(h) = C
  BY <1>5 DEF A, B
<1> HIDE DEF C
<1>14. SubSeq(s, 0 + 1, 0 + Len(C)) = C
  BY <1>2, <1>12, HeldSlice
<1>15. 0 + 1 = 1 /\ 0 + Len(C) = HeaderEnd(s)
  BY <1>1, <1>3, <1>12
<1> QED
  BY <1>13, <1>14, <1>15 DEF h

\* and one byte less is no header.
LEMMA HeaderIsWhole ==
  ASSUME NEW s \in Seq(Byte), TryParse(s).is = "Ok"
  PROVE  TryParse(SubSeq(s, 1, HeaderEnd(s) - 1)) = Short
<1>1. PICK n \in Nat : n = HeaderEnd(s) /\ n >= 1 /\ n <= Len(s)
  <2>1. HeaderEnd(s) = AddressOffset + AddressLen(s, AddressOffset) + 2
        /\ AddressLen(s, AddressOffset) \in Nat
        /\ HeaderEnd(s) <= Len(s)
    BY TryParseAccepts
  <2> QED
    BY <2>1, LengthsAssumption DEF AddressOffset
<1> DEFINE t == SubSeq(s, 1, n - 1)
<1>2. t \in Seq(Byte) /\ Len(t) = n - 1 /\ \A i \in 1 .. n - 1 : t[i] = s[i]
  <2>1. \A i \in 1 .. n - 1 : s[i] \in Byte
    BY <1>1, ElementOfSeq, LenProperties
  <2>2. 1 <= n - 1 + 1
    BY <1>1
  <2>3. /\ t \in Seq(Byte)
        /\ Len(t) = IF 1 <= n - 1 THEN (n - 1) - 1 + 1 ELSE 0
        /\ \A i \in 1 .. (n - 1) - 1 + 1 : t[i] = s[1 + i - 1]
    BY <1>1, <2>1, SubSeqProperties
  <2> QED
    BY <1>1, <2>3
<1> HIDE DEF t
<1>3. Begins(t, s)
  BY <1>1, <1>2, LenProperties DEF Begins
<1> SUFFICES ASSUME TryParse(t) # Short PROVE FALSE
  BY <1>1 DEF t
<1>4. TryParse(s) = TryParse(t)
  BY <1>2, <1>3, TryParseStable
<1>5. HeaderEnd(t) <= Len(t) /\ HeaderEnd(s) = HeaderEnd(t)
  BY <1>2, <1>3, <1>4, HeaderEndStable
<1> QED
  BY <1>1, <1>2, <1>5

=============================================================================
