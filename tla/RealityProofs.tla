---------------------------- MODULE RealityProofs ----------------------------
(***************************************************************************)
(* The state machine of RealityConnection, what it authenticates and the   *)
(* timestamp window, for every stream a client sends, every movement of    *)
(* the clock, every hash function, every width of the integers and every   *)
(* order in which the methods are called.                                  *)
(***************************************************************************)
EXTENDS RealityConnection, TrojanHeaderProofs

\* Where the fields of the machine stand at each await of its caller: they are
\* assigned only when an authentication returns, and only an authentication
\* that accepts leaves the caller a machine.
Fresh    == machine.state = "Handshake" /\ machine.auth_result = None
Accepting ==
  /\ machine.state = "Authenticated" /\ machine.auth_result # None
  /\ auth.is = "Ok"
  /\ machine.auth_result.it.command = auth.v.request.command
  /\ machine.auth_result.it.address = auth.v.request.address

MachineInv ==
  /\ machine = [state |-> machine.state, auth_result |-> machine.auth_result,
                fallback_address |-> machine.fallback_address]
  /\ machine.state \in States
  /\ owner = CASE caller = "Ready"                   -> "machine"
               [] caller = "Splicing"                -> "splice"
               [] caller \in {"Holds", "Forwarding"} -> "caller"
               [] caller = "Returned"                -> "dropped"
               [] caller \in {"Handshake", "Authenticating",
                              "DialToSplice", "DialToForward"} -> "method"
  /\ \/ /\ caller \in {"Handshake", "Ready", "Holds", "DialToSplice", "Splicing"}
        /\ auth = [is |-> "Idle"] /\ Fresh
     \/ caller = "Authenticating" /\ auth = [is |-> "Reading"] /\ Fresh
     \/ /\ caller \in {"Ready", "Holds", "DialToForward", "Forwarding",
                       "DialToSplice", "Splicing"}
        /\ Accepting
     \/ caller = "Returned" /\ auth.is \in {"Idle", "Ok", "Bad"}

\* read_from waits for more than the first n symbols.
Waits(n) == \A now \in Clocks : ReadRequest(SubSeq(wire.bytes, 1, n), now).is = "Eof"

\* authenticate has an answer about what it read: it is neither cut off nor
\* timed out.
Judged == \/ auth.is = "Ok"
          \/ auth.is = "Bad" /\ auth.v.error \notin {"Eof", "Timeout"}

\* What was read: while authenticate reads, read_from waits for more; a request
\* it judges ends at the first symbol after which read_from waits no more.
ReadInv ==
  /\ wire \in [bytes : Wires, closes : BOOLEAN]
  /\ at \in 0 .. Len(wire.bytes)
  /\ clock \in Clocks
  /\ auth.is = "Idle" => at = 0
  /\ auth.is = "Reading" => Waits(at)
  /\ Judged => /\ at > 0 /\ Waits(at - 1)
               /\ auth.now \in Clocks
               /\ auth.v = CheckPassword(ReadRequest(SubSeq(wire.bytes, 1, at), auth.now))
               /\ auth.v.is = auth.is

-----------------------------------------------------------------------------
(* What read_from returns.                                                 *)

LEMMA ReadAddressOutcome ==
  ASSUME NEW s, NEW k
  PROVE  ReadAddress(s, k).is \in {"Eof", "Bad", "Ok"}
BY DEF ReadAddress, Eof, Bad

LEMMA ReadRequestOutcome ==
  ASSUME NEW s, NEW now
  PROVE  ReadRequest(s, now).is \in {"Eof", "Bad", "Ok"}
BY ReadAddressOutcome DEF ReadRequest, Eof, Bad

LEMMA CheckPasswordOutcome ==
  ASSUME NEW v, v.is \in {"Eof", "Bad", "Ok"}
  PROVE  /\ CheckPassword(v).is \in {"Eof", "Bad", "Ok"}
         /\ CheckPassword(v).is = "Ok" => CheckPassword(v) = v
BY DEF CheckPassword, Bad

\* An address that was read has a length.
LEMMA ReadAddressLen ==
  ASSUME NEW s \in Seq(Nat), NEW k \in Nat, ReadAddress(s, k).is = "Ok"
  PROVE  /\ ReadAddress(s, k).len \in Nat
         /\ AddressLenKnown(s, k)
         /\ ReadAddress(s, k) =
              [is |-> "Ok", address |-> AddressAt(s, k), len |-> AddressLen(s, k)]
<1>1. /\ ~(Len(s) < k + 1)
      /\ s[k + 1] \in {TYPE_IPV4, TYPE_DOMAIN, TYPE_IPV6}
      /\ ~(s[k + 1] = TYPE_DOMAIN /\ Len(s) < k + 2)
  BY DEF ReadAddress, Eof, Bad
<1>2. ReadAddress(s, k) = [is |-> "Ok", address |-> AddressAt(s, k), len |-> AddressLen(s, k)]
  BY DEF ReadAddress, Eof, Bad
<1>3. AddressLenKnown(s, k)
  BY <1>1, LenProperties DEF AddressLenKnown
<1> QED
  BY <1>2, <1>3, AddressLenNat

\* What read_from has checked, in its order, when it accepts s.
LEMMA ReadRequestAccepts ==
  ASSUME NEW s \in Seq(Nat), NEW now \in Int, ReadRequest(s, now).is = "Ok"
  PROVE  LET a      == ReadAddress(s, 3)
             hashAt == 3 + a.len + 1 + PASSWORD_HEX_LEN
             end    == hashAt + VISION_HASH_LEN
             password == SubSeq(s, 3 + a.len + 2, hashAt)
             request  == [command   |-> Command(s[3]),
                          address   |-> a.address,
                          timestamp |-> s[3 + a.len + 1],
                          password  |-> password]
         IN  /\ s[1] = VISION_MAGIC_HEADER /\ s[2] = VISION_VERSION
             /\ s[3] \in CommandBytes
             /\ a.is = "Ok" /\ a.len \in Nat
             /\ a = [is |-> "Ok", address |-> AddressAt(s, 3), len |-> AddressLen(s, 3)]
             /\ AddressLenKnown(s, 3)
             /\ 3 + a.len + 1 \in 1 .. Len(s)
             /\ end <= Len(s)
             /\ now \in Nat /\ ~Expired(now, s[3 + a.len + 1])
             /\ IntegrityOk(request, SubSeq(s, hashAt + 1, end))
             /\ ReadRequest(s, now) = [is |-> "Ok", request |-> request]
<1> DEFINE a == ReadAddress(s, 3)
           hashAt == 3 + a.len + 1 + PASSWORD_HEX_LEN
           end    == hashAt + VISION_HASH_LEN
           password == SubSeq(s, 3 + a.len + 2, hashAt)
           request  == [command   |-> Command(s[3]),
                        address   |-> a.address,
                        timestamp |-> s[3 + a.len + 1],
                        password  |-> password]
<1>1. /\ s[1] = VISION_MAGIC_HEADER /\ s[2] = VISION_VERSION
      /\ s[3] \in CommandBytes
      /\ a.is = "Ok"
      /\ ~(Len(s) < end) /\ ~(Len(s) < hashAt)
      /\ ~(now < 0) /\ ~Expired(now, s[3 + a.len + 1])
      /\ IntegrityOk(request, SubSeq(s, hashAt + 1, end))
      /\ ReadRequest(s, now) = [is |-> "Ok", request |-> request]
  BY ReadAddressOutcome DEF ReadRequest, Eof, Bad
<1>2. /\ a.len \in Nat /\ AddressLenKnown(s, 3)
      /\ a = [is |-> "Ok", address |-> AddressAt(s, 3), len |-> AddressLen(s, 3)]
  BY <1>1, ReadAddressLen
<1> HIDE DEF a, password, request
<1>3. 3 + a.len + 1 \in 1 .. Len(s) /\ end <= Len(s)
  <2>1. PICK l \in Nat, n \in Nat : l = Len(s) /\ n = a.len
    BY <1>2, LenProperties
  <2>2. PASSWORD_HEX_LEN \in Nat /\ VISION_HASH_LEN \in Nat
    BY LengthsAssumption, VisionAssumption
  <2>3. ~(l < 3 + n + 1 + PASSWORD_HEX_LEN)
        /\ ~(l < 3 + n + 1 + PASSWORD_HEX_LEN + VISION_HASH_LEN)
    BY <1>1, <2>1
  <2>4. 3 + n + 1 \in 1 .. l /\ 3 + n + 1 + PASSWORD_HEX_LEN + VISION_HASH_LEN <= l
    BY <2>2, <2>3
  <2> QED
    BY <2>1, <2>4
<1> QED
  BY <1>1, <1>2, <1>3 DEF a, password, request

\* A request that read_from returns was in the window of a clock past 1970.
LEMMA ReadRequestInWindow ==
  ASSUME NEW s \in Seq(Nat), NEW now \in Int, ReadRequest(s, now).is = "Ok"
  PROVE  /\ now \in Nat
         /\ ReadRequest(s, now).request.timestamp \in Nat
         /\ ~Expired(now, ReadRequest(s, now).request.timestamp)
<1> DEFINE ts == s[3 + ReadAddress(s, 3).len + 1]
<1>1. /\ now \in Nat /\ ~Expired(now, ts)
      /\ 3 + ReadAddress(s, 3).len + 1 \in 1 .. Len(s)
      /\ ReadRequest(s, now) =
           [is |-> "Ok", request |->
              [command   |-> Command(s[3]),
               address   |-> ReadAddress(s, 3).address,
               timestamp |-> ts,
               password  |-> SubSeq(s, 3 + ReadAddress(s, 3).len + 2,
                                    3 + ReadAddress(s, 3).len + 1 + PASSWORD_HEX_LEN)]]
  BY ReadRequestAccepts
<1>2. ts \in Nat
  BY <1>1, ElementOfSeq
<1> QED
  BY <1>1, <1>2

\* read_from has read all it wants, whatever it then says.
LEMMA ReadRequestEnds ==
  ASSUME NEW s, NEW now, ReadAddress(s, 3).is = "Ok",
         Len(s) \in Nat, Len(s) >= 3, ReadAddress(s, 3).len \in Nat,
         Len(s) >= 3 + ReadAddress(s, 3).len + 1 + PASSWORD_HEX_LEN + VISION_HASH_LEN
  PROVE  ReadRequest(s, now).is # "Eof"
<1>1. PICK l \in Nat, n \in Nat : l = Len(s) /\ n = ReadAddress(s, 3).len
  OBVIOUS
<1>2. PASSWORD_HEX_LEN \in Nat /\ VISION_HASH_LEN \in Nat
  BY LengthsAssumption, VisionAssumption
<1>3. /\ ~(l < 1) /\ ~(l < 2) /\ ~(l < 3)
      /\ ~(l < 3 + n + 1 + PASSWORD_HEX_LEN)
      /\ ~(l < 3 + n + 1 + PASSWORD_HEX_LEN + VISION_HASH_LEN)
  BY <1>1, <1>2, SMTT(60)
<1> QED
  BY <1>1, <1>3 DEF ReadRequest, Bad

\* What read_from waits for does not depend on the clock.
LEMMA ReadRequestWaits ==
  ASSUME NEW s, NEW now, NEW later, ReadRequest(s, now).is = "Eof"
  PROVE  ReadRequest(s, later).is = "Eof"
BY DEF ReadRequest, Eof, Bad

\* An answer of read_from stays when more bytes come: it looks at none of them.
LEMMA ReadRequestStable ==
  ASSUME NEW s \in Seq(Nat), NEW t \in Seq(Nat), Begins(s, t),
         NEW now \in Int, ReadRequest(s, now).is # "Eof"
  PROVE  ReadRequest(t, now) = ReadRequest(s, now)
<1>1. PICK l \in Nat, m \in Nat : l = Len(s) /\ m = Len(t) /\ l <= m
  BY LenProperties DEF Begins
<1>2. \A i \in 1 .. l : s[i] = t[i]
  BY <1>1 DEF Begins
<1>3. ~(l < 1) /\ ~(m < 1) /\ s[1] = t[1]
  <2>1. ~(l < 1)
    BY <1>1 DEF ReadRequest, Eof
  <2> QED
    BY <1>1, <1>2, <2>1
<1>4. CASE s[1] # VISION_MAGIC_HEADER
  BY <1>1, <1>3, <1>4 DEF ReadRequest
<1>5. CASE s[1] = VISION_MAGIC_HEADER
  <2>1. ~(l < 2) /\ ~(m < 2) /\ s[2] = t[2]
    <3>1. ~(l < 2)
      BY <1>1, <1>3, <1>5 DEF ReadRequest, Eof
    <3> QED
      BY <1>1, <1>2, <3>1
  <2>2. CASE s[2] # VISION_VERSION
    BY <1>1, <1>3, <1>5, <2>1, <2>2 DEF ReadRequest
  <2>3. CASE s[2] = VISION_VERSION
    <3>1. ~(l < 3) /\ ~(m < 3) /\ s[3] = t[3]
      <4>1. ~(l < 3)
        BY <1>1, <1>3, <1>5, <2>1, <2>3 DEF ReadRequest, Eof
      <4> QED
        BY <1>1, <1>2, <4>1
    <3>2. CASE s[3] \notin CommandBytes
      BY <1>1, <1>3, <1>5, <2>1, <2>3, <3>1, <3>2 DEF ReadRequest
    <3>3. CASE s[3] \in CommandBytes
      <4> DEFINE a == ReadAddress(s, 3)
      <4>1. a.is # "Eof"
        BY <1>1, <1>3, <1>5, <2>1, <2>3, <3>1, <3>3 DEF ReadRequest
      <4>2. ReadAddress(t, 3) = a
        BY <4>1, ReadAddressStable
      <4>3. CASE a.is # "Ok"
        BY <1>1, <1>3, <1>5, <2>1, <2>3, <3>1, <3>3, <4>2, <4>3, SMTT(60) DEF ReadRequest
      <4>4. CASE a.is = "Ok"
        <5>1. PICK n \in Nat : n = a.len
          BY <4>4, ReadAddressLen
        <5>2. PICK P \in Nat, V \in Nat : P = PASSWORD_HEX_LEN /\ V = VISION_HASH_LEN
          BY LengthsAssumption, VisionAssumption
        <5> DEFINE hashAt == 3 + n + 1 + P
                   end == hashAt + V
                   pw(u)  == SubSeq(u, 3 + n + 2, hashAt)
                   req(u) == [command |-> Command(u[3]), address |-> a.address,
                              timestamp |-> u[3 + n + 1], password |-> pw(u)]
                   rest(u) ==
                     IF Len(u) < hashAt THEN Eof
                     ELSE IF \E i \in 1 .. Len(pw(u)) : ~IsHexDigit(pw(u)[i])
                       THEN Bad("PasswordHash")
                     ELSE IF Len(u) < end THEN Eof
                     ELSE IF now < 0 THEN Bad("ClockBeforeEpoch")
                     ELSE IF Expired(now, req(u).timestamp) THEN Bad("Expired")
                     ELSE IF ~IntegrityOk(req(u), SubSeq(u, hashAt + 1, end))
                       THEN Bad("Integrity")
                     ELSE [is |-> "Ok", request |-> req(u)]
        <5>3. ReadRequest(s, now) = rest(s)
          BY <1>1, <1>3, <1>5, <2>1, <2>3, <3>1, <3>3, <4>4, <5>1, <5>2
          DEF ReadRequest
        <5>4. ReadRequest(t, now) = rest(t)
          BY <1>1, <1>3, <1>5, <2>1, <2>3, <3>1, <3>3, <4>2, <4>4, <5>1, <5>2, ZenonT(60)
          DEF ReadRequest
        <5> HIDE DEF a
        <5>5. ~(l < hashAt) /\ ~(m < hashAt) /\ hashAt \in Nat /\ end \in Nat
          <6>1. ~(l < hashAt)
            BY <1>1, <5>3 DEF Eof
          <6> QED
            BY <1>1, <6>1
        <5>6. pw(s) = pw(t) /\ s[3 + n + 1] = t[3 + n + 1]
          <6>1. 3 + n + 1 \in 1 .. l /\ hashAt <= l /\ 3 + n + 2 \in Nat \ {0}
            BY <5>5
          <6>2. s[3 + n + 1] = t[3 + n + 1]
            BY <1>2, <6>1
          <6>3. PICK i \in Nat \ {0}, j \in Nat : i = 3 + n + 2 /\ j = hashAt /\ j <= Len(s) /\ j \in Int
            BY <1>1, <5>5, <6>1
          <6>4. SubSeq(s, i, j) = SubSeq(t, i, j)
            BY <6>3, SubSeqAgrees
          <6> QED
            BY <6>2, <6>3, <6>4
        <5>7. req(s) = req(t)
          BY <3>1, <5>6
        <5>8. CASE \E i \in 1 .. Len(pw(s)) : ~IsHexDigit(pw(s)[i])
          <6>1. \E i \in 1 .. Len(pw(t)) : ~IsHexDigit(pw(t)[i])
            BY <5>6, <5>8
          <6> QED
            BY <1>1, <5>3, <5>4, <5>5, <5>8, <6>1
        <5>9. CASE ~\E i \in 1 .. Len(pw(s)) : ~IsHexDigit(pw(s)[i])
          <6>1. ~\E i \in 1 .. Len(pw(t)) : ~IsHexDigit(pw(t)[i])
            BY <5>6, <5>9
          <6> HIDE DEF pw, req
          <6>2. ~(l < end) /\ ~(m < end)
            <7>1. ~(l < end)
              BY <1>1, <5>3, <5>5, <5>9 DEF Eof
            <7> QED
              BY <1>1, <5>5, <7>1
          <6>3. SubSeq(s, hashAt + 1, end) = SubSeq(t, hashAt + 1, end)
            <7>1. hashAt + 1 \in Nat \ {0} /\ end \in Int /\ end <= l
              BY <5>5, <6>2
            <7> QED
              BY <1>1, <7>1, SubSeqAgrees
          <6> DEFINE x == SubSeq(s, hashAt + 1, end)
                     judge == IF now < 0 THEN Bad("ClockBeforeEpoch")
                              ELSE IF Expired(now, req(s).timestamp) THEN Bad("Expired")
                              ELSE IF ~IntegrityOk(req(s), x) THEN Bad("Integrity")
                              ELSE [is |-> "Ok", request |-> req(s)]
          <6>4. rest(s) = judge
            BY <1>1, <5>5, <5>9, <6>2
          <6>5. rest(t) = judge
            BY <1>1, <5>5, <5>7, <6>1, <6>2, <6>3
          <6> QED
            BY <5>3, <5>4, <6>4, <6>5
        <5> QED
          BY <5>8, <5>9
      <4> QED
        BY <4>3, <4>4
    <3> QED
      BY <3>2, <3>3
  <2> QED
    BY <2>2, <2>3
<1> QED
  BY <1>4, <1>5

\* The first n symbols of a stream.
LEMMA PrefixOfWire ==
  ASSUME NEW w \in Seq(Nat), NEW n \in 0 .. Len(w)
  PROVE  LET s == SubSeq(w, 1, n)
         IN  /\ s \in Seq(Nat) /\ Len(s) = n
             /\ \A i \in 1 .. n : s[i] = w[i]
             /\ Begins(s, w)
<1>1. PICK k \in Nat : k = 0 /\ n \in Nat /\ k + n <= Len(w)
  BY LenProperties
<1>2. LET s == SubSeq(w, k + 1, k + n)
      IN  s \in Seq(Nat) /\ Len(s) = n /\ Holds(w, k, s)
  BY <1>1, SliceHeld
<1>3. LET s == SubSeq(w, 1, n)
      IN  s \in Seq(Nat) /\ Len(s) = n /\ Holds(w, 0, s)
  BY <1>1, <1>2
<1> DEFINE s == SubSeq(w, 1, n)
<1> HIDE DEF s
<1>4. s \in Seq(Nat) /\ Len(s) = n /\ \A i \in 1 .. n : w[0 + i] = s[i]
  BY <1>3 DEF s, Holds
<1>5. \A i \in 1 .. n : s[i] = w[i]
  BY <1>1, <1>4
<1> QED
  BY <1>1, <1>4, <1>5 DEF s, Begins

\* What read_from has read, when the last symbol made it accept, is what the
\* client would send for the request it returns.
LEMMA RequestIsItsEncoding ==
  ASSUME NEW w \in Wires, NEW s \in Seq(Nat), NEW t \in Seq(Nat),
         Begins(s, w), Begins(t, s), Len(s) = Len(t) + 1, NEW now \in Int,
         ReadRequest(s, now).is = "Ok", ReadRequest(t, now).is = "Eof"
  PROVE  /\ s = EncodeRequest(ReadRequest(s, now).request)
         /\ IsVisionPacket(w)
<1> DEFINE a == ReadAddress(s, 3)
<1>1. PICK n \in Nat : n = Len(s) /\ n = Len(t) + 1 /\ n <= Len(w)
  BY LenProperties DEF Begins
<1>2. w \in Seq(Nat) /\ Len(w) \in Nat
  BY VisionAssumption, LenProperties
<1>3. /\ \A i \in 1 .. n : s[i] = w[i]
      /\ \A i \in 1 .. n - 1 : t[i] = s[i]
  BY <1>1, LenProperties DEF Begins
<1>6. PICK P \in Nat, V \in Nat : P = PASSWORD_HEX_LEN /\ V = VISION_HASH_LEN
  BY LengthsAssumption, VisionAssumption
<1> DEFINE password == SubSeq(s, 3 + a.len + 2, 3 + a.len + 1 + P)
           hash == SubSeq(s, 3 + a.len + 1 + P + 1, 3 + a.len + 1 + P + V)
           r == [command |-> Command(s[3]), address |-> a.address,
                 timestamp |-> s[3 + a.len + 1], password |-> password]
<1>4. /\ s[1] = VISION_MAGIC_HEADER /\ s[2] = VISION_VERSION
      /\ s[3] \in CommandBytes
      /\ a.is = "Ok" /\ a.len \in Nat /\ AddressLenKnown(s, 3)
      /\ a = [is |-> "Ok", address |-> AddressAt(s, 3), len |-> AddressLen(s, 3)]
      /\ 3 + a.len + 1 + P + V <= Len(s)
      /\ IntegrityOk(r, hash)
      /\ ReadRequest(s, now) = [is |-> "Ok", request |-> r]
  BY <1>6, ReadRequestAccepts
<1>5. a.len = AddressLen(s, 3) /\ a.len \in Nat /\ a.len >= 4
  <2>1. a.len = AddressLen(s, 3)
    BY <1>4
  <2> QED
    BY <1>4, <2>1, AddressLenNat
<1> HIDE DEF a, password, hash, r
<1>20. PICK k \in Nat : k = a.len
  BY <1>5
<1>21. k >= 4 /\ 3 + k + 1 + P + V <= n
  BY <1>1, <1>4, <1>5, <1>20
<1>7. 3 + k + 1 + P + V = n
  <2> SUFFICES ASSUME 3 + k + 1 + P + V # n PROVE FALSE
    OBVIOUS
  <2>1. 3 + k + 1 + P + V <= n - 1 /\ n - 1 >= 8
    BY <1>21
  <2>2. ReadAddress(t, 3).is # "Eof"
    <3>1. t[4] = s[4] /\ t[5] = s[5]
      <4>1. 4 \in 1 .. n - 1 /\ 5 \in 1 .. n - 1
        BY <2>1
      <4> QED
        BY <1>3, <4>1
    <3>2. AddressLenKnown(t, 3)
      <4>1. Len(t) > 3 + 1 /\ Len(t) > 3
        <5>1. Len(t) \in Nat
          BY LenProperties
        <5> QED
          BY <1>1, <2>1, <5>1, SMTT(60)
      <4>2. s[4] \in {TYPE_IPV4, TYPE_DOMAIN, TYPE_IPV6}
        <5>1. AddressLenKnown(s, 3)
          BY <1>4
        <5> QED
          BY <5>1 DEF AddressLenKnown
      <4> QED
        BY <3>1, <4>1, <4>2, SMTT(60) DEF AddressLenKnown
    <3>3. AddressLen(t, 3) = k
      BY <1>5, <1>20, <3>2, AddressLenAgrees
    <3>4. PICK m \in Nat : m = Len(t) /\ m = n - 1
      BY <1>1, LenProperties
    <3>5. ~(m < 3 + 1) /\ ~(m < 3 + 2) /\ ~(m < 3 + k - 2) /\ ~(m < 3 + k)
      BY <2>1, <3>4
    <3> QED
      BY <3>3, <3>4, <3>5 DEF ReadAddress, Bad
  <2>3. ReadAddress(t, 3) = a
    BY <2>2, ReadAddressStable DEF a
  <2>4. ReadRequest(t, now).is # "Eof"
    <3>1. PICK m \in Nat : m = Len(t) /\ m = n - 1
      BY <1>1, LenProperties
    <3>2. m >= 3 /\ m >= 3 + k + 1 + P + V
      BY <2>1, <3>1
    <3> QED
      BY <1>4, <1>6, <1>20, <2>3, <3>1, <3>2, ReadRequestEnds
  <2> QED
    BY <2>4
<1> DEFINE M == <<VISION_MAGIC_HEADER, VISION_VERSION, CommandAsU8(r.command)>>
           E == EncodeAddress(r.address)
           T == <<r.timestamp>>
<1>8. M \in Seq(Nat) /\ Len(M) = 3 /\ Holds(s, 0, M)
  <2>1. CommandAsU8(r.command) = s[3]
    BY <1>4 DEF r, CommandAsU8, Command, CommandBytes
  <2>2. PICK c \in Nat : c = s[3]
    BY <1>4 DEF CommandBytes
  <2>3. M = <<s[1], s[2], c>>
    BY <1>4, <2>1, <2>2
  <2>4. s[1] \in Nat /\ s[2] \in Nat
    BY <1>4 DEF VISION_MAGIC_HEADER, VISION_VERSION
  <2> HIDE DEF M
  <2>5. M \in Seq(Nat) /\ Len(M) = 3 /\ M[1] = s[1] /\ M[2] = s[2] /\ M[3] = s[3]
    BY <2>2, <2>3, <2>4
  <2>6. \A i \in 1 .. 3 : s[0 + i] = M[i]
    BY <2>5, SMTT(60)
  <2>7. 0 + 3 <= Len(s)
    BY <1>1, <1>7
  <2> QED
    BY <2>5, <2>6, <2>7 DEF Holds
<1>9. E \in Seq(Nat) /\ Len(E) = k /\ Holds(s, 3, E)
  <2>1. 3 + k \in 1 .. n /\ 3 + k <= n
    BY <1>7
  <2>2. s[3 + k] \in Byte
    <3>1. ReadAddress(w, 3) = a
      BY <1>2, <1>4, ReadAddressStable DEF a
    <3>2. 3 + k \in 1 .. Len(w) /\ w[3 + k] = s[3 + k]
      <4>1. 3 + k \in 1 .. Len(w)
        BY <1>1, <1>2, <2>1
      <4> QED
        BY <1>3, <2>1, <4>1
    <3>3. 3 + k # 3 + a.len + 1
      BY <1>20
    <3>4. \/ w[3 + k] \in Byte
          \/ LET addr == ReadAddress(w, 3)
             IN  addr.is = "Ok" /\ 3 + k = 3 + addr.len + 1
      BY <3>2, WireAssumption
    <3> QED
      BY <3>1, <3>2, <3>3, <3>4
  <2>3. E = EncodeAddress(AddressAt(s, 3)) /\ AddressLen(s, 3) = k
    BY <1>4, <1>5, <1>20 DEF r
  <2>4. 3 + k <= Len(s)
    BY <1>1, <2>1
  <2>5. PICK g \in Nat : /\ g = 3 /\ AddressLenKnown(s, g) /\ k = AddressLen(s, g)
                         /\ g + k <= Len(s) /\ s[g + k] \in Byte
                         /\ E = EncodeAddress(AddressAt(s, g))
    <3>1. AddressLenKnown(s, 3)
      BY <1>4
    <3> HIDE DEF E
    <3> QED
      BY <2>2, <2>3, <2>4, <3>1
  <2> HIDE DEF E
  <2> QED
    BY <2>5, AddressIsItsEncoding, SMTT(60)
<1>10. T \in Seq(Nat) /\ Len(T) = 1 /\ Holds(s, 3 + k, T)
  <2>1. PICK g \in Nat : g = 3 + k /\ g + 1 \in 1 .. n
    BY <1>7
  <2>2. PICK ts \in Nat : ts = s[g + 1]
    BY <1>1, <2>1, ElementOfSeq
  <2>3. T = <<ts>>
    BY <1>20, <2>1, <2>2 DEF r
  <2>4. Holds(s, g, <<ts>>)
    BY <1>1, <2>1, <2>2, HeldOne, SMTT(60)
  <2> QED
    BY <2>1, <2>2, <2>3, <2>4, HeldOne
<1>11. /\ r.password \in Seq(Nat) /\ Len(r.password) = P
       /\ Holds(s, 3 + k + 1, r.password)
  <2>1. PICK g \in Nat : g = 3 + k + 1 /\ g + P <= n
    BY <1>7
  <2>2. g + P <= Len(s)
    BY <1>1, <2>1
  <2>3. r.password = SubSeq(s, g + 1, g + P)
    <3>1. 3 + k + 2 = g + 1 /\ 3 + k + 1 + P = g + P
      BY <2>1
    <3>2. r.password = SubSeq(s, 3 + k + 2, 3 + k + 1 + P)
      BY <1>20 DEF r, password
    <3> QED
      BY <3>1, <3>2
  <2>4. LET x == SubSeq(s, g + 1, g + P)
        IN  x \in Seq(Nat) /\ Len(x) = P /\ Holds(s, g, x)
    BY <2>2, SliceHeld
  <2> QED
    BY <2>1, <2>3, <2>4
<1>12. /\ hash \in Seq(Nat) /\ Len(hash) = V
       /\ Holds(s, 3 + k + 1 + P, hash)
       /\ hash = Sha224(EncodeBase(r))
  <2>1. PICK g \in Nat : g = 3 + k + 1 + P /\ g + V <= n
    BY <1>7
  <2>2. g + V <= Len(s)
    BY <1>1, <2>1
  <2>3. hash = SubSeq(s, g + 1, g + V)
    BY <1>20, <2>1 DEF hash
  <2>4. LET x == SubSeq(s, g + 1, g + V)
        IN  x \in Seq(Nat) /\ Len(x) = V /\ Holds(s, g, x)
    BY <2>2, SliceHeld
  <2> QED
    BY <1>4, <2>1, <2>3, <2>4 DEF IntegrityOk
<1> DEFINE D == M \o E \o T \o r.password \o hash
<1>13. EncodeRequest(r) = D
  <2>1. EncodeRequest(r) = EncodeBase(r) \o hash
    BY <1>12 DEF EncodeRequest
  <2>2. EncodeBase(r) = M \o E \o T \o r.password
    BY DEF EncodeBase
  <2> QED
    BY <2>1, <2>2
<1> HIDE DEF M, E, T
<1>22. D \in Seq(Nat) /\ Len(D) = n /\ Holds(s, 0, D)
  <2>1. 3 + k + 1 + P + V = n
    BY <1>7
  <2>2. PICK g \in Nat, e \in Nat : g = 3 /\ e = 1
    OBVIOUS
  <2>3. /\ M \in Seq(Nat) /\ E \in Seq(Nat) /\ T \in Seq(Nat)
        /\ r.password \in Seq(Nat) /\ hash \in Seq(Nat)
        /\ Len(M) = g /\ Len(E) = k /\ Len(T) = e /\ Len(r.password) = P /\ Len(hash) = V
        /\ Holds(s, 0, M) /\ Holds(s, g, E) /\ Holds(s, g + k, T)
        /\ Holds(s, g + k + e, r.password) /\ Holds(s, g + k + e + P, hash)
    BY <1>8, <1>9, <1>10, <1>11, <1>12, <2>2
  <2>5. PICK y \in Seq(Nat) : y = r.password
    BY <2>3
  <2>6. /\ Len(y) = P /\ Holds(s, g + k + e, y)
        /\ D = M \o E \o T \o y \o hash
    BY <2>3, <2>5
  <2> HIDE DEF D
  <2>4. D \in Seq(Nat) /\ Len(D) = g + k + e + P + V /\ Holds(s, 0, D)
    <3> DEFINE X == M \o E \o T \o y \o hash
    <3>6. M \in Seq(Nat) /\ E \in Seq(Nat) /\ T \in Seq(Nat) /\ hash \in Seq(Nat)
      BY <2>3
    <3>1. X \in Seq(Nat)
      BY <3>6, HeldFive
    <3>2. Len(X) = Len(M) + Len(E) + Len(T) + Len(y) + Len(hash)
      BY <3>6, HeldFive
    <3>3. /\ Holds(s, 0, M) /\ Holds(s, Len(M), E) /\ Holds(s, Len(M) + Len(E), T)
          /\ Holds(s, Len(M) + Len(E) + Len(T), y)
          /\ Holds(s, Len(M) + Len(E) + Len(T) + Len(y), hash)
      BY <2>3, <2>6
    <3>4. Holds(s, 0, X)
      BY <3>3, <3>6, HeldFive
    <3> HIDE DEF X
    <3>5. D = X
      BY <2>6 DEF X
    <3> QED
      BY <2>3, <2>6, <3>1, <3>2, <3>4, <3>5
  <2> QED
    BY <2>1, <2>2, <2>4
<1> HIDE DEF D
<1>18. s = D
  <2>1. \A i \in 1 .. n : s[0 + i] = D[i]
    BY <1>22 DEF Holds
  <2>2. \A i \in 1 .. n : s[i] = D[i]
    BY <1>1, <2>1
  <2> QED
    BY <1>1, <1>22, <2>2, SeqEqual
<1>19. IsVisionPacket(w)
  <2>1. 1 \in 1 .. n /\ 2 \in 1 .. n /\ Len(w) >= 2
    BY <1>1, <1>2, <1>7, SMTT(60)
  <2> QED
    BY <1>3, <1>4, <2>1 DEF IsVisionPacket
<1> QED
  BY <1>4, <1>13, <1>18, <1>19

\* What new() returns, field by field.
LEMMA HonestFields ==
  ASSUME NEW r \in Honest
  PROVE  /\ r = [command |-> r.command, address |-> r.address,
                 timestamp |-> r.timestamp, password |-> r.password]
         /\ r.command \in {"Connect", "UdpAssociate"}
         /\ r.address \in Address /\ Encodable(r.address)
         /\ r.timestamp \in 0 .. 2 * I64_HALF - 1
         /\ r.password \in Seq(Nat) /\ Len(r.password) = PASSWORD_HEX_LEN
         /\ \A i \in 1 .. PASSWORD_HEX_LEN : IsHexDigit(r.password[i])
         /\ Sha224(EncodeBase(r)) \in Seq(Nat)
         /\ Len(Sha224(EncodeBase(r))) = VISION_HASH_LEN
<1>1. /\ r \in NewRequest
      /\ Sha224(EncodeBase(r)) \in Seq(Byte)
      /\ Len(Sha224(EncodeBase(r))) = VISION_HASH_LEN
  BY HonestAssumption
<1>2. r \in [command : {"Connect", "UdpAssociate"}, address : Address,
             timestamp : 0 .. 2 * I64_HALF - 1, password : Seq(Byte)]
  BY <1>1 DEF NewRequest
<1>3. /\ Encodable(r.address)
      /\ Len(r.password) = PASSWORD_HEX_LEN
      /\ \A i \in 1 .. PASSWORD_HEX_LEN : IsHexDigit(r.password[i])
  BY <1>1 DEF NewRequest
<1>4. /\ r = [command |-> r.command, address |-> r.address,
              timestamp |-> r.timestamp, password |-> r.password]
      /\ r.command \in {"Connect", "UdpAssociate"}
      /\ r.address \in Address
      /\ r.timestamp \in 0 .. 2 * I64_HALF - 1
      /\ r.password \in Seq(Byte)
  BY <1>2
<1> QED
  BY <1>1, <1>3, <1>4, ByteSeq

LEMMA EncodedAddressSeq ==
  ASSUME NEW a \in Address
  PROVE  EncodeAddress(a) \in Seq(Nat)
<1>1. a \in [type : {TYPE_IPV4, TYPE_DOMAIN, TYPE_IPV6}, host : Seq(Byte), port : U16]
  BY DEF Address
<1>2. /\ a.type \in {TYPE_IPV4, TYPE_DOMAIN, TYPE_IPV6}
      /\ a.host \in Seq(Byte)
      /\ a.port \in U16
  BY <1>1
<1>3. a.type \in Nat
  BY <1>2 DEF TYPE_IPV4, TYPE_DOMAIN, TYPE_IPV6
<1>4. U16 \subseteq Nat
  BY SMT DEF U16
<1>5. a.host \in Seq(Nat) /\ a.port \in Nat
  BY <1>2, <1>4, ByteSeq
<1> QED
  BY <1>3, <1>5, EncodedAddress

\* What a stream that opens with s holds.
LEMMA OpensHolds ==
  ASSUME NEW w \in Seq(Nat), NEW s \in Seq(Nat), Opens(w, s)
  PROVE  Holds(w, 0, s)
<1>1. PICK n \in Nat : n = Len(s) /\ n \in 0 .. Len(w)
  <2>1. Len(s) <= Len(w)
    BY DEF Opens
  <2>2. Len(s) \in Nat /\ Len(w) \in Nat
    BY LenProperties
  <2> HIDE DEF Opens
  <2> QED
    BY <2>1, <2>2
<1>2. s = SubSeq(w, 1, n)
  BY <1>1 DEF Opens
<1>3. \A i \in 1 .. n : s[i] = w[i]
  BY <1>1, <1>2, PrefixOfWire
<1> HIDE DEF Opens
<1>4. \A i \in 1 .. n : w[0 + i] = s[i]
  BY <1>1, <1>3
<1>5. 0 + Len(s) <= Len(w)
  BY <1>1, LenProperties
<1> QED
  BY <1>1, <1>4, <1>5 DEF Holds

\* Where the parts of a request stand in a stream that opens with its encoding.
LEMMA HonestParts ==
  ASSUME NEW w \in Seq(Nat), NEW r \in Honest, Opens(w, EncodeRequest(r)),
         NEW k, k = Len(EncodeAddress(r.address))
  PROVE  LET P == PASSWORD_HEX_LEN  V == VISION_HASH_LEN
         IN  /\ k \in Nat
             /\ w[1] = VISION_MAGIC_HEADER /\ w[2] = VISION_VERSION
             /\ w[3] = CommandAsU8(r.command)
             /\ ReadAddress(w, 3) = [is |-> "Ok", address |-> r.address, len |-> k]
             /\ w[3 + k + 1] = r.timestamp
             /\ 3 + k + 1 + P + V <= Len(w)
             /\ SubSeq(w, 3 + k + 2, 3 + k + 1 + P) = r.password
             /\ SubSeq(w, 3 + k + 1 + P + 1, 3 + k + 1 + P + V) = Sha224(EncodeBase(r))
<1>1. PICK P \in Nat, V \in Nat : P = PASSWORD_HEX_LEN /\ V = VISION_HASH_LEN
  BY LengthsAssumption, VisionAssumption
<1>2. PICK c \in Nat, a \in Address, ts \in Nat, y \in Seq(Nat), h \in Seq(Nat) :
        /\ c = CommandAsU8(r.command) /\ a = r.address /\ ts = r.timestamp
        /\ y = r.password /\ Len(y) = P
        /\ h = Sha224(EncodeBase(r)) /\ Len(h) = V
  <2>1. CommandAsU8(r.command) \in Nat
    BY DEF CommandAsU8
  <2>2. r.timestamp \in Nat
    BY HonestFields
  <2>3. /\ r.address \in Address
        /\ r.password \in Seq(Nat) /\ Len(r.password) = P
        /\ Sha224(EncodeBase(r)) \in Seq(Nat) /\ Len(Sha224(EncodeBase(r))) = V
    BY <1>1, HonestFields
  <2> QED
    BY <2>1, <2>2, <2>3, Zenon
<1> DEFINE M == <<VISION_MAGIC_HEADER, VISION_VERSION, c>>
           E == EncodeAddress(a)
           T == <<ts>>
           X == M \o E \o T \o y \o h
<1>3. X = EncodeRequest(r)
  <2>1. EncodeBase(r) = M \o E \o T \o y
    BY <1>2 DEF EncodeBase
  <2> QED
    BY <1>2, <2>1 DEF EncodeRequest
<1>4. E \in Seq(Nat) /\ Len(E) = k /\ k \in Nat
  BY <1>2, EncodedAddressSeq, LenProperties
<1>5. /\ M \in Seq(Nat) /\ Len(M) = 3
      /\ M[1] = VISION_MAGIC_HEADER /\ M[2] = VISION_VERSION /\ M[3] = c
  BY DEF VISION_MAGIC_HEADER, VISION_VERSION
<1>6. T \in Seq(Nat) /\ Len(T) = 1 /\ T[1] = ts
  OBVIOUS
<1> HIDE DEF M, E, T
<1>7. X \in Seq(Nat)
  BY <1>4, <1>5, <1>6, HeldFive
<1> HIDE DEF X
<1>8. Holds(w, 0, X)
  BY <1>3, <1>7, OpensHolds
<1>9. /\ Holds(w, 0, M) /\ Holds(w, Len(M), E) /\ Holds(w, Len(M) + Len(E), T)
      /\ Holds(w, Len(M) + Len(E) + Len(T), y)
      /\ Holds(w, Len(M) + Len(E) + Len(T) + Len(y), h)
  <2>1. M \in Seq(Nat) /\ E \in Seq(Nat) /\ T \in Seq(Nat)
    BY <1>4, <1>5, <1>6
  <2> QED
    BY <1>8, <2>1, HeldFive, SMTT(60) DEF X
<1>10. w[1] = VISION_MAGIC_HEADER /\ w[2] = VISION_VERSION /\ w[3] = c
  <2>1. \A i \in 1 .. 3 : w[0 + i] = M[i]
    BY <1>5, <1>9 DEF Holds
  <2>2. w[1] = M[1] /\ w[2] = M[2] /\ w[3] = M[3]
    BY <2>1
  <2> QED
    BY <1>5, <2>2
<1>11. ReadAddress(w, 3) = [is |-> "Ok", address |-> a, len |-> k]
  <2>1. PICK g \in Nat : g = 3 /\ Holds(w, g, EncodeAddress(a))
    BY <1>5, <1>9 DEF E
  <2>3. Holds(w, g, EncodeAddress(a))
    BY <2>1
  <2>2. ReadAddress(w, g) = [is |-> "Ok", address |-> a, len |-> Len(EncodeAddress(a))]
    BY <2>3, DecodedAddress, Zenon
  <2> QED
    BY <1>4, <2>1, <2>2 DEF E
<1>12. PICK g \in Nat : g = 3 + k /\ Holds(w, g, T)
  BY <1>4, <1>5, <1>9
<1>13. w[g + 1] = ts
  BY <1>6, <1>12 DEF Holds
<1>14. PICK e \in Nat : e = g + 1 /\ Holds(w, e, y)
  BY <1>4, <1>5, <1>6, <1>9, <1>12
<1>15. SubSeq(w, e + 1, e + P) = y
  BY <1>2, <1>14, HeldSlice
<1>16. PICK f \in Nat : f = e + P /\ Holds(w, f, h)
  <2>1. Len(M) + Len(E) + Len(T) + Len(y) = g + 1 + P
    BY <1>2, <1>4, <1>5, <1>6, <1>12
  <2>2. Holds(w, g + 1 + P, h)
    BY <1>9, <2>1
  <2> QED
    BY <1>14, <2>2
<1>17. SubSeq(w, f + 1, f + V) = h
  BY <1>2, <1>16, HeldSlice
<1>18. f + V <= Len(w)
  BY <1>2, <1>16 DEF Holds
<1>19. /\ 3 + k + 1 = g + 1 /\ 3 + k + 2 = e + 1 /\ 3 + k + 1 + P = e + P
       /\ 3 + k + 1 + P + 1 = f + 1 /\ 3 + k + 1 + P + V = f + V
  BY <1>4, <1>12, <1>14, <1>16
<1> QED
  BY <1>1, <1>2, <1>4, <1>10, <1>11, <1>13, <1>15, <1>17, <1>18, <1>19

\* A client's own request is read back and fails no check but those of the
\* clock.
LEMMA HonestIsRead ==
  ASSUME NEW w \in Seq(Nat), NEW r \in Honest, Opens(w, EncodeRequest(r)),
         NEW now \in Int
  PROVE  ReadRequest(w, now) =
           IF now < 0 THEN Bad("ClockBeforeEpoch")
           ELSE IF Expired(now, r.timestamp) THEN Bad("Expired")
           ELSE [is |-> "Ok", request |-> r]
<1> DEFINE k == Len(EncodeAddress(r.address))
           h == Sha224(EncodeBase(r))
<1>1. PICK P \in Nat, V \in Nat : P = PASSWORD_HEX_LEN /\ V = VISION_HASH_LEN
  BY LengthsAssumption, VisionAssumption
<1>2. /\ k \in Nat
      /\ w[1] = VISION_MAGIC_HEADER /\ w[2] = VISION_VERSION
      /\ w[3] = CommandAsU8(r.command)
      /\ ReadAddress(w, 3) = [is |-> "Ok", address |-> r.address, len |-> k]
      /\ w[3 + k + 1] = r.timestamp
      /\ 3 + k + 1 + P + V <= Len(w)
      /\ SubSeq(w, 3 + k + 2, 3 + k + 1 + P) = r.password
      /\ SubSeq(w, 3 + k + 1 + P + 1, 3 + k + 1 + P + V) = h
  BY <1>1, HonestParts
<1> HIDE DEF k, h
<1>3. /\ w[3] \in CommandBytes /\ Command(w[3]) = r.command
  <2>1. w[3] = CommandAsU8(r.command) /\ r.command \in {"Connect", "UdpAssociate"}
    BY <1>2, HonestFields
  <2> QED
    BY <2>1 DEF CommandAsU8, CommandBytes, Command
<1>4. PICK l \in Nat : l = Len(w) /\ 3 + k + 1 + P + V <= l
  BY <1>2, LenProperties
<1>5. ~(l < 1) /\ ~(l < 2) /\ ~(l < 3) /\ ~(l < 3 + k + 1 + P)
      /\ ~(l < 3 + k + 1 + P + V)
  <2>1. PICK n \in Nat : n = k
    BY <1>2
  <2>2. 3 + n + 1 + P + V <= l
    BY <1>4, <2>1
  <2>3. /\ ~(l < 1) /\ ~(l < 2) /\ ~(l < 3) /\ ~(l < 3 + n + 1 + P)
        /\ ~(l < 3 + n + 1 + P + V)
    BY <2>2
  <2> QED
    BY <2>1, <2>3
<1>6. ~\E i \in 1 .. Len(r.password) : ~IsHexDigit(r.password[i])
  BY HonestFields
<1>7. [command |-> Command(w[3]), address |-> r.address,
       timestamp |-> w[3 + k + 1], password |-> r.password] = r
  BY <1>2, <1>3, HonestFields
<1>8. IntegrityOk(r, h)
  BY HonestFields DEF IntegrityOk, h
<1>9. ReadAddress(w, 3).is = "Ok" /\ ReadAddress(w, 3).address = r.address
      /\ ReadAddress(w, 3).len = k
  <2>1. ReadAddress(w, 3) = [is |-> "Ok", address |-> r.address, len |-> k]
    BY <1>2
  <2> QED
    BY <2>1
<1> QED
  BY <1>1, <1>2, <1>3, <1>4, <1>5, <1>6, <1>7, <1>8, <1>9 DEF ReadRequest

-----------------------------------------------------------------------------
(* The machine.                                                            *)

\* What one read, end or timeout of authenticate does to auth.
LEMMA AuthStep ==
  ASSUME auth = [is |-> "Reading"], ReadByte \/ ReadEof \/ AuthTimeout
  PROVE  auth' = auth \/ auth'.is \in {"Bad", "Ok"}
<1>1. CASE ReadByte
  <2> DEFINE v == CheckPassword(ReadRequest(SubSeq(wire.bytes, 1, at + 1), clock))
  <2>1. v.is \in {"Eof", "Bad", "Ok"}
    BY ReadRequestOutcome, CheckPasswordOutcome
  <2> HIDE DEF v
  <2>2. IF v.is = "Eof" THEN auth' = auth ELSE auth' = [is |-> v.is, now |-> clock, v |-> v]
    BY <1>1 DEF ReadByte, Settle, v
  <2> QED
    BY <2>1, <2>2
<1>2. CASE ReadEof \/ AuthTimeout
  BY <1>2 DEF ReadEof, AuthTimeout, Settle, Bad
<1> QED
  BY <1>1, <1>2

LEMMA MachineInit == Init => MachineInv
BY DEF Init, AuthInit, NewMachine, MachineInv, Fresh, None, States

\* A reading authentication moves on: it reads, ends or is timed out.
LEMMA MachineAuth ==
  ASSUME MachineInv, AuthReads \/ AuthTimesOut
  PROVE  MachineInv'
<1>1. /\ caller = "Authenticating" /\ auth = [is |-> "Reading"] /\ Fresh
      /\ auth' = auth \/ auth'.is \in {"Bad", "Ok"}
  <2>1. caller = "Authenticating"
    BY DEF AuthReads, AuthTimesOut, AuthReturns
  <2>2. auth = [is |-> "Reading"] /\ Fresh
    BY <2>1 DEF MachineInv
  <2> QED
    BY <2>1, <2>2, AuthStep DEF AuthReads, AuthTimesOut
<1>2. CASE auth' = auth
  BY <1>1, <1>2 DEF AuthReads, AuthTimesOut, AuthReturns, MachineInv, Fresh
<1>3. CASE auth'.is = "Bad"
  <2>1. caller' = "Returned" /\ owner' = "dropped"
    BY <1>3 DEF AuthReads, AuthTimesOut, AuthReturns, AuthErr, ReturnErr
  <2>2. machine' = [machine EXCEPT
                      !.state = IF machine.fallback_address = None
                                  THEN "Closed" ELSE "Fallback"]
    BY <1>3 DEF AuthReads, AuthTimesOut, AuthReturns, AuthErr, Refused
  <2>3. machine' = [state |-> machine'.state, auth_result |-> machine'.auth_result,
                    fallback_address |-> machine'.fallback_address]
    BY <2>2 DEF MachineInv
  <2>4. machine'.state \in States
    <3>1. machine'.state = IF machine.fallback_address = None THEN "Closed" ELSE "Fallback"
      BY <2>2 DEF MachineInv
    <3> QED
      BY <3>1 DEF States
  <2> QED
    BY <1>1, <1>3, <2>1, <2>3, <2>4 DEF MachineInv
<1>4. CASE auth'.is = "Ok"
  <2> DEFINE r == [command |-> auth'.v.request.command,
                   address |-> auth'.v.request.address]
  <2>1. /\ caller' = "Ready" /\ owner' = "machine"
        /\ machine' = [machine EXCEPT !.state = "Authenticated", !.auth_result = Some(r)]
    BY <1>4 DEF AuthReads, AuthTimesOut, AuthReturns, AuthOk
  <2>2. machine' = [state |-> "Authenticated", auth_result |-> Some(r),
                    fallback_address |-> machine.fallback_address]
    BY <2>1 DEF MachineInv
  <2>3. Accepting'
    BY <1>4, <2>2 DEF Accepting, Some, None
  <2> QED
    BY <1>1, <1>4, <2>1, <2>2, <2>3 DEF MachineInv, States
<1> QED
  BY <1>1, <1>2, <1>3, <1>4

LEMMA MachineStep == MachineInv /\ [Next]_vars => MachineInv'
<1> SUFFICES ASSUME MachineInv, [Next]_vars
             PROVE  MachineInv'
  OBVIOUS
<1> USE DEF MachineInv, Fresh, Accepting, avars
<1>1. CASE AcceptTls
  BY <1>1 DEF AcceptTls
<1>2. CASE AcceptTlsFails
  BY <1>2 DEF AcceptTlsFails, ReturnErr
<1>3. CASE SetFallback
  <2>1. machine' = [state |-> machine.state, auth_result |-> machine.auth_result,
                    fallback_address |-> Some(FallbackAddress)]
    BY <1>3 DEF SetFallback
  <2> QED
    BY <1>3, <2>1 DEF SetFallback
<1>4. CASE TransitionToAuthenticating
  BY <1>4 DEF TransitionToAuthenticating, StartAuth
<1>5. CASE WrongAuthenticating
  BY <1>5 DEF WrongAuthenticating, ReturnErr
<1>6. CASE WrongForwarding
  BY <1>6 DEF WrongForwarding, ReturnErr
<1>7. CASE AuthReads \/ AuthTimesOut
  BY <1>7, MachineAuth
<1>8. CASE TransitionToForwarding
  BY <1>8 DEF TransitionToForwarding
<1>9. CASE HandleAuthenticatedConnection
  BY <1>9 DEF HandleAuthenticatedConnection, ReturnErr
<1>10. CASE DialOk
  BY <1>10 DEF DialOk
<1>11. CASE DialFails
  BY <1>11 DEF DialFails, ReturnErr
<1>12. CASE SpliceEnds
  BY <1>12 DEF SpliceEnds
<1>13. CASE ClockMoves /\ UNCHANGED mvars
  BY <1>13 DEF ClockMoves, mvars
<1>14. CASE IntoStream
  BY <1>14 DEF IntoStream
<1>15. CASE UNCHANGED vars
  BY <1>15 DEF vars, mvars
<1> QED
  BY <1>1, <1>2, <1>3, <1>4, <1>5, <1>6, <1>7, <1>8, <1>9, <1>10, <1>11, <1>12,
     <1>13, <1>14, <1>15
  DEF Next

(***************************************************************************)
(* A machine its caller still has is in state Handshake or Authenticated,  *)
(* and has a result exactly in the second, after an authentication that    *)
(* accepted: whatever order the methods are called in.                     *)
(***************************************************************************)
THEOREM MachineIsCoherent == Spec => []HeldMachineIsCoherent
<1>1. MachineInv => HeldMachineIsCoherent
  BY DEF MachineInv, Fresh, Accepting, HeldMachineIsCoherent, Accepted
<1> QED
  BY MachineInit, MachineStep, <1>1, PTL DEF Spec

-----------------------------------------------------------------------------
(* The window.                                                             *)

\* The subtraction of two numbers that an i64 holds does not wrap.
LEMMA WindowOfI64 ==
  ASSUME NEW now \in Nat, now < I64_HALF, NEW ts \in Nat, ts < I64_HALF,
         ~Expired(now, ts)
  PROVE  Distance(now, ts) <= MAX_SKEW
<1>1. I64_HALF \in Nat /\ MAX_SKEW \in Nat /\ MAX_SKEW < I64_HALF
  BY VisionAssumption
<1>2. AsI64(now) = now /\ AsI64(ts) = ts
  BY DEF AsI64
<1> QED
  BY <1>1, <1>2 DEF Expired, Wrap, Abs, Distance

-----------------------------------------------------------------------------
(* What was read.                                                          *)

LEMMA EmptyWaits ==
  ASSUME NEW w \in Seq(Nat), NEW now
  PROVE  ReadRequest(SubSeq(w, 1, 0), now).is = "Eof"
<1>1. PICK n \in 0 .. Len(w) : n = 0
  BY LenProperties
<1>2. Len(SubSeq(w, 1, n)) = n
  BY PrefixOfWire
<1>3. Len(SubSeq(w, 1, 0)) < 1
  BY <1>1, <1>2
<1> QED
  BY <1>3 DEF ReadRequest, Eof

\* What is near in time is not expired: the subtraction does not wrap, or wraps
\* twice.
LEMMA NearIsNotExpired ==
  ASSUME NEW now \in Nat, now < I64_HALF, NEW ts \in 0 .. 2 * I64_HALF - 1,
         Distance(now, ts) <= MAX_SKEW
  PROVE  ~Expired(now, ts)
<1>1. I64_HALF \in Nat /\ MAX_SKEW \in Nat /\ MAX_SKEW < I64_HALF
  BY VisionAssumption
<1>2. AsI64(now) = now
  BY DEF AsI64
<1>3. now - ts <= MAX_SKEW /\ ts - now <= MAX_SKEW
  BY <1>1 DEF Distance
<1>4. Wrap(now - AsI64(ts)) = now - ts
  BY <1>1, <1>3 DEF Wrap, AsI64
<1>5. Abs(now - ts) <= MAX_SKEW
  BY <1>1, <1>3 DEF Abs, Wrap
<1> QED
  BY <1>1, <1>2, <1>4, <1>5 DEF Expired, Abs, Wrap

LEMMA ReadInit == Init => ReadInv
BY VisionAssumption, LenProperties DEF Init, AuthInit, ReadInv, Judged

LEMMA ReadStart ==
  ASSUME ReadInv, StartAuth
  PROVE  ReadInv'
<1>1. at = 0 /\ auth' = [is |-> "Reading"] /\ UNCHANGED <<wire, at, clock>>
  BY DEF StartAuth, ReadInv
<1>2. wire.bytes \in Seq(Nat)
  BY VisionAssumption DEF ReadInv
<1>3. Waits(at)
  BY <1>1, <1>2, EmptyWaits DEF Waits
<1>4. Waits(at)'
  BY <1>1, <1>3 DEF Waits
<1> QED
  BY <1>1, <1>4 DEF ReadInv, Judged

LEMMA ReadRead ==
  ASSUME ReadInv, ReadByte
  PROVE  ReadInv'
<1> DEFINE q == ReadRequest(SubSeq(wire.bytes, 1, at + 1), clock)
           v == CheckPassword(q)
<1>1. /\ clock' = clock /\ wire' = wire /\ at' = at + 1
      /\ at < Len(wire.bytes)
      /\ IF v.is = "Eof" THEN auth' = auth ELSE auth' = [is |-> v.is, now |-> clock, v |-> v]
      /\ auth.is = "Reading"
  BY DEF ReadByte, Settle
<1>2. at' \in 0 .. Len(wire'.bytes) /\ at' > 0 /\ at' - 1 = at
  BY <1>1, LenProperties DEF ReadInv
<1>3. q.is \in {"Eof", "Bad", "Ok"} /\ v.is \in {"Eof", "Bad", "Ok"}
  BY ReadRequestOutcome, CheckPasswordOutcome
<1>4. v.is = "Eof" => q.is = "Eof"
  BY DEF CheckPassword, Bad
<1>5. Waits(at)
  BY <1>1 DEF ReadInv
<1>6. CASE v.is = "Eof"
  <2>1. Waits(at + 1)
    BY <1>4, <1>6, ReadRequestWaits DEF Waits
  <2>2. Waits(at)'
    BY <1>1, <2>1 DEF Waits
  <2>3. auth' = auth
    BY <1>1, <1>6
  <2> HIDE DEF q, v
  <2> QED
    BY <1>1, <1>2, <2>2, <2>3 DEF ReadInv, Judged
<1>7. CASE v.is # "Eof"
  <2>1. auth' = [is |-> v.is, now |-> clock, v |-> v]
    BY <1>1, <1>7
  <2>2. /\ auth'.v = v /\ auth'.now = clock /\ auth'.is = v.is
        /\ v = CheckPassword(ReadRequest(SubSeq(wire'.bytes, 1, at'), auth'.now))
    BY <1>1, <2>1
  <2>3. Waits(at - 1)'
    BY <1>1, <1>2, <1>5 DEF Waits
  <2> HIDE DEF q, v
  <2>4. auth'.is \in {"Bad", "Ok"}
    BY <1>3, <1>7, <2>2
  <2> QED
    BY <1>1, <1>2, <2>2, <2>3, <2>4 DEF ReadInv
<1> QED
  BY <1>6, <1>7

LEMMA ReadStep == ReadInv /\ [Next]_vars => ReadInv'
<1> SUFFICES ASSUME ReadInv, [Next]_vars
             PROVE  ReadInv'
  OBVIOUS
<1>1. CASE ReadByte
  BY <1>1, ReadRead
<1>2. CASE ReadEof \/ AuthTimeout
  <2>1. /\ auth'.is = "Bad" /\ auth'.v.error \in {"Eof", "Timeout"}
        /\ UNCHANGED <<wire, at, clock>>
    BY <1>2 DEF ReadEof, AuthTimeout, Settle, Bad
  <2>2. ~Judged'
    BY <2>1 DEF Judged
  <2> QED
    BY <2>1, <2>2 DEF ReadInv
<1>3. CASE StartAuth
  BY <1>3, ReadStart
<1>4. CASE ClockMoves
  BY <1>4 DEF ClockMoves, ReadInv, Waits, Judged
<1>5. CASE UNCHANGED avars
  BY <1>5 DEF avars, ReadInv, Waits, Judged
<1> QED
  BY <1>1, <1>2, <1>3, <1>4, <1>5
  DEF Next, vars, AcceptTls, AcceptTlsFails, SetFallback, IntoStream,
      TransitionToAuthenticating,
      WrongAuthenticating, AuthReads, AuthTimesOut, TransitionToForwarding,
      WrongForwarding, HandleAuthenticatedConnection, DialOk, DialFails, SpliceEnds

\* What was read of the stream when there is an answer, and before its last
\* symbol.
LEMMA JudgedRead ==
  ASSUME ReadInv, Judged
  PROVE  LET w == wire.bytes
             s == SubSeq(w, 1, at)
             t == SubSeq(w, 1, at - 1)
         IN  /\ w \in Wires /\ s \in Seq(Nat) /\ t \in Seq(Nat)
             /\ Begins(s, w) /\ Begins(t, s) /\ Len(s) = Len(t) + 1
             /\ auth.now \in Int /\ auth.now < I64_HALF
             /\ ReadRequest(t, auth.now).is = "Eof"
             /\ auth.v = CheckPassword(ReadRequest(s, auth.now))
<1> DEFINE w == wire.bytes
           s == SubSeq(w, 1, at)
           t == SubSeq(w, 1, at - 1)
<1>1. w \in Wires /\ w \in Seq(Nat)
  BY VisionAssumption DEF ReadInv
<1>2. at \in 0 .. Len(w) /\ at - 1 \in 0 .. Len(w)
  BY <1>1, LenProperties DEF ReadInv
<1>3. auth.now \in Clocks /\ auth.now \in Int /\ auth.now < I64_HALF
  BY VisionAssumption DEF ReadInv
<1>4. /\ ReadRequest(t, auth.now).is = "Eof"
      /\ auth.v = CheckPassword(ReadRequest(s, auth.now))
  BY <1>3 DEF ReadInv, Waits
<1>5. s \in Seq(Nat) /\ Len(s) = at /\ Begins(s, w) /\ \A i \in 1 .. at : s[i] = w[i]
  BY <1>1, <1>2, PrefixOfWire
<1>6. t \in Seq(Nat) /\ Len(t) = at - 1 /\ \A i \in 1 .. at - 1 : t[i] = w[i]
  BY <1>1, <1>2, PrefixOfWire
<1> HIDE DEF w, s, t
<1>7. Begins(t, s) /\ Len(s) = Len(t) + 1
  BY <1>2, <1>5, <1>6, SMTT(60) DEF Begins
<1> QED
  BY <1>1, <1>3, <1>4, <1>5, <1>6, <1>7 DEF w, s, t

LEMMA ExactRead == ReadInv => AcceptedIsExact
<1> SUFFICES ASSUME ReadInv, Accepted
             PROVE  /\ SubSeq(wire.bytes, 1, at) = EncodeRequest(auth.v.request)
                    /\ IsVisionPacket(wire.bytes)
                    /\ VerifyPassword(auth.v.request, Passwords)
  BY DEF AcceptedIsExact
<1> DEFINE w == wire.bytes
           s == SubSeq(w, 1, at)
           t == SubSeq(w, 1, at - 1)
           q == ReadRequest(s, auth.now)
<1>1. Judged /\ auth.v.is = "Ok"
  <2>1. Judged /\ auth.is = "Ok"
    BY DEF Judged, Accepted
  <2> QED
    BY <2>1 DEF ReadInv
<1>2. /\ w \in Wires /\ s \in Seq(Nat) /\ t \in Seq(Nat)
      /\ Begins(s, w) /\ Begins(t, s) /\ Len(s) = Len(t) + 1
      /\ auth.now \in Int
      /\ ReadRequest(t, auth.now).is = "Eof"
      /\ auth.v = CheckPassword(q)
  BY <1>1, JudgedRead
<1>3. q.is = "Ok" /\ auth.v = q /\ VerifyPassword(q.request, Passwords)
  BY <1>1, <1>2 DEF CheckPassword, Bad
<1>4. s = EncodeRequest(q.request) /\ IsVisionPacket(w)
  BY <1>2, <1>3, RequestIsItsEncoding, ZenonT(60)
<1> HIDE DEF q
<1> QED
  BY <1>3, <1>4

LEMMA RecentRead == ReadInv => AcceptedIsRecent
<1> SUFFICES ASSUME ReadInv, Accepted, auth.v.request.timestamp < I64_HALF
             PROVE  Distance(auth.now, auth.v.request.timestamp) <= MAX_SKEW
  BY DEF AcceptedIsRecent
<1> DEFINE s == SubSeq(wire.bytes, 1, at)
           q == ReadRequest(s, auth.now)
<1>1. Judged /\ auth.v.is = "Ok"
  <2>1. Judged /\ auth.is = "Ok"
    BY DEF Judged, Accepted
  <2> QED
    BY <2>1 DEF ReadInv
<1>2. /\ s \in Seq(Nat) /\ auth.now \in Int /\ auth.now < I64_HALF
      /\ auth.v = CheckPassword(q)
  BY <1>1, JudgedRead
<1>3. q.is = "Ok" /\ auth.v = q
  BY <1>1, <1>2 DEF CheckPassword, Bad
<1>4. /\ auth.now \in Nat /\ q.request.timestamp \in Nat
      /\ ~Expired(auth.now, q.request.timestamp)
  BY <1>2, <1>3, ReadRequestInWindow
<1> HIDE DEF q
<1> QED
  BY <1>2, <1>3, <1>4, WindowOfI64

LEMMA HonestRead == ReadInv => HonestIsAccepted
<1> SUFFICES ASSUME ReadInv, auth.is = "Bad", auth.v.error \notin {"Eof", "Timeout"},
                    NEW r \in Honest, VerifyPassword(r, Passwords),
                    Opens(wire.bytes, EncodeRequest(r)),
                    ~(auth.now < 0), ~(Distance(auth.now, r.timestamp) > MAX_SKEW)
             PROVE  FALSE
  BY DEF HonestIsAccepted
<1> DEFINE w == wire.bytes
           s == SubSeq(w, 1, at)
           q == ReadRequest(s, auth.now)
<1>1. Judged /\ auth.v.is = "Bad"
  BY DEF Judged, ReadInv
<1>2. /\ w \in Seq(Nat) /\ s \in Seq(Nat) /\ Begins(s, w)
      /\ auth.now \in Int /\ auth.now < I64_HALF
      /\ auth.v = CheckPassword(q)
  BY <1>1, JudgedRead, VisionAssumption
<1>3. q.is # "Eof"
  BY <1>1, <1>2 DEF CheckPassword
<1>4. ReadRequest(w, auth.now) = q
  BY <1>2, <1>3, ReadRequestStable
<1>5. ~Expired(auth.now, r.timestamp)
  <2>1. r.timestamp \in 0 .. 2 * I64_HALF - 1
    BY HonestFields
  <2>2. PICK now \in Nat, ts \in Nat : now = auth.now /\ ts = r.timestamp
    BY <1>2, <2>1
  <2>3. now < I64_HALF /\ ts \in 0 .. 2 * I64_HALF - 1 /\ ~(Distance(now, ts) > MAX_SKEW)
    BY <1>2, <2>1, <2>2
  <2>4. Distance(now, ts) <= MAX_SKEW
    BY <2>3, VisionAssumption DEF Distance
  <2> QED
    BY <2>2, <2>3, <2>4, NearIsNotExpired
<1>6. ReadRequest(w, auth.now) = [is |-> "Ok", request |-> r]
  BY <1>2, <1>5, HonestIsRead
<1> HIDE DEF w, q
<1>7. CheckPassword(q) = [is |-> "Ok", request |-> r]
  BY <1>4, <1>6 DEF CheckPassword
<1> QED
  BY <1>1, <1>2, <1>7

(***************************************************************************)
(* The types, and who holds the client's stream at each await.             *)
(***************************************************************************)
THEOREM RealityTypes == Spec => []TypeOK
<1>1. MachineInv /\ ReadInv => TypeOK
  <2> SUFFICES ASSUME MachineInv, ReadInv PROVE TypeOK
    OBVIOUS
  <2>1. wire \in [bytes : Seq(Nat), closes : BOOLEAN]
    BY VisionAssumption DEF ReadInv
  <2>2. auth.is \in {"Idle", "Reading", "Ok", "Bad"}
    BY DEF MachineInv, Accepting
  <2> QED
    BY <2>1, <2>2 DEF MachineInv, ReadInv, TypeOK
<1> QED
  BY MachineInit, MachineStep, ReadInit, ReadStep, <1>1, PTL DEF Spec

(***************************************************************************)
(* What was read of an accepted request is its encoding to the last byte   *)
(* and not one more, and its password is on the list: for every stream,    *)
(* clock, hash function and width.                                         *)
(***************************************************************************)
THEOREM AcceptedRequestIsExact == Spec => []AcceptedIsExact
BY ReadInit, ReadStep, ExactRead, PTL DEF Spec

(***************************************************************************)
(* An accepted request with a timestamp that an i64 holds is at most       *)
(* MAX_SKEW off by the clock after its last byte, for every width, skew    *)
(* and movement of the clock.                                              *)
(***************************************************************************)
THEOREM AcceptedTimestampIsRecent == Spec => []AcceptedIsRecent
BY ReadInit, ReadStep, RecentRead, PTL DEF Spec

(***************************************************************************)
(* A request from new() with a listed password that the server reads to    *)
(* its end is accepted, unless it is too old or too early or the server's  *)
(* clock stands before 1970: for every request, skew and width.            *)
(***************************************************************************)
THEOREM HonestRequestIsAccepted == Spec => []HonestIsAccepted
BY ReadInit, ReadStep, HonestRead, PTL DEF Spec

(***************************************************************************)
(* Whatever is called in whatever order, a stream comes back to the caller *)
(* or reaches a splice either untouched or from the byte after an accepted *)
(* request: for every stream of every client.                              *)
(***************************************************************************)
THEOREM StreamsLeaveWhole == Spec => []StreamLeavesWhole
<1>1. MachineInv /\ ReadInv => StreamLeavesWhole
  <2> SUFFICES ASSUME MachineInv, ReadInv
               PROVE  StreamLeavesWhole
    OBVIOUS
  <2>1. owner \in {"machine", "caller", "splice"} =>
          caller \in {"Ready", "Holds", "Forwarding", "Splicing"}
    BY DEF MachineInv
  <2>2. caller \in {"Ready", "Holds", "Forwarding", "Splicing"} =>
          auth = [is |-> "Idle"] \/ auth.is = "Ok"
    BY DEF MachineInv, Accepting
  <2>3. auth = [is |-> "Idle"] => auth.is = "Idle" /\ at = 0
    BY DEF ReadInv
  <2>4. auth.is = "Ok" =>
          Accepted /\ SubSeq(wire.bytes, 1, at) = EncodeRequest(auth.v.request)
    BY ExactRead DEF AcceptedIsExact, Accepted
  <2>5. caller \in {"DialToForward", "Forwarding"} => Accepted
    BY DEF MachineInv, Accepting, Accepted
  <2> QED
    BY <2>1, <2>2, <2>3, <2>4, <2>5 DEF StreamLeavesWhole
<1> QED
  BY MachineInit, MachineStep, ReadInit, ReadStep, <1>1, PTL DEF Spec

=============================================================================
