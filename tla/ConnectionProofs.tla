-------------------------- MODULE ConnectionProofs --------------------------
(***************************************************************************)
(* Connection, for every peek window, copy buffer, password list, client   *)
(* and backend.                                                            *)
(***************************************************************************)
EXTENDS Connection, TrojanHeaderProofs

-----------------------------------------------------------------------------
(* Sequences of bytes, cut in two.                                         *)

LEMMA Cut ==
  ASSUME NEW s \in Seq(Byte), NEW n \in 0 .. Len(s)
  PROVE  /\ Take(s, n) \in Seq(Byte) /\ Len(Take(s, n)) = n
         /\ Drop(s, n) \in Seq(Byte) /\ Len(Drop(s, n)) = Len(s) - n
         /\ Take(s, n) \o Drop(s, n) = s
         /\ Begins(Take(s, n), s)
<1>1. Len(s) \in Nat /\ \A i \in 1 .. Len(s) : s[i] \in Byte
  BY LenProperties, ElementOfSeq
<1>2. /\ Take(s, n) \in Seq(Byte) /\ Len(Take(s, n)) = n
      /\ \A i \in 1 .. n : Take(s, n)[i] = s[i]
  <2>1. \A i \in 1 .. n : s[i] \in Byte
    BY <1>1
  <2> QED
    BY <1>1, <2>1, SubSeqProperties DEF Take
<1>3. Drop(s, n) \in Seq(Byte) /\ Len(Drop(s, n)) = Len(s) - n
  <2>1. \A i \in n + 1 .. Len(s) : s[i] \in Byte
    BY <1>1
  <2> QED
    BY <1>1, <2>1, SubSeqProperties DEF Drop
<1>4. Take(s, n) \o Drop(s, n) = s
  <2>1. 1 \in 1 .. Len(s) + 1 /\ n \in 1 - 1 .. Len(s) /\ Len(s) \in n .. Len(s)
    BY <1>1
  <2> QED
    BY <2>1, ConcatAdjacentSubSeq, SubSeqFull DEF Take, Drop
<1> QED
  BY <1>1, <1>2, <1>3, <1>4 DEF Begins

LEMMA CutEnds ==
  ASSUME NEW s \in Seq(Byte)
  PROVE  /\ Take(s, 0) = << >> /\ Drop(s, 0) = s
         /\ Take(s, Len(s)) = s /\ Drop(s, Len(s)) = << >>
BY SubSeqFull, SubSeqEmpty, LenProperties DEF Take, Drop

\* A second cut, n bytes into what is left after k.
LEMMA CutAgain ==
  ASSUME NEW s \in Seq(Byte), NEW k \in 0 .. Len(s), NEW n \in 0 .. Len(s) - k
  PROVE  /\ k + n \in 0 .. Len(s)
         /\ Drop(Drop(s, k), n) = Drop(s, k + n)
         /\ Drop(s, k) = Take(Drop(s, k), n) \o Drop(s, k + n)
         /\ Take(s, k) \o Take(Drop(s, k), n) = Take(s, k + n)
<1>1. Len(s) \in Nat /\ k + n \in 0 .. Len(s)
  BY LenProperties
<1>2. /\ Drop(s, k) \in Seq(Byte) /\ Len(Drop(s, k)) = Len(s) - k
      /\ \A i \in 1 .. Len(s) - k : Drop(s, k)[i] = s[k + i]
  <2>1. \A i \in k + 1 .. Len(s) : s[i] \in Byte
    BY <1>1, ElementOfSeq
  <2> QED
    BY <1>1, <2>1, SubSeqProperties DEF Drop
<1>3. Drop(Drop(s, k), n) = Drop(s, k + n)
  <2>1. /\ Drop(Drop(s, k), n) \in Seq(Byte)
        /\ Len(Drop(Drop(s, k), n)) = Len(s) - k - n
        /\ \A i \in 1 .. Len(s) - k - n : Drop(Drop(s, k), n)[i] = Drop(s, k)[n + i]
    <3>1. \A i \in n + 1 .. Len(s) - k : Drop(s, k)[i] \in Byte
      BY <1>1, <1>2, ElementOfSeq
    <3>2. Drop(Drop(s, k), n) = SubSeq(Drop(s, k), n + 1, Len(s) - k)
      BY <1>2 DEF Drop
    <3> QED
      BY <1>1, <3>1, <3>2, SubSeqProperties, SMTT(60)
  <2>2. /\ Drop(s, k + n) \in Seq(Byte)
        /\ Len(Drop(s, k + n)) = Len(s) - k - n
        /\ \A i \in 1 .. Len(s) - k - n : Drop(s, k + n)[i] = s[k + n + i]
    <3>1. \A i \in k + n + 1 .. Len(s) : s[i] \in Byte
      BY <1>1, ElementOfSeq
    <3> QED
      BY <1>1, <3>1, SubSeqProperties, SMTT(60) DEF Drop
  <2>3. \A i \in 1 .. Len(s) - k - n : Drop(s, k)[n + i] = s[k + n + i]
    BY <1>1, <1>2
  <2> QED
    BY <1>1, <2>1, <2>2, <2>3, SeqEqual, ZenonT(60)
<1>4. Drop(s, k) = Take(Drop(s, k), n) \o Drop(s, k + n)
  BY <1>1, <1>2, <1>3, Cut
<1>5. Take(Drop(s, k), n) = SubSeq(s, k + 1, k + n)
  <2>1. /\ Take(Drop(s, k), n) \in Seq(Byte)
        /\ Len(Take(Drop(s, k), n)) = n
        /\ \A i \in 1 .. n : Take(Drop(s, k), n)[i] = Drop(s, k)[i]
    <3>1. \A i \in 1 .. n : Drop(s, k)[i] \in Byte
      BY <1>1, <1>2, ElementOfSeq
    <3> QED
      BY <1>1, <3>1, SubSeqProperties DEF Take
  <2>2. /\ SubSeq(s, k + 1, k + n) \in Seq(Byte)
        /\ Len(SubSeq(s, k + 1, k + n)) = n
        /\ \A i \in 1 .. n : SubSeq(s, k + 1, k + n)[i] = s[k + i]
    <3>1. \A i \in k + 1 .. k + n : s[i] \in Byte
      BY <1>1, ElementOfSeq
    <3> QED
      BY <1>1, <3>1, SubSeqProperties, SMTT(60)
  <2>3. \A i \in 1 .. n : Drop(s, k)[i] = s[k + i]
    BY <1>1, <1>2
  <2>4. \A i \in 1 .. Len(Take(Drop(s, k), n)) :
          Take(Drop(s, k), n)[i] = SubSeq(s, k + 1, k + n)[i]
    BY <2>1, <2>2, <2>3
  <2> QED
    BY <2>1, <2>2, <2>4, SeqEqual
<1>6. Take(s, k) \o Take(Drop(s, k), n) = Take(s, k + n)
  <2>1. 1 \in 1 .. Len(s) + 1 /\ k \in 1 - 1 .. Len(s) /\ k + n \in k .. Len(s)
    BY <1>1
  <2> QED
    BY <1>5, <2>1, ConcatAdjacentSubSeq DEF Take
<1> QED
  BY <1>1, <1>3, <1>4, <1>6

\* The tail of what was read, then what was not, is the tail of the whole.
LEMMA CutTail ==
  ASSUME NEW s \in Seq(Byte), NEW n \in 0 .. Len(s), NEW e \in 0 .. n
  PROVE  Drop(Take(s, n), e) \o Drop(s, n) = Drop(s, e)
<1>1. Len(s) \in Nat /\ Take(s, n) \in Seq(Byte) /\ Len(Take(s, n)) = n
      /\ Begins(Take(s, n), s)
  BY Cut, LenProperties
<1>2. e + 1 \in Nat \ {0} /\ n \in Int /\ n <= Len(Take(s, n))
  BY <1>1
<1>3. SubSeq(Take(s, n), e + 1, n) = SubSeq(s, e + 1, n)
  <2>1. Take(s, n) \in Seq(Nat) /\ s \in Seq(Nat) /\ Begins(Take(s, n), s)
    BY <1>1, ByteSeq
  <2> DEFINE r == Take(s, n)  m == e + 1
  <2> HIDE DEF r, m
  <2>2. r \in Seq(Nat) /\ Begins(r, s) /\ m \in Nat \ {0} /\ n \in Int /\ n <= Len(r)
    BY <1>2, <2>1 DEF r, m
  <2>3. SubSeq(r, m, n) = SubSeq(s, m, n)
    BY <2>1, <2>2, SubSeqAgrees
  <2> QED
    BY <2>3 DEF r, m
<1>4. Drop(Take(s, n), e) = SubSeq(Take(s, n), e + 1, n)
  BY <1>1 DEF Drop
<1> DEFINE m == e + 1
<1>5. m \in 1 .. Len(s) + 1 /\ n \in m - 1 .. Len(s) /\ Len(s) \in n .. Len(s)
  BY <1>1
<1>6. SubSeq(s, m, n) \o SubSeq(s, n + 1, Len(s)) = SubSeq(s, m, Len(s))
  <2> HIDE DEF m
  <2> QED
    BY <1>5, ConcatAdjacentSubSeq
<1> QED
  BY <1>3, <1>4, <1>6 DEF Drop

-----------------------------------------------------------------------------
(* Moving bytes along a chain of buffers.  Cat and IsBytes stand for \o and *)
(* membership in Seq(Byte), so that the provers reason about chains by     *)
(* associativity alone.                                                    *)

IsBytes(s) == s \in Seq(Byte)
Cat(s, t) == s \o t

LEMMA CatAssociative ==
  \A a, b, c : IsBytes(a) /\ IsBytes(b) /\ IsBytes(c) =>
    Cat(Cat(a, b), c) = Cat(a, Cat(b, c))
BY ConcatAssociative DEF IsBytes, Cat

LEMMA CatBytes == \A a, b : IsBytes(a) /\ IsBytes(b) => IsBytes(Cat(a, b))
BY ConcatProperties DEF IsBytes, Cat

\* A read moves c from the front of what was to be read to the end of buffer b.
LEMMA Refill ==
  ASSUME NEW a, NEW b, NEW c, NEW p, NEW q, NEW u, NEW v,
         IsBytes(a), IsBytes(b), IsBytes(c), IsBytes(p), IsBytes(q), IsBytes(u),
         IsBytes(v), Cat(p, u) = Cat(c, Cat(q, v))
  PROVE  Cat(Cat(a, Cat(b, p)), u) = Cat(Cat(a, Cat(Cat(b, c), q)), v)
BY CatAssociative, CatBytes

\* The same with no buffer: c goes straight to what was written,
LEMMA ReadThrough ==
  ASSUME NEW a, NEW c, NEW p, NEW q, NEW u, NEW v,
         IsBytes(a), IsBytes(c), IsBytes(p), IsBytes(q), IsBytes(u), IsBytes(v),
         Cat(p, u) = Cat(c, Cat(q, v))
  PROVE  Cat(Cat(a, p), u) = Cat(Cat(Cat(a, c), q), v)
BY CatAssociative, CatBytes

\* and with no prefix.
LEMMA RefillDown ==
  ASSUME NEW a, NEW b, NEW c, NEW v,
         IsBytes(a), IsBytes(b), IsBytes(c), IsBytes(v)
  PROVE  Cat(Cat(a, b), Cat(c, v)) = Cat(Cat(a, Cat(b, c)), v)
BY CatAssociative, CatBytes

\* A write moves c from the front of the buffer to the end of what was written.
LEMMA Flush ==
  ASSUME NEW a, NEW b, NEW c, NEW p, NEW u,
         IsBytes(a), IsBytes(b), IsBytes(c), IsBytes(p), IsBytes(u)
  PROVE  Cat(Cat(a, Cat(Cat(c, b), p)), u) = Cat(Cat(Cat(a, c), Cat(b, p)), u)
BY CatAssociative, CatBytes

LEMMA FlushDown ==
  ASSUME NEW a, NEW b, NEW c, NEW u,
         IsBytes(a), IsBytes(b), IsBytes(c), IsBytes(u)
  PROVE  Cat(Cat(a, Cat(c, b)), u) = Cat(Cat(Cat(a, c), b), u)
BY CatAssociative, CatBytes

-----------------------------------------------------------------------------
(* Reading the client's stream.                                            *)

LEMMA PeerTypes ==
  ASSUME TypeOK
  PROVE  /\ client.bytes \in Seq(Byte) /\ client.end \in Ends
         /\ backend.bytes \in Seq(Byte) /\ backend.end \in Ends
         /\ Len(client.bytes) \in Nat /\ Len(backend.bytes) \in Nat
         /\ PEEK_SIZE \in Nat \ {0} /\ COPY_BUF \in Nat \ {0}
<1>1. /\ client.bytes \in Seq(Byte) /\ client.end \in Ends
      /\ backend.bytes \in Seq(Byte) /\ backend.end \in Ends
      /\ PEEK_SIZE \in Nat \ {0} /\ COPY_BUF \in Nat \ {0}
  BY ConnectionAssumption DEF TypeOK
<1> QED
  BY <1>1, LenProperties

\* A read returns some bytes, no more than it has room for, from the front of
\* the prefix or, when there is none, of the stream.
LEMMA ReadableChunk ==
  ASSUME TypeOK, NEW room \in Nat \ {0}, NEW chunk \in Readable(room)
  PROVE  /\ chunk \in Seq(Byte) /\ Len(chunk) \in 1 .. room
         /\ prefix # << >> => /\ Len(chunk) \in 0 .. Len(prefix)
                              /\ chunk = Take(prefix, Len(chunk))
         /\ prefix = << >> => /\ Len(chunk) \in 0 .. Len(client.bytes) - taken
                              /\ chunk = Take(Unread, Len(chunk))
<1>0. prefix \in Seq(Byte) /\ taken \in 0 .. Len(client.bytes)
  BY DEF TypeOK
<1>1. client.bytes \in Seq(Byte) /\ Len(client.bytes) \in Nat
  BY PeerTypes
<1>2. CASE prefix # << >>
  <2>1. Len(prefix) \in Nat \ {0}
    BY <1>0, <1>2, LenProperties, EmptySeq
  <2> DEFINE n == Smaller(Len(prefix), room)
  <2>2. n \in 1 .. room /\ n \in 0 .. Len(prefix)
    BY <2>1 DEF Smaller
  <2>3. chunk = Take(prefix, n)
    BY <1>2 DEF Readable
  <2>4. chunk \in Seq(Byte) /\ Len(chunk) = n
    BY <1>0, <2>2, <2>3, Cut
  <2> QED
    BY <1>2, <2>2, <2>3, <2>4
<1>3. CASE prefix = << >>
  <2>1. Unread \in Seq(Byte) /\ Len(Unread) = Len(client.bytes) - taken
    BY <1>0, <1>1, Cut DEF Unread
  <2>2. PICK n \in 1 .. Smaller(Len(Unread), room) : chunk = Take(Unread, n)
    BY <1>3 DEF Readable
  <2>3. n \in 1 .. room /\ n \in 0 .. Len(Unread)
    BY <1>0, <1>1, <2>1, <2>2 DEF Smaller
  <2>4. chunk \in Seq(Byte) /\ Len(chunk) = n
    BY <2>1, <2>2, <2>3, Cut
  <2> QED
    BY <1>3, <2>1, <2>2, <2>3, <2>4
<1> QED
  BY <1>2, <1>3

\* What a read takes is the front of what was still to be read.
LEMMA Consumed ==
  ASSUME TypeOK, NEW room \in Nat \ {0}, NEW chunk \in Readable(room),
         Consume(chunk)
  PROVE  /\ prefix' \in Seq(Byte) /\ Len(prefix') <= Len(prefix)
         /\ taken' \in 0 .. Len(client.bytes)
         /\ prefix \o Unread = chunk \o (prefix' \o Drop(client.bytes, taken'))
<1>0. prefix \in Seq(Byte) /\ taken \in 0 .. Len(client.bytes)
      /\ Len(prefix) \in Nat
  BY LenProperties DEF TypeOK
<1>1. client.bytes \in Seq(Byte) /\ Len(client.bytes) \in Nat
  BY PeerTypes
<1>2. Unread \in Seq(Byte)
  BY <1>0, <1>1, Cut DEF Unread
<1>3. chunk \in Seq(Byte)
  BY ReadableChunk
<1>4. CASE prefix # << >>
  <2>1. /\ prefix' = Drop(prefix, Len(chunk)) /\ taken' = taken
        /\ Len(chunk) \in 0 .. Len(prefix) /\ chunk = Take(prefix, Len(chunk))
    BY <1>4, ReadableChunk DEF Consume
  <2>2. /\ prefix' \in Seq(Byte) /\ Len(prefix') = Len(prefix) - Len(chunk)
        /\ prefix = chunk \o prefix'
    BY <1>0, <2>1, Cut
  <2>3. (chunk \o prefix') \o Unread = chunk \o (prefix' \o Unread)
    BY <1>2, <1>3, <2>2, ConcatAssociative, SMTT(60)
  <2>4. Len(prefix') <= Len(prefix)
    BY <1>0, <2>1, <2>2
  <2>5. Unread = Drop(client.bytes, taken')
    BY <2>1 DEF Unread
  <2>6. prefix \o Unread = chunk \o (prefix' \o Unread)
    BY <2>2, <2>3
  <2> QED
    BY <1>0, <2>1, <2>2, <2>4, <2>5, <2>6
<1>5. CASE prefix = << >>
  <2>1. /\ prefix' = << >> /\ taken' = taken + Len(chunk)
        /\ Len(chunk) \in 0 .. Len(client.bytes) - taken
        /\ chunk = Take(Unread, Len(chunk))
    BY <1>5, ReadableChunk DEF Consume
  <2>2. /\ taken' \in 0 .. Len(client.bytes)
        /\ Unread = chunk \o Drop(client.bytes, taken')
    <3> DEFINE n == Len(chunk)
    <3>1. /\ taken + n \in 0 .. Len(client.bytes)
          /\ Drop(client.bytes, taken) =
               Take(Drop(client.bytes, taken), n) \o Drop(client.bytes, taken + n)
      BY <1>0, <1>1, <2>1, CutAgain
    <3> QED
      BY <2>1, <3>1 DEF Unread
  <2>3. Drop(client.bytes, taken') \in Seq(Byte)
    BY <1>1, <2>2, Cut
  <2> QED
    BY <1>0, <1>2, <1>5, <2>1, <2>2, <2>3, ConcatEmptySeq, EmptySeq
<1> QED
  BY <1>4, <1>5

\* A round of the peek loop keeps the buffer inside its window.
LEMMA Peeked ==
  ASSUME TypeOK, PeekChunk, prefix = << >>, peeked = Take(client.bytes, taken)
  PROVE  /\ peeked' \in Seq(Byte) /\ Len(peeked') <= PEEK_SIZE
         /\ taken' \in 0 .. Len(client.bytes)
         /\ peeked' = Take(client.bytes, taken')
<1>0. peeked \in Seq(Byte) /\ Len(peeked) \in Nat /\ Len(peeked) < PEEK_SIZE
      /\ taken \in 0 .. Len(client.bytes)
  BY LenProperties DEF TypeOK, PeekChunk
<1>1. /\ PEEK_SIZE \in Nat \ {0} /\ client.bytes \in Seq(Byte)
      /\ Len(client.bytes) \in Nat
  BY PeerTypes
<1>2. PEEK_SIZE - Len(peeked) \in Nat \ {0}
  BY <1>0, <1>1
<1>3. PICK chunk \in Readable(PEEK_SIZE - Len(peeked)) :
        taken' = taken + Len(chunk) /\ peeked' = peeked \o chunk
  BY DEF PeekChunk
<1>4. /\ chunk \in Seq(Byte) /\ Len(chunk) \in 1 .. PEEK_SIZE - Len(peeked)
      /\ Len(chunk) \in 0 .. Len(client.bytes) - taken
      /\ chunk = Take(Unread, Len(chunk))
  BY <1>2, ReadableChunk
<1>5. peeked' \in Seq(Byte) /\ Len(peeked') = Len(peeked) + Len(chunk)
  BY <1>0, <1>3, <1>4, ConcatProperties
<1> DEFINE n == Len(chunk)
<1>6. /\ taken + n \in 0 .. Len(client.bytes)
      /\ Take(client.bytes, taken) \o Take(Drop(client.bytes, taken), n) =
           Take(client.bytes, taken + n)
  BY <1>0, <1>1, <1>4, CutAgain
<1> QED
  BY <1>0, <1>1, <1>3, <1>4, <1>5, <1>6, SMTT(60) DEF Unread

-----------------------------------------------------------------------------
(* The inductive invariant.                                                *)

\* Each phase belongs to a route, and the peek loop goes on only while the
\* parser asks for more.
RouteOfPhase ==
  /\ phase = "Peek" => dest = "none" /\ TryParse(peeked) = Short
  /\ phase \in {"FallbackConnect", "FallbackReplay"} => dest = "fallback"
  /\ phase = "TcpConnect" => dest = "target"
  /\ phase = "Udp" => dest = "udp"
  /\ phase = "Relay" => dest \in {"fallback", "target"}

\* Until the stream is handed over, what was read is in the peek buffer; until
\* the relay starts, nothing has been copied.
NothingCopied ==
  /\ phase \in {"Peek", "FallbackConnect", "FallbackReplay"} =>
       peeked = Take(client.bytes, taken) /\ prefix = << >>
  /\ phase \in {"Peek", "FallbackConnect", "FallbackReplay", "TcpConnect", "Udp"} =>
       /\ replied = 0
       /\ buf["up"] = << >> /\ buf["down"] = << >>
       /\ dir["up"] = "Running" /\ dir["down"] = "Running"
       /\ out["down"] = << >>
       /\ phase # "Udp" => out["up"] = << >>

\* A direction has left Running only at the end of its source, and is Done only
\* with an empty buffer.
EndsSeen ==
  /\ dir["up"] # "Running" => ClientAt("eof")
  /\ dir["down"] # "Running" => replied = Len(backend.bytes) /\ backend.end = "eof"
  /\ \A d \in Direction : dir[d] = "Done" => buf[d] = << >>

\* Nothing is booked with the session before the relay returns.
NotBooked == phase # "Closed" => result = "none" /\ stats = NewSession

ConnInv ==
  /\ TypeOK
  /\ RouteOfPhase
  /\ NothingCopied
  /\ EndsSeen
  /\ NotBooked
  /\ RouteIgnoresFragmentation
  /\ BytesConserved
  /\ ShutdownIsComplete
  /\ SessionCountsPayload

LEMMA ConnInit == Init => ConnInv
<1> SUFFICES ASSUME Init PROVE ConnInv
  OBVIOUS
<1>1. << >> \in Seq(Byte) /\ Len(<< >>) = 0
  BY EmptySeq
<1>2. client.bytes \in Seq(Byte) /\ backend.bytes \in Seq(Byte)
  BY ConnectionAssumption DEF Init
<1>3. Len(client.bytes) \in Nat /\ Len(backend.bytes) \in Nat
  BY <1>2, LenProperties
<1>4. TypeOK
  BY <1>1, <1>3, ConnectionAssumption DEF Init, TypeOK, Phases, Direction, NewSession
<1>5. TryParse(peeked) = Short
  BY <1>1, LengthsAssumption DEF Init, TryParse
<1>6. RouteOfPhase
  BY <1>5 DEF Init, RouteOfPhase
<1>7. NothingCopied
  BY <1>2, CutEnds DEF Init, NothingCopied, Direction
<1>8. EndsSeen /\ ShutdownIsComplete
  BY DEF Init, EndsSeen, ShutdownIsComplete, Direction
<1> QED
  BY <1>4, <1>6, <1>7, <1>8 DEF Init, ConnInv, NotBooked,
     RouteIgnoresFragmentation, BytesConserved, SessionCountsPayload

(***************************************************************************)
(* The peek loop.                                                          *)
(***************************************************************************)
LEMMA PeekShortKeeps ==
  ASSUME ConnInv, PeekShort PROVE ConnInv'
<1> USE DEF ConnInv
<1>1. /\ peeked' \in Seq(Byte) /\ Len(peeked') <= PEEK_SIZE
      /\ taken' \in 0 .. Len(client.bytes)
      /\ peeked' = Take(client.bytes, taken')
  BY Peeked DEF PeekShort, NothingCopied, PeekChunk
<1>2. phase = "Peek" /\ dest = "none" /\ TryParse(peeked') = Short
      /\ UNCHANGED <<peers, phase, dest, header, prefix, copying, stats, result>>
  BY DEF PeekShort, PeekChunk, RouteOfPhase
<1>3. TypeOK'
  BY <1>1, <1>2 DEF TypeOK, peers, copying
<1>4. RouteOfPhase' /\ NothingCopied' /\ NotBooked'
  BY <1>1, <1>2 DEF RouteOfPhase, NothingCopied, NotBooked, peers, copying
<1>5. EndsSeen' /\ ShutdownIsComplete'
  BY <1>2 DEF EndsSeen, ShutdownIsComplete, NothingCopied, Direction, peers, copying
<1> QED
  BY <1>2, <1>3, <1>4, <1>5 DEF RouteIgnoresFragmentation, BytesConserved,
     SessionCountsPayload

LEMMA PeekAcceptKeeps ==
  ASSUME ConnInv, PeekAccept PROVE ConnInv'
<1> USE DEF ConnInv
<1>1. /\ peeked' \in Seq(Byte) /\ Len(peeked') <= PEEK_SIZE
      /\ taken' \in 0 .. Len(client.bytes)
      /\ peeked' = Take(client.bytes, taken')
  BY Peeked DEF PeekAccept, NothingCopied, PeekChunk
<1>0. client.bytes \in Seq(Byte) /\ Len(client.bytes) \in Nat /\ Len(peeked') \in Nat
      /\ backend.bytes \in Seq(Byte) /\ PEEK_SIZE \in Nat
  BY <1>1, PeerTypes, LenProperties
<1>2. /\ phase = "Peek" /\ dest = "none"
      /\ UNCHANGED <<peers, copying, stats, result>>
      /\ TryParse(peeked').is = "Ok" /\ VerifyPassword(TryParse(peeked'), Passwords)
      /\ header' = TryParse(peeked')
      /\ prefix' = Drop(peeked', HeaderEnd(peeked'))
      /\ \/ header'.command = "Connect" /\ phase' = "TcpConnect" /\ dest' = "target"
         \/ header'.command # "Connect" /\ phase' = "Udp" /\ dest' = "udp"
  BY DEF PeekAccept, PeekChunk, RouteOfPhase
<1>3. Begins(peeked', client.bytes) /\ Len(peeked') = taken'
  BY <1>0, <1>1, Cut
<1>4. TryParse(client.bytes) = TryParse(peeked')
  BY <1>0, <1>1, <1>2, <1>3, TryParseStable DEF Short
<1>5. /\ HeaderEnd(peeked') \in 0 .. taken'
      /\ HeaderEnd(client.bytes) = HeaderEnd(peeked')
  BY <1>0, <1>1, <1>2, <1>3, HeaderEndStable
<1>6. prefix' \in Seq(Byte) /\ Len(prefix') <= PEEK_SIZE
  <2>1. prefix' \in Seq(Byte) /\ Len(prefix') = taken' - HeaderEnd(peeked')
    BY <1>1, <1>2, <1>3, <1>5, Cut
  <2> QED
    BY <1>0, <1>1, <1>3, <1>5, <2>1
<1>7. TypeOK'
  BY <1>1, <1>2, <1>6 DEF TypeOK, peers, copying, Phases
<1>8. RouteOfPhase' /\ NothingCopied' /\ NotBooked'
  BY <1>1, <1>2 DEF RouteOfPhase, NothingCopied, NotBooked, peers, copying
<1>9. EndsSeen' /\ ShutdownIsComplete'
  BY <1>2 DEF EndsSeen, ShutdownIsComplete, NothingCopied, Direction, peers, copying
<1>10. RouteIgnoresFragmentation'
  BY <1>2, <1>4 DEF RouteIgnoresFragmentation, Authenticated, peers
<1>11. BytesConserved'
  <2>1. prefix' \o Drop(client.bytes, taken') = Drop(client.bytes, HeaderEnd(client.bytes))
    BY <1>0, <1>1, <1>2, <1>5, CutTail
  <2>2. /\ out'["up"] = << >> /\ out'["down"] = << >> /\ client' = client
        /\ buf'["up"] = << >> /\ buf'["down"] = << >> /\ backend' = backend
        /\ replied' = 0
    BY <1>2 DEF NothingCopied, copying, peers
  <2>3. InFlight' = prefix'
    BY <1>2, <1>6, <2>2, ConcatEmptySeq DEF InFlight
  <2>4. out'["up"] \o InFlight' = prefix'
    BY <1>6, <2>2, <2>3, ConcatEmptySeq
  <2>5. Drop(backend.bytes, replied') = backend.bytes
    BY <1>0, <2>2, CutEnds
  <2>6. Owed' = Drop(client.bytes, HeaderEnd(client.bytes))
        /\ Unread' = Drop(client.bytes, taken')
    BY <1>2, <2>2 DEF Owed, Unread
  <2>7. out'["down"] \o buf'["down"] \o Drop(backend'.bytes, replied') = backend'.bytes
    BY <1>0, <2>2, <2>5, ConcatEmptySeq, EmptySeq
  <2> QED
    BY <2>1, <2>4, <2>6, <2>7 DEF BytesConserved
<1>12. SessionCountsPayload'
  BY <1>2 DEF SessionCountsPayload, NotBooked
<1> QED
  BY <1>7, <1>8, <1>9, <1>10, <1>11, <1>12

\* However the peek loop comes to the fallback, the buffer holds everything read.
LEMMA GoFallbackKeeps ==
  ASSUME ConnInv, phase = "Peek", GoFallback,
         UNCHANGED <<peers, header, prefix, copying, stats, result>>,
         peeked' \in Seq(Byte), Len(peeked') <= PEEK_SIZE,
         taken' \in 0 .. Len(client.bytes), peeked' = Take(client.bytes, taken'),
         HeaderEnd(client.bytes) <= PEEK_SIZE => ~Authenticated
  PROVE  ConnInv'
<1> USE DEF ConnInv
<1>0. client.bytes \in Seq(Byte) /\ backend.bytes \in Seq(Byte)
  BY PeerTypes
<1>1. phase' = "FallbackConnect" /\ dest' = "fallback"
  BY DEF GoFallback
<1>2. TypeOK'
  BY <1>1 DEF TypeOK, peers, copying, Phases
<1>3. RouteOfPhase' /\ NothingCopied' /\ NotBooked'
  BY <1>1 DEF RouteOfPhase, NothingCopied, NotBooked, peers, copying
<1>4. EndsSeen' /\ ShutdownIsComplete'
  BY DEF EndsSeen, ShutdownIsComplete, NothingCopied, Direction, peers, copying
<1>5. RouteIgnoresFragmentation'
  BY <1>1 DEF RouteIgnoresFragmentation, Authenticated, peers
<1>6. BytesConserved'
  <2>1. /\ out'["up"] = << >> /\ out'["down"] = << >> /\ client' = client
        /\ buf'["down"] = << >> /\ backend' = backend /\ replied' = 0
    BY DEF NothingCopied, copying, peers
  <2>2. InFlight' = peeked' /\ Owed' = client.bytes /\ Unread' = Drop(client.bytes, taken')
    BY <1>1, <2>1 DEF InFlight, Owed, Unread
  <2>3. peeked' \o Drop(client.bytes, taken') = client.bytes
    BY <1>0, Cut
  <2>4. out'["up"] \o InFlight' \o Unread' = Owed'
    BY <2>1, <2>2, <2>3, ConcatEmptySeq
  <2>5. out'["down"] \o buf'["down"] \o Drop(backend'.bytes, replied') = backend'.bytes
    BY <1>0, <2>1, CutEnds, ConcatEmptySeq, EmptySeq
  <2> QED
    BY <2>4, <2>5 DEF BytesConserved
<1> QED
  BY <1>1, <1>2, <1>3, <1>4, <1>5, <1>6 DEF SessionCountsPayload

LEMMA PeekRejectKeeps ==
  ASSUME ConnInv, PeekReject PROVE ConnInv'
<1> USE DEF ConnInv
<1>1. /\ peeked' \in Seq(Byte) /\ Len(peeked') <= PEEK_SIZE
      /\ taken' \in 0 .. Len(client.bytes)
      /\ peeked' = Take(client.bytes, taken')
  BY Peeked DEF PeekReject, NothingCopied, PeekChunk
<1>2. client.bytes \in Seq(Byte)
  BY PeerTypes
<1>3. Begins(peeked', client.bytes)
  BY <1>1, <1>2, Cut
<1>4. TryParse(client.bytes) = TryParse(peeked')
  BY <1>1, <1>2, <1>3, TryParseStable DEF PeekReject, Short
<1>5. ~Authenticated
  BY <1>4 DEF PeekReject, Authenticated
<1> QED
  BY <1>1, <1>5, GoFallbackKeeps DEF PeekReject, PeekChunk

LEMMA PeekFullKeeps ==
  ASSUME ConnInv, PeekFull PROVE ConnInv'
<1> USE DEF ConnInv
<1>1. /\ peeked \in Seq(Byte) /\ Len(peeked) <= PEEK_SIZE
      /\ taken \in 0 .. Len(client.bytes)
      /\ peeked = Take(client.bytes, taken) /\ TryParse(peeked) = Short
      /\ Len(peeked) \in Nat /\ PEEK_SIZE \in Nat
  BY LenProperties, PeerTypes DEF PeekFull, NothingCopied, RouteOfPhase, TypeOK
<1>2. client.bytes \in Seq(Byte) /\ Begins(peeked, client.bytes)
  BY <1>1, PeerTypes, Cut
<1>3. HeaderEnd(client.bytes) <= PEEK_SIZE => ~Authenticated
  <2> SUFFICES ASSUME HeaderEnd(client.bytes) <= PEEK_SIZE, Authenticated
               PROVE  FALSE
    OBVIOUS
  <2>1. TryParse(client.bytes).is = "Ok"
    BY DEF Authenticated
  <2>2. HeaderEnd(client.bytes) <= Len(peeked)
    BY <1>1, <1>2, <2>1, HeaderEndBounded DEF PeekFull
  <2> QED
    BY <1>1, <1>2, <2>1, <2>2, HeaderDecides
<1> QED
  BY <1>1, <1>3, GoFallbackKeeps DEF PeekFull

\* The task ends with nothing booked; a relay to a target ends this way only on
\* an error.
LEMMA ReturnKeeps ==
  ASSUME ConnInv, NEW r \in {"Ok", "Err"}, Return(r), dest = "target" => r = "Err",
         UNCHANGED <<peers, dest, taken, peeked, header, prefix, copying, stats>>
  PROVE  ConnInv'
<1> USE DEF ConnInv
<1>1. phase' = "Closed" /\ result' = r
  BY DEF Return
<1>2. TypeOK'
  BY <1>1 DEF TypeOK, peers, copying, Phases
<1>3. RouteOfPhase' /\ NothingCopied' /\ NotBooked'
  BY <1>1 DEF RouteOfPhase, NothingCopied, NotBooked
<1>4. EndsSeen' /\ ShutdownIsComplete' /\ RouteIgnoresFragmentation'
  BY DEF EndsSeen, ClientAt, ShutdownIsComplete, Owed, RouteIgnoresFragmentation,
         Authenticated, peers, copying
<1> QED
  BY <1>1, <1>2, <1>3, <1>4 DEF SessionCountsPayload, BytesConserved

LEMMA PeekEofKeeps ==
  ASSUME ConnInv, PeekEof PROVE ConnInv'
<1> USE DEF ConnInv
<1>1. CASE peeked = << >>
  BY <1>1, ReturnKeeps DEF PeekEof, RouteOfPhase
<1>2. CASE peeked # << >>
  <2>1. /\ peeked \in Seq(Byte) /\ Len(peeked) <= PEEK_SIZE
        /\ taken \in 0 .. Len(client.bytes)
        /\ peeked = Take(client.bytes, taken) /\ TryParse(peeked) = Short
        /\ taken = Len(client.bytes)
    BY DEF PeekEof, NothingCopied, RouteOfPhase, TypeOK, ClientAt
  <2>2. peeked = client.bytes
    BY <2>1, PeerTypes, CutEnds
  <2>3. ~Authenticated
    BY <2>1, <2>2 DEF Authenticated, Short
  <2> QED
    BY <1>2, <2>1, <2>3, GoFallbackKeeps DEF PeekEof
<1> QED
  BY <1>1, <1>2

(***************************************************************************)
(* The two connects and the replay.                                        *)
(***************************************************************************)
LEMMA ConnectKeeps ==
  ASSUME ConnInv, FallbackConnect \/ TcpConnect PROVE ConnInv'
<1> USE DEF ConnInv
<1>1. UNCHANGED <<peers, dest, taken, peeked, header, prefix, copying, stats>>
  BY DEF FallbackConnect, TcpConnect
<1>2. CASE Return("Err")
  BY <1>1, <1>2, ReturnKeeps
<1>3. CASE /\ result' = result
           /\ \/ phase = "FallbackConnect" /\ phase' = "FallbackReplay"
              \/ phase = "TcpConnect" /\ phase' = "Relay"
  <2>1. TypeOK'
    BY <1>1, <1>3 DEF TypeOK, peers, copying, Phases
  <2>2. RouteOfPhase' /\ NothingCopied' /\ NotBooked'
    BY <1>1, <1>3 DEF RouteOfPhase, NothingCopied, NotBooked, peers, copying
  <2>3. EndsSeen' /\ ShutdownIsComplete' /\ RouteIgnoresFragmentation'
    BY <1>1 DEF EndsSeen, ClientAt, ShutdownIsComplete, Owed,
       RouteIgnoresFragmentation, Authenticated, peers, copying
  <2>4. InFlight' = InFlight /\ Unread' = Unread /\ Owed' = Owed
    BY <1>1, <1>3 DEF InFlight, Unread, Owed, peers, copying
  <2>5. BytesConserved'
    BY <1>1, <1>3, <2>4 DEF BytesConserved, peers, copying
  <2> QED
    BY <1>1, <1>3, <2>1, <2>2, <2>3, <2>5 DEF SessionCountsPayload, NotBooked
<1> QED
  BY <1>2, <1>3 DEF FallbackConnect, TcpConnect

LEMMA FallbackReplayKeeps ==
  ASSUME ConnInv, FallbackReplay PROVE ConnInv'
<1> USE DEF ConnInv
<1>1. /\ phase = "FallbackReplay" /\ dest = "fallback"
      /\ UNCHANGED <<peers, dest, taken, peeked, header, prefix, replied, buf, dir, stats>>
      /\ buf["up"] = << >> /\ prefix = << >> /\ out["up"] = << >>
      /\ dir["up"] = "Running" /\ dir["down"] = "Running"
  BY DEF FallbackReplay, RouteOfPhase, NothingCopied
<1>2. peeked \in Seq(Byte) /\ Len(peeked) \in Nat
  BY LenProperties DEF TypeOK
<1>3. EndsSeen' /\ ShutdownIsComplete' /\ RouteIgnoresFragmentation'
  BY <1>1 DEF EndsSeen, ClientAt, ShutdownIsComplete, RouteIgnoresFragmentation,
     Authenticated, peers
<1>4. CASE /\ out' = [out EXCEPT !["up"] = peeked]
           /\ phase' = "Relay" /\ result' = result
  <2>1. TypeOK'
    BY <1>1, <1>2, <1>4 DEF TypeOK, peers, Phases, Direction
  <2>2. RouteOfPhase' /\ NothingCopied' /\ NotBooked'
    BY <1>1, <1>4 DEF RouteOfPhase, NothingCopied, NotBooked
  <2>3. out'["up"] = peeked /\ out'["down"] = out["down"]
    BY <1>4 DEF TypeOK, Direction
  <2>4. InFlight' = << >> /\ InFlight = peeked /\ Unread' = Unread /\ Owed' = Owed
    BY <1>1, <1>4, ConcatEmptySeq, EmptySeq DEF InFlight, Unread, Owed, peers
  <2>5. out'["up"] \o InFlight' = peeked /\ out["up"] \o InFlight = peeked
    BY <1>1, <1>2, <2>3, <2>4, ConcatEmptySeq
  <2>6. BytesConserved'
    BY <1>1, <2>3, <2>4, <2>5 DEF BytesConserved, peers
  <2> QED
    BY <1>1, <1>3, <2>1, <2>2, <2>6 DEF SessionCountsPayload
<1>5. CASE \E n \in 0 .. Len(peeked) - 1 :
             out' = [out EXCEPT !["up"] = Take(peeked, n)] /\ Return("Err")
  <2>1. PICK n \in 0 .. Len(peeked) - 1 : out' = [out EXCEPT !["up"] = Take(peeked, n)]
    BY <1>5
  <2>2. Take(peeked, n) \in Seq(Byte)
    BY <1>2, Cut
  <2>3. phase' = "Closed" /\ result' = "Err"
    BY <1>5 DEF Return
  <2>4. TypeOK'
    BY <1>1, <2>1, <2>2, <2>3 DEF TypeOK, peers, Phases, Direction
  <2>5. RouteOfPhase' /\ NothingCopied' /\ NotBooked' /\ BytesConserved'
    BY <2>3 DEF RouteOfPhase, NothingCopied, NotBooked, BytesConserved
  <2> QED
    BY <1>3, <2>3, <2>4, <2>5 DEF SessionCountsPayload
<1> QED
  BY <1>4, <1>5 DEF FallbackReplay

(***************************************************************************)
(* copy_bidirectional.  Each step moves bytes from one place to the next   *)
(* in  out \o buffer \o prefix \o unread.                                 *)
(***************************************************************************)
LEMMA CopyReadUpKeeps ==
  ASSUME ConnInv, CopyReadUp PROVE ConnInv'
<1> USE DEF ConnInv
<1>1. /\ phase = "Relay" /\ dir["up"] = "Running" /\ Len(buf["up"]) < COPY_BUF
      /\ UNCHANGED <<peers, phase, dest, peeked, header, replied, dir, out, stats, result>>
  BY DEF CopyReadUp
<1>2. /\ buf["up"] \in Seq(Byte) /\ buf["down"] \in Seq(Byte) /\ out["up"] \in Seq(Byte)
      /\ prefix \in Seq(Byte) /\ Len(prefix) \in Nat /\ Len(buf["up"]) \in Nat
  BY LenProperties DEF TypeOK, Direction
<1>3. COPY_BUF - Len(buf["up"]) \in Nat \ {0} /\ client.bytes \in Seq(Byte)
      /\ PEEK_SIZE \in Nat /\ COPY_BUF \in Nat
  BY <1>1, <1>2, PeerTypes
<1>4. PICK chunk \in Readable(COPY_BUF - Len(buf["up"])) :
        Consume(chunk) /\ buf' = [buf EXCEPT !["up"] = @ \o chunk]
  BY DEF CopyReadUp
<1>5. chunk \in Seq(Byte) /\ Len(chunk) \in 1 .. COPY_BUF - Len(buf["up"])
  BY <1>3, ReadableChunk
<1>6. /\ prefix' \in Seq(Byte) /\ Len(prefix') <= Len(prefix) /\ Len(prefix') \in Nat
      /\ taken' \in 0 .. Len(client.bytes)
      /\ prefix \o Unread = chunk \o (prefix' \o Drop(client.bytes, taken'))
  BY <1>3, <1>4, Consumed, LenProperties
<1>7. /\ buf'["up"] = buf["up"] \o chunk /\ buf'["down"] = buf["down"]
      /\ buf' \in [Direction -> Seq(Byte)] /\ Len(buf'["up"]) <= COPY_BUF
  <2>1. /\ buf["up"] \o chunk \in Seq(Byte)
        /\ Len(buf["up"] \o chunk) = Len(buf["up"]) + Len(chunk)
    BY <1>2, <1>5, ConcatProperties
  <2>2. buf'["up"] = buf["up"] \o chunk /\ buf'["down"] = buf["down"]
    BY <1>4 DEF TypeOK, Direction
  <2>3. buf' \in [Direction -> Seq(Byte)]
    BY <1>4, <2>1 DEF TypeOK, Direction
  <2> QED
    BY <1>2, <1>3, <1>5, <2>1, <2>2, <2>3
<1>8. TypeOK'
  <2>1. /\ prefix' \in Seq(Byte) /\ Len(prefix') <= PEEK_SIZE
    BY <1>2, <1>3, <1>6 DEF TypeOK
  <2>2. \A d \in Direction : Len(buf'[d]) <= COPY_BUF
    BY <1>7 DEF TypeOK, Direction
  <2> QED
    BY <1>1, <1>6, <1>7, <2>1, <2>2 DEF TypeOK, peers
<1>9. RouteOfPhase' /\ NothingCopied' /\ NotBooked' /\ RouteIgnoresFragmentation'
  BY <1>1 DEF RouteOfPhase, NothingCopied, NotBooked, RouteIgnoresFragmentation,
     Authenticated, peers
<1>10. EndsSeen' /\ ShutdownIsComplete'
  BY <1>1, <1>7 DEF EndsSeen, ShutdownIsComplete, Owed, Direction, peers
<1>11. BytesConserved'
  <2> DEFINE O == out["up"]  B == buf["up"]  U == Drop(client.bytes, taken')
  <2>1. U \in Seq(Byte) /\ Unread \in Seq(Byte)
    BY <1>3, <1>6, Cut DEF Unread, TypeOK
  <2>2. dest # "none" /\ O \o (B \o prefix) \o Unread = Owed
    BY <1>1 DEF BytesConserved, InFlight, RouteOfPhase
  <2>5. O \o ((B \o chunk) \o prefix') \o U = Owed
    <3>1. /\ IsBytes(O) /\ IsBytes(B) /\ IsBytes(chunk) /\ IsBytes(prefix)
          /\ IsBytes(prefix') /\ IsBytes(Unread) /\ IsBytes(U)
      BY <1>2, <1>5, <1>6, <2>1 DEF IsBytes
    <3>2. Cat(prefix, Unread) = Cat(chunk, Cat(prefix', U))
      BY <1>6 DEF Cat
    <3>3. Cat(Cat(O, Cat(B, prefix)), Unread) = Cat(Cat(O, Cat(Cat(B, chunk), prefix')), U)
      BY <3>1, <3>2, Refill
    <3> QED
      BY <2>2, <3>3 DEF Cat
  <2>6. InFlight' = (B \o chunk) \o prefix' /\ Unread' = U /\ Owed' = Owed
    BY <1>1, <1>7 DEF InFlight, Unread, Owed, peers
  <2> QED
    BY <1>1, <1>7, <2>5, <2>6 DEF BytesConserved, peers
<1> QED
  BY <1>1, <1>8, <1>9, <1>10, <1>11 DEF SessionCountsPayload, NotBooked

LEMMA CopyReadDownKeeps ==
  ASSUME ConnInv, CopyReadDown PROVE ConnInv'
<1> USE DEF ConnInv
<1> DEFINE rest == Drop(backend.bytes, replied)  O == out["down"]  B == buf["down"]
<1>1. /\ phase = "Relay" /\ dir["down"] = "Running"
      /\ UNCHANGED <<peers, phase, dest, taken, peeked, header, prefix, dir, out,
                     stats, result>>
  BY DEF CopyReadDown
<1>2. /\ buf["up"] \in Seq(Byte) /\ B \in Seq(Byte) /\ O \in Seq(Byte)
      /\ Len(B) \in Nat /\ Len(B) <= COPY_BUF /\ COPY_BUF \in Nat
      /\ backend.bytes \in Seq(Byte) /\ Len(backend.bytes) \in Nat
      /\ replied \in 0 .. Len(backend.bytes)
  BY PeerTypes, LenProperties DEF TypeOK, Direction
<1>3. rest \in Seq(Byte) /\ Len(rest) = Len(backend.bytes) - replied
  BY <1>2, Cut
<1>4. PICK n \in 1 .. Smaller(Len(rest), COPY_BUF - Len(B)) :
        replied' = replied + n /\ buf' = [buf EXCEPT !["down"] = @ \o Take(rest, n)]
  BY DEF CopyReadDown
<1>5. n \in 0 .. Len(rest) /\ n \in Nat /\ Len(B) + n <= COPY_BUF
  <2>1. Len(rest) \in Nat /\ COPY_BUF - Len(B) \in Nat
    BY <1>2, <1>3
  <2>2. n \in 1 .. Len(rest) /\ n \in 1 .. COPY_BUF - Len(B)
    BY <1>4, <2>1 DEF Smaller
  <2> QED
    BY <1>2, <2>1, <2>2
<1> DEFINE chunk == Take(rest, n)  V == Drop(backend.bytes, replied + n)
<1>6. chunk \in Seq(Byte) /\ Len(chunk) = n
  BY <1>3, <1>5, Cut
<1>7. /\ replied' \in 0 .. Len(backend.bytes) /\ V \in Seq(Byte)
      /\ rest = chunk \o V
  <2>1. n \in 0 .. Len(backend.bytes) - replied
    BY <1>3, <1>5
  <2>2. replied + n \in 0 .. Len(backend.bytes) /\ rest = chunk \o V
    BY <1>2, <2>1, CutAgain
  <2> QED
    BY <1>2, <1>4, <2>2, Cut
<1>8. /\ buf'["down"] = B \o chunk /\ buf'["up"] = buf["up"]
      /\ buf' \in [Direction -> Seq(Byte)] /\ Len(buf'["down"]) <= COPY_BUF
  <2>1. B \o chunk \in Seq(Byte) /\ Len(B \o chunk) = Len(B) + Len(chunk)
    BY <1>2, <1>6, ConcatProperties
  <2>2. buf'["down"] = B \o chunk /\ buf'["up"] = buf["up"]
    BY <1>4 DEF TypeOK, Direction
  <2>3. buf' \in [Direction -> Seq(Byte)]
    BY <1>4, <2>1 DEF TypeOK, Direction
  <2> QED
    BY <1>2, <1>5, <1>6, <2>1, <2>2, <2>3
<1>9. TypeOK'
  <2>1. \A d \in Direction : Len(buf'[d]) <= COPY_BUF
    BY <1>8 DEF TypeOK, Direction
  <2> QED
    BY <1>1, <1>7, <1>8, <2>1 DEF TypeOK, peers
<1>10. RouteOfPhase' /\ NothingCopied' /\ NotBooked' /\ RouteIgnoresFragmentation'
  BY <1>1 DEF RouteOfPhase, NothingCopied, NotBooked, RouteIgnoresFragmentation,
     Authenticated, peers
<1>11. EndsSeen' /\ ShutdownIsComplete'
  BY <1>1, <1>8 DEF EndsSeen, ClientAt, ShutdownIsComplete, Owed, Direction, peers
<1>12. BytesConserved'
  <2>1. /\ dest # "none" /\ out["up"] \o InFlight \o Unread = Owed
        /\ O \o B \o rest = backend.bytes
    BY <1>1 DEF BytesConserved, RouteOfPhase
  <2>2. O \o (B \o chunk) \o V = backend.bytes
    <3>1. IsBytes(O) /\ IsBytes(B) /\ IsBytes(chunk) /\ IsBytes(V)
      BY <1>2, <1>6, <1>7 DEF IsBytes
    <3>2. Cat(Cat(O, B), Cat(chunk, V)) = Cat(Cat(O, Cat(B, chunk)), V)
      BY <3>1, RefillDown
    <3> QED
      BY <1>7, <2>1, <3>2 DEF Cat
  <2>3. InFlight' = InFlight /\ Unread' = Unread /\ Owed' = Owed
    BY <1>1, <1>8 DEF InFlight, Unread, Owed, peers
  <2> QED
    BY <1>1, <1>4, <1>8, <2>1, <2>2, <2>3 DEF BytesConserved, peers
<1> QED
  BY <1>1, <1>9, <1>10, <1>11, <1>12 DEF SessionCountsPayload, NotBooked

LEMMA CopyEofKeeps ==
  ASSUME ConnInv, NEW d \in Direction, CopyEof(d) PROVE ConnInv'
<1> USE DEF ConnInv
<1>1. /\ phase = "Relay" /\ dir[d] = "Running" /\ SourceAt(d, "eof")
      /\ dir' = [dir EXCEPT ![d] = "ReadDone"]
      /\ UNCHANGED <<peers, phase, dest, taken, peeked, header, prefix, replied, buf,
                     out, stats, result>>
  BY DEF CopyEof
<1>2. dir' \in [Direction -> {"Running", "ReadDone", "Done"}]
      /\ dir'[d] = "ReadDone" /\ \A e \in Direction : e # d => dir'[e] = dir[e]
  BY <1>1 DEF TypeOK
<1>3. TypeOK'
  BY <1>1, <1>2 DEF TypeOK, peers
<1>4. RouteOfPhase' /\ NothingCopied' /\ NotBooked' /\ RouteIgnoresFragmentation'
  BY <1>1 DEF RouteOfPhase, NothingCopied, NotBooked, RouteIgnoresFragmentation,
     Authenticated, peers
<1>5. EndsSeen' /\ ShutdownIsComplete'
  BY <1>1, <1>2 DEF EndsSeen, SourceAt, ClientAt, ShutdownIsComplete, Owed,
     Direction, peers
<1>6. BytesConserved'
  BY <1>1 DEF BytesConserved, InFlight, Unread, Owed, peers
<1> QED
  BY <1>1, <1>3, <1>4, <1>5, <1>6 DEF SessionCountsPayload, NotBooked

LEMMA CopyWriteKeeps ==
  ASSUME ConnInv, NEW d \in Direction, CopyWrite(d) PROVE ConnInv'
<1> USE DEF ConnInv
<1> DEFINE other == IF d = "up" THEN "down" ELSE "up"
<1>1. /\ phase = "Relay"
      /\ UNCHANGED <<peers, phase, dest, taken, peeked, header, prefix, replied, dir,
                     stats, result>>
  BY DEF CopyWrite
<1>2. PICK n \in 1 .. Len(buf[d]) :
        /\ out' = [out EXCEPT ![d] = @ \o Take(buf[d], n)]
        /\ buf' = [buf EXCEPT ![d] = Drop(@, n)]
  BY DEF CopyWrite
<1> DEFINE O == out[d]  C == Take(buf[d], n)  B == Drop(buf[d], n)
<1>3. /\ buf[d] \in Seq(Byte) /\ Len(buf[d]) \in Nat /\ O \in Seq(Byte)
      /\ Len(buf[d]) <= COPY_BUF /\ COPY_BUF \in Nat
  BY PeerTypes, LenProperties DEF TypeOK
<1>4. n \in 0 .. Len(buf[d]) /\ 1 <= n
  BY <1>2, <1>3
<1>5. /\ C \in Seq(Byte) /\ B \in Seq(Byte) /\ buf[d] = C \o B
      /\ Len(B) = Len(buf[d]) - n
  BY <1>3, <1>4, Cut
<1>6. O \o C \in Seq(Byte)
  BY <1>3, <1>5, ConcatProperties
<1>7. /\ out' \in [Direction -> Seq(Byte)] /\ out'[d] = O \o C
      /\ \A e \in Direction : e # d => out'[e] = out[e]
  BY <1>2, <1>6 DEF TypeOK
<1>8. /\ buf' \in [Direction -> Seq(Byte)] /\ buf'[d] = B
      /\ \A e \in Direction : e # d => buf'[e] = buf[e]
  BY <1>2, <1>5 DEF TypeOK
<1>9. TypeOK'
  <2>1. Len(buf'[d]) <= COPY_BUF
    BY <1>3, <1>4, <1>5, <1>8
  <2>2. \A e \in Direction : Len(buf'[e]) <= COPY_BUF
    BY <1>8, <2>1 DEF TypeOK
  <2> QED
    BY <1>1, <1>7, <1>8, <2>2 DEF TypeOK, peers
<1>10. dir[d] # "Done"
  <2>1. buf[d] # << >>
    BY <1>3, <1>4, EmptySeq
  <2> QED
    BY <2>1 DEF EndsSeen
<1>11. RouteOfPhase' /\ NothingCopied' /\ NotBooked' /\ RouteIgnoresFragmentation'
  BY <1>1 DEF RouteOfPhase, NothingCopied, NotBooked, RouteIgnoresFragmentation,
     Authenticated, peers
<1>12. EndsSeen' /\ ShutdownIsComplete'
  BY <1>1, <1>7, <1>8, <1>10 DEF EndsSeen, ClientAt, ShutdownIsComplete, Owed,
     Direction, peers
<1>13. BytesConserved'
  <2>1. /\ dest # "none" /\ out["up"] \o (buf["up"] \o prefix) \o Unread = Owed
        /\ out["down"] \o buf["down"] \o Drop(backend.bytes, replied) = backend.bytes
    BY <1>1 DEF BytesConserved, InFlight, RouteOfPhase
  <2>2. /\ Unread \in Seq(Byte) /\ prefix \in Seq(Byte)
        /\ Drop(backend.bytes, replied) \in Seq(Byte)
    BY PeerTypes, Cut DEF Unread, TypeOK
  <2> DEFINE V == Drop(backend.bytes, replied)
  <2>3. IsBytes(O) /\ IsBytes(C) /\ IsBytes(B) /\ IsBytes(prefix) /\ IsBytes(Unread)
        /\ IsBytes(V)
    BY <1>3, <1>5, <2>2 DEF IsBytes
  <2>4. Cat(Cat(O, Cat(Cat(C, B), prefix)), Unread) =
          Cat(Cat(Cat(O, C), Cat(B, prefix)), Unread)
    BY <2>3, Flush
  <2>5. Cat(Cat(O, Cat(C, B)), V) = Cat(Cat(Cat(O, C), B), V)
    BY <2>3, FlushDown
  <2>6. /\ InFlight' = buf'["up"] \o prefix /\ Unread' = Unread /\ Owed' = Owed
        /\ Drop(backend'.bytes, replied') = V /\ backend' = backend
    BY <1>1 DEF InFlight, Unread, Owed, peers
  <2>7. CASE d = "up"
    <3>1. out'["up"] \o (buf'["up"] \o prefix) \o Unread = Owed
      BY <1>5, <1>7, <1>8, <2>1, <2>4, <2>7 DEF Cat
    <3>2. out'["down"] = out["down"] /\ buf'["down"] = buf["down"]
      BY <1>7, <1>8, <2>7 DEF Direction
    <3> QED
      BY <2>1, <2>6, <3>1, <3>2 DEF BytesConserved
  <2>8. CASE d = "down"
    <3>1. out'["down"] \o buf'["down"] \o V = backend.bytes
      BY <1>5, <1>7, <1>8, <2>1, <2>5, <2>8 DEF Cat
    <3>2. out'["up"] = out["up"] /\ buf'["up"] = buf["up"]
      BY <1>7, <1>8, <2>8 DEF Direction
    <3> QED
      BY <2>1, <2>6, <3>1, <3>2 DEF BytesConserved
  <2> QED
    BY <2>7, <2>8 DEF Direction
<1> QED
  BY <1>1, <1>9, <1>11, <1>12, <1>13 DEF SessionCountsPayload, NotBooked

LEMMA CopyShutdownKeeps ==
  ASSUME ConnInv, NEW d \in Direction, CopyShutdown(d) PROVE ConnInv'
<1> USE DEF ConnInv
<1>1. /\ phase = "Relay" /\ dir[d] = "ReadDone" /\ buf[d] = << >>
      /\ dir' = [dir EXCEPT ![d] = "Done"]
      /\ UNCHANGED <<peers, phase, dest, taken, peeked, header, prefix, replied, buf,
                     out, stats, result>>
  BY DEF CopyShutdown
<1>2. dir' \in [Direction -> {"Running", "ReadDone", "Done"}]
      /\ dir'[d] = "Done" /\ \A e \in Direction : e # d => dir'[e] = dir[e]
  BY <1>1 DEF TypeOK
<1>3. TypeOK'
  BY <1>1, <1>2 DEF TypeOK, peers
<1>4. RouteOfPhase' /\ NothingCopied' /\ NotBooked' /\ RouteIgnoresFragmentation'
  BY <1>1 DEF RouteOfPhase, NothingCopied, NotBooked, RouteIgnoresFragmentation,
     Authenticated, peers
<1>5. EndsSeen'
  BY <1>1, <1>2 DEF EndsSeen, ClientAt, Direction, peers
<1>6. BytesConserved'
  BY <1>1 DEF BytesConserved, InFlight, Unread, Owed, peers
<1>7. /\ dest # "none" /\ out["up"] \o (buf["up"] \o prefix) \o Unread = Owed
      /\ out["down"] \o buf["down"] \o Drop(backend.bytes, replied) = backend.bytes
  BY <1>1 DEF BytesConserved, InFlight, RouteOfPhase
<1>8. out["up"] \in Seq(Byte) /\ out["down"] \in Seq(Byte) /\ << >> \in Seq(Byte)
  BY EmptySeq DEF TypeOK, Direction
<1>9. d = "up" => out["up"] = Owed /\ client.end = "eof"
  <2> SUFFICES ASSUME d = "up" PROVE out["up"] = Owed /\ client.end = "eof"
    OBVIOUS
  <2>1. prefix = << >> /\ taken = Len(client.bytes) /\ client.end = "eof"
    BY <1>1 DEF EndsSeen, ClientAt
  <2>2. Unread = << >>
    BY <2>1, PeerTypes, CutEnds DEF Unread
  <2> QED
    BY <1>1, <1>7, <1>8, <2>1, <2>2, ConcatEmptySeq
<1>10. d = "down" => out["down"] = backend.bytes /\ backend.end = "eof"
  <2> SUFFICES ASSUME d = "down" PROVE out["down"] = backend.bytes /\ backend.end = "eof"
    OBVIOUS
  <2>1. replied = Len(backend.bytes) /\ backend.end = "eof"
    BY <1>1 DEF EndsSeen
  <2>2. Drop(backend.bytes, replied) = << >>
    BY <2>1, PeerTypes, CutEnds
  <2> QED
    BY <1>1, <1>7, <1>8, <2>1, <2>2, ConcatEmptySeq
<1>11. ShutdownIsComplete'
  BY <1>1, <1>2, <1>9, <1>10 DEF ShutdownIsComplete, Owed, Direction, peers
<1> QED
  BY <1>1, <1>3, <1>4, <1>5, <1>6, <1>11 DEF SessionCountsPayload, NotBooked

LEMMA BookedOnce ==
  ASSUME NEW m \in Nat, NEW n \in Nat
  PROVE  AddReceived(AddSent(NewSession, m), n) = [sent |-> m, received |-> n]
BY DEF NewSession, AddSent, AddReceived

LEMMA RelayDoneKeeps ==
  ASSUME ConnInv, RelayDone PROVE ConnInv'
<1> USE DEF ConnInv
<1>1. /\ phase' = "Closed" /\ result' = "Ok" /\ phase = "Relay"
      /\ dir["up"] = "Done" /\ dir["down"] = "Done"
      /\ UNCHANGED <<peers, dest, taken, peeked, header, prefix, copying>>
  BY DEF RelayDone, Return, Direction
<1>2. out["up"] = Owed /\ out["down"] = backend.bytes
  BY <1>1 DEF ShutdownIsComplete
<1>3. Len(out["up"]) \in Nat /\ Len(out["down"]) \in Nat
  BY LenProperties DEF TypeOK, Direction
<1>4. /\ stats = NewSession
      /\ stats' = IF dest = "target"
                    THEN AddReceived(AddSent(stats, Len(out["up"])), Len(out["down"]))
                    ELSE stats
  BY <1>1 DEF RelayDone, NotBooked
<1>5. dest = "target" => stats' = [sent |-> Len(Owed), received |-> Len(backend.bytes)]
  BY <1>2, <1>3, <1>4, BookedOnce
<1>6. stats' \in [sent : Nat, received : Nat]
  BY <1>2, <1>3, <1>4, <1>5 DEF NewSession
<1>7. TypeOK'
  BY <1>1, <1>6 DEF TypeOK, peers, copying, Phases
<1>8. RouteOfPhase' /\ NothingCopied' /\ NotBooked' /\ BytesConserved'
  BY <1>1 DEF RouteOfPhase, NothingCopied, NotBooked, BytesConserved
<1>9. EndsSeen' /\ ShutdownIsComplete' /\ RouteIgnoresFragmentation'
  BY <1>1 DEF EndsSeen, ClientAt, ShutdownIsComplete, Owed, RouteIgnoresFragmentation,
     Authenticated, peers, copying
<1>10. Owed' = Owed /\ backend' = backend /\ dest' = dest
  BY <1>1 DEF Owed, peers
<1>11. SessionCountsPayload'
  BY <1>5, <1>10 DEF SessionCountsPayload
<1> QED
  BY <1>7, <1>8, <1>9, <1>11

LEMMA UdpReadKeeps ==
  ASSUME ConnInv, UdpRead PROVE ConnInv'
<1> USE DEF ConnInv
<1>1. /\ phase = "Udp" /\ buf["up"] = << >>
      /\ dir["up"] = "Running" /\ dir["down"] = "Running"
      /\ UNCHANGED <<peers, phase, dest, peeked, header, replied, buf, dir, stats, result>>
  BY DEF UdpRead, NothingCopied
<1>2. /\ out["up"] \in Seq(Byte) /\ prefix \in Seq(Byte) /\ Len(prefix) \in Nat
      /\ client.bytes \in Seq(Byte) /\ PEEK_SIZE \in Nat /\ COPY_BUF \in Nat \ {0}
  BY PeerTypes, LenProperties DEF TypeOK, Direction
<1>3. PICK chunk \in Readable(COPY_BUF) :
        Consume(chunk) /\ out' = [out EXCEPT !["up"] = @ \o chunk]
  BY DEF UdpRead
<1>4. chunk \in Seq(Byte)
  BY <1>2, ReadableChunk
<1>5. /\ prefix' \in Seq(Byte) /\ Len(prefix') <= Len(prefix) /\ Len(prefix') \in Nat
      /\ taken' \in 0 .. Len(client.bytes)
      /\ prefix \o Unread = chunk \o (prefix' \o Drop(client.bytes, taken'))
  BY <1>2, <1>3, Consumed, LenProperties
<1>6. /\ out' \in [Direction -> Seq(Byte)] /\ out'["up"] = out["up"] \o chunk
      /\ out'["down"] = out["down"]
  <2>1. out["up"] \o chunk \in Seq(Byte)
    BY <1>2, <1>4, ConcatProperties
  <2> QED
    BY <1>3, <2>1 DEF TypeOK, Direction
<1>7. TypeOK'
  <2>1. Len(prefix') <= PEEK_SIZE
    BY <1>2, <1>5 DEF TypeOK
  <2> QED
    BY <1>1, <1>5, <1>6, <2>1 DEF TypeOK, peers
<1>8. RouteOfPhase' /\ NothingCopied' /\ NotBooked' /\ RouteIgnoresFragmentation'
  BY <1>1, <1>6 DEF RouteOfPhase, NothingCopied, NotBooked, RouteIgnoresFragmentation,
     Authenticated, peers
<1>9. EndsSeen' /\ ShutdownIsComplete'
  BY <1>1 DEF EndsSeen, ShutdownIsComplete, Direction
<1>10. BytesConserved'
  <2> DEFINE O == out["up"]  U == Drop(client.bytes, taken')
  <2>1. U \in Seq(Byte) /\ Unread \in Seq(Byte)
    BY <1>2, <1>5, Cut DEF Unread, TypeOK
  <2>2. InFlight = prefix /\ InFlight' = prefix' /\ Unread' = U /\ Owed' = Owed
    BY <1>1, <1>2, <1>5, ConcatEmptySeq DEF InFlight, Unread, Owed, peers
  <2>3. O \o prefix \o Unread = Owed
        /\ out["down"] \o buf["down"] \o Drop(backend.bytes, replied) = backend.bytes
    BY <1>1, <2>2 DEF BytesConserved, RouteOfPhase
  <2>4. (O \o chunk) \o prefix' \o U = Owed
    <3>1. IsBytes(O) /\ IsBytes(chunk) /\ IsBytes(prefix) /\ IsBytes(prefix')
          /\ IsBytes(Unread) /\ IsBytes(U)
      BY <1>2, <1>4, <1>5, <2>1 DEF IsBytes
    <3>2. Cat(prefix, Unread) = Cat(chunk, Cat(prefix', U))
      BY <1>5 DEF Cat
    <3>3. Cat(Cat(O, prefix), Unread) = Cat(Cat(Cat(O, chunk), prefix'), U)
      BY <3>1, <3>2, ReadThrough
    <3> QED
      BY <2>3, <3>3 DEF Cat
  <2> QED
    BY <1>1, <1>6, <2>2, <2>3, <2>4 DEF BytesConserved, peers
<1> QED
  BY <1>1, <1>7, <1>8, <1>9, <1>10 DEF SessionCountsPayload, NotBooked

-----------------------------------------------------------------------------
LEMMA ConnStutter ==
  ASSUME ConnInv, UNCHANGED vars PROVE ConnInv'
<1> USE DEF ConnInv, vars
<1>1. TypeOK'
  BY DEF TypeOK
<1>2. RouteOfPhase' /\ NothingCopied' /\ NotBooked'
  BY DEF RouteOfPhase, NothingCopied, NotBooked
<1>3. EndsSeen' /\ ShutdownIsComplete' /\ RouteIgnoresFragmentation' /\ SessionCountsPayload'
  BY DEF EndsSeen, ClientAt, ShutdownIsComplete, Owed, RouteIgnoresFragmentation,
         Authenticated, SessionCountsPayload
<1>4. BytesConserved'
  BY DEF BytesConserved, InFlight, Unread, Owed
<1> QED
  BY <1>1, <1>2, <1>3, <1>4

LEMMA ConnNext ==
  ASSUME ConnInv, Next PROVE ConnInv'
<1>1. CASE PeekShort
  BY <1>1, PeekShortKeeps
<1>2. CASE PeekAccept
  BY <1>2, PeekAcceptKeeps
<1>3. CASE PeekReject
  BY <1>3, PeekRejectKeeps
<1>4. CASE PeekFull
  BY <1>4, PeekFullKeeps
<1>5. CASE PeekEof
  BY <1>5, PeekEofKeeps
<1>6. CASE PeekError
  BY <1>6, ReturnKeeps DEF PeekError
<1>7. CASE FallbackConnect \/ TcpConnect
  BY <1>7, ConnectKeeps
<1>8. CASE FallbackReplay
  BY <1>8, FallbackReplayKeeps
<1>9. CASE CopyReadUp
  BY <1>9, CopyReadUpKeeps
<1>10. CASE CopyReadDown
  BY <1>10, CopyReadDownKeeps
<1>11. ASSUME NEW d \in Direction, CopyEof(d) PROVE ConnInv'
  BY <1>11, CopyEofKeeps
<1>12. ASSUME NEW d \in Direction, CopyWrite(d) PROVE ConnInv'
  BY <1>12, CopyWriteKeeps
<1>13. ASSUME NEW d \in Direction, CopyShutdown(d) PROVE ConnInv'
  BY <1>13, CopyShutdownKeeps
<1>14. ASSUME NEW d \in Direction, CopyError(d) PROVE ConnInv'
  BY <1>14, ReturnKeeps DEF CopyError
<1>15. CASE RelayDone
  BY <1>15, RelayDoneKeeps
<1>16. CASE UdpRead
  BY <1>16, UdpReadKeeps
<1>17. CASE UdpReturn
  <2>1. dest # "target"
    BY <1>17 DEF UdpReturn, ConnInv, RouteOfPhase
  <2> QED
    BY <1>17, <2>1, ReturnKeeps DEF UdpReturn
<1> QED
  BY <1>1, <1>2, <1>3, <1>4, <1>5, <1>6, <1>7, <1>8, <1>9, <1>10, <1>11, <1>12,
     <1>13, <1>14, <1>15, <1>16, <1>17 DEF Next

(***************************************************************************)
(* handle_connection keeps ConnInv in every behaviour.                     *)
(***************************************************************************)
THEOREM ConnectionInvariant == Spec => []ConnInv
<1>1. Init => ConnInv
  BY ConnInit
<1>2. ConnInv /\ [Next]_vars => ConnInv'
  BY ConnNext, ConnStutter
<1> QED
  BY <1>1, <1>2, PTL DEF Spec

(***************************************************************************)
(* The variables keep their types; in particular peeked.len() stays within *)
(* PEEK_SIZE, so that PEEK_SIZE - peeked.len() never underflows.           *)
(***************************************************************************)
THEOREM ConnectionTypes == Spec => []TypeOK
<1>1. ConnInv => TypeOK
  BY DEF ConnInv
<1> QED
  BY <1>1, ConnectionInvariant, PTL

(***************************************************************************)
(* Whatever the fragmentation of the first bytes, handle_connection routes *)
(* the connection as it would with the whole stream in its buffer.         *)
(***************************************************************************)
THEOREM RoutingIgnoresFragmentation == Spec => []RouteIgnoresFragmentation
<1>1. ConnInv => RouteIgnoresFragmentation
  BY DEF ConnInv
<1> QED
  BY <1>1, ConnectionInvariant, PTL

(***************************************************************************)
(* From the peek buffer through PrefixedStream and the copy buffers, no    *)
(* byte is lost, repeated or reordered, in either direction.               *)
(***************************************************************************)
THEOREM NoByteIsLost == Spec => []BytesConserved
<1>1. ConnInv => BytesConserved
  BY DEF ConnInv
<1> QED
  BY <1>1, ConnectionInvariant, PTL

(***************************************************************************)
(* The relay shuts a peer's stream down only when that peer has all of it. *)
(***************************************************************************)
THEOREM NoTruncatedShutdown == Spec => []ShutdownIsComplete
<1>1. ConnInv => ShutdownIsComplete
  BY DEF ConnInv
<1> QED
  BY <1>1, ConnectionInvariant, PTL

(***************************************************************************)
(* After a relay that returned Ok, the session's counters are exact.       *)
(***************************************************************************)
THEOREM SessionCountersExact == Spec => []SessionCountsPayload
<1>1. ConnInv => SessionCountsPayload
  BY DEF ConnInv
<1> QED
  BY <1>1, ConnectionInvariant, PTL

-----------------------------------------------------------------------------
(* The refinement.  Each step of the connection is one of the contract's,  *)
(* under the mapping of Connection, or leaves all that the contract sees.  *)

\* What was passed on grows at its end only, and is the front of what is due.
LEMMA FrontOf ==
  ASSUME NEW a \in Seq(Byte), NEW b \in Seq(Byte)
  PROVE  Contract!StartsWith(a \o b, a) /\ Len(a \o b) = Len(a) + Len(b)
<1>1. /\ a \o b \in Seq(Byte) /\ Len(a \o b) = Len(a) + Len(b)
      /\ Len(a) \in Nat /\ Len(b) \in Nat
      /\ \A i \in 1 .. Len(a) : (a \o b)[i] = a[i]
  BY ConcatProperties, LenProperties
<1>2. \A i \in 1 .. Len(a) : (a \o b)[i] \in Byte
  BY <1>1, ElementOfSeq
<1>3. /\ SubSeq(a \o b, 1, Len(a)) \in Seq(Byte)
      /\ Len(SubSeq(a \o b, 1, Len(a))) = Len(a)
      /\ \A i \in 1 .. Len(a) : SubSeq(a \o b, 1, Len(a))[i] = (a \o b)[i]
  BY <1>1, <1>2, SubSeqProperties
<1>4. SubSeq(a \o b, 1, Len(a)) = a
  BY <1>1, <1>3, SeqEqual
<1> QED
  BY <1>1, <1>4 DEF Contract!StartsWith

\* The contract's parser is the connection's: both modules extend TrojanHeader.
LEMMA SameParser ==
  /\ \A b : Contract!TryParse(b) = TryParse(b) /\ Contract!HeaderEnd(b) = HeaderEnd(b)
  /\ \A h, p : Contract!VerifyPassword(h, p) <=> VerifyPassword(h, p)
<1>1. \A b, at : Contract!AddressLen(b, at) = AddressLen(b, at)
  BY DEF Contract!AddressLen, AddressLen, Contract!TYPE_IPV4, TYPE_IPV4,
         Contract!TYPE_IPV6, TYPE_IPV6, Contract!TYPE_DOMAIN, TYPE_DOMAIN
<1>2. \A b, at : Contract!AddressAt(b, at) = AddressAt(b, at)
                /\ Contract!HostBytes(b, at) = HostBytes(b, at)
  BY <1>1, ZenonT(60) DEF Contract!AddressAt, AddressAt, Contract!HostBytes, HostBytes,
         Contract!TYPE_DOMAIN, TYPE_DOMAIN
<1>3. \A b, at : Contract!ParseAddress(b, at) = ParseAddress(b, at)
  BY <1>1, <1>2 DEF Contract!ParseAddress, ParseAddress, Contract!Bad, Bad,
         Contract!Short, Short, Contract!TYPE_IPV4, TYPE_IPV4,
         Contract!TYPE_IPV6, TYPE_IPV6, Contract!TYPE_DOMAIN, TYPE_DOMAIN
<1>4. Contract!CommandOffset = CommandOffset /\ Contract!AddressOffset = AddressOffset
  BY DEF Contract!CommandOffset, CommandOffset, Contract!AddressOffset, AddressOffset
<1>5. \A b : Contract!HeaderEnd(b) = HeaderEnd(b)
  BY <1>3, <1>4 DEF Contract!HeaderEnd, HeaderEnd
<1>6. \A b, at : Contract!CrlfAt(b, at) = CrlfAt(b, at)
  BY DEF Contract!CrlfAt, CrlfAt, Contract!CR, CR, Contract!LF, LF
<1>7. \A b : Contract!TryParse(b) = TryParse(b)
  BY <1>3, <1>4, <1>6, ZenonT(60) DEF Contract!TryParse, TryParse, Contract!Bad, Bad,
     Contract!Short, Short, Contract!Command, Command, Contract!CommandBytes,
     CommandBytes, Contract!IsHexDigit, IsHexDigit
<1>8. \A h, p : Contract!VerifyPassword(h, p) <=> VerifyPassword(h, p)
  BY DEF Contract!VerifyPassword, VerifyPassword, Contract!EqIgnoreCase,
         EqIgnoreCase, Contract!ToLower, ToLower
<1> QED
  BY <1>5, <1>7, <1>8

\* The bytes due to a side of a routed connection.
LEMMA DueIsOwed ==
  ASSUME dest # "none"
  PROVE  Contract!Due("up") = Owed /\ Contract!Due("down") = backend.bytes
BY SameParser DEF Contract!Due, Owed, Drop

\* A connection that is not closed has not ended.
LEMMA NotEnded ==
  ASSUME ConnInv, phase # "Closed"
  PROVE  Ending = "no"
BY DEF ConnInv, NotBooked, Ending

LEMMA RoutedOnce ==
  ASSUME ConnInv, ConnInv', phase = "Peek", dest' # "none",
         Authenticated => HeaderEnd(client.bytes) <= PEEK_SIZE,
         UNCHANGED <<client, backend, out, dir, result>>
  PROVE  Contract!GiveRoute
<1>1. dest = "none" /\ Ending = "no"
  BY NotEnded DEF ConnInv, RouteOfPhase
<1>2. dest' = Contract!RouteOf(client.bytes)
  <2>1. dest' \in {"fallback", "target", "udp"}
    BY DEF ConnInv, TypeOK
  <2>2. CASE dest' = "fallback"
    BY <2>2, SameParser DEF ConnInv, RouteIgnoresFragmentation, Authenticated,
       Contract!RouteOf
  <2>3. CASE dest' \in {"target", "udp"}
    BY <2>3, SameParser DEF ConnInv, RouteIgnoresFragmentation, Authenticated,
       Contract!RouteOf
  <2> QED
    BY <2>1, <2>2, <2>3
<1>3. Finished' = Finished /\ Ending' = Ending
  BY DEF Finished, Ending
<1> QED
  BY <1>1, <1>2, <1>3 DEF Contract!GiveRoute

\* Bytes that go out, whether or not the connection ends with them.
LEMMA BytesPassedOn ==
  ASSUME ConnInv, NEW d \in Direction, phase # "Closed", dest # "none",
         dir[d] # "Done", Ending' \in {"no", "aborted"},
         UNCHANGED <<client, backend, dest, dir>>,
         NEW c \in Seq(Byte), c # << >>, NEW rest \in Seq(Byte),
         out' = [out EXCEPT ![d] = @ \o c],
         (out[d] \o c) \o rest = IF d = "up" THEN Owed ELSE backend.bytes
  PROVE  Contract!PassOn(d)
<1>1. Ending = "no" /\ ~Finished[d] /\ Finished' = Finished
  BY NotEnded DEF Finished
<1>2. out[d] \in Seq(Byte) /\ out[d] \o c \in Seq(Byte)
  BY ConcatProperties DEF ConnInv, TypeOK
<1>3. out'[d] = out[d] \o c /\ out' = [out EXCEPT ![d] = out'[d]]
  BY DEF ConnInv, TypeOK
<1>4. Contract!StartsWith(out'[d], out[d]) /\ Len(out'[d]) > Len(out[d])
  <2>1. Len(c) \in Nat \ {0} /\ Len(out[d]) \in Nat
    BY <1>2, LenProperties, EmptySeq
  <2> QED
    BY <1>2, <1>3, <2>1, FrontOf
<1>5. Contract!StartsWith(Contract!Due(d), out'[d])
  <2>1. Contract!Due(d) = (out[d] \o c) \o rest
    BY DueIsOwed DEF Direction
  <2> QED
    BY <1>2, <1>3, <2>1, FrontOf
<1> QED
  BY <1>1, <1>3, <1>4, <1>5 DEF Contract!PassOn

\* The connection ends, and nothing else that the contract sees happens.
LEMMA Aborts ==
  ASSUME ConnInv, phase # "Closed", Return("Err"),
         UNCHANGED <<client, backend, dest, out, dir>>
  PROVE  Contract!Abort
BY NotEnded DEF Contract!Abort, Return, Ending, Finished

LEMMA Stutters ==
  ASSUME UNCHANGED <<client, backend, dest, out, dir, result>>
  PROVE  UNCHANGED Contract!cvars
BY DEF Contract!cvars, Finished, Ending

LEMMA ReplayRefines ==
  ASSUME ConnInv, FallbackReplay
  PROVE  \/ Contract!PassOn("up") \/ Contract!Abort
         \/ UNCHANGED Contract!cvars
<1>1. /\ phase = "FallbackReplay" /\ dest = "fallback" /\ result = "none"
      /\ UNCHANGED <<client, backend, dest, dir>>
      /\ dir["up"] = "Running" /\ out["up"] = << >>
      /\ peeked \in Seq(Byte) /\ Len(peeked) \in Nat
      /\ peeked = Take(client.bytes, taken) /\ Owed = client.bytes
      /\ taken \in 0 .. Len(client.bytes) /\ client.bytes \in Seq(Byte)
      /\ out \in [Direction -> Seq(Byte)]
  BY PeerTypes, LenProperties
  DEF FallbackReplay, ConnInv, RouteOfPhase, NothingCopied, NotBooked, TypeOK,
      peers, Owed
<1>2. PICK n \in 0 .. Len(peeked) :
        /\ out' = [out EXCEPT !["up"] = Take(peeked, n)]
        /\ result' = "none" \/ Return("Err")
  <2>1. peeked = Take(peeked, Len(peeked))
    BY <1>1, CutEnds
  <2> QED
    BY <1>1, <2>1, SMTT(60) DEF FallbackReplay
<1>3. Ending' \in {"no", "aborted"}
  BY <1>2 DEF Ending, Return
<1> DEFINE c == Take(peeked, n)  b == Drop(peeked, n)  rest == b \o Unread
<1>4. /\ c \in Seq(Byte) /\ rest \in Seq(Byte) /\ c \o rest = Owed
  <2>1. Unread \in Seq(Byte) /\ peeked \o Unread = client.bytes
    BY <1>1, Cut DEF Unread
  <2>2. c \in Seq(Byte) /\ b \in Seq(Byte) /\ c \o b = peeked
    BY <1>1, Cut
  <2> HIDE DEF c, b
  <2>3. IsBytes(c) /\ IsBytes(b) /\ IsBytes(Unread)
    BY <2>1, <2>2 DEF IsBytes
  <2>4. IsBytes(Cat(b, Unread)) /\ Cat(Cat(c, b), Unread) = Cat(c, Cat(b, Unread))
    BY <2>3, CatAssociative, CatBytes
  <2> QED
    BY <1>1, <2>1, <2>2, <2>4 DEF IsBytes, Cat
<1>5. out["up"] \o c = c /\ out' = [out EXCEPT !["up"] = @ \o c]
  BY <1>1, <1>2, <1>4, ConcatEmptySeq
<1>6. CASE c # << >>
  <2> HIDE DEF c, b, rest
  <2>1. (out["up"] \o c) \o rest = Owed
    BY <1>4, <1>5
  <2> QED
    BY <1>1, <1>3, <1>4, <1>5, <1>6, <2>1, BytesPassedOn DEF Direction
<1>7. CASE c = << >>
  <2>1. out' = out
    BY <1>1, <1>2, <1>7 DEF Direction
  <2> QED
    BY <1>1, <1>2, <2>1, Aborts, Stutters
<1> QED
  BY <1>6, <1>7

LEMMA WriteRefines ==
  ASSUME ConnInv, NEW d \in Direction, CopyWrite(d)
  PROVE  Contract!PassOn(d)
<1>1. /\ phase = "Relay" /\ dest # "none" /\ result = "none"
      /\ UNCHANGED <<client, backend, dest, dir, result>>
      /\ buf[d] \in Seq(Byte) /\ Len(buf[d]) \in Nat /\ out[d] \in Seq(Byte)
  BY LenProperties
  DEF CopyWrite, ConnInv, RouteOfPhase, NotBooked, TypeOK, peers
<1>2. PICK n \in 1 .. Len(buf[d]) : out' = [out EXCEPT ![d] = @ \o Take(buf[d], n)]
  BY DEF CopyWrite
<1>3. n \in 0 .. Len(buf[d]) /\ buf[d] # << >>
  BY <1>1, <1>2, EmptySeq
<1> DEFINE c == Take(buf[d], n)  b == Drop(buf[d], n)
           u == IF d = "up" THEN prefix \o Unread ELSE Drop(backend.bytes, replied)
<1>4. /\ c \in Seq(Byte) /\ b \in Seq(Byte) /\ Len(c) = n /\ c \o b = buf[d]
  BY <1>1, <1>3, Cut
<1>5. c # << >>
  BY <1>2, <1>4, EmptySeq
<1>6. /\ u \in Seq(Byte)
      /\ out[d] \o (buf[d] \o u) = IF d = "up" THEN Owed ELSE backend.bytes
  <2>1. /\ Unread \in Seq(Byte) /\ prefix \in Seq(Byte)
        /\ Drop(backend.bytes, replied) \in Seq(Byte)
    BY PeerTypes, Cut DEF Unread, TypeOK, ConnInv
  <2>2. /\ out["up"] \o (buf["up"] \o prefix) \o Unread = Owed
        /\ out["down"] \o buf["down"] \o Drop(backend.bytes, replied) = backend.bytes
    BY <1>1 DEF ConnInv, BytesConserved, InFlight
  <2> DEFINE V == Drop(backend.bytes, replied)
  <2>0. IsBytes(out[d]) /\ IsBytes(buf[d]) /\ IsBytes(prefix) /\ IsBytes(Unread)
        /\ IsBytes(V)
    BY <1>1, <2>1 DEF IsBytes
  <2>3. CASE d = "up"
    <3>1. /\ IsBytes(Cat(prefix, Unread))
          /\ Cat(Cat(out[d], Cat(buf[d], prefix)), Unread) =
               Cat(out[d], Cat(buf[d], Cat(prefix, Unread)))
      BY <2>0, CatAssociative, CatBytes
    <3> QED
      BY <2>2, <2>3, <3>1 DEF IsBytes, Cat
  <2>4. CASE d = "down"
    <3>1. Cat(Cat(out[d], buf[d]), V) = Cat(out[d], Cat(buf[d], V))
      <4> HIDE DEF V
      <4> QED
        BY <2>0, CatAssociative
    <3> QED
      BY <2>1, <2>2, <2>4, <3>1 DEF Cat
  <2> QED
    BY <2>3, <2>4 DEF Direction
<1> DEFINE rest == b \o u
<1>7. rest \in Seq(Byte)
  BY <1>4, <1>6, ConcatProperties
<1>8. (out[d] \o c) \o rest = IF d = "up" THEN Owed ELSE backend.bytes
  <2>1. IsBytes(out[d]) /\ IsBytes(c) /\ IsBytes(b) /\ IsBytes(u)
    BY <1>1, <1>4, <1>6 DEF IsBytes
  <2>2. Cat(Cat(out[d], c), Cat(b, u)) = Cat(out[d], Cat(Cat(c, b), u))
    <3> HIDE DEF c, b, u
    <3> QED
      BY <2>1, CatAssociative, CatBytes
  <2> QED
    BY <1>4, <1>6, <2>2 DEF Cat
<1>9. dir[d] # "Done"
  BY <1>3 DEF ConnInv, EndsSeen
<1>10. Ending' = "no"
  BY <1>1 DEF Ending
<1> HIDE DEF c, rest
<1> QED
  BY <1>1, <1>2, <1>4, <1>5, <1>7, <1>8, <1>9, <1>10, BytesPassedOn DEF c

LEMMA ShutdownRefines ==
  ASSUME ConnInv, ConnInv', NEW d \in Direction, CopyShutdown(d)
  PROVE  Contract!PassFin(d)
<1>1. /\ phase = "Relay" /\ dest # "none" /\ dir[d] = "ReadDone"
      /\ dir' = [dir EXCEPT ![d] = "Done"]
      /\ UNCHANGED <<client, backend, dest, out, result>>
      /\ dir \in [Direction -> {"Running", "ReadDone", "Done"}]
  BY DEF CopyShutdown, ConnInv, RouteOfPhase, TypeOK, peers
<1>2. out[d] = Contract!Due(d)
  <2>1. dir'[d] = "Done"
    BY <1>1
  <2>2. out'[d] = IF d = "up" THEN Owed' ELSE backend'.bytes
    BY <2>1 DEF ConnInv, ShutdownIsComplete, Direction
  <2>3. Owed' = Owed
    BY <1>1 DEF Owed
  <2> QED
    BY <1>1, <2>2, <2>3, DueIsOwed DEF Direction
<1>3. Ending = "no" /\ ~Finished[d] /\ Ending' = Ending
  BY <1>1, NotEnded DEF Finished, Ending
<1>4. Finished' = [Finished EXCEPT ![d] = TRUE]
  BY <1>1 DEF Finished
<1> QED
  BY <1>1, <1>2, <1>3, <1>4 DEF Contract!PassFin

LEMMA UdpReadRefines ==
  ASSUME ConnInv, UdpRead
  PROVE  Contract!PassOn("up")
<1>1. /\ phase = "Udp" /\ dest = "udp" /\ result = "none"
      /\ UNCHANGED <<client, backend, dest, dir, result>>
      /\ dir["up"] = "Running" /\ buf["up"] = << >>
      /\ out["up"] \in Seq(Byte) /\ prefix \in Seq(Byte)
  BY DEF UdpRead, ConnInv, RouteOfPhase, NothingCopied, NotBooked, TypeOK, peers,
         Direction
<1>2. COPY_BUF \in Nat \ {0} /\ client.bytes \in Seq(Byte) /\ TypeOK
  BY PeerTypes DEF ConnInv
<1>3. PICK c \in Readable(COPY_BUF) :
        Consume(c) /\ out' = [out EXCEPT !["up"] = @ \o c]
  BY DEF UdpRead
<1>4. c \in Seq(Byte) /\ c # << >>
  <2>1. c \in Seq(Byte) /\ Len(c) \in 1 .. COPY_BUF
    BY <1>2, ReadableChunk
  <2> QED
    BY <1>2, <2>1, EmptySeq
<1> DEFINE rest == prefix' \o Drop(client.bytes, taken')
<1>5. rest \in Seq(Byte) /\ prefix \o Unread = c \o rest
  <2>1. /\ prefix' \in Seq(Byte) /\ taken' \in 0 .. Len(client.bytes)
        /\ prefix \o Unread = c \o rest
    BY <1>2, <1>3, Consumed
  <2>2. Drop(client.bytes, taken') \in Seq(Byte)
    BY <1>2, <2>1, Cut
  <2> QED
    BY <2>1, <2>2, ConcatProperties
<1>6. (out["up"] \o c) \o rest = Owed
  <2>1. Unread \in Seq(Byte)
    BY <1>2, Cut DEF Unread, TypeOK
  <2>2. InFlight = prefix
    BY <1>1, ConcatEmptySeq DEF InFlight
  <2>3. out["up"] \o prefix \o Unread = Owed
    BY <1>1, <2>2 DEF ConnInv, BytesConserved
  <2> HIDE DEF rest
  <2>4. IsBytes(out["up"]) /\ IsBytes(c) /\ IsBytes(rest) /\ IsBytes(prefix)
        /\ IsBytes(Unread)
    BY <1>1, <1>4, <1>5, <2>1 DEF IsBytes
  <2>5. Cat(Cat(out["up"], prefix), Unread) = Cat(out["up"], Cat(prefix, Unread))
        /\ Cat(Cat(out["up"], c), rest) = Cat(out["up"], Cat(c, rest))
    BY <2>4, CatAssociative
  <2> QED
    BY <1>5, <2>3, <2>5 DEF Cat
<1>7. Ending' = "no"
  BY <1>1 DEF Ending
<1> HIDE DEF rest
<1> QED
  BY <1>1, <1>3, <1>4, <1>5, <1>6, <1>7, BytesPassedOn DEF Direction

LEMMA PeekRefines ==
  ASSUME ConnInv, ConnInv',
         Authenticated => HeaderEnd(client.bytes) <= PEEK_SIZE,
         \/ PeekShort \/ PeekAccept \/ PeekReject
         \/ PeekFull \/ PeekEof \/ PeekError
  PROVE  \/ Contract!GiveRoute \/ Contract!EndClean \/ Contract!Abort
         \/ UNCHANGED Contract!cvars
<1>1. CASE PeekShort
  BY <1>1, Stutters DEF PeekShort, peers, copying
<1>2. CASE PeekAccept \/ PeekReject \/ PeekFull
  <2>1. phase = "Peek" /\ UNCHANGED <<client, backend, out, dir, result>>
    BY <1>2 DEF PeekAccept, PeekReject, PeekFull, PeekChunk, peers, copying
  <2>2. dest' # "none"
    BY <1>2 DEF PeekAccept, PeekReject, PeekFull, GoFallback
  <2> QED
    BY <2>1, <2>2, RoutedOnce
<1>3. CASE PeekEof
  <2>1. phase = "Peek" /\ UNCHANGED <<client, backend, out, dir>>
    BY <1>3 DEF PeekEof, peers, copying
  <2>2. CASE peeked # << >>
    BY <1>3, <2>1, <2>2, RoutedOnce DEF PeekEof, GoFallback
  <2>3. CASE peeked = << >>
    <3>1. client.bytes = << >>
      BY <1>3, <2>1, <2>3, PeerTypes, CutEnds
      DEF PeekEof, ClientAt, ConnInv, NothingCopied
    <3>2. dest = "none" /\ dest' = dest /\ Ending = "no" /\ Ending' = "clean"
      BY <1>3, <2>1, <2>3, NotEnded
      DEF PeekEof, Return, Ending, ConnInv, RouteOfPhase
    <3>3. Finished' = Finished
      BY <2>1 DEF Finished
    <3> QED
      BY <2>1, <3>1, <3>2, <3>3 DEF Contract!EndClean
  <2> QED
    BY <2>2, <2>3
<1>4. CASE PeekError
  BY <1>4, Aborts DEF PeekError, peers, copying
<1> QED
  BY <1>1, <1>2, <1>3, <1>4

LEMMA EndRefines ==
  ASSUME ConnInv, RelayDone \/ UdpReturn
  PROVE  Contract!EndClean \/ Contract!Abort
<1>1. CASE RelayDone
  <2>1. /\ phase = "Relay" /\ UNCHANGED <<client, backend, dest, out, dir>>
        /\ result' = "Ok" /\ dir["up"] = "Done" /\ dir["down"] = "Done"
    BY <1>1 DEF RelayDone, Return, peers, copying, Direction
  <2>2. Ending = "no" /\ Ending' = "clean" /\ Finished' = Finished
        /\ Finished["up"] /\ Finished["down"]
    BY <2>1, NotEnded DEF Ending, Finished, Direction
  <2> QED
    BY <2>1, <2>2 DEF Contract!EndClean
<1>2. CASE UdpReturn
  <2>1. /\ phase = "Udp" /\ UNCHANGED <<client, backend, dest, out, dir>>
        /\ dest = "udp" /\ (Return("Ok") \/ Return("Err"))
    BY <1>2 DEF UdpReturn, peers, copying, ConnInv, RouteOfPhase
  <2>2. Ending = "no" /\ Finished' = Finished
    BY <2>1, NotEnded DEF Finished
  <2>3. CASE Return("Ok")
    BY <2>1, <2>2, <2>3 DEF Return, Ending, Contract!EndClean
  <2>4. CASE Return("Err")
    BY <2>1, <2>4, Aborts
  <2> QED
    BY <2>1, <2>3, <2>4
<1> QED
  BY <1>1, <1>2

LEMMA NextRefines ==
  ASSUME ConnInv, HeadersFit, Next
  PROVE  Contract!CNext \/ UNCHANGED Contract!cvars
<1>0. /\ ConnInv'
      /\ Authenticated => HeaderEnd(client.bytes) <= PEEK_SIZE
  BY ConnNext DEF HeadersFit, Authenticated, ConnInv, TypeOK
<1>1. CASE \/ PeekShort \/ PeekAccept \/ PeekReject
           \/ PeekFull \/ PeekEof \/ PeekError
  BY <1>0, <1>1, PeekRefines DEF Contract!CNext
<1>2. CASE FallbackConnect \/ TcpConnect
  <2>1. phase # "Closed" /\ UNCHANGED <<client, backend, dest, out, dir>>
    BY <1>2 DEF FallbackConnect, TcpConnect, peers, copying
  <2>2. Return("Err") \/ result' = result
    BY <1>2 DEF FallbackConnect, TcpConnect
  <2> QED
    BY <2>1, <2>2, Aborts, Stutters DEF Contract!CNext
<1>3. CASE FallbackReplay
  BY <1>3, ReplayRefines DEF Contract!CNext
<1>4. CASE CopyReadUp \/ CopyReadDown
  BY <1>4, Stutters DEF CopyReadUp, CopyReadDown, peers
<1>5. ASSUME NEW d \in Direction, CopyEof(d)
      PROVE  UNCHANGED Contract!cvars
  <2>1. /\ UNCHANGED <<client, backend, dest, out, result>>
        /\ dir[d] = "Running" /\ dir' = [dir EXCEPT ![d] = "ReadDone"]
        /\ dir \in [Direction -> {"Running", "ReadDone", "Done"}]
    BY <1>5 DEF CopyEof, peers, ConnInv, TypeOK
  <2>2. \A e \in Direction : (dir'[e] = "Done") <=> (dir[e] = "Done")
    BY <2>1
  <2>3. Finished' = Finished /\ Ending' = Ending
    BY <2>1, <2>2 DEF Finished, Ending
  <2> QED
    BY <2>1, <2>3 DEF Contract!cvars
<1>6. ASSUME NEW d \in Direction, CopyWrite(d)
      PROVE  Contract!CNext
  BY <1>6, WriteRefines DEF Contract!CNext, Direction
<1>7. ASSUME NEW d \in Direction, CopyShutdown(d)
      PROVE  Contract!CNext
  BY <1>0, <1>7, ShutdownRefines DEF Contract!CNext, Direction
<1>8. ASSUME NEW d \in Direction, CopyError(d)
      PROVE  Contract!CNext
  BY <1>8, Aborts DEF CopyError, peers, copying, Contract!CNext
<1>9. CASE RelayDone \/ UdpReturn
  BY <1>9, EndRefines DEF Contract!CNext
<1>10. CASE UdpRead
  BY <1>10, UdpReadRefines DEF Contract!CNext
<1> QED
  BY <1>1, <1>2, <1>3, <1>4, <1>5, <1>6, <1>7, <1>8, <1>9, <1>10 DEF Next

LEMMA InitRefines == Init => Contract!CInit
<1> SUFFICES ASSUME Init PROVE Contract!CInit
  OBVIOUS
<1>1. out = [up |-> << >>, down |-> << >>]
  BY DEF Init, Direction
<1>2. Finished = [up |-> FALSE, down |-> FALSE]
  <2>1. Finished = [d \in Direction |-> FALSE]
    <3>1. \A d \in Direction : (dir[d] = "Done") = FALSE
      BY DEF Init
    <3> QED
      BY <3>1, Zenon DEF Finished
  <2>2. [d \in Direction |-> FALSE] = [up |-> FALSE, down |-> FALSE]
    <3>1. \A v : [d \in Direction |-> v] = [up |-> v, down |-> v]
      BY DEF Direction
    <3> QED
      BY <3>1, Zenon
  <2> QED
    BY <2>1, <2>2
<1> QED
  BY <1>1, <1>2 DEF Init, Contract!CInit, Ending

\* A window as long as the longest header suffices, whatever the clients send.
LEMMA LongestHeaderFits ==
  ASSUME PEEK_SIZE >= MaxHeaderLen
  PROVE  HeadersFit
<1> SUFFICES ASSUME NEW c \in Clients, TryParse(c.bytes).is = "Ok"
             PROVE  HeaderEnd(c.bytes) <= PEEK_SIZE
  BY DEF HeadersFit
<1>1. c.bytes \in Seq(Byte) /\ PEEK_SIZE \in Nat
  BY ConnectionAssumption
<1>2. MaxHeaderLen \in Nat
  BY LongestAddressType, LengthsAssumption DEF MaxHeaderLen, AddressOffset
<1> QED
  BY <1>1, <1>2, HeaderEndBounded

(***************************************************************************)
(* handle_connection, with its peek loop, prefix, copy buffers and half-   *)
(* closes, implements the contract of its doc comments, for every client,  *)
(* backend, password list and fragmentation, whenever every client's       *)
(* header fits the peek window, or the window is as long as the longest    *)
(* header (512 and 320 in the code): the route is a function of the        *)
(* client's bytes, what is passed on is the front of what is due, ends are *)
(* passed on only when true, and an end is clean only when everything was  *)
(* passed on.                                                              *)
(***************************************************************************)
THEOREM ConnectionKeepsContract ==
  ASSUME HeadersFit \/ PEEK_SIZE >= MaxHeaderLen
  PROVE  Spec => KeepsContract
<1>0. HeadersFit
  BY LongestHeaderFits
<1>1. Init => Contract!CInit
  BY InitRefines
<1>2. ConnInv /\ [Next]_vars => [Contract!CNext]_(Contract!cvars)
  <2>1. ASSUME ConnInv, Next PROVE [Contract!CNext]_(Contract!cvars)
    BY <1>0, <2>1, NextRefines
  <2>2. ASSUME UNCHANGED vars PROVE UNCHANGED Contract!cvars
    BY <2>2, Stutters DEF vars
  <2> QED
    BY <2>1, <2>2
<1> QED
  BY <1>1, <1>2, ConnectionInvariant, PTL DEF Spec, KeepsContract, Contract!CSpec

=============================================================================
