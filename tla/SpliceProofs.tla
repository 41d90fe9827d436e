---------------------------- MODULE SpliceProofs ----------------------------
(***************************************************************************)
(* The safety of DirectSplice and of tcp_splice for any two peers, windows *)
(* and buffers.                                                            *)
(***************************************************************************)
EXTENDS Splice, SequenceTheorems, TLAPS

\* tcp_splice.  What was written and what is buffered is what was read; a task
\* is over only when its source is exhausted and its buffer empty.
DoneIsExhausted ==
  \A s \in Sides :
    task[s] = "ok" => taken[s] = Len(peer[s].bytes) /\ buf[s] = << >>

JoinedIsDone == Returned => Closed

ResultIsExact ==
  result.is = "Ok" =>
    /\ \A s \in Sides : task[s] = "ok"
    /\ result.bytes = taken["a"] + taken["b"]

TcpTypes == PeersTypeOK /\ TcpTypeOK

TcpInv ==
  /\ TcpTypes
  /\ TcpBytesConserved
  /\ DoneIsExhausted
  /\ JoinedIsDone
  /\ ResultIsExact

\* DirectSplice.  What was written and what is left of the chunk of the branch
\* taken is what was read; of the other branch everything read was written.  A
\* write that fails loses the rest of its chunk, and the splice is over.
Flow(s) ==
  LET w == written[Other(s)]
      q == peer[s].bytes
  IN  /\ branch = s =>
           w \o SubSeq(chunk, put + 1, Len(chunk)) = SubSeq(q, 1, taken[s])
      /\ branch # s /\ result.is # "Err" => w = SubSeq(q, 1, taken[s])
      /\ Len(w) <= Len(q) /\ w = SubSeq(q, 1, Len(w))

\* The count runs behind by what write_all has written of its chunk.
Uncounted == IF branch \in Sides THEN put ELSE 0

CountIsExact ==
  /\ result.is # "Err" =>
       transferred + Uncounted = Len(written["a"]) + Len(written["b"])
  /\ result.is = "Ok" => result.bytes = transferred

DirectTypes == PeersTypeOK /\ DirectTypeOK

DirectInv ==
  /\ DirectTypes
  /\ \A s \in Sides : Flow(s)
  /\ branch = "done" <=> Returned
  /\ CountIsExact
  /\ EndedSideIsDelivered

\* The inductive invariant of the splice at work.
SpliceInv ==
  \/ which = "direct" /\ DirectInv
  \/ which = "tcp" /\ TcpInv

-----------------------------------------------------------------------------
(* Sequences.                                                              *)

\* Three sequences, joined from either end.
LEMMA Glue ==
  ASSUME NEW u \in Seq(Nat), NEW v \in Seq(Nat), NEW x \in Seq(Nat)
  PROVE  /\ u \o v \in Seq(Nat)
         /\ Len(u \o v) = Len(u) + Len(v)
         /\ u \o (v \o x) = (u \o v) \o x
<1>1. u \o v \in Seq(Nat) /\ Len(u \o v) = Len(u) + Len(v)
  BY ConcatProperties, Zenon
<1>2. (u \o v) \o x = u \o (v \o x)
  BY ConcatAssociative, SMTT(60)
<1> QED
  BY <1>1, <1>2

\* A part of a sequence, by its elements.
LEMMA Part ==
  ASSUME NEW q \in Seq(Nat), NEW m \in Nat \ {0}, NEW n \in Int, n <= Len(q)
  PROVE  /\ SubSeq(q, m, n) \in Seq(Nat)
         /\ Len(SubSeq(q, m, n)) = IF m <= n THEN n - m + 1 ELSE 0
<1>1. \A i \in m .. n : q[i] \in Nat
  BY LenProperties, ElementOfSeq
<1> QED
  BY <1>1, SubSeqProperties

\* The next n elements after the first t.
LEMMA NextAfter ==
  ASSUME NEW q \in Seq(Nat), NEW t \in Nat, NEW n \in Nat, t + n <= Len(q)
  PROVE  /\ SubSeq(q, t + 1, t + n) \in Seq(Nat)
         /\ Len(SubSeq(q, t + 1, t + n)) = n
         /\ SubSeq(q, 1, t) \o SubSeq(q, t + 1, t + n) = SubSeq(q, 1, t + n)
<1>1. Len(q) \in Nat
  BY LenProperties
<1>2. /\ SubSeq(q, t + 1, t + n) \in Seq(Nat)
      /\ Len(SubSeq(q, t + 1, t + n)) = n
  BY <1>1, Part
<1>3. 1 \in 1 .. Len(q) + 1 /\ t \in 1 - 1 .. Len(q) /\ t + n \in t .. Len(q)
  BY <1>1
<1> QED
  BY <1>2, <1>3, ConcatAdjacentSubSeq

\* A sequence cut after n elements.
LEMMA CutAt ==
  ASSUME NEW q \in Seq(Nat), NEW n \in 1 .. Len(q)
  PROVE  /\ SubSeq(q, 1, n) \in Seq(Nat) /\ Len(SubSeq(q, 1, n)) = n
         /\ SubSeq(q, n + 1, Len(q)) \in Seq(Nat)
         /\ Len(SubSeq(q, n + 1, Len(q))) = Len(q) - n
         /\ SubSeq(q, 1, n) \o SubSeq(q, n + 1, Len(q)) = q
<1>1. Len(q) \in Nat
  BY LenProperties
<1>2. /\ SubSeq(q, 1, n) \in Seq(Nat) /\ Len(SubSeq(q, 1, n)) = n
      /\ SubSeq(q, n + 1, Len(q)) \in Seq(Nat)
      /\ Len(SubSeq(q, n + 1, Len(q))) = Len(q) - n
  BY <1>1, Part
<1>3. 1 \in 1 .. Len(q) + 1 /\ n \in 1 - 1 .. Len(q) /\ Len(q) \in n .. Len(q)
  BY <1>1
<1> QED
  BY <1>2, <1>3, ConcatAdjacentSubSeq, SubSeqFull

\* What begins with w is cut by its length.
LEMMA FrontIsPrefix ==
  ASSUME NEW w \in Seq(Nat), NEW b \in Seq(Nat), NEW q \in Seq(Nat),
         NEW t \in Nat, t <= Len(q), w \o b = SubSeq(q, 1, t)
  PROVE  Len(w) <= Len(q) /\ w = SubSeq(q, 1, Len(w)) /\ Len(w) + Len(b) = t
<1>1. Len(q) \in Nat /\ Len(w) \in Nat /\ Len(b) \in Nat
  BY LenProperties
<1>2. /\ \A i \in 1 .. t : q[i] \in Nat
      /\ \A i \in 1 .. t : SubSeq(q, 1, t)[i] = q[i]
      /\ Len(SubSeq(q, 1, t)) = t
  <2>1. \A i \in 1 .. t : q[i] \in Nat
    BY <1>1, ElementOfSeq
  <2> QED
    BY <1>1, <2>1, SubSeqProperties
<1>3. /\ Len(w) + Len(b) = Len(w \o b)
      /\ \A i \in 1 .. Len(w) : w[i] = (w \o b)[i]
  BY <1>1, ConcatProperties
<1>4. Len(w) + Len(b) = t /\ \A i \in 1 .. Len(w) : w[i] = q[i]
  BY <1>1, <1>2, <1>3
<1>5. /\ SubSeq(q, 1, Len(w)) \in Seq(Nat) /\ Len(SubSeq(q, 1, Len(w))) = Len(w)
      /\ \A i \in 1 .. Len(w) : SubSeq(q, 1, Len(w))[i] = q[i]
  <2>1. \A i \in 1 .. Len(w) : q[i] \in Nat
    BY <1>1, <1>2, <1>4
  <2> QED
    BY <1>1, <1>4, <2>1, SubSeqProperties
<1>6. \A i \in 1 .. Len(w) : w[i] = SubSeq(q, 1, Len(w))[i]
  BY <1>4, <1>5
<1>7. w = SubSeq(q, 1, Len(w))
  BY <1>1, <1>5, <1>6, SeqEqual
<1> QED
  BY <1>1, <1>4, <1>7

-----------------------------------------------------------------------------
(* The steps of tcp_splice.                                                *)

LEMMA SidesFact ==
  /\ Sides = {"a", "b"}
  /\ \A s \in Sides : Other(s) \in Sides /\ Other(Other(s)) = s /\ Other(s) # s
BY DEF Sides, Other

\* What the type invariant says of one side.
LEMMA TcpSide ==
  ASSUME TcpTypes, NEW s \in Sides
  PROVE  /\ peer[s].bytes \in Seq(Nat) /\ Len(peer[s].bytes) \in Nat
         /\ taken[s] \in Nat /\ taken[s] <= Len(peer[s].bytes)
         /\ written[s] \in Seq(Nat) /\ Len(written[s]) \in Nat
         /\ seen[s] \in Nat /\ Len(written[s]) - seen[s] \in 0 .. Window
         /\ buf[s] \in Seq(Nat) /\ Len(buf[s]) \in Nat
         /\ Len(buf[s]) <= BUFFER_SIZE
         /\ BUFFER_SIZE \in Nat /\ Window \in Nat
<1>1. peer[s] \in Peers
  BY DEF TcpTypes, TcpTypeOK, PeersTypeOK
<1>2. peer[s].bytes \in Seq(Nat)
  BY <1>1, SpliceAssumption DEF PeerType
<1> QED
  BY <1>2, SpliceAssumption, LenProperties DEF TcpTypes, TcpTypeOK, PeersTypeOK

LEMMA TcpStarts == PeersInit /\ TcpInit => TcpInv
<1> SUFFICES ASSUME PeersInit, TcpInit PROVE TcpInv
  OBVIOUS
<1>1. << >> \in Seq(Nat) /\ Len(<< >>) = 0
  BY EmptySeq
<1>2. \A s \in Sides : peer[s].bytes \in Seq(Nat) /\ Len(peer[s].bytes) \in Nat
  BY SpliceAssumption, LenProperties DEF TcpInit, PeersInit, PeerType
<1>3. TcpTypes
  BY <1>1, <1>2, SpliceAssumption DEF TcpInit, PeersInit, TcpTypes, TcpTypeOK, PeersTypeOK
<1>4. TcpBytesConserved
  <2>1. \A q \in Seq(Nat) : SubSeq(q, 1, 0) = << >>
    BY SubSeqEmpty
  <2>2. << >> \o << >> = << >>
    BY ConcatEmptySeq, <1>1
  <2> QED
    BY <1>1, <1>2, <2>1, <2>2, SidesFact DEF TcpInit, PeersInit, TcpBytesConserved
<1> QED
  BY <1>3, <1>4 DEF TcpInit, PeersInit, TcpInv, DoneIsExhausted, JoinedIsDone,
                    ResultIsExact, Returned

\* A read adds the next bytes of its source to its own buffer.
LEMMA TcpRead ==
  ASSUME TcpInv, NEW s \in Sides, CopyRead(s)
  PROVE  TcpInv'
<1>1. PICK n \in Readable(s) :
        /\ Len(buf[s]) + n <= BUFFER_SIZE
        /\ buf' = [buf EXCEPT ![s] = buf[s] \o NextBytes(s, n)]
        /\ taken' = [taken EXCEPT ![s] = taken[s] + n]
  BY DEF CopyRead
<1>2. /\ UNCHANGED <<peer, written, seen, task, result>> /\ task[s] = "copy"
  BY DEF CopyRead
<1>3. TcpTypes
  BY DEF TcpInv
<1> DEFINE q == peer[s].bytes
           w == written[Other(s)]
           x == NextBytes(s, n)
<1>4. /\ q \in Seq(Nat) /\ Len(q) \in Nat /\ w \in Seq(Nat)
      /\ buf[s] \in Seq(Nat) /\ Len(buf[s]) \in Nat /\ taken[s] \in Nat
  BY <1>3, TcpSide, SidesFact
<1>5. n \in Nat /\ taken[s] + n <= Len(q)
  BY <1>1, SpliceAssumption DEF Readable
<1>6. /\ x \in Seq(Nat) /\ Len(x) = n
      /\ SubSeq(q, 1, taken[s]) \o x = SubSeq(q, 1, taken[s] + n)
  BY <1>4, <1>5, NextAfter, ZenonT(40) DEF NextBytes
<1> HIDE DEF x
<1>7. /\ buf[s] \o x \in Seq(Nat) /\ Len(buf[s] \o x) = Len(buf[s]) + n
      /\ w \o (buf[s] \o x) = (w \o buf[s]) \o x
  <2>1. buf[s] \in Seq(Nat) /\ x \in Seq(Nat) /\ w \in Seq(Nat)
    BY <1>4, <1>6
  <2>2. buf[s] \o x \in Seq(Nat) /\ Len(buf[s] \o x) = Len(buf[s]) + Len(x)
    BY <2>1, Glue, Zenon
  <2>3. w \o (buf[s] \o x) = (w \o buf[s]) \o x
    BY <2>1, Glue, Zenon
  <2> QED
    BY <1>6, <2>2, <2>3, Zenon
<1>8. /\ buf'[s] = buf[s] \o x /\ taken'[s] = taken[s] + n
      /\ \A r \in Sides : r # s => buf'[r] = buf[r] /\ taken'[r] = taken[r]
      /\ buf' \in [Sides -> Seq(Nat)] /\ taken' \in [Sides -> Nat]
  <2>1. buf' = [buf EXCEPT ![s] = buf[s] \o x]
    BY <1>1 DEF x
  <2>2. taken[s] + n \in Nat
    BY <1>4, <1>5
  <2> QED
    BY <1>1, <1>3, <1>7, <2>1, <2>2, ZenonT(40) DEF TcpTypes, TcpTypeOK, PeersTypeOK
<1>9. TcpTypes'
  BY <1>1, <1>2, <1>3, <1>4, <1>5, <1>7, <1>8 DEF TcpTypes, TcpTypeOK, PeersTypeOK
<1>10. TcpBytesConserved'
  <2>1. w = SubSeq(q, 1, Len(w)) /\ w \o buf[s] = SubSeq(q, 1, taken[s])
    BY <1>2 DEF TcpInv, TcpBytesConserved
  <2>2. w \o buf'[s] = SubSeq(q, 1, taken'[s])
    BY <1>6, <1>7, <1>8, <2>1
  <2> QED
    BY <1>2, <1>8, <2>1, <2>2 DEF TcpInv, TcpBytesConserved
<1>11. DoneIsExhausted'
  BY <1>2, <1>8 DEF TcpInv, DoneIsExhausted
<1>12. JoinedIsDone' /\ ResultIsExact'
  BY <1>2 DEF TcpInv, JoinedIsDone, ResultIsExact, Returned, Closed
<1> QED
  BY <1>9, <1>10, <1>11, <1>12 DEF TcpInv

\* A write moves the front of a buffer to the destination.
LEMMA TcpWrite ==
  ASSUME TcpInv, NEW s \in Sides, CopyWrite(s)
  PROVE  TcpInv'
<1> DEFINE o == Other(s)
           q == peer[s].bytes
           b == buf[s]
<1>1. PICK n \in 1 .. Len(b) :
        /\ n <= Room(o)
        /\ written' = [written EXCEPT ![o] = written[o] \o SubSeq(b, 1, n)]
        /\ buf' = [buf EXCEPT ![s] = SubSeq(b, n + 1, Len(b))]
  BY DEF CopyWrite
<1>2. UNCHANGED <<peer, taken, seen, task, result>> /\ task[s] = "copy"
  BY DEF CopyWrite
<1>3. TcpTypes
  BY DEF TcpInv
<1> DEFINE x == SubSeq(b, 1, n)
           y == SubSeq(b, n + 1, Len(b))
<1>4. /\ o \in Sides /\ Other(o) = s /\ o # s
      /\ q \in Seq(Nat) /\ Len(q) \in Nat /\ taken[s] \in Nat /\ taken[s] <= Len(q)
      /\ b \in Seq(Nat) /\ Len(b) \in Nat /\ Len(b) <= BUFFER_SIZE /\ BUFFER_SIZE \in Nat
      /\ written[o] \in Seq(Nat) /\ Len(written[o]) \in Nat /\ seen[o] \in Nat
      /\ Len(written[o]) - seen[o] \in 0 .. Window /\ Window \in Nat
  BY <1>3, TcpSide, SidesFact
<1>5. x \in Seq(Nat) /\ Len(x) = n /\ y \in Seq(Nat) /\ Len(y) = Len(b) - n /\ x \o y = b
  BY <1>4, CutAt
<1> HIDE DEF x, y
<1>6. /\ written[o] \o x \in Seq(Nat) /\ Len(written[o] \o x) = Len(written[o]) + n
      /\ (written[o] \o x) \o y = written[o] \o b
  <2>1. written[o] \in Seq(Nat) /\ x \in Seq(Nat) /\ y \in Seq(Nat)
    BY <1>4, <1>5
  <2>2. written[o] \o x \in Seq(Nat) /\ Len(written[o] \o x) = Len(written[o]) + Len(x)
    BY <2>1, Glue, Zenon
  <2>3. (written[o] \o x) \o y = written[o] \o (x \o y)
    BY <2>1, Glue, ZenonT(40)
  <2> QED
    BY <1>5, <2>2, <2>3, Zenon
<1>7. /\ written'[o] = written[o] \o x /\ buf'[s] = y
      /\ \A r \in Sides : r # o => written'[r] = written[r]
      /\ \A r \in Sides : r # s => buf'[r] = buf[r]
      /\ written' \in [Sides -> Seq(Nat)] /\ buf' \in [Sides -> Seq(Nat)]
  BY <1>1, <1>3, <1>4, <1>5, <1>6 DEF TcpTypes, TcpTypeOK, PeersTypeOK, x, y
<1>8. TcpTypes'
  <2>1. Len(written'[o]) - seen[o] \in 0 .. Window
    <3>1. Len(written'[o]) = Len(written[o]) + n
      BY <1>6, <1>7, Zenon
    <3>2. n \in Nat /\ n <= Window - (Len(written[o]) - seen[o])
      BY <1>1, <1>4 DEF Room
    <3>3. PICK l \in Nat : Len(written[o]) = l
      BY <1>4, Zenon
    <3>4. PICK k \in Nat : seen[o] = k
      BY <1>4, Zenon
    <3>5. l - k \in 0 .. Window /\ n <= Window - (l - k)
      BY <1>4, <3>2, <3>3, <3>4, Zenon
    <3>6. l + n - k \in 0 .. Window
      BY <1>4, <3>2, <3>5
    <3> QED
      BY <3>1, <3>3, <3>4, <3>6
  <2>2. \A r \in Sides : Len(written'[r]) - seen[r] \in 0 .. Window
    BY <1>3, <1>7, <2>1 DEF TcpTypes, TcpTypeOK, PeersTypeOK
  <2>3. \A r \in Sides : Len(buf'[r]) <= BUFFER_SIZE
    <3>1. Len(buf'[s]) = Len(b) - n
      BY <1>5, <1>7, Zenon
    <3>2. Len(buf'[s]) <= BUFFER_SIZE
      BY <1>4, <3>1
    <3>3. \A r \in Sides : r # s => Len(buf'[r]) <= BUFFER_SIZE
      BY <1>3, <1>7, Zenon DEF TcpTypes, TcpTypeOK
    <3> QED
      BY <3>2, <3>3
  <2> QED
    BY <1>2, <1>3, <1>7, <2>2, <2>3 DEF TcpTypes, TcpTypeOK, PeersTypeOK
<1>9. TcpBytesConserved'
  <2>1. written[o] \o b = SubSeq(q, 1, taken[s])
    BY <1>2 DEF TcpInv, TcpBytesConserved
  <2>2. written'[o] \o y = SubSeq(q, 1, taken[s])
    BY <1>6, <1>7, <2>1
  <2>3. written'[o] \in Seq(Nat)
    BY <1>6, <1>7
  <2>4. written'[o] = SubSeq(q, 1, Len(written'[o]))
    <3>1. /\ written'[o] \in Seq(Nat) /\ y \in Seq(Nat) /\ q \in Seq(Nat)
          /\ taken[s] \in Nat /\ taken[s] <= Len(q)
          /\ written'[o] \o y = SubSeq(q, 1, taken[s])
      BY <1>4, <1>5, <2>2, <2>3, Zenon
    <3> HIDE DEF q, o
    <3> QED
      BY <3>1, FrontIsPrefix, ZenonT(40)
  <2>5. \A r \in Sides : r # s => Other(r) # o /\ Other(r) \in Sides
    BY SidesFact
  <2> QED
    BY <1>2, <1>7, <2>2, <2>4, <2>5 DEF TcpInv, TcpBytesConserved
<1>10. DoneIsExhausted'
  BY <1>2, <1>7 DEF TcpInv, DoneIsExhausted
<1>11. JoinedIsDone' /\ ResultIsExact'
  BY <1>2 DEF TcpInv, JoinedIsDone, ResultIsExact, Returned, Closed
<1> QED
  BY <1>8, <1>9, <1>10, <1>11 DEF TcpInv

\* The steps that move no byte: a task ends or fails, the caller joins, a peer
\* reads.
LEMMA TcpOther ==
  ASSUME TcpInv, NEW s \in Sides, CopyEof(s) \/ CopyError(s) \/ Join \/ Drain(s)
  PROVE  TcpInv'
<1>1. TcpTypes
  BY DEF TcpInv
<1>2. CASE CopyEof(s)
  <2>1. TcpTypes'
    BY <1>1, <1>2 DEF CopyEof, TcpTypes, TcpTypeOK, PeersTypeOK, peers
  <2>2. DoneIsExhausted'
    BY <1>2 DEF CopyEof, AtEof, TcpInv, DoneIsExhausted, peers, TcpTypes, TcpTypeOK
  <2>3. TcpBytesConserved'
    <3>1. \A r \in Sides : task'[r] # "err" => task[r] # "err"
      BY <1>1, <1>2 DEF CopyEof, TcpTypes, TcpTypeOK
    <3> QED
      BY <1>2, <3>1 DEF CopyEof, TcpInv, TcpBytesConserved, peers
  <2>4. JoinedIsDone' /\ ResultIsExact'
    BY <1>1, <1>2 DEF CopyEof, TcpInv, JoinedIsDone, ResultIsExact, Returned,
                      Closed, peers, TcpTypes, TcpTypeOK
  <2> QED
    BY <2>1, <2>2, <2>3, <2>4 DEF TcpInv
<1>3. CASE CopyError(s)
  <2>1. << >> \in Seq(Nat) /\ Len(<< >>) = 0 /\ BUFFER_SIZE \in Nat
    BY EmptySeq, SpliceAssumption
  <2>2. /\ task[s] = "copy" /\ task'[s] = "err"
        /\ \A r \in Sides : r # s => task'[r] = task[r] /\ buf'[r] = buf[r]
        /\ UNCHANGED <<peers, result>>
    BY <1>1, <1>3 DEF CopyError, TcpTypes, TcpTypeOK
  <2>3. TcpTypes'
    BY <1>1, <1>3, <2>1 DEF CopyError, TcpTypes, TcpTypeOK, PeersTypeOK, peers
  <2>4. DoneIsExhausted'
    BY <2>2 DEF TcpInv, DoneIsExhausted, peers
  <2>5. TcpBytesConserved'
    BY <2>2 DEF TcpInv, TcpBytesConserved, peers
  <2>6. JoinedIsDone' /\ ResultIsExact'
    BY <2>2 DEF TcpInv, JoinedIsDone, ResultIsExact, Returned, Closed, peers
  <2> QED
    BY <2>3, <2>4, <2>5, <2>6 DEF TcpInv
<1>4. CASE Join
  <2>1. UNCHANGED <<peers, task, buf>> /\ Closed
    BY <1>4 DEF Join
  <2>2. \/ /\ \A r \in Sides : task[r] = "ok"
           /\ result' = [is |-> "Ok", bytes |-> taken["a"] + taken["b"]]
        \/ result' = [is |-> "Err"]
    BY <1>4 DEF Join
  <2>3. taken["a"] + taken["b"] \in Nat
    BY <1>1, TcpSide, SidesFact, SMTT(30)
  <2>4. TcpTypes'
    <3>1. result' \in [is : {"none", "Err"}] \cup [is : {"Ok"}, bytes : Nat]
      BY <2>2, <2>3
    <3> QED
      BY <1>1, <2>1, <3>1 DEF TcpTypes, TcpTypeOK, PeersTypeOK, peers
  <2>5. ResultIsExact'
    BY <2>1, <2>2 DEF ResultIsExact, peers
  <2> QED
    BY <2>1, <2>4, <2>5 DEF TcpInv, TcpBytesConserved, DoneIsExhausted, JoinedIsDone,
                            Closed, peers
<1>5. CASE Drain(s)
  <2>1. /\ seen' = [seen EXCEPT ![s] = Len(written[s])]
        /\ UNCHANGED <<peer, taken, written, result, task, buf>>
    BY <1>5 DEF Drain, PeerReads, tcpVars
  <2>2. Len(written[s]) \in Nat /\ Window \in Nat
    BY <1>1, TcpSide
  <2>3. TcpTypes'
    BY <1>1, <2>1, <2>2, SMTT(30) DEF TcpTypes, TcpTypeOK, PeersTypeOK
  <2> QED
    BY <2>1, <2>3 DEF TcpInv, TcpBytesConserved, DoneIsExhausted, JoinedIsDone,
                      ResultIsExact, Returned, Closed
<1> QED
  BY <1>2, <1>3, <1>4, <1>5

LEMMA TcpOkDelivers ==
  ASSUME TcpInv, result.is = "Ok", NEW s \in Sides
  PROVE  Delivered(s) /\ Len(written[Other(s)]) = taken[s]
<1> DEFINE q == peer[s].bytes
           w == written[Other(s)]
<1>1. task[s] = "ok" /\ taken[s] = Len(q) /\ buf[s] = << >>
  BY DEF TcpInv, ResultIsExact, DoneIsExhausted
<1>2. w \o << >> = SubSeq(q, 1, Len(q))
  BY <1>1 DEF TcpInv, TcpBytesConserved
<1>3. w \in Seq(Nat) /\ q \in Seq(Nat)
  BY TcpSide, SidesFact DEF TcpInv
<1>4. w = q
  BY <1>2, <1>3, ConcatEmptySeq, SubSeqFull
<1> QED
  BY <1>1, <1>4 DEF Delivered

-----------------------------------------------------------------------------
(* The steps of DirectSplice.                                              *)

LEMMA DirectSide ==
  ASSUME DirectTypes, NEW s \in Sides
  PROVE  /\ peer[s].bytes \in Seq(Nat) /\ Len(peer[s].bytes) \in Nat
         /\ taken[s] \in Nat /\ taken[s] <= Len(peer[s].bytes)
         /\ written[s] \in Seq(Nat) /\ Len(written[s]) \in Nat
         /\ seen[s] \in Nat /\ Len(written[s]) - seen[s] \in 0 .. Window
         /\ chunk \in Seq(Nat) /\ Len(chunk) \in Nat /\ put \in 0 .. Len(chunk)
         /\ transferred \in Nat /\ Window \in Nat
<1>1. peer[s] \in Peers
  BY DEF DirectTypes, PeersTypeOK
<1>2. peer[s].bytes \in Seq(Nat)
  BY <1>1, SpliceAssumption DEF PeerType
<1> QED
  BY <1>2, SpliceAssumption, LenProperties DEF DirectTypes, DirectTypeOK, PeersTypeOK

LEMMA DirectStarts == PeersInit /\ DirectInit => DirectInv
<1> SUFFICES ASSUME PeersInit, DirectInit PROVE DirectInv
  OBVIOUS
<1>1. << >> \in Seq(Nat) /\ Len(<< >>) = 0
  BY EmptySeq
<1>2. \A s \in Sides : peer[s].bytes \in Seq(Nat) /\ Len(peer[s].bytes) \in Nat
  BY SpliceAssumption, LenProperties DEF PeersInit, PeerType
<1>3. DirectTypes
  BY <1>1, <1>2, SpliceAssumption
  DEF PeersInit, DirectInit, DirectTypes, DirectTypeOK, PeersTypeOK
<1>4. \A s \in Sides : Flow(s)
  <2>1. \A q \in Seq(Nat) : SubSeq(q, 1, 0) = << >>
    BY SubSeqEmpty
  <2> QED
    BY <1>1, <1>2, <2>1, SidesFact DEF PeersInit, DirectInit, Flow, Sides
<1>5. CountIsExact
  <2>1. written["a"] = << >> /\ written["b"] = << >> /\ Uncounted = 0 /\ transferred = 0
    BY DEF PeersInit, DirectInit, Uncounted, Sides
  <2> QED
    BY <1>1, <2>1 DEF PeersInit, CountIsExact
<1> QED
  BY <1>3, <1>4, <1>5
  DEF PeersInit, DirectInit, DirectInv, Returned, EndedSideIsDelivered

\* A read takes the branch with the next bytes of its side.
LEMMA DirectRead ==
  ASSUME DirectInv, NEW s \in Sides, ReadChunk(s)
  PROVE  DirectInv'
<1>1. PICK n \in Readable(s) :
        /\ chunk' = NextBytes(s, n)
        /\ taken' = [taken EXCEPT ![s] = taken[s] + n]
  BY DEF ReadChunk
<1>2. /\ UNCHANGED <<peer, written, seen, transferred, result>>
      /\ branch = "select" /\ branch' = s /\ put' = 0
  BY DEF ReadChunk
<1>3. DirectTypes
  BY DEF DirectInv
<1> DEFINE q == peer[s].bytes
           w == written[Other(s)]
           x == NextBytes(s, n)
<1>4. q \in Seq(Nat) /\ Len(q) \in Nat /\ w \in Seq(Nat) /\ taken[s] \in Nat
  BY <1>3, DirectSide, SidesFact
<1>5. n \in Nat /\ taken[s] + n <= Len(q)
  BY <1>1, SpliceAssumption DEF Readable
<1>6. /\ x \in Seq(Nat) /\ Len(x) = n
      /\ SubSeq(q, 1, taken[s]) \o x = SubSeq(q, 1, taken[s] + n)
  BY <1>4, <1>5, NextAfter, ZenonT(40) DEF NextBytes
<1>7. s # "select" /\ s # "done"
  BY SidesFact
<1> HIDE DEF x
<1>8. /\ chunk' = x /\ taken'[s] = taken[s] + n
      /\ \A r \in Sides : r # s => taken'[r] = taken[r]
      /\ taken' \in [Sides -> Nat]
  <2>1. taken[s] + n \in Nat
    BY <1>4, <1>5
  <2> QED
    BY <1>1, <1>3, <2>1 DEF DirectTypes, PeersTypeOK, x
<1>9. DirectTypes'
  <2>1. \A r \in Sides : taken'[r] <= Len(peer[r].bytes)
    BY <1>3, <1>5, <1>8 DEF DirectTypes, PeersTypeOK
  <2>2. PeersTypeOK'
    BY <1>2, <1>3, <1>8, <2>1 DEF DirectTypes, PeersTypeOK
  <2>3. DirectTypeOK'
    <3>1. Len(x) \in Nat /\ 0 \in 0 .. Len(x)
      BY <1>5, <1>6
    <3> QED
      BY <1>2, <1>3, <1>6, <1>8, <3>1 DEF DirectTypes, DirectTypeOK
  <2> QED
    BY <2>2, <2>3 DEF DirectTypes
<1>10. result.is # "Err"
  BY <1>2 DEF DirectInv, Returned
<1>11. Flow(s)'
  <2>1. w = SubSeq(q, 1, taken[s]) /\ Len(w) <= Len(q) /\ w = SubSeq(q, 1, Len(w))
    BY <1>2, <1>7, <1>10 DEF DirectInv, Flow
  <2>2. SubSeq(x, 0 + 1, Len(x)) = x
    BY <1>6, SubSeqFull
  <2>3. w \o SubSeq(chunk', put' + 1, Len(chunk')) = SubSeq(q, 1, taken'[s])
    BY <1>2, <1>6, <1>8, <2>1, <2>2
  <2> QED
    BY <1>2, <2>1, <2>3 DEF Flow
<1>12. \A r \in Sides : r # s => Flow(r)'
  <2>1. \A r \in Sides : r # "select"
    BY SidesFact
  <2> QED
    BY <1>2, <1>7, <1>8, <1>10, <2>1 DEF DirectInv, Flow
<1>13. CountIsExact'
  <2>1. Uncounted = 0 /\ Uncounted' = 0
    BY <1>2, SidesFact DEF Uncounted
  <2> QED
    BY <1>2, <2>1 DEF DirectInv, CountIsExact
<1>14. (branch = "done" <=> Returned)' /\ EndedSideIsDelivered'
  BY <1>2, <1>7 DEF DirectInv, Returned, EndedSideIsDelivered, Delivered, ReadFails
<1> QED
  BY <1>9, <1>11, <1>12, <1>13, <1>14 DEF DirectInv

\* A write of write_all passes on the front of what is left of the chunk.
LEMMA DirectWrite ==
  ASSUME DirectInv, NEW s \in Sides, WriteAll(s)
  PROVE  DirectInv'
<1> DEFINE o == Other(s)
           q == peer[s].bytes
<1>1. PICK n \in 1 .. Len(chunk) - put :
        /\ n <= Room(o)
        /\ written' = [written EXCEPT ![o] = written[o] \o SubSeq(chunk, put + 1, put + n)]
        /\ put' = put + n
  BY DEF WriteAll
<1>2. UNCHANGED <<peer, taken, seen, branch, chunk, transferred, result>> /\ branch = s
  BY DEF WriteAll
<1>3. DirectTypes
  BY DEF DirectInv
<1>4. /\ o \in Sides /\ Other(o) = s /\ o # s
      /\ q \in Seq(Nat) /\ Len(q) \in Nat /\ taken[s] \in Nat /\ taken[s] <= Len(q)
      /\ chunk \in Seq(Nat) /\ Len(chunk) \in Nat /\ put \in 0 .. Len(chunk)
      /\ written[o] \in Seq(Nat) /\ Len(written[o]) \in Nat /\ seen[o] \in Nat
      /\ Len(written[o]) - seen[o] \in 0 .. Window /\ Window \in Nat
  BY <1>3, DirectSide, SidesFact
<1> DEFINE x == SubSeq(chunk, put + 1, put + n)
           y == SubSeq(chunk, put + n + 1, Len(chunk))
           z == SubSeq(chunk, put + 1, Len(chunk))
<1>5. /\ x \in Seq(Nat) /\ Len(x) = n /\ y \in Seq(Nat) /\ x \o y = z
      /\ n \in Nat /\ put + n \in 0 .. Len(chunk)
  <2>1. PICK l \in Nat : l = Len(chunk)
    BY <1>4
  <2>2. n \in Nat /\ put \in Nat /\ put + n <= l
    BY <1>1, <1>4, <2>1
  <2>3. x \in Seq(Nat) /\ Len(x) = n
    BY <1>4, <2>1, <2>2, NextAfter, SMTT(60)
  <2>4. put + n + 1 \in Nat \ {0} /\ l \in Int
    BY <2>2
  <2>5. y \in Seq(Nat)
    BY <1>4, <2>1, <2>4, Part, SMTT(60)
  <2>6. PICK i \in Nat, j \in Nat : i = put + 1 /\ j = put + n
    BY <2>2
  <2>7. x \o y = z
    <3>1. i \in 1 .. l + 1 /\ j \in i - 1 .. l /\ l \in j .. l
      BY <2>2, <2>6
    <3>2. i \in 1 .. Len(chunk) + 1 /\ j \in i - 1 .. Len(chunk) /\ Len(chunk) \in j .. Len(chunk)
      BY <2>1, <3>1
    <3>3. SubSeq(chunk, i, j) \o SubSeq(chunk, j + 1, Len(chunk)) = SubSeq(chunk, i, Len(chunk))
      <4> HIDE DEF x, y, z
      <4> QED
        BY <1>4, <3>2, ConcatAdjacentSubSeq
    <3> QED
      BY <2>6, <3>3
  <2> QED
    BY <2>1, <2>2, <2>3, <2>5, <2>7
<1> HIDE DEF x, y, z
<1>6. /\ written[o] \o x \in Seq(Nat) /\ Len(written[o] \o x) = Len(written[o]) + n
      /\ (written[o] \o x) \o y = written[o] \o z
  <2>1. written[o] \in Seq(Nat) /\ x \in Seq(Nat) /\ y \in Seq(Nat)
    BY <1>4, <1>5
  <2>2. written[o] \o x \in Seq(Nat) /\ Len(written[o] \o x) = Len(written[o]) + Len(x)
    BY <2>1, Glue, Zenon
  <2>3. (written[o] \o x) \o y = written[o] \o (x \o y)
    BY <2>1, Glue, ZenonT(40)
  <2> QED
    BY <1>5, <2>2, <2>3, Zenon
<1>7. /\ written'[o] = written[o] \o x
      /\ \A r \in Sides : r # o => written'[r] = written[r]
      /\ written' \in [Sides -> Seq(Nat)]
  BY <1>1, <1>3, <1>4, <1>6 DEF DirectTypes, PeersTypeOK, x
<1>8. DirectTypes'
  <2>1. Len(written'[o]) - seen[o] \in 0 .. Window
    <3>1. Len(written'[o]) = Len(written[o]) + n
      BY <1>6, <1>7, Zenon
    <3>2. n \in Nat /\ n <= Window - (Len(written[o]) - seen[o])
      BY <1>1, <1>5 DEF Room
    <3>3. PICK l \in Nat : Len(written[o]) = l
      BY <1>4, Zenon
    <3>4. PICK k \in Nat : seen[o] = k
      BY <1>4, Zenon
    <3>5. l - k \in 0 .. Window /\ n <= Window - (l - k)
      BY <1>4, <3>2, <3>3, <3>4, Zenon
    <3>6. l + n - k \in 0 .. Window
      BY <1>4, <3>2, <3>5
    <3> QED
      BY <3>1, <3>3, <3>4, <3>6
  <2>2. \A r \in Sides : Len(written'[r]) - seen[r] \in 0 .. Window
    BY <1>3, <1>7, <2>1 DEF DirectTypes, PeersTypeOK
  <2>3. PeersTypeOK'
    BY <1>2, <1>3, <1>7, <2>2 DEF DirectTypes, PeersTypeOK
  <2>4. DirectTypeOK'
    BY <1>1, <1>2, <1>3, <1>5 DEF DirectTypes, DirectTypeOK
  <2> QED
    BY <2>3, <2>4 DEF DirectTypes
<1>9. Flow(s)'
  <2>1. written[o] \o z = SubSeq(q, 1, taken[s])
    BY <1>2 DEF DirectInv, Flow, z
  <2>2. written'[o] \o y = SubSeq(q, 1, taken[s]) /\ written'[o] \in Seq(Nat)
    BY <1>6, <1>7, <2>1
  <2>3. Len(written'[o]) <= Len(q) /\ written'[o] = SubSeq(q, 1, Len(written'[o]))
    <3>1. /\ written'[o] \in Seq(Nat) /\ y \in Seq(Nat) /\ q \in Seq(Nat)
          /\ taken[s] \in Nat /\ taken[s] <= Len(q)
          /\ written'[o] \o y = SubSeq(q, 1, taken[s])
      BY <1>4, <1>5, <2>2, Zenon
    <3> HIDE DEF q, o
    <3> QED
      BY <3>1, FrontIsPrefix, ZenonT(40)
  <2>4. y = SubSeq(chunk', put' + 1, Len(chunk'))
    BY <1>1, <1>2 DEF y
  <2> QED
    BY <1>2, <2>2, <2>3, <2>4 DEF Flow
<1>10. \A r \in Sides : r # s => Flow(r)'
  <2>1. \A r \in Sides : r # s => Other(r) # o /\ Other(r) \in Sides
    BY SidesFact
  <2> QED
    BY <1>2, <1>7, <2>1 DEF DirectInv, Flow
<1>11. CountIsExact'
  <2>1. Uncounted = put /\ Uncounted' = put + n
    BY <1>1, <1>2 DEF Uncounted
  <2>2. Len(written'["a"]) + Len(written'["b"]) = Len(written["a"]) + Len(written["b"]) + n
    <3>1. Len(written'[o]) = Len(written[o]) + n
      BY <1>6, <1>7, Zenon
    <3>2. Len(written'[s]) = Len(written[s])
      BY <1>4, <1>7
    <3>3. Len(written["a"]) \in Nat /\ Len(written["b"]) \in Nat /\ n \in Nat
      BY <1>3, <1>5, DirectSide, SidesFact
    <3>4. \/ o = "a" /\ s = "b"
          \/ o = "b" /\ s = "a"
      BY DEF Sides, Other
    <3>5. PICK i \in Nat, j \in Nat : i = Len(written["a"]) /\ j = Len(written["b"])
      BY <3>3
    <3>6. \/ Len(written'["a"]) = i + n /\ Len(written'["b"]) = j
          \/ Len(written'["a"]) = i /\ Len(written'["b"]) = j + n
      BY <3>1, <3>2, <3>4, <3>5
    <3>7. PICK m \in Nat : m = n
      BY <3>3
    <3>8. (i + m) + j = i + j + m /\ i + (j + m) = i + j + m
      OBVIOUS
    <3> QED
      BY <3>5, <3>6, <3>7, <3>8
  <2>3. result.is # "Ok"
    BY <1>2, SidesFact DEF DirectInv, Returned
  <2>4. PICK m \in Nat : m = Len(written["a"]) + Len(written["b"])
    <3>1. PICK i \in Nat, j \in Nat : i = Len(written["a"]) /\ j = Len(written["b"])
      BY <1>3, DirectSide, SidesFact
    <3>2. i + j \in Nat
      OBVIOUS
    <3> QED
      BY <3>1, <3>2
  <2>5. put \in Nat /\ n \in Nat /\ transferred \in Nat
    BY <1>3, <1>4, <1>5, DirectSide
  <2>6. result.is # "Err" => transferred + put = m
    BY <2>1, <2>4 DEF DirectInv, CountIsExact
  <2>7. result.is # "Err" => transferred + (put + n) = m + n
    BY <2>5, <2>6
  <2> QED
    BY <1>2, <2>1, <2>2, <2>3, <2>4, <2>7 DEF CountIsExact
<1>12. (branch = "done" <=> Returned)' /\ EndedSideIsDelivered'
  <2>1. result.is # "Ok"
    BY <1>2, SidesFact DEF DirectInv, Returned
  <2> QED
    BY <1>2, <2>1 DEF DirectInv, Returned, EndedSideIsDelivered
<1> QED
  BY <1>8, <1>9, <1>10, <1>11, <1>12 DEF DirectInv

\* A chunk that is written and flushed is counted.
LEMMA DirectFlushed ==
  ASSUME DirectInv, NEW s \in Sides, Flushed(s)
  PROVE  DirectInv'
<1>1. /\ branch = s /\ put = Len(chunk) /\ branch' = "select"
      /\ transferred' = transferred + Len(chunk)
      /\ UNCHANGED <<peer, taken, written, seen, chunk, put, result>>
  BY DEF Flushed, peers
<1>2. DirectTypes /\ s # "select" /\ s # "done"
  BY SidesFact DEF DirectInv
<1>3. /\ chunk \in Seq(Nat) /\ Len(chunk) \in Nat /\ transferred \in Nat
      /\ written[Other(s)] \in Seq(Nat)
  BY <1>2, DirectSide, SidesFact
<1>4. DirectTypes'
  <2>1. transferred + Len(chunk) \in Nat
    BY <1>3
  <2> QED
    BY <1>1, <1>2, <2>1 DEF DirectTypes, DirectTypeOK, PeersTypeOK
<1>5. Flow(s)'
  <2>1. SubSeq(chunk, Len(chunk) + 1, Len(chunk)) = << >>
    BY <1>3, SubSeqEmpty
  <2>2. written[Other(s)] \o << >> = written[Other(s)]
    BY <1>3, ConcatEmptySeq
  <2>3. written[Other(s)] = SubSeq(peer[s].bytes, 1, taken[s])
    BY <1>1, <2>1, <2>2 DEF DirectInv, Flow
  <2> QED
    BY <1>1, <1>2, <2>3 DEF DirectInv, Flow
<1>6. \A r \in Sides : r # s => Flow(r)'
  BY <1>1, SidesFact DEF DirectInv, Flow
<1>7. CountIsExact'
  <2>1. Uncounted = Len(chunk) /\ Uncounted' = 0
    BY <1>1, SidesFact DEF Uncounted
  <2>2. result.is # "Ok"
    BY <1>1, <1>2 DEF DirectInv, Returned
  <2>3. result.is # "Err" => transferred' + 0 = Len(written["a"]) + Len(written["b"])
    <3>1. PICK c \in Nat, l \in Nat : c = transferred /\ l = Len(chunk)
      BY <1>3
    <3>2. c + l + 0 = c + l
      OBVIOUS
    <3>3. result.is # "Err" => c + l = Len(written["a"]) + Len(written["b"])
      BY <2>1, <3>1 DEF DirectInv, CountIsExact
    <3>4. transferred' = c + l
      BY <1>1, <3>1
    <3> QED
      BY <3>2, <3>3, <3>4
  <2> QED
    BY <1>1, <2>1, <2>2, <2>3 DEF CountIsExact
<1>8. (branch = "done" <=> Returned)' /\ EndedSideIsDelivered'
  BY <1>1, <1>2 DEF DirectInv, Returned, EndedSideIsDelivered, Delivered, ReadFails
<1> QED
  BY <1>4, <1>5, <1>6, <1>7, <1>8 DEF DirectInv

\* The splice returns: at the end of either stream, or when a write fails.
LEMMA DirectFinish ==
  ASSUME DirectInv, NEW s \in Sides, ReadEof(s) \/ ReadError(s) \/ WriteError(s)
  PROVE  DirectInv'
<1>1. /\ UNCHANGED <<peer, taken, written, seen, chunk, put, transferred>>
      /\ branch' = "done" /\ branch # "done"
      /\ \/ branch = "select" /\ result' = [is |-> "Ok", bytes |-> transferred]
         \/ result' = [is |-> "Err"]
  BY SidesFact DEF ReadEof, ReadError, WriteError, Finish, peers
<1>2. DirectTypes /\ \A r \in Sides : Flow(r)
  BY DEF DirectInv
<1>3. result.is = "none"
  BY <1>1, <1>2 DEF DirectInv, Returned
<1>4. DirectTypes'
  <2>1. result' \in [is : {"none", "Err"}] \cup [is : {"Ok"}, bytes : Nat]
    BY <1>1, <1>2 DEF DirectTypes, DirectTypeOK
  <2> QED
    BY <1>1, <1>2, <2>1 DEF DirectTypes, DirectTypeOK, PeersTypeOK
<1>5. \A r \in Sides : Flow(r)'
  <2>1. result'.is # "Err" => branch = "select"
    BY <1>1
  <2> QED
    BY <1>1, <1>2, <1>3, <2>1, SidesFact DEF Flow
<1>6. CountIsExact'
  <2>1. Uncounted' = 0 /\ (branch = "select" => Uncounted = 0)
    BY <1>1, SidesFact DEF Uncounted
  <2>2. CASE branch = "select"
    <3>1. transferred + Uncounted = Len(written["a"]) + Len(written["b"])
      BY <1>3 DEF DirectInv, CountIsExact
    <3>2. transferred' + Uncounted' = Len(written'["a"]) + Len(written'["b"])
      <4>1. transferred' + Uncounted' = transferred + Uncounted
        BY <1>1, <2>1, <2>2
      <4>2. written' = written
        BY <1>1
      <4> QED
        BY <3>1, <4>1, <4>2, Zenon
    <3>3. result'.is = "Ok" => result'.bytes = transferred'
      BY <1>1
    <3> QED
      BY <3>2, <3>3 DEF CountIsExact
  <2>3. CASE result' = [is |-> "Err"]
    BY <2>3 DEF CountIsExact
  <2> QED
    BY <1>1, <2>2, <2>3
<1>7. EndedSideIsDelivered'
  <2>1. CASE ReadEof(s)
    <3>1. branch = "select" /\ taken[s] = Len(peer[s].bytes)
      BY <2>1 DEF ReadEof, AtEof
    <3>2. written[Other(s)] = SubSeq(peer[s].bytes, 1, Len(peer[s].bytes))
      BY <1>2, <1>3, <3>1, SidesFact DEF Flow
    <3>3. written[Other(s)] = peer[s].bytes
      BY <1>2, <3>2, DirectSide, SubSeqFull
    <3>4. peer[s].end \in {"eof", "gone"}
      BY <2>1 DEF ReadEof, AtEof
    <3> QED
      BY <1>1, <3>3, <3>4 DEF EndedSideIsDelivered, Delivered
  <2>2. CASE ReadError(s)
    BY <1>1, <2>2 DEF ReadError, EndedSideIsDelivered, ReadFails
  <2>3. CASE WriteError(s)
    BY <2>3 DEF WriteError, Finish, EndedSideIsDelivered
  <2> QED
    BY <2>1, <2>2, <2>3
<1>8. (branch = "done" <=> Returned)'
  BY <1>1 DEF Returned
<1> QED
  BY <1>4, <1>5, <1>6, <1>7, <1>8 DEF DirectInv

LEMMA DirectDrain ==
  ASSUME DirectInv, NEW s \in Sides, Drain(s)
  PROVE  DirectInv'
<1>1. /\ seen' = [seen EXCEPT ![s] = Len(written[s])]
      /\ UNCHANGED <<peer, taken, written, result, branch, chunk, put, transferred>>
  BY DEF Drain, PeerReads, directVars
<1>2. DirectTypes
  BY DEF DirectInv
<1>3. Len(written[s]) \in Nat /\ Window \in Nat
  BY <1>2, DirectSide
<1>4. DirectTypes'
  BY <1>1, <1>2, <1>3, SMTT(30) DEF DirectTypes, DirectTypeOK, PeersTypeOK
<1> QED
  BY <1>1, <1>4 DEF DirectInv, Flow, CountIsExact, Uncounted, Returned,
                    EndedSideIsDelivered, Delivered, ReadFails

-----------------------------------------------------------------------------
(* The splice at work.                                                     *)

LEMMA SpliceInit == Init => SpliceInv
BY TcpStarts, DirectStarts DEF Init, SpliceInv

LEMMA SpliceStep == SpliceInv /\ [Next]_vars => SpliceInv'
<1> SUFFICES ASSUME SpliceInv, [Next]_vars
             PROVE  SpliceInv'
  OBVIOUS
<1>1. CASE UNCHANGED vars
  <2>1. UNCHANGED <<which, peer, taken, written, seen, result, branch, chunk, put,
                    transferred, task, buf>>
    BY <1>1 DEF vars, peers, directVars, tcpVars
  <2>2. DirectInv => DirectInv'
    BY <2>1 DEF DirectInv, DirectTypes, DirectTypeOK, PeersTypeOK, Flow, CountIsExact,
                Uncounted, Returned, EndedSideIsDelivered, Delivered, ReadFails
  <2>3. TcpInv => TcpInv'
    BY <2>1 DEF TcpInv, TcpTypes, TcpTypeOK, PeersTypeOK, TcpBytesConserved,
                DoneIsExhausted, JoinedIsDone, ResultIsExact, Returned, Closed
  <2> QED
    BY <2>1, <2>2, <2>3 DEF SpliceInv
<1>2. CASE IsTcp /\ Join
  BY <1>2, TcpOther, SidesFact DEF SpliceInv, IsTcp
<1>3. ASSUME NEW s \in Sides, IsTcp,
             CopyRead(s) \/ CopyWrite(s) \/ CopyEof(s) \/ CopyError(s)
      PROVE  SpliceInv'
  BY <1>3, TcpRead, TcpWrite, TcpOther DEF SpliceInv, IsTcp
<1>4. ASSUME NEW s \in Sides, IsDirect,
             \/ ReadChunk(s) \/ ReadEof(s) \/ ReadError(s)
             \/ WriteAll(s) \/ Flushed(s) \/ WriteError(s)
      PROVE  SpliceInv'
  BY <1>4, DirectRead, DirectWrite, DirectFlushed, DirectFinish DEF SpliceInv, IsDirect
<1>5. ASSUME NEW s \in Sides, Drain(s)
      PROVE  SpliceInv'
  BY <1>5, DirectDrain, TcpOther DEF SpliceInv, Drain
<1> QED
  BY <1>1, <1>2, <1>3, <1>4, <1>5 DEF Next

LEMMA SpliceInvariant == Spec => []SpliceInv
BY SpliceInit, SpliceStep, PTL DEF Spec

(***************************************************************************)
(* The types: neither a copy buffer nor a socket holds more than it can,   *)
(* and write_all never goes past its chunk.                                *)
(***************************************************************************)
THEOREM SpliceTypes == Spec => []TypeOK
<1>1. SpliceInv => TypeOK
  BY DEF SpliceInv, DirectInv, TcpInv, DirectTypes, TcpTypes, TypeOK
<1> QED
  BY SpliceInvariant, <1>1, PTL

(***************************************************************************)
(* Either splice keeps the bytes of each direction in order.  The two      *)
(* tasks of tcp_splice lose none until a task fails; DirectSplice loses    *)
(* none in the branch that loses a select!, and of a write that fails only *)
(* the rest of its chunk.                                                  *)
(***************************************************************************)
THEOREM SpliceConservesBytes == Spec => []BytesConserved
<1>1. ASSUME DirectInv, NEW s \in Sides
      PROVE  LET w == written[Other(s)]
             IN  /\ w = SubSeq(peer[s].bytes, 1, Len(w))
                 /\ branch = s => taken[s] = Len(w) + Len(chunk) - put
                 /\ branch # s /\ result.is # "Err" => taken[s] = Len(w)
  <2> DEFINE w == written[Other(s)]
             q == peer[s].bytes
             z == SubSeq(chunk, put + 1, Len(chunk))
  <2>1. DirectTypes /\ Flow(s)
    BY <1>1 DEF DirectInv
  <2>2. /\ q \in Seq(Nat) /\ Len(q) \in Nat /\ taken[s] \in Nat /\ taken[s] <= Len(q)
        /\ w \in Seq(Nat) /\ Len(w) \in Nat
        /\ chunk \in Seq(Nat) /\ Len(chunk) \in Nat /\ put \in 0 .. Len(chunk)
    BY <2>1, DirectSide, SidesFact
  <2>3. ASSUME branch = s PROVE taken[s] = Len(w) + Len(chunk) - put
    <3>1. PICK l \in Nat, p \in Nat : l = Len(chunk) /\ p = put /\ p <= l
      BY <2>2
    <3>2. p + 1 \in Nat \ {0} /\ l \in Int /\ l <= Len(chunk)
      BY <3>1
    <3>3. z \in Seq(Nat) /\ Len(z) = IF p + 1 <= l THEN l - (p + 1) + 1 ELSE 0
      BY <2>2, <3>1, <3>2, Part
    <3>4. Len(z) = l - p
      BY <3>1, <3>3
    <3>5. w \o z = SubSeq(q, 1, taken[s])
      BY <2>1, <2>3 DEF Flow
    <3> HIDE DEF w, q, z
    <3>6. Len(w) + Len(z) = taken[s]
      <4>1. /\ w \in Seq(Nat) /\ z \in Seq(Nat) /\ q \in Seq(Nat)
            /\ taken[s] \in Nat /\ taken[s] <= Len(q)
        BY <2>2, <3>3
      <4>2. PICK n \in Nat : n = taken[s]
        BY <4>1
      <4>3. n <= Len(q) /\ w \o z = SubSeq(q, 1, n)
        BY <3>5, <4>1, <4>2
      <4>4. Len(w) + Len(z) = n
        <5>1. n \in Int /\ Len(SubSeq(q, 1, n)) = IF 1 <= n THEN n - 1 + 1 ELSE 0
          BY <4>1, <4>3, Part
        <5>2. Len(w \o z) = Len(w) + Len(z)
          BY <4>1, ConcatProperties
        <5> QED
          BY <4>3, <5>1, <5>2
      <4> QED
        BY <4>2, <4>4
    <3> QED
      BY <2>2, <3>1, <3>4, <3>6
  <2>4. ASSUME branch # s, result.is # "Err" PROVE taken[s] = Len(w)
    <3>1. w = SubSeq(q, 1, taken[s])
      BY <2>1, <2>4 DEF Flow
    <3>2. PICK t \in Nat : t = taken[s] /\ t \in Int /\ t <= Len(q)
      BY <2>2
    <3>3. Len(SubSeq(q, 1, t)) = IF 1 <= t THEN t - 1 + 1 ELSE 0
      BY <2>2, <3>2, Part
    <3> QED
      BY <3>1, <3>2, <3>3
  <2>5. w = SubSeq(q, 1, Len(w))
    BY <2>1 DEF Flow
  <2> QED
    BY <2>3, <2>4, <2>5
<1>2. DirectInv => DirectBytesConserved
  BY <1>1 DEF DirectBytesConserved
<1>3. SpliceInv => BytesConserved
  BY <1>2 DEF SpliceInv, TcpInv, BytesConserved
<1> QED
  BY SpliceInvariant, <1>3, PTL

(***************************************************************************)
(* Ok means that a peer ended and DirectSplice passed on everything it     *)
(* sent, or that it was reset, and that tcp_splice passed on both          *)
(* directions.                                                             *)
(***************************************************************************)
THEOREM SpliceOkIsComplete == Spec => []OkIsComplete
<1>1. TcpInv => TcpOkIsComplete
  BY TcpOkDelivers DEF TcpOkIsComplete
<1>2. SpliceInv => OkIsComplete
  BY <1>1 DEF SpliceInv, DirectInv, OkIsComplete
<1> QED
  BY SpliceInvariant, <1>2, PTL

(***************************************************************************)
(* Ok(n): n is the number of bytes that the two peers were given.          *)
(***************************************************************************)
THEOREM SpliceCounts == Spec => []CountIsWhatWasWritten
<1>1. ASSUME TcpInv, result.is = "Ok"
      PROVE  result.bytes = Len(written["a"]) + Len(written["b"])
  <2>1. Len(written["b"]) = taken["a"] /\ Len(written["a"]) = taken["b"]
    BY <1>1, TcpOkDelivers, SidesFact DEF Other
  <2>2. taken["a"] \in Nat /\ taken["b"] \in Nat
    BY <1>1, TcpSide, SidesFact DEF TcpInv
  <2>3. result.bytes = taken["a"] + taken["b"]
    BY <1>1 DEF TcpInv, ResultIsExact
  <2> QED
    BY <2>1, <2>2, <2>3
<1>2. ASSUME DirectInv, result.is = "Ok"
      PROVE  result.bytes = Len(written["a"]) + Len(written["b"])
  <2>1. branch = "done" /\ Uncounted = 0
    BY <1>2, SidesFact DEF DirectInv, Returned, Uncounted
  <2>2. transferred \in Nat
    BY <1>2 DEF DirectInv, DirectTypes, DirectTypeOK
  <2>3. PICK c \in Nat : c = transferred
    BY <2>2
  <2>4. c + 0 = c
    OBVIOUS
  <2>5. /\ transferred + Uncounted = Len(written["a"]) + Len(written["b"])
        /\ result.bytes = transferred
    BY <1>2 DEF DirectInv, CountIsExact
  <2> QED
    BY <2>1, <2>3, <2>4, <2>5
<1>3. SpliceInv => CountIsWhatWasWritten
  BY <1>1, <1>2 DEF SpliceInv, CountIsWhatWasWritten
<1> QED
  BY SpliceInvariant, <1>3, PTL

=============================================================================
