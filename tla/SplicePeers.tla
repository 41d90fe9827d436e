----------------------------- MODULE SplicePeers ----------------------------
(***************************************************************************)
(* The two streams a splice joins (src/src/reality/splice.rs), seen from   *)
(* the server: what each peer sends, how it ends, and how much of what is  *)
(* written to it its socket takes.  DirectSplice and TcpSplice add the     *)
(* code that moves the bytes.                                              *)
(***************************************************************************)
EXTENDS Integers, Sequences

CONSTANTS
  Peers,        \* the peers to choose from, see PeerType
  Window,       \* bytes a socket takes ahead of a peer that does not read
  BUFFER_SIZE   \* bytes of a copy buffer

Ends == {"open", "waits", "eof", "gone", "reset"}

\* What a peer sends, whether it reads, and how it ends: it stays open, it
\* closes its half once it has seen the end of the other direction, it closes
\* its half (eof) or both (gone) after its bytes, or it resets at any moment.
PeerType == [bytes : Seq(Nat), reads : BOOLEAN, end : Ends]

ASSUME SpliceAssumption ==
  /\ \A p \in Peers : p \in PeerType
  /\ Window \in Nat \ {0}
  /\ BUFFER_SIZE \in Nat \ {0}

VARIABLES
  peer,      \* per side, who it is
  taken,     \* bytes read from each side
  written,   \* bytes written to each side
  seen,      \* how many of those its peer has read
  result     \* what splice returns: none, Err, or Ok and a count

peers == <<peer, taken, written, seen>>

Sides == {"a", "b"}
Other(s) == IF s = "a" THEN "b" ELSE "a"

PeersInit ==
  /\ peer \in [Sides -> Peers]
  /\ taken = [s \in Sides |-> 0]
  /\ written = [s \in Sides |-> << >>]
  /\ seen = [s \in Sides |-> 0]
  /\ result = [is |-> "none"]

\* Up to n bytes, the next that side s has to give.
NextBytes(s, n) == SubSeq(peer[s].bytes, taken[s] + 1, taken[s] + n)
Readable(s) == {n \in 1 .. BUFFER_SIZE : taken[s] + n <= Len(peer[s].bytes)}

\* The read from s returns 0.  `closed': the server has dropped both halves of
\* its streams, which is when a peer sees their end.
AtEof(s, closed) ==
  /\ taken[s] = Len(peer[s].bytes)
  /\ \/ peer[s].end \in {"eof", "gone"}
     \/ peer[s].end = "waits" /\ closed

ReadFails(s)  == peer[s].end = "reset"
WriteFails(s) == peer[s].end \in {"reset", "gone"}

Room(s) == Window - (Len(written[s]) - seen[s])

\* The peer behind s reads all that has reached it.
PeerReads(s) ==
  /\ peer[s].reads
  /\ seen[s] < Len(written[s])
  /\ seen' = [seen EXCEPT ![s] = Len(written[s])]
  /\ UNCHANGED <<peer, taken, written, result>>

-----------------------------------------------------------------------------
PeersTypeOK ==
  /\ peer \in [Sides -> Peers]
  /\ taken \in [Sides -> Nat]
  /\ written \in [Sides -> Seq(Nat)]
  /\ seen \in [Sides -> Nat]
  /\ \A s \in Sides : /\ taken[s] <= Len(peer[s].bytes)
                      /\ Len(written[s]) - seen[s] \in 0 .. Window
  /\ result \in [is : {"none", "Err"}] \cup [is : {"Ok"}, bytes : Nat]

Delivered(s) == written[Other(s)] = peer[s].bytes
Returned == result.is # "none"

(***************************************************************************)
(* The count of a splice that returns Ok is the number of bytes the two    *)
(* peers were given, partial writes and both directions included.          *)
(***************************************************************************)
CountIsWhatWasWritten ==
  result.is = "Ok" => result.bytes = Len(written["a"]) + Len(written["b"])

=============================================================================
