---------------------------- MODULE DirectSplice ----------------------------
(***************************************************************************)
(* DirectSplice::splice (src/src/reality/splice.rs, 6-75): one task, one   *)
(* select! between a read from either stream, and the write_all of what    *)
(* was read inside the branch.  `a' is self.reader, `b' is self.writer.    *)
(* Dropping the read that lost the select! loses nothing: a read that has  *)
(* not returned has taken nothing.  The WouldBlock arm is not modelled:    *)
(* tokio turns that error into a pending read.  Module Splice lets the     *)
(* peers act between the steps.                                            *)
(***************************************************************************)
EXTENDS SplicePeers

VARIABLES
  branch,        \* select, the side whose bytes are being written, or done
  chunk,         \* buf[..n] of the branch taken
  put,           \* how much of it write_all has written
  transferred    \* self.bytes_transferred

directVars == <<branch, chunk, put, transferred>>

DirectInit ==
  /\ branch = "select"
  /\ chunk = << >>
  /\ put = 0
  /\ transferred = 0

Finish(r) ==
  /\ branch' = "done"
  /\ result' = IF r = "Ok" THEN [is |-> "Ok", bytes |-> transferred] ELSE [is |-> "Err"]
  /\ UNCHANGED <<peers, chunk, put, transferred>>

\* Mutant: the place in the last chunk is kept.
ReadChunkKeepsPlace(s) ==
  /\ branch = "select"
  /\ \E n \in Readable(s) :
       /\ chunk' = NextBytes(s, n)
       /\ taken' = [taken EXCEPT ![s] = @ + n]
  /\ branch' = s
  /\ UNCHANGED <<peer, written, seen, put, transferred, result>>

\* Ok(n): the branch of s is taken with n bytes.
ReadChunk(s) ==
  /\ branch = "select"
  /\ \E n \in Readable(s) :
       /\ chunk' = NextBytes(s, n)
       /\ taken' = [taken EXCEPT ![s] = @ + n]
  /\ put' = 0
  /\ branch' = s
  /\ UNCHANGED <<peer, written, seen, transferred, result>>

\* Ok(0), and any error of a read, leave the loop for both directions.
ReadEof(s) ==
  /\ branch = "select"
  /\ AtEof(s, FALSE)
  /\ Finish("Ok")

\* Mutant: a read that has nothing to give, WouldBlock, ends the loop too.
ReadErrorAny(s) ==
  /\ branch = "select"
  /\ Finish("Ok")

ReadError(s) ==
  /\ branch = "select"
  /\ ReadFails(s)
  /\ Finish("Ok")

\* Mutant: a partial write starts again at the front of the chunk.
WriteAllAgain(s) ==
  /\ branch = s
  /\ \E n \in 1 .. Len(chunk) - put :
       /\ n <= Room(Other(s))
       /\ written' = [written EXCEPT ![Other(s)] = @ \o SubSeq(chunk, 1, n)]
       /\ put' = put + n
  /\ UNCHANGED <<peer, taken, seen, branch, chunk, transferred, result>>

\* One write of write_all, as much as the socket takes.
WriteAll(s) ==
  /\ branch = s
  /\ \E n \in 1 .. Len(chunk) - put :
       /\ n <= Room(Other(s))
       /\ written' = [written EXCEPT
                        ![Other(s)] = @ \o SubSeq(chunk, put + 1, put + n)]
       /\ put' = put + n
  /\ UNCHANGED <<peer, taken, seen, branch, chunk, transferred, result>>

\* Mutant: the second branch forgets to count.
FlushedOneWay(s) ==
  /\ branch = s
  /\ put = Len(chunk)
  /\ transferred' = IF s = "a" THEN transferred + Len(chunk) ELSE transferred
  /\ branch' = "select"
  /\ UNCHANGED <<peers, chunk, put, result>>

\* write_all and flush are done, the bytes are counted, the loop goes round.
Flushed(s) ==
  /\ branch = s
  /\ put = Len(chunk)
  /\ transferred' = transferred + Len(chunk)
  /\ branch' = "select"
  /\ UNCHANGED <<peers, chunk, put, result>>

\* write_all(..).await? fails.
WriteError(s) ==
  /\ branch = s
  /\ WriteFails(Other(s))
  /\ Finish("Err")

DirectStep(s) ==
  \/ ReadChunk(s) \/ ReadEof(s) \/ ReadError(s)
  \/ WriteAll(s) \/ Flushed(s) \/ WriteError(s)

-----------------------------------------------------------------------------
(***************************************************************************)
(* The types: what write_all has written of a chunk is part of it.         *)
(***************************************************************************)
DirectTypeOK ==
  /\ branch \in Sides \cup {"select", "done"}
  /\ chunk \in Seq(Nat)
  /\ put \in 0 .. Len(chunk)
  /\ transferred \in Nat

(***************************************************************************)
(* The bytes of each direction arrive in order and none is dropped by the  *)
(* branch that lost the select!: what was written is what was read up to   *)
(* the part of the current chunk that is still to be written.              *)
(***************************************************************************)
DirectBytesConserved ==
  \A s \in Sides :
    LET w == written[Other(s)]
    IN  /\ w = SubSeq(peer[s].bytes, 1, Len(w))
        /\ branch = s => taken[s] = Len(w) + Len(chunk) - put
        /\ branch # s /\ result.is # "Err" => taken[s] = Len(w)

(***************************************************************************)
(* A splice that returns Ok met an end: of a peer that closed after its    *)
(* last byte, all of which was passed on, or of one that was reset.  It    *)
(* says nothing of the other peer: see CopiesBothWays in module Splice.    *)
(***************************************************************************)
EndedSideIsDelivered ==
  result.is = "Ok" =>
    \E s \in Sides : \/ peer[s].end \in {"eof", "gone"} /\ Delivered(s)
                    \/ ReadFails(s)

(***************************************************************************)
(* When both peers read and one of them ends, the splice returns.          *)
(***************************************************************************)
DirectReturns ==
  (/\ \A s \in Sides : peer[s].reads
   /\ \E s \in Sides : peer[s].end \in {"eof", "gone", "reset"})
    => <>Returned

(***************************************************************************)
(* While nobody ends and both peers read, each is given everything the     *)
(* other sends.  Both have to read: while one direction waits in write_all *)
(* for a peer that does not, the other one is not served.                  *)
(***************************************************************************)
DirectServes ==
  (\A s \in Sides : peer[s].reads /\ peer[s].end \in {"open", "waits"})
    => <>(\A s \in Sides : Delivered(s))

=============================================================================
