----------------------------- MODULE TcpSplice ------------------------------
(***************************************************************************)
(* tcp_splice (src/src/reality/splice.rs, 137-166): each stream is split   *)
(* in two halves and each direction is a task that runs tokio::io::copy    *)
(* from a BufReader to a BufWriter; the caller joins both tasks and adds   *)
(* the counts.  tokio::io::copy is external: it reads while it has room,   *)
(* writes what it has, flushes before it waits, and at the end of its      *)
(* source flushes and returns; it does not shut its destination down, and  *)
(* when it fails what it holds is lost.  The halves of a stream belong to  *)
(* different tasks, so a stream is closed when both tasks are over.        *)
(* Module Splice lets the peers act between the steps.                     *)
(***************************************************************************)
EXTENDS SplicePeers

VARIABLES
  task,    \* of the direction that reads from a side: copy, ok or err
  buf      \* what that task has read and its destination has not taken

tcpVars == <<task, buf>>

TcpInit ==
  /\ task = [s \in Sides |-> "copy"]
  /\ buf = [s \in Sides |-> << >>]

Closed == \A s \in Sides : task[s] # "copy"

CopyRead(s) ==
  /\ task[s] = "copy"
  /\ \E n \in Readable(s) :
       /\ Len(buf[s]) + n <= BUFFER_SIZE
       /\ buf' = [buf EXCEPT ![s] = @ \o NextBytes(s, n)]
       /\ taken' = [taken EXCEPT ![s] = @ + n]
  /\ UNCHANGED <<peer, written, seen, task, result>>

\* Mutant: one direction waits for the other, as it would in one task.
CopyWriteInTurn(s) ==
  /\ task[s] = "copy"
  /\ buf[Other(s)] = << >> \/ s = "a"
  /\ \E n \in 1 .. Len(buf[s]) :
       /\ n <= Room(Other(s))
       /\ written' = [written EXCEPT ![Other(s)] = @ \o SubSeq(buf[s], 1, n)]
       /\ buf' = [buf EXCEPT ![s] = SubSeq(@, n + 1, Len(@))]
  /\ UNCHANGED <<peer, taken, seen, task, result>>

CopyWrite(s) ==
  /\ task[s] = "copy"
  /\ \E n \in 1 .. Len(buf[s]) :
       /\ n <= Room(Other(s))
       /\ written' = [written EXCEPT ![Other(s)] = @ \o SubSeq(buf[s], 1, n)]
       /\ buf' = [buf EXCEPT ![s] = SubSeq(@, n + 1, Len(@))]
  /\ UNCHANGED <<peer, taken, seen, task, result>>

\* The source has ended and the last byte is flushed: the task returns Ok and
\* drops its two halves.
CopyEof(s) ==
  /\ task[s] = "copy"
  /\ AtEof(s, Closed)
  /\ buf[s] = << >>
  /\ task' = [task EXCEPT ![s] = "ok"]
  /\ UNCHANGED <<peers, buf, result>>

\* A read or a write fails: the task returns Err, its buffers are dropped.
CopyError(s) ==
  /\ task[s] = "copy"
  /\ ReadFails(s) \/ (buf[s] # << >> /\ WriteFails(Other(s)))
  /\ task' = [task EXCEPT ![s] = "err"]
  /\ buf' = [buf EXCEPT ![s] = << >>]
  /\ UNCHANGED <<peers, result>>

Copy(s) == CopyRead(s) \/ CopyWrite(s) \/ CopyEof(s) \/ CopyError(s)

\* Mutant: an error of either task is waited out for ever.
JoinOnlyOk ==
  /\ result.is = "none"
  /\ \A s \in Sides : task[s] = "ok"
  /\ result' = [is |-> "Ok", bytes |-> taken["a"] + taken["b"]]
  /\ UNCHANGED <<peers, task, buf>>

\* try_join! waits for both: a task that returned an Err has not failed to
\* join.  Then `tx_bytes? + rx_bytes?'; copy counts what it has taken from its
\* source and passed on.
Join ==
  /\ result.is = "none"
  /\ Closed
  /\ result' = IF \A s \in Sides : task[s] = "ok"
                 THEN [is |-> "Ok", bytes |-> taken["a"] + taken["b"]]
                 ELSE [is |-> "Err"]
  /\ UNCHANGED <<peers, task, buf>>

-----------------------------------------------------------------------------
(***************************************************************************)
(* The types, and that a copy buffer holds no more than it can.            *)
(***************************************************************************)
TcpTypeOK ==
  /\ task \in [Sides -> {"copy", "ok", "err"}]
  /\ buf \in [Sides -> Seq(Nat)]
  /\ \A s \in Sides : Len(buf[s]) <= BUFFER_SIZE

(***************************************************************************)
(* The bytes of each direction arrive in order, and until its task fails   *)
(* none that was read is missing.                                          *)
(***************************************************************************)
TcpBytesConserved ==
  \A s \in Sides :
    LET w == written[Other(s)]
    IN  /\ w = SubSeq(peer[s].bytes, 1, Len(w))
        /\ task[s] # "err" =>
             w \o buf[s] = SubSeq(peer[s].bytes, 1, taken[s])

(***************************************************************************)
(* When tcp_splice returns Ok, both peers were given everything the other  *)
(* sent.                                                                   *)
(***************************************************************************)
TcpOkIsComplete == result.is = "Ok" => \A s \in Sides : Delivered(s)

(***************************************************************************)
(* "The two directions run in tasks of their own and do not block each     *)
(* other" (src/XTLS_REALITY_DESIGN.md, 202): what a peer sends reaches the *)
(* other one if that one reads and neither of them breaks off, whatever    *)
(* becomes of the opposite direction.                                      *)
(***************************************************************************)
DirectionsIndependent ==
  \A s \in Sides :
    (/\ peer[s].end # "reset"
     /\ peer[Other(s)].reads
     /\ ~WriteFails(Other(s)))
      => <>Delivered(s)

(***************************************************************************)
(* Of two peers that read, tcp_splice returns when both end on their own.  *)
(***************************************************************************)
TcpReturns ==
  (\A s \in Sides : peer[s].reads /\ peer[s].end \in {"eof", "gone", "reset"})
    => <>Returned

=============================================================================
