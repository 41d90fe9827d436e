------------------------------- MODULE Splice -------------------------------
(***************************************************************************)
(* One splice of src/src/reality/splice.rs at work between two peers: a    *)
(* DirectSplice or a tcp_splice, whichever its caller has chosen.          *)
(***************************************************************************)
EXTENDS DirectSplice, TcpSplice

VARIABLE which   \* the splice at work: direct or tcp

vars == <<which, peers, result, directVars, tcpVars>>

Init == which \in {"direct", "tcp"} /\ PeersInit /\ DirectInit /\ TcpInit

\* The other one stands still.
IsDirect == which = "direct" /\ UNCHANGED <<which, tcpVars>>
IsTcp    == which = "tcp" /\ UNCHANGED <<which, directVars>>

Drain(s) == PeerReads(s) /\ UNCHANGED <<which, directVars, tcpVars>>

Next ==
  \/ IsTcp /\ Join
  \/ \E s \in Sides :
       \/ IsDirect /\ ReadChunk(s)
       \/ IsDirect /\ ReadEof(s)
       \/ IsDirect /\ ReadError(s)
       \/ IsDirect /\ WriteAll(s)
       \/ IsDirect /\ Flushed(s)
       \/ IsDirect /\ WriteError(s)
       \/ IsTcp /\ CopyRead(s)
       \/ IsTcp /\ CopyWrite(s)
       \/ IsTcp /\ CopyEof(s)
       \/ IsTcp /\ CopyError(s)
       \/ Drain(s)

Spec == Init /\ [][Next]_vars

\* The runtime polls the task of DirectSplice, both tasks of tcp_splice and its
\* caller when they can move, and a peer that reads keeps reading.
Fairness ==
  /\ WF_vars(IsDirect /\ \E s \in Sides : DirectStep(s))
  /\ WF_vars(IsTcp /\ Join)
  /\ \A s \in Sides : WF_vars(IsTcp /\ Copy(s)) /\ WF_vars(Drain(s))
FairSpec == Spec /\ Fairness

-----------------------------------------------------------------------------
(***************************************************************************)
(* The types of the splice at work, and that no socket is given more than  *)
(* it takes.                                                               *)
(***************************************************************************)
TypeOK ==
  /\ PeersTypeOK
  /\ which \in {"direct", "tcp"}
  /\ IF which = "direct" THEN DirectTypeOK ELSE TcpTypeOK

(***************************************************************************)
(* Neither loses, repeats or reorders a byte it has read.                  *)
(***************************************************************************)
BytesConserved == IF which = "direct" THEN DirectBytesConserved ELSE TcpBytesConserved

(***************************************************************************)
(* What Ok means: for DirectSplice that the direction of the peer that     *)
(* ended is complete, for tcp_splice that both are.                        *)
(***************************************************************************)
OkIsComplete == IF which = "direct" THEN EndedSideIsDelivered ELSE TcpOkIsComplete

(***************************************************************************)
(* The ends of its peers after which each returns.                         *)
(***************************************************************************)
SpliceReturns ==
  /\ which = "direct" => DirectReturns
  /\ which = "tcp" => TcpReturns

(***************************************************************************)
(* Which peers are served whatever the other one does.                     *)
(***************************************************************************)
ReadersAreServed ==
  /\ which = "direct" => DirectServes
  /\ which = "tcp" => DirectionsIndependent

(***************************************************************************)
(* What copy_bidirectional does, which src/XTLS_REALITY_DESIGN.md, 48, 161 *)
(* and 318, names as the means of both splices: of two peers that read,    *)
(* one that closes its half and one that does so too or answers the end it *)
(* is passed, all of both directions arrives and Ok is returned.  Neither  *)
(* does it.  DirectSplice leaves its loop at the first Ok(0) (splice.rs,   *)
(* 36) with the other direction unread.  tcp_splice never shuts a          *)
(* destination down (splice.rs, 147-161), so a peer that waits for the end *)
(* is never given it and both sockets are held for ever.                   *)
(***************************************************************************)
CopiesBothWays ==
  (/\ \A s \in Sides : peer[s].reads /\ peer[s].end \in {"eof", "waits"}
   /\ \E s \in Sides : peer[s].end = "eof")
    => <>(result.is = "Ok" /\ \A s \in Sides : Delivered(s))

=============================================================================
