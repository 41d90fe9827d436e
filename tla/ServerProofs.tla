---------------------------- MODULE ServerProofs ----------------------------
(***************************************************************************)
(* The permit accounting of Server, for any number of connections and any  *)
(* max_connections.  Module StartupProofs concludes for the whole program. *)
(***************************************************************************)
EXTENDS Server, FiniteSetTheorems, SequenceTheorems, TLAPS

\* The inductive invariant.  PermitsConserved needs QueuedOnce: an accept adds
\* one task to the count only if the connection had none.
PermitInv ==
  /\ limit \in Nat
  /\ loop \in {"Off", "Acquire", "Accept"}
  /\ permits \in Nat
  /\ backlog \in Seq(Conns)
  /\ task \in [Conns -> Stages]
  /\ QueuedOnce
  /\ PermitsConserved

\* At(...) is a set of connections, hence finite.
LEMMA AtFinite ==
  ASSUME NEW stages
  PROVE  /\ IsFiniteSet(At(stages))
         /\ Cardinality(At(stages)) \in Nat
<1>1. At(stages) \in SUBSET Conns
  BY DEF At
<1>2. IsFiniteSet(At(stages))
  BY <1>1, FS_Subset, ServerAssumption
<1> QED
  BY <1>2, FS_CardinalityType

\* A task that starts adds one to the number of tasks,
LEMMA TaskStarts ==
  ASSUME task \in [Conns -> Stages], NEW c \in Conns,
         task[c] \notin InTask,
         NEW s \in InTask, task' = [task EXCEPT ![c] = s]
  PROVE  Cardinality(At(InTask)') = Cardinality(At(InTask)) + 1
<1>1. At(InTask)' = At(InTask) \cup {c} /\ c \notin At(InTask)
  BY DEF At, InTask
<1> QED
  BY <1>1, AtFinite, FS_AddElement

\* one that ends takes one off,
LEMMA TaskEnds ==
  ASSUME task \in [Conns -> Stages], NEW c \in Conns,
         task[c] \in InTask,
         NEW s, s \notin InTask, task' = [task EXCEPT ![c] = s]
  PROVE  Cardinality(At(InTask)') = Cardinality(At(InTask)) - 1
<1>1. At(InTask)' = At(InTask) \ {c} /\ c \in At(InTask)
  BY DEF At, InTask
<1> QED
  BY <1>1, AtFinite, FS_RemoveElement

\* and every other step leaves the set of tasks as it is.
LEMMA TaskStays ==
  ASSUME task \in [Conns -> Stages], NEW c \in Conns,
         NEW s, task[c] \in InTask <=> s \in InTask,
         task' = [task EXCEPT ![c] = s]
  PROVE  At(InTask)' = At(InTask)
BY DEF At, InTask

LEMMA PermitInit == ServerInit => PermitInv
<1> SUFFICES ASSUME ServerInit PROVE PermitInv
  OBVIOUS
<1>1. At(InTask) = {}
  BY DEF ServerInit, At, InTask
<1>2. Cardinality(At(InTask)) = 0
  BY <1>1, FS_EmptySet
<1>3. QueuedOnce
  BY DEF ServerInit, QueuedOnce
<1> QED
  BY <1>2, <1>3 DEF ServerInit, PermitInv, PermitsConserved, Stages

LEMMA PermitNext == PermitInv /\ [ServerNext]_serverVars => PermitInv'
<1> SUFFICES ASSUME PermitInv, [ServerNext]_serverVars PROVE PermitInv'
  OBVIOUS
<1> USE DEF PermitInv
<1>c. Cardinality(At(InTask)) \in Nat
  BY AtFinite
<1>1. ASSUME NEW c \in Conns, Arrive(c) PROVE PermitInv'
  <2>1. At(InTask)' = At(InTask)
    BY <1>1, TaskStays DEF Arrive, InTask
  <2>2. /\ backlog' \in Seq(Conns)
        /\ Len(backlog') = Len(backlog) + 1
        /\ \A i \in 1 .. Len(backlog) : backlog'[i] = backlog[i]
        /\ backlog'[Len(backlog) + 1] = c
    BY <1>1, AppendProperties DEF Arrive
  <2>3. \A i \in 1 .. Len(backlog) : backlog[i] \in Conns /\ backlog[i] # c
    BY <1>1, ElementOfSeq DEF Arrive, QueuedOnce
  <2>4. QueuedOnce'
    BY <1>1, <2>2, <2>3, LenProperties DEF Arrive, QueuedOnce
  <2> QED
    BY <1>1, <2>1, <2>2, <2>4 DEF Arrive, PermitsConserved, Stages
<1>2. CASE Acquire
  BY <1>2, <1>c DEF Acquire, PermitsConserved, QueuedOnce, At
<1>3. CASE Accept
  <2> DEFINE c == Head(backlog)
  <2>1. /\ c \in Conns
        /\ c = backlog[1]
        /\ 1 \in 1 .. Len(backlog)
        /\ backlog' \in Seq(Conns)
        /\ Len(backlog') = Len(backlog) - 1
        /\ \A i \in 1 .. Len(backlog') : backlog'[i] = backlog[i + 1]
    BY <1>3, HeadTailProperties, EmptySeq, LenProperties DEF Accept
  <2>2. task[c] = "Queued"
    BY <2>1 DEF QueuedOnce
  <2>3. Cardinality(At(InTask)') = Cardinality(At(InTask)) + 1
    BY <1>3, <2>1, <2>2, TaskStarts DEF Accept, InTask
  <2>4. \A i \in 1 .. Len(backlog') :
          i + 1 \in 1 .. Len(backlog) /\ backlog[i + 1] \in Conns /\ backlog[i + 1] # c
    BY <2>1, ElementOfSeq, LenProperties DEF QueuedOnce
  <2>5. QueuedOnce'
    BY <1>3, <2>1, <2>4 DEF Accept, QueuedOnce
  <2> QED
    BY <1>3, <1>c, <2>1, <2>3, <2>5 DEF Accept, PermitsConserved, Stages
<1>4. CASE AcceptError
  BY <1>4, <1>c DEF AcceptError, PermitsConserved, QueuedOnce, At
<1>5. ASSUME NEW c \in Conns, Serve(c) PROVE PermitInv'
  <2>1. PICK s \in InTask :
          /\ task[c] \in InTask
          /\ task' = [task EXCEPT ![c] = s]
          /\ UNCHANGED <<limit, loop, permits, backlog>>
    BY <1>5 DEF Serve, HandshakeOk, HandshakeFail, OpenPeer, Return, Step, InTask
  <2>2. At(InTask)' = At(InTask)
    BY <2>1, TaskStays
  <2>3. QueuedOnce'
    BY <2>1, ElementOfSeq DEF QueuedOnce, InTask
  <2> QED
    BY <2>1, <2>2, <2>3 DEF PermitsConserved, Stages, InTask
<1>6. ASSUME NEW c \in Conns, Release(c) PROVE PermitInv'
  <2>1. Cardinality(At(InTask)') = Cardinality(At(InTask)) - 1
    BY <1>6, TaskEnds DEF Release, InTask
  <2>2. QueuedOnce'
    BY <1>6, ElementOfSeq DEF Release, QueuedOnce
  <2> QED
    BY <1>6, <1>c, <2>1, <2>2 DEF Release, PermitsConserved, Stages
<1>7. CASE UNCHANGED serverVars
  BY <1>7 DEF serverVars, PermitsConserved, QueuedOnce, At
<1> QED
  BY <1>1, <1>2, <1>3, <1>4, <1>5, <1>6, <1>7 DEF ServerNext

\* Server::new makes the semaphore of a server that has no tasks yet, and Bind
\* starts the accept loop.
LEMMA PermitNew ==
  ASSUME PermitInv, At(InTask) = {}, NEW n \in Nat, limit' = n, permits' = n,
         loop # "Accept", UNCHANGED <<loop, backlog, task>>
  PROVE  PermitInv'
<1>1. At(InTask)' = {} /\ Cardinality({}) = 0
  BY FS_EmptySet DEF At
<1> QED
  BY <1>1 DEF PermitInv, PermitsConserved, QueuedOnce

LEMMA PermitBind ==
  ASSUME PermitInv, loop = "Off", loop' = "Acquire",
         UNCHANGED <<limit, permits, backlog, task>>
  PROVE  PermitInv'
BY AtFinite DEF PermitInv, PermitsConserved, QueuedOnce, At

-----------------------------------------------------------------------------
(* What follows from the invariant.                                        *)

LEMMA PermitTypes == PermitInv => ServerTypeOK
BY AtFinite DEF PermitInv, ServerTypeOK, PermitsConserved

LEMMA PermitSockets == PermitInv => SocketsBounded
<1> SUFFICES ASSUME PermitInv PROVE SocketsBounded
  OBVIOUS
<1>1. /\ At({"Handshake", "Peek", "Peer"}) \in SUBSET At(InTask)
      /\ At({"Peer"}) \in SUBSET At(InTask)
  BY DEF At, InTask
<1>2. /\ Cardinality(At({"Handshake", "Peek", "Peer"})) <= Cardinality(At(InTask))
      /\ Cardinality(At({"Peer"})) <= Cardinality(At(InTask))
  BY <1>1, AtFinite, FS_Subset
<1>3. /\ Cardinality(At({"Handshake", "Peek", "Peer"})) \in Nat
      /\ Cardinality(At({"Peer"})) \in Nat
      /\ Cardinality(At(InTask)) \in Nat
  BY AtFinite
<1>4. Cardinality(At(InTask)) <= limit
  BY <1>3 DEF PermitInv, PermitsConserved
<1> QED
  BY <1>2, <1>3, <1>4 DEF SocketsBounded, OpenSockets, PermitInv

=============================================================================
