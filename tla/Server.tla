------------------------------- MODULE Server -------------------------------
(***************************************************************************)
(* The accept loop of Server::run and the tasks it spawns                  *)
(* (src/src/server.rs): a permit of the connection_limit semaphore is      *)
(* taken before each accept, moves into the task and is given back when    *)
(* the task ends.  What a task does between its handshake and its end is   *)
(* module Connection; here only the sockets it holds matter.  Module       *)
(* Startup makes the server and lets it run.                               *)
(***************************************************************************)
EXTENDS Integers, Sequences, FiniteSets

CONSTANTS
  Conns,     \* the connections clients open
  Stalled    \* those whose client stops before its task can end

ASSUME ServerAssumption ==
  /\ IsFiniteSet(Conns)
  /\ Stalled \subseteq Conns

VARIABLES
  limit,     \* permits the semaphore was made with, config.max_connections
  loop,      \* where the accept loop awaits: Acquire or Accept; Off before it
  permits,   \* available permits of the semaphore
  backlog,   \* the listener's queue of connections to accept
  task       \* per connection, how far its task is

serverVars == <<limit, loop, permits, backlog, task>>

\* Absent: not opened by its client.  Queued: in the listener's backlog.
\* Handshake, Peek: the task holds the client's socket.  Peer: it holds a
\* second one, to the fallback backend or the target, or a UDP socket.
\* Closing: the sockets are dropped, the permit is not.  Ended: the task is gone.
Stages == {"Absent", "Queued", "Handshake", "Peek", "Peer", "Closing", "Ended"}

-----------------------------------------------------------------------------
\* Nothing is made or bound yet.
ServerInit ==
  /\ limit = 0
  /\ loop = "Off"
  /\ permits = 0
  /\ backlog = << >>
  /\ task = [c \in Conns |-> "Absent"]

\* A client connects to the bound listener; the kernel queues it.
Arrive(c) ==
  /\ loop # "Off"
  /\ task[c] = "Absent"
  /\ task' = [task EXCEPT ![c] = "Queued"]
  /\ backlog' = Append(backlog, c)
  /\ UNCHANGED <<limit, loop, permits>>

\* connection_limit.acquire_owned().  It fails only for a closed semaphore, and
\* this one is never closed.
Acquire ==
  /\ loop = "Acquire"
  /\ permits > 0
  /\ permits' = permits - 1
  /\ loop' = "Accept"
  /\ UNCHANGED <<limit, backlog, task>>

\* listener.accept() and tokio::spawn: the permit moves into the task.
Accept ==
  /\ loop = "Accept"
  /\ backlog # << >>
  /\ task' = [task EXCEPT ![Head(backlog)] = "Handshake"]
  /\ backlog' = Tail(backlog)
  /\ loop' = "Acquire"
  /\ UNCHANGED <<limit, permits>>

\* Mutants: the permit is forgotten, or given back twice.
AcceptErrorLeaks ==
  /\ loop = "Accept"
  /\ loop' = "Acquire"
  /\ UNCHANGED <<limit, permits, backlog, task>>

AcceptErrorKeepsPermit ==
  /\ loop = "Accept"
  /\ permits < 2 * limit
  /\ permits' = permits + 1
  /\ UNCHANGED <<limit, loop, backlog, task>>

\* accept() fails, for want of a file descriptor perhaps; `continue' drops the
\* permit.
AcceptError ==
  /\ loop = "Accept"
  /\ permits' = permits + 1
  /\ loop' = "Acquire"
  /\ UNCHANGED <<limit, backlog, task>>

Step(c, from, to) ==
  /\ task[c] = from
  /\ task' = [task EXCEPT ![c] = to]
  /\ UNCHANGED <<limit, loop, permits, backlog>>

\* acceptor.accept(stream): on failure the stream is dropped and the task returns.
HandshakeOk(c)   == Step(c, "Handshake", "Peek")
HandshakeFail(c) == Step(c, "Handshake", "Closing")

\* Mutant: the permit does not follow the connection into its relay.
OpenPeerDetached(c) ==
  /\ task[c] = "Peek"
  /\ task' = [task EXCEPT ![c] = "Peer"]
  /\ permits' = permits + 1
  /\ UNCHANGED <<limit, loop, backlog>>

\* handle_connection gets its second socket: the fallback backend's, the
\* target's, or a UDP socket.
OpenPeer(c) == Step(c, "Peek", "Peer")

\* handle_connection returns and its streams are dropped: before it has a peer
\* (no data, a failed read or connect) or after.
Return(c) == Step(c, "Peek", "Closing") \/ Step(c, "Peer", "Closing")

\* _permit, declared first in the task, is dropped last.
Release(c) ==
  /\ task[c] = "Closing"
  /\ task' = [task EXCEPT ![c] = "Ended"]
  /\ permits' = permits + 1
  /\ UNCHANGED <<limit, loop, backlog>>

Serve(c) == HandshakeOk(c) \/ HandshakeFail(c) \/ OpenPeer(c) \/ Return(c)

ServerNext ==
  \/ Acquire \/ Accept \/ AcceptError
  \/ \E c \in Conns : Arrive(c) \/ Serve(c) \/ Release(c)

-----------------------------------------------------------------------------
InTask == {"Handshake", "Peek", "Peer", "Closing"}
At(stages) == {c \in Conns : task[c] \in stages}

(***************************************************************************)
(* The types: the semaphore never holds more permits than it was made with *)
(* and the accept loop never takes one that is not there.                  *)
(***************************************************************************)
ServerTypeOK ==
  /\ limit \in Nat
  /\ loop \in {"Off", "Acquire", "Accept"}
  /\ permits \in 0 .. limit
  /\ backlog \in Seq(Conns)
  /\ task \in [Conns -> Stages]

(***************************************************************************)
(* What the accept loop relies on: the backlog lists queued connections,   *)
(* none of them twice, so an accept never starts a second task for one.    *)
(***************************************************************************)
QueuedOnce ==
  \A i \in 1 .. Len(backlog) :
    /\ task[backlog[i]] = "Queued"
    /\ \A j \in 1 .. Len(backlog) : backlog[i] = backlog[j] => i = j

(***************************************************************************)
(* No permit is lost or made: the available ones, the one the accept loop  *)
(* holds and those of the tasks are max_connections together, however many *)
(* accepts, handshakes and connections have failed.                        *)
(***************************************************************************)
PermitsConserved ==
  permits + (IF loop = "Accept" THEN 1 ELSE 0) + Cardinality(At(InTask))
    = limit

\* Sockets the server has open besides its listener.
OpenSockets ==
  Cardinality(At({"Handshake", "Peek", "Peer"})) + Cardinality(At({"Peer"}))

(***************************************************************************)
(* max_connections bounds file descriptors ("tune it to the VPS's memory   *)
(* and fd limits", src/docs/CONFIGURATION.md, 95): the server never has    *)
(* more than two sockets open per permit, also while a finished task's     *)
(* permit is on its way to the next connection.                            *)
(***************************************************************************)
SocketsBounded == OpenSockets <= 2 * limit

(***************************************************************************)
(* As long as fewer clients stall than there are permits, every connection *)
(* in the backlog is accepted, however many accepts fail.  The server has  *)
(* no timeout on the handshake or the peek loop, so with as many stalled   *)
(* clients nobody would be; nor is anybody with max_connections = 0.       *)
(***************************************************************************)
EveryoneAccepted ==
  \A c \in Conns :
    Cardinality(Stalled) < limit /\ task[c] = "Queued" ~> task[c] \in InTask

=============================================================================
