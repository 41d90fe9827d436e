----------------------------- MODULE Connection -----------------------------
(***************************************************************************)
(* One client connection after its TLS handshake, from the first byte to   *)
(* the end of the relay: handle_connection (src/src/server.rs), with the   *)
(* handlers it calls - handle_fallback, PrefixedStream and                 *)
(* peek_client_data (src/src/proxy/fallback.rs), handle_tcp                *)
(* (src/src/proxy/tcp.rs), relay (src/src/proxy/relay.rs) and the byte     *)
(* counters of Session (src/src/proxy/session.rs).                         *)
(*                                                                         *)
(* The two peers are fixed by Init: what each will send and how it ends.   *)
(* How the network cuts the bytes into chunks, which of the two directions *)
(* moves next and which I/O call fails is chosen step by step.             *)
(***************************************************************************)
EXTENDS TrojanHeader, Session

CONSTANTS
  PEEK_SIZE,   \* most bytes read before the connection is routed (512)
  COPY_BUF,    \* buffer of one direction of copy_bidirectional
  Passwords,   \* config.passwords, the accepted hashes
  Clients,     \* clients, each [bytes, end]: what it sends, how it ends
  Backends     \* peers dialled, each [bytes, end, waits]

\* How a peer ends its stream: it stays open, closes cleanly, or resets.
Ends == {"open", "eof", "reset"}

ASSUME ConnectionAssumption ==
  /\ PEEK_SIZE \in Nat \ {0}
  /\ COPY_BUF \in Nat \ {0}
  /\ Passwords \subseteq Seq(Byte)
  /\ \A c \in Clients : c.bytes \in Seq(Byte) /\ c.end \in Ends
  /\ \A b \in Backends :
       b.bytes \in Seq(Byte) /\ b.end \in Ends /\ b.waits \in BOOLEAN

VARIABLES
  client,    \* the client's script
  backend,   \* the script of the fallback backend or the target
  phase,     \* where the task is
  dest,      \* who takes the client's bytes: none, fallback, target or udp
  taken,     \* client bytes read from the TLS stream
  peeked,    \* the peek buffer
  header,    \* what the last parse of the peek buffer returned
  prefix,    \* unread prefix of the PrefixedStream
  replied,   \* backend bytes read
  buf,       \* copy buffer, per direction
  dir,       \* transfer state, per direction
  out,       \* bytes written: up to the backend, down to the client
  stats,     \* the session's byte counters
  result     \* what handle_connection returned

vars == <<client, backend, phase, dest, taken, peeked, header, prefix, replied,
          buf, dir, out, stats, result>>
peers == <<client, backend>>
copying == <<replied, buf, dir, out>>

Direction == {"up", "down"}
Phases == {"Peek", "FallbackConnect", "FallbackReplay", "TcpConnect", "Relay",
           "Udp", "Closed"}

-----------------------------------------------------------------------------
(* Streams.                                                                *)

Smaller(a, b) == IF a <= b THEN a ELSE b

\* The first n bytes of s, and the slice s[n..].
Take(s, n) == SubSeq(s, 1, n)
Drop(s, n) == SubSeq(s, n + 1, Len(s))

\* Bytes the client has still to deliver to the TLS stream's reader.
Unread == Drop(client.bytes, taken)

\* Mutant: a prefix that does not fit the caller's buffer is not returned.
ReadableWholePrefix(room) ==
  IF prefix # << >>
    THEN IF Len(prefix) <= room THEN {prefix} ELSE {}
    ELSE {Take(Unread, n) : n \in 1 .. Smaller(Len(Unread), room)}

\* What one PrefixedStream::poll_read with room for `room' bytes may return: the
\* prefix, as much of it as fits, while there is one; then what the stream has.
\* A stream that was never wrapped has an empty prefix.
Readable(room) ==
  IF prefix # << >>
    THEN {Take(prefix, Smaller(Len(prefix), room))}
    ELSE {Take(Unread, n) : n \in 1 .. Smaller(Len(Unread), room)}

\* Mutant: a read drops what is left of the prefix.
ConsumeWholePrefix(chunk) ==
  IF prefix # << >>
    THEN prefix' = << >> /\ UNCHANGED taken
    ELSE taken' = taken + Len(chunk) /\ UNCHANGED prefix

\* The read moves prefix_pos, or takes the bytes from the stream.
Consume(chunk) ==
  IF prefix # << >>
    THEN prefix' = Drop(prefix, Len(chunk)) /\ UNCHANGED taken
    ELSE taken' = taken + Len(chunk) /\ UNCHANGED prefix

\* The next read of the client's stream returns 0, or an error.
ClientAt(end) ==
  prefix = << >> /\ taken = Len(client.bytes) /\ client.end = end

-----------------------------------------------------------------------------
Init ==
  /\ client \in Clients
  /\ backend \in Backends
  /\ phase = "Peek"
  /\ dest = "none"
  /\ taken = 0
  /\ peeked = << >>
  /\ header = Short
  /\ prefix = << >>
  /\ replied = 0
  /\ buf = [d \in Direction |-> << >>]
  /\ dir = [d \in Direction |-> "Running"]
  /\ out = [d \in Direction |-> << >>]
  /\ stats = NewSession
  /\ result = "none"

\* handle_connection returns r; its streams are dropped.
Return(r) == phase' = "Closed" /\ result' = r

\* The peek loop hands the stream and the peeked bytes to handle_fallback.
GoFallback ==
  /\ phase' = "FallbackConnect"
  /\ dest' = "fallback"

(***************************************************************************)
(* The peek loop.  Each round reads a chunk into the buffer and parses the *)
(* whole buffer again.                                                     *)
(***************************************************************************)

\* Mutant: every round may read a whole window.
PeekChunkUnlimited ==
  /\ phase = "Peek"
  /\ Len(peeked) < PEEK_SIZE
  /\ \E chunk \in Readable(PEEK_SIZE) :
       /\ taken' = taken + Len(chunk)
       /\ peeked' = peeked \o chunk

\* One read of at most PEEK_SIZE - peeked.len() bytes, appended to the buffer.
PeekChunk ==
  /\ phase = "Peek"
  /\ Len(peeked) < PEEK_SIZE
  /\ \E chunk \in Readable(PEEK_SIZE - Len(peeked)) :
       /\ taken' = taken + Len(chunk)
       /\ peeked' = peeked \o chunk

\* Mutant: an incomplete header ends the connection.
PeekShortReturns ==
  /\ PeekChunk
  /\ TryParse(peeked') = Short
  /\ Return("Err")
  /\ UNCHANGED <<peers, dest, header, prefix, copying, stats>>

\* Ok(None): the next round reads on.
PeekShort ==
  /\ PeekChunk
  /\ TryParse(peeked') = Short
  /\ UNCHANGED <<peers, phase, dest, header, prefix, copying, stats, result>>

\* A header with an accepted password: what follows it in the buffer becomes the
\* prefix of the client's stream, and the command picks the handler.
PeekAccept ==
  /\ PeekChunk
  /\ LET h == TryParse(peeked')
     IN  /\ h.is = "Ok"
         /\ VerifyPassword(h, Passwords)
         /\ header' = h
         /\ prefix' = Drop(peeked', HeaderEnd(peeked'))
         /\ IF h.command = "Connect"
              THEN phase' = "TcpConnect" /\ dest' = "target"
              ELSE phase' = "Udp" /\ dest' = "udp"
  /\ UNCHANGED <<peers, copying, stats, result>>

\* A header with another password, or no header at all.
PeekReject ==
  /\ PeekChunk
  /\ LET h == TryParse(peeked')
     IN  \/ h.is = "Bad"
         \/ h.is = "Ok" /\ ~VerifyPassword(h, Passwords)
  /\ GoFallback
  /\ UNCHANGED <<peers, header, prefix, copying, stats, result>>

\* Mutant: the full window is not handed to handle_fallback.
PeekFullDrops ==
  /\ phase = "Peek"
  /\ Len(peeked) >= PEEK_SIZE
  /\ GoFallback
  /\ peeked' = << >>
  /\ UNCHANGED <<peers, taken, header, prefix, copying, stats, result>>

\* The window is full and the parser still asks for more.
PeekFull ==
  /\ phase = "Peek"
  /\ Len(peeked) >= PEEK_SIZE
  /\ GoFallback
  /\ UNCHANGED <<peers, taken, peeked, header, prefix, copying, stats, result>>

\* The client closed: silently dropped if it never sent a byte.
PeekEof ==
  /\ phase = "Peek"
  /\ Len(peeked) < PEEK_SIZE
  /\ ClientAt("eof")
  /\ IF peeked = << >>
       THEN Return("Ok") /\ UNCHANGED dest
       ELSE GoFallback /\ UNCHANGED result
  /\ UNCHANGED <<peers, taken, peeked, header, prefix, copying, stats>>

\* The read fails and `?' returns the error.
PeekError ==
  /\ phase = "Peek"
  /\ Len(peeked) < PEEK_SIZE
  /\ ClientAt("reset")
  /\ Return("Err")
  /\ UNCHANGED <<peers, dest, taken, peeked, header, prefix, copying, stats>>

(***************************************************************************)
(* handle_fallback: connect, replay the peeked bytes, then copy.           *)
(***************************************************************************)
FallbackConnect ==
  /\ phase = "FallbackConnect"
  /\ \/ phase' = "FallbackReplay" /\ UNCHANGED result
     \/ Return("Err")
  /\ UNCHANGED <<peers, dest, taken, peeked, header, prefix, copying, stats>>

\* Mutant: the peeked bytes are not replayed.
FallbackNoReplay ==
  /\ phase = "FallbackReplay"
  /\ phase' = "Relay"
  /\ UNCHANGED <<peers, dest, taken, peeked, header, prefix, copying, stats, result>>

\* write_all(&peeked_buf); a reset by the backend cuts it anywhere.
FallbackReplay ==
  /\ phase = "FallbackReplay"
  /\ \/ /\ out' = [out EXCEPT !["up"] = peeked]
        /\ phase' = "Relay"
        /\ UNCHANGED result
     \/ /\ backend.end = "reset"
        /\ \E n \in 0 .. Len(peeked) - 1 :
             out' = [out EXCEPT !["up"] = Take(peeked, n)]
        /\ Return("Err")
  /\ UNCHANGED <<peers, dest, taken, peeked, header, prefix, replied, buf, dir,
                 stats>>

(***************************************************************************)
(* handle_tcp: connect within tcp_timeout, then relay.  A refused and a    *)
(* timed-out connect both return an error.                                 *)
(***************************************************************************)
TcpConnect ==
  /\ phase = "TcpConnect"
  /\ \/ phase' = "Relay" /\ UNCHANGED result
     \/ Return("Err")
  /\ UNCHANGED <<peers, dest, taken, peeked, header, prefix, copying, stats>>

(***************************************************************************)
(* tokio::io::copy_bidirectional, as relay and handle_fallback call it:    *)
(* two directions, each reading into its buffer, writing it out and, once  *)
(* the source has ended and the buffer is empty, shutting the sink down.   *)
(* Each is polled on its own; an error of either ends the call.            *)
(***************************************************************************)
CopyReadUp ==
  /\ phase = "Relay"
  /\ dir["up"] = "Running"
  /\ Len(buf["up"]) < COPY_BUF
  /\ \E chunk \in Readable(COPY_BUF - Len(buf["up"])) :
       /\ Consume(chunk)
       /\ buf' = [buf EXCEPT !["up"] = @ \o chunk]
  /\ UNCHANGED <<peers, phase, dest, peeked, header, replied, dir, out, stats,
                 result>>

\* The backend may hold its answer back until the client's end has reached it.
BackendTalks == backend.waits => dir["up"] = "Done"

CopyReadDown ==
  /\ phase = "Relay"
  /\ dir["down"] = "Running"
  /\ BackendTalks
  /\ LET rest == Drop(backend.bytes, replied)
     IN  \E n \in 1 .. Smaller(Len(rest), COPY_BUF - Len(buf["down"])) :
           /\ replied' = replied + n
           /\ buf' = [buf EXCEPT !["down"] = @ \o Take(rest, n)]
  /\ UNCHANGED <<peers, phase, dest, taken, peeked, header, prefix, dir, out,
                 stats, result>>

\* The source of direction d has nothing more, and ended this way.
SourceAt(d, end) ==
  IF d = "up"
    THEN ClientAt(end)
    ELSE BackendTalks /\ replied = Len(backend.bytes) /\ backend.end = end

CopyEof(d) ==
  /\ phase = "Relay"
  /\ dir[d] = "Running"
  /\ Len(buf[d]) < COPY_BUF
  /\ SourceAt(d, "eof")
  /\ dir' = [dir EXCEPT ![d] = "ReadDone"]
  /\ UNCHANGED <<peers, phase, dest, taken, peeked, header, prefix, replied, buf,
                 out, stats, result>>

CopyWrite(d) ==
  /\ phase = "Relay"
  /\ \E n \in 1 .. Len(buf[d]) :
       /\ out' = [out EXCEPT ![d] = @ \o Take(buf[d], n)]
       /\ buf' = [buf EXCEPT ![d] = Drop(@, n)]
  /\ UNCHANGED <<peers, phase, dest, taken, peeked, header, prefix, replied, dir,
                 stats, result>>

CopyShutdown(d) ==
  /\ phase = "Relay"
  /\ dir[d] = "ReadDone"
  /\ buf[d] = << >>
  /\ dir' = [dir EXCEPT ![d] = "Done"]
  /\ UNCHANGED <<peers, phase, dest, taken, peeked, header, prefix, replied, buf,
                 out, stats, result>>

\* Direction d fails: its source was reset, or the peer it writes to was.
CopyError(d) ==
  /\ phase = "Relay"
  /\ \/ /\ dir[d] = "Running"
        /\ Len(buf[d]) < COPY_BUF
        /\ SourceAt(d, "reset")
     \/ /\ buf[d] # << >>
        /\ (IF d = "up" THEN backend.end ELSE client.end) = "reset"
  /\ Return("Err")
  /\ UNCHANGED <<peers, dest, taken, peeked, header, prefix, copying, stats>>

\* Mutant: the totals are booked the wrong way round.
RelayDoneSwapped ==
  /\ phase = "Relay"
  /\ \A d \in Direction : dir[d] = "Done"
  /\ Return("Ok")
  /\ stats' = IF dest = "target"
                THEN AddReceived(AddSent(stats, Len(out["down"])), Len(out["up"]))
                ELSE stats
  /\ UNCHANGED <<peers, dest, taken, peeked, header, prefix, copying>>

\* Both directions are done.  handle_tcp books the two totals with the session,
\* handle_fallback has no session.
RelayDone ==
  /\ phase = "Relay"
  /\ \A d \in Direction : dir[d] = "Done"
  /\ Return("Ok")
  /\ stats' = IF dest = "target"
                THEN AddReceived(AddSent(stats, Len(out["up"])), Len(out["down"]))
                ELSE stats
  /\ UNCHANGED <<peers, dest, taken, peeked, header, prefix, copying>>

(***************************************************************************)
(* handle_udp, as far as the client's stream goes: it reads bytes in order *)
(* and returns at some point.  Module UdpAssociate has its loop.           *)
(***************************************************************************)
UdpRead ==
  /\ phase = "Udp"
  /\ \E chunk \in Readable(COPY_BUF) :
       /\ Consume(chunk)
       /\ out' = [out EXCEPT !["up"] = @ \o chunk]
  /\ UNCHANGED <<peers, phase, dest, peeked, header, replied, buf, dir, stats,
                 result>>

UdpReturn ==
  /\ phase = "Udp"
  /\ \E r \in {"Ok", "Err"} : Return(r)
  /\ UNCHANGED <<peers, dest, taken, peeked, header, prefix, copying, stats>>

Next ==
  \/ PeekShort \/ PeekAccept \/ PeekReject \/ PeekFull \/ PeekEof \/ PeekError
  \/ FallbackConnect \/ FallbackReplay \/ TcpConnect
  \/ CopyReadUp \/ CopyReadDown
  \/ \E d \in Direction : CopyEof(d) \/ CopyWrite(d) \/ CopyShutdown(d) \/ CopyError(d)
  \/ RelayDone
  \/ UdpRead \/ UdpReturn

Spec == Init /\ [][Next]_vars

\* A task whose I/O is ready is polled, and what a peer sends arrives.  A peer
\* that keeps its stream open and sends nothing more enables no step.
FairSpec == Spec /\ WF_vars(Next)

-----------------------------------------------------------------------------
(***************************************************************************)
(* The types.  The peek buffer never outgrows PEEK_SIZE, without which the *)
(* usize subtraction PEEK_SIZE - peeked.len() of the next round would      *)
(* underflow, and a copy buffer never outgrows its capacity.               *)
(***************************************************************************)
TypeOK ==
  /\ client \in Clients
  /\ backend \in Backends
  /\ phase \in Phases
  /\ dest \in {"none", "fallback", "target", "udp"}
  /\ taken \in 0 .. Len(client.bytes)
  /\ peeked \in Seq(Byte) /\ Len(peeked) <= PEEK_SIZE
  /\ prefix \in Seq(Byte) /\ Len(prefix) <= PEEK_SIZE
  /\ replied \in 0 .. Len(backend.bytes)
  /\ buf \in [Direction -> Seq(Byte)]
  /\ \A d \in Direction : Len(buf[d]) <= COPY_BUF
  /\ dir \in [Direction -> {"Running", "ReadDone", "Done"}]
  /\ out \in [Direction -> Seq(Byte)]
  /\ stats \in [sent : Nat, received : Nat]
  /\ result \in {"none", "Ok", "Err"}

\* The client's whole stream opens with a header whose password is accepted.
Authenticated ==
  LET h == TryParse(client.bytes)
  IN  h.is = "Ok" /\ VerifyPassword(h, Passwords)

(***************************************************************************)
(* A connection is proxied, and to the address and with the command of its *)
(* header, only if its whole stream opens with an accepted header; it      *)
(* falls back only if it does not.  So handle_connection's choice, made on *)
(* a buffer that ends wherever the network cut it, is the choice it would  *)
(* make with all the bytes at hand, provided the header fits the window.   *)
(***************************************************************************)
RouteIgnoresFragmentation ==
  /\ dest \in {"target", "udp"} =>
       /\ Authenticated
       /\ header = TryParse(client.bytes)
       /\ dest = "target" <=> header.command = "Connect"
  /\ dest = "fallback" /\ HeaderEnd(client.bytes) <= PEEK_SIZE => ~Authenticated

\* The bytes the peer behind dest is owed: the fallback backend everything, the
\* target or the UDP handler what follows the header.
Owed ==
  IF dest = "fallback"
    THEN client.bytes
    ELSE Drop(client.bytes, HeaderEnd(client.bytes))

\* Bytes that were read from the client and are on their way.
InFlight ==
  IF phase \in {"FallbackConnect", "FallbackReplay"} THEN peeked
                                                     ELSE buf["up"] \o prefix

(***************************************************************************)
(* While a routed connection lives, what was written to its peer, what the *)
(* task holds (the peeked bytes to replay, the copy buffer, the prefix of  *)
(* PrefixedStream) and what is still to be read are, in this order,        *)
(* exactly the bytes the peer is owed; and the same towards the client.    *)
(***************************************************************************)
BytesConserved ==
  dest # "none" /\ phase # "Closed" =>
    /\ out["up"] \o InFlight \o Unread = Owed
    /\ out["down"] \o buf["down"] \o Drop(backend.bytes, replied) = backend.bytes

(***************************************************************************)
(* A direction is shut down only after every byte of its source has been   *)
(* written and its source has ended cleanly: no peer takes a truncated     *)
(* stream for a complete one.                                              *)
(***************************************************************************)
ShutdownIsComplete ==
  /\ dir["up"] = "Done" => out["up"] = Owed /\ client.end = "eof"
  /\ dir["down"] = "Done" => out["down"] = backend.bytes /\ backend.end = "eof"

(***************************************************************************)
(* When handle_tcp returns Ok, the session's counters are the bytes that   *)
(* crossed, the ones replayed from the peek buffer's tail included and the *)
(* header not.                                                             *)
(***************************************************************************)
SessionCountsPayload ==
  dest = "target" /\ result = "Ok" =>
    stats = [sent |-> Len(Owed), received |-> Len(backend.bytes)]

(***************************************************************************)
(* A stream the parser can decide is routed, whatever its fragmentation.   *)
(***************************************************************************)
DecidableIsRouted == TryParse(client.bytes) # Short ~> dest # "none"

(***************************************************************************)
(* A relay whose two peers close cleanly ends, also when the backend       *)
(* answers and closes only after it has seen the client's end: relay       *)
(* passes a half-close on and keeps the other direction open.              *)
(***************************************************************************)
HalfCloseEndsRelay ==
  phase = "Relay" /\ client.end = "eof" /\ backend.end = "eof"
    ~> phase = "Closed" /\ result = "Ok"

(***************************************************************************)
(* "When the protocol check fails (wrong password, non-Trojan traffic,     *)
(* HTTP probes ...) the server forwards the client's data to this address" *)
(* (src/config/config.toml, 32-33): a byte that can be in no password hash *)
(* sends the connection to the fallback backend.                           *)
(***************************************************************************)
NonTrojanFallsBack ==
  (\E i \in 1 .. Smaller(Len(peeked), PASSWORD_HEX_LEN) : ~IsHexDigit(peeked[i]))
    ~> dest = "fallback"

-----------------------------------------------------------------------------
\* The window holds every header that a client sends whole.  The code's 512
\* bytes are more than the longest header, of 320.
HeadersFit ==
  \A c \in Clients : TryParse(c.bytes).is = "Ok" => HeaderEnd(c.bytes) <= PEEK_SIZE

Finished == [d \in Direction |-> dir[d] = "Done"]
Ending == IF result = "none" THEN "no"
          ELSE IF result = "Ok" THEN "clean" ELSE "aborted"

Contract == INSTANCE ProxyContract WITH
  route <- dest, sent <- out, fin <- Finished, ended <- Ending

(***************************************************************************)
(* The connection, peek loop, prefix, copy buffers and all, implements the *)
(* contract: the chunks and the buffers are invisible to both peers.       *)
(* Needs HeadersFit: a client whose header outgrows the window goes to the *)
(* fallback.                                                               *)
(***************************************************************************)
KeepsContract == Contract!CSpec

=============================================================================
