# trojan-rust: TLA+ models, checks and proofs

A verification project for the Trojan proxy server in `src/`. Paths below are
relative to the repository's parent, so `src/src/server.rs` is the server's
`server.rs`.

## The system

The server accepts TLS connections on one port. What a client sends first
decides what becomes of it: a Trojan header with an accepted password hash makes
the server a TCP or UDP proxy for it; anything else is passed, byte for byte, to
an ordinary web server (the *fallback* backend).

| Component | State it keeps | Operations | Talks to |
| --- | --- | --- | --- |
| Accept loop (`server.rs`, `Server`) | the listener, the `connection_limit` semaphore | `run`: acquire a permit, accept, spawn a task | tokio tasks, which own the permit |
| Peek loop and routing (`server.rs`, `handle_connection`) | the peek buffer, the parsed header | read a chunk, parse the whole buffer, route | header codec, fallback, TCP, UDP |
| Header codec (`protocol/`) | none | `try_parse_from_buf`, `read_from`, `parse_from_buf`, `verify_password`, `encode`, `compute_header_end` | - |
| Fallback (`proxy/fallback.rs`) | the prefix of `PrefixedStream` | connect, replay the peeked bytes, copy both ways | the backend |
| TCP proxy (`proxy/tcp.rs`, `relay.rs`) | copy buffers (inside tokio) | connect with a timeout, `copy_bidirectional`, book the totals | the target, the session |
| Session (`proxy/session.rs`) | two byte counters | `add_sent`, `add_received` | - |
| UDP associate (`proxy/udp.rs`) | the UDP socket, the frame being read | one `select!` per round under `udp_timeout`, resolve, send, reply | the targets, the session |
| Configuration, TLS, startup (`config.rs`, `tls.rs`, `main.rs`) | none after start | load, validate, load certificate and key, build the acceptor, start the server | the files, the accept loop |
| Vision authentication (`reality/vision.rs`) | none | `VisionAuthRequest::new`, `encode`, `read_from`, `VisionProtocol::authenticate` under a timeout | header codec (addresses), the system clock |
| REALITY state machine (`reality/state_machine.rs`) | state, stream, result, fallback address | `set_fallback`, `into_stream`, the two transitions, `handle_authenticated_connection` | Vision, the splice |
| REALITY splice (`reality/splice.rs`) | `DirectSplice`: a byte count | `DirectSplice::splice`, `tcp_splice`, `UnwrapStream` | two streams |
| REALITY handshake (`reality/handshake.rs`) | the rustls configurations | `RealityConfig::new`, `accept`, `with_fallback` | the files, rustls |

The REALITY components are a library: nothing in the server binary calls them.

What is hard about it:

- **fragmentation**: the network cuts the first bytes anywhere, and the verdict
  is taken on whatever has arrived;
- **one byte stream from several places**: the peek buffer, its tail after the
  header, the live TLS stream and two copy buffers;
- **half-close, resets and errors** in either direction, at any moment;
- **cancellation**: `select!` drops the frame reader when a datagram comes first;
- **waiting**: some awaits have no timeout (either handshake, peek, fallback
  connect, the UDP reply);
- **partial writes**: a `write_all` may stall or fail in the middle of a frame;
- **limits**: the peek window, the semaphore, 16-bit lengths, 64-bit time;
- **files read twice**: `validate` asks whether the certificate files exist, the
  loaders open them later, one after the other;
- **ownership**: the state machine's methods take it by value, so an error drops
  the stream in it.

`PROJECT.json` lists these hazards at the lines where they bite, with the
properties that cover them, or with the reason why none does.

## Modules

| Module | Models |
| --- | --- |
| `TrojanHeader` | the wire format, both parsers, `compute_header_end`, password check, encoding (pure operators over byte sequences) |
| `PeekBuffer` | the peek buffer as input of the parsers: grows one byte at a time |
| `Connection` | one connection after its handshake: peek loop, routing, `PrefixedStream`, fallback, TCP connect, `copy_bidirectional`, session counters |
| `Session` | the two byte counters |
| `ProxyContract` | what a connection promises, with no buffers: the abstract specification `Connection` implements |
| `UdpAssociate` | the loop of `handle_udp` |
| `Server` | the accept loop, the semaphore, the life of each task |
| `VisionAuth` | the Vision request, its window and hash, and `authenticate` reading it byte by byte while the clock moves |
| `RealityConnection` | one machine of `state_machine.rs` from the TLS handshake to the splice, with who owns the client's stream |
| `SplicePeers` | the two streams a splice joins, and what both splices promise |
| `DirectSplice`, `TcpSplice`, `Splice` | the two splices of `splice.rs`, and one of them at work |
| `Startup` | the server from `main()` on, and `RealityConfig::new`, with files that change meanwhile; it makes the server of module `Server` and lets it run |
| `MC*` | instances for TLC |
| `*Proofs` | theorems and their proofs |

`Connection`, `PeekBuffer`, `ProxyContract`, `UdpAssociate` and `VisionAuth`
extend `TrojanHeader`, `RealityConnection` extends `VisionAuth`, and both
splices extend `SplicePeers`; `Splice` composes the two, and its `which` says
which of them is at work. `Startup` extends `Server`, whose accept
loop is off until the start has bound the listener, and the splice
that `RealityConnection` reaches is `TcpSplice`. `Server` abstracts a task to the
sockets it holds; `Connection` is what happens between its `Peek` and `Closing`
stages.

### How state and actions correspond to the code

**TrojanHeader.** A buffer is a sequence of bytes 0..255; the three lengths
(password hash, IPv4 and IPv6 addresses) are constants, 56, 4 and 16 in the
code. `Short` is `Ok(None)`, `Bad(e)` an error, and the order of the tests in
`TryParse`, `ParseAddress`, `ReadHeader` and `ReadAddress` is the order in the
functions they are named after. `ValidUtf8` is `String::from_utf8(..).is_ok()`
and stays a parameter.

**Connection.** `peeked`, `header`, `prefix`, `stats` are the variables of the
same purpose in `handle_connection`, `PrefixedStream` and `Session`; `taken` and
`replied` count what was read from the two peers; `buf` and `dir` are the two
transfer states of `copy_bidirectional`; `out` is what was written. A round of
the peek loop is one action (`PeekShort`, `PeekAccept`, `PeekReject`): the read
is its only await, and parsing, verification, cutting off the header and
dispatching follow without another. The relay has one action per poll result of
either direction, so the two directions interleave freely. `copy_bidirectional`
is tokio's and is modelled from its contract and how the code uses it
(external). The UDP handler appears here only as a reader of the client's
stream.

A peer is a script: its bytes and how it ends (`eof`, `reset`, or it stays
`open`); a backend may hold its answer back until it has seen the client's end
(`waits`).

**UdpAssociate.** `acc` is what the pending `read_udp_frame` future has consumed:
it is local to that future, so `Recv`, `RecvError` and `Timeout`, which drop it,
lose it. `Decode` is what a whole stream decodes to, for the properties only; it is
a recursive function over the offsets of the stream, so that it can be reasoned
about. A read takes one byte, which lets a datagram arrive between any two.
`put` is how much of a reply frame `write_all` has written: `Reply` is one write,
of any length, and `ReplyError` fails after any number of them. `reads = FALSE` is
a client that reads no more, whose connection takes `Window` bytes in all and
then stalls the write wherever it is. `torn` and `arrived` are history variables that the properties use.

**Server.** `limit` and `permits` come from `Semaphore::new(max_connections)` in
`Startup`'s `NewServer`. A permit is taken before `accept` and moves into the task. `_permit`
is the first local of the task and `handle_connection` owns the streams, so the
sockets close before the permit returns: `Return`, then `Release`.

**VisionAuth.** A request is `magic | version | command | address | timestamp |
password | hash`; a `u64` is one symbol of the stream, and the hash is a
parameter, so `verify_integrity` is what it does, encoding the decoded request
again and comparing. `ReadRequest` is `read_from` on what has arrived so far;
its checks come in the order of its reads, and the last ones follow its last
byte without another await, which is when the clock is read. `AsI64`, `Wrap` and
`Abs` are the casts, the subtraction and `abs()` of a release build. `wire` is
what the client sends and whether it then closes.

**RealityConnection.** `caller` is the await its caller is in, `machine` the
fields of the state machine, `owner` who holds the client's stream. A method is
cut at its awaits: the stream leaves the machine before `authenticate`, and is
put back by the code after it, `AuthOk` or `AuthErr`; the latter returns `Err`,
which drops the machine. The caller may call any method at any time, the wrong
ones included; `into_stream` gives it the stream of a machine in any state
(`Holds`), and `handle_authenticated_connection`, which checks nothing, takes any
stream a caller has, with either command. What is dialled is the address the
caller passes, so the model has none, and `get_auth_result` is a read.

**DirectSplice, TcpSplice, Splice.** `peer` says what each side sends, whether it reads
and how it ends; `taken`, `written`, `seen` are the bytes read from a side,
written to it and read by it. `DirectSplice` has one `branch` at a time, and a
`write_all` of several writes (`WriteAll`) between the read and the count
(`Flushed`). `TcpSplice` has a task per direction with a buffer of its own
(`tokio::io::copy` is external) and `Join`, which looks at both results.

**Startup.** `pc` is the call that `main()` or `RealityConfig::new` is in. A
string of the configuration is what the code asks of it; a PEM file is a list of
sections, well-formed or not, or a directory, which opens and cannot be read.
`FilesChange` replaces one file between any two steps of the loading. From
`pc = "Run"` on the steps are those of `Server`.

## Runs

| Run | Instance | Checks | Distinct states |
| --- | --- | --- | --- |
| `peek_buffer` | every string of at most 11 bytes over 8 byte values (2 after a verdict), 1-byte hash, 1- and 2-byte IPs; and headers with domains of 254 and 255 bytes, a wrong byte at every place | `HeaderEndExact`, `ParsersAgree`, `ShortIsBounded`, `VerdictStable` | 2.05 M |
| `connection` | eight streams and all their prefixes, three client endings, eight backends, a 13-byte window, 2-byte copy buffers | `TypeOK`, `RouteIgnoresFragmentation`, `BytesConserved`, `ShutdownIsComplete`, `SessionCountsPayload`, `KeepsContract`, `DecidableIsRouted`, `HalfCloseEndsRelay` | 60 k |
| `udp` | two streams of two frames, two cut ones, four malformed ones, clients that read or take 12 bytes, up to two datagrams | `TypeOK`, `InStepUntilTorn`, `RepliesReadBack`, `CountersMatchTraffic`, `AssociationEnds` | 209 k |
| `startup` | 21 configurations, 24 states of the two files; four clients, of which one stalls | `TypeOK`, `ListensOnlyWhenUsable`, `PermitsConserved`, `SocketsBounded`, `EveryoneAccepted` | 179 k |
| `splice` | either splice, two peers out of 24 (nothing or three bytes, reading or not, six ways to end), 2-byte windows and buffers | `TypeOK`, `BytesConserved`, `CountIsWhatWasWritten`, `OkIsComplete`, `SpliceReturns`, `ReadersAreServed` | 101 k |
| `reality` | 8-bit time, four clocks; both commands, three addresses, three hashes, ten timestamps; one symbol gone wrong at every place | `TypeOK`, `HeldMachineIsCoherent`, `StreamLeavesWhole`, `AcceptedIsExact`, `AcceptedIsRecent`, `HonestIsAccepted`, `AwaitsEnd` | 63 k |
| `probe` | real lengths, one 18-byte HTTP request | `NonTrojanFallsBack`: **violated** | |
| `udp_torn` | as `udp` | `WellFormedNeverRefused`: **violated** | |
| `udp_idle` | as `udp` | `IdleAssociationEnds`: **violated** | |
| `start_panics` | as `startup` | `ValidatedNeverPanics`: **violated** | |
| `vision_window` | as `reality`, with clocks later than the skew after 1970 | `AcceptedIsWithinWindow`: **violated** | |
| `splice_bidirectional` | as `splice` | `CopiesBothWays`: **violated** | |

Why the bounds are enough. The parsers look at a byte only through the tests in
the model (hex, CR, LF, command, type, UTF-8, length), and the alphabet has a
byte on either side of each; 11 bytes hold a complete header with a one-byte
domain and a byte more. The long streams add what scaling hides: the 255-byte
domain and the longest header (`MaxHeaderLen` is 265 with a 1-byte hash, 320 in
the code, where `PEEK_SIZE` is 512). A 2-byte copy buffer makes payloads of three
bytes fill it, and makes a read return part of a prefix. The window of 13 bytes is
that of the longest header of the instance: every header fits, and a header
without an end fills it. Two frames and two datagrams allow a datagram before, in
the middle of and after a frame, and a second one after the loop lost step.
`UDP_BUFFER_SIZE = 2` with a 3-byte datagram makes `recv_from` truncate, and 12
bytes hold one reply frame and a part of the next, so that a write stalls within a
frame. Four clients for one or two permits queue behind a stalled one and a failing
accept.

In `splice`, three bytes are more than a window and more than a buffer, so a read
is partial, a `write_all` takes several writes, and a peer that does not read
stops its direction. In `reality`, `I64_HALF = 128` and `MAX_SKEW = 3` put
timestamps on both sides of each edge of the window, of an `i64` and of a `u64`;
the hash is a checksum of one symbol. In `startup`, a configuration is wrong in one
field or in none, `max_connections` is 0, 1, 2, the default or above the
semaphore's bound (2048 here), and both files may be missing, malformed or of
either of two key pairs, the certificate also empty, malformed in part or a
directory.

Deadlock is not checked: a connection, an association, a buffer and a start that
fails come to their end, and so does an accept loop whose clients are all served.

### What the violations show

- `probe`: `try_parse_from_buf` says "more bytes" for any buffer under 58 bytes
  and the peek loop has no timeout, so a short non-Trojan request on a
  connection that stays open is neither forwarded nor closed, although
  `src/config/config.toml:32-33` says such traffic is forwarded.
- `udp_torn`: a datagram that arrives while a frame is half read drops the
  reader with the bytes it took; the rest of the frame is then read as the start
  of one, and a well-formed stream is refused as an invalid frame.
  `InStepUntilTorn` in the passing run says this is the only way to lose step.
- `udp_idle`: the reply is written outside `udp_timeout`; a client that stays
  connected and does not read keeps the association for ever.
  `AssociationEnds` in the passing run says clients that read cannot.
- `start_panics`: nothing bounds `max_connections`, and `Semaphore::new` asserts
  that it is at most `usize::MAX >> 3`: a configuration that `validate` accepts
  panics in `Server::new`, although `src/README.md:11` says that the validation
  avoids panics at run time.
- `vision_window`: `(now as i64 - ts as i64).abs() > 300` (`vision.rs:77`) wraps, and
  a timestamp `2^63` seconds away is accepted, since `i64::MIN.abs()` is negative in
  a release build (a debug build panics); `src/XTLS_REALITY_DESIGN.md:99` says 5
  minutes. In the instance the width is 8 bits: timestamp 133 by clock 5.
  `AcceptedIsRecent` in the passing run says that a timestamp an `i64` holds is never
  accepted outside the window.
- `splice_bidirectional`: the design has `copy_bidirectional` move the bytes
  (48, 161, 318), which ends each direction by itself and passes the end on. Neither
  splice does. TLC's trace is one of `DirectSplice`: a peer closes its half with
  nothing sent, `Ok` is returned at once and the other peer's last byte is never read.
  `tcp_splice` breaks the same property in another way, as the run shows when `which`
  is restricted to `"tcp"`: between a peer that closed its half and one that waits to
  see that end it never returns, because neither task shuts its destination down.
  `OkIsComplete`, `SpliceReturns` and `ReadersAreServed` in the passing run say what
  is left: what `Ok` does mean for each, and the ends after which each does return.

### Where the code is weaker than its documents and no run says so

- No machine in state `Fallback` is ever held by anyone, because the call that sets
  it returns `Err` and drops the machine (`state_machine.rs:77-87`), where the design
  forwards such a connection (100, 308) and the code logs "not implemented".
  `HeldMachineIsCoherent` states what the code does.
- The TLS handshake of `RealityHandshake::accept` has no timeout, where the design
  gives it 5 seconds (265). Nothing in the model makes it end.
- `max_connections = 0` passes `validate` and the server never accepts; a directory
  for a certificate file keeps `RealityConfig::new` busy for ever, because
  `filter_map(|c| c.ok())` (`handshake.rs:143`) asks again after every error. The run
  `startup` reaches both, and no document speaks of them.
- `ReadersAreServed` asks of `DirectSplice` that both peers read: while one
  direction waits in `write_all`, the other is not served. The design's independent
  tasks (202) are those of `tcp_splice`, for which the property asks it of one only.

### Fairness

- `Connection`: weak fairness of the whole next-state relation. A task whose I/O
  is ready is polled by tokio, and what a peer sends arrives. A peer that stays
  `open` and silent enables nothing, so nothing is assumed of it.
- `UdpAssociate`: weak fairness of the steps a poll takes, the timer included.
  Nothing makes a datagram arrive, a client read or a call fail.
- `Startup` and `Server`: weak fairness of the one sequence of calls of the start;
  the operator is free. Then weak fairness of acquiring, releasing and of the tasks whose clients
  do not stall (`Connection` shows when a task ends); strong fairness of
  `Accept`, since `accept()` may fail, but not for ever. No fairness for clients
  connecting or for failures.
- The splices: weak fairness of each task (the one of `DirectSplice`, the two of
  `TcpSplice`), of the join, and of peers that read.
- `RealityConnection`: weak fairness of the authentication timeout and of a dial,
  which has a timeout too. None of the handshake, which has none. Nothing makes a
  client send or the caller call a method.

## Theorems

Proved with TLAPS for every value of the constants that the assumptions allow:

- `LengthsAssumption`, `MaxBufferAssumption`, `ConnectionAssumption`,
  `ServerAssumption`, `SpliceAssumption`: lengths, windows and buffers are
  positive, scripts are byte sequences, the set of connections is finite.
- `UdpAssumption`: what a client sends is bytes; a datagram comes from an IPv4 or
  IPv6 socket address; the receive buffer is no larger than the longest payload,
  which 16 bits hold (both are 65535 in the code).
- `VisionAssumption`, `WireAssumption`, `HonestAssumption`: the skew and the clock
  fit an `i64`; what is on the wire is bytes, but for the symbol read as the
  timestamp; an honest request is one that `VisionAuthRequest::new` returns, and
  the hash function gives `VISION_HASH_LEN` bytes. Nothing else is assumed of the
  hash.
- `StartupAssumption`: the files are of the kinds listed in `Startup`.

**TrojanHeaderProofs**, the facts about the wire format that the others rest on.
If `s` begins `t`, then the fields of an address agree (`AddressAgrees`), a
verdict on `s` is the verdict on `t` (`TryParseStable`), and the header ends at
the same offset (`HeaderEndStable`); a buffer as long as the longest header is
never short (`TryParseDecides`). Both parsers agree, case by case
(`AddressParsersAgree`, `HeaderParsersAgree`). `Holds(s, k, p)` says that `p`
stands in `s` after `k` bytes; with it `EncodedAddress` says where the fields of an
encoded address stand, `DecodedAddress` that reading it gives the address back,
`AddressIsItsEncoding` and `HeaderIsItsEncoding` that what is read encodes to the
bytes read, and `HeaderIsWhole` that no shorter prefix is a header.

**PeekBufferProofs**: `VerdictIsStable`, `UndecidedIsShort`,
`PeekedHeaderIsExact` (`HeaderEndExact`), `BothParsersAgree` (`ParsersAgree`).

**ConnectionProofs**: `ConnectionTypes`, `RoutingIgnoresFragmentation`,
`NoByteIsLost`, `NoTruncatedShutdown`, `SessionCountersExact`. The inductive
invariant `ConnInv` joins the five properties, which need each other, and adds
four facts: which route each phase belongs to and that the peek loop goes on only
while the parser asks for more (`RouteOfPhase`); that until the stream is handed
over the peek buffer is exactly what was read (`NothingCopied`); that a direction
leaves `Running` only at its source's end and is `Done` only with an empty buffer
(`EndsSeen`); and that nothing is booked early (`NotBooked`). Routing follows from
`TryParseStable` and, for the fallback, from `TryParseDecides` with a window at
least as long as the longest header. Conservation is one lemma per kind of move
along the chain written, buffer, prefix, unread (`Refill`, `Flush`,
`ReadThrough`...); a complete shutdown then follows from conservation with all the
rest empty.

`ConnectionKeepsContract` is the refinement: `Spec => KeepsContract`, that is
`ProxyContract` under the mapping of `Connection`'s `Contract` instance, whenever
the window holds every header that a client sends whole (`HeadersFit`), which it does
if `PEEK_SIZE >= MaxHeaderLen` (512 and 320 in the code; with a shorter window
a valid client may be sent to the fallback, which the contract forbids). `InitRefines` maps
the initial states. `NextRefines` maps every action, from `ConnInv`: the peek
rounds to the choice of a destination or to nothing (`PeekRefines`, with the
verdict on the whole stream known from the verdict on a prefix), a replay or a
write to one step that gives its bytes to the peer (`ReplayRefines`,
`WriteRefines`: conservation says they are the next ones owed), a shutdown to the
end of that direction (`ShutdownRefines`), and reads into buffers to stuttering.

**ServerProofs**, lemmas about the accept loop for `StartupProofs`: each of its
steps keeps the types, `QueuedOnce` and `PermitsConserved`. The backlog has to list
queued connections, each once: otherwise an accept could put into the task count a
connection that is in it already.

**UdpAssociateProofs**: `UdpTypes`, `UdpInStepUntilTorn`, `UdpRepliesReadBack`,
`UdpCountersMatchTraffic`. The inductive invariant `UdpInv` has a half for each
direction. `StreamInv`: as long as nothing is torn, the reader holds exactly the
rest of what was consumed, the frame in hand is the last one consumed, and what
was sent is a subsequence of those before it. `ReplyInv`: the receive buffer is
the end of what arrived, and what was written is whole frames, those of its
beginning, and the first `put` bytes of the frame in hand.
The step of the first half is `DecodeAppend`: one byte more either lengthens the
rest or completes one frame, because the reader's verdict on a prefix is its
verdict on the stream (`ReadFrameStable`) and a frame is as long as its fields
say (`ReadFrameByLen`). The step of the second is `DecodeFrame`: appending what
`build_udp_frame` makes appends exactly that frame (`FrameReadsBack`), and
appending a beginning of it appends no frame, so that a write that stalls or fails
leaves the client with that beginning (`ReplyWritten`). What a
stream decodes to is a recursive function. The library's induction theorems take
an operator, which the provers cannot instantiate, so the inductions are on sets
of offsets (`Upwards`, `Backwards`, from `WFMin`), and the function's existence
(`DecoderExists`) is proved before its equation (`DecodeUnfolds`) is used.

**RealityProofs**: `RealityTypes`, `MachineIsCoherent`, `StreamsLeaveWhole`,
`AcceptedRequestIsExact`, `AcceptedTimestampIsRecent`, `HonestRequestIsAccepted`.
`MachineInv` ties, for each place its caller can be at, the machine's fields, the
outcome of the authentication and the owner of the stream; a machine whose
authentication failed never meets the second property because nobody has it any
more. `ReadInv` ties the outcome to the stream and to the clock: what was judged is
what stood after the last byte read, with the clock of then, and one byte earlier
the reader was still waiting, so it has read nothing past the request. That an
accepted request is its own encoding (`RequestIsItsEncoding`), and that an
encoded one is read back and found intact (`HonestIsRead`), come from the lemmas
on addresses above; `WindowModuloWidth`, `WindowOfI64` and `NearIsNotExpired` are the
wrapping arithmetic, for every width.

**SpliceProofs**: `SpliceTypes`, `SpliceConservesBytes`, `SpliceOkIsComplete`,
`SpliceCounts`, for both splices. `SpliceInv` is `TcpInv` or `DirectInv`,
whichever is at work. `TcpInv` adds to the properties that a task is `ok` only with
its source exhausted and its buffer empty (`DoneIsExhausted`), and that nothing
moves after the join (`JoinedIsDone`), so the sum `Join` takes stays the sum.
`DirectInv` rests on `Flow`: what was written to the other side, with the rest of
the chunk while `write_all` is at it, is the beginning of what the side sent, and
the count is what was flushed plus what the branch at work has put
(`CountIsExact`).

**StartupProofs**: `StartupTypes`, `ListeningServerIsUsable`
(`ListensOnlyWhenUsable`, for the server and for a `RealityConfig`),
`PermitsAreConserved`, `SocketsAreBounded`. `StartInv`
says which stage has established what, in variables that the operator's changes do
not touch; the types need that the configuration in use is the file's, with its
defaults (`ConfigIsRead`).

Every safety invariant, the action property and the refinement that a passing run
checks are so proved. Only model-checked is liveness (`DecidableIsRouted`,
`HalfCloseEndsRelay`, `AssociationEnds`, `EveryoneAccepted`, `AwaitsEnd`,
`SpliceReturns`, `ReadersAreServed`), which the prover does not
handle.

## Not modelled

- Argument parsing, logging, and what rustls does with certificates, keys and
  ALPN names. `with_single_cert` may fail; rustls 0.22 does not compare the
  certificate with the key, so a pair renewed between the two loads is started
  with (`tls.rs:30-31`).
- `RealityHandshake::with_fallback` (stores a configuration nothing reads),
  `CertResolver`, `get_browsersim_config`: library data. `UnwrapStream` passes
  every call on and its flag is read by nobody. `ConnectionState::Authenticating`
  and `Forwarding` are never set.
- Inside libraries: TLS records, TCP, DNS, the tokio scheduler. They appear as
  the streams, failures and fairness above.
- SHA-224 (a parameter of `VisionAuth`; `hash_password` is left out), the session
  id and durations, display of addresses.

## Plan

Done: codec, routing, relay and fallback with their contract, UDP, accept loop,
startup, Vision, the state machine, both splices, and the theorems above. Left:

1. An abstract specification of the association that `UdpAssociate` implements:
   two queues that lose, and a client stream that may lose step once.
2. That a machine which splices hands the splice the stream from the first byte
   after the request, as a refinement between `RealityConnection` and `Splice`.
3. The safety half of `EveryoneAccepted`: that connections are accepted in the
   order they queued.
