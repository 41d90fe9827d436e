------------------------------ MODULE Startup -------------------------------
(***************************************************************************)
(* The server from main() on: Config::from_file and validate               *)
(* (src/src/config.rs), TlsConfig::new (src/src/tls.rs), Server::new and   *)
(* Server::run (src/src/server.rs), whose accept loop is module Server;    *)
(* and RealityConfig::new (src/src/reality/handshake.rs), which a program  *)
(* that uses the library calls with the same files.  Meanwhile the         *)
(* operator changes the certificate files.  A string is what the code asks *)
(* of it: whether it parses as a socket address, has a colon, a host       *)
(* before it and a port after it.                                          *)
(***************************************************************************)
EXTENDS Server

CONSTANTS
  ConfigFiles,   \* what config.toml may hold; << >> if it cannot be read or parsed
  Disks,         \* what the files tls_cert and tls_key may hold, see DiskType
  MAX_PERMITS    \* tokio's Semaphore::MAX_PERMITS (usize::MAX >> 3)

\* A PEM file is its sections: 0 is malformed, n > 0 belongs to key pair n; one
\* that is no `file' (a directory) opens, and every read of it fails.
PemFile  == [exists : BOOLEAN, file : BOOLEAN, sections : Seq(Nat)]
DiskType == [cert : PemFile, key : PemFile]
Text == [socket : BOOLEAN, colon : BOOLEAN, host : BOOLEAN, port : BOOLEAN]

\* An optional field is << >> when the file does not have it.
Optional(T) == {<< >>} \cup {<<x>> : x \in T}
RawConfig == [passwords : Seq({"hash", "other"}), bind_addr : Optional(Text),
              udp_bind_addr : Optional(Text), fallback_addr : Optional(Text),
              max_connections : Seq(Nat)]

ASSUME StartupAssumption ==
  /\ \A f \in ConfigFiles :
       f = << >> \/ \E c \in {f[1]} : f = <<c>> /\ c \in RawConfig
  /\ Disks \subseteq DiskType
  /\ MAX_PERMITS \in Nat

VARIABLES
  pc,        \* where main() or RealityConfig::new is, or how it ended
  file,      \* the configuration file
  disk,      \* the certificate files
  config,    \* the Config made of it
  tls        \* the certificates and the key loaded

vars == <<pc, file, disk, config, tls, serverVars>>

-----------------------------------------------------------------------------
Default(optional, value) == IF optional = << >> THEN value ELSE optional[1]
SocketText == [socket |-> TRUE, colon |-> TRUE, host |-> TRUE, port |-> TRUE]

\* serde's defaults for the fields that may be absent.
Parsed(raw) ==
  [passwords       |-> raw.passwords,
   bind_addr       |-> Default(raw.bind_addr, SocketText),
   udp_bind_addr   |-> Default(raw.udp_bind_addr, SocketText),
   fallback_addr   |-> Default(raw.fallback_addr, SocketText),
   max_connections |-> Default(raw.max_connections, 1024)]

\* validate_host_port.
HostPortOk(t) == t.socket \/ (t.colon /\ t.host /\ t.port)

\* Mutant: one good hash is enough.
ValidAnyPassword(c, d) ==
  /\ \E i \in DOMAIN c.passwords : c.passwords[i] = "hash"
  /\ c.bind_addr.socket /\ c.udp_bind_addr.socket
  /\ d.cert.exists /\ d.key.exists
  /\ HostPortOk(c.fallback_addr)

\* Config::validate; each conjunct is an error of its own.
Valid(c, d) ==
  /\ c.passwords # << >>
  /\ c.bind_addr.socket
  /\ d.cert.exists
  /\ d.key.exists
  /\ \A i \in DOMAIN c.passwords : c.passwords[i] = "hash"
  /\ c.udp_bind_addr.socket
  /\ HostPortOk(c.fallback_addr)

\* The chain a loader returns: the key pairs its certificates belong to.
Sections(f) == {f.sections[i] : i \in DOMAIN f.sections}
NoCerts == {}

\* load_certs of tls.rs: any malformed section is an error, and so is none.
LoadCerts(f) ==
  IF f.exists /\ f.file /\ 0 \notin Sections(f) THEN Sections(f) ELSE NoCerts

Failed == << >>

\* load_key, and load_private_key of reality/handshake.rs: the first key.
LoadKey(f) ==
  IF f.exists /\ f.file /\ f.sections # << >> /\ f.sections[1] # 0
    THEN <<f.sections[1]>> ELSE Failed

\* load_certs of reality/handshake.rs: filter_map drops the malformed ones.
RealityLoadCerts(f) ==
  IF f.exists /\ f.file THEN Sections(f) \ {0} ELSE NoCerts

-----------------------------------------------------------------------------
Init ==
  /\ pc \in {"Load", "RealityCerts"}
  /\ file \in ConfigFiles
  /\ disk \in Disks
  /\ config = << >>
  /\ tls = [certs |-> NoCerts, key |-> << >>]
  /\ ServerInit

Exit == pc' = "Exited"

\* Config::from_file up to validate.
LoadConfig ==
  /\ pc = "Load"
  /\ IF file = << >>
       THEN Exit /\ UNCHANGED config
       ELSE pc' = "Validate" /\ config' = <<Parsed(file[1])>>
  /\ UNCHANGED <<file, disk, tls, serverVars>>

Validate ==
  /\ pc = "Validate"
  /\ IF Valid(config[1], disk) THEN pc' = "LoadCerts" ELSE Exit
  /\ UNCHANGED <<file, disk, config, tls, serverVars>>

\* TlsConfig::new opens the two files one after the other.
LoadTlsCerts ==
  /\ pc = "LoadCerts"
  /\ tls' = [tls EXCEPT !.certs = LoadCerts(disk.cert)]
  /\ IF LoadCerts(disk.cert) = NoCerts THEN Exit ELSE pc' = "LoadKey"
  /\ UNCHANGED <<file, disk, config, serverVars>>

LoadTlsKey ==
  /\ pc = "LoadKey"
  /\ tls' = [tls EXCEPT !.key = LoadKey(disk.key)]
  /\ IF LoadKey(disk.key) = Failed THEN Exit ELSE pc' = "Build"
  /\ UNCHANGED <<file, disk, config, serverVars>>

\* with_single_cert, which fails for a key of an unknown kind.
BuildTls ==
  /\ pc = "Build"
  /\ pc' = "New" \/ Exit
  /\ UNCHANGED <<file, disk, config, tls, serverVars>>

\* Mutant: the semaphore is a permit short.
NewServerOneShort ==
  LET max == config[1].max_connections
  IN  /\ pc = "New"
      /\ IF max > MAX_PERMITS
           THEN pc' = "Panicked" /\ UNCHANGED <<limit, permits>>
           ELSE pc' = "Bind" /\ limit' = max /\ permits' = max - 1
      /\ UNCHANGED <<file, disk, config, tls, loop, backlog, task>>

\* Server::new: Semaphore::new asserts its bound.
NewServer ==
  LET max == config[1].max_connections
  IN  /\ pc = "New"
      /\ IF max > MAX_PERMITS
           THEN pc' = "Panicked" /\ UNCHANGED <<limit, permits>>
           ELSE pc' = "Bind" /\ limit' = max /\ permits' = max
      /\ UNCHANGED <<file, disk, config, tls, loop, backlog, task>>

\* TcpListener::bind.
Bind ==
  /\ pc = "Bind"
  /\ \/ pc' = "Run" /\ loop' = "Acquire"
     \/ Exit /\ UNCHANGED loop
  /\ UNCHANGED <<file, disk, config, tls, limit, permits, backlog, task>>

\* Server::run from there on.
Running(A) ==
  /\ pc = "Run"
  /\ A
  /\ UNCHANGED <<pc, file, disk, config, tls>>

Run == Running(ServerNext)

\* RealityConfig::new.  rustls_pemfile's iterator (external) yields the error of
\* a failing read at every call, and filter_map(ok) asks it again: `Spinning'.
RealityCerts ==
  /\ pc = "RealityCerts"
  /\ tls' = [tls EXCEPT !.certs = RealityLoadCerts(disk.cert)]
  /\ pc' = IF disk.cert.exists /\ ~disk.cert.file
              THEN "Spinning"
            ELSE IF RealityLoadCerts(disk.cert) = NoCerts
              THEN "Exited" ELSE "RealityKey"
  /\ UNCHANGED <<file, disk, config, serverVars>>

RealityKey ==
  /\ pc = "RealityKey"
  /\ tls' = [tls EXCEPT !.key = LoadKey(disk.key)]
  /\ IF LoadKey(disk.key) = Failed THEN Exit ELSE pc' = "RealityBuilt"
  /\ UNCHANGED <<file, disk, config, serverVars>>

\* The operator renews, replaces or removes a file, one at a time.
FilesChange ==
  /\ pc \in {"Load", "Validate", "LoadCerts", "LoadKey", "RealityCerts", "RealityKey"}
  /\ \E d \in Disks :
       /\ d.cert = disk.cert \/ d.key = disk.key
       /\ disk' = d
  /\ UNCHANGED <<pc, file, config, tls, serverVars>>

Main == LoadConfig \/ Validate \/ LoadTlsCerts \/ LoadTlsKey \/ BuildTls
          \/ NewServer \/ Bind

Reality == RealityCerts \/ RealityKey

Next == Main \/ Run \/ Reality \/ FilesChange

Spec == Init /\ [][Next]_vars

\* The start is one sequence of calls that return.  After it the runtime polls
\* every task that can move, and the tasks of clients that do not stall come to
\* their end (module Connection shows when).  accept() does not fail for ever.
Fairness ==
  /\ WF_vars(Main \/ Reality)
  /\ WF_vars(Running(Acquire))
  /\ SF_vars(Running(Accept))
  /\ \A c \in Conns \ Stalled : WF_vars(Running(Serve(c)))
  /\ \A c \in Conns : WF_vars(Running(Release(c)))
FairSpec == Spec /\ Fairness

-----------------------------------------------------------------------------
(***************************************************************************)
(* The types, and that the accept loop runs only in a server that was made *)
(* and bound, with the limit of its configuration.                         *)
(***************************************************************************)
TypeOK ==
  /\ pc \in {"Load", "Validate", "LoadCerts", "LoadKey", "Build", "New", "Bind",
             "Run", "Exited", "Panicked",
             "RealityCerts", "RealityKey", "RealityBuilt", "Spinning"}
  /\ file \in ConfigFiles
  /\ disk \in Disks
  /\ config = << >> \/ (file # << >> /\ config = <<Parsed(file[1])>>)
  /\ tls \in [certs : SUBSET Nat, key : Seq(Nat)]
  /\ ServerTypeOK
  /\ loop # "Off" <=> pc = "Run"
  /\ pc \in {"Bind", "Run"} => limit = config[1].max_connections

(***************************************************************************)
(* A server that listens has what its connections rely on, also when the   *)
(* files changed after validate had looked at them and fields were left    *)
(* out: hashes for verify_password and nothing else on the list, addresses *)
(* that handle_udp and handle_fallback can use, a chain without malformed  *)
(* parts and a key.  A RealityConfig that was built has the last two.      *)
(***************************************************************************)
HasChainAndKey ==
  /\ tls.certs # NoCerts /\ 0 \notin tls.certs
  /\ Len(tls.key) = 1 /\ tls.key[1] # 0

ServerIsUsable ==
  pc = "Run" =>
    /\ config[1].passwords # << >>
    /\ \A i \in DOMAIN config[1].passwords : config[1].passwords[i] # "other"
    /\ config[1].udp_bind_addr.socket
    /\ HostPortOk(config[1].fallback_addr)
    /\ HasChainAndKey

ListensOnlyWhenUsable ==
  /\ ServerIsUsable
  /\ pc = "RealityBuilt" => HasChainAndKey

(***************************************************************************)
(* "Stronger error handling and configuration validation (no panics at     *)
(* run time)" (src/README.md, 11): a configuration that passed validate    *)
(* makes no later part of the start panic.  Expected to fail: validate     *)
(* does not look at max_connections, and Semaphore::new panics above its   *)
(* bound.                                                                  *)
(***************************************************************************)
ValidatedNeverPanics == pc # "Panicked"

=============================================================================
