---------------------------- MODULE StartupProofs ----------------------------
(***************************************************************************)
(* What a running server and a RealityConfig have, for every configuration *)
(* file, every content of the certificate files and every change of them;  *)
(* and the server's permits and sockets, for any number of connections.    *)
(***************************************************************************)
EXTENDS Startup, ServerProofs

\* What a stage of the start established for the later ones: it is kept in
\* config and tls, which later changes of the files do not touch.
Usable(c) ==
  /\ c.passwords # << >>
  /\ \A i \in DOMAIN c.passwords : c.passwords[i] = "hash"
  /\ c.udp_bind_addr.socket
  /\ HostPortOk(c.fallback_addr)

Chain(certs) == certs # NoCerts /\ 0 \notin certs

OneKey(s) == Len(s) = 1 /\ s[1] # 0

Serving == {"Bind", "Run"}

StartInv ==
  /\ tls = [certs |-> tls.certs, key |-> tls.key]
  /\ pc \in {"LoadCerts", "LoadKey", "Build", "New"} \cup Serving
       => Usable(config[1])
  /\ pc \in {"LoadKey", "Build", "New", "RealityKey", "RealityBuilt"} \cup Serving
       => Chain(tls.certs)
  /\ pc \in {"Build", "New", "RealityBuilt"} \cup Serving => OneKey(tls.key)

\* The type invariant is inductive with it, once a configuration is known to
\* have been read wherever it is used.
ConfigIsRead ==
  pc \in {"Validate", "LoadCerts", "LoadKey", "Build", "New"} \cup Serving
    => config # << >>

\* No task runs before the accept loop does.
NothingRuns == pc # "Run" => At(InTask) = {}

StartTypes == TypeOK /\ ConfigIsRead /\ NothingRuns /\ PermitInv

-----------------------------------------------------------------------------
\* What validate accepts is usable, whatever the files on disk become.
LEMMA ValidIsUsable ==
  ASSUME NEW c, NEW d, Valid(c, d)
  PROVE  Usable(c)
BY DEF Valid, Usable

\* What either loader of a chain returns, and the loader of the key.
LEMMA LoadCertsIsChain ==
  ASSUME NEW f
  PROVE  /\ LoadCerts(f) # NoCerts => Chain(LoadCerts(f))
         /\ RealityLoadCerts(f) # NoCerts => Chain(RealityLoadCerts(f))
BY DEF LoadCerts, RealityLoadCerts, NoCerts, Chain

LEMMA LoadKeyIsOne ==
  ASSUME NEW f, LoadKey(f) # Failed
  PROVE  OneKey(LoadKey(f))
BY DEF LoadKey, Failed, OneKey

\* The loaders' types, for any content of a file,
LEMMA LoaderTypes ==
  ASSUME NEW f \in PemFile
  PROVE  /\ LoadCerts(f) \in SUBSET Nat
         /\ RealityLoadCerts(f) \in SUBSET Nat
         /\ LoadKey(f) \in Seq(Nat)
<1>1. f.sections \in Seq(Nat)
  BY DEF PemFile
<1>2. \A i \in DOMAIN f.sections : f.sections[i] \in Nat
  BY <1>1, ElementOfSeq, LenProperties
<1>3. f.sections # << >> => f.sections[1] \in Nat
  BY <1>1, <1>2, EmptySeq, LenProperties
<1> QED
  BY <1>2, <1>3 DEF LoadCerts, RealityLoadCerts, LoadKey, Sections, NoCerts, Failed

\* and that of a limit that is left to serde's default or given.
LEMMA LimitType ==
  ASSUME NEW f \in ConfigFiles, f # << >>
  PROVE  Parsed(f[1]).max_connections \in Nat
<1>1. PICK c \in {f[1]} : f = <<c>> /\ c \in RawConfig
  BY StartupAssumption
<1>2. c = f[1] /\ c.max_connections \in Seq(Nat)
  BY <1>1 DEF RawConfig
<1>3. c.max_connections # << >> => c.max_connections[1] \in Nat
  BY <1>2, EmptySeq, LenProperties, ElementOfSeq
<1> QED
  BY <1>2, <1>3 DEF Parsed, Default

-----------------------------------------------------------------------------
LEMMA StartInit == Init => StartInv
BY DEF Init, StartInv, Serving

\* One step per action; most leave config and tls alone and move pc on by one.
LEMMA StartStep == StartInv /\ [Next]_vars => StartInv'
<1> SUFFICES ASSUME StartInv, [Next]_vars
             PROVE  StartInv'
  OBVIOUS
<1> USE DEF Serving
<1>1. CASE LoadConfig
  BY <1>1 DEF LoadConfig, Exit, StartInv
<1>2. CASE Validate
  BY <1>2, ValidIsUsable DEF Validate, Exit, StartInv
<1>3. CASE LoadTlsCerts
  <2>1. tls' = [certs |-> LoadCerts(disk.cert), key |-> tls.key]
    BY <1>3 DEF LoadTlsCerts, StartInv
  <2> QED
    BY <1>3, <2>1, LoadCertsIsChain DEF LoadTlsCerts, Exit, StartInv
<1>4. CASE LoadTlsKey
  <2>1. tls' = [certs |-> tls.certs, key |-> LoadKey(disk.key)]
    BY <1>4 DEF LoadTlsKey, StartInv
  <2> QED
    BY <1>4, <2>1, LoadKeyIsOne DEF LoadTlsKey, Exit, StartInv
<1>5. CASE BuildTls
  BY <1>5 DEF BuildTls, Exit, StartInv
<1>6. CASE NewServer
  BY <1>6 DEF NewServer, StartInv
<1>7. CASE Bind
  BY <1>7 DEF Bind, Exit, StartInv
<1>8. CASE Run
  BY <1>8 DEF Run, Running, StartInv
<1>9. CASE RealityCerts
  <2>1. tls' = [certs |-> RealityLoadCerts(disk.cert), key |-> tls.key]
    BY <1>9 DEF RealityCerts, StartInv
  <2>2. /\ pc' \in {"Spinning", "Exited", "RealityKey"}
        /\ pc' = "RealityKey" => RealityLoadCerts(disk.cert) # NoCerts
    BY <1>9 DEF RealityCerts
  <2> QED
    BY <2>1, <2>2, LoadCertsIsChain DEF StartInv
<1>10. CASE RealityKey
  <2>1. tls' = [certs |-> tls.certs, key |-> LoadKey(disk.key)]
    BY <1>10 DEF RealityKey, StartInv
  <2>2. /\ pc' \in {"Exited", "RealityBuilt"}
        /\ pc' = "RealityBuilt" => LoadKey(disk.key) # Failed /\ pc = "RealityKey"
    BY <1>10 DEF RealityKey, Exit
  <2> QED
    BY <2>1, <2>2, LoadKeyIsOne DEF StartInv
<1>11. CASE FilesChange
  BY <1>11 DEF FilesChange, StartInv
<1>12. CASE UNCHANGED vars
  BY <1>12 DEF vars, StartInv
<1> QED
  BY <1>1, <1>2, <1>3, <1>4, <1>5, <1>6, <1>7, <1>8, <1>9, <1>10, <1>11, <1>12
  DEF Next, Main, Reality

(***************************************************************************)
(* A server that runs has usable hashes, addresses, chain and key, and  *)
(* a RealityConfig that was built has a chain and a key, whenever and      *)
(* however the files change between the looks the start takes at them:     *)
(* Config::validate, TlsConfig::new and RealityConfig::new.                *)
(***************************************************************************)
THEOREM ListeningServerIsUsable == Spec => []ListensOnlyWhenUsable
<1>1. StartInv => ListensOnlyWhenUsable
  BY DEF StartInv, ListensOnlyWhenUsable, ServerIsUsable,
         HasChainAndKey, Usable, Chain, OneKey, Serving
<1> QED
  BY StartInit, StartStep, <1>1, PTL DEF Spec

-----------------------------------------------------------------------------
LEMMA TypesInit == Init => StartTypes
<1> SUFFICES ASSUME Init PROVE StartTypes
  OBVIOUS
<1>1. tls \in [certs : SUBSET Nat, key : Seq(Nat)]
  BY EmptySeq DEF Init, NoCerts
<1>2. PermitInv /\ ServerTypeOK
  BY PermitInit, PermitTypes DEF Init
<1>3. At(InTask) = {}
  BY DEF Init, ServerInit, At, InTask
<1> QED
  BY <1>1, <1>2, <1>3
  DEF Init, ServerInit, StartTypes, TypeOK, ConfigIsRead, NothingRuns, Serving

LEMMA TypesStep == StartTypes /\ [Next]_vars => StartTypes'
<1> SUFFICES ASSUME StartTypes, [Next]_vars
             PROVE  StartTypes'
  OBVIOUS
<1> USE DEF StartTypes, ConfigIsRead, NothingRuns, Serving
<1>d. disk.cert \in PemFile /\ disk.key \in PemFile
  BY StartupAssumption DEF TypeOK, DiskType
<1>t. /\ tls = [certs |-> tls.certs, key |-> tls.key]
      /\ tls.certs \in SUBSET Nat /\ tls.key \in Seq(Nat)
  BY DEF TypeOK
\* A step of the start that leaves the server alone.
<1>s. ASSUME UNCHANGED serverVars
      PROVE  /\ PermitInv' /\ ServerTypeOK'
             /\ At(InTask)' = At(InTask)
             /\ limit' = limit /\ loop' = loop
  <2>1. PermitInv'
    BY <1>s, PermitNext
  <2>2. ServerTypeOK'
    BY <1>s DEF TypeOK, ServerTypeOK, serverVars
  <2> QED
    BY <1>s, <2>1, <2>2 DEF serverVars, At
<1>1. CASE LoadConfig
  <2>1. /\ pc' \in {"Exited", "Validate"} /\ pc = "Load"
        /\ UNCHANGED <<file, disk, tls, serverVars>>
        /\ \/ config' = config /\ pc' = "Exited"
           \/ file # << >> /\ config' = <<Parsed(file[1])>>
    BY <1>1 DEF LoadConfig, Exit
  <2>2. PermitInv' /\ ServerTypeOK' /\ At(InTask)' = At(InTask) /\ loop' = loop
    BY <1>s, <2>1
  <2>3. TypeOK'
    BY <2>1, <2>2 DEF TypeOK
  <2>4. ConfigIsRead'
    <3>1. CASE pc' = "Exited"
      BY <3>1
    <3>2. CASE config' = <<Parsed(file[1])>>
      BY <3>2
    <3> QED
      BY <2>1, <3>1, <3>2
  <2> QED
    BY <2>1, <2>2, <2>3, <2>4
<1>2. CASE Validate
  BY <1>2, <1>s DEF Validate, Exit, TypeOK
<1>3. CASE LoadTlsCerts
  <2>1. tls' = [certs |-> LoadCerts(disk.cert), key |-> tls.key]
    BY <1>3, <1>t DEF LoadTlsCerts
  <2>2. tls' \in [certs : SUBSET Nat, key : Seq(Nat)]
    BY <2>1, <1>t, <1>d, LoaderTypes
  <2> QED
    BY <1>3, <1>s, <2>2 DEF LoadTlsCerts, Exit, TypeOK
<1>4. CASE LoadTlsKey
  <2>1. tls' = [certs |-> tls.certs, key |-> LoadKey(disk.key)]
    BY <1>4, <1>t DEF LoadTlsKey
  <2>2. tls' \in [certs : SUBSET Nat, key : Seq(Nat)]
    BY <2>1, <1>t, <1>d, LoaderTypes
  <2> QED
    BY <1>4, <1>s, <2>2 DEF LoadTlsKey, Exit, TypeOK
<1>5. CASE BuildTls
  BY <1>5, <1>s DEF BuildTls, Exit, TypeOK
<1>6. CASE NewServer
  <2> DEFINE max == config[1].max_connections
  <2>1. max \in Nat /\ At(InTask) = {} /\ loop = "Off"
    BY <1>6, LimitType DEF NewServer, TypeOK
  <2>2. CASE max > MAX_PERMITS
    <3>1. UNCHANGED serverVars /\ pc' = "Panicked"
      BY <1>6, <2>2 DEF NewServer, serverVars
    <3> QED
      BY <1>6, <1>s, <2>1, <3>1 DEF NewServer, TypeOK
  <2>3. CASE ~(max > MAX_PERMITS)
    <3>1. /\ pc' = "Bind" /\ limit' = max /\ permits' = max
          /\ UNCHANGED <<loop, backlog, task>>
      BY <1>6, <2>3 DEF NewServer
    <3>2. PermitInv'
      BY <2>1, <3>1, PermitNew
    <3>3. ServerTypeOK'
      BY <2>1, <3>1 DEF TypeOK, ServerTypeOK
    <3>4. At(InTask)' = {}
      BY <2>1, <3>1 DEF At
    <3> QED
      BY <1>6, <2>1, <3>1, <3>2, <3>3, <3>4 DEF NewServer, TypeOK
  <2> QED
    BY <2>2, <2>3
<1>7. CASE Bind
  <2>1. loop = "Off" /\ At(InTask) = {}
    BY <1>7 DEF Bind, TypeOK
  <2>2. CASE pc' = "Run" /\ loop' = "Acquire"
    <3>1. PermitInv'
      BY <1>7, <2>1, <2>2, PermitBind DEF Bind
    <3>2. ServerTypeOK'
      BY <1>7, <2>2 DEF Bind, TypeOK, ServerTypeOK
    <3> QED
      BY <1>7, <2>2, <3>1, <3>2 DEF Bind, TypeOK
  <2>3. CASE Exit /\ UNCHANGED loop
    <3>1. UNCHANGED serverVars
      BY <1>7, <2>3 DEF Bind, serverVars
    <3> QED
      BY <1>7, <1>s, <2>1, <2>3, <3>1 DEF Bind, Exit, TypeOK
  <2> QED
    BY <1>7, <2>2, <2>3 DEF Bind
<1>8. CASE Run
  <2>1. pc = "Run" /\ ServerNext /\ UNCHANGED <<pc, file, disk, config, tls>>
    BY <1>8 DEF Run, Running
  <2>2. PermitInv' /\ ServerTypeOK'
    <3>1. PermitInv'
      BY <2>1, PermitNext
    <3>2. (PermitInv => ServerTypeOK)'
      BY PermitTypes, PTL
    <3> QED
      BY <3>1, <3>2
  <2>3. limit' = limit /\ loop' # "Off"
    BY <2>1 DEF ServerNext, Acquire, Accept, AcceptError, Arrive, Serve, HandshakeOk,
       HandshakeFail, OpenPeer, Return, Release, Step, TypeOK
  <2> QED
    BY <2>1, <2>2, <2>3 DEF TypeOK
<1>9. CASE RealityCerts
  <2>1. tls' = [certs |-> RealityLoadCerts(disk.cert), key |-> tls.key]
    BY <1>9, <1>t DEF RealityCerts
  <2>2. tls' \in [certs : SUBSET Nat, key : Seq(Nat)]
    BY <2>1, <1>t, <1>d, LoaderTypes
  <2>3. pc' \in {"Spinning", "Exited", "RealityKey"} /\ pc = "RealityCerts"
    BY <1>9 DEF RealityCerts
  <2> QED
    BY <1>9, <1>s, <2>2, <2>3 DEF RealityCerts, TypeOK
<1>10. CASE RealityKey
  <2>1. tls' = [certs |-> tls.certs, key |-> LoadKey(disk.key)]
    BY <1>10, <1>t DEF RealityKey
  <2>2. tls' \in [certs : SUBSET Nat, key : Seq(Nat)]
    BY <2>1, <1>t, <1>d, LoaderTypes
  <2> QED
    BY <1>10, <1>s, <2>2 DEF RealityKey, Exit, TypeOK
<1>11. CASE FilesChange
  BY <1>11, <1>s DEF FilesChange, TypeOK
<1>12. CASE UNCHANGED vars
  BY <1>12, <1>s DEF vars, TypeOK
<1> QED
  BY <1>1, <1>2, <1>3, <1>4, <1>5, <1>6, <1>7, <1>8, <1>9, <1>10, <1>11, <1>12
  DEF Next, Main, Reality

LEMMA TypesInvariant == Spec => []StartTypes
<1> QED
  BY TypesInit, TypesStep, PTL DEF Spec

(***************************************************************************)
(* Type correctness of Startup and Server: the configuration in use is the *)
(* one that was read, the server runs with its limit, and the semaphore    *)
(* never holds a permit more than it was made with, whatever the order in  *)
(* which tasks give theirs back.                                           *)
(***************************************************************************)
THEOREM StartupTypes == Spec => []TypeOK
<1>1. StartTypes => TypeOK
  BY DEF StartTypes
<1> QED
  BY TypesInvariant, <1>1, PTL

(***************************************************************************)
(* In every state the permits available, the accept loop's and the tasks'  *)
(* are max_connections together, or none before Server::new.               *)
(***************************************************************************)
THEOREM PermitsAreConserved == Spec => []PermitsConserved
<1>1. StartTypes => PermitsConserved
  BY DEF StartTypes, PermitInv
<1> QED
  BY TypesInvariant, <1>1, PTL

(***************************************************************************)
(* The server never has more than two sockets open per permit.             *)
(***************************************************************************)
THEOREM SocketsAreBounded == Spec => []SocketsBounded
<1>1. StartTypes => SocketsBounded
  BY PermitSockets DEF StartTypes
<1> QED
  BY TypesInvariant, <1>1, PTL

=============================================================================
