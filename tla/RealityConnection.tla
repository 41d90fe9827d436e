-------------------------- MODULE RealityConnection -------------------------
(***************************************************************************)
(* ConnectionStateMachine and handle_authenticated_connection              *)
(* (src/src/reality/state_machine.rs) for one client, from the TLS         *)
(* handshake (src/src/reality/handshake.rs, RealityHandshake::accept) to   *)
(* the splice, which is module TcpSplice.  The methods take the machine by *)
(* value, so one that returns Err drops it, with its stream.  Nothing in   *)
(* the server calls this code: the caller is any program that makes a      *)
(* machine of a client's stream and calls its methods, in any order, and   *)
(* handle_authenticated_connection on a stream it got back.  The addresses *)
(* dialled are arguments of the caller's and are left out.                 *)
(***************************************************************************)
EXTENDS VisionAuth

CONSTANT FallbackAddress   \* the argument of set_fallback

VARIABLES
  caller,    \* what the caller does or awaits
  machine,   \* the fields of the state machine
  owner      \* of the client's stream: machine, method, splice, caller, dropped

mvars == <<caller, machine, owner>>
vars == <<avars, mvars>>

None == [is |-> "None"]
Some(x) == [is |-> "Some", it |-> x]

States == {"Handshake", "Authenticating", "Authenticated", "Forwarding",
           "Fallback", "Closed"}

\* ConnectionStateMachine::new(stream).
NewMachine == [state |-> "Handshake", auth_result |-> None, fallback_address |-> None]

Init ==
  /\ AuthInit
  /\ caller = "Handshake"
  /\ machine = NewMachine
  /\ owner = "method"

\* RealityHandshake::accept, with its one configuration, then new.
AcceptTls ==
  /\ caller = "Handshake"
  /\ caller' = "Ready" /\ owner' = "machine"
  /\ UNCHANGED <<avars, machine>>

\* A method returns Err; what it owned is dropped.
ReturnErr == caller' = "Returned" /\ owner' = "dropped"

AcceptTlsFails ==
  /\ caller = "Handshake"
  /\ ReturnErr
  /\ UNCHANGED <<avars, machine>>

SetFallback ==
  /\ caller = "Ready"
  /\ machine' = [machine EXCEPT !.fallback_address = Some(FallbackAddress)]
  /\ UNCHANGED <<avars, caller, owner>>

\* into_stream: the machine is gone, in whatever state it was.
IntoStream ==
  /\ caller = "Ready"
  /\ caller' = "Holds" /\ owner' = "caller"
  /\ UNCHANGED <<avars, machine>>

\* transition_to_authenticating up to its await: the stream leaves the machine.
TransitionToAuthenticating ==
  /\ caller = "Ready" /\ machine.state = "Handshake"
  /\ StartAuth
  /\ caller' = "Authenticating" /\ owner' = "method"
  /\ UNCHANGED machine

\* Either transition called in the wrong state: the machine is dropped.
WrongAuthenticating ==
  /\ caller = "Ready" /\ machine.state # "Handshake"
  /\ ReturnErr
  /\ UNCHANGED <<avars, machine>>

WrongForwarding ==
  /\ caller = "Ready" /\ machine.state # "Authenticated"
  /\ ReturnErr
  /\ UNCHANGED <<avars, machine>>

\* Mutant: the result is not kept.
AuthOkForgets(request) ==
  /\ machine' = [machine EXCEPT !.state = "Authenticated"]
  /\ caller' = "Ready" /\ owner' = "machine"

AuthOk(request) ==
  /\ machine' = [machine EXCEPT
                   !.state = "Authenticated",
                   !.auth_result = Some([command |-> request.command,
                                         address |-> request.address])]
  /\ caller' = "Ready" /\ owner' = "machine"

Refused ==
  machine' = [machine EXCEPT
                !.state = IF machine.fallback_address = None
                            THEN "Closed" ELSE "Fallback"]

\* Mutants: the machine, with the stream put back, is returned; it is left as
\* owner of the stream by a method that returned.
AuthErrReturnsMachine == Refused /\ caller' = "Ready" /\ owner' = "machine"
AuthErrKeeps == Refused /\ caller' = "Returned" /\ owner' = "machine"

\* The stream is put back into a machine that Err(e) then drops.
AuthErr == Refused /\ ReturnErr

\* The rest of the method, once vision.authenticate has returned.
AuthReturns ==
  /\ caller = "Authenticating"
  /\ CASE auth'.is = "Reading" -> UNCHANGED <<caller, machine, owner>>
       [] auth'.is = "Ok"      -> AuthOk(auth'.v.request)
       [] auth'.is = "Bad"     -> AuthErr

AuthReads == (ReadByte \/ ReadEof) /\ AuthReturns
AuthTimesOut == AuthTimeout /\ AuthReturns

\* Mutant: any machine may be forwarded.
ForwardAnyState ==
  /\ caller = "Ready"
  /\ caller' = "DialToForward" /\ owner' = "method"
  /\ UNCHANGED <<avars, machine>>

\* transition_to_forwarding, to the caller's target_address.
TransitionToForwarding ==
  /\ caller = "Ready" /\ machine.state = "Authenticated"
  /\ caller' = "DialToForward" /\ owner' = "method"
  /\ UNCHANGED <<avars, machine>>

\* handle_authenticated_connection: a function over any stream, with the
\* caller's command and address.
HandleAuthenticatedConnection ==
  /\ caller \in {"Holds", "Forwarding"}
  /\ \/ (* CONNECT *)       caller' = "DialToSplice" /\ owner' = "method"
     \/ (* UDP ASSOCIATE *) ReturnErr
  /\ UNCHANGED <<avars, machine>>

\* TcpStream::connect succeeds in time: the stream goes to tcp_splice, or back
\* to the caller together with the connection.
DialOk ==
  /\ \/ caller = "DialToSplice" /\ caller' = "Splicing" /\ owner' = "splice"
     \/ caller = "DialToForward" /\ caller' = "Forwarding" /\ owner' = "caller"
  /\ UNCHANGED <<avars, machine>>

\* It is refused, or connect_timeout runs out.
DialFails ==
  /\ caller \in {"DialToSplice", "DialToForward"}
  /\ ReturnErr
  /\ UNCHANGED <<avars, machine>>

\* tcp_splice returns; it owned both streams.
SpliceEnds ==
  /\ caller = "Splicing"
  /\ caller' = "Returned" /\ owner' = "dropped"
  /\ UNCHANGED <<avars, machine>>

Next ==
  \/ AcceptTls \/ AcceptTlsFails \/ SetFallback \/ IntoStream
  \/ TransitionToAuthenticating \/ WrongAuthenticating \/ AuthReads \/ AuthTimesOut
  \/ TransitionToForwarding \/ WrongForwarding
  \/ HandleAuthenticatedConnection \/ DialOk \/ DialFails \/ SpliceEnds
  \/ ClockMoves /\ UNCHANGED mvars

Spec == Init /\ [][Next]_vars

\* The two timeouts run whatever the client and the network do.  The handshake
\* has none: accept() waits as long as a client stalls in its ClientHello.
Fairness ==
  /\ WF_vars(AuthTimesOut)
  /\ WF_vars(DialOk \/ DialFails)
FairSpec == Spec /\ Fairness

-----------------------------------------------------------------------------
(***************************************************************************)
(* The types, and who holds the client's stream at each await.             *)
(***************************************************************************)
TypeOK ==
  /\ wire \in [bytes : Seq(Nat), closes : BOOLEAN]
  /\ at \in 0 .. Len(wire.bytes)
  /\ clock \in Clocks
  /\ auth.is \in {"Idle", "Reading", "Ok", "Bad"}
  /\ machine.state \in States
  /\ owner = CASE caller = "Ready"                   -> "machine"
               [] caller = "Splicing"                -> "splice"
               [] caller \in {"Holds", "Forwarding"} -> "caller"
               [] caller = "Returned"                -> "dropped"
               [] caller \in {"Handshake", "Authenticating",
                              "DialToSplice", "DialToForward"} -> "method"

(***************************************************************************)
(* A machine that its caller still has is in one of two states, and the    *)
(* authenticated one is the one with a result, so get_auth_result().unwrap *)
(* after transition_to_authenticating never fails; a machine whose         *)
(* authentication failed is never seen again, nor is its stream:           *)
(* set_fallback decides nothing.                                           *)
(***************************************************************************)
HeldMachineIsCoherent ==
  owner = "machine" =>
    /\ machine.state \in {"Handshake", "Authenticated"}
    /\ machine.state = "Authenticated" <=> machine.auth_result # None
    /\ machine.state = "Authenticated" <=> Accepted

(***************************************************************************)
(* Whatever methods were called in whatever order, a stream that its       *)
(* caller or a splice holds again stands either where the TLS handshake    *)
(* left it or exactly at the byte after an accepted request: no call gives *)
(* back a stream with a request read in part, or with one that was         *)
(* refused.  Only the second kind comes out of transition_to_forwarding.   *)
(***************************************************************************)
StreamLeavesWhole ==
  /\ owner \in {"machine", "caller", "splice"} =>
       \/ auth.is = "Idle" /\ at = 0
       \/ Accepted /\ SubSeq(wire.bytes, 1, at) = EncodeRequest(auth.v.request)
  /\ caller \in {"DialToForward", "Forwarding"} => Accepted

(***************************************************************************)
(* Neither a client that trickles its request and stays open, nor a target *)
(* that does not answer, nor a clock that is set holds the caller in an    *)
(* await of the state machine for ever.  The TLS handshake before it has   *)
(* no timeout (handshake.rs, 81), though src/XTLS_REALITY_DESIGN.md, 265,  *)
(* gives it one of 5 seconds, and nothing is said of it here.              *)
(***************************************************************************)
AwaitsEnd ==
  caller \in {"Authenticating", "DialToSplice", "DialToForward"} ~>
    caller \in {"Ready", "Splicing", "Forwarding", "Returned"}

=============================================================================
