------------------------------ MODULE Session -------------------------------
(***************************************************************************)
(* The two byte counters of Session (src/src/proxy/session.rs).  They are  *)
(* atomics of 64 bits, written by one task; no connection moves 2^64       *)
(* bytes, so they are natural numbers here.                                *)
(***************************************************************************)
EXTENDS Integers

\* Session::new.
NewSession == [sent |-> 0, received |-> 0]

\* Session::add_sent and Session::add_received.
AddSent(s, n) == [sent |-> s.sent + n, received |-> s.received]
AddReceived(s, n) == [sent |-> s.sent, received |-> s.received + n]

=============================================================================
