--------------------------- MODULE ProxyContract ----------------------------
(***************************************************************************)
(* What the server promises about one connection, with no buffers, chunks  *)
(* or transfer states: the doc comments of handle_connection               *)
(* (src/src/server.rs, 86-95) and handle_fallback                          *)
(* (src/src/proxy/fallback.rs, 69-76) as a specification.  The connection  *)
(* is given one route, a function of the client's bytes alone; the bytes   *)
(* each side is owed reach it in order; an end of stream is passed on only *)
(* when it is the true end; and the connection ends clean only when        *)
(* everything has been passed on.                                          *)
(***************************************************************************)
EXTENDS TrojanHeader

CONSTANT Passwords

VARIABLES
  client,    \* [bytes, ...]: what the client sends
  backend,   \* [bytes, ...]: what the dialled peer sends
  route,     \* none, fallback, target or udp
  sent,      \* bytes passed on, up to the peer and down to the client
  fin,       \* whether the end of the stream was passed on, per direction
  ended      \* no, clean or aborted

cvars == <<client, backend, route, sent, fin, ended>>

RouteOf(bytes) ==
  LET h == TryParse(bytes)
  IN  IF h.is = "Ok" /\ VerifyPassword(h, Passwords)
        THEN IF h.command = "Connect" THEN "target" ELSE "udp"
        ELSE "fallback"

Due(d) ==
  IF d = "down" THEN backend.bytes
  ELSE IF route = "fallback" THEN client.bytes
  ELSE SubSeq(client.bytes, HeaderEnd(client.bytes) + 1, Len(client.bytes))

StartsWith(s, p) == Len(p) <= Len(s) /\ SubSeq(s, 1, Len(p)) = p

CInit ==
  /\ route = "none"
  /\ sent = [up |-> << >>, down |-> << >>]
  /\ fin = [up |-> FALSE, down |-> FALSE]
  /\ ended = "no"

GiveRoute ==
  /\ ended = "no" /\ route = "none"
  /\ route' = RouteOf(client.bytes)
  /\ UNCHANGED <<client, backend, sent, fin, ended>>

\* Some more of the bytes due are passed on; the peer may be lost meanwhile.
PassOn(d) ==
  /\ ended = "no" /\ route # "none" /\ ~fin[d]
  /\ Len(sent'[d]) > Len(sent[d])
  /\ StartsWith(sent'[d], sent[d])
  /\ StartsWith(Due(d), sent'[d])
  /\ sent' = [sent EXCEPT ![d] = sent'[d]]
  /\ ended' \in {"no", "aborted"}
  /\ UNCHANGED <<client, backend, route, fin>>

PassFin(d) ==
  /\ ended = "no" /\ route # "none" /\ ~fin[d]
  /\ sent[d] = Due(d)
  /\ fin' = [fin EXCEPT ![d] = TRUE]
  /\ UNCHANGED <<client, backend, route, sent, ended>>

\* A clean end: an empty connection, both directions passed on to their ends,
\* or the end of a UDP association.
EndClean ==
  /\ ended = "no"
  /\ \/ route = "none" /\ client.bytes = << >>
     \/ route = "udp"
     \/ fin["up"] /\ fin["down"]
  /\ ended' = "clean"
  /\ UNCHANGED <<client, backend, route, sent, fin>>

Abort ==
  /\ ended = "no"
  /\ ended' = "aborted"
  /\ UNCHANGED <<client, backend, route, sent, fin>>

CNext ==
  \/ GiveRoute
  \/ \E d \in {"up", "down"} : PassOn(d) \/ PassFin(d)
  \/ EndClean \/ Abort

CSpec == CInit /\ [][CNext]_cvars

=============================================================================
