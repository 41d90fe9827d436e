---------------------------- MODULE MCConnection ----------------------------
(***************************************************************************)
(* Connection with a one-byte hash, one- and two-byte IP addresses and     *)
(* short payloads.  Every prefix of every stream below is a client.  Every *)
(* whole header fits the window of 13 bytes; the stream without an end     *)
(* fills it.                                                               *)
(***************************************************************************)
EXTENDS Connection

MCValidUtf8(s) == \A i \in 1 .. Len(s) : s[i] < 128

\* The configured hash is upper case, the clients send lower case.
MCPasswords == {<<65>>}

HeaderBytes(hash, cmd, addr) == <<hash, CR, LF, cmd>> \o addr \o <<CR, LF>>
Streams ==
  { HeaderBytes(97, 1, <<TYPE_IPV4, 8, 0, 53>>) \o <<21, 22, 20>>, \* TCP
    HeaderBytes(97, 1, <<TYPE_DOMAIN, 1, 120, 0, 80>>) \o <<23>>, \* TCP by name
    HeaderBytes(97, 3, <<TYPE_IPV6, 1, 2, 0, 53>>) \o <<24, 25>>, \* UDP
    HeaderBytes(98, 1, <<TYPE_IPV4, 8, 0, 53>>) \o <<26>>,        \* password
    HeaderBytes(97, 1, <<TYPE_DOMAIN, 1, 200, 0, 80>>),           \* no UTF-8
    HeaderBytes(97, 2, <<TYPE_IPV4, 8, 0, 53>>),                  \* no command
    <<97, CR, LF, 1, TYPE_DOMAIN, 20>> \o [i \in 1 .. 9 |-> 120],  \* no end
    <<71, 69, 84, 32, 47>> }                                      \* no Trojan

Prefixes(s) == { SubSeq(s, 1, n) : n \in 0 .. Len(s) }
MCClients ==
  [bytes : UNION { Prefixes(s) : s \in Streams }, end : Ends]
MCBackends ==
  [bytes : {<< >>, <<31, 32>>}, end : {"eof", "reset"}, waits : BOOLEAN]

\* A short HTTP request of a client that waits for its answer:
\* GET / HTTP/1.0 CR LF CR LF.
HttpProbe ==
  { [bytes |-> <<71, 69, 84, 32, 47, 32, 72, 84, 84, 80, 47, 49, 46, 48,
                 CR, LF, CR, LF>>,
     end |-> "open"] }

=============================================================================
