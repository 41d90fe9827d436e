----------------------------- MODULE MCStartup ------------------------------
(***************************************************************************)
(* Startup with configurations that are right but for one or two fields    *)
(* and certificate files of two key pairs, missing, malformed or in part   *)
(* so; and the server it starts with four clients, one of which stalls    *)
(* for good.                                                               *)
(***************************************************************************)
EXTENDS Startup

Txt(s, c, h, p) == [socket |-> s, colon |-> c, host |-> h, port |-> p]
HostPort == Txt(FALSE, TRUE, TRUE, TRUE)
BadTexts == {Txt(FALSE, FALSE, TRUE, FALSE), Txt(FALSE, TRUE, FALSE, TRUE),
             Txt(FALSE, TRUE, TRUE, FALSE)}
Good == [passwords |-> <<"hash">>, bind_addr |-> << >>, udp_bind_addr |-> << >>,
         fallback_addr |-> << >>, max_connections |-> << >>]

MCConfigFiles ==
  {<< >>}
    \cup {<<[Good EXCEPT !.passwords = p]>> :
            p \in {<< >>, <<"hash">>, <<"other">>, <<"hash", "other">>}}
    \cup {<<[Good EXCEPT !.max_connections = <<m>>]>> : m \in {0, 1, 2, 4096}}
    \cup {<<[Good EXCEPT !.bind_addr = <<t>>]>> : t \in BadTexts \cup {HostPort}}
    \cup {<<[Good EXCEPT !.udp_bind_addr = <<t>>]>> : t \in BadTexts \cup {HostPort}}
    \cup {<<[Good EXCEPT !.fallback_addr = <<t>>]>> : t \in BadTexts \cup {HostPort}}

Pem(s) == [exists |-> TRUE, file |-> TRUE, sections |-> s]
NoFile == [exists |-> FALSE, file |-> FALSE, sections |-> << >>]
Directory == [exists |-> TRUE, file |-> FALSE, sections |-> << >>]
MCDisks ==
  [cert : {NoFile, Directory} \cup {Pem(s) : s \in {<< >>, <<1>>, <<1, 0>>, <<0>>}},
   key  : {NoFile} \cup {Pem(s) : s \in {<<1>>, <<2>>, <<0>>}}]

CONSTANTS c1, c2, c3, c4
MCConns == {c1, c2, c3, c4}
MCStalled == {c1}

=============================================================================
