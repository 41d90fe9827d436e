--------------------------- MODULE MCUdpAssociate ---------------------------
(***************************************************************************)
(* UdpAssociate with one- and two-byte IP addresses, clients that send up  *)
(* to two frames and up to two datagrams that come back.                   *)
(***************************************************************************)
EXTENDS UdpAssociate

MCValidUtf8(s) == \A i \in 1 .. Len(s) : s[i] < 128

V4(h)   == [type |-> TYPE_IPV4, host |-> <<h>>, port |-> 53]
V6(h)   == [type |-> TYPE_IPV6, host |-> <<h, h>>, port |-> 443]
Name(h) == [type |-> TYPE_DOMAIN, host |-> <<h>>, port |-> 80]

Good == { BuildFrame(V4(8), <<41, 42>>) \o BuildFrame(Name(120), <<43>>),
          BuildFrame(V6(9), << >>) \o BuildFrame(V4(7), <<44>>) }
Malformed == { <<2>>,                                   \* address type
               <<TYPE_DOMAIN, 0>>,                      \* empty domain
               <<TYPE_DOMAIN, 1, 200, 0, 80>>,          \* no UTF-8
               <<TYPE_IPV4, 8, 0, 53, 0, 1, 0, 0>> }    \* no CR LF
Half == { SubSeq(g, 1, Len(g) - 3) : g \in Good }

MCClients ==
  [bytes : Good \cup Half \cup {BuildFrame(V4(8), <<45>>) \o m : m \in Malformed},
   end : {"open", "eof", "reset"}, reads : BOOLEAN]
MCDatagrams == { [source |-> V4(8), payload |-> <<51, 52, 53>>],
                 [source |-> V6(9), payload |-> << >>] }

=============================================================================
