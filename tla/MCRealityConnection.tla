------------------------ MODULE MCRealityConnection -------------------------
(***************************************************************************)
(* RealityConnection with 8-bit time: clients of both commands and each    *)
(* kind of address, every timestamp around the edges of the window and of  *)
(* the integers, and each request with one symbol gone wrong.              *)
(***************************************************************************)
EXTENDS RealityConnection, SequencesExt

\* Half of the bytes a domain may hold are ASCII.
MCUtf8(s) == \A i \in DOMAIN s : s[i] < 128
MCSha224(s) == <<FoldLeft(LAMBDA h, b : (31 * h + b) % 251, 7, s)>>

MCAddresses ==
  {[type |-> TYPE_IPV4, host |-> <<9>>, port |-> 80],
   [type |-> TYPE_DOMAIN, host |-> <<97>>, port |-> 443],
   [type |-> TYPE_DOMAIN, host |-> << >>, port |-> 443]}
MCHashes == {<<97>>, <<66>>, <<103>>}
MCPasswords == {<<65>>}
MCClocks == {-1, 1, 5, 10}
LateClocks == {5, 10}   \* more than the skew after 1970

MCRequests ==
  {r \in [command : {"Connect", "UdpAssociate"}, address : MCAddresses,
          timestamp : {0, 2, 5, 7, 8, 13, 127, 133, 138, 255}, password : MCHashes] :
     r \in NewRequest}

\* Symbol i of s is another one.
Tamper(s, i) == [s EXCEPT ![i] = IF @ = 3 THEN 4 ELSE 3]
EmptyDomain == EncodeRequest([command |-> "Connect", timestamp |-> 5, password |-> <<97>>,
                              address |-> [type |-> TYPE_DOMAIN, host |-> << >>, port |-> 1]])
MCWires ==
  {EncodeRequest(r) \o <<1, 2>> : r \in MCRequests}
    \cup {Tamper(EncodeRequest(r), i) :
            i \in 1 .. 9, r \in {q \in MCRequests : q.timestamp = 5}}
    \cup {EmptyDomain, << >>}

=============================================================================
