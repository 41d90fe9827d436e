------------------------------ MODULE MCSplice ------------------------------
(***************************************************************************)
(* Either splice between any two of the peers that send nothing, or more   *)
(* than a buffer and a window hold, with every way to end.                 *)
(***************************************************************************)
EXTENDS Splice

MCPeers == {[bytes |-> b, reads |-> r, end |-> e] :
              b \in {<< >>, <<1, 2, 3>>}, r \in BOOLEAN, e \in Ends}

=============================================================================
