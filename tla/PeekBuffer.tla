----------------------------- MODULE PeekBuffer -----------------------------
(***************************************************************************)
(* The buffer that handle_connection fills before it routes a connection   *)
(* (src/src/server.rs, 105-168), looked at as the input of the parsers: it *)
(* starts empty and grows by whatever bytes the client sends.  The real    *)
(* loop stops growing it at the first verdict; here it may grow on, since  *)
(* the chunk that brings the verdict may bring any number of bytes more.   *)
(***************************************************************************)
EXTENDS TrojanHeader

CONSTANTS
  NextBytes(_), \* the bytes a client may send after those of the buffer
  MaxBuffer     \* bound on the length of the buffer

ASSUME MaxBufferAssumption == MaxBuffer \in Nat

VARIABLE buf

\* peeked starts as an empty Vec.
Init == buf = << >>

\* The next byte of the stream reaches the buffer.
Grow ==
  /\ Len(buf) < MaxBuffer
  /\ \E b \in NextBytes(buf) \cap Byte : buf' = Append(buf, b)

Next == Grow

Spec == Init /\ [][Next]_buf

-----------------------------------------------------------------------------
TypeOK == buf \in Seq(Byte)

(***************************************************************************)
(* Once try_parse_from_buf has answered Some(header) or Err for a buffer,  *)
(* no byte that follows changes the answer: the route of a connection does *)
(* not depend on how the network cuts the client's first bytes.            *)
(***************************************************************************)
VerdictStable == [][TryParse(buf) # Short => TryParse(buf') = TryParse(buf)]_buf

(***************************************************************************)
(* compute_header_end, which parses the address again, finds exactly the   *)
(* bytes of the header that try_parse_from_buf accepted: cut there, the    *)
(* buffer is the encoding of the header, and one byte less is no header.   *)
(* An empty domain parses although no encoder would produce it.            *)
(***************************************************************************)
HeaderEndExact ==
  LET h == TryParse(buf)
      n == HeaderEnd(buf)
  IN  h.is = "Ok" =>
        /\ n <= Len(buf)
        /\ Encodable(h.address) => SubSeq(buf, 1, n) = EncodeHeader(h)
        /\ TryParse(SubSeq(buf, 1, n - 1)) = Short

(***************************************************************************)
(* The incremental parser and the streaming parser accept the same         *)
(* headers, and what the incremental one refuses the streaming one refuses *)
(* with the same error; the streaming one may only refuse earlier.         *)
(***************************************************************************)
ParsersAgree ==
  LET t == TryParse(buf)
      r == ReadHeader(buf)
  IN  /\ t.is = "Ok"  <=> r.is = "Ok"
      /\ t.is # "Short" => r = t
      /\ r.is = "Eof" => t = Short

(***************************************************************************)
(* A buffer the parser still calls short is shorter than the longest       *)
(* header, so a peek window of that size always suffices.                  *)
(***************************************************************************)
ShortIsBounded == TryParse(buf) = Short => Len(buf) < MaxHeaderLen

=============================================================================
