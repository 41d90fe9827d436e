---------------------------- MODULE MCPeekBuffer ----------------------------
(***************************************************************************)
(* PeekBuffer with a one-byte hash, one- and two-byte IP addresses and the *)
(* real 255-byte domain: every byte string over a small alphabet, up to a  *)
(* whole header of each kind and one byte; and, beyond, the longest header *)
(* and its neighbours, each with one byte gone wrong.                      *)
(***************************************************************************)
EXTENDS PeekBuffer, FiniteSets

\* Seven-bit bytes are UTF-8; a lone byte above is not.
MCValidUtf8(s) == \A i \in 1 .. Len(s) : s[i] < 128

\* 0, command and type bytes, CR LF, a hex digit, a byte that is no UTF-8; after
\* a verdict, two of them.
AnyOfAlphabet(b) ==
  IF TryParse(b) = Short THEN {0, 1, 3, 4, LF, CR, 97, 255} ELSE {LF, 97}

\* The longest header, another as long and the next shorter one, each with a
\* byte of payload.
Repeat(b, n) == [i \in 1 .. n |-> b]
LongStream(cmd, len, port) ==
  Repeat(97, PASSWORD_HEX_LEN) \o <<CR, LF, cmd, TYPE_DOMAIN, len>>
    \o Repeat(120, len) \o port \o <<CR, LF, 97>>
LongStreams ==
  { LongStream(1, 255, <<1, 187>>), LongStream(3, 255, <<CR, LF>>),
    LongStream(3, 254, <<0, 80>>) }

\* The next byte of a long stream, until one byte was wrong.
Wrong(b, s) == {i \in 1 .. Len(b) : b[i] # s[i]}
AlongLongStreams(b) ==
  LET from == {s \in LongStreams : Len(b) < Len(s) /\ Cardinality(Wrong(b, s)) <= 1}
  IN  UNION { {s[Len(b) + 1]} \cup (IF Wrong(b, s) = {} THEN {255} ELSE {}) : s \in from }

MCNextBytes(b) ==
  (IF Len(b) < 11 THEN AnyOfAlphabet(b) ELSE {}) \cup AlongLongStreams(b)

=============================================================================
