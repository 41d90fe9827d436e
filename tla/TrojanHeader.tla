---------------------------- MODULE TrojanHeader ----------------------------
(***************************************************************************)
(* The wire format of a Trojan request, and the two parsers the server has *)
(* for it: the incremental one that handle_connection runs again after     *)
(* every chunk (Header::try_parse_from_buf) and the streaming one          *)
(* (Header::read_from).  src/src/protocol/{header,address,command}.rs and  *)
(* compute_header_end of src/src/server.rs.                                *)
(*                                                                         *)
(*   password hash | CR LF | command | address | CR LF | payload ...       *)
(*                                                                         *)
(* A buffer is a sequence of bytes.  Offsets are those of the Rust slices: *)
(* `at' counts the bytes before the field, so the field is buf[at+1].      *)
(***************************************************************************)
EXTENDS Integers, Sequences

CONSTANTS
  PASSWORD_HEX_LEN,   \* bytes of the hex password hash (56)
  IPV4_OCTETS,        \* bytes of an IPv4 address (4)
  IPV6_OCTETS,        \* bytes of an IPv6 address (16)
  ValidUtf8(_)        \* String::from_utf8(s).is_ok()

ASSUME LengthsAssumption ==
  /\ PASSWORD_HEX_LEN \in Nat \ {0}
  /\ IPV4_OCTETS \in Nat \ {0}
  /\ IPV6_OCTETS \in Nat \ {0}

Byte == 0 .. 255
U16  == 0 .. 65535

CR == 13
LF == 10

TYPE_IPV4   == 1
TYPE_DOMAIN == 3
TYPE_IPV6   == 4

IsHexDigit(b) == b \in 48 .. 57 \cup 65 .. 70 \cup 97 .. 102
ToLower(b)    == IF b \in 65 .. 90 THEN b + 32 ELSE b
EqIgnoreCase(s, t) ==
  /\ Len(s) = Len(t)
  /\ \A i \in 1 .. Len(s) : ToLower(s[i]) = ToLower(t[i])

\* The two bytes after offset `at' are CR LF.
CrlfAt(buf, at) == buf[at + 1] = CR /\ buf[at + 2] = LF

-----------------------------------------------------------------------------
(* What a parser returns.  Short is Ok(None): more bytes are needed.       *)
Short  == [is |-> "Short"]
Bad(e) == [is |-> "Bad", error |-> e]

\* Command::from_u8; the caller has checked that b is a command byte.
CommandBytes == {1, 3}
Command(b) == IF b = 1 THEN "Connect" ELSE "UdpAssociate"

\* Mutant: one byte too many for a domain.
AddressLenOffByOne(buf, at) ==
  CASE buf[at + 1] = TYPE_IPV4   -> 1 + IPV4_OCTETS + 2
    [] buf[at + 1] = TYPE_IPV6   -> 1 + IPV6_OCTETS + 2
    [] buf[at + 1] = TYPE_DOMAIN -> 1 + 1 + buf[at + 2] + 2 + 1

\* Encoded length of the address that starts after offset `at', known from
\* its type byte and, for a domain, its length byte.
AddressLen(buf, at) ==
  CASE buf[at + 1] = TYPE_IPV4   -> 1 + IPV4_OCTETS + 2
    [] buf[at + 1] = TYPE_IPV6   -> 1 + IPV6_OCTETS + 2
    [] buf[at + 1] = TYPE_DOMAIN -> 1 + 1 + buf[at + 2] + 2

\* The host's bytes: what is left when the type, the domain's length byte and
\* the port are taken off.
HostBytes(buf, at) ==
  SubSeq(buf, IF buf[at + 1] = TYPE_DOMAIN THEN at + 3 ELSE at + 2,
              at + AddressLen(buf, at) - 2)

AddressAt(buf, at) ==
  LET end == at + AddressLen(buf, at)
  IN  [type |-> buf[at + 1],
       host |-> HostBytes(buf, at),
       port |-> 256 * buf[end - 1] + buf[end]]

\* Mutant: an address that is cut off is an error.
ParseAddressEager(buf, at) ==
  IF Len(buf) = at
    THEN Short
  ELSE IF buf[at + 1] \notin {TYPE_IPV4, TYPE_DOMAIN, TYPE_IPV6}
    THEN Bad("InvalidAddressType")
  ELSE IF buf[at + 1] = TYPE_DOMAIN /\ Len(buf) = at + 1
    THEN Short
  ELSE IF Len(buf) < at + AddressLen(buf, at)
    THEN Bad("InvalidAddress")
  ELSE [is |-> "Ok", address |-> AddressAt(buf, at), len |-> AddressLen(buf, at)]

\* Address::parse_from_buf(&buf[at..]).
ParseAddress(buf, at) ==
  IF Len(buf) = at
    THEN Short
  ELSE IF buf[at + 1] \notin {TYPE_IPV4, TYPE_DOMAIN, TYPE_IPV6}
    THEN Bad("InvalidAddressType")
  ELSE IF buf[at + 1] = TYPE_DOMAIN /\ Len(buf) = at + 1
    THEN Short
  ELSE IF Len(buf) < at + AddressLen(buf, at)
    THEN Short
  ELSE IF buf[at + 1] = TYPE_DOMAIN /\ ~ValidUtf8(HostBytes(buf, at))
    THEN Bad("InvalidUtf8")
  ELSE [is |-> "Ok", address |-> AddressAt(buf, at), len |-> AddressLen(buf, at)]

CommandOffset == PASSWORD_HEX_LEN + 2
AddressOffset == PASSWORD_HEX_LEN + 2 + 1

\* Header::try_parse_from_buf.
TryParse(buf) ==
  LET addr == ParseAddress(buf, AddressOffset)
      end  == AddressOffset + addr.len
  IN  IF Len(buf) < PASSWORD_HEX_LEN + 2
        THEN Short
      ELSE IF \E i \in 1 .. PASSWORD_HEX_LEN : ~IsHexDigit(buf[i])
        THEN Bad("PasswordHash")
      ELSE IF ~CrlfAt(buf, PASSWORD_HEX_LEN)
        THEN Bad("CrlfAfterPassword")
      ELSE IF Len(buf) < CommandOffset + 1
        THEN Short
      ELSE IF buf[CommandOffset + 1] \notin CommandBytes
        THEN Bad("InvalidCommand")
      ELSE IF addr.is # "Ok"
        THEN addr
      ELSE IF Len(buf) < end + 2
        THEN Short
      ELSE IF ~CrlfAt(buf, end)
        THEN Bad("CrlfAfterAddress")
      ELSE [is       |-> "Ok",
            password |-> SubSeq(buf, 1, PASSWORD_HEX_LEN),
            command  |-> Command(buf[CommandOffset + 1]),
            address  |-> addr.address]

\* Mutant: the CR LF after the address is not counted.
HeaderEndNoCrlf(buf) ==
  LET addr == ParseAddress(buf, AddressOffset)
  IN  IF Len(buf) <= AddressOffset \/ addr.is # "Ok"
        THEN Len(buf)
        ELSE AddressOffset + addr.len

\* compute_header_end, which parses the address a second time.
HeaderEnd(buf) ==
  LET addr == ParseAddress(buf, AddressOffset)
  IN  IF Len(buf) <= AddressOffset \/ addr.is # "Ok"
        THEN Len(buf)
        ELSE AddressOffset + addr.len + 2

\* Header::verify_password; the list is searched with any(), so it is a set.
VerifyPassword(header, passwords) ==
  \E p \in passwords : EqIgnoreCase(p, header.password)

-----------------------------------------------------------------------------
(* The streaming parser, on a stream that carries s and then ends.  A      *)
(* read_exact that the end cuts off is the error Eof.                      *)
Eof == [is |-> "Eof"]

\* Address::read_from, with the bytes before offset `at' already consumed.
ReadAddress(s, at) ==
  IF Len(s) < at + 1
    THEN Eof
  ELSE IF s[at + 1] \notin {TYPE_IPV4, TYPE_DOMAIN, TYPE_IPV6}
    THEN Bad("InvalidAddressType")
  ELSE IF s[at + 1] = TYPE_DOMAIN /\ Len(s) < at + 2
    THEN Eof
  ELSE IF Len(s) < at + AddressLen(s, at) - 2
    THEN Eof
  ELSE IF s[at + 1] = TYPE_DOMAIN /\ ~ValidUtf8(HostBytes(s, at))
    THEN Bad("InvalidUtf8")
  ELSE IF Len(s) < at + AddressLen(s, at)
    THEN Eof
  ELSE [is |-> "Ok", address |-> AddressAt(s, at), len |-> AddressLen(s, at)]

\* Header::read_from, with its two calls of expect_crlf.
ReadHeader(s) ==
  LET addr == ReadAddress(s, AddressOffset)
      end  == AddressOffset + addr.len
  IN  IF Len(s) < PASSWORD_HEX_LEN
        THEN Eof
      ELSE IF \E i \in 1 .. PASSWORD_HEX_LEN : ~IsHexDigit(s[i])
        THEN Bad("PasswordHash")
      ELSE IF Len(s) < PASSWORD_HEX_LEN + 2
        THEN Eof
      ELSE IF ~CrlfAt(s, PASSWORD_HEX_LEN)
        THEN Bad("CrlfAfterPassword")
      ELSE IF Len(s) < CommandOffset + 1
        THEN Eof
      ELSE IF s[CommandOffset + 1] \notin CommandBytes
        THEN Bad("InvalidCommand")
      ELSE IF addr.is # "Ok"
        THEN addr
      ELSE IF Len(s) < end + 2
        THEN Eof
      ELSE IF ~CrlfAt(s, end)
        THEN Bad("CrlfAfterAddress")
      ELSE [is       |-> "Ok",
            password |-> SubSeq(s, 1, PASSWORD_HEX_LEN),
            command  |-> Command(s[CommandOffset + 1]),
            address  |-> addr.address]

-----------------------------------------------------------------------------
(* Encoding.  Command::as_u8 is the discriminant.                          *)

\* The type Address: an IP's octets or a String, and a u16.
Address ==
  {a \in [type : {TYPE_IPV4, TYPE_DOMAIN, TYPE_IPV6}, host : Seq(Byte), port : U16] :
     /\ a.type = TYPE_IPV4   => Len(a.host) = IPV4_OCTETS
     /\ a.type = TYPE_IPV6   => Len(a.host) = IPV6_OCTETS
     /\ a.type = TYPE_DOMAIN => ValidUtf8(a.host)}

\* Address::encode refuses a domain whose length byte would be zero or overflow.
Encodable(a) == a.type = TYPE_DOMAIN => Len(a.host) \in 1 .. 255

EncodeAddress(a) ==
  (IF a.type = TYPE_DOMAIN THEN <<a.type, Len(a.host)>> ELSE <<a.type>>)
    \o a.host \o <<a.port \div 256, a.port % 256>>

CommandAsU8(c) == IF c = "Connect" THEN 1 ELSE 3

\* The bytes a client sends for header h, in the order compute_header_end and
\* the parsers document.
EncodeHeader(h) ==
  h.password \o <<CR, LF, CommandAsU8(h.command)>>
    \o EncodeAddress(h.address) \o <<CR, LF>>

\* The longest header there is: a 255-byte domain, or an IP address if those
\* were longer.
LongestAddress ==
  CHOOSE n \in {1 + IPV4_OCTETS + 2, 1 + IPV6_OCTETS + 2, 1 + 1 + 255 + 2} :
    \A m \in {1 + IPV4_OCTETS + 2, 1 + IPV6_OCTETS + 2, 1 + 1 + 255 + 2} : m <= n
MaxHeaderLen == AddressOffset + LongestAddress + 2

=============================================================================
