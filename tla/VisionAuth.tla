----------------------------- MODULE VisionAuth -----------------------------
(***************************************************************************)
(* Vision authentication (src/src/reality/vision.rs): the request's wire   *)
(* format, its timestamp window in two's complement arithmetic, and        *)
(* VisionProtocol::authenticate reading it from a client under a timeout.  *)
(*                                                                         *)
(*   magic | version | command | address | timestamp | password | hash     *)
(*                                                                         *)
(* A u64 is one symbol of the stream and the width of the integers is a    *)
(* parameter, I64_HALF, 2^63 in the code.                                  *)
(***************************************************************************)
EXTENDS TrojanHeader

CONSTANTS
  VISION_HASH_LEN,   \* symbols of the integrity hash (28)
  I64_HALF,          \* 2^63
  MAX_SKEW,          \* seconds a timestamp may be off (300)
  Sha224(_),         \* the hash of a byte string, VISION_HASH_LEN symbols
  Passwords,         \* valid_passwords
  Wires,             \* the streams clients send
  Honest,            \* requests that clients have from new()
  Clocks             \* what the system clock may show, negative before 1970

ASSUME VisionAssumption ==
  /\ VISION_HASH_LEN \in Nat
  /\ I64_HALF \in Nat /\ MAX_SKEW \in Nat /\ MAX_SKEW < I64_HALF
  /\ Wires \subseteq Seq(Nat)
  /\ Clocks \subseteq Int /\ \A c \in Clocks : c < I64_HALF

VISION_MAGIC_HEADER == 254
VISION_VERSION == 1

-----------------------------------------------------------------------------
(* Release builds wrap: x as i64, a - b and abs().                         *)
AsI64(u) == IF u < I64_HALF THEN u ELSE u - 2 * I64_HALF
Wrap(i) == CASE i >= I64_HALF  -> i - 2 * I64_HALF
             [] i < -I64_HALF  -> i + 2 * I64_HALF
             [] OTHER          -> i
Abs(i) == IF i < 0 THEN Wrap(-i) ELSE i

\* Mutants: only old requests are refused; the edge of the window is outside.
ExpiredOldOnly(now, ts) == Wrap(AsI64(now) - AsI64(ts)) > MAX_SKEW
ExpiredAtEdge(now, ts) == Abs(Wrap(AsI64(now) - AsI64(ts))) >= MAX_SKEW

Expired(now, ts) == Abs(Wrap(AsI64(now) - AsI64(ts))) > MAX_SKEW

\* encoded_without_integrity_hash, which fails for an address encode() refuses.
EncodeBase(r) ==
  <<VISION_MAGIC_HEADER, VISION_VERSION, CommandAsU8(r.command)>>
    \o EncodeAddress(r.address) \o <<r.timestamp>> \o r.password

\* encode() computes the hash again.
EncodeRequest(r) == EncodeBase(r) \o Sha224(EncodeBase(r))

\* What VisionAuthRequest::new returns, but for the hash, which EncodeRequest
\* computes.
NewRequest ==
  {r \in [command : {"Connect", "UdpAssociate"}, address : Address,
          timestamp : 0 .. 2 * I64_HALF - 1, password : Seq(Byte)] :
     /\ Encodable(r.address)
     /\ Len(r.password) = PASSWORD_HEX_LEN
     /\ \A i \in 1 .. PASSWORD_HEX_LEN : IsHexDigit(r.password[i])}

ASSUME HonestAssumption ==
  \A r \in Honest :
    /\ r \in NewRequest
    /\ Sha224(EncodeBase(r)) \in Seq(Byte)
    /\ Len(Sha224(EncodeBase(r))) = VISION_HASH_LEN

\* Mutant: the hash is not looked at.
IntegrityOkAlways(r, hash) == Encodable(r.address)

\* verify_integrity: hashes the request as it would be encoded again.
IntegrityOk(r, hash) == Encodable(r.address) /\ Sha224(EncodeBase(r)) = hash

\* VisionAuthRequest::read_from on a stream that has brought s, when the clock
\* shows now.  Eof: it waits for more, or fails if the stream ends there.
ReadRequest(s, now) ==
  LET addr   == ReadAddress(s, 3)
      tsAt   == 3 + addr.len
      hashAt == tsAt + 1 + PASSWORD_HEX_LEN
      end    == hashAt + VISION_HASH_LEN
      password == SubSeq(s, tsAt + 2, hashAt)
      request  == [command   |-> Command(s[3]),
                   address   |-> addr.address,
                   timestamp |-> s[tsAt + 1],
                   password  |-> password]
  IN  IF Len(s) < 1
        THEN Eof
      ELSE IF s[1] # VISION_MAGIC_HEADER
        THEN Bad("Magic")
      ELSE IF Len(s) < 2
        THEN Eof
      ELSE IF s[2] # VISION_VERSION
        THEN Bad("Version")
      ELSE IF Len(s) < 3
        THEN Eof
      ELSE IF s[3] \notin CommandBytes
        THEN Bad("InvalidCommand")
      ELSE IF addr.is # "Ok"
        THEN addr
      ELSE IF Len(s) < hashAt
        THEN Eof
      ELSE IF \E i \in 1 .. Len(password) : ~IsHexDigit(password[i])
        THEN Bad("PasswordHash")
      ELSE IF Len(s) < end
        THEN Eof
      ELSE IF now < 0
        THEN Bad("ClockBeforeEpoch")
      ELSE IF Expired(now, request.timestamp)
        THEN Bad("Expired")
      ELSE IF ~IntegrityOk(request, SubSeq(s, hashAt + 1, end))
        THEN Bad("Integrity")
      ELSE [is |-> "Ok", request |-> request]

\* Every symbol of a stream is a byte but the one that read_from takes for the
\* timestamp.
ASSUME WireAssumption ==
  \A w \in Wires : \A i \in 1 .. Len(w) :
    \/ w[i] \in Byte
    \/ LET addr == ReadAddress(w, 3)
       IN  addr.is = "Ok" /\ i = 3 + addr.len + 1

IsVisionPacket(s) ==
  Len(s) >= 2 /\ s[1] = VISION_MAGIC_HEADER /\ s[2] = VISION_VERSION

\* The rest of authenticate: the password of a request that was read.
CheckPassword(v) ==
  IF v.is = "Ok" /\ ~VerifyPassword(v.request, Passwords)
    THEN Bad("AuthenticationFailed")
    ELSE v

-----------------------------------------------------------------------------
VARIABLES
  wire,     \* [bytes, closes]: what the client sends; whether it then closes
  at,       \* bytes read from it
  clock,    \* what SystemTime::now() shows
  auth      \* Idle, Reading, or the outcome, with the clock it was judged by

avars == <<wire, at, clock, auth>>

AuthInit ==
  /\ wire \in [bytes : Wires, closes : BOOLEAN]
  /\ at = 0
  /\ clock \in Clocks
  /\ auth = [is |-> "Idle"]

StartAuth ==
  /\ auth = [is |-> "Idle"]
  /\ auth' = [is |-> "Reading"]
  /\ UNCHANGED <<wire, at, clock>>

Settle(v) == auth' = [is |-> v.is, now |-> clock, v |-> v]

\* A byte more is read; when it is the last that read_from wants, the clock is
\* read, and everything is checked without another await.
ReadByte ==
  /\ auth.is = "Reading"
  /\ at < Len(wire.bytes)
  /\ at' = at + 1
  /\ LET v == CheckPassword(ReadRequest(SubSeq(wire.bytes, 1, at + 1), clock))
     IN  IF v.is = "Eof" THEN UNCHANGED auth ELSE Settle(v)
  /\ UNCHANGED <<wire, clock>>

ReadEof ==
  /\ auth.is = "Reading"
  /\ at = Len(wire.bytes) /\ wire.closes
  /\ Settle(Bad("Eof"))
  /\ UNCHANGED <<wire, at, clock>>

\* Mutant: the timeout starts the read again.
AuthTimeoutRetries ==
  /\ auth.is = "Reading"
  /\ UNCHANGED avars

\* auth_timeout runs out; what was read is lost.
AuthTimeout ==
  /\ auth.is = "Reading"
  /\ Settle(Bad("Timeout"))
  /\ UNCHANGED <<wire, at, clock>>

\* The system clock moves or is set, forward or back.
ClockMoves ==
  /\ auth.is = "Reading"
  /\ clock' \in Clocks
  /\ UNCHANGED <<wire, at, auth>>

-----------------------------------------------------------------------------
Accepted == auth.is = "Ok"

(***************************************************************************)
(* An accepted request is, byte for byte, an encoding of the command,      *)
(* address, timestamp and password that authenticate returns or checks:    *)
(* nothing after it was read, nothing in it was tampered with, and its     *)
(* password is on the list, in either case.                                *)
(***************************************************************************)
AcceptedIsExact ==
  Accepted =>
    /\ SubSeq(wire.bytes, 1, at) = EncodeRequest(auth.v.request)
    /\ IsVisionPacket(wire.bytes)
    /\ VerifyPassword(auth.v.request, Passwords)

Opens(s, p) == Len(p) <= Len(s) /\ SubSeq(s, 1, Len(p)) = p
Distance(x, y) == IF x < y THEN y - x ELSE x - y

(***************************************************************************)
(* Whatever the clock did while the request was read, an accepted one is   *)
(* at most MAX_SKEW old or early by the clock after its last byte, if its  *)
(* timestamp is one that an i64 holds, so that the subtraction of          *)
(* vision.rs, 77, does not wrap.                                           *)
(***************************************************************************)
AcceptedIsRecent ==
  Accepted /\ auth.v.request.timestamp < I64_HALF =>
    Distance(auth.now, auth.v.request.timestamp) <= MAX_SKEW

(***************************************************************************)
(* The same of every timestamp, as src/XTLS_REALITY_DESIGN.md, 99, has it  *)
(* ("+- 5 minutes").  The code breaks it: a timestamp 2^63 away leaves a   *)
(* difference whose abs() is negative.                                     *)
(***************************************************************************)
AcceptedIsWithinWindow ==
  Accepted => Distance(auth.now, auth.v.request.timestamp) <= MAX_SKEW

(***************************************************************************)
(* A client's own request is refused only for its age or for a clock       *)
(* before 1970: whatever read_from decodes and encodes again, an encoding  *)
(* of new() with a listed password passes every other check, also at the   *)
(* very edge of the window.                                                *)
(***************************************************************************)
HonestIsAccepted ==
  auth.is = "Bad" /\ auth.v.error \notin {"Eof", "Timeout"} =>
    \A r \in Honest :
      (/\ VerifyPassword(r, Passwords)
       /\ Opens(wire.bytes, EncodeBase(r))
       /\ Opens(wire.bytes, EncodeRequest(r)))
         => auth.now < 0 \/ Distance(auth.now, r.timestamp) > MAX_SKEW

=============================================================================
