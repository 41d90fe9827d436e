-------------------------- MODULE PeekBufferProofs --------------------------
(***************************************************************************)
(* The properties of PeekBuffer that hold for every length of the hash and *)
(* of the addresses, whatever bytes the client sends and however many.     *)
(***************************************************************************)
EXTENDS PeekBuffer, TrojanHeaderProofs

LEMMA BufferType == Spec => []TypeOK
<1>1. Init => TypeOK
  BY EmptySeq DEF Init, TypeOK
<1>2. TypeOK /\ [Next]_buf => TypeOK'
  BY AppendProperties DEF TypeOK, Next, Grow
<1> QED
  BY <1>1, <1>2, PTL DEF Spec

(***************************************************************************)
(* An answer of try_parse_from_buf other than "not enough bytes" is final. *)
(***************************************************************************)
THEOREM VerdictIsStable == Spec => VerdictStable
<1>1. ASSUME TypeOK, [Next]_buf, TryParse(buf) # Short
      PROVE  TryParse(buf') = TryParse(buf)
  <2>1. CASE Grow
    <3>1. PICK b \in Byte : buf' = Append(buf, b)
      BY <2>1 DEF Grow
    <3>2. buf' \in Seq(Byte) /\ Begins(buf, buf')
      BY <1>1, <3>1, AppendProperties, LenProperties DEF TypeOK, Begins
    <3> QED
      BY <1>1, <3>2, TryParseStable DEF TypeOK
  <2>2. CASE UNCHANGED buf
    BY <2>2
  <2> QED
    BY <1>1, <2>1, <2>2 DEF Next
<1>2. TypeOK /\ [Next]_buf => [TryParse(buf) # Short => TryParse(buf') = TryParse(buf)]_buf
  BY <1>1
<1> QED
  BY <1>2, BufferType, PTL DEF Spec, VerdictStable

(***************************************************************************)
(* A buffer that is still undecided is shorter than the longest header.    *)
(***************************************************************************)
THEOREM UndecidedIsShort == Spec => []ShortIsBounded
<1>1. TypeOK => ShortIsBounded
  BY TryParseDecides DEF TypeOK, ShortIsBounded
<1> QED
  BY <1>1, BufferType, PTL

(***************************************************************************)
(* compute_header_end counts exactly the bytes of the accepted header.     *)
(***************************************************************************)
THEOREM PeekedHeaderIsExact == Spec => []HeaderEndExact
<1>1. TypeOK => HeaderEndExact
  <2> SUFFICES ASSUME TypeOK, TryParse(buf).is = "Ok" PROVE HeaderEndExact
    BY DEF HeaderEndExact
  <2>1. HeaderEnd(buf) <= Len(buf)
    BY HeaderEndStable, LenProperties DEF TypeOK, Begins
  <2>2. SubSeq(buf, 1, HeaderEnd(buf)) = EncodeHeader(TryParse(buf))
    BY HeaderIsItsEncoding DEF TypeOK
  <2>3. TryParse(SubSeq(buf, 1, HeaderEnd(buf) - 1)) = Short
    BY HeaderIsWhole DEF TypeOK
  <2> QED
    BY <2>1, <2>2, <2>3 DEF HeaderEndExact
<1> QED
  BY <1>1, BufferType, PTL

(***************************************************************************)
(* The streaming parser accepts what the incremental one accepts, and      *)
(* refuses with the same error what that refuses.                          *)
(***************************************************************************)
THEOREM BothParsersAgree == Spec => []ParsersAgree
<1>1. TypeOK => ParsersAgree
  <2> SUFFICES ASSUME TypeOK PROVE ParsersAgree
    OBVIOUS
  <2> DEFINE t == TryParse(buf)
             r == ReadHeader(buf)
  <2>1. /\ t = Short \/ (r = t /\ t.is \in {"Ok", "Bad"})
        /\ t = Short => r.is \in {"Eof", "Bad"}
    BY HeaderParsersAgree DEF TypeOK
  <2>2. ParsersAgree <=>
          /\ t.is = "Ok" <=> r.is = "Ok"
          /\ t.is # "Short" => r = t
          /\ r.is = "Eof" => t = Short
    BY DEF ParsersAgree
  <2> HIDE DEF t, r
  <2> QED
    BY <2>1, <2>2 DEF Short
<1> QED
  BY <1>1, BufferType, PTL

=============================================================================
