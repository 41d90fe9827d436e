---------------------------- MODULE UdpAssociate ----------------------------
(***************************************************************************)
(* The loop of handle_udp (src/src/proxy/udp.rs): frames that the client   *)
(* sends on its TLS stream become datagrams, datagrams that come back      *)
(* become frames.                                                          *)
(*                                                                         *)
(*   frame:  address | payload length (2) | CR LF | payload                *)
(*                                                                         *)
(* Each round of the loop waits, under udp_timeout, in a tokio::select!    *)
(* between read_udp_frame and recv_from.  select! drops the future of the  *)
(* branch that loses, and read_udp_frame keeps the bytes it has consumed   *)
(* in that future alone.                                                   *)
(***************************************************************************)
EXTENDS TrojanHeader, Session

CONSTANTS
  UDP_BUFFER_SIZE,     \* most bytes recv_from returns (65535)
  UDP_MAX_PAYLOAD_LEN, \* longest payload a frame can carry (65535)
  Clients,             \* clients, each [bytes, end, reads]
  Datagrams,           \* what may come back, each [source, payload]
  Window,              \* bytes a client's connection takes when it does not read
  MaxDatagrams         \* bound on the datagrams that come back

\* A client sends `bytes', ends its stream as `end' says, and may have stopped
\* reading what the server writes.  A datagram comes from a socket address.
ASSUME UdpAssumption ==
  /\ UDP_BUFFER_SIZE \in Nat \ {0}
  /\ UDP_MAX_PAYLOAD_LEN \in UDP_BUFFER_SIZE .. 65535
  /\ Window \in Nat /\ MaxDatagrams \in Nat
  /\ \A c \in Clients :
       /\ c.bytes \in Seq(Byte)
       /\ c.end \in {"open", "eof", "reset"}
       /\ c.reads \in BOOLEAN
  /\ \A d \in Datagrams :
       /\ d.source \in Address /\ d.source.type # TYPE_DOMAIN
       /\ d.payload \in Seq(Byte)

VARIABLES
  client,     \* the client's script
  pos,        \* client bytes consumed
  acc,        \* bytes the pending read_udp_frame holds
  loop,       \* Bind, Wait, Resolve, Send, Reply or Ended
  frame,      \* the frame or datagram being processed
  inbox,      \* datagrams in the socket's receive buffer
  arrived,    \* datagrams that have arrived, a history
  sent,       \* frames sent as datagrams, in order
  put,        \* bytes of the frame in hand that write_all has written
  replies,    \* bytes written to the client
  stats,      \* the session's byte counters
  result,     \* what handle_udp returned
  torn        \* history: a read_udp_frame was dropped with bytes in hand

vars == <<client, pos, acc, loop, frame, inbox, arrived, sent, put, replies,
          stats, result, torn>>

NoFrame == << >>

-----------------------------------------------------------------------------
(* Frames.                                                                 *)

\* read_udp_frame on the bytes it has consumed so far: it has returned a frame,
\* has failed, or waits for more.  The checks come in the order of the reads.
ReadFrame(s) ==
  LET head == AddressLen(s, 0) + 4            \* address, length, CR LF
      host == AddressLen(s, 0) - 2
      size == 256 * s[head - 3] + s[head - 2]
  IN  IF s = << >>
        THEN Short
      ELSE IF s[1] \notin {TYPE_IPV4, TYPE_DOMAIN, TYPE_IPV6}
        THEN Bad("InvalidAddressType")
      ELSE IF s[1] = TYPE_DOMAIN /\ Len(s) = 1
        THEN Short
      ELSE IF s[1] = TYPE_DOMAIN /\ s[2] = 0
        THEN Bad("DomainLength")
      ELSE IF Len(s) < host
        THEN Short
      ELSE IF s[1] = TYPE_DOMAIN /\ ~ValidUtf8(HostBytes(s, 0))
        THEN Bad("InvalidUtf8")
      ELSE IF Len(s) < head
        THEN Short
      ELSE IF ~CrlfAt(s, head - 2)
        THEN Bad("CrlfDelimiter")
      ELSE IF Len(s) < head + size
        THEN Short
      ELSE [is      |-> "Ok",
            address |-> AddressAt(s, 0),
            payload |-> SubSeq(s, head + 1, head + size)]

\* build_udp_frame; its caller `?'s out on a payload over the limit.
FrameFits(payload) == Len(payload) <= UDP_MAX_PAYLOAD_LEN

\* Mutant: no CR LF before the payload.
BuildFrameNoCrlf(source, payload) ==
  EncodeAddress(source) \o <<Len(payload) \div 256, Len(payload) % 256>> \o payload

BuildFrame(source, payload) ==
  EncodeAddress(source)
    \o <<Len(payload) \div 256, Len(payload) % 256, CR, LF>> \o payload

-----------------------------------------------------------------------------
Init ==
  /\ client \in Clients
  /\ pos = 0
  /\ acc = << >>
  /\ loop = "Bind"
  /\ frame = NoFrame
  /\ inbox = << >>
  /\ arrived = << >>
  /\ sent = << >>
  /\ put = 0
  /\ replies = << >>
  /\ stats = NewSession
  /\ result = "none"
  /\ torn = FALSE

Return(r) == loop' = "Ended" /\ result' = r

\* UdpSocket::bind on udp_bind_addr, which may fail.
Bind ==
  /\ loop = "Bind"
  /\ \/ loop' = "Wait" /\ UNCHANGED result
     \/ Return("Err")
  /\ UNCHANGED <<client, pos, acc, frame, inbox, arrived, sent, put, replies,
                 stats, torn>>

(***************************************************************************)
(* The client branch of the select!: read_udp_frame takes one more byte.   *)
(***************************************************************************)
ReadByte ==
  /\ loop = "Wait"
  /\ pos < Len(client.bytes)
  /\ pos' = pos + 1

\* The frame is still incomplete: the future keeps what it has.
ReadMore ==
  /\ ReadByte
  /\ LET s == Append(acc, client.bytes[pos + 1])
     IN  ReadFrame(s) = Short /\ acc' = s
  /\ UNCHANGED <<client, loop, frame, inbox, arrived, sent, put, replies, stats,
                 result, torn>>

\* Mutant: the next frame starts with this one's bytes.
ClientFrameKeepsBytes ==
  /\ ReadByte
  /\ LET s == Append(acc, client.bytes[pos + 1])
     IN  ReadFrame(s).is = "Ok" /\ frame' = ReadFrame(s) /\ acc' = s
  /\ loop' = "Resolve"
  /\ UNCHANGED <<client, inbox, arrived, sent, put, replies, stats, result, torn>>

\* UdpEvent::Client(Ok(Some(frame))).
ClientFrame ==
  /\ ReadByte
  /\ LET f == ReadFrame(Append(acc, client.bytes[pos + 1]))
     IN  f.is = "Ok" /\ frame' = f
  /\ acc' = << >>
  /\ loop' = "Resolve"
  /\ UNCHANGED <<client, inbox, arrived, sent, put, replies, stats, result, torn>>

\* UdpEvent::Client(Err(e)): a malformed frame ends the association.
ClientBadFrame ==
  /\ ReadByte
  /\ ReadFrame(Append(acc, client.bytes[pos + 1])).is = "Bad"
  /\ acc' = << >>
  /\ Return("BadFrame")
  /\ UNCHANGED <<client, frame, inbox, arrived, sent, put, replies, stats, torn>>

\* The end of the stream: between two frames it is Ok(None), within one, or by
\* a reset, it is an error.
ClientEnd ==
  /\ loop = "Wait"
  /\ pos = Len(client.bytes)
  /\ client.end # "open"
  /\ Return(IF client.end = "eof" /\ acc = << >> THEN "Ok" ELSE "Err")
  /\ acc' = << >>
  /\ UNCHANGED <<client, pos, frame, inbox, arrived, sent, put, replies, stats, torn>>

\* resolve_target: an IP address as it is, a domain by DNS, which may fail; then
\* the frame is skipped.
Resolve ==
  /\ loop = "Resolve"
  /\ \/ loop' = "Send" /\ UNCHANGED frame
     \/ frame.address.type = TYPE_DOMAIN /\ loop' = "Wait" /\ frame' = NoFrame
  /\ UNCHANGED <<client, pos, acc, inbox, arrived, sent, put, replies, stats, result,
                 torn>>

\* Mutant: the payload is counted before send_to has succeeded.
SendToCountsAll ==
  /\ loop = "Send"
  /\ loop' = "Wait"
  /\ frame' = NoFrame
  /\ stats' = AddSent(stats, Len(frame.payload))
  /\ sent' = Append(sent, frame) \/ UNCHANGED sent
  /\ UNCHANGED <<client, pos, acc, inbox, arrived, put, replies, result, torn>>

\* send_to; a failure skips the frame, a success is counted.
SendTo ==
  /\ loop = "Send"
  /\ loop' = "Wait"
  /\ frame' = NoFrame
  /\ \/ /\ sent' = Append(sent, frame)
        /\ stats' = AddSent(stats, Len(frame.payload))
     \/ UNCHANGED <<sent, stats>>
  /\ UNCHANGED <<client, pos, acc, inbox, arrived, put, replies, result, torn>>

(***************************************************************************)
(* The socket branch.  It wins, and the pending read_udp_frame is dropped. *)
(***************************************************************************)

\* What recv_from leaves of a payload that is longer than its buffer.
Cut(payload) ==
  SubSeq(payload, 1, IF Len(payload) <= UDP_BUFFER_SIZE
                       THEN Len(payload) ELSE UDP_BUFFER_SIZE)
Received(d) == [source |-> d.source, payload |-> Cut(d.payload)]

\* Mutant: a datagram of any length is received whole.
RecvWhole ==
  /\ loop = "Wait"
  /\ inbox # << >>
  /\ inbox' = Tail(inbox)
  /\ frame' = Head(inbox)
  /\ acc' = << >>
  /\ torn' = (torn \/ acc # << >>)
  /\ loop' = "Reply"
  /\ UNCHANGED <<client, pos, arrived, sent, put, replies, stats, result>>

Recv ==
  /\ loop = "Wait"
  /\ inbox # << >>
  /\ inbox' = Tail(inbox)
  /\ frame' = Received(Head(inbox))
  /\ acc' = << >>
  /\ torn' = (torn \/ acc # << >>)
  /\ loop' = "Reply"
  /\ UNCHANGED <<client, pos, arrived, sent, put, replies, stats, result>>

\* UdpEvent::Remote(Err(e)).
RecvError ==
  /\ loop = "Wait"
  /\ acc' = << >>
  /\ Return("Err")
  /\ UNCHANGED <<client, pos, frame, inbox, arrived, sent, put, replies, stats, torn>>

Outgoing == BuildFrame(frame.source, frame.payload)

\* write_all goes on behind the n bytes it has now written, or is done and the
\* datagram is counted.
Wrote(n) ==
  IF put + n < Len(Outgoing)
    THEN put' = put + n /\ UNCHANGED <<loop, frame, stats>>
    ELSE /\ put' = 0
         /\ loop' = "Wait" /\ frame' = NoFrame
         /\ stats' = AddReceived(stats, Len(frame.payload))

\* Mutant: each write starts at the front of the frame again.
ReplyAgain ==
  /\ loop = "Reply"
  /\ \E n \in 1 .. Len(Outgoing) - put :
       /\ client.reads \/ Len(replies) + n <= Window
       /\ replies' = replies \o SubSeq(Outgoing, 1, n)
       /\ Wrote(n)
  /\ UNCHANGED <<client, pos, acc, inbox, arrived, sent, result, torn>>

\* build_udp_frame and one write of write_all, outside udp_timeout: as much as
\* the connection takes, which for a client that does not read comes to an end,
\* perhaps in the middle of a frame.
Reply ==
  /\ loop = "Reply"
  /\ IF ~FrameFits(frame.payload)
       THEN Return("Err") /\ UNCHANGED <<frame, put, replies, stats>>
       ELSE \E n \in 1 .. Len(Outgoing) - put :
              /\ client.reads \/ Len(replies) + n <= Window
              /\ replies' = replies \o SubSeq(Outgoing, put + 1, put + n)
              /\ Wrote(n)
              /\ UNCHANGED result
  /\ UNCHANGED <<client, pos, acc, inbox, arrived, sent, torn>>

\* write_all fails, at any byte of the frame.
ReplyError ==
  /\ loop = "Reply"
  /\ client.end = "reset"
  /\ Return("Err")
  /\ UNCHANGED <<client, pos, acc, frame, inbox, arrived, sent, put, replies,
                 stats, torn>>

\* Mutant: the loop goes on after the timeout.
TimeoutContinues ==
  /\ loop = "Wait"
  /\ acc' = << >>
  /\ UNCHANGED <<client, pos, loop, frame, inbox, arrived, sent, put, replies, stats,
                 result, torn>>

\* udp_timeout passes before either branch has an event.
Timeout ==
  /\ loop = "Wait"
  /\ acc' = << >>
  /\ Return("Ok")
  /\ UNCHANGED <<client, pos, frame, inbox, arrived, sent, put, replies, stats, torn>>

\* A datagram reaches the bound socket, whatever the loop is doing.
Arrive ==
  /\ loop \notin {"Bind", "Ended"}
  /\ Len(arrived) < MaxDatagrams
  /\ \E d \in Datagrams : inbox' = Append(inbox, d) /\ arrived' = Append(arrived, d)
  /\ UNCHANGED <<client, pos, acc, loop, frame, sent, put, replies, stats, result, torn>>

\* The steps the task takes when it is polled: they need no fault.
Poll ==
  \/ Bind
  \/ ReadMore \/ ClientFrame \/ ClientBadFrame \/ ClientEnd
  \/ Resolve \/ SendTo
  \/ Recv \/ Reply \/ Timeout

Next == Poll \/ RecvError \/ ReplyError \/ Arrive

Spec == Init /\ [][Next]_vars

\* The task is polled when it can proceed, and its timer fires.  Nothing makes
\* a datagram arrive, a client read or a call fail.
FairSpec == Spec /\ WF_vars(Poll)

-----------------------------------------------------------------------------
(* The frames a byte stream carries: read_udp_frame called over and over   *)
(* with nothing in between.  Frames(s) is what it returns, Rest(s) the     *)
(* bytes of the frame that does not complete.                              *)

\* Where a frame that starts after offset n of s may end.
FrameEnds(s, n) ==
  {m \in n + 1 .. Len(s) : ReadFrame(SubSeq(s, n + 1, m)).is = "Ok"}

\* What s carries after offset n: the first frame there, and what follows its
\* end.
DecodeAfter(s, after, n) ==
  LET ends == FrameEnds(s, n)
      m    == CHOOSE m \in ends : \A k \in ends : m <= k
  IN  IF ends = {}
        THEN [frames |-> << >>, rest |-> SubSeq(s, n + 1, Len(s))]
        ELSE [frames |-> <<ReadFrame(SubSeq(s, n + 1, m))>> \o after[m].frames,
              rest   |-> after[m].rest]

Decode(s) ==
  LET after[n \in 0 .. Len(s)] == DecodeAfter(s, after, n) IN after[0]
Frames(s) == Decode(s).frames
Rest(s) == Decode(s).rest

\* The stream is whole frames and perhaps the beginning of one more.
WellFormed(s) == \A n \in 0 .. Len(Rest(s)) : ReadFrame(SubSeq(Rest(s), 1, n)) = Short

\* s is t with some elements left out.
IsSubsequence(s, t) ==
  \E f \in [1 .. Len(s) -> 1 .. Len(t)] :
    /\ \A i, j \in 1 .. Len(s) : i < j => f[i] < f[j]
    /\ \A i \in 1 .. Len(s) : s[i] = t[f[i]]

PayloadBytes(frames) ==
  LET first[n \in 0 .. Len(frames)] ==
        IF n = 0 THEN 0 ELSE first[n - 1] + Len(frames[n].payload)
  IN  first[Len(frames)]

(***************************************************************************)
(* The types.  What recv_from returns always fits a frame, so that         *)
(* build_udp_frame, which would end the association, never refuses it.     *)
(***************************************************************************)
TypeOK ==
  /\ client \in Clients
  /\ pos \in 0 .. Len(client.bytes)
  /\ acc \in Seq(Byte) /\ Len(acc) <= pos
  /\ loop \in {"Bind", "Wait", "Resolve", "Send", "Reply", "Ended"}
  /\ loop \in {"Resolve", "Send", "Reply"} => frame # NoFrame
  /\ loop = "Reply" => FrameFits(frame.payload)
  /\ put \in Nat
  /\ Len(inbox) <= Len(arrived) /\ Len(arrived) <= MaxDatagrams
  /\ replies \in Seq(Byte)
  /\ stats \in [sent : Nat, received : Nat]
  /\ result \in {"none", "Ok", "Err", "BadFrame"}

(***************************************************************************)
(* Until a datagram has arrived in the middle of a frame, the loop is in   *)
(* step with the client: what it holds is the beginning of the frame the   *)
(* client is sending, what it has sent are frames of the client, in order  *)
(* and possibly with the unresolvable and unsendable ones left out, and    *)
(* only a malformed stream is refused.                                     *)
(***************************************************************************)
InStepUntilTorn ==
  ~torn =>
    /\ loop # "Ended" => acc = Rest(SubSeq(client.bytes, 1, pos))
    /\ IsSubsequence(sent, Frames(client.bytes))
    /\ result = "BadFrame" => ~WellFormed(client.bytes)

FrameOf(d) == BuildFrame(d.source, Cut(d.payload))

(***************************************************************************)
(* The other way there is no such condition: the bytes written to the      *)
(* client read back as the datagrams that arrived, in order and none       *)
(* skipped but the one in hand.  A frame that write_all has cut is a       *)
(* beginning of that one, and nothing follows it unless it is finished:    *)
(* the loop is still in the call, or has returned.                         *)
(***************************************************************************)
RepliesReadBack ==
  LET back == Frames(replies)
      part == Rest(replies)
      n    == Len(arrived) - Len(inbox)
  IN  /\ n - Len(back) \in {0, 1}
      /\ \A i \in 1 .. Len(back) :
           /\ back[i].address = arrived[i].source
           /\ back[i].payload = SubSeq(arrived[i].payload, 1, Len(back[i].payload))
           /\ Len(arrived[i].payload) <= UDP_BUFFER_SIZE =>
                back[i].payload = arrived[i].payload
      /\ part # << >> =>
           /\ loop \in {"Reply", "Ended"} /\ n = Len(back) + 1
           /\ Len(part) < Len(FrameOf(arrived[n]))
           /\ part = SubSeq(FrameOf(arrived[n]), 1, Len(part))

(***************************************************************************)
(* The session's counters are the payload bytes that crossed: skipped      *)
(* frames and failed sends are not counted, nor are headers.               *)
(***************************************************************************)
CountersMatchTraffic ==
  stats = [sent     |-> PayloadBytes(sent),
           received |-> PayloadBytes(Frames(replies))]

(***************************************************************************)
(* With a client that reads, an association ends: by the client's end, by  *)
(* an error, or by udp_timeout.                                            *)
(***************************************************************************)
AssociationEnds == client.reads ~> loop = "Ended"

(***************************************************************************)
(* "UDP Associate forwarding is stable (over long times)"                  *)
(* (src/docs/RELEASE_CHECKLIST.md, 17): the server does not refuse the     *)
(* frames of a client that sends well-formed ones.                         *)
(***************************************************************************)
WellFormedNeverRefused == result = "BadFrame" => ~WellFormed(client.bytes)

(***************************************************************************)
(* "udp_timeout: idle timeout of a UDP Associate session"                  *)
(* (src/docs/CONFIGURATION.md): a session in which nothing moves any more  *)
(* ends, whatever its client does.                                         *)
(***************************************************************************)
IdleAssociationEnds == <>(loop = "Ended")

=============================================================================
