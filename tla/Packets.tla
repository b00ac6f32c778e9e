-------------------------------- MODULE Packets --------------------------------
(***************************************************************************)
(* The two framing layers of internal/proto, byte for byte, the TLS        *)
(* records inside a pack, and what internal/capture makes of a transfer.   *)
(* A byte is a number, a buffer a sequence.  A decoder returns a record    *)
(* whose err is "nil" or the error it reports.                             *)
(***************************************************************************)
EXTENDS Integers, SequencesExt

FlagMessage == 160    \* 0xa0
FlagTLSData == 176    \* 0xb0
FlagTLSAlt == 178     \* 0xb2
noChecksumMarker == 136
AckCmd == 176
packHeaderLen == 4
messageHeaderLen == 3

Total(b) == FoldLeft(+, 0, b) % 256
packChecksum(header) == Total(header)
messageChecksum(b) == (170 - Total(b)) % 256
PutUint16(n) == <<n % 256, (n \div 256) % 256>>
Uint16(b, i) == b[i] + 256 * b[i + 1]

EncodeMessage(cmd, payload, noChecksum) ==
  LET out == <<cmd>> \o PutUint16(Len(payload) + 1) \o payload
  IN Append(out, IF noChecksum THEN noChecksumMarker ELSE messageChecksum(out))

EncodePack(flags, payload) ==
  LET header == <<flags>> \o PutUint16(Len(payload))
  IN Append(header, packChecksum(header)) \o payload

Pack(err, flags, payload) == [err |-> err, flags |-> flags, payload |-> payload]

\* What follows the declared length is padding.
DecodePack(b) ==
  CASE Len(b) < packHeaderLen -> Pack("ErrShortBuffer", 0, <<>>)
    [] Len(b) >= packHeaderLen /\ b[4] # packChecksum(SubSeq(b, 1, 3)) -> Pack("ErrChecksum", 0, <<>>)
    [] OTHER ->
         LET n == Uint16(b, 2)
         IN IF Len(b) < packHeaderLen + n THEN Pack("ErrLength", 0, <<>>)
            ELSE Pack("nil", b[1], SubSeq(b, packHeaderLen + 1, packHeaderLen + n))

Message(err, cmd, payload) == [err |-> err, cmd |-> cmd, payload |-> payload]

\* Nothing may follow a message.
DecodeMessage(b) ==
  IF Len(b) < messageHeaderLen + 1 THEN Message("ErrShortBuffer", 0, <<>>)
  ELSE LET length == Uint16(b, 2)
           total == messageHeaderLen + length
       IN CASE length < 1 \/ Len(b) # total -> Message("ErrLength", 0, <<>>)
            [] length >= 1 /\ Len(b) = total
                 /\ b[total] \notin {noChecksumMarker, messageChecksum(SubSeq(b, 1, total - 1))} ->
                 Message("ErrChecksum", 0, <<>>)
            [] OTHER -> Message("nil", b[1], SubSeq(b, messageHeaderLen + 1, total - 1))

DecodeAck(m) ==
  IF m.cmd = AckCmd /\ Len(m.payload) = 2 THEN [err |-> "nil", acked |-> m.payload[1]]
  ELSE [err |-> "ErrNotAck", acked |-> 0]

-----------------------------------------------------------------------------
(* A transfer as internal/capture shows it *)

TLS(f) == f.flags \in {FlagTLSData, FlagTLSAlt}

\* One turn of Frames: decoded as far as it can be.
Frame(data) ==
  LET p == DecodePack(data)
      m == DecodeMessage(p.payload)
      a == DecodeAck(m)
      raw == [err |-> p.err, flags |-> p.flags, pack |-> p.payload, cmd |-> 0, payload |-> <<>>, ack |-> FALSE]
      message == [raw EXCEPT !.err = m.err, !.cmd = m.cmd, !.payload = m.payload]
  IN CASE p.err # "nil" \/ TLS(raw) -> raw
       [] p.err = "nil" /\ ~TLS(raw) /\ (m.err # "nil" \/ m.cmd # AckCmd) -> message
       [] OTHER -> [message EXCEPT !.err = a.err, !.ack = a.err = "nil",
                                   !.cmd = IF a.err = "nil" THEN a.acked ELSE @,
                                   !.payload = IF a.err = "nil" THEN <<>> ELSE @]

-----------------------------------------------------------------------------
(* TLS records *)

TLSChangeCipherSpec == 20
TLSAlert == 21
TLSHandshake == 22
TLSApplicationData == 23
TLSRecordHeaderLen == 5
MaxTLSRecordBody == 16384 + 2048

\* Two short buffers differ from two that are not TLS: a stream reads on.
ParseTLSRecordHeader(b) ==
  IF Len(b) < TLSRecordHeaderLen THEN [err |-> "ErrShortBuffer", bodyLen |-> 0]
  ELSE LET bodyLen == 256 * b[4] + b[5]
           valid == /\ b[1] \in {TLSChangeCipherSpec, TLSAlert, TLSHandshake, TLSApplicationData}
                    /\ b[2] = 3 /\ b[3] \in 1..3
                    /\ bodyLen \in 1..MaxTLSRecordBody
       IN [err |-> IF valid THEN "nil" ELSE "ErrTLSRecord", bodyLen |-> IF valid THEN bodyLen ELSE 0]

\* from[off]: the records from an offset to the end, or an empty one among them.
SplitTLSRecords(b) ==
  LET from[off \in 0..Len(b)] ==
        IF off = Len(b) THEN <<>>
        ELSE LET rest == SubSeq(b, off + 1, Len(b))
                 h == ParseTLSRecordHeader(rest)
                 size == TLSRecordHeaderLen + h.bodyLen
             IN IF h.err # "nil" \/ size > Len(rest) THEN << <<>> >>
                ELSE <<SubSeq(rest, 1, size)>> \o from[off + size]
      records == from[0]
  IN IF records = <<>> \/ records[Len(records)] = <<>> THEN [err |-> "ErrTLSRecord", records |-> <<>>]
     ELSE [err |-> "nil", records |-> records]
=============================================================================
