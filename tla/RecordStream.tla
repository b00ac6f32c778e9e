----------------------------- MODULE RecordStream -----------------------------
(***************************************************************************)
(* The bytes of the EC on their way to a TLS endpoint.  The EC cuts its    *)
(* stream of records anywhere; each piece travels in a pack that USB pads; *)
(* command messages, and transfers that are no pack, come in between.      *)
(* g5120_tls_feed watches the stream go by with a header, a count and two  *)
(* bytes of memory; a finger-detect event is answered with an arm made     *)
(* from its readings.  The host is the C driver, with its own codec; the   *)
(* properties read the same bytes with the Go library.                     *)
(***************************************************************************)
EXTENDS FingerDetect, DriverCodec

CONSTANTS
  Streams,     \* what the EC may have to say
  Messages,    \* commands and payloads it may answer in between,
               \* with the command each acknowledges, or 0
  Junk,        \* transfers that are not a pack
  Clocks,      \* the milliseconds an arm may carry
  MaxCut,      \* bounds: bytes in one transfer, unless it takes all that is left,
  MaxAsides(_) \* and transfers that are not TLS, beside a stream

\* What two bytes hold: the length a pack declares, the clock of an arm.
MaxPack == 65535
ByteStrings == Seq(0..255)

ASSUME StreamsAssumption == Streams \subseteq ByteStrings

\* A message fits in a pack, and is read as an acknowledgement if it has its form.
ASSUME MessagesAssumption ==
  \A m \in Messages :
    /\ m.cmd \in 0..255 /\ m.payload \in ByteStrings /\ Len(m.payload) + 4 <= MaxPack
    /\ m = [cmd |-> m.cmd, payload |-> m.payload,
            acked |-> DecodeAck(Message("nil", m.cmd, m.payload)).acked]

\* What the library cannot decode, or would not know what to do with.
ASSUME JunkAssumption ==
  \A b \in Junk :
    /\ b \in ByteStrings
    /\ LET pack == DecodePack(b)
       IN \/ pack.err # "nil" \/ pack.flags \notin {FlagMessage, FlagTLSData, FlagTLSAlt}
          \/ pack.flags = FlagMessage /\ DecodeMessage(pack.payload).err # "nil"

ASSUME ClocksAssumption == Clocks \subseteq 0..MaxPack

VARIABLES
  stream, sent,   \* the stream and how much of it has left the EC
  transfer,       \* on the wire, or <<>>
  todo,           \* what feed has of a transfer, from off on
  p,              \* input_header, input_body_len, input_remaining, input_alert,
                  \* input_encrypted, from_ec
  verdict,        \* of feed: "ok", or the error that ends the session
  said, got,      \* the messages sent and those decoded
  thr,            \* down_thr, up_thr and manual_thr
  armed,          \* the frame of the arm made from the last message, or <<>>
  asides

vars == <<stream, sent, transfer, todo, p, verdict, said, got, thr, armed, asides>>

Init ==
  /\ stream \in Streams /\ sent = 0 /\ transfer = <<>> /\ todo = <<>>
  /\ p = [header |-> <<>>, body |-> 0, remaining |-> 0, alert |-> <<0, 0>>, encrypted |-> FALSE, from_ec |-> 0]
  /\ verdict = "ok" /\ said = <<>> /\ got = <<>> /\ asides = 0 /\ armed = <<>>
  /\ thr = [down |-> g5120_fdt_initial_down_thresholds, up |-> <<>>, manual |-> <<>>]

-----------------------------------------------------------------------------
(* The EC (external) *)

Idle == transfer = <<>> /\ todo = <<>> /\ verdict = "ok"
Paddings == {<<>>, <<0, 0, 0>>, <<FlagTLSData, 1, 0, 177, 21>>}

SendRecords ==
  /\ Idle /\ sent < Len(stream)
  /\ \E to \in (sent + 1)..Len(stream), flags \in {FlagTLSData, FlagTLSAlt}, padding \in Paddings :
       /\ to <= sent + MaxCut \/ to = Len(stream)
       /\ to - sent <= MaxPack
       /\ transfer' = EncodePack(flags, SubSeq(stream, sent + 1, to)) \o padding
       /\ sent' = to
  /\ UNCHANGED <<stream, todo, p, verdict, said, got, thr, armed, asides>>

SendMessage ==
  /\ Idle /\ asides < MaxAsides(stream) /\ asides' = asides + 1
  /\ \E m \in Messages, noChecksum \in BOOLEAN, padding \in Paddings :
       /\ transfer' = EncodePack(FlagMessage, EncodeMessage(m.cmd, m.payload, noChecksum)) \o padding
       /\ said' = Append(said, m)
  /\ UNCHANGED <<stream, sent, todo, p, verdict, got, thr, armed>>

SendJunk ==
  /\ Idle /\ asides < MaxAsides(stream) /\ asides' = asides + 1 /\ transfer' \in Junk
  /\ UNCHANGED <<stream, sent, todo, p, verdict, said, got, thr, armed>>

-----------------------------------------------------------------------------
(* The host *)

\* What becomes of the thresholds, in the machine that waits for such an event.
finger_lifted(e) == [thr EXCEPT !.down = g5120_fdt_down_thresholds(e.zones)]
zones_all_zero(zones) == \A i \in Zone : zones[i] = 0
fdt_handle_event(e) ==
  CASE e.kind = "down" ->
         [thr EXCEPT !.up = g5120_fdt_up_thresholds(e.zones, e.touchflags, G5120_FDT_DELTA_THIS_DEVICE),
                     !.manual = thr.down]
    [] e.kind = "base invalid" /\ ~zones_all_zero(e.zones) ->
         [thr EXCEPT !.down = g5120_fdt_down_thresholds(e.zones)]
    [] e.kind = "up" -> finger_lifted(e)
    [] OTHER -> thr
recheck_wait_cb(e) ==
  IF e.touchflags = 0 THEN finger_lifted(e)
  ELSE [thr EXCEPT !.manual = g5120_fdt_down_thresholds(e.zones)]

\* The arm that is sent next from what was made of an event.
Arm(e, made, clock) ==
  LET frame(cmd, thresholds) == g5120_command_frame(cmd, g5120_fdt_encode_arm(cmd, thresholds, clock))
  IN CASE e.kind = "down" -> frame(G5120_CMD_FDT_UP, made.up)
       [] e.kind \in {"up", "base invalid"} \/ (e.kind = "manual" /\ e.touchflags = 0) ->
            frame(G5120_CMD_FDT_DOWN, made.down)
       [] e.kind = "manual" /\ e.touchflags # 0 -> frame(G5120_CMD_FDT_MANUAL, made.manual)
       [] OTHER -> <<>>

\* What a transfer is: whatever is not understood is "other".
rx_classify(buf) ==
  LET pack == g5120_pack_decode(buf)
      m == g5120_message_decode(pack.payload)
      ack == g5120_ack_decode(m.cmd, m.payload)
      e == g5120_fdt_decode_event(m.cmd, m.payload)
  IN CASE pack.ok /\ pack.flags \in {G5120_FLAG_TLS, G5120_FLAG_TLS_ALT} ->
            [kind |-> "tls", payload |-> pack.payload]
       [] pack.ok /\ pack.flags = G5120_FLAG_MESSAGE /\ m.ok ->
            [kind |-> IF ack.ok THEN "ack" ELSE IF g5120_is_fdt_cmd(m.cmd) /\ e.ok THEN "fdt" ELSE "data",
             cmd |-> m.cmd, payload |-> m.payload, acked |-> ack.acked, event |-> e]
       [] OTHER -> [kind |-> "other"]

\* Records go to the endpoint, events to the touch loop, other messages to the
\* command that waits, and the rest nowhere.
Receive ==
  /\ transfer # <<>> /\ transfer' = <<>>
  /\ LET rx == rx_classify(transfer)
     IN CASE rx.kind = "tls" -> todo' = rx.payload /\ UNCHANGED <<got, thr, armed>>
          [] rx.kind \in {"ack", "fdt", "data"} ->
               /\ got' = Append(got, [cmd |-> rx.cmd, payload |-> rx.payload, acked |-> rx.acked])
               /\ IF rx.kind = "fdt"
                  THEN /\ thr' = IF rx.event.kind = "manual" THEN recheck_wait_cb(rx.event)
                               ELSE fdt_handle_event(rx.event)
                       /\ \E clock \in Clocks : armed' = Arm(rx.event, thr', clock)
                  ELSE armed' = <<>> /\ UNCHANGED thr
               /\ UNCHANGED todo
          [] rx.kind = "other" -> UNCHANGED <<todo, got, thr, armed>>
  /\ UNCHANGED <<stream, sent, p, verdict, said, asides>>

Smaller(m, n) == IF m < n THEN m ELSE n
After(n) == SubSeq(todo, n + 1, Len(todo))

\* Mutant: a header that is cut is not remembered.
ReadHeaderAtOnce ==
  /\ todo # <<>> /\ verdict = "ok" /\ p.header = <<>>
  /\ LET header == SubSeq(todo, 1, TLSRecordHeaderLen)
         h == ParseTLSRecordHeader(todo)
     IN CASE h.err = "ErrShortBuffer" -> todo' = <<>> /\ UNCHANGED <<p, verdict>>
          [] h.err = "ErrTLSRecord" ->
               verdict' = "failed" /\ p' = [p EXCEPT !.header = header] /\ todo' = After(TLSRecordHeaderLen)
          [] OTHER ->
               /\ p' = [p EXCEPT !.header = header, !.body = h.bodyLen, !.remaining = h.bodyLen]
               /\ todo' = After(TLSRecordHeaderLen) /\ UNCHANGED verdict
  /\ UNCHANGED <<stream, sent, transfer, said, got, thr, armed, asides>>

\* The start of a turn of the loop: the header, which may come in pieces.
ReadHeader ==
  /\ todo # <<>> /\ verdict = "ok" /\ Len(p.header) < TLSRecordHeaderLen
  /\ LET n == Smaller(Len(todo), TLSRecordHeaderLen - Len(p.header))
         header == p.header \o SubSeq(todo, 1, n)
         body == 256 * header[4] + header[5]
         invalid == \/ header[1] \notin TLSChangeCipherSpec..TLSApplicationData
                    \/ header[2] # 3 \/ header[3] < 1 \/ header[3] > 3
                    \/ body = 0 \/ body > MaxTLSRecordBody
     IN CASE Len(header) < TLSRecordHeaderLen ->
               p' = [p EXCEPT !.header = header] /\ todo' = <<>> /\ UNCHANGED verdict
          [] Len(header) = TLSRecordHeaderLen /\ invalid ->
               /\ verdict' = "failed" /\ p' = [p EXCEPT !.header = header, !.body = body]
               /\ todo' = After(n)
          [] OTHER ->
               /\ p' = [p EXCEPT !.header = header, !.body = body, !.remaining = body]
               /\ todo' = After(n) /\ UNCHANGED verdict
  /\ UNCHANGED <<stream, sent, transfer, said, got, thr, armed, asides>>

alert_means_key_mismatch(desc) == desc \in {20, 51, 115}

\* The rest of it: the body, of which an alert's two bytes are kept.
ReadBody ==
  /\ todo # <<>> /\ verdict = "ok" /\ Len(p.header) = TLSRecordHeaderLen
  /\ LET n == Smaller(Len(todo), p.remaining)
         off == p.body - p.remaining
         alert == [i \in 1..2 |-> IF p.header[1] = TLSAlert /\ i \in (off + 1)..(off + n)
                                  THEN todo[i - off] ELSE p.alert[i]]
         q == [p EXCEPT !.remaining = @ - n, !.alert = alert]
         whole == [q EXCEPT !.header = <<>>, !.from_ec = @ + 1]
     IN /\ todo' = After(n)
        /\ IF q.remaining # 0 THEN p' = q /\ UNCHANGED verdict
           ELSE IF p.header[1] = TLSAlert /\ ~p.encrypted
           THEN /\ p' = whole
                /\ verdict' = IF p.body = 2 /\ alert_means_key_mismatch(alert[2]) THEN "mismatch" ELSE "alert"
           ELSE /\ p' = [whole EXCEPT !.encrypted = @ \/ p.header[1] = TLSChangeCipherSpec]
                /\ UNCHANGED verdict
  /\ UNCHANGED <<stream, sent, transfer, said, got, thr, armed, asides>>

g5120_tls_has_partial_input == p.header # <<>> \/ p.remaining # 0

Next == SendRecords \/ SendMessage \/ SendJunk \/ Receive \/ ReadHeader \/ ReadBody
Spec == Init /\ [][Next]_vars

-----------------------------------------------------------------------------
(* Properties *)

\* What feed has looked at, between two transfers or in the middle of one.
Seen == SubSeq(stream, 1, sent - Len(todo))

\* The longest part of it that SplitTLSRecords accepts.
WholePart(b) ==
  CHOOSE n \in 0..Len(b) :
    /\ n = 0 \/ SplitTLSRecords(SubSeq(b, 1, n)).err = "nil"
    /\ \A m \in (n + 1)..Len(b) : SplitTLSRecords(SubSeq(b, 1, m)).err # "nil"

\* The parser of the driver, given any pieces, agrees with that of the probe,
\* given the whole: how many records there were, whether the stream stands
\* between two, whether it is encrypted, and which of them ends the session and
\* why (g5120_tls_feed, g5120_tls_has_partial_input, SplitTLSRecords).
Plaintext(records, i) == \A j \in 1..(i - 1) : records[j][1] # TLSChangeCipherSpec
Fatal(records, i) == records[i][1] = TLSAlert /\ Plaintext(records, i)
Verdict(record) ==
  IF Len(record) = 7 /\ record[7] \in {20, 51, 115} THEN "mismatch" ELSE "alert"
StreamIsUnderstood ==
  transfer = <<>> =>
    LET n == WholePart(Seen)
        records == SplitTLSRecords(SubSeq(Seen, 1, n)).records
        rest == SubSeq(Seen, n + 1, Len(Seen))
        broken == ParseTLSRecordHeader(rest).err = "ErrTLSRecord"
    IN /\ p.from_ec = Len(records)
       /\ p.encrypted <=> ~Plaintext(records, Len(records) + 1)
       /\ g5120_tls_has_partial_input <=> rest # <<>>
       /\ \A i \in DOMAIN records : Fatal(records, i) => i = Len(records)
       /\ verdict = IF records # <<>> /\ Fatal(records, Len(records)) THEN Verdict(records[Len(records)])
                    ELSE IF broken THEN "failed" ELSE "ok"

\* Padding, junk and a record's bytes are never taken for a message, nor is one
\* lost (rx_classify and the decoders under it).
MessagesArrive == transfer = <<>> => got = said

\* What the driver makes of a transfer is what a capture of it shows, but for a
\* pack of unknown flags, which only a capture tries as a message, and for an
\* acknowledgement of another size, which only a capture calls an error
\* (rx_classify; Frames).
CaptureShowsIt ==
  transfer # <<>> =>
    LET rx == rx_classify(transfer)
        f == Frame(transfer)
    IN CASE rx.kind = "tls" -> f.err = "nil" /\ TLS(f) /\ f.pack = rx.payload
         [] rx.kind = "ack" -> f.err = "nil" /\ f.ack /\ f.cmd = rx.acked
         [] rx.kind \in {"fdt", "data"} ->
              /\ ~TLS(f) /\ ~f.ack /\ f.cmd = rx.cmd /\ f.payload = rx.payload
              /\ f.err = "nil" <=> rx.cmd # AckCmd
         [] rx.kind = "other" -> f.err # "nil" \/ f.flags \notin {FlagMessage, FlagTLSData, FlagTLSAlt}

\* The readings that thresholds of an arm for a finger come from, as
\* captureOnTouch and touchOnce derive them: the last with no finger on, but
\* not those of a base that is all zero, which the driver alone refuses.
Untouched(e) ==
  /\ e.err = "nil"
  /\ \/ e.kind = "up" \/ (e.kind = "manual" /\ e.flags = 0)
     \/ e.kind = "base invalid" /\ \E i \in 1..FDTZones : e.zones[i] # 0
Base ==
  LET event(i) == DecodeFDTEvent(got[i].cmd, got[i].payload)
      untouched == {i \in DOMAIN got : got[i].cmd \in FDTCommands /\ Untouched(event(i))}
  IN IF untouched = {} THEN g5120_fdt_initial_down_thresholds ELSE DownThresholds(event(Max(untouched)).zones)

\* An arm of the driver is what the library would have made of the same events,
\* and the library reads it back: whole packets, the command for what is to be
\* seen next, thresholds of the right readings that saturate where a byte ends
\* (fdt_handle_event, g5120_fdt_encode_arm; DecodeFDTEvent, DecodeFDTArm).
ArmsFollow ==
  transfer = <<>> /\ armed # <<>> =>
    LET e == DecodeFDTEvent(Last(got).cmd, Last(got).payload)
        m == DecodeMessage(DecodePack(armed).payload)
        arm == DecodeFDTArm(m.cmd, m.payload)
    IN /\ Len(armed) % G5120_USB_PACKET_SIZE = 0
       /\ arm.err = "nil" /\ (m.cmd = 50 => arm.timestamp \in Clocks)
       /\ m.cmd = CASE e.kind = "down" -> 52 [] e.kind = "manual" /\ e.flags # 0 -> 54 [] OTHER -> 50
       /\ arm.thresholds = CASE m.cmd = 50 -> Base
                             [] m.cmd = 52 -> UpThresholds(e, FDTDeltaObserved)
                             [] m.cmd = 54 -> DownThresholds(e.zones)

\* The driver frames what is one record for the library, and the library gets
\* it out of the frame again (g5120_tls_frame; SplitTLSRecords, DecodePack).
RecordsAreFramed ==
  LET frame == g5120_tls_frame(Seen)
      split == SplitTLSRecords(Seen)
  IN /\ frame # <<>> <=> split.err = "nil" /\ Len(split.records) = 1
     /\ frame # <<>> => DecodePack(frame) = Pack("nil", FlagTLSData, Seen)

\* The two hosts, written apart in two languages, are of one mind about the wire.
ParsersAgree == StreamIsUnderstood /\ MessagesArrive /\ CaptureShowsIt /\ ArmsFollow /\ RecordsAreFramed
=============================================================================
