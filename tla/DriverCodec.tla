------------------------------ MODULE DriverCodec ------------------------------
(***************************************************************************)
(* The wire codec of the C driver (goodix5120_proto.c), byte for byte.  A  *)
(* decoder that returns FALSE here returns a record whose ok is FALSE.     *)
(***************************************************************************)
EXTENDS Integers, SequencesExt

G5120_FLAG_MESSAGE == 160
G5120_FLAG_TLS == 176
G5120_FLAG_TLS_ALT == 178
G5120_CMD_ACK == 176
G5120_NO_CHECKSUM_MARKER == 136
G5120_USB_PACKET_SIZE == 64
G5120_TLS_MAX_BODY_LEN == 18432
G_MAXUINT16 == 65535

\* A guint8 sum wraps; two bytes are little endian.
Byte(v) == v % 256
Short(b, i) == b[i] + 256 * b[i + 1]
Shorts(v) == <<Byte(v), Byte(v \div 256)>>

g5120_pack_checksum(header3) == Byte(header3[1] + header3[2] + header3[3])
g5120_message_checksum(data) == Byte(170 - FoldLeft(LAMBDA sum, v : Byte(sum + v), 0, data))

g5120_message_encode(cmd, payload) ==
  LET out == <<cmd>> \o Shorts(Len(payload) + 1) \o payload
  IN Append(out, g5120_message_checksum(out))

g5120_pack_encode(flags, payload) ==
  LET header == <<flags>> \o Shorts(Len(payload))
  IN Append(header, g5120_pack_checksum(header)) \o payload

g5120_pad_to_packet(frame) == frame \o [i \in 1..((-Len(frame)) % G5120_USB_PACKET_SIZE) |-> 0]

\* The send table: an opcode, and the one size of payload it may carry.
opcode_table ==
  [cmd \in {168, 166, 174, 130, 228, 150, 162, 112, 152, 144, 208, 212, 32, 50, 52, 54} |->
     CASE cmd \in {168, 166, 150, 162, 112, 208, 212, 32} -> 2
       [] cmd \in {174, 130} -> 5
       [] cmd \in {228, 152} -> 8
       [] cmd = 144 -> 224
       [] cmd = 50 -> 16
       [] cmd \in {52, 54} -> 14]
g5120_check_send(cmd, payload_len) ==
  cmd \in DOMAIN opcode_table /\ payload_len = opcode_table[cmd]

\* What is refused is <<>>.
g5120_command_frame(cmd, payload) ==
  IF ~g5120_check_send(cmd, Len(payload)) THEN <<>> ELSE
  g5120_pad_to_packet(g5120_pack_encode(G5120_FLAG_MESSAGE, g5120_message_encode(cmd, payload)))

\* One whole record, and a header that is one of TLS.
g5120_tls_record_len(buf) ==
  IF Len(buf) < 5 \/ Len(buf) < 5 + 256 * buf[4] + buf[5] THEN 0 ELSE 5 + 256 * buf[4] + buf[5]
g5120_tls_frame(record) ==
  LET body == 256 * record[4] + record[5]
      ok == /\ Len(record) \in 5..G_MAXUINT16
            /\ record[1] \in 20..23 /\ record[2] = 3 /\ record[3] \in 1..3
            /\ body \in 1..G5120_TLS_MAX_BODY_LEN /\ g5120_tls_record_len(record) = Len(record)
  IN IF ok THEN g5120_pad_to_packet(g5120_pack_encode(G5120_FLAG_TLS, record)) ELSE <<>>

g5120_pack_decode(buf) ==
  LET ok == /\ Len(buf) >= 4 /\ buf[4] = g5120_pack_checksum(buf)
            /\ Len(buf) >= 4 + Short(buf, 2)
  IN [ok |-> ok, flags |-> IF ok THEN buf[1] ELSE 0,
      payload |-> IF ok THEN SubSeq(buf, 5, 4 + Short(buf, 2)) ELSE <<>>]

g5120_message_decode(buf) ==
  LET ok == /\ Len(buf) >= 4 /\ Short(buf, 2) >= 1 /\ Len(buf) = 3 + Short(buf, 2)
            /\ Last(buf) \in {G5120_NO_CHECKSUM_MARKER, g5120_message_checksum(Front(buf))}
  IN [ok |-> ok, cmd |-> IF ok THEN buf[1] ELSE 0,
      payload |-> IF ok THEN SubSeq(buf, 4, Len(buf) - 1) ELSE <<>>]

g5120_ack_decode(cmd, payload) ==
  LET ok == cmd = G5120_CMD_ACK /\ Len(payload) = 2
  IN [ok |-> ok, acked |-> IF ok THEN payload[1] ELSE 0]

-----------------------------------------------------------------------------
(* Finger detection *)

G5120_CMD_FDT_DOWN == 50      \* 0x32
G5120_CMD_FDT_UP == 52        \* 0x34
G5120_CMD_FDT_MANUAL == 54    \* 0x36
G5120_FDT_UP_UNTOUCHED == 25
G5120_FDT_DELTA_THIS_DEVICE == 27
g5120_fdt_initial_down_thresholds == <<184, 197, 171, 185, 170, 185>>
Zone == 1..6

g5120_is_fdt_cmd(cmd) == cmd \in {G5120_CMD_FDT_DOWN, G5120_CMD_FDT_UP, G5120_CMD_FDT_MANUAL}

g5120_fdt_decode_event(cmd, payload) ==
  IF Len(payload) # 16 THEN [ok |-> FALSE]
  ELSE [ ok |-> TRUE, touchflags |-> payload[3],
         zones |-> [i \in Zone |-> Short(payload, 3 + 2 * i)],
         kind |-> CASE cmd = G5120_CMD_FDT_DOWN /\ payload[1] = 128 -> "base invalid"
                    [] cmd = G5120_CMD_FDT_DOWN /\ payload[1] = 2 /\ payload[2] = 0 -> "down"
                    [] cmd = G5120_CMD_FDT_UP /\ payload[1] = 0 /\ payload[2] = 2 -> "up"
                    [] cmd = G5120_CMD_FDT_MANUAL /\ payload[1] = 0 /\ payload[2] = 1 -> "manual"
                    [] OTHER -> "unknown" ]

clamp_u8(v) == IF v > 255 THEN 255 ELSE v
g5120_fdt_down_thresholds(zones) == [i \in Zone |-> clamp_u8(zones[i] \div 2)]
g5120_fdt_up_thresholds(zones, touchflags, delta) ==
  [i \in Zone |-> IF (touchflags \div 2^(i - 1)) % 2 = 1 THEN clamp_u8(zones[i] \div 2 + delta)
                  ELSE G5120_FDT_UP_UNTOUCHED]

\* A mode, a constant, a marker before each threshold, and a clock on one of them.
g5120_fdt_encode_arm(cmd, thresholds, timestamp) ==
  LET mode == CASE cmd = G5120_CMD_FDT_DOWN -> 12 [] cmd = G5120_CMD_FDT_UP -> 14
                [] cmd = G5120_CMD_FDT_MANUAL -> 13
  IN <<mode, 1>> \o [i \in 1..12 |-> IF i % 2 = 1 THEN 128 ELSE thresholds[i \div 2]]
       \o (IF cmd = G5120_CMD_FDT_DOWN THEN Shorts(timestamp) ELSE <<>>)
=============================================================================
