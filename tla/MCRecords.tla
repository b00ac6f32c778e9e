------------------------------- MODULE MCRecords -------------------------------
(***************************************************************************)
(* RecordStream with streams that meet every branch of the parser: records *)
(* of every type, alerts before and after the cipher changes, headers that *)
(* are not TLS, lengths at their limits; and, with no stream at all, two   *)
(* messages in a row: events of every kind, with readings where a byte     *)
(* ends, of zeroes, and of a header nobody has seen.                       *)
(***************************************************************************)
EXTENDS RecordStream

Record(type, body) == <<type, 3, 3, Len(body) \div 256, Len(body) % 256>> \o body
Long == Record(22, [i \in 1..259 |-> 20 + (i % 3)])

SomeStreams ==
  { <<>>, Record(22, <<1, 9>>) \o Record(20, <<1>>) \o Record(21, <<2, 20>>) \o Record(23, <<21, 3, 3>>),
    Record(22, <<2>>) \o Record(21, <<2, 51>>) \o Record(22, <<7>>), Record(21, <<2, 20>>) \o <<1, 2, 3, 4, 5>>,
    Record(21, <<1, 0>>), Record(21, <<2>>), Record(21, <<2, 40, 20>>),
    Record(22, <<21>>) \o <<24, 3, 3, 0, 1, 1>>, <<22, 2, 3, 0, 1>>, <<22, 3, 4, 0, 1>>, <<22, 3, 0, 0, 1, 0>>,
    <<23, 3, 1, 0, 0, 1>>, <<23, 3, 2, 72, 0, 5, 5>>, <<23, 3, 3, 72, 1, 5>>, Long \o Record(21, <<2, 115>>) }

SomeAsides(s) == IF s = <<>> THEN 2 ELSE 1

Reply(cmd, payload, acked) == [cmd |-> cmd, payload |-> payload, acked |-> acked]
Event(cmd, header, zones) == Reply(cmd, header \o FlattenSeq([i \in 1..6 |-> PutUint16(zones[i])]), 0)
Ordinary == <<369, 396, 342, 370, 340, 370>>
Extreme == <<511, 512, 65535, 456, 458, 0>>
Zero == <<0, 0, 0, 0, 0, 0>>
SomeMessages ==
  { Reply(174, <<1, 3>>, 0), Reply(AckCmd, <<50, 1>>, 50), Reply(AckCmd, <<168>>, 0), Reply(54, <<>>, 0),
    Event(50, <<2, 0, 47, 0>>, Ordinary), Event(50, <<2, 0, 61, 0>>, Extreme),
    Event(50, <<128, 0, 0, 0>>, Ordinary), Event(50, <<128, 0, 0, 0>>, Zero), Event(50, <<0, 2, 0, 0>>, Ordinary),
    Event(52, <<0, 2, 0, 0>>, Extreme), Event(54, <<0, 1, 5, 0>>, Ordinary), Event(54, <<0, 1, 0, 0>>, Extreme) }
SomeClocks == {0, 40962}

\* Too short, a wrong checksum, more declared than there is, flags of no kind,
\* a message with a tail, one that declares nothing, one with a wrong checksum.
SomeJunk ==
  { <<160>>, <<160, 1, 0, 0, 9>>, <<176, 9, 0, 185, 22, 3>>,
    EncodePack(FlagMessage, EncodeMessage(50, <<7>>, FALSE) \o <<0>>),
    EncodePack(161, EncodeMessage(50, <<7>>, FALSE)), EncodePack(FlagMessage, <<50, 0, 0, 120>>),
    EncodePack(FlagMessage, <<50, 2, 0, 7, 1>>) }
=============================================================================
