------------------------------- MODULE MCProbe -------------------------------
(* Command lines that meet every check, alone and together. *)
EXTENDS Probe, Integers

FlashOpcodes == {"f0", "e0"}
StepLists == {<<>>, <<"a8">>, <<"e4", "ae">>, <<"d0">>, <<"20">>, <<"32">>, <<"f0">>}
Allowed == {{}, {"e4"}, {"d0", "20", "f0"}, {"e4", "d0", "d4", "20", "32", "34"}}

CommandLines ==
  [replay : BOOLEAN, wrongPSK : BOOLEAN, readState : BOOLEAN, tls : BOOLEAN, psk : BOOLEAN,
   capture : BOOLEAN, waitFinger : BOOLEAN, touches : -1..3, allow : Allowed, steps : StepLists]
=============================================================================
