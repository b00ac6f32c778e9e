----------------------------- MODULE FingerDetect -----------------------------
(***************************************************************************)
(* The finger-detect payloads of internal/proto: the events of the EC, the *)
(* arms of the host, and the thresholds one makes of the other.            *)
(***************************************************************************)
EXTENDS Packets

FDTZones == 6
fdtHeaderLen == 4
fdtFrameLen == fdtHeaderLen + 2 * FDTZones
fdtArmMarker == 128
FDTDeltaObserved == 27
FDTUntouchedUp == 25

\* The headers the EC has been seen to send, by command; any other is "unknown".
Kind(cmd, b1, b2) ==
  CASE cmd = 50 /\ b1 = 128 -> "base invalid"
    [] <<cmd, b1, b2>> = <<50, 2, 0>> -> "down"
    [] <<cmd, b1, b2>> = <<52, 0, 2>> -> "up"
    [] <<cmd, b1, b2>> = <<54, 0, 1>> -> "manual"
    [] OTHER -> "unknown"

DecodeFDTEvent(cmd, payload) ==
  IF Len(payload) # fdtFrameLen THEN [err |-> "ErrFDTEvent"]
  ELSE [err |-> "nil", kind |-> Kind(cmd, payload[1], payload[2]), flags |-> payload[3],
        zones |-> [i \in 1..FDTZones |-> Uint16(payload, fdtHeaderLen + 2 * i - 1)]]

FDTCommands == {50, 52, 54}
fdtArmMode(cmd) ==
  [mode |-> CASE cmd = 50 -> 12 [] cmd = 52 -> 14 [] cmd = 54 -> 13,
   length |-> 2 + 2 * FDTZones + (IF cmd = 50 THEN 2 ELSE 0)]

DecodeFDTArm(cmd, payload) ==
  IF \/ cmd \notin FDTCommands
     \/ Len(payload) # fdtArmMode(cmd).length
     \/ payload[1] # fdtArmMode(cmd).mode
     \/ \E i \in 1..FDTZones : payload[2 * i + 1] # fdtArmMarker
  THEN [err |-> "ErrFDTEvent"]
  ELSE [err |-> "nil", thresholds |-> [i \in 1..FDTZones |-> payload[2 * i + 2]],
        timestamp |-> IF cmd = 50 THEN Uint16(payload, Len(payload) - 1) ELSE 0]

saturate(v) == IF v > 255 THEN 255 ELSE v
DownThresholds(untouched) == [i \in 1..FDTZones |-> saturate(untouched[i] \div 2)]
UpThresholds(down, delta) ==
  LET covered == {i \in 1..FDTZones : (down.flags % 2^i) >= 2^(i - 1)}
  IN [i \in 1..FDTZones |-> IF i \in covered THEN saturate(down.zones[i] \div 2 + delta) ELSE FDTUntouchedUp]
=============================================================================
