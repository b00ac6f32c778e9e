------------------------------ MODULE SafetyGate ------------------------------
(***************************************************************************)
(* What may be sent to the EC: the opcode registry of internal/proto, the  *)
(* gate of internal/transport that every frame passes, and the tables and  *)
(* checks of goodix-probe that decide, before anything is opened, what a   *)
(* run will ask the gate to admit.  An opcode is its hexadecimal name; of  *)
(* a payload only the length counts.  There is no state here.              *)
(***************************************************************************)
EXTENDS Naturals, SequencesExt

CONSTANTS
  Destructive,   \* the opcodes a goodix_destructive build registers
  MaxTouches     \* of --touches

ReadOnly == {"00", "a8", "a6", "ae", "82"}
Arms == {"32", "34", "36"}
StateChanging == {"e4", "96", "a2", "70", "98", "90", "d0", "d4", "20", "50", "f4"} \cup Arms

ASSUME BuildTag == Destructive \cap (ReadOnly \cup StateChanging) = {}
ASSUME Touches == MaxTouches \in Nat

-----------------------------------------------------------------------------
(* internal/proto *)

Registered == ReadOnly \cup StateChanging \cup Destructive
PayloadUnknown == {"00", "f4"} \cup Destructive
PayloadExactly ==
  [op \in {"a8", "a6", "ae", "82"} \cup (StateChanging \ {"f4"}) |->
     CASE op \in {"ae", "82"} -> 5 [] op \in {"e4", "98"} -> 8 [] op = "90" -> 224
       [] op = "32" -> 16 [] op \in {"34", "36"} -> 14 [] OTHER -> 2]

\* Sizes of the arms EncodeFDTArm makes: a mode, a constant, six zones, a time.
EncodeFDTArm(op) == 2 + 2 * 6 + (IF op = "32" THEN 2 ELSE 0)

-----------------------------------------------------------------------------
(* The gate, with the ceiling every caller gives it: read-only *)

Frame(op, len) == [op |-> op, len |-> len]

checkOpcode(op, allow) ==
  op \in Registered /\ (op \notin ReadOnly => op \notin Destructive /\ op \in allow)
checkPayload(f) == f.op \in PayloadUnknown \/ f.len = PayloadExactly[f.op]
check(f, allow) == checkOpcode(f.op, allow) /\ checkPayload(f)

\* A pack of TLS data is a whole number of records, on a path that was opened.
checkTLSData(records, allowed) ==
  allowed /\ records # <<>> /\ \A i \in DOMAIN records : records[i].part = "whole"

-----------------------------------------------------------------------------
(* The tables of goodix-probe *)

vendorInit ==
  << Frame("96", 2), Frame("a8", 2), Frame("ae", 5), Frame("e4", 8), Frame("a2", 2),
     Frame("82", 5), Frame("a6", 2), Frame("a2", 2), Frame("70", 2), Frame("98", 8),
     Frame("90", 224), Frame("d0", 2), Frame("d4", 2), Frame("ae", 5) >>
vendorLoop == <<Frame("20", 2), Frame("32", 16), Frame("34", 14)>>
steps == <<Frame("a8", 2)>>

unlockable == {"96", "e4", "a2", "70", "98", "90", "d0", "d4", "20", "32", "34"}
fdtArm(op) == op \in {"32", "34"}

\* The frames the vendor is known to send, if read-only or with a flag to admit them.
bisectable ==
  {f \in ToSet(vendorInit) \cup ToSet(vendorLoop) : f.op \in ReadOnly \cup unlockable}
Catalogue == ToSet(steps) \cup bisectable
Catalogued(op) == \E f \in Catalogue : f.op = op
stepFor(op) == CHOOSE f \in Catalogue : f.op = op

\* Mutant: the flags are not asked for.
parseStepsAnyway(ops, allow) == \A op \in ToSet(ops) : ~fdtArm(op) /\ Catalogued(op)

\* --steps: accepted or not.
parseSteps(ops, allow) ==
  \A op \in ToSet(ops) : ~fdtArm(op) /\ Catalogued(op) /\ (op \in ReadOnly \/ op \in allow)

\* --tls and what hangs on it.
validate(cfg) ==
  IF ~cfg.tls THEN ~cfg.psk /\ ~cfg.capture /\ ~cfg.waitFinger
  ELSE /\ cfg.replay \/ cfg.psk
       /\ "d0" \in cfg.allow /\ "d0" \notin ToSet(cfg.steps)
       /\ cfg.capture => "20" \in cfg.allow
       /\ cfg.waitFinger => cfg.capture /\ {"32", "34"} \subseteq cfg.allow
       /\ cfg.touches > 1 => cfg.waitFinger
       /\ cfg.touches \in 0..MaxTouches

\* What the bridge may send at points of its own.
opcodes(cfg) ==
  IF ~cfg.tls THEN {}
  ELSE {"d0"} \cup (cfg.allow \cap {"d4", "20"})
       \cup (IF cfg.waitFinger THEN cfg.allow \cap {"32", "34"} ELSE {})

\* Options.Allow: only what this run can send, whatever flags were given.
Allow(cfg) == {op \in ToSet(cfg.steps) \cup opcodes(cfg) : op \in Registered \ ReadOnly}

-----------------------------------------------------------------------------
(* The replayed device *)

Ack(op) == [kind |-> "ack", op |-> op, ev |-> "none"]
Event(op, ev) == [kind |-> "data", op |-> op, ev |-> ev]
run1Script == <<Event("32", "down"), Ack("a8"), Event("a8", "none")>>
scriptFor(ops) ==
  [i \in DOMAIN ops |->
     [sent |-> stepFor(ops[i]),
      responses |-> CASE ops[i] = "a8" -> run1Script
                      [] ops[i] \in {"e4", "a2", "70", "98", "90", "d4", "20", "82", "a6"} -> <<Ack(ops[i])>>
                      [] OTHER -> <<>>]]
=============================================================================
