----------------------------- MODULE Probe_proofs -----------------------------
(***************************************************************************)
(* For every command line, whatever a device on USB answers and whichever  *)
(* call fails: an EC that does not answer the health check is spared, what *)
(* a run opened it closes, nothing is sent that was not unlocked, the      *)
(* frames of a touch follow each other, and exit status 0 is the truth.    *)
(***************************************************************************)
EXTENDS Probe, SequenceTheorems, FiniteSetTheorems, TLAPS

\* Before anything is sent; and where a run is once the EC has answered 0xa8.
Early == {"main", "prepare", "log", "open", "claim", "health"}
Working == {"step", "request", "handshake", "established", "capture", "image", "imageRead",
            "armDown", "waitDown", "armUp", "waitUp", "collect"}

\* The EC has answered.
Alive == \E j \in 1..Len(wire) : IsIn(j) /\ wire[j].op = "a8"

\* What has been sent by each point of the run, and where drain and collect return to.
WireOK ==
  /\ \E S : wire \in Seq(S)
  /\ StuckECIsSpared
  /\ ~cfg.replay =>
       /\ pc \in Early \/ (pc = "drain" /\ ret = "health") => wire = <<>>
       /\ pc \in {"healthRead", "state"} => Len(wire) = 1
       /\ pc \in Working \/ (pc = "drain" /\ ret = "step") => Alive
  /\ pc = "state" => cfg.readState
  /\ pc = "drain" => ret \in {"health", "step", "stuck"}
  /\ pc = "collect" => ret \in {"step", "d4"}

\* What is held, and what was checked and opened before it.
OwnedOK ==
  /\ NothingIsLeftBehind
  /\ pc \in {"prepare", "log", "open"} => ~Refuses
  /\ pc \in {"main", "prepare", "log", "open"} => held = {}
  /\ pc \in {"log", "open"} => (cfg.tls => tls = "live")
  /\ pc = "open" => logFile
  /\ pc = "teardown" => held = {} /\ port \in {"none", "closed"}

IInv == TypeOK /\ WireOK /\ OwnedOK

-----------------------------------------------------------------------------
(* The history *)

LEMMA Grows ==
  ASSUME NEW S, NEW w \in Seq(S), NEW m
  PROVE  /\ \E T : Append(w, m) \in Seq(T)
         /\ Len(w) \in Nat /\ Len(Append(w, m)) = Len(w) + 1
         /\ DOMAIN Append(w, m) = 1..(Len(w) + 1)
         /\ \A i \in 1..Len(w) : Append(w, m)[i] = w[i]
         /\ Append(w, m)[Len(w) + 1] = m
<1> DEFINE T == S \cup {m}
<1>1. w \in Seq(T)
  <2>1. /\ Len(w) \in Nat /\ w \in [1..Len(w) -> S]
    BY LenProperties
  <2>2. w \in [1..Len(w) -> T]
    BY <2>1
  <2>3. QED
    BY <2>1, <2>2, SeqDef
<1>2. m \in T
  OBVIOUS
<1> HIDE DEF T
<1>3. /\ Append(w, m) \in Seq(T) /\ Len(Append(w, m)) = Len(w) + 1 /\ Len(w) \in Nat
      /\ \A i \in 1..Len(w) : Append(w, m)[i] = w[i]
      /\ Append(w, m)[Len(w) + 1] = m
  BY ONLY <1>1, <1>2, AppendProperties, LenProperties
<1>4. DOMAIN Append(w, m) = 1..(Len(w) + 1)
  BY <1>3, LenProperties
<1>5. QED
  BY <1>3, <1>4

LEMMA GrownWire ==
  ASSUME WireOK, NEW m, wire' = Append(wire, m)
  PROVE  /\ (\E S : wire \in Seq(S))'
         /\ Len(wire) \in Nat /\ Len(wire') = Len(wire) + 1
         /\ DOMAIN wire = 1..Len(wire) /\ DOMAIN wire' = 1..(Len(wire) + 1)
         /\ \A i \in 1..Len(wire) : wire'[i] = wire[i]
         /\ wire'[Len(wire) + 1] = m
<1>1. PICK S : wire \in Seq(S)
  BY DEF WireOK
<1>2. DOMAIN wire = 1..Len(wire)
  BY <1>1, LenProperties
<1>3. QED
  BY <1>1, <1>2, Grows

\* A message more: it is from the EC, or one the EC may be sent.
LEMMA SparedStep ==
  ASSUME WireOK, NEW m, wire' = Append(wire, m), cfg' = cfg,
         ~cfg.replay => \/ m.dir = "in"
                        \/ Alive
                        \/ wire = <<>> /\ m.op = "a8"
                        \/ Len(wire) = 1 /\ m.op = "ae" /\ cfg.readState
  PROVE  StuckECIsSpared' /\ (Alive => Alive')
<1> DEFINE n == Len(wire)
<1>1. /\ n \in Nat /\ Len(wire') = n + 1 /\ DOMAIN wire = 1..n /\ DOMAIN wire' = 1..(n + 1)
      /\ \A i \in 1..n : wire'[i] = wire[i]
      /\ wire'[n + 1] = m
  BY GrownWire
<1>2. Alive => Alive'
  BY <1>1 DEF Alive, IsIn
<1>3. ASSUME ~cfg.replay, NEW i \in 1..(n + 1), wire'[i].dir = "out"
      PROVE  \/ \E j \in 1..(i - 1) : wire'[j].dir = "in" /\ wire'[j].op = "a8"
             \/ i = 1 /\ wire'[i].op = "a8"
             \/ i = 2 /\ wire'[i].op = "ae" /\ cfg.readState
  <2>1. CASE i \in 1..n
    <3>1. \/ \E j \in 1..(i - 1) : wire[j].dir = "in" /\ wire[j].op = "a8"
          \/ i = 1 /\ wire[i].op = "a8"
          \/ i = 2 /\ wire[i].op = "ae" /\ cfg.readState
      BY <1>1, <1>3, <2>1 DEF WireOK, StuckECIsSpared, IsOut, IsIn
    <3>2. QED
      BY <1>1, <2>1, <3>1
  <2>2. CASE i = n + 1
    <3>1. CASE Alive
      BY <1>1, <2>2, <3>1 DEF Alive, IsIn
    <3>2. CASE wire = <<>> /\ m.op = "a8"
      BY <1>1, <2>2, <3>2
    <3>3. CASE Len(wire) = 1 /\ m.op = "ae" /\ cfg.readState
      BY <1>1, <2>2, <3>3
    <3>4. QED
      BY <1>1, <1>3, <2>2, <3>1, <3>2, <3>3
  <2>3. QED
    BY <1>1, <2>1, <2>2
<1>4. StuckECIsSpared'
  BY <1>1, <1>3 DEF StuckECIsSpared, IsOut, IsIn
<1>5. QED
  BY <1>2, <1>4

\* Once the EC is alive anything may follow.
LEMMA WorkingStep ==
  ASSUME WireOK, ~cfg.replay => Alive, cfg' = cfg,
         wire' = wire \/ \E m : wire' = Append(wire, m),
         pc' \notin Early \cup {"healthRead", "state"},
         pc' = "drain" => ret' \in {"step", "stuck"},
         pc' = "collect" => ret' \in {"step", "d4"}
  PROVE  WireOK'
<1>1. CASE wire' = wire
  BY <1>1 DEF WireOK, StuckECIsSpared, Alive, IsIn, IsOut, Early
<1>2. CASE \E m : wire' = Append(wire, m)
  <2>1. PICK m : wire' = Append(wire, m)
    BY <1>2
  <2>2. (\E S : wire \in Seq(S))'
    BY <2>1, GrownWire
  <2>3. StuckECIsSpared' /\ (Alive => Alive')
    BY <2>1, SparedStep
  <2>4. QED
    BY <2>2, <2>3 DEF WireOK, Early
<1>3. QED
  BY <1>1, <1>2

\* Where nothing is sent any more.
LEMMA QuietStep ==
  ASSUME WireOK, UNCHANGED <<cfg, wire>>,
         pc' \in {"stateRead", "stuck", "close", "teardown", "exit"} \/ (pc' = "drain" /\ ret' = "stuck")
  PROVE  WireOK'
BY DEF WireOK, StuckECIsSpared, IsIn, IsOut, Early, Working

\* Where nothing has been sent yet.
LEMMA EarlyStep ==
  ASSUME WireOK, UNCHANGED <<cfg, wire>>, ~cfg.replay => wire = <<>>,
         pc' \in Early \cup {"close"} \/ (pc' = "drain" /\ (ret' = "health" \/ (cfg.replay /\ ret' = "step")))
  PROVE  WireOK'
BY DEF WireOK, StuckECIsSpared, IsIn, IsOut, Early, Working

\* Between Open and CloseTransport nothing is taken or given back.
LEMMA OwnedStays ==
  ASSUME OwnedOK, UNCHANGED <<cfg, owned>>,
         pc' \notin {"main", "prepare", "log", "open", "teardown", "exit"}
  PROVE  OwnedOK'
BY DEF OwnedOK, NothingIsLeftBehind, owned, Refuses

-----------------------------------------------------------------------------
(* Frames *)

LEMMA HealthFrames == stepFor("a8").op = "a8" /\ stepFor("ae").op = "ae"
<1>1. Frame("a8", 2) \in Catalogue /\ Frame("ae", 5) \in Catalogue
  <2>1. Frame("a8", 2) \in ToSet(steps)
    BY DEF steps, ToSet
  <2>2. Frame("ae", 5) \in ToSet(vendorInit)
    <3>1. DOMAIN vendorInit = 1..14 /\ vendorInit[3] = Frame("ae", 5)
      BY DEF vendorInit
    <3>2. QED
      BY <3>1 DEF ToSet
  <2>3. Frame("ae", 5) \in bisectable
    BY <2>2 DEF bisectable, Frame, ReadOnly
  <2>4. QED
    BY <2>1, <2>3 DEF Catalogue
<1>2. \E f \in Catalogue : f.op = "a8"
  BY <1>1 DEF Frame
<1>3. \E f \in Catalogue : f.op = "ae"
  BY <1>1 DEF Frame
<1>4. QED
  BY <1>2, <1>3 DEF stepFor

\* Send sends the frame or ends the run.
LEMMA SendStep ==
  ASSUME NEW f, NEW from, NEW extra, NEW label, Send(f, from, extra, label)
  PROVE  /\ \/ wire' = wire /\ pc' = "close"
            \/ wire' = Append(wire, Sent(f, from)) /\ pc' \in {label, "close"}
         /\ err' \in {err, "refused", "mismatch", "usb"}
BY DEF Send, Goto, Fail

\* A frame once the EC is alive.
LEMMA WorkingSends ==
  ASSUME WireOK, ~cfg.replay => Alive, cfg' = cfg, NEW f, NEW from, NEW extra, NEW label,
         Send(f, from, extra, label),
         label \notin Early \cup {"healthRead", "state", "drain"},
         label = "collect" => ret' \in {"step", "d4"}
  PROVE  WireOK'
<1>1. /\ wire' = wire \/ \E m : wire' = Append(wire, m)
      /\ pc' \in {label, "close"}
  BY SendStep
<1>2. QED
  BY <1>1, WorkingStep DEF Early

\* The two frames that may go to an EC not known to be alive.
LEMMA HealthSends ==
  ASSUME WireOK, checkECResponsive \/ readStuckState
  PROVE  WireOK'
<1>1. CASE checkECResponsive
  <2>1. pc = "health" /\ Send(stepFor("a8"), Vendor, <<>>, "healthRead") /\ UNCHANGED <<cfg, ret>>
    BY <1>1 DEF checkECResponsive
  <2>2. ~cfg.replay => wire = <<>>
    BY <2>1 DEF WireOK, Early
  <2>3. CASE wire' = wire /\ pc' = "close"
    BY <2>1, <2>2, <2>3, EarlyStep
  <2>4. CASE wire' = Append(wire, Sent(stepFor("a8"), Vendor)) /\ pc' \in {"healthRead", "close"}
    <3> DEFINE m == Sent(stepFor("a8"), Vendor)
    <3>1. m.op = "a8"
      BY HealthFrames DEF Sent
    <3>2. wire' = Append(wire, m)
      BY <2>4
    <3> HIDE DEF m
    <3>3. StuckECIsSpared' /\ (\E S : wire \in Seq(S))' /\ Len(wire') = Len(wire) + 1
      BY <2>1, <2>2, <3>1, <3>2, SparedStep, GrownWire
    <3>4. QED
      BY <2>1, <2>2, <2>4, <3>3 DEF WireOK, Early, Working
  <2>5. QED
    BY <2>1, <2>3, <2>4, SendStep
<1>2. CASE readStuckState
  <2>1. pc = "state" /\ Send(stepFor("ae"), Vendor, <<>>, "stateRead") /\ UNCHANGED <<cfg, ret>>
    BY <1>2 DEF readStuckState
  <2>2. cfg.readState /\ (~cfg.replay => Len(wire) = 1)
    BY <2>1 DEF WireOK
  <2>3. CASE wire' = wire /\ pc' = "close"
    BY <2>1, <2>3, QuietStep
  <2>4. CASE wire' = Append(wire, Sent(stepFor("ae"), Vendor)) /\ pc' \in {"stateRead", "close"}
    <3> DEFINE m == Sent(stepFor("ae"), Vendor)
    <3>1. m.op = "ae"
      BY HealthFrames DEF Sent
    <3>2. wire' = Append(wire, m)
      BY <2>4
    <3> HIDE DEF m
    <3>3. StuckECIsSpared' /\ (\E S : wire \in Seq(S))'
      BY <2>1, <2>2, <3>1, <3>2, SparedStep, GrownWire
    <3>4. QED
      BY <2>4, <3>3 DEF WireOK, Early, Working
  <2>5. QED
    BY <2>1, <2>3, <2>4, SendStep
<1>3. QED
  BY <1>1, <1>2

-----------------------------------------------------------------------------
(* What has been sent, action by action *)

LEMMA WireBefore ==
  ASSUME WireOK, main \/ prepareTLS \/ OpenLog \/ Open \/ Claim \/ ClaimFails
  PROVE  WireOK'
<1>1. UNCHANGED <<cfg, wire>> /\ (~cfg.replay => wire = <<>>)
  BY DEF main, prepareTLS, OpenLog, Open, Claim, ClaimFails, WireOK, Early
<1>2. \/ pc' \in Early \cup {"close"}
      \/ pc' = "drain" /\ (ret' = "health" \/ (cfg.replay /\ ret' = "step"))
  BY DEF main, prepareTLS, OpenLog, Open, Claim, ClaimFails, Goto, Fail, StartDrain, Early
<1>3. QED
  BY <1>1, <1>2, EarlyStep

LEMMA WireDrains ==
  ASSUME WireOK, drain
  PROVE  WireOK'
<1>1. /\ pc = "drain" /\ UNCHANGED <<cfg, ret, wire>> /\ pc' \in {"drain", ret}
  BY DEF drain, Goto
<1>2. ret \in {"health", "step", "stuck"}
  BY <1>1 DEF WireOK
<1>3. QED
  BY <1>1, <1>2 DEF WireOK, StuckECIsSpared, IsIn, IsOut, Alive, Early, Working

LEMMA WireCollects ==
  ASSUME WireOK, collect
  PROVE  WireOK'
<1>1. /\ pc = "collect" /\ UNCHANGED <<cfg, ret, wire>>
      /\ pc' \in {"collect", "close"} \/ pc' = (IF ret = "d4" THEN "capture" ELSE "drain")
  BY DEF collect, Goto, Fail
<1>2. ret \in {"step", "d4"} /\ (~cfg.replay => Alive)
  BY <1>1 DEF WireOK, Working
<1>3. QED
  BY <1>1, <1>2, WorkingStep DEF Early

LEMMA WireHealth ==
  ASSUME WireOK, HealthReads
  PROVE  WireOK'
<1>1. pc = "healthRead" /\ cfg' = cfg
  BY DEF HealthReads
<1>2. PICK t : \/ wire' = wire /\ pc' = "close"
               \/ wire' = wire /\ pc' = "state" /\ cfg.readState
               \/ wire' = wire /\ pc' = "healthRead"
               \/ /\ Answered(t) /\ wire' = Append(wire, Heard(t)) /\ ret' = "step"
                  /\ pc' \in {"collect", "drain"}
  BY DEF HealthReads, Goto, Fail
<1>3. CASE wire' = wire /\ pc' = "close"
  BY <1>1, <1>3, QuietStep
<1>4. CASE wire' = wire /\ (pc' = "healthRead" \/ (pc' = "state" /\ cfg.readState))
  BY <1>1, <1>4 DEF WireOK, StuckECIsSpared, IsIn, IsOut, Early, Working
<1>5. CASE Answered(t) /\ wire' = Append(wire, Heard(t)) /\ ret' = "step" /\ pc' \in {"collect", "drain"}
  <2> DEFINE m == Heard(t)
  <2>1. t.op = "a8"
    BY <1>5 DEF Answered, Reply
  <2>2. m.dir = "in" /\ m.op = "a8"
    BY <2>1 DEF Heard
  <2>3. wire' = Append(wire, m)
    BY <1>5
  <2> HIDE DEF m
  <2>4. StuckECIsSpared'
    BY <1>1, <2>2, <2>3, SparedStep
  <2>5. /\ (\E S : wire \in Seq(S))' /\ Len(wire) \in Nat /\ Len(wire') = Len(wire) + 1
        /\ wire'[Len(wire) + 1] = m
    BY <2>3, GrownWire
  <2>6. Alive'
    BY <2>2, <2>5 DEF Alive, IsIn
  <2>7. QED
    BY <1>5, <2>4, <2>5, <2>6 DEF WireOK, Early, Working
<1>6. QED
  BY <1>2, <1>3, <1>4, <1>5

LEMMA WireStuck ==
  ASSUME WireOK, StateReads \/ Stuck
  PROVE  WireOK'
<1>1. UNCHANGED <<cfg, wire>>
  BY DEF StateReads, Stuck
<1>2. pc' \in {"stateRead", "close"} \/ (pc' = "drain" /\ ret' = "stuck")
  BY DEF StateReads, Stuck, Goto, Fail
<1>3. QED
  BY <1>1, <1>2, QuietStep

LEMMA WireSends ==
  ASSUME WireOK, Step \/ runTLS \/ sendAndCollect \/ captureFrame \/ ArmDown \/ ArmUp
  PROVE  WireOK'
<1>1. pc \in Working /\ cfg' = cfg
  BY DEF Step, runTLS, sendAndCollect, captureFrame, ArmDown, ArmUp, Working
<1>2. ~cfg.replay => Alive
  BY <1>1 DEF WireOK
<1>3. CASE Step
  BY <1>1, <1>2, <1>3, WorkingSends DEF Step, Early
<1>4. CASE runTLS
  BY <1>1, <1>2, <1>4, WorkingSends DEF runTLS, Early
<1>5. CASE sendAndCollect
  BY <1>1, <1>2, <1>5, WorkingSends DEF sendAndCollect, Early
<1>6. CASE captureFrame
  BY <1>1, <1>2, <1>6, WorkingSends DEF captureFrame, Early
<1>7. CASE ArmDown
  BY <1>1, <1>2, <1>7, WorkingSends DEF ArmDown, Early
<1>8. CASE ArmUp
  BY <1>1, <1>2, <1>8, WorkingSends DEF ArmUp, Early
<1>9. QED
  BY <1>3, <1>4, <1>5, <1>6, <1>7, <1>8

LEMMA WireWorks ==
  ASSUME WireOK, StepsDone \/ Handshake \/ Capture \/ ImageReads \/ WaitDown \/ WaitUp \/ WaitExpires
  PROVE  WireOK'
<1>1. pc \in Working /\ cfg' = cfg
  BY DEF StepsDone, Handshake, Capture, ImageReads, WaitDown, WaitUp, WaitExpires, Working
<1>2. ~cfg.replay => Alive
  BY <1>1 DEF WireOK
<1>3. wire' = wire \/ \E m : wire' = Append(wire, m)
  BY DEF StepsDone, Handshake, Capture, ImageReads, WaitDown, WaitUp, WaitExpires
<1>4. pc' \in (Working \cup {"close"}) \ {"collect"}
  BY DEF StepsDone, Handshake, Capture, ImageReads, WaitDown, WaitUp, WaitExpires, Goto, Fail, Working
<1>5. QED
  BY <1>1, <1>2, <1>3, <1>4, WorkingStep DEF Early, Working

LEMMA WireCloses ==
  ASSUME WireOK, CloseTransport \/ Teardown
  PROVE  WireOK'
<1>1. UNCHANGED <<cfg, wire>> /\ pc' \in {"close", "teardown", "exit"}
  BY DEF CloseTransport, Teardown
<1>2. QED
  BY <1>1, QuietStep

-----------------------------------------------------------------------------
(* What is held, action by action *)

LEMMA OwnedBefore ==
  ASSUME OwnedOK, main \/ prepareTLS \/ OpenLog \/ Open
  PROVE  OwnedOK'
<1>1. CASE main
  BY <1>1 DEF main, Goto, Fail, OwnedOK, NothingIsLeftBehind, owned, Refuses
<1>2. CASE prepareTLS
  BY <1>2 DEF prepareTLS, Goto, Fail, OwnedOK, NothingIsLeftBehind, Refuses
<1>3. CASE OpenLog
  BY <1>3 DEF OpenLog, Goto, Fail, OwnedOK, NothingIsLeftBehind, Refuses
<1>4. CASE Open
  <2>1. /\ held = {} /\ ~Refuses /\ (cfg.tls => tls = "live") /\ logFile
    BY <1>4 DEF Open, OwnedOK
  <2>2. UNCHANGED <<cfg, logFile, tls>> /\ pc' \in {"drain", "close", "claim"}
    BY <1>4 DEF Open, Goto, Fail
  <2>3. held' = {} \/ (~cfg.replay /\ held' = {"context"})
    BY <1>4, <2>1 DEF Open
  <2>4. /\ Resources[2] # "context" /\ Resources[3] # "context" /\ Resources[4] # "context"
    BY DEF Resources
  <2>5. \A i \in 2..4 : Resources[i] \notin held'
    BY <2>3, <2>4
  <2>6. QED
    BY <2>1, <2>2, <2>3, <2>5 DEF OwnedOK, NothingIsLeftBehind, Refuses
<1>5. QED
  BY <1>1, <1>2, <1>3, <1>4

LEMMA OwnedClaim ==
  ASSUME OwnedOK, Claim
  PROVE  OwnedOK'
<1>1. PICK n \in 2..4 : /\ Resources[n - 1] \in held /\ held' = held \cup {Resources[n]}
                        /\ IF n < 4 THEN UNCHANGED <<pc, port>> ELSE pc' = "drain"
  BY DEF Claim
<1>2. pc = "claim" /\ UNCHANGED <<cfg, logFile, tls, ec>>
  BY DEF Claim
<1>3. ~Refuses /\ ~cfg.replay /\ logFile /\ (cfg.tls => tls = "live")
  BY <1>1 DEF OwnedOK, NothingIsLeftBehind
<1>4. ASSUME NEW i \in 2..4, Resources[i] \in held'
      PROVE  Resources[i - 1] \in held'
  <2>1. CASE Resources[i] \in held
    BY <1>1, <2>1 DEF OwnedOK, NothingIsLeftBehind
  <2>2. CASE Resources[i] = Resources[n]
    <3>1. i = n
      BY <2>2 DEF Resources
    <3>2. QED
      BY <1>1, <3>1
  <2>3. QED
    BY <1>1, <1>4, <2>1, <2>2
<1>5. pc' \in {"claim", "drain"}
  BY <1>1, <1>2
<1>6. QED
  BY <1>2, <1>3, <1>4, <1>5 DEF OwnedOK, NothingIsLeftBehind, Refuses

LEMMA OwnedCloses ==
  ASSUME OwnedOK, CloseTransport \/ Teardown
  PROVE  OwnedOK'
<1>1. CASE CloseTransport /\ held = {}
  <2>1. /\ pc' = "teardown" /\ held' = {} /\ port' \in {"none", "closed"}
        /\ UNCHANGED <<cfg, logFile, tls, ec>>
    BY <1>1 DEF CloseTransport
  <2>2. QED
    BY <2>1 DEF OwnedOK, NothingIsLeftBehind, Refuses
<1>2. CASE CloseTransport /\ held # {}
  <2>1. PICK n \in 1..4 : /\ Resources[n] \in held
                          /\ \A j \in 1..4 : Resources[j] \in held => j <= n
                          /\ held' = held \ {Resources[n]} /\ UNCHANGED <<pc, port>>
    BY <1>2 DEF CloseTransport
  <2>2. pc' = "close" /\ UNCHANGED <<cfg, logFile, tls, ec>>
    BY <1>2, <2>1 DEF CloseTransport
  <2>3. ~Refuses /\ ~cfg.replay /\ logFile /\ (cfg.tls => tls = "live")
    BY <1>2 DEF OwnedOK, NothingIsLeftBehind
  <2>4. ASSUME NEW i \in 2..4, Resources[i] \in held'
        PROVE  Resources[i - 1] \in held'
    <3>1. i <= n /\ Resources[i - 1] \in held
      BY <2>1, <2>4 DEF OwnedOK, NothingIsLeftBehind
    <3>2. Resources[i - 1] # Resources[n]
      BY <3>1 DEF Resources
    <3>3. QED
      BY <2>1, <3>1, <3>2
  <2>5. QED
    BY <2>2, <2>3, <2>4 DEF OwnedOK, NothingIsLeftBehind, Refuses
<1>3. CASE Teardown
  <2>1. held = {} /\ port \in {"none", "closed"}
    BY <1>3 DEF Teardown, OwnedOK
  <2>2. /\ pc' = "exit" /\ logFile' = FALSE /\ tls' # "live" /\ ec' # "live"
        /\ UNCHANGED <<cfg, held, port>>
    BY <1>3 DEF Teardown
  <2>3. QED
    BY <2>1, <2>2 DEF OwnedOK, NothingIsLeftBehind
<1>4. QED
  BY <1>1, <1>2, <1>3

LEMMA OwnedBetween ==
  ASSUME OwnedOK, WireOK,
         \/ ClaimFails \/ drain \/ collect \/ checkECResponsive \/ HealthReads \/ readStuckState
         \/ StateReads \/ Stuck \/ Step \/ StepsDone \/ runTLS \/ Handshake \/ sendAndCollect \/ Capture
         \/ captureFrame \/ ImageReads \/ ArmDown \/ WaitDown \/ ArmUp \/ WaitUp \/ WaitExpires
  PROVE  OwnedOK'
<1> DEFINE Ends == {"main", "prepare", "log", "open", "teardown", "exit"}
<1>1. CASE ClaimFails \/ HealthReads \/ StateReads \/ Stuck \/ StepsDone \/ Handshake \/ Capture
           \/ ImageReads \/ WaitExpires
  <2>1. UNCHANGED <<cfg, owned>> /\ pc' \notin Ends
    BY <1>1 DEF ClaimFails, HealthReads, StateReads, Stuck, StepsDone, Handshake, Capture, ImageReads,
       WaitExpires, Goto, Fail
  <2>2. QED
    BY <2>1, OwnedStays
<1>2. CASE WaitDown \/ WaitUp
  <2>1. UNCHANGED <<cfg, owned>> /\ pc' \notin Ends
    BY <1>2 DEF WaitDown, WaitUp, Goto, Fail
  <2>2. QED
    BY <2>1, OwnedStays
<1>3. CASE drain \/ collect
  <2>1. UNCHANGED <<cfg, owned>> /\ (pc = "drain" => ret \in {"health", "step", "stuck"})
    BY <1>3 DEF drain, collect, WireOK
  <2>2. pc' \notin Ends
    BY <1>3, <2>1 DEF drain, collect, Goto, Fail
  <2>3. QED
    BY <2>1, <2>2, OwnedStays
<1>4. CASE checkECResponsive \/ readStuckState \/ Step \/ runTLS \/ sendAndCollect \/ captureFrame
           \/ ArmDown \/ ArmUp
  <2>1. UNCHANGED <<cfg, owned>>
    BY <1>4 DEF checkECResponsive, readStuckState, Step, runTLS, sendAndCollect, captureFrame, ArmDown, ArmUp
  <2>2. PICK f, from, extra, label :
          /\ Send(f, from, extra, label)
          /\ label \in {"healthRead", "stateRead", "collect", "handshake", "imageRead", "waitDown", "waitUp"}
    BY <1>4, Zenon DEF checkECResponsive, readStuckState, Step, runTLS, sendAndCollect, captureFrame, ArmDown, ArmUp
  <2>3. pc' \notin Ends
    BY <2>2, SendStep
  <2>4. QED
    BY <2>1, <2>3, OwnedStays
<1>5. QED
  BY <1>1, <1>2, <1>3, <1>4

-----------------------------------------------------------------------------
(* Types *)

LEMMA TypesBefore ==
  ASSUME TypeOK, main \/ prepareTLS \/ OpenLog \/ Open \/ ClaimFails
  PROVE  TypeOK'
<1>1. "context" \in ToSet(Resources)
  BY DEF Resources, ToSet
<1>2. /\ UNCHANGED <<cfg, k, touch>>
      /\ pc' \in {"prepare", "log", "open", "drain", "claim", "close"}
      /\ err' \in {err, "flags", "preflight", "log", "rehearsal", "attach"}
      /\ ret' \in {ret, "step"} /\ reads' \in {reads, 0}
  BY DEF main, prepareTLS, OpenLog, Open, ClaimFails, Goto, Fail, StartDrain
<1>3. /\ port' \in {port, "replay", "peer"} /\ held' \in {held, {"context"}}
      /\ tls' \in {tls, "live"} /\ ec' \in {ec, "live"}
  BY DEF main, prepareTLS, OpenLog, Open, ClaimFails, owned
<1>4. logFile' = logFile \/ logFile' = TRUE
  BY Zenon DEF main, prepareTLS, OpenLog, Open, ClaimFails, owned
<1>5. logFile' \in BOOLEAN
  BY <1>4, Zenon DEF TypeOK
<1>6. held' \in SUBSET ToSet(Resources)
  BY <1>1, <1>3 DEF TypeOK
<1>7. reads' \in Nat
  BY <1>2 DEF TypeOK
<1>8. QED
  BY <1>2, <1>3, <1>5, <1>6, <1>7 DEF TypeOK

LEMMA TypesClaim ==
  ASSUME TypeOK, Claim
  PROVE  TypeOK'
<1>1. \A i \in 1..4 : Resources[i] \in ToSet(Resources)
  BY DEF Resources, ToSet
<1>2. PICK n \in 2..4 : held' = held \cup {Resources[n]}
  BY DEF Claim
<1>3. held' \in SUBSET ToSet(Resources)
  BY <1>1, <1>2 DEF TypeOK
<1>4. pc' \in {"claim", "drain"} /\ port' \in {port, "usb"} /\ reads' \in {reads, 0} /\ ret' \in {ret, "health"}
  BY DEF Claim, StartDrain
<1>5. UNCHANGED <<cfg, k, touch, err, logFile, tls, ec>>
  BY DEF Claim
<1>6. QED
  BY <1>3, <1>4, <1>5 DEF TypeOK

LEMMA TypesReads ==
  ASSUME TypeOK, WireOK, drain \/ collect \/ HealthReads \/ StateReads
  PROVE  TypeOK'
<1>1. UNCHANGED <<cfg, k, touch, owned>>
  BY DEF drain, collect, HealthReads, StateReads
<1>2. reads' \in Nat /\ ret' \in {ret, "step", "stuck"} /\ err' \in {err, "usb", "unresponsive"}
  <2>1. reads \in Nat
    BY DEF TypeOK
  <2>2. QED
    BY <2>1 DEF drain, collect, HealthReads, StateReads, Goto, Fail
<1>3. pc' \in {pc, "close", "drain", "capture", "collect", "state", "health", "step", "stuck"}
  <2>1. CASE drain
    <3>1. ret \in {"health", "step", "stuck"}
      BY <2>1 DEF drain, WireOK
    <3>2. QED
      BY <2>1, <3>1 DEF drain, Goto
  <2>2. CASE collect \/ HealthReads \/ StateReads
    BY <2>2 DEF collect, HealthReads, StateReads, Goto, Fail
  <2>3. QED
    BY <2>1, <2>2
<1>4. QED
  BY <1>1, <1>2, <1>3 DEF TypeOK, owned

LEMMA TypesSends ==
  ASSUME TypeOK, \/ checkECResponsive \/ readStuckState \/ Step \/ runTLS \/ sendAndCollect \/ captureFrame
                 \/ ArmDown \/ ArmUp
  PROVE  TypeOK'
<1>1. UNCHANGED <<cfg, touch, owned>>
  BY DEF checkECResponsive, readStuckState, Step, runTLS, sendAndCollect, captureFrame, ArmDown, ArmUp
<1>2. k' \in {k, k + 1} /\ reads' \in {reads, 0} /\ ret' \in {ret, "step", "d4"}
  BY DEF checkECResponsive, readStuckState, Step, runTLS, sendAndCollect, captureFrame, ArmDown, ArmUp
<1>3. PICK f, from, extra, label :
        /\ Send(f, from, extra, label)
        /\ label \in {"healthRead", "stateRead", "collect", "handshake", "imageRead", "waitDown", "waitUp"}
  BY Zenon DEF checkECResponsive, readStuckState, Step, runTLS, sendAndCollect, captureFrame, ArmDown, ArmUp
<1>4. pc' \in {label, "close"} /\ err' \in {err, "refused", "mismatch", "usb"}
  BY <1>3, SendStep
<1>5. k' \in Nat /\ reads' \in Nat
  BY <1>2 DEF TypeOK
<1>6. QED
  BY <1>1, <1>2, <1>3, <1>4, <1>5 DEF TypeOK, owned

LEMMA TypesWaits ==
  ASSUME TypeOK, WireOK, WaitDown \/ WaitUp
  PROVE  TypeOK'
<1>1. UNCHANGED <<cfg, ret, reads, k, owned>>
  BY DEF WaitDown, WaitUp
<1>2. pc' \in {pc, "image", "armDown", "close"} /\ err' \in {err, "event", "usb"}
  BY DEF WaitDown, WaitUp, Goto, Fail
<1>3. Len(wire) + 1 \in Nat /\ touch \in [n : Nat, attempt : 0..MaxBaseRearms, thresholds : Nat, down : Nat]
  BY LenProperties DEF WireOK, TypeOK
<1>4. \/ touch' = touch
      \/ touch' = [touch EXCEPT !.down = Len(wire) + 1]
      \/ /\ touch.attempt < MaxBaseRearms
         /\ touch' = [touch EXCEPT !.attempt = @ + 1, !.thresholds = Len(wire) + 1]
      \/ touch' = [n |-> touch.n + 1, attempt |-> 0, down |-> 0, thresholds |-> Len(wire) + 1]
  BY DEF WaitDown, WaitUp, NextTouch
<1>5. touch' \in [n : Nat, attempt : 0..MaxBaseRearms, thresholds : Nat, down : Nat]
  <2> DEFINE e == Len(wire) + 1
  <2>1. e \in Nat /\ touch.n + 1 \in Nat /\ 0 \in 0..MaxBaseRearms /\ 0 \in Nat
        /\ (touch.attempt < MaxBaseRearms => touch.attempt + 1 \in 0..MaxBaseRearms)
    BY <1>3, ReadBounds
  <2> HIDE DEF e
  <2>2. CASE touch' = touch \/ touch' = [touch EXCEPT !.down = e]
    BY <1>3, <2>1, <2>2
  <2>3. CASE touch.attempt < MaxBaseRearms /\ touch' = [touch EXCEPT !.attempt = @ + 1, !.thresholds = e]
    BY <1>3, <2>1, <2>3
  <2>4. CASE touch' = [n |-> touch.n + 1, attempt |-> 0, down |-> 0, thresholds |-> e]
    BY <1>3, <2>1, <2>4
  <2>5. QED
    BY <1>4, <2>2, <2>3, <2>4 DEF e
<1>6. QED
  BY <1>1, <1>2, <1>5 DEF TypeOK, owned

LEMMA TypesElse ==
  ASSUME TypeOK, Stuck \/ StepsDone \/ Handshake \/ Capture \/ ImageReads \/ WaitExpires
  PROVE  TypeOK'
<1>1. UNCHANGED <<cfg, ret, reads, k, touch, owned>>
  BY DEF Stuck, StepsDone, Handshake, Capture, ImageReads, WaitExpires
<1>2. /\ pc' \in {"close", "request", "established", "capture", "armDown", "image", "armUp"}
      /\ err' \in {err, "unresponsive", "refused", "tls", "image", "noFinger"}
  BY DEF Stuck, StepsDone, Handshake, Capture, ImageReads, WaitExpires, Goto, Fail
<1>3. QED
  BY <1>1, <1>2 DEF TypeOK, owned

LEMMA TypesCloses ==
  ASSUME TypeOK, CloseTransport \/ Teardown
  PROVE  TypeOK'
<1>1. held' \subseteq held /\ pc' \in {"close", "teardown", "exit"} /\ port' \in {port, "none", "closed"}
  BY DEF CloseTransport, Teardown
<1>2. /\ UNCHANGED <<cfg, ret, reads, k, touch, err>>
      /\ tls' \in {tls, "closed"} /\ ec' \in {ec, "closed"}
  BY DEF CloseTransport, Teardown
<1>3. logFile' = logFile \/ logFile' = FALSE
  BY Zenon DEF CloseTransport, Teardown
<1>4. logFile' \in BOOLEAN
  BY <1>3, Zenon DEF TypeOK
<1>5. held' \in SUBSET ToSet(Resources)
  BY <1>1 DEF TypeOK
<1>6. QED
  BY <1>1, <1>2, <1>4, <1>5 DEF TypeOK

-----------------------------------------------------------------------------
(* The specification *)

LEMMA InitIInv ==
  ASSUME Init
  PROVE  IInv
<1>1. TypeOK
  <2>1. touch \in [n : Nat, attempt : 0..MaxBaseRearms, thresholds : Nat, down : Nat]
    BY ReadBounds DEF Init, Vendor
  <2>2. /\ cfg \in Configs /\ pc = "main" /\ ret = "main" /\ reads = 0 /\ k = 1 /\ err = "nil"
        /\ port = "none" /\ held = {} /\ tls = "none" /\ ec = "none"
    BY DEF Init
  <2>3. logFile \in BOOLEAN
    BY Zenon DEF Init
  <2>4. QED
    BY <2>1, <2>2, <2>3 DEF TypeOK
<1>2. <<>> \in Seq({}) /\ DOMAIN <<>> = {} /\ Len(<<>>) = 0
  OBVIOUS
<1>3. WireOK
  BY <1>2 DEF Init, WireOK, StuckECIsSpared, Early, Working
<1>4. OwnedOK
  BY DEF Init, OwnedOK, NothingIsLeftBehind
<1>5. QED
  BY <1>1, <1>3, <1>4 DEF IInv

LEMMA NextIInv ==
  ASSUME IInv, [Next]_vars
  PROVE  IInv'
<1>1. CASE main \/ prepareTLS \/ OpenLog \/ Open
  BY <1>1, TypesBefore, WireBefore, OwnedBefore DEF IInv
<1>2. CASE Claim
  BY <1>2, TypesClaim, WireBefore, OwnedClaim DEF IInv
<1>3. CASE ClaimFails
  BY <1>3, TypesBefore, WireBefore, OwnedBetween DEF IInv
<1>4. CASE drain \/ collect \/ HealthReads \/ StateReads
  BY <1>4, TypesReads, WireDrains, WireCollects, WireHealth, WireStuck, OwnedBetween DEF IInv
<1>5. CASE checkECResponsive \/ readStuckState
  BY <1>5, TypesSends, HealthSends, OwnedBetween DEF IInv
<1>6. CASE Step \/ runTLS \/ sendAndCollect \/ captureFrame \/ ArmDown \/ ArmUp
  BY <1>6, TypesSends, WireSends, OwnedBetween DEF IInv
<1>7. CASE WaitDown \/ WaitUp
  BY <1>7, TypesWaits, WireWorks, OwnedBetween DEF IInv
<1>8. CASE StepsDone \/ Handshake \/ Capture \/ ImageReads \/ WaitExpires
  BY <1>8, TypesElse, WireWorks, OwnedBetween DEF IInv
<1>9. CASE Stuck
  BY <1>9, TypesElse, WireStuck, OwnedBetween DEF IInv
<1>10. CASE CloseTransport \/ Teardown
  BY <1>10, TypesCloses, WireCloses, OwnedCloses DEF IInv
<1>11. CASE UNCHANGED vars
  BY <1>11 DEF vars, run, owned, IInv, TypeOK, WireOK, StuckECIsSpared, IsIn, IsOut, Alive,
     OwnedOK, NothingIsLeftBehind, Refuses
<1>12. QED
  BY <1>1, <1>2, <1>3, <1>4, <1>5, <1>6, <1>7, <1>8, <1>9, <1>10, <1>11 DEF Next

LEMMA ProbeInductive == Spec => []IInv
<1>1. IInv /\ [Next]_vars => IInv'
  BY NextIInv
<1>2. QED
  BY InitIInv, <1>1, PTL DEF Spec

\* Every variable of a run keeps its type, and the re-arms of one touch stay
\* within their bound (touchOnce).
THEOREM ProbeTypeOK == Spec => []TypeOK
<1>1. IInv => TypeOK
  BY DEF IInv
<1>2. QED
  BY ProbeInductive, <1>1, PTL

\* For every command line and whatever is read from USB: an EC that has not
\* answered the health check has received 0xa8 and at most one 0xae, the
\* latter only with --read-state (runBisect, checkECResponsive, readStuckState).
THEOREM ProbeStuckECIsSpared == Spec => []StuckECIsSpared
<1>1. IInv => StuckECIsSpared
  BY DEF IInv, WireOK
<1>2. QED
  BY ProbeInductive, <1>1, PTL

\* For every command line and wherever a run ends: the USB was opened for a
\* run that can work, and nothing that was opened is left open (OpenUSB,
\* Transport.Close, the deferred calls of main).
THEOREM ProbeNothingIsLeftBehind == Spec => []NothingIsLeftBehind
<1>1. IInv => NothingIsLeftBehind
  BY DEF IInv, OwnedOK
<1>2. QED
  BY ProbeInductive, <1>1, PTL
-----------------------------------------------------------------------------
(* What the gate admits: the checks before the run are enough *)

TLSPlaces == {"handshake", "established", "capture", "image", "imageRead",
              "armDown", "waitDown", "armUp", "waitUp"}
FingerPlaces == {"armDown", "waitDown", "armUp", "waitUp"}
InTLS == pc \in TLSPlaces \/ (pc = "collect" /\ ret = "d4")
Requested == \E j \in 1..Len(wire) : wire[j].op = "d0"

\* Where a run is tells which of its flags were checked; a replay is in step.
PlaceOK ==
  /\ k >= 1
  /\ pc \notin {"main", "close", "teardown", "exit"} => ~Refuses
  /\ pc \in {"main", "prepare", "log", "open"} => k = 1 /\ next = 1
  /\ port = "replay" =>
       /\ next = k /\ cfg.replay /\ ~cfg.tls
       /\ pc \in {"step", "close"} \/ (pc \in {"drain", "collect"} /\ ret = "step")
  /\ InTLS \/ pc = "request" => cfg.tls
  /\ pc = "established" => "d4" \in opcodes(cfg)
  /\ pc \in {"image", "imageRead"} \cup FingerPlaces => cfg.capture
  /\ pc \in FingerPlaces => cfg.waitFinger

GateOK == OnlyWhatWasUnlocked /\ PlaceOK /\ (InTLS => Requested)

\* The catalogue holds frames of the registry, each with its payload.
LEMMA CatalogueIsLegal ==
  ASSUME NEW f \in Catalogue
  PROVE  f.op \in Registered /\ f.op \notin Destructive /\ f.len = PayloadExactly[f.op]
<1> DEFINE Ops == {"a8", "a6", "ae", "82"} \cup (StateChanging \ {"f4"})
<1>1. \A op \in Ops : op \in Registered /\ op \notin Destructive
  BY BuildTag DEF Registered, StateChanging, ReadOnly, Arms
<1>2. \A i \in 1..14 : vendorInit[i].op \in Ops /\ vendorInit[i].len = PayloadExactly[vendorInit[i].op]
  <2>1. \A i \in 1..14 : i \in 1..7 \/ i \in 8..14
    OBVIOUS
  <2>2. \A i \in 1..7 : vendorInit[i].op \in Ops /\ vendorInit[i].len = PayloadExactly[vendorInit[i].op]
    BY DEF vendorInit, Frame, PayloadExactly, StateChanging, Arms
  <2>3. \A i \in 8..14 : vendorInit[i].op \in Ops /\ vendorInit[i].len = PayloadExactly[vendorInit[i].op]
    BY DEF vendorInit, Frame, PayloadExactly, StateChanging, Arms
  <2>4. QED
    BY <2>1, <2>2, <2>3
<1>3. \A i \in 1..3 : vendorLoop[i].op \in Ops /\ vendorLoop[i].len = PayloadExactly[vendorLoop[i].op]
  BY DEF vendorLoop, Frame, PayloadExactly, StateChanging, Arms
<1>4. steps[1].op \in Ops /\ steps[1].len = PayloadExactly[steps[1].op]
  BY DEF steps, Frame, PayloadExactly, StateChanging, Arms
<1>5. \/ \E i \in 1..14 : f = vendorInit[i]
      \/ \E i \in 1..3 : f = vendorLoop[i]
      \/ f = steps[1]
  <2>1. DOMAIN vendorInit = 1..14 /\ DOMAIN vendorLoop = 1..3 /\ DOMAIN steps = 1..1
    BY DEF vendorInit, vendorLoop, steps
  <2>2. f \in ToSet(vendorInit) \/ f \in ToSet(vendorLoop) \/ f \in ToSet(steps)
    BY DEF Catalogue, bisectable
  <2>3. QED
    BY <2>1, <2>2 DEF ToSet
<1> HIDE DEF Ops
<1>6. f.op \in Ops /\ f.len = PayloadExactly[f.op]
  BY <1>2, <1>3, <1>4, <1>5
<1>7. QED
  BY <1>1, <1>6

LEMMA StepIsLegal ==
  ASSUME NEW op, Catalogued(op)
  PROVE  /\ stepFor(op).op = op /\ stepFor(op).len = PayloadExactly[op]
         /\ op \in Registered /\ op \notin Destructive
<1>1. stepFor(op) \in Catalogue /\ stepFor(op).op = op
  BY DEF Catalogued, stepFor
<1>2. QED
  BY <1>1, CatalogueIsLegal

\* What the run sends at points of its own is in the catalogue.
LEMMA OwnSteps == \A op \in {"a8", "ae", "d0", "d4", "20"} : Catalogued(op)
<1>1. Frame("a8", 2) \in ToSet(steps)
  BY DEF steps, ToSet
<1>2. \A i \in 1..14 : vendorInit[i] \in ToSet(vendorInit)
  <2>1. DOMAIN vendorInit = 1..14
    BY DEF vendorInit
  <2>2. QED
    BY <2>1 DEF ToSet
<1>3. vendorInit[3] = Frame("ae", 5) /\ vendorInit[12] = Frame("d0", 2) /\ vendorInit[13] = Frame("d4", 2)
  BY DEF vendorInit
<1>4. Frame("20", 2) \in ToSet(vendorLoop)
  BY DEF vendorLoop, ToSet
<1>5. {Frame("ae", 5), Frame("d0", 2), Frame("d4", 2), Frame("20", 2)} \subseteq bisectable
  <2>1. /\ Frame("ae", 5) \in ToSet(vendorInit) /\ Frame("d0", 2) \in ToSet(vendorInit)
        /\ Frame("d4", 2) \in ToSet(vendorInit)
    <3>1. vendorInit[3] \in ToSet(vendorInit) /\ vendorInit[12] \in ToSet(vendorInit) /\ vendorInit[13] \in ToSet(vendorInit)
      BY <1>2
    <3>2. QED
      BY <1>3, <3>1
  <2>2. QED
    BY <1>4, <2>1 DEF bisectable, Frame, ReadOnly, unlockable
<1>6. QED
  BY <1>1, <1>5 DEF Catalogue, Catalogued, Frame

\* The two arms, whose payloads are made and not looked up.
LEMMA ArmsAreLegal ==
  \A op \in {"32", "34"} : /\ Arm(op).op = op /\ Arm(op).len = PayloadExactly[op]
                           /\ op \in Registered /\ op \notin Destructive
<1>1. \A op \in {"32", "34"} : op \in Registered /\ op \notin Destructive
  BY BuildTag DEF Registered, StateChanging, Arms
<1>2. \A op \in {"32", "34"} : Arm(op).op = op /\ Arm(op).len = PayloadExactly[op]
  BY DEF Arm, Frame, EncodeFDTArm, PayloadExactly, StateChanging, Arms
<1>3. QED
  BY <1>1, <1>2

Unlocked(op) == op \notin ReadOnly => op \in cfg.allow /\ op \in ToSet(cfg.steps) \cup opcodes(cfg)

LEMMA Admitted ==
  ASSUME NEW f, f.op \in Registered, f.op \notin Destructive, f.len = PayloadExactly[f.op], Unlocked(f.op)
  PROVE  Gated(f)
BY DEF Gated, check, checkOpcode, checkPayload, Allow, Unlocked

\* A message more: from the EC, or one that was unlocked.
LEMMA LegalStep ==
  ASSUME WireOK, OnlyWhatWasUnlocked, NEW m, wire' = Append(wire, m), cfg' = cfg,
         err' \notin {"refused", "mismatch"},
         m.dir = "out" => /\ m.len = PayloadExactly[m.op] /\ Unlocked(m.op)
                          /\ fdtArm(m.op) => Requested
  PROVE  /\ OnlyWhatWasUnlocked'
         /\ Requested => Requested'
         /\ m.op = "d0" => Requested'
<1> DEFINE n == Len(wire)
<1>1. /\ n \in Nat /\ Len(wire') = n + 1 /\ DOMAIN wire = 1..n /\ DOMAIN wire' = 1..(n + 1)
      /\ \A i \in 1..n : wire'[i] = wire[i]
      /\ wire'[n + 1] = m
  BY GrownWire
<1>2. (Requested => Requested') /\ (m.op = "d0" => Requested')
  BY <1>1 DEF Requested
<1>3. ASSUME NEW i \in 1..(n + 1), wire'[i].dir = "out"
      PROVE  /\ wire'[i].len = PayloadExactly[wire'[i].op] /\ Unlocked(wire'[i].op)
             /\ fdtArm(wire'[i].op) => \E j \in 1..(i - 1) : wire'[j].op = "d0"
  <2>1. CASE i \in 1..n
    <3>1. /\ wire[i].len = PayloadExactly[wire[i].op] /\ Unlocked(wire[i].op)
          /\ fdtArm(wire[i].op) => \E j \in 1..(i - 1) : wire[j].op = "d0"
      BY <1>1, <1>3, <2>1 DEF OnlyWhatWasUnlocked, IsOut, Unlocked
    <3>2. QED
      BY <1>1, <2>1, <3>1
  <2>2. CASE i = n + 1
    BY <1>1, <1>3, <2>2 DEF Requested
  <2>3. QED
    BY <1>1, <2>1, <2>2
<1>4. OnlyWhatWasUnlocked'
  BY <1>1, <1>3 DEF OnlyWhatWasUnlocked, IsOut, Unlocked
<1>5. QED
  BY <1>2, <1>4

\* A frame of the run passes the gate.
LEMMA LegalSend ==
  ASSUME WireOK, OnlyWhatWasUnlocked, NEW f, NEW from, NEW extra, NEW label, Send(f, from, extra, label),
         cfg' = cfg, f.op \in Registered, f.op \notin Destructive, f.len = PayloadExactly[f.op],
         Unlocked(f.op), fdtArm(f.op) => Requested, port = "replay" => ~Mismatch(f)
  PROVE  /\ OnlyWhatWasUnlocked' /\ pc' \in {label, "close"}
         /\ Requested => Requested'
         /\ f.op = "d0" => Requested'
         /\ next' = IF port = "replay" THEN next + 1 ELSE next
<1>1. Gated(f)
  BY Admitted
<1>2. /\ wire' = Append(wire, Sent(f, from))
      /\ next' = IF port = "replay" THEN next + 1 ELSE next
      /\ Goto(label) \/ (port = "usb" /\ Fail("usb"))
  BY <1>1 DEF Send
<1>3. err' \notin {"refused", "mismatch"} /\ pc' \in {label, "close"}
  BY <1>2 DEF Goto, Fail, OnlyWhatWasUnlocked
<1> DEFINE m == Sent(f, from)
<1>4. m.op = f.op /\ m.len = f.len /\ wire' = Append(wire, m)
  BY <1>2 DEF Sent
<1> HIDE DEF m
<1>5. QED
  BY <1>2, <1>3, <1>4, LegalStep

\* What the checks say of the flags.
LEMMA Flags ==
  ASSUME ~Refuses
  PROVE  /\ \A op \in ToSet(cfg.steps) : ~fdtArm(op) /\ Catalogued(op) /\ Unlocked(op)
         /\ cfg.tls => "d0" \in opcodes(cfg) /\ Unlocked("d0")
         /\ cfg.tls /\ "d4" \in opcodes(cfg) => Unlocked("d4")
         /\ cfg.tls /\ cfg.capture => Unlocked("20")
         /\ cfg.tls /\ cfg.capture /\ cfg.waitFinger => Unlocked("32") /\ Unlocked("34")
<1>1. parseSteps(cfg.steps, cfg.allow) /\ validate(cfg)
  BY DEF Refuses
<1>2. QED
  BY <1>1 DEF parseSteps, validate, opcodes, Unlocked

-----------------------------------------------------------------------------
(* The gate, action by action *)

LEMMA GateQuiet ==
  ASSUME GateOK, UNCHANGED <<cfg, wire>>, err' \notin {"refused", "mismatch"}
  PROVE  OnlyWhatWasUnlocked' /\ (Requested => Requested')
BY DEF GateOK, OnlyWhatWasUnlocked, IsOut, Requested

LEMMA GateBefore ==
  ASSUME GateOK, main \/ prepareTLS \/ OpenLog \/ Open \/ Claim \/ ClaimFails
  PROVE  GateOK'
<1>1. UNCHANGED <<cfg, wire, k, next>>
  BY DEF main, prepareTLS, OpenLog, Open, Claim, ClaimFails, fake
<1>2. err' \notin {"refused", "mismatch"}
  BY DEF main, prepareTLS, OpenLog, Open, Claim, ClaimFails, Goto, Fail, GateOK, OnlyWhatWasUnlocked
<1>3. /\ pc \in {"main", "prepare", "log", "open", "claim"} /\ pc' # "main"
      /\ pc' \in {"prepare", "log", "open", "claim", "drain", "close"}
      /\ pc = "main" /\ pc' # "close" => ~Refuses
      /\ pc' \in {"prepare", "log", "open"} => pc \in {"main", "prepare", "log"}
  BY DEF main, prepareTLS, OpenLog, Open, Claim, ClaimFails, Goto, Fail
<1>4. port' = "replay" => pc' = "drain" /\ ret' = "step" /\ cfg.replay /\ ~cfg.tls /\ pc = "open"
  <2>1. port # "replay"
    BY <1>3 DEF GateOK, PlaceOK
  <2>2. QED
    BY <2>1 DEF main, prepareTLS, OpenLog, Open, Claim, ClaimFails, Goto, Fail, StartDrain, owned
<1>5. Refuses' = Refuses
  BY <1>1 DEF Refuses
<1>6. PlaceOK'
  BY <1>1, <1>3, <1>4, <1>5 DEF GateOK, PlaceOK, InTLS, TLSPlaces, FingerPlaces
<1>7. ~InTLS'
  BY <1>3 DEF InTLS, TLSPlaces
<1>8. QED
  BY <1>1, <1>2, <1>6, <1>7, GateQuiet DEF GateOK

\* Reads that the run does not act on.
LEMMA GateReads ==
  ASSUME GateOK, WireOK, drain \/ collect \/ StateReads \/ Stuck
  PROVE  GateOK'
<1>1. UNCHANGED <<cfg, wire, k, next, port>> /\ (ret' = ret \/ (pc = "stateRead" /\ ret' = "stuck"))
  BY DEF drain, collect, StateReads, Stuck, fake, owned
<1>2. err' \notin {"refused", "mismatch"}
  BY DEF drain, collect, StateReads, Stuck, Goto, Fail, GateOK, OnlyWhatWasUnlocked
<1>3. \/ pc = "drain" /\ pc' \in {"drain", ret} /\ ret' = ret
      \/ pc = "collect" /\ pc' \in {"collect", "close", IF ret = "d4" THEN "capture" ELSE "drain"} /\ ret' = ret
      \/ pc = "stateRead" /\ pc' \in {"stateRead", "close", "drain"}
      \/ pc = "stuck" /\ pc' = "close"
  BY DEF drain, collect, StateReads, Stuck, Goto, Fail
<1>4. (pc = "drain" => ret \in {"health", "step", "stuck"}) /\ (pc = "collect" => ret \in {"step", "d4"})
  BY DEF WireOK
<1>5. Refuses' = Refuses
  BY <1>1 DEF Refuses
<1>6. PlaceOK' /\ (InTLS' => InTLS)
  BY <1>1, <1>3, <1>4, <1>5 DEF GateOK, PlaceOK, InTLS, TLSPlaces, FingerPlaces
<1>7. QED
  BY <1>1, <1>2, <1>6, GateQuiet DEF GateOK

LEMMA GateHealth ==
  ASSUME GateOK, WireOK, HealthReads
  PROVE  GateOK'
<1>1. pc = "healthRead" /\ UNCHANGED <<cfg, k, next, port>> /\ err' \notin {"refused", "mismatch"}
  BY DEF HealthReads, owned, Goto, Fail, GateOK, OnlyWhatWasUnlocked
<1>2. PICK t : \/ wire' = wire /\ pc' \in {"close", "state", "healthRead"}
               \/ wire' = Append(wire, Heard(t)) /\ ret' = "step" /\ pc' \in {"collect", "drain"}
  BY DEF HealthReads, Goto, Fail
<1>3. Refuses' = Refuses
  BY <1>1 DEF Refuses
<1>4. PlaceOK' /\ ~InTLS'
  BY <1>1, <1>2, <1>3 DEF GateOK, PlaceOK, InTLS, TLSPlaces, FingerPlaces
<1>5. OnlyWhatWasUnlocked'
  <2>1. CASE wire' = wire
    BY <1>1, <2>1, GateQuiet
  <2>2. CASE wire' = Append(wire, Heard(t))
    <3> DEFINE m == Heard(t)
    <3>1. m.dir = "in" /\ wire' = Append(wire, m)
      BY <2>2 DEF Heard
    <3> HIDE DEF m
    <3>2. QED
      BY <1>1, <3>1, LegalStep DEF GateOK
  <2>3. QED
    BY <1>2, <2>1, <2>2
<1>6. QED
  BY <1>4, <1>5 DEF GateOK

LEMMA GateStep ==
  ASSUME GateOK, WireOK, TypeOK, Step
  PROVE  GateOK'
<1> DEFINE op == cfg.steps[k]
           f == stepFor(op)
<1>1. /\ pc = "step" /\ k <= Len(cfg.steps) /\ Send(f, Vendor, <<>>, "collect")
      /\ k' = k + 1 /\ ret' = "step" /\ UNCHANGED <<cfg, port>>
  BY DEF Step, owned
<1>2. k \in 1..Len(cfg.steps) /\ k \in DOMAIN cfg.steps /\ op \in ToSet(cfg.steps) /\ k \in Nat
  <2>1. cfg.steps \in Seq(STRING) /\ k \in Nat /\ k >= 1
    BY StepsAreLists DEF TypeOK, GateOK, PlaceOK
  <2>2. Len(cfg.steps) \in Nat /\ DOMAIN cfg.steps = 1..Len(cfg.steps)
    BY <2>1, LenProperties
  <2>3. QED
    BY <1>1, <2>1, <2>2 DEF ToSet
<1>3. ~Refuses
  BY <1>1 DEF GateOK, PlaceOK
<1>4. ~fdtArm(op) /\ Catalogued(op) /\ Unlocked(op)
  BY <1>2, <1>3, Flags
<1>5. f.op = op /\ f.len = PayloadExactly[op] /\ op \in Registered /\ op \notin Destructive
  BY <1>4, StepIsLegal
<1>6. port = "replay" => next = k /\ ~Mismatch(f)
  <2>1. scriptFor(cfg.steps)[k].sent = f
    BY <1>2 DEF scriptFor
  <2>2. port = "replay" => next = k
    BY DEF GateOK, PlaceOK
  <2> HIDE DEF f, op
  <2>3. QED
    BY <1>1, <1>2, <2>1, <2>2 DEF Mismatch
<1> HIDE DEF f, op
<1>7. /\ OnlyWhatWasUnlocked' /\ pc' \in {"collect", "close"}
      /\ next' = IF port = "replay" THEN next + 1 ELSE next
  BY <1>1, <1>4, <1>5, <1>6, LegalSend DEF GateOK
<1>8. Refuses' = Refuses
  BY <1>1 DEF Refuses
<1>9. PlaceOK' /\ ~InTLS'
  BY <1>1, <1>2, <1>6, <1>7, <1>8 DEF GateOK, PlaceOK, InTLS, TLSPlaces, FingerPlaces
<1>10. QED
  BY <1>7, <1>9 DEF GateOK

\* The frames the run sends at points of its own.
LEMMA GateSends ==
  ASSUME GateOK, WireOK,
         checkECResponsive \/ readStuckState \/ runTLS \/ sendAndCollect \/ captureFrame \/ ArmDown \/ ArmUp
  PROVE  GateOK'
<1>1. UNCHANGED <<cfg, k, port>> /\ ~Refuses
  BY DEF checkECResponsive, readStuckState, runTLS, sendAndCollect, captureFrame, ArmDown, ArmUp, owned, GateOK, PlaceOK
<1>2. Refuses' = Refuses
  BY <1>1 DEF Refuses
<1>3. port # "replay"
  BY DEF checkECResponsive, readStuckState, runTLS, sendAndCollect, captureFrame, ArmDown, ArmUp, GateOK, PlaceOK
<1>4. CASE checkECResponsive \/ readStuckState
  <2>1. PICK op \in {"a8", "ae"}, label \in {"healthRead", "stateRead"} : Send(stepFor(op), Vendor, <<>>, label)
    BY <1>4, Zenon DEF checkECResponsive, readStuckState
  <2>2. Unlocked(op) /\ ~fdtArm(op) /\ Catalogued(op)
    BY OwnSteps DEF Unlocked, ReadOnly, fdtArm
  <2> DEFINE f == stepFor(op)
  <2>3. f.op = op /\ f.len = PayloadExactly[op] /\ op \in Registered /\ op \notin Destructive
    BY <2>2, StepIsLegal
  <2>4. Send(f, Vendor, <<>>, label)
    BY <2>1
  <2> HIDE DEF f
  <2>5. OnlyWhatWasUnlocked' /\ pc' \in {label, "close"}
    BY <1>1, <1>3, <2>2, <2>3, <2>4, LegalSend DEF GateOK
  <2>6. PlaceOK' /\ ~InTLS'
    BY <1>1, <1>2, <1>3, <2>5 DEF GateOK, PlaceOK, InTLS, TLSPlaces, FingerPlaces
  <2>7. QED
    BY <2>5, <2>6 DEF GateOK
<1>5. CASE runTLS \/ sendAndCollect \/ captureFrame
  <2>1. PICK op \in {"d0", "d4", "20"}, label \in {"handshake", "collect", "imageRead"} :
          /\ Send(stepFor(op), Vendor, <<>>, label)
          /\ \/ op = "d0" /\ label = "handshake" /\ pc = "request"
             \/ op = "d4" /\ label = "collect" /\ pc = "established" /\ ret' = "d4"
             \/ op = "20" /\ label = "imageRead" /\ pc = "image"
    BY <1>5, Zenon DEF runTLS, sendAndCollect, captureFrame
  <2>2. /\ cfg.tls /\ (pc # "request" => Requested)
        /\ pc = "established" => "d4" \in opcodes(cfg)
        /\ pc = "image" => cfg.capture
    BY <2>1 DEF GateOK, PlaceOK, InTLS, TLSPlaces
  <2>3. Unlocked(op) /\ ~fdtArm(op) /\ Catalogued(op)
    <3>1. Unlocked(op)
      BY <1>1, <2>1, <2>2, Flags
    <3>2. QED
      BY <3>1, OwnSteps DEF fdtArm
  <2> DEFINE f == stepFor(op)
  <2>4. f.op = op /\ f.len = PayloadExactly[op] /\ op \in Registered /\ op \notin Destructive
    BY <2>3, StepIsLegal
  <2>5. Send(f, Vendor, <<>>, label)
    BY <2>1
  <2> HIDE DEF f
  <2>6. /\ OnlyWhatWasUnlocked' /\ pc' \in {label, "close"}
        /\ Requested => Requested'
        /\ op = "d0" => Requested'
    BY <1>1, <1>3, <2>3, <2>4, <2>5, LegalSend DEF GateOK
  <2>7. PlaceOK' /\ Requested'
    BY <1>1, <1>2, <1>3, <2>1, <2>2, <2>6 DEF GateOK, PlaceOK, InTLS, TLSPlaces, FingerPlaces
  <2>8. QED
    BY <2>6, <2>7 DEF GateOK
<1>6. CASE ArmDown \/ ArmUp
  <2>0. PICK op \in {"32", "34"}, label \in {"waitDown", "waitUp"} : \E from, extra : Send(Arm(op), from, extra, label)
    BY <1>6, Zenon DEF ArmDown, ArmUp
  <2>1. PICK from, extra : Send(Arm(op), from, extra, label)
    BY <2>0
  <2>2. pc \in FingerPlaces /\ cfg.tls /\ cfg.capture /\ cfg.waitFinger /\ Requested
    BY <1>6 DEF ArmDown, ArmUp, GateOK, PlaceOK, InTLS, TLSPlaces, FingerPlaces
  <2>3. Unlocked(op)
    BY <1>1, <2>2, Flags
  <2> DEFINE f == Arm(op)
  <2>4. f.op = op /\ f.len = PayloadExactly[op] /\ op \in Registered /\ op \notin Destructive
    BY ArmsAreLegal
  <2>5. Send(f, from, extra, label)
    BY <2>1
  <2> HIDE DEF f
  <2>6. OnlyWhatWasUnlocked' /\ pc' \in {label, "close"} /\ Requested'
    BY <1>1, <1>3, <2>2, <2>3, <2>4, <2>5, LegalSend DEF GateOK
  <2>7. PlaceOK'
    BY <1>1, <1>2, <1>3, <2>2, <2>6 DEF GateOK, PlaceOK, InTLS, TLSPlaces, FingerPlaces
  <2>8. QED
    BY <2>6, <2>7 DEF GateOK
<1>7. QED
  BY <1>4, <1>5, <1>6

\* The steps of the capture that send nothing.
LEMMA GateWorks ==
  ASSUME GateOK, StepsDone \/ Handshake \/ Capture \/ ImageReads \/ WaitExpires
  PROVE  GateOK'
<1>1. UNCHANGED <<cfg, wire, k, next, port>>
  BY DEF StepsDone, Handshake, Capture, ImageReads, WaitExpires, fake, owned
<1>2. checkTLSData(HostRecords, TRUE)
  BY DEF checkTLSData, HostRecords
<1>3. Handshake => err' # "refused"
  <2>1. SUFFICES ASSUME Handshake PROVE err' # "refused"
    OBVIOUS
  <2>2. checkTLSData(HostRecords, cfg.tls)
    BY <1>2, <2>1 DEF Handshake, GateOK, PlaceOK, TLSPlaces, InTLS, checkTLSData
  <2>3. QED
    BY <2>1, <2>2 DEF Handshake, Goto, Fail, GateOK, OnlyWhatWasUnlocked
<1>4. err' \notin {"refused", "mismatch"}
  BY <1>3 DEF StepsDone, Handshake, Capture, ImageReads, WaitExpires, Goto, Fail, GateOK, OnlyWhatWasUnlocked
<1>5. \/ pc' = "close"
      \/ pc = "step" /\ pc' = "request" /\ cfg.tls
      \/ pc = "handshake" /\ pc' = "established" /\ "d4" \in opcodes(cfg)
      \/ pc = "handshake" /\ pc' = "capture"
      \/ pc = "capture" /\ pc' = "armDown" /\ cfg.capture /\ cfg.waitFinger
      \/ pc = "capture" /\ pc' = "image" /\ cfg.capture
      \/ pc = "imageRead" /\ pc' = "armUp" /\ cfg.waitFinger
  BY DEF StepsDone, Handshake, Capture, ImageReads, WaitExpires, Goto, Fail
<1>6. pc \in {"step", "handshake", "capture", "imageRead", "waitDown", "waitUp"}
  BY DEF StepsDone, Handshake, Capture, ImageReads, WaitExpires
<1>7. Refuses' = Refuses
  BY <1>1 DEF Refuses
<1>8. PlaceOK' /\ (InTLS' => InTLS)
  BY <1>1, <1>5, <1>6, <1>7 DEF GateOK, PlaceOK, InTLS, TLSPlaces, FingerPlaces
<1>9. QED
  BY <1>1, <1>4, <1>8, GateQuiet DEF GateOK

LEMMA GateWaits ==
  ASSUME GateOK, WireOK, WaitDown \/ WaitUp
  PROVE  GateOK'
<1>1. pc \in {"waitDown", "waitUp"} /\ UNCHANGED <<cfg, k, next, port>> /\ err' \notin {"refused", "mismatch"}
  BY DEF WaitDown, WaitUp, owned, Goto, Fail, GateOK, OnlyWhatWasUnlocked
<1>2. pc' \in {"waitDown", "waitUp", "close", "image", "armDown"}
  BY DEF WaitDown, WaitUp, Goto, Fail
<1>3. wire' = wire \/ \E t : wire' = Append(wire, Heard(t))
  BY DEF WaitDown, WaitUp
<1>4. Refuses' = Refuses
  BY <1>1 DEF Refuses
<1>5. InTLS /\ cfg.tls /\ cfg.capture /\ cfg.waitFinger /\ Requested /\ port # "replay"
  BY <1>1 DEF GateOK, PlaceOK, InTLS, TLSPlaces, FingerPlaces
<1>6. PlaceOK'
  BY <1>1, <1>2, <1>4, <1>5 DEF GateOK, PlaceOK, InTLS, TLSPlaces, FingerPlaces
<1>7. OnlyWhatWasUnlocked' /\ Requested'
  <2>1. CASE wire' = wire
    BY <1>1, <1>5, <2>1, GateQuiet
  <2>2. CASE \E t : wire' = Append(wire, Heard(t))
    <3>1. PICK t : wire' = Append(wire, Heard(t))
      BY <2>2
    <3> DEFINE m == Heard(t)
    <3>2. m.dir = "in" /\ wire' = Append(wire, m)
      BY <3>1 DEF Heard
    <3> HIDE DEF m
    <3>3. QED
      BY <1>1, <1>5, <3>2, LegalStep DEF GateOK
  <2>3. QED
    BY <1>3, <2>1, <2>2
<1>8. QED
  BY <1>6, <1>7 DEF GateOK

LEMMA GateCloses ==
  ASSUME GateOK, CloseTransport \/ Teardown
  PROVE  GateOK'
<1>1. /\ UNCHANGED <<cfg, wire, k, next, err>> /\ pc \in {"close", "teardown"}
      /\ pc' \in {"close", "teardown", "exit"} /\ port' \in {port, "none", "closed"}
      /\ pc' = "exit" => port' = port
  BY DEF CloseTransport, Teardown, fake
<1>2. pc' = "exit" => pc = "teardown"
  BY DEF CloseTransport, Teardown
<1>3. err' \notin {"refused", "mismatch"}
  BY <1>1 DEF GateOK, OnlyWhatWasUnlocked
<1>4. OnlyWhatWasUnlocked'
  BY <1>1, <1>3, GateQuiet
<1>5. ~InTLS'
  BY <1>1 DEF InTLS, TLSPlaces
<1>6. PlaceOK'
  <2>1. /\ k' = k /\ next' = next /\ cfg' = cfg /\ k >= 1
        /\ pc' \in {"close", "teardown", "exit"}
    BY <1>1 DEF GateOK, PlaceOK
  <2>2. port' = "replay" => port = "replay" /\ pc' = "close"
    BY DEF CloseTransport, Teardown, GateOK, PlaceOK
  <2>3. QED
    BY <1>5, <2>1, <2>2 DEF GateOK, PlaceOK, InTLS, TLSPlaces, FingerPlaces
<1>7. QED
  BY <1>4, <1>5, <1>6 DEF GateOK
-----------------------------------------------------------------------------
(* The gate, of every run *)

LEMMA InitGate ==
  ASSUME Init
  PROVE  GateOK
<1>1. pc = "main" /\ k = 1 /\ next = 1 /\ port = "none" /\ err = "nil" /\ wire = <<>>
  BY DEF Init
<1>2. OnlyWhatWasUnlocked
  BY <1>1 DEF OnlyWhatWasUnlocked
<1>3. PlaceOK /\ ~InTLS
  BY <1>1 DEF PlaceOK, InTLS, TLSPlaces, FingerPlaces
<1>4. QED
  BY <1>2, <1>3 DEF GateOK

LEMMA NextGate ==
  ASSUME IInv, GateOK, [Next]_vars
  PROVE  GateOK'
<1>1. WireOK /\ TypeOK
  BY DEF IInv
<1>2. CASE main \/ prepareTLS \/ OpenLog \/ Open \/ Claim \/ ClaimFails
  BY <1>2, GateBefore
<1>3. CASE drain \/ collect \/ StateReads \/ Stuck
  BY <1>1, <1>3, GateReads
<1>4. CASE HealthReads
  BY <1>1, <1>4, GateHealth
<1>5. CASE Step
  BY <1>1, <1>5, GateStep
<1>6. CASE checkECResponsive \/ readStuckState \/ runTLS \/ sendAndCollect \/ captureFrame \/ ArmDown \/ ArmUp
  BY <1>1, <1>6, GateSends
<1>7. CASE StepsDone \/ Handshake \/ Capture \/ ImageReads \/ WaitExpires
  BY <1>7, GateWorks
<1>8. CASE WaitDown \/ WaitUp
  BY <1>1, <1>8, GateWaits
<1>9. CASE CloseTransport \/ Teardown
  BY <1>9, GateCloses
<1>10. CASE UNCHANGED vars
  <2>1. UNCHANGED <<cfg, wire, k, next, port, pc, ret, err>>
    BY <1>10 DEF vars, run, owned, fake
  <2>2. OnlyWhatWasUnlocked' /\ (Requested => Requested')
    BY <2>1, GateQuiet DEF GateOK, OnlyWhatWasUnlocked
  <2>3. PlaceOK' /\ (InTLS' => InTLS)
    BY <2>1 DEF GateOK, PlaceOK, InTLS, Refuses
  <2>4. QED
    BY <2>2, <2>3 DEF GateOK
<1>11. QED
  BY <1>2, <1>3, <1>4, <1>5, <1>6, <1>7, <1>8, <1>9, <1>10, Zenon DEF Next

LEMMA ProbeGateInductive == Spec => []GateOK
<1>1. IInv /\ GateOK /\ [Next]_vars => GateOK'
  BY NextGate
<1>2. QED
  BY InitGate, ProbeInductive, <1>1, PTL DEF Spec

\* For every command line and whatever is read from USB: every frame of a run
\* has a vendor's payload and, above the ceiling, its flag and a place in the
\* run, no arm precedes the request for TLS, and no run gets half-way and then
\* meets the gate or leaves its script (Policy.check, parseSteps, validate).
THEOREM ProbeOnlyWhatWasUnlocked == Spec => []OnlyWhatWasUnlocked
<1>1. GateOK => OnlyWhatWasUnlocked
  BY DEF GateOK
<1>2. QED
  BY ProbeGateInductive, <1>1, PTL

-----------------------------------------------------------------------------
(* The touches *)

TouchPlaces == {"image", "imageRead", "armDown", "waitDown", "armUp", "waitUp"}
EndPlaces == {"close", "teardown", "exit"}
Steps == {"main", "prepare", "log", "open", "claim", "health", "healthRead", "state", "stateRead",
          "stuck", "step", "request"}

LastIs(evs) == Len(wire) > 0 /\ wire[Len(wire)].dir = "in" /\ wire[Len(wire)].ev \in evs
NoArm == \A j \in 1..Len(wire) : wire[j].op \notin {"32", "34"}
NoSession == \A j \in 1..Len(wire) : wire[j].op # "d0"
AfterEvent == LastIs({"baseInvalid", "up"})
AfterDown == LastIs({"down"})
AfterImage == Len(wire) > 1 /\ wire[Len(wire)].op = "20"

\* The order, frame by frame, with what makes the lift's arm have a predecessor.
OrderAt(w, i) ==
  /\ w[i].op = "32" =>
       IF w[i].from = Vendor THEN \A j \in 1..(i - 1) : w[j].op \notin {"32", "34"}
       ELSE /\ w[i].from \in 1..(i - 1) /\ w[w[i].from].dir = "in"
            /\ \A h \in (w[i].from + 1)..(i - 1) : w[h].dir = "out"
            /\ w[w[i].from].ev \in {"baseInvalid", "up"}
  /\ w[i].op = "20" /\ (\E j \in 1..(i - 1) : w[j].op = "d0") => w[i - 1].dir = "in" /\ w[i - 1].ev = "down"
  /\ w[i].op = "34" => i > 1 /\ w[i - 1].op = "20" /\ w[i].from = i - 2
Ordered(w) == \A i \in 1..Len(w) : w[i].dir = "out" => OrderAt(w, i)
OrderOK == cfg.waitFinger => Ordered(wire)

\* What the next frame will carry, by place.
TouchOK ==
  /\ OrderOK
  /\ pc \notin TouchPlaces \cup EndPlaces => NoArm /\ touch.thresholds = Vendor
  /\ cfg.waitFinger =>
       /\ pc \in Steps \/ (pc \in {"drain", "collect"} /\ ret # "d4") => NoSession
       /\ pc = "armDown" => \/ touch.thresholds = Vendor /\ NoArm
                            \/ touch.thresholds = Len(wire) /\ AfterEvent
       /\ pc = "image" => touch.down = Len(wire) /\ AfterDown
       /\ pc \in {"imageRead", "armUp"} => AfterImage /\ touch.down = Len(wire) - 1

\* What may follow.
Follows(w, m) ==
  LET n == Len(w)
      Ends(evs) == n > 0 /\ w[n].dir = "in" /\ w[n].ev \in evs
  IN  m.dir = "out" =>
        /\ m.op = "32" => \/ m.from = Vendor /\ \A j \in 1..n : w[j].op \notin {"32", "34"}
                          \/ m.from = n /\ Ends({"baseInvalid", "up"})
        /\ m.op = "20" => (\A j \in 1..n : w[j].op # "d0") \/ Ends({"down"})
        /\ m.op = "34" => n > 1 /\ w[n].op = "20" /\ m.from = n - 1

LEMMA OrderGrows ==
  ASSUME NEW S, NEW w \in Seq(S), Ordered(w), NEW m, Follows(w, m)
  PROVE  Ordered(Append(w, m))
<1> DEFINE v == Append(w, m)
<1>1. PICK n \in Nat : n = Len(w)
  BY LenProperties
<1>2. /\ Len(v) = n + 1
      /\ \A i \in 1..n : v[i] = w[i]
      /\ v[n + 1] = m
  BY <1>1, Grows
<1> HIDE DEF v
<1>3. ASSUME NEW i \in 1..n, v[i].dir = "out"
      PROVE  OrderAt(v, i)
  <2>1. OrderAt(w, i)
    BY <1>1, <1>2, <1>3 DEF Ordered
  <2>2. v[i] = w[i] /\ \A j \in 1..(i - 1) : v[j] = w[j]
    BY <1>2
  <2>3. w[i].op = "34" => i > 1 /\ v[i - 1].op = "20" /\ v[i].from = i - 2
    BY <2>1, <2>2 DEF OrderAt
  <2>4. v[i].op = "20" /\ (\E j \in 1..(i - 1) : v[j].op = "d0") => v[i - 1].dir = "in" /\ v[i - 1].ev = "down"
    <3>1. SUFFICES ASSUME NEW j \in 1..(i - 1), v[j].op = "d0", v[i].op = "20"
                   PROVE  v[i - 1].dir = "in" /\ v[i - 1].ev = "down"
      OBVIOUS
    <3>2. w[j].op = "d0" /\ w[i].op = "20" /\ i - 1 \in 1..(i - 1)
      BY <2>2, <3>1
    <3>3. w[i - 1].dir = "in" /\ w[i - 1].ev = "down"
      BY <2>1, <3>2 DEF OrderAt
    <3>4. QED
      BY <2>2, <3>2, <3>3
  <2>5. CASE w[i].op = "32" /\ w[i].from # Vendor
    <3>1. PICK f : f = w[i].from
      OBVIOUS
    <3>2. f \in 1..(i - 1) /\ w[f].dir = "in" /\ w[f].ev \in {"baseInvalid", "up"}
          /\ \A h \in (f + 1)..(i - 1) : w[h].dir = "out"
      BY <2>1, <2>5, <3>1 DEF OrderAt
    <3>3. v[f] = w[f] /\ \A h \in (f + 1)..(i - 1) : v[h] = w[h]
      BY <2>2, <3>2
    <3>4. QED
      BY <2>2, <2>3, <2>4, <2>5, <3>1, <3>2, <3>3 DEF OrderAt
  <2>6. CASE w[i].op # "32" \/ w[i].from = Vendor
    BY <2>1, <2>2, <2>3, <2>4, <2>6 DEF OrderAt
  <2>7. QED
    BY <2>5, <2>6
<1>4. ASSUME m.dir = "out"
      PROVE  OrderAt(v, n + 1)
  <2>1. /\ m.op = "32" => \/ m.from = Vendor /\ \A j \in 1..n : w[j].op \notin {"32", "34"}
                          \/ m.from = n /\ n > 0 /\ w[n].dir = "in" /\ w[n].ev \in {"baseInvalid", "up"}
        /\ m.op = "20" => \/ \A j \in 1..n : w[j].op # "d0"
                          \/ n > 0 /\ w[n].dir = "in" /\ w[n].ev = "down"
        /\ m.op = "34" => n > 1 /\ w[n].op = "20" /\ m.from = n - 1
    BY <1>1, <1>4 DEF Follows
  <2>2. (n + 1) - 1 = n /\ (n + 1) - 2 = n - 1 /\ (n > 1 => n + 1 > 1) /\ (n > 0 => n \in 1..n)
    BY <1>1
  <2>3. m.op = "20" /\ (\E j \in 1..n : v[j].op = "d0") => v[n].dir = "in" /\ v[n].ev = "down"
    BY <1>2, <2>1, <2>2
  <2>4. m.op = "34" => n + 1 > 1 /\ v[n].op = "20" /\ m.from = n - 1
    BY <1>2, <2>1, <2>2
  <2>5. CASE m.op = "32" /\ m.from = n /\ n > 0 /\ w[n].dir = "in" /\ w[n].ev \in {"baseInvalid", "up"}
    <3>1. n # Vendor /\ v[n] = w[n] /\ n \in 1..n /\ \A h \in (n + 1)..n : FALSE
      BY <1>2, <2>2, <2>5 DEF Vendor
    <3>2. QED
      BY <1>2, <2>2, <2>5, <3>1 DEF OrderAt
  <2>6. CASE m.op # "32" \/ (m.from = Vendor /\ \A j \in 1..n : w[j].op \notin {"32", "34"})
    <3>1. m.op = "32" => m.from = Vendor /\ \A j \in 1..n : v[j].op \notin {"32", "34"}
      BY <1>2, <2>6
    <3>2. QED
      BY <1>2, <2>2, <2>3, <2>4, <3>1 DEF OrderAt
  <2>7. QED
    BY <2>1, <2>5, <2>6
<1>5. \A i \in 1..(n + 1) : i \in 1..n \/ i = n + 1
  BY <1>1
<1>6. Ordered(v)
  BY <1>2, <1>3, <1>4, <1>5 DEF Ordered
<1>7. QED
  BY <1>6 DEF v

LEMMA OrderIsOrder ==
  ASSUME WireOK, OrderOK
  PROVE  TouchesInOrder
<1>1. DOMAIN wire = 1..Len(wire) /\ Len(wire) \in Nat
  BY LenProperties DEF WireOK
<1>2. SUFFICES ASSUME cfg.waitFinger, NEW i \in 1..Len(wire), wire[i].dir = "out"
               PROVE  /\ wire[i].op = "32" =>
                           IF wire[i].from = Vendor THEN \A j \in 1..(i - 1) : wire[j].op \notin {"32", "34"}
                           ELSE Newest(i, wire[i].from) /\ wire[wire[i].from].ev \in {"baseInvalid", "up"}
                      /\ wire[i].op = "20" /\ InSession(i) => IsIn(i - 1) /\ wire[i - 1].ev = "down"
                      /\ wire[i].op = "34" => wire[i - 1].op = "20" /\ wire[i].from = i - 2
  BY <1>1 DEF TouchesInOrder, IsOut
<1>3. OrderAt(wire, i)
  BY <1>1, <1>2 DEF OrderOK, Ordered
<1>4. QED
  BY <1>3 DEF OrderAt, Newest, InSession, IsIn, IsOut

LEMMA OrderStep ==
  ASSUME WireOK, OrderOK, NEW m, wire' = Append(wire, m), cfg' = cfg, cfg.waitFinger => Follows(wire, m)
  PROVE  OrderOK'
<1>1. PICK S : wire \in Seq(S)
  BY DEF WireOK
<1>2. SUFFICES ASSUME cfg.waitFinger PROVE Ordered(wire')
  BY DEF OrderOK
<1>3. Ordered(wire) /\ Follows(wire, m)
  BY <1>2 DEF OrderOK
<1>4. Ordered(Append(wire, m))
  BY <1>1, <1>3, OrderGrows
<1>5. QED
  BY <1>4

\* What a message more leaves of that.
LEMMA WhatFollows ==
  ASSUME WireOK, NEW m, wire' = Append(wire, m)
  PROVE  /\ Len(wire) \in Nat /\ Len(wire') = Len(wire) + 1
         /\ NoArm /\ m.op \notin {"32", "34"} => NoArm'
         /\ NoSession /\ m.op # "d0" => NoSession'
         /\ m.dir = "in" /\ m.ev \in {"baseInvalid", "up"} => AfterEvent'
         /\ m.dir = "in" /\ m.ev = "down" => AfterDown'
         /\ AfterDown /\ m.op = "20" => AfterImage'
<1>1. PICK n \in Nat : n = Len(wire)
  BY GrownWire
<1>2. /\ Len(wire') = n + 1 /\ n + 1 > 0
      /\ \A i \in 1..n : wire'[i] = wire[i]
      /\ wire'[n + 1] = m
      /\ \A i \in 1..(n + 1) : i \in 1..n \/ i = n + 1
  BY <1>1, GrownWire
<1>3. NoArm /\ m.op \notin {"32", "34"} => NoArm'
  BY <1>1, <1>2 DEF NoArm
<1>4. NoSession /\ m.op # "d0" => NoSession'
  BY <1>1, <1>2 DEF NoSession
<1>5. /\ m.dir = "in" /\ m.ev \in {"baseInvalid", "up"} => AfterEvent'
      /\ m.dir = "in" /\ m.ev = "down" => AfterDown'
  BY <1>2 DEF AfterEvent, AfterDown, LastIs
<1>6. AfterDown /\ m.op = "20" => AfterImage'
  BY <1>1, <1>2 DEF AfterDown, AfterImage, LastIs
<1>7. QED
  BY <1>1, <1>2, <1>3, <1>4, <1>5, <1>6

\* In what order the frames may go.
LEMMA MayFollow ==
  ASSUME NEW m,
         \/ m.dir = "in"
         \/ m.op \notin {"20", "32", "34"}
         \/ m.op = "20" /\ (NoSession \/ AfterDown)
         \/ m.op = "32" /\ m.from = Vendor /\ NoArm
         \/ m.op = "32" /\ m.from = Len(wire) /\ AfterEvent
         \/ m.op = "34" /\ m.from = Len(wire) - 1 /\ AfterImage
  PROVE  Follows(wire, m)
<1>1. CASE m.dir = "in" \/ m.op \notin {"20", "32", "34"}
  BY <1>1 DEF Follows
<1>2. CASE m.op = "20" /\ (NoSession \/ AfterDown)
  BY <1>2 DEF Follows, NoSession, AfterDown, LastIs
<1>3. CASE m.op = "32" /\ m.from = Vendor /\ NoArm
  BY <1>3 DEF Follows, NoArm
<1>4. CASE m.op = "32" /\ m.from = Len(wire) /\ AfterEvent
  BY <1>4 DEF Follows, AfterEvent, LastIs
<1>5. CASE m.op = "34" /\ m.from = Len(wire) - 1 /\ AfterImage
  BY <1>5 DEF Follows, AfterImage
<1>6. QED
  BY <1>1, <1>2, <1>3, <1>4, <1>5

\* Before the request for TLS, and from there to the images.
BeforeTLS == pc \in Steps \/ (pc \in {"drain", "collect"} /\ ret # "d4")
BeforeImages == BeforeTLS \/ pc \in {"handshake", "established", "capture"} \/ (pc = "collect" /\ ret = "d4")

\* Nothing is sent and the thresholds stay.
LEMMA TouchStays ==
  ASSUME TouchOK, UNCHANGED <<cfg, wire, touch>>,
         \/ pc' \in EndPlaces \cup {"waitDown", "waitUp"}
         \/ BeforeTLS /\ BeforeTLS'
         \/ BeforeImages /\ BeforeImages' /\ ~BeforeTLS'
         \/ BeforeImages /\ pc' = "armDown"
         \/ pc' = "image" /\ ~cfg.waitFinger
         \/ pc = "imageRead" /\ pc' = "armUp"
         \/ pc' = pc /\ ret' = ret
  PROVE  TouchOK'
<1>1. /\ OrderOK' /\ (NoArm => NoArm') /\ (NoSession => NoSession')
      /\ (AfterEvent => AfterEvent') /\ (AfterDown => AfterDown') /\ (AfterImage => AfterImage')
      /\ Len(wire') = Len(wire) /\ touch' = touch /\ cfg' = cfg
  BY DEF TouchOK, OrderOK, NoArm, NoSession, AfterEvent, AfterDown, AfterImage, LastIs
<1>2. QED
  BY <1>1 DEF TouchOK, BeforeTLS, BeforeImages, Steps, TouchPlaces, EndPlaces

LEMMA TouchBefore ==
  ASSUME TouchOK, WireOK,
         \/ main \/ prepareTLS \/ OpenLog \/ Open \/ Claim \/ ClaimFails \/ drain \/ collect \/ StateReads \/ Stuck
         \/ StepsDone \/ CloseTransport \/ Teardown
  PROVE  TouchOK'
<1>1. UNCHANGED <<cfg, wire, touch>>
  BY DEF main, prepareTLS, OpenLog, Open, Claim, ClaimFails, drain, collect, StateReads, Stuck, StepsDone,
     CloseTransport, Teardown
<1>2. CASE main \/ prepareTLS \/ OpenLog \/ Open \/ Claim \/ ClaimFails \/ StateReads \/ Stuck \/ StepsDone
  <2>1. BeforeTLS
    BY <1>2 DEF main, prepareTLS, OpenLog, Open, Claim, ClaimFails, StateReads, Stuck, StepsDone, BeforeTLS, Steps
  <2>2. \/ pc' \in {"close", "prepare", "log", "open", "claim", "stateRead", "request"}
        \/ pc' = "drain" /\ ret' \in {"health", "step", "stuck"}
    BY <1>2 DEF main, prepareTLS, OpenLog, Open, Claim, ClaimFails, StateReads, Stuck, StepsDone, Goto, Fail, StartDrain
  <2>3. QED
    BY <1>1, <2>1, <2>2, TouchStays DEF BeforeTLS, Steps, EndPlaces
<1>3. CASE drain \/ collect
  <2>1. /\ ret' = ret
        /\ \/ pc = "drain" /\ pc' \in {"drain", ret} /\ ret \in {"health", "step", "stuck"}
           \/ pc = "collect" /\ pc' \in {"collect", "close", IF ret = "d4" THEN "capture" ELSE "drain"}
    BY <1>3 DEF drain, collect, Goto, Fail, WireOK
  <2>2. QED
    BY <1>1, <2>1, TouchStays DEF BeforeTLS, BeforeImages, Steps, EndPlaces
<1>4. CASE CloseTransport \/ Teardown
  <2>1. pc' \in EndPlaces
    BY <1>4 DEF CloseTransport, Teardown, EndPlaces
  <2>2. QED
    BY <1>1, <2>1, TouchStays
<1>5. QED
  BY <1>2, <1>3, <1>4

LEMMA TouchWorks ==
  ASSUME TouchOK, Handshake \/ Capture \/ ImageReads \/ WaitExpires
  PROVE  TouchOK'
<1>1. UNCHANGED <<cfg, wire, touch>> /\ pc \in {"handshake", "capture", "imageRead", "waitDown", "waitUp"}
  BY DEF Handshake, Capture, ImageReads, WaitExpires
<1>2. \/ pc' = "close"
      \/ pc = "handshake" /\ pc' \in {"established", "capture"}
      \/ pc = "capture" /\ pc' = "armDown"
      \/ pc = "capture" /\ pc' = "image" /\ ~cfg.waitFinger
      \/ pc = "imageRead" /\ pc' = "armUp"
  BY DEF Handshake, Capture, ImageReads, WaitExpires, Goto, Fail
<1>3. QED
  BY <1>1, <1>2, TouchStays DEF BeforeTLS, BeforeImages, Steps, EndPlaces

\* A frame, or a reply, of the steps before the images.
LEMMA TouchTalks ==
  ASSUME TouchOK, WireOK, BeforeImages, UNCHANGED <<cfg, touch>>, NEW m, wire' = Append(wire, m),
         m.op \notin {"32", "34"}, m.op = "20" => m.dir = "in" \/ (cfg.waitFinger => NoSession),
         \/ pc' \in EndPlaces
         \/ BeforeTLS /\ BeforeTLS' /\ (cfg.waitFinger => m.op # "d0")
         \/ BeforeImages' /\ ~BeforeTLS'
  PROVE  TouchOK'
<1>1. NoArm /\ touch.thresholds = Vendor /\ (BeforeTLS /\ cfg.waitFinger => NoSession)
  BY DEF TouchOK, BeforeTLS, BeforeImages, Steps, TouchPlaces, EndPlaces
<1>2. NoArm' /\ (NoSession /\ m.op # "d0" => NoSession')
  BY <1>1, WhatFollows
<1>3. cfg.waitFinger => Follows(wire, m)
  BY MayFollow
<1>4. OrderOK'
  BY <1>3, OrderStep DEF TouchOK
<1>5. QED
  BY <1>1, <1>2, <1>4 DEF TouchOK, BeforeTLS, BeforeImages, Steps, TouchPlaces, EndPlaces

LEMMA TouchHealth ==
  ASSUME TouchOK, WireOK, HealthReads
  PROVE  TouchOK'
<1>1. pc = "healthRead" /\ UNCHANGED <<cfg, touch>>
  BY DEF HealthReads
<1>2. PICK t : \/ wire' = wire /\ pc' \in {"close", "state", "healthRead"}
               \/ /\ Answered(t) /\ wire' = Append(wire, Heard(t)) /\ ret' = "step"
                  /\ pc' \in {"collect", "drain"}
  BY DEF HealthReads, Goto, Fail
<1>3. CASE wire' = wire /\ pc' \in {"close", "state", "healthRead"}
  BY <1>1, <1>3, TouchStays DEF BeforeTLS, Steps, EndPlaces
<1>4. CASE Answered(t) /\ wire' = Append(wire, Heard(t)) /\ ret' = "step" /\ pc' \in {"collect", "drain"}
  <2> DEFINE m == Heard(t)
  <2>1. m.op = "a8" /\ wire' = Append(wire, m)
    BY <1>4 DEF Answered, Reply, Heard
  <2> HIDE DEF m
  <2>2. BeforeTLS /\ BeforeTLS'
    BY <1>1, <1>4 DEF BeforeTLS, Steps
  <2>3. QED
    BY <1>1, <2>1, <2>2, TouchTalks DEF BeforeImages
<1>5. QED
  BY <1>2, <1>3, <1>4

LEMMA TouchSends ==
  ASSUME TouchOK, WireOK, GateOK, TypeOK,
         checkECResponsive \/ readStuckState \/ Step \/ runTLS \/ sendAndCollect
  PROVE  TouchOK'
<1>1. UNCHANGED <<cfg, touch>>
  BY DEF checkECResponsive, readStuckState, Step, runTLS, sendAndCollect
<1>2. PICK op, label :
        /\ Send(stepFor(op), Vendor, <<>>, label)
        /\ \/ pc = "health" /\ op = "a8" /\ label = "healthRead"
           \/ pc = "state" /\ op = "ae" /\ label = "stateRead"
           \/ pc = "step" /\ op = cfg.steps[k] /\ k <= Len(cfg.steps) /\ label = "collect" /\ ret' = "step"
           \/ pc = "request" /\ op = "d0" /\ label = "handshake"
           \/ pc = "established" /\ op = "d4" /\ label = "collect" /\ ret' = "d4"
  BY Zenon DEF checkECResponsive, readStuckState, Step, runTLS, sendAndCollect
<1>3. /\ stepFor(op).op = op /\ op \notin {"32", "34"}
      /\ pc = "step" /\ cfg.waitFinger => op # "d0"
  <2>1. CASE pc = "step"
    <3>1. k \in DOMAIN cfg.steps /\ op \in ToSet(cfg.steps)
      <4>1. cfg.steps \in Seq(STRING) /\ k \in Nat /\ k >= 1
        BY StepsAreLists DEF TypeOK, GateOK, PlaceOK
      <4>2. Len(cfg.steps) \in Nat /\ DOMAIN cfg.steps = 1..Len(cfg.steps)
        BY <4>1, LenProperties
      <4>3. QED
        BY <1>2, <2>1, <4>1, <4>2 DEF ToSet
    <3>2. ~Refuses
      BY <2>1 DEF GateOK, PlaceOK
    <3>3. ~fdtArm(op) /\ Catalogued(op)
      BY <3>1, <3>2, Flags
    <3>4. cfg.waitFinger => op # "d0"
      BY <3>1, <3>2 DEF Refuses, validate
    <3>5. QED
      BY <3>3, <3>4, StepIsLegal DEF fdtArm
  <2>2. CASE pc # "step"
    BY <1>2, <2>2, OwnSteps, StepIsLegal
  <2>3. QED
    BY <2>1, <2>2
<1>4. /\ \/ wire' = wire /\ pc' = "close"
         \/ wire' = Append(wire, Sent(stepFor(op), Vendor)) /\ pc' \in {label, "close"}
  BY <1>2, SendStep
<1>5. CASE wire' = wire /\ pc' = "close"
  BY <1>1, <1>5, TouchStays DEF EndPlaces
<1>6. CASE wire' = Append(wire, Sent(stepFor(op), Vendor)) /\ pc' \in {label, "close"}
  <2> DEFINE m == Sent(stepFor(op), Vendor)
  <2>1. m.op = op /\ wire' = Append(wire, m)
    BY <1>3, <1>6 DEF Sent
  <2> HIDE DEF m
  <2>2. BeforeImages
    BY <1>2 DEF BeforeTLS, BeforeImages, Steps
  <2>3. op = "20" => (cfg.waitFinger => NoSession)
    BY <1>2 DEF TouchOK, Steps
  <2>4. \/ pc' \in EndPlaces
        \/ BeforeTLS /\ BeforeTLS' /\ (cfg.waitFinger => op # "d0")
        \/ BeforeImages' /\ ~BeforeTLS'
    BY <1>2, <1>3, <1>6 DEF BeforeTLS, BeforeImages, Steps, EndPlaces
  <2>5. QED
    BY <1>1, <1>3, <2>1, <2>2, <2>3, <2>4, TouchTalks
<1>7. QED
  BY <1>4, <1>5, <1>6

LEMMA TouchTakes ==
  ASSUME TouchOK, WireOK, captureFrame \/ ArmDown \/ ArmUp
  PROVE  TouchOK'
<1>1. UNCHANGED <<cfg, touch>>
  BY DEF captureFrame, ArmDown, ArmUp
<1>2. PICK f, from, extra, label :
        /\ Send(f, from, extra, label)
        /\ \/ pc = "image" /\ f = stepFor("20") /\ from = Vendor /\ label = "imageRead"
           \/ pc = "armDown" /\ f = Arm("32") /\ from = touch.thresholds /\ label = "waitDown"
           \/ pc = "armUp" /\ f = Arm("34") /\ from = touch.down /\ label = "waitUp"
  BY Zenon DEF captureFrame, ArmDown, ArmUp
<1>3. stepFor("20").op = "20" /\ Arm("32").op = "32" /\ Arm("34").op = "34"
  BY OwnSteps, StepIsLegal, ArmsAreLegal
<1>4. \/ wire' = wire /\ pc' = "close"
      \/ wire' = Append(wire, Sent(f, from)) /\ pc' \in {label, "close"}
  BY <1>2, SendStep
<1>5. CASE wire' = wire /\ pc' = "close"
  BY <1>1, <1>5, TouchStays DEF EndPlaces
<1>6. CASE wire' = Append(wire, Sent(f, from)) /\ pc' \in {label, "close"}
  <2> DEFINE m == Sent(f, from)
  <2>1. m.op = f.op /\ m.from = from /\ m.dir = "out" /\ wire' = Append(wire, m)
    BY <1>6 DEF Sent
  <2> HIDE DEF m
  <2>2. cfg.waitFinger => Follows(wire, m)
    <3>1. CASE pc = "image"
      BY <1>2, <1>3, <2>1, <3>1, MayFollow DEF TouchOK
    <3>2. CASE pc = "armDown"
      BY <1>2, <1>3, <2>1, <3>2, MayFollow DEF TouchOK
    <3>3. CASE pc = "armUp"
      BY <1>2, <1>3, <2>1, <3>3, MayFollow DEF TouchOK
    <3>4. QED
      BY <1>2, <3>1, <3>2, <3>3
  <2>3. OrderOK'
    BY <1>1, <2>1, <2>2, OrderStep DEF TouchOK
  <2>4. pc' = "imageRead" /\ cfg.waitFinger => AfterImage' /\ touch'.down = Len(wire') - 1
    <3>1. SUFFICES ASSUME pc' = "imageRead", cfg.waitFinger PROVE AfterImage' /\ touch'.down = Len(wire') - 1
      OBVIOUS
    <3>2. pc = "image" /\ m.op = "20"
      BY <1>2, <1>3, <1>6, <2>1, <3>1
    <3>3. AfterDown /\ touch.down = Len(wire)
      BY <3>1, <3>2 DEF TouchOK
    <3>4. QED
      BY <1>1, <2>1, <3>2, <3>3, WhatFollows
  <2>5. pc' \in {"imageRead", "waitDown", "waitUp", "close"}
    BY <1>2, <1>6
  <2>6. QED
    BY <1>1, <2>3, <2>4, <2>5 DEF TouchOK, TouchPlaces, EndPlaces, Steps
<1>7. QED
  BY <1>4, <1>5, <1>6

LEMMA TouchWaits ==
  ASSUME TouchOK, WireOK, TypeOK, WaitDown \/ WaitUp
  PROVE  TouchOK'
<1>1. cfg' = cfg /\ pc \in {"waitDown", "waitUp"} /\ ret' = ret
  BY DEF WaitDown, WaitUp
<1>2. PICK t : \/ wire' = wire /\ touch' = touch /\ pc' \in {pc, "close"}
               \/ /\ wire' = Append(wire, Heard(t))
                  /\ \/ pc' = "close"
                     \/ pc' = "image" /\ t.ev = "down" /\ touch' = [touch EXCEPT !.down = Len(wire) + 1]
                     \/ /\ pc' = "armDown" /\ t.ev = "baseInvalid"
                        /\ touch' = [touch EXCEPT !.attempt = @ + 1, !.thresholds = Len(wire) + 1]
                     \/ pc' = "armDown" /\ t.ev = "up" /\ touch' = NextTouch(Len(wire) + 1)
  BY DEF WaitDown, WaitUp, Goto, Fail
<1>3. CASE wire' = wire /\ touch' = touch /\ pc' \in {pc, "close"}
  BY <1>1, <1>3, TouchStays DEF EndPlaces
<1>4. CASE /\ wire' = Append(wire, Heard(t))
           /\ \/ pc' = "close"
              \/ pc' = "image" /\ t.ev = "down" /\ touch' = [touch EXCEPT !.down = Len(wire) + 1]
              \/ /\ pc' = "armDown" /\ t.ev = "baseInvalid"
                 /\ touch' = [touch EXCEPT !.attempt = @ + 1, !.thresholds = Len(wire) + 1]
              \/ pc' = "armDown" /\ t.ev = "up" /\ touch' = NextTouch(Len(wire) + 1)
  <2> DEFINE m == Heard(t)
  <2>1. m.dir = "in" /\ m.ev = t.ev /\ wire' = Append(wire, m)
    BY <1>4 DEF Heard
  <2> HIDE DEF m
  <2>2. OrderOK'
    BY <1>1, <2>1, MayFollow, OrderStep DEF TouchOK
  <2>3. /\ Len(wire') = Len(wire) + 1
        /\ t.ev \in {"baseInvalid", "up"} => AfterEvent'
        /\ t.ev = "down" => AfterDown'
    BY <2>1, WhatFollows
  <2>4. touch \in [n : Nat, attempt : 0..MaxBaseRearms, thresholds : Nat, down : Nat]
    BY DEF TypeOK
  <2>5. CASE pc' = "close"
    BY <2>2, <2>5 DEF TouchOK, TouchPlaces, EndPlaces, Steps
  <2>6. CASE pc' = "image" /\ t.ev = "down" /\ touch' = [touch EXCEPT !.down = Len(wire) + 1]
    <3>1. touch'.down = Len(wire')
      BY <2>3, <2>4, <2>6
    <3>2. QED
      BY <2>2, <2>3, <2>6, <3>1 DEF TouchOK, TouchPlaces, EndPlaces, Steps
  <2>7. CASE pc' = "armDown" /\ t.ev \in {"baseInvalid", "up"} /\ touch'.thresholds = Len(wire) + 1
    BY <2>2, <2>3, <2>7 DEF TouchOK, TouchPlaces, EndPlaces, Steps
  <2>8. CASE /\ pc' = "armDown" /\ t.ev = "baseInvalid"
             /\ touch' = [touch EXCEPT !.attempt = @ + 1, !.thresholds = Len(wire) + 1]
    <3>1. touch'.thresholds = Len(wire) + 1
      BY <2>4, <2>8
    <3>2. QED
      BY <2>7, <2>8, <3>1
  <2>9. CASE pc' = "armDown" /\ t.ev = "up" /\ touch' = NextTouch(Len(wire) + 1)
    <3>1. touch'.thresholds = Len(wire) + 1
      BY <2>9 DEF NextTouch
    <3>2. QED
      BY <2>7, <2>9, <3>1
  <2>10. QED
    BY <1>4, <2>5, <2>6, <2>8, <2>9
<1>5. QED
  BY <1>2, <1>3, <1>4

LEMMA InitTouch ==
  ASSUME Init
  PROVE  TouchOK
<1>1. wire = <<>> /\ pc = "main" /\ touch.thresholds = Vendor
  BY DEF Init
<1>2. Len(wire) = 0 /\ 1..0 = {}
  BY <1>1
<1>3. OrderOK /\ NoArm /\ NoSession
  BY <1>2 DEF OrderOK, Ordered, NoArm, NoSession
<1>4. QED
  BY <1>1, <1>3 DEF TouchOK, TouchPlaces, EndPlaces

LEMMA NextTouchOK ==
  ASSUME IInv, GateOK, TouchOK, [Next]_vars
  PROVE  TouchOK'
<1>1. WireOK /\ TypeOK
  BY DEF IInv
<1>2. CASE \/ main \/ prepareTLS \/ OpenLog \/ Open \/ Claim \/ ClaimFails \/ drain \/ collect \/ StateReads \/ Stuck
           \/ StepsDone \/ CloseTransport \/ Teardown
  BY <1>1, <1>2, TouchBefore
<1>3. CASE HealthReads
  BY <1>1, <1>3, TouchHealth
<1>4. CASE checkECResponsive \/ readStuckState \/ Step \/ runTLS \/ sendAndCollect
  BY <1>1, <1>4, TouchSends
<1>5. CASE captureFrame \/ ArmDown \/ ArmUp
  BY <1>1, <1>5, TouchTakes
<1>6. CASE Handshake \/ Capture \/ ImageReads \/ WaitExpires
  BY <1>6, TouchWorks
<1>7. CASE WaitDown \/ WaitUp
  BY <1>1, <1>7, TouchWaits
<1>8. CASE UNCHANGED vars
  <2>1. UNCHANGED <<cfg, wire, touch, pc, ret>>
    BY <1>8 DEF vars, run
  <2>2. QED
    BY <2>1, TouchStays
<1>9. QED
  BY <1>2, <1>3, <1>4, <1>5, <1>6, <1>7, <1>8, Zenon DEF Next

LEMMA ProbeTouchInductive == Spec => []TouchOK
<1>1. IInv /\ GateOK /\ TouchOK /\ [Next]_vars => TouchOK'
  BY NextTouchOK
<1>2. QED
  BY InitTouch, ProbeInductive, ProbeGateInductive, <1>1, PTL DEF Spec

\* For every command line and whatever is read from USB: with --wait-finger,
\* each arm carries the thresholds of the newest event, which is of the right
\* kind for it, and an image of the session is asked for once, between the event
\* of the finger that came and the arm for its lift (touchOnce, captureOnTouch).
THEOREM ProbeTouchesInOrder == Spec => []TouchesInOrder
<1>1. IInv /\ TouchOK => TouchesInOrder
  BY OrderIsOrder DEF IInv, TouchOK
<1>2. QED
  BY ProbeInductive, ProbeTouchInductive, <1>1, PTL

-----------------------------------------------------------------------------
(* The commands of a run, counted *)

Cmd(m) == m.dir = "out" /\ ~fdtArm(m.op)
Count(w, n) == Cardinality({i \in 1..n : Cmd(w[i])})

\* w tells c commands of the list C, in its order.
Tells(w, C, c) ==
  /\ Count(w, Len(w)) = c
  /\ \A i \in 1..Len(w) : Cmd(w[i]) => w[i].op = C[Count(w, i)]

LEMMA CountGrows ==
  ASSUME NEW S, NEW w \in Seq(S), NEW C, NEW c \in Nat, Tells(w, C, c), NEW m
  PROVE  /\ Cmd(m) /\ m.op = C[c + 1] => Tells(Append(w, m), C, c + 1)
         /\ ~Cmd(m) => Tells(Append(w, m), C, c)
<1> DEFINE v == Append(w, m)
<1>1. PICK n \in Nat : n = Len(w)
  BY LenProperties
<1>2. /\ Len(v) = n + 1 /\ v[n + 1] = m
      /\ \A i \in 1..n : v[i] = w[i]
  BY <1>1, Grows
<1> HIDE DEF v
<1>3. \A i \in 1..n : Count(v, i) = Count(w, i)
  <2>1. SUFFICES ASSUME NEW i \in 1..n PROVE Count(v, i) = Count(w, i)
    OBVIOUS
  <2>2. {j \in 1..i : Cmd(v[j])} = {j \in 1..i : Cmd(w[j])}
    BY <1>2
  <2>3. QED
    BY <2>2 DEF Count
<1> DEFINE T == {j \in 1..n : Cmd(w[j])}
           U == {j \in 1..(n + 1) : Cmd(v[j])}
<1>4. IsFiniteSet(T) /\ Cardinality(T) = c
  <2>1. IsFiniteSet(1..n) /\ T \in SUBSET (1..n)
    BY FS_Interval
  <2>2. IsFiniteSet(T)
    BY <2>1, FS_Subset
  <2>3. QED
    BY <1>1, <2>2 DEF Tells, Count
<1>5. n + 1 \notin T
  OBVIOUS
<1>6. \A j \in 1..(n + 1) : j \in 1..n \/ j = n + 1
  OBVIOUS
<1>7. \A i \in 1..n : Cmd(v[i]) => v[i].op = C[Count(v, i)]
  BY <1>1, <1>2, <1>3 DEF Tells
<1>8. ASSUME Cmd(m), m.op = C[c + 1]
      PROVE  Tells(v, C, c + 1)
  <2>1. U = T \cup {n + 1}
    BY <1>2, <1>6, <1>8
  <2>2. Count(v, n + 1) = c + 1
    <3>1. Cardinality(T \cup {n + 1}) = c + 1
      <4> HIDE DEF T
      <4>1. QED
        BY <1>4, <1>5, FS_AddElement
    <3>2. QED
      BY <2>1, <3>1 DEF Count
  <2>3. QED
    BY <1>2, <1>6, <1>7, <1>8, <2>2 DEF Tells
<1>9. ASSUME ~Cmd(m)
      PROVE  Tells(v, C, c)
  <2>1. U = T
    BY <1>2, <1>6, <1>9
  <2>2. Count(v, n + 1) = c
    BY <1>4, <2>1 DEF Count
  <2>3. QED
    BY <1>2, <1>6, <1>7, <1>9, <2>2 DEF Tells
<1>10. QED
  BY <1>8, <1>9 DEF v

First == IF cfg.replay THEN 0 ELSE 1
D4s == IF "d4" \in cfg.allow THEN 1 ELSE 0
BeforeFrames == First + Len(cfg.steps) + 1 + D4s

LEMMA Joined ==
  ASSUME NEW T, NEW a \in Seq(T), NEW b \in Seq(T)
  PROVE  /\ a \o b \in Seq(T) /\ Len(a \o b) = Len(a) + Len(b)
         /\ \A i \in 1..Len(a) : (a \o b)[i] = a[i]
         /\ \A i \in 1..Len(b) : (a \o b)[Len(a) + i] = b[i]
<1>1. PICK la \in Nat, lb \in Nat : la = Len(a) /\ lb = Len(b)
  BY LenProperties
<1>2. /\ a \o b \in Seq(T) /\ Len(a \o b) = la + lb
      /\ \A i \in 1..(la + lb) : (a \o b)[i] = IF i <= la THEN a[i] ELSE b[i - la]
  BY <1>1, ConcatProperties
<1>3. /\ \A i \in 1..la : i \in 1..(la + lb) /\ i <= la
      /\ \A i \in 1..lb : la + i \in 1..(la + lb) /\ ~(la + i <= la) /\ (la + i) - la = i
  BY <1>1
<1>4. QED
  BY <1>1, <1>2, <1>3

LEMMA OneCommand ==
  ASSUME NEW T, NEW x \in T
  PROVE  <<x>> \in Seq(T) /\ Len(<<x>>) = 1 /\ <<x>>[1] = x
<1>1. <<x>> \in Seq(T)
  OBVIOUS
<1>2. Len(<<x>>) = 1
  OBVIOUS
<1>3. <<x>>[1] = x
  OBVIOUS
<1>4. QED
  BY <1>1, <1>2, <1>3

LEMMA NoCommand ==
  ASSUME NEW T
  PROVE  <<>> \in Seq(T) /\ Len(<<>>) = 0
OBVIOUS

LEMMA SameCommand ==
  ASSUME NEW T, NEW x \in T, NEW N \in Nat
  PROVE  Repeat(x, N) \in Seq(T) /\ Len(Repeat(x, N)) = N /\ \A j \in 1..N : Repeat(x, N)[j] = x
<1> DEFINE r == [i \in 1..N |-> x]
<1>1. r \in [1..N -> T]
  OBVIOUS
<1>2. DOMAIN r = 1..N
  OBVIOUS
<1>3. \A j \in 1..N : r[j] = x
  OBVIOUS
<1>4. r = Repeat(x, N)
  BY DEF Repeat
<1> HIDE DEF r
<1>5. r \in Seq(T)
  BY <1>1, SeqDef
<1>6. PICK l \in Nat : l = Len(r)
  BY <1>5, LenProperties
<1>7. 1..l = 1..N
  BY <1>2, <1>5, <1>6, LenProperties
<1>8. l = N
  <2>1. (l # 0 => l \in 1..l) /\ (N # 0 => N \in 1..N)
    OBVIOUS
  <2>2. (l # 0 => l \in 1..N) /\ (N # 0 => N \in 1..l)
    BY <1>7, <2>1
  <2>3. QED
    BY <2>2
<1>9. QED
  BY <1>3, <1>4, <1>5, <1>6, <1>8

LEMMA CommandsAre ==
  ASSUME cfg.steps \in Seq(STRING), Total \in Nat
  PROVE  /\ Len(cfg.steps) \in Nat
         /\ Len(Commands) = IF ~cfg.tls THEN First + Len(cfg.steps)
                            ELSE IF cfg.capture THEN BeforeFrames + Total ELSE BeforeFrames
         /\ ~cfg.replay => Commands[1] = "a8"
         /\ \A j \in 1..Len(cfg.steps) : Commands[First + j] = cfg.steps[j]
         /\ cfg.tls => Commands[First + Len(cfg.steps) + 1] = "d0"
         /\ cfg.tls /\ "d4" \in cfg.allow => Commands[First + Len(cfg.steps) + 2] = "d4"
         /\ cfg.tls /\ cfg.capture => \A j \in 1..Total : Commands[BeforeFrames + j] = "20"
<1> DEFINE s == cfg.steps
<1>0. PICK T : T = STRING \cup {"a8", "d0", "d4", "20"}
  OBVIOUS
<1>a. "a8" \in T /\ "d0" \in T /\ "d4" \in T /\ "20" \in T
  BY <1>0
<1>b. s \in Seq(T)
  <2>1. PICK q \in Seq(STRING) : q = s
    OBVIOUS
  <2> HIDE DEF s
  <2>2. Len(q) \in Nat /\ q \in [1..Len(q) -> STRING]
    BY LenProperties
  <2>3. q \in [1..Len(q) -> T]
    BY <1>0, <2>2
  <2>4. QED
    BY <2>1, <2>2, <2>3, SeqDef
<1>1. PICK a \in Seq(T) : a = IF cfg.replay THEN <<>> ELSE <<"a8">>
  BY <1>a, NoCommand, OneCommand
<1>2. First \in Nat /\ Len(a) = First /\ (~cfg.replay => First = 1 /\ a[1] = "a8")
  BY <1>1, <1>a, NoCommand, OneCommand DEF First
<1>3. PICK e \in Seq(T) : e = IF "d4" \in cfg.allow THEN <<"d4">> ELSE <<>>
  BY <1>a, NoCommand, OneCommand
<1>4. D4s \in Nat /\ Len(e) = D4s /\ ("d4" \in cfg.allow => D4s = 1 /\ e[1] = "d4")
  BY <1>3, <1>a, NoCommand, OneCommand DEF D4s
<1>5. PICK g \in Seq(T) : g = IF cfg.capture THEN Repeat("20", Total) ELSE <<>>
  BY <1>a, NoCommand, SameCommand
<1>6. PICK G \in Nat : G = IF cfg.capture THEN Total ELSE 0
  OBVIOUS
<1>7. Len(g) = G /\ (cfg.capture => \A j \in 1..G : g[j] = "20")
  <2>1. CASE cfg.capture
    BY <1>a, <1>5, <1>6, <2>1, SameCommand
  <2>2. CASE ~cfg.capture
    BY <1>5, <1>6, <2>2, NoCommand
  <2>3. QED
    BY <2>1, <2>2
<1>8. PICK L \in Nat : L = Len(s)
  BY <1>b, LenProperties
<1>9. PICK d \in Seq(T) : d = <<"d0">>
  BY <1>a, OneCommand
<1>10. Len(d) = 1 /\ d[1] = "d0"
  BY <1>a, <1>9, OneCommand
<1>11. CASE cfg.tls
  <2>1. Commands = (a \o s) \o (d \o (e \o g))
    <3>1. Commands = (a \o s) \o ((d \o e) \o g) \/ Commands = (a \o s) \o (d \o (e \o g))
      BY <1>1, <1>3, <1>5, <1>9, <1>11 DEF Commands
    <3>2. (d \o e) \o g = d \o (e \o g)
      BY ConcatAssociative
    <3>3. QED
      BY <3>1, <3>2
  <2>2. PICK A \in Nat : A = First
    BY <1>2
  <2>3. PICK E \in Nat : E = D4s
    BY <1>4
  <2>4. Len(a) = A /\ Len(s) = L /\ Len(d) = 1 /\ Len(e) = E /\ Len(g) = G
    BY <1>2, <1>4, <1>7, <1>8, <1>10, <2>2, <2>3
  <2> HIDE DEF s
  <2>5. s \in Seq(T)
    BY <1>b DEF s
  <2>6. PICK as, eg, deg : as = a \o s /\ eg = e \o g /\ deg = d \o eg
    OBVIOUS
  <2>a. /\ as \in Seq(T) /\ Len(as) = A + L
        /\ \A i \in 1..A : as[i] = a[i]
        /\ \A i \in 1..L : as[A + i] = s[i]
    <3>1. /\ a \o s \in Seq(T) /\ Len(a \o s) = Len(a) + Len(s)
          /\ \A i \in 1..Len(a) : (a \o s)[i] = a[i]
          /\ \A i \in 1..Len(s) : (a \o s)[Len(a) + i] = s[i]
      BY ONLY Joined, a \in Seq(T), <2>5
    <3>2. QED
      BY ONLY <2>4, <2>6, <3>1
  <2>b. /\ eg \in Seq(T) /\ Len(eg) = E + G
        /\ \A i \in 1..E : eg[i] = e[i]
        /\ \A i \in 1..G : eg[E + i] = g[i]
    <3>1. /\ e \o g \in Seq(T) /\ Len(e \o g) = Len(e) + Len(g)
          /\ \A i \in 1..Len(e) : (e \o g)[i] = e[i]
          /\ \A i \in 1..Len(g) : (e \o g)[Len(e) + i] = g[i]
      BY ONLY Joined, e \in Seq(T), g \in Seq(T)
    <3>2. QED
      BY ONLY <2>4, <2>6, <3>1
  <2>c. /\ deg \in Seq(T) /\ Len(deg) = 1 + (E + G)
        /\ deg[1] = d[1]
        /\ \A i \in 1..(E + G) : deg[1 + i] = eg[i]
    <3>1. /\ d \o eg \in Seq(T) /\ Len(d \o eg) = Len(d) + Len(eg)
          /\ \A i \in 1..Len(d) : (d \o eg)[i] = d[i]
          /\ \A i \in 1..Len(eg) : (d \o eg)[Len(d) + i] = eg[i]
      <4>1. eg \in Seq(T)
        BY <2>b
      <4>2. QED
        BY ONLY Joined, d \in Seq(T), <4>1
    <3>2. 1 \in 1..1
      OBVIOUS
    <3>3. QED
      BY ONLY <2>4, <2>6, <2>b, <3>1, <3>2
  <2>7. PICK C : C = Commands
    OBVIOUS
  <2>d. /\ Len(C) = (A + L) + (1 + (E + G))
        /\ \A i \in 1..(A + L) : C[i] = as[i]
        /\ \A i \in 1..(1 + (E + G)) : C[(A + L) + i] = deg[i]
    <3>1. /\ Len(as \o deg) = Len(as) + Len(deg)
          /\ \A i \in 1..Len(as) : (as \o deg)[i] = as[i]
          /\ \A i \in 1..Len(deg) : (as \o deg)[Len(as) + i] = deg[i]
      <4>1. PICK x, y : x = as /\ y = deg
        OBVIOUS
      <4>2. x \in Seq(T)
        BY <2>a, <4>1
      <4>3. y \in Seq(T)
        BY <2>c, <4>1
      <4>4. /\ Len(x \o y) = Len(x) + Len(y)
            /\ \A i \in 1..Len(x) : (x \o y)[i] = x[i]
            /\ \A i \in 1..Len(y) : (x \o y)[Len(x) + i] = y[i]
        BY ONLY Joined, <4>2, <4>3
      <4>5. QED
        BY <4>1, <4>4
    <3>2. C = as \o deg
      BY <2>1, <2>6, <2>7
    <3>3. QED
      BY ONLY <2>a, <2>c, <3>1, <3>2
  <2>e. \A i \in 1..A : C[i] = a[i]
    <3>1. \A i \in 1..A : i \in 1..(A + L)
      OBVIOUS
    <3>2. QED
      BY ONLY <2>a, <2>d, <3>1
  <2>f. \A i \in 1..L : C[A + i] = s[i]
    <3>1. \A i \in 1..L : A + i \in 1..(A + L)
      OBVIOUS
    <3>2. QED
      BY ONLY <2>a, <2>d, <3>1
  <2>g. C[A + L + 1] = d[1]
    <3>1. 1 \in 1..(1 + (E + G)) /\ A + L + 1 = (A + L) + 1
      OBVIOUS
    <3>2. QED
      BY ONLY <2>c, <2>d, <3>1
  <2>h. \A i \in 1..(E + G) : C[(A + L) + (1 + i)] = eg[i]
    <3>1. \A i \in 1..(E + G) : 1 + i \in 1..(1 + (E + G))
      OBVIOUS
    <3>2. QED
      BY ONLY <2>c, <2>d, <3>1
  <2>i. \A i \in 1..E : C[A + L + 1 + i] = e[i]
    <3>1. TAKE i \in 1..E
    <3>2. i \in 1..(E + G) /\ A + L + 1 + i = (A + L) + (1 + i)
      OBVIOUS
    <3>3. C[(A + L) + (1 + i)] = eg[i] /\ eg[i] = e[i]
      BY ONLY <2>b, <2>h, <3>2, i \in 1..E
    <3>4. QED
      BY <3>2, <3>3
  <2>j. \A i \in 1..G : C[A + L + 1 + E + i] = g[i]
    <3>1. TAKE i \in 1..G
    <3>2. E + i \in 1..(E + G) /\ A + L + 1 + E + i = (A + L) + (1 + (E + i))
      OBVIOUS
    <3>3. C[(A + L) + (1 + (E + i))] = eg[E + i] /\ eg[E + i] = g[i]
      BY ONLY <2>b, <2>h, <3>2, i \in 1..G
    <3>4. QED
      BY <3>2, <3>3
  <2>8. BeforeFrames = A + L + 1 + E
    BY <1>8, <2>2, <2>3 DEF BeforeFrames, s
  <2>9. ~cfg.replay => C[1] = "a8"
    BY <1>2, <2>2, <2>e
  <2>10. "d4" \in cfg.allow => C[A + L + 2] = "d4"
    <3>1. SUFFICES ASSUME "d4" \in cfg.allow PROVE C[A + L + 2] = "d4"
      OBVIOUS
    <3>2. E = 1 /\ e[1] = "d4"
      BY <1>4, <2>3, <3>1
    <3>3. 1 \in 1..E /\ A + L + 1 + 1 = A + L + 2
      BY <3>2
    <3>4. C[A + L + 1 + 1] = e[1]
      BY <2>i, <3>3
    <3>5. QED
      BY <3>2, <3>3, <3>4
  <2>11. cfg.capture => \A j \in 1..Total : C[A + L + 1 + E + j] = "20"
    <3>1. SUFFICES ASSUME cfg.capture, NEW j \in 1..G PROVE C[A + L + 1 + E + j] = "20"
      BY <1>6
    <3>2. C[A + L + 1 + E + j] = g[j] /\ g[j] = "20"
      BY <1>7, <2>j, <3>1
    <3>3. QED
      BY <3>2
  <2>12. Len(C) = IF cfg.capture THEN BeforeFrames + Total ELSE BeforeFrames
    BY <1>6, <2>8, <2>d
  <2>13. L = Len(cfg.steps) /\ s = cfg.steps
    BY <1>8 DEF s
  <2>14. QED
    BY <1>10, <1>11, <2>2, <2>7, <2>8, <2>9, <2>10, <2>11, <2>12, <2>13, <2>f, <2>g
<1>12. CASE ~cfg.tls
  <2>1. Commands = (a \o s) \o <<>>
    BY <1>1, <1>12 DEF Commands
  <2>2. a \o s \in Seq(T)
    BY <1>b, ConcatProperties
  <2>3. Commands = a \o s
    BY <2>1, <2>2, ConcatEmptySeq
  <2>4. PICK A \in Nat : A = First
    BY <1>2
  <2>5. Len(a) = A /\ Len(s) = L
    BY <1>2, <1>8, <2>4
  <2>6. PICK C : C = Commands
    OBVIOUS
  <2> HIDE DEF s
  <2>7. s \in Seq(T)
    BY <1>b DEF s
  <2>8. Len(C) = A + L /\ (\A i \in 1..A : C[i] = a[i]) /\ \A i \in 1..L : C[A + i] = s[i]
    <3>1. /\ Len(a \o s) = Len(a) + Len(s)
          /\ \A i \in 1..Len(a) : (a \o s)[i] = a[i]
          /\ \A i \in 1..Len(s) : (a \o s)[Len(a) + i] = s[i]
      BY <2>7, Joined
    <3>2. QED
      BY <2>3, <2>5, <2>6, <3>1
  <2>9. ~cfg.replay => C[1] = "a8"
    BY <1>2, <2>4, <2>8
  <2>10. L = Len(cfg.steps) /\ s = cfg.steps
    BY <1>8 DEF s
  <2>11. QED
    BY <1>12, <2>4, <2>6, <2>8, <2>9, <2>10
<1>13. QED
  BY <1>11, <1>12

\* The commands told by each point of a run that is still going.
Going ==
  err = "nil" /\ pc \notin {"state", "stateRead", "stuck"} /\ ~(pc = "drain" /\ ret = "stuck")
ToldOK ==
  /\ pc \in Early \/ (pc = "drain" /\ ret = "health") => Tells(wire, Commands, 0)
  /\ pc = "healthRead" => Tells(wire, Commands, 1)
  /\ pc = "step" \/ (pc \in {"drain", "collect"} /\ ret = "step") => Tells(wire, Commands, First + k - 1)
  /\ pc = "request" => Tells(wire, Commands, First + Len(cfg.steps))
  /\ pc \in {"handshake", "established"} => Tells(wire, Commands, First + Len(cfg.steps) + 1)
  /\ pc = "capture" \/ (pc = "collect" /\ ret = "d4") => Tells(wire, Commands, BeforeFrames)
  /\ pc \in {"image", "armDown", "waitDown"} => Tells(wire, Commands, BeforeFrames + touch.n - 1)
  /\ pc \in {"imageRead", "armUp", "waitUp"} => Tells(wire, Commands, BeforeFrames + touch.n)
  /\ pc \in EndPlaces => /\ Tells(wire, Commands, Len(Commands))
                         /\ frames = IF cfg.capture THEN [n \in 1..Total |-> n] ELSE <<>>

\* And which step and which touch is next.
CountsOK ==
  /\ k <= Len(cfg.steps) + 1
  /\ pc \in {"claim", "health", "healthRead", "state", "stateRead", "stuck"}
       \/ (pc = "drain" /\ ret \in {"health", "stuck"}) => ~cfg.replay
  /\ pc \in Early \cup {"healthRead"} \/ (pc = "drain" /\ ret = "health") => k = 1
  /\ pc \notin TouchPlaces \cup EndPlaces => frames = <<>> /\ touch.n = 1
  /\ pc \in TouchPlaces => touch.n \in 1..Total
  /\ pc \in {"image", "imageRead", "armDown", "waitDown"} => frames = [n \in 1..(touch.n - 1) |-> n]
  /\ pc \in {"armUp", "waitUp"} => frames = [n \in 1..touch.n |-> n]

TruthOK == CountsOK /\ (Going => ToldOK)

LEMMA Configured ==
  ASSUME TypeOK, GateOK
  PROVE  /\ cfg.steps \in Seq(STRING) /\ Len(cfg.steps) \in Nat /\ k \in Nat /\ k >= 1 /\ First \in {0, 1}
         /\ D4s \in {0, 1} /\ touch.n \in Nat
         /\ ~Refuses \/ ~cfg.waitFinger => Total \in Nat \ {0}
<1>1. cfg.steps \in Seq(STRING)
  BY StepsAreLists DEF TypeOK
<1>2. Len(cfg.steps) \in Nat
  BY <1>1, LenProperties
<1>3. First \in {0, 1} /\ D4s \in {0, 1}
  BY DEF First, D4s
<1>4. k \in Nat /\ k >= 1 /\ touch.n \in Nat
  BY DEF TypeOK, GateOK, PlaceOK
<1>5. ~Refuses \/ ~cfg.waitFinger => Total \in Nat \ {0}
  <2>1. CASE ~cfg.waitFinger
    BY <2>1 DEF Total
  <2>2. CASE ~Refuses /\ cfg.waitFinger
    <3>1. cfg.touches \in 0..MaxTouches
      BY <2>2 DEF Refuses, validate
    <3>2. QED
      BY <3>1, Touches DEF Total
  <2>3. QED
    BY <2>1, <2>2
<1>6. QED
  BY <1>1, <1>2, <1>3, <1>4, <1>5

LEMMA SameCommands ==
  ASSUME cfg' = cfg
  PROVE  /\ Commands' = Commands /\ First' = First /\ BeforeFrames' = BeforeFrames /\ Total' = Total
         /\ Len(Commands') = Len(Commands)
BY DEF Commands, First, D4s, BeforeFrames, Total

\* A frame more, and another message more.
LEMMA TellsStep ==
  ASSUME WireOK, NEW c \in Nat, Tells(wire, Commands, c), NEW m, wire' = Append(wire, m), cfg' = cfg
  PROVE  /\ Cmd(m) /\ m.op = Commands[c + 1] => Tells(wire', Commands', c + 1)
         /\ ~Cmd(m) => Tells(wire', Commands', c)
<1>1. PICK S : wire \in Seq(S)
  BY DEF WireOK
<1>2. PICK C : C = Commands /\ C = Commands'
  BY SameCommands
<1>3. /\ Cmd(m) /\ m.op = C[c + 1] => Tells(Append(wire, m), C, c + 1)
      /\ ~Cmd(m) => Tells(Append(wire, m), C, c)
  BY <1>1, <1>2, CountGrows
<1>4. QED
  BY <1>2, <1>3

\* Send goes on only with the frame sent.
LEMMA SendGoesOn ==
  ASSUME NEW f, NEW from, NEW extra, NEW label, Send(f, from, extra, label), err' = "nil"
  PROVE  err = "nil" /\ pc' = label /\ wire' = Append(wire, Sent(f, from))
BY DEF Send, Goto, Fail

\* The send of the next command.
LEMMA TellsSend ==
  ASSUME WireOK, NEW op, NEW label, Send(stepFor(op), Vendor, <<>>, label), err' = "nil", cfg' = cfg,
         stepFor(op).op = op, ~fdtArm(op), NEW c \in Nat, Tells(wire, Commands, c), op = Commands[c + 1]
  PROVE  pc' = label /\ Tells(wire', Commands', c + 1)
<1> DEFINE m == Sent(stepFor(op), Vendor)
<1>1. pc' = label /\ wire' = Append(wire, m)
  BY SendGoesOn
<1>2. Cmd(m) /\ m.op = op
  BY DEF Sent, Cmd
<1> HIDE DEF m
<1>3. QED
  BY <1>1, <1>2, TellsStep

-----------------------------------------------------------------------------
(* The commands, action by action *)

LEMMA TruthBefore ==
  ASSUME TruthOK, main \/ prepareTLS \/ OpenLog \/ Open \/ Claim \/ ClaimFails
  PROVE  TruthOK'
<1>1. UNCHANGED <<cfg, k, touch, frames, wire>>
  BY DEF main, prepareTLS, OpenLog, Open, Claim, ClaimFails
<1>2. /\ pc \in Early
      /\ \/ pc' \in {"prepare", "log", "open"} \/ (pc' = "claim" /\ ~cfg.replay)
         \/ pc' = "close" /\ err' # "nil"
         \/ pc' = "drain" /\ ret' = "step" /\ cfg.replay
         \/ pc' = "drain" /\ ret' = "health" /\ ~cfg.replay
  BY DEF TruthOK, CountsOK, main, prepareTLS, OpenLog, Open, Claim, ClaimFails, Early, Goto, Fail, StartDrain
<1>3. err' = "nil" => err = "nil"
  BY DEF main, prepareTLS, OpenLog, Open, Claim, ClaimFails, Goto, Fail
<1>4. CountsOK'
  BY <1>1, <1>2, SameCommands DEF TruthOK, CountsOK, Early, TouchPlaces, EndPlaces
<1>5. Going' => ToldOK'
  <2>1. SUFFICES ASSUME Going' PROVE ToldOK'
    OBVIOUS
  <2>2. err = "nil" /\ pc' # "close" /\ Tells(wire, Commands, 0) /\ k = 1
    BY <1>2, <1>3, <2>1 DEF Going, TruthOK, ToldOK, CountsOK, Early
  <2>3. Tells(wire', Commands', 0)
    BY <1>1, <2>2, SameCommands
  <2>4. cfg.replay => First' + k' - 1 = 0
    BY <1>1, <2>2 DEF First
  <2>5. QED
    BY <1>2, <2>2, <2>3, <2>4 DEF ToldOK, Early, EndPlaces
<1>6. QED
  BY <1>4, <1>5 DEF TruthOK

LEMMA TruthReads ==
  ASSUME TruthOK, WireOK, drain \/ collect \/ StateReads \/ Stuck
  PROVE  TruthOK'
<1>1. UNCHANGED <<cfg, k, touch, frames, wire>>
  BY DEF drain, collect, StateReads, Stuck
<1>2. err' = "nil" => err = "nil"
  BY DEF drain, collect, StateReads, Stuck, Goto, Fail
<1>3. \/ pc = "drain" /\ ret' = ret /\ pc' \in {"drain", ret}
      \/ pc = "collect" /\ ret' = ret /\ pc' = "collect"
      \/ pc = "collect" /\ ret' = ret /\ pc' = IF ret = "d4" THEN "capture" ELSE "drain"
      \/ pc = "stateRead" /\ pc' = "stateRead"
      \/ pc = "stateRead" /\ pc' = "drain" /\ ret' = "stuck"
      \/ pc \in {"collect", "stateRead", "stuck"} /\ pc' = "close" /\ err' # "nil"
  BY DEF drain, collect, StateReads, Stuck, Goto, Fail
<1>4. (pc = "drain" => ret \in {"health", "step", "stuck"}) /\ (pc = "collect" => ret \in {"step", "d4"})
  BY DEF WireOK
<1>5. CountsOK'
  BY <1>1, <1>3, <1>4, SameCommands DEF TruthOK, CountsOK, Early, TouchPlaces, EndPlaces
<1>6. Going' => ToldOK'
  <2>1. SUFFICES ASSUME Going' PROVE ToldOK'
    OBVIOUS
  <2>2. \/ pc = "drain" /\ ret' = ret /\ pc' \in {"drain", ret} /\ ret \in {"health", "step"}
        \/ pc = "collect" /\ ret' = ret /\ pc' = "collect"
        \/ pc = "collect" /\ ret' = ret /\ pc' = IF ret = "d4" THEN "capture" ELSE "drain"
    BY <1>3, <1>4, <2>1 DEF Going
  <2>3. Going
    BY <1>2, <2>1, <2>2 DEF Going
  <2>4. ToldOK
    BY <2>3 DEF TruthOK
  <2>5. \A c : Tells(wire, Commands, c) => Tells(wire', Commands', c)
    BY <1>1, SameCommands
  <2>6. First' = First /\ k' = k /\ BeforeFrames' = BeforeFrames
    BY <1>1, SameCommands
  <2>7. QED
    BY <1>4, <2>2, <2>4, <2>5, <2>6 DEF ToldOK, Early, EndPlaces
<1>7. QED
  BY <1>5, <1>6 DEF TruthOK

LEMMA TruthHealth ==
  ASSUME TruthOK, WireOK, HealthReads
  PROVE  TruthOK'
<1>1. pc = "healthRead" /\ UNCHANGED <<cfg, k, touch, frames>> /\ (err' = "nil" => err = "nil")
  BY DEF HealthReads, Goto, Fail
<1>2. PICK t : \/ wire' = wire /\ ((pc' = "close" /\ err' # "nil") \/ pc' \in {"state", "healthRead"})
               \/ wire' = Append(wire, Heard(t)) /\ ret' = "step" /\ pc' \in {"collect", "drain"}
  BY DEF HealthReads, Goto, Fail
<1>3. ~cfg.replay /\ k = 1
  BY <1>1 DEF TruthOK, CountsOK
<1>4. CountsOK'
  BY <1>1, <1>2, <1>3, SameCommands DEF TruthOK, CountsOK, Early, TouchPlaces, EndPlaces
<1>5. Going' => ToldOK'
  <2>1. SUFFICES ASSUME Going' PROVE ToldOK'
    OBVIOUS
  <2>2. Tells(wire, Commands, 1)
    BY <1>1, <2>1 DEF Going, TruthOK, ToldOK
  <2>3. CASE wire' = wire /\ pc' = "healthRead"
    BY <1>1, <2>2, <2>3, SameCommands DEF ToldOK, Early, EndPlaces
  <2>4. CASE wire' = Append(wire, Heard(t)) /\ ret' = "step" /\ pc' \in {"collect", "drain"}
    <3> DEFINE m == Heard(t)
    <3>1. ~Cmd(m) /\ wire' = Append(wire, m)
      BY <2>4 DEF Heard, Cmd
    <3> HIDE DEF m
    <3>2. Tells(wire', Commands', 1)
      BY <1>1, <2>2, <3>1, TellsStep
    <3>3. First' + k' - 1 = 1
      BY <1>1, <1>3 DEF First
    <3>4. QED
      BY <2>4, <3>2, <3>3 DEF ToldOK, Early, EndPlaces
  <2>5. QED
    BY <1>2, <2>1, <2>3, <2>4 DEF Going
<1>6. QED
  BY <1>4, <1>5 DEF TruthOK

\* Until the images nothing is taken and no touch counted.
LEMMA CountsSend ==
  ASSUME TruthOK, TypeOK, GateOK,
         checkECResponsive \/ readStuckState \/ Step \/ runTLS \/ sendAndCollect \/ captureFrame \/ ArmDown \/ ArmUp
  PROVE  CountsOK'
<1>1. UNCHANGED <<cfg, touch, frames>>
  BY DEF checkECResponsive, readStuckState, Step, runTLS, sendAndCollect, captureFrame, ArmDown, ArmUp
<1>2. PICK f, from, extra, label :
        /\ Send(f, from, extra, label)
        /\ \/ pc = "health" /\ label = "healthRead" /\ k' = k
           \/ pc = "state" /\ label = "stateRead" /\ k' = k
           \/ pc = "step" /\ label = "collect" /\ ret' = "step" /\ k <= Len(cfg.steps) /\ k' = k + 1
           \/ pc = "request" /\ label = "handshake" /\ k' = k
           \/ pc = "established" /\ label = "collect" /\ ret' = "d4" /\ k' = k
           \/ pc = "image" /\ label = "imageRead" /\ k' = k
           \/ pc = "armDown" /\ label = "waitDown" /\ k' = k
           \/ pc = "armUp" /\ label = "waitUp" /\ k' = k
  BY Zenon DEF checkECResponsive, readStuckState, Step, runTLS, sendAndCollect, captureFrame, ArmDown, ArmUp
<1>3. pc' \in {label, "close"}
  BY <1>2, SendStep
<1>4. Total' = Total /\ touch' = touch
  BY <1>1, SameCommands
<1>5. k \in Nat /\ Len(cfg.steps) \in Nat
  BY Configured
<1>6. k' <= Len(cfg'.steps) + 1
  BY <1>1, <1>2, <1>5 DEF TruthOK, CountsOK
<1>7. QED
  BY <1>1, <1>2, <1>3, <1>4, <1>6 DEF TruthOK, CountsOK, Early, TouchPlaces, EndPlaces

LEMMA TruthSends ==
  ASSUME TruthOK, WireOK, TypeOK, GateOK, checkECResponsive \/ Step \/ runTLS \/ sendAndCollect \/ captureFrame
  PROVE  TruthOK'
<1>1. CountsOK'
  BY CountsSend
<1>2. UNCHANGED <<cfg, touch, frames>>
  BY DEF checkECResponsive, Step, runTLS, sendAndCollect, captureFrame
<1>3. Going' => ToldOK'
  <2>1. SUFFICES ASSUME Going' PROVE ToldOK'
    OBVIOUS
  <2>2. err' = "nil"
    BY <2>1 DEF Going
  <2>3. PICK op, label :
          /\ Send(stepFor(op), Vendor, <<>>, label)
          /\ \/ pc = "health" /\ op = "a8" /\ label = "healthRead"
             \/ pc = "step" /\ op = cfg.steps[k] /\ k <= Len(cfg.steps) /\ label = "collect" /\ ret' = "step" /\ k' = k + 1
             \/ pc = "request" /\ op = "d0" /\ label = "handshake"
             \/ pc = "established" /\ op = "d4" /\ label = "collect" /\ ret' = "d4"
             \/ pc = "image" /\ op = "20" /\ label = "imageRead"
    BY Zenon DEF checkECResponsive, Step, runTLS, sendAndCollect, captureFrame
  <2>4. err = "nil" /\ pc' = label
    BY <2>2, <2>3, SendGoesOn
  <2>5. ToldOK
    BY <2>3, <2>4 DEF TruthOK, Going
  <2>6. /\ cfg.steps \in Seq(STRING) /\ Len(cfg.steps) \in Nat /\ k \in Nat /\ k >= 1 /\ First \in {0, 1}
        /\ D4s \in {0, 1} /\ touch.n \in Nat /\ Total \in Nat
    <3>1. ~Refuses
      BY <2>3 DEF GateOK, PlaceOK
    <3>2. QED
      BY <3>1, Configured
  <2>7. PICK L \in Nat, F \in Nat : L = Len(cfg.steps) /\ F = First
    BY <2>6
  <2>8. /\ ~cfg.replay => Commands[1] = "a8"
        /\ \A j \in 1..L : Commands[F + j] = cfg.steps[j]
        /\ cfg.tls => Commands[F + L + 1] = "d0"
        /\ cfg.tls /\ "d4" \in cfg.allow => Commands[F + L + 2] = "d4"
        /\ cfg.tls /\ cfg.capture => \A j \in 1..Total : Commands[BeforeFrames + j] = "20"
        /\ BeforeFrames = F + L + 1 + D4s
    BY <2>6, <2>7, CommandsAre DEF BeforeFrames
  <2>9. First' = F /\ Len(cfg'.steps) = L /\ BeforeFrames' = BeforeFrames /\ touch' = touch
    BY <1>2, <2>7, SameCommands
  <2>10. CASE pc = "health"
    <3>1. op = "a8" /\ label = "healthRead" /\ ~cfg.replay /\ Tells(wire, Commands, 0)
      BY <2>3, <2>5, <2>10 DEF ToldOK, TruthOK, CountsOK, Early
    <3>2. stepFor(op).op = op /\ ~fdtArm(op) /\ op = Commands[0 + 1]
      BY <2>8, <3>1, OwnSteps, StepIsLegal DEF fdtArm
    <3>3. Tells(wire', Commands', 0 + 1)
      BY <1>2, <2>2, <2>3, <3>1, <3>2, TellsSend
    <3>4. QED
      BY <2>4, <3>1, <3>3 DEF ToldOK, Early, EndPlaces
  <2>11. CASE pc = "step"
    <3>1. op = cfg.steps[k] /\ k \in 1..L /\ label = "collect" /\ ret' = "step" /\ k' = k + 1
      BY <2>3, <2>6, <2>7, <2>11
    <3>2. PICK c \in Nat : c = F + k - 1
      BY <3>1
    <3>3. Tells(wire, Commands, c)
      BY <2>5, <2>7, <2>11, <3>2 DEF ToldOK
    <3>4. c + 1 = F + k
      BY <3>1, <3>2
    <3>5. op = Commands[c + 1]
      BY <2>8, <3>1, <3>4
    <3>6. stepFor(op).op = op /\ ~fdtArm(op)
      <4>1. DOMAIN cfg.steps = 1..L
        BY <2>6, <2>7, LenProperties
      <4>2. op \in ToSet(cfg.steps)
        BY <3>1, <4>1 DEF ToSet
      <4>3. ~Refuses
        BY <2>11 DEF GateOK, PlaceOK
      <4>4. QED
        BY <4>2, <4>3, Flags, StepIsLegal
    <3>7. Tells(wire', Commands', c + 1)
      BY <1>2, <2>2, <2>3, <3>3, <3>5, <3>6, TellsSend
    <3>8. First' + k' - 1 = c + 1
      BY <2>9, <3>1, <3>2
    <3>9. QED
      BY <2>4, <3>1, <3>7, <3>8 DEF ToldOK, Early, EndPlaces
  <2>12. CASE pc = "request"
    <3>1. op = "d0" /\ label = "handshake" /\ cfg.tls /\ Tells(wire, Commands, F + L)
      BY <2>3, <2>5, <2>7, <2>12 DEF ToldOK, GateOK, PlaceOK
    <3>2. PICK c \in Nat : c = F + L
      OBVIOUS
    <3>3. stepFor(op).op = op /\ ~fdtArm(op) /\ op = Commands[c + 1]
      BY <2>8, <3>1, <3>2, OwnSteps, StepIsLegal DEF fdtArm
    <3>4. Tells(wire', Commands', c + 1)
      BY <1>2, <2>2, <2>3, <3>1, <3>2, <3>3, TellsSend
    <3>5. QED
      BY <2>4, <2>9, <3>1, <3>2, <3>4 DEF ToldOK, Early, EndPlaces
  <2>13. CASE pc = "established"
    <3>1. op = "d4" /\ label = "collect" /\ ret' = "d4" /\ cfg.tls /\ Tells(wire, Commands, F + L + 1)
          /\ "d4" \in opcodes(cfg)
      BY <2>3, <2>5, <2>7, <2>13 DEF ToldOK, GateOK, PlaceOK, InTLS, TLSPlaces
    <3>2. "d4" \in cfg.allow
      BY <3>1 DEF opcodes
    <3>3. PICK c \in Nat : c = F + L + 1
      OBVIOUS
    <3>4. c + 1 = F + L + 2 /\ BeforeFrames = c + 1
      BY <2>8, <3>2, <3>3 DEF D4s
    <3>5. stepFor(op).op = op /\ ~fdtArm(op) /\ op = Commands[c + 1]
      BY <2>8, <3>1, <3>2, <3>4, OwnSteps, StepIsLegal DEF fdtArm
    <3>6. Tells(wire', Commands', c + 1)
      BY <1>2, <2>2, <2>3, <3>1, <3>3, <3>5, TellsSend
    <3>7. QED
      BY <2>4, <2>9, <3>1, <3>4, <3>6 DEF ToldOK, Early, EndPlaces
  <2>14. CASE pc = "image"
    <3>1. op = "20" /\ label = "imageRead" /\ cfg.tls /\ cfg.capture /\ touch.n \in 1..Total
          /\ Tells(wire, Commands, BeforeFrames + touch.n - 1)
      BY <2>3, <2>5, <2>14 DEF ToldOK, TruthOK, CountsOK, TouchPlaces, GateOK, PlaceOK, InTLS, TLSPlaces
    <3>2. PICK c \in Nat : c = BeforeFrames + touch.n - 1
      <4>1. PICK b \in Nat : b = BeforeFrames
        BY <2>6, <2>8
      <4>2. PICK t \in Nat \ {0} : t = touch.n
        BY <2>6, <3>1
      <4>3. b + t - 1 \in Nat
        OBVIOUS
      <4>4. QED
        BY <4>1, <4>2, <4>3
    <3>3. c + 1 = BeforeFrames + touch.n
      BY <2>6, <2>8, <3>2
    <3>4. stepFor(op).op = op /\ ~fdtArm(op) /\ op = Commands[c + 1]
      BY <2>8, <3>1, <3>3, OwnSteps, StepIsLegal DEF fdtArm
    <3>5. Tells(wire', Commands', c + 1)
      BY <1>2, <2>2, <2>3, <3>1, <3>2, <3>4, TellsSend
    <3>6. QED
      BY <2>4, <2>9, <3>1, <3>3, <3>5 DEF ToldOK, Early, EndPlaces
  <2>15. QED
    BY <2>3, <2>10, <2>11, <2>12, <2>13, <2>14
<1>4. QED
  BY <1>1, <1>3 DEF TruthOK

\* What an arm sends is no command; what is sent to a stuck EC is not the run's.
LEMMA TruthArms ==
  ASSUME TruthOK, WireOK, TypeOK, GateOK, readStuckState \/ ArmDown \/ ArmUp
  PROVE  TruthOK'
<1>1. CountsOK'
  BY CountsSend
<1>2. UNCHANGED <<cfg, touch, frames>>
  BY DEF readStuckState, ArmDown, ArmUp
<1>3. Going' => ToldOK'
  <2>1. SUFFICES ASSUME Going' PROVE ToldOK'
    OBVIOUS
  <2>2. err' = "nil"
    BY <2>1 DEF Going
  <2>3. PICK f, from, extra, label :
          /\ Send(f, from, extra, label)
          /\ \/ pc = "state" /\ label = "stateRead"
             \/ pc = "armDown" /\ f = Arm("32") /\ label = "waitDown"
             \/ pc = "armUp" /\ f = Arm("34") /\ label = "waitUp"
    BY Zenon DEF readStuckState, ArmDown, ArmUp
  <2>4. err = "nil" /\ pc' = label /\ wire' = Append(wire, Sent(f, from))
    BY <2>2, <2>3, SendGoesOn
  <2>5. pc # "state"
    BY <2>1, <2>3, <2>4 DEF Going
  <2> DEFINE m == Sent(f, from)
  <2>6. ~Cmd(m) /\ wire' = Append(wire, m)
    BY <2>3, <2>4, <2>5, ArmsAreLegal DEF Cmd, Sent, fdtArm
  <2> HIDE DEF m
  <2>7. ToldOK /\ Total \in Nat
    <3>1. ~Refuses
      BY <2>3 DEF GateOK, PlaceOK
    <3>2. QED
      BY <2>3, <2>4, <2>5, <3>1, Configured DEF TruthOK, Going
  <2>8. touch.n >= 1 /\ touch.n \in Nat
    BY <2>3, <2>5, <2>7 DEF TruthOK, CountsOK, TouchPlaces
  <2>9. First \in {0, 1} /\ Len(cfg.steps) \in Nat /\ D4s \in {0, 1}
    BY Configured
  <2>10. PICK B \in Nat : B = BeforeFrames
    BY <2>9 DEF BeforeFrames
  <2>11. PICK c \in Nat : c = IF pc = "armDown" THEN B + touch.n - 1 ELSE B + touch.n
    BY <2>8
  <2>12. Tells(wire, Commands, c)
    BY <2>3, <2>5, <2>7, <2>10, <2>11 DEF ToldOK
  <2>13. Tells(wire', Commands', c)
    BY <1>2, <2>6, <2>12, TellsStep
  <2>14. BeforeFrames' = B /\ touch' = touch
    BY <1>2, <2>10, SameCommands
  <2>15. QED
    BY <2>3, <2>4, <2>5, <2>11, <2>13, <2>14 DEF ToldOK, Early, EndPlaces
<1>4. QED
  BY <1>1, <1>3 DEF TruthOK

LEMMA TruthWorks ==
  ASSUME TruthOK, WireOK, TypeOK, GateOK, StepsDone \/ Handshake \/ Capture
  PROVE  TruthOK'
<1>1. UNCHANGED <<cfg, k, touch, frames, wire>>
  BY DEF StepsDone, Handshake, Capture
<1>2. err' = "nil" => err = "nil"
  BY DEF StepsDone, Handshake, Capture, Goto, Fail
<1>3. \/ pc = "step" /\ k > Len(cfg.steps) /\ pc' = "request" /\ cfg.tls
      \/ pc = "step" /\ k > Len(cfg.steps) /\ pc' = "close" /\ ~cfg.tls
      \/ pc = "handshake" /\ pc' = "close" /\ err' # "nil"
      \/ pc = "handshake" /\ pc' = "established" /\ "d4" \in opcodes(cfg)
      \/ pc = "handshake" /\ pc' = "capture" /\ "d4" \notin opcodes(cfg)
      \/ pc = "capture" /\ pc' = "close" /\ ~cfg.capture
      \/ pc = "capture" /\ pc' \in {"armDown", "image"}
  BY DEF StepsDone, Handshake, Capture, Goto, Fail
<1>4. ~Refuses /\ (pc \in {"handshake", "capture"} => cfg.tls)
  BY <1>3 DEF GateOK, PlaceOK, InTLS, TLSPlaces
<1>5. /\ cfg.steps \in Seq(STRING) /\ Len(cfg.steps) \in Nat /\ k \in Nat /\ First \in {0, 1}
      /\ D4s \in {0, 1} /\ Total \in Nat \ {0}
  BY <1>4, Configured
<1>6. frames = <<>> /\ touch.n = 1 /\ k <= Len(cfg.steps) + 1
  BY <1>3 DEF TruthOK, CountsOK, TouchPlaces, EndPlaces
<1>7. [n \in 1..0 |-> n] = <<>>
  OBVIOUS
<1>8. Total' = Total /\ First' = First /\ BeforeFrames' = BeforeFrames /\ Len(Commands') = Len(Commands)
  BY <1>1, SameCommands
<1>9. frames' = <<>> /\ touch'.n = 1 /\ k' = k /\ cfg' = cfg /\ touch'.n - 1 = 0 /\ 1 \in 1..Total
  BY <1>1, <1>5, <1>6
<1>10. CountsOK'
  <2>1. pc' \in {"request", "close", "established", "capture", "armDown", "image"}
    BY <1>3
  <2>2. frames' = [n \in 1..(touch'.n - 1) |-> n]
    BY <1>7, <1>9
  <2>3. QED
    BY <1>6, <1>8, <1>9, <2>1, <2>2 DEF TruthOK, CountsOK, Early, TouchPlaces, EndPlaces
<1>11. Going' => ToldOK'
  <2>1. SUFFICES ASSUME Going' PROVE ToldOK'
    OBVIOUS
  <2>2. ToldOK
    BY <1>2, <1>3, <2>1 DEF Going, TruthOK
  <2>3. \A c : Tells(wire, Commands, c) => Tells(wire', Commands', c)
    BY <1>1, SameCommands
  <2>4. /\ Len(Commands) = IF ~cfg.tls THEN First + Len(cfg.steps)
                           ELSE IF cfg.capture THEN BeforeFrames + Total ELSE BeforeFrames
    BY <1>5, CommandsAre
  <2>5. CASE pc = "step"
    <3>1. First + k - 1 = First + Len(cfg.steps)
      <4>1. k > Len(cfg.steps)
        BY <1>3, <2>5
      <4>2. QED
        BY <1>5, <1>6, <4>1
    <3>2. Tells(wire', Commands', First + Len(cfg.steps))
      BY <2>2, <2>3, <2>5, <3>1 DEF ToldOK
    <3>3. CASE pc' = "request"
      BY <1>8, <1>9, <3>2, <3>3 DEF ToldOK, Early, EndPlaces
    <3>4. CASE pc' = "close" /\ ~cfg.tls
      <4>1. ~cfg.capture
        BY <1>4, <3>4 DEF Refuses, validate
      <4>2. QED
        BY <1>8, <1>9, <2>4, <3>2, <3>4, <4>1 DEF ToldOK, Early, EndPlaces
    <3>5. QED
      BY <1>3, <2>5, <3>3, <3>4
  <2>6. CASE pc = "handshake"
    <3>1. Tells(wire', Commands', First + Len(cfg.steps) + 1)
      BY <2>2, <2>3, <2>6 DEF ToldOK
    <3>2. CASE pc' = "established"
      BY <1>8, <1>9, <3>1, <3>2 DEF ToldOK, Early, EndPlaces
    <3>3. CASE pc' = "capture" /\ "d4" \notin opcodes(cfg)
      <4>1. "d4" \notin cfg.allow
        BY <1>4, <2>6, <3>3 DEF opcodes
      <4>2. BeforeFrames = First + Len(cfg.steps) + 1
        BY <1>5, <4>1 DEF BeforeFrames, D4s
      <4>3. QED
        BY <1>8, <1>9, <3>1, <3>3, <4>2 DEF ToldOK, Early, EndPlaces
    <3>4. QED
      BY <1>3, <2>1, <2>6, <3>2, <3>3 DEF Going
  <2>7. CASE pc = "capture"
    <3>1. Tells(wire', Commands', BeforeFrames)
      BY <2>2, <2>3, <2>7 DEF ToldOK
    <3>2. CASE pc' = "close" /\ ~cfg.capture
      <4>1. Len(Commands) = BeforeFrames
        BY <1>4, <2>4, <2>7, <3>2
      <4>2. QED
        BY <1>8, <1>9, <3>1, <3>2, <4>1 DEF ToldOK, Early, EndPlaces
    <3>3. CASE pc' \in {"armDown", "image"}
      <4>1. BeforeFrames' + touch'.n - 1 = BeforeFrames
        BY <1>5, <1>8, <1>9 DEF BeforeFrames
      <4>2. QED
        BY <3>1, <3>3, <4>1 DEF ToldOK, Early, EndPlaces
    <3>4. QED
      BY <1>3, <2>7, <3>2, <3>3
  <2>8. QED
    BY <1>3, <2>5, <2>6, <2>7
<1>12. QED
  BY <1>10, <1>11 DEF TruthOK

\* One image more is the next number.
LEMMA OneImageMore ==
  ASSUME NEW t \in Nat \ {0}
  PROVE  Append([n \in 1..(t - 1) |-> n], t) = [n \in 1..t |-> n]
<1> DEFINE f == [n \in 1..(t - 1) |-> n]
           g == [n \in 1..t |-> n]
<1>1. f \in [1..(t - 1) -> Nat] /\ f \in Seq(Nat)
  <2>1. f \in [1..(t - 1) -> Nat] /\ t - 1 \in Nat
    OBVIOUS
  <2> HIDE DEF f
  <2>2. QED
    BY <2>1, SeqDef
<1>2. g \in Seq(Nat)
  <2>1. g \in [1..t -> Nat]
    OBVIOUS
  <2> HIDE DEF g
  <2>2. QED
    BY <2>1, SeqDef
<1>3. DOMAIN f = 1..(t - 1) /\ DOMAIN g = 1..t
  OBVIOUS
<1>4. (\A i \in 1..(t - 1) : f[i] = i) /\ (\A i \in 1..t : g[i] = i)
  OBVIOUS
<1> HIDE DEF f, g
<1>5. Len(f) = t - 1 /\ Len(g) = t
  <2>1. Len(f) \in Nat /\ Len(g) \in Nat /\ 1..Len(f) = 1..(t - 1) /\ 1..Len(g) = 1..t
    BY <1>1, <1>2, <1>3, LenProperties
  <2>2. PICK a \in Nat, b \in Nat : a = Len(f) /\ b = Len(g)
    BY <2>1
  <2>3. 1..a = 1..(t - 1) /\ 1..b = 1..t
    BY <2>1, <2>2
  <2>4. a = t - 1
    <3>1. (a # 0 => a \in 1..a) /\ (t - 1 # 0 => t - 1 \in 1..(t - 1))
      OBVIOUS
    <3>2. (a # 0 => a \in 1..(t - 1)) /\ (t - 1 # 0 => t - 1 \in 1..a)
      BY <2>3, <3>1
    <3>3. QED
      BY <3>2
  <2>5. b = t
    <3>1. (b # 0 => b \in 1..b) /\ t \in 1..t
      OBVIOUS
    <3>2. (b # 0 => b \in 1..t) /\ t \in 1..b
      BY <2>3, <3>1
    <3>3. QED
      BY <3>2
  <2>6. QED
    BY <2>2, <2>4, <2>5
<1>6. PICK h : h = Append(f, t)
  OBVIOUS
<1>7. /\ h \in Seq(Nat) /\ Len(h) = t
      /\ \A i \in 1..(t - 1) : h[i] = f[i]
      /\ h[t] = t
  <2>1. /\ h \in Seq(Nat) /\ Len(h) = Len(f) + 1
        /\ \A i \in 1..Len(f) : h[i] = f[i]
        /\ h[Len(f) + 1] = t
    BY <1>1, <1>6, AppendProperties
  <2>2. (t - 1) + 1 = t
    OBVIOUS
  <2>3. QED
    BY <1>5, <2>1, <2>2
<1>8. \A i \in 1..t : h[i] = g[i]
  <2>1. \A i \in 1..t : i \in 1..(t - 1) \/ i = t
    OBVIOUS
  <2>2. QED
    BY <1>4, <1>7, <2>1
<1>9. h = g
  <2>1. h \in [1..t -> Nat] /\ g \in [1..t -> Nat]
    BY <1>2, <1>5, <1>7, LenProperties
  <2>2. QED
    BY <1>8, <2>1
<1>10. QED
  BY <1>6, <1>9 DEF f, g

LEMMA TruthImage ==
  ASSUME TruthOK, TypeOK, GateOK, ImageReads
  PROVE  TruthOK'
<1>1. pc = "imageRead" /\ UNCHANGED <<cfg, k, touch, wire>> /\ (err' = "nil" => err = "nil")
  BY DEF ImageReads, Goto, Fail
<1>2. \/ pc' = "close" /\ err' # "nil"
      \/ pc' = "armUp" /\ cfg.waitFinger /\ frames' = Append(frames, touch.n)
      \/ pc' = "close" /\ ~cfg.waitFinger /\ frames' = Append(frames, touch.n)
  BY DEF ImageReads, Goto, Fail
<1>3. ~Refuses /\ cfg.capture /\ cfg.tls
  BY <1>1 DEF GateOK, PlaceOK, InTLS, TLSPlaces
<1>4. touch.n \in 1..Total /\ frames = [n \in 1..(touch.n - 1) |-> n] /\ Total \in Nat \ {0} /\ touch.n \in Nat
  BY <1>1, <1>3, Configured DEF TruthOK, CountsOK, TouchPlaces
<1>5. PICK t \in Nat \ {0} : t = touch.n
  BY <1>4
<1>6. Append(frames, touch.n) = [n \in 1..touch.n |-> n]
  BY <1>4, <1>5, OneImageMore
<1>7. Total' = Total /\ BeforeFrames' = BeforeFrames /\ Len(Commands') = Len(Commands) /\ touch' = touch /\ cfg' = cfg
  BY <1>1, SameCommands
<1>8. CountsOK'
  BY <1>1, <1>2, <1>4, <1>6, <1>7 DEF TruthOK, CountsOK, Early, TouchPlaces, EndPlaces
<1>9. Going' => ToldOK'
  <2>1. SUFFICES ASSUME Going' PROVE ToldOK'
    OBVIOUS
  <2>2. Tells(wire, Commands, BeforeFrames + touch.n)
    BY <1>1, <2>1 DEF Going, TruthOK, ToldOK
  <2>3. Tells(wire', Commands', BeforeFrames + touch.n)
    BY <1>1, <2>2, SameCommands
  <2>4. CASE pc' = "armUp"
    BY <1>7, <2>3, <2>4 DEF ToldOK, Early, EndPlaces
  <2>5. CASE pc' = "close" /\ ~cfg.waitFinger /\ frames' = Append(frames, touch.n)
    <3>1. Total = 1 /\ touch.n = 1
      BY <1>4, <2>5 DEF Total
    <3>2. Len(Commands) = BeforeFrames + touch.n
      <4>1. cfg.steps \in Seq(STRING)
        BY Configured
      <4>2. QED
        BY <1>3, <1>4, <3>1, <4>1, CommandsAre
    <3>3. frames' = [n \in 1..Total' |-> n]
      BY <1>6, <1>7, <2>5, <3>1
    <3>4. QED
      BY <1>3, <1>7, <2>3, <2>5, <3>2, <3>3 DEF ToldOK, Early, EndPlaces
  <2>6. QED
    BY <1>2, <2>1, <2>4, <2>5 DEF Going
<1>10. QED
  BY <1>8, <1>9 DEF TruthOK

LEMMA TruthWaits ==
  ASSUME TruthOK, TypeOK, WireOK, GateOK, WaitDown \/ WaitUp \/ WaitExpires
  PROVE  TruthOK'
<1>1. pc \in {"waitDown", "waitUp"} /\ UNCHANGED <<cfg, k, ret, frames>> /\ (err' = "nil" => err = "nil")
  BY DEF WaitDown, WaitUp, WaitExpires, Goto, Fail
<1>2. wire' = wire \/ \E t : wire' = Append(wire, Heard(t))
  BY DEF WaitDown, WaitUp, WaitExpires
<1>3. \/ pc' = "close" /\ err' # "nil"
      \/ pc' = pc /\ touch' = touch
      \/ pc = "waitDown" /\ pc' = "image" /\ touch' = [touch EXCEPT !.down = Len(wire) + 1]
      \/ /\ pc = "waitDown" /\ pc' = "armDown"
         /\ touch' = [touch EXCEPT !.attempt = @ + 1, !.thresholds = Len(wire) + 1]
      \/ pc = "waitUp" /\ pc' = "close" /\ touch.n = Total /\ touch' = touch
      \/ pc = "waitUp" /\ pc' = "armDown" /\ touch.n # Total /\ touch' = NextTouch(Len(wire) + 1)
  BY DEF WaitDown, WaitUp, WaitExpires, Goto, Fail
<1>4. ~Refuses /\ cfg.capture /\ cfg.tls /\ cfg.steps \in Seq(STRING) /\ Len(cfg.steps) \in Nat /\ First \in {0, 1}
      /\ D4s \in {0, 1} /\ Total \in Nat \ {0}
  <2>1. ~Refuses /\ cfg.capture /\ cfg.tls
    BY <1>1 DEF GateOK, PlaceOK, InTLS, TLSPlaces, FingerPlaces
  <2>2. QED
    BY <2>1, Configured
<1>5. touch.n \in 1..Total /\ touch \in [n : Nat, attempt : 0..MaxBaseRearms, thresholds : Nat, down : Nat]
  BY <1>1 DEF TruthOK, CountsOK, TouchPlaces, TypeOK
<1>6. Total' = Total /\ BeforeFrames' = BeforeFrames /\ Len(Commands') = Len(Commands)
  BY <1>1, SameCommands
<1>7. \/ pc' = "close" /\ err' # "nil"
      \/ pc' = pc /\ touch'.n = touch.n
      \/ pc = "waitDown" /\ pc' \in {"image", "armDown"} /\ touch'.n = touch.n
      \/ pc = "waitUp" /\ pc' = "close" /\ touch.n = Total
      \/ pc = "waitUp" /\ pc' = "armDown" /\ touch.n # Total /\ touch'.n = touch.n + 1
  <2>1. \/ touch' = [touch EXCEPT !.down = Len(wire) + 1]
        \/ touch' = [touch EXCEPT !.attempt = @ + 1, !.thresholds = Len(wire) + 1]
        => touch'.n = touch.n
    BY <1>5
  <2>2. touch' = NextTouch(Len(wire) + 1) => touch'.n = touch.n + 1
    BY DEF NextTouch
  <2>3. QED
    BY <1>3, <2>1, <2>2
<1>8. touch.n + 1 \in Nat /\ (touch.n # Total => touch.n + 1 \in 1..Total) /\ (touch.n + 1) - 1 = touch.n
  BY <1>4, <1>5
<1>9. CountsOK'
  <2>1. /\ pc = "waitDown" => frames = [n \in 1..(touch.n - 1) |-> n]
        /\ pc = "waitUp" => frames = [n \in 1..touch.n |-> n]
    BY DEF TruthOK, CountsOK
  <2>2. k' <= Len(cfg'.steps) + 1
    BY <1>1 DEF TruthOK, CountsOK
  <2>3. pc' \in TouchPlaces => touch'.n \in 1..Total'
    BY <1>5, <1>6, <1>7, <1>8 DEF TouchPlaces
  <2>4. pc' = "armDown" /\ pc = "waitUp" => frames' = [n \in 1..(touch'.n - 1) |-> n]
    BY <1>1, <1>7, <1>8, <2>1
  <2>5. pc' \in {"image", "armDown", "waitDown"} /\ pc = "waitDown" => frames' = [n \in 1..(touch'.n - 1) |-> n]
    BY <1>1, <1>7, <2>1
  <2>6. pc' = "waitUp" => frames' = [n \in 1..touch'.n |-> n]
    BY <1>1, <1>7, <2>1
  <2>7. pc' \in {"close", "image", "armDown", "waitDown", "waitUp"} /\ (pc = "waitUp" => pc' \notin {"image", "waitDown"})
    BY <1>1, <1>7
  <2>8. QED
    BY <1>1, <2>2, <2>3, <2>4, <2>5, <2>6, <2>7 DEF CountsOK, Early, TouchPlaces, EndPlaces
<1>10. Going' => ToldOK'
  <2>1. SUFFICES ASSUME Going' PROVE ToldOK'
    OBVIOUS
  <2>2. Going
    BY <1>1, <2>1 DEF Going
  <2>3. PICK B \in Nat, t \in Nat : B = BeforeFrames /\ t = touch.n
    BY <1>4, <1>5 DEF BeforeFrames
  <2>4. PICK c \in Nat : c = IF pc = "waitDown" THEN B + t - 1 ELSE B + t
    BY <1>5, <2>3
  <2>5. Tells(wire, Commands, c)
    BY <1>1, <2>2, <2>3, <2>4 DEF TruthOK, ToldOK
  <2>6. Tells(wire', Commands', c)
    <3>1. CASE wire' = wire
      BY <1>1, <2>5, <3>1, SameCommands
    <3>2. CASE \E x : wire' = Append(wire, Heard(x))
      <4>1. PICK x : wire' = Append(wire, Heard(x))
        BY <3>2
      <4> DEFINE m == Heard(x)
      <4>2. ~Cmd(m) /\ wire' = Append(wire, m)
        BY <4>1 DEF Heard, Cmd
      <4> HIDE DEF m
      <4>3. QED
        BY <1>1, <2>5, <4>2, TellsStep
    <3>3. QED
      BY <1>2, <3>1, <3>2
  <2>7. BeforeFrames' = B
    BY <1>6, <2>3
  <2>8. CASE pc = "waitDown"
    <3>1. pc' \in {"waitDown", "image", "armDown"} /\ touch'.n = t /\ c = B + t - 1
      BY <1>7, <2>1, <2>3, <2>4, <2>8 DEF Going
    <3>2. QED
      BY <2>6, <2>7, <3>1 DEF ToldOK, Early, EndPlaces
  <2>9. CASE pc = "waitUp" /\ pc' = "waitUp"
    <3>1. touch'.n = t /\ c = B + t
      BY <1>7, <2>3, <2>4, <2>9
    <3>2. QED
      BY <2>6, <2>7, <2>9, <3>1 DEF ToldOK, Early, EndPlaces
  <2>10. CASE pc = "waitUp" /\ pc' = "armDown"
    <3>1. touch'.n = t + 1 /\ c = B + t
      BY <1>7, <2>3, <2>4, <2>10
    <3>2. B + (t + 1) - 1 = B + t
      BY <2>3
    <3>3. QED
      BY <2>6, <2>7, <2>10, <3>1, <3>2 DEF ToldOK, Early, EndPlaces
  <2>11. CASE pc = "waitUp" /\ pc' = "close"
    <3>1. touch.n = Total /\ c = B + t
      BY <1>7, <2>1, <2>3, <2>4, <2>11 DEF Going
    <3>2. frames = [n \in 1..touch.n |-> n]
      BY <2>11 DEF TruthOK, CountsOK
    <3>3. Len(Commands) = B + t
      BY <1>4, <2>3, <3>1, CommandsAre
    <3>4. Len(Commands') = c /\ frames' = [n \in 1..Total' |-> n] /\ cfg'.capture
      BY <1>1, <1>4, <1>6, <3>1, <3>2, <3>3
    <3>5. QED
      BY <2>6, <2>11, <3>4 DEF ToldOK, Early, EndPlaces
  <2>12. QED
    BY <1>1, <1>7, <2>1, <2>8, <2>9, <2>10, <2>11 DEF Going
<1>11. QED
  BY <1>9, <1>10 DEF TruthOK

LEMMA TruthCloses ==
  ASSUME TruthOK, CloseTransport \/ Teardown
  PROVE  TruthOK'
<1>1. UNCHANGED <<cfg, k, err, touch, frames, wire>> /\ pc \in EndPlaces /\ pc' \in EndPlaces
  BY DEF CloseTransport, Teardown, EndPlaces
<1>2. CountsOK'
  BY <1>1, SameCommands DEF TruthOK, CountsOK, Early, TouchPlaces, EndPlaces
<1>3. Going' => ToldOK'
  <2>1. SUFFICES ASSUME Going' PROVE ToldOK'
    OBVIOUS
  <2>2. Tells(wire, Commands, Len(Commands)) /\ frames = IF cfg.capture THEN [n \in 1..Total |-> n] ELSE <<>>
    BY <1>1, <2>1 DEF Going, TruthOK, ToldOK, EndPlaces
  <2>3. Tells(wire', Commands', Len(Commands')) /\ frames' = IF cfg'.capture THEN [n \in 1..Total' |-> n] ELSE <<>>
    BY <1>1, <2>2, SameCommands
  <2>4. QED
    BY <1>1, <2>3 DEF ToldOK, Early, EndPlaces
<1>4. QED
  BY <1>2, <1>3 DEF TruthOK

LEMMA InitTruth ==
  ASSUME Init
  PROVE  TruthOK
<1>1. /\ pc = "main" /\ k = 1 /\ err = "nil" /\ wire = <<>> /\ frames = <<>> /\ touch.n = 1
      /\ cfg.steps \in Seq(STRING)
  BY StepsAreLists DEF Init
<1>2. Len(cfg.steps) \in Nat /\ Len(wire) = 0 /\ 1..0 = {}
  BY <1>1, LenProperties
<1>3. Tells(wire, Commands, 0)
  <2>1. {i \in 1..0 : Cmd(wire[i])} = {}
    BY <1>2
  <2>2. Count(wire, 0) = 0
    BY <2>1, FS_EmptySet DEF Count
  <2>3. QED
    BY <1>2, <2>2 DEF Tells
<1>4. CountsOK
  BY <1>1, <1>2 DEF CountsOK, Early, TouchPlaces, EndPlaces
<1>5. ToldOK
  BY <1>1, <1>3 DEF ToldOK, Early, EndPlaces
<1>6. QED
  BY <1>4, <1>5 DEF TruthOK

LEMMA NextTruth ==
  ASSUME IInv, GateOK, TruthOK, [Next]_vars
  PROVE  TruthOK'
<1>1. WireOK /\ TypeOK
  BY DEF IInv
<1>2. CASE main \/ prepareTLS \/ OpenLog \/ Open \/ Claim \/ ClaimFails
  BY <1>2, TruthBefore
<1>3. CASE drain \/ collect \/ StateReads \/ Stuck
  BY <1>1, <1>3, TruthReads
<1>4. CASE HealthReads
  BY <1>1, <1>4, TruthHealth
<1>5. CASE checkECResponsive \/ Step \/ runTLS \/ sendAndCollect \/ captureFrame
  BY <1>1, <1>5, TruthSends
<1>6. CASE readStuckState \/ ArmDown \/ ArmUp
  BY <1>1, <1>6, TruthArms
<1>7. CASE StepsDone \/ Handshake \/ Capture
  BY <1>1, <1>7, TruthWorks
<1>8. CASE ImageReads
  BY <1>1, <1>8, TruthImage
<1>9. CASE WaitDown \/ WaitUp \/ WaitExpires
  BY <1>1, <1>9, TruthWaits
<1>10. CASE CloseTransport \/ Teardown
  BY <1>10, TruthCloses
<1>11. CASE UNCHANGED vars
  <2>1. UNCHANGED <<cfg, k, err, touch, frames, wire, pc, ret>>
    BY <1>11 DEF vars, run
  <2>2. CountsOK'
    BY <2>1, SameCommands DEF TruthOK, CountsOK
  <2>3. (Going' => Going) /\ (ToldOK => ToldOK')
    BY <2>1, SameCommands DEF Going, ToldOK
  <2>4. QED
    BY <2>2, <2>3 DEF TruthOK
<1>12. QED
  BY <1>2, <1>3, <1>4, <1>5, <1>6, <1>7, <1>8, <1>9, <1>10, <1>11, Zenon DEF Next

LEMMA ProbeTruthInductive == Spec => []TruthOK
<1>1. IInv /\ GateOK /\ TruthOK /\ [Next]_vars => TruthOK'
  BY NextTruth
<1>2. QED
  BY InitTruth, ProbeInductive, ProbeGateInductive, <1>1, PTL DEF Spec

\* For every command line and whatever is read from USB: a run that exits with
\* status 0 has sent every command of its command line, each once and in its
\* turn, and with --capture every touch has its file (runBisect, runTLS,
\* captureOnTouch).
THEOREM ProbeExitTellsTheTruth == Spec => []ExitTellsTheTruth
<1>1. IInv /\ TruthOK => ExitTellsTheTruth
  <2>1. SUFFICES ASSUME IInv, TruthOK, pc = "exit", err = "nil"
                 PROVE  /\ CommandsBy(Len(wire)) = Len(Commands)
                        /\ \A i \in DOMAIN wire : Command(i) => wire[i].op = Commands[CommandsBy(i)]
                        /\ frames = IF cfg.capture THEN [n \in 1..Total |-> n] ELSE <<>>
    BY DEF ExitTellsTheTruth
  <2>2. DOMAIN wire = 1..Len(wire)
    BY <2>1, LenProperties DEF IInv, WireOK
  <2>3. Tells(wire, Commands, Len(Commands)) /\ frames = IF cfg.capture THEN [n \in 1..Total |-> n] ELSE <<>>
    BY <2>1 DEF TruthOK, Going, ToldOK, EndPlaces
  <2>4. \A n : CommandsBy(n) = Count(wire, n)
    BY DEF CommandsBy, Count, Command, Cmd, IsOut
  <2>5. QED
    BY <2>2, <2>3, <2>4 DEF Tells, Command, Cmd, IsOut
<1>2. QED
  BY ProbeInductive, ProbeTruthInductive, <1>1, PTL
=============================================================================
