-------------------------------- MODULE Probe --------------------------------
(***************************************************************************)
(* A run of goodix-probe --bisect, from its flags to its exit status: the  *)
(* checks before anything is opened, the USB device or one of its two      *)
(* stand-ins, the health check, the steps, and the TLS capture that may    *)
(* follow them.  SafetyGate says what may be sent.                         *)
(*                                                                         *)
(* On USB the EC may answer anything at any time, or nothing.  The two     *)
(* stand-ins answer as their code does.  The bridge and the private file   *)
(* are modules of their own (Bridge, PrivateFile): here each call of       *)
(* theirs works or fails.                                                  *)
(***************************************************************************)
EXTENDS SafetyGate

CONSTANTS
  Configs,            \* the command lines
  MaxReadsPerStep,    \* 4 in the code
  MaxDrainReads,      \* 8
  MaxBaseRearms       \* 3

ASSUME ReadBounds == MaxReadsPerStep \in Nat \ {0} /\ MaxDrainReads \in Nat \ {0} /\ MaxBaseRearms \in Nat
ASSUME StepsAreLists == \A c \in Configs : c.steps \in Seq(STRING)

VARIABLES
  cfg,          \* replay, wrongPSK, readState, tls, psk, capture, waitFinger, touches, allow, steps
  pc, ret,      \* where the run is, and where drain and collect go back to
  reads,        \* transfers read by the loop under way
  k,            \* the step
  touch,        \* captureOnTouch and touchOnce: n, attempt, thresholds, down
  err,          \* "nil", or what ends the run
  port,         \* the Transport: "none", "usb", "peer", "replay", "closed"
  held,         \* what usbTransport holds
  logFile,      \* whether the log is open
  tls, ec,      \* the native sessions of the host and of the rehearsal: "none", "live", "closed"
  queue, next,  \* of a stand-in: the transfers to come, the next exchange of the script
  spin,         \* the parity of the reads: a read is a step even if nothing comes of it
  frames,       \* history: the images written
  wire          \* history: the frames sent and the replies acted on

run == <<pc, ret, reads, k, touch, err>>
owned == <<port, held, logFile, tls, ec>>
fake == <<queue, next, spin>>
vars == <<cfg, run, owned, fake, frames, wire>>

Sent(f, from) == [dir |-> "out", op |-> f.op, len |-> f.len, from |-> from]
Heard(t) == [dir |-> "in", op |-> t.op, ev |-> t.ev]
Vendor == 0   \* thresholds of the catalogue; others are named by the event they come from

Init ==
  /\ cfg \in Configs /\ pc = "main" /\ ret = "main" /\ reads = 0 /\ k = 1 /\ err = "nil"
  /\ touch = [n |-> 1, attempt |-> 0, thresholds |-> Vendor, down |-> 0]
  /\ port = "none" /\ held = {} /\ logFile = FALSE /\ tls = "none" /\ ec = "none"
  /\ queue = <<>> /\ next = 1 /\ spin = 0 /\ frames = <<>> /\ wire = <<>>

Fail(why) == err' = why /\ pc' = "close"
Goto(label) == pc' = label /\ UNCHANGED err

-----------------------------------------------------------------------------
(* Before anything is opened *)

\* main: the combinations it refuses, and those of mainBisect.
Refuses ==
  \/ cfg.readState /\ cfg.replay
  \/ cfg.wrongPSK /\ ~(cfg.tls /\ cfg.replay)
  \/ ~parseSteps(cfg.steps, cfg.allow) \/ ~validate(cfg)

main ==
  /\ pc = "main" /\ IF Refuses THEN Fail("flags") ELSE Goto("prepare")
  /\ UNCHANGED <<cfg, ret, reads, k, touch, owned, fake, frames, wire>>

\* The key is read and the endpoint started before any hardware is opened.
prepareTLS ==
  /\ pc = "prepare"
  /\ \/ ~cfg.tls /\ Goto("log") /\ UNCHANGED tls
     \/ cfg.tls /\ Goto("log") /\ tls' = "live"
     \/ cfg.tls /\ Fail("preflight") /\ UNCHANGED tls
  /\ UNCHANGED <<cfg, ret, reads, k, touch, port, held, logFile, ec, fake, frames, wire>>

OpenLog ==
  /\ pc = "log"
  /\ \/ Goto("open") /\ logFile' = TRUE
     \/ Fail("log") /\ UNCHANGED logFile
  /\ UNCHANGED <<cfg, ret, reads, k, touch, port, held, tls, ec, fake, frames, wire>>

-----------------------------------------------------------------------------
(* Attaching: the transports.  What OpenUSB takes, in order *)

Resources == <<"context", "device", "config", "interface">>
StartDrain(after) == reads' = 0 /\ ret' = after

Open ==
  /\ pc = "open"
  /\ \/ cfg.replay /\ ~cfg.tls /\ port' = "replay" /\ Goto("drain") /\ StartDrain("step") /\ UNCHANGED <<held, ec>>
     \/ cfg.replay /\ cfg.tls /\ port' = "peer" /\ ec' = "live" /\ Goto("drain") /\ StartDrain("step") /\ UNCHANGED held
     \/ cfg.replay /\ cfg.tls /\ Fail("rehearsal") /\ UNCHANGED <<port, ec, held, ret, reads>>
     \/ ~cfg.replay /\ held' = {"context"} /\ Goto("claim") /\ UNCHANGED <<port, ec, ret, reads>>
  /\ UNCHANGED <<cfg, k, touch, logFile, tls, fake, frames, wire>>

\* openDevice, claimDataInterface: one more, or the end.
Claim ==
  /\ pc = "claim"
  /\ \E i \in 2..4 :
       /\ Resources[i - 1] \in held /\ Resources[i] \notin held
       /\ held' = held \cup {Resources[i]}
       /\ IF i < 4 THEN UNCHANGED <<pc, port, ret, reads>>
          ELSE pc' = "drain" /\ port' = "usb" /\ StartDrain("health")
  /\ UNCHANGED <<cfg, k, touch, err, logFile, tls, ec, fake, frames, wire>>

\* Mutant: OpenUSB returns its error with what it took.
ClaimFailsHolding ==
  /\ pc = "claim" /\ err' = "attach" /\ pc' = "teardown"
  /\ UNCHANGED <<cfg, ret, reads, k, touch, owned, fake, frames, wire>>

\* Nothing found, no permission, no auto-detach, no configuration, interface or endpoint.
ClaimFails ==
  /\ pc = "claim" /\ Fail("attach")
  /\ UNCHANGED <<cfg, ret, reads, k, touch, owned, fake, frames, wire>>

-----------------------------------------------------------------------------
(* The Transport *)

\* Send: the gate, then the writer.
Gated(f) == check(f, Allow(cfg))
Mismatch(f) == next > Len(cfg.steps) \/ scriptFor(cfg.steps)[next].sent # f

\* The rehearsal acknowledges, except what the EC does not; extra is what the
\* caller has it say next.
Answers(f) == IF f.op \in {"ae", "d0"} THEN <<>> ELSE <<Ack(f.op)>>

Send(f, from, extra, label) ==
  IF ~Gated(f) THEN Fail("refused") /\ UNCHANGED <<fake, wire>>
  ELSE IF port = "replay" /\ Mismatch(f) THEN Fail("mismatch") /\ UNCHANGED <<fake, wire>>
  ELSE /\ wire' = Append(wire, Sent(f, from)) /\ UNCHANGED spin
       /\ next' = IF port = "replay" THEN next + 1 ELSE next
       /\ queue' = CASE port = "usb" -> queue
                     [] port = "replay" -> queue \o scriptFor(cfg.steps)[next].responses
                     [] OTHER -> queue \o Answers(f) \o extra
       /\ Goto(label) \/ (port = "usb" /\ Fail("usb"))

LastOp == IF wire = <<>> THEN "none" ELSE wire[Len(wire)].op
Timeout == [kind |-> "timeout", op |-> "none", ev |-> "none"]
Failure == [kind |-> "error", op |-> "none", ev |-> "none"]
Empty == [kind |-> "empty", op |-> "none", ev |-> "none"]
Tls == [kind |-> "tls", op |-> "none", ev |-> "none"]
Stray == [kind |-> "other", op |-> "none", ev |-> "none"]

\* What Recv may return: on USB also what was never asked for.
Kinds(op) == CASE op = "32" -> {"down", "baseInvalid", "unknown", "short"}
               [] op = "34" -> {"up", "unknown", "short"}
               [] OTHER -> {"none"}
Recv ==
  IF port = "usb"
  THEN {Timeout, Failure, Empty, Tls, Stray, Ack(LastOp)} \cup {Event(LastOp, ev) : ev \in Kinds(LastOp)}
  ELSE IF queue # <<>> THEN {Head(queue)} ELSE {Timeout}
Popped == /\ queue' = (IF queue # <<>> THEN Tail(queue) ELSE queue)
          /\ spin' = 1 - spin

\* describe
Reply(t, op) == CASE t.kind = "tls" -> "tls"
                  [] t.kind \in {"ack", "data"} /\ t.op = op -> t.kind
                  [] OTHER -> "other"

\* Mutant: until the device is quiet, however long that takes.
drainUntilQuiet ==
  /\ pc = "drain" /\ Popped
  /\ \E t \in Recv :
       IF t.kind \in {"timeout", "error"} THEN Goto(ret) /\ reads' = 0 ELSE UNCHANGED <<reads, pc, err>>
  /\ UNCHANGED <<cfg, ret, k, touch, owned, next, frames, wire>>

\* An error ends it too, and is not an error of the run.
drain ==
  /\ pc = "drain" /\ Popped
  /\ \E t \in Recv :
       IF t.kind \in {"timeout", "error"} \/ reads + 1 = MaxDrainReads
       THEN Goto(ret) /\ reads' = 0
       ELSE reads' = reads + 1 /\ UNCHANGED <<pc, err>>
  /\ UNCHANGED <<cfg, ret, k, touch, owned, next, frames, wire>>

\* Until a data message or a record, or the device is quiet, or that is enough.
collect ==
  /\ pc = "collect" /\ Popped
  /\ \E t \in Recv :
       CASE t.kind = "error" -> Fail("usb") /\ UNCHANGED reads
         [] t.kind = "timeout" \/ Reply(t, LastOp) \in {"data", "tls"} \/ reads + 1 = MaxReadsPerStep ->
              reads' = 0 /\ Goto(IF ret = "d4" THEN "capture" ELSE "drain")
         [] OTHER -> reads' = reads + 1 /\ UNCHANGED <<pc, err>>
  /\ UNCHANGED <<cfg, ret, k, touch, owned, next, frames, wire>>

-----------------------------------------------------------------------------
(* checkECResponsive and readStuckState *)

checkECResponsive ==
  /\ pc = "health" /\ Send(stepFor("a8"), Vendor, <<>>, "healthRead")
  /\ reads' = 0
  /\ UNCHANGED <<cfg, ret, k, touch, owned, frames>>

\* Mutant: whatever comes back shows that the EC lives.
AnythingAnswers(t) == t.kind \notin {"timeout", "error"}

\* An acknowledgement is followed by its data, then the device is drained.
Answered(t) == Reply(t, "a8") \in {"ack", "data"}
GivesUp(t) == t.kind = "timeout" \/ (~Answered(t) /\ reads + 1 = MaxReadsPerStep)
HealthReads ==
  /\ pc = "healthRead" /\ Popped
  /\ \E t \in Recv :
       CASE t.kind = "error" -> Fail("usb") /\ UNCHANGED <<reads, ret, wire>>
         [] Answered(t) ->
              /\ Goto(IF t.kind = "ack" THEN "collect" ELSE "drain")
              /\ wire' = Append(wire, Heard(t)) /\ reads' = 0 /\ ret' = "step"
         [] t.kind # "error" /\ GivesUp(t) ->
              /\ IF cfg.readState THEN Goto("state") ELSE Fail("unresponsive")
              /\ reads' = 0 /\ UNCHANGED <<ret, wire>>
         [] OTHER -> reads' = reads + 1 /\ UNCHANGED <<pc, err, ret, wire>>
  /\ UNCHANGED <<cfg, k, touch, owned, next, frames>>

readStuckState ==
  /\ pc = "state" /\ Send(stepFor("ae"), Vendor, <<>>, "stateRead")
  /\ reads' = 0
  /\ UNCHANGED <<cfg, ret, k, touch, owned, frames>>

\* Whatever comes back, the run stops.
StateReads ==
  /\ pc = "stateRead" /\ Popped
  /\ \E t \in Recv :
       CASE t.kind = "error" -> Fail("usb") /\ UNCHANGED <<reads, ret>>
         [] t.kind = "timeout" \/ Reply(t, "ae") = "data" \/ reads + 1 = MaxReadsPerStep ->
              Goto("drain") /\ reads' = 0 /\ ret' = "stuck"
         [] OTHER -> reads' = reads + 1 /\ UNCHANGED <<pc, err, ret>>
  /\ UNCHANGED <<cfg, k, touch, owned, next, frames, wire>>

Stuck ==
  /\ pc = "stuck" /\ Fail("unresponsive")
  /\ UNCHANGED <<cfg, ret, reads, k, touch, owned, fake, frames, wire>>

-----------------------------------------------------------------------------
(* The steps, then the hook after them: runTLS *)

Step ==
  /\ pc = "step" /\ k <= Len(cfg.steps)
  /\ Send(stepFor(cfg.steps[k]), Vendor, <<>>, "collect")
  /\ k' = k + 1 /\ reads' = 0 /\ ret' = "step"
  /\ UNCHANGED <<cfg, touch, owned, frames>>

StepsDone ==
  /\ pc = "step" /\ k > Len(cfg.steps)
  /\ Goto(IF cfg.tls THEN "request" ELSE "close")
  /\ UNCHANGED <<cfg, ret, reads, k, touch, owned, fake, frames, wire>>

runTLS ==
  /\ pc = "request" /\ Send(stepFor("d0"), Vendor, <<>>, "handshake")
  /\ UNCHANGED <<cfg, ret, reads, k, touch, owned, frames>>

\* The records of the host pass the other half of the gate.
HostRecords == <<[part |-> "whole"], [part |-> "whole"]>>
Handshake ==
  /\ pc = "handshake"
  /\ IF ~checkTLSData(HostRecords, cfg.tls) THEN Fail("refused")
     ELSE \/ ~cfg.wrongPSK /\ Goto(IF "d4" \in opcodes(cfg) THEN "established" ELSE "capture")
          \/ Fail("tls")
  /\ queue' = <<>>
  /\ UNCHANGED <<cfg, ret, reads, k, touch, owned, next, spin, frames, wire>>

sendAndCollect ==
  /\ pc = "established" /\ Send(stepFor("d4"), Vendor, <<>>, "collect")
  /\ reads' = 0 /\ ret' = "d4"
  /\ UNCHANGED <<cfg, k, touch, owned, frames>>

Capture ==
  /\ pc = "capture"
  /\ Goto(IF ~cfg.capture THEN "close" ELSE IF cfg.waitFinger THEN "armDown" ELSE "image")
  /\ UNCHANGED <<cfg, ret, reads, k, touch, owned, fake, frames, wire>>

-----------------------------------------------------------------------------
(* captureFrame, and touchOnce around it *)

Total == IF cfg.waitFinger /\ cfg.touches > 1 THEN cfg.touches ELSE 1

captureFrame ==
  /\ pc = "image" /\ Send(stepFor("20"), Vendor, <<>>, "imageRead")
  /\ UNCHANGED <<cfg, ret, reads, k, touch, owned, frames>>

\* ReadApplicationData, the layout of the frame, and the file of this touch.
ImageReads ==
  /\ pc = "imageRead"
  /\ \/ Goto(IF cfg.waitFinger THEN "armUp" ELSE "close") /\ frames' = Append(frames, touch.n)
     \/ Fail("image") /\ UNCHANGED frames
  /\ queue' = <<>>
  /\ UNCHANGED <<cfg, ret, reads, k, touch, owned, next, spin, wire>>

Arm(op) == Frame(op, EncodeFDTArm(op))
\* Only the first arm of a rehearsal is answered "base invalid".
rehearseDownEvent ==
  <<Event("32", IF touch.n = 1 /\ touch.attempt = 0 THEN "baseInvalid" ELSE "down")>>

ArmDown ==
  /\ pc = "armDown" /\ Send(Arm("32"), touch.thresholds, rehearseDownEvent, "waitDown")
  /\ UNCHANGED <<cfg, ret, reads, k, touch, owned, frames>>

\* waitFDTEvent: what is not an event for op is read past.
IsEvent(t, op) == t.kind = "data" /\ t.op = op

WaitDown ==
  /\ pc = "waitDown" /\ Popped
  /\ \E t \in Recv :
       CASE IsEvent(t, "32") ->
              /\ wire' = Append(wire, Heard(t))
              /\ CASE t.ev = "down" -> Goto("image") /\ touch' = [touch EXCEPT !.down = Len(wire) + 1]
                   [] t.ev = "baseInvalid" /\ touch.attempt < MaxBaseRearms ->
                        /\ Goto("armDown")
                        /\ touch' = [touch EXCEPT !.attempt = @ + 1, !.thresholds = Len(wire) + 1]
                   [] OTHER -> Fail("event") /\ UNCHANGED touch
         [] t.kind = "error" -> Fail("usb") /\ UNCHANGED <<touch, wire>>
         [] OTHER -> UNCHANGED <<pc, err, touch, wire>>
  /\ UNCHANGED <<cfg, ret, reads, k, owned, next, frames>>

ArmUp ==
  /\ pc = "armUp" /\ Send(Arm("34"), touch.down, <<Event("34", "up")>>, "waitUp")
  /\ UNCHANGED <<cfg, ret, reads, k, touch, owned, frames>>

\* Mutant: every touch begins with the thresholds of the last.
NextTouchKeeps(event) == [n |-> touch.n + 1, attempt |-> 0, down |-> 0, thresholds |-> touch.thresholds]

\* The readings of the lift are the thresholds of the next touch.
NextTouch(event) == [n |-> touch.n + 1, attempt |-> 0, down |-> 0, thresholds |-> event]
WaitUp ==
  /\ pc = "waitUp" /\ Popped
  /\ \E t \in Recv :
       CASE IsEvent(t, "34") ->
              /\ wire' = Append(wire, Heard(t))
              /\ IF t.ev # "up" THEN Fail("event") /\ UNCHANGED touch
                 ELSE IF touch.n = Total THEN Goto("close") /\ UNCHANGED touch
                 ELSE Goto("armDown") /\ touch' = NextTouch(Len(wire) + 1)
         [] t.kind = "error" -> Fail("usb") /\ UNCHANGED <<touch, wire>>
         [] OTHER -> UNCHANGED <<pc, err, touch, wire>>
  /\ UNCHANGED <<cfg, ret, reads, k, owned, next, frames>>

\* Mutant: a missing lift is never a failure of the run.
WaitExpiresGently ==
  /\ \/ pc = "waitDown" /\ Fail("noFinger")
     \/ pc = "waitUp" /\ Goto("close")
  /\ UNCHANGED <<cfg, ret, reads, k, touch, owned, fake, frames, wire>>

\* --finger-timeout: after the last frame it is no failure.
WaitExpires ==
  /\ \/ pc = "waitDown" /\ Fail("noFinger")
     \/ pc = "waitUp" /\ touch.n < Total /\ Fail("noFinger")
     \/ pc = "waitUp" /\ touch.n = Total /\ Goto("close")
  /\ UNCHANGED <<cfg, ret, reads, k, touch, owned, fake, frames, wire>>

-----------------------------------------------------------------------------
(* The deferred calls, in their order *)

\* Transport.Close: the interface, the configuration, the device, the context.
CloseTransport ==
  /\ pc = "close"
  /\ IF held = {} THEN /\ pc' = "teardown" /\ UNCHANGED held
                       /\ port' = IF port = "none" THEN "none" ELSE "closed"
     ELSE \E i \in 1..4 : /\ Resources[i] \in held
                          /\ \A j \in 1..4 : Resources[j] \in held => j <= i
                          /\ held' = held \ {Resources[i]} /\ UNCHANGED <<pc, port>>
  /\ UNCHANGED <<cfg, ret, reads, k, touch, err, logFile, tls, ec, fake, frames, wire>>

\* The rehearsal, the log, the endpoint and its key.
Teardown ==
  /\ pc = "teardown" /\ pc' = "exit" /\ logFile' = FALSE
  /\ ec' = (IF ec = "live" THEN "closed" ELSE ec) /\ tls' = (IF tls = "live" THEN "closed" ELSE tls)
  /\ UNCHANGED <<cfg, ret, reads, k, touch, err, port, held, fake, frames, wire>>

Next ==
  \/ main \/ prepareTLS \/ OpenLog \/ Open \/ Claim \/ ClaimFails \/ drain \/ collect
  \/ checkECResponsive \/ HealthReads \/ readStuckState \/ StateReads \/ Stuck
  \/ Step \/ StepsDone \/ runTLS \/ Handshake \/ sendAndCollect \/ Capture
  \/ captureFrame \/ ImageReads \/ ArmDown \/ WaitDown \/ ArmUp \/ WaitUp \/ WaitExpires
  \/ CloseTransport \/ Teardown

Spec == Init /\ [][Next]_vars
\* One goroutine, whose reads all return; a wait for the finger has a deadline.
FairSpec == Spec /\ WF_vars(Next) /\ WF_vars(WaitExpires)

-----------------------------------------------------------------------------
(* Properties *)

TypeOK ==
  /\ cfg \in Configs
  /\ pc \in {"main", "prepare", "log", "open", "claim", "drain", "collect", "health", "healthRead",
             "state", "stateRead", "stuck", "step", "request", "handshake", "established", "capture",
             "image", "imageRead", "armDown", "waitDown", "armUp", "waitUp", "close", "teardown", "exit"}
  /\ ret \in {"main", "health", "step", "stuck", "d4"}
  /\ reads \in Nat /\ k \in Nat
  /\ touch \in [n : Nat, attempt : 0..MaxBaseRearms, thresholds : Nat, down : Nat]
  /\ err \in {"nil", "flags", "preflight", "log", "rehearsal", "attach", "refused", "mismatch", "usb",
              "unresponsive", "tls", "image", "event", "noFinger"}
  /\ port \in {"none", "usb", "peer", "replay", "closed"} /\ held \in SUBSET ToSet(Resources)
  /\ logFile \in BOOLEAN /\ tls \in {"none", "live", "closed"} /\ ec \in {"none", "live", "closed"}

IsOut(i) == wire[i].dir = "out"
IsIn(i) == wire[i].dir = "in"

\* "Nothing else is sent": an EC that did not answer the health check has
\* received 0xa8 and, if --read-state was given, one 0xae (runBisect,
\* checkECResponsive, readStuckState).
StuckECIsSpared ==
  ~cfg.replay =>
    \A i \in DOMAIN wire : IsOut(i) =>
      \/ \E j \in 1..(i - 1) : IsIn(j) /\ wire[j].op = "a8"
      \/ i = 1 /\ wire[i].op = "a8"
      \/ i = 2 /\ wire[i].op = "ae" /\ cfg.readState

\* Every frame has a vendor's payload and, above the ceiling, its flag and a
\* place in this run; and the checks made before anything is opened are enough:
\* no run gets half-way and then meets the gate, or leaves its script.
OnlyWhatWasUnlocked ==
  /\ err \notin {"refused", "mismatch"}
  /\ \A i \in DOMAIN wire : IsOut(i) =>
       /\ wire[i].len = PayloadExactly[wire[i].op]
       /\ wire[i].op \notin ReadOnly =>
            wire[i].op \in cfg.allow /\ wire[i].op \in ToSet(cfg.steps) \cup opcodes(cfg)
       /\ fdtArm(wire[i].op) => \E j \in 1..(i - 1) : wire[j].op = "d0"

\* Each arm carries the thresholds of the newest event, which is of the right
\* kind for it, and an image on touch is asked for once, between the event of
\* the finger that came and the arm for its lift (touchOnce, captureOnTouch).
\* An image that --steps asks for comes before the session.
Newest(i, j) == j \in 1..(i - 1) /\ IsIn(j) /\ \A h \in (j + 1)..(i - 1) : IsOut(h)
InSession(i) == \E j \in 1..(i - 1) : wire[j].op = "d0"
TouchesInOrder ==
  cfg.waitFinger => \A i \in DOMAIN wire : IsOut(i) =>
    /\ wire[i].op = "32" =>
         IF wire[i].from = Vendor THEN \A j \in 1..(i - 1) : wire[j].op \notin {"32", "34"}
         ELSE Newest(i, wire[i].from) /\ wire[wire[i].from].ev \in {"baseInvalid", "up"}
    /\ wire[i].op = "20" /\ InSession(i) => IsIn(i - 1) /\ wire[i - 1].ev = "down"
    /\ wire[i].op = "34" => wire[i - 1].op = "20" /\ wire[i].from = i - 2

\* The USB is opened only for a run that can work, with its endpoint live and
\* its log open; whatever happens, what was opened is closed, an interface
\* before its configuration and that before the device.
NothingIsLeftBehind ==
  /\ held # {} => ~Refuses /\ ~cfg.replay /\ logFile /\ (cfg.tls => tls = "live")
  /\ \A i \in 2..4 : Resources[i] \in held => Resources[i - 1] \in held
  /\ pc = "exit" => held = {} /\ port \in {"none", "closed"} /\ "live" \notin {tls, ec} /\ ~logFile

\* Exit status 0: every command was sent, once and in its turn, and with
\* --capture every touch has its file.
Repeat(x, n) == [i \in 1..n |-> x]
Commands ==
  (IF cfg.replay THEN <<>> ELSE <<"a8">>) \o cfg.steps
  \o (IF ~cfg.tls THEN <<>>
      ELSE <<"d0">> \o (IF "d4" \in cfg.allow THEN <<"d4">> ELSE <<>>)
           \o (IF cfg.capture THEN Repeat("20", Total) ELSE <<>>))
Command(i) == IsOut(i) /\ ~fdtArm(wire[i].op)
CommandsBy(n) == Cardinality({i \in 1..n : Command(i)})
ExitTellsTheTruth ==
  pc = "exit" /\ err = "nil" =>
    /\ CommandsBy(Len(wire)) = Len(Commands)
    /\ \A i \in DOMAIN wire : Command(i) => wire[i].op = Commands[CommandsBy(i)]
    /\ frames = IF cfg.capture THEN [n \in 1..Total |-> n] ELSE <<>>

\* A device that never goes quiet holds no loop for ever.
ProbeEnds == <>(pc = "exit")
=============================================================================
