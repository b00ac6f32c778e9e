------------------------------ MODULE TouchSystem ------------------------------
(***************************************************************************)
(* The touch loop with the two parties it is written for: the EC behind    *)
(* the USB endpoints and the finger on the sensor.                         *)
(*                                                                         *)
(* The EC is external; it is modelled from what the driver's comments and  *)
(* the repository's runs say of it: it acknowledges each command, an arm   *)
(* replaces the one before it and fires one event, at once if its          *)
(* condition already holds (docs/protocol.md, Runs 20 and 49), it may      *)
(* answer a down arm with "base invalid", and its packets wait in order    *)
(* until they are read.  It takes its time: a read with a timeout may time *)
(* out and the answer come later.  The user touches and lifts at any time. *)
(***************************************************************************)
EXTENDS TouchLoop, Sequences

VARIABLES
  inq,      \* the packets the EC has sent and the host has not read
  armed,    \* the arm that has not fired: "none", "DOWN" or "UP"
  armThr,   \* and the reading its thresholds come from
  owes,     \* an answer to come: "none", "manual" or "image"
  on,       \* a finger rests on the sensor
  imaged    \* history: an image of this placement was taken for this action

ec == <<inq, armed, armThr, owes>>
user == <<on, imaged>>
systemVars == <<vars, ec, user>>

\* The images: of a placement for the first time in this action, of one that
\* was imaged before, of no finger.  The readings: none, the driver's initial
\* ones, with the finger on and off.
SystemImages == {"first", "again", "blank"}
SystemReadings == {"zero", "init", "on", "off"}

SystemAssumption ==
  /\ Images = SystemImages /\ Readings = SystemReadings
  /\ ZeroReading = "zero" /\ InitialReading = "init"

Ack == [rx |-> "ack"]
Event(kind, reading) == [rx |-> "fdt", ev |-> kind, zones |-> reading]
Image(img) == [rx |-> "tls", rec |-> img]
Send(t) == inq' = Append(inq, t)

SystemInit ==
  /\ Init
  /\ inq = <<>> /\ armed = "none" /\ armThr = "zero" /\ owes = "none"
  /\ on = FALSE /\ imaged = FALSE

(***************************************************************************)
(* The EC.                                                                 *)
(***************************************************************************)
\* It acknowledges the command of state st; a manual reading supersedes an arm.
TakeCommand ==
  /\ Send(Ack)
  /\ CASE st = "FDT_ARM" ->
            /\ armed' = mode
            /\ armThr' = IF mode = "DOWN" THEN downThr ELSE upThr
            /\ UNCHANGED owes
       [] st = "RECHECK_ARM_UP" -> armed' = "UP" /\ armThr' = upThr /\ UNCHANGED owes
       [] st = "RECHECK_ARM_MANUAL" -> armed' = "none" /\ owes' = "manual" /\ UNCHANGED armThr
       [] st = "CAP_REQUEST" -> owes' = "image" /\ UNCHANGED <<armed, armThr>>

\* The arm compares the zones with its thresholds: one taken from the wrong
\* readings does not fire.
Fire ==
  /\ \/ armed = "DOWN" /\ on /\ armThr # "on" /\ Send(Event("down", "on"))
     \/ armed = "UP" /\ ~on /\ armThr = "on" /\ Send(Event("up", "off"))
  /\ armed' = "none"
  /\ UNCHANGED <<armThr, owes, vars, user>>

BaseIsInvalid ==
  /\ armed = "DOWN" /\ ~on
  /\ \E reading \in {"off", "zero"} : Send(Event("base", reading))
  /\ armed' = "none"
  /\ UNCHANGED <<armThr, owes, vars, user>>

Answer ==
  /\ \/ owes = "manual" /\ Send(IF on THEN Event("manual_on", "on") ELSE Event("manual_off", "off"))
     \/ owes = "image" /\ Send(Image(IF ~on THEN "blank" ELSE IF imaged THEN "again" ELSE "first"))
  /\ owes' = "none"
  /\ imaged' = (imaged \/ (on /\ owes = "image"))
  /\ UNCHANGED <<armed, armThr, vars, on>>

EC == Fire \/ BaseIsInvalid \/ Answer

(***************************************************************************)
(* The user.                                                               *)
(***************************************************************************)
Touch == ~on /\ on' = TRUE /\ imaged' = FALSE /\ UNCHANGED <<vars, ec>>
Lift == on /\ on' = FALSE /\ UNCHANGED <<vars, ec, imaged>>

(***************************************************************************)
(* The driver, reading the packets in order.                               *)
(***************************************************************************)
Command == WriteDone /\ TakeCommand /\ UNCHANGED user

Read ==
  /\ inq # <<>>
  /\ ReadDone(Head(inq))
  /\ inq' = Tail(inq)
  /\ UNCHANGED <<armed, armThr, owes, user>>

TimeOut == inq = <<>> /\ ReadTimesOut /\ UNCHANGED <<ec, user>>
CancelWait == WaitCancelled /\ UNCHANGED <<ec, user>>

\* Opening drains the endpoint and resets the EC's session, not its arm.
OpenAgain ==
  /\ Open
  /\ inq' = <<>> /\ owes' = "none"
  /\ UNCHANGED <<armed, armThr, user>>

Call ==
  /\ dev_close \/ Refuse \/ RefuseTemplate \/ dev_cancel
  /\ UNCHANGED <<ec, user>>

Begin(a) == Start(a) /\ imaged' = FALSE /\ UNCHANGED <<ec, on>>

Driver == Command \/ Read \/ TimeOut \/ CancelWait

SystemNext ==
  \/ Fire \/ BaseIsInvalid \/ Answer
  \/ Touch \/ Lift
  \/ Command \/ Read \/ TimeOut \/ CancelWait
  \/ OpenAgain \/ Call
  \/ \E a \in {"enroll", "verify", "identify", "capture"} : Begin(a)

SystemSpec == SystemInit /\ [][SystemNext]_systemVars

(***************************************************************************)
(* The driver's transfers complete; the EC answers; an arm whose condition *)
(* holds again and again is bound to fire; the user comes and goes.        *)
(***************************************************************************)
SystemFairSpec ==
  /\ SystemSpec
  /\ WF_systemVars(Command) /\ WF_systemVars(Read)
  /\ WF_systemVars(Answer) /\ SF_systemVars(Fire)
  /\ WF_systemVars(Touch) /\ WF_systemVars(Lift)

----------------------------------------------------------------------------
\* The lift "keeps the next touch from imaging the same placement" (the touch
\* loop): the views of one enrollment are of different placements of the finger,
\* whatever events of earlier arms and actions are still on their way.
ViewsAreOfDistinctPlacements == views > -1 => probe # "again"

\* "The next down arm comes from the readings with the finger off" and the up
\* arm's from those with it on (finger_lifted, fdt_handle_event): an arm made
\* from the other readings would never fire, or fire at once.
ArmsFromTheRightReadings ==
  /\ downThr # "on"
  /\ st = "FDT_ARM" /\ mode = "UP" => upThr = "on"
  /\ st = "RECHECK_ARM_UP" => upThr = "on"

\* An image is asked for only when the one before it has been read from the
\* endpoint and out of the TLS server: an image is never taken for a later one.
OneImageAtATime ==
  st = "CAP_REQUEST" /\ io = "out" =>
    /\ unread = "none" /\ owes # "image"
    /\ \A i \in DOMAIN inq : inq[i].rx # "tls"

\* A user who keeps touching and lifting sees every single-touch action end,
\* after any earlier cancellation and any late event.
TouchEnds == act \in {"verify", "identify", "capture"} ~> act = "none"
=============================================================================
