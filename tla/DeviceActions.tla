----------------------------- MODULE DeviceActions -----------------------------
(***************************************************************************)
(* What the driver promises libfprint of its actions, with none of the     *)
(* wire in it: an action runs only in a usable session, ends exactly once  *)
(* with an outcome that belongs to it, an enrollment with all its stages,  *)
(* a cancelled one as cancelled; and a session that has failed stays       *)
(* unusable until the device is closed and opened again.                   *)
(***************************************************************************)
EXTENDS Integers

CONSTANT Stages  \* G5120_ENROLL_STAGES

Actions == {"enroll", "verify", "identify", "capture"}

\* The ways an action that was neither cancelled nor failed may end.
Results(a) == CASE a = "enroll" -> {"enrolled"}
                [] a = "capture" -> {"image"}
                [] a \in {"verify", "identify"} -> {"match", "nomatch", "retry"}

Outcomes == {"none", "error", "cancelled", "enrolled", "image", "match", "nomatch", "retry"}

VARIABLES opened,      \* libfprint holds the device open
          usable,      \* its session accepts actions
          act,         \* the action running, or "none"
          stage,       \* enroll: the stages completed
          cancelling,  \* the running action has been asked to stop
          outcome      \* how the last action ended

avars == <<opened, usable, act, stage, cancelling, outcome>>

AInit ==
  /\ opened = FALSE /\ usable = FALSE /\ cancelling = FALSE
  /\ act = "none" /\ stage = 0 /\ outcome = "none"

AOpen ==
  /\ ~opened
  /\ opened' = TRUE /\ usable' = TRUE
  /\ UNCHANGED <<act, stage, cancelling, outcome>>

AClose ==
  /\ opened /\ act = "none"
  /\ opened' = FALSE /\ usable' = FALSE
  /\ UNCHANGED <<act, stage, cancelling, outcome>>

AStart ==
  /\ opened /\ usable /\ act = "none"
  /\ act' \in Actions
  /\ stage' = 0 /\ cancelling' = FALSE /\ outcome' = "none"
  /\ UNCHANGED <<opened, usable>>

\* Refused before any I/O.
ARefuse ==
  /\ opened /\ act = "none"
  /\ outcome' = "error"
  /\ UNCHANGED <<opened, usable, act, stage, cancelling>>

ACancel ==
  /\ act # "none"
  /\ cancelling' = TRUE
  /\ UNCHANGED <<opened, usable, act, stage, outcome>>

AStage ==
  /\ act = "enroll" /\ ~cancelling
  /\ stage + 1 < Stages
  /\ stage' = stage + 1
  /\ UNCHANGED <<opened, usable, act, cancelling, outcome>>

AEnd(o) == act' = "none" /\ stage' = 0 /\ cancelling' = FALSE /\ outcome' = o

AComplete ==
  /\ act # "none" /\ ~cancelling
  /\ act = "enroll" => stage + 1 = Stages
  /\ \E o \in Results(act) : AEnd(o)
  /\ UNCHANGED <<opened, usable>>

AFail ==
  /\ act # "none" /\ ~cancelling
  /\ AEnd("error")
  /\ usable' = FALSE
  /\ UNCHANGED opened

ACancelled ==
  /\ act # "none" /\ cancelling
  /\ AEnd("cancelled")
  /\ usable' \in {usable, FALSE}
  /\ UNCHANGED opened

ANext ==
  AOpen \/ AClose \/ AStart \/ ARefuse \/ ACancel \/ AStage \/ AComplete \/ AFail \/ ACancelled

ASpec == AInit /\ [][ANext]_avars
=============================================================================
