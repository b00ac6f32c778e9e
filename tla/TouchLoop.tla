------------------------------- MODULE TouchLoop -------------------------------
(***************************************************************************)
(* The actions of the C driver (goodix5120.c: enroll, verify, identify,    *)
(* capture) and the machines they run one at a time: finger detection,     *)
(* capture and the re-check of a finger that did not match.                *)
(*                                                                         *)
(* The driver is event driven: between two callbacks exactly one USB       *)
(* transfer is outstanding, so an action of this module is one whole       *)
(* callback, from the completion of that transfer to the submission of the *)
(* next or the end of the libfprint action, with every state it enters and *)
(* every session_done it runs on the way.  The EC may deliver any transfer *)
(* at any time.  Open and close are single steps here (OpenDevice has the  *)
(* opening sequence); the wire image of an arm, a template and an image    *)
(* are abstracted to the reading or the image they come from.              *)
(***************************************************************************)
EXTENDS ExchangeRules

CONSTANTS Stages,          \* G5120_ENROLL_STAGES
          MaxImages,       \* G5120_MAX_IMAGES_PER_TOUCH
          MaxBaseInvalid,  \* G5120_MAX_BASE_INVALID
          MaxPrints,       \* bound: the largest identify gallery
          Images,          \* what an image may show
          Readings,        \* what the six zones may read
          ZeroReading,     \* the reading zones_all_zero finds
          InitialReading   \* g5120_fdt_initial_down_thresholds

NoImage == "none"
\* What the TLS server may hold besides an image: nothing, plaintext of no
\* known layout, a record that does not decrypt.
Unread == Images \cup {"none", "badlayout", "forged"}

ASSUME TouchAssumption ==
  /\ Stages \in Nat \ {0} /\ MaxImages \in Nat \ {0} /\ MaxPrints \in Nat \ {0}
  /\ MaxBaseInvalid \in Nat
  /\ Images \cap {"none", "badlayout", "forged", "part"} = {}
  /\ ZeroReading \in Readings /\ InitialReading \in Readings

VARIABLES
  opened,      \* libfprint holds the device open
  session,     \* session_valid
  tls,         \* self->tls is not NULL
  unread,      \* the whole records the TLS server holds, unread
  partial,     \* it also holds the start of a record
  act,         \* fpi_device_get_current_action
  cancelling,
  outcome,     \* how the last action was completed
  st, io,      \* the state of the running machine and the outstanding transfer
  x,           \* the running exchange (NoExchange when none runs)
  fdtCancel,   \* fdt_cancel: "none", "live" or "cancelled"
  mode,        \* fdt_mode
  images,      \* touch_images
  reads,       \* recheck_reads or cap_reads of the running machine, else 0
  baseInvalid,
  downThr, upThr, manualThr,  \* thresholds, by the reading they come from
  probe, retry, captured, views, gallery, matchIdx,  \* -1 is NULL, or no match
  \* History: what the driver last learnt of the finger and of the last image
  \* of the touch, and the 0x20 sent in it.
  finger, lastImage, shots

lib == <<opened, act, cancelling, outcome>>
tlsState == <<session, tls, unread, partial>>
wire == <<st, io, x, fdtCancel, mode, reads>>
thresholds == <<downThr, upThr, manualThr>>
matching == <<probe, retry, captured, views, gallery, matchIdx>>
counters == <<images, baseInvalid>>
history == <<finger, lastImage, shots>>
vars == <<lib, tlsState, wire, counters, thresholds, matching, history>>

ArmStates == {"FDT_ARM", "RECHECK_ARM_UP", "RECHECK_ARM_MANUAL"}
ExchangeStates == ArmStates \cup {"CAP_REQUEST"}
WaitStates == {"FDT_WAIT", "RECHECK_WAIT"}
NoExchange == begin_exchange(FALSE, {}, "no")

(***************************************************************************)
(* The transfers of the EC.                                                *)
(***************************************************************************)
\* g5120_fdt_decode_event; a manual event with and without touch flags.
FdtKinds == {"down", "base", "up", "manual_on", "manual_off", "unknown"}
EventMode(ev) == CASE ev \in {"down", "base"} -> "DOWN"
                   [] ev = "up" -> "UP"
                   [] OTHER -> "MANUAL"

Transfers ==
  [rx : RxKinds \ {"fdt", "tls"}]
    \cup [rx : {"tls"}, rec : Images \cup {"part", "badlayout", "forged"}]
    \cup [rx : {"fdt"}, ev : FdtKinds, zones : Readings]

\* Mutant of FedUnread: the start of a record counts as a record.
FedUnreadPart(t) == IF t.rx = "tls" THEN t.rec ELSE unread

\* g5120_tls_feed: the plaintext of two records has no known layout.
FedUnread(t) ==
  IF t.rx # "tls" \/ t.rec = "part" THEN unread
  ELSE IF unread = "none" THEN t.rec
  ELSE IF "forged" \in {unread, t.rec} THEN "forged" ELSE "badlayout"
FedPartial(t) == IF t.rx = "tls" THEN t.rec = "part" ELSE partial

(***************************************************************************)
(* Machines.                                                               *)
(***************************************************************************)
\* A state that begins an exchange; the FDT arms want an ACK alone.
Run(s) ==
  /\ st' = s /\ io' = "out" /\ reads' = 0
  /\ x' = start_exchange(IF s = "CAP_REQUEST" THEN {"ACK", "TLS"} ELSE {"ACK"})

\* A state that submits a read of its own; a wait makes a new cancellable.
Await(s, n) ==
  /\ st' = s /\ io' = "in" /\ reads' = n /\ x' = NoExchange
  /\ fdtCancel' = IF s \in WaitStates THEN "live" ELSE fdtCancel

\* Mutant of matching_clear: the gallery stays.
matching_clear_but_gallery ==
  /\ probe' = NoImage /\ retry' = FALSE /\ captured' = NoImage
  /\ views' = -1 /\ gallery' = gallery /\ matchIdx' = -1

matching_clear ==
  /\ probe' = NoImage /\ retry' = FALSE /\ captured' = NoImage
  /\ views' = -1 /\ gallery' = -1 /\ matchIdx' = -1

\* The machine is gone and the action is completed with o.
Complete(o) ==
  /\ st' = "none" /\ io' = "none" /\ reads' = 0 /\ x' = NoExchange /\ fdtCancel' = "none"
  /\ act' = "none" /\ outcome' = o /\ cancelling' = FALSE
  /\ matching_clear
  /\ UNCHANGED <<opened, mode, shots>>

\* session_done starts the next machine of the touch.
start_session(s) ==
  /\ Run(s)
  /\ fdtCancel' = "none"
  /\ shots' = IF s = "CAP_REQUEST" /\ shots <= MaxImages THEN shots + 1 ELSE shots

start_touch ==
  /\ mode' = "DOWN"
  /\ Run("FDT_ARM")
  /\ fdtCancel' = "none"
  /\ shots' = 0

\* Mutants of WaitForLift: the machine is not started because one seems to run;
\* the down arm, or the manual one, is armed again.
WaitForLiftStranded ==
  /\ mode' = "UP"
  /\ st' = "none" /\ io' = "none" /\ reads' = 0 /\ x' = NoExchange /\ fdtCancel' = "none"
  /\ UNCHANGED shots
WaitForLiftArmsDown == mode' = "DOWN" /\ start_session("FDT_ARM")
WaitForLiftArmsManual == mode' = "MANUAL" /\ start_session("FDT_ARM")

WaitForLift == mode' = "UP" /\ start_session("FDT_ARM")

enroll_touch_done(r) ==
  \/ /\ r \/ views + 1 < Stages
     /\ views' = IF r THEN views ELSE views + 1
     /\ probe' = NoImage /\ retry' = FALSE
     /\ start_touch
     /\ UNCHANGED <<captured, gallery, matchIdx, lib>>
  \/ ~r /\ views + 1 >= Stages /\ Complete("enrolled")

\* Mutant of verify_touch_done: probe_retry is not looked at.
verify_touch_done_no_retry(i, r) == Complete(IF i >= 0 THEN "match" ELSE "nomatch")

\* i is match_idx and r says that probe_retry is set.
verify_touch_done(i, r) == Complete(IF r THEN "retry" ELSE IF i >= 0 THEN "match" ELSE "nomatch")

touch_done(i, r) ==
  CASE act = "enroll" -> enroll_touch_done(r)
    [] act \in {"verify", "identify"} -> verify_touch_done(i, r)
    [] act = "capture" -> Complete("image")
    [] OTHER -> Complete("error")

\* session_done on a machine that ended with no error and no image.  A result
\* of "NONE" is that of a machine that stopped because of the flag.
session_done(result) ==
  IF cancelling THEN Complete("cancelled")
  ELSE CASE result = "NONE" -> Complete("error")
         [] result \in {"FINGER_DOWN", "FINGER_STILL"} ->
              start_session("CAP_REQUEST") /\ UNCHANGED <<mode, matching, lib>>
         [] result = "FINGER_GONE" -> WaitForLift /\ UNCHANGED <<matching, lib>>
         [] result = "FINGER_UP" ->
              \* check_contact: a brush makes of a usable touch a retry.
              \E brush \in IF act = "capture" THEN {FALSE} ELSE BOOLEAN :
                touch_done(matchIdx, retry \/ brush)

\* Mutant of CountImage: touch_images stays.
CountNoImage == UNCHANGED images

CountImage == images' = images + 1

\* session_done with RESULT_IMAGE: extract_probe and score_probe.  The image is
\* usable or not, and the best print over the threshold is i, if any.
ImageDone(img) ==
  \/ cancelling /\ Complete("cancelled") /\ UNCHANGED <<images, lastImage>>
  \/ /\ ~cancelling /\ act = "capture"
     /\ CountImage
     /\ captured' = img
     /\ WaitForLift
     /\ UNCHANGED <<probe, retry, views, gallery, matchIdx, lastImage, lib>>
  \/ /\ ~cancelling /\ act # "capture" /\ gallery > 0
     /\ CountImage /\ lastImage' = "match"
     /\ \E i \in 0 .. gallery - 1 : touch_done(i, FALSE)
  \/ /\ ~cancelling /\ act # "capture"
     /\ CountImage /\ captured' = NoImage
     /\ \E usable \in BOOLEAN :
          /\ lastImage' = IF usable THEN "usable" ELSE "unusable"
          /\ retry' = ~usable
          /\ probe' = IF usable /\ gallery = -1 THEN img ELSE NoImage
          /\ matchIdx' = IF usable /\ gallery # -1 THEN -1 ELSE matchIdx
     /\ IF gallery # -1 /\ images + 1 < MaxImages
        THEN start_session("RECHECK_ARM_UP") /\ UNCHANGED mode
        ELSE WaitForLift
     /\ UNCHANGED <<views, gallery, lib>>

\* Mutant of MachineFails: the session stays valid.
MachineFailsLightly == UNCHANGED tlsState /\ Complete(IF cancelling THEN "cancelled" ELSE "error")

\* session_done on an error: neither TLS nor the EC's state is trusted again.
MachineFails ==
  /\ session' = FALSE /\ tls' = FALSE /\ unread' = "none" /\ partial' = FALSE
  /\ Complete(IF cancelling THEN "cancelled" ELSE "error")

\* A machine enters state s, or completes with no result when cancelled.
Enter(s) ==
  IF cancelling THEN session_done("NONE")
  ELSE /\ IF s \in ExchangeStates THEN Run(s) /\ UNCHANGED fdtCancel ELSE Await(s, 0)
       /\ UNCHANGED <<mode, matching, lib, shots>>

(***************************************************************************)
(* CAP_READ and CAP_DECODE, with u and p what the TLS server holds and n   *)
(* reads so far.  The flag is not looked at: the image is read to its end. *)
(***************************************************************************)
ImageRead(u, p) ==
  /\ u \in Images
  /\ unread' = "none" /\ partial' = p
  /\ UNCHANGED <<session, tls>>
  /\ ImageDone(u)

ReadOn(u, p, n) ==
  /\ u = "none" /\ n < MaxReads
  /\ Await("CAP_READ", n)
  /\ unread' = u /\ partial' = p
  /\ UNCHANGED <<session, tls, images, mode, matching, lib, lastImage, shots>>

NoImageRead(u, n) ==
  /\ u \in {"badlayout", "forged"} \/ (u = "none" /\ n >= MaxReads)
  /\ MachineFails
  /\ UNCHANGED <<images, lastImage>>

\* Mutant of EnterCapRead: it stops at once when cancelled, as the other states do.
EnterCapReadStops(u, p, n) ==
  \/ /\ cancelling
     /\ session_done("NONE")
     /\ unread' = u /\ partial' = p
     /\ UNCHANGED <<session, tls, images, lastImage>>
  \/ ~cancelling /\ (ImageRead(u, p) \/ ReadOn(u, p, n) \/ NoImageRead(u, n))

EnterCapRead(u, p, n) == ImageRead(u, p) \/ ReadOn(u, p, n) \/ NoImageRead(u, n)

(***************************************************************************)
(* Callbacks.                                                              *)
(***************************************************************************)
WriteDone ==
  /\ io = "out" /\ io' = "in"
  /\ UNCHANGED <<lib, tlsState, st, x, fdtCancel, mode, reads, counters, thresholds, matching,
                 history>>

WriteFails ==
  /\ io = "out"
  /\ MachineFails
  /\ UNCHANGED <<counters, thresholds, finger, lastImage>>

\* xchg_recv_cb; a finger event here is stale and dropped.
ExchangeRead(t) ==
  LET v == Received(x, t.rx)
      u == IF WantsTls(x) THEN FedUnread(t) ELSE unread
      p == IF WantsTls(x) THEN FedPartial(t) ELSE partial
  IN /\ io = "in" /\ st \in ExchangeStates
     /\ \/ v = "failed" /\ MachineFails /\ UNCHANGED <<images, lastImage>>
        \/ /\ v = "more"
           /\ x' = Noted(x, t.rx)
           /\ unread' = u /\ partial' = p
           /\ UNCHANGED <<session, tls, st, io, fdtCancel, mode, reads, images, matching, lib,
                          lastImage, shots>>
        \/ v = "ok" /\ st = "CAP_REQUEST" /\ EnterCapRead(u, p, 0)
        \/ /\ v = "ok" /\ st \in ArmStates
           /\ Enter(CASE st = "FDT_ARM" -> "FDT_WAIT"
                      [] st = "RECHECK_ARM_UP" -> "RECHECK_ARM_MANUAL"
                      [] st = "RECHECK_ARM_MANUAL" -> "RECHECK_WAIT")
           /\ UNCHANGED <<tlsState, images, lastImage>>
     /\ UNCHANGED <<baseInvalid, thresholds, finger>>

IsEvent(t, ev) == t.rx = "fdt" /\ t.ev = ev

\* Mutants of FingerDown: touch_images, or the up thresholds, stay as they were.
FingerDownKeepsCount(t) ==
  /\ mode = "DOWN" /\ IsEvent(t, "down")
  /\ upThr' = t.zones /\ manualThr' = downThr
  /\ images' = images /\ baseInvalid' = 0
  /\ finger' = "on" /\ lastImage' = "none"
  /\ session_done("FINGER_DOWN")
  /\ UNCHANGED <<tlsState, downThr>>

FingerDownKeepsUp(t) ==
  /\ mode = "DOWN" /\ IsEvent(t, "down")
  /\ upThr' = upThr /\ manualThr' = downThr
  /\ images' = 0 /\ baseInvalid' = 0
  /\ finger' = "on" /\ lastImage' = "none"
  /\ session_done("FINGER_DOWN")
  /\ UNCHANGED <<tlsState, downThr>>

\* fdt_wait_cb and fdt_handle_event.
FingerDown(t) ==
  /\ mode = "DOWN" /\ IsEvent(t, "down")
  /\ upThr' = t.zones /\ manualThr' = downThr
  /\ images' = 0 /\ baseInvalid' = 0
  /\ finger' = "on" /\ lastImage' = "none"
  /\ session_done("FINGER_DOWN")
  /\ UNCHANGED <<tlsState, downThr>>

BaseInvalid(t) ==
  /\ mode = "DOWN" /\ IsEvent(t, "base")
  /\ baseInvalid' = baseInvalid + 1
  /\ IF baseInvalid + 1 > MaxBaseInvalid THEN MachineFails /\ UNCHANGED downThr
     ELSE /\ downThr' = IF t.zones = ZeroReading THEN downThr ELSE t.zones
          /\ Enter("FDT_ARM")
          /\ UNCHANGED tlsState
  /\ UNCHANGED <<images, upThr, manualThr, finger, lastImage>>

\* finger_lifted: the next down arm comes from the readings with the finger off.
Lifted(t) ==
  /\ downThr' = t.zones /\ finger' = "off"
  /\ session_done("FINGER_UP")
  /\ UNCHANGED <<tlsState, upThr, manualThr, counters, lastImage>>

FingerUp(t) == mode = "UP" /\ IsEvent(t, "up") /\ Lifted(t)

KeepWaiting(t) ==
  /\ ~(t.rx = "fdt" /\ t.ev \in {"down", "base", "up"} /\ EventMode(t.ev) = mode)
  /\ Enter("FDT_WAIT")
  /\ UNCHANGED <<tlsState, counters, thresholds, finger, lastImage>>

FdtWaitRead(t) ==
  /\ io = "in" /\ st = "FDT_WAIT"
  /\ FingerDown(t) \/ BaseInvalid(t) \/ FingerUp(t) \/ KeepWaiting(t)

FingerGone ==
  /\ finger' = "unknown"
  /\ session_done("FINGER_GONE")
  /\ UNCHANGED <<tlsState, counters, thresholds, lastImage>>

\* Mutant of FingerStill: the down thresholds are set with the finger on.
FingerStillSetsDown(t) ==
  /\ manualThr' = t.zones /\ finger' = "on" /\ downThr' = t.zones
  /\ session_done("FINGER_STILL")
  /\ UNCHANGED <<tlsState, upThr, counters, lastImage>>

\* recheck_wait_cb
FingerStill(t) ==
  /\ manualThr' = t.zones /\ finger' = "on"
  /\ session_done("FINGER_STILL")
  /\ UNCHANGED <<tlsState, downThr, upThr, counters, lastImage>>

RecheckAgain ==
  /\ IF cancelling THEN session_done("NONE")
     ELSE Await("RECHECK_WAIT", reads + 1) /\ UNCHANGED <<mode, matching, lib, shots>>
  /\ UNCHANGED <<tlsState, counters, thresholds, finger, lastImage>>

RecheckRead(t) ==
  /\ io = "in" /\ st = "RECHECK_WAIT"
  /\ \/ (IsEvent(t, "manual_off") \/ IsEvent(t, "up")) /\ Lifted(t)
     \/ IsEvent(t, "manual_on") /\ FingerStill(t)
     \/ /\ ~(t.rx = "fdt" /\ t.ev \in {"manual_off", "manual_on", "up"})
        /\ IF reads + 1 >= MaxReads THEN FingerGone ELSE RecheckAgain

\* cap_read_cb
CapRead(t) ==
  /\ io = "in" /\ st = "CAP_READ"
  /\ IF t.rx = "badtls" THEN MachineFails /\ UNCHANGED <<images, lastImage>>
     ELSE EnterCapRead(FedUnread(t), FedPartial(t), reads + 1)
  /\ UNCHANGED <<baseInvalid, thresholds, finger>>

ReadDone(t) == ExchangeRead(t) \/ FdtWaitRead(t) \/ RecheckRead(t) \/ CapRead(t)

\* The wait for a finger has no timeout.
ReadTimesOut ==
  /\ io = "in"
  /\ \/ st = "RECHECK_WAIT" /\ FingerGone
     \/ /\ st \in ExchangeStates \cup {"CAP_READ"}
        /\ MachineFails
        /\ UNCHANGED <<counters, thresholds, finger, lastImage>>

ReadFails ==
  /\ io = "in"
  /\ MachineFails
  /\ UNCHANGED <<counters, thresholds, finger, lastImage>>

\* A wait whose cancellable fired ends with G_IO_ERROR_CANCELLED.
WaitCancelled ==
  /\ io = "in" /\ st \in WaitStates /\ fdtCancel = "cancelled" /\ cancelling
  /\ session_done("NONE")
  /\ UNCHANGED <<tlsState, counters, thresholds, finger, lastImage>>

(***************************************************************************)
(* libfprint's calls.                                                      *)
(***************************************************************************)
Open ==
  /\ ~opened
  /\ opened' = TRUE /\ session' = TRUE /\ tls' = TRUE /\ unread' = "none" /\ partial' = FALSE
  /\ UNCHANGED <<act, cancelling, outcome, wire, counters, thresholds, matching, history>>

dev_close ==
  /\ opened /\ act = "none"
  /\ opened' = FALSE /\ session' = FALSE /\ tls' = FALSE /\ unread' = "none" /\ partial' = FALSE
  /\ matching_clear
  /\ UNCHANGED <<act, cancelling, outcome, wire, counters, thresholds, history>>

\* action_begin and the setting up of one action; libfprint runs one at a time.
Start(a) ==
  /\ opened /\ act = "none"
  /\ session /\ st = "none"
  /\ baseInvalid' = 0 /\ cancelling' = FALSE /\ matchIdx' = -1
  /\ act' = a /\ outcome' = "none"
  /\ views' = IF a = "enroll" THEN 0 ELSE views
  /\ CASE a = "verify" -> gallery' = 1
       [] a = "identify" -> gallery' \in 0 .. MaxPrints
       [] OTHER -> gallery' = gallery
  /\ start_touch
  /\ finger' = "off" /\ lastImage' = "none"
  /\ UNCHANGED <<opened, tlsState, images, thresholds, probe, retry, captured>>

\* No valid session, or a capture that does not wait for a finger.
Refuse ==
  /\ opened /\ act = "none"
  /\ outcome' = "error"
  /\ UNCHANGED <<opened, act, cancelling, tlsState, wire, counters, thresholds, matching, history>>

\* verify or identify given a template that does not parse.
RefuseTemplate ==
  /\ opened /\ act = "none"
  /\ session /\ st = "none"
  /\ baseInvalid' = 0 /\ cancelling' = FALSE
  /\ matching_clear
  /\ outcome' = "error"
  /\ UNCHANGED <<opened, act, tlsState, wire, images, thresholds, finger, lastImage, shots>>

\* Mutant of dev_cancel: the wait for a finger is not woken.
dev_cancel_no_wake ==
  /\ st # "none"
  /\ cancelling' = TRUE
  /\ UNCHANGED <<opened, act, outcome, tlsState, st, io, x, fdtCancel, mode, reads, counters,
                 thresholds, matching, history>>

dev_cancel ==
  /\ st # "none"
  /\ cancelling' = TRUE
  /\ fdtCancel' = IF fdtCancel = "live" THEN "cancelled" ELSE fdtCancel
  /\ UNCHANGED <<opened, act, outcome, tlsState, st, io, x, mode, reads, counters, thresholds,
                 matching, history>>

----------------------------------------------------------------------------
Init ==
  /\ opened = FALSE /\ act = "none" /\ cancelling = FALSE /\ outcome = "none"
  /\ session = FALSE /\ tls = FALSE /\ unread = "none" /\ partial = FALSE
  /\ st = "none" /\ io = "none" /\ x = NoExchange /\ fdtCancel = "none"
  /\ mode = "DOWN" /\ reads = 0
  /\ images = 0 /\ baseInvalid = 0
  /\ downThr = InitialReading /\ upThr = ZeroReading /\ manualThr = ZeroReading
  /\ probe = NoImage /\ retry = FALSE /\ captured = NoImage
  /\ views = -1 /\ gallery = -1 /\ matchIdx = -1
  /\ finger = "off" /\ lastImage = "none" /\ shots = 0

Library ==
  \/ Open \/ dev_close \/ Refuse \/ RefuseTemplate \/ dev_cancel
  \/ \E a \in {"enroll", "verify", "identify", "capture"} : Start(a)

Completion ==
  \/ WriteDone \/ WriteFails \/ ReadTimesOut \/ ReadFails \/ WaitCancelled
  \/ \E t \in Transfers : ReadDone(t)

Next == Library \/ Completion

Spec == Init /\ [][Next]_vars

(***************************************************************************)
(* libusb completes a write, and a read that has a timeout or is cancelled *)
(* though the EC sends nothing.  Nothing obliges the EC to report a        *)
(* finger, or libfprint to call the driver.                                *)
(***************************************************************************)
Quiet == ReadTimesOut \/ WaitCancelled
FairSpec == Spec /\ WF_vars(WriteDone) /\ WF_vars(Quiet)

----------------------------------------------------------------------------
TypeOK ==
  /\ {opened, session, tls, partial, cancelling, retry} \subseteq BOOLEAN
  /\ unread \in Unread
  /\ act \in {"none", "enroll", "verify", "identify", "capture"}
  /\ outcome \in {"none", "error", "cancelled", "enrolled", "image", "match", "nomatch", "retry"}
  /\ st \in {"none", "CAP_READ"} \cup ExchangeStates \cup WaitStates
  /\ io \in {"none", "out", "in"}
  /\ x \in Exchanges
  /\ fdtCancel \in {"none", "live", "cancelled"}
  /\ mode \in {"DOWN", "UP"}
  /\ {images, reads, shots} \subseteq Nat
  /\ baseInvalid \in 0 .. MaxBaseInvalid + 1
  /\ {downThr, upThr, manualThr} \subseteq Readings
  /\ {probe, captured} \subseteq Images \cup {NoImage}
  /\ views \in -1 .. Stages - 1
  /\ gallery \in -1 .. MaxPrints
  /\ matchIdx \in -1 .. MaxPrints - 1
  /\ finger \in {"on", "off", "unknown"}
  /\ lastImage \in {"none", "unusable", "usable", "match"}

\* A running action always has its machine and exactly one transfer in flight,
\* on a device that is open with a TLS session behind it; an idle driver has
\* neither.  So no action is left without a completion to come, and nothing is
\* written or decrypted on a session that was given up.
ActionIsDriven ==
  /\ (act # "none") = (st # "none")
  /\ (st # "none") = (io # "none")
  /\ act # "none" => opened /\ session /\ tls

\* What is reported is what the last image of the touch gave: a match only on
\* the image that matched, a no-match or a stage only after the finger lifted
\* from a touch whose last image could be read.
OutcomeIsEarned ==
  /\ outcome = "match" => lastImage = "match"
  /\ outcome \in {"nomatch", "enrolled"} => lastImage = "usable" /\ finger = "off"
  /\ outcome \in {"retry", "image"} => finger = "off"

\* "An image is only requested after a finger-down event" (dev_capture), and at
\* most G5120_MAX_IMAGES_PER_TOUCH of them: in every capture the driver has last
\* heard that the finger is on, and the image asked for is the next one counted.
ImageOnlyWithFingerOn ==
  st \in {"CAP_REQUEST", "CAP_READ"} =>
    finger = "on" /\ shots = images + 1 /\ shots <= MaxImages

\* No image is asked for while the TLS server holds a whole record unread: the
\* next capture would take the image of an earlier touch, of another finger
\* perhaps, for its own.  A cancelled capture must read its image to the end.
NoStaleImage == unread # "none" => st = "CAP_REQUEST" /\ x.gotTls

\* Nothing of a finished action (features, image, templates) stays behind for the
\* next one to report or for the process to hold.
NoResidue ==
  /\ act = "none" => /\ probe = NoImage /\ captured = NoImage /\ ~retry
                     /\ views = -1 /\ gallery = -1 /\ matchIdx = -1
  /\ views # -1 => act = "enroll"
  /\ gallery # -1 => act \in {"verify", "identify"}
  /\ captured # NoImage => act = "capture"

\* The driver does what DeviceActions promises.
Abstract == INSTANCE DeviceActions WITH
  usable <- opened /\ session,
  stage <- IF act = "enroll" THEN views ELSE 0
ImplementsDeviceActions == Abstract!ASpec

\* Whatever the EC sends, the driver comes back to waiting for a finger or ends
\* the action: no exchange, re-check or capture goes on for ever.  A cancelled
\* action ends: dev_cancel wakes a wait for the finger, and any other machine
\* stops at its next state or reads its bounded image to the end.
DriverSettles ==
  /\ st # "none" ~> (st = "FDT_WAIT" \/ st = "none")
  /\ cancelling ~> act = "none"
=============================================================================
