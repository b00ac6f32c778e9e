---------------------------- MODULE TouchLoop_proofs ----------------------------
(***************************************************************************)
(* The safety properties of the actions and of the touch loop, and that    *)
(* TouchLoop implements DeviceActions, for every number of stages, images, *)
(* "base invalid" replies, prints and readings.  Both follow from the same *)
(* invariant and are carried through the callbacks together: the lemmas    *)
(* about the operators a callback is made of say that what they lead to    *)
(* satisfies the invariant and is a step of DeviceActions.                 *)
(*                                                                         *)
(* Then the touch loop with the EC and the finger (TouchSystem): every     *)
(* step of it is a step of the loop or none, and what it adds is where an  *)
(* image is and which placement of the finger it shows.                    *)
(***************************************************************************)
EXTENDS TouchSystem, TLAPS

\* An exchange begins with its own request, no replies and no reads.
LEMMA BegunType ==
  ASSUME NEW s \in BOOLEAN, NEW r \in Reply, NEW l \in Listen
  PROVE  /\ begin_exchange(s, r, l) \in Exchanges
         /\ begin_exchange(s, r, l).send = s
         /\ begin_exchange(s, r, l).reply = r
         /\ begin_exchange(s, r, l).listen = l
BY DEF begin_exchange, Exchanges

\* A transfer changes only what the exchange remembers, and keeps its type.
LEMMA NotedType ==
  ASSUME NEW y \in Exchanges, NEW k \in RxKinds
  PROVE  /\ Noted(y, k) \in Exchanges
         /\ Noted(y, k).send = y.send
         /\ Noted(y, k).reply = y.reply
         /\ Noted(y, k).listen = y.listen
         /\ Noted(y, k).gotAck = (y.gotAck \/ (y.send /\ k = "ack"))
         /\ Noted(y, k).gotTls = (y.gotTls \/ (WantsTls(y) /\ k = "tls"))
<1>1. /\ y.gotAck \in BOOLEAN /\ y.gotTls \in BOOLEAN /\ y.send \in BOOLEAN
      /\ y.reads + 1 \in Nat /\ y.reply \in Reply /\ y.listen \in Listen
  BY DEF Exchanges
<1> DEFINE a == y.gotAck \/ (y.send /\ k = "ack")
           b == y.gotTls \/ (WantsTls(y) /\ k = "tls")
<1>2. a \in BOOLEAN /\ b \in BOOLEAN
  BY <1>1 DEF WantsTls
<1>3. Noted(y, k) = [y EXCEPT !.gotAck = a, !.gotTls = b, !.reads = y.reads + 1]
  BY DEF Noted
<1> HIDE DEF a, b
<1>4. Noted(y, k) = [send |-> y.send, reply |-> y.reply, listen |-> y.listen,
                     gotAck |-> a, gotTls |-> b, reads |-> y.reads + 1]
  BY <1>3 DEF Exchanges
<1>5. Noted(y, k) \in Exchanges
  BY <1>1, <1>2, <1>4 DEF Exchanges
<1> QED
  BY <1>4, <1>5 DEF a, b


RecheckStates == {"RECHECK_ARM_UP", "RECHECK_ARM_MANUAL", "RECHECK_WAIT"}
FdtStates == {"FDT_ARM", "FDT_WAIT"}

\* A session has its TLS server.  Outside an action nothing is being cancelled; in
\* one, no outcome is known yet and the "base invalid" replies are not used up.
Running ==
  /\ session = tls
  /\ act = "none" => ~cancelling
  /\ act # "none" => outcome = "none" /\ baseInvalid <= MaxBaseInvalid

\* An arm waits for its ACK, a capture for an ACK and a record.
Replies ==
  /\ st \in ArmStates => x.reply = {"ACK"}
  /\ st = "CAP_REQUEST" => x.send /\ x.reply = {"ACK", "TLS"}

\* The images asked for and counted, in every state that may lead to the next one.
Shots ==
  /\ st \in RecheckStates => shots = images /\ images < MaxImages
  /\ st \in FdtStates /\ mode = "DOWN" => shots = 0

\* A match ends the action at once; after any other image probe_retry tells
\* whether it could be read.
Judged ==
  /\ matchIdx = -1
  /\ act = "enroll" => views >= 0
  /\ (st \in RecheckStates \/ (st \in FdtStates /\ mode = "UP")) /\ act # "capture"
       => retry = (lastImage # "usable")

IInv ==
  /\ TypeOK /\ ActionIsDriven /\ OutcomeIsEarned /\ ImageOnlyWithFingerOn
  /\ NoStaleImage /\ NoResidue
  /\ Running /\ Replies /\ Shots /\ Judged

\* A step of DeviceActions, or none.
AStep == Abstract!ANext \/ UNCHANGED Abstract!avars

\* What a callback leaves in the variables the machines do not own.
Typed ==
  /\ images' \in Nat /\ baseInvalid' \in 0 .. MaxBaseInvalid + 1
  /\ {downThr', upThr', manualThr'} \subseteq Readings
  /\ finger' \in {"on", "off", "unknown"}
  /\ lastImage' \in {"none", "unusable", "usable", "match"}
  /\ partial' \in BOOLEAN

----------------------------------------------------------------------------
\* An exchange that is none has the type of one.
LEMMA NoExchangeType == NoExchange \in Exchanges
BY BegunType DEF NoExchange, Reply, Listen

\* A state that begins an exchange begins it with its own replies.
LEMMA RunType ==
  ASSUME NEW s \in ExchangeStates, Run(s)
  PROVE  /\ st' = s /\ io' = "out" /\ reads' = 0 /\ x' \in Exchanges
         /\ x'.send /\ x'.reply = IF s = "CAP_REQUEST" THEN {"ACK", "TLS"} ELSE {"ACK"}
<1> DEFINE r == IF s = "CAP_REQUEST" THEN {"ACK", "TLS"} ELSE {"ACK"}
<1>1. r \in Reply /\ "no" \in Listen
  BY DEF Reply, Listen
<1>2. st' = s /\ io' = "out" /\ reads' = 0 /\ x' = begin_exchange(TRUE, r, "no")
  BY DEF Run, start_exchange
<1> HIDE DEF r
<1>3. x' \in Exchanges /\ x'.send = TRUE /\ x'.reply = r
  BY <1>1, <1>2, BegunType
<1> QED
  BY <1>2, <1>3 DEF r

\* What DeviceActions tells apart does not change.
LEMMA Stutter ==
  ASSUME UNCHANGED <<opened, session, act, views, cancelling, outcome>>
  PROVE  AStep
BY DEF AStep, Abstract!avars

\* An action that ends, in one of the three ways an action may end.
LEMMA CompleteStep ==
  ASSUME IInv, act # "none", NEW o, Complete(o), Typed,
         session' \in BOOLEAN, tls' = session', unread' = "none",
         o = "match" => lastImage' = "match",
         o \in {"nomatch", "enrolled"} => lastImage' = "usable" /\ finger' = "off",
         o \in {"retry", "image"} => finger' = "off",
         \/ cancelling /\ o = "cancelled" /\ session' \in {session, FALSE}
         \/ ~cancelling /\ o = "error" /\ session' = FALSE
         \/ /\ ~cancelling /\ o \in Abstract!Results(act) /\ session' = session
            /\ act = "enroll" => views + 1 = Stages
  PROVE  IInv' /\ AStep
<1>1. /\ st' = "none" /\ io' = "none" /\ reads' = 0 /\ x' = NoExchange /\ fdtCancel' = "none"
      /\ act' = "none" /\ outcome' = o /\ cancelling' = FALSE
      /\ probe' = NoImage /\ retry' = FALSE /\ captured' = NoImage
      /\ views' = -1 /\ gallery' = -1 /\ matchIdx' = -1
      /\ UNCHANGED <<opened, mode, shots>>
  BY DEF Complete, matching_clear
<1>2. o \in {"error", "cancelled", "enrolled", "image", "match", "nomatch", "retry"}
  <2>1. act \in {"enroll", "verify", "identify", "capture"}
    BY DEF IInv, TypeOK
  <2>2. o \in Abstract!Results(act) => o \in {"enrolled", "image", "match", "nomatch", "retry"}
    BY <2>1 DEF Abstract!Results
  <2> QED
    BY <2>2
<1>3. TypeOK'
  <2>1. views' \in -1 .. Stages - 1 /\ gallery' \in -1 .. MaxPrints /\ matchIdx' \in -1 .. MaxPrints - 1
    BY <1>1, TouchAssumption
  <2>2. x' \in Exchanges
    BY <1>1, NoExchangeType
  <2>3. {opened', session', tls', partial', cancelling', retry'} \subseteq BOOLEAN
    BY <1>1 DEF IInv, TypeOK, Typed
  <2>4. {images', reads', shots'} \subseteq Nat /\ mode' \in {"DOWN", "UP"}
    BY <1>1 DEF IInv, TypeOK, Typed
  <2>5. {probe', captured'} \subseteq Images \cup {NoImage} /\ unread' \in Unread
    BY <1>1 DEF Unread
  <2> QED
    BY <1>1, <1>2, <2>1, <2>2, <2>3, <2>4, <2>5 DEF TypeOK, Typed
<1>4. /\ ActionIsDriven' /\ OutcomeIsEarned' /\ ImageOnlyWithFingerOn' /\ NoStaleImage'
      /\ NoResidue' /\ Running' /\ Replies' /\ Shots' /\ Judged'
  BY <1>1 DEF ActionIsDriven, OutcomeIsEarned, ImageOnlyWithFingerOn, NoStaleImage, NoResidue,
     Running, Replies, Shots, Judged, ArmStates, RecheckStates, FdtStates
<1>5. AStep
  <2>1. Abstract!AEnd(o)
    BY <1>1 DEF Abstract!AEnd
  <2>2. CASE cancelling /\ o = "cancelled" /\ session' \in {session, FALSE}
    <3>1. {opened, session, session'} \subseteq BOOLEAN
      BY DEF IInv, TypeOK
    <3>2. (opened' /\ session') \in {opened /\ session, FALSE}
      BY <1>1, <2>2, <3>1
    <3>3. Abstract!ACancelled
      BY <1>1, <2>1, <2>2, <3>2 DEF Abstract!ACancelled
    <3> QED
      BY <3>3 DEF AStep, Abstract!ANext
  <2>3. CASE ~cancelling /\ o = "error" /\ session' = FALSE
    BY <1>1, <2>1, <2>3 DEF AStep, Abstract!ANext, Abstract!AFail
  <2>4. CASE /\ ~cancelling /\ o \in Abstract!Results(act) /\ session' = session
             /\ act = "enroll" => views + 1 = Stages
    BY <1>1, <2>1, <2>4 DEF AStep, Abstract!ANext, Abstract!AComplete
  <2> QED
    BY <2>2, <2>3, <2>4
<1> QED
  BY <1>3, <1>4, <1>5 DEF IInv

\* A machine that fails ends the action and the session.
LEMMA MachineFailsStep ==
  ASSUME IInv, act # "none", MachineFails, Typed
  PROVE  IInv' /\ AStep
<1>1. /\ session' = FALSE /\ tls' = FALSE /\ unread' = "none"
      /\ Complete(IF cancelling THEN "cancelled" ELSE "error")
  BY DEF MachineFails
<1>2. CASE cancelling
  BY <1>1, <1>2, CompleteStep
<1>3. CASE ~cancelling
  BY <1>1, <1>3, CompleteStep
<1> QED
  BY <1>2, <1>3

\* A cancelled action that ends with its session as it was.
LEMMA CancelledStep ==
  ASSUME IInv, act # "none", cancelling, Complete("cancelled"), Typed,
         UNCHANGED <<session, tls>>, unread' = "none"
  PROVE  IInv' /\ AStep
<1>1. session' \in BOOLEAN /\ tls' = session'
  BY DEF IInv, TypeOK, Running
<1> QED
  BY <1>1, CompleteStep

\* An action that goes on, with what has to hold where it goes.
LEMMA GoesOn ==
  ASSUME IInv, act # "none", UNCHANGED <<lib, session, tls>>, Typed,
         baseInvalid' <= MaxBaseInvalid, unread' \in Unread,
         st' \in {"CAP_READ"} \cup ExchangeStates \cup WaitStates, io' \in {"out", "in"},
         x' \in Exchanges, fdtCancel' \in {"none", "live", "cancelled"},
         mode' \in {"DOWN", "UP"}, reads' \in Nat, shots' \in Nat,
         {probe', captured'} \subseteq Images \cup {NoImage}, retry' \in BOOLEAN,
         UNCHANGED <<gallery, matchIdx>>,
         captured' # NoImage => act = "capture",
         \/ UNCHANGED views
         \/ act = "enroll" /\ ~cancelling /\ views' = views + 1 /\ views' < Stages,
         Replies', Shots', ImageOnlyWithFingerOn', NoStaleImage',
         (st' \in RecheckStates \/ (st' \in FdtStates /\ mode' = "UP")) /\ act # "capture"
           => retry' = (lastImage' # "usable")
  PROVE  IInv' /\ AStep
<1>1. /\ UNCHANGED <<opened, act, cancelling, outcome>> /\ st' # "none" /\ io' # "none"
  BY DEF lib, ExchangeStates, ArmStates, WaitStates
<1>2. /\ matchIdx = -1 /\ outcome = "none" /\ views \in -1 .. Stages - 1 /\ gallery \in -1 .. MaxPrints
      /\ act = "enroll" => views >= 0
  BY DEF IInv, TypeOK, Judged, Running
<1>3. /\ views' \in -1 .. Stages - 1
      /\ act = "enroll" => views' >= 0
      /\ act # "enroll" => views' = views
  BY <1>2, TouchAssumption
<1>4. TypeOK'
  BY <1>1, <1>3 DEF IInv, TypeOK, Typed
<1>5. ActionIsDriven' /\ Running' /\ OutcomeIsEarned'
  BY <1>1, <1>2 DEF IInv, ActionIsDriven, Running, OutcomeIsEarned
<1>6. NoResidue'
  BY <1>1, <1>3 DEF IInv, NoResidue
<1>7. Judged'
  BY <1>1, <1>2, <1>3 DEF Judged
<1>8. AStep
  <2>1. CASE UNCHANGED views
    BY <1>1, <2>1, Stutter
  <2>2. CASE act = "enroll" /\ ~cancelling /\ views' = views + 1 /\ views' < Stages
    BY <1>1, <2>2 DEF AStep, Abstract!ANext, Abstract!AStage
  <2> QED
    BY <2>1, <2>2
<1> QED
  BY <1>4, <1>5, <1>6, <1>7, <1>8 DEF IInv

----------------------------------------------------------------------------
\* session_done and the machines it starts.

\* The matching state of a touch that goes on with nothing changed in it.
LEMMA MatchingKept ==
  ASSUME IInv, UNCHANGED matching
  PROVE  /\ {probe', captured'} \subseteq Images \cup {NoImage} /\ retry' \in BOOLEAN
         /\ UNCHANGED <<retry, views, gallery, matchIdx>>
         /\ captured' # NoImage => act = "capture"
BY DEF IInv, TypeOK, NoResidue, matching

\* A finger was detected, or is still there: the next image is asked for.
LEMMA CaptureStep ==
  ASSUME IInv, act # "none", start_session("CAP_REQUEST"), UNCHANGED <<mode, matching, lib>>,
         UNCHANGED <<session, tls, unread>>, unread = "none", Typed,
         baseInvalid' <= MaxBaseInvalid, finger' = "on", shots = images', images' < MaxImages
  PROVE  IInv' /\ AStep
<1>1. /\ st' = "CAP_REQUEST" /\ io' = "out" /\ reads' = 0 /\ x' \in Exchanges
      /\ x'.send /\ x'.reply = {"ACK", "TLS"} /\ fdtCancel' = "none"
  <2>1. Run("CAP_REQUEST") /\ fdtCancel' = "none" /\ "CAP_REQUEST" \in ExchangeStates
    BY DEF start_session, ExchangeStates
  <2> QED
    BY <2>1, RunType
<1>2. shots' = images' + 1 /\ shots' <= MaxImages /\ shots' \in Nat
  <2>1. shots' = IF shots <= MaxImages THEN shots + 1 ELSE shots
    BY DEF start_session
  <2>2. shots \in Nat /\ shots < MaxImages /\ MaxImages \in Nat
    BY TouchAssumption DEF IInv, TypeOK
  <2>3. shots <= MaxImages /\ shots + 1 <= MaxImages /\ shots + 1 \in Nat
    BY ONLY <2>2
  <2>4. shots' = shots + 1
    BY ONLY <2>1, <2>3
  <2> QED
    BY <2>3, <2>4
<1>3. mode' \in {"DOWN", "UP"} /\ unread' = "none" /\ unread' \in Unread
  BY DEF IInv, TypeOK, Unread
<1>4. /\ Replies' /\ Shots' /\ ImageOnlyWithFingerOn' /\ NoStaleImage'
      /\ st' \notin RecheckStates /\ st' \notin FdtStates
  BY <1>1, <1>2, <1>3
     DEF Replies, Shots, ImageOnlyWithFingerOn, NoStaleImage, ArmStates, RecheckStates, FdtStates
<1> QED
  BY <1>1, <1>2, <1>3, <1>4, MatchingKept, GoesOn DEF ExchangeStates

\* An arm of the finger detection, for the down event or for the lift, and the
\* re-check of a finger whose image matched nothing.
LEMMA ArmStep ==
  ASSUME IInv, act # "none", NEW s \in {"FDT_ARM", "RECHECK_ARM_UP"}, Run(s),
         fdtCancel' = "none", UNCHANGED <<lib, session, tls>>, unread' = "none", Typed,
         baseInvalid' <= MaxBaseInvalid, mode' \in {"DOWN", "UP"},
         {probe', captured'} \subseteq Images \cup {NoImage}, retry' \in BOOLEAN,
         UNCHANGED <<gallery, matchIdx>>,
         captured' # NoImage => act = "capture",
         \/ UNCHANGED views
         \/ act = "enroll" /\ ~cancelling /\ views' = views + 1 /\ views' < Stages,
         shots' \in Nat,
         s = "FDT_ARM" /\ mode' = "DOWN" => shots' = 0,
         s = "RECHECK_ARM_UP" => shots' = images' /\ images' < MaxImages,
         (s = "RECHECK_ARM_UP" \/ mode' = "UP") /\ act # "capture" =>
           retry' = (lastImage' # "usable")
  PROVE  IInv' /\ AStep
<1>1. /\ st' = s /\ io' = "out" /\ reads' = 0 /\ x' \in Exchanges
      /\ x'.send /\ x'.reply = {"ACK"}
  BY RunType DEF ExchangeStates, ArmStates
<1>2. unread' \in Unread
  BY DEF Unread
<1>3. Replies' /\ Shots' /\ ImageOnlyWithFingerOn' /\ NoStaleImage'
  BY <1>1 DEF Replies, Shots, ImageOnlyWithFingerOn, NoStaleImage, ArmStates, RecheckStates,
     FdtStates
<1>4. st' \in RecheckStates \/ (st' \in FdtStates /\ mode' = "UP")
        => s = "RECHECK_ARM_UP" \/ mode' = "UP"
  BY <1>1 DEF RecheckStates, FdtStates
<1> QED
  BY <1>1, <1>2, <1>3, <1>4, GoesOn DEF ExchangeStates, ArmStates

\* The touch is over but for the lift of the finger.
LEMMA LiftStep ==
  ASSUME IInv, act # "none", WaitForLift, UNCHANGED <<lib, session, tls>>, unread' = "none",
         Typed, baseInvalid' <= MaxBaseInvalid,
         {probe', captured'} \subseteq Images \cup {NoImage}, retry' \in BOOLEAN,
         UNCHANGED <<views, gallery, matchIdx>>,
         captured' # NoImage => act = "capture",
         act # "capture" => retry' = (lastImage' # "usable")
  PROVE  IInv' /\ AStep
<1>1. Run("FDT_ARM") /\ fdtCancel' = "none" /\ mode' = "UP" /\ shots' = shots /\ shots' \in Nat
  BY DEF WaitForLift, start_session, IInv, TypeOK
<1> QED
  BY <1>1, ArmStep

\* The finger has lifted from a touch that is to be reported.
LEMMA FingerUpStep ==
  ASSUME IInv, act # "none",
         st \in RecheckStates \/ (st \in FdtStates /\ mode = "UP"),
         session_done("FINGER_UP"), finger' = "off", Typed, baseInvalid' <= MaxBaseInvalid,
         UNCHANGED <<session, tls, unread, lastImage>>, unread = "none"
  PROVE  IInv' /\ AStep
<1>1. CASE cancelling
  BY <1>1, CancelledStep DEF session_done
<1>2. CASE ~cancelling
  <2>1. PICK brush \in BOOLEAN : /\ act = "capture" => brush = FALSE
                                 /\ touch_done(matchIdx, retry \/ brush)
    BY <1>2 DEF session_done
  <2>2. /\ matchIdx = -1
        /\ act # "capture" => retry = (lastImage # "usable")
        /\ retry \in BOOLEAN
        /\ session' \in BOOLEAN /\ tls' = session'
    BY DEF IInv, Judged, TypeOK, Running
  <2> DEFINE r == retry \/ brush
  <2>3. act # "capture" /\ ~r => lastImage' = "usable"
    BY <2>2
  <2>4. CASE act = "enroll"
    <3>1. enroll_touch_done(r)
      BY <2>1, <2>4 DEF touch_done
    <3>2. CASE ~r /\ views + 1 >= Stages /\ Complete("enrolled")
      <4>1. views + 1 = Stages
        BY <3>2, TouchAssumption DEF IInv, TypeOK
      <4>2. "enrolled" \in Abstract!Results(act)
        BY <2>4 DEF Abstract!Results
      <4> QED
        BY <1>2, <2>2, <2>3, <2>4, <3>2, <4>1, <4>2, CompleteStep
    <3>3. CASE /\ r \/ views + 1 < Stages
               /\ views' = IF r THEN views ELSE views + 1
               /\ probe' = NoImage /\ retry' = FALSE
               /\ start_touch
               /\ UNCHANGED <<captured, gallery, matchIdx, lib>>
      <4>1. /\ Run("FDT_ARM") /\ fdtCancel' = "none" /\ mode' = "DOWN" /\ shots' = 0
            /\ captured' = NoImage
        BY <2>4, <3>3 DEF start_touch, IInv, NoResidue
      <4>2. \/ UNCHANGED views
            \/ views' = views + 1 /\ views' < Stages
        BY <3>3
      <4> HIDE DEF r
      <4> QED
        BY <1>2, <2>4, <3>3, <4>1, <4>2, ArmStep
    <3> QED
      BY <3>1, <3>2, <3>3 DEF enroll_touch_done
  <2>5. CASE act \in {"verify", "identify"}
    <3>1. Complete(IF r THEN "retry" ELSE "nomatch")
      BY <2>1, <2>2, <2>5 DEF touch_done, verify_touch_done
    <3>2. {"retry", "nomatch"} \subseteq Abstract!Results(act)
      BY <2>5 DEF Abstract!Results
    <3> HIDE DEF r
    <3>3. CASE r
      BY <1>2, <2>2, <2>3, <2>5, <3>1, <3>2, <3>3, CompleteStep
    <3>4. CASE ~r
      BY <1>2, <2>2, <2>3, <2>5, <3>1, <3>2, <3>4, CompleteStep
    <3> QED
      BY <3>3, <3>4
  <2>6. CASE act = "capture"
    <3>1. Complete("image") /\ "image" \in Abstract!Results(act)
      BY <2>1, <2>6 DEF touch_done, Abstract!Results
    <3> QED
      BY <1>2, <2>2, <2>6, <3>1, CompleteStep
  <2> QED
    BY <2>4, <2>5, <2>6 DEF IInv, TypeOK
<1> QED
  BY <1>1, <1>2

\* An image was read: it is scored, kept for the enrollment or for capture.
LEMMA ImageStep ==
  ASSUME IInv, act # "none", st \in {"CAP_REQUEST", "CAP_READ"}, NEW img \in Images,
         ImageDone(img), UNCHANGED <<session, tls, baseInvalid, thresholds, finger>>,
         unread' = "none", partial' \in BOOLEAN
  PROVE  IInv' /\ AStep
<1>1. /\ baseInvalid' \in 0 .. MaxBaseInvalid + 1 /\ baseInvalid' <= MaxBaseInvalid
      /\ {downThr', upThr', manualThr'} \subseteq Readings
      /\ finger' \in {"on", "off", "unknown"}
      /\ images \in Nat /\ lastImage \in {"none", "unusable", "usable", "match"}
      /\ shots = images + 1 /\ matchIdx = -1
      /\ session' \in BOOLEAN /\ tls' = session'
      /\ {probe, captured} \subseteq Images \cup {NoImage} /\ retry \in BOOLEAN
  BY DEF IInv, TypeOK, Running, Judged, ImageOnlyWithFingerOn, thresholds
<1>2. CASE cancelling /\ Complete("cancelled") /\ UNCHANGED <<images, lastImage>>
  <2>1. Typed
    BY <1>1, <1>2 DEF Typed
  <2> QED
    BY <1>2, <2>1, CancelledStep
<1>3. CASE /\ act = "capture" /\ CountImage /\ captured' = img /\ WaitForLift
           /\ UNCHANGED <<probe, retry, views, gallery, matchIdx, lastImage, lib>>
  <2>1. Typed
    BY <1>1, <1>3 DEF Typed, CountImage
  <2> QED
    BY <1>1, <1>3, <2>1, LiftStep
<1>4. CASE /\ ~cancelling /\ act # "capture" /\ gallery > 0 /\ CountImage /\ lastImage' = "match"
           /\ \E i \in 0 .. gallery - 1 : touch_done(i, FALSE)
  <2>1. Typed
    BY <1>1, <1>4 DEF Typed, CountImage
  <2>2. act \in {"verify", "identify"}
    BY <1>4 DEF IInv, NoResidue, TypeOK
  <2>3. PICK i \in 0 .. gallery - 1 : touch_done(i, FALSE)
    BY <1>4
  <2>4. i >= 0
    BY <2>3 DEF IInv, TypeOK
  <2>5. Complete("match") /\ "match" \in Abstract!Results(act)
    BY <2>2, <2>3, <2>4 DEF touch_done, verify_touch_done, Abstract!Results
  <2> QED
    BY <1>1, <1>4, <2>1, <2>2, <2>5, CompleteStep
<1>5. CASE /\ ~cancelling /\ act # "capture" /\ CountImage /\ captured' = NoImage
           /\ \E usable \in BOOLEAN :
                /\ lastImage' = IF usable THEN "usable" ELSE "unusable"
                /\ retry' = ~usable
                /\ probe' = IF usable /\ gallery = -1 THEN img ELSE NoImage
                /\ matchIdx' = IF usable /\ gallery # -1 THEN -1 ELSE matchIdx
           /\ IF gallery # -1 /\ images + 1 < MaxImages
              THEN start_session("RECHECK_ARM_UP") /\ UNCHANGED mode
              ELSE WaitForLift
           /\ UNCHANGED <<views, gallery, lib>>
  <2>1. PICK usable \in BOOLEAN :
           /\ lastImage' = IF usable THEN "usable" ELSE "unusable"
           /\ retry' = ~usable
           /\ probe' = IF usable /\ gallery = -1 THEN img ELSE NoImage
           /\ matchIdx' = IF usable /\ gallery # -1 THEN -1 ELSE matchIdx
    BY <1>5
  <2>2. /\ Typed /\ images' = images + 1
        /\ retry' \in BOOLEAN /\ retry' = (lastImage' # "usable") /\ matchIdx' = matchIdx
        /\ {probe', captured'} \subseteq Images \cup {NoImage}
    BY <1>1, <1>5, <2>1 DEF Typed, CountImage
  <2>3. CASE WaitForLift
    BY <1>1, <1>5, <2>2, <2>3, LiftStep
  <2>4. CASE images + 1 < MaxImages /\ start_session("RECHECK_ARM_UP") /\ UNCHANGED mode
    <3>1. /\ Run("RECHECK_ARM_UP") /\ fdtCancel' = "none" /\ shots' = shots
          /\ mode' \in {"DOWN", "UP"} /\ shots' \in Nat
      BY <2>4 DEF start_session, IInv, TypeOK
    <3> QED
      BY <1>1, <1>5, <2>2, <2>4, <3>1, ArmStep
  <2> QED
    BY <1>5, <2>3, <2>4
<1> QED
  BY <1>2, <1>3, <1>4, <1>5 DEF ImageDone

\* CAP_READ is entered with u and p in the TLS server and n reads behind it.
LEMMA CapReadStep ==
  ASSUME IInv, act # "none", st \in {"CAP_REQUEST", "CAP_READ"},
         NEW u \in Unread, NEW p \in BOOLEAN, NEW n \in Nat, EnterCapRead(u, p, n),
         UNCHANGED <<baseInvalid, thresholds, finger>>
  PROVE  IInv' /\ AStep
<1>1. /\ baseInvalid' \in 0 .. MaxBaseInvalid + 1 /\ baseInvalid' <= MaxBaseInvalid
      /\ {downThr', upThr', manualThr'} \subseteq Readings
      /\ finger' \in {"on", "off", "unknown"}
      /\ images \in Nat /\ lastImage \in {"none", "unusable", "usable", "match"}
  BY DEF IInv, TypeOK, Running, thresholds
<1>2. CASE ImageRead(u, p)
  BY <1>2, ImageStep DEF ImageRead
<1>3. CASE ReadOn(u, p, n)
  <2>1. /\ st' = "CAP_READ" /\ io' = "in" /\ reads' = n /\ x' = NoExchange
        /\ fdtCancel' = fdtCancel /\ unread' = "none" /\ partial' = p
        /\ UNCHANGED <<session, tls, images, mode, matching, lib, lastImage, shots>>
    BY <1>3 DEF ReadOn, Await, WaitStates
  <2>2. Typed
    BY <1>1, <2>1 DEF Typed
  <2>3. /\ Replies' /\ Shots' /\ NoStaleImage'
        /\ st' \notin RecheckStates /\ st' \notin FdtStates
    BY <2>1 DEF Replies, Shots, NoStaleImage, ArmStates, RecheckStates, FdtStates
  <2>4. ImageOnlyWithFingerOn'
    BY <2>1 DEF IInv, ImageOnlyWithFingerOn
  <2>5. /\ x' \in Exchanges /\ fdtCancel' \in {"none", "live", "cancelled"}
        /\ mode' \in {"DOWN", "UP"} /\ shots' \in Nat /\ unread' \in Unread
    BY <2>1, NoExchangeType DEF IInv, TypeOK, Unread
  <2>6. UNCHANGED matching /\ UNCHANGED <<lib, session, tls>>
    BY <2>1
  <2> QED
    BY <1>1, <2>1, <2>2, <2>3, <2>4, <2>5, <2>6, MatchingKept, GoesOn
<1>4. CASE NoImageRead(u, n)
  <2>1. MachineFails /\ Typed
    BY <1>1, <1>4 DEF NoImageRead, MachineFails, Typed
  <2> QED
    BY <2>1, MachineFailsStep
<1> QED
  BY <1>2, <1>3, <1>4 DEF EnterCapRead

\* A machine goes on to its state s, or stops there because it is cancelled.
LEMMA EnterStep ==
  ASSUME IInv, act # "none",
         NEW s \in {"FDT_ARM", "FDT_WAIT", "RECHECK_ARM_MANUAL", "RECHECK_WAIT"}, Enter(s),
         s \in FdtStates => st \in FdtStates,
         s \in RecheckStates => st \in RecheckStates,
         UNCHANGED <<session, tls, unread, images, lastImage>>, unread = "none",
         Typed, baseInvalid' <= MaxBaseInvalid
  PROVE  IInv' /\ AStep
<1>1. CASE cancelling
  BY <1>1, CancelledStep DEF Enter, session_done
<1>2. CASE ~cancelling
  <2>1. /\ IF s \in ExchangeStates THEN Run(s) /\ UNCHANGED fdtCancel ELSE Await(s, 0)
        /\ UNCHANGED <<mode, matching, lib, shots>>
    BY <1>2 DEF Enter
  <2>2. /\ st' = s /\ io' \in {"out", "in"} /\ reads' \in Nat /\ x' \in Exchanges
        /\ s \in ArmStates => x'.reply = {"ACK"}
        /\ fdtCancel' \in {"none", "live", "cancelled"}
    <3>1. CASE s \in ExchangeStates
      BY <2>1, <3>1, RunType DEF IInv, TypeOK, ArmStates
    <3>2. CASE s \notin ExchangeStates
      BY <2>1, <3>2, NoExchangeType DEF Await, IInv, TypeOK, ExchangeStates
    <3> QED
      BY <3>1, <3>2
  <2>3. /\ mode' = mode /\ shots' = shots /\ mode' \in {"DOWN", "UP"} /\ shots' \in Nat
        /\ unread' \in Unread
        /\ st' \in {"CAP_READ"} \cup ExchangeStates \cup WaitStates
    BY <2>1, <2>2 DEF IInv, TypeOK, ExchangeStates, ArmStates, WaitStates, Unread
  <2>4. Replies' /\ ImageOnlyWithFingerOn' /\ NoStaleImage'
    BY <2>2 DEF Replies, ImageOnlyWithFingerOn, NoStaleImage
  <2>5. Shots'
    BY <2>2, <2>3 DEF IInv, Shots, RecheckStates, FdtStates
  <2>6. (st' \in RecheckStates \/ (st' \in FdtStates /\ mode' = "UP")) /\ act # "capture"
          => retry' = (lastImage' # "usable")
    BY <2>1, <2>2, <2>3, MatchingKept DEF IInv, Judged
  <2> QED
    BY <2>1, <2>2, <2>3, <2>4, <2>5, <2>6, MatchingKept, GoesOn
<1> QED
  BY <1>1, <1>2

----------------------------------------------------------------------------
\* The callbacks.

\* What a transfer of the EC carries.
LEMMA TransferType ==
  ASSUME NEW t \in Transfers
  PROVE  /\ t.rx \in RxKinds
         /\ t.rx = "tls" => t.rec \in Images \cup {"part", "badlayout", "forged"}
         /\ t.rx = "fdt" => t.zones \in Readings
BY DEF Transfers, RxKinds

\* While a transfer is outstanding there is an action behind it, and what it
\* leaves alone keeps its type.
LEMMA InFlight ==
  ASSUME IInv, io # "none"
  PROVE  /\ act # "none" /\ st # "none" /\ baseInvalid <= MaxBaseInvalid
         /\ baseInvalid \in 0 .. MaxBaseInvalid + 1 /\ images \in Nat /\ reads \in Nat
         /\ downThr \in Readings /\ upThr \in Readings /\ manualThr \in Readings
         /\ finger \in {"on", "off", "unknown"}
         /\ lastImage \in {"none", "unusable", "usable", "match"}
         /\ unread \in Unread /\ partial \in BOOLEAN
         /\ st # "CAP_REQUEST" => unread = "none"
BY DEF IInv, TypeOK, ActionIsDriven, Running, NoStaleImage

\* What the TLS server holds after a transfer it accepts.
LEMMA FedType ==
  ASSUME unread \in Unread, partial \in BOOLEAN, NEW t \in Transfers
  PROVE  /\ FedUnread(t) \in Unread /\ FedPartial(t) \in BOOLEAN
         /\ t.rx # "tls" => FedUnread(t) = unread
BY TransferType DEF FedUnread, FedPartial, Unread

\* A transfer read by the running exchange.
LEMMA ExchangeReadStep ==
  ASSUME IInv, NEW t \in Transfers, ExchangeRead(t)
  PROVE  IInv' /\ AStep
<1> DEFINE v == Received(x, t.rx)
           u == IF WantsTls(x) THEN FedUnread(t) ELSE unread
           p == IF WantsTls(x) THEN FedPartial(t) ELSE partial
<1>1. /\ io = "in" /\ st \in ExchangeStates /\ UNCHANGED <<baseInvalid, thresholds, finger>>
      /\ \/ MachineFails /\ UNCHANGED <<images, lastImage>>
         \/ /\ x' = Noted(x, t.rx) /\ unread' = u /\ partial' = p
            /\ UNCHANGED <<session, tls, st, io, fdtCancel, mode, reads, images, matching, lib,
                           lastImage, shots>>
         \/ st = "CAP_REQUEST" /\ EnterCapRead(u, p, 0)
         \/ /\ st \in ArmStates
            /\ Enter(CASE st = "FDT_ARM" -> "FDT_WAIT"
                        [] st = "RECHECK_ARM_UP" -> "RECHECK_ARM_MANUAL"
                        [] st = "RECHECK_ARM_MANUAL" -> "RECHECK_WAIT")
            /\ UNCHANGED <<tlsState, images, lastImage>>
  BY DEF ExchangeRead
<1>2. u \in Unread /\ p \in BOOLEAN /\ (t.rx # "tls" => u = unread) /\ (~WantsTls(x) => u = unread)
  BY <1>1, InFlight, FedType
<1>3. /\ x \in Exchanges /\ t.rx \in RxKinds
      /\ st \in ArmStates => x.reply = {"ACK"}
      /\ st = "CAP_REQUEST" => x.send /\ x.reply = {"ACK", "TLS"}
  BY TransferType DEF IInv, TypeOK, Replies
<1> HIDE DEF u, p
<1>4. act # "none" /\ baseInvalid' <= MaxBaseInvalid
  BY <1>1, InFlight
<1>5. CASE MachineFails /\ UNCHANGED <<images, lastImage>>
  <2>1. Typed
    BY <1>1, <1>5, InFlight DEF Typed, MachineFails, thresholds
  <2> QED
    BY <1>4, <1>5, <2>1, MachineFailsStep
<1>6. CASE /\ x' = Noted(x, t.rx) /\ unread' = u /\ partial' = p
           /\ UNCHANGED <<session, tls, st, io, fdtCancel, mode, reads, images, matching, lib,
                          lastImage, shots>>
  <2>1. Typed
    BY <1>1, <1>2, <1>6, InFlight DEF Typed, thresholds
  <2>2. /\ x' \in Exchanges /\ x'.send = x.send /\ x'.reply = x.reply
        /\ x'.gotTls = (x.gotTls \/ (WantsTls(x) /\ t.rx = "tls"))
    BY <1>3, <1>6, NotedType
  <2>3. NoStaleImage'
    <3>1. ASSUME unread' # "none" PROVE st = "CAP_REQUEST" /\ x'.gotTls
      <4>1. CASE WantsTls(x) /\ t.rx = "tls"
        <5>1. st = "CAP_REQUEST"
          BY <1>1, <1>3, <4>1 DEF WantsTls, ExchangeStates
        <5> QED
          BY <2>2, <4>1, <5>1
      <4>2. CASE ~(WantsTls(x) /\ t.rx = "tls")
        BY <1>2, <1>6, <2>2, <3>1, <4>2 DEF IInv, NoStaleImage
      <4> QED
        BY <4>1, <4>2
    <3> QED
      BY <1>6, <3>1 DEF NoStaleImage
  <2>4. Replies' /\ Shots' /\ ImageOnlyWithFingerOn'
    BY <1>1, <1>6, <2>2 DEF IInv, Replies, Shots, ImageOnlyWithFingerOn
  <2>5. /\ st' = st /\ io' = "in" /\ fdtCancel' \in {"none", "live", "cancelled"}
        /\ mode' \in {"DOWN", "UP"} /\ reads' \in Nat /\ shots' \in Nat
        /\ UNCHANGED <<lib, session, tls>> /\ UNCHANGED matching
    BY <1>1, <1>6 DEF IInv, TypeOK
  <2>6. (st' \in RecheckStates \/ (st' \in FdtStates /\ mode' = "UP")) /\ act # "capture"
          => retry' = (lastImage' # "usable")
    BY <1>6, <2>5, MatchingKept DEF IInv, Judged
  <2> QED
    BY <1>1, <1>2, <1>4, <1>6, <2>1, <2>2, <2>3, <2>4, <2>5, <2>6, MatchingKept, GoesOn
<1>7. CASE st = "CAP_REQUEST" /\ EnterCapRead(u, p, 0)
  BY <1>1, <1>2, <1>4, <1>7, CapReadStep
<1>8. CASE /\ st \in ArmStates
           /\ Enter(CASE st = "FDT_ARM" -> "FDT_WAIT"
                       [] st = "RECHECK_ARM_UP" -> "RECHECK_ARM_MANUAL"
                       [] st = "RECHECK_ARM_MANUAL" -> "RECHECK_WAIT")
           /\ UNCHANGED <<tlsState, images, lastImage>>
  <2>1. Typed /\ UNCHANGED <<session, tls, unread, images, lastImage>> /\ unread = "none"
    BY <1>1, <1>8, InFlight DEF Typed, thresholds, tlsState, ArmStates
  <2>2. PICK s \in {"FDT_WAIT", "RECHECK_ARM_MANUAL", "RECHECK_WAIT"} :
          /\ Enter(s)
          /\ s \in FdtStates => st \in FdtStates
          /\ s \in RecheckStates => st \in RecheckStates
    BY <1>8 DEF ArmStates, FdtStates, RecheckStates
  <2> QED
    BY <1>4, <2>1, <2>2, EnterStep
<1> QED
  BY <1>1, <1>5, <1>6, <1>7, <1>8

\* A transfer read while a finger is waited for.
LEMMA FdtWaitReadStep ==
  ASSUME IInv, NEW t \in Transfers, FdtWaitRead(t)
  PROVE  IInv' /\ AStep
<1>1. io = "in" /\ st = "FDT_WAIT" /\ unread = "none" /\ act # "none"
  BY InFlight DEF FdtWaitRead
<1>2. CASE FingerDown(t)
  <2>1. /\ t.zones \in Readings /\ mode = "DOWN" /\ images' = 0 /\ finger' = "on"
        /\ baseInvalid' = 0 /\ session_done("FINGER_DOWN") /\ UNCHANGED tlsState
    BY <1>2, TransferType DEF FingerDown, IsEvent
  <2>2. Typed /\ baseInvalid' <= MaxBaseInvalid /\ UNCHANGED <<session, tls, unread>>
    BY <1>1, <1>2, <2>1, InFlight, TouchAssumption DEF FingerDown, Typed, tlsState
  <2>3. CASE cancelling
    BY <1>1, <2>1, <2>2, <2>3, CancelledStep DEF session_done
  <2>4. CASE ~cancelling
    <3>1. start_session("CAP_REQUEST") /\ UNCHANGED <<mode, matching, lib>>
      BY <2>1, <2>4 DEF session_done
    <3>2. shots = images' /\ images' < MaxImages
      BY <1>1, <2>1, TouchAssumption DEF IInv, Shots, FdtStates
    <3> QED
      BY <1>1, <2>1, <2>2, <3>1, <3>2, CaptureStep
  <2> QED
    BY <2>3, <2>4
<1>3. CASE BaseInvalid(t)
  <2>1. /\ t.zones \in Readings /\ baseInvalid' = baseInvalid + 1
        /\ UNCHANGED <<images, upThr, manualThr, finger, lastImage>>
        /\ downThr' \in {downThr, t.zones}
    BY <1>3, TransferType DEF BaseInvalid, IsEvent
  <2>2. CASE baseInvalid + 1 > MaxBaseInvalid /\ MachineFails
    <3>1. partial' \in BOOLEAN
      BY <2>2 DEF MachineFails
    <3>2. baseInvalid' \in 0 .. MaxBaseInvalid + 1
      BY <1>1, <2>1, InFlight, TouchAssumption
    <3>3. Typed
      BY <1>1, <2>1, <3>1, <3>2, InFlight DEF Typed
    <3> QED
      BY <1>1, <2>2, <3>3, MachineFailsStep
  <2>3. CASE ~(baseInvalid + 1 > MaxBaseInvalid) /\ Enter("FDT_ARM") /\ UNCHANGED tlsState
    <3>1. /\ Typed /\ baseInvalid' <= MaxBaseInvalid
          /\ UNCHANGED <<session, tls, unread, images, lastImage>>
      BY <1>1, <2>1, <2>3, InFlight, TouchAssumption DEF tlsState, Typed
    <3> QED
      BY <1>1, <2>3, <3>1, EnterStep DEF FdtStates, RecheckStates
  <2> QED
    BY <1>3, <2>2, <2>3 DEF BaseInvalid
<1>4. CASE FingerUp(t)
  <2>1. /\ t.zones \in Readings /\ mode = "UP" /\ downThr' = t.zones /\ finger' = "off"
        /\ session_done("FINGER_UP")
        /\ UNCHANGED <<tlsState, upThr, manualThr, counters, lastImage>>
    BY <1>4, TransferType DEF FingerUp, IsEvent, Lifted
  <2>2. Typed /\ baseInvalid' <= MaxBaseInvalid /\ UNCHANGED <<session, tls, unread, lastImage>>
    BY <1>1, <2>1, InFlight DEF Typed, tlsState, counters
  <2> QED
    BY <1>1, <2>1, <2>2, FingerUpStep DEF FdtStates
<1>5. CASE KeepWaiting(t)
  <2>1. /\ Typed /\ baseInvalid' <= MaxBaseInvalid /\ Enter("FDT_WAIT")
        /\ UNCHANGED <<session, tls, unread, images, lastImage>>
    BY <1>1, <1>5, InFlight DEF KeepWaiting, Typed, tlsState, counters, thresholds
  <2> QED
    BY <1>1, <2>1, EnterStep DEF FdtStates, RecheckStates
<1> QED
  BY <1>2, <1>3, <1>4, <1>5 DEF FdtWaitRead

\* The re-check got no answer: the finger counts as gone, and its lift is waited for.
LEMMA FingerGoneStep ==
  ASSUME IInv, io = "in", st = "RECHECK_WAIT", FingerGone
  PROVE  IInv' /\ AStep
<1>1. unread = "none" /\ act # "none"
  BY InFlight
<1>2. /\ finger' = "unknown" /\ session_done("FINGER_GONE")
      /\ UNCHANGED <<tlsState, counters, thresholds, lastImage>>
  BY DEF FingerGone
<1>3. Typed /\ baseInvalid' <= MaxBaseInvalid /\ UNCHANGED <<session, tls, unread, lastImage>>
  BY <1>2, InFlight DEF Typed, tlsState, counters, thresholds
<1>4. CASE cancelling
  BY <1>1, <1>2, <1>3, <1>4, CancelledStep DEF session_done
<1>5. CASE ~cancelling
  <2>1. WaitForLift /\ UNCHANGED <<matching, lib>>
    BY <1>2, <1>5 DEF session_done
  <2>2. act # "capture" => retry' = (lastImage' # "usable")
    BY <1>3, <2>1, MatchingKept DEF IInv, Judged, RecheckStates
  <2> QED
    BY <1>1, <1>3, <2>1, <2>2, MatchingKept, LiftStep
<1> QED
  BY <1>4, <1>5

\* A transfer read while a finger is checked again.
LEMMA RecheckReadStep ==
  ASSUME IInv, NEW t \in Transfers, RecheckRead(t)
  PROVE  IInv' /\ AStep
<1>1. io = "in" /\ st = "RECHECK_WAIT" /\ unread = "none" /\ act # "none"
  BY InFlight DEF RecheckRead
<1>2. CASE (IsEvent(t, "manual_off") \/ IsEvent(t, "up")) /\ Lifted(t)
  <2>1. /\ t.zones \in Readings /\ downThr' = t.zones /\ finger' = "off"
        /\ session_done("FINGER_UP")
        /\ UNCHANGED <<tlsState, upThr, manualThr, counters, lastImage>>
    BY <1>2, TransferType DEF IsEvent, Lifted
  <2>2. Typed /\ baseInvalid' <= MaxBaseInvalid /\ UNCHANGED <<session, tls, unread, lastImage>>
    BY <1>1, <2>1, InFlight DEF Typed, tlsState, counters
  <2> QED
    BY <1>1, <2>1, <2>2, FingerUpStep DEF RecheckStates
<1>3. CASE IsEvent(t, "manual_on") /\ FingerStill(t)
  <2>1. /\ t.zones \in Readings /\ manualThr' = t.zones /\ finger' = "on"
        /\ session_done("FINGER_STILL")
        /\ UNCHANGED <<tlsState, downThr, upThr, counters, lastImage>>
    BY <1>3, TransferType DEF IsEvent, FingerStill
  <2>2. Typed /\ baseInvalid' <= MaxBaseInvalid /\ UNCHANGED <<session, tls, unread, images>>
    BY <1>1, <2>1, InFlight DEF Typed, tlsState, counters
  <2>3. CASE cancelling
    BY <1>1, <2>1, <2>2, <2>3, CancelledStep DEF session_done
  <2>4. CASE ~cancelling
    <3>1. start_session("CAP_REQUEST") /\ UNCHANGED <<mode, matching, lib>>
      BY <2>1, <2>4 DEF session_done
    <3>2. shots = images' /\ images' < MaxImages
      BY <1>1, <2>2 DEF IInv, Shots, RecheckStates
    <3> QED
      BY <1>1, <2>1, <2>2, <3>1, <3>2, CaptureStep
  <2> QED
    BY <2>3, <2>4
<1>4. CASE FingerGone
  BY <1>1, <1>4, FingerGoneStep
<1>5. CASE RecheckAgain
  <2>1. Typed /\ baseInvalid' <= MaxBaseInvalid /\ UNCHANGED <<session, tls, unread, images, lastImage>>
    BY <1>1, <1>5, InFlight DEF RecheckAgain, Typed, tlsState, counters, thresholds
  <2>2. CASE cancelling
    BY <1>1, <1>5, <2>1, <2>2, CancelledStep DEF RecheckAgain, session_done
  <2>3. CASE ~cancelling
    <3>1. Await("RECHECK_WAIT", reads + 1) /\ UNCHANGED <<mode, matching, lib, shots>>
      BY <1>5, <2>3 DEF RecheckAgain
    <3>2. /\ st' = "RECHECK_WAIT" /\ io' = "in" /\ reads' \in Nat /\ x' \in Exchanges
          /\ fdtCancel' = "live"
      BY <1>1, <3>1, InFlight, NoExchangeType DEF Await, WaitStates
    <3>3. mode' \in {"DOWN", "UP"} /\ shots' \in Nat /\ unread' \in Unread
      BY <2>1, <3>1 DEF IInv, TypeOK
    <3>4. Replies' /\ ImageOnlyWithFingerOn' /\ NoStaleImage'
      BY <1>1, <2>1, <3>2 DEF Replies, ImageOnlyWithFingerOn, NoStaleImage, ArmStates
    <3>5. Shots'
      BY <1>1, <2>1, <3>1, <3>2 DEF IInv, Shots, RecheckStates, FdtStates
    <3>6. act # "capture" => retry' = (lastImage' # "usable")
      BY <1>1, <2>1, <3>1, MatchingKept DEF IInv, Judged, RecheckStates
    <3> QED
      BY <1>1, <2>1, <3>1, <3>2, <3>3, <3>4, <3>5, <3>6, MatchingKept, GoesOn DEF WaitStates
  <2> QED
    BY <2>2, <2>3
<1> QED
  BY <1>2, <1>3, <1>4, <1>5 DEF RecheckRead

\* A transfer read while an image is on its way.
LEMMA CapReadDoneStep ==
  ASSUME IInv, NEW t \in Transfers, CapRead(t)
  PROVE  IInv' /\ AStep
<1>1. io = "in" /\ st = "CAP_READ" /\ act # "none" /\ UNCHANGED <<baseInvalid, thresholds, finger>>
  BY InFlight DEF CapRead
<1>2. CASE MachineFails /\ UNCHANGED <<images, lastImage>>
  <2>1. Typed
    BY <1>1, <1>2, InFlight DEF Typed, MachineFails, thresholds
  <2> QED
    BY <1>1, <1>2, <2>1, MachineFailsStep
<1>3. CASE EnterCapRead(FedUnread(t), FedPartial(t), reads + 1)
  <2>1. FedUnread(t) \in Unread /\ FedPartial(t) \in BOOLEAN /\ reads + 1 \in Nat
    BY <1>1, InFlight, FedType
  <2> QED
    BY <1>1, <1>3, <2>1, CapReadStep
<1> QED
  BY <1>2, <1>3 DEF CapRead

\* A callback that ends the action: the transfer failed, timed out or was cancelled.
LEMMA EndsStep ==
  ASSUME IInv, io # "none", UNCHANGED <<counters, thresholds, finger, lastImage>>,
         MachineFails \/ (cancelling /\ st \in WaitStates /\ session_done("NONE") /\ UNCHANGED tlsState)
  PROVE  IInv' /\ AStep
<1>1. CASE MachineFails
  <2>1. Typed /\ act # "none"
    BY <1>1, InFlight DEF Typed, MachineFails, counters, thresholds
  <2> QED
    BY <1>1, <2>1, MachineFailsStep
<1>2. CASE cancelling /\ st \in WaitStates /\ session_done("NONE") /\ UNCHANGED tlsState
  <2>1. /\ Typed /\ act # "none" /\ UNCHANGED <<session, tls>> /\ unread' = "none"
    BY <1>2, InFlight DEF Typed, counters, thresholds, tlsState, WaitStates
  <2> QED
    BY <1>2, <2>1, CancelledStep DEF session_done
<1> QED
  BY <1>1, <1>2

\* Every completion of a transfer.
LEMMA CompletionStep == IInv /\ Completion => IInv' /\ AStep
<1> SUFFICES ASSUME IInv, Completion PROVE IInv' /\ AStep
  OBVIOUS
<1>1. CASE WriteDone
  <2>1. /\ io = "out" /\ io' = "in"
        /\ UNCHANGED <<lib, tlsState, st, x, fdtCancel, mode, reads, counters, thresholds,
                       matching, history>>
    BY <1>1 DEF WriteDone
  <2>2. AStep
    BY <2>1, Stutter DEF lib, tlsState, matching
  <2>3. TypeOK' /\ ActionIsDriven' /\ Running'
    BY <2>1 DEF lib, tlsState, counters, thresholds, matching, history, IInv, TypeOK,
       ActionIsDriven, Running
  <2>4. /\ OutcomeIsEarned' /\ ImageOnlyWithFingerOn' /\ NoStaleImage' /\ NoResidue'
        /\ Replies' /\ Shots' /\ Judged'
    BY <2>1 DEF lib, tlsState, counters, matching, history, IInv, OutcomeIsEarned,
       ImageOnlyWithFingerOn, NoStaleImage, NoResidue, Replies, Shots, Judged
  <2> QED
    BY <2>2, <2>3, <2>4 DEF IInv
<1>2. CASE WriteFails \/ ReadFails \/ WaitCancelled
  BY <1>2, EndsStep DEF WriteFails, ReadFails, WaitCancelled
<1>3. CASE ReadTimesOut
  BY <1>3, EndsStep, FingerGoneStep DEF ReadTimesOut
<1>4. CASE \E t \in Transfers : ReadDone(t)
  BY <1>4, ExchangeReadStep, FdtWaitReadStep, RecheckReadStep, CapReadDoneStep DEF ReadDone
<1> QED
  BY <1>1, <1>2, <1>3, <1>4 DEF Completion

----------------------------------------------------------------------------
\* libfprint's calls.

\* A call on an idle driver: no machine runs, and what is left of an action is gone.
LEMMA Idle ==
  ASSUME IInv, act = "none"
  PROVE  /\ st = "none" /\ io = "none" /\ ~cancelling /\ unread = "none"
         /\ probe = NoImage /\ captured = NoImage /\ retry = FALSE
         /\ views = -1 /\ gallery = -1 /\ matchIdx = -1
BY DEF IInv, TypeOK, ActionIsDriven, Running, NoStaleImage, NoResidue

\* An open makes a session that has nothing of an earlier one.
LEMMA OpenStep == IInv /\ Open => IInv' /\ AStep
<1> SUFFICES ASSUME IInv, Open PROVE IInv' /\ AStep
  OBVIOUS
<1>1. /\ ~opened /\ opened' = TRUE /\ session' = TRUE /\ tls' = TRUE /\ unread' = "none"
      /\ partial' = FALSE
      /\ UNCHANGED <<act, cancelling, outcome, wire, counters, thresholds, matching, history>>
  BY DEF Open
<1>2. act = "none"
  BY <1>1 DEF IInv, ActionIsDriven
<1>3. AStep
  BY <1>1, <1>2 DEF AStep, Abstract!ANext, Abstract!AOpen, matching
<1>4. TypeOK' /\ ActionIsDriven' /\ Running'
  BY <1>1 DEF wire, counters, thresholds, matching, history, IInv, TypeOK, ActionIsDriven, Running,
     Unread
<1>5. /\ OutcomeIsEarned' /\ ImageOnlyWithFingerOn' /\ NoStaleImage' /\ NoResidue'
      /\ Replies' /\ Shots' /\ Judged'
  BY <1>1 DEF wire, counters, matching, history, IInv, OutcomeIsEarned, ImageOnlyWithFingerOn,
     NoStaleImage, NoResidue, Replies, Shots, Judged
<1> QED
  BY <1>3, <1>4, <1>5 DEF IInv

\* A refused call, a refused template and a close: nothing runs before or after.
LEMMA IdleStep ==
  ASSUME IInv, act = "none", UNCHANGED <<act, wire, images, thresholds, history>>,
         {opened', session', tls', partial'} \subseteq BOOLEAN, session' = tls', cancelling' = FALSE,
         outcome' = outcome \/ outcome' = "error", unread' = "none",
         baseInvalid' \in 0 .. MaxBaseInvalid + 1,
         UNCHANGED matching \/ matching_clear
  PROVE  IInv'
<1>1. /\ probe' = NoImage /\ captured' = NoImage /\ retry' = FALSE
      /\ views' = -1 /\ gallery' = -1 /\ matchIdx' = -1
  BY Idle DEF matching, matching_clear
<1>2. act' = "none" /\ st' = "none" /\ io' = "none"
  BY Idle DEF wire
<1>3. TypeOK'
  <2>1. views' \in -1 .. Stages - 1 /\ gallery' \in -1 .. MaxPrints /\ matchIdx' \in -1 .. MaxPrints - 1
    BY <1>1, TouchAssumption
  <2>2. /\ {opened', session', tls', partial', cancelling', retry'} \subseteq BOOLEAN
        /\ {probe', captured'} \subseteq Images \cup {NoImage} /\ unread' \in Unread
    BY <1>1 DEF Unread
  <2>3. outcome' \in {"none", "error", "cancelled", "enrolled", "image", "match", "nomatch", "retry"}
    BY DEF IInv, TypeOK
  <2>4. /\ x' \in Exchanges /\ fdtCancel' \in {"none", "live", "cancelled"}
        /\ mode' \in {"DOWN", "UP"} /\ {images', reads', shots'} \subseteq Nat
        /\ {downThr', upThr', manualThr'} \subseteq Readings
        /\ finger' \in {"on", "off", "unknown"}
        /\ lastImage' \in {"none", "unusable", "usable", "match"}
    BY DEF IInv, TypeOK, wire, thresholds, history
  <2> QED
    BY <1>2, <2>1, <2>2, <2>3, <2>4 DEF TypeOK
<1>4. ActionIsDriven' /\ Running' /\ ImageOnlyWithFingerOn' /\ NoStaleImage' /\ NoResidue'
  BY <1>1, <1>2 DEF ActionIsDriven, Running, ImageOnlyWithFingerOn, NoStaleImage, NoResidue
<1>5. OutcomeIsEarned'
  BY DEF IInv, OutcomeIsEarned, history
<1>6. Replies' /\ Shots' /\ Judged'
  BY <1>1, <1>2 DEF Replies, Shots, Judged, ArmStates, RecheckStates, FdtStates
<1> QED
  BY <1>3, <1>4, <1>5, <1>6 DEF IInv

\* A close ends it.
LEMMA CloseStep == IInv /\ dev_close => IInv' /\ AStep
<1> SUFFICES ASSUME IInv, dev_close PROVE IInv' /\ AStep
  OBVIOUS
<1>1. /\ opened /\ act = "none"
      /\ opened' = FALSE /\ session' = FALSE /\ tls' = FALSE /\ unread' = "none" /\ partial' = FALSE
      /\ matching_clear
      /\ UNCHANGED <<act, cancelling, outcome, wire, counters, thresholds, history>>
  BY DEF dev_close
<1>2. cancelling' = FALSE /\ baseInvalid' \in 0 .. MaxBaseInvalid + 1 /\ UNCHANGED images
  BY <1>1, Idle DEF IInv, TypeOK, counters
<1>3. IInv'
  BY <1>1, <1>2, IdleStep
<1>4. AStep
  <2>1. (opened' /\ session') = FALSE /\ act' # "enroll" /\ act # "enroll"
    BY <1>1
  <2>2. Abstract!AClose
    BY <1>1, <2>1 DEF Abstract!AClose
  <2> QED
    BY <2>2 DEF AStep, Abstract!ANext
<1> QED
  BY <1>3, <1>4

\* A refused call leaves everything but the outcome.
LEMMA RefuseStep == IInv /\ (Refuse \/ RefuseTemplate) => IInv' /\ AStep
<1> SUFFICES ASSUME IInv, Refuse \/ RefuseTemplate PROVE IInv' /\ AStep
  OBVIOUS
<1>1. /\ opened /\ act = "none" /\ outcome' = "error"
      /\ UNCHANGED <<opened, act, session, tls, unread, partial, wire, images, thresholds, history>>
      /\ cancelling' = cancelling \/ cancelling' = FALSE
      /\ baseInvalid' \in {baseInvalid, 0}
      /\ UNCHANGED matching \/ matching_clear
  BY DEF Refuse, RefuseTemplate, tlsState, counters, history
<1>2. /\ cancelling = FALSE /\ cancelling' = FALSE /\ baseInvalid' \in 0 .. MaxBaseInvalid + 1
      /\ {opened', session', tls', partial'} \subseteq BOOLEAN /\ unread' = "none"
      /\ session' = tls'
  <2>1. cancelling = FALSE /\ cancelling' = FALSE
    BY <1>1, Idle DEF IInv, TypeOK
  <2>2. baseInvalid' \in 0 .. MaxBaseInvalid + 1
    BY <1>1, TouchAssumption DEF IInv, TypeOK
  <2>3. {opened', session', tls', partial'} \subseteq BOOLEAN /\ session' = tls'
    BY <1>1 DEF IInv, TypeOK, Running
  <2> QED
    BY <1>1, <2>1, <2>2, <2>3, Idle
<1>3. IInv'
  BY <1>1, <1>2, IdleStep
<1>4. AStep
  <2>1. act' # "enroll" /\ act # "enroll" /\ (opened' /\ session') = (opened /\ session)
    BY <1>1
  <2>2. Abstract!ARefuse
    BY <1>1, <1>2, <2>1 DEF Abstract!ARefuse
  <2> QED
    BY <2>2 DEF AStep, Abstract!ANext
<1> QED
  BY <1>3, <1>4

\* A cancellation sets the flag and wakes a wait.
LEMMA CancelStep == IInv /\ dev_cancel => IInv' /\ AStep
<1> SUFFICES ASSUME IInv, dev_cancel PROVE IInv' /\ AStep
  OBVIOUS
<1>1. /\ st # "none" /\ cancelling' = TRUE /\ fdtCancel' \in {fdtCancel, "cancelled"}
      /\ UNCHANGED <<opened, act, outcome, tlsState, st, io, x, mode, reads, counters, thresholds,
                     matching, history>>
  BY DEF dev_cancel
<1>2. act # "none"
  BY <1>1 DEF IInv, ActionIsDriven
<1>3. AStep
  BY <1>1, <1>2 DEF AStep, Abstract!ANext, Abstract!ACancel, tlsState, matching
<1>4. TypeOK' /\ ActionIsDriven' /\ Running'
  BY <1>1, <1>2 DEF tlsState, counters, thresholds, matching, history, IInv, TypeOK,
     ActionIsDriven, Running
<1>5. /\ OutcomeIsEarned' /\ ImageOnlyWithFingerOn' /\ NoStaleImage' /\ NoResidue'
      /\ Replies' /\ Shots' /\ Judged'
  BY <1>1 DEF tlsState, counters, matching, history, IInv, OutcomeIsEarned,
     ImageOnlyWithFingerOn, NoStaleImage, NoResidue, Replies, Shots, Judged
<1> QED
  BY <1>3, <1>4, <1>5 DEF IInv

\* An action starts on an idle driver.
LEMMA StartStep ==
  ASSUME IInv, NEW a \in {"enroll", "verify", "identify", "capture"}, Start(a)
  PROVE  IInv' /\ AStep
<1>1. /\ opened /\ act = "none" /\ session
      /\ baseInvalid' = 0 /\ cancelling' = FALSE /\ matchIdx' = -1
      /\ act' = a /\ outcome' = "none"
      /\ views' = IF a = "enroll" THEN 0 ELSE views
      /\ mode' = "DOWN" /\ Run("FDT_ARM") /\ fdtCancel' = "none" /\ shots' = 0
      /\ finger' = "off" /\ lastImage' = "none"
      /\ UNCHANGED <<opened, tlsState, images, thresholds, probe, retry, captured>>
  BY DEF Start, start_touch
<1>2. /\ a \in {"verify", "identify"} => gallery' \in 0 .. MaxPrints
      /\ a \notin {"verify", "identify"} => gallery' = gallery
  <2>1. CASE a = "verify"
    BY <2>1, TouchAssumption DEF Start
  <2>2. CASE a = "identify"
    BY <2>2 DEF Start
  <2>3. CASE a \notin {"verify", "identify"}
    BY <2>3 DEF Start
  <2> QED
    BY <2>1, <2>2, <2>3
<1>3. /\ st' = "FDT_ARM" /\ io' = "out" /\ reads' = 0 /\ x' \in Exchanges
      /\ x'.send /\ x'.reply = {"ACK"}
  <2>1. "FDT_ARM" \in ExchangeStates /\ Run("FDT_ARM")
    BY <1>1 DEF ExchangeStates, ArmStates
  <2> QED
    BY <2>1, RunType
<1>4. /\ unread = "none" /\ probe = NoImage /\ captured = NoImage /\ retry = FALSE
      /\ views = -1 /\ gallery = -1 /\ UNCHANGED <<session, tls, unread, partial>>
      /\ cancelling = FALSE
  BY <1>1, Idle DEF tlsState, IInv, TypeOK
<1>5. TypeOK'
  <2>1. /\ views' \in -1 .. Stages - 1 /\ gallery' \in -1 .. MaxPrints
        /\ matchIdx' \in -1 .. MaxPrints - 1 /\ baseInvalid' \in 0 .. MaxBaseInvalid + 1
    BY <1>1, <1>2, <1>4, TouchAssumption
  <2>2. {opened', session', tls', partial', cancelling', retry'} \subseteq BOOLEAN
    BY <1>1, <1>4 DEF IInv, TypeOK
  <2>3. {probe', captured'} \subseteq Images \cup {NoImage} /\ unread' \in Unread
    BY <1>1, <1>4 DEF Unread
  <2>4. {images', reads', shots'} \subseteq Nat /\ {downThr', upThr', manualThr'} \subseteq Readings
    BY <1>1, <1>3 DEF IInv, TypeOK, thresholds
  <2>5. st' \in {"none", "CAP_READ"} \cup ExchangeStates \cup WaitStates
    BY <1>3 DEF ExchangeStates, ArmStates
  <2> QED
    BY <1>1, <1>3, <2>1, <2>2, <2>3, <2>4, <2>5 DEF TypeOK
<1>6. session /\ tls /\ UNCHANGED <<session, tls>>
  BY <1>1, <1>4 DEF IInv, Running
<1>7. ActionIsDriven' /\ OutcomeIsEarned' /\ Running'
  BY <1>1, <1>3, <1>6, TouchAssumption DEF ActionIsDriven, OutcomeIsEarned, Running
<1>8. /\ ImageOnlyWithFingerOn' /\ NoStaleImage' /\ NoResidue' /\ Replies' /\ Shots' /\ Judged'
  BY <1>1, <1>2, <1>3, <1>4 DEF ImageOnlyWithFingerOn, NoStaleImage, NoResidue, Replies, Shots,
     Judged, RecheckStates
<1>9. AStep
  BY <1>1, <1>4 DEF AStep, Abstract!ANext, Abstract!AStart, Abstract!Actions
<1> QED
  BY <1>5, <1>7, <1>8, <1>9 DEF IInv

----------------------------------------------------------------------------
\* The initial state satisfies the invariant.
LEMMA InitInvariant == Init => IInv
<1> SUFFICES ASSUME Init PROVE IInv
  OBVIOUS
<1>1. TypeOK
  <2>1. /\ views \in -1 .. Stages - 1 /\ gallery \in -1 .. MaxPrints /\ matchIdx \in -1 .. MaxPrints - 1
        /\ baseInvalid \in 0 .. MaxBaseInvalid + 1
    BY TouchAssumption DEF Init
  <2>2. /\ x \in Exchanges /\ {downThr, upThr, manualThr} \subseteq Readings
        /\ {opened, session, tls, partial, cancelling, retry} \subseteq BOOLEAN
        /\ {probe, captured} \subseteq Images \cup {NoImage} /\ unread \in Unread
        /\ {images, reads, shots} \subseteq Nat
    <3>1. {opened, session, tls, partial, cancelling, retry} \subseteq BOOLEAN
      BY DEF Init
    <3>2. x \in Exchanges /\ {downThr, upThr, manualThr} \subseteq Readings
      BY NoExchangeType, TouchAssumption DEF Init
    <3> QED
      BY <3>1, <3>2 DEF Init, Unread
  <2> QED
    BY <2>1, <2>2 DEF Init, TypeOK
<1>2. /\ ActionIsDriven /\ OutcomeIsEarned /\ ImageOnlyWithFingerOn /\ NoStaleImage
      /\ NoResidue
  BY DEF Init, ActionIsDriven, OutcomeIsEarned, ImageOnlyWithFingerOn, NoStaleImage, NoResidue
<1>3. Running /\ Replies /\ Shots /\ Judged
  BY DEF Init, Running, Replies, Shots, Judged, ArmStates, RecheckStates, FdtStates
<1> QED
  BY <1>1, <1>2, <1>3 DEF IInv

\* Every step preserves the invariant and is a step of DeviceActions, or none.
LEMMA NextStep == IInv /\ [Next]_vars => IInv' /\ AStep
<1> SUFFICES ASSUME IInv, [Next]_vars PROVE IInv' /\ AStep
  OBVIOUS
<1>1. CASE Library
  BY <1>1, OpenStep, CloseStep, RefuseStep, CancelStep, StartStep DEF Library
<1>2. CASE Completion
  BY <1>2, CompletionStep
<1>3. CASE UNCHANGED vars
  <2>1. UNCHANGED <<lib, tlsState, wire, counters, thresholds, matching, history>>
    BY <1>3 DEF vars
  <2>2. AStep
    BY <2>1, Stutter DEF lib, tlsState, matching
  <2>3. TypeOK' /\ ActionIsDriven' /\ Running'
    BY <2>1 DEF lib, tlsState, wire, counters, thresholds, matching, history, IInv, TypeOK,
       ActionIsDriven, Running
  <2>4. /\ OutcomeIsEarned' /\ ImageOnlyWithFingerOn' /\ NoStaleImage' /\ NoResidue'
        /\ Replies' /\ Shots' /\ Judged'
    BY <2>1 DEF lib, tlsState, wire, counters, matching, history, IInv, OutcomeIsEarned,
       ImageOnlyWithFingerOn, NoStaleImage, NoResidue, Replies, Shots, Judged
  <2> QED
    BY <2>2, <2>3, <2>4 DEF IInv
<1> QED
  BY <1>1, <1>2, <1>3 DEF Next

\* The strengthening holds in every reachable state.
THEOREM TouchInvariant == Spec => []IInv
BY InitInvariant, NextStep, PTL DEF Spec

\* Type correctness.
THEOREM TouchTypeOK == Spec => []TypeOK
<1>1. IInv => TypeOK BY DEF IInv
<1> QED BY <1>1, TouchInvariant, PTL

\* A running action always has its machine, its transfer and its session.
THEOREM TouchActionIsDriven == Spec => []ActionIsDriven
<1>1. IInv => ActionIsDriven BY DEF IInv
<1> QED BY <1>1, TouchInvariant, PTL

\* What is reported is what the last image of the touch gave.
THEOREM TouchOutcomeIsEarned == Spec => []OutcomeIsEarned
<1>1. IInv => OutcomeIsEarned BY DEF IInv
<1> QED BY <1>1, TouchInvariant, PTL

\* An image is asked for only after a finger was detected, and never one too many.
THEOREM TouchImageOnlyWithFingerOn == Spec => []ImageOnlyWithFingerOn
<1>1. IInv => ImageOnlyWithFingerOn BY DEF IInv
<1> QED BY <1>1, TouchInvariant, PTL

\* No image of an earlier touch is left for the next capture to read.
THEOREM TouchNoStaleImage == Spec => []NoStaleImage
<1>1. IInv => NoStaleImage BY DEF IInv
<1> QED BY <1>1, TouchInvariant, PTL

\* Nothing of a finished action stays behind.
THEOREM TouchNoResidue == Spec => []NoResidue
<1>1. IInv => NoResidue BY DEF IInv
<1> QED BY <1>1, TouchInvariant, PTL

\* The driver does what DeviceActions promises: the initial state is an initial
\* state there, and every callback and every call is a step there or none.
THEOREM TouchImplementsDeviceActions == Spec => ImplementsDeviceActions
<1>1. Init => Abstract!AInit
  BY DEF Init, Abstract!AInit
<1>2. IInv /\ [Next]_vars => [Abstract!ANext]_(Abstract!avars)
  BY NextStep DEF AStep
<1> QED
  BY <1>1, <1>2, TouchInvariant, PTL DEF Spec, ImplementsDeviceActions, Abstract!ASpec

----------------------------------------------------------------------------
(***************************************************************************)
(* The touch loop with the EC and the finger.                              *)
(***************************************************************************)

\* What the EC sends.
Packets ==
  {Ack, Event("down", "on"), Event("up", "off"), Event("base", "off"), Event("base", "zero"),
   Event("manual_on", "on"), Event("manual_off", "off")} \cup {Image(i) : i \in SystemImages}

\* Queues with no image, with one at most, with none of a placement imaged before,
\* with no lift, with no lift behind an image.
NoImageIn(q) == \A i \in 1 .. Len(q) : q[i].rx # "tls"
OneImageIn(q) == \A i, j \in 1 .. Len(q) : q[i].rx = "tls" /\ q[j].rx = "tls" => i = j
FirstImagesIn(q) == \A i \in 1 .. Len(q) : q[i].rx = "tls" => q[i].rec # "again"
NoLiftIn(q) == \A i \in 1 .. Len(q) : ~IsEvent(q[i], "up")
NoLiftBehind(q) == \A i, j \in 1 .. Len(q) : i < j /\ q[i].rx = "tls" => ~IsEvent(q[j], "up")

Captures == st = "CAP_READ" \/ (st = "CAP_REQUEST" /\ io = "in")

\* The finger on the sensor was not imaged yet: only a lift or an image changes that.
Fresh == ~(on /\ imaged)

SystemTypes ==
  /\ inq \in Seq(Packets) /\ armed \in {"none", "DOWN", "UP"}
  /\ owes \in {"none", "manual", "image"}
  /\ on \in BOOLEAN /\ imaged \in BOOLEAN
  /\ io = "out" => st \in ExchangeStates

\* The up thresholds are the finger's from the down event to the lift.
Arms ==
  /\ downThr # "on"
  /\ st \in {"CAP_REQUEST", "CAP_READ"} \cup RecheckStates \/ (st \in FdtStates /\ mode = "UP")
       => upThr = "on"

\* An image is under way, owed, sent or decrypted, only in a capture, and one alone.
NoneUnderWay == unread = "none" /\ owes # "image" /\ NoImageIn(inq)

OneUnderWay ==
  session =>
    /\ ~Captures => NoneUnderWay
    /\ unread # "none" => owes # "image" /\ NoImageIn(inq)
    /\ owes = "image" => NoImageIn(inq)
    /\ OneImageIn(inq)

\* In an enrollment a finger that was not imaged is on from the lift to the next
\* image, and a lift that is read behind an image was one of the finger imaged.
Distinct ==
  act = "enroll" =>
    /\ st \notin RecheckStates
    /\ probe # "again" /\ unread # "again" /\ FirstImagesIn(inq)
    /\ (st \in FdtStates /\ mode = "DOWN") \/ (st = "CAP_REQUEST" /\ io = "out")
         \/ owes = "image" => Fresh
    /\ ((st \in FdtStates /\ mode = "UP") \/ unread # "none") /\ ~Fresh => NoLiftIn(inq)
    /\ ~Fresh => NoLiftBehind(inq)

SInv == SystemAssumption /\ IInv /\ SystemTypes /\ Arms /\ OneUnderWay /\ Distinct

\* What each packet can be, and what is read of it.
LEMMA PacketIs ==
  ASSUME SystemAssumption, NEW p \in Packets
  PROVE  /\ p \in Transfers /\ p.rx \in {"ack", "fdt", "tls"}
         /\ p.rx = "tls" => p.rec \in Images
         /\ p.rx = "fdt" =>
              /\ p.ev \in {"down", "up", "base", "manual_on", "manual_off"}
              /\ p.zones = "on" <=> p.ev \in {"down", "manual_on"}
         /\ p.rx # "tls" => FedUnread(p) = unread
<1>1. CASE p = Ack
  BY <1>1 DEF Ack, Transfers, RxKinds, FedUnread
<1>2. CASE \E i \in SystemImages : p = Image(i)
  BY <1>2 DEF SystemAssumption, Image, Transfers
<1>3. ASSUME NEW e \in {"down", "up", "base", "manual_on", "manual_off"},
             NEW z \in {"on", "off", "zero"}, p = Event(e, z),
             z = "on" <=> e \in {"down", "manual_on"}
      PROVE  /\ p \in Transfers /\ p.rx = "fdt" /\ p.ev = e /\ p.zones = z
             /\ FedUnread(p) = unread
  BY <1>3 DEF SystemAssumption, SystemReadings, Event, Transfers, FdtKinds, FedUnread
<1>4. CASE p \in {Event("down", "on"), Event("up", "off"), Event("base", "off"),
                  Event("base", "zero"), Event("manual_on", "on"), Event("manual_off", "off")}
  BY <1>3, <1>4
<1> QED
  BY <1>1, <1>2, <1>4 DEF Packets

\* The EC sends a packet.
LEMMA SentIs ==
  ASSUME NEW q \in Seq(Packets), NEW p \in Packets, NEW r, r = Append(q, p)
  PROVE  /\ r \in Seq(Packets)
         /\ NoImageIn(q) => OneImageIn(r)
         /\ p.rx # "tls" => (NoImageIn(q) => NoImageIn(r)) /\ (OneImageIn(q) => OneImageIn(r))
                            /\ (FirstImagesIn(q) => FirstImagesIn(r))
         /\ p.rx = "tls" /\ p.rec # "again" /\ FirstImagesIn(q) => FirstImagesIn(r)
         /\ ~IsEvent(p, "up") => (NoLiftIn(q) => NoLiftIn(r))
                                 /\ (NoLiftBehind(q) => NoLiftBehind(r))
<1>1. /\ r \in Seq(Packets) /\ Len(q) \in Nat /\ Len(r) = Len(q) + 1
      /\ \A i \in 1 .. Len(q) : r[i] = q[i]
      /\ r[Len(q) + 1] = p
  OBVIOUS
<1> DEFINE n == Len(q)
<1>2. /\ n \in Nat /\ Len(r) = n + 1 /\ \A i \in 1 .. n : r[i] = q[i]
      /\ r[n + 1] = p /\ \A i \in 1 .. n + 1 : i \in 1 .. n \/ i = n + 1
  BY <1>1
<1> HIDE DEF n
<1>3. NoImageIn(q) => OneImageIn(r)
  BY ONLY <1>2 DEF n, NoImageIn, OneImageIn
<1>4. p.rx # "tls" => (NoImageIn(q) => NoImageIn(r)) /\ (OneImageIn(q) => OneImageIn(r))
                      /\ (FirstImagesIn(q) => FirstImagesIn(r))
  BY ONLY <1>2 DEF n, NoImageIn, OneImageIn, FirstImagesIn
<1>5. p.rx = "tls" /\ p.rec # "again" /\ FirstImagesIn(q) => FirstImagesIn(r)
  BY ONLY <1>2 DEF n, FirstImagesIn
<1>6. ~IsEvent(p, "up") => (NoLiftIn(q) => NoLiftIn(r)) /\ (NoLiftBehind(q) => NoLiftBehind(r))
  BY ONLY <1>2 DEF n, NoLiftIn, NoLiftBehind
<1> QED
  BY <1>1, <1>3, <1>4, <1>5, <1>6

\* The driver reads a packet.
LEMMA ReadIs ==
  ASSUME NEW q \in Seq(Packets), q # << >>, NEW r, r = Tail(q)
  PROVE  /\ r \in Seq(Packets) /\ Head(q) \in Packets
         /\ NoImageIn(q) => NoImageIn(r) /\ Head(q).rx # "tls"
         /\ OneImageIn(q) => OneImageIn(r) /\ (Head(q).rx = "tls" => NoImageIn(r))
         /\ FirstImagesIn(q) => FirstImagesIn(r) /\ (Head(q).rx = "tls" => Head(q).rec # "again")
         /\ NoLiftIn(q) => NoLiftIn(r) /\ ~IsEvent(Head(q), "up")
         /\ NoLiftBehind(q) => NoLiftBehind(r) /\ (Head(q).rx = "tls" => NoLiftIn(r))
<1>1. /\ r \in Seq(Packets) /\ Head(q) \in Packets /\ Len(q) \in Nat /\ Len(q) >= 1
      /\ Len(r) = Len(q) - 1 /\ \A i \in 1 .. Len(r) : r[i] = q[i + 1]
      /\ Head(q) = q[1]
  OBVIOUS
<1> DEFINE n == Len(r)
           h == Head(q)
<1>2. /\ n \in Nat /\ Len(q) = n + 1 /\ Len(r) = n
      /\ \A i \in 1 .. n : r[i] = q[i + 1] /\ i + 1 \in 1 .. n + 1 /\ 1 < i + 1
      /\ \A i, j \in 1 .. n : (i < j <=> i + 1 < j + 1) /\ (i + 1 = j + 1 => i = j) /\ i + 1 # 1
      /\ 1 \in 1 .. n + 1 /\ h = q[1]
  BY <1>1
<1> HIDE DEF n, h
<1>3. NoImageIn(q) => NoImageIn(r) /\ h.rx # "tls"
  BY ONLY <1>2 DEF NoImageIn
<1>4. OneImageIn(q) => OneImageIn(r) /\ (h.rx = "tls" => NoImageIn(r))
  BY ONLY <1>2 DEF OneImageIn, NoImageIn
<1>5. FirstImagesIn(q) => FirstImagesIn(r) /\ (h.rx = "tls" => h.rec # "again")
  BY ONLY <1>2 DEF FirstImagesIn
<1>6. NoLiftIn(q) => NoLiftIn(r) /\ ~IsEvent(h, "up")
  BY ONLY <1>2 DEF NoLiftIn
<1>7. NoLiftBehind(q) => NoLiftBehind(r) /\ (h.rx = "tls" => NoLiftIn(r))
  BY ONLY <1>2 DEF NoLiftBehind, NoLiftIn
<1> QED
  BY <1>1, <1>3, <1>4, <1>5, <1>6, <1>7 DEF h

\* With no image under way there is no more than one.
LEMMA NoneIsFew ==
  ASSUME NEW q, NoImageIn(q)
  PROVE  OneImageIn(q) /\ FirstImagesIn(q) /\ NoLiftBehind(q)
BY DEF NoImageIn, OneImageIn, FirstImagesIn, NoLiftBehind

----------------------------------------------------------------------------
\* Every step of the system is one of the driver's, or none of them.
LEMMA DriverStep ==
  ASSUME SInv, [SystemNext]_systemVars
  PROVE  IInv'
<1>1. IInv /\ SystemAssumption /\ inq \in Seq(Packets)
  BY DEF SInv, SystemTypes
<1>2. CASE UNCHANGED vars
  BY <1>1, <1>2, NextStep
<1>3. CASE Command
  BY <1>1, <1>3, CompletionStep DEF Command, Completion
<1>4. CASE Read
  <2>1. Head(inq) \in Packets /\ ReadDone(Head(inq))
    BY <1>1, <1>4, ReadIs DEF Read
  <2>2. Head(inq) \in Transfers
    BY <1>1, <2>1, PacketIs
  <2> QED
    BY <1>1, <2>1, <2>2, CompletionStep DEF Completion
<1>5. CASE TimeOut \/ CancelWait
  BY <1>1, <1>5, CompletionStep DEF TimeOut, CancelWait, Completion
<1>6. CASE OpenAgain \/ Call
  BY <1>1, <1>6, OpenStep, CloseStep, RefuseStep, CancelStep DEF OpenAgain, Call
<1>7. CASE \E a \in {"enroll", "verify", "identify", "capture"} : Begin(a)
  BY <1>1, <1>7, StartStep DEF Begin
<1>8. CASE Fire \/ BaseIsInvalid \/ Answer \/ Touch \/ Lift \/ UNCHANGED systemVars
  BY <1>2, <1>8 DEF Fire, BaseIsInvalid, Answer, Touch, Lift, systemVars
<1> QED
  BY <1>3, <1>4, <1>5, <1>6, <1>7, <1>8 DEF SystemNext

\* A state with no image under way.
LEMMA QuietSound ==
  ASSUME SystemAssumption, IInv', SystemTypes', Arms', session' => NoneUnderWay',
         act' = "enroll" =>
           /\ st' \notin RecheckStates /\ probe' # "again"
           /\ (st' \in FdtStates /\ mode' = "DOWN") \/ (st' = "CAP_REQUEST" /\ io' = "out") => Fresh'
           /\ st' \in FdtStates /\ mode' = "UP" /\ ~Fresh' => NoLiftIn(inq')
  PROVE  SInv'
<1>1. act' = "enroll" => session'
  BY DEF IInv, ActionIsDriven
<1>2. NoneUnderWay' => /\ unread' = "none" /\ owes' # "image" /\ NoImageIn(inq')
                       /\ OneImageIn(inq') /\ FirstImagesIn(inq') /\ NoLiftBehind(inq')
  BY NoneIsFew DEF NoneUnderWay
<1>3. OneUnderWay'
  BY <1>2 DEF OneUnderWay
<1>4. Distinct'
  BY <1>1, <1>2 DEF Distinct
<1> QED
  BY <1>3, <1>4 DEF SInv

\* An action that ends.
LEMMA EndSound ==
  ASSUME SInv, IInv', NEW o, Complete(o), downThr' # "on", inq' \in Seq(Packets),
         UNCHANGED <<armed, owes, on, imaged>>, session' => NoneUnderWay'
  PROVE  SInv'
<1>1. st' = "none" /\ io' = "none" /\ act' = "none"
  BY DEF Complete
<1>2. SystemTypes' /\ SystemAssumption
  BY <1>1 DEF SInv, SystemTypes
<1>3. Arms'
  BY <1>1 DEF Arms, RecheckStates, FdtStates
<1> QED
  BY <1>1, <1>2, <1>3, QuietSound

\* An action that ends because its machine failed, with its session.
LEMMA FailSound ==
  ASSUME SInv, IInv', MachineFails, downThr' # "on", inq' \in Seq(Packets),
         UNCHANGED <<armed, owes, on, imaged>>
  PROVE  SInv'
<1>1. session' = FALSE /\ \E o : Complete(o)
  BY DEF MachineFails
<1> QED
  BY <1>1, EndSound

\* An exchange begins with no image under way.
LEMMA RunSound ==
  ASSUME SInv, IInv', NEW s \in ExchangeStates, Run(s), UNCHANGED act, downThr' # "on",
         s # "FDT_ARM" \/ mode' = "UP" => upThr' = "on",
         inq' \in Seq(Packets), UNCHANGED <<armed, owes, on, imaged>>, NoneUnderWay',
         act = "enroll" =>
           /\ s \in {"FDT_ARM", "CAP_REQUEST"} /\ probe' # "again"
           /\ s = "CAP_REQUEST" \/ mode' = "DOWN" => Fresh
           /\ s = "FDT_ARM" /\ mode' = "UP" /\ ~Fresh => NoLiftIn(inq')
  PROVE  SInv'
<1>1. st' = s /\ io' = "out"
  BY DEF Run
<1>2. SystemTypes' /\ SystemAssumption /\ Fresh' = Fresh
  BY <1>1 DEF SInv, SystemTypes, Fresh
<1>3. Arms'
  BY <1>1 DEF Arms, RecheckStates, FdtStates
<1>4. s \in {"FDT_ARM", "CAP_REQUEST"} => s \notin RecheckStates
  BY DEF RecheckStates
<1>5. s \in FdtStates => s = "FDT_ARM"
  BY DEF FdtStates, ExchangeStates, ArmStates
<1> QED
  BY <1>1, <1>2, <1>3, <1>4, <1>5, QuietSound

\* A machine goes on to its state s, or stops there.
LEMMA EnterSound ==
  ASSUME SInv, IInv',
         NEW s \in {"FDT_ARM", "FDT_WAIT", "RECHECK_ARM_MANUAL", "RECHECK_WAIT"}, Enter(s),
         s \in FdtStates => st \in FdtStates,
         s \in RecheckStates => st \in RecheckStates,
         downThr' # "on", UNCHANGED upThr, inq' \in Seq(Packets),
         UNCHANGED <<armed, owes, on, imaged>>, NoneUnderWay', NoLiftIn(inq) => NoLiftIn(inq')
  PROVE  SInv'
<1>1. CASE cancelling
  BY <1>1, EndSound DEF Enter, session_done
<1>2. CASE ~cancelling
  <2>1. /\ IF s \in ExchangeStates THEN Run(s) ELSE Await(s, 0)
        /\ UNCHANGED <<mode, matching, lib>>
    BY <1>2 DEF Enter
  <2>2. /\ st' = s /\ io' \in {"out", "in"} /\ (io' = "out" => s \in ExchangeStates)
        /\ UNCHANGED <<mode, probe, act>>
    BY <2>1 DEF Run, Await, matching, lib
  <2>3. SystemTypes' /\ SystemAssumption /\ Fresh' = Fresh
    BY <2>2 DEF SInv, SystemTypes, Fresh
  <2>4. Arms'
    BY <2>2 DEF SInv, Arms, FdtStates, RecheckStates
  <2>5. act = "enroll" =>
          /\ s \notin RecheckStates /\ probe # "again"
          /\ s \in FdtStates /\ mode = "DOWN" => Fresh
          /\ s \in FdtStates /\ mode = "UP" /\ ~Fresh => NoLiftIn(inq')
    BY DEF SInv, Distinct
  <2> QED
    BY <2>2, <2>3, <2>4, <2>5, QuietSound
<1> QED
  BY <1>1, <1>2

\* A touch is over but for the lift.
LEMMA WaitForLiftSound ==
  ASSUME SInv, IInv', WaitForLift, UNCHANGED act, downThr' # "on", upThr' = "on",
         inq' \in Seq(Packets), UNCHANGED <<armed, owes, on, imaged>>, NoneUnderWay',
         act = "enroll" => probe' # "again" /\ (~Fresh => NoLiftIn(inq'))
  PROVE  SInv'
<1>1. "FDT_ARM" \in ExchangeStates /\ Run("FDT_ARM") /\ mode' = "UP"
  BY DEF WaitForLift, start_session, ExchangeStates, ArmStates
<1> QED
  BY <1>1, RunSound

\* The finger lifted: the touch is reported, or the next one of the enrollment begins.
LEMMA LiftedSound ==
  ASSUME SInv, IInv', session_done("FINGER_UP"), downThr' # "on", UNCHANGED upThr,
         inq' \in Seq(Packets), UNCHANGED <<armed, owes, on, imaged>>, NoneUnderWay',
         act = "enroll" => Fresh
  PROVE  SInv'
<1>1. CASE \E o : Complete(o)
  BY <1>1, EndSound
<1>2. CASE act = "enroll" /\ probe' = NoImage /\ start_touch /\ UNCHANGED lib
  <2>1. "FDT_ARM" \in ExchangeStates /\ Run("FDT_ARM") /\ mode' = "DOWN" /\ UNCHANGED act
    BY <1>2 DEF start_touch, ExchangeStates, ArmStates, lib
  <2>2. probe' # "again"
    BY <1>2 DEF NoImage
  <2> QED
    BY <1>2, <2>1, <2>2, RunSound
<1>3. CASE ~cancelling
  <2>1. PICK r : touch_done(matchIdx, r)
    BY <1>3 DEF session_done
  <2>2. CASE act = "enroll"
    BY <1>1, <1>2, <2>1, <2>2 DEF touch_done, enroll_touch_done
  <2>3. CASE act \in {"verify", "identify"}
    BY <1>1, <2>1, <2>3 DEF touch_done, verify_touch_done
  <2>4. CASE act = "capture"
    BY <1>1, <2>1, <2>4 DEF touch_done
  <2>5. CASE act \notin {"enroll", "verify", "identify", "capture"}
    BY <1>1, <2>1, <2>5 DEF touch_done
  <2> QED
    BY <2>2, <2>3, <2>4, <2>5
<1> QED
  BY <1>1, <1>3 DEF session_done

\* The next image is asked for.
LEMMA RequestSound ==
  ASSUME SInv, IInv', NEW result \in {"FINGER_DOWN", "FINGER_STILL"}, session_done(result),
         downThr' # "on", upThr' = "on", inq' \in Seq(Packets),
         UNCHANGED <<armed, owes, on, imaged>>, NoneUnderWay', act = "enroll" => Fresh
  PROVE  SInv'
<1>1. CASE cancelling
  BY <1>1, EndSound DEF session_done
<1>2. CASE ~cancelling
  <2>1. start_session("CAP_REQUEST") /\ UNCHANGED <<mode, matching, lib>>
    BY <1>2 DEF session_done
  <2>2. /\ "CAP_REQUEST" \in ExchangeStates /\ Run("CAP_REQUEST") /\ UNCHANGED <<act, probe>>
    BY <2>1 DEF start_session, ExchangeStates, matching, lib
  <2>3. act = "enroll" => probe # "again"
    BY DEF SInv, Distinct
  <2> QED
    BY <2>2, <2>3, RunSound
<1> QED
  BY <1>1, <1>2

----------------------------------------------------------------------------
\* The driver reads the packets.

\* While a transfer is outstanding there is a session.
LEMMA Outstanding ==
  ASSUME SInv, io # "none"
  PROVE  session /\ session = TRUE /\ SystemAssumption /\ IInv /\ OneUnderWay /\ Distinct
         /\ inq \in Seq(Packets) /\ downThr # "on"
BY DEF SInv, IInv, TypeOK, ActionIsDriven, SystemTypes, Arms

\* What is read outside a capture is no image, and leaves none.
LEMMA QuietRead ==
  ASSUME SInv, io # "none", ~Captures, inq # << >>, NEW r, r = Tail(inq)
  PROVE  /\ unread = "none" /\ owes # "image" /\ NoImageIn(r) /\ r \in Seq(Packets)
         /\ Head(inq) \in Packets /\ Head(inq).rx # "tls"
         /\ NoLiftIn(inq) => NoLiftIn(r) /\ ~IsEvent(Head(inq), "up")
         /\ Head(inq).rx = "fdt" => (Head(inq).zones = "on" <=> Head(inq).ev \in {"down", "manual_on"})
<1>1. NoneUnderWay /\ inq \in Seq(Packets) /\ SystemAssumption
  BY Outstanding DEF OneUnderWay
<1> QED
  BY <1>1, ReadIs, PacketIs DEF NoneUnderWay

\* A packet read while a finger is waited for.
LEMMA FdtWaitReadSound ==
  ASSUME SInv, IInv', inq # << >>, inq' = Tail(inq), UNCHANGED <<armed, owes, on, imaged>>,
         FdtWaitRead(Head(inq))
  PROVE  SInv'
<1> DEFINE t == Head(inq)
<1>1. io = "in" /\ st = "FDT_WAIT" /\ ~Captures /\ st \in FdtStates
  BY DEF FdtWaitRead, Captures, FdtStates
<1>2. /\ unread = "none" /\ owes # "image" /\ NoImageIn(inq') /\ inq' \in Seq(Packets)
      /\ NoLiftIn(inq) => NoLiftIn(inq') /\ ~IsEvent(t, "up")
      /\ t.rx = "fdt" => (t.zones = "on" <=> t.ev \in {"down", "manual_on"})
      /\ downThr # "on" /\ Distinct
  BY <1>1, QuietRead, Outstanding
<1> HIDE DEF t
<1>3. UNCHANGED tlsState => NoneUnderWay'
  BY <1>2 DEF NoneUnderWay, tlsState
<1>4. CASE FingerDown(t)
  <2>1. /\ mode = "DOWN" /\ upThr' = "on" /\ downThr' # "on" /\ session_done("FINGER_DOWN")
        /\ UNCHANGED tlsState
    BY <1>2, <1>4 DEF FingerDown, IsEvent
  <2>2. act = "enroll" => Fresh
    BY <1>1, <1>2, <2>1 DEF Distinct
  <2> QED
    BY <1>2, <1>3, <2>1, <2>2, RequestSound
<1>5. CASE BaseInvalid(t)
  <2>1. downThr' # "on" /\ UNCHANGED upThr
    BY <1>2, <1>5 DEF BaseInvalid, IsEvent
  <2>2. CASE MachineFails
    BY <1>2, <2>1, <2>2, FailSound
  <2>3. CASE Enter("FDT_ARM") /\ UNCHANGED tlsState
    <3>1. "FDT_ARM" \in FdtStates /\ "FDT_ARM" \notin RecheckStates
      BY DEF FdtStates, RecheckStates
    <3> QED
      BY <1>1, <1>2, <1>3, <2>1, <2>3, <3>1, EnterSound
  <2> QED
    BY <1>5, <2>2, <2>3 DEF BaseInvalid
<1>6. CASE FingerUp(t)
  <2>1. /\ mode = "UP" /\ IsEvent(t, "up") /\ downThr' # "on" /\ session_done("FINGER_UP")
        /\ UNCHANGED <<upThr, tlsState>>
    BY <1>2, <1>6 DEF FingerUp, IsEvent, Lifted
  <2>2. act = "enroll" => Fresh
    BY <1>1, <1>2, <2>1 DEF Distinct
  <2> QED
    BY <1>2, <1>3, <2>1, <2>2, LiftedSound
<1>7. CASE KeepWaiting(t)
  <2>1. /\ Enter("FDT_WAIT") /\ UNCHANGED tlsState /\ downThr' # "on" /\ UNCHANGED upThr
        /\ "FDT_WAIT" \in FdtStates /\ "FDT_WAIT" \notin RecheckStates
    BY <1>2, <1>7 DEF KeepWaiting, thresholds, FdtStates, RecheckStates
  <2> QED
    BY <1>1, <1>2, <1>3, <2>1, EnterSound
<1> QED
  BY <1>4, <1>5, <1>6, <1>7 DEF FdtWaitRead, t

\* The re-check got no answer.
LEMMA FingerGoneSound ==
  ASSUME SInv, IInv', io = "in", st = "RECHECK_WAIT", FingerGone, inq' \in Seq(Packets),
         UNCHANGED <<armed, owes, on, imaged>>, NoneUnderWay'
  PROVE  SInv'
<1>1. /\ act # "enroll" /\ upThr = "on" /\ downThr # "on"
      /\ session_done("FINGER_GONE") /\ UNCHANGED <<upThr, downThr>>
  BY DEF SInv, Distinct, Arms, RecheckStates, FingerGone, thresholds
<1>2. CASE cancelling
  BY <1>1, <1>2, EndSound DEF session_done
<1>3. CASE ~cancelling
  <2>1. WaitForLift /\ UNCHANGED act
    BY <1>1, <1>3 DEF session_done, lib
  <2> QED
    BY <1>1, <2>1, WaitForLiftSound
<1> QED
  BY <1>2, <1>3

\* A packet read while a finger is checked again.
LEMMA RecheckReadSound ==
  ASSUME SInv, IInv', inq # << >>, inq' = Tail(inq), UNCHANGED <<armed, owes, on, imaged>>,
         RecheckRead(Head(inq))
  PROVE  SInv'
<1> DEFINE t == Head(inq)
<1>1. io = "in" /\ st = "RECHECK_WAIT" /\ ~Captures /\ st \in RecheckStates
  BY DEF RecheckRead, Captures, RecheckStates
<1>2. /\ unread = "none" /\ owes # "image" /\ NoImageIn(inq') /\ inq' \in Seq(Packets)
      /\ NoLiftIn(inq) => NoLiftIn(inq')
      /\ t.rx = "fdt" => (t.zones = "on" <=> t.ev \in {"down", "manual_on"})
      /\ downThr # "on" /\ upThr = "on" /\ act # "enroll"
  BY <1>1, QuietRead, Outstanding DEF SInv, Arms, Distinct
<1> HIDE DEF t
<1>3. UNCHANGED tlsState => NoneUnderWay'
  BY <1>2 DEF NoneUnderWay, tlsState
<1>4. CASE (IsEvent(t, "manual_off") \/ IsEvent(t, "up")) /\ Lifted(t)
  <2>1. downThr' # "on" /\ session_done("FINGER_UP") /\ UNCHANGED <<upThr, tlsState>>
    BY <1>2, <1>4 DEF IsEvent, Lifted
  <2> QED
    BY <1>2, <1>3, <2>1, LiftedSound
<1>5. CASE FingerStill(t)
  <2>1. session_done("FINGER_STILL") /\ UNCHANGED <<downThr, upThr, tlsState>>
    BY <1>5 DEF FingerStill
  <2> QED
    BY <1>2, <1>3, <2>1, RequestSound
<1>6. CASE FingerGone
  <2>1. UNCHANGED tlsState
    BY <1>6 DEF FingerGone
  <2> QED
    BY <1>1, <1>2, <1>3, <1>6, <2>1, FingerGoneSound
<1>7. CASE RecheckAgain
  <2>1. UNCHANGED <<tlsState, downThr, upThr>>
    BY <1>7 DEF RecheckAgain, thresholds
  <2>2. CASE cancelling
    BY <1>2, <1>3, <1>7, <2>1, <2>2, EndSound DEF RecheckAgain, session_done
  <2>3. CASE ~cancelling
    <3>1. st' = "RECHECK_WAIT" /\ io' = "in" /\ UNCHANGED act
      BY <1>7, <2>3 DEF RecheckAgain, Await, lib
    <3>2. SystemTypes' /\ SystemAssumption
      BY <1>2, <3>1 DEF SInv, SystemTypes
    <3>3. Arms'
      BY <1>2, <2>1 DEF Arms
    <3> QED
      BY <1>2, <1>3, <2>1, <3>1, <3>2, <3>3, QuietSound
  <2> QED
    BY <2>2, <2>3
<1> QED
  BY <1>4, <1>5, <1>6, <1>7 DEF RecheckRead, t

----------------------------------------------------------------------------
\* Captures.

\* An image was read: nothing is under way any more.
LEMMA ImageSound ==
  ASSUME SInv, IInv', st \in {"CAP_REQUEST", "CAP_READ"}, NEW img \in Images, ImageDone(img),
         UNCHANGED thresholds, inq' \in Seq(Packets), UNCHANGED <<armed, owes, on, imaged>>,
         NoneUnderWay', act = "enroll" => img # "again" /\ (~Fresh => NoLiftIn(inq'))
  PROVE  SInv'
<1>1. /\ downThr' # "on" /\ upThr' = "on"
      /\ act = "enroll" => gallery = -1
  BY DEF SInv, Arms, thresholds, IInv, NoResidue
<1>2. CASE \E o : Complete(o)
  BY <1>1, <1>2, EndSound
<1>3. CASE act = "capture" /\ WaitForLift /\ UNCHANGED lib
  BY <1>1, <1>3, WaitForLiftSound DEF lib
<1>4. CASE gallery > 0 /\ \E i \in 0 .. gallery - 1 : touch_done(i, FALSE)
  <2>1. act # "enroll"
    BY <1>1, <1>4
  <2> QED
    BY <1>2, <1>4, <2>1 DEF touch_done, verify_touch_done
<1>5. CASE /\ \E usable \in BOOLEAN : probe' = IF usable /\ gallery = -1 THEN img ELSE NoImage
           /\ IF gallery # -1 /\ images + 1 < MaxImages
              THEN start_session("RECHECK_ARM_UP") /\ UNCHANGED mode
              ELSE WaitForLift
           /\ UNCHANGED lib
  <2>1. UNCHANGED act /\ (act = "enroll" => probe' # "again")
    BY <1>5 DEF lib, NoImage
  <2>2. CASE WaitForLift
    BY <1>1, <2>1, <2>2, WaitForLiftSound
  <2>3. CASE gallery # -1 /\ start_session("RECHECK_ARM_UP")
    <3>1. "RECHECK_ARM_UP" \in ExchangeStates /\ Run("RECHECK_ARM_UP") /\ act # "enroll"
      BY <1>1, <2>3 DEF start_session, ExchangeStates, ArmStates
    <3> QED
      BY <1>1, <2>1, <3>1, RunSound
  <2> QED
    BY <1>5, <2>2, <2>3
<1> QED
  BY <1>2, <1>3, <1>4, <1>5 DEF ImageDone

\* A record u that the TLS server holds is the one image under way; its touch is
\* not over, and no lift but its own is behind it.
Holds(u) ==
  /\ u # "none" => owes # "image" /\ NoImageIn(inq')
  /\ owes = "image" => NoImageIn(inq')
  /\ OneImageIn(inq')
  /\ act = "enroll" =>
       /\ u # "again" /\ FirstImagesIn(inq')
       /\ u # "none" /\ ~Fresh => NoLiftIn(inq')
       /\ ~Fresh => NoLiftBehind(inq')

\* What the TLS server holds when a packet was read.
LEMMA FedIs ==
  ASSUME SInv, io # "none", inq # << >>, inq' = Tail(inq), NEW u \in {unread, FedUnread(Head(inq))}
  PROVE  inq' \in Seq(Packets) /\ Holds(u)
<1> DEFINE t == Head(inq)
<1>1. /\ inq \in Seq(Packets) /\ SystemAssumption /\ OneImageIn(inq)
      /\ unread # "none" => owes # "image" /\ NoImageIn(inq)
      /\ owes = "image" => NoImageIn(inq)
      /\ act = "enroll" =>
           /\ unread # "again" /\ FirstImagesIn(inq)
           /\ unread # "none" /\ ~Fresh => NoLiftIn(inq)
           /\ ~Fresh => NoLiftBehind(inq)
  <2>1. NoneUnderWay => unread = "none" /\ owes # "image" /\ NoImageIn(inq)
    BY DEF NoneUnderWay
  <2> QED
    BY <2>1, Outstanding DEF OneUnderWay, Distinct
<1>2. /\ inq' \in Seq(Packets) /\ t \in Packets
      /\ NoImageIn(inq) => NoImageIn(inq') /\ t.rx # "tls"
      /\ OneImageIn(inq) => OneImageIn(inq') /\ (t.rx = "tls" => NoImageIn(inq'))
      /\ FirstImagesIn(inq) => FirstImagesIn(inq') /\ (t.rx = "tls" => t.rec # "again")
      /\ NoLiftIn(inq) => NoLiftIn(inq')
      /\ NoLiftBehind(inq) => NoLiftBehind(inq') /\ (t.rx = "tls" => NoLiftIn(inq'))
  BY <1>1, ReadIs
<1>3. t.rx # "tls" => u = unread
  BY <1>1, <1>2, PacketIs
<1>4. t.rx = "tls" => unread = "none" /\ owes # "image" /\ u \in {"none", t.rec}
  <2>1. t.rx = "tls" => t.rec # "part"
    BY <1>1, <1>2, PacketIs DEF SystemAssumption, SystemImages
  <2> QED
    BY <1>1, <1>2, <2>1 DEF FedUnread
<1> HIDE DEF t
<1> QED
  BY <1>1, <1>2, <1>3, <1>4 DEF Holds

\* CAP_READ is entered with u in the TLS server.
LEMMA CaptureSound ==
  ASSUME SInv, IInv', Captures, NEW u, NEW p, NEW n, EnterCapRead(u, p, n), Holds(u),
         UNCHANGED thresholds, inq' \in Seq(Packets), UNCHANGED <<armed, owes, on, imaged>>
  PROVE  SInv'
<1>1. /\ st \in {"CAP_REQUEST", "CAP_READ"} /\ downThr # "on" /\ upThr = "on"
      /\ UNCHANGED <<downThr, upThr>>
  BY DEF Captures, SInv, Arms, thresholds
<1>2. CASE ImageRead(u, p)
  <2>1. u # "none"
    BY <1>2, TouchAssumption DEF ImageRead
  <2>2. NoneUnderWay'
    BY <1>2, <2>1 DEF Holds, NoneUnderWay, ImageRead
  <2> QED
    BY <1>1, <1>2, <2>1, <2>2, ImageSound DEF Holds, ImageRead
<1>3. CASE ReadOn(u, p, n)
  <2>1. /\ st' = "CAP_READ" /\ io' = "in" /\ unread' = "none" /\ UNCHANGED <<act, probe, session>>
    BY <1>3 DEF ReadOn, Await, lib, matching
  <2>2. SystemTypes' /\ SystemAssumption /\ Arms' /\ Fresh' = Fresh /\ Captures'
    BY <1>1, <2>1 DEF SInv, SystemTypes, Arms, Fresh, Captures
  <2>3. OneUnderWay'
    BY <2>1, <2>2 DEF Holds, OneUnderWay
  <2>4. Distinct'
    <3>1. /\ st' \notin RecheckStates /\ st' \notin FdtStates
      BY <2>1 DEF RecheckStates, FdtStates
    <3>2. act = "enroll" => probe # "again" /\ (owes = "image" => Fresh)
      BY DEF SInv, Distinct
    <3> QED
      BY <2>1, <2>2, <3>1, <3>2 DEF Holds, Distinct
  <2> QED
    BY <2>2, <2>3, <2>4 DEF SInv
<1>4. CASE NoImageRead(u, n)
  BY <1>1, <1>4, FailSound DEF NoImageRead
<1> QED
  BY <1>2, <1>3, <1>4 DEF EnterCapRead

\* A packet read by the running exchange.
LEMMA ExchangeReadSound ==
  ASSUME SInv, IInv', inq # << >>, inq' = Tail(inq), UNCHANGED <<armed, owes, on, imaged>>,
         ExchangeRead(Head(inq))
  PROVE  SInv'
<1> DEFINE t == Head(inq)
           u == IF WantsTls(x) THEN FedUnread(t) ELSE unread
           p == IF WantsTls(x) THEN FedPartial(t) ELSE partial
<1>1. /\ io = "in" /\ st \in ExchangeStates /\ UNCHANGED thresholds
      /\ \/ MachineFails
         \/ unread' = u /\ UNCHANGED <<session, tls, st, io, mode, matching, lib>>
         \/ st = "CAP_REQUEST" /\ EnterCapRead(u, p, 0)
         \/ /\ st \in ArmStates
            /\ Enter(CASE st = "FDT_ARM" -> "FDT_WAIT"
                        [] st = "RECHECK_ARM_UP" -> "RECHECK_ARM_MANUAL"
                        [] st = "RECHECK_ARM_MANUAL" -> "RECHECK_WAIT")
            /\ UNCHANGED tlsState
  BY DEF ExchangeRead
<1>2. inq' \in Seq(Packets) /\ Holds(u) /\ downThr # "on" /\ UNCHANGED <<downThr, upThr>>
  BY <1>1, FedIs, Outstanding DEF thresholds
<1>3. ~Captures => /\ u = "none" /\ unread = "none" /\ owes # "image" /\ NoImageIn(inq')
                   /\ NoLiftIn(inq) => NoLiftIn(inq')
  <2>1. ASSUME ~Captures PROVE FedUnread(t) = unread
    <3>1. t \in Packets /\ t.rx # "tls" /\ SystemAssumption
      BY <1>1, <2>1, QuietRead, Outstanding
    <3> QED
      BY <3>1, PacketIs
  <2> QED
    BY <1>1, <2>1, QuietRead
<1> HIDE DEF u, p, t
<1>4. CASE MachineFails
  BY <1>2, <1>4, FailSound
<1>5. CASE unread' = u /\ UNCHANGED <<session, tls, st, io, mode, matching, lib>>
  <2>1. UNCHANGED <<act, probe, session, st, io, mode>>
    BY <1>5 DEF lib, matching
  <2>2. SystemTypes' /\ SystemAssumption /\ Arms' /\ Fresh' = Fresh /\ (Captures' <=> Captures)
    BY <1>2, <2>1 DEF SInv, SystemTypes, Arms, Fresh, Captures
  <2>3. ~Captures => NoneUnderWay'
    BY <1>3, <1>5 DEF NoneUnderWay
  <2>4. OneUnderWay'
    BY <1>2, <1>5, <2>2, <2>3 DEF Holds, OneUnderWay
  <2>5. Distinct'
    <3>1. act = "enroll" =>
            /\ st \notin RecheckStates /\ probe # "again"
            /\ (st \in FdtStates /\ mode = "DOWN") \/ (st = "CAP_REQUEST" /\ io = "out")
                 \/ owes = "image" => Fresh
            /\ st \in FdtStates /\ mode = "UP" /\ ~Fresh => NoLiftIn(inq)
      BY DEF SInv, Distinct
    <3>2. st \in FdtStates => ~Captures
      BY DEF FdtStates, Captures
    <3> QED
      BY <1>2, <1>3, <1>5, <2>1, <2>2, <3>1, <3>2 DEF Holds, Distinct
  <2> QED
    BY <2>2, <2>4, <2>5 DEF SInv
<1>6. CASE st = "CAP_REQUEST" /\ EnterCapRead(u, p, 0)
  <2>1. Captures
    BY <1>1, <1>6 DEF Captures
  <2> QED
    BY <1>1, <1>2, <1>6, <2>1, CaptureSound
<1>7. CASE /\ st \in ArmStates
           /\ Enter(CASE st = "FDT_ARM" -> "FDT_WAIT"
                       [] st = "RECHECK_ARM_UP" -> "RECHECK_ARM_MANUAL"
                       [] st = "RECHECK_ARM_MANUAL" -> "RECHECK_WAIT")
           /\ UNCHANGED tlsState
  <2>1. ~Captures
    BY <1>7 DEF ArmStates, Captures
  <2>2. NoneUnderWay'
    BY <1>3, <1>7, <2>1 DEF NoneUnderWay, tlsState
  <2>3. PICK s \in {"FDT_ARM", "FDT_WAIT", "RECHECK_ARM_MANUAL", "RECHECK_WAIT"} :
          /\ Enter(s)
          /\ s \in FdtStates => st \in FdtStates
          /\ s \in RecheckStates => st \in RecheckStates
    BY <1>7 DEF ArmStates, FdtStates, RecheckStates
  <2> QED
    BY <1>2, <1>3, <2>1, <2>2, <2>3, EnterSound
<1> QED
  BY <1>1, <1>4, <1>5, <1>6, <1>7

\* A packet read while an image is on its way.
LEMMA CapReadSound ==
  ASSUME SInv, IInv', inq # << >>, inq' = Tail(inq), UNCHANGED <<armed, owes, on, imaged>>,
         CapRead(Head(inq))
  PROVE  SInv'
<1>1. /\ io = "in" /\ Captures /\ UNCHANGED thresholds
      /\ MachineFails \/ EnterCapRead(FedUnread(Head(inq)), FedPartial(Head(inq)), reads + 1)
  BY DEF CapRead, Captures
<1>2. inq' \in Seq(Packets) /\ Holds(FedUnread(Head(inq))) /\ downThr' # "on"
  BY <1>1, FedIs, Outstanding DEF thresholds
<1> QED
  BY <1>1, <1>2, FailSound, CaptureSound

\* Every packet.
LEMMA ReadSound == ASSUME SInv, IInv', Read PROVE SInv'
<1>1. /\ inq # << >> /\ inq' = Tail(inq) /\ UNCHANGED <<armed, owes, on, imaged>>
      /\ ReadDone(Head(inq))
  BY DEF Read, user
<1> QED
  BY <1>1, ExchangeReadSound, FdtWaitReadSound, RecheckReadSound, CapReadSound DEF ReadDone

----------------------------------------------------------------------------
\* The driver's other steps and libfprint's calls.

\* A command reaches the EC.
LEMMA CommandSound == ASSUME SInv, IInv', Command PROVE SInv'
<1>1. /\ io = "out" /\ io' = "in" /\ TakeCommand /\ UNCHANGED <<on, imaged>>
      /\ UNCHANGED <<act, session, unread, st, mode, downThr, upThr, probe>>
  BY DEF Command, WriteDone, user, lib, tlsState, thresholds, matching
<1>2. /\ st \in ExchangeStates /\ ~Captures /\ session /\ SystemAssumption /\ inq \in Seq(Packets)
      /\ NoneUnderWay /\ mode \in {"DOWN", "UP"}
  <2>1. session /\ SystemAssumption /\ inq \in Seq(Packets) /\ OneUnderWay
    BY <1>1, Outstanding
  <2>2. st \in ExchangeStates /\ mode \in {"DOWN", "UP"}
    BY <1>1 DEF SInv, SystemTypes, IInv, TypeOK
  <2>3. ~Captures
    BY <1>1 DEF Captures, ExchangeStates, ArmStates, SInv, SystemTypes
  <2> QED
    BY <2>1, <2>2, <2>3 DEF OneUnderWay
<1>3. Ack \in Packets /\ Ack.rx # "tls" /\ ~IsEvent(Ack, "up") /\ inq' = Append(inq, Ack)
  BY <1>1 DEF Packets, Ack, IsEvent, TakeCommand, Send
<1>4. /\ inq' \in Seq(Packets) /\ NoImageIn(inq')
      /\ NoLiftIn(inq) => NoLiftIn(inq')
  <2>1. NoImageIn(inq)
    BY <1>2 DEF NoneUnderWay
  <2> QED
    BY <1>2, <1>3, <2>1, SentIs
<1>5. /\ armed' \in {"none", "DOWN", "UP"} /\ owes' \in {"none", "manual", "image"}
      /\ owes' = "image" => st = "CAP_REQUEST"
  BY <1>1, <1>2 DEF TakeCommand, ExchangeStates, ArmStates, SInv, SystemTypes, NoneUnderWay
<1>6. SystemTypes'
  BY <1>1, <1>4, <1>5 DEF SInv, SystemTypes
<1>7. Arms' /\ Fresh' = Fresh
  BY <1>1 DEF SInv, Arms, Fresh
<1>8. unread' = "none" /\ OneImageIn(inq') /\ FirstImagesIn(inq') /\ NoLiftBehind(inq')
  BY <1>1, <1>2, <1>4, NoneIsFew DEF NoneUnderWay
<1>9. OneUnderWay'
  <2>1. ~Captures' => owes' # "image"
    BY <1>1, <1>5 DEF Captures
  <2> QED
    BY <1>4, <1>8, <2>1 DEF OneUnderWay, NoneUnderWay
<1>10. Distinct'
  <2>1. act = "enroll" =>
          /\ st \notin RecheckStates /\ probe # "again"
          /\ (st \in FdtStates /\ mode = "DOWN") \/ st = "CAP_REQUEST" => Fresh
          /\ st \in FdtStates /\ mode = "UP" /\ ~Fresh => NoLiftIn(inq)
    BY <1>1 DEF SInv, Distinct
  <2> QED
    BY <1>1, <1>4, <1>5, <1>7, <1>8, <2>1 DEF Distinct
<1> QED
  BY <1>2, <1>6, <1>7, <1>9, <1>10 DEF SInv

\* A read that times out, and a wait that is cancelled.
LEMMA QuietEndSound == ASSUME SInv, IInv', TimeOut \/ CancelWait PROVE SInv'
<1>1. /\ UNCHANGED <<inq, armed, owes, on, imaged>> /\ io = "in"
      /\ ReadTimesOut \/ WaitCancelled
  BY DEF TimeOut, CancelWait, ec, user, ReadTimesOut, WaitCancelled
<1>2. inq' \in Seq(Packets) /\ downThr # "on" /\ session /\ OneUnderWay
  BY <1>1, Outstanding
<1>3. CASE MachineFails /\ UNCHANGED thresholds
  BY <1>1, <1>2, <1>3, FailSound DEF thresholds
<1>4. CASE st = "RECHECK_WAIT" /\ FingerGone
  <2>1. NoneUnderWay'
    BY <1>1, <1>2, <1>4 DEF FingerGone, tlsState, OneUnderWay, NoneUnderWay, Captures
  <2> QED
    BY <1>1, <1>2, <1>4, <2>1, FingerGoneSound
<1>5. CASE WaitCancelled
  <2>1. Complete("cancelled") /\ UNCHANGED <<tlsState, thresholds>> /\ ~Captures
    BY <1>5 DEF WaitCancelled, session_done, WaitStates, Captures
  <2>2. NoneUnderWay' /\ downThr' # "on"
    BY <1>1, <1>2, <2>1 DEF tlsState, thresholds, OneUnderWay, NoneUnderWay
  <2> QED
    BY <1>1, <1>2, <2>1, <2>2, EndSound
<1> QED
  BY <1>1, <1>3, <1>4, <1>5 DEF ReadTimesOut

\* An open and a close, a call that is refused and the start of an action: nothing runs.
LEMMA IdleSound ==
  ASSUME SInv, IInv',
         OpenAgain \/ (Call /\ ~dev_cancel) \/ \E a \in {"enroll", "verify", "identify", "capture"} : Begin(a)
  PROVE  SInv'
<1>1. IInv /\ SystemAssumption /\ downThr # "on" /\ inq \in Seq(Packets)
  BY DEF SInv, SystemTypes, Arms
<1>2. CASE OpenAgain
  <2>1. /\ session' = TRUE /\ unread' = "none" /\ inq' = << >> /\ owes' = "none"
        /\ UNCHANGED <<act, st, io, mode, downThr, upThr, probe, armed, on, imaged>> /\ ~opened
    BY <1>2 DEF OpenAgain, Open, wire, thresholds, matching, user
  <2>2. act = "none" /\ st = "none"
    BY <1>1, <2>1 DEF IInv, ActionIsDriven
  <2>3. NoneUnderWay'
    BY <2>1 DEF NoneUnderWay, NoImageIn
  <2>4. SystemTypes' /\ Arms'
    BY <2>1 DEF SInv, SystemTypes, Arms
  <2> QED
    BY <1>1, <2>1, <2>2, <2>3, <2>4, QuietSound
<1>3. CASE Call /\ ~dev_cancel
  <2>1. /\ UNCHANGED <<inq, armed, owes, on, imaged, act, st, io, mode, downThr, upThr>>
        /\ act = "none" /\ (session' => session /\ UNCHANGED unread)
    BY <1>3 DEF Call, dev_close, Refuse, RefuseTemplate, ec, user, wire, thresholds, tlsState
  <2>2. st = "none"
    BY <1>1, <2>1, Idle
  <2>3. SystemTypes' /\ Arms'
    BY <2>1 DEF SInv, SystemTypes, Arms
  <2>4. session' => NoneUnderWay'
    BY <2>1, <2>2 DEF SInv, OneUnderWay, NoneUnderWay, Captures
  <2> QED
    BY <1>1, <2>1, <2>3, <2>4, QuietSound
<1>4. CASE \E a \in {"enroll", "verify", "identify", "capture"} : Begin(a)
  <2>1. /\ act = "none" /\ session /\ st = "none" /\ start_touch /\ imaged' = FALSE
        /\ UNCHANGED <<inq, armed, owes, on, session, unread, downThr, upThr, probe>>
    BY <1>4 DEF Begin, Start, ec, tlsState, thresholds
  <2>2. st' = "FDT_ARM" /\ io' = "out" /\ mode' = "DOWN"
    BY <2>1 DEF start_touch, Run
  <2>3. SystemTypes'
    BY <2>1, <2>2 DEF SInv, SystemTypes, ExchangeStates, ArmStates
  <2>4. Arms' /\ Fresh' /\ "FDT_ARM" \notin RecheckStates
    BY <2>1, <2>2 DEF SInv, Arms, Fresh, RecheckStates
  <2>5. NoneUnderWay'
    BY <2>1 DEF SInv, OneUnderWay, NoneUnderWay, Captures
  <2>6. probe' # "again"
    BY <1>1, <2>1, Idle DEF NoImage
  <2> QED
    BY <1>1, <2>2, <2>3, <2>4, <2>5, <2>6, QuietSound
<1> QED
  BY <1>2, <1>3, <1>4

\* The flag of a cancellation changes none of it.
LEMMA CancelSound == ASSUME SInv, IInv', Call, dev_cancel PROVE SInv'
<1>1. UNCHANGED <<inq, armed, owes, on, imaged, act, session, unread, st, io, mode, downThr, upThr, probe>>
  BY DEF Call, dev_cancel, ec, user, tlsState, thresholds, matching
<1> QED
  BY <1>1 DEF SInv, SystemTypes, Arms, OneUnderWay, NoneUnderWay, Captures, Distinct, Fresh

----------------------------------------------------------------------------
\* The EC and the user.

\* The EC reports an event: a lift only when no finger is on the sensor.
LEMMA EventSound ==
  ASSUME SInv, IInv', NEW p \in Packets, p.rx # "tls", Send(p), IsEvent(p, "up") => ~on,
         armed' \in {"none", "DOWN", "UP"}, owes' \in {"none", "manual", "image"},
         owes' = "image" => owes = "image", UNCHANGED <<vars, on, imaged>>
  PROVE  SInv'
<1>1. /\ UNCHANGED <<act, session, unread, st, io, mode, downThr, upThr, probe>>
      /\ inq \in Seq(Packets) /\ inq' = Append(inq, p) /\ SystemAssumption
  BY DEF vars, lib, tlsState, wire, thresholds, matching, SInv, SystemTypes, Send
<1>2. /\ inq' \in Seq(Packets)
      /\ NoImageIn(inq) => NoImageIn(inq')
      /\ OneImageIn(inq) => OneImageIn(inq')
      /\ FirstImagesIn(inq) => FirstImagesIn(inq')
      /\ ~Fresh /\ NoLiftIn(inq) => NoLiftIn(inq')
      /\ ~Fresh /\ NoLiftBehind(inq) => NoLiftBehind(inq')
  <2>1. ~Fresh => ~IsEvent(p, "up")
    BY DEF Fresh
  <2> QED
    BY <1>1, <2>1, SentIs
<1>3. SystemTypes' /\ Arms' /\ Fresh' = Fresh /\ (Captures' <=> Captures)
  BY <1>1, <1>2 DEF SInv, SystemTypes, Arms, Fresh, Captures
<1>4. NoneUnderWay => NoneUnderWay'
  BY <1>1, <1>2 DEF NoneUnderWay
<1>5. OneUnderWay'
  BY <1>1, <1>2, <1>3, <1>4 DEF SInv, OneUnderWay
<1>6. Distinct'
  BY <1>1, <1>2, <1>3 DEF SInv, Distinct
<1> QED
  BY <1>1, <1>3, <1>5, <1>6 DEF SInv

\* The EC sends the image: a finger that was imaged before was not asked for.
LEMMA ImageAnswerSound == ASSUME SInv, IInv', Answer, owes = "image" PROVE SInv'
<1>1. /\ UNCHANGED <<act, session, unread, st, io, mode, downThr, upThr, probe, armed, on>>
      /\ inq \in Seq(Packets) /\ SystemAssumption /\ owes' = "none"
      /\ inq' = Append(inq, Image(IF ~on THEN "blank" ELSE IF imaged THEN "again" ELSE "first"))
      /\ imaged' = (imaged \/ on)
  BY DEF Answer, Send, vars, lib, tlsState, wire, thresholds, matching, SInv, SystemTypes
<1>2. PICK i \in SystemImages : inq' = Append(inq, Image(i)) /\ (i = "again" <=> ~Fresh)
  BY <1>1 DEF SystemImages, Fresh
<1>3. Image(i) \in Packets /\ Image(i).rx = "tls" /\ Image(i).rec = i /\ ~IsEvent(Image(i), "up")
  BY <1>2 DEF Packets, Image, IsEvent
<1>4. SystemTypes' /\ Arms' /\ (Captures' <=> Captures)
  <2>1. inq' \in Seq(Packets)
    BY <1>1, <1>2, <1>3, SentIs
  <2> QED
    BY <1>1, <2>1 DEF SInv, SystemTypes, Arms, Captures
<1>5. CASE session
  <2>1. Captures /\ unread = "none" /\ NoImageIn(inq)
    BY <1>5 DEF SInv, OneUnderWay, NoneUnderWay
  <2>2. FirstImagesIn(inq) /\ NoLiftBehind(inq)
    BY <2>1, NoneIsFew
  <2>3. /\ OneImageIn(inq') /\ NoLiftBehind(inq')
        /\ i # "again" => FirstImagesIn(inq')
    BY <1>1, <1>2, <1>3, <2>1, <2>2, SentIs
  <2>4. OneUnderWay'
    BY <1>1, <1>4, <2>1, <2>3 DEF OneUnderWay
  <2>5. Distinct'
    <3>1. act = "enroll" => Fresh /\ st \notin RecheckStates /\ probe # "again"
      BY DEF SInv, Distinct
    <3>2. st \notin FdtStates /\ ~(st = "CAP_REQUEST" /\ io = "out")
      BY <2>1 DEF Captures, FdtStates
    <3> QED
      BY <1>1, <1>2, <2>1, <2>3, <3>1, <3>2 DEF Distinct
  <2> QED
    BY <1>1, <1>4, <2>4, <2>5 DEF SInv
<1>6. CASE ~session
  <2>1. act # "enroll"
    BY <1>6 DEF SInv, IInv, ActionIsDriven
  <2> QED
    BY <1>1, <1>4, <1>6, <2>1 DEF SInv, OneUnderWay, Distinct
<1> QED
  BY <1>5, <1>6

\* The EC's steps.
LEMMA ECSound == ASSUME SInv, IInv', Fire \/ BaseIsInvalid \/ Answer PROVE SInv'
<1>1. /\ armed \in {"none", "DOWN", "UP"} /\ owes \in {"none", "manual", "image"}
  BY DEF SInv, SystemTypes
<1>2. ASSUME NEW e \in {"down", "up", "base", "manual_on", "manual_off"},
             NEW z \in {"on", "off", "zero"}, Event(e, z) \in Packets,
             Send(Event(e, z)), e = "up" => ~on,
             armed' \in {"none", "DOWN", "UP"}, owes' \in {"none", "manual", "image"},
             owes' = "image" => owes = "image", UNCHANGED <<vars, on, imaged>>
      PROVE  SInv'
  <2>1. Event(e, z).rx # "tls" /\ (IsEvent(Event(e, z), "up") => ~on)
    BY <1>2 DEF Event, IsEvent
  <2> QED
    BY <1>2, <2>1, EventSound
<1>3. CASE Fire
  <2>1. /\ armed' = "none" /\ UNCHANGED <<owes, vars, on, imaged>>
        /\ Send(Event("down", "on")) \/ (~on /\ Send(Event("up", "off")))
    BY <1>3 DEF Fire, user
  <2> QED
    BY <1>1, <1>2, <2>1 DEF Packets
<1>4. CASE BaseIsInvalid
  <2>1. /\ armed' = "none" /\ UNCHANGED <<owes, vars, on, imaged>>
        /\ Send(Event("base", "off")) \/ Send(Event("base", "zero"))
    BY <1>4 DEF BaseIsInvalid, user
  <2> QED
    BY <1>1, <1>2, <2>1 DEF Packets
<1>5. CASE Answer /\ owes # "image"
  <2>1. /\ owes' = "none" /\ UNCHANGED <<armed, vars, on>>
        /\ imaged' = (imaged \/ FALSE)
        /\ Send(Event("manual_on", "on")) \/ Send(Event("manual_off", "off"))
    BY <1>5 DEF Answer
  <2>2. imaged' = imaged
    BY <2>1 DEF SInv, SystemTypes
  <2> QED
    BY <1>1, <1>2, <2>1, <2>2 DEF Packets
<1> QED
  BY <1>3, <1>4, <1>5, ImageAnswerSound

\* A new placement was not imaged, and nothing is on the sensor after a lift.
LEMMA UserSound == ASSUME SInv, IInv', Touch \/ Lift PROVE SInv'
<1>1. /\ UNCHANGED <<inq, armed, owes, act, session, unread, st, io, mode, downThr, upThr, probe>>
      /\ on' \in BOOLEAN /\ imaged' \in BOOLEAN /\ Fresh'
  BY DEF Touch, Lift, vars, lib, tlsState, wire, thresholds, matching, ec, Fresh, SInv, SystemTypes
<1> QED
  BY <1>1 DEF SInv, SystemTypes, Arms, OneUnderWay, NoneUnderWay, Captures, Distinct

----------------------------------------------------------------------------
\* The initial state has nothing under way.
LEMMA SystemInitSound == SystemAssumption /\ SystemInit => SInv
<1> SUFFICES ASSUME SystemAssumption, SystemInit PROVE SInv
  OBVIOUS
<1>1. /\ IInv /\ act = "none" /\ st = "none" /\ io = "none" /\ session = FALSE /\ downThr = "init"
      /\ inq = << >> /\ armed = "none" /\ owes = "none" /\ on = FALSE /\ imaged = FALSE
  BY InitInvariant DEF SystemInit, Init, SystemAssumption
<1>2. SystemTypes
  <2>1. << >> \in Seq(Packets)
    OBVIOUS
  <2> QED
    BY <1>1, <2>1 DEF SystemTypes
<1>3. Arms
  BY <1>1 DEF Arms, RecheckStates, FdtStates
<1>4. OneUnderWay /\ Distinct
  BY <1>1 DEF OneUnderWay, Distinct
<1> QED
  BY <1>1, <1>2, <1>3, <1>4 DEF SInv

\* Every step of the system preserves the invariant.
LEMMA SystemStepSound == SInv /\ [SystemNext]_systemVars => SInv'
<1> SUFFICES ASSUME SInv, [SystemNext]_systemVars PROVE SInv'
  OBVIOUS
<1>1. IInv'
  BY DriverStep
<1>2. CASE UNCHANGED systemVars
  <2>1. UNCHANGED <<inq, armed, owes, on, imaged, act, session, unread, st, io, mode, downThr, upThr, probe>>
    BY <1>2 DEF systemVars, vars, lib, tlsState, wire, thresholds, matching, ec, user
  <2> QED
    BY <1>1, <2>1 DEF SInv, SystemTypes, Arms, OneUnderWay, NoneUnderWay, Captures, Distinct, Fresh
<1> QED
  BY <1>1, <1>2, ECSound, UserSound, CommandSound, ReadSound, QuietEndSound, IdleSound, CancelSound
     DEF SystemNext

\* The strengthening holds in every reachable state of the system.
THEOREM TouchSystemInvariant == SystemAssumption /\ SystemSpec => []SInv
BY SystemInitSound, SystemStepSound, PTL DEF SystemSpec

\* The views of one enrollment are of different placements of the finger.
THEOREM TouchViewsAreOfDistinctPlacements ==
  SystemAssumption /\ SystemSpec => []ViewsAreOfDistinctPlacements
<1>1. SInv => ViewsAreOfDistinctPlacements
  BY DEF SInv, IInv, NoResidue, TypeOK, Distinct, ViewsAreOfDistinctPlacements
<1> QED
  BY <1>1, TouchSystemInvariant, PTL

\* An arm is made from the readings of the finger it does not wait for.
THEOREM TouchArmsFromTheRightReadings ==
  SystemAssumption /\ SystemSpec => []ArmsFromTheRightReadings
<1>1. SInv => ArmsFromTheRightReadings
  BY DEF SInv, Arms, RecheckStates, FdtStates, ArmsFromTheRightReadings
<1> QED
  BY <1>1, TouchSystemInvariant, PTL

\* An image is never taken for a later one.
THEOREM TouchOneImageAtATime == SystemAssumption /\ SystemSpec => []OneImageAtATime
<1>1. ASSUME SInv, st = "CAP_REQUEST", io = "out"
      PROVE  unread = "none" /\ owes # "image" /\ \A i \in DOMAIN inq : inq[i].rx # "tls"
  <2>1. NoneUnderWay /\ DOMAIN inq = 1 .. Len(inq)
    BY <1>1, Outstanding DEF OneUnderWay, Captures
  <2> QED
    BY <2>1 DEF NoneUnderWay, NoImageIn
<1>2. SInv => OneImageAtATime
  BY <1>1 DEF OneImageAtATime
<1> QED
  BY <1>2, TouchSystemInvariant, PTL
=============================================================================
