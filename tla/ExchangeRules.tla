---------------------------- MODULE ExchangeRules ----------------------------
(***************************************************************************)
(* How one command exchange of the C driver (goodix5120.c, "One command    *)
(* exchange") judges each completion of its outstanding USB read.  These   *)
(* are constant-level rules: the modules that run exchanges (Exchange,     *)
(* OpenDevice, TouchLoop) keep the exchange in a variable of their own and *)
(* apply the same rules to it, as the driver applies xchg_recv_cb to every *)
(* exchange.                                                               *)
(*                                                                         *)
(* A transfer is reduced to what rx_classify makes of it: the frame, its   *)
(* checksums and its payload bytes are abstracted to their verdict.        *)
(***************************************************************************)
EXTENDS Integers

CONSTANTS MaxReads,      \* G5120_MAX_READS_PER_STEP: reads for one command
          MaxDrainReads  \* G5120_MAX_DRAIN_READS: reads of one drain

ASSUME ReadLimits == /\ MaxReads \in Nat \ {0}
                     /\ MaxDrainReads \in Nat \ {0}

\* The replies an exchange waits for.  {} is G5120_REPLY_NONE.
Reply == SUBSET {"ACK", "DATA", "TLS"}

\* "no": not a listen; "open": x_listen_until lies ahead; "over": it has passed.
Listen == {"no", "open", "over"}

Exchanges ==
  [send : BOOLEAN, reply : Reply, listen : Listen,
   gotAck : BOOLEAN, gotTls : BOOLEAN, reads : Nat]

\* Every field is set before the machine starts.
begin_exchange(send, reply, listen) ==
  [send |-> send, reply |-> reply, listen |-> listen,
   gotAck |-> FALSE, gotTls |-> FALSE, reads |-> 0]

start_exchange(reply) == begin_exchange(TRUE, reply, "no")
start_drain == begin_exchange(FALSE, {}, "no")
start_listen == begin_exchange(FALSE, {}, "open")

(***************************************************************************)
(* What rx_classify and the checks behind it say of a transfer, relative   *)
(* to the command waited on: "ack" has status 1 and "nack" any other;      *)
(* "data" passes validate_data_reply and "baddata" does not; the TLS       *)
(* server accepts the bytes of a "tls" pack and rejects those of "badtls"; *)
(* "fdt" is a finger event of any kind; "noise" is everything else (empty, *)
(* undecodable, unknown flags, an ACK or a reply for another command).     *)
(***************************************************************************)
RxKinds == {"ack", "nack", "data", "baddata", "tls", "badtls", "fdt", "noise"}

IsData(k) == k \in {"data", "baddata"}
IsTls(k) == k \in {"tls", "badtls"}

WantsData(x) == x.send /\ "DATA" \in x.reply
\* The code also asks for self->tls, which exists while a machine runs: OPEN_PREPARE
\* makes it first of all, and only the end of a machine or a close frees it.
WantsTls(x) == x.send /\ "TLS" \in x.reply

\* 0xd0 is not read here: the handshake machine reads its answer.
NothingToRead(x) == x.reply = {"TLS"} \/ x.listen = "over"

\* Mutants of Refuses: the status of the ACK, its coming first, or the listening
\* window is not looked at.
RefusesNoStatus(x, k) ==
  \/ WantsData(x) /\ IsData(k) /\ "ACK" \in x.reply /\ ~x.gotAck
  \/ WantsData(x) /\ k = "baddata"
  \/ WantsTls(x) /\ k = "badtls"
  \/ ~WantsTls(x) /\ IsTls(k) /\ x.listen # "no"

RefusesNoOrder(x, k) ==
  \/ x.send /\ k = "nack"
  \/ WantsData(x) /\ k = "baddata"
  \/ WantsTls(x) /\ k = "badtls"
  \/ ~WantsTls(x) /\ IsTls(k) /\ x.listen # "no"

RefusesNoListen(x, k) ==
  \/ x.send /\ k = "nack"
  \/ WantsData(x) /\ IsData(k) /\ "ACK" \in x.reply /\ ~x.gotAck
  \/ WantsData(x) /\ k = "baddata"
  \/ WantsTls(x) /\ k = "badtls"

\* The transfer ends the exchange with an error.
Refuses(x, k) ==
  \/ x.send /\ k = "nack"
  \/ WantsData(x) /\ IsData(k) /\ "ACK" \in x.reply /\ ~x.gotAck
  \/ WantsData(x) /\ k = "baddata"
  \/ WantsTls(x) /\ k = "badtls"
  \/ ~WantsTls(x) /\ IsTls(k) /\ x.listen # "no"

\* The transfer is the last one the exchange waits for.
Satisfies(x, k) ==
  \/ /\ x.send /\ k = "ack"
     /\ "DATA" \notin x.reply
     /\ "TLS" \in x.reply => x.gotTls
  \/ WantsData(x) /\ k = "data" /\ ("ACK" \in x.reply => x.gotAck)
  \/ WantsTls(x) /\ k = "tls" /\ x.gotAck

ReadLimit(x) == IF x.send THEN MaxReads ELSE MaxDrainReads
LastRead(x) == x.reads + 1 >= ReadLimit(x)

\* xchg_recv_cb on a transfer: "ok", "failed" or "more".  A drain, and 0x96, move on at the limit.
Received(x, k) ==
  IF Refuses(x, k) THEN "failed"
  ELSE IF Satisfies(x, k) THEN "ok"
  ELSE IF ~LastRead(x) THEN "more"
  ELSE IF x.reply = {} THEN "ok" ELSE "failed"

\* Mutants of TimedOut: a missing reply is moved past like the quiet of a drain, or
\* waited for again.
TimedOutMovesOn(x) == IF x.listen = "open" THEN "more" ELSE "ok"
TimedOutWaits(x) == IF x.reply # {} \/ x.listen = "open" THEN "more" ELSE "ok"

\* xchg_recv_cb on a read that timed out: a reply that does not come stops everything.
TimedOut(x) ==
  IF x.reply # {} THEN "failed" ELSE IF x.listen = "open" THEN "more" ELSE "ok"

\* Mutant of Noted: reads are counted down.
NotedCountsDown(x, k) ==
  [x EXCEPT !.gotAck = @ \/ (x.send /\ k = "ack"), !.gotTls = @ \/ (WantsTls(x) /\ k = "tls"),
            !.reads = @ - 1]

\* What the exchange remembers of a transfer that did not end it.
Noted(x, k) ==
  [x EXCEPT !.gotAck = @ \/ (x.send /\ k = "ack"),
            !.gotTls = @ \/ (WantsTls(x) /\ k = "tls"),
            !.reads = @ + 1]
=============================================================================
