------------------------------ MODULE OpenDevice ------------------------------
(***************************************************************************)
(* Opening and closing the device (goodix5120.c: open_run_state and the    *)
(* handshake machine hs_run_state it starts), against an EC that may       *)
(* deliver any transfer at any time.                                       *)
(*                                                                         *)
(* As in TouchLoop an action is one whole callback, through every state    *)
(* that submits nothing.  TLS is reduced to whole records counted on the   *)
(* server: the EC sends ClientHello, then ClientKeyExchange, ChangeCipher- *)
(* Spec and Finished; the host answers each flight with two records.       *)
(***************************************************************************)
EXTENDS ExchangeRules, Sequences

VARIABLES
  phase,          \* what libfprint sees: "closed", "opening", "open"
  claimed,        \* interface_claimed
  cleanupFailed,  \* interface_cleanup_failed
  sessionValid,   \* session_valid
  os, init_idx,   \* the state of the open machine; 1 is the first init step
  hs,             \* the state of the handshake machine
  io,             \* the outstanding transfer: "none", "out", "in"
  x,              \* the running exchange
  tls,            \* the TLS server
  gap,            \* hs_pace_deadline lies ahead ("open") or has passed ("over")
  budget,         \* the same of hs_deadline
  rested          \* history: no host record was written within the pacing interval

device == <<phase, claimed, cleanupFailed, sessionValid>>
machine == <<os, init_idx, hs, io, x>>
handshake == <<tls, gap, budget, rested>>
vars == <<device, machine, handshake>>

\* vendor_init_pre_tls: the replies of 96 a8 ae e4 a2 82 a6 a2 70 98 90.
AckData == {"ACK", "DATA"}
vendor_init_pre_tls ==
  <<[cmd |-> "96", reply |-> {}], [cmd |-> "a8", reply |-> AckData],
    [cmd |-> "ae", reply |-> {"DATA"}], [cmd |-> "e4", reply |-> AckData],
    [cmd |-> "a2", reply |-> AckData], [cmd |-> "82", reply |-> AckData],
    [cmd |-> "a6", reply |-> AckData], [cmd |-> "a2", reply |-> AckData],
    [cmd |-> "70", reply |-> {"ACK"}], [cmd |-> "98", reply |-> AckData],
    [cmd |-> "90", reply |-> AckData]>>

\* The exchange each state of the open machine starts.
OpenExchange(s, i) ==
  CASE s \in {"DRAIN", "DRAIN_AFTER_HEALTH", "INIT_DRAIN", "DRAIN_FINAL"} -> start_drain
    [] s = "HEALTH" -> start_exchange(AckData)
    [] s = "INIT_STEP" -> start_exchange(vendor_init_pre_tls[i].reply)
    [] s = "REQUEST_TLS" -> start_exchange({"TLS"})
    [] s = "TLS_ESTABLISHED" -> start_exchange({"ACK"})
    [] s = "LISTEN_AFTER_D4" -> start_listen
    [] s = "MCU_STATE" -> start_exchange({"DATA"})

OpenStates == {"DRAIN", "HEALTH", "DRAIN_AFTER_HEALTH", "INIT_STEP", "INIT_DRAIN", "REQUEST_TLS",
               "HANDSHAKE", "TLS_ESTABLISHED", "LISTEN_AFTER_D4", "MCU_STATE", "DRAIN_FINAL"}
HandshakeStates == {"HS_READ", "HS_WRITE", "HS_PACE", "HS_SETTLE"}
NoExchange == begin_exchange(FALSE, {}, "no")

\* No server, or the records it took, whether it holds a partial one, the
\* records it has to send, hs_done, and whole records it took after that.
NoTls == [live |-> FALSE, fed |-> 0, partial |-> FALSE, out |-> 0, done |-> FALSE, extra |-> FALSE]
NewTls == [NoTls EXCEPT !.live = TRUE]

Transfers ==
  [rx : RxKinds \ {"tls"}]
    \cup ([rx : {"tls"}, whole : 0 .. 2, part : BOOLEAN] \ {[rx |-> "tls", whole |-> 0, part |-> FALSE]})

\* g5120_tls_feed and g5120_tls_handshake on a transfer the server accepts: each
\* flight that is complete draws two records, the last one ends the handshake.
FlightEnds == {1, 4}
Fed(s, t) ==
  LET taken == IF s.fed + t.whole < 4 THEN s.fed + t.whole ELSE 4
      done == taken = 4
  IN [s EXCEPT !.fed = taken, !.partial = t.part, !.done = done,
               !.extra = @ \/ s.fed + t.whole > 4,
               !.out = @ + (IF \E n \in FlightEnds : s.fed < n /\ n <= taken THEN 2 ELSE 0)]

(***************************************************************************)
(* How the open machine goes on.  Every step below leaves rested alone.    *)
(***************************************************************************)
Begin(s, i) ==
  /\ os' = s /\ init_idx' = i /\ hs' = "none"
  /\ x' = OpenExchange(s, i)
  /\ io' = IF OpenExchange(s, i).send THEN "out" ELSE "in"

Stopped ==
  /\ os' = "none" /\ init_idx' = 1 /\ hs' = "none" /\ io' = "none" /\ x' = NoExchange

\* Mutant of release_interface: the claim is kept.
release_interface_not == UNCHANGED <<claimed, cleanupFailed>>

\* A failure to release is remembered, and nothing is claimed after it.
release_interface ==
  /\ claimed' = FALSE
  /\ cleanupFailed' \in IF claimed THEN {cleanupFailed, TRUE} ELSE {cleanupFailed}

\* open_done
OpenFails ==
  /\ phase' = "closed" /\ sessionValid' = FALSE
  /\ release_interface
  /\ tls' = NoTls /\ gap' = "over" /\ budget' = "over"
  /\ Stopped

OpenSucceeds ==
  /\ phase' = "open" /\ sessionValid' = TRUE
  /\ UNCHANGED <<claimed, cleanupFailed, tls, gap, budget>>
  /\ Stopped

\* A state of the handshake machine that submits a transfer.
Submit(h, s, g) ==
  /\ os' = "HANDSHAKE" /\ hs' = h /\ x' = NoExchange
  /\ io' = IF h = "HS_WRITE" THEN "out" ELSE "in"
  /\ tls' = s /\ gap' = g
  /\ UNCHANGED <<device, init_idx, budget>>

\* Mutants of HS_WRITE: it sends without a record, or ends with one unsent.
HS_WRITE_blind(s, g) ==
  IF s.done /\ s.out = 0 THEN Submit("HS_SETTLE", s, "open")
  ELSE Submit("HS_WRITE", [s EXCEPT !.out = @ - 1], g)

HS_WRITE_early(s, g) ==
  \/ s.out > 0 /\ ~s.done /\ Submit("HS_WRITE", [s EXCEPT !.out = @ - 1], g)
  \/ s.done /\ Submit("HS_SETTLE", s, "open")
  \/ s.out = 0 /\ ~s.done /\ Submit("HS_READ", s, g)

HS_WRITE(s, g) ==
  \/ s.out > 0 /\ Submit("HS_WRITE", [s EXCEPT !.out = @ - 1], g)
  \/ s.out = 0 /\ s.done /\ Submit("HS_SETTLE", s, "open")
  \/ s.out = 0 /\ ~s.done /\ Submit("HS_READ", s, g)

\* Mutant of Due: a partial record does not hold up the output.
DueByTime(s, g) == g = "over"

\* The interval is over and no record is half read.
Due(s, g) == g = "over" /\ ~s.partial

\* Mutant of OutOfTime: the budget is not looked at.
OutOfTimeNever == FALSE

OutOfTime == budget = "over"

\* hs_run_state at h, with server s and pacing deadline g: the budget is checked
\* first, and a partial record is read to its end before anything is written.
Enter(h, s, g) ==
  \/ OutOfTime /\ OpenFails
  \/ ~OutOfTime /\ h = "HS_READ" /\ Submit(h, s, g)
  \/ ~OutOfTime /\ h \in {"HS_PACE", "HS_SETTLE"} /\ ~Due(s, g) /\ Submit(h, s, g)
  \/ ~OutOfTime /\ (h = "HS_WRITE" \/ (h = "HS_PACE" /\ Due(s, g))) /\ HS_WRITE(s, g)
  \/ /\ ~OutOfTime /\ h = "HS_SETTLE" /\ Due(s, g)
     /\ Begin("TLS_ESTABLISHED", init_idx)
     /\ tls' = s /\ gap' = g /\ UNCHANGED <<device, budget>>

\* The state after one whose exchange is over.
Following == [DRAIN |-> "HEALTH", HEALTH |-> "DRAIN_AFTER_HEALTH",
              DRAIN_AFTER_HEALTH |-> "INIT_STEP", INIT_STEP |-> "INIT_DRAIN",
              TLS_ESTABLISHED |-> "LISTEN_AFTER_D4", LISTEN_AFTER_D4 |-> "MCU_STATE"]

NextState ==
  \/ /\ os \in DOMAIN Following
     /\ Begin(Following[os], init_idx)
     /\ UNCHANGED <<device, tls, gap, budget>>
  \/ \* OPEN_INIT_NEXT
     /\ os = "INIT_DRAIN" /\ init_idx < Len(vendor_init_pre_tls)
     /\ Begin("INIT_STEP", init_idx + 1)
     /\ UNCHANGED <<device, tls, gap, budget>>
  \/ /\ os = "INIT_DRAIN" /\ init_idx = Len(vendor_init_pre_tls)
     /\ Begin("REQUEST_TLS", init_idx)
     /\ budget' = "open"
     /\ UNCHANGED <<device, tls, gap>>
  \/ \* OPEN_LOG_MCU_STATE takes the status bit set or a status of 0x00.
     /\ os = "MCU_STATE"
     /\ Begin("DRAIN_FINAL", init_idx)
     /\ UNCHANGED <<device, tls, gap, budget>>
  \/ os = "MCU_STATE" /\ OpenFails
  \/ os = "DRAIN_FINAL" /\ OpenSucceeds

(***************************************************************************)
(* Callbacks.                                                              *)
(***************************************************************************)
\* 0xd0 is over once it is written: the handshake machine reads its answer.
ExchangeWritten ==
  /\ os # "HANDSHAKE" /\ io = "out"
  /\ IF NothingToRead(x) THEN Enter("HS_READ", tls, gap)
     ELSE io' = "in" /\ UNCHANGED <<device, os, init_idx, hs, x, tls, gap, budget>>
  /\ UNCHANGED rested

\* A verdict on the exchange, which has become y; the deadline of a listen is
\* looked at before each read.
Conclude(v, y) ==
  \/ v = "failed" /\ OpenFails
  \/ (v = "ok" \/ (v = "more" /\ NothingToRead(y))) /\ NextState
  \/ /\ v = "more" /\ ~NothingToRead(y)
     /\ x' = y
     /\ UNCHANGED <<device, os, init_idx, hs, io, tls, gap, budget>>

ExchangeRead(t) ==
  /\ os # "HANDSHAKE" /\ io = "in"
  /\ Conclude(Received(x, t.rx), Noted(x, t.rx))
  /\ UNCHANGED rested

\* Mutant of RecordWritten: the next record follows at once.
RecordWrittenUnpaced ==
  /\ os = "HANDSHAKE" /\ io = "out"
  /\ rested' = FALSE
  /\ Enter("HS_WRITE", tls, gap)

\* hs_write_cb: every pair of host records is paced.
RecordWritten ==
  /\ os = "HANDSHAKE" /\ io = "out"
  /\ rested' = FALSE
  /\ IF tls.out > 0 THEN Enter("HS_PACE", tls, "open") ELSE Enter("HS_WRITE", tls, gap)

\* hs_receive before the handshake is done (the EC's second flight answers the
\* whole of the host's first, or the server rejects it), and after it: hs_settle_check reads
\* the record, which fails unless it is one that carries nothing.
FlightRead(t) ==
  LET s == Fed(tls, t)
  IN /\ ~tls.done /\ t.rx = "tls"
     /\ s.fed > 1 => tls.fed > 0 /\ tls.out = 0
     /\ Enter(IF hs = "HS_PACE" THEN hs ELSE IF s.partial THEN "HS_READ" ELSE "HS_WRITE", s, gap)
     /\ rested' = (rested \/ hs = "HS_READ")

LateRecord(t) ==
  /\ tls.done /\ t.rx = "tls"
  /\ \/ /\ t.part
        /\ Enter(hs, [tls EXCEPT !.partial = TRUE, !.extra = @ \/ t.whole > 0], gap)
     \/ ~t.part /\ OpenFails
     \/ ~t.part /\ ~tls.extra /\ t.whole = 1 /\ Enter(hs, [tls EXCEPT !.partial = FALSE], gap)
  /\ UNCHANGED rested

HandshakeRead(t) ==
  /\ os = "HANDSHAKE" /\ io = "in"
  /\ \/ FlightRead(t)
     \/ LateRecord(t)
     \/ t.rx = "badtls" /\ OpenFails /\ UNCHANGED rested
     \/ ~IsTls(t.rx) /\ Enter(hs, tls, gap) /\ UNCHANGED rested

ReadDone(t) == ExchangeRead(t) \/ HandshakeRead(t)
WriteDone == ExchangeWritten \/ RecordWritten

ReadTimesOut ==
  /\ io = "in"
  /\ IF os = "HANDSHAKE" THEN Enter(hs, tls, gap) ELSE Conclude(TimedOut(x), x)
  /\ UNCHANGED rested

\* A write or a read that fails otherwise; part of the frame may have gone out.
TransferFails == io # "none" /\ OpenFails /\ UNCHANGED rested

(***************************************************************************)
(* Time.                                                                   *)
(***************************************************************************)
ListenExpires ==
  /\ x.listen = "open"
  /\ x' = [x EXCEPT !.listen = "over"]
  /\ UNCHANGED <<device, os, init_idx, hs, io, handshake>>

PaceExpires ==
  /\ os = "HANDSHAKE" /\ gap = "open"
  /\ gap' = "over" /\ rested' = TRUE
  /\ UNCHANGED <<device, machine, tls, budget>>

BudgetExpires ==
  /\ os \in {"REQUEST_TLS", "HANDSHAKE"} /\ budget = "open"
  /\ budget' = "over"
  /\ UNCHANGED <<device, machine, tls, gap, rested>>

(***************************************************************************)
(* libfprint's calls.  A cancellation finds no session machine to stop.    *)
(***************************************************************************)
\* dev_open through OPEN_PREPARE, OPEN_CLAIM and the start of the first drain.
dev_open ==
  /\ phase = "closed"
  /\ ~cleanupFailed
  /\ phase' = "opening" /\ sessionValid' = FALSE
  /\ claimed' = TRUE
  /\ tls' = NewTls /\ gap' = "over" /\ budget' = "over" /\ rested' = TRUE
  /\ Begin("DRAIN", 1)
  /\ UNCHANGED cleanupFailed

\* No PSK, no TLS server, no interface, or one that was not given back before.
OpenRefused ==
  /\ phase = "closed"
  /\ sessionValid' = FALSE /\ tls' = NoTls
  /\ UNCHANGED <<phase, claimed, cleanupFailed, machine, gap, budget, rested>>

dev_close ==
  /\ phase = "open"
  /\ phase' = "closed" /\ sessionValid' = FALSE
  /\ release_interface
  /\ tls' = NoTls
  /\ UNCHANGED <<machine, gap, budget, rested>>

----------------------------------------------------------------------------
Init ==
  /\ phase = "closed" /\ claimed = FALSE /\ cleanupFailed = FALSE /\ sessionValid = FALSE
  /\ os = "none" /\ init_idx = 1 /\ hs = "none" /\ io = "none" /\ x = NoExchange
  /\ tls = NoTls /\ gap = "over" /\ budget = "over" /\ rested = TRUE

Completion ==
  \/ WriteDone \/ ReadTimesOut \/ TransferFails
  \/ \E t \in Transfers : ReadDone(t)

Time == ListenExpires \/ PaceExpires \/ BudgetExpires

Next == dev_open \/ OpenRefused \/ dev_close \/ Completion \/ Time

Spec == Init /\ [][Next]_vars

\* Writes complete, reads complete though the EC sends nothing, and time passes.
FairSpec ==
  /\ Spec
  /\ WF_vars(WriteDone) /\ WF_vars(ReadTimesOut)
  /\ WF_vars(ListenExpires) /\ WF_vars(PaceExpires) /\ WF_vars(BudgetExpires)

----------------------------------------------------------------------------
TypeOK ==
  /\ phase \in {"closed", "opening", "open"}
  /\ claimed \in BOOLEAN /\ cleanupFailed \in BOOLEAN /\ sessionValid \in BOOLEAN
  /\ os \in OpenStates \cup {"none"} /\ init_idx \in 1 .. Len(vendor_init_pre_tls)
  /\ hs \in HandshakeStates \cup {"none"}
  /\ io \in {"none", "out", "in"}
  /\ x \in Exchanges
  /\ tls \in [live : BOOLEAN, fed : 0 .. 4, partial : BOOLEAN, out : 0 .. 2, done : BOOLEAN,
              extra : BOOLEAN]
  /\ gap \in {"open", "over"} /\ budget \in {"open", "over"} /\ rested \in BOOLEAN

\* "Every pair of host records is paced" (hs_write_cb), Finished and 0xd4 too:
\* the C runs that failed had two host writes within a millisecond.
HostRecordsArePaced ==
  io = "out" /\ (hs = "HS_WRITE" \/ os = "TLS_ESTABLISHED") => rested

\* "Complete a fragmented incoming record before output" (hs_receive): no record
\* is sent, and the EC not told of the session, with half of one of its records read.
NoOutputInsideARecord ==
  io = "out" /\ (hs = "HS_WRITE" \/ os = "TLS_ESTABLISHED") => ~tls.partial

\* The device is activated, and its session usable, only behind a handshake that
\* ended on both sides: the EC's Finished was taken and every host record sent.
SessionIsEarned ==
  sessionValid \/ os \in {"TLS_ESTABLISHED", "LISTEN_AFTER_D4", "MCU_STATE", "DRAIN_FINAL"} =>
    tls.live /\ tls.fed = 4 /\ tls.out = 0 /\ claimed

\* An open that fails, at any step, leaves nothing claimed or half made; after an
\* interface that could not be given back nothing is claimed again on this object.
FailureLeavesNothing ==
  /\ phase = "closed" => ~claimed /\ ~sessionValid /\ ~tls.live /\ io = "none"
  /\ cleanupFailed => ~claimed

\* An open ends, whatever the EC sends and however slowly.
OpenEnds == phase = "opening" ~> phase # "opening"

\* hs_settle_check: "After the handshake, any complete record from the EC is
\* processed now: an alert fails, and application data before 0xd4 has no place
\* in the protocol."
RecordsAreProcessedBeforeD4 == os = "TLS_ESTABLISHED" => ~tls.extra
=============================================================================
