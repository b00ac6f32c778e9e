------------------------------- MODULE Exchange -------------------------------
(***************************************************************************)
(* The exchange machine on its own (XCHG_SEND, XCHG_RECV), against an EC   *)
(* that may answer anything: each contract the driver uses, every order of *)
(* transfers, timeouts and USB errors.  heard and last are history: what   *)
(* the exchange has read.                                                  *)
(***************************************************************************)
EXTENDS ExchangeRules, FiniteSets

VARIABLES pc,     \* where the machine is; "ok" and "failed" are its two ends
          x,      \* the x_* fields of the device
          heard,  \* the kinds of transfer read by this exchange
          last    \* the last of them, or "quiet" after a read that timed out

vars == <<pc, x, heard, last>>

\* The exchanges the driver starts: the init steps, 0xd4, 0xae, 0x20, the FDT
\* arms, the drains and the listen after 0xd4.
Contracts ==
  {start_exchange(r) : r \in {{}, {"ACK"}, {"DATA"}, {"ACK", "DATA"}, {"TLS"}, {"ACK", "TLS"}}}
    \cup {start_drain, start_listen}

TypeOK ==
  /\ pc \in {"idle", "sending", "reading", "ok", "failed"}
  /\ x \in Exchanges
  /\ heard \in SUBSET RxKinds
  /\ last \in RxKinds \cup {"none", "quiet"}

Init ==
  /\ pc = "idle"
  /\ x = start_drain
  /\ heard = {}
  /\ last = "none"

\* XCHG_RECV is entered: a read is submitted unless there is nothing to read.
EnterRecv(y) == pc' = IF NothingToRead(y) THEN "ok" ELSE "reading"

\* begin_exchange and XCHG_SEND: a drain or a listen sends nothing.
Begin ==
  /\ pc \in {"idle", "ok", "failed"}
  /\ \E y \in Contracts :
       /\ x' = y
       /\ IF y.send THEN pc' = "sending" ELSE EnterRecv(y)
  /\ heard' = {} /\ last' = "none"

\* The send gate refuses the frame, or its write fails or is cut short.
SendFails == pc = "sending" /\ pc' = "failed" /\ UNCHANGED <<x, heard, last>>

SendDone == pc = "sending" /\ EnterRecv(x) /\ UNCHANGED <<x, heard, last>>

\* A completed read, or one that timed out, with its verdict v: the read is
\* submitted again if there is more to come.
Conclude(v, y) ==
  /\ x' = y
  /\ IF v = "more" THEN EnterRecv(y) ELSE pc' = v

Receive ==
  /\ pc = "reading"
  /\ \E k \in RxKinds :
       /\ Conclude(Received(x, k), Noted(x, k))
       /\ heard' = heard \cup {k}
       /\ last' = k

ReadTimesOut ==
  /\ pc = "reading"
  /\ Conclude(TimedOut(x), x)
  /\ last' = "quiet"
  /\ UNCHANGED heard

\* Any other USB error, an unplugged device among them.
ReadFails == pc = "reading" /\ pc' = "failed" /\ UNCHANGED <<x, heard, last>>

\* Time passes x_listen_until.
ListenExpires ==
  /\ x.listen = "open" /\ pc = "reading"
  /\ x' = [x EXCEPT !.listen = "over"]
  /\ UNCHANGED <<pc, heard, last>>

Next ==
  \/ Begin \/ SendFails \/ SendDone \/ Receive \/ ReadTimesOut \/ ReadFails \/ ListenExpires

Spec == Init /\ [][Next]_vars

(***************************************************************************)
(* libusb completes a write, and a read though the EC stays silent; time   *)
(* passes.  Nothing makes the driver begin an exchange.                    *)
(***************************************************************************)
FairSpec ==
  /\ Spec
  /\ WF_vars(SendFails \/ SendDone)
  /\ WF_vars(ReadTimesOut)
  /\ WF_vars(ListenExpires)

----------------------------------------------------------------------------
\* An exchange that succeeds has had every reply its command draws, the ACK
\* before the data, and has never been refused by the EC ("A reply that does
\* not come stops everything"; only 0xd0, read by the handshake, and 0x96,
\* which draws nothing, succeed unanswered).
Contract ==
  /\ pc = "ok" /\ x.send /\ x.reply # {"TLS"} =>
       /\ "ACK" \in x.reply => "ack" \in heard
       /\ "DATA" \in x.reply => last = "data"
       /\ "TLS" \in x.reply => "tls" \in heard
  /\ x.send /\ "nack" \in heard => pc = "failed"

\* No transfer is judged before the one it depends on: what the exchange
\* remembers is what it has read, so a data reply is never taken with the
\* ACK's status unchecked.
MemoryIsFaithful ==
  pc = "reading" =>
    /\ x.gotAck => "ack" \in heard
    /\ x.send /\ "ack" \in heard => x.gotAck
    /\ x.gotTls => "tls" \in heard
    /\ WantsData(x) /\ "ACK" \in x.reply /\ ~x.gotAck => ~(heard \cap {"data", "baddata"} # {})

\* In the listening window no TLS record of the EC is dropped: dropping one
\* would desynchronise the record sequence numbers of the session.
NoRecordLostWhileListening ==
  x.listen # "no" /\ (\E k \in heard : IsTls(k)) => pc = "failed"

\* An exchange ends whatever the EC sends and however long it keeps sending.
ExchangeEnds == (pc \in {"sending", "reading"}) ~> (pc \in {"ok", "failed"})

\* start_drain: "Reads until the device has been quiet for @quiet_ms, so no reply
\* is left queued in the EC."  The code gives up after G5120_MAX_DRAIN_READS.
DrainLeavesNothing == pc = "ok" /\ ~x.send /\ x.listen = "no" => last = "quiet"
=============================================================================
