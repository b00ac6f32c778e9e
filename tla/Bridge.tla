-------------------------------- MODULE Bridge --------------------------------
(***************************************************************************)
(* session.Bridge between the EC and the host's TLS endpoint: the          *)
(* handshake, in turns, then bursts of application data that a goroutine   *)
(* drains from the endpoint.  The endpoint is the one SecureStream         *)
(* specifies; its ciphertext is a sequence of record names, its plaintext  *)
(* the numbers of the image records.                                       *)
(*                                                                         *)
(* The EC is session.LoopbackEC, which puts every record in a transfer of  *)
(* its own, except that as on the device a transfer may also hold several  *)
(* records or end inside one.  Recv, SendTLS, each record the endpoint     *)
(* takes and each it gives are one action, with all the bridge does before *)
(* the next.                                                               *)
(***************************************************************************)
EXTENDS SecureStream

CONSTANTS
  Limit,         \* of ReadApplicationData, in records
  MaxImages,     \* bounds: image records, other messages, calls of
  MaxMessages,   \* ReadApplicationData
  MaxCalls

ASSUME Limits == Limit \in Nat /\ QueueLimit \in Nat

VARIABLES
  call, pc,      \* the call under way, and where it is
  b,             \* hostCCS, done, and dev: devCCS and ecMidFlight
  todo,          \* the pieces of a transfer the endpoint has yet to take
  flight,        \* the records PumpHost has gathered and not yet sent
  outcome,       \* of the last call: "none", "ok", "timeout", "error"
  expired,       \* the deadline of the call has passed
  calls,
  reader, inhand,          \* the plaintext goroutine, and what it has just read
  buf, quiet, rerr,        \* plainBuf
  taken,                   \* history: what ReadApplicationData returned
  endpoint,      \* of the host: the handshake records taken, whether part of one is held
  ec,            \* records to send, whether half of the first is sent, those received
  wire,          \* the transfers on their way from the EC
  samePSK, faulted, images, messages

bridge == <<call, pc, b, todo, flight, outcome, calls>>
plain == <<reader, inhand, buf, quiet, rerr>>
device == <<ec, wire, images, messages>>
fixed == <<samePSK, faulted>>
host == <<streamVars, endpoint>>
vars == <<host, bridge, expired, plain, taken, device, fixed>>

-----------------------------------------------------------------------------
(* The host's endpoint.  A piece is a record, or its head or its tail.     *)

Piece(r, part) == [rec |-> r, part |-> part]
Whole(r) == Piece(r, "whole")
ClientRecords == <<"ClientHello", "ClientKeyExchange", "ChangeCipherSpec", "Finished">>

Accepts(r) ==
  \/ endpoint.taken < 4 /\ r = ClientRecords[endpoint.taken + 1] /\ (r = "Finished" => samePSK)
  \/ endpoint.taken = 4 /\ r = "AppData"
Answer(r) == CASE r = "ClientHello" -> <<"ServerHello", "ServerHelloDone">>
               [] r = "Finished" -> <<"ChangeCipherSpec", "Finished">>
               [] OTHER -> <<>>

\* It answers a record it has the whole of, or decrypts it, or fails.
EndpointTakes(piece) ==
  LET out == Answer(piece.rec)
      data == IF piece.rec = "AppData" THEN <<Len(arrived) + 1>> ELSE <<>>
      over == \/ Len(emitted \o out) - Len(collected) > QueueLimit
              \/ Len(arrived \o data) - Len(delivered) > QueueLimit
  IN CASE failure # "nil" -> UNCHANGED host
       [] failure = "nil" /\ piece.part = "head" ->
            endpoint' = [endpoint EXCEPT !.part = TRUE] /\ UNCHANGED streamVars
       [] failure = "nil" /\ piece.part # "head" /\ (~Accepts(piece.rec) \/ over) ->
            /\ failure' = IF piece.rec = "Finished" /\ ~samePSK THEN "ErrPSKMismatch" ELSE "ErrTLS"
            /\ UNCHANGED <<established, arrived, delivered, emitted, collected, endpoint>>
       [] OTHER ->
            /\ endpoint' = [taken |-> IF data = <<>> THEN endpoint.taken + 1 ELSE 4, part |-> FALSE]
            /\ emitted' = emitted \o out /\ arrived' = arrived \o data
            /\ established' = (established \/ piece.rec = "Finished")
            /\ UNCHANGED <<failure, delivered, collected>>

EndpointBreaks(why) == failure' = why /\ UNCHANGED <<established, arrived, delivered, emitted, collected>>

-----------------------------------------------------------------------------

\* It has been asked for a session: its client starts with a ClientHello.
StartLoopbackEC == [pending |-> <<"ClientHello">>, half |-> FALSE, got |-> <<>>]

Init ==
  /\ StreamInit /\ endpoint = [taken |-> 0, part |-> FALSE]
  /\ call = "none" /\ pc = "idle" /\ todo = <<>> /\ flight = <<>>
  /\ b = [hostCCS |-> FALSE, dev |-> [CCS |-> FALSE, midFlight |-> FALSE], done |-> FALSE]
  /\ outcome = "none" /\ expired = FALSE /\ calls = 0
  /\ reader = "none" /\ inhand = <<>> /\ buf = <<>> /\ quiet = FALSE /\ rerr = "nil" /\ taken = <<>>
  /\ ec = StartLoopbackEC
  /\ wire = <<>> /\ images = 0 /\ messages = 0 /\ samePSK \in BOOLEAN /\ faulted = FALSE

Return(o) == pc' = "idle" /\ outcome' = o

Handshake ==
  /\ pc = "idle" /\ call = "none" /\ failure = "nil"
  /\ call' = "handshake" /\ pc' = "top" /\ expired' = FALSE
  /\ UNCHANGED <<host, b, todo, flight, outcome, calls, plain, taken, device, fixed>>

\* The first call starts the goroutine.
ReadApplicationData ==
  /\ pc = "idle" /\ b.done /\ outcome # "error" /\ failure # "ErrClosed" /\ calls < MaxCalls
  /\ call' = "data" /\ pc' = "top" /\ expired' = FALSE /\ calls' = calls + 1
  /\ reader' = IF reader = "none" THEN "reading" ELSE reader
  /\ UNCHANGED <<host, b, todo, flight, outcome, inhand, buf, quiet, rerr, taken, device, fixed>>

\* Mutant: what is over the limit is dropped.
TakeAll ==
  LET n == IF Len(buf) < Limit THEN Len(buf) ELSE Limit
  IN taken' = taken \o SubSeq(buf, 1, n) /\ buf' = <<>> /\ quiet' = FALSE

\* take: up to Limit of what is buffered.
Take ==
  LET n == IF Len(buf) < Limit THEN Len(buf) ELSE Limit
  IN /\ taken' = taken \o SubSeq(buf, 1, n)
     /\ buf' = SubSeq(buf, n + 1, Len(buf))
     /\ quiet' = (quiet /\ n < Len(buf))

\* Mutant: a call with nothing to return reads on.
TopWaits ==
  /\ pc = "top"
  /\ IF ~expired \/ (call = "data" /\ buf = <<>>)
     THEN pc' = "recv" /\ UNCHANGED <<outcome, taken, buf, quiet>>
     ELSE IF call = "data" THEN Take /\ Return("ok")
     ELSE Return("timeout") /\ UNCHANGED <<taken, buf, quiet>>
  /\ UNCHANGED <<host, call, b, todo, flight, calls, expired, reader, inhand, rerr, device, fixed>>

\* The top of both loops: the context and the deadline.
Top ==
  /\ pc = "top"
  /\ IF ~expired THEN pc' = "recv" /\ UNCHANGED <<outcome, taken, buf, quiet>>
     ELSE IF call = "data" /\ buf # <<>> THEN Take /\ Return("ok")
     ELSE Return("timeout") /\ UNCHANGED <<taken, buf, quiet>>
  /\ UNCHANGED <<host, call, b, todo, flight, calls, expired, reader, inhand, rerr, device, fixed>>

-----------------------------------------------------------------------------
(* Device to host *)

\* trackDeviceFlight
Handshaking(r) == r \notin {"ChangeCipherSpec", "AppData"}
trackDeviceFlight(t, p) ==
  CASE p.rec = "ChangeCipherSpec" -> [CCS |-> TRUE, midFlight |-> TRUE]
    [] Handshaking(p.rec) -> [t EXCEPT !.midFlight = ~t.CCS /\ p.rec # "ClientHello"]
    [] OTHER -> t

\* SplitTLSRecords: every byte belongs to a whole record.
Splits(pieces) == \A i \in DOMAIN pieces : pieces[i].part = "whole"

\* What comes after a transfer that Deliver has dealt with.
AfterDeliver(t) ==
  IF call = "data" THEN "check" ELSE IF t.dev.midFlight THEN "top" ELSE "pump"

\* Mutant: what does not split is refused.
RecvWholeRecords ==
  /\ pc = "recv" /\ wire # <<>> /\ wire' = Tail(wire)
  /\ LET pieces == Head(wire) IN
       CASE pieces = <<>> -> pc' = AfterDeliver(b) /\ UNCHANGED <<b, todo, outcome>>
         [] pieces # <<>> /\ (~Splits(pieces) \/ pieces = <<Whole("Alert")>>) ->
              Return("error") /\ UNCHANGED <<b, todo>>
         [] OTHER ->
              /\ b' = [b EXCEPT !.dev = FoldLeft(trackDeviceFlight, @, pieces)]
              /\ todo' = pieces /\ pc' = "deliver" /\ UNCHANGED outcome
  /\ UNCHANGED <<host, call, flight, calls, expired, plain, taken, ec, images, messages, fixed>>

\* Records that split are tracked, and an alert ends the call; what does not
\* split is forwarded all the same.  A message is left alone.
Recv ==
  /\ pc = "recv" /\ wire # <<>> /\ wire' = Tail(wire)
  /\ LET pieces == Head(wire) IN
       CASE pieces = <<>> ->
              pc' = AfterDeliver(b) /\ UNCHANGED <<b, todo, outcome>>
         [] pieces = <<Whole("Alert")>> ->
              Return("error") /\ UNCHANGED <<b, todo>>
         [] OTHER ->
              /\ b' = IF Splits(pieces) THEN [b EXCEPT !.dev = FoldLeft(trackDeviceFlight, @, pieces)] ELSE b
              /\ todo' = pieces /\ pc' = "deliver" /\ UNCHANGED outcome
  /\ UNCHANGED <<host, call, flight, calls, expired, plain, taken, ec, images, messages, fixed>>

RecvTimesOut ==
  /\ pc = "recv" /\ wire = <<>>
  /\ pc' = IF call = "data" THEN "check" ELSE "pump"
  /\ UNCHANGED <<host, call, b, todo, flight, outcome, calls, expired, plain, taken, device, fixed>>

RecvFails ==
  /\ pc = "recv" /\ Return("error") /\ faulted' = TRUE
  /\ UNCHANGED <<host, call, b, todo, flight, calls, expired, plain, taken, device, samePSK>>

\* The end of Deliver: the endpoint takes the transfer, or returns its failure.
Deliver ==
  /\ pc = "deliver" /\ EndpointTakes(Head(todo))
  /\ IF failure' # "nil" THEN Return("error") /\ todo' = <<>>
     ELSE /\ todo' = Tail(todo) /\ UNCHANGED outcome
          /\ pc' = IF Tail(todo) = <<>> THEN AfterDeliver(b) ELSE "deliver"
  /\ UNCHANGED <<call, b, flight, calls, expired, plain, taken, device, fixed>>

-----------------------------------------------------------------------------
(* Host to device: PumpHost *)

PumpRecord ==
  /\ pc = "pump" /\ failure = "nil" /\ Len(collected) < Len(emitted)
  /\ LET r == emitted[Len(collected) + 1]
         finished == r = "Finished" /\ b.hostCCS
     IN /\ collected' = Append(collected, r) /\ flight' = Append(flight, r)
        /\ b' = [b EXCEPT !.hostCCS = @ \/ r = "ChangeCipherSpec"]
        /\ pc' = IF finished \/ r = "ServerHelloDone" THEN "send" ELSE "pump"
  /\ UNCHANGED <<established, failure, arrived, delivered, emitted, endpoint>>
  /\ UNCHANGED <<call, todo, outcome, calls, expired, plain, taken, device, fixed>>

\* No record within HostIdle.
PumpIdle ==
  /\ pc = "pump" /\ failure = "nil" /\ collected = emitted
  /\ pc' = IF flight = <<>> THEN "top" ELSE "send"
  /\ UNCHANGED <<host, call, b, todo, flight, outcome, calls, expired, plain, taken, device, fixed>>

PumpFails ==
  /\ pc = "pump" /\ failure # "nil" /\ Return("error") /\ flight' = <<>>
  /\ UNCHANGED <<host, call, b, todo, calls, expired, plain, taken, device, fixed>>

\* The EC's client answers the flight that ends with ServerHelloDone.
ECTakes(r) ==
  ec' = [ec EXCEPT !.got = Append(@, r),
                   !.pending = IF r = "ServerHelloDone" THEN @ \o Tail(ClientRecords) ELSE @]

\* Mutant: the end of any flight of the host ends the handshake.
sendFlightEnds ==
  /\ pc = "send" /\ flight' = Tail(flight)
  /\ LET r == Head(flight)
         done == Tail(flight) = <<>>
     IN /\ ECTakes(r) /\ b' = [b EXCEPT !.done = done]
        /\ IF done THEN Return("ok") ELSE pc' = "send" /\ UNCHANGED outcome
  /\ UNCHANGED <<host, call, todo, calls, expired, plain, taken, wire, images, messages, fixed>>

\* Each record in a pack of its own.
sendFlight ==
  /\ pc = "send" /\ flight' = Tail(flight)
  /\ LET r == Head(flight)
         done == Tail(flight) = <<>> /\ r = "Finished"
     IN /\ ECTakes(r) /\ b' = [b EXCEPT !.done = done]
        /\ IF done THEN Return("ok")
           ELSE pc' = (IF Tail(flight) = <<>> THEN "top" ELSE "send") /\ UNCHANGED outcome
  /\ UNCHANGED <<host, call, todo, calls, expired, plain, taken, wire, images, messages, fixed>>

SendFails ==
  /\ pc = "send" /\ Return("error") /\ flight' = <<>> /\ faulted' = TRUE
  /\ UNCHANGED <<host, call, b, todo, calls, expired, plain, taken, device, samePSK>>

-----------------------------------------------------------------------------
(* Application data *)

\* Has the plaintext settled?
Check ==
  /\ pc = "check"
  /\ IF Len(buf) >= Limit \/ (buf # <<>> /\ (quiet \/ rerr # "nil")) THEN Take /\ Return("ok")
     ELSE /\ UNCHANGED <<taken, buf, quiet>>
          /\ IF buf = <<>> /\ rerr # "nil" THEN Return("error") ELSE pc' = "top" /\ UNCHANGED outcome
  /\ UNCHANGED <<host, call, b, todo, flight, calls, expired, reader, inhand, rerr, device, fixed>>

\* The goroutine of startPlaintextReader reads, then takes the lock of plainBuf.
GoroutineReads ==
  /\ reader = "reading" /\ inhand = <<>> /\ failure = "nil"
  /\ \E n \in (Len(delivered) + 1)..Len(arrived) :
       /\ delivered' = SubSeq(arrived, 1, n)
       /\ inhand' = SubSeq(arrived, Len(delivered) + 1, n)
  /\ UNCHANGED <<established, failure, arrived, emitted, collected, endpoint>>
  /\ UNCHANGED <<bridge, expired, reader, buf, quiet, rerr, taken, device, fixed>>

GoroutineAppends ==
  /\ reader = "reading" /\ inhand # <<>>
  /\ buf' = buf \o inhand /\ inhand' = <<>> /\ quiet' = FALSE
  /\ UNCHANGED <<host, bridge, expired, reader, rerr, taken, device, fixed>>

GoroutineEnds ==
  /\ reader = "reading" /\ inhand = <<>> /\ failure # "nil"
  /\ rerr' = failure /\ reader' = "gone"
  /\ UNCHANGED <<host, bridge, expired, inhand, buf, quiet, taken, device, fixed>>

\* Nothing was appended for the time called idle.
Settle ==
  /\ buf # <<>> /\ ~quiet /\ quiet' = TRUE
  /\ UNCHANGED <<host, bridge, expired, reader, inhand, buf, rerr, taken, device, fixed>>

Expire ==
  /\ pc # "idle" /\ ~expired /\ expired' = TRUE
  /\ UNCHANGED <<host, bridge, plain, taken, device, fixed>>

\* The caller closes the session, or its context is cancelled.
Close ==
  /\ pc = "idle" /\ failure = "nil" /\ EndpointBreaks("ErrClosed")
  /\ UNCHANGED <<endpoint, bridge, expired, plain, taken, device, fixed>>

Canceled ==
  /\ failure = "nil" /\ EndpointBreaks("Canceled") /\ faulted' = TRUE
  /\ UNCHANGED <<endpoint, bridge, expired, plain, taken, device, samePSK>>

-----------------------------------------------------------------------------
(* The EC, as long as somebody may read it *)

Heard == failure # "ErrClosed" /\ outcome # "error"

\* A transfer: the rest of a record begun, whole records, the head of one more.
ECSends ==
  /\ Heard /\ ec.pending # <<>>
  /\ LET begun == IF ec.half THEN 1 ELSE 0 IN
     \E n \in begun..Len(ec.pending), head \in BOOLEAN :
       /\ n <= 2 /\ (n > 0 \/ head) /\ (head => n < Len(ec.pending) /\ ~(ec.half /\ n = 0))
       /\ wire' = Append(wire,
            [i \in 1..(IF head THEN n + 1 ELSE n) |->
               Piece(ec.pending[i], IF i = n + 1 THEN "head" ELSE IF i <= begun THEN "tail" ELSE "whole")])
       /\ ec' = [ec EXCEPT !.pending = SubSeq(@, n + 1, Len(@)), !.half = head]
  /\ UNCHANGED <<host, bridge, expired, plain, taken, images, messages, fixed>>

\* SendPlaintext: an image record, once there is a session.
ECImage ==
  /\ Heard /\ images < MaxImages /\ ec.got # <<>> /\ ec.got[Len(ec.got)] = "Finished"
  /\ images' = images + 1 /\ ec' = [ec EXCEPT !.pending = Append(@, "AppData")]
  /\ UNCHANGED <<host, bridge, expired, plain, taken, wire, messages, fixed>>

\* SendEvent: a message that is not TLS.
ECMessage ==
  /\ Heard /\ messages < MaxMessages /\ messages' = messages + 1 /\ wire' = Append(wire, <<>>)
  /\ UNCHANGED <<host, bridge, expired, plain, taken, ec, images, fixed>>

\* It refuses, and drops what it had to send.
ECAlert ==
  /\ Heard /\ ~faulted /\ ~ec.half /\ faulted' = TRUE
  /\ wire' = Append(wire, <<Whole("Alert")>>) /\ ec' = [ec EXCEPT !.pending = <<>>]
  /\ UNCHANGED <<host, bridge, expired, plain, taken, images, messages, samePSK>>

-----------------------------------------------------------------------------

Step == Top \/ Recv \/ RecvTimesOut \/ Deliver \/ PumpRecord \/ PumpIdle \/ PumpFails \/ sendFlight \/ Check
Goroutine == GoroutineReads \/ GoroutineAppends \/ GoroutineEnds
Fault == RecvFails \/ SendFails \/ Canceled \/ ECAlert

Next ==
  \/ Handshake \/ ReadApplicationData \/ Step \/ Goroutine \/ Settle \/ Expire \/ Close
  \/ ECSends \/ ECImage \/ ECMessage \/ Fault

Spec == Init /\ [][Next]_vars

\* The bridge and its goroutine run, and an EC that has records sends them.
FairSpec == Spec /\ WF_vars(Step) /\ WF_vars(Goroutine) /\ WF_vars(ECSends)

-----------------------------------------------------------------------------
(* Properties *)

\* Handshake reports success only with the same key at both ends, the whole of
\* the EC's handshake verified and the host's answer, to its Finished, with the
\* EC: "reaching this point is the answer" (Handshake, PumpHost, sendFlight).
HandshakeIsEarned ==
  b.done => /\ samePSK /\ endpoint.taken = 4
            /\ ec.got = <<"ServerHello", "ServerHelloDone", "ChangeCipherSpec", "Finished">>

\* The endpoint's queues, 64 KiB each way (QueueLimit), hold all that is ever
\* sent: its own four records, and the images.  Without it a reader that is slow
\* to drain the endpoint makes it fail.
Room == MaxImages \in Nat /\ 4 <= QueueLimit /\ MaxImages <= QueueLimit

\* However the EC cuts its records into transfers and whatever else it sends in
\* between, no call fails unless a key, the USB or the EC did (Deliver).
HonestNeverFails == outcome = "error" => ~samePSK \/ faulted

\* Image records come back in order, none lost and none twice, over any number
\* of bursts and whatever the goroutine has in hand (plainBuf).
PlaintextInOrder == taken \o buf \o inhand = delivered

\* Each step of the bridge uses the endpoint as its specification allows: what
\* is said of the bridge is said of it over any endpoint that implements SecureStream.
UsesAStream == [][StreamNext]_streamVars

\* Between an EC and a host with the same key a handshake succeeds unless it
\* runs out of time, also when its records come in pieces; a call whose time
\* is up returns.
CallsReturn ==
  /\ (call = "handshake" /\ samePSK) ~> (b.done \/ expired \/ faulted \/ failure = "ErrClosed")
  /\ (pc # "idle" /\ expired) ~> (pc = "idle")
=============================================================================
