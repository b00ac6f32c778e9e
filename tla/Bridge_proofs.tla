----------------------------- MODULE Bridge_proofs -----------------------------
(***************************************************************************)
(* For any limits, any number of images, messages and calls, and whatever  *)
(* is on the wire: a handshake that Bridge reports is earned, the image    *)
(* records come back in order, and the bridge uses the endpoint as         *)
(* SecureStream allows.                                                    *)
(* With room for what the EC sends, and without a fault from outside, no   *)
(* call fails: the EC's records reach the endpoint each once and in order. *)
(***************************************************************************)
EXTENDS Bridge, SequenceTheorems, TLAPS

HostRecords == {"ServerHello", "ServerHelloDone", "ChangeCipherSpec", "Finished"}
FirstFlight == <<"ServerHello", "ServerHelloDone">>
BothFlights == <<"ServerHello", "ServerHelloDone", "ChangeCipherSpec", "Finished">>

\* The endpoint has answered the records it has taken, and only with the EC's
\* key the last of them.
EndpointOK ==
  /\ endpoint \in [taken : 0..4, part : BOOLEAN]
  /\ emitted = IF endpoint.taken = 0 THEN <<>> ELSE IF endpoint.taken < 4 THEN FirstFlight ELSE BothFlights
  /\ endpoint.taken = 4 => samePSK

\* What was read of a stream is its beginning.
StreamsOK ==
  /\ arrived \in Seq(Nat) /\ delivered \in Seq(Nat) /\ collected \in Seq(HostRecords)
  /\ Len(delivered) <= Len(arrived) /\ delivered = SubSeq(arrived, 1, Len(delivered))
  /\ Len(collected) <= Len(emitted) /\ collected = SubSeq(emitted, 1, Len(collected))

PlainOK ==
  /\ buf \in Seq(Nat) /\ inhand \in Seq(Nat) /\ taken \in Seq(Nat)
  /\ PlaintextInOrder

BridgeOK ==
  /\ b \in [hostCCS : BOOLEAN, dev : {b.dev}, done : BOOLEAN]
  /\ call \in {"none", "handshake", "data"} /\ flight \in Seq(HostRecords)
  /\ ec \in [pending : {ec.pending}, half : {ec.half}, got : Seq(HostRecords)]

\* As long as the handshake goes on, what the EC has and what PumpHost has
\* gathered is what was read of the endpoint; afterwards nothing is sent.
FlightOK ==
  /\ call = "none" => pc = "idle"
  /\ call = "none" \/ (call = "handshake" /\ pc # "idle") => ec.got \o flight = collected /\ b.done = FALSE
  /\ pc \in {"pump", "send"} => call = "handshake"
  /\ pc = "send" => flight # <<>>
  /\ b.done = TRUE => endpoint.taken = 4 /\ ec.got = BothFlights

IInv == EndpointOK /\ StreamsOK /\ PlainOK /\ BridgeOK /\ FlightOK

Uses == [StreamNext]_streamVars

-----------------------------------------------------------------------------
(* Sequences *)

LEMMA PrefixOfConcat ==
  ASSUME NEW S, NEW s \in Seq(S), NEW t \in Seq(S)
  PROVE  IsPrefix(s, s \o t)
BY DEF IsPrefix

LEMMA PrefixOfItself ==
  ASSUME NEW S, NEW s \in Seq(S)
  PROVE  IsPrefix(s, s)
BY DEF IsPrefix

\* Reading on: what was read grows by what is read, and stays a beginning.
LEMMA ReadOn ==
  ASSUME NEW S, NEW all \in Seq(S), NEW m \in 0..Len(all), NEW n \in m..Len(all)
  PROVE  /\ SubSeq(all, 1, m) \in Seq(S) /\ SubSeq(all, 1, n) \in Seq(S)
         /\ SubSeq(all, m + 1, n) \in Seq(S)
         /\ Len(SubSeq(all, 1, n)) = n
         /\ SubSeq(all, 1, n) = SubSeq(all, 1, m) \o SubSeq(all, m + 1, n)
         /\ IsPrefix(SubSeq(all, 1, n), all)
<1>1. Len(all) \in Nat /\ m \in Int /\ n \in Int
  OBVIOUS
<1>2. /\ SubSeq(all, 1, m) \in Seq(S) /\ SubSeq(all, 1, n) \in Seq(S)
      /\ SubSeq(all, m + 1, n) \in Seq(S)
  BY <1>1, SubSeqProperties
<1>3. Len(SubSeq(all, 1, n)) = n
  BY <1>1, SubSeqProperties
<1>4. SubSeq(all, 1, m) \o SubSeq(all, m + 1, n) = SubSeq(all, 1, n)
  <2>1. 1 \in 1..(Len(all) + 1) /\ m \in (1 - 1)..Len(all) /\ n \in m..Len(all)
    BY <1>1
  <2>2. QED
    BY <2>1, ConcatAdjacentSubSeq, Zenon
<1>5. IsPrefix(SubSeq(all, 1, n), all)
  <2>1. SubSeq(all, 1, Len(SubSeq(all, 1, n))) = SubSeq(all, 1, n)
    BY <1>3
  <2>2. SubSeq(SubSeq(all, 1, n), 1, Len(SubSeq(all, 1, n))) = SubSeq(all, 1, n)
    BY <1>2, SubSeqFull
  <2>3. QED
    BY <1>1, <1>3, <2>1, <2>2 DEF IsPrefix
<1>6. QED
  BY <1>2, <1>3, <1>4, <1>5

LEMMA Associative ==
  ASSUME NEW s \in Seq(Nat), NEW t \in Seq(Nat), NEW u \in Seq(Nat)
  PROVE  (s \o t) \o u = s \o (t \o u)
OBVIOUS

-----------------------------------------------------------------------------
(* What steps leave alone *)

\* The endpoint's side.
HostSame == UNCHANGED <<streamVars, endpoint, samePSK>>

LEMMA SameHost ==
  ASSUME IInv, HostSame
  PROVE  EndpointOK' /\ StreamsOK' /\ Uses
BY DEF IInv, HostSame, EndpointOK, StreamsOK, Uses, streamVars

LEMMA SamePlain ==
  ASSUME IInv, UNCHANGED <<buf, inhand, taken, delivered>>
  PROVE  PlainOK'
BY DEF IInv, PlainOK, PlaintextInOrder

LEMMA SameBridge ==
  ASSUME IInv, UNCHANGED <<b, call, pc, flight, ec>>, UNCHANGED <<collected, endpoint>>
  PROVE  BridgeOK' /\ FlightOK'
BY DEF IInv, BridgeOK, FlightOK

\* Steps of the bridge between two records: where they go on.
LEMMA MovedBridge ==
  ASSUME IInv, HostSame, UNCHANGED <<call, flight, ec>>, b'.done = b.done, BridgeOK',
         call # "none", pc # "idle",
         pc' \in {"pump", "send"} => call = "handshake",
         pc' = "send" => flight # <<>>
  PROVE  FlightOK'
BY DEF IInv, HostSame, FlightOK, streamVars

LEMMA TypedBridge ==
  ASSUME IInv
  PROVE  b.done \in BOOLEAN /\ b.hostCCS \in BOOLEAN
BY DEF IInv, BridgeOK

-----------------------------------------------------------------------------
(* The plaintext *)

LEMMA TakeStep ==
  ASSUME IInv, Take, UNCHANGED <<inhand, delivered>>
  PROVE  PlainOK'
<1> DEFINE n == IF Len(buf) < Limit THEN Len(buf) ELSE Limit
           head == SubSeq(buf, 1, n)
           rest == SubSeq(buf, n + 1, Len(buf))
<1>1. /\ buf \in Seq(Nat) /\ inhand \in Seq(Nat) /\ taken \in Seq(Nat) /\ Len(buf) \in Nat
      /\ (taken \o buf) \o inhand = delivered
  BY DEF IInv, PlainOK, PlaintextInOrder
<1>2. n \in 0..Len(buf) /\ Len(buf) \in n..Len(buf)
  BY <1>1, Limits
<1> HIDE DEF n
<1>3. head \in Seq(Nat) /\ rest \in Seq(Nat) /\ buf = head \o rest
  <2>1. /\ SubSeq(buf, 1, n) \in Seq(Nat) /\ SubSeq(buf, n + 1, Len(buf)) \in Seq(Nat)
        /\ SubSeq(buf, 1, Len(buf)) = SubSeq(buf, 1, n) \o SubSeq(buf, n + 1, Len(buf))
    BY <1>1, <1>2, ReadOn
  <2>2. SubSeq(buf, 1, Len(buf)) = buf
    BY <1>1, SubSeqFull
  <2>3. QED
    BY <2>1, <2>2, Zenon
<1>4. taken' = taken \o head /\ buf' = rest /\ inhand' = inhand /\ delivered' = delivered
  BY DEF Take, n
<1> HIDE DEF head, rest
<1>5. (taken \o head) \o rest = taken \o (head \o rest)
  <2>1. taken \in Seq(Nat) /\ head \in Seq(Nat) /\ rest \in Seq(Nat)
    BY <1>1, <1>3
  <2>2. QED
    BY ONLY <2>1, Associative
<1>6. taken \o head \in Seq(Nat)
  BY <1>1, <1>3, ConcatProperties
<1>7. QED
  BY <1>1, <1>3, <1>4, <1>5, <1>6 DEF PlainOK, PlaintextInOrder

LEMMA GoroutineReadsStep ==
  ASSUME IInv, GoroutineReads
  PROVE  EndpointOK' /\ StreamsOK' /\ PlainOK' /\ Uses
<1>1. PICK n \in (Len(delivered) + 1)..Len(arrived) :
        /\ delivered' = SubSeq(arrived, 1, n)
        /\ inhand' = SubSeq(arrived, Len(delivered) + 1, n)
  BY DEF GoroutineReads
<1>2. /\ inhand = <<>> /\ failure = "nil"
      /\ UNCHANGED <<established, failure, arrived, emitted, collected, endpoint, buf, taken, samePSK>>
  BY DEF GoroutineReads, fixed
<1>3. /\ arrived \in Seq(Nat) /\ delivered \in Seq(Nat) /\ Len(delivered) \in 0..Len(arrived)
      /\ Len(arrived) \in Nat /\ delivered = SubSeq(arrived, 1, Len(delivered))
  BY DEF IInv, StreamsOK
<1>4. n \in Len(delivered)..Len(arrived) /\ n \in 0..Len(arrived)
  BY <1>3
<1>5. /\ delivered' \in Seq(Nat) /\ inhand' \in Seq(Nat) /\ Len(delivered') = n
      /\ delivered' = delivered \o inhand' /\ IsPrefix(delivered', arrived)
  <2>1. /\ SubSeq(arrived, 1, n) \in Seq(Nat)
        /\ SubSeq(arrived, Len(delivered) + 1, n) \in Seq(Nat)
        /\ Len(SubSeq(arrived, 1, n)) = n
        /\ SubSeq(arrived, 1, n)
             = SubSeq(arrived, 1, Len(delivered)) \o SubSeq(arrived, Len(delivered) + 1, n)
        /\ IsPrefix(SubSeq(arrived, 1, n), arrived)
    BY <1>3, <1>4, ReadOn
  <2>2. QED
    BY <1>1, <1>3, <2>1, Zenon
<1>6. StreamsOK'
  BY <1>1, <1>2, <1>4, <1>5 DEF IInv, StreamsOK
<1>7. IsPrefix(delivered, delivered')
  BY <1>3, <1>5, PrefixOfConcat
<1>8. GivePlain
  BY <1>2, <1>5, <1>7 DEF GivePlain
<1>9. PlainOK'
  <2>1. /\ taken \in Seq(Nat) /\ buf \in Seq(Nat) /\ taken \o buf \in Seq(Nat)
        /\ (taken \o buf) \o inhand = delivered
    BY ConcatProperties DEF IInv, PlainOK, PlaintextInOrder
  <2>2. taken \o buf = delivered
    BY <1>2, <2>1, ConcatEmptySeq
  <2>3. QED
    BY <1>2, <1>5, <2>1, <2>2 DEF PlainOK, PlaintextInOrder
<1>10. EndpointOK'
  BY <1>2 DEF IInv, EndpointOK
<1>11. QED
  BY <1>6, <1>8, <1>9, <1>10 DEF Uses, StreamNext

LEMMA GoroutineAppendsStep ==
  ASSUME IInv, GoroutineAppends
  PROVE  PlainOK'
<1>1. buf' = buf \o inhand /\ inhand' = <<>> /\ taken' = taken /\ delivered' = delivered
  BY DEF GoroutineAppends, host, streamVars
<1>2. /\ buf \in Seq(Nat) /\ inhand \in Seq(Nat) /\ taken \in Seq(Nat)
      /\ (taken \o buf) \o inhand = delivered
  BY DEF IInv, PlainOK, PlaintextInOrder
<1>3. (taken \o buf) \o inhand = taken \o (buf \o inhand)
  <2>1. taken \in Seq(Nat) /\ buf \in Seq(Nat) /\ inhand \in Seq(Nat)
    BY <1>2
  <2>2. QED
    BY ONLY <2>1, Associative
<1>4. buf \o inhand \in Seq(Nat) /\ taken \o (buf \o inhand) \in Seq(Nat)
  BY <1>2, ConcatProperties
<1>5. (taken \o (buf \o inhand)) \o <<>> = taken \o (buf \o inhand)
  BY <1>4, ConcatEmptySeq
<1>6. <<>> \in Seq(Nat)
  OBVIOUS
<1>7. QED
  BY <1>1, <1>2, <1>3, <1>4, <1>5, <1>6 DEF PlainOK, PlaintextInOrder

-----------------------------------------------------------------------------
(* The endpoint *)

LEMMA StillABeginning ==
  ASSUME NEW S, NEW s \in Seq(S), NEW t \in Seq(S), NEW n \in 0..Len(s)
  PROVE  SubSeq(s \o t, 1, n) = SubSeq(s, 1, n)
<1>1. Len(s) \in Nat
  OBVIOUS
<1>2. CASE n = 0
  <2>1. SubSeq(s \o t, 1, 0) = <<>> /\ SubSeq(s, 1, 0) = <<>>
    BY SubSeqEmpty
  <2>2. QED
    BY <1>2, <2>1
<1>3. CASE n # 0
  <2>1. 1 \in 1..Len(s) /\ n \in 1..Len(s)
    BY <1>1, <1>3
  <2>2. QED
    BY <2>1, SubSeqOfConcat1
<1>4. QED
  BY <1>2, <1>3

LEMMA FlightsAdd ==
  FirstFlight \o <<"ChangeCipherSpec", "Finished">> = BothFlights
<1> DEFINE s == FirstFlight
           t == <<"ChangeCipherSpec", "Finished">>
           u == BothFlights
<1>1. /\ s \in Seq(HostRecords) /\ t \in Seq(HostRecords) /\ u \in Seq(HostRecords)
      /\ Len(s) = 2 /\ Len(t) = 2 /\ Len(u) = 4
  BY DEF FirstFlight, BothFlights, HostRecords
<1>2. s[1] = u[1] /\ s[2] = u[2] /\ t[1] = u[3] /\ t[2] = u[4]
  BY DEF FirstFlight, BothFlights
<1> HIDE DEF s, t, u
<1>3. /\ s \o t \in Seq(HostRecords) /\ Len(s \o t) = Len(s) + Len(t)
      /\ \A i \in 1..(Len(s) + Len(t)) : (s \o t)[i] = IF i <= Len(s) THEN s[i] ELSE t[i - Len(s)]
  BY ONLY <1>1, ConcatProperties
<1>4. \A i \in 1..4 : (s \o t)[i] = u[i]
  BY <1>1, <1>2, <1>3
<1>5. s \o t = u
  BY <1>1, <1>3, <1>4, SeqEqual
<1>6. QED
  BY <1>5 DEF s, t, u

LEMMA EmittedType ==
  ASSUME IInv
  PROVE  emitted \in Seq(HostRecords) /\ endpoint.taken \in 0..4
<1>1. <<>> \in Seq(HostRecords) /\ FirstFlight \in Seq(HostRecords) /\ BothFlights \in Seq(HostRecords)
  BY DEF FirstFlight, BothFlights, HostRecords
<1>2. QED
  BY <1>1 DEF IInv, EndpointOK

\* A record that is taken: what it adds to the two streams.
LEMMA TakenRecord ==
  ASSUME IInv, NEW piece, failure = "nil", piece.part # "head",
         EndpointTakes(piece), samePSK' = samePSK
  PROVE  EndpointOK' /\ StreamsOK' /\ Uses /\ (endpoint.taken = 4 => endpoint'.taken = 4)
         /\ delivered' = delivered /\ collected' = collected
<1> DEFINE r == piece.rec
           out == Answer(r)
           data == IF r = "AppData" THEN <<Len(arrived) + 1>> ELSE <<>>
           over == \/ Len(emitted \o out) - Len(collected) > QueueLimit
                   \/ Len(arrived \o data) - Len(delivered) > QueueLimit
<1>1. CASE ~Accepts(r) \/ over
  <2>1. /\ failure' = IF r = "Finished" /\ ~samePSK THEN "ErrPSKMismatch" ELSE "ErrTLS"
        /\ UNCHANGED <<established, arrived, delivered, emitted, collected, endpoint>>
    BY <1>1 DEF EndpointTakes
  <2>2. Break
    BY <2>1 DEF Break
  <2>3. QED
    BY <2>1, <2>2 DEF IInv, EndpointOK, StreamsOK, Uses, StreamNext
<1>2. CASE Accepts(r) /\ ~over
  <2>1. /\ endpoint' = [taken |-> IF data = <<>> THEN endpoint.taken + 1 ELSE 4, part |-> FALSE]
        /\ emitted' = emitted \o out /\ arrived' = arrived \o data
        /\ established' = (established \/ r = "Finished")
        /\ UNCHANGED <<failure, delivered, collected>>
    BY <1>2 DEF EndpointTakes
  <2> DEFINE c == endpoint.taken
  <2>2. /\ c \in 0..4 /\ emitted \in Seq(HostRecords) /\ arrived \in Seq(Nat) /\ delivered \in Seq(Nat)
        /\ collected \in Seq(HostRecords)
        /\ emitted = IF c = 0 THEN <<>> ELSE IF c < 4 THEN FirstFlight ELSE BothFlights
    BY EmittedType DEF IInv, EndpointOK, StreamsOK
  <2> HIDE DEF c
  <2>3. /\ ClientRecords[1] = "ClientHello" /\ ClientRecords[2] = "ClientKeyExchange"
        /\ ClientRecords[3] = "ChangeCipherSpec" /\ ClientRecords[4] = "Finished"
    BY DEF ClientRecords
  <2>4. /\ c = 0 => r = "ClientHello"
        /\ c = 1 => r = "ClientKeyExchange"
        /\ c = 2 => r = "ChangeCipherSpec"
        /\ c = 3 => r = "Finished" /\ samePSK
        /\ c = 4 => r = "AppData"
    BY <1>2, <2>2, <2>3 DEF Accepts, c
  <2>5. /\ out \in Seq(HostRecords) /\ data \in Seq(Nat)
        /\ c = 0 => out = FirstFlight /\ data = <<>>
        /\ c \in {1, 2} => out = <<>> /\ data = <<>>
        /\ c = 3 => out = <<"ChangeCipherSpec", "Finished">> /\ data = <<>>
        /\ c = 4 => out = <<>> /\ data # <<>>
    <3>1. <<Len(arrived) + 1>> \in Seq(Nat) /\ <<Len(arrived) + 1>> # <<>> /\ <<>> \in Seq(Nat)
      BY <2>2
    <3>2. /\ <<>> \in Seq(HostRecords) /\ FirstFlight \in Seq(HostRecords)
          /\ <<"ChangeCipherSpec", "Finished">> \in Seq(HostRecords)
      BY DEF FirstFlight, HostRecords
    <3>3. data \in Seq(Nat) /\ (r # "AppData" => data = <<>>) /\ (r = "AppData" => data # <<>>)
      BY <3>1
    <3>4. Answer(r) = IF r = "ClientHello" THEN FirstFlight
                      ELSE IF r = "Finished" THEN <<"ChangeCipherSpec", "Finished">> ELSE <<>>
      BY DEF Answer, FirstFlight
    <3> HIDE DEF data
    <3>5. QED
      BY <2>2, <2>4, <3>2, <3>3, <3>4
  <2> DEFINE c2 == IF data = <<>> THEN c + 1 ELSE 4
  <2>6. c2 \in 0..4 /\ (c = 4 => c2 = 4) /\ (c < 4 => c2 = c + 1)
    BY <2>2, <2>5
  <2>7. emitted \o out = IF c2 = 0 THEN <<>> ELSE IF c2 < 4 THEN FirstFlight ELSE BothFlights
    <3>1. /\ <<>> \o FirstFlight = FirstFlight /\ FirstFlight \o <<>> = FirstFlight
          /\ BothFlights \o <<>> = BothFlights
          /\ FirstFlight \o <<"ChangeCipherSpec", "Finished">> = BothFlights
      <4>1. /\ FirstFlight \in Seq(HostRecords) /\ BothFlights \in Seq(HostRecords)
        BY DEF FirstFlight, BothFlights, HostRecords
      <4>2. FirstFlight \o <<"ChangeCipherSpec", "Finished">> = BothFlights
        BY FlightsAdd
      <4>3. QED
        BY <4>1, <4>2, ConcatEmptySeq
    <3> HIDE DEF out, data, c2
    <3>2. CASE c = 0
      <4>1. emitted = <<>> /\ out = FirstFlight /\ c2 = 1
        BY <2>2, <2>5, <2>6, <3>2
      <4>2. QED
        BY <3>1, <4>1
    <3>3. CASE c \in {1, 2}
      <4>1. emitted = FirstFlight /\ out = <<>> /\ c2 \in {2, 3}
        BY <2>2, <2>5, <2>6, <3>3
      <4>2. QED
        BY <3>1, <4>1
    <3>4. CASE c = 3
      <4>1. emitted = FirstFlight /\ out = <<"ChangeCipherSpec", "Finished">> /\ c2 = 4
        BY <2>2, <2>5, <2>6, <3>4
      <4>2. QED
        BY <3>1, <4>1
    <3>5. CASE c = 4
      <4>1. emitted = BothFlights /\ out = <<>> /\ c2 = 4
        BY <2>2, <2>5, <2>6, <3>5
      <4>2. QED
        BY <3>1, <4>1
    <3>6. QED
      BY <2>2, <3>2, <3>3, <3>4, <3>5
  <2>8. endpoint' = [taken |-> c2, part |-> FALSE] /\ (c2 = 4 => samePSK)
    <3>1. c2 = 4 => c \in {3, 4}
      BY <2>2, <2>6
    <3>2. QED
      BY <2>1, <2>4, <3>1 DEF c, IInv, EndpointOK
  <2> HIDE DEF out, data, c2
  <2>9. EndpointOK'
    BY <2>1, <2>6, <2>7, <2>8 DEF EndpointOK
  <2>10. /\ emitted' \in Seq(HostRecords) /\ arrived' \in Seq(Nat)
         /\ Len(emitted') = Len(emitted) + Len(out) /\ Len(arrived') = Len(arrived) + Len(data)
    BY <2>1, <2>2, <2>5, ConcatProperties
  <2>11. /\ Len(emitted') - Len(collected) <= QueueLimit
         /\ Len(arrived') - Len(delivered) <= QueueLimit
    <3>1. /\ ~(Len(emitted \o out) - Len(collected) > QueueLimit)
          /\ ~(Len(arrived \o data) - Len(delivered) > QueueLimit)
      BY <1>2
    <3>2. Len(emitted') \in Nat /\ Len(arrived') \in Nat /\ Len(collected) \in Nat /\ Len(delivered) \in Nat
      BY <2>2, <2>10
    <3>3. Len(emitted') = Len(emitted \o out) /\ Len(arrived') = Len(arrived \o data)
      BY <2>1, Zenon
    <3>4. QED
      BY <3>1, <3>2, <3>3, Limits
  <2>12. StreamsOK'
    <3>1. /\ Len(delivered) \in 0..Len(arrived) /\ delivered = SubSeq(arrived, 1, Len(delivered))
          /\ Len(collected) \in 0..Len(emitted) /\ collected = SubSeq(emitted, 1, Len(collected))
      BY <2>2 DEF IInv, StreamsOK
    <3>2. /\ SubSeq(arrived \o data, 1, Len(delivered)) = SubSeq(arrived, 1, Len(delivered))
          /\ SubSeq(emitted \o out, 1, Len(collected)) = SubSeq(emitted, 1, Len(collected))
      BY <2>2, <2>5, <3>1, StillABeginning
    <3>3. Len(delivered) <= Len(arrived') /\ Len(collected) <= Len(emitted')
      BY <2>2, <2>5, <2>10, <3>1
    <3>4. /\ delivered' = SubSeq(arrived', 1, Len(delivered'))
          /\ collected' = SubSeq(emitted', 1, Len(collected'))
      BY <2>1, <3>1, <3>2, Zenon
    <3>5. QED
      BY <2>1, <2>2, <2>10, <3>3, <3>4 DEF StreamsOK
  <2>13. Advance
    <3>1. IsPrefix(arrived, arrived') /\ IsPrefix(emitted, emitted')
      BY <2>1, <2>2, <2>5, PrefixOfConcat
    <3>2. QED
      BY <2>1, <2>11, <3>1 DEF Advance
  <2>14. c = 4 => endpoint'.taken = 4
    BY <2>6, <2>8
  <2>15. QED
    BY <2>1, <2>9, <2>12, <2>13, <2>14 DEF Uses, StreamNext, c
<1>3. QED
  BY <1>1, <1>2

LEMMA DeliverStep ==
  ASSUME IInv, Deliver
  PROVE  IInv' /\ Uses
<1> DEFINE piece == Head(todo)
<1>1. /\ pc = "deliver" /\ EndpointTakes(piece)
      /\ UNCHANGED <<call, b, flight, plain, taken, device, fixed>>
  BY DEF Deliver
<1>2. /\ EndpointOK' /\ StreamsOK' /\ Uses /\ (endpoint.taken = 4 => endpoint'.taken = 4)
      /\ delivered' = delivered /\ collected' = collected
  <2> HIDE DEF piece
  <2>1. CASE failure # "nil"
    <3>1. UNCHANGED host
      BY <1>1, <2>1 DEF EndpointTakes
    <3>2. HostSame
      BY <1>1, <3>1 DEF HostSame, host, fixed
    <3>3. QED
      BY <3>1, <3>2, SameHost DEF host, streamVars
  <2>2. CASE failure = "nil" /\ piece.part = "head"
    <3>1. endpoint' = [endpoint EXCEPT !.part = TRUE] /\ UNCHANGED streamVars
      BY <1>1, <2>2 DEF EndpointTakes
    <3>2. endpoint' \in [taken : 0..4, part : BOOLEAN] /\ endpoint'.taken = endpoint.taken
      BY <3>1 DEF IInv, EndpointOK
    <3>3. QED
      BY <1>1, <3>1, <3>2 DEF IInv, EndpointOK, StreamsOK, Uses, streamVars, fixed
  <2>3. CASE failure = "nil" /\ piece.part # "head"
    BY <1>1, <2>3, TakenRecord DEF fixed
  <2>4. QED
    BY <2>1, <2>2, <2>3
<1>3. PlainOK'
  BY <1>1, <1>2, SamePlain DEF plain
<1>4. BridgeOK'
  BY <1>1 DEF IInv, BridgeOK, device
<1>5. pc' \in {"idle", "deliver", "check", "top"} \/ (pc' = "pump" /\ call # "data")
  BY DEF Deliver, Return, AfterDeliver
<1>6. FlightOK'
  BY <1>1, <1>2, <1>5 DEF IInv, BridgeOK, FlightOK, device
<1>7. QED
  BY <1>2, <1>3, <1>4, <1>6 DEF IInv

-----------------------------------------------------------------------------
(* PumpHost *)

LEMMA NextElement ==
  ASSUME NEW S, NEW all \in Seq(S), NEW m \in 0..(Len(all) - 1)
  PROVE  /\ all[m + 1] \in S
         /\ SubSeq(all, 1, m + 1) = Append(SubSeq(all, 1, m), all[m + 1])
<1>1. Len(all) \in Nat /\ m + 1 \in 1..Len(all)
  OBVIOUS
<1>2. all[m + 1] \in S
  BY <1>1
<1>3. SubSeq(all, 1, m + 1) = SubSeq(all, 1, (m + 1) - 1) \o <<all[m + 1]>>
  <2>1. 1 \in 1..Len(all) /\ m + 1 \in 1..Len(all)
    BY <1>1
  <2>2. QED
    BY <2>1, SubSeqRecursiveSecond, Zenon
<1>4. (m + 1) - 1 = m
  OBVIOUS
<1>5. SubSeq(all, 1, m) \in Seq(S)
  BY <1>1, SubSeqProperties
<1>6. SubSeq(all, 1, m) \o <<all[m + 1]>> = Append(SubSeq(all, 1, m), all[m + 1])
  BY <1>2, <1>5, AppendIsConcat
<1>7. QED
  BY <1>2, <1>3, <1>4, <1>6

LEMMA AppendToConcat ==
  ASSUME NEW s \in Seq(HostRecords), NEW t \in Seq(HostRecords), NEW r \in HostRecords
  PROVE  s \o Append(t, r) = Append(s \o t, r)
OBVIOUS

LEMMA MoveHead ==
  ASSUME NEW s \in Seq(HostRecords), NEW t \in Seq(HostRecords), t # <<>>
  PROVE  /\ Head(t) \in HostRecords /\ Tail(t) \in Seq(HostRecords)
         /\ Append(s, Head(t)) \in Seq(HostRecords)
         /\ Append(s, Head(t)) \o Tail(t) = s \o t
OBVIOUS

LEMMA PumpRecordStep ==
  ASSUME IInv, PumpRecord
  PROVE  IInv' /\ Uses
<1> DEFINE m == Len(collected)
           r == emitted[m + 1]
<1>1. /\ pc = "pump" /\ failure = "nil" /\ m < Len(emitted)
      /\ collected' = Append(collected, r) /\ flight' = Append(flight, r)
      /\ b' = [b EXCEPT !.hostCCS = @ \/ r = "ChangeCipherSpec"]
      /\ pc' \in {"send", "pump"}
      /\ UNCHANGED <<established, failure, arrived, delivered, emitted, endpoint>>
      /\ UNCHANGED <<call, plain, taken, device, fixed>>
  BY DEF PumpRecord
<1>2. /\ emitted \in Seq(HostRecords) /\ collected \in Seq(HostRecords) /\ flight \in Seq(HostRecords)
      /\ ec.got \in Seq(HostRecords) /\ m \in 0..(Len(emitted) - 1)
      /\ collected = SubSeq(emitted, 1, m) /\ ec.got \o flight = collected /\ b.done = FALSE
      /\ call = "handshake"
  <2>1. /\ emitted \in Seq(HostRecords) /\ collected \in Seq(HostRecords)
        /\ collected = SubSeq(emitted, 1, m)
    BY EmittedType DEF IInv, StreamsOK
  <2>2. flight \in Seq(HostRecords) /\ ec.got \in Seq(HostRecords)
    BY DEF IInv, BridgeOK
  <2>3. ec.got \o flight = collected /\ b.done = FALSE /\ call = "handshake"
    BY <1>1 DEF IInv, FlightOK
  <2>4. Len(emitted) \in Nat /\ m \in Nat
    BY <2>1
  <2>5. m \in 0..(Len(emitted) - 1)
    BY <1>1, <2>4
  <2>6. QED
    BY <2>1, <2>2, <2>3, <2>5
<1>3. r \in HostRecords /\ SubSeq(emitted, 1, m + 1) = Append(SubSeq(emitted, 1, m), r)
  BY <1>2, NextElement
<1> HIDE DEF r
<1>4. /\ Append(collected, r) \in Seq(HostRecords) /\ Append(flight, r) \in Seq(HostRecords)
      /\ Append(flight, r) # <<>> /\ Len(Append(collected, r)) = m + 1
  <2>1. collected \in Seq(HostRecords) /\ flight \in Seq(HostRecords) /\ r \in HostRecords
    BY <1>2, <1>3
  <2>2. /\ Append(collected, r) \in Seq(HostRecords)
        /\ Len(Append(collected, r)) = Len(collected) + 1
    BY ONLY <2>1, AppendProperties
  <2>3. Append(flight, r) \in Seq(HostRecords) /\ Append(flight, r) # <<>>
    BY ONLY <2>1, AppendProperties
  <2>4. QED
    BY <2>2, <2>3
<1>5. collected' = SubSeq(emitted, 1, m + 1) /\ Len(collected') = m + 1
  BY <1>1, <1>2, <1>3, <1>4, Zenon
<1>6. StreamsOK'
  BY <1>1, <1>2, <1>4, <1>5 DEF IInv, StreamsOK
<1>7. EndpointOK'
  BY <1>1 DEF IInv, EndpointOK, fixed
<1>8. PlainOK'
  BY <1>1, SamePlain DEF plain
<1>9. b' \in [hostCCS : BOOLEAN, dev : {b'.dev}, done : BOOLEAN] /\ b'.done = FALSE
  BY <1>1, <1>2 DEF IInv, BridgeOK
<1>10. BridgeOK'
  BY <1>1, <1>4, <1>9 DEF IInv, BridgeOK, device
<1>11. ec'.got \o flight' = collected'
  <2>1. ec.got \o Append(flight, r) = Append(ec.got \o flight, r)
    BY <1>2, <1>3, AppendToConcat
  <2>2. QED
    BY <1>1, <1>2, <2>1 DEF device
<1>12. FlightOK'
  BY <1>1, <1>2, <1>4, <1>9, <1>11 DEF IInv, FlightOK
<1>13. GiveCipher
  <2>1. m + 1 \in m..Len(emitted) /\ m + 1 \in 0..Len(emitted) /\ m \in 0..Len(emitted)
    BY <1>2
  <2>2. IsPrefix(SubSeq(emitted, 1, m + 1), emitted)
    BY <1>2, <2>1, ReadOn
  <2>3. IsPrefix(collected, collected')
    <3>1. collected' = collected \o <<r>>
      BY <1>1, <1>2, <1>3, AppendIsConcat
    <3>2. <<r>> \in Seq(HostRecords)
      BY <1>3
    <3>3. QED
      BY <1>2, <3>1, <3>2, PrefixOfConcat
  <2>4. QED
    BY <1>1, <1>5, <2>2, <2>3 DEF GiveCipher
<1>14. QED
  BY <1>6, <1>7, <1>8, <1>10, <1>12, <1>13 DEF IInv, Uses, StreamNext

LEMMA SendFlightStep ==
  ASSUME IInv, sendFlight
  PROVE  IInv' /\ Uses
<1> DEFINE r == Head(flight)
           done == Tail(flight) = <<>> /\ r = "Finished"
<1>1. /\ pc = "send" /\ flight' = Tail(flight) /\ ECTakes(r) /\ b' = [b EXCEPT !.done = done]
      /\ IF done THEN pc' = "idle"
         ELSE pc' = (IF Tail(flight) = <<>> THEN "top" ELSE "send")
      /\ UNCHANGED <<host, call, plain, taken, fixed>>
  BY DEF sendFlight, Return
<1>2. /\ collected \in Seq(HostRecords) /\ flight \in Seq(HostRecords) /\ flight # <<>>
      /\ ec.got \in Seq(HostRecords) /\ ec.got \o flight = collected /\ call = "handshake"
  BY <1>1 DEF IInv, StreamsOK, BridgeOK, FlightOK
<1>3. ec'.got = Append(ec.got, r)
  BY <1>1 DEF ECTakes, IInv, BridgeOK
<1>4. HostSame
  BY <1>1 DEF HostSame, host, fixed
<1>5. EndpointOK' /\ StreamsOK' /\ Uses /\ PlainOK'
  BY <1>1, <1>4, SameHost, SamePlain DEF HostSame, streamVars, plain
<1>6. /\ r \in HostRecords /\ Tail(flight) \in Seq(HostRecords)
      /\ Append(ec.got, r) \in Seq(HostRecords)
      /\ Append(ec.got, r) \o Tail(flight) = collected
  BY <1>2, MoveHead
<1> HIDE DEF r
<1>7. b' \in [hostCCS : BOOLEAN, dev : {b'.dev}, done : BOOLEAN] /\ b'.done = done
  BY <1>1 DEF IInv, BridgeOK
<1>8. BridgeOK'
  <2>1. ec' \in [pending : {ec'.pending}, half : {ec'.half}, got : Seq(HostRecords)]
    <3>1. \E p : ec' = [ec EXCEPT !.got = Append(@, r), !.pending = p]
      BY <1>1, Zenon DEF ECTakes
    <3>2. QED
      BY <1>6, <3>1 DEF IInv, BridgeOK
  <2>2. QED
    BY <1>1, <1>2, <1>6, <1>7, <2>1 DEF IInv, BridgeOK
<1>9. ASSUME done PROVE endpoint.taken = 4 /\ ec'.got = BothFlights
  <2> DEFINE n == Len(collected)
  <2>1. Append(ec.got, r) = collected
    BY <1>6, <1>9, ConcatEmptySeq
  <2>2. n \in Nat /\ n > 0 /\ collected[n] = "Finished"
    <3>1. /\ Len(Append(ec.got, r)) = Len(ec.got) + 1 /\ Len(ec.got) \in Nat
          /\ Append(ec.got, r)[Len(ec.got) + 1] = r
      BY <1>2, <1>6, AppendProperties
    <3>2. QED
      BY <1>9, <2>1, <3>1
  <2>3. /\ emitted \in Seq(HostRecords) /\ n <= Len(emitted) /\ collected = SubSeq(emitted, 1, n)
        /\ endpoint.taken \in 0..4
        /\ emitted = IF endpoint.taken = 0 THEN <<>>
                     ELSE IF endpoint.taken < 4 THEN FirstFlight ELSE BothFlights
    BY EmittedType DEF IInv, StreamsOK, EndpointOK
  <2>4. collected[n] = emitted[n]
    BY <2>2, <2>3
  <2>5. emitted # <<>> /\ emitted # FirstFlight
    <3>1. Len(<<>>) = 0 /\ Len(FirstFlight) = 2 /\ FirstFlight[1] # "Finished" /\ FirstFlight[2] # "Finished"
      BY DEF FirstFlight
    <3>2. n \in 1..Len(emitted) /\ emitted[n] = "Finished"
      BY <2>2, <2>3, <2>4
    <3>3. QED
      BY <3>1, <3>2
  <2>6. emitted = BothFlights /\ endpoint.taken = 4
    BY <2>3, <2>5
  <2>7. n = 4
    <3>1. /\ Len(BothFlights) = 4 /\ BothFlights[1] # "Finished" /\ BothFlights[2] # "Finished"
          /\ BothFlights[3] # "Finished"
      BY DEF BothFlights
    <3>2. n \in 1..4 /\ BothFlights[n] = "Finished"
      <4>1. Len(emitted) = 4 /\ emitted[n] = BothFlights[n]
        BY <2>6, <3>1
      <4>2. QED
        BY <2>2, <2>3, <2>4, <4>1
    <3> HIDE DEF n
    <3>3. QED
      BY ONLY <3>1, <3>2
  <2>8. collected = BothFlights
    <3>1. Len(BothFlights) = 4
      BY DEF BothFlights
    <3>2. SubSeq(emitted, 1, Len(emitted)) = emitted
      BY <2>3, SubSeqFull
    <3>3. QED
      BY <2>3, <2>6, <2>7, <3>1, <3>2
  <2>9. QED
    BY <1>3, <2>1, <2>6, <2>8
<1>10. FlightOK'
  BY <1>1, <1>2, <1>3, <1>6, <1>7, <1>9 DEF FlightOK, host, streamVars
<1>11. QED
  BY <1>5, <1>8, <1>10 DEF IInv

-----------------------------------------------------------------------------
(* Steps that leave the endpoint alone *)

LEMMA HostStays ==
  ASSUME IInv, UNCHANGED host, UNCHANGED fixed
  PROVE  EndpointOK' /\ StreamsOK' /\ Uses /\ UNCHANGED <<collected, delivered, endpoint>> /\ HostSame
<1>1. HostSame
  BY DEF HostSame, host, fixed
<1>2. QED
  BY <1>1, SameHost DEF HostSame, streamVars

\* A fault is remembered, and changes nothing else of the host.
LEMMA HostStaysFaulted ==
  ASSUME IInv, UNCHANGED host, UNCHANGED samePSK
  PROVE  EndpointOK' /\ StreamsOK' /\ Uses /\ UNCHANGED <<collected, delivered, endpoint>> /\ HostSame
<1>1. HostSame
  BY DEF HostSame, host
<1>2. QED
  BY <1>1, SameHost DEF HostSame, streamVars

LEMMA HandshakeStep ==
  ASSUME IInv, Handshake
  PROVE  IInv' /\ Uses
<1>1. /\ pc = "idle" /\ call = "none" /\ call' = "handshake" /\ pc' = "top"
      /\ UNCHANGED <<host, b, flight, plain, taken, device, fixed>>
  BY DEF Handshake
<1>2. EndpointOK' /\ StreamsOK' /\ Uses /\ UNCHANGED <<collected, delivered, endpoint>>
  BY <1>1, HostStays
<1>3. PlainOK'
  BY <1>1, <1>2, SamePlain DEF plain
<1>4. BridgeOK'
  BY <1>1 DEF IInv, BridgeOK, device
<1>5. FlightOK'
  BY <1>1, <1>2 DEF IInv, FlightOK, device
<1>6. QED
  BY <1>2, <1>3, <1>4, <1>5 DEF IInv

LEMMA ReadApplicationDataStep ==
  ASSUME IInv, ReadApplicationData
  PROVE  IInv' /\ Uses
<1>1. /\ pc = "idle" /\ call' = "data" /\ pc' = "top"
      /\ UNCHANGED <<host, b, flight, inhand, buf, taken, device, fixed>>
  BY DEF ReadApplicationData
<1>2. EndpointOK' /\ StreamsOK' /\ Uses /\ UNCHANGED <<collected, delivered, endpoint>>
  BY <1>1, HostStays
<1>3. PlainOK'
  BY <1>1, <1>2, SamePlain
<1>4. BridgeOK'
  BY <1>1 DEF IInv, BridgeOK, device
<1>5. FlightOK'
  BY <1>1, <1>2 DEF IInv, FlightOK, device
<1>6. QED
  BY <1>2, <1>3, <1>4, <1>5 DEF IInv

\* Top and Check go on, or return with or without something taken.
LEMMA LoopStep ==
  ASSUME IInv, call # "none", pc' \in {"recv", "idle", "top"}, pc # "idle",
         Take \/ UNCHANGED <<taken, buf>>,
         UNCHANGED <<host, call, b, flight, inhand, device, fixed>>
  PROVE  IInv' /\ Uses
<1>1. EndpointOK' /\ StreamsOK' /\ Uses /\ UNCHANGED <<collected, delivered, endpoint>> /\ HostSame
  BY HostStays
<1>2. PlainOK'
  BY <1>1, SamePlain, TakeStep
<1>3. BridgeOK'
  BY DEF IInv, BridgeOK, device
<1>4. FlightOK'
  BY <1>1, <1>3, MovedBridge DEF device
<1>5. QED
  BY <1>1, <1>2, <1>3, <1>4 DEF IInv

LEMMA TopStep ==
  ASSUME IInv, Top
  PROVE  IInv' /\ Uses
<1>1. pc = "top" /\ UNCHANGED <<host, call, b, flight, inhand, device, fixed>>
  BY DEF Top
<1>2. pc' \in {"recv", "idle"} /\ (Take \/ UNCHANGED <<taken, buf>>)
  BY DEF Top, Return
<1>3. call # "none"
  BY <1>1 DEF IInv, FlightOK
<1>4. QED
  BY <1>1, <1>2, <1>3, LoopStep

LEMMA CheckStep ==
  ASSUME IInv, Check
  PROVE  IInv' /\ Uses
<1>1. pc = "check" /\ UNCHANGED <<host, call, b, flight, inhand, device, fixed>>
  BY DEF Check
<1>2. pc' \in {"top", "idle"} /\ (Take \/ UNCHANGED <<taken, buf>>)
  BY DEF Check, Return
<1>3. call # "none"
  BY <1>1 DEF IInv, FlightOK
<1>4. QED
  BY <1>1, <1>2, <1>3, LoopStep

\* The steps between two records, which touch neither endpoint nor plaintext.
LEMMA BetweenStep ==
  ASSUME IInv, call # "none", pc # "idle",
         pc' \in {"pump", "send"} => call = "handshake",
         pc' = "send" => flight # <<>>,
         b'.done = b.done, b'.hostCCS = b.hostCCS, b' \in [hostCCS : BOOLEAN, dev : {b'.dev}, done : BOOLEAN],
         UNCHANGED <<host, call, flight, plain, taken, ec, samePSK>>
  PROVE  IInv' /\ Uses
<1>1. EndpointOK' /\ StreamsOK' /\ Uses /\ UNCHANGED <<collected, delivered, endpoint>> /\ HostSame
  BY HostStaysFaulted
<1>2. PlainOK'
  BY <1>1, SamePlain DEF plain
<1>3. BridgeOK'
  BY DEF IInv, BridgeOK
<1>4. FlightOK'
  BY <1>1, <1>3, MovedBridge
<1>5. QED
  BY <1>1, <1>2, <1>3, <1>4 DEF IInv

LEMMA RecvStep ==
  ASSUME IInv, Recv
  PROVE  IInv' /\ Uses
<1>1. pc = "recv" /\ UNCHANGED <<host, call, flight, plain, taken, ec, fixed>>
  BY DEF Recv
<1>2. call \in {"handshake", "data"}
  BY <1>1 DEF IInv, FlightOK, BridgeOK
<1>3. \/ b' = b
      \/ b' = [b EXCEPT !.dev = FoldLeft(trackDeviceFlight, @, Head(wire))]
  BY DEF Recv
<1>4. b \in [hostCCS : BOOLEAN, dev : {b.dev}, done : BOOLEAN]
  BY DEF IInv, BridgeOK
<1>5. /\ b'.done = b.done /\ b'.hostCCS = b.hostCCS
      /\ b' \in [hostCCS : BOOLEAN, dev : {b'.dev}, done : BOOLEAN]
  <2>1. CASE b' = b
    BY <1>4, <2>1
  <2>2. CASE b' = [b EXCEPT !.dev = FoldLeft(trackDeviceFlight, @, Head(wire))]
    <3> DEFINE dev == FoldLeft(trackDeviceFlight, b.dev, Head(wire))
    <3>1. b' = [b EXCEPT !.dev = dev]
      BY <2>2
    <3> HIDE DEF dev
    <3>2. QED
      BY <1>4, <3>1
  <2>3. QED
    BY <1>3, <2>1, <2>2
<1>6. pc' \in {"check", "top", "idle", "deliver"} \/ (pc' = "pump" /\ call # "data")
  BY DEF Recv, Return, AfterDeliver
<1>7. QED
  BY <1>1, <1>2, <1>5, <1>6, BetweenStep DEF fixed

LEMMA BridgeMoves ==
  ASSUME IInv, RecvTimesOut \/ RecvFails \/ PumpIdle
  PROVE  IInv' /\ Uses
<1>1. pc \in {"recv", "pump"} /\ UNCHANGED <<host, call, b, flight, plain, taken, device, samePSK>>
  BY DEF RecvTimesOut, RecvFails, PumpIdle, fixed
<1>2. call \in {"handshake", "data"} /\ (pc = "pump" => call = "handshake")
  BY <1>1 DEF IInv, FlightOK, BridgeOK
<1>3. \/ pc' \in {"check", "idle", "top"} \/ (pc' = "pump" /\ call # "data")
      \/ (pc' = "send" /\ pc = "pump" /\ flight # <<>>)
  BY DEF RecvTimesOut, RecvFails, PumpIdle, Return
<1>4. b' \in [hostCCS : BOOLEAN, dev : {b'.dev}, done : BOOLEAN]
  BY <1>1 DEF IInv, BridgeOK
<1>5. QED
  BY <1>1, <1>2, <1>3, <1>4, BetweenStep DEF device

\* A call that fails drops the flight; nothing more is sent.
LEMMA DropFlight ==
  ASSUME IInv, PumpFails \/ SendFails
  PROVE  IInv' /\ Uses
<1>1. /\ pc \in {"pump", "send"} /\ pc' = "idle" /\ flight' = <<>>
      /\ UNCHANGED <<host, call, b, plain, taken, device, samePSK>>
  BY DEF PumpFails, SendFails, Return, fixed
<1>2. EndpointOK' /\ StreamsOK' /\ Uses /\ UNCHANGED <<collected, delivered, endpoint>>
  BY <1>1, HostStaysFaulted
<1>3. PlainOK'
  BY <1>1, <1>2, SamePlain DEF plain
<1>4. call = "handshake"
  BY <1>1 DEF IInv, FlightOK
<1>5. BridgeOK'
  BY <1>1 DEF IInv, BridgeOK, device
<1>6. FlightOK'
  BY <1>1, <1>2, <1>4 DEF IInv, FlightOK, device
<1>7. QED
  BY <1>2, <1>3, <1>5, <1>6 DEF IInv

\* What the bridge does not see: the goroutine's end, time, and the EC.
LEMMA ElsewhereStep ==
  ASSUME IInv, UNCHANGED <<host, bridge, inhand, buf, taken, samePSK>>,
         ec'.got = ec.got, ec' \in [pending : {ec'.pending}, half : {ec'.half}, got : {ec'.got}]
  PROVE  IInv' /\ Uses
<1>1. EndpointOK' /\ StreamsOK' /\ Uses /\ UNCHANGED <<collected, delivered, endpoint>>
  BY HostStaysFaulted
<1>2. PlainOK'
  BY <1>1, SamePlain
<1>3. BridgeOK' /\ FlightOK'
  BY <1>1 DEF IInv, BridgeOK, FlightOK, bridge
<1>4. QED
  BY <1>1, <1>2, <1>3 DEF IInv

LEMMA ECStep ==
  ASSUME IInv, ECSends \/ ECImage \/ ECMessage \/ ECAlert
  PROVE  IInv' /\ Uses
<1>1. UNCHANGED <<host, bridge, inhand, buf, taken, samePSK>>
  BY DEF ECSends, ECImage, ECMessage, ECAlert, plain, fixed
<1>2. \/ ec' = ec
      \/ \E p, h : ec' = [ec EXCEPT !.pending = p, !.half = h]
      \/ \E p : ec' = [ec EXCEPT !.pending = p]
  BY Zenon DEF ECSends, ECImage, ECMessage, ECAlert
<1>3. ec'.got = ec.got /\ ec' \in [pending : {ec'.pending}, half : {ec'.half}, got : {ec'.got}]
  BY <1>2 DEF IInv, BridgeOK
<1>4. QED
  BY <1>1, <1>3, ElsewhereStep

LEMMA AsideStep ==
  ASSUME IInv, GoroutineEnds \/ Settle \/ Expire
  PROVE  IInv' /\ Uses
<1>1. UNCHANGED <<host, bridge, inhand, buf, taken, samePSK, ec>>
  BY DEF GoroutineEnds, Settle, Expire, plain, fixed, device
<1>2. ec' \in [pending : {ec'.pending}, half : {ec'.half}, got : {ec'.got}]
  BY <1>1 DEF IInv, BridgeOK
<1>3. QED
  BY <1>1, <1>2, ElsewhereStep

\* The endpoint is closed or cancelled.
LEMMA EndStep ==
  ASSUME IInv, Close \/ Canceled
  PROVE  IInv' /\ Uses
<1>1. /\ Break
      /\ UNCHANGED <<arrived, delivered, emitted, collected, endpoint, bridge, plain, taken, device, samePSK>>
  BY DEF Close, Canceled, EndpointBreaks, Break, fixed
<1>2. EndpointOK' /\ StreamsOK'
  BY <1>1 DEF IInv, EndpointOK, StreamsOK
<1>3. PlainOK'
  BY <1>1, SamePlain DEF plain
<1>4. BridgeOK' /\ FlightOK'
  BY <1>1, SameBridge DEF bridge, device
<1>5. QED
  BY <1>1, <1>2, <1>3, <1>4 DEF IInv, Uses, StreamNext

LEMMA GoroutineStep ==
  ASSUME IInv, GoroutineReads \/ GoroutineAppends
  PROVE  IInv' /\ Uses
<1>1. CASE GoroutineReads
  <2>1. EndpointOK' /\ StreamsOK' /\ PlainOK' /\ Uses
    BY <1>1, GoroutineReadsStep
  <2>2. UNCHANGED <<b, call, pc, flight, ec>> /\ UNCHANGED <<collected, endpoint>>
    BY <1>1 DEF GoroutineReads, bridge, device
  <2>3. BridgeOK' /\ FlightOK'
    BY <2>2, SameBridge
  <2>4. QED
    BY <2>1, <2>3 DEF IInv
<1>2. CASE GoroutineAppends
  <2>1. UNCHANGED host /\ UNCHANGED fixed /\ UNCHANGED <<b, call, pc, flight, ec>>
    BY <1>2 DEF GoroutineAppends, bridge, device
  <2>2. EndpointOK' /\ StreamsOK' /\ Uses /\ UNCHANGED <<collected, delivered, endpoint>>
    BY <2>1, HostStays
  <2>3. PlainOK'
    BY <1>2, GoroutineAppendsStep
  <2>4. BridgeOK' /\ FlightOK'
    BY <2>1, <2>2, SameBridge
  <2>5. QED
    BY <2>2, <2>3, <2>4 DEF IInv
<1>3. QED
  BY <1>1, <1>2

-----------------------------------------------------------------------------
(* The specification *)

LEMMA InitIInv ==
  ASSUME Init
  PROVE  IInv
<1>1. EndpointOK
  BY DEF Init, StreamInit, EndpointOK
<1>2. StreamsOK
  <2>1. /\ arrived = <<>> /\ delivered = <<>> /\ emitted = <<>> /\ collected = <<>>
    BY DEF Init, StreamInit
  <2>2. SubSeq(<<>>, 1, Len(<<>>)) = <<>>
    OBVIOUS
  <2>3. QED
    BY <2>1, <2>2 DEF StreamsOK
<1>3. PlainOK
  BY DEF Init, StreamInit, PlainOK, PlaintextInOrder
<1>4. BridgeOK
  BY DEF Init, BridgeOK, StartLoopbackEC
<1>5. FlightOK
  BY DEF Init, StreamInit, FlightOK, StartLoopbackEC
<1>6. QED
  BY <1>1, <1>2, <1>3, <1>4, <1>5 DEF IInv

LEMMA NextIInv ==
  ASSUME IInv, [Next]_vars
  PROVE  IInv' /\ Uses
<1>1. CASE Handshake
  BY <1>1, HandshakeStep
<1>2. CASE ReadApplicationData
  BY <1>2, ReadApplicationDataStep
<1>3. CASE Step
  BY <1>3, TopStep, RecvStep, BridgeMoves, DeliverStep, PumpRecordStep, DropFlight, SendFlightStep,
     CheckStep DEF Step
<1>4. CASE Goroutine
  BY <1>4, GoroutineStep, AsideStep DEF Goroutine
<1>5. CASE Settle \/ Expire
  BY <1>5, AsideStep
<1>6. CASE Close
  BY <1>6, EndStep
<1>7. CASE ECSends \/ ECImage \/ ECMessage
  BY <1>7, ECStep
<1>8. CASE Fault
  BY <1>8, BridgeMoves, DropFlight, EndStep, ECStep DEF Fault
<1>9. CASE UNCHANGED vars
  <2>1. UNCHANGED <<host, bridge, inhand, buf, taken, samePSK, ec>>
    BY <1>9 DEF vars, plain, device, fixed
  <2>2. ec' \in [pending : {ec'.pending}, half : {ec'.half}, got : {ec'.got}]
    BY <2>1 DEF IInv, BridgeOK
  <2>3. QED
    BY <2>1, <2>2, ElsewhereStep
<1>10. QED
  BY <1>1, <1>2, <1>3, <1>4, <1>5, <1>6, <1>7, <1>8, <1>9 DEF Next

LEMMA BridgeInductive == Spec => []IInv
<1>1. IInv /\ [Next]_vars => IInv'
  BY NextIInv
<1>2. QED
  BY InitIInv, <1>1, PTL DEF Spec

\* Whatever is sent to the bridge, in whatever pieces: a handshake it reports
\* has verified the EC's Finished under the same key and has sent the EC both
\* of the host's flights, each record once (Handshake, PumpHost, sendFlight).
THEOREM BridgeHandshakeIsEarned == Spec => []HandshakeIsEarned
<1>1. IInv => HandshakeIsEarned
  BY DEF IInv, EndpointOK, FlightOK, BridgeOK, HandshakeIsEarned, BothFlights
<1>2. QED
  BY BridgeInductive, <1>1, PTL

\* The image records that ReadApplicationData has returned, those buffered and
\* those the goroutine holds are what the endpoint gave, in order, for any
\* limit and any number of bursts (plainBuf).
THEOREM BridgePlaintextInOrder == Spec => []PlaintextInOrder
<1>1. IInv => PlaintextInOrder
  BY DEF IInv, PlainOK
<1>2. QED
  BY BridgeInductive, <1>1, PTL

\* The bridge asks of the endpoint only what SecureStream specifies, so it may
\* be run over tlspsk, which implements SecureStream (session.Endpoint).
THEOREM BridgeUsesAStream == Spec => UsesAStream
<1>1. IInv /\ [Next]_vars => [StreamNext]_streamVars
  BY NextIInv DEF Uses
<1>2. QED
  BY BridgeInductive, <1>1, PTL DEF Spec, UsesAStream

-----------------------------------------------------------------------------
(* No call fails unless a key, the USB or the EC did *)

Names == {"ClientHello", "ClientKeyExchange", "ChangeCipherSpec", "Finished", "AppData", "Alert"}
Pieces == [rec : Names, part : {"whole", "head", "tail"}]

\* The i-th record of the EC, how many it has made, and how many were taken.
Record(i) == IF i <= 4 THEN ClientRecords[i] ELSE "AppData"
Made == IF Len(ec.got) < 2 THEN 1 ELSE 4 + images
Consumed == endpoint.taken + Len(arrived)

\* A transfer that carries records m + 1 to n, and perhaps the head of the next.
Carries(w, m, n) ==
  /\ m <= n /\ Len(w) \in {n - m, n - m + 1}
  /\ \A i \in 1..Len(w) : (w[i].part = "head") = (i = n - m + 1)
  /\ \A i \in 1..(n - m) : w[i].rec = Record(m + i)

\* The endpoint has taken some of the EC's records; the others are, in their order,
\* in the transfer that is being delivered, in those on the wire, which c cuts the
\* records into, and with the EC.
Cuts(c) ==
  /\ Carries(todo, Consumed, c[1])
  /\ \A i \in 1..Len(wire) : Carries(wire[i], c[i], c[i + 1])
  /\ \A i, j \in 1..(Len(wire) + 1) : i <= j => c[i] <= c[j]
  /\ c[Len(wire) + 1] + Len(ec.pending) = Made
  /\ \A i \in 1..Len(ec.pending) : ec.pending[i] = Record(c[Len(wire) + 1] + i)
Coming == \E c \in [1..(Len(wire) + 1) -> Nat] : Cuts(c)

RecordsOK ==
  /\ todo \in Seq(Pieces) /\ wire \in Seq(Seq(Pieces))
  /\ ec.pending \in Seq(Names) /\ ec.half \in BOOLEAN /\ images \in 0..MaxImages
  /\ Len(ec.got) <= 4 /\ \A i \in 1..Len(ec.got) : ec.got[i] = BothFlights[i]
  /\ arrived # <<>> => endpoint.taken = 4
  /\ images > 0 => Len(ec.got) = 4
  /\ samePSK \in BOOLEAN /\ faulted \in BOOLEAN

\* A call is under way only with an endpoint that works.
Untroubled ==
  /\ outcome # "error" /\ failure \in {"nil", "ErrClosed"} /\ (failure = "nil" \/ pc = "idle")
  /\ rerr # "nil" => failure # "nil"

Delivering == pc = "deliver" <=> todo # <<>>
Good == Untroubled /\ Coming
Honest == samePSK = TRUE /\ faulted = FALSE => Good

HInv == IInv /\ RecordsOK /\ Delivering /\ Honest

LEMMA RecordTypes ==
  ASSUME RecordsOK, IInv
  PROVE  /\ Made \in Nat /\ Consumed \in Nat /\ Len(wire) \in Nat /\ Len(ec.pending) \in Nat
         /\ Len(ec.got) \in 0..4 /\ Len(todo) \in Nat /\ Len(arrived) \in Nat
         /\ endpoint.taken \in 0..4 /\ images \in Nat
         /\ \A i \in Nat \ {0} : Record(i) \in Names \ {"Alert"}
         /\ images = 0 \/ Len(ec.got) = 4
<1>1. /\ Len(wire) \in Nat /\ Len(ec.pending) \in Nat /\ Len(todo) \in Nat /\ images \in Nat
      /\ images = 0 \/ Len(ec.got) = 4
  BY DEF RecordsOK
<1>2. Len(ec.got) \in 0..4 /\ Len(arrived) \in Nat /\ endpoint.taken \in 0..4
  <2>1. ec.got \in Seq(HostRecords) /\ arrived \in Seq(Nat)
    BY DEF IInv, BridgeOK, StreamsOK
  <2>2. Len(ec.got) \in Nat /\ Len(arrived) \in Nat
    BY <2>1
  <2>3. Len(ec.got) <= 4 /\ endpoint.taken \in 0..4
    BY EmittedType DEF RecordsOK
  <2>4. \A k \in Nat : k <= 4 => k \in 0..4
    OBVIOUS
  <2>5. QED
    BY <2>2, <2>3, <2>4, Zenon
<1>3. \A i \in Nat \ {0} : Record(i) \in Names \ {"Alert"}
  <2>1. /\ ClientRecords[1] = "ClientHello" /\ ClientRecords[2] = "ClientKeyExchange"
        /\ ClientRecords[3] = "ChangeCipherSpec" /\ ClientRecords[4] = "Finished"
    BY DEF ClientRecords
  <2>2. QED
    BY <2>1 DEF Record, Names
<1>4. QED
  BY <1>1, <1>2, <1>3 DEF Made, Consumed

LEMMA SameRecords ==
  ASSUME RecordsOK, UNCHANGED <<todo, wire, ec, images, endpoint, arrived, samePSK>>,
         faulted' \in BOOLEAN
  PROVE  RecordsOK' /\ (Coming => Coming')
<1>1. RecordsOK'
  BY DEF RecordsOK
<1>2. ASSUME NEW c, Cuts(c) PROVE Cuts(c)'
  BY <1>2 DEF Cuts, Carries, Consumed, Made, Record
<1>3. QED
  BY <1>1, <1>2 DEF Coming

\* An empty transfer carries nothing.
LEMMA NothingCarried ==
  ASSUME NEW m \in Nat
  PROVE  Carries(<<>>, m, m)
<1>1. Len(<<>>) = 0 /\ m - m = 0 /\ m - m + 1 = 1 /\ m <= m
  OBVIOUS
<1>2. (\A i \in 1..0 : (<<>>[i].part = "head") = (i = m - m + 1)) /\ (\A i \in 1..0 : <<>>[i].rec = Record(m + i))
  OBVIOUS
<1>3. QED
  BY <1>1, <1>2 DEF Carries

\* An empty transfer, and what a transfer begins with.
LEMMA FirstPiece ==
  ASSUME NEW w \in Seq(Pieces), NEW m \in Nat, NEW n \in Nat, Carries(w, m, n)
  PROVE  /\ w = <<>> => m = n
         /\ w # <<>> /\ w[1].part = "head" => m = n /\ Tail(w) = <<>>
         /\ w # <<>> /\ w[1].part # "head" =>
              m + 1 <= n /\ w[1].rec = Record(m + 1) /\ Carries(Tail(w), m + 1, n)
<1>1. Len(w) \in Nat /\ (w = <<>> <=> Len(w) = 0)
  OBVIOUS
<1>2. /\ m <= n /\ Len(w) \in {n - m, n - m + 1}
      /\ \A i \in 1..Len(w) : (w[i].part = "head") = (i = n - m + 1)
      /\ \A i \in 1..(n - m) : w[i].rec = Record(m + i)
  BY DEF Carries
<1>3. w = <<>> => m = n
  BY <1>1, <1>2
<1>4. ASSUME w # <<>>, w[1].part = "head" PROVE m = n /\ Tail(w) = <<>>
  <2>1. 1 \in 1..Len(w) /\ Len(w) # 0
    BY <1>1, <1>4
  <2>2. 1 = n - m + 1
    <3>1. (w[1].part = "head") = (1 = n - m + 1)
      BY <1>2, <2>1
    <3>2. QED
      BY <3>1, <1>4
  <2>3. m = n /\ Len(w) = 1
    <3>1. m = n
      BY <2>2
    <3>2. Len(w) \in {n - m, n - m + 1}
      BY <1>2
    <3>3. QED
      BY <2>1, <3>1, <3>2
  <2>4. Len(Tail(w)) = 0 /\ Tail(w) \in Seq(Pieces)
    BY <1>4, <2>3
  <2>5. \A t \in Seq(Pieces) : Len(t) = 0 => t = <<>>
    OBVIOUS
  <2>6. QED
    BY <2>3, <2>4, <2>5
<1>5. ASSUME w # <<>>, w[1].part # "head"
      PROVE  m + 1 <= n /\ w[1].rec = Record(m + 1) /\ Carries(Tail(w), m + 1, n)
  <2>1. 1 \in 1..Len(w) /\ 1 # n - m + 1
    BY <1>1, <1>2, <1>5
  <2>2. m + 1 <= n /\ 1 \in 1..(n - m)
    BY <1>2, <2>1
  <2>3. w[1].rec = Record(m + 1)
    BY <1>2, <2>2
  <2>4. /\ Tail(w) \in Seq(Pieces) /\ Len(Tail(w)) = Len(w) - 1
        /\ \A i \in 1..(Len(w) - 1) : Tail(w)[i] = w[i + 1]
    BY <1>5
  <2> DEFINE t == Tail(w)
  <2> HIDE DEF t
  <2>5. Len(t) = Len(w) - 1 /\ \A i \in 1..(Len(w) - 1) : t[i] = w[i + 1]
    BY <2>4 DEF t
  <2>6. Len(t) \in {n - (m + 1), n - (m + 1) + 1}
    BY <1>1, <1>2, <2>5
  <2>7. ASSUME NEW i \in 1..Len(t) PROVE (t[i].part = "head") = (i = n - (m + 1) + 1)
    <3>1. i + 1 \in 1..Len(w) /\ t[i] = w[i + 1]
      BY <1>1, <2>5
    <3>2. (w[i + 1].part = "head") = (i + 1 = n - m + 1)
      BY <1>2, <3>1
    <3>3. QED
      BY <3>1, <3>2
  <2>8. ASSUME NEW i \in 1..(n - (m + 1)) PROVE t[i].rec = Record((m + 1) + i)
    <3>1. i + 1 \in 1..(n - m) /\ t[i] = w[i + 1] /\ m + (i + 1) = (m + 1) + i
      BY <1>1, <1>2, <2>5
    <3>2. w[i + 1].rec = Record(m + (i + 1))
      BY <1>2, <3>1
    <3>3. QED
      BY <3>1, <3>2
  <2>9. Carries(t, m + 1, n)
    BY <2>2, <2>6, <2>7, <2>8 DEF Carries
  <2>10. QED
    BY <2>2, <2>3, <2>9 DEF t
<1>6. QED
  BY <1>3, <1>4, <1>5

\* No transfer of an honest EC is an alert.
LEMMA NoAlert ==
  ASSUME RecordsOK, IInv, NEW m \in Nat, NEW n \in Nat, NEW w \in Seq(Pieces), Carries(w, m, n)
  PROVE  w # <<Whole("Alert")>>
<1>1. SUFFICES ASSUME w = <<Whole("Alert")>> PROVE FALSE
  OBVIOUS
<1>2. w # <<>> /\ w[1].part = "whole" /\ w[1].rec = "Alert"
  BY <1>1 DEF Whole, Piece
<1>3. w[1].rec = Record(m + 1)
  BY <1>2, FirstPiece
<1>4. m + 1 \in Nat \ {0}
  OBVIOUS
<1>5. QED
  BY <1>2, <1>3, <1>4, RecordTypes

-----------------------------------------------------------------------------
\* A transfer leaves the wire for the endpoint.
LEMMA ReceivedIsComing ==
  ASSUME RecordsOK, IInv, Coming, todo = <<>>, wire # <<>>, wire' = Tail(wire),
         todo' = Head(wire), UNCHANGED <<ec, images, endpoint, arrived>>
  PROVE  Coming' /\ Head(wire) \in Seq(Pieces) /\ Head(wire) # <<Whole("Alert")>>
<1>0. PICK n \in Nat : n = Len(wire)
  BY DEF RecordsOK
<1>1. /\ n \in Nat /\ n = Len(wire) /\ n >= 1 /\ Len(wire') = n - 1 /\ wire \in Seq(Seq(Pieces))
      /\ \A i \in 1..(n - 1) : wire'[i] = wire[i + 1]
      /\ Head(wire) = wire[1] /\ wire[1] \in Seq(Pieces)
  BY <1>0 DEF RecordsOK
<1>2. PICK c \in [1..(n + 1) -> Nat] : Cuts(c)
  BY <1>0 DEF Coming
<1>3. /\ Carries(todo, Consumed, c[1])
      /\ \A i \in 1..n : Carries(wire[i], c[i], c[i + 1])
      /\ \A i, j \in 1..(n + 1) : i <= j => c[i] <= c[j]
      /\ c[n + 1] + Len(ec.pending) = Made
      /\ \A i \in 1..Len(ec.pending) : ec.pending[i] = Record(c[n + 1] + i)
  BY <1>1, <1>2 DEF Cuts
<1>4. c[1] \in Nat /\ c[2] \in Nat /\ Consumed = c[1]
  <2>1. c[1] \in Nat /\ c[2] \in Nat
    <3>1. 1 \in 1..(n + 1) /\ 2 \in 1..(n + 1)
      BY <1>1
    <3>2. QED
      BY <3>1
  <2>2. <<>> \in Seq(Pieces) /\ Consumed \in Nat
    BY RecordTypes
  <2>3. QED
    BY <1>3, <2>1, <2>2, FirstPiece
<1>5. Carries(wire[1], c[1], c[2]) /\ wire[1] # <<Whole("Alert")>>
  <2>1. 1 \in 1..n /\ 1 + 1 = 2
    BY <1>1
  <2>2. Carries(wire[1], c[1], c[2])
    BY <1>3, <2>1
  <2>3. QED
    BY <1>1, <1>4, <2>2, NoAlert
<1>6. PICK d \in [1..n -> Nat] : \A i \in 1..n : d[i] = c[i + 1]
  <2>1. \A i \in 1..n : i + 1 \in 1..(n + 1)
    BY <1>1
  <2>2. [i \in 1..n |-> c[i + 1]] \in [1..n -> Nat]
    BY <2>1
  <2>3. QED
    BY <2>2
<1>7. d[1] = c[2] /\ d[n] = c[n + 1]
  BY <1>1, <1>6
<1>8. \A i \in 1..(n - 1) : Carries(wire'[i], d[i], d[i + 1])
  <2>1. SUFFICES ASSUME NEW i \in 1..(n - 1) PROVE Carries(wire'[i], d[i], d[i + 1])
    OBVIOUS
  <2>2. /\ i \in 1..n /\ i + 1 \in 1..n /\ wire'[i] = wire[i + 1]
        /\ d[i] = c[i + 1] /\ d[i + 1] = c[(i + 1) + 1]
    BY <1>1, <1>6
  <2>3. QED
    BY <1>3, <2>2
<1>9. \A i, j \in 1..n : i <= j => d[i] <= d[j]
  <2>1. \A i \in 1..n : i + 1 \in 1..(n + 1)
    BY <1>1
  <2>2. \A i, j \in 1..n : i <= j => i + 1 <= j + 1
    OBVIOUS
  <2>3. QED
    BY <1>3, <1>6, <2>1, <2>2
<1>10. Cuts(d)'
  <2>1. Carries(todo', Consumed', d[1])
    BY <1>1, <1>4, <1>5, <1>7 DEF Consumed
  <2>2. Len(wire') + 1 = n /\ ec'.pending = ec.pending /\ Made' = Made
    BY <1>1 DEF Made
  <2>3. /\ \A i \in 1..Len(wire') : Carries(wire'[i], d[i], d[i + 1])
        /\ \A i, j \in 1..(Len(wire') + 1) : i <= j => d[i] <= d[j]
        /\ d[Len(wire') + 1] + Len(ec'.pending) = Made'
        /\ \A i \in 1..Len(ec'.pending) : ec'.pending[i] = Record(d[Len(wire') + 1] + i)
    BY <1>1, <1>3, <1>7, <1>8, <1>9, <2>2
  <2>4. QED
    BY <2>1, <2>3 DEF Cuts, Carries, Record
<1>11. QED
  <2>1. Len(wire') + 1 = n
    BY <1>1
  <2>2. Coming'
    BY <1>6, <1>10, <2>1 DEF Coming
  <2>3. QED
    BY <1>1, <1>5, <2>2

\* The transfer that is delivered loses its first piece, of a record or its head.
LEMMA TakenIsComing ==
  ASSUME RecordsOK, IInv, Coming, todo # <<>>, todo' = Tail(todo),
         UNCHANGED <<ec, images, wire>>,
         Consumed' = IF Head(todo).part = "head" THEN Consumed ELSE Consumed + 1
  PROVE  Coming'
<1>1. todo \in Seq(Pieces) /\ Head(todo) = todo[1] /\ Consumed \in Nat /\ Len(wire) \in Nat
  BY RecordTypes DEF RecordsOK
<1>2. PICK c \in [1..(Len(wire) + 1) -> Nat] : Cuts(c)
  BY DEF Coming
<1>3. c[1] \in Nat /\ Carries(todo, Consumed, c[1])
  BY <1>1, <1>2 DEF Cuts
<1>4. Carries(todo', Consumed', c[1])
  <2>1. CASE todo[1].part = "head"
    <3>1. todo' = <<>> /\ c[1] = Consumed /\ Consumed' = Consumed
      BY <1>1, <1>3, <2>1, FirstPiece
    <3>2. Carries(<<>>, Consumed, Consumed)
      BY <1>1, NothingCarried
    <3>3. QED
      BY <3>1, <3>2
  <2>2. CASE todo[1].part # "head"
    BY <1>1, <1>3, <2>2, FirstPiece
  <2>3. QED
    BY <2>1, <2>2
<1>5. Cuts(c)'
  BY <1>2, <1>4 DEF Cuts, Carries, Record, Made
<1>6. QED
  BY <1>2, <1>5 DEF Coming

\* What the endpoint is given next, if it is not the head of a record.
LEMMA NextRecord ==
  ASSUME RecordsOK, IInv, Coming, todo # <<>>, Head(todo).part # "head"
  PROVE  Head(todo).rec = Record(Consumed + 1) /\ Consumed + 1 <= Made
<1>1. /\ todo \in Seq(Pieces) /\ Head(todo) = todo[1] /\ Consumed \in Nat /\ Len(wire) \in Nat
      /\ Len(ec.pending) \in Nat /\ Made \in Nat
  BY RecordTypes DEF RecordsOK
<1>2. PICK c \in [1..(Len(wire) + 1) -> Nat] : Cuts(c)
  BY DEF Coming
<1>3. /\ c[1] \in Nat /\ c[Len(wire) + 1] \in Nat /\ Carries(todo, Consumed, c[1])
      /\ c[1] <= c[Len(wire) + 1] /\ c[Len(wire) + 1] + Len(ec.pending) = Made
  BY <1>1, <1>2 DEF Cuts
<1>4. Head(todo).rec = Record(Consumed + 1) /\ Consumed + 1 <= c[1]
  BY <1>1, <1>3, FirstPiece
<1>5. QED
  BY <1>1, <1>3, <1>4

-----------------------------------------------------------------------------
\* The EC makes more records.
LEMMA MoreIsComing ==
  ASSUME RecordsOK, IInv, Coming, UNCHANGED <<todo, wire, endpoint, arrived>>,
         NEW more \in Seq(Names), ec'.pending = ec.pending \o more, Made' = Made + Len(more),
         \A i \in 1..Len(more) : more[i] = Record(Made + i)
  PROVE  Coming'
<1>1. /\ Len(wire) \in Nat /\ Made \in Nat /\ ec.pending \in Seq(Names)
      /\ Len(ec.pending) \in Nat /\ Len(more) \in Nat
  BY RecordTypes DEF RecordsOK
<1>2. PICK c \in [1..(Len(wire) + 1) -> Nat] : Cuts(c)
  BY DEF Coming
<1>3. PICK k \in Nat : k = c[Len(wire) + 1]
  BY <1>1
<1>4. /\ k + Len(ec.pending) = Made
      /\ \A i \in 1..Len(ec.pending) : ec.pending[i] = Record(k + i)
  BY <1>2, <1>3 DEF Cuts
<1>5. /\ Len(ec.pending \o more) = Len(ec.pending) + Len(more)
      /\ \A i \in 1..(Len(ec.pending) + Len(more)) :
           (ec.pending \o more)[i] = IF i <= Len(ec.pending) THEN ec.pending[i] ELSE more[i - Len(ec.pending)]
  BY <1>1, ConcatProperties
<1>6. k + Len(ec'.pending) = Made'
  BY <1>1, <1>4, <1>5
<1>7. ASSUME NEW i \in 1..Len(ec'.pending) PROVE ec'.pending[i] = Record(k + i)
  <2>1. i \in 1..(Len(ec.pending) + Len(more))
    BY <1>5
  <2>2. CASE i <= Len(ec.pending)
    <3>1. i \in 1..Len(ec.pending)
      BY <2>1, <2>2
    <3>2. QED
      BY <1>4, <1>5, <2>1, <2>2, <3>1
  <2>3. CASE ~(i <= Len(ec.pending))
    <3>0. \A p, q \in Nat : \A x \in 1..(p + q) : ~(x <= p) =>
             x - p \in 1..q /\ (k + p) + (x - p) = k + x
      OBVIOUS
    <3>1. PICK j \in 1..Len(more) : j = i - Len(ec.pending)
      BY <1>1, <2>1, <2>3, <3>0
    <3>2. Made + j = k + i
      <4>1. (k + Len(ec.pending)) + (i - Len(ec.pending)) = k + i
        BY <1>1, <2>1, <2>3, <3>0
      <4>2. QED
        BY <1>4, <3>1, <4>1
    <3>3. ec'.pending[i] = more[j]
      BY <1>5, <2>1, <2>3, <3>1
    <3>4. QED
      BY <3>1, <3>2, <3>3
  <2>4. QED
    BY <2>2, <2>3
<1>8. Cuts(c)'
  BY <1>2, <1>3, <1>6, <1>7 DEF Cuts, Carries, Record, Consumed
<1>9. QED
  BY <1>2, <1>8 DEF Coming

\* A transfer with n of its records, and perhaps the head of the next, goes on the wire.
LEMMA SentIsComing ==
  ASSUME RecordsOK, IInv, Coming, UNCHANGED <<todo, endpoint, arrived>>, Made' = Made,
         NEW t \in Seq(Pieces), wire' = Append(wire, t),
         NEW n \in Nat, n <= Len(ec.pending), Len(t) \in {n, n + 1},
         \A i \in 1..Len(t) : (t[i].part = "head") = (i = n + 1),
         \A i \in 1..n : t[i].rec = ec.pending[i],
         Len(ec'.pending) = Len(ec.pending) - n,
         \A i \in 1..(Len(ec.pending) - n) : ec'.pending[i] = ec.pending[n + i]
  PROVE  Coming'
<1>0. PICK l \in Nat : l = Len(wire)
  BY DEF RecordsOK
<1>1. /\ Made \in Nat /\ Len(ec.pending) \in Nat /\ Len(t) \in Nat
      /\ Len(wire') = l + 1 /\ wire'[l + 1] = t /\ \A i \in 1..l : wire'[i] = wire[i]
  BY <1>0, RecordTypes DEF RecordsOK
<1>2. PICK c \in [1..(l + 1) -> Nat] : Cuts(c)
  BY <1>0 DEF Coming
<1>3. PICK k \in Nat : k = c[l + 1]
  OBVIOUS
<1>4. /\ Carries(todo, Consumed, c[1])
      /\ \A i \in 1..l : Carries(wire[i], c[i], c[i + 1])
      /\ \A i, j \in 1..(l + 1) : i <= j => c[i] <= c[j]
      /\ k + Len(ec.pending) = Made
      /\ \A i \in 1..Len(ec.pending) : ec.pending[i] = Record(k + i)
  BY <1>0, <1>2, <1>3 DEF Cuts
<1>5. PICK d \in [1..(l + 2) -> Nat] : (\A i \in 1..(l + 1) : d[i] = c[i]) /\ d[l + 2] = k + n
  <2>1. ASSUME NEW i \in 1..(l + 2) PROVE (IF i = l + 2 THEN k + n ELSE c[i]) \in Nat
    BY <2>1
  <2>2. [i \in 1..(l + 2) |-> IF i = l + 2 THEN k + n ELSE c[i]] \in [1..(l + 2) -> Nat]
    BY <2>1
  <2>3. \A i \in 1..(l + 1) : i # l + 2 /\ i \in 1..(l + 2)
    OBVIOUS
  <2>4. l + 2 \in 1..(l + 2)
    OBVIOUS
  <2>5. QED
    BY <2>2, <2>3, <2>4
<1>6. Carries(t, k, k + n)
  <2>1. k <= k + n /\ k + n - k = n
    OBVIOUS
  <2>2. \A i \in 1..n : t[i].rec = Record(k + i)
    BY <1>1, <1>4
  <2>3. QED
    BY <2>1, <2>2 DEF Carries
<1>7. ASSUME NEW i \in 1..(l + 1) PROVE Carries(wire'[i], d[i], d[i + 1])
  <2>1. CASE i = l + 1
    <3>1. d[i] = k /\ d[i + 1] = k + n /\ wire'[i] = t
      BY <1>1, <1>3, <1>5, <2>1
    <3>2. QED
      BY <1>6, <3>1
  <2>2. CASE i # l + 1
    <3>1. i \in 1..l /\ i \in 1..(l + 1) /\ i + 1 \in 1..(l + 1)
      BY <2>2
    <3>2. d[i] = c[i] /\ d[i + 1] = c[i + 1] /\ wire'[i] = wire[i]
      BY <1>1, <1>5, <3>1
    <3>3. QED
      BY <1>4, <3>1, <3>2
  <2>3. QED
    BY <2>1, <2>2
<1>8. ASSUME NEW i \in 1..(l + 2), NEW j \in 1..(l + 2), i <= j PROVE d[i] <= d[j]
  <2>1. CASE j = l + 2
    <3>1. i = l + 2 \/ (i \in 1..(l + 1) /\ l + 1 \in 1..(l + 1) /\ i <= l + 1)
      OBVIOUS
    <3>2. CASE i = l + 2
      BY <2>1, <3>2, <1>5
    <3>3. CASE i \in 1..(l + 1) /\ l + 1 \in 1..(l + 1) /\ i <= l + 1
      <4>1. c[i] <= c[l + 1] /\ c[i] \in Nat
        BY <1>4, <3>3
      <4>2. d[i] = c[i] /\ d[j] = k + n
        BY <1>5, <2>1, <3>3
      <4>3. QED
        BY <1>3, <4>1, <4>2
    <3>4. QED
      BY <3>1, <3>2, <3>3
  <2>2. CASE j # l + 2
    <3>1. i \in 1..(l + 1) /\ j \in 1..(l + 1)
      BY <1>8, <2>2
    <3>2. QED
      BY <1>4, <1>5, <1>8, <3>1
  <2>3. QED
    BY <2>1, <2>2
<1>9. d[1] = c[1]
  BY <1>5
<1>10. d[l + 2] + Len(ec'.pending) = Made'
  <2>1. \A p \in Nat : (k + n) + (p - n) = k + p
    OBVIOUS
  <2>2. (k + n) + (Len(ec.pending) - n) = k + Len(ec.pending)
    BY <1>1, <2>1
  <2>3. QED
    BY <1>4, <1>5, <2>2
<1>11. ASSUME NEW i \in 1..Len(ec'.pending) PROVE ec'.pending[i] = Record(d[l + 2] + i)
  <2>1. PICK p \in Nat : p = Len(ec.pending)
    BY <1>1
  <2>2. n <= p /\ i \in 1..(p - n)
    BY <2>1
  <2>3. n + i \in 1..p /\ k + (n + i) = (k + n) + i
    BY <2>2
  <2>4. ec.pending[n + i] = Record(k + (n + i))
    BY <1>4, <2>1, <2>3, Zenon
  <2>5. ec'.pending[i] = ec.pending[n + i]
    BY <2>1, <2>2, Zenon
  <2>6. QED
    BY <1>5, <2>3, <2>4, <2>5, Zenon
<1>12. Len(wire') + 1 = l + 2 /\ Consumed' = Consumed
  BY <1>1 DEF Consumed
<1>13. /\ Carries(todo', Consumed', d[1])
       /\ \A i \in 1..Len(wire') : Carries(wire'[i], d[i], d[i + 1])
       /\ \A i, j \in 1..(Len(wire') + 1) : i <= j => d[i] <= d[j]
       /\ d[Len(wire') + 1] + Len(ec'.pending) = Made'
       /\ \A i \in 1..Len(ec'.pending) : ec'.pending[i] = Record(d[Len(wire') + 1] + i)
  <2>1. \A i, j \in 1..(l + 2) : i <= j => d[i] <= d[j]
    BY <1>8
  <2>2. QED
    BY <1>1, <1>4, <1>7, <1>9, <1>10, <1>11, <1>12, <2>1
<1>14. Cuts(d)'
  BY <1>13 DEF Cuts, Carries, Record
<1>15. QED
  BY <1>5, <1>12, <1>14 DEF Coming

-----------------------------------------------------------------------------
\* The endpoint decrypts records only once it has all the others.
LEMMA DataIsLast ==
  ASSUME IInv, NEW piece, EndpointTakes(piece), arrived # <<>> => endpoint.taken = 4
  PROVE  arrived' # <<>> => endpoint'.taken = 4
<1> DEFINE r == piece.rec
           data == IF r = "AppData" THEN <<Len(arrived) + 1>> ELSE <<>>
<1>1. CASE UNCHANGED arrived /\ (endpoint' = endpoint \/ endpoint' = [endpoint EXCEPT !.part = TRUE])
  BY <1>1 DEF IInv, EndpointOK
<1>2. CASE /\ Accepts(r) /\ arrived' = arrived \o data
           /\ endpoint' = [taken |-> IF data = <<>> THEN endpoint.taken + 1 ELSE 4, part |-> FALSE]
  <2>1. CASE r = "AppData"
    <3>1. <<Len(arrived) + 1>> # <<>>
      OBVIOUS
    <3>2. QED
      BY <1>2, <2>1, <3>1
  <2>2. CASE r # "AppData"
    <3>1. data = <<>> /\ endpoint.taken \in 0..3
      BY <2>2, <1>2, EmittedType DEF Accepts
    <3>2. arrived \o <<>> = arrived
      BY ConcatEmptySeq DEF IInv, StreamsOK
    <3>3. QED
      BY <1>2, <3>1, <3>2
  <2>3. QED
    BY <2>1, <2>2
<1>3. QED
  BY <1>1, <1>2, Zenon DEF EndpointTakes, host, streamVars

LEMMA DeliverKeepsRecords ==
  ASSUME IInv, RecordsOK, Delivering, Deliver
  PROVE  RecordsOK' /\ Delivering'
<1>1. /\ pc = "deliver" /\ EndpointTakes(Head(todo)) /\ UNCHANGED <<device, fixed>>
      /\ \/ todo' = <<>> /\ pc' = "idle"
         \/ todo' = Tail(todo) /\ pc' = IF Tail(todo) = <<>> THEN AfterDeliver(b) ELSE "deliver"
  BY DEF Deliver, Return
<1>2. todo \in Seq(Pieces) /\ todo # <<>>
  BY <1>1 DEF RecordsOK, Delivering
<1>3. todo' \in Seq(Pieces)
  <2>1. <<>> \in Seq(Pieces) /\ Tail(todo) \in Seq(Pieces)
    BY <1>2
  <2>2. QED
    BY <1>1, <2>1
<1>4. arrived' # <<>> => endpoint'.taken = 4
  BY <1>1, DataIsLast DEF RecordsOK
<1>5. RecordsOK'
  BY <1>1, <1>3, <1>4 DEF RecordsOK, device, fixed
<1>6. AfterDeliver(b) # "deliver"
  BY DEF AfterDeliver
<1>7. QED
  BY <1>1, <1>5, <1>6 DEF Delivering

\* The endpoint of a host with the same key accepts the next record.
LEMMA NextIsAccepted ==
  ASSUME Room, IInv, RecordsOK, samePSK = TRUE, failure = "nil", NEW piece,
         EndpointTakes(piece), piece.part # "head",
         piece.rec = Record(Consumed + 1), Consumed + 1 <= Made
  PROVE  failure' = "nil" /\ Consumed' = Consumed + 1
<1> DEFINE r == piece.rec
           out == Answer(r)
           data == IF r = "AppData" THEN <<Len(arrived) + 1>> ELSE <<>>
           over == \/ Len(emitted \o out) - Len(collected) > QueueLimit
                   \/ Len(arrived \o data) - Len(delivered) > QueueLimit
           c == endpoint.taken
<1>1. /\ c \in 0..4 /\ arrived \in Seq(Nat) /\ Len(arrived) \in Nat /\ emitted \in Seq(HostRecords)
      /\ Len(collected) \in Nat /\ Len(delivered) \in Nat /\ images \in 0..MaxImages
      /\ endpoint \in [taken : 0..4, part : BOOLEAN]
  BY EmittedType, RecordTypes DEF IInv, StreamsOK, RecordsOK, EndpointOK
<1>2. c # 4 => arrived = <<>> /\ Len(arrived) = 0
  <2>1. Len(<<>>) = 0
    OBVIOUS
  <2>2. QED
    BY <2>1 DEF RecordsOK
<1>3. /\ c < 4 => r = ClientRecords[c + 1] /\ r # "AppData"
      /\ c = 4 => r = "AppData"
  <2>1. /\ ClientRecords[1] = "ClientHello" /\ ClientRecords[2] = "ClientKeyExchange"
        /\ ClientRecords[3] = "ChangeCipherSpec" /\ ClientRecords[4] = "Finished"
    BY DEF ClientRecords
  <2>2. ASSUME c < 4 PROVE r = ClientRecords[c + 1] /\ r # "AppData"
    <3>1. Consumed + 1 = c + 1 /\ c + 1 <= 4 /\ c \in {0, 1, 2, 3}
      BY <1>1, <1>2, <2>2 DEF Consumed
    <3>2. r = ClientRecords[c + 1]
      BY <3>1 DEF Record
    <3>3. QED
      BY <2>1, <3>1, <3>2
  <2>3. ASSUME c = 4 PROVE r = "AppData"
    <3>1. ~(Consumed + 1 <= 4)
      BY <1>1, <2>3 DEF Consumed
    <3>2. QED
      BY <3>1 DEF Record
  <2>4. QED
    BY <2>2, <2>3
<1>4. Accepts(r)
  BY <1>1, <1>3 DEF Accepts
<1>5. Len(emitted \o out) <= 4 /\ Len(emitted \o out) \in Nat
  <2>1. Len(<<>>) = 0 /\ Len(FirstFlight) = 2 /\ Len(BothFlights) = 4
    BY DEF FirstFlight, BothFlights
  <2>2. emitted = IF c = 0 THEN <<>> ELSE IF c < 4 THEN FirstFlight ELSE BothFlights
    BY DEF IInv, EndpointOK
  <2>3. out \in Seq(HostRecords) /\ Len(out) \in {0, 2} /\ (r = "AppData" => Len(out) = 0)
    <3>1. /\ <<>> \in Seq(HostRecords) /\ <<"ServerHello", "ServerHelloDone">> \in Seq(HostRecords)
          /\ <<"ChangeCipherSpec", "Finished">> \in Seq(HostRecords)
          /\ Len(<<"ServerHello", "ServerHelloDone">>) = 2 /\ Len(<<"ChangeCipherSpec", "Finished">>) = 2
      BY DEF HostRecords
    <3>2. QED
      BY <2>1, <3>1 DEF Answer
  <2> HIDE DEF out, r, c
  <2>4. Len(emitted \o out) = Len(emitted) + Len(out)
    BY <1>1, <2>3, ConcatProperties
  <2>5. Len(emitted) \in {0, 2, 4} /\ (c # 4 => Len(emitted) \in {0, 2})
    BY <1>1, <2>1, <2>2
  <2>6. /\ Len(emitted) \in {0, 2, 4} /\ Len(out) \in {0, 2}
        /\ Len(emitted) \in {0, 2} \/ Len(out) = 0
    <3>1. c # 4 \/ r = "AppData"
      BY <1>3, Zenon
    <3>2. QED
      BY <2>3, <2>5, <3>1, Zenon
  <2>7. \A x \in {0, 2, 4}, y \in {0, 2} : x \in {0, 2} \/ y = 0 => x + y <= 4 /\ x + y \in Nat
    OBVIOUS
  <2>8. QED
    BY <2>4, <2>6, <2>7
<1>6. /\ c # 4 => data = <<>> /\ arrived \o data = arrived
      /\ c = 4 => /\ data # <<>> /\ Len(arrived \o data) = Len(arrived) + 1
                  /\ Len(arrived) + 1 <= images
  <2>1. ASSUME c # 4 PROVE data = <<>> /\ arrived \o data = arrived
    <3>1. data = <<>>
      BY <1>1, <1>3, <2>1
    <3>2. QED
      BY <1>1, <3>1, ConcatEmptySeq
  <2>2. ASSUME c = 4
        PROVE  /\ data # <<>> /\ Len(arrived \o data) = Len(arrived) + 1
               /\ Len(arrived) + 1 <= images
    <3>1. /\ data = <<Len(arrived) + 1>> /\ <<Len(arrived) + 1>> \in Seq(Nat)
          /\ Len(<<Len(arrived) + 1>>) = 1 /\ <<Len(arrived) + 1>> # <<>>
      BY <1>1, <1>3, <2>2
    <3> HIDE DEF data
    <3>2. data \in Seq(Nat) /\ Len(data) = 1 /\ data # <<>>
      BY <3>1
    <3>3. Len(arrived \o data) = Len(arrived) + 1
      <4>1. Len(arrived \o data) = Len(arrived) + Len(data)
        BY <1>1, <3>2, ConcatProperties, Zenon
      <4>2. QED
        BY <3>2, <4>1
    <3>4. 4 + Len(arrived) + 1 <= Made
      BY <2>2 DEF Consumed
    <3>5. Made = 4 + images
      BY <1>1, <3>4 DEF Made
    <3>6. Len(arrived) + 1 <= images
      BY <1>1, <3>4, <3>5
    <3>7. QED
      BY <3>2, <3>3, <3>6
  <2>3. QED
    BY <2>1, <2>2
<1>7. ~over
  <2>1. QueueLimit \in Nat /\ 4 <= QueueLimit /\ MaxImages <= QueueLimit /\ MaxImages \in Nat
    BY Limits DEF Room
  <2> HIDE DEF out, data, r, c
  <2>2. ~(Len(emitted \o out) - Len(collected) > QueueLimit)
    BY <1>1, <1>5, <2>1
  <2>3. Len(arrived \o data) \in Nat /\ Len(arrived \o data) <= QueueLimit
    <3>1. CASE c # 4
      BY <1>1, <1>2, <1>6, <2>1, <3>1
    <3>2. CASE c = 4
      <4>1. Len(arrived \o data) = Len(arrived) + 1 /\ Len(arrived) + 1 <= images
        BY <1>6, <3>2
      <4>2. QED
        BY <1>1, <2>1, <4>1
    <3>3. QED
      BY <3>1, <3>2
  <2>4. ~(Len(arrived \o data) - Len(delivered) > QueueLimit)
    BY <1>1, <2>1, <2>3
  <2>5. QED
    BY <2>2, <2>4
<1>8. /\ endpoint' = [taken |-> IF data = <<>> THEN endpoint.taken + 1 ELSE 4, part |-> FALSE]
      /\ arrived' = arrived \o data /\ failure' = failure
  BY <1>4, <1>7 DEF EndpointTakes
<1>9. Consumed' = Consumed + 1
  <2> HIDE DEF data, r
  <2>1. endpoint'.taken = IF data = <<>> THEN c + 1 ELSE 4
    BY <1>8
  <2> HIDE DEF c
  <2>2. Consumed = c + Len(arrived) /\ Consumed' = endpoint'.taken + Len(arrived')
    BY DEF Consumed, c
  <2>3. CASE c # 4
    BY <1>1, <1>2, <1>6, <1>8, <2>1, <2>2, <2>3
  <2>4. CASE c = 4
    <3>1. endpoint'.taken = 4 /\ Len(arrived') = Len(arrived) + 1
      BY <1>6, <1>8, <2>1, <2>4
    <3>2. QED
      BY <1>1, <2>2, <2>4, <3>1
  <2>5. QED
    BY <2>3, <2>4
<1>10. QED
  BY <1>8, <1>9

LEMMA DeliverKeepsGood ==
  ASSUME Room, IInv, RecordsOK, Delivering, Good, samePSK = TRUE, Deliver
  PROVE  Good'
<1>1. /\ pc = "deliver" /\ EndpointTakes(Head(todo)) /\ UNCHANGED <<plain, device, fixed>>
      /\ failure' = "nil" => /\ todo' = Tail(todo) /\ outcome' = outcome
  BY DEF Deliver
<1>2. todo # <<>> /\ failure = "nil" /\ outcome # "error" /\ rerr = "nil"
  BY <1>1 DEF Delivering, Good, Untroubled
<1>3. failure' = "nil" /\ Consumed' = IF Head(todo).part = "head" THEN Consumed ELSE Consumed + 1
  <2>1. CASE Head(todo).part = "head"
    <3>1. endpoint' = [endpoint EXCEPT !.part = TRUE] /\ UNCHANGED streamVars
      BY <1>1, <1>2, <2>1, Zenon DEF EndpointTakes
    <3>2. endpoint'.taken = endpoint.taken
      BY <3>1 DEF IInv, EndpointOK
    <3>3. QED
      BY <1>2, <2>1, <3>1, <3>2 DEF Consumed, streamVars
  <2>2. CASE Head(todo).part # "head"
    <3>1. Head(todo).rec = Record(Consumed + 1) /\ Consumed + 1 <= Made
      BY <1>2, <2>2, NextRecord DEF Good
    <3>2. failure' = "nil" /\ Consumed' = Consumed + 1
      BY <1>1, <1>2, <2>2, <3>1, NextIsAccepted
    <3>3. QED
      BY <2>2, <3>2
  <2>3. QED
    BY <2>1, <2>2
<1>4. Coming'
  BY <1>1, <1>2, <1>3, TakenIsComing DEF Good, device
<1>5. Untroubled'
  BY <1>1, <1>2, <1>3 DEF Untroubled, plain
<1>6. QED
  BY <1>4, <1>5 DEF Good

-----------------------------------------------------------------------------
\* Steps that leave the records where they are.
LEMMA RecordsStay ==
  ASSUME IInv, RecordsOK, Delivering, (pc' = "deliver") = (pc = "deliver"),
         UNCHANGED <<todo, wire, ec, images, endpoint, arrived, samePSK>>, faulted' \in BOOLEAN
  PROVE  RecordsOK' /\ Delivering' /\ (Coming => Coming')
BY SameRecords DEF Delivering

LEMMA StayStep ==
  ASSUME IInv, RecordsOK, Delivering,
         \/ Handshake \/ ReadApplicationData \/ Top \/ RecvTimesOut \/ PumpRecord \/ PumpIdle
         \/ PumpFails \/ Check \/ Goroutine \/ Settle \/ Expire \/ Close
         \/ RecvFails \/ SendFails \/ Canceled
  PROVE  RecordsOK' /\ Delivering' /\ (Coming => Coming')
<1> USE DEF Return
<1>0. samePSK \in BOOLEAN /\ faulted \in BOOLEAN
  BY DEF RecordsOK
<1>1. CASE Handshake
  BY <1>0, <1>1, RecordsStay DEF Handshake, host, streamVars, device, fixed
<1>2. CASE ReadApplicationData
  BY <1>0, <1>2, RecordsStay DEF ReadApplicationData, host, streamVars, device, fixed
<1>3. CASE Top
  BY <1>0, <1>3, RecordsStay DEF Top, host, streamVars, device, fixed
<1>4. CASE RecvTimesOut \/ PumpIdle \/ PumpFails \/ RecvFails \/ SendFails
  BY <1>0, <1>4, RecordsStay
     DEF RecvTimesOut, PumpIdle, PumpFails, RecvFails, SendFails, host, streamVars, device, fixed
<1>5. CASE PumpRecord
  BY <1>0, <1>5, RecordsStay DEF PumpRecord, device, fixed
<1>6. CASE Check
  BY <1>0, <1>6, RecordsStay DEF Check, host, streamVars, device, fixed
<1>7. CASE Goroutine
  BY <1>0, <1>7, RecordsStay
     DEF Goroutine, GoroutineReads, GoroutineAppends, GoroutineEnds, host, streamVars, bridge, device, fixed
<1>8. CASE Settle \/ Expire
  BY <1>0, <1>8, RecordsStay DEF Settle, Expire, host, streamVars, bridge, device, fixed
<1>9. CASE Close \/ Canceled
  BY <1>0, <1>9, RecordsStay DEF Close, Canceled, EndpointBreaks, bridge, device, fixed
<1>10. QED
  BY <1>1, <1>2, <1>3, <1>4, <1>5, <1>6, <1>7, <1>8, <1>9

\* The same steps, without a fault: no call fails of them.
LEMMA StayUntroubled ==
  ASSUME Untroubled, failure \in {"nil", "ErrClosed"},
         \/ Handshake \/ ReadApplicationData \/ Top \/ RecvTimesOut \/ PumpRecord \/ PumpIdle
         \/ PumpFails \/ Check \/ Goroutine \/ Settle \/ Expire \/ Close
  PROVE  Untroubled'
<1> USE DEF Return, Untroubled
<1>1. CASE Handshake
  BY <1>1 DEF Handshake, host, streamVars, plain
<1>2. CASE ReadApplicationData
  BY <1>2 DEF ReadApplicationData, host, streamVars, plain
<1>3. CASE Top
  BY <1>3 DEF Top, host, streamVars, plain
<1>4. CASE RecvTimesOut \/ PumpIdle \/ PumpFails
  BY <1>4 DEF RecvTimesOut, PumpIdle, PumpFails, host, streamVars, plain
<1>5. CASE PumpRecord
  BY <1>5 DEF PumpRecord, plain
<1>6. CASE Check
  BY <1>6 DEF Check, host, streamVars, plain
<1>7. CASE Goroutine
  BY <1>7 DEF Goroutine, GoroutineReads, GoroutineAppends, GoroutineEnds, host, streamVars, bridge, plain
<1>8. CASE Settle \/ Expire
  BY <1>8 DEF Settle, Expire, host, streamVars, bridge, plain
<1>9. CASE Close
  BY <1>9 DEF Close, EndpointBreaks, bridge, plain
<1>10. QED
  BY <1>1, <1>2, <1>3, <1>4, <1>5, <1>6, <1>7, <1>8, <1>9

-----------------------------------------------------------------------------
(* The steps that move records *)

LEMMA RecvKeeps ==
  ASSUME IInv, RecordsOK, Delivering, Recv
  PROVE  RecordsOK' /\ Delivering' /\ (Good => Good')
<1>1. /\ pc = "recv" /\ wire # <<>> /\ wire' = Tail(wire)
      /\ UNCHANGED <<host, plain, ec, images, fixed>>
      /\ \/ /\ Head(wire) = <<>> /\ todo' = todo /\ pc' = AfterDeliver(b) /\ outcome' = outcome
         \/ Head(wire) = <<Whole("Alert")>> /\ todo' = todo /\ pc' = "idle"
         \/ Head(wire) # <<>> /\ todo' = Head(wire) /\ pc' = "deliver" /\ outcome' = outcome
  BY Zenon DEF Recv, Return
<1>2. todo = <<>>
  BY <1>1 DEF Delivering
<1>3. AfterDeliver(b) # "deliver" /\ <<>> \in Seq(Pieces)
  BY DEF AfterDeliver
<1>4. Head(wire) \in Seq(Pieces) /\ Tail(wire) \in Seq(Seq(Pieces))
  BY <1>1 DEF RecordsOK
<1>5. todo' \in Seq(Pieces) /\ wire' \in Seq(Seq(Pieces))
  BY <1>1, <1>2, <1>3, <1>4
<1>6. RecordsOK'
  BY <1>1, <1>5 DEF RecordsOK, host, streamVars, fixed
<1>7. Delivering'
  BY <1>1, <1>2, <1>3 DEF Delivering
<1>8. ASSUME Good PROVE Good'
  <2>1. Head(wire) # <<Whole("Alert")>>
    <3>1. PICK c \in [1..(Len(wire) + 1) -> Nat] : Cuts(c)
      BY <1>8 DEF Good, Coming
    <3>2. Len(wire) \in Nat /\ Len(wire) >= 1 /\ wire[1] = Head(wire)
      BY <1>1 DEF RecordsOK
    <3>3. 1 \in 1..Len(wire) /\ 1 \in 1..(Len(wire) + 1) /\ 1 + 1 \in 1..(Len(wire) + 1)
      BY <3>2
    <3>4. Carries(wire[1], c[1], c[1 + 1]) /\ c[1] \in Nat /\ c[1 + 1] \in Nat
      BY <3>1, <3>3 DEF Cuts
    <3>5. QED
      BY <1>4, <3>2, <3>4, NoAlert
  <2>2. todo' = Head(wire)
    BY <1>1, <1>2, <2>1
  <2>3. Coming'
    BY <1>1, <1>2, <1>8, <2>2, ReceivedIsComing DEF Good, host, streamVars
  <2>4. Untroubled'
    BY <1>1, <1>8, <2>1 DEF Good, Untroubled, host, streamVars, plain
  <2>5. QED
    BY <2>3, <2>4 DEF Good
<1>9. QED
  BY <1>6, <1>7, <1>8

LEMMA ECSendsKeeps ==
  ASSUME IInv, RecordsOK, Delivering, ECSends
  PROVE  RecordsOK' /\ Delivering' /\ (Good => Good')
<1> DEFINE begun == IF ec.half THEN 1 ELSE 0
           T(n, head) ==
             [i \in 1..(IF head THEN n + 1 ELSE n) |->
               Piece(ec.pending[i], IF i = n + 1 THEN "head" ELSE IF i <= begun THEN "tail" ELSE "whole")]
<1>1. PICK n \in begun..Len(ec.pending), head \in BOOLEAN :
        /\ head => n < Len(ec.pending)
        /\ wire' = Append(wire, T(n, head))
        /\ ec' = [ec EXCEPT !.pending = SubSeq(@, n + 1, Len(@)), !.half = head]
  BY Zenon DEF ECSends
<1>2. UNCHANGED <<host, bridge, plain, images, fixed>>
  BY DEF ECSends
<1>3. /\ ec.pending \in Seq(Names) /\ Len(ec.pending) \in Nat /\ n \in 0..Len(ec.pending) /\ n \in Nat
      /\ wire \in Seq(Seq(Pieces))
  BY <1>1 DEF RecordsOK
<1>4. PICK k \in Nat : k = (IF head THEN n + 1 ELSE n) /\ k <= Len(ec.pending) /\ k \in {n, n + 1}
  BY <1>1, <1>3
<1>5. PICK t : t = T(n, head)
  OBVIOUS
<1>6. /\ t \in Seq(Pieces) /\ Len(t) = k
      /\ \A i \in 1..k : (t[i].part = "head") = (i = n + 1) /\ t[i].rec = ec.pending[i]
  <2>1. ASSUME NEW i \in 1..k
        PROVE  /\ T(n, head)[i] \in Pieces /\ (T(n, head)[i].part = "head") = (i = n + 1)
               /\ T(n, head)[i].rec = ec.pending[i]
    <3>1. ec.pending[i] \in Names
      BY <1>3, <1>4
    <3> DEFINE part == IF i = n + 1 THEN "head" ELSE IF i <= begun THEN "tail" ELSE "whole"
    <3>2. part \in {"whole", "head", "tail"} /\ (part = "head") = (i = n + 1)
      OBVIOUS
    <3>3. T(n, head)[i] = Piece(ec.pending[i], part)
      BY <1>4
    <3> HIDE DEF part, T
    <3>4. QED
      BY <3>1, <3>2, <3>3 DEF Piece, Pieces
  <2>2. t = [i \in 1..k |-> T(n, head)[i]]
    BY <1>4, <1>5
  <2> HIDE DEF T
  <2>3. t \in [1..k -> Pieces]
    BY <2>1, <2>2
  <2>4. t \in Seq(Pieces) /\ Len(t) = k
    BY <2>3
  <2>5. QED
    BY <1>5, <2>1, <2>4
<1> HIDE DEF T
<1>7. /\ ec'.pending = SubSeq(ec.pending, n + 1, Len(ec.pending)) /\ ec'.half = head
      /\ ec'.got = ec.got
  BY <1>1 DEF IInv, BridgeOK
<1>8. /\ ec'.pending \in Seq(Names) /\ Len(ec'.pending) = Len(ec.pending) - n
      /\ \A i \in 1..(Len(ec.pending) - n) : ec'.pending[i] = ec.pending[n + i]
  BY <1>3, <1>7
<1>9. wire' = Append(wire, t) /\ wire' \in Seq(Seq(Pieces))
  BY <1>1, <1>3, <1>5, <1>6
<1>10. RecordsOK'
  BY <1>2, <1>7, <1>8, <1>9 DEF RecordsOK, host, streamVars, bridge, fixed
<1>11. Delivering'
  BY <1>2 DEF Delivering, bridge
<1>12. ASSUME Good PROVE Good'
  <2>1. Untroubled'
    BY <1>2, <1>12 DEF Good, Untroubled, host, streamVars, bridge, plain
  <2>2. Made' = Made
    BY <1>2, <1>7 DEF Made
  <2>3. /\ Len(t) \in {n, n + 1} /\ n <= Len(ec.pending)
        /\ \A i \in 1..Len(t) : (t[i].part = "head") = (i = n + 1)
        /\ \A i \in 1..n : t[i].rec = ec.pending[i]
    BY <1>3, <1>4, <1>6
  <2>4. Coming /\ UNCHANGED <<todo, endpoint, arrived>>
    BY <1>2, <1>12 DEF Good, host, streamVars, bridge
  <2>5. Coming'
    BY <1>3, <1>6, <1>8, <1>9, <2>2, <2>3, <2>4, SentIsComing
  <2>6. QED
    BY <2>1, <2>5 DEF Good
<1>13. QED
  BY <1>10, <1>11, <1>12

LEMMA ECMessageKeeps ==
  ASSUME IInv, RecordsOK, Delivering, ECMessage
  PROVE  RecordsOK' /\ Delivering' /\ (Good => Good')
<1>1. UNCHANGED <<host, bridge, plain, ec, images, fixed>> /\ wire' = Append(wire, <<>>)
  BY DEF ECMessage
<1>2. <<>> \in Seq(Pieces) /\ wire \in Seq(Seq(Pieces)) /\ Len(ec.pending) \in Nat
  BY DEF RecordsOK
<1>3. wire' \in Seq(Seq(Pieces))
  BY <1>1, <1>2
<1>4. RecordsOK'
  BY <1>1, <1>3 DEF RecordsOK, host, streamVars, bridge, fixed
<1>5. Delivering'
  BY <1>1 DEF Delivering, bridge
<1>6. ASSUME Good PROVE Good'
  <2>1. Untroubled'
    BY <1>1, <1>6 DEF Good, Untroubled, host, streamVars, bridge, plain
  <2>2. Made' = Made
    BY <1>1 DEF Made
  <2>3. PICK t : t = <<>>
    OBVIOUS
  <2>4. /\ t \in Seq(Pieces) /\ Len(t) \in {0, 0 + 1} /\ 0 <= Len(ec.pending)
        /\ \A i \in 1..Len(t) : (t[i].part = "head") = (i = 0 + 1)
        /\ \A i \in 1..0 : t[i].rec = ec.pending[i]
        /\ Len(ec'.pending) = Len(ec.pending) - 0
        /\ \A i \in 1..(Len(ec.pending) - 0) : ec'.pending[i] = ec.pending[0 + i]
    BY <1>1, <1>2, <2>3
  <2>5. Coming /\ UNCHANGED <<todo, endpoint, arrived>> /\ wire' = Append(wire, t) /\ 0 \in Nat
    BY <1>1, <1>6, <2>3 DEF Good, host, streamVars, bridge
  <2>6. Coming'
    BY <2>2, <2>4, <2>5, SentIsComing
  <2>7. QED
    BY <2>1, <2>6 DEF Good
<1>7. QED
  BY <1>4, <1>5, <1>6

LEMMA ECImageKeeps ==
  ASSUME Room, IInv, RecordsOK, Delivering, ECImage
  PROVE  RecordsOK' /\ Delivering' /\ (Good => Good')
<1>1. /\ UNCHANGED <<host, bridge, plain, wire, fixed>> /\ images < MaxImages /\ images' = images + 1
      /\ ec.got # <<>> /\ ec.got[Len(ec.got)] = "Finished"
      /\ ec' = [ec EXCEPT !.pending = Append(@, "AppData")]
  BY DEF ECImage
<1>2. ec.pending \in Seq(Names) /\ "AppData" \in Names /\ images \in 0..MaxImages /\ MaxImages \in Nat
  BY DEF RecordsOK, Names, Room
<1>3. ec'.pending = Append(ec.pending, "AppData") /\ ec'.got = ec.got /\ ec'.half = ec.half
  BY <1>1 DEF IInv, BridgeOK
<1>4. Len(ec.got) = 4
  <2>1. /\ BothFlights[1] # "Finished" /\ BothFlights[2] # "Finished" /\ BothFlights[3] # "Finished"
    BY DEF BothFlights
  <2>2. ec.got \in Seq(HostRecords) /\ Len(ec.got) \in 0..4
    BY RecordTypes DEF IInv, BridgeOK
  <2>3. Len(ec.got) \in 1..Len(ec.got) /\ Len(ec.got) \in {1, 2, 3, 4}
    BY <1>1, <2>2
  <2>4. BothFlights[Len(ec.got)] = "Finished"
    BY <1>1, <2>3 DEF RecordsOK
  <2>5. QED
    BY <2>1, <2>3, <2>4
<1>5. ec'.pending \in Seq(Names) /\ images' \in 0..MaxImages
  BY <1>1, <1>2, <1>3
<1>6. RecordsOK'
  BY <1>1, <1>3, <1>4, <1>5 DEF RecordsOK, host, streamVars, bridge, fixed
<1>7. Delivering'
  BY <1>1 DEF Delivering, bridge
<1>8. ASSUME Good PROVE Good'
  <2>1. Untroubled'
    BY <1>1, <1>8 DEF Good, Untroubled, host, streamVars, bridge, plain
  <2>2. PICK more \in Seq(Names) : more = <<"AppData">>
    <3>1. <<"AppData">> \in Seq(Names)
      BY <1>2
    <3>2. QED
      BY <3>1
  <2>3. Len(more) = 1 /\ more[1] = "AppData"
    BY <2>2
  <2>4. Made = 4 + images /\ Made' = Made + Len(more)
    BY <1>1, <1>2, <1>3, <1>4, <2>3 DEF Made
  <2>5. ASSUME NEW i \in 1..Len(more) PROVE more[i] = Record(Made + i)
    <3>1. i = 1 /\ ~(Made + i <= 4)
      BY <1>2, <2>3, <2>4
    <3>2. QED
      BY <2>3, <3>1 DEF Record
  <2>6. ec'.pending = ec.pending \o more
    BY <1>2, <1>3, <2>2
  <2>7. Coming /\ UNCHANGED <<todo, wire, endpoint, arrived>>
    BY <1>1, <1>8 DEF Good, host, streamVars, bridge
  <2>8. Coming'
    BY <2>4, <2>5, <2>6, <2>7, MoreIsComing
  <2>9. QED
    BY <2>1, <2>8 DEF Good
<1>9. QED
  BY <1>6, <1>7, <1>8

LEMMA ECAlertKeeps ==
  ASSUME IInv, RecordsOK, Delivering, ECAlert
  PROVE  RecordsOK' /\ Delivering'
<1>1. /\ UNCHANGED <<host, bridge, images, samePSK>> /\ faulted' = TRUE
      /\ wire' = Append(wire, <<Whole("Alert")>>) /\ ec' = [ec EXCEPT !.pending = <<>>]
  BY DEF ECAlert
<1>2. Whole("Alert") \in Pieces
  BY DEF Whole, Piece, Pieces, Names
<1>3. <<Whole("Alert")>> \in Seq(Pieces) /\ wire \in Seq(Seq(Pieces)) /\ <<>> \in Seq(Names)
  BY <1>2 DEF RecordsOK
<1>4. wire' \in Seq(Seq(Pieces))
  BY <1>1, <1>3
<1>5. ec'.pending = <<>> /\ ec'.got = ec.got /\ ec'.half = ec.half
  BY <1>1 DEF IInv, BridgeOK
<1>6. RecordsOK'
  BY <1>1, <1>3, <1>4, <1>5 DEF RecordsOK, host, streamVars, bridge
<1>7. QED
  BY <1>1, <1>6 DEF Delivering, bridge

\* The next record of the host's flights goes to the EC, which answers the first of them.
LEMMA FlightIsNext ==
  ASSUME IInv, RecordsOK, pc = "send"
  PROVE  /\ flight \in Seq(HostRecords) /\ flight # <<>> /\ Head(flight) \in HostRecords
         /\ Len(ec.got) \in 0..3 /\ Head(flight) = BothFlights[Len(ec.got) + 1]
<1> DEFINE r == Head(flight)
           k == Len(ec.got)
<1>1. /\ collected \in Seq(HostRecords) /\ flight \in Seq(HostRecords) /\ flight # <<>>
      /\ ec.got \in Seq(HostRecords) /\ ec.got \o flight = collected
  BY DEF IInv, StreamsOK, BridgeOK, FlightOK
<1>2. /\ k \in Nat /\ Len(flight) \in Nat /\ Len(flight) >= 1 /\ r = flight[1] /\ r \in HostRecords
  BY <1>1
<1>3. Len(collected) = k + Len(flight) /\ collected[k + 1] = r
  <2>1. /\ Len(ec.got \o flight) = k + Len(flight)
        /\ \A i \in 1..(k + Len(flight)) : (ec.got \o flight)[i] = IF i <= k THEN ec.got[i] ELSE flight[i - k]
    BY <1>1, ConcatProperties
  <2>2. k + 1 \in 1..(k + Len(flight)) /\ ~(k + 1 <= k) /\ (k + 1) - k = 1
    BY <1>2
  <2>3. QED
    BY <1>1, <1>2, <2>1, <2>2
<1>4. /\ emitted \in Seq(HostRecords) /\ Len(collected) <= Len(emitted)
      /\ collected = SubSeq(emitted, 1, Len(collected))
      /\ emitted \in {<<>>, FirstFlight, BothFlights}
  BY EmittedType, Zenon DEF IInv, StreamsOK, EndpointOK
<1>5. Len(emitted) <= 4 /\ \A i \in 1..Len(emitted) : emitted[i] = BothFlights[i]
  <2>1. /\ Len(<<>>) = 0 /\ Len(FirstFlight) = 2 /\ Len(BothFlights) = 4
        /\ FirstFlight[1] = BothFlights[1] /\ FirstFlight[2] = BothFlights[2]
    BY DEF FirstFlight, BothFlights
  <2>2. CASE emitted = <<>>
    BY <2>1, <2>2
  <2>3. CASE emitted = FirstFlight
    <3>1. Len(emitted) = 2 /\ emitted[1] = BothFlights[1] /\ emitted[2] = BothFlights[2]
      BY <2>1, <2>3
    <3>2. QED
      BY <3>1
  <2>4. CASE emitted = BothFlights
    <3>1. Len(emitted) = 4
      BY <2>1, <2>4
    <3>2. \A i \in 1..Len(emitted) : emitted[i] = BothFlights[i]
      BY <2>4
    <3>3. QED
      BY <3>1, <3>2
  <2>5. QED
    BY <1>4, <2>2, <2>3, <2>4
<1> HIDE DEF r, k
<1>6. k + 1 \in 1..Len(collected) /\ k + 1 \in 1..Len(emitted) /\ k \in 0..3
  <2>1. Len(collected) \in Nat /\ Len(emitted) \in Nat
    BY <1>1, <1>4
  <2>2. QED
    BY <1>2, <1>3, <1>4, <1>5, <2>1
<1>7. collected[k + 1] = emitted[k + 1]
  <2>1. SubSeq(emitted, 1, Len(collected))[k + 1] = emitted[k + 1]
    BY <1>1, <1>4, <1>6
  <2>2. QED
    BY <1>4, <2>1
<1>8. QED
  BY <1>1, <1>2, <1>3, <1>5, <1>6, <1>7 DEF r, k

LEMMA SendFlightKeeps ==
  ASSUME IInv, RecordsOK, Delivering, sendFlight
  PROVE  RecordsOK' /\ Delivering' /\ (Good => Good')
<1> DEFINE r == Head(flight)
<1>1. /\ pc = "send" /\ ECTakes(r) /\ UNCHANGED <<host, todo, plain, wire, images, fixed>>
      /\ (outcome' = "ok" \/ outcome' = outcome) /\ pc' \in {"idle", "top", "send"}
  BY DEF sendFlight, Return
<1>2. PICK k \in 0..3 : k = Len(ec.got) /\ r = BothFlights[k + 1] /\ r \in HostRecords
  BY <1>1, FlightIsNext
<1>3. /\ BothFlights[1] # "ServerHelloDone" /\ BothFlights[2] = "ServerHelloDone"
      /\ BothFlights[3] # "ServerHelloDone" /\ BothFlights[4] # "ServerHelloDone"
  BY DEF BothFlights
<1>4. (r = "ServerHelloDone") = (k = 1)
  <2>1. k = 0 \/ k = 1 \/ k = 2 \/ k = 3
    OBVIOUS
  <2>2. /\ k = 0 => r = BothFlights[1]
        /\ k = 1 => r = BothFlights[2]
        /\ k = 2 => r = BothFlights[3]
        /\ k = 3 => r = BothFlights[4]
    <3>1. 0 + 1 = 1 /\ 1 + 1 = 2 /\ 2 + 1 = 3 /\ 3 + 1 = 4
      OBVIOUS
    <3>2. QED
      BY <1>2, <3>1, Zenon
  <2>3. k = 0 \/ k = 2 \/ k = 3 => k # 1
    OBVIOUS
  <2>4. QED
    BY <1>3, <2>1, <2>2, <2>3, Zenon
<1> HIDE DEF r
<1>5. /\ Len(ec.got) = k /\ ec.got \in Seq(HostRecords) /\ ec.pending \in Seq(Names)
  BY <1>2 DEF IInv, BridgeOK, RecordsOK
<1>6. PICK more \in Seq(Names) : more = IF k = 1 THEN Tail(ClientRecords) ELSE <<>>
  <2>1. ClientRecords \in Seq(Names) /\ ClientRecords # <<>>
    BY DEF ClientRecords, Names
  <2>2. Tail(ClientRecords) \in Seq(Names) /\ <<>> \in Seq(Names)
    BY <2>1
  <2>3. QED
    BY <2>2
<1>7. /\ ec'.got = Append(ec.got, r) /\ ec'.pending = ec.pending \o more /\ ec'.half = ec.half
  <2>1. ec.pending \o <<>> = ec.pending
    BY <1>5, ConcatEmptySeq
  <2>2. ec' = [ec EXCEPT !.got = Append(@, r),
                         !.pending = IF k = 1 THEN @ \o Tail(ClientRecords) ELSE @]
    BY <1>1, <1>4 DEF ECTakes
  <2>3. QED
    BY <1>6, <2>1, <2>2 DEF IInv, BridgeOK
<1>8. /\ Len(ec'.got) = k + 1 /\ ec'.got[k + 1] = r /\ \A i \in 1..k : ec'.got[i] = ec.got[i]
  BY <1>5, <1>7
<1>9. \A i \in 1..Len(ec'.got) : ec'.got[i] = BothFlights[i]
  <2>1. SUFFICES ASSUME NEW i \in 1..(k + 1) PROVE ec'.got[i] = BothFlights[i]
    BY <1>8
  <2>2. i = k + 1 \/ i \in 1..k
    BY <1>2
  <2>3. QED
    BY <1>2, <1>5, <1>8, <2>2 DEF RecordsOK
<1>10. ec'.pending \in Seq(Names)
  BY <1>5, <1>7, ConcatProperties
<1>11. images = 0 /\ images' = 0
  <2>1. images = 0 \/ k = 4
    BY <1>2, RecordTypes, Zenon
  <2>2. k # 4
    OBVIOUS
  <2>3. QED
    BY <1>1, <2>1, <2>2, Zenon
<1>12. RecordsOK'
  <2>1. Len(ec'.got) <= 4
    <3>1. k + 1 <= 4
      OBVIOUS
    <3>2. QED
      BY <1>8, <3>1, Zenon
  <2>2. QED
    BY <1>1, <1>7, <1>9, <1>10, <1>11, <2>1 DEF RecordsOK, host, streamVars, fixed
<1>13. Delivering'
  BY <1>1 DEF Delivering
<1>14. ASSUME Good PROVE Good'
  <2>1. Untroubled'
    BY <1>1, <1>14 DEF Good, Untroubled, host, streamVars, plain
  <2>2. /\ Len(more) = (IF k = 1 THEN 3 ELSE 0)
        /\ k = 1 => more[1] = ClientRecords[2] /\ more[2] = ClientRecords[3] /\ more[3] = ClientRecords[4]
    <3>1. Tail(ClientRecords) = <<"ClientKeyExchange", "ChangeCipherSpec", "Finished">>
      BY DEF ClientRecords
    <3>2. QED
      BY <1>6, <3>1 DEF ClientRecords
  <2>3. Made' = Made + Len(more)
    <3>1. Made = (IF k < 2 THEN 1 ELSE 4) /\ Made' = (IF k + 1 < 2 THEN 1 ELSE 4)
      BY <1>5, <1>8, <1>11 DEF Made
    <3>2. (IF k + 1 < 2 THEN 1 ELSE 4) = (IF k < 2 THEN 1 ELSE 4) + (IF k = 1 THEN 3 ELSE 0)
      OBVIOUS
    <3>3. QED
      BY <2>2, <3>1, <3>2, Zenon
  <2>4. ASSUME NEW i \in 1..Len(more) PROVE more[i] = Record(Made + i)
    <3>1. k = 1 /\ i \in {1, 2, 3}
      BY <2>2
    <3>2. Made = 1
      BY <1>5, <3>1 DEF Made
    <3>3. more[i] = ClientRecords[1 + i] /\ 1 + i <= 4
      BY <2>2, <3>1
    <3>4. QED
      BY <3>2, <3>3 DEF Record
  <2>5. Coming /\ UNCHANGED <<todo, wire, endpoint, arrived>>
    BY <1>1, <1>14 DEF Good, host, streamVars
  <2>6. Coming'
    BY <1>7, <2>3, <2>4, <2>5, MoreIsComing
  <2>7. QED
    BY <2>1, <2>6 DEF Good
<1>15. QED
  BY <1>12, <1>13, <1>14

-----------------------------------------------------------------------------
LEMMA InitHInv ==
  ASSUME Room, Init
  PROVE  HInv
<1>1. /\ todo = <<>> /\ wire = <<>> /\ ec = StartLoopbackEC /\ images = 0 /\ arrived = <<>>
      /\ endpoint.taken = 0 /\ pc = "idle" /\ outcome = "none" /\ rerr = "nil" /\ failure = "nil"
      /\ samePSK \in BOOLEAN /\ faulted = FALSE
  BY DEF Init, StreamInit
<1>2. ec.pending = <<"ClientHello">> /\ ec.half = FALSE /\ ec.got = <<>>
  BY <1>1 DEF StartLoopbackEC
<1>3. /\ <<>> \in Seq(Pieces) /\ <<>> \in Seq(Seq(Pieces)) /\ <<"ClientHello">> \in Seq(Names)
      /\ Len(<<>>) = 0 /\ Len(<<"ClientHello">>) = 1
  BY DEF Names
<1>4. RecordsOK
  <2>1. images \in 0..MaxImages
    BY <1>1 DEF Room
  <2>2. todo \in Seq(Pieces) /\ wire \in Seq(Seq(Pieces)) /\ ec.pending \in Seq(Names)
    BY <1>1, <1>2, <1>3
  <2>3. Len(ec.got) <= 4 /\ \A i \in 1..Len(ec.got) : ec.got[i] = BothFlights[i]
    BY <1>2, <1>3
  <2>4. QED
    <3>1. ~(images > 0) /\ arrived = <<>> /\ samePSK \in BOOLEAN /\ faulted \in BOOLEAN
      <4>1. ~(0 > 0) /\ FALSE \in BOOLEAN
        OBVIOUS
      <4>2. QED
        BY <1>1, <4>1, Zenon
    <3>2. ec.half \in BOOLEAN
      BY <1>2
    <3>3. QED
      BY <2>1, <2>2, <2>3, <3>1, <3>2 DEF RecordsOK
<1>5. Delivering /\ Untroubled
  BY <1>1 DEF Delivering, Untroubled
<1>6. Coming
  <2>1. PICK c \in [1..(0 + 1) -> Nat] : c[1] = 0
    <3>1. [i \in 1..(0 + 1) |-> 0] \in [1..(0 + 1) -> Nat] /\ 1 \in 1..(0 + 1)
      OBVIOUS
    <3>2. QED
      BY <3>1
  <2>2. Consumed = 0 /\ Made = 1
    BY <1>1, <1>2, <1>3 DEF Consumed, Made
  <2>3. Carries(<<>>, 0, 0)
    BY NothingCarried
  <2>4. Record(1) = "ClientHello"
    BY DEF Record, ClientRecords
  <2>5. Cuts(c)
    <3>1. /\ Carries(todo, Consumed, c[1]) /\ \A i \in 1..Len(wire) : Carries(wire[i], c[i], c[i + 1])
      BY <1>1, <1>3, <2>1, <2>2, <2>3
    <3>2. \A i, j \in 1..(Len(wire) + 1) : i <= j => c[i] <= c[j]
      BY <1>1, <1>3, <2>1
    <3>3. /\ c[Len(wire) + 1] + Len(ec.pending) = Made
          /\ \A i \in 1..Len(ec.pending) : ec.pending[i] = Record(c[Len(wire) + 1] + i)
      BY <1>1, <1>2, <1>3, <2>1, <2>2, <2>4
    <3>4. QED
      BY <3>1, <3>2, <3>3 DEF Cuts
  <2>6. QED
    BY <1>1, <1>3, <2>5 DEF Coming
<1>7. QED
  BY <1>4, <1>5, <1>6, InitIInv DEF HInv, Honest, Good

LEMMA NextHInv ==
  ASSUME Room, HInv, [Next]_vars
  PROVE  HInv'
<1>1. IInv /\ IInv' /\ RecordsOK /\ Delivering /\ (samePSK = TRUE /\ faulted = FALSE => Good)
  BY NextIInv DEF HInv, Honest
<1>2. CASE \/ Handshake \/ ReadApplicationData \/ Top \/ RecvTimesOut \/ PumpRecord \/ PumpIdle
           \/ PumpFails \/ Check \/ Goroutine \/ Settle \/ Expire \/ Close
  <2>1. RecordsOK' /\ Delivering' /\ (Coming => Coming')
    BY <1>1, <1>2, StayStep
  <2>2. Good => Untroubled'
    BY <1>2, StayUntroubled DEF Good, Untroubled
  <2>3. UNCHANGED fixed
    BY <1>2 DEF Handshake, ReadApplicationData, Top, RecvTimesOut, PumpRecord, PumpIdle, PumpFails,
       Check, Goroutine, GoroutineReads, GoroutineAppends, GoroutineEnds, Settle, Expire, Close
  <2>4. QED
    BY <1>1, <2>1, <2>2, <2>3 DEF HInv, Honest, Good, fixed
<1>3. CASE Recv \/ sendFlight \/ ECSends \/ ECImage \/ ECMessage
  <2>1. RecordsOK' /\ Delivering' /\ (Good => Good')
    BY <1>1, <1>3, RecvKeeps, SendFlightKeeps, ECSendsKeeps, ECImageKeeps, ECMessageKeeps
  <2>2. UNCHANGED fixed
    BY <1>3 DEF Recv, sendFlight, ECSends, ECImage, ECMessage
  <2>3. QED
    BY <1>1, <2>1, <2>2 DEF HInv, Honest, fixed
<1>4. CASE Deliver
  <2>1. RecordsOK' /\ Delivering'
    BY <1>1, <1>4, DeliverKeepsRecords
  <2>2. Good /\ samePSK = TRUE => Good'
    BY <1>1, <1>4, DeliverKeepsGood
  <2>3. UNCHANGED fixed
    BY <1>4 DEF Deliver
  <2>4. QED
    BY <1>1, <2>1, <2>2, <2>3 DEF HInv, Honest, fixed
<1>5. CASE Fault
  <2>1. RecordsOK' /\ Delivering'
    BY <1>1, <1>5, StayStep, ECAlertKeeps DEF Fault
  <2>2. faulted' = TRUE
    BY <1>5 DEF Fault, RecvFails, SendFails, Canceled, ECAlert
  <2>3. QED
    BY <1>1, <2>1, <2>2 DEF HInv, Honest
<1>6. CASE UNCHANGED vars
  <2>1. UNCHANGED <<todo, wire, ec, images, endpoint, arrived, samePSK, faulted, pc, outcome, failure, rerr>>
    BY <1>6 DEF vars, host, streamVars, bridge, plain, device, fixed
  <2>2. RecordsOK' /\ Delivering' /\ (Coming => Coming')
    BY <1>1, <2>1, RecordsStay DEF RecordsOK
  <2>3. Untroubled => Untroubled'
    BY <2>1 DEF Untroubled
  <2>4. QED
    BY <1>1, <2>1, <2>2, <2>3 DEF HInv, Honest, Good
<1>7. QED
  BY <1>2, <1>3, <1>4, <1>5, <1>6 DEF Next, Step

\* Whatever the EC's transfers hold of its records, and whatever comes in between:
\* if the two keys are the same and no fault comes from outside, neither the
\* handshake nor a call of ReadApplicationData fails (Deliver, PumpHost, tlspsk).
THEOREM BridgeHonestNeverFails == Room /\ Spec => []HonestNeverFails
<1> DEFINE RInv == Room /\ HInv
<1>1. RInv /\ [Next]_vars => RInv'
  BY NextHInv DEF Room
<1>2. RInv => HonestNeverFails
  <2>1. SUFFICES ASSUME HInv, outcome = "error", samePSK, ~faulted PROVE FALSE
    BY DEF HonestNeverFails
  <2>2. samePSK = TRUE /\ faulted = FALSE
    BY <2>1 DEF HInv, RecordsOK
  <2>3. QED
    BY <2>1, <2>2 DEF HInv, Honest, Good, Untroubled
<1>3. Room /\ Init => RInv
  BY InitHInv
<1> HIDE DEF RInv
<1>4. QED
  BY <1>1, <1>2, <1>3, PTL DEF Spec
=============================================================================
