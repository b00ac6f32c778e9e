------------------------- MODULE NativeSession_proofs -------------------------
(***************************************************************************)
(* For any number of callers and any limits of the queues, NativeSession   *)
(* loses no notification, ends once, and implements SecureStream.          *)
(***************************************************************************)
EXTENDS NativeSession, SequenceTheorems, TLAPS

Live(q) == q.err = "nil" /\ q.native.is = "live" /\ q.done = "open"
Ended(q) ==
  /\ q.err # "nil" /\ q.native.is = "nil" /\ q.done = "closed"
  /\ q.waiting = {} /\ q.plain = <<>> /\ q.cipher = <<>>

GoodSession(q) ==
  /\ q \in Session
  /\ Live(q) \/ Ended(q)
  /\ q.err = "nil" => Len(q.plain) <= QueueLimit /\ Len(q.cipher) <= QueueLimit
  /\ q.ready => q.native.flights = 0

HistoryOK ==
  /\ arrived \in Seq(Nat) /\ delivered \in Seq(Nat)
  /\ emitted \in Seq(Nat) /\ collected \in Seq(Nat)
  /\ QueuesAreTheStreams

ControlOK ==
  /\ phase \in {"new", "running", "refused"} /\ context \in {"live", "cancelled"}
  /\ watcher \in {"none", "watching", "gone"} /\ mu \in {Nobody, Feeder} \cup Writers
  /\ inside \subseteq Callers
  /\ due \in [Callers -> Deadlines] /\ left \in [Writers -> 0..MaxChunks]
  /\ now \in 0..MaxNow /\ transfers \in 0..MaxTransfers /\ writes \in 0..MaxWrites

\* Before start has returned nobody is inside; a writer that is has something
\* left to write and no timer.
CallsOK ==
  /\ phase # "running" => mu = Nobody /\ inside = {} /\ s.waiting = {} /\ watcher = "none"
  /\ phase = "new" => s.err = "nil"
  /\ mu # Nobody => s.err = "nil"
  /\ \A w \in Writers :
       due[w] = NoDeadline /\ (w \in inside => left[w] > 0) /\ (mu = w => w \in inside)

IInv == ControlOK /\ GoodSession(s) /\ NothingMissed /\ CallsOK /\ HistoryOK

Implements == [Stream!StreamNext]_(Stream!streamVars)

-----------------------------------------------------------------------------
(* Sequences *)

LEMMA PrefixOfConcat ==
  ASSUME NEW a \in Seq(Nat), NEW b \in Seq(Nat)
  PROVE  Stream!IsPrefix(a, a \o b)
BY DEF Stream!IsPrefix

LEMMA SplitSequence ==
  ASSUME NEW a \in Seq(Nat), NEW n \in 0..Len(a)
  PROVE  /\ SubSeq(a, 1, n) \in Seq(Nat) /\ SubSeq(a, n + 1, Len(a)) \in Seq(Nat)
         /\ a = SubSeq(a, 1, n) \o SubSeq(a, n + 1, Len(a))
         /\ Len(SubSeq(a, n + 1, Len(a))) <= Len(a)
<1>1. Len(a) \in Nat
  OBVIOUS
<1>2. /\ SubSeq(a, 1, n) \in Seq(Nat) /\ SubSeq(a, n + 1, Len(a)) \in Seq(Nat)
      /\ Len(SubSeq(a, n + 1, Len(a))) <= Len(a)
  BY <1>1, SubSeqProperties
<1>3. SubSeq(a, 1, n) \o SubSeq(a, n + 1, Len(a)) = SubSeq(a, 1, Len(a))
  <2>1. 1 \in 1..(Len(a) + 1) /\ n \in (1 - 1)..Len(a) /\ Len(a) \in n..Len(a)
    BY <1>1
  <2>2. QED
    BY <2>1, ConcatAdjacentSubSeq, Zenon
<1>4. QED
  BY <1>2, <1>3, SubSeqFull

LEMMA Associative ==
  ASSUME NEW a \in Seq(Nat), NEW b \in Seq(Nat), NEW c \in Seq(Nat)
  PROVE  (a \o b) \o c = a \o (b \o c)
OBVIOUS

-----------------------------------------------------------------------------
(* The operations of a session *)

LEMMA FailedSession ==
  ASSUME NEW q, GoodSession(q), NEW why \in Failures
  PROVE  /\ GoodSession(failLocked(q, why))
         /\ failLocked(q, why).err # "nil" /\ failLocked(q, why).waiting = {}
<1> DEFINE f == [q EXCEPT !.err = why, !.plain = <<>>, !.cipher = <<>>, !.native = NoEndpoint,
                          !.done = IF @ = "open" THEN "closed" ELSE "panic", !.waiting = {}]
<1>1. CASE q.err # "nil"
  BY <1>1 DEF GoodSession, Live, Ended, failLocked
<1>2. CASE q.err = "nil"
  <2>1. failLocked(q, why) = f
    BY <1>2 DEF failLocked, signalLocked, GoodSession, Session
  <2>2. NoEndpoint \in Endpoint /\ NoEndpoint.is = "nil" /\ NoEndpoint.flights = 0
    BY DEF NoEndpoint, Endpoint
  <2>3. why # "nil" /\ <<>> \in Seq(Nat)
    BY DEF Failures
  <2>4. /\ f \in Session /\ f.err = why /\ f.native = NoEndpoint /\ f.done = "closed"
        /\ f.waiting = {} /\ f.plain = <<>> /\ f.cipher = <<>>
    BY <1>2, <2>2, <2>3 DEF GoodSession, Live, Ended, Session
  <2>5. QED
    BY <2>1, <2>2, <2>3, <2>4 DEF GoodSession, Ended
<1>3. QED
  BY <1>1, <1>2

LEMMA CalledSession ==
  ASSUME NEW q, GoodSession(q), q.err = "nil"
  PROVE  Called(q) = q
<1>1. q \in Session /\ q.native.is = "live" /\ q.native \in Endpoint
  BY DEF GoodSession, Live, Ended, Session
<1>2. [q.native EXCEPT !.is = "live"] = q.native
  BY <1>1 DEF Endpoint
<1>3. Called(q) = [q EXCEPT !.native = [q.native EXCEPT !.is = "live"]]
  BY <1>1 DEF Called, Session, Endpoint
<1>4. QED
  BY <1>1, <1>2, <1>3 DEF Session

\* What a step of OpenSSL gives back.
IsResult(r) ==
  /\ r.out \in Seq(Nat) /\ r.data \in Seq(Nat) /\ r.code \in -5..0 /\ r.finished \in BOOLEAN
  /\ r.native.flights \in 0..3 /\ r.native.rbio \in Seq(Records)
  /\ r.finished => r.native.flights = 0

LEMMA StepResult ==
  ASSUME IInv
  PROVE  IsResult(g5120_step) /\ (s.ready => g5120_step.finished)
<1> DEFINE tls == s.native
           speaks == tls.client /\ tls.flights = 3
           answers == tls.flights > 0 /\ tls.rbio # <<>> /\ Head(tls.rbio) = "flight"
           rest == IF answers THEN Tail(tls.rbio) ELSE tls.rbio
           flights == IF speaks \/ answers THEN tls.flights - 1 ELSE tls.flights
           reads == ~speaks /\ rest # <<>>
           data == reads /\ flights = 0 /\ Head(rest) = "data"
           unread == IF reads THEN Tail(rest) ELSE rest
           native == [tls EXCEPT !.flights = flights, !.rbio = unread]
<1>1. tls \in Endpoint /\ tls.flights \in 0..3 /\ tls.rbio \in Seq(Records) /\ tls.client \in BOOLEAN
  BY DEF IInv, GoodSession, Session, Endpoint
<1>2. rest \in Seq(Records)
  BY <1>1
<1>3. flights \in 0..3 /\ (tls.flights = 0 => flights = 0)
  BY <1>1
<1> HIDE DEF rest, flights
<1>4. reads => Head(rest) \in Records
  BY <1>2
<1>5. unread \in Seq(Records)
  BY <1>2
<1>6. reads /\ ~data => Code[Head(rest)] \in -5..0
  BY <1>4 DEF Code, Records
<1>7. Len(emitted) + 1 \in Nat /\ Len(arrived) + 1 \in Nat
  BY DEF IInv, HistoryOK
<1>8. /\ g5120_step.out = IF (speaks \/ answers) /\ ~(tls.client /\ flights = 0)
                          THEN <<Len(emitted) + 1>> ELSE <<>>
      /\ g5120_step.data = IF data THEN <<Len(arrived) + 1>> ELSE <<>>
      /\ g5120_step.code = IF reads /\ ~data THEN Code[Head(rest)] ELSE 0
      /\ g5120_step.finished = (flights = 0)
      /\ g5120_step.native = native
  BY DEF g5120_step, rest, flights
<1> HIDE DEF speaks, answers, reads, data, unread
<1>9. native.flights = flights /\ native.rbio = unread
  BY <1>1 DEF Endpoint
<1>10. g5120_step.out \in Seq(Nat) /\ g5120_step.data \in Seq(Nat)
  BY <1>7, <1>8
<1>11. g5120_step.code \in -5..0
  BY <1>6, <1>8
<1>12. s.ready => tls.flights = 0
  BY DEF IInv, GoodSession
<1>13. QED
  BY <1>3, <1>5, <1>8, <1>9, <1>10, <1>11, <1>12 DEF IsResult

LEMMA ErrorCodes ==
  ASSUME NEW c \in -5..0
  PROVE  nativeError[c] \in Failures \cup {"nil"}
BY DEF nativeError, Failures

\* After a turn the session has failed, or both queues have grown within their limit.
LEMMA TurnOfTheLoop ==
  ASSUME NEW q, GoodSession(q), q.err = "nil", NEW r, IsResult(r), q.ready => r.finished
  PROVE  /\ GoodSession(Turn(q, r)) /\ Turn(q, r).waiting = {}
         /\ Turn(q, r).err = "nil" =>
              /\ Turn(q, r).plain = q.plain \o r.data /\ Turn(q, r).cipher = q.cipher \o r.out
              /\ q.ready => Turn(q, r).ready
<1> DEFINE native == [q.native EXCEPT !.flights = r.native.flights, !.rbio = r.native.rbio]
           stepped == [q EXCEPT !.native = native]
           why == IF Overflows(q, r.out) THEN "ErrOverflow" ELSE nativeError[r.code]
           drained == [stepped EXCEPT !.cipher = @ \o r.out, !.ready = r.finished]
           grown == [drained EXCEPT !.plain = q.plain \o r.data, !.waiting = {}]
<1>1. q \in Session /\ q.native \in Endpoint /\ q.native.is = "live" /\ q.done = "open"
  BY DEF GoodSession, Live, Ended, Session
<1>2. native \in Endpoint /\ native.is = "live" /\ native.flights = r.native.flights
  BY <1>1 DEF IsResult, Endpoint
<1> HIDE DEF native
<1>3. /\ stepped \in Session /\ stepped.err = "nil" /\ stepped.native = native
      /\ stepped.done = "open" /\ stepped.plain = q.plain /\ stepped.cipher = q.cipher
      /\ stepped.ready = q.ready /\ stepped.waiting = q.waiting
  BY <1>1, <1>2 DEF Session
<1>4. GoodSession(stepped)
  BY <1>2, <1>3 DEF GoodSession, Live, IsResult
<1>5. why \in Failures \cup {"nil"}
  BY ErrorCodes DEF IsResult, Failures
<1>6. /\ drained \in Session /\ drained.err = "nil" /\ drained.native = native
      /\ drained.done = "open" /\ drained.plain = q.plain /\ drained.cipher = q.cipher \o r.out
      /\ drained.ready = r.finished
  <2>1. q.cipher \o r.out \in Seq(Nat)
    BY <1>1 DEF Session, IsResult
  <2>2. drained = [stepped EXCEPT !.cipher = q.cipher \o r.out, !.ready = r.finished]
    BY <1>3
  <2> HIDE DEF stepped
  <2>3. r.finished \in BOOLEAN
    BY DEF IsResult
  <2>4. QED
    BY <1>3, <2>1, <2>2, <2>3 DEF Session
<1>7. ASSUME ~Overflows(q, r.out) PROVE GoodSession(drained)
  <2> HIDE DEF drained
  <2>1. Len(q.cipher \o r.out) = Len(q.cipher) + Len(r.out)
    BY <1>1, ConcatProperties DEF Session, IsResult
  <2>2. Len(drained.plain) <= QueueLimit /\ Len(drained.cipher) <= QueueLimit
    BY <1>1, <1>6, <1>7, <2>1, Limits DEF GoodSession, Overflows, Session, IsResult
  <2>3. QED
    BY <1>2, <1>6, <2>2 DEF GoodSession, Live, IsResult
<1>8. /\ grown \in Session /\ grown.err = "nil" /\ grown.native = native
      /\ grown.done = "open" /\ grown.plain = q.plain \o r.data
      /\ grown.cipher = q.cipher \o r.out /\ grown.ready = r.finished /\ grown.waiting = {}
  <2>1. q.plain \o r.data \in Seq(Nat)
    BY <1>1 DEF Session, IsResult
  <2> HIDE DEF drained
  <2>2. QED
    BY <1>6, <2>1 DEF Session
<1>9. Called(q) = q /\ Called(stepped) = stepped
  BY <1>3, <1>4, CalledSession
<1>10. Turn(q, r) = IF why # "nil" THEN failLocked(stepped, why)
                    ELSE IF Len(q.plain) + Len(r.data) > QueueLimit
                         THEN failLocked(drained, "ErrOverflow")
                         ELSE grown
  <2> DEFINE stepped1 == [Called(q) EXCEPT !.native.flights = r.native.flights,
                                           !.native.rbio = r.native.rbio]
             drained1 == [drainLocked(stepped1, r.out) EXCEPT !.ready = r.finished]
             grown1 == signalLocked([drained1 EXCEPT !.plain = @ \o r.data])
  <2>1. Turn(q, r) = IF why # "nil" THEN failLocked(stepped1, why)
                     ELSE IF Len(q.plain) + Len(r.data) > QueueLimit
                          THEN failLocked(drained1, "ErrOverflow")
                          ELSE grown1
    BY DEF Turn
  <2>2. stepped1 = stepped
    BY <1>1, <1>9 DEF Session, Endpoint, native
  <2>3. drained1 = drained
    BY <1>3, <1>9, <2>2 DEF drainLocked, Session
  <2>4. grown1 = grown
    BY <1>6, <2>3 DEF signalLocked, Session
  <2> HIDE DEF stepped, drained, grown, stepped1, drained1, grown1
  <2>5. QED
    BY <2>1, <2>2, <2>3, <2>4
<1> HIDE DEF stepped, drained, grown
<1>11. CASE why # "nil"
  BY <1>4, <1>5, <1>10, <1>11, FailedSession
<1>12. CASE why = "nil" /\ Len(q.plain) + Len(r.data) > QueueLimit
  <2>1. ~Overflows(q, r.out) /\ "ErrOverflow" \in Failures
    BY <1>12 DEF Failures
  <2>2. QED
    BY <1>7, <1>10, <1>12, <2>1, FailedSession
<1>13. CASE why = "nil" /\ ~(Len(q.plain) + Len(r.data) > QueueLimit)
  <2>1. Turn(q, r) = grown /\ ~Overflows(q, r.out)
    BY <1>10, <1>13
  <2>2. Len(grown.plain) <= QueueLimit /\ Len(grown.cipher) <= QueueLimit
    BY <1>1, <1>8, <1>13, <2>1, Limits DEF Overflows, IsResult, Session
  <2>3. GoodSession(grown)
    BY <1>2, <1>8, <2>2 DEF GoodSession, Live, IsResult
  <2>4. QED
    BY <1>8, <2>1, <2>3
<1>14. QED
  BY <1>11, <1>12, <1>13

-----------------------------------------------------------------------------
(* What a step does to the streams *)

LEMMA SameStreams ==
  ASSUME IInv, s'.err = s.err, s'.ready = s.ready, s'.plain = s.plain, s'.cipher = s.cipher,
         UNCHANGED history
  PROVE  HistoryOK' /\ Implements
<1>1. UNCHANGED Stream!streamVars
  BY DEF history, Stream!streamVars
<1>2. HistoryOK'
  BY DEF IInv, HistoryOK, QueuesAreTheStreams, history
<1>3. QED
  BY <1>1, <1>2 DEF Implements

LEMMA FailingStep ==
  ASSUME IInv, NEW q, GoodSession(q), q.err = s.err, s.err # "nil" => q = s,
         NEW why \in Failures, s' = failLocked(q, why), UNCHANGED history
  PROVE  GoodSession(s)' /\ s'.waiting = {} /\ s'.err # "nil" /\ HistoryOK' /\ Implements
<1>1. GoodSession(s)' /\ s'.err # "nil" /\ s'.waiting = {}
  BY FailedSession
<1>2. HistoryOK'
  BY <1>1 DEF IInv, HistoryOK, QueuesAreTheStreams, history
<1>3. CASE s.err # "nil"
  <2>1. s' = s
    BY <1>3 DEF failLocked
  <2>2. s'.err = s.err /\ s'.ready = s.ready /\ s'.plain = s.plain /\ s'.cipher = s.cipher
    BY <2>1
  <2>3. Implements
    BY <2>2, SameStreams
  <2>4. QED
    BY <1>1, <1>2, <2>3
<1>4. CASE s.err = "nil"
  <2>1. Stream!Break
    BY <1>1, <1>4 DEF Stream!Break, history
  <2>2. Implements
    BY <2>1 DEF Implements, Stream!StreamNext
  <2>3. QED
    BY <1>1, <1>2, <2>2
<1>5. QED
  BY <1>1, <1>2, <1>3, <1>4

LEMMA GrowingStep ==
  ASSUME IInv, s.err = "nil", NEW d \in Seq(Nat), NEW o \in Seq(Nat),
         GoodSession(s)', s'.err = "nil", s.ready => s'.ready,
         s'.plain = s.plain \o d, s'.cipher = s.cipher \o o,
         arrived' = arrived \o d, emitted' = emitted \o o,
         delivered' = delivered, collected' = collected
  PROVE  HistoryOK' /\ Implements
<1>1. /\ arrived \in Seq(Nat) /\ delivered \in Seq(Nat) /\ emitted \in Seq(Nat)
      /\ collected \in Seq(Nat) /\ s.plain \in Seq(Nat) /\ s.cipher \in Seq(Nat)
      /\ arrived = delivered \o s.plain /\ emitted = collected \o s.cipher
  BY DEF IInv, HistoryOK, QueuesAreTheStreams, GoodSession, Session
<1>2. arrived' = delivered \o s'.plain /\ emitted' = collected \o s'.cipher
  <2>1. (delivered \o s.plain) \o d = delivered \o (s.plain \o d)
    <3>1. delivered \in Seq(Nat) /\ s.plain \in Seq(Nat) /\ d \in Seq(Nat)
      BY <1>1
    <3>2. QED
      BY ONLY <3>1, Associative
  <2>2. (collected \o s.cipher) \o o = collected \o (s.cipher \o o)
    <3>1. collected \in Seq(Nat) /\ s.cipher \in Seq(Nat) /\ o \in Seq(Nat)
      BY <1>1
    <3>2. QED
      BY ONLY <3>1, Associative
  <2>3. QED
    BY <1>1, <2>1, <2>2, Zenon
<1>3. s'.plain \in Seq(Nat) /\ s'.cipher \in Seq(Nat)
  BY <1>1, ConcatProperties
<1>4. arrived' \in Seq(Nat) /\ emitted' \in Seq(Nat)
  BY <1>1, ConcatProperties
<1>5. Len(s'.plain) <= QueueLimit /\ Len(s'.cipher) <= QueueLimit
  BY DEF GoodSession
<1>6. /\ Len(arrived') = Len(delivered) + Len(s'.plain)
      /\ Len(emitted') = Len(collected) + Len(s'.cipher)
  BY <1>1, <1>2, <1>3, ConcatProperties
<1>7. /\ Len(arrived') - Len(delivered) <= QueueLimit
      /\ Len(emitted') - Len(collected) <= QueueLimit
  BY <1>1, <1>3, <1>5, <1>6, Limits
<1>8. Stream!IsPrefix(arrived, arrived') /\ Stream!IsPrefix(emitted, emitted')
  BY <1>1, PrefixOfConcat
<1>9. Stream!Advance
  BY <1>7, <1>8 DEF Stream!Advance
<1>10. HistoryOK'
  BY <1>1, <1>2, <1>4 DEF HistoryOK, QueuesAreTheStreams
<1>11. QED
  BY <1>9, <1>10 DEF Implements, Stream!StreamNext

LEMMA TurnStep ==
  ASSUME IInv, s.err = "nil", s' = Turn(s, g5120_step), Queued(g5120_step, s')
  PROVE  GoodSession(s)' /\ s'.waiting = {} /\ HistoryOK' /\ Implements
<1> DEFINE r == g5120_step
<1>1. GoodSession(s) /\ IsResult(r) /\ (s.ready => r.finished)
  BY StepResult DEF IInv
<1>2. r.data \in Seq(Nat) /\ r.out \in Seq(Nat)
  BY <1>1 DEF IsResult
<1>3. s' = Turn(s, r) /\ Queued(r, s')
  OBVIOUS
<1> HIDE DEF r
<1>4. /\ GoodSession(s)' /\ s'.waiting = {}
      /\ s'.err = "nil" => s'.plain = s.plain \o r.data /\ s'.cipher = s.cipher \o r.out
                          /\ (s.ready => s'.ready)
  BY <1>1, <1>3, TurnOfTheLoop
<1>5. CASE s'.err = "nil"
  BY <1>2, <1>3, <1>4, <1>5, GrowingStep DEF Queued
<1>6. CASE s'.err # "nil"
  <2>1. UNCHANGED history
    BY <1>3, <1>6 DEF Queued, history
  <2>2. HistoryOK'
    BY <1>6, <2>1 DEF IInv, HistoryOK, QueuesAreTheStreams, history
  <2>3. Stream!Break
    BY <1>6, <2>1 DEF Stream!Break, history
  <2>4. QED
    BY <1>4, <2>2, <2>3 DEF Implements, Stream!StreamNext
<1>7. QED
  BY <1>4, <1>5, <1>6

LEMMA TakingStep ==
  ASSUME NEW read \in Seq(Nat), NEW taken \in Seq(Nat), NEW rest \in Seq(Nat)
  PROVE  /\ read \o taken \in Seq(Nat)
         /\ read \o (taken \o rest) = (read \o taken) \o rest
         /\ Stream!IsPrefix(read, read \o taken)
         /\ Stream!IsPrefix(read \o taken, (read \o taken) \o rest)
<1>1. read \o taken \in Seq(Nat)
  BY ConcatProperties
<1>2. QED
  BY <1>1, Associative, PrefixOfConcat

-----------------------------------------------------------------------------
(* Steps that leave the session alone *)

LEMMA NothingWaits ==
  ASSUME s'.waiting = {}
  PROVE  NothingMissed'
BY DEF NothingMissed

LEMMA SameSession ==
  ASSUME IInv, s' = s, UNCHANGED history
  PROVE  GoodSession(s)' /\ HistoryOK' /\ Implements
<1>1. s'.err = s.err /\ s'.ready = s.ready /\ s'.plain = s.plain /\ s'.cipher = s.cipher
  OBVIOUS
<1>2. GoodSession(s)'
  BY DEF IInv
<1>3. QED
  BY <1>1, <1>2, SameStreams

LEMMA Typed ==
  ASSUME IInv
  PROVE  /\ s.waiting \subseteq Callers /\ s.readDeadline \in Deadlines /\ NoDeadline \in Deadlines
         /\ 0 \in 0..MaxChunks
         /\ s.plain \in Seq(Nat) /\ s.cipher \in Seq(Nat)
         /\ \A w \in Writers : w \notin Readers /\ w # Nobody /\ w # Feeder /\ w \in Callers
BY Limits, Distinct
DEF IInv, GoodSession, Session, Deadlines, NoDeadline, Callers, Readers, Nobody, Feeder

LEMMA ControlSteps ==
  ASSUME IInv, Refuse \/ Cancel \/ WatcherEnds \/ Tick
  PROVE  IInv' /\ Implements
<1>1. s' = s /\ UNCHANGED history /\ UNCHANGED <<mu, callers>>
  BY DEF Refuse, Cancel, WatcherEnds, Tick
<1>2. GoodSession(s)' /\ HistoryOK' /\ Implements
  BY <1>1, SameSession
<1>3. ControlOK'
  BY Limits DEF IInv, ControlOK, Refuse, Cancel, WatcherEnds, Tick, callers, bounds, life
<1>4. NothingMissed'
  BY <1>1 DEF IInv, NothingMissed, callers, Queue, Deadline
<1>5. CallsOK'
  BY <1>1 DEF IInv, CallsOK, Refuse, Cancel, WatcherEnds, Tick, callers, life
<1>6. QED
  BY <1>2, <1>3, <1>4, <1>5 DEF IInv

LEMMA ReadFailsStep ==
  ASSUME IInv, NEW c \in Readers, ReadFails(c)
  PROVE  IInv' /\ Implements
<1>1. s' = s /\ UNCHANGED history
  BY DEF ReadFails
<1>2. GoodSession(s)' /\ HistoryOK' /\ Implements
  BY <1>1, SameSession
<1>3. /\ inside' = inside \ {c} /\ due' = [due EXCEPT ![c] = NoDeadline] /\ left' = left
      /\ UNCHANGED <<life, mu, now, bounds>> /\ c \notin s.waiting
  BY DEF ReadFails, Looks, Return
<1>4. ControlOK'
  BY <1>3, Typed DEF IInv, ControlOK, bounds, life
<1>5. NothingMissed'
  BY <1>1, <1>3, Typed DEF IInv, ControlOK, NothingMissed, Queue, Deadline
<1>6. CallsOK'
  BY <1>1, <1>3, Typed DEF IInv, ControlOK, CallsOK, life
<1>7. QED
  BY <1>2, <1>4, <1>5, <1>6 DEF IInv

LEMMA WriterSteps ==
  ASSUME IInv, NEW w \in Writers, Write(w) \/ WriteFails(w) \/ WriteBegins(w)
  PROVE  IInv' /\ Implements
<1>1. s' = s /\ UNCHANGED <<history, life, now>>
  BY DEF Write, WriteFails, WriteBegins
<1>2. GoodSession(s)' /\ HistoryOK' /\ Implements
  BY <1>1, SameSession
<1>3. CASE Write(w)
  <2>1. PICK chunks \in 1..MaxChunks : left' = [left EXCEPT ![w] = chunks]
    BY <1>3 DEF Write
  <2>2. /\ phase = "running" /\ w \notin inside /\ inside' = inside \cup {w} /\ writes < MaxWrites
        /\ writes' = writes + 1 /\ UNCHANGED <<mu, due, transfers>>
    BY <1>3 DEF Write
  <2>3. ControlOK'
    BY <1>1, <2>1, <2>2, Typed, Limits DEF IInv, ControlOK, life
  <2>4. NothingMissed'
    BY <1>1, <2>2 DEF IInv, NothingMissed, Queue, Deadline
  <2>5. CallsOK'
    BY <1>1, <2>1, <2>2, Limits DEF IInv, ControlOK, CallsOK, life
  <2>6. QED
    BY <1>2, <2>3, <2>4, <2>5 DEF IInv
<1>4. CASE WriteFails(w)
  <2>1. /\ inside' = inside \ {w} /\ due' = [due EXCEPT ![w] = NoDeadline]
        /\ left' = [left EXCEPT ![w] = 0]
        /\ UNCHANGED <<mu, bounds>> /\ mu = Nobody /\ w \notin s.waiting
    BY <1>4 DEF WriteFails, Looks, Return
  <2>2. ControlOK'
    BY <1>1, <2>1, Typed DEF IInv, ControlOK, bounds, life
  <2>3. NothingMissed'
    BY <1>1, <2>1, Typed DEF IInv, ControlOK, NothingMissed, Queue, Deadline
  <2>4. CallsOK'
    BY <1>1, <2>1, Typed DEF IInv, ControlOK, CallsOK, life
  <2>5. QED
    BY <1>2, <2>2, <2>3, <2>4 DEF IInv
<1>5. CASE WriteBegins(w)
  <2>1. /\ phase = "running" /\ w \in inside /\ s.err = "nil" /\ mu' = w
        /\ UNCHANGED <<callers, bounds>>
    BY <1>5 DEF WriteBegins, Looks
  <2>2. ControlOK'
    BY <1>1, <2>1 DEF IInv, ControlOK, bounds, life, callers
  <2>3. NothingMissed'
    BY <1>1, <2>1 DEF IInv, NothingMissed, Queue, Deadline, callers
  <2>4. CallsOK'
    BY <1>1, <2>1 DEF IInv, CallsOK, life, callers
  <2>5. QED
    BY <1>2, <2>2, <2>3, <2>4 DEF IInv
<1>6. QED
  BY <1>3, <1>4, <1>5

-----------------------------------------------------------------------------
(* Waiting *)

LEMMA WaitingSession ==
  ASSUME IInv, NEW set \in SUBSET Callers, s.err = "nil" \/ set \subseteq s.waiting,
         s' = [s EXCEPT !.waiting = set], UNCHANGED history
  PROVE  /\ GoodSession(s)' /\ HistoryOK' /\ Implements /\ s'.waiting = set
         /\ s'.err = s.err /\ s'.ready = s.ready /\ s'.plain = s.plain /\ s'.cipher = s.cipher
         /\ s'.readDeadline = s.readDeadline
<1>1. /\ s' \in Session /\ s'.waiting = set
      /\ s'.err = s.err /\ s'.ready = s.ready /\ s'.plain = s.plain /\ s'.cipher = s.cipher
      /\ s'.readDeadline = s.readDeadline /\ s'.native = s.native /\ s'.done = s.done
  BY DEF IInv, GoodSession, Session
<1>2. s.err # "nil" => set = {}
  BY DEF IInv, GoodSession, Live, Ended
<1>3. GoodSession(s)'
  BY <1>1, <1>2 DEF IInv, GoodSession, Live, Ended
<1>4. QED
  BY <1>1, <1>3, SameStreams

LEMMA ParkingSteps ==
  ASSUME IInv, NEW c \in Callers,
         (c \in Readers /\ ReadParks(c)) \/ (c \in Writers /\ WriteParks(c))
  PROVE  IInv' /\ Implements
<1>1. /\ phase = "running" /\ mu = Nobody /\ s.err = "nil"
      /\ s' = [s EXCEPT !.waiting = @ \cup {c}] /\ UNCHANGED <<life, mu, left, now, bounds, history>>
      /\ inside' = inside \cup {c} /\ due' = [due EXCEPT ![c] = Deadline(c)]
      /\ IF c \in Readers THEN Queue(c) = <<>> ELSE ~s.ready /\ c \in inside
  BY Typed DEF ReadParks, WriteParks, Looks, Park, Deadline, Readers
<1> DEFINE set == s.waiting \cup {c}
<1>2. set \in SUBSET Callers /\ s' = [s EXCEPT !.waiting = set]
  BY <1>1, Typed
<1> HIDE DEF set
<1>3. /\ GoodSession(s)' /\ HistoryOK' /\ Implements /\ s'.waiting = set
      /\ s'.err = s.err /\ s'.ready = s.ready /\ s'.plain = s.plain /\ s'.cipher = s.cipher
      /\ s'.readDeadline = s.readDeadline
  BY <1>1, <1>2, WaitingSession
<1>4. Deadline(c) \in Deadlines /\ (c \in Writers => Deadline(c) = NoDeadline)
  BY Typed DEF Deadline, Readers
<1>5. ControlOK'
  BY <1>1, <1>4 DEF IInv, ControlOK, life, bounds
<1>6. NothingMissed'
  BY <1>1, <1>3, <1>4 DEF IInv, ControlOK, NothingMissed, Queue, Deadline, set
<1>7. CallsOK'
  BY <1>1, <1>3, <1>4, Typed DEF IInv, ControlOK, CallsOK, life
<1>8. QED
  BY <1>3, <1>5, <1>6, <1>7 DEF IInv

LEMMA TimesOutStep ==
  ASSUME IInv, NEW c \in Callers, TimesOut(c)
  PROVE  IInv' /\ Implements
<1>1. /\ c \in inside /\ due[c] # NoDeadline /\ mu = Nobody
      /\ s' = [s EXCEPT !.waiting = @ \ {c}] /\ UNCHANGED <<life, mu, left, now, bounds, history>>
      /\ inside' = inside \ {c} /\ due' = [due EXCEPT ![c] = NoDeadline]
  BY DEF TimesOut, Over, Return
<1> DEFINE set == s.waiting \ {c}
<1>2. set \in SUBSET Callers /\ set \subseteq s.waiting /\ s' = [s EXCEPT !.waiting = set]
  BY <1>1, Typed
<1> HIDE DEF set
<1>3. /\ GoodSession(s)' /\ HistoryOK' /\ Implements /\ s'.waiting = set
      /\ s'.err = s.err /\ s'.ready = s.ready /\ s'.plain = s.plain /\ s'.cipher = s.cipher
      /\ s'.readDeadline = s.readDeadline
  BY <1>1, <1>2, WaitingSession
<1>4. c \notin Writers
  BY <1>1 DEF IInv, CallsOK
<1>5. ControlOK'
  BY <1>1, Typed DEF IInv, ControlOK, life, bounds
<1>6. NothingMissed'
  BY <1>1, <1>3 DEF IInv, ControlOK, NothingMissed, Queue, Deadline, set
<1>7. CallsOK'
  BY <1>1, <1>3, <1>4, Typed DEF IInv, ControlOK, CallsOK, life, set
<1>8. QED
  BY <1>3, <1>5, <1>6, <1>7 DEF IInv

-----------------------------------------------------------------------------
(* Reading *)

LEMMA ShorterQueue ==
  ASSUME IInv, NEW rest \in Seq(Nat)
  PROVE  /\ Len(rest) <= Len(s.plain) => GoodSession([s EXCEPT !.plain = rest]) \/ s.err # "nil"
         /\ Len(rest) <= Len(s.cipher) => GoodSession([s EXCEPT !.cipher = rest]) \/ s.err # "nil"
<1>1. s \in Session /\ GoodSession(s) /\ Len(s.plain) \in Nat /\ Len(s.cipher) \in Nat /\ Len(rest) \in Nat
  BY Typed DEF IInv, GoodSession
<1>2. ASSUME s.err = "nil", Len(rest) <= Len(s.plain)
      PROVE  GoodSession([s EXCEPT !.plain = rest])
  <2> DEFINE q == [s EXCEPT !.plain = rest]
  <2>1. /\ q \in Session /\ q.err = s.err /\ q.native = s.native /\ q.done = s.done
        /\ q.ready = s.ready /\ q.plain = rest /\ q.cipher = s.cipher
    BY <1>1 DEF Session
  <2> HIDE DEF q
  <2>2. GoodSession(q)
    BY <1>1, <1>2, <2>1, Limits DEF GoodSession, Live, Ended
  <2>3. QED
    BY <2>2 DEF q
<1>3. ASSUME s.err = "nil", Len(rest) <= Len(s.cipher)
      PROVE  GoodSession([s EXCEPT !.cipher = rest])
  <2> DEFINE q == [s EXCEPT !.cipher = rest]
  <2>1. /\ q \in Session /\ q.err = s.err /\ q.native = s.native /\ q.done = s.done
        /\ q.ready = s.ready /\ q.cipher = rest /\ q.plain = s.plain
    BY <1>1 DEF Session
  <2> HIDE DEF q
  <2>2. GoodSession(q)
    BY <1>1, <1>3, <2>1, Limits DEF GoodSession, Live, Ended
  <2>3. QED
    BY <2>2 DEF q
<1>4. QED
  BY <1>2, <1>3

LEMMA ReadTakesStep ==
  ASSUME IInv, NEW c \in Readers, ReadTakes(c)
  PROVE  IInv' /\ Implements
<1>1. /\ c \notin s.waiting /\ inside' = inside \ {c} /\ due' = [due EXCEPT ![c] = NoDeadline]
      /\ UNCHANGED <<life, mu, left, now, bounds>>
  BY DEF ReadTakes, Looks, Return
<1>2. PICK n \in 1..Len(Queue(c)) :
        LET taken == SubSeq(Queue(c), 1, n)
            rest == SubSeq(Queue(c), n + 1, Len(Queue(c)))
        IN IF c \in CipherReaders
           THEN /\ s' = [s EXCEPT !.cipher = rest] /\ collected' = collected \o taken
                /\ UNCHANGED <<arrived, delivered, emitted>>
           ELSE /\ s' = [s EXCEPT !.plain = rest] /\ delivered' = delivered \o taken
                /\ UNCHANGED <<arrived, emitted, collected>>
  BY DEF ReadTakes
<1> DEFINE taken == SubSeq(Queue(c), 1, n)
           rest == SubSeq(Queue(c), n + 1, Len(Queue(c)))
<1>3. Queue(c) \in Seq(Nat) /\ Queue(c) # <<>>
  BY Typed DEF Queue
<1>4. s.err = "nil"
  BY <1>3 DEF IInv, GoodSession, Live, Ended, Queue
<1>5. /\ arrived \in Seq(Nat) /\ delivered \in Seq(Nat) /\ emitted \in Seq(Nat)
      /\ collected \in Seq(Nat) /\ arrived = delivered \o s.plain /\ emitted = collected \o s.cipher
  BY <1>4 DEF IInv, HistoryOK, QueuesAreTheStreams
<1>6. /\ taken \in Seq(Nat) /\ rest \in Seq(Nat) /\ Queue(c) = taken \o rest
      /\ Len(rest) <= Len(Queue(c))
  <2>1. n \in 0..Len(Queue(c))
    BY <1>3
  <2>2. QED
    BY <1>3, <2>1, SplitSequence
<1>7. IF c \in CipherReaders
      THEN /\ s' = [s EXCEPT !.cipher = rest] /\ collected' = collected \o taken
           /\ UNCHANGED <<arrived, delivered, emitted>>
      ELSE /\ s' = [s EXCEPT !.plain = rest] /\ delivered' = delivered \o taken
           /\ UNCHANGED <<arrived, emitted, collected>>
  BY <1>2
<1> HIDE DEF taken, rest
<1>8. GoodSession(s)'
  <2>1. rest \in Seq(Nat) /\ Len(rest) <= Len(Queue(c))
    BY <1>5, <1>6 DEF Queue
  <2>2. QED
    BY <1>4, <1>7, <2>1, ShorterQueue DEF Queue
<1>9. /\ s'.waiting = s.waiting /\ s'.err = s.err /\ s'.ready = s.ready
      /\ s'.readDeadline = s.readDeadline
      /\ IF c \in CipherReaders THEN s'.cipher = rest /\ s'.plain = s.plain
                                ELSE s'.plain = rest /\ s'.cipher = s.cipher
  BY <1>7 DEF IInv, GoodSession, Session
<1>10. HistoryOK' /\ Implements
  <2>1. CASE c \in CipherReaders
    <3>1. Queue(c) = s.cipher
      BY <2>1 DEF Queue
    <3>2. /\ collected' \in Seq(Nat) /\ emitted = collected' \o rest
          /\ Stream!IsPrefix(collected, collected') /\ Stream!IsPrefix(collected', emitted)
      <4>1. emitted = collected \o Queue(c) /\ collected' = collected \o taken
        BY <1>5, <1>7, <2>1, <3>1
      <4>2. /\ collected \o taken \in Seq(Nat) /\ emitted = (collected \o taken) \o rest
            /\ Stream!IsPrefix(collected, collected \o taken)
            /\ Stream!IsPrefix(collected \o taken, emitted)
        <5>1. collected \in Seq(Nat) /\ taken \in Seq(Nat) /\ rest \in Seq(Nat)
          BY <1>5, <1>6
        <5>2. emitted = collected \o (taken \o rest)
          BY ONLY <1>6, <4>1, Zenon
        <5>3. /\ collected \o taken \in Seq(Nat)
              /\ collected \o (taken \o rest) = (collected \o taken) \o rest
              /\ Stream!IsPrefix(collected, collected \o taken)
              /\ Stream!IsPrefix(collected \o taken, (collected \o taken) \o rest)
          BY ONLY <5>1, TakingStep, Zenon
        <5>4. QED
          BY ONLY <5>2, <5>3, Zenon
      <4>3. QED
        BY ONLY <4>1, <4>2
    <3>3. HistoryOK'
      BY <1>5, <1>7, <1>9, <2>1, <3>2 DEF HistoryOK, QueuesAreTheStreams
    <3>4. Stream!GiveCipher
      BY <1>4, <1>7, <1>9, <2>1, <3>2 DEF Stream!GiveCipher
    <3>5. QED
      BY <3>3, <3>4 DEF Implements, Stream!StreamNext
  <2>2. CASE c \notin CipherReaders
    <3>1. Queue(c) = s.plain
      BY <2>2 DEF Queue
    <3>2. /\ delivered' \in Seq(Nat) /\ arrived = delivered' \o rest
          /\ Stream!IsPrefix(delivered, delivered') /\ Stream!IsPrefix(delivered', arrived)
      <4>1. arrived = delivered \o Queue(c) /\ delivered' = delivered \o taken
        BY <1>5, <1>7, <2>2, <3>1
      <4>2. /\ delivered \o taken \in Seq(Nat) /\ arrived = (delivered \o taken) \o rest
            /\ Stream!IsPrefix(delivered, delivered \o taken)
            /\ Stream!IsPrefix(delivered \o taken, arrived)
        <5>1. delivered \in Seq(Nat) /\ taken \in Seq(Nat) /\ rest \in Seq(Nat)
          BY <1>5, <1>6
        <5>2. arrived = delivered \o (taken \o rest)
          BY ONLY <1>6, <4>1, Zenon
        <5>3. /\ delivered \o taken \in Seq(Nat)
              /\ delivered \o (taken \o rest) = (delivered \o taken) \o rest
              /\ Stream!IsPrefix(delivered, delivered \o taken)
              /\ Stream!IsPrefix(delivered \o taken, (delivered \o taken) \o rest)
          BY ONLY <5>1, TakingStep, Zenon
        <5>4. QED
          BY ONLY <5>2, <5>3, Zenon
      <4>3. QED
        BY ONLY <4>1, <4>2
    <3>3. HistoryOK'
      BY <1>5, <1>7, <1>9, <2>2, <3>2 DEF HistoryOK, QueuesAreTheStreams
    <3>4. Stream!GivePlain
      BY <1>4, <1>7, <1>9, <2>2, <3>2 DEF Stream!GivePlain
    <3>5. QED
      BY <3>3, <3>4 DEF Implements, Stream!StreamNext
  <2>3. QED
    BY <2>1, <2>2
<1>11. ControlOK'
  BY <1>1, Typed DEF IInv, ControlOK, life, bounds
<1>12. NothingMissed'
  <2>1. SUFFICES ASSUME NEW d \in s.waiting PROVE NothingMissed!(d)'
    BY <1>9 DEF NothingMissed
  <2>2. d # c /\ d \in Callers /\ Queue(c) # <<>>
    BY <1>1, <1>3, Typed
  <2>3. /\ d \in inside /\ s.err = "nil" /\ due[d] = Deadline(d)
        /\ IF d \in Readers THEN Queue(d) = <<>> ELSE ~s.ready
    BY DEF IInv, NothingMissed
  <2>4. d \in inside' /\ due'[d] = due[d] /\ Deadline(d)' = Deadline(d)
    BY <1>1, <1>9, <2>2, <2>3 DEF IInv, ControlOK, Deadline
  <2>5. d \in Readers => Queue(d)' = Queue(d)
    BY <1>9, <2>2, <2>3 DEF Queue
  <2>6. QED
    BY <1>9, <2>3, <2>4, <2>5
<1>13. CallsOK'
  BY <1>1, <1>9, Typed DEF IInv, ControlOK, CallsOK, life
<1>14. QED
  BY <1>8, <1>10, <1>11, <1>12, <1>13 DEF IInv

-----------------------------------------------------------------------------
(* Failing and growing *)

LEMMA FailureSteps ==
  ASSUME IInv, WatcherFails \/ Close \/ Feed(<<"flood">>)
  PROVE  IInv' /\ Implements
<1>1. PICK why \in Failures : s' = failLocked(s, why)
  <2>1. {"Canceled", "ErrClosed", "ErrOverflow"} \subseteq Failures
    BY DEF Failures
  <2>2. CASE WatcherFails
    BY <2>1, <2>2 DEF WatcherFails
  <2>3. CASE Close
    BY <2>1, <2>3 DEF Close
  <2>4. CASE Feed(<<"flood">>)
    <3>1. s' = failLocked(Called(s), "ErrOverflow") /\ s.err = "nil"
      BY <2>4 DEF Feed
    <3>2. Called(s) = s
      BY <3>1, CalledSession DEF IInv
    <3>3. QED
      BY <2>1, <3>1, <3>2
  <2>5. QED
    BY <2>2, <2>3, <2>4
<1>2. mu = Nobody /\ UNCHANGED <<phase, context, mu, callers, now, writes, history>>
  BY DEF WatcherFails, Close, Feed, bounds, life
<1>3. GoodSession(s)' /\ s'.waiting = {} /\ HistoryOK' /\ Implements
  BY <1>1, <1>2, FailingStep DEF IInv
<1>4. watcher' \in {"none", "watching", "gone"} /\ transfers' \in 0..MaxTransfers
  BY Limits DEF IInv, ControlOK, WatcherFails, Close, Feed, bounds, life
<1>5. ControlOK'
  BY <1>2, <1>4 DEF IInv, ControlOK, callers
<1>6. phase = "running"
  BY DEF IInv, ControlOK, CallsOK, WatcherFails, Close, Feed
<1>7. CallsOK'
  BY <1>2, <1>3, <1>6 DEF IInv, CallsOK, callers
<1>8. QED
  BY <1>3, <1>5, <1>7, NothingWaits DEF IInv

LEMMA TurnSteps ==
  ASSUME IInv, start \/ driveLocked
  PROVE  IInv' /\ Implements
<1>1. /\ s.err = "nil" /\ s' = Turn(s, g5120_step) /\ Queued(g5120_step, s')
      /\ UNCHANGED <<context, callers, now, bounds>>
  <2>1. CASE start
    BY <2>1 DEF start, IInv, CallsOK
  <2>2. CASE driveLocked
    BY <2>2 DEF driveLocked, IInv, CallsOK, life, Feeder, Nobody
  <2>3. QED
    BY <2>1, <2>2
<1>2. GoodSession(s)' /\ s'.waiting = {} /\ HistoryOK' /\ Implements
  BY <1>1, TurnStep
<1>3. CASE start
  <2>1. /\ phase = "new" /\ mu' = mu
        /\ IF s'.err = "nil" THEN phase' = "running" /\ watcher' = "watching"
           ELSE phase' = "refused" /\ UNCHANGED watcher
    BY <1>3 DEF start
  <2>2. ControlOK' /\ CallsOK'
    BY <1>1, <1>2, <2>1 DEF IInv, ControlOK, CallsOK, callers, bounds
  <2>3. QED
    BY <1>2, <2>2, NothingWaits DEF IInv
<1>4. CASE driveLocked
  <2>1. /\ mu = Feeder /\ UNCHANGED life
        /\ mu' = IF g5120_step.data = <<>> \/ s'.err # "nil" THEN Nobody ELSE Feeder
    BY <1>4 DEF driveLocked
  <2>2. phase = "running"
    BY <2>1 DEF IInv, CallsOK, Feeder, Nobody
  <2>3. ControlOK' /\ CallsOK'
    BY <1>1, <1>2, <2>1, <2>2, Typed DEF IInv, ControlOK, CallsOK, callers, bounds, life
  <2>4. QED
    BY <1>2, <2>3, NothingWaits DEF IInv
<1>5. QED
  BY <1>3, <1>4

LEMMA WriteChunkStep ==
  ASSUME IInv, NEW w \in Writers, WriteChunk(w)
  PROVE  IInv' /\ Implements
<1>1. PICK ok \in BOOLEAN :
        LET out == IF ok THEN <<Len(emitted) + 1>> ELSE <<>>
            good == ok /\ ~Overflows(s, out)
            why == IF ok THEN "ErrOverflow" ELSE "ErrTLS"
        IN /\ s' = IF good THEN signalLocked(drainLocked(s, out)) ELSE failLocked(Called(s), why)
           /\ emitted' = IF good THEN emitted \o out ELSE emitted
           /\ left' = [left EXCEPT ![w] = IF good THEN @ - 1 ELSE 0]
           /\ IF left'[w] = 0 THEN mu' = Nobody /\ Return(w) ELSE UNCHANGED <<mu, inside, due>>
  BY DEF WriteChunk
<1> DEFINE out == IF ok THEN <<Len(emitted) + 1>> ELSE <<>>
           good == ok /\ ~Overflows(s, out)
           why == IF ok THEN "ErrOverflow" ELSE "ErrTLS"
<1>2. /\ s' = IF good THEN signalLocked(drainLocked(s, out)) ELSE failLocked(Called(s), why)
      /\ emitted' = IF good THEN emitted \o out ELSE emitted
      /\ left' = [left EXCEPT ![w] = IF good THEN @ - 1 ELSE 0]
      /\ IF left'[w] = 0 THEN mu' = Nobody /\ Return(w) ELSE UNCHANGED <<mu, inside, due>>
  BY <1>1
<1>3. mu = w /\ UNCHANGED <<life, now, bounds, arrived, delivered, collected>>
  BY DEF WriteChunk
<1>4. /\ s.err = "nil" /\ w \in inside /\ left[w] \in 1..MaxChunks /\ phase = "running"
      /\ Called(s) = s
  BY <1>3, CalledSession, Typed, Limits DEF IInv, ControlOK, CallsOK
<1>5. out \in Seq(Nat) /\ why \in Failures
  BY DEF IInv, HistoryOK, Failures
<1> HIDE DEF out, why
<1>6. CASE good
  <2> DEFINE q == [s EXCEPT !.cipher = s.cipher \o out, !.waiting = {}]
  <2>1. s.cipher \o out \in Seq(Nat) /\ Len(s.cipher \o out) <= QueueLimit
    BY <1>5, <1>6, ConcatProperties, Typed, Limits DEF Overflows
  <2>2. s' = q
    BY <1>2, <1>4, <1>6 DEF signalLocked, drainLocked, IInv, GoodSession, Session
  <2>3. /\ q \in Session /\ q.err = s.err /\ q.native = s.native /\ q.done = s.done
        /\ q.ready = s.ready /\ q.plain = s.plain /\ q.cipher = s.cipher \o out /\ q.waiting = {}
    BY <2>1 DEF IInv, GoodSession, Session
  <2> HIDE DEF q
  <2>4. GoodSession(s)' /\ s'.waiting = {}
    BY <1>4, <2>1, <2>2, <2>3 DEF IInv, GoodSession, Live, Ended
  <2>5. <<>> \in Seq(Nat) /\ s.plain \o <<>> = s.plain /\ arrived \o <<>> = arrived
    BY Typed, ConcatEmptySeq DEF IInv, HistoryOK
  <2>6. HistoryOK' /\ Implements
    BY <1>2, <1>3, <1>4, <1>5, <1>6, <2>2, <2>3, <2>4, <2>5, GrowingStep
  <2>7. s'.err = "nil" /\ left' = [left EXCEPT ![w] = @ - 1]
    BY <1>2, <1>4, <1>6, <2>2, <2>3
  <2>8. ControlOK' /\ CallsOK'
    BY <1>2, <1>3, <1>4, <2>4, <2>7, Typed, Limits
    DEF IInv, ControlOK, CallsOK, Return, life, bounds
  <2>9. QED
    BY <2>4, <2>6, <2>8, NothingWaits DEF IInv
<1>7. CASE ~good
  <2>1. s' = failLocked(s, why) /\ UNCHANGED history /\ left' = [left EXCEPT ![w] = 0]
    BY <1>2, <1>3, <1>4, <1>7 DEF history
  <2>2. GoodSession(s)' /\ s'.waiting = {} /\ HistoryOK' /\ Implements
    BY <1>5, <2>1, FailingStep DEF IInv
  <2>3. mu' = Nobody /\ inside' = inside \ {w} /\ due' = [due EXCEPT ![w] = NoDeadline]
    BY <1>2, <2>1 DEF IInv, ControlOK, Return
  <2>4. ControlOK' /\ CallsOK'
    BY <1>3, <1>4, <2>1, <2>2, <2>3, Typed, Limits DEF IInv, ControlOK, CallsOK, life, bounds
  <2>5. QED
    BY <2>2, <2>4, NothingWaits DEF IInv
<1>8. QED
  BY <1>6, <1>7

LEMMA FeedStep ==
  ASSUME IInv, NEW t \in Transfers, t # <<"flood">>, Feed(t)
  PROVE  IInv' /\ Implements
<1>1. /\ phase = "running" /\ mu = Nobody /\ transfers < MaxTransfers /\ s.err = "nil" /\ mu' = Feeder
      /\ s' = [Called(s) EXCEPT !.native.rbio = @ \o t] /\ transfers' = transfers + 1
      /\ UNCHANGED <<life, callers, now, writes, history>>
  BY DEF Feed
<1>2. t \in Seq(Records)
  <2>1. /\ <<>> \in Seq(Records)
        /\ \A a \in Records : <<a>> \in Seq(Records)
        /\ \A a, b \in Records : <<a, b>> \in Seq(Records)
        /\ \A a, b, c \in Records : <<a, b, c>> \in Seq(Records)
    OBVIOUS
  <2>2. {"flight", "data", "bye", "bad"} \subseteq Records
    BY DEF Records
  <2>3. t \in {<<>>, <<"flight">>, <<"data", "data">>, <<"data", "data", "data">>, <<"data", "bye">>, <<"bad">>}
    BY DEF Transfers
  <2> QED
    BY <2>1, <2>2, <2>3, Zenon
<1>3. s \in Session /\ s.native \in Endpoint /\ s.native.rbio \in Seq(Records)
  BY DEF IInv, GoodSession, Session, Endpoint
<1> DEFINE rbio == s.native.rbio \o t
           native == [s.native EXCEPT !.rbio = rbio]
           q == [s EXCEPT !.native = native]
<1>4. s' = q
  BY <1>1, <1>3, CalledSession DEF IInv
<1>5. rbio \in Seq(Records)
  BY <1>2, <1>3, ConcatProperties
<1> HIDE DEF rbio
<1>6. native \in Endpoint /\ native.is = s.native.is /\ native.flights = s.native.flights
  BY <1>3, <1>5 DEF Endpoint
<1> HIDE DEF native
<1>7. /\ q \in Session /\ q.err = s.err /\ q.native = native /\ q.done = s.done
      /\ q.ready = s.ready /\ q.plain = s.plain /\ q.cipher = s.cipher /\ q.waiting = s.waiting
      /\ q.readDeadline = s.readDeadline
  BY <1>3, <1>6 DEF Session
<1> HIDE DEF q
<1>8. GoodSession(s)'
  BY <1>4, <1>6, <1>7 DEF IInv, GoodSession, Live, Ended
<1>9. HistoryOK' /\ Implements
  BY <1>1, <1>4, <1>7, SameStreams
<1>10. ControlOK' /\ CallsOK'
  <2>1. ControlOK'
    BY <1>1, Limits DEF IInv, ControlOK, callers, life
  <2>2. CallsOK'
    BY <1>1, <1>4, <1>7, Typed DEF IInv, ControlOK, CallsOK, callers, life
  <2>3. QED
    BY <2>1, <2>2
<1>11. NothingMissed'
  BY <1>1, <1>4, <1>7 DEF IInv, NothingMissed, Queue, Deadline, callers
<1>12. QED
  BY <1>8, <1>9, <1>10, <1>11 DEF IInv

LEMMA SetDeadlineStep ==
  ASSUME IInv, SetDeadline
  PROVE  IInv' /\ Implements
<1>1. PICK t \in Deadlines, which \in SUBSET {"read", "write"} \ {{}} :
        s' = signalLocked([s EXCEPT !.readDeadline = IF "read" \in which THEN t ELSE @,
                                    !.writeDeadline = IF "write" \in which THEN t ELSE @])
  BY DEF SetDeadline
<1>2. phase = "running" /\ UNCHANGED <<life, mu, callers, now, bounds, history>>
  BY DEF SetDeadline
<1> DEFINE reads == IF "read" \in which THEN t ELSE s.readDeadline
           writes1 == IF "write" \in which THEN t ELSE s.writeDeadline
           q == [s EXCEPT !.readDeadline = reads, !.writeDeadline = writes1, !.waiting = {}]
<1>3. s \in Session /\ reads \in Deadlines /\ writes1 \in Deadlines
  BY DEF IInv, GoodSession, Session
<1>4. s' = q
  BY <1>1, <1>3 DEF signalLocked, Session
<1> HIDE DEF reads, writes1
<1>5. /\ q \in Session /\ q.err = s.err /\ q.native = s.native /\ q.done = s.done
      /\ q.ready = s.ready /\ q.plain = s.plain /\ q.cipher = s.cipher /\ q.waiting = {}
  BY <1>3 DEF Session
<1> HIDE DEF q
<1>6. GoodSession(s)' /\ s'.waiting = {}
  BY <1>4, <1>5 DEF IInv, GoodSession, Live, Ended
<1>7. HistoryOK' /\ Implements
  BY <1>2, <1>4, <1>5, SameStreams
<1>8. ControlOK' /\ CallsOK'
  BY <1>2, <1>4, <1>5 DEF IInv, ControlOK, CallsOK, callers, life, bounds
<1>9. QED
  BY <1>6, <1>7, <1>8, NothingWaits DEF IInv

-----------------------------------------------------------------------------

LEMMA InitInvariant == Init => IInv /\ Stream!StreamInit
<1>1. SUFFICES ASSUME Init PROVE IInv /\ Stream!StreamInit
  OBVIOUS
<1>2. PICK client \in BOOLEAN : s = NewSession(client)
  BY <1>1 DEF Init
<1>3. TlsNew(client) \in Endpoint /\ TlsNew(client).is = "live"
  BY DEF TlsNew, Flights, Endpoint
<1>4. <<>> \in Seq(Nat) /\ Len(<<>>) = 0 /\ NoDeadline \in Deadlines
  BY Limits DEF NoDeadline, Deadlines
<1>5. /\ s \in Session /\ s.native = TlsNew(client) /\ s.err = "nil" /\ s.done = "open" /\ s.ready = FALSE
      /\ s.plain = <<>> /\ s.cipher = <<>> /\ s.waiting = {}
  BY <1>2, <1>3, <1>4 DEF NewSession, Session
<1>6. GoodSession(s)
  BY <1>3, <1>4, <1>5, Limits DEF GoodSession, Live
<1>7. ControlOK /\ CallsOK
  <2>1. ControlOK
    BY <1>1, <1>4, Limits DEF Init, ControlOK
  <2>2. \A w \in Writers : due[w] = NoDeadline /\ w \notin inside /\ mu # w
    BY <1>1, Distinct DEF Init, Callers
  <2>3. CallsOK
    BY <1>1, <1>5, <2>2 DEF Init, CallsOK
  <2>4. QED
    BY <2>1, <2>3
<1>8. HistoryOK
  <2>1. <<>> \o <<>> = <<>>
    BY <1>4, ConcatEmptySeq
  <2>2. QED
    BY <1>1, <1>4, <1>5, <2>1 DEF Init, HistoryOK, QueuesAreTheStreams
<1>9. NothingMissed
  BY <1>5 DEF NothingMissed
<1>10. Stream!StreamInit
  BY <1>1, <1>5 DEF Init, Stream!StreamInit
<1>11. QED
  BY <1>6, <1>7, <1>8, <1>9, <1>10 DEF IInv

LEMMA NextInvariant == IInv /\ [Next]_vars => IInv' /\ Implements
<1>1. SUFFICES ASSUME IInv, [Next]_vars PROVE IInv' /\ Implements
  OBVIOUS
<1>2. CASE Refuse
  BY <1>1, <1>2, ControlSteps
<1>3. CASE Cancel \/ WatcherEnds \/ Tick
  BY <1>1, <1>3, ControlSteps
<1>4. CASE WatcherFails \/ Close
  BY <1>1, <1>4, FailureSteps
<1>5. CASE start \/ driveLocked
  BY <1>1, <1>5, TurnSteps
<1>6. CASE SetDeadline
  BY <1>1, <1>6, SetDeadlineStep
<1>7. ASSUME NEW c \in Readers, Reads(c) \/ TimesOut(c) PROVE IInv' /\ Implements
  <2>1. c \in Callers
    BY DEF Callers
  <2>2. QED
    BY <1>1, <1>7, <2>1, ReadTakesStep, ReadFailsStep, ParkingSteps, TimesOutStep DEF Reads
<1>8. ASSUME NEW w \in Writers, Write(w) \/ Writes(w) PROVE IInv' /\ Implements
  <2>1. w \in Callers
    BY DEF Callers
  <2>2. QED
    BY <1>1, <1>8, <2>1, WriterSteps, ParkingSteps, WriteChunkStep DEF Writes
<1>9. ASSUME NEW t \in Transfers, Feed(t) PROVE IInv' /\ Implements
  <2>1. CASE t = <<"flood">>
    BY <1>1, <1>9, <2>1, FailureSteps
  <2>2. CASE t # <<"flood">>
    BY <1>1, <1>9, <2>2, FeedStep
  <2>3. QED
    BY <2>1, <2>2
<1>10. CASE UNCHANGED vars
  <2>1. s' = s /\ UNCHANGED history /\ UNCHANGED <<life, mu, callers, now, bounds>>
    BY <1>10 DEF vars
  <2>2. GoodSession(s)' /\ HistoryOK' /\ Implements
    BY <1>1, <2>1, SameSession
  <2>3. ControlOK' /\ CallsOK' /\ NothingMissed'
    BY <1>1, <2>1 DEF IInv, ControlOK, CallsOK, NothingMissed, callers, life, bounds, Queue, Deadline
  <2>4. QED
    BY <2>2, <2>3 DEF IInv
<1>11. QED
  BY <1>1, <1>2, <1>3, <1>4, <1>5, <1>6, <1>7, <1>8, <1>9, <1>10 DEF Next

LEMMA Invariance == Spec => []IInv
BY InitInvariant, NextInvariant, PTL DEF Spec

\* The types of the session, of its callers and of its streams.
THEOREM SessionTypeOK == Spec => []TypeOK
<1>1. IInv => TypeOK
  BY DEF IInv, ControlOK, GoodSession, TypeOK
<1>2. QED
  BY Invariance, <1>1, PTL

\* However many callers wait on the one channel, none of them waits for what
\* has happened already.
THEOREM SessionNothingMissed == Spec => []NothingMissed
<1>1. IInv => NothingMissed
  BY DEF IInv
<1>2. QED
  BY Invariance, <1>1, PTL

\* Whoever ends the session, and however often, the endpoint is freed once and
\* no call reaches it afterwards.
THEOREM SessionEndsOnce == Spec => []EndsOnce
<1>1. IInv => EndsOnce
  BY DEF IInv, GoodSession, Live, Ended, CallsOK, EndsOnce
<1>2. QED
  BY Invariance, <1>1, PTL

\* The two queues under the lock hold what of the two streams is unread.
THEOREM SessionQueuesAreTheStreams == Spec => []QueuesAreTheStreams
<1>1. IInv => QueuesAreTheStreams
  BY DEF IInv, HistoryOK
<1>2. QED
  BY Invariance, <1>1, PTL

\* A Session is the pair of bounded streams SecureStream promises, for any
\* number of callers and any limit of the queues.
THEOREM SessionImplementsSecureStream == Spec => ImplementsSecureStream
BY InitInvariant, NextInvariant, Invariance, PTL
DEF Spec, ImplementsSecureStream, Implements, Stream!StreamSpec
=============================================================================
