---------------------------- MODULE NativeSession ----------------------------
(***************************************************************************)
(* tlspsk.Session: one mutex around an OpenSSL endpoint and two bounded    *)
(* queues, a channel that is closed and replaced to wake those who wait,   *)
(* and a goroutine that ends the session with its context.                 *)
(*                                                                         *)
(* A critical section is one action, except where it loops over calls into *)
(* OpenSSL (driveLocked, Write): there an action is one turn of the loop   *)
(* and mu says whose.  OpenSSL is reduced to what it makes of whole        *)
(* flights and records.  A queue holds records, not bytes.                 *)
(***************************************************************************)
EXTENDS Integers, Sequences, FiniteSets

CONSTANTS
  PlainReaders,    \* callers of Session.Read
  CipherReaders,   \* callers of Device().Read
  Writers,         \* callers of Session.Write
  QueueLimit,
  MaxTransfers,    \* bound: what the device sends, the host writes
  MaxWrites,
  MaxChunks,
  MaxNow           \* bound: the clock

Readers == PlainReaders \cup CipherReaders
Callers == Readers \cup Writers
Nobody == "nobody"
Feeder == "feeder"        \* inside Device().Write

ASSUME Distinct ==
  /\ PlainReaders \cap CipherReaders = {} /\ Readers \cap Writers = {}
  /\ Nobody \notin Callers /\ Feeder \notin Callers
ASSUME Limits == QueueLimit \in Nat /\ MaxChunks \in Nat /\ MaxNow \in Nat
                 /\ MaxTransfers \in Nat /\ MaxWrites \in Nat

VARIABLES
  phase,      \* of Start: "new", "running", "refused"
  mu,         \* the holder of the mutex between two turns of a loop
  s,          \* the Session
  inside,     \* the callers in a call that has let go of the mutex to wait
  due,        \* the deadline each parked caller has set its timer to
  left,       \* the chunks a writer has yet to write
  context,    \* "live", "cancelled"
  watcher,    \* the goroutine of start: "none", "watching", "gone"
  now,
  transfers, writes,                        \* the counters of the bounds
  arrived, delivered, emitted, collected    \* history: what was ever queued and read

history == <<arrived, delivered, emitted, collected>>
bounds == <<transfers, writes>>
callers == <<inside, due, left>>
life == <<phase, context, watcher>>
vars == <<life, mu, s, callers, now, bounds, history>>

NoDeadline == 0
Deadlines == 0..MaxNow

-----------------------------------------------------------------------------
(* OpenSSL (external): a flight of the handshake is answered by one, then  *)
(* application records are decrypted, one for each step.                   *)

Flights(client) == IF client THEN 3 ELSE 2
TlsNew(client) == [is |-> "live", client |-> client, flights |-> Flights(client), rbio |-> <<>>]
NoEndpoint == [is |-> "nil", client |-> FALSE, flights |-> 0, rbio |-> <<>>]
Records == {"flight", "data", "bye", "bad"}
Endpoint == [is : {"live", "nil", "crashed"}, client : BOOLEAN, flights : 0..3, rbio : Seq(Records)]

\* What the device may write in one go: parts of records, flights, data, the
\* end of the stream, and what does not decrypt or does not belong there.
Transfers ==
  {<<>>, <<"flight">>, <<"data", "data">>, <<"data", "data", "data">>, <<"data", "bye">>, <<"bad">>, <<"flood">>}
Code == [flight |-> -1, data |-> -1, bye |-> -5, bad |-> -3]

\* A client speaks first: its first flight answers nothing.
g5120_step ==
  LET tls == s.native
      speaks == tls.client /\ tls.flights = 3
      answers == tls.flights > 0 /\ tls.rbio # <<>> /\ Head(tls.rbio) = "flight"
      rest == IF answers THEN Tail(tls.rbio) ELSE tls.rbio
      flights == IF speaks \/ answers THEN tls.flights - 1 ELSE tls.flights
      reads == ~speaks /\ rest # <<>>
      data == reads /\ flights = 0 /\ Head(rest) = "data"
  IN [out |-> IF (speaks \/ answers) /\ ~(tls.client /\ flights = 0)
              THEN <<Len(emitted) + 1>> ELSE <<>>,
      data |-> IF data THEN <<Len(arrived) + 1>> ELSE <<>>,
      code |-> IF reads /\ ~data THEN Code[Head(rest)] ELSE 0,
      finished |-> flights = 0,
      native |-> [tls EXCEPT !.flights = flights, !.rbio = IF reads THEN Tail(rest) ELSE rest]]

-----------------------------------------------------------------------------
(* The Session and its operations under the mutex.  waiting are the callers *)
(* that hold the current channel: closing it empties the set.              *)

nativeError == [c \in -5..0 |->
  CASE c = 0 -> "nil" [] c = -2 -> "ErrPolicy" [] c = -3 -> "ErrPSKMismatch"
    [] c = -4 -> "ErrOverflow" [] c = -5 -> "EOF" [] OTHER -> "ErrTLS"]
Failures == {"ErrPolicy", "ErrPSKMismatch", "ErrOverflow", "EOF", "ErrTLS", "ErrClosed", "Canceled"}

Session ==
  [native : Endpoint, done : {"open", "closed", "panic"},
   err : Failures \cup {"nil"}, ready : BOOLEAN, plain : Seq(Nat), cipher : Seq(Nat),
   readDeadline : Deadlines, writeDeadline : Deadlines, waiting : SUBSET Callers]
NewSession(client) ==
  [native |-> TlsNew(client), done |-> "open", err |-> "nil", ready |-> FALSE, plain |-> <<>>,
   cipher |-> <<>>, readDeadline |-> NoDeadline, writeDeadline |-> NoDeadline, waiting |-> {}]

signalLocked(q) == [q EXCEPT !.waiting = {}]

\* A call into C with a nil endpoint ends the process.
Called(q) == [q EXCEPT !.native.is = IF @ = "live" THEN "live" ELSE "crashed"]

\* Mutant: the endpoint is freed whoever ended the session before.
failLockedAgain(q, why) ==
  signalLocked([q EXCEPT !.err = IF @ = "nil" THEN why ELSE @, !.plain = <<>>, !.cipher = <<>>,
                         !.native = NoEndpoint, !.done = IF @ = "open" THEN "closed" ELSE "panic"])
\* Mutant: those who wait are not told.
failLockedQuietly(q, why) ==
  IF q.err # "nil" THEN q
  ELSE [q EXCEPT !.err = why, !.plain = <<>>, !.cipher = <<>>, !.native = NoEndpoint,
                 !.done = IF @ = "open" THEN "closed" ELSE "panic"]

failLocked(q, why) ==
  IF q.err # "nil" THEN q
  ELSE signalLocked([q EXCEPT !.err = why, !.plain = <<>>, !.cipher = <<>>, !.native = NoEndpoint,
                              !.done = IF @ = "open" THEN "closed" ELSE "panic"])

\* Mutant: only what is queued already is compared with the limit.
OverflowsLate(q, out) == Len(q.cipher) > QueueLimit

\* The encrypted records OpenSSL holds move to the queue, or there are too many.
Overflows(q, out) == Len(q.cipher) + Len(out) > QueueLimit
drainLocked(q, out) == [Called(q) EXCEPT !.cipher = @ \o out]

\* One turn of driveLocked, r being the result of g5120_step.
Turn(q, r) ==
  LET stepped == [Called(q) EXCEPT !.native.flights = r.native.flights, !.native.rbio = r.native.rbio]
      why == IF Overflows(q, r.out) THEN "ErrOverflow" ELSE nativeError[r.code]
      drained == [drainLocked(stepped, r.out) EXCEPT !.ready = r.finished]
  IN IF why # "nil" THEN failLocked(stepped, why)
     ELSE IF Len(q.plain) + Len(r.data) > QueueLimit THEN failLocked(drained, "ErrOverflow")
     ELSE signalLocked([drained EXCEPT !.plain = @ \o r.data])

\* What a turn has queued, as history.
Queued(r, q) ==
  /\ arrived' = IF q.err = "nil" THEN arrived \o r.data ELSE arrived
  /\ emitted' = IF q.err = "nil" THEN emitted \o r.out ELSE emitted
  /\ UNCHANGED <<delivered, collected>>

-----------------------------------------------------------------------------

Init ==
  /\ phase = "new" /\ context = "live" /\ watcher = "none"
  /\ mu = Nobody /\ \E client \in BOOLEAN : s = NewSession(client)
  /\ inside = {} /\ due = [c \in Callers |-> NoDeadline]
  /\ left = [w \in Writers |-> 0] /\ now = 0 /\ transfers = 0 /\ writes = 0
  /\ arrived = <<>> /\ delivered = <<>> /\ emitted = <<>> /\ collected = <<>>

\* A cancelled context, a PSK of the wrong length, OpenSSL or its policy.
Refuse ==
  /\ phase = "new" /\ phase' = "refused"
  /\ UNCHANGED <<context, watcher, mu, s, callers, now, bounds, history>>

start ==
  /\ phase = "new" /\ context = "live"
  /\ LET r == g5120_step IN
       /\ s' = Turn(s, r) /\ Queued(r, s')
  /\ IF s'.err = "nil" THEN phase' = "running" /\ watcher' = "watching"
     ELSE phase' = "refused" /\ UNCHANGED watcher
  /\ UNCHANGED <<context, mu, callers, now, bounds>>

Cancel == /\ context = "live" /\ context' = "cancelled"
          /\ UNCHANGED <<phase, watcher, mu, s, callers, now, bounds, history>>

WatcherFails ==
  /\ watcher = "watching" /\ context = "cancelled" /\ mu = Nobody
  /\ s' = failLocked(s, "Canceled") /\ watcher' = "gone"
  /\ UNCHANGED <<phase, context, mu, callers, now, bounds, history>>

WatcherEnds ==
  /\ watcher = "watching" /\ s.done # "open" /\ watcher' = "gone"
  /\ UNCHANGED <<phase, context, mu, s, callers, now, bounds, history>>

-----------------------------------------------------------------------------
(* read and waitLocked *)

Over(deadline) == deadline # NoDeadline /\ deadline <= now
Queue(c) == IF c \in CipherReaders THEN s.cipher ELSE s.plain
Deadline(c) == IF c \in CipherReaders THEN s.readDeadline ELSE NoDeadline

\* The lock is free, and c takes it to begin a call, or in a call when the
\* channel it took is closed.
Looks(c) == phase = "running" /\ mu = Nobody /\ c \notin s.waiting
Return(c) == inside' = inside \ {c} /\ due' = [due EXCEPT ![c] = NoDeadline]

\* The channel is taken before the lock is let go.
Park(c, deadline) ==
  /\ s' = [s EXCEPT !.waiting = @ \cup {c}]
  /\ inside' = inside \cup {c} /\ due' = [due EXCEPT ![c] = deadline]

\* n records fit the buffer of the caller.
ReadTakes(c) ==
  /\ Looks(c) /\ ~Over(Deadline(c))
  /\ \E n \in 1..Len(Queue(c)) :
       LET taken == SubSeq(Queue(c), 1, n)
           rest == SubSeq(Queue(c), n + 1, Len(Queue(c)))
       IN IF c \in CipherReaders
          THEN /\ s' = [s EXCEPT !.cipher = rest] /\ collected' = collected \o taken
               /\ UNCHANGED <<arrived, delivered, emitted>>
          ELSE /\ s' = [s EXCEPT !.plain = rest] /\ delivered' = delivered \o taken
               /\ UNCHANGED <<arrived, emitted, collected>>
  /\ Return(c)
  /\ UNCHANGED <<life, mu, left, now, bounds>>

\* os.ErrDeadlineExceeded, or the failure of the session.
ReadFails(c) ==
  /\ Looks(c)
  /\ Over(Deadline(c)) \/ (Queue(c) = <<>> /\ s.err # "nil")
  /\ Return(c)
  /\ UNCHANGED <<life, mu, s, left, now, bounds, history>>

ReadParks(c) ==
  /\ Looks(c) /\ ~Over(Deadline(c)) /\ Queue(c) = <<>> /\ s.err = "nil"
  /\ Park(c, Deadline(c))
  /\ UNCHANGED <<life, mu, left, now, bounds, history>>

\* The timer fires first; the lock is taken again before the call returns.
TimesOut(c) ==
  /\ c \in inside /\ Over(due[c]) /\ mu = Nobody
  /\ s' = [s EXCEPT !.waiting = @ \ {c}] /\ Return(c)
  /\ UNCHANGED <<life, mu, left, now, bounds, history>>

-----------------------------------------------------------------------------
(* Write *)

\* A call begins with some chunks to write.
Write(w) ==
  /\ phase = "running" /\ w \notin inside /\ left[w] = 0 /\ writes < MaxWrites
  /\ \E chunks \in 1..MaxChunks : left' = [left EXCEPT ![w] = chunks]
  /\ inside' = inside \cup {w} /\ writes' = writes + 1
  /\ UNCHANGED <<life, mu, s, due, now, transfers, history>>

WriteParks(w) ==
  /\ Looks(w) /\ w \in inside /\ ~s.ready /\ s.err = "nil"
  /\ Park(w, NoDeadline)
  /\ UNCHANGED <<life, mu, left, now, bounds, history>>

WriteFails(w) ==
  /\ Looks(w) /\ w \in inside /\ s.err # "nil"
  /\ Return(w) /\ left' = [left EXCEPT ![w] = 0]
  /\ UNCHANGED <<life, mu, s, now, bounds, history>>

WriteBegins(w) ==
  /\ Looks(w) /\ w \in inside /\ s.ready /\ s.err = "nil"
  /\ mu' = w
  /\ UNCHANGED <<life, s, callers, now, bounds, history>>

\* g5120_write makes a record of the chunk, or fails.
WriteChunk(w) ==
  /\ mu = w
  /\ \E ok \in BOOLEAN :
       LET out == IF ok THEN <<Len(emitted) + 1>> ELSE <<>>
           good == ok /\ ~Overflows(s, out)
           why == IF ok THEN "ErrOverflow" ELSE "ErrTLS"
       IN /\ s' = IF good THEN signalLocked(drainLocked(s, out)) ELSE failLocked(Called(s), why)
          /\ emitted' = IF good THEN emitted \o out ELSE emitted
          /\ left' = [left EXCEPT ![w] = IF good THEN @ - 1 ELSE 0]
          /\ IF left'[w] = 0 THEN mu' = Nobody /\ Return(w) ELSE UNCHANGED <<mu, inside, due>>
  /\ UNCHANGED <<life, now, bounds, arrived, delivered, collected>>

-----------------------------------------------------------------------------
(* The memory connection *)

\* memoryConn.Write, up to driveLocked.
Feed(t) ==
  /\ phase = "running" /\ mu = Nobody /\ transfers < MaxTransfers
  /\ s.err = "nil" /\ ~Over(s.writeDeadline)
  /\ IF t = <<"flood">>
     THEN s' = failLocked(Called(s), "ErrOverflow") /\ UNCHANGED mu
     ELSE s' = [Called(s) EXCEPT !.native.rbio = @ \o t] /\ mu' = Feeder
  /\ transfers' = transfers + 1
  /\ UNCHANGED <<life, callers, now, writes, history>>

\* The loop of driveLocked ends when a step gave no data.
driveLocked ==
  /\ mu = Feeder
  /\ LET r == g5120_step IN
       /\ s' = Turn(s, r) /\ Queued(r, s')
       /\ mu' = IF r.data = <<>> \/ s'.err # "nil" THEN Nobody ELSE Feeder
  /\ UNCHANGED <<life, callers, now, bounds>>

Close ==
  /\ phase = "running" /\ mu = Nobody /\ s' = failLocked(s, "ErrClosed")
  /\ UNCHANGED <<life, mu, callers, now, bounds, history>>

\* Mutant: the callers in a wait keep their timers.
SetDeadlineQuietly ==
  /\ phase = "running" /\ mu = Nobody /\ s.err = "nil"
  /\ \E t \in Deadlines : s' = [s EXCEPT !.readDeadline = t]
  /\ UNCHANGED <<life, mu, callers, now, bounds, history>>

SetDeadline ==
  /\ phase = "running" /\ mu = Nobody /\ s.err = "nil"
  /\ \E t \in Deadlines, which \in SUBSET {"read", "write"} \ {{}} :
       s' = signalLocked([s EXCEPT !.readDeadline = IF "read" \in which THEN t ELSE @,
                                   !.writeDeadline = IF "write" \in which THEN t ELSE @])
  /\ UNCHANGED <<life, mu, callers, now, bounds, history>>

Tick == /\ now < MaxNow /\ now' = now + 1
        /\ UNCHANGED <<life, mu, s, callers, bounds, history>>

-----------------------------------------------------------------------------

Reads(c) == ReadTakes(c) \/ ReadFails(c) \/ ReadParks(c)
Writes(w) == WriteParks(w) \/ WriteFails(w) \/ WriteBegins(w) \/ WriteChunk(w)

\* What a caller inside a call does by itself.
Proceeds(c) ==
  /\ c \in inside
  /\ TimesOut(c) \/ (c \in Readers /\ Reads(c)) \/ (c \in Writers /\ Writes(c))

Next ==
  \/ Refuse \/ start \/ Cancel \/ WatcherFails \/ WatcherEnds
  \/ \E c \in Readers : Reads(c) \/ TimesOut(c)
  \/ \E w \in Writers : Write(w) \/ Writes(w)
  \/ \E t \in Transfers : Feed(t)
  \/ driveLocked \/ Close \/ SetDeadline \/ Tick

Spec == Init /\ [][Next]_vars

\* Go runs every goroutine that can run.
FairSpec ==
  /\ Spec /\ WF_vars(driveLocked) /\ WF_vars(WatcherFails \/ WatcherEnds)
  /\ \A c \in Callers : WF_vars(Proceeds(c))

-----------------------------------------------------------------------------
(* Properties *)

TypeOK ==
  /\ phase \in {"new", "running", "refused"} /\ context \in {"live", "cancelled"}
  /\ watcher \in {"none", "watching", "gone"} /\ mu \in {Nobody, Feeder} \cup Writers
  /\ s \in Session /\ inside \subseteq Callers
  /\ due \in [Callers -> Deadlines] /\ left \in [Writers -> 0..MaxChunks]
  /\ now \in 0..MaxNow /\ transfers \in 0..MaxTransfers /\ writes \in 0..MaxWrites

\* A caller still waiting on the current channel has nothing to be woken for:
\* its queue is empty, the session lives, and its timer runs for the deadline
\* that is set.  No notification is lost between the look at the queue and the
\* wait, nor a deadline changed meanwhile (waitLocked).
NothingMissed ==
  \A c \in s.waiting :
    /\ c \in inside /\ s.err = "nil" /\ due[c] = Deadline(c)
    /\ IF c \in Readers THEN Queue(c) = <<>> ELSE ~s.ready

\* Cancellation, Close, an overflow and a TLS error race to end the session:
\* the endpoint is freed once, no call reaches it afterwards, and done is
\* closed once (failLocked and every caller of the C functions).
EndsOnce ==
  /\ s.native.is # "crashed" /\ s.done # "panic"
  /\ (s.err = "nil") = (s.native.is = "live") /\ (s.err = "nil") = (s.done = "open")
  /\ mu # Nobody => s.err = "nil"

\* A session whose context is cancelled or that fails, whoever made it fail,
\* lets go of every call inside it and of the goroutine of start (done, changed).
OperationsReturn ==
  (phase = "running" /\ (context = "cancelled" \/ s.err # "nil"))
     ~> (s.err # "nil" /\ inside = {} /\ watcher = "gone")

\* Two queues under a lock implement two bounded streams.
Stream == INSTANCE SecureStream WITH established <- s.ready, failure <- s.err
ImplementsSecureStream == Stream!StreamSpec

\* The queues hold exactly what of the streams is unread.
QueuesAreTheStreams ==
  s.err = "nil" => arrived = delivered \o s.plain /\ emitted = collected \o s.cipher
=============================================================================
