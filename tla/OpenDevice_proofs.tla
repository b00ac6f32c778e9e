--------------------------- MODULE OpenDevice_proofs ---------------------------
(***************************************************************************)
(* The safety properties of opening and closing, for every value of the    *)
(* two read limits and whatever the EC sends.  The properties speak of the *)
(* moments where they matter; what carries them there is where the open    *)
(* machine is (Place), what the TLS server has taken by then (Server) and  *)
(* how the pacing deadline goes with the state of the handshake (Pace).    *)
(*                                                                         *)
(* Then the same machine with the EC (OpenSystem), for every backlog that  *)
(* its assumption allows.  The argument is one about the unread packets as *)
(* a whole: stale answers take an open a step along the list of what it    *)
(* waits for (Awaited) only in that order, and there are too few of them   *)
(* to take it to the end; so behind each command the EC's own answer to it *)
(* is still to come (Behind), and with it the EC is alive and nothing of   *)
(* an earlier session is left.                                             *)
(***************************************************************************)
EXTENDS OpenSystem, FiniteSetTheorems, SequenceTheorems, TLAPS

\* An exchange begins with its own request, no replies and no reads.
LEMMA BegunType ==
  ASSUME NEW s \in BOOLEAN, NEW r \in Reply, NEW l \in Listen
  PROVE  /\ begin_exchange(s, r, l) \in Exchanges
         /\ begin_exchange(s, r, l).send = s
         /\ begin_exchange(s, r, l).reply = r
         /\ begin_exchange(s, r, l).listen = l
BY DEF begin_exchange, Exchanges

\* A transfer changes only what the exchange remembers, and keeps its type.
LEMMA NotedType ==
  ASSUME NEW y \in Exchanges, NEW k \in RxKinds
  PROVE  /\ Noted(y, k) \in Exchanges
         /\ Noted(y, k).send = y.send
         /\ Noted(y, k).reply = y.reply
         /\ Noted(y, k).listen = y.listen
         /\ Noted(y, k).gotAck = (y.gotAck \/ (y.send /\ k = "ack"))
         /\ Noted(y, k).gotTls = (y.gotTls \/ (WantsTls(y) /\ k = "tls"))
<1>1. /\ y.gotAck \in BOOLEAN /\ y.gotTls \in BOOLEAN /\ y.send \in BOOLEAN
      /\ y.reads + 1 \in Nat /\ y.reply \in Reply /\ y.listen \in Listen
  BY DEF Exchanges
<1> DEFINE a == y.gotAck \/ (y.send /\ k = "ack")
           b == y.gotTls \/ (WantsTls(y) /\ k = "tls")
<1>2. a \in BOOLEAN /\ b \in BOOLEAN
  BY <1>1 DEF WantsTls
<1>3. Noted(y, k) = [y EXCEPT !.gotAck = a, !.gotTls = b, !.reads = y.reads + 1]
  BY DEF Noted
<1> HIDE DEF a, b
<1>4. Noted(y, k) = [send |-> y.send, reply |-> y.reply, listen |-> y.listen,
                     gotAck |-> a, gotTls |-> b, reads |-> y.reads + 1]
  BY <1>3 DEF Exchanges
<1>5. Noted(y, k) \in Exchanges
  BY <1>1, <1>2, <1>4 DEF Exchanges
<1> QED
  BY <1>4, <1>5 DEF a, b

\* The listening window closes, and nothing else changes.
LEMMA ExpiredType ==
  ASSUME NEW y \in Exchanges
  PROVE  [y EXCEPT !.listen = "over"] \in Exchanges
BY DEF Exchanges, Listen


Before == {"DRAIN", "HEALTH", "DRAIN_AFTER_HEALTH", "INIT_STEP", "INIT_DRAIN", "REQUEST_TLS"}
After == {"TLS_ESTABLISHED", "LISTEN_AFTER_D4", "MCU_STATE", "DRAIN_FINAL"}

\* A transfer is outstanding exactly while an open runs; the handshake machine has
\* a state exactly in HANDSHAKE, and writes in one state alone; of the commands only
\* 0xd0 is over once it is written.
Place ==
  /\ (phase = "opening") = (os # "none")
  /\ (os # "none") = (io # "none")
  /\ (os = "HANDSHAKE") = (hs # "none")
  /\ os = "HANDSHAKE" => (io = "out") = (hs = "HS_WRITE")
  /\ io = "out" /\ os # "HANDSHAKE" =>
       x.listen = "no" /\ (x.reply = {"TLS"} => os = "REQUEST_TLS")

\* The interface is claimed, and the server lives, exactly while the device is
\* being opened or open.
Holds ==
  /\ claimed = (phase # "closed")
  /\ tls.live = (phase # "closed")
  /\ sessionValid = (phase = "open")
  /\ cleanupFailed => ~claimed

\* How far the server is: untouched before the handshake, done behind it.
Server ==
  /\ tls.done = (tls.fed = 4)
  /\ tls.fed = 0 => tls.out = 0
  /\ os \in Before => tls = NewTls
  /\ os \in After \/ phase = "open" => tls.fed = 4 /\ tls.out = 0
  /\ hs = "HS_SETTLE" => tls.fed = 4 /\ tls.out = 0

\* Where the interval is over the host has rested, but in HS_READ, where it is the
\* EC's turn; nothing is written with half a record read.
Pace ==
  /\ os \in Before \/ hs \in {"HS_READ", "HS_WRITE"} => gap = "over"
  /\ os \in Before => rested
  /\ hs \in {"HS_PACE", "HS_SETTLE"} /\ gap = "over" => rested
  /\ io = "out" /\ (hs = "HS_WRITE" \/ os = "TLS_ESTABLISHED") => rested /\ ~tls.partial

IInv == TypeOK /\ Place /\ Holds /\ Server /\ Pace

TlsStates == [live : BOOLEAN, fed : 0 .. 4, partial : BOOLEAN, out : 0 .. 2, done : BOOLEAN,
              extra : BOOLEAN]

\* A server that goes with the invariant, wherever the handshake is.
Sound(s) == s \in TlsStates /\ s.live /\ s.done = (s.fed = 4) /\ (s.fed = 0 => s.out = 0)

\* Every state of the open machine starts an exchange of the driver's.
LEMMA OpenExchangeType ==
  ASSUME NEW s \in Before \cup After, NEW i \in 1 .. Len(vendor_init_pre_tls)
  PROVE  /\ OpenExchange(s, i) \in Exchanges
         /\ OpenExchange(s, i).send => OpenExchange(s, i).listen = "no"
         /\ OpenExchange(s, i).reply = {"TLS"} => s = "REQUEST_TLS"
<1>1. /\ vendor_init_pre_tls[i].reply \in Reply
      /\ vendor_init_pre_tls[i].reply # {"TLS"}
  BY DEF vendor_init_pre_tls, Reply, AckData
<1>2. PICK b \in BOOLEAN, r \in Reply, l \in Listen :
         /\ OpenExchange(s, i) = begin_exchange(b, r, l)
         /\ b => l = "no"
         /\ r = {"TLS"} => s = "REQUEST_TLS"
  <2>1. {} \in Reply /\ {} # {"TLS"} /\ {"no", "open"} \subseteq Listen
    BY DEF Reply, Listen
  <2>2. CASE s \in {"DRAIN", "DRAIN_AFTER_HEALTH", "INIT_DRAIN", "DRAIN_FINAL"}
    <3>1. OpenExchange(s, i) = begin_exchange(FALSE, {}, "no")
      BY <2>2 DEF OpenExchange, start_drain
    <3> QED
      BY <2>1, <3>1
  <2>3. CASE s = "LISTEN_AFTER_D4"
    <3>1. OpenExchange(s, i) = begin_exchange(FALSE, {}, "open")
      BY <2>3 DEF OpenExchange, start_listen
    <3> QED
      BY <2>1, <3>1
  <2>4. CASE s \in {"HEALTH", "INIT_STEP", "REQUEST_TLS", "TLS_ESTABLISHED", "MCU_STATE"}
    <3> DEFINE e == CASE s = "HEALTH" -> AckData
                      [] s = "INIT_STEP" -> vendor_init_pre_tls[i].reply
                      [] s = "REQUEST_TLS" -> {"TLS"}
                      [] s = "TLS_ESTABLISHED" -> {"ACK"}
                      [] s = "MCU_STATE" -> {"DATA"}
    <3>1. OpenExchange(s, i) = begin_exchange(TRUE, e, "no")
      BY <2>4 DEF OpenExchange, start_exchange
    <3>2. e \in Reply /\ (e = {"TLS"} => s = "REQUEST_TLS")
      BY <1>1, <2>4 DEF Reply, AckData
    <3> HIDE DEF e
    <3> QED
      BY <2>1, <3>1, <3>2
  <2> QED
    BY <2>2, <2>3, <2>4 DEF Before, After
<1>3. /\ OpenExchange(s, i) \in Exchanges
      /\ OpenExchange(s, i).send = b
      /\ OpenExchange(s, i).reply = r
      /\ OpenExchange(s, i).listen = l
  BY <1>2, BegunType
<1> QED
  BY <1>2, <1>3

\* An exchange that is none has the type of one.
LEMMA NoExchangeType == NoExchange \in Exchanges
BY BegunType DEF NoExchange, Reply, Listen

\* A transfer the server accepts keeps it sound, for the EC's second flight
\* comes only when the host's first is out.
LEMMA FedSound ==
  ASSUME NEW s, Sound(s), ~s.done, NEW t \in Transfers, t.rx = "tls",
         Fed(s, t).fed > 1 => s.fed > 0 /\ s.out = 0
  PROVE  Sound(Fed(s, t))
<1>1. t.whole \in 0 .. 2 /\ t.part \in BOOLEAN
  BY DEF Transfers
<1> DEFINE fed == IF s.fed + t.whole < 4 THEN s.fed + t.whole ELSE 4
           more == IF \E n \in FlightEnds : s.fed < n /\ n <= fed THEN 2 ELSE 0
<1>2. s \in TlsStates /\ s.live /\ s.fed \in 0 .. 3 /\ s.out \in 0 .. 2
  BY DEF Sound, TlsStates
<1>3. fed \in 0 .. 4 /\ more \in {0, 2} /\ s.fed <= fed
  BY <1>1, <1>2
<1> DEFINE ex == s.extra \/ s.fed + t.whole > 4
<1>4. Fed(s, t) = [s EXCEPT !.fed = fed, !.partial = t.part, !.done = (fed = 4),
                            !.extra = ex, !.out = s.out + more]
  BY DEF Fed
<1>5. Fed(s, t).fed = fed
  BY <1>2, <1>4 DEF TlsStates
<1>6. more = 2 => s.out = 0
  BY <1>1, <1>2, <1>5 DEF FlightEnds, Sound
<1>7. fed = 0 => more = 0 /\ s.out = 0
  BY <1>1, <1>2 DEF FlightEnds, Sound
<1>8. ex \in BOOLEAN
  BY <1>2 DEF TlsStates
<1> HIDE DEF fed, more, ex
<1>9. Fed(s, t) = [live |-> s.live, fed |-> fed, partial |-> t.part, out |-> s.out + more,
                   done |-> (fed = 4), extra |-> ex]
  BY <1>2, <1>4 DEF TlsStates
<1> QED
  BY <1>1, <1>2, <1>3, <1>6, <1>7, <1>8, <1>9 DEF Sound, TlsStates

\* There is a first init step.
LEMMA FirstStep == 1 \in 1 .. Len(vendor_init_pre_tls)
<1>1. Len(vendor_init_pre_tls) = 11
  BY DEF vendor_init_pre_tls
<1> QED
  BY <1>1

\* Without a server nothing has been taken.
LEMMA NoTlsType ==
  /\ NoTls \in TlsStates /\ NoTls.live = FALSE
  /\ NoTls.done = (NoTls.fed = 4) /\ NoTls.out = 0
<1>1. NoTls \in TlsStates /\ NoTls.fed = 0 /\ NoTls.done = FALSE
  BY DEF NoTls, TlsStates
<1>2. NoTls.done = (NoTls.fed = 4)
  BY <1>1 DEF TlsStates
<1> QED
  BY <1>1, <1>2 DEF NoTls

\* A new server has taken nothing and is sound.
LEMMA NewTlsType == Sound(NewTls) /\ NewTls.live = TRUE
<1>1. NoTls \in TlsStates /\ NoTls.fed = 0 /\ NoTls.done = FALSE /\ NoTls.out = 0
  BY DEF NoTls, TlsStates
<1>2. /\ NewTls \in TlsStates /\ NewTls.live = TRUE /\ NewTls.fed = 0 /\ NewTls.out = 0
      /\ NewTls.done = FALSE
  BY <1>1 DEF NewTls, TlsStates
<1>3. NewTls.done = (NewTls.fed = 4)
  BY <1>2 DEF TlsStates
<1> QED
  BY ONLY <1>2, <1>3, Zenon DEF Sound

\* The states with no server and no machine.
Closed ==
  /\ phase = "closed" /\ claimed = FALSE /\ cleanupFailed \in BOOLEAN /\ sessionValid = FALSE
  /\ os = "none" /\ init_idx \in 1 .. Len(vendor_init_pre_tls) /\ hs = "none" /\ io = "none"
  /\ x \in Exchanges
  /\ tls = NoTls /\ gap \in {"open", "over"} /\ budget \in {"open", "over"} /\ rested \in BOOLEAN

\* Those states satisfy the invariant.
LEMMA ClosedInvariant == Closed => IInv
<1> SUFFICES ASSUME Closed PROVE IInv
  OBVIOUS
<1>1. TypeOK
  <2>1. tls \in TlsStates
    BY NoTlsType DEF Closed
  <2> QED
    BY <2>1 DEF Closed, TypeOK, TlsStates
<1>2. Place /\ Holds
  BY NoTlsType DEF Closed, Place, Holds
<1>3. Server
  BY NoTlsType DEF Closed, Server, Before, After
<1>4. Pace
  BY DEF Closed, Pace, Before, After
<1> QED
  BY <1>1, <1>2, <1>3, <1>4 DEF IInv

\* The initial state satisfies the invariant.
LEMMA InitInvariant == Init => IInv
BY ClosedInvariant, NoExchangeType, FirstStep DEF Init, Closed

\* A failed open, from wherever it is.
LEMMA FailsInvariant ==
  ASSUME IInv, OpenFails, rested' \in BOOLEAN
  PROVE  IInv'
<1>1. Closed'
  BY NoExchangeType, FirstStep DEF OpenFails, release_interface, Stopped, IInv, TypeOK, Closed
<1> QED
  BY <1>1, ClosedInvariant, PTL

\* A close, and an open that is refused before anything is claimed.
LEMMA CloseInvariant == IInv /\ (dev_close \/ OpenRefused) => IInv'
<1> SUFFICES ASSUME IInv, dev_close \/ OpenRefused PROVE IInv'
  OBVIOUS
<1>1. Closed'
  BY DEF dev_close, OpenRefused, release_interface, IInv, TypeOK, Place, Holds, Closed, machine
<1> QED
  BY <1>1, ClosedInvariant, PTL

\* The next exchange of the open machine begins.
LEMMA BeginInvariant ==
  ASSUME IInv, phase = "opening", UNCHANGED <<device, rested>>,
         budget' \in {"open", "over"},
         NEW s \in Before \cup After, NEW i \in 1 .. Len(vendor_init_pre_tls), Begin(s, i),
         Sound(tls'), gap' \in {"open", "over"},
         s \in Before => tls' = NewTls /\ gap' = "over" /\ rested,
         s \in After => tls'.fed = 4 /\ tls'.out = 0,
         s = "TLS_ESTABLISHED" => rested /\ ~tls'.partial
  PROVE  IInv'
<1>1. /\ os' = s /\ init_idx' = i /\ hs' = "none" /\ io' \in {"in", "out"} /\ x' \in Exchanges
      /\ io' = "out" => x'.listen = "no" /\ (x'.reply = {"TLS"} => s = "REQUEST_TLS")
  BY OpenExchangeType DEF Begin
<1>2. s \in OpenStates /\ s # "HANDSHAKE" /\ s # "none"
  BY DEF Before, After, OpenStates
<1> QED
  BY <1>1, <1>2 DEF device, IInv, TypeOK, Place, Holds, Server, Pace, Sound, TlsStates, Before,
     After, HandshakeStates

\* A transfer of the handshake machine is submitted in state h.
LEMMA SubmitInvariant ==
  ASSUME IInv, phase = "opening", rested' \in BOOLEAN,
         NEW h \in HandshakeStates, NEW s, NEW g \in {"open", "over"}, Submit(h, s, g),
         Sound(s),
         h \in {"HS_READ", "HS_WRITE"} => g = "over",
         h \in {"HS_PACE", "HS_SETTLE"} /\ g = "over" => rested',
         h = "HS_WRITE" => rested' /\ ~s.partial,
         h = "HS_SETTLE" => s.fed = 4 /\ s.out = 0
  PROVE  IInv'
<1>1. /\ os' = "HANDSHAKE" /\ hs' = h /\ hs' # "none" /\ x' \in Exchanges
      /\ io' = (IF h = "HS_WRITE" THEN "out" ELSE "in")
      /\ tls' = s /\ gap' = g /\ UNCHANGED <<device, init_idx, budget>>
  BY NoExchangeType DEF Submit, HandshakeStates
<1>2. TypeOK'
  BY <1>1 DEF IInv, TypeOK, device, Sound, TlsStates, OpenStates
<1>3. Place' /\ Holds'
  BY <1>1 DEF IInv, Place, Holds, device, Sound
<1>4. Server' /\ Pace'
  BY <1>1 DEF IInv, Server, Pace, Before, After, device, Sound
<1> QED
  BY <1>2, <1>3, <1>4 DEF IInv

\* The handshake machine enters state h with server s and pacing deadline g.
LEMMA EnterInvariant ==
  ASSUME IInv, phase = "opening", rested' \in BOOLEAN,
         NEW h \in HandshakeStates, NEW s, NEW g \in {"open", "over"}, Enter(h, s, g),
         Sound(s),
         h \in {"HS_READ", "HS_WRITE"} => g = "over",
         h \in {"HS_PACE", "HS_SETTLE"} /\ g = "over" => rested',
         h = "HS_WRITE" /\ s.out > 0 => rested' /\ ~s.partial,
         h = "HS_SETTLE" => s.fed = 4 /\ s.out = 0,
         h = "HS_SETTLE" => rested' = rested
  PROVE  IInv'
<1>1. CASE OpenFails
  BY <1>1, FailsInvariant
<1>2. CASE h # "HS_WRITE" /\ Submit(h, s, g)
  BY <1>2, SubmitInvariant
<1>3. CASE HS_WRITE(s, g) /\ (h = "HS_WRITE" \/ (h = "HS_PACE" /\ Due(s, g)))
  <2>1. g = "over"
    BY <1>3 DEF Due
  <2>2. CASE s.out > 0 /\ Submit("HS_WRITE", [s EXCEPT !.out = @ - 1], g)
    <3> DEFINE r == [s EXCEPT !.out = @ - 1]
    <3>1. Sound(r) /\ r.partial = s.partial
      BY <2>2 DEF Sound, TlsStates
    <3>2. rested' /\ ~s.partial
      BY <1>3, <2>1, <2>2 DEF Due
    <3>3. "HS_WRITE" \in HandshakeStates
      BY DEF HandshakeStates
    <3> HIDE DEF r
    <3>4. Submit("HS_WRITE", r, g)
      BY <2>2 DEF r
    <3> QED
      BY <2>1, <3>1, <3>2, <3>3, <3>4, SubmitInvariant
  <2>3. CASE s.out = 0 /\ s.done /\ Submit("HS_SETTLE", s, "open")
    BY <2>3, SubmitInvariant DEF Sound, HandshakeStates
  <2>4. CASE Submit("HS_READ", s, g)
    BY <2>1, <2>4, SubmitInvariant DEF HandshakeStates
  <2> QED
    BY <1>3, <2>2, <2>3, <2>4 DEF HS_WRITE
<1>4. CASE /\ h = "HS_SETTLE" /\ Due(s, g) /\ Begin("TLS_ESTABLISHED", init_idx)
           /\ tls' = s /\ gap' = g /\ UNCHANGED <<device, budget>>
  <2>1. /\ rested' = rested /\ rested /\ ~s.partial /\ init_idx \in 1 .. Len(vendor_init_pre_tls)
        /\ budget' \in {"open", "over"}
    BY <1>4 DEF Due, IInv, TypeOK
  <2> QED
    BY <1>4, <2>1, BeginInvariant DEF Before, After
<1> QED
  BY <1>1, <1>2, <1>3, <1>4 DEF Enter

\* While an open runs its server is sound and the machine is where it can be.
LEMMA Opening ==
  ASSUME IInv, os # "none"
  PROVE  /\ phase = "opening" /\ Sound(tls) /\ io \in {"in", "out"}
         /\ os \in Before \cup After \cup {"HANDSHAKE"}
         /\ init_idx \in 1 .. Len(vendor_init_pre_tls)
         /\ x \in Exchanges /\ rested \in BOOLEAN
         /\ gap \in {"open", "over"} /\ budget \in {"open", "over"}
BY DEF IInv, TypeOK, Place, Holds, Server, Sound, TlsStates, Before, After, OpenStates

\* An exchange is over: the next one begins, or the open ends.
LEMMA NextStateInvariant ==
  ASSUME IInv, os # "none", NextState, UNCHANGED rested
  PROVE  IInv'
<1> USE Opening
<1>1. os \in Before => tls = NewTls /\ gap = "over" /\ rested
  BY DEF IInv, Server, Pace
<1>2. os \in After => tls.fed = 4 /\ tls.out = 0
  BY DEF IInv, Server
<1>3. CASE os \in DOMAIN Following /\ Begin(Following[os], init_idx)
           /\ UNCHANGED <<device, tls, gap, budget>>
  <2>1. /\ os \in Before \cup After
        /\ Following[os] \in Before \cup After
        /\ Following[os] \in Before => os \in Before
        /\ Following[os] \in After => os \in After
        /\ Following[os] # "TLS_ESTABLISHED"
    BY <1>3 DEF Following, Before, After
  <2> QED
    BY <1>1, <1>2, <1>3, <2>1, BeginInvariant
<1>4. CASE /\ os = "INIT_DRAIN" /\ init_idx < Len(vendor_init_pre_tls)
           /\ Begin("INIT_STEP", init_idx + 1)
           /\ UNCHANGED <<device, tls, gap, budget>>
  <2>1. init_idx + 1 \in 1 .. Len(vendor_init_pre_tls)
    BY <1>4, FirstStep
  <2> QED
    BY <1>1, <1>4, <2>1, BeginInvariant DEF Before, After
<1>5. CASE /\ os = "INIT_DRAIN" /\ Begin("REQUEST_TLS", init_idx) /\ budget' = "open"
           /\ UNCHANGED <<device, tls, gap>>
  BY <1>1, <1>5, BeginInvariant DEF Before, After
<1>6. CASE /\ os = "MCU_STATE" /\ Begin("DRAIN_FINAL", init_idx)
           /\ UNCHANGED <<device, tls, gap, budget>>
  BY <1>2, <1>6, BeginInvariant DEF Before, After
<1>7. CASE OpenFails
  BY <1>7, FailsInvariant
<1>8. CASE os = "DRAIN_FINAL" /\ OpenSucceeds
  <2>1. /\ phase' = "open" /\ sessionValid' = TRUE
        /\ UNCHANGED <<claimed, cleanupFailed, tls, gap, budget, rested>>
        /\ os' = "none" /\ init_idx' = 1 /\ hs' = "none" /\ io' = "none" /\ x' = NoExchange
    BY <1>8 DEF OpenSucceeds, Stopped
  <2>2. tls.fed = 4 /\ tls.out = 0
    BY <1>2, <1>8 DEF After
  <2>3. TypeOK'
    BY <2>1, FirstStep, NoExchangeType DEF IInv, TypeOK
  <2>4. Place' /\ Holds'
    BY <2>1 DEF IInv, Place, Holds
  <2>5. Server' /\ Pace'
    BY <2>1, <2>2 DEF IInv, Server, Pace, Before, After
  <2> QED
    BY <2>3, <2>4, <2>5 DEF IInv
<1> QED
  BY <1>3, <1>4, <1>5, <1>6, <1>7, <1>8 DEF NextState

\* A verdict on the exchange.
LEMMA ConcludeInvariant ==
  ASSUME IInv, os # "none", os # "HANDSHAKE", io = "in", UNCHANGED rested,
         NEW v, NEW y \in Exchanges, Conclude(v, y)
  PROVE  IInv'
<1>1. CASE OpenFails
  BY <1>1, Opening, FailsInvariant
<1>2. CASE NextState
  BY <1>2, NextStateInvariant
<1>3. CASE x' = y /\ UNCHANGED <<device, os, init_idx, hs, io, tls, gap, budget>>
  BY <1>3 DEF device, IInv, TypeOK, Place, Holds, Server, Pace
<1> QED
  BY <1>1, <1>2, <1>3 DEF Conclude

\* Whatever the handshake machine reads.
LEMMA HandshakeReadInvariant ==
  ASSUME IInv, NEW t \in Transfers, HandshakeRead(t)
  PROVE  IInv'
<1>1. /\ os = "HANDSHAKE" /\ io = "in" /\ hs \in {"HS_READ", "HS_PACE", "HS_SETTLE"}
      /\ phase = "opening" /\ Sound(tls) /\ rested \in BOOLEAN /\ gap \in {"open", "over"}
  BY Opening DEF HandshakeRead, IInv, TypeOK, Place, HandshakeStates
<1>2. /\ hs = "HS_READ" => gap = "over"
      /\ hs \in {"HS_PACE", "HS_SETTLE"} /\ gap = "over" => rested
      /\ hs = "HS_SETTLE" => tls.fed = 4 /\ tls.out = 0
  BY DEF IInv, Server, Pace
<1>3. CASE FlightRead(t)
  <2> DEFINE s == Fed(tls, t)
             h == IF hs = "HS_PACE" THEN hs ELSE IF s.partial THEN "HS_READ" ELSE "HS_WRITE"
  <2>1. /\ ~tls.done /\ Enter(h, s, gap) /\ rested' = (rested \/ hs = "HS_READ")
        /\ Sound(s)
    BY <1>1, <1>3, FedSound DEF FlightRead
  <2>2. hs \in {"HS_READ", "HS_PACE"}
    BY <1>1, <1>2, <2>1 DEF Sound
  <2>3. /\ rested' \in BOOLEAN /\ h \in {"HS_READ", "HS_WRITE", "HS_PACE"}
        /\ h = "HS_PACE" => hs = "HS_PACE" /\ (gap = "over" => rested')
        /\ h \in {"HS_READ", "HS_WRITE"} => gap = "over" /\ rested'
        /\ h = "HS_WRITE" => ~s.partial
    BY <1>1, <1>2, <2>1, <2>2
  <2> HIDE DEF s, h
  <2> QED
    BY <1>1, <2>1, <2>3, EnterInvariant DEF HandshakeStates
<1>4. CASE LateRecord(t)
  <2>1. ASSUME NEW b \in BOOLEAN, NEW e \in BOOLEAN,
               Enter(hs, [tls EXCEPT !.partial = b, !.extra = e], gap), rested' = rested
        PROVE  IInv'
    <3> DEFINE s == [tls EXCEPT !.partial = b, !.extra = e]
    <3>1. Sound(s) /\ s.fed = tls.fed /\ s.out = tls.out
      BY <1>1 DEF Sound, TlsStates
    <3> HIDE DEF s
    <3>2. Enter(hs, s, gap)
      BY <2>1 DEF s
    <3> QED
      BY <1>1, <1>2, <2>1, <3>1, <3>2, EnterInvariant DEF HandshakeStates
  <2>2. CASE /\ t.part
             /\ Enter(hs, [tls EXCEPT !.partial = TRUE, !.extra = @ \/ t.whole > 0], gap)
    <3>1. (tls.extra \/ t.whole > 0) \in BOOLEAN
      BY <1>1 DEF Sound, TlsStates
    <3> QED
      BY <1>4, <2>1, <2>2, <3>1 DEF LateRecord
  <2>3. CASE OpenFails
    BY <1>1, <1>4, <2>3, FailsInvariant DEF LateRecord
  <2>4. CASE Enter(hs, [tls EXCEPT !.partial = FALSE], gap)
    <3>1. [tls EXCEPT !.partial = FALSE] = [tls EXCEPT !.partial = FALSE, !.extra = tls.extra]
          /\ tls.extra \in BOOLEAN
      BY <1>1 DEF Sound, TlsStates
    <3> QED
      BY <1>4, <2>1, <2>4, <3>1 DEF LateRecord
  <2> QED
    BY <1>4, <2>2, <2>3, <2>4 DEF LateRecord
<1>5. CASE OpenFails /\ UNCHANGED rested
  BY <1>1, <1>5, FailsInvariant
<1>6. CASE Enter(hs, tls, gap) /\ UNCHANGED rested
  BY <1>1, <1>2, <1>6, EnterInvariant DEF HandshakeStates
<1> QED
  BY <1>3, <1>4, <1>5, <1>6 DEF HandshakeRead

\* Every step preserves the invariant.
LEMMA NextInvariant == IInv /\ [Next]_vars => IInv'
<1> SUFFICES ASSUME IInv, [Next]_vars PROVE IInv'
  OBVIOUS
<1>1. CASE dev_open
  <2>1. /\ phase' = "opening" /\ sessionValid' = FALSE /\ claimed' = TRUE
        /\ cleanupFailed' = FALSE /\ tls' = NewTls /\ gap' = "over" /\ budget' = "over"
        /\ rested' = TRUE
        /\ os' = "DRAIN" /\ init_idx' = 1 /\ hs' = "none"
    BY <1>1 DEF dev_open, Begin, IInv, TypeOK
  <2>2. /\ x' \in Exchanges /\ io' \in {"in", "out"}
        /\ io' = "out" => x'.listen = "no" /\ (x'.reply = {"TLS"} => os' = "REQUEST_TLS")
    BY <1>1, <2>1, FirstStep, OpenExchangeType DEF dev_open, Begin, Before
  <2>3. TypeOK'
    BY <2>1, <2>2, FirstStep, NewTlsType DEF TypeOK, Sound, TlsStates, OpenStates
  <2>4. Place' /\ Holds'
    BY <2>1, <2>2, NewTlsType DEF Place, Holds
  <2>5. Server' /\ Pace'
    BY <2>1, NewTlsType DEF Server, Pace, Before, After, Sound
  <2> QED
    BY <2>3, <2>4, <2>5 DEF IInv
<1>2. CASE OpenRefused \/ dev_close
  BY <1>2, CloseInvariant
<1>3. CASE ExchangeWritten
  <2>1. /\ os # "none" /\ os # "HANDSHAKE" /\ io = "out" /\ rested' = rested
        /\ x.listen = "no" /\ (x.reply = {"TLS"} => os = "REQUEST_TLS")
    BY <1>3 DEF ExchangeWritten, IInv, Place
  <2>2. CASE NothingToRead(x) /\ Enter("HS_READ", tls, gap)
    <3>1. os = "REQUEST_TLS"
      BY <2>1, <2>2 DEF NothingToRead
    <3>2. gap = "over"
      BY <3>1 DEF IInv, Pace, Before
    <3> QED
      BY <2>1, <2>2, <3>2, Opening, EnterInvariant DEF HandshakeStates
  <2>3. CASE io' = "in" /\ UNCHANGED <<device, os, init_idx, hs, x, tls, gap, budget>>
    BY <2>1, <2>3 DEF device, IInv, TypeOK, Place, Holds, Server, Pace
  <2> QED
    BY <1>3, <2>2, <2>3 DEF ExchangeWritten
<1>4. CASE RecordWritten
  <2>1. /\ os = "HANDSHAKE" /\ io = "out" /\ hs = "HS_WRITE" /\ rested' = FALSE /\ gap = "over"
        /\ phase = "opening" /\ Sound(tls)
    BY <1>4, Opening DEF RecordWritten, IInv, Place, Pace
  <2>2. CASE tls.out > 0 /\ Enter("HS_PACE", tls, "open")
    BY <2>1, <2>2, EnterInvariant DEF HandshakeStates
  <2>3. CASE ~(tls.out > 0) /\ Enter("HS_WRITE", tls, gap)
    BY <2>1, <2>3, EnterInvariant DEF HandshakeStates
  <2> QED
    BY <1>4, <2>2, <2>3 DEF RecordWritten
<1>5. ASSUME NEW t \in Transfers, ReadDone(t) PROVE IInv'
  <2>1. CASE ExchangeRead(t)
    <3>1. t.rx \in RxKinds
      BY DEF Transfers, RxKinds
    <3>2. os # "none" /\ x \in Exchanges
      BY <2>1 DEF ExchangeRead, IInv, Place, TypeOK
    <3> QED
      BY <2>1, <3>1, <3>2, NotedType, ConcludeInvariant DEF ExchangeRead
  <2>2. CASE HandshakeRead(t)
    BY <2>2, HandshakeReadInvariant
  <2> QED
    BY <1>5, <2>1, <2>2 DEF ReadDone
<1>6. CASE ReadTimesOut
  <2>1. os # "none" /\ io = "in" /\ rested' = rested
    BY <1>6 DEF ReadTimesOut, IInv, Place
  <2>2. CASE os = "HANDSHAKE" /\ Enter(hs, tls, gap)
    <3>1. /\ hs \in {"HS_READ", "HS_PACE", "HS_SETTLE"}
          /\ hs = "HS_READ" => gap = "over"
          /\ hs \in {"HS_PACE", "HS_SETTLE"} /\ gap = "over" => rested
          /\ hs = "HS_SETTLE" => tls.fed = 4 /\ tls.out = 0
      BY <2>1, <2>2 DEF IInv, TypeOK, Place, HandshakeStates, Server, Pace
    <3> QED
      BY <2>1, <2>2, <3>1, Opening, EnterInvariant DEF HandshakeStates
  <2>3. CASE os # "HANDSHAKE" /\ Conclude(TimedOut(x), x)
    BY <2>1, <2>3, Opening, ConcludeInvariant
  <2> QED
    BY <1>6, <2>2, <2>3 DEF ReadTimesOut
<1>7. CASE TransferFails
  BY <1>7, FailsInvariant DEF TransferFails, IInv, TypeOK
<1>8. CASE ListenExpires
  <2>1. /\ x.listen = "open" /\ x' = [x EXCEPT !.listen = "over"]
        /\ UNCHANGED <<device, os, init_idx, hs, io, handshake>>
    BY <1>8 DEF ListenExpires
  <2>2. x' \in Exchanges
    BY <2>1, ExpiredType DEF IInv, TypeOK
  <2>3. io = "out" => os = "HANDSHAKE"
    BY <2>1 DEF IInv, Place
  <2> QED
    BY <2>1, <2>2, <2>3 DEF device, handshake, IInv, TypeOK, Place, Holds, Server, Pace
<1>9. CASE PaceExpires
  BY <1>9 DEF PaceExpires, device, machine, IInv, TypeOK, Place, Holds, Server, Pace, Before, After
<1>10. CASE BudgetExpires
  BY <1>10 DEF BudgetExpires, device, machine, IInv, TypeOK, Place, Holds, Server, Pace
<1>11. CASE UNCHANGED vars
  BY <1>11 DEF vars, device, machine, handshake, IInv, TypeOK, Place, Holds, Server, Pace
<1> QED
  BY <1>1, <1>2, <1>3, <1>4, <1>5, <1>6, <1>7, <1>8, <1>9, <1>10, <1>11
     DEF Next, Completion, WriteDone, Time

\* The strengthening holds in every reachable state.
THEOREM OpenInvariant == Spec => []IInv
BY InitInvariant, NextInvariant, PTL DEF Spec

\* Type correctness.
THEOREM OpenTypeOK == Spec => []TypeOK
<1>1. IInv => TypeOK BY DEF IInv
<1> QED BY <1>1, OpenInvariant, PTL

\* No two host records, nor Finished and 0xd4, follow each other without the
\* pacing interval or a flight of the EC between them.
THEOREM OpenHostRecordsArePaced == Spec => []HostRecordsArePaced
<1>1. IInv => HostRecordsArePaced BY DEF IInv, Pace, HostRecordsArePaced
<1> QED BY <1>1, OpenInvariant, PTL

\* Nothing is sent with half a record of the EC read.
THEOREM OpenNoOutputInsideARecord == Spec => []NoOutputInsideARecord
<1>1. IInv => NoOutputInsideARecord BY DEF IInv, Pace, NoOutputInsideARecord
<1> QED BY <1>1, OpenInvariant, PTL

\* A session is given, and the device activated, only behind a handshake that ended.
THEOREM OpenSessionIsEarned == Spec => []SessionIsEarned
<1>1. IInv => SessionIsEarned
  BY DEF IInv, TypeOK, Place, Holds, Server, After, SessionIsEarned
<1> QED BY <1>1, OpenInvariant, PTL

\* An open that fails, at any step, leaves nothing behind.
THEOREM OpenFailureLeavesNothing == Spec => []FailureLeavesNothing
<1>1. IInv => FailureLeavesNothing
  BY DEF IInv, TypeOK, Place, Holds, FailureLeavesNothing
<1> QED BY <1>1, OpenInvariant, PTL

-----------------------------------------------------------------------------
(* The packets that are not read *)

Commands == {"a8", "ae", "96", "e4", "a2", "82", "a6", "70", "98", "90", "d0", "d4", "32"}
Packets == [kind : {"ack", "data", "tls", "fdt"}, cmd : Commands]

Unread == inq \o owes

\* What the commands of an open wait for before 0xd0, in their order.
Awaited ==
  <<Packet("ack", "a8"), Packet("data", "a8"), Packet("ack", "a8"), Packet("data", "a8"),
    Packet("data", "ae"), Packet("ack", "e4"), Packet("data", "e4"),
    Packet("ack", "a2"), Packet("data", "a2"), Packet("ack", "82"), Packet("data", "82"),
    Packet("ack", "a6"), Packet("data", "a6"), Packet("ack", "a2"), Packet("data", "a2"),
    Packet("ack", "70"), Packet("ack", "98"), Packet("data", "98"),
    Packet("ack", "90"), Packet("data", "90")>>

\* What must not be unread when 0xd0 is sent: a record, and an answer that the
\* health check of the next open would take for a sign of life.
Harmful(p) == p.kind = "tls" \/ p = Packet("data", "a8")

Matches(j, p) == IF j = 21 THEN Harmful(p) ELSE p = Awaited[j]

\* The packets of Q answer, in order and between others, all that is awaited from
\* k to n; with n = 21 something harmful comes behind them.
Answers(Q, k, n) ==
  \E f \in [k .. n -> 1 .. Len(Q)] :
    /\ \A j \in k .. n : Matches(j, Q[f[j]])
    /\ \A i, j \in k .. n : i < j => f[i] < f[j]

LEMMA NoEventIsAwaited ==
  ASSUME NEW j \in 1 .. 21, NEW p, Matches(j, p)
  PROVE  p.kind # "fdt"
<1>1. CASE j = 21
  BY <1>1 DEF Matches, Harmful, Packet
<1>2. CASE j \in 1 .. 10
  <2>1. Awaited[j].kind \in {"ack", "data"}
    BY <1>2 DEF Awaited, Packet
  <2> QED
    BY <1>2, <2>1 DEF Matches
<1>3. CASE j \in 11 .. 20
  <2>1. Awaited[j].kind \in {"ack", "data"}
    BY <1>3 DEF Awaited, Packet
  <2> QED
    BY <1>3, <2>1 DEF Matches
<1> QED
  BY <1>1, <1>2, <1>3

\* Fewer packets in the same order answer no more; an event answers nothing.
LEMMA FewerAnswer ==
  ASSUME NEW P, NEW Q, Len(P) \in Nat, Len(Q) \in Nat, NEW g,
         \A i \in 1 .. Len(P) : P[i].kind # "fdt" => g[i] \in 1 .. Len(Q) /\ Q[g[i]] = P[i],
         \A i, j \in 1 .. Len(P) : i < j /\ P[i].kind # "fdt" /\ P[j].kind # "fdt" => g[i] < g[j],
         NEW k \in 1 .. 21, NEW n \in {20, 21}, Answers(P, k, n)
  PROVE  Answers(Q, k, n)
<1>1. PICK f \in [k .. n -> 1 .. Len(P)] :
        /\ \A j \in k .. n : Matches(j, P[f[j]])
        /\ \A i, j \in k .. n : i < j => f[i] < f[j]
  BY DEF Answers
<1> DEFINE h == [j \in k .. n |-> g[f[j]]]
<1>2. \A j \in k .. n : f[j] \in 1 .. Len(P) /\ P[f[j]].kind # "fdt"
  <2>1. k .. n \subseteq 1 .. 21
    OBVIOUS
  <2> QED
    BY <1>1, <2>1, NoEventIsAwaited
<1>3. \A j \in k .. n : h[j] \in 1 .. Len(Q) /\ Q[h[j]] = P[f[j]]
  BY <1>2
<1>4. h \in [k .. n -> 1 .. Len(Q)]
  BY <1>3
<1>5. \A i, j \in k .. n : i < j => h[i] < h[j]
  BY <1>1, <1>2
<1> HIDE DEF h
<1> QED
  BY <1>1, <1>3, <1>4, <1>5 DEF Answers

\* What is awaited next is read.
LEMMA HeadAnswers ==
  ASSUME NEW P, NEW Q, Len(P) \in Nat, Len(Q) = Len(P) + 1,
         \A i \in 1 .. Len(P) : Q[i + 1] = P[i],
         NEW k \in 1 .. 20, Q[1] = Awaited[k],
         NEW n \in {20, 21}, Answers(P, k + 1, n)
  PROVE  Answers(Q, k, n)
<1>1. PICK f \in [k + 1 .. n -> 1 .. Len(P)] :
        /\ \A j \in k + 1 .. n : Matches(j, P[f[j]])
        /\ \A i, j \in k + 1 .. n : i < j => f[i] < f[j]
  BY DEF Answers
<1> DEFINE h == [j \in k .. n |-> IF j = k THEN 1 ELSE f[j] + 1]
<1>2. \A j \in k + 1 .. n : f[j] \in 1 .. Len(P) /\ h[j] = f[j] + 1 /\ Q[h[j]] = P[f[j]]
  BY <1>1
<1>3. \A j \in k .. n : j = k \/ j \in k + 1 .. n
  OBVIOUS
<1>4. h \in [k .. n -> 1 .. Len(Q)]
  BY <1>2, <1>3
<1>5. \A i, j \in k .. n : i < j => h[i] < h[j]
  <2> SUFFICES ASSUME NEW i \in k .. n, NEW j \in k .. n, i < j PROVE h[i] < h[j]
    OBVIOUS
  <2>1. j \in k + 1 .. n
    OBVIOUS
  <2>2. CASE i = k
    BY <1>2, <2>1, <2>2
  <2>3. CASE i \in k + 1 .. n
    BY <1>1, <1>2, <2>1, <2>3
  <2> QED
    BY <1>3, <2>2, <2>3
<1>6. \A j \in k .. n : Matches(j, Q[h[j]])
  <2>1. k \in k .. n /\ k # 21
    OBVIOUS
  <2>2. h[k] = 1 /\ Matches(k, Q[1])
    BY <2>1 DEF Matches
  <2> QED
    BY <1>1, <1>2, <1>3, <2>2
<1> HIDE DEF h
<1> QED
  BY <1>4, <1>5, <1>6 DEF Answers

LEMMA TwoAtOnePlace ==
  ASSUME NEW n \in Nat, NEW m \in Nat, m < n, NEW f \in [1 .. n -> 1 .. m]
  PROVE  \E i, j \in 1 .. n : i < j /\ f[i] = f[j]
<1>1. \A k \in Nat : IsFiniteSet(1 .. k) /\ Cardinality(1 .. k) = k
  BY FS_Interval
<1>2. IsFiniteSet(1 .. n) /\ IsFiniteSet(1 .. m) /\ Cardinality(1 .. m) < Cardinality(1 .. n)
  BY <1>1
<1>3. PICK i \in 1 .. n, j \in 1 .. n : i # j /\ f[i] = f[j]
  BY ONLY <1>2, FS_PigeonHole, f \in [1 .. n -> 1 .. m], Zenon
<1> QED
  BY <1>3

\* Fewer packets than an open waits for cannot answer it.
LEMMA TooFewToAnswer ==
  ASSUME NEW Q, Len(Q) \in Nat, Len(Q) < 20
  PROVE  ~Answers(Q, 1, 20)
<1>1. 20 \in Nat /\ Len(Q) \in Nat /\ Len(Q) < 20
  OBVIOUS
<1> SUFFICES ASSUME Answers(Q, 1, 20) PROVE FALSE
  OBVIOUS
<1>2. PICK f \in [1 .. 20 -> 1 .. Len(Q)] : \A i, j \in 1 .. 20 : i < j => f[i] < f[j]
  BY DEF Answers
<1>3. PICK i \in 1 .. 20, j \in 1 .. 20 : i < j /\ f[i] = f[j]
  BY ONLY <1>1, TwoAtOnePlace, f \in [1 .. 20 -> 1 .. Len(Q)], Zenon
<1>4. f[i] < f[i]
  BY <1>2, <1>3, Zenon
<1>5. \A v \in 1 .. Len(Q) : ~(v < v)
  BY <1>1
<1> QED
  BY <1>4, <1>5, Zenon

\* What is added after the last of them, or is none of them, answers no more.
LEMMA MoreAnswer ==
  ASSUME NEW P, NEW Q, Len(P) \in Nat, Len(Q) \in Nat, Len(Q) <= Len(P),
         \A i \in 1 .. Len(Q) : Q[i] = P[i],
         NEW n \in {20, 21}, NEW k \in 1 .. 20, Answers(P, k, n),
         \A i \in 1 .. Len(P) : i > Len(Q) => P[i] # Awaited[20] \/ (n = 21 /\ i = Len(P))
  PROVE  Answers(Q, k, 20)
<1>1. PICK f \in [k .. n -> 1 .. Len(P)] :
        /\ \A j \in k .. n : Matches(j, P[f[j]])
        /\ \A i, j \in k .. n : i < j => f[i] < f[j]
  BY DEF Answers
<1>2. 20 \in k .. n /\ k .. 20 \subseteq k .. n
  OBVIOUS
<1>3. f[20] \in 1 .. Len(P) /\ P[f[20]] = Awaited[20]
  BY <1>1, <1>2 DEF Matches
<1>4. n = 21 => f[20] # Len(P)
  <2> SUFFICES ASSUME n = 21 PROVE f[20] # Len(P)
    OBVIOUS
  <2>1. 21 \in k .. n /\ f[21] \in 1 .. Len(P)
    OBVIOUS
  <2>2. f[20] < f[21]
    BY <1>1, <1>2, <2>1
  <2> QED
    BY <1>3, <2>1, <2>2
<1>5. f[20] <= Len(Q)
  BY <1>3, <1>4
<1>6. \A j \in k .. 20 : f[j] \in 1 .. Len(Q)
  <2> TAKE j \in k .. 20
  <2>1. j \in k .. n /\ f[j] \in 1 .. Len(P)
    BY <1>2
  <2>2. CASE j = 20
    BY <1>5, <2>1, <2>2
  <2>3. CASE j < 20
    <3>1. f[j] < f[20]
      BY <1>1, <1>2, <2>1, <2>3
    <3> QED
      BY <1>3, <1>5, <2>1, <3>1
  <2> QED
    BY <2>2, <2>3
<1> DEFINE h == [j \in k .. 20 |-> f[j]]
<1>7. h \in [k .. 20 -> 1 .. Len(Q)]
  BY <1>6
<1>8. \A j \in k .. 20 : Matches(j, Q[h[j]])
  BY <1>1, <1>2, <1>6
<1>9. \A i, j \in k .. 20 : i < j => h[i] < h[j]
  BY <1>1, <1>2
<1> HIDE DEF h
<1> QED
  BY <1>7, <1>8, <1>9 DEF Answers

QueuesOK == inq \in Seq(Packets) /\ owes \in Seq(Packets)
NoSign(Q) == \A i \in 1 .. Len(Q) : Q[i] # Packet("data", "a8")

\* The queue as a whole.
LEMMA UnreadIs ==
  ASSUME QueuesOK
  PROVE  /\ Unread \in Seq(Packets) /\ Len(Unread) = Len(inq) + Len(owes)
         /\ Len(inq) \in Nat /\ Len(owes) \in Nat
         /\ \A i \in 1 .. Len(inq) : Unread[i] = inq[i]
         /\ \A i \in 1 .. Len(owes) : Unread[Len(inq) + i] = owes[i]
BY DEF QueuesOK, Unread

\* A packet is sent: the queue is the same.
LEMMA Sent ==
  ASSUME QueuesOK, owes # << >>, inq' = Append(inq, Head(owes)), owes' = Tail(owes)
  PROVE  QueuesOK' /\ Unread' = Unread
<1>1. QueuesOK'
  BY DEF QueuesOK
<1>2. /\ Len(owes) >= 1 /\ Len(inq') = Len(inq) + 1 /\ Len(owes') = Len(owes) - 1
      /\ \A i \in 1 .. Len(inq) : inq'[i] = inq[i]
      /\ inq'[Len(inq) + 1] = owes[1]
      /\ \A i \in 1 .. Len(owes') : owes'[i] = owes[i + 1]
  BY DEF QueuesOK
<1>3. /\ Unread' \in Seq(Packets) /\ Len(Unread') = Len(inq') + Len(owes')
      /\ \A i \in 1 .. Len(inq') : Unread'[i] = inq'[i]
      /\ \A i \in 1 .. Len(owes') : Unread'[Len(inq') + i] = owes'[i]
  BY <1>1 DEF QueuesOK, Unread
<1>4. /\ Unread \in Seq(Packets) /\ Len(Unread) = Len(inq) + Len(owes)
      /\ Len(inq) \in Nat /\ Len(owes) \in Nat
      /\ \A i \in 1 .. Len(inq) : Unread[i] = inq[i]
      /\ \A i \in 1 .. Len(owes) : Unread[Len(inq) + i] = owes[i]
  BY UnreadIs
<1> DEFINE a == Len(inq)
           b == Len(owes)
           u == Unread
           v == Unread'
<1>5. /\ a \in Nat /\ b \in Nat /\ b >= 1 /\ Len(u) = a + b /\ Len(v) = a + b
      /\ \A i \in 1 .. a : u[i] = inq[i] /\ v[i] = inq[i]
      /\ v[a + 1] = owes[1] /\ u[a + 1] = owes[1]
      /\ \A i \in 1 .. b : u[a + i] = owes[i]
      /\ \A i \in 1 .. b - 1 : v[(a + 1) + i] = owes[i + 1]
  BY <1>2, <1>3, <1>4
<1> HIDE DEF a, b, u, v
<1>6. ASSUME NEW i \in 1 .. a + b PROVE v[i] = u[i]
  <2>1. CASE i <= a + 1
    BY <1>5, <2>1
  <2>2. CASE i > a + 1
    <3> DEFINE j == i - (a + 1)
    <3>1. j \in 1 .. b - 1 /\ i = (a + 1) + j /\ j + 1 \in 1 .. b /\ i = a + (j + 1)
      BY <1>5, <2>2
    <3> HIDE DEF j
    <3>2. v[i] = owes[j + 1] /\ u[i] = owes[j + 1]
      BY <1>5, <3>1
    <3> QED
      BY <3>2
  <2> QED
    BY <1>5, <2>1, <2>2
<1>7. u \in Seq(Packets) /\ v \in Seq(Packets) /\ Len(u) = Len(v)
  BY <1>3, <1>4, <1>5 DEF u, v
<1>8. u = v
  BY <1>5, <1>6, <1>7, SeqEqual
<1> QED
  BY <1>1, <1>8 DEF u, v

\* An event of an earlier arm comes.
LEMMA EventComes ==
  ASSUME QueuesOK, inq' = Append(inq, Packet("fdt", "32")), owes' = owes
  PROVE  /\ QueuesOK'
         /\ NoSign(Unread) => NoSign(Unread')
         /\ \A k \in 1 .. 21, n \in {20, 21} : Answers(Unread', k, n) => Answers(Unread, k, n)
<1> DEFINE a == Len(inq)
           b == Len(owes)
           u == Unread
           v == Unread'
<1>1. Packet("fdt", "32") \in Packets /\ Packet("fdt", "32").kind = "fdt"
  BY DEF Packet, Packets, Commands
<1>2. QueuesOK'
  BY <1>1 DEF QueuesOK
<1>3. /\ Len(inq') = a + 1 /\ \A i \in 1 .. a : inq'[i] = inq[i]
      /\ inq'[a + 1] = Packet("fdt", "32")
  BY <1>1 DEF QueuesOK
<1>4. /\ Len(Unread') = Len(inq') + Len(owes')
      /\ \A i \in 1 .. Len(inq') : Unread'[i] = inq'[i]
      /\ \A i \in 1 .. Len(owes') : Unread'[Len(inq') + i] = owes'[i]
  BY <1>2 DEF QueuesOK, Unread
<1>5. /\ a \in Nat /\ b \in Nat /\ Len(u) = a + b /\ Len(v) = a + b + 1
      /\ \A i \in 1 .. a : v[i] = u[i]
      /\ v[a + 1] = Packet("fdt", "32")
      /\ \A i \in 1 .. b : u[a + i] = owes[i] /\ v[(a + 1) + i] = owes[i]
  <2>1. /\ a \in Nat /\ b \in Nat /\ Len(u) = a + b
        /\ \A i \in 1 .. a : u[i] = inq[i]
        /\ \A i \in 1 .. b : u[a + i] = owes[i]
    BY UnreadIs
  <2>2. /\ Len(v) = (a + 1) + b /\ \A i \in 1 .. a + 1 : v[i] = inq'[i]
        /\ \A i \in 1 .. b : v[(a + 1) + i] = owes[i]
    BY <1>3, <1>4
  <2>3. /\ \A i \in 1 .. a : inq'[i] = inq[i]
        /\ inq'[a + 1] = Packet("fdt", "32")
    BY <1>3
  <2> HIDE DEF a, b, u, v
  <2>4. \A i \in 1 .. a : v[i] = u[i]
    BY ONLY <2>1, <2>2, <2>3
  <2>5. v[a + 1] = Packet("fdt", "32")
    BY ONLY <2>1, <2>2, <2>3
  <2>6. Len(v) = a + b + 1
    BY <2>1, <2>2
  <2> QED
    BY <2>1, <2>2, <2>4, <2>5, <2>6
<1> HIDE DEF a, b, u, v
<1> DEFINE g == [i \in 1 .. a + b + 1 |-> IF i <= a THEN i ELSE i - 1]
<1>6. ASSUME NEW i \in 1 .. a + b + 1, i # a + 1
      PROVE  g[i] \in 1 .. a + b /\ u[g[i]] = v[i]
  <2>1. CASE i <= a
    BY <1>5, <2>1
  <2>2. CASE i > a + 1
    <3> DEFINE j == i - (a + 1)
    <3>1. j \in 1 .. b /\ i = (a + 1) + j /\ g[i] = a + j
      BY <1>5, <2>2
    <3> HIDE DEF j, g
    <3>2. u[a + j] = owes[j] /\ v[i] = owes[j]
      BY <1>5, <3>1
    <3>3. g[i] \in 1 .. a + b
      BY <1>5, <3>1
    <3> QED
      BY <3>1, <3>2, <3>3
  <2> QED
    BY <1>5, <1>6, <2>1, <2>2
<1>7. \A i, j \in 1 .. a + b + 1 : i < j /\ i # a + 1 /\ j # a + 1 => g[i] < g[j]
  BY <1>5
<1>8. \A i \in 1 .. Len(v) : v[i].kind # "fdt" => i # a + 1
  BY <1>1, <1>5
<1> HIDE DEF g
<1>9. \A k \in 1 .. 21, n \in {20, 21} : Answers(v, k, n) => Answers(u, k, n)
  <2>1. \A i \in 1 .. Len(v) : v[i].kind # "fdt" => g[i] \in 1 .. Len(u) /\ u[g[i]] = v[i]
    BY <1>5, <1>6, <1>8
  <2>2. \A i, j \in 1 .. Len(v) : i < j /\ v[i].kind # "fdt" /\ v[j].kind # "fdt" => g[i] < g[j]
    BY <1>5, <1>7, <1>8
  <2>3. Len(u) \in Nat /\ Len(v) \in Nat
    BY <1>5
  <2> QED
    BY <2>1, <2>2, <2>3, FewerAnswer
<1>10. NoSign(u) => NoSign(v)
  <2> SUFFICES ASSUME NoSign(u), NEW i \in 1 .. Len(v) PROVE v[i] # Packet("data", "a8")
    BY DEF NoSign
  <2>1. CASE i = a + 1
    BY <1>5, <2>1 DEF Packet
  <2>2. CASE i # a + 1
    BY <1>5, <1>6, <2>2 DEF NoSign
  <2> QED
    BY <2>1, <2>2
<1> QED
  BY <1>2, <1>9, <1>10 DEF u, v

\* The first packet is read: what is awaited next, or anything else.
LEMMA HeadRead ==
  ASSUME QueuesOK, inq # << >>, inq' = Tail(inq), owes' = owes
  PROVE  /\ QueuesOK' /\ Head(inq) \in Packets
         /\ NoSign(Unread) => NoSign(Unread') /\ Head(inq) # Packet("data", "a8")
         /\ \A k \in 1 .. 21, n \in {20, 21} : Answers(Unread', k, n) => Answers(Unread, k, n)
         /\ \A k \in 1 .. 20, n \in {20, 21} :
              Head(inq) = Awaited[k] /\ Answers(Unread', k + 1, n) => Answers(Unread, k, n)
<1> DEFINE a == Len(inq)
           b == Len(owes)
           u == Unread
           v == Unread'
<1>1. QueuesOK' /\ Head(inq) \in Packets
  BY DEF QueuesOK
<1>2. /\ a >= 1 /\ Len(inq') = a - 1 /\ \A i \in 1 .. a - 1 : inq'[i] = inq[i + 1]
      /\ Head(inq) = inq[1]
  BY DEF QueuesOK
<1>3. /\ Len(Unread') = Len(inq') + Len(owes')
      /\ \A i \in 1 .. Len(inq') : Unread'[i] = inq'[i]
      /\ \A i \in 1 .. Len(owes') : Unread'[Len(inq') + i] = owes'[i]
  BY <1>1 DEF QueuesOK, Unread
<1>4. /\ a \in Nat /\ b \in Nat /\ a >= 1 /\ Len(u) = a + b /\ Len(v) = a + b - 1
      /\ \A i \in 1 .. a - 1 : v[i] = u[i + 1]
      /\ u[1] = Head(inq)
      /\ \A i \in 1 .. b : u[a + i] = owes[i] /\ v[(a - 1) + i] = owes[i]
  BY <1>2, <1>3, UnreadIs
<1> HIDE DEF a, b, u, v
<1>5. ASSUME NEW i \in 1 .. a + b - 1
      PROVE  u[i + 1] = v[i]
  <2>1. CASE i <= a - 1
    BY <1>4, <2>1
  <2>2. CASE i > a - 1
    <3> DEFINE j == i - (a - 1)
    <3>1. j \in 1 .. b /\ i = (a - 1) + j /\ i + 1 = a + j
      BY <1>4, <2>2
    <3> HIDE DEF j
    <3> QED
      BY <1>4, <3>1
  <2> QED
    BY <1>4, <2>1, <2>2
<1>6. Len(u) \in Nat /\ Len(v) \in Nat /\ Len(u) = Len(v) + 1
  BY <1>4
<1>7. \A k \in 1 .. 21, n \in {20, 21} : Answers(v, k, n) => Answers(u, k, n)
  <2> DEFINE g == [i \in 1 .. Len(v) |-> i + 1]
  <2>1. \A i \in 1 .. Len(v) : v[i].kind # "fdt" => g[i] \in 1 .. Len(u) /\ u[g[i]] = v[i]
    BY <1>4, <1>5, <1>6
  <2>2. \A i, j \in 1 .. Len(v) : i < j /\ v[i].kind # "fdt" /\ v[j].kind # "fdt" => g[i] < g[j]
    BY <1>6
  <2> HIDE DEF g
  <2> QED
    BY <1>6, <2>1, <2>2, FewerAnswer
<1>8. \A k \in 1 .. 20, n \in {20, 21} :
        Head(inq) = Awaited[k] /\ Answers(v, k + 1, n) => Answers(u, k, n)
  <2>1. \A i \in 1 .. Len(v) : u[i + 1] = v[i]
    BY <1>4, <1>5
  <2> TAKE k \in 1 .. 20, n \in {20, 21}
  <2> HAVE Head(inq) = Awaited[k] /\ Answers(v, k + 1, n)
  <2>2. u[1] = Awaited[k] /\ Answers(v, k + 1, n)
    BY <1>4
  <2>3. k \in 1 .. 20 /\ n \in {20, 21}
    OBVIOUS
  <2> QED
    BY ONLY <1>6, <2>1, <2>2, <2>3, HeadAnswers
<1>9. NoSign(u) => NoSign(v) /\ Head(inq) # Packet("data", "a8")
  BY <1>4, <1>5, <1>6 DEF NoSign
<1> QED
  BY <1>1, <1>7, <1>8, <1>9 DEF u, v

\* The EC owes more.
LEMMA Grown ==
  ASSUME QueuesOK, NEW r \in Seq(Packets), inq' = inq, owes' = owes \o r
  PROVE  /\ QueuesOK'
         /\ Len(Unread) \in Nat /\ Len(r) \in Nat /\ Len(Unread') = Len(Unread) + Len(r)
         /\ \A i \in 1 .. Len(Unread) : Unread'[i] = Unread[i]
         /\ \A i \in 1 .. Len(r) : Unread'[Len(Unread) + i] = r[i]
         /\ NoSign(Unread) /\ NoSign(r) => NoSign(Unread')
<1> DEFINE u == Unread
           v == Unread'
<1>1. QueuesOK'
  BY DEF QueuesOK
<1>2. v = u \o r
  BY DEF QueuesOK, Unread
<1>3. u \in Seq(Packets) /\ Len(r) \in Nat
  BY UnreadIs
<1> HIDE DEF u, v
<1>4. /\ Len(u) \in Nat /\ Len(v) = Len(u) + Len(r)
      /\ \A i \in 1 .. Len(u) : v[i] = u[i]
      /\ \A i \in 1 .. Len(r) : v[Len(u) + i] = r[i]
  BY <1>2, <1>3
<1>5. NoSign(u) /\ NoSign(r) => NoSign(v)
  <2> SUFFICES ASSUME NoSign(u), NoSign(r), NEW i \in 1 .. Len(v) PROVE v[i] # Packet("data", "a8")
    BY DEF NoSign
  <2>1. CASE i <= Len(u)
    BY <1>4, <2>1 DEF NoSign
  <2>2. CASE i > Len(u)
    <3> DEFINE j == i - Len(u)
    <3>1. j \in 1 .. Len(r) /\ i = Len(u) + j
      BY <1>3, <1>4, <2>2
    <3> HIDE DEF j
    <3> QED
      BY <1>4, <3>1 DEF NoSign
  <2> QED
    BY <1>3, <1>4, <2>1, <2>2
<1> QED
  BY <1>1, <1>3, <1>4, <1>5 DEF u, v

-----------------------------------------------------------------------------
(* The inductive invariant *)

\* What the first command of each place of the list waits for first.
First == <<3, 3, 5, 6, 8, 10, 12, 14, 16, 17, 19, 21>>

Acked == IF x.gotAck /\ x.reply = AckData THEN 1 ELSE 0

\* The place in Awaited where an open is; 21 is behind them all.
Await ==
  CASE os = "DRAIN" -> 1
    [] os = "HEALTH" -> 1 + Acked
    [] os = "DRAIN_AFTER_HEALTH" -> 3
    [] os = "INIT_STEP" -> First[init_idx] + Acked
    [] os = "INIT_DRAIN" -> First[init_idx + 1]
    [] OTHER -> 21

\* Once the last command is sent its answer may be unread, but nothing harmful is
\* behind it.
End ==
  IF \/ os = "INIT_STEP" /\ init_idx = 11 /\ io = "in"
     \/ os = "INIT_DRAIN" /\ init_idx = 11
     \/ os = "REQUEST_TLS"
  THEN 21 ELSE 20

\* The running exchange is the one of its state.
Runs ==
  /\ os \in Before \cup After =>
       x.send = OpenExchange(os, init_idx).send /\ x.reply = OpenExchange(os, init_idx).reply
  /\ os \in {"DRAIN", "HEALTH", "DRAIN_AFTER_HEALTH"} => init_idx = 1
  /\ os = "REQUEST_TLS" => io = "out" /\ init_idx = 11
  /\ io = "out" /\ os # "HANDSHAKE" => x.send
  /\ os \in Before => x.listen = "no"

\* What is unread cannot take an open past what its own commands draw: stale
\* answers are too few.
Behind == os \in Before => ~Answers(Unread, Await, End)

Late == {"DRAIN_AFTER_HEALTH", "INIT_STEP", "INIT_DRAIN", "REQUEST_TLS"}

\* Past the health check the EC is known to be in no handshake; in one, nothing
\* unread looks like a sign of life.
Spared ==
  /\ hurt = FALSE
  /\ os \in Late => ecMode # "handshake"
  /\ ecMode = "handshake" => NoSign(Unread)

\* The records the server has made for the EC.
Drawn(s) == IF s.fed = 0 THEN 0 ELSE IF s.fed < 4 THEN 2 ELSE 4

Mode(n) == IF n = 4 THEN "session" ELSE "handshake"

\* The EC has taken what the server made, but for what is still to be sent.
Counted ==
  /\ os = "HANDSHAKE" =>
       /\ taken = Drawn(tls) - tls.out - (IF io = "out" THEN 1 ELSE 0)
       /\ ecMode = Mode(taken)
  /\ SessionIsShared

EcTypes == QueuesOK /\ taken \in Int /\ ecMode \in {"idle", "handshake", "session"}

SInv == IInv /\ EcTypes /\ Runs /\ Behind /\ Spared /\ Counted

\* The list of commands and the list of what they wait for go together.
LEMMA InitReplies ==
  ASSUME NEW i \in 1 .. 11
  PROVE  /\ Len(vendor_init_pre_tls) = 11
         /\ First[i] \in 1 .. 20 /\ First[i + 1] \in 1 .. 21
         /\ vendor_init_pre_tls[i].cmd \in Commands \ {"d0"}
         /\ vendor_init_pre_tls[i].cmd = "90" <=> i = 11
         /\ \/ /\ vendor_init_pre_tls[i].reply = {}
               /\ First[i + 1] = First[i] /\ i # 11
            \/ /\ vendor_init_pre_tls[i].reply = {"ACK"}
               /\ First[i + 1] = First[i] + 1
               /\ Awaited[First[i]] = Packet("ack", vendor_init_pre_tls[i].cmd)
            \/ /\ vendor_init_pre_tls[i].reply = {"DATA"}
               /\ First[i + 1] = First[i] + 1
               /\ Awaited[First[i]] = Packet("data", vendor_init_pre_tls[i].cmd)
            \/ /\ vendor_init_pre_tls[i].reply = AckData
               /\ First[i + 1] = First[i] + 2
               /\ Awaited[First[i]] = Packet("ack", vendor_init_pre_tls[i].cmd)
               /\ Awaited[First[i] + 1] = Packet("data", vendor_init_pre_tls[i].cmd)
<1>1. Len(vendor_init_pre_tls) = 11
  BY DEF vendor_init_pre_tls
<1>2. CASE i = 1
  BY <1>1, <1>2 DEF vendor_init_pre_tls, First, Commands
<1>3. CASE i = 2
  BY <1>1, <1>3 DEF vendor_init_pre_tls, First, Commands, Awaited
<1>4. CASE i = 3
  BY <1>1, <1>4 DEF vendor_init_pre_tls, First, Commands, Awaited
<1>5. CASE i = 4
  BY <1>1, <1>5 DEF vendor_init_pre_tls, First, Commands, Awaited
<1>6. CASE i = 5
  BY <1>1, <1>6 DEF vendor_init_pre_tls, First, Commands, Awaited
<1>7. CASE i = 6
  BY <1>1, <1>7 DEF vendor_init_pre_tls, First, Commands, Awaited
<1>8. CASE i = 7
  BY <1>1, <1>8 DEF vendor_init_pre_tls, First, Commands, Awaited
<1>9. CASE i = 8
  BY <1>1, <1>9 DEF vendor_init_pre_tls, First, Commands, Awaited
<1>10. CASE i = 9
  BY <1>1, <1>10 DEF vendor_init_pre_tls, First, Commands, Awaited
<1>11. CASE i = 10
  BY <1>1, <1>11 DEF vendor_init_pre_tls, First, Commands, Awaited
<1>12. CASE i = 11
  BY <1>1, <1>12 DEF vendor_init_pre_tls, First, Commands, Awaited
<1> QED
  BY <1>2, <1>3, <1>4, <1>5, <1>6, <1>7, <1>8, <1>9, <1>10, <1>11, <1>12

\* The open machine begins an exchange: it has no replies yet.
LEMMA BeginRuns ==
  ASSUME NEW s \in Before \cup After, NEW i \in 1 .. 11, Begin(s, i),
         s \in {"DRAIN", "HEALTH", "DRAIN_AFTER_HEALTH"} => i = 1,
         s = "REQUEST_TLS" => i = 11
  PROVE  Runs' /\ os' = s /\ init_idx' = i /\ x'.gotAck = FALSE /\ Acked' = 0
<1>1. os' = s /\ init_idx' = i /\ x' = OpenExchange(s, i)
      /\ io' = (IF OpenExchange(s, i).send THEN "out" ELSE "in")
  BY DEF Begin
<1>2. OpenExchange(s, i).gotAck = FALSE
  BY DEF OpenExchange, start_drain, start_exchange, start_listen, begin_exchange, Before, After
<1>3. s = "REQUEST_TLS" => OpenExchange(s, i).send
  BY DEF OpenExchange, start_exchange, begin_exchange
<1>4. s \in Before => OpenExchange(s, i).listen = "no"
  BY DEF OpenExchange, start_drain, start_exchange, begin_exchange, Before
<1> QED
  BY <1>1, <1>2, <1>3, <1>4 DEF Runs, Acked, Before, After

\* The exchange of each state before the handshake.
LEMMA RunningIs ==
  ASSUME IInv, Runs, os \in Before
  PROVE  /\ init_idx \in 1 .. 11 /\ x \in Exchanges /\ x.listen = "no"
         /\ os \in {"DRAIN", "DRAIN_AFTER_HEALTH", "INIT_DRAIN"} => x.send = FALSE /\ x.reply = {}
         /\ os = "HEALTH" => x.send = TRUE /\ x.reply = AckData
         /\ os = "INIT_STEP" => x.send = TRUE /\ x.reply = vendor_init_pre_tls[init_idx].reply
         /\ os = "REQUEST_TLS" => x.send = TRUE /\ x.reply = {"TLS"}
<1>0. Len(vendor_init_pre_tls) = 11
  BY DEF vendor_init_pre_tls
<1>1. init_idx \in 1 .. 11 /\ x \in Exchanges
  BY <1>0 DEF IInv, TypeOK
<1>2. x.send = OpenExchange(os, init_idx).send /\ x.reply = OpenExchange(os, init_idx).reply
      /\ x.listen = "no"
  BY DEF Runs
<1>3. os \in {"DRAIN", "DRAIN_AFTER_HEALTH", "INIT_DRAIN"} =>
        OpenExchange(os, init_idx) = begin_exchange(FALSE, {}, "no")
  BY DEF OpenExchange, start_drain
<1>4. os = "HEALTH" => OpenExchange(os, init_idx) = begin_exchange(TRUE, AckData, "no")
  BY DEF OpenExchange, start_exchange
<1>5. os = "INIT_STEP" =>
        OpenExchange(os, init_idx) = begin_exchange(TRUE, vendor_init_pre_tls[init_idx].reply, "no")
  BY DEF OpenExchange, start_exchange
<1>6. os = "REQUEST_TLS" => OpenExchange(os, init_idx) = begin_exchange(TRUE, {"TLS"}, "no")
  BY DEF OpenExchange, start_exchange
<1> QED
  BY <1>1, <1>2, <1>3, <1>4, <1>5, <1>6 DEF begin_exchange

\* The state of the list that follows the present one, once its exchange is over.
Next21 ==
  CASE os = "DRAIN" -> 1
    [] os \in {"HEALTH", "DRAIN_AFTER_HEALTH"} -> 3
    [] os \in {"INIT_STEP", "INIT_DRAIN"} -> First[init_idx + 1]
    [] OTHER -> 21

\* An exchange before the handshake is over.
LEMMA NextStateMoves ==
  ASSUME IInv, Runs, os \in Before, os # "REQUEST_TLS", io = "in", NextState
  PROVE  /\ Runs' /\ os' \in Before /\ os' # "DRAIN" /\ UNCHANGED device
         /\ Await' = Next21 /\ End' = End
         /\ os' \in Late => os \in Late \/ os = "HEALTH"
<1>1. init_idx \in 1 .. 11 /\ Len(vendor_init_pre_tls) = 11
  BY RunningIs, InitReplies
<1>2. CASE os \in DOMAIN Following /\ Begin(Following[os], init_idx)
           /\ UNCHANGED <<device, tls, gap, budget>>
  <2>1. CASE os = "DRAIN"
    <3>1. Following[os] = "HEALTH" /\ init_idx = 1
      BY <2>1 DEF Following, Runs
    <3>2. Runs' /\ os' = "HEALTH" /\ Acked' = 0
      BY <1>1, <1>2, <3>1, BeginRuns DEF Before
    <3> QED
      BY <1>2, <2>1, <3>2 DEF Before, Late, Await, End, Next21
  <2>2. CASE os = "HEALTH"
    <3>1. Following[os] = "DRAIN_AFTER_HEALTH" /\ init_idx = 1
      BY <2>2 DEF Following, Runs
    <3>2. Runs' /\ os' = "DRAIN_AFTER_HEALTH" /\ Acked' = 0
      BY <1>1, <1>2, <3>1, BeginRuns DEF Before
    <3> QED
      BY <1>2, <2>2, <3>2 DEF Before, Late, Await, End, Next21
  <2>3. CASE os = "DRAIN_AFTER_HEALTH"
    <3>1. Following[os] = "INIT_STEP" /\ init_idx = 1
      BY <2>3 DEF Following, Runs
    <3>2. Runs' /\ os' = "INIT_STEP" /\ init_idx' = 1 /\ Acked' = 0
      BY <1>1, <1>2, <3>1, BeginRuns DEF Before
    <3>3. First[1] = 3
      BY DEF First
    <3> QED
      BY <1>2, <2>3, <3>2, <3>3 DEF Before, Late, Await, End, Next21
  <2>4. CASE os = "INIT_STEP"
    <3>1. Following[os] = "INIT_DRAIN"
      BY <2>4 DEF Following
    <3>2. Runs' /\ os' = "INIT_DRAIN" /\ init_idx' = init_idx
      BY <1>1, <1>2, <3>1, BeginRuns DEF Before
    <3> QED
      BY <1>2, <2>4, <3>2 DEF Before, Late, Await, End, Next21
  <2> QED
    BY <1>2, <2>1, <2>2, <2>3, <2>4 DEF Following, Before
<1>3. CASE /\ os = "INIT_DRAIN" /\ init_idx < Len(vendor_init_pre_tls)
           /\ Begin("INIT_STEP", init_idx + 1)
           /\ UNCHANGED <<device, tls, gap, budget>>
  <2>1. PICK i \in 1 .. 11 : i = init_idx + 1
    BY <1>1, <1>3
  <2>2. Runs' /\ os' = "INIT_STEP" /\ init_idx' = i /\ Acked' = 0
    <3>1. PICK s \in Before \cup After : s = "INIT_STEP"
      BY DEF Before
    <3>2. Begin(s, i)
      BY <1>3, <2>1, <3>1
    <3> QED
      BY <3>1, <3>2, BeginRuns
  <2>3. io' = "out"
    <3>1. OpenExchange("INIT_STEP", init_idx + 1).send = TRUE
      BY DEF OpenExchange, start_exchange, begin_exchange
    <3> QED
      BY <1>3, <3>1 DEF Begin
  <2>4. First[init_idx + 1] \in 1 .. 21
    BY <1>1, InitReplies
  <2> QED
    BY <1>1, <1>3, <2>1, <2>2, <2>3, <2>4 DEF Before, Late, Await, End, Next21
<1>4. CASE /\ os = "INIT_DRAIN" /\ init_idx = Len(vendor_init_pre_tls)
           /\ Begin("REQUEST_TLS", init_idx)
           /\ UNCHANGED <<device, tls, gap>>
  <2>1. Runs' /\ os' = "REQUEST_TLS"
    BY <1>1, <1>4, BeginRuns DEF Before
  <2>2. First[init_idx + 1] = 21
    BY <1>1, <1>4 DEF First
  <2> QED
    BY <1>1, <1>4, <2>1, <2>2 DEF Before, Late, Await, End, Next21
<1> QED
  BY <1>2, <1>3, <1>4 DEF NextState, Before

\* An exchange is over with the last reply it waits for, or waits for none.
LEMMA ReceivedOk ==
  ASSUME NEW y \in Exchanges, "TLS" \notin y.reply, NEW k, Received(y, k) = "ok"
  PROVE  \/ y.reply = {}
         \/ "DATA" \in y.reply /\ k = "data" /\ ("ACK" \in y.reply => y.gotAck)
         \/ "DATA" \notin y.reply /\ k = "ack"
BY DEF Received, Satisfies, WantsData, WantsTls

\* What rx_classify takes for an ACK or a reply is one for the running command.
LEMMA ClassifiedIs ==
  ASSUME NEW p \in Packets
  PROVE  /\ Classified(p) \in Transfers
         /\ Classified(p).rx \in {"ack", "data", "tls", "fdt", "noise"}
         /\ Classified(p).rx \in {"ack", "data"} => p = Packet(Classified(p).rx, Command)
<1>1. /\ p.kind \in {"ack", "data", "tls", "fdt"}
      /\ p = [kind |-> p.kind, cmd |-> p.cmd]
  BY DEF Packets
<1>2. CASE p.kind = "tls"
  BY <1>2 DEF Classified, Transfers
<1>3. CASE p.kind # "tls"
  <2>1. PICK r \in {"ack", "data", "fdt", "noise"} :
          /\ Classified(p) = [rx |-> r]
          /\ r \in {"ack", "data"} => r = p.kind /\ p.cmd = Command
    BY <1>1, <1>3 DEF Classified
  <2>2. r \in RxKinds \ {"tls"}
    BY <2>1 DEF RxKinds
  <2> QED
    BY <1>1, <2>1, <2>2 DEF Transfers, Packet
<1> QED
  BY <1>2, <1>3

\* A read before the handshake goes on along the list by what is awaited next, and
\* by nothing else; past the health check by its answer alone.
LEMMA ReadMoves ==
  ASSUME IInv, Runs, os \in Before, NEW p \in Packets, ExchangeRead(Classified(p))
  PROVE  \/ OpenFails
         \/ /\ Runs' /\ os' \in Before /\ UNCHANGED device
            /\ End' = End
            /\ Await' = Await \/ (Await \in 1 .. 20 /\ Await' = Await + 1 /\ p = Awaited[Await])
            /\ os' \in Late => os \in Late \/ p = Packet("data", "a8")
<1> DEFINE k == Classified(p).rx
<1>1. /\ io = "in" /\ os # "REQUEST_TLS" /\ Conclude(Received(x, k), Noted(x, k))
  BY DEF ExchangeRead, Runs
<1>2. k \in RxKinds /\ (k \in {"ack", "data"} => p = Packet(k, Command))
  BY ClassifiedIs DEF RxKinds
<1> HIDE DEF k
<1>3. /\ init_idx \in 1 .. 11 /\ x \in Exchanges /\ x.listen = "no"
      /\ os \in {"DRAIN", "DRAIN_AFTER_HEALTH", "INIT_DRAIN"} => x.send = FALSE /\ x.reply = {}
      /\ os = "HEALTH" => x.send = TRUE /\ x.reply = AckData
      /\ os = "INIT_STEP" => x.send = TRUE /\ x.reply = vendor_init_pre_tls[init_idx].reply
  BY RunningIs
<1>4. /\ os = "HEALTH" => Command = "a8"
      /\ os = "INIT_STEP" => Command = vendor_init_pre_tls[init_idx].cmd
  BY DEF Command
<1>5. /\ First[init_idx] \in 1 .. 20 /\ First[init_idx + 1] \in 1 .. 21
      /\ os = "INIT_STEP" =>
           \/ x.reply = {} /\ First[init_idx + 1] = First[init_idx]
           \/ /\ x.reply = {"ACK"} /\ First[init_idx + 1] = First[init_idx] + 1
              /\ Awaited[First[init_idx]] = Packet("ack", Command)
           \/ /\ x.reply = {"DATA"} /\ First[init_idx + 1] = First[init_idx] + 1
              /\ Awaited[First[init_idx]] = Packet("data", Command)
           \/ /\ x.reply = AckData /\ First[init_idx + 1] = First[init_idx] + 2
              /\ First[init_idx] + 1 \in 1 .. 20
              /\ Awaited[First[init_idx]] = Packet("ack", Command)
              /\ Awaited[First[init_idx] + 1] = Packet("data", Command)
  BY <1>3, <1>4, InitReplies
<1>6. "TLS" \notin x.reply /\ x.reply # {"TLS"}
  BY <1>1, <1>3, <1>5 DEF AckData, Before
<1>7. x.gotAck \in BOOLEAN /\ Acked \in {0, 1}
  BY <1>3 DEF Exchanges, Acked
<1>8. Awaited[1] = Packet("ack", "a8") /\ Awaited[2] = Packet("data", "a8")
  BY DEF Awaited
<1>9. CASE Received(x, k) = "ok" /\ NextState
  <2>1. /\ Runs' /\ os' \in Before /\ UNCHANGED device
        /\ Await' = Next21 /\ End' = End
        /\ os' \in Late => os \in Late \/ os = "HEALTH"
    BY <1>1, <1>9, NextStateMoves
  <2>2. \/ x.reply = {}
        \/ "DATA" \in x.reply /\ k = "data" /\ ("ACK" \in x.reply => x.gotAck)
        \/ "DATA" \notin x.reply /\ k = "ack"
    BY <1>3, <1>6, <1>9, ReceivedOk
  <2>3. CASE os \in {"DRAIN", "DRAIN_AFTER_HEALTH", "INIT_DRAIN"}
    <3>1. Next21 = Await
      BY <2>3 DEF Next21, Await
    <3> QED
      BY <2>1, <2>3, <3>1 DEF Late
  <2>4. CASE os = "HEALTH"
    <3>1. x.gotAck /\ k = "data"
      BY <1>3, <2>2, <2>4 DEF AckData
    <3>2. Await = 2 /\ Next21 = 3
      BY <1>3, <2>4, <3>1 DEF Await, Next21, Acked
    <3>3. p = Packet("data", "a8")
      BY <1>2, <1>4, <2>4, <3>1
    <3> QED
      BY <1>8, <2>1, <3>2, <3>3
  <2>5. CASE os = "INIT_STEP"
    <3>1. Next21 = First[init_idx + 1] /\ Await = First[init_idx] + Acked
      BY <2>5 DEF Next21, Await
    <3>2. CASE x.reply = {} /\ First[init_idx + 1] = First[init_idx]
      BY <1>5, <2>1, <2>5, <3>1, <3>2 DEF Late, Acked, AckData
    <3>3. CASE /\ x.reply = {"ACK"} /\ First[init_idx + 1] = First[init_idx] + 1
               /\ Awaited[First[init_idx]] = Packet("ack", Command)
      <4>1. k = "ack" /\ Acked = 0
        BY <2>2, <3>3 DEF Acked, AckData
      <4> QED
        BY <1>2, <1>5, <2>1, <2>5, <3>1, <3>3, <4>1 DEF Late
    <3>4. CASE /\ x.reply = {"DATA"} /\ First[init_idx + 1] = First[init_idx] + 1
               /\ Awaited[First[init_idx]] = Packet("data", Command)
      <4>1. k = "data" /\ Acked = 0
        BY <2>2, <3>4 DEF Acked, AckData
      <4> QED
        BY <1>2, <1>5, <2>1, <2>5, <3>1, <3>4, <4>1 DEF Late
    <3>5. CASE /\ x.reply = AckData /\ First[init_idx + 1] = First[init_idx] + 2
               /\ First[init_idx] + 1 \in 1 .. 20
               /\ Awaited[First[init_idx] + 1] = Packet("data", Command)
      <4>1. k = "data" /\ Acked = 1
        BY <2>2, <3>5 DEF Acked, AckData
      <4> QED
        BY <1>2, <1>5, <2>1, <2>5, <3>1, <3>5, <4>1 DEF Late
    <3> QED
      BY <1>5, <2>5, <3>2, <3>3, <3>4, <3>5
  <2> QED
    BY <1>1, <2>3, <2>4, <2>5 DEF Before
<1>10. CASE x' = Noted(x, k) /\ UNCHANGED <<device, os, init_idx, hs, io, tls, gap, budget>>
  <2>1. /\ x'.send = x.send /\ x'.reply = x.reply /\ x'.listen = x.listen
        /\ x'.gotAck = (x.gotAck \/ (x.send /\ k = "ack"))
    BY <1>2, <1>3, <1>10, NotedType
  <2>2. Runs' /\ os' \in Before /\ UNCHANGED device /\ End' = End
        /\ (os' \in Late => os \in Late)
    BY <1>1, <1>10, <2>1 DEF Runs, End
  <2>3. Acked' = Acked \/ (Acked = 0 /\ Acked' = 1 /\ k = "ack" /\ x.reply = AckData)
    BY <1>7, <2>1 DEF Acked
  <2>4. os' = os /\ init_idx' = init_idx
    BY <1>10
  <2>5. CASE Acked' = Acked
    BY <2>2, <2>4, <2>5 DEF Await
  <2>6. CASE Acked = 0 /\ Acked' = 1 /\ k = "ack" /\ x.reply = AckData
    <3>1. CASE os = "HEALTH"
      <4>1. Await = 1 /\ Await' = 2
        BY <2>4, <2>6, <3>1 DEF Await
      <4> QED
        BY <1>2, <1>4, <1>8, <2>2, <2>6, <3>1, <4>1
    <3>2. CASE os = "INIT_STEP"
      <4>1. Await = First[init_idx] /\ Await' = First[init_idx] + 1
        BY <1>5, <2>4, <2>6, <3>2 DEF Await
      <4>2. Awaited[First[init_idx]] = Packet("ack", Command)
        BY <1>5, <2>6, <3>2 DEF AckData
      <4> QED
        BY <1>2, <1>5, <2>2, <2>6, <4>1, <4>2
    <3> QED
      BY <1>1, <1>3, <2>6, <3>1, <3>2 DEF Before, AckData
  <2> QED
    BY <2>3, <2>5, <2>6
<1>11. ~NothingToRead(Noted(x, k))
  BY <1>2, <1>3, <1>6, NotedType DEF NothingToRead
<1> QED
  BY <1>1, <1>9, <1>10, <1>11 DEF Conclude

\* A read that times out never stands for an answer.
LEMMA TimeOutMoves ==
  ASSUME IInv, Runs, os \in Before, ReadTimesOut
  PROVE  \/ OpenFails
         \/ /\ Runs' /\ os' \in Before /\ UNCHANGED device
            /\ End' = End /\ Await' = Await /\ (os' \in Late => os \in Late)
<1>1. /\ io = "in" /\ os # "REQUEST_TLS" /\ Conclude(TimedOut(x), x)
  BY DEF ReadTimesOut, Runs, Before
<1>2. /\ init_idx \in 1 .. 11 /\ x \in Exchanges /\ x.listen = "no"
      /\ os = "HEALTH" => x.reply = AckData
      /\ os = "INIT_STEP" => x.reply = vendor_init_pre_tls[init_idx].reply
  BY RunningIs
<1>3. TimedOut(x) \in {"failed", "ok"} /\ (TimedOut(x) = "ok" => x.reply = {})
  BY <1>2 DEF TimedOut
<1>4. OpenFails \/ (x.reply = {} /\ NextState)
  BY <1>1, <1>3 DEF Conclude
<1>5. CASE x.reply = {} /\ NextState
  <2>1. /\ Runs' /\ os' \in Before /\ UNCHANGED device
        /\ Await' = Next21 /\ End' = End
        /\ os' \in Late => os \in Late \/ os = "HEALTH"
    BY <1>1, <1>5, NextStateMoves
  <2>2. os # "HEALTH"
    BY <1>2, <1>5 DEF AckData
  <2>3. os = "INIT_STEP" => First[init_idx + 1] = First[init_idx] /\ First[init_idx] \in 1 .. 20
    BY <1>2, <1>5, InitReplies DEF AckData
  <2>4. Next21 = Await
    BY <1>1, <1>5, <2>2, <2>3 DEF Next21, Await, Acked, AckData, Before
  <2> QED
    BY <2>1, <2>2, <2>4
<1> QED
  BY <1>4, <1>5

\* Where there is no open, none of this has anything to say.
LEMMA RunsNone == ASSUME os' = "none", io' = "none" PROVE Runs'
BY DEF Runs, Before, After

\* After the handshake an exchange leads to the next one, or to the end of the open.
LEMMA AfterMoves ==
  ASSUME IInv, Runs, os \in After, NEW v, NEW y, Conclude(v, y),
         y.send = x.send, y.reply = x.reply
  PROVE  Runs' /\ os' \in After \cup {"none"}
<1>1. init_idx \in 1 .. 11
  BY InitReplies, FirstStep DEF IInv, TypeOK, vendor_init_pre_tls
<1>2. CASE OpenFails
  BY <1>2, RunsNone DEF OpenFails, Stopped
<1>3. CASE /\ os \in DOMAIN Following /\ Begin(Following[os], init_idx)
  <2>1. PICK s \in Before \cup After : s = Following[os] /\ s \in After
    BY <1>3 DEF Following, After
  <2>2. Begin(s, init_idx) /\ s \notin Before
    BY <1>3, <2>1 DEF Before, After
  <2> QED
    BY <1>1, <2>1, <2>2, BeginRuns DEF Before
<1>4. CASE os = "MCU_STATE" /\ Begin("DRAIN_FINAL", init_idx)
  <2>1. PICK s \in Before \cup After : s = "DRAIN_FINAL"
    BY DEF After
  <2>2. Begin(s, init_idx)
    BY <1>4, <2>1
  <2> QED
    BY <1>1, <2>1, <2>2, BeginRuns DEF After
<1>5. CASE OpenSucceeds
  BY <1>5, RunsNone DEF OpenSucceeds, Stopped
<1>6. CASE x' = y /\ UNCHANGED <<device, os, init_idx, hs, io, tls, gap, budget>>
  BY <1>6 DEF Runs, Before, After
<1>7. os # "INIT_DRAIN"
  BY DEF After
<1> QED
  BY <1>2, <1>3, <1>4, <1>5, <1>6, <1>7 DEF Conclude, NextState

\* The handshake machine keeps the count of the records, whatever state it enters.
LEMMA EnterMoves ==
  ASSUME IInv, os # "none", NEW h \in HandshakeStates, NEW s, NEW g, Enter(h, s, g), Sound(s),
         h = "HS_SETTLE" => s.fed = 4 /\ s.out = 0,
         taken' = Drawn(s) - s.out, ecMode' = Mode(taken')
  PROVE  Runs' /\ os' \in {"none", "HANDSHAKE", "TLS_ESTABLISHED"} /\ Counted'
<1>1. sessionValid = FALSE /\ init_idx \in 1 .. 11
  BY Opening DEF IInv, TypeOK, Holds, Place, vendor_init_pre_tls
<1>2. CASE OpenFails
  BY <1>2, RunsNone DEF OpenFails, Stopped, Counted, SessionIsShared
<1>3. ASSUME NEW h2, NEW s2, NEW g2, Submit(h2, s2, g2),
             taken' = Drawn(s2) - s2.out - (IF h2 = "HS_WRITE" THEN 1 ELSE 0)
      PROVE  Runs' /\ os' = "HANDSHAKE" /\ Counted'
  <2>1. os' = "HANDSHAKE" /\ tls' = s2 /\ sessionValid' = FALSE
        /\ io' = (IF h2 = "HS_WRITE" THEN "out" ELSE "in")
    BY <1>1, <1>3 DEF Submit, device
  <2> QED
    BY <1>3, <2>1 DEF Runs, Counted, SessionIsShared, Before, After
<1>4. CASE h # "HS_WRITE" /\ Submit(h, s, g)
  BY <1>3, <1>4 DEF Sound, TlsStates, Drawn
<1>5. CASE HS_WRITE(s, g)
  <2>1. CASE Submit("HS_WRITE", [s EXCEPT !.out = @ - 1], g)
    <3> DEFINE s2 == [s EXCEPT !.out = @ - 1]
    <3>1. s2.fed = s.fed /\ s2.out = s.out - 1
      BY DEF Sound, TlsStates
    <3>2. Drawn(s2) = Drawn(s) /\ Drawn(s) \in Int /\ s.out \in Int
      BY <3>1 DEF Drawn, Sound, TlsStates
    <3> HIDE DEF s2
    <3>3. Submit("HS_WRITE", s2, g)
      BY <2>1 DEF s2
    <3> QED
      BY <1>3, <3>1, <3>2, <3>3
  <2>2. CASE Submit("HS_SETTLE", s, "open") \/ Submit("HS_READ", s, g)
    BY <1>3, <2>2 DEF Sound, TlsStates, Drawn
  <2> QED
    BY <1>5, <2>1, <2>2 DEF HS_WRITE
<1>6. CASE h = "HS_SETTLE" /\ Begin("TLS_ESTABLISHED", init_idx) /\ UNCHANGED device
  <2>1. ecMode' = "session"
    BY <1>6 DEF Drawn, Mode
  <2>2. PICK e \in Before \cup After : e = "TLS_ESTABLISHED"
    BY DEF After
  <2>3. Begin(e, init_idx)
    BY <1>6, <2>2
  <2>4. Runs' /\ os' = "TLS_ESTABLISHED"
    BY <1>1, <2>2, <2>3, BeginRuns
  <2> QED
    BY <2>1, <2>4 DEF Counted, SessionIsShared
<1> QED
  BY <1>2, <1>4, <1>5, <1>6 DEF Enter

-----------------------------------------------------------------------------
(* The steps of the system *)

\* Where the list is.
LEMMA Bounds ==
  ASSUME IInv, Runs, os \in Before
  PROVE  /\ Await \in 1 .. 21 /\ End \in {20, 21}
         /\ io = "out" /\ os # "REQUEST_TLS" => Await \in 1 .. 20 /\ End = 20
<1>1. /\ init_idx \in 1 .. 11
      /\ os \in {"DRAIN", "DRAIN_AFTER_HEALTH", "INIT_DRAIN"} => x.send = FALSE
      /\ os = "INIT_STEP" => x.reply = vendor_init_pre_tls[init_idx].reply
  BY RunningIs
<1>2. /\ First[init_idx] \in 1 .. 20 /\ First[init_idx + 1] \in 1 .. 21
      /\ os = "INIT_STEP" /\ x.reply = AckData => First[init_idx + 1] = First[init_idx] + 2
  <2>1. AckData # {} /\ AckData # {"ACK"} /\ AckData # {"DATA"}
    BY DEF AckData
  <2> QED
    BY <1>1, <2>1, InitReplies
<1>3. os = "INIT_STEP" => First[init_idx] + Acked \in 1 .. 20
  BY <1>2 DEF Acked
<1>4. Acked \in {0, 1}
  BY DEF Acked
<1>5. io = "out" => x.send /\ os \in {"HEALTH", "INIT_STEP", "REQUEST_TLS"}
  BY <1>1 DEF Runs, Before
<1> QED
  BY <1>2, <1>3, <1>4, <1>5 DEF Await, End, Before

\* A crash of the host leaves no machine behind.
LEMMA CrashInvariant == IInv /\ Crash => IInv'
<1> SUFFICES ASSUME IInv, Crash PROVE IInv'
  OBVIOUS
<1>1. Closed'
  BY NoExchangeType, FirstStep DEF Crash, Stopped, Closed
<1> QED
  BY <1>1, ClosedInvariant, PTL

\* Every other step of the system is one of the driver's, or of the EC alone.
LEMMA SystemIInv == IInv /\ EcTypes /\ [SystemNext]_systemVars => IInv'
<1> SUFFICES ASSUME IInv, EcTypes, [SystemNext]_systemVars PROVE IInv'
  OBVIOUS
<1>1. ASSUME Read PROVE [Next]_vars
  <2>1. Head(inq) \in Packets
    BY <1>1 DEF Read, EcTypes, QueuesOK
  <2>2. Classified(Head(inq)) \in Transfers
    BY <2>1, ClassifiedIs
  <2> QED
    BY <1>1, <2>2 DEF Read, Next, Completion
<1>2. CASE Crash
  BY <1>2, CrashInvariant
<1>3. CASE SendPacket \/ SendEvent \/ PowerCycle \/ UNCHANGED systemVars
  <2>1. [Next]_vars
    BY <1>3 DEF SendPacket, SendEvent, PowerCycle, systemVars
  <2> QED
    BY <2>1, NextInvariant
<1>4. CASE SendCommand \/ SendRecord \/ TimeOut \/ Fail \/ Tick \/ OpenDev \/ CloseDev
  <2>1. [Next]_vars
    BY <1>4 DEF SendCommand, SendRecord, TimeOut, Fail, Tick, OpenDev, CloseDev, Next, Completion,
       WriteDone
  <2> QED
    BY <2>1, NextInvariant
<1> QED
  BY <1>1, <1>2, <1>3, <1>4, NextInvariant DEF SystemNext

\* An open that ends, or has ended.
LEMMA EndedInvariant ==
  ASSUME SInv, IInv', EcTypes', os' = "none", sessionValid' = FALSE, hurt' = hurt,
         ecMode' = "handshake" => NoSign(Unread')
  PROVE  SInv'
<1>1. io' = "none"
  BY DEF IInv, Place
<1>2. Runs'
  BY <1>1, RunsNone
<1>3. Behind' /\ Spared' /\ Counted'
  BY DEF SInv, Behind, Spared, Counted, SessionIsShared, Before, Late
<1> QED
  BY <1>2, <1>3 DEF SInv

\* Nothing that the invariant of the open machine looks at changes.
LEMMA SameHost ==
  ASSUME SInv, IInv', EcTypes', UNCHANGED <<device, machine, tls, ecMode, taken, hurt>>,
         NoSign(Unread) => NoSign(Unread'),
         \A k \in 1 .. 21, n \in {20, 21} : Answers(Unread', k, n) => Answers(Unread, k, n)
  PROVE  SInv'
<1>1. Runs' /\ Spared' /\ Counted'
  BY DEF SInv, Runs, Spared, Counted, SessionIsShared, device, machine
<1>2. Behind'
  <2> SUFFICES ASSUME os' \in Before PROVE ~Answers(Unread', Await', End')
    BY DEF Behind
  <2>1. os \in Before /\ Await' = Await /\ End' = End
    BY DEF machine, Await, End, Acked
  <2>2. Await \in 1 .. 21 /\ End \in {20, 21} /\ ~Answers(Unread, Await, End)
    BY <2>1, Bounds DEF SInv, Behind
  <2> QED
    BY <2>1, <2>2
<1> QED
  BY <1>1, <1>2 DEF SInv

\* The steps of the EC alone.
LEMMA EcInvariant ==
  ASSUME SInv, IInv', SendPacket \/ SendEvent \/ PowerCycle
  PROVE  SInv'
<1>1. CASE SendPacket
  <2>1. QueuesOK' /\ Unread' = Unread
    BY <1>1, Sent DEF SInv, EcTypes, SendPacket
  <2>2. UNCHANGED <<device, machine, tls, ecMode, taken, hurt>>
    BY <1>1 DEF SendPacket, vars, handshake
  <2>3. EcTypes'
    BY <2>1, <2>2 DEF SInv, EcTypes
  <2> QED
    BY <2>1, <2>2, <2>3, SameHost
<1>2. CASE SendEvent
  <2>1. /\ QueuesOK'
        /\ NoSign(Unread) => NoSign(Unread')
        /\ \A k \in 1 .. 21, n \in {20, 21} : Answers(Unread', k, n) => Answers(Unread, k, n)
    BY <1>2, EventComes DEF SInv, EcTypes, SendEvent
  <2>2. UNCHANGED <<device, machine, tls, ecMode, taken, hurt>>
    BY <1>2 DEF SendEvent, vars, handshake
  <2>3. EcTypes'
    BY <2>1, <2>2 DEF SInv, EcTypes
  <2> QED
    BY <2>1, <2>2, <2>3, SameHost
<1>3. CASE PowerCycle
  <2>1. /\ inq' = << >> /\ owes' = << >> /\ ecMode' = "idle" /\ taken' = 0 /\ hurt' = hurt
        /\ phase = "closed" /\ UNCHANGED vars
    BY <1>3 DEF PowerCycle
  <2>2. EcTypes'
    BY <2>1 DEF EcTypes, QueuesOK
  <2>3. os' = "none" /\ sessionValid' = FALSE
    BY <2>1 DEF SInv, IInv, Place, Holds, vars, device, machine
  <2> QED
    BY <2>1, <2>2, <2>3, EndedInvariant
<1> QED
  BY <1>1, <1>2, <1>3

\* The steps of the host that say nothing to the EC.
LEMMA SilentInvariant ==
  ASSUME SInv, IInv', TimeOut \/ Fail \/ Tick \/ OpenDev \/ CloseDev
  PROVE  SInv'
<1>1. UNCHANGED ec /\ EcTypes' /\ Unread' = Unread
  BY DEF TimeOut, Fail, Tick, OpenDev, CloseDev, ec, SInv, EcTypes, QueuesOK, Unread
<1>2. UNCHANGED <<ecMode, taken, hurt>> /\ (ecMode' = "handshake" => NoSign(Unread'))
  BY <1>1 DEF ec, SInv, Spared
<1>3. CASE OpenFails
  <2>1. os' = "none" /\ sessionValid' = FALSE
    BY <1>3 DEF OpenFails, Stopped
  <2> QED
    BY <1>1, <1>2, <2>1, EndedInvariant
<1>4. CASE TimeOut
  <2>1. ReadTimesOut /\ io = "in" /\ os # "none" /\ UNCHANGED rested
    BY <1>4 DEF TimeOut, ReadTimesOut, SInv, IInv, Place
  <2>2. CASE os \in Before
    <3>1. CASE /\ Runs' /\ os' \in Before /\ UNCHANGED device
               /\ End' = End /\ Await' = Await /\ (os' \in Late => os \in Late)
      <4>1. Behind' /\ Spared'
        BY <1>1, <1>2, <2>2, <3>1 DEF SInv, Behind, Spared
      <4>2. sessionValid = FALSE
        BY <2>1, Opening DEF SInv, IInv, Holds
      <4>3. Counted'
        BY <3>1, <4>2 DEF Counted, SessionIsShared, Before, device
      <4> QED
        BY <1>1, <3>1, <4>1, <4>3 DEF SInv
    <3> QED
      BY <1>3, <2>1, <2>2, <3>1, TimeOutMoves DEF SInv
  <2>3. CASE os \in After
    <3>1. Runs' /\ os' \in After \cup {"none"}
      BY <2>1, <2>3, AfterMoves DEF ReadTimesOut, SInv, After
    <3>2. Behind' /\ Spared' /\ Counted'
      BY <1>2, <2>3, <3>1 DEF SInv, Behind, Spared, Counted, SessionIsShared, Before, After, Late
    <3> QED
      BY <1>1, <3>1, <3>2 DEF SInv
  <2>4. CASE os = "HANDSHAKE"
    <3>1. Enter(hs, tls, gap) /\ hs \in HandshakeStates /\ Sound(tls)
      BY <2>1, <2>4, Opening DEF ReadTimesOut, SInv, IInv, TypeOK, Place
    <3>2. hs = "HS_SETTLE" => tls.fed = 4 /\ tls.out = 0
      BY DEF SInv, IInv, Server
    <3>3. taken' = Drawn(tls) - tls.out /\ ecMode' = Mode(taken')
      BY <1>2, <2>1, <2>4, <3>1 DEF SInv, Counted, Sound, TlsStates, Drawn
    <3>4. Runs' /\ os' \in {"none", "HANDSHAKE", "TLS_ESTABLISHED"} /\ Counted'
      BY <2>1, <3>1, <3>2, <3>3, EnterMoves DEF SInv
    <3>5. Behind' /\ Spared'
      BY <1>2, <3>4 DEF SInv, Behind, Spared, Before, Late
    <3> QED
      BY <1>1, <3>4, <3>5 DEF SInv
  <2> QED
    BY <2>1, <2>2, <2>3, <2>4, Opening DEF SInv
<1>5. CASE Fail
  BY <1>3, <1>5 DEF Fail, TransferFails
<1>6. CASE Tick
  <2>1. CASE ListenExpires
    <3>1. /\ x.listen = "open" /\ x' = [x EXCEPT !.listen = "over"]
          /\ UNCHANGED <<device, os, init_idx, hs, io, handshake>>
      BY <2>1 DEF ListenExpires
    <3>2. x'.send = x.send /\ x'.reply = x.reply
      BY <3>1 DEF SInv, IInv, TypeOK, Exchanges
    <3>3. os \notin Before
      BY <3>1 DEF SInv, Runs
    <3>4. os' \notin Before /\ Runs'
      BY <3>1, <3>2, <3>3 DEF SInv, Runs
    <3>5. Behind' /\ Spared' /\ Counted'
      BY <1>2, <3>1, <3>4 DEF SInv, Behind, Spared, Counted, SessionIsShared, device, handshake
    <3> QED
      BY <1>1, <3>4, <3>5 DEF SInv
  <2>2. CASE PaceExpires \/ BudgetExpires
    <3>1. UNCHANGED <<device, machine, tls, ecMode, taken, hurt>>
      BY <1>2, <2>2 DEF PaceExpires, BudgetExpires
    <3> QED
      BY <1>1, <3>1, SameHost
  <2> QED
    BY <1>6, <2>1, <2>2 DEF Tick, Time
<1>7. CASE OpenDev
  <2>1. /\ Begin("DRAIN", 1) /\ sessionValid' = FALSE /\ Len(Unread) <= Backlog
    BY <1>7 DEF OpenDev, dev_open, Unread
  <2>2. Runs' /\ os' = "DRAIN"
    <3>1. PICK s \in Before \cup After, i \in 1 .. 11 : s = "DRAIN" /\ i = 1
      BY DEF Before
    <3>2. Begin(s, i)
      BY <2>1, <3>1
    <3> QED
      BY <3>1, <3>2, BeginRuns
  <2>3. Len(Unread) \in Nat
    BY UnreadIs DEF SInv, EcTypes
  <2>4. ~Answers(Unread, 1, 20)
    <3>1. Len(Unread) < 20
      BY <2>1, <2>3, BacklogAssumption
    <3> QED
      BY <2>3, <3>1, TooFewToAnswer
  <2>5. Await' = 1 /\ End' = 20
    BY <2>2 DEF Await, End
  <2>6. Behind'
    BY <1>1, <2>4, <2>5 DEF Behind
  <2>7. Spared' /\ Counted'
    BY <1>2, <2>1, <2>2 DEF SInv, Spared, Counted, SessionIsShared, Late
  <2> QED
    BY <1>1, <2>2, <2>6, <2>7 DEF SInv
<1>8. CASE CloseDev
  <2>1. os' = "none" /\ sessionValid' = FALSE
    BY <1>8 DEF CloseDev, dev_close, machine, SInv, IInv, Place
  <2> QED
    BY <1>1, <1>2, <2>1, EndedInvariant
<1> QED
  BY <1>4, <1>5, <1>6, <1>7, <1>8

\* The host dies in whatever it does.
LEMMA CrashSystem ==
  ASSUME SInv, IInv', Crash
  PROVE  SInv'
<1>1. /\ os' = "none" /\ sessionValid' = FALSE /\ UNCHANGED <<inq, ecMode, taken, hurt>>
      /\ owes' = owes \/ owes' = owes \o <<Record>>
  BY DEF Crash, Stopped
<1>2. <<Record>> \in Seq(Packets) /\ NoSign(<<Record>>)
  BY DEF Record, Packet, Packets, Commands, NoSign
<1>3. QueuesOK' /\ (NoSign(Unread) => NoSign(Unread'))
  <2>1. CASE owes' = owes
    BY <1>1, <2>1 DEF SInv, EcTypes, QueuesOK, Unread
  <2>2. CASE owes' = owes \o <<Record>>
    BY <1>1, <1>2, <2>2, Grown DEF SInv, EcTypes
  <2> QED
    BY <1>1, <2>1, <2>2
<1>4. EcTypes' /\ (ecMode' = "handshake" => NoSign(Unread'))
  BY <1>1, <1>3 DEF SInv, EcTypes, Spared
<1> QED
  BY <1>1, <1>4, EndedInvariant

\* A flight of the EC that is complete draws what the server answers it with.
LEMMA FedDraws ==
  ASSUME NEW s, Sound(s), ~s.done, NEW t \in Transfers, t.rx = "tls",
         Fed(s, t).fed > 1 => s.fed > 0 /\ s.out = 0
  PROVE  Drawn(Fed(s, t)) - Fed(s, t).out = Drawn(s) - s.out
<1>1. t.whole \in 0 .. 2
  BY DEF Transfers
<1>2. s \in TlsStates /\ s.fed \in 0 .. 3 /\ s.out \in 0 .. 2
  BY DEF Sound, TlsStates
<1> DEFINE n == IF s.fed + t.whole < 4 THEN s.fed + t.whole ELSE 4
           more == IF \E e \in FlightEnds : s.fed < e /\ e <= n THEN 2 ELSE 0
<1>3. Fed(s, t).fed = n /\ Fed(s, t).out = s.out + more
  BY <1>2 DEF Fed, TlsStates
<1>4. n \in 0 .. 4 /\ s.fed <= n /\ (n > 1 => s.fed > 0)
  BY <1>1, <1>2, <1>3
<1>5. more = IF (s.fed < 1 /\ 1 <= n) \/ (s.fed < 4 /\ 4 <= n) THEN 2 ELSE 0
  BY DEF FlightEnds
<1> HIDE DEF n, more
<1>6. Drawn(Fed(s, t)) = IF n = 0 THEN 0 ELSE IF n < 4 THEN 2 ELSE 4
  BY <1>3 DEF Drawn
<1>7. Drawn(s) = IF s.fed = 0 THEN 0 ELSE 2
  BY <1>2 DEF Drawn
<1> QED
  BY <1>2, <1>3, <1>4, <1>5, <1>6, <1>7

\* What the host reads.
LEMMA ReadInvariant ==
  ASSUME SInv, IInv', Read
  PROVE  SInv'
<1> DEFINE p == Head(inq)
<1>1. /\ QueuesOK' /\ p \in Packets
      /\ NoSign(Unread) => NoSign(Unread') /\ p # Packet("data", "a8")
      /\ \A k \in 1 .. 21, n \in {20, 21} : Answers(Unread', k, n) => Answers(Unread, k, n)
      /\ \A k \in 1 .. 20, n \in {20, 21} :
           p = Awaited[k] /\ Answers(Unread', k + 1, n) => Answers(Unread, k, n)
  BY HeadRead DEF SInv, EcTypes, Read
<1>2. ReadDone(Classified(p)) /\ UNCHANGED <<ecMode, taken, hurt>>
  BY DEF Read
<1> HIDE DEF p
<1>3. EcTypes'
  BY <1>1, <1>2 DEF SInv, EcTypes
<1>4. CASE OpenFails
  <2>1. os' = "none" /\ sessionValid' = FALSE
    BY <1>4 DEF OpenFails, Stopped
  <2> QED
    BY <1>1, <1>2, <1>3, <2>1, EndedInvariant DEF SInv, Spared
<1>5. CASE os \in Before /\ ExchangeRead(Classified(p))
  <2>1. CASE /\ Runs' /\ os' \in Before /\ UNCHANGED device
             /\ End' = End
             /\ Await' = Await \/ (Await \in 1 .. 20 /\ Await' = Await + 1 /\ p = Awaited[Await])
             /\ os' \in Late => os \in Late \/ p = Packet("data", "a8")
    <3>1. Await \in 1 .. 21 /\ End \in {20, 21} /\ ~Answers(Unread, Await, End)
      BY <1>5, Bounds DEF SInv, Behind
    <3>2. ~Answers(Unread', Await', End')
      <4>1. CASE Await' = Await
        BY <1>1, <2>1, <3>1, <4>1
      <4>2. CASE Await \in 1 .. 20 /\ Await' = Await + 1 /\ p = Awaited[Await]
        BY <1>1, <2>1, <3>1, <4>2
      <4> QED
        BY <2>1, <4>1, <4>2
    <3>3. Spared'
      BY <1>1, <1>2, <2>1 DEF SInv, Spared
    <3>4. sessionValid = FALSE
      BY <1>5, Opening DEF SInv, IInv, Holds, Before
    <3>5. Counted'
      BY <2>1, <3>4 DEF Counted, SessionIsShared, Before, device
    <3> QED
      BY <1>3, <2>1, <3>2, <3>3, <3>5 DEF SInv, Behind
  <2> QED
    BY <1>1, <1>4, <1>5, <2>1, ReadMoves DEF SInv
<1>6. CASE os \in After /\ ExchangeRead(Classified(p))
  <2> DEFINE k == Classified(p).rx
             y == Noted(x, k)
  <2>1. Conclude(Received(x, k), y) /\ y.send = x.send /\ y.reply = x.reply
    <3>1. k \in RxKinds /\ x \in Exchanges
      BY <1>1, ClassifiedIs DEF RxKinds, SInv, IInv, TypeOK
    <3> QED
      BY <1>6, <3>1, NotedType DEF ExchangeRead
  <2> HIDE DEF k, y
  <2>2. Runs' /\ os' \in After \cup {"none"}
    BY <1>6, <2>1, AfterMoves DEF SInv
  <2>3. Behind' /\ Spared' /\ Counted'
    BY <1>1, <1>2, <1>6, <2>2 DEF SInv, Behind, Spared, Counted, SessionIsShared, Before, After, Late
  <2> QED
    BY <1>3, <2>2, <2>3 DEF SInv
<1>7. CASE HandshakeRead(Classified(p))
  <2> DEFINE t == Classified(p)
  <2>1. /\ os = "HANDSHAKE" /\ os # "none" /\ io = "in" /\ hs \in HandshakeStates /\ Sound(tls)
        /\ hs # "none" /\ hs # "HS_WRITE"
    BY <1>7, Opening DEF HandshakeRead, SInv, IInv, TypeOK, Place
  <2>2. t \in Transfers
    BY <1>1, ClassifiedIs
  <2>3. hs = "HS_SETTLE" => tls.fed = 4 /\ tls.out = 0
    BY DEF SInv, IInv, Server
  <2>4. taken = Drawn(tls) - tls.out /\ ecMode = Mode(taken)
    BY <2>1 DEF SInv, Counted, Sound, TlsStates, Drawn
  <2> HIDE DEF t
  <2>5. ASSUME NEW h \in HandshakeStates, NEW s, NEW g, Enter(h, s, g), Sound(s),
               h = "HS_SETTLE" => s.fed = 4 /\ s.out = 0,
               Drawn(s) - s.out = Drawn(tls) - tls.out
        PROVE  SInv'
    <3>1. Runs' /\ os' \in {"none", "HANDSHAKE", "TLS_ESTABLISHED"} /\ Counted'
      BY <1>2, <2>1, <2>4, <2>5, EnterMoves DEF SInv
    <3>2. Behind' /\ Spared'
      BY <1>1, <1>2, <3>1 DEF SInv, Behind, Spared, Before, Late
    <3> QED
      BY <1>3, <3>1, <3>2 DEF SInv
  <2>6. CASE FlightRead(t)
    <3> DEFINE s == Fed(tls, t)
               h == IF hs = "HS_PACE" THEN hs ELSE IF s.partial THEN "HS_READ" ELSE "HS_WRITE"
    <3>1. /\ ~tls.done /\ Enter(h, s, gap) /\ Sound(s) /\ t.rx = "tls"
          /\ s.fed > 1 => tls.fed > 0 /\ tls.out = 0
      BY <2>1, <2>2, <2>6, FedSound DEF FlightRead
    <3>2. h \in HandshakeStates /\ h # "HS_SETTLE"
      BY DEF HandshakeStates
    <3>3. Drawn(s) - s.out = Drawn(tls) - tls.out
      BY <2>1, <2>2, <3>1, FedDraws
    <3> HIDE DEF s, h
    <3> QED
      BY <2>5, <3>1, <3>2, <3>3
  <2>7. CASE LateRecord(t)
    <3>1. ASSUME NEW b \in BOOLEAN, NEW e \in BOOLEAN,
                 Enter(hs, [tls EXCEPT !.partial = b, !.extra = e], gap)
          PROVE  SInv'
      <4> DEFINE s == [tls EXCEPT !.partial = b, !.extra = e]
      <4>1. Sound(s) /\ s.fed = tls.fed /\ s.out = tls.out /\ Drawn(s) = Drawn(tls)
        BY <2>1 DEF Sound, TlsStates, Drawn
      <4> HIDE DEF s
      <4>2. Enter(hs, s, gap)
        BY <3>1 DEF s
      <4> QED
        BY <2>1, <2>3, <2>5, <4>1, <4>2
    <3>2. CASE /\ t.part
               /\ Enter(hs, [tls EXCEPT !.partial = TRUE, !.extra = @ \/ t.whole > 0], gap)
      <4>1. (tls.extra \/ t.whole > 0) \in BOOLEAN
        BY <2>1 DEF Sound, TlsStates
      <4> QED
        BY <3>1, <3>2, <4>1
    <3>3. CASE Enter(hs, [tls EXCEPT !.partial = FALSE], gap)
      <4>1. [tls EXCEPT !.partial = FALSE] = [tls EXCEPT !.partial = FALSE, !.extra = tls.extra]
            /\ tls.extra \in BOOLEAN
        BY <2>1 DEF Sound, TlsStates
      <4> QED
        BY <3>1, <3>3, <4>1
    <3> QED
      BY <1>4, <2>7, <3>2, <3>3 DEF LateRecord
  <2>8. CASE Enter(hs, tls, gap)
    BY <2>1, <2>3, <2>5, <2>8
  <2> QED
    BY <1>4, <1>7, <2>6, <2>7, <2>8 DEF HandshakeRead, t
<1> QED
  <2>1. ExchangeRead(Classified(p)) => os \in Before \cup After
    BY Opening DEF ExchangeRead, SInv, IInv, Place
  <2> QED
    BY <1>2, <1>5, <1>6, <1>7, <2>1 DEF ReadDone

\* What the EC answers a command with; only the last command of an open is
\* answered by what the list ends with.
LEMMA RepliesAre ==
  ASSUME NEW c \in Commands
  PROVE  /\ Replies(c) \in Seq(Packets) /\ Len(Replies(c)) \in 0 .. 2
         /\ c # "90" => \A i \in 1 .. Len(Replies(c)) : Replies(c)[i] # Awaited[20]
         /\ c = "90" => Len(Replies(c)) = 2 /\ Replies(c)[1] # Awaited[20]
         /\ c # "a8" => NoSign(Replies(c))
<1>1. Awaited[20] = Packet("data", "90")
  BY DEF Awaited
<1>2. CASE c = "ae"
  BY <1>1, <1>2 DEF Replies, Packet, Packets, Commands, NoSign
<1>3. CASE c \in {"70", "d4"}
  <2>1. Replies(c) = <<Packet("ack", c)>>
    BY <1>3 DEF Replies
  <2>2. Packet("ack", c) \in Packets
    BY DEF Packet, Packets
  <2>3. Replies(c) \in Seq(Packets) /\ Len(Replies(c)) = 1 /\ Replies(c)[1] = Packet("ack", c)
    BY <2>1, <2>2
  <2>4. Packet("ack", c) # Packet("data", "90") /\ Packet("ack", c) # Packet("data", "a8")
    BY DEF Packet
  <2>5. \A i \in 1 .. 1 : i = 1
    OBVIOUS
  <2> HIDE DEF Replies
  <2> QED
    BY <1>1, <1>3, <2>3, <2>4, <2>5 DEF NoSign
<1>4. CASE c = "96"
  BY <1>1, <1>4 DEF Replies, Packet, Packets, Commands, NoSign
<1>5. CASE c = "d0"
  BY <1>1, <1>5 DEF Replies, Record, Packet, Packets, Commands, NoSign
<1>6. CASE c \notin {"ae", "70", "d4", "96", "d0"}
  <2>1. Replies(c) = <<Packet("ack", c), Packet("data", c)>>
    BY <1>6 DEF Replies
  <2>2. Packet("ack", c) \in Packets /\ Packet("data", c) \in Packets
    BY DEF Packet, Packets
  <2>3. Replies(c) \in Seq(Packets) /\ Len(Replies(c)) = 2
        /\ Replies(c)[1] = Packet("ack", c) /\ Replies(c)[2] = Packet("data", c)
    BY <2>1, <2>2
  <2>4. \A i \in 1 .. 2 : i = 1 \/ i = 2
    OBVIOUS
  <2>5. /\ Packet("ack", c) # Packet("data", "90") /\ Packet("ack", c) # Packet("data", "a8")
        /\ c # "90" => Packet("data", c) # Packet("data", "90")
        /\ c # "a8" => Packet("data", c) # Packet("data", "a8")
    BY DEF Packet
  <2> HIDE DEF Replies
  <2> QED
    BY <1>1, <2>3, <2>4, <2>5 DEF NoSign
<1> QED
  BY <1>2, <1>3, <1>4, <1>5, <1>6

\* Where 0xd0 is sent nothing harmful is unread.
LEMMA NothingHarmful ==
  ASSUME NEW Q, Len(Q) \in Nat, ~Answers(Q, 21, 21), NEW i \in 1 .. Len(Q)
  PROVE  ~Harmful(Q[i])
<1> SUFFICES ASSUME Harmful(Q[i]) PROVE FALSE
  OBVIOUS
<1> DEFINE f == [j \in 21 .. 21 |-> i]
<1>1. f \in [21 .. 21 -> 1 .. Len(Q)]
  OBVIOUS
<1>2. \A j \in 21 .. 21 : Matches(j, Q[f[j]])
  BY DEF Matches
<1>3. \A h, j \in 21 .. 21 : ~(h < j)
  OBVIOUS
<1> HIDE DEF f
<1> QED
  BY <1>1, <1>2, <1>3 DEF Answers

\* A command reaches the EC.
LEMMA SendInvariant ==
  ASSUME SInv, IInv', SendCommand
  PROVE  SInv'
<1>1. /\ os # "HANDSHAKE" /\ os # "none" /\ io = "out" /\ UNCHANGED rested /\ inq' = inq
      /\ TakeCommand(Command) /\ ExchangeWritten
  BY DEF SendCommand, ExchangeWritten, SInv, IInv, Place
<1>2. /\ x.send /\ x.listen = "no" /\ (x.reply = {"TLS"} => os = "REQUEST_TLS")
      /\ init_idx \in 1 .. 11 /\ os \in Before \cup After
      /\ Len(vendor_init_pre_tls) = 11
  <2>1. Len(vendor_init_pre_tls) = 11
    BY DEF vendor_init_pre_tls
  <2> QED
    BY <1>1, <2>1, Opening DEF SInv, IInv, Place, Runs
<1>3. OpenExchange(os, init_idx).send
  BY <1>2 DEF SInv, Runs
<1>4. os \in {"HEALTH", "INIT_STEP", "REQUEST_TLS", "TLS_ESTABLISHED", "MCU_STATE"}
  BY <1>2, <1>3 DEF OpenExchange, start_drain, start_listen, begin_exchange, Before, After
<1>5. CASE os = "REQUEST_TLS"
  <2>1. Command = "d0" /\ ecMode # "handshake" /\ hurt = FALSE
    BY <1>5 DEF Command, SInv, Spared, Late
  <2>2. hurt' = FALSE /\ owes' = owes \o Replies("d0") /\ ecMode' = "handshake" /\ taken' = 0
    BY <1>1, <2>1 DEF TakeCommand
  <2>3. "d0" \in Commands /\ Replies("d0") \in Seq(Packets) /\ NoSign(Replies("d0"))
    <3>1. PICK c \in Commands : c = "d0"
      BY DEF Commands
    <3> QED
      BY <3>1, RepliesAre
  <2>4. QueuesOK' /\ (NoSign(Unread) => NoSign(Unread')) /\ Len(Unread) \in Nat
    BY <1>1, <2>2, <2>3, Grown DEF SInv, EcTypes
  <2>5. NoSign(Unread)
    <3>1. ~Answers(Unread, 21, 21)
      BY <1>5 DEF SInv, Behind, Before, Await, End
    <3>2. \A i \in 1 .. Len(Unread) : ~Harmful(Unread[i])
      BY <2>4, <3>1, NothingHarmful
    <3> QED
      BY <3>2 DEF NoSign, Harmful
  <2>6. Enter("HS_READ", tls, gap)
    <3>1. x.reply = {"TLS"}
      BY <1>5, RunningIs DEF SInv, Before
    <3> QED
      BY <1>1, <3>1 DEF ExchangeWritten, NothingToRead
  <2>7. tls = NewTls /\ Sound(tls) /\ "HS_READ" \in HandshakeStates
    BY <1>5, NewTlsType DEF SInv, IInv, Server, Before, HandshakeStates
  <2>8. Drawn(tls) - tls.out = 0
    <3>1. tls.fed = 0 /\ tls.out = 0
      BY <2>7 DEF NewTls, NoTls
    <3> QED
      BY <3>1 DEF Drawn
  <2>9. taken' = Drawn(tls) - tls.out /\ ecMode' = Mode(taken')
    BY <2>2, <2>8 DEF Mode
  <2>10. Runs' /\ os' \in {"none", "HANDSHAKE", "TLS_ESTABLISHED"} /\ Counted'
    BY <1>1, <2>6, <2>7, <2>9, EnterMoves DEF SInv
  <2>11. EcTypes' /\ Behind' /\ Spared'
    BY <2>2, <2>4, <2>5, <2>10 DEF EcTypes, Behind, Spared, Before, Late
  <2> QED
    BY <2>10, <2>11 DEF SInv
<1>6. CASE os # "REQUEST_TLS"
  <2>1. io' = "in" /\ UNCHANGED <<device, os, init_idx, hs, x, tls, gap, budget>>
    BY <1>1, <1>2, <1>6 DEF ExchangeWritten, NothingToRead
  <2>2. /\ Command \in Commands \ {"d0"}
        /\ os = "HEALTH" => Command = "a8"
        /\ os = "MCU_STATE" => Command = "ae"
        /\ Command = "90" <=> os = "INIT_STEP" /\ init_idx = 11
    BY <1>2, <1>4, <1>6, InitReplies DEF Command, Commands
  <2>3. /\ os \in {"INIT_STEP", "TLS_ESTABLISHED", "MCU_STATE"} => ecMode # "handshake"
    BY DEF SInv, Spared, Counted, SessionIsShared, Late
  <2>4. /\ UNCHANGED <<hurt, ecMode, taken>>
        /\ \/ ecMode = "handshake" /\ os = "HEALTH" /\ owes' = owes
           \/ ecMode # "handshake" /\ owes' = owes \o Replies(Command)
    BY <1>1, <1>4, <1>6, <2>2, <2>3 DEF TakeCommand, SInv, Spared
  <2>5. Runs' /\ os' = os /\ Await' = Await
    BY <1>6, <2>1 DEF SInv, Runs, Await, Acked
  <2>6. Counted'
    BY <1>1, <2>1, <2>4 DEF SInv, Counted, SessionIsShared, device
  <2>7. CASE ecMode = "handshake" /\ os = "HEALTH" /\ owes' = owes
    <3>1. EcTypes' /\ Unread' = Unread
      BY <1>1, <2>4, <2>7 DEF SInv, EcTypes, QueuesOK, Unread
    <3>2. Spared'
      BY <2>4, <2>5, <3>1 DEF SInv, Spared
    <3>3. Behind'
      <4>1. End' = End
        BY <2>1, <2>7 DEF End
      <4> QED
        BY <2>5, <3>1, <4>1 DEF SInv, Behind
    <3> QED
      BY <2>5, <2>6, <3>1, <3>2, <3>3 DEF SInv
  <2>8. CASE owes' = owes \o Replies(Command) /\ ecMode # "handshake"
    <3> DEFINE r == Replies(Command)
    <3>1. /\ r \in Seq(Packets) /\ Len(r) \in 0 .. 2
          /\ Command # "90" => \A i \in 1 .. Len(r) : r[i] # Awaited[20]
          /\ Command = "90" => Len(r) = 2 /\ r[1] # Awaited[20]
      BY <2>2, RepliesAre
    <3> HIDE DEF r
    <3>2. /\ QueuesOK'
          /\ Len(Unread) \in Nat /\ Len(r) \in Nat /\ Len(Unread') = Len(Unread) + Len(r)
          /\ \A i \in 1 .. Len(Unread) : Unread'[i] = Unread[i]
          /\ \A i \in 1 .. Len(r) : Unread'[Len(Unread) + i] = r[i]
      <4>1. owes' = owes \o r
        BY <2>8 DEF r
      <4> QED
        BY <1>1, <3>1, <4>1, Grown DEF SInv, EcTypes
    <3>3. EcTypes' /\ Spared'
      BY <2>4, <2>5, <2>8, <3>2 DEF SInv, EcTypes, Spared
    <3>4. Behind'
      <4> SUFFICES ASSUME os' \in Before, Answers(Unread', Await', End') PROVE FALSE
        BY DEF Behind
      <4>1. /\ os \in Before /\ Await \in 1 .. 20 /\ End = 20
            /\ ~Answers(Unread, Await, 20)
        BY <1>1, <1>6, <2>5, Bounds DEF SInv, Behind
      <4>2. End' = (IF Command = "90" THEN 21 ELSE 20)
        BY <1>6, <2>1, <2>2, <4>1 DEF End, Before
      <4> DEFINE P == Unread'
                 Q == Unread
                 n == End'
                 k == Await
      <4>3. /\ n \in {20, 21} /\ (n = 21 <=> Command = "90")
            /\ k \in 1 .. 20 /\ Answers(P, k, n) /\ ~Answers(Q, k, 20)
        BY <2>5, <4>1, <4>2
      <4>4. /\ Len(Q) \in Nat /\ Len(r) \in Nat /\ Len(P) = Len(Q) + Len(r)
            /\ \A i \in 1 .. Len(Q) : Q[i] = P[i]
            /\ \A i \in 1 .. Len(r) : P[Len(Q) + i] = r[i]
        BY <3>2
      <4> HIDE DEF P, Q, n, k
      <4>5. ASSUME NEW i \in 1 .. Len(P), i > Len(Q)
            PROVE  P[i] # Awaited[20] \/ (n = 21 /\ i = Len(P))
        <5> DEFINE j == i - Len(Q)
        <5>1. j \in 1 .. Len(r) /\ i = Len(Q) + j
          BY <4>4, <4>5
        <5> HIDE DEF j
        <5>2. P[i] = r[j]
          BY <4>4, <5>1
        <5>3. CASE Command = "90"
          <6>1. Len(r) = 2 /\ r[1] # Awaited[20]
            BY <3>1, <5>3
          <6>2. CASE j = 1
            BY <5>2, <6>1, <6>2
          <6>3. CASE j = 2
            BY <4>3, <4>4, <5>1, <5>3, <6>1, <6>3
          <6> QED
            BY <5>1, <6>1, <6>2, <6>3
        <5>4. CASE Command # "90"
          BY <3>1, <5>1, <5>2, <5>4
        <5> QED
          BY <5>3, <5>4
      <4>6. Len(P) \in Nat /\ Len(Q) <= Len(P)
        BY <4>4
      <4>7. Answers(Q, k, 20)
        BY <4>3, <4>4, <4>5, <4>6, MoreAnswer
      <4> QED
        BY <4>3, <4>7
    <3> QED
      BY <2>5, <2>6, <3>3, <3>4 DEF SInv
  <2> QED
    BY <2>4, <2>7, <2>8
<1> QED
  BY <1>5, <1>6

\* A host record reaches the EC.
LEMMA RecordInvariant ==
  ASSUME SInv, IInv', SendRecord
  PROVE  SInv'
<1>1. /\ os = "HANDSHAKE" /\ os # "none" /\ io = "out" /\ inq' = inq
      /\ \/ tls.out > 0 /\ Enter("HS_PACE", tls, "open")
         \/ ~(tls.out > 0) /\ Enter("HS_WRITE", tls, gap)
      /\ Sound(tls)
  BY Opening DEF SendRecord, RecordWritten, SInv
<1>2. taken = Drawn(tls) - tls.out - 1 /\ Drawn(tls) \in Int /\ tls.out \in Int
  BY <1>1 DEF SInv, Counted, Drawn, Sound, TlsStates
<1>3. /\ taken' = taken + 1 /\ hurt' = hurt
      /\ ecMode' = Mode(taken')
      /\ owes' = owes \/ owes' = owes \o <<Record, Record, Record>>
  <2>1. taken \in Int /\ taken <= 3 /\ ecMode = Mode(taken)
    BY <1>1, <1>2 DEF SInv, Counted, EcTypes, Drawn, Sound, TlsStates
  <2> QED
    BY <2>1 DEF SendRecord, TakeRecord, Mode
<1>4. taken' = Drawn(tls) - tls.out
  BY <1>2, <1>3
<1>5. "HS_PACE" \in HandshakeStates /\ "HS_WRITE" \in HandshakeStates
  BY DEF HandshakeStates
<1>6. Runs' /\ os' \in {"none", "HANDSHAKE", "TLS_ESTABLISHED"} /\ Counted'
  <2>1. CASE Enter("HS_PACE", tls, "open")
    BY <1>1, <1>3, <1>4, <1>5, <2>1, EnterMoves DEF SInv
  <2>2. CASE Enter("HS_WRITE", tls, gap)
    BY <1>1, <1>3, <1>4, <1>5, <2>2, EnterMoves DEF SInv
  <2> QED
    BY <1>1, <2>1, <2>2
<1>7. QueuesOK' /\ (NoSign(Unread) => NoSign(Unread'))
  <2>1. CASE owes' = owes
    BY <1>1, <2>1 DEF SInv, EcTypes, QueuesOK, Unread
  <2>2. CASE owes' = owes \o <<Record, Record, Record>>
    <3>1. <<Record, Record, Record>> \in Seq(Packets) /\ NoSign(<<Record, Record, Record>>)
      <4>1. Record \in Packets /\ Record # Packet("data", "a8")
        BY DEF Record, Packet, Packets, Commands
      <4> HIDE DEF Record
      <4> QED
        BY <4>1 DEF NoSign
    <3> QED
      BY <1>1, <2>2, <3>1, Grown DEF SInv, EcTypes
  <2> QED
    BY <1>3, <2>1, <2>2
<1>8. NoSign(Unread)
  <2>1. taken # 4 /\ ecMode = "handshake"
    BY <1>1, <1>2 DEF SInv, Counted, Mode, EcTypes, Drawn, Sound, TlsStates
  <2> QED
    BY <2>1 DEF SInv, Spared
<1>9. EcTypes' /\ Behind' /\ Spared'
  BY <1>3, <1>6, <1>7, <1>8 DEF SInv, EcTypes, Behind, Spared, Before, Late, Mode
<1> QED
  BY <1>6, <1>9 DEF SInv

-----------------------------------------------------------------------------
(* The theorems *)

\* At first nothing is unread and the EC is idle.
LEMMA SystemInitInvariant == SystemInit => SInv
<1> SUFFICES ASSUME SystemInit PROVE SInv
  OBVIOUS
<1>1. IInv
  BY InitInvariant DEF SystemInit
<1>2. EcTypes /\ Runs /\ Behind /\ Spared /\ Counted
  BY DEF SystemInit, Init, EcTypes, QueuesOK, Runs, Behind, Spared, Counted, SessionIsShared,
     Before, After, Late
<1> QED
  BY <1>1, <1>2 DEF SInv

\* Every step of the system preserves the invariant.
LEMMA SystemNextInvariant == SInv /\ [SystemNext]_systemVars => SInv'
<1> SUFFICES ASSUME SInv, [SystemNext]_systemVars PROVE SInv'
  OBVIOUS
<1>1. IInv'
  BY SystemIInv DEF SInv
<1>2. CASE UNCHANGED systemVars
  <2>1. UNCHANGED <<device, machine, tls, ecMode, taken, hurt, inq, owes>>
    BY <1>2 DEF systemVars, vars, handshake, ec
  <2>2. EcTypes' /\ Unread' = Unread
    BY <2>1 DEF SInv, EcTypes, QueuesOK, Unread
  <2> QED
    BY <1>1, <2>1, <2>2, SameHost
<1> QED
  BY <1>1, <1>2, EcInvariant, SilentInvariant, CrashSystem, ReadInvariant, SendInvariant,
     RecordInvariant DEF SystemNext

\* The strengthening holds in every reachable state of the host and the EC.
THEOREM SystemInvariant == SystemSpec => []SInv
BY SystemInitInvariant, SystemNextInvariant, PTL DEF SystemSpec

\* No command but the health check reaches an EC inside a handshake that is not
\* the host's own, whatever crashes leave behind and however late answers come.
THEOREM SystemStuckECIsSpared == SystemSpec => []StuckECIsSpared
<1>1. SInv => StuckECIsSpared BY DEF SInv, Spared, StuckECIsSpared
<1> QED BY <1>1, SystemInvariant, PTL

\* 0xd0 is sent with no TLS record of an earlier session unread or still to come.
THEOREM SystemNoRecordOfAnEarlierSession == SystemSpec => []NoRecordOfAnEarlierSession
<1>1. SInv => NoRecordOfAnEarlierSession
  <2> SUFFICES ASSUME SInv, os = "REQUEST_TLS"
               PROVE  \A q \in {inq, owes} : \A i \in DOMAIN q : q[i].kind # "tls"
    BY DEF NoRecordOfAnEarlierSession
  <2>1. ~Answers(Unread, 21, 21)
    BY DEF SInv, Behind, Before, Await, End
  <2>2. /\ Len(Unread) = Len(inq) + Len(owes) /\ Len(inq) \in Nat /\ Len(owes) \in Nat
        /\ \A i \in 1 .. Len(inq) : Unread[i] = inq[i]
        /\ \A i \in 1 .. Len(owes) : Unread[Len(inq) + i] = owes[i]
        /\ DOMAIN inq = 1 .. Len(inq) /\ DOMAIN owes = 1 .. Len(owes)
    BY UnreadIs DEF SInv, EcTypes, QueuesOK
  <2> DEFINE u == Unread
             a == Len(inq)
             b == Len(owes)
  <2> HIDE DEF u, a, b
  <2>3. \A i \in 1 .. a + b : u[i].kind # "tls"
    <3>1. Len(u) = a + b /\ a + b \in Nat /\ ~Answers(u, 21, 21)
      BY <2>1, <2>2 DEF u, a, b
    <3> QED
      BY <3>1, NothingHarmful DEF Harmful
  <2>4. \A i \in 1 .. a : inq[i].kind # "tls"
    BY <2>2, <2>3 DEF u, a, b
  <2>5. \A i \in 1 .. b : owes[i].kind # "tls"
    <3> SUFFICES ASSUME NEW i \in 1 .. b PROVE owes[i].kind # "tls"
      OBVIOUS
    <3>1. a + i \in 1 .. a + b /\ u[a + i] = owes[i]
      BY <2>2 DEF u, a, b
    <3> QED
      BY <2>3, <3>1
  <2> QED
    BY <2>2, <2>4, <2>5 DEF a, b
<1> QED BY <1>1, SystemInvariant, PTL

\* Wherever the host holds a session, or tells of one, the EC has finished that handshake.
THEOREM SystemSessionIsShared == SystemSpec => []SessionIsShared
<1>1. SInv => SessionIsShared BY DEF SInv, Counted
<1> QED BY <1>1, SystemInvariant, PTL
================================================================================
