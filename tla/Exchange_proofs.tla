--------------------------- MODULE Exchange_proofs ---------------------------
(***************************************************************************)
(* Every safety property of Exchange, for every value of the two read      *)
(* limits.  None of them is inductive alone: what a completed exchange has *)
(* heard (Contract) rests on what it remembered on the way, on the shapes  *)
(* of the exchanges the driver begins and on a read being submitted only   *)
(* by an exchange that has something to read.                              *)
(***************************************************************************)
EXTENDS Exchange, TLAPS

\* A transfer changes only what the exchange remembers, and keeps its type.
LEMMA NotedType ==
  ASSUME NEW y \in Exchanges, NEW k \in RxKinds
  PROVE  /\ Noted(y, k) \in Exchanges
         /\ Noted(y, k).send = y.send
         /\ Noted(y, k).reply = y.reply
         /\ Noted(y, k).listen = y.listen
         /\ Noted(y, k).gotAck = (y.gotAck \/ (y.send /\ k = "ack"))
         /\ Noted(y, k).gotTls = (y.gotTls \/ (WantsTls(y) /\ k = "tls"))
<1>1. /\ y.gotAck \in BOOLEAN /\ y.gotTls \in BOOLEAN /\ y.send \in BOOLEAN
      /\ y.reads + 1 \in Nat /\ y.reply \in Reply /\ y.listen \in Listen
  BY DEF Exchanges
<1> DEFINE a == y.gotAck \/ (y.send /\ k = "ack")
           b == y.gotTls \/ (WantsTls(y) /\ k = "tls")
<1>2. a \in BOOLEAN /\ b \in BOOLEAN
  BY <1>1 DEF WantsTls
<1>3. Noted(y, k) = [y EXCEPT !.gotAck = a, !.gotTls = b, !.reads = y.reads + 1]
  BY DEF Noted
<1> HIDE DEF a, b
<1>4. Noted(y, k) = [send |-> y.send, reply |-> y.reply, listen |-> y.listen,
                     gotAck |-> a, gotTls |-> b, reads |-> y.reads + 1]
  BY <1>3 DEF Exchanges
<1>5. Noted(y, k) \in Exchanges
  BY <1>1, <1>2, <1>4 DEF Exchanges
<1> QED
  BY <1>4, <1>5 DEF a, b


\* The exchanges the driver begins: a listen or a drain sends nothing and waits
\* for no reply, and no command draws both a data reply and a TLS record.
Shape ==
  /\ x.send => x.listen = "no" /\ ~({"DATA", "TLS"} \subseteq x.reply)
  /\ ~x.send => x.reply = {}
  /\ pc = "reading" => x.reply # {"TLS"}

\* Nothing is heard before the command is out.
Fresh == pc = "sending" => x.send /\ heard = {} /\ ~x.gotAck /\ ~x.gotTls

IInv ==
  /\ TypeOK /\ Shape /\ Fresh
  /\ Contract /\ MemoryIsFaithful /\ NoRecordLostWhileListening

\* The driver's exchanges begin with nothing remembered and in the shapes above.
LEMMA ContractShapes ==
  ASSUME NEW y \in Contracts
  PROVE  /\ y \in Exchanges
         /\ y.listen \in {"no", "open"}
         /\ y.send => y.listen = "no" /\ ~({"DATA", "TLS"} \subseteq y.reply)
         /\ ~y.send => y.reply = {}
         /\ ~y.gotAck /\ ~y.gotTls
<1>1. CASE y \in {start_drain, start_listen}
  <2>1. PICK l \in {"no", "open"} :
          y = [send |-> FALSE, reply |-> {}, listen |-> l,
               gotAck |-> FALSE, gotTls |-> FALSE, reads |-> 0]
    BY <1>1 DEF start_drain, start_listen, begin_exchange
  <2>2. {} \in Reply
    BY DEF Reply
  <2> QED
    BY <2>1, <2>2 DEF Exchanges, Listen
<1>2. CASE \E r \in {{}, {"ACK"}, {"DATA"}, {"ACK", "DATA"}, {"TLS"}, {"ACK", "TLS"}} :
             y = start_exchange(r)
  <2>1. PICK r \in {{}, {"ACK"}, {"DATA"}, {"ACK", "DATA"}, {"TLS"}, {"ACK", "TLS"}} :
          y = start_exchange(r)
    BY <1>2
  <2>2. r \in Reply /\ ~({"DATA", "TLS"} \subseteq r)
    BY DEF Reply
  <2>3. y = [send |-> TRUE, reply |-> r, listen |-> "no",
             gotAck |-> FALSE, gotTls |-> FALSE, reads |-> 0]
    BY <2>1 DEF start_exchange, begin_exchange
  <2> QED
    BY <2>2, <2>3 DEF Exchanges, Listen
<1> QED
  BY <1>1, <1>2 DEF Contracts

\* The initial state satisfies the invariant.
LEMMA InitInvariant == Init => IInv
BY DEF Init, IInv, TypeOK, Shape, Fresh, Contract, MemoryIsFaithful, NoRecordLostWhileListening,
       start_drain, begin_exchange, Exchanges, Reply, Listen, RxKinds, WantsData, IsTls

\* A transfer that is read preserves it: the heart of the argument.
LEMMA ReceiveInvariant == IInv /\ Receive => IInv'
<1> SUFFICES ASSUME IInv, Receive PROVE IInv'
  OBVIOUS
<1>1. PICK k \in RxKinds : /\ Conclude(Received(x, k), Noted(x, k))
                           /\ heard' = heard \cup {k}
                           /\ last' = k
  BY DEF Receive
<1>2. /\ pc = "reading" /\ x \in Exchanges /\ heard \in SUBSET RxKinds
      /\ Shape /\ Contract /\ MemoryIsFaithful /\ NoRecordLostWhileListening
  BY DEF Receive, IInv, TypeOK
<1>3. /\ x' = Noted(x, k)
      /\ x' \in Exchanges /\ x'.send = x.send /\ x'.reply = x.reply /\ x'.listen = x.listen
      /\ x'.gotAck = (x.gotAck \/ (x.send /\ k = "ack"))
      /\ x'.gotTls = (x.gotTls \/ (WantsTls(x) /\ k = "tls"))
  BY <1>1, <1>2, NotedType DEF Conclude
<1>4. /\ pc' \in {"reading", "ok", "failed"}
      /\ pc' = "reading" => ~Refuses(x, k) /\ ~Satisfies(x, k)
      /\ pc' = "ok" => /\ ~Refuses(x, k)
                       /\ Satisfies(x, k) \/ x.reply = {} \/ x.listen = "over"
      /\ Refuses(x, k) => pc' = "failed"
  BY <1>1, <1>2, <1>3 DEF Conclude, Received, EnterRecv, NothingToRead, Shape
<1>5. TypeOK'
  BY <1>1, <1>2, <1>3, <1>4 DEF TypeOK
<1>6. Shape'
  BY <1>2, <1>3 DEF Shape
<1>7. Fresh'
  BY <1>4 DEF Fresh
<1>8. Contract'
  <2>1. x.send /\ "nack" \in heard' => pc' = "failed"
    BY <1>1, <1>2, <1>4 DEF Contract, Refuses
  <2>2. ASSUME pc' = "ok", x.send
        PROVE  /\ "ACK" \in x.reply => "ack" \in heard'
               /\ "DATA" \in x.reply => last' = "data"
               /\ "TLS" \in x.reply => "tls" \in heard'
    <3>1. Satisfies(x, k) \/ x.reply = {}
      BY <1>2, <1>4, <2>2 DEF Shape
    <3> QED
      BY <1>1, <1>2, <2>2, <3>1
         DEF Satisfies, MemoryIsFaithful, Shape, WantsData, WantsTls, Exchanges, Reply
  <2> QED
    BY <1>3, <2>1, <2>2 DEF Contract
<1>9. MemoryIsFaithful'
  <2> SUFFICES ASSUME pc' = "reading"
               PROVE  /\ x'.gotAck => "ack" \in heard'
                      /\ x'.send /\ "ack" \in heard' => x'.gotAck
                      /\ x'.gotTls => "tls" \in heard'
                      /\ WantsData(x)' /\ "ACK" \in x'.reply /\ ~x'.gotAck
                           => ~(heard' \cap {"data", "baddata"} # {})
    BY DEF MemoryIsFaithful
  <2>1. x'.gotAck => "ack" \in heard'
    BY <1>1, <1>2, <1>3 DEF MemoryIsFaithful
  <2>2. x'.send /\ "ack" \in heard' => x'.gotAck
    BY <1>1, <1>2, <1>3 DEF MemoryIsFaithful
  <2>3. x'.gotTls => "tls" \in heard'
    BY <1>1, <1>2, <1>3 DEF MemoryIsFaithful
  <2>4. ASSUME WantsData(x)', "ACK" \in x'.reply, ~x'.gotAck
        PROVE  heard' \cap {"data", "baddata"} = {}
    <3>1. WantsData(x) /\ "ACK" \in x.reply /\ ~x.gotAck
      BY <1>3, <2>4 DEF WantsData
    <3>2. heard \cap {"data", "baddata"} = {}
      BY <1>2, <3>1 DEF MemoryIsFaithful
    <3>3. ~IsData(k)
      BY <1>4, <3>1 DEF Refuses
    <3> QED
      BY <1>1, <3>2, <3>3 DEF IsData
  <2> QED
    BY <2>1, <2>2, <2>3, <2>4
<1>10. NoRecordLostWhileListening'
  BY <1>1, <1>2, <1>3, <1>4 DEF NoRecordLostWhileListening, Refuses, Shape, WantsTls
<1> QED
  BY <1>5, <1>6, <1>7, <1>8, <1>9, <1>10 DEF IInv

\* Every step preserves it.
LEMMA NextInvariant == IInv /\ [Next]_vars => IInv'
<1> SUFFICES ASSUME IInv, [Next]_vars PROVE IInv'
  OBVIOUS
<1> USE DEF IInv
<1>1. CASE Begin
  <2>1. PICK y \in Contracts :
          /\ x' = y /\ heard' = {} /\ last' = "none"
          /\ IF y.send THEN pc' = "sending" ELSE EnterRecv(y)
    BY <1>1 DEF Begin
  <2>2. /\ y \in Exchanges
        /\ y.send => y.listen = "no" /\ ~({"DATA", "TLS"} \subseteq y.reply)
        /\ ~y.send => y.reply = {}
        /\ ~y.gotAck /\ ~y.gotTls
        /\ y.listen # "over"
    BY ContractShapes
  <2>3. pc' = IF y.send THEN "sending" ELSE "reading"
    BY <2>1, <2>2 DEF EnterRecv, NothingToRead
  <2> QED
    BY <2>1, <2>2, <2>3 DEF TypeOK, Shape, Fresh, Contract, MemoryIsFaithful,
       NoRecordLostWhileListening, IsTls
<1>2. CASE SendFails
  BY <1>2 DEF SendFails, TypeOK, Shape, Fresh, Contract, MemoryIsFaithful,
     NoRecordLostWhileListening
<1>3. CASE SendDone
  <2>1. /\ UNCHANGED <<x, heard, last>> /\ heard = {}
        /\ pc' = IF NothingToRead(x) THEN "ok" ELSE "reading"
    BY <1>3 DEF SendDone, EnterRecv, Fresh
  <2>2. x.listen = "no"
    BY <1>3 DEF SendDone, Fresh, Shape
  <2> QED
    BY <1>3, <2>1, <2>2 DEF SendDone, NothingToRead, TypeOK, Shape, Fresh, Contract,
       MemoryIsFaithful, NoRecordLostWhileListening
<1>4. CASE Receive
  BY <1>4, ReceiveInvariant
<1>5. CASE ReadTimesOut
  <2>1. x' = x /\ heard' = heard /\ last' = "quiet" /\ pc = "reading"
    BY <1>5 DEF ReadTimesOut, Conclude
  <2>2. /\ pc' \in {"reading", "ok", "failed"}
        /\ pc' = "ok" => x.reply = {} \/ x.listen = "over"
    BY <1>5, <2>1 DEF ReadTimesOut, Conclude, TimedOut, EnterRecv, NothingToRead, Shape
  <2>3. pc' = "ok" /\ x.send => x.reply = {}
    BY <2>2 DEF Shape
  <2> QED
    BY <2>1, <2>2, <2>3 DEF TypeOK, Shape, Fresh, Contract, MemoryIsFaithful,
       NoRecordLostWhileListening
<1>6. CASE ReadFails
  BY <1>6 DEF ReadFails, TypeOK, Shape, Fresh, Contract, MemoryIsFaithful,
     NoRecordLostWhileListening
<1>7. CASE ListenExpires
  <2>1. /\ x' = [x EXCEPT !.listen = "over"] /\ UNCHANGED <<pc, heard, last>>
        /\ pc = "reading" /\ x.listen = "open"
    BY <1>7 DEF ListenExpires
  <2>2. /\ x' \in Exchanges /\ x'.send = x.send /\ x'.reply = x.reply
        /\ x'.gotAck = x.gotAck /\ x'.gotTls = x.gotTls
    BY <2>1 DEF TypeOK, Exchanges, Listen
  <2>3. ~x.send
    BY <2>1 DEF Shape
  <2> QED
    BY <2>1, <2>2, <2>3 DEF TypeOK, Shape, Fresh, Contract, MemoryIsFaithful,
       NoRecordLostWhileListening, WantsData
<1>8. CASE UNCHANGED vars
  BY <1>8 DEF vars, TypeOK, Shape, Fresh, Contract, MemoryIsFaithful,
     NoRecordLostWhileListening, WantsData
<1> QED
  BY <1>1, <1>2, <1>3, <1>4, <1>5, <1>6, <1>7, <1>8 DEF Next

\* The strengthening holds in every reachable state.
THEOREM ExchangeInvariant == Spec => []IInv
BY InitInvariant, NextInvariant, PTL DEF Spec

\* Type correctness.
THEOREM ExchangeTypeOK == Spec => []TypeOK
<1>1. IInv => TypeOK BY DEF IInv
<1> QED BY <1>1, ExchangeInvariant, PTL

\* An exchange succeeds only with every reply it was begun for, and never after
\* the EC refused the command.
THEOREM ExchangeContract == Spec => []Contract
<1>1. IInv => Contract BY DEF IInv
<1> QED BY <1>1, ExchangeInvariant, PTL

\* What an exchange remembers of its transfers is what it has read.
THEOREM ExchangeMemoryIsFaithful == Spec => []MemoryIsFaithful
<1>1. IInv => MemoryIsFaithful BY DEF IInv
<1> QED BY <1>1, ExchangeInvariant, PTL

\* No TLS record of the EC is dropped in the listening window.
THEOREM ExchangeNoRecordLost == Spec => []NoRecordLostWhileListening
<1>1. IInv => NoRecordLostWhileListening BY DEF IInv
<1> QED BY <1>1, ExchangeInvariant, PTL
=============================================================================
