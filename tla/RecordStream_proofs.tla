-------------------------- MODULE RecordStream_proofs --------------------------
(***************************************************************************)
(* The two hosts are of one mind about the wire (ParsersAgree), for every  *)
(* stream of records, message and junk that meets the assumptions, and     *)
(* wherever the stream is cut.                                             *)
(*                                                                         *)
(* First what the operators compute, for any bytes and not only those that *)
(* are sent: checksums, packs, messages, events, arms and frames, each     *)
(* encoder with its decoder and the C codec with the Go one.  Then the     *)
(* records of a stream: SplitTLSRecords finds the one list of records that *)
(* cuts what is seen (Cut), where there is one, and otherwise fails.  Then *)
(* the parser: what it holds between any two of its turns is fixed by the  *)
(* bytes it has taken (Stands), and that is what SplitTLSRecords finds in  *)
(* them.  A fold or a recursion is unrolled by induction over a set of     *)
(* numbers (NatSetInduction).  The inductive invariant says where each     *)
(* byte and each message is on its way (Understood), and that the last arm *)
(* and the thresholds are those of the messages decoded so far (Answered). *)
(***************************************************************************)
EXTENDS RecordStream, WellFoundedInduction, SequenceTheorems, TLAPS

\* Induction over the naturals, with a set for the property.
LEMMA NatSetInduction ==
  ASSUME NEW S, 0 \in S, \A n \in Nat : n \in S => n + 1 \in S
  PROVE  Nat \subseteq S
<1> DEFINE T == Nat \ S
<1> SUFFICES ASSUME T # {} PROVE FALSE
  OBVIOUS
<1>1. PICK x \in T : \A y \in T : <<y, x>> \notin OpToRel(<, Nat)
  BY NatLessThanWellFounded, WFMin, Zenon
<1>2. \A y \in T : ~(y < x)
  BY <1>1 DEF OpToRel
<1>3. x # 0 /\ x - 1 \in Nat /\ x - 1 \notin T
  BY <1>2
<1> QED
  BY <1>3

\* The largest of a set of indices is there, however the library chooses it.
LEMMA MaxOfIndices ==
  ASSUME NEW n \in Nat, NEW s \in SUBSET (1..n), s # {}
  PROVE  Max(s) \in s /\ \A y \in s : y <= Max(s)
<1> DEFINE Good(k) == \A t \in SUBSET (1..k) : t # {} => \E x \in t : \A y \in t : y <= x
           A == {k \in Nat : Good(k)}
<1>1. Good(0)
  <2>1. 1..0 = {}
    OBVIOUS
  <2> QED
    BY <2>1
<1>2. ASSUME NEW k \in Nat, Good(k) PROVE Good(k + 1)
  <2> SUFFICES ASSUME NEW t \in SUBSET (1..(k + 1)), t # {}
               PROVE  \E x \in t : \A y \in t : y <= x
    OBVIOUS
  <2>1. CASE k + 1 \in t
    BY <2>1
  <2>2. CASE k + 1 \notin t
    <3>1. t \in SUBSET (1..k)
      BY <2>2
    <3> QED
      BY <3>1, <1>2
  <2> QED
    BY <2>1, <2>2
<1> HIDE DEF Good
<1>3. 0 \in A /\ \A k \in Nat : k \in A => k + 1 \in A
  BY <1>1, <1>2
<1>4. Good(n)
  <2>1. n \in A
    <3> HIDE DEF A
    <3> QED
      BY <1>3, NatSetInduction
  <2> QED
    BY <2>1
<1>5. \E x \in s : \A y \in s : x >= y
  <2>1. PICK x \in s : \A y \in s : y <= x
    BY <1>4 DEF Good
  <2>2. \A y \in s : x >= y
    BY <2>1
  <2> QED
    BY <2>2
<1>6. Max(s) = CHOOSE x \in s : \A y \in s : x >= y
  BY DEF Max
<1>7. Max(s) \in s /\ \A y \in s : Max(s) >= y
  BY <1>5, <1>6, Zenon
<1> QED
  BY <1>7

\* What the recursion of MapThenFoldSet says of a function, if it folds the indices up to n
\* with a function for each step.
IsFold(g, n, V, base, step) ==
  /\ g \in [SUBSET (1..n) -> V]
  /\ \A s \in SUBSET (1..n) : g[s] = IF s = {} THEN base ELSE step[Max(s)][g[s \ {Max(s)}]]

\* A fold over n elements has a value: the recursion of MapThenFoldSet on the sets of
\* indices, with a function for the step.
LEMMA FoldExists ==
  ASSUME NEW n \in Nat, NEW V, NEW base \in V, NEW step \in [1..n -> [V -> V]]
  PROVE  \E g : IsFold(g, n, V, base, step)
<1> DEFINE Folds(g, k) ==
             /\ g \in [SUBSET (1..k) -> V]
             /\ \A s \in SUBSET (1..k) : g[s] = IF s = {} THEN base ELSE step[Max(s)][g[s \ {Max(s)}]]
           Good(k) == k <= n => \E g : Folds(g, k)
           A == {k \in Nat : Good(k)}
<1>1. Good(0)
  <2> DEFINE g == [s \in SUBSET (1..0) |-> base]
  <2>1. SUBSET (1..0) = {{}}
    OBVIOUS
  <2>2. Folds(g, 0)
    BY <2>1
  <2> QED
    BY <2>2
<1>2. ASSUME NEW k \in Nat, Good(k) PROVE Good(k + 1)
  <2> SUFFICES ASSUME k + 1 <= n PROVE \E g : Folds(g, k + 1)
    OBVIOUS
  <2>1. PICK g : Folds(g, k)
    <3>1. k <= n
      OBVIOUS
    <3> HIDE DEF Folds
    <3> QED
      BY <1>2, <3>1
  <2> DEFINE h == [s \in SUBSET (1..(k + 1)) |-> IF k + 1 \in s THEN step[k + 1][g[s \ {k + 1}]] ELSE g[s]]
  <2>2. \A s \in SUBSET (1..(k + 1)) : s \ {k + 1} \in SUBSET (1..k) /\ (k + 1 \notin s => s \in SUBSET (1..k))
    OBVIOUS
  <2>3. h \in [SUBSET (1..(k + 1)) -> V]
    <3>1. step[k + 1] \in [V -> V]
      OBVIOUS
    <3> QED
      BY <2>1, <2>2, <3>1
  <2>4. ASSUME NEW s \in SUBSET (1..(k + 1))
        PROVE  h[s] = IF s = {} THEN base ELSE step[Max(s)][h[s \ {Max(s)}]]
    <3>1. CASE k + 1 \in s
      <4>1. Max(s) \in s /\ \A y \in s : y <= Max(s)
        <5>1. k + 1 \in Nat /\ s # {}
          BY <3>1
        <5> QED
          BY <5>1, MaxOfIndices
      <4>2. Max(s) = k + 1
        <5>1. Max(s) \in 1..(k + 1) /\ k + 1 <= Max(s)
          BY <3>1, <4>1
        <5> QED
          BY <5>1
      <4>3. h[s \ {k + 1}] = g[s \ {k + 1}] /\ h[s] = step[k + 1][g[s \ {k + 1}]]
        BY <2>2, <3>1
      <4> QED
        BY <3>1, <4>2, <4>3
    <3>2. CASE k + 1 \notin s
      <4>1. s \in SUBSET (1..k) /\ h[s] = g[s]
        BY <3>2, <2>2
      <4>2. \A x : h[s \ {x}] = g[s \ {x}]
        BY <3>2, <4>1
      <4>3. g[s] = IF s = {} THEN base ELSE step[Max(s)][g[s \ {Max(s)}]]
        BY <2>1, <4>1
      <4> QED
        BY <4>1, <4>2, <4>3
    <3> QED
      BY <3>1, <3>2
  <2> HIDE DEF h
  <2>5. Folds(h, k + 1)
    BY <2>3, <2>4
  <2> QED
    BY <2>5
<1> HIDE DEF Good
<1>3. 0 \in A /\ \A k \in Nat : k \in A => k + 1 \in A
  BY <1>1, <1>2
<1>4. Good(n)
  <2>1. n \in A
    <3> HIDE DEF A
    <3> QED
      BY <1>3, NatSetInduction
  <2> QED
    BY <2>1
<1>5. PICK g : Folds(g, n)
  <2>1. n <= n
    OBVIOUS
  <2> HIDE DEF Folds
  <2> QED
    BY <1>4, <2>1 DEF Good
<1>6. IsFold(g, n, V, base, step)
  BY <1>5 DEF IsFold
<1> QED
  BY <1>6

-----------------------------------------------------------------------------
(* Checksums *)

\* The largest index and the ones below it.
LEMMA MaxOfPrefix ==
  ASSUME NEW k \in Nat \ {0}
  PROVE  Max(1..k) = k /\ (1..k) \ {k} = 1..(k - 1) /\ 1..k # {}
<1>1. k \in 1..k /\ k \in Nat
  OBVIOUS
<1>2. Max(1..k) \in 1..k /\ \A y \in 1..k : y <= Max(1..k)
  BY <1>1, MaxOfIndices
<1>3. Max(1..k) = k
  BY <1>1, <1>2
<1>4. (1..k) \ {k} = 1..(k - 1)
  OBVIOUS
<1> QED
  BY <1>1, <1>3, <1>4

\* What a byte holds; the arithmetic of intervals is kept out of the sight of the provers.
Octet == 0..255

\* What is known of a string of bytes.
LEMMA BytesAre ==
  ASSUME NEW b \in ByteStrings
  PROVE  Len(b) \in Nat /\ DOMAIN b = 1..Len(b) /\ \A i \in 1..Len(b) : b[i] \in Octet /\ b[i] \in Nat
<1>1. b \in Seq(0..255)
  BY DEF ByteStrings
<1>2. Len(b) \in Nat /\ DOMAIN b = 1..Len(b)
  BY <1>1, LenProperties
<1>3. \A i \in 1..Len(b) : b[i] \in Octet
  BY <1>1, ElementOfSeq DEF Octet
<1>4. Octet \subseteq Nat
  BY DEF Octet
<1> QED
  BY <1>2, <1>3, <1>4

\* A guint8 sum is a byte.
LEMMA OctetSum ==
  /\ 0 \in Octet
  /\ \A v, w \in Octet : Byte(v + w) \in Octet
  /\ \A v \in Octet : (170 - v) % 256 \in Octet
<1>1. \A v \in Int : v % 256 \in Octet
  BY DEF Octet
<1>2. \A v \in Octet : v \in Int
  BY DEF Octet
<1>3. \A v, w \in Octet : Byte(v + w) \in Octet
  BY <1>1, <1>2 DEF Byte
<1>4. \A v \in Octet : (170 - v) % 256 \in Octet
  BY <1>1, <1>2
<1>5. 0 \in Octet
  BY DEF Octet
<1> QED
  BY <1>3, <1>4, <1>5

\* The library's sum, byte by byte.
LEMMA TotalSteps ==
  ASSUME NEW b \in ByteStrings
  PROVE  \E sum \in [0..Len(b) -> Nat] :
           /\ Total(b) = sum[Len(b)] % 256
           /\ sum[0] = 0
           /\ \A k \in 1..Len(b) : sum[k] = sum[k - 1] + b[k]
<1> DEFINE n == Len(b)
           Turn(iter) == [s \in SUBSET DOMAIN b |-> IF s = {} THEN 0 ELSE LET x == Max(s) IN iter[s \ {x}] + b[x]]
           iter == CHOOSE iter : iter = Turn(iter)
           zero == 0
           step == [i \in 1..n |-> [v \in Nat |-> v + b[i]]]
<1>1. n \in Nat /\ DOMAIN b = 1..n /\ \A i \in 1..n : b[i] \in Octet /\ b[i] \in Nat
  BY BytesAre
<1>2. Total(b) = iter[DOMAIN b] % 256
  BY DEF Total, FoldLeft, MapThenFoldSet
<1>3. step \in [1..n -> [Nat -> Nat]] /\ 0 \in Nat
  BY <1>1
<1>4. PICK g \in [SUBSET (1..n) -> Nat] :
        \A s \in SUBSET (1..n) : g[s] = IF s = {} THEN zero ELSE step[Max(s)][g[s \ {Max(s)}]]
  <2> DEFINE V == Nat
  <2>1. zero \in V /\ n \in Nat /\ step \in [1..n -> [V -> V]]
    BY <1>1, <1>3
  <2>2. \E g : IsFold(g, n, V, zero, step)
    <3> HIDE DEF step, n, zero, V
    <3> QED
      BY <2>1, FoldExists
  <2> QED
    BY <2>2 DEF IsFold
<1>5. g = Turn(g)
  <2>1. ASSUME NEW s \in SUBSET (1..n)
        PROVE  g[s] = IF s = {} THEN 0 ELSE LET x == Max(s) IN g[s \ {x}] + b[x]
    <3>1. s # {} => Max(s) \in 1..n
      BY <1>1, MaxOfIndices
    <3>2. s \ {Max(s)} \in SUBSET (1..n)
      OBVIOUS
    <3>3. s # {} => step[Max(s)][g[s \ {Max(s)}]] = (LET x == Max(s) IN g[s \ {x}] + b[x])
      BY <3>1, <3>2
    <3> HIDE DEF step
    <3> QED
      BY <1>4, <3>3
  <2> QED
    BY <1>1, <2>1
<1>6. iter = Turn(iter)
  <2> HIDE DEF Turn
  <2> QED
    BY <1>5
<1>7. \A s \in SUBSET (1..n) : iter[s] = IF s = {} THEN 0 ELSE LET x == Max(s) IN iter[s \ {x}] + b[x]
  <2> HIDE DEF iter
  <2> QED
    BY <1>1, <1>6
<1> HIDE DEF iter, Turn
<1>8. iter[1..0] = 0
  <2>1. 1..0 = {} /\ {} \in SUBSET (1..n)
    OBVIOUS
  <2> QED
    BY <1>7, <2>1
<1>9. ASSUME NEW k \in 1..n
      PROVE  iter[1..k] = LET x == k IN iter[1..(k - 1)] + b[x]
  <2>1. k \in Nat \ {0} /\ 1..k \in SUBSET (1..n)
    BY <1>1
  <2>2. Max(1..k) = k /\ (1..k) \ {k} = 1..(k - 1) /\ 1..k # {}
    BY <2>1, MaxOfPrefix
  <2> QED
    BY <1>7, <2>1, <2>2
<1> DEFINE A == {k \in Nat : k <= n => iter[1..k] \in Nat}
<1>10. 0 \in A /\ \A k \in Nat : k \in A => k + 1 \in A
  <2>1. ASSUME NEW k \in Nat, k <= n => iter[1..k] \in Nat, k + 1 <= n
        PROVE  iter[1..(k + 1)] \in Nat
    <3>1. k + 1 \in 1..n /\ (k + 1) - 1 = k /\ iter[1..k] \in Nat
      BY <2>1, <1>1
    <3> QED
      BY <1>1, <1>9, <3>1
  <2> QED
    BY <1>3, <1>8, <2>1
<1>11. Nat \subseteq A
  <2> HIDE DEF A
  <2> QED
    BY <1>10, NatSetInduction
<1> DEFINE sum == [k \in 0..n |-> iter[1..k]]
<1>12. sum \in [0..n -> Nat]
  BY <1>1, <1>11
<1>13. sum[n] = iter[DOMAIN b] /\ sum[0] = 0
  BY <1>1, <1>8
<1>14. \A k \in 1..n : sum[k] = sum[k - 1] + b[k]
  BY <1>1, <1>9
<1> QED
  BY <1>2, <1>12, <1>13, <1>14

\* And the driver's, which wraps at each.
LEMMA DriverSumSteps ==
  ASSUME NEW b \in ByteStrings
  PROVE  \E sum \in [0..Len(b) -> Octet] :
           /\ g5120_message_checksum(b) = Byte(170 - sum[Len(b)])
           /\ sum[0] = 0
           /\ \A k \in 1..Len(b) : sum[k] = Byte(sum[k - 1] + b[k])
<1> DEFINE n == Len(b)
           Turn(iter) == [s \in SUBSET DOMAIN b |-> IF s = {} THEN 0 ELSE LET x == Max(s) IN Byte(iter[s \ {x}] + b[x])]
           iter == CHOOSE iter : iter = Turn(iter)
           zero == 0
           step == [i \in 1..n |-> [v \in Octet |-> Byte(v + b[i])]]
<1>1. n \in Nat /\ DOMAIN b = 1..n /\ \A i \in 1..n : b[i] \in Octet /\ b[i] \in Nat
  BY BytesAre
<1>2. g5120_message_checksum(b) = Byte(170 - iter[DOMAIN b])
  BY DEF g5120_message_checksum, FoldLeft, MapThenFoldSet
<1>3. step \in [1..n -> [Octet -> Octet]] /\ 0 \in Octet
  <2> DEFINE V == Octet
  <2>1. \A i \in 1..n : \A v \in V : Byte(v + b[i]) \in V
    BY <1>1, OctetSum
  <2>2. step \in [1..n -> [V -> V]]
    <3> HIDE DEF V, n
    <3>1. ASSUME NEW i \in 1..n PROVE [v \in V |-> Byte(v + b[i])] \in [V -> V]
      BY <2>1
    <3> QED
      BY <3>1 DEF V
  <2>3. 0 \in Octet
    BY OctetSum
  <2> HIDE DEF step
  <2> QED
    BY <2>2, <2>3
<1>4. PICK g \in [SUBSET (1..n) -> Octet] :
        \A s \in SUBSET (1..n) : g[s] = IF s = {} THEN zero ELSE step[Max(s)][g[s \ {Max(s)}]]
  <2> DEFINE V == Octet
  <2>1. zero \in V /\ n \in Nat /\ step \in [1..n -> [V -> V]]
    BY <1>1, <1>3
  <2>2. \E g : IsFold(g, n, V, zero, step)
    <3> HIDE DEF step, n, zero, V
    <3> QED
      BY <2>1, FoldExists
  <2> QED
    BY <2>2 DEF IsFold
<1>5. g = Turn(g)
  <2>1. ASSUME NEW s \in SUBSET (1..n)
        PROVE  g[s] = IF s = {} THEN 0 ELSE LET x == Max(s) IN Byte(g[s \ {x}] + b[x])
    <3>1. s # {} => Max(s) \in 1..n
      BY <1>1, MaxOfIndices
    <3>2. s \ {Max(s)} \in SUBSET (1..n)
      OBVIOUS
    <3>3. s # {} => step[Max(s)][g[s \ {Max(s)}]] = (LET x == Max(s) IN Byte(g[s \ {x}] + b[x]))
      BY <3>1, <3>2
    <3> HIDE DEF step
    <3> QED
      BY <1>4, <3>3
  <2> QED
    BY <1>1, <2>1
<1>6. iter = Turn(iter)
  <2> HIDE DEF Turn
  <2> QED
    BY <1>5
<1>7. \A s \in SUBSET (1..n) : iter[s] = IF s = {} THEN 0 ELSE LET x == Max(s) IN Byte(iter[s \ {x}] + b[x])
  <2> HIDE DEF iter
  <2> QED
    BY <1>1, <1>6
<1> HIDE DEF iter, Turn
<1>8. iter[1..0] = 0
  <2>1. 1..0 = {} /\ {} \in SUBSET (1..n)
    OBVIOUS
  <2> QED
    BY <1>7, <2>1
<1>9. ASSUME NEW k \in 1..n
      PROVE  iter[1..k] = LET x == k IN Byte(iter[1..(k - 1)] + b[x])
  <2>1. k \in Nat \ {0} /\ 1..k \in SUBSET (1..n)
    BY <1>1
  <2>2. Max(1..k) = k /\ (1..k) \ {k} = 1..(k - 1) /\ 1..k # {}
    BY <2>1, MaxOfPrefix
  <2> QED
    BY <1>7, <2>1, <2>2
<1> DEFINE A == {k \in Nat : k <= n => iter[1..k] \in Octet}
<1>10. 0 \in A /\ \A k \in Nat : k \in A => k + 1 \in A
  <2>1. ASSUME NEW k \in Nat, k <= n => iter[1..k] \in Octet, k + 1 <= n
        PROVE  iter[1..(k + 1)] \in Octet
    <3>1. k + 1 \in 1..n /\ (k + 1) - 1 = k /\ iter[1..k] \in Octet
      BY <2>1, <1>1
    <3>2. b[k + 1] \in Octet
      BY <1>1, <3>1
    <3>3. iter[1..(k + 1)] = Byte(iter[1..k] + b[k + 1])
      BY <1>9, <3>1
    <3> QED
      BY <3>1, <3>2, <3>3, OctetSum
  <2> QED
    BY <1>3, <1>8, <2>1
<1>11. Nat \subseteq A
  <2> HIDE DEF A
  <2> QED
    BY <1>10, NatSetInduction
<1> DEFINE sum == [k \in 0..n |-> iter[1..k]]
<1>12. sum \in [0..n -> Octet]
  BY <1>1, <1>11
<1>13. sum[n] = iter[DOMAIN b] /\ sum[0] = 0
  BY <1>1, <1>8
<1>14. \A k \in 1..n : sum[k] = Byte(sum[k - 1] + b[k])
  BY <1>1, <1>9
<1> QED
  BY <1>2, <1>12, <1>13, <1>14

\* Both sums are of one mind.
LEMMA ChecksumsAgree ==
  ASSUME NEW b \in ByteStrings
  PROVE  messageChecksum(b) = g5120_message_checksum(b) /\ messageChecksum(b) \in Octet
<1> DEFINE n == Len(b)
<1>1. n \in Nat /\ \A i \in 1..n : b[i] \in Nat
  BY BytesAre
<1>2. PICK s \in [0..n -> Nat] :
        /\ Total(b) = s[n] % 256 /\ s[0] = 0
        /\ \A k \in 1..n : s[k] = s[k - 1] + b[k]
  BY <1>1, TotalSteps
<1>3. PICK d \in [0..n -> Octet] :
        /\ g5120_message_checksum(b) = Byte(170 - d[n]) /\ d[0] = 0
        /\ \A k \in 1..n : d[k] = Byte(d[k - 1] + b[k])
  BY <1>1, DriverSumSteps
<1> DEFINE A == {k \in Nat : k <= n => d[k] = s[k] % 256}
<1>4. 0 \in A /\ \A k \in Nat : k \in A => k + 1 \in A
  <2>1. ASSUME NEW k \in Nat, k <= n => d[k] = s[k] % 256, k + 1 <= n
        PROVE  d[k + 1] = s[k + 1] % 256
    <3>1. k + 1 \in 1..n /\ (k + 1) - 1 = k /\ d[k] = s[k] % 256 /\ s[k] \in Nat /\ b[k + 1] \in Nat
      BY <2>1, <1>1
    <3>2. d[k + 1] = (d[k] + b[k + 1]) % 256 /\ s[k + 1] = s[k] + b[k + 1]
      BY <1>2, <1>3, <3>1 DEF Byte
    <3>3. \A x, y \in Nat : ((x % 256) + y) % 256 = (x + y) % 256
      OBVIOUS
    <3> QED
      BY <3>1, <3>2, <3>3
  <2> QED
    BY <1>2, <1>3, <2>1
<1>5. n \in A
  <2> HIDE DEF A
  <2> QED
    BY <1>1, <1>4, NatSetInduction
<1>6. d[n] = s[n] % 256 /\ s[n] \in Nat
  BY <1>1, <1>5
<1>7. messageChecksum(b) = (170 - d[n]) % 256
  BY <1>2, <1>6 DEF messageChecksum
<1>8. g5120_message_checksum(b) = (170 - d[n]) % 256
  BY <1>3 DEF Byte
<1>9. d[n] \in Octet
  BY <1>1, <1>3
<1>10. (170 - d[n]) % 256 \in Octet
  BY <1>9, OctetSum
<1> QED
  BY <1>7, <1>8, <1>10

\* The checksum of a header of three bytes.
LEMMA PackChecksumIs ==
  ASSUME NEW b \in ByteStrings, Len(b) = 3
  PROVE  packChecksum(b) = (b[1] + b[2] + b[3]) % 256
<1>1. PICK s \in [0..3 -> Nat] :
        /\ Total(b) = s[3] % 256 /\ s[0] = 0
        /\ \A k \in 1..3 : s[k] = s[k - 1] + b[k]
  BY TotalSteps
<1>2. s[1] = s[0] + b[1] /\ s[2] = s[1] + b[2] /\ s[3] = s[2] + b[3]
  <2>1. 1 \in 1..3 /\ 2 \in 1..3 /\ 3 \in 1..3 /\ 1 - 1 = 0 /\ 2 - 1 = 1 /\ 3 - 1 = 2
    OBVIOUS
  <2> QED
    BY <1>1, <2>1
<1>3. s[3] = b[1] + b[2] + b[3]
  <2>1. \A i \in 1..3 : b[i] \in Nat
    BY BytesAre
  <2>2. b[1] \in Nat /\ b[2] \in Nat /\ b[3] \in Nat
    BY <2>1
  <2> QED
    BY <1>1, <1>2, <2>2
<1> QED
  BY <1>1, <1>3 DEF packChecksum

-----------------------------------------------------------------------------
(* Byte strings *)

\* The short strings of bytes.
LEMMA EmptyBytes == <<>> \in ByteStrings /\ Len(<<>>) = 0
BY EmptySeq DEF ByteStrings

\* One byte, as of a command.
LEMMA OneByte ==
  ASSUME NEW v \in Octet
  PROVE  <<v>> \in ByteStrings /\ Len(<<v>>) = 1 /\ <<v>>[1] = v
BY DEF ByteStrings, Octet

\* Two bytes, as of a length.
LEMMA TwoBytes ==
  ASSUME NEW v \in Octet, NEW w \in Octet
  PROVE  <<v, w>> \in ByteStrings /\ Len(<<v, w>>) = 2 /\ <<v, w>>[1] = v /\ <<v, w>>[2] = w
BY DEF ByteStrings, Octet

\* What two strings of bytes make together.
LEMMA Concatenated ==
  ASSUME NEW s \in ByteStrings, NEW t \in ByteStrings
  PROVE  /\ s \o t \in ByteStrings
         /\ Len(s \o t) = Len(s) + Len(t)
         /\ \A i \in 1..Len(s) : (s \o t)[i] = s[i]
         /\ \A i \in 1..Len(t) : (s \o t)[Len(s) + i] = t[i]
<1>1. s \in Seq(0..255) /\ t \in Seq(0..255)
  BY DEF ByteStrings
<1>2. s \o t \in Seq(0..255) /\ Len(s \o t) = Len(s) + Len(t)
  BY <1>1, ConcatProperties
<1>3. \A i \in 1..(Len(s) + Len(t)) : (s \o t)[i] = IF i <= Len(s) THEN s[i] ELSE t[i - Len(s)]
  BY <1>1, ConcatProperties
<1>4. Len(s) \in Nat /\ Len(t) \in Nat
  BY BytesAre
<1>5. \A i \in 1..Len(s) : (s \o t)[i] = s[i]
  BY <1>3, <1>4
<1>6. ASSUME NEW i \in 1..Len(t) PROVE (s \o t)[Len(s) + i] = t[i]
  <2>1. Len(s) + i \in 1..(Len(s) + Len(t)) /\ ~(Len(s) + i <= Len(s)) /\ Len(s) + i - Len(s) = i
    BY <1>4
  <2> QED
    BY <1>3, <2>1
<1> QED
  BY <1>2, <1>5, <1>6 DEF ByteStrings

\* What a string and a byte make.
LEMMA Appended ==
  ASSUME NEW s \in ByteStrings, NEW v \in Octet
  PROVE  /\ Append(s, v) \in ByteStrings
         /\ Len(Append(s, v)) = Len(s) + 1
         /\ \A i \in 1..Len(s) : Append(s, v)[i] = s[i]
         /\ Append(s, v)[Len(s) + 1] = v
BY AppendProperties DEF ByteStrings, Octet

\* What a part of a string is.
LEMMA Part ==
  ASSUME NEW b \in ByteStrings, NEW m \in Int, NEW n \in Int, 1 <= m, m - 1 <= n, n <= Len(b)
  PROVE  /\ SubSeq(b, m, n) \in ByteStrings
         /\ Len(SubSeq(b, m, n)) = n - m + 1
         /\ \A i \in 1..(n - m + 1) : SubSeq(b, m, n)[i] = b[m + i - 1]
<1>1. Len(b) \in Nat /\ \A i \in 1..Len(b) : b[i] \in Octet
  BY BytesAre
<1>2. m \in Int /\ n \in Int /\ \A i \in m..n : b[i] \in Octet
  BY <1>1
<1>3. /\ SubSeq(b, m, n) \in Seq(Octet)
      /\ Len(SubSeq(b, m, n)) = IF m <= n THEN n - m + 1 ELSE 0
      /\ \A i \in 1..(n - m + 1) : SubSeq(b, m, n)[i] = b[m + i - 1]
  BY <1>2, SubSeqProperties
<1>4. (IF m <= n THEN n - m + 1 ELSE 0) = n - m + 1
  BY <1>1
<1> QED
  BY <1>3, <1>4 DEF ByteStrings, Octet

\* Two strings are one when they have the same bytes.
LEMMA SameBytes ==
  ASSUME NEW s \in ByteStrings, NEW t \in ByteStrings,
         Len(s) = Len(t), \A i \in 1..Len(s) : s[i] = t[i]
  PROVE  s = t
BY SeqEqual DEF ByteStrings

-----------------------------------------------------------------------------
(* Packs *)

\* Two bytes hold a number below 65536.
LEMMA LittleEndian ==
  ASSUME NEW n \in 0..MaxPack
  PROVE  /\ n % 256 \in Octet /\ (n \div 256) % 256 \in Octet
         /\ (n % 256) + 256 * ((n \div 256) % 256) = n
<1>1. n \in Nat /\ n <= 65535
  BY DEF MaxPack
<1>2. n \div 256 \in Nat /\ n \div 256 <= 255
  BY <1>1
<1>3. (n \div 256) % 256 = n \div 256
  BY <1>2
<1>4. (n % 256) + 256 * (n \div 256) = n
  BY <1>1
<1>5. n % 256 \in Octet
  BY <1>1 DEF Octet
<1>6. n \div 256 \in Octet
  BY <1>2 DEF Octet
<1> QED
  BY <1>3, <1>4, <1>5, <1>6

\* A byte and a number, as the encoders begin.
LEMMA ThreeBytes ==
  ASSUME NEW v \in Octet, NEW lo \in Octet, NEW hi \in Octet
  PROVE  LET h == <<v>> \o <<lo, hi>>
         IN h \in ByteStrings /\ Len(h) = 3 /\ h[1] = v /\ h[2] = lo /\ h[3] = hi
<1>1. <<v>> \in ByteStrings /\ Len(<<v>>) = 1 /\ <<v>>[1] = v
  BY OneByte
<1>2. <<lo, hi>> \in ByteStrings /\ Len(<<lo, hi>>) = 2 /\ <<lo, hi>>[1] = lo /\ <<lo, hi>>[2] = hi
  BY TwoBytes
<1> DEFINE x == <<v>>
           y == <<lo, hi>>
<1>3. /\ x \o y \in ByteStrings /\ Len(x \o y) = 3
      /\ (x \o y)[1] = x[1] /\ (x \o y)[1 + 1] = y[1] /\ (x \o y)[1 + 2] = y[2]
  <2> HIDE DEF x, y
  <2>1. x \in ByteStrings /\ y \in ByteStrings /\ Len(x) = 1 /\ Len(y) = 2
    BY <1>1, <1>2 DEF x, y
  <2>2. 1 \in 1..1 /\ 1 \in 1..2 /\ 2 \in 1..2
    OBVIOUS
  <2>3. /\ x \o y \in ByteStrings /\ Len(x \o y) = Len(x) + Len(y)
        /\ \A i \in 1..Len(x) : (x \o y)[i] = x[i]
        /\ \A i \in 1..Len(y) : (x \o y)[Len(x) + i] = y[i]
    BY <2>1, Concatenated, Zenon
  <2> QED
    BY <2>1, <2>2, <2>3
<1> QED
  BY <1>1, <1>2, <1>3

\* The encoding of a pack: four bytes, then the payload.
LEMMA PackIs ==
  ASSUME NEW flags \in Octet, NEW payload \in ByteStrings, Len(payload) <= MaxPack
  PROVE  LET n == Len(payload)
             e == EncodePack(flags, payload)
         IN /\ e \in ByteStrings /\ Len(e) = n + 4
            /\ e[1] = flags /\ e[2] = n % 256 /\ e[3] = (n \div 256) % 256
            /\ e[4] = (e[1] + e[2] + e[3]) % 256
            /\ \A i \in 1..n : e[4 + i] = payload[i]
            /\ e = g5120_pack_encode(flags, payload)
<1> DEFINE n == Len(payload)
           lo == n % 256
           hi == (n \div 256) % 256
           h == <<flags>> \o <<lo, hi>>
           sum == (flags + lo + hi) % 256
           four == Append(h, sum)
           e == four \o payload
<1>1. n \in 0..MaxPack /\ n \in Nat
  BY BytesAre
<1>2. lo \in Octet /\ hi \in Octet
  <2> HIDE DEF n
  <2> QED
    BY <1>1, LittleEndian
<1>3. h \in ByteStrings /\ Len(h) = 3 /\ h[1] = flags /\ h[2] = lo /\ h[3] = hi
  <2> HIDE DEF lo, hi
  <2> QED
    BY <1>2, ThreeBytes
<1>4. sum \in Octet /\ packChecksum(h) = sum /\ g5120_pack_checksum(h) = sum
  <2>1. packChecksum(h) = (h[1] + h[2] + h[3]) % 256
    <3> HIDE DEF h
    <3> QED
      BY <1>3, PackChecksumIs
  <2>2. \A v, w, z \in Octet : (v + w + z) % 256 \in Octet
    BY DEF Octet
  <2> HIDE DEF h, lo, hi
  <2> QED
    BY <1>2, <1>3, <2>1, <2>2 DEF g5120_pack_checksum, Byte
<1>5. /\ four \in ByteStrings /\ Len(four) = 4
      /\ four[1] = flags /\ four[2] = lo /\ four[3] = hi /\ four[4] = sum
  <2> HIDE DEF h, lo, hi, sum
  <2>1. /\ Append(h, sum) \in ByteStrings /\ Len(Append(h, sum)) = Len(h) + 1
        /\ \A i \in 1..Len(h) : Append(h, sum)[i] = h[i]
        /\ Append(h, sum)[Len(h) + 1] = sum
    BY <1>3, <1>4, Appended
  <2>2. 1 \in 1..3 /\ 2 \in 1..3 /\ 3 \in 1..3 /\ 3 + 1 = 4
    OBVIOUS
  <2> QED
    BY <1>3, <2>1, <2>2
<1>6. /\ e \in ByteStrings /\ Len(e) = n + 4 /\ \A i \in 1..4 : e[i] = four[i]
      /\ \A i \in 1..n : e[4 + i] = payload[i]
  <2>1. /\ e \in ByteStrings /\ Len(e) = Len(four) + Len(payload) /\ \A i \in 1..Len(four) : e[i] = four[i]
        /\ \A i \in 1..Len(payload) : e[Len(four) + i] = payload[i]
    <3>1. four \in ByteStrings
      BY <1>5
    <3> HIDE DEF four
    <3> QED
      BY <3>1, Concatenated, SMTT(20)
  <2> HIDE DEF four, e
  <2> QED
    BY <1>1, <1>5, <2>1
<1>7. e[1] = flags /\ e[2] = lo /\ e[3] = hi /\ e[4] = sum
  <2> HIDE DEF e, four, lo, hi, sum
  <2> QED
    BY <1>5, <1>6
<1>8. e = EncodePack(flags, payload)
  <2>1. PutUint16(Len(payload)) = <<lo, hi>>
    BY DEF PutUint16
  <2> HIDE DEF lo, hi
  <2> QED
    BY <1>4, <2>1 DEF EncodePack
<1>9. e = g5120_pack_encode(flags, payload)
  <2>1. Shorts(Len(payload)) = <<lo, hi>>
    BY DEF Shorts, Byte
  <2> HIDE DEF lo, hi, sum
  <2> QED
    BY <1>4, <2>1 DEF g5120_pack_encode
<1> HIDE DEF e
<1> QED
  BY <1>6, <1>7, <1>8, <1>9

\* The two decoders of a pack are of one mind about any bytes.
THEOREM PackDecodersAgree ==
  ASSUME NEW b \in ByteStrings
  PROVE  LET d == g5120_pack_decode(b)
         IN /\ DecodePack(b).err = "nil" <=> d.ok
            /\ DecodePack(b) = Pack(DecodePack(b).err, d.flags, d.payload)
            /\ d.flags \in Octet /\ d.payload \in ByteStrings
            /\ Len(d.payload) <= Len(b)
<1> DEFINE n == Len(b)
           size == b[2] + 256 * b[3]
           ok == n >= 4 /\ b[4] = (b[1] + b[2] + b[3]) % 256 /\ n >= 4 + size
           body == SubSeq(b, 5, 4 + size)
<1>1. n \in Nat /\ \A i \in 1..n : b[i] \in Octet /\ b[i] \in Nat
  BY BytesAre
<1> DEFINE d == g5120_pack_decode(b)
<1>2. /\ d.ok <=> ok
      /\ d.flags = IF ok THEN b[1] ELSE 0
      /\ d.payload = IF ok THEN body ELSE <<>>
  BY DEF g5120_pack_decode, g5120_pack_checksum, Short, Byte
<1> HIDE DEF d
<1>3. CASE n < 4
  <2>1. DecodePack(b) = Pack("ErrShortBuffer", 0, <<>>) /\ ~ok
    BY <1>1, <1>3 DEF DecodePack, packHeaderLen
  <2> HIDE DEF ok, body
  <2>2. ~d.ok /\ d.flags = 0 /\ d.payload = <<>>
    BY <1>2, <2>1
  <2> QED
    BY <2>1, <2>2, <1>1, EmptyBytes, OctetSum DEF Pack, d
<1>4. CASE n >= 4
  <2>1. packChecksum(SubSeq(b, 1, 3)) = (b[1] + b[2] + b[3]) % 256
    <3>1. /\ SubSeq(b, 1, 3) \in ByteStrings /\ Len(SubSeq(b, 1, 3)) = 3
          /\ \A i \in 1..3 : SubSeq(b, 1, 3)[i] = b[i]
      <4>1. 1 - 1 <= 3 /\ 3 <= n /\ 3 - 1 + 1 = 3 /\ \A i \in 1..3 : 1 + i - 1 = i
        BY <1>1, <1>4
      <4> HIDE DEF n
      <4> QED
        BY <4>1, Part DEF n
    <3>2. SubSeq(b, 1, 3)[1] = b[1] /\ SubSeq(b, 1, 3)[2] = b[2] /\ SubSeq(b, 1, 3)[3] = b[3]
      BY <3>1
    <3> QED
      BY <3>1, <3>2, PackChecksumIs
  <2>2. b[1] \in Octet /\ b[2] \in Nat /\ b[3] \in Nat /\ size \in Nat
    <3>1. 1 \in 1..n /\ 2 \in 1..n /\ 3 \in 1..n
      BY <1>1, <1>4
    <3>2. b[1] \in Octet /\ b[2] \in Nat /\ b[3] \in Nat
      BY <1>1, <3>1
    <3> QED
      BY <3>2
  <2>3. DecodePack(b) = IF b[4] # (b[1] + b[2] + b[3]) % 256 THEN Pack("ErrChecksum", 0, <<>>)
                        ELSE IF n < 4 + size THEN Pack("ErrLength", 0, <<>>)
                        ELSE Pack("nil", b[1], body)
    <3> HIDE DEF n
    <3>1. packHeaderLen = 4 /\ ~(n < 4) /\ packHeaderLen + 1 = 5
      BY <1>1, <1>4 DEF packHeaderLen
    <3> QED
      BY <2>1, <3>1, <1>4 DEF DecodePack, Uint16, n
  <2>4. CASE ok
    <3>1. DecodePack(b) = Pack("nil", b[1], body)
      BY <2>2, <2>3, <2>4, <1>1
    <3>2. body \in ByteStrings /\ Len(body) = size /\ size <= n
      <4>0. n >= 4 + size
        BY <2>4
      <4>1. 4 + size \in Int /\ 5 - 1 <= 4 + size /\ 4 + size <= Len(b) /\ 4 + size - 5 + 1 = size /\ size <= n
        <5> HIDE DEF size
        <5> QED
          BY <1>1, <2>2, <4>0
      <4> DEFINE lo == 5
                 hi == 4 + size
      <4>2. lo \in Int /\ 1 <= lo /\ hi \in Int /\ lo - 1 <= hi /\ hi <= Len(b)
        BY <4>1
      <4>3. SubSeq(b, lo, hi) \in ByteStrings /\ Len(SubSeq(b, lo, hi)) = hi - lo + 1
        <5> HIDE DEF lo, hi
        <5> QED
          BY <4>2, Part
      <4>4. hi - lo + 1 = size
        <5> HIDE DEF size
        <5> QED
          BY <2>2
      <4>5. SubSeq(b, lo, hi) = body
        OBVIOUS
      <4> HIDE DEF size, body, lo, hi
      <4> QED
        BY <4>1, <4>3, <4>4, <4>5
    <3> HIDE DEF ok, body, size
    <3>3. d.ok /\ d.flags = b[1] /\ d.payload = body
      BY <1>2, <2>4
    <3> QED
      BY <2>2, <3>1, <3>2, <3>3 DEF Pack, d
  <2>5. CASE ~ok
    <3>1. \/ DecodePack(b) = Pack("ErrChecksum", 0, <<>>)
          \/ DecodePack(b) = Pack("ErrLength", 0, <<>>)
      BY <1>1, <1>4, <2>2, <2>3, <2>5
    <3> HIDE DEF ok, body, size
    <3>2. ~d.ok /\ d.flags = 0 /\ d.payload = <<>>
      BY <1>2, <2>5
    <3> QED
      BY <3>1, <3>2, <1>1, EmptyBytes, OctetSum DEF Pack, d
  <2> QED
    BY <2>4, <2>5
<1> QED
  BY <1>1, <1>3, <1>4

\* What was packed is unpacked, whatever follows it.
LEMMA PackRoundTrip ==
  ASSUME NEW flags \in Octet, NEW payload \in ByteStrings, Len(payload) <= MaxPack,
         NEW padding \in ByteStrings
  PROVE  /\ EncodePack(flags, payload) \o padding \in ByteStrings
         /\ EncodePack(flags, payload) \o padding # <<>>
         /\ DecodePack(EncodePack(flags, payload) \o padding) = Pack("nil", flags, payload)
         /\ LET d == g5120_pack_decode(EncodePack(flags, payload) \o padding)
            IN d.ok /\ d.flags = flags /\ d.payload = payload
<1> DEFINE n == Len(payload)
           e == EncodePack(flags, payload)
           b == e \o padding
<1>1. n \in 0..MaxPack /\ n \in Nat /\ Len(padding) \in Nat
  BY BytesAre
<1>2. /\ e \in ByteStrings /\ Len(e) = n + 4
      /\ e[1] = flags /\ e[2] = n % 256 /\ e[3] = (n \div 256) % 256
      /\ e[4] = (e[1] + e[2] + e[3]) % 256
      /\ \A i \in 1..n : e[4 + i] = payload[i]
  BY PackIs
<1> HIDE DEF e
<1>3. b \in ByteStrings /\ Len(b) = n + 4 + Len(padding) /\ \A i \in 1..(n + 4) : b[i] = e[i]
  BY <1>2, Concatenated
<1> HIDE DEF b
<1>4. b[1] = flags /\ b[2] = n % 256 /\ b[3] = (n \div 256) % 256 /\ b[4] = (b[1] + b[2] + b[3]) % 256
  <2>1. 1 \in 1..(n + 4) /\ 2 \in 1..(n + 4) /\ 3 \in 1..(n + 4) /\ 4 \in 1..(n + 4)
    BY <1>1
  <2> HIDE DEF n
  <2> QED
    BY <1>2, <1>3, <2>1
<1>5. b[2] + 256 * b[3] = n
  <2> HIDE DEF n
  <2> QED
    BY <1>1, <1>4, LittleEndian
<1>6. SubSeq(b, 5, 4 + n) = payload
  <2>1. 4 + n \in Int /\ 5 - 1 <= 4 + n /\ 4 + n <= Len(b) /\ 4 + n - 5 + 1 = n
    BY <1>1, <1>3
  <2>2. /\ SubSeq(b, 5, 4 + n) \in ByteStrings /\ Len(SubSeq(b, 5, 4 + n)) = n
        /\ \A i \in 1..n : SubSeq(b, 5, 4 + n)[i] = b[5 + i - 1]
    <3> DEFINE lo == 5
               hi == 4 + n
    <3>1. lo \in Int /\ 1 <= lo /\ hi \in Int /\ lo - 1 <= hi /\ hi <= Len(b)
      BY <2>1
    <3>2. /\ SubSeq(b, lo, hi) \in ByteStrings /\ Len(SubSeq(b, lo, hi)) = hi - lo + 1
          /\ \A i \in 1..(hi - lo + 1) : SubSeq(b, lo, hi)[i] = b[lo + i - 1]
      <4> HIDE DEF lo, hi
      <4> QED
        BY <1>3, <3>1, Part
    <3> QED
      BY <2>1, <3>2
  <2>3. ASSUME NEW i \in 1..n PROVE b[5 + i - 1] = payload[i]
    <3>1. 5 + i - 1 = 4 + i /\ 4 + i \in 1..(n + 4)
      BY <1>1
    <3> QED
      BY <1>2, <1>3, <3>1
  <2> QED
    BY <2>2, <2>3, SameBytes
<1>7. LET d == g5120_pack_decode(b) IN d.ok /\ d.flags = flags /\ d.payload = payload
  <2>1. Len(b) >= 4 /\ Len(b) >= 4 + n
    BY <1>1, <1>3
  <2> HIDE DEF n
  <2>2. Short(b, 2) = n /\ g5120_pack_checksum(b) = b[4]
    BY <1>4, <1>5 DEF Short, g5120_pack_checksum, Byte
  <2> QED
    BY <2>1, <2>2, <1>4, <1>6 DEF g5120_pack_decode
<1>8. DecodePack(b) = Pack("nil", flags, payload)
  <2>1. /\ DecodePack(b).err = "nil" <=> g5120_pack_decode(b).ok
        /\ DecodePack(b) = Pack(DecodePack(b).err, g5120_pack_decode(b).flags, g5120_pack_decode(b).payload)
    BY <1>3, PackDecodersAgree
  <2> QED
    BY <1>7, <2>1
<1>9. b # <<>>
  BY <1>1, <1>3, EmptyBytes
<1> QED
  BY <1>3, <1>7, <1>8, <1>9 DEF b, e

-----------------------------------------------------------------------------
(* Messages *)

\* The encoding of a message: three bytes, the payload, and a byte that is its checksum or
\* the marker of one that has none.
LEMMA MessageIs ==
  ASSUME NEW cmd \in Octet, NEW payload \in ByteStrings, Len(payload) + 4 <= MaxPack,
         NEW noChecksum \in BOOLEAN
  PROVE  LET n == Len(payload)
             e == EncodeMessage(cmd, payload, noChecksum)
         IN /\ e \in ByteStrings /\ Len(e) = n + 4
            /\ e[1] = cmd /\ e[2] = (n + 1) % 256 /\ e[3] = ((n + 1) \div 256) % 256
            /\ \A i \in 1..n : e[3 + i] = payload[i]
            /\ e[n + 4] \in {noChecksumMarker, messageChecksum(SubSeq(e, 1, n + 3))}
            /\ ~noChecksum => e = g5120_message_encode(cmd, payload)
<1> DEFINE n == Len(payload)
           lo == (n + 1) % 256
           hi == ((n + 1) \div 256) % 256
           h == <<cmd>> \o <<lo, hi>>
           out == h \o payload
           v == IF noChecksum THEN noChecksumMarker ELSE messageChecksum(out)
           e == Append(out, v)
<1>1. n \in Nat /\ n + 1 \in 0..MaxPack
  <2>1. n \in Nat /\ n + 4 <= MaxPack
    BY BytesAre
  <2>2. MaxPack \in Nat
    BY DEF MaxPack
  <2> HIDE DEF n
  <2> QED
    BY <2>1, <2>2
<1>2. lo \in Octet /\ hi \in Octet
  <2> HIDE DEF n
  <2> QED
    BY <1>1, LittleEndian
<1>3. h \in ByteStrings /\ Len(h) = 3 /\ h[1] = cmd /\ h[2] = lo /\ h[3] = hi
  <2> HIDE DEF lo, hi
  <2> QED
    BY <1>2, ThreeBytes
<1>4. /\ out \in ByteStrings /\ Len(out) = n + 3 /\ out[1] = cmd /\ out[2] = lo /\ out[3] = hi
      /\ \A i \in 1..n : out[3 + i] = payload[i]
  <2>1. /\ out \in ByteStrings /\ Len(out) = Len(h) + Len(payload) /\ \A i \in 1..Len(h) : out[i] = h[i]
        /\ \A i \in 1..Len(payload) : out[Len(h) + i] = payload[i]
    <3>1. h \in ByteStrings
      BY <1>3
    <3> HIDE DEF h
    <3> QED
      BY <3>1, Concatenated, SMTT(20)
  <2>2. 1 \in 1..3 /\ 2 \in 1..3 /\ 3 \in 1..3
    OBVIOUS
  <2> HIDE DEF h, out, lo, hi
  <2> QED
    BY <1>1, <1>3, <2>1, <2>2
<1>5. v \in Octet /\ messageChecksum(out) = g5120_message_checksum(out)
  <2> HIDE DEF out
  <2> QED
    BY <1>4, ChecksumsAgree DEF noChecksumMarker, Octet
<1>6. /\ e \in ByteStrings /\ Len(e) = n + 4 /\ \A i \in 1..(n + 3) : e[i] = out[i]
      /\ e[n + 4] = v
  <2>1. /\ Append(out, v) \in ByteStrings /\ Len(Append(out, v)) = Len(out) + 1
        /\ \A i \in 1..Len(out) : Append(out, v)[i] = out[i]
        /\ Append(out, v)[Len(out) + 1] = v
    <3>1. out \in ByteStrings /\ v \in Octet
      BY <1>4, <1>5
    <3> HIDE DEF out, v
    <3> QED
      BY <3>1, Appended
  <2>2. Len(out) = n + 3 /\ n + 3 + 1 = n + 4
    BY <1>1, <1>4
  <2> HIDE DEF out, v, n
  <2> QED
    BY <2>1, <2>2
<1> HIDE DEF v
<1>7. SubSeq(e, 1, n + 3) = out
  <2> DEFINE top == n + 3
  <2>1. top \in Int /\ 1 - 1 <= top /\ top <= Len(e) /\ e \in ByteStrings /\ top - 1 + 1 = top
    BY <1>1, <1>6
  <2>2. SubSeq(e, 1, top) \in ByteStrings /\ Len(SubSeq(e, 1, top)) = top - 1 + 1
        /\ \A i \in 1..(top - 1 + 1) : SubSeq(e, 1, top)[i] = e[1 + i - 1]
    <3> HIDE DEF e, top
    <3> QED
      BY <2>1, Part
  <2>3. \A i \in 1..top : 1 + i - 1 = i
    BY <2>1
  <2>4. Len(out) = top /\ \A i \in 1..top : e[i] = out[i]
    BY <1>4, <1>6
  <2>5. out \in ByteStrings
    BY <1>4
  <2>6. SubSeq(e, 1, top) = out
    <3> HIDE DEF e, top, out
    <3>1. Len(SubSeq(e, 1, top)) = Len(out) /\ \A i \in 1..Len(SubSeq(e, 1, top)) : SubSeq(e, 1, top)[i] = out[i]
      BY <2>1, <2>2, <2>3, <2>4
    <3> QED
      BY <2>2, <2>5, <3>1, SameBytes
  <2> QED
    BY <2>6
<1>8. e[1] = cmd /\ e[2] = lo /\ e[3] = hi /\ \A i \in 1..n : e[3 + i] = payload[i]
  <2>1. 1 \in 1..(n + 3) /\ 2 \in 1..(n + 3) /\ 3 \in 1..(n + 3)
    BY <1>1
  <2>2. \A i \in 1..n : 3 + i \in 1..(n + 3)
    BY <1>1
  <2> HIDE DEF e, out, n, lo, hi
  <2> QED
    BY <1>4, <1>6, <2>1, <2>2
<1>9. e = EncodeMessage(cmd, payload, noChecksum)
  <2>1. PutUint16(Len(payload) + 1) = <<lo, hi>>
    BY DEF PutUint16
  <2> HIDE DEF lo, hi
  <2> QED
    BY <2>1 DEF EncodeMessage, v
<1>10. ~noChecksum => e = g5120_message_encode(cmd, payload)
  <2>1. Shorts(Len(payload) + 1) = <<lo, hi>>
    BY DEF Shorts, Byte
  <2> HIDE DEF lo, hi
  <2> QED
    BY <1>5, <2>1 DEF g5120_message_encode, v
<1>11. v \in {noChecksumMarker, messageChecksum(out)}
  BY DEF v
<1> HIDE DEF e, out
<1> QED
  BY <1>6, <1>7, <1>8, <1>9, <1>10, <1>11

\* The two decoders of a message are of one mind about any bytes.
THEOREM MessageDecodersAgree ==
  ASSUME NEW b \in ByteStrings
  PROVE  LET d == g5120_message_decode(b)
         IN /\ DecodeMessage(b).err = "nil" <=> d.ok
            /\ DecodeMessage(b) = Message(DecodeMessage(b).err, d.cmd, d.payload)
            /\ d.cmd \in Octet /\ d.payload \in ByteStrings
<1> DEFINE n == Len(b)
           size == b[2] + 256 * b[3]
           sum == messageChecksum(SubSeq(b, 1, n - 1))
           ok == n >= 4 /\ size >= 1 /\ n = 3 + size /\ b[n] \in {136, sum}
           body == SubSeq(b, 4, n - 1)
           d == g5120_message_decode(b)
<1>1. n \in Nat /\ \A i \in 1..n : b[i] \in Octet /\ b[i] \in Nat
  BY BytesAre
<1>2. n >= 4 => sum = g5120_message_checksum(Front(b))
  <2> SUFFICES ASSUME n >= 4 PROVE sum = g5120_message_checksum(Front(b))
    OBVIOUS
  <2>1. Front(b) = SubSeq(b, 1, n - 1)
    BY DEF Front
  <2> DEFINE top == n - 1
  <2>2. top \in Int /\ 1 - 1 <= top /\ top <= Len(b)
    BY <1>1
  <2>3. SubSeq(b, 1, top) \in ByteStrings
    <3> HIDE DEF top
    <3> QED
      BY <2>2, Part
  <2> QED
    BY <2>1, <2>3, ChecksumsAgree
<1>3. /\ d.ok <=> ok
      /\ d.cmd = IF ok THEN b[1] ELSE 0
      /\ d.payload = IF ok THEN body ELSE <<>>
  <2>1. Last(b) = b[n] /\ Short(b, 2) = size
    BY DEF Last, Short
  <2> HIDE DEF sum, size, n
  <2>2. d.ok <=> n >= 4 /\ size >= 1 /\ n = 3 + size /\ b[n] \in {136, g5120_message_checksum(Front(b))}
    BY <2>1 DEF g5120_message_decode, G5120_NO_CHECKSUM_MARKER, n
  <2>3. d.ok <=> ok
    BY <1>2, <2>2
  <2>4. d.cmd = (IF d.ok THEN b[1] ELSE 0) /\ d.payload = IF d.ok THEN body ELSE <<>>
    BY DEF g5120_message_decode, n
  <2> HIDE DEF d, ok, body
  <2> QED
    BY <2>3, <2>4
<1> HIDE DEF d
<1>4. CASE n < 4
  <2>1. DecodeMessage(b) = Message("ErrShortBuffer", 0, <<>>) /\ ~ok
    BY <1>1, <1>4 DEF DecodeMessage, messageHeaderLen
  <2> HIDE DEF ok, body
  <2>2. ~d.ok /\ d.cmd = 0 /\ d.payload = <<>>
    BY <1>3, <2>1
  <2> QED
    BY <2>1, <2>2, EmptyBytes, OctetSum DEF Message, d
<1>5. CASE n >= 4
  <2>1. b[1] \in Octet /\ size \in Nat
    <3>1. 1 \in 1..n /\ 2 \in 1..n /\ 3 \in 1..n
      BY <1>1, <1>5
    <3>2. b[1] \in Octet /\ b[2] \in Nat /\ b[3] \in Nat
      BY <1>1, <3>1
    <3> QED
      BY <3>2
  <2>2. Uint16(b, 2) = size
    BY DEF Uint16
  <2>3. DecodeMessage(b) = IF size < 1 \/ n # 3 + size THEN Message("ErrLength", 0, <<>>)
                           ELSE IF b[n] \notin {136, sum} THEN Message("ErrChecksum", 0, <<>>)
                           ELSE Message("nil", b[1], body)
    <3>1. messageHeaderLen = 3 /\ ~(n < 3 + 1) /\ 3 + 1 = 4 /\ noChecksumMarker = 136
      BY <1>1, <1>5 DEF messageHeaderLen, noChecksumMarker
    <3> HIDE DEF size
    <3>2. CASE size < 1 \/ n # 3 + size
      <4>1. DecodeMessage(b) = Message("ErrLength", 0, <<>>)
        <5> HIDE DEF n
        <5> QED
          BY <2>1, <2>2, <3>1, <3>2 DEF DecodeMessage, n
      <4> QED
        BY <3>2, <4>1
    <3>3. CASE ~(size < 1 \/ n # 3 + size)
      <4>1. size >= 1 /\ n = 3 + size
        BY <2>1, <3>3
      <4>2. DecodeMessage(b) = IF b[n] \notin {136, sum} THEN Message("ErrChecksum", 0, <<>>)
                               ELSE Message("nil", b[1], body)
        BY <2>2, <3>1, <3>3, <4>1 DEF DecodeMessage
      <4> QED
        BY <3>3, <4>2
    <3> QED
      BY <3>2, <3>3
  <2> HIDE DEF sum
  <2>4. CASE ok
    <3>1. DecodeMessage(b) = Message("nil", b[1], body)
      BY <2>1, <2>3, <2>4, <1>1
    <3>2. body \in ByteStrings
      <4> DEFINE lo == 4
                 hi == n - 1
      <4>1. lo \in Int /\ 1 <= lo /\ hi \in Int /\ lo - 1 <= hi /\ hi <= Len(b)
        BY <1>1, <1>5
      <4>2. SubSeq(b, lo, hi) \in ByteStrings
        <5> HIDE DEF lo, hi
        <5> QED
          BY <4>1, Part
      <4> QED
        BY <4>2
    <3> HIDE DEF ok, body, size
    <3>3. d.ok /\ d.cmd = b[1] /\ d.payload = body
      BY <1>3, <2>4
    <3> QED
      BY <2>1, <3>1, <3>2, <3>3 DEF Message, d
  <2>5. CASE ~ok
    <3>1. \/ DecodeMessage(b) = Message("ErrChecksum", 0, <<>>)
          \/ DecodeMessage(b) = Message("ErrLength", 0, <<>>)
      BY <1>1, <1>5, <2>1, <2>3, <2>5
    <3> HIDE DEF ok, body, size
    <3>2. ~d.ok /\ d.cmd = 0 /\ d.payload = <<>>
      BY <1>3, <2>5
    <3> QED
      BY <3>1, <3>2, EmptyBytes, OctetSum DEF Message, d
  <2> QED
    BY <2>4, <2>5
<1> QED
  BY <1>1, <1>4, <1>5

\* What was encoded is decoded.
LEMMA MessageRoundTrip ==
  ASSUME NEW cmd \in Octet, NEW payload \in ByteStrings, Len(payload) + 4 <= MaxPack,
         NEW noChecksum \in BOOLEAN
  PROVE  LET e == EncodeMessage(cmd, payload, noChecksum)
             d == g5120_message_decode(e)
         IN /\ e \in ByteStrings /\ Len(e) <= MaxPack
            /\ DecodeMessage(e) = Message("nil", cmd, payload)
            /\ d.ok /\ d.cmd = cmd /\ d.payload = payload
<1> DEFINE n == Len(payload)
           b == EncodeMessage(cmd, payload, noChecksum)
<1>1. n \in Nat /\ n + 1 \in 0..MaxPack
  <2>1. n \in Nat /\ n + 4 <= MaxPack
    BY BytesAre
  <2>2. MaxPack \in Nat
    BY DEF MaxPack
  <2> HIDE DEF n
  <2> QED
    BY <2>1, <2>2
<1>2. /\ b \in ByteStrings /\ Len(b) = n + 4
      /\ b[1] = cmd /\ b[2] = (n + 1) % 256 /\ b[3] = ((n + 1) \div 256) % 256
      /\ \A i \in 1..n : b[3 + i] = payload[i]
      /\ b[n + 4] \in {noChecksumMarker, messageChecksum(SubSeq(b, 1, n + 3))}
  BY MessageIs
<1> HIDE DEF b
<1>3. Uint16(b, 2) = n + 1
  <2> DEFINE w == n + 1
  <2>1. (w % 256) + 256 * ((w \div 256) % 256) = w
    <3>1. w \in 0..MaxPack
      BY <1>1
    <3> HIDE DEF w
    <3> QED
      BY <3>1, LittleEndian
  <2> QED
    BY <1>2, <2>1 DEF Uint16
<1>4. SubSeq(b, 4, n + 3) = payload
  <2> DEFINE lo == 4
             hi == n + 3
  <2>1. lo \in Int /\ 1 <= lo /\ hi \in Int /\ lo - 1 <= hi /\ hi <= Len(b) /\ hi - lo + 1 = n
    BY <1>1, <1>2
  <2>2. /\ SubSeq(b, lo, hi) \in ByteStrings /\ Len(SubSeq(b, lo, hi)) = hi - lo + 1
        /\ \A i \in 1..(hi - lo + 1) : SubSeq(b, lo, hi)[i] = b[lo + i - 1]
    <3> HIDE DEF lo, hi
    <3> QED
      BY <1>2, <2>1, Part
  <2>3. ASSUME NEW i \in 1..n PROVE b[lo + i - 1] = payload[i]
    <3>1. lo + i - 1 = 3 + i
      OBVIOUS
    <3> QED
      BY <1>2, <3>1
  <2>4. SubSeq(b, lo, hi) = payload
    <3> HIDE DEF lo, hi
    <3>1. Len(SubSeq(b, lo, hi)) = Len(payload)
      BY <2>1, <2>2
    <3>2. \A i \in 1..Len(SubSeq(b, lo, hi)) : SubSeq(b, lo, hi)[i] = payload[i]
      BY <2>1, <2>2, <2>3
    <3> QED
      BY <2>2, <3>1, <3>2, SameBytes
  <2> QED
    BY <2>4
<1>5. DecodeMessage(b) = Message("nil", cmd, payload)
  <2>1. /\ messageHeaderLen = 3 /\ ~(Len(b) < 3 + 1) /\ Len(b) = 3 + (n + 1) /\ ~(n + 1 < 1) /\ n + 1 >= 1
        /\ 3 + (n + 1) = n + 4 /\ n + 4 - 1 = n + 3 /\ 3 + 1 = 4
    BY <1>1, <1>2 DEF messageHeaderLen
  <2> DEFINE sum == messageChecksum(SubSeq(b, 1, n + 3))
  <2>2. b[n + 4] \in {noChecksumMarker, sum} /\ b[1] = cmd
    BY <1>2
  <2>3. DecodeMessage(b) = IF b[n + 4] \notin {noChecksumMarker, sum} THEN Message("ErrChecksum", 0, <<>>)
                           ELSE Message("nil", b[1], payload)
    <3> DEFINE size == n + 1
    <3>1. /\ size \in Nat /\ ~(size < 1) /\ size >= 1 /\ Len(b) = 3 + size /\ 3 + size = n + 4
          /\ 3 + size - 1 = n + 3 /\ Uint16(b, 2) = size
      BY <1>1, <1>3, <2>1
    <3> HIDE DEF n, size
    <3>2. /\ SubSeq(b, 1, 3 + size - 1) = SubSeq(b, 1, n + 3)
          /\ SubSeq(b, 4, 3 + size - 1) = payload /\ b[3 + size] = b[n + 4]
      BY <1>4, <3>1
    <3>3. DecodeMessage(b) = IF b[3 + size] \notin {noChecksumMarker, messageChecksum(SubSeq(b, 1, 3 + size - 1))}
                             THEN Message("ErrChecksum", 0, <<>>)
                             ELSE Message("nil", b[1], SubSeq(b, 4, 3 + size - 1))
      BY <2>1, <3>1 DEF DecodeMessage
    <3> QED
      BY <3>2, <3>3
  <2> HIDE DEF n, sum
  <2> QED
    BY <2>2, <2>3
<1>6. LET d == g5120_message_decode(b) IN d.ok /\ d.cmd = cmd /\ d.payload = payload
  <2>1. LET d == g5120_message_decode(b)
        IN /\ DecodeMessage(b).err = "nil" <=> d.ok
           /\ DecodeMessage(b) = Message(DecodeMessage(b).err, d.cmd, d.payload)
    BY <1>2, MessageDecodersAgree
  <2> QED
    BY <1>5, <2>1 DEF Message
<1>7. Len(b) <= MaxPack
  BY <1>2
<1> QED
  BY <1>2, <1>5, <1>6, <1>7 DEF b

-----------------------------------------------------------------------------
(* Transfers *)

\* What rx_classify makes of any bytes.
LEMMA ClassifyIs ==
  ASSUME NEW b \in ByteStrings
  PROVE  LET pack == g5120_pack_decode(b)
             m == g5120_message_decode(pack.payload)
             ack == m.cmd = 176 /\ Len(m.payload) = 2
             rx == rx_classify(b)
         IN /\ pack.ok /\ pack.flags \in {176, 178} => rx.kind = "tls" /\ rx.payload = pack.payload
            /\ pack.ok /\ pack.flags = 160 /\ m.ok =>
                 /\ ack => rx.kind = "ack" /\ rx.acked = m.payload[1]
                 /\ ~ack => /\ rx.kind \in {"fdt", "data"} /\ rx.acked = 0
                            /\ rx.kind = "fdt" <=> m.cmd \in {50, 52, 54} /\ g5120_fdt_decode_event(m.cmd, m.payload).ok
                 /\ rx.cmd = m.cmd /\ rx.payload = m.payload
                 /\ rx.event = g5120_fdt_decode_event(m.cmd, m.payload)
            /\ ~(pack.ok /\ (pack.flags \in {176, 178} \/ (pack.flags = 160 /\ m.ok))) => rx.kind = "other"
<1> DEFINE pack == g5120_pack_decode(b)
           m == g5120_message_decode(pack.payload)
           a == g5120_ack_decode(m.cmd, m.payload)
           e == g5120_fdt_decode_event(m.cmd, m.payload)
           ack == m.cmd = 176 /\ Len(m.payload) = 2
           rx == rx_classify(b)
           kind == IF a.ok THEN "ack" ELSE IF g5120_is_fdt_cmd(m.cmd) /\ e.ok THEN "fdt" ELSE "data"
<1>1. a.ok <=> ack
  BY DEF g5120_ack_decode, G5120_CMD_ACK
<1>2. a.acked = IF ack THEN m.payload[1] ELSE 0
  BY DEF g5120_ack_decode, G5120_CMD_ACK
<1>3. g5120_is_fdt_cmd(m.cmd) <=> m.cmd \in {50, 52, 54}
  BY DEF g5120_is_fdt_cmd, G5120_CMD_FDT_DOWN, G5120_CMD_FDT_UP, G5120_CMD_FDT_MANUAL
<1>4. rx = CASE pack.ok /\ pack.flags \in {176, 178} -> [kind |-> "tls", payload |-> pack.payload]
             [] pack.ok /\ pack.flags = 160 /\ m.ok ->
                  [kind |-> kind, cmd |-> m.cmd, payload |-> m.payload, acked |-> a.acked, event |-> e]
             [] OTHER -> [kind |-> "other"]
  BY DEF rx_classify, G5120_FLAG_TLS, G5120_FLAG_TLS_ALT, G5120_FLAG_MESSAGE
<1> HIDE DEF rx, pack, m, a, e
<1>5. pack.ok /\ pack.flags \in {176, 178} => rx.kind = "tls" /\ rx.payload = pack.payload
  BY <1>4
<1>6. ASSUME pack.ok, pack.flags = 160, m.ok
      PROVE  rx = [kind |-> kind, cmd |-> m.cmd, payload |-> m.payload, acked |-> a.acked, event |-> e]
  <2>1. pack.flags \notin {176, 178}
    BY <1>6
  <2> HIDE DEF kind
  <2> QED
    BY <1>4, <1>6, <2>1
<1>7. ~(pack.ok /\ (pack.flags \in {176, 178} \/ (pack.flags = 160 /\ m.ok))) => rx.kind = "other"
  <2> HIDE DEF kind
  <2> QED
    BY <1>4
<1>8. ASSUME pack.ok, pack.flags = 160, m.ok
      PROVE  /\ ack => rx.kind = "ack" /\ rx.acked = m.payload[1]
             /\ ~ack => /\ rx.kind \in {"fdt", "data"} /\ rx.acked = 0
                        /\ rx.kind = "fdt" <=> m.cmd \in {50, 52, 54} /\ e.ok
             /\ rx.cmd = m.cmd /\ rx.payload = m.payload /\ rx.event = e
  <2>1. rx.kind = kind /\ rx.cmd = m.cmd /\ rx.payload = m.payload /\ rx.event = e /\ rx.acked = a.acked
    <3> HIDE DEF kind
    <3> QED
      BY <1>6, <1>8
  <2>2. ack => kind = "ack"
    BY <1>1
  <2>3. ~ack => kind \in {"fdt", "data"} /\ (kind = "fdt" <=> m.cmd \in {50, 52, 54} /\ e.ok)
    BY <1>1, <1>3
  <2> HIDE DEF kind, ack
  <2> QED
    BY <1>2, <2>1, <2>2, <2>3
<1> QED
  BY <1>5, <1>7, <1>8 DEF rx, pack, m, e

\* What a capture shows of any bytes is what the driver makes of them (rx_classify; Frames).
THEOREM CaptureShowsBytes ==
  ASSUME NEW b \in ByteStrings
  PROVE  LET rx == rx_classify(b)
             f == Frame(b)
         IN CASE rx.kind = "tls" -> f.err = "nil" /\ TLS(f) /\ f.pack = rx.payload
              [] rx.kind = "ack" -> f.err = "nil" /\ f.ack /\ f.cmd = rx.acked
              [] rx.kind \in {"fdt", "data"} ->
                   /\ ~TLS(f) /\ ~f.ack /\ f.cmd = rx.cmd /\ f.payload = rx.payload
                   /\ f.err = "nil" <=> rx.cmd # AckCmd
              [] rx.kind = "other" -> f.err # "nil" \/ f.flags \notin {FlagMessage, FlagTLSData, FlagTLSAlt}
<1> DEFINE pack == g5120_pack_decode(b)
           m == g5120_message_decode(pack.payload)
           P == DecodePack(b)
           M == DecodeMessage(P.payload)
           A == DecodeAck(M)
           f == Frame(b)
           rx == rx_classify(b)
           ack == m.cmd = 176 /\ Len(m.payload) = 2
           e == g5120_fdt_decode_event(m.cmd, m.payload)
<1>1. /\ P.err = "nil" <=> pack.ok
      /\ P.flags = pack.flags /\ P.payload = pack.payload
      /\ pack.flags \in Octet /\ pack.payload \in ByteStrings
  BY PackDecodersAgree DEF Pack
<1>2. /\ M.err = "nil" <=> m.ok
      /\ M.cmd = m.cmd /\ M.payload = m.payload
  BY <1>1, MessageDecodersAgree DEF Message
<1>3. /\ A.err = "nil" <=> ack
      /\ ack => A.acked = m.payload[1]
  BY <1>2 DEF DecodeAck, AckCmd
<1>4. /\ pack.ok /\ pack.flags \in {176, 178} => rx.kind = "tls" /\ rx.payload = pack.payload
      /\ pack.ok /\ pack.flags = 160 /\ m.ok =>
           /\ ack => rx.kind = "ack" /\ rx.acked = m.payload[1]
           /\ ~ack => rx.kind \in {"fdt", "data"}
           /\ rx.cmd = m.cmd /\ rx.payload = m.payload
      /\ ~(pack.ok /\ (pack.flags \in {176, 178} \/ (pack.flags = 160 /\ m.ok))) => rx.kind = "other"
  BY ClassifyIs
<1> DEFINE raw == [err |-> P.err, flags |-> P.flags, pack |-> P.payload, cmd |-> 0, payload |-> <<>>, ack |-> FALSE]
           message == [raw EXCEPT !.err = M.err, !.cmd = M.cmd, !.payload = M.payload]
           tls == P.flags \in {176, 178}
<1>5. f = CASE P.err # "nil" \/ tls -> raw
            [] P.err = "nil" /\ ~tls /\ (M.err # "nil" \/ M.cmd # 176) -> message
            [] OTHER -> [message EXCEPT !.err = A.err, !.ack = A.err = "nil",
                                        !.cmd = IF A.err = "nil" THEN A.acked ELSE @,
                                        !.payload = IF A.err = "nil" THEN <<>> ELSE @]
  BY DEF Frame, TLS, FlagTLSData, FlagTLSAlt, AckCmd
<1>6. TLS(f) <=> f.flags \in {176, 178}
  BY DEF TLS, FlagTLSData, FlagTLSAlt
<1> HIDE DEF f, rx, P, M, A, pack, m, ack
<1>7. CASE P.err # "nil" \/ tls
  <2>1. f = raw
    <3> HIDE DEF raw, message, tls
    <3> QED
      BY <1>5, <1>7
  <2>2. f.err = P.err /\ f.flags = P.flags /\ f.pack = P.payload /\ ~f.ack
    BY <2>1
  <2>3. CASE P.err # "nil"
    <3>1. rx.kind = "other" /\ f.err # "nil"
      BY <1>1, <1>4, <2>2, <2>3
    <3> QED
      BY <3>1 DEF f, rx
  <2>4. CASE P.err = "nil"
    <3>1. rx.kind = "tls" /\ f.err = "nil" /\ TLS(f) /\ f.pack = rx.payload
      BY <1>1, <1>4, <1>6, <1>7, <2>2, <2>4
    <3> QED
      BY <3>1 DEF f, rx
  <2> QED
    BY <2>3, <2>4
<1>8. CASE P.err = "nil" /\ ~tls /\ (M.err # "nil" \/ M.cmd # 176)
  <2>1. f = message
    <3> HIDE DEF raw, message, tls
    <3> QED
      BY <1>5, <1>8
  <2>2. /\ f.err = M.err /\ f.flags = P.flags /\ f.cmd = M.cmd /\ f.payload = M.payload /\ ~f.ack
    BY <2>1
  <2>3. ~ack \/ M.err # "nil"
    BY <1>2, <1>8 DEF ack
  <2>4. CASE M.err = "nil" /\ P.flags = 160
    <3>1. /\ rx.kind \in {"fdt", "data"} /\ rx.cmd = m.cmd /\ rx.payload = m.payload
          /\ ~TLS(f) /\ f.err = "nil" /\ rx.cmd # 176
      BY <1>1, <1>2, <1>4, <1>6, <1>8, <2>2, <2>3, <2>4
    <3>2. ~TLS(f) /\ ~f.ack /\ f.cmd = rx.cmd /\ f.payload = rx.payload /\ (f.err = "nil" <=> rx.cmd # AckCmd)
      BY <3>1, <2>2, <1>2 DEF AckCmd
    <3> QED
      BY <3>1, <3>2 DEF f, rx
  <2>5. CASE ~(M.err = "nil" /\ P.flags = 160)
    <3>1. rx.kind = "other" /\ (f.err # "nil" \/ f.flags \notin {FlagMessage, FlagTLSData, FlagTLSAlt})
      BY <1>1, <1>2, <1>4, <1>8, <2>2, <2>5 DEF FlagMessage, FlagTLSData, FlagTLSAlt
    <3> QED
      BY <3>1 DEF f, rx
  <2> QED
    BY <2>4, <2>5
<1>9. CASE P.err = "nil" /\ ~tls /\ M.err = "nil" /\ M.cmd = 176
  <2>1. f = [message EXCEPT !.err = A.err, !.ack = A.err = "nil",
                            !.cmd = IF A.err = "nil" THEN A.acked ELSE @,
                            !.payload = IF A.err = "nil" THEN <<>> ELSE @]
    <3> HIDE DEF raw, message, tls
    <3> QED
      BY <1>5, <1>9
  <2>2. /\ f.err = A.err /\ f.flags = P.flags /\ (f.ack <=> A.err = "nil")
        /\ f.cmd = (IF A.err = "nil" THEN A.acked ELSE M.cmd)
        /\ f.payload = (IF A.err = "nil" THEN <<>> ELSE M.payload)
    BY <2>1
  <2>3. CASE P.flags # 160
    <3>1. rx.kind = "other" /\ f.flags \notin {FlagMessage, FlagTLSData, FlagTLSAlt}
      BY <1>1, <1>4, <1>9, <2>2, <2>3 DEF FlagMessage, FlagTLSData, FlagTLSAlt
    <3> QED
      BY <3>1 DEF f, rx
  <2>4. CASE P.flags = 160 /\ ack
    <3>1. rx.kind = "ack" /\ f.err = "nil" /\ f.ack /\ f.cmd = rx.acked
      BY <1>1, <1>2, <1>3, <1>4, <1>9, <2>2, <2>4
    <3> QED
      BY <3>1 DEF f, rx
  <2>5. CASE P.flags = 160 /\ ~ack
    <3>1. rx.kind \in {"fdt", "data"} /\ rx.cmd = m.cmd /\ rx.payload = m.payload /\ ~TLS(f)
      BY <1>1, <1>2, <1>4, <1>6, <1>9, <2>2, <2>5
    <3>2. ~TLS(f) /\ ~f.ack /\ f.cmd = rx.cmd /\ f.payload = rx.payload /\ (f.err = "nil" <=> rx.cmd # AckCmd)
      BY <3>1, <2>2, <1>2, <1>3, <1>9, <2>5 DEF AckCmd
    <3> QED
      BY <3>1, <3>2 DEF f, rx
  <2> QED
    BY <2>3, <2>4, <2>5
<1> QED
  <2> HIDE DEF raw, message
  <2> QED
    BY <1>7, <1>8, <1>9

-----------------------------------------------------------------------------
(* Finger detection *)

\* A number a word of the readings can be.
LEMMA WordIs ==
  ASSUME NEW b \in ByteStrings, NEW i \in Int, 1 <= i, i + 1 <= Len(b)
  PROVE  Short(b, i) \in Nat /\ Uint16(b, i) = Short(b, i)
<1>1. Len(b) \in Nat /\ \A j \in 1..Len(b) : b[j] \in Nat
  BY BytesAre
<1>2. i \in 1..Len(b) /\ i + 1 \in 1..Len(b)
  BY <1>1
<1>3. b[i] \in Nat /\ b[i + 1] \in Nat
  BY <1>1, <1>2
<1> QED
  BY <1>3 DEF Short, Uint16

\* The two decoders of an event are of one mind about any bytes.
THEOREM EventDecodersAgree ==
  ASSUME NEW cmd, NEW payload \in ByteStrings
  PROVE  LET e == DecodeFDTEvent(cmd, payload)
             d == g5120_fdt_decode_event(cmd, payload)
         IN /\ e.err = "nil" <=> d.ok
            /\ d.ok => /\ e.kind = d.kind /\ e.flags = d.touchflags /\ e.zones = d.zones
                       /\ d.zones \in [1..6 -> Nat] /\ d.touchflags \in Octet
                       /\ d.kind \in {"down", "up", "base invalid", "manual", "unknown"}
                       /\ d.kind \in {"down", "base invalid"} => cmd = 50
                       /\ d.kind = "up" => cmd = 52
                       /\ d.kind = "manual" => cmd = 54
<1> DEFINE e == DecodeFDTEvent(cmd, payload)
           d == g5120_fdt_decode_event(cmd, payload)
           b1 == payload[1]
           b2 == payload[2]
           kind == CASE cmd = 50 /\ b1 = 128 -> "base invalid"
                     [] cmd = 50 /\ b1 = 2 /\ b2 = 0 -> "down"
                     [] cmd = 52 /\ b1 = 0 /\ b2 = 2 -> "up"
                     [] cmd = 54 /\ b1 = 0 /\ b2 = 1 -> "manual"
                     [] OTHER -> "unknown"
           zones == [i \in 1..6 |-> Short(payload, 3 + 2 * i)]
<1>1. CASE Len(payload) # 16
  <2>1. e.err = "ErrFDTEvent"
    BY <1>1 DEF DecodeFDTEvent, fdtFrameLen, fdtHeaderLen, FDTZones
  <2>2. ~d.ok
    BY <1>1 DEF g5120_fdt_decode_event
  <2> QED
    BY <2>1, <2>2
<1>2. CASE Len(payload) = 16
  <2>1. ASSUME NEW i \in 1..6
        PROVE  Short(payload, 3 + 2 * i) \in Nat /\ Uint16(payload, 3 + 2 * i) = Short(payload, 3 + 2 * i)
    <3> DEFINE w == 3 + 2 * i
    <3>1. w \in Int /\ 1 <= w /\ w + 1 <= Len(payload)
      BY <1>2
    <3>2. Short(payload, w) \in Nat /\ Uint16(payload, w) = Short(payload, w)
      <4> HIDE DEF w
      <4> QED
        BY <3>1, WordIs
    <3> QED
      BY <3>2
  <2>2. zones \in [1..6 -> Nat]
    BY <2>1
  <2>3. zones = [i \in 1..FDTZones |-> Uint16(payload, fdtHeaderLen + 2 * i - 1)]
    <3>1. FDTZones = 6 /\ fdtHeaderLen = 4
      BY DEF FDTZones, fdtHeaderLen
    <3>2. \A i \in 1..6 : 4 + 2 * i - 1 = 3 + 2 * i
      OBVIOUS
    <3> QED
      BY <2>1, <3>1, <3>2
  <2>4. payload[3] \in Octet
    <3>1. 3 \in 1..Len(payload)
      BY <1>2
    <3> QED
      BY <3>1, BytesAre
  <2>5. Kind(cmd, b1, b2) = kind
    BY DEF Kind
  <2>6. d = [ok |-> TRUE, touchflags |-> payload[3], zones |-> zones, kind |-> kind]
    BY <1>2 DEF g5120_fdt_decode_event, Zone, G5120_CMD_FDT_DOWN, G5120_CMD_FDT_UP, G5120_CMD_FDT_MANUAL
  <2>7. e = [err |-> "nil", kind |-> kind, flags |-> payload[3], zones |-> zones]
    <3>1. fdtFrameLen = 16
      BY DEF fdtFrameLen, fdtHeaderLen, FDTZones
    <3> HIDE DEF kind, zones
    <3> QED
      BY <1>2, <2>3, <2>5, <3>1 DEF DecodeFDTEvent
  <2>8. /\ kind \in {"down", "up", "base invalid", "manual", "unknown"}
        /\ kind \in {"down", "base invalid"} => cmd = 50
        /\ kind = "up" => cmd = 52
        /\ kind = "manual" => cmd = 54
    OBVIOUS
  <2> HIDE DEF e, d, kind, zones
  <2>9. /\ d.ok /\ d.touchflags = payload[3] /\ d.zones = zones /\ d.kind = kind
        /\ e.err = "nil" /\ e.kind = kind /\ e.flags = payload[3] /\ e.zones = zones
    BY <2>6, <2>7
  <2>10. /\ e.err = "nil" <=> d.ok
         /\ d.ok => /\ e.kind = d.kind /\ e.flags = d.touchflags /\ e.zones = d.zones
                    /\ d.zones \in [1..6 -> Nat] /\ d.touchflags \in Octet
                    /\ d.kind \in {"down", "up", "base invalid", "manual", "unknown"}
                    /\ d.kind \in {"down", "base invalid"} => cmd = 50
                    /\ d.kind = "up" => cmd = 52
                    /\ d.kind = "manual" => cmd = 54
    BY <2>2, <2>4, <2>8, <2>9
  <2> QED
    BY <2>10 DEF e, d
<1> QED
  BY <1>1, <1>2

\* Both codecs clamp a threshold to a byte.
LEMMA Saturated ==
  ASSUME NEW v \in Nat
  PROVE  clamp_u8(v) = saturate(v) /\ clamp_u8(v) \in Octet
BY DEF clamp_u8, saturate, Octet

\* The thresholds the two languages make of the same readings; a byte each.
THEOREM DownThresholdsAgree ==
  ASSUME NEW zones \in [1..6 -> Nat]
  PROVE  /\ DownThresholds(zones) = g5120_fdt_down_thresholds(zones)
         /\ g5120_fdt_down_thresholds(zones) \in [1..6 -> Octet]
<1>1. \A i \in 1..6 : zones[i] \div 2 \in Nat
  OBVIOUS
<1>2. \A i \in 1..6 : /\ clamp_u8(zones[i] \div 2) = saturate(zones[i] \div 2)
                      /\ clamp_u8(zones[i] \div 2) \in Octet
  BY <1>1, Saturated
<1> QED
  BY <1>2 DEF DownThresholds, g5120_fdt_down_thresholds, FDTZones, Zone

\* A bit, by the two ways of asking for it.
LEMMA BitIs ==
  ASSUME NEW flags \in Nat, NEW i \in 1..6
  PROVE  (flags % 2^i) >= 2^(i - 1) <=> (flags \div 2^(i - 1)) % 2 = 1
<1>1. 2^0 = 1 /\ 2^1 = 2 /\ 2^2 = 4 /\ 2^3 = 8 /\ 2^4 = 16 /\ 2^5 = 32 /\ 2^6 = 64
  OBVIOUS
<1>2. CASE i = 1
  <2>1. (flags % 2) >= 1 <=> (flags \div 1) % 2 = 1
    OBVIOUS
  <2> QED
    BY <1>1, <1>2, <2>1
<1>3. CASE i = 2
  <2>1. (flags % 4) >= 2 <=> (flags \div 2) % 2 = 1
    OBVIOUS
  <2> QED
    BY <1>1, <1>3, <2>1
<1>4. CASE i = 3
  <2>1. (flags % 8) >= 4 <=> (flags \div 4) % 2 = 1
    OBVIOUS
  <2> QED
    BY <1>1, <1>4, <2>1
<1>5. CASE i = 4
  <2>1. (flags % 16) >= 8 <=> (flags \div 8) % 2 = 1
    OBVIOUS
  <2> QED
    BY <1>1, <1>5, <2>1
<1>6. CASE i = 5
  <2>1. (flags % 32) >= 16 <=> (flags \div 16) % 2 = 1
    OBVIOUS
  <2> QED
    BY <1>1, <1>6, <2>1
<1>7. CASE i = 6
  <2>1. (flags % 64) >= 32 <=> (flags \div 32) % 2 = 1
    OBVIOUS
  <2> QED
    BY <1>1, <1>7, <2>1
<1> QED
  BY <1>2, <1>3, <1>4, <1>5, <1>6, <1>7

\* The thresholds for a finger that lifts, from the zones it touches, are the same in both
\* codecs, of the delta that this device needs (g5120_fdt_up_thresholds; UpThresholds).
THEOREM UpThresholdsAgree ==
  ASSUME NEW e, e.zones \in [1..6 -> Nat], e.flags \in Nat
  PROVE  LET up == g5120_fdt_up_thresholds(e.zones, e.flags, G5120_FDT_DELTA_THIS_DEVICE)
         IN UpThresholds(e, FDTDeltaObserved) = up /\ up \in [1..6 -> Octet]
<1> DEFINE zones == e.zones
           flags == e.flags
           covered == {i \in 1..6 : (flags % 2^i) >= 2^(i - 1)}
           bit(i) == (flags \div 2^(i - 1)) % 2 = 1
           one(i) == clamp_u8(zones[i] \div 2 + 27)
           up == [i \in 1..6 |-> IF bit(i) THEN one(i) ELSE 25]
<1>1. \A i \in 1..6 : zones[i] \div 2 + 27 \in Nat
  OBVIOUS
<1>2. \A i \in 1..6 : one(i) = saturate(zones[i] \div 2 + 27) /\ one(i) \in Octet
  BY <1>1, Saturated
<1>3. \A i \in 1..6 : i \in covered <=> bit(i)
  BY BitIs
<1>4. g5120_fdt_up_thresholds(e.zones, e.flags, G5120_FDT_DELTA_THIS_DEVICE) = up
  BY DEF g5120_fdt_up_thresholds, G5120_FDT_DELTA_THIS_DEVICE, G5120_FDT_UP_UNTOUCHED, Zone
<1>5. UpThresholds(e, FDTDeltaObserved)
        = [i \in 1..6 |-> IF i \in covered THEN saturate(zones[i] \div 2 + 27) ELSE 25]
  BY DEF UpThresholds, FDTDeltaObserved, FDTZones, FDTUntouchedUp
<1>6. 25 \in Octet
  BY DEF Octet
<1> HIDE DEF covered, bit, one
<1>7. UpThresholds(e, FDTDeltaObserved) = up
  BY <1>2, <1>3, <1>5
<1>8. up \in [1..6 -> Octet]
  BY <1>2, <1>6
<1> QED
  BY <1>4, <1>7, <1>8

-----------------------------------------------------------------------------
(* Frames *)

\* A table of bytes is a string of them.
LEMMA FunctionIsBytes ==
  ASSUME NEW n \in Nat, NEW f \in [1..n -> Octet]
  PROVE  f \in ByteStrings /\ Len(f) = n
<1>1. f \in Seq(Octet)
  BY SeqDef
<1>2. Len(f) \in Nat /\ DOMAIN f = 1..Len(f)
  BY <1>1, LenProperties
<1>3. DOMAIN f = 1..n
  OBVIOUS
<1>4. Len(f) = n
  BY <1>2, <1>3
<1> QED
  BY <1>1, <1>4 DEF ByteStrings, Octet

\* Padding makes whole packets.
LEMMA Padded ==
  ASSUME NEW frame \in ByteStrings
  PROVE  /\ \E padding \in ByteStrings : g5120_pad_to_packet(frame) = frame \o padding
         /\ Len(g5120_pad_to_packet(frame)) % 64 = 0
<1> DEFINE n == (-Len(frame)) % 64
           padding == [i \in 1..n |-> 0]
<1>1. Len(frame) \in Nat /\ n \in Nat /\ (Len(frame) + n) % 64 = 0
  <2>1. Len(frame) \in Nat
    BY BytesAre
  <2>2. \A k \in Nat : (-k) % 64 \in Nat /\ (k + ((-k) % 64)) % 64 = 0
    OBVIOUS
  <2> QED
    BY <2>1, <2>2
<1>2. padding \in [1..n -> Octet]
  BY OctetSum
<1>3. padding \in ByteStrings /\ Len(padding) = n
  <2> HIDE DEF n, padding
  <2> QED
    BY <1>1, <1>2, FunctionIsBytes
<1>4. g5120_pad_to_packet(frame) = frame \o padding
  BY DEF g5120_pad_to_packet, G5120_USB_PACKET_SIZE
<1> HIDE DEF padding, n
<1>5. Len(frame \o padding) = Len(frame) + n
  BY <1>3, Concatenated
<1> QED
  BY <1>1, <1>3, <1>4, <1>5

\* What the driver sends in whole packets, the library reads back.
THEOREM CommandFramesAreRead ==
  ASSUME NEW cmd \in Octet, NEW payload \in ByteStrings, Len(payload) + 4 <= MaxPack,
         g5120_check_send(cmd, Len(payload))
  PROVE  LET frame == g5120_command_frame(cmd, payload)
         IN /\ frame # <<>> /\ Len(frame) % G5120_USB_PACKET_SIZE = 0
            /\ DecodePack(frame).err = "nil" /\ DecodePack(frame).flags = FlagMessage
            /\ DecodeMessage(DecodePack(frame).payload) = Message("nil", cmd, payload)
<1> DEFINE message == EncodeMessage(cmd, payload, FALSE)
           frame == g5120_command_frame(cmd, payload)
           pack == EncodePack(160, message)
<1>1. 160 \in Octet
  BY DEF Octet
<1>2. /\ message \in ByteStrings /\ Len(message) <= MaxPack
      /\ DecodeMessage(message) = Message("nil", cmd, payload)
  BY MessageRoundTrip
<1>3. message = g5120_message_encode(cmd, payload)
  BY MessageIs
<1> HIDE DEF message
<1>4. pack \in ByteStrings /\ pack = g5120_pack_encode(160, message)
  BY <1>1, <1>2, PackIs
<1>5. frame = g5120_pad_to_packet(pack)
  BY <1>3, <1>4 DEF g5120_command_frame, G5120_FLAG_MESSAGE
<1> HIDE DEF frame
<1>6. PICK padding \in ByteStrings : frame = pack \o padding
  BY <1>4, <1>5, Padded
<1>7. Len(frame) % 64 = 0
  BY <1>4, <1>5, Padded
<1>8. frame # <<>> /\ DecodePack(frame) = Pack("nil", 160, message)
  BY <1>1, <1>2, <1>6, PackRoundTrip
<1> QED
  BY <1>2, <1>7, <1>8 DEF G5120_USB_PACKET_SIZE, Pack, FlagMessage, frame

\* An arm fits in a pack.
LEMMA ShortMessageFits == \A k \in Nat : k <= 16 => k + 4 <= MaxPack
BY DEF MaxPack

\* The length of the payload of an arm, and that it may be sent.
LEMMA ArmMayBeSent ==
  /\ g5120_check_send(50, 16) /\ g5120_check_send(52, 14) /\ g5120_check_send(54, 14)
BY DEF g5120_check_send, opcode_table

\* A marker before each threshold.
LEMMA MarkersAre ==
  ASSUME NEW t \in [1..6 -> Octet]
  PROVE  LET marked == [i \in 1..12 |-> IF i % 2 = 1 THEN 128 ELSE t[i \div 2]]
         IN /\ marked \in ByteStrings /\ Len(marked) = 12
            /\ \A i \in 1..6 : marked[2 * i - 1] = 128 /\ marked[2 * i] = t[i]
<1> DEFINE item(i) == IF i % 2 = 1 THEN 128 ELSE t[i \div 2]
           marked == [i \in 1..12 |-> item(i)]
<1>1. 128 \in Octet
  BY DEF Octet
<1>2. ASSUME NEW i \in 1..12 PROVE item(i) \in Octet
  <2>1. i % 2 # 1 => i \div 2 \in 1..6
    OBVIOUS
  <2> QED
    BY <1>1, <2>1
<1>3. ASSUME NEW i \in 1..6
      PROVE  /\ 2 * i - 1 \in 1..12 /\ item(2 * i - 1) = 128
             /\ 2 * i \in 1..12 /\ item(2 * i) = t[i]
  <2>1. (2 * i - 1) % 2 = 1 /\ (2 * i) % 2 # 1 /\ (2 * i) \div 2 = i
    OBVIOUS
  <2> QED
    BY <2>1
<1> HIDE DEF item
<1>4. marked \in [1..12 -> Octet]
  BY <1>2, Zenon
<1>5. \A i \in 1..12 : marked[i] = item(i)
  BY Zenon
<1> HIDE DEF marked
<1>6. \A i \in 1..6 : marked[2 * i - 1] = 128 /\ marked[2 * i] = t[i]
  BY <1>3, <1>5
<1>7. marked \in ByteStrings /\ Len(marked) = 12
  <2> DEFINE n == 12
  <2>1. n \in Nat /\ marked \in [1..n -> Octet]
    BY <1>4
  <2>2. marked \in ByteStrings /\ Len(marked) = n
    <3> HIDE DEF n
    <3> QED
      BY <2>1, FunctionIsBytes
  <2> QED
    BY <2>2
<1> QED
  BY <1>6, <1>7 DEF marked, item

\* An arm of the driver is an arm to the library.
THEOREM ArmsAreRead ==
  ASSUME NEW cmd \in {50, 52, 54}, NEW t \in [1..6 -> Octet], NEW clock \in 0..MaxPack
  PROVE  LET frame == g5120_command_frame(cmd, g5120_fdt_encode_arm(cmd, t, clock))
             m == DecodeMessage(DecodePack(frame).payload)
             arm == DecodeFDTArm(m.cmd, m.payload)
         IN /\ frame # <<>> /\ Len(frame) % G5120_USB_PACKET_SIZE = 0
            /\ m.cmd = cmd /\ arm.err = "nil" /\ arm.thresholds = t
            /\ cmd = 50 => arm.timestamp = clock
<1> DEFINE mode == CASE cmd = 50 -> 12 [] cmd = 52 -> 14 [] cmd = 54 -> 13
           head == <<mode, 1>>
           marked == [i \in 1..12 |-> IF i % 2 = 1 THEN 128 ELSE t[i \div 2]]
           lo == clock % 256
           hi == (clock \div 256) % 256
           time == IF cmd = 50 THEN <<lo, hi>> ELSE <<>>
           front == head \o marked
           payload == front \o time
           n == IF cmd = 50 THEN 16 ELSE 14
<1>1. mode \in Octet /\ 1 \in Octet
  BY DEF Octet
<1>2. head \in ByteStrings /\ Len(head) = 2 /\ head[1] = mode
  <2> HIDE DEF mode
  <2> QED
    BY <1>1, TwoBytes
<1>3. /\ marked \in ByteStrings /\ Len(marked) = 12
      /\ \A i \in 1..6 : marked[2 * i - 1] = 128 /\ marked[2 * i] = t[i]
  BY MarkersAre
<1> HIDE DEF marked
<1>4. /\ time \in ByteStrings /\ Len(time) = n - 14
      /\ cmd = 50 => time[1] = lo /\ time[2] = hi
  <2>2. lo \in Octet /\ hi \in Octet
    BY LittleEndian
  <2> HIDE DEF lo, hi
  <2>3. CASE cmd = 50
    BY <2>2, <2>3, TwoBytes
  <2>4. CASE cmd # 50
    BY <2>4, EmptyBytes
  <2> QED
    BY <2>3, <2>4
<1>5. /\ front \in ByteStrings /\ Len(front) = 14 /\ front[1] = mode
      /\ \A i \in 1..12 : front[2 + i] = marked[i]
  <2>1. /\ front \in ByteStrings /\ Len(front) = Len(head) + Len(marked)
        /\ \A i \in 1..Len(head) : front[i] = head[i]
        /\ \A i \in 1..Len(marked) : front[Len(head) + i] = marked[i]
    <3>1. head \in ByteStrings /\ marked \in ByteStrings
      BY <1>2, <1>3
    <3> HIDE DEF head, marked
    <3> QED
      BY <3>1, Concatenated, SMTT(20)
  <2>2. 1 \in 1..2
    OBVIOUS
  <2> HIDE DEF front, head, marked, mode
  <2> QED
    BY <1>2, <1>3, <2>1, <2>2
<1>6. /\ payload \in ByteStrings /\ Len(payload) = n /\ payload[1] = mode
      /\ \A i \in 1..12 : payload[2 + i] = marked[i]
      /\ cmd = 50 => payload[15] = lo /\ payload[16] = hi
  <2>1. /\ payload \in ByteStrings /\ Len(payload) = Len(front) + Len(time)
        /\ \A i \in 1..Len(front) : payload[i] = front[i]
        /\ \A i \in 1..Len(time) : payload[Len(front) + i] = time[i]
    <3>1. front \in ByteStrings /\ time \in ByteStrings
      BY <1>4, <1>5
    <3> HIDE DEF front, time
    <3> QED
      BY <3>1, Concatenated, SMTT(20)
  <2>2. 1 \in 1..14 /\ \A i \in 1..12 : 2 + i \in 1..14
    OBVIOUS
  <2>3. cmd = 50 => Len(time) = 2
    BY <1>4
  <2>4. 1 \in 1..2 /\ 2 \in 1..2 /\ 14 + 1 = 15 /\ 14 + 2 = 16
    OBVIOUS
  <2>5. n \in Nat /\ 14 + (n - 14) = n
    OBVIOUS
  <2> HIDE DEF front, time, marked, mode, lo, hi, payload, n
  <2>6. Len(payload) = n
    BY <1>4, <1>5, <2>1, <2>5
  <2>7. payload[1] = mode /\ \A i \in 1..12 : payload[2 + i] = marked[i]
    BY <1>5, <2>1, <2>2
  <2>8. ASSUME cmd = 50 PROVE payload[15] = lo /\ payload[16] = hi
    <3>1. payload[14 + 1] = time[1] /\ payload[14 + 2] = time[2]
      BY <1>5, <2>1, <2>3, <2>4, <2>8
    <3> QED
      BY <1>4, <2>4, <2>8, <3>1
  <2> QED
    BY <2>1, <2>6, <2>7, <2>8
<1>7. g5120_fdt_encode_arm(cmd, t, clock) = payload
  <2>1. Shorts(clock) = <<lo, hi>>
    BY DEF Shorts, Byte
  <2> HIDE DEF lo, hi
  <2> QED
    BY <2>1, Zenon DEF g5120_fdt_encode_arm, G5120_CMD_FDT_DOWN, G5120_CMD_FDT_UP, G5120_CMD_FDT_MANUAL, marked
<1>8. \A i \in 1..6 : payload[2 * i + 1] = 128 /\ payload[2 * i + 2] = t[i]
  <2> SUFFICES ASSUME NEW i \in 1..6 PROVE payload[2 * i + 1] = 128 /\ payload[2 * i + 2] = t[i]
    OBVIOUS
  <2>1. /\ 2 * i - 1 \in 1..12 /\ (2 * i - 1) % 2 = 1 /\ 2 + (2 * i - 1) = 2 * i + 1
        /\ 2 * i \in 1..12 /\ (2 * i) % 2 # 1 /\ (2 * i) \div 2 = i /\ 2 + 2 * i = 2 * i + 2
    OBVIOUS
  <2> DEFINE odd == 2 * i - 1
             even == 2 * i
  <2>2. marked[odd] = 128
    BY <1>3
  <2>3. marked[even] = t[i]
    BY <1>3
  <2>4. payload[2 + odd] = marked[odd] /\ payload[2 + even] = marked[even]
    <3> HIDE DEF payload, marked
    <3> QED
      BY <1>6, <2>1
  <2> HIDE DEF payload, marked
  <2> QED
    BY <2>1, <2>2, <2>3, <2>4
<1> HIDE DEF payload
<1>9. /\ DecodeFDTArm(cmd, payload).err = "nil" /\ DecodeFDTArm(cmd, payload).thresholds = t
      /\ cmd = 50 => DecodeFDTArm(cmd, payload).timestamp = clock
  <2>1. fdtArmMode(cmd).mode = mode /\ fdtArmMode(cmd).length = n
    BY DEF fdtArmMode, FDTZones
  <2>2. FDTZones = 6 /\ fdtArmMarker = 128 /\ FDTCommands = {50, 52, 54}
    BY DEF FDTZones, fdtArmMarker, FDTCommands
  <2> DEFINE thresholds == [i \in 1..6 |-> payload[2 * i + 2]]
             time2 == IF cmd = 50 THEN Uint16(payload, Len(payload) - 1) ELSE 0
  <2>3. thresholds = t
    BY <1>8
  <2>4. cmd = 50 => time2 = clock
    <3> SUFFICES ASSUME cmd = 50 PROVE time2 = clock
      OBVIOUS
    <3>1. Len(payload) - 1 = 15 /\ 15 + 1 = 16
      BY <1>6
    <3>2. Uint16(payload, 15) = lo + 256 * hi
      BY <1>6, <3>1 DEF Uint16
    <3>4. lo + 256 * hi = clock
      BY LittleEndian
    <3> HIDE DEF lo, hi
    <3> QED
      BY <3>1, <3>2, <3>4
  <2>5. DecodeFDTArm(cmd, payload) = [err |-> "nil", thresholds |-> thresholds, timestamp |-> time2]
    <3> HIDE DEF mode, n, time2
    <3> QED
      BY <1>6, <1>8, <2>1, <2>2 DEF DecodeFDTArm, time2
  <2> HIDE DEF thresholds, time2
  <2> QED
    BY <2>3, <2>4, <2>5
<1>10. cmd \in Octet /\ Len(payload) + 4 <= MaxPack /\ g5120_check_send(cmd, Len(payload))
  <2>1. cmd \in Octet
    BY DEF Octet
  <2>2. Len(payload) + 4 <= MaxPack
    <3>1. Len(payload) \in Nat /\ Len(payload) <= 16
      BY <1>6
    <3> QED
      BY <3>1, ShortMessageFits
  <2>3. g5120_check_send(cmd, Len(payload))
    BY <1>6, ArmMayBeSent
  <2> QED
    BY <2>1, <2>2, <2>3
<1>11. LET frame == g5120_command_frame(cmd, payload)
       IN /\ frame # <<>> /\ Len(frame) % G5120_USB_PACKET_SIZE = 0
          /\ DecodeMessage(DecodePack(frame).payload) = Message("nil", cmd, payload)
  <2> HIDE DEF n
  <2> QED
    BY <1>6, <1>10, CommandFramesAreRead
<1> QED
  BY <1>7, <1>9, <1>11 DEF Message

-----------------------------------------------------------------------------
(* Records in a stream, of which the first n bytes are seen *)

\* The record that follows the first o bytes: its size, whether its header is one of TLS,
\* and whether it is whole.
Size(s, o) == 5 + (256 * s[o + 4] + s[o + 5])
HeaderOk(s, o) ==
  /\ s[o + 1] \in {20, 21, 22, 23} /\ s[o + 2] = 3 /\ s[o + 3] \in 1..3
  /\ 256 * s[o + 4] + s[o + 5] \in 1..MaxTLSRecordBody
WholeAt(s, n, o) == o + 5 <= n /\ HeaderOk(s, o) /\ o + Size(s, o) <= n
RecordAt(s, o) == SubSeq(s, o + 1, o + Size(s, o))

\* A part of a stream.
LEMMA RestIs ==
  ASSUME NEW s \in ByteStrings, NEW n \in 0..Len(s), NEW o \in 0..n
  PROVE  /\ SubSeq(s, o + 1, n) \in ByteStrings
         /\ Len(SubSeq(s, o + 1, n)) = n - o
         /\ \A i \in 1..(n - o) : SubSeq(s, o + 1, n)[i] = s[o + i]
<1> DEFINE m == o + 1
<1>1. m \in Int /\ n \in Int /\ 1 <= m /\ m - 1 <= n /\ n <= Len(s) /\ n - m + 1 = n - o
  BY BytesAre
<1>2. \A i \in 1..(n - o) : m + i - 1 = o + i
  BY <1>1
<1>3. /\ SubSeq(s, m, n) \in ByteStrings /\ Len(SubSeq(s, m, n)) = n - m + 1
      /\ \A i \in 1..(n - m + 1) : SubSeq(s, m, n)[i] = s[m + i - 1]
  <2> HIDE DEF m
  <2> QED
    BY <1>1, Part
<1> QED
  BY <1>1, <1>2, <1>3

\* A part of what is seen is a part of the stream.
LEMMA RestOfRest ==
  ASSUME NEW s \in ByteStrings, NEW n \in 0..Len(s), NEW k \in 0..n, NEW o \in 0..k
  PROVE  SubSeq(SubSeq(s, 1, n), o + 1, k) = SubSeq(s, o + 1, k)
<1> DEFINE b == SubSeq(s, 1, n)
<1>1. Len(s) \in Nat /\ n \in Nat /\ k \in Nat /\ o \in Nat
  BY BytesAre
<1>2. b \in ByteStrings /\ Len(b) = n /\ \A i \in 1..n : b[i] = s[i]
  <2> DEFINE z == 0
  <2>1. z \in 0..n /\ z + 1 = 1 /\ n - z = n /\ \A i \in 1..n : z + i = i
    BY <1>1
  <2>2. /\ SubSeq(s, z + 1, n) \in ByteStrings /\ Len(SubSeq(s, z + 1, n)) = n - z
        /\ \A i \in 1..(n - z) : SubSeq(s, z + 1, n)[i] = s[z + i]
    <3> HIDE DEF z
    <3> QED
      BY <2>1, RestIs
  <2> QED
    BY <2>1, <2>2
<1> HIDE DEF b
<1>3. k \in 0..Len(b) /\ k \in 0..Len(s) /\ k - o \in Nat /\ \A i \in 1..(k - o) : o + i \in 1..n
  BY <1>1, <1>2
<1>4. /\ SubSeq(b, o + 1, k) \in ByteStrings /\ Len(SubSeq(b, o + 1, k)) = k - o
      /\ \A i \in 1..(k - o) : SubSeq(b, o + 1, k)[i] = b[o + i]
  BY <1>2, <1>3, RestIs
<1>5. /\ SubSeq(s, o + 1, k) \in ByteStrings /\ Len(SubSeq(s, o + 1, k)) = k - o
      /\ \A i \in 1..(k - o) : SubSeq(s, o + 1, k)[i] = s[o + i]
  BY <1>3, RestIs
<1>6. \A i \in 1..(k - o) : b[o + i] = s[o + i]
  BY <1>2, <1>3
<1>7. SubSeq(b, o + 1, k) = SubSeq(s, o + 1, k)
  BY <1>4, <1>5, <1>6, SameBytes
<1> QED
  BY <1>7 DEF b

\* The longest record fits in a pack.
LEMMA RecordBodyBound ==
  MaxTLSRecordBody = 18432 /\ MaxTLSRecordBody \in Nat /\ 5 + MaxTLSRecordBody <= MaxPack
BY DEF MaxTLSRecordBody, MaxPack

\* The bytes of a header are numbers.
LEMMA SizeIs ==
  ASSUME NEW s \in ByteStrings, NEW o \in Nat, o + 5 <= Len(s)
  PROVE  /\ \A i \in 1..5 : s[o + i] \in Octet /\ s[o + i] \in Nat
         /\ Size(s, o) \in Nat /\ Size(s, o) >= 5
         /\ HeaderOk(s, o) => Size(s, o) >= 6 /\ Size(s, o) <= 5 + MaxTLSRecordBody
<1>1. Len(s) \in Nat /\ \A i \in 1..Len(s) : s[i] \in Octet /\ s[i] \in Nat
  BY BytesAre
<1>2. \A i \in 1..5 : o + i \in 1..Len(s)
  BY <1>1
<1>3. \A i \in 1..5 : s[o + i] \in Octet /\ s[o + i] \in Nat
  BY <1>1, <1>2
<1>4. s[o + 4] \in Nat /\ s[o + 5] \in Nat
  BY <1>3
<1>5. 256 * s[o + 4] + s[o + 5] \in Nat
  BY <1>4
<1> DEFINE body == 256 * s[o + 4] + s[o + 5]
<1>6. HeaderOk(s, o) => body \in 1..MaxTLSRecordBody
  BY DEF HeaderOk
<1>7. Size(s, o) = 5 + body
  BY DEF Size
<1> HIDE DEF body
<1>8. body \in Nat
  BY <1>5 DEF body
<1> QED
  BY <1>3, <1>6, <1>7, <1>8, RecordBodyBound

\* What ParseTLSRecordHeader says of the bytes that follow the first o.
LEMMA HeaderIs ==
  ASSUME NEW s \in ByteStrings, NEW n \in 0..Len(s), NEW o \in 0..n
  PROVE  LET h == ParseTLSRecordHeader(SubSeq(s, o + 1, n))
         IN /\ o + 5 > n => h.err = "ErrShortBuffer"
            /\ o + 5 <= n /\ ~HeaderOk(s, o) => h.err = "ErrTLSRecord"
            /\ o + 5 <= n /\ HeaderOk(s, o) => h.err = "nil" /\ 5 + h.bodyLen = Size(s, o)
<1> DEFINE rest == SubSeq(s, o + 1, n)
           h == ParseTLSRecordHeader(rest)
           body == 256 * rest[4] + rest[5]
<1>1. /\ rest \in ByteStrings /\ Len(rest) = n - o /\ \A i \in 1..(n - o) : rest[i] = s[o + i]
      /\ n \in Nat /\ o \in Nat /\ Len(s) \in Nat
  BY RestIs, BytesAre
<1> HIDE DEF rest
<1>2. CASE o + 5 > n
  <2>1. Len(rest) < 5
    BY <1>1, <1>2
  <2> QED
    BY <1>2, <2>1 DEF ParseTLSRecordHeader, TLSRecordHeaderLen, rest
<1>3. CASE o + 5 <= n
  <2>1. ~(Len(rest) < 5) /\ \A i \in 1..5 : i \in 1..(n - o)
    BY <1>1, <1>3
  <2>2. /\ rest[1] = s[o + 1] /\ rest[2] = s[o + 2] /\ rest[3] = s[o + 3]
        /\ rest[4] = s[o + 4] /\ rest[5] = s[o + 5]
    BY <1>1, <2>1
  <2>3. HeaderOk(s, o) <=> /\ rest[1] \in {20, 21, 22, 23} /\ rest[2] = 3 /\ rest[3] \in 1..3
                           /\ body \in 1..MaxTLSRecordBody
    BY <2>2 DEF HeaderOk
  <2>4. h = [err |-> IF HeaderOk(s, o) THEN "nil" ELSE "ErrTLSRecord", bodyLen |-> IF HeaderOk(s, o) THEN body ELSE 0]
    BY <2>1, <2>3 DEF ParseTLSRecordHeader, TLSRecordHeaderLen,
         TLSChangeCipherSpec, TLSAlert, TLSHandshake, TLSApplicationData
  <2>5. 5 + body = Size(s, o)
    BY <2>2 DEF Size
  <2> HIDE DEF h, body
  <2>6. /\ ~HeaderOk(s, o) => h.err = "ErrTLSRecord"
        /\ HeaderOk(s, o) => h.err = "nil" /\ h.bodyLen = body
    BY <2>4
  <2>7. ~(o + 5 > n)
    BY <1>1, <1>3
  <2> QED
    BY <2>5, <2>6, <2>7 DEF h, rest
<1> QED
  BY <1>1, <1>2, <1>3

\* What SplitTLSRecords finds from an offset on, by what it finds from the next.
Onward(s, n, g, o) ==
  IF o = n THEN <<>>
  ELSE IF ~WholeAt(s, n, o) THEN << <<>> >>
  ELSE <<RecordAt(s, o)>> \o g[o + Size(s, o)]
Splits(s, n, g) ==
  /\ g \in [0..n -> Seq(ByteStrings)]
  /\ \A o \in 0..n : g[o] = Onward(s, n, g, o)

\* The bounds of a whole record.
LEMMA RecordIs ==
  ASSUME NEW s \in ByteStrings, NEW n \in 0..Len(s), NEW o \in 0..n, WholeAt(s, n, o)
  PROVE  /\ Size(s, o) \in Nat /\ Size(s, o) >= 6 /\ Size(s, o) <= 5 + MaxTLSRecordBody
         /\ o + Size(s, o) \in 0..n /\ o < o + Size(s, o)
         /\ RecordAt(s, o) \in ByteStrings /\ Len(RecordAt(s, o)) = Size(s, o)
         /\ \A i \in 1..Size(s, o) : RecordAt(s, o)[i] = s[o + i]
         /\ RecordAt(s, o) # <<>>
<1>1. n \in Nat /\ o \in Nat /\ Len(s) \in Nat /\ o + 5 <= n /\ HeaderOk(s, o) /\ o + Size(s, o) <= n
  BY BytesAre DEF WholeAt
<1>2. Size(s, o) \in Nat /\ Size(s, o) >= 6 /\ Size(s, o) <= 5 + MaxTLSRecordBody
  BY <1>1, SizeIs
<1> DEFINE k == o + Size(s, o)
<1>3. k \in 0..n /\ o < k /\ k \in 0..Len(s) /\ o \in 0..k /\ k - o = Size(s, o)
  BY <1>1, <1>2
<1>4. /\ SubSeq(s, o + 1, k) \in ByteStrings /\ Len(SubSeq(s, o + 1, k)) = k - o
      /\ \A i \in 1..(k - o) : SubSeq(s, o + 1, k)[i] = s[o + i]
  <2> HIDE DEF k
  <2> QED
    BY <1>3, RestIs
<1>5. RecordAt(s, o) = SubSeq(s, o + 1, k)
  BY DEF RecordAt
<1> HIDE DEF k
<1>6. Len(RecordAt(s, o)) = Size(s, o) /\ \A i \in 1..Size(s, o) : RecordAt(s, o)[i] = s[o + i]
  BY <1>3, <1>4, <1>5
<1>7. RecordAt(s, o) # <<>>
  BY <1>2, <1>6, EmptyBytes
<1> QED
  BY <1>2, <1>3, <1>4, <1>5, <1>6, <1>7 DEF k

\* There is such a function: the offsets before the end are as many as there are bytes.
LEMMA SplitsExists ==
  ASSUME NEW s \in ByteStrings, NEW n \in 0..Len(s)
  PROVE  \E g : Splits(s, n, g)
<1> DEFINE From(d) == (n - d)..n
           SplitsFrom(g, d) ==
             /\ g \in [From(d) -> Seq(ByteStrings)]
             /\ \A o \in From(d) : g[o] = Onward(s, n, g, o)
           Good(d) == d <= n => \E g : SplitsFrom(g, d)
           A == {d \in Nat : Good(d)}
<1>1. n \in Nat
  BY BytesAre
<1>2. <<>> \in Seq(ByteStrings) /\ << <<>> >> \in Seq(ByteStrings)
  BY EmptyBytes
<1>3. Good(0)
  <2> DEFINE g == [o \in From(0) |-> <<>>]
  <2>1. From(0) = {n}
    BY <1>1
  <2> HIDE DEF From
  <2>2. g[n] = Onward(s, n, g, n)
    BY <2>1 DEF Onward
  <2>3. SplitsFrom(g, 0)
    BY <1>2, <2>1, <2>2
  <2> QED
    BY <2>3
<1>4. ASSUME NEW d \in Nat, Good(d) PROVE Good(d + 1)
  <2> SUFFICES ASSUME d + 1 <= n PROVE \E g : SplitsFrom(g, d + 1)
    OBVIOUS
  <2>1. PICK g : SplitsFrom(g, d)
    <3>1. d <= n
      BY <1>1
    <3> HIDE DEF SplitsFrom
    <3> QED
      BY <1>4, <3>1
  <2> DEFINE x == n - (d + 1)
             h == [o \in From(d + 1) |-> IF o = x THEN Onward(s, n, g, x) ELSE g[o]]
  <2>2. /\ x \in 0..n /\ x # n /\ x \in From(d + 1) /\ x \notin From(d)
        /\ \A o \in From(d + 1) : o # x => o \in From(d)
        /\ \A o \in From(d) : o \in From(d + 1) /\ o \in 0..n
        /\ \A o \in 0..n : o > x => o \in From(d)
    BY <1>1
  <2>3. \A o \in From(d) : h[o] = g[o]
    <3> HIDE DEF From, x
    <3> QED
      BY <2>2
  <2>4. h[x] = Onward(s, n, g, x)
    <3> HIDE DEF From, x
    <3> QED
      BY <2>2
  <2> HIDE DEF h
  <2>5. ASSUME NEW o \in From(d + 1) PROVE Onward(s, n, h, o) = Onward(s, n, g, o)
    <3>1. CASE o = n \/ ~WholeAt(s, n, o)
      BY <3>1 DEF Onward
    <3>2. CASE o # n /\ WholeAt(s, n, o)
      <4>1. o \in 0..n
        BY <2>2
      <4>2. o + Size(s, o) \in 0..n /\ o < o + Size(s, o)
        BY <3>2, <4>1, RecordIs
      <4>3. o >= x
        BY <1>1
      <4>4. o + Size(s, o) \in From(d)
        <5>1. o + Size(s, o) > x
          <6> HIDE DEF From
          <6> QED
            BY <1>1, <2>2, <4>1, <4>2, <4>3
        <5> HIDE DEF From, x
        <5> QED
          BY <2>2, <4>2, <5>1
      <4>5. h[o + Size(s, o)] = g[o + Size(s, o)]
        BY <2>3, <4>4
      <4> QED
        BY <3>2, <4>5 DEF Onward
    <3> QED
      BY <3>1, <3>2
  <2>6. Onward(s, n, g, x) \in Seq(ByteStrings)
    <3>1. CASE ~WholeAt(s, n, x)
      <4> HIDE DEF x
      <4> QED
        BY <1>2, <2>2, <3>1 DEF Onward
    <3>2. CASE WholeAt(s, n, x)
      <4> HIDE DEF x, From
      <4>1. RecordAt(s, x) \in ByteStrings /\ x + Size(s, x) \in 0..n /\ x < x + Size(s, x)
        BY <2>2, <3>2, RecordIs
      <4>2. g[x + Size(s, x)] \in Seq(ByteStrings)
        <5>1. x + Size(s, x) > x
          BY <1>1, <2>2, <4>1
        <5>2. x + Size(s, x) \in From(d)
          BY <2>2, <4>1, <5>1
        <5> QED
          BY <2>1, <5>2
      <4>3. <<RecordAt(s, x)>> \in Seq(ByteStrings)
        BY <4>1
      <4>4. <<RecordAt(s, x)>> \o g[x + Size(s, x)] \in Seq(ByteStrings)
        BY <4>2, <4>3, ConcatProperties
      <4> QED
        BY <2>2, <3>2, <4>4 DEF Onward
    <3> QED
      BY <3>1, <3>2
  <2>7. h \in [From(d + 1) -> Seq(ByteStrings)]
    <3>1. ASSUME NEW o \in From(d + 1) PROVE h[o] \in Seq(ByteStrings)
      <4> HIDE DEF From, x
      <4> QED
        BY <2>1, <2>2, <2>3, <2>4, <2>6
    <3> HIDE DEF From, x
    <3> QED
      BY <3>1 DEF h
  <2>8. ASSUME NEW o \in From(d + 1) PROVE h[o] = Onward(s, n, h, o)
    <3> HIDE DEF From, x
    <3> QED
      BY <2>1, <2>2, <2>3, <2>4, <2>5
  <2>9. SplitsFrom(h, d + 1)
    <3> HIDE DEF From
    <3> QED
      BY <2>7, <2>8
  <2> QED
    BY <2>9
<1> HIDE DEF Good
<1>5. 0 \in A /\ \A d \in Nat : d \in A => d + 1 \in A
  BY <1>3, <1>4
<1>6. n \in A
  <2> HIDE DEF A
  <2> QED
    BY <1>1, <1>5, NatSetInduction
<1>7. PICK g : SplitsFrom(g, n)
  <2>1. n <= n
    BY <1>1
  <2> HIDE DEF SplitsFrom
  <2> QED
    BY <1>6, <2>1 DEF Good
<1>8. From(n) = 0..n
  BY <1>1
<1> HIDE DEF From
<1> QED
  BY <1>7, <1>8 DEF Splits

\* SplitTLSRecords is such a function, from the first offset.
LEMMA SplitIs ==
  ASSUME NEW s \in ByteStrings, NEW n \in 0..Len(s)
  PROVE  \E g : /\ Splits(s, n, g)
               /\ LET records == g[0]
                      split == SplitTLSRecords(SubSeq(s, 1, n))
                  IN IF records = <<>> \/ records[Len(records)] = <<>>
                     THEN split.err = "ErrTLSRecord" /\ split.records = <<>>
                     ELSE split.err = "nil" /\ split.records = records
<1> DEFINE b == SubSeq(s, 1, n)
           L == Len(b)
           Turn(from) ==
             [off \in 0..L |->
                IF off = L THEN <<>>
                ELSE LET rest == SubSeq(b, off + 1, L)
                         h == ParseTLSRecordHeader(rest)
                         size == TLSRecordHeaderLen + h.bodyLen
                     IN IF h.err # "nil" \/ size > Len(rest) THEN << <<>> >>
                        ELSE <<SubSeq(rest, 1, size)>> \o from[off + size]]
           from == CHOOSE from : from = Turn(from)
<1>1. n \in Nat /\ Len(s) \in Nat /\ L = n
  <2>1. n \in Nat /\ Len(s) \in Nat
    BY BytesAre
  <2> DEFINE z == 0
  <2>2. z \in 0..n /\ z + 1 = 1 /\ n - z = n
    BY <2>1
  <2>3. Len(SubSeq(s, z + 1, n)) = n - z
    <3> HIDE DEF z
    <3> QED
      BY <2>2, RestIs
  <2> QED
    BY <2>1, <2>2, <2>3
<1>2. LET split == SplitTLSRecords(b)
          records == from[0]
      IN IF records = <<>> \/ records[Len(records)] = <<>>
         THEN split.err = "ErrTLSRecord" /\ split.records = <<>>
         ELSE split.err = "nil" /\ split.records = records
  <2> DEFINE records == from[0]
  <2>1. SplitTLSRecords(b) = IF records = <<>> \/ records[Len(records)] = <<>>
                             THEN [err |-> "ErrTLSRecord", records |-> <<>>]
                             ELSE [err |-> "nil", records |-> records]
    BY DEF SplitTLSRecords
  <2> DEFINE split == SplitTLSRecords(b)
             last == records[Len(records)]
             bad == records = <<>> \/ last = <<>>
  <2>2. split = IF bad THEN [err |-> "ErrTLSRecord", records |-> <<>>] ELSE [err |-> "nil", records |-> records]
    BY <2>1
  <2> HIDE DEF records, split, bad
  <2>3. bad => split.err = "ErrTLSRecord" /\ split.records = <<>>
    BY <2>2
  <2>4. ~bad => split.err = "nil" /\ split.records = records
    BY <2>2
  <2> QED
    BY <2>3, <2>4 DEF records, split, bad
<1>3. ASSUME NEW o \in 0..n, o # n, NEW g
      PROVE  LET rest == SubSeq(b, o + 1, L)
                 h == ParseTLSRecordHeader(rest)
                 size == TLSRecordHeaderLen + h.bodyLen
             IN (IF h.err # "nil" \/ size > Len(rest) THEN << <<>> >>
                 ELSE <<SubSeq(rest, 1, size)>> \o g[o + size])
                = Onward(s, n, g, o)
  <2> DEFINE rest == SubSeq(s, o + 1, n)
             h == ParseTLSRecordHeader(rest)
             size == TLSRecordHeaderLen + h.bodyLen
  <2>1. SubSeq(b, o + 1, L) = rest
    <3>1. n \in 0..n
      BY <1>1
    <3> HIDE DEF L
    <3> QED
      BY <1>1, <3>1, RestOfRest
  <2>2. Len(rest) = n - o
    BY RestIs
  <2>3. /\ o + 5 > n => h.err = "ErrShortBuffer"
        /\ o + 5 <= n /\ ~HeaderOk(s, o) => h.err = "ErrTLSRecord"
        /\ o + 5 <= n /\ HeaderOk(s, o) => h.err = "nil" /\ 5 + h.bodyLen = Size(s, o)
    BY HeaderIs
  <2>4. o + 5 <= n /\ HeaderOk(s, o) => size = Size(s, o) /\ Size(s, o) \in Nat
    <3> SUFFICES ASSUME o + 5 <= n, HeaderOk(s, o) PROVE size = Size(s, o) /\ Size(s, o) \in Nat
      OBVIOUS
    <3>1. o \in Nat /\ o + 5 <= Len(s)
      BY <1>1
    <3>2. Size(s, o) \in Nat
      BY <3>1, SizeIs
    <3> HIDE DEF h
    <3> QED
      BY <2>3, <3>2 DEF TLSRecordHeaderLen
  <2>5. CASE WholeAt(s, n, o)
    <3>1. o + 5 <= n /\ HeaderOk(s, o) /\ o + Size(s, o) <= n
      BY <2>5 DEF WholeAt
    <3>2. h.err = "nil" /\ size = Size(s, o) /\ Size(s, o) \in Nat
      BY <2>3, <2>4, <3>1
    <3>3. ~(size > Len(rest))
      <4> HIDE DEF size, rest
      <4> QED
        BY <1>1, <2>2, <3>1, <3>2
    <3>4. SubSeq(rest, 1, size) = RecordAt(s, o)
      <4> DEFINE k == o + Size(s, o)
      <4>1. k \in 0..n /\ o \in 0..k
        <5> HIDE DEF h
        <5> QED
          BY <1>1, <3>1, <3>2
      <4>2. SubSeq(s, o + 1, k) \in ByteStrings /\ Len(SubSeq(s, o + 1, k)) = k - o
            /\ \A i \in 1..(k - o) : SubSeq(s, o + 1, k)[i] = s[o + i]
        <5>1. k \in 0..Len(s)
          BY <1>1, <4>1
        <5> HIDE DEF k
        <5> QED
          BY <4>1, <5>1, RestIs
      <4>3. rest \in ByteStrings /\ \A i \in 1..(n - o) : rest[i] = s[o + i]
        BY RestIs
      <4>4. k - o = size /\ size \in Nat /\ size <= n - o
        <5> HIDE DEF h, size
        <5> QED
          BY <1>1, <3>1, <3>2
      <4> HIDE DEF rest, size, k
      <4> DEFINE z == 0
      <4>5. /\ z \in 0..size /\ z + 1 = 1 /\ size - z = size
            /\ (\A i \in 1..size : z + i = i /\ i \in 1..(n - o)) /\ size \in 0..Len(rest)
        BY <1>1, <2>2, <4>4
      <4>6. SubSeq(rest, z + 1, size) \in ByteStrings /\ Len(SubSeq(rest, z + 1, size)) = size - z
            /\ \A i \in 1..(size - z) : SubSeq(rest, z + 1, size)[i] = rest[z + i]
        <5> HIDE DEF z
        <5> QED
          BY <4>3, <4>5, RestIs
      <4>7. SubSeq(rest, 1, size) = SubSeq(s, o + 1, k)
        <5> DEFINE x == SubSeq(rest, 1, size)
                   y == SubSeq(s, o + 1, k)
        <5>1. x \in ByteStrings /\ Len(x) = size /\ \A i \in 1..size : x[i] = rest[i]
          BY <4>5, <4>6
        <5>2. y \in ByteStrings /\ Len(y) = size /\ \A i \in 1..size : y[i] = s[o + i]
          BY <4>2, <4>4
        <5>3. \A i \in 1..size : rest[i] = s[o + i]
          BY <4>3, <4>5
        <5> HIDE DEF x, y
        <5>4. x = y
          BY <5>1, <5>2, <5>3, SameBytes
        <5> QED
          BY <5>4 DEF x, y
      <4> QED
        BY <4>7 DEF RecordAt, k
    <3> HIDE DEF rest, h, size
    <3>5. Onward(s, n, g, o) = <<RecordAt(s, o)>> \o g[o + Size(s, o)]
      BY <1>3, <2>5 DEF Onward
    <3> QED
      BY <2>1, <3>2, <3>3, <3>4, <3>5 DEF rest, h, size
  <2>6. CASE ~WholeAt(s, n, o)
    <3>1. h.err # "nil" \/ size > Len(rest)
      <4>1. CASE o + 5 <= n /\ HeaderOk(s, o)
        <5>1. ~(o + Size(s, o) <= n) /\ size = Size(s, o) /\ Size(s, o) \in Nat
          BY <2>4, <2>6, <4>1 DEF WholeAt
        <5> HIDE DEF size, rest, h
        <5> QED
          BY <1>1, <2>2, <5>1
      <4>2. CASE ~(o + 5 <= n /\ HeaderOk(s, o))
        <5> HIDE DEF h, size, rest
        <5> QED
          BY <1>1, <2>3, <4>2
      <4> QED
        BY <4>1, <4>2
    <3>2. Onward(s, n, g, o) = << <<>> >>
      BY <1>3, <2>6 DEF Onward
    <3> HIDE DEF rest, h, size
    <3> QED
      BY <2>1, <3>1, <3>2 DEF rest, h, size
  <2> QED
    BY <2>5, <2>6
<1>4. ASSUME NEW g PROVE Turn(g) = [o \in 0..n |-> Onward(s, n, g, o)]
  <2> DEFINE item(o) ==
               IF o = L THEN <<>>
               ELSE LET rest == SubSeq(b, o + 1, L)
                        h == ParseTLSRecordHeader(rest)
                        size == TLSRecordHeaderLen + h.bodyLen
                    IN IF h.err # "nil" \/ size > Len(rest) THEN << <<>> >>
                       ELSE <<SubSeq(rest, 1, size)>> \o g[o + size]
  <2>1. ASSUME NEW o \in 0..n PROVE item(o) = Onward(s, n, g, o)
    <3>1. CASE o = n
      <4> HIDE DEF b, L
      <4> QED
        BY <1>1, <3>1 DEF Onward
    <3>2. CASE o # n
      BY <1>1, <1>3, <3>2
    <3> QED
      BY <3>1, <3>2
  <2>2. Turn(g) = [o \in 0..L |-> item(o)]
    BY Zenon
  <2> HIDE DEF Turn, item, L
  <2>3. Turn(g) = [o \in 0..n |-> item(o)]
    BY <1>1, <2>2
  <2> QED
    BY <2>1, <2>3
<1> HIDE DEF Turn
<1>5. PICK g : Splits(s, n, g)
  BY SplitsExists
<1>6. g = Turn(g)
  BY <1>4, <1>5 DEF Splits
<1>7. from = Turn(from)
  BY <1>6
<1>8. from = [o \in 0..n |-> Onward(s, n, from, o)]
  <2> HIDE DEF from
  <2> QED
    BY <1>4, <1>7
<1> HIDE DEF from, L, b
<1>9. \A o \in 0..n : from[o] = Onward(s, n, from, o)
  BY <1>8
\* And it is that function.
<1> DEFINE A == {d \in Nat : \A o \in 0..n : o >= n - d => from[o] = g[o]}
<1>10. 0 \in A
  <2> SUFFICES ASSUME NEW o \in 0..n, o >= n - 0 PROVE from[o] = g[o]
    OBVIOUS
  <2>1. o = n
    BY <1>1
  <2> QED
    BY <1>5, <1>9, <2>1 DEF Onward, Splits
<1>11. ASSUME NEW d \in A PROVE d + 1 \in A
  <2> SUFFICES ASSUME NEW o \in 0..n, o >= n - (d + 1) PROVE from[o] = g[o]
    OBVIOUS
  <2>1. from[o] = Onward(s, n, from, o) /\ g[o] = Onward(s, n, g, o)
    BY <1>5, <1>9 DEF Splits
  <2>2. CASE o = n \/ ~WholeAt(s, n, o)
    BY <2>1, <2>2 DEF Onward
  <2>3. CASE o # n /\ WholeAt(s, n, o)
    <3>1. o + Size(s, o) \in 0..n /\ o < o + Size(s, o)
      BY <2>3, RecordIs
    <3>2. d \in Nat /\ o + Size(s, o) >= n - d
      BY <1>1, <3>1
    <3>3. from[o + Size(s, o)] = g[o + Size(s, o)]
      BY <3>1, <3>2
    <3> QED
      BY <2>1, <2>3, <3>3 DEF Onward
  <2> QED
    BY <2>2, <2>3
<1>12. n \in A
  <2>1. \A d \in Nat : d \in A => d + 1 \in A
    BY <1>11
  <2> HIDE DEF A
  <2> QED
    BY <1>1, <1>10, <2>1, NatSetInduction
<1>13. from[0] = g[0]
  BY <1>1, <1>12
<1> QED
  BY <1>2, <1>5, <1>13 DEF b

-----------------------------------------------------------------------------
(* Cuts: where the whole records of a stream end *)

\* The first k records of s are whole; c[i] bytes are the first i of them.
Cut(s, c, k) ==
  /\ c \in [0..k -> 0..Len(s)] /\ c[0] = 0
  /\ \A i \in 1..k : WholeAt(s, Len(s), c[i - 1]) /\ c[i] = c[i - 1] + Size(s, c[i - 1])

\* The ends of the records are in order.
LEMMA CutSteps ==
  ASSUME NEW s \in ByteStrings, NEW k \in Nat, NEW c, Cut(s, c, k)
  PROVE  /\ \A i \in 0..k : c[i] \in Nat /\ c[i] <= c[k] /\ c[i] <= Len(s) /\ c[i] \in 0..Len(s)
         /\ \A i \in 1..k : c[i - 1] < c[i]
<1>1. Len(s) \in Nat
  BY BytesAre
<1>2. /\ \A i \in 0..k : c[i] \in 0..Len(s)
      /\ \A i \in 1..k : WholeAt(s, Len(s), c[i - 1]) /\ c[i] = c[i - 1] + Size(s, c[i - 1])
  BY DEF Cut
<1>3. ASSUME NEW i \in 1..k PROVE c[i - 1] < c[i] /\ c[i - 1] \in Nat /\ c[i] \in Nat
  <2>1. i - 1 \in 0..k /\ i \in 0..k
    OBVIOUS
  <2>2. c[i - 1] \in 0..Len(s) /\ WholeAt(s, Len(s), c[i - 1])
    BY <1>2, <2>1
  <2>3. Len(s) \in 0..Len(s)
    BY <1>1
  <2>4. c[i - 1] < c[i - 1] + Size(s, c[i - 1])
    BY <2>2, <2>3, RecordIs
  <2> QED
    BY <1>1, <1>2, <2>1, <2>4
<1> DEFINE A == {d \in Nat : d <= k => c[k - d] <= c[k]}
<1>4. 0 \in A
  BY <1>1, <1>2
<1>5. ASSUME NEW d \in Nat, d \in A PROVE d + 1 \in A
  <2> SUFFICES ASSUME d + 1 <= k PROVE c[k - (d + 1)] <= c[k]
    OBVIOUS
  <2> DEFINE i == k - d
  <2>1. i \in 1..k /\ i - 1 = k - (d + 1) /\ k \in 0..k
    OBVIOUS
  <2>2. c[i] <= c[k]
    BY <1>5
  <2>3. c[i - 1] < c[i] /\ c[i - 1] \in Nat /\ c[i] \in Nat /\ c[k] \in Nat
    <3> HIDE DEF i
    <3> QED
      BY <1>1, <1>2, <1>3, <2>1
  <2> HIDE DEF i
  <2> QED
    BY <2>1, <2>2, <2>3
<1>6. Nat \subseteq A
  <2> HIDE DEF A
  <2> QED
    BY <1>4, <1>5, NatSetInduction
<1>7. ASSUME NEW i \in 0..k PROVE c[i] <= c[k]
  <2>1. k - i \in Nat /\ k - i <= k /\ k - (k - i) = i
    OBVIOUS
  <2>2. c[k - (k - i)] <= c[k]
    <3> DEFINE d == k - i
    <3>1. d \in Nat /\ d <= k
      BY <2>1
    <3>2. c[k - d] <= c[k]
      <4> HIDE DEF d
      <4> QED
        BY <1>6, <3>1
    <3> QED
      BY <3>2
  <2> QED
    BY <2>1, <2>2
<1> QED
  BY <1>1, <1>2, <1>3, <1>7

\* What a list is with a record before it.
LEMMA Prepended ==
  ASSUME NEW r \in ByteStrings, NEW t \in Seq(ByteStrings)
  PROVE  /\ Len(<<r>> \o t) = Len(t) + 1
         /\ (<<r>> \o t)[1] = r
         /\ \A i \in 1..Len(t) : (<<r>> \o t)[i + 1] = t[i]
<1> DEFINE x == <<r>>
<1>1. x \in Seq(ByteStrings) /\ Len(x) = 1 /\ x[1] = r
  OBVIOUS
<1>2. Len(t) \in Nat
  BY LenProperties
<1> HIDE DEF x
<1>3. /\ Len(x \o t) = Len(x) + Len(t)
      /\ \A i \in 1..(Len(x) + Len(t)) : (x \o t)[i] = IF i <= Len(x) THEN x[i] ELSE t[i - Len(x)]
  BY <1>1, ConcatProperties
<1>4. (x \o t)[1] = r
  BY <1>1, <1>2, <1>3
<1>5. ASSUME NEW i \in 1..Len(t) PROVE (x \o t)[i + 1] = t[i]
  <2>1. i + 1 \in 1..(1 + Len(t)) /\ ~(i + 1 <= 1) /\ i + 1 - 1 = i
    BY <1>2
  <2> QED
    BY <1>1, <1>3, <2>1
<1> QED
  BY <1>1, <1>2, <1>3, <1>4, <1>5 DEF x

\* The records of a cut are what SplitTLSRecords makes of its bytes.
LEMMA SplitOfCut ==
  ASSUME NEW s \in ByteStrings, NEW k \in Nat, NEW c, Cut(s, c, k)
  PROVE  LET split == SplitTLSRecords(SubSeq(s, 1, c[k]))
         IN /\ split.err = "nil" <=> k # 0
            /\ split.records \in Seq(ByteStrings) /\ Len(split.records) = k
            /\ \A i \in 1..k : split.records[i] = RecordAt(s, c[i - 1])
<1> DEFINE n == c[k]
           split == SplitTLSRecords(SubSeq(s, 1, n))
<1>1. /\ \A i \in 0..k : c[i] \in Nat /\ c[i] <= n /\ c[i] <= Len(s)
      /\ \A i \in 1..k : c[i - 1] < c[i]
      /\ c[0] = 0 /\ Len(s) \in Nat /\ k \in 0..k
  <2>1. c[0] = 0
    BY DEF Cut
  <2>2. Len(s) \in Nat /\ k \in 0..k
    BY BytesAre
  <2> QED
    BY <2>1, <2>2, CutSteps
<1>2. n \in 0..Len(s)
  BY <1>1
<1>3. \A i \in 1..k : WholeAt(s, Len(s), c[i - 1]) /\ c[i] = c[i - 1] + Size(s, c[i - 1])
  BY DEF Cut
<1> HIDE DEF split
<1>4. PICK g : /\ Splits(s, n, g)
               /\ IF g[0] = <<>> \/ g[0][Len(g[0])] = <<>>
                  THEN split.err = "ErrTLSRecord" /\ split.records = <<>>
                  ELSE split.err = "nil" /\ split.records = g[0]
  BY <1>2, SplitIs DEF split
<1>5. /\ \A o \in 0..n : g[o] \in Seq(ByteStrings) /\ g[o] = Onward(s, n, g, o)
  BY <1>4 DEF Splits
<1> HIDE DEF n
<1> DEFINE Is(d) == /\ Len(g[c[k - d]]) = d
                    /\ \A i \in 1..d : g[c[k - d]][i] = RecordAt(s, c[k - d + i - 1])
           A == {d \in Nat : d <= k => Is(d)}
<1>6. 0 \in A
  <2>1. k - 0 = k /\ n \in 0..n
    BY <1>2
  <2>2. g[n] = <<>>
    BY <1>5, <2>1 DEF Onward
  <2> QED
    BY <2>1, <2>2, EmptyBytes DEF n
<1>7. ASSUME NEW d \in Nat, d <= k => Is(d) PROVE d + 1 <= k => Is(d + 1)
  <2> SUFFICES ASSUME d + 1 <= k PROVE Is(d + 1)
    OBVIOUS
  <2> DEFINE j == k - (d + 1)
             o == c[j]
             next == c[j + 1]
  <2>1. j \in 0..k /\ j + 1 \in 1..k /\ j + 1 \in 0..k /\ j + 1 - 1 = j /\ k - d = j + 1 /\ k - (d + 1) = j /\ j \in Nat
    OBVIOUS
  <2> HIDE DEF j
  <2>2. o \in 0..n /\ next \in 0..n /\ o < next /\ next = o + Size(s, o) /\ WholeAt(s, Len(s), o)
    <3>1. WholeAt(s, Len(s), c[j + 1 - 1]) /\ c[j + 1] = c[j + 1 - 1] + Size(s, c[j + 1 - 1]) /\ c[j + 1 - 1] < c[j + 1]
      BY <1>1, <1>3, <2>1
    <3>2. c[j] \in Nat /\ c[j] <= n /\ c[j + 1] \in Nat /\ c[j + 1] <= n
      BY <1>1, <2>1
    <3> QED
      BY <1>2, <2>1, <3>1, <3>2
  <2>3. WholeAt(s, n, o) /\ o # n
    <3>1. Len(s) \in 0..Len(s) /\ o \in 0..Len(s)
      BY <1>1, <1>2, <2>2
    <3>2. Size(s, o) \in Nat /\ Size(s, o) >= 6
      <4> HIDE DEF o
      <4> QED
        BY <2>2, <3>1, RecordIs
    <3> HIDE DEF o, next
    <3> QED
      BY <1>1, <1>2, <2>2, <3>2 DEF WholeAt
  <2>4. RecordAt(s, o) \in ByteStrings
    <3> HIDE DEF o, next
    <3> QED
      BY <1>2, <2>2, <2>3, RecordIs
  <2>5. g[o] = <<RecordAt(s, o)>> \o g[next]
    <3> HIDE DEF o, next
    <3> QED
      BY <1>5, <2>2, <2>3 DEF Onward
  <2>6. g[next] \in Seq(ByteStrings) /\ Len(g[next]) = d /\ \A i \in 1..d : g[next][i] = RecordAt(s, c[j + 1 + i - 1])
    <3>1. Is(d)
      BY <1>7
    <3>2. g[next] \in Seq(ByteStrings)
      BY <1>5, <2>2
    <3> QED
      BY <2>1, <3>1, <3>2
  <2>7. /\ Len(g[o]) = d + 1 /\ g[o][1] = RecordAt(s, o)
        /\ \A i \in 1..d : g[o][i + 1] = g[next][i]
    <3> HIDE DEF o, next
    <3> QED
      BY <2>4, <2>5, <2>6, Prepended
  <2>8. ASSUME NEW i \in 1..(d + 1) PROVE g[o][i] = RecordAt(s, c[j + i - 1])
    <3>1. CASE i = 1
      <4>1. j + i - 1 = j
        BY <2>1, <3>1
      <4> QED
        BY <2>7, <3>1, <4>1
    <3>2. CASE i # 1
      <4> DEFINE e == i - 1
      <4>1. e \in 1..d /\ e + 1 = i /\ j + 1 + e - 1 = j + i - 1
        BY <2>1, <3>2
      <4> HIDE DEF e, o, next
      <4>2. g[o][e + 1] = RecordAt(s, c[j + 1 + e - 1])
        BY <2>6, <2>7, <4>1
      <4> QED
        BY <4>1, <4>2
    <3> QED
      BY <3>1, <3>2
  <2> QED
    BY <2>1, <2>7, <2>8
<1>8. k \in A
  <2>1. \A d \in Nat : d \in A => d + 1 \in A
    <3> HIDE DEF Is
    <3> QED
      BY <1>7
  <2> HIDE DEF A
  <2> QED
    BY <1>6, <2>1, NatSetInduction
<1>9. Len(g[0]) = k /\ \A i \in 1..k : g[0][i] = RecordAt(s, c[i - 1])
  <2>1. k <= k /\ k - k = 0 /\ \A i \in 1..k : 0 + i - 1 = i - 1
    OBVIOUS
  <2>2. Is(k)
    BY <1>8, <2>1
  <2> QED
    BY <1>1, <2>1, <2>2
<1>10. g[0] \in Seq(ByteStrings)
  BY <1>1, <1>2, <1>5
<1>11. CASE k = 0
  <2>1. g[0] = <<>>
    BY <1>9, <1>10, <1>11, EmptySeq
  <2> QED
    BY <1>4, <1>9, <1>10, <1>11, <2>1 DEF split, n
<1>12. CASE k # 0
  <2>1. k \in 1..k /\ k - 1 \in 0..k
    BY <1>12
  <2>2. g[0] # <<>>
    BY <1>9, <1>12, EmptyBytes
  <2>3. RecordAt(s, c[k - 1]) # <<>>
    <3>1. WholeAt(s, Len(s), c[k - 1]) /\ c[k - 1] \in 0..Len(s) /\ Len(s) \in 0..Len(s)
      BY <1>1, <1>3, <2>1
    <3> QED
      BY <3>1, RecordIs
  <2>4. g[0][Len(g[0])] # <<>>
    BY <1>9, <2>1, <2>3
  <2> QED
    BY <1>4, <1>9, <1>10, <1>12, <2>2, <2>4 DEF split, n
<1> QED
  BY <1>11, <1>12

\* More bytes than a cut, of which what follows is no whole record, are not split.
LEMMA SplitOfMore ==
  ASSUME NEW s \in ByteStrings, NEW k \in Nat, NEW c, Cut(s, c, k),
         NEW n \in 0..Len(s), c[k] < n, ~WholeAt(s, n, c[k])
  PROVE  SplitTLSRecords(SubSeq(s, 1, n)).err # "nil"
<1> DEFINE split == SplitTLSRecords(SubSeq(s, 1, n))
<1>1. /\ \A i \in 0..k : c[i] \in Nat /\ c[i] <= c[k] /\ c[i] <= Len(s) /\ c[i] \in 0..Len(s)
      /\ \A i \in 1..k : c[i - 1] < c[i]
      /\ c[0] = 0 /\ Len(s) \in Nat /\ k \in 0..k
  <2>1. c[0] = 0
    BY DEF Cut
  <2>2. Len(s) \in Nat /\ k \in 0..k
    BY BytesAre
  <2> QED
    BY <2>1, <2>2, CutSteps
<1>2. \A i \in 0..k : c[i] \in 0..n /\ c[i] # n
  BY <1>1
<1>3. \A i \in 1..k : WholeAt(s, Len(s), c[i - 1]) /\ c[i] = c[i - 1] + Size(s, c[i - 1])
  BY DEF Cut
<1> HIDE DEF split
<1>4. PICK g : /\ Splits(s, n, g)
               /\ IF g[0] = <<>> \/ g[0][Len(g[0])] = <<>>
                  THEN split.err = "ErrTLSRecord" /\ split.records = <<>>
                  ELSE split.err = "nil" /\ split.records = g[0]
  BY SplitIs DEF split
<1>5. /\ \A o \in 0..n : g[o] \in Seq(ByteStrings) /\ g[o] = Onward(s, n, g, o)
  BY <1>4 DEF Splits
<1> DEFINE Bad(d) == LET r == g[c[k - d]] IN Len(r) >= 1 /\ r[Len(r)] = <<>>
           A == {d \in Nat : d <= k => Bad(d)}
<1>6. 0 \in A
  <2>1. k - 0 = k /\ c[k] \in 0..n /\ c[k] # n
    BY <1>1, <1>2
  <2>2. g[c[k]] = << <<>> >>
    BY <1>5, <2>1 DEF Onward
  <2>3. Len(<< <<>> >>) = 1 /\ << <<>> >>[1] = <<>>
    OBVIOUS
  <2> QED
    BY <2>1, <2>2, <2>3
<1>7. ASSUME NEW d \in Nat, d <= k => Bad(d) PROVE d + 1 <= k => Bad(d + 1)
  <2> SUFFICES ASSUME d + 1 <= k PROVE Bad(d + 1)
    OBVIOUS
  <2> DEFINE j == k - (d + 1)
             o == c[j]
             next == c[j + 1]
  <2>1. j \in 0..k /\ j + 1 \in 1..k /\ j + 1 \in 0..k /\ j + 1 - 1 = j /\ k - d = j + 1 /\ k - (d + 1) = j /\ j \in Nat
    OBVIOUS
  <2> HIDE DEF j
  <2>2. o \in 0..n /\ o # n /\ next \in 0..n /\ next = o + Size(s, o) /\ WholeAt(s, Len(s), o) /\ o \in 0..Len(s)
    BY <1>1, <1>2, <1>3, <2>1
  <2>3. WholeAt(s, n, o)
    <3>1. Len(s) \in 0..Len(s)
      BY <1>1
    <3>2. Size(s, o) \in Nat /\ Size(s, o) >= 6
      <4> HIDE DEF o
      <4> QED
        BY <2>2, <3>1, RecordIs
    <3> HIDE DEF o, next
    <3> QED
      BY <1>1, <2>2, <3>2 DEF WholeAt
  <2>4. RecordAt(s, o) \in ByteStrings
    <3> HIDE DEF o, next
    <3> QED
      BY <2>2, <2>3, RecordIs
  <2>5. g[o] = <<RecordAt(s, o)>> \o g[next]
    <3> HIDE DEF o, next
    <3> QED
      BY <1>5, <2>2, <2>3 DEF Onward
  <2>6. g[next] \in Seq(ByteStrings) /\ Len(g[next]) \in Nat /\ Len(g[next]) >= 1 /\ g[next][Len(g[next])] = <<>>
    <3>1. Bad(d)
      BY <1>7
    <3>2. g[next] \in Seq(ByteStrings)
      BY <1>5, <2>2
    <3>3. Len(g[next]) \in Nat
      BY <3>2, LenProperties
    <3> QED
      BY <2>1, <3>1, <3>2, <3>3
  <2>7. /\ Len(g[o]) = Len(g[next]) + 1
        /\ \A i \in 1..Len(g[next]) : g[o][i + 1] = g[next][i]
    <3> HIDE DEF o, next
    <3> QED
      BY <2>4, <2>5, <2>6, Prepended
  <2>8. Len(g[next]) \in 1..Len(g[next])
    BY <2>6
  <2>9. Len(g[o]) >= 1 /\ g[o][Len(g[o])] = <<>>
    <3> HIDE DEF o, next
    <3> QED
      BY <2>6, <2>7, <2>8
  <2> QED
    BY <2>1, <2>9
<1>8. k \in A
  <2>1. \A d \in Nat : d \in A => d + 1 \in A
    <3> HIDE DEF Bad
    <3> QED
      BY <1>7
  <2> HIDE DEF A
  <2> QED
    BY <1>6, <2>1, NatSetInduction
<1>9. g[0][Len(g[0])] = <<>>
  <2>1. k <= k /\ k - k = 0
    OBVIOUS
  <2>2. Bad(k)
    BY <1>8, <2>1
  <2> QED
    BY <1>1, <2>1, <2>2
<1> QED
  BY <1>4, <1>9 DEF split

\* The longest part that SplitTLSRecords accepts ends with the last whole record.
LEMMA WholePartIs ==
  ASSUME NEW s \in ByteStrings, NEW k \in Nat, NEW c, Cut(s, c, k),
         NEW n \in 0..Len(s), c[k] <= n, ~WholeAt(s, n, c[k])
  PROVE  WholePart(SubSeq(s, 1, n)) = c[k]
<1> DEFINE b == SubSeq(s, 1, n)
           z == c[k]
           Longest(w) == /\ w = 0 \/ SplitTLSRecords(SubSeq(b, 1, w)).err = "nil"
                         /\ \A m \in (w + 1)..Len(b) : SplitTLSRecords(SubSeq(b, 1, m)).err # "nil"
<1>1. z \in Nat /\ z \in 0..n /\ n \in Nat /\ Len(s) \in Nat
  <2>1. k \in 0..k /\ Len(s) \in Nat
    BY BytesAre
  <2>2. c[k] \in Nat
    BY <2>1, CutSteps
  <2> QED
    BY <2>1, <2>2
<1>2. Len(b) = n
  <2> DEFINE o == 0
  <2>1. o \in 0..n /\ o + 1 = 1 /\ n - o = n
    BY <1>1
  <2>2. Len(SubSeq(s, o + 1, n)) = n - o
    <3> HIDE DEF o
    <3> QED
      BY <2>1, RestIs
  <2> QED
    BY <2>1, <2>2
<1>3. \A m \in 0..n : SubSeq(b, 1, m) = SubSeq(s, 1, m)
  <2> SUFFICES ASSUME NEW m \in 0..n PROVE SubSeq(b, 1, m) = SubSeq(s, 1, m)
    OBVIOUS
  <2> DEFINE o == 0
  <2>1. o \in 0..m /\ o + 1 = 1
    BY <1>1
  <2>2. SubSeq(SubSeq(s, 1, n), o + 1, m) = SubSeq(s, o + 1, m)
    <3> HIDE DEF o
    <3> QED
      BY <2>1, RestOfRest
  <2> QED
    BY <2>1, <2>2
<1> HIDE DEF b
<1>4. ASSUME NEW m \in (z + 1)..n PROVE SplitTLSRecords(SubSeq(b, 1, m)).err # "nil"
  <2>1. m \in 0..n /\ m \in 0..Len(s) /\ c[k] < m
    BY <1>1
  <2>2. ~WholeAt(s, m, c[k])
    <3>1. SUFFICES ASSUME WholeAt(s, m, c[k]) PROVE WholeAt(s, n, c[k])
      OBVIOUS
    <3>2. Size(s, c[k]) \in Nat
      BY <1>1, <2>1, <3>1, RecordIs
    <3> QED
      BY <1>1, <2>1, <3>1, <3>2 DEF WholeAt
  <2>3. SplitTLSRecords(SubSeq(s, 1, m)).err # "nil"
    BY <2>1, <2>2, SplitOfMore
  <2> QED
    BY <1>3, <2>1, <2>3
<1>5. z = 0 \/ SplitTLSRecords(SubSeq(b, 1, z)).err = "nil"
  <2>1. CASE k = 0
    BY <2>1 DEF Cut
  <2>2. CASE k # 0
    <3>1. SplitTLSRecords(SubSeq(s, 1, c[k])).err = "nil"
      BY <2>2, SplitOfCut
    <3> QED
      BY <1>1, <1>3, <3>1
  <2> QED
    BY <2>1, <2>2
<1>6. z \in 0..Len(b) /\ Longest(z)
  BY <1>1, <1>2, <1>4, <1>5
<1>7. ASSUME NEW w \in 0..Len(b), Longest(w) PROVE w = z
  <2>1. w \in Nat /\ w <= n
    BY <1>1, <1>2
  <2>2. ASSUME w < z PROVE FALSE
    <3>1. z \in (w + 1)..Len(b) /\ z # 0
      BY <1>1, <1>2, <2>1, <2>2
    <3> QED
      BY <1>5, <1>7, <3>1
  <2>3. ASSUME z < w PROVE FALSE
    <3>1. w \in (z + 1)..n /\ w # 0
      BY <1>1, <2>1, <2>3
    <3> QED
      BY <1>4, <1>7, <3>1
  <2> QED
    BY <1>1, <2>1, <2>2, <2>3
<1>8. WholePart(b) = CHOOSE w \in 0..Len(b) : Longest(w)
  BY DEF WholePart
<1> HIDE DEF Longest, z
<1>9. WholePart(b) = z
  BY <1>6, <1>7, <1>8
<1> QED
  BY <1>9 DEF b, z

\* What SplitTLSRecords takes for one record is one.
LEMMA SplitOfOne ==
  ASSUME NEW b \in ByteStrings
  PROVE  LET split == SplitTLSRecords(b)
         IN split.err = "nil" /\ Len(split.records) = 1 <=> WholeAt(b, Len(b), 0) /\ Size(b, 0) = Len(b)
<1> DEFINE n == Len(b)
           split == SplitTLSRecords(b)
<1>1. n \in Nat /\ n \in 0..Len(b) /\ SubSeq(b, 1, Len(b)) = b
  BY BytesAre, SubSeqFull DEF ByteStrings
<1> HIDE DEF split
<1>2. PICK g : /\ Splits(b, n, g)
               /\ IF g[0] = <<>> \/ g[0][Len(g[0])] = <<>>
                  THEN split.err = "ErrTLSRecord" /\ split.records = <<>>
                  ELSE split.err = "nil" /\ split.records = g[0]
  <2>1. split = SplitTLSRecords(SubSeq(b, 1, n))
    BY <1>1 DEF split
  <2> HIDE DEF n
  <2> QED
    BY <1>1, <2>1, SplitIs
<1>3. /\ \A o \in 0..n : g[o] \in Seq(ByteStrings) /\ g[o] = Onward(b, n, g, o)
  BY <1>2 DEF Splits
<1>4. CASE n = 0
  <2>1. g[0] = <<>>
    <3>1. 0 \in 0..n
      BY <1>1
    <3> QED
      BY <1>3, <1>4, <3>1 DEF Onward
  <2>2. ~WholeAt(b, n, 0)
    BY <1>4 DEF WholeAt
  <2> QED
    BY <1>2, <2>1, <2>2 DEF split
<1>5. CASE n # 0 /\ ~WholeAt(b, n, 0)
  <2>1. 0 \in 0..n
    BY <1>1
  <2>2. g[0] = << <<>> >>
    <3> HIDE DEF n
    <3> QED
      BY <1>3, <1>5, <2>1 DEF Onward
  <2>3. Len(<< <<>> >>) = 1 /\ << <<>> >>[1] = <<>>
    OBVIOUS
  <2>4. split.err = "ErrTLSRecord"
    BY <1>2, <2>2, <2>3
  <2> QED
    BY <1>5, <2>4 DEF split
<1>6. CASE n # 0 /\ WholeAt(b, n, 0)
  <2> DEFINE r == RecordAt(b, 0)
             z == Size(b, 0)
  <2>1. z \in Nat /\ z >= 6 /\ z \in 0..n /\ r \in ByteStrings /\ r # <<>>
    <3> DEFINE o == 0
    <3>1. o \in 0..n /\ WholeAt(b, n, o)
      BY <1>1, <1>6
    <3>2. /\ Size(b, o) \in Nat /\ Size(b, o) >= 6 /\ o + Size(b, o) \in 0..n
          /\ RecordAt(b, o) \in ByteStrings /\ RecordAt(b, o) # <<>>
      <4> HIDE DEF o, n
      <4> QED
        BY <1>1, <3>1, RecordIs DEF n
    <3>3. 0 + Size(b, 0) = Size(b, 0)
      BY <3>2
    <3> QED
      BY <3>2, <3>3
  <2>2. g[0] = <<r>> \o g[z]
    <3>1. 0 \in 0..n /\ 0 + Size(b, 0) = z
      BY <1>1, <2>1
    <3> HIDE DEF n, r, z
    <3> QED
      BY <1>3, <1>6, <3>1 DEF Onward, r, z
  <2> HIDE DEF r, z
  <2>3. g[z] \in Seq(ByteStrings) /\ Len(g[z]) \in Nat
    BY <1>3, <2>1, LenProperties
  <2>4. /\ Len(g[0]) = Len(g[z]) + 1 /\ g[0][1] = r
    BY <2>1, <2>2, <2>3, Prepended
  <2>5. CASE z = n
    <3>1. g[z] = <<>>
      <4> HIDE DEF n
      <4> QED
        BY <1>3, <2>1, <2>5 DEF Onward
    <3>2. Len(g[0]) = 1 /\ g[0] # <<>> /\ g[0][Len(g[0])] = r
      BY <2>4, <3>1, EmptyBytes
    <3>3. split.err = "nil" /\ split.records = g[0]
      BY <1>2, <2>1, <3>2
    <3> QED
      BY <1>6, <2>5, <3>2, <3>3 DEF split, z
  <2>6. CASE z # n
    <3>1. Len(g[z]) >= 1
      <4>1. CASE ~WholeAt(b, n, z)
        <5>1. g[z] = << <<>> >>
          <6> HIDE DEF n
          <6> QED
            BY <1>3, <2>1, <2>6, <4>1 DEF Onward
        <5> QED
          BY <5>1
      <4>2. CASE WholeAt(b, n, z)
        <5>1. g[z] = <<RecordAt(b, z)>> \o g[z + Size(b, z)]
          <6> HIDE DEF n
          <6> QED
            BY <1>3, <2>1, <2>6, <4>2 DEF Onward
        <5>2. RecordAt(b, z) \in ByteStrings /\ z + Size(b, z) \in 0..n
          BY <1>1, <2>1, <4>2, RecordIs
        <5>3. g[z + Size(b, z)] \in Seq(ByteStrings) /\ Len(g[z + Size(b, z)]) \in Nat
          BY <1>3, <5>2, LenProperties
        <5>4. Len(g[z]) = Len(g[z + Size(b, z)]) + 1
          BY <5>1, <5>2, <5>3, Prepended
        <5> QED
          BY <5>3, <5>4
      <4> QED
        BY <4>1, <4>2
    <3>2. Len(g[0]) # 1
      BY <2>3, <2>4, <3>1
    <3>3. ~(split.err = "nil" /\ Len(split.records) = 1)
      BY <1>2, <3>2
    <3> QED
      BY <2>6, <3>3 DEF split, z
  <2> QED
    BY <2>5, <2>6
<1> QED
  BY <1>4, <1>5, <1>6

\* The bounds of the driver are those of the library, and of a pack.
LEMMA FrameBound == G_MAXUINT16 = MaxPack /\ MaxPack \in Nat /\ G5120_TLS_MAX_BODY_LEN = MaxTLSRecordBody
BY DEF MaxPack, G_MAXUINT16, G5120_TLS_MAX_BODY_LEN, MaxTLSRecordBody

\* Any bytes: the driver frames what is one record for the library, and the library gets
\* it out of the frame again (g5120_tls_frame; SplitTLSRecords, DecodePack).
THEOREM OneRecordIsFramed ==
  ASSUME NEW b \in ByteStrings
  PROVE  LET frame == g5120_tls_frame(b)
             split == SplitTLSRecords(b)
         IN /\ frame # <<>> <=> split.err = "nil" /\ Len(split.records) = 1
            /\ frame # <<>> => DecodePack(frame) = Pack("nil", FlagTLSData, b)
<1> DEFINE n == Len(b)
           body == 256 * b[4] + b[5]
           len == g5120_tls_record_len(b)
           short == n \in 5..G_MAXUINT16
           header == b[1] \in 20..23 /\ b[2] = 3 /\ b[3] \in 1..3 /\ body \in 1..G5120_TLS_MAX_BODY_LEN
           ok == short /\ header /\ len = n
           frame == g5120_tls_frame(b)
           pack == g5120_pack_encode(G5120_FLAG_TLS, b)
<1>1. n \in Nat
  BY BytesAre
<1>2. frame = IF ok THEN g5120_pad_to_packet(pack) ELSE <<>>
  BY DEF g5120_tls_frame
<1>3. n >= 5 => /\ b[1] \in Nat /\ b[4] \in Nat /\ b[5] \in Nat
                /\ Size(b, 0) = 5 + body /\ body \in Nat
                /\ len = IF n < Size(b, 0) THEN 0 ELSE Size(b, 0)
  <2> SUFFICES ASSUME n >= 5
               PROVE  /\ b[1] \in Nat /\ b[4] \in Nat /\ b[5] \in Nat
                      /\ Size(b, 0) = 5 + body /\ body \in Nat
                      /\ len = IF n < Size(b, 0) THEN 0 ELSE Size(b, 0)
    OBVIOUS
  <2>1. \A i \in 1..n : b[i] \in Nat
    BY BytesAre
  <2>2. 1 \in 1..n /\ 4 \in 1..n /\ 5 \in 1..n
    BY <1>1
  <2>3. b[1] \in Nat /\ b[4] \in Nat /\ b[5] \in Nat
    BY <2>1, <2>2
  <2>4. Size(b, 0) = 5 + body /\ body \in Nat /\ 5 + 256 * b[4] + b[5] = Size(b, 0)
    BY <2>3 DEF Size
  <2>5. ~(n < 5)
    BY <1>1
  <2>6. len = IF n < 5 \/ n < 5 + 256 * b[4] + b[5] THEN 0 ELSE 5 + 256 * b[4] + b[5]
    BY DEF g5120_tls_record_len
  <2> HIDE DEF len, n, body
  <2> QED
    BY <2>3, <2>4, <2>5, <2>6
<1> DEFINE fits == n <= MaxPack
<1>0. short <=> 5 <= n /\ fits
  <2> HIDE DEF n
  <2> QED
    BY <1>1, FrameBound
<1>4. ok <=> WholeAt(b, n, 0) /\ Size(b, 0) = n
  <2>1. CASE n < 5
    <3>1. ~(5 <= n) /\ ~WholeAt(b, n, 0)
      BY <1>1, <2>1 DEF WholeAt
    <3> HIDE DEF n, header, len, short
    <3> QED
      BY <1>0, <3>1
  <2>2. CASE n >= 5
    <3>1. HeaderOk(b, 0) <=> b[1] \in 20..23 /\ b[2] = 3 /\ b[3] \in 1..3 /\ body \in 1..MaxTLSRecordBody
      <4>1. b[1] \in 20..23 <=> b[1] \in {20, 21, 22, 23}
        BY <1>3, <2>2
      <4>2. 0 + 1 = 1 /\ 0 + 2 = 2 /\ 0 + 3 = 3 /\ 0 + 4 = 4 /\ 0 + 5 = 5
        OBVIOUS
      <4> QED
        BY <4>1, <4>2 DEF HeaderOk
    <3>2. WholeAt(b, n, 0) <=> HeaderOk(b, 0) /\ Size(b, 0) <= n
      BY <1>1, <1>3, <2>2 DEF WholeAt
    <3>3. HeaderOk(b, 0) /\ Size(b, 0) = n => n <= MaxPack
      <4>1. HeaderOk(b, 0) => body <= MaxTLSRecordBody
        <5>1. HeaderOk(b, 0) => body \in 1..MaxTLSRecordBody
          BY <3>1
        <5>2. body \in Nat
          BY <1>3, <2>2
        <5> HIDE DEF body
        <5> QED
          BY <5>1, <5>2, RecordBodyBound
      <4>2. MaxPack \in Nat
        BY DEF MaxPack
      <4> HIDE DEF body
      <4> QED
        BY <1>3, <2>2, <4>1, <4>2, RecordBodyBound
    <3>4. short <=> fits
      BY <1>0, <1>1, <2>2
    <3>5. len = n <=> Size(b, 0) = n
      <4> HIDE DEF len, body, n
      <4> QED
        BY <1>1, <1>3, <2>2
    <3>6. header <=> HeaderOk(b, 0)
      BY <3>1, FrameBound
    <3> HIDE DEF len, body, header, short
    <3>7. ok <=> fits /\ HeaderOk(b, 0) /\ Size(b, 0) = n
      BY <3>4, <3>5, <3>6
    <3>8. Size(b, 0) = n => Size(b, 0) <= n
      BY <1>1
    <3> HIDE DEF ok, n
    <3> QED
      BY <3>2, <3>3, <3>7, <3>8
  <2> QED
    BY <1>1, <2>1, <2>2
<1>5. ok => DecodePack(frame) = Pack("nil", FlagTLSData, b) /\ frame # <<>>
  <2> HIDE DEF frame
  <2> SUFFICES ASSUME ok PROVE DecodePack(frame) = Pack("nil", FlagTLSData, b) /\ frame # <<>>
    OBVIOUS
  <2>1. fits
    <3> HIDE DEF short, header, len, fits
    <3> QED
      BY <1>0
  <2> HIDE DEF ok
  <2>2. 176 \in Octet /\ G5120_FLAG_TLS = 176 /\ FlagTLSData = 176
    BY DEF Octet, G5120_FLAG_TLS, FlagTLSData
  <2>3. EncodePack(176, b) \in ByteStrings /\ pack = EncodePack(176, b)
    BY <2>1, <2>2, PackIs
  <2>4. frame = g5120_pad_to_packet(EncodePack(176, b))
    BY <1>2, <2>3
  <2>5. PICK padding \in ByteStrings : frame = EncodePack(176, b) \o padding
    BY <2>3, <2>4, Padded
  <2> QED
    BY <2>1, <2>2, <2>5, PackRoundTrip
<1>6. ~ok => frame = <<>>
  <2> HIDE DEF ok
  <2> QED
    BY <1>2
<1> HIDE DEF ok, frame
<1> QED
  BY <1>4, <1>5, <1>6, SplitOfOne DEF frame

-----------------------------------------------------------------------------
(* The parser: what it holds when it has taken the first bytes of a stream *)

\* What the parser can hold.
Parsers ==
  [header : ByteStrings, body : Nat, remaining : Nat, alert : [1..2 -> Octet], encrypted : BOOLEAN,
   from_ec : Nat]

\* Where the parser is in the record that begins past the first o bytes.
InHeader(q, v, o, fed) == Len(q.header) < 5 /\ q.remaining = 0 /\ fed = o + Len(q.header) /\ v # "failed"
InBody(s, q, v, o, fed) ==
  /\ Len(q.header) = 5 /\ HeaderOk(s, o) /\ q.body = Size(s, o) - 5 /\ v = "ok"
  /\ q.remaining \in 1..q.body /\ fed = o + 5 + q.body - q.remaining
  /\ s[o + 1] = 21 => \A i \in 1..2 : i <= q.body - q.remaining => q.alert[i] = s[o + 5 + i]
Broken(s, q, v, o, fed) == Len(q.header) = 5 /\ ~HeaderOk(s, o) /\ fed = o + 5 /\ v = "failed"

\* The i-th record ends the session, being an alert in the clear, for this reason.
Ends(s, c, i) == s[c[i - 1] + 1] = 21 /\ \A j \in 1..(i - 1) : s[c[j - 1] + 1] # 20
Reason(s, o) == IF Size(s, o) = 7 /\ s[o + 7] \in {20, 51, 115} THEN "mismatch" ELSE "alert"

\* What the parser holds, having taken the first fed bytes of s, of which k records are whole.
Stands(s, q, v, c, k, fed) ==
  /\ q \in Parsers /\ v \in {"ok", "failed", "mismatch", "alert"}
  /\ k \in Nat /\ q.from_ec = k /\ Cut(s, c, k)
  /\ c[k] + Len(q.header) <= Len(s) /\ \A i \in 1..Len(q.header) : q.header[i] = s[c[k] + i]
  /\ InHeader(q, v, c[k], fed) \/ InBody(s, q, v, c[k], fed) \/ Broken(s, q, v, c[k], fed)
  /\ q.encrypted <=> \E j \in 1..k : s[c[j - 1] + 1] = 20
  /\ \A i \in 1..k : Ends(s, c, i) => i = k /\ q.header = <<>> /\ v = Reason(s, c[k - 1])
  /\ v \in {"mismatch", "alert"} => k # 0 /\ Ends(s, c, k)

\* The next record is not whole among the bytes that the parser has taken.
LEMMA NextIsNotWhole ==
  ASSUME NEW s \in ByteStrings, NEW q, NEW v, NEW c, NEW k, NEW fed \in 0..Len(s), Stands(s, q, v, c, k, fed)
  PROVE  /\ k \in Nat /\ Cut(s, c, k) /\ c[k] \in 0..fed /\ ~WholeAt(s, fed, c[k])
         /\ q.header # <<>> \/ q.remaining # 0 <=> c[k] # fed
         /\ v = "failed" <=> c[k] + 5 <= fed /\ ~HeaderOk(s, c[k])
<1> DEFINE o == c[k]
           h == Len(q.header)
<1>1. /\ k \in Nat /\ Cut(s, c, k) /\ q.header \in ByteStrings /\ q.body \in Nat /\ q.remaining \in Nat
      /\ InHeader(q, v, o, fed) \/ InBody(s, q, v, o, fed) \/ Broken(s, q, v, o, fed)
  BY DEF Stands, Parsers
<1>2. o \in Nat /\ o <= Len(s) /\ Len(s) \in Nat /\ h \in Nat
  <2>1. k \in 0..k
    BY <1>1
  <2>2. \A i \in 0..k : c[i] \in Nat /\ c[i] <= Len(s)
    BY <1>1, CutSteps
  <2> QED
    BY <1>1, <2>1, <2>2, BytesAre
<1>3. q.header = <<>> <=> h = 0
  BY <1>1, EmptySeq DEF ByteStrings
<1>4. CASE InHeader(q, v, o, fed)
  <2>1. h < 5 /\ q.remaining = 0 /\ fed = o + h /\ v # "failed"
    BY <1>4 DEF InHeader
  <2> HIDE DEF o, h
  <2> QED
    BY <1>1, <1>2, <1>3, <2>1 DEF WholeAt, o, h
<1>5. CASE InBody(s, q, v, o, fed)
  <2>1. /\ h = 5 /\ HeaderOk(s, o) /\ q.body = Size(s, o) - 5 /\ v = "ok"
        /\ q.remaining \in 1..q.body /\ fed = o + 5 + q.body - q.remaining
    BY <1>5 DEF InBody
  <2>2. o + 5 <= fed /\ o < fed
    <3> HIDE DEF o, h
    <3> QED
      BY <1>1, <1>2, <2>1
  <2>3. Size(s, o) \in Nat
    <3>1. o + 5 <= Len(s)
      BY <1>2, <2>2
    <3> HIDE DEF o, h
    <3> QED
      BY <1>2, <3>1, SizeIs
  <2>4. o + Size(s, o) > fed
    <3> HIDE DEF o, h
    <3> QED
      BY <1>1, <1>2, <2>1, <2>3
  <2>5. ~WholeAt(s, fed, o)
    <3> HIDE DEF o, h
    <3> QED
      BY <1>2, <2>3, <2>4 DEF WholeAt
  <2> HIDE DEF o, h
  <2> QED
    BY <1>1, <1>2, <1>3, <2>1, <2>2, <2>5 DEF o, h
<1>6. CASE Broken(s, q, v, o, fed)
  <2>1. h = 5 /\ ~HeaderOk(s, o) /\ fed = o + 5 /\ v = "failed"
    BY <1>6 DEF Broken
  <2> HIDE DEF o, h
  <2> QED
    BY <1>1, <1>2, <1>3, <2>1 DEF WholeAt, o, h
<1> QED
  BY <1>1, <1>4, <1>5, <1>6

\* So it is of one mind with the functions that are given the bytes whole.
LEMMA StandsWhereItSplits ==
  ASSUME NEW s \in ByteStrings, NEW q, NEW v, NEW c, NEW k, NEW fed \in 0..Len(s), Stands(s, q, v, c, k, fed)
  PROVE  LET b == SubSeq(s, 1, fed)
             n == WholePart(b)
             records == SplitTLSRecords(SubSeq(b, 1, n)).records
             rest == SubSeq(b, n + 1, Len(b))
             broken == ParseTLSRecordHeader(rest).err = "ErrTLSRecord"
         IN /\ q.from_ec = Len(records)
            /\ q.encrypted <=> ~Plaintext(records, Len(records) + 1)
            /\ q.header # <<>> \/ q.remaining # 0 <=> rest # <<>>
            /\ \A i \in DOMAIN records : Fatal(records, i) => i = Len(records)
            /\ v = IF records # <<>> /\ Fatal(records, Len(records)) THEN Verdict(records[Len(records)])
                   ELSE IF broken THEN "failed" ELSE "ok"
<1> DEFINE b == SubSeq(s, 1, fed)
           n == WholePart(b)
           records == SplitTLSRecords(SubSeq(b, 1, n)).records
           rest == SubSeq(b, n + 1, Len(b))
           err == ParseTLSRecordHeader(rest).err
           first(j) == s[c[j - 1] + 1]
<1>1. /\ k \in Nat /\ Cut(s, c, k) /\ c[k] \in 0..fed /\ ~WholeAt(s, fed, c[k])
      /\ q.header # <<>> \/ q.remaining # 0 <=> c[k] # fed
      /\ v = "failed" <=> c[k] + 5 <= fed /\ ~HeaderOk(s, c[k])
  BY NextIsNotWhole
<1>2. /\ q.from_ec = k /\ v \in {"ok", "failed", "mismatch", "alert"}
      /\ q.encrypted \in BOOLEAN /\ (q.encrypted <=> \E j \in 1..k : first(j) = 20)
      /\ \A i \in 1..k : Ends(s, c, i) => i = k /\ q.header = <<>> /\ v = Reason(s, c[k - 1])
      /\ v \in {"mismatch", "alert"} => k # 0 /\ Ends(s, c, k)
  BY DEF Stands, Parsers
<1>3. n = c[k] /\ c[k] <= fed /\ fed \in Nat /\ Len(s) \in Nat /\ c[k] \in Nat
  <2>1. n = c[k]
    <3>1. c[k] <= fed
      BY <1>1
    <3> QED
      BY <1>1, <3>1, WholePartIs
  <2>2. Len(s) \in Nat
    BY BytesAre
  <2> HIDE DEF n
  <2> QED
    BY <1>1, <2>1, <2>2
<1>4. Len(b) = fed
  <2> DEFINE z == 0
  <2>1. z \in 0..fed /\ z + 1 = 1 /\ fed - z = fed
    BY <1>3
  <2>2. Len(SubSeq(s, z + 1, fed)) = fed - z
    <3> HIDE DEF z
    <3> QED
      BY <2>1, RestIs
  <2> QED
    BY <2>1, <2>2
<1>5. SubSeq(b, 1, n) = SubSeq(s, 1, c[k])
  <2> DEFINE z == 0
  <2>1. z \in 0..c[k] /\ z + 1 = 1
    BY <1>3
  <2>2. SubSeq(SubSeq(s, 1, fed), z + 1, c[k]) = SubSeq(s, z + 1, c[k])
    <3> HIDE DEF z
    <3> QED
      BY <1>1, <2>1, RestOfRest
  <2> QED
    BY <1>3, <2>1, <2>2
<1>6. rest = SubSeq(s, c[k] + 1, fed)
  <2>1. fed \in 0..fed
    BY <1>3
  <2>2. SubSeq(SubSeq(s, 1, fed), c[k] + 1, fed) = SubSeq(s, c[k] + 1, fed)
    BY <1>1, <2>1, RestOfRest
  <2> HIDE DEF n
  <2> QED
    BY <1>3, <1>4, <2>2
<1> HIDE DEF b, n
<1>7. /\ records \in Seq(ByteStrings) /\ Len(records) = k
      /\ \A i \in 1..k : records[i] = RecordAt(s, c[i - 1])
  <2> DEFINE r == SplitTLSRecords(SubSeq(s, 1, c[k])).records
  <2>1. /\ r \in Seq(ByteStrings) /\ Len(r) = k
        /\ \A i \in 1..k : r[i] = RecordAt(s, c[i - 1])
    BY <1>1, SplitOfCut, Zenon
  <2>2. records = r
    BY <1>5
  <2> HIDE DEF r, records
  <2> QED
    BY <2>1, <2>2
<1> HIDE DEF records, rest
<1>8. rest \in ByteStrings /\ Len(rest) = fed - c[k]
  BY <1>1, <1>6, RestIs
<1>9. rest # <<>> <=> c[k] # fed
  <2>1. rest = <<>> <=> Len(rest) = 0
    BY <1>8, EmptySeq DEF ByteStrings
  <2> QED
    BY <1>3, <1>8, <2>1
<1>10. err = "ErrTLSRecord" <=> v = "failed"
  <2>1. /\ c[k] + 5 > fed => err = "ErrShortBuffer"
        /\ c[k] + 5 <= fed /\ ~HeaderOk(s, c[k]) => err = "ErrTLSRecord"
        /\ c[k] + 5 <= fed /\ HeaderOk(s, c[k]) => err = "nil"
    BY <1>1, <1>6, HeaderIs
  <2> HIDE DEF err
  <2> QED
    BY <1>1, <1>3, <2>1
<1> HIDE DEF err
<1>11. ASSUME NEW i \in 1..k
       PROVE  /\ records[i][1] = first(i) /\ Len(records[i]) = Size(s, c[i - 1])
              /\ Size(s, c[i - 1]) = 7 => records[i][7] = s[c[i - 1] + 7]
  <2> DEFINE o == c[i - 1]
  <2>1. WholeAt(s, Len(s), o)
    BY <1>1 DEF Cut
  <2>2. o \in 0..Len(s) /\ Len(s) \in 0..Len(s)
    <3>1. i - 1 \in 0..k
      BY <1>1
    <3> QED
      BY <1>1, <1>3, <3>1, CutSteps
  <2>3. records[i] = RecordAt(s, o)
    BY <1>7
  <2> HIDE DEF o
  <2>4. /\ Size(s, o) \in Nat /\ Size(s, o) >= 6 /\ Len(records[i]) = Size(s, o)
        /\ \A j \in 1..Size(s, o) : records[i][j] = s[o + j]
    BY <2>1, <2>2, <2>3, RecordIs
  <2>5. 1 \in 1..Size(s, o) /\ (Size(s, o) = 7 => 7 \in 1..Size(s, o))
    BY <2>4
  <2>6. records[i][1] = s[o + 1] /\ (Size(s, o) = 7 => records[i][7] = s[o + 7])
    BY <2>4, <2>5
  <2> QED
    BY <2>4, <2>6 DEF o
<1>12. \A i \in 1..(k + 1) : Plaintext(records, i) <=> \A j \in 1..(i - 1) : first(j) # 20
  <2> SUFFICES ASSUME NEW i \in 1..(k + 1)
               PROVE  Plaintext(records, i) <=> \A j \in 1..(i - 1) : first(j) # 20
    OBVIOUS
  <2>1. \A j \in 1..(i - 1) : j \in 1..k
    BY <1>1
  <2>2. \A j \in 1..(i - 1) : records[j][1] = first(j)
    BY <1>11, <2>1
  <2> HIDE DEF first
  <2> QED
    BY <2>2 DEF Plaintext, TLSChangeCipherSpec
<1>13. \A i \in 1..k : Fatal(records, i) <=> Ends(s, c, i)
  <2> SUFFICES ASSUME NEW i \in 1..k PROVE Fatal(records, i) <=> Ends(s, c, i)
    OBVIOUS
  <2>1. i \in 1..(k + 1)
    BY <1>1
  <2>2. Plaintext(records, i) <=> \A j \in 1..(i - 1) : first(j) # 20
    BY <1>12, <2>1
  <2>3. records[i][1] = first(i)
    BY <1>11
  <2> QED
    BY <2>2, <2>3 DEF Fatal, Ends, TLSAlert
<1>14. k # 0 => Verdict(records[k]) = Reason(s, c[k - 1])
  <2>1. k # 0 => k \in 1..k
    BY <1>1
  <2> QED
    BY <1>11, <2>1 DEF Verdict, Reason
<1>15. Reason(s, c[k - 1]) \in {"mismatch", "alert"}
  BY DEF Reason
<1>16. records # <<>> <=> k # 0
  BY <1>7, EmptySeq
<1>17. DOMAIN records = 1..k
  BY <1>7, LenProperties
<1> HIDE DEF first
<1>18. q.encrypted <=> ~Plaintext(records, Len(records) + 1)
  <2>1. k + 1 \in 1..(k + 1) /\ (k + 1) - 1 = k
    BY <1>1
  <2>2. Plaintext(records, k + 1) <=> \A j \in 1..k : first(j) # 20
    <3> DEFINE m == k + 1
    <3>1. Plaintext(records, m) <=> \A j \in 1..(m - 1) : first(j) # 20
      <4> HIDE DEF m
      <4> QED
        BY <1>12, <2>1 DEF m
    <3>2. m - 1 = k
      BY <1>1
    <3>3. (\A j \in 1..(m - 1) : first(j) # 20) <=> \A j \in 1..k : first(j) # 20
      BY <3>2
    <3> QED
      BY <3>1, <3>3
  <2> QED
    BY <1>2, <1>7, <2>2
<1>19. \A i \in DOMAIN records : Fatal(records, i) => i = Len(records)
  BY <1>2, <1>7, <1>13, <1>17
<1>20. v = IF records # <<>> /\ Fatal(records, Len(records)) THEN Verdict(records[Len(records)])
           ELSE IF err = "ErrTLSRecord" THEN "failed" ELSE "ok"
  <2>1. k # 0 => k \in 1..k
    BY <1>1
  <2>2. CASE k # 0 /\ Ends(s, c, k)
    BY <1>2, <1>7, <1>13, <1>14, <1>16, <2>1, <2>2
  <2>3. CASE ~(k # 0 /\ Ends(s, c, k))
    <3>1. v \in {"ok", "failed"}
      BY <1>2, <2>3
    <3> QED
      BY <1>7, <1>10, <1>13, <1>16, <2>1, <2>3, <3>1
  <2> QED
    BY <2>2, <2>3
<1> QED
  BY <1>1, <1>2, <1>7, <1>9, <1>18, <1>19, <1>20 DEF b, n, records, rest, err

\* A piece of the stream, the first n bytes of it and what follows them.
LEMMA PieceIs ==
  ASSUME NEW s \in ByteStrings, NEW to \in 0..Len(s), NEW fed \in 0..to, NEW n \in Nat,
         n <= Len(SubSeq(s, fed + 1, to))
  PROVE  LET t == SubSeq(s, fed + 1, to)
         IN /\ t \in ByteStrings /\ Len(t) = to - fed /\ fed + n \in 0..to
            /\ \A i \in 1..Len(t) : t[i] = s[fed + i]
            /\ SubSeq(t, 1, n) \in ByteStrings /\ Len(SubSeq(t, 1, n)) = n
            /\ \A i \in 1..n : SubSeq(t, 1, n)[i] = s[fed + i]
            /\ SubSeq(t, n + 1, Len(t)) = SubSeq(s, fed + n + 1, to)
<1> DEFINE t == SubSeq(s, fed + 1, to)
           l == Len(t)
           on == fed + n
<1>1. t \in ByteStrings /\ l = to - fed /\ \A i \in 1..(to - fed) : t[i] = s[fed + i]
  BY RestIs
<1>2. to \in Nat /\ fed \in Nat /\ l \in Nat /\ n <= l /\ Len(s) \in Nat
  <2>1. Len(s) \in Nat
    BY BytesAre
  <2> HIDE DEF l
  <2> QED
    BY <1>1, <2>1 DEF l
<1> HIDE DEF t
<1>3. \A i \in 1..l : t[i] = s[fed + i]
  <2> HIDE DEF l
  <2> QED
    BY <1>1
<1>4. on \in 0..to
  <2> HIDE DEF l
  <2> QED
    BY <1>1, <1>2
<1> DEFINE z == 0
<1>5. z \in 0..n /\ z + 1 = 1 /\ n - z = n /\ n \in 0..Len(t) /\ (\A i \in 1..n : z + i = i /\ i \in 1..l)
  BY <1>2
<1>6. /\ SubSeq(t, z + 1, n) \in ByteStrings /\ Len(SubSeq(t, z + 1, n)) = n - z
      /\ \A i \in 1..(n - z) : SubSeq(t, z + 1, n)[i] = t[z + i]
  <2> HIDE DEF z
  <2> QED
    BY <1>1, <1>5, RestIs
<1>7. /\ SubSeq(t, 1, n) \in ByteStrings /\ Len(SubSeq(t, 1, n)) = n
      /\ \A i \in 1..n : SubSeq(t, 1, n)[i] = t[i]
  BY <1>5, <1>6
<1>8. \A i \in 1..n : SubSeq(t, 1, n)[i] = s[fed + i]
  BY <1>3, <1>5, <1>7
<1>9. SubSeq(t, n + 1, l) = SubSeq(s, on + 1, to)
  <2> DEFINE x == SubSeq(t, n + 1, l)
             y == SubSeq(s, on + 1, to)
  <2>1. x \in ByteStrings /\ Len(x) = l - n /\ \A i \in 1..(l - n) : x[i] = t[n + i]
    <3>1. l \in 0..Len(t) /\ n \in 0..l
      BY <1>2
    <3> HIDE DEF l
    <3> QED
      BY <1>1, <3>1, RestIs
  <2>2. y \in ByteStrings /\ Len(y) = to - on /\ \A i \in 1..(to - on) : y[i] = s[on + i]
    <3> HIDE DEF on
    <3> QED
      BY <1>4, RestIs
  <2> HIDE DEF x, y, l
  <2>3. l - n = to - on /\ \A i \in 1..(l - n) : n + i \in 1..l /\ on + i = fed + (n + i)
    BY <1>1, <1>2
  <2> HIDE DEF on
  <2>4. \A i \in 1..Len(x) : x[i] = y[i]
    BY <1>3, <2>1, <2>2, <2>3
  <2>5. x = y
    BY <2>1, <2>2, <2>3, <2>4, SameBytes
  <2> QED
    BY <2>5 DEF x, y
<1> QED
  BY <1>1, <1>3, <1>4, <1>7, <1>8, <1>9 DEF t

\* As long as the verdict is ok, no record has ended the session.
LEMMA NoneEnds ==
  ASSUME NEW s \in ByteStrings, NEW q, NEW c, NEW k, NEW fed \in 0..Len(s), Stands(s, q, "ok", c, k, fed)
  PROVE  /\ \A i \in 1..k : ~Ends(s, c, i)
         /\ q \in Parsers /\ k \in Nat /\ q.from_ec = k /\ Cut(s, c, k) /\ c[k] \in Nat /\ c[k] <= Len(s)
         /\ q.encrypted <=> \E j \in 1..k : s[c[j - 1] + 1] = 20
         /\ \A i \in 1..Len(q.header) : q.header[i] = s[c[k] + i]
         /\ InHeader(q, "ok", c[k], fed) \/ InBody(s, q, "ok", c[k], fed)
<1>1. \A o : Reason(s, o) # "ok"
  BY DEF Reason
<1>2. \A i \in 1..k : ~Ends(s, c, i)
  BY <1>1 DEF Stands
<1>3. ~Broken(s, q, "ok", c[k], fed)
  BY DEF Broken
<1>4. k \in Nat /\ Cut(s, c, k)
  BY DEF Stands
<1>5. c[k] \in Nat /\ c[k] <= Len(s)
  <2>1. k \in 0..k
    BY <1>4
  <2> QED
    BY <1>4, <2>1, CutSteps
<1> QED
  BY <1>2, <1>3, <1>5 DEF Stands

\* Where a turn leaves the parser when the host holds t: with the bytes of a header ...
HeaderTaken(s, q, t, c, k, fed) ==
  LET n == Smaller(Len(t), 5 - Len(q.header))
      header == q.header \o SubSeq(t, 1, n)
      body == 256 * header[4] + header[5]
      invalid == \/ header[1] \notin 20..23 \/ header[2] # 3 \/ header[3] < 1 \/ header[3] > 3
                 \/ body = 0 \/ body > MaxTLSRecordBody
  IN /\ n \in Nat /\ n <= Len(t)
     /\ Len(header) < 5 =>
          n = Len(t) /\ Stands(s, [q EXCEPT !.header = header], "ok", c, k, fed + n)
     /\ Len(header) = 5 /\ invalid =>
          Stands(s, [q EXCEPT !.header = header, !.body = body], "failed", c, k, fed + n)
     /\ ~(Len(header) < 5) /\ ~(Len(header) = 5 /\ invalid) =>
          Stands(s, [q EXCEPT !.header = header, !.body = body, !.remaining = body], "ok", c, k, fed + n)

\* Two bytes make a number, and so do the checks of one.
LEMMA Numbers ==
  /\ \A v \in Nat : v + 1 \in Nat /\ (v \in 1..3 <=> ~(v < 1 \/ v > 3))
  /\ \A u, v \in Nat : 256 * u + v \in Nat
OBVIOUS

\* A turn that takes bytes of the header leaves the parser where it should stand.
LEMMA HeaderStands ==
  ASSUME NEW s \in ByteStrings, NEW to \in 0..Len(s), NEW fed \in 0..to, NEW q, NEW c, NEW k,
         Stands(s, q, "ok", c, k, fed),
         NEW t, t = SubSeq(s, fed + 1, to), t # <<>>, Len(q.header) < 5
  PROVE  HeaderTaken(s, q, t, c, k, fed)
<1> DEFINE l == Len(t)
           h == Len(q.header)
           n == Smaller(l, 5 - h)
           front == SubSeq(t, 1, n)
           header == q.header \o front
           body == 256 * header[4] + header[5]
           invalid == \/ header[1] \notin 20..23 \/ header[2] # 3 \/ header[3] < 1 \/ header[3] > 3
                      \/ body = 0 \/ body > MaxTLSRecordBody
           o == c[k]
<1>1. Len(s) \in Nat /\ to \in Nat /\ fed \in Nat /\ fed \in 0..Len(s) /\ to <= Len(s)
  BY BytesAre
<1>2. /\ \A i \in 1..k : ~Ends(s, c, i)
      /\ q \in Parsers /\ k \in Nat /\ q.from_ec = k /\ Cut(s, c, k) /\ o \in Nat /\ o <= Len(s)
      /\ q.encrypted <=> \E j \in 1..k : s[c[j - 1] + 1] = 20
      /\ \A i \in 1..h : q.header[i] = s[o + i]
      /\ InHeader(q, "ok", o, fed) \/ InBody(s, q, "ok", o, fed)
  BY <1>1, NoneEnds
<1>3. q.header \in ByteStrings /\ h \in Nat /\ h < 5
  BY <1>2, BytesAre DEF Parsers
<1>4. fed = o + h /\ q.remaining = 0
  <2>1. InBody(s, q, "ok", o, fed) => h = 5
    BY DEF InBody
  <2>2. ~InBody(s, q, "ok", o, fed)
    <3> HIDE DEF h, o
    <3> QED
      BY <1>3, <2>1
  <2> QED
    BY <1>2, <2>2 DEF InHeader
<1>5. l = to - fed /\ l \in Nat /\ l # 0
  <2>1. t \in ByteStrings /\ l = to - fed /\ l \in Nat
    <3>1. t \in ByteStrings /\ l = to - fed
      BY RestIs
    <3> QED
      BY <3>1, BytesAre
  <2>2. t # <<>>
    OBVIOUS
  <2> QED
    BY <2>1, <2>2, EmptySeq DEF ByteStrings
<1> HIDE DEF l, h
<1>6. n \in Nat /\ n <= l /\ n >= 1 /\ h + n <= 5 /\ (h + n < 5 => n = l)
  BY <1>3, <1>5 DEF Smaller
<1> HIDE DEF n
<1>7. /\ front \in ByteStrings /\ Len(front) = n /\ fed + n \in 0..to
      /\ \A i \in 1..n : front[i] = s[fed + i]
  BY <1>6, PieceIs DEF l
<1> HIDE DEF front
<1>8. /\ header \in ByteStrings /\ Len(header) = h + n
      /\ \A i \in 1..h : header[i] = q.header[i]
      /\ \A i \in 1..n : header[h + i] = front[i]
  BY <1>3, <1>7, Concatenated DEF h
<1> HIDE DEF header
<1>9. ASSUME NEW i \in 1..(h + n) PROVE header[i] = s[o + i]
  <2> HIDE DEF o
  <2>1. CASE i <= h
    BY <1>2, <1>3, <1>6, <1>8, <2>1
  <2>2. CASE i > h
    <3> DEFINE j == i - h
    <3>1. j \in 1..n /\ h + j = i /\ fed + j = o + i
      <4>1. o \in Nat /\ fed = o + h
        BY <1>2, <1>4
      <4>2. h \in Nat /\ n \in Nat /\ i \in Nat /\ i <= h + n
        BY <1>3, <1>6
      <4> QED
        BY <2>2, <4>1, <4>2
    <3> HIDE DEF j
    <3>2. header[h + j] = s[fed + j]
      BY <1>7, <1>8, <3>1
    <3> QED
      BY <3>1, <3>2
  <2> QED
    BY <1>3, <1>6, <2>1, <2>2
<1>10. o + Len(header) <= Len(s) /\ o + Len(header) = fed + n
  <2>1. Len(header) = h + n /\ fed + n <= to /\ o \in Nat
    BY <1>1, <1>2, <1>7, <1>8
  <2> HIDE DEF o
  <2> QED
    BY <1>1, <1>3, <1>4, <1>6, <2>1
<1>11. ASSUME h + n = 5
       PROVE  /\ body \in Nat /\ body = Size(s, o) - 5
              /\ invalid <=> ~HeaderOk(s, o)
              /\ ~invalid => body \in 1..body
  <2>1. 1 \in 1..(h + n) /\ 2 \in 1..(h + n) /\ 3 \in 1..(h + n) /\ 4 \in 1..(h + n) /\ 5 \in 1..(h + n)
    BY <1>11
  <2>2. /\ header[1] = s[o + 1] /\ header[2] = s[o + 2] /\ header[3] = s[o + 3]
        /\ header[4] = s[o + 4] /\ header[5] = s[o + 5]
    BY <1>9, <2>1
  <2>3. header[1] \in Nat /\ header[3] \in Nat /\ header[4] \in Nat /\ header[5] \in Nat
    <3>1. \A i \in 1..Len(header) : header[i] \in Nat
      BY <1>8, BytesAre
    <3> QED
      BY <1>8, <2>1, <3>1
  <2>4. body \in Nat /\ Size(s, o) = 5 + body
    <3>1. body \in Nat
      BY <2>3, Numbers, Zenon
    <3>2. Size(s, o) = 5 + body
      BY <2>2 DEF Size
    <3> QED
      BY <3>1, <3>2
  <2>5. HeaderOk(s, o) <=> /\ header[1] \in {20, 21, 22, 23} /\ header[2] = 3 /\ header[3] \in 1..3
                           /\ body \in 1..MaxTLSRecordBody
    BY <2>2 DEF HeaderOk
  <2>6. MaxTLSRecordBody \in Nat
    BY RecordBodyBound
  <2> HIDE DEF body
  <2>9. header[1] \in 20..23 <=> header[1] \in {20, 21, 22, 23}
    BY <2>3
  <2>10. header[3] \in 1..3 <=> ~(header[3] < 1 \/ header[3] > 3)
    BY <2>3, Numbers, Zenon
  <2>11. body \in 1..MaxTLSRecordBody <=> ~(body = 0 \/ body > MaxTLSRecordBody)
    BY <2>4, <2>6
  <2>7. invalid <=> ~HeaderOk(s, o)
    BY <2>5, <2>9, <2>10, <2>11, Zenon
  <2>8. ~invalid => body \in 1..body
    BY <2>4
  <2> QED
    BY <2>4, <2>7, <2>8
<1> HIDE DEF invalid, o, body
<1>12. \A d \in Nat, r \in Nat :
         /\ [q EXCEPT !.header = header] \in Parsers
         /\ [q EXCEPT !.header = header, !.body = d] \in Parsers
         /\ [q EXCEPT !.header = header, !.body = d, !.remaining = r] \in Parsers
  BY <1>2, <1>8 DEF Parsers
<1>13. ASSUME Len(header) < 5
       PROVE  n = l /\ Stands(s, [q EXCEPT !.header = header], "ok", c, k, fed + n)
  <2> DEFINE x == [q EXCEPT !.header = header]
  <2>1. x \in Parsers /\ x.header = header /\ x.remaining = 0 /\ x.from_ec = k /\ x.encrypted = q.encrypted
    <3>1. x \in Parsers
      BY <1>12
    <3> QED
      BY <1>2, <1>4, <3>1 DEF Parsers
  <2> HIDE DEF x
  <2>2. InHeader(x, "ok", o, fed + n)
    BY <1>10, <1>13, <2>1 DEF InHeader
  <2>3. Stands(s, x, "ok", c, k, fed + n)
    BY <1>2, <1>8, <1>9, <1>10, <2>1, <2>2 DEF Stands, o
  <2> QED
    BY <1>6, <1>8, <1>13, <2>3 DEF x
<1>14. ASSUME Len(header) = 5, invalid
       PROVE  Stands(s, [q EXCEPT !.header = header, !.body = body], "failed", c, k, fed + n)
  <2>0. h + n = 5
    BY <1>8, <1>14
  <2> DEFINE x == [q EXCEPT !.header = header, !.body = body]
  <2>1. x \in Parsers /\ x.header = header /\ x.from_ec = k /\ x.encrypted = q.encrypted
    <3>1. x \in Parsers
      BY <1>11, <1>12, <2>0
    <3> QED
      BY <1>2, <1>4, <3>1 DEF Parsers
  <2> HIDE DEF x
  <2>2. Broken(s, x, "failed", o, fed + n)
    BY <1>10, <1>11, <1>14, <2>0, <2>1 DEF Broken
  <2>3. Stands(s, x, "failed", c, k, fed + n)
    BY <1>2, <1>8, <1>9, <1>10, <2>1, <2>2 DEF Stands, o
  <2> QED
    BY <2>3 DEF x
<1>15. ASSUME ~(Len(header) < 5), ~(Len(header) = 5 /\ invalid)
       PROVE  Stands(s, [q EXCEPT !.header = header, !.body = body, !.remaining = body], "ok", c, k, fed + n)
  <2>0. h + n = 5 /\ Len(header) = 5 /\ ~invalid
    BY <1>3, <1>6, <1>8, <1>15
  <2> DEFINE x == [q EXCEPT !.header = header, !.body = body, !.remaining = body]
  <2>1. /\ x \in Parsers /\ x.header = header /\ x.from_ec = k /\ x.encrypted = q.encrypted
        /\ x.body = body /\ x.remaining = body
    <3>1. x \in Parsers
      BY <1>11, <1>12, <2>0
    <3> QED
      BY <1>2, <1>4, <3>1 DEF Parsers
  <2> HIDE DEF x
  <2>2. InBody(s, x, "ok", o, fed + n)
    <3>1. body \in Nat /\ body = Size(s, o) - 5 /\ HeaderOk(s, o) /\ body \in 1..body
      BY <1>11, <2>0
    <3>2. fed + n = o + 5 + body - body /\ body - body = 0
      <4>1. o \in Nat
        BY <1>2 DEF o
      <4> QED
        BY <1>10, <2>0, <3>1, <4>1
    <3>3. ASSUME NEW i \in 1..2 PROVE ~(i <= body - body)
      BY <3>2
    <3> QED
      BY <2>0, <2>1, <3>1, <3>2, <3>3 DEF InBody
  <2>3. Stands(s, x, "ok", c, k, fed + n)
    BY <1>2, <1>8, <1>9, <1>10, <2>1, <2>2 DEF Stands, o
  <2> QED
    BY <2>3 DEF x
<1>16. n \in Nat /\ n <= l
  BY <1>6
<1> QED
  BY <1>13, <1>14, <1>15, <1>16, Zenon DEF HeaderTaken, header, front, l, h, n, body, invalid

\* A cut and the whole record that follows it.
Longer(s, c, k) == [i \in 0..(k + 1) |-> IF i <= k THEN c[i] ELSE c[k] + Size(s, c[k])]
\* A whole record more makes a cut one longer.
LEMMA CutGrows ==
  ASSUME NEW s \in ByteStrings, NEW k \in Nat, NEW c, Cut(s, c, k), WholeAt(s, Len(s), c[k])
  PROVE  /\ Cut(s, Longer(s, c, k), k + 1)
         /\ \A i \in 0..k : Longer(s, c, k)[i] = c[i]
         /\ Longer(s, c, k)[k + 1] = c[k] + Size(s, c[k])
<1> DEFINE e == Longer(s, c, k)
           next == c[k] + Size(s, c[k])
<1>1. /\ c \in [0..k -> 0..Len(s)] /\ c[0] = 0
      /\ \A i \in 1..k : WholeAt(s, Len(s), c[i - 1]) /\ c[i] = c[i - 1] + Size(s, c[i - 1])
  BY DEF Cut
<1>2. next \in 0..Len(s)
  <2>1. c[k] \in 0..Len(s) /\ Len(s) \in 0..Len(s)
    BY <1>1, BytesAre
  <2> QED
    BY <2>1, RecordIs
<1> HIDE DEF next
<1>3. e = [i \in 0..(k + 1) |-> IF i <= k THEN c[i] ELSE next]
  BY DEF Longer, next
<1>4. \A i \in 0..k : e[i] = c[i]
  <2>1. \A i \in 0..k : i \in 0..(k + 1) /\ i <= k
    OBVIOUS
  <2> HIDE DEF e
  <2> QED
    BY <1>3, <2>1
<1>5. e[k + 1] = next
  <2>1. k + 1 \in 0..(k + 1) /\ ~(k + 1 <= k)
    OBVIOUS
  <2> HIDE DEF e
  <2> QED
    BY <1>3, <2>1
<1> HIDE DEF e
<1>6. e \in [0..(k + 1) -> 0..Len(s)]
  <2>1. ASSUME NEW i \in 0..(k + 1) PROVE (IF i <= k THEN c[i] ELSE next) \in 0..Len(s)
    <3>1. i <= k => i \in 0..k
      OBVIOUS
    <3> QED
      BY <1>1, <1>2, <3>1
  <2> QED
    BY <1>3, <2>1, Zenon
<1>7. ASSUME NEW i \in 1..(k + 1)
      PROVE  WholeAt(s, Len(s), e[i - 1]) /\ e[i] = e[i - 1] + Size(s, e[i - 1])
  <2>1. CASE i <= k
    <3>1. i \in 1..k /\ i \in 0..k /\ i - 1 \in 0..k
      BY <2>1
    <3> QED
      BY <1>1, <1>4, <3>1
  <2>2. CASE ~(i <= k)
    <3>1. i = k + 1 /\ i - 1 = k /\ k \in 0..k
      BY <2>2
    <3>2. e[i - 1] = c[k] /\ e[i] = next
      BY <1>4, <1>5, <3>1
    <3> QED
      BY <3>2 DEF next
  <2> QED
    BY <2>1, <2>2
<1>8. e[0] = 0
  <2>1. 0 \in 0..k
    OBVIOUS
  <2> QED
    BY <1>1, <1>4, <2>1
<1> QED
  BY <1>4, <1>5, <1>6, <1>7, <1>8 DEF Cut, e, next

\* ... and with those of a body, the last of which make one record more.
BodyTaken(s, q, t, c, k, fed) ==
  LET n == Smaller(Len(t), q.remaining)
      off == q.body - q.remaining
      alert == [i \in 1..2 |-> IF q.header[1] = 21 /\ i \in (off + 1)..(off + n)
                               THEN t[i - off] ELSE q.alert[i]]
      r == [q EXCEPT !.remaining = @ - n, !.alert = alert]
      whole == [r EXCEPT !.header = <<>>, !.from_ec = @ + 1]
  IN /\ n \in Nat /\ n <= Len(t)
     /\ r.remaining # 0 => Stands(s, r, "ok", c, k, fed + n)
     /\ r.remaining = 0 =>
          IF q.header[1] = 21 /\ ~q.encrypted
          THEN Stands(s, whole, IF q.body = 2 /\ alert[2] \in {20, 51, 115} THEN "mismatch" ELSE "alert",
                      Longer(s, c, k), k + 1, fed + n)
          ELSE Stands(s, [whole EXCEPT !.encrypted = @ \/ q.header[1] = 20], "ok",
                      Longer(s, c, k), k + 1, fed + n)

\* A turn that takes bytes of the body does too; when they are the last of it, a record
\* more is whole, and it ends the session if it is an alert in the clear.
LEMMA BodyStands ==
  ASSUME NEW s \in ByteStrings, NEW to \in 0..Len(s), NEW fed \in 0..to, NEW q, NEW c, NEW k,
         Stands(s, q, "ok", c, k, fed),
         NEW t, t = SubSeq(s, fed + 1, to), t # <<>>, Len(q.header) = 5
  PROVE  BodyTaken(s, q, t, c, k, fed)
<1> DEFINE l == Len(t)
           n == Smaller(l, q.remaining)
           off == q.body - q.remaining
           alert == [i \in 1..2 |-> IF q.header[1] = 21 /\ i \in (off + 1)..(off + n)
                                    THEN t[i - off] ELSE q.alert[i]]
           r == [q EXCEPT !.remaining = @ - n, !.alert = alert]
           whole == [r EXCEPT !.header = <<>>, !.from_ec = @ + 1]
           o == c[k]
           b == q.body
           left == q.remaining
           e == Longer(s, c, k)
           on == fed + n
<1>1. Len(s) \in Nat /\ to \in Nat /\ fed \in Nat /\ fed \in 0..Len(s) /\ to <= Len(s)
  BY BytesAre
<1>2. /\ \A i \in 1..k : ~Ends(s, c, i)
      /\ q \in Parsers /\ k \in Nat /\ q.from_ec = k /\ Cut(s, c, k) /\ o \in Nat /\ o <= Len(s)
      /\ q.encrypted <=> \E j \in 1..k : s[c[j - 1] + 1] = 20
      /\ \A i \in 1..Len(q.header) : q.header[i] = s[o + i]
      /\ InHeader(q, "ok", o, fed) \/ InBody(s, q, "ok", o, fed)
  BY <1>1, NoneEnds
<1>3. /\ HeaderOk(s, o) /\ b = Size(s, o) - 5 /\ left \in 1..b /\ fed = o + 5 + b - left
      /\ s[o + 1] = 21 => \A i \in 1..2 : i <= b - left => q.alert[i] = s[o + 5 + i]
  <2>1. InHeader(q, "ok", o, fed) => Len(q.header) < 5
    BY DEF InHeader
  <2>2. ~(5 < 5)
    OBVIOUS
  <2>3. InBody(s, q, "ok", o, fed)
    BY <1>2, <2>1, <2>2
  <2> QED
    BY <2>3 DEF InBody
<1>4. b \in Nat /\ left \in Nat /\ left >= 1 /\ left <= b /\ q.alert \in [1..2 -> Octet] /\ q.encrypted \in BOOLEAN
  <2>1. b \in Nat /\ left \in Nat /\ q.alert \in [1..2 -> Octet] /\ q.encrypted \in BOOLEAN
    BY <1>2 DEF Parsers
  <2> HIDE DEF b, left
  <2> QED
    BY <1>3, <2>1
<1>5. /\ \A i \in 1..5 : q.header[i] = s[o + i]
      /\ q.header[1] = s[o + 1]
  BY <1>2
<1>6. t \in ByteStrings /\ l = to - fed /\ l \in Nat /\ l # 0
  <2>1. t \in ByteStrings /\ l = to - fed /\ l \in Nat
    <3>1. t \in ByteStrings /\ l = to - fed
      BY RestIs
    <3> QED
      BY <3>1, BytesAre
  <2>2. t # <<>>
    OBVIOUS
  <2> QED
    BY <2>1, <2>2, EmptySeq DEF ByteStrings
<1>7. n \in Nat /\ n <= l /\ n >= 1 /\ n <= left
  <2> HIDE DEF l
  <2> QED
    BY <1>4, <1>6 DEF Smaller
<1>8. on \in 0..to /\ \A i \in 1..n : t[i] \in Octet /\ t[i] = s[fed + i]
  <2> HIDE DEF n
  <2>1. fed + n \in 0..to /\ \A i \in 1..l : t[i] = s[fed + i]
    BY <1>7, PieceIs
  <2>2. \A i \in 1..l : t[i] \in Octet
    <3> QED
      BY <1>6, BytesAre
  <2>3. \A i \in 1..n : i \in 1..l
    BY <1>6, <1>7
  <2> QED
    BY <2>1, <2>2, <2>3
<1> HIDE DEF n, l, b, left, o
<1>9. off \in Nat /\ off = b - left /\ fed = o + 5 + off
  <2>1. o \in Nat
    BY <1>2
  <2>2. off = b - left
    BY DEF b, left
  <2>3. fed = o + 5 + b - left
    BY <1>3
  <2>4. b \in Nat /\ left \in Nat /\ left <= b
    BY <1>4
  <2> HIDE DEF off
  <2> QED
    BY <2>1, <2>2, <2>3, <2>4
<1> HIDE DEF off
<1>10. \A i \in 1..2 : /\ alert[i] \in Octet
                       /\ s[o + 1] = 21 /\ i <= off + n => alert[i] = s[o + 5 + i]
  <2> SUFFICES ASSUME NEW i \in 1..2
               PROVE  alert[i] \in Octet /\ (s[o + 1] = 21 /\ i <= off + n => alert[i] = s[o + 5 + i])
    OBVIOUS
  <2>1. alert[i] = IF q.header[1] = 21 /\ i \in (off + 1)..(off + n) THEN t[i - off] ELSE q.alert[i]
    OBVIOUS
  <2> HIDE DEF alert
  <2>2. q.alert[i] \in Octet
    BY <1>4
  <2>3. o \in Nat
    BY <1>2
  <2>4. CASE i <= off
    <3>1. ~(i \in (off + 1)..(off + n))
      BY <1>7, <1>9, <2>4
    <3>2. alert[i] = q.alert[i]
      BY <2>1, <3>1
    <3>3. s[o + 1] = 21 => q.alert[i] = s[o + 5 + i]
      BY <1>3, <1>9, <2>4
    <3> QED
      BY <2>2, <3>2, <3>3
  <2>5. CASE off < i /\ i <= off + n
    <3> DEFINE j == i - off
    <3>1. j \in 1..n /\ i \in (off + 1)..(off + n) /\ fed + j = o + 5 + i
      <4>1. n \in Nat /\ off \in Nat /\ fed = o + 5 + off /\ i \in Nat
        BY <1>7, <1>9
      <4> QED
        BY <2>3, <2>5, <4>1
    <3>2. t[j] \in Octet /\ t[j] = s[o + 5 + i]
      <4> HIDE DEF j
      <4> QED
        BY <1>8, <3>1
    <3>3. alert[i] = IF q.header[1] = 21 THEN t[j] ELSE q.alert[i]
      BY <2>1, <3>1
    <3> HIDE DEF j
    <3> QED
      BY <1>5, <2>2, <3>2, <3>3
  <2>6. CASE ~(i <= off + n)
    <3>1. ~(i \in (off + 1)..(off + n))
      BY <1>7, <1>9, <2>6
    <3>2. alert[i] = q.alert[i]
      BY <2>1, <3>1
    <3> QED
      BY <2>2, <2>6, <3>2
  <2> QED
    BY <1>7, <1>9, <2>4, <2>5, <2>6
<1>11. alert \in [1..2 -> Octet]
  <2>1. \A i \in 1..2 : alert[i] \in Octet
    BY <1>10
  <2>2. alert = [i \in 1..2 |-> alert[i]]
    OBVIOUS
  <2> HIDE DEF alert
  <2> QED
    BY <2>1, <2>2, Zenon
<1> HIDE DEF alert
<1>12. /\ r \in Parsers /\ r.header = q.header /\ r.body = b /\ r.remaining = left - n /\ r.alert = alert
       /\ r.encrypted = q.encrypted /\ r.from_ec = k
  <2>1. left - n \in Nat
    BY <1>4, <1>7
  <2> QED
    BY <1>2, <1>11, <2>1 DEF Parsers, left, b
<1> HIDE DEF r
<1>13. ASSUME r.remaining # 0 PROVE Stands(s, r, "ok", c, k, on)
  <2>1. r.remaining \in 1..r.body /\ on = o + 5 + r.body - r.remaining
    <3>1. o \in Nat
      BY <1>2
    <3>2. r.body = b /\ r.remaining = left - n /\ r.remaining # 0
      BY <1>12, <1>13
    <3>3. b \in Nat /\ left \in Nat /\ left <= b /\ n \in Nat /\ n >= 1 /\ n <= left
      BY <1>4, <1>7
    <3>4. off = b - left /\ fed = o + 5 + off
      BY <1>9
    <3> QED
      BY <3>1, <3>2, <3>3, <3>4
  <2>2. r.body - r.remaining = off + n
    BY <1>4, <1>7, <1>9, <1>12
  <2>3. InBody(s, r, "ok", o, on)
    <3>1. s[o + 1] = 21 => \A i \in 1..2 : i <= r.body - r.remaining => r.alert[i] = s[o + 5 + i]
      BY <1>10, <1>12, <2>2
    <3> HIDE DEF on
    <3> QED
      BY <1>3, <1>12, <2>1, <3>1 DEF InBody
  <2>4. o + Len(r.header) <= Len(s) /\ \A i \in 1..Len(r.header) : r.header[i] = s[o + i]
    <3>1. o \in Nat /\ Len(r.header) = 5 /\ fed <= Len(s)
      BY <1>1, <1>2, <1>12
    <3>2. o + 5 <= Len(s)
      BY <1>1, <1>9, <3>1
    <3> QED
      BY <1>5, <1>12, <3>1, <3>2
  <2> HIDE DEF on
  <2> QED
    BY <1>2, <1>12, <2>3, <2>4 DEF Stands, o
<1>14. ASSUME r.remaining = 0
       PROVE  /\ on = o + Size(s, o) /\ WholeAt(s, Len(s), o) /\ Size(s, o) \in Nat
              /\ Cut(s, e, k + 1) /\ \A i \in 0..k : e[i] = c[i]
              /\ e[k + 1] = on
              /\ s[o + 1] = 21 => \A i \in 1..2 : i <= b => alert[i] = s[o + 5 + i]
  <2>1. o \in Nat
    BY <1>2
  <2>2. n = left /\ off + n = b
    BY <1>4, <1>7, <1>9, <1>12, <1>14
  <2>3. on = o + 5 + b /\ on <= Len(s)
    <3>1. on \in 0..to
      BY <1>8
    <3>2. fed = o + 5 + off /\ off \in Nat /\ n \in Nat /\ b \in Nat
      BY <1>4, <1>7, <1>9
    <3> QED
      BY <1>1, <2>1, <2>2, <3>1, <3>2
  <2>4. o + 5 <= Len(s)
    BY <1>1, <1>4, <2>1, <2>3
  <2>5. Size(s, o) \in Nat
    BY <2>1, <2>4, SizeIs
  <2>6. on = o + Size(s, o)
    <3> HIDE DEF on
    <3> QED
      BY <1>3, <1>4, <2>1, <2>3, <2>5
  <2>7. WholeAt(s, Len(s), o)
    BY <1>3, <2>3, <2>4, <2>6 DEF WholeAt
  <2>8. Cut(s, e, k + 1) /\ (\A i \in 0..k : e[i] = c[i]) /\ e[k + 1] = o + Size(s, o)
    BY <1>2, <2>7, CutGrows DEF o
  <2>9. s[o + 1] = 21 => \A i \in 1..2 : i <= b => alert[i] = s[o + 5 + i]
    BY <1>10, <2>2
  <2> QED
    BY <2>5, <2>6, <2>7, <2>8, <2>9
<1> HIDE DEF on, e
<1>15. ASSUME r.remaining = 0
       PROVE  /\ (\E j \in 1..(k + 1) : s[e[j - 1] + 1] = 20) <=> q.encrypted \/ s[o + 1] = 20
              /\ Ends(s, e, k + 1) <=> s[o + 1] = 21 /\ ~q.encrypted
              /\ \A i \in 1..k : ~Ends(s, e, i)
              /\ e[(k + 1) - 1] = o
  <2>1. \A i \in 0..k : e[i] = c[i]
    BY <1>14, <1>15
  <2>2. \A j \in 1..k : e[j - 1] = c[j - 1]
    <3>1. \A j \in 1..k : j - 1 \in 0..k
      BY <1>2
    <3> QED
      BY <2>1, <3>1
  <2>3. e[(k + 1) - 1] = o
    <3>1. (k + 1) - 1 = k /\ k \in 0..k
      BY <1>2
    <3> QED
      BY <2>1, <3>1 DEF o
  <2>4. \A j \in 1..(k + 1) : j \in 1..k \/ j = k + 1
    BY <1>2
  <2>5. \A j \in 1..k : j \in 1..(k + 1)
    BY <1>2
  <2>6. k + 1 \in 1..(k + 1) /\ (k + 1) - 1 = k
    BY <1>2
  <2>7. (\E j \in 1..(k + 1) : s[e[j - 1] + 1] = 20) <=> q.encrypted \/ s[o + 1] = 20
    <3>1. ASSUME NEW j \in 1..(k + 1), s[e[j - 1] + 1] = 20 PROVE q.encrypted \/ s[o + 1] = 20
      <4>1. CASE j \in 1..k
        <5>1. s[c[j - 1] + 1] = 20
          BY <2>2, <3>1, <4>1
        <5> QED
          BY <1>2, <4>1, <5>1
      <4>2. CASE j = k + 1
        <5>1. s[e[(k + 1) - 1] + 1] = 20
          BY <3>1, <4>2
        <5> QED
          BY <2>3, <5>1
      <4> QED
        BY <2>4, <4>1, <4>2
    <3>2. ASSUME q.encrypted PROVE \E j \in 1..(k + 1) : s[e[j - 1] + 1] = 20
      <4>1. PICK j \in 1..k : s[c[j - 1] + 1] = 20
        BY <1>2, <3>2
      <4>2. s[e[j - 1] + 1] = 20 /\ j \in 1..(k + 1)
        BY <2>2, <2>5, <4>1
      <4> QED
        BY <4>2
    <3>3. ASSUME s[o + 1] = 20 PROVE \E j \in 1..(k + 1) : s[e[j - 1] + 1] = 20
      <4>1. s[e[(k + 1) - 1] + 1] = 20
        BY <2>3, <3>3
      <4> QED
        BY <2>6, <4>1
    <3> QED
      BY <3>1, <3>2, <3>3
  <2>8. Ends(s, e, k + 1) <=> s[o + 1] = 21 /\ ~q.encrypted
    <3> DEFINE m == (k + 1) - 1
    <3>1. Ends(s, e, k + 1) <=> s[e[m] + 1] = 21 /\ \A j \in 1..m : s[e[j - 1] + 1] # 20
      BY Zenon DEF Ends
    <3>2. m = k
      BY <2>6
    <3>3. (\A j \in 1..m : s[e[j - 1] + 1] # 20) <=> \A j \in 1..k : s[c[j - 1] + 1] # 20
      BY <2>2, <3>2
    <3>4. e[m] = o
      BY <2>3
    <3> HIDE DEF m
    <3> QED
      BY <1>2, <3>1, <3>3, <3>4
  <2>9. \A i \in 1..k : ~Ends(s, e, i)
    <3> SUFFICES ASSUME NEW i \in 1..k, Ends(s, e, i) PROVE Ends(s, c, i)
      BY <1>2
    <3>1. \A j \in 1..(i - 1) : j \in 1..k
      BY <1>2
    <3> QED
      BY <2>2, <3>1 DEF Ends
  <2> QED
    BY <2>3, <2>7, <2>8, <2>9
<1>17. /\ whole \in Parsers /\ whole.header = <<>> /\ whole.remaining = r.remaining /\ whole.from_ec = k + 1
       /\ whole.encrypted = q.encrypted
  <2>1. DOMAIN r = {"header", "body", "remaining", "alert", "encrypted", "from_ec"}
    BY <1>12 DEF Parsers
  <2>2. k + 1 \in Nat /\ <<>> \in ByteStrings
    BY <1>2, Numbers, EmptyBytes, Zenon
  <2>3. whole = [r EXCEPT !.header = <<>>, !.from_ec = k + 1]
    BY <1>12
  <2>4. [r EXCEPT !.header = <<>>, !.from_ec = k + 1] \in Parsers
    BY <1>12, <2>2 DEF Parsers
  <2>5. /\ [r EXCEPT !.header = <<>>, !.from_ec = k + 1].header = <<>>
        /\ [r EXCEPT !.header = <<>>, !.from_ec = k + 1].remaining = r.remaining
        /\ [r EXCEPT !.header = <<>>, !.from_ec = k + 1].from_ec = k + 1
        /\ [r EXCEPT !.header = <<>>, !.from_ec = k + 1].encrypted = q.encrypted
    BY <1>12, <2>1 DEF Parsers
  <2> HIDE DEF whole
  <2> QED
    BY <2>3, <2>4, <2>5
<1>16. \A f \in BOOLEAN :
         LET x == [whole EXCEPT !.encrypted = f]
         IN /\ x \in Parsers /\ x.header = <<>> /\ x.remaining = r.remaining /\ x.from_ec = k + 1
            /\ x.encrypted = f
  <2> SUFFICES ASSUME NEW f \in BOOLEAN
               PROVE  LET x == [whole EXCEPT !.encrypted = f]
                      IN /\ x \in Parsers /\ x.header = <<>> /\ x.remaining = r.remaining /\ x.from_ec = k + 1
                         /\ x.encrypted = f
    OBVIOUS
  <2> DEFINE w == whole
             x == [whole EXCEPT !.encrypted = f]
  <2>1. /\ w \in Parsers /\ w.header = <<>> /\ w.remaining = r.remaining /\ w.from_ec = k + 1
        /\ w.encrypted = q.encrypted
    BY <1>17
  <2> HIDE DEF w
  <2>2. [w EXCEPT !.encrypted = f] \in Parsers
    BY <2>1 DEF Parsers
  <2>3. /\ [w EXCEPT !.encrypted = f].header = <<>> /\ [w EXCEPT !.encrypted = f].remaining = r.remaining
        /\ [w EXCEPT !.encrypted = f].from_ec = k + 1 /\ [w EXCEPT !.encrypted = f].encrypted = f
    BY <2>1 DEF Parsers
  <2> QED
    BY <2>2, <2>3 DEF w
<1> HIDE DEF whole
<1>18. ASSUME NEW x \in Parsers, x.header = <<>>, x.remaining = 0, r.remaining = 0, x.from_ec = k + 1,
              NEW v \in {"ok", "mismatch", "alert"},
              x.encrypted <=> q.encrypted \/ s[o + 1] = 20,
              IF s[o + 1] = 21 /\ ~q.encrypted THEN v = Reason(s, o) ELSE v = "ok"
       PROVE  Stands(s, x, v, e, k + 1, on)
  <2>1. InHeader(x, v, e[k + 1], on)
    <3>1. Len(x.header) = 0 /\ e[k + 1] = on
      BY <1>14, <1>18, EmptyBytes
    <3>2. on \in Nat
      BY <1>1, <1>8
    <3> QED
      BY <1>18, <3>1, <3>2 DEF InHeader
  <2>2. e[k + 1] + Len(x.header) <= Len(s) /\ \A i \in 1..Len(x.header) : x.header[i] = s[e[k + 1] + i]
    <3>1. Len(x.header) = 0 /\ e[k + 1] = on /\ on \in Nat /\ on <= Len(s)
      BY <1>1, <1>8, <1>14, <1>18, EmptyBytes
    <3> QED
      BY <1>1, <3>1
  <2>3. x.encrypted <=> \E j \in 1..(k + 1) : s[e[j - 1] + 1] = 20
    BY <1>15, <1>18
  <2>4. ASSUME NEW i \in 1..(k + 1), Ends(s, e, i)
        PROVE  i = k + 1 /\ x.header = <<>> /\ v = Reason(s, e[(k + 1) - 1])
    <3>1. i \in 1..k \/ i = k + 1
      BY <1>2
    <3>2. i = k + 1
      BY <1>15, <1>18, <2>4, <3>1
    <3> QED
      BY <1>15, <1>18, <2>4, <3>2
  <2>5. v \in {"mismatch", "alert"} => k + 1 # 0 /\ Ends(s, e, k + 1)
    <3>1. k + 1 # 0
      BY <1>2
    <3> QED
      BY <1>15, <1>18, <3>1
  <2>6. k + 1 \in Nat /\ Cut(s, e, k + 1) /\ v \in {"ok", "failed", "mismatch", "alert"}
    BY <1>2, <1>14, <1>18
  <2> QED
    BY <1>18, <2>1, <2>2, <2>3, <2>4, <2>5, <2>6 DEF Stands
<1>19. ASSUME r.remaining = 0, q.header[1] = 21 /\ ~q.encrypted
       PROVE  Stands(s, whole, IF q.body = 2 /\ alert[2] \in {20, 51, 115} THEN "mismatch" ELSE "alert", e, k + 1, on)
  <2> DEFINE v == IF q.body = 2 /\ alert[2] \in {20, 51, 115} THEN "mismatch" ELSE "alert"
  <2>1. s[o + 1] = 21 /\ s[o + 1] # 20
    BY <1>5, <1>19
  <2>2. Size(s, o) = 7 <=> b = 2
    BY <1>3, <1>4, <1>14, <1>19
  <2>3. b = 2 => alert[2] = s[o + 7]
    <3>1. o + 5 + 2 = o + 7
      BY <1>2 DEF o
    <3>2. 2 \in 1..2 /\ 2 <= 2
      OBVIOUS
    <3> QED
      BY <1>14, <1>19, <2>1, <3>1, <3>2
  <2>4. v = Reason(s, o) /\ v \in {"ok", "mismatch", "alert"}
    BY <2>2, <2>3 DEF Reason, b
  <2> HIDE DEF v
  <2>5. Stands(s, whole, v, e, k + 1, on)
    BY <1>17, <1>18, <1>19, <2>1, <2>4
  <2> QED
    BY <2>5 DEF v
<1>20. ASSUME r.remaining = 0, ~(q.header[1] = 21 /\ ~q.encrypted)
       PROVE  Stands(s, [whole EXCEPT !.encrypted = @ \/ q.header[1] = 20], "ok", e, k + 1, on)
  <2> DEFINE f == whole.encrypted \/ q.header[1] = 20
             x == [whole EXCEPT !.encrypted = f]
  <2>1. f \in BOOLEAN /\ (f <=> q.encrypted \/ s[o + 1] = 20)
    BY <1>5, <1>17
  <2> HIDE DEF f
  <2>2. x \in Parsers /\ x.header = <<>> /\ x.remaining = 0 /\ x.from_ec = k + 1 /\ x.encrypted = f
    BY <1>16, <1>20, <2>1
  <2> HIDE DEF x
  <2>3. Stands(s, x, "ok", e, k + 1, on)
    BY <1>5, <1>18, <1>20, <2>1, <2>2
  <2> QED
    BY <2>3, Zenon DEF x, f
<1>21. n \in Nat /\ n <= l
  BY <1>7
<1> QED
  BY <1>13, <1>19, <1>20, <1>21, Zenon DEF BodyTaken, l, n, off, alert, r, whole, o, b, left, e, on

-----------------------------------------------------------------------------
(* What the host makes of each transfer *)

\* What the host makes of each transfer the EC may send.
LEMMA PaddingsAre == \A padding \in Paddings : padding \in ByteStrings
<1>1. 0 \in Octet /\ 1 \in Octet /\ 177 \in Octet /\ 21 \in Octet /\ FlagTLSData \in Octet
  BY DEF Octet, FlagTLSData
<1> DEFINE v == FlagTLSData
<1>2. <<0, 0, 0>> \in Seq(Octet) /\ <<v, 1, 0, 177, 21>> \in Seq(Octet)
  <2> HIDE DEF v
  <2>1. v \in Octet
    BY <1>1 DEF v
  <2> QED
    BY <1>1, <2>1
<1> QED
  BY <1>2, EmptyBytes DEF Paddings, ByteStrings, Octet

\* A piece of the stream of records reaches the endpoint as it was sent, padded or not.
LEMMA RecordsAreTaken ==
  ASSUME NEW flags \in {FlagTLSData, FlagTLSAlt}, NEW padding \in Paddings,
         NEW payload \in ByteStrings, Len(payload) <= MaxPack
  PROVE  LET b == EncodePack(flags, payload) \o padding
             rx == rx_classify(b)
         IN b \in ByteStrings /\ b # <<>> /\ rx.kind = "tls" /\ rx.payload = payload
<1> DEFINE b == EncodePack(flags, payload) \o padding
           d == g5120_pack_decode(b)
<1>1. flags \in Octet /\ flags \in {176, 178} /\ padding \in ByteStrings
  BY PaddingsAre DEF Octet, FlagTLSData, FlagTLSAlt
<1>2. b \in ByteStrings /\ b # <<>> /\ d.ok /\ d.flags = flags /\ d.payload = payload
  BY <1>1, PackRoundTrip
<1> HIDE DEF b
<1>3. d.ok /\ d.flags \in {176, 178} => rx_classify(b).kind = "tls" /\ rx_classify(b).payload = d.payload
  BY <1>2, ClassifyIs
<1> QED
  BY <1>1, <1>2, <1>3 DEF b

\* A message is recognised with its command and payload, and as an event if it is one.
LEMMA MessageIsTaken ==
  ASSUME NEW m \in Messages, NEW noChecksum \in BOOLEAN, NEW padding \in Paddings
  PROVE  LET b == EncodePack(FlagMessage, EncodeMessage(m.cmd, m.payload, noChecksum)) \o padding
             rx == rx_classify(b)
         IN /\ b \in ByteStrings /\ b # <<>>
            /\ rx.kind \in {"ack", "fdt", "data"}
            /\ [cmd |-> rx.cmd, payload |-> rx.payload, acked |-> rx.acked] = m
            /\ rx.cmd = m.cmd /\ rx.payload = m.payload
            /\ m.cmd \in Octet /\ m.payload \in ByteStrings
            /\ rx.event = g5120_fdt_decode_event(m.cmd, m.payload)
            /\ rx.kind = "fdt" <=> m.cmd \in {50, 52, 54} /\ rx.event.ok
<1> DEFINE e == EncodeMessage(m.cmd, m.payload, noChecksum)
           b == EncodePack(FlagMessage, e) \o padding
           d == g5120_pack_decode(b)
           g == g5120_message_decode(d.payload)
           rx == rx_classify(b)
           ack == m.cmd = 176 /\ Len(m.payload) = 2
<1>1. /\ m.cmd \in Octet /\ m.payload \in ByteStrings /\ Len(m.payload) + 4 <= MaxPack
      /\ m = [cmd |-> m.cmd, payload |-> m.payload, acked |-> DecodeAck(Message("nil", m.cmd, m.payload)).acked]
  BY MessagesAssumption DEF Octet
<1>2. padding \in ByteStrings /\ FlagMessage \in Octet /\ FlagMessage = 160
  BY PaddingsAre DEF Octet, FlagMessage
<1>3. /\ e \in ByteStrings /\ Len(e) <= MaxPack
      /\ g5120_message_decode(e).ok /\ g5120_message_decode(e).cmd = m.cmd
      /\ g5120_message_decode(e).payload = m.payload
  BY <1>1, MessageRoundTrip
<1> HIDE DEF e
<1>4. b \in ByteStrings /\ b # <<>> /\ d.ok /\ d.flags = FlagMessage /\ d.payload = e
  BY <1>2, <1>3, PackRoundTrip
<1> HIDE DEF b
<1>5. g.ok /\ g.cmd = m.cmd /\ g.payload = m.payload /\ d.flags = 160
  BY <1>2, <1>3, <1>4
<1>6. DecodeAck(Message("nil", m.cmd, m.payload)).acked = IF ack THEN m.payload[1] ELSE 0
  BY DEF DecodeAck, Message, AckCmd
<1>7. d.ok /\ d.flags = 160 /\ g.ok =>
        /\ (g.cmd = 176 /\ Len(g.payload) = 2) => rx.kind = "ack" /\ rx.acked = g.payload[1]
        /\ ~(g.cmd = 176 /\ Len(g.payload) = 2) =>
             /\ rx.kind \in {"fdt", "data"} /\ rx.acked = 0
             /\ rx.kind = "fdt" <=> g.cmd \in {50, 52, 54} /\ g5120_fdt_decode_event(g.cmd, g.payload).ok
        /\ rx.cmd = g.cmd /\ rx.payload = g.payload
        /\ rx.event = g5120_fdt_decode_event(g.cmd, g.payload)
  BY <1>4, ClassifyIs, Zenon
<1> HIDE DEF d, g, rx
<1>8. /\ ack => rx.kind = "ack" /\ rx.acked = m.payload[1]
      /\ ~ack => /\ rx.kind \in {"fdt", "data"} /\ rx.acked = 0
                 /\ rx.kind = "fdt" <=> m.cmd \in {50, 52, 54} /\ rx.event.ok
      /\ rx.cmd = m.cmd /\ rx.payload = m.payload
      /\ rx.event = g5120_fdt_decode_event(m.cmd, m.payload)
  BY <1>4, <1>5, <1>7
<1>9. rx.kind = "fdt" <=> m.cmd \in {50, 52, 54} /\ rx.event.ok
  <2>1. ack => ~(m.cmd \in {50, 52, 54})
    OBVIOUS
  <2>2. "ack" # "fdt"
    OBVIOUS
  <2> HIDE DEF ack
  <2> QED
    BY <1>8, <2>1, <2>2
<1>10. [cmd |-> rx.cmd, payload |-> rx.payload, acked |-> rx.acked] = m
  <2>1. rx.acked = IF ack THEN m.payload[1] ELSE 0
    BY <1>8
  <2> QED
    BY <1>1, <1>6, <1>8, <2>1
<1>11. rx.kind \in {"ack", "fdt", "data"}
  BY <1>8
<1> QED
  BY <1>1, <1>4, <1>8, <1>9, <1>10, <1>11 DEF e, b, rx

\* Junk is recognised as nothing.
LEMMA JunkIsOther ==
  ASSUME NEW b \in Junk
  PROVE  b \in ByteStrings /\ rx_classify(b).kind = "other"
<1> DEFINE P == DecodePack(b)
           d == g5120_pack_decode(b)
           g == g5120_message_decode(d.payload)
<1>1. /\ b \in ByteStrings
      /\ \/ P.err # "nil" \/ P.flags \notin {FlagMessage, FlagTLSData, FlagTLSAlt}
         \/ P.flags = FlagMessage /\ DecodeMessage(P.payload).err # "nil"
  BY JunkAssumption
<1>2. /\ P.err = "nil" <=> d.ok
      /\ P = Pack(P.err, d.flags, d.payload) /\ d.payload \in ByteStrings
  BY <1>1, PackDecodersAgree
<1> HIDE DEF P, d
<1>3. P.flags = d.flags /\ P.payload = d.payload
  BY <1>2 DEF Pack
<1>4. DecodeMessage(d.payload).err = "nil" <=> g.ok
  BY <1>2, MessageDecodersAgree
<1>5. FlagMessage = 160 /\ FlagTLSData = 176 /\ FlagTLSAlt = 178
  BY DEF FlagMessage, FlagTLSData, FlagTLSAlt
<1>6. ~(d.ok /\ (d.flags \in {176, 178} \/ (d.flags = 160 /\ g.ok)))
  <2> HIDE DEF g
  <2> QED
    BY <1>1, <1>2, <1>3, <1>4, <1>5
<1>7. ~(d.ok /\ (d.flags \in {176, 178} \/ (d.flags = 160 /\ g.ok))) => rx_classify(b).kind = "other"
  BY <1>1, ClassifyIs DEF d
<1> QED
  BY <1>1, <1>6, <1>7

-----------------------------------------------------------------------------
(* Arms *)

\* The readings after one more message are its own, when no finger is on in them.
BaseOf(g) ==
  LET event(i) == DecodeFDTEvent(g[i].cmd, g[i].payload)
      untouched == {i \in DOMAIN g : g[i].cmd \in FDTCommands /\ Untouched(event(i))}
  IN IF untouched = {} THEN g5120_fdt_initial_down_thresholds ELSE DownThresholds(event(Max(untouched)).zones)

\* The base is that of the last message, if it is an untouched event.
LEMMA BaseGrows ==
  ASSUME NEW S, NEW g \in Seq(S), NEW m \in S
  PROVE  LET e == DecodeFDTEvent(m.cmd, m.payload)
         IN BaseOf(Append(g, m)) = IF m.cmd \in FDTCommands /\ Untouched(e) THEN DownThresholds(e.zones) ELSE BaseOf(g)
<1> DEFINE n == Len(g)
           h == Append(g, m)
           Counts(x) == x.cmd \in FDTCommands /\ Untouched(DecodeFDTEvent(x.cmd, x.payload))
           zones(x) == DecodeFDTEvent(x.cmd, x.payload).zones
           old == {i \in 1..n : Counts(g[i])}
           new == {i \in 1..(n + 1) : Counts(h[i])}
           last == n + 1
<1>1. n \in Nat /\ DOMAIN g = 1..n /\ DOMAIN h = 1..last
  <2>1. n \in Nat /\ DOMAIN g = 1..n
    BY LenProperties
  <2>2. h \in Seq(S) /\ Len(h) = n + 1
    BY AppendProperties
  <2>3. DOMAIN h = 1..Len(h)
    BY <2>2, LenProperties
  <2> QED
    BY <2>1, <2>2, <2>3
<1>2. (\A i \in 1..n : h[i] = g[i]) /\ h[last] = m
  BY AppendProperties
<1>3. BaseOf(g) = IF old = {} THEN g5120_fdt_initial_down_thresholds ELSE DownThresholds(zones(g[Max(old)]))
  <2>1. old = {i \in DOMAIN g : g[i].cmd \in FDTCommands /\ Untouched(DecodeFDTEvent(g[i].cmd, g[i].payload))}
    BY <1>1
  <2> HIDE DEF old
  <2> QED
    BY <2>1 DEF BaseOf
<1>4. BaseOf(h) = IF new = {} THEN g5120_fdt_initial_down_thresholds ELSE DownThresholds(zones(h[Max(new)]))
  <2>1. new = {i \in DOMAIN h : h[i].cmd \in FDTCommands /\ Untouched(DecodeFDTEvent(h[i].cmd, h[i].payload))}
    BY <1>1
  <2> HIDE DEF new, h
  <2> QED
    BY <2>1 DEF BaseOf
<1> HIDE DEF Counts, zones, h, n
<1>5. CASE Counts(m)
  <2>1. last \in new /\ last \in Nat
    BY <1>1, <1>2, <1>5
  <2>2. Max(new) \in new /\ \A y \in new : y <= Max(new)
    <3> DEFINE N == n + 1
    <3>1. N \in Nat /\ new \in SUBSET (1..N) /\ new # {}
      BY <1>1, <2>1
    <3> HIDE DEF N, new
    <3> QED
      BY <3>1, MaxOfIndices
  <2>3. Max(new) = last
    <3>1. Max(new) \in 1..(n + 1) /\ last <= Max(new)
      BY <2>1, <2>2
    <3> HIDE DEF new
    <3> QED
      BY <1>1, <3>1
  <2>4. zones(h[Max(new)]) = zones(m)
    BY <1>2, <2>3
  <2>5. BaseOf(h) = DownThresholds(zones(m))
    <3> HIDE DEF new, last
    <3> QED
      BY <1>4, <2>1, <2>4
  <2> QED
    BY <1>5, <2>5 DEF h, Counts, zones
<1>6. CASE ~Counts(m)
  <2>1. new = old
    <3>1. ASSUME NEW i \in new PROVE i \in old
      <4>1. i # last
        BY <1>2, <1>6
      <4>2. i \in 1..n
        BY <1>1, <4>1
      <4> QED
        BY <1>2, <4>2
    <3>2. ASSUME NEW i \in old PROVE i \in new
      <4>1. i \in 1..(n + 1)
        BY <1>1
      <4> QED
        BY <1>2, <4>1
    <3> HIDE DEF old, new
    <3> QED
      BY <3>1, <3>2
  <2>2. old # {} => Max(old) \in 1..n
    <3>1. old \in SUBSET (1..n)
      OBVIOUS
    <3> HIDE DEF old
    <3>2. old # {} => Max(old) \in old
      BY <1>1, <3>1, MaxOfIndices
    <3> QED
      BY <3>1, <3>2
  <2>3. old # {} => h[Max(old)] = g[Max(old)]
    BY <1>2, <2>2
  <2>4. BaseOf(h) = BaseOf(g)
    <3> HIDE DEF old, new
    <3> QED
      BY <1>3, <1>4, <2>1, <2>3
  <2> QED
    BY <1>6, <2>4 DEF h, Counts
<1> QED
  BY <1>5, <1>6

-----------------------------------------------------------------------------
(* Events and the arms that answer them *)

\* What ArmsFollow says of an arm, given the last event and the thresholds for a finger.
RightArm(frame, e, base) ==
  LET m == DecodeMessage(DecodePack(frame).payload)
      arm == DecodeFDTArm(m.cmd, m.payload)
  IN /\ Len(frame) % G5120_USB_PACKET_SIZE = 0
     /\ arm.err = "nil" /\ (m.cmd = 50 => arm.timestamp \in Clocks)
     /\ m.cmd = CASE e.kind = "down" -> 52 [] e.kind = "manual" /\ e.flags # 0 -> 54 [] OTHER -> 50
     /\ arm.thresholds = CASE m.cmd = 50 -> base
                           [] m.cmd = 52 -> UpThresholds(e, FDTDeltaObserved)
                           [] m.cmd = 54 -> DownThresholds(e.zones)

\* An arm that is made of the right thresholds is read back as the right one.
LEMMA ArmIsRight ==
  ASSUME NEW cmd \in {50, 52, 54}, NEW t \in [1..6 -> Octet], NEW clock \in Clocks, NEW e, NEW base,
         e.kind = "down" => cmd = 52,
         e.kind = "manual" /\ e.flags # 0 => cmd = 54,
         e.kind # "down" /\ ~(e.kind = "manual" /\ e.flags # 0) => cmd = 50,
         cmd = 50 => t = base,
         cmd = 52 => t = UpThresholds(e, FDTDeltaObserved),
         cmd = 54 => t = DownThresholds(e.zones)
  PROVE  RightArm(g5120_command_frame(cmd, g5120_fdt_encode_arm(cmd, t, clock)), e, base)
<1> DEFINE frame == g5120_command_frame(cmd, g5120_fdt_encode_arm(cmd, t, clock))
           m == DecodeMessage(DecodePack(frame).payload)
           arm == DecodeFDTArm(m.cmd, m.payload)
           up == UpThresholds(e, FDTDeltaObserved)
           down == DownThresholds(e.zones)
<1>1. clock \in 0..MaxPack
  BY ClocksAssumption
<1>2. /\ Len(frame) % G5120_USB_PACKET_SIZE = 0
      /\ m.cmd = cmd /\ arm.err = "nil" /\ arm.thresholds = t
      /\ cmd = 50 => arm.timestamp = clock
  BY <1>1, ArmsAreRead
<1> HIDE DEF frame, m, arm, up, down
<1>3. cmd = CASE e.kind = "down" -> 52 [] e.kind = "manual" /\ e.flags # 0 -> 54 [] OTHER -> 50
  OBVIOUS
<1>4. t = CASE m.cmd = 50 -> base [] m.cmd = 52 -> up [] m.cmd = 54 -> down
  <2>1. cmd = 50 => t = base
    OBVIOUS
  <2>2. cmd = 52 => t = up
    BY DEF up
  <2>3. cmd = 54 => t = down
    BY DEF down
  <2> QED
    BY <1>2, <2>1, <2>2, <2>3
<1>5. /\ Len(frame) % G5120_USB_PACKET_SIZE = 0
      /\ arm.err = "nil" /\ (m.cmd = 50 => arm.timestamp \in Clocks)
      /\ m.cmd = CASE e.kind = "down" -> 52 [] e.kind = "manual" /\ e.flags # 0 -> 54 [] OTHER -> 50
      /\ arm.thresholds = CASE m.cmd = 50 -> base [] m.cmd = 52 -> up [] m.cmd = 54 -> down
  <2>1. m.cmd = 50 => arm.timestamp \in Clocks
    BY <1>2
  <2>2. m.cmd = cmd /\ arm.thresholds = t
    BY <1>2
  <2> QED
    BY <1>2, <1>3, <1>4, <2>1, <2>2, Zenon
<1> QED
  BY <1>5, Zenon DEF RightArm, frame, m, arm, up, down

\* The event as the two codecs see it.
LEMMA EventIs ==
  ASSUME NEW cmd, NEW payload \in ByteStrings, g5120_fdt_decode_event(cmd, payload).ok
  PROVE  LET d == g5120_fdt_decode_event(cmd, payload)
             e == DecodeFDTEvent(cmd, payload)
         IN /\ e.err = "nil" /\ e.kind = d.kind /\ e.flags = d.touchflags /\ e.zones = d.zones
            /\ d.zones \in [1..6 -> Nat] /\ d.touchflags \in Octet
            /\ d.kind \in {"down", "up", "base invalid", "manual", "unknown"}
BY EventDecodersAgree

\* The thresholds of the driver; those not made yet are empty.
Thresholds ==
  LET made == [1..6 -> Octet]
  IN [down : made, up : made \cup {<<>>}, manual : made \cup {<<>>}]

\* What an event makes of the thresholds is what the library makes of it, and the arm
\* that answers it is right.
LEMMA EventIsAnswered ==
  ASSUME NEW cmd \in {50, 52, 54}, NEW payload \in ByteStrings, NEW clock \in Clocks,
         g5120_fdt_decode_event(cmd, payload).ok,
         thr \in Thresholds
  PROVE  LET d == g5120_fdt_decode_event(cmd, payload)
             e == DecodeFDTEvent(cmd, payload)
             made == IF d.kind = "manual" THEN recheck_wait_cb(d) ELSE fdt_handle_event(d)
         IN /\ made \in Thresholds
            /\ made.down = IF Untouched(e) THEN DownThresholds(e.zones) ELSE thr.down
            /\ Arm(d, made, clock) # <<>> => RightArm(Arm(d, made, clock), e, made.down)
<1> DEFINE d == g5120_fdt_decode_event(cmd, payload)
           e == DecodeFDTEvent(cmd, payload)
           made == IF d.kind = "manual" THEN recheck_wait_cb(d) ELSE fdt_handle_event(d)
           down == g5120_fdt_down_thresholds(d.zones)
           up == g5120_fdt_up_thresholds(d.zones, d.touchflags, G5120_FDT_DELTA_THIS_DEVICE)
           frame(c, t) == g5120_command_frame(c, g5120_fdt_encode_arm(c, t, clock))
<1>1. /\ e.err = "nil" /\ e.kind = d.kind /\ e.flags = d.touchflags /\ e.zones = d.zones
      /\ d.zones \in [1..6 -> Nat] /\ d.touchflags \in Octet
      /\ d.kind \in {"down", "up", "base invalid", "manual", "unknown"}
  BY EventIs
<1> HIDE DEF d, e
<1>2. DownThresholds(e.zones) = down /\ down \in [1..6 -> Octet]
  BY <1>1, DownThresholdsAgree
<1>3. UpThresholds(e, FDTDeltaObserved) = up /\ up \in [1..6 -> Octet]
  <2>0. Octet \subseteq Nat
    BY DEF Octet
  <2>1. e.flags \in Nat /\ e.zones \in [1..6 -> Nat]
    BY <1>1, <2>0
  <2> QED
    BY <1>1, <2>1, UpThresholdsAgree
<1> DEFINE zero == zones_all_zero(d.zones)
<1>4. /\ finger_lifted(d) = [thr EXCEPT !.down = down]
      /\ recheck_wait_cb(d) = IF d.touchflags = 0 THEN [thr EXCEPT !.down = down] ELSE [thr EXCEPT !.manual = down]
      /\ fdt_handle_event(d) = CASE d.kind = "down" -> [thr EXCEPT !.up = up, !.manual = thr.down]
                                 [] d.kind = "base invalid" /\ ~zero -> [thr EXCEPT !.down = down]
                                 [] d.kind = "up" -> [thr EXCEPT !.down = down]
                                 [] OTHER -> thr
  BY DEF finger_lifted, recheck_wait_cb, fdt_handle_event
<1>5. zero <=> ~(\E i \in 1..6 : e.zones[i] # 0)
  BY <1>1 DEF zones_all_zero, Zone
<1>6. Untouched(e) <=> \/ d.kind = "up" \/ (d.kind = "manual" /\ d.touchflags = 0)
                       \/ d.kind = "base invalid" /\ ~zero
  BY <1>1, <1>5, Zenon DEF Untouched, FDTZones
<1> HIDE DEF zero, down, up
<1> DEFINE a == Arm(d, made, clock)
<1>7. a = CASE d.kind = "down" -> frame(52, made.up)
            [] d.kind \in {"up", "base invalid"} \/ (d.kind = "manual" /\ d.touchflags = 0) -> frame(50, made.down)
            [] d.kind = "manual" /\ d.touchflags # 0 -> frame(54, made.manual)
            [] OTHER -> <<>>
  BY DEF Arm, G5120_CMD_FDT_UP, G5120_CMD_FDT_DOWN, G5120_CMD_FDT_MANUAL
<1> HIDE DEF made, frame, a
<1>0. /\ thr.down \in [1..6 -> Octet] /\ thr \in Thresholds
  BY DEF Thresholds
<1>8. \A x : x = [thr EXCEPT !.down = down] => x \in Thresholds /\ x.down = down
  BY <1>0, <1>2 DEF Thresholds
<1>9. \A x : x = [thr EXCEPT !.manual = down] => x \in Thresholds /\ x.down = thr.down /\ x.manual = down
  BY <1>0, <1>2 DEF Thresholds
<1>10. \A x : x = [thr EXCEPT !.up = up, !.manual = thr.down] =>
         x \in Thresholds /\ x.down = thr.down /\ x.up = up
  <2> DEFINE base == thr.down
             half == [thr EXCEPT !.up = up]
             r == [half EXCEPT !.manual = base]
  <2>1. base \in [1..6 -> Octet] /\ thr = [down |-> base, up |-> thr.up, manual |-> thr.manual]
    BY <1>0 DEF Thresholds
  <2> HIDE DEF base
  <2>2. half = [down |-> base, up |-> up, manual |-> thr.manual]
    BY <2>1
  <2> HIDE DEF half
  <2>3. r = [down |-> base, up |-> up, manual |-> base]
    BY <2>2
  <2>4. r \in Thresholds /\ r.down = base /\ r.up = up
    <3> HIDE DEF r
    <3> QED
      BY <1>3, <2>1, <2>3 DEF Thresholds
  <2>5. r = [thr EXCEPT !.up = up, !.manual = thr.down]
    BY Zenon DEF r, half, base
  <2> HIDE DEF r
  <2> QED
    BY <2>4, <2>5 DEF base
<1> DEFINE Goal == /\ made \in Thresholds
                   /\ made.down = IF Untouched(e) THEN DownThresholds(e.zones) ELSE thr.down
                   /\ a # <<>> => RightArm(a, e, made.down)
<1>11. ASSUME d.kind = "down" PROVE Goal
  <2>1. made = [thr EXCEPT !.up = up, !.manual = thr.down]
    BY <1>4, <1>11 DEF made
  <2>2. made.down = thr.down /\ made.up = up /\ made \in Thresholds
    BY <1>10, <2>1, Zenon
  <2>3. a = frame(52, up) /\ ~Untouched(e)
    BY <1>6, <1>7, <1>11, <2>2
  <2>4. RightArm(frame(52, up), e, made.down)
    BY <1>1, <1>3, <1>11, ArmIsRight DEF frame
  <2> QED
    BY <2>2, <2>3, <2>4
<1>12. ASSUME d.kind = "up" \/ (d.kind = "manual" /\ d.touchflags = 0) \/ (d.kind = "base invalid" /\ ~zero) PROVE Goal
  <2>1. made = [thr EXCEPT !.down = down]
    BY <1>4, <1>12 DEF made
  <2>2. made.down = down /\ made \in Thresholds
    BY <1>8, <2>1, Zenon
  <2>3. a = frame(50, down) /\ Untouched(e)
    <3>1. ~(d.kind = "down")
      BY <1>12
    <3> QED
      BY <1>6, <1>7, <1>12, <2>2, <3>1
  <2>4. RightArm(frame(50, down), e, made.down)
    <3>1. e.kind # "down" /\ ~(e.kind = "manual" /\ e.flags # 0)
      BY <1>1, <1>12
    <3> QED
      BY <1>2, <2>2, <3>1, ArmIsRight DEF frame
  <2> QED
    BY <1>2, <2>2, <2>3, <2>4
<1>13. ASSUME d.kind = "base invalid" /\ zero PROVE Goal
  <2>1. made = thr
    BY <1>4, <1>13 DEF made
  <2>2. a = frame(50, thr.down) /\ ~Untouched(e)
    <3>1. ~(d.kind = "down")
      BY <1>13
    <3> QED
      BY <1>6, <1>7, <1>13, <2>1, <3>1
  <2>3. RightArm(frame(50, thr.down), e, thr.down)
    <3>1. e.kind # "down" /\ ~(e.kind = "manual" /\ e.flags # 0)
      BY <1>1, <1>13
    <3> QED
      BY <1>0, <3>1, ArmIsRight DEF frame
  <2> QED
    BY <2>1, <2>2, <2>3
<1>14. ASSUME d.kind = "manual" /\ d.touchflags # 0 PROVE Goal
  <2>1. made = [thr EXCEPT !.manual = down]
    BY <1>4, <1>14 DEF made
  <2>2. made.down = thr.down /\ made.manual = down /\ made \in Thresholds
    BY <1>9, <2>1, Zenon
  <2>3. a = frame(54, down) /\ ~Untouched(e)
    <3>1. ~(d.kind = "down") /\ ~(d.kind \in {"up", "base invalid"} \/ (d.kind = "manual" /\ d.touchflags = 0))
      BY <1>14
    <3> QED
      BY <1>6, <1>7, <1>14, <2>2, <3>1
  <2>4. RightArm(frame(54, down), e, made.down)
    <3>1. e.kind = "manual" /\ e.flags # 0
      BY <1>1, <1>14
    <3> QED
      BY <1>2, <2>2, <3>1, ArmIsRight DEF frame
  <2> QED
    BY <2>2, <2>3, <2>4
<1>15. ASSUME d.kind = "unknown" PROVE Goal
  <2>1. made = thr
    BY <1>4, <1>15 DEF made
  <2>2. a = <<>> /\ ~Untouched(e)
    BY <1>6, <1>7, <1>15
  <2> QED
    BY <2>1, <2>2
<1>16. Goal
  BY <1>1, <1>11, <1>12, <1>13, <1>14, <1>15
<1> QED
  BY <1>16 DEF a, made, d, e

-----------------------------------------------------------------------------
(* The inductive invariant *)

\* What is on the wire when the parser has taken the first fed bytes.
OnWire(fed) ==
  \/ \E flags \in {FlagTLSData, FlagTLSAlt}, padding \in Paddings :
       /\ fed < sent /\ sent - fed <= MaxPack /\ got = said
       /\ transfer = EncodePack(flags, SubSeq(stream, fed + 1, sent)) \o padding
  \/ \E m \in Messages, noChecksum \in BOOLEAN, padding \in Paddings :
       /\ fed = sent /\ said = Append(got, m)
       /\ transfer = EncodePack(FlagMessage, EncodeMessage(m.cmd, m.payload, noChecksum)) \o padding
  \/ fed = sent /\ transfer \in Junk /\ got = said

\* Bytes are on the wire or with the host, and in either place they are the next ones.
Reception(fed) ==
  \/ transfer = <<>> /\ todo = SubSeq(stream, fed + 1, sent) /\ got = said
  \/ transfer # <<>> /\ todo = <<>> /\ OnWire(fed)

\* The parser stands where the bytes it has taken put it ...
Understood == \E fed \in 0..sent : Reception(fed) /\ \E c, k : Stands(stream, p, verdict, c, k, fed)

\* ... and what was made of the messages is what the library would have made.
Answered ==
  /\ thr \in Thresholds /\ thr.down = Base
  /\ armed # <<>> => RightArm(armed, DecodeFDTEvent(Last(got).cmd, Last(got).payload), Base)

IInv == stream \in Streams /\ sent \in 0..Len(stream) /\ got \in Seq(Messages) /\ Understood /\ Answered

\* What is left of the stream between the parser and the EC.
LEMMA StreamIs ==
  ASSUME stream \in Streams, sent \in 0..Len(stream)
  PROVE  /\ stream \in ByteStrings /\ Len(stream) \in Nat /\ sent \in Nat /\ sent \in 0..sent
         /\ SubSeq(stream, sent + 1, sent) = <<>>
         /\ \A fed \in 0..sent : /\ SubSeq(stream, fed + 1, sent) \in ByteStrings
                                 /\ Len(SubSeq(stream, fed + 1, sent)) = sent - fed
                                 /\ SubSeq(stream, fed + 1, sent) = <<>> => fed = sent
<1>1. stream \in ByteStrings
  BY StreamsAssumption
<1>2. Len(stream) \in Nat /\ sent \in Nat /\ sent \in 0..sent
  BY <1>1, BytesAre
<1>3. ASSUME NEW fed \in 0..sent
      PROVE  /\ SubSeq(stream, fed + 1, sent) \in ByteStrings
             /\ Len(SubSeq(stream, fed + 1, sent)) = sent - fed
  BY <1>1, RestIs
<1>4. \A fed \in 0..sent : SubSeq(stream, fed + 1, sent) = <<>> => fed = sent
  <2> SUFFICES ASSUME NEW fed \in 0..sent, SubSeq(stream, fed + 1, sent) = <<>> PROVE fed = sent
    OBVIOUS
  <2>1. sent - fed = 0
    BY <1>3, EmptyBytes
  <2> QED
    BY <1>2, <2>1
<1>5. SubSeq(stream, sent + 1, sent) = <<>>
  <2> DEFINE t == SubSeq(stream, sent + 1, sent)
  <2>1. t \in ByteStrings /\ Len(t) = sent - sent
    BY <1>2, <1>3
  <2> HIDE DEF t
  <2>2. Len(t) = 0
    BY <1>2, <2>1
  <2>3. t = <<>>
    BY <2>1, <2>2, EmptySeq DEF ByteStrings
  <2> QED
    BY <2>3 DEF t
<1> QED
  BY <1>1, <1>2, <1>3, <1>4, <1>5

\* The host holds nothing only when it has taken all that was sent.
LEMMA IdleIs ==
  ASSUME IInv, Idle
  PROVE  /\ transfer = <<>> /\ todo = <<>> /\ got = said
         /\ \E c, k : Stands(stream, p, verdict, c, k, sent)
<1>1. PICK fed \in 0..sent : Reception(fed) /\ \E c, k : Stands(stream, p, verdict, c, k, fed)
  BY DEF IInv, Understood
<1>2. transfer = <<>> /\ todo = <<>>
  BY DEF Idle
<1>3. todo = SubSeq(stream, fed + 1, sent) /\ got = said
  BY <1>1, <1>2 DEF Reception
<1>4. fed = sent
  BY <1>2, <1>3, StreamIs DEF IInv
<1> QED
  BY <1>1, <1>2, <1>3, <1>4

\* Nothing is seen and nothing is answered at first.
LEMMA InitIsUnderstood == Init => IInv
<1> SUFFICES ASSUME Init PROVE IInv
  OBVIOUS
<1> USE DEF Init
<1> DEFINE c == [i \in 0..0 |-> 0]
           z == 0
<1>1. stream \in ByteStrings /\ Len(stream) \in Nat
  BY StreamsAssumption, BytesAre
<1>2. sent \in 0..Len(stream)
  BY <1>1
<1>3. got \in Seq(Messages)
  <2>1. <<>> \in Seq(Messages)
    OBVIOUS
  <2> QED
    BY <2>1
<1>4. Stands(stream, p, verdict, c, 0, 0)
  <2>1. p \in Parsers /\ p.header = <<>> /\ p.remaining = 0 /\ p.encrypted = FALSE /\ p.from_ec = 0 /\ verdict = "ok"
    <3>1. <<0, 0>> \in [1..2 -> Octet] /\ <<>> \in ByteStrings
      BY EmptyBytes DEF Octet
    <3> HIDE DEF c
    <3> QED
      BY <3>1 DEF Parsers
  <2>2. Cut(stream, c, 0)
    <3>1. \A i \in 0..0 : c[i] = 0
      OBVIOUS
    <3>2. c \in [0..0 -> 0..Len(stream)]
      BY <1>1
    <3> HIDE DEF c
    <3>3. c[0] = 0
      BY <3>1
    <3> QED
      BY <3>2, <3>3 DEF Cut
  <2>3. c[0] = 0
    OBVIOUS
  <2> HIDE DEF c
  <2>4. InHeader(p, verdict, c[0], 0)
    BY <2>1, <2>3, EmptyBytes DEF InHeader
  <2>5. c[0] + Len(p.header) <= Len(stream) /\ \A i \in 1..Len(p.header) : p.header[i] = stream[c[0] + i]
    BY <1>1, <2>1, <2>3, EmptyBytes
  <2>6. (\A i \in 1..0 : FALSE) /\ 0 \in Nat
    OBVIOUS
  <2> HIDE DEF Init
  <2> QED
    BY <2>1, <2>2, <2>4, <2>5, <2>6 DEF Stands
<1>5. Understood
  <2>1. SubSeq(stream, sent + 1, sent) = <<>> /\ 0 \in 0..sent
    BY <1>2, StreamIs
  <2>2. Reception(0)
    BY <2>1 DEF Reception
  <2> HIDE DEF c
  <2> QED
    BY <1>4, <2>1, <2>2 DEF Understood
<1>6. Answered
  <2>1. thr \in Thresholds
    <3>1. g5120_fdt_initial_down_thresholds \in [1..6 -> Octet]
      BY DEF g5120_fdt_initial_down_thresholds, Octet
    <3> QED
      BY <3>1 DEF Thresholds
  <2>2. thr.down = Base
    <3>1. DOMAIN got = {}
      <4>1. <<>> \in Seq(Messages) /\ Len(<<>>) = 0
        BY EmptyBytes
      <4>2. DOMAIN <<>> = 1..0
        BY <4>1, LenProperties
      <4> QED
        BY <4>2
    <3>2. {i \in DOMAIN got : got[i].cmd \in FDTCommands /\ Untouched(DecodeFDTEvent(got[i].cmd, got[i].payload))} = {}
      BY <3>1
    <3>3. Base = g5120_fdt_initial_down_thresholds
      BY <3>2, Zenon DEF Base
    <3> QED
      BY <3>3
  <2> QED
    BY <2>1, <2>2 DEF Answered
<1> QED
  BY <1>2, <1>3, <1>5, <1>6 DEF IInv

\* A step that leaves the answers alone leaves them right.
LEMMA AnsweredStays ==
  ASSUME Answered, UNCHANGED <<got, thr, armed>> PROVE Answered'
<1>1. Base' = Base
  BY DEF Base
<1> QED
  BY <1>1 DEF Answered

\* What Understood says after a step, given where the parser stands.
LEMMA UnderstoodNext ==
  ASSUME NEW fed, fed \in 0..sent', Reception(fed)', NEW c, NEW k, Stands(stream', p', verdict', c, k, fed)
  PROVE  Understood'
BY DEF Understood

\* Each step of the EC puts the next bytes, a message or junk on the wire ...
LEMMA SendRecordsStep == ASSUME IInv, SendRecords PROVE IInv'
<1>1. /\ Idle /\ sent < Len(stream)
      /\ UNCHANGED <<stream, todo, p, verdict, said, got, thr, armed>>
  BY DEF SendRecords
<1>2. PICK to \in (sent + 1)..Len(stream), flags \in {FlagTLSData, FlagTLSAlt}, padding \in Paddings :
        /\ to - sent <= MaxPack /\ sent' = to
        /\ transfer' = EncodePack(flags, SubSeq(stream, sent + 1, to)) \o padding
  BY DEF SendRecords
<1>3. stream \in Streams /\ sent \in 0..Len(stream) /\ got \in Seq(Messages) /\ Answered
  BY DEF IInv
<1>4. todo = <<>> /\ got = said
  BY <1>1, IdleIs
<1>5. stream \in ByteStrings /\ Len(stream) \in Nat /\ sent \in Nat /\ to \in Nat /\ to \in 0..Len(stream) /\ sent < to
      /\ sent \in 0..to
  BY <1>1, <1>3, StreamIs
<1>6. PICK fed, c, k : fed \in 0..to /\ fed = sent /\ Stands(stream, p, verdict, c, k, fed)
  BY <1>1, <1>5, IdleIs
<1>7. transfer' # <<>>
  <2>1. SubSeq(stream, sent + 1, to) \in ByteStrings /\ Len(SubSeq(stream, sent + 1, to)) = to - sent
    BY <1>5, RestIs
  <2> QED
    BY <1>2, <2>1, RecordsAreTaken
<1>8. OnWire(fed)'
  <2>1. fed < sent' /\ sent' - fed <= MaxPack /\ got' = said'
    BY <1>1, <1>2, <1>4, <1>5, <1>6
  <2>2. transfer' = EncodePack(flags, SubSeq(stream', fed + 1, sent')) \o padding
    BY <1>1, <1>2, <1>6
  <2> QED
    BY <2>1, <2>2 DEF OnWire
<1>9. Understood'
  <2>1. Reception(fed)'
    BY <1>1, <1>4, <1>7, <1>8 DEF Reception
  <2> QED
    BY <1>1, <1>2, <1>6, <2>1, UnderstoodNext
<1>10. Answered'
  BY <1>1, <1>3, AnsweredStays
<1> QED
  BY <1>1, <1>2, <1>3, <1>5, <1>9, <1>10 DEF IInv

\* ... a message is said that is not decoded yet ...
LEMMA SendMessageStep == ASSUME IInv, SendMessage PROVE IInv'
<1>1. Idle /\ UNCHANGED <<stream, sent, todo, p, verdict, got, thr, armed>>
  BY DEF SendMessage
<1>2. PICK m \in Messages, noChecksum \in BOOLEAN, padding \in Paddings :
        /\ transfer' = EncodePack(FlagMessage, EncodeMessage(m.cmd, m.payload, noChecksum)) \o padding
        /\ said' = Append(said, m)
  BY DEF SendMessage
<1>3. stream \in Streams /\ sent \in 0..Len(stream) /\ got \in Seq(Messages) /\ Answered
  BY DEF IInv
<1>4. todo = <<>> /\ got = said
  BY <1>1, IdleIs
<1>5. PICK fed, c, k : fed \in 0..sent /\ fed = sent /\ Stands(stream, p, verdict, c, k, fed)
  BY <1>1, <1>3, IdleIs, StreamIs
<1>6. transfer' # <<>>
  BY <1>2, MessageIsTaken
<1>7. OnWire(fed)'
  BY <1>1, <1>2, <1>4, <1>5 DEF OnWire
<1>8. Understood'
  <2>1. Reception(fed)'
    BY <1>1, <1>4, <1>6, <1>7 DEF Reception
  <2> QED
    BY <1>1, <1>5, <2>1, UnderstoodNext
<1>9. Answered'
  BY <1>1, <1>3, AnsweredStays
<1> QED
  BY <1>1, <1>3, <1>8, <1>9 DEF IInv

\* ... and junk says nothing.
LEMMA SendJunkStep == ASSUME IInv, SendJunk PROVE IInv'
<1>1. Idle /\ transfer' \in Junk /\ UNCHANGED <<stream, sent, todo, p, verdict, said, got, thr, armed>>
  BY DEF SendJunk
<1>2. stream \in Streams /\ sent \in 0..Len(stream) /\ got \in Seq(Messages) /\ Answered
  BY DEF IInv
<1>3. todo = <<>> /\ got = said
  BY <1>1, IdleIs
<1>4. PICK fed, c, k : fed \in 0..sent /\ fed = sent /\ Stands(stream, p, verdict, c, k, fed)
  BY <1>1, <1>2, IdleIs, StreamIs
<1>5. todo' = SubSeq(stream', fed + 1, sent')
  BY <1>1, <1>2, <1>3, <1>4, StreamIs
<1>6. OnWire(fed)'
  BY <1>1, <1>3, <1>4 DEF OnWire
<1>7. Understood'
  <2>1. Reception(fed)'
    BY <1>1, <1>3, <1>5, <1>6 DEF Reception
  <2> QED
    BY <1>1, <1>4, <2>1, UnderstoodNext
<1>8. Answered'
  BY <1>1, <1>2, AnsweredStays
<1> QED
  BY <1>1, <1>2, <1>7, <1>8 DEF IInv

\* An event: the thresholds follow it, and so does the arm.
LEMMA AnsweredNext ==
  ASSUME Answered, got \in Seq(Messages), NEW m \in Messages, got' = Append(got, m),
         IF m.cmd \in {50, 52, 54} /\ g5120_fdt_decode_event(m.cmd, m.payload).ok
         THEN LET d == g5120_fdt_decode_event(m.cmd, m.payload)
              IN /\ thr' = IF d.kind = "manual" THEN recheck_wait_cb(d) ELSE fdt_handle_event(d)
                 /\ \E clock \in Clocks : armed' = Arm(d, thr', clock)
         ELSE armed' = <<>> /\ thr' = thr
  PROVE  Answered'
<1> DEFINE d == g5120_fdt_decode_event(m.cmd, m.payload)
           e == DecodeFDTEvent(m.cmd, m.payload)
           event == m.cmd \in {50, 52, 54} /\ d.ok
<1>1. m.payload \in ByteStrings
  BY MessagesAssumption
<1>2. Base = BaseOf(got) /\ Base' = BaseOf(got')
  BY DEF Base, BaseOf
<1>3. BaseOf(got') = IF m.cmd \in FDTCommands /\ Untouched(e) THEN DownThresholds(e.zones) ELSE BaseOf(got)
  BY BaseGrows
<1>4. Last(got') = m
  <2>1. got' \in Seq(Messages) /\ Len(got') = Len(got) + 1 /\ got'[Len(got) + 1] = m
    BY AppendProperties
  <2> QED
    BY <2>1 DEF Last
<1>5. thr \in Thresholds /\ thr.down = Base
  BY DEF Answered
<1>6. FDTCommands = {50, 52, 54}
  BY DEF FDTCommands
<1>7. ASSUME event PROVE Answered'
  <2>1. thr' = IF d.kind = "manual" THEN recheck_wait_cb(d) ELSE fdt_handle_event(d)
    BY <1>7
  <2>2. PICK clock \in Clocks : armed' = Arm(d, thr', clock)
    BY <1>7
  <2>3. /\ thr' \in Thresholds
        /\ thr'.down = IF Untouched(e) THEN DownThresholds(e.zones) ELSE thr.down
        /\ Arm(d, thr', clock) # <<>> => RightArm(Arm(d, thr', clock), e, thr'.down)
    BY <1>1, <1>5, <1>7, <2>1, EventIsAnswered
  <2> HIDE DEF d, e
  <2>4. thr'.down = Base'
    BY <1>2, <1>3, <1>5, <1>6, <1>7, <2>3
  <2>5. armed' # <<>> => RightArm(armed', e, Base')
    BY <2>2, <2>3, <2>4
  <2>6. e = DecodeFDTEvent(Last(got').cmd, Last(got').payload)
    BY <1>4 DEF e
  <2> QED
    BY <2>3, <2>4, <2>5, <2>6 DEF Answered
<1>8. ASSUME ~event PROVE Answered'
  <2>1. thr' = thr /\ armed' = <<>>
    BY <1>8
  <2>2. m.cmd \in FDTCommands => ~Untouched(e)
    <3>1. m.cmd \in FDTCommands => ~d.ok
      BY <1>6, <1>8
    <3>2. ~d.ok => e.err # "nil"
      BY <1>1, EventDecodersAgree
    <3> HIDE DEF d, e
    <3> QED
      BY <3>1, <3>2 DEF Untouched
  <2> HIDE DEF d, e
  <2>3. Base' = Base
    BY <1>2, <1>3, <2>2
  <2> QED
    BY <1>5, <2>1, <2>3 DEF Answered
<1> QED
  BY <1>7, <1>8

\* The host takes what is on the wire for what it is.
LEMMA ReceiveStep == ASSUME IInv, Receive PROVE IInv'
<1> DEFINE rx == rx_classify(transfer)
           made == IF rx.event.kind = "manual" THEN recheck_wait_cb(rx.event) ELSE fdt_handle_event(rx.event)
<1>1. /\ transfer # <<>> /\ transfer' = <<>> /\ UNCHANGED <<stream, sent, p, verdict, said>>
  BY DEF Receive
<1>2. /\ rx.kind = "tls" => todo' = rx.payload /\ UNCHANGED <<got, thr, armed>>
      /\ rx.kind = "other" => UNCHANGED <<todo, got, thr, armed>>
      /\ rx.kind \in {"ack", "fdt", "data"} =>
           /\ got' = Append(got, [cmd |-> rx.cmd, payload |-> rx.payload, acked |-> rx.acked])
           /\ IF rx.kind = "fdt"
              THEN thr' = made /\ \E clock \in Clocks : armed' = Arm(rx.event, thr', clock)
              ELSE armed' = <<>> /\ UNCHANGED thr
           /\ UNCHANGED todo
  BY DEF Receive
<1> HIDE DEF rx
<1>3. stream \in Streams /\ sent \in 0..Len(stream) /\ got \in Seq(Messages) /\ Answered
  BY DEF IInv
<1>4. PICK fed, c, k : fed \in 0..sent /\ Reception(fed) /\ Stands(stream, p, verdict, c, k, fed)
  BY DEF IInv, Understood
<1>5. todo = <<>> /\ OnWire(fed)
  BY <1>1, <1>4 DEF Reception
<1>6. CASE \E flags \in {FlagTLSData, FlagTLSAlt}, padding \in Paddings :
             /\ fed < sent /\ sent - fed <= MaxPack /\ got = said
             /\ transfer = EncodePack(flags, SubSeq(stream, fed + 1, sent)) \o padding
  <2>1. PICK flags \in {FlagTLSData, FlagTLSAlt}, padding \in Paddings :
             /\ fed < sent /\ sent - fed <= MaxPack /\ got = said
             /\ transfer = EncodePack(flags, SubSeq(stream, fed + 1, sent)) \o padding
    BY <1>6
  <2>2. SubSeq(stream, fed + 1, sent) \in ByteStrings /\ Len(SubSeq(stream, fed + 1, sent)) <= MaxPack
    BY <1>3, <1>4, <2>1, StreamIs
  <2>3. rx.kind = "tls" /\ rx.payload = SubSeq(stream, fed + 1, sent)
    <3> DEFINE chunk == SubSeq(stream, fed + 1, sent)
               b == EncodePack(flags, chunk) \o padding
    <3>1. chunk \in ByteStrings /\ Len(chunk) <= MaxPack
      BY <2>2
    <3>2. transfer = b
      BY <2>1
    <3> HIDE DEF chunk
    <3>3. rx_classify(b).kind = "tls" /\ rx_classify(b).payload = chunk
      BY <2>1, <3>1, RecordsAreTaken, Zenon
    <3> HIDE DEF b
    <3> QED
      BY <3>2, <3>3 DEF rx, chunk
  <2>4. Reception(fed)'
    BY <1>1, <1>2, <2>1, <2>3 DEF Reception
  <2>5. Understood'
    BY <1>1, <1>4, <2>4, UnderstoodNext
  <2>6. Answered'
    BY <1>2, <1>3, <2>3, AnsweredStays
  <2> QED
    BY <1>1, <1>2, <1>3, <2>3, <2>5, <2>6 DEF IInv
<1>7. CASE \E m \in Messages, noChecksum \in BOOLEAN, padding \in Paddings :
             /\ fed = sent /\ said = Append(got, m)
             /\ transfer = EncodePack(FlagMessage, EncodeMessage(m.cmd, m.payload, noChecksum)) \o padding
  <2>1. PICK m \in Messages, noChecksum \in BOOLEAN, padding \in Paddings :
             /\ fed = sent /\ said = Append(got, m)
             /\ transfer = EncodePack(FlagMessage, EncodeMessage(m.cmd, m.payload, noChecksum)) \o padding
    BY <1>7
  <2>2. /\ rx.kind \in {"ack", "fdt", "data"}
        /\ [cmd |-> rx.cmd, payload |-> rx.payload, acked |-> rx.acked] = m
        /\ rx.event = g5120_fdt_decode_event(m.cmd, m.payload)
        /\ rx.kind = "fdt" <=> m.cmd \in {50, 52, 54} /\ rx.event.ok
    BY <2>1, MessageIsTaken DEF rx
  <2>3. got' = Append(got, m) /\ todo' = todo
    BY <1>2, <2>2
  <2>4. Reception(fed)'
    <3>1. todo' = SubSeq(stream', fed + 1, sent')
      BY <1>1, <1>3, <1>5, <2>1, <2>3, StreamIs
    <3> QED
      BY <1>1, <2>1, <2>3, <3>1 DEF Reception
  <2>5. Understood'
    BY <1>1, <1>4, <2>4, UnderstoodNext
  <2>6. Answered'
    <3> DEFINE d == g5120_fdt_decode_event(m.cmd, m.payload)
    <3>1. IF m.cmd \in {50, 52, 54} /\ d.ok
          THEN /\ thr' = IF d.kind = "manual" THEN recheck_wait_cb(d) ELSE fdt_handle_event(d)
               /\ \E clock \in Clocks : armed' = Arm(d, thr', clock)
          ELSE armed' = <<>> /\ thr' = thr
      <4>1. rx.event = d
        BY <2>2
      <4> HIDE DEF d
      <4>2. made = IF d.kind = "manual" THEN recheck_wait_cb(d) ELSE fdt_handle_event(d)
        BY <4>1
      <4> HIDE DEF made
      <4>3. CASE rx.kind = "fdt"
        BY <1>2, <2>2, <4>1, <4>2, <4>3
      <4>4. CASE rx.kind # "fdt"
        BY <1>2, <2>2, <4>1, <4>4
      <4> QED
        BY <4>3, <4>4
    <3> HIDE DEF d
    <3>2. IF m.cmd \in {50, 52, 54} /\ g5120_fdt_decode_event(m.cmd, m.payload).ok
          THEN LET e == g5120_fdt_decode_event(m.cmd, m.payload)
               IN /\ thr' = IF e.kind = "manual" THEN recheck_wait_cb(e) ELSE fdt_handle_event(e)
                  /\ \E clock \in Clocks : armed' = Arm(e, thr', clock)
          ELSE armed' = <<>> /\ thr' = thr
      BY <3>1, Zenon DEF d
    <3> QED
      BY <1>3, <2>3, <3>2, AnsweredNext, Zenon
  <2>7. got' \in Seq(Messages)
    BY <1>3, <2>3, AppendProperties
  <2> QED
    BY <1>1, <1>3, <2>5, <2>6, <2>7 DEF IInv
<1>8. CASE fed = sent /\ transfer \in Junk /\ got = said
  <2>1. rx.kind = "other"
    BY <1>8, JunkIsOther DEF rx
  <2>2. UNCHANGED <<todo, got, thr, armed>>
    BY <1>2, <2>1
  <2>3. Reception(fed)'
    <3>1. todo' = SubSeq(stream', fed + 1, sent')
      BY <1>1, <1>3, <1>5, <1>8, <2>2, StreamIs
    <3> QED
      BY <1>1, <1>8, <2>2, <3>1 DEF Reception
  <2>4. Understood'
    BY <1>1, <1>4, <2>3, UnderstoodNext
  <2>5. Answered'
    BY <1>3, <2>2, AnsweredStays
  <2> QED
    BY <1>1, <1>3, <2>2, <2>4, <2>5 DEF IInv
<1> QED
  BY <1>5, <1>6, <1>7, <1>8 DEF OnWire

\* The parser takes n bytes of what the host holds.
LEMMA TurnNext ==
  ASSUME IInv, todo # <<>>, UNCHANGED <<stream, sent, transfer, said, got, thr, armed>>,
         NEW fed \in 0..sent, Reception(fed), NEW n \in Nat, n <= Len(todo), todo' = After(n),
         NEW c, NEW k, Stands(stream, p', verdict', c, k, fed + n)
  PROVE  IInv'
<1>1. stream \in Streams /\ sent \in 0..Len(stream) /\ got \in Seq(Messages) /\ Answered
  BY DEF IInv
<1>2. transfer = <<>> /\ todo = SubSeq(stream, fed + 1, sent) /\ got = said
  BY DEF Reception
<1>3. stream \in ByteStrings
  BY <1>1, StreamIs
<1>4. fed + n \in 0..sent /\ SubSeq(todo, n + 1, Len(todo)) = SubSeq(stream, fed + n + 1, sent)
  BY <1>1, <1>2, <1>3, PieceIs
<1> DEFINE on == fed + n
<1>5. todo' = SubSeq(stream', on + 1, sent')
  BY <1>4 DEF After
<1>6. on \in 0..sent'
  BY <1>4
<1>7. Stands(stream', p', verdict', c, k, on)
  OBVIOUS
<1> HIDE DEF on
<1>8. Reception(on)'
  BY <1>2, <1>5 DEF Reception
<1>9. Understood'
  BY <1>6, <1>7, <1>8, UnderstoodNext
<1>10. Answered'
  BY <1>1, AnsweredStays
<1> QED
  BY <1>1, <1>9, <1>10 DEF IInv

\* A turn over a header, whole or not, keeps the invariant ...
LEMMA ReadHeaderStep == ASSUME IInv, ReadHeader PROVE IInv'
<1> DEFINE n == Smaller(Len(todo), TLSRecordHeaderLen - Len(p.header))
           header == p.header \o SubSeq(todo, 1, n)
           body == 256 * header[4] + header[5]
           invalid == \/ header[1] \notin TLSChangeCipherSpec..TLSApplicationData
                      \/ header[2] # 3 \/ header[3] < 1 \/ header[3] > 3
                      \/ body = 0 \/ body > MaxTLSRecordBody
<1>1. /\ todo # <<>> /\ verdict = "ok" /\ Len(p.header) < 5
      /\ UNCHANGED <<stream, sent, transfer, said, got, thr, armed>>
  BY DEF ReadHeader, TLSRecordHeaderLen
<1>2. (CASE Len(header) < TLSRecordHeaderLen ->
             p' = [p EXCEPT !.header = header] /\ todo' = <<>> /\ UNCHANGED verdict
        [] Len(header) = TLSRecordHeaderLen /\ invalid ->
             /\ verdict' = "failed" /\ p' = [p EXCEPT !.header = header, !.body = body]
             /\ todo' = After(n)
        [] OTHER ->
             /\ p' = [p EXCEPT !.header = header, !.body = body, !.remaining = body]
             /\ todo' = After(n) /\ UNCHANGED verdict)
  BY Zenon DEF ReadHeader
<1>3. stream \in Streams /\ sent \in 0..Len(stream) /\ stream \in ByteStrings
  BY StreamIs DEF IInv
<1>4. PICK fed, c, k : fed \in 0..sent /\ Reception(fed) /\ Stands(stream, p, verdict, c, k, fed)
  BY DEF IInv, Understood
<1>5. todo = SubSeq(stream, fed + 1, sent)
  BY <1>1, <1>4 DEF Reception
<1>6. TLSRecordHeaderLen = 5 /\ TLSChangeCipherSpec = 20 /\ TLSApplicationData = 23
  BY DEF TLSRecordHeaderLen, TLSChangeCipherSpec, TLSApplicationData
<1>7. /\ n \in Nat /\ n <= Len(todo)
      /\ Len(header) < 5 => n = Len(todo) /\ Stands(stream, [p EXCEPT !.header = header], "ok", c, k, fed + n)
      /\ Len(header) = 5 /\ invalid =>
           Stands(stream, [p EXCEPT !.header = header, !.body = body], "failed", c, k, fed + n)
      /\ ~(Len(header) < 5) /\ ~(Len(header) = 5 /\ invalid) =>
           Stands(stream, [p EXCEPT !.header = header, !.body = body, !.remaining = body], "ok", c, k, fed + n)
  <2>1. Stands(stream, p, "ok", c, k, fed)
    BY <1>1, <1>4
  <2>2. HeaderTaken(stream, p, todo, c, k, fed)
    <3> HIDE DEF n, header, body, invalid
    <3> QED
      BY <1>1, <1>3, <1>4, <1>5, <2>1, HeaderStands
  <2> QED
    BY <2>2, Zenon DEF HeaderTaken, TLSRecordHeaderLen, TLSChangeCipherSpec, TLSApplicationData
<1> HIDE DEF n, header, body, invalid
<1>8. n = Len(todo) => After(n) = <<>>
  <2>1. todo \in ByteStrings
    BY <1>3, <1>4, <1>5, StreamIs
  <2>2. ASSUME n = Len(todo) PROVE After(n) = <<>>
    <3> DEFINE l == Len(todo)
               t == SubSeq(todo, l + 1, l)
    <3>1. l \in 0..Len(todo) /\ l \in 0..l /\ l \in Nat
      BY <2>1, BytesAre
    <3> HIDE DEF l
    <3>2. t \in ByteStrings /\ Len(t) = l - l
      BY <2>1, <3>1, RestIs
    <3>3. t = <<>>
      <4> HIDE DEF t
      <4>1. Len(t) = 0
        BY <3>1, <3>2
      <4> QED
        BY <3>2, <4>1, EmptySeq DEF ByteStrings
    <3> QED
      BY <2>2, <3>3 DEF After, l
  <2> QED
    BY <2>2
<1>9. todo' = After(n) /\ Stands(stream, p', verdict', c, k, fed + n)
  <2>1. CASE Len(header) < 5
    BY <1>1, <1>2, <1>6, <1>7, <1>8, <2>1
  <2>2. CASE Len(header) = 5 /\ invalid
    BY <1>1, <1>2, <1>6, <1>7, <2>2
  <2>3. CASE ~(Len(header) < 5) /\ ~(Len(header) = 5 /\ invalid)
    BY <1>1, <1>2, <1>6, <1>7, <2>3
  <2> QED
    BY <2>1, <2>2, <2>3
<1> QED
  BY <1>1, <1>4, <1>7, <1>9, TurnNext

\* ... and so does one over a body.
LEMMA ReadBodyStep == ASSUME IInv, ReadBody PROVE IInv'
<1> DEFINE n == Smaller(Len(todo), p.remaining)
           off == p.body - p.remaining
           alert == [i \in 1..2 |-> IF p.header[1] = 21 /\ i \in (off + 1)..(off + n)
                                    THEN todo[i - off] ELSE p.alert[i]]
           q == [p EXCEPT !.remaining = @ - n, !.alert = alert]
           whole == [q EXCEPT !.header = <<>>, !.from_ec = @ + 1]
           v == IF p.body = 2 /\ alert[2] \in {20, 51, 115} THEN "mismatch" ELSE "alert"
<1>1. TLSRecordHeaderLen = 5 /\ TLSAlert = 21 /\ TLSChangeCipherSpec = 20
  BY DEF TLSRecordHeaderLen, TLSAlert, TLSChangeCipherSpec
<1>2. /\ todo # <<>> /\ verdict = "ok" /\ Len(p.header) = 5 /\ todo' = After(n)
      /\ UNCHANGED <<stream, sent, transfer, said, got, thr, armed>>
  BY <1>1 DEF ReadBody
<1>3. IF q.remaining # 0 THEN p' = q /\ UNCHANGED verdict
      ELSE IF p.header[1] = 21 /\ ~p.encrypted
      THEN p' = whole /\ verdict' = v
      ELSE p' = [whole EXCEPT !.encrypted = @ \/ p.header[1] = 20] /\ UNCHANGED verdict
  BY <1>1, Zenon DEF ReadBody, alert_means_key_mismatch, TLSAlert, TLSChangeCipherSpec
<1>4. stream \in Streams /\ sent \in 0..Len(stream) /\ stream \in ByteStrings
  BY StreamIs DEF IInv
<1>5. PICK fed, c, k : fed \in 0..sent /\ Reception(fed) /\ Stands(stream, p, verdict, c, k, fed)
  BY DEF IInv, Understood
<1>6. todo = SubSeq(stream, fed + 1, sent)
  BY <1>2, <1>5 DEF Reception
<1> DEFINE e == Longer(stream, c, k)
<1>7. /\ n \in Nat /\ n <= Len(todo)
      /\ q.remaining # 0 => Stands(stream, q, "ok", c, k, fed + n)
      /\ q.remaining = 0 =>
           IF p.header[1] = 21 /\ ~p.encrypted
           THEN Stands(stream, whole, v, e, k + 1, fed + n)
           ELSE Stands(stream, [whole EXCEPT !.encrypted = @ \/ p.header[1] = 20], "ok", e, k + 1, fed + n)
  <2>1. Stands(stream, p, "ok", c, k, fed)
    BY <1>2, <1>5
  <2>2. BodyTaken(stream, p, todo, c, k, fed)
    <3> HIDE DEF n, off, alert, q, whole, v, e
    <3> QED
      BY <1>2, <1>4, <1>5, <1>6, <2>1, BodyStands
  <2> QED
    BY <2>2, Zenon DEF BodyTaken
<1> HIDE DEF n, q, whole, v, e
<1>8. CASE q.remaining # 0
  BY <1>2, <1>3, <1>5, <1>7, <1>8, TurnNext
<1>9. CASE q.remaining = 0
  <2> DEFINE m == k + 1
  <2>1. Stands(stream, p', verdict', e, m, fed + n)
    BY <1>2, <1>3, <1>7, <1>9
  <2> HIDE DEF m
  <2> QED
    BY <1>2, <1>5, <1>7, <2>1, TurnNext
<1> QED
  BY <1>8, <1>9

\* So does a step that changes nothing.
LEMMA StutterStep == ASSUME IInv, UNCHANGED vars PROVE IInv'
<1> USE DEF vars
<1>1. stream \in Streams /\ sent \in 0..Len(stream) /\ got \in Seq(Messages) /\ Answered
  BY DEF IInv
<1>2. PICK fed, c, k : fed \in 0..sent /\ Reception(fed) /\ Stands(stream, p, verdict, c, k, fed)
  BY DEF IInv, Understood
<1>3. Reception(fed)'
  <2>1. OnWire(fed)' <=> OnWire(fed)
    BY DEF OnWire
  <2> QED
    BY <1>2, <2>1 DEF Reception
<1>4. Understood'
  BY <1>2, <1>3, UnderstoodNext
<1>5. Answered'
  BY <1>1, AnsweredStays
<1> QED
  BY <1>1, <1>4, <1>5 DEF IInv

\* What the invariant says of the five properties.
LEMMA InvariantMeans == IInv => ParsersAgree
<1> SUFFICES ASSUME IInv PROVE ParsersAgree
  OBVIOUS
<1>1. stream \in Streams /\ sent \in 0..Len(stream) /\ got \in Seq(Messages) /\ Answered
  BY DEF IInv
<1>2. PICK fed, c, k : fed \in 0..sent /\ Reception(fed) /\ Stands(stream, p, verdict, c, k, fed)
  BY DEF IInv, Understood
<1>3. /\ stream \in ByteStrings /\ Len(stream) \in Nat /\ sent \in Nat
      /\ fed \in Nat /\ fed <= sent /\ fed \in 0..Len(stream)
  BY <1>1, <1>2, StreamIs
<1>4. transfer = <<>> => Seen = SubSeq(stream, 1, fed)
  <2> SUFFICES ASSUME transfer = <<>> PROVE Seen = SubSeq(stream, 1, fed)
    OBVIOUS
  <2>1. todo = SubSeq(stream, fed + 1, sent)
    BY <1>2 DEF Reception
  <2>2. Len(todo) = sent - fed
    BY <1>1, <1>2, <2>1, StreamIs
  <2>3. sent - Len(todo) = fed
    BY <1>3, <2>2
  <2> QED
    BY <2>3 DEF Seen
<1>5. StreamIsUnderstood
  <2> SUFFICES ASSUME transfer = <<>> PROVE StreamIsUnderstood
    BY DEF StreamIsUnderstood
  <2>1. Seen = SubSeq(stream, 1, fed)
    BY <1>4
  <2>2. LET b == SubSeq(stream, 1, fed)
            n == WholePart(b)
            records == SplitTLSRecords(SubSeq(b, 1, n)).records
            rest == SubSeq(b, n + 1, Len(b))
            broken == ParseTLSRecordHeader(rest).err = "ErrTLSRecord"
        IN /\ p.from_ec = Len(records)
           /\ p.encrypted <=> ~Plaintext(records, Len(records) + 1)
           /\ p.header # <<>> \/ p.remaining # 0 <=> rest # <<>>
           /\ \A i \in DOMAIN records : Fatal(records, i) => i = Len(records)
           /\ verdict = IF records # <<>> /\ Fatal(records, Len(records)) THEN Verdict(records[Len(records)])
                        ELSE IF broken THEN "failed" ELSE "ok"
    BY <1>2, <1>3, StandsWhereItSplits, Zenon
  <2> QED
    BY <2>1, <2>2, Zenon DEF StreamIsUnderstood, g5120_tls_has_partial_input
<1>6. MessagesArrive
  BY <1>2 DEF MessagesArrive, Reception
<1>7. CaptureShowsIt
  <2>1. transfer # <<>> => transfer \in ByteStrings
    <3> SUFFICES ASSUME transfer # <<>> PROVE transfer \in ByteStrings
      OBVIOUS
    <3>1. OnWire(fed)
      BY <1>2 DEF Reception
    <3>2. ASSUME NEW flags \in {FlagTLSData, FlagTLSAlt}, NEW padding \in Paddings, sent - fed <= MaxPack,
                 transfer = EncodePack(flags, SubSeq(stream, fed + 1, sent)) \o padding
          PROVE  transfer \in ByteStrings
      <4>1. SubSeq(stream, fed + 1, sent) \in ByteStrings /\ Len(SubSeq(stream, fed + 1, sent)) <= MaxPack
        BY <1>1, <1>2, <3>2, StreamIs
      <4> QED
        BY <3>2, <4>1, RecordsAreTaken
    <3>3. ASSUME NEW m \in Messages, NEW noChecksum \in BOOLEAN, NEW padding \in Paddings,
                 transfer = EncodePack(FlagMessage, EncodeMessage(m.cmd, m.payload, noChecksum)) \o padding
          PROVE  transfer \in ByteStrings
      BY <3>3, MessageIsTaken
    <3>4. transfer \in Junk => transfer \in ByteStrings
      BY JunkIsOther
    <3> QED
      BY <3>1, <3>2, <3>3, <3>4 DEF OnWire
  <2>2. transfer \in ByteStrings => CaptureShowsIt
    BY CaptureShowsBytes, Zenon DEF CaptureShowsIt
  <2>3. transfer = <<>> => CaptureShowsIt
    BY Zenon DEF CaptureShowsIt
  <2> QED
    BY <2>1, <2>2, <2>3
<1>8. ArmsFollow
  BY <1>1, Zenon DEF Answered, ArmsFollow, RightArm
<1>9. RecordsAreFramed
  <2>1. Seen \in ByteStrings
    <3>1. Len(todo) = sent - fed \/ Len(todo) = 0
      <4>1. todo = SubSeq(stream, fed + 1, sent) \/ todo = <<>>
        BY <1>2 DEF Reception
      <4>2. Len(SubSeq(stream, fed + 1, sent)) = sent - fed
        BY <1>1, <1>2, StreamIs
      <4> QED
        BY <4>1, <4>2, EmptyBytes
    <3> DEFINE m == sent - Len(todo)
               z == 0
    <3>2. m \in 0..Len(stream) /\ z \in 0..m /\ z + 1 = 1
      BY <1>1, <1>3, <3>1
    <3>3. SubSeq(stream, z + 1, m) \in ByteStrings
      <4> HIDE DEF m, z
      <4> QED
        BY <1>3, <3>2, RestIs
    <3> QED
      BY <3>2, <3>3 DEF Seen
  <2> QED
    BY <2>1, OneRecordIsFramed, Zenon DEF RecordsAreFramed
<1> QED
  BY <1>5, <1>6, <1>7, <1>8, <1>9 DEF ParsersAgree

-----------------------------------------------------------------------------
(* The theorem *)

\* The two hosts are of one mind about the wire, whatever the stream, the messages
\* and the junk, and wherever the stream is cut.
THEOREM RecordParsersAgree == Spec => []ParsersAgree
<1>1. Init => IInv
  BY InitIsUnderstood
<1>2. IInv /\ [Next]_vars => IInv'
  BY SendRecordsStep, SendMessageStep, SendJunkStep, ReceiveStep, ReadHeaderStep, ReadBodyStep, StutterStep DEF Next
<1>3. IInv => ParsersAgree
  BY InvariantMeans
<1> QED
  BY <1>1, <1>2, <1>3, PTL DEF Spec
=============================================================================
