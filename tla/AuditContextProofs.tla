------------------------- MODULE AuditContextProofs -------------------------
(***************************************************************************)
(* Proofs about AuditContext, for every limit on length and depth, every   *)
(* set of names, fields and pieces: the validator accepts exactly what the *)
(* kernel's rules allow, the encoder gives a context exactly for what can  *)
(* be said, and the kernel is never shown a context it would refuse.       *)
(*                                                                         *)
(* The walks of the validator are compared with the grammar of Msgpack by  *)
(* the inductions of MsgpackProofs.                                        *)
(***************************************************************************)
EXTENDS AuditContext, MsgpackProofs

-----------------------------------------------------------------------------
(* Bytes. *)

LEMMA Joined ==
  ASSUME NEW S, NEW s \in Seq(S), NEW t \in Seq(S)
  PROVE  /\ s \o t \in Seq(S) /\ Len(s \o t) = Len(s) + Len(t)
         /\ \A i \in 1..(Len(s) + Len(t)) : (s \o t)[i] = IF i <= Len(s) THEN s[i] ELSE t[i - Len(s)]
OBVIOUS

LEMMA SizeType ==
  ASSUME NEW t \in AnyToken
  PROVE  ByteSize(t) \in Nat /\ ByteSize(t) >= 1
<1>1. CASE t \in {Leaf, Bad}
  BY <1>1 DEF ByteSize, Leaf, Bad
<1>2. CASE t \in {"array", "map"} \X Nat
  <2>1. Len(t) = 2
    BY <1>2
  <2>2. QED
    BY <2>1 DEF ByteSize
<1>3. CASE t \in {"int", "bool", "str", "bin"} \X {0} \X Seq(STRING)
  <2>1. Len(t) = 3 /\ Len(t[3]) \in Nat
    BY <1>3
  <2>2. QED
    BY <2>1 DEF ByteSize
<1>4. QED
  BY <1>1, <1>2, <1>3 DEF AnyToken

BytesRow(b, f, i) == IF i > Len(b) THEN 0 ELSE ByteSize(b[i]) + f[i + 1]
BytesLoop(b) == CHOOSE f : f = [i \in Places |-> BytesRow(b, f, i)]

LEMMA BytesIs ==
  ASSUME NEW b, NEW p
  PROVE  BytesFrom(b, p) = BytesLoop(b)[p]
BY DEF BytesFrom, BytesLoop, BytesRow

LEMMA BytesEquation ==
  ASSUME NEW b \in Seq(AnyToken)
  PROVE  BytesLoop(b) = [i \in Places |-> BytesRow(b, BytesLoop(b), i)]
<1> DEFINE S == {m \in Nat : \E g : /\ g = [i \in Places |-> g[i]]
                                   /\ \A i \in Places : i >= m => g[i] = BytesRow(b, g, i)}
<1>1. Len(b) \in Nat
  OBVIOUS
<1>2. ASSUME NEW m \in Nat, m > Len(b)
      PROVE  m \in S
  <2> DEFINE g == [i \in Places |-> 0]
  <2>1. \A i \in Places : i >= m => g[i] = BytesRow(b, g, i)
    BY <1>1, <1>2 DEF BytesRow, Places
  <2>2. QED
    BY <2>1
<1>3. ASSUME NEW m \in Nat, m <= Len(b), \A k \in Nat : k > m => k \in S
      PROVE  m \in S
  <2>1. m + 1 \in S
    BY <1>3
  <2>2. PICK g : /\ g = [i \in Places |-> g[i]]
                 /\ \A i \in Places : i >= m + 1 => g[i] = BytesRow(b, g, i)
    BY <2>1
  <2> DEFINE h == [i \in Places |-> IF i = m THEN BytesRow(b, g, i) ELSE g[i]]
  <2>3. ASSUME NEW i \in Places, i >= m
        PROVE  h[i] = BytesRow(b, h, i)
    <3>1. i + 1 \in Places /\ i + 1 # m /\ h[i + 1] = g[i + 1]
      BY <2>3 DEF Places
    <3>2. BytesRow(b, h, i) = BytesRow(b, g, i)
      BY <3>1 DEF BytesRow
    <3>3. h[i] = BytesRow(b, g, i)
      BY <2>2, <2>3 DEF Places
    <3>4. QED
      BY <3>2, <3>3
  <2>4. h = [i \in Places |-> h[i]]
    OBVIOUS
  <2> HIDE DEF h
  <2>5. QED
    BY <2>3, <2>4
<1>4. Nat \subseteq S
  <2> HIDE DEF S
  <2>1. QED
    BY <1>1, <1>2, <1>3, Downward, Zenon
<1>5. 0 \in S
  BY <1>4
<1>6. PICK g : /\ g = [i \in Places |-> g[i]]
               /\ \A i \in Places : i >= 0 => g[i] = BytesRow(b, g, i)
  BY <1>5
<1>7. g = [i \in Places |-> BytesRow(b, g, i)]
  BY <1>6 DEF Places
<1>8. QED
  BY <1>7 DEF BytesLoop

\* The bytes from p on: those of the value at p, then the rest.
LEMMA BytesStep ==
  ASSUME NEW b \in Seq(AnyToken), NEW p \in Places
  PROVE  BytesFrom(b, p) = IF p > Len(b) THEN 0 ELSE ByteSize(b[p]) + BytesFrom(b, p + 1)
<1>1. BytesLoop(b)[p] = BytesRow(b, BytesLoop(b), p)
  BY BytesEquation
<1>2. QED
  BY <1>1, BytesIs DEF BytesRow

LEMMA BytesType ==
  ASSUME NEW b \in Seq(AnyToken)
  PROVE  \A p \in Places : BytesFrom(b, p) \in Nat
<1> DEFINE S == {p \in Places : BytesFrom(b, p) \in Nat}
<1>1. ASSUME NEW p \in Places, p <= Len(b) => \A q \in Places : q > p => q \in S
      PROVE  p \in S
  <2>1. CASE p > Len(b)
    BY <2>1, BytesStep
  <2>2. CASE p <= Len(b)
    <3>1. p + 1 \in S /\ b[p] \in AnyToken
      BY <1>1, <2>2 DEF Places
    <3>2. BytesFrom(b, p) = ByteSize(b[p]) + BytesFrom(b, p + 1)
      BY <2>2, BytesStep DEF Places
    <3>3. QED
      BY <3>1, <3>2, SizeType
  <2>3. QED
    BY <2>1, <2>2 DEF Places
<1>2. Places \subseteq S
  <2> HIDE DEF S
  <2>1. QED
    BY <1>1, Backwards
<1>3. QED
  BY <1>2

\* Values take at least a byte each.
LEMMA EnoughBytes ==
  ASSUME NEW b \in Seq(AnyToken)
  PROVE  \A p \in Places, n \in Nat : EndOf(b, p, n, -1) # 0 => n <= BytesFrom(b, p)
<1> DEFINE S == {p \in Places : \A n \in Nat : EndOf(b, p, n, -1) # 0 => n <= BytesFrom(b, p)}
<1>1. ASSUME NEW p \in Places, p <= Len(b) => \A q \in Places : q > p => q \in S
      PROVE  p \in S
  <2> SUFFICES ASSUME NEW n \in Nat, EndOf(b, p, n, -1) # 0
               PROVE  n <= BytesFrom(b, p)
    OBVIOUS
  <2>0. -1 \in Int
    OBVIOUS
  <2>1. CASE n = 0
    BY <2>1, BytesType
  <2>2. CASE n # 0
    <3>1. value_step(b, p) # -1
      BY <2>0, <2>2, NotThere
    <3>2. value_step(b, p) \in Nat /\ n - 1 + value_step(b, p) \in Nat
          /\ EndOf(b, p, n, -1) = EndOf(b, p + 1, n - 1 + value_step(b, p), -1)
      BY <2>2, <3>1, HeaderRead
    <3>3. p <= Len(b)
      BY <3>1, StepType DEF Places
    <3>4. p + 1 \in S /\ b[p] \in AnyToken /\ p + 1 \in Places
      BY <1>1, <3>3 DEF Places
    <3>5. n - 1 + value_step(b, p) <= BytesFrom(b, p + 1)
      BY <3>2, <3>4
    <3>6. BytesFrom(b, p) = ByteSize(b[p]) + BytesFrom(b, p + 1)
      BY <3>3, BytesStep DEF Places
    <3>7. QED
      BY <3>2, <3>4, <3>5, <3>6, SizeType, BytesType
  <2>3. QED
    BY <2>1, <2>2
<1>2. Places \subseteq S
  <2> HIDE DEF S
  <2>1. QED
    BY <1>1, Backwards, SMTT(30)
<1>3. QED
  BY <1>2

-----------------------------------------------------------------------------
(* mp_skip_value against the grammar. *)

ValueRow(b, f, q) ==
  [pending \in Nat |->
        IF pending = 0 THEN q
        ELSE IF q > Len(b) \/ b[q] = Bad THEN 0
        ELSE LET left == pending - 1 + (IF b[q][1] = "map" THEN 2 * b[q][2] ELSE b[q][2])
             IN  IF left > BytesFrom(b, q + 1) THEN 0 ELSE f[q + 1][left]]

ValueLoop(b) == CHOOSE f : f = [q \in Places |-> ValueRow(b, f, q)]

LEMMA ValueLoopIs ==
  ASSUME NEW b, NEW p
  PROVE  mp_skip_value(b, p) = ValueLoop(b)[p][1]
BY DEF mp_skip_value, ValueLoop, ValueRow

\* One turn of the loop, in the words of Msgpack.
ValueCell(b, f, q, pending) ==
  IF pending = 0 THEN q
  ELSE IF value_step(b, q) = -1 \/ pending - 1 + value_step(b, q) > BytesFrom(b, q + 1) THEN 0
  ELSE f[q + 1][pending - 1 + value_step(b, q)]

LEMMA ValueRowIs ==
  ASSUME NEW b \in Seq(AnyToken), NEW f, NEW q \in Places
  PROVE  ValueRow(b, f, q) = [pending \in Nat |-> ValueCell(b, f, q, pending)]
<1>1. CASE q > Len(b) \/ b[q] = Bad
  <2>1. value_step(b, q) = -1
    BY <1>1 DEF value_step
  <2>2. QED
    BY <1>1, <2>1 DEF ValueRow, ValueCell
<1>2. CASE ~(q > Len(b) \/ b[q] = Bad)
  <2>1. value_step(b, q) = IF b[q][1] = "map" THEN 2 * b[q][2] ELSE b[q][2]
    BY <1>2 DEF value_step
  <2>2. b[q] \in AnyToken
    BY <1>2 DEF Places
  <2>3. value_step(b, q) # -1
    BY <2>1, <2>2, CountType
  <2>4. QED
    BY <1>2, <2>1, <2>3 DEF ValueRow, ValueCell
<1>3. QED
  BY <1>1, <1>2

\* With the grammar's answer further on, a turn gives the grammar's answer: a
\* count the bytes cannot hold is one the grammar does not allow.
LEMMA ValueTurn ==
  ASSUME NEW b \in Seq(AnyToken), NEW f, NEW q \in Places, NEW n \in Nat,
         q <= Len(b) => \A m \in Nat : f[q + 1][m] = EndOf(b, q + 1, m, -1)
  PROVE  ValueCell(b, f, q, n) = EndOf(b, q, n, -1)
<1>0. -1 \in Int
  OBVIOUS
<1>1. CASE n = 0
  BY <1>0, <1>1, NoMore DEF ValueCell
<1>2. CASE n # 0 /\ value_step(b, q) = -1
  BY <1>0, <1>2, NotThere DEF ValueCell
<1>3. CASE n # 0 /\ value_step(b, q) # -1
  <2> DEFINE m == n - 1 + value_step(b, q)
  <2>1. m \in Nat /\ EndOf(b, q, n, -1) = EndOf(b, q + 1, m, -1)
    BY <1>3, HeaderRead
  <2>2. q <= Len(b) /\ q + 1 \in Places
    BY <1>3, StepType DEF Places
  <2>3. ValueCell(b, f, q, n) = IF m > BytesFrom(b, q + 1) THEN 0 ELSE f[q + 1][m]
    BY <1>3 DEF ValueCell
  <2> HIDE DEF m
  <2>4. EndOf(b, q + 1, m, -1) # 0 => m <= BytesFrom(b, q + 1)
    BY <2>1, <2>2, EnoughBytes
  <2>5. BytesFrom(b, q + 1) \in Nat
    BY <2>2, BytesType
  <2>6. f[q + 1][m] = EndOf(b, q + 1, m, -1)
    BY <2>1, <2>2
  <2>7. QED
    BY <2>1, <2>3, <2>4, <2>5, <2>6
<1>4. QED
  BY <1>1, <1>2, <1>3

LEMMA ValueEquation ==
  ASSUME NEW b \in Seq(AnyToken)
  PROVE  ValueLoop(b) = [q \in Places |-> ValueRow(b, ValueLoop(b), q)]
<1> DEFINE g == [q \in Places |-> [pending \in Nat |-> EndOf(b, q, pending, -1)]]
<1>1. ASSUME NEW q \in Places
      PROVE  g[q] = ValueRow(b, g, q)
  <2>1. q + 1 \in Places
    BY DEF Places
  <2>2. \A m \in Nat : g[q + 1][m] = EndOf(b, q + 1, m, -1)
    BY <2>1
  <2>3. g[q] = [pending \in Nat |-> EndOf(b, q, pending, -1)]
    OBVIOUS
  <2> HIDE DEF g
  <2>4. \A n \in Nat : ValueCell(b, g, q, n) = EndOf(b, q, n, -1)
    BY <2>2, ValueTurn
  <2>5. QED
    BY <2>3, <2>4, ValueRowIs
<1>2. g = [q \in Places |-> ValueRow(b, g, q)]
  BY <1>1
<1> HIDE DEF g
<1>3. QED
  BY <1>2 DEF ValueLoop

\* Though it gives up as soon as a count cannot be met, mp_skip_value finds the
\* end of every value that has one.
LEMMA ValueSkipIsEnd ==
  ASSUME NEW b \in Seq(AnyToken)
  PROVE  \A p \in Places : mp_skip_value(b, p) = EndOf(b, p, 1, -1)
<1> DEFINE f == ValueLoop(b)
           S == {q \in Places : \A n \in Nat : f[q][n] = EndOf(b, q, n, -1)}
<1>1. ASSUME NEW q \in Places, q <= Len(b) => \A k \in Places : k > q => k \in S
      PROVE  q \in S
  <2>1. q <= Len(b) => q + 1 \in S
    BY <1>1 DEF Places
  <2>2. f[q] = [pending \in Nat |-> ValueCell(b, f, q, pending)]
    BY ValueEquation, ValueRowIs
  <2>3. q <= Len(b) => \A m \in Nat : f[q + 1][m] = EndOf(b, q + 1, m, -1)
    BY <2>1
  <2> HIDE DEF f
  <2>4. \A n \in Nat : ValueCell(b, f, q, n) = EndOf(b, q, n, -1)
    BY <2>3, ValueTurn, Zenon
  <2>5. QED
    BY <2>2, <2>4
<1>2. Places \subseteq S
  <2> HIDE DEF S
  <2>1. QED
    BY <1>1, Backwards, SMTT(30)
<1>3. QED
  BY <1>2, ValueLoopIs, 1 \in Nat

-----------------------------------------------------------------------------
(* What a run of values is made of. *)

\* No value of it is malformed, and it is not longer than the buffer.
LEMMA NothingBad ==
  ASSUME NEW b \in Seq(AnyToken)
  PROVE  \A p \in Places, n \in Nat : EndOf(b, p, n, -1) # 0 =>
           /\ \A k \in Places : p <= k /\ k < EndOf(b, p, n, -1) => value_step(b, k) # -1
           /\ p <= Len(b) + 1 => EndOf(b, p, n, -1) <= Len(b) + 1
           /\ n # 0 => EndOf(b, p, n, -1) > p
<1> DEFINE Fine(p, n) == EndOf(b, p, n, -1) # 0 =>
             /\ \A k \in Places : p <= k /\ k < EndOf(b, p, n, -1) => value_step(b, k) # -1
             /\ p <= Len(b) + 1 => EndOf(b, p, n, -1) <= Len(b) + 1
             /\ n # 0 => EndOf(b, p, n, -1) > p
           S == {p \in Places : \A n \in Nat : Fine(p, n)}
<1>1. ASSUME NEW p \in Places, p <= Len(b) => \A q \in Places : q > p => q \in S
      PROVE  p \in S
  <2> SUFFICES ASSUME NEW n \in Nat PROVE Fine(p, n)
    OBVIOUS
  <2>0. -1 \in Int
    OBVIOUS
  <2>1. CASE n = 0
    BY <2>0, <2>1, NoMore DEF Places
  <2>2. CASE n # 0 /\ value_step(b, p) = -1
    BY <2>0, <2>2, NotThere
  <2>3. CASE n # 0 /\ value_step(b, p) # -1
    <3> DEFINE m == n - 1 + value_step(b, p)
               e == EndOf(b, p, n, -1)
    <3>1. m \in Nat /\ e = EndOf(b, p + 1, m, -1)
      BY <2>3, HeaderRead
    <3>2. p <= Len(b) /\ p + 1 \in Places /\ Len(b) \in Nat
      BY <2>3, StepType DEF Places
    <3>3. p + 1 \in S
      BY <1>1, <3>2 DEF Places
    <3>4. Fine(p + 1, m)
      BY <3>1, <3>3
    <3>5. e \in Nat /\ (e = 0 \/ e >= p + 1)
      BY <2>0, <3>1, <3>2, EndOfIs
    <3> HIDE DEF m
    <3>6. ASSUME NEW k \in Places, p <= k, k < e, e # 0
          PROVE  value_step(b, k) # -1
      <4>1. CASE k = p
        BY <2>3, <4>1
      <4>2. CASE k # p
        BY <3>1, <3>4, <3>6, <4>2 DEF Places
      <4>3. QED
        BY <4>1, <4>2
    <3>7. QED
      BY <3>1, <3>2, <3>4, <3>5, <3>6 DEF Places
  <2>4. QED
    BY <2>1, <2>2, <2>3
<1>2. Places \subseteq S
  <2> HIDE DEF S
  <2>1. QED
    BY <1>1, Backwards, SMTT(30)
<1>3. QED
  BY <1>2

\* A slice of a buffer has the values of the buffer that end in it.
LEMMA SliceIs ==
  ASSUME NEW b \in Seq(AnyToken), NEW p \in Places, NEW e \in Places, p <= e, e <= Len(b) + 1
  PROVE  /\ SubSeq(b, p, e - 1) \in Seq(AnyToken) /\ Len(SubSeq(b, p, e - 1)) = e - p
         /\ \A i \in 1..(e - p) : SubSeq(b, p, e - 1)[i] = b[p + i - 1]
BY DEF Places

Inside(p, e, x) == IF x # 0 /\ x <= e THEN x - p + 1 ELSE 0

LEMMA SliceEnds ==
  ASSUME NEW b \in Seq(AnyToken), NEW p \in Places, NEW e \in Places, p <= e, e <= Len(b) + 1
  PROVE  \A i \in Places, n \in Nat : i <= e - p + 1 =>
           EndOf(SubSeq(b, p, e - 1), i, n, -1) = Inside(p, e, EndOf(b, p + i - 1, n, -1))
<1> DEFINE s == SubSeq(b, p, e - 1)
           S == {i \in Places : \A n \in Nat : i <= e - p + 1 =>
                   EndOf(s, i, n, -1) = Inside(p, e, EndOf(b, p + i - 1, n, -1))}
<1>a. s \in Seq(AnyToken) /\ Len(s) = e - p /\ \A i \in 1..(e - p) : s[i] = b[p + i - 1]
  BY SliceIs
<1> HIDE DEF s
<1>1. ASSUME NEW i \in Places, i <= Len(s) => \A k \in Places : k > i => k \in S
      PROVE  i \in S
  <2> SUFFICES ASSUME NEW n \in Nat, i <= e - p + 1
               PROVE  EndOf(s, i, n, -1) = Inside(p, e, EndOf(b, p + i - 1, n, -1))
    OBVIOUS
  <2> DEFINE k == p + i - 1
  <2>0. -1 \in Int /\ k \in Places /\ k <= e
    BY DEF Places
  <2> HIDE DEF k
  <2>1. CASE n = 0
    <3>1. EndOf(s, i, n, -1) = i /\ EndOf(b, k, n, -1) = k
      BY <1>a, <2>0, <2>1, NoMore
    <3>2. QED
      BY <2>0, <3>1 DEF Inside, Places, k
  <2>2. CASE n # 0 /\ i = e - p + 1
    <3>1. i > Len(s) /\ k = e
      BY <1>a, <2>2 DEF Places, k
    <3>2. EndOf(s, i, n, -1) = 0
      BY <1>a, <2>0, <2>2, <3>1, StepType, NotThere, SMTT(30)
    <3>3. EndOf(b, k, n, -1) \in Nat /\ (EndOf(b, k, n, -1) # 0 => EndOf(b, k, n, -1) > k)
      BY <2>0, <2>2, NothingBad, EndOfIs, Zenon
    <3>4. QED
      BY <2>0, <3>1, <3>2, <3>3 DEF Inside, Places, k
  <2>3. CASE n # 0 /\ i # e - p + 1
    <3>1. i \in 1..(e - p) /\ k <= Len(b) /\ i <= Len(s)
      BY <1>a, <2>3 DEF Places, k
    <3>2. value_step(s, i) = value_step(b, k)
      BY <1>a, <3>1 DEF value_step, Places, k
    <3>3. CASE value_step(b, k) = -1
      BY <1>a, <2>0, <2>3, <3>2, <3>3, NotThere DEF Inside, k
    <3>4. CASE value_step(b, k) # -1
      <4> DEFINE m == n - 1 + value_step(b, k)
      <4>1. m \in Nat /\ EndOf(b, k, n, -1) = EndOf(b, k + 1, m, -1)
        BY <2>0, <2>3, <3>4, HeaderRead
      <4>2. EndOf(s, i, n, -1) = EndOf(s, i + 1, m, -1)
        BY <1>a, <2>3, <3>2, <3>4, HeaderRead
      <4>3. i + 1 \in S /\ i + 1 <= e - p + 1
        BY <1>1, <3>1 DEF Places
      <4>4. p + (i + 1) - 1 = k + 1
        BY DEF k, Places
      <4> HIDE DEF m
      <4>5. EndOf(s, i + 1, m, -1) = Inside(p, e, EndOf(b, k + 1, m, -1))
        BY <4>1, <4>3, <4>4
      <4>6. QED
        BY <4>1, <4>2, <4>5 DEF k
    <3>5. QED
      BY <3>3, <3>4
  <2>4. QED
    BY <2>1, <2>2, <2>3
<1>2. Places \subseteq S
  <2> HIDE DEF S
  <2>1. QED
    BY <1>1, <1>a, Backwards
<1>3. QED
  BY <1>2 DEF s

-----------------------------------------------------------------------------
(* The pairs behind a map header that has all of its values. *)

KeyAt(b, i) == EndOf(b, 2, 2 * (i - 1), -1)
AllText(b) == \A k \in 1..Len(b) : IsStr(b[k]) => Utf8(b[k][3])
HasPairs(b, n) == b \in Seq(AnyToken) /\ n \in Nat /\ Len(b) >= 1 /\ EndOf(b, 2, 2 * n, -1) # 0

LEMMA TwoPlace == 2 \in Places /\ 1 \in Places
BY DEF Places

\* The keys are places of the buffer, each two values after the one before.
LEMMA KeyPlaces ==
  ASSUME NEW b, NEW n, HasPairs(b, n), NEW i \in Nat, i <= n
  PROVE  /\ KeyAt(b, i + 1) \in Places /\ KeyAt(b, i + 1) >= 2 /\ KeyAt(b, i + 1) <= Len(b) + 1
         /\ i < n => /\ KeyAt(b, i + 1) <= Len(b)
                     /\ KeyAt(b, i + 2) = EndOf(b, KeyAt(b, i + 1), 2, -1)
                     /\ KeyAt(b, i + 2) > KeyAt(b, i + 1)
<1> DEFINE k == KeyAt(b, i + 1)
<1>0. /\ b \in Seq(AnyToken) /\ n \in Nat /\ Len(b) \in Nat /\ Len(b) >= 1 /\ -1 \in Int
      /\ EndOf(b, 2, 2 * n, -1) # 0
  BY DEF HasPairs
<1>1. k = EndOf(b, 2, 2 * i, -1)
  <2>1. 2 * ((i + 1) - 1) = 2 * i
    OBVIOUS
  <2>2. QED
    BY <2>1 DEF KeyAt
<1>2. 2 * n = 2 * i + 2 * (n - i) /\ 2 * i \in Nat /\ 2 * (n - i) \in Nat
  BY <1>0
<1>3. EndOf(b, 2, 2 * n, -1) = After(b, k, 2 * (n - i), -1)
  BY <1>0, <1>1, <1>2, TwoPlace, InARow
<1> HIDE DEF k
<1>4. k # 0
  BY <1>0, <1>3 DEF After
<1>5. k \in Nat /\ k >= 2
  BY <1>0, <1>1, <1>2, <1>4, TwoPlace, EndOfIs
<1>6. k <= Len(b) + 1
  BY <1>0, <1>1, <1>2, <1>4, TwoPlace, NothingBad
<1>7. ASSUME i < n
      PROVE  k <= Len(b) /\ KeyAt(b, i + 2) = EndOf(b, k, 2, -1) /\ KeyAt(b, i + 2) > k
  <2>1. k \in Places /\ 2 \in Nat /\ 2 # 0
    BY <1>5 DEF Places
  <2>2. KeyAt(b, i + 2) = EndOf(b, 2, 2 * i + 2, -1)
    <3>1. 2 * ((i + 2) - 1) = 2 * i + 2
      OBVIOUS
    <3>2. QED
      BY <3>1 DEF KeyAt
  <2>3. EndOf(b, 2, 2 * i + 2, -1) = EndOf(b, k, 2, -1)
    BY <1>0, <1>1, <1>2, <1>4, TwoPlace, InARow DEF After
  <2>4. 2 * n = (2 * i + 2) + 2 * (n - i - 1) /\ 2 * i + 2 \in Nat /\ 2 * (n - i - 1) \in Nat
    BY <1>0, <1>7
  <2>5. EndOf(b, 2, 2 * n, -1) = After(b, EndOf(b, 2, 2 * i + 2, -1), 2 * (n - i - 1), -1)
    BY <1>0, <2>4, TwoPlace, InARow
  <2>6. EndOf(b, k, 2, -1) # 0
    BY <1>0, <2>3, <2>5 DEF After
  <2>7. EndOf(b, k, 2, -1) > k /\ EndOf(b, k, 2, -1) <= Len(b) + 1
    BY <1>0, <1>6, <2>1, <2>6, NothingBad
  <2>8. EndOf(b, k, 2, -1) \in Nat
    BY <1>0, <2>1, EndOfIs
  <2>9. QED
    BY <1>0, <1>5, <2>2, <2>3, <2>7, <2>8
<1>8. QED
  BY <1>5, <1>6, <1>7 DEF k, Places

Start0 == [ok |-> TRUE, at |-> 2, pairs |-> <<>>]
ReadStep(b, r) ==
  IF ~r.ok \/ ~mp_str(b, r.at) \/ mp_skip_value(b, r.at + 1) = 0 THEN NoPairs
  ELSE [ok |-> TRUE, at |-> mp_skip_value(b, r.at + 1),
        pairs |-> Append(r.pairs, [key |-> b[r.at][3],
                                   value |-> SubSeq(b, r.at + 1, mp_skip_value(b, r.at + 1) - 1)])]
ReadRow(b, f, i) == IF i = 0 THEN Start0 ELSE ReadStep(b, f[i - 1])
ReadLoop(b, n) == CHOOSE f : f = [i \in 0..n |-> ReadRow(b, f, i)]

LEMMA PairsIs ==
  ASSUME NEW b, NEW n
  PROVE  Pairs(b, n) = ReadLoop(b, n)[n]
BY DEF Pairs, ReadLoop, ReadRow, ReadStep, Start0

LEMMA ReadEquation ==
  ASSUME NEW b, NEW n \in Nat
  PROVE  ReadLoop(b, n) = [i \in 0..n |-> ReadRow(b, ReadLoop(b, n), i)]
<1> DEFINE S == {m \in Nat : \E g : /\ g = [i \in 0..n |-> g[i]]
                                   /\ \A i \in 0..n : i <= m => g[i] = ReadRow(b, g, i)}
<1>1. 0 \in S
  <2> DEFINE g == [i \in 0..n |-> Start0]
  <2>1. \A i \in 0..n : i <= 0 => g[i] = ReadRow(b, g, i)
    BY DEF ReadRow
  <2>2. QED
    BY <2>1
<1>2. ASSUME NEW m \in Nat, m \in S
      PROVE  m + 1 \in S
  <2>1. PICK g : /\ g = [i \in 0..n |-> g[i]]
                 /\ \A i \in 0..n : i <= m => g[i] = ReadRow(b, g, i)
    BY <1>2
  <2> DEFINE h == [i \in 0..n |-> IF i = m + 1 THEN ReadRow(b, g, i) ELSE g[i]]
  <2>2. ASSUME NEW i \in 0..n, i <= m + 1
        PROVE  h[i] = ReadRow(b, h, i)
    <3>1. i # 0 => h[i - 1] = g[i - 1]
      BY <2>2
    <3>2. ReadRow(b, h, i) = ReadRow(b, g, i)
      BY <3>1 DEF ReadRow
    <3>3. h[i] = ReadRow(b, g, i)
      BY <2>1, <2>2
    <3>4. QED
      BY <3>2, <3>3
  <2>3. h = [i \in 0..n |-> h[i]]
    OBVIOUS
  <2> HIDE DEF h
  <2>4. QED
    BY <2>2, <2>3
<1>3. n \in S
  <2> HIDE DEF S
  <2>1. QED
    BY <1>1, <1>2, Induction
<1>4. PICK g : /\ g = [i \in 0..n |-> g[i]]
               /\ \A i \in 0..n : i <= n => g[i] = ReadRow(b, g, i)
  BY <1>3
<1>5. g = [i \in 0..n |-> ReadRow(b, g, i)]
  BY <1>4
<1>6. QED
  BY <1>5 DEF ReadLoop

Entry(b, i) ==
  [key |-> b[KeyAt(b, i)][3], value |-> SubSeq(b, KeyAt(b, i) + 1, KeyAt(b, i + 1) - 1)]
StringKeys(b, n) == \A j \in 1..n : IsStr(b[KeyAt(b, j)])
Entries(b, n) == [ok |-> TRUE, at |-> KeyAt(b, n + 1), pairs |-> [j \in 1..n |-> Entry(b, j)]]

LEMMA EntriesMore ==
  ASSUME NEW b, NEW i \in Nat
  PROVE  Append([j \in 1..i |-> Entry(b, j)], Entry(b, i + 1)) = [j \in 1..(i + 1) |-> Entry(b, j)]
<1> DEFINE s == [j \in 1..i |-> Entry(b, j)]
           T == {Entry(b, j) : j \in 1..(i + 1)}
<1>1. s \in Seq(T) /\ Len(s) = i /\ Entry(b, i + 1) \in T
  OBVIOUS
<1>2. DOMAIN Append(s, Entry(b, i + 1)) = 1..(i + 1)
  <2> HIDE DEF T, s
  <2>1. QED
    BY <1>1
<1>3. \A j \in 1..(i + 1) : Append(s, Entry(b, i + 1))[j] = Entry(b, j)
  <2>1. \A j \in 1..i : s[j] = Entry(b, j)
    OBVIOUS
  <2> HIDE DEF T, s
  <2>2. QED
    BY <1>1, <2>1
<1>4. Append(s, Entry(b, i + 1)) \in Seq(T)
  <2> HIDE DEF T, s
  <2>1. QED
    BY <1>1
<1>5. Append(s, Entry(b, i + 1)) = [j \in 1..(i + 1) |-> Append(s, Entry(b, i + 1))[j]]
  <2> HIDE DEF T, s
  <2>1. QED
    BY <1>2, <1>4
<1>6. QED
  BY <1>3, <1>5

\* The value of a string key starts after it and ends where the next key is.
LEMMA KeySkipped ==
  ASSUME NEW b, NEW n, HasPairs(b, n), AllText(b), NEW i \in Nat, i < n, IsStr(b[KeyAt(b, i + 1)])
  PROVE  /\ mp_str(b, KeyAt(b, i + 1))
         /\ mp_skip_value(b, KeyAt(b, i + 1) + 1) = KeyAt(b, i + 2)
         /\ KeyAt(b, i + 2) # 0
         /\ EndOf(b, KeyAt(b, i + 1) + 1, 1, -1) = KeyAt(b, i + 2)
<1> DEFINE k == KeyAt(b, i + 1)
<1>0. b \in Seq(AnyToken) /\ Len(b) \in Nat /\ i <= n /\ n \in Nat
  BY DEF HasPairs
<1>1. /\ k \in Places /\ k <= Len(b) /\ KeyAt(b, i + 2) = EndOf(b, k, 2, -1)
      /\ KeyAt(b, i + 2) > k
  BY <1>0, KeyPlaces, Zenon
<1>2. b[k] \in AnyToken /\ b[k][1] = "str"
  BY <1>0, <1>1 DEF IsStr, Places
<1> HIDE DEF k
<1>3. b[k] # Bad /\ b[k][2] = 0
  BY <1>2 DEF AnyToken, Leaf, Bad
<1>4. value_step(b, k) = 0
  BY <1>1, <1>2, <1>3 DEF value_step, Places
<1>5. EndOf(b, k, 2, -1) = EndOf(b, k + 1, 1, -1)
  <2>1. 2 - 1 + value_step(b, k) = 1 /\ 2 \in Nat /\ 2 # 0 /\ value_step(b, k) # -1
    BY <1>4
  <2>2. QED
    BY <1>0, <1>1, <2>1, HeaderRead
<1>6. mp_skip_value(b, k + 1) = EndOf(b, k + 1, 1, -1)
  BY <1>0, <1>1, ValueSkipIsEnd DEF Places
<1>7. mp_str(b, k)
  BY <1>0, <1>1, <1>2 DEF mp_str, AllText, IsStr, Places
<1>8. QED
  BY <1>1, <1>5, <1>6, <1>7 DEF k, Places

\* Pairs reads a map that has all of its values to its end, unless a key is no
\* string.
LEMMA PairsMeet ==
  ASSUME NEW b, NEW n, HasPairs(b, n), AllText(b)
  PROVE  Pairs(b, n) = IF StringKeys(b, n) THEN Entries(b, n) ELSE NoPairs
<1> DEFINE f == ReadLoop(b, n)
           S == {i \in Nat : i <= n => f[i] = IF StringKeys(b, i) THEN Entries(b, i) ELSE NoPairs}
<1>0. b \in Seq(AnyToken) /\ n \in Nat /\ Len(b) \in Nat /\ -1 \in Int
  BY DEF HasPairs
<1>a. f = [i \in 0..n |-> ReadRow(b, f, i)]
  BY <1>0, ReadEquation
<1> HIDE DEF f
<1>1. 0 \in S
  <2>1. f[0] = Start0
    BY <1>0, <1>a DEF ReadRow
  <2>2. StringKeys(b, 0)
    BY DEF StringKeys
  <2>3. KeyAt(b, 0 + 1) = 2
    BY <1>0, TwoPlace, NoMore DEF KeyAt
  <2>4. [j \in 1..0 |-> Entry(b, j)] = <<>>
    OBVIOUS
  <2>5. QED
    BY <2>1, <2>2, <2>3, <2>4, Zenon DEF Start0, Entries
<1>2. ASSUME NEW i \in Nat, i \in S
      PROVE  i + 1 \in S
  <2> SUFFICES ASSUME i + 1 <= n
               PROVE  f[i + 1] = IF StringKeys(b, i + 1) THEN Entries(b, i + 1) ELSE NoPairs
    OBVIOUS
  <2>1. f[i + 1] = ReadStep(b, f[i])
    BY <1>0, <1>a DEF ReadRow
  <2>2. f[i] = IF StringKeys(b, i) THEN Entries(b, i) ELSE NoPairs
    BY <1>0, <1>2
  <2>3. StringKeys(b, i + 1) <=> StringKeys(b, i) /\ IsStr(b[KeyAt(b, i + 1)])
    BY DEF StringKeys
  <2>4. CASE ~StringKeys(b, i)
    BY <2>1, <2>2, <2>3, <2>4 DEF ReadStep, NoPairs
  <2>5. CASE StringKeys(b, i) /\ ~IsStr(b[KeyAt(b, i + 1)])
    <3>1. ~mp_str(b, f[i].at)
      BY <2>2, <2>5 DEF Entries, mp_str
    <3>2. QED
      BY <2>1, <2>3, <2>5, <3>1 DEF ReadStep
  <2>6. CASE StringKeys(b, i) /\ IsStr(b[KeyAt(b, i + 1)])
    <3>1. /\ f[i].ok /\ f[i].at = KeyAt(b, i + 1)
          /\ f[i].pairs = [j \in 1..i |-> Entry(b, j)]
      BY <2>2, <2>6 DEF Entries
    <3>2. /\ mp_str(b, f[i].at) /\ mp_skip_value(b, f[i].at + 1) = KeyAt(b, i + 2)
          /\ KeyAt(b, i + 2) # 0
      BY <1>0, <2>6, <3>1, KeySkipped
    <3>3. i + 2 = (i + 1) + 1
      OBVIOUS
    <3>4. ReadStep(b, f[i]) = [ok |-> TRUE, at |-> KeyAt(b, (i + 1) + 1),
                               pairs |-> Append(f[i].pairs, Entry(b, i + 1))]
      BY <3>1, <3>2, <3>3, Zenon DEF ReadStep, Entry
    <3>5. Append(f[i].pairs, Entry(b, i + 1)) = [j \in 1..(i + 1) |-> Entry(b, j)]
      BY <3>1, EntriesMore
    <3>6. QED
      BY <2>1, <2>3, <2>6, <3>4, <3>5, Zenon DEF Entries
  <2>7. QED
    BY <2>4, <2>5, <2>6
<1>3. n \in S
  <2> HIDE DEF S
  <2>1. QED
    BY <1>0, <1>1, <1>2, Induction
<1>4. QED
  BY <1>0, <1>3, PairsIs DEF f

-----------------------------------------------------------------------------
(* The validator against the kernel's rules. *)

\* is_segment, which looks at each letter and the one before it, is the grammar.
LEMMA SegmentMeets ==
  ASSUME NEW s \in Seq(STRING)
  PROVE  is_segment(s) <=> Segment(s)
<1>0. Len(s) \in Nat /\ (s # <<>> => Len(s) >= 1)
  OBVIOUS
<1>1. ASSUME is_segment(s)
      PROVE  Segment(s)
  <2>1. /\ s # <<>> /\ s[1] \in Lower
        /\ \A i \in 2..Len(s) : s[i] \in Lower \cup Digit \/ (s[i] = "-" /\ s[i - 1] # "-")
        /\ s[Len(s)] # "-"
    BY <1>1 DEF is_segment
  <2>2. \A i \in 1..Len(s) : i = 1 \/ i \in 2..Len(s)
    BY <1>0
  <2>3. \A i \in 1..Len(s) : s[i] \in Lower \cup Digit \cup {"-"}
    BY <2>1, <2>2
  <2>4. ASSUME NEW i \in 1..Len(s), s[i] = "-"
        PROVE  i < Len(s) /\ s[i - 1] # "-" /\ s[i + 1] # "-"
    <3>1. i # 1 /\ i # Len(s)
      BY <2>1, <2>4 DEF Lower
    <3>2. i \in 2..Len(s) /\ i + 1 \in 2..Len(s) /\ (i + 1) - 1 = i
      BY <1>0, <3>1
    <3>3. s[i - 1] # "-"
      BY <2>1, <2>4, <3>2 DEF Lower, Digit
    <3>4. s[i + 1] # "-"
      BY <2>1, <2>4, <3>2 DEF Lower, Digit
    <3>5. QED
      BY <1>0, <3>1, <3>3, <3>4
  <2>5. QED
    BY <2>1, <2>3, <2>4 DEF Segment
<1>2. ASSUME Segment(s)
      PROVE  is_segment(s)
  <2>1. /\ s # <<>> /\ s[1] \in Lower
        /\ \A i \in 1..Len(s) : s[i] \in Lower \cup Digit \cup {"-"}
        /\ \A i \in 1..Len(s) : s[i] = "-" => i < Len(s) /\ s[i - 1] # "-"
    BY <1>2 DEF Segment
  <2>2. s[Len(s)] # "-"
    BY <1>0, <2>1
  <2>3. \A i \in 2..Len(s) : i \in 1..Len(s)
    BY <1>0
  <2>4. QED
    BY <2>1, <2>2, <2>3 DEF is_segment
<1>3. QED
  BY <1>1, <1>2

LEMMA StringIs ==
  ASSUME NEW t \in AnyToken, IsStr(t)
  PROVE  t = Str(t[3]) /\ t[3] \in Seq(STRING) /\ t[2] = 0 /\ t # Bad
<1>1. t \in {"int", "bool", "str", "bin"} \X {0} \X Seq(STRING)
  BY DEF AnyToken, IsStr, Leaf, Bad
<1>2. QED
  BY <1>1 DEF Str, IsStr, Bad

\* A buffer that is one value, and a map.
OneMap(b) == /\ b \in Seq(AnyToken) /\ AllText(b)
             /\ EndOf(b, 1, 1, -1) = Len(b) + 1
             /\ b[1][1] = "map"

LEMMA MapHasPairs ==
  ASSUME NEW b, OneMap(b)
  PROVE  /\ HasPairs(b, b[1][2]) /\ AllText(b) /\ KeyAt(b, b[1][2] + 1) = Len(b) + 1
         /\ b # <<>> /\ mp_map_len(b) = b[1][2] /\ b[1][2] \in Nat
<1>0. /\ b \in Seq(AnyToken) /\ AllText(b) /\ Len(b) \in Nat /\ -1 \in Int /\ 1 \in Nat /\ 1 # 0
      /\ EndOf(b, 1, 1, -1) = Len(b) + 1 /\ Len(b) + 1 # 0
  BY DEF OneMap
<1>1. value_step(b, 1) # -1
  BY <1>0, TwoPlace, NotThere
<1>2. 1 <= Len(b) /\ b # <<>> /\ b[1] \in AnyToken
  BY <1>0, <1>1, TwoPlace, StepType
<1>3. b[1][2] \in Nat /\ value_step(b, 1) = 2 * b[1][2]
  BY <1>0, <1>1, <1>2, CountType DEF value_step, OneMap
<1> DEFINE n == b[1][2]
<1>4. EndOf(b, 1, 1, -1) = EndOf(b, 1 + 1, 1 - 1 + value_step(b, 1), -1)
  BY <1>0, <1>1, TwoPlace, HeaderRead
<1>5. EndOf(b, 2, 2 * n, -1) = Len(b) + 1
  <2>1. 1 + 1 = 2 /\ 1 - 1 + value_step(b, 1) = 2 * n
    BY <1>3
  <2>2. QED
    BY <1>0, <1>4, <2>1
<1>6. 2 * ((n + 1) - 1) = 2 * n
  BY <1>3
<1>7. KeyAt(b, n + 1) = Len(b) + 1
  BY <1>5, <1>6 DEF KeyAt
<1>8. mp_map_len(b) = n
  BY <1>2 DEF mp_map_len, OneMap
<1>9. QED
  BY <1>0, <1>2, <1>3, <1>5, <1>7, <1>8 DEF HasPairs

\* What the rules ask of the map that is an object's fields.
Bodied(b, v) ==
  /\ b[v][1] = "map" /\ b[v][2] > 0
  /\ \A f \in Keys(b, v) : IsStr(b[f]) /\ Segment(b[f][3])

\* audit_body_valid walks a slice; the rules look at the buffer it is cut from.
LEMMA BodyMeets ==
  ASSUME NEW b \in Seq(AnyToken), AllText(b), NEW v \in Places, v <= Len(b),
         NEW e \in Places, EndOf(b, v, 1, -1) = e
  PROVE  audit_body_valid(SubSeq(b, v, e - 1)) <=> Bodied(b, v)
<1> DEFINE s == SubSeq(b, v, e - 1)
<1>0. -1 \in Int /\ 1 \in Nat /\ 1 # 0 /\ Len(b) \in Nat /\ EndOf(b, v, 1, -1) # 0 /\ v <= Len(b) + 1
  BY DEF Places
<1>1. e > v /\ e >= v /\ e <= Len(b) + 1
  <2>1. EndOf(b, v, 1, -1) > v /\ EndOf(b, v, 1, -1) <= Len(b) + 1
    BY <1>0, NothingBad
  <2>2. QED
    BY <2>1 DEF Places
<1>2. /\ s \in Seq(AnyToken) /\ Len(s) = e - v /\ Len(s) \in Nat /\ Len(s) >= 1
      /\ \A i \in 1..(e - v) : s[i] = b[v + i - 1]
  BY <1>0, <1>1, SliceIs DEF Places
<1>3. \A i \in Places, n \in Nat : i <= e - v + 1 =>
        EndOf(s, i, n, -1) = Inside(v, e, EndOf(b, v + i - 1, n, -1))
  BY <1>0, <1>1, SliceEnds
<1> HIDE DEF s
<1>4. EndOf(s, 1, 1, -1) = Len(s) + 1
  <2>1. v + 1 - 1 = v /\ 1 <= e - v + 1
    BY <1>1 DEF Places
  <2>2. EndOf(s, 1, 1, -1) = Inside(v, e, EndOf(b, v, 1, -1))
    BY <1>0, <1>3, <2>1, TwoPlace
  <2>3. QED
    BY <1>0, <1>2, <2>2 DEF Inside, Places
<1>5. s[1] = b[v] /\ s # <<>>
  <2>1. 1 \in 1..(e - v) /\ v + 1 - 1 = v
    BY <1>1 DEF Places
  <2>2. QED
    BY <1>2, <2>1
<1>6. AllText(s)
  <2>1. \A i \in 1..Len(s) : v + i - 1 \in 1..Len(b)
    BY <1>1, <1>2 DEF Places
  <2>2. QED
    BY <1>2, <2>1, ZenonT(30) DEF AllText
<1>7. CASE b[v][1] # "map"
  <2>1. mp_map_len(s) = -1
    BY <1>5, <1>7 DEF mp_map_len
  <2>2. QED
    BY <1>7, <2>1 DEF audit_body_valid, Bodied, s
<1>8. CASE b[v][1] = "map"
  <2> DEFINE n == b[v][2]
  <2>1. OneMap(s)
    BY <1>2, <1>4, <1>5, <1>6, <1>8 DEF OneMap
  <2>2. HasPairs(s, n) /\ KeyAt(s, n + 1) = Len(s) + 1 /\ mp_map_len(s) = n /\ n \in Nat
    BY <1>5, <2>1, MapHasPairs
  <2> HIDE DEF n
  <2>3. ASSUME NEW i \in 1..n
        PROVE  LET k == EndOf(b, v + 1, 2 * (i - 1), -1)
               IN  k \in Nat /\ s[KeyAt(s, i)] = b[k]
    <3> DEFINE k == EndOf(b, v + 1, 2 * (i - 1), -1)
    <3>1. i - 1 \in Nat /\ i - 1 <= n /\ i - 1 < n /\ (i - 1) + 1 = i /\ 2 * (i - 1) \in Nat
      BY <2>2
    <3>2. KeyAt(s, i) \in Places /\ KeyAt(s, i) <= Len(s) /\ KeyAt(s, i) >= 2
      BY <2>2, <3>1, KeyPlaces, Zenon
    <3>3. 2 <= e - v + 1 /\ v + 2 - 1 = v + 1
      BY <1>1 DEF Places
    <3>4. KeyAt(s, i) = Inside(v, e, k)
      BY <1>3, <3>1, <3>3, TwoPlace DEF KeyAt
    <3>5. k \in Nat
      <4>1. v + 1 \in Places
        BY DEF Places
      <4>2. QED
        BY <1>0, <3>1, <4>1, EndOfIs, Zenon
    <3> HIDE DEF k
    <3>6. KeyAt(s, i) = k - v + 1
      BY <3>2, <3>4 DEF Inside, Places
    <3>7. KeyAt(s, i) \in 1..(e - v) /\ v + KeyAt(s, i) - 1 = k
      <4>1. KeyAt(s, i) <= e - v /\ KeyAt(s, i) \in Nat /\ v \in Nat /\ e \in Nat
        BY <1>2, <3>2 DEF Places
      <4>2. QED
        BY <3>2, <3>5, <3>6, <4>1
    <3>8. QED
      BY <1>2, <3>5, <3>7 DEF k
  <2>4. StringKeys(s, n) /\ (\A i \in 1..n : is_segment(s[KeyAt(s, i)][3]))
          <=> \A i \in 1..n : IsStr(s[KeyAt(s, i)]) /\ Segment(s[KeyAt(s, i)][3])
    <3>1. ASSUME NEW i \in 1..n, IsStr(s[KeyAt(s, i)])
          PROVE  is_segment(s[KeyAt(s, i)][3]) <=> Segment(s[KeyAt(s, i)][3])
      <4>1. i - 1 \in Nat /\ i - 1 <= n /\ i - 1 < n /\ (i - 1) + 1 = i
        BY <2>2
      <4>2. KeyAt(s, i) \in Places /\ KeyAt(s, i) <= Len(s)
        BY <2>2, <4>1, KeyPlaces, Zenon
      <4>3. s[KeyAt(s, i)] \in AnyToken
        BY <1>2, <4>2 DEF Places
      <4>4. QED
        BY <3>1, <4>3, StringIs, SegmentMeets
    <3>2. QED
      BY <3>1 DEF StringKeys
  <2>5. Keys(b, v) = {EndOf(b, v + 1, 2 * (i - 1), -1) : i \in 1..n}
    BY DEF Keys, EndOf, n
  <2>6. Bodied(b, v) <=> n > 0 /\ \A i \in 1..n : IsStr(s[KeyAt(s, i)]) /\ Segment(s[KeyAt(s, i)][3])
    BY <1>8, <2>3, <2>5 DEF Bodied, n
  <2>7. Pairs(s, n) = IF StringKeys(s, n) THEN Entries(s, n) ELSE NoPairs
    BY <1>6, <2>2, PairsMeet
  <2>8. audit_body_valid(s) <=>
          n > 0 /\ StringKeys(s, n) /\ \A i \in 1..n : is_segment(s[KeyAt(s, i)][3])
    <3>1. CASE StringKeys(s, n)
      <4>1. /\ Pairs(s, n).ok /\ Pairs(s, n).at = Len(s) + 1
            /\ \A i \in 1..n : Pairs(s, n).pairs[i].key = s[KeyAt(s, i)][3]
        BY <2>2, <2>7, <3>1 DEF Entries, Entry
      <4>2. QED
        BY <2>2, <3>1, <4>1 DEF audit_body_valid
    <3>2. CASE ~StringKeys(s, n)
      BY <2>2, <2>7, <3>2, SMTT(30) DEF audit_body_valid, NoPairs
    <3>3. QED
      BY <3>1, <3>2
  <2>9. QED
    BY <2>4, <2>6, <2>8, Zenon DEF s
<1>9. QED
  BY <1>7, <1>8 DEF s

\* What the rules ask of the value of "kind".
Named(b, k) == IsStr(b[k]) /\ Segment(b[k][3])

\* An entry the validator cut out says of the buffer what the rules ask there.
LEMMA EntryMeets ==
  ASSUME NEW b, OneMap(b), NEW i \in 1..b[1][2], IsStr(b[KeyAt(b, i)])
  PROVE  LET k == KeyAt(b, i)
             v == Entry(b, i).value
         IN  /\ Entry(b, i).key = b[k][3] /\ b[k] = Str(b[k][3])
             /\ mp_str(v, 1) /\ Len(v) = 1 /\ is_segment(v[1][3]) <=> Named(b, k + 1)
             /\ v[1] = b[k + 1]
             /\ Named(b, k + 1) => b[k + 1] = Str(b[k + 1][3])
             /\ audit_body_valid(v) <=> Bodied(b, k + 1)
<1> DEFINE n == b[1][2]
           k == KeyAt(b, i)
           e == KeyAt(b, i + 1)
           v == SubSeq(b, k + 1, e - 1)
<1>0. /\ HasPairs(b, n) /\ AllText(b) /\ n \in Nat /\ b \in Seq(AnyToken) /\ Len(b) \in Nat
      /\ -1 \in Int /\ 1 \in Nat /\ 1 # 0
  BY MapHasPairs DEF OneMap
<1>1. i - 1 \in Nat /\ i - 1 <= n /\ i - 1 < n /\ (i - 1) + 1 = i /\ (i - 1) + 2 = i + 1
  BY <1>0
<1>2. k \in Places /\ k <= Len(b) /\ e > k
  BY <1>0, <1>1, KeyPlaces
<1>3. EndOf(b, k + 1, 1, -1) = e
  BY <1>0, <1>1, KeySkipped
<1>4. e \in Places /\ e <= Len(b) + 1
  <2>1. i \in Nat /\ i <= n
    BY <1>0
  <2>2. QED
    BY <1>0, <2>1, KeyPlaces
<1> HIDE DEF n, k, e
<1>5. k + 1 \in Places /\ k + 1 < e /\ k + 1 <= Len(b) /\ k + 1 \in 1..Len(b)
  <2>1. k + 1 \in Places
    BY <1>2 DEF Places
  <2>2. EndOf(b, k + 1, 1, -1) # 0
    BY <1>3, <1>4 DEF Places
  <2>3. EndOf(b, k + 1, 1, -1) > k + 1
    BY <1>0, <2>1, <2>2, NothingBad
  <2>4. QED
    BY <1>0, <1>2, <1>3, <1>4, <2>1, <2>3 DEF Places
<1>6. b[k] \in AnyToken /\ b[k] = Str(b[k][3])
  <2>1. b[k] \in AnyToken
    BY <1>0, <1>2 DEF Places
  <2>2. QED
    BY <2>1, StringIs DEF k
<1>7. Entry(b, i).value = v /\ Entry(b, i).key = b[k][3]
  BY Zenon DEF Entry, k, e
<1>8. v \in Seq(AnyToken) /\ Len(v) = e - (k + 1) /\ v[1] = b[k + 1]
  <2>1. k + 1 <= e /\ 1 \in 1..(e - (k + 1)) /\ (k + 1) + 1 - 1 = k + 1
    BY <1>4, <1>5 DEF Places
  <2>2. QED
    BY <1>0, <1>4, <1>5, <2>1, SliceIs
<1> HIDE DEF v
<1>9. b[k + 1] \in AnyToken
  BY <1>0, <1>5
<1>10. IsStr(b[k + 1]) => Len(v) = 1 /\ mp_str(v, 1) /\ b[k + 1] = Str(b[k + 1][3])
                          /\ (is_segment(b[k + 1][3]) <=> Segment(b[k + 1][3]))
  <2> SUFFICES ASSUME IsStr(b[k + 1])
               PROVE  Len(v) = 1 /\ mp_str(v, 1) /\ b[k + 1] = Str(b[k + 1][3])
                      /\ (is_segment(b[k + 1][3]) <=> Segment(b[k + 1][3]))
    OBVIOUS
  <2>1. b[k + 1] = Str(b[k + 1][3]) /\ b[k + 1][3] \in Seq(STRING) /\ b[k + 1][2] = 0 /\ b[k + 1] # Bad
    BY <1>9, StringIs
  <2>2. value_step(b, k + 1) = 0
    BY <1>0, <1>5, <2>1 DEF value_step, IsStr, Places
  <2>3. EndOf(b, k + 1, 1, -1) = EndOf(b, (k + 1) + 1, 1 - 1 + value_step(b, k + 1), -1)
    BY <1>0, <1>5, <2>2, HeaderRead
  <2>4. EndOf(b, (k + 1) + 1, 0, -1) = (k + 1) + 1
    BY <1>0, <1>5, NoMore DEF Places
  <2>5. e = (k + 1) + 1
    BY <1>3, <2>2, <2>3, <2>4
  <2>6. Len(v) = 1
    BY <1>5, <1>8, <2>5 DEF Places
  <2>7. Utf8(b[k + 1][3])
    BY <1>0, <1>5 DEF AllText
  <2>8. mp_str(v, 1)
    <3>1. v[1] = b[k + 1]
      BY <1>8
    <3>2. IsStr(v[1]) /\ Utf8(v[1][3])
      BY <2>7, <3>1
    <3>3. QED
      BY <2>6, <3>2 DEF mp_str
  <2>9. QED
    BY <2>1, <2>6, <2>8, SegmentMeets, SMTT(30)
<1>11. mp_str(v, 1) => IsStr(b[k + 1])
  BY <1>8 DEF mp_str
<1>12. mp_str(v, 1) /\ Len(v) = 1 /\ is_segment(v[1][3]) <=> Named(b, k + 1)
  BY <1>8, <1>10, <1>11 DEF Named
<1>13. audit_body_valid(v) <=> Bodied(b, k + 1)
  BY <1>0, <1>3, <1>4, <1>5, BodyMeets DEF v
<1>14. QED
  BY <1>6, <1>7, <1>8, <1>10, <1>12, <1>13, SMTT(30) DEF k, Named

\* What the rules ask of the outer map, entry by entry.
ByIndex(b, n) ==
  \E i \in 1..n :
    /\ b[KeyAt(b, i)] = Str(KIND) /\ Named(b, KeyAt(b, i) + 1)
    /\ \A j \in (1..n) \ {i} :
         /\ b[KeyAt(b, j)] = b[KeyAt(b, i) + 1] /\ b[KeyAt(b, j)] # Str(KIND)
         /\ Bodied(b, KeyAt(b, j) + 1)

Shaped(b) ==
  /\ b[1][1] = "map" /\ b[1][2] <= 2
  /\ \E k \in Keys(b, 1) :
       /\ b[k] = Str(KIND) /\ IsStr(b[k + 1]) /\ Segment(b[k + 1][3])
       /\ \A o \in Keys(b, 1) \ {k} :
            /\ b[o] = b[k + 1] /\ b[o] # Str(KIND)
            /\ b[o + 1][1] = "map" /\ b[o + 1][2] > 0
            /\ \A f \in Keys(b, o + 1) : IsStr(b[f]) /\ Segment(b[f][3])

\* A buffer has at most two keys here, and they are at different places.
LEMMA ShapedByIndex ==
  ASSUME NEW b, OneMap(b), b[1][2] <= 2
  PROVE  Shaped(b) <=> ByIndex(b, b[1][2])
<1> DEFINE n == b[1][2]
<1>0. HasPairs(b, n) /\ n \in Nat
  BY MapHasPairs
<1>1. Keys(b, 1) = {KeyAt(b, i) : i \in 1..n}
  <2>1. 1 + 1 = 2
    OBVIOUS
  <2>2. QED
    BY <2>1 DEF Keys, KeyAt, EndOf
<1>2. ASSUME NEW i \in 1..n, NEW j \in 1..n, i # j
      PROVE  KeyAt(b, i) # KeyAt(b, j)
  <2>1. n = 2 /\ ((i = 1 /\ j = 2) \/ (i = 2 /\ j = 1))
    <3>1. n \in 0..2
      BY <1>0
    <3>2. n = 0 \/ n = 1 \/ n = 2
      BY <3>1
    <3>3. QED
      BY <1>2, <3>2
  <2>2. KeyAt(b, 0 + 1) \in Places /\ KeyAt(b, 0 + 2) > KeyAt(b, 0 + 1)
    BY <1>0, <2>1, KeyPlaces
  <2>3. KeyAt(b, 1 + 1) \in Places
    BY <1>0, <2>1, KeyPlaces
  <2>4. QED
    BY <2>1, <2>2, <2>3 DEF Places
<1> HIDE DEF n
<1>3. \A i \in 1..n : Keys(b, 1) \ {KeyAt(b, i)} = {KeyAt(b, j) : j \in (1..n) \ {i}}
  BY <1>1, <1>2
<1>4. Shaped(b) <=> \E k \in Keys(b, 1) :
                      /\ b[k] = Str(KIND) /\ Named(b, k + 1)
                      /\ \A o \in Keys(b, 1) \ {k} :
                           b[o] = b[k + 1] /\ b[o] # Str(KIND) /\ Bodied(b, o + 1)
  BY DEF Shaped, Named, Bodied, OneMap
<1>5. ByIndex(b, n) <=> \E i \in 1..n :
                      /\ b[KeyAt(b, i)] = Str(KIND) /\ Named(b, KeyAt(b, i) + 1)
                      /\ \A o \in Keys(b, 1) \ {KeyAt(b, i)} :
                           b[o] = b[KeyAt(b, i) + 1] /\ b[o] # Str(KIND) /\ Bodied(b, o + 1)
  BY <1>3 DEF ByIndex
<1>6. QED
  BY <1>1, <1>4, <1>5 DEF n

LEMMA KindIs ==
  ASSUME NEW t \in AnyToken, IsStr(t)
  PROVE  t = Str(KIND) <=> t[3] = KIND
BY StringIs DEF Str

\* audit_context_shape of a map with n entries.
ShapeOf(b, n) ==
  LET r == Pairs(b, n)
      kinds == {i \in 1..n : r.pairs[i].key = KIND}
  IN  /\ n \in 1..2
      /\ r.ok /\ r.at = Len(b) + 1
      /\ Single(kinds)
      /\ \A i \in kinds :
           LET v == r.pairs[i].value
           IN  /\ mp_str(v, 1) /\ Len(v) = 1 /\ is_segment(v[1][3])
               /\ \A j \in (1..n) \ kinds :
                    r.pairs[j].key = v[1][3] /\ audit_body_valid(r.pairs[j].value)

\* The shape test reads the number of entries off the map header (mp_map_len).
LEMMA ShapeIs ==
  ASSUME NEW b
  PROVE  audit_context_shape(b) <=> ShapeOf(b, mp_map_len(b))
BY DEF audit_context_shape, ShapeOf

\* The shape the validator looks for, on a buffer that is one value.
LEMMA ShapeMeets ==
  ASSUME NEW b, OneMap(b)
  PROVE  audit_context_shape(b) <=> Shaped(b)
<1> DEFINE n == b[1][2]
           Key(i) == b[KeyAt(b, i)][3]
           kinds == {i \in 1..n : Key(i) = KIND}
<1>0. /\ HasPairs(b, n) /\ AllText(b) /\ n \in Nat /\ mp_map_len(b) = n /\ b \in Seq(AnyToken)
      /\ KeyAt(b, n + 1) = Len(b) + 1 /\ Len(b) \in Nat
  BY MapHasPairs DEF OneMap
<1>1. Pairs(b, n) = IF StringKeys(b, n) THEN Entries(b, n) ELSE NoPairs
  BY <1>0, PairsMeet
<1>a. \A i \in 1..n : b[KeyAt(b, i)] \in AnyToken
  <2> TAKE i \in 1..n
  <2>1. i - 1 \in Nat /\ i - 1 <= n /\ i - 1 < n /\ (i - 1) + 1 = i
    BY <1>0
  <2>2. KeyAt(b, i) \in Places /\ KeyAt(b, i) <= Len(b)
    BY <1>0, <2>1, KeyPlaces
  <2>3. QED
    BY <1>0, <2>2 DEF Places
<1>b. Single(kinds) <=> \E i : kinds = {i}
  <2> HIDE DEF kinds
  <2>1. QED
    BY Zenon DEF Single
<1>3. CASE n \notin 1..2
  <2>1. ~audit_context_shape(b)
    BY <1>0, <1>3, Zenon DEF audit_context_shape
  <2>2. n > 2 \/ n = 0
    BY <1>0, <1>3
  <2>3. n = 0 => Keys(b, 1) = {}
    BY DEF Keys
  <2>4. ~Shaped(b)
    BY <1>0, <2>2, <2>3 DEF Shaped
  <2>5. QED
    BY <2>1, <2>4
<1>4. CASE n \in 1..2 /\ ~StringKeys(b, n)
  <2>1. ~audit_context_shape(b)
    BY <1>0, <1>1, <1>4 DEF audit_context_shape, NoPairs
  <2>2. Shaped(b) => FALSE
    <3> SUFFICES ASSUME Shaped(b) PROVE FALSE
      OBVIOUS
    <3>1. ByIndex(b, n)
      BY <1>4, ShapedByIndex
    <3>2. StringKeys(b, n)
      <4>1. PICK i \in 1..n :
              /\ b[KeyAt(b, i)] = Str(KIND) /\ Named(b, KeyAt(b, i) + 1)
              /\ \A j \in (1..n) \ {i} : b[KeyAt(b, j)] = b[KeyAt(b, i) + 1]
        BY <3>1 DEF ByIndex
      <4>2. IsStr(Str(KIND))
        BY DEF IsStr, Str
      <4>3. QED
        BY <4>1, <4>2 DEF StringKeys, Named
    <3>3. QED
      BY <1>4, <3>2
  <2>3. QED
    BY <2>1, <2>2, SMTT(30)
<1>5. CASE n \in 1..2 /\ StringKeys(b, n)
  <2> DEFINE v(i) == Entry(b, i).value
             Fits(i) == mp_str(v(i), 1) /\ Len(v(i)) = 1 /\ is_segment(v(i)[1][3])
  <2>1. \A i \in 1..n : IsStr(b[KeyAt(b, i)])
    BY <1>5, SMTT(30) DEF StringKeys
  <2>2. \A i \in 1..n :
           /\ Entry(b, i).key = Key(i) /\ (Fits(i) <=> Named(b, KeyAt(b, i) + 1))
           /\ v(i)[1] = b[KeyAt(b, i) + 1]
           /\ Named(b, KeyAt(b, i) + 1) => b[KeyAt(b, i) + 1] = Str(b[KeyAt(b, i) + 1][3])
           /\ audit_body_valid(v(i)) <=> Bodied(b, KeyAt(b, i) + 1)
           /\ b[KeyAt(b, i)] = Str(Key(i))
    BY <2>1, EntryMeets
  <2>3. \A i \in 1..n : b[KeyAt(b, i)] = Str(KIND) <=> Key(i) = KIND
    BY <1>a, <2>1, KindIs, SMTT(30)
  <2>4. /\ Pairs(b, n).ok /\ Pairs(b, n).at = Len(b) + 1
        /\ \A i \in 1..n : Pairs(b, n).pairs[i] = Entry(b, i)
    BY <1>0, <1>1, <1>5, SMTT(30) DEF Entries
  <2>5. audit_context_shape(b) <=>
          /\ Single(kinds)
          /\ \A i \in kinds : /\ Fits(i)
                              /\ \A j \in (1..n) \ kinds : Key(j) = v(i)[1][3] /\ audit_body_valid(v(j))
    <3>1. {i \in 1..n : Pairs(b, n).pairs[i].key = KIND} = kinds
      BY <2>2, <2>4
    <3>2. audit_context_shape(b) <=>
          /\ Single(kinds)
          /\ \A i \in kinds : /\ Fits(i)
                              /\ \A j \in (1..n) \ kinds : Pairs(b, n).pairs[j].key = v(i)[1][3] /\ audit_body_valid(v(j))
      <4> HIDE DEF kinds
      <4>1. kinds \subseteq 1..n
        BY SMTT(30) DEF kinds
      <4> DEFINE E(i) == Pairs(b, n).pairs[i]
                 K == {i \in 1..n : E(i).key = KIND}
      <4>2. audit_context_shape(b) <=>
              /\ n \in 1..2 /\ Pairs(b, n).ok /\ Pairs(b, n).at = Len(b) + 1
              /\ Single(K)
              /\ \A i \in K :
                   /\ mp_str(E(i).value, 1) /\ Len(E(i).value) = 1 /\ is_segment(E(i).value[1][3])
                   /\ \A j \in (1..n) \ K : E(j).key = E(i).value[1][3] /\ audit_body_valid(E(j).value)
        <5>1. audit_context_shape(b) <=> ShapeOf(b, n)
          BY <1>0, ShapeIs, Zenon
        <5>2. QED
          BY <5>1, Zenon DEF ShapeOf
      <4>3. K = kinds
        BY <3>1
      <4>4. \A i \in 1..n : E(i) = Entry(b, i)
        BY <2>4
      <4> HIDE DEF E, K, n
      <4>5. \A i \in kinds : E(i) = Entry(b, i)
        BY <4>1, <4>4, SMTT(30)
      <4>6. audit_context_shape(b) <=>
              /\ Single(kinds)
              /\ \A i \in kinds :
                   /\ mp_str(E(i).value, 1) /\ Len(E(i).value) = 1 /\ is_segment(E(i).value[1][3])
                   /\ \A j \in (1..n) \ kinds : E(j).key = E(i).value[1][3] /\ audit_body_valid(E(j).value)
        BY <1>5, <2>4, <4>2, <4>3, SMTT(30) DEF n
      <4>7. QED
        BY <4>4, <4>5, <4>6, Zenon DEF E
    <3>3. \A j \in 1..n : Pairs(b, n).pairs[j].key = Key(j)
      BY <2>2, <2>4, Zenon
    <3>4. \A j \in (1..n) \ kinds : Pairs(b, n).pairs[j].key = Key(j)
      BY <3>3, Zenon
    <3>5. QED
      BY <3>2, <3>4, Zenon
  <2>6. audit_context_shape(b) <=>
          /\ Single(kinds)
          /\ \A i \in kinds :
               /\ Named(b, KeyAt(b, i) + 1)
               /\ \A j \in (1..n) \ kinds : b[KeyAt(b, j)] = b[KeyAt(b, i) + 1] /\ Bodied(b, KeyAt(b, j) + 1)
    <3>1. ASSUME NEW i \in 1..n, NEW j \in 1..n, Named(b, KeyAt(b, i) + 1)
          PROVE  Key(j) = v(i)[1][3] <=> b[KeyAt(b, j)] = b[KeyAt(b, i) + 1]
      <4>1. /\ b[KeyAt(b, j)] = Str(Key(j)) /\ v(i)[1] = b[KeyAt(b, i) + 1]
            /\ b[KeyAt(b, i) + 1] = Str(b[KeyAt(b, i) + 1][3])
        BY <2>2, <3>1, SMTT(30)
      <4>2. QED
        BY <4>1, SMTT(30) DEF Str
    <3> HIDE DEF Key, v, Fits
    <3>2. QED
      BY <2>2, <2>5, <3>1, SMTT(30)
  <2>7. ByIndex(b, n) <=> \E i \in 1..n :
          /\ Key(i) = KIND /\ Named(b, KeyAt(b, i) + 1)
          /\ \A j \in (1..n) \ {i} :
               /\ b[KeyAt(b, j)] = b[KeyAt(b, i) + 1] /\ Key(j) # KIND
               /\ Bodied(b, KeyAt(b, j) + 1)
    BY <2>3 DEF ByIndex
  <2>8. audit_context_shape(b) <=> ByIndex(b, n)
    <3>1. ASSUME audit_context_shape(b) PROVE ByIndex(b, n)
      <4>0. Single(kinds)
        BY <2>6, <3>1, Zenon
      <4>1. PICK i : kinds = {i}
        BY <1>b, <4>0, Zenon
      <4>2. i \in 1..n /\ Key(i) = KIND
        BY <4>1
      <4>3. \A j \in (1..n) \ {i} : Key(j) # KIND /\ j \in (1..n) \ kinds
        BY <4>1
      <4> HIDE DEF Key, kinds
      <4>4. QED
        BY <2>6, <2>7, <3>1, <4>1, <4>2, <4>3, SMTT(30)
    <3>2. ASSUME ByIndex(b, n) PROVE audit_context_shape(b)
      <4>1. PICK i \in 1..n :
              /\ Key(i) = KIND /\ Named(b, KeyAt(b, i) + 1)
              /\ \A j \in (1..n) \ {i} :
                   /\ b[KeyAt(b, j)] = b[KeyAt(b, i) + 1] /\ Key(j) # KIND
                   /\ Bodied(b, KeyAt(b, j) + 1)
        BY <2>7, <3>2, SMTT(30)
      <4>2. kinds = {i}
        BY <4>1
      <4> HIDE DEF Key, kinds
      <4>3. QED
        BY <1>b, <2>6, <4>1, <4>2, SMTT(30)
    <3>3. QED
      BY <3>1, <3>2, SMTT(30)
  <2>9. QED
    BY <1>5, <2>8, ShapedByIndex
<1>6. QED
  BY <1>3, <1>4, <1>5

\* ToValidate changes nothing of a buffer that is one value.
LEMMA ValidatedIs ==
  ASSUME NEW b \in Seq(AnyToken), NEW d \in Nat
  PROVE  /\ ToValidate(b) \in Seq(AnyToken) /\ Len(ToValidate(b)) = Len(b)
         /\ OneValue(ToValidate(b), d) =>
              b # <<>> /\ ToValidate(b) = b /\ AllText(b) /\ EndOf(b, 1, 1, -1) = Len(b) + 1
<1> DEFINE t == ToValidate(b)
<1>0. Len(b) \in Nat /\ -1 \in Int /\ d \in Int /\ 1 \in Nat /\ 1 # 0
  OBVIOUS
<1>1. t \in Seq(AnyToken) /\ Len(t) = Len(b)
      /\ \A i \in 1..Len(b) : t[i] = IF IsStr(b[i]) /\ ~Utf8(b[i][3]) THEN Bad ELSE b[i]
  <2>1. \A i \in 1..Len(b) : (IF IsStr(b[i]) /\ ~Utf8(b[i][3]) THEN Bad ELSE b[i]) \in AnyToken
    BY DEF AnyToken
  <2>2. QED
    BY <1>0, <2>1 DEF ToValidate
<1> HIDE DEF t
<1>2. ASSUME OneValue(t, d)
      PROVE  b # <<>> /\ t = b /\ AllText(b) /\ EndOf(b, 1, 1, -1) = Len(b) + 1
  <2>1. EndOf(t, 1, 1, d) = Len(t) + 1 /\ EndOf(t, 1, 1, d) # 0
    BY <1>0, <1>1, <1>2 DEF OneValue, EndOf
  <2>2. EndOf(t, 1, 1, -1) = Len(t) + 1 /\ EndOf(t, 1, 1, -1) # 0
    BY <1>0, <1>1, <2>1, TwoPlace, LimitKept, SMTT(30)
  <2>3. \A k \in Places : 1 <= k /\ k < Len(t) + 1 => value_step(t, k) # -1
    BY <1>1, <1>0, <2>2, TwoPlace, NothingBad, SMTT(30)
  <2>4. ASSUME NEW k \in 1..Len(b)
        PROVE  t[k] # Bad /\ t[k] = b[k] /\ (IsStr(b[k]) => Utf8(b[k][3]))
    <3>1. value_step(t, k) # -1
      BY <1>0, <1>1, <2>3 DEF Places
    <3>2. t[k] # Bad
      BY <3>1 DEF value_step
    <3>3. QED
      BY <1>1, <3>2
  <2>5. t = b
    BY <1>1, <2>4
  <2>6. AllText(b)
    BY <2>4 DEF AllText
  <2>7. EndOf(t, 1, 1, -1) > 1
    BY <1>0, <1>1, <2>2, TwoPlace, NothingBad, SMTT(30)
  <2>8. QED
    BY <1>0, <1>1, <2>2, <2>5, <2>6, <2>7, SMTT(30)
<1>3. QED
  BY <1>1, <1>2 DEF t

\* audit_context_valid is the kernel's rules.
LEMMA ValidatorMeets ==
  ASSUME NEW b \in Seq(AnyToken)
  PROVE  audit_context_valid(b) <=> Rules(b)
<1> DEFINE d == AUDIT_CONTEXT_MAX_DEPTH
           t == ToValidate(b)
<1>0. d \in Nat /\ d # 0 /\ d <= MAX_DEPTH
  BY AuditAssumption, MsgpackAssumption
<1>1. t \in Seq(AnyToken)
  BY <1>0, ValidatedIs
<1>2. validate(t, d) <=> OneValue(t, d)
  BY <1>0, <1>1, ValidateMeets, SMTT(30) DEF OneValue, EndOf
<1>3. Rules(b) <=> /\ b # <<>> /\ BytesFrom(b, 1) <= AUDIT_CONTEXT_MAX_LEN
                   /\ OneValue(t, d) /\ Shaped(b)
  BY DEF Rules, Shaped
<1>4. audit_context_valid(b) <=> /\ b # <<>> /\ BytesFrom(b, 1) <= AUDIT_CONTEXT_MAX_LEN
                                 /\ audit_context_shape(b) /\ validate(t, d)
  BY DEF audit_context_valid
<1> HIDE DEF t
<1>5. ASSUME OneValue(t, d)
      PROVE  audit_context_shape(b) <=> Shaped(b)
  <2>1. b # <<>> /\ AllText(b) /\ EndOf(b, 1, 1, -1) = Len(b) + 1
    BY <1>0, <1>5, ValidatedIs DEF t
  <2>2. CASE b[1][1] = "map"
    BY <2>1, <2>2, ShapeMeets, SMTT(30) DEF OneMap
  <2>3. CASE b[1][1] # "map"
    <3>1. mp_map_len(b) = -1
      BY <2>3 DEF mp_map_len
    <3>2. QED
      BY <2>3, <3>1 DEF audit_context_shape, Shaped
  <2>4. QED
    BY <2>2, <2>3
<1>6. QED
  BY <1>2, <1>3, <1>4, <1>5

-----------------------------------------------------------------------------
(* What the encoder writes. *)

FieldSet == [key : Seq(STRING), value_type : STRING, payload : Seq(STRING)]
Asked(kind, fields) == kind \in Seq(STRING) /\ fields \in Seq(FieldSet)

LEMMA StrType ==
  ASSUME NEW s \in Seq(STRING)
  PROVE  /\ Str(s) \in AnyToken /\ IsStr(Str(s)) /\ Str(s)[3] = s /\ Str(s)[2] = 0 /\ Str(s) # Bad
         /\ ByteSize(Str(s)) = 1 + Len(s)
BY DEF AnyToken, Str, IsStr, Bad, ByteSize

LEMMA KindType == KIND \in Seq(STRING)
<1>1. "kind" \in STRING
  BY AuditAssumption, SMTT(30)
<1>2. QED
  BY <1>1 DEF KIND

LEMMA ValueType ==
  ASSUME NEW f \in FieldSet
  PROVE  /\ FieldValue(f) \in AnyToken
         /\ value_ok(f) => FieldValue(f) # Bad /\ FieldValue(f)[1] # "map" /\ FieldValue(f)[2] = 0
<1>1. CASE f.value_type \notin ValueTypes
  BY <1>1 DEF FieldValue, AnyToken, value_ok
<1>2. CASE f.value_type \in ValueTypes
  <2> DEFINE k == IF f.value_type = "uint" THEN "int" ELSE f.value_type
  <2>1. k \in {"int", "bool", "str", "bin"} /\ f.payload \in Seq(STRING)
    BY <1>2 DEF ValueTypes, FieldSet
  <2>2. FieldValue(f) = <<k, 0, f.payload>>
    BY <1>2 DEF FieldValue
  <2> HIDE DEF k
  <2>3. QED
    BY <2>1, <2>2 DEF AnyToken, Bad
<1>3. QED
  BY <1>1, <1>2

\* Keys stand at odd places, values at even ones.
LEMMA OddEven ==
  ASSUME NEW m \in Nat
  PROVE  /\ \A i \in 1..(2 * m) : /\ i % 2 = 1 => (i + 1) \div 2 \in 1..m
                                  /\ i % 2 # 1 => i \div 2 \in 1..m
         /\ \A i \in 1..m : /\ 2 * i - 1 \in 1..(2 * m) /\ 2 * i \in 1..(2 * m)
                            /\ (2 * i - 1) % 2 = 1 /\ (2 * i) % 2 # 1
                            /\ ((2 * i - 1) + 1) \div 2 = i /\ (2 * i) \div 2 = i
OBVIOUS

Pairwise(fields, m) ==
  [i \in 1..(2 * m) |-> IF i % 2 = 1 THEN Str(fields[(i + 1) \div 2].key)
                        ELSE FieldValue(fields[i \div 2])]

LEMMA PairwiseIs ==
  ASSUME NEW fields \in Seq(FieldSet), NEW m \in 0..Len(fields)
  PROVE  /\ Pairwise(fields, m) \in Seq(AnyToken) /\ Len(Pairwise(fields, m)) = 2 * m
         /\ \A i \in 1..m : /\ Pairwise(fields, m)[2 * i - 1] = Str(fields[i].key)
                            /\ Pairwise(fields, m)[2 * i] = FieldValue(fields[i])
<1>0. m \in Nat /\ 2 * m \in Nat /\ \A i \in 1..m : i \in 1..Len(fields)
  OBVIOUS
<1>1. \A i \in 1..Len(fields) : fields[i] \in FieldSet
  OBVIOUS
<1>2. \A i \in 1..m : Str(fields[i].key) \in AnyToken /\ FieldValue(fields[i]) \in AnyToken
  <2> TAKE i \in 1..m
  <2>1. fields[i] \in FieldSet
    BY <1>0, <1>1
  <2>2. fields[i].key \in Seq(STRING)
    BY <2>1 DEF FieldSet
  <2>3. QED
    BY <2>1, <2>2, StrType, ValueType
<1>3. ASSUME NEW i \in 1..(2 * m)
      PROVE  Pairwise(fields, m)[i] \in AnyToken
  <2>1. CASE i % 2 = 1
    <3>1. (i + 1) \div 2 \in 1..m
      BY <1>0, <2>1, OddEven
    <3>2. QED
      BY <1>2, <2>1, <3>1 DEF Pairwise
  <2>2. CASE i % 2 # 1
    <3>1. i \div 2 \in 1..m
      BY <1>0, <2>2, OddEven
    <3>2. QED
      BY <1>2, <2>2, <3>1 DEF Pairwise
  <2>3. QED
    BY <2>1, <2>2
<1>4. Pairwise(fields, m) = [i \in 1..(2 * m) |-> Pairwise(fields, m)[i]]
  BY DEF Pairwise
<1>5. Pairwise(fields, m) \in Seq(AnyToken) /\ Len(Pairwise(fields, m)) = 2 * m
  BY <1>0, <1>3, <1>4
<1>6. ASSUME NEW i \in 1..m
      PROVE  /\ Pairwise(fields, m)[2 * i - 1] = Str(fields[i].key)
             /\ Pairwise(fields, m)[2 * i] = FieldValue(fields[i])
  <2>1. /\ 2 * i - 1 \in 1..(2 * m) /\ 2 * i \in 1..(2 * m)
        /\ (2 * i - 1) % 2 = 1 /\ (2 * i) % 2 # 1
        /\ ((2 * i - 1) + 1) \div 2 = i /\ (2 * i) \div 2 = i
    BY <1>0, OddEven
  <2>2. Pairwise(fields, m)[2 * i - 1] = Str(fields[((2 * i - 1) + 1) \div 2].key)
    BY <2>1 DEF Pairwise
  <2>3. Pairwise(fields, m)[2 * i] = FieldValue(fields[(2 * i) \div 2])
    BY <2>1 DEF Pairwise
  <2>4. QED
    BY <2>1, <2>2, <2>3
<1>7. QED
  BY <1>5, <1>6

\* The context with fields: two entries, then the fields' keys and values.
WrittenSo(b, kind, fields, m) ==
  /\ b \in Seq(AnyToken) /\ Len(b) = 5 + 2 * m
  /\ b[1] = <<"map", 2>> /\ b[2] = Str(KIND) /\ b[3] = Str(kind) /\ b[4] = Str(kind)
  /\ b[5] = <<"map", Len(fields)>>
  /\ \A i \in 1..m : b[4 + 2 * i] = Str(fields[i].key) /\ b[5 + 2 * i] = FieldValue(fields[i])

LEMMA WrittenIs ==
  ASSUME NEW kind, NEW fields, Asked(kind, fields), fields # <<>>, NEW m \in 0..Len(fields)
  PROVE  WrittenSo(Written(kind, fields, m), kind, fields, m)
<1> DEFINE h == <<<<"map", 2>>, Str(KIND), Str(kind), Str(kind), <<"map", Len(fields)>>>>
           t == Pairwise(fields, m)
<1>0. kind \in Seq(STRING) /\ fields \in Seq(FieldSet) /\ Len(fields) \in Nat /\ m \in Nat
  BY DEF Asked
<1>1. Written(kind, fields, m) = h \o t
  BY DEF Written, Pairwise
<1>2. <<"map", 2>> \in AnyToken /\ <<"map", Len(fields)>> \in AnyToken
  BY <1>0 DEF AnyToken
<1>3. Str(KIND) \in AnyToken /\ Str(kind) \in AnyToken
  BY <1>0, KindType, StrType
<1>4. h \in Seq(AnyToken) /\ Len(h) = 5
  BY <1>2, <1>3
<1>5. h[1] = <<"map", 2>> /\ h[2] = Str(KIND) /\ h[3] = Str(kind) /\ h[4] = Str(kind)
      /\ h[5] = <<"map", Len(fields)>>
  OBVIOUS
<1>6. /\ t \in Seq(AnyToken) /\ Len(t) = 2 * m
      /\ \A i \in 1..m : t[2 * i - 1] = Str(fields[i].key) /\ t[2 * i] = FieldValue(fields[i])
  BY <1>0, PairwiseIs
<1> HIDE DEF h, t
<1>a. /\ h \o t \in Seq(AnyToken) /\ Len(h \o t) = Len(h) + Len(t)
      /\ \A i \in 1..(Len(h) + Len(t)) : (h \o t)[i] = IF i <= Len(h) THEN h[i] ELSE t[i - Len(h)]
  BY <1>4, <1>6, Joined, Zenon
<1>7. h \o t \in Seq(AnyToken) /\ Len(h \o t) = 5 + 2 * m
  BY <1>4, <1>6, <1>a
<1>8. \A i \in 1..(5 + 2 * m) : (h \o t)[i] = IF i <= 5 THEN h[i] ELSE t[i - 5]
  BY <1>4, <1>6, <1>a
<1>9. \A i \in 1..m : (h \o t)[4 + 2 * i] = t[2 * i - 1] /\ (h \o t)[5 + 2 * i] = t[2 * i]
  <2> TAKE i \in 1..m
  <2>1. /\ 4 + 2 * i \in 1..(5 + 2 * m) /\ ~(4 + 2 * i <= 5) /\ (4 + 2 * i) - 5 = 2 * i - 1
        /\ 5 + 2 * i \in 1..(5 + 2 * m) /\ ~(5 + 2 * i <= 5) /\ (5 + 2 * i) - 5 = 2 * i
    BY <1>0
  <2>2. QED
    BY <1>8, <2>1, Zenon
<1>10. \A i \in 1..5 : (h \o t)[i] = h[i]
  <2> TAKE i \in 1..5
  <2>1. i \in 1..(5 + 2 * m) /\ i <= 5
    BY <1>0
  <2>2. QED
    BY <1>8, <2>1, Zenon
<1> DEFINE b == h \o t
<1>11. b[1] = h[1] /\ b[2] = h[2] /\ b[3] = h[3] /\ b[4] = h[4] /\ b[5] = h[5]
  <2>1. 1 \in 1..5 /\ 2 \in 1..5 /\ 3 \in 1..5 /\ 4 \in 1..5 /\ 5 \in 1..5
    OBVIOUS
  <2>2. QED
    BY <1>10, <2>1, Zenon
<1>12. \A i \in 1..m : b[4 + 2 * i] = Str(fields[i].key) /\ b[5 + 2 * i] = FieldValue(fields[i])
  BY <1>6, <1>9, Zenon
<1>13. b \in Seq(AnyToken) /\ Len(b) = 5 + 2 * m
  BY <1>7
<1> HIDE DEF b
<1>14. WrittenSo(b, kind, fields, m)
  BY <1>5, <1>11, <1>12, <1>13 DEF WrittenSo
<1>15. QED
  BY <1>1, <1>14 DEF b

-----------------------------------------------------------------------------
(* Its size and where its values are. *)

LEMMA BytesShrink ==
  ASSUME NEW b \in Seq(AnyToken)
  PROVE  \A p \in Places, q \in Places : p <= q => BytesFrom(b, q) <= BytesFrom(b, p)
<1> DEFINE S == {p \in Places : \A q \in Places : p <= q => BytesFrom(b, q) <= BytesFrom(b, p)}
<1>1. ASSUME NEW p \in Places, p <= Len(b) => \A q \in Places : q > p => q \in S
      PROVE  p \in S
  <2> SUFFICES ASSUME NEW q \in Places, p <= q
               PROVE  BytesFrom(b, q) <= BytesFrom(b, p)
    OBVIOUS
  <2>0. BytesFrom(b, q) \in Nat /\ BytesFrom(b, p) \in Nat
    BY BytesType
  <2>1. CASE p = q
    BY <2>0, <2>1
  <2>2. CASE p > Len(b)
    <3>1. q > Len(b)
      BY <2>2 DEF Places
    <3>2. QED
      BY <2>2, <3>1, BytesStep
  <2>3. CASE p # q /\ p <= Len(b)
    <3>1. p + 1 \in S /\ p + 1 <= q /\ p + 1 \in Places /\ b[p] \in AnyToken
      BY <1>1, <2>3 DEF Places
    <3>2. BytesFrom(b, q) <= BytesFrom(b, p + 1)
      BY <3>1
    <3>3. BytesFrom(b, p) = ByteSize(b[p]) + BytesFrom(b, p + 1)
      BY <2>3, BytesStep DEF Places
    <3>4. BytesFrom(b, p + 1) \in Nat
      BY <3>1, BytesType
    <3>5. QED
      BY <2>0, <3>1, <3>2, <3>3, <3>4, SizeType, SMTT(30)
  <2>4. QED
    BY <2>1, <2>2, <2>3 DEF Places
<1>2. Places \subseteq S
  <2> HIDE DEF S
  <2>1. QED
    BY <1>1, Backwards, SMTT(30)
<1>3. QED
  BY <1>2

\* A value is not longer than the buffer it is in.
LEMMA ValueFits ==
  ASSUME NEW b \in Seq(AnyToken), NEW p \in 1..Len(b)
  PROVE  ByteSize(b[p]) <= BytesFrom(b, 1)
<1>1. p \in Places /\ 1 \in Places /\ p + 1 \in Places /\ 1 <= p /\ p <= Len(b) /\ b[p] \in AnyToken
  BY DEF Places
<1>2. BytesFrom(b, p) = ByteSize(b[p]) + BytesFrom(b, p + 1)
  BY <1>1, BytesStep DEF Places
<1>3. BytesFrom(b, p) <= BytesFrom(b, 1)
  BY <1>1, BytesShrink
<1>4. BytesFrom(b, p + 1) \in Nat /\ BytesFrom(b, 1) \in Nat /\ ByteSize(b[p]) \in Nat
  BY <1>1, BytesType, SizeType
<1>5. QED
  BY <1>2, <1>3, <1>4

\* Nor is what had been written before the rest of it was.
LEMMA PrefixFits ==
  ASSUME NEW b \in Seq(AnyToken), NEW c \in Seq(AnyToken), Len(b) <= Len(c),
         \A i \in 1..Len(b) : b[i] = c[i]
  PROVE  BytesFrom(b, 1) <= BytesFrom(c, 1)
<1> DEFINE S == {p \in Places : BytesFrom(b, p) <= BytesFrom(c, p)}
<1>1. ASSUME NEW p \in Places, p <= Len(b) => \A q \in Places : q > p => q \in S
      PROVE  p \in S
  <2>0. BytesFrom(b, p) \in Nat /\ BytesFrom(c, p) \in Nat /\ Len(b) \in Nat /\ Len(c) \in Nat
    BY BytesType
  <2>1. CASE p > Len(b)
    <3>1. BytesFrom(b, p) = 0
      BY <2>1, BytesStep
    <3>2. QED
      BY <2>0, <3>1
  <2>2. CASE p <= Len(b)
    <3>1. p + 1 \in S /\ p + 1 \in Places /\ p \in 1..Len(b) /\ p <= Len(c)
      BY <1>1, <2>0, <2>2 DEF Places
    <3>2. b[p] = c[p] /\ c[p] \in AnyToken
      BY <3>1
    <3>3. BytesFrom(b, p) = ByteSize(b[p]) + BytesFrom(b, p + 1)
      BY <2>0, <2>2, BytesStep DEF Places
    <3>4. BytesFrom(c, p) = ByteSize(c[p]) + BytesFrom(c, p + 1)
      BY <2>0, <3>1, BytesStep DEF Places
    <3>5. BytesFrom(b, p + 1) \in Nat /\ BytesFrom(c, p + 1) \in Nat /\ ByteSize(c[p]) \in Nat
      BY <3>1, <3>2, BytesType, SizeType
    <3>6. QED
      BY <3>1, <3>2, <3>3, <3>4, <3>5, SMTT(30)
  <2>3. QED
    BY <2>0, <2>1, <2>2 DEF Places
<1>2. Places \subseteq S
  <2> HIDE DEF S
  <2>1. QED
    BY <1>1, Backwards
<1>3. QED
  BY <1>2, TwoPlace

\* Two values without children are two places.
LEMMA TwoLeaves ==
  ASSUME NEW b \in Seq(AnyToken), NEW p \in Places, value_step(b, p) = 0, value_step(b, p + 1) = 0
  PROVE  EndOf(b, p, 2, -1) = p + 2
<1>0. -1 \in Int /\ 2 \in Nat /\ 2 # 0 /\ 1 \in Nat /\ 1 # 0 /\ 0 \in Nat /\ 0 # -1
      /\ p + 1 \in Places /\ p + 2 \in Places /\ (p + 1) + 1 = p + 2
  BY DEF Places
<1>1. EndOf(b, p, 2, -1) = EndOf(b, p + 1, 2 - 1 + 0, -1)
  BY <1>0, HeaderRead
<1>2. EndOf(b, p + 1, 1, -1) = EndOf(b, p + 2, 1 - 1 + 0, -1)
  BY <1>0, HeaderRead
<1>3. EndOf(b, p + 2, 0, -1) = p + 2
  BY <1>0, NoMore
<1>4. QED
  BY <1>1, <1>2, <1>3

LEMMA LeafStep ==
  ASSUME NEW b \in Seq(AnyToken), NEW p \in 1..Len(b), b[p] # Bad, b[p][2] = 0
  PROVE  value_step(b, p) = 0
BY DEF value_step

\* With no fields missing, the keys of the inner map are at every second place.
LEMMA InnerKeys ==
  ASSUME NEW kind, NEW fields, Asked(kind, fields), NEW b, WrittenSo(b, kind, fields, Len(fields)),
         \A i \in 1..Len(fields) : value_ok(fields[i])
  PROVE  Keys(b, 5) = {4 + 2 * i : i \in 1..Len(fields)}
<1> DEFINE n == Len(fields)
           S == {i \in Nat : i <= n => EndOf(b, 6, 2 * i, -1) = 6 + 2 * i}
<1>0. /\ b \in Seq(AnyToken) /\ Len(b) = 5 + 2 * n /\ n \in Nat /\ -1 \in Int /\ 6 \in Places
      /\ fields \in Seq(FieldSet) /\ b[5] = <<"map", n>>
      /\ \A i \in 1..n : b[4 + 2 * i] = Str(fields[i].key) /\ b[5 + 2 * i] = FieldValue(fields[i])
  BY DEF WrittenSo, Asked, Places
<1>1. 0 \in S
  <2>1. EndOf(b, 6, 0, -1) = 6
    BY <1>0, NoMore
  <2>2. QED
    BY <2>1
<1>2. ASSUME NEW i \in Nat, i \in S
      PROVE  i + 1 \in S
  <2> SUFFICES ASSUME i + 1 <= n
               PROVE  EndOf(b, 6, 2 * (i + 1), -1) = 6 + 2 * (i + 1)
    OBVIOUS
  <2> DEFINE j == i + 1
             p == 6 + 2 * i
  <2>1. /\ j \in 1..n /\ p = 4 + 2 * j /\ p + 1 = 5 + 2 * j /\ p \in 1..Len(b) /\ p + 1 \in 1..Len(b)
        /\ p \in Places /\ p # 0 /\ 2 * (i + 1) = 2 * i + 2 /\ 2 * i \in Nat /\ 6 + 2 * (i + 1) = p + 2
    BY <1>0, SMTT(30) DEF Places
  <2>2. fields[j] \in FieldSet /\ value_ok(fields[j])
    BY <1>0, <2>1
  <2>3. fields[j].key \in Seq(STRING)
    BY <2>2, SMTT(30) DEF FieldSet
  <2>4. b[p] # Bad /\ b[p][2] = 0
    BY <1>0, <2>1, <2>3, StrType, SMTT(30)
  <2>5. b[p + 1] # Bad /\ b[p + 1][2] = 0
    BY <1>0, <2>1, <2>2, ValueType, Zenon
  <2> HIDE DEF j, p
  <2>6. value_step(b, p) = 0 /\ value_step(b, p + 1) = 0
    BY <1>0, <2>1, <2>4, <2>5, LeafStep, Zenon
  <2>7. EndOf(b, p, 2, -1) = p + 2
    BY <1>0, <2>1, <2>6, TwoLeaves, SMTT(30)
  <2>8. EndOf(b, 6, 2 * i, -1) = p
    BY <1>0, <1>2, SMTT(30) DEF p
  <2>9. EndOf(b, 6, 2 * i + 2, -1) = EndOf(b, p, 2, -1)
    <3>1. PICK q \in Places, m, two \in Nat : q = 6 /\ m = 2 * i /\ two = 2
      BY <1>0, <2>1
    <3>2. EndOf(b, 6, 2 * i + 2, -1) = After(b, EndOf(b, 6, 2 * i, -1), 2, -1)
      <4>1. PICK d \in Int : d = -1
        OBVIOUS
      <4>2. EndOf(b, q, m + two, d) = After(b, EndOf(b, q, m, d), two, d)
        BY <1>0, InARow, Zenon
      <4>3. QED
        BY <3>1, <4>1, <4>2, Zenon
    <3>3. QED
      BY <2>1, <2>8, <3>2 DEF After
  <2>10. QED
    BY <2>1, <2>7, <2>9
<1>3. Nat \subseteq S
  <2> HIDE DEF S
  <2>1. QED
    BY <1>1, <1>2, Induction
<1>4. ASSUME NEW i \in 1..n
      PROVE  Ends(b)[5 + 1][2 * (i - 1)][-1] = 4 + 2 * i
  <2>1. i - 1 \in Nat /\ i - 1 <= n /\ 6 + 2 * (i - 1) = 4 + 2 * i /\ 5 + 1 = 6
    BY <1>0
  <2>2. i - 1 \in S
    BY <1>3, <2>1, Zenon
  <2>3. QED
    BY <2>1, <2>2 DEF EndOf
<1>5. Keys(b, 5) = {Ends(b)[5 + 1][2 * (i - 1)][-1] : i \in 1..n}
  BY <1>0 DEF Keys
<1> HIDE DEF S
<1>6. QED
  BY <1>4, <1>5, SMTT(30)

\* The outer map has two keys, "kind" and the kind.
LEMMA OuterKeys ==
  ASSUME NEW kind, NEW fields, Asked(kind, fields), NEW b, NEW m \in 0..Len(fields),
         WrittenSo(b, kind, fields, m)
  PROVE  Keys(b, 1) = {2, 4}
<1>0. /\ b \in Seq(AnyToken) /\ Len(b) = 5 + 2 * m /\ m \in Nat /\ -1 \in Int
      /\ kind \in Seq(STRING) /\ b[1] = <<"map", 2>> /\ b[2] = Str(KIND) /\ b[3] = Str(kind)
  BY DEF WrittenSo, Asked
<1>1. b[2] # Bad /\ b[2][2] = 0 /\ b[3] # Bad /\ b[3][2] = 0 /\ 2 \in 1..Len(b) /\ 3 \in 1..Len(b)
  BY <1>0, KindType, StrType, SMTT(30)
<1>2. value_step(b, 2) = 0 /\ value_step(b, 2 + 1) = 0
  BY <1>0, <1>1, LeafStep
<1>3. EndOf(b, 2, 2, -1) = 4
  <2>1. EndOf(b, 2, 2, -1) = 2 + 2
    BY <1>0, <1>2, TwoPlace, TwoLeaves, SMTT(30)
  <2>2. QED
    BY <2>1
<1>4. EndOf(b, 2, 0, -1) = 2
  BY <1>0, TwoPlace, NoMore, SMTT(30)
<1>5. Keys(b, 1) = {Ends(b)[1 + 1][2 * (i - 1)][-1] : i \in 1..2}
  BY <1>0 DEF Keys
<1>6. Ends(b)[1 + 1][2 * (1 - 1)][-1] = 2 /\ Ends(b)[1 + 1][2 * (2 - 1)][-1] = 4
  <2>1. 1 + 1 = 2 /\ 2 * (1 - 1) = 0 /\ 2 * (2 - 1) = 2
    OBVIOUS
  <2>2. QED
    BY <1>3, <1>4, <2>1 DEF EndOf
<1>7. 1..2 = {1, 2}
  OBVIOUS
<1>8. QED
  BY <1>5, <1>6, <1>7, SMTT(30)

-----------------------------------------------------------------------------
(* The encoder against its rules. *)

\* Each name is compared with those before it only.
LEMMA NoRepeats ==
  ASSUME NEW fields \in Seq(FieldSet)
  PROVE  Apart(fields) <=> \A i \in 1..Len(fields) : \A j \in 1..(i - 1) : fields[j].key # fields[i].key
<1> DEFINE n == Len(fields)
           f == [i \in 1..n |-> fields[i].key]
<1>1. n \in Nat
  OBVIOUS
<1>5. Apart(fields) <=> \A i, j \in 1..n : f[i] = f[j] => i = j
  BY Zenon DEF Apart
<1>6. (\A i, j \in 1..n : f[i] = f[j] => i = j)
        <=> \A i \in 1..n : \A j \in 1..(i - 1) : f[j] # f[i]
  <2>1. ASSUME \A i, j \in 1..n : f[i] = f[j] => i = j, NEW i \in 1..n, NEW j \in 1..(i - 1)
        PROVE  f[j] # f[i]
    <3>1. j \in 1..n /\ j # i
      BY <1>1, <2>1
    <3>2. QED
      BY <2>1, <3>1
  <2>2. ASSUME \A i \in 1..n : \A j \in 1..(i - 1) : f[j] # f[i],
               NEW i \in 1..n, NEW j \in 1..n, f[i] = f[j], i # j
        PROVE  FALSE
    <3>1. j \in 1..(i - 1) \/ i \in 1..(j - 1)
      BY <1>1, <2>2
    <3> HIDE DEF f
    <3>2. QED
      BY <2>2, <3>1
  <2>3. QED
    BY <2>1, <2>2, Zenon
<1>7. \A i \in 1..n : f[i] = fields[i].key
  OBVIOUS
<1>8. \A i \in 1..n : \A j \in 1..(i - 1) : j \in 1..n
  BY <1>1
<1> HIDE DEF f, n
<1>9. (\A i \in 1..n : \A j \in 1..(i - 1) : f[j] # f[i])
        <=> \A i \in 1..n : \A j \in 1..(i - 1) : fields[j].key # fields[i].key
  BY <1>7, <1>8
<1>10. QED
  BY <1>5, <1>6, <1>9, SMTT(30) DEF n

LEMMA FieldKey ==
  ASSUME NEW fields \in Seq(FieldSet)
  PROVE  \A i \in 1..Len(fields) : fields[i].key \in Seq(STRING)
<1>1. \A i \in 1..Len(fields) : fields[i] \in FieldSet
  OBVIOUS
<1>2. \A f \in FieldSet : f.key \in Seq(STRING)
  BY DEF FieldSet
<1>3. QED
  BY <1>1, <1>2

Accepted(kind, fields) ==
  /\ segment_arg(kind)
  /\ \A i \in 1..Len(fields) :
       /\ segment_arg(fields[i].key) /\ value_ok(fields[i])
       /\ \A j \in 1..(i - 1) : fields[j].key # fields[i].key
       /\ BytesFrom(Written(kind, fields, i), 1) <= AUDIT_CONTEXT_MAX_LEN
  /\ fields = <<>> \/ audit_context_valid(Written(kind, fields, Len(fields)))

LEMMA EncodedIs ==
  ASSUME NEW kind, NEW fields, Asked(kind, fields)
  PROVE  /\ encode_audit_context(kind, fields) =
              IF Accepted(kind, fields) THEN Written(kind, fields, Len(fields)) ELSE Refused
         /\ Written(kind, fields, Len(fields)) # Refused
         /\ encode_audit_context(kind, fields) \in Seq(AnyToken)
<1> DEFINE all == Written(kind, fields, Len(fields))
<1>1. encode_audit_context(kind, fields) = IF Accepted(kind, fields) THEN all ELSE Refused
  BY DEF encode_audit_context, Accepted
<1>2. all \in Seq(AnyToken) /\ all # <<>>
  <2>1. CASE fields = <<>>
    <3>1. all = <<<<"map", 1>>, Str(KIND), Str(kind)>>
      BY <2>1 DEF Written
    <3>2. <<"map", 1>> \in AnyToken
      BY DEF AnyToken
    <3>3. Str(KIND) \in AnyToken /\ Str(kind) \in AnyToken
      BY KindType, StrType DEF Asked
    <3> HIDE DEF all
    <3>4. QED
      BY <3>1, <3>2, <3>3
  <2>2. CASE fields # <<>>
    <3>1. Len(fields) \in 0..Len(fields) /\ Len(fields) \in Nat
      BY DEF Asked
    <3>2. WrittenSo(all, kind, fields, Len(fields))
      BY <2>2, <3>1, WrittenIs, SMTT(30)
    <3>3. all \in Seq(AnyToken) /\ Len(all) # 0
      BY <3>1, <3>2 DEF WrittenSo
    <3> HIDE DEF all
    <3>4. QED
      BY <3>3
  <2>3. QED
    BY <2>1, <2>2
<1> HIDE DEF all
<1>3. QED
  BY <1>1, <1>2 DEF Refused, all

\* With fields, the rules bound every name and every earlier state of the buffer,
\* and tell the kind from "kind".
LEMMA RulesBound ==
  ASSUME NEW kind, NEW fields, Asked(kind, fields), fields # <<>>,
         Rules(Written(kind, fields, Len(fields)))
  PROVE  /\ kind # KIND
         /\ \A i \in 1..Len(fields) :
              /\ Len(fields[i].key) <= AUDIT_CONTEXT_MAX_LEN
              /\ BytesFrom(Written(kind, fields, i), 1) <= AUDIT_CONTEXT_MAX_LEN
<1> DEFINE n == Len(fields)
           all == Written(kind, fields, n)
<1>0. n \in Nat /\ n \in 0..n /\ fields \in Seq(FieldSet) /\ AUDIT_CONTEXT_MAX_LEN \in Nat
      /\ kind \in Seq(STRING)
  BY AuditAssumption DEF Asked
<1>1. WrittenSo(all, kind, fields, n)
  BY <1>0, WrittenIs, SMTT(30)
<1>2. /\ all \in Seq(AnyToken) /\ Len(all) = 5 + 2 * n /\ all[2] = Str(KIND) /\ all[4] = Str(kind)
      /\ \A i \in 1..n : all[4 + 2 * i] = Str(fields[i].key)
  BY <1>1, SMTT(30) DEF WrittenSo
<1>3. BytesFrom(all, 1) <= AUDIT_CONTEXT_MAX_LEN /\ Shaped(all)
  BY DEF Rules, Shaped
<1> HIDE DEF all
<1>4. Keys(all, 1) = {2, 4}
  BY <1>0, <1>1, OuterKeys, SMTT(30)
<1>5. kind # KIND
  <2> SUFFICES ASSUME kind = KIND PROVE FALSE
    BY SMTT(30)
  <2>1. PICK k \in {2, 4} : \A o \in {2, 4} \ {k} : all[o] # Str(KIND)
    BY <1>3, <1>4, Zenon DEF Shaped
  <2>2. QED
    BY <1>2, <2>1
<1>6. BytesFrom(all, 1) \in Nat
  BY <1>2, TwoPlace, BytesType
<1>7. ASSUME NEW i \in 1..n
      PROVE  /\ Len(fields[i].key) <= AUDIT_CONTEXT_MAX_LEN
             /\ BytesFrom(Written(kind, fields, i), 1) <= AUDIT_CONTEXT_MAX_LEN
  <2> DEFINE w == Written(kind, fields, i)
             p == 4 + 2 * i
  <2>1. p \in 1..Len(all) /\ i \in 0..n
    BY <1>0, <1>2
  <2>2. fields[i].key \in Seq(STRING)
    BY <1>0, FieldKey
  <2>3. ByteSize(all[p]) <= BytesFrom(all, 1)
    BY <1>2, <2>1, ValueFits, SMTT(30)
  <2>4. ByteSize(all[p]) = 1 + Len(fields[i].key) /\ Len(fields[i].key) \in Nat
    BY <1>2, <2>2, StrType
  <2>5. WrittenSo(w, kind, fields, i)
    BY <2>1, WrittenIs, SMTT(30)
  <2> HIDE DEF w
  <2>6. w \in Seq(AnyToken) /\ Len(w) = 5 + 2 * i /\ Len(w) <= Len(all)
    BY <1>0, <1>2, <2>5, SMTT(30) DEF WrittenSo
  <2>7. ASSUME NEW k \in 1..Len(w)
        PROVE  w[k] = all[k]
    <3>1. w = Written(kind, fields, i) /\ all = Written(kind, fields, n)
      BY DEF w, all
    <3>2. CASE k <= 5
      <4>1. k = 1 \/ k = 2 \/ k = 3 \/ k = 4 \/ k = 5
        BY <2>6, <3>2
      <4>2. QED
        BY <1>1, <2>5, <4>1, Zenon DEF WrittenSo
    <3>3. CASE k > 5
      <4>1. \E j \in 1..i : k = 4 + 2 * j \/ k = 5 + 2 * j
        <5>1. k - 5 \in 1..(2 * i)
          BY <2>6, <3>3
        <5>2. CASE (k - 5) % 2 = 1
          <6>1. ((k - 5) + 1) \div 2 \in 1..i
            BY <5>1, <5>2, OddEven
          <6>2. k = 4 + 2 * (((k - 5) + 1) \div 2)
            BY <5>1, <5>2
          <6>3. QED
            BY <6>1, <6>2
        <5>3. CASE (k - 5) % 2 # 1
          <6>1. (k - 5) \div 2 \in 1..i
            BY <5>1, <5>3, OddEven
          <6>2. k = 5 + 2 * ((k - 5) \div 2)
            BY <5>1, <5>3
          <6>3. QED
            BY <6>1, <6>2
        <5>4. QED
          BY <5>2, <5>3
      <4>2. PICK j \in 1..i : k = 4 + 2 * j \/ k = 5 + 2 * j
        BY <4>1
      <4>3. j \in 1..n
        BY <1>0, <4>2
      <4>4. QED
        BY <1>1, <2>5, <4>2, <4>3, Zenon DEF WrittenSo
    <3>4. QED
      BY <2>6, <3>2, <3>3
  <2>8. BytesFrom(w, 1) <= BytesFrom(all, 1)
    BY <1>2, <2>6, <2>7, PrefixFits
  <2>9. BytesFrom(w, 1) \in Nat
    BY <2>6, TwoPlace, BytesType
  <2>10. QED
    BY <1>0, <1>3, <1>6, <2>3, <2>4, <2>8, <2>9, SMTT(30) DEF w
<1>8. QED
  BY <1>5, <1>7

\* encode_audit_context gives a context exactly for what can be said.
LEMMA EncoderMeets ==
  ASSUME NEW a, Asked(a.kind, a.fields)
  PROVE  Accepted(a.kind, a.fields) <=> segment_arg(a.kind) /\ Sayable(a)
<1> DEFINE fields == a.fields
           kind == a.kind
           n == Len(fields)
           keys == {fields[i].key : i \in 1..n}
           all == Written(kind, fields, n)
<1>0. n \in Nat /\ fields \in Seq(FieldSet) /\ kind \in Seq(STRING)
  BY DEF Asked
<1>1. \A i \in 1..n : fields[i].key \in Seq(STRING)
  BY <1>0, FieldKey, SMTT(30)
<1>2. Sayable(a) <=> /\ \A i \in 1..n : Segment(fields[i].key)
                     /\ Segment(kind)
                     /\ Apart(fields)
                     /\ \A i \in 1..n : value_ok(fields[i])
                     /\ fields # <<>> => kind # KIND /\ Rules(all)
  BY DEF Sayable
<1>3. Apart(fields) <=> \A i \in 1..n : \A j \in 1..(i - 1) : fields[j].key # fields[i].key
  BY <1>0, NoRepeats
<1>4. segment_arg(kind) <=> Len(kind) <= AUDIT_CONTEXT_MAX_LEN /\ Segment(kind)
  BY <1>0, SegmentMeets DEF segment_arg
<1>5. \A i \in 1..n : segment_arg(fields[i].key) <=>
                        Len(fields[i].key) <= AUDIT_CONTEXT_MAX_LEN /\ Segment(fields[i].key)
  BY <1>1, SegmentMeets DEF segment_arg
<1>6. fields # <<>> => (audit_context_valid(all) <=> Rules(all))
  <2> SUFFICES ASSUME fields # <<>> PROVE audit_context_valid(all) <=> Rules(all)
    OBVIOUS
  <2>1. n \in 0..n
    BY <1>0
  <2>2. WrittenSo(all, kind, fields, n)
    BY <2>1, WrittenIs, SMTT(30)
  <2>3. all \in Seq(AnyToken)
    BY <2>2 DEF WrittenSo
  <2> HIDE DEF all
  <2>4. QED
    BY <2>3, ValidatorMeets
<1>7. fields # <<>> /\ Rules(all) =>
        /\ kind # KIND
        /\ \A i \in 1..n : /\ Len(fields[i].key) <= AUDIT_CONTEXT_MAX_LEN
                           /\ BytesFrom(Written(kind, fields, i), 1) <= AUDIT_CONTEXT_MAX_LEN
  BY RulesBound
<1>8. fields = <<>> => n = 0
  BY SMTT(30)
<1>9. Accepted(kind, fields) <=>
        /\ segment_arg(kind)
        /\ \A i \in 1..n :
             /\ segment_arg(fields[i].key) /\ value_ok(fields[i])
             /\ \A j \in 1..(i - 1) : fields[j].key # fields[i].key
             /\ BytesFrom(Written(kind, fields, i), 1) <= AUDIT_CONTEXT_MAX_LEN
        /\ fields = <<>> \/ audit_context_valid(all)
  BY SMTT(30) DEF Accepted
<1> HIDE DEF fields, kind, n, keys, all
<1>10. CASE fields = <<>>
  <2>1. n = 0 /\ 1..n = {}
    BY <1>8, <1>10
  <2>2. Apart(fields)
    BY <1>3, <2>1, Zenon
  <2>3. Sayable(a) <=> Segment(kind)
    BY <1>2, <1>10, <2>1, <2>2, Zenon
  <2>4. Accepted(kind, fields) <=> segment_arg(kind)
    BY <1>9, <1>10, <2>1, Zenon
  <2>5. QED
    BY <1>4, <2>3, <2>4, Zenon DEF fields, kind
<1>11. CASE fields # <<>>
  <2>1. ASSUME Accepted(kind, fields) PROVE segment_arg(kind) /\ Sayable(a)
    BY <1>2, <1>3, <1>4, <1>5, <1>6, <1>7, <1>9, <1>11, <2>1, SMTT(30)
  <2>2. ASSUME segment_arg(kind), Sayable(a) PROVE Accepted(kind, fields)
    BY <1>2, <1>3, <1>5, <1>6, <1>7, <1>9, <1>11, <2>2, SMTT(30)
  <2>3. QED
    BY <2>1, <2>2, SMTT(30) DEF fields, kind
<1>12. QED
  BY <1>10, <1>11

\* The context says what was asked.
LEMMA ContextSays ==
  ASSUME NEW kind, NEW fields, Asked(kind, fields), Accepted(kind, fields)
  PROVE  LET b == Written(kind, fields, Len(fields))
         IN  /\ b[3] = Str(kind)
             /\ fields # <<>> =>
                  {<<b[k], b[k + 1]>> : k \in Keys(b, 5)}
                    = {<<Str(f.key), FieldValue(f)>> : f \in {fields[i] : i \in 1..Len(fields)}}
<1> DEFINE n == Len(fields)
           b == Written(kind, fields, n)
<1>1. CASE fields = <<>>
  BY <1>1, SMTT(30) DEF Written
<1>2. CASE fields # <<>>
  <2>1. n \in Nat /\ n \in 0..n /\ \A i \in 1..n : value_ok(fields[i])
    BY DEF Asked, Accepted
  <2>2. WrittenSo(b, kind, fields, n)
    BY <1>2, <2>1, WrittenIs, SMTT(30)
  <2>3. Keys(b, 5) = {4 + 2 * i : i \in 1..n}
    BY <2>1, <2>2, InnerKeys, SMTT(30)
  <2>4. b[3] = Str(kind)
    BY <2>2, SMTT(30) DEF WrittenSo
  <2>5. \A i \in 1..n : b[4 + 2 * i] = Str(fields[i].key) /\ b[(4 + 2 * i) + 1] = FieldValue(fields[i])
    <3>1. \A i \in 1..n : (4 + 2 * i) + 1 = 5 + 2 * i
      BY <2>1
    <3>2. QED
      BY <2>2, <3>1 DEF WrittenSo
  <2> HIDE DEF b, n
  <2>6. {<<b[k], b[k + 1]>> : k \in Keys(b, 5)} = {<<b[4 + 2 * i], b[(4 + 2 * i) + 1]>> : i \in 1..n}
    BY <2>3, Zenon
  <2>7. {<<b[4 + 2 * i], b[(4 + 2 * i) + 1]>> : i \in 1..n} = {<<Str(fields[i].key), FieldValue(fields[i])>> : i \in 1..n}
    BY <2>5
  <2>8. {<<Str(f.key), FieldValue(f)>> : f \in {fields[i] : i \in 1..n}} = {<<Str(fields[i].key), FieldValue(fields[i])>> : i \in 1..n}
    OBVIOUS
  <2>9. QED
    BY <2>4, <2>6, <2>7, <2>8, ZenonT(30) DEF b, n
<1>3. QED
  BY <1>1, <1>2, SMTT(30)

-----------------------------------------------------------------------------
(* The caller. *)

\* A request that should reach the kernel, if its context is good.
Reaches(req, list, results, good) == Sound(req, list, results) /\ (req.audit_context.ptr => good)

\* A check that was made and what it says.
Says(c, good) ==
  LET reached == c.kernel # NotAsked
      decided == c.kernel.verdict \in {"granted", "EACCES"}
  IN  /\ reached <=> Reaches(c.req, c.list, c.results, good)
      /\ reached => c.given = c.req
      /\ c.granted = IF decided /\ c.wants.granted THEN <<c.kernel.granted>> ELSE Untouched
      /\ c.audit = IF decided /\ c.wants.audit THEN c.kernel.audit ELSE Untouched
      /\ c.ret = IF ~reached THEN "EINVAL" ELSE IF c.kernel.verdict = "granted" THEN "0" ELSE c.kernel.verdict

\* An encoded context is what the encoder gave for what was asked; a check was
\* made with the context the caller still holds.
AuditInv ==
  /\ context \in Seq(AnyToken)
  /\ ask # NoAsk => /\ Asked(ask.kind, ask.fields)
                    /\ context = encode_audit_context(ask.kind, ask.fields)
  /\ check # NoCheck => Says(check, audit_context_valid(context))

\* A request as the caller passes it: a context behind a pointer is the one it holds.
Passed(req) ==
  /\ req \in Request /\ req.object_tree.len <= U32_MAX
  /\ req.audit_context.ptr /\ req.audit_context.len > 0 => req.audit_context.len = BytesFrom(context, 1)

LEMMA PassingPassed ==
  ASSUME context \in Seq(AnyToken), NEW r \in Requests
  PROVE  Passed(Passing(r))
<1>1. BytesFrom(context, 1) \in Nat
  BY BytesType DEF Places
<1>2. /\ r \in Request /\ r.object_tree.len <= U32_MAX
      /\ r.audit_context = Held \/ r.audit_context.len = 0 \/ ~r.audit_context.ptr
  BY AuditAssumption
<1>3. CASE r.audit_context = Held
  <2> DEFINE held == [ptr |-> TRUE, len |-> BytesFrom(context, 1)]
  <2>3. held \in Arg /\ held.len = BytesFrom(context, 1)
    BY <1>1 DEF Arg
  <2>4. Passing(r) = [r EXCEPT !.audit_context = held]
    BY <1>3 DEF Passing
  <2> HIDE DEF held
  <2>5. Passing(r).audit_context = held /\ Passing(r).object_tree = r.object_tree /\ Passing(r) \in Request
    BY <1>2, <2>3, <2>4 DEF Request
  <2>6. QED
    BY <1>2, <2>3, <2>5 DEF Passed
<1>4. CASE r.audit_context # Held
  BY <1>2, <1>4 DEF Passing, Passed, Request, Arg
<1>5. QED
  BY <1>3, <1>4

\* What validate_request and build_args let through is a sound request whose context
\* is accepted, and build_args changes nothing of it.
LEMMA RequestMeets ==
  ASSUME context \in Seq(AnyToken), NEW req, Passed(req), NEW results \in Arg
  PROVE  /\ validate_request(req, FALSE) /\ build_args(req) # NoRequest
            <=> Reaches(req, FALSE, NoArg, audit_context_valid(context))
         /\ (/\ validate_request(req, TRUE)
             /\ results.len = req.object_tree.len /\ results.ptr
             /\ build_args(req) # NoRequest)
            <=> Reaches(req, TRUE, results, audit_context_valid(context))
         /\ build_args(req) # NoRequest => build_args(req) = req
<1> DEFINE Fits == \A arg \in {req.sd, req.self_sid, req.local_claims, req.audit_context} : arg.len <= U32_MAX
           Given == req.sd.ptr /\ req.sd.len > 0
<1>1. /\ req.sd \in Arg /\ req.self_sid \in Arg /\ req.local_claims \in Arg
      /\ req.object_tree \in Arg /\ req.audit_context \in Arg
  BY DEF Passed, Request
<1>2. Given => req # NoRequest
  BY DEF NoRequest, NoArg
<1>3. build_args(req) = IF Fits THEN req ELSE NoRequest
  BY DEF build_args
<1>4. Given => (build_args(req) # NoRequest <=> Fits)
  BY <1>2, <1>3
<1>5. AUDIT_CONTEXT_MAX_LEN \in Nat /\ U32_MAX \in Nat /\ req.object_tree.len <= U32_MAX
  BY AuditAssumption DEF Passed
<1>6. audit_context_valid(context) /\ req.audit_context.ptr /\ req.audit_context.len > 0 =>
        req.audit_context.len \in 1..AUDIT_CONTEXT_MAX_LEN
  BY <1>1, <1>5 DEF audit_context_valid, Passed, Arg
<1>7. ASSUME NEW list \in BOOLEAN
      PROVE  validate_request(req, list) /\ Fits <=>
               /\ Given /\ Fits /\ (list => req.object_tree.len > 0)
               /\ \A arg \in {req.self_sid, req.local_claims, req.audit_context, req.object_tree} : arg.len > 0 => arg.ptr
               /\ req.audit_context.ptr => req.audit_context.len > 0 /\ audit_context_valid(context)
  BY <1>1, <1>5, <1>6 DEF validate_request, ptr_len_valid, Arg
<1> HIDE DEF Given
<1>8. \A list \in BOOLEAN : validate_request(req, list) => Given
  BY <1>1 DEF validate_request, Given, Arg
<1>9. validate_request(req, FALSE) /\ build_args(req) # NoRequest
        <=> Reaches(req, FALSE, NoArg, audit_context_valid(context))
  BY <1>1, <1>4, <1>5, <1>7, <1>8 DEF Reaches, Sound, Given, Arg
<1>10. (/\ validate_request(req, TRUE)
        /\ results.len = req.object_tree.len /\ results.ptr
        /\ build_args(req) # NoRequest)
         <=> Reaches(req, TRUE, results, audit_context_valid(context))
  BY <1>1, <1>4, <1>5, <1>7, <1>8 DEF Reaches, Sound, Given, Arg
<1>11. QED
  BY <1>3, <1>9, <1>10

\* What a rejected request and an answered one say.
LEMMA RejectedSays ==
  ASSUME NEW req, NEW results, NEW good
  PROVE  /\ ~Reaches(req, FALSE, NoArg, good) => Says(Rejected(req), good)
         /\ ~Reaches(req, TRUE, results, good) => Says(AsList(Rejected(req), results), good)
<1> DEFINE c == Rejected(req)
           d == AsList(c, results)
<1>1. /\ c.req = req /\ c.list = FALSE /\ c.results = NoArg /\ c.kernel = NotAsked /\ c.ret = "EINVAL"
      /\ c.granted = Untouched /\ c.audit = Untouched
  BY DEF Rejected, NoCheck
<1>2. /\ d.req = req /\ d.list = TRUE /\ d.results = results /\ d.kernel = NotAsked /\ d.ret = "EINVAL"
      /\ d.granted = Untouched /\ d.audit = Untouched
  BY DEF Rejected, NoCheck, AsList
<1>3. NotAsked.verdict = "none"
  BY DEF NotAsked
<1> HIDE DEF c, d
<1>4. ~Reaches(req, FALSE, NoArg, good) => Says(c, good)
  BY <1>1, <1>3 DEF Says
<1>5. ~Reaches(req, TRUE, results, good) => Says(d, good)
  BY <1>2, <1>3 DEF Says
<1>6. QED
  BY <1>4, <1>5 DEF c, d

LEMMA AnswerSays ==
  ASSUME NEW req, NEW results, NEW good, NEW answer \in Answers, NEW wants \in Wants,
         build_args(req) = req
  PROVE  /\ Reaches(req, FALSE, NoArg, good) =>
              Says(Answer(req, answer, wants, answer.verdict \in {"granted", "EACCES"}), good)
         /\ Reaches(req, TRUE, results, good) =>
              Says(AsList(Answer(req, answer, NoCheck.wants, FALSE), results), good)
<1> DEFINE copied == answer.verdict \in {"granted", "EACCES"}
           c == Answer(req, answer, wants, copied)
           d == AsList(Answer(req, answer, NoCheck.wants, FALSE), results)
           ret == IF answer.verdict = "granted" THEN "0" ELSE answer.verdict
<1>1. /\ c.req = req /\ c.list = FALSE /\ c.results = NoArg /\ c.given = req /\ c.kernel = answer
      /\ c.ret = ret /\ c.wants = wants
      /\ c.granted = (IF copied /\ wants.granted THEN <<answer.granted>> ELSE Untouched)
      /\ c.audit = (IF copied /\ wants.audit THEN answer.audit ELSE Untouched)
  BY DEF Answer
<1>2. NoCheck.wants.granted = FALSE /\ NoCheck.wants.audit = FALSE
  BY DEF NoCheck
<1>3. /\ d.req = req /\ d.list = TRUE /\ d.results = results /\ d.given = req /\ d.kernel = answer
      /\ d.ret = ret /\ d.wants = NoCheck.wants /\ d.granted = Untouched /\ d.audit = Untouched
  BY DEF Answer, AsList
<1>4. answer # NotAsked
  BY DEF Answers, NotAsked
<1> HIDE DEF c, d
<1>5. Reaches(req, FALSE, NoArg, good) => Says(c, good)
  BY <1>1, <1>4 DEF Says
<1>6. Reaches(req, TRUE, results, good) => Says(d, good)
  BY <1>2, <1>3, <1>4 DEF Says
<1>7. QED
  BY <1>5, <1>6 DEF c, d

\* An access check leaves a check that says what it should.
LEMMA CheckSays ==
  ASSUME context \in Seq(AnyToken), NEW req, Passed(req), AccessCheck(req)
  PROVE  Says(check', audit_context_valid(context))
<1>0. NoArg \in Arg
  BY DEF NoArg, Arg
<1>1. /\ validate_request(req, FALSE) /\ build_args(req) # NoRequest
           <=> Reaches(req, FALSE, NoArg, audit_context_valid(context))
      /\ build_args(req) # NoRequest => build_args(req) = req
  BY <1>0, RequestMeets
<1>2. CASE validate_request(req, FALSE) /\ build_args(req) # NoRequest
  <2>1. PICK wants \in Wants, answer \in Answers :
          check' = Answer(req, answer, wants, answer.verdict \in {"granted", "EACCES"})
    BY <1>2 DEF AccessCheck
  <2>2. /\ build_args(req) = req
        /\ Reaches(req, FALSE, NoArg, audit_context_valid(context))
    BY <1>1, <1>2
  <2>3. Says(Answer(req, answer, wants, answer.verdict \in {"granted", "EACCES"}), audit_context_valid(context))
    BY <2>2, AnswerSays, Zenon
  <2>4. QED
    BY <2>1, <2>3, Zenon
<1>3. CASE ~(validate_request(req, FALSE) /\ build_args(req) # NoRequest)
  <2>1. check' = Rejected(req)
    BY <1>3 DEF AccessCheck
  <2>2. ~Reaches(req, FALSE, NoArg, audit_context_valid(context))
    BY <1>1, <1>3
  <2>3. Says(Rejected(req), audit_context_valid(context))
    BY <2>2, RejectedSays, Zenon
  <2>4. QED
    BY <2>1, <2>3, Zenon
<1>4. QED
  BY <1>2, <1>3

LEMMA ListSays ==
  ASSUME context \in Seq(AnyToken), NEW req, Passed(req), NEW results \in Arg, AccessCheckList(req, results)
  PROVE  Says(check', audit_context_valid(context))
<1> DEFINE admitted == /\ validate_request(req, TRUE)
                       /\ results.len = req.object_tree.len /\ results.ptr
                       /\ build_args(req) # NoRequest
<1>1. /\ admitted <=> Reaches(req, TRUE, results, audit_context_valid(context))
      /\ build_args(req) # NoRequest => build_args(req) = req
  BY RequestMeets
<1>2. CASE admitted
  <2>1. PICK answer \in Answers : check' = AsList(Answer(req, answer, NoCheck.wants, FALSE), results)
    BY <1>2 DEF AccessCheckList
  <2>2. NoCheck.wants \in Wants
    BY DEF NoCheck, Wants
  <2>3. /\ build_args(req) = req
        /\ Reaches(req, TRUE, results, audit_context_valid(context))
    BY <1>1, <1>2
  <2>4. Says(AsList(Answer(req, answer, NoCheck.wants, FALSE), results), audit_context_valid(context))
    BY <2>2, <2>3, AnswerSays, Zenon
  <2>5. QED
    BY <2>1, <2>4, Zenon
<1>3. CASE ~admitted
  <2>1. check' = AsList(Rejected(req), results)
    BY <1>3 DEF AccessCheckList
  <2>2. ~Reaches(req, TRUE, results, audit_context_valid(context))
    BY <1>1, <1>3
  <2>3. Says(AsList(Rejected(req), results), audit_context_valid(context))
    BY <2>2, RejectedSays, Zenon
  <2>4. QED
    BY <2>1, <2>3, Zenon
<1>4. QED
  BY <1>2, <1>3

LEMMA CheckKeeps ==
  ASSUME NEW req, NEW results, AccessCheck(req) \/ AccessCheckList(req, results)
  PROVE  UNCHANGED <<context, ask>>
BY DEF AccessCheck, AccessCheckList

LEMMA AuditInvInit == AuditInit => AuditInv
BY DEF AuditInit, AuditStart, AuditInv

LEMMA AuditInvStep ==
  ASSUME AuditInv, [AuditNext /\ UNCHANGED vars]_<<vars, auditVars>>
  PROVE  AuditInv'
<1>1. ASSUME NEW piece \in Pieces, WritePiece(piece)
      PROVE  AuditInv'
  <2>1. context \in Seq(AnyToken) /\ piece \in Seq(AnyToken)
    BY <1>1, AuditAssumption DEF AuditInv
  <2>2. context \o piece \in Seq(AnyToken)
    BY <2>1, Joined
  <2>3. context' \in Seq(AnyToken)
    BY <1>1, <2>2 DEF WritePiece
  <2>4. ask' = NoAsk /\ check' = NoCheck
    BY <1>1, SMTT(30) DEF WritePiece
  <2>5. QED
    BY <2>3, <2>4, SMTT(30) DEF AuditInv
<1>2. ASSUME NEW kind \in AuditNames, NEW n \in 0..MaxFields, NEW fields \in [1..n -> AuditFields],
             Encode(kind, fields)
      PROVE  AuditInv'
  <2>1. kind \in Seq(STRING)
    BY AuditAssumption
  <2>2. fields \in Seq(FieldSet)
    <3>1. AuditFields \subseteq FieldSet
      BY AuditAssumption DEF FieldSet
    <3>2. n \in Nat
      BY AuditAssumption
    <3>3. QED
      BY <3>1, <3>2
  <2>3. Asked(kind, fields)
    BY <2>1, <2>2 DEF Asked
  <2>4. encode_audit_context(kind, fields) \in Seq(AnyToken)
    BY <2>3, EncodedIs
  <2>5. /\ context' = encode_audit_context(kind, fields)
        /\ ask' = [kind |-> kind, fields |-> fields] /\ check' = NoCheck
    BY <1>2 DEF Encode
  <2>6. ask'.kind = kind /\ ask'.fields = fields
    BY <2>5
  <2>7. QED
    BY <2>3, <2>4, <2>5, <2>6, SMTT(30) DEF AuditInv
<1>a. ASSUME UNCHANGED <<context, ask>>
      PROVE  /\ context' \in Seq(AnyToken)
             /\ ask' # NoAsk => /\ Asked(ask.kind, ask.fields)'
                               /\ context' = encode_audit_context(ask.kind, ask.fields)'
             /\ audit_context_valid(context)' <=> audit_context_valid(context)
  BY <1>a DEF AuditInv
<1>3. ASSUME NEW r \in Requests, AccessCheck(Passing(r))
      PROVE  AuditInv'
  <2>1. UNCHANGED <<context, ask>>
    BY <1>3, CheckKeeps
  <2>2. Says(check', audit_context_valid(context))
    BY <1>3, PassingPassed, CheckSays DEF AuditInv
  <2>3. QED
    BY <1>a, <2>1, <2>2 DEF AuditInv
<1>4. ASSUME NEW r \in Requests, NEW results \in [ptr : BOOLEAN, len : {0, 1}], AccessCheckList(Passing(r), results)
      PROVE  AuditInv'
  <2>1. UNCHANGED <<context, ask>>
    BY <1>4, CheckKeeps
  <2>2. results \in Arg
    BY DEF Arg
  <2>3. Says(check', audit_context_valid(context))
    BY <1>4, <2>2, PassingPassed, ListSays DEF AuditInv
  <2>4. QED
    BY <1>a, <2>1, <2>3 DEF AuditInv
<1>5. CASE UNCHANGED auditVars
  BY <1>5, <1>a, SMTT(30) DEF auditVars, AuditInv
<1>6. CASE AuditNext
  <2>1. CASE \E kind \in AuditNames, fields \in UNION {[1..n -> AuditFields] : n \in 0..MaxFields} :
               Encode(kind, fields)
    <3>1. PICK kind \in AuditNames, fields \in UNION {[1..n -> AuditFields] : n \in 0..MaxFields} :
               Encode(kind, fields)
      BY <2>1
    <3>2. PICK n \in 0..MaxFields : fields \in [1..n -> AuditFields]
      BY <3>1
    <3>3. QED
      BY <1>2, <3>1, <3>2, SMTT(30)
  <2>2. CASE \E piece \in Pieces : WritePiece(piece)
    BY <1>1, <2>2, Zenon
  <2>3. CASE \E req \in Requests : MayPass(req) /\ AccessCheck(Passing(req))
    BY <1>3, <2>3, Zenon
  <2>4. CASE \E req \in Requests, results \in [ptr : BOOLEAN, len : {0, 1}] :
               MayPass(req) /\ AccessCheckList(Passing(req), results)
    BY <1>4, <2>4, Zenon
  <2>5. QED
    BY <1>6, <2>1, <2>2, <2>3, <2>4, Zenon DEF AuditNext
<1>7. QED
  BY <1>5, <1>6, SMTT(30)

LEMMA AuditInvAlways == AuditSpec => []AuditInv
<1>1. AuditInit => AuditInv
  BY AuditInvInit
<1>2. AuditInv /\ [AuditNext /\ UNCHANGED vars]_<<vars, auditVars>> => AuditInv'
  BY AuditInvStep
<1>3. QED
  BY <1>1, <1>2, PTL DEF AuditSpec

\* Whatever a caller puts together, audit_context_valid accepts exactly what the
\* kernel's rules allow, though it walks the buffer by counts and by slices where
\* the rules follow the grammar; peios_audit_context_encode gives a context
\* exactly for what can be said, and that context says it.
THEOREM ContextsAreExact == AuditSpec => []ContextExact
<1>1. AuditInv => ContextExact
  <2> SUFFICES ASSUME AuditInv PROVE ContextExact
    OBVIOUS
  <2>1. audit_context_valid(context) <=> Rules(context)
    BY ValidatorMeets, SMTT(30) DEF AuditInv
  <2>2. ASSUME ask # NoAsk
        PROVE  /\ context # Refused <=> segment_arg(ask.kind) /\ Sayable(ask)
               /\ context # Refused =>
                    /\ context[3] = Str(ask.kind)
                    /\ ask.fields # <<>> =>
                         {<<context[k], context[k + 1]>> : k \in Keys(context, 5)}
                           = {<<Str(f.key), FieldValue(f)>> : f \in {ask.fields[i] : i \in 1..Len(ask.fields)}}
    <3> DEFINE all == Written(ask.kind, ask.fields, Len(ask.fields))
    <3>1. Asked(ask.kind, ask.fields) /\ context = encode_audit_context(ask.kind, ask.fields)
      BY <2>2 DEF AuditInv
    <3>2. context = (IF Accepted(ask.kind, ask.fields) THEN all ELSE Refused) /\ all # Refused
      BY <3>1, EncodedIs
    <3>3. Accepted(ask.kind, ask.fields) <=> segment_arg(ask.kind) /\ Sayable(ask)
      BY <3>1, EncoderMeets, SMTT(30)
    <3>4. ASSUME Accepted(ask.kind, ask.fields)
          PROVE  /\ all[3] = Str(ask.kind)
                 /\ ask.fields # <<>> =>
                      {<<all[k], all[k + 1]>> : k \in Keys(all, 5)}
                        = {<<Str(f.key), FieldValue(f)>> : f \in {ask.fields[i] : i \in 1..Len(ask.fields)}}
      BY <3>1, <3>4, ContextSays, SMTT(30)
    <3> HIDE DEF all
    <3>5. QED
      BY <3>2, <3>3, <3>4
  <2>3. QED
    BY <2>1, <2>2 DEF ContextExact
<1>2. QED
  BY <1>1, AuditInvAlways, PTL

\* peios_access_check and peios_access_check_list hand the kernel every sound request,
\* as it is, and no other, nor a context its rules refuse; whatever the kernel stored
\* with its verdict, of a denial too, is in the caller's buffers, and nothing is
\* without one.
THEOREM ChecksAreExact == AuditSpec => []CheckExact
<1>1. AuditInv => CheckExact
  <2> SUFFICES ASSUME AuditInv PROVE CheckExact
    BY SMTT(30)
  <2>1. audit_context_valid(context) <=> Rules(context)
    BY ValidatorMeets, SMTT(30) DEF AuditInv
  <2>2. QED
    BY <2>1 DEF AuditInv, CheckExact, Says, Reaches
<1>2. QED
  BY <1>1, AuditInvAlways, PTL
=============================================================================
