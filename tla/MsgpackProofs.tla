--------------------------- MODULE MsgpackProofs ---------------------------
(***************************************************************************)
(* Proofs about Msgpack, for every ceiling, count and length of buffer:    *)
(* validate and skip agree with the grammar of a value, and a payload is   *)
(* everything that was written and is consumed exactly.                    *)
(*                                                                         *)
(* The grammar, skip's loop and validate's loop are recursive functions    *)
(* that only look further into the buffer.  They are reasoned about by     *)
(* induction from the end of the buffer to its start, stated for sets of   *)
(* places (Backwards) and derived from the well-foundedness of < on Nat.   *)
(***************************************************************************)
EXTENDS Msgpack, WellFoundedInduction, TLAPS

-----------------------------------------------------------------------------
(* Induction over the places of a buffer. *)

LEMMA LeastNumber ==
  ASSUME NEW T \in SUBSET Nat, T # {}
  PROVE  \E m \in T : \A k \in T : m <= k
<1> DEFINE R == OpToRel(<, Nat)
<1>1. IsWellFoundedOn(R, Nat)
  BY NatLessThanWellFounded
<1>2. \A j, k \in Nat : j < k => <<j, k>> \in R
  BY DEF OpToRel
<1> HIDE DEF R
<1>3. PICK m \in T : \A k \in T : <<k, m>> \notin R
  BY <1>1, WFMin
<1>4. ASSUME NEW k \in T, ~(m <= k)
      PROVE  FALSE
  <2>1. k \in Nat /\ m \in Nat /\ k < m
    BY <1>4
  <2>2. <<k, m>> \in R
    BY <1>2, <2>1
  <2>3. QED
    BY <1>3, <2>2
<1>5. QED
  BY <1>4

LEMMA Induction ==
  ASSUME NEW S, 0 \in S, \A n \in Nat : n \in S => n + 1 \in S
  PROVE  Nat \subseteq S
<1> SUFFICES ASSUME Nat \ S # {} PROVE FALSE
  OBVIOUS
<1>1. PICK m \in Nat \ S : \A k \in Nat \ S : m <= k
  BY LeastNumber
<1>2. m - 1 \in Nat /\ m - 1 < m
  BY <1>1
<1>3. m - 1 \in S
  BY <1>1, <1>2
<1>4. (m - 1) + 1 \in S
  BY <1>2, <1>3
<1>5. QED
  BY <1>1, <1>4

\* From the end of a buffer to its start.
LEMMA Downward ==
  ASSUME NEW N \in Nat, NEW S,
         \A p \in Nat : p > N => p \in S,
         \A p \in Nat : p <= N /\ (\A q \in Nat : q > p => q \in S) => p \in S
  PROVE  Nat \subseteq S
<1> DEFINE T == {n \in Nat : \A q \in Nat : q + n > N => q \in S}
<1>1. 0 \in T
  OBVIOUS
<1>2. ASSUME NEW n \in Nat, n \in T
      PROVE  n + 1 \in T
  <2> SUFFICES ASSUME NEW q \in Nat, q + (n + 1) > N PROVE q \in S
    OBVIOUS
  <2>1. CASE q > N
    BY <2>1
  <2>2. CASE q <= N
    <3>1. \A k \in Nat : k > q => k \in S
      BY <1>2
    <3>2. QED
      BY <2>2, <3>1
  <2>3. QED
    BY <2>1, <2>2
<1>3. Nat \subseteq T
  <2> HIDE DEF T
  <2>1. QED
    BY <1>1, <1>2, Induction
<1>4. N + 1 \in T
  BY <1>3
<1>5. \A q \in Nat : q + (N + 1) > N
  OBVIOUS
<1>6. QED
  BY <1>4, <1>5

-----------------------------------------------------------------------------
(* skip's loop. *)

\* A header counts the values it stands before.
LEMMA CountType ==
  ASSUME NEW t \in AnyToken
  PROVE  t[2] \in Nat
BY DEF AnyToken, Leaf, Bad

LEMMA TokensAny == Tokens \subseteq AnyToken
BY MsgpackAssumption DEF Tokens, Values, AnyToken

\* What value_step gives.
LEMMA StepType ==
  ASSUME NEW b \in Seq(AnyToken), NEW q \in Places
  PROVE  /\ value_step(b, q) \in Int /\ value_step(b, q) >= -1
         /\ q > Len(b) => value_step(b, q) = -1
<1>1. CASE q > Len(b) \/ b[q] = Bad
  BY <1>1 DEF value_step
<1>2. CASE ~(q > Len(b) \/ b[q] = Bad)
  <2>1. b[q] \in AnyToken
    BY <1>2 DEF Places
  <2>2. b[q][2] \in Nat
    BY <2>1, CountType
  <2>3. QED
    BY <1>2, <2>2 DEF value_step
<1>3. QED
  BY <1>1, <1>2

SkipRow(b, p, f, q) ==
  [remaining \in Nat |->
        IF remaining = 0 THEN q
        ELSE IF value_step(b, q) = -1 THEN p
        ELSE f[q + 1][remaining - 1 + value_step(b, q)]]

SkipLoop(b, p) == CHOOSE f : f = [q \in Places |-> SkipRow(b, p, f, q)]

LEMMA SkipIs ==
  ASSUME NEW b, NEW p
  PROVE  skip(b, p) = SkipLoop(b, p)[p][1]
BY DEF skip, SkipLoop, SkipRow

LEMMA SkipEquation ==
  ASSUME NEW b \in Seq(AnyToken), NEW p
  PROVE  SkipLoop(b, p) = [q \in Places |-> SkipRow(b, p, SkipLoop(b, p), q)]
<1> DEFINE S == {m \in Nat : \E g : /\ g = [q \in Places |-> g[q]]
                                   /\ \A q \in Places : q >= m => g[q] = SkipRow(b, p, g, q)}
<1>1. Len(b) \in Nat
  OBVIOUS
<1>2. ASSUME NEW m \in Nat, m > Len(b)
      PROVE  m \in S
  <2> DEFINE g == [q \in Places |-> [remaining \in Nat |-> IF remaining = 0 THEN q ELSE p]]
  <2>1. \A q \in Places : q >= m => value_step(b, q) = -1
    BY <1>1, <1>2, StepType DEF Places
  <2>2. \A q \in Places : q >= m => g[q] = SkipRow(b, p, g, q)
    BY <2>1 DEF SkipRow
  <2>3. QED
    BY <2>2
<1>3. ASSUME NEW m \in Nat, m <= Len(b), \A k \in Nat : k > m => k \in S
      PROVE  m \in S
  <2>1. m + 1 \in S
    BY <1>3
  <2>2. PICK g : /\ g = [q \in Places |-> g[q]]
                 /\ \A q \in Places : q >= m + 1 => g[q] = SkipRow(b, p, g, q)
    BY <2>1
  <2> DEFINE h == [q \in Places |-> IF q = m THEN SkipRow(b, p, g, q) ELSE g[q]]
  <2>3. ASSUME NEW q \in Places, q >= m
        PROVE  h[q] = SkipRow(b, p, h, q)
    <3>1. q + 1 \in Places /\ q + 1 # m /\ h[q + 1] = g[q + 1]
      BY <2>3 DEF Places
    <3>2. SkipRow(b, p, h, q) = SkipRow(b, p, g, q)
      BY <3>1 DEF SkipRow
    <3>3. h[q] = SkipRow(b, p, g, q)
      BY <2>2, <2>3 DEF Places
    <3>4. QED
      BY <3>2, <3>3
  <2>4. h = [q \in Places |-> h[q]]
    OBVIOUS
  <2> HIDE DEF h
  <2>5. QED
    BY <2>3, <2>4
<1>4. Nat \subseteq S
  <2> HIDE DEF S
  <2>1. QED
    BY <1>1, <1>2, <1>3, Downward
<1>5. 0 \in S
  BY <1>4
<1>6. PICK g : /\ g = [q \in Places |-> g[q]]
               /\ \A q \in Places : q >= 0 => g[q] = SkipRow(b, p, g, q)
  BY <1>5
<1>7. g = [q \in Places |-> SkipRow(b, p, g, q)]
  BY <1>6 DEF Places
<1>8. QED
  BY <1>7 DEF SkipLoop

-----------------------------------------------------------------------------
(* The grammar. *)

EndRow(b, f, p) ==
  [n \in Nat |-> [d \in Int |->
        IF n = 0 THEN p
        ELSE IF p > Len(b) \/ b[p] = Bad \/ d = 0 THEN 0
        ELSE LET n2 == IF b[p][1] = "map" THEN 2 * b[p][2] ELSE b[p][2]
                 q == f[p + 1][n2][d - 1]
             IN  IF q = 0 THEN 0 ELSE f[q][n - 1][d]]]

LEMMA EndsIs ==
  ASSUME NEW b
  PROVE  Ends(b) = CHOOSE f : f = [p \in Places |-> EndRow(b, f, p)]
BY DEF Ends, EndRow

\* Where the first of n values at p ends, if it is one: after its children.
Next1(b, f, p, d) == f[p + 1][value_step(b, p)][d - 1]

EndCell(b, f, p, n, d) ==
  IF n = 0 THEN p
  ELSE IF value_step(b, p) = -1 \/ d = 0 \/ Next1(b, f, p, d) = 0 THEN 0
  ELSE f[Next1(b, f, p, d)][n - 1][d]

LEMMA RowIs ==
  ASSUME NEW b \in Seq(AnyToken), NEW f, NEW p \in Places
  PROVE  EndRow(b, f, p) = [n \in Nat |-> [d \in Int |-> EndCell(b, f, p, n, d)]]
<1>1. CASE p > Len(b) \/ b[p] = Bad
  <2>1. value_step(b, p) = -1
    BY <1>1 DEF value_step
  <2>2. QED
    BY <1>1, <2>1 DEF EndRow, EndCell
<1>2. CASE ~(p > Len(b) \/ b[p] = Bad)
  <2>1. value_step(b, p) = IF b[p][1] = "map" THEN 2 * b[p][2] ELSE b[p][2]
    BY <1>2 DEF value_step
  <2>2. value_step(b, p) # -1
    <3>1. b[p] \in AnyToken
      BY <1>2 DEF Places
    <3>2. b[p][2] \in Nat
      BY <3>1, CountType
    <3>3. QED
      BY <2>1, <3>2
  <2>3. QED
    BY <1>2, <2>1, <2>2 DEF EndRow, EndCell, Next1
<1>3. QED
  BY <1>1, <1>2

Ending == [Places -> [Nat -> [Int -> Nat]]]

LEMMA EndingType ==
  ASSUME NEW g \in Ending, NEW p \in Places, NEW n \in Nat, NEW d \in Int
  PROVE  g[p][n][d] \in Nat
<1>1. g[p] \in [Nat -> [Int -> Nat]]
  BY DEF Ending
<1>2. g[p][n] \in [Int -> Nat]
  BY <1>1
<1>3. QED
  BY <1>2

\* A function that satisfies the grammar from m on, and never goes back.
EndsFrom(b, g, m) ==
  \A p \in Places : p >= m =>
    \A n \in Nat, d \in Int :
      /\ g[p][n][d] = EndCell(b, g, p, n, d)
      /\ g[p][n][d] = 0 \/ g[p][n][d] >= p

\* A cell depends on what is after it.
LEMMA CellLater ==
  ASSUME NEW b \in Seq(AnyToken), NEW g \in Ending, NEW m \in Nat, EndsFrom(b, g, m + 1),
         NEW p \in Places, p >= m, NEW d \in Int, value_step(b, p) # -1
  PROVE  Next1(b, g, p, d) \in Nat /\ (Next1(b, g, p, d) = 0 \/ Next1(b, g, p, d) > p)
<1>1. value_step(b, p) \in Nat /\ p + 1 \in Places /\ p + 1 >= m + 1 /\ d - 1 \in Int
  BY StepType DEF Places
<1>2. Next1(b, g, p, d) \in Nat
  BY <1>1, EndingType DEF Next1
<1>3. Next1(b, g, p, d) = 0 \/ Next1(b, g, p, d) >= p + 1
  BY <1>1 DEF Next1, EndsFrom
<1>4. QED
  BY <1>2, <1>3 DEF Places

LEMMA EndsExist ==
  ASSUME NEW b \in Seq(AnyToken)
  PROVE  \E g \in Ending : EndsFrom(b, g, 0)
<1> DEFINE S == {m \in Nat : \E g \in Ending : EndsFrom(b, g, m)}
<1>1. Len(b) \in Nat
  OBVIOUS
<1>2. ASSUME NEW m \in Nat, m > Len(b)
      PROVE  m \in S
  <2> DEFINE g == [p \in Places |-> [n \in Nat |-> [d \in Int |-> IF n = 0 THEN p ELSE 0]]]
  <2>1. g \in Ending
    BY DEF Ending, Places
  <2>2. \A p \in Places : p >= m => value_step(b, p) = -1
    BY <1>1, <1>2, StepType DEF Places
  <2>3. \A p \in Places, n \in Nat, d \in Int : g[p][n][d] = IF n = 0 THEN p ELSE 0
    OBVIOUS
  <2> HIDE DEF g
  <2>4. EndsFrom(b, g, m)
    BY <2>2, <2>3 DEF EndsFrom, EndCell, Places
  <2>5. QED
    BY <2>1, <2>4
<1>3. ASSUME NEW m \in Nat, m <= Len(b), \A k \in Nat : k > m => k \in S
      PROVE  m \in S
  <2>1. m + 1 \in S
    BY <1>3
  <2>2. PICK g \in Ending : EndsFrom(b, g, m + 1)
    BY <2>1
  <2> DEFINE h == [p \in Places |-> IF p = m THEN [n \in Nat |-> [d \in Int |-> EndCell(b, g, p, n, d)]]
                                   ELSE g[p]]
  <2>3. \A p \in Places : p # m => h[p] = g[p]
    OBVIOUS
  <2>4. m \in Places => \A n \in Nat, d \in Int : h[m][n][d] = EndCell(b, g, m, n, d)
    OBVIOUS
  <2>5. ASSUME m \in Places, NEW n \in Nat, NEW d \in Int
        PROVE  EndCell(b, g, m, n, d) \in Nat /\ (EndCell(b, g, m, n, d) = 0 \/ EndCell(b, g, m, n, d) >= m)
    <3>1. CASE n = 0 \/ value_step(b, m) = -1 \/ d = 0 \/ Next1(b, g, m, d) = 0
      BY <2>5, <3>1 DEF EndCell, Places
    <3>2. CASE ~(n = 0 \/ value_step(b, m) = -1 \/ d = 0 \/ Next1(b, g, m, d) = 0)
      <4> DEFINE q == Next1(b, g, m, d)
      <4>1. q \in Nat /\ q > m
        BY <2>2, <2>5, <3>2, CellLater DEF Places
      <4>2. EndCell(b, g, m, n, d) = g[q][n - 1][d]
        BY <3>2 DEF EndCell
      <4> HIDE DEF q
      <4>3. q \in Places /\ q >= m + 1 /\ n - 1 \in Nat
        BY <3>2, <4>1 DEF Places
      <4>4. g[q][n - 1][d] \in Nat
        BY <4>3, EndingType
      <4>5. g[q][n - 1][d] = 0 \/ g[q][n - 1][d] >= q
        BY <2>2, <4>3 DEF EndsFrom
      <4>6. QED
        BY <4>1, <4>2, <4>4, <4>5
    <3>3. QED
      BY <3>1, <3>2
  <2>6. h \in Ending
    BY <2>5 DEF Ending
  <2> HIDE DEF h
  <2>7. ASSUME NEW p \in Places, p >= m, NEW n \in Nat, NEW d \in Int
        PROVE  EndCell(b, h, p, n, d) = EndCell(b, g, p, n, d)
    <3>1. p + 1 \in Places /\ p + 1 # m /\ h[p + 1] = g[p + 1]
      BY <2>3, <2>7 DEF Places
    <3>2. Next1(b, h, p, d) = Next1(b, g, p, d)
      BY <3>1 DEF Next1
    <3>3. CASE n = 0 \/ value_step(b, p) = -1 \/ d = 0 \/ Next1(b, g, p, d) = 0
      BY <3>2, <3>3 DEF EndCell
    <3>4. CASE ~(n = 0 \/ value_step(b, p) = -1 \/ d = 0 \/ Next1(b, g, p, d) = 0)
      <4>0. Next1(b, g, p, d) \in Nat /\ Next1(b, g, p, d) > p
        BY <2>2, <2>7, <3>4, CellLater
      <4>1. Next1(b, g, p, d) \in Places /\ Next1(b, g, p, d) # m
        BY <2>7, <4>0 DEF Places
      <4>2. h[Next1(b, g, p, d)] = g[Next1(b, g, p, d)]
        BY <2>3, <4>1
      <4>3. QED
        BY <3>2, <3>4, <4>2 DEF EndCell
    <3>5. QED
      BY <3>3, <3>4
  <2>8. ASSUME NEW p \in Places, p >= m, NEW n \in Nat, NEW d \in Int
        PROVE  /\ h[p][n][d] = EndCell(b, h, p, n, d)
               /\ h[p][n][d] = 0 \/ h[p][n][d] >= p
    <3>1. CASE p = m
      <4>1. h[m][n][d] = EndCell(b, g, m, n, d)
        BY <2>4, <3>1
      <4>2. EndCell(b, g, m, n, d) = 0 \/ EndCell(b, g, m, n, d) >= m
        BY <2>5, <3>1
      <4>3. EndCell(b, h, p, n, d) = EndCell(b, g, p, n, d)
        BY <2>7, <2>8
      <4>4. QED
        BY <3>1, <4>1, <4>2, <4>3
    <3>2. CASE p # m
      <4>1. h[p] = g[p] /\ p >= m + 1
        BY <2>3, <2>8, <3>2 DEF Places
      <4>2. /\ g[p][n][d] = EndCell(b, g, p, n, d)
            /\ g[p][n][d] = 0 \/ g[p][n][d] >= p
        BY <2>2, <4>1 DEF EndsFrom
      <4>3. QED
        BY <2>7, <2>8, <4>1, <4>2
    <3>3. QED
      BY <3>1, <3>2
  <2>9. EndsFrom(b, h, m)
    BY <2>8 DEF EndsFrom
  <2>10. QED
    BY <2>6, <2>9
<1>4. Nat \subseteq S
  <2> HIDE DEF S
  <2>1. QED
    BY <1>1, <1>2, <1>3, Downward
<1>5. 0 \in S
  BY <1>4
<1>6. QED
  BY <1>5

\* The grammar is well defined: where a value ends, it ends after it begins.
LEMMA EndsEquation ==
  ASSUME NEW b \in Seq(AnyToken)
  PROVE  Ends(b) \in Ending /\ EndsFrom(b, Ends(b), 0)
<1>1. PICK g \in Ending : EndsFrom(b, g, 0)
  BY EndsExist
<1>2. g = [p \in Places |-> g[p]] /\ \A p \in Places : g[p] = [n \in Nat |-> [d \in Int |-> g[p][n][d]]]
  BY DEF Ending
<1>3. \A p \in Places : g[p] = EndRow(b, g, p)
  <2> TAKE p \in Places
  <2>1. \A n \in Nat, d \in Int : g[p][n][d] = EndCell(b, g, p, n, d)
    BY <1>1 DEF EndsFrom, Places
  <2>2. g[p] = [n \in Nat |-> [d \in Int |-> EndCell(b, g, p, n, d)]]
    BY <1>2, <2>1
  <2>3. QED
    BY <2>2, RowIs
<1>4. g = [p \in Places |-> EndRow(b, g, p)]
  BY <1>2, <1>3
<1>5. Ends(b) = [p \in Places |-> EndRow(b, Ends(b), p)]
  BY <1>4, EndsIs
<1> DEFINE f == Ends(b)
<1> HIDE DEF f
<1>6. \A p \in Places : f[p] = [n \in Nat |-> [d \in Int |-> EndCell(b, f, p, n, d)]]
  <2> TAKE p \in Places
  <2>1. f[p] = EndRow(b, f, p)
    BY <1>5 DEF f
  <2>2. QED
    BY <2>1, RowIs
<1> DEFINE S == {p \in Nat : p \in Places => f[p] = g[p]}
<1>7. ASSUME NEW p \in Nat, \A q \in Nat : q > p => q \in S
      PROVE  p \in S
  <2> SUFFICES ASSUME p \in Places PROVE f[p] = g[p]
    OBVIOUS
  <2>1. \A q \in Places : q > p => f[q] = g[q]
    BY <1>7 DEF Places
  <2>2. ASSUME NEW n \in Nat, NEW d \in Int
        PROVE  EndCell(b, f, p, n, d) = EndCell(b, g, p, n, d)
    <3>1. Next1(b, f, p, d) = Next1(b, g, p, d)
      <4>1. f[p + 1] = g[p + 1]
        BY <2>1 DEF Places
      <4>2. QED
        BY <4>1 DEF Next1
    <3>2. CASE n = 0 \/ value_step(b, p) = -1 \/ d = 0 \/ Next1(b, g, p, d) = 0
      BY <3>1, <3>2 DEF EndCell
    <3>3. CASE ~(n = 0 \/ value_step(b, p) = -1 \/ d = 0 \/ Next1(b, g, p, d) = 0)
      <4>1. EndsFrom(b, g, 0 + 1)
        BY <1>1 DEF EndsFrom, Places
      <4>2. Next1(b, g, p, d) \in Nat /\ Next1(b, g, p, d) > p
        <5>1. 0 \in Nat /\ p >= 0
          OBVIOUS
        <5>2. QED
          BY <1>1, <3>3, <4>1, <5>1, CellLater
      <4>3. f[Next1(b, g, p, d)] = g[Next1(b, g, p, d)]
        BY <2>1, <4>2 DEF Places
      <4>4. QED
        BY <3>1, <3>3, <4>3 DEF EndCell
    <3>4. QED
      BY <3>2, <3>3
  <2>3. [n \in Nat |-> [d \in Int |-> EndCell(b, f, p, n, d)]] = [n \in Nat |-> [d \in Int |-> EndCell(b, g, p, n, d)]]
    BY <2>2
  <2>4. g[p] = [n \in Nat |-> [d \in Int |-> EndCell(b, g, p, n, d)]]
    BY <1>3, RowIs
  <2>5. QED
    BY <1>6, <2>3, <2>4
<1>8. ASSUME NEW p \in Nat, p > Len(b)
      PROVE  p \in S
  <2> SUFFICES ASSUME p \in Places PROVE f[p] = g[p]
    OBVIOUS
  <2>1. value_step(b, p) = -1
    BY <1>8, StepType
  <2>2. \A n \in Nat, d \in Int : EndCell(b, f, p, n, d) = EndCell(b, g, p, n, d)
    BY <2>1 DEF EndCell
  <2>3. [n \in Nat |-> [d \in Int |-> EndCell(b, f, p, n, d)]] = [n \in Nat |-> [d \in Int |-> EndCell(b, g, p, n, d)]]
    BY <2>2
  <2>4. g[p] = [n \in Nat |-> [d \in Int |-> EndCell(b, g, p, n, d)]]
    BY <1>3, RowIs
  <2>5. QED
    BY <1>6, <2>3, <2>4
<1>9. Nat \subseteq S
  <2>1. Len(b) \in Nat
    OBVIOUS
  <2> HIDE DEF S
  <2>2. QED
    BY <1>7, <1>8, <2>1, Downward
<1>10. \A p \in Places : f[p] = g[p]
  BY <1>9 DEF Places
<1>11. f = [p \in Places |-> f[p]]
  BY <1>5 DEF f
<1>12. f = g
  BY <1>2, <1>10, <1>11
<1>13. QED
  BY <1>1, <1>12 DEF f

\* Where n values at p end, nested no deeper than d; 0 if they do not.
EndOf(b, p, n, d) == Ends(b)[p][n][d]

LEMMA EndOfIs ==
  ASSUME NEW b \in Seq(AnyToken), NEW p \in Places, NEW n \in Nat, NEW d \in Int
  PROVE  /\ EndOf(b, p, n, d) \in Nat
         /\ EndOf(b, p, n, d) = EndCell(b, Ends(b), p, n, d)
         /\ EndOf(b, p, n, d) = 0 \/ EndOf(b, p, n, d) >= p
<1>1. Ends(b) \in Ending /\ EndsFrom(b, Ends(b), 0)
  BY EndsEquation
<1>2. QED
  BY <1>1, EndingType DEF EndsFrom, EndOf, Places

\* The grammar, one value at a time: no value, a value that is not there or is
\* nested too deep, and one more value, what it holds ending at q.
LEMMA NoMore ==
  ASSUME NEW b \in Seq(AnyToken), NEW p \in Places, NEW d \in Int
  PROVE  EndOf(b, p, 0, d) = p
<1>1. EndOf(b, p, 0, d) = EndCell(b, Ends(b), p, 0, d)
  BY EndOfIs, 0 \in Nat
<1>2. QED
  BY <1>1 DEF EndCell

LEMMA NotThere ==
  ASSUME NEW b \in Seq(AnyToken), NEW p \in Places, NEW n \in Nat, NEW d \in Int,
         n # 0, value_step(b, p) = -1 \/ d = 0
  PROVE  EndOf(b, p, n, d) = 0
BY EndOfIs DEF EndCell

LEMMA OneMore ==
  ASSUME NEW b \in Seq(AnyToken), NEW p \in Places, NEW n \in Nat, NEW d \in Int,
         n # 0, value_step(b, p) # -1, d # 0,
         NEW q, q = EndOf(b, p + 1, value_step(b, p), d - 1)
  PROVE  /\ p <= Len(b) /\ value_step(b, p) \in Nat /\ n - 1 \in Nat /\ p + 1 \in Places
         /\ q = 0 => EndOf(b, p, n, d) = 0
         /\ q # 0 => q \in Places /\ q > p /\ EndOf(b, p, n, d) = EndOf(b, q, n - 1, d)
<1>1. p <= Len(b) /\ value_step(b, p) \in Nat /\ n - 1 \in Nat /\ p + 1 \in Places /\ d - 1 \in Int
  BY StepType DEF Places
<1>2. q \in Nat /\ (q = 0 \/ q >= p + 1)
  BY <1>1, EndOfIs
<1>3. EndOf(b, p, n, d) = IF q = 0 THEN 0 ELSE EndOf(b, q, n - 1, d)
  <2>1. EndOf(b, p, n, d) = EndCell(b, Ends(b), p, n, d)
    BY EndOfIs
  <2>2. q = Next1(b, Ends(b), p, d)
    BY DEF Next1, EndOf
  <2>3. QED
    BY <2>1, <2>2 DEF EndCell, EndOf
<1>4. QED
  BY <1>1, <1>2, <1>3 DEF Places

\* Downward, for places: what is proved of p may use what follows it where
\* there is a value at p.
LEMMA Backwards ==
  ASSUME NEW b \in Seq(AnyToken), NEW S,
         \A p \in Places : (p <= Len(b) => \A q \in Places : q > p => q \in S) => p \in S
  PROVE  Places \subseteq S
<1> DEFINE T == {p \in Nat : p \in Places => p \in S}
<1>1. Len(b) \in Nat
  OBVIOUS
<1>2. \A p \in Nat : p > Len(b) => p \in T
  BY <1>1 DEF Places
<1>3. ASSUME NEW p \in Nat, \A q \in Nat : q > p => q \in T
      PROVE  p \in T
  BY <1>3 DEF Places
<1>4. Nat \subseteq T
  <2> HIDE DEF T
  <2>1. QED
    BY <1>1, <1>2, <1>3, Downward
<1>5. QED
  BY <1>4 DEF Places

\* A negative limit is none.
LEMMA NoLimit ==
  ASSUME NEW b \in Seq(AnyToken)
  PROVE  \A p \in Places, n \in Nat, d, e \in Int :
           d < 0 /\ e < 0 => EndOf(b, p, n, d) = EndOf(b, p, n, e)
<1> DEFINE S == {p \in Places : \A n \in Nat, d, e \in Int :
                   d < 0 /\ e < 0 => EndOf(b, p, n, d) = EndOf(b, p, n, e)}
<1>1. ASSUME NEW p \in Places, p <= Len(b) => \A q \in Places : q > p => q \in S
      PROVE  p \in S
  <2> SUFFICES ASSUME NEW n \in Nat, NEW d \in Int, NEW e \in Int, d < 0, e < 0
               PROVE  EndOf(b, p, n, d) = EndOf(b, p, n, e)
    OBVIOUS
  <2>0. d # 0 /\ e # 0
    OBVIOUS
  <2>1. CASE n = 0 \/ value_step(b, p) = -1
    BY <2>1, NoMore, NotThere
  <2>2. CASE n # 0 /\ value_step(b, p) # -1
    <3> DEFINE q == EndOf(b, p + 1, value_step(b, p), d - 1)
    <3>1. p <= Len(b) /\ value_step(b, p) \in Nat /\ p + 1 \in Places
      BY <2>0, <2>2, OneMore
    <3>2. q = EndOf(b, p + 1, value_step(b, p), e - 1)
      <4>1. p + 1 \in S
        BY <1>1, <3>1 DEF Places
      <4>2. QED
        BY <3>1, <4>1
    <3>3. CASE q = 0
      <4>1. EndOf(b, p, n, d) = 0
        BY <2>0, <2>2, <3>3, OneMore
      <4>2. EndOf(b, p, n, e) = 0
        BY <2>0, <2>2, <3>2, <3>3, OneMore
      <4>3. QED
        BY <4>1, <4>2
    <3>4. CASE q # 0
      <4>1. q \in Places /\ q > p /\ n - 1 \in Nat /\ EndOf(b, p, n, d) = EndOf(b, q, n - 1, d)
        BY <2>0, <2>2, <3>4, OneMore
      <4>2. EndOf(b, p, n, e) = EndOf(b, q, n - 1, e)
        BY <2>0, <2>2, <3>2, <3>4, OneMore
      <4>3. q \in S
        BY <1>1, <3>1, <4>1
      <4> HIDE DEF q
      <4>4. QED
        BY <4>1, <4>2, <4>3
    <3>5. QED
      BY <3>3, <3>4
  <2>3. QED
    BY <2>1, <2>2
<1>2. Places \subseteq S
  <2> HIDE DEF S
  <2>1. QED
    BY <1>1, Backwards
<1>3. QED
  BY <1>2

\* A limit that is kept changes nothing.
LEMMA LimitKept ==
  ASSUME NEW b \in Seq(AnyToken)
  PROVE  \A p \in Places, n \in Nat, d \in Nat :
           EndOf(b, p, n, d) # 0 => EndOf(b, p, n, d) = EndOf(b, p, n, -1)
<1> DEFINE S == {p \in Places : \A n \in Nat, d \in Nat :
                   EndOf(b, p, n, d) # 0 => EndOf(b, p, n, d) = EndOf(b, p, n, -1)}
<1>1. ASSUME NEW p \in Places, p <= Len(b) => \A q \in Places : q > p => q \in S
      PROVE  p \in S
  <2> SUFFICES ASSUME NEW n \in Nat, NEW d \in Nat, EndOf(b, p, n, d) # 0
               PROVE  EndOf(b, p, n, d) = EndOf(b, p, n, -1)
    OBVIOUS
  <2>0. d \in Int /\ -1 \in Int /\ -1 # 0 /\ -2 \in Int /\ -1 - 1 = -2
    OBVIOUS
  <2>1. CASE n = 0
    BY <2>0, <2>1, NoMore
  <2>2. CASE n # 0
    <3> DEFINE q == EndOf(b, p + 1, value_step(b, p), d - 1)
    <3>1. value_step(b, p) # -1 /\ d # 0
      BY <2>0, <2>2, NotThere
    <3>2. p <= Len(b) /\ value_step(b, p) \in Nat /\ p + 1 \in Places
      BY <2>0, <2>2, <3>1, OneMore
    <3>3. q # 0 /\ q \in Places /\ q > p /\ n - 1 \in Nat /\ EndOf(b, p, n, d) = EndOf(b, q, n - 1, d)
      BY <2>0, <2>2, <3>1, OneMore
    <3>4. q = EndOf(b, p + 1, value_step(b, p), -1 - 1)
      <4>1. p + 1 \in S /\ d - 1 \in Nat
        BY <1>1, <3>1, <3>2 DEF Places
      <4>2. q = EndOf(b, p + 1, value_step(b, p), -1)
        BY <3>2, <3>3, <4>1
      <4>3. QED
        BY <2>0, <3>2, <4>2, NoLimit
    <3>5. EndOf(b, p, n, -1) = EndOf(b, q, n - 1, -1)
      BY <2>0, <2>2, <3>1, <3>3, <3>4, OneMore
    <3>6. q \in S
      BY <1>1, <3>2, <3>3
    <3> HIDE DEF q
    <3>7. QED
      BY <3>3, <3>5, <3>6
  <2>3. QED
    BY <2>1, <2>2
<1>2. Places \subseteq S
  <2> HIDE DEF S
  <2>1. QED
    BY <1>1, Backwards
<1>3. QED
  BY <1>2

\* Values one after the other: the second lot starts where the first ends.
After(b, e, c, d) == IF e = 0 THEN 0 ELSE EndOf(b, e, c, d)

LEMMA InARow ==
  ASSUME NEW b \in Seq(AnyToken), NEW d \in Int
  PROVE  \A p \in Places, a, c \in Nat :
           EndOf(b, p, a + c, d) = After(b, EndOf(b, p, a, d), c, d)
<1> DEFINE S == {p \in Places : \A a, c \in Nat :
                   EndOf(b, p, a + c, d) = After(b, EndOf(b, p, a, d), c, d)}
<1>1. ASSUME NEW p \in Places, p <= Len(b) => \A q \in Places : q > p => q \in S
      PROVE  p \in S
  <2> SUFFICES ASSUME NEW a \in Nat, NEW c \in Nat
               PROVE  EndOf(b, p, a + c, d) = After(b, EndOf(b, p, a, d), c, d)
    OBVIOUS
  <2>1. CASE a = 0
    <3>1. EndOf(b, p, a, d) = p /\ p # 0 /\ a + c = c
      BY <2>1, NoMore DEF Places
    <3>2. QED
      BY <3>1 DEF After
  <2>2. CASE a # 0 /\ (value_step(b, p) = -1 \/ d = 0)
    <3>1. a + c # 0 /\ a + c \in Nat
      BY <2>2
    <3>2. EndOf(b, p, a, d) = 0 /\ EndOf(b, p, a + c, d) = 0
      BY <2>2, <3>1, NotThere
    <3>3. QED
      BY <3>2 DEF After
  <2>3. CASE a # 0 /\ value_step(b, p) # -1 /\ d # 0
    <3> DEFINE q == EndOf(b, p + 1, value_step(b, p), d - 1)
    <3>1. a + c # 0 /\ a + c \in Nat /\ a - 1 \in Nat /\ (a + c) - 1 = (a - 1) + c
      BY <2>3
    <3>2. /\ p <= Len(b)
          /\ q = 0 => EndOf(b, p, a, d) = 0
          /\ q # 0 => q \in Places /\ q > p /\ EndOf(b, p, a, d) = EndOf(b, q, a - 1, d)
      <4>1. a # 0 /\ value_step(b, p) # -1 /\ d # 0 /\ q = EndOf(b, p + 1, value_step(b, p), d - 1)
        BY <2>3
      <4> HIDE DEF q
      <4>2. QED
        BY <4>1, OneMore
    <3>3. /\ q = 0 => EndOf(b, p, a + c, d) = 0
          /\ q # 0 => EndOf(b, p, a + c, d) = EndOf(b, q, (a - 1) + c, d)
      BY <2>3, <3>1, OneMore
    <3> HIDE DEF q
    <3>4. CASE q = 0
      BY <3>2, <3>3, <3>4 DEF After
    <3>5. CASE q # 0
      <4>1. q \in S
        BY <1>1, <3>2, <3>5
      <4>2. EndOf(b, q, (a - 1) + c, d) = After(b, EndOf(b, q, a - 1, d), c, d)
        BY <3>1, <4>1
      <4>3. QED
        BY <3>2, <3>3, <3>5, <4>2
    <3>6. QED
      BY <3>4, <3>5
  <2>4. QED
    BY <2>1, <2>2, <2>3
<1>2. Places \subseteq S
  <2> HIDE DEF S
  <2>1. QED
    BY <1>1, Backwards
<1>3. QED
  BY <1>2

-----------------------------------------------------------------------------
(* skip against the grammar. *)

\* Over one header: its children are to come next.
LEMMA HeaderRead ==
  ASSUME NEW b \in Seq(AnyToken), NEW q \in Places, NEW r \in Nat, r # 0, value_step(b, q) # -1
  PROVE  /\ value_step(b, q) \in Nat /\ r - 1 + value_step(b, q) \in Nat
         /\ EndOf(b, q, r, -1) = EndOf(b, q + 1, r - 1 + value_step(b, q), -1)
<1> DEFINE m == value_step(b, q)
           e == EndOf(b, q + 1, m, -1)
<1>0. -1 \in Int /\ -1 # 0 /\ -2 \in Int /\ -1 - 1 = -2
  OBVIOUS
<1>1. m \in Nat /\ r - 1 \in Nat /\ q + 1 \in Places
  BY <1>0, OneMore
<1>2. e = EndOf(b, q + 1, m, -1 - 1)
  BY <1>0, <1>1, NoLimit
<1>3. EndOf(b, q, r, -1) = After(b, e, r - 1, -1)
  BY <1>0, <1>2, OneMore DEF After
<1>4. m + (r - 1) \in Nat /\ r - 1 + m = m + (r - 1)
  BY <1>1
<1>5. EndOf(b, q + 1, m + (r - 1), -1) = After(b, e, r - 1, -1)
  BY <1>0, <1>1, InARow
<1>6. QED
  BY <1>1, <1>3, <1>4, <1>5

\* skip's one counter does for a stack: with remaining values to pass at q it
\* stops where they end, or goes back to p.
LEMMA SkipMeets ==
  ASSUME NEW b \in Seq(AnyToken), NEW p
  PROVE  \A q \in Places, remaining \in Nat :
           SkipLoop(b, p)[q][remaining] = IF EndOf(b, q, remaining, -1) = 0 THEN p
                                          ELSE EndOf(b, q, remaining, -1)
<1> DEFINE S == {q \in Places : \A remaining \in Nat :
                   SkipLoop(b, p)[q][remaining] = IF EndOf(b, q, remaining, -1) = 0 THEN p
                                                  ELSE EndOf(b, q, remaining, -1)}
<1>1. ASSUME NEW q \in Places, q <= Len(b) => \A k \in Places : k > q => k \in S
      PROVE  q \in S
  <2> SUFFICES ASSUME NEW r \in Nat
               PROVE  SkipLoop(b, p)[q][r] = IF EndOf(b, q, r, -1) = 0 THEN p
                                             ELSE EndOf(b, q, r, -1)
    OBVIOUS
  <2>0. -1 \in Int /\ -1 # 0 /\ -2 \in Int /\ -1 - 1 = -2
    OBVIOUS
  <2>a. SkipLoop(b, p)[q][r] = IF r = 0 THEN q
                               ELSE IF value_step(b, q) = -1 THEN p
                               ELSE SkipLoop(b, p)[q + 1][r - 1 + value_step(b, q)]
    <3>1. SkipLoop(b, p)[q] = SkipRow(b, p, SkipLoop(b, p), q)
      BY SkipEquation
    <3>2. QED
      BY <3>1 DEF SkipRow
  <2>1. CASE r = 0
    BY <2>0, <2>1, <2>a, NoMore DEF Places
  <2>2. CASE r # 0 /\ value_step(b, q) = -1
    BY <2>0, <2>2, <2>a, NotThere
  <2>3. CASE r # 0 /\ value_step(b, q) # -1
    <3>1. q <= Len(b) /\ q + 1 \in Places /\ q + 1 > q
      BY <2>0, <2>3, OneMore DEF Places
    <3>2. /\ r - 1 + value_step(b, q) \in Nat
          /\ EndOf(b, q, r, -1) = EndOf(b, q + 1, r - 1 + value_step(b, q), -1)
      BY <2>3, HeaderRead
    <3>3. q + 1 \in S
      BY <1>1, <3>1
    <3>4. SkipLoop(b, p)[q][r] = SkipLoop(b, p)[q + 1][r - 1 + value_step(b, q)]
      BY <2>3, <2>a
    <3>5. QED
      BY <3>2, <3>3, <3>4
  <2>4. QED
    BY <2>1, <2>2, <2>3
<1>2. Places \subseteq S
  <2> HIDE DEF S
  <2>1. QED
    BY <1>1, Backwards
<1>3. QED
  BY <1>2

LEMMA SkipIsEnd ==
  ASSUME NEW b \in Seq(AnyToken), NEW p \in Places
  PROVE  skip(b, p) = IF EndOf(b, p, 1, -1) = 0 THEN p ELSE EndOf(b, p, 1, -1)
BY SkipIs, SkipMeets, 1 \in Nat

-----------------------------------------------------------------------------
(* validate's loop. *)

LEMMA NothingUnfinished == Unfinished(<<>>) = <<>>
<1>1. {i \in 1..Len(<<>>) : <<>>[i] > 0} = {}
  OBVIOUS
<1>2. QED
  BY <1>1 DEF Unfinished

LEMMA GreatestNumber ==
  ASSUME NEW N \in Nat, NEW T \in SUBSET (1..N), T # {}
  PROVE  \E m \in T : \A k \in T : k <= m
<1> DEFINE D == {N - k : k \in T}
<1>1. D \in SUBSET Nat /\ D # {}
  <2>1. PICK k \in T : TRUE
    OBVIOUS
  <2>2. N - k \in D
    BY <2>1
  <2>3. \A j \in T : N - j \in Nat
    OBVIOUS
  <2>4. QED
    BY <2>2, <2>3
<1>2. PICK m \in D : \A k \in D : m <= k
  BY <1>1, LeastNumber
<1>3. PICK i \in T : m = N - i
  BY <1>2
<1>4. \A k \in T : N - i <= N - k
  BY <1>2, <1>3
<1>5. QED
  BY <1>3, <1>4

UpTo(s, open) ==
  SubSeq(s, 1, IF open = {} THEN 0 ELSE CHOOSE i \in open : \A j \in open : j <= i)

LEMMA FinishedLeft ==
  ASSUME NEW s \in Seq(Nat)
  PROVE  Unfinished(Append(s, 0)) = Unfinished(s)
<1> DEFINE open == {i \in 1..Len(s) : s[i] > 0}
           last == IF open = {} THEN 0 ELSE CHOOSE i \in open : \A j \in open : j <= i
<1>1. {i \in 1..Len(Append(s, 0)) : Append(s, 0)[i] > 0} = open
  OBVIOUS
<1>2. Unfinished(Append(s, 0)) = SubSeq(Append(s, 0), 1, last)
  <2>1. Unfinished(Append(s, 0)) = UpTo(Append(s, 0), {i \in 1..Len(Append(s, 0)) : Append(s, 0)[i] > 0})
    BY DEF Unfinished, UpTo
  <2>2. Unfinished(Append(s, 0)) = UpTo(Append(s, 0), open)
    BY <1>1, <2>1
  <2>3. QED
    BY <2>2 DEF UpTo
<1>3. Unfinished(s) = SubSeq(s, 1, last)
  BY DEF Unfinished
<1>4. last \in 0..Len(s)
  <2>1. CASE open = {}
    BY <2>1
  <2>2. CASE open # {}
    <3>1. open \in SUBSET (1..Len(s)) /\ Len(s) \in Nat
      OBVIOUS
    <3>2. \E i \in open : \A j \in open : j <= i
      BY <2>2, <3>1, GreatestNumber
    <3>3. last \in open
      BY <2>2, <3>2
    <3>4. QED
      BY <3>1, <3>3
  <2>3. QED
    BY <2>1, <2>2
<1> HIDE DEF last
<1>5. SubSeq(Append(s, 0), 1, last) = SubSeq(s, 1, last)
  BY <1>4
<1>6. QED
  BY <1>2, <1>3, <1>5

LEMMA UnfinishedKept ==
  ASSUME NEW s \in Seq(Nat), NEW n \in Nat, n # 0
  PROVE  Unfinished(Append(s, n)) = Append(s, n)
<1> DEFINE t == Append(s, n)
           open == {i \in 1..Len(t) : t[i] > 0}
<1>1. t \in Seq(Nat) /\ Len(t) = Len(s) + 1 /\ t[Len(t)] = n
  OBVIOUS
<1> HIDE DEF t
<1>2. Len(t) \in open /\ \A j \in open : j <= Len(t)
  BY <1>1
<1>3. (CHOOSE i \in open : \A j \in open : j <= i) = Len(t)
  BY <1>1, <1>2
<1>4. Unfinished(t) = SubSeq(t, 1, Len(t))
  BY <1>2, <1>3 DEF Unfinished
<1>5. QED
  BY <1>1, <1>4 DEF t

\* One turn of the loop at p, its stack freed of what is finished.
Turn(b, max_depth, f, p, stack) ==
  LET depth == Len(stack)
      children == value_step(b, p)
      left == [stack EXCEPT ![depth] = @ - 1]
  IN  IF depth = 0 THEN p = Len(b) + 1
      ELSE /\ children # -1
           /\ children = 0 \/ depth < max_depth
           /\ f[p + 1][IF children = 0 THEN left ELSE Append(left, children)]

ValidRow(b, max_depth, f, p) ==
  [s \in Seq(Nat) |-> Turn(b, max_depth, f, p, Unfinished(s))]

ValidLoop(b, max_depth) ==
  CHOOSE f : f = [p \in Places |-> ValidRow(b, max_depth, f, p)]

LEMMA ValidateIs ==
  ASSUME NEW b, NEW d
  PROVE  validate(b, d) <=> b # <<>> /\ d # 0 /\ d <= MAX_DEPTH /\ ValidLoop(b, d)[1][<<1>>]
BY DEF validate, ValidLoop, ValidRow, Turn

LEMMA ValidEquation ==
  ASSUME NEW b \in Seq(AnyToken), NEW d
  PROVE  ValidLoop(b, d) = [p \in Places |-> ValidRow(b, d, ValidLoop(b, d), p)]
<1> DEFINE S == {m \in Nat : \E g : /\ g = [p \in Places |-> g[p]]
                                   /\ \A p \in Places : p >= m => g[p] = ValidRow(b, d, g, p)}
<1>1. Len(b) \in Nat
  OBVIOUS
<1>2. ASSUME NEW m \in Nat, m > Len(b)
      PROVE  m \in S
  <2> DEFINE g == [p \in Places |-> ValidRow(b, d, <<>>, p)]
  <2>1. ASSUME NEW p \in Places, p >= m
        PROVE  g[p] = ValidRow(b, d, g, p)
    <3>1. value_step(b, p) = -1
      BY <1>1, <1>2, <2>1, StepType DEF Places
    <3>2. \A f, stack : Turn(b, d, f, p, stack) = (Len(stack) = 0 /\ p = Len(b) + 1)
      BY <3>1 DEF Turn
    <3>3. \A f : ValidRow(b, d, f, p) = [s \in Seq(Nat) |-> Len(Unfinished(s)) = 0 /\ p = Len(b) + 1]
      BY <3>2 DEF ValidRow
    <3>4. QED
      BY <3>3
  <2>2. g = [p \in Places |-> g[p]]
    OBVIOUS
  <2> HIDE DEF g
  <2>3. QED
    BY <2>1, <2>2
<1>3. ASSUME NEW m \in Nat, m <= Len(b), \A k \in Nat : k > m => k \in S
      PROVE  m \in S
  <2>1. m + 1 \in S
    BY <1>3
  <2>2. PICK g : /\ g = [p \in Places |-> g[p]]
                 /\ \A p \in Places : p >= m + 1 => g[p] = ValidRow(b, d, g, p)
    BY <2>1
  <2> DEFINE h == [p \in Places |-> IF p = m THEN ValidRow(b, d, g, p) ELSE g[p]]
  <2>3. ASSUME NEW p \in Places, p >= m
        PROVE  h[p] = ValidRow(b, d, h, p)
    <3>1. p + 1 \in Places /\ p + 1 # m /\ h[p + 1] = g[p + 1]
      BY <2>3 DEF Places
    <3>2. ValidRow(b, d, h, p) = ValidRow(b, d, g, p)
      BY <3>1 DEF ValidRow, Turn
    <3>3. h[p] = ValidRow(b, d, g, p)
      BY <2>2, <2>3 DEF Places
    <3>4. QED
      BY <3>2, <3>3
  <2>4. h = [p \in Places |-> h[p]]
    OBVIOUS
  <2> HIDE DEF h
  <2>5. QED
    BY <2>3, <2>4
<1>4. Nat \subseteq S
  <2> HIDE DEF S
  <2>1. QED
    BY <1>1, <1>2, <1>3, Downward
<1>5. 0 \in S
  BY <1>4
<1>6. PICK g : /\ g = [p \in Places |-> g[p]]
               /\ \A p \in Places : p >= 0 => g[p] = ValidRow(b, d, g, p)
  BY <1>5
<1>7. g = [p \in Places |-> ValidRow(b, d, g, p)]
  BY <1>6 DEF Places
<1>8. QED
  BY <1>7 DEF ValidLoop

-----------------------------------------------------------------------------
(* validate against the grammar. *)

Accepts(b, d, p, s) == ValidLoop(b, d)[p][s]

LEMMA AcceptsIs ==
  ASSUME NEW b \in Seq(AnyToken), NEW d, NEW p \in Places, NEW s \in Seq(Nat)
  PROVE  Accepts(b, d, p, s) = Turn(b, d, ValidLoop(b, d), p, Unfinished(s))
<1>1. ValidLoop(b, d)[p] = ValidRow(b, d, ValidLoop(b, d), p)
  BY ValidEquation
<1>2. QED
  BY <1>1 DEF ValidRow, Accepts

LEMMA AcceptsAtEnd ==
  ASSUME NEW b \in Seq(AnyToken), NEW d, NEW p \in Places
  PROVE  Accepts(b, d, p, <<>>) <=> p = Len(b) + 1
<1>1. Len(<<>>) = 0 /\ <<>> \in Seq(Nat)
  OBVIOUS
<1>2. QED
  BY <1>1, AcceptsIs, NothingUnfinished DEF Turn

\* The innermost container has n values to come.
LEMMA AcceptsOpen ==
  ASSUME NEW b \in Seq(AnyToken), NEW d \in Nat, NEW p \in Places,
         NEW s \in Seq(Nat), NEW n \in Nat, n # 0
  PROVE  /\ Append(s, n - 1) \in Seq(Nat) /\ Len(Append(s, n - 1)) = Len(s) + 1
         /\ Accepts(b, d, p, Append(s, n)) <=>
              /\ value_step(b, p) # -1
              /\ value_step(b, p) = 0 \/ Len(s) + 1 < d
              /\ Accepts(b, d, p + 1, IF value_step(b, p) = 0 THEN Append(s, n - 1)
                                      ELSE Append(Append(s, n - 1), value_step(b, p)))
<1> DEFINE t == Append(s, n)
<1>1. t \in Seq(Nat) /\ Len(t) = Len(s) + 1 /\ Len(t) # 0 /\ n - 1 \in Nat
  OBVIOUS
<1>2. [t EXCEPT ![Len(t)] = @ - 1] = Append(s, n - 1)
  <2> DEFINE u == [t EXCEPT ![Len(t)] = @ - 1]
  <2>1. u \in Seq(Nat) /\ Len(u) = Len(s) + 1
    BY <1>1
  <2>2. Append(s, n - 1) \in Seq(Nat) /\ Len(Append(s, n - 1)) = Len(s) + 1
    BY <1>1
  <2>3. ASSUME NEW i \in 1..Len(s) + 1
        PROVE  u[i] = Append(s, n - 1)[i]
    <3>1. CASE i = Len(s) + 1
      <4>1. u[i] = n - 1
        BY <1>1, <3>1
      <4>2. Append(s, n - 1)[i] = n - 1
        BY <3>1
      <4>3. QED
        BY <4>1, <4>2
    <3>2. CASE i \in 1..Len(s)
      <4>0. i # Len(t) /\ i \in DOMAIN t /\ t[i] = s[i]
        BY <1>1, <3>2
      <4>1. u[i] = s[i]
        BY <4>0
      <4>2. Append(s, n - 1)[i] = s[i]
        BY <3>2
      <4>3. QED
        BY <4>1, <4>2
    <3>3. QED
      BY <3>1, <3>2
  <2> HIDE DEF u
  <2>4. u = Append(s, n - 1)
    BY <2>1, <2>2, <2>3
  <2>5. QED
    BY <2>4 DEF u
<1>3. Accepts(b, d, p, t) = Turn(b, d, ValidLoop(b, d), p, t)
  BY <1>1, AcceptsIs, UnfinishedKept
<1>4. Append(s, n - 1) \in Seq(Nat) /\ Len(Append(s, n - 1)) = Len(s) + 1
  BY <1>1
<1> HIDE DEF t
<1>5. Turn(b, d, ValidLoop(b, d), p, t) <=>
              /\ value_step(b, p) # -1
              /\ value_step(b, p) = 0 \/ Len(s) + 1 < d
              /\ ValidLoop(b, d)[p + 1][IF value_step(b, p) = 0 THEN Append(s, n - 1)
                                        ELSE Append(Append(s, n - 1), value_step(b, p))]
  BY <1>1, <1>2 DEF Turn
<1>6. QED
  BY <1>3, <1>4, <1>5 DEF Accepts, t

\* The stack of counts agrees with the grammar: with n values to come in a
\* container at depth Len(s), the rest is accepted when those values end, no
\* deeper than is left, where the enclosing containers accept.
LEMMA StackMeets ==
  ASSUME NEW b \in Seq(AnyToken), NEW d \in Nat
  PROVE  \A p \in Places, s \in Seq(Nat), n \in Nat :
           Len(s) < d =>
             (Accepts(b, d, p, Append(s, n)) <=>
                /\ EndOf(b, p, n, d - Len(s)) # 0
                /\ Accepts(b, d, EndOf(b, p, n, d - Len(s)), s))
<1> DEFINE S == {p \in Places : \A s \in Seq(Nat), n \in Nat :
                   Len(s) < d =>
                     (Accepts(b, d, p, Append(s, n)) <=>
                        /\ EndOf(b, p, n, d - Len(s)) # 0
                        /\ Accepts(b, d, EndOf(b, p, n, d - Len(s)), s))}
<1>1. ASSUME NEW p \in Places, p <= Len(b) => \A q \in Places : q > p => q \in S
      PROVE  p \in S
  <2> SUFFICES ASSUME NEW s \in Seq(Nat), NEW n \in Nat, Len(s) < d
               PROVE  Accepts(b, d, p, Append(s, n)) <=>
                        /\ EndOf(b, p, n, d - Len(s)) # 0
                        /\ Accepts(b, d, EndOf(b, p, n, d - Len(s)), s)
    OBVIOUS
  <2> DEFINE k == d - Len(s)
             v == value_step(b, p)
             t == Append(s, n - 1)
             q == EndOf(b, p + 1, v, k - 1)
             r == EndOf(b, q, n - 1, k)
  <2>0. k \in Nat /\ k \in Int /\ k # 0 /\ k - 1 \in Nat /\ k - 1 \in Int
    OBVIOUS
  <2>1. CASE n = 0
    <3>1. EndOf(b, p, n, k) = p /\ p # 0
      BY <2>0, <2>1, NoMore DEF Places
    <3>2. Accepts(b, d, p, Append(s, n)) = Accepts(b, d, p, s)
      <4>1. Append(s, 0) \in Seq(Nat)
        OBVIOUS
      <4>2. Accepts(b, d, p, Append(s, 0)) = Turn(b, d, ValidLoop(b, d), p, Unfinished(Append(s, 0)))
        BY <4>1, AcceptsIs
      <4>3. Accepts(b, d, p, s) = Turn(b, d, ValidLoop(b, d), p, Unfinished(s))
        BY AcceptsIs
      <4>4. QED
        BY <2>1, <4>2, <4>3, FinishedLeft
    <3>3. QED
      BY <3>1, <3>2
  <2>2. CASE n # 0 /\ v = -1
    <3>1. EndOf(b, p, n, k) = 0
      BY <2>0, <2>2, NotThere
    <3>2. ~Accepts(b, d, p, Append(s, n))
      BY <2>2, AcceptsOpen
    <3>3. QED
      BY <3>1, <3>2
  <2>3. CASE n # 0 /\ v # -1
    <3>1. /\ p <= Len(b) /\ v \in Nat /\ n - 1 \in Nat /\ p + 1 \in Places /\ p + 1 > p
          /\ t \in Seq(Nat) /\ Len(t) = Len(s) + 1
      BY <2>0, <2>3, OneMore, AcceptsOpen DEF Places
    <3>2. \A j \in Places : j > p => j \in S
      BY <1>1, <3>1
    <3>3. Accepts(b, d, p, Append(s, n)) <=>
            /\ v = 0 \/ Len(t) < d
            /\ Accepts(b, d, p + 1, IF v = 0 THEN t ELSE Append(t, v))
      BY <2>3, <3>1, AcceptsOpen
    <3>4. /\ q = 0 => EndOf(b, p, n, k) = 0
          /\ q # 0 => q \in Places /\ q > p /\ EndOf(b, p, n, k) = r
      <4>1. n # 0 /\ value_step(b, p) # -1 /\ k # 0 /\ q = EndOf(b, p + 1, value_step(b, p), k - 1)
        BY <2>0, <2>3
      <4> HIDE DEF k, q
      <4>2. QED
        BY <2>0, <4>1, OneMore
    <3>5. ASSUME NEW j \in Places, j > p
          PROVE  Accepts(b, d, j, t) <=> /\ EndOf(b, j, n - 1, k) # 0
                                         /\ Accepts(b, d, EndOf(b, j, n - 1, k), s)
      BY <3>1, <3>2, <3>5
    <3>6. CASE v = 0
      <4>1. q = p + 1
        BY <2>0, <3>1, <3>6, NoMore
      <4>2. Accepts(b, d, p, Append(s, n)) <=> Accepts(b, d, p + 1, t)
        BY <3>3, <3>6
      <4>3. q # 0 /\ EndOf(b, p, n, k) = EndOf(b, p + 1, n - 1, k)
        BY <3>1, <3>4, <4>1 DEF Places
      <4> HIDE DEF k, q, r, t, v
      <4>4. QED
        BY <3>1, <3>5, <4>2, <4>3 DEF k
    <3>7. CASE v # 0 /\ ~(Len(t) < d)
      <4>1. k - 1 = 0
        BY <3>1, <3>7
      <4>2. q = 0
        BY <2>0, <3>1, <3>7, <4>1, NotThere
      <4>3. ~Accepts(b, d, p, Append(s, n))
        BY <3>3, <3>7
      <4>4. QED
        BY <3>4, <4>2, <4>3
    <3>8. CASE v # 0 /\ Len(t) < d
      <4>1. Accepts(b, d, p, Append(s, n)) <=> Accepts(b, d, p + 1, Append(t, v))
        BY <3>3, <3>8
      <4>2. d - Len(t) = k - 1
        BY <3>1
      <4>3. Accepts(b, d, p + 1, Append(t, v)) <=> q # 0 /\ Accepts(b, d, q, t)
        BY <3>1, <3>2, <3>8, <4>2
      <4>4. CASE q = 0
        BY <3>4, <4>1, <4>3, <4>4
      <4>5. CASE q # 0
        <5>1. q \in Places /\ q > p /\ EndOf(b, p, n, k) = r
          BY <3>4, <4>5
        <5>2. Accepts(b, d, q, t) <=> r # 0 /\ Accepts(b, d, r, s)
          BY <3>5, <5>1
        <5> HIDE DEF k, q, r, t, v
        <5>3. QED
          BY <4>1, <4>3, <4>5, <5>1, <5>2 DEF k
      <4>6. QED
        BY <4>4, <4>5
    <3>9. QED
      BY <3>6, <3>7, <3>8
  <2>4. QED
    BY <2>1, <2>2, <2>3
<1>2. Places \subseteq S
  <2> HIDE DEF S
  <2>1. QED
    BY <1>1, Backwards
<1>3. QED
  BY <1>2

LEMMA ValidateMeets ==
  ASSUME NEW b \in Seq(AnyToken), NEW d \in Nat
  PROVE  validate(b, d) <=> d # 0 /\ d <= MAX_DEPTH /\ EndOf(b, 1, 1, d) = Len(b) + 1
<1>1. validate(b, d) <=> b # <<>> /\ d # 0 /\ d <= MAX_DEPTH /\ Accepts(b, d, 1, <<1>>)
  BY ValidateIs DEF Accepts
<1>2. 1 \in Places /\ 1 \in Nat /\ d \in Int /\ Len(b) \in Nat
  BY DEF Places
<1>3. ASSUME d # 0
      PROVE  Accepts(b, d, 1, <<1>>) <=> EndOf(b, 1, 1, d) = Len(b) + 1
  <2> DEFINE e == EndOf(b, 1, 1, d)
  <2>1. <<>> \in Seq(Nat) /\ Len(<<>>) = 0 /\ Append(<<>>, 1) = <<1>> /\ d - 0 = d /\ 0 < d
    BY <1>3
  <2>2. Accepts(b, d, 1, Append(<<>>, 1)) <=>
          EndOf(b, 1, 1, d - Len(<<>>)) # 0 /\ Accepts(b, d, EndOf(b, 1, 1, d - Len(<<>>)), <<>>)
    BY <1>2, <2>1, StackMeets
  <2>3. Accepts(b, d, 1, <<1>>) <=> e # 0 /\ Accepts(b, d, e, <<>>)
    BY <2>1, <2>2
  <2>4. e \in Nat
    BY <1>2, EndOfIs
  <2> HIDE DEF e
  <2>5. e # 0 => (Accepts(b, d, e, <<>>) <=> e = Len(b) + 1)
    BY <2>4, AcceptsAtEnd DEF Places
  <2>6. QED
    BY <1>2, <2>3, <2>5 DEF e
<1>4. ASSUME b = <<>>
      PROVE  EndOf(b, 1, 1, d) # Len(b) + 1
  <2>0. Len(b) = 0 /\ 1 > Len(b)
    BY <1>4
  <2>1. value_step(b, 1) = -1
    BY <1>2, <2>0, StepType
  <2>2. EndOf(b, 1, 1, d) = 0
    BY <1>2, <2>1, NotThere
  <2>3. QED
    BY <1>2, <2>2
<1>5. QED
  BY <1>1, <1>3, <1>4

-----------------------------------------------------------------------------
(* The writer and the caller of the reader. *)

Typed ==
  /\ buf \in Seq(AnyToken) /\ asked \in Seq(AnyToken) /\ payload \in Seq(AnyToken)
  /\ pos \in Places /\ todo \in Nat

\* What was written is what was asked for while no error is latched, and what
\* was given out is still what was asked for.
Kept ==
  /\ error = "none" => buf = asked
  /\ payload # <<>> => payload = asked

\* The values still expected take the rest of the payload.
Expected == EndOf(payload, pos, todo, -1) = Len(payload) + 1

IInv == Typed /\ Kept /\ Expected

\* Where values are to come, skip moves to the end of the first of them.
LEMMA ValueSkipped ==
  ASSUME NEW b \in Seq(AnyToken), NEW q \in Places, NEW r \in Nat, r # 0,
         EndOf(b, q, r, -1) # 0
  PROVE  /\ value_step(b, q) \in Nat
         /\ skip(b, q) \in Places /\ skip(b, q) # q /\ r - 1 \in Nat
         /\ EndOf(b, q, r, -1) = EndOf(b, skip(b, q), r - 1, -1)
<1> DEFINE e == EndOf(b, q + 1, value_step(b, q), -1 - 1)
<1>0. -1 \in Int /\ -1 # 0 /\ 1 \in Nat /\ 1 # 0 /\ 1 - 1 = 0
  OBVIOUS
<1>1. value_step(b, q) # -1
  BY <1>0, NotThere
<1>2. /\ value_step(b, q) \in Nat /\ r - 1 \in Nat
      /\ e = 0 => EndOf(b, q, r, -1) = 0
      /\ e # 0 => e \in Places /\ e > q /\ EndOf(b, q, r, -1) = EndOf(b, e, r - 1, -1)
  BY <1>0, <1>1, OneMore
<1>3. e # 0 => EndOf(b, q, 1, -1) = EndOf(b, e, 1 - 1, -1)
  BY <1>0, <1>1, OneMore
<1> HIDE DEF e
<1>4. e # 0 /\ e \in Places /\ e > q
  BY <1>2
<1>5. EndOf(b, q, 1, -1) = e
  BY <1>0, <1>3, <1>4, NoMore
<1>6. skip(b, q) = e
  BY <1>4, <1>5, SkipIsEnd
<1>7. QED
  BY <1>2, <1>4, <1>6 DEF Places

LEMMA IInvInit == Init => IInv
<1> SUFFICES ASSUME Init PROVE IInv
  OBVIOUS
<1>1. <<>> \in Seq(AnyToken) /\ Len(<<>>) = 0 /\ 1 \in Places /\ 0 \in Nat /\ -1 \in Int
  BY DEF Places
<1>2. Typed /\ Kept
  BY <1>1 DEF Init, Typed, Kept
<1>3. Expected
  <2>1. EndOf(<<>>, 1, 0, -1) = 1
    BY <1>1, NoMore
  <2>2. QED
    BY <1>1, <2>1 DEF Init, Expected
<1>4. QED
  BY <1>2, <1>3 DEF IInv

\* A call that writes ends the loan of the payload.
LEMMA LoanEnded ==
  ASSUME EndBorrow
  PROVE  payload' \in Seq(AnyToken) /\ pos' \in Places /\ todo' \in Nat /\ payload' = <<>> /\ Expected'
<1>1. <<>> \in Seq(AnyToken) /\ Len(<<>>) = 0 /\ 1 \in Places /\ 0 \in Nat /\ -1 \in Int
  BY DEF Places
<1>2. EndOf(<<>>, 1, 0, -1) = 1
  BY <1>1, NoMore
<1>3. QED
  BY <1>1, <1>2 DEF EndBorrow, Expected

LEMMA IInvWrites ==
  ASSUME IInv,
         \/ \E t \in Tokens : Write(t)
         \/ WriteInvalid
         \/ \E t \in Values : WriteNoMemory(t)
         \/ Reset
  PROVE  IInv'
<1>a. buf \in Seq(AnyToken) /\ asked \in Seq(AnyToken) /\ (error = "none" => buf = asked)
  BY DEF IInv, Typed, Kept
<1>b. Leaf \in AnyToken /\ Bad \in AnyToken /\ Values \subseteq AnyToken /\ Tokens \subseteq AnyToken
  BY TokensAny DEF Tokens, Values
<1>c. EndBorrow
  BY DEF Write, WriteInvalid, WriteNoMemory, Reset, Asks
<1>d. buf' \in Seq(AnyToken) /\ asked' \in Seq(AnyToken) /\ (error' = "none" => buf' = asked')
  <2>1. ASSUME NEW t \in Tokens, Write(t)
        PROVE  buf' \in Seq(AnyToken) /\ asked' \in Seq(AnyToken) /\ (error' = "none" => buf' = asked')
    BY <1>a, <1>b, <2>1 DEF Write, Asks
  <2>2. CASE WriteInvalid
    BY <1>a, <1>b, <2>2 DEF WriteInvalid, Asks
  <2>3. ASSUME NEW t \in Values, WriteNoMemory(t)
        PROVE  buf' \in Seq(AnyToken) /\ asked' \in Seq(AnyToken) /\ (error' = "none" => buf' = asked')
    BY <1>a, <1>b, <2>3 DEF WriteNoMemory, Asks
  <2>4. CASE Reset
    BY <2>4 DEF Reset
  <2>5. QED
    BY <2>1, <2>2, <2>3, <2>4
<1>e. QED
  BY <1>c, <1>d, LoanEnded DEF IInv, Typed, Kept

LEMMA IInvBytes ==
  ASSUME IInv, Bytes
  PROVE  IInv'
<1>a. /\ buf \in Seq(AnyToken) /\ asked \in Seq(AnyToken) /\ payload \in Seq(AnyToken)
      /\ pos \in Places /\ todo \in Nat
      /\ error = "none" => buf = asked
      /\ payload # <<>> => payload = asked
      /\ EndOf(payload, pos, todo, -1) = Len(payload) + 1
  BY DEF IInv, Typed, Kept, Expected
<1>1. CASE error = "none" /\ validate(buf, MAX_DEPTH)
  <2>1. payload' = buf /\ pos' = 1 /\ todo' = 1 /\ UNCHANGED writer
    BY <1>1 DEF Bytes
  <2>2. 1 \in Places /\ 1 \in Nat /\ MAX_DEPTH \in Nat
    BY MsgpackAssumption DEF Places
  <2>3. EndOf(buf, 1, 1, MAX_DEPTH) = Len(buf) + 1 /\ Len(buf) + 1 # 0
    BY <1>a, <1>1, <2>2, ValidateMeets
  <2>4. EndOf(buf, 1, 1, -1) = Len(buf) + 1
    BY <1>a, <2>2, <2>3, LimitKept
  <2>5. QED
    BY <1>a, <1>1, <2>1, <2>2, <2>4 DEF IInv, Typed, Kept, Expected, writer
<1>2. CASE ~(error = "none" /\ validate(buf, MAX_DEPTH))
  <2>1. error' # "none" /\ UNCHANGED <<buf, asked, payload, pos, todo>>
    BY <1>2 DEF Bytes, reader
  <2>2. QED
    BY <1>a, <2>1 DEF IInv, Typed, Kept, Expected
<1>3. QED
  BY <1>1, <1>2

LEMMA IInvReads ==
  ASSUME IInv, ReadValue \/ SkipValue
  PROVE  IInv'
<1>a. /\ payload \in Seq(AnyToken) /\ pos \in Places /\ todo \in Nat /\ todo # 0
      /\ EndOf(payload, pos, todo, -1) = Len(payload) + 1 /\ Len(payload) + 1 # 0
  BY DEF IInv, Typed, Expected, ReadValue, SkipValue
<1>b. UNCHANGED <<buf, error, asked, payload>>
  BY DEF ReadValue, SkipValue, writer
<1>1. pos' \in Places /\ todo' \in Nat /\ EndOf(payload, pos', todo', -1) = Len(payload) + 1
  <2>1. CASE ReadValue
    <3>1. /\ value_step(payload, pos) # -1 /\ pos' = pos + 1
          /\ todo' = todo - 1 + value_step(payload, pos)
      BY <2>1 DEF ReadValue
    <3>2. QED
      BY <1>a, <3>1, HeaderRead DEF Places
  <2>2. CASE SkipValue
    <3>1. pos' = skip(payload, pos) /\ todo' = todo - 1
      BY <2>2 DEF SkipValue
    <3>2. QED
      BY <1>a, <3>1, ValueSkipped
  <2>3. QED
    BY <2>1, <2>2
<1>2. QED
  BY <1>b, <1>1 DEF IInv, Typed, Kept, Expected

\* The inductive invariant of the writer and its payload's caller.
LEMMA IInvAlways == Spec => []IInv
<1>1. ASSUME IInv, [Next]_vars
      PROVE  IInv'
  <2>1. CASE Next
    BY <1>1, <2>1, IInvWrites, IInvBytes, IInvReads DEF Next
  <2>2. CASE UNCHANGED vars
    BY <1>1, <2>2 DEF vars, writer, reader, IInv, Typed, Kept, Expected
  <2>3. QED
    BY <1>1, <2>1, <2>2
<1>2. QED
  BY <1>1, IInvInit, PTL DEF Spec

-----------------------------------------------------------------------------
(* What the code promises. *)

\* validate, with its stack of counts, accepts exactly the buffers that hold
\* one complete value nested no deeper than asked for, whatever the writer
\* did: at every limit, for every ceiling, count and length.
THEOREM ValidateDecidesGrammar == Spec => []ValidateExact
<1>1. ASSUME IInv PROVE ValidateExact
  <2> SUFFICES ASSUME NEW d \in 0..(MAX_DEPTH + 1)
               PROVE  validate(buf, d) <=> d \in 1..MAX_DEPTH /\ OneValue(buf, d)
    BY DEF ValidateExact
  <2>1. buf \in Seq(AnyToken) /\ d \in Nat /\ MAX_DEPTH \in Nat
    BY <1>1, MsgpackAssumption DEF IInv, Typed
  <2>2. validate(buf, d) <=> d # 0 /\ d <= MAX_DEPTH /\ OneValue(buf, d)
    BY <2>1, ValidateMeets DEF OneValue, EndOf
  <2>3. QED
    BY <2>1, <2>2
<1>2. QED
  BY <1>1, IInvAlways, PTL

\* peios_mp_skip, with one counter instead of a stack, stops where the value
\* ends by the grammar, and stays where it was on a malformed one.
THEOREM SkipFindsEnd == Spec => []SkipExact
<1>1. ASSUME IInv PROVE SkipExact
  <2> SUFFICES ASSUME NEW p \in 1..Len(buf)
               PROVE  skip(buf, p) = IF Ends(buf)[p][1][-1] = 0 THEN p ELSE Ends(buf)[p][1][-1]
    BY DEF SkipExact
  <2>1. buf \in Seq(AnyToken) /\ p \in Places
    BY <1>1 DEF IInv, Typed, Places
  <2>2. QED
    BY <2>1, SkipIsEnd DEF EndOf
<1>2. QED
  BY <1>1, IInvAlways, PTL

\* What peios_mp_writer_bytes gives out is everything the caller wrote since
\* the last reset: the sticky error keeps a failed call from going missing.
THEOREM PayloadIsComplete == Spec => []NothingDropped
<1>1. IInv => NothingDropped
  BY DEF IInv, Kept, NothingDropped
<1>2. QED
  BY <1>1, IInvAlways, PTL

\* A caller that takes an accepted payload apart, following the counts that
\* read_array and read_map return and skipping what it likes, never runs out
\* of values and ends exactly at its end.
THEOREM PayloadIsConsumed == Spec => []DrainExact
<1>1. ASSUME IInv PROVE DrainExact
  <2>1. /\ payload \in Seq(AnyToken) /\ pos \in Places /\ todo \in Nat
        /\ EndOf(payload, pos, todo, -1) = Len(payload) + 1 /\ Len(payload) + 1 # 0
    BY <1>1 DEF IInv, Typed, Expected
  <2>2. todo # 0 => value_step(payload, pos) \in Nat /\ skip(payload, pos) # pos
    BY <2>1, ValueSkipped
  <2>3. todo = 0 => pos = Len(payload) + 1
    BY <2>1, NoMore, -1 \in Int
  <2>4. QED
    BY <2>1, <2>2, <2>3 DEF DrainExact
<1>2. QED
  BY <1>1, IInvAlways, PTL
=============================================================================
