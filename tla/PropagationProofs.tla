-------------------------- MODULE PropagationProofs --------------------------
(***************************************************************************)
(* Theorems about Propagation, for every hierarchy, every set of SIDs,     *)
(* rights, descriptors and edits, and every size of ACL:                   *)
(*                                                                         *)
(*   VisitKeepsExplicit   reinherit_with keeps explicit ACEs, the owner,   *)
(*                        the group, protection and lists not selected     *)
(*   StripFirstIsNothing  stripping first makes no difference to it        *)
(*   OnePassSettles       after one undisturbed walk, it changes nothing   *)
(*                                                                         *)
(* They rest on what the model's operators do, whatever the lists:         *)
(* Flattened is shown to exist and to follow concatenation by induction on *)
(* the number of its parts; from it, Explicits filters, keeps what is all  *)
(* explicit and distributes over concatenation; every ACE a parent passes  *)
(* is marked inherited (HandedInherited); so re-propagating one list       *)
(* twice is doing it once (ListAgain), and so for the whole descriptor     *)
(* (ReinheritAgain).  The inductive invariant WalkInv adds where the walk  *)
(* is: what is left is the end of the order, and every object an           *)
(* undisturbed walk is past is as a visit would leave it, which holds      *)
(* because a parent comes before its children and is not visited again.    *)
(***************************************************************************)
EXTENDS Propagation, WellFoundedInduction, SequenceTheorems, TLAPS

-----------------------------------------------------------------------------
(* Induction. *)

\* A set of naturals has a least element.
LEMMA LeastNumber ==
  ASSUME NEW T \in SUBSET Nat, T # {}
  PROVE  \E m \in T : \A k \in T : m <= k
<1> DEFINE R == OpToRel(<, Nat)
<1>1. IsWellFoundedOn(R, Nat)
  BY NatLessThanWellFounded
<1>2. \A j, k \in Nat : j < k => <<j, k>> \in R
  BY DEF OpToRel
<1> HIDE DEF R
<1>3. PICK m \in T : \A k \in T : <<k, m>> \notin R
  BY <1>1, WFMin
<1>4. ASSUME NEW k \in T, ~(m <= k)
      PROVE  FALSE
  <2>1. k \in Nat /\ m \in Nat /\ k < m
    BY <1>4
  <2>2. <<k, m>> \in R
    BY <1>2, <2>1
  <2>3. QED
    BY <1>3, <2>2
<1>5. QED
  BY <1>4

\* Induction, over a set.
LEMMA Induction ==
  ASSUME NEW S, 0 \in S, \A n \in Nat : n \in S => n + 1 \in S
  PROVE  Nat \subseteq S
<1> SUFFICES ASSUME Nat \ S # {} PROVE FALSE
  OBVIOUS
<1>1. PICK m \in Nat \ S : \A k \in Nat \ S : m <= k
  BY LeastNumber
<1>2. m - 1 \in Nat /\ m - 1 < m
  BY <1>1
<1>3. m - 1 \in S
  BY <1>1, <1>2
<1>4. (m - 1) + 1 \in S
  BY <1>2, <1>3
<1>5. QED
  BY <1>1, <1>4

-----------------------------------------------------------------------------
(* Flattened. *)

Joined(a, b) == a \o b

FlatFrom(g, seqs) ==
  [i \in 0..Len(seqs) |-> IF i = 0 THEN <<>> ELSE Joined(g[i - 1], seqs[i])]

FlatFun(seqs) == CHOOSE g : g = FlatFrom(g, seqs)

\* g steps as Flattened does over the first n parts.
Steps(g, seqs, n) ==
  g[0] = <<>> /\ \A i \in 1..n : g[i] = Joined(g[i - 1], seqs[i])

LEMMA FlattenedIs ==
  ASSUME NEW seqs
  PROVE  Flattened(seqs) = FlatFun(seqs)[Len(seqs)]
BY DEF Flattened, FlatFun, FlatFrom, Joined

LEMMA StepsIs ==
  ASSUME NEW seqs, Len(seqs) \in Nat, NEW g, g = FlatFrom(g, seqs)
  PROVE  Steps(g, seqs, Len(seqs))
<1> DEFINE N == Len(seqs)
<1>1. \A i \in 0..N : g[i] = IF i = 0 THEN <<>> ELSE Joined(g[i - 1], seqs[i])
  BY DEF FlatFrom
<1>2. 0 \in 0..N /\ \A i \in 1..N : i \in 0..N /\ i # 0
  OBVIOUS
<1> HIDE DEF N
<1>3. Steps(g, seqs, N)
  BY <1>1, <1>2 DEF Steps
<1>4. QED
  BY <1>3 DEF N

\* Its function exists, and keeps to the elements of the parts.
LEMMA FlatExists ==
  ASSUME NEW S, NEW seqs \in Seq(Seq(S))
  PROVE  \E g \in [0..Len(seqs) -> Seq(S)] : Steps(g, seqs, Len(seqs)) /\ g = FlatFrom(g, seqs)
<1> DEFINE N == Len(seqs)
           F == [0..N -> Seq(S)]
           T == {n \in Nat : n <= N => \E g \in F : Steps(g, seqs, n)}
<1>0. N \in Nat /\ \A i \in 1..N : seqs[i] \in Seq(S)
  OBVIOUS
<1> HIDE DEF N
<1>1. 0 \in T
  <2> DEFINE g == [i \in 0..N |-> <<>>]
  <2>1. 0 \in 0..N /\ <<>> \in Seq(S)
    BY <1>0
  <2>2. g \in F /\ g[0] = <<>>
    BY <2>1
  <2> HIDE DEF g, F
  <2>3. Steps(g, seqs, 0)
    BY <2>2 DEF Steps
  <2>4. QED
    BY <2>2, <2>3
<1>2. ASSUME NEW n \in Nat, n \in T
      PROVE  n + 1 \in T
  <2> SUFFICES ASSUME n + 1 <= N
               PROVE  \E g \in F : Steps(g, seqs, n + 1)
    <3> HIDE DEF F
    <3> QED
      OBVIOUS
  <2>1. n <= N /\ n \in 0..N /\ n + 1 \in 1..N /\ n + 1 \in 0..N
    BY <1>0
  <2>2. PICK g \in F : Steps(g, seqs, n)
    <3> HIDE DEF F
    <3> QED
      BY <1>2, <2>1
  <2> DEFINE j == Joined(g[n], seqs[n + 1])
             h == [g EXCEPT ![n + 1] = j]
  <2>3. j \in Seq(S)
    <3>1. g[n] \in Seq(S) /\ seqs[n + 1] \in Seq(S)
      BY <1>0, <2>1
    <3>2. QED
      BY <3>1 DEF Joined
  <2> HIDE DEF j
  <2>4. h \in F /\ h[n + 1] = j /\ \A i \in 0..N : i # n + 1 => h[i] = g[i]
    BY <2>1, <2>3
  <2> HIDE DEF h, F
  <2>5. h[0] = <<>>
    BY <1>0, <2>2, <2>4 DEF Steps
  <2>6. ASSUME NEW i \in 1..(n + 1)
        PROVE  h[i] = Joined(h[i - 1], seqs[i])
    <3>1. i - 1 \in 0..N /\ i - 1 # n + 1 /\ i \in 0..N
      BY <1>0, <2>1
    <3>2. CASE i = n + 1
      BY <2>4, <3>1, <3>2 DEF j
    <3>3. CASE i # n + 1
      <4>1. i \in 1..n /\ h[i] = g[i] /\ h[i - 1] = g[i - 1]
        BY <2>4, <3>1, <3>3
      <4>2. QED
        BY <2>2, <4>1 DEF Steps
    <3>4. QED
      BY <3>2, <3>3
  <2>7. Steps(h, seqs, n + 1)
    BY <2>5, <2>6 DEF Steps
  <2>8. QED
    BY <2>4, <2>7
<1>3. Nat \subseteq T
  <2> HIDE DEF T
  <2>1. QED
    BY <1>1, <1>2, Induction
<1>4. N \in T /\ N <= N
  BY <1>0, <1>3
<1>5. PICK g \in F : Steps(g, seqs, N)
  <2> HIDE DEF F
  <2> QED
    BY <1>4
<1>6. g = FlatFrom(g, seqs)
  <2>1. ASSUME NEW i \in 0..N
        PROVE  g[i] = IF i = 0 THEN <<>> ELSE Joined(g[i - 1], seqs[i])
    <3>1. i = 0 \/ i \in 1..N
      BY <1>0
    <3>2. QED
      BY <1>5, <3>1 DEF Steps
  <2>2. g = [i \in 0..N |-> g[i]]
    OBVIOUS
  <2>3. g = [i \in 0..N |-> IF i = 0 THEN <<>> ELSE Joined(g[i - 1], seqs[i])]
    BY <2>1, <2>2
  <2>4. QED
    BY <2>3 DEF FlatFrom, N
<1>7. QED
  BY <1>5, <1>6 DEF N

\* To know what Flattened gives, find a function that steps as it does.
LEMMA FlattenedBy ==
  ASSUME NEW S, NEW seqs \in Seq(Seq(S)), NEW g, Steps(g, seqs, Len(seqs))
  PROVE  Flattened(seqs) = g[Len(seqs)]
<1> DEFINE f == FlatFun(seqs)
           N == Len(seqs)
           T == {n \in Nat : n <= N => f[n] = g[n]}
<1>0. N \in Nat
  OBVIOUS
<1>a. f = FlatFrom(f, seqs)
  BY FlatExists DEF FlatFun
<1>b. Steps(f, seqs, N)
  <2> HIDE DEF f
  <2> QED
    BY <1>0, <1>a, StepsIs
<1>c. Flattened(seqs) = f[N]
  BY FlattenedIs
<1>d. Steps(g, seqs, N)
  OBVIOUS
<1> HIDE DEF f, N
<1>1. 0 \in T
  BY <1>b, <1>d DEF Steps
<1>2. ASSUME NEW n \in Nat, n \in T
      PROVE  n + 1 \in T
  <2> SUFFICES ASSUME n + 1 <= N PROVE f[n + 1] = g[n + 1]
    OBVIOUS
  <2>1. n + 1 \in 1..N /\ (n + 1) - 1 = n /\ f[n] = g[n]
    BY <1>0, <1>2
  <2>2. f[n + 1] = Joined(f[n], seqs[n + 1])
    BY <1>b, <2>1 DEF Steps
  <2>3. g[n + 1] = Joined(g[n], seqs[n + 1])
    BY <1>d, <2>1 DEF Steps
  <2>4. QED
    BY <2>1, <2>2, <2>3
<1>3. Nat \subseteq T
  <2> HIDE DEF T
  <2>1. QED
    BY <1>1, <1>2, Induction
<1>4. f[N] = g[N]
  BY <1>0, <1>3
<1>5. QED
  BY <1>c, <1>4 DEF N

LEMMA FlattenedType ==
  ASSUME NEW S, NEW seqs \in Seq(Seq(S))
  PROVE  Flattened(seqs) \in Seq(S)
<1>1. PICK g \in [0..Len(seqs) -> Seq(S)] : Steps(g, seqs, Len(seqs))
  BY FlatExists
<1>2. Flattened(seqs) = g[Len(seqs)]
  BY <1>1, FlattenedBy
<1>3. Len(seqs) \in 0..Len(seqs)
  OBVIOUS
<1>4. QED
  BY <1>1, <1>2, <1>3

LEMMA JoinAssoc ==
  ASSUME NEW S, NEW a \in Seq(S), NEW b \in Seq(S), NEW c \in Seq(S)
  PROVE  Joined(Joined(a, b), c) = Joined(a, Joined(b, c))
BY ConcatAssociative DEF Joined

LEMMA JoinEmpty ==
  ASSUME NEW S, NEW a \in Seq(S)
  PROVE  Joined(a, <<>>) = a /\ Joined(<<>>, a) = a
BY ConcatEmptySeq DEF Joined

LEMMA JoinType ==
  ASSUME NEW S, NEW a \in Seq(S), NEW b \in Seq(S)
  PROVE  Joined(a, b) \in Seq(S)
BY DEF Joined

\* Flattening one after another.
LEMMA FlattenedJoin ==
  ASSUME NEW S, NEW x \in Seq(Seq(S)), NEW y \in Seq(Seq(S))
  PROVE  Flattened(x \o y) = Joined(Flattened(x), Flattened(y))
<1> DEFINE m == Len(x)
           n == Len(y)
           z == x \o y
<1>0. m \in Nat /\ n \in Nat /\ z \in Seq(Seq(S)) /\ Len(z) = m + n
  OBVIOUS
<1>1. \A i \in 1..(m + n) : z[i] = IF i <= m THEN x[i] ELSE y[i - m]
  OBVIOUS
<1>2. PICK f \in [0..m -> Seq(S)] : Steps(f, x, m)
  BY FlatExists
<1>3. PICK g \in [0..n -> Seq(S)] : Steps(g, y, n)
  BY FlatExists
<1>4. Flattened(x) = f[m] /\ Flattened(y) = g[n]
  <2>1. Flattened(x) = f[m]
    BY <1>2, FlattenedBy
  <2>2. Flattened(y) = g[n]
    BY <1>3, FlattenedBy
  <2>3. QED
    BY <2>1, <2>2
<1>t. \A i \in 1..n : y[i] \in Seq(S)
  OBVIOUS
<1> DEFINE h == [i \in 0..(m + n) |-> IF i <= m THEN f[i] ELSE Joined(f[m], g[i - m])]
<1> HIDE DEF m, n, z
<1>5. Steps(h, z, m + n)
  <2>0. 0 \in 0..(m + n) /\ 0 <= m /\ m \in 0..m /\ f[m] \in Seq(S)
    BY <1>0
  <2>1. h[0] = <<>>
    BY <1>2, <2>0 DEF Steps
  <2>2. ASSUME NEW i \in 1..(m + n)
        PROVE  h[i] = Joined(h[i - 1], z[i])
    <3>1. i \in 0..(m + n) /\ i - 1 \in 0..(m + n) /\ i \in Int
      BY <1>0
    <3>2. CASE i <= m
      <4>1. i \in 1..m /\ i - 1 <= m
        BY <1>0, <3>1, <3>2
      <4>2. h[i] = f[i] /\ h[i - 1] = f[i - 1] /\ z[i] = x[i]
        BY <1>1, <3>1, <3>2, <4>1
      <4> HIDE DEF h
      <4>3. QED
        BY <1>2, <4>1, <4>2 DEF Steps
    <3>3. CASE i = m + 1
      <4>1. ~(i <= m) /\ i - 1 = m /\ i - m = 1 /\ 1 \in 1..n /\ m <= m
        BY <1>0, <3>1, <3>3
      <4>2. h[i] = Joined(f[m], g[1]) /\ h[i - 1] = f[m] /\ z[i] = y[1]
        BY <1>1, <3>1, <4>1
      <4>3. g[1] = Joined(g[1 - 1], y[1]) /\ 1 - 1 = 0 /\ g[0] = <<>>
        BY <1>3, <4>1 DEF Steps
      <4>4. g[1] = y[1]
        BY <1>t, <4>1, <4>3, JoinEmpty
      <4> HIDE DEF h
      <4>5. QED
        BY <4>2, <4>4
    <3>4. CASE i > m + 1
      <4>1. ~(i <= m) /\ ~(i - 1 <= m) /\ i - m \in 1..n /\ (i - 1) - m = (i - m) - 1
            /\ (i - m) - 1 \in 0..n
        BY <1>0, <3>1, <3>4
      <4> DEFINE k == i - m
      <4>2. h[i] = Joined(f[m], g[k]) /\ h[i - 1] = Joined(f[m], g[k - 1]) /\ z[i] = y[k]
        BY <1>1, <3>1, <4>1
      <4>3. k \in 1..n /\ k - 1 \in 0..n
        BY <4>1
      <4> HIDE DEF h, k
      <4>4. g[k] = Joined(g[k - 1], y[k])
        BY <1>3, <4>3 DEF Steps
      <4>5. g[k - 1] \in Seq(S) /\ y[k] \in Seq(S)
        BY <1>t, <4>3
      <4>6. QED
        BY <2>0, <4>2, <4>4, <4>5, JoinAssoc
    <3>5. QED
      BY <1>0, <3>1, <3>2, <3>3, <3>4
  <2> HIDE DEF h
  <2>3. QED
    BY <2>1, <2>2 DEF Steps
<1>6. Flattened(z) = h[m + n]
  <2> HIDE DEF h
  <2> QED
    BY <1>0, <1>5, FlattenedBy
<1>7. h[m + n] = Joined(f[m], g[n])
  <2>1. m + n \in 0..(m + n) /\ m \in 0..m /\ f[m] \in Seq(S)
    BY <1>0
  <2>2. CASE n = 0
    <3>1. m + n = m /\ m <= m /\ g[n] = <<>>
      BY <1>0, <1>3, <2>2 DEF Steps
    <3>2. h[m + n] = f[m]
      BY <2>1, <3>1
    <3> HIDE DEF h
    <3>3. QED
      BY <2>1, <3>1, <3>2, JoinEmpty
  <2>3. CASE n # 0
    <3>1. ~(m + n <= m) /\ (m + n) - m = n
      BY <1>0, <2>3
    <3>2. QED
      BY <2>1, <3>1
  <2>4. QED
    BY <2>2, <2>3
<1>8. QED
  BY <1>4, <1>6, <1>7 DEF z

-----------------------------------------------------------------------------
(* Explicits: the filter of the explicit ACEs. *)

Part(a) == IF Explicit(a) THEN <<a>> ELSE <<>>
Parts(l) == [i \in 1..Len(l) |-> Part(l[i])]

LEMMA PartsType ==
  ASSUME NEW S, NEW l \in Seq(S)
  PROVE  /\ Parts(l) \in Seq(Seq({a \in S : Explicit(a)}))
         /\ Len(Parts(l)) = Len(l)
         /\ \A i \in 1..Len(l) : Parts(l)[i] = Part(l[i])
         /\ Explicits(l) = Flattened(Parts(l))
<1> DEFINE E == {a \in S : Explicit(a)}
<1>1. ASSUME NEW i \in 1..Len(l)
      PROVE  Part(l[i]) \in Seq(E)
  <2>1. l[i] \in S
    OBVIOUS
  <2>2. CASE Explicit(l[i])
    <3>1. l[i] \in E
      BY <2>1, <2>2
    <3> HIDE DEF E
    <3>2. <<l[i]>> \in Seq(E)
      BY <3>1
    <3>3. QED
      BY <2>2, <3>2 DEF Part
  <2>3. CASE ~Explicit(l[i])
    BY <2>3 DEF Part
  <2>4. QED
    BY <2>2, <2>3
<1>2. Explicits(l) = Flattened(Parts(l))
  BY DEF Explicits, Parts, Part
<1> HIDE DEF E
<1>3. Len(l) \in Nat
  OBVIOUS
<1>4. Parts(l) \in Seq(Seq(E)) /\ Len(Parts(l)) = Len(l)
  BY <1>1, <1>3 DEF Parts
<1>5. \A i \in 1..Len(l) : Parts(l)[i] = Part(l[i])
  BY DEF Parts
<1>6. QED
  BY <1>2, <1>4, <1>5 DEF E

LEMMA ExplicitsType ==
  ASSUME NEW S, NEW l \in Seq(S)
  PROVE  Explicits(l) \in Seq({a \in S : Explicit(a)})
BY PartsType, FlattenedType

\* Nothing is lost of a list with no inherited ACE in it.
LEMMA ExplicitsAll ==
  ASSUME NEW S, NEW l \in Seq(S), \A a \in S : Explicit(a)
  PROVE  Explicits(l) = l
<1> DEFINE E == {a \in S : Explicit(a)}
           N == Len(l)
           g == [i \in 0..N |-> SubSeq(l, 1, i)]
<1>1. E = S /\ N \in Nat
  OBVIOUS
<1>2. /\ Parts(l) \in Seq(Seq(S)) /\ Len(Parts(l)) = N
      /\ \A i \in 1..N : Parts(l)[i] = <<l[i]>>
      /\ Explicits(l) = Flattened(Parts(l))
  <2>1. \A i \in 1..N : Part(l[i]) = <<l[i]>>
    BY DEF Part
  <2>2. QED
    BY <1>1, <2>1, PartsType
<1>3. g[0] = <<>>
  <2>1. 0 \in 0..N
    BY <1>1
  <2>2. SubSeq(l, 1, 0) = <<>>
    OBVIOUS
  <2>3. QED
    BY <2>1, <2>2
<1>4. ASSUME NEW i \in 1..N
      PROVE  g[i] = Joined(g[i - 1], <<l[i]>>)
  <2>1. i \in 0..N /\ i - 1 \in 0..N /\ i \in Int
    BY <1>1
  <2>2. SubSeq(l, 1, i) = SubSeq(l, 1, i - 1) \o <<l[i]>>
    <3> DEFINE u == SubSeq(l, 1, i)
               v == SubSeq(l, 1, i - 1) \o <<l[i]>>
    <3>1. u \in Seq(S) /\ Len(u) = i
      OBVIOUS
    <3>2. SubSeq(l, 1, i - 1) \in Seq(S) /\ Len(SubSeq(l, 1, i - 1)) = i - 1 /\ l[i] \in S
      OBVIOUS
    <3>3. v \in Seq(S) /\ Len(v) = i
      BY <3>2
    <3>4. ASSUME NEW k \in 1..i
          PROVE  u[k] = v[k]
      OBVIOUS
    <3> HIDE DEF u, v
    <3>5. u = v
      BY <3>1, <3>3, <3>4, SeqEqual
    <3>6. QED
      BY <3>5 DEF u, v
  <2>3. g[i] = SubSeq(l, 1, i) /\ g[i - 1] = SubSeq(l, 1, i - 1)
    BY <2>1
  <2>4. QED
    BY <2>2, <2>3 DEF Joined
<1>5. g[N] = l
  <2>1. SubSeq(l, 1, N) = l /\ N \in 0..N
    OBVIOUS
  <2>2. QED
    BY <2>1
<1> HIDE DEF g, E
<1>6. Steps(g, Parts(l), N)
  BY <1>2, <1>3, <1>4 DEF Steps
<1>7. Flattened(Parts(l)) = g[N]
  BY <1>2, <1>6, FlattenedBy
<1>8. QED
  BY <1>2, <1>5, <1>7

\* And nothing stays of one with only inherited ACEs.
LEMMA ExplicitsNone ==
  ASSUME NEW S, NEW l \in Seq(S), \A a \in S : ~Explicit(a)
  PROVE  Explicits(l) = <<>>
<1> DEFINE N == Len(l)
           g == [i \in 0..N |-> <<>>]
<1>1. N \in Nat /\ \A i \in 1..N : i \in 0..N /\ i - 1 \in 0..N
  OBVIOUS
<1>2. /\ Parts(l) \in Seq(Seq({a \in S : Explicit(a)})) /\ Len(Parts(l)) = N
      /\ \A i \in 1..N : Parts(l)[i] = <<>>
      /\ Explicits(l) = Flattened(Parts(l))
  <2>1. \A i \in 1..N : Part(l[i]) = <<>>
    BY DEF Part
  <2>2. QED
    BY <1>1, <2>1, PartsType
<1>3. Joined(<<>>, <<>>) = <<>>
  <2>1. <<>> \in Seq(S)
    OBVIOUS
  <2>2. QED
    BY <2>1, JoinEmpty
<1>4. Steps(g, Parts(l), N)
  <2>1. 0 \in 0..N
    BY <1>1
  <2>2. g[0] = <<>> /\ \A i \in 1..N : g[i] = <<>> /\ g[i - 1] = <<>>
    BY <1>1, <2>1
  <2> HIDE DEF g
  <2>3. QED
    BY <1>2, <1>3, <2>2 DEF Steps
<1>5. g[N] = <<>>
  BY <1>1
<1> HIDE DEF g
<1>6. Flattened(Parts(l)) = g[N]
  BY <1>2, <1>4, FlattenedBy
<1>7. QED
  BY <1>2, <1>5, <1>6

LEMMA ExplicitsJoin ==
  ASSUME NEW S, NEW a \in Seq(S), NEW b \in Seq(S)
  PROVE  Explicits(a \o b) = Joined(Explicits(a), Explicits(b))
<1> DEFINE E == {e \in S : Explicit(e)}
           c == a \o b
<1>0. c \in Seq(S) /\ Len(c) = Len(a) + Len(b) /\ Len(a) \in Nat /\ Len(b) \in Nat
  OBVIOUS
<1>1. /\ Parts(a) \in Seq(Seq(E)) /\ Len(Parts(a)) = Len(a)
      /\ \A i \in 1..Len(a) : Parts(a)[i] = Part(a[i])
      /\ Explicits(a) = Flattened(Parts(a))
  BY PartsType
<1>2. /\ Parts(b) \in Seq(Seq(E)) /\ Len(Parts(b)) = Len(b)
      /\ \A i \in 1..Len(b) : Parts(b)[i] = Part(b[i])
      /\ Explicits(b) = Flattened(Parts(b))
  BY PartsType
<1>3. /\ Parts(c) \in Seq(Seq(E)) /\ Len(Parts(c)) = Len(c)
      /\ \A i \in 1..Len(c) : Parts(c)[i] = Part(c[i])
      /\ Explicits(c) = Flattened(Parts(c))
  <2> HIDE DEF c
  <2> QED
    BY <1>0, PartsType
<1>4. Parts(c) = Parts(a) \o Parts(b)
  <2> DEFINE u == Parts(a)
             v == Parts(b)
             w == u \o v
             x == Parts(c)
  <2>t. \A i \in 1..Len(c) : c[i] = IF i <= Len(a) THEN a[i] ELSE b[i - Len(a)]
    OBVIOUS
  <2> HIDE DEF E, u, v, c, x
  <2>1. w \in Seq(Seq(E)) /\ Len(w) = Len(u) + Len(v)
    <3> DEFINE Q == Seq(E)
    <3>1. u \in Seq(Q) /\ v \in Seq(Q)
      BY <1>1, <1>2 DEF u, v
    <3> HIDE DEF Q
    <3>2. u \o v \in Seq(Q) /\ Len(u \o v) = Len(u) + Len(v)
      BY <3>1
    <3>3. QED
      BY <3>2 DEF Q
  <2>2. \A i \in 1..Len(w) : w[i] = IF i <= Len(u) THEN u[i] ELSE v[i - Len(u)]
    BY <1>1, <1>2 DEF u, v
  <2> HIDE DEF w
  <2>3. ASSUME NEW i \in 1..Len(c)
        PROVE  x[i] = w[i]
    <3>1. i \in 1..Len(w) /\ Len(u) = Len(a) /\ i \in Int
      BY <1>0, <1>1, <1>2, <2>1 DEF u, v
    <3>2. x[i] = Part(c[i])
      BY <1>3 DEF x
    <3>3. CASE i <= Len(a)
      <4>1. i \in 1..Len(a) /\ c[i] = a[i] /\ w[i] = u[i]
        BY <1>0, <2>t, <2>2, <3>1, <3>3
      <4>2. QED
        BY <1>1, <3>2, <4>1 DEF u
    <3>4. CASE ~(i <= Len(a))
      <4>1. i - Len(a) \in 1..Len(b) /\ c[i] = b[i - Len(a)] /\ w[i] = v[i - Len(a)]
        BY <1>0, <2>t, <2>2, <3>1, <3>4
      <4>2. QED
        BY <1>2, <3>2, <4>1 DEF v
    <3>5. QED
      BY <3>3, <3>4
  <2>4. x \in Seq(Seq(E)) /\ Len(x) = Len(c) /\ Len(w) = Len(c)
    BY <1>0, <1>1, <1>2, <1>3, <2>1 DEF x, u, v
  <2>5. x = w
    <3> DEFINE Q == Seq(E)
    <3>1. x \in Seq(Q) /\ w \in Seq(Q) /\ Len(x) = Len(w) /\ Len(x) = Len(c)
      BY <2>1, <2>4
    <3>2. \A i \in 1..Len(x) : x[i] = w[i]
      BY <2>3, <3>1
    <3> HIDE DEF Q
    <3>3. QED
      BY <3>1, <3>2, SeqEqual
  <2>6. QED
    BY <2>5 DEF x, w, u, v
<1>5. Flattened(Parts(a) \o Parts(b)) = Joined(Flattened(Parts(a)), Flattened(Parts(b)))
  <2> HIDE DEF E
  <2> QED
    BY <1>1, <1>2, FlattenedJoin
<1>6. QED
  BY <1>1, <1>2, <1>3, <1>4, <1>5

-----------------------------------------------------------------------------
(* What a parent passes on is inherited ACEs. *)

Flags == ALL_INHERIT_FLAGS \cup {"ID"}
Inherited == {a \in WalkAces : ~Explicit(a)}
Facts ==
  [container : BOOLEAN, owner : Sids \cup {None}, group : Sids \cup {None},
   mapping : {<<>>, Mapping}]
Views == {Absent} \cup Seq(WalkAces \cup {CutAce})

LEMMA ChildFlagsMarked ==
  ASSUME NEW f \in SUBSET Flags, NEW c \in BOOLEAN
  PROVE  ChildFlags(f, c) \in SUBSET Flags /\ "ID" \in ChildFlags(f, c)
BY DEF ChildFlags, Flags, ALL_INHERIT_FLAGS

LEMMA VerbatimInherited ==
  ASSUME NEW ace \in WalkAces, NEW f \in SUBSET Flags, "ID" \in f
  PROVE  Verbatim(ace, f) \in Inherited
<1>1. [ace EXCEPT !.flags = f] \in WalkAces /\ [ace EXCEPT !.flags = f].flags = f
  BY DEF WalkAces, Flags
<1>2. QED
  BY <1>1 DEF Verbatim, Inherited, Explicit

LEMMA MaskMapped ==
  ASSUME NEW mask \in SUBSET Rights
  PROVE  map_mask(mask, Mapping) \in SUBSET Rights
<1>1. \A g \in Generic : Mapping[g] \in SUBSET Rights
  BY PropagationAssumption
<1>2. QED
  BY <1>1 DEF map_mask

LEMMA MaskOfChild ==
  ASSUME NEW mask \in SUBSET Rights, NEW child \in Facts
  PROVE  (IF HasMapping(child) THEN map_mask(mask, child.mapping) ELSE mask) \in SUBSET Rights
<1>1. child.mapping = <<>> \/ child.mapping = Mapping
  BY DEF Facts
<1>2. CASE child.mapping = <<>>
  <2>1. ~HasMapping(child)
    BY <1>2 DEF HasMapping
  <2>2. QED
    BY <2>1
<1>3. CASE child.mapping = Mapping
  BY <1>3, MaskMapped
<1>4. QED
  BY <1>1, <1>2, <1>3

LEMMA StandsSid ==
  ASSUME NEW sid \in Sids, NEW child \in Facts
  PROVE  Stands(sid, child) \in Sids
<1>1. child.owner \in Sids \cup {None} /\ child.group \in Sids \cup {None}
  BY DEF Facts
<1>2. QED
  BY <1>1 DEF Stands

LEMMA ResolvedInherited ==
  ASSUME NEW ace \in WalkAces, NEW f \in SUBSET Flags, "ID" \in f, NEW child \in Facts
  PROVE  Resolved(ace, f, child) \in Inherited
<1> DEFINE m == IF HasMapping(child) THEN map_mask(ace.mask, child.mapping) ELSE ace.mask
           s == Stands(ace.sid, child)
           new == [ace EXCEPT !.flags = f, !.sid = s, !.mask = m]
<1>1. ace.mask \in SUBSET Rights /\ ace.sid \in Sids
  BY DEF WalkAces
<1>2. m \in SUBSET Rights
  BY <1>1, MaskOfChild
<1>3. s \in Sids
  BY <1>1, StandsSid
<1>4. Resolved(ace, f, child) = new \/ Resolved(ace, f, child) = Verbatim(ace, f)
  BY DEF Resolved, Verbatim
<1> HIDE DEF m, s
<1>5. new \in WalkAces /\ new.flags = f
  BY <1>2, <1>3 DEF WalkAces, Flags
<1>6. new \in Inherited
  BY <1>5 DEF Inherited, Explicit
<1>7. QED
  BY <1>4, <1>6, VerbatimInherited

LEMMA PassedInherited ==
  ASSUME NEW ace \in WalkAces \cup {CutAce}, NEW child \in Facts
  PROVE  Passed(ace, child) \in Seq(Inherited)
<1> DEFINE c == child.container
           f == ChildFlags(ace.flags, c)
<1>0. <<>> \in Seq(Inherited) /\ c \in BOOLEAN
  BY DEF Facts
<1>1. CASE ace = CutAce
  <2>1. ace.flags = {}
    BY <1>1 DEF CutAce, Mark
  <2>2. ~PassesTo(ace.flags, c)
    BY <2>1 DEF PassesTo
  <2>3. Passed(ace, child) = <<>>
    BY <2>2 DEF Passed
  <2>4. QED
    BY <1>0, <2>3
<1>2. CASE ace \in WalkAces
  <2>1. ace.flags \in SUBSET Flags
    BY <1>2 DEF WalkAces, Flags
  <2>2. f \in SUBSET Flags /\ "ID" \in f
    BY <1>0, <2>1, ChildFlagsMarked
  <2> HIDE DEF f, c
  <2>3. Verbatim(ace, f) \in Inherited
    BY <1>2, <2>2, VerbatimInherited
  <2>4. Verbatim(ace, f \cup {"IO"}) \in Inherited
    <3>1. f \cup {"IO"} \in SUBSET Flags /\ "ID" \in f \cup {"IO"}
      BY <2>2 DEF Flags, ALL_INHERIT_FLAGS
    <3>2. QED
      BY <1>2, <3>1, VerbatimInherited
  <2>5. Resolved(ace, f \ ALL_INHERIT_FLAGS, child) \in Inherited
    <3>1. f \ ALL_INHERIT_FLAGS \in SUBSET Flags /\ "ID" \in f \ ALL_INHERIT_FLAGS
      BY <2>2 DEF Flags, ALL_INHERIT_FLAGS
    <3>2. QED
      BY <1>2, <3>1, ResolvedInherited
  <2> DEFINE v == Verbatim(ace, f)
             w == Verbatim(ace, f \cup {"IO"})
             r == Resolved(ace, f \ ALL_INHERIT_FLAGS, child)
             x == IF "IO" \notin f THEN <<r>> ELSE <<>>
             y == IF f \cap {"OI", "CI"} # {} THEN <<w>> ELSE <<>>
  <2>6. Passed(ace, child) = <<>> \/ Passed(ace, child) = <<v>> \/ Passed(ace, child) = x \o y
    BY DEF Passed, f, c
  <2> HIDE DEF v, w, r
  <2>7. x \in Seq(Inherited) /\ y \in Seq(Inherited) /\ <<v>> \in Seq(Inherited)
    BY <2>3, <2>4, <2>5 DEF v, w, r
  <2> HIDE DEF x, y
  <2>8. x \o y \in Seq(Inherited)
    BY <2>7
  <2>9. QED
    BY <1>0, <2>6, <2>7, <2>8
<1>3. QED
  BY <1>1, <1>2

LEMMA ReadableType ==
  ASSUME NEW S, NEW l \in Seq(S)
  PROVE  Readable(l) \in Seq(S)
<1> DEFINE bad == {i \in 1..Len(l) : l[i] = CutAce}
           k == CHOOSE i \in bad : \A j \in bad : i <= j
<1>1. Readable(l) = IF bad = {} THEN l ELSE SubSeq(l, 1, k - 1)
  BY DEF Readable
<1>2. CASE bad # {}
  <2>1. bad \in SUBSET Nat
    OBVIOUS
  <2>2. \E i \in bad : \A j \in bad : i <= j
    <3> HIDE DEF bad
    <3> QED
      BY <1>2, <2>1, LeastNumber
  <2>3. k \in bad
    <3> HIDE DEF bad
    <3> QED
      BY <2>2
  <2>4. k \in 1..Len(l)
    BY <2>3
  <2> HIDE DEF k, bad
  <2>5. SubSeq(l, 1, k - 1) \in Seq(S)
    BY <2>4
  <2>6. QED
    BY <1>1, <1>2, <2>5
<1>3. QED
  BY <1>1, <1>2

\* What a list hands to a child, or nothing for none.
Handed(p, facts) == IF p = Absent THEN <<>> ELSE inherited_aces(p, facts)

LEMMA HandedInherited ==
  ASSUME NEW p \in Views, NEW facts \in Facts
  PROVE  Handed(p, facts) \in Seq(Inherited)
<1>1. CASE p = Absent
  BY <1>1 DEF Handed
<1>2. CASE p # Absent
  <2> DEFINE S == WalkAces \cup {CutAce}
             r == Readable(p)
             q == [i \in 1..Len(r) |-> Passed(r[i], facts)]
  <2>1. p \in Seq(S)
    BY <1>2 DEF Views
  <2>2. r \in Seq(S)
    <3> HIDE DEF S
    <3> QED
      BY <2>1, ReadableType
  <2>3. Handed(p, facts) = Flattened(q)
    BY <1>2 DEF Handed, inherited_aces
  <2> HIDE DEF r
  <2>4. ASSUME NEW i \in 1..Len(r)
        PROVE  Passed(r[i], facts) \in Seq(Inherited)
    <3>1. r[i] \in S
      <4> HIDE DEF S
      <4> QED
        BY <2>2
    <3>2. QED
      BY <3>1, PassedInherited
  <2> HIDE DEF S
  <2>5. q \in Seq(Seq(Inherited))
    <3>1. Len(r) \in Nat
      BY <2>2
    <3>2. QED
      BY <2>4, <3>1
  <2> HIDE DEF q
  <2>6. QED
    BY <2>3, <2>5, FlattenedType
<1>3. QED
  BY <1>1, <1>2

-----------------------------------------------------------------------------
(* list: one of the child's lists as re-propagation leaves it. *)

\* The ACEs that are well formed.
Plain == WalkAces \ {CutAce}

LEMMA NotMarks ==
  ASSUME NEW l \in Seq(WalkAces \cup {CutAce})
  PROVE  l # Absent /\ l # Null
<1>1. CutAce.sid = "bad" /\ Absent[1].sid = "absent" /\ Null[1].sid = "null"
  BY DEF CutAce, Absent, Null, Mark
<1>2. \A a \in WalkAces : a.sid \in Sids
  BY DEF WalkAces
<1>3. "absent" \notin Sids /\ "null" \notin Sids
  BY <1>1, PropagationAssumption
<1>4. Len(Absent) = 1 /\ Len(Null) = 1
  BY DEF Absent, Null
<1> DEFINE S == WalkAces \cup {CutAce}
<1>5. \A a \in S : a.sid # "absent" /\ a.sid # "null"
  BY <1>1, <1>2, <1>3
<1> HIDE DEF S
<1>6. Len(l) = 1 => l[1] \in S
  BY DEF S
<1>7. QED
  BY <1>1, <1>4, <1>5, <1>6

LEMMA PlainFromList ==
  ASSUME NEW l \in Seq(WalkAces \cup {CutAce}), ~Malformed(l)
  PROVE  l \in Seq(Plain)
<1> DEFINE S == WalkAces \cup {CutAce}
<1>1. \A i \in 1..Len(l) : l[i] \in Plain
  <2>1. ASSUME NEW i \in 1..Len(l)
        PROVE  l[i] \in Plain
    <3>1. l[i] \in S
      <4>1. l \in Seq(S)
        OBVIOUS
      <4> HIDE DEF S
      <4>2. QED
        BY <4>1
    <3>2. l[i] # CutAce
      BY DEF Malformed
    <3>3. QED
      BY <3>1, <3>2 DEF Plain
  <2>2. QED
    BY <2>1
<1>2. l = [i \in 1..Len(l) |-> l[i]] /\ Len(l) \in Nat
  <2>1. l \in Seq(S)
    OBVIOUS
  <2> HIDE DEF S
  <2>2. QED
    BY <2>1
<1>3. QED
  BY <1>1, <1>2

LEMMA PlainIsView ==
  ASSUME NEW l \in Seq(Plain)
  PROVE  l \in Seq(WalkAces \cup {CutAce}) /\ l \in Views /\ l # Absent /\ ~Malformed(l)
<1>1. l \in Seq(WalkAces \cup {CutAce})
  <2>1. Plain \subseteq WalkAces \cup {CutAce}
    BY DEF Plain
  <2> DEFINE S == WalkAces \cup {CutAce}
  <2> HIDE DEF S
  <2>2. Plain \subseteq S
    BY <2>1 DEF S
  <2>3. l \in Seq(S)
    BY <2>2
  <2>4. QED
    BY <2>3 DEF S
<1>2. ~Malformed(l)
  <2>1. \A i \in 1..Len(l) : l[i] \in Plain
    OBVIOUS
  <2>2. QED
    BY <2>1 DEF Malformed, Plain
<1>3. QED
  BY <1>1, <1>2, NotMarks DEF Views

LEMMA InheritedPlain == Inherited \subseteq Plain
<1>1. Explicit(CutAce)
  BY DEF Explicit, CutAce, Mark
<1>2. QED
  BY <1>1 DEF Inherited, Plain

\* The explicit ACEs of a list with inherited ones after it are the list's.
LEMMA ExplicitsOver ==
  ASSUME NEW e \in Seq({a \in Plain : Explicit(a)}), NEW h \in Seq(Inherited)
  PROVE  e \o h \in Seq(Plain) /\ Explicits(e \o h) = e /\ Explicits(e) = e
<1> DEFINE E == {a \in Plain : Explicit(a)}
<1>1. E \subseteq Plain /\ \A a \in E : Explicit(a)
  OBVIOUS
<1>2. \A a \in Inherited : ~Explicit(a)
  BY DEF Inherited
<1> HIDE DEF E
<1>0. e \in Seq(E)
  BY DEF E
<1>3. e \in Seq(Plain) /\ h \in Seq(Plain)
  BY <1>0, <1>1, InheritedPlain
<1>4. Explicits(e) = e
  BY <1>0, <1>1, ExplicitsAll
<1>5. Explicits(h) = <<>>
  BY <1>2, ExplicitsNone
<1>6. Explicits(e \o h) = Joined(e, <<>>)
  BY <1>3, <1>4, <1>5, ExplicitsJoin
<1>7. e \o h \in Seq(Plain)
  BY <1>3
<1>8. QED
  BY <1>3, <1>4, <1>6, <1>7, JoinEmpty

Ends(c) == c # Absent /\ Malformed(c)

LEMMA ListFails ==
  ASSUME NEW c, NEW p, NEW redo, NEW facts, Ends(c)
  PROVE  list(c, p, redo, facts) = Failure("Parse")
BY DEF list, Ends

LEMMA ListCopies ==
  ASSUME NEW c, NEW p, NEW redo, NEW facts, ~Ends(c), ~redo
  PROVE  list(c, p, redo, facts) = [list |-> c]
BY DEF list, Ends

LEMMA ListNone ==
  ASSUME NEW c, NEW p, NEW redo, NEW facts, ~Ends(c), redo, c = Absent, Handed(p, facts) = <<>>
  PROVE  list(c, p, redo, facts) = [list |-> c]
BY DEF list, Ends, Handed

LEMMA ListNew ==
  ASSUME NEW c, NEW p, NEW redo, NEW facts, ~Ends(c), redo, c = Absent, Handed(p, facts) # <<>>
  PROVE  list(c, p, redo, facts) = [list |-> <<>> \o Handed(p, facts)]
BY DEF list, Ends, Handed

LEMMA ListDone ==
  ASSUME NEW c, NEW p, NEW facts, ~Ends(c), c # Absent
  PROVE  list(c, p, TRUE, facts) = [list |-> Explicits(c) \o Handed(p, facts)]
BY DEF list, Ends, Handed

LEMMA NotBoth ==
  /\ \A e : "error" \in DOMAIN Failure(e)
  /\ \A n : "error" \notin DOMAIN [list |-> n]
BY DEF Failure

LEMMA SameList ==
  ASSUME NEW r, NEW n, NEW m, r = [list |-> n], r = [list |-> m]
  PROVE  n = m
<1>1. [list |-> n].list = n /\ [list |-> m].list = m
  OBVIOUS
<1>2. QED
  BY <1>1

\* Without an error there is a list.
LEMMA ListGives ==
  ASSUME NEW c, NEW p, NEW redo \in BOOLEAN, NEW facts,
         "error" \notin DOMAIN list(c, p, redo, facts)
  PROVE  ~Ends(c) /\ \E n : list(c, p, redo, facts) = [list |-> n]
<1> DEFINE r == list(c, p, redo, facts)
<1>1. ~Ends(c)
  <2> SUFFICES ASSUME Ends(c) PROVE FALSE
    OBVIOUS
  <2>1. r = Failure("Parse")
    BY ListFails
  <2>2. QED
    BY <2>1, NotBoth
<1>2. CASE ~redo
  <2>1. r = [list |-> c]
    BY <1>1, <1>2, ListCopies
  <2>2. QED
    BY <1>1, <2>1
<1>3. CASE redo /\ c = Absent /\ Handed(p, facts) = <<>>
  <2>1. r = [list |-> c]
    BY <1>1, <1>3, ListNone
  <2>2. QED
    BY <1>1, <2>1
<1>4. CASE redo /\ c = Absent /\ Handed(p, facts) # <<>>
  <2>1. r = [list |-> <<>> \o Handed(p, facts)]
    BY <1>1, <1>4, ListNew
  <2>2. QED
    BY <1>1, <2>1
<1>5. CASE redo /\ c # Absent
  <2>0. list(c, p, TRUE, facts) = [list |-> Explicits(c) \o Handed(p, facts)] /\ redo = TRUE
    BY <1>1, <1>5, ListDone
  <2>1. r = [list |-> Explicits(c) \o Handed(p, facts)]
    BY <2>0
  <2>2. QED
    BY <1>1, <2>1
<1>6. QED
  BY <1>2, <1>3, <1>4, <1>5

\* Doing it again gives the same; the explicit ACEs stay.
LEMMA ListAgain ==
  ASSUME NEW c \in Views, NEW p \in Views, NEW redo \in BOOLEAN, NEW facts \in Facts,
         NEW n, list(c, p, redo, facts) = [list |-> n]
  PROVE  /\ n \in Views
         /\ list(n, p, redo, facts) = [list |-> n]
         /\ ~redo => n = c
         /\ redo /\ c # Absent => Explicits(n) = Explicits(c)
<1> DEFINE h == Handed(p, facts)
           r == list(c, p, redo, facts)
<1>0. h \in Seq(Inherited)
  BY HandedInherited
<1>1. ~Ends(c)
  <2>1. "error" \notin DOMAIN r
    BY NotBoth
  <2>2. QED
    BY <2>1, ListGives
<1>2. CASE ~redo
  <2>1. r = [list |-> c]
    BY <1>1, <1>2, ListCopies
  <2>2. n = c
    BY <2>1, SameList
  <2>3. QED
    BY <1>2, <2>2
<1>3. CASE redo /\ c = Absent /\ h = <<>>
  <2>1. r = [list |-> c]
    BY <1>1, <1>3, ListNone
  <2>2. n = c
    BY <2>1, SameList
  <2>3. QED
    BY <1>3, <2>2
<1>4. CASE redo /\ c = Absent /\ h # <<>>
  <2>1. <<>> \in Seq({a \in Plain : Explicit(a)})
    OBVIOUS
  <2>2. r = [list |-> <<>> \o h]
    BY <1>1, <1>4, ListNew
  <2>3. n = <<>> \o h
    BY <2>2, SameList
  <2> HIDE DEF h, r
  <2>4. n \in Seq(Plain) /\ Explicits(n) = <<>>
    BY <1>0, <2>1, <2>3, ExplicitsOver
  <2>5. n \in Views /\ n # Absent /\ ~Ends(n)
    BY <2>4, PlainIsView DEF Ends
  <2>b. ~Ends(n) /\ redo /\ n # Absent
    BY <1>4, <2>5
  <2>c. list(n, p, redo, facts) = [list |-> Explicits(n) \o Handed(p, facts)]
    <3>1. redo = TRUE
      BY <2>b
    <3>2. list(n, p, TRUE, facts) = [list |-> Explicits(n) \o Handed(p, facts)]
      BY <2>b, ListDone
    <3>3. QED
      BY <3>1, <3>2
  <2>6. list(n, p, redo, facts) = [list |-> Explicits(n) \o h]
    BY <2>c DEF h
  <2>7. QED
    BY <1>4, <2>3, <2>4, <2>5, <2>6
<1>5. CASE redo /\ c # Absent
  <2> DEFINE e == Explicits(c)
  <2>0. list(c, p, TRUE, facts) = [list |-> e \o h] /\ redo = TRUE
    BY <1>1, <1>5, ListDone
  <2>1. r = [list |-> e \o h]
    BY <2>0
  <2>a. n = e \o h
    BY <2>1, SameList
  <2>2. c \in Seq(Plain)
    BY <1>1, <1>5, PlainFromList DEF Views, Ends
  <2>3. e \in Seq({a \in Plain : Explicit(a)})
    BY <2>2, ExplicitsType
  <2> HIDE DEF e, h, r
  <2>4. n \in Seq(Plain) /\ Explicits(n) = e
    BY <1>0, <2>a, <2>3, ExplicitsOver
  <2>5. n \in Views /\ n # Absent /\ ~Ends(n)
    BY <2>4, PlainIsView DEF Ends
  <2>b. ~Ends(n) /\ redo /\ n # Absent
    BY <1>5, <2>5
  <2>c. list(n, p, redo, facts) = [list |-> Explicits(n) \o Handed(p, facts)]
    <3>1. redo = TRUE
      BY <2>b
    <3>2. list(n, p, TRUE, facts) = [list |-> Explicits(n) \o Handed(p, facts)]
      BY <2>b, ListDone
    <3>3. QED
      BY <3>1, <3>2
  <2>6. list(n, p, redo, facts) = [list |-> Explicits(n) \o h]
    BY <2>c DEF h
  <2>7. QED
    BY <1>5, <2>a, <2>4, <2>5, <2>6 DEF e
<1>6. QED
  BY <1>2, <1>3, <1>4, <1>5

-----------------------------------------------------------------------------
(* reinherit_with: the whole descriptor. *)

Which == {"dacl", "sacl"}

FactsOf(child, container, mapping) ==
  [container |-> container, owner |-> child.owner, group |-> child.group, mapping |-> mapping]

OneList(parent, child, container, mapping, info, w) ==
  list(ListOf(child, w), ListOf(parent, w), Redo(child, info, w),
       FactsOf(child, container, mapping))

ControlOf(child, info) ==
  (child.control \cap Kept) \cup {InheritedBit[w] : w \in {v \in Which : Redo(child, info, v)}}

AclsOf(parent, child, container, mapping, info) ==
  [w \in Which |-> OneList(parent, child, container, mapping, info, w).list]

LEMMA ReinheritIs ==
  ASSUME NEW parent, NEW child, NEW container, NEW mapping, NEW info
  PROVE  reinherit_with(parent, child, container, mapping, info) =
           IF \/ "SR" \notin child.control
              \/ \E w \in Which :
                   "error" \in DOMAIN OneList(parent, child, container, mapping, info, w)
           THEN Failure("Parse")
           ELSE Build(child.owner, child.group, AclsOf(parent, child, container, mapping, info),
                      ControlOf(child, info))
<1> DEFINE One(w) == OneList(parent, child, container, mapping, info, w)
           lists == [w \in Which |-> One(w)]
<1>1. reinherit_with(parent, child, container, mapping, info) =
        IF "SR" \notin child.control \/ \E w \in DOMAIN lists : "error" \in DOMAIN lists[w]
        THEN Failure("Parse")
        ELSE Build(child.owner, child.group, [w \in DOMAIN lists |-> lists[w].list],
                   (child.control \cap Kept)
                     \cup {InheritedBit[w] : w \in {v \in DOMAIN lists : Redo(child, info, v)}})
  BY DEF reinherit_with, OneList, FactsOf, Which
<1> HIDE DEF One
<1>2. DOMAIN lists = Which /\ \A w \in Which : lists[w] = One(w)
  OBVIOUS
<1> HIDE DEF lists
<1>3. [w \in DOMAIN lists |-> lists[w].list] = AclsOf(parent, child, container, mapping, info)
  BY <1>2 DEF AclsOf, One
<1>4. (child.control \cap Kept)
        \cup {InheritedBit[w] : w \in {v \in DOMAIN lists : Redo(child, info, v)}}
      = ControlOf(child, info)
  BY <1>2 DEF ControlOf
<1>5. (\E w \in DOMAIN lists : "error" \in DOMAIN lists[w])
      <=> \E w \in Which : "error" \in DOMAIN OneList(parent, child, container, mapping, info, w)
  BY <1>2 DEF One
<1>6. QED
  BY <1>1, <1>3, <1>4, <1>5

LEMMA ViewOf ==
  ASSUME NEW d \in Descriptors, NEW w \in Which
  PROVE  /\ ListOf(d, w) \in Views
         /\ ListOf(d, w) = Absent \/ ListOf(d, w) = d.acl[w]
<1>1. d.acl[w] \in Lists
  BY DEF Descriptors, Which
<1>2. CASE IsList(d.acl[w])
  BY <1>1, <1>2 DEF ListOf, Views, Lists, IsList
<1>3. CASE ~IsList(d.acl[w])
  BY <1>3 DEF ListOf, Views
<1>4. QED
  BY <1>2, <1>3

LEMMA ViewIs ==
  ASSUME NEW d, NEW w, d.acl[w] \in Views
  PROVE  ListOf(d, w) = d.acl[w]
<1>1. CASE d.acl[w] = Absent
  BY <1>1 DEF ListOf, IsList
<1>2. CASE d.acl[w] # Absent
  <2>1. d.acl[w] \in Seq(WalkAces \cup {CutAce})
    BY <1>2 DEF Views
  <2>2. IsList(d.acl[w])
    BY <2>1, NotMarks DEF IsList
  <2>3. QED
    BY <2>2 DEF ListOf
<1>3. QED
  BY <1>1, <1>2

LEMMA ControlKept ==
  ASSUME NEW d, NEW new, NEW info,
         d.control \in SUBSET {"SR", "DP", "SP", "DI", "SI"},
         new.control = ControlOf(d, info) \cup {"SR"}
  PROVE  /\ new.control \in SUBSET {"SR", "DP", "SP", "DI", "SI"}
         /\ \A w \in Which : Redo(new, info, w) = Redo(d, info, w)
         /\ ControlOf(new, info) = ControlOf(d, info)
         /\ d.control \cap {"DP", "SP"} \subseteq new.control
<1> DEFINE bits == {InheritedBit[w] : w \in {v \in Which : Redo(d, info, v)}}
<1>1. bits \subseteq {"DI", "SI"}
  BY DEF InheritedBit, Which
<1>2. new.control = (d.control \cap Kept) \cup bits \cup {"SR"}
  BY DEF ControlOf
<1>3. new.control \in SUBSET {"SR", "DP", "SP", "DI", "SI"}
  BY <1>1, <1>2
<1>4. ("DP" \in new.control <=> "DP" \in d.control) /\ ("SP" \in new.control <=> "SP" \in d.control)
  BY <1>1, <1>2 DEF Kept
<1>5. \A w \in Which : Redo(new, info, w) = Redo(d, info, w)
  BY <1>4 DEF Redo, ProtectedBit, Which
<1>6. {v \in Which : Redo(new, info, v)} = {v \in Which : Redo(d, info, v)}
  BY <1>5
<1>7. ControlOf(new, info) = (new.control \cap Kept) \cup bits
  BY <1>6 DEF ControlOf
<1>8. (new.control \cap Kept) \cup bits = (d.control \cap Kept) \cup bits
  BY <1>1, <1>2 DEF Kept
<1>9. ControlOf(new, info) = ControlOf(d, info)
  BY <1>7, <1>8 DEF ControlOf
<1>10. d.control \cap {"DP", "SP"} \subseteq new.control
  BY <1>4
<1>11. QED
  BY <1>3, <1>5, <1>9, <1>10

LEMMA RedoKept ==
  ASSUME NEW d, NEW new, NEW info, NEW w \in Which,
         d.control \in SUBSET {"SR", "DP", "SP", "DI", "SI"},
         new.control = ControlOf(d, info) \cup {"SR"}
  PROVE  Redo(new, info, w) = Redo(d, info, w)
<1> DEFINE bits == {InheritedBit[v] : v \in {u \in Which : Redo(d, info, u)}}
<1>1. bits \subseteq {"DI", "SI"}
  BY DEF InheritedBit, Which
<1>2. new.control = (d.control \cap Kept) \cup bits \cup {"SR"}
  BY DEF ControlOf
<1>3. ("DP" \in new.control <=> "DP" \in d.control) /\ ("SP" \in new.control <=> "SP" \in d.control)
  BY <1>1, <1>2 DEF Kept
<1>4. QED
  BY <1>3 DEF Redo, ProtectedBit, Which

TooLong(acls) ==
  \E w \in DOMAIN acls : acls[w] # Absent /\ AclWords(acls[w]) > MaxAcl

Written(owner, group, acls, control) ==
  [owner |-> owner, group |-> group, control |-> control \cup {"SR"}, acl |-> acls]

LEMMA BuildIs ==
  ASSUME NEW owner, NEW group, NEW acls, NEW control
  PROVE  Build(owner, group, acls, control) =
           IF TooLong(acls) THEN Failure("Encode") ELSE Written(owner, group, acls, control)
BY DEF Build, TooLong, Written

\* What an outcome without an error says.
LEMMA Reinherited ==
  ASSUME NEW parent, NEW child, NEW container, NEW mapping, NEW info, NEW new,
         new = reinherit_with(parent, child, container, mapping, info),
         "error" \notin DOMAIN new
  PROVE  /\ "SR" \in child.control
         /\ \A w \in Which : "error" \notin DOMAIN OneList(parent, child, container, mapping, info, w)
         /\ ~TooLong(AclsOf(parent, child, container, mapping, info))
         /\ new = Written(child.owner, child.group, AclsOf(parent, child, container, mapping, info),
                          ControlOf(child, info))
<1> DEFINE acls == AclsOf(parent, child, container, mapping, info)
           fails == \/ "SR" \notin child.control
                    \/ \E w \in Which :
                         "error" \in DOMAIN OneList(parent, child, container, mapping, info, w)
           built == Build(child.owner, child.group, acls, ControlOf(child, info))
<1>1. new = IF fails THEN Failure("Parse") ELSE built
  BY ReinheritIs
<1>2. built = IF TooLong(acls) THEN Failure("Encode")
              ELSE Written(child.owner, child.group, acls, ControlOf(child, info))
  BY BuildIs
<1> HIDE DEF fails, built, acls
<1>3. ~fails
  BY <1>1, NotBoth
<1>4. new = built
  BY <1>1, <1>3
<1>5. ~TooLong(acls)
  BY <1>2, <1>4, NotBoth
<1>6. new = Written(child.owner, child.group, acls, ControlOf(child, info))
  BY <1>2, <1>4, <1>5
<1>7. QED
  BY <1>3, <1>5, <1>6 DEF fails, acls

\* A list that is written is no longer than its size field can say.
LEMMA ReinheritFits ==
  ASSUME NEW parent, NEW child, NEW container, NEW mapping, NEW info,
         "error" \notin DOMAIN reinherit_with(parent, child, container, mapping, info)
  PROVE  \A w \in Which :
           LET l == ListOf(reinherit_with(parent, child, container, mapping, info), w)
           IN  l # Absent => ~(AclWords(l) > MaxAcl)
<1> DEFINE new == reinherit_with(parent, child, container, mapping, info)
           acls == AclsOf(parent, child, container, mapping, info)
<1>1. ~TooLong(acls) /\ new = Written(child.owner, child.group, acls, ControlOf(child, info))
  BY Reinherited
<1>2. DOMAIN acls = Which
  BY DEF AclsOf
<1> HIDE DEF new, acls
<1>3. new.acl = acls
  BY <1>1 DEF Written
<1>4. ASSUME NEW w \in Which, ListOf(new, w) # Absent
      PROVE  ListOf(new, w) = acls[w]
  BY <1>3, <1>4 DEF ListOf
<1>5. ASSUME NEW w \in Which, acls[w] # Absent
      PROVE  ~(AclWords(acls[w]) > MaxAcl)
  BY <1>1, <1>2, <1>5 DEF TooLong
<1>6. QED
  BY <1>4, <1>5 DEF new

\* And the other way.
LEMMA ReinheritGives ==
  ASSUME NEW parent, NEW child, NEW container, NEW mapping, NEW info,
         "SR" \in child.control,
         \A w \in Which : "error" \notin DOMAIN OneList(parent, child, container, mapping, info, w),
         ~TooLong(AclsOf(parent, child, container, mapping, info))
  PROVE  reinherit_with(parent, child, container, mapping, info) =
           Written(child.owner, child.group, AclsOf(parent, child, container, mapping, info),
                   ControlOf(child, info))
<1> DEFINE acls == AclsOf(parent, child, container, mapping, info)
<1>1. reinherit_with(parent, child, container, mapping, info) =
        Build(child.owner, child.group, acls, ControlOf(child, info))
  BY ReinheritIs
<1>2. Build(child.owner, child.group, acls, ControlOf(child, info)) =
        Written(child.owner, child.group, acls, ControlOf(child, info))
  BY BuildIs
<1>3. QED
  BY <1>1, <1>2

LEMMA WrittenHas ==
  ASSUME NEW owner, NEW group, NEW acls, NEW control, NEW d,
         d = Written(owner, group, acls, control)
  PROVE  /\ d.owner = owner /\ d.group = group /\ d.acl = acls /\ d.control = control \cup {"SR"}
         /\ "error" \notin DOMAIN d
         /\ "SR" \in d.control
BY DEF Written

LEMMA WrittenType ==
  ASSUME NEW owner \in Sids \cup {None}, NEW group \in Sids \cup {None},
         NEW acls \in [Which -> Lists], NEW control,
         control \cup {"SR"} \in SUBSET {"SR", "DP", "SP", "DI", "SI"}
  PROVE  Written(owner, group, acls, control) \in Descriptors
<1> DEFINE c == control \cup {"SR"}
<1>1. c \in SUBSET {"SR", "DP", "SP", "DI", "SI"}
  OBVIOUS
<1> HIDE DEF c
<1>2. [owner |-> owner, group |-> group, control |-> c, acl |-> acls] \in Descriptors
  BY <1>1 DEF Descriptors, Which
<1>3. QED
  BY <1>2 DEF Written, c

\* The lists of an outcome, one by one.
LEMMA ListsAgain ==
  ASSUME NEW parent \in Descriptors, NEW child \in Descriptors, NEW container \in BOOLEAN,
         NEW mapping \in {<<>>, Mapping}, NEW info, NEW new,
         new = reinherit_with(parent, child, container, mapping, info),
         "error" \notin DOMAIN new, NEW w \in Which
  PROVE  /\ new.acl[w] \in Views /\ ListOf(new, w) = new.acl[w]
         /\ OneList(parent, new, container, mapping, info, w)
              = OneList(parent, child, container, mapping, info, w)
         /\ Redo(new, info, w) = Redo(child, info, w)
         /\ ~Redo(child, info, w) => ListOf(new, w) = ListOf(child, w)
         /\ Redo(child, info, w) /\ ListOf(child, w) # Absent
              => Explicits(ListOf(new, w)) = Explicits(ListOf(child, w))
<1> DEFINE acls == AclsOf(parent, child, container, mapping, info)
           one == OneList(parent, child, container, mapping, info, w)
           n == new.acl[w]
           c == ListOf(child, w)
           p == ListOf(parent, w)
           facts == FactsOf(child, container, mapping)
           redo == Redo(child, info, w)
<1>1. /\ "error" \notin DOMAIN one
      /\ new = Written(child.owner, child.group, acls, ControlOf(child, info))
  <2>1. \A v \in Which : "error" \notin DOMAIN OneList(parent, child, container, mapping, info, v)
    BY Reinherited
  <2>2. new = Written(child.owner, child.group, acls, ControlOf(child, info))
    BY Reinherited
  <2>3. QED
    BY <2>1, <2>2
<1>2. /\ new.owner = child.owner /\ new.group = child.group /\ new.acl = acls
      /\ new.control = ControlOf(child, info) \cup {"SR"}
  BY <1>1, WrittenHas
<1>3. redo \in BOOLEAN /\ c \in Views /\ p \in Views
  BY ViewOf DEF Redo
<1>4. facts \in Facts
  <2>1. child.owner \in Sids \cup {None} /\ child.group \in Sids \cup {None}
    BY DEF Descriptors
  <2>2. QED
    BY <2>1 DEF Facts, FactsOf
<1>5. one = list(c, p, redo, facts)
  BY DEF OneList
<1>6. n = one.list
  BY <1>2 DEF AclsOf
<1>7. child.control \in SUBSET {"SR", "DP", "SP", "DI", "SI"}
  BY DEF Descriptors
<1>8. Redo(new, info, w) = redo
  <2>1. new.control = ControlOf(child, info) \cup {"SR"}
    BY <1>2
  <2>2. Redo(new, info, w) = Redo(child, info, w)
    BY <1>7, <2>1, RedoKept
  <2>3. QED
    BY <2>2
<1>9. FactsOf(new, container, mapping) = facts
  BY <1>2 DEF FactsOf
<1>10. OneList(parent, new, container, mapping, info, w) = list(ListOf(new, w), p, redo, facts)
  BY <1>8, <1>9 DEF OneList
<1> HIDE DEF acls, one, n, c, p, facts, redo
<1>11. PICK m : list(c, p, redo, facts) = [list |-> m]
  BY <1>1, <1>3, <1>5, ListGives
<1>12. n = m
  <2>1. [list |-> m].list = m
    OBVIOUS
  <2>2. QED
    BY <1>5, <1>6, <1>11, <2>1
<1>13. list(c, p, redo, facts) = [list |-> n]
  BY <1>11, <1>12
<1>14. /\ n \in Views /\ list(n, p, redo, facts) = [list |-> n]
       /\ ~redo => n = c
       /\ redo /\ c # Absent => Explicits(n) = Explicits(c)
  BY <1>3, <1>4, <1>13, ListAgain
<1>15. ListOf(new, w) = n
  BY <1>14, ViewIs DEF n
<1>16. OneList(parent, new, container, mapping, info, w) = one
  BY <1>5, <1>10, <1>13, <1>14, <1>15
<1>17. QED
  BY <1>8, <1>14, <1>15, <1>16 DEF n, c, redo, one

LEMMA ListKept ==
  ASSUME NEW parent \in Descriptors, NEW child \in Descriptors, NEW container \in BOOLEAN,
         NEW mapping \in {<<>>, Mapping}, NEW info, NEW new,
         new = reinherit_with(parent, child, container, mapping, info),
         "error" \notin DOMAIN new, NEW w \in Which
  PROVE  /\ ~Redo(child, info, w) => ListOf(new, w) = ListOf(child, w)
         /\ Redo(child, info, w) /\ ListOf(child, w) # Absent
              => Explicits(ListOf(new, w)) = Explicits(ListOf(child, w))
BY ListsAgain

\* reinherit_with gives descriptors, and the same again from what it gave.
LEMMA ReinheritAgain ==
  ASSUME NEW parent \in Descriptors, NEW child \in Descriptors, NEW container \in BOOLEAN,
         NEW mapping \in {<<>>, Mapping}, NEW info, NEW new,
         new = reinherit_with(parent, child, container, mapping, info),
         "error" \notin DOMAIN new
  PROVE  /\ new \in Descriptors
         /\ reinherit_with(parent, new, container, mapping, info) = new
         /\ new.owner = child.owner /\ new.group = child.group
         /\ child.control \cap {"DP", "SP"} \subseteq new.control
<1> DEFINE acls == AclsOf(parent, child, container, mapping, info)
           acls2 == AclsOf(parent, new, container, mapping, info)
<1>1. /\ ~TooLong(acls)
      /\ \A w \in Which : "error" \notin DOMAIN OneList(parent, child, container, mapping, info, w)
      /\ new = Written(child.owner, child.group, acls, ControlOf(child, info))
  <2>1. ~TooLong(acls)
    BY Reinherited
  <2>2. \A w \in Which : "error" \notin DOMAIN OneList(parent, child, container, mapping, info, w)
    BY Reinherited
  <2>3. new = Written(child.owner, child.group, acls, ControlOf(child, info))
    BY Reinherited
  <2>4. QED
    BY <2>1, <2>2, <2>3
<1>2. /\ new.owner = child.owner /\ new.group = child.group /\ new.acl = acls
      /\ new.control = ControlOf(child, info) \cup {"SR"} /\ "SR" \in new.control
  BY <1>1, WrittenHas
<1>3. \A w \in Which : /\ acls[w] \in Views
                       /\ OneList(parent, new, container, mapping, info, w)
                            = OneList(parent, child, container, mapping, info, w)
  <2>1. ASSUME NEW w \in Which
        PROVE  /\ new.acl[w] \in Views
               /\ OneList(parent, new, container, mapping, info, w)
                    = OneList(parent, child, container, mapping, info, w)
    BY ListsAgain
  <2> HIDE DEF acls
  <2>2. QED
    BY <1>2, <2>1
<1>4. acls2 = acls
  BY <1>3 DEF AclsOf
<1>5. child.control \in SUBSET {"SR", "DP", "SP", "DI", "SI"}
  BY DEF Descriptors
<1>6. /\ new.control \in SUBSET {"SR", "DP", "SP", "DI", "SI"}
      /\ ControlOf(new, info) = ControlOf(child, info)
      /\ child.control \cap {"DP", "SP"} \subseteq new.control
  BY <1>2, <1>5, ControlKept
<1>7. \A w \in Which : "error" \notin DOMAIN OneList(parent, new, container, mapping, info, w)
  BY <1>1, <1>3
<1>8. reinherit_with(parent, new, container, mapping, info)
        = Written(new.owner, new.group, acls2, ControlOf(new, info))
  <2>1. ~TooLong(acls2)
    BY <1>1, <1>4
  <2>2. QED
    BY <1>2, <1>7, <2>1, ReinheritGives
<1>9. reinherit_with(parent, new, container, mapping, info) = new
  <2> HIDE DEF acls, acls2
  <2> QED
    BY <1>1, <1>2, <1>4, <1>6, <1>8
<1>10. new \in Descriptors
  <2>1. Views \subseteq Lists
    BY DEF Views, Lists
  <2>2. acls \in [Which -> Lists]
    BY <1>3, <2>1 DEF AclsOf
  <2>3. child.owner \in Sids \cup {None} /\ child.group \in Sids \cup {None}
    BY DEF Descriptors
  <2> HIDE DEF acls
  <2>4. ControlOf(child, info) \cup {"SR"} \in SUBSET {"SR", "DP", "SP", "DI", "SI"}
    BY <1>2, <1>6
  <2>5. QED
    <3> DEFINE owner == child.owner
               group == child.group
               control == ControlOf(child, info)
    <3>1. /\ owner \in Sids \cup {None} /\ group \in Sids \cup {None}
          /\ control \cup {"SR"} \in SUBSET {"SR", "DP", "SP", "DI", "SI"}
          /\ new = Written(owner, group, acls, control)
      BY <1>1, <2>3, <2>4
    <3> HIDE DEF owner, group, control
    <3>2. Written(owner, group, acls, control) \in Descriptors
      BY <2>2, <3>1, WrittenType
    <3>3. QED
      BY <3>1, <3>2
<1>11. QED
  BY <1>2, <1>6, <1>9, <1>10

-----------------------------------------------------------------------------
(* The walk. *)

Hows == [mapping : {<<>>, Mapping}, info : SUBSET Which, clean : BOOLEAN]

\* How many objects the walk is past, the root included.
Past == Len(Order) - Len(walk)

\* What is left to visit is the end of the order.
OnOrder ==
  /\ walk \in Seq(Objects) /\ Len(walk) < Len(Order)
  /\ \A i \in 1..Len(walk) : walk[i] = Order[Past + i]

\* The objects a walk that nothing disturbed is past are as it would leave them.
Fixed ==
  settled # {} \/ (walk # <<>> /\ how.clean) =>
    \A i \in 2..Past : Again(Order[i]) = sd[Order[i]]

WalkInv ==
  /\ sd \in [Objects -> Descriptors] /\ how \in Hows
  /\ OnOrder
  /\ walk # <<>> => settled = {}
  /\ Fixed

LEMMA OrderIs ==
  /\ Order \in Seq(Objects) /\ Len(Order) \in Nat /\ Len(Order) >= 1
  /\ \A i \in 1..Len(Order) : Order[i] \in Objects
  /\ \A i, j \in 1..Len(Order) : Order[i] = Order[j] => i = j
  /\ Tail(Order) \in Seq(Objects) /\ Len(Tail(Order)) = Len(Order) - 1
  /\ \A i \in 1..(Len(Order) - 1) : Tail(Order)[i] = Order[i + 1]
  /\ Root \in Objects
<1>1. Order \in Seq(Objects) /\ Order # <<>>
  BY PropagationAssumption DEF Objects
<1>2. \A i, j \in 1..Len(Order) : Order[i] = Order[j] => i = j
  BY PropagationAssumption
<1>3. Len(Order) \in Nat /\ Len(Order) >= 1
  BY <1>1
<1>4. \A i \in 1..Len(Order) : Order[i] \in Objects
  BY <1>1
<1>5. Tail(Order) \in Seq(Objects) /\ Len(Tail(Order)) = Len(Order) - 1
  BY <1>1, <1>3
<1>6. \A i \in 1..(Len(Order) - 1) : Tail(Order)[i] = Order[i + 1]
  BY <1>1, <1>3
<1>7. Root \in Objects
  BY <1>3, <1>4 DEF Root
<1>8. QED
  BY <1>1, <1>2, <1>3, <1>4, <1>5, <1>6, <1>7

LEMMA ParentIs ==
  /\ DOMAIN Parent = {Order[i] : i \in 2..Len(Order)}
  /\ \A o \in DOMAIN Parent : Parent[o] \in Objects /\ o \in Objects
  /\ \A i \in 2..Len(Order) : \E j \in 1..(i - 1) : Parent[Order[i]] = Order[j]
<1>1. Range(Tail(Order)) = {Order[i] : i \in 2..Len(Order)}
  <2> DEFINE T == Tail(Order)
             N == Len(Order)
  <2>1. N \in Nat /\ N >= 1 /\ DOMAIN T = 1..(N - 1) /\ \A i \in 1..(N - 1) : T[i] = Order[i + 1]
    BY OrderIs
  <2> HIDE DEF T, N
  <2>2. Range(T) = {T[i] : i \in 1..(N - 1)}
    BY <2>1 DEF Range
  <2>3. ASSUME NEW x, x \in Range(T)
        PROVE  x \in {Order[i] : i \in 2..N}
    <3>1. PICK i \in 1..(N - 1) : x = T[i]
      BY <2>2, <2>3
    <3>2. i + 1 \in 2..N /\ x = Order[i + 1]
      BY <2>1, <3>1
    <3>3. QED
      BY <3>2
  <2>4. ASSUME NEW x, x \in {Order[i] : i \in 2..N}
        PROVE  x \in Range(T)
    <3>1. PICK i \in 2..N : x = Order[i]
      BY <2>4
    <3>2. i - 1 \in 1..(N - 1) /\ (i - 1) + 1 = i
      BY <2>1
    <3>3. T[i - 1] = x
      BY <2>1, <3>1, <3>2
    <3>4. QED
      BY <2>2, <3>2, <3>3
  <2>5. QED
    BY <2>3, <2>4 DEF T, N
<1>2. DOMAIN Parent = Range(Tail(Order)) /\ \A o \in DOMAIN Parent : Parent[o] \in Objects
  BY PropagationAssumption DEF Objects
<1>3. \A i \in 2..Len(Order) : Order[i] \in Objects
  BY OrderIs
<1>4. \A i \in 2..Len(Order) : \E j \in 1..(i - 1) : Parent[Order[i]] = Order[j]
  BY PropagationAssumption
<1>5. \A o \in DOMAIN Parent : o \in Objects
  BY <1>1, <1>2, <1>3
<1>6. QED
  BY <1>1, <1>2, <1>4, <1>5

LEMMA WalkInvInit == WalkInit => WalkInv
<1> SUFFICES ASSUME WalkInit PROVE WalkInv
  OBVIOUS
<1>1. sd \in [Objects -> Descriptors]
  <2>1. PICK top \in Tops, inner \in Inners :
          sd = [o \in Objects |-> IF o = Root THEN top ELSE inner]
    BY DEF WalkInit, WalkStart
  <2>2. top \in Descriptors /\ inner \in Descriptors
    BY PropagationAssumption
  <2>3. QED
    BY <2>1, <2>2
<1>2. walk = <<>> /\ settled = {} /\ how = [mapping |-> <<>>, info |-> {}, clean |-> TRUE]
  BY DEF WalkInit, WalkStart
<1>3. how \in Hows
  BY <1>2 DEF Hows
<1>4. OnOrder
  <2>1. walk \in Seq(Objects) /\ Len(walk) = 0
    BY <1>2
  <2>2. QED
    BY <2>1, OrderIs DEF OnOrder
<1>5. Fixed
  BY <1>2 DEF Fixed
<1>6. QED
  BY <1>1, <1>2, <1>3, <1>4, <1>5 DEF WalkInv

Stripped(l) == IF IsList(l) THEN Explicits(l) ELSE l

\* What strip_inherited_aces gives when it gives a descriptor.
LEMMA StripGives ==
  ASSUME NEW d \in Descriptors, NEW info \in SUBSET Which, NEW new,
         new = strip_inherited_aces(d, info), "error" \notin DOMAIN new
  PROVE  /\ "SR" \in d.control
         /\ \A w \in info : IsList(d.acl[w]) => ~Malformed(d.acl[w])
         /\ new = [d EXCEPT !.acl = [w \in Which |-> IF w \in info THEN Stripped(d.acl[w])
                                                   ELSE d.acl[w]]]
<1> DEFINE acls == [w \in Which |-> IF w \in info THEN Stripped(d.acl[w]) ELSE d.acl[w]]
           bad == \E w \in info : IsList(d.acl[w]) /\ Malformed(d.acl[w])
<1>0. d.acl \in [Which -> Lists]
  BY DEF Descriptors, Which
<1>1. [w \in DOMAIN d.acl |-> IF w \in info /\ IsList(d.acl[w]) THEN Explicits(d.acl[w]) ELSE d.acl[w]]
        = acls
  BY <1>0 DEF Stripped
<1>2. new = IF "SR" \notin d.control THEN Failure("Parse")
            ELSE IF info = {} THEN d
            ELSE IF bad THEN Failure("Parse") ELSE [d EXCEPT !.acl = acls]
  BY <1>1 DEF strip_inherited_aces
<1>3. "SR" \in d.control
  <2> HIDE DEF acls, bad
  <2> QED
    BY <1>2, NotBoth
<1>4. CASE info = {}
  <2>1. acls = d.acl
    BY <1>0, <1>4
  <2> HIDE DEF acls
  <2>2. [d EXCEPT !.acl = acls] = d
    BY <2>1 DEF Descriptors
  <2>3. new = d
    BY <1>2, <1>3, <1>4
  <2>4. QED
    BY <1>3, <1>4, <2>2, <2>3 DEF acls
<1>5. CASE info # {}
  <2> HIDE DEF acls
  <2>1. ~bad
    <3> HIDE DEF bad
    <3> QED
      BY <1>2, <1>3, <1>5, NotBoth
  <2>2. new = [d EXCEPT !.acl = acls]
    <3> HIDE DEF bad
    <3> QED
      BY <1>2, <1>3, <1>5, <2>1
  <2>3. QED
    BY <1>3, <2>1, <2>2 DEF acls
<1>6. QED
  BY <1>4, <1>5

LEMMA StrippedType ==
  ASSUME NEW l \in Lists
  PROVE  Stripped(l) \in Lists
<1>1. CASE IsList(l)
  <2> DEFINE S == WalkAces \cup {CutAce}
  <2>1. l \in Seq(S)
    BY <1>1 DEF Lists, IsList
  <2>2. {a \in S : Explicit(a)} \subseteq S
    OBVIOUS
  <2> HIDE DEF S
  <2>3. Explicits(l) \in Seq({a \in S : Explicit(a)})
    BY <2>1, ExplicitsType
  <2>4. Explicits(l) \in Seq(S)
    <3> DEFINE E == {a \in S : Explicit(a)}
    <3>1. E \subseteq S /\ Explicits(l) \in Seq(E)
      BY <2>2, <2>3
    <3> HIDE DEF E
    <3>2. QED
      BY <3>1
  <2>5. QED
    BY <1>1, <2>4 DEF Stripped, Lists, S
<1>2. CASE ~IsList(l)
  BY <1>2 DEF Stripped
<1>3. QED
  BY <1>1, <1>2

LEMMA StripType ==
  ASSUME NEW d \in Descriptors, NEW info \in SUBSET Which, NEW new,
         new = strip_inherited_aces(d, info), "error" \notin DOMAIN new
  PROVE  new \in Descriptors
<1> DEFINE acls == [w \in Which |-> IF w \in info THEN Stripped(d.acl[w]) ELSE d.acl[w]]
<1>1. new = [d EXCEPT !.acl = acls]
  BY StripGives
<1>2. \A w \in Which : d.acl[w] \in Lists
  BY DEF Descriptors, Which
<1>3. acls \in [Which -> Lists]
  BY <1>2, StrippedType
<1> HIDE DEF acls
<1>4. QED
  BY <1>1, <1>3 DEF Descriptors, Which

\* An edit, whatever it is, leaves a descriptor where there was one.
LEMMA ChangeType ==
  ASSUME WalkInv, NEW o \in Objects, NEW new \in Descriptors, Change(o, new)
  PROVE  WalkInv'
<1>1. sd' \in [Objects -> Descriptors]
  BY DEF Change, WalkInv
<1>2. settled' = {} /\ walk' = walk /\ how' = [how EXCEPT !.clean = FALSE]
  BY DEF Change
<1>3. how' \in Hows /\ how'.clean = FALSE
  BY <1>2 DEF WalkInv, Hows
<1>4. OnOrder'
  BY <1>2 DEF WalkInv, OnOrder, Past
<1>5. Fixed'
  BY <1>2, <1>3 DEF Fixed
<1>6. QED
  BY <1>1, <1>2, <1>3, <1>4, <1>5 DEF WalkInv

LEMMA EditStep ==
  ASSUME WalkInv, NEW o \in Objects
  PROVE  /\ \A ace \in Edits : AddAce(o, ace) => WalkInv'
         /\ \A w \in Owners : Chown(o, w) => WalkInv'
         /\ Protect(o) => WalkInv'
         /\ Unprotect(o) => WalkInv'
         /\ \A info \in SUBSET {"dacl", "sacl"} : Strip(o, info) => WalkInv'
<1> DEFINE d == sd[o]
<1>0. d \in Descriptors
  BY DEF WalkInv
<1>1. ASSUME NEW ace \in Edits, AddAce(o, ace)
      PROVE  WalkInv'
  <2> DEFINE l == <<ace>> \o d.acl.dacl
             new == [d EXCEPT !.acl.dacl = l]
             S == WalkAces \cup {CutAce}
  <2>1. Change(o, new) /\ Absent # ListOf(d, "dacl")
    BY <1>1 DEF AddAce
  <2>2. d.acl["dacl"] \in Seq(S)
    <3>1. ListOf(d, "dacl") \in Views /\ ListOf(d, "dacl") = d.acl["dacl"]
      BY <1>0, <2>1, ViewOf DEF Which
    <3>2. QED
      BY <2>1, <3>1 DEF Views
  <2>3. ace \in S
    BY PropagationAssumption
  <2> HIDE DEF S
  <2>4. l \in Seq(S)
    BY <2>2, <2>3
  <2>5. l \in Lists
    BY <2>4 DEF Lists, S
  <2> HIDE DEF l
  <2>6. new \in Descriptors
    <3>1. d.acl \in [{"dacl", "sacl"} -> Lists]
      BY <1>0 DEF Descriptors
    <3>2. [d.acl EXCEPT !["dacl"] = l] \in [{"dacl", "sacl"} -> Lists]
      BY <2>5, <3>1
    <3>3. QED
      BY <1>0, <3>2 DEF Descriptors
  <2> HIDE DEF new, d
  <2>7. QED
    BY <2>1, <2>6, ChangeType
<1>2. ASSUME NEW w \in Owners, Chown(o, w)
      PROVE  WalkInv'
  <2>1. [d EXCEPT !.owner = w] \in Descriptors
    BY <1>0, PropagationAssumption DEF Descriptors
  <2>2. Change(o, [d EXCEPT !.owner = w])
    BY <1>2 DEF Chown
  <2>3. QED
    BY <2>1, <2>2, ChangeType
<1>3. ASSUME Protect(o)
      PROVE  WalkInv'
  <2>1. [d EXCEPT !.control = d.control \cup {"DP"}] \in Descriptors
    BY <1>0 DEF Descriptors
  <2>2. Change(o, [d EXCEPT !.control = d.control \cup {"DP"}])
    BY <1>3 DEF Protect
  <2>3. QED
    BY <2>1, <2>2, ChangeType
<1>4. ASSUME Unprotect(o)
      PROVE  WalkInv'
  <2>1. [d EXCEPT !.control = d.control \ {"DP"}] \in Descriptors
    BY <1>0 DEF Descriptors
  <2>2. Change(o, [d EXCEPT !.control = d.control \ {"DP"}])
    BY <1>4 DEF Unprotect
  <2>3. QED
    BY <2>1, <2>2, ChangeType
<1>5. ASSUME NEW info \in SUBSET {"dacl", "sacl"}, Strip(o, info)
      PROVE  WalkInv'
  <2> DEFINE new == strip_inherited_aces(d, info)
  <2>1. "error" \notin DOMAIN new /\ Change(o, new)
    BY <1>5 DEF Strip
  <2>2. new \in Descriptors
    BY <1>0, <2>1, StripType DEF Which
  <2> HIDE DEF new
  <2>3. QED
    BY <2>1, <2>2, ChangeType
<1>6. QED
  BY <1>1, <1>2, <1>3, <1>4, <1>5

LEMMA BeginStep ==
  ASSUME WalkInv, NEW m \in {<<>>, Mapping}, NEW info \in SUBSET Which, Begin(m, info)
  PROVE  WalkInv'
<1>1. /\ walk' = Tail(Order) /\ settled' = {} /\ sd' = sd
      /\ how' = [mapping |-> m, info |-> info, clean |-> TRUE]
  BY DEF Begin
<1>2. sd' \in [Objects -> Descriptors] /\ how' \in Hows
  BY <1>1 DEF WalkInv, Hows
<1>3. Past' = 1
  BY <1>1, OrderIs DEF Past
<1>4. OnOrder'
  <2>1. walk' \in Seq(Objects) /\ Len(walk') = Len(Order) - 1 /\ Len(Order) \in Nat
    BY <1>1, OrderIs
  <2>2. ASSUME NEW i \in 1..Len(walk')
        PROVE  walk'[i] = Order[1 + i]
    <3>1. i \in 1..(Len(Order) - 1) /\ 1 + i = i + 1
      BY <2>1
    <3>2. QED
      BY <1>1, <3>1, OrderIs
  <2>3. QED
    BY <1>3, <2>1, <2>2 DEF OnOrder
<1>5. Fixed'
  BY <1>3 DEF Fixed
<1>6. QED
  BY <1>1, <1>2, <1>4, <1>5 DEF WalkInv

\* Where the walk is.
LEMMA AtHead ==
  ASSUME WalkInv, walk # <<>>
  PROVE  /\ Past + 1 \in 2..Len(Order) /\ Head(walk) = Order[Past + 1] /\ Past \in Nat
         /\ Len(walk) \in Nat /\ Len(walk) >= 1
         /\ Tail(walk) \in Seq(Objects) /\ Len(Tail(walk)) = Len(walk) - 1
         /\ \A i \in 1..(Len(walk) - 1) : Tail(walk)[i] = Order[(Past + 1) + i]
         /\ Head(walk) \in Objects /\ Head(walk) \in DOMAIN Parent
<1>1. walk \in Seq(Objects) /\ Len(walk) < Len(Order) /\ Len(Order) \in Nat
  BY OrderIs DEF WalkInv, OnOrder
<1>2. Len(walk) \in Nat /\ Len(walk) >= 1 /\ Head(walk) = walk[1] /\ Head(walk) \in Objects
  BY <1>1
<1>3. Past + 1 \in 2..Len(Order) /\ Past \in Nat
  BY <1>1, <1>2 DEF Past
<1>4. \A i \in 1..Len(walk) : walk[i] = Order[Past + i]
  BY DEF WalkInv, OnOrder
<1>5. Head(walk) = Order[Past + 1]
  BY <1>2, <1>4
<1>6. Tail(walk) \in Seq(Objects) /\ Len(Tail(walk)) = Len(walk) - 1
  BY <1>1, <1>2
<1>7. ASSUME NEW i \in 1..(Len(walk) - 1)
      PROVE  Tail(walk)[i] = Order[(Past + 1) + i]
  <2>1. Tail(walk)[i] = walk[i + 1] /\ i + 1 \in 1..Len(walk)
    BY <1>1, <1>2
  <2>2. Past + (i + 1) = (Past + 1) + i
    BY <1>3
  <2>3. QED
    BY <1>4, <2>1, <2>2
<1>8. Head(walk) \in DOMAIN Parent
  BY <1>3, <1>5, ParentIs
<1>9. QED
  BY <1>2, <1>3, <1>5, <1>6, <1>7, <1>8

\* What re-propagation leaves on the object visited.
LEMMA AgainGives ==
  ASSUME WalkInv, NEW o \in DOMAIN Parent, "error" \notin DOMAIN Again(o)
  PROVE  /\ Again(o) \in Descriptors
         /\ reinherit_with(sd[Parent[o]], Again(o), o \in Containers, how.mapping, how.info) = Again(o)
         /\ Again(o).owner = sd[o].owner /\ Again(o).group = sd[o].group
         /\ sd[o].control \cap {"DP", "SP"} \subseteq Again(o).control
         /\ \A w \in Which :
              /\ ~Redo(sd[o], how.info, w) => ListOf(Again(o), w) = ListOf(sd[o], w)
              /\ Redo(sd[o], how.info, w) /\ ListOf(sd[o], w) # Absent
                   => Explicits(ListOf(Again(o), w)) = Explicits(ListOf(sd[o], w))
<1> DEFINE parent == sd[Parent[o]]
           child == sd[o]
           container == o \in Containers
           mapping == how.mapping
           info == how.info
           new == Again(o)
<1>1. parent \in Descriptors /\ child \in Descriptors
  BY ParentIs DEF WalkInv
<1>2. mapping \in {<<>>, Mapping} /\ container \in BOOLEAN
  BY DEF WalkInv, Hows
<1>3. new = reinherit_with(parent, child, container, mapping, info) /\ "error" \notin DOMAIN new
  BY DEF Again
<1> HIDE DEF parent, child, container, mapping, info, new
<1>4. /\ new \in Descriptors /\ reinherit_with(parent, new, container, mapping, info) = new
      /\ new.owner = child.owner /\ new.group = child.group
      /\ child.control \cap {"DP", "SP"} \subseteq new.control
  BY <1>1, <1>2, <1>3, ReinheritAgain
<1>5. ASSUME NEW w \in Which
      PROVE  /\ ~Redo(child, info, w) => ListOf(new, w) = ListOf(child, w)
             /\ Redo(child, info, w) /\ ListOf(child, w) # Absent
                  => Explicits(ListOf(new, w)) = Explicits(ListOf(child, w))
  <2>1. ~Redo(child, info, w) => ListOf(new, w) = ListOf(child, w)
    BY <1>1, <1>2, <1>3, ListKept
  <2>2. Redo(child, info, w) /\ ListOf(child, w) # Absent
          => Explicits(ListOf(new, w)) = Explicits(ListOf(child, w))
    BY <1>1, <1>2, <1>3, ListKept
  <2>3. QED
    BY <2>1, <2>2
<1>6. QED
  BY <1>4, <1>5 DEF parent, child, container, mapping, info, new

LEMMA VisitStep ==
  ASSUME WalkInv, Visit
  PROVE  WalkInv'
<1> DEFINE o == Head(walk)
           new == Again(o)
           k == Past + 1
<1>0. walk # <<>> /\ how' = how
  BY DEF Visit
<1>1. /\ k \in 2..Len(Order) /\ o = Order[k] /\ Past \in Nat
      /\ Len(walk) \in Nat /\ Len(walk) >= 1
      /\ Tail(walk) \in Seq(Objects) /\ Len(Tail(walk)) = Len(walk) - 1
      /\ \A i \in 1..(Len(walk) - 1) : Tail(walk)[i] = Order[k + i]
      /\ o \in Objects /\ o \in DOMAIN Parent
  BY <1>0, AtHead
<1>2. CASE "error" \in DOMAIN new
  <2>1. walk' = <<>> /\ sd' = sd /\ settled' = settled
    BY <1>2 DEF Visit
  <2>2. settled = {}
    BY <1>0 DEF WalkInv
  <2>3. OnOrder'
    <3>1. walk' \in Seq(Objects) /\ Len(walk') = 0
      BY <2>1
    <3>2. QED
      BY <3>1, OrderIs DEF OnOrder
  <2>4. Fixed'
    BY <2>1, <2>2 DEF Fixed
  <2>5. QED
    BY <1>0, <2>1, <2>2, <2>3, <2>4 DEF WalkInv
<1>3. CASE "error" \notin DOMAIN new
  <2>1. /\ sd' = [sd EXCEPT ![o] = new] /\ walk' = Tail(walk)
        /\ settled' = IF Tail(walk) = <<>> /\ how.clean THEN how.info ELSE {}
    BY <1>3 DEF Visit
  <2>2. /\ new \in Descriptors
        /\ reinherit_with(sd[Parent[o]], new, o \in Containers, how.mapping, how.info) = new
    BY <1>1, <1>3, AgainGives
  <2> HIDE DEF o, new, k
  <2>3. sd' \in [Objects -> Descriptors]
    BY <2>1, <2>2 DEF WalkInv
  <2>4. Len(walk') = Len(walk) - 1 /\ walk' \in Seq(Objects)
    BY <1>1, <2>1
  <2>5. Past' = k
    BY <1>1, <2>4, OrderIs DEF Past, k
  <2>6. OnOrder'
    <3>1. Len(walk') < Len(Order)
      BY <1>1, <2>4, OrderIs DEF WalkInv, OnOrder
    <3>2. \A i \in 1..Len(walk') : walk'[i] = Order[k + i]
      BY <1>1, <2>1, <2>4
    <3>3. QED
      BY <2>4, <2>5, <3>1, <3>2 DEF OnOrder
  <2>7. walk' # <<>> => settled' = {}
    BY <2>1
  <2>8. Fixed'
    <3> SUFFICES ASSUME how.clean, NEW i \in 2..k
                 PROVE  Again(Order[i])' = sd'[Order[i]]
      <4>1. settled' # {} \/ (walk' # <<>> /\ how'.clean) => how.clean
        BY <1>0, <2>1
      <4>2. QED
        BY <2>5, <4>1 DEF Fixed
    <3> DEFINE x == Order[i]
    <3>0. i \in 2..Len(Order)
      BY <1>1, OrderIs
    <3>1. PICK j \in 1..(i - 1) : Parent[x] = Order[j]
      BY <3>0, ParentIs
    <3>2. i \in 1..Len(Order) /\ j \in 1..Len(Order) /\ k \in 1..Len(Order) /\ j # k /\ j < i
      BY <1>1, OrderIs
    <3>3. Order[j] # o /\ x \in Objects /\ Order[j] \in Objects
      BY <1>1, <3>2, OrderIs
    <3>4. sd'[Parent[x]] = sd[Parent[x]]
      BY <2>1, <3>1, <3>3 DEF WalkInv
    <3>5. Again(x)' = reinherit_with(sd[Parent[x]], sd'[x], x \in Containers, how.mapping, how.info)
      BY <1>0, <3>4 DEF Again
    <3>6. CASE i = k
      <4>1. x = o
        BY <1>1, <3>6
      <4>2. sd'[x] = new
        BY <2>1, <3>3, <4>1 DEF WalkInv
      <4>3. QED
        BY <2>2, <3>5, <4>1, <4>2
    <3>7. CASE i # k
      <4>1. x # o
        BY <1>1, <3>2, <3>7, OrderIs
      <4>2. sd'[x] = sd[x]
        BY <2>1, <3>3, <4>1 DEF WalkInv
      <4>3. i \in 2..Past
        BY <1>1, <3>7 DEF k
      <4>4. Again(x) = sd[x]
        BY <1>0, <4>3 DEF WalkInv, Fixed
      <4>5. QED
        BY <3>5, <4>2, <4>4 DEF Again
    <3>8. QED
      BY <3>6, <3>7
  <2>9. QED
    BY <1>0, <2>3, <2>6, <2>7, <2>8 DEF WalkInv
<1>4. QED
  BY <1>2, <1>3

LEMMA WalkInvStep == WalkInv /\ [WalkNext]_walkVars => WalkInv'
<1> SUFFICES ASSUME WalkInv, [WalkNext]_walkVars PROVE WalkInv'
  OBVIOUS
<1>1. CASE Visit
  BY <1>1, VisitStep
<1>2. ASSUME NEW m \in {<<>>, Mapping}, NEW info \in {{"dacl"}, {"dacl", "sacl"}}, Begin(m, info)
      PROVE  WalkInv'
  <2>1. info \in SUBSET Which
    BY DEF Which
  <2>2. QED
    BY <1>2, <2>1, BeginStep
<1>3. ASSUME NEW o \in Objects,
             \/ \E ace \in Edits : AddAce(o, ace)
             \/ \E w \in Owners : Chown(o, w)
             \/ Protect(o) \/ Unprotect(o)
             \/ \E info \in SUBSET {"dacl", "sacl"} : Strip(o, info)
      PROVE  WalkInv'
  BY <1>3, EditStep
<1>4. CASE UNCHANGED walkVars
  <2>1. sd' = sd /\ walk' = walk /\ how' = how /\ settled' = settled
    BY <1>4 DEF walkVars
  <2>2. OnOrder'
    BY <2>1 DEF WalkInv, OnOrder, Past
  <2>3. Past' = Past /\ \A x : Again(x)' = Again(x)
    BY <2>1 DEF Past, Again
  <2>4. Fixed'
    BY <2>1, <2>3 DEF WalkInv, Fixed
  <2>5. QED
    BY <2>1, <2>2, <2>4 DEF WalkInv
<1>5. QED
  BY <1>1, <1>2, <1>3, <1>4 DEF WalkNext

LEMMA WalkInvAlways == WalkSpec => []WalkInv
BY WalkInvInit, WalkInvStep, PTL DEF WalkSpec

-----------------------------------------------------------------------------

\* Stripping a list changes nothing in what re-propagation makes of it.
LEMMA StripList ==
  ASSUME NEW l \in Lists, IsList(l), ~Malformed(l), NEW p \in Views, NEW facts \in Facts
  PROVE  /\ Explicits(l) \in Views
         /\ list(Explicits(l), p, TRUE, facts) = list(l, p, TRUE, facts)
<1> DEFINE e == Explicits(l)
           h == Handed(p, facts)
<1>1. l \in Seq(WalkAces \cup {CutAce}) /\ l # Absent
  BY DEF Lists, IsList
<1>2. l \in Seq(Plain)
  BY <1>1, PlainFromList
<1>3. e \in Seq({a \in Plain : Explicit(a)})
  BY <1>2, ExplicitsType
<1>4. h \in Seq(Inherited)
  BY HandedInherited
<1>5. Explicits(e) = e
  <2> HIDE DEF e, h
  <2> QED
    BY <1>3, <1>4, ExplicitsOver
<1>6. e \in Seq(Plain)
  <2> DEFINE E == {a \in Plain : Explicit(a)}
  <2>1. E \subseteq Plain /\ e \in Seq(E)
    BY <1>3
  <2> HIDE DEF E, e
  <2>2. QED
    BY <2>1
<1> HIDE DEF e, h
<1>7. e \in Views /\ e # Absent /\ ~Ends(e)
  BY <1>6, PlainIsView DEF Ends
<1>8. ~Ends(l)
  BY DEF Ends
<1>9. list(e, p, TRUE, facts) = [list |-> Explicits(e) \o Handed(p, facts)]
  BY <1>7, ListDone
<1>10. list(l, p, TRUE, facts) = [list |-> Explicits(l) \o Handed(p, facts)]
  BY <1>1, <1>8, ListDone
<1>11. QED
  BY <1>5, <1>7, <1>9, <1>10 DEF e

LEMMA StripThenReinherit ==
  ASSUME NEW parent \in Descriptors, NEW d \in Descriptors, NEW container \in BOOLEAN,
         NEW w \in Which, ProtectedBit[w] \notin d.control, NEW new,
         new = strip_inherited_aces(d, {w}), "error" \notin DOMAIN new
  PROVE  reinherit_with(parent, new, container, <<>>, {w})
           = reinherit_with(parent, d, container, <<>>, {w})
<1> DEFINE acls == [v \in Which |-> IF v \in {w} THEN Stripped(d.acl[v]) ELSE d.acl[v]]
           facts == FactsOf(d, container, <<>>)
<1>1. /\ IsList(d.acl[w]) => ~Malformed(d.acl[w])
      /\ new = [d EXCEPT !.acl = acls]
  BY StripGives
<1> HIDE DEF acls
<1>2. new.owner = d.owner /\ new.group = d.group /\ new.control = d.control /\ new.acl = acls
  BY <1>1 DEF Descriptors
<1>3. FactsOf(new, container, <<>>) = facts /\ facts \in Facts
  <2>1. d.owner \in Sids \cup {None} /\ d.group \in Sids \cup {None}
    BY DEF Descriptors
  <2>2. QED
    BY <1>2, <2>1 DEF Facts, FactsOf
<1>4. \A v \in Which : Redo(new, {w}, v) = Redo(d, {w}, v)
  BY <1>2 DEF Redo
<1> HIDE DEF facts
<1>5. ASSUME NEW v \in Which
      PROVE  OneList(parent, new, container, <<>>, {w}, v) = OneList(parent, d, container, <<>>, {w}, v)
  <2> DEFINE p == ListOf(parent, v)
  <2>1. /\ OneList(parent, new, container, <<>>, {w}, v) = list(ListOf(new, v), p, Redo(d, {w}, v), facts)
        /\ OneList(parent, d, container, <<>>, {w}, v) = list(ListOf(d, v), p, Redo(d, {w}, v), facts)
    BY <1>3, <1>4 DEF OneList, facts
  <2>2. CASE v # w \/ ~IsList(d.acl[v])
    <3>1. new.acl[v] = d.acl[v]
      BY <1>2, <2>2 DEF acls, Stripped
    <3>2. ListOf(new, v) = ListOf(d, v)
      BY <3>1 DEF ListOf
    <3>3. QED
      BY <2>1, <3>2
  <2>3. CASE v = w /\ IsList(d.acl[v])
    <3> DEFINE l == d.acl[v]
    <3>1. l \in Lists /\ IsList(l) /\ ~Malformed(l)
      BY <1>1, <2>3 DEF Descriptors, Which
    <3>2. p \in Views
      BY ViewOf
    <3>3. new.acl[v] = Explicits(l)
      BY <1>2, <2>3 DEF acls, Stripped
    <3>4. /\ Explicits(l) \in Views
          /\ list(Explicits(l), p, TRUE, facts) = list(l, p, TRUE, facts)
      <4> HIDE DEF l, p
      <4> QED
        BY <1>3, <3>1, <3>2, StripList
    <3>5. ListOf(new, v) = Explicits(l)
      BY <3>3, <3>4, ViewIs
    <3>6. ListOf(d, v) = l
      BY <2>3 DEF ListOf
    <3>7. Redo(d, {w}, v) = TRUE
      BY <2>3 DEF Redo
    <3>8. QED
      BY <2>1, <3>4, <3>5, <3>6, <3>7
  <2>4. QED
    BY <2>2, <2>3
<1>6. AclsOf(parent, new, container, <<>>, {w}) = AclsOf(parent, d, container, <<>>, {w})
  BY <1>5 DEF AclsOf
<1>7. ControlOf(new, {w}) = ControlOf(d, {w})
  <2>1. {v \in Which : Redo(new, {w}, v)} = {v \in Which : Redo(d, {w}, v)}
    BY <1>4
  <2>2. QED
    BY <1>2, <2>1 DEF ControlOf
<1>8. (\E v \in Which : "error" \in DOMAIN OneList(parent, new, container, <<>>, {w}, v))
      <=> \E v \in Which : "error" \in DOMAIN OneList(parent, d, container, <<>>, {w}, v)
  BY <1>5
<1>9. QED
  BY <1>2, <1>6, <1>7, <1>8, ReinheritIs

(***************************************************************************)
(* strip_inherited_aces before reinherit_with makes no difference, for any *)
(* hierarchy, any ACEs and any history of edits and walks.                 *)
(***************************************************************************)
THEOREM StripFirstIsNothing == WalkSpec => []StripFirst
<1>1. WalkInv => StripFirst
  <2> SUFFICES ASSUME WalkInv, NEW o \in DOMAIN Parent, NEW w \in {"dacl", "sacl"},
                      ~Closed(o, w), NEW stripped, stripped = strip_inherited_aces(sd[o], {w}),
                      "error" \notin DOMAIN stripped
               PROVE  reinherit_with(sd[Parent[o]], stripped, o \in Containers, <<>>, {w})
                        = reinherit_with(sd[Parent[o]], sd[o], o \in Containers, <<>>, {w})
    BY DEF StripFirst
  <2>1. sd[Parent[o]] \in Descriptors /\ sd[o] \in Descriptors
    BY ParentIs DEF WalkInv
  <2>2. ProtectedBit[w] \notin sd[o].control
    BY DEF Closed
  <2>3. w \in Which /\ (o \in Containers) \in BOOLEAN
    BY DEF Which
  <2> DEFINE parent == sd[Parent[o]]
             d == sd[o]
             container == o \in Containers
  <2>4. reinherit_with(parent, stripped, container, <<>>, {w})
          = reinherit_with(parent, d, container, <<>>, {w})
    <3>1. /\ parent \in Descriptors /\ d \in Descriptors /\ container \in BOOLEAN /\ w \in Which
          /\ ProtectedBit[w] \notin d.control /\ stripped = strip_inherited_aces(d, {w})
      BY <2>1, <2>2, <2>3
    <3> HIDE DEF parent, d, container
    <3>2. QED
      BY <3>1, StripThenReinherit
  <2>5. QED
    BY <2>4
<1>2. QED
  BY <1>1, WalkInvAlways, PTL

\* What a visit may not change.
Keeps ==
  walk # <<>> /\ walk' # walk =>
       \A o \in Objects :
         /\ sd'[o].owner = sd[o].owner /\ sd'[o].group = sd[o].group
         /\ sd[o].control \cap {"DP", "SP"} \subseteq sd'[o].control
         /\ \A w \in {"dacl", "sacl"} :
              LET old == ListOf(sd[o], w) new == ListOf(sd'[o], w)
              IN  IF w \notin how.info \/ ProtectedBit[w] \in sd[o].control THEN new = old
                  ELSE Explicits(new) = Explicits(old) \/ old = Absent
         /\ sd'[o] # sd[o] => /\ walk' = Tail(walk)
                              /\ \A w \in {"dacl", "sacl"} :
                                   LET new == ListOf(sd'[o], w)
                                   IN  new # Absent => ~(AclWords(new) > MaxAcl)

(***************************************************************************)
(* A visit keeps the explicit ACEs and their order, the owner, the group,  *)
(* the protection, and whole the lists that are protected or not selected; *)
(* no list it writes is longer than its size field can say.                *)
(***************************************************************************)
THEOREM VisitKeepsExplicit == WalkSpec => VisitKeeps
<1>1. WalkInv /\ [WalkNext]_walkVars => [Keeps]_walkVars
  <2> SUFFICES ASSUME WalkInv, WalkNext, walk # <<>>, walk' # walk
               PROVE  Keeps
    BY DEF Keeps
  <2>2. Visit
    <3>1. \A m, info : ~Begin(m, info)
      BY DEF Begin
    <3>2. \A o, new : ~Change(o, new)
      BY DEF Change
    <3>3. QED
      BY <3>1, <3>2 DEF WalkNext, AddAce, Chown, Protect, Unprotect, Strip
  <2>3. CASE sd' = sd
    BY <2>3 DEF Keeps
  <2>4. CASE sd' # sd
    <3> DEFINE h == Head(walk)
               new == Again(h)
    <3>1. "error" \notin DOMAIN new /\ sd' = [sd EXCEPT ![h] = new] /\ walk' = Tail(walk)
      BY <2>2, <2>4 DEF Visit
    <3>2. h \in Objects /\ h \in DOMAIN Parent
      BY AtHead
    <3>3. /\ new.owner = sd[h].owner /\ new.group = sd[h].group
          /\ sd[h].control \cap {"DP", "SP"} \subseteq new.control
          /\ \A w \in Which :
               /\ ~Redo(sd[h], how.info, w) => ListOf(new, w) = ListOf(sd[h], w)
               /\ Redo(sd[h], how.info, w) /\ ListOf(sd[h], w) # Absent
                    => Explicits(ListOf(new, w)) = Explicits(ListOf(sd[h], w))
      BY <3>1, <3>2, AgainGives
    <3>8. \A w \in Which : ListOf(new, w) # Absent => ~(AclWords(ListOf(new, w)) > MaxAcl)
      BY <3>1, ReinheritFits DEF Again
    <3> HIDE DEF h, new
    <3>4. sd'[h] = new /\ \A o \in Objects : o # h => sd'[o] = sd[o]
      BY <3>1, <3>2 DEF WalkInv
    <3>5. ASSUME NEW o \in Objects
          PROVE  /\ sd'[o].owner = sd[o].owner /\ sd'[o].group = sd[o].group
                 /\ sd[o].control \cap {"DP", "SP"} \subseteq sd'[o].control
      BY <3>3, <3>4
    <3>6. ASSUME NEW o \in Objects, NEW w \in {"dacl", "sacl"}
          PROVE  IF w \notin how.info \/ ProtectedBit[w] \in sd[o].control
                 THEN ListOf(sd'[o], w) = ListOf(sd[o], w)
                 ELSE Explicits(ListOf(sd'[o], w)) = Explicits(ListOf(sd[o], w))
                      \/ ListOf(sd[o], w) = Absent
      <4>1. CASE o # h
        BY <3>4, <4>1
      <4>2. CASE o = h
        <5>1. Redo(sd[h], how.info, w) <=> ~(w \notin how.info \/ ProtectedBit[w] \in sd[o].control)
          BY <4>2 DEF Redo
        <5>2. QED
          BY <3>3, <3>4, <4>2, <5>1 DEF Which
      <4>3. QED
        BY <4>1, <4>2
    <3>7. ASSUME NEW o \in Objects, sd'[o] # sd[o]
          PROVE  /\ walk' = Tail(walk)
                 /\ \A w \in {"dacl", "sacl"} :
                      ListOf(sd'[o], w) # Absent => ~(AclWords(ListOf(sd'[o], w)) > MaxAcl)
      BY <3>1, <3>4, <3>7, <3>8 DEF Which
    <3>9. QED
      BY <3>5, <3>6, <3>7 DEF Keeps
  <2>5. QED
    BY <2>3, <2>4
<1>2. QED
  BY <1>1, WalkInvAlways, PTL DEF WalkSpec, VisitKeeps, Keeps

(***************************************************************************)
(* Once a walk has gone over the hierarchy with nothing edited meanwhile,  *)
(* visiting any object again with the same mapping and the same lists      *)
(* selected succeeds and leaves it exactly as it is: one pass of           *)
(* reinherit_with from the top is enough.                                  *)
(***************************************************************************)
OnePassEnough == settled # {} => \A o \in DOMAIN Parent : Again(o) = sd[o]

THEOREM OnePassSettles == WalkSpec => []OnePassEnough
<1>1. WalkInv => OnePassEnough
  <2> SUFFICES ASSUME WalkInv, settled # {}, NEW o \in DOMAIN Parent
               PROVE  Again(o) = sd[o]
    BY DEF OnePassEnough
  <2>1. walk = <<>>
    BY DEF WalkInv
  <2>2. Past = Len(Order)
    BY <2>1, OrderIs DEF Past
  <2>3. PICK i \in 2..Len(Order) : o = Order[i]
    BY ParentIs
  <2>4. QED
    BY <2>2, <2>3 DEF WalkInv, Fixed
<1>2. QED
  BY <1>1, WalkInvAlways, PTL

=============================================================================
