---------------------------- MODULE BuildersProofs ----------------------------
(***************************************************************************)
(* What the three security builders give out, for every argument, every    *)
(* limit and every order of calls: the bytes are those of what was asked   *)
(* for since the last reset, and an error stays latched.                   *)
(*                                                                         *)
(* The invariant of a builder relates its struct to the history of the     *)
(* calls while no error is latched; after one, the struct may hold part of *)
(* an entry, and nothing is given out until a reset.  The ACL's body and   *)
(* the token's lists grow by appending, so the invariant says they are the *)
(* concatenation of the entries asked for, which takes the lemmas about    *)
(* Concat, a function defined by recursion: they go by induction, over a   *)
(* set of numbers.                                                         *)
(***************************************************************************)
EXTENDS Builders, WellFoundedInduction, SequenceTheorems, TLAPS

-----------------------------------------------------------------------------
(* Induction. *)

\* A set of naturals has a least element.
LEMMA LeastNumber ==
  ASSUME NEW T \in SUBSET Nat, T # {}
  PROVE  \E m \in T : \A k \in T : m <= k
<1> DEFINE R == OpToRel(<, Nat)
<1>1. IsWellFoundedOn(R, Nat)
  BY NatLessThanWellFounded
<1>2. \A j, k \in Nat : j < k => <<j, k>> \in R
  BY DEF OpToRel
<1> HIDE DEF R
<1>3. PICK m \in T : \A k \in T : <<k, m>> \notin R
  BY <1>1, WFMin
<1>4. ASSUME NEW k \in T, ~(m <= k)
      PROVE  FALSE
  <2>1. k \in Nat /\ m \in Nat /\ k < m
    BY <1>4
  <2>2. <<k, m>> \in R
    BY <1>2, <2>1
  <2>3. QED
    BY <1>3, <2>2
<1>5. QED
  BY <1>4

\* Induction, over a set.
LEMMA Induction ==
  ASSUME NEW S, 0 \in S, \A n \in Nat : n \in S => n + 1 \in S
  PROVE  Nat \subseteq S
<1> SUFFICES ASSUME Nat \ S # {} PROVE FALSE
  OBVIOUS
<1>1. PICK m \in Nat \ S : \A k \in Nat \ S : m <= k
  BY LeastNumber
<1>2. m - 1 \in Nat /\ m - 1 < m
  BY <1>1
<1>3. m - 1 \in S
  BY <1>1, <1>2
<1>4. (m - 1) + 1 \in S
  BY <1>2, <1>3
<1>5. QED
  BY <1>1, <1>4

-----------------------------------------------------------------------------
(* Concat. *)

\* Concatenation, the recursive function of Concat and its equation.
Joined(a, b) == a \o b

FlatFrom(g, seqs) ==
  [i \in 0..Len(seqs) |-> IF i = 0 THEN <<>> ELSE Joined(g[i - 1], seqs[i])]

FlatFun(seqs) == CHOOSE g : g = FlatFrom(g, seqs)

\* g steps as Concat does over the first n parts.
Steps(g, seqs, n) ==
  g[0] = <<>> /\ \A i \in 1..n : g[i] = Joined(g[i - 1], seqs[i])

\* Concat reads the recursive function at the last part.
LEMMA ConcatIs ==
  ASSUME NEW seqs
  PROVE  Concat(seqs) = FlatFun(seqs)[Len(seqs)]
BY DEF Concat, FlatFun, FlatFrom, Joined

\* A function that satisfies the recursion steps part by part.
LEMMA StepsIs ==
  ASSUME NEW seqs, Len(seqs) \in Nat, NEW g, g = FlatFrom(g, seqs)
  PROVE  Steps(g, seqs, Len(seqs))
<1> DEFINE N == Len(seqs)
<1>1. \A i \in 0..N : g[i] = IF i = 0 THEN <<>> ELSE Joined(g[i - 1], seqs[i])
  BY DEF FlatFrom
<1>2. 0 \in 0..N /\ \A i \in 1..N : i \in 0..N /\ i # 0
  OBVIOUS
<1> HIDE DEF N
<1>3. Steps(g, seqs, N)
  BY <1>1, <1>2 DEF Steps
<1>4. QED
  BY <1>3 DEF N

\* Its function exists, and keeps to the elements of the parts.
LEMMA FlatExists ==
  ASSUME NEW S, NEW seqs \in Seq(Seq(S))
  PROVE  \E g \in [0..Len(seqs) -> Seq(S)] : Steps(g, seqs, Len(seqs)) /\ g = FlatFrom(g, seqs)
<1> DEFINE N == Len(seqs)
           F == [0..N -> Seq(S)]
           T == {n \in Nat : n <= N => \E g \in F : Steps(g, seqs, n)}
<1>0. N \in Nat /\ \A i \in 1..N : seqs[i] \in Seq(S)
  OBVIOUS
<1> HIDE DEF N
<1>1. 0 \in T
  <2> DEFINE g == [i \in 0..N |-> <<>>]
  <2>1. 0 \in 0..N /\ <<>> \in Seq(S)
    BY <1>0
  <2>2. g \in F /\ g[0] = <<>>
    BY <2>1
  <2> HIDE DEF g, F
  <2>3. Steps(g, seqs, 0)
    BY <2>2 DEF Steps
  <2>4. QED
    BY <2>2, <2>3
<1>2. ASSUME NEW n \in Nat, n \in T
      PROVE  n + 1 \in T
  <2> SUFFICES ASSUME n + 1 <= N
               PROVE  \E g \in F : Steps(g, seqs, n + 1)
    <3> HIDE DEF F
    <3> QED
      OBVIOUS
  <2>1. n <= N /\ n \in 0..N /\ n + 1 \in 1..N /\ n + 1 \in 0..N
    BY <1>0
  <2>2. PICK g \in F : Steps(g, seqs, n)
    <3> HIDE DEF F
    <3> QED
      BY <1>2, <2>1
  <2> DEFINE j == Joined(g[n], seqs[n + 1])
             h == [g EXCEPT ![n + 1] = j]
  <2>3. j \in Seq(S)
    <3>1. g[n] \in Seq(S) /\ seqs[n + 1] \in Seq(S)
      BY <1>0, <2>1
    <3>2. QED
      BY <3>1 DEF Joined
  <2> HIDE DEF j
  <2>4. h \in F /\ h[n + 1] = j /\ \A i \in 0..N : i # n + 1 => h[i] = g[i]
    BY <2>1, <2>3
  <2> HIDE DEF h, F
  <2>5. h[0] = <<>>
    BY <1>0, <2>2, <2>4 DEF Steps
  <2>6. ASSUME NEW i \in 1..(n + 1)
        PROVE  h[i] = Joined(h[i - 1], seqs[i])
    <3>1. i - 1 \in 0..N /\ i - 1 # n + 1 /\ i \in 0..N
      BY <1>0, <2>1
    <3>2. CASE i = n + 1
      BY <2>4, <3>1, <3>2 DEF j
    <3>3. CASE i # n + 1
      <4>1. i \in 1..n /\ h[i] = g[i] /\ h[i - 1] = g[i - 1]
        BY <2>4, <3>1, <3>3
      <4>2. QED
        BY <2>2, <4>1 DEF Steps
    <3>4. QED
      BY <3>2, <3>3
  <2>7. Steps(h, seqs, n + 1)
    BY <2>5, <2>6 DEF Steps
  <2>8. QED
    BY <2>4, <2>7
<1>3. Nat \subseteq T
  <2> HIDE DEF T
  <2>1. QED
    BY <1>1, <1>2, Induction
<1>4. N \in T /\ N <= N
  BY <1>0, <1>3
<1>5. PICK g \in F : Steps(g, seqs, N)
  <2> HIDE DEF F
  <2> QED
    BY <1>4
<1>6. g = FlatFrom(g, seqs)
  <2>1. ASSUME NEW i \in 0..N
        PROVE  g[i] = IF i = 0 THEN <<>> ELSE Joined(g[i - 1], seqs[i])
    <3>1. i = 0 \/ i \in 1..N
      BY <1>0
    <3>2. QED
      BY <1>5, <3>1 DEF Steps
  <2>2. g = [i \in 0..N |-> g[i]]
    OBVIOUS
  <2>3. g = [i \in 0..N |-> IF i = 0 THEN <<>> ELSE Joined(g[i - 1], seqs[i])]
    BY <2>1, <2>2
  <2>4. QED
    BY <2>3 DEF FlatFrom, N
<1>7. QED
  BY <1>5, <1>6 DEF N

\* To know what Concat gives, find a function that steps as it does.
LEMMA ConcatBy ==
  ASSUME NEW S, NEW seqs \in Seq(Seq(S)), NEW g, Steps(g, seqs, Len(seqs))
  PROVE  Concat(seqs) = g[Len(seqs)]
<1> DEFINE f == FlatFun(seqs)
           N == Len(seqs)
           T == {n \in Nat : n <= N => f[n] = g[n]}
<1>0. N \in Nat
  OBVIOUS
<1>a. f = FlatFrom(f, seqs)
  BY FlatExists DEF FlatFun
<1>b. Steps(f, seqs, N)
  <2> HIDE DEF f
  <2> QED
    BY <1>0, <1>a, StepsIs
<1>c. Concat(seqs) = f[N]
  BY ConcatIs
<1>d. Steps(g, seqs, N)
  OBVIOUS
<1> HIDE DEF f, N
<1>1. 0 \in T
  BY <1>b, <1>d DEF Steps
<1>2. ASSUME NEW n \in Nat, n \in T
      PROVE  n + 1 \in T
  <2> SUFFICES ASSUME n + 1 <= N PROVE f[n + 1] = g[n + 1]
    OBVIOUS
  <2>1. n + 1 \in 1..N /\ (n + 1) - 1 = n /\ f[n] = g[n]
    BY <1>0, <1>2
  <2>2. f[n + 1] = Joined(f[n], seqs[n + 1])
    BY <1>b, <2>1 DEF Steps
  <2>3. g[n + 1] = Joined(g[n], seqs[n + 1])
    BY <1>d, <2>1 DEF Steps
  <2>4. QED
    BY <2>1, <2>2, <2>3
<1>3. Nat \subseteq T
  <2> HIDE DEF T
  <2>1. QED
    BY <1>1, <1>2, Induction
<1>4. f[N] = g[N]
  BY <1>0, <1>3
<1>5. QED
  BY <1>c, <1>4 DEF N

\* No parts give no bytes.
LEMMA ConcatNone == Concat(<<>>) = <<>>
<1> DEFINE g == [i \in 0..0 |-> <<>>]
<1>1. <<>> \in Seq(Seq(Int)) /\ Len(<<>>) = 0 /\ g[0] = <<>>
  OBVIOUS
<1> HIDE DEF g
<1>2. Steps(g, <<>>, 0)
  BY <1>1 DEF Steps
<1>3. QED
  BY <1>1, <1>2, ConcatBy

\* One more part is one more at the end.
LEMMA ConcatAppend ==
  ASSUME NEW S, NEW seqs \in Seq(Seq(S)), NEW x \in Seq(S)
  PROVE  Concat(Append(seqs, x)) = Concat(seqs) \o x
<1> DEFINE n == Len(seqs)
           z == Append(seqs, x)
<1>0. n \in Nat /\ z \in Seq(Seq(S)) /\ Len(z) = n + 1
  <2> DEFINE Q == Seq(S)
  <2>1. seqs \in Seq(Q) /\ x \in Q
    OBVIOUS
  <2> HIDE DEF Q
  <2>2. n \in Nat /\ z \in Seq(Q) /\ Len(z) = n + 1
    BY <2>1
  <2>3. QED
    BY <2>2 DEF Q
<1>1. z[n + 1] = x /\ \A i \in 1..n : z[i] = seqs[i]
  OBVIOUS
<1>2. PICK f \in [0..n -> Seq(S)] : Steps(f, seqs, n)
  BY FlatExists
<1>3. Concat(seqs) = f[n]
  BY <1>2, ConcatBy
<1> DEFINE h == [i \in 0..(n + 1) |-> IF i <= n THEN f[i] ELSE Joined(f[n], x)]
<1> HIDE DEF n, z
<1>4. h[n + 1] = Joined(f[n], x) /\ \A i \in 0..n : h[i] = f[i]
  <2>1. n + 1 \in 0..(n + 1) /\ ~(n + 1 <= n) /\ \A i \in 0..n : i \in 0..(n + 1) /\ i <= n
    BY <1>0
  <2>2. QED
    BY <2>1
<1> HIDE DEF h
<1>5. Steps(h, z, n + 1)
  <2>1. h[0] = <<>>
    BY <1>0, <1>2, <1>4 DEF Steps
  <2>2. ASSUME NEW i \in 1..(n + 1)
        PROVE  h[i] = Joined(h[i - 1], z[i])
    <3>1. CASE i = n + 1
      <4>1. i - 1 = n /\ n \in 0..n
        BY <1>0, <3>1
      <4>2. QED
        BY <1>1, <1>4, <3>1, <4>1
    <3>2. CASE i # n + 1
      <4>1. i \in 1..n /\ i \in 0..n /\ i - 1 \in 0..n
        BY <1>0, <3>2
      <4>2. QED
        BY <1>1, <1>2, <1>4, <4>1 DEF Steps
    <3>3. QED
      BY <3>1, <3>2
  <2>3. QED
    BY <2>1, <2>2 DEF Steps
<1>6. Concat(z) = h[n + 1]
  BY <1>0, <1>5, ConcatBy
<1>7. QED
  BY <1>3, <1>4, <1>6 DEF Joined, z

-----------------------------------------------------------------------------
(* The ACL builder. *)

\* The arguments of an adder.
Specs ==
  [type : Nat, flags : Nat, mask : Nat, sid : Nat, object_type : Nat,
   inherited_object_type : Nat, app_data : Seq(Int)]

\* A value of w bytes takes w cells.
LEMMA WordType ==
  ASSUME NEW v \in Int, NEW w \in Nat, w >= 1
  PROVE  Word(v, w) \in Seq(Int) /\ Len(Word(v, w)) = w
<1> DEFINE pads == [i \in 1..(w - 1) |-> Pad]
<1>1. Pad \in Int /\ w - 1 \in Nat
  BY DEF Pad
<1>2. pads \in Seq(Int) /\ Len(pads) = w - 1
  BY <1>1
<1> HIDE DEF pads
<1>3. <<v>> \o pads \in Seq(Int) /\ Len(<<v>> \o pads) = w
  BY <1>2
<1>4. QED
  BY <1>3 DEF Word, pads

\* Byte strings put together.
LEMMA Two ==
  ASSUME NEW a \in Seq(Int), NEW b \in Seq(Int)
  PROVE  a \o b \in Seq(Int) /\ Len(a \o b) = Len(a) + Len(b)
OBVIOUS

\* A SID is a byte string.
LEMMA SidBytesType ==
  ASSUME NEW s \in Nat
  PROVE  SidBytes(s) \in Seq(Int)
<1>1. s \div 1000 \in Nat
  OBVIOUS
<1>2. SidLen(s) \in Nat /\ SidLen(s) >= 1
  BY <1>1 DEF SidLen
<1>3. QED
  BY <1>2, WordType DEF SidBytes

\* A cast to u16 is a number.
LEMMA AsU16Type ==
  ASSUME NEW n \in Nat
  PROVE  AsU16(n) \in Nat
<1>1. U16Max + 1 \in Nat /\ U16Max + 1 > 0
  BY AclBuilderAssumption
<1>2. QED
  BY <1>1 DEF AsU16

\* What encode lays out for an ACE is a byte string.
LEMMA AceBytesType ==
  ASSUME NEW s \in Specs
  PROVE  AceBytes(s) \in Seq(Int)
<1> DEFINE present == (IF s.object_type # None THEN 1 ELSE 0)
                        + (IF s.inherited_object_type # None THEN 2 ELSE 0)
           guid(g) == IF g # None THEN Word(g, 16) ELSE <<>>
           object == Word(present, 4) \o guid(s.object_type) \o guid(s.inherited_object_type)
           x == IF is_object_ace(s.type) THEN object ELSE <<>>
           y == IF s.sid = BadSid THEN Word(BadSid, 12) ELSE SidBytes(s.sid)
           tail == Word(s.mask, 4) \o x \o y \o s.app_data
<1>0. /\ s.type \in Nat /\ s.flags \in Nat /\ s.mask \in Nat /\ s.sid \in Nat
      /\ s.object_type \in Nat /\ s.inherited_object_type \in Nat /\ s.app_data \in Seq(Int)
  BY DEF Specs
<1>1. AceBytes(s) = Word(s.type, 1) \o Word(s.flags, 1) \o Word(AsU16(4 + Len(tail)), 2) \o tail
  BY DEF AceBytes
<1>2. <<>> \in Seq(Int) /\ present \in Int
  OBVIOUS
<1>3. Word(present, 4) \in Seq(Int) /\ Word(s.mask, 4) \in Seq(Int) /\ Word(s.type, 1) \in Seq(Int)
      /\ Word(s.flags, 1) \in Seq(Int) /\ Word(BadSid, 12) \in Seq(Int)
  <2> HIDE DEF present
  <2>1. Word(present, 4) \in Seq(Int)
    BY <1>2, WordType
  <2>a. \A v \in Nat : Word(v, 4) \in Seq(Int)
    BY WordType
  <2>b. \A v \in Nat : Word(v, 1) \in Seq(Int)
    BY WordType
  <2>2. Word(s.mask, 4) \in Seq(Int)
    BY <1>0, <2>a
  <2>3. Word(s.type, 1) \in Seq(Int)
    BY <1>0, <2>b
  <2>4. Word(s.flags, 1) \in Seq(Int)
    BY <1>0, <2>b
  <2>5. Word(BadSid, 12) \in Seq(Int)
    BY WordType DEF BadSid
  <2>6. QED
    BY <2>1, <2>2, <2>3, <2>4, <2>5
<1>4. guid(s.object_type) \in Seq(Int) /\ guid(s.inherited_object_type) \in Seq(Int)
  <2>1. \A g \in Nat : Word(g, 16) \in Seq(Int)
    BY WordType
  <2>2. QED
    BY <1>0, <1>2, <2>1
<1> HIDE DEF present, guid
<1>5. object \in Seq(Int)
  BY <1>3, <1>4, Two
<1> HIDE DEF object
<1>6. x \in Seq(Int) /\ y \in Seq(Int)
  BY <1>0, <1>2, <1>3, <1>5, SidBytesType
<1> HIDE DEF x, y
<1>7. tail \in Seq(Int) /\ Len(tail) \in Nat
  <2>1. tail \in Seq(Int)
    BY <1>0, <1>3, <1>6, Two
  <2> HIDE DEF tail
  <2>2. QED
    BY <2>1
<1> HIDE DEF tail
<1>8. Word(AsU16(4 + Len(tail)), 2) \in Seq(Int)
  <2>1. AsU16(4 + Len(tail)) \in Nat
    BY <1>7, AsU16Type
  <2>2. QED
    BY <2>1, WordType
<1> DEFINE w == Word(AsU16(4 + Len(tail)), 2)
           t == Word(s.type, 1)
           f == Word(s.flags, 1)
<1>9. t \o f \o w \o tail \in Seq(Int)
  <2>1. t \in Seq(Int) /\ f \in Seq(Int) /\ w \in Seq(Int)
    BY <1>3, <1>8
  <2> HIDE DEF t, f, w
  <2>2. QED
    BY <1>7, <2>1, Two
<1>10. QED
  BY <1>1, <1>9

\* The bytes of the ACEs asked for, one by one.
AskedBytes(asked) == [i \in 1..Len(asked) |-> AceBytes(asked[i])]

\* They are byte strings, one for each ACE.
LEMMA AskedBytesType ==
  ASSUME NEW asked \in Seq(Specs)
  PROVE  AskedBytes(asked) \in Seq(Seq(Int)) /\ Len(AskedBytes(asked)) = Len(asked)
<1>1. ASSUME NEW i \in 1..Len(asked)
      PROVE  AceBytes(asked[i]) \in Seq(Int)
  <2>1. asked[i] \in Specs
    OBVIOUS
  <2>2. QED
    BY <2>1, AceBytesType
<1>2. Len(asked) \in Nat
  OBVIOUS
<1>3. QED
  BY <1>1, <1>2 DEF AskedBytes

\* One more ACE asked for is one more byte string.
LEMMA AskedOneMore ==
  ASSUME NEW asked \in Seq(Specs), NEW s \in Specs
  PROVE  AskedBytes(Append(asked, s)) = Append(AskedBytes(asked), AceBytes(s))
<1> DEFINE n == Len(asked)
           more == Append(asked, s)
           x == AskedBytes(more)
           y == Append(AskedBytes(asked), AceBytes(s))
<1>1. n \in Nat /\ more \in Seq(Specs) /\ Len(more) = n + 1
      /\ more[n + 1] = s /\ \A i \in 1..n : more[i] = asked[i]
  OBVIOUS
<1> HIDE DEF more
<1>2. x \in Seq(Seq(Int)) /\ Len(x) = n + 1
  BY <1>1, AskedBytesType
<1>3. AskedBytes(asked) \in Seq(Seq(Int)) /\ Len(AskedBytes(asked)) = n
  BY AskedBytesType
<1>4. AceBytes(s) \in Seq(Int)
  BY AceBytesType
<1>5. y \in Seq(Seq(Int)) /\ Len(y) = n + 1 /\ y[n + 1] = AceBytes(s)
      /\ \A i \in 1..n : y[i] = AskedBytes(asked)[i]
  <2> DEFINE Q == Seq(Int)
             b == AskedBytes(asked)
             e == AceBytes(s)
  <2>1. b \in Seq(Q) /\ Len(b) = n /\ e \in Q
    BY <1>3, <1>4
  <2> HIDE DEF Q, b, e
  <2>2. Append(b, e) \in Seq(Q) /\ Len(Append(b, e)) = n + 1 /\ Append(b, e)[n + 1] = e
        /\ \A i \in 1..n : Append(b, e)[i] = b[i]
    BY <2>1
  <2>3. QED
    BY <2>2 DEF Q, b, e
<1>6. ASSUME NEW i \in 1..(n + 1)
      PROVE  x[i] = y[i]
  <2>1. x[i] = AceBytes(more[i])
    BY <1>1 DEF AskedBytes
  <2>2. CASE i = n + 1
    BY <1>1, <1>5, <2>1, <2>2
  <2>3. CASE i # n + 1
    <3>1. i \in 1..n
      BY <1>1, <2>3
    <3>2. AskedBytes(asked)[i] = AceBytes(asked[i])
      BY <3>1 DEF AskedBytes
    <3>3. QED
      BY <1>1, <1>5, <2>1, <3>1, <3>2
  <2>4. QED
    BY <2>2, <2>3
<1>7. x = y
  <2> DEFINE Q == Seq(Int)
  <2>1. x \in Seq(Q) /\ y \in Seq(Q) /\ Len(x) = Len(y) /\ Len(x) = n + 1
    BY <1>2, <1>5
  <2> HIDE DEF Q, x, y
  <2>2. \A i \in 1..Len(x) : x[i] = y[i]
    BY <1>6, <2>1
  <2>3. QED
    BY <2>1, <2>2, SeqEqual
<1>8. QED
  BY <1>7 DEF more

\* The lowest revision that admits the ACEs.
RevisionOf(asked) ==
  IF \E i \in 1..Len(asked) : is_object_ace(asked[i].type) THEN 4 ELSE ACL_REVISION

Errors == {"none", "EINVAL", "ENOMEM"}

\* What holds while no error is latched.
AclHolds(a, asked) ==
  /\ a.aces = Concat(AskedBytes(asked)) /\ a.count = Len(asked)
  /\ a.count <= U16Max /\ a.revision = RevisionOf(asked)

\* The invariant of the ACL builder.
AclInv ==
  /\ acl \in [aces : Seq(Int), count : Nat, revision : Int, error : Errors]
  /\ aclAsked \in Seq(Specs)
  /\ acl.error = "none" => AclHolds(acl, aclAsked)
  /\ aclOut # <<>> =>
       acl.error = "none" /\ aclOut = AclRendered(acl) /\ AclHeader + Len(acl.aces) <= U16Max

\* The larger of two numbers.
LEMMA MaxOf ==
  ASSUME NEW a \in Int, NEW b \in Int
  PROVE  Max({a, b}) = IF a >= b THEN a ELSE b
<1> DEFINE m == IF a >= b THEN a ELSE b
<1>1. m \in {a, b} /\ \A y \in {a, b} : m >= y
  OBVIOUS
<1>2. ASSUME NEW x \in {a, b}, \A y \in {a, b} : x >= y
      PROVE  x = m
  BY <1>2
<1>3. Max({a, b}) = CHOOSE x \in {a, b} : \A y \in {a, b} : x >= y
  BY DEF Max
<1> HIDE DEF m
<1>4. Max({a, b}) = m
  BY <1>1, <1>2, <1>3
<1>5. QED
  BY <1>4 DEF m

\* An ACL builder that is new holds what was asked of it: nothing.
LEMMA AclInvInit == AclInit => AclInv
<1> SUFFICES ASSUME AclInit PROVE AclInv
  OBVIOUS
<1>1. /\ acl = [aces |-> <<>>, count |-> 0, revision |-> ACL_REVISION, error |-> "none"]
      /\ aclAsked = <<>> /\ aclOut = <<>>
  BY DEF AclInit, new_acl_builder
<1>2. acl \in [aces : Seq(Int), count : Nat, revision : Int, error : Errors]
  BY <1>1 DEF Errors, ACL_REVISION
<1>3. AskedBytes(<<>>) = <<>>
  BY DEF AskedBytes
<1>4. AclHolds(acl, <<>>)
  <2>1. acl.aces = Concat(AskedBytes(<<>>))
    BY <1>1, <1>3, ConcatNone
  <2>2. acl.count = Len(<<>>) /\ acl.count <= U16Max
    BY <1>1, AclBuilderAssumption
  <2>3. acl.revision = RevisionOf(<<>>)
    BY <1>1 DEF RevisionOf
  <2>4. QED
    BY <2>1, <2>2, <2>3 DEF AclHolds
<1>5. aclAsked \in Seq(Specs)
  BY <1>1
<1>6. QED
  BY <1>1, <1>2, <1>4, <1>5 DEF AclInv

\* An ACE that is accepted is the next of those asked for.
LEMMA EncodeHolds ==
  ASSUME NEW a, a \in [aces : Seq(Int), count : Nat, revision : Int, error : Errors],
         NEW asked \in Seq(Specs), AclHolds(a, asked), NEW s \in Specs, a.error = "none"
  PROVE  /\ encode(a, s) \in [aces : Seq(Int), count : Nat, revision : Int, error : Errors]
         /\ encode(a, s).error = "none" => AclHolds(encode(a, s), Append(asked, s))
<1> DEFINE ace == AceBytes(s)
           r == Max({a.revision, minimum_acl_revision(s.type)})
           bad == \/ Len(ace) > U16Max \/ Len(ace) % 4 # 0
                  \/ AceParse(ace) = NoAce
                  \/ a.count >= U16Max
                  \/ AclHeader + Len(a.aces) + Len(ace) > U16Max
           more == Append(asked, s)
<1>0. /\ a.aces \in Seq(Int) /\ a.count \in Nat /\ a.revision \in Int /\ U16Max \in Nat
      /\ ace \in Seq(Int)
  BY AceBytesType, AclBuilderAssumption
<1>1. CASE bad
  <2>1. encode(a, s) = [a EXCEPT !.error = "EINVAL"]
    BY <1>1 DEF encode
  <2>2. QED
    BY <2>1 DEF Errors
<1>2. CASE ~bad
  <2>1. encode(a, s) = [a EXCEPT !.aces = a.aces \o ace, !.count = a.count + 1, !.revision = r]
    BY <1>2 DEF encode
  <2>2. a.count < U16Max
    BY <1>0, <1>2
  <2> HIDE DEF ace, bad
  <2>3. minimum_acl_revision(s.type) \in Int
    BY DEF minimum_acl_revision, ACL_REVISION
  <2>4. r = IF a.revision >= minimum_acl_revision(s.type) THEN a.revision
            ELSE minimum_acl_revision(s.type)
    BY <1>0, <2>3, MaxOf
  <2>5. r = RevisionOf(more) /\ r \in Int
    <3>0. /\ Len(asked) \in Nat /\ Len(more) = Len(asked) + 1 /\ more[Len(asked) + 1] = s
          /\ \A i \in 1..Len(asked) : more[i] = asked[i]
      OBVIOUS
    <3>1. a.revision = RevisionOf(asked)
      BY DEF AclHolds
    <3> HIDE DEF r, more
    <3>2. (\E i \in 1..Len(more) : is_object_ace(more[i].type))
            <=> is_object_ace(s.type) \/ \E i \in 1..Len(asked) : is_object_ace(asked[i].type)
      <4>1. ASSUME NEW i \in 1..Len(more), is_object_ace(more[i].type), ~is_object_ace(s.type)
            PROVE  \E j \in 1..Len(asked) : is_object_ace(asked[j].type)
        <5>1. i # Len(asked) + 1
          BY <3>0, <4>1
        <5>2. i \in 1..Len(asked)
          BY <3>0, <5>1
        <5>3. QED
          BY <3>0, <4>1, <5>2
      <4>2. ASSUME NEW i \in 1..Len(asked), is_object_ace(asked[i].type)
            PROVE  \E j \in 1..Len(more) : is_object_ace(more[j].type)
        <5>1. i \in 1..Len(more)
          BY <3>0
        <5>2. QED
          BY <3>0, <4>2, <5>1
      <4>3. ASSUME is_object_ace(s.type)
            PROVE  \E j \in 1..Len(more) : is_object_ace(more[j].type)
        <5>1. Len(asked) + 1 \in 1..Len(more)
          BY <3>0
        <5>2. QED
          BY <3>0, <4>3, <5>1
      <4>4. QED
        BY <4>1, <4>2, <4>3
    <3>3. QED
      BY <2>3, <2>4, <3>1, <3>2 DEF RevisionOf, minimum_acl_revision, ACL_REVISION
  <2> HIDE DEF r
  <2>6. /\ encode(a, s) \in [aces : Seq(Int), count : Nat, revision : Int, error : Errors]
        /\ encode(a, s).aces = a.aces \o ace /\ encode(a, s).count = a.count + 1
        /\ encode(a, s).revision = r
    <3>1. a.aces \o ace \in Seq(Int) /\ a.count + 1 \in Nat
      BY <1>0
    <3>2. QED
      BY <2>1, <2>5, <3>1
  <2>7. encode(a, s).aces = Concat(AskedBytes(more))
    <3>1. AskedBytes(more) = Append(AskedBytes(asked), ace)
      BY AskedOneMore DEF ace
    <3>2. AskedBytes(asked) \in Seq(Seq(Int))
      BY AskedBytesType
    <3>3. Concat(Append(AskedBytes(asked), ace)) = Concat(AskedBytes(asked)) \o ace
      BY <1>0, <3>2, ConcatAppend
    <3>4. a.aces = Concat(AskedBytes(asked))
      BY DEF AclHolds
    <3> HIDE DEF more
    <3>5. QED
      BY <2>6, <3>1, <3>3, <3>4
  <2>8. encode(a, s).count = Len(more) /\ encode(a, s).count <= U16Max
    <3>1. a.count = Len(asked) /\ Len(more) = Len(asked) + 1
      BY DEF AclHolds
    <3> HIDE DEF more
    <3>2. QED
      BY <1>0, <2>2, <2>6, <3>1
  <2>9. AclHolds(encode(a, s), more)
    <3> HIDE DEF more
    <3> QED
      BY <2>5, <2>6, <2>7, <2>8 DEF AclHolds
  <2>10. QED
    BY <2>6, <2>9
<1>3. QED
  BY <1>1, <1>2

\* An adder keeps the invariant, whether it accepts the ACE or latches an error.
LEMMA AclAddStep ==
  ASSUME AclInv, NEW s \in AceSpecs, AclAdd(s)
  PROVE  AclInv'
<1> DEFINE A == [aces : Seq(Int), count : Nat, revision : Int, error : Errors]
<1>1. s \in Specs
  BY AclBuilderAssumption DEF Specs
<1>2. acl.error = "none" /\ acl \in A /\ aclAsked \in Seq(Specs) /\ AclHolds(acl, aclAsked)
  BY DEF AclAdd, AclInv
<1>3. aclAsked' = Append(aclAsked, s) /\ aclOut' = <<>>
  BY DEF AclAdd
<1>4. aclAsked' \in Seq(Specs)
  BY <1>1, <1>2, <1>3
<1>5. CASE acl' = encode(acl, s)
  <2>1. acl' \in A /\ (acl'.error = "none" => AclHolds(acl', aclAsked'))
    BY <1>1, <1>2, <1>3, <1>5, EncodeHolds
  <2>2. QED
    BY <1>3, <1>4, <2>1 DEF AclInv
<1>6. ASSUME NEW e \in {"EINVAL", "ENOMEM"}, acl' = [acl EXCEPT !.error = e]
      PROVE  AclInv'
  <2>1. acl' \in A /\ acl'.error # "none"
    BY <1>2, <1>6 DEF Errors
  <2>2. QED
    BY <1>3, <1>4, <2>1 DEF AclInv
<1>7. acl' = encode(acl, s) \/ \E e \in {"EINVAL", "ENOMEM"} : acl' = [acl EXCEPT !.error = e]
  BY DEF AclAdd
<1>8. QED
  BY <1>5, <1>6, <1>7

\* So do bytes and finish.
LEMMA AclTakeStep ==
  ASSUME AclInv, NEW enough \in BOOLEAN, AclTake(enough)
  PROVE  AclInv'
<1> DEFINE A == [aces : Seq(Int), count : Nat, revision : Int, error : Errors]
<1>0. acl \in A /\ U16Max \in Nat /\ Len(acl.aces) \in Nat
  BY AclBuilderAssumption DEF AclInv
<1>1. PICK errno \in AclMaterialize(acl) :
        /\ acl' = [acl EXCEPT !.error = errno]
        /\ aclOut' = IF errno = "none" /\ enough THEN AclRendered(acl) ELSE <<>>
        /\ aclAsked' = aclAsked
  BY DEF AclTake
<1>2. errno \in Errors
  BY <1>0, <1>1 DEF AclMaterialize, Errors
<1>3. acl' \in A /\ acl'.error = errno /\ acl'.aces = acl.aces /\ acl'.count = acl.count
      /\ acl'.revision = acl.revision
  BY <1>0, <1>1, <1>2
<1>4. CASE errno # "none"
  BY <1>1, <1>3, <1>4 DEF AclInv
<1>5. CASE errno = "none"
  <2>1. acl.error = "none" /\ AclHeader + Len(acl.aces) <= U16Max
    BY <1>0, <1>1, <1>5 DEF AclMaterialize, AclHeader
  <2>2. AclHolds(acl', aclAsked')
    BY <1>1, <1>3, <2>1 DEF AclInv, AclHolds
  <2>3. AclRendered(acl') = AclRendered(acl)
    BY <1>3 DEF AclRendered
  <2>4. aclOut' # <<>> => aclOut' = AclRendered(acl')
    BY <1>1, <2>3
  <2>5. QED
    BY <1>1, <1>3, <1>5, <2>1, <2>2, <2>4 DEF AclInv
<1>6. QED
  BY <1>4, <1>5

\* So does every call of an adder, or a reset.
LEMMA AclCallsStep ==
  ASSUME AclInv, AclCalls
  PROVE  AclInv'
<1>1. CASE peios_acl_builder_reset
  <2>1. AclInit'
    BY <1>1 DEF peios_acl_builder_reset, AclInit, new_acl_builder
  <2>2. AclInit' => AclInv'
    BY AclInvInit, PTL
  <2>3. QED
    BY <2>1, <2>2
<1>2. ASSUME NEW s \in AceSpecs, AclAdd(s)
      PROVE  AclInv'
  BY <1>2, AclAddStep
<1>3. QED
  BY <1>1, <1>2 DEF AclCalls

\* No size wraps in its 16 bits.
LEMMA FitsU16 ==
  ASSUME NEW n \in Nat, n <= U16Max
  PROVE  AsU16(n) = n
<1>1. U16Max + 1 \in Nat /\ n < U16Max + 1 /\ 0 <= n
  BY AclBuilderAssumption
<1>2. \A m \in Nat : n < m => n % m = n
  OBVIOUS
<1>3. QED
  BY <1>1, <1>2 DEF AsU16

\* The ACL given out is the header and the ACEs asked for since the last reset, in
\* order, and every size fits its field.
AclGiven ==
  aclOut # <<>> =>
    LET body == Concat(AskedBytes(aclAsked))
    IN  /\ AclHeader + Len(body) <= U16Max /\ Len(aclAsked) <= U16Max
        /\ aclOut = Word(RevisionOf(aclAsked), 1) \o Word(0, 1) \o Word(AclHeader + Len(body), 2)
                      \o Word(Len(aclAsked), 2) \o Word(0, 2) \o body

\* The invariant says what is given out.
LEMMA AclInvGiven == AclInv => AclGiven
<1> SUFFICES ASSUME AclInv, aclOut # <<>>
             PROVE  LET body == Concat(AskedBytes(aclAsked))
                    IN  /\ AclHeader + Len(body) <= U16Max /\ Len(aclAsked) <= U16Max
                        /\ aclOut = Word(RevisionOf(aclAsked), 1) \o Word(0, 1)
                                      \o Word(AclHeader + Len(body), 2)
                                      \o Word(Len(aclAsked), 2) \o Word(0, 2) \o body
  BY DEF AclGiven
<1> DEFINE body == Concat(AskedBytes(aclAsked))
<1>1. /\ acl.aces = body /\ acl.count = Len(aclAsked) /\ acl.count <= U16Max
      /\ acl.revision = RevisionOf(aclAsked) /\ aclOut = AclRendered(acl)
      /\ AclHeader + Len(acl.aces) <= U16Max /\ acl.aces \in Seq(Int) /\ acl.count \in Nat
  BY DEF AclInv, AclHolds
<1> HIDE DEF body
<1>2. AclHeader + Len(acl.aces) \in Nat
  BY <1>1 DEF AclHeader
<1>3. AsU16(AclHeader + Len(acl.aces)) = AclHeader + Len(acl.aces)
  BY <1>1, <1>2, FitsU16
<1>4. AsU16(acl.count) = acl.count
  BY <1>1, FitsU16
<1>5. aclOut = Word(acl.revision, 1) \o Word(0, 1) \o Word(AclHeader + Len(acl.aces), 2)
                 \o Word(acl.count, 2) \o Word(0, 2) \o acl.aces
  BY <1>1, <1>3, <1>4 DEF AclRendered
<1>6. QED
  BY <1>1, <1>5 DEF body

-----------------------------------------------------------------------------
(* The security-descriptor builder. *)

\* The fields of the descriptor builder besides its error.
SdFields == {"owner", "group", "dacl", "sacl", "control_user"}

\* What holds while no error is latched.
SdHolds(s, asked) == \A f \in SdFields : s[f] = asked[f]

\* The invariant of the descriptor builder.
SdInv ==
  /\ DOMAIN sd = SdFields \cup {"error"} /\ DOMAIN sdAsked = SdFields
  /\ sd.error = "none" => SdHolds(sd, sdAsked)
  /\ sdOut # <<>> =>
       /\ sd.error = "none" /\ sdOut = SdRendered(sd)
       /\ ~(Len(sdOut) > SD_MAX) /\ SdParses(sdOut)

\* A descriptor builder that is new holds what was asked of it: nothing.
LEMMA SdNew ==
  /\ DOMAIN new_sd_builder = SdFields \cup {"error"} /\ DOMAIN Unset = SdFields
  /\ new_sd_builder.error = "none" /\ SdHolds(new_sd_builder, Unset)
BY DEF new_sd_builder, Unset, SdFields, SdHolds

\* A reset starts again from there.
LEMMA SdFresh ==
  ASSUME sd' = new_sd_builder, sdAsked' = Unset, sdOut' = <<>>
  PROVE  SdInv'
BY SdNew DEF SdInv

\* A field that is set is the one asked for.
LEMMA SdSetStep ==
  ASSUME SdInv, NEW field \in SdFields, NEW value, sd.error = "none",
         sd' = [sd EXCEPT ![field] = value], sdAsked' = [sdAsked EXCEPT ![field] = value],
         sdOut' = <<>>
  PROVE  SdInv'
<1>1. DOMAIN sd = SdFields \cup {"error"} /\ DOMAIN sdAsked = SdFields /\ SdHolds(sd, sdAsked)
  BY DEF SdInv
<1>2. DOMAIN sd' = SdFields \cup {"error"} /\ DOMAIN sdAsked' = SdFields
  BY <1>1
<1>3. ASSUME NEW f \in SdFields
      PROVE  sd'[f] = sdAsked'[f]
  BY <1>1 DEF SdHolds
<1>4. QED
  BY <1>2, <1>3 DEF SdInv, SdHolds

\* A latched error asks nothing of the fields.
LEMMA SdLatchStep ==
  ASSUME SdInv, NEW e, e # "none", sd' = [sd EXCEPT !.error = e],
         DOMAIN sdAsked' = SdFields, sdOut' = <<>>
  PROVE  SdInv'
<1>1. DOMAIN sd = SdFields \cup {"error"}
  BY DEF SdInv
<1>2. DOMAIN sd' = SdFields \cup {"error"} /\ sd'.error = e
  BY <1>1
<1>3. QED
  BY <1>2 DEF SdInv

\* set_component sets the field or latches.
LEMMA SdComponentStep ==
  ASSUME SdInv, NEW field \in SdFields, NEW bytes, NEW valid, set_component(field, bytes, valid)
  PROVE  SdInv'
<1>1. sd.error = "none" /\ sdAsked' = [sdAsked EXCEPT ![field] = bytes] /\ sdOut' = <<>>
  BY DEF set_component
<1>2. DOMAIN sdAsked' = SdFields
  BY <1>1 DEF SdInv
<1>3. CASE sd' = [sd EXCEPT ![field] = bytes]
  BY <1>1, <1>3, SdSetStep
<1>4. ASSUME NEW e \in {"EINVAL", "ENOMEM"}, sd' = [sd EXCEPT !.error = e]
      PROVE  SdInv'
  BY <1>1, <1>2, <1>4, SdLatchStep
<1>5. sd' = [sd EXCEPT ![field] = bytes] \/ \E e \in {"EINVAL", "ENOMEM"} : sd' = [sd EXCEPT !.error = e]
  BY DEF set_component
<1>6. QED
  BY <1>3, <1>4, <1>5

\* Every setter and the reset keep the invariant.
LEMMA SdCallsStep ==
  ASSUME SdInv, NEW acls, SdCalls(acls)
  PROVE  SdInv'
<1>1. CASE peios_sd_builder_reset
  BY <1>1, SdFresh DEF peios_sd_builder_reset
<1>2. ASSUME NEW sid \in SidArgs, peios_sd_builder_owner(sid) \/ peios_sd_builder_group(sid)
      PROVE  SdInv'
  BY <1>2, SdComponentStep DEF peios_sd_builder_owner, peios_sd_builder_group, SdFields
<1>3. ASSUME NEW bytes \in acls, peios_sd_builder_dacl(bytes) \/ peios_sd_builder_sacl(bytes)
      PROVE  SdInv'
  BY <1>3, SdComponentStep DEF peios_sd_builder_dacl, peios_sd_builder_sacl, SdFields
<1>4. ASSUME NEW set \in ControlArgs, NEW clear \in ControlArgs, peios_sd_builder_control(set, clear)
      PROVE  SdInv'
  <2>1. /\ sd.error = "none" /\ sdOut' = <<>>
        /\ sd' = [sd EXCEPT !["control_user"] = (sd["control_user"] \cup set) \ clear]
        /\ sdAsked' = [sdAsked EXCEPT !["control_user"] = (sdAsked["control_user"] \cup set) \ clear]
    BY <1>4 DEF peios_sd_builder_control, SdPut
  <2>2. "control_user" \in SdFields
    BY DEF SdFields
  <2>3. sd["control_user"] = sdAsked["control_user"]
    BY <2>1, <2>2 DEF SdInv, SdHolds
  <2> DEFINE value == (sd["control_user"] \cup set) \ clear
  <2>4. sd' = [sd EXCEPT !["control_user"] = value] /\ sdAsked' = [sdAsked EXCEPT !["control_user"] = value]
    BY <2>1, <2>3
  <2> HIDE DEF value
  <2>5. QED
    BY <2>1, <2>2, <2>4, SdSetStep
<1>5. CASE peios_sd_builder_dacl_null
  <2>1. /\ sd.error = "none" /\ sdOut' = <<>>
        /\ sd' = [sd EXCEPT !["dacl"] = <<>>] /\ sdAsked' = [sdAsked EXCEPT !["dacl"] = <<>>]
    BY <1>5 DEF peios_sd_builder_dacl_null, SdPut
  <2>2. "dacl" \in SdFields
    BY DEF SdFields
  <2>3. QED
    BY <2>1, <2>2, SdSetStep
<1>6. QED
  BY <1>1, <1>2, <1>3, <1>4, <1>5 DEF SdCalls

\* Rendering looks at nothing but the fields.
LEMMA SameRendered ==
  ASSUME NEW s, NEW t, \A f \in SdFields : s[f] = t[f]
  PROVE  SdRendered(s) = SdRendered(t)
<1>1. s.owner = t.owner /\ s.group = t.group /\ s.dacl = t.dacl /\ s.sacl = t.sacl
      /\ s.control_user = t.control_user
  BY DEF SdFields
<1>2. Control(s) = Control(t)
  BY <1>1 DEF Control
<1>3. QED
  BY <1>1, <1>2 DEF SdRendered

\* So do bytes and finish, that render and parse what they rendered.
LEMMA SdTakeStep ==
  ASSUME SdInv, NEW enough \in BOOLEAN, SdTake(enough)
  PROVE  SdInv'
<1> DEFINE bytes == SdRendered(sd)
<1>1. PICK errno \in SdMaterialize(sd, bytes) :
        /\ sd' = [sd EXCEPT !.error = errno]
        /\ sdOut' = IF errno = "none" /\ enough THEN bytes ELSE <<>>
        /\ sdAsked' = sdAsked
  BY DEF SdTake
<1> HIDE DEF bytes
<1>2. DOMAIN sd = SdFields \cup {"error"} /\ DOMAIN sdAsked' = SdFields
  BY <1>1 DEF SdInv
<1>3. CASE errno # "none"
  <2>1. sdOut' = <<>>
    BY <1>1, <1>3
  <2>2. QED
    BY <1>1, <1>2, <1>3, <2>1, SdLatchStep
<1>4. CASE errno = "none"
  <2>1. sd.error = "none" /\ ~(Len(bytes) > SD_MAX) /\ SdParses(bytes)
    BY <1>1, <1>4 DEF SdMaterialize
  <2>2. /\ DOMAIN sd' = SdFields \cup {"error"} /\ sd'.error = "none"
        /\ \A f \in SdFields : sd'[f] = sd[f]
    <3>1. "error" \notin SdFields
      BY DEF SdFields
    <3>2. QED
      BY <1>1, <1>2, <1>4, <3>1
  <2>3. SdHolds(sd', sdAsked')
    BY <1>1, <2>1, <2>2 DEF SdInv, SdHolds
  <2>4. SdRendered(sd') = bytes
    BY <2>2, SameRendered DEF bytes
  <2>5. QED
    BY <1>1, <1>2, <2>1, <2>2, <2>3, <2>4 DEF SdInv
<1>5. QED
  BY <1>3, <1>4

-----------------------------------------------------------------------------
(* The token builder. *)

\* What a list of entries is as bytes, entry being a function.
Mapped(entry, list) == [i \in 1..Len(list) |-> entry[list[i]]]

\* Byte strings concatenate to a byte string.
LEMMA ConcatType ==
  ASSUME NEW S, NEW seqs \in Seq(Seq(S))
  PROVE  Concat(seqs) \in Seq(S)
<1>1. PICK g \in [0..Len(seqs) -> Seq(S)] : Steps(g, seqs, Len(seqs))
  BY FlatExists
<1>2. Concat(seqs) = g[Len(seqs)]
  BY <1>1, ConcatBy
<1>3. Len(seqs) \in 0..Len(seqs)
  OBVIOUS
<1>4. QED
  BY <1>1, <1>2, <1>3

\* The entries of a list are byte strings.
LEMMA MappedType ==
  ASSUME NEW T, NEW S, NEW entry \in [T -> Seq(S)], NEW list \in Seq(T)
  PROVE  Mapped(entry, list) \in Seq(Seq(S)) /\ Len(Mapped(entry, list)) = Len(list)
<1>1. Len(list) \in Nat /\ \A i \in 1..Len(list) : entry[list[i]] \in Seq(S)
  OBVIOUS
<1> DEFINE Q == Seq(S)
<1> HIDE DEF Q
<1>2. Mapped(entry, list) \in Seq(Q) /\ Len(Mapped(entry, list)) = Len(list)
  BY <1>1 DEF Mapped, Q
<1>3. QED
  BY <1>2 DEF Q

\* One more item in the list is one more entry at the end of its bytes.
LEMMA MappedMore ==
  ASSUME NEW T, NEW S, NEW entry \in [T -> Seq(S)], NEW list \in Seq(T), NEW x \in T
  PROVE  Concat(Mapped(entry, Append(list, x))) = Concat(Mapped(entry, list)) \o entry[x]
<1> DEFINE n == Len(list)
           more == Append(list, x)
           a == Mapped(entry, more)
           b == Mapped(entry, list)
           e == entry[x]
           Q == Seq(S)
           y == Append(b, e)
<1>1. n \in Nat /\ more \in Seq(T) /\ Len(more) = n + 1
      /\ more[n + 1] = x /\ \A i \in 1..n : more[i] = list[i]
  OBVIOUS
<1>2. e \in Q
  OBVIOUS
<1> HIDE DEF more
<1>3. a \in Seq(Q) /\ Len(a) = n + 1
  <2>1. Len(more) \in Nat /\ \A i \in 1..Len(more) : entry[more[i]] \in Q
    BY <1>1
  <2> HIDE DEF Q
  <2>2. QED
    BY <1>1, <2>1 DEF Mapped
<1>4. b \in Seq(Q) /\ Len(b) = n
  <2>1. Len(list) \in Nat /\ \A i \in 1..Len(list) : entry[list[i]] \in Q
    BY <1>1
  <2> HIDE DEF Q
  <2>2. QED
    BY <1>1, <2>1 DEF Mapped
<1>5. \A i \in 1..(n + 1) : a[i] = entry[more[i]]
  BY <1>1 DEF Mapped
<1>6. \A i \in 1..n : b[i] = entry[list[i]]
  BY DEF Mapped
<1> HIDE DEF a, b, Q, n
<1>7. y \in Seq(Q) /\ Len(y) = n + 1 /\ y[n + 1] = e /\ \A i \in 1..n : y[i] = b[i]
  <2> HIDE DEF e
  <2> QED
    BY <1>2, <1>4
<1> HIDE DEF y
<1>8. ASSUME NEW i \in 1..(n + 1)
      PROVE  a[i] = y[i]
  <2>1. i = n + 1 \/ i \in 1..n
    BY <1>1
  <2>2. QED
    BY <1>1, <1>5, <1>6, <1>7, <2>1
<1>9. a = y
  BY <1>3, <1>7, <1>8, SeqEqual
<1>10. Concat(y) = Concat(b) \o e
  <2>1. b \in Seq(Seq(S)) /\ e \in Seq(S)
    BY <1>2, <1>4 DEF Q
  <2> HIDE DEF e
  <2>2. QED
    BY <2>1, ConcatAppend DEF y
<1>11. QED
  BY <1>9, <1>10 DEF a, b, more

\* An entry of a list of SIDs: [length][SID][attributes].
SidArgSet == Seq(Int) \X Int
SidEntry == [e \in SidArgSet |-> Word(Len(e[1]), 4) \o e[1] \o Word(e[2], 4)]

\* An entry of a list of claims: [length][claim].
ClaimArgSet == {c[2] : c \in Claims}
ClaimEntry == [c \in ClaimArgSet |-> Word(Len(encode_claim(c)), 4) \o encode_claim(c)]

\* An entry of a list of SIDs is a byte string.
LEMMA SidEntryType == SidEntry \in [SidArgSet -> Seq(Int)]
<1> SUFFICES ASSUME NEW s \in Seq(Int), NEW v \in Int
             PROVE  Word(Len(s), 4) \o s \o Word(v, 4) \in Seq(Int)
  BY DEF SidEntry, SidArgSet
<1>1. Word(v, 4) \in Seq(Int)
  BY WordType
<1>2. Len(s) \in Int
  OBVIOUS
<1>3. Word(Len(s), 4) \in Seq(Int)
  BY <1>2, WordType
<1>4. QED
  BY <1>1, <1>3, Two

\* So is an entry of a list of claims.
LEMMA ClaimEntryType == ClaimEntry \in [ClaimArgSet -> Seq(Int)]
<1> SUFFICES ASSUME NEW c \in ClaimArgSet
             PROVE  Word(Len(encode_claim(c)), 4) \o encode_claim(c) \in Seq(Int)
  BY DEF ClaimEntry
<1> DEFINE e == encode_claim(c)
<1>1. e \in Seq(Int)
  BY TokenBuilderAssumption DEF ClaimArgSet
<1> HIDE DEF e
<1>2. Len(e) \in Int
  BY <1>1
<1>3. Word(Len(e), 4) \in Seq(Int)
  BY <1>2, WordType
<1>4. Word(Len(e), 4) \o e \in Seq(Int)
  BY <1>1, <1>3, Two
<1>5. QED
  BY <1>4 DEF e

\* The sections whose entries the header counts.
Counted == SidLists \cup {"supp_gids"}

\* What is kept of the list asked for in section s.
Kept(s, data, count, list) ==
  /\ s \in SidLists =>
       /\ list \in Seq(SidArgSet) /\ count = Len(list)
       /\ data = Concat(Mapped(SidEntry, list))
  /\ s \in ClaimLists => list \in Seq(ClaimArgSet) /\ data = Concat(Mapped(ClaimEntry, list))
  /\ s \in {"user_sid", "default_dacl", "confinement_sid"} => data = list
  /\ s = "lcs_credentials" =>
       (list = <<>> /\ data = <<>>) \/ \E creds : list = <<creds>> /\ data = encode_lcs(creds)
  /\ s = "supp_gids" =>
       count = Len(list) /\ data = Concat([i \in DOMAIN list |-> Word(list[i], 4)])

\* What holds while no error is latched.
TokHolds(t, asked) ==
  /\ t.scalars = asked.scalars
  /\ t.source_name = NameField(<<>>, asked.source_name)
  /\ \A s \in Sections : Kept(s, t.data[s], t.count[s], asked.lists[s])

\* The fields of struct peios_token_builder, and of what is asked for.
TokKeys == {"scalars", "source_name", "data", "count", "error"}
AskedKeys == {"scalars", "source_name", "lists"}

\* The invariant of the token builder.
TokInv ==
  /\ tok = [k \in TokKeys |-> tok[k]] /\ DOMAIN tok.data = Sections /\ DOMAIN tok.count = Counted
  /\ DOMAIN tokAsked = AskedKeys /\ DOMAIN tokAsked.lists = Sections
  /\ tok.error = "none" => TokHolds(tok, tokAsked)
  /\ tokOut # NoSpec =>
       /\ tok.error = "none" /\ tokOut = TokRendered(tok)
       /\ ~(SPEC_HEADER + Len(tokOut.data) > SPEC_MAX)

\* An empty section keeps an empty list.
LEMMA KeptNone ==
  ASSUME NEW s \in Sections, NEW count, s \in Counted => count = 0
  PROVE  Kept(s, <<>>, count, <<>>)
<1>1. Mapped(SidEntry, <<>>) = <<>> /\ Mapped(ClaimEntry, <<>>) = <<>>
  BY DEF Mapped
<1>2. [i \in DOMAIN <<>> |-> Word(<<>>[i], 4)] = <<>>
  OBVIOUS
<1>3. <<>> \in Seq(SidArgSet) /\ <<>> \in Seq(ClaimArgSet) /\ Len(<<>>) = 0
  OBVIOUS
<1>4. s \in SidLists \/ s = "supp_gids" => count = 0
  BY DEF Counted
<1>5. QED
  BY <1>1, <1>2, <1>3, <1>4, ConcatNone DEF Kept

\* A token builder that is new holds what was asked of it: nothing.
LEMMA TokFresh ==
  ASSUME tok = new_token_builder, tokAsked = NothingAsked, tokOut = NoSpec
  PROVE  TokInv
<1>1. /\ tok.scalars = [f \in ScalarFields |-> 0] /\ tok.source_name = [i \in 1..NAME_BYTES |-> 0]
      /\ tok.data = [s \in Sections |-> <<>>] /\ tok.count = [s \in Counted |-> 0]
      /\ tok.error = "none" /\ tok = [k \in TokKeys |-> tok[k]]
  BY DEF new_token_builder, TokKeys, Counted
<1>2. /\ tokAsked.scalars = [f \in ScalarFields |-> 0] /\ tokAsked.source_name = <<>>
      /\ tokAsked.lists = [s \in Sections |-> <<>>] /\ DOMAIN tokAsked = AskedKeys
  BY DEF NothingAsked, AskedKeys
<1>3. NameField(<<>>, <<>>) = [i \in 1..NAME_BYTES |-> 0]
  <2>1. \A i \in 1..NAME_BYTES : ~(i <= Len(<<>>))
    OBVIOUS
  <2>2. QED
    BY <2>1 DEF NameField
<1>4. ASSUME NEW s \in Sections
      PROVE  Kept(s, tok.data[s], tok.count[s], tokAsked.lists[s])
  <2>1. tok.data[s] = <<>> /\ tokAsked.lists[s] = <<>> /\ (s \in Counted => tok.count[s] = 0)
    BY <1>1, <1>2
  <2>2. QED
    BY <2>1, KeptNone
<1>5. TokHolds(tok, tokAsked)
  BY <1>1, <1>2, <1>3, <1>4 DEF TokHolds
<1>6. QED
  BY <1>1, <1>2, <1>5 DEF TokInv

\* A latched error asks nothing of the fields.
LEMMA TokLatchStep ==
  ASSUME TokInv, NEW e, e # "none", tokOut' = NoSpec,
         tok' = [tok EXCEPT !.error = e], DOMAIN tokAsked' = AskedKeys,
         DOMAIN tokAsked'.lists = Sections
  PROVE  TokInv'
<1>1. tok = [k \in TokKeys |-> tok[k]] /\ DOMAIN tok.data = Sections /\ DOMAIN tok.count = Counted
  BY DEF TokInv
<1>2. "error" \in TokKeys /\ "data" \in TokKeys /\ "count" \in TokKeys
  BY DEF TokKeys
<1>3. /\ tok' = [k \in TokKeys |-> tok'[k]] /\ tok'.error = e /\ tok'.data = tok.data
      /\ tok'.count = tok.count
  BY <1>1, <1>2
<1>4. QED
  BY <1>1, <1>3 DEF TokInv

\* Nor of sections that are partly written.
LEMMA TokBrokenStep ==
  ASSUME tok' = [k \in TokKeys |-> tok'[k]], DOMAIN tok'.data = Sections,
         DOMAIN tok'.count = Counted, tok'.error # "none", tokOut' = NoSpec,
         DOMAIN tokAsked' = AskedKeys, DOMAIN tokAsked'.lists = Sections
  PROVE  TokInv'
BY DEF TokInv

\* A call that asks for a list in section s, keeps it and touches nothing else.
Touches(s) ==
  /\ tok.error = "none" /\ tokOut' = NoSpec
  /\ tok' = [k \in TokKeys |-> tok'[k]] /\ tok'.error = "none"
  /\ tok'.scalars = tok.scalars /\ tok'.source_name = tok.source_name
  /\ DOMAIN tok'.data = Sections /\ DOMAIN tok'.count = Counted
  /\ \A r \in Sections : r # s => tok'.data[r] = tok.data[r]
  /\ \A r \in Counted : r # s => tok'.count[r] = tok.count[r]
  /\ \E list : tokAsked' = [tokAsked EXCEPT !.lists[s] = list]
  /\ Kept(s, tok'.data[s], tok'.count[s], tokAsked'.lists[s])

\* Such a call keeps the invariant.
LEMMA TokSectionStep ==
  ASSUME TokInv, NEW s \in Sections, Touches(s)
  PROVE  TokInv'
<1>1. /\ DOMAIN tokAsked = AskedKeys /\ DOMAIN tokAsked.lists = Sections
      /\ TokHolds(tok, tokAsked)
  BY DEF TokInv, Touches
<1>2. "lists" \in AskedKeys
  BY DEF AskedKeys
<1>3. /\ tok' = [k \in TokKeys |-> tok'[k]] /\ tok'.error = "none" /\ tokOut' = NoSpec
      /\ tok'.scalars = tok.scalars /\ tok'.source_name = tok.source_name
      /\ DOMAIN tok'.data = Sections /\ DOMAIN tok'.count = Counted
  BY DEF Touches
<1>a. /\ \A r \in Sections : r # s => tok'.data[r] = tok.data[r]
      /\ \A r \in Counted : r # s => tok'.count[r] = tok.count[r]
      /\ Kept(s, tok'.data[s], tok'.count[s], tokAsked'.lists[s])
  BY DEF Touches
<1>b. PICK list : tokAsked' = [tokAsked EXCEPT !.lists[s] = list]
  BY DEF Touches
<1>4. /\ DOMAIN tokAsked' = AskedKeys /\ DOMAIN tokAsked'.lists = Sections
      /\ tokAsked'.scalars = tokAsked.scalars /\ tokAsked'.source_name = tokAsked.source_name
      /\ tokAsked'.lists = [tokAsked.lists EXCEPT ![s] = list]
  BY <1>1, <1>2, <1>b
<1>5. \A r \in Sections : r # s => tokAsked'.lists[r] = tokAsked.lists[r]
  BY <1>1, <1>4
<1>6. ASSUME NEW r \in Sections
      PROVE  Kept(r, tok'.data[r], tok'.count[r], tokAsked'.lists[r])
  <2>1. CASE r = s
    BY <1>a, <2>1
  <2>2. CASE r # s
    <3>1. Kept(r, tok.data[r], tok.count[r], tokAsked.lists[r])
      BY <1>1 DEF TokHolds
    <3>2. tok'.data[r] = tok.data[r] /\ (r \in Counted => tok'.count[r] = tok.count[r])
      BY <1>a, <2>2
    <3>3. r \in SidLists \/ r = "supp_gids" => r \in Counted
      BY DEF Counted
    <3>4. Kept(r, tok'.data[r], tok'.count[r], tokAsked.lists[r])
      BY <3>1, <3>2, <3>3 DEF Kept
    <3>5. QED
      BY <1>5, <2>2, <3>4
  <2>3. QED
    BY <2>1, <2>2
<1>7. TokHolds(tok', tokAsked')
  BY <1>1, <1>3, <1>4, <1>6 DEF TokHolds
<1>8. QED
  BY <1>3, <1>4, <1>7 DEF TokInv

\* What is asked for has its shape whatever becomes of it.
LEMMA AskedShape ==
  ASSUME TokInv, NEW s, NEW list, tokAsked' = [tokAsked EXCEPT !.lists[s] = list]
  PROVE  DOMAIN tokAsked' = AskedKeys /\ DOMAIN tokAsked'.lists = Sections
<1>1. DOMAIN tokAsked = AskedKeys /\ DOMAIN tokAsked.lists = Sections /\ "lists" \in AskedKeys
  BY DEF TokInv, AskedKeys
<1>2. QED
  BY <1>1

\* An allocation failed when part of an entry was there.
LEMMA TokPartialStep ==
  ASSUME TokInv, NEW s, NEW more, NEW e, e # "none",
         tok' = [Latched(e) EXCEPT !.data[s] = more],
         DOMAIN tokAsked' = AskedKeys, DOMAIN tokAsked'.lists = Sections, tokOut' = NoSpec
  PROVE  TokInv'
<1>1. tok = [k \in TokKeys |-> tok[k]] /\ DOMAIN tok.data = Sections /\ DOMAIN tok.count = Counted
  BY DEF TokInv
<1>2. "error" \in TokKeys /\ "data" \in TokKeys /\ "count" \in TokKeys
  BY DEF TokKeys
<1> DEFINE t == Latched(e)
<1>3. /\ t = [k \in TokKeys |-> t[k]] /\ t.error = e /\ t.data = tok.data /\ t.count = tok.count
  BY <1>1, <1>2 DEF Latched
<1> HIDE DEF t
<1>4. /\ tok' = [k \in TokKeys |-> tok'[k]] /\ tok'.error = e /\ DOMAIN tok'.data = Sections
      /\ tok'.count = tok.count
  BY <1>1, <1>2, <1>3 DEF t
<1>5. QED
  BY <1>1, <1>4, TokBrokenStep

\* user, confinement and default_dacl.
LEMMA SetBlobStep ==
  ASSUME TokInv, NEW s \in {"user_sid", "default_dacl", "confinement_sid"}, NEW bytes,
         NEW valid \in BOOLEAN, SetBlob(s, bytes, valid)
  PROVE  TokInv'
<1>1. /\ tok.error = "none" /\ tokOut' = NoSpec /\ tokAsked' = [tokAsked EXCEPT !.lists[s] = bytes]
      /\ \/ tok' = [tok EXCEPT !.data[s] = bytes]
         \/ tok' = [tok EXCEPT !.error = "EINVAL"] \/ tok' = [tok EXCEPT !.error = "ENOMEM"]
  BY DEF SetBlob, Setter, Latched
<1>2. DOMAIN tokAsked' = AskedKeys /\ DOMAIN tokAsked'.lists = Sections
  BY <1>1, AskedShape
<1>3. ASSUME NEW e \in {"EINVAL", "ENOMEM"}, tok' = [tok EXCEPT !.error = e]
      PROVE  TokInv'
  BY <1>1, <1>2, <1>3, TokLatchStep
<1>4. CASE tok' = [tok EXCEPT !.data[s] = bytes]
  <2>1. /\ DOMAIN tok.data = Sections /\ DOMAIN tok.count = Counted /\ s \in Sections
        /\ tok = [k \in TokKeys |-> tok[k]] /\ "count" \in TokKeys /\ "data" \in TokKeys
        /\ "error" \in TokKeys /\ "scalars" \in TokKeys /\ "source_name" \in TokKeys
        /\ DOMAIN tokAsked = AskedKeys /\ DOMAIN tokAsked.lists = Sections /\ "lists" \in AskedKeys
    BY DEF TokInv, Sections, Blobs, TokKeys, AskedKeys
  <2>2. /\ tok' = [k \in TokKeys |-> tok'[k]] /\ tok'.error = "none"
        /\ tok'.scalars = tok.scalars /\ tok'.source_name = tok.source_name
        /\ tok'.data = [tok.data EXCEPT ![s] = bytes] /\ tok'.count = tok.count
    BY <1>1, <1>4, <2>1
  <2>3. tok'.data[s] = bytes /\ tokAsked'.lists[s] = bytes
    BY <1>1, <2>1, <2>2
  <2>4. Kept(s, bytes, tok'.count[s], bytes)
    BY DEF Kept, SidLists, ClaimLists
  <2>5. Touches(s)
    BY <1>1, <2>1, <2>2, <2>3, <2>4 DEF Touches
  <2>6. QED
    BY <2>1, <2>5, TokSectionStep
<1>5. QED
  BY <1>1, <1>3, <1>4

\* add_group, add_restricted_sid and add_device_group.
LEMMA AddSidStep ==
  ASSUME TokInv, NEW s \in SidLists, NEW sid \in TokSids, NEW attrs \in Int,
         add_sid_attrs(s, sid, attrs)
  PROVE  TokInv'
<1> DEFINE length == Word(Len(sid), 4)
           entry == length \o sid \o Word(attrs, 4)
           list == Append(tokAsked.lists[s], <<sid, attrs>>)
<1>0. /\ DOMAIN tok.data = Sections /\ DOMAIN tok.count = Counted /\ s \in Sections /\ s \in Counted
      /\ tok = [k \in TokKeys |-> tok[k]] /\ "count" \in TokKeys /\ "data" \in TokKeys
      /\ "error" \in TokKeys /\ "scalars" \in TokKeys /\ "source_name" \in TokKeys
      /\ DOMAIN tokAsked = AskedKeys /\ DOMAIN tokAsked.lists = Sections /\ "lists" \in AskedKeys
  BY DEF TokInv, Sections, Blobs, TokKeys, Counted, AskedKeys
<1>1. /\ tok.error = "none" /\ tokOut' = NoSpec
      /\ tokAsked' = [tokAsked EXCEPT !.lists[s] = Append(@, <<sid, attrs>>)]
      /\ \/ tok' = [tok EXCEPT !.data[s] = @ \o entry, !.count[s] = @ + 1]
         \/ tok' = Latched("EINVAL")
         \/ \E part \in {<<>>, length \o sid} : tok' = [Latched("ENOMEM") EXCEPT !.data[s] = @ \o part]
  BY DEF add_sid_attrs, Setter
<1>2. tokAsked' = [tokAsked EXCEPT !.lists[s] = list]
  BY <1>0, <1>1
<1>3. sid \in Seq(Int) /\ <<sid, attrs>> \in SidArgSet
  BY TokenBuilderAssumption DEF SidArgSet
<1>4. SidEntry[<<sid, attrs>>] = entry
  BY <1>3 DEF SidEntry
<1> HIDE DEF length, entry, list
<1>5. DOMAIN tokAsked' = AskedKeys /\ DOMAIN tokAsked'.lists = Sections
  BY <1>2, AskedShape
<1>6. CASE tok' = Latched("EINVAL")
  BY <1>1, <1>5, <1>6, TokLatchStep DEF Latched
<1>7. ASSUME NEW part, tok' = [Latched("ENOMEM") EXCEPT !.data[s] = @ \o part]
      PROVE  TokInv'
  <2> DEFINE more == tok.data[s] \o part
  <2>1. Latched("ENOMEM").data = tok.data /\ DOMAIN Latched("ENOMEM") = TokKeys
    BY <1>0 DEF Latched
  <2>2. tok' = [Latched("ENOMEM") EXCEPT !.data[s] = more]
    BY <1>0, <1>7, <2>1
  <2> HIDE DEF more
  <2>3. QED
    BY <1>1, <1>5, <2>2, TokPartialStep
<1>8. CASE tok' = [tok EXCEPT !.data[s] = @ \o entry, !.count[s] = @ + 1]
  <2> DEFINE d == tok.data[s] \o entry
             n == tok.count[s] + 1
             data == [tok.data EXCEPT ![s] = d]
             count == [tok.count EXCEPT ![s] = n]
  <2>1. /\ tok' = [k \in TokKeys |-> tok'[k]] /\ tok'.error = "none"
        /\ tok'.scalars = tok.scalars /\ tok'.source_name = tok.source_name
        /\ tok'.data = data /\ tok'.count = count
    BY <1>0, <1>1, <1>8
  <2>2. Kept(s, tok.data[s], tok.count[s], tokAsked.lists[s])
    BY <1>0, <1>1 DEF TokInv, TokHolds
  <2>3. Kept(s, d, n, list)
    <3> DEFINE old == tokAsked.lists[s]
    <3>1. old \in Seq(SidArgSet) /\ tok.count[s] = Len(old) /\ tok.data[s] = Concat(Mapped(SidEntry, old))
      BY <2>2 DEF Kept
    <3>2. s \notin ClaimLists /\ s \notin {"user_sid", "default_dacl", "confinement_sid"}
          /\ s # "lcs_credentials" /\ s # "supp_gids"
      BY DEF SidLists, ClaimLists
    <3> HIDE DEF old
    <3>3. list = Append(old, <<sid, attrs>>)
      BY DEF list, old
    <3>4. list \in Seq(SidArgSet) /\ Len(list) = Len(old) + 1
      <4> DEFINE x == <<sid, attrs>>
      <4>1. x \in SidArgSet
        BY <1>3
      <4> HIDE DEF x
      <4>2. Append(old, x) \in Seq(SidArgSet) /\ Len(Append(old, x)) = Len(old) + 1
        BY <3>1, <4>1
      <4>3. QED
        BY <3>3, <4>2 DEF x
    <3>5. Concat(Mapped(SidEntry, list)) = Concat(Mapped(SidEntry, old)) \o entry
      <4>1. \A x \in SidArgSet : Concat(Mapped(SidEntry, Append(old, x))) = Concat(Mapped(SidEntry, old)) \o SidEntry[x]
        BY <3>1, SidEntryType, MappedMore
      <4>2. QED
        BY <1>3, <1>4, <3>3, <4>1
    <3>6. QED
      BY <3>1, <3>2, <3>4, <3>5 DEF Kept
  <2>4. /\ DOMAIN data = Sections /\ data[s] = d /\ DOMAIN count = Counted /\ count[s] = n
        /\ \A r \in Sections : r # s => data[r] = tok.data[r]
        /\ \A r \in Counted : r # s => count[r] = tok.count[r]
    BY <1>0
  <2> HIDE DEF data, count, d, n
  <2>5. tokAsked'.lists[s] = list
    BY <1>0, <1>2
  <2>6. Touches(s)
    BY <1>1, <1>2, <2>1, <2>3, <2>4, <2>5 DEF Touches
  <2>7. QED
    BY <1>0, <2>6, TokSectionStep
<1>9. QED
  BY <1>1, <1>6, <1>7, <1>8

\* add_user_claim and add_device_claim.
LEMMA AddClaimStep ==
  ASSUME TokInv, NEW s \in ClaimLists, NEW claim \in ClaimArgSet, add_claim(s, claim)
  PROVE  TokInv'
<1> DEFINE e == encode_claim(claim)
           length == Word(Len(e), 4)
           list == Append(tokAsked.lists[s], claim)
<1>0. /\ DOMAIN tok.data = Sections /\ DOMAIN tok.count = Counted /\ s \in Sections
      /\ tok = [k \in TokKeys |-> tok[k]] /\ "count" \in TokKeys /\ "data" \in TokKeys
      /\ "error" \in TokKeys /\ "scalars" \in TokKeys /\ "source_name" \in TokKeys
      /\ DOMAIN tokAsked = AskedKeys /\ DOMAIN tokAsked.lists = Sections /\ "lists" \in AskedKeys
  BY DEF TokInv, Sections, TokKeys, AskedKeys
<1>1. /\ tok.error = "none" /\ tokOut' = NoSpec
      /\ tokAsked' = [tokAsked EXCEPT !.lists[s] = Append(@, claim)]
      /\ \/ tok' = [tok EXCEPT !.data[s] = @ \o length \o e]
         \/ tok' = Latched("EINVAL") \/ tok' = Latched("ENOMEM")
         \/ tok' = [Latched("ENOMEM") EXCEPT !.data[s] = @ \o length]
  BY DEF add_claim, Setter
<1>2. tokAsked' = [tokAsked EXCEPT !.lists[s] = list]
  BY <1>0, <1>1
<1>3. e \in Seq(Int)
  BY TokenBuilderAssumption DEF ClaimArgSet
<1>4. ClaimEntry[claim] = length \o e
  BY DEF ClaimEntry
<1> HIDE DEF list, e
<1>5. length \in Seq(Int)
  <2>1. Len(e) \in Int
    BY <1>3
  <2>2. QED
    BY <2>1, WordType
<1> HIDE DEF length
<1>6. DOMAIN tokAsked' = AskedKeys /\ DOMAIN tokAsked'.lists = Sections
  BY <1>2, AskedShape
<1>7. ASSUME NEW err \in {"EINVAL", "ENOMEM"}, tok' = Latched(err)
      PROVE  TokInv'
  BY <1>1, <1>6, <1>7, TokLatchStep DEF Latched
<1>8. CASE tok' = [Latched("ENOMEM") EXCEPT !.data[s] = @ \o length]
  <2> DEFINE more == tok.data[s] \o length
  <2>1. Latched("ENOMEM").data = tok.data /\ DOMAIN Latched("ENOMEM") = TokKeys
    BY <1>0 DEF Latched
  <2>2. tok' = [Latched("ENOMEM") EXCEPT !.data[s] = more]
    BY <1>0, <1>8, <2>1
  <2> HIDE DEF more
  <2>3. QED
    BY <1>1, <1>6, <2>2, TokPartialStep
<1>9. CASE tok' = [tok EXCEPT !.data[s] = @ \o length \o e]
  <2> DEFINE d == tok.data[s] \o length \o e
             data == [tok.data EXCEPT ![s] = d]
  <2>1. /\ tok' = [k \in TokKeys |-> tok'[k]] /\ tok'.error = "none"
        /\ tok'.scalars = tok.scalars /\ tok'.source_name = tok.source_name
        /\ tok'.data = data /\ tok'.count = tok.count
    BY <1>0, <1>1, <1>9
  <2>2. Kept(s, tok.data[s], tok.count[s], tokAsked.lists[s])
    BY <1>0, <1>1 DEF TokInv, TokHolds
  <2>3. Kept(s, d, tok.count[s], list)
    <3> DEFINE old == tokAsked.lists[s]
               b == Concat(Mapped(ClaimEntry, old))
    <3>1. old \in Seq(ClaimArgSet) /\ tok.data[s] = b
      BY <2>2 DEF Kept
    <3>2. s \notin SidLists /\ s \notin {"user_sid", "default_dacl", "confinement_sid"}
          /\ s # "lcs_credentials" /\ s # "supp_gids"
      BY DEF SidLists, ClaimLists
    <3> HIDE DEF old
    <3>3. list = Append(old, claim)
      BY DEF list, old
    <3>4. list \in Seq(ClaimArgSet)
      BY <3>1, <3>3
    <3>5. Concat(Mapped(ClaimEntry, list)) = b \o (length \o e)
      <4>1. \A x \in ClaimArgSet : Concat(Mapped(ClaimEntry, Append(old, x))) = Concat(Mapped(ClaimEntry, old)) \o ClaimEntry[x]
        BY <3>1, ClaimEntryType, MappedMore
      <4>2. QED
        BY <1>4, <3>3, <4>1
    <3>6. b \in Seq(Int)
      <4>1. Mapped(ClaimEntry, old) \in Seq(Seq(Int))
        BY <3>1, ClaimEntryType, MappedType
      <4>2. QED
        BY <4>1, ConcatType
    <3> HIDE DEF b
    <3>7. d = b \o (length \o e)
      BY <1>3, <1>5, <3>1, <3>6
    <3>8. QED
      BY <3>2, <3>4, <3>5, <3>7 DEF Kept
  <2>4. /\ DOMAIN data = Sections /\ data[s] = d
        /\ \A r \in Sections : r # s => data[r] = tok.data[r]
    BY <1>0
  <2> HIDE DEF data, d
  <2>5. tokAsked'.lists[s] = list
    BY <1>0, <1>2
  <2>6. Touches(s)
    BY <1>0, <1>1, <1>2, <2>1, <2>3, <2>4, <2>5 DEF Touches
  <2>7. QED
    BY <1>0, <2>6, TokSectionStep
<1>10. QED
  BY <1>1, <1>7, <1>8, <1>9

\* supp_gids.
LEMMA GidsStep ==
  ASSUME TokInv, NEW gids, peios_token_builder_supp_gids(gids)
  PROVE  TokInv'
<1> DEFINE s == "supp_gids"
           d == Concat([i \in DOMAIN gids |-> Word(gids[i], 4)])
           n == Len(gids)
<1>0. /\ DOMAIN tok.data = Sections /\ DOMAIN tok.count = Counted /\ s \in Sections /\ s \in Counted
      /\ tok = [k \in TokKeys |-> tok[k]] /\ "count" \in TokKeys /\ "data" \in TokKeys
      /\ "error" \in TokKeys /\ "scalars" \in TokKeys /\ "source_name" \in TokKeys
      /\ DOMAIN tokAsked = AskedKeys /\ DOMAIN tokAsked.lists = Sections /\ "lists" \in AskedKeys
  BY DEF TokInv, Sections, TokKeys, AskedKeys, Counted
<1>1. /\ tok.error = "none" /\ tokOut' = NoSpec /\ tokAsked' = [tokAsked EXCEPT !.lists[s] = gids]
      /\ \/ tok' = [tok EXCEPT !.data[s] = d, !.count[s] = n]
         \/ tok' = Latched("EINVAL") \/ tok' = Latched("ENOMEM")
  BY DEF peios_token_builder_supp_gids, Setter
<1>2. Kept(s, d, n, gids)
  BY DEF Kept, SidLists, ClaimLists
<1> HIDE DEF d, n, s
<1>3. DOMAIN tokAsked' = AskedKeys /\ DOMAIN tokAsked'.lists = Sections
  BY <1>1, AskedShape
<1>4. ASSUME NEW err \in {"EINVAL", "ENOMEM"}, tok' = Latched(err)
      PROVE  TokInv'
  BY <1>1, <1>3, <1>4, TokLatchStep DEF Latched
<1>5. CASE tok' = [tok EXCEPT !.data[s] = d, !.count[s] = n]
  <2>1. /\ tok' = [k \in TokKeys |-> tok'[k]] /\ tok'.error = "none"
        /\ tok'.scalars = tok.scalars /\ tok'.source_name = tok.source_name
        /\ tok'.data = [tok.data EXCEPT ![s] = d] /\ tok'.count = [tok.count EXCEPT ![s] = n]
    BY <1>0, <1>1, <1>5
  <2>2. tok'.data[s] = d /\ tok'.count[s] = n /\ tokAsked'.lists[s] = gids
    BY <1>0, <1>1, <2>1
  <2>3. Touches(s)
    BY <1>0, <1>1, <1>2, <2>1, <2>2 DEF Touches
  <2>4. QED
    BY <1>0, <2>3, TokSectionStep
<1>6. QED
  BY <1>1, <1>4, <1>5

\* lcs_credentials.
LEMMA LcsStep ==
  ASSUME TokInv, NEW creds, peios_token_builder_lcs_credentials(creds)
  PROVE  TokInv'
<1> DEFINE s == "lcs_credentials"
           d == encode_lcs(creds)
           list == <<creds>>
<1>0. /\ DOMAIN tok.data = Sections /\ DOMAIN tok.count = Counted /\ s \in Sections
      /\ tok = [k \in TokKeys |-> tok[k]] /\ "count" \in TokKeys /\ "data" \in TokKeys
      /\ "error" \in TokKeys /\ "scalars" \in TokKeys /\ "source_name" \in TokKeys
      /\ DOMAIN tokAsked = AskedKeys /\ DOMAIN tokAsked.lists = Sections /\ "lists" \in AskedKeys
  BY DEF TokInv, Sections, Blobs, TokKeys, AskedKeys
<1>1. /\ tok.error = "none" /\ tokOut' = NoSpec /\ tokAsked' = [tokAsked EXCEPT !.lists[s] = list]
      /\ \/ tok' = [tok EXCEPT !.data[s] = d]
         \/ tok' = Latched("EINVAL") \/ tok' = Latched("ENOMEM")
  BY DEF peios_token_builder_lcs_credentials, Setter
<1>2. \A count : Kept(s, d, count, list)
  <2> HIDE DEF d
  <2>1. \E c : list = <<c>> /\ d = encode_lcs(c)
    BY DEF d
  <2> HIDE DEF list
  <2>2. QED
    BY <2>1 DEF Kept, SidLists, ClaimLists
<1> HIDE DEF d, s, list
<1>3. DOMAIN tokAsked' = AskedKeys /\ DOMAIN tokAsked'.lists = Sections
  BY <1>1, AskedShape
<1>4. ASSUME NEW err \in {"EINVAL", "ENOMEM"}, tok' = Latched(err)
      PROVE  TokInv'
  BY <1>1, <1>3, <1>4, TokLatchStep DEF Latched
<1>5. CASE tok' = [tok EXCEPT !.data[s] = d]
  <2>1. /\ tok' = [k \in TokKeys |-> tok'[k]] /\ tok'.error = "none"
        /\ tok'.scalars = tok.scalars /\ tok'.source_name = tok.source_name
        /\ tok'.data = [tok.data EXCEPT ![s] = d] /\ tok'.count = tok.count
    BY <1>0, <1>1, <1>5
  <2>2. tok'.data[s] = d /\ tokAsked'.lists[s] = list
    BY <1>0, <1>1, <2>1
  <2>3. Touches(s)
    BY <1>0, <1>1, <1>2, <2>1, <2>2 DEF Touches
  <2>4. QED
    BY <1>0, <2>3, TokSectionStep
<1>6. QED
  BY <1>1, <1>4, <1>5

\* A call that patches the header and touches no section.
Patches ==
  /\ tok.error = "none" /\ tokOut' = NoSpec
  /\ tok' = [k \in TokKeys |-> tok'[k]] /\ tok'.error = "none"
  /\ tok'.data = tok.data /\ tok'.count = tok.count
  /\ DOMAIN tokAsked' = AskedKeys /\ tokAsked'.lists = tokAsked.lists
  /\ tok'.scalars = tokAsked'.scalars
  /\ tok'.source_name = NameField(<<>>, tokAsked'.source_name)

\* Such a call keeps the invariant.
LEMMA TokPatchStep ==
  ASSUME TokInv, Patches
  PROVE  TokInv'
<1>1. /\ DOMAIN tok'.data = Sections /\ DOMAIN tok'.count = Counted
      /\ DOMAIN tokAsked'.lists = Sections /\ TokHolds(tok, tokAsked)
  BY DEF TokInv, Patches
<1>2. TokHolds(tok', tokAsked')
  BY <1>1 DEF TokHolds, Patches
<1>3. QED
  BY <1>1, <1>2 DEF TokInv, Patches

\* The setters of scalars.
LEMMA PutScalarsStep ==
  ASSUME TokInv, NEW op, PutScalars(op)
  PROVE  TokInv'
<1> DEFINE patched(old) == [f \in ScalarFields |-> IF f \in DOMAIN Scalars[op] THEN Scalars[op][f] ELSE old[f]]
<1>0. /\ tok = [k \in TokKeys |-> tok[k]] /\ DOMAIN tokAsked = AskedKeys
      /\ "count" \in TokKeys /\ "data" \in TokKeys
      /\ "error" \in TokKeys /\ "scalars" \in TokKeys /\ "source_name" \in TokKeys
      /\ "lists" \in AskedKeys /\ "scalars" \in AskedKeys /\ "source_name" \in AskedKeys
  BY DEF TokInv, TokKeys, AskedKeys
<1>1. /\ tok.error = "none" /\ tokOut' = NoSpec
      /\ tok' = [tok EXCEPT !.scalars = patched(tok.scalars)]
      /\ tokAsked' = [tokAsked EXCEPT !.scalars = patched(tokAsked.scalars)]
  BY DEF PutScalars, Setter
<1>2. tok.scalars = tokAsked.scalars /\ tok.source_name = NameField(<<>>, tokAsked.source_name)
  BY <1>1 DEF TokInv, TokHolds
<1> DEFINE v == patched(tok.scalars)
<1>3. tok' = [tok EXCEPT !.scalars = v] /\ tokAsked' = [tokAsked EXCEPT !.scalars = v]
  BY <1>1, <1>2
<1> HIDE DEF v
<1>4. Patches
  BY <1>0, <1>1, <1>2, <1>3 DEF Patches
<1>5. QED
  BY <1>4, TokPatchStep

\* flags with a NULL struct.
LEMMA PutNoFlagsStep ==
  ASSUME TokInv, PutNoFlags
  PROVE  TokInv'
<1>0. /\ DOMAIN tokAsked = AskedKeys /\ DOMAIN tokAsked.lists = Sections
      /\ "lists" \in AskedKeys /\ "scalars" \in AskedKeys
  BY DEF TokInv, AskedKeys
<1>1. /\ tokOut' = NoSpec /\ tok' = [tok EXCEPT !.error = "EINVAL"]
      /\ tokAsked' = [tokAsked EXCEPT !.scalars["write_restricted"] = Garbled]
  BY DEF PutNoFlags, Setter, Latched
<1>2. DOMAIN tokAsked' = AskedKeys /\ DOMAIN tokAsked'.lists = Sections
  BY <1>0, <1>1
<1>3. QED
  BY <1>1, <1>2, TokLatchStep

\* source, that clears the name it replaces.
LEMMA SourceStep ==
  ASSUME TokInv, NEW name, NEW id, peios_token_builder_source(name, id)
  PROVE  TokInv'
<1>0. /\ tok = [k \in TokKeys |-> tok[k]] /\ DOMAIN tokAsked = AskedKeys /\ DOMAIN tokAsked.lists = Sections
      /\ "count" \in TokKeys /\ "data" \in TokKeys
      /\ "error" \in TokKeys /\ "scalars" \in TokKeys /\ "source_name" \in TokKeys
      /\ "lists" \in AskedKeys /\ "scalars" \in AskedKeys /\ "source_name" \in AskedKeys
  BY DEF TokInv, TokKeys, AskedKeys
<1>1. /\ tok.error = "none" /\ tokOut' = NoSpec
      /\ tokAsked' = [tokAsked EXCEPT !.source_name = name, !.scalars["source_id"] = id]
      /\ \/ tok' = Latched("EINVAL")
         \/ tok' = [tok EXCEPT !.source_name = NameField(@, name), !.scalars["source_id"] = id]
  BY DEF peios_token_builder_source, Setter
<1>2. /\ DOMAIN tokAsked' = AskedKeys /\ tokAsked'.lists = tokAsked.lists
      /\ tokAsked'.source_name = name
      /\ tokAsked'.scalars = [tokAsked.scalars EXCEPT !["source_id"] = id]
  BY <1>0, <1>1
<1>3. CASE tok' = Latched("EINVAL")
  BY <1>0, <1>1, <1>2, <1>3, TokLatchStep DEF Latched
<1>4. CASE tok' = [tok EXCEPT !.source_name = NameField(@, name), !.scalars["source_id"] = id]
  <2>1. NameField(tok.source_name, name) = NameField(<<>>, name)
    BY DEF NameField
  <2>2. tok' = [tok EXCEPT !.source_name = NameField(<<>>, name), !.scalars["source_id"] = id]
    BY <1>0, <1>4, <2>1
  <2>3. tok.scalars = tokAsked.scalars
    BY <1>1 DEF TokInv, TokHolds
  <2>4. /\ tok' = [k \in TokKeys |-> tok'[k]] /\ tok'.error = "none"
        /\ tok'.data = tok.data /\ tok'.count = tok.count
        /\ tok'.scalars = [tok.scalars EXCEPT !["source_id"] = id]
        /\ tok'.source_name = NameField(<<>>, name)
    BY <1>0, <1>1, <2>2
  <2>5. Patches
    BY <1>1, <1>2, <2>3, <2>4 DEF Patches
  <2>6. QED
    BY <2>5, TokPatchStep
<1>5. QED
  BY <1>1, <1>3, <1>4

\* Every setter and the reset keep the invariant.
LEMMA TokCallsStep ==
  ASSUME TokInv, NEW acls, TokCalls(acls)
  PROVE  TokInv'
<1>1. CASE peios_token_builder_reset
  <2>1. tok' = new_token_builder /\ tokAsked' = NothingAsked /\ tokOut' = NoSpec
    BY <1>1 DEF peios_token_builder_reset
  <2>2. (tok = new_token_builder /\ tokAsked = NothingAsked /\ tokOut = NoSpec => TokInv)'
    BY TokFresh, PTL
  <2>3. QED
    BY <2>1, <2>2
<1>2. ASSUME NEW op \in DOMAIN Scalars, PutScalars(op)
      PROVE  TokInv'
  BY <1>2, PutScalarsStep
<1>3. CASE PutNoFlags
  BY <1>3, PutNoFlagsStep
<1>4. ASSUME NEW name \in SourceNames, peios_token_builder_source(name, 1)
      PROVE  TokInv'
  BY <1>4, SourceStep
<1>5. ASSUME NEW sid \in TokSids, peios_token_builder_user(sid) \/ peios_token_builder_confinement(sid)
      PROVE  TokInv'
  <2>1. sid_valid(sid) \in BOOLEAN
    BY DEF sid_valid
  <2>2. QED
    BY <1>5, <2>1, SetBlobStep DEF peios_token_builder_user, peios_token_builder_confinement
<1>6. ASSUME NEW sid \in TokSids, NEW attrs \in {7, 14},
             \/ peios_token_builder_add_group(sid, attrs)
             \/ peios_token_builder_add_restricted_sid(sid, 7) \/ peios_token_builder_add_device_group(sid, 7)
      PROVE  TokInv'
  BY <1>6, AddSidStep DEF peios_token_builder_add_group, peios_token_builder_add_restricted_sid,
       peios_token_builder_add_device_group, SidLists
<1>7. ASSUME NEW bytes \in acls, peios_token_builder_default_dacl(bytes)
      PROVE  TokInv'
  <2>1. acl_valid(bytes) \in BOOLEAN
    BY DEF acl_valid
  <2>2. QED
    BY <1>7, <2>1, SetBlobStep DEF peios_token_builder_default_dacl
<1>8. ASSUME NEW gids \in GidLists, peios_token_builder_supp_gids(gids)
      PROVE  TokInv'
  BY <1>8, GidsStep
<1>9. ASSUME NEW c \in Claims, add_claim(c[1], c[2])
      PROVE  TokInv'
  <2>1. c[1] \in ClaimLists /\ c[2] \in ClaimArgSet
    BY TokenBuilderAssumption DEF ClaimArgSet
  <2>2. QED
    BY <1>9, <2>1, AddClaimStep
<1>10. ASSUME NEW creds \in LcsArgs, peios_token_builder_lcs_credentials(creds)
       PROVE  TokInv'
  BY <1>10, LcsStep
<1>11. QED
  BY <1>1, <1>2, <1>3, <1>4, <1>5, <1>6, <1>7, <1>8, <1>9, <1>10 DEF TokCalls

\* So do bytes and create.
LEMMA TokTakeStep ==
  ASSUME TokInv, TokTake
  PROVE  TokInv'
<1> DEFINE spec == TokRendered(tok)
<1>1. PICK errno \in TokMaterialize(tok, spec) :
        /\ tok' = [tok EXCEPT !.error = errno]
        /\ tokOut' = IF errno = "none" THEN spec ELSE NoSpec
        /\ tokAsked' = tokAsked
  BY DEF TokTake
<1> HIDE DEF spec
<1>2. CASE errno # "none"
  <2>1. DOMAIN tokAsked' = AskedKeys /\ DOMAIN tokAsked'.lists = Sections /\ tokOut' = NoSpec
    BY <1>1, <1>2 DEF TokInv
  <2>2. QED
    BY <1>1, <1>2, <2>1, TokLatchStep
<1>3. CASE errno = "none"
  <2>1. tok.error = "none" /\ ~(SPEC_HEADER + Len(spec.data) > SPEC_MAX) /\ tokOut' = spec
    BY <1>1, <1>3 DEF TokMaterialize
  <2>2. tok' = tok
    <3>1. tok = [k \in TokKeys |-> tok[k]]
      BY DEF TokInv
    <3>2. QED
      BY <1>1, <1>3, <2>1, <3>1
  <2>3. tokOut' = TokRendered(tok')
    BY <2>1, <2>2 DEF spec
  <2>4. ~(SPEC_HEADER + Len(tokOut'.data) > SPEC_MAX)
    BY <2>1
  <2>5. QED
    BY <1>1, <2>1, <2>2, <2>3, <2>4 DEF TokInv
<1>4. QED
  BY <1>2, <1>3

-----------------------------------------------------------------------------
(* The three builders together. *)

\* The inductive invariant.
BuildInv == AclInv /\ SdInv /\ TokInv

\* A call of another builder leaves the ACL builder alone.
LEMMA AclSame ==
  ASSUME AclInv, UNCHANGED aclVars
  PROVE  AclInv'
BY DEF AclInv, aclVars, AclHolds, AclRendered

\* And the descriptor builder.
LEMMA SdSame ==
  ASSUME SdInv, UNCHANGED sdVars
  PROVE  SdInv'
<1>1. sd' = sd /\ sdAsked' = sdAsked /\ sdOut' = sdOut
  BY DEF sdVars
<1>2. QED
  BY <1>1 DEF SdInv

\* And the token builder.
LEMMA TokSame ==
  ASSUME TokInv, UNCHANGED tokVars
  PROVE  TokInv'
<1>1. tok' = tok /\ tokAsked' = tokAsked /\ tokOut' = tokOut
  BY DEF tokVars
<1>2. QED
  BY <1>1 DEF TokInv

\* What a step does to each builder.
AclStep == AclCalls \/ (\E enough \in BOOLEAN : AclTake(enough)) \/ UNCHANGED aclVars
SdStep == SdCalls(AclArgs) \/ (\E enough \in BOOLEAN : SdTake(enough)) \/ UNCHANGED sdVars
TokStep == TokCalls(AclArgs) \/ TokTake \/ UNCHANGED tokVars

\* A step is a call of one builder, and leaves the others alone.
LEMMA BuildSteps ==
  ASSUME [BuildNext]_buildVars
  PROVE  AclStep /\ SdStep /\ TokStep
<1>1. CASE UNCHANGED buildVars
  BY <1>1 DEF buildVars, AclStep, SdStep, TokStep
<1>2. CASE Call
  BY <1>2 DEF Call, AclStep, SdStep, TokStep
<1>3. CASE Take
  BY <1>3 DEF Take, AclStep, SdStep, TokStep
<1>4. QED
  BY <1>1, <1>2, <1>3 DEF BuildNext

\* New builders satisfy the invariant.
LEMMA BuildInvInit == BuildInit => BuildInv
<1> SUFFICES ASSUME BuildInit PROVE BuildInv
  OBVIOUS
<1>1. AclInit /\ SdInit /\ TokInit
  BY DEF BuildInit, BuildStart
<1>2. AclInv
  BY <1>1, AclInvInit
<1>3. SdInv
  BY <1>1, SdNew DEF SdInit, SdInv
<1>4. TokInv
  BY <1>1, TokFresh DEF TokInit
<1>5. QED
  BY <1>2, <1>3, <1>4 DEF BuildInv

\* Every step keeps it.
LEMMA BuildInvStep == BuildInv /\ [BuildNext]_buildVars => BuildInv'
<1> SUFFICES ASSUME BuildInv, [BuildNext]_buildVars
             PROVE  BuildInv'
  OBVIOUS
<1>0. AclInv /\ SdInv /\ TokInv /\ AclStep /\ SdStep /\ TokStep
  BY BuildSteps DEF BuildInv
<1>1. AclInv'
  <2>1. CASE AclCalls
    BY <1>0, <2>1, AclCallsStep
  <2>2. ASSUME NEW enough \in BOOLEAN, AclTake(enough)
        PROVE  AclInv'
    BY <1>0, <2>2, AclTakeStep
  <2>3. CASE UNCHANGED aclVars
    BY <1>0, <2>3, AclSame
  <2>4. QED
    BY <1>0, <2>1, <2>2, <2>3 DEF AclStep
<1>2. SdInv'
  <2>1. CASE SdCalls(AclArgs)
    BY <1>0, <2>1, SdCallsStep
  <2>2. ASSUME NEW enough \in BOOLEAN, SdTake(enough)
        PROVE  SdInv'
    BY <1>0, <2>2, SdTakeStep
  <2>3. CASE UNCHANGED sdVars
    BY <1>0, <2>3, SdSame
  <2>4. QED
    BY <1>0, <2>1, <2>2, <2>3 DEF SdStep
<1>3. TokInv'
  <2>1. CASE TokCalls(AclArgs)
    BY <1>0, <2>1, TokCallsStep
  <2>2. CASE TokTake
    BY <1>0, <2>2, TokTakeStep
  <2>3. CASE UNCHANGED tokVars
    BY <1>0, <2>3, TokSame
  <2>4. QED
    BY <1>0, <2>1, <2>2, <2>3 DEF TokStep
<1>4. QED
  BY <1>1, <1>2, <1>3 DEF BuildInv

\* Through every order of adders, setters, failed calls, resets and renderings, each
\* builder's struct holds what was asked of it since the last reset, unless an error is
\* latched, and what it last gave out is rendered from that.
THEOREM BuildInvAlways == BuildSpec => []BuildInv
<1>1. BuildInit => BuildInv
  BY BuildInvInit
<1>2. BuildInv /\ [BuildNext]_buildVars => BuildInv'
  BY BuildInvStep
<1>3. QED
  BY <1>1, <1>2, PTL DEF BuildSpec

\* The descriptor given out is rendered from the fields asked for since the last reset,
\* within the size limit, and is one SecurityDescriptor::parse accepts.
SdGiven == sdOut # <<>> => sdOut = SdRendered(sdAsked) /\ ~(Len(sdOut) > SD_MAX) /\ SdParses(sdOut)

\* The token spec given out has every scalar and the source name asked for since the
\* last reset, and in each section the entries asked for, in order, with their count,
\* and is within the size limit.
TokGiven ==
  tokOut # NoSpec =>
    /\ tokOut = TokRendered(tok) /\ TokHolds(tok, tokAsked)
    /\ ~(SPEC_HEADER + Len(tokOut.data) > SPEC_MAX)

\* What the builders give out is what they were asked for.
GivenAsAsked == AclGiven /\ SdGiven /\ TokGiven

\* The bytes that peios_acl_builder_bytes and _finish, peios_sd_builder_bytes and _finish,
\* and peios_token_builder_bytes and _create give out hold exactly what was asked for since
\* the last reset: no adder that failed is passed over, no entry survives a reset, and no
\* size or count is cut to its field.
THEOREM WhatIsGiven == BuildSpec => []GivenAsAsked
<1>1. BuildInv => GivenAsAsked
  <2> SUFFICES ASSUME BuildInv PROVE GivenAsAsked
    OBVIOUS
  <2>1. AclGiven
    BY AclInvGiven DEF BuildInv
  <2>2. SdGiven
    <3> SUFFICES ASSUME sdOut # <<>>
                 PROVE  sdOut = SdRendered(sdAsked) /\ ~(Len(sdOut) > SD_MAX) /\ SdParses(sdOut)
      BY DEF SdGiven
    <3>1. SdHolds(sd, sdAsked) /\ sdOut = SdRendered(sd) /\ ~(Len(sdOut) > SD_MAX) /\ SdParses(sdOut)
      BY DEF BuildInv, SdInv
    <3>2. SdRendered(sd) = SdRendered(sdAsked)
      BY <3>1, SameRendered DEF SdHolds
    <3>3. QED
      BY <3>1, <3>2
  <2>3. TokGiven
    BY DEF BuildInv, TokInv, TokGiven
  <2>4. QED
    BY <2>1, <2>2, <2>3 DEF GivenAsAsked
<1>2. QED
  BY <1>1, BuildInvAlways, PTL

\* An ACL builder with an error keeps that error or is reset.
LEMMA AclSticks ==
  ASSUME AclInv, AclStep, acl.error # "none"
  PROVE  acl'.error = acl.error \/ aclAsked' = <<>>
<1>0. "error" \in DOMAIN acl
  BY DEF AclInv
<1>1. CASE AclCalls
  BY <1>1 DEF AclCalls, AclAdd, peios_acl_builder_reset
<1>2. ASSUME NEW enough \in BOOLEAN, AclTake(enough)
      PROVE  acl'.error = acl.error
  <2>1. acl' = [acl EXCEPT !.error = acl.error]
    BY <1>2 DEF AclTake, AclMaterialize
  <2>2. QED
    BY <1>0, <2>1
<1>3. CASE UNCHANGED aclVars
  BY <1>3 DEF aclVars
<1>4. QED
  BY <1>1, <1>2, <1>3 DEF AclStep

\* And a descriptor builder.
LEMMA SdSticks ==
  ASSUME SdInv, SdStep, sd.error # "none"
  PROVE  sd'.error = sd.error \/ sdAsked' = Unset
<1>0. "error" \in DOMAIN sd
  BY DEF SdInv
<1>1. CASE SdCalls(AclArgs)
  BY <1>1 DEF SdCalls, peios_sd_builder_reset, peios_sd_builder_owner, peios_sd_builder_group,
       peios_sd_builder_dacl, peios_sd_builder_sacl, peios_sd_builder_control,
       peios_sd_builder_dacl_null, set_component, SdPut
<1>2. ASSUME NEW enough \in BOOLEAN, SdTake(enough)
      PROVE  sd'.error = sd.error
  <2>1. sd' = [sd EXCEPT !.error = sd.error]
    BY <1>2 DEF SdTake, SdMaterialize
  <2>2. QED
    BY <1>0, <2>1
<1>3. CASE UNCHANGED sdVars
  BY <1>3 DEF sdVars
<1>4. QED
  BY <1>1, <1>2, <1>3 DEF SdStep

\* And a token builder.
LEMMA TokSticks ==
  ASSUME TokInv, TokStep, tok.error # "none"
  PROVE  tok'.error = tok.error \/ tokAsked' = NothingAsked
<1>0. "error" \in DOMAIN tok
  <2>1. tok = [k \in TokKeys |-> tok[k]] /\ "error" \in TokKeys
    BY DEF TokInv, TokKeys
  <2>2. QED
    BY <2>1
<1>2. CASE TokCalls(AclArgs)
  <2>1. CASE peios_token_builder_reset
    BY <2>1 DEF peios_token_builder_reset
  <2>2. CASE (\E op \in DOMAIN Scalars : PutScalars(op)) \/ PutNoFlags
    BY <2>2 DEF PutScalars, PutNoFlags, Setter
  <2>3. CASE \E name \in SourceNames : peios_token_builder_source(name, 1)
    BY <2>3 DEF peios_token_builder_source, Setter
  <2>4. CASE \E sid \in TokSids :
               \/ peios_token_builder_user(sid) \/ peios_token_builder_confinement(sid)
               \/ \E attrs \in {7, 14} : peios_token_builder_add_group(sid, attrs)
               \/ peios_token_builder_add_restricted_sid(sid, 7) \/ peios_token_builder_add_device_group(sid, 7)
    BY <2>4 DEF peios_token_builder_user, peios_token_builder_confinement, SetBlob,
         peios_token_builder_add_group, peios_token_builder_add_restricted_sid,
         peios_token_builder_add_device_group, add_sid_attrs, Setter
  <2>5. CASE \E bytes \in AclArgs : peios_token_builder_default_dacl(bytes)
    BY <2>5 DEF peios_token_builder_default_dacl, SetBlob, Setter
  <2>6. CASE \E gids \in GidLists : peios_token_builder_supp_gids(gids)
    BY <2>6 DEF peios_token_builder_supp_gids, Setter
  <2>7. CASE \E c \in Claims : add_claim(c[1], c[2])
    BY <2>7 DEF add_claim, Setter
  <2>8. CASE \E creds \in LcsArgs : peios_token_builder_lcs_credentials(creds)
    BY <2>8 DEF peios_token_builder_lcs_credentials, Setter
  <2>9. QED
    BY <1>2, <2>1, <2>2, <2>3, <2>4, <2>5, <2>6, <2>7, <2>8 DEF TokCalls
<1>3. CASE TokTake
  <2>1. tok' = [tok EXCEPT !.error = tok.error]
    BY <1>3 DEF TokTake, TokMaterialize
  <2>2. QED
    BY <1>0, <2>1
<1>4. CASE UNCHANGED tokVars
  BY <1>4 DEF tokVars
<1>5. QED
  BY <1>2, <1>3, <1>4 DEF TokStep

\* An error a builder's call meets stays latched, and stays the first one, until the
\* builder is reset: every setter returns at once, and materialize gives it back.
THEOREM FirstErrorSticks == BuildSpec => StickyFirstError
<1> DEFINE Sticks ==
      /\ acl.error # "none" => acl'.error = acl.error \/ aclAsked' = <<>>
      /\ sd.error # "none" => sd'.error = sd.error \/ sdAsked' = Unset
      /\ tok.error # "none" => tok'.error = tok.error \/ tokAsked' = NothingAsked
<1>1. BuildInv /\ [BuildNext]_buildVars => [Sticks]_buildVars
  <2> SUFFICES ASSUME BuildInv, [BuildNext]_buildVars
               PROVE  Sticks
    OBVIOUS
  <2>1. AclInv /\ SdInv /\ TokInv /\ AclStep /\ SdStep /\ TokStep
    BY BuildSteps DEF BuildInv
  <2>2. QED
    BY <2>1, AclSticks, SdSticks, TokSticks
<1>2. BuildSpec => [][Sticks]_buildVars
  BY <1>1, BuildInvAlways, PTL DEF BuildSpec
<1>3. QED
  BY <1>2 DEF StickyFirstError
=============================================================================
