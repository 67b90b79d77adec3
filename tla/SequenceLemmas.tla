--------------------------- MODULE SequenceLemmas ---------------------------
(***************************************************************************)
(* Facts about sequences that the proofs about the adapters' plans need:   *)
(* what the concatenation of a sequence of sequences contains, which       *)
(* sequences keep one kind of members for the end, and that a finite set   *)
(* of numbers can be enumerated in its order.  Each is proved by a least   *)
(* counterexample, as the induction theorems take an operator.             *)
(***************************************************************************)
EXTENDS Integers, Sequences, FiniteSets, FiniteSetTheorems, SequenceTheorems,
        WellFoundedInduction, TLAPS

Items(s) == {s[i] : i \in DOMAIN s}
IsSeq(s) == s \in Seq(Items(s))

\* f[k] is the concatenation of the first k members of s: SequencesExt defines
\* FlattenSeq by such a function.
Parts(s, n, f) == f = [k \in 1..n |-> IF k = 1 THEN s[k] ELSE f[k - 1] \o s[k]]

---------------------------------------------------------------------------
(* Least counterexamples. *)

\* A set of naturals that is not empty has a least element.
LEMMA Least ==
  ASSUME NEW T, T \subseteq Nat, T # {}
  PROVE  \E x \in T : \A y \in T : x <= y
<1> DEFINE R == OpToRel(<, Nat)
<1>1. IsWellFoundedOn(R, Nat)
  BY NatLessThanWellFounded
<1>2. \A x, y \in T : y < x => <<y, x>> \in R
  BY DEF OpToRel
<1> HIDE DEF R
<1>3. PICK x \in T : \A y \in T : ~ (<<y, x>> \in R)
  BY <1>1, WFMin
<1>4. ASSUME NEW y \in T PROVE x <= y
  <2>1. ~ (y < x)
    BY <1>2, <1>3
  <2> QED BY <2>1
<1> QED
  BY <1>4

\* A finite set of naturals in which each has its successor is empty.
LEMMA NoLargest ==
  ASSUME NEW S, IsFiniteSet(S), S \subseteq Nat, \A q \in S : q + 1 \in S
  PROVE  S = {}
<1> SUFFICES ASSUME NEW q \in S PROVE FALSE
  OBVIOUS
<1> DEFINE T == {n \in Nat : q + n \notin S}
           c == Cardinality(S)
<1>1. q \in Nat /\ c \in Nat
  BY FS_CardinalityType
<1>2. T # {}
  <2> SUFFICES ASSUME q..(q + c) \subseteq S PROVE FALSE
    <3>1. ASSUME T = {} PROVE q..(q + c) \subseteq S
      <4> SUFFICES ASSUME NEW i \in q..(q + c) PROVE i \in S
        OBVIOUS
      <4>1. i - q \in Nat /\ q + (i - q) = i
        BY <1>1
      <4> QED BY <3>1, <4>1
    <3> QED BY <3>1
  <2>1. IsFiniteSet(q..(q + c)) /\ Cardinality(q..(q + c)) = c + 1
    <3>1. /\ q \in Int /\ q + c \in Int /\ ~ (q > q + c) /\ (q + c) - q + 1 = c + 1
      BY <1>1
    <3> HIDE DEF c
    <3> QED BY <3>1, FS_Interval
  <2>2. Cardinality(q..(q + c)) <= c
    BY FS_Subset
  <2> QED BY <1>1, <2>1, <2>2
<1>3. PICK n \in T : \A k \in T : n <= k
  <2> HIDE DEF T
  <2>1. T \subseteq Nat
    BY DEF T
  <2> QED BY <1>2, <2>1, Least
<1>4. n \in Nat /\ q + n \notin S /\ n # 0
  BY <1>1
<1>5. n - 1 \in Nat /\ n - 1 \notin T
  BY <1>3, <1>4
<1>6. q + (n - 1) \in S
  BY <1>5
<1>7. (q + (n - 1)) + 1 = q + n
  BY <1>1, <1>4
<1> QED
  BY <1>4, <1>6, <1>7

---------------------------------------------------------------------------
(* Sequences and what they contain. *)

\* A function on 1..n is a sequence.
LEMMA FunctionIsSeq ==
  ASSUME NEW n \in Nat, NEW s, s = [i \in 1..n |-> s[i]]
  PROVE  IsSeq(s) /\ Len(s) = n /\ DOMAIN s = 1..n
<1>1. s \in [1..n -> Items(s)]
  BY DEF Items
<1> QED
  BY <1>1 DEF IsSeq

LEMMA SeqIsSeq ==
  ASSUME NEW S, NEW s \in Seq(S)
  PROVE  IsSeq(s)
<1>1. Len(s) \in Nat /\ s = [i \in 1..Len(s) |-> s[i]]
  OBVIOUS
<1> QED
  BY <1>1, FunctionIsSeq

LEMMA SeqFacts ==
  ASSUME NEW s, IsSeq(s)
  PROVE  /\ Len(s) \in Nat /\ DOMAIN s = 1..Len(s)
         /\ s = [i \in 1..Len(s) |-> s[i]]
         /\ s = <<>> <=> Len(s) = 0
  BY DEF IsSeq

LEMMA EmptyIsSeq == IsSeq(<<>>) /\ Items(<<>>) = {}
  BY DEF IsSeq, Items

LEMMA SingletonIsSeq ==
  ASSUME NEW x
  PROVE  IsSeq(<<x>>) /\ Items(<<x>>) = {x}
  BY DEF IsSeq, Items

LEMMA ConcatIsSeq ==
  ASSUME NEW a, NEW b, IsSeq(a), IsSeq(b)
  PROVE  IsSeq(a \o b) /\ Items(a \o b) = Items(a) \cup Items(b)
<1> DEFINE S == Items(a) \cup Items(b)
<1>1. a \in Seq(S) /\ b \in Seq(S)
  BY DEF IsSeq
<1>2. a \o b \in Seq(S)
  BY <1>1
<1>3. Items(a \o b) = S
  <2>1. Items(a \o b) \subseteq S
    BY <1>2 DEF Items
  <2>2. ASSUME NEW i \in DOMAIN a PROVE a[i] \in Items(a \o b)
    <3>1. i \in DOMAIN (a \o b) /\ (a \o b)[i] = a[i]
      BY <1>1, <1>2
    <3> QED BY <3>1 DEF Items
  <2>3. ASSUME NEW i \in DOMAIN b PROVE b[i] \in Items(a \o b)
    <3>1. Len(a) + i \in DOMAIN (a \o b) /\ (a \o b)[Len(a) + i] = b[i]
      BY <1>1, <1>2
    <3> QED BY <3>1 DEF Items
  <2> QED BY <2>1, <2>2, <2>3 DEF Items
<1> QED
  BY <1>2, <1>3 DEF IsSeq

LEMMA ConcatEmpty ==
  ASSUME NEW s, IsSeq(s)
  PROVE  s \o <<>> = s /\ <<>> \o s = s
<1>1. s \in Seq(Items(s)) /\ <<>> \in Seq(Items(s))
  BY DEF IsSeq
<1> QED
  BY <1>1

LEMMA TailIsSeq ==
  ASSUME NEW s, IsSeq(s), s # <<>>
  PROVE  IsSeq(Tail(s)) /\ Items(s) = {Head(s)} \cup Items(Tail(s))
<1>1. /\ Tail(s) \in Seq(Items(s)) /\ Head(s) = s[1] /\ Len(s) \in Nat \ {0}
      /\ DOMAIN s = 1..Len(s) /\ DOMAIN Tail(s) = 1..Len(s) - 1
      /\ \A i \in 1..Len(s) - 1 : Tail(s)[i] = s[i + 1]
  BY DEF IsSeq
<1>2. Items(Tail(s)) \subseteq Items(s)
  BY <1>1 DEF Items
<1>3. ASSUME NEW i \in DOMAIN s PROVE s[i] \in {Head(s)} \cup Items(Tail(s))
  <2>1. CASE i = 1
    BY <2>1, <1>1
  <2>2. CASE i # 1
    <3>1. i - 1 \in DOMAIN Tail(s) /\ Tail(s)[i - 1] = s[(i - 1) + 1]
      BY <2>2, <1>1
    <3>2. s[(i - 1) + 1] = s[i]
      BY <1>1
    <3> QED BY <3>1, <3>2 DEF Items
  <2> QED BY <2>1, <2>2
<1>4. Head(s) \in Items(s)
  BY <1>1 DEF Items
<1>5. Items(s) = {Head(s)} \cup Items(Tail(s))
  BY <1>2, <1>3, <1>4 DEF Items
<1>6. IsSeq(Tail(s))
  BY <1>1, SeqIsSeq
<1> QED
  BY <1>5, <1>6
\* Two calls in a row.
LEMMA JoinOfTwo ==
  ASSUME NEW S, NEW one \in Seq(S), NEW two \in Seq(S), NEW both \in Seq(S), Len(one) = 1, Len(two) = 1, Len(both) = 2,
         both[1] = one[1], both[2] = two[1]
  PROVE  one \o two = both
<1>1. one \o two \in Seq(S) /\ Len(one \o two) = 2
  BY ConcatProperties
<1>2. \A i \in 1..2 : (one \o two)[i] = both[i]
  BY ConcatProperties
<1> QED
  BY <1>1, <1>2, SeqEqual

LEMMA TailOfTwo ==
  ASSUME NEW S, NEW both \in Seq(S), Len(both) = 2, NEW two \in Seq(S), Len(two) = 1, two[1] = both[2]
  PROVE  Head(both) = both[1] /\ Tail(both) = two
<1>1. IsSeq(both)
  BY SeqIsSeq
<1>2. both # <<>>
  <2>1. 2 # 0
    OBVIOUS
  <2> QED BY <1>1, <2>1, SeqFacts
<1> DEFINE rest == Tail(both)
<1>3. rest \in Seq(S) /\ Len(rest) = Len(both) - 1 /\ Head(both) = both[1] /\ \A i \in 1..Len(rest) : rest[i] = both[i + 1]
  BY <1>2, HeadTailProperties
<1> HIDE DEF rest
<1>4. Len(rest) = 1
  BY <1>3
<1>5. \A i \in 1..1 : rest[i] = two[i]
  BY <1>3, <1>4
<1>6. rest = two
  BY <1>3, <1>4, <1>5, SeqEqual
<1> QED
  BY <1>3, <1>6 DEF rest

LEMMA TwoCalls ==
  ASSUME NEW c, NEW d
  PROVE  <<c>> \o <<d>> = <<c, d>> /\ Head(<<c, d>>) = c /\ Tail(<<c, d>>) = <<d>>
<1> DEFINE S == {c, d}
           one == <<c>>
           two == <<d>>
           both == <<c, d>>
<1>1. one \in Seq(S) /\ two \in Seq(S) /\ both \in Seq(S)
  OBVIOUS
<1>2. Len(one) = 1 /\ Len(two) = 1 /\ Len(both) = 2 /\ one[1] = c /\ two[1] = d /\ both[1] = c /\ both[2] = d
  OBVIOUS
<1> HIDE DEF S, one, two, both
<1>5. one \o two = both
  BY <1>1, <1>2, JoinOfTwo
<1>6. Head(both) = both[1] /\ Tail(both) = two
  BY <1>1, <1>2, TailOfTwo
<1> QED
  BY <1>2, <1>5, <1>6 DEF one, two, both

---------------------------------------------------------------------------
(* Concatenations. *)

LEMMA PartsExist ==
  ASSUME NEW s, NEW n \in Nat
  PROVE  \E f : Parts(s, n, f)
<1> DEFINE T == {m \in Nat : ~ \E f : Parts(s, m, f)}
<1> SUFFICES ASSUME T # {} PROVE FALSE
  OBVIOUS
<1>1. PICK m \in T : \A k \in T : m <= k
  BY Least
<1>2. CASE m = 0
  <2>1. Parts(s, 0, [k \in {} |-> k])
    BY DEF Parts
  <2> QED BY <1>2, <2>1
<1>3. CASE m # 0
  <2>1. m \in Nat \ {0} /\ m - 1 \in Nat /\ m - 1 \notin T
    BY <1>1, <1>3
  <2>2. PICK f : Parts(s, m - 1, f)
    BY <2>1
  <2> HIDE DEF T
  <2> DEFINE g == [k \in 1..m |-> IF k = 1 THEN s[k] ELSE f[k - 1] \o s[k]]
  <2>3. ASSUME NEW k \in 1..m - 1 PROVE g[k] = f[k]
    <3>1. f = [j \in 1..m - 1 |-> IF j = 1 THEN s[j] ELSE f[j - 1] \o s[j]]
      BY <2>2 DEF Parts
    <3>2. f[k] = IF k = 1 THEN s[k] ELSE f[k - 1] \o s[k]
      BY <3>1
    <3>3. k \in 1..m
      BY <2>1
    <3> QED BY <3>2, <3>3
  <2>4. ASSUME NEW k \in 1..m, k # 1 PROVE g[k - 1] = f[k - 1]
    <3>1. k - 1 \in 1..m - 1
      BY <2>1, <2>4
    <3> QED BY <3>1, <2>3
  <2>5. g = [k \in 1..m |-> IF k = 1 THEN s[k] ELSE g[k - 1] \o s[k]]
    BY <2>4
  <2>6. Parts(s, m, g)
    BY <2>5 DEF Parts
  <2>7. m \notin T
    BY <2>6 DEF T
  <2> QED BY <2>7
<1> QED
  BY <1>2, <1>3

\* The concatenation is a sequence of what the members contain.
LEMMA PartsAreSeqs ==
  ASSUME NEW s, NEW n \in Nat, NEW f, Parts(s, n, f),
         \A k \in 1..n : IsSeq(s[k]),
         NEW m \in 1..n
  PROVE  IsSeq(f[m]) /\ Items(f[m]) = UNION {Items(s[k]) : k \in 1..m}
<1> DEFINE U(k) == UNION {Items(s[j]) : j \in 1..k}
           T == {k \in 1..n : ~ (IsSeq(f[k]) /\ Items(f[k]) = U(k))}
<1> SUFFICES ASSUME T # {} PROVE FALSE
  OBVIOUS
<1>0. T \subseteq Nat
  OBVIOUS
<1>1. PICK k \in T : \A j \in T : k <= j
  <2> HIDE DEF T
  <2> QED BY <1>0, Least
<1>2. CASE k = 1
  <2>1. f[1] = s[1]
    BY <1>2 DEF Parts
  <2>2. U(1) = Items(s[1])
    OBVIOUS
  <2> QED BY <1>2, <2>1, <2>2
<1>3. CASE k # 1
  <2>1. k - 1 \in 1..n /\ k - 1 \notin T
    BY <1>1, <1>3
  <2>2. f[k] = f[k - 1] \o s[k]
    BY <1>3 DEF Parts
  <2>3. IsSeq(f[k]) /\ Items(f[k]) = U(k - 1) \cup Items(s[k])
    BY <2>1, <2>2, ConcatIsSeq
  <2>4. U(k) = U(k - 1) \cup Items(s[k])
    <3>1. 1..k = (1..k - 1) \cup {k}
      BY <1>3
    <3> QED BY <3>1
  <2> QED BY <2>3, <2>4
<1> QED
  BY <1>2, <1>3
\* FlattenSeq, written out, so that it fits each instance of the module that
\* has it.
Flattened(ss) ==
  IF Len(ss) = 0 THEN ss
  ELSE LET f[k \in 1..Len(ss)] == IF k = 1 THEN ss[k] ELSE f[k - 1] \o ss[k] IN f[Len(ss)]

LEMMA FlattenedIsSeq ==
  ASSUME NEW ss, IsSeq(ss), \A k \in DOMAIN ss : IsSeq(ss[k]),
         NEW r, r = Flattened(ss)
  PROVE  IsSeq(r) /\ Items(r) = UNION {Items(ss[k]) : k \in DOMAIN ss}
<1>1. Len(ss) \in Nat /\ DOMAIN ss = 1..Len(ss)
  BY SeqFacts
<1>2. CASE Len(ss) = 0
  <2>1. r = <<>> /\ ss = <<>>
    BY <1>2, SeqFacts DEF Flattened
  <2> QED BY <2>1, EmptyIsSeq
<1>3. CASE Len(ss) # 0
  <2> DEFINE f == CHOOSE f : f = [k \in 1..Len(ss) |-> IF k = 1 THEN ss[k] ELSE f[k - 1] \o ss[k]]
  <2>1. r = f[Len(ss)]
    BY <1>3 DEF Flattened
  <2>2. Parts(ss, Len(ss), f)
    <3>1. \E g : g = [k \in 1..Len(ss) |-> IF k = 1 THEN ss[k] ELSE g[k - 1] \o ss[k]]
      BY <1>1, PartsExist DEF Parts
    <3> QED BY <3>1 DEF Parts
  <2> HIDE DEF f
  <2>3. Len(ss) \in 1..Len(ss) /\ \A k \in 1..Len(ss) : IsSeq(ss[k])
    BY <1>1, <1>3
  <2>4. IsSeq(f[Len(ss)]) /\ Items(f[Len(ss)]) = UNION {Items(ss[k]) : k \in 1..Len(ss)}
    <3> DEFINE n == Len(ss)
    <3>1. n \in Nat /\ Parts(ss, n, f) /\ n \in 1..n /\ \A k \in 1..n : IsSeq(ss[k])
      BY <1>1, <2>2, <2>3
    <3> HIDE DEF n
    <3>2. IsSeq(f[n]) /\ Items(f[n]) = UNION {Items(ss[k]) : k \in 1..n}
      BY <3>1, PartsAreSeqs
    <3> QED BY <3>2 DEF n
  <2> QED BY <1>1, <2>1, <2>4
<1> QED
  BY <1>2, <1>3

---------------------------------------------------------------------------
(* Enumerations in order. *)

Enumerates(s, S) ==
  /\ s \in [1..Cardinality(S) -> S]
  /\ \A i, j \in DOMAIN s : i < j => s[i] < s[j]
  /\ \A x \in S : \E i \in DOMAIN s : s[i] = x

\* A finite set of naturals can be enumerated from its least element on.
LEMMA EnumerationExists ==
  ASSUME NEW S0, S0 \subseteq Nat, IsFiniteSet(S0)
  PROVE  \E s : Enumerates(s, S0)
<1> DEFINE Bad(S) == IsFiniteSet(S) /\ ~ \E s : Enumerates(s, S)
           T == {n \in Nat : \E S \in SUBSET Nat : Cardinality(S) = n /\ Bad(S)}
<1> SUFFICES ASSUME Bad(S0) PROVE FALSE
  OBVIOUS
<1>1. T # {} /\ T \subseteq Nat
  BY FS_CardinalityType
<1>2. PICK n \in T : \A k \in T : n <= k
  <2> HIDE DEF T
  <2> QED BY <1>1, Least
<1>3. PICK S \in SUBSET Nat : Cardinality(S) = n /\ IsFiniteSet(S) /\ ~ \E s : Enumerates(s, S)
  BY <1>2
<1>4. n \in Nat
  BY <1>2
<1>5. CASE S = {}
  <2>1. Cardinality(S) = 0
    BY <1>5, FS_EmptySet
  <2>2. Enumerates([i \in {} |-> 0], S)
    BY <2>1, <1>5 DEF Enumerates
  <2> QED BY <2>2, <1>3
<1>6. CASE S # {}
  <2>1. PICK x \in S : \A y \in S : x <= y
    BY <1>6, Least
  <2> DEFINE R == S \ {x}
  <2>2. IsFiniteSet(R) /\ Cardinality(R) = n - 1 /\ n - 1 \in Nat
    <3>1. IsFiniteSet(R) /\ Cardinality(R) = Cardinality(S) - 1
      BY <1>3, FS_RemoveElement
    <3>2. Cardinality(R) \in Nat
      BY <3>1, FS_CardinalityType
    <3> QED BY <3>1, <3>2, <1>3
  <2>3. n - 1 \notin T
    BY <1>2, <1>4
  <2>4. PICK r : Enumerates(r, R)
    BY <2>2, <2>3
  <2> HIDE DEF T, R
  <2> DEFINE s == [i \in 1..n |-> IF i = 1 THEN x ELSE r[i - 1]]
  <2>5. r \in [1..n - 1 -> R] /\ R = S \ {x}
    BY <2>2, <2>4 DEF Enumerates, R
  <2>6. ASSUME NEW i \in 1..n, i # 1 PROVE i - 1 \in 1..n - 1 /\ s[i] = r[i - 1] /\ s[i] \in R
    <3>1. i - 1 \in 1..n - 1
      BY <2>6, <1>4
    <3> QED BY <3>1, <2>5, <2>6
  <2>7. s \in [1..n -> S]
    BY <2>5, <2>6
  <2>8. ASSUME NEW i \in 1..n, NEW j \in 1..n, i < j PROVE s[i] < s[j]
    <3>1. j # 1 /\ s[j] = r[j - 1] /\ s[j] \in R /\ j - 1 \in 1..n - 1
      BY <2>6, <2>8, <1>4
    <3>2. CASE i = 1
      <4>1. s[i] = x
        BY <3>2
      <4>2. x \in Nat /\ s[j] \in Nat /\ x <= s[j] /\ x # s[j]
        BY <2>1, <2>5, <3>1
      <4> QED BY <4>1, <4>2
    <3>3. CASE i # 1
      <4>1. s[i] = r[i - 1] /\ i - 1 \in 1..n - 1 /\ i - 1 < j - 1
        BY <2>6, <2>8, <3>3, <1>4
      <4> QED BY <4>1, <3>1, <2>2, <2>4 DEF Enumerates
    <3> QED BY <3>2, <3>3
  <2>9. ASSUME NEW y \in S PROVE \E i \in 1..n : s[i] = y
    <3>1. CASE y = x
      <4>1. 1 \in 1..n
        BY <2>2, <1>4
      <4> QED BY <4>1, <3>1
    <3>2. CASE y # x
      <4>1. PICK i \in 1..n - 1 : r[i] = y
        BY <3>2, <2>2, <2>4, <2>5 DEF Enumerates
      <4>2. i + 1 \in 1..n /\ i + 1 # 1 /\ (i + 1) - 1 = i
        BY <1>4
      <4>3. s[i + 1] = y
        BY <4>1, <4>2
      <4> QED BY <4>2, <4>3
    <3> QED BY <3>1, <3>2
  <2> HIDE DEF s
  <2>10. Enumerates(s, S)
    BY <1>3, <2>7, <2>8, <2>9 DEF Enumerates
  <2> QED BY <2>10, <1>3
<1> QED
  BY <1>5, <1>6
=============================================================================
