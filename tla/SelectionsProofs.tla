-------------------------- MODULE SelectionsProofs --------------------------
(* What the operators of Selections return, for the proofs about tables; and *)
(* that a set of naturals has a least element, which takes the place of      *)
(* induction there: the least counterexample would not be one.               *)
EXTENDS Selections, SequencesExt, FiniteSetTheorems, SequenceTheorems, WellFoundedInduction, TLAPS

-----------------------------------------------------------------------------
(* Induction: a set of naturals has a least element.                         *)

\* Some well-founded order on the naturals has every < in it.
LEMMA Order ==
    \E R : IsWellFoundedOn(R, Nat) /\ \A m, n \in Nat : m < n => <<m, n>> \in R
<1>. DEFINE R == OpToRel(<, Nat)
<1>1. IsWellFoundedOn(R, Nat)
  BY NatLessThanWellFounded
<1>2. \A m, n \in Nat : m < n => <<m, n>> \in R
  BY DEF OpToRel
<1>. HIDE DEF R
<1>. QED BY <1>1, <1>2, Zenon

\* A nonempty set of naturals has a least element.
LEMMA Least ==
    ASSUME NEW T \in SUBSET Nat, T # {}
    PROVE  \E n \in T : \A m \in T : n <= m
<1>1. PICK R : IsWellFoundedOn(R, Nat) /\ \A m, n \in Nat : m < n => <<m, n>> \in R
  BY Order
<1>2. IsWellFoundedOn(R, Nat)
  BY <1>1
<1>3. T \subseteq Nat
  OBVIOUS
<1>4. \E n \in T : \A m \in T : ~(<<m, n>> \in R)
  BY <1>2, <1>3, WFMin, Zenon
<1>5. PICK n \in T : \A m \in T : ~(<<m, n>> \in R)
  BY <1>4
<1>6. \A m \in T : ~(m < n)
  BY <1>1, <1>3, <1>5
<1>. QED BY <1>6, <1>3

-----------------------------------------------------------------------------
(* The elements at some positions of a sequence.                             *)

\* f puts the positions in at in order.
Climbs(f, at) == f \in [1..Cardinality(at) -> at] /\ \A i, j \in DOMAIN f : i < j => f[i] < f[j]

\* A set of positions is finite.
LEMMA Within ==
    ASSUME NEW n \in Nat, NEW at \in SUBSET (1..n)
    PROVE  IsFiniteSet(at) /\ Cardinality(at) \in Nat
<1>1. 1 \in Int /\ n \in Int
  OBVIOUS
<1>2. IsFiniteSet(1..n)
  BY <1>1, FS_Interval
<1>3. IsFiniteSet(at)
  BY <1>2, FS_Subset, Zenon
<1>. QED BY <1>3, FS_CardinalityType

\* One position behind the others is put at the end.
LEMMA ClimbOneMore ==
    ASSUME NEW c \in Nat, NEW k \in Nat, NEW R \in SUBSET (1..(k - 1)), NEW g \in [1..c -> R],
           \A i, j \in 1..c : i < j => g[i] < g[j]
    PROVE  \E f \in [1..(c + 1) -> R \union {k}] : \A i, j \in 1..(c + 1) : i < j => f[i] < f[j]
<1>0. PICK f : f = [i \in 1..(c + 1) |-> IF i <= c THEN g[i] ELSE k]
  OBVIOUS
<1>1. \A i \in 1..(c + 1) : i \in 1..c \/ i = c + 1
  OBVIOUS
<1>2. \A i \in 1..c : f[i] = g[i] /\ g[i] \in R /\ g[i] \in Int /\ g[i] < k
  <2>1. \A i \in 1..c : i \in 1..(c + 1) /\ i <= c /\ g[i] \in R
    OBVIOUS
  <2>2. \A x \in R : x \in Int /\ x < k
    OBVIOUS
  <2>. QED BY <2>1, <2>2, <1>0
<1>3. f[c + 1] = k
  BY <1>0
<1>4. f \in [1..(c + 1) -> R \union {k}]
  <2>1. \A i \in 1..(c + 1) : f[i] \in R \union {k}
    BY <1>1, <1>2, <1>3
  <2>. QED BY <2>1, <1>0
<1>5. \A i, j \in 1..(c + 1) : i < j => f[i] < f[j]
  <2>1. \A i, j \in 1..(c + 1) : i < j => i \in 1..c
    OBVIOUS
  <2>. QED BY <2>1, <1>1, <1>2, <1>3
<1>. QED BY <1>4, <1>5

\* If all sets of positions below k can be put in order, so can one that ends
\* at k.
LEMMA ClimbStep ==
    ASSUME NEW k \in Nat, NEW S \in SUBSET (1..k),
           \A R \in SUBSET (1..(k - 1)) : k > 0 => \E f : Climbs(f, R)
    PROVE  \E f : Climbs(f, S)
<1>1. CASE S = {}
  <2>1. PICK g : g = [i \in 1..0 |-> 0]
    OBVIOUS
  <2>2. g \in [1..0 -> {}] /\ DOMAIN g = {}
    BY <2>1
  <2>3. Climbs(g, {})
    BY <2>2, FS_EmptySet DEF Climbs
  <2>. QED BY <2>3, <1>1
<1>2. CASE S # {}
  <2>1. S \subseteq 1..k
    OBVIOUS
  <2>2. k > 0
    <3>1. PICK x : x \in S
      BY <1>2
    <3>2. x \in 1..k
      BY <2>1, <3>1
    <3>. QED BY <3>2
  <2>3. CASE k \notin S
    <3>1. \A x \in S : x \in 1..(k - 1)
      BY <2>1, <2>3
    <3>2. S \in SUBSET (1..(k - 1))
      BY <3>1
    <3>. QED BY <2>2, <3>2
  <2>4. CASE k \in S
    <3>1. PICK R : R = S \ {k}
      OBVIOUS
    <3>2. \A x \in R : x \in 1..(k - 1)
      BY <2>1, <3>1
    <3>3. R \in SUBSET (1..(k - 1)) /\ S = R \union {k}
      BY <2>4, <3>1, <3>2
    <3>4. PICK g : Climbs(g, R)
      BY <2>2, <3>3
    <3>5. PICK c \in Nat : c = Cardinality(R)
      BY <2>2, <3>3, Within
    <3>6. Cardinality(S) = c + 1
      <4>1. IsFiniteSet(S) /\ Cardinality(S) \in Nat
        BY Within
      <4>2. c = Cardinality(S) - 1
        BY <4>1, <2>4, <3>1, <3>5, FS_RemoveElement
      <4>. QED BY <4>1, <4>2
    <3>7. g \in [1..c -> R] /\ \A i, j \in 1..c : i < j => g[i] < g[j]
      BY <3>4, <3>5 DEF Climbs
    <3>8. \E f \in [1..(c + 1) -> R \union {k}] : \A i, j \in 1..(c + 1) : i < j => f[i] < f[j]
      <4>1. R \in SUBSET (1..(k - 1)) /\ g \in [1..c -> R] /\ \A i, j \in 1..c : i < j => g[i] < g[j]
        BY <3>3, <3>7
      <4>. QED BY <4>1, ClimbOneMore, Zenon
    <3>9. PICK f \in [1..(c + 1) -> R \union {k}] : \A i, j \in 1..(c + 1) : i < j => f[i] < f[j]
      BY <3>8
    <3>10. Climbs(f, S)
      BY <3>3, <3>6, <3>9 DEF Climbs
    <3>. QED BY <3>10
  <2>. QED BY <2>3, <2>4
<1>. QED BY <1>1, <1>2

\* Any set of positions can be put in order.
LEMMA ClimbExists ==
    ASSUME NEW n \in Nat, NEW at \in SUBSET (1..n)
    PROVE  \E f : Climbs(f, at)
<1>. DEFINE Bad == {k \in Nat : \E S \in SUBSET (1..k) : ~\E f : Climbs(f, S)}
<1>1. ASSUME Bad # {} PROVE FALSE
  <2>1. Bad \in SUBSET Nat
    OBVIOUS
  <2>2. PICK k \in Bad : \A m \in Bad : k <= m
    <3>. HIDE DEF Bad
    <3>. QED BY <1>1, <2>1, Least
  <2>3. k \in Nat
    OBVIOUS
  <2>4. PICK S \in SUBSET (1..k) : ~\E f : Climbs(f, S)
    OBVIOUS
  <2>5. k > 0 => k - 1 \notin Bad /\ k - 1 \in Nat
    <3>. HIDE DEF Bad
    <3>. QED BY <2>2, <2>3
  <2>6. \A R \in SUBSET (1..(k - 1)) : k > 0 => \E f : Climbs(f, R)
    BY <2>5
  <2>. HIDE DEF Bad
  <2>. QED BY <2>3, <2>4, <2>6, ClimbStep
<1>2. n \notin Bad
  BY <1>1
<1>. QED BY <1>2

\* Ascending does so, and leaves no position out.
LEMMA AscendingClimbs ==
    ASSUME NEW n \in Nat, NEW at \in SUBSET (1..n)
    PROVE  /\ Climbs(Ascending(at), at)
           /\ Cardinality(at) \in Nat
           /\ \A i \in at : \E k \in 1..Cardinality(at) : Ascending(at)[k] = i
<1>1. PICK c \in Nat : c = Cardinality(at)
  BY Within
<1>2. IsFiniteSet(at) /\ IsFiniteSet(1..c) /\ Cardinality(1..c) = c
  <2>1. 1 \in Int /\ c \in Int /\ (1 > c => c = 0)
    OBVIOUS
  <2>2. IsFiniteSet(1..c) /\ Cardinality(1..c) = IF 1 > c THEN 0 ELSE c - 1 + 1
    BY <2>1, FS_Interval
  <2>3. IsFiniteSet(at)
    BY Within
  <2>4. (IF 1 > c THEN 0 ELSE c - 1 + 1) = c
    BY <2>1
  <2>. QED BY <2>2, <2>3, <2>4
<1>3. PICK f : f = Ascending(at)
  OBVIOUS
<1>4. \E g \in [1..Cardinality(at) -> at] : \A i, j \in DOMAIN g : i < j => g[i] < g[j]
  BY ClimbExists DEF Climbs
<1>5. Climbs(f, at)
  BY <1>3, <1>4 DEF Ascending, Climbs
<1>6. f \in [1..c -> at] /\ \A i, j \in 1..c : i < j => f[i] < f[j]
  BY <1>1, <1>5 DEF Climbs
<1>7. f \in Injection(1..c, at)
  <2>1. \A i, j \in 1..c : i # j => i < j \/ j < i
    OBVIOUS
  <2>2. \A x \in at : x \in Int
    OBVIOUS
  <2>3. \A i \in 1..c : f[i] \in Int
    BY <1>6, <2>2
  <2>4. \A i, j \in 1..c : f[i] = f[j] => i = j
    BY <2>1, <2>3, <1>6
  <2>. QED BY <2>4, <1>6 DEF Injection, IsInjective
<1>8. f \in Surjection(1..c, at)
  BY <1>1, <1>2, <1>7, FS_Injection
<1>9. \A i \in at : \E k \in 1..c : f[k] = i
  BY <1>8 DEF Surjection
<1>. QED BY <1>1, <1>3, <1>5, <1>9

\* t has the elements of seq at the positions in at, in order.
Selects(t, seq, at) ==
    /\ t \in Seq(Range(t))
    /\ \A k \in DOMAIN t : \E i \in at : t[k] = seq[i]
    /\ \A i \in at : \E k \in DOMAIN t : t[k] = seq[i]
    /\ \A k, l \in DOMAIN t : l < k => \E i, j \in at : j < i /\ t[k] = seq[i] /\ t[l] = seq[j]

\* A filter keeps what stands at the positions asked for, in its order.
LEMMA ThoseAre ==
    ASSUME NEW seq, NEW n \in Nat, NEW at \in SUBSET (1..n)
    PROVE  Selects(Those(seq, at), seq, at)
<1>0. PICK t : t = Those(seq, at)
  OBVIOUS
<1>1. PICK f : f = Ascending(at)
  OBVIOUS
<1>2. Climbs(f, at) /\ Cardinality(at) \in Nat /\ \A i \in at : \E k \in 1..Cardinality(at) : f[k] = i
  BY <1>1, AscendingClimbs
<1>3. t = [k \in 1..Cardinality(at) |-> seq[f[k]]]
  BY <1>0, <1>1 DEF Those
<1>4. t \in Seq(Range(t))
  <2>. DEFINE S == Range(t)
  <2>1. \A k \in 1..Cardinality(at) : seq[f[k]] \in S
    BY <1>3 DEF Range
  <2>. HIDE DEF S
  <2>2. t \in Seq(S)
    BY <2>1, <1>2, <1>3
  <2>. QED BY <2>2 DEF S
<1>5. /\ DOMAIN t = 1..Cardinality(at) /\ \A k \in DOMAIN t : t[k] = seq[f[k]] /\ f[k] \in at
      /\ \A k, l \in DOMAIN t : l < k => f[l] < f[k]
  BY <1>2, <1>3 DEF Climbs
<1>6. \A i \in at : \E k \in DOMAIN t : t[k] = seq[i]
  BY <1>2, <1>5
<1>7. Selects(t, seq, at)
  BY <1>4, <1>5, <1>6, Zenon DEF Selects
<1>. QED BY <1>0, <1>7

\* SetToSeq lists the elements of a finite set, each of them.
LEMMA SetToSeqAll ==
    ASSUME NEW S, IsFiniteSet(S), NEW f, f = SetToSeq(S)
    PROVE  /\ Cardinality(S) \in Nat
           /\ f \in [1..Cardinality(S) -> S]
           /\ \A x \in S : \E k \in 1..Cardinality(S) : f[k] = x
<1>1. Cardinality(S) \in Nat /\ ExistsBijection(1..Cardinality(S), S)
  BY FS_CardinalityType
<1>2. PICK b \in [1..Cardinality(S) -> S] : \A i, j \in 1..Cardinality(S) : b[i] = b[j] => i = j
  BY <1>1 DEF ExistsBijection, Bijection, Injection, IsInjective
<1>3. f \in [1..Cardinality(S) -> S] /\ IsInjective(f)
  <2>1. \E g \in [1..Cardinality(S) -> S] : IsInjective(g)
    BY <1>2 DEF IsInjective
  <2>. QED BY <2>1 DEF SetToSeq
<1>4. f \in Injection(1..Cardinality(S), S)
  BY <1>3 DEF Injection, IsInjective
<1>5. f \in Surjection(1..Cardinality(S), S)
  <2>1. Cardinality(1..Cardinality(S)) = Cardinality(S)
    BY <1>1, FS_Interval
  <2>. QED BY <2>1, <1>4, FS_Injection
<1>. QED BY <1>1, <1>3, <1>5 DEF Surjection
=============================================================================
