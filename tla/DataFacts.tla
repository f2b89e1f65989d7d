------------------------------ MODULE DataFacts -------------------------------
(* Facts about the data of the models: sequences used as queues, which hold   *)
(* an item once and are added to at the end and taken from at the front, and  *)
(* finite sets and sums over them.                                            *)
EXTENDS Integers, Sequences, SequencesExt, SequenceTheorems, FiniteSetTheorems,
        WellFoundedInduction, Functions, TLAPS

(* A queue that holds no item twice.                                          *)
LEMMA EmptyQueue == ToSet(<<>>) = {} /\ IsInjective(<<>>)
  BY DEF ToSet, IsInjective

(* The elements of a queue are the values at its positions.                   *)
LEMMA QueueElements ==
    ASSUME NEW S, NEW q \in Seq(S)
    PROVE  ToSet(q) \subseteq S /\ (q = <<>> <=> ToSet(q) = {})
<1>1. DOMAIN q = 1..Len(q) /\ Len(q) \in Nat
  BY LenProperties
<1>2. \A i \in 1..Len(q) : q[i] \in S
  BY ElementOfSeq
<1>3. q # <<>> => 1 \in 1..Len(q)
  BY EmptySeq, <1>1
<1>4. q = <<>> => Len(q) = 0
  OBVIOUS
<1>5. ToSet(q) \subseteq S
  BY <1>1, <1>2 DEF ToSet
<1>6. ASSUME q = <<>>
      PROVE  ToSet(q) = {}
  <2>1. Len(q) = 0
    BY <1>4, <1>6
  <2>2. 1..Len(q) = {}
    BY <2>1
  <2> QED
    BY <1>1, <2>2, Zenon DEF ToSet
<1>7. ASSUME q # <<>>
      PROVE  q[1] \in ToSet(q)
  BY <1>1, <1>3, <1>7 DEF ToSet
<1> QED
  BY <1>5, <1>6, <1>7

(* Appending to a queue adds one element, and keeps it injective if it is new. *)
LEMMA QueueAppend ==
    ASSUME NEW S, NEW q \in Seq(S), NEW x \in S
    PROVE  /\ Append(q, x) \in Seq(S)
           /\ ToSet(Append(q, x)) = ToSet(q) \cup {x}
           /\ IsInjective(q) /\ x \notin ToSet(q) => IsInjective(Append(q, x))
<1> DEFINE a == Append(q, x)
<1>1. /\ a \in Seq(S) /\ Len(a) = Len(q) + 1 /\ Len(q) \in Nat
      /\ DOMAIN a = 1..Len(q) + 1 /\ DOMAIN q = 1..Len(q)
      /\ \A i \in 1..Len(q) : a[i] = q[i]
      /\ a[Len(q) + 1] = x
  BY AppendProperties, LenProperties
<1> HIDE DEF a
<1>2. ToSet(a) = ToSet(q) \cup {x}
  <2>1. ASSUME NEW y \in ToSet(a)
        PROVE  y \in ToSet(q) \cup {x}
    <3>1. PICK i \in 1..Len(q) + 1 : y = a[i]
      BY <1>1, <2>1 DEF ToSet
    <3>2. i \in 1..Len(q) \/ i = Len(q) + 1
      BY <1>1
    <3> QED
      BY <1>1, <3>1, <3>2 DEF ToSet
  <2>2. ASSUME NEW y \in ToSet(q)
        PROVE  y \in ToSet(a)
    <3>1. PICK i \in 1..Len(q) : y = q[i]
      BY <1>1, <2>2 DEF ToSet
    <3>2. i \in 1..Len(q) + 1 /\ y = a[i]
      BY <1>1, <3>1
    <3> QED
      BY <1>1, <3>2 DEF ToSet
  <2>3. x \in ToSet(a)
    <3>1. Len(q) + 1 \in 1..Len(q) + 1
      BY <1>1
    <3> QED
      BY <1>1, <3>1 DEF ToSet
  <2> QED
    BY <2>1, <2>2, <2>3
<1>3. ASSUME IsInjective(q), x \notin ToSet(q)
      PROVE  IsInjective(a)
  <2> SUFFICES ASSUME NEW i \in 1..Len(q) + 1, NEW j \in 1..Len(q) + 1, a[i] = a[j]
               PROVE  i = j
    BY <1>1 DEF IsInjective
  <2>1. \A k \in 1..Len(q) : a[k] # x
    BY <1>1, <1>3 DEF ToSet
  <2>2. CASE i \in 1..Len(q) /\ j \in 1..Len(q)
    BY <1>1, <1>3, <2>2 DEF IsInjective
  <2>3. CASE i = Len(q) + 1 \/ j = Len(q) + 1
    BY <1>1, <2>1, <2>3
  <2> QED
    BY <1>1, <2>2, <2>3
<1> QED
  BY <1>1, <1>2, <1>3 DEF a

(* Taking the first element leaves the others; of an injective queue, all others. *)
LEMMA QueueTail ==
    ASSUME NEW S, NEW q \in Seq(S), q # <<>>
    PROVE  /\ Tail(q) \in Seq(S) /\ Head(q) \in S
           /\ ToSet(q) = ToSet(Tail(q)) \cup {Head(q)}
           /\ IsInjective(q) => /\ IsInjective(Tail(q))
                                /\ ToSet(Tail(q)) = ToSet(q) \ {Head(q)}
<1> DEFINE t == Tail(q)
           h == Head(q)
<1>1. /\ t \in Seq(S) /\ h \in S /\ h = q[1]
      /\ Len(t) = Len(q) - 1 /\ Len(q) \in Nat \ {0}
      /\ DOMAIN t = 1..Len(q) - 1 /\ DOMAIN q = 1..Len(q)
      /\ \A i \in 1..Len(q) - 1 : t[i] = q[i + 1]
  <2>1. t \in Seq(S) /\ h \in S /\ Len(t) = Len(q) - 1
    BY HeadTailProperties
  <2>2. Len(q) \in Nat \ {0}
    BY EmptySeq
  <2>3. h = q[1]
    BY <2>2
  <2>4. DOMAIN t = 1..Len(t) /\ DOMAIN q = 1..Len(q)
    BY <2>1, LenProperties
  <2>5. \A i \in 1..Len(t) : t[i] = q[i + 1]
    BY HeadTailProperties
  <2> QED
    BY <2>1, <2>2, <2>3, <2>4, <2>5
<1> HIDE DEF t, h
<1>2. ToSet(q) = ToSet(t) \cup {h}
  <2>1. ASSUME NEW y \in ToSet(q)
        PROVE  y \in ToSet(t) \cup {h}
    <3>1. PICK i \in 1..Len(q) : y = q[i]
      BY <1>1, <2>1 DEF ToSet
    <3>2. CASE i = 1
      BY <1>1, <3>1, <3>2
    <3>3. CASE i # 1
      <4>1. i - 1 \in 1..Len(q) - 1 /\ t[i - 1] = y
        BY <1>1, <3>1, <3>3
      <4> QED
        BY <1>1, <4>1 DEF ToSet
    <3> QED
      BY <3>2, <3>3
  <2>2. ASSUME NEW y \in ToSet(t)
        PROVE  y \in ToSet(q)
    <3>1. PICK i \in 1..Len(q) - 1 : y = t[i]
      BY <1>1, <2>2 DEF ToSet
    <3>2. i + 1 \in 1..Len(q) /\ q[i + 1] = y
      BY <1>1, <3>1
    <3> QED
      BY <1>1, <3>2 DEF ToSet
  <2>3. h \in ToSet(q)
    <3>1. 1 \in 1..Len(q)
      BY <1>1
    <3> QED
      BY <1>1, <3>1 DEF ToSet
  <2> QED
    BY <2>1, <2>2, <2>3
<1>3. ASSUME IsInjective(q)
      PROVE  IsInjective(t) /\ h \notin ToSet(t)
  <2>1. IsInjective(t)
    <3> SUFFICES ASSUME NEW i \in 1..Len(q) - 1, NEW j \in 1..Len(q) - 1, t[i] = t[j]
                 PROVE  i = j
      BY <1>1 DEF IsInjective
    <3>1. i + 1 \in 1..Len(q) /\ j + 1 \in 1..Len(q) /\ q[i + 1] = q[j + 1]
      BY <1>1
    <3>2. i + 1 = j + 1
      BY <1>1, <1>3, <3>1 DEF IsInjective
    <3> QED
      BY <3>2
  <2>2. ASSUME h \in ToSet(t)
        PROVE  FALSE
    <3>1. PICK i \in 1..Len(q) - 1 : h = t[i]
      BY <1>1, <2>2 DEF ToSet
    <3>2. i + 1 \in 1..Len(q) /\ 1 \in 1..Len(q) /\ q[i + 1] = q[1]
      BY <1>1, <3>1
    <3>3. i + 1 = 1
      BY <1>1, <1>3, <3>2 DEF IsInjective
    <3> QED
      BY <3>3
  <2> QED
    BY <2>1, <2>2
<1> QED
  BY <1>1, <1>2, <1>3 DEF t, h

----------------------------------------------------------------------------
(* Finite sets *)

(* What holds of the empty set, and of a set with one more element, holds of  *)
(* a finite set.                                                              *)
LEMMA FiniteInduction ==
    ASSUME NEW S, IsFiniteSet(S), NEW T \in SUBSET SUBSET S, {} \in T,
           \A A \in T : \A x \in S \ A : A \cup {x} \in T
    PROVE  S \in T
<1>1. IsWellFoundedOn(StrictSubsetOrdering(S), SUBSET S)
  BY FS_StrictSubsetOrderingWellFounded, FS_FiniteSubsetsOfFinite
<1>2. SUFFICES ASSUME S \notin T PROVE FALSE
  OBVIOUS
<1> DEFINE U == {S \ A : A \in T}
<1>3. U # {} /\ U \subseteq SUBSET S
  <2>1. S \ {} \in U
    OBVIOUS
  <2> QED BY <2>1
<1>4. PICK x \in U : \A y \in U : ~(<<y, x>> \in StrictSubsetOrdering(S))
  BY ONLY <1>1, <1>3, WFMin
<1>5. PICK A \in T : x = S \ A
  OBVIOUS
<1>6. PICK e \in S \ A : TRUE
  BY <1>2, <1>5
<1>7. S \ (A \cup {e}) \in U /\ S \ (A \cup {e}) \in SUBSET S /\ x \in SUBSET S
  BY <1>5
<1>8. <<S \ (A \cup {e}), x>> \in StrictSubsetOrdering(S)
  <2>1. S \ (A \cup {e}) \subseteq x /\ S \ (A \cup {e}) # x
    BY <1>5
  <2> QED BY <1>7, <2>1 DEF StrictSubsetOrdering
<1> QED BY <1>4, <1>7, <1>8

(* Max of a finite set of numbers is its greatest element.                    *)
LEMMA FiniteMax ==
    ASSUME NEW S \in SUBSET Nat, IsFiniteSet(S), S # {}
    PROVE  Max(S) \in S /\ \A x \in S : x <= Max(S)
<1> DEFINE HasMax(A) == A = {} \/ \E m \in A : \A x \in A : x <= m
           T == {A \in SUBSET S : HasMax(A)}
<1>1. \A A \in T : \A x \in S \ A : A \cup {x} \in T
  <2> SUFFICES ASSUME NEW A \in T, NEW x \in S \ A PROVE HasMax(A \cup {x})
    OBVIOUS
  <2>1. CASE A = {}
    BY <2>1
  <2>2. CASE A # {}
    <3>1. PICK m \in A : \A y \in A : y <= m
      BY <2>2
    <3>2. CASE x <= m
      BY <3>1, <3>2
    <3>3. CASE ~(x <= m)
      BY <3>1, <3>3
    <3> QED BY <3>2, <3>3
  <2> QED BY <2>1, <2>2
<1>2. T \in SUBSET SUBSET S /\ {} \in T
  OBVIOUS
<1>3. S \in T
  <2> HIDE DEF T
  <2> QED BY <1>1, <1>2, FiniteInduction
<1>4. \E m \in S : \A x \in S : m >= x
  BY <1>3
<1> QED BY <1>4 DEF Max

(* An array of n different items holds n items.                               *)
LEMMA ArrayItems ==
    ASSUME NEW n \in Nat, NEW S, NEW f \in [1 .. n -> S], IsInjective(f)
    PROVE  /\ IsFiniteSet({f[k] : k \in 1 .. n})
           /\ Cardinality({f[k] : k \in 1 .. n}) = n
<1> DEFINE T == {f[k] : k \in 1 .. n}
<1>1. f \in Bijection(1 .. n, T)
  BY DEF Bijection, Injection, Surjection, IsInjective
<1>2. ExistsBijection(1 .. n, T)
  BY <1>1 DEF ExistsBijection
<1>3. IsFiniteSet(T)
  BY <1>2, FS_NatBijection
<1>4. Cardinality(T) = n
  BY <1>2, FS_CountingElements
<1> QED BY <1>3, <1>4
----------------------------------------------------------------------------
(* Loops *)

(* A set of numbers that is not empty has a least one.                        *)
LEMMA LeastNumber ==
    ASSUME NEW S \in SUBSET Nat, S # {}
    PROVE  \E m \in S : \A x \in S : m <= x
<1>1. PICK m \in S : \A y \in S : ~(<<y, m>> \in OpToRel(<, Nat))
  BY ONLY S \subseteq Nat, S # {}, NatLessThanWellFounded, WFMin
<1>2. \A y \in S : ~(y < m)
  BY <1>1 DEF OpToRel
<1> QED BY <1>2

(* A set that holds 0, and with every number below n the next, holds n.       *)
LEMMA CountedInduction ==
    ASSUME NEW n \in Nat, NEW T \in SUBSET Nat, 0 \in T,
           \A k \in T : k < n => k + 1 \in T
    PROVE  n \in T
<1>1. SUFFICES ASSUME n \notin T PROVE FALSE
  OBVIOUS
<1> DEFINE U == {k \in 0..n : k \notin T}
<1>2. U \in SUBSET Nat /\ U # {}
  BY <1>1
<1>3. PICK x \in U : \A y \in U : x <= y
  <2> HIDE DEF U
  <2> QED BY <1>2, LeastNumber
<1>4. x # 0 /\ x - 1 \in Nat /\ x - 1 < n /\ ~(x <= x - 1)
  OBVIOUS
<1>5. x - 1 \in T
  BY <1>3, <1>4
<1>6. x \in T
  BY <1>4, <1>5
<1> QED BY <1>6

(* The equation of a fold over the subsets of S, which takes the element C[s] *)
(* off what is left, s.                                                       *)
IsFold(g, S, b, C, F) ==
    \A s \in SUBSET S : g[s] = IF s = {} THEN b ELSE F[<<g[s \ {C[s]}], C[s]>>]

(* Over a finite set there is a function that satisfies it.                   *)
LEMMA FoldExists ==
    ASSUME NEW S, IsFiniteSet(S), NEW V, NEW b \in V,
           NEW C \in [(SUBSET S) \ {{}} -> S], \A s \in (SUBSET S) \ {{}} : C[s] \in s,
           NEW F \in [V \X S -> V]
    PROVE  \E g \in [SUBSET S -> V] : IsFold(g, S, b, C, F)
<1> DEFINE n == Cardinality(S)
           Value(g, s) == IF s = {} THEN b ELSE F[<<g[s \ {C[s]}], C[s]>>]
           Upto(k) == \E g \in [SUBSET S -> V] :
                         \A s \in SUBSET S : Cardinality(s) <= k => g[s] = Value(g, s)
           T == {k \in Nat : Upto(k)}
<1>1. n \in Nat /\ \A s \in SUBSET S : IsFiniteSet(s) /\ Cardinality(s) \in Nat /\ Cardinality(s) <= n
  BY FS_CardinalityType, FS_Subset
<1>2. \A s \in (SUBSET S) \ {{}} : /\ s \ {C[s]} \in SUBSET S
                                   /\ Cardinality(s \ {C[s]}) = Cardinality(s) - 1
  BY <1>1, FS_RemoveElement
<1>3. \A s \in SUBSET S : Cardinality(s) <= 0 => s = {}
  BY <1>1, FS_EmptySet
<1>4. Upto(0)
  <2> DEFINE g == [s \in SUBSET S |-> b]
  <2>1. g \in [SUBSET S -> V] /\ \A s \in SUBSET S : Cardinality(s) <= 0 => g[s] = Value(g, s)
    BY <1>3
  <2> QED BY <2>1
<1>5. ASSUME NEW k \in Nat, Upto(k)
      PROVE  Upto(k + 1)
  <2>1. PICK g \in [SUBSET S -> V] :
              \A s \in SUBSET S : Cardinality(s) <= k => g[s] = Value(g, s)
    BY <1>5
  <2>2. \A s \in SUBSET S : Value(g, s) \in V
    BY <1>2
  <2> DEFINE h == [s \in SUBSET S |-> IF Cardinality(s) = k + 1 THEN Value(g, s) ELSE g[s]]
  <2>3. h \in [SUBSET S -> V]
    BY <2>1, <2>2
  <2>4. ASSUME NEW s \in SUBSET S, Cardinality(s) <= k + 1
        PROVE  h[s] = Value(g, s) /\ Value(h, s) = Value(g, s)
    <3>1. h[s] = Value(g, s)
      <4>1. CASE Cardinality(s) = k + 1
        BY <4>1
      <4>2. CASE Cardinality(s) # k + 1
        <5>1. Cardinality(s) <= k
          BY <1>1, <2>4, <4>2
        <5> QED BY <2>1, <4>2, <5>1
      <4> QED BY <4>1, <4>2
    <3>2. ASSUME s # {}
          PROVE  h[s \ {C[s]}] = g[s \ {C[s]}]
      <4>1. Cardinality(s \ {C[s]}) # k + 1
        BY <1>1, <1>2, <2>4, <3>2
      <4> QED BY <1>2, <3>2, <4>1
    <3> QED BY <3>1, <3>2
  <2>5. \A s \in SUBSET S : Cardinality(s) <= k + 1 => h[s] = Value(h, s)
    BY <2>4
  <2> HIDE DEF h
  <2> QED BY <2>3, <2>5
<1>6. n \in T
  <2>1. 0 \in T
    BY <1>4
  <2>4. \A k \in Nat : Upto(k) => Upto(k + 1)
    BY <1>5
  <2>3. \A k \in T : k + 1 \in T
    <3> HIDE DEF Upto
    <3> QED BY <2>4
  <2> HIDE DEF T
  <2>2. T \in SUBSET Nat
    BY DEF T
  <2> QED BY <1>1, <2>1, <2>2, <2>3, CountedInduction
<1>7. PICK g \in [SUBSET S -> V] : \A s \in SUBSET S : Cardinality(s) <= n => g[s] = Value(g, s)
  BY <1>6
<1> QED BY <1>1, <1>7 DEF IsFold

(* The equation of a loop over a sequence of n elements, F a turn of it.      *)
IsLoop(g, n, b, F) ==
    g = [s \in SUBSET (1..n) |-> IF s = {} THEN b ELSE F[<<g[s \ {Max(s)}], Max(s)>>]]

LEMMA LoopExists ==
    ASSUME NEW n \in Nat, NEW V, NEW b \in V, NEW F \in [V \X (1..n) -> V]
    PROVE  /\ \A k \in 1..n : Max(1..k) = k /\ (1..k) \ {k} = 1..(k - 1)
           /\ \A s \in SUBSET (1..n) : s # {} => Max(s) \in 1..n
           /\ \E g \in [SUBSET (1..n) -> V] : IsLoop(g, n, b, F)
<1>1. \A s \in (SUBSET (1..n)) \ {{}} : Max(s) \in s /\ \A x \in s : x <= Max(s)
  <2> TAKE s \in (SUBSET (1..n)) \ {{}}
  <2>2. s \in SUBSET (1..n) /\ s \in SUBSET Nat /\ s # {}
    OBVIOUS
  <2>1. IsFiniteSet(s)
    <3>1. IsFiniteSet(1..n)
      BY FS_Interval
    <3> QED BY <2>2, <3>1, FS_Subset
  <2> QED BY <2>1, <2>2, FiniteMax
<1>2. ASSUME NEW k \in 1..n
      PROVE  Max(1..k) = k /\ (1..k) \ {k} = 1..(k - 1)
  <2>1. 1..k \in (SUBSET (1..n)) \ {{}} /\ k \in 1..k
    OBVIOUS
  <2>2. Max(1..k) \in 1..k /\ k <= Max(1..k)
    BY <1>1, <2>1
  <2> QED BY <2>2
<1> DEFINE C == [s \in (SUBSET (1..n)) \ {{}} |-> Max(s)]
<1>3. C \in [(SUBSET (1..n)) \ {{}} -> 1..n] /\ \A s \in (SUBSET (1..n)) \ {{}} : C[s] \in s
  BY <1>1
<1>4. IsFiniteSet(1..n)
  BY FS_Interval
<1>5. \A s \in (SUBSET (1..n)) \ {{}} : C[s] = Max(s)
  OBVIOUS
<1> HIDE DEF C
<1> DEFINE S == 1..n
<1>8. /\ IsFiniteSet(S) /\ C \in [(SUBSET S) \ {{}} -> S]
      /\ \A s \in (SUBSET S) \ {{}} : C[s] \in s
      /\ F \in [V \X S -> V]
  BY <1>3, <1>4
<1>6. PICK g \in [SUBSET S -> V] : IsFold(g, S, b, C, F)
  <2> HIDE DEF S
  <2> QED BY ONLY <1>8, FoldExists, b \in V
<1>7. g = [s \in SUBSET (1..n) |-> IF s = {} THEN b ELSE F[<<g[s \ {Max(s)}], Max(s)>>]]
  BY <1>5, <1>6 DEF IsFold
<1>10. \A s \in SUBSET (1..n) : s # {} => Max(s) \in 1..n
  BY <1>1
<1> QED BY <1>2, <1>7, <1>10 DEF IsLoop

(* The ranks of the members of a finite set of numbers, by which they are     *)
(* told apart, are the numbers up to its size.                                *)
LEMMA RanksOfNumbers ==
    ASSUME NEW A \in SUBSET Nat, IsFiniteSet(A)
    PROVE  /\ \A a \in A : Cardinality({d \in A : d <= a}) \in 1..Cardinality(A)
           /\ \A a, c \in A : Cardinality({d \in A : d <= a}) = Cardinality({d \in A : d <= c})
                                => a = c
           /\ \A k \in 1..Cardinality(A) : \E a \in A : Cardinality({d \in A : d <= a}) = k
<1> DEFINE n == Cardinality(A)
           B(a) == {d \in A : d <= a}
           rank == [a \in A |-> Cardinality(B(a))]
<1>1. n \in Nat
  BY FS_CardinalityType
<1>2. \A a \in A : IsFiniteSet(B(a)) /\ Cardinality(B(a)) \in Nat /\ Cardinality(B(a)) <= n
  BY FS_Subset, FS_CardinalityType
<1>3. \A a \in A : rank[a] \in 1..n
  <2> TAKE a \in A
  <2>1. a \in B(a)
    OBVIOUS
  <2>2. Cardinality(B(a)) # 0
    BY <1>2, <2>1, FS_EmptySet
  <2> QED BY <1>1, <1>2, <2>2
<1>4. ASSUME NEW a \in A, NEW c \in A, a < c
      PROVE  rank[a] # rank[c]
  <2>1. a \in Nat /\ c \in Nat /\ \A d \in A : d \in Nat
    OBVIOUS
  <2>3. \A d \in A : d <= a => d <= c
    BY <1>4, <2>1
  <2>4. ~(c <= a) /\ c <= c
    BY <1>4, <2>1
  <2>5. B(a) \subseteq B(c) /\ c \in B(c) /\ c \notin B(a)
    BY <2>3, <2>4
  <2>2. Cardinality(B(a)) # Cardinality(B(c))
    BY <1>2, <2>5, FS_Subset
  <2> QED BY <2>2
<1>5. \A a, c \in A : rank[a] = rank[c] => a = c
  <2> TAKE a, c \in A
  <2>1. a = c \/ a < c \/ c < a
    OBVIOUS
  <2> HIDE DEF rank
  <2> QED BY <1>4, <2>1
<1>6. rank \in Injection(A, 1..n)
  BY <1>3, <1>5 DEF Injection, IsInjective
<1>7. IsFiniteSet(1..n) /\ Cardinality(1..n) = n
  BY <1>1, FS_Interval
<1>8. rank \in Surjection(A, 1..n)
  BY <1>6, <1>7, FS_Injection
<1>9. \A k \in 1..n : \E a \in A : rank[a] = k
  BY <1>8 DEF Surjection
<1> QED BY <1>3, <1>5, <1>9

----------------------------------------------------------------------------
(* Sums over finite sets                                                      *)

(* The equation of the sum of f over the subsets of A.                        *)
Sums(g, A, f) ==
    g = [s \in SUBSET A |->
           IF s = {} THEN 0
           ELSE f[CHOOSE x \in s : TRUE] + g[s \ {CHOOSE x \in s : TRUE}]]

IsSum(g, A, f) ==
    /\ SumFunctionOnSet(f, A) = g[A] /\ g[{}] = 0
    /\ \A s \in SUBSET A : g[s] \in Int
    /\ \A s \in SUBSET A : \A x \in A \ s : g[s \cup {x}] = g[s] + f[x]

(* Adding an element to a finite set adds its value to the sum.               *)
LEMMA SumSteps ==
    ASSUME NEW A, IsFiniteSet(A), NEW f, \A x \in A : f[x] \in Int
    PROVE  \E g : IsSum(g, A, f)
<1> DEFINE C == [s \in (SUBSET A) \ {{}} |-> CHOOSE x \in s : TRUE]
           F == [p \in Int \X A |-> f[p[2]] + p[1]]
           h == CHOOSE g : Sums(g, A, f)
<1>1. C \in [(SUBSET A) \ {{}} -> A] /\ \A s \in (SUBSET A) \ {{}} : C[s] \in s
  OBVIOUS
<1>2. F \in [Int \X A -> Int]
  OBVIOUS
<1>3. \A s \in (SUBSET A) \ {{}} : C[s] = CHOOSE x \in s : TRUE
  OBVIOUS
<1>4. PICK e \in [SUBSET A -> Int] : IsFold(e, A, 0, C, F)
  <2>1. 0 \in Int
    OBVIOUS
  <2> HIDE DEF C, F
  <2> QED BY <1>1, <1>2, <2>1, FoldExists
<1>5. \A s \in SUBSET A : e[s] = IF s = {} THEN 0
                                 ELSE f[CHOOSE x \in s : TRUE] + e[s \ {CHOOSE x \in s : TRUE}]
  <2> TAKE s \in SUBSET A
  <2>1. CASE s = {}
    BY <1>4, <2>1 DEF IsFold
  <2>2. CASE s # {}
    <3>1. e[s] = F[<<e[s \ {C[s]}], C[s]>>]
      BY <1>4, <2>2 DEF IsFold
    <3>2. C[s] \in A /\ e[s \ {C[s]}] \in Int
      BY <1>1, <1>4, <2>2
    <3>3. C[s] = CHOOSE x \in s : TRUE
      BY <1>3, <2>2
    <3> HIDE DEF C
    <3>4. e[s] = f[C[s]] + e[s \ {C[s]}]
      BY <3>1, <3>2
    <3> QED BY <2>2, <3>3, <3>4
  <2> QED BY <2>1, <2>2
<1>6. Sums(e, A, f)
  <2> HIDE DEF C, F
  <2> QED BY <1>4, <1>5 DEF Sums
<1>7. Sums(h, A, f)
  <2> HIDE DEF Sums
  <2> QED BY <1>6
<1>8. SumFunctionOnSet(f, A) = h[A]
  BY DEF SumFunctionOnSet, FoldFunctionOnSet, MapThenFoldSet, Sums
<1> HIDE DEF h, C, F
<1>9. /\ h[{}] = 0
      /\ \A s \in SUBSET A : s # {} =>
            \E c \in s : c = (CHOOSE x \in s : TRUE) /\ h[s] = f[c] + h[s \ {c}]
  <2>1. h[{}] = 0
    BY <1>7 DEF Sums
  <2>2. ASSUME NEW s \in SUBSET A, s # {}
        PROVE  \E c \in s : c = (CHOOSE x \in s : TRUE) /\ h[s] = f[c] + h[s \ {c}]
    <3>1. PICK c : c = CHOOSE x \in s : TRUE
      OBVIOUS
    <3>2. c \in s
      BY <2>2, <3>1
    <3>3. h[s] = f[c] + h[s \ {c}]
      BY <1>7, <2>2, <3>1 DEF Sums
    <3> QED BY <3>1, <3>2, <3>3
  <2> QED BY <2>1, <2>2
<1> DEFINE n == Cardinality(A)
           Adds(s) == h[s] \in Int /\ \A x \in A \ s : h[s \cup {x}] = h[s] + f[x]
           T == {k \in Nat : \A s \in SUBSET A : Cardinality(s) <= k => Adds(s)}
<1>10. n \in Nat /\ \A s \in SUBSET A : IsFiniteSet(s) /\ Cardinality(s) \in Nat /\ Cardinality(s) <= n
  BY FS_CardinalityType, FS_Subset
<1>11. \A s \in SUBSET A : \A c \in s : Cardinality(s \ {c}) = Cardinality(s) - 1
  BY <1>10, FS_RemoveElement
<1>12. 0 \in T
  <2> SUFFICES ASSUME NEW s \in SUBSET A, Cardinality(s) <= 0 PROVE Adds(s)
    OBVIOUS
  <2>1. s = {}
    BY <1>10, FS_EmptySet
  <2>2. ASSUME NEW x \in A
        PROVE  h[{x}] = f[x]
    <3>1. PICK c \in {x} : h[{x}] = f[c] + h[{x} \ {c}]
      BY <1>9
    <3>2. {x} \ {c} = {} /\ c = x
      OBVIOUS
    <3> QED BY <1>9, <3>1, <3>2
  <2>3. \A x \in A \ s : s \cup {x} = {x}
    BY <2>1
  <2>4. \A x \in A : h[{x}] = h[{}] + f[x]
    BY <1>9, <2>2
  <2> QED BY <1>9, <2>1, <2>3, <2>4
<1>13. ASSUME NEW k \in T
       PROVE  k + 1 \in T
  <2> HIDE DEF Adds
  <2> SUFFICES ASSUME NEW s \in SUBSET A, Cardinality(s) <= k + 1 PROVE Adds(s)
    OBVIOUS
  <2> USE DEF Adds
  <2>0. \A u \in SUBSET A : Cardinality(u) <= k => Adds(u)
    BY <1>13
  <2>1. CASE s = {}
    <3>1. Cardinality(s) <= 0 
      BY <2>1, FS_EmptySet
    <3> QED BY <1>12, <3>1
  <2>2. CASE s # {}
    <3>1. PICK c \in s : h[s] = f[c] + h[s \ {c}]
      BY <1>9, <2>2
    <3>2. Cardinality(s \ {c}) <= k
      BY <1>10, <1>11, <1>13
    <3>3. s \ {c} \in SUBSET A /\ Adds(s \ {c})
      BY <2>0, <3>2
    <3>4. h[s] \in Int
      BY <3>1, <3>3
    <3>5. ASSUME NEW x \in A \ s
          PROVE  h[s \cup {x}] = h[s] + f[x]
      <4>1. PICK d \in s \cup {x} : h[s \cup {x}] = f[d] + h[(s \cup {x}) \ {d}]
        BY <1>9
      <4>2. CASE d = x
        <5>1. (s \cup {x}) \ {d} = s
          BY <3>5, <4>2
        <5>2. f[x] \in Int
          OBVIOUS
        <5>3. h[s \cup {x}] = f[x] + h[s]
          BY ONLY <4>1, <4>2, <5>1, Zenon
        <5> QED BY ONLY <3>4, <5>2, <5>3
      <4>3. CASE d # x
        <5>1. d \in s /\ (s \cup {x}) \ {d} = (s \ {d}) \cup {x} /\ (s \ {d}) \cup {d} = s
              /\ s \ {d} \in SUBSET A /\ x \in A \ (s \ {d}) /\ d \in A \ (s \ {d})
          BY <3>5, <4>3
        <5>2. Cardinality(s \ {d}) <= k
          BY <1>10, <1>11, <1>13, <5>1
        <5>3. Adds(s \ {d})
          BY <2>0, <5>1, <5>2
        <5>4. h[(s \ {d}) \cup {x}] = h[s \ {d}] + f[x] /\ h[s] = h[s \ {d}] + f[d]
              /\ h[s \ {d}] \in Int
          BY <5>1, <5>3
        <5>5. f[x] \in Int /\ f[d] \in Int
          BY <5>1
        <5>6. h[s \cup {x}] = f[d] + h[(s \ {d}) \cup {x}]
          BY ONLY <4>1, <5>1, Zenon
        <5> QED BY ONLY <5>4, <5>5, <5>6
      <4> QED BY <4>2, <4>3
    <3> QED BY <3>4, <3>5
  <2> QED BY <2>1, <2>2
<1>14. n \in T
  <2>1. T \in SUBSET Nat
    OBVIOUS
  <2>2. \A k \in T : k < n => k + 1 \in T
    BY <1>13
  <2> HIDE DEF T
  <2> QED BY <1>10, <1>12, <2>1, <2>2, CountedInduction
<1>15. \A s \in SUBSET A : Adds(s)
  BY <1>10, <1>14
<1> QED BY <1>8, <1>9, <1>15 DEF IsSum

(* Sums over the parts of a finite set.                                       *)
LEMMA SumOf ==
    ASSUME NEW S, IsFiniteSet(S), NEW f, \A x \in S : f[x] \in Int
    PROVE  /\ SumFunctionOnSet(f, {}) = 0
           /\ \A A \in SUBSET S : SumFunctionOnSet(f, A) \in Int
           /\ \A A \in SUBSET S : \A x \in S \ A :
                 SumFunctionOnSet(f, A \cup {x}) = SumFunctionOnSet(f, A) + f[x]
<1>1. PICK g : IsSum(g, S, f)
  BY SumSteps
<1>2. ASSUME NEW A \in SUBSET S
      PROVE  SumFunctionOnSet(f, A) = g[A]
  <2>1. IsFiniteSet(A) /\ \A x \in A : f[x] \in Int
    BY FS_Subset
  <2>2. PICK h : IsSum(h, A, f)
    BY <2>1, SumSteps
  <2> DEFINE T == {s \in SUBSET A : h[s] = g[s]}
  <2>3. {} \in T /\ T \in SUBSET SUBSET A
    BY <1>1, <2>2 DEF IsSum
  <2>4. ASSUME NEW s \in T, NEW x \in A \ s
        PROVE  s \cup {x} \in T
    <3>1. h[s \cup {x}] = h[s] + f[x] /\ g[s \cup {x}] = g[s] + f[x]
      BY <1>1, <2>2 DEF IsSum
    <3> QED BY <3>1
  <2>5. A \in T
    <3> HIDE DEF T
    <3> QED BY <2>1, <2>3, <2>4, FiniteInduction
  <2> QED BY <2>2, <2>5 DEF IsSum
<1>3. \A A \in SUBSET S : \A x \in S \ A : A \cup {x} \in SUBSET S
  OBVIOUS
<1> QED BY <1>1, <1>2, <1>3 DEF IsSum

(* The sum of f over a finite set is that of h and of d, if f is their sum.   *)
LEMMA SumPlus ==
    ASSUME NEW S, IsFiniteSet(S), NEW f, NEW h, NEW d,
           \A x \in S : h[x] \in Int /\ d[x] \in Int /\ f[x] = h[x] + d[x]
    PROVE  SumFunctionOnSet(f, S) = SumFunctionOnSet(h, S) + SumFunctionOnSet(d, S)
<1> DEFINE Sum(g, A) == SumFunctionOnSet(g, A)
           T == {A \in SUBSET S : Sum(f, A) = Sum(h, A) + Sum(d, A)}
<1>0. \A x \in S : h[x] \in Int /\ d[x] \in Int /\ f[x] \in Int
  OBVIOUS
<1>1. /\ Sum(f, {}) = 0 /\ Sum(h, {}) = 0 /\ Sum(d, {}) = 0
      /\ \A A \in SUBSET S : Sum(f, A) \in Int /\ Sum(h, A) \in Int /\ Sum(d, A) \in Int
      /\ \A A \in SUBSET S : \A x \in S \ A : /\ Sum(f, A \cup {x}) = Sum(f, A) + f[x]
                                              /\ Sum(h, A \cup {x}) = Sum(h, A) + h[x]
                                              /\ Sum(d, A \cup {x}) = Sum(d, A) + d[x]
  BY <1>0, SumOf
<1> HIDE DEF Sum
<1>2. {} \in T
  BY <1>1
<1>3. \A A \in T : \A x \in S \ A : A \cup {x} \in T
  <2> TAKE A \in T
  <2> TAKE x \in S \ A
  <2>1. /\ Sum(f, A \cup {x}) = Sum(f, A) + f[x]
        /\ Sum(h, A \cup {x}) = Sum(h, A) + h[x]
        /\ Sum(d, A \cup {x}) = Sum(d, A) + d[x]
    BY <1>1
  <2>2. /\ Sum(f, A) = Sum(h, A) + Sum(d, A) /\ f[x] = h[x] + d[x]
        /\ Sum(h, A) \in Int /\ Sum(d, A) \in Int /\ h[x] \in Int /\ d[x] \in Int
    BY <1>1
  <2>3. Sum(f, A \cup {x}) = Sum(h, A \cup {x}) + Sum(d, A \cup {x})
    BY ONLY <2>1, <2>2
  <2> QED BY <2>3
<1>4. T \in SUBSET SUBSET S
  OBVIOUS
<1>5. S \in T
  <2> HIDE DEF T
  <2> QED BY <1>2, <1>3, <1>4, FiniteInduction
<1> QED BY <1>5 DEF Sum

(* Sums of functions of which none is greater than the other.                 *)
LEMMA SumAtMost ==
    ASSUME NEW S, IsFiniteSet(S), NEW f, NEW h,
           \A x \in S : f[x] \in Int /\ h[x] \in Int /\ f[x] <= h[x]
    PROVE  SumFunctionOnSet(f, S) <= SumFunctionOnSet(h, S)
<1> DEFINE Sum(g, A) == SumFunctionOnSet(g, A)
           T == {A \in SUBSET S : Sum(f, A) <= Sum(h, A)}
<1>1. /\ Sum(f, {}) = 0 /\ Sum(h, {}) = 0
      /\ \A A \in SUBSET S : Sum(f, A) \in Int /\ Sum(h, A) \in Int
      /\ \A A \in SUBSET S : \A x \in S \ A : /\ Sum(f, A \cup {x}) = Sum(f, A) + f[x]
                                              /\ Sum(h, A \cup {x}) = Sum(h, A) + h[x]
  BY SumOf
<1> HIDE DEF Sum
<1>2. {} \in T
  BY <1>1
<1>3. \A A \in T : \A x \in S \ A : A \cup {x} \in T
  <2> TAKE A \in T
  <2> TAKE x \in S \ A
  <2>1. Sum(f, A \cup {x}) = Sum(f, A) + f[x] /\ Sum(h, A \cup {x}) = Sum(h, A) + h[x]
    BY <1>1
  <2>2. /\ Sum(f, A) <= Sum(h, A) /\ f[x] <= h[x]
        /\ Sum(f, A) \in Int /\ Sum(h, A) \in Int /\ f[x] \in Int /\ h[x] \in Int
    BY <1>1
  <2>3. Sum(f, A \cup {x}) <= Sum(h, A \cup {x})
    BY ONLY <2>1, <2>2
  <2> QED BY <2>3
<1>4. T \in SUBSET SUBSET S
  OBVIOUS
<1>5. S \in T
  <2> HIDE DEF T
  <2> QED BY <1>2, <1>3, <1>4, FiniteInduction
<1> QED BY <1>5 DEF Sum

(* Sums of functions that agree.                                              *)
LEMMA SumSame ==
    ASSUME NEW S, IsFiniteSet(S), NEW f, NEW h,
           \A x \in S : f[x] \in Int /\ f[x] = h[x]
    PROVE  SumFunctionOnSet(f, S) = SumFunctionOnSet(h, S)
<1>1. \A x \in S : f[x] \in Int /\ h[x] \in Int /\ f[x] <= h[x] /\ h[x] <= f[x]
  OBVIOUS
<1>2. SumFunctionOnSet(f, S) <= SumFunctionOnSet(h, S)
  BY <1>1, SumAtMost
<1>3. SumFunctionOnSet(h, S) <= SumFunctionOnSet(f, S)
  BY <1>1, SumAtMost
<1>4. SumFunctionOnSet(h, S) \in Int /\ SumFunctionOnSet(f, S) \in Int
  BY <1>1, SumOf
<1> QED BY ONLY <1>2, <1>3, <1>4

(* What is not zero counts.                                                   *)
LEMMA SumOfPart ==
    ASSUME NEW S, IsFiniteSet(S), NEW f, NEW A \in SUBSET S,
           \A x \in S : f[x] \in Int /\ (x \notin A => f[x] = 0)
    PROVE  SumFunctionOnSet(f, S) = SumFunctionOnSet(f, A)
<1> DEFINE Sum(g, B) == SumFunctionOnSet(g, B)
           R == S \ A
           T == {B \in SUBSET R : Sum(f, A \cup B) = Sum(f, A)}
<1>0. \A x \in S : f[x] \in Int
  OBVIOUS
<1>1. /\ \A B \in SUBSET S : Sum(f, B) \in Int
      /\ \A B \in SUBSET S : \A x \in S \ B : Sum(f, B \cup {x}) = Sum(f, B) + f[x]
  BY <1>0, SumOf
<1> HIDE DEF Sum
<1>2. {} \in T
  <2>1. A \cup {} = A
    OBVIOUS
  <2> QED BY <2>1
<1>3. \A B \in T : \A x \in R \ B : B \cup {x} \in T
  <2> TAKE B \in T
  <2> TAKE x \in R \ B
  <2>1. A \cup B \in SUBSET S /\ x \in S \ (A \cup B) /\ A \cup (B \cup {x}) = (A \cup B) \cup {x}
    OBVIOUS
  <2>2. Sum(f, (A \cup B) \cup {x}) = Sum(f, A \cup B) + f[x] /\ Sum(f, A \cup B) \in Int /\ f[x] = 0
    BY <1>1, <2>1
  <2>3. Sum(f, A \cup (B \cup {x})) = Sum(f, A \cup B)
    <3>1. Sum(f, A \cup B) + f[x] = Sum(f, A \cup B)
      BY <2>2
    <3>2. Sum(f, A \cup (B \cup {x})) = Sum(f, (A \cup B) \cup {x})
      BY ONLY <2>1, Zenon
    <3> QED BY ONLY <2>2, <3>1, <3>2, Zenon
  <2> QED BY <2>3
<1>4. T \in SUBSET SUBSET R /\ IsFiniteSet(R)
  BY FS_Subset
<1>5. R \in T
  <2> HIDE DEF T, R
  <2> QED BY <1>2, <1>3, <1>4, FiniteInduction
<1>6. A \cup R = S
  OBVIOUS
<1> QED BY <1>5, <1>6 DEF Sum

(* One value changed.                                                         *)
LEMMA SumChanged ==
    ASSUME NEW S, IsFiniteSet(S), NEW f, NEW h, NEW a \in S, NEW n \in Int,
           \A x \in S : f[x] \in Int /\ h[x] = IF x = a THEN f[x] + n ELSE f[x]
    PROVE  SumFunctionOnSet(h, S) = SumFunctionOnSet(f, S) + n
<1> DEFINE d == [x \in S |-> IF x = a THEN n ELSE 0]
<1>1. \A x \in S : f[x] \in Int /\ d[x] \in Int /\ h[x] = f[x] + d[x]
  OBVIOUS
<1>2. \A x \in S : d[x] \in Int /\ (x \notin {a} => d[x] = 0)
  OBVIOUS
<1>3. d[a] = n
  OBVIOUS
<1> HIDE DEF d
<1>4. SumFunctionOnSet(h, S) = SumFunctionOnSet(f, S) + SumFunctionOnSet(d, S)
  BY <1>1, SumPlus
<1>5. SumFunctionOnSet(d, S) = SumFunctionOnSet(d, {a})
  <2>1. {a} \in SUBSET S
    OBVIOUS
  <2> QED BY <1>2, <2>1, SumOfPart
<1>6. SumFunctionOnSet(d, {a}) = n
  <2>0. \A x \in S : d[x] \in Int
    BY <1>2
  <2>1. SumFunctionOnSet(d, {}) = 0
    BY <2>0, SumOf
  <2>2. \A B \in SUBSET S : \A x \in S \ B : SumFunctionOnSet(d, B \cup {x}) = SumFunctionOnSet(d, B) + d[x]
    BY ONLY <2>0, SumOf, IsFiniteSet(S), Zenon
  <2>3. {} \in SUBSET S /\ a \in S \ {} /\ {} \cup {a} = {a}
    OBVIOUS
  <2>4. SumFunctionOnSet(d, {} \cup {a}) = SumFunctionOnSet(d, {}) + d[a]
    BY <2>2, <2>3
  <2> QED BY <1>3, <2>1, <2>3, <2>4
<1> QED BY <1>4, <1>5, <1>6

(* The values of a part set to zero.                                          *)
LEMMA SumCleared ==
    ASSUME NEW S, IsFiniteSet(S), NEW f, NEW h, NEW A \in SUBSET S,
           \A x \in S : f[x] \in Int /\ h[x] = IF x \in A THEN 0 ELSE f[x]
    PROVE  SumFunctionOnSet(h, S) = SumFunctionOnSet(f, S) - SumFunctionOnSet(f, A)
<1> DEFINE d == [x \in S |-> IF x \in A THEN f[x] ELSE 0]
<1>1. \A x \in S : h[x] \in Int /\ d[x] \in Int /\ f[x] = h[x] + d[x]
  OBVIOUS
<1>2. \A x \in S : d[x] \in Int /\ (x \notin A => d[x] = 0)
  OBVIOUS
<1>3. \A x \in A : d[x] = f[x] /\ d[x] \in Int
  OBVIOUS
<1> HIDE DEF d
<1>4. SumFunctionOnSet(f, S) = SumFunctionOnSet(h, S) + SumFunctionOnSet(d, S)
  BY <1>1, SumPlus
<1>5. SumFunctionOnSet(d, S) = SumFunctionOnSet(d, A)
  BY <1>2, SumOfPart
<1>6. SumFunctionOnSet(d, A) = SumFunctionOnSet(f, A)
  <2>1. IsFiniteSet(A)
    BY FS_Subset
  <2> QED BY <1>3, <2>1, SumSame
<1>7. SumFunctionOnSet(h, S) \in Int /\ SumFunctionOnSet(d, S) \in Int
  <2>1. (\A x \in S : h[x] \in Int) /\ (\A x \in S : d[x] \in Int)
    BY <1>1
  <2> QED BY <2>1, SumOf
<1> QED BY ONLY <1>4, <1>5, <1>6, <1>7

(* One value added.                                                           *)
Extended(f, h, S, a, n) ==
    a \notin S /\ h[a] = n /\ n \in Int /\ \A x \in S : f[x] \in Int /\ h[x] = f[x]

LEMMA SumExtended ==
    ASSUME NEW S, IsFiniteSet(S), NEW f, NEW h, NEW a, NEW n, Extended(f, h, S, a, n)
    PROVE  SumFunctionOnSet(h, S \cup {a}) = SumFunctionOnSet(f, S) + n
<1> USE DEF Extended
<1>1. IsFiniteSet(S \cup {a}) /\ (\A x \in S \cup {a} : h[x] \in Int)
  BY FS_AddElement
<1>2. SumFunctionOnSet(h, S \cup {a}) = SumFunctionOnSet(h, S) + h[a]
  <2>1. S \in SUBSET (S \cup {a}) /\ a \in (S \cup {a}) \ S
    OBVIOUS
  <2> QED BY <1>1, <2>1, SumOf
<1>3. SumFunctionOnSet(f, S) = SumFunctionOnSet(h, S)
  BY SumSame
<1> QED BY <1>2, <1>3

(* No value is greater than the sum, if none is negative.                     *)
LEMMA SumCovers ==
    ASSUME NEW S, IsFiniteSet(S), NEW f, NEW a \in S, \A x \in S : f[x] \in Nat
    PROVE  f[a] <= SumFunctionOnSet(f, S) /\ SumFunctionOnSet(f, S) \in Nat
<1> DEFINE z == [x \in S |-> 0]
           h == [x \in S |-> IF x = a THEN 0 + f[a] ELSE 0]
<1>1. \A x \in S : z[x] \in Int /\ z[x] = 0 /\ (x \notin {} => z[x] = 0)
  OBVIOUS
<1>2. \A x \in S : z[x] \in Int /\ h[x] = IF x = a THEN z[x] + f[a] ELSE z[x]
  OBVIOUS
<1>3. \A x \in S : h[x] \in Int /\ f[x] \in Int /\ h[x] <= f[x]
  OBVIOUS
<1>4. f[a] \in Int /\ 0 <= f[a]
  OBVIOUS
<1> HIDE DEF z, h
<1>5. SumFunctionOnSet(z, S) = 0
  <2>1. SumFunctionOnSet(z, S) = SumFunctionOnSet(z, {})
    <3>1. {} \in SUBSET S
      OBVIOUS
    <3> QED BY <1>1, <3>1, SumOfPart
  <2>2. \A x \in S : z[x] \in Int
    BY <1>1
  <2>3. SumFunctionOnSet(z, {}) = 0
    BY ONLY <2>2, SumOf, IsFiniteSet(S), Zenon
  <2> QED BY <2>1, <2>3
<1>6. SumFunctionOnSet(h, S) = SumFunctionOnSet(z, S) + f[a]
  BY <1>2, <1>4, SumChanged
<1>7. SumFunctionOnSet(h, S) <= SumFunctionOnSet(f, S)
  BY <1>3, SumAtMost
<1>8. SumFunctionOnSet(f, S) \in Int
  <2>1. \A x \in S : f[x] \in Int
    BY <1>3
  <2> QED BY <2>1, SumOf
<1> QED BY <1>4, <1>5, <1>6, <1>7, <1>8

----------------------------------------------------------------------------
(* Queues put together and taken apart                                        *)

(* One queue after another.                                                   *)
LEMMA QueueConcat ==
    ASSUME NEW S, NEW p \in Seq(S), NEW q \in Seq(S)
    PROVE  /\ p \o q \in Seq(S)
           /\ ToSet(p \o q) = ToSet(p) \cup ToSet(q)
           /\ IsInjective(p \o q) <=> /\ IsInjective(p) /\ IsInjective(q)
                                      /\ ToSet(p) \cap ToSet(q) = {}
<1> DEFINE c == p \o q
           m == Len(p)
           n == Len(q)
<1>1. /\ c \in Seq(S) /\ m \in Nat /\ n \in Nat
      /\ DOMAIN c = 1..(m + n) /\ DOMAIN p = 1..m /\ DOMAIN q = 1..n
      /\ \A i \in 1..m : c[i] = p[i]
      /\ \A i \in 1..n : c[m + i] = q[i]
  <2>1. /\ c \in Seq(S) /\ Len(c) = m + n
        /\ \A i \in 1..(m + n) : c[i] = IF i <= m THEN p[i] ELSE q[i - m]
    BY ConcatProperties
  <2>2. m \in Nat /\ n \in Nat /\ DOMAIN c = 1..Len(c) /\ DOMAIN p = 1..m /\ DOMAIN q = 1..n
    BY <2>1, LenProperties
  <2> HIDE DEF c, m, n
  <2>3. \A i \in 1..m : c[i] = p[i]
    BY <2>1, <2>2
  <2>4. ASSUME NEW i \in 1..n
        PROVE  c[m + i] = q[i]
    <3>1. m + i \in 1..(m + n) /\ ~(m + i <= m) /\ (m + i) - m = i
      BY <2>2
    <3> QED BY <2>1, <3>1
  <2> QED BY <2>1, <2>2, <2>3, <2>4
<1> HIDE DEF c, m, n
<1>2. \A i \in 1..(m + n) : i \in 1..m \/ \E j \in 1..n : i = m + j
  <2> TAKE i \in 1..(m + n)
  <2>1. CASE i <= m
    BY <1>1, <2>1
  <2>2. CASE ~(i <= m)
    <3>1. i - m \in 1..n /\ i = m + (i - m)
      BY <1>1, <2>2
    <3> QED BY <3>1
  <2> QED BY <2>1, <2>2
<1>3. \A i \in 1..m : i \in 1..(m + n)
  BY <1>1
<1>4. \A i \in 1..n : m + i \in 1..(m + n) /\ m + i \notin 1..m
  BY <1>1
<1>5. ToSet(c) = ToSet(p) \cup ToSet(q)
  <2>1. ToSet(c) \subseteq ToSet(p) \cup ToSet(q)
    <3> SUFFICES ASSUME NEW i \in 1..(m + n)
                 PROVE  c[i] \in ToSet(p) \cup ToSet(q)
      BY <1>1 DEF ToSet
    <3>1. CASE i \in 1..m
      BY <1>1, <3>1 DEF ToSet
    <3>2. CASE i \notin 1..m
      <4>1. PICK j \in 1..n : i = m + j
        BY <1>2, <3>2
      <4>2. c[i] = q[j] /\ j \in DOMAIN q
        BY <1>1, <4>1
      <4> QED BY <4>2 DEF ToSet
    <3> QED BY <3>1, <3>2
  <2>2. ToSet(p) \subseteq ToSet(c)
    BY <1>1, <1>3 DEF ToSet
  <2>3. ToSet(q) \subseteq ToSet(c)
    BY <1>1, <1>4 DEF ToSet
  <2> QED BY <2>1, <2>2, <2>3
<1>6. ASSUME IsInjective(c)
      PROVE  IsInjective(p) /\ IsInjective(q) /\ ToSet(p) \cap ToSet(q) = {}
  <2>1. \A i, j \in 1..(m + n) : c[i] = c[j] => i = j
    BY <1>1, <1>6 DEF IsInjective
  <2>2. IsInjective(p)
    BY <1>1, <1>3, <2>1 DEF IsInjective
  <2>3. \A i, j \in 1..n : q[i] = q[j] => m + i = m + j
    BY <1>1, <1>4, <2>1
  <2>4. \A i, j \in 1..n : m + i = m + j => i = j
    BY <1>1
  <2>5. IsInjective(q)
    BY <1>1, <2>3, <2>4 DEF IsInjective
  <2>6. \A i \in 1..m : \A j \in 1..n : p[i] # q[j]
    BY <1>1, <1>3, <1>4, <2>1
  <2>7. ToSet(p) \cap ToSet(q) = {}
    BY <1>1, <2>6 DEF ToSet
  <2> QED BY <2>2, <2>5, <2>7
<1>7. ASSUME IsInjective(p), IsInjective(q), ToSet(p) \cap ToSet(q) = {}
      PROVE  IsInjective(c)
  <2> SUFFICES ASSUME NEW i \in 1..(m + n), NEW j \in 1..(m + n), c[i] = c[j]
               PROVE  i = j
    BY <1>1 DEF IsInjective
  <2>1. \A k \in 1..m : \A l \in 1..n : p[k] # q[l]
    BY <1>1, <1>7 DEF ToSet
  <2>2. CASE i \in 1..m /\ j \in 1..m
    BY <1>1, <1>7, <2>2 DEF IsInjective
  <2>3. CASE i \in 1..m /\ j \notin 1..m
    <3>1. PICK l \in 1..n : j = m + l
      BY <1>2, <2>3
    <3>2. p[i] = q[l]
      BY <1>1, <2>3, <3>1
    <3> QED BY <2>1, <2>3, <3>2
  <2>4. CASE i \notin 1..m /\ j \in 1..m
    <3>1. PICK l \in 1..n : i = m + l
      BY <1>2, <2>4
    <3>2. p[j] = q[l]
      BY <1>1, <2>4, <3>1
    <3> QED BY <2>1, <2>4, <3>2
  <2>5. CASE i \notin 1..m /\ j \notin 1..m
    <3>1. PICK k \in 1..n : i = m + k
      BY <1>2, <2>5
    <3>2. PICK l \in 1..n : j = m + l
      BY <1>2, <2>5
    <3>3. q[k] = q[l]
      BY <1>1, <3>1, <3>2
    <3>4. k = l
      BY <1>1, <1>7, <3>3 DEF IsInjective
    <3> QED BY <3>1, <3>2, <3>4
  <2> QED BY <2>2, <2>3, <2>4, <2>5
<1> QED BY <1>1, <1>5, <1>6, <1>7 DEF c

LEMMA QueueAssociative == \A S : \A q1, q2, q3 \in Seq(S) : (q1 \o q2) \o q3 = q1 \o (q2 \o q3)
  BY ConcatAssociative

(* A queue without repetitions is as long as it has members.                  *)
LEMMA QueueLength ==
    ASSUME NEW S, NEW q \in Seq(S), IsInjective(q)
    PROVE  IsFiniteSet(ToSet(q)) /\ Len(q) = Cardinality(ToSet(q)) /\ Len(q) \in Nat
<1>1. Len(q) \in Nat /\ q \in [1..Len(q) -> S] /\ DOMAIN q = 1..Len(q)
  BY LenProperties
<1>2. ToSet(q) = {q[k] : k \in 1..Len(q)}
  BY <1>1 DEF ToSet
<1> DEFINE n == Len(q)
<1>3. /\ IsFiniteSet({q[k] : k \in 1..n})
      /\ Cardinality({q[k] : k \in 1..n}) = n
  <2> HIDE DEF n
  <2>1. n \in Nat /\ q \in [1..n -> S]
    BY <1>1 DEF n
  <2> QED BY <2>1, ArrayItems
<1> QED BY <1>1, <1>2, <1>3

(* A queue in two parts.                                                      *)
Items(q, m, n) == {q[i] : i \in m..n}

LEMMA QueueEnd ==
    ASSUME NEW S, NEW q \in Seq(S), NEW n \in 0..Len(q)
    PROVE  /\ SubSeq(q, 1, n) \in Seq(S) /\ Len(SubSeq(q, 1, n)) = n
           /\ \A i \in 1..n : SubSeq(q, 1, n)[i] = q[i]
           /\ SubSeq(q, n + 1, Len(q)) \in Seq(S)
           /\ ToSet(SubSeq(q, 1, n)) = Items(q, 1, n)
           /\ ToSet(SubSeq(q, n + 1, Len(q))) = Items(q, n + 1, Len(q))
           /\ SubSeq(q, 1, n) \o SubSeq(q, n + 1, Len(q)) = q
<1> DEFINE len == Len(q)
           a == SubSeq(q, 1, n)
           b == SubSeq(q, n + 1, len)
<1>1. len \in Nat /\ DOMAIN q = 1..len /\ n \in Int /\ n + 1 \in Int /\ 1 \in Int /\ len \in Int
  BY LenProperties
<1>2. \A i \in 1..len : q[i] \in S
  BY ElementOfSeq
<1>3. (\A i \in 1..n : q[i] \in S) /\ (\A i \in (n + 1)..len : q[i] \in S)
  BY <1>1, <1>2
<1>4. a \in Seq(S) /\ Len(a) = n /\ \A i \in 1..n : a[i] = q[i]
  <2>1. /\ a \in Seq(S) /\ Len(a) = IF 1 <= n THEN n - 1 + 1 ELSE 0
        /\ \A i \in 1..(n - 1 + 1) : a[i] = q[1 + i - 1]
    BY <1>1, <1>3, SubSeqProperties
  <2>2. n - 1 + 1 = n /\ \A i \in 1..n : 1 + i - 1 = i
    BY <1>1
  <2> HIDE DEF a
  <2> QED BY <1>1, <2>1, <2>2
<1>5. /\ b \in Seq(S) /\ Len(b) = len - n
      /\ \A i \in 1..(len - n) : b[i] = q[n + i]
  <2>1. /\ b \in Seq(S) /\ Len(b) = IF n + 1 <= len THEN len - (n + 1) + 1 ELSE 0
        /\ \A i \in 1..(len - (n + 1) + 1) : b[i] = q[(n + 1) + i - 1]
    BY <1>1, <1>3, SubSeqProperties
  <2>2. len - (n + 1) + 1 = len - n /\ \A i \in 1..(len - n) : (n + 1) + i - 1 = n + i
    BY <1>1
  <2> HIDE DEF b, len
  <2>3. Len(b) = len - n
    BY <1>1, <2>1, n \in 0..len
  <2> QED BY <2>1, <2>2, <2>3
<1> HIDE DEF a, b, len
<1>6. DOMAIN a = 1..n /\ DOMAIN b = 1..(len - n)
  BY <1>4, <1>5, LenProperties
<1>7. ToSet(a) = Items(q, 1, n)
  BY <1>4, <1>6 DEF ToSet, Items
<1>8. n \in 0..len
  BY DEF len
<1>9. ToSet(b) = Items(q, n + 1, len)
  <2>1. \A i \in 1..(len - n) : n + i \in (n + 1)..len
    BY <1>1, <1>8
  <2>2. \A j \in (n + 1)..len : j - n \in 1..(len - n) /\ n + (j - n) = j
    BY <1>1, <1>8
  <2>3. \A y \in ToSet(b) : y \in {q[i] : i \in (n + 1)..len}
    BY <1>5, <1>6, <2>1 DEF ToSet
  <2>4. \A j \in (n + 1)..len : q[j] \in ToSet(b)
    <3> TAKE j \in (n + 1)..len
    <3>1. j - n \in DOMAIN b /\ b[j - n] = q[j]
      BY <1>5, <1>6, <2>2
    <3> QED BY <3>1 DEF ToSet
  <2> QED BY <2>3, <2>4 DEF Items
<1>10. a \o b = q
  <2>1. /\ a \o b \in Seq(S) /\ Len(a \o b) = n + (len - n)
        /\ \A i \in 1..(n + (len - n)) : (a \o b)[i] = IF i <= n THEN a[i] ELSE b[i - n]
    <3>1. a \in Seq(S) /\ b \in Seq(S)
      BY <1>4, <1>5
    <3>2. /\ a \o b \in Seq(S) /\ Len(a \o b) = Len(a) + Len(b)
          /\ \A i \in 1..(Len(a) + Len(b)) : (a \o b)[i] = IF i <= Len(a) THEN a[i] ELSE b[i - Len(a)]
      BY <3>1, ConcatProperties
    <3>3. Len(a) = n /\ Len(b) = len - n
      BY <1>4, <1>5
    <3> QED BY ONLY <3>2, <3>3, Zenon
  <2> DEFINE c == a \o b
  <2>2. c \in Seq(S) /\ Len(c) = len /\ \A i \in 1..len : c[i] = IF i <= n THEN a[i] ELSE b[i - n]
    <3>1. n + (len - n) = len
      BY <1>1
    <3> QED BY <2>1, <3>1
  <2> HIDE DEF c
  <2>3. ASSUME NEW i \in 1..len
        PROVE  c[i] = q[i]
    <3>1. CASE i <= n
      <4>1. i \in 1..n
        BY <3>1
      <4> QED BY <1>4, <2>2, <3>1, <4>1
    <3>2. CASE ~(i <= n)
      <4>1. i - n \in 1..(len - n) /\ n + (i - n) = i
        BY <1>1, <3>2
      <4> QED BY <1>5, <2>2, <3>2, <4>1
    <3> QED BY <3>1, <3>2
  <2>4. Len(c) = Len(q) /\ \A i \in 1..Len(c) : c[i] = q[i]
    BY <2>2, <2>3 DEF len
  <2>5. c = q
    BY <2>2, <2>4, SeqEqual
  <2> QED BY <2>5 DEF c
<1> QED BY <1>4, <1>5, <1>7, <1>9, <1>10 DEF a, b, len

(* The members of a finite set, ranked by a strict order: how many come       *)
(* before one tells which it is.                                              *)
LEMMA RanksOfOrder ==
    ASSUME NEW A, IsFiniteSet(A), NEW B \in [A -> SUBSET A],
           \A a \in A : a \notin B[a] /\ \A c \in B[a] : B[c] \subseteq B[a],
           \A a, c \in A : a = c \/ a \in B[c] \/ c \in B[a]
    PROVE  /\ Cardinality(A) \in Nat
           /\ \A a \in A : Cardinality(B[a]) \in 0..(Cardinality(A) - 1)
           /\ \A a, c \in A : c \in B[a] <=> Cardinality(B[c]) < Cardinality(B[a])
           /\ \A a, c \in A : Cardinality(B[a]) = Cardinality(B[c]) => a = c
           /\ \A k \in 0..(Cardinality(A) - 1) : \E a \in A : Cardinality(B[a]) = k
<1> DEFINE n == Cardinality(A)
           rank == [a \in A |-> Cardinality(B[a])]
<1>1. n \in Nat
  BY FS_CardinalityType
<1>2. \A a \in A : /\ IsFiniteSet(B[a]) /\ Cardinality(B[a]) \in Nat
                   /\ Cardinality(B[a]) < n
  <2> TAKE a \in A
  <2>1. B[a] \in SUBSET A /\ B[a] # A
    OBVIOUS
  <2>2. IsFiniteSet(B[a]) /\ Cardinality(B[a]) <= n /\ (Cardinality(B[a]) = n => B[a] = A)
    BY <2>1, FS_Subset
  <2>3. Cardinality(B[a]) \in Nat
    BY <2>2, FS_CardinalityType
  <2> QED BY <1>1, <2>1, <2>2, <2>3
<1>3. \A a \in A : rank[a] \in Nat /\ rank[a] \in 0..(n - 1) /\ rank[a] = Cardinality(B[a])
  BY <1>1, <1>2
<1>4. ASSUME NEW a \in A, NEW c \in A, c \in B[a]
      PROVE  rank[c] < rank[a]
  <2>1. B[c] \in SUBSET B[a] /\ B[c] # B[a]
    BY <1>4
  <2>2. /\ Cardinality(B[c]) <= Cardinality(B[a])
        /\ (Cardinality(B[c]) = Cardinality(B[a]) => B[c] = B[a])
    BY <1>2, <2>1, FS_Subset
  <2> QED BY <1>2, <1>3, <2>1, <2>2
<1> HIDE DEF rank
<1>5. \A a, c \in A : c \in B[a] => rank[c] < rank[a]
  BY <1>4
<1>6. \A a, c \in A : rank[a] = rank[c] => a = c
  <2> TAKE a, c \in A
  <2>1. a = c \/ a \in B[c] \/ c \in B[a]
    OBVIOUS
  <2> QED BY <1>3, <1>5, <2>1
<1>7. \A a, c \in A : rank[c] < rank[a] => c \in B[a]
  <2> TAKE a, c \in A
  <2>1. a = c \/ a \in B[c] \/ c \in B[a]
    OBVIOUS
  <2> QED BY <1>3, <1>5, <2>1
<1>8. rank \in Injection(A, 0..(n - 1))
  <2>1. rank \in [A -> 0..(n - 1)]
    BY <1>3 DEF rank
  <2> QED BY <1>6, <2>1 DEF Injection, IsInjective
<1>9. IsFiniteSet(0..(n - 1)) /\ Cardinality(0..(n - 1)) = n
  <2>1. /\ IsFiniteSet(0..(n - 1))
        /\ Cardinality(0..(n - 1)) = IF 0 > (n - 1) THEN 0 ELSE (n - 1) - 0 + 1
    BY <1>1, FS_Interval
  <2> QED BY <1>1, <2>1
<1>10. rank \in Surjection(A, 0..(n - 1))
  BY <1>8, <1>9, FS_Injection
<1>11. \A k \in 0..(n - 1) : \E a \in A : rank[a] = k
  BY <1>10 DEF Surjection
<1> QED BY <1>1, <1>3, <1>5, <1>6, <1>7, <1>11
=============================================================================
