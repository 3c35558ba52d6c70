---------------------------- MODULE NumberTheorems ----------------------------
(***************************************************************************)
(* Facts about quotients, the largest and smallest of some numbers, and    *)
(* the sum of a function over a finite set, as the fold of the community   *)
(* modules computes it.  The fold is a recursive definition, so each fact  *)
(* about it is an induction; it is done by a smallest counterexample,      *)
(* which needs no theorem with an operator for a parameter.                *)
(***************************************************************************)
EXTENDS Integers, FiniteSetsExt, FiniteSetTheorems, TLAPS

-----------------------------------------------------------------------------
(***************************************************************************)
(* Quotients                                                               *)
(***************************************************************************)

\* The quotient is the only number of whole divisors in the dividend.
LEMMA DivIs ==
  ASSUME NEW a \in Int, NEW d \in Nat \ {0}, NEW q \in Int, q * d <= a, a < (q + 1) * d
  PROVE  a \div d = q
<1> DEFINE p == a \div d
<1>1. p \in Int /\ p * d <= a /\ a < (p + 1) * d
  <2>1. a = d * (a \div d) + (a % d) /\ a % d \in 0..(d - 1) /\ a \div d \in Int
    OBVIOUS
  <2>2. QED
    BY <2>1
<1> HIDE DEF p
<1>2. ~(p > q)
  <2>1. SUFFICES ASSUME p >= q + 1 PROVE FALSE
    BY <1>1
  <2>2. (p - (q + 1)) * d \in Nat
    <3>1. p - (q + 1) \in Nat
      BY <1>1, <2>1
    <3>2. QED
      BY <3>1
  <2>3. QED
    BY <1>1, <2>2
<1>3. ~(q > p)
  <2>1. SUFFICES ASSUME q >= p + 1 PROVE FALSE
    BY <1>1
  <2>2. (q - (p + 1)) * d \in Nat
    <3>1. q - (p + 1) \in Nat
      BY <1>1, <2>1
    <3>2. QED
      BY <3>1
  <2>3. QED
    BY <1>1, <2>2
<1>4. p = q
  BY <1>1, <1>2, <1>3
<1>5. QED
  BY <1>4 DEF p

\* What a quotient is, and that it is no less than zero when the dividend is not.
LEMMA DivBounds ==
  ASSUME NEW a \in Int, NEW d \in Nat \ {0}
  PROVE  /\ a \div d \in Int
         /\ (a \div d) * d <= a /\ a < ((a \div d) + 1) * d
         /\ a >= 0 => a \div d \in Nat
<1>1. a = d * (a \div d) + (a % d) /\ a % d \in 0..(d - 1) /\ a \div d \in Int
  OBVIOUS
<1>2. a >= 0 => a \div d \in Nat
  <2>1. SUFFICES ASSUME a >= 0, (a \div d) + 1 <= 0 PROVE FALSE
    BY <1>1
  <2>2. (0 - ((a \div d) + 1)) * d \in Nat
    <3>1. 0 - ((a \div d) + 1) \in Nat
      BY <1>1, <2>1
    <3>2. QED
      BY <3>1
  <2>3. QED
    BY <1>1, <2>1, <2>2
<1>3. QED
  BY <1>1, <1>2

\* A larger dividend has no smaller quotient.
LEMMA DivMonotone ==
  ASSUME NEW a \in Int, NEW b \in Int, NEW d \in Nat \ {0}, a <= b
  PROVE  a \div d <= b \div d
<1> DEFINE p == a \div d
           q == b \div d
<1>1. /\ p \in Int /\ p * d <= a /\ a < (p + 1) * d
      /\ q \in Int /\ q * d <= b /\ b < (q + 1) * d
  BY DivBounds
<1> HIDE DEF p, q
<1>2. SUFFICES ASSUME p >= q + 1 PROVE FALSE
  BY <1>1 DEF p, q
<1>3. (p - (q + 1)) * d \in Nat
  <2>1. p - (q + 1) \in Nat
    BY <1>1, <1>2
  <2>2. QED
    BY <2>1
<1>4. QED
  BY <1>1, <1>3

-----------------------------------------------------------------------------
(***************************************************************************)
(* Largest and smallest                                                    *)
(***************************************************************************)

\* Induction over the subsets of a finite set, without an operator for the hypothesis: a
\* set of counterexamples has a smallest one.
LEMMA SubsetInduction ==
  ASSUME NEW S, IsFiniteSet(S), NEW B, B \subseteq SUBSET S, B # {}
  PROVE  \E T \in B : \A U \in B : U \subseteq T => U = T
<1>1. IsWellFoundedOn(StrictSubsetOrdering(S), SUBSET S)
  BY FS_StrictSubsetOrderingWellFounded, FS_FiniteSubsetsOfFinite
<1>2. PICK T \in B : \A U \in B : ~(<<U, T>> \in StrictSubsetOrdering(S))
  BY <1>1, WFMin
<1>3. QED
  BY <1>2 DEF StrictSubsetOrdering

\* A finite set of numbers that is not empty has a largest one.
LEMMA MaxIn ==
  ASSUME NEW S, IsFiniteSet(S), \A x \in S : x \in Nat, S # {}
  PROVE  Max(S) \in S /\ \A x \in S : x <= Max(S)
<1> DEFINE B == {T \in SUBSET S : T # {} /\ ~ \E m \in T : \A x \in T : m >= x}
<1>1. B = {}
  <2>1. SUFFICES ASSUME B # {} PROVE FALSE
    OBVIOUS
  <2>2. PICK T \in B : \A U \in B : U \subseteq T => U = T
    <3>1. B \subseteq SUBSET S
      OBVIOUS
    <3> HIDE DEF B
    <3>2. QED
      BY <2>1, <3>1, SubsetInduction
  <2>3. PICK x \in T : TRUE
    BY <2>2
  <2>4. T \ {x} # {}
    BY <2>2, <2>3
  <2>5. PICK m \in T \ {x} : \A y \in T \ {x} : m >= y
    <3>1. T \ {x} \notin B /\ T \ {x} \in SUBSET S
      BY <2>2, <2>3
    <3>2. QED
      BY <2>4, <3>1
  <2>6. x \in Nat /\ m \in Nat /\ m \in T
    BY <2>2, <2>3, <2>5
  <2>7. CASE m >= x
    BY <2>2, <2>3, <2>5, <2>6, <2>7
  <2>8. CASE x >= m
    <3>1. \A y \in T : y \in Nat
      BY <2>2
    <3>2. \A y \in T : x >= y
      BY <2>5, <2>6, <2>8, <3>1
    <3>3. QED
      BY <2>2, <2>3, <3>2
  <2>9. QED
    BY <2>6, <2>7, <2>8
<1>2. \E m \in S : \A x \in S : m >= x
  BY <1>1
<1>3. Max(S) \in S /\ \A x \in S : Max(S) >= x
  BY <1>2 DEF Max
<1>4. QED
  BY <1>3

\* The smaller of two numbers.
LEMMA MinOfTwo ==
  ASSUME NEW a \in Int, NEW b \in Int
  PROVE  Min({a, b}) \in {a, b} /\ Min({a, b}) <= a /\ Min({a, b}) <= b
<1>1. \E x \in {a, b} : \A y \in {a, b} : x =< y
  <2>1. CASE a <= b
    BY <2>1
  <2>2. CASE b <= a
    BY <2>2
  <2>3. QED
    BY <2>1, <2>2
<1>2. Min({a, b}) \in {a, b} /\ \A y \in {a, b} : Min({a, b}) =< y
  BY <1>1 DEF Min
<1>3. QED
  BY <1>2

-----------------------------------------------------------------------------
(***************************************************************************)
(* Sums                                                                    *)
(***************************************************************************)

SumOf(f, S) == MapThenSumSet(LAMBDA x : f[x], S)

Some(s) == CHOOSE x \in s : TRUE

\* h is the partial sums of f over the subsets of S.
Sums(h, f, S) ==
  h = [s \in SUBSET S |-> IF s = {} THEN 0 ELSE f[Some(s)] + h[s \ {Some(s)}]]

\* A set that is not empty has the element the sum takes first.
LEMMA SomeIn == \A s : s # {} => Some(s) \in s
  BY DEF Some

\* The partial sums are unique.
LEMMA SumsAgree ==
  ASSUME NEW S, IsFiniteSet(S), NEW f, NEW h, Sums(h, f, S),
         NEW W \in SUBSET S, NEW k, Sums(k, f, W)
  PROVE  \A s \in SUBSET W : h[s] = k[s]
<1> DEFINE B == {s \in SUBSET W : h[s] # k[s]}
<1>1. SUFFICES ASSUME B # {} PROVE FALSE
  OBVIOUS
<1>2. PICK T \in B : \A U \in B : U \subseteq T => U = T
  <2>1. B \subseteq SUBSET S
    OBVIOUS
  <2> HIDE DEF B
  <2>2. QED
    BY <1>1, <2>1, SubsetInduction
<1>3. T \in SUBSET W /\ T \in SUBSET S /\ h[T] # k[T]
  BY <1>2
<1>4. T # {}
  BY <1>3 DEF Sums
<1>5. Some(T) \in T /\ T \ {Some(T)} \notin B
  BY <1>2, <1>4, SomeIn
<1>6. h[T \ {Some(T)}] = k[T \ {Some(T)}]
  BY <1>3, <1>5
<1>7. QED
  BY <1>3, <1>4, <1>6 DEF Sums

\* They exist: the recursive definition of the sum is well founded.
LEMMA SumsExist ==
  ASSUME NEW S, IsFiniteSet(S), NEW f
  PROVE  \E h : Sums(h, f, S)
<1> DEFINE B == {T \in SUBSET S : ~ \E h : Sums(h, f, T)}
<1>1. SUFFICES ASSUME B # {} PROVE FALSE
  OBVIOUS
<1>2. PICK T \in B : \A U \in B : U \subseteq T => U = T
  <2>1. B \subseteq SUBSET S
    OBVIOUS
  <2> HIDE DEF B
  <2>2. QED
    BY <1>1, <2>1, SubsetInduction
<1> DEFINE of(U) == CHOOSE h : Sums(h, f, U)
           below == [U \in SUBSET T |-> IF U = {} THEN 0
                      ELSE f[Some(U)] + of(U \ {Some(U)})[U \ {Some(U)}]]
<1>3. ASSUME NEW U \in SUBSET T, U # T PROVE Sums(of(U), f, U)
  <2>1. \E h : Sums(h, f, U)
    BY <1>2, <1>3
  <2>2. QED
    BY <2>1
<1>4. ASSUME NEW U \in SUBSET T, U # T PROVE of(U)[U] = below[U]
  <2>1. Sums(of(U), f, U)
    BY <1>3, <1>4
  <2>2. CASE U = {}
    BY <2>1, <2>2 DEF Sums
  <2>3. CASE U # {}
    <3>1. Some(U) \in U /\ U \ {Some(U)} \in SUBSET T /\ U \ {Some(U)} # T
      BY <2>3, SomeIn
    <3>2. Sums(of(U \ {Some(U)}), f, U \ {Some(U)})
      BY <1>3, <3>1
    <3>3. IsFiniteSet(U)
      BY <1>2, FS_Subset
    <3> HIDE DEF of
    <3>4. of(U)[U \ {Some(U)}] = of(U \ {Some(U)})[U \ {Some(U)}]
      BY <2>1, <3>2, <3>3, SumsAgree
    <3>5. QED
      BY <2>1, <2>3, <3>4 DEF Sums
  <2>4. QED
    BY <2>2, <2>3
<1>5. Sums(below, f, T)
  <2>1. ASSUME NEW U \in SUBSET T, U # {}
        PROVE  below[U] = f[Some(U)] + below[U \ {Some(U)}]
    <3>1. Some(U) \in U /\ U \ {Some(U)} \in SUBSET T /\ U \ {Some(U)} # T
      BY <2>1, SomeIn
    <3>2. of(U \ {Some(U)})[U \ {Some(U)}] = below[U \ {Some(U)}]
      BY <1>4, <3>1
    <3> HIDE DEF of
    <3>3. QED
      BY <2>1, <3>2
  <2>2. \A U \in SUBSET T : below[U] = IF U = {} THEN 0 ELSE f[Some(U)] + below[U \ {Some(U)}]
    <3> HIDE DEF of
    <3> QED BY <2>1
  <2>3. below = [U \in SUBSET T |-> below[U]]
    OBVIOUS
  <2> HIDE DEF below
  <2>4. QED
    BY <2>2, <2>3 DEF Sums
<1>6. QED
  BY <1>2, <1>5

\* The sum is the last of its partial sums.
LEMMA SumIs ==
  ASSUME NEW f, NEW S, IsFiniteSet(S), NEW h, Sums(h, f, S)
  PROVE  SumOf(f, S) = h[S]
<1>1. SumOf(f, S) = (CHOOSE g : Sums(g, f, S))[S]
  BY DEF SumOf, MapThenSumSet, MapThenFoldSet, Sums, Some
<1>2. Sums((CHOOSE g : Sums(g, f, S)), f, S)
  OBVIOUS
<1>3. QED
  BY <1>1, <1>2, SumsAgree

\* The sum of nothing.
LEMMA SumEmpty == \A f : SumOf(f, {}) = 0
<1> SUFFICES ASSUME NEW f PROVE SumOf(f, {}) = 0
  OBVIOUS
<1>1. IsFiniteSet({})
  BY FS_EmptySet
<1>2. PICK h : Sums(h, f, {})
  BY <1>1, SumsExist
<1>3. QED
  BY <1>1, <1>2, SumIs DEF Sums

\* One step of the recursion.
LEMMA SumUnfold ==
  ASSUME NEW f, NEW S, IsFiniteSet(S), NEW T \in SUBSET S, T # {}
  PROVE  SumOf(f, T) = f[Some(T)] + SumOf(f, T \ {Some(T)})
<1>1. IsFiniteSet(T) /\ IsFiniteSet(T \ {Some(T)})
  BY FS_Subset
<1>2. PICK h : Sums(h, f, T)
  BY <1>1, SumsExist
<1>3. PICK k : Sums(k, f, T \ {Some(T)})
  BY <1>1, SumsExist
<1>4. h[T \ {Some(T)}] = k[T \ {Some(T)}]
  BY <1>1, <1>2, <1>3, SumsAgree
<1>5. SumOf(f, T) = h[T] /\ SumOf(f, T \ {Some(T)}) = k[T \ {Some(T)}]
  BY <1>1, <1>2, <1>3, SumIs
<1>6. h[T] = f[Some(T)] + h[T \ {Some(T)}]
  BY <1>2 DEF Sums
<1>7. QED
  BY <1>4, <1>5, <1>6

\* A sum of numbers is a number.
LEMMA SumType ==
  ASSUME NEW S, IsFiniteSet(S), NEW f, \A x \in S : f[x] \in Nat
  PROVE  \A T \in SUBSET S : SumOf(f, T) \in Nat
<1> DEFINE B == {T \in SUBSET S : SumOf(f, T) \notin Nat}
<1>1. SUFFICES ASSUME B # {} PROVE FALSE
  OBVIOUS
<1>2. PICK T \in B : \A U \in B : U \subseteq T => U = T
  <2>1. B \subseteq SUBSET S
    OBVIOUS
  <2> HIDE DEF B
  <2>2. QED
    BY <1>1, <2>1, SubsetInduction
<1>3. T # {}
  BY SumEmpty
<1>4. Some(T) \in T
  BY <1>3, SomeIn
<1>5. SumOf(f, T \ {Some(T)}) \in Nat
  BY <1>2, <1>4
<1>6. SumOf(f, T) = f[Some(T)] + SumOf(f, T \ {Some(T)})
  BY <1>2, <1>3, SumUnfold
<1>7. QED
  BY <1>2, <1>4, <1>5, <1>6

\* Any element may be taken out of a sum.
LEMMA SumSplit ==
  ASSUME NEW S, IsFiniteSet(S), NEW f, \A x \in S : f[x] \in Nat
  PROVE  \A T \in SUBSET S : \A x \in T : SumOf(f, T) = f[x] + SumOf(f, T \ {x})
<1> DEFINE B == {T \in SUBSET S : \E x \in T : SumOf(f, T) # f[x] + SumOf(f, T \ {x})}
<1>1. SUFFICES ASSUME B # {} PROVE FALSE
  OBVIOUS
<1>2. PICK T \in B : \A U \in B : U \subseteq T => U = T
  <2>1. B \subseteq SUBSET S
    OBVIOUS
  <2> HIDE DEF B
  <2>2. QED
    BY <1>1, <2>1, SubsetInduction
<1>3. PICK x \in T : SumOf(f, T) # f[x] + SumOf(f, T \ {x})
  BY <1>2
<1> DEFINE c == Some(T)
<1>4. c \in T
  BY <1>3, SomeIn
<1>5. SumOf(f, T) = f[c] + SumOf(f, T \ {c})
  BY <1>2, <1>3, SumUnfold
<1> HIDE DEF c
<1>6. c # x
  BY <1>3, <1>5
<1>7. SumOf(f, T \ {c}) = f[x] + SumOf(f, (T \ {c}) \ {x})
  <2>1. T \ {c} \notin B /\ T \ {c} \in SUBSET S /\ x \in T \ {c}
    BY <1>2, <1>4, <1>6
  <2>2. QED
    BY <2>1
<1>8. SumOf(f, T \ {x}) = f[c] + SumOf(f, (T \ {x}) \ {c})
  <2>1. T \ {x} \notin B /\ T \ {x} \in SUBSET S /\ c \in T \ {x}
    BY <1>2, <1>4, <1>6
  <2>2. QED
    BY <2>1
<1>9. SumOf(f, T \ {x}) = f[c] + SumOf(f, (T \ {c}) \ {x})
  <2>1. (T \ {x}) \ {c} = (T \ {c}) \ {x}
    OBVIOUS
  <2>2. QED
    BY <1>8, <2>1
<1>10. SumOf(f, (T \ {c}) \ {x}) \in Nat /\ f[x] \in Nat /\ f[c] \in Nat
  BY <1>2, <1>4, SumType
<1>11. QED
  BY <1>3, <1>5, <1>7, <1>9, <1>10

\* A sum depends on the values it adds only.
LEMMA SumCongruent ==
  ASSUME NEW S, IsFiniteSet(S), NEW f, NEW g, \A x \in S : f[x] = g[x]
  PROVE  \A T \in SUBSET S : SumOf(f, T) = SumOf(g, T)
<1> DEFINE B == {T \in SUBSET S : SumOf(f, T) # SumOf(g, T)}
<1>1. SUFFICES ASSUME B # {} PROVE FALSE
  OBVIOUS
<1>2. PICK T \in B : \A U \in B : U \subseteq T => U = T
  <2>1. B \subseteq SUBSET S
    OBVIOUS
  <2> HIDE DEF B
  <2>2. QED
    BY <1>1, <2>1, SubsetInduction
<1>3. T # {}
  BY <1>2, SumEmpty
<1>4. Some(T) \in T
  BY <1>3, SomeIn
<1>5. SumOf(f, T \ {Some(T)}) = SumOf(g, T \ {Some(T)})
  BY <1>2, <1>4
<1>6. /\ SumOf(f, T) = f[Some(T)] + SumOf(f, T \ {Some(T)})
      /\ SumOf(g, T) = g[Some(T)] + SumOf(g, T \ {Some(T)})
  BY <1>2, <1>3, SumUnfold
<1>7. QED
  BY <1>2, <1>4, <1>5, <1>6

\* Zeros add nothing.
LEMMA SumZeros ==
  ASSUME NEW S, IsFiniteSet(S), NEW f, \A x \in S : f[x] \in Nat,
         NEW T \in SUBSET S, \A x \in S \ T : f[x] = 0
  PROVE  SumOf(f, S) = SumOf(f, T)
<1> DEFINE B == {U \in SUBSET S : T \subseteq U /\ SumOf(f, U) # SumOf(f, T)}
<1>1. SUFFICES ASSUME B # {} PROVE FALSE
  OBVIOUS
<1>2. PICK U \in B : \A V \in B : V \subseteq U => V = U
  <2>1. B \subseteq SUBSET S
    OBVIOUS
  <2> HIDE DEF B
  <2>2. QED
    BY <1>1, <2>1, SubsetInduction
<1>3. PICK x \in U : x \notin T
  <2>1. U # T /\ T \subseteq U
    BY <1>2
  <2>2. QED
    BY <2>1
<1>4. SumOf(f, U \ {x}) = SumOf(f, T)
  <2>1. U \ {x} \notin B /\ T \subseteq U \ {x} /\ U \ {x} \in SUBSET S
    BY <1>2, <1>3
  <2>2. QED
    BY <2>1
<1>5. SumOf(f, U) = f[x] + SumOf(f, U \ {x}) /\ SumOf(f, T) \in Nat
  BY <1>2, <1>3, SumSplit, SumType
<1>6. f[x] = 0
  BY <1>2, <1>3
<1>7. QED
  BY <1>2, <1>4, <1>5, <1>6

\* The same numbers under other names have the same sum.
LEMMA SumRenamed ==
  ASSUME NEW D, IsFiniteSet(D), NEW S, IsFiniteSet(S), NEW p \in [D -> S],
         \A j, k \in D : p[j] = p[k] => j = k,
         NEW f, NEW g, \A x \in S : g[x] \in Nat, \A k \in D : f[k] = g[p[k]]
  PROVE  SumOf(f, D) = SumOf(g, {p[k] : k \in D})
<1> DEFINE B == {K \in SUBSET D : SumOf(f, K) # SumOf(g, {p[k] : k \in K})}
<1>1. SUFFICES ASSUME B # {} PROVE FALSE
  OBVIOUS
<1>2. PICK K \in B : \A L \in B : L \subseteq K => L = K
  <2>1. B \subseteq SUBSET D
    OBVIOUS
  <2> HIDE DEF B
  <2>2. QED
    BY <1>1, <2>1, SubsetInduction
<1>3. K \in SUBSET D /\ SumOf(f, K) # SumOf(g, {p[k] : k \in K})
  BY <1>2
<1>4. K # {}
  <2>1. SUFFICES ASSUME K = {} PROVE FALSE
    OBVIOUS
  <2>2. {p[k] : k \in K} = {}
    BY <2>1
  <2>3. QED
    BY <1>3, <2>1, <2>2, SumEmpty
<1>5. PICK j \in K : TRUE
  BY <1>4
<1>6. SumOf(f, K \ {j}) = SumOf(g, {p[k] : k \in K \ {j}})
  <2>1. K \ {j} \notin B /\ K \ {j} \in SUBSET D
    BY <1>2, <1>5
  <2>2. QED
    BY <2>1
<1>7. {p[k] : k \in K} \ {p[j]} = {p[k] : k \in K \ {j}}
  BY <1>3, <1>5
<1>8. SumOf(f, K) = f[j] + SumOf(f, K \ {j})
  <2>1. \A k \in D : f[k] \in Nat
    OBVIOUS
  <2>2. QED
    BY <1>3, <1>5, <2>1, SumSplit
<1>9. SumOf(g, {p[k] : k \in K}) = g[p[j]] + SumOf(g, {p[k] : k \in K} \ {p[j]})
  <2>1. {p[k] : k \in K} \in SUBSET S /\ p[j] \in {p[k] : k \in K}
    BY <1>3, <1>5
  <2>2. QED
    BY <2>1, SumSplit
<1>10. f[j] = g[p[j]]
  BY <1>3, <1>5
<1>11. QED
  BY <1>3, <1>6, <1>7, <1>8, <1>9, <1>10

\* Changing one value changes the sum by the difference.
LEMMA SumExcept ==
  ASSUME NEW S, IsFiniteSet(S), NEW f, NEW g, NEW d \in S,
         \A x \in S : f[x] \in Nat, \A x \in S : g[x] \in Nat,
         \A x \in S : x # d => g[x] = f[x]
  PROVE  SumOf(g, S) = SumOf(f, S) - f[d] + g[d]
<1>1. S \in SUBSET S /\ S \ {d} \in SUBSET S
  OBVIOUS
<1>2. f[d] \in Nat /\ g[d] \in Nat
  OBVIOUS
<1>4. SumOf(f, S) = f[d] + SumOf(f, S \ {d}) /\ SumOf(g, S) = g[d] + SumOf(g, S \ {d})
  BY <1>1, SumSplit
<1>5. SumOf(g, S \ {d}) = SumOf(f, S \ {d})
  <2>1. IsFiniteSet(S \ {d}) /\ S \ {d} \in SUBSET (S \ {d})
    BY FS_Subset
  <2>2. QED
    BY <2>1, SumCongruent
<1>6. SumOf(f, S \ {d}) \in Nat /\ SumOf(f, S) \in Nat
  BY <1>1, SumType
<1>7. QED
  BY <1>2, <1>4, <1>5, <1>6

===============================================================================
