------------------------------ MODULE FoldProofs ------------------------------
(***************************************************************************)
(* Proofs about what the code adds up and what it reads figure by figure:  *)
(* the additions of the synchronisation test, the bytes of the kernel heap *)
(* and the time that loop makes a number of, three parts that share no     *)
(* state.  Each is proved from its own initial states and steps and for    *)
(* every value of its constants.                                           *)
(***************************************************************************)
EXTENDS TestSync, Heap, Clock,
        SequenceTheorems, FiniteSetTheorems, WellFoundedInduction, TLAPS

---------------------------------------------------------------------------
(***************************************************************************)
(* Folds over finite sets.                                                 *)
(*                                                                         *)
(* The operators that add up or read something (MapThenSumSet,             *)
(* FoldFunctionOnSet, FoldSeq, FoldLeft) are values of functions that are  *)
(* defined by recursion on a set and picked with CHOOSE: here is shown     *)
(* that there are such functions, and what the sums among them do when the *)
(* set or a value changes. The induction theorems take a predicate, which  *)
(* the provers do not instantiate. Induction is done with the least        *)
(* element of the set of counterexamples instead.                          *)
(***************************************************************************)

(* A set of naturals that is not empty has a least element.                *)
LEMMA LeastElement ==
    ASSUME NEW T \in SUBSET Nat, T # {}
    PROVE  \E i \in T : \A j \in T : i <= j
<1> DEFINE below == OpToRel(<, Nat)
<1>1. \E i \in T : \A j \in T : ~(<<j, i>> \in below)
    <2>1. IsWellFoundedOn(below, Nat)
        BY NatLessThanWellFounded
    <2> HIDE DEF below
    <2> QED BY <2>1, WFMin, Zenon
<1>2. \A i, j \in Nat : <<j, i>> \in below <=> j < i
    BY DEF OpToRel
<1> HIDE DEF below
<1>3. PICK i \in T : \A j \in T : ~(<<j, i>> \in below)
    BY <1>1
<1>4. ASSUME NEW j \in T PROVE i <= j
    <2>1. i \in Nat /\ j \in Nat
        OBVIOUS
    <2>2. ~(j < i)
        BY <1>2, <1>3, <2>1
    <2> QED BY <2>1, <2>2
<1> QED BY <1>4

(* Among sets of elements of a finite set there is a smallest one.         *)
LEMMA SmallestSet ==
    ASSUME NEW S, IsFiniteSet(S), NEW F \in SUBSET (SUBSET S), F # {}
    PROVE  \E s \in F : \A q \in F : Cardinality(s) <= Cardinality(q)
<1> DEFINE T == {Cardinality(s) : s \in F}
<1>1. \A s \in F : IsFiniteSet(s)
    BY FS_Subset
<1>2. T \in SUBSET Nat /\ T # {}
    BY <1>1, FS_CardinalityType
<1>3. \E i \in T : \A j \in T : i <= j
    <2> HIDE DEF T
    <2> QED
        BY <1>2, LeastElement
<1> QED
    BY <1>3

(* A set without one of its elements is smaller.                           *)
LEMMA Without ==
    ASSUME NEW S, IsFiniteSet(S), NEW s \in SUBSET S, NEW c \in s
    PROVE  /\ s \ {c} \in SUBSET S /\ IsFiniteSet(s)
           /\ Cardinality(s) \in Nat \ {0} /\ Cardinality(s \ {c}) = Cardinality(s) - 1
<1>1. IsFiniteSet(s)
    BY FS_Subset
<1>2. Cardinality(s) \in Nat /\ Cardinality(s) # 0
    BY <1>1, FS_CardinalityType, FS_EmptySet
<1>3. Cardinality(s \ {c}) = Cardinality(s) - 1
    BY <1>1, FS_RemoveElement
<1> QED
    BY <1>1, <1>2, <1>3

---------------------------------------------------------------------------
(* h folds with F over the sets of D, an element C[s] of s at a time.      *)
Folded(F, C, b, h, D) == [s \in D |-> IF s = {} THEN b ELSE F[<<C[s], h[s \ {C[s]}]>>]]
Small(S, n) == {s \in SUBSET S : Cardinality(s) <= n}
Chooses(C, S) == \A s \in (SUBSET S) \ {{}} : C[s] \in s
HasFold(F, C, b, V, D) == \E h \in [D -> V] : h = Folded(F, C, b, h, D)

(* There is such a function for larger and larger sets ...                 *)
LEMMA SmallFolds ==
    ASSUME NEW S, IsFiniteSet(S), NEW V, NEW b \in V, NEW F \in [S \X V -> V], NEW C,
           Chooses(C, S), NEW n \in Nat
    PROVE  HasFold(F, C, b, V, Small(S, n))
<1> DEFINE T == {k \in Nat : ~\E h \in [Small(S, k) -> V] : h = Folded(F, C, b, h, Small(S, k))}
<1>1. T = {}
  <2> SUFFICES ASSUME T # {} PROVE FALSE
    OBVIOUS
  <2>1. PICK m \in T : \A j \in T : m <= j
    <3>1. T \in SUBSET Nat
      OBVIOUS
    <3> HIDE DEF T
    <3> QED
      BY <3>1, LeastElement
  <2>2. m \in Nat /\ ~\E h \in [Small(S, m) -> V] : h = Folded(F, C, b, h, Small(S, m))
    OBVIOUS
  <2>3. PICK h : m # 0 => h \in [Small(S, m - 1) -> V] /\ h = Folded(F, C, b, h, Small(S, m - 1))
    <3>1. CASE m = 0
      BY <3>1
    <3>2. CASE m # 0
      <4>1. m - 1 \in Nat /\ ~(m <= m - 1)
        BY <3>2, <2>2
      <4>2. m - 1 \notin T
        BY <4>1, <2>1
      <4> QED
        BY <4>1, <4>2
    <3> QED
      BY <3>1, <3>2
  <2> DEFINE g == Folded(F, C, b, h, Small(S, m))
  <2>4. ASSUME NEW s \in Small(S, m), s # {}
        PROVE  LET q == s \ {C[s]} IN C[s] \in S /\ h[q] \in V /\ h[q] = g[q]
    <3> DEFINE c == C[s]
               q == s \ {C[s]}
    <3>1. s \in SUBSET S /\ Cardinality(s) <= m /\ c \in s
      BY <2>4 DEF Small, Chooses
    <3>2. /\ q \in SUBSET S /\ Cardinality(s) \in Nat \ {0}
          /\ Cardinality(q) = Cardinality(s) - 1
      <4>1. q = s \ {c}
        OBVIOUS
      <4> HIDE DEF c, q
      <4> QED
        BY <3>1, <4>1, Without
    <3> HIDE DEF q
    <3>3. m # 0 /\ Cardinality(q) <= m - 1 /\ Cardinality(q) <= m
      BY <3>1, <3>2, <2>2
    <3>4. q \in Small(S, m - 1) /\ q \in Small(S, m)
      BY <3>2, <3>3 DEF Small
    <3>5. h \in [Small(S, m - 1) -> V] /\ h = Folded(F, C, b, h, Small(S, m - 1))
      BY <3>3, <2>3
    <3> DEFINE v == IF q = {} THEN b ELSE F[<<C[q], h[q \ {C[q]}]>>]
    <3>6. h[q] = v
      <4>1. Folded(F, C, b, h, Small(S, m - 1))[q] = v
        BY <3>4 DEF Folded
      <4> HIDE DEF v
      <4> QED
        BY <4>1, <3>5
    <3>7. g[q] = v
      BY <3>4 DEF Folded
    <3> HIDE DEF v
    <3>8. h[q] \in V
      BY <3>4, <3>5
    <3> QED
      BY <3>1, <3>6, <3>7, <3>8 DEF q, c
  <2>5. Folded(F, C, b, h, Small(S, m)) = Folded(F, C, b, g, Small(S, m))
    <3> HIDE DEF g
    <3> QED
      BY <2>4 DEF Folded
  <2>6. g \in [Small(S, m) -> V]
    <3>1. \A s \in Small(S, m) : s # {} => F[<<C[s], h[s \ {C[s]}]>>] \in V
      BY <2>4
    <3> QED
      BY <3>1 DEF Folded
  <2> QED
    BY <2>2, <2>5, <2>6
<1> QED
    BY <1>1 DEF HasFold

(* ... and for all.                                                        *)
LEMMA FoldExists ==
    ASSUME NEW S, IsFiniteSet(S), NEW V, NEW b \in V, NEW F \in [S \X V -> V], NEW C,
           Chooses(C, S)
    PROVE  HasFold(F, C, b, V, SUBSET S)
<1>1. Cardinality(S) \in Nat
    BY FS_CardinalityType
<1>2. Small(S, Cardinality(S)) = SUBSET S
    BY FS_Subset DEF Small
<1> DEFINE n == Cardinality(S)
<1>3. n \in Nat
    BY <1>1
<1> HIDE DEF n
<1>4. HasFold(F, C, b, V, Small(S, n))
    BY <1>3, SmallFolds, Zenon
<1> QED
    BY <1>2, <1>4 DEF n

---------------------------------------------------------------------------
(* Sums, of the values f has on a set.                                     *)
Chosen(s) == CHOOSE x \in s : TRUE
Summed(f, h, D) == [s \in D |-> IF s = {} THEN 0 ELSE f[Chosen(s)] + h[s \ {Chosen(s)}]]
Sum(f, S) == (CHOOSE h : h = Summed(f, h, SUBSET S))[S]

IsSum(h, f, S) == /\ h \in [SUBSET S -> Int]
                  /\ \A s \in SUBSET S :
                        h[s] = IF s = {} THEN 0 ELSE f[Chosen(s)] + h[s \ {Chosen(s)}]

(* There are such functions,                                               *)
LEMMA SumExists ==
    ASSUME NEW S, IsFiniteSet(S), NEW f, \A x \in S : f[x] \in Int
    PROVE  \E g : IsSum(g, f, S) /\ g = Summed(f, g, SUBSET S)
<1> DEFINE C == [s \in SUBSET S |-> Chosen(s)]
           F == [p \in S \X Int |-> f[p[1]] + p[2]]
<1>1. \A s \in (SUBSET S) \ {{}} : C[s] \in s /\ C[s] = Chosen(s)
    BY DEF Chosen
<1>2. F \in [S \X Int -> Int]
    OBVIOUS
<1>3. \A x \in S, y \in Int : F[<<x, y>>] = f[x] + y
    OBVIOUS
<1> HIDE DEF C, F
<1>4. PICK g \in [SUBSET S -> Int] : g = Folded(F, C, 0, g, SUBSET S)
  <2>1. 0 \in Int /\ Chooses(C, S)
    BY <1>1 DEF Chooses
  <2>2. HasFold(F, C, 0, Int, SUBSET S)
    BY <2>1, <1>2, FoldExists, Zenon
  <2> QED
    BY <2>2 DEF HasFold
<1>5. ASSUME NEW s \in SUBSET S
      PROVE  g[s] = IF s = {} THEN 0 ELSE f[Chosen(s)] + g[s \ {Chosen(s)}]
  <2> DEFINE v == IF s = {} THEN 0 ELSE F[<<C[s], g[s \ {C[s]}]>>]
  <2>1. Folded(F, C, 0, g, SUBSET S)[s] = v
    BY DEF Folded
  <2>2. g[s] = v
    <3> HIDE DEF v
    <3> QED
      BY <1>4, <2>1
  <2>3. CASE s = {}
    BY <2>2, <2>3
  <2>4. CASE s # {}
    <3>1. C[s] = Chosen(s) /\ C[s] \in S /\ g[s \ {C[s]}] \in Int
      BY <2>4, <1>1
    <3> QED
      BY <2>2, <2>4, <3>1, <1>3
  <2> QED
    BY <2>3, <2>4
<1>6. g = Summed(f, g, SUBSET S)
    BY <1>5 DEF Summed
<1> QED
    BY <1>4, <1>5, <1>6 DEF IsSum

(* and what satisfies the equation is one of them.                         *)
LEMMA IsTheSum ==
    ASSUME NEW S, IsFiniteSet(S), NEW f, \A x \in S : f[x] \in Int,
           NEW h, h = Summed(f, h, SUBSET S)
    PROVE  IsSum(h, f, S)
<1>4. PICK g : IsSum(g, f, S)
    BY SumExists
<1>5. ASSUME NEW s \in SUBSET S
      PROVE  g[s] = IF s = {} THEN 0 ELSE f[Chosen(s)] + g[s \ {Chosen(s)}]
    BY <1>4 DEF IsSum
<1>9. \A s \in SUBSET S : h[s] = IF s = {} THEN 0 ELSE f[Chosen(s)] + h[s \ {Chosen(s)}]
  <2> SUFFICES ASSUME NEW s \in SUBSET S
               PROVE  h[s] = IF s = {} THEN 0 ELSE f[Chosen(s)] + h[s \ {Chosen(s)}]
    OBVIOUS
  <2> DEFINE v == IF s = {} THEN 0 ELSE f[Chosen(s)] + h[s \ {Chosen(s)}]
  <2>1. Summed(f, h, SUBSET S)[s] = v
    BY DEF Summed
  <2> HIDE DEF v
  <2>2. h[s] = v
    BY <2>1
  <2> QED
    BY <2>2 DEF v
<1>10. DOMAIN h = SUBSET S /\ h = [s \in DOMAIN h |-> h[s]]
  <2>1. DOMAIN Summed(f, h, SUBSET S) = SUBSET S
    BY DEF Summed
  <2>2. Summed(f, h, SUBSET S) = [s \in DOMAIN Summed(f, h, SUBSET S) |-> Summed(f, h, SUBSET S)[s]]
    BY DEF Summed
  <2> QED
    BY <2>1, <2>2
<1>11. \A s \in SUBSET S : h[s] = g[s]
  <2> DEFINE Bad == {s \in SUBSET S : h[s] # g[s]}
  <2> SUFFICES ASSUME Bad # {} PROVE FALSE
    OBVIOUS
  <2>1. PICK s \in Bad : \A q \in Bad : Cardinality(s) <= Cardinality(q)
    <3>1. Bad \in SUBSET (SUBSET S)
      OBVIOUS
    <3> HIDE DEF Bad
    <3> QED
      BY <3>1, SmallestSet
  <2>2. s \in SUBSET S /\ h[s] # g[s]
    OBVIOUS
  <2>3. s # {}
    BY <2>2, <1>5, <1>9
  <2> DEFINE q == s \ {Chosen(s)}
  <2>4. Chosen(s) \in s
    BY <2>3 DEF Chosen
  <2>5. q \in SUBSET S /\ ~(Cardinality(s) <= Cardinality(q))
    BY <2>2, <2>4, Without
  <2>6. h[q] = g[q]
    BY <2>1, <2>5
  <2> QED
    BY <2>2, <2>3, <2>6, <1>5, <1>9
<1>12. h \in [SUBSET S -> Int]
    BY <1>4, <1>10, <1>11 DEF IsSum
<1> QED
    BY <1>9, <1>12 DEF IsSum

(* Sum picks one of them.                                                  *)
LEMMA SumOf ==
    ASSUME NEW S, IsFiniteSet(S), NEW f, \A x \in S : f[x] \in Int
    PROVE  \E h : IsSum(h, f, S) /\ Sum(f, S) = h[S]
<1> DEFINE h == CHOOSE k : k = Summed(f, k, SUBSET S)
<1>1. h = Summed(f, h, SUBSET S)
    BY SumExists
<1>2. Sum(f, S) = h[S]
    BY DEF Sum
<1> HIDE DEF h
<1> QED
    BY <1>1, <1>2, IsTheSum

(* What is chosen first does not matter.                                   *)
Orderless(h, f, S) == \A s \in SUBSET S : \A c \in s : h[s] = f[c] + h[s \ {c}]

(* Any element may be added first: the sum over a set is any of its values *)
(* and the sum over the rest.                                              *)
LEMMA AnyFirst ==
    ASSUME NEW S, IsFiniteSet(S), NEW f, \A x \in S : f[x] \in Int, NEW h, IsSum(h, f, S)
    PROVE  Orderless(h, f, S)
<1> DEFINE Bad == {s \in SUBSET S : \E c \in s : h[s] # f[c] + h[s \ {c}]}
<1> SUFFICES ASSUME Bad # {} PROVE FALSE
    BY DEF Orderless
<1>1. PICK s \in Bad : \A q \in Bad : Cardinality(s) <= Cardinality(q)
  <2>1. Bad \in SUBSET (SUBSET S)
    OBVIOUS
  <2> HIDE DEF Bad
  <2> QED
    BY <2>1, SmallestSet
<1>2. PICK c \in s : h[s] # f[c] + h[s \ {c}]
    OBVIOUS
<1> DEFINE d == Chosen(s)
<1>3. s \in SUBSET S /\ d \in s /\ h[s] = f[d] + h[s \ {d}]
    BY <1>2 DEF Chosen, IsSum
<1> HIDE DEF d
<1>4. c # d
    BY <1>2, <1>3
<1>5. ASSUME NEW x \in s, NEW y \in s \ {x}
      PROVE  h[s \ {x}] = f[y] + h[(s \ {x}) \ {y}]
  <2>1. s \ {x} \in SUBSET S /\ ~(Cardinality(s) <= Cardinality(s \ {x}))
    BY <1>3, Without
  <2> QED
    BY <1>1, <2>1
<1>6. h[s \ {d}] = f[c] + h[(s \ {d}) \ {c}] /\ h[s \ {c}] = f[d] + h[(s \ {c}) \ {d}]
    BY <1>3, <1>4, <1>5
<1>7. (s \ {d}) \ {c} = (s \ {c}) \ {d}
    OBVIOUS
<1>8. h[(s \ {c}) \ {d}] \in Int /\ f[c] \in Int /\ f[d] \in Int
    BY <1>3 DEF IsSum
<1> DEFINE r == h[(s \ {c}) \ {d}]
<1>9. h[s] = f[d] + (f[c] + r) /\ h[s \ {c}] = f[d] + r /\ r \in Int
    BY <1>3, <1>6, <1>7, <1>8
<1> HIDE DEF r
<1> QED
    BY <1>2, <1>8, <1>9

(* The sums of functions with the same values are the same.                *)
SameOn(g, f, T) == \A x \in T : g[x] = f[x]

(* The sum over a part does not depend on what the set around it holds.    *)
LEMMA SameSums ==
    ASSUME NEW S, IsFiniteSet(S), NEW f, NEW g, NEW T \in SUBSET S,
           \A x \in S : f[x] \in Int, SameOn(g, f, T),
           NEW h, IsSum(h, f, S), NEW k, IsSum(k, g, T)
    PROVE  SameOn(k, h, SUBSET T)
<1> DEFINE Bad == {s \in SUBSET T : k[s] # h[s]}
<1> SUFFICES ASSUME Bad # {} PROVE FALSE
    BY DEF SameOn
<1>1. PICK s \in Bad : \A q \in Bad : Cardinality(s) <= Cardinality(q)
  <2>1. Bad \in SUBSET (SUBSET S)
    OBVIOUS
  <2> HIDE DEF Bad
  <2> QED
    BY <2>1, SmallestSet
<1>2. s \in SUBSET T /\ s \in SUBSET S /\ k[s] # h[s]
    OBVIOUS
<1>3. s # {}
    BY <1>2 DEF IsSum
<1> DEFINE c == Chosen(s)
<1>4. c \in s
    BY <1>3 DEF Chosen
<1>5. s \ {c} \in SUBSET T /\ ~(Cardinality(s) <= Cardinality(s \ {c}))
    BY <1>2, <1>4, Without
<1>6. k[s \ {c}] = h[s \ {c}]
    BY <1>1, <1>5
<1>7. k[s] = g[c] + k[s \ {c}] /\ h[s] = f[c] + h[s \ {c}]
    BY <1>2, <1>3 DEF IsSum
<1> HIDE DEF c
<1> QED
    BY <1>2, <1>4, <1>6, <1>7 DEF SameOn

(* A sum is an integer, that of nothing 0, and every summand counts once.  *)
LEMMA SumType ==
    ASSUME NEW S, IsFiniteSet(S), NEW f, \A x \in S : f[x] \in Int
    PROVE  Sum(f, S) \in Int
<1>1. PICK h : IsSum(h, f, S) /\ Sum(f, S) = h[S]
    BY SumOf
<1> QED
    BY <1>1 DEF IsSum

(* Nothing adds up to 0.                                                   *)
LEMMA SumEmpty ==
    ASSUME NEW f
    PROVE  Sum(f, {}) = 0
<1>1. IsFiniteSet({})
    BY FS_EmptySet
<1>2. PICK h : IsSum(h, f, {}) /\ Sum(f, {}) = h[{}]
    BY <1>1, SumOf
<1> QED
    BY <1>2 DEF IsSum

(* A sum is any one of its values and the sum over the rest.               *)
LEMMA SumWithout ==
    ASSUME NEW S, IsFiniteSet(S), NEW f, \A x \in S : f[x] \in Int, NEW c \in S
    PROVE  Sum(f, S) = f[c] + Sum(f, S \ {c})
<1>1. PICK h : IsSum(h, f, S) /\ Sum(f, S) = h[S]
    BY SumOf
<1>2. IsFiniteSet(S \ {c})
    BY FS_Subset
<1>3. PICK k : IsSum(k, f, S \ {c}) /\ Sum(f, S \ {c}) = k[S \ {c}]
    BY <1>2, SumOf
<1>4. h[S] = f[c] + h[S \ {c}]
  <2>1. Orderless(h, f, S)
    BY <1>1, AnyFirst, Zenon
  <2>2. S \in SUBSET S
    OBVIOUS
  <2> QED
    BY <2>1, <2>2 DEF Orderless
<1>5. k[S \ {c}] = h[S \ {c}]
  <2> DEFINE T == S \ {c}
  <2>1. T \in SUBSET S /\ T \in SUBSET T /\ IsSum(k, f, T) /\ SameOn(f, f, T)
    BY <1>3 DEF SameOn
  <2> HIDE DEF T
  <2>2. SameOn(k, h, SUBSET T)
    BY <1>1, <2>1, SameSums, Zenon
  <2> QED
    BY <2>1, <2>2 DEF T, SameOn
<1> QED
    BY <1>1, <1>3, <1>4, <1>5

(* Functions that agree on a set have the same sum over it.                *)
LEMMA SumSame ==
    ASSUME NEW S, IsFiniteSet(S), NEW f, NEW g, \A x \in S : f[x] \in Int /\ g[x] = f[x]
    PROVE  Sum(g, S) = Sum(f, S)
<1>1. PICK h : IsSum(h, f, S) /\ Sum(f, S) = h[S]
    BY SumOf
<1>2. PICK k : IsSum(k, g, S) /\ Sum(g, S) = k[S]
    BY SumOf
<1>3. S \in SUBSET S /\ SameOn(g, f, S)
    BY DEF SameOn
<1>4. SameOn(k, h, SUBSET S)
    BY <1>1, <1>2, <1>3, SameSums, Zenon
<1> QED
    BY <1>1, <1>2, <1>3, <1>4 DEF SameOn

(* The sum is the value of whatever satisfies the equation.                *)
LEMMA SumIs ==
    ASSUME NEW S, IsFiniteSet(S), NEW f, \A x \in S : f[x] \in Int,
           NEW k, k = Summed(f, k, SUBSET S)
    PROVE  Sum(f, S) = k[S]
<1>1. PICK h : IsSum(h, f, S) /\ Sum(f, S) = h[S]
    BY SumOf
<1>2. IsSum(k, f, S)
    BY IsTheSum
<1>3. S \in SUBSET S /\ SameOn(f, f, S)
    BY DEF SameOn
<1>4. SameOn(k, h, SUBSET S)
    BY <1>1, <1>2, <1>3, SameSums, Zenon
<1> QED
    BY <1>1, <1>3, <1>4 DEF SameOn

(* One value that grows by d makes the sum grow by d.                      *)
LEMMA SumOneMore ==
    ASSUME NEW S, IsFiniteSet(S), NEW f, NEW g, \A x \in S : f[x] \in Int, NEW w \in S, NEW d \in Int,
           \A x \in S : g[x] = IF x = w THEN f[x] + d ELSE f[x]
    PROVE  Sum(g, S) = Sum(f, S) + d
<1>1. \A x \in S : g[x] \in Int
    OBVIOUS
<1>2. Sum(f, S) = f[w] + Sum(f, S \ {w}) /\ Sum(g, S) = g[w] + Sum(g, S \ {w})
    BY <1>1, SumWithout
<1>3. IsFiniteSet(S \ {w})
    BY FS_Subset
<1>4. Sum(g, S \ {w}) = Sum(f, S \ {w}) /\ Sum(f, S \ {w}) \in Int
    BY <1>3, SumSame, SumType
<1> QED
    BY <1>2, <1>4

(* The sum of naturals is a natural, that of zeros is 0.                   *)
LEMMA SumNat ==
    ASSUME NEW S, IsFiniteSet(S), NEW f, \A x \in S : f[x] \in Nat
    PROVE  /\ Sum(f, S) \in Nat
           /\ (\A x \in S : f[x] = 0) => Sum(f, S) = 0
<1> DEFINE Good(s) == Sum(f, s) \in Nat /\ ((\A x \in S : f[x] = 0) => Sum(f, s) = 0)
           Bad == {s \in SUBSET S : ~Good(s)}
<1>1. Bad = {}
  <2> SUFFICES ASSUME Bad # {} PROVE FALSE
    OBVIOUS
  <2>1. PICK s \in Bad : \A q \in Bad : Cardinality(s) <= Cardinality(q)
    <3>1. Bad \in SUBSET (SUBSET S)
      OBVIOUS
    <3> HIDE DEF Bad
    <3> QED
      BY <3>1, SmallestSet
  <2>2. s \in SUBSET S /\ ~Good(s)
    <3> HIDE DEF Good
    <3> QED
      OBVIOUS
  <2>3. s # {}
    BY <2>2, SumEmpty
  <2>4. PICK c \in s : TRUE
    BY <2>3
  <2>5. s \ {c} \in SUBSET S /\ ~(Cardinality(s) <= Cardinality(s \ {c})) /\ IsFiniteSet(s)
    <3> HIDE DEF Good, Bad
    <3>1. s \in SUBSET S
      BY <2>2
    <3> QED
      BY <3>1, <2>4, Without
  <2>6. Good(s \ {c})
    <3> HIDE DEF Good
    <3> QED
      BY <2>1, <2>5
  <2>7. Sum(f, s) = f[c] + Sum(f, s \ {c})
    BY <2>2, <2>5, SumWithout
  <2>8. f[c] \in Nat
    BY <2>2
  <2> HIDE DEF Bad
  <2> QED
    BY <2>2, <2>6, <2>7, <2>8
<1>2. Good(S)
  <2> HIDE DEF Good
  <2> QED
    BY <1>1
<1> QED
    BY <1>2

(* A sum can be taken over what the elements of a set are mapped to, if no *)
(* two of them are mapped to the same.                                     *)
Image(g, S) == {g[x] : x \in S}

(* There are no more values than there are arguments.                      *)
LEMMA ImageFinite ==
    ASSUME NEW S, IsFiniteSet(S), NEW g
    PROVE  IsFiniteSet(Image(g, S))
<1> DEFINE m == [x \in S |-> g[x]]
           T == Image(g, S)
<1>1. m \in Surjection(S, T)
  BY DEF Surjection, Image
<1> HIDE DEF m, T
<1>2. IsFiniteSet(T)
  BY <1>1, FS_Surjection
<1> QED
  BY <1>2 DEF T

(* Adding up f over the values of an injective g is adding up f[g[x]] over *)
(* what g is applied to.                                                   *)
LEMMA SumImage ==
    ASSUME NEW S, IsFiniteSet(S), NEW g, \A x, y \in S : g[x] = g[y] => x = y,
           NEW f, \A x \in S : f[g[x]] \in Int, NEW e, \A x \in S : e[x] = f[g[x]]
    PROVE  IsFiniteSet(Image(g, S)) /\ Sum(e, S) = Sum(f, Image(g, S))
<1> DEFINE Bad == {s \in SUBSET S : Sum(e, s) # Sum(f, Image(g, s))}
<1>1. \A s \in SUBSET S : IsFiniteSet(s) /\ IsFiniteSet(Image(g, s))
  <2> SUFFICES ASSUME NEW s \in SUBSET S PROVE IsFiniteSet(s) /\ IsFiniteSet(Image(g, s))
    OBVIOUS
  <2>1. IsFiniteSet(s)
    BY FS_Subset
  <2> QED
    BY <2>1, ImageFinite
<1>2. Bad = {}
  <2> SUFFICES ASSUME Bad # {} PROVE FALSE
    OBVIOUS
  <2>1. PICK s \in Bad : \A q \in Bad : Cardinality(s) <= Cardinality(q)
    <3>1. Bad \in SUBSET (SUBSET S)
      OBVIOUS
    <3> HIDE DEF Bad
    <3> QED
      BY <3>1, SmallestSet
  <2>2. s \in SUBSET S /\ Sum(e, s) # Sum(f, Image(g, s))
    OBVIOUS
  <2>3. s # {}
    BY <2>2, SumEmpty DEF Image
  <2>4. PICK c \in s : TRUE
    BY <2>3
  <2> DEFINE q == s \ {c}
  <2>5. q \in SUBSET S /\ ~(Cardinality(s) <= Cardinality(q)) /\ IsFiniteSet(s)
    <3>1. s \in SUBSET S
      BY <2>2
    <3> HIDE DEF Bad
    <3>2. /\ s \ {c} \in SUBSET S /\ IsFiniteSet(s)
          /\ Cardinality(s) \in Nat \ {0} /\ Cardinality(s \ {c}) = Cardinality(s) - 1
      BY <3>1, <2>4, Without, <1>1
    <3> QED
      BY <3>2
  <2>6. Sum(e, q) = Sum(f, Image(g, q))
    BY <2>1, <2>5
  <2> HIDE DEF Bad
  <2>7. Sum(e, s) = e[c] + Sum(e, q)
    <3>1. \A x \in s : e[x] \in Int
      BY <2>2
    <3> QED
      BY <2>4, <2>5, <3>1, SumWithout, ZenonT(60)
  <2>8. Image(g, s) \ {g[c]} = Image(g, q) /\ g[c] \in Image(g, s)
    BY <2>2, <2>4 DEF Image
  <2>9. Sum(f, Image(g, s)) = f[g[c]] + Sum(f, Image(g, s) \ {g[c]})
    <3> DEFINE I == Image(g, s)
               d == g[c]
    <3>1. IsFiniteSet(I) /\ d \in I /\ \A y \in I : f[y] \in Int
      BY <1>1, <2>2, <2>8, ZenonT(60) DEF Image
    <3> HIDE DEF I, d
    <3>2. Sum(f, I) = f[d] + Sum(f, I \ {d})
      BY <3>1, SumWithout
    <3> QED
      BY <3>2 DEF I, d
  <2> QED
    BY <2>2, <2>4, <2>6, <2>7, <2>8, <2>9
<1> QED
    BY <1>1, <1>2

---------------------------------------------------------------------------
(***************************************************************************)
(* TestSync.                                                               *)
(*                                                                         *)
(* For any number of pairs, any number of additions and any pids: no       *)
(* addition is lost with the semaphore (UpdatesKept), and nobody sleeps    *)
(* for a unit that is free (SleepersServed). Added is a sum over the       *)
(* children.                                                               *)
(***************************************************************************)

(* The test as it runs, without fairness: the theorems assume no more.     *)
SyncSpec == SyncInit /\ [][SyncNext]_syncVars

(* Where a child can be.                                                   *)
Places == {"none", "open", "wait", "read", "write", "post", "close", "done"}

(* Who has the unit, and who has the semaphore open.                       *)
Holds(w) == worker[w].at \in {"read", "write", "post"}
Uses(w)  == worker[w].at \in {"wait", "read", "write", "post", "close"}

(* A child has the pid SEM_ID: the parent may have taken its unit for good.*)
ParentTook == parent.at # "create" /\ \E w \in Workers : pids(w) = SEM_ID

(* Where everybody can be, and how far.                                    *)
WorkersTyped ==
    /\ worker \in [Workers -> [at : Places, aux : Int, i : 0..Increments]]
    /\ \A w \in Workers :
        /\ worker[w].at \in {"none", "open", "wait", "read", "write"} => worker[w].i < Increments
        /\ parent.at = "create" /\ w >= parent.i => worker[w].at = "none"
    /\ parent \in [at : {"create", "join", "asleep", "printed"}, i : Workers]
    /\ parent.at = "asleep" => pids(parent.i) = SEM_ID
    /\ use_sem \in BOOLEAN /\ global \in Int

(* Without the semaphore nobody touches it.                                *)
Unused == sync = SyncClosed /\ \A w \in Workers : worker[w].at \in {"none", "read", "write", "done"}

(* The semaphore while it is used.                                         *)
SyncTyped ==
    /\ sync \in [value : 0..1, queue : Seq(Workers \cup {Parent}), active : SUBSET Workers]
    /\ \A w \in Workers : w \in sync.active <=> Uses(w)
    /\ ~Open => sync = SyncClosed

(* Who sleeps does so once, and is where it went to sleep.                 *)
Sleeping ==
    /\ \A j, k \in 1..Len(sync.queue) : sync.queue[j] = sync.queue[k] => j = k
    /\ \A k \in 1..Len(sync.queue) :
        IF sync.queue[k] = Parent THEN parent.at = "asleep" ELSE worker[sync.queue[k]].at = "wait"

(* There is one unit: free, with one of the children, or taken.            *)
OneUnit ==
    /\ \A v, w \in Workers : Holds(v) /\ Holds(w) => v = w
    /\ sync.value = 1 => sync.queue = <<>> /\ \A w \in Workers : ~Holds(w)
    /\ Open => sync.value = 1 \/ ParentTook \/ \E w \in Workers : Holds(w)

(* Nobody wrote since the holder read.                                     *)
ReadIsFresh == \A w \in Workers : worker[w].at = "write" => worker[w].aux = global

(* The inductive invariant. The number is what the children added because  *)
(* nobody wrote since the holder of the unit read (ReadIsFresh), which     *)
(* needs the one unit.                                                     *)
SyncInv ==
    /\ WorkersTyped
    /\ ~use_sem => Unused
    /\ use_sem => SyncTyped /\ Sleeping /\ OneUnit /\ ReadIsFresh /\ global = Added

---------------------------------------------------------------------------
(* There are finitely many children, and the parent is none.               *)
LEMMA SyncFacts ==
    /\ TOTAL_PAIR_PROCESSES \in Nat \ {0} /\ Increments \in Nat \ {0}
    /\ Workers \subseteq Nat /\ 1 \in Workers /\ Parent \notin Workers /\ IsFiniteSet(Workers)
    /\ \A w \in Workers : w # 2 * TOTAL_PAIR_PROCESSES => w + 1 \in Workers
    /\ \A w \in Workers : inc(w) \in {-1, 1}
<1>1. TOTAL_PAIR_PROCESSES \in Nat \ {0} /\ Increments \in Nat \ {0}
    BY TestSyncAssumption
<1>2. IsFiniteSet(Workers)
    BY <1>1, FS_Interval DEF Workers
<1> QED
    BY <1>1, <1>2 DEF Workers, Parent, inc

(* What the children added, as a sum; FoldFunctionOnSet computes it so.    *)
Summand(wk) == [w \in Workers |-> inc(w) * wk[w].i]

(* Added of TestSync is the sum of the summands.                           *)
LEMMA AddedIsSum ==
    /\ Added = Sum(Summand(worker), Workers)
    /\ Added' = Sum(Summand(worker'), Workers)
BY DEF Added, Summand, FoldFunctionOnSet, MapThenFoldSet, Sum, Summed, Chosen

(* Who adds nothing leaves the sum.                                        *)
LEMMA AddedSame ==
    ASSUME \A w \in Workers : worker'[w].i = worker[w].i
    PROVE  Added' = Added
<1>1. Summand(worker') = Summand(worker)
    BY DEF Summand
<1> QED
    BY <1>1, AddedIsSum

(* A child that adds once more adds inc(w) to the sum.                     *)
LEMMA AddedOneMore ==
    ASSUME NEW w \in Workers, WorkersTyped,
           \A v \in Workers : worker'[v].i = IF v = w THEN worker[v].i + 1 ELSE worker[v].i
    PROVE  Added' = Added + inc(w)
<1> DEFINE f1 == Summand(worker)
           f2 == Summand(worker')
<1>1. ASSUME NEW v \in Workers
      PROVE  /\ inc(v) * worker[v].i \in Int /\ inc(v) * worker'[v].i \in Int
             /\ inc(v) * worker'[v].i = IF v = w THEN inc(v) * worker[v].i + inc(w)
                                        ELSE inc(v) * worker[v].i
  <2>1. worker[v].i \in Int
    BY SyncFacts DEF WorkersTyped
  <2>2. CASE inc(v) = 1
    BY <2>1, <2>2
  <2>3. CASE inc(v) = -1
    BY <2>1, <2>3
  <2> QED
    BY <2>2, <2>3, SyncFacts
<1>2. \A v \in Workers : f1[v] \in Int
    BY <1>1 DEF Summand
<1>3. \A v \in Workers : f2[v] = IF v = w THEN f1[v] + inc(w) ELSE f1[v]
    BY <1>1 DEF Summand
<1>4. inc(w) \in Int /\ IsFiniteSet(Workers)
    BY SyncFacts
<1> HIDE DEF f1, f2
<1>5. Sum(f2, Workers) = Sum(f1, Workers) + inc(w)
    BY <1>2, <1>3, <1>4, SumOneMore
<1> QED
    BY <1>5, AddedIsSum DEF f1, f2

(* Nothing was added in the beginning.                                     *)
LEMMA AddedNothing ==
    ASSUME \A w \in Workers : worker[w].i = 0
    PROVE  Added = 0
<1> DEFINE f == Summand(worker)
<1>1. \A w \in Workers : inc(w) * worker[w].i = 0
    BY SyncFacts
<1>2. \A w \in Workers : f[w] = 0 /\ f[w] \in Nat
    BY <1>1 DEF Summand
<1>3. IsFiniteSet(Workers)
    BY SyncFacts
<1> HIDE DEF f
<1>4. Sum(f, Workers) = 0
    BY <1>2, <1>3, SumNat
<1> QED
    BY <1>4, AddedIsSum DEF f

---------------------------------------------------------------------------
(* In the beginning nobody added anything.                                 *)
LEMMA SyncInitInv ==
    ASSUME SyncInit
    PROVE  SyncInv
<1> USE DEF SyncInit
<1>1. \A w \in Workers : worker[w] = [at |-> "none", aux |-> 0, i |-> 0]
    OBVIOUS
<1>2. WorkersTyped
    BY <1>1, SyncFacts DEF WorkersTyped, Places
<1>3. Unused
    BY <1>1 DEF Unused
<1>4. SyncTyped
    BY <1>1 DEF SyncTyped, SyncClosed, Uses
<1>5. Sleeping /\ OneUnit /\ ReadIsFresh
    BY <1>1 DEF Sleeping, OneUnit, ReadIsFresh, SyncClosed, Holds, Open
<1>6. global = Added
    BY <1>1, AddedNothing
<1> QED
    BY <1>2, <1>3, <1>4, <1>5, <1>6 DEF SyncInv

(* A new child uses nothing yet.                                           *)
LEMMA CreateWorkerKeeps ==
    ASSUME SyncInv, CreateWorker
    PROVE  SyncInv'
<1> DEFINE w == parent.i
           place == IF use_sem THEN "open" ELSE "read"
<1>1. /\ parent.at = "create" /\ worker' = [worker EXCEPT ![w].at = place]
      /\ parent' = IF w = 2 * TOTAL_PAIR_PROCESSES THEN [at |-> "join", i |-> 1]
                   ELSE [parent EXCEPT !.i = w + 1]
      /\ use_sem' = use_sem /\ firstPid' = firstPid /\ global' = global /\ sync' = sync
    BY DEF CreateWorker, Go
<1>2. WorkersTyped /\ w \in Workers /\ worker[w].at = "none" /\ w \in Nat
    BY <1>1, SyncFacts DEF SyncInv, WorkersTyped
<1>3. \A v \in Workers : worker'[v] = IF v = w THEN [worker[w] EXCEPT !.at = place] ELSE worker[v]
    BY <1>1, <1>2 DEF WorkersTyped
<1>4. parent' \in [at : {"create", "join", "asleep", "printed"}, i : Workers]
      /\ parent'.at \in {"create", "join"} /\ (parent'.at = "create" => parent'.i = w + 1)
  <2>1. CASE w = 2 * TOTAL_PAIR_PROCESSES
    BY <2>1, <1>1, SyncFacts
  <2>2. CASE w # 2 * TOTAL_PAIR_PROCESSES
    <3>1. w + 1 \in Workers /\ parent \in [at : {"create", "join", "asleep", "printed"}, i : Workers]
      BY <2>2, <1>2, SyncFacts DEF WorkersTyped
    <3>2. parent' = [parent EXCEPT !.i = w + 1]
      BY <2>2, <1>1
    <3> QED
      BY <3>1, <3>2, <1>1
  <2> QED
    BY <2>1, <2>2
<1> HIDE DEF place
<1>5. place \in Places /\ place \in {"open", "read"} /\ (use_sem => place = "open") /\ (~use_sem => place = "read")
    BY DEF place, Places
<1>6. WorkersTyped'
  <2>1. worker' \in [Workers -> [at : Places, aux : Int, i : 0..Increments]]
    BY <1>1, <1>2, <1>5 DEF WorkersTyped
  <2>2. ASSUME NEW v \in Workers
        PROVE  /\ worker'[v].at \in {"none", "open", "wait", "read", "write"} => worker'[v].i < Increments
               /\ parent'.at = "create" /\ v >= parent'.i => worker'[v].at = "none"
    <3>1. v \in Nat
      BY SyncFacts
    <3> QED
      BY <3>1, <1>1, <1>2, <1>3, <1>4 DEF WorkersTyped
  <2> QED
    BY <2>1, <2>2, <1>1, <1>2, <1>4 DEF WorkersTyped
<1>7. ASSUME ~use_sem PROVE Unused'
    BY <1>7, <1>1, <1>3, <1>5, <1>2 DEF SyncInv, Unused, WorkersTyped
<1>8. ASSUME use_sem PROVE (SyncTyped /\ Sleeping /\ OneUnit /\ ReadIsFresh /\ global = Added)'
  <2> USE DEF SyncInv
  <2>1. \A v \in Workers : (Uses(v)' <=> Uses(v)) /\ (Holds(v)' <=> Holds(v))
                           /\ (v # w => worker'[v] = worker[v]) /\ worker'[w].at = "open"
    BY <1>8, <1>3, <1>5, <1>2 DEF Uses, Holds, WorkersTyped
  <2>2. SyncTyped'
    BY <1>8, <2>1, <1>1 DEF SyncTyped, Open
  <2>3. Sleeping'
    <3>1. ASSUME NEW k \in 1..Len(sync.queue)
          PROVE  IF sync.queue[k] = Parent THEN parent'.at = "asleep" ELSE worker'[sync.queue[k]].at = "wait"
      <4>1. sync.queue[k] \in Workers \cup {Parent}
        BY <1>8 DEF SyncTyped
      <4> QED
        BY <4>1, <1>8, <1>1, <1>2, <2>1 DEF Sleeping
    <3> QED
      BY <3>1, <1>8, <1>1 DEF Sleeping
  <2>4. OneUnit'
    <3>1. ParentTook => ParentTook'
      BY <1>1 DEF ParentTook
    <3> QED
      BY <3>1, <2>1, <1>1, <1>8 DEF OneUnit, Open
  <2>5. ReadIsFresh'
    BY <2>1, <1>1, <1>8 DEF ReadIsFresh
  <2>6. Added' = Added
    <3>1. \A v \in Workers : worker'[v].i = worker[v].i
      BY <1>3, <1>2 DEF WorkersTyped
    <3> QED
      BY <3>1, AddedSame
  <2> QED
    BY <2>2, <2>3, <2>4, <2>5, <2>6, <1>1, <1>8
<1> QED
    BY <1>6, <1>7, <1>8, <1>1 DEF SyncInv

(* A child that goes from one place to another.                            *)
LEMMA GoKeeps ==
    ASSUME WorkersTyped, NEW w \in Workers, NEW place \in Places, worker' = Go(w, place),
           worker[w].at # "none",
           place \in {"none", "open", "wait", "read", "write"} => worker[w].i < Increments,
           parent' = parent, firstPid' = firstPid, use_sem' = use_sem, global' = global
    PROVE  /\ WorkersTyped'
           /\ \A v \in Workers : worker'[v] = IF v = w THEN [worker[w] EXCEPT !.at = place] ELSE worker[v]
           /\ worker'[w].at = place
           /\ Added' = Added
<1> USE DEF WorkersTyped, Go
<1>1. \A v \in Workers : worker'[v] = IF v = w THEN [worker[w] EXCEPT !.at = place] ELSE worker[v]
    OBVIOUS
<1>2. worker' \in [Workers -> [at : Places, aux : Int, i : 0..Increments]]
    OBVIOUS
<1>3. \A v \in Workers : worker'[v].i = worker[v].i
    BY <1>1
<1>4. worker'[w].at = place
    BY <1>1
<1>5. WorkersTyped'
  <2>1. ASSUME NEW v \in Workers
        PROVE  /\ worker'[v].at \in {"none", "open", "wait", "read", "write"} => worker'[v].i < Increments
               /\ parent'.at = "create" /\ v >= parent'.i => worker'[v].at = "none"
    BY <1>1
  <2>2. pids(parent.i)' = pids(parent.i)
    BY DEF pids
  <2> QED
    BY <1>2, <2>1, <2>2
<1> QED
    BY <1>1, <1>3, <1>4, <1>5, AddedSame

(* What a child can do without the semaphore.                              *)
LEMMA UnusedPlaces ==
    ASSUME SyncInv, NEW w \in Workers, worker[w].at \in {"open", "wait", "post", "close"}
    PROVE  use_sem
BY DEF SyncInv, Unused

(* Who is in the queue.                                                    *)
LEMMA QueueFacts ==
    ASSUME SyncTyped
    PROVE  /\ sync.value \in 0..1 /\ sync.queue \in Seq(Workers \cup {Parent})
           /\ sync.active \in SUBSET Workers
           /\ \A k \in 1..Len(sync.queue) : sync.queue[k] \in Workers \cup {Parent}
BY DEF SyncTyped

(* The first child that opens the semaphore puts the one unit into it.     *)
LEMMA OpenSemKeeps ==
    ASSUME SyncInv, NEW w \in Workers, OpenSem(w)
    PROVE  SyncInv'
<1>1. /\ worker[w].at = "open"
      /\ sync' = [sync EXCEPT !.active = @ \cup {w}, !.value = IF Open THEN @ ELSE 1]
      /\ worker' = Go(w, "wait")
      /\ use_sem' = use_sem /\ firstPid' = firstPid /\ global' = global /\ parent' = parent
    BY DEF OpenSem
<1>2. WorkersTyped /\ use_sem
    BY <1>1, UnusedPlaces DEF SyncInv
<1>3. SyncTyped /\ Sleeping /\ OneUnit /\ ReadIsFresh /\ global = Added
    BY <1>2 DEF SyncInv
<1>4. /\ WorkersTyped' /\ Added' = Added /\ worker'[w].at = "wait"
      /\ \A v \in Workers : worker'[v] = IF v = w THEN [worker[w] EXCEPT !.at = "wait"] ELSE worker[v]
  <2>1. "wait" \in Places /\ worker[w].i < Increments
    BY <1>1, <1>2 DEF Places, WorkersTyped
  <2> QED
    BY <2>1, <1>1, <1>2, GoKeeps
<1>5. \A v \in Workers : (Uses(v)' <=> Uses(v) \/ v = w) /\ (Holds(v)' <=> Holds(v))
                         /\ (v # w => worker'[v] = worker[v])
    BY <1>1, <1>4 DEF Uses, Holds
<1>6. Open' /\ sync'.active = sync.active \cup {w} /\ sync'.queue = sync.queue
      /\ sync'.value = IF Open THEN sync.value ELSE 1
    BY <1>1, <1>3, QueueFacts DEF SyncTyped, Open
<1>7. SyncTyped'
  <2> DEFINE A == sync.active \cup {w}
             v == IF Open THEN sync.value ELSE 1
  <2>1. A \in SUBSET Workers /\ v \in 0..1
    BY <1>3, QueueFacts
  <2>2. sync' = [sync EXCEPT !.active = A, !.value = v]
    BY <1>1
  <2> HIDE DEF A, v
  <2>3. sync' \in [value : 0..1, queue : Seq(Workers \cup {Parent}), active : SUBSET Workers]
    BY <2>1, <2>2, <1>3 DEF SyncTyped
  <2> QED
    BY <2>3, <1>3, <1>5, <1>6 DEF SyncTyped
<1>8. Sleeping'
  <2>1. ASSUME NEW k \in 1..Len(sync.queue)
        PROVE  IF sync.queue[k] = Parent THEN parent'.at = "asleep" ELSE worker'[sync.queue[k]].at = "wait"
    <3>1. sync.queue[k] \in Workers \cup {Parent}
      BY <1>3, QueueFacts
    <3> QED
      BY <3>1, <1>1, <1>3, <1>4, <1>5 DEF Sleeping
  <2> QED
    BY <2>1, <1>3, <1>6 DEF Sleeping
<1>9. OneUnit'
  <2>1. CASE Open
    <3>1. ParentTook => ParentTook'
      BY <1>1 DEF ParentTook, pids
    <3> QED
      BY <3>1, <2>1, <1>3, <1>5, <1>6 DEF OneUnit
  <2>2. CASE ~Open
    <3>1. sync.queue = <<>> /\ sync.active = {}
      BY <2>2, <1>3 DEF SyncTyped, SyncClosed, Open
    <3>2. \A v \in Workers : ~Holds(v)
      BY <3>1, <1>3 DEF SyncTyped, Holds, Uses
    <3> QED
      BY <3>1, <3>2, <2>2, <1>5, <1>6 DEF OneUnit
  <2> QED
    BY <2>1, <2>2
<1>10. ReadIsFresh'
    BY <1>1, <1>3, <1>4, <1>5 DEF ReadIsFresh
<1> QED
    BY <1>1, <1>2, <1>3, <1>4, <1>7, <1>8, <1>9, <1>10 DEF SyncInv

(* A child takes the unit, or sleeps behind the others.                    *)
LEMMA WaitSemKeeps ==
    ASSUME SyncInv, NEW w \in Workers, WaitSem(w)
    PROVE  SyncInv'
<1>1. /\ worker[w].at = "wait" /\ ~Contains(sync.queue, w)
      /\ use_sem' = use_sem /\ firstPid' = firstPid /\ global' = global /\ parent' = parent
    BY DEF WaitSem
<1>2. WorkersTyped /\ use_sem
    BY <1>1, UnusedPlaces DEF SyncInv
<1>3. SyncTyped /\ Sleeping /\ OneUnit /\ ReadIsFresh /\ global = Added
    BY <1>2 DEF SyncInv
<1>4. Open /\ (ParentTook => ParentTook')
    BY <1>1, <1>3 DEF SyncTyped, Uses, Open, ParentTook, pids
<1>5. CASE sync.value > 0
  <2>1. sync' = [sync EXCEPT !.value = @ - 1] /\ worker' = Go(w, "read")
    BY <1>5 DEF WaitSem
  <2>2. /\ WorkersTyped' /\ Added' = Added /\ worker'[w].at = "read"
        /\ \A v \in Workers : worker'[v] = IF v = w THEN [worker[w] EXCEPT !.at = "read"] ELSE worker[v]
    <3>1. "read" \in Places /\ worker[w].i < Increments
      BY <1>1, <1>2 DEF Places, WorkersTyped
    <3> QED
      BY <3>1, <2>1, <1>1, <1>2, GoKeeps
  <2>3. \A v \in Workers : (Uses(v)' <=> Uses(v)) /\ (Holds(v)' <=> Holds(v) \/ v = w)
                           /\ (v # w => worker'[v] = worker[v])
    BY <1>1, <2>2 DEF Uses, Holds
  <2>4. sync.value = 1 /\ sync.queue = <<>> /\ \A v \in Workers : ~Holds(v)
    BY <1>3, <1>5, QueueFacts DEF OneUnit
  <2>5. sync'.value = 0 /\ sync'.queue = <<>> /\ sync'.active = sync.active
    BY <2>1, <2>4, <1>3 DEF SyncTyped
  <2>6. SyncTyped'
    <3>1. sync' \in [value : 0..1, queue : Seq(Workers \cup {Parent}), active : SUBSET Workers]
      BY <2>1, <2>4, <1>3 DEF SyncTyped
    <3> QED
      BY <3>1, <1>3, <1>4, <2>3, <2>5 DEF SyncTyped, Open
  <2>7. Sleeping' /\ OneUnit'
    BY <2>3, <2>4, <2>5 DEF Sleeping, OneUnit
  <2>8. ReadIsFresh'
    BY <1>1, <1>3, <2>2, <2>3 DEF ReadIsFresh
  <2> QED
    BY <1>1, <1>2, <1>3, <2>2, <2>6, <2>7, <2>8 DEF SyncInv
<1>6. CASE ~(sync.value > 0)
  <2>1. sync' = [sync EXCEPT !.queue = Append(@, w)] /\ worker' = worker
    BY <1>6 DEF WaitSem
  <2> DEFINE q == sync.queue
  <2>2. q \in Seq(Workers \cup {Parent}) /\ sync.value = 0 /\ w \notin {q[k] : k \in 1..Len(q)}
    BY <1>1, <1>3, <1>6, QueueFacts DEF Contains
  <2>3. /\ sync'.value = 0 /\ sync'.queue = Append(q, w) /\ sync'.active = sync.active
        /\ Len(sync'.queue) = Len(q) + 1 /\ Len(q) \in Nat
        /\ \A k \in 1..Len(sync'.queue) : sync'.queue[k] = IF k = Len(q) + 1 THEN w ELSE q[k]
    BY <2>1, <2>2, <1>3 DEF SyncTyped
  <2>4. SyncTyped'
    <3>1. sync' \in [value : 0..1, queue : Seq(Workers \cup {Parent}), active : SUBSET Workers]
      <4> DEFINE r == Append(q, w)
      <4>1. r \in Seq(Workers \cup {Parent})
        BY <2>2
      <4>2. sync' = [sync EXCEPT !.queue = r]
        BY <2>1
      <4> HIDE DEF r
      <4> QED
        BY <4>1, <4>2, <1>3 DEF SyncTyped
    <3> QED
      BY <3>1, <1>3, <1>4, <2>1, <2>3 DEF SyncTyped, Open, Uses
  <2>5. Sleeping'
    <3>1. ASSUME NEW k \in 1..Len(sync'.queue)
          PROVE  IF sync'.queue[k] = Parent THEN parent'.at = "asleep" ELSE worker'[sync'.queue[k]].at = "wait"
      <4>1. CASE k = Len(q) + 1
        BY <4>1, <1>1, <2>1, <2>3, SyncFacts
      <4>2. CASE k \in 1..Len(q)
        BY <4>2, <1>1, <1>3, <2>1, <2>3 DEF Sleeping
      <4> QED
        BY <4>1, <4>2, <2>3
    <3>2. ASSUME NEW j \in 1..Len(sync'.queue), NEW k \in 1..Len(sync'.queue), sync'.queue[j] = sync'.queue[k]
          PROVE  j = k
      BY <3>2, <1>3, <2>2, <2>3 DEF Sleeping
    <3> QED
      BY <3>1, <3>2 DEF Sleeping
  <2>6. OneUnit'
    BY <1>3, <1>4, <2>1, <2>2, <2>3 DEF OneUnit, Holds
  <2>7. WorkersTyped' /\ ReadIsFresh' /\ Added' = Added
    <3>1. pids(parent.i)' = pids(parent.i)
      BY <1>1 DEF pids
    <3> QED
      BY <3>1, <1>1, <1>2, <1>3, <2>1, AddedSame DEF WorkersTyped, ReadIsFresh
  <2> QED
    BY <1>1, <1>2, <1>3, <2>4, <2>5, <2>6, <2>7 DEF SyncInv
<1> QED
    BY <1>5, <1>6

(* The semaphore and its queue, while a holder works with the number.      *)
LEMMA HoldersTurn ==
    ASSUME SyncTyped, Sleeping, OneUnit, NEW w \in Workers, Holds(w), Holds(w)',
           \A v \in Workers : v # w => worker'[v] = worker[v],
           sync' = sync, parent' = parent, firstPid' = firstPid
    PROVE  SyncTyped' /\ Sleeping' /\ OneUnit'
<1>1. \A v \in Workers : (Uses(v)' <=> Uses(v)) /\ (Holds(v)' <=> Holds(v))
    BY DEF Uses, Holds
<1>2. ParentTook => ParentTook'
    BY DEF ParentTook, pids
<1>3. SyncTyped'
    BY <1>1 DEF SyncTyped, Open
<1>4. Sleeping'
  <2>1. ASSUME NEW k \in 1..Len(sync.queue), sync.queue[k] # Parent
        PROVE  worker'[sync.queue[k]].at = "wait"
    <3>1. sync.queue[k] \in Workers /\ worker[sync.queue[k]].at = "wait"
      BY <2>1, QueueFacts DEF Sleeping
    <3>2. sync.queue[k] # w
      BY <3>1 DEF Holds
    <3> QED
      BY <3>1, <3>2
  <2> QED
    BY <2>1 DEF Sleeping
<1>5. OneUnit'
    BY <1>1, <1>2 DEF OneUnit, Open
<1> QED
    BY <1>3, <1>4, <1>5

(* The holder reads what nobody else can change.                           *)
LEMMA ReadGlobalKeeps ==
    ASSUME SyncInv, NEW w \in Workers, ReadGlobal(w)
    PROVE  SyncInv'
<1>1. /\ worker[w].at = "read"
      /\ worker' = [worker EXCEPT ![w].at = "write", ![w].aux = global]
      /\ use_sem' = use_sem /\ firstPid' = firstPid /\ global' = global /\ parent' = parent /\ sync' = sync
    BY DEF ReadGlobal
<1>2. WorkersTyped /\ worker[w] \in [at : Places, aux : Int, i : 0..Increments]
    BY DEF SyncInv, WorkersTyped
<1>3. \A v \in Workers : worker'[v] = IF v = w THEN [at |-> "write", aux |-> global, i |-> worker[w].i]
                                      ELSE worker[v]
  <2>1. \A v \in Workers : v # w => worker'[v] = worker[v]
    BY <1>1, <1>2 DEF WorkersTyped
  <2>2. worker'[w] = [at |-> "write", aux |-> global, i |-> worker[w].i]
    <3>1. worker' = [worker EXCEPT ![w].at = "write", ![w].aux = global]
      BY <1>1
    <3>2. worker \in [Workers -> [at : Places, aux : Int, i : 0..Increments]]
      BY <1>2 DEF WorkersTyped
    <3>3. "write" \in Places /\ global \in Int
      BY <1>2 DEF WorkersTyped, Places
    <3> QED
      BY <3>1, <3>2, <3>3
  <2> QED
    BY <2>1, <2>2
<1>4. \A v \in Workers : worker'[v].i = worker[v].i /\ (v # w => worker'[v] = worker[v])
                         /\ worker'[w].at = "write" /\ worker'[w].aux = global
    BY <1>3
<1>5. WorkersTyped'
  <2>1. worker' \in [Workers -> [at : Places, aux : Int, i : 0..Increments]]
    BY <1>1, <1>2 DEF WorkersTyped, Places
  <2>2. pids(parent.i)' = pids(parent.i)
    BY <1>1 DEF pids
  <2>3. ASSUME NEW v \in Workers
        PROVE  /\ worker'[v].at \in {"none", "open", "wait", "read", "write"} => worker'[v].i < Increments
               /\ parent'.at = "create" /\ v >= parent'.i => worker'[v].at = "none"
    BY <1>1, <1>2, <1>4 DEF WorkersTyped
  <2> QED
    BY <2>1, <2>2, <2>3, <1>1, <1>2 DEF WorkersTyped
<1>6. ASSUME ~use_sem PROVE Unused'
    BY <1>6, <1>1, <1>4 DEF SyncInv, Unused
<1>7. ASSUME use_sem PROVE (SyncTyped /\ Sleeping /\ OneUnit /\ ReadIsFresh /\ global = Added)'
  <2>1. SyncTyped /\ Sleeping /\ OneUnit /\ ReadIsFresh /\ global = Added
    BY <1>7 DEF SyncInv
  <2>2. SyncTyped' /\ Sleeping' /\ OneUnit'
    BY <2>1, <1>1, <1>4, HoldersTurn DEF Holds
  <2>3. ReadIsFresh'
    BY <2>1, <1>1, <1>4 DEF ReadIsFresh
  <2>4. Added' = Added
    BY <1>4, AddedSame
  <2> QED
    BY <2>1, <2>2, <2>3, <2>4, <1>1
<1> QED
    BY <1>1, <1>5, <1>6, <1>7 DEF SyncInv

(* The holder writes what it read and one more.                            *)
LEMMA WriteGlobalKeeps ==
    ASSUME SyncInv, NEW w \in Workers, WriteGlobal(w)
    PROVE  SyncInv'
<1> DEFINE place == IF use_sem THEN "post"
                    ELSE IF worker[w].i + 1 < Increments THEN "read" ELSE "done"
<1>1. /\ worker[w].at = "write" /\ global' = worker[w].aux + inc(w)
      /\ worker' = [worker EXCEPT ![w].i = @ + 1, ![w].aux = 0, ![w].at = place]
      /\ use_sem' = use_sem /\ firstPid' = firstPid /\ parent' = parent /\ sync' = sync
    BY DEF WriteGlobal
<1>2. WorkersTyped /\ worker[w] \in [at : Places, aux : Int, i : 0..Increments]
      /\ worker[w].i < Increments /\ inc(w) \in Int /\ Increments \in Nat
    BY <1>1, SyncFacts DEF SyncInv, WorkersTyped
<1>3. /\ place \in Places /\ (use_sem => place = "post") /\ (~use_sem => place \in {"read", "done"})
      /\ place \in {"none", "open", "wait", "read", "write"} => worker[w].i + 1 < Increments
      /\ place # "write" /\ place # "none"
    BY <1>2 DEF Places
<1> HIDE DEF place
<1>4. \A v \in Workers : worker'[v] = IF v = w THEN [at |-> place, aux |-> 0, i |-> worker[w].i + 1]
                                      ELSE worker[v]
  <2>1. \A v \in Workers : v # w => worker'[v] = worker[v]
    BY <1>1, <1>2 DEF WorkersTyped
  <2>2. worker'[w] = [at |-> place, aux |-> 0, i |-> worker[w].i + 1]
    <3>1. worker' = [worker EXCEPT ![w].i = @ + 1, ![w].aux = 0, ![w].at = place]
      BY <1>1
    <3>2. worker \in [Workers -> [at : Places, aux : Int, i : 0..Increments]]
      BY <1>2 DEF WorkersTyped
    <3>3. place \in Places /\ 0 \in Int
      BY <1>3
    <3> QED
      BY <3>1, <3>2, <3>3
  <2> QED
    BY <2>1, <2>2
<1>5. \A v \in Workers : (v # w => worker'[v] = worker[v])
                         /\ worker'[w].at = place /\ worker'[w].aux = 0 /\ worker'[w].i = worker[w].i + 1
    BY <1>4
<1>6. WorkersTyped'
  <2>1. worker' \in [Workers -> [at : Places, aux : Int, i : 0..Increments]]
    <3>1. [at |-> place, aux |-> 0, i |-> worker[w].i + 1] \in [at : Places, aux : Int, i : 0..Increments]
      BY <1>2, <1>3
    <3>2. worker' = [v \in Workers |-> IF v = w THEN [at |-> place, aux |-> 0, i |-> worker[w].i + 1]
                                       ELSE worker[v]]
      BY <1>1, <1>4, <1>2 DEF WorkersTyped
    <3> QED
      BY <3>1, <3>2, <1>2 DEF WorkersTyped
  <2>2. pids(parent.i)' = pids(parent.i)
    BY <1>1 DEF pids
  <2>3. ASSUME NEW v \in Workers
        PROVE  /\ worker'[v].at \in {"none", "open", "wait", "read", "write"} => worker'[v].i < Increments
               /\ parent'.at = "create" /\ v >= parent'.i => worker'[v].at = "none"
    BY <1>1, <1>2, <1>3, <1>5 DEF WorkersTyped
  <2>4. global' \in Int
    BY <1>1, <1>2
  <2> QED
    BY <2>1, <2>2, <2>3, <2>4, <1>1, <1>2 DEF WorkersTyped
<1>7. ASSUME ~use_sem PROVE Unused'
    BY <1>7, <1>1, <1>3, <1>5 DEF SyncInv, Unused
<1>8. ASSUME use_sem PROVE (SyncTyped /\ Sleeping /\ OneUnit /\ ReadIsFresh /\ global = Added)'
  <2>1. SyncTyped /\ Sleeping /\ OneUnit /\ ReadIsFresh /\ global = Added
    BY <1>8 DEF SyncInv
  <2>2. SyncTyped' /\ Sleeping' /\ OneUnit'
    BY <2>1, <1>1, <1>3, <1>5, <1>8, HoldersTurn DEF Holds
  <2>3. ReadIsFresh'
    <3>1. ASSUME NEW v \in Workers, worker'[v].at = "write" PROVE FALSE
      <4>1. v # w /\ worker[v].at = "write"
        BY <3>1, <1>3, <1>5
      <4> QED
        BY <4>1, <1>1, <2>1 DEF OneUnit, Holds
    <3> QED
      BY <3>1 DEF ReadIsFresh
  <2>4. Added' = Added + inc(w)
    <3>1. \A v \in Workers : worker'[v].i = IF v = w THEN worker[v].i + 1 ELSE worker[v].i
      BY <1>4
    <3> QED
      BY <3>1, <1>2, AddedOneMore
  <2>5. worker[w].aux = global
    BY <1>1, <2>1 DEF ReadIsFresh
  <2> QED
    BY <2>1, <2>2, <2>3, <2>4, <2>5, <1>1
<1> QED
    BY <1>1, <1>6, <1>7, <1>8 DEF SyncInv

(* A child that is done closes the semaphore, the last one frees it.       *)
LEMMA CloseSemKeeps ==
    ASSUME SyncInv, NEW w \in Workers, CloseSem(w)
    PROVE  SyncInv'
<1>1. /\ worker[w].at = "close" /\ worker' = Go(w, "done")
      /\ sync' = IF sync.active = {w} THEN SyncClosed ELSE [sync EXCEPT !.active = @ \ {w}]
      /\ use_sem' = use_sem /\ firstPid' = firstPid /\ global' = global /\ parent' = parent
    BY DEF CloseSem
<1>2. WorkersTyped /\ use_sem
    BY <1>1, UnusedPlaces DEF SyncInv
<1>3. SyncTyped /\ Sleeping /\ OneUnit /\ ReadIsFresh /\ global = Added
    BY <1>2 DEF SyncInv
<1>4. /\ WorkersTyped' /\ Added' = Added /\ worker'[w].at = "done"
      /\ \A v \in Workers : worker'[v] = IF v = w THEN [worker[w] EXCEPT !.at = "done"] ELSE worker[v]
  <2>1. "done" \in Places
    BY DEF Places
  <2> QED
    BY <2>1, <1>1, <1>2, GoKeeps
<1>5. \A v \in Workers : (Uses(v)' <=> Uses(v) /\ v # w) /\ (Holds(v)' <=> Holds(v))
                         /\ (v # w => worker'[v] = worker[v])
    BY <1>1, <1>4 DEF Uses, Holds
<1>6. ReadIsFresh'
    BY <1>1, <1>3, <1>4, <1>5 DEF ReadIsFresh
<1>7. CASE sync.active = {w}
  <2>1. sync' = SyncClosed /\ sync'.active = {} /\ sync'.queue = <<>> /\ sync'.value = 0
    BY <1>1, <1>7 DEF SyncClosed
  <2>2. \A v \in Workers : ~Uses(v)'
    BY <1>3, <1>5, <1>7 DEF SyncTyped
  <2>3. SyncTyped'
    <3>1. SyncClosed \in [value : 0..1, queue : Seq(Workers \cup {Parent}), active : SUBSET Workers]
      BY DEF SyncClosed
    <3> QED
      BY <3>1, <2>1, <2>2 DEF SyncTyped
  <2>4. Sleeping'
    BY <2>1 DEF Sleeping
  <2>5. OneUnit'
    <3>1. \A v \in Workers : ~Holds(v)'
      BY <2>2 DEF Uses, Holds
    <3> QED
      BY <3>1, <2>1 DEF OneUnit, Open
  <2> QED
    BY <1>1, <1>2, <1>3, <1>4, <1>6, <2>3, <2>4, <2>5 DEF SyncInv
<1>8. CASE sync.active # {w}
  <2>1. sync' = [sync EXCEPT !.active = @ \ {w}]
    BY <1>1, <1>8
  <2>2. sync'.active = sync.active \ {w} /\ sync'.queue = sync.queue /\ sync'.value = sync.value
    BY <2>1, <1>3 DEF SyncTyped
  <2>3. Open /\ Open' /\ (ParentTook => ParentTook')
    <3>1. w \in sync.active
      BY <1>1, <1>3 DEF SyncTyped, Uses
    <3> QED
      BY <3>1, <2>2, <1>1, <1>8 DEF Open, ParentTook, pids
  <2>4. SyncTyped'
    <3>1. sync' \in [value : 0..1, queue : Seq(Workers \cup {Parent}), active : SUBSET Workers]
      BY <2>1, <1>3 DEF SyncTyped
    <3> QED
      BY <3>1, <2>2, <2>3, <1>3, <1>5 DEF SyncTyped
  <2>5. Sleeping'
    <3>1. ASSUME NEW k \in 1..Len(sync.queue), sync.queue[k] # Parent
          PROVE  worker'[sync.queue[k]].at = "wait"
      <4>1. sync.queue[k] \in Workers /\ worker[sync.queue[k]].at = "wait"
        BY <3>1, <1>3, QueueFacts DEF Sleeping
      <4>2. sync.queue[k] # w
        BY <4>1, <1>1
      <4> QED
        BY <4>1, <4>2, <1>5
    <3> QED
      BY <3>1, <2>2, <1>1, <1>3 DEF Sleeping
  <2>6. OneUnit'
    BY <1>3, <1>5, <2>2, <2>3 DEF OneUnit
  <2> QED
    BY <1>1, <1>2, <1>3, <1>4, <1>6, <2>4, <2>5, <2>6 DEF SyncInv
<1> QED
    BY <1>7, <1>8

(* The queue without its head.                                             *)
LEMMA TailFacts ==
    ASSUME NEW S, NEW q \in Seq(S), q # <<>>
    PROVE  /\ Head(q) \in S /\ Tail(q) \in Seq(S) /\ Len(q) \in Nat \ {0}
           /\ Head(q) = q[1] /\ Len(Tail(q)) = Len(q) - 1
           /\ \A k \in 1..Len(Tail(q)) : Tail(q)[k] = q[k + 1] /\ k + 1 \in 1..Len(q)
OBVIOUS

(* Who is left in the queue after a post sleeps on.                        *)
LEMMA TailSleeps ==
    ASSUME SyncTyped, Sleeping, sync.queue # <<>>, sync'.queue = Tail(sync.queue),
           \A v \in Workers : v # Head(sync.queue) /\ worker[v].at = "wait" => worker'[v].at = "wait",
           Head(sync.queue) # Parent => parent' = parent
    PROVE  Sleeping'
<1> DEFINE q == sync.queue
<1>1. q \in Seq(Workers \cup {Parent}) /\ q # <<>>
    BY QueueFacts
<1>2. /\ Head(q) = q[1] /\ Len(Tail(q)) = Len(q) - 1 /\ Len(q) \in Nat \ {0}
      /\ \A k \in 1..Len(Tail(q)) : Tail(q)[k] = q[k + 1] /\ k + 1 \in 1..Len(q)
    BY <1>1, TailFacts
<1>3. ASSUME NEW k \in 1..Len(Tail(q))
      PROVE  IF Tail(q)[k] = Parent THEN parent'.at = "asleep" ELSE worker'[Tail(q)[k]].at = "wait"
  <2>1. Tail(q)[k] = q[k + 1] /\ k + 1 \in 1..Len(q) /\ 1 \in 1..Len(q) /\ k + 1 # 1
    BY <1>2
  <2>2. q[k + 1] # q[1] /\ q[k + 1] \in Workers \cup {Parent}
    BY <2>1, QueueFacts DEF Sleeping
  <2> QED
    BY <2>1, <2>2, <1>2 DEF Sleeping
<1>4. ASSUME NEW j \in 1..Len(Tail(q)), NEW k \in 1..Len(Tail(q)), Tail(q)[j] = Tail(q)[k]
      PROVE  j = k
  <2>1. /\ Tail(q)[k] = q[k + 1] /\ k + 1 \in 1..Len(q) /\ Tail(q)[j] = q[j + 1] /\ j + 1 \in 1..Len(q)
        /\ j \in Int /\ k \in Int
    BY <1>2
  <2>2. j + 1 = k + 1
    BY <2>1, <1>4 DEF Sleeping
  <2> QED
    BY <2>1, <2>2
<1> QED
    BY <1>3, <1>4 DEF Sleeping

(* Where the parent goes on.                                               *)
LEMMA AfterJoinFacts ==
    ASSUME WorkersTyped
    PROVE  /\ AfterJoin \in [at : {"create", "join", "asleep", "printed"}, i : Workers]
           /\ AfterJoin.at \in {"join", "printed"}
<1>1. CASE parent.i = 2 * TOTAL_PAIR_PROCESSES
    BY <1>1, SyncFacts DEF AfterJoin
<1>2. CASE parent.i # 2 * TOTAL_PAIR_PROCESSES
  <2>1. parent.i + 1 \in Workers
    BY <1>2, SyncFacts DEF WorkersTyped
  <2> QED
    BY <2>1, <1>2 DEF AfterJoin
<1> QED
    BY <1>1, <1>2

(* The parent finds no semaphore, or takes the unit of its children, or    *)
(* sleeps for it.                                                          *)
LEMMA JoinKeeps ==
    ASSUME SyncInv, Join
    PROVE  SyncInv'
<1>1. /\ parent.at = "join" /\ worker' = worker
      /\ use_sem' = use_sem /\ firstPid' = firstPid /\ global' = global
    BY DEF Join
<1>2. WorkersTyped
    BY DEF SyncInv
<1>3. \/ parent' = AfterJoin
      \/ parent' = [parent EXCEPT !.at = "asleep"] /\ pids(parent.i) = SEM_ID
    BY DEF Join
<1>4. parent' \in [at : {"create", "join", "asleep", "printed"}, i : Workers] /\ parent'.at # "create"
      /\ (parent'.at = "asleep" => parent'.i = parent.i /\ pids(parent.i) = SEM_ID)
    BY <1>2, <1>3, AfterJoinFacts DEF WorkersTyped
<1>5. WorkersTyped'
    BY <1>1, <1>2, <1>4 DEF WorkersTyped, pids
<1>6. Added' = Added
    BY <1>1, AddedSame
<1>7. ASSUME ~use_sem PROVE Unused'
  <2>1. Unused /\ ~Open
    BY <1>7 DEF SyncInv, Unused, SyncClosed, Open
  <2>2. sync' = sync
    BY <2>1 DEF Join
  <2> QED
    BY <2>1, <2>2, <1>1 DEF Unused
<1>8. ASSUME use_sem PROVE (SyncTyped /\ Sleeping /\ OneUnit /\ ReadIsFresh /\ global = Added)'
  <2>1. SyncTyped /\ Sleeping /\ OneUnit /\ ReadIsFresh /\ global = Added
    BY <1>8 DEF SyncInv
  <2>2. ReadIsFresh' /\ (global = Added)'
    BY <2>1, <1>1, <1>6 DEF ReadIsFresh
  <2>3. \A v \in Workers : (Uses(v)' <=> Uses(v)) /\ (Holds(v)' <=> Holds(v))
    BY <1>1 DEF Uses, Holds
  <2>4. parent.i \in Workers /\ (ParentTook => ParentTook')
    BY <1>1, <1>2, <1>4 DEF WorkersTyped, ParentTook, pids
  <2>5. ASSUME NEW k \in 1..Len(sync.queue)
        PROVE  sync.queue[k] \in Workers /\ sync.queue[k] # Parent /\ worker'[sync.queue[k]].at = "wait"
    BY <2>1, <1>1, QueueFacts DEF Sleeping
  <2>6. CASE sync' = sync
    <3>1. Sleeping'
      BY <2>1, <2>5, <2>6 DEF Sleeping
    <3>2. SyncTyped' /\ OneUnit'
      BY <2>1, <2>3, <2>4, <2>6 DEF SyncTyped, OneUnit, Open
    <3> QED
      BY <2>2, <3>1, <3>2
  <2>7. CASE sync' # sync
    <3>1. pids(parent.i) = SEM_ID /\ Open
      BY <2>7 DEF Join
    <3>2. ParentTook'
      BY <3>1, <2>4, <1>1, <1>4 DEF ParentTook, pids
    <3>3. CASE sync.value > 0
      <4>1. sync' = [sync EXCEPT !.value = @ - 1]
        BY <3>1, <3>3 DEF Join
      <4>2. sync.value = 1 /\ sync.queue = <<>>
        BY <2>1, <3>3, QueueFacts DEF OneUnit
      <4>3. sync'.value = 0 /\ sync'.queue = <<>> /\ sync'.active = sync.active
            /\ sync' \in [value : 0..1, queue : Seq(Workers \cup {Parent}), active : SUBSET Workers]
        BY <4>1, <4>2, <2>1 DEF SyncTyped
      <4> QED
        BY <2>1, <2>2, <2>3, <3>1, <3>2, <4>3 DEF SyncTyped, Sleeping, OneUnit, Open
    <3>4. CASE ~(sync.value > 0)
      <4> DEFINE q == sync.queue
      <4>1. sync' = [sync EXCEPT !.queue = Append(@, Parent)] /\ parent' = [parent EXCEPT !.at = "asleep"]
        BY <3>1, <3>4 DEF Join
      <4>2. q \in Seq(Workers \cup {Parent}) /\ sync.value = 0 /\ parent'.at = "asleep"
        BY <2>1, <3>4, <4>1, <1>2, QueueFacts DEF WorkersTyped
      <4>3. /\ sync'.value = 0 /\ sync'.queue = Append(q, Parent) /\ sync'.active = sync.active
            /\ Len(sync'.queue) = Len(q) + 1 /\ Len(q) \in Nat
            /\ \A k \in 1..Len(sync'.queue) : sync'.queue[k] = IF k = Len(q) + 1 THEN Parent ELSE q[k]
        BY <4>1, <4>2, <2>1 DEF SyncTyped
      <4>4. SyncTyped'
        <5>1. sync' \in [value : 0..1, queue : Seq(Workers \cup {Parent}), active : SUBSET Workers]
          <6> DEFINE r == Append(q, Parent)
          <6>1. r \in Seq(Workers \cup {Parent})
            BY <4>2
          <6>2. sync' = [sync EXCEPT !.queue = r]
            BY <4>1
          <6> HIDE DEF r
          <6> QED
            BY <6>1, <6>2, <2>1 DEF SyncTyped
        <5> QED
          BY <5>1, <2>1, <2>3, <3>1, <4>3 DEF SyncTyped, Open
      <4>5. Sleeping'
        <5>1. ASSUME NEW k \in 1..Len(sync'.queue)
              PROVE  IF sync'.queue[k] = Parent THEN parent'.at = "asleep"
                     ELSE worker'[sync'.queue[k]].at = "wait"
          BY <2>5, <4>2, <4>3
        <5>2. ASSUME NEW j \in 1..Len(sync'.queue), NEW k \in 1..Len(sync'.queue),
                     sync'.queue[j] = sync'.queue[k]
              PROVE  j = k
          BY <5>2, <2>1, <2>5, <4>3 DEF Sleeping
        <5> QED
          BY <5>1, <5>2 DEF Sleeping
      <4>6. OneUnit'
        BY <2>1, <2>3, <3>2, <4>3 DEF OneUnit
      <4> QED
        BY <2>2, <4>4, <4>5, <4>6
    <3> QED
      BY <3>3, <3>4
  <2> QED
    BY <2>6, <2>7
<1> QED
    BY <1>1, <1>5, <1>7, <1>8 DEF SyncInv

(* A child that posts goes on, and is not in the queue.                    *)
LEMMA AfterPostFacts ==
    ASSUME WorkersTyped, NEW w \in Workers
    PROVE  /\ AfterPost(w) \in {"wait", "close"} /\ AfterPost(w) \in Places
           /\ AfterPost(w) = "wait" => worker[w].i < Increments
BY DEF AfterPost, Places

(* A post hands the unit to the first sleeper or leaves it in the          *)
(* semaphore.                                                              *)
LEMMA PostSemKeeps ==
    ASSUME SyncInv, NEW w \in Workers, PostSem(w)
    PROVE  SyncInv'
<1> DEFINE q == sync.queue
           place == AfterPost(w)
<1>1. /\ worker[w].at = "post"
      /\ use_sem' = use_sem /\ firstPid' = firstPid /\ global' = global
    BY DEF PostSem
<1>2. WorkersTyped /\ use_sem
    BY <1>1, UnusedPlaces DEF SyncInv
<1>3. SyncTyped /\ Sleeping /\ OneUnit /\ ReadIsFresh /\ global = Added
    BY <1>2 DEF SyncInv
<1>4. /\ place \in {"wait", "close"} /\ place \in Places
      /\ place \in {"none", "open", "wait", "read", "write"} => worker[w].i < Increments
    BY <1>2, AfterPostFacts
<1> HIDE DEF place
<1>5. /\ Open /\ sync.value = 0 /\ q \in Seq(Workers \cup {Parent})
      /\ \A v \in Workers : Holds(v) => v = w
    BY <1>1, <1>3, QueueFacts DEF SyncTyped, OneUnit, Uses, Holds, Open
<1>6. CASE q = <<>>
  <2>1. sync' = [sync EXCEPT !.value = @ + 1] /\ worker' = Go(w, place) /\ parent' = parent
    BY <1>6 DEF PostSem, place
  <2>2. /\ WorkersTyped' /\ Added' = Added /\ worker'[w].at = place
        /\ \A v \in Workers : worker'[v] = IF v = w THEN [worker[w] EXCEPT !.at = place] ELSE worker[v]
    BY <2>1, <1>1, <1>2, <1>4, GoKeeps
  <2>3. \A v \in Workers : (Uses(v)' <=> Uses(v)) /\ ~Holds(v)' /\ (v # w => worker'[v] = worker[v])
    BY <1>1, <1>4, <1>5, <2>2 DEF Uses, Holds
  <2>4. /\ sync'.value = 1 /\ sync'.queue = <<>> /\ sync'.active = sync.active
        /\ sync' \in [value : 0..1, queue : Seq(Workers \cup {Parent}), active : SUBSET Workers]
    BY <2>1, <1>3, <1>5, <1>6 DEF SyncTyped
  <2>5. SyncTyped' /\ Sleeping' /\ OneUnit'
    BY <1>3, <1>5, <2>3, <2>4 DEF SyncTyped, Sleeping, OneUnit, Open
  <2>6. ReadIsFresh'
    BY <2>3, <1>4, <2>2, <1>1, <1>3 DEF ReadIsFresh
  <2> QED
    BY <1>1, <1>2, <1>3, <2>2, <2>5, <2>6 DEF SyncInv
<1>7. CASE q # <<>>
  <2> DEFINE h == Head(q)
  <2>1. /\ sync' = [sync EXCEPT !.queue = Tail(@)]
        /\ worker' = IF h = Parent THEN Go(w, place) ELSE [Go(w, place) EXCEPT ![h].at = "read"]
        /\ parent' = IF h = Parent THEN AfterJoin ELSE parent
    BY <1>7 DEF PostSem, place
  <2>2. /\ h \in Workers \cup {Parent} /\ Tail(q) \in Seq(Workers \cup {Parent}) /\ h = q[1]
        /\ 1 \in 1..Len(q)
    BY <1>5, <1>7, TailFacts
  <2>3. IF h = Parent THEN parent.at = "asleep" ELSE worker[h].at = "wait"
    BY <2>2, <1>3 DEF Sleeping
  <2>4. /\ sync'.value = 0 /\ sync'.queue = Tail(q) /\ sync'.active = sync.active
        /\ sync' \in [value : 0..1, queue : Seq(Workers \cup {Parent}), active : SUBSET Workers]
    <3> DEFINE r == Tail(q)
    <3>1. r \in Seq(Workers \cup {Parent}) /\ sync' = [sync EXCEPT !.queue = r]
      BY <2>1, <2>2
    <3> HIDE DEF r
    <3>2. /\ sync'.value = 0 /\ sync'.queue = r /\ sync'.active = sync.active
          /\ sync' \in [value : 0..1, queue : Seq(Workers \cup {Parent}), active : SUBSET Workers]
      BY <3>1, <1>3, <1>5 DEF SyncTyped
    <3> QED
      BY <3>2 DEF r
  <2> HIDE DEF h
  <2>5. Open'
    BY <2>4, <1>5 DEF Open
  <2>6. CASE h = Parent
    <3>1. worker' = Go(w, place) /\ parent' = AfterJoin
      BY <2>1, <2>6
    <3>2. /\ \A v \in Workers : worker'[v] = IF v = w THEN [worker[w] EXCEPT !.at = place] ELSE worker[v]
          /\ worker' \in [Workers -> [at : Places, aux : Int, i : 0..Increments]]
      BY <3>1, <1>2, <1>4 DEF WorkersTyped, Go
    <3>3. /\ AfterJoin \in [at : {"create", "join", "asleep", "printed"}, i : Workers]
          /\ AfterJoin.at \in {"join", "printed"}
      BY <1>2, AfterJoinFacts
    <3>4. \A v \in Workers : (v # w => worker'[v] = worker[v]) /\ worker'[w].at = place
                             /\ worker'[v].i = worker[v].i
      BY <3>2, <1>2 DEF WorkersTyped
    <3>5. WorkersTyped'
      <4>1. ASSUME NEW v \in Workers
            PROVE  worker'[v].at \in {"none", "open", "wait", "read", "write"} => worker'[v].i < Increments
        BY <3>4, <1>2, <1>4 DEF WorkersTyped
      <4> QED
        BY <4>1, <3>1, <3>2, <3>3, <1>1, <1>2 DEF WorkersTyped
    <3>6. Added' = Added
      BY <3>4, AddedSame
    <3>7. \A v \in Workers : (Uses(v)' <=> Uses(v)) /\ ~Holds(v)'
      BY <1>1, <1>4, <1>5, <3>4 DEF Uses, Holds
    <3>8. SyncTyped'
      BY <1>3, <2>4, <2>5, <3>7 DEF SyncTyped
    <3>9. Sleeping'
      BY <1>1, <1>3, <1>7, <2>4, <2>6, <3>4, TailSleeps DEF h
    <3>10. OneUnit'
      <4>1. ParentTook'
        <5>1. parent.at = "asleep" /\ parent.i \in Workers /\ pids(parent.i) = SEM_ID
          BY <2>3, <2>6, <1>2 DEF WorkersTyped
        <5> QED
          BY <5>1, <3>1, <3>3, <1>1 DEF ParentTook, pids
      <4> QED
        BY <4>1, <3>7, <2>4 DEF OneUnit
    <3>11. ReadIsFresh'
      BY <3>7 DEF ReadIsFresh, Holds
    <3> QED
      BY <1>1, <1>2, <1>3, <3>5, <3>6, <3>8, <3>9, <3>10, <3>11 DEF SyncInv
  <2>7. CASE h # Parent
    <3>1. worker' = [Go(w, place) EXCEPT ![h].at = "read"] /\ parent' = parent /\ h \in Workers
          /\ worker[h].at = "wait" /\ h # w
      BY <2>1, <2>2, <2>3, <2>7, <1>1
    <3>2. /\ \A v \in Workers : worker'[v] = IF v = w THEN [worker[w] EXCEPT !.at = place]
                                            ELSE IF v = h THEN [worker[h] EXCEPT !.at = "read"] ELSE worker[v]
          /\ worker' \in [Workers -> [at : Places, aux : Int, i : 0..Increments]]
      <4> DEFINE g == Go(w, place)
      <4>1. g \in [Workers -> [at : Places, aux : Int, i : 0..Increments]]
            /\ \A v \in Workers : g[v] = IF v = w THEN [worker[w] EXCEPT !.at = place] ELSE worker[v]
        BY <1>2, <1>4 DEF WorkersTyped, Go
      <4>2. worker' = [g EXCEPT ![h].at = "read"] /\ "read" \in Places
        BY <3>1 DEF Places
      <4> HIDE DEF g
      <4> QED
        BY <4>1, <4>2, <3>1
    <3>3. \A v \in Workers : (v # w /\ v # h => worker'[v] = worker[v])
                             /\ worker'[w].at = place /\ worker'[h].at = "read"
                             /\ worker'[v].i = worker[v].i
      BY <3>1, <3>2, <1>2 DEF WorkersTyped
    <3>4. WorkersTyped'
      <4>1. ASSUME NEW v \in Workers
            PROVE  /\ worker'[v].at \in {"none", "open", "wait", "read", "write"} => worker'[v].i < Increments
                   /\ parent'.at = "create" /\ v >= parent'.i => worker'[v].at = "none"
        <5>1. worker[w].at # "none" /\ worker[h].at # "none"
          BY <1>1, <3>1
        <5> QED
          BY <5>1, <3>1, <3>3, <1>2, <1>4 DEF WorkersTyped
      <4> QED
        BY <4>1, <3>1, <3>2, <1>1, <1>2 DEF WorkersTyped, pids
    <3>5. Added' = Added
      BY <3>3, AddedSame
    <3>6. \A v \in Workers : (Uses(v)' <=> Uses(v)) /\ (Holds(v)' <=> v = h)
      BY <1>1, <1>4, <1>5, <3>1, <3>3 DEF Uses, Holds
    <3>7. SyncTyped'
      BY <1>3, <2>4, <2>5, <3>6 DEF SyncTyped
    <3>8. Sleeping'
      BY <1>1, <1>3, <1>7, <2>4, <3>1, <3>3, TailSleeps DEF h
    <3>9. OneUnit'
      BY <3>1, <3>6, <2>4 DEF OneUnit
    <3>10. ReadIsFresh'
      BY <3>3, <3>6 DEF ReadIsFresh, Holds
    <3> QED
      BY <1>1, <1>2, <1>3, <3>4, <3>5, <3>7, <3>8, <3>9, <3>10 DEF SyncInv
  <2> QED
    BY <2>6, <2>7
<1> QED
    BY <1>6, <1>7

(* Every step of the test keeps SyncInv.                                   *)
LEMMA SyncInvHolds == SyncSpec => []SyncInv
<1>1. SyncInit => SyncInv
    BY SyncInitInv
<1>2. ASSUME SyncInv, SyncNext PROVE SyncInv'
  <2>1. CASE TestSync
    BY <1>2, <2>1, CreateWorkerKeeps, JoinKeeps DEF TestSync
  <2>2. CASE \E w \in Workers : my_process_inc(w)
    BY <1>2, <2>2, OpenSemKeeps, WaitSemKeeps, ReadGlobalKeeps, WriteGlobalKeeps, PostSemKeeps, CloseSemKeeps
    DEF my_process_inc
  <2> QED
    BY <1>2, <2>1, <2>2 DEF SyncNext
<1>3. ASSUME SyncInv, UNCHANGED syncVars PROVE SyncInv'
  <2>1. /\ use_sem' = use_sem /\ firstPid' = firstPid /\ global' = global /\ worker' = worker
        /\ sync' = sync /\ parent' = parent
    BY <1>3 DEF syncVars
  <2>2. Added' = Added
    BY <2>1, AddedSame
  <2>3. WorkersTyped' /\ (~use_sem => Unused)'
    BY <1>3, <2>1 DEF SyncInv, WorkersTyped, Unused, pids
  <2>4. ASSUME use_sem PROVE (SyncTyped /\ Sleeping /\ OneUnit /\ ReadIsFresh)'
    BY <1>3, <2>1, <2>4 DEF SyncInv, SyncTyped, Sleeping, OneUnit, ReadIsFresh, Uses, Holds, Open, ParentTook, pids
  <2> QED
    BY <1>3, <2>1, <2>2, <2>3, <2>4 DEF SyncInv
<1> QED
    BY <1>1, <1>2, <1>3, PTL DEF SyncSpec

(* With the semaphore no addition is lost, for any number of processes and *)
(* additions: my_process_inc, whose slowInc gives up the CPU between the   *)
(* read and the write of the number.                                       *)
THEOREM UpdatesKeptCorrect == SyncSpec => []UpdatesKept
<1>1. SyncInv => UpdatesKept
    BY DEF SyncInv, UpdatesKept
<1> QED
    BY <1>1, SyncInvHolds, PTL

(* Nobody sleeps for the semaphore in vain: a child has the unit, or the   *)
(* parent may have taken it for good, when a child has the pid SEM_ID.     *)
THEOREM SleepersServedCorrect == SyncSpec => []SleepersServed
<1>1. SyncInv => SleepersServed
  <2> SUFFICES ASSUME SyncInv, sync.queue # <<>>
               PROVE  ParentTook \/ \E w \in Workers : Holds(w)
    BY DEF SleepersServed, ParentTook, Holds
  <2>1. use_sem
    BY DEF SyncInv, Unused, SyncClosed
  <2>2. Open
    BY <2>1 DEF SyncInv, SyncTyped, SyncClosed
  <2> QED
    BY <2>1, <2>2 DEF SyncInv, OneUnit
<1> QED
    BY <1>1, SyncInvHolds, PTL

---------------------------------------------------------------------------
(* The number without the semaphore: additions are lost, but whatever is   *)
(* read or written is between what was taken off and what was added.       *)
Ups(wk)   == [w \in Workers |-> IF inc(w) = 1 THEN wk[w].i ELSE 0]
Downs(wk) == [w \in Workers |-> IF inc(w) = 1 THEN 0 ELSE wk[w].i]
Up(wk)    == Sum(Ups(wk), Workers)
Down(wk)  == Sum(Downs(wk), Workers)

Between(v, wk) == v \in Int /\ v <= Up(wk) /\ -Down(wk) <= v

BoundsInv == Between(global, worker) /\ \A w \in Workers : Between(worker[w].aux, worker)

(* Two elements of a sum, taken out.                                       *)
LEMMA SumTwo ==
    ASSUME NEW S, IsFiniteSet(S), NEW f, \A x \in S : f[x] \in Int,
           NEW a \in S, NEW b \in S, a # b
    PROVE  Sum(f, S) = f[a] + (f[b] + Sum(f, (S \ {a}) \ {b}))
<1> DEFINE R == S \ {a}
<1>1. b \in R /\ \A x \in R : f[x] \in Int
    OBVIOUS
<1>2. IsFiniteSet(R)
    BY FS_Subset
<1>3. Sum(f, S) = f[a] + Sum(f, R)
    BY SumWithout
<1> HIDE DEF R
<1>4. Sum(f, R) = f[b] + Sum(f, R \ {b})
    BY <1>1, <1>2, SumWithout
<1> QED
    BY <1>3, <1>4 DEF R

(* The first pairs, and the last of them.                                  *)
Pairs(m) == 1..(2 * m)

LEMMA PairsFacts ==
    /\ Pairs(0) = {}
    /\ \A m \in Nat : IsFiniteSet(Pairs(m))
    /\ \A m \in Nat \ {0} : /\ 2 * m \in Pairs(m) /\ 2 * m - 1 \in Pairs(m)
                           /\ (Pairs(m) \ {2 * m}) \ {2 * m - 1} = Pairs(m - 1)
<1>1. Pairs(0) = {}
    BY DEF Pairs
<1>2. ASSUME NEW m \in Nat PROVE IsFiniteSet(Pairs(m))
    BY FS_Interval DEF Pairs
<1>3. ASSUME NEW m \in Nat \ {0}
      PROVE  /\ 2 * m \in Pairs(m) /\ 2 * m - 1 \in Pairs(m)
             /\ (Pairs(m) \ {2 * m}) \ {2 * m - 1} = Pairs(m - 1)
    BY DEF Pairs
<1> QED
    BY <1>1, <1>2, <1>3

(* A sum over pairs, each of which is at most N.                           *)
LEMMA PairSums ==
    ASSUME NEW T \in Nat, NEW N \in Nat, NEW f, \A w \in Pairs(T) : f[w] \in Int,
           \A j \in 1..T : f[2 * j - 1] + f[2 * j] <= N
    PROVE  Sum(f, Pairs(T)) <= T * N
<1> DEFINE Bad == {k \in 0..T : ~(Sum(f, Pairs(k)) <= k * N)}
<1>1. Bad = {}
  <2> SUFFICES ASSUME Bad # {} PROVE FALSE
    OBVIOUS
  <2>1. PICK m \in Bad : \A j \in Bad : m <= j
    <3>1. Bad \in SUBSET Nat
      OBVIOUS
    <3> HIDE DEF Bad
    <3> QED
      BY <3>1, LeastElement
  <2>2. m \in 0..T /\ ~(Sum(f, Pairs(m)) <= m * N)
    OBVIOUS
  <2>3. m # 0
    <3>1. Sum(f, Pairs(0)) = 0
      BY PairsFacts, SumEmpty
    <3>2. 0 * N = 0
      OBVIOUS
    <3> QED
      BY <2>2, <3>1, <3>2
  <2>4. m \in Nat \ {0} /\ m \in 1..T /\ m - 1 \in 0..T /\ m - 1 < m
    BY <2>2, <2>3
  <2>5. m - 1 \notin Bad
    <3> HIDE DEF Bad
    <3> QED
      BY <2>1, <2>4
  <2>6. Sum(f, Pairs(m - 1)) <= (m - 1) * N
    BY <2>4, <2>5
  <2> HIDE DEF Bad
  <2> DEFINE S == Pairs(m)
             a == 2 * m
             b == 2 * m - 1
             Q == Pairs(m - 1)
  <2>7. a \in S /\ b \in S /\ (S \ {a}) \ {b} = Q /\ IsFiniteSet(S)
    BY <2>4, PairsFacts
  <2>8. a # b
    BY <2>4
  <2>9. S \subseteq Pairs(T) /\ Q \subseteq Pairs(T)
    BY <2>4 DEF Pairs
  <2>10. f[b] + f[a] <= N
    BY <2>4
  <2>11. IsFiniteSet(Q)
    <3>1. m - 1 \in Nat
      BY <2>4
    <3> QED
      BY <3>1, PairsFacts
  <2>12. (m - 1) * N \in Int /\ m * N \in Int /\ m * N = (m - 1) * N + N
    BY <2>4
  <2> DEFINE y == (m - 1) * N
             z == m * N
             x == Sum(f, Q)
             s == Sum(f, S)
             fa == f[a]
             fb == f[b]
  <2>13. x <= y /\ ~(s <= z)
    BY <2>2, <2>6
  <2>14. y \in Int /\ z \in Int /\ z = y + N
    BY <2>12
  <2> HIDE DEF S, a, b, Q, y, z
  <2>15. \A w \in S : f[w] \in Int
    BY <2>9
  <2>16. \A w \in Q : f[w] \in Int
    BY <2>9
  <2>17. s = fa + (fb + x)
    BY <2>7, <2>8, <2>15, SumTwo
  <2>18. x \in Int /\ fa \in Int /\ fb \in Int
    BY <2>7, <2>11, <2>15, <2>16, SumType
  <2>19. fb + fa <= N
    BY <2>10
  <2> HIDE DEF x, s, fa, fb
  <2> QED
    BY <2>13, <2>14, <2>17, <2>18, <2>19
<1> QED
    BY <1>1

(* The numbers of additions and subtractions.                              *)
LEMMA UpDownFacts ==
    ASSUME NEW wk, \A w \in Workers : wk[w].i \in 0..Increments
    PROVE  /\ Up(wk) \in Nat /\ Down(wk) \in Nat
           /\ Up(wk) <= TOTAL_PAIR_PROCESSES * Increments
           /\ Down(wk) <= TOTAL_PAIR_PROCESSES * Increments
<1> DEFINE T == TOTAL_PAIR_PROCESSES
           N == Increments
           f == Ups(wk)
           g == Downs(wk)
<1>1. T \in Nat /\ N \in Nat /\ Workers = Pairs(T) /\ IsFiniteSet(Workers)
    BY SyncFacts DEF Workers, Pairs
<1>2. \A w \in Workers : /\ f[w] \in Nat /\ f[w] \in Int /\ f[w] = IF inc(w) = 1 THEN wk[w].i ELSE 0
                         /\ g[w] \in Nat /\ g[w] \in Int /\ g[w] = IF inc(w) = 1 THEN 0 ELSE wk[w].i
    <2> SUFFICES ASSUME NEW w \in Workers
                 PROVE  /\ f[w] \in Nat /\ f[w] \in Int /\ f[w] = IF inc(w) = 1 THEN wk[w].i ELSE 0
                        /\ g[w] \in Nat /\ g[w] \in Int /\ g[w] = IF inc(w) = 1 THEN 0 ELSE wk[w].i
      OBVIOUS
    <2>1. wk[w].i \in Nat
      BY <1>1
    <2>2. f[w] = IF inc(w) = 1 THEN wk[w].i ELSE 0
      BY DEF Ups
    <2>3. g[w] = IF inc(w) = 1 THEN 0 ELSE wk[w].i
      BY DEF Downs
    <2> HIDE DEF f, g
    <2> QED
      BY <2>1, <2>2, <2>3
<1>3. ASSUME NEW j \in 1..T
      PROVE  /\ 2 * j - 1 \in Workers /\ 2 * j \in Workers
             /\ inc(2 * j - 1) = -1 /\ inc(2 * j) = 1
    <2>1. (2 * j - 1) % 2 = 1 /\ (2 * j) % 2 = 0
      BY <1>1
    <2>2. 2 * j - 1 \in Workers /\ 2 * j \in Workers
      BY <1>1 DEF Pairs
    <2> QED
      BY <2>1, <2>2 DEF inc
<1> HIDE DEF f, g, T, N
<1>4. \A j \in 1..T : f[2 * j - 1] + f[2 * j] <= N /\ g[2 * j - 1] + g[2 * j] <= N
    <2> TAKE j \in 1..T
    <2>1. /\ f[2 * j - 1] = 0 /\ f[2 * j] = wk[2 * j].i
          /\ g[2 * j - 1] = wk[2 * j - 1].i /\ g[2 * j] = 0
      BY <1>2, <1>3
    <2>2. wk[2 * j].i \in 0..N /\ wk[2 * j - 1].i \in 0..N
      BY <1>3 DEF N
    <2> QED
      BY <1>1, <2>1, <2>2
<1>5. Sum(f, Workers) \in Nat /\ Sum(g, Workers) \in Nat
    BY <1>1, <1>2, SumNat
<1>6. Sum(f, Pairs(T)) <= T * N
    BY <1>1, <1>2, <1>4, PairSums
<1>7. Sum(g, Pairs(T)) <= T * N
    BY <1>1, <1>2, <1>4, PairSums
<1> QED
    BY <1>1, <1>5, <1>6, <1>7 DEF Up, Down, f, g, T, N

(* What is between the bounds stays there when nobody adds.                *)
LEMMA BoundsSame ==
    ASSUME BoundsInv, \A v \in Workers : worker'[v].i = worker[v].i,
           \A v \in Workers : worker'[v].aux \in {worker[v].aux, global}, global' = global
    PROVE  BoundsInv'
<1>1. Ups(worker') = Ups(worker) /\ Downs(worker') = Downs(worker)
    BY DEF Ups, Downs
<1>2. Up(worker') = Up(worker) /\ Down(worker') = Down(worker)
    BY <1>1 DEF Up, Down
<1>3. ASSUME NEW v, Between(v, worker) PROVE Between(v, worker')
    BY <1>2, <1>3 DEF Between
<1>4. Between(global', worker')
    BY <1>3 DEF BoundsInv
<1>5. \A v \in Workers : Between(worker'[v].aux, worker')
    BY <1>3 DEF BoundsInv
<1> QED
    BY <1>4, <1>5 DEF BoundsInv

(* A write adds one to an older number, and one more is added by then.     *)
LEMMA BoundsWrite ==
    ASSUME SyncInv, BoundsInv, NEW w \in Workers, WriteGlobal(w)
    PROVE  BoundsInv'
<1> DEFINE u1 == Ups(worker)
           u2 == Ups(worker')
           d1 == Downs(worker)
           d2 == Downs(worker')
           du == IF inc(w) = 1 THEN 1 ELSE 0
           dd == IF inc(w) = 1 THEN 0 ELSE 1
<1>1. /\ worker \in [Workers -> [at : Places, aux : Int, i : 0..Increments]]
      /\ Increments \in Nat /\ IsFiniteSet(Workers) /\ inc(w) \in {-1, 1}
    BY SyncFacts DEF SyncInv, WorkersTyped
<1>2. \A v \in Workers : /\ worker'[v].i = IF v = w THEN worker[v].i + 1 ELSE worker[v].i
                         /\ worker'[v].aux = IF v = w THEN 0 ELSE worker[v].aux
    BY <1>1 DEF WriteGlobal
<1>3. /\ \A v \in Workers : u1[v] \in Int /\ d1[v] \in Int
      /\ \A v \in Workers : u2[v] = IF v = w THEN u1[v] + du ELSE u1[v]
      /\ \A v \in Workers : d2[v] = IF v = w THEN d1[v] + dd ELSE d1[v]
    <2>1. \A v \in Workers : worker[v].i \in Int
      BY <1>1
    <2> QED
      BY <1>2, <2>1 DEF Ups, Downs
<1>4. du \in Int /\ dd \in Int
    OBVIOUS
<1>5. Up(worker') = Up(worker) + du /\ Down(worker') = Down(worker) + dd
    <2> HIDE DEF u1, u2, d1, d2, du, dd
    <2>1. Sum(u2, Workers) = Sum(u1, Workers) + du
      BY <1>1, <1>3, <1>4, SumOneMore
    <2>2. Sum(d2, Workers) = Sum(d1, Workers) + dd
      BY <1>1, <1>3, <1>4, SumOneMore
    <2> QED
      BY <2>1, <2>2 DEF Up, Down, u1, u2, d1, d2
<1>6. Up(worker) \in Nat /\ Down(worker) \in Nat
    BY <1>1, UpDownFacts
<1>7. global' = worker[w].aux + inc(w) /\ Between(worker[w].aux, worker)
    BY DEF WriteGlobal, BoundsInv
<1>8. Between(global', worker')
    BY <1>1, <1>5, <1>6, <1>7 DEF Between
<1>9. ASSUME NEW v \in Workers PROVE Between(worker'[v].aux, worker')
    <2>1. CASE v = w
      BY <2>1, <1>2, <1>5, <1>6 DEF Between
    <2>2. CASE v # w
      <3>1. Between(worker[v].aux, worker) /\ worker'[v].aux = worker[v].aux
        BY <2>2, <1>2 DEF BoundsInv
      <3> QED
        BY <3>1, <1>5, <1>6 DEF Between
    <2> QED
      BY <2>1, <2>2
<1> QED
    BY <1>8, <1>9 DEF BoundsInv

(* Every step keeps everything between the bounds.                         *)
LEMMA BoundsInvHolds == SyncSpec => []BoundsInv
<1>1. SyncInit => BoundsInv
    <2> SUFFICES ASSUME SyncInit PROVE BoundsInv
      OBVIOUS
    <2>1. /\ \A w \in Workers : worker[w].i = 0 /\ worker[w].aux = 0
          /\ global = 0 /\ \A w \in Workers : worker[w].i \in 0..Increments
      BY SyncFacts DEF SyncInit
    <2>2. Up(worker) \in Nat /\ Down(worker) \in Nat
      BY <2>1, UpDownFacts
    <2> QED
      BY <2>1, <2>2 DEF BoundsInv, Between
<1>2. ASSUME SyncInv, BoundsInv, [SyncNext]_syncVars PROVE BoundsInv'
    <2>1. worker \in [Workers -> [at : Places, aux : Int, i : 0..Increments]]
      BY <1>2 DEF SyncInv, WorkersTyped
    <2>2. ASSUME NEW wk, NEW place, NEW q, wk = worker \/ wk = Go(q, place)
          PROVE  \A v \in Workers : wk[v].i = worker[v].i /\ wk[v].aux = worker[v].aux
      BY <2>1, <2>2 DEF Go
    <2>3. CASE CreateWorker \/ Join
      <3>1. global' = global /\ \A v \in Workers : worker'[v].i = worker[v].i /\ worker'[v].aux = worker[v].aux
        BY <2>2, <2>3 DEF CreateWorker, Join
      <3> QED
        BY <1>2, <3>1, BoundsSame
    <2>4. ASSUME NEW w \in Workers, OpenSem(w) \/ WaitSem(w) \/ CloseSem(w) PROVE BoundsInv'
      <3>1. global' = global /\ \A v \in Workers : worker'[v].i = worker[v].i /\ worker'[v].aux = worker[v].aux
        BY <2>2, <2>4 DEF OpenSem, WaitSem, CloseSem
      <3> QED
        BY <1>2, <3>1, BoundsSame
    <2>5. ASSUME NEW w \in Workers, PostSem(w) PROVE BoundsInv'
      <3>1. global' = global
        BY <2>5 DEF PostSem
      <3>2. \/ worker' = Go(w, AfterPost(w))
            \/ worker' = [Go(w, AfterPost(w)) EXCEPT ![Head(sync.queue)].at = "read"]
        BY <2>5 DEF PostSem
      <3> DEFINE g == Go(w, AfterPost(w))
                 q == Head(sync.queue)
      <3>3. g \in [Workers -> [at : Places \cup {AfterPost(w)}, aux : Int, i : 0..Increments]]
        BY <2>1 DEF Go
      <3>4. \A v \in Workers : g[v].i = worker[v].i /\ g[v].aux = worker[v].aux
        BY <2>2
      <3> HIDE DEF g, q
      <3>5. \A v \in Workers : /\ [g EXCEPT ![q].at = "read"][v].i = g[v].i
                               /\ [g EXCEPT ![q].at = "read"][v].aux = g[v].aux
        BY <3>3
      <3>6. \A v \in Workers : worker'[v].i = worker[v].i /\ worker'[v].aux = worker[v].aux
        BY <3>2, <3>4, <3>5 DEF g, q
      <3> QED
        BY <1>2, <3>1, <3>6, BoundsSame
    <2>6. ASSUME NEW w \in Workers, ReadGlobal(w) PROVE BoundsInv'
      <3>1. global' = global /\ \A v \in Workers : worker'[v].i = worker[v].i
                             /\ worker'[v].aux \in {worker[v].aux, global}
        BY <2>1, <2>6 DEF ReadGlobal
      <3> QED
        BY <1>2, <3>1, BoundsSame
    <2>7. ASSUME NEW w \in Workers, WriteGlobal(w) PROVE BoundsInv'
      BY <1>2, <2>7, BoundsWrite
    <2>8. CASE UNCHANGED syncVars
      BY <1>2, <2>8, BoundsSame DEF syncVars
    <2> QED
      BY <1>2, <2>3, <2>4, <2>5, <2>6, <2>7, <2>8 DEF SyncNext, TestSync, my_process_inc
<1> QED
    BY <1>1, <1>2, SyncInvHolds, PTL DEF SyncSpec

(* With the semaphore or without, whatever is lost: the number stays       *)
(* between minus and plus all additions, and everything has its type.      *)
THEOREM SyncTypeCorrect == SyncSpec => []SyncTypeOK
<1>1. SyncInv /\ BoundsInv /\ firstPid \in FirstPids => SyncTypeOK
    <2> SUFFICES ASSUME SyncInv, BoundsInv, firstPid \in FirstPids PROVE SyncTypeOK
      OBVIOUS
    <2>1. WorkersTyped /\ Between(global, worker)
      BY DEF SyncInv, BoundsInv
    <2>2. \A w \in Workers : worker[w].i \in 0..Increments /\ worker[w].at \in Places
      BY <2>1 DEF WorkersTyped
    <2> DEFINE b == TOTAL_PAIR_PROCESSES * Increments
    <2>3. /\ Up(worker) \in Nat /\ Down(worker) \in Nat /\ Up(worker) <= b /\ Down(worker) <= b
      BY <2>2, UpDownFacts
    <2>4. b \in Int /\ Increments * TOTAL_PAIR_PROCESSES = b
      BY SyncFacts
    <2> HIDE DEF b
    <2>5. global \in (-b)..b
      BY <2>1, <2>3, <2>4 DEF Between
    <2>6. sync.value \in 0..1 /\ sync.active \subseteq Workers
      <3>1. CASE use_sem
        BY <3>1 DEF SyncInv, SyncTyped
      <3>2. CASE ~use_sem
        BY <3>2 DEF SyncInv, Unused, SyncClosed
      <3> QED
        BY <3>1, <3>2
    <2> QED
      BY <2>1, <2>2, <2>4, <2>5, <2>6 DEF SyncTypeOK, WorkersTyped, Places
<1>2. SyncInit => firstPid \in FirstPids
    BY DEF SyncInit
<1>3. firstPid \in FirstPids /\ [SyncNext]_syncVars => (firstPid \in FirstPids)'
    BY DEF SyncNext, syncVars, TestSync, my_process_inc, CreateWorker, Join, OpenSem, WaitSem,
           ReadGlobal, WriteGlobal, PostSem, CloseSem
<1> QED
    BY <1>1, <1>2, <1>3, SyncInvHolds, BoundsInvHolds, PTL DEF SyncSpec

---------------------------------------------------------------------------
(***************************************************************************)
(* Heap.                                                                   *)
(*                                                                         *)
(* For every region, every word size and every set of requested sizes that *)
(* meet HeapAssumption: no byte belongs to two blocks (NoOverlap), the     *)
(* free list stays ordered and merged, a caller gets the bytes it asked    *)
(* for, and every byte is either free or in a block, as freeBytesRemaining *)
(* says (Accounted).                                                       *)
(***************************************************************************)

(* Multiples of the alignment.                                             *)
Aligned(n) == n % BYTE_ALIGNMENT = 0

(* Sums and differences of aligned sizes are aligned, and alignUp and      *)
(* alignDown of listInit and alloc move by less than the alignment.        *)
LEMMA AlignFacts ==
    ASSUME NEW m \in Nat, NEW n \in Nat
    PROVE  /\ Aligned(m) /\ Aligned(n) => Aligned(m + n)
           /\ Aligned(m) /\ Aligned(n) /\ n <= m => Aligned(m - n)
           /\ AlignUp(n) \in Nat /\ Aligned(AlignUp(n))
           /\ n <= AlignUp(n) /\ AlignUp(n) < n + BYTE_ALIGNMENT
           /\ AlignDown(n) \in Nat /\ Aligned(AlignDown(n)) /\ AlignDown(n) <= n
<1> USE DEF Aligned, BYTE_ALIGNMENT
<1>1. Aligned(m) /\ Aligned(n) => Aligned(m + n)
    OBVIOUS
<1>2. Aligned(m) /\ Aligned(n) /\ n <= m => Aligned(m - n)
    OBVIOUS
<1>3. /\ AlignUp(n) \in Nat /\ Aligned(AlignUp(n))
      /\ n <= AlignUp(n) /\ AlignUp(n) < n + BYTE_ALIGNMENT
    BY DEF AlignUp
<1>4. AlignDown(n) \in Nat /\ Aligned(AlignDown(n)) /\ AlignDown(n) <= n
    BY DEF AlignDown
<1> QED BY <1>1, <1>2, <1>3, <1>4

(* The region listInit lays out: two aligned addresses.                    *)
LEMMA RegionFacts ==
    /\ alignedHeap \in Nat /\ endNode \in Nat /\ HeapBytes \in Nat
    /\ Aligned(alignedHeap) /\ Aligned(endNode) /\ Aligned(HeapBytes)
    /\ HeapBytes > nodeSize /\ endNode = alignedHeap + HeapBytes
<1>1. alignedHeap \in Nat /\ Aligned(alignedHeap) /\ START_MM <= alignedHeap
    BY HeapAssumption, AlignFacts DEF alignedHeap
<1>2. START_MM + MAX_SIZE - nodeSize \in Int
    BY HeapAssumption DEF nodeSize
<1>3. endNode \in Int /\ endNode <= START_MM + MAX_SIZE - nodeSize
    BY <1>2 DEF endNode, AlignDown, BYTE_ALIGNMENT
<1>4. endNode > alignedHeap + nodeSize
    BY HeapAssumption, <1>1, <1>3 DEF HeapBytes, nodeSize
<1>5. START_MM + MAX_SIZE - nodeSize \in Nat
    BY <1>1, <1>2, <1>3, <1>4 DEF nodeSize
<1>6. endNode \in Nat /\ Aligned(endNode)
    BY <1>5, AlignFacts DEF endNode
<1>7. HeapBytes \in Nat /\ HeapBytes > nodeSize /\ endNode = alignedHeap + HeapBytes
    BY <1>1, <1>4, <1>6 DEF HeapBytes, nodeSize
<1>8. Aligned(HeapBytes)
    BY <1>1, <1>6, <1>4, AlignFacts DEF HeapBytes, nodeSize
<1> QED BY <1>1, <1>6, <1>7, <1>8

(* alloc's check of the unsigned sum: a request that is not refused takes  *)
(* an aligned number of bytes that holds the header and the payload.       *)
LEMMA AdjustedFacts ==
    ASSUME NEW w \in Wanted
    PROVE  /\ w \in Nat
           /\ Adjusted(w) \in Nat /\ Aligned(Adjusted(w))
           /\ Adjusted(w) # 0 => Adjusted(w) - nodeSize >= w
<1> DEFINE sum == (w + nodeSize) % Word
<1>1. w \in Nat /\ w < Word /\ Word \in Nat /\ Word > nodeSize /\ Aligned(Word)
    <2>1. endNode <= START_MM + MAX_SIZE /\ START_MM + MAX_SIZE < Word
        BY HeapAssumption DEF endNode, AlignDown, BYTE_ALIGNMENT, nodeSize
    <2> QED BY <2>1, HeapAssumption, RegionFacts DEF Aligned, nodeSize
<1>2. CASE w = 0 \/ ~(sum > w)
    <2>1. Adjusted(w) = 0
        BY <1>1, <1>2 DEF Adjusted
    <2> QED BY <2>1, <1>1 DEF Aligned, BYTE_ALIGNMENT
<1>3. CASE w > 0 /\ sum > w
    <2>1. w + nodeSize < Word
        BY <1>1, <1>3 DEF nodeSize
    <2>2. sum = w + nodeSize
        BY <1>1, <2>1 DEF nodeSize
    <2>3. w + nodeSize \in Nat
        BY <1>1 DEF nodeSize
    <2> DEFINE up == AlignUp(w + nodeSize)
    <2>4. up \in Nat /\ Aligned(up) /\ w + nodeSize <= up /\ up < w + nodeSize + BYTE_ALIGNMENT
        BY <2>3, AlignFacts
    <2>5. up <= Word
        BY <2>1, <2>3, <2>4, <1>1 DEF Aligned, BYTE_ALIGNMENT
    <2>6. Adjusted(w) = up % Word
        BY <1>3, <2>2 DEF Adjusted
    <2> HIDE DEF up
    <2>7. CASE up = Word
        <3>1. Adjusted(w) = 0
            BY <2>6, <2>7, <1>1 DEF nodeSize
        <3> QED BY <3>1, <1>1 DEF Aligned, BYTE_ALIGNMENT
    <2>8. CASE up < Word
        <3>1. Adjusted(w) = up
            BY <2>4, <2>6, <2>8, <1>1
        <3> QED BY <3>1, <2>3, <2>4, <1>1 DEF nodeSize
    <2> QED BY <2>4, <2>5, <2>7, <2>8, <1>1
<1> QED BY <1>1, <1>2, <1>3

---------------------------------------------------------------------------
(* A block of the region: header and payload lie in it, aligned.           *)
InRegion(b) ==
    /\ b.addr \in Nat /\ b.size \in Nat /\ b.size > 0
    /\ alignedHeap <= b.addr /\ b.addr + b.size <= endNode
    /\ Aligned(b.addr) /\ Aligned(b.size)

Region == {b \in [addr : Nat, size : Nat] : InRegion(b)}

(* Address order with a gap between any two blocks.                        *)
Ordered(list) ==
    \A i, j \in DOMAIN list : i < j => list[i].addr + list[i].size < list[j].addr

GoodList(list) == list \in Seq(Region) /\ Ordered(list)

(* Block c overlaps no block of the list.                                  *)
Clear(list, c) == \A i \in DOMAIN list : Disjoint(c, list[i])

(* r is the list with the blocks behind the first m and in front of the    *)
(* n-th replaced by x.                                                     *)
IsSplice(r, list, m, n, x) ==
    /\ Len(r) = m + 1 + (Len(list) + 1 - n)
    /\ \A i \in 1..Len(r) : r[i] = IF i <= m THEN list[i]
                                   ELSE IF i = m + 1 THEN x ELSE list[i - m - 2 + n]

(* r is the list with b linked into it as block x, in the place of the     *)
(* neighbours it is merged with.                                           *)
Links(r, list, b, m, n, x) ==
    /\ m \in 0..Len(list) /\ n \in (m + 1)..(Len(list) + 1) /\ x \in Region
    /\ IsSplice(r, list, m, n, x)
    /\ \/ n = m + 1 /\ x.size = b.size
       \/ n = m + 2 /\ x.size = b.size + list[m + 1].size
       \/ n = m + 3 /\ x.size = b.size + list[m + 1].size + list[m + 2].size

(* The result of addNodeToFreeList is such a list.                         *)
LEMMA SpliceFacts ==
    ASSUME NEW S, NEW list \in Seq(S), NEW x \in S,
           NEW m \in 0..Len(list), NEW n \in (m + 1)..(Len(list) + 1)
    PROVE  LET r == SubSeq(list, 1, m) \o <<x>> \o SubSeq(list, n, Len(list))
           IN  r \in Seq(S) /\ IsSplice(r, list, m, n, x)
<1> DEFINE a == SubSeq(list, 1, m)
           c == SubSeq(list, n, Len(list))
           ax == a \o <<x>>
           r == ax \o c
<1>1. /\ a \in Seq(S) /\ Len(a) = m /\ m \in Nat /\ n \in Nat /\ Len(list) \in Nat
      /\ \A i \in 1..m : a[i] = list[i]
    OBVIOUS
<1>2. /\ c \in Seq(S) /\ Len(c) = Len(list) + 1 - n
      /\ \A i \in 1..Len(c) : c[i] = list[n + i - 1]
    <2>1. n \in Nat /\ Len(list) \in Nat /\ n >= 1 /\ n <= Len(list) + 1
        OBVIOUS
    <2> QED BY <2>1
<1> HIDE DEF a, c
<1>3. /\ ax \in Seq(S) /\ Len(ax) = m + 1
      /\ \A i \in 1..m : ax[i] = a[i]
      /\ ax[m + 1] = x
    BY <1>1
<1> HIDE DEF ax
<1>4. /\ r \in Seq(S) /\ Len(r) = m + 1 + Len(c)
      /\ \A i \in 1..(m + 1) : r[i] = ax[i]
      /\ \A i \in (m + 2)..Len(r) : r[i] = c[i - (m + 1)]
    <2>1. /\ r \in Seq(S) /\ Len(r) = Len(ax) + Len(c)
          /\ \A i \in 1..(Len(ax) + Len(c)) : r[i] = IF i <= Len(ax) THEN ax[i]
                                                    ELSE c[i - Len(ax)]
        BY <1>2, <1>3, ConcatProperties
    <2>2. Len(c) \in Nat /\ Len(ax) = m + 1 /\ m \in Nat
        BY <1>1, <1>2, <1>3
    <2> HIDE DEF r
    <2> QED BY <2>1, <2>2
<1> HIDE DEF r
<1>5. ASSUME NEW i \in 1..Len(r)
      PROVE  r[i] = IF i <= m THEN list[i]
                    ELSE IF i = m + 1 THEN x ELSE list[i - m - 2 + n]
    <2>1. CASE i <= m
        BY <2>1, <1>1, <1>3, <1>4
    <2>2. CASE i = m + 1
        BY <2>2, <1>1, <1>3, <1>4
    <2>3. CASE i > m + 1
        <3>1. i \in (m + 2)..Len(r) /\ i - (m + 1) \in 1..Len(c)
            BY <2>3, <1>1, <1>2, <1>4
        <3>2. r[i] = list[n + (i - (m + 1)) - 1]
            BY <3>1, <1>2, <1>4
        <3>3. n + (i - (m + 1)) - 1 = i - m - 2 + n
            BY <3>1, <1>1
        <3> QED BY <2>3, <3>2, <3>3, <1>1
    <2> QED BY <2>1, <2>2, <2>3, <1>1, <1>4
<1>6. r \in Seq(S) /\ IsSplice(r, list, m, n, x)
    BY <1>1, <1>2, <1>4, <1>5 DEF IsSplice
<1> QED BY <1>6 DEF r, ax, a, c

(* What a good list says about its blocks.                                 *)
LEMMA GoodFacts ==
    ASSUME NEW list, GoodList(list)
    PROVE  /\ list \in Seq(Region) /\ DOMAIN list = 1..Len(list) /\ Len(list) \in Nat
           /\ \A i \in 1..Len(list) : list[i] \in Region /\ InRegion(list[i])
           /\ \A i, j \in 1..Len(list) :
                i < j => list[i].addr + list[i].size < list[j].addr
<1>1. list \in Seq(Region) /\ DOMAIN list = 1..Len(list) /\ Len(list) \in Nat
    BY DEF GoodList
<1>2. \A i \in 1..Len(list) : list[i] \in Region
    BY <1>1
<1>3. \A i \in 1..Len(list) : InRegion(list[i])
    BY <1>2 DEF Region
<1> QED BY <1>1, <1>2, <1>3 DEF GoodList, Ordered

(* No block is in the list twice.                                          *)
LEMMA NotTwice ==
    ASSUME NEW list, GoodList(list), NEW i \in 1..Len(list), NEW j \in 1..Len(list), i # j
    PROVE  list[i] # list[j]
<1>1. /\ list[i].addr \in Nat /\ list[i].size \in Nat
      /\ list[j].addr \in Nat /\ list[j].size \in Nat
    BY GoodFacts DEF InRegion
<1>2. i < j \/ j < i
    BY GoodFacts
<1>3. CASE i < j
    BY <1>1, <1>3, GoodFacts
<1>4. CASE j < i
    BY <1>1, <1>4, GoodFacts
<1> QED BY <1>2, <1>3, <1>4

(* The walk of addNodeToFreeList stops at a place of the list.             *)
LEMMA PositionFacts ==
    ASSUME NEW list, GoodList(list), NEW a \in Nat
    PROVE  /\ Position(list, a) \in 0..Len(list)
           /\ \A j \in 1..Position(list, a) : list[j].addr < a
           /\ Position(list, a) < Len(list) => list[Position(list, a) + 1].addr >= a
<1>1. Len(list) \in Nat /\ \A i \in 1..Len(list) : list[i].addr \in Nat
    BY GoodFacts DEF InRegion
<1> DEFINE T == {i \in 0..Len(list) : i = Len(list) \/ list[i + 1].addr >= a}
<1>2. T \in SUBSET Nat /\ Len(list) \in T
    BY <1>1
<1>3. PICK i \in T : \A j \in T : i <= j
    BY <1>2, LeastElement
<1>4. i \in 0..Len(list) /\ (i < Len(list) => list[i + 1].addr >= a)
    BY <1>1, <1>3
<1>5. ASSUME NEW j \in 1..i PROVE list[j].addr < a
    <2>1. j - 1 \in 0..Len(list) /\ j - 1 < i /\ j \in 1..Len(list) /\ (j - 1) + 1 = j
        BY <1>1, <1>4
    <2>2. j - 1 \notin T
        BY <1>3, <2>1
    <2>3. ~(list[j].addr >= a)
        BY <2>1, <2>2
    <2> QED BY <2>1, <2>3, <1>1
<1>6. \E n \in 0..Len(list) : /\ \A j \in 1..n : list[j].addr < a
                              /\ n < Len(list) => list[n + 1].addr >= a
    BY <1>4, <1>5
<1> QED BY <1>6 DEF Position

(* Free of a block: the list stays ordered and merged, and it covers no    *)
(* byte that it did not cover before but those of the block.               *)
LEMMA AddFacts ==
    ASSUME NEW list, GoodList(list), NEW b \in Region, Clear(list, b)
    PROVE  /\ GoodList(addNodeToFreeList(list, b))
           /\ \E m, n, x : Links(addNodeToFreeList(list, b), list, b, m, n, x)
           /\ \A c : /\ c.addr \in Nat /\ c.size \in Nat /\ c.size > 0
                     /\ Clear(list, c) /\ Disjoint(c, b)
                     => Clear(addNodeToFreeList(list, b), c)
<1> DEFINE i == Position(list, b.addr)
           prev == i > 0 /\ Adjacent(list[i], b)
           next == i < Len(list) /\ Adjacent(b, list[i + 1])
           withPrev == IF prev THEN [list[i] EXCEPT !.size = @ + b.size] ELSE b
           x == IF next THEN [withPrev EXCEPT !.size = @ + list[i + 1].size] ELSE withPrev
           m == IF prev THEN i - 1 ELSE i
           n == IF next THEN i + 2 ELSE i + 1
           r == SubSeq(list, 1, m) \o <<x>> \o SubSeq(list, n, Len(list))
<1>a. addNodeToFreeList(list, b) = r
    BY DEF addNodeToFreeList
<1>b. /\ b \in [addr : Nat, size : Nat] /\ InRegion(b)
      /\ b.addr \in Nat /\ b.size \in Nat /\ b.size > 0
    BY DEF Region, InRegion
<1>1. /\ i \in 0..Len(list)
      /\ \A j \in 1..i : list[j].addr < b.addr
      /\ i < Len(list) => list[i + 1].addr >= b.addr
    BY <1>b, PositionFacts
<1> HIDE DEF i
<1>2. /\ Len(list) \in Nat /\ list \in Seq(Region) /\ DOMAIN list = 1..Len(list)
      /\ \A j \in 1..Len(list) : list[j] \in Region /\ InRegion(list[j])
      /\ \A j, l \in 1..Len(list) : j < l => list[j].addr + list[j].size < list[l].addr
    BY GoodFacts
<1>3. \A j \in 1..Len(list) :
        /\ list[j].addr \in Nat /\ list[j].size \in Nat /\ list[j].size > 0
        /\ list[j] \in [addr : Nat, size : Nat]
    BY <1>2 DEF InRegion, Region
<1>4. \A j \in 1..i : list[j].addr + list[j].size <= b.addr
    <2> TAKE j \in 1..i
    <2>1. j \in 1..Len(list)
        BY <1>1, <1>2
    <2>2. b.addr + b.size <= list[j].addr \/ list[j].addr + list[j].size <= b.addr
        BY <2>1, <1>2 DEF Clear, Disjoint
    <2> QED BY <2>1, <2>2, <1>1, <1>3, <1>b
<1>5. \A j \in (i + 1)..Len(list) : b.addr + b.size <= list[j].addr
    <2> TAKE j \in (i + 1)..Len(list)
    <2>1. j \in 1..Len(list) /\ i < Len(list) /\ i + 1 \in 1..Len(list)
        BY <1>1, <1>2
    <2>2. b.addr + b.size <= list[j].addr \/ list[j].addr + list[j].size <= b.addr
        BY <2>1, <1>2 DEF Clear, Disjoint
    <2>3. list[j].addr >= b.addr
        <3>1. CASE j = i + 1
            BY <3>1, <2>1, <1>1
        <3>2. CASE j > i + 1
            <4>1. list[i + 1].addr + list[i + 1].size < list[j].addr
                BY <3>2, <2>1, <1>2
            <4> QED BY <4>1, <2>1, <1>1, <1>3, <1>b
        <3> QED BY <3>1, <3>2, <1>1, <1>2
    <2> QED BY <2>1, <2>2, <2>3, <1>3, <1>b
<1>6. m \in 0..Len(list) /\ n \in (m + 1)..(Len(list) + 1)
    BY <1>1, <1>2
(* The merged block runs from lo to hi.                                    *)
<1> DEFINE lo == IF prev THEN list[i].addr ELSE b.addr
           hi == IF next THEN list[i + 1].addr + list[i + 1].size ELSE b.addr + b.size
<1>7. /\ x \in [addr : Nat, size : Nat] /\ x.addr = lo /\ x.addr + x.size = hi
      /\ x.size > 0 /\ Aligned(x.size)
    <2>1. /\ withPrev \in [addr : Nat, size : Nat] /\ withPrev.addr = lo
          /\ withPrev.addr + withPrev.size = b.addr + b.size
          /\ withPrev.size > 0 /\ Aligned(withPrev.size)
        <3>1. CASE prev
            <4>1. i \in 1..Len(list) /\ list[i].addr + list[i].size = b.addr
                BY <3>1, <1>1, <1>2 DEF Adjacent
            <4>2. withPrev = [list[i] EXCEPT !.size = @ + b.size]
                BY <3>1
            <4>3. list[i] \in [addr : Nat, size : Nat] /\ Aligned(list[i].size) /\ Aligned(b.size)
                BY <4>1, <1>2, <1>3, <1>b DEF InRegion
            <4>4. Aligned(list[i].size + b.size)
                BY <4>3, <1>b, AlignFacts
            <4>5. /\ withPrev \in [addr : Nat, size : Nat] /\ withPrev.addr = list[i].addr
                  /\ withPrev.size = list[i].size + b.size
                BY <4>2, <4>3, <1>b
            <4> HIDE DEF withPrev
            <4> QED BY <3>1, <4>1, <4>3, <4>4, <4>5, <1>b
        <3>2. CASE ~prev
            BY <3>2, <1>b DEF InRegion
        <3> QED BY <3>1, <3>2
    <2> HIDE DEF withPrev
    <2>2. CASE next
        <3>1. i + 1 \in 1..Len(list) /\ b.addr + b.size = list[i + 1].addr
            BY <2>2, <1>1, <1>2 DEF Adjacent
        <3>2. x = [withPrev EXCEPT !.size = @ + list[i + 1].size]
            BY <2>2
        <3>3. Aligned(list[i + 1].size) /\ list[i + 1].size \in Nat /\ list[i + 1].addr \in Nat
            BY <3>1, <1>2, <1>3 DEF InRegion
        <3>4. Aligned(withPrev.size + list[i + 1].size)
            BY <2>1, <3>3, AlignFacts
        <3> HIDE DEF x
        <3>5. /\ x \in [addr : Nat, size : Nat] /\ x.addr = withPrev.addr
              /\ x.size = withPrev.size + list[i + 1].size
            BY <2>1, <3>2, <3>3
        <3> HIDE DEF lo
        <3>6. hi = list[i + 1].addr + list[i + 1].size
            BY <2>2
        <3> HIDE DEF hi
        <3> QED BY <2>1, <3>1, <3>3, <3>4, <3>5, <3>6, <1>b
    <2>3. CASE ~next
        BY <2>1, <2>3
    <2> QED BY <2>2, <2>3
<1>c. \/ n = m + 1 /\ x.size = b.size
      \/ n = m + 2 /\ x.size = b.size + list[m + 1].size
      \/ n = m + 3 /\ x.size = b.size + list[m + 1].size + list[m + 2].size
    <2> HIDE DEF x
    <2>1. prev => /\ i \in 1..Len(list) /\ list[i].addr + list[i].size = b.addr
                  /\ list[i].addr \in Nat /\ list[i].size \in Nat
        BY <1>1, <1>2, <1>3 DEF Adjacent
    <2>2. next => /\ i + 1 \in 1..Len(list) /\ b.addr + b.size = list[i + 1].addr
                  /\ list[i + 1].addr \in Nat /\ list[i + 1].size \in Nat
        BY <1>1, <1>2, <1>3 DEF Adjacent
    <2>3. x.addr \in Nat /\ x.size \in Nat /\ i \in Nat
        BY <1>1, <1>7
    <2>4. x.addr = (IF prev THEN list[i].addr ELSE b.addr)
          /\ x.addr + x.size = (IF next THEN list[i + 1].addr + list[i + 1].size ELSE b.addr + b.size)
        BY <1>7
    <2>5. m = (IF prev THEN i - 1 ELSE i) /\ n = (IF next THEN i + 2 ELSE i + 1)
        OBVIOUS
    <2> HIDE DEF prev, next, m, n, lo, hi
    <2>6. CASE prev /\ next
        <3>1. m + 1 = i /\ m + 2 = i + 1 /\ n = m + 3
            BY <2>3, <2>5, <2>6
        <3>2. x.size = list[i].size + b.size + list[i + 1].size
            <4> DEFINE p == list[i]
                       q == list[i + 1]
            <4>1. /\ p.addr \in Nat /\ p.size \in Nat /\ p.addr + p.size = b.addr
                  /\ q.addr \in Nat /\ q.size \in Nat /\ b.addr + b.size = q.addr
                  /\ x.addr = p.addr /\ x.addr + x.size = q.addr + q.size
                BY <2>1, <2>2, <2>4, <2>6
            <4> HIDE DEF p, q
            <4>2. x.size = p.size + b.size + q.size
                BY <4>1, <2>3, <1>b
            <4> QED BY <4>2 DEF p, q
        <3> QED BY <2>1, <2>2, <2>6, <3>1, <3>2, <1>b
    <2>7. CASE prev /\ ~next
        <3>1. m + 1 = i /\ n = m + 2
            BY <2>3, <2>5, <2>7
        <3>2. x.size = list[i].size + b.size
            BY <2>1, <2>3, <2>4, <2>7, <1>b, SMTT(30)
        <3> QED BY <2>1, <2>7, <3>1, <3>2, <1>b
    <2>8. CASE ~prev /\ next
        <3>1. m + 1 = i + 1 /\ n = m + 2
            BY <2>3, <2>5, <2>8
        <3>2. x.size = b.size + list[i + 1].size
            <4> DEFINE q == list[i + 1]
            <4>1. /\ q.addr \in Nat /\ q.size \in Nat /\ b.addr + b.size = q.addr
                  /\ x.addr = b.addr /\ x.addr + x.size = q.addr + q.size
                BY <2>2, <2>4, <2>8
            <4> HIDE DEF q
            <4>2. x.size = b.size + q.size
                BY <4>1, <2>3, <1>b
            <4> QED BY <4>2 DEF q
        <3> QED BY <2>2, <2>8, <3>1, <3>2, <1>b
    <2>9. CASE ~prev /\ ~next
        BY <2>3, <2>4, <2>5, <2>9, <1>b
    <2> QED BY <2>6, <2>7, <2>8, <2>9
<1> HIDE DEF withPrev, x
<1>8. \A j \in 1..m : list[j].addr + list[j].size < lo
    <2> TAKE j \in 1..m
    <2>1. CASE prev
        BY <2>1, <1>1, <1>2
    <2>2. CASE ~prev
        <3>1. j \in 1..i /\ i \in 1..Len(list) /\ lo = b.addr /\ j \in 1..Len(list)
            BY <2>2, <1>1, <1>2
        <3>2. CASE j = i
            <4>1. list[i].addr + list[i].size # b.addr
                BY <2>2, <3>1, <1>1 DEF Adjacent
            <4>2. list[i].addr + list[i].size <= b.addr
                BY <3>1, <3>2, <1>4
            <4>3. list[i].addr + list[i].size \in Nat
                BY <3>1, <1>3
            <4>4. list[i].addr + list[i].size < b.addr
                BY <4>1, <4>2, <4>3, <1>b
            <4> QED BY <3>1, <3>2, <4>4
        <3>3. CASE j < i
            BY <3>1, <3>3, <1>1, <1>2, <1>3, <1>b
        <3> QED BY <3>1, <3>2, <3>3
    <2> QED BY <2>1, <2>2
<1>9. \A j \in n..Len(list) : hi < list[j].addr
    <2> TAKE j \in n..Len(list)
    <2>1. CASE next
        BY <2>1, <1>1, <1>2
    <2>2. CASE ~next
        <3>1. /\ j \in (i + 1)..Len(list) /\ i + 1 \in 1..Len(list) /\ i < Len(list)
              /\ hi = b.addr + b.size /\ j \in 1..Len(list)
            BY <2>2, <1>1, <1>2
        <3>2. CASE j = i + 1
            <4>1. list[i + 1].addr # b.addr + b.size
                BY <2>2, <3>1, <1>1 DEF Adjacent
            <4>2. b.addr + b.size <= list[i + 1].addr
                BY <3>1, <3>2, <1>5
            <4>3. list[i + 1].addr \in Nat
                BY <3>1, <1>3
            <4>4. b.addr + b.size < list[i + 1].addr
                BY <4>1, <4>2, <4>3, <1>b
            <4> QED BY <3>1, <3>2, <4>4
        <3>3. CASE j > i + 1
            <4>1. list[i + 1].addr + list[i + 1].size < list[j].addr
                BY <3>1, <3>3, <1>2
            <4>2. b.addr + b.size <= list[i + 1].addr
                BY <3>1, <1>1, <1>2, <1>5
            <4> QED BY <3>1, <4>1, <4>2, <1>3, <1>b
        <3> QED BY <3>1, <3>2, <3>3
    <2> QED BY <2>1, <2>2
<1>10. x \in Region
    <2>1. alignedHeap <= lo /\ Aligned(lo)
        BY <1>1, <1>2, <1>b DEF InRegion
    <2>2. hi <= endNode
        BY <1>1, <1>2, <1>b DEF InRegion
    <2> QED BY <2>1, <2>2, <1>7 DEF Region, InRegion
<1> HIDE DEF lo, hi
<1>11. r \in Seq(Region) /\ IsSplice(r, list, m, n, x)
    <2> HIDE DEF m, n
    <2> QED BY <1>2, <1>6, <1>10, SpliceFacts
<1> HIDE DEF r
<1>12. /\ Len(r) = m + 1 + (Len(list) + 1 - n) /\ m \in Nat /\ n \in Nat /\ DOMAIN r = 1..Len(r)
       /\ Len(r) \in Nat
       /\ \A j \in 1..Len(r) : r[j] = IF j <= m THEN list[j]
                                      ELSE IF j = m + 1 THEN x ELSE list[j - m - 2 + n]
    <2>1. m \in Nat /\ n \in Nat
        BY <1>6, <1>2
    <2>2. DOMAIN r = 1..Len(r) /\ Len(r) \in Nat
        BY <1>11
    <2> HIDE DEF m, n
    <2> QED BY <2>1, <2>2, <1>11 DEF IsSplice
<1> HIDE DEF m, n
<1>13. \A j \in 1..Len(r) : j > m + 1 => j - m - 2 + n \in n..Len(list) /\ j - m - 2 + n \in 1..Len(list)
    BY <1>2, <1>6, <1>12
<1>14. \A j \in 1..Len(r) : j <= m => j \in 1..m /\ j \in 1..Len(list)
    BY <1>2, <1>6, <1>12
<1>15. Ordered(r)
    <2> SUFFICES ASSUME NEW j \in 1..Len(r), NEW l \in 1..Len(r), j < l
                 PROVE  r[j].addr + r[j].size < r[l].addr
        BY <1>12 DEF Ordered
    <2>1. /\ r[j] = IF j <= m THEN list[j]
                    ELSE IF j = m + 1 THEN x ELSE list[j - m - 2 + n]
          /\ r[l] = IF l <= m THEN list[l]
                    ELSE IF l = m + 1 THEN x ELSE list[l - m - 2 + n]
        BY <1>12
    <2>2. CASE l <= m
        BY <2>1, <2>2, <1>2, <1>12, <1>14
    <2>3. CASE l = m + 1
        <3>1. j \in 1..m /\ r[j] = list[j] /\ r[l] = x
            BY <2>1, <2>3, <1>12
        <3> QED BY <3>1, <1>7, <1>8
    <2>4. CASE l > m + 1 /\ j = m + 1
        <3>1. r[j] = x /\ r[l] = list[l - m - 2 + n] /\ l - m - 2 + n \in n..Len(list)
            BY <2>1, <2>4, <1>12, <1>13
        <3> QED BY <3>1, <1>7, <1>9
    <2>5. CASE l > m + 1 /\ j > m + 1
        <3>1. r[j] = list[j - m - 2 + n] /\ r[l] = list[l - m - 2 + n]
            <4>1. ~(j <= m) /\ j # m + 1 /\ ~(l <= m) /\ l # m + 1
                BY <2>5, <1>12
            <4> QED BY <2>1, <4>1
        <3>2. /\ j - m - 2 + n \in 1..Len(list) /\ l - m - 2 + n \in 1..Len(list)
              /\ j - m - 2 + n < l - m - 2 + n
            BY <2>5, <1>12, <1>13
        <3> QED BY <3>1, <3>2, <1>2
    <2>6. CASE l > m + 1 /\ j <= m
        <3>1. /\ r[j] = list[j] /\ r[l] = list[l - m - 2 + n]
              /\ j \in 1..Len(list) /\ l - m - 2 + n \in 1..Len(list)
              /\ j < l - m - 2 + n
            BY <2>1, <2>6, <1>6, <1>12, <1>13, <1>14
        <3> QED BY <3>1, <1>2
    <2> QED BY <2>2, <2>3, <2>4, <2>5, <2>6, <1>12
<1>16. ASSUME NEW c, c.addr \in Nat, c.size \in Nat, c.size > 0,
              Clear(list, c), Disjoint(c, b)
       PROVE  Clear(r, c)
    <2>1. \A j \in 1..Len(list) : c.addr + c.size <= list[j].addr \/ list[j].addr + list[j].size <= c.addr
        BY <1>16, <1>2 DEF Clear, Disjoint
    <2>2. c.addr + c.size <= lo \/ hi <= c.addr
        <3>1. c.addr + c.size <= b.addr \/ b.addr + b.size <= c.addr
            BY <1>16 DEF Disjoint
        <3>2. prev => i \in 1..Len(list) /\ list[i].addr + list[i].size = b.addr
            BY <1>1, <1>2 DEF Adjacent
        <3>3. next => i + 1 \in 1..Len(list) /\ b.addr + b.size = list[i + 1].addr
            BY <1>1, <1>2 DEF Adjacent
        <3>4. /\ prev => lo = list[i].addr
              /\ ~prev => lo = b.addr
              /\ next => hi = list[i + 1].addr + list[i + 1].size
              /\ ~next => hi = b.addr + b.size
            BY DEF lo, hi
        <3> HIDE DEF prev, next
        <3>5. CASE c.addr + c.size <= b.addr
            <4>1. CASE prev
                <5>1. \/ c.addr + c.size <= list[i].addr
                      \/ list[i].addr + list[i].size <= c.addr
                    BY <4>1, <2>1, <3>2
                <5>2. c.addr + c.size <= list[i].addr
                    BY <5>1, <3>5, <3>2, <4>1, <1>b, <1>16
                <5> QED BY <5>2, <4>1, <3>4
            <4>2. CASE ~prev
                BY <4>2, <3>4, <3>5
            <4> QED BY <4>1, <4>2
        <3>6. CASE b.addr + b.size <= c.addr
            <4>1. CASE next
                <5>1. \/ c.addr + c.size <= list[i + 1].addr
                      \/ list[i + 1].addr + list[i + 1].size <= c.addr
                    BY <4>1, <2>1, <3>3
                <5>2. list[i + 1].addr + list[i + 1].size <= c.addr
                    BY <5>1, <3>6, <3>3, <4>1, <1>b, <1>16
                <5> QED BY <5>2, <4>1, <3>4
            <4>2. CASE ~next
                BY <4>2, <3>4, <3>6
            <4> QED BY <4>1, <4>2
        <3> QED BY <3>1, <3>5, <3>6
    <2> SUFFICES ASSUME NEW j \in 1..Len(r) PROVE Disjoint(c, r[j])
        BY <1>12 DEF Clear
    <2>3. CASE j <= m
        BY <2>1, <2>3, <1>12, <1>14 DEF Disjoint
    <2>4. CASE j = m + 1
        <3>1. r[j] = x
            BY <2>4, <1>12
        <3> QED BY <2>2, <3>1, <1>7 DEF Disjoint
    <2>5. CASE j > m + 1
        <3>1. r[j] = list[j - m - 2 + n] /\ j - m - 2 + n \in 1..Len(list)
            BY <2>5, <1>12, <1>13
        <3> QED BY <2>1, <3>1 DEF Disjoint
    <2> QED BY <2>3, <2>4, <2>5, <1>12
<1>17. GoodList(r)
    BY <1>11, <1>15 DEF GoodList
<1>18. Links(r, list, b, m, n, x)
    BY <1>6, <1>10, <1>11, <1>c DEF Links
<1> QED BY <1>a, <1>16, <1>17, <1>18

(* Taking the i-th block out of the list leaves the others, and they do    *)
(* not overlap it.                                                         *)
LEMMA RemoveFacts ==
    ASSUME NEW list, GoodList(list), NEW i \in DOMAIN list
    PROVE  /\ GoodList(RemoveAt(list, i))
           /\ Clear(RemoveAt(list, i), list[i])
           /\ \A c : Clear(list, c) => Clear(RemoveAt(list, i), c)
           /\ ToSet(RemoveAt(list, i)) = ToSet(list) \ {list[i]}
<1> DEFINE a == SubSeq(list, 1, i - 1)
           z == SubSeq(list, i + 1, Len(list))
           r == a \o z
           at(j) == IF j < i THEN j ELSE j + 1
<1>1. /\ list \in Seq(Region) /\ DOMAIN list = 1..Len(list) /\ Len(list) \in Nat
      /\ \A j \in 1..Len(list) : InRegion(list[j])
      /\ \A j, l \in 1..Len(list) : j < l => list[j].addr + list[j].size < list[l].addr
    BY GoodFacts
<1>2. i \in 1..Len(list)
    BY <1>1
<1>3. a \in Seq(Region) /\ Len(a) = i - 1 /\ \A j \in 1..(i - 1) : a[j] = list[j]
    BY <1>1, <1>2
<1>4. /\ z \in Seq(Region) /\ Len(z) = Len(list) - i
      /\ \A j \in 1..(Len(list) - i) : z[j] = list[i + j]
    <2>1. i + 1 \in Nat /\ i + 1 >= 1 /\ i + 1 <= Len(list) + 1 /\ Len(list) \in Nat
        BY <1>1, <1>2
    <2> QED BY <1>1, <1>2, <2>1
<1> HIDE DEF a, z
<1>5. /\ r \in Seq(Region) /\ Len(r) = Len(a) + Len(z)
      /\ \A j \in 1..(Len(a) + Len(z)) : r[j] = IF j <= Len(a) THEN a[j] ELSE z[j - Len(a)]
    BY <1>3, <1>4, ConcatProperties
<1> HIDE DEF r
<1>6. Len(r) = Len(list) - 1 /\ DOMAIN r = 1..(Len(list) - 1)
    BY <1>1, <1>2, <1>3, <1>4, <1>5
<1>7. ASSUME NEW j \in 1..(Len(list) - 1)
      PROVE  r[j] = list[at(j)] /\ at(j) \in 1..Len(list) /\ at(j) # i
    <2>1. CASE j < i
        BY <2>1, <1>1, <1>2, <1>3, <1>4, <1>5
    <2>2. CASE j >= i
        <3>1. j - (i - 1) \in 1..(Len(list) - i) /\ ~(j <= i - 1) /\ i + (j - (i - 1)) = j + 1
            BY <2>2, <1>1, <1>2
        <3>2. r[j] = z[j - (i - 1)]
            BY <3>1, <1>1, <1>2, <1>3, <1>4, <1>5, SMTT(40)
        <3>3. r[j] = list[j + 1]
            BY <3>1, <3>2, <1>4
        <3> QED BY <3>3, <2>2, <1>1, <1>2
    <2> QED BY <2>1, <2>2, <1>1, <1>2
<1>8. \A j, l \in 1..(Len(list) - 1) : j < l => at(j) < at(l)
    BY <1>1, <1>2
<1>a. ASSUME NEW k \in 1..Len(list), k # i
      PROVE  \E j \in 1..(Len(list) - 1) : at(j) = k
    <2>1. CASE k < i
        <3>1. k \in 1..(Len(list) - 1) /\ at(k) = k
            BY <2>1, <1>1, <1>2
        <3> QED BY <3>1
    <2>2. CASE k > i
        <3>1. k - 1 \in 1..(Len(list) - 1) /\ at(k - 1) = k
            BY <2>2, <1>1, <1>2
        <3> QED BY <3>1
    <2> QED BY <2>1, <2>2, <1>a, <1>1, <1>2
<1> HIDE DEF at
<1>b. ToSet(r) = ToSet(list) \ {list[i]}
    <2>1. ASSUME NEW y \in ToSet(r) PROVE y \in ToSet(list) \ {list[i]}
        <3>1. PICK j \in 1..(Len(list) - 1) : y = r[j]
            BY <1>6 DEF ToSet
        <3>2. y = list[at(j)] /\ at(j) \in 1..Len(list) /\ at(j) # i
            BY <3>1, <1>7
        <3>3. list[at(j)] # list[i]
            BY <3>2, <1>2, NotTwice
        <3> QED BY <3>2, <3>3, <1>1 DEF ToSet
    <2>2. ASSUME NEW y \in ToSet(list), y # list[i] PROVE y \in ToSet(r)
        <3>1. PICK k \in 1..Len(list) : y = list[k]
            BY <1>1 DEF ToSet
        <3>2. k # i
            BY <3>1, <2>2
        <3>3. PICK j \in 1..(Len(list) - 1) : at(j) = k
            BY <3>2, <1>a
        <3>4. y = r[j]
            BY <3>1, <3>3, <1>7
        <3> QED BY <3>4, <1>6 DEF ToSet
    <2> QED BY <2>1, <2>2
<1>9. GoodList(r)
    BY <1>1, <1>5, <1>6, <1>7, <1>8 DEF GoodList, Ordered
<1>10. Clear(r, list[i])
    <2>1. ASSUME NEW l \in 1..Len(list), l # i PROVE Disjoint(list[i], list[l])
        <3>1. /\ list[i].addr \in Nat /\ list[i].size \in Nat
              /\ list[l].addr \in Nat /\ list[l].size \in Nat
            BY <1>1, <1>2 DEF InRegion
        <3>2. CASE l < i
            BY <3>1, <3>2, <1>1, <1>2 DEF Disjoint
        <3>3. CASE i < l
            BY <3>1, <3>3, <1>1, <1>2 DEF Disjoint
        <3> QED BY <2>1, <3>2, <3>3, <1>1, <1>2
    <2> QED BY <2>1, <1>6, <1>7 DEF Clear
<1>11. ASSUME NEW c, Clear(list, c) PROVE Clear(r, c)
    BY <1>1, <1>6, <1>7, <1>11 DEF Clear
<1>12. RemoveAt(list, i) = r
    BY DEF RemoveAt, r, a, z
<1> QED BY <1>9, <1>10, <1>11, <1>12, <1>b

(* searchForBlock: a block of the list that is large enough.               *)
LEMMA FirstFitFacts ==
    ASSUME NEW list, GoodList(list), NEW n \in Nat, Fits(list, n) # {}
    PROVE  FirstFit(list, n) \in DOMAIN list /\ list[FirstFit(list, n)].size >= n
<1>1. Fits(list, n) \in SUBSET Nat
    BY GoodFacts DEF Fits
<1>2. \E i \in Fits(list, n) : \A j \in Fits(list, n) : i <= j
    BY <1>1, LeastElement
<1>3. FirstFit(list, n) \in Fits(list, n)
    BY <1>2 DEF FirstFit
<1> QED BY <1>3 DEF Fits

---------------------------------------------------------------------------
(* The bytes of a block, free or in use, and those of a list of blocks.    *)
SizeOf == [b \in [addr : Nat, size : Nat] \cup [addr : Nat, size : Nat, wanted : Wanted] |-> b.size]
ListBytes(list) == Sum(SizeOf, ToSet(list))

(* The blocks of a list are finitely many, and each has a size.            *)
LEMMA ListSetFacts ==
    ASSUME NEW list, GoodList(list)
    PROVE  /\ IsFiniteSet(ToSet(list))
           /\ \A b \in ToSet(list) : SizeOf[b] = b.size /\ b.size \in Nat
<1>1. IsFiniteSet(1..Len(list)) /\ DOMAIN list = 1..Len(list)
    BY GoodFacts, FS_Interval
<1>2. ToSet(list) = Image(list, 1..Len(list))
    BY <1>1 DEF ToSet, Image
<1>3. \A i \in 1..Len(list) : SizeOf[list[i]] = list[i].size /\ list[i].size \in Nat
    BY GoodFacts DEF Region, SizeOf
<1> DEFINE J == 1..Len(list)
           e == [i \in J |-> SizeOf[list[i]]]
<1>4. /\ \A i, j \in J : list[i] = list[j] => i = j
      /\ \A i \in J : SizeOf[list[i]] \in Int
      /\ \A i \in J : e[i] = SizeOf[list[i]]
    BY <1>3, NotTwice
<1>5. IsFiniteSet(Image(list, J))
    <2> HIDE DEF J
    <2>1. IsFiniteSet(J)
        BY <1>1 DEF J
    <2> QED BY <2>1, ImageFinite
<1>6. ASSUME NEW b \in ToSet(list) PROVE SizeOf[b] = b.size /\ b.size \in Nat
    BY <1>1, <1>3 DEF ToSet
<1> QED BY <1>2, <1>5, <1>6

(* A block that is linked into the list adds its bytes, merged or not.     *)
LEMMA LinkBytes ==
    ASSUME NEW list, GoodList(list), NEW r, GoodList(r), NEW b \in Region,
           NEW m, NEW n, NEW x, Links(r, list, b, m, n, x)
    PROVE  ListBytes(r) = ListBytes(list) + b.size
<1> DEFINE K == {list[j] : j \in {k \in 1..Len(list) : k <= m \/ k >= n}}
           T == ToSet(list)
<1>1. /\ m \in Nat /\ n \in Nat /\ m <= Len(list) /\ m < n /\ n <= Len(list) + 1
      /\ Len(list) \in Nat /\ DOMAIN list = 1..Len(list) /\ DOMAIN r = 1..Len(r)
      /\ Len(r) = m + 1 + (Len(list) + 1 - n)
      /\ \A j \in 1..Len(r) : r[j] = IF j <= m THEN list[j]
                                     ELSE IF j = m + 1 THEN x ELSE list[j - m - 2 + n]
    BY GoodFacts DEF Links, IsSplice
<1>2. ToSet(r) \ {x} = K /\ x \in ToSet(r)
    <2>1. m + 1 \in 1..Len(r) /\ r[m + 1] = x
        BY <1>1
    <2>2. ASSUME NEW y \in ToSet(r), y # x PROVE y \in K
        <3>1. PICK j \in 1..Len(r) : y = r[j]
            BY <1>1 DEF ToSet
        <3>2. CASE j <= m
            BY <3>1, <3>2, <1>1
        <3>3. CASE j > m + 1
            <4>1. j - m - 2 + n \in 1..Len(list) /\ j - m - 2 + n >= n
                BY <3>3, <1>1
            <4>2. y = list[j - m - 2 + n]
                BY <3>1, <3>3, <1>1
            <4> QED BY <4>1, <4>2
        <3>4. j # m + 1
            BY <3>1, <2>1, <2>2
        <3> HIDE DEF K
        <3> QED BY <3>2, <3>3, <3>4, <1>1
    <2>3. ASSUME NEW y \in K PROVE y \in ToSet(r) /\ y # x
        <3>1. PICK k \in 1..Len(list) : y = list[k] /\ (k <= m \/ k >= n)
            OBVIOUS
        <3>2. \E j \in 1..Len(r) : j # m + 1 /\ y = r[j]
            <4>1. CASE k <= m
                <5>1. k \in 1..Len(r) /\ r[k] = list[k] /\ k # m + 1
                    BY <4>1, <1>1, SMTT(30)
                <5> QED BY <5>1, <3>1
            <4>2. CASE k >= n
                <5> DEFINE j == k + m + 2 - n
                <5>1. j \in 1..Len(r) /\ j > m + 1 /\ j - m - 2 + n = k
                    BY <4>2, <1>1, SMTT(30)
                <5> HIDE DEF j
                <5>2. r[j] = list[k]
                    BY <5>1, <1>1
                <5> QED BY <5>1, <5>2, <3>1, <1>1
            <4> QED BY <3>1, <4>1, <4>2
        <3>3. PICK j \in 1..Len(r) : j # m + 1 /\ y = r[j]
            BY <3>2
        <3>4. r[j] # r[m + 1]
            BY <3>3, <2>1, NotTwice
        <3> QED BY <3>3, <3>4, <2>1, <1>1 DEF ToSet
    <2>4. x \in ToSet(r)
        BY <2>1, <1>1 DEF ToSet
    <2> HIDE DEF K
    <2> QED BY <2>2, <2>3, <2>4
<1>3. /\ IsFiniteSet(T) /\ IsFiniteSet(ToSet(r))
      /\ \A y \in T : SizeOf[y] = y.size /\ y.size \in Nat /\ SizeOf[y] \in Int
      /\ \A y \in ToSet(r) : SizeOf[y] = y.size /\ y.size \in Nat /\ SizeOf[y] \in Int
    BY ListSetFacts
<1>4. ListBytes(r) = x.size + Sum(SizeOf, K)
    BY <1>2, <1>3, SumWithout, SMTT(30) DEF ListBytes
<1>5. \A j \in 1..Len(list) : list[j] \in T
    BY <1>1 DEF ToSet
<1>6. \A j \in 1..Len(list) : \A k \in 1..Len(list) : list[k] = list[j] => k = j
    BY NotTwice
<1>7. Sum(SizeOf, K) \in Int
    <2>1. IsFiniteSet(K) /\ \A y \in K : SizeOf[y] \in Int
        <3>1. K \in SUBSET ToSet(r)
            BY <1>2
        <3> HIDE DEF K
        <3> QED BY <3>1, <1>3, FS_Subset
    <2> HIDE DEF K
    <2> QED BY <2>1, SumType
<1>8. CASE n = m + 1 /\ x.size = b.size
    <2>1. T = K
        BY <1>8, <1>1 DEF ToSet
    <2>2. b.size \in Nat
        BY DEF Region
    <2> HIDE DEF K
    <2> QED BY <1>4, <1>7, <1>8, <2>1, <2>2 DEF ListBytes
<1>9. CASE n = m + 2 /\ x.size = b.size + list[m + 1].size
    <2> DEFINE p == list[m + 1]
    <2>1. m + 1 \in 1..Len(list) /\ p \in T
        BY <1>1, <1>5, <1>9
    <2>2. T \ {p} = K
        <3>1. ASSUME NEW y \in K PROVE y \in T /\ y # p
            <4>1. PICK k \in 1..Len(list) : y = list[k] /\ (k <= m \/ k >= n)
                OBVIOUS
            <4>2. k # m + 1
                BY <4>1, <1>1, <1>9
            <4> QED BY <4>1, <4>2, <2>1, <1>5, <1>6
        <3>2. ASSUME NEW y \in T, y # p PROVE y \in K
            <4>1. PICK k \in 1..Len(list) : y = list[k]
                BY <1>1 DEF ToSet
            <4>2. k <= m \/ k >= n
                BY <4>1, <3>2, <1>1, <1>9
            <4> QED BY <4>1, <4>2
        <3> HIDE DEF K, T
        <3> QED BY <3>1, <3>2
    <2>3. Sum(SizeOf, T) = SizeOf[p] + Sum(SizeOf, K)
        <3> HIDE DEF K, p
        <3> QED BY <2>1, <2>2, <1>3, SumWithout
    <2>4. SizeOf[p] = p.size /\ p.size \in Nat /\ b.size \in Nat
        BY <2>1, <1>3 DEF Region
    <2> HIDE DEF K
    <2> QED BY <1>4, <1>7, <1>9, <2>3, <2>4 DEF ListBytes
<1>10. CASE n = m + 3 /\ x.size = b.size + list[m + 1].size + list[m + 2].size
    <2> DEFINE p == list[m + 1]
               q == list[m + 2]
    <2>1. m + 1 \in 1..Len(list) /\ m + 2 \in 1..Len(list) /\ p \in T /\ q \in T /\ p # q
        BY <1>1, <1>5, <1>6, <1>10
    <2>2. (T \ {p}) \ {q} = K
        <3>1. ASSUME NEW y \in K PROVE y \in T /\ y # p /\ y # q
            <4>1. PICK k \in 1..Len(list) : y = list[k] /\ (k <= m \/ k >= n)
                OBVIOUS
            <4>2. k # m + 1 /\ k # m + 2
                BY <4>1, <1>1, <1>10
            <4> QED BY <4>1, <4>2, <2>1, <1>5, <1>6
        <3>2. ASSUME NEW y \in T, y # p, y # q PROVE y \in K
            <4>1. PICK k \in 1..Len(list) : y = list[k]
                BY <1>1 DEF ToSet
            <4>2. k <= m \/ k >= n
                BY <4>1, <3>2, <1>1, <1>10
            <4> QED BY <4>1, <4>2
        <3> HIDE DEF K, T
        <3> QED BY <3>1, <3>2
    <2>3. Sum(SizeOf, T) = SizeOf[p] + Sum(SizeOf, T \ {p})
        <3> HIDE DEF p, T
        <3> QED BY <2>1, <1>3, SumWithout
    <2>4. Sum(SizeOf, T \ {p}) = SizeOf[q] + Sum(SizeOf, K)
        <3> DEFINE U == T \ {p}
        <3>1. IsFiniteSet(U) /\ (\A y \in U : SizeOf[y] \in Int) /\ q \in U /\ U \ {q} = K
            BY <2>1, <2>2, <1>3, FS_Subset
        <3> HIDE DEF K, q, U
        <3>2. Sum(SizeOf, U) = SizeOf[q] + Sum(SizeOf, K)
            BY <3>1, SumWithout
        <3> QED BY <3>2 DEF U
    <2>5. SizeOf[p] = p.size /\ p.size \in Nat /\ b.size \in Nat
          /\ SizeOf[q] = q.size /\ q.size \in Nat
        BY <2>1, <1>3 DEF Region
    <2> HIDE DEF K
    <2> QED BY <1>4, <1>7, <1>10, <2>3, <2>4, <2>5 DEF ListBytes
<1> QED BY <1>8, <1>9, <1>10 DEF Links

---------------------------------------------------------------------------
(* What the caller of alloc holds: a block of the region with room for     *)
(* what it asked for.                                                      *)
GoodUsed(u) ==
    /\ \A b \in u : /\ b \in [addr : Nat, size : Nat, wanted : Wanted]
                    /\ InRegion(b)
                    /\ b.size - nodeSize >= b.wanted
    /\ \A b, c \in u : b # c => Disjoint(b, c)

(* The inductive invariant: a good free list, good blocks in use, and no   *)
(* overlap of the two; before the first alloc there are no blocks.         *)
HeapInv ==
    /\ initialised \in BOOLEAN
    /\ ~initialised => freeList = <<>> /\ used = {}
    /\ GoodList(freeList)
    /\ GoodUsed(used)
    /\ \A b \in used : Clear(freeList, b)

(* The list alloc works on, after the listInit of the first call.          *)
LEMMA ListGood ==
    ASSUME HeapInv
    PROVE  GoodList(List) /\ \A b \in used : Clear(List, b)
<1>1. CASE initialised
    BY <1>1 DEF HeapInv, List
<1>2. CASE ~initialised
    <2>1. List = listInit /\ used = {}
        BY <1>2 DEF HeapInv, List
    <2> DEFINE b == [addr |-> alignedHeap, size |-> HeapBytes]
    <2>2. b \in Region
        BY RegionFacts DEF Region, InRegion, nodeSize
    <2>3. listInit = <<b>> /\ DOMAIN listInit = {1}
        BY DEF listInit
    <2> HIDE DEF b
    <2>4. GoodList(listInit)
        BY <2>2, <2>3 DEF GoodList, Ordered
    <2> QED BY <2>1, <2>4
<1> QED BY <1>1, <1>2

(* alloc that finds a block cuts it from the free list.                    *)
LEMMA AllocStep ==
    ASSUME HeapInv, NEW w \in Wanted, alloc(w)
    PROVE  /\ HeapInv'
           /\ \E u \in [addr : Nat, size : Nat, wanted : Wanted] :
                /\ u \notin used /\ used' = used \cup {u}
                /\ ListBytes(freeList') = ListBytes(List) - u.size
                /\ freeBytesRemaining' = Bytes - u.size
<1> DEFINE n == Adjusted(w)
           i == FirstFit(List, n)
           block == List[i]
           size == Taken(block, n)
           rest == RemoveAt(List, i)
           u == [addr |-> block.addr, size |-> size, wanted |-> w]
           left == [addr |-> block.addr + size, size |-> block.size - size]
<1>1. /\ n # 0 /\ Fits(List, n) # {}
      /\ freeList' = IF size = block.size THEN rest ELSE addNodeToFreeList(rest, left)
      /\ used' = used \cup {u}
      /\ initialised' = TRUE
      /\ freeBytesRemaining' = Bytes - size
    BY DEF alloc
<1>2. n \in Nat /\ Aligned(n) /\ n - nodeSize >= w /\ w \in Nat
    BY <1>1, AdjustedFacts
<1> HIDE DEF n
<1>3. GoodList(List) /\ \A b \in used : Clear(List, b)
    BY ListGood
<1>4. i \in DOMAIN List /\ block.size >= n
    BY <1>1, <1>2, <1>3, FirstFitFacts
<1> HIDE DEF i
<1>5. block \in Region /\ InRegion(block)
    BY <1>3, <1>4, GoodFacts
<1>6. /\ GoodList(rest) /\ Clear(rest, block)
      /\ \A b \in used : Clear(rest, b) /\ Disjoint(b, block)
      /\ ToSet(rest) = ToSet(List) \ {block} /\ block \in ToSet(List)
    BY <1>3, <1>4, RemoveFacts DEF Clear, ToSet
<1> HIDE DEF rest, block
<1>7. block.addr \in Nat /\ block.size \in Nat /\ block.size > 0
    BY <1>5 DEF InRegion
<1>8. /\ size \in Nat /\ n <= size /\ size <= block.size /\ Aligned(size) /\ size > 0
      /\ size # block.size => block.size - size > 0
    BY <1>1, <1>2, <1>4, <1>5, <1>7 DEF Taken, InRegion, MINIMUM_BLOCK_SIZE, nodeSize
<1> HIDE DEF size
<1>9. /\ u \in [addr : Nat, size : Nat, wanted : Wanted]
      /\ u.addr = block.addr /\ u.size = size /\ u.wanted = w
    BY <1>7, <1>8
<1> HIDE DEF u
<1>10. InRegion(u) /\ u.size - nodeSize >= u.wanted
    <2>1. u.size - nodeSize >= u.wanted
        BY <1>2, <1>8, <1>9 DEF nodeSize
    <2>2. u.addr + u.size <= endNode
        BY <1>5, <1>7, <1>8, <1>9, RegionFacts DEF InRegion
    <2> QED BY <2>1, <2>2, <1>5, <1>8, <1>9 DEF InRegion
<1>11. \A b \in used : b.addr \in Nat /\ b.size \in Nat /\ b.size > 0
    BY DEF HeapInv, GoodUsed, InRegion
<1>12. \A b \in used : Disjoint(b, u) /\ Disjoint(u, b)
    BY <1>6, <1>7, <1>8, <1>9, <1>11 DEF Disjoint
<1>13. GoodUsed(used')
    <2>1. GoodUsed(used)
        BY DEF HeapInv
    <2> QED BY <2>1, <1>1, <1>9, <1>10, <1>12 DEF GoodUsed
<1>14. \A j \in DOMAIN rest : rest[j].addr \in Nat /\ rest[j].size \in Nat
    BY <1>6, GoodFacts DEF InRegion
<1>15. Clear(rest, u)
    BY <1>6, <1>7, <1>8, <1>9, <1>14 DEF Clear, Disjoint
<1>17. /\ ListBytes(List) = block.size + ListBytes(rest)
       /\ ListBytes(rest) \in Int
    <2>1. /\ IsFiniteSet(ToSet(List)) /\ IsFiniteSet(ToSet(rest))
          /\ \A b \in ToSet(List) : SizeOf[b] = b.size /\ SizeOf[b] \in Int
          /\ \A b \in ToSet(rest) : SizeOf[b] \in Int
        <3>1. \A b \in ToSet(List) : SizeOf[b] = b.size /\ SizeOf[b] \in Int
            BY <1>3, ListSetFacts
        <3> QED BY <3>1, <1>3, <1>6, ListSetFacts
    <2>2. ListBytes(List) = SizeOf[block] + ListBytes(rest)
        BY <1>6, <2>1, SumWithout DEF ListBytes
    <2>3. ListBytes(rest) \in Int
        BY <2>1, SumType DEF ListBytes
    <2> QED BY <1>6, <2>1, <2>2, <2>3
<1>16. /\ GoodList(freeList') /\ \A b \in used' : Clear(freeList', b)
       /\ ListBytes(freeList') = ListBytes(List) - u.size
    <2>1. CASE size = block.size
        <3>1. freeList' = rest
            BY <1>1, <2>1
        <3> QED BY <2>1, <3>1, <1>1, <1>6, <1>7, <1>9, <1>15, <1>17
    <2>2. CASE size # block.size
        <3>1. freeList' = addNodeToFreeList(rest, left)
            BY <1>1, <2>2
        <3>2. left \in [addr : Nat, size : Nat] /\ left.addr = block.addr + size
              /\ left.size = block.size - size /\ left.size > 0
            BY <2>2, <1>7, <1>8
        <3> HIDE DEF left
        <3>3. Aligned(left.addr) /\ Aligned(left.size)
            BY <3>2, <1>5, <1>7, <1>8, AlignFacts DEF InRegion
        <3>4. alignedHeap <= left.addr /\ left.addr + left.size <= endNode
            BY <3>2, <1>5, <1>7, <1>8, RegionFacts DEF InRegion
        <3>5. left \in Region
            BY <3>2, <3>3, <3>4 DEF Region, InRegion
        <3>6. Clear(rest, left)
            BY <3>2, <1>6, <1>7, <1>8, <1>14 DEF Clear, Disjoint
        <3>7. \A b \in used : Disjoint(b, left)
            BY <3>2, <1>6, <1>7, <1>8, <1>11 DEF Disjoint
        <3>8. Disjoint(u, left)
            BY <3>2, <1>9 DEF Disjoint
        <3>9. GoodList(freeList')
            BY <3>1, <3>5, <3>6, <1>6, AddFacts
        <3>10. \A b \in used : Clear(freeList', b)
            BY <3>1, <3>5, <3>6, <3>7, <1>6, <1>11, AddFacts
        <3>11. Clear(freeList', u)
            BY <3>1, <3>5, <3>6, <3>8, <1>6, <1>8, <1>9, <1>15, AddFacts
        <3>12. ListBytes(freeList') = ListBytes(rest) + left.size
            <4>1. PICK m, k, x : Links(freeList', rest, left, m, k, x)
                BY <3>1, <3>5, <3>6, <1>6, AddFacts
            <4> QED BY <3>5, <3>9, <4>1, <1>6, LinkBytes
        <3>13. ListBytes(freeList') = ListBytes(List) - u.size
            BY <3>2, <3>12, <1>7, <1>8, <1>9, <1>17
        <3> QED BY <3>9, <3>10, <3>11, <3>13, <1>1
    <2> QED BY <2>1, <2>2
<1>18. HeapInv'
    BY <1>1, <1>13, <1>16 DEF HeapInv
<1>19. u \notin used
    BY <1>8, <1>9, <1>12 DEF Disjoint
<1> QED BY <1>1, <1>9, <1>16, <1>18, <1>19

(* free gives a block back to the list.                                    *)
LEMMA FreeStep ==
    ASSUME HeapInv, NEW b \in used, free(b)
    PROVE  /\ HeapInv' /\ initialised
           /\ used' = used \ {b}
           /\ ListBytes(freeList') = ListBytes(freeList) + b.size
           /\ freeBytesRemaining' = freeBytesRemaining + b.size
<1> DEFINE f == [addr |-> b.addr, size |-> b.size]
<1>1. /\ freeList' = addNodeToFreeList(freeList, f) /\ used' = used \ {b}
      /\ initialised' = initialised /\ freeBytesRemaining' = freeBytesRemaining + b.size
    BY DEF free
<1>2. initialised
    BY DEF HeapInv
<1>3. InRegion(b) /\ Clear(freeList, b) /\ GoodList(freeList) /\ GoodUsed(used)
    BY DEF HeapInv, GoodUsed
<1>4. f \in [addr : Nat, size : Nat] /\ f.addr = b.addr /\ f.size = b.size
    BY <1>3 DEF InRegion
<1> HIDE DEF f
<1>5. f \in Region /\ Clear(freeList, f)
    BY <1>3, <1>4 DEF Region, InRegion, Clear, Disjoint
<1>6. GoodUsed(used')
    BY <1>1, <1>3 DEF GoodUsed
<1>7. \A c \in used' : Disjoint(c, f)
    BY <1>1, <1>3, <1>4 DEF GoodUsed, Disjoint
<1>8. \A c \in used' : c.addr \in Nat /\ c.size \in Nat /\ c.size > 0 /\ Clear(freeList, c)
    BY <1>1, <1>3 DEF GoodUsed, InRegion, HeapInv
<1>9. GoodList(freeList')
    BY <1>1, <1>3, <1>5, AddFacts
<1>10. \A c \in used' : Clear(freeList', c)
    BY <1>1, <1>3, <1>5, <1>7, <1>8, AddFacts
<1>11. initialised' \in BOOLEAN /\ initialised'
    BY <1>1, <1>2 DEF HeapInv
<1>12. ListBytes(freeList') = ListBytes(freeList) + f.size
    <2>1. PICK m, n, x : Links(freeList', freeList, f, m, n, x)
        BY <1>1, <1>3, <1>5, AddFacts
    <2> QED BY <2>1, <1>3, <1>5, <1>9, LinkBytes
<1>13. HeapInv'
    BY <1>6, <1>9, <1>10, <1>11 DEF HeapInv
<1> QED BY <1>1, <1>2, <1>4, <1>12, <1>13

(* The invariant holds before the first call and is kept by every call of  *)
(* alloc and free.                                                         *)
LEMMA HeapStart == HeapInit => HeapInv
<1>1. <<>> \in Seq(Region) /\ DOMAIN <<>> = {}
    OBVIOUS
<1>2. GoodList(<<>>)
    BY <1>1, Zenon DEF GoodList, Ordered
<1>3. GoodUsed({})
    BY Zenon DEF GoodUsed
<1> QED BY <1>2, <1>3 DEF HeapInit, HeapInv

(* Every operation of the heap keeps HeapInv.                              *)
LEMMA HeapStep == HeapInv /\ [HeapNext]_heapVars => HeapInv'
<1> SUFFICES ASSUME HeapInv, [HeapNext]_heapVars PROVE HeapInv'
    OBVIOUS
<1>1. ASSUME NEW w \in Wanted, alloc(w) PROVE HeapInv'
    BY <1>1, AllocStep
<1>2. ASSUME NEW w \in Wanted, allocFails(w) PROVE HeapInv'
    <2>1. initialised' = TRUE /\ freeList' = List /\ used' = used
        BY <1>2 DEF allocFails
    <2>2. GoodList(List) /\ \A b \in used : Clear(List, b)
        BY ListGood
    <2> QED BY <2>1, <2>2 DEF HeapInv
<1>3. ASSUME NEW b \in used, free(b) PROVE HeapInv'
    BY <1>3, FreeStep
<1>4. CASE UNCHANGED heapVars
    BY <1>4 DEF heapVars, HeapInv
<1> QED BY <1>1, <1>2, <1>3, <1>4 DEF HeapNext

THEOREM HeapCorrect == HeapSpec => []HeapInv
BY HeapStart, HeapStep, PTL DEF HeapSpec

(* No byte belongs to two blocks, whatever the order of alloc and free.    *)
THEOREM HeapNoOverlap == HeapSpec => []NoOverlap
<1>1. HeapInv => NoOverlap
    <2> SUFFICES ASSUME HeapInv PROVE NoOverlap
        OBVIOUS
    <2>1. \A b \in used, i \in DOMAIN freeList : Disjoint(b, freeList[i])
        BY DEF HeapInv, Clear
    <2>2. \A b \in used : InRegion(b)
        BY DEF HeapInv, GoodUsed
    <2>3. \A b \in ToSet(freeList) : InRegion(b)
        BY GoodFacts DEF HeapInv, ToSet
    <2> QED BY <2>1, <2>2, <2>3 DEF NoOverlap, HeapInv, GoodUsed, InRegion, Aligned
<1> QED BY <1>1, HeapCorrect, PTL

(* free and the split of alloc merge all that can be merged.               *)
THEOREM HeapCoalesced == HeapSpec => []Coalesced
<1>1. HeapInv => Coalesced
    BY DEF HeapInv, GoodList, Ordered, Coalesced
<1> QED BY <1>1, HeapCorrect, PTL

(* The overflow check of alloc is enough: no request, however large, gets  *)
(* a block that is too small for it.                                       *)
THEOREM HeapPayloadFits == HeapSpec => []PayloadFits
<1>1. HeapInv => PayloadFits
    BY DEF HeapInv, GoodUsed, PayloadFits
<1> QED BY <1>1, HeapCorrect, PTL

---------------------------------------------------------------------------
(* The counter is the bytes of the free list, and these with the bytes in  *)
(* use are the bytes of the region.                                        *)
AccountInv ==
    /\ HeapInv
    /\ IsFiniteSet(used)
    /\ initialised => /\ freeBytesRemaining = ListBytes(freeList)
                      /\ freeBytesRemaining + Sum(SizeOf, used) = HeapBytes

(* The bytes in use are a natural number, and each block adds its own.     *)
LEMMA UsedFacts ==
    ASSUME GoodUsed(used), IsFiniteSet(used)
    PROVE  /\ Sum(SizeOf, used) \in Nat
           /\ \A b \in used : SizeOf[b] = b.size /\ b.size \in Nat
<1>1. \A b \in used : SizeOf[b] = b.size /\ b.size \in Nat
    BY DEF GoodUsed, SizeOf
<1>2. \A b \in used : SizeOf[b] \in Nat
    BY <1>1
<1> QED BY <1>1, <1>2, SumNat

(* So are the counter and the list after the listInit of the first call.   *)
LEMMA BytesGood ==
    ASSUME AccountInv
    PROVE  Bytes = ListBytes(List) /\ Bytes + Sum(SizeOf, used) = HeapBytes
<1>1. CASE initialised
    BY <1>1 DEF AccountInv, Bytes, List
<1>2. CASE ~initialised
    <2> DEFINE b == [addr |-> alignedHeap, size |-> HeapBytes]
    <2>1. Bytes = HeapBytes /\ used = {} /\ List = <<b>>
        BY <1>2 DEF AccountInv, HeapInv, Bytes, List, listInit
    <2>2. ToSet(List) = {b}
        BY <2>1 DEF ToSet
    <2>3. SizeOf[b] = HeapBytes /\ HeapBytes \in Nat
        BY RegionFacts DEF SizeOf
    <2> HIDE DEF b
    <2>4. IsFiniteSet({b})
        BY FS_Singleton
    <2>5. Sum(SizeOf, {b}) = SizeOf[b] + Sum(SizeOf, {b} \ {b})
        BY <2>3, <2>4, SumWithout
    <2>6. {b} \ {b} = {} /\ Sum(SizeOf, {}) = 0
        BY SumEmpty
    <2> QED BY <2>1, <2>2, <2>3, <2>5, <2>6 DEF ListBytes
<1> QED BY <1>1, <1>2

(* No byte is lost or counted twice.                                       *)
LEMMA BytesKept == HeapSpec => []AccountInv
<1>1. HeapInit => AccountInv
    <2> SUFFICES ASSUME HeapInit PROVE AccountInv
        OBVIOUS
    <2>1. HeapInv
        BY HeapStart
    <2> QED BY <2>1, FS_EmptySet DEF HeapInit, AccountInv
<1>2. AccountInv /\ [HeapNext]_heapVars => AccountInv'
    <2> SUFFICES ASSUME AccountInv, [HeapNext]_heapVars PROVE AccountInv'
        OBVIOUS
    <2>1. HeapInv /\ HeapInv' /\ GoodUsed(used) /\ IsFiniteSet(used)
        BY HeapStep DEF AccountInv, HeapInv
    <2>2. Bytes = ListBytes(List) /\ Bytes + Sum(SizeOf, used) = HeapBytes
        BY BytesGood
    <2>3. HeapBytes \in Nat /\ Sum(SizeOf, used) \in Nat /\ \A b \in used : SizeOf[b] = b.size /\ b.size \in Nat
        BY <2>1, UsedFacts, RegionFacts
    <2>4. GoodUsed(used')
        BY <2>1 DEF HeapInv
    <2>5. Bytes \in Int
        BY <2>2, <2>1, ListGood, ListSetFacts, SumType DEF ListBytes
    <2>6. ASSUME NEW w \in Wanted, alloc(w) PROVE AccountInv'
        <3>1. PICK u \in [addr : Nat, size : Nat, wanted : Wanted] :
                /\ u \notin used /\ used' = used \cup {u}
                /\ ListBytes(freeList') = ListBytes(List) - u.size
                /\ freeBytesRemaining' = Bytes - u.size
            BY <2>1, <2>6, AllocStep
        <3>2. IsFiniteSet(used')
            BY <2>1, <3>1, FS_AddElement
        <3>3. \A b \in used' : SizeOf[b] = b.size /\ b.size \in Nat /\ SizeOf[b] \in Int
            BY <2>4 DEF GoodUsed, SizeOf
        <3>4. u \in used' /\ used' \ {u} = used
            BY <3>1
        <3>5. Sum(SizeOf, used') = SizeOf[u] + Sum(SizeOf, used)
            BY <3>2, <3>3, <3>4, SumWithout
        <3>6. SizeOf[u] = u.size /\ u.size \in Nat
            BY <3>3, <3>4
        <3> QED BY <2>1, <2>2, <2>3, <2>5, <3>1, <3>2, <3>5, <3>6 DEF AccountInv
    <2>7. ASSUME NEW w \in Wanted, allocFails(w) PROVE AccountInv'
        BY <2>1, <2>2, <2>7 DEF AccountInv, allocFails
    <2>8. ASSUME NEW b \in used, free(b) PROVE AccountInv'
        <3>1. /\ initialised /\ used' = used \ {b}
              /\ ListBytes(freeList') = ListBytes(freeList) + b.size
              /\ freeBytesRemaining' = freeBytesRemaining + b.size
            BY <2>1, <2>8, FreeStep
        <3>2. IsFiniteSet(used')
            BY <2>1, <3>1, FS_Subset
        <3>3. \A c \in used : SizeOf[c] \in Int
            BY <2>3
        <3>4. Sum(SizeOf, used) = SizeOf[b] + Sum(SizeOf, used')
            BY <2>1, <3>1, <3>3, SumWithout
        <3>5. Sum(SizeOf, used') \in Int
            BY <2>4, <3>2, SumType DEF GoodUsed, SizeOf
        <3>6. Bytes = freeBytesRemaining /\ List = freeList
            BY <3>1 DEF Bytes, List
        <3> QED BY <2>1, <2>2, <2>3, <2>5, <3>1, <3>2, <3>4, <3>5, <3>6 DEF AccountInv
    <2>9. CASE UNCHANGED heapVars
        BY <2>1, <2>9 DEF heapVars, AccountInv
    <2> QED BY <2>6, <2>7, <2>8, <2>9 DEF HeapNext
<1> QED BY <1>1, <1>2, PTL DEF HeapSpec

(* The sums of Accounted are those of the invariant.                       *)
LEMMA SumOfSet ==
    ASSUME NEW T, IsFiniteSet(T), \A b \in T : SizeOf[b] = b.size /\ b.size \in Nat
    PROVE  MapThenSumSet(LAMBDA b : b.size, T) = Sum(SizeOf, T)
<1> DEFINE Sized(h) == [s \in SUBSET T |-> IF s = {} THEN 0
                                           ELSE Chosen(s).size + h[s \ {Chosen(s)}]]
           k == CHOOSE h : h = Sized(h)
<1>1. ASSUME NEW h PROVE Sized(h) = Summed(SizeOf, h, SUBSET T)
    <2>1. ASSUME NEW s \in SUBSET T, s # {} PROVE Chosen(s).size = SizeOf[Chosen(s)]
        <3>1. Chosen(s) \in s
            BY <2>1 DEF Chosen
        <3> QED BY <3>1
    <2> QED BY <2>1 DEF Summed
<1>2. \A b \in T : SizeOf[b] \in Int
    OBVIOUS
<1>3. PICK g : g = Summed(SizeOf, g, SUBSET T)
    BY <1>2, SumExists
<1>4. MapThenSumSet(LAMBDA b : b.size, T) = k[T]
    BY DEF MapThenSumSet, MapThenFoldSet, Chosen
<1> HIDE DEF Sized
<1>5. k = Sized(k)
    BY <1>1, <1>3
<1>6. k = Summed(SizeOf, k, SUBSET T)
    BY <1>1, <1>5
<1> HIDE DEF k
<1> QED BY <1>2, <1>4, <1>6, SumIs

(* What Accounted folds over a list is the sum of the sizes of its blocks, *)
(* as no block is in the list twice.                                       *)
LEMMA SumOfList ==
    ASSUME NEW list, GoodList(list)
    PROVE  FoldSeq(LAMBDA b, sum : b.size + sum, 0, list) = ListBytes(list)
<1> DEFINE D == DOMAIN list
           e == [i \in D |-> SizeOf[list[i]]]
           Sized(h) == [s \in SUBSET D |-> IF s = {} THEN 0
                                           ELSE list[Chosen(s)].size + h[s \ {Chosen(s)}]]
           k == CHOOSE h : h = Sized(h)
<1>1. /\ IsFiniteSet(D) /\ Image(list, D) = ToSet(list)
      /\ \A i, j \in D : list[i] = list[j] => i = j
    <2>1. D = 1..Len(list) /\ Len(list) \in Nat
        BY GoodFacts
    <2>2. IsFiniteSet(D)
        BY <2>1, FS_Interval
    <2>3. \A i, j \in 1..Len(list) : list[i] = list[j] => i = j
        BY NotTwice
    <2> QED BY <2>1, <2>2, <2>3 DEF Image, ToSet
<1>2. \A i \in D : SizeOf[list[i]] = list[i].size /\ list[i].size \in Nat
    BY ListSetFacts DEF ToSet
<1>3. \A i \in D : e[i] = SizeOf[list[i]] /\ e[i] = list[i].size /\ e[i] \in Int
    BY <1>2
<1>4. FoldSeq(LAMBDA b, sum : b.size + sum, 0, list) = k[D]
    BY DEF FoldSeq, FoldFunction, FoldFunctionOnSet, MapThenFoldSet, Chosen
<1> HIDE DEF D, e
<1>5. ASSUME NEW h PROVE Sized(h) = Summed(e, h, SUBSET D)
    <2>1. ASSUME NEW s \in SUBSET D, s # {} PROVE list[Chosen(s)].size = e[Chosen(s)]
        <3>1. Chosen(s) \in s
            BY <2>1 DEF Chosen
        <3> QED BY <3>1, <1>3
    <2> QED BY <2>1 DEF Summed
<1> HIDE DEF Sized
<1>6. PICK g : g = Summed(e, g, SUBSET D)
    BY <1>1, <1>3, SumExists
<1>7. k = Sized(k)
    BY <1>5, <1>6
<1>8. k = Summed(e, k, SUBSET D)
    BY <1>5, <1>7
<1> HIDE DEF k
<1>9. Sum(e, D) = k[D]
    BY <1>1, <1>3, <1>8, SumIs
<1>10. Sum(e, D) = Sum(SizeOf, Image(list, D))
    <2>1. (\A i \in D : SizeOf[list[i]] \in Int) /\ (\A i \in D : e[i] = SizeOf[list[i]])
        BY <1>2, <1>3
    <2> QED BY <2>1, <1>1, SumImage, Zenon
<1> QED BY <1>1, <1>4, <1>9, <1>10 DEF ListBytes

(* The counter that alloc trusts is what the free list holds, and no byte  *)
(* is lost: it and the blocks in use are the region.                       *)
THEOREM AccountedCorrect == HeapSpec => []Accounted
<1>1. AccountInv => Accounted
    <2> SUFFICES ASSUME AccountInv PROVE Accounted
        OBVIOUS
    <2>1. GoodList(freeList) /\ GoodUsed(used) /\ IsFiniteSet(used)
        BY DEF AccountInv, HeapInv
    <2>2. FoldSeq(LAMBDA b, sum : b.size + sum, 0, freeList) = ListBytes(freeList)
        BY <2>1, SumOfList
    <2>3. MapThenSumSet(LAMBDA b : b.size, used) = Sum(SizeOf, used)
        BY <2>1, UsedFacts, SumOfSet
    <2> QED BY <2>2, <2>3 DEF AccountInv, Accounted
<1> QED BY <1>1, BytesKept, PTL

(* The variables have their types; the counter stays within the region.    *)
THEOREM HeapTypeCorrect == HeapSpec => []HeapTypeOK
<1>1. AccountInv /\ (~initialised => freeBytesRemaining = 0) => HeapTypeOK
    <2> SUFFICES ASSUME AccountInv, ~initialised => freeBytesRemaining = 0 PROVE HeapTypeOK
        OBVIOUS
    <2>1. /\ GoodList(freeList) /\ GoodUsed(used) /\ IsFiniteSet(used)
          /\ initialised \in BOOLEAN
        BY DEF AccountInv, HeapInv
    <2>2. \A b : InRegion(b) => b.addr \in alignedHeap..endNode /\ b.size \in 1..HeapBytes
        BY RegionFacts DEF InRegion
    <2>3. Region \subseteq Blocks
        BY <2>2 DEF Region, Blocks
    <2>4. freeList \in Seq(Blocks)
        BY <2>1, <2>3 DEF GoodList
    <2>5. used \subseteq UsedBlocks
        BY <2>1, <2>2 DEF GoodUsed, UsedBlocks
    <2>6. freeBytesRemaining \in 0..HeapBytes
        <3>1. CASE initialised
            <4>1. ListBytes(freeList) \in Nat
                <5>1. IsFiniteSet(ToSet(freeList)) /\ \A b \in ToSet(freeList) : SizeOf[b] \in Nat
                    BY <2>1, ListSetFacts
                <5> QED BY <5>1, SumNat DEF ListBytes
            <4>2. Sum(SizeOf, used) \in Nat
                BY <2>1, UsedFacts
            <4> QED BY <3>1, <4>1, <4>2, RegionFacts DEF AccountInv
        <3>2. CASE ~initialised
            BY <3>2, RegionFacts
        <3> QED BY <3>1, <3>2
    <2> QED BY <2>1, <2>4, <2>5, <2>6 DEF HeapTypeOK
<1>2. HeapInit => (~initialised => freeBytesRemaining = 0)
    BY DEF HeapInit
<1>3. (~initialised => freeBytesRemaining = 0) /\ AccountInv /\ [HeapNext]_heapVars
        => (~initialised => freeBytesRemaining = 0)'
    BY DEF HeapNext, alloc, allocFails, free, heapVars, AccountInv, HeapInv
<1> QED BY <1>1, <1>2, <1>3, BytesKept, PTL DEF HeapSpec

---------------------------------------------------------------------------
(***************************************************************************)
(* Clock.                                                                  *)
(*                                                                         *)
(* For every clock whose times, read as numbers, fit in a uint32_t: a time *)
(* that was read in one piece is shown as it was, and two times have       *)
(* different numbers (TimeTold). strToIntBase reads a text figure by       *)
(* figure, from the last.                                                  *)
(***************************************************************************)

(* The function h takes the value first[v] where prev is not asked and     *)
(* otherwise one made of v and of its own value at prev[v].                *)
Recursed(first, asks, prev, Step, h, D) ==
    [v \in D |-> IF v \in asks THEN Step[<<v, h[prev[v]]>>] ELSE first[v]]

(* A value is made of one below it.                                        *)
Descends(asks, prev, D) == \A v \in D : v \in asks => prev[v] \in 0..(v - 1)

(* There is such a function.                                               *)
HasRecursion(first, asks, prev, Step, D, V) ==
    \E h \in [D -> V] : h = Recursed(first, asks, prev, Step, h, D)

(* There is one for every range of numbers: the first value for which      *)
(* there were none has one below it.                                       *)
LEMMA RecursionExists ==
    ASSUME NEW N \in Nat, NEW V, NEW asks, NEW prev, NEW first \in [0..(N - 1) -> V],
           NEW Step \in [(0..(N - 1)) \X V -> V],
           Descends(asks, prev, 0..(N - 1))
    PROVE  HasRecursion(first, asks, prev, Step, 0..(N - 1), V)
<1> DEFINE T == {k \in 0..N : ~\E h \in [0..(k - 1) -> V] :
                                  h = Recursed(first, asks, prev, Step, h, 0..(k - 1))}
<1>1. T = {}
    <2> SUFFICES ASSUME T # {} PROVE FALSE
        OBVIOUS
    <2>1. PICK m \in T : \A j \in T : m <= j
        <3>1. T \in SUBSET Nat
            OBVIOUS
        <3> HIDE DEF T
        <3> QED BY <3>1, LeastElement
    <2>2. /\ m \in 0..N
          /\ ~\E h \in [0..(m - 1) -> V] : h = Recursed(first, asks, prev, Step, h, 0..(m - 1))
        OBVIOUS
    <2>3. CASE m = 0
        <3> DEFINE h == [v \in 0..(m - 1) |-> CHOOSE x \in V : TRUE]
        <3>1. 0..(m - 1) = {}
            BY <2>3
        <3>2. h \in [0..(m - 1) -> V] /\ h = Recursed(first, asks, prev, Step, h, 0..(m - 1))
            BY <3>1 DEF Recursed
        <3> QED BY <2>2, <3>2
    <2>4. CASE m # 0
        <3> DEFINE D == 0..(m - 2)
                   E == 0..(m - 1)
        <3>1. m - 1 \in 0..N /\ ~(m <= m - 1) /\ m - 1 \in 0..(N - 1) /\ (m - 1) - 1 = m - 2
            BY <2>2, <2>4
        <3>2. m - 1 \notin T
            BY <3>1, <2>1
        <3>3. PICK h \in [D -> V] : h = Recursed(first, asks, prev, Step, h, D)
            BY <3>1, <3>2
        <3> DEFINE g == Recursed(first, asks, prev, Step, h, E)
        <3>4. \A v \in E : v \in asks => prev[v] \in D /\ prev[v] \in E
            BY <2>2, <2>4 DEF Descends
        <3>5. \A v \in D : v \in E /\ v \in 0..(N - 1)
            BY <2>2, <2>4
        <3>6. \A v \in E : v \in 0..(N - 1)
            BY <2>2, <2>4
        <3> HIDE DEF D, E
        <3>7. \A v \in D : g[v] = h[v]
            <4> TAKE v \in D
            <4>1. h[v] = IF v \in asks THEN Step[<<v, h[prev[v]]>>] ELSE first[v]
                <5> DEFINE r == Recursed(first, asks, prev, Step, h, D)
                <5>1. r[v] = IF v \in asks THEN Step[<<v, h[prev[v]]>>] ELSE first[v]
                    BY DEF Recursed
                <5> HIDE DEF r
                <5>2. h = r
                    BY <3>3 DEF r
                <5> QED BY <5>1, <5>2
            <4> QED BY <4>1, <3>5 DEF Recursed
        <3>8. g \in [E -> V]
            <4>1. \A v \in E : v \in asks => h[prev[v]] \in V
                BY <3>3, <3>4
            <4>2. \A v \in E : v \in asks => Step[<<v, h[prev[v]]>>] \in V
                BY <4>1, <3>6
            <4> QED BY <4>2, <3>6 DEF Recursed
        <3>9. Recursed(first, asks, prev, Step, h, E) = Recursed(first, asks, prev, Step, g, E)
            <4> HIDE DEF g
            <4> QED BY <3>4, <3>7 DEF Recursed
        <3>10. g = Recursed(first, asks, prev, Step, g, E)
            BY <3>9
        <3> HIDE DEF g
        <3> QED BY <2>2, <3>8, <3>10 DEF E
    <2> QED BY <2>3, <2>4
<1>2. N \in 0..N /\ N \notin T
    <2> HIDE DEF T
    <2> QED BY <1>1
<1> QED BY <1>2 DEF HasRecursion

---------------------------------------------------------------------------
(* Texts of numbers: uintToBase with base ten writes the last figure       *)
(* behind the text of what is left.                                        *)
Figures(v) == uintToBase(v, Decimal)

(* A number below ten is one character; otherwise the last figure follows  *)
(* the text of the rest.                                                   *)
LEMMA FigureSteps ==
    ASSUME NEW v \in 0..(Word32 - 1)
    PROVE  /\ v < Decimal => Figures(v) = <<DigitChar(v)>>
           /\ v >= Decimal => Figures(v) = Append(Figures(v \div Decimal), DigitChar(v % Decimal))
<1> DEFINE D == 0..(Word32 - 1)
           Texts(h) == [u \in D |-> IF u < Decimal THEN <<DigitChar(u)>>
                                    ELSE Append(h[u \div Decimal], DigitChar(u % Decimal))]
           text == CHOOSE h : h = Texts(h)
<1>1. ASSUME NEW u \in Nat PROVE Figures(u) = text[u % Word32]
    BY DEF Figures, uintToBase
<1>2. Word32 \in Nat
    BY Word32Assumption
<1>3. \A u \in D : u \in Nat /\ u % Word32 = u
    BY <1>2
<1>4. \E h : h = Texts(h)
    <2> DEFINE V == Seq(Nat)
               first == [u \in D |-> <<DigitChar(u)>>]
               asks == {u \in D : u >= Decimal}
               prev == [u \in D |-> u \div Decimal]
               Step == [p \in D \X V |-> Append(p[2], DigitChar(p[1] % Decimal))]
    <2>1. \A u \in Nat : DigitChar(u) \in Nat
        BY DEF DigitChar, Zero
    <2>2. first \in [D -> V]
        BY <1>3, <2>1
    <2>3. \A u \in D : u % Decimal \in Nat
        BY <1>3 DEF Decimal
    <2>4. Step \in [D \X V -> V]
        <3>1. ASSUME NEW p \in D \X V PROVE Append(p[2], DigitChar(p[1] % Decimal)) \in V
            <4>1. p[2] \in V /\ DigitChar(p[1] % Decimal) \in Nat
                BY <2>1, <2>3
            <4> QED BY <4>1
        <3> HIDE DEF V, D
        <3> QED BY <3>1
    <2>5. Descends(asks, prev, D)
        <3>1. ASSUME NEW u \in D, u >= 10 PROVE u \div 10 \in 0..(u - 1)
            BY <1>3, <3>1
        <3> QED BY <3>1 DEF Decimal, Descends
    <2> HIDE DEF first, asks, prev, Step, V
    <2>6. PICK h \in [D -> V] : h = Recursed(first, asks, prev, Step, h, D)
        <3>1. HasRecursion(first, asks, prev, Step, D, V)
            BY <1>2, <2>2, <2>4, <2>5, RecursionExists
        <3> QED BY <3>1 DEF HasRecursion
    <2>7. ASSUME NEW u \in D
          PROVE  (IF u \in asks THEN Step[<<u, h[prev[u]]>>] ELSE first[u])
                    = IF u < Decimal THEN <<DigitChar(u)>>
                      ELSE Append(h[u \div Decimal], DigitChar(u % Decimal))
        <3>1. u \in Nat
            BY <1>3
        <3>2. CASE u < Decimal
            <4>1. u \notin asks /\ first[u] = <<DigitChar(u)>>
                BY <3>1, <3>2 DEF asks, first, Decimal
            <4> QED BY <3>2, <4>1
        <3>3. CASE u >= Decimal
            <4>1. u \in asks /\ prev[u] = u \div Decimal /\ ~(u < Decimal)
                BY <3>1, <3>3 DEF asks, prev, Decimal
            <4>2. prev[u] \in D
                BY <3>1, <3>3, <1>2 DEF prev, Decimal
            <4>3. h[prev[u]] \in V
                BY <4>2, <2>6
            <4>4. Step[<<u, h[prev[u]]>>] = Append(h[prev[u]], DigitChar(u % Decimal))
                BY <4>3 DEF Step
            <4> QED BY <4>1, <4>4
        <3> QED BY <3>1, <3>2, <3>3 DEF Decimal
    <2>8. Recursed(first, asks, prev, Step, h, D) = Texts(h)
        BY <2>7 DEF Recursed
    <2> QED BY <2>6, <2>8
<1> DEFINE value(u) == IF u < Decimal THEN <<DigitChar(u)>>
                       ELSE Append(text[u \div Decimal], DigitChar(u % Decimal))
<1>5. \A u \in D : text[u] = value(u)
    <2> HIDE DEF text
    <2>1. text = Texts(text)
        <3> HIDE DEF Texts
        <3> QED BY <1>4 DEF text
    <2> QED BY <2>1
<1> HIDE DEF text
<1>6. CASE v < Decimal
    <2>1. Figures(v) = text[v] /\ ~(v >= Decimal)
        BY <1>1, <1>3, <1>6 DEF Decimal
    <2>2. text[v] = <<DigitChar(v)>>
        BY <1>5, <1>6
    <2> QED BY <1>6, <2>1, <2>2
<1>7. CASE v >= Decimal
    <2>1. v \in Nat /\ v \div Decimal \in D /\ v \div Decimal \in Nat /\ ~(v < Decimal)
        BY <1>2, <1>7 DEF Decimal
    <2>2. Figures(v) = text[v] /\ Figures(v \div Decimal) = text[v \div Decimal]
        BY <2>1, <1>1, <1>3
    <2> QED BY <2>1, <2>2, <1>5
<1> QED BY <1>3, <1>6, <1>7 DEF Decimal

---------------------------------------------------------------------------
(* What strToIntBase makes of figures: a text is read from its first       *)
(* character to its last.                                                  *)
Worth(s) == FoldLeft(LAMBDA n, c : (n * Decimal + Digit(c)) % Word32, 0, s)

(* The last of some places, which the fold takes first.                    *)
Latest(T) == CHOOSE x \in T : \A y \in T : x >= y

(* It is one of them, and without it the places before it are left.        *)
LEMMA LatestIs ==
    ASSUME NEW n \in Nat
    PROVE  /\ \A T \in (SUBSET (1..n)) \ {{}} : Latest(T) \in T
           /\ \A i \in 1..n : Latest(1..i) = i /\ (1..i) \ {i} = 1..(i - 1)
<1>1. ASSUME NEW T \in SUBSET (1..n), T # {} PROVE Latest(T) \in T
    <2> DEFINE U == {k \in 0..n : n - k \in T}
    <2>1. U \in SUBSET Nat /\ U # {}
        <3>1. PICK x \in T : TRUE
            BY <1>1
        <3>2. x \in 1..n /\ n - x \in 0..n /\ n - (n - x) = x
            BY <3>1
        <3> QED BY <3>1, <3>2
    <2>2. \E i \in U : \A j \in U : i <= j
        <3> HIDE DEF U
        <3> QED BY <2>1, LeastElement
    <2>3. PICK i \in U : \A j \in U : i <= j
        BY <2>2
    <2>4. n - i \in T /\ i \in Nat
        BY <2>3
    <2>5. ASSUME NEW y \in T PROVE n - i >= y
        <3>1. y \in 1..n /\ n - y \in 0..n /\ n - (n - y) = y
            BY <1>1
        <3>2. n - y \in U
            BY <3>1
        <3> QED BY <3>1, <3>2, <2>3, <2>4
    <2> QED BY <2>4, <2>5 DEF Latest
<1>2. ASSUME NEW i \in 1..n PROVE Latest(1..i) = i /\ (1..i) \ {i} = 1..(i - 1)
    <2>1. i \in 1..i /\ \A y \in 1..i : i >= y
        OBVIOUS
    <2>2. Latest(1..i) \in 1..i /\ \A y \in 1..i : Latest(1..i) >= y
        BY <2>1 DEF Latest
    <2> QED BY <2>1, <2>2
<1> QED BY <1>1, <1>2

(* k[i] is what the first i characters are worth.                          *)
Parses(k, s, n) ==
    /\ Worth(s) = k[n] /\ k[0] = 0
    /\ \A i \in 1..n : k[i] = (k[i - 1] * Decimal + Digit(s[i])) % Word32

(* The value after each character exists and is the one strToIntBase ends  *)
(* with.                                                                   *)
LEMMA ParseSteps ==
    ASSUME NEW n \in Nat, NEW s \in [1..n -> 0..127]
    PROVE  \E k : Parses(k, s, n)
<1> DEFINE S == 1..n
           V == 0..(Word32 - 1)
           Values(h) == [T \in SUBSET S |-> IF T = {} THEN 0
                            ELSE (h[T \ {Latest(T)}] * Decimal + Digit(s[Latest(T)])) % Word32]
           g == CHOOSE h : h = Values(h)
<1>1. Worth(s) = g[S]
    <2>1. DOMAIN s = S
        OBVIOUS
    <2> QED BY <2>1 DEF Worth, FoldLeft, MapThenFoldSet, Max, Latest
<1>2. Word32 \in Nat /\ Word32 > 0
    BY Word32Assumption
<1>3. \A c \in 0..127 : Digit(c) \in Nat
    BY DEF Digit, toUpper, Nine, Zero
<1>4. \E h : h = Values(h)
    <2> DEFINE C == [T \in SUBSET S |-> Latest(T)]
               F == [p \in S \X V |-> (p[2] * Decimal + Digit(s[p[1]])) % Word32]
    <2>1. Chooses(C, S) /\ IsFiniteSet(S)
        <3>1. IsFiniteSet(S)
            BY FS_Interval
        <3>2. \A T \in (SUBSET S) \ {{}} : Latest(T) \in T
            BY LatestIs
        <3> HIDE DEF S
        <3> QED BY <3>1, <3>2 DEF Chooses
    <2>2. F \in [S \X V -> V]
        <3>1. ASSUME NEW p \in S \X V PROVE (p[2] * Decimal + Digit(s[p[1]])) % Word32 \in V
            <4>1. p[2] \in Nat /\ p[1] \in 1..n
                BY <1>2
            <4>3. s[p[1]] \in 0..127
                BY <4>1
            <4>4. Digit(s[p[1]]) \in Nat
                BY <4>3, <1>3
            <4>2. p[2] * Decimal + Digit(s[p[1]]) \in Nat
                BY <4>1, <4>4 DEF Decimal
            <4> QED BY <4>2, <1>2
        <3> HIDE DEF S, V
        <3> QED BY <3>1
    <2>3. 0 \in V
        BY <1>2
    <2> HIDE DEF C, F, S, V
    <2>4. HasFold(F, C, 0, V, SUBSET S)
        BY <2>1, <2>2, <2>3, FoldExists
    <2>5. PICK h \in [SUBSET S -> V] : h = Folded(F, C, 0, h, SUBSET S)
        BY <2>4 DEF HasFold
    <2>6. ASSUME NEW T \in SUBSET S, T # {}
          PROVE  F[<<C[T], h[T \ {C[T]}]>>] = (h[T \ {Latest(T)}] * Decimal + Digit(s[Latest(T)])) % Word32
        <3>1. C[T] = Latest(T)
            BY DEF C
        <3>2. C[T] \in S
            BY <2>1, <2>6 DEF Chooses
        <3>3. h[T \ {C[T]}] \in V
            BY <2>5
        <3>4. F[<<C[T], h[T \ {C[T]}]>>] = (h[T \ {C[T]}] * Decimal + Digit(s[C[T]])) % Word32
            BY <3>2, <3>3 DEF F
        <3> QED BY <3>1, <3>4
    <2>7. Folded(F, C, 0, h, SUBSET S) = Values(h)
        BY <2>6 DEF Folded
    <2> QED BY <2>5, <2>7
<1>5. g = Values(g)
    <2> HIDE DEF Values
    <2> QED BY <1>4 DEF g
<1> HIDE DEF g
<1>6. g[{}] = 0
    BY <1>5
<1>7. ASSUME NEW i \in 1..n
      PROVE  g[1..i] = (g[1..(i - 1)] * Decimal + Digit(s[i])) % Word32
    <2>1. 1..i \in SUBSET S /\ 1..i # {} /\ Latest(1..i) = i /\ (1..i) \ {i} = 1..(i - 1)
        <3>1. 1..i \in SUBSET S /\ i \in 1..i
            OBVIOUS
        <3>2. Latest(1..i) = i /\ (1..i) \ {i} = 1..(i - 1)
            BY LatestIs
        <3> QED BY <3>1, <3>2
    <2>2. g[1..i] = (g[(1..i) \ {Latest(1..i)}] * Decimal + Digit(s[Latest(1..i)])) % Word32
        <3> DEFINE T == 1..i
        <3>1. T \in SUBSET S /\ T # {}
            BY <2>1
        <3> HIDE DEF T, S
        <3>2. Values(g)[T] = (g[T \ {Latest(T)}] * Decimal + Digit(s[Latest(T)])) % Word32
            BY <3>1
        <3> HIDE DEF Values
        <3>3. g[T] = (g[T \ {Latest(T)}] * Decimal + Digit(s[Latest(T)])) % Word32
            BY <3>2, <1>5
        <3> QED BY <3>3 DEF T
    <2> QED BY <2>1, <2>2
<1> DEFINE k == [i \in 0..n |-> g[1..i]]
<1>8. Worth(s) = k[n] /\ k[0] = 0
    <2>1. 1..0 = {} /\ 0 \in 0..n /\ n \in 0..n
        OBVIOUS
    <2> QED BY <2>1, <1>1, <1>6
<1>9. ASSUME NEW i \in 1..n PROVE k[i] = (k[i - 1] * Decimal + Digit(s[i])) % Word32
    <2>1. i \in 0..n /\ i - 1 \in 0..n
        OBVIOUS
    <2> QED BY <2>1, <1>7
<1> HIDE DEF k
<1> QED BY <1>8, <1>9 DEF Parses

---------------------------------------------------------------------------
(* The time as text, and the number loop reads in it.                      *)
Tens(v)  == Zero + (v \div Decimal)
Units(v) == Zero + (v % Decimal)

(* A field is written with two figures, itoa putting a zero in front of    *)
(* one alone, and they are the value of the field.                         *)
LEMMA TwoFigures ==
    ASSUME NEW v \in 0..98
    PROVE  /\ itoa(getFormat(BCD(v))) = <<Tens(v), Units(v)>>
           /\ Tens(v) \in Zero..Nine /\ Units(v) \in Zero..Nine
           /\ Decimal * (Tens(v) - Zero) + (Units(v) - Zero) = v
<1>1. v \in Nat /\ v \div 10 \in 0..9 /\ v % 10 \in 0..9 /\ 10 * (v \div 10) + (v % 10) = v
    OBVIOUS
<1>2. getFormat(BCD(v)) = v
    <2> DEFINE a == v \div 10
               b == v % 10
    <2>1. a \in 0..9 /\ b \in 0..9 /\ 10 * a + b = v
        BY <1>1
    <2>2. BCD(v) = a * 16 + b
        BY DEF BCD
    <2> HIDE DEF a, b
    <2>3. (a * 16 + b) \div 16 = a /\ (a * 16 + b) % 16 = b /\ a % 16 = a
        BY <2>1
    <2> QED BY <2>1, <2>2, <2>3 DEF getFormat
<1>3. Word32 \in Nat /\ Word32 > 1000
    BY RangeAssumption, Word32Assumption
<1> DEFINE a == v \div 10
           b == v % 10
<1>6. a \in 0..9 /\ b \in 0..9 /\ 10 * a + b = v /\ Tens(v) = 48 + a /\ Units(v) = 48 + b
    BY <1>1 DEF Tens, Units, Zero, Decimal
<1>4. itoa(v) = <<Tens(v), Units(v)>>
    <2>1. CASE v < 10
        <3>1. itoa(v) = <<48, v + 48>>
            BY <2>1 DEF itoa, Zero
        <3> HIDE DEF a, b
        <3>2. Tens(v) = 48 /\ Units(v) = v + 48
            BY <2>1, <1>1, <1>6
        <3> QED BY <3>1, <3>2
    <2>2. CASE v >= 10
        <3>1. itoa(v) = Figures(v)
            BY <1>1, <2>2 DEF itoa, Figures
        <3>2. v \in 0..(Word32 - 1) /\ v \div 10 \in 0..(Word32 - 1)
            BY <1>1, <1>3
        <3>3. Figures(v) = Append(Figures(v \div 10), DigitChar(v % 10))
            BY <2>2, <3>2, FigureSteps DEF Decimal
        <3>4. Figures(v \div 10) = <<DigitChar(v \div 10)>>
            BY <1>1, <3>2, FigureSteps DEF Decimal
        <3> HIDE DEF a, b
        <3>5. DigitChar(a) = Tens(v) /\ DigitChar(b) = Units(v)
            BY <1>6 DEF DigitChar, Zero
        <3>6. Append(<<Tens(v)>>, Units(v)) = <<Tens(v), Units(v)>>
            <4> DEFINE p == <<Tens(v)>>
                       q == <<Tens(v), Units(v)>>
            <4>1. /\ Tens(v) \in Nat /\ Units(v) \in Nat
                  /\ p \in Seq(Nat) /\ Len(p) = 1 /\ p[1] = Tens(v)
                  /\ q \in Seq(Nat) /\ Len(q) = 2 /\ q[1] = Tens(v) /\ q[2] = Units(v)
                BY <1>6
            <4> HIDE DEF p, q
            <4> DEFINE r == Append(p, Units(v))
            <4>2. /\ r \in Seq(Nat) /\ Len(r) = Len(p) + 1 /\ r[Len(p) + 1] = Units(v)
                  /\ \A i \in 1..Len(p) : r[i] = p[i]
                <5> DEFINE e == Units(v)
                <5>1. p \in Seq(Nat) /\ e \in Nat
                    BY <4>1
                <5> HIDE DEF e
                <5>2. /\ Append(p, e) \in Seq(Nat) /\ Len(Append(p, e)) = Len(p) + 1
                      /\ \A i \in 1..Len(p) : Append(p, e)[i] = p[i]
                      /\ Append(p, e)[Len(p) + 1] = e
                    BY <5>1, AppendProperties
                <5> QED BY <5>2 DEF e
            <4> HIDE DEF r
            <4>3. Len(r) = 2 /\ r[1] = Tens(v) /\ r[2] = Units(v)
                BY <4>1, <4>2
            <4>4. Len(r) = Len(q) /\ \A i \in 1..Len(r) : r[i] = q[i]
                BY <4>1, <4>3
            <4>5. r = q
                BY <4>1, <4>2, <4>4, SeqEqual
            <4> QED BY <4>5 DEF r, p, q
        <3> QED BY <3>1, <3>3, <3>4, <3>5, <3>6 DEF a, b
    <2> QED BY <2>1, <2>2, <1>1
<1>5. /\ Tens(v) \in Zero..Nine /\ Units(v) \in Zero..Nine
      /\ Decimal * (Tens(v) - Zero) + (Units(v) - Zero) = v
    <2> HIDE DEF a, b
    <2> QED BY <1>6 DEF Zero, Nine, Decimal
<1> QED BY <1>2, <1>4, <1>5

(* The characters of two texts behind each other.                          *)
Joins(r, s, u, m, n) ==
    /\ r \in Seq(Nat) /\ Len(r) = m + n
    /\ \A i \in 1..m : r[i] = s[i]
    /\ \A i \in (m + 1)..(m + n) : r[i] = u[i - m]

(* Where the characters of a concatenation come from.                      *)
LEMMA JoinAt ==
    ASSUME NEW s \in Seq(Nat), NEW u \in Seq(Nat)
    PROVE  Joins(s \o u, s, u, Len(s), Len(u))
<1>1. /\ s \o u \in Seq(Nat) /\ Len(s \o u) = Len(s) + Len(u)
      /\ \A i \in 1..(Len(s) + Len(u)) :
            (s \o u)[i] = IF i <= Len(s) THEN s[i] ELSE u[i - Len(s)]
    BY ConcatProperties
<1>2. Len(s) \in Nat /\ Len(u) \in Nat
    OBVIOUS
<1> QED BY <1>1, <1>2 DEF Joins

(* The eight characters of a time.                                         *)
Character(c) == <<Tens(c[1]), Units(c[1]), Colon, Tens(c[2]), Units(c[2]), Colon,
                  Tens(c[3]), Units(c[3])>>

(* The text of a time has these eight characters.                          *)
LEMMA TextOfTime ==
    ASSUME NEW c \in [Fields -> 0..98]
    PROVE  TimeText(c) = Character(c) /\ TimeText(c) \in [1..8 -> 0..127]
<1>1. c[1] \in 0..98 /\ c[2] \in 0..98 /\ c[3] \in 0..98
    BY DEF Fields
<1>2. TimeText(c) = <<Tens(c[1]), Units(c[1])>> \o <<Colon>> \o <<Tens(c[2]), Units(c[2])>>
                        \o <<Colon>> \o <<Tens(c[3]), Units(c[3])>>
    BY <1>1, TwoFigures DEF TimeText
<1>3. /\ Tens(c[1]) \in Zero..Nine /\ Units(c[1]) \in Zero..Nine
      /\ Tens(c[2]) \in Zero..Nine /\ Units(c[2]) \in Zero..Nine
      /\ Tens(c[3]) \in Zero..Nine /\ Units(c[3]) \in Zero..Nine
    BY <1>1, TwoFigures
<1>4. TimeText(c) = Character(c)
    <2> DEFINE A1 == Tens(c[1])
               A2 == Units(c[1])
               B1 == Tens(c[2])
               B2 == Units(c[2])
               C1 == Tens(c[3])
               C2 == Units(c[3])
    <2>1. /\ A1 \in Nat /\ A2 \in Nat /\ B1 \in Nat /\ B2 \in Nat /\ C1 \in Nat /\ C2 \in Nat
          /\ Colon \in Nat
        BY <1>3 DEF Zero, Nine, Colon
    <2>2. /\ TimeText(c) = <<A1, A2>> \o <<Colon>> \o <<B1, B2>> \o <<Colon>> \o <<C1, C2>>
          /\ Character(c) = <<A1, A2, Colon, B1, B2, Colon, C1, C2>>
        BY <1>2 DEF Character
    <2> HIDE DEF A1, A2, B1, B2, C1, C2
    <2> DEFINE p == <<A1, A2>>
               q == <<Colon>>
               r == <<B1, B2>>
               z == <<C1, C2>>
               e == <<A1, A2, Colon, B1, B2, Colon, C1, C2>>
    <2>3. /\ p \in Seq(Nat) /\ Len(p) = 2 /\ p[1] = A1 /\ p[2] = A2
          /\ q \in Seq(Nat) /\ Len(q) = 1 /\ q[1] = Colon
          /\ r \in Seq(Nat) /\ Len(r) = 2 /\ r[1] = B1 /\ r[2] = B2
          /\ z \in Seq(Nat) /\ Len(z) = 2 /\ z[1] = C1 /\ z[2] = C2
        BY <2>1
    <2>4. /\ e \in Seq(Nat) /\ Len(e) = 8
          /\ e[1] = A1 /\ e[2] = A2 /\ e[3] = Colon /\ e[4] = B1
          /\ e[5] = B2 /\ e[6] = Colon /\ e[7] = C1 /\ e[8] = C2
        BY <2>1
    <2>5. TimeText(c) = p \o q \o r \o q \o z /\ Character(c) = e
        BY <2>2
    <2> HIDE DEF p, q, r, z, e
    <2> DEFINE u == p \o q
               v == u \o r
               w == v \o q
               x == w \o z
    <2>6. /\ u \in Seq(Nat) /\ Len(u) = 3
          /\ u[1] = A1 /\ u[2] = A2 /\ u[3] = Colon
        <3>1. Joins(u, p, q, 2, 1)
            BY <2>3, JoinAt
        <3> HIDE DEF u
        <3> QED BY <2>3, <3>1 DEF Joins
    <2> HIDE DEF u
    <2>7. /\ v \in Seq(Nat) /\ Len(v) = 5
          /\ v[1] = A1 /\ v[2] = A2 /\ v[3] = Colon /\ v[4] = B1 /\ v[5] = B2
        <3>1. Joins(v, u, r, 3, 2)
            BY <2>3, <2>6, JoinAt
        <3> HIDE DEF v
        <3> QED BY <2>3, <2>6, <3>1 DEF Joins
    <2> HIDE DEF v
    <2>8. /\ w \in Seq(Nat) /\ Len(w) = 6
          /\ w[1] = A1 /\ w[2] = A2 /\ w[3] = Colon /\ w[4] = B1 /\ w[5] = B2 /\ w[6] = Colon
        <3>1. Joins(w, v, q, 5, 1)
            BY <2>3, <2>7, JoinAt
        <3> HIDE DEF w
        <3> QED BY <2>3, <2>7, <3>1 DEF Joins
    <2> HIDE DEF w
    <2>9. /\ x \in Seq(Nat) /\ Len(x) = 8
          /\ x[1] = A1 /\ x[2] = A2 /\ x[3] = Colon /\ x[4] = B1 /\ x[5] = B2 /\ x[6] = Colon /\ x[7] = C1 /\ x[8] = C2
        <3>1. Joins(x, w, z, 6, 2)
            BY <2>3, <2>8, JoinAt
        <3> HIDE DEF x
        <3> QED BY <2>3, <2>8, <3>1 DEF Joins
    <2>10. TimeText(c) = x
        BY <2>5 DEF u, v, w
    <2> HIDE DEF x
    <2>11. x = e
        <3>1. \A n \in 1..8 : x[n] = e[n]
            BY <2>4, <2>9
        <3>2. x \in [1..8 -> Nat] /\ e \in [1..8 -> Nat]
            BY <2>4, <2>9, LenProperties
        <3> QED BY <3>1, <3>2
    <2> QED BY <2>5, <2>10, <2>11
<1>5. Character(c) \in [1..8 -> 0..127]
    BY <1>3 DEF Character, Zero, Nine, Colon
<1> QED BY <1>4, <1>5

(* A figure read without an overflow.                                      *)
LEMMA NoWrap ==
    ASSUME NEW w \in Nat, NEW m \in Nat, NEW d \in 0..9, 10 * m + d < w
    PROVE  (m * 10 + d) % w = 10 * m + d
<1>1. m * 10 + d = 10 * m + d /\ 10 * m + d \in Nat
    OBVIOUS
<1> DEFINE x == 10 * m + d
<1>2. x \in Nat /\ x < w
    BY <1>1
<1> HIDE DEF x
<1>3. x % w = x
    BY <1>2
<1> QED BY <1>1, <1>3 DEF x

(* The value of the text, its colons (10 above the figure 0) read as       *)
(* figures.                                                                *)
InPlaces(x, y, z) == 1000000 * x + 300000 + 1000 * y + 300 + z
Number(c) == InPlaces(c[1], c[2], c[3])

(* TimeNumber reads the text without an overflow.                          *)
LEMMA NumberOfTime ==
    ASSUME NEW c \in Clocks
    PROVE  /\ TimeNumber(TimeText(c)) = AsInt(Number(c))
           /\ Number(c) \in 0..(Word32 - 1)
<1>1. /\ c \in [Fields -> 0..98] /\ c[1] \in 0..98 /\ c[2] \in 0..98 /\ c[3] \in 0..98
      /\ c[1] < Range_[1]
    BY DEF Clocks, Fields
<1>2. Word32 \in Nat /\ Range_[1] \in Nat /\ 1000000 * (c[1] + 1) <= Word32
    BY <1>1, RangeAssumption, Word32Assumption
<1>3. Number(c) \in 0..(Word32 - 1)
    <2> DEFINE a == c[1]
               b == c[2]
               d == c[3]
    <2>1. a \in 0..98 /\ b \in 0..98 /\ d \in 0..98 /\ 1000000 * (a + 1) <= Word32
        BY <1>1, <1>2
    <2>2. Number(c) = 1000000 * a + 300000 + 1000 * b + 300 + d
        BY DEF Number, InPlaces
    <2> HIDE DEF a, b, d
    <2> QED BY <2>1, <2>2, <1>2
<1> DEFINE s == TimeText(c)
           A1 == Tens(c[1]) - Zero
           A2 == Units(c[1]) - Zero
           B1 == Tens(c[2]) - Zero
           B2 == Units(c[2]) - Zero
           C1 == Tens(c[3]) - Zero
           C2 == Units(c[3]) - Zero
<1>4. s = Character(c) /\ s \in [1..8 -> 0..127]
    BY <1>1, TextOfTime
<1>5. /\ Tens(c[1]) \in Zero..Nine /\ Units(c[1]) \in Zero..Nine /\ 10 * A1 + A2 = c[1]
      /\ Tens(c[2]) \in Zero..Nine /\ Units(c[2]) \in Zero..Nine /\ 10 * B1 + B2 = c[2]
      /\ Tens(c[3]) \in Zero..Nine /\ Units(c[3]) \in Zero..Nine /\ 10 * C1 + C2 = c[3]
    BY <1>1, TwoFigures DEF Decimal
<1>6. A1 \in 0..9 /\ A2 \in 0..9 /\ B1 \in 0..9 /\ B2 \in 0..9 /\ C1 \in 0..9 /\ C2 \in 0..9
    BY <1>5 DEF Zero, Nine
<1>7. /\ Digit(s[1]) = A1 /\ Digit(s[2]) = A2 /\ Digit(s[3]) = 3
      /\ Digit(s[4]) = B1 /\ Digit(s[5]) = B2 /\ Digit(s[6]) = 3
      /\ Digit(s[7]) = C1 /\ Digit(s[8]) = C2
    <2>1. \A x \in Zero..Nine : Digit(x) = x - Zero
        BY DEF Digit, Zero, Nine
    <2>2. Digit(Colon) = 3
        BY DEF Digit, toUpper, Colon, Nine
    <2>3. /\ s[1] = Tens(c[1]) /\ s[2] = Units(c[1]) /\ s[3] = Colon
          /\ s[4] = Tens(c[2]) /\ s[5] = Units(c[2]) /\ s[6] = Colon
          /\ s[7] = Tens(c[3]) /\ s[8] = Units(c[3])
        <3> HIDE DEF s
        <3> QED BY <1>4 DEF Character
    <2> HIDE DEF s
    <2> QED BY <2>1, <2>2, <2>3, <1>5
<1>8. \A n \in 1..8 : Digit(s[n]) \in 0..9
    <2> HIDE DEF s, A1, A2, B1, B2, C1, C2
    <2> QED BY <1>6, <1>7
<1> HIDE DEF s
<1>9. Len(s) = 8 /\ s # <<>>
    BY <1>4 DEF Character
<1>10. TimeNumber(s) = AsInt(Worth(s) % Word32)
    <2>1. {n \in 1..Len(s) : Digit(s[n]) >= Decimal} = {}
        BY <1>8, <1>9 DEF Decimal
    <2> QED BY <2>1, <1>9 DEF TimeNumber, strToIntBase, Worth
<1>11. PICK k : /\ Worth(s) = k[8] /\ k[0] = 0
                /\ \A i \in 1..8 : k[i] = (k[i - 1] * Decimal + Digit(s[i])) % Word32
    <2>1. \E k : Parses(k, s, 8)
        BY <1>4, ParseSteps
    <2> QED BY <2>1 DEF Parses
<1> HIDE DEF A1, A2, B1, B2, C1, C2
<1>12. /\ k[1] = (k[0] * 10 + A1) % Word32 /\ k[2] = (k[1] * 10 + A2) % Word32
       /\ k[3] = (k[2] * 10 + 3) % Word32 /\ k[4] = (k[3] * 10 + B1) % Word32
       /\ k[5] = (k[4] * 10 + B2) % Word32 /\ k[6] = (k[5] * 10 + 3) % Word32
       /\ k[7] = (k[6] * 10 + C1) % Word32 /\ k[8] = (k[7] * 10 + C2) % Word32
    <2>1. \A i \in 1..8 : k[i] = (k[i - 1] * 10 + Digit(s[i])) % Word32
        BY <1>11 DEF Decimal
    <2> QED BY <2>1, <1>7
<1> DEFINE v1 == A1
           v2 == 10 * v1 + A2
           v3 == 10 * v2 + 3
           v4 == 10 * v3 + B1
           v5 == 10 * v4 + B2
           v6 == 10 * v5 + 3
           v7 == 10 * v6 + C1
           v8 == 10 * v7 + C2
<1>13. v1 \in Nat /\ v1 = A1
    BY <1>6
<1> HIDE DEF v1
<1>14. v2 \in Nat /\ v2 = 10 * v1 + A2
    BY <1>6, <1>13
<1> HIDE DEF v2
<1>15. v3 \in Nat /\ v3 = 10 * v2 + 3
    BY <1>6, <1>14
<1> HIDE DEF v3
<1>16. v4 \in Nat /\ v4 = 10 * v3 + B1
    BY <1>6, <1>15
<1> HIDE DEF v4
<1>17. v5 \in Nat /\ v5 = 10 * v4 + B2
    BY <1>6, <1>16
<1> HIDE DEF v5
<1>18. v6 \in Nat /\ v6 = 10 * v5 + 3
    BY <1>6, <1>17
<1> HIDE DEF v6
<1>19. v7 \in Nat /\ v7 = 10 * v6 + C1
    BY <1>6, <1>18
<1> HIDE DEF v7
<1>20. v8 \in Nat /\ v8 = 10 * v7 + C2
    BY <1>6, <1>19
<1> HIDE DEF v8
<1>21. v8 = Number(c)
    <2>1. /\ c[1] = 10 * A1 + A2 /\ c[2] = 10 * B1 + B2 /\ c[3] = 10 * C1 + C2
        BY <1>5
    <2>2. Number(c) = 1000000 * (10 * A1 + A2) + 300000 + 1000 * (10 * B1 + B2) + 300 + (10 * C1 + C2)
        BY <2>1 DEF Number, InPlaces
    <2> QED BY <2>2, <1>6, <1>13, <1>14, <1>15, <1>16, <1>17, <1>18, <1>19, <1>20
<1>22. /\ v1 < Word32 /\ v2 < Word32 /\ v3 < Word32 /\ v4 < Word32
       /\ v5 < Word32 /\ v6 < Word32 /\ v7 < Word32 /\ v8 < Word32
    BY <1>2, <1>3, <1>6, <1>13, <1>14, <1>15, <1>16, <1>17, <1>18, <1>19, <1>20, <1>21
<1>23. k[1] = v1
    <2>1. k[1] = (0 * 10 + A1) % Word32
        BY <1>11, <1>12
    <2>2. 10 * 0 + A1 = A1 /\ 10 * 0 + A1 < Word32
        BY <1>6, <1>13, <1>22
    <2> QED BY <2>1, <2>2, <1>2, <1>6, <1>13, NoWrap
<1>24. k[2] = v2
    <2>1. 10 * v1 + A2 < Word32 /\ v1 \in Nat /\ A2 \in 0..9 /\ Word32 \in Nat
        BY <1>2, <1>6, <1>13, <1>14, <1>22
    <2>2. (v1 * 10 + A2) % Word32 = 10 * v1 + A2
        BY <2>1, NoWrap
    <2> QED BY <2>2, <1>12, <1>14, <1>23, Zenon
<1>25. k[3] = v3
    <2>1. 10 * v2 + 3 < Word32 /\ v2 \in Nat /\ 3 \in 0..9 /\ Word32 \in Nat
        BY <1>2, <1>6, <1>14, <1>15, <1>22
    <2>2. (v2 * 10 + 3) % Word32 = 10 * v2 + 3
        BY <2>1, NoWrap
    <2> QED BY <2>2, <1>12, <1>15, <1>24, Zenon
<1>26. k[4] = v4
    <2>1. 10 * v3 + B1 < Word32 /\ v3 \in Nat /\ B1 \in 0..9 /\ Word32 \in Nat
        BY <1>2, <1>6, <1>15, <1>16, <1>22
    <2>2. (v3 * 10 + B1) % Word32 = 10 * v3 + B1
        BY <2>1, NoWrap
    <2> QED BY <2>2, <1>12, <1>16, <1>25, Zenon
<1>27. k[5] = v5
    <2>1. 10 * v4 + B2 < Word32 /\ v4 \in Nat /\ B2 \in 0..9 /\ Word32 \in Nat
        BY <1>2, <1>6, <1>16, <1>17, <1>22
    <2>2. (v4 * 10 + B2) % Word32 = 10 * v4 + B2
        BY <2>1, NoWrap
    <2> QED BY <2>2, <1>12, <1>17, <1>26, Zenon
<1>28. k[6] = v6
    <2>1. 10 * v5 + 3 < Word32 /\ v5 \in Nat /\ 3 \in 0..9 /\ Word32 \in Nat
        BY <1>2, <1>6, <1>17, <1>18, <1>22
    <2>2. (v5 * 10 + 3) % Word32 = 10 * v5 + 3
        BY <2>1, NoWrap
    <2> QED BY <2>2, <1>12, <1>18, <1>27, Zenon
<1>29. k[7] = v7
    <2>1. 10 * v6 + C1 < Word32 /\ v6 \in Nat /\ C1 \in 0..9 /\ Word32 \in Nat
        BY <1>2, <1>6, <1>18, <1>19, <1>22
    <2>2. (v6 * 10 + C1) % Word32 = 10 * v6 + C1
        BY <2>1, NoWrap
    <2> QED BY <2>2, <1>12, <1>19, <1>28, Zenon
<1>30. k[8] = v8
    <2>1. 10 * v7 + C2 < Word32 /\ v7 \in Nat /\ C2 \in 0..9 /\ Word32 \in Nat
        BY <1>2, <1>6, <1>19, <1>20, <1>22
    <2>2. (v7 * 10 + C2) % Word32 = 10 * v7 + C2
        BY <2>1, NoWrap
    <2> QED BY <2>2, <1>12, <1>20, <1>29, Zenon
<1>31. Worth(s) % Word32 = Number(c)
    BY <1>2, <1>3, <1>11, <1>21, <1>30
<1> QED BY <1>3, <1>10, <1>31 DEF s

(* It tells any two times apart: their fields do not run into each other.  *)
LEMMA NumbersDiffer ==
    ASSUME NEW c \in Clocks, NEW d \in Clocks
    PROVE  TimeNumber(TimeText(c)) = TimeNumber(TimeText(d)) <=> c = d
<1>1. Word32 \in Nat /\ Word32 % 2 = 0
    BY Word32Assumption
<1>2. \A a, b \in 0..(Word32 - 1) : AsInt(a) = AsInt(b) => a = b
    BY <1>1 DEF AsInt
<1>3. ASSUME Number(c) = Number(d) PROVE c = d
    <2>1. /\ c[1] \in 0..98 /\ c[2] \in 0..98 /\ c[3] \in 0..98
          /\ d[1] \in 0..98 /\ d[2] \in 0..98 /\ d[3] \in 0..98
          /\ c \in [Fields -> 0..98] /\ d \in [Fields -> 0..98]
        BY DEF Clocks, Fields
    <2>2. InPlaces(c[1], c[2], c[3]) = InPlaces(d[1], d[2], d[3])
        BY <1>3 DEF Number
    <2>3. c[1] = d[1] /\ c[2] = d[2] /\ c[3] = d[3]
        <3> DEFINE x == c[1]
                   y == c[2]
                   z == c[3]
                   u == d[1]
                   v == d[2]
                   w == d[3]
        <3>1. /\ x \in 0..98 /\ y \in 0..98 /\ z \in 0..98
              /\ u \in 0..98 /\ v \in 0..98 /\ w \in 0..98
              /\ InPlaces(x, y, z) = InPlaces(u, v, w)
            BY <2>1, <2>2
        <3> HIDE DEF x, y, z, u, v, w
        <3>2. x = u /\ y = v /\ z = w
            BY <3>1, Z3 DEF InPlaces
        <3> QED BY <3>2 DEF x, y, z, u, v, w
    <2> QED BY <2>1, <2>3 DEF Fields
<1> QED BY <1>2, <1>3, NumberOfTime

---------------------------------------------------------------------------
(* Every read register holds what the clock shows unless a second has      *)
(* passed since the first read, and the text is that of the fields it was  *)
(* made of.                                                                *)
ClockInv ==
    /\ clock \in Clocks
    /\ got \in [Fields -> -1..98]
    /\ \A f \in Fields : got[f] # -1 => got[f] < Range_[f]
    /\ stale \in BOOLEAN
    /\ ~stale => \A f \in Fields : got[f] # -1 => got[f] = clock[f]
    /\ shown.fields \in Clocks
    /\ shown.text = TimeText(shown.fields)
    /\ shown.exact => shown.at = shown.fields
    /\ t = TimeNumber(shown.text)

(* The registers that are all read make a time.                            *)
LEMMA ReadTime ==
    ASSUME ClockInv, \A f \in Fields : got[f] # -1
    PROVE  got \in Clocks /\ (~stale => got = clock)
<1>1. got \in [Fields -> 0..98]
    BY DEF ClockInv, Fields
<1>2. got \in Clocks
    BY <1>1 DEF ClockInv, Clocks
<1>3. ~stale => got = clock
    BY <1>1 DEF ClockInv, Clocks
<1> QED BY <1>2, <1>3

(* Every second, read and round of loop keeps ClockInv.                    *)
LEMMA ClockStep == ClockInv /\ [ClockNext]_clockVars => ClockInv'
<1> SUFFICES ASSUME ClockInv, [ClockNext]_clockVars PROVE ClockInv'
    OBVIOUS
<1>1. Range_ \in [1..3 -> 1..99]
    BY RangeAssumption
<1>2. CASE Tick
    <2>1. clock' \in Clocks
        <3>1. /\ clock \in [Fields -> 0..98] /\ \A f \in Fields : clock[f] < Range_[f]
            BY DEF ClockInv, Clocks
        <3> DEFINE counts(f) == \A g \in (f + 1)..3 : clock[g] = Range_[g] - 1
        <3>2. clock' = [f \in Fields |-> IF ~counts(f) THEN clock[f]
                    ELSE IF clock[f] = Range_[f] - 1 THEN 0 ELSE clock[f] + 1]
            BY <1>2 DEF Tick
        <3> HIDE DEF counts
        <3>3. \A f \in Fields : clock'[f] \in 0..98 /\ clock'[f] < Range_[f]
            <4> TAKE f \in Fields
            <4>1. clock[f] \in 0..98 /\ clock[f] < Range_[f] /\ Range_[f] \in 1..99
                BY <3>1, <1>1 DEF Fields
            <4>2. clock'[f] = IF ~counts(f) THEN clock[f]
                              ELSE IF clock[f] = Range_[f] - 1 THEN 0 ELSE clock[f] + 1
                BY <3>2
            <4> HIDE DEF Fields
            <4>3. \/ clock'[f] = clock[f]
                  \/ clock'[f] = 0
                  \/ clock[f] # Range_[f] - 1 /\ clock'[f] = clock[f] + 1
                BY <4>2, Zenon
            <4> QED BY <4>1, <4>3, SMTT(30)
        <3>4. clock' \in [Fields -> 0..98]
            BY <3>2, <3>3
        <3> QED BY <3>3, <3>4 DEF Clocks
    <2>2. ~stale' => \A f \in Fields : got'[f] = -1
        BY <1>2 DEF Tick, Nothing
    <2>3. stale' \in BOOLEAN /\ got' = got /\ shown' = shown /\ t' = t
        BY <1>2 DEF Tick
    <2> QED BY <2>1, <2>2, <2>3 DEF ClockInv
<1>3. CASE Loop
    <2>1. /\ \A f \in Fields : got[f] # -1
          /\ shown' = [text |-> TimeText(got), fields |-> got, exact |-> ~stale, at |-> clock]
          /\ t' = TimeNumber(TimeText(got))
          /\ got' = Nothing /\ stale' = FALSE /\ clock' = clock
        BY <1>3 DEF Loop
    <2>2. got \in Clocks /\ (~stale => got = clock)
        BY <2>1, ReadTime
    <2>3. /\ got' \in [Fields -> -1..98] /\ \A f \in Fields : got'[f] = -1
        BY <2>1 DEF Nothing
    <2>4. /\ shown'.fields = got /\ shown'.text = TimeText(got)
          /\ shown'.exact = ~stale /\ shown'.at = clock
        BY <2>1
    <2> QED BY <2>1, <2>2, <2>3, <2>4 DEF ClockInv
<1>4. ASSUME NEW f \in Fields, ReadRegister(f) PROVE ClockInv'
    <2>1. clock[f] \in 0..98 /\ clock[f] < Range_[f]
        BY DEF ClockInv, Clocks
    <2>2. /\ got' = [got EXCEPT ![f] = clock[f]] /\ clock' = clock /\ stale' = stale
          /\ shown' = shown /\ t' = t
        BY <1>4 DEF ReadRegister
    <2>3. got' \in [Fields -> -1..98]
        BY <2>1, <2>2 DEF ClockInv
    <2>4. \A g \in Fields : got'[g] = IF g = f THEN clock[f] ELSE got[g]
        BY <2>2 DEF ClockInv
    <2> QED BY <2>1, <2>2, <2>3, <2>4 DEF ClockInv
<1>5. CASE UNCHANGED clockVars
    BY <1>5 DEF clockVars, ClockInv
<1> QED BY <1>2, <1>3, <1>4, <1>5 DEF ClockNext

(* The clock as it runs, without fairness: the theorems assume no more.    *)
ClockSpec == ClockInit /\ [][ClockNext]_clockVars

(* ClockInv holds in every state.                                          *)
LEMMA ClockInvHolds == ClockSpec => []ClockInv
<1>1. ClockInit => ClockInv
    <2> SUFFICES ASSUME ClockInit PROVE ClockInv
        OBVIOUS
    <2>1. /\ shown.text = TimeText(clock) /\ shown.fields = clock /\ shown.at = clock
          /\ t = TimeNumber(TimeText(clock)) /\ clock \in Clocks /\ stale = FALSE
        BY DEF ClockInit
    <2>2. got \in [Fields -> -1..98] /\ \A f \in Fields : got[f] = -1
        BY DEF ClockInit, Nothing
    <2> QED BY <2>1, <2>2 DEF ClockInv
<1> QED BY <1>1, ClockStep, PTL DEF ClockSpec

(* The text of the time has two places for every field and shows the time, *)
(* and loop, which reads it back as a number, colons and all, tells any    *)
(* two seconds apart.                                                      *)
THEOREM TimeToldCorrect == ClockSpec => []TimeTold
<1>1. ClockInv => TimeTold
    <2> SUFFICES ASSUME ClockInv PROVE TimeTold
        OBVIOUS
    <2> DEFINE c == shown.fields
    <2>1. c \in Clocks /\ shown.text = TimeText(c) /\ (shown.exact => shown.at = c)
        BY DEF ClockInv
    <2>2. c \in [Fields -> 0..98]
        BY <2>1 DEF Clocks
    <2> HIDE DEF c
    <2>3. shown.text = Character(c)
        BY <2>1, <2>2, TextOfTime
    <2>4. c[1] \in 0..98 /\ c[2] \in 0..98 /\ c[3] \in 0..98
        BY <2>2 DEF Fields
    <2>5. /\ Tens(c[1]) \in Zero..Nine /\ Units(c[1]) \in Zero..Nine
          /\ Tens(c[2]) \in Zero..Nine /\ Units(c[2]) \in Zero..Nine
          /\ Tens(c[3]) \in Zero..Nine /\ Units(c[3]) \in Zero..Nine
          /\ Decimal * (Tens(c[1]) - Zero) + (Units(c[1]) - Zero) = c[1]
          /\ Decimal * (Tens(c[2]) - Zero) + (Units(c[2]) - Zero) = c[2]
          /\ Decimal * (Tens(c[3]) - Zero) + (Units(c[3]) - Zero) = c[3]
        BY <2>4, TwoFigures
    <2> DEFINE s == shown.text
    <2>6. /\ Len(s) = 8
          /\ s[1] = Tens(c[1]) /\ s[2] = Units(c[1]) /\ s[3] = Colon
          /\ s[4] = Tens(c[2]) /\ s[5] = Units(c[2]) /\ s[6] = Colon
          /\ s[7] = Tens(c[3]) /\ s[8] = Units(c[3])
        BY <2>3 DEF Character
    <2> HIDE DEF s
    <2>7. TimeHasWidth
        <3>1. \A x \in Zero..Nine : x # Colon
            BY DEF Zero, Nine, Colon
        <3>2. \A n \in 1..8 : n \in {1, 2, 3, 4, 5, 6, 7, 8}
            OBVIOUS
        <3>3. \A n \in {1, 2, 3, 4, 5, 6, 7, 8} : (s[n] = Colon) <=> n \in {3, 6}
            BY <2>5, <2>6, <3>1
        <3> QED BY <2>6, <3>2, <3>3 DEF TimeHasWidth, s
    <2>8. TimeShown
        <3> SUFFICES ASSUME shown.exact, NEW f \in Fields
                     PROVE  Decimal * (s[3 * f - 2] - Zero) + (s[3 * f - 1] - Zero) = c[f]
            BY <2>1 DEF TimeShown, s
        <3>1. f = 1 \/ f = 2 \/ f = 3
            BY DEF Fields
        <3>2. CASE f = 1
            <4>1. 3 * f - 2 = 1 /\ 3 * f - 1 = 2
                BY <3>2
            <4> QED BY <3>2, <4>1, <2>5, <2>6
        <3>3. CASE f = 2
            <4>1. 3 * f - 2 = 4 /\ 3 * f - 1 = 5
                BY <3>3
            <4> QED BY <3>3, <4>1, <2>5, <2>6
        <3>4. CASE f = 3
            <4>1. 3 * f - 2 = 7 /\ 3 * f - 1 = 8
                BY <3>4
            <4> QED BY <3>4, <4>1, <2>5, <2>6
        <3> QED BY <3>1, <3>2, <3>3, <3>4
    <2>9. LoopSeesSeconds
        <3> SUFFICES ASSUME \A f \in Fields : got[f] # -1
                     PROVE  TimeNumber(TimeText(got)) = t <=> got = c
            BY DEF LoopSeesSeconds, c
        <3>1. got \in Clocks /\ t = TimeNumber(TimeText(c))
            BY <2>1, ReadTime DEF ClockInv
        <3> QED BY <2>1, <3>1, NumbersDiffer
    <2> QED BY <2>7, <2>8, <2>9 DEF TimeTold
<1> QED BY <1>1, ClockInvHolds, PTL

==============================================================================
