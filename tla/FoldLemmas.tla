----------------------------- MODULE FoldLemmas ------------------------------
(***************************************************************************)
(* What the folds of the community modules compute, for any finite set and *)
(* any sequence.  Their definitions are recursive functions over the       *)
(* subsets of a set; that such a function exists is proved first, then     *)
(* that a sum does not depend on the order of its summands.                *)
(*                                                                         *)
(* Inductions are stated of a set of instances, since the provers cannot   *)
(* instantiate a theorem about a predicate.                                *)
(***************************************************************************)
EXTENDS Integers, FiniteSets, FiniteSetsExt, SequencesExt, FiniteSetTheorems,
        WellFoundedInduction, TLAPS

-----------------------------------------------------------------------------
(* Induction *)

\* A set of naturals that has 0 and is closed under + 1 is all of them.
LEMMA NatSetInduction ==
  ASSUME NEW C, 0 \in C, \A n \in Nat : n \in C => n + 1 \in C
  PROVE  \A n \in Nat : n \in C
<1> DEFINE R == OpToRel(<, Nat)
           Bad == {n \in Nat : n \notin C}
<1> SUFFICES ASSUME Bad # {} PROVE FALSE
  OBVIOUS
<1>1. PICK n \in Bad : \A m \in Bad : ~ (<<m, n>> \in R)
  BY NatLessThanWellFounded, WFMin
<1>2. n \in Nat \ {0} /\ n \notin C
  OBVIOUS
<1>3. n - 1 \in Nat /\ n - 1 < n /\ (n - 1) + 1 = n
  BY <1>2
<1>4. n - 1 \notin C
  BY <1>2, <1>3
<1>5. <<n - 1, n>> \in R
  BY <1>2, <1>3 DEF OpToRel
<1> QED BY <1>1, <1>3, <1>4, <1>5

\* A set of subsets of S that has {} and is closed under adding an element has S.
LEMMA SetInduction ==
  ASSUME NEW S, IsFiniteSet(S), NEW C, {} \in C,
         \A T \in SUBSET S : \A x \in S \ T : T \in C => T \cup {x} \in C
  PROVE  S \in C
<1> DEFINE N == {n \in Nat : \A T \in SUBSET S : Cardinality(T) = n => T \in C}
<1>1. 0 \in N
  BY FS_Subset, FS_EmptySet
<1>2. ASSUME NEW n \in N PROVE n + 1 \in N
  <2> SUFFICES ASSUME NEW T \in SUBSET S, Cardinality(T) = n + 1 PROVE T \in C
    OBVIOUS
  <2>1. IsFiniteSet(T) /\ T # {}
    BY FS_Subset, FS_EmptySet
  <2> PICK x \in T : TRUE
    BY <2>1
  <2>2. Cardinality(T \ {x}) = n
    <3>1. Cardinality(T \ {x}) = Cardinality(T) - 1
      BY <2>1, FS_RemoveElement
    <3>2. n \in Nat
      OBVIOUS
    <3> HIDE DEF N
    <3> QED BY <3>1, <3>2
  <2>3. T \ {x} \in C /\ x \in S \ (T \ {x})
    BY <2>2
  <2>4. T = (T \ {x}) \cup {x}
    OBVIOUS
  <2> QED BY <2>3, <2>4
<1>3. Cardinality(S) \in N
  <2>1. N \subseteq Nat
    OBVIOUS
  <2> HIDE DEF N
  <2> QED BY <1>1, <1>2, <2>1, FS_CardinalityType, NatSetInduction
<1> QED BY <1>3

-----------------------------------------------------------------------------
(* Recursion over the subsets of a set *)

\* Induction along the order in which elements are chosen.
LEMMA ChoiceInduction ==
  ASSUME NEW S, IsFiniteSet(S),
         NEW ch, \A T \in SUBSET S : T # {} => ch[T] \in T,
         NEW C, {} \in C,
         \A T \in SUBSET S : T # {} /\ T \ {ch[T]} \in C => T \in C
  PROVE  \A T \in SUBSET S : T \in C
<1> DEFINE N == {n \in Nat : \A T \in SUBSET S : Cardinality(T) = n => T \in C}
<1>1. \A T \in SUBSET S : IsFiniteSet(T) /\ Cardinality(T) \in Nat
  BY FS_Subset, FS_CardinalityType
<1>2. 0 \in N
  BY FS_Subset, FS_EmptySet
<1>3. ASSUME NEW n \in Nat, n \in N PROVE n + 1 \in N
  <2> SUFFICES ASSUME NEW T \in SUBSET S, Cardinality(T) = n + 1 PROVE T \in C
    OBVIOUS
  <2>1. T # {}
    BY FS_EmptySet
  <2>2. Cardinality(T \ {ch[T]}) = Cardinality(T) - 1
    BY <1>1, <2>1, FS_RemoveElement
  <2>3. T \ {ch[T]} \in SUBSET S /\ Cardinality(T \ {ch[T]}) = n
    <3> HIDE DEF N
    <3> QED BY <2>2
  <2>4. T \ {ch[T]} \in C
    BY <1>3, <2>3
  <2> QED BY <2>1, <2>4
<1>4. \A n \in Nat : n \in N
  <2> HIDE DEF N
  <2> QED BY <1>2, <1>3, NatSetInduction
<1> QED BY <1>1, <1>4

\* f has a value for each subset of S, computed from that of the subset without
\* its chosen element.
Recursive(f, S, V, base, ch, step) ==
  /\ f \in [SUBSET S -> V]
  /\ \A T \in SUBSET S : f[T] = IF T = {} THEN base ELSE step[ch[T]][f[T \ {ch[T]}]]

\* Such a function exists.
LEMMA RecursionExists ==
  ASSUME NEW S, IsFiniteSet(S), NEW V, NEW base \in V,
         NEW ch, \A T \in SUBSET S : T # {} => ch[T] \in T,
         NEW step, \A x \in S, v \in V : step[x][v] \in V
  PROVE  \E f : Recursive(f, S, V, base, ch, step)
<1> DEFINE D(n) == {T \in SUBSET S : Cardinality(T) <= n}
           Good(n, f) == \A T \in D(n) :
             f[T] = IF T = {} THEN base ELSE step[ch[T]][f[T \ {ch[T]}]]
           N == {n \in Nat : \E f \in [D(n) -> V] : Good(n, f)}
<1>1. \A T \in SUBSET S : IsFiniteSet(T) /\ Cardinality(T) \in Nat
  BY FS_Subset, FS_CardinalityType
<1>2. \A T \in SUBSET S : T # {} =>
         T \ {ch[T]} \in SUBSET S /\ Cardinality(T \ {ch[T]}) = Cardinality(T) - 1
  BY <1>1, FS_RemoveElement
<1>3. 0 \in N
  <2>1. \A T \in D(0) : T = {}
    BY <1>1, FS_EmptySet
  <2>2. [T \in D(0) |-> base] \in [D(0) -> V] /\ Good(0, [T \in D(0) |-> base])
    BY <2>1
  <2> QED BY <2>2
<1>4. ASSUME NEW n \in N PROVE n + 1 \in N
  <2> PICK f \in [D(n) -> V] : Good(n, f)
    OBVIOUS
  <2> DEFINE g == [T \in D(n + 1) |-> IF T \in D(n) THEN f[T] ELSE step[ch[T]][f[T \ {ch[T]}]]]
  <2>1. \A T \in D(n + 1) : T # {} => T \ {ch[T]} \in D(n)
    BY <1>1, <1>2
  <2>2. {} \in D(n)
    BY FS_EmptySet
  <2>3. \A T \in D(n + 1) : T \notin D(n) => ch[T] \in S /\ f[T \ {ch[T]}] \in V
    BY <2>1, <2>2
  <2>4. g \in [D(n + 1) -> V]
    BY <2>3
  <2>5. \A T \in D(n) : T \in D(n + 1)
    BY <1>1
  <2>6. ASSUME NEW T \in D(n + 1)
        PROVE  g[T] = IF T = {} THEN base ELSE step[ch[T]][g[T \ {ch[T]}]]
    <3>1. CASE T = {}
      BY ZenonT(60), <2>2, <2>5, <3>1
    <3>2. CASE T # {}
      <4>1. g[T] = step[ch[T]][f[T \ {ch[T]}]]
        BY <3>2
      <4>2. g[T \ {ch[T]}] = f[T \ {ch[T]}]
        BY <2>1, <2>5, <3>2
      <4> QED BY ZenonT(60), <3>2, <4>1, <4>2
    <3> QED BY <3>1, <3>2
  <2>7. n + 1 \in Nat
    OBVIOUS
  <2> HIDE DEF g
  <2> QED BY <2>4, <2>6, <2>7
<1>5. Cardinality(S) \in N
  <2> HIDE DEF N
  <2>1. N \subseteq Nat
    BY DEF N
  <2> QED BY <1>3, <1>4, <2>1, FS_CardinalityType, NatSetInduction
<1>6. D(Cardinality(S)) = SUBSET S
  BY FS_Subset, FS_CardinalityType
<1> QED BY <1>5, <1>6 DEF Recursive

\* A fold, and what each of its steps keeps: good[T] are the values a fold of T
\* may have.
LEMMA FoldKeeps ==
  ASSUME NEW S, IsFiniteSet(S),
         NEW ch, \A T \in SUBSET S : T # {} => ch[T] \in T,
         NEW good, NEW base \in good[{}], NEW step,
         \A T \in SUBSET S : T # {} =>
           \A v \in good[T \ {ch[T]}] : step[ch[T]][v] \in good[T]
  PROVE  \E g : /\ Recursive(g, S, UNION {good[T] : T \in SUBSET S}, base, ch, step)
                /\ \A T \in SUBSET S : g[T] \in good[T]
<1> DEFINE V == UNION {good[T] : T \in SUBSET S}
           safe == [x \in S |-> [v \in V |-> IF step[x][v] \in V THEN step[x][v] ELSE base]]
<1>1. \A T \in SUBSET S : \A v \in good[T] : v \in V
  OBVIOUS
<1>2. base \in V
  BY <1>1
<1>3. \A x \in S, v \in V : safe[x][v] = IF step[x][v] \in V THEN step[x][v] ELSE base
  OBVIOUS
<1> HIDE DEF V, safe
<1>4. \A x \in S, v \in V : safe[x][v] \in V
  BY <1>2, <1>3
<1>5. PICK g : Recursive(g, S, V, base, ch, safe)
  BY <1>2, <1>4, RecursionExists
<1>6. /\ g \in [SUBSET S -> V]
      /\ \A T \in SUBSET S : g[T] = IF T = {} THEN base ELSE safe[ch[T]][g[T \ {ch[T]}]]
  BY <1>5 DEF Recursive
<1>7. ASSUME NEW T \in SUBSET S, T # {}, g[T \ {ch[T]}] \in good[T \ {ch[T]}]
      PROVE  g[T] = step[ch[T]][g[T \ {ch[T]}]] /\ g[T] \in good[T]
  <2> DEFINE v == g[T \ {ch[T]}]
  <2>1. ch[T] \in S /\ T \ {ch[T]} \in SUBSET S /\ v \in good[T \ {ch[T]}]
    BY <1>7
  <2>2. step[ch[T]][v] \in good[T]
    BY <1>7
  <2>3. step[ch[T]][v] \in V /\ v \in V
    BY <1>1, <2>1, <2>2
  <2>4. g[T] = safe[ch[T]][v]
    BY <1>6, <1>7
  <2> HIDE DEF v
  <2>5. g[T] = step[ch[T]][v]
    BY <1>3, <2>1, <2>3, <2>4
  <2> QED BY <2>2, <2>5 DEF v
<1>8. \A T \in SUBSET S : g[T] \in good[T]
  <2> DEFINE C == {T \in SUBSET S : g[T] \in good[T]}
  <2>1. {} \in C
    BY <1>6
  <2>2. ASSUME NEW T \in SUBSET S, T # {}, T \ {ch[T]} \in C PROVE T \in C
    BY <1>7, <2>2
  <2> HIDE DEF C
  <2>3. \A T \in SUBSET S : T \in C
    BY SMTT(60), <2>1, <2>2, ChoiceInduction
  <2> QED BY <2>3 DEF C
<1>9. \A T \in SUBSET S : g[T] = IF T = {} THEN base ELSE step[ch[T]][g[T \ {ch[T]}]]
  <2> SUFFICES ASSUME NEW T \in SUBSET S
               PROVE  g[T] = IF T = {} THEN base ELSE step[ch[T]][g[T \ {ch[T]}]]
    OBVIOUS
  <2>1. CASE T = {}
    BY <1>6, <2>1
  <2>2. CASE T # {}
    <3>1. g[T \ {ch[T]}] \in good[T \ {ch[T]}]
      BY <1>8
    <3>2. g[T] = step[ch[T]][g[T \ {ch[T]}]]
      BY <1>7, <2>2, <3>1
    <3> QED BY <2>2, <3>2
  <2> QED BY <2>1, <2>2
<1>10. Recursive(g, S, V, base, ch, step)
  BY <1>6, <1>9 DEF Recursive
<1> QED BY <1>8, <1>10 DEF V

\* f and g have the same value for a set if they have without its chosen element.
Agree(f, g, S, ch) ==
  \A T \in SUBSET S : T # {} /\ f[T \ {ch[T]}] = g[T \ {ch[T]}] => f[T] = g[T]

\* There is but one such function.
LEMMA FoldUnique ==
  ASSUME NEW S, IsFiniteSet(S),
         NEW ch, \A T \in SUBSET S : T # {} => ch[T] \in T,
         NEW f, NEW g, f[{}] = g[{}], Agree(f, g, S, ch)
  PROVE  f[S] = g[S]
<1> DEFINE C == {T \in SUBSET S : f[T] = g[T]}
<1>1. {} \in C
  OBVIOUS
<1>2. ASSUME NEW T \in SUBSET S, T # {}, T \ {ch[T]} \in C PROVE T \in C
  BY <1>2 DEF Agree
<1>3. \A T \in SUBSET S : T # {} => ch[T] \in T
  OBVIOUS
<1> HIDE DEF C
<1>4. \A T \in SUBSET S : T \in C
  BY ONLY IsFiniteSet(S), <1>1, <1>2, <1>3, ChoiceInduction
<1> QED BY <1>4 DEF C

-----------------------------------------------------------------------------
(* The extremes of a set of numbers *)

\* Min is a member of its argument.
LEMMA MinExists ==
  ASSUME NEW S, S \subseteq Nat, S # {}
  PROVE  Min(S) \in S
<1> DEFINE R == OpToRel(<, Nat)
<1>1. \E x \in S : \A y \in S : ~ (<<y, x>> \in R)
  BY NatLessThanWellFounded, WFMin
<1>2. \A x \in S, y \in S : x < y => <<x, y>> \in R
  BY DEF OpToRel
<1>3. \E x \in S : \A y \in S : x =< y
  <2>1. PICK x \in S : \A y \in S : ~ (<<y, x>> \in R)
    BY <1>1
  <2>2. \A y \in S : ~ (y < x)
    BY <1>2, <2>1
  <2> QED BY <2>2
<1> QED BY <1>3 DEF Min

\* Max is the largest of finitely many numbers.
LEMMA FiniteMax ==
  ASSUME NEW S, IsFiniteSet(S), S \subseteq Int, S # {}
  PROVE  Max(S) \in S /\ \A x \in S : x <= Max(S)
<1> DEFINE C == {T \in SUBSET S : T # {} => \E x \in T : \A y \in T : x >= y}
<1>1. {} \in C
  OBVIOUS
<1>2. ASSUME NEW T \in SUBSET S, NEW x \in S \ T, T \in C PROVE T \cup {x} \in C
  <2>1. CASE T = {}
    BY <2>1
  <2>2. CASE T # {}
    <3>1. PICK z \in T : \A y \in T : z >= y
      BY <1>2, <2>2
    <3>2. \A y \in T \cup {x} : y \in Int
      OBVIOUS
    <3>3. CASE z >= x
      BY <3>1, <3>2, <3>3
    <3>4. CASE ~ (z >= x)
      BY <3>1, <3>2, <3>4
    <3> QED BY <3>3, <3>4
  <2> QED BY <2>1, <2>2
<1> HIDE DEF C
<1>3. S \in C
  BY <1>1, <1>2, SetInduction
<1>4. \E x \in S : \A y \in S : x >= y
  BY <1>3 DEF C
<1>5. Max(S) \in S /\ \A y \in S : Max(S) >= y
  BY <1>4 DEF Max
<1> QED BY <1>5

-----------------------------------------------------------------------------
(* Sums *)

\* The sum of f over S.
SumOver(f, S) == MapThenSumSet(LAMBDA s : f[s], S)

Chosen(T) == CHOOSE x \in T : TRUE

\* it is the recursive function by which SumOver(f, S) is computed.
Sums(it, f, S) ==
  /\ it \in [SUBSET S -> Int]
  /\ \A T \in SUBSET S :
       it[T] = IF T = {} THEN 0 ELSE f[Chosen(T)] + it[T \ {Chosen(T)}]

LEMMA SumsExist ==
  ASSUME NEW S, IsFiniteSet(S), NEW f, \A s \in S : f[s] \in Int
  PROVE  \E it : Sums(it, f, S) /\ SumOver(f, S) = it[S]
<1> DEFINE ch   == [T \in SUBSET S |-> Chosen(T)]
           step == [x \in S |-> [v \in Int |-> f[x] + v]]
           Is(it) == it = [T \in SUBSET S |->
                      IF T = {} THEN 0
                      ELSE f[CHOOSE x \in T : TRUE] + it[T \ {CHOOSE x \in T : TRUE}]]
<1>1. \A T \in SUBSET S : T # {} => ch[T] \in T
  BY DEF Chosen
<1>2. \A x \in S, v \in Int : step[x][v] \in Int /\ step[x][v] = f[x] + v
  OBVIOUS
<1>3. PICK g \in [SUBSET S -> Int] : \A T \in SUBSET S :
         g[T] = IF T = {} THEN 0 ELSE step[ch[T]][g[T \ {ch[T]}]]
  <2> DEFINE zero == 0
             V == Int
  <2>1. zero \in V /\ \A x \in S, v \in V : step[x][v] \in V
    BY <1>2
  <2> HIDE DEF ch, step, zero, V
  <2>2. \E g : Recursive(g, S, V, zero, ch, step)
    BY <1>1, <2>1, RecursionExists
  <2> QED BY <2>2 DEF zero, V, Recursive
<1>4. \A T \in SUBSET S : T # {} =>
         g[T] = f[Chosen(T)] + g[T \ {Chosen(T)}]
  <2> SUFFICES ASSUME NEW T \in SUBSET S, T # {}
               PROVE  g[T] = f[Chosen(T)] + g[T \ {Chosen(T)}]
    OBVIOUS
  <2>1. ch[T] = Chosen(T) /\ Chosen(T) \in S /\ g[T \ {Chosen(T)}] \in Int
    BY <1>1
  <2> QED BY <1>2, <1>3, <2>1
<1>5. Is(g)
  BY <1>3, <1>4 DEF Chosen
<1>6. ASSUME NEW it, Is(it) PROVE \A T \in SUBSET S : T \in {U \in SUBSET S : it[U] = g[U]}
  <2> DEFINE C == {U \in SUBSET S : it[U] = g[U]}
  <2>1. {} \in C
    BY <1>3, <1>6
  <2>2. ASSUME NEW T \in SUBSET S, T # {}, T \ {ch[T]} \in C PROVE T \in C
    <3>1. it[T \ {Chosen(T)}] = g[T \ {Chosen(T)}]
      BY <2>2
    <3>2. it[T] = f[Chosen(T)] + it[T \ {Chosen(T)}]
      BY <1>6, <2>2 DEF Chosen
    <3> QED BY <1>4, <2>2, <3>1, <3>2
  <2> HIDE DEF C, ch
  <2>3. \A T \in SUBSET S : T \in C
    BY SMTT(60), <1>1, <2>1, <2>2, ChoiceInduction
  <2> QED BY <2>3 DEF C
<1>7. PICK it : Is(it) /\ SumOver(f, S) = it[S]
  <2>1. Is(CHOOSE it : Is(it))
    <3> HIDE DEF Is
    <3> QED BY <1>5
  <2>2. SumOver(f, S) = (CHOOSE it : Is(it))[S]
    BY DEF SumOver, MapThenSumSet, MapThenFoldSet
  <2> HIDE DEF Is
  <2> QED BY <2>1, <2>2
<1>8. \A T \in SUBSET S : it[T] = g[T]
  BY <1>6, <1>7
<1>9. Sums(g, f, S)
  BY <1>3, <1>4 DEF Sums
<1>10. SumOver(f, S) = g[S]
  BY <1>7, <1>8
<1> QED BY <1>9, <1>10

\* Each subset's sum is found in it.
LEMMA SumsUnique ==
  ASSUME NEW S, IsFiniteSet(S), NEW T \in SUBSET S, NEW f, NEW it, NEW jt,
         Sums(it, f, S), Sums(jt, f, T)
  PROVE  it[T] = jt[T]
<1> DEFINE ch == [U \in SUBSET T |-> Chosen(U)]
           C  == {U \in SUBSET T : it[U] = jt[U]}
<1>1. \A U \in SUBSET T : U # {} => ch[U] \in U
  BY DEF Chosen
<1>2. {} \in C
  BY DEF Sums
<1>3. ASSUME NEW U \in SUBSET T, U # {}, U \ {ch[U]} \in C PROVE U \in C
  <2>1. it[U \ {Chosen(U)}] = jt[U \ {Chosen(U)}]
    BY <1>3
  <2> QED BY <1>3, <2>1 DEF Sums
<1>4. IsFiniteSet(T)
  BY FS_Subset
<1> HIDE DEF C, ch
<1>5. \A U \in SUBSET T : U \in C
  BY SMTT(60), <1>1, <1>2, <1>3, <1>4, ChoiceInduction
<1> QED BY <1>5 DEF C

\* No sum depends on the order: any element may be taken out first.
LEMMA SumsOrder ==
  ASSUME NEW S, IsFiniteSet(S), NEW f, \A s \in S : f[s] \in Int,
         NEW it, Sums(it, f, S)
  PROVE  \A T \in SUBSET S : \A x \in T : it[T] = f[x] + it[T \ {x}]
<1> DEFINE N == {n \in Nat : \A T \in SUBSET S : Cardinality(T) = n =>
                             \A x \in T : it[T] = f[x] + it[T \ {x}]}
<1>1. \A T \in SUBSET S : IsFiniteSet(T) /\ Cardinality(T) \in Nat
  BY FS_Subset, FS_CardinalityType
<1>2. 0 \in N
  BY FS_Subset, FS_EmptySet
<1>3. ASSUME NEW n \in Nat, n \in N PROVE n + 1 \in N
  <2> SUFFICES ASSUME NEW T \in SUBSET S, Cardinality(T) = n + 1, NEW x \in T
               PROVE  it[T] = f[x] + it[T \ {x}]
    OBVIOUS
  <2> DEFINE y == Chosen(T)
  <2>1. y \in T
    BY DEF Chosen
  <2>2. it[T] = f[y] + it[T \ {y}]
    BY DEF Sums
  <2>3. CASE x = y
    BY <2>2, <2>3
  <2>4. CASE x # y
    <3>1. Cardinality(T \ {x}) = n /\ Cardinality(T \ {y}) = n
      <4>1. Cardinality(T \ {x}) = Cardinality(T) - 1
        BY <1>1, FS_RemoveElement
      <4>2. Cardinality(T \ {y}) = Cardinality(T) - 1
        BY <1>1, <2>1, FS_RemoveElement
      <4> HIDE DEF N, y
      <4> QED BY <4>1, <4>2
    <3> DEFINE R == (T \ {x}) \ {y}
    <3>2. it[T \ {y}] = f[x] + it[R]
      <4>1. (T \ {y}) \ {x} = R
        OBVIOUS
      <4>2. it[T \ {y}] = f[x] + it[(T \ {y}) \ {x}]
        <5> HIDE DEF y
        <5> QED BY <1>3, <2>1, <2>4, <3>1
      <4> QED BY <4>1, <4>2
    <3>3. it[T \ {x}] = f[y] + it[R]
      <4> HIDE DEF y
      <4> QED BY <1>3, <2>1, <2>4, <3>1
    <3>4. it[R] \in Int /\ f[x] \in Int /\ f[y] \in Int
      <4> HIDE DEF y
      <4> QED BY <2>1 DEF Sums
    <3> HIDE DEF y, R
    <3> QED BY <2>2, <3>2, <3>3, <3>4
  <2> QED BY <2>3, <2>4
<1>4. \A n \in Nat : n \in N
  <2> HIDE DEF N
  <2> QED BY <1>2, <1>3, NatSetInduction
<1> QED BY <1>1, <1>4

LEMMA SumEmpty ==
  ASSUME NEW f
  PROVE  SumOver(f, {}) = 0
<1>1. IsFiniteSet({})
  BY FS_EmptySet
<1>2. PICK it : Sums(it, f, {}) /\ SumOver(f, {}) = it[{}]
  BY <1>1, SumsExist
<1> QED BY <1>2 DEF Sums

LEMMA SumType ==
  ASSUME NEW S, IsFiniteSet(S), NEW f, \A s \in S : f[s] \in Int
  PROVE  SumOver(f, S) \in Int
<1>1. PICK it : Sums(it, f, S) /\ SumOver(f, S) = it[S]
  BY SumsExist
<1> QED BY <1>1 DEF Sums

\* One element taken out.
LEMMA SumRemove ==
  ASSUME NEW S, IsFiniteSet(S), NEW f, \A s \in S : f[s] \in Int, NEW x \in S
  PROVE  SumOver(f, S) = f[x] + SumOver(f, S \ {x})
<1>1. PICK it : Sums(it, f, S) /\ SumOver(f, S) = it[S]
  BY SumsExist
<1>2. IsFiniteSet(S \ {x}) /\ \A s \in S \ {x} : f[s] \in Int
  BY FS_RemoveElement
<1>3. PICK jt : Sums(jt, f, S \ {x}) /\ SumOver(f, S \ {x}) = jt[S \ {x}]
  BY <1>2, SumsExist
<1>4. it[S \ {x}] = jt[S \ {x}]
  BY <1>1, <1>3, SumsUnique
<1>5. it[S] = f[x] + it[S \ {x}]
  BY <1>1, SumsOrder
<1> QED BY <1>1, <1>3, <1>4, <1>5

\* One element added.
LEMMA SumInsert ==
  ASSUME NEW S, IsFiniteSet(S), NEW x, x \notin S,
         NEW f, \A s \in S \cup {x} : f[s] \in Int
  PROVE  SumOver(f, S \cup {x}) = SumOver(f, S) + f[x]
<1>1. IsFiniteSet(S \cup {x}) /\ (S \cup {x}) \ {x} = S
  BY FS_AddElement
<1>2. SumOver(f, S \cup {x}) = f[x] + SumOver(f, (S \cup {x}) \ {x})
  BY <1>1, SumRemove
<1>3. SumOver(f, (S \cup {x}) \ {x}) = SumOver(f, S)
  BY <1>1
<1>4. SumOver(f, S) \in Int /\ f[x] \in Int
  BY SumType
<1> QED BY <1>2, <1>3, <1>4

\* A sum depends on the summands only.
LEMMA SumEqual ==
  ASSUME NEW S, IsFiniteSet(S), NEW f, \A s \in S : f[s] \in Int,
         NEW g, \A s \in S : g[s] = f[s]
  PROVE  SumOver(g, S) = SumOver(f, S)
<1> DEFINE C == {T \in SUBSET S : SumOver(g, T) = SumOver(f, T)}
<1>1. {} \in C
  BY SumEmpty
<1>2. ASSUME NEW T \in SUBSET S, NEW x \in S \ T, T \in C PROVE T \cup {x} \in C
  <2>1. IsFiniteSet(T)
    BY FS_Subset
  <2>2. SumOver(f, T \cup {x}) = SumOver(f, T) + f[x]
    BY <2>1, SumInsert
  <2>3. SumOver(g, T \cup {x}) = SumOver(g, T) + g[x]
    BY ZenonT(60), <2>1, SumInsert
  <2> QED BY <1>2, <2>2, <2>3
<1> HIDE DEF C
<1>3. S \in C
  BY <1>1, <1>2, SetInduction
<1> QED BY <1>3 DEF C

\* The sum of sums.
LEMMA SumPlus ==
  ASSUME NEW S, IsFiniteSet(S), NEW f, \A s \in S : f[s] \in Int,
         NEW g, \A s \in S : g[s] \in Int, NEW h, \A s \in S : h[s] = f[s] + g[s]
  PROVE  SumOver(h, S) = SumOver(f, S) + SumOver(g, S)
<1> DEFINE C == {T \in SUBSET S : SumOver(h, T) = SumOver(f, T) + SumOver(g, T)}
<1>1. {} \in C
  BY SumEmpty
<1>2. ASSUME NEW T \in SUBSET S, NEW x \in S \ T, T \in C PROVE T \cup {x} \in C
  <2>1. IsFiniteSet(T)
    BY FS_Subset
  <2>2. /\ \A s \in T \cup {x} : f[s] \in Int /\ g[s] \in Int /\ h[s] \in Int
        /\ SumOver(f, T) \in Int /\ SumOver(g, T) \in Int
    BY <2>1, SumType
  <2>3. SumOver(f, T \cup {x}) = SumOver(f, T) + f[x]
    BY ZenonT(60), <2>1, SumInsert
  <2>4. SumOver(g, T \cup {x}) = SumOver(g, T) + g[x]
    BY ZenonT(60), <2>1, SumInsert
  <2>5. SumOver(h, T \cup {x}) = SumOver(h, T) + h[x]
    BY <2>1, <2>2, SumInsert
  <2>6. SumOver(h, T) = SumOver(f, T) + SumOver(g, T) /\ h[x] = f[x] + g[x]
    BY <1>2
  <2>7. SumOver(h, T \cup {x}) = SumOver(f, T \cup {x}) + SumOver(g, T \cup {x})
    BY <2>2, <2>3, <2>4, <2>5, <2>6
  <2> QED BY <2>7
<1> HIDE DEF C
<1>3. S \in C
  BY <1>1, <1>2, SetInduction
<1> QED BY <1>3 DEF C

\* A sum of naturals up to M.
LEMMA SumBounds ==
  ASSUME NEW S, IsFiniteSet(S), NEW M \in Nat, NEW f, \A s \in S : f[s] \in 0..M
  PROVE  SumOver(f, S) \in 0..M * Cardinality(S)
<1> DEFINE C == {T \in SUBSET S : SumOver(f, T) \in 0..M * Cardinality(T)}
<1>1. {} \in C
  BY SumEmpty, FS_EmptySet
<1>2. ASSUME NEW T \in SUBSET S, NEW x \in S \ T, T \in C PROVE T \cup {x} \in C
  <2>1. IsFiniteSet(T) /\ Cardinality(T) \in Nat
    BY FS_Subset, FS_CardinalityType
  <2>2. SumOver(f, T \cup {x}) = SumOver(f, T) + f[x]
    BY <2>1, SumInsert
  <2>3. Cardinality(T \cup {x}) = Cardinality(T) + 1
    BY <2>1, FS_AddElement
  <2>4. f[x] \in 0..M /\ SumOver(f, T) \in 0..M * Cardinality(T)
    BY <1>2
  <2>5. M * (Cardinality(T) + 1) = M * Cardinality(T) + M /\ M * Cardinality(T) \in Nat
    BY <2>1
  <2>6. SumOver(f, T \cup {x}) \in 0..M * Cardinality(T \cup {x})
    BY <2>2, <2>3, <2>4, <2>5
  <2> QED BY <2>6
<1> HIDE DEF C
<1>3. S \in C
  BY <1>1, <1>2, SetInduction
<1> QED BY <1>3 DEF C

\* A sum of naturals.
LEMMA SumNat ==
  ASSUME NEW S, IsFiniteSet(S), NEW f, \A s \in S : f[s] \in Nat
  PROVE  SumOver(f, S) \in Nat
<1> DEFINE C == {T \in SUBSET S : SumOver(f, T) \in Nat}
<1>1. {} \in C
  BY SumEmpty
<1>2. ASSUME NEW T \in SUBSET S, NEW x \in S \ T, T \in C PROVE T \cup {x} \in C
  <2>1. IsFiniteSet(T)
    BY FS_Subset
  <2>2. SumOver(f, T \cup {x}) = SumOver(f, T) + f[x]
    BY <2>1, SumInsert
  <2> QED BY <1>2, <2>2
<1> HIDE DEF C
<1>3. S \in C
  BY <1>1, <1>2, SetInduction
<1> QED BY <1>3 DEF C

\* One summand changed.
LEMMA SumUpdate ==
  ASSUME NEW S, IsFiniteSet(S), NEW f, \A s \in S : f[s] \in Int,
         NEW g, NEW x \in S, g[x] \in Int, \A s \in S \ {x} : g[s] = f[s]
  PROVE  SumOver(g, S) = SumOver(f, S) - f[x] + g[x]
<1>1. IsFiniteSet(S \ {x})
  BY FS_RemoveElement
<1>2. SumOver(f, S) = f[x] + SumOver(f, S \ {x})
  BY SumRemove
<1>3. \A s \in S : g[s] \in Int
  OBVIOUS
<1>4. SumOver(g, S) = g[x] + SumOver(g, S \ {x})
  BY <1>3, SumRemove
<1>5. SumOver(g, S \ {x}) = SumOver(f, S \ {x})
  BY <1>1, SumEqual
<1>6. SumOver(f, S \ {x}) \in Int
  BY <1>1, SumType
<1> QED BY <1>2, <1>4, <1>5, <1>6

\* Two summands changed.
LEMMA SumUpdateTwo ==
  ASSUME NEW S, IsFiniteSet(S), NEW f, \A s \in S : f[s] \in Int,
         NEW g, NEW x \in S, NEW y \in S, x # y, g[x] \in Int, g[y] \in Int,
         \A s \in S \ {x, y} : g[s] = f[s]
  PROVE  SumOver(g, S) = SumOver(f, S) - f[x] - f[y] + g[x] + g[y]
<1> DEFINE h == [s \in S |-> IF s = x THEN g[x] ELSE f[s]]
<1>1. /\ \A s \in S : h[s] \in Int
      /\ h[x] = g[x] /\ h[y] = f[y]
      /\ \A s \in S \ {x} : h[s] = f[s]
      /\ \A s \in S \ {y} : g[s] = h[s]
  OBVIOUS
<1> HIDE DEF h
<1>2. SumOver(h, S) = SumOver(f, S) - f[x] + h[x]
  BY <1>1, SumUpdate
<1>3. SumOver(g, S) = SumOver(h, S) - h[y] + g[y]
  BY <1>1, SumUpdate
<1>4. SumOver(f, S) \in Int
  BY SumType
<1> QED BY <1>1, <1>2, <1>3, <1>4

\* Only a subset has anything to add.
LEMMA SumSupport ==
  ASSUME NEW S, IsFiniteSet(S), NEW T \in SUBSET S, NEW f, \A s \in T : f[s] \in Int,
         \A s \in S \ T : f[s] = 0
  PROVE  SumOver(f, S) = SumOver(f, T)
<1> DEFINE C == {U \in SUBSET (S \ T) : SumOver(f, T \cup U) = SumOver(f, T)}
<1>1. {} \in C
  <2>1. T \cup {} = T
    OBVIOUS
  <2> QED BY <2>1
<1>2. ASSUME NEW U \in SUBSET (S \ T), NEW x \in (S \ T) \ U, U \in C PROVE U \cup {x} \in C
  <2>1. IsFiniteSet(T \cup U)
    BY FS_Subset
  <2>2. /\ T \cup (U \cup {x}) = (T \cup U) \cup {x} /\ x \notin T \cup U
        /\ \A s \in (T \cup U) \cup {x} : f[s] \in Int
        /\ f[x] = 0
    OBVIOUS
  <2>3. SumOver(f, (T \cup U) \cup {x}) = SumOver(f, T \cup U) + f[x]
    BY <2>1, <2>2, SumInsert
  <2>4. SumOver(f, T \cup U) \in Int /\ SumOver(f, T \cup U) = SumOver(f, T)
    BY <1>2, <2>1, <2>2, SumType
  <2>5. SumOver(f, T \cup (U \cup {x})) = SumOver(f, T)
    <3>1. SumOver(f, T \cup (U \cup {x})) = SumOver(f, (T \cup U) \cup {x})
      BY <2>2
    <3> QED BY <2>2, <2>3, <2>4, <3>1
  <2> QED BY <2>5
<1>3. IsFiniteSet(S \ T)
  BY FS_Subset
<1> HIDE DEF C
<1>4. S \ T \in C
  BY <1>1, <1>2, <1>3, SetInduction
<1>5. T \cup (S \ T) = S
  OBVIOUS
<1> QED BY <1>4, <1>5 DEF C

\* Summands of a sum of naturals.
LEMMA SumMembers ==
  ASSUME NEW S, IsFiniteSet(S), NEW f, \A s \in S : f[s] \in Nat, NEW x \in S
  PROVE  /\ f[x] <= SumOver(f, S)
         /\ \A y \in S : x # y => f[x] + f[y] <= SumOver(f, S)
<1>1. IsFiniteSet(S \ {x})
  BY FS_RemoveElement
<1>2. SumOver(f, S) = f[x] + SumOver(f, S \ {x})
  BY SumRemove
<1>3. SumOver(f, S \ {x}) \in Nat
  BY <1>1, SumNat
<1>4. ASSUME NEW y \in S, x # y PROVE f[y] <= SumOver(f, S \ {x})
  <2>1. IsFiniteSet((S \ {x}) \ {y})
    BY <1>1, FS_RemoveElement
  <2>2. SumOver(f, S \ {x}) = f[y] + SumOver(f, (S \ {x}) \ {y})
    BY <1>1, <1>4, SumRemove
  <2>3. SumOver(f, (S \ {x}) \ {y}) \in Nat
    BY <2>1, SumNat
  <2> QED BY <2>2, <2>3
<1>5. f[x] <= SumOver(f, S)
  BY <1>2, <1>3
<1>6. ASSUME NEW y \in S, x # y PROVE f[x] + f[y] <= SumOver(f, S)
  <2> DEFINE all  == SumOver(f, S)
             rest == SumOver(f, S \ {x})
  <2>1. f[x] \in Nat /\ f[y] \in Nat /\ rest \in Nat
    BY <1>3
  <2>2. all = f[x] + rest /\ f[y] <= rest
    BY <1>2, <1>4, <1>6
  <2> HIDE DEF all, rest
  <2>3. f[x] + f[y] <= all
    BY <2>1, <2>2
  <2> QED BY <2>3 DEF all
<1> QED BY <1>5, <1>6

\* A part of a sum of naturals.
LEMMA SumSubset ==
  ASSUME NEW S, IsFiniteSet(S), NEW f, \A s \in S : f[s] \in Nat, NEW T \in SUBSET S
  PROVE  SumOver(f, T) <= SumOver(f, S)
<1> DEFINE C == {U \in SUBSET (S \ T) : SumOver(f, T) <= SumOver(f, T \cup U)}
<1>1. {} \in C
  <2>1. T \cup {} = T /\ IsFiniteSet(T)
    BY FS_Subset
  <2>2. SumOver(f, T) \in Nat
    BY <2>1, SumNat
  <2> QED BY <2>1, <2>2
<1>2. ASSUME NEW U \in SUBSET (S \ T), NEW x \in (S \ T) \ U, U \in C PROVE U \cup {x} \in C
  <2>1. IsFiniteSet(T \cup U) /\ IsFiniteSet(T)
    BY FS_Subset
  <2>2. /\ T \cup (U \cup {x}) = (T \cup U) \cup {x} /\ x \notin T \cup U
        /\ f[x] \in Nat
    OBVIOUS
  <2>3. SumOver(f, (T \cup U) \cup {x}) = SumOver(f, T \cup U) + f[x]
    BY <2>1, <2>2, SumInsert
  <2>4. /\ SumOver(f, T \cup U) \in Nat /\ SumOver(f, T) \in Nat
        /\ SumOver(f, T) <= SumOver(f, T \cup U)
    BY <1>2, <2>1, <2>2, SumNat
  <2>5. SumOver(f, T \cup (U \cup {x})) = SumOver(f, T \cup U) + f[x]
    BY <2>2, <2>3
  <2>6. SumOver(f, T) <= SumOver(f, T \cup (U \cup {x}))
    BY <2>2, <2>4, <2>5
  <2> QED BY <2>6
<1>3. IsFiniteSet(S \ T)
  BY FS_Subset
<1> HIDE DEF C
<1>4. S \ T \in C
  BY <1>1, <1>2, <1>3, SetInduction
<1>5. T \cup (S \ T) = S
  OBVIOUS
<1> QED BY <1>4, <1>5 DEF C

-----------------------------------------------------------------------------
(* Folds over sequences *)

\* FoldLeft takes the last position first.
LEMMA MaxExists ==
  ASSUME NEW n \in Nat, NEW T \in SUBSET (1..n), T # {}
  PROVE  Max(T) \in T /\ \A i \in T : i <= Max(T)
<1> DEFINE R == OpToRel(<, Nat)
           Left == {m \in Nat : \E i \in T : m = n - i}
<1>1. Left # {}
  <2> PICK i \in T : TRUE
    OBVIOUS
  <2>1. i \in 1..n
    OBVIOUS
  <2>2. n - i \in Nat
    BY <2>1
  <2>3. n - i \in Left
    BY <2>2
  <2> QED BY <2>3
<1>2. PICK m \in Left : \A l \in Left : ~ (<<l, m>> \in R)
  BY <1>1, NatLessThanWellFounded, WFMin
<1>3. PICK i \in T : m = n - i
  OBVIOUS
<1>4. \A j \in T : j <= i
  <2> SUFFICES ASSUME NEW j \in T, i < j PROVE FALSE
    OBVIOUS
  <2>1. n - j \in Left /\ n - j < m /\ m \in Nat
    BY <1>3
  <2> QED BY <1>2, <2>1 DEF OpToRel
<1> QED BY <1>3, <1>4 DEF Max

LEMMA MaxInterval ==
  ASSUME NEW n \in Nat, NEW m \in 1..n
  PROVE  Max(1..m) = m /\ (1..m) \ {m} = 1..(m - 1)
<1>1. 1..m \in SUBSET (1..n) /\ 1..m # {}
  OBVIOUS
<1>2. Max(1..m) \in 1..m /\ \A i \in 1..m : i <= Max(1..m)
  BY <1>1, MaxExists
<1>3. Max(1..m) = m
  BY <1>2
<1> QED BY <1>3

\* The results of folding the parts of a sequence.
Folding(g, n, V, base, step) ==
  /\ g \in [SUBSET (1..n) -> V]
  /\ \A T \in SUBSET (1..n) :
       g[T] = IF T = {} THEN base ELSE step[Max(T)][g[T \ {Max(T)}]]

LEMMA FoldingExists ==
  ASSUME NEW n \in Nat, NEW V, NEW base \in V,
         NEW step, \A i \in 1..n, v \in V : step[i][v] \in V
  PROVE  \E g : Folding(g, n, V, base, step)
<1> DEFINE S  == 1..n
           ch == [T \in SUBSET S |-> Max(T)]
<1>1. \A T \in SUBSET S : T # {} => ch[T] \in T
  BY MaxExists
<1>2. IsFiniteSet(S)
  BY FS_Interval
<1>3. \A i \in S, v \in V : step[i][v] \in V
  OBVIOUS
<1>4. \E g : Recursive(g, S, V, base, ch, step)
  <2> HIDE DEF ch, S
  <2> QED BY <1>1, <1>2, <1>3, RecursionExists
<1> QED BY <1>4 DEF Recursive, Folding

=============================================================================
