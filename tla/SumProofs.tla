----------------------------- MODULE SumProofs -----------------------------
(***************************************************************************)
(* What the proofs about money need of the sums it is counted with:        *)
(* SumFunctionOnSet of the Functions module, over a finite set of accounts *)
(* or transactions.  Its definition is a recursive function over the       *)
(* subsets of the set; that this function exists, and that the order in    *)
(* which it picks the elements does not matter, is shown first.            *)
(*                                                                         *)
(* Induction is over sets, not predicates: what is to be shown of every    *)
(* subset or number is that none of them is in the set of exceptions.      *)
(***************************************************************************)
EXTENDS Integers, FiniteSets, Functions, FiniteSetTheorems,
        WellFoundedInduction, TLAPS

(***************************************************************************)
(* Among subsets of a finite set there is one that contains no other.      *)
(***************************************************************************)
LEMMA SmallestSubset ==
    ASSUME NEW S, IsFiniteSet(S), NEW Bad, Bad \subseteq SUBSET S, Bad # {}
    PROVE  \E T \in Bad : \A U \in SUBSET T : U # T => U \notin Bad
<1>1. IsWellFoundedOn(StrictSubsetOrdering(S), SUBSET S)
  BY FS_StrictSubsetOrderingWellFounded, FS_FiniteSubsetsOfFinite
<1>2. PICK T \in Bad : \A U \in Bad : <<U, T>> \notin StrictSubsetOrdering(S)
  BY <1>1, WFMin
<1>3. ASSUME NEW U \in SUBSET T, U # T, U \in Bad
      PROVE  FALSE
  <2>1. <<U, T>> \in (SUBSET S) \X (SUBSET S)
    BY <1>3
  <2>2. <<U, T>> \in StrictSubsetOrdering(S)
    BY <1>3, <2>1 DEF StrictSubsetOrdering
  <2> QED BY <1>2, <1>3, <2>2
<1> QED BY <1>3

(***************************************************************************)
(* Induction: a set that has the empty set, and with a set every extension *)
(* of it by one element of S, has S.                                       *)
(***************************************************************************)
LEMMA GrowSet ==
    ASSUME NEW S, IsFiniteSet(S), NEW Good, {} \in Good,
           \A T \in SUBSET S, x \in S : T \in Good /\ x \notin T => T \cup {x} \in Good
    PROVE  S \in Good
<1> DEFINE Bad == {T \in SUBSET S : T \notin Good}
<1>1. SUFFICES ASSUME Bad # {} PROVE FALSE
  OBVIOUS
<1>2. PICK T \in Bad : \A U \in SUBSET T : U # T => U \notin Bad
  <2>1. Bad \subseteq SUBSET S
    OBVIOUS
  <2> HIDE DEF Bad
  <2> QED BY <1>1, <2>1, SmallestSubset
<1>3. PICK x \in T : TRUE
  BY <1>2
<1>4. T \ {x} \in Good
  BY <1>2
<1>5. (T \ {x}) \cup {x} = T
  OBVIOUS
<1>6. T \in Good
  BY <1>4, <1>5
<1> QED BY <1>6

\* The same for numbers.
LEMMA GrowNumber ==
    ASSUME NEW Good, 0 \in Good, \A n \in Nat : n \in Good => n + 1 \in Good
    PROVE  \A n \in Nat : n \in Good
<1>1. SUFFICES ASSUME NEW n \in Nat, n \notin Good PROVE FALSE
  OBVIOUS
<1> DEFINE Bad == {T \in SUBSET (0..n) : \E m \in 0..n : m \notin Good /\ T = 0..m}
<1>2. IsFiniteSet(0..n)
  BY FS_Interval
<1>3. 0..n \in Bad
  BY <1>1
<1>4. PICK T \in Bad : \A U \in SUBSET T : U # T => U \notin Bad
  <2> DEFINE numbers == 0..n
  <2>1. IsFiniteSet(numbers) /\ Bad \subseteq SUBSET numbers /\ Bad # {}
    BY <1>2, <1>3
  <2> HIDE DEF Bad, numbers
  <2> QED BY <2>1, SmallestSubset
<1>5. PICK m \in 0..n : m \notin Good /\ T = 0..m
  BY <1>4
<1>6. m # 0 /\ m - 1 \in 0..n /\ m - 1 \notin Good
  <2>1. m # 0
    BY <1>5
  <2>2. m - 1 \in Nat /\ (m - 1) + 1 = m
    BY <2>1
  <2> QED BY <1>5, <2>1, <2>2
<1>7. 0..(m - 1) \in SUBSET T /\ 0..(m - 1) # T
  BY <1>5, <1>6
<1>8. 0..(m - 1) \in Bad
  BY <1>6, <1>7, <1>5
<1> QED BY <1>4, <1>7, <1>8

-----------------------------------------------------------------------------
(***************************************************************************)
(* The sums of the subsets of S, as the module Functions computes them.    *)
(***************************************************************************)
Pick(T) == CHOOSE x \in T : TRUE
SumOver(f, g, T) == IF T = {} THEN 0 ELSE f[Pick(T)] + g[T \ {Pick(T)}]
Sums(f, S) ==
    CHOOSE g : g = [T \in SUBSET S |->
                       IF T = {} THEN 0 ELSE f[Pick(T)] + g[T \ {Pick(T)}]]

LEMMA SumIsSums ==
    ASSUME NEW f, NEW S
    PROVE  SumFunctionOnSet(f, S) = Sums(f, S)[S]
BY Zenon DEF Sums, Pick, SumFunctionOnSet, FoldFunctionOnSet, MapThenFoldSet

LEMMA PickIn == ASSUME NEW T, T # {} PROVE Pick(T) \in T
BY DEF Pick

\* There is such a function: it is built for the subsets of at most n
\* elements, one n after the other.
LEMMA SumsExist ==
    ASSUME NEW S, IsFiniteSet(S), NEW f, \A x \in S : f[x] \in Int
    PROVE  \E g \in [SUBSET S -> Int] : \A T \in SUBSET S : g[T] = SumOver(f, g, T)
<1> DEFINE Upto(n) == {T \in SUBSET S : Cardinality(T) <= n}
           Built(n) == {g \in [SUBSET S -> Int] :
                           \A T \in Upto(n) : g[T] = SumOver(f, g, T)}
           Good == {n \in Nat : Built(n) # {}}
<1>1. \A T \in SUBSET S :
         /\ IsFiniteSet(T) /\ Cardinality(T) \in Nat
         /\ Cardinality(T) <= Cardinality(S)
         /\ T # {} => /\ Pick(T) \in S /\ T \ {Pick(T)} \in SUBSET S
                      /\ Cardinality(T \ {Pick(T)}) = Cardinality(T) - 1
                      /\ f[Pick(T)] \in Int
  <2> SUFFICES ASSUME NEW T \in SUBSET S
               PROVE  /\ IsFiniteSet(T) /\ Cardinality(T) \in Nat
                      /\ Cardinality(T) <= Cardinality(S)
                      /\ T # {} => /\ Pick(T) \in S /\ T \ {Pick(T)} \in SUBSET S
                                   /\ Cardinality(T \ {Pick(T)}) = Cardinality(T) - 1
                                   /\ f[Pick(T)] \in Int
    OBVIOUS
  <2>1. IsFiniteSet(T) /\ Cardinality(T) <= Cardinality(S)
    BY FS_Subset
  <2>2. Cardinality(T) \in Nat
    BY <2>1, FS_CardinalityType
  <2>3. ASSUME T # {}
        PROVE  /\ Pick(T) \in S /\ T \ {Pick(T)} \in SUBSET S
               /\ Cardinality(T \ {Pick(T)}) = Cardinality(T) - 1
               /\ f[Pick(T)] \in Int
    BY <2>1, <2>3, PickIn, FS_RemoveElement
  <2> QED BY <2>1, <2>2, <2>3
<1>2. \A T \in SUBSET S : Cardinality(T) = 0 <=> T = {}
  BY <1>1, FS_EmptySet
<1>3. 0 \in Good
  <2>1. [T \in SUBSET S |-> 0] \in Built(0)
    BY <1>1, <1>2 DEF SumOver
  <2> QED BY <2>1
<1>4. ASSUME NEW n \in Nat, n \in Good
      PROVE  n + 1 \in Good
  <2>1. PICK g \in [SUBSET S -> Int] : \A T \in Upto(n) : g[T] = SumOver(f, g, T)
    BY <1>4
  <2> DEFINE h == [T \in SUBSET S |-> IF Cardinality(T) <= n THEN g[T] ELSE SumOver(f, g, T)]
  <2>2. h \in [SUBSET S -> Int]
    <3>1. ASSUME NEW T \in SUBSET S PROVE SumOver(f, g, T) \in Int
      <4>1. CASE T = {}
        BY <4>1 DEF SumOver
      <4>2. CASE T # {}
        <5>1. g[T \ {Pick(T)}] \in Int /\ f[Pick(T)] \in Int
          BY <1>1, <4>2
        <5> QED BY <4>2, <5>1 DEF SumOver
      <4> QED BY <4>1, <4>2
    <3> QED BY <2>1, <3>1
  <2>3. ASSUME NEW T \in Upto(n + 1) PROVE h[T] = SumOver(f, h, T)
    <3>1. h[T] = SumOver(f, g, T)
      BY <2>1
    <3>2. CASE T = {}
      BY <3>1, <3>2 DEF SumOver
    <3>3. CASE T # {}
      <4>1. T \ {Pick(T)} \in Upto(n)
        BY <1>1, <3>3
      <4>2. h[T \ {Pick(T)}] = g[T \ {Pick(T)}]
        BY <4>1
      <4> QED BY <3>1, <4>2 DEF SumOver
    <3> QED BY <3>2, <3>3
  <2>4. h \in Built(n + 1)
    BY <2>2, <2>3
  <2> HIDE DEF Built
  <2> QED BY <2>4
<1>5. Cardinality(S) \in Good
  <2> HIDE DEF Good
  <2>1. \A n \in Nat : n \in Good => n + 1 \in Good
    BY <1>4
  <2>2. \A n \in Nat : n \in Good
    BY <1>3, <2>1, GrowNumber
  <2> QED BY <2>2, FS_CardinalityType
<1> QED BY <1>1, <1>5

LEMMA SumsUnfold ==
    ASSUME NEW S, IsFiniteSet(S), NEW f, \A x \in S : f[x] \in Int
    PROVE  /\ Sums(f, S) \in [SUBSET S -> Int]
           /\ \A T \in SUBSET S : Sums(f, S)[T] = SumOver(f, Sums(f, S), T)
<1>1. PICK g \in [SUBSET S -> Int] : \A T \in SUBSET S : g[T] = SumOver(f, g, T)
  BY SumsExist
<1>2. g = [T \in SUBSET S |-> IF T = {} THEN 0 ELSE f[Pick(T)] + g[T \ {Pick(T)}]]
  BY <1>1 DEF SumOver
<1>3. \E h : h = [T \in SUBSET S |-> IF T = {} THEN 0 ELSE f[Pick(T)] + h[T \ {Pick(T)}]]
  BY <1>2
<1>4. Sums(f, S) = [T \in SUBSET S |->
                       IF T = {} THEN 0 ELSE f[Pick(T)] + Sums(f, S)[T \ {Pick(T)}]]
  BY <1>3 DEF Sums
<1>5. \A T \in SUBSET S : Sums(f, S)[T] = SumOver(f, Sums(f, S), T)
  BY <1>4, Zenon DEF SumOver
<1>6. \A T \in SUBSET S : Sums(f, S)[T] = g[T]
  <2> DEFINE Bad == {T \in SUBSET S : Sums(f, S)[T] # g[T]}
  <2>1. SUFFICES ASSUME Bad # {} PROVE FALSE
    OBVIOUS
  <2>2. PICK T \in Bad : \A U \in SUBSET T : U # T => U \notin Bad
    <3>1. Bad \subseteq SUBSET S
      OBVIOUS
    <3> HIDE DEF Bad
    <3> QED BY <2>1, <3>1, SmallestSubset
  <2>3. CASE T = {}
    BY <1>1, <1>5, <2>3 DEF SumOver
  <2>4. CASE T # {}
    <3>1. Pick(T) \in T
      BY <2>4, PickIn
    <3>2. Sums(f, S)[T \ {Pick(T)}] = g[T \ {Pick(T)}]
      BY <2>2, <3>1
    <3>3. Sums(f, S)[T] = g[T]
      BY <1>1, <1>5, <3>2 DEF SumOver
    <3> QED BY <3>3
  <2> QED BY <2>3, <2>4
<1>7. Sums(f, S) \in [SUBSET S -> Int]
  <2> DEFINE G == [T \in SUBSET S |->
                       IF T = {} THEN 0 ELSE f[Pick(T)] + Sums(f, S)[T \ {Pick(T)}]]
  <2>1. Sums(f, S) = G
    BY <1>4
  <2>2. \A T \in SUBSET S : G[T] \in Int
    BY <1>1, <1>6, <2>1
  <2> QED BY <2>1, <2>2
<1> QED BY <1>5, <1>7

\* The sum of a subset does not depend on the set it is a subset of.
LEMMA SumOfSubset ==
    ASSUME NEW S, IsFiniteSet(S), NEW f, \A x \in S : f[x] \in Int, NEW R \in SUBSET S
    PROVE  SumFunctionOnSet(f, R) = Sums(f, S)[R]
<1>1. IsFiniteSet(R) /\ \A x \in R : f[x] \in Int
  BY FS_Subset
<1>2. \A T \in SUBSET S : Sums(f, S)[T] = SumOver(f, Sums(f, S), T)
  BY SumsUnfold
<1>3. \A T \in SUBSET R : Sums(f, R)[T] = SumOver(f, Sums(f, R), T)
  BY <1>1, SumsUnfold
<1> DEFINE Bad == {T \in SUBSET R : Sums(f, R)[T] # Sums(f, S)[T]}
<1>4. SUFFICES ASSUME Bad # {} PROVE FALSE
  BY SumIsSums
<1>5. PICK T \in Bad : \A U \in SUBSET T : U # T => U \notin Bad
  <2>1. Bad \subseteq SUBSET R
    OBVIOUS
  <2> HIDE DEF Bad
  <2> QED BY <1>1, <1>4, <2>1, SmallestSubset
<1>6. CASE T = {}
  BY <1>2, <1>3, <1>6 DEF SumOver
<1>7. CASE T # {}
  <2>1. Pick(T) \in T
    BY <1>7, PickIn
  <2>2. Sums(f, R)[T \ {Pick(T)}] = Sums(f, S)[T \ {Pick(T)}]
    BY <1>5, <2>1
  <2>3. T \in SUBSET S
    OBVIOUS
  <2>4. Sums(f, R)[T] = Sums(f, S)[T]
    BY <1>2, <1>3, <2>2, <2>3 DEF SumOver
  <2> QED BY <2>4
<1> QED BY <1>6, <1>7

-----------------------------------------------------------------------------
(***************************************************************************)
(* The facts the other proofs use.                                         *)
(***************************************************************************)
LEMMA SumType ==
    ASSUME NEW S, IsFiniteSet(S), NEW f, \A x \in S : f[x] \in Int
    PROVE  SumFunctionOnSet(f, S) \in Int
BY SumsUnfold, SumIsSums

LEMMA SumEmpty ==
    ASSUME NEW f
    PROVE  SumFunctionOnSet(f, {}) = 0
<1>1. IsFiniteSet({}) /\ \A x \in {} : f[x] \in Int
  BY FS_EmptySet
<1>2. {} \in SUBSET {}
  OBVIOUS
<1>3. Sums(f, {})[{}] = SumOver(f, Sums(f, {}), {})
  BY <1>1, <1>2, SumsUnfold
<1> QED BY <1>3, SumIsSums DEF SumOver

\* Whatever element is taken out first, the sum is the same.
LEMMA SumRemove ==
    ASSUME NEW S, IsFiniteSet(S), NEW f, \A x \in S : f[x] \in Int, NEW x \in S
    PROVE  SumFunctionOnSet(f, S) = f[x] + SumFunctionOnSet(f, S \ {x})
<1> DEFINE G == Sums(f, S)
           Bad == {T \in SUBSET S : \E y \in T : G[T] # f[y] + G[T \ {y}]}
<1>1. /\ G \in [SUBSET S -> Int]
      /\ \A T \in SUBSET S : T # {} => G[T] = f[Pick(T)] + G[T \ {Pick(T)}]
  BY SumsUnfold DEF SumOver
<1> HIDE DEF G
<1>2. Bad = {}
  <2>1. SUFFICES ASSUME Bad # {} PROVE FALSE
    OBVIOUS
  <2>2. PICK T \in Bad : \A U \in SUBSET T : U # T => U \notin Bad
    <3>1. Bad \subseteq SUBSET S
      OBVIOUS
    <3> HIDE DEF Bad
    <3> QED BY <2>1, <3>1, SmallestSubset
  <2>3. PICK y \in T : G[T] # f[y] + G[T \ {y}]
    BY <2>2
  <2> DEFINE c == Pick(T)
  <2>4. c \in T /\ G[T] = f[c] + G[T \ {c}]
    BY <1>1, <2>3, PickIn
  <2> HIDE DEF c
  <2>5. c # y
    BY <2>3, <2>4
  <2>6. T \ {c} \notin Bad /\ T \ {y} \notin Bad
    BY <2>2, <2>3, <2>4
  <2>7. /\ T \ {c} \in SUBSET S /\ y \in T \ {c}
        /\ T \ {y} \in SUBSET S /\ c \in T \ {y}
    BY <2>3, <2>4, <2>5
  <2>8. G[T \ {c}] = f[y] + G[(T \ {c}) \ {y}]
    BY <2>6, <2>7
  <2>9. G[T \ {y}] = f[c] + G[(T \ {y}) \ {c}]
    BY <2>6, <2>7
  <2>10. (T \ {c}) \ {y} = (T \ {y}) \ {c} /\ (T \ {c}) \ {y} \in SUBSET S
    OBVIOUS
  <2>11. f[c] \in Int /\ f[y] \in Int /\ G[(T \ {c}) \ {y}] \in Int
    BY <1>1, <2>4, <2>10
  <2>12. G[T] = f[y] + G[T \ {y}]
    BY <2>4, <2>8, <2>9, <2>10, <2>11
  <2> QED BY <2>3, <2>12
<1>3. S \in SUBSET S /\ S \ {x} \in SUBSET S
  OBVIOUS
<1>4. G[S] = f[x] + G[S \ {x}]
  BY <1>2, <1>3
<1> QED BY <1>3, <1>4, SumOfSubset DEF G

LEMMA SumAdd ==
    ASSUME NEW S, IsFiniteSet(S), NEW f, NEW x, x \notin S,
           \A y \in S \cup {x} : f[y] \in Int
    PROVE  SumFunctionOnSet(f, S \cup {x}) = f[x] + SumFunctionOnSet(f, S)
<1>1. IsFiniteSet(S \cup {x}) /\ x \in S \cup {x} /\ (S \cup {x}) \ {x} = S
  BY FS_AddElement
<1>2. SumFunctionOnSet(f, S \cup {x}) = f[x] + SumFunctionOnSet(f, (S \cup {x}) \ {x})
  BY <1>1, SumRemove
<1> QED BY <1>1, <1>2

LEMMA SumSame ==
    ASSUME NEW S, IsFiniteSet(S), NEW f, NEW g,
           \A x \in S : f[x] \in Int /\ f[x] = g[x]
    PROVE  SumFunctionOnSet(f, S) = SumFunctionOnSet(g, S)
<1> DEFINE Good == {T \in SUBSET S : SumFunctionOnSet(f, T) = SumFunctionOnSet(g, T)}
<1>1. {} \in Good
  BY SumEmpty
<1>2. ASSUME NEW T \in SUBSET S, NEW x \in S, T \in Good, x \notin T
      PROVE  T \cup {x} \in Good
  <2>1. IsFiniteSet(T) /\ T \cup {x} \in SUBSET S
    BY FS_Subset
  <2>2. SumFunctionOnSet(f, T \cup {x}) = f[x] + SumFunctionOnSet(f, T)
    BY <1>2, <2>1, SumAdd
  <2>3. SumFunctionOnSet(g, T \cup {x}) = g[x] + SumFunctionOnSet(g, T)
    BY <1>2, <2>1, SumAdd
  <2> QED BY <1>2, <2>1, <2>2, <2>3
<1> HIDE DEF Good
<1>3. S \in Good
  BY <1>1, <1>2, GrowSet
<1> QED BY <1>3 DEF Good

LEMMA SumDisjoint ==
    ASSUME NEW S, IsFiniteSet(S), NEW R, IsFiniteSet(R), S \cap R = {},
           NEW f, \A x \in S \cup R : f[x] \in Int
    PROVE  SumFunctionOnSet(f, S \cup R) =
               SumFunctionOnSet(f, S) + SumFunctionOnSet(f, R)
<1> DEFINE Good == {T \in SUBSET R : SumFunctionOnSet(f, S \cup T) =
                        SumFunctionOnSet(f, S) + SumFunctionOnSet(f, T)}
<1>0. SumFunctionOnSet(f, S) \in Int
  BY SumType
<1>1. {} \in Good
  <2>1. S \cup {} = S
    OBVIOUS
  <2> QED BY <1>0, <2>1, SumEmpty
<1>2. ASSUME NEW T \in SUBSET R, NEW x \in R, T \in Good, x \notin T
      PROVE  T \cup {x} \in Good
  <2>1. IsFiniteSet(T) /\ T \cup {x} \in SUBSET R
    BY FS_Subset
  <2>2. IsFiniteSet(S \cup T) /\ x \notin S \cup T /\ S \cup (T \cup {x}) = (S \cup T) \cup {x}
    BY <1>2, <2>1, FS_Union
  <2>3. SumFunctionOnSet(f, T \cup {x}) = f[x] + SumFunctionOnSet(f, T)
    BY <1>2, <2>1, SumAdd
  <2>4. SumFunctionOnSet(f, (S \cup T) \cup {x}) = f[x] + SumFunctionOnSet(f, S \cup T)
    BY <2>1, <2>2, SumAdd
  <2>5. SumFunctionOnSet(f, T) \in Int /\ f[x] \in Int
    BY <2>1, SumType
  <2>6. SumFunctionOnSet(f, S \cup T) = SumFunctionOnSet(f, S) + SumFunctionOnSet(f, T)
    BY <1>2
  <2>7. SumFunctionOnSet(f, (S \cup T) \cup {x}) =
            SumFunctionOnSet(f, S) + SumFunctionOnSet(f, T \cup {x})
    BY <1>0, <2>3, <2>4, <2>5, <2>6
  <2>8. SumFunctionOnSet(f, S \cup (T \cup {x})) =
            SumFunctionOnSet(f, S) + SumFunctionOnSet(f, T \cup {x})
    BY <2>2, <2>7
  <2> QED BY <2>1, <2>8
<1> HIDE DEF Good
<1>3. R \in Good
  BY <1>1, <1>2, GrowSet
<1> QED BY <1>3 DEF Good

LEMMA SumNat ==
    ASSUME NEW S, IsFiniteSet(S), NEW f, \A x \in S : f[x] \in Nat
    PROVE  SumFunctionOnSet(f, S) \in Nat
<1> DEFINE Good == {T \in SUBSET S : SumFunctionOnSet(f, T) \in Nat}
<1>1. {} \in Good
  BY SumEmpty
<1>2. ASSUME NEW T \in SUBSET S, NEW x \in S, T \in Good, x \notin T
      PROVE  T \cup {x} \in Good
  <2>1. IsFiniteSet(T) /\ T \cup {x} \in SUBSET S
    BY FS_Subset
  <2>2. \A y \in T \cup {x} : f[y] \in Int
    OBVIOUS
  <2>3. SumFunctionOnSet(f, T \cup {x}) = f[x] + SumFunctionOnSet(f, T)
    BY <1>2, <2>1, <2>2, SumAdd
  <2> QED BY <1>2, <2>1, <2>3
<1> HIDE DEF Good
<1>3. S \in Good
  BY <1>1, <1>2, GrowSet
<1> QED BY <1>3 DEF Good

LEMMA SumMonotone ==
    ASSUME NEW S, IsFiniteSet(S), NEW f, \A x \in S : f[x] \in Nat, NEW R \in SUBSET S
    PROVE  SumFunctionOnSet(f, R) <= SumFunctionOnSet(f, S)
<1>1. IsFiniteSet(R) /\ IsFiniteSet(S \ R)
  BY FS_Subset
<1>2. R \cap (S \ R) = {} /\ R \cup (S \ R) = S
  OBVIOUS
<1>3. SumFunctionOnSet(f, S) = SumFunctionOnSet(f, R) + SumFunctionOnSet(f, S \ R)
  <2>1. SumFunctionOnSet(f, R \cup (S \ R)) =
            SumFunctionOnSet(f, R) + SumFunctionOnSet(f, S \ R)
    BY <1>1, <1>2, SumDisjoint
  <2> QED BY <1>2, <2>1
<1>4. SumFunctionOnSet(f, R) \in Nat /\ SumFunctionOnSet(f, S \ R) \in Nat
  BY <1>1, SumNat
<1> QED BY <1>3, <1>4

\* One point of the function changes.
LEMMA SumExcept ==
    ASSUME NEW S, IsFiniteSet(S), NEW f, \A x \in S : f[x] \in Int,
           NEW x \in S, NEW g, g[x] \in Int, \A y \in S \ {x} : g[y] = f[y]
    PROVE  SumFunctionOnSet(g, S) = SumFunctionOnSet(f, S) + g[x] - f[x]
<1>1. IsFiniteSet(S \ {x})
  BY FS_RemoveElement
<1>2. SumFunctionOnSet(g, S \ {x}) = SumFunctionOnSet(f, S \ {x})
  BY <1>1, SumSame
<1>3. SumFunctionOnSet(f, S) = f[x] + SumFunctionOnSet(f, S \ {x})
  BY SumRemove
<1>4. SumFunctionOnSet(g, S) = g[x] + SumFunctionOnSet(g, S \ {x})
  BY SumRemove
<1>5. SumFunctionOnSet(f, S \ {x}) \in Int
  BY <1>1, SumType
<1> QED BY <1>2, <1>3, <1>4, <1>5
=============================================================================
