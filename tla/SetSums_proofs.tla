--------------------------- MODULE SetSums_proofs ---------------------------
(***************************************************************************)
(* Sums of a function over a finite set (SumFunctionOnSet): what they are  *)
(* on the empty set, how they change with one element, and how they split  *)
(* and compare.  The induction behind them is over the size of the set,    *)
(* from the least size for which a statement would fail.                   *)
(***************************************************************************)
EXTENDS Integers, Functions, FiniteSetTheorems, WellFoundedInduction, TLAPS

\* Induction over the natural numbers, on the set where a statement holds.
LEMMA NatSetInduction ==
  ASSUME NEW T, 0 \in T, \A n \in Nat : n \in T => n + 1 \in T
  PROVE  Nat \subseteq T
<1> SUFFICES ASSUME Nat \ T # {} PROVE FALSE
  OBVIOUS
<1>1. IsWellFoundedOn(OpToRel(<, Nat), Nat)
  BY NatLessThanWellFounded
<1>2. PICK n \in Nat \ T : \A m \in Nat \ T : ~(<<m, n>> \in OpToRel(<, Nat))
  <2> DEFINE U == Nat \ T
             R == OpToRel(<, Nat)
  <2>1. IsWellFoundedOn(R, Nat) /\ U \subseteq Nat /\ U # {}
    BY <1>1
  <2> HIDE DEF U, R
  <2>2. \E n \in U : \A m \in U : ~(<<m, n>> \in R)
    BY <2>1, WFMin
  <2> QED
    BY <2>2 DEF U, R
<1>3. \A m \in Nat : m < n => <<m, n>> \in OpToRel(<, Nat)
  BY DEF OpToRel
<1>4. n # 0 /\ n - 1 \in Nat /\ n - 1 < n
  <2>1. n \in Nat /\ n \notin T
    OBVIOUS
  <2>2. n # 0
    BY <2>1
  <2> QED
    BY <2>1, <2>2
<1>5. n - 1 \in T
  BY <1>2, <1>3, <1>4
<1>6. (n - 1) + 1 = n
  OBVIOUS
<1> QED
  BY <1>2, <1>4, <1>5, <1>6

LEMMA OneLess ==
  ASSUME NEW T, IsFiniteSet(T), NEW x \in T, NEW n \in Nat, Cardinality(T) = n + 1
  PROVE  Cardinality(T \ {x}) = n
<1>1. Cardinality(T \ {x}) = Cardinality(T) - 1
  BY FS_RemoveElement
<1> QED
  BY <1>1

\* Induction over finite sets, on the set of subsets of which it holds: a set
\* from which one element less is good is good.
LEMMA SubsetInduction ==
  ASSUME NEW S, IsFiniteSet(S), NEW Good, {} \in Good,
         \A T \in SUBSET S : T # {} /\ (\A x \in T : T \ {x} \in Good) => T \in Good
  PROVE  SUBSET S \subseteq Good
<1> DEFINE Sizes == {n \in Nat : \A T \in SUBSET S : Cardinality(T) = n => T \in Good}
<1>1. \A T \in SUBSET S : IsFiniteSet(T) /\ Cardinality(T) \in Nat
  BY FS_Subset, FS_CardinalityType
<1>2. 0 \in Sizes
  BY <1>1, FS_EmptySet
<1>3. ASSUME NEW n \in Nat, n \in Sizes PROVE n + 1 \in Sizes
  <2> SUFFICES ASSUME NEW T \in SUBSET S, Cardinality(T) = n + 1 PROVE T \in Good
    OBVIOUS
  <2>1. IsFiniteSet(T) /\ T # {}
    BY <1>1, FS_EmptySet
  <2>2. ASSUME NEW x \in T PROVE T \ {x} \in Good
    <3>1. Cardinality(T \ {x}) = n
      BY <2>1, OneLess
    <3> QED
      BY <1>3, <3>1
  <2> QED
    BY <2>1, <2>2
<1> HIDE DEF Sizes
<1>4. Nat \subseteq Sizes
  BY <1>2, <1>3, NatSetInduction
<1> QED
  BY <1>1, <1>4 DEF Sizes

-----------------------------------------------------------------------------
(* The recursive function of the definition exists                         *)

One(T) == CHOOSE x \in T : TRUE

\* g sums f over the sets of D.
Sums(g, f, D) ==
  g = [T \in D |-> IF T = {} THEN 0 ELSE f[One(T)] + g[T \ {One(T)}]]

\* The one the definition chooses.
Iter(f, S) == CHOOSE g : Sums(g, f, SUBSET S)

LEMMA SumIsIter ==
  ASSUME NEW f, NEW S
  PROVE  SumFunctionOnSet(f, S) = Iter(f, S)[S]
  BY DEF SumFunctionOnSet, FoldFunctionOnSet, MapThenFoldSet, Iter, Sums, One

\* Some function sums f over the sets of up to n elements, for every n: the
\* next one looks its sums up in the last.
LEMMA IterSums ==
  ASSUME NEW f, NEW S, IsFiniteSet(S)
  PROVE  Sums(Iter(f, S), f, SUBSET S)
<1> DEFINE Upto(n) == {T \in SUBSET S : Cardinality(T) <= n}
           Solved  == {n \in Nat : \E g : Sums(g, f, Upto(n))}
<1>1. \A T \in SUBSET S : /\ IsFiniteSet(T) /\ Cardinality(T) \in Nat
                          /\ Cardinality(T) <= Cardinality(S)
  BY FS_Subset, FS_CardinalityType
<1>2. 0 \in Solved
  <2>1. \A T \in Upto(0) : T = {}
    BY <1>1, FS_EmptySet
  <2>2. Sums([T \in Upto(0) |-> 0], f, Upto(0))
    BY <2>1 DEF Sums
  <2> QED
    BY <2>2
<1>3. ASSUME NEW n \in Nat, n \in Solved PROVE n + 1 \in Solved
  <2>1. PICK g : Sums(g, f, Upto(n))
    BY <1>3
  <2> DEFINE h == [T \in Upto(n + 1) |->
                    IF T = {} THEN 0 ELSE f[One(T)] + g[T \ {One(T)}]]
  <2>2. \A T \in Upto(n) : T \in Upto(n + 1) /\ h[T] = g[T]
    <3>1. \A T \in Upto(n) : T \in Upto(n + 1)
      BY <1>1
    <3>2. g = [T \in Upto(n) |->
                IF T = {} THEN 0 ELSE f[One(T)] + g[T \ {One(T)}]]
      BY <2>1 DEF Sums
    <3>3. \A T \in Upto(n) :
            g[T] = IF T = {} THEN 0 ELSE f[One(T)] + g[T \ {One(T)}]
      BY <3>2
    <3> QED
      BY <3>1, <3>3
  <2>3. ASSUME NEW T \in Upto(n + 1), T # {} PROVE T \ {One(T)} \in Upto(n)
    <3>1. One(T) \in T
      BY <2>3 DEF One
    <3>2. Cardinality(T \ {One(T)}) = Cardinality(T) - 1
      BY <1>1, <3>1, FS_RemoveElement
    <3> QED
      BY <1>1, <3>2
  <2>4. \A T \in Upto(n + 1) :
          T # {} => h[T \ {One(T)}] = g[T \ {One(T)}]
    BY <2>2, <2>3
  <2>5. h = [T \in Upto(n + 1) |->
              IF T = {} THEN 0 ELSE f[One(T)] + h[T \ {One(T)}]]
    BY <2>4
  <2>6. Sums(h, f, Upto(n + 1))
    <3> HIDE DEF h
    <3> QED
      BY <2>5 DEF Sums
  <2>7. \E k : Sums(k, f, Upto(n + 1))
    <3> HIDE DEF h, Upto
    <3> QED
      BY <2>6
  <2> QED
    <3> HIDE DEF Upto
    <3> QED
      BY <2>7
<1>4. Cardinality(S) \in Solved
  <2> HIDE DEF Solved
  <2> QED
    BY <1>1, <1>2, <1>3, NatSetInduction
<1>5. Upto(Cardinality(S)) = SUBSET S
  BY <1>1
<1>6. \E g : Sums(g, f, SUBSET S)
  <2> HIDE DEF Upto
  <2> QED
    BY <1>4, <1>5
<1> QED
  BY <1>6 DEF Iter

\* Two of them agree where both are defined.
LEMMA SumsAgree ==
  ASSUME NEW f, NEW S, IsFiniteSet(S), NEW g, NEW h, NEW D, NEW E,
         Sums(g, f, D), Sums(h, f, E), SUBSET S \subseteq D, SUBSET S \subseteq E
  PROVE  g[S] = h[S]
<1> DEFINE Good == {T \in SUBSET S : g[T] = h[T]}
<1>1. \A T \in SUBSET S :
        /\ g[T] = IF T = {} THEN 0 ELSE f[One(T)] + g[T \ {One(T)}]
        /\ h[T] = IF T = {} THEN 0 ELSE f[One(T)] + h[T \ {One(T)}]
  BY DEF Sums
<1>2. {} \in Good
  BY <1>1
<1>3. ASSUME NEW T \in SUBSET S, T # {}, \A x \in T : T \ {x} \in Good
      PROVE  T \in Good
  <2>1. One(T) \in T
    BY <1>3 DEF One
  <2> QED
    BY <1>1, <1>3, <2>1
<1> HIDE DEF Good
<1>4. SUBSET S \subseteq Good
  BY <1>2, <1>3, SubsetInduction
<1> QED
  BY <1>4 DEF Good

-----------------------------------------------------------------------------
(* The laws of sums                                                        *)

LEMMA IterAt ==
  ASSUME NEW f, NEW S, IsFiniteSet(S), NEW T \in SUBSET S
  PROVE  Iter(f, S)[T] =
           IF T = {} THEN 0 ELSE f[One(T)] + Iter(f, S)[T \ {One(T)}]
<1> DEFINE g == Iter(f, S)
<1>1. Sums(g, f, SUBSET S)
  BY IterSums
<1> HIDE DEF g
<1>2. g = [U \in SUBSET S |-> IF U = {} THEN 0 ELSE f[One(U)] + g[U \ {One(U)}]]
  BY <1>1 DEF Sums
<1>3. g[T] = IF T = {} THEN 0 ELSE f[One(T)] + g[T \ {One(T)}]
  BY <1>2
<1> QED
  BY <1>3 DEF g

LEMMA SumEmpty == ASSUME NEW f PROVE SumFunctionOnSet(f, {}) = 0
<1>1. Iter(f, {})[{}] = 0
  BY IterAt, FS_EmptySet
<1> QED
  BY <1>1, SumIsIter

LEMMA SumOne ==
  ASSUME NEW f, NEW S, IsFiniteSet(S), S # {}
  PROVE  /\ One(S) \in S
         /\ SumFunctionOnSet(f, S)
              = f[One(S)] + SumFunctionOnSet(f, S \ {One(S)})
<1> DEFINE R == S \ {One(S)}
<1>1. One(S) \in S
  BY DEF One
<1>2. IsFiniteSet(R) /\ SUBSET R \subseteq SUBSET S
  BY FS_RemoveElement
<1>3. Iter(f, S)[S] = f[One(S)] + Iter(f, S)[R]
  BY IterAt
<1>4. Iter(f, S)[R] = Iter(f, R)[R]
  <2>1. Sums(Iter(f, S), f, SUBSET S) /\ Sums(Iter(f, R), f, SUBSET R)
    BY <1>2, IterSums
  <2> HIDE DEF R
  <2> QED
    BY <1>2, <2>1, SumsAgree
<1> QED
  BY <1>1, <1>3, <1>4, SumIsIter

\* The order of the elements does not matter.
LEMMA SumRemove ==
  ASSUME NEW f, NEW S, IsFiniteSet(S), \A x \in S : f[x] \in Int
  PROVE  /\ SumFunctionOnSet(f, S) \in Int
         /\ \A x \in S :
              SumFunctionOnSet(f, S) = f[x] + SumFunctionOnSet(f, S \ {x})
<1> DEFINE Good == {T \in SUBSET S :
              /\ SumFunctionOnSet(f, T) \in Int
              /\ \A x \in T :
                   /\ SumFunctionOnSet(f, T \ {x}) \in Int
                   /\ SumFunctionOnSet(f, T) = f[x] + SumFunctionOnSet(f, T \ {x})}
<1>1. {} \in Good
  BY SumEmpty
<1>2. ASSUME NEW T \in SUBSET S, T # {}, \A x \in T : T \ {x} \in Good
      PROVE  T \in Good
  <2> DEFINE c == One(T)
             s(U) == SumFunctionOnSet(f, U)
  <2>1. IsFiniteSet(T)
    BY FS_Subset
  <2>2. c \in T /\ s(T) = f[c] + s(T \ {c})
    BY <1>2, <2>1, SumOne
  <2> HIDE DEF c, s
  <2>3. \A x \in T : /\ s(T \ {x}) \in Int /\ f[x] \in Int
                     /\ \A y \in T \ {x} :
                          /\ s((T \ {x}) \ {y}) \in Int
                          /\ s(T \ {x}) = f[y] + s((T \ {x}) \ {y})
    BY <1>2 DEF s
  <2>4. s(T) \in Int
    BY <2>2, <2>3
  <2>5. ASSUME NEW x \in T PROVE s(T) = f[x] + s(T \ {x})
    <3>1. CASE x = c
      BY <2>2, <3>1
    <3>2. CASE x # c
      <4>1. (T \ {c}) \ {x} = (T \ {x}) \ {c}
        OBVIOUS
      <4>2. s(T \ {c}) = f[x] + s((T \ {c}) \ {x})
        BY <2>2, <2>3, <3>2
      <4>3. s(T \ {x}) = f[c] + s((T \ {x}) \ {c})
        BY <2>2, <2>3, <3>2
      <4>4. s((T \ {x}) \ {c}) \in Int
        BY <2>2, <2>3, <3>2
      <4>5. s(T \ {c}) = f[x] + s((T \ {x}) \ {c})
        BY <4>1, <4>2
      <4>6. f[x] \in Int /\ f[c] \in Int
        BY <2>2, <2>3
      <4> QED
        BY <2>2, <4>3, <4>4, <4>5, <4>6
    <3> QED
      BY <3>1, <3>2
  <2> QED
    BY <2>3, <2>4, <2>5 DEF s
<1> HIDE DEF Good
<1>3. SUBSET S \subseteq Good
  BY <1>1, <1>2, SubsetInduction
<1> QED
  BY <1>3 DEF Good

LEMMA SumAdd ==
  ASSUME NEW f, NEW S, IsFiniteSet(S), NEW x, x \notin S,
         \A y \in S \cup {x} : f[y] \in Int
  PROVE  /\ SumFunctionOnSet(f, S \cup {x}) = f[x] + SumFunctionOnSet(f, S)
         /\ SumFunctionOnSet(f, S) \in Int
<1> DEFINE T == S \cup {x}
<1>1. IsFiniteSet(T) /\ x \in T /\ T \ {x} = S
  BY FS_AddElement
<1>2. \A y \in T : f[y] \in Int
  OBVIOUS
<1> HIDE DEF T
<1>3. SumFunctionOnSet(f, T) = f[x] + SumFunctionOnSet(f, T \ {x})
  BY <1>1, <1>2, SumRemove
<1>4. SumFunctionOnSet(f, S) \in Int
  BY SumRemove
<1> QED
  BY <1>1, <1>3, <1>4 DEF T

\* Only the values on the set count.
LEMMA SumSame ==
  ASSUME NEW f, NEW g, NEW S, IsFiniteSet(S),
         \A x \in S : f[x] \in Int /\ f[x] = g[x]
  PROVE  SumFunctionOnSet(f, S) = SumFunctionOnSet(g, S)
<1> DEFINE Good == {T \in SUBSET S : SumFunctionOnSet(f, T) = SumFunctionOnSet(g, T)}
<1>1. {} \in Good
  BY SumEmpty
<1>2. ASSUME NEW T \in SUBSET S, T # {}, \A x \in T : T \ {x} \in Good
      PROVE  T \in Good
  <2>1. PICK x \in T : TRUE
    BY <1>2
  <2>2. IsFiniteSet(T)
    BY FS_Subset
  <2>3. SumFunctionOnSet(f, T) = f[x] + SumFunctionOnSet(f, T \ {x})
    BY <2>2, SumRemove
  <2>4. SumFunctionOnSet(g, T) = g[x] + SumFunctionOnSet(g, T \ {x})
    BY <2>2, SumRemove
  <2>5. SumFunctionOnSet(f, T \ {x}) = SumFunctionOnSet(g, T \ {x})
    BY <1>2
  <2> QED
    BY <2>3, <2>4, <2>5
<1> HIDE DEF Good
<1>3. SUBSET S \subseteq Good
  BY <1>1, <1>2, SubsetInduction
<1> QED
  BY <1>3 DEF Good

\* Larger values make a larger sum.
LEMMA SumLe ==
  ASSUME NEW f, NEW g, NEW S, IsFiniteSet(S),
         \A x \in S : f[x] \in Int /\ g[x] \in Int /\ f[x] <= g[x]
  PROVE  /\ SumFunctionOnSet(f, S) \in Int /\ SumFunctionOnSet(g, S) \in Int
         /\ SumFunctionOnSet(f, S) <= SumFunctionOnSet(g, S)
<1> DEFINE Good == {T \in SUBSET S :
                     SumFunctionOnSet(f, T) <= SumFunctionOnSet(g, T)}
<1>0. \A T \in SUBSET S : /\ SumFunctionOnSet(f, T) \in Int
                          /\ SumFunctionOnSet(g, T) \in Int
  BY FS_Subset, SumRemove
<1>1. {} \in Good
  BY SumEmpty
<1>2. ASSUME NEW T \in SUBSET S, T # {}, \A x \in T : T \ {x} \in Good
      PROVE  T \in Good
  <2>1. PICK x \in T : TRUE
    BY <1>2
  <2>2. IsFiniteSet(T)
    BY FS_Subset
  <2>3. SumFunctionOnSet(f, T) = f[x] + SumFunctionOnSet(f, T \ {x})
    BY <2>2, SumRemove
  <2>4. SumFunctionOnSet(g, T) = g[x] + SumFunctionOnSet(g, T \ {x})
    BY <2>2, SumRemove
  <2>5. SumFunctionOnSet(f, T \ {x}) <= SumFunctionOnSet(g, T \ {x})
    BY <1>2
  <2>6. f[x] \in Int /\ g[x] \in Int /\ f[x] <= g[x]
    OBVIOUS
  <2>7. T \ {x} \in SUBSET S
    OBVIOUS
  <2> QED
    BY <1>0, <2>3, <2>4, <2>5, <2>6, <2>7
<1> HIDE DEF Good
<1>3. SUBSET S \subseteq Good
  BY <1>1, <1>2, SubsetInduction
<1> QED
  BY <1>0, <1>3 DEF Good

\* Disjoint sets add up.
LEMMA SumUnion ==
  ASSUME NEW f, NEW S, IsFiniteSet(S), NEW R, IsFiniteSet(R), S \cap R = {},
         \A x \in S \cup R : f[x] \in Int
  PROVE  SumFunctionOnSet(f, S \cup R)
           = SumFunctionOnSet(f, S) + SumFunctionOnSet(f, R)
<1> DEFINE Good == {T \in SUBSET S : SumFunctionOnSet(f, T \cup R)
                     = SumFunctionOnSet(f, T) + SumFunctionOnSet(f, R)}
<1>0. \A T \in SUBSET S : /\ IsFiniteSet(T) /\ IsFiniteSet(T \cup R)
                          /\ SumFunctionOnSet(f, T) \in Int
                          /\ SumFunctionOnSet(f, R) \in Int
  BY FS_Subset, FS_Union, SumRemove
<1>1. {} \in Good
  <2>1. {} \cup R = R
    OBVIOUS
  <2> QED
    BY <1>0, <2>1, SumEmpty
<1>2. ASSUME NEW T \in SUBSET S, T # {}, \A x \in T : T \ {x} \in Good
      PROVE  T \in Good
  <2>1. PICK x \in T : TRUE
    BY <1>2
  <2>2. SumFunctionOnSet(f, T) = f[x] + SumFunctionOnSet(f, T \ {x})
    <3>1. IsFiniteSet(T) /\ \A y \in T : f[y] \in Int
      BY <1>0
    <3>2. \A y \in T : SumFunctionOnSet(f, T) = f[y] + SumFunctionOnSet(f, T \ {y})
      BY <3>1, SumRemove, ZenonT(60)
    <3> QED
      BY <3>2
  <2>3. (T \cup R) \ {x} = (T \ {x}) \cup R /\ x \in T \cup R
    OBVIOUS
  <2>4. \A y \in T \cup R : f[y] \in Int
    OBVIOUS
  <2>5. SumFunctionOnSet(f, T \cup R) = f[x] + SumFunctionOnSet(f, (T \cup R) \ {x})
    BY <1>0, <2>3, <2>4, SumRemove
  <2>6. SumFunctionOnSet(f, (T \ {x}) \cup R)
          = SumFunctionOnSet(f, T \ {x}) + SumFunctionOnSet(f, R)
    BY <1>2
  <2>7. f[x] \in Int /\ T \ {x} \in SUBSET S
    OBVIOUS
  <2>8. /\ SumFunctionOnSet(f, T \ {x}) \in Int
        /\ SumFunctionOnSet(f, R) \in Int
    BY <1>0, <2>7
  <2>9. SumFunctionOnSet(f, T \cup R)
          = f[x] + SumFunctionOnSet(f, (T \ {x}) \cup R)
    BY <2>3, <2>5
  <2>10. SumFunctionOnSet(f, T \cup R)
           = SumFunctionOnSet(f, T) + SumFunctionOnSet(f, R)
    BY <2>2, <2>6, <2>7, <2>8, <2>9
  <2> QED
    BY <2>10
<1> HIDE DEF Good
<1>3. SUBSET S \subseteq Good
  BY <1>1, <1>2, SubsetInduction
<1> QED
  BY <1>3 DEF Good

\* A sum of naturals is one, and a part of it is no more than the whole.
LEMMA SumNat ==
  ASSUME NEW f, NEW S, IsFiniteSet(S), \A x \in S : f[x] \in Nat
  PROVE  SumFunctionOnSet(f, S) \in Nat
<1> DEFINE Good == {T \in SUBSET S : SumFunctionOnSet(f, T) \in Nat}
<1>1. {} \in Good
  BY SumEmpty
<1>2. ASSUME NEW T \in SUBSET S, T # {}, \A x \in T : T \ {x} \in Good
      PROVE  T \in Good
  <2>1. PICK x \in T : TRUE
    BY <1>2
  <2>2. IsFiniteSet(T)
    BY FS_Subset
  <2>3. SumFunctionOnSet(f, T) = f[x] + SumFunctionOnSet(f, T \ {x})
    BY <2>2, SumRemove
  <2>4. SumFunctionOnSet(f, T \ {x}) \in Nat
    BY <1>2
  <2>5. f[x] \in Nat
    OBVIOUS
  <2>6. SumFunctionOnSet(f, T) \in Nat
    BY <2>3, <2>4, <2>5
  <2> QED
    BY <2>6
<1> HIDE DEF Good
<1>3. SUBSET S \subseteq Good
  BY <1>1, <1>2, SubsetInduction
<1> QED
  BY <1>3 DEF Good

LEMMA SumPart ==
  ASSUME NEW f, NEW S, IsFiniteSet(S), NEW R \in SUBSET S,
         \A x \in S : f[x] \in Nat
  PROVE  /\ SumFunctionOnSet(f, R) \in Nat /\ SumFunctionOnSet(f, S) \in Nat
         /\ SumFunctionOnSet(f, R) <= SumFunctionOnSet(f, S)
<1> DEFINE T == S \ R
<1>1. IsFiniteSet(R) /\ IsFiniteSet(T) /\ R \cup T = S /\ R \cap T = {}
  BY FS_Subset
<1>2. /\ SumFunctionOnSet(f, R) \in Nat /\ SumFunctionOnSet(f, T) \in Nat
      /\ SumFunctionOnSet(f, S) \in Nat
  BY <1>1, SumNat
<1>3. SumFunctionOnSet(f, R \cup T)
        = SumFunctionOnSet(f, R) + SumFunctionOnSet(f, T)
  <2>1. \A x \in R \cup T : f[x] \in Int
    BY <1>1
  <2> HIDE DEF T
  <2> QED
    BY <1>1, <2>1, SumUnion
<1> QED
  BY <1>1, <1>2, <1>3

\* A sum of nothing but zeros.
LEMMA SumZero ==
  ASSUME NEW f, NEW S, IsFiniteSet(S), \A x \in S : f[x] = 0
  PROVE  SumFunctionOnSet(f, S) = 0
<1> DEFINE Good == {T \in SUBSET S : SumFunctionOnSet(f, T) = 0}
<1>1. {} \in Good
  BY SumEmpty
<1>2. ASSUME NEW T \in SUBSET S, T # {}, \A x \in T : T \ {x} \in Good
      PROVE  T \in Good
  <2>1. PICK x \in T : TRUE
    BY <1>2
  <2>2. IsFiniteSet(T) /\ f[x] = 0
    BY FS_Subset
  <2>3. SumFunctionOnSet(f, T) = f[x] + SumFunctionOnSet(f, T \ {x})
    BY <2>2, SumRemove
  <2>4. SumFunctionOnSet(f, T \ {x}) = 0
    BY <1>2
  <2> QED
    BY <2>2, <2>3, <2>4
<1> HIDE DEF Good
<1>3. SUBSET S \subseteq Good
  BY <1>1, <1>2, SubsetInduction
<1> QED
  BY <1>3 DEF Good

\* One value changed.
LEMMA SumChange ==
  ASSUME NEW f, NEW g, NEW S, IsFiniteSet(S), NEW x \in S,
         \A y \in S : f[y] \in Int /\ g[y] \in Int,
         \A y \in S \ {x} : g[y] = f[y]
  PROVE  SumFunctionOnSet(g, S) = SumFunctionOnSet(f, S) - f[x] + g[x]
<1> DEFINE R == S \ {x}
<1>1. IsFiniteSet(R)
  BY FS_RemoveElement
<1>2. SumFunctionOnSet(f, R) = SumFunctionOnSet(g, R)
  BY <1>1, SumSame
<1>3. /\ SumFunctionOnSet(f, S) = f[x] + SumFunctionOnSet(f, R)
      /\ SumFunctionOnSet(g, S) = g[x] + SumFunctionOnSet(g, R)
      /\ SumFunctionOnSet(f, R) \in Int
  BY <1>1, SumRemove
<1> QED
  BY <1>2, <1>3

\* Summing the sums over the fibres of d sums over all of them.
LEMMA SumFibres ==
  ASSUME NEW f, NEW S, IsFiniteSet(S), \A x \in S : f[x] \in Int, NEW d,
         NEW A, IsFiniteSet(A)
  PROVE  SumFunctionOnSet([a \in A |-> SumFunctionOnSet(f, {x \in S : d[x] = a})], A)
           = SumFunctionOnSet(f, {x \in S : d[x] \in A})
<1> DEFINE F(a) == {x \in S : d[x] = a}
           G(T) == {x \in S : d[x] \in T}
           g == [a \in A |-> SumFunctionOnSet(f, F(a))]
           Good == {T \in SUBSET A : SumFunctionOnSet(g, T) = SumFunctionOnSet(f, G(T))}
<1>0. /\ \A a \in A : IsFiniteSet(F(a)) /\ F(a) \in SUBSET S /\ g[a] \in Int
      /\ \A T \in SUBSET A : IsFiniteSet(G(T)) /\ G(T) \in SUBSET S
  <2>1. \A T \in SUBSET S : IsFiniteSet(T) /\ SumFunctionOnSet(f, T) \in Int
    BY FS_Subset, SumRemove
  <2> QED
    BY <2>1
<1>1. {} \in Good
  <2>1. G({}) = {}
    OBVIOUS
  <2> QED
    BY <2>1, SumEmpty
<1>2. ASSUME NEW T \in SUBSET A, T # {}, \A a \in T : T \ {a} \in Good
      PROVE  T \in Good
  <2>1. PICK a \in T : TRUE
    BY <1>2
  <2>2. IsFiniteSet(T)
    BY FS_Subset
  <2>3. /\ F(a) \cup G(T \ {a}) = G(T) /\ F(a) \cap G(T \ {a}) = {}
        /\ F(a) \in SUBSET S /\ G(T \ {a}) \in SUBSET S
    OBVIOUS
  <2>4. g[a] = SumFunctionOnSet(f, F(a))
    OBVIOUS
  <2>5. SumFunctionOnSet(g, T \ {a}) = SumFunctionOnSet(f, G(T \ {a}))
    BY <1>2
  <2> HIDE DEF F, G, g
  <2>6. SumFunctionOnSet(g, T) = g[a] + SumFunctionOnSet(g, T \ {a})
    BY <1>0, <2>2, SumRemove
  <2>7. IsFiniteSet(F(a)) /\ IsFiniteSet(G(T \ {a}))
    BY <1>0
  <2>8. \A x \in F(a) \cup G(T \ {a}) : f[x] \in Int
    BY <2>3
  <2>9. SumFunctionOnSet(f, F(a) \cup G(T \ {a}))
          = SumFunctionOnSet(f, F(a)) + SumFunctionOnSet(f, G(T \ {a}))
    BY <2>3, <2>7, <2>8, SumUnion, ZenonT(60)
  <2>10. SumFunctionOnSet(g, T) = SumFunctionOnSet(f, G(T))
    BY <2>3, <2>4, <2>5, <2>6, <2>9
  <2> QED
    BY <2>10
<1> HIDE DEF Good
<1>3. SUBSET A \subseteq Good
  BY <1>1, <1>2, SubsetInduction
<1>4. SumFunctionOnSet(g, A) = SumFunctionOnSet(f, G(A))
  BY <1>3 DEF Good
<1> QED
  BY <1>4

-----------------------------------------------------------------------------
(* Division                                                                *)

\* Integer division of positive numbers rounds downwards.
LEMMA DivNat ==
  ASSUME NEW a \in Nat, NEW b \in Nat \ {0}
  PROVE  /\ a \div b \in Nat
         /\ (a \div b) * b <= a
         /\ a < (a \div b) * b + b
  OBVIOUS

\* A product bounded by a product: cancel the common positive factor.
LEMMA CancelFactor ==
  ASSUME NEW a \in Nat, NEW b \in Nat, NEW c \in Nat \ {0}, a * c <= b * c
  PROVE  a <= b
  OBVIOUS

\* A ratio of at most one takes at most the whole, and one below it less.
LEMMA ShareBounds ==
  ASSUME NEW a \in Nat, NEW num \in Nat, NEW den \in Nat \ {0}, num <= den
  PROVE  (num * a) \div den \in Nat /\ (num * a) \div den <= a
<1> DEFINE q == (num * a) \div den
<1>1. num * a \in Nat /\ num * a <= a * den
  OBVIOUS
<1>2. q \in Nat /\ q * den <= num * a
  BY <1>1, DivNat
<1> HIDE DEF q
<1>3. q * den <= a * den
  BY <1>1, <1>2
<1>4. q <= a
  BY <1>2, <1>3, CancelFactor
<1> QED
  BY <1>2, <1>4 DEF q

LEMMA ShareBelow ==
  ASSUME NEW a \in Nat \ {0}, NEW num \in Nat, NEW den \in Nat \ {0}, num < den
  PROVE  (num * a) \div den \in Nat /\ (num * a) \div den < a
<1> DEFINE q == (num * a) \div den
<1>1. num * a \in Nat /\ num * a < a * den
  OBVIOUS
<1>2. q \in Nat /\ q * den <= num * a
  BY <1>1, DivNat
<1> HIDE DEF q
<1>3. CASE a <= q
  <2>1. a * den <= q * den
    BY <1>2, <1>3
  <2> QED
    BY <1>1, <1>2, <2>1
<1> QED
  BY <1>2, <1>3 DEF q
=============================================================================
