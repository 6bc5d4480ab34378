--------------------------- MODULE FiniteTheorems ---------------------------
(***************************************************************************)
(* Facts about sets of numbers and finite sets that several proofs need:   *)
(* smallest and largest elements, induction over subsets, and what         *)
(* SumFunctionOnSet of the community modules computes.                     *)
(***************************************************************************)
EXTENDS Integers, FiniteSets, Functions, FiniteSetTheorems, WellFoundedInduction, TLAPS

\* A finite set of numbers that is not empty has a largest element.
LEMMA LargestExists ==
    ASSUME NEW S \in SUBSET Nat, IsFiniteSet(S), S # {}
    PROVE  \E m \in S : \A u \in S : u <= m
<1> DEFINE Above(m) == {v \in S : v > m}
           T == {Above(m) : m \in S}
           R == StrictSubsetOrdering(S)
<1>1. IsWellFoundedOn(R, SUBSET S)
  BY FS_StrictSubsetOrderingWellFounded, FS_FiniteSubsetsOfFinite
<1>2. T \subseteq SUBSET S /\ T # {}
  OBVIOUS
<1>3. PICK x \in T : \A y \in T : <<y, x>> \notin R
  <2> HIDE DEF T, R
  <2> QED  BY <1>1, <1>2, WFMin, Zenon
<1>4. PICK m \in S : x = Above(m)
  BY <1>3
<1>5. ASSUME NEW w \in S, w > m  PROVE FALSE
  <2>1. w \in Nat /\ m \in Nat
    OBVIOUS
  <2>2. Above(w) \subseteq Above(m) /\ w \in Above(m) /\ w \notin Above(w)
    <3>1. ASSUME NEW v \in S, v > w  PROVE v > m
      BY <1>5, <2>1, <3>1, v \in Nat
    <3>2. w \notin Above(w)
      BY <2>1
    <3>3. w \in Above(m)
      BY <1>5
    <3>4. Above(w) \subseteq Above(m)
      BY <3>1
    <3> QED  BY <3>2, <3>3, <3>4
  <2>3. Above(w) \in SUBSET S /\ Above(m) \in SUBSET S /\ Above(w) # Above(m)
    BY <2>2
  <2>4. <<Above(w), x>> \in R
    BY <2>2, <2>3, <1>4 DEF StrictSubsetOrdering
  <2> QED  BY <2>4, <1>3
<1>6. \A u \in S : u \in Nat /\ m \in Nat
  OBVIOUS
<1> QED  BY <1>5, <1>6

\* A set of numbers that is not empty has a smallest element.
LEMMA SmallestNumber ==
    ASSUME NEW S \in SUBSET Nat, S # {}
    PROVE  \E m \in S : \A v \in S : m <= v
<1>1. PICK x \in S : TRUE
  OBVIOUS
<1> DEFINE T == {u \in 0..x : \E v \in S : v <= x /\ u = x - v}
<1>2. x \in Nat /\ T \in SUBSET Nat /\ 0 \in T
  BY <1>1
<1>3. IsFiniteSet(T)
  <2>1. IsFiniteSet(0..x)
    BY <1>2, FS_Interval
  <2>2. T \subseteq 0..x
    OBVIOUS
  <2> HIDE DEF T
  <2> QED  BY <2>1, <2>2, FS_Subset
<1>4. PICK u \in T : \A w \in T : w <= u
  <2> HIDE DEF T
  <2> QED  BY <1>2, <1>3, LargestExists
<1>5. PICK m \in S : m <= x /\ u = x - m
  OBVIOUS
<1>6. ASSUME NEW v \in S  PROVE m <= v
  <2>1. v \in Nat /\ m \in Nat
    OBVIOUS
  <2>2. CASE v <= x
    <3>1. x - v \in T
      BY <1>2, <2>1, <2>2
    <3>2. x - v <= u
      BY <1>4, <3>1
    <3> QED  BY <1>2, <1>5, <2>1, <3>2
  <2>3. CASE ~(v <= x)
    BY <1>2, <1>5, <2>1, <2>3
  <2> QED  BY <2>2, <2>3
<1> QED  BY <1>6

-----------------------------------------------------------------------------
(* Sums over finite sets, what SumFunctionOnSet computes.                  *)

\* A set of subsets of a finite set has a smallest element.
LEMMA SmallestSubset ==
    ASSUME NEW S, IsFiniteSet(S), NEW Q, Q \subseteq SUBSET S, Q # {}
    PROVE  \E T \in Q : \A U \in SUBSET T : U # T => U \notin Q
<1> DEFINE R == StrictSubsetOrdering(S)
<1>1. IsWellFoundedOn(R, SUBSET S)
  BY FS_StrictSubsetOrderingWellFounded, FS_FiniteSubsetsOfFinite
<1>2. PICK T \in Q : \A v \in Q : <<v, T>> \notin R
  <2> HIDE DEF R
  <2> QED  BY <1>1, WFMin, Zenon
<1>3. T \in SUBSET S
  OBVIOUS
<1>4. \A U \in SUBSET T : U # T => <<U, T>> \in R
  BY <1>3 DEF StrictSubsetOrdering
<1>5. \A U \in SUBSET T : U # T => U \notin Q
  <2> HIDE DEF R
  <2> QED  BY <1>2, <1>4, Zenon
<1> QED  BY <1>5

\* Induction over the subsets of a finite set, for a set P of subsets.
LEMMA SubsetInduction ==
    ASSUME NEW S, IsFiniteSet(S), NEW P,
           \A T \in SUBSET S : (\A U \in SUBSET T : U # T => U \in P) => T \in P
    PROVE  \A T \in SUBSET S : T \in P
<1> DEFINE Q == (SUBSET S) \ P
<1> SUFFICES ASSUME Q # {}  PROVE FALSE
  OBVIOUS
<1>1. PICK T \in Q : \A U \in SUBSET T : U # T => U \notin Q
  <2>1. Q \subseteq SUBSET S
    OBVIOUS
  <2> HIDE DEF Q
  <2> QED  BY <2>1, SmallestSubset
<1>2. \A U \in SUBSET T : U # T => U \in P
  BY <1>1
<1> QED  BY <1>1, <1>2

\* g[s] is the sum of f over s, for the subsets s of S.
Sums(f, S, g) ==
    g = [s \in SUBSET S |-> IF s = {} THEN 0 ELSE LET x == CHOOSE x \in s : TRUE IN f[x] + g[s \ {x}]]

\* Two such functions agree where both are defined.
LEMMA SumsAgree ==
    ASSUME NEW f, NEW S, NEW T, NEW g, NEW h, Sums(f, S, g), Sums(f, T, h), IsFiniteSet(S), NEW s \in SUBSET (S \cap T)
    PROVE  g[s] = h[s]
<1> DEFINE P == {u \in SUBSET (S \cap T) : g[u] = h[u]}
<1>1. ASSUME NEW u \in SUBSET (S \cap T), \A v \in SUBSET u : v # u => v \in P  PROVE u \in P
  <2>1. /\ g[u] = IF u = {} THEN 0 ELSE LET x == CHOOSE x \in u : TRUE IN f[x] + g[u \ {x}]
        /\ h[u] = IF u = {} THEN 0 ELSE LET x == CHOOSE x \in u : TRUE IN f[x] + h[u \ {x}]
    <3>1. u \in SUBSET S /\ u \in SUBSET T
      OBVIOUS
    <3> QED  BY <3>1 DEF Sums
  <2>2. ASSUME NEW x \in u  PROVE g[u \ {x}] = h[u \ {x}]
    <3>1. u \ {x} \in SUBSET u /\ u \ {x} # u
      OBVIOUS
    <3> QED  BY <1>1, <3>1
  <2> QED  BY <2>1, <2>2
<1>2. IsFiniteSet(S \cap T)
  BY FS_Subset
<1> HIDE DEF P
<1>3. \A u \in SUBSET (S \cap T) : (\A v \in SUBSET u : v # u => v \in P) => u \in P
  BY <1>1
<1>4. \A u \in SUBSET (S \cap T) : u \in P
  <2> DEFINE D == S \cap T
  <2>1. IsFiniteSet(D) /\ \A u \in SUBSET D : (\A v \in SUBSET u : v # u => v \in P) => u \in P
    BY <1>2, <1>3
  <2> HIDE DEF D
  <2>2. \A u \in SUBSET D : u \in P
    BY <2>1, SubsetInduction
  <2> QED  BY <2>2 DEF D
<1> QED  BY <1>4 DEF P

LEMMA SumsExist ==
    ASSUME NEW f, NEW S, IsFiniteSet(S)
    PROVE  \E g : Sums(f, S, g)
<1> DEFINE P == {T \in SUBSET S : \E g : Sums(f, T, g)}
<1>1. ASSUME NEW T \in SUBSET S, \A U \in SUBSET T : U # T => U \in P  PROVE T \in P
  <2> DEFINE G(U) == CHOOSE g : Sums(f, U, g)
             val(s) == IF s = {} THEN 0 ELSE LET x == CHOOSE x \in s : TRUE IN f[x] + G(s \ {x})[s \ {x}]
             g == [s \in SUBSET T |-> val(s)]
  <2>1. \A U \in SUBSET T : U # T => Sums(f, U, G(U))
    BY <1>1
  <2>2. ASSUME NEW s \in SUBSET T, NEW x \in s  PROVE g[s \ {x}] = G(s \ {x})[s \ {x}]
    <3> DEFINE w == s \ {x}
    <3>1. w \in SUBSET T /\ w # T
      OBVIOUS
    <3>2. Sums(f, w, G(w))
      BY <2>1, <3>1
    <3>3. G(w)[w] = IF w = {} THEN 0 ELSE LET y == CHOOSE y \in w : TRUE IN f[y] + G(w)[w \ {y}]
      <4> HIDE DEF G, w
      <4> QED  BY <3>2 DEF Sums
    <3>4. CASE w # {}
      <4> DEFINE y == CHOOSE y \in w : TRUE
      <4>1. w \ {y} \in SUBSET T /\ w \ {y} # T
        BY <3>1, <3>4
      <4>2. Sums(f, w \ {y}, G(w \ {y}))
        BY <2>1, <4>1
      <4>3. IsFiniteSet(w) /\ w \ {y} \in SUBSET (w \cap (w \ {y}))
        BY <3>1, FS_Subset
      <4>4. G(w)[w \ {y}] = G(w \ {y})[w \ {y}]
        <5> HIDE DEF G, w, y
        <5> QED  BY <3>2, <4>2, <4>3, SumsAgree
      <4>5. g[w] = f[y] + G(w \ {y})[w \ {y}]
        <5> HIDE DEF G
        <5> QED  BY <3>1, <3>4
      <4> QED  BY <3>3, <3>4, <4>4, <4>5
    <3>5. CASE w = {}
      BY <3>3, <3>5
    <3> QED  BY <3>4, <3>5
  <2>3. \A s \in SUBSET T : val(s) = IF s = {} THEN 0 ELSE LET x == CHOOSE x \in s : TRUE IN f[x] + g[s \ {x}]
    <3> TAKE s \in SUBSET T
    <3>1. CASE s # {}
      <4> DEFINE x == CHOOSE x \in s : TRUE
      <4>1. x \in s
        BY <3>1
      <4>2. g[s \ {x}] = G(s \ {x})[s \ {x}]
        <5> HIDE DEF G, g, x
        <5> QED  BY <2>2, <4>1
      <4> HIDE DEF G, g
      <4> QED  BY <3>1, <4>2
    <3> QED  BY <3>1
  <2>4. Sums(f, T, g)
    <3> DEFINE rhs(s) == IF s = {} THEN 0 ELSE LET x == CHOOSE x \in s : TRUE IN f[x] + g[s \ {x}]
    <3>1. \A s \in SUBSET T : val(s) = rhs(s)
      BY <2>3
    <3>2. [s \in SUBSET T |-> val(s)] = [s \in SUBSET T |-> rhs(s)]
      <4> HIDE DEF val, rhs
      <4> QED  BY <3>1
    <3>3. g = [s \in SUBSET T |-> rhs(s)]
      BY <3>2
    <3> HIDE DEF g
    <3> QED  BY <3>3 DEF Sums
  <2> QED  BY <2>4
<1> HIDE DEF P
<1>2. \A T \in SUBSET S : T \in P
  BY <1>1, SubsetInduction
<1> QED  BY <1>2 DEF P

\* The sum over a set that is not empty, one element taken out.
LEMMA SumStep ==
    ASSUME NEW f, NEW S, IsFiniteSet(S)
    PROVE  SumFunctionOnSet(f, S) =
               IF S = {} THEN 0 ELSE LET x == CHOOSE x \in S : TRUE IN f[x] + SumFunctionOnSet(f, S \ {x})
<1> DEFINE G(U) == CHOOSE g : Sums(f, U, g)
<1>1. \A U : SumFunctionOnSet(f, U) = G(U)[U]
  BY DEF SumFunctionOnSet, FoldFunctionOnSet, MapThenFoldSet, Sums
<1>2. \A U \in SUBSET S : Sums(f, U, G(U))
  BY SumsExist, FS_Subset
<1>3. ASSUME NEW x \in S  PROVE G(S)[S \ {x}] = G(S \ {x})[S \ {x}]
  <2>1. S \in SUBSET S /\ S \ {x} \in SUBSET S /\ S \ {x} \in SUBSET (S \cap (S \ {x}))
    OBVIOUS
  <2>2. Sums(f, S, G(S)) /\ Sums(f, S \ {x}, G(S \ {x}))
    BY <1>2, <2>1
  <2> HIDE DEF G
  <2> QED  BY <2>1, <2>2, SumsAgree
<1> HIDE DEF G
<1>4. G(S)[S] = IF S = {} THEN 0 ELSE LET x == CHOOSE x \in S : TRUE IN f[x] + G(S)[S \ {x}]
  BY <1>2 DEF Sums
<1> QED  BY <1>1, <1>3, <1>4

\* Any element may be taken out first.
LEMMA SumOf ==
    ASSUME NEW S, IsFiniteSet(S), NEW f, \A x \in S : f[x] \in Int
    PROVE  /\ SumFunctionOnSet(f, S) \in Int
           /\ \A x \in S : SumFunctionOnSet(f, S) = f[x] + SumFunctionOnSet(f, S \ {x})
<1> DEFINE P == {T \in SUBSET S : /\ SumFunctionOnSet(f, T) \in Int
                                  /\ \A x \in T : SumFunctionOnSet(f, T) = f[x] + SumFunctionOnSet(f, T \ {x})}
<1>1. ASSUME NEW T \in SUBSET S, \A U \in SUBSET T : U # T => U \in P  PROVE T \in P
  <2> DEFINE sum(U) == SumFunctionOnSet(f, U)
             c == CHOOSE x \in T : TRUE
  <2>1. sum(T) = IF T = {} THEN 0 ELSE f[c] + sum(T \ {c})
    BY SumStep, FS_Subset
  <2>2. ASSUME NEW x \in T  PROVE sum(T \ {x}) \in Int /\ \A y \in T \ {x} : sum(T \ {x}) = f[y] + sum((T \ {x}) \ {y})
    <3>1. T \ {x} \in SUBSET T /\ T \ {x} # T
      OBVIOUS
    <3> QED  BY <1>1, <3>1
  <2>3. T # {} => c \in T
    OBVIOUS
  <2>4. sum(T) \in Int
    <3>1. T # {} => f[c] \in Int /\ sum(T \ {c}) \in Int
      BY <2>2, <2>3
    <3> HIDE DEF sum, c
    <3> QED  BY <2>1, <3>1
  <2>5. ASSUME NEW x \in T  PROVE sum(T) = f[x] + sum(T \ {x})
    <3>1. sum(T) = f[c] + sum(T \ {c}) /\ c \in T
      BY <2>1
    <3>2. f[c] \in Int /\ f[x] \in Int
      BY <3>1
    <3>3. CASE c # x
      <4>1. sum(T \ {c}) = f[x] + sum((T \ {c}) \ {x})
        BY <2>2, <3>1, <3>3
      <4>2. sum(T \ {x}) = f[c] + sum((T \ {x}) \ {c})
        BY <2>2, <3>1, <3>3
      <4>3. (T \ {c}) \ {x} = (T \ {x}) \ {c} /\ (T \ {c}) \ {x} \in SUBSET T /\ (T \ {c}) \ {x} # T
        BY <3>1
      <4>4. sum((T \ {c}) \ {x}) \in Int
        BY <1>1, <4>3
      <4>5. sum((T \ {x}) \ {c}) = sum((T \ {c}) \ {x})
        BY <4>3
      <4> HIDE DEF sum, c
      <4> QED  BY <3>1, <3>2, <4>1, <4>2, <4>4, <4>5
    <3> QED  BY <3>1, <3>3
  <2> QED  BY <2>4, <2>5
<1> HIDE DEF P
<1>2. \A T \in SUBSET S : T \in P
  BY <1>1, SubsetInduction
<1> QED  BY <1>2 DEF P

\* Sums grow with their terms.
LEMMA SumGrows ==
    ASSUME NEW S, IsFiniteSet(S), NEW f, NEW g, \A x \in S : f[x] \in Int /\ g[x] \in Int /\ f[x] <= g[x]
    PROVE  SumFunctionOnSet(f, S) <= SumFunctionOnSet(g, S)
<1> DEFINE P == {T \in SUBSET S : SumFunctionOnSet(f, T) <= SumFunctionOnSet(g, T)}
<1>1. ASSUME NEW T \in SUBSET S, \A U \in SUBSET T : U # T => U \in P  PROVE T \in P
  <2>0. IsFiniteSet(T)
    BY FS_Subset
  <2>1. CASE T = {}
    <3>1. SumFunctionOnSet(f, T) = 0 /\ SumFunctionOnSet(g, T) = 0
      BY <2>0, <2>1, SumStep
    <3> QED  BY <3>1
  <2>2. CASE T # {}
    <3>1. PICK x \in T : TRUE
      BY <2>2
    <3>2. T \ {x} \in SUBSET T /\ T \ {x} # T /\ IsFiniteSet(T \ {x})
      BY <2>0, FS_Subset
    <3>3. SumFunctionOnSet(f, T \ {x}) <= SumFunctionOnSet(g, T \ {x})
      BY <1>1, <3>2
    <3>4. /\ SumFunctionOnSet(f, T) = f[x] + SumFunctionOnSet(f, T \ {x})
          /\ SumFunctionOnSet(g, T) = g[x] + SumFunctionOnSet(g, T \ {x})
      BY <2>0, SumOf
    <3>5. SumFunctionOnSet(f, T \ {x}) \in Int /\ SumFunctionOnSet(g, T \ {x}) \in Int
      BY <3>2, SumOf
    <3> QED  BY <3>3, <3>4, <3>5
  <2> QED  BY <2>1, <2>2
<1> HIDE DEF P
<1>2. \A T \in SUBSET S : T \in P
  BY <1>1, SubsetInduction
<1> QED  BY <1>2 DEF P

\* Equal terms give equal sums.
LEMMA SumSame ==
    ASSUME NEW S, IsFiniteSet(S), NEW f, NEW g, \A x \in S : f[x] \in Int /\ f[x] = g[x]
    PROVE  SumFunctionOnSet(f, S) = SumFunctionOnSet(g, S)
<1>1. SumFunctionOnSet(f, S) <= SumFunctionOnSet(g, S) /\ SumFunctionOnSet(g, S) <= SumFunctionOnSet(f, S)
  BY SumGrows
<1>2. SumFunctionOnSet(f, S) \in Int /\ SumFunctionOnSet(g, S) \in Int
  BY SumOf
<1> QED  BY <1>1, <1>2

\* A sum of nothing, and of numbers that are not negative.
LEMMA SumZero ==
    ASSUME NEW S, IsFiniteSet(S), NEW f, \A x \in S : f[x] = 0
    PROVE  SumFunctionOnSet(f, S) = 0
<1> DEFINE P == {T \in SUBSET S : SumFunctionOnSet(f, T) = 0}
<1>1. ASSUME NEW T \in SUBSET S, \A U \in SUBSET T : U # T => U \in P  PROVE T \in P
  <2>1. IsFiniteSet(T)
    BY FS_Subset
  <2>2. ASSUME NEW x \in T  PROVE SumFunctionOnSet(f, T \ {x}) = 0
    <3>1. T \ {x} \in SUBSET T /\ T \ {x} # T
      OBVIOUS
    <3> QED  BY <1>1, <3>1
  <2> DEFINE c == CHOOSE x \in T : TRUE
  <2>3. SumFunctionOnSet(f, T) = IF T = {} THEN 0 ELSE f[c] + SumFunctionOnSet(f, T \ {c})
    BY <2>1, SumStep
  <2>4. T # {} => c \in T /\ f[c] = 0
    OBVIOUS
  <2>5. T # {} => SumFunctionOnSet(f, T \ {c}) = 0
    <3> HIDE DEF c
    <3> QED  BY <2>2, <2>4
  <2>6. SumFunctionOnSet(f, T) = 0
    <3> HIDE DEF c
    <3> QED  BY <2>3, <2>4, <2>5
  <2> QED  BY <2>6
<1> HIDE DEF P
<1>2. \A T \in SUBSET S : T \in P
  BY <1>1, SubsetInduction
<1> QED  BY <1>2 DEF P

LEMMA SumNat ==
    ASSUME NEW S, IsFiniteSet(S), NEW f, \A x \in S : f[x] \in Nat
    PROVE  SumFunctionOnSet(f, S) \in Nat
<1> DEFINE z == [x \in S |-> 0]
<1>1. SumFunctionOnSet(z, S) = 0
  BY SumZero
<1>2. SumFunctionOnSet(z, S) <= SumFunctionOnSet(f, S)
  <2>1. \A x \in S : z[x] \in Int /\ f[x] \in Int /\ z[x] <= f[x]
    OBVIOUS
  <2> HIDE DEF z
  <2> QED  BY <2>1, SumGrows
<1>3. SumFunctionOnSet(f, S) \in Int
  BY SumOf
<1> HIDE DEF z
<1> QED  BY <1>1, <1>2, <1>3

\* Another value at one place.
LEMMA SumChanges ==
    ASSUME NEW S, IsFiniteSet(S), NEW f, NEW g, NEW p \in S,
           \A x \in S : f[x] \in Int /\ g[x] \in Int /\ (x # p => g[x] = f[x])
    PROVE  SumFunctionOnSet(g, S) = SumFunctionOnSet(f, S) - f[p] + g[p]
<1>1. IsFiniteSet(S \ {p})
  BY FS_Subset
<1>2. SumFunctionOnSet(f, S \ {p}) = SumFunctionOnSet(g, S \ {p}) /\ SumFunctionOnSet(f, S \ {p}) \in Int
  BY <1>1, SumSame, SumOf
<1>3. SumFunctionOnSet(f, S) = f[p] + SumFunctionOnSet(f, S \ {p})
  BY SumOf
<1>4. SumFunctionOnSet(g, S) = g[p] + SumFunctionOnSet(g, S \ {p})
  BY SumOf
<1>5. f[p] \in Int /\ g[p] \in Int
  OBVIOUS
<1> QED  BY <1>2, <1>3, <1>4, <1>5

\* A function on one argument less.
LEMMA SumDrops ==
    ASSUME NEW S, IsFiniteSet(S), NEW f, \A x \in S : f[x] \in Int, NEW r \in S
    PROVE  SumFunction([x \in S \ {r} |-> f[x]]) = SumFunctionOnSet(f, S) - f[r]
<1> DEFINE g == [x \in S \ {r} |-> f[x]]
<1>1. IsFiniteSet(S \ {r})
  BY FS_Subset
<1>2. SumFunction(g) = SumFunctionOnSet(g, S \ {r})
  BY DEF SumFunction
<1>3. \A x \in S \ {r} : f[x] \in Int /\ f[x] = g[x]
  OBVIOUS
<1> HIDE DEF g
<1>4. SumFunctionOnSet(f, S \ {r}) = SumFunctionOnSet(g, S \ {r})
  BY <1>1, <1>3, SumSame
<1>5. SumFunctionOnSet(f, S) = f[r] + SumFunctionOnSet(f, S \ {r})
  BY SumOf
<1>6. SumFunctionOnSet(f, S \ {r}) \in Int /\ f[r] \in Int
  BY <1>1, SumOf
<1> QED  BY <1>2, <1>4, <1>5, <1>6 DEF g
=============================================================================
