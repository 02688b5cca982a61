-------------------------------- MODULE Sums --------------------------------
(***************************************************************************)
(* Sums over finite sets (SumFunctionOnSet of the community modules): what *)
(* the proofs about payouts, slots, amounts and budgets need of them.      *)
(*                                                                         *)
(* The community modules define a sum as a fold, by a recursive function   *)
(* over the subsets. No proof by induction over sets is open to the        *)
(* provers here, so each lemma looks at a smallest subset for which it     *)
(* would fail: subsets of a finite set are well-founded.                   *)
(***************************************************************************)
EXTENDS FiniteSetsExt, FiniteSetTheorems, WellFoundedInduction, TLAPS

\* The element a fold takes out first.
Pick(s) == CHOOSE x \in s : TRUE

\* g adds up f over every subset of S.
Adds(g, f, S) ==
  g = [s \in SUBSET S |-> IF s = {} THEN 0 ELSE f[Pick(s)] + g[s \ {Pick(s)}]]

\* The fold of the community modules, by its recursion.
LEMMA SumIsFold ==
  ASSUME NEW f, NEW S
  PROVE SumFunctionOnSet(f, S) = (CHOOSE g : Adds(g, f, S))[S]
  BY DEF SumFunctionOnSet, FoldFunctionOnSet, MapThenFoldSet, Adds, Pick

\* There is an element to take out.
LEMMA PickIn == ASSUME NEW s, s # {} PROVE Pick(s) \in s
  BY DEF Pick

\* Among some subsets of a finite set one has no other below it.
LEMMA Smallest ==
  ASSUME NEW S, IsFiniteSet(S), NEW D, D \subseteq SUBSET S, D # {}
  PROVE \E x \in D : \A y \in D : ~ (y \subseteq x /\ y # x)
<1>1. IsWellFoundedOn(StrictSubsetOrdering(S), SUBSET S)
  BY FS_StrictSubsetOrderingWellFounded, FS_FiniteSubsetsOfFinite
<1>2. PICK x \in D : \A y \in D : ~ (<<y, x>> \in StrictSubsetOrdering(S))
  BY <1>1, WFMin
<1> QED
  BY <1>2 DEF StrictSubsetOrdering

\* Among some naturals one is the least.
LEMMA SmallestNat ==
  ASSUME NEW D, D \subseteq Nat, D # {}
  PROVE \E x \in D : \A y \in D : x <= y
<1>1. PICK d \in D : TRUE
  OBVIOUS
<1> DEFINE E == {0 .. x : x \in {y \in D : y <= d}}
<1> DEFINE I == 0 .. d
<1>2. IsFiniteSet(I)
  BY <1>1, FS_Interval
<1>3. E \subseteq SUBSET I /\ E # {}
  BY <1>1
<1>4. PICK e \in E : \A y \in E : ~ (y \subseteq e /\ y # e)
  <2> HIDE DEF E, I
  <2> QED
    BY <1>2, <1>3, Smallest
<1>5. PICK x \in D : x <= d /\ e = 0 .. x
  BY <1>4
<1>6. ASSUME NEW y \in D, ~(x <= y) PROVE FALSE
  <2>1. (0 .. y) \in E
    BY <1>1, <1>5, <1>6
  <2>2. (0 .. y) \subseteq (0 .. x) /\ x \notin 0 .. y /\ x \in 0 .. x
    BY <1>5, <1>6
  <2> QED
    BY <1>4, <1>5, <2>1, <2>2
<1> QED
  BY <1>6
-----------------------------------------------------------------------------
(* Sums.                                                                    *)

\* There is one way to add up.
LEMMA AddsUnique ==
  ASSUME NEW f, NEW S, IsFiniteSet(S), NEW T, T \subseteq S,
         NEW g, Adds(g, f, S), NEW h, Adds(h, f, T)
  PROVE  \A s \in SUBSET T : g[s] = h[s]
<1> DEFINE D == {s \in SUBSET T : g[s] # h[s]}
<1> SUFFICES ASSUME D # {} PROVE FALSE
  OBVIOUS
<1>1. D \subseteq SUBSET S
  OBVIOUS
<1>2. PICK s \in D : \A t \in D : ~ (t \subseteq s /\ t # s)
  <2> HIDE DEF D
  <2> QED
    BY <1>1, Smallest
<1>3. g[s] = IF s = {} THEN 0 ELSE f[Pick(s)] + g[s \ {Pick(s)}]
  BY <1>2 DEF Adds
<1>4. h[s] = IF s = {} THEN 0 ELSE f[Pick(s)] + h[s \ {Pick(s)}]
  BY <1>2 DEF Adds
<1>5. CASE s = {}
  BY <1>2, <1>3, <1>4, <1>5
<1>6. CASE s # {}
  <2>1. Pick(s) \in s
    BY <1>6, PickIn
  <2>2. s \ {Pick(s)} \in SUBSET T /\ s \ {Pick(s)} # s
    BY <2>1
  <2>3. g[s \ {Pick(s)}] = h[s \ {Pick(s)}]
    BY <1>2, <2>2
  <2> QED
    BY <1>2, <1>3, <1>4, <2>3
<1> QED
  BY <1>5, <1>6

\* And there is one.
LEMMA AddsExists ==
  ASSUME NEW f, NEW S, IsFiniteSet(S)
  PROVE  \E g : Adds(g, f, S)
<1> DEFINE D == {T \in SUBSET S : ~ \E g : Adds(g, f, T)}
<1> SUFFICES ASSUME D # {} PROVE FALSE
  OBVIOUS
<1>0. D \subseteq SUBSET S
  OBVIOUS
<1>1. PICK T \in D : \A U \in D : ~ (U \subseteq T /\ U # T)
  <2> HIDE DEF D
  <2> QED
    BY <1>0, Smallest
<1>2. IsFiniteSet(T)
  BY <1>1, FS_Subset
<1> DEFINE H(U) == CHOOSE g : Adds(g, f, U)
<1>3. \A U \in SUBSET T : U # T => Adds(H(U), f, U)
  <2> SUFFICES ASSUME NEW U \in SUBSET T, U # T PROVE Adds(H(U), f, U)
    OBVIOUS
  <2>1. \E g : Adds(g, f, U)
    BY <1>1
  <2> QED
    BY <2>1
<1> HIDE DEF H
<1> DEFINE G == [s \in SUBSET T |-> IF s # T THEN H(s)[s]
                   ELSE IF T = {} THEN 0 ELSE f[Pick(T)] + H(T \ {Pick(T)})[T \ {Pick(T)}]]
<1>4. ASSUME NEW s \in SUBSET T
      PROVE  G[s] = IF s = {} THEN 0 ELSE f[Pick(s)] + G[s \ {Pick(s)}]
  <2>1. CASE s = T /\ T = {}
    BY <2>1
  <2>2. CASE s = T /\ T # {}
    <3>1. Pick(T) \in T
      BY <2>2, PickIn
    <3> QED
      BY <2>2, <3>1
  <2>3. CASE s # T
    <3>1. Adds(H(s), f, s)
      BY <1>3, <2>3
    <3>2. H(s)[s] = IF s = {} THEN 0 ELSE f[Pick(s)] + H(s)[s \ {Pick(s)}]
      BY <3>1 DEF Adds
    <3>3. G[s] = H(s)[s]
      BY <2>3
    <3>4. CASE s = {}
      BY <3>2, <3>3, <3>4
    <3>5. CASE s # {}
      <4> DEFINE r == s \ {Pick(s)}
      <4>1. Pick(s) \in s
        BY <3>5, PickIn
      <4>2. r \in SUBSET T /\ r \subseteq s /\ r # T
        BY <4>1
      <4>3. Adds(H(r), f, r)
        BY <1>3, <4>2
      <4>4. IsFiniteSet(s)
        BY <1>2, FS_Subset
      <4>5. H(s)[r] = H(r)[r]
        BY <3>1, <4>2, <4>3, <4>4, AddsUnique
      <4>6. G[r] = H(r)[r]
        BY <4>2
      <4> QED
        BY <3>2, <3>3, <3>5, <4>5, <4>6
    <3> QED
      BY <3>4, <3>5
  <2> QED
    BY <2>1, <2>2, <2>3
<1>5. Adds(G, f, T)
  <2> HIDE DEF G
  <2>1. DOMAIN G = SUBSET T /\ G = [s \in SUBSET T |-> G[s]]
    BY DEF G
  <2> QED
    BY <1>4, <2>1 DEF Adds
<1> QED
  BY <1>1, <1>5
-----------------------------------------------------------------------------
(* What a sum is.                                                          *)

\* A sum is what the one way to add up says.
LEMMA SumAdds ==
  ASSUME NEW f, NEW S, IsFiniteSet(S), NEW g, Adds(g, f, S), NEW T, T \subseteq S
  PROVE  SumFunctionOnSet(f, T) = g[T]
<1>1. IsFiniteSet(T)
  BY FS_Subset
<1>2. \E h : Adds(h, f, T)
  BY <1>1, AddsExists
<1>3. Adds(CHOOSE h : Adds(h, f, T), f, T)
  BY <1>2
<1>4. g[T] = (CHOOSE h : Adds(h, f, T))[T]
  BY <1>3, AddsUnique
<1> QED
  BY <1>4, SumIsFold

\* Nothing adds up to zero.
LEMMA SumEmpty == ASSUME NEW f PROVE SumFunctionOnSet(f, {}) = 0
<1>1. IsFiniteSet({})
  BY FS_EmptySet
<1>2. PICK g : Adds(g, f, {})
  BY <1>1, AddsExists
<1>3. g[{}] = 0
  BY <1>2 DEF Adds
<1> QED
  BY <1>1, <1>2, <1>3, SumAdds

\* A sum of numbers is a number, and an element may be taken out first.
LEMMA SumNumbers ==
  ASSUME NEW f, NEW S, IsFiniteSet(S), \A x \in S : f[x] \in Int
  PROVE  SumFunctionOnSet(f, S) \in Int
<1>1. PICK g : Adds(g, f, S)
  BY AddsExists
<1> DEFINE D == {s \in SUBSET S : g[s] \notin Int}
<1>2. D = {}
  <2> SUFFICES ASSUME D # {} PROVE FALSE
    OBVIOUS
  <2>1. D \subseteq SUBSET S
    OBVIOUS
  <2>2. PICK s \in D : \A t \in D : ~ (t \subseteq s /\ t # s)
    <3> HIDE DEF D
    <3> QED
      BY <2>1, Smallest
  <2>3. g[s] = IF s = {} THEN 0 ELSE f[Pick(s)] + g[s \ {Pick(s)}]
    BY <1>1, <2>2 DEF Adds
  <2>4. CASE s = {}
    BY <2>2, <2>3, <2>4
  <2>5. CASE s # {}
    <3>1. Pick(s) \in s
      BY <2>5, PickIn
    <3>2. g[s \ {Pick(s)}] \in Int
      BY <2>2, <3>1
    <3> QED
      BY <2>2, <2>3, <2>5, <3>1, <3>2
  <2> QED
    BY <2>4, <2>5
<1>3. g[S] \in Int
  BY <1>2
<1>4. SumFunctionOnSet(f, S) = g[S]
  BY <1>1, SumAdds
<1> QED
  BY <1>3, <1>4

\* Whichever element is taken out first, the sum is the same.
LEMMA SumWithout ==
  ASSUME NEW f, NEW S, IsFiniteSet(S), \A x \in S : f[x] \in Int, NEW x \in S
  PROVE  SumFunctionOnSet(f, S) = f[x] + SumFunctionOnSet(f, S \ {x})
<1> DEFINE D == {s \in SUBSET S : \E y \in s :
                   SumFunctionOnSet(f, s) # f[y] + SumFunctionOnSet(f, s \ {y})}
<1>1. PICK g : Adds(g, f, S)
  BY AddsExists
<1>2. \A s \in SUBSET S : SumFunctionOnSet(f, s) = g[s]
  BY <1>1, SumAdds
<1>3. \A s \in SUBSET S : SumFunctionOnSet(f, s) \in Int
  BY SumNumbers, FS_Subset
<1>4. \A s \in SUBSET S : s # {} => /\ Pick(s) \in s
                                    /\ g[s] = f[Pick(s)] + g[s \ {Pick(s)}]
  BY <1>1, PickIn DEF Adds
<1>5. \A s \in SUBSET S : g[s] \in Int
  BY <1>2, <1>3
<1>6. D = {}
  <2> SUFFICES ASSUME D # {} PROVE FALSE
    OBVIOUS
  <2>1. D \subseteq SUBSET S
    OBVIOUS
  <2>2. PICK s \in D : \A t \in D : ~ (t \subseteq s /\ t # s)
    <3> HIDE DEF D
    <3> QED
      BY <2>1, Smallest
  <2>3. PICK y \in s : g[s] # f[y] + g[s \ {y}]
    BY <1>2, <2>2
  <2> DEFINE c == Pick(s)
  <2>4. c \in s /\ g[s] = f[c] + g[s \ {c}]
    BY <1>4, <2>2, <2>3
  <2>5. c # y
    BY <2>3, <2>4
  <2> HIDE DEF c
  <2> DEFINE r == s \ {c, y}
  <2>6. s \ {c} \notin D /\ s \ {y} \notin D
    BY <2>2, <2>3, <2>4
  <2>7. /\ s \ {c} \in SUBSET S /\ s \ {y} \in SUBSET S /\ r \in SUBSET S
        /\ y \in s \ {c} /\ c \in s \ {y}
        /\ (s \ {c}) \ {y} = r /\ (s \ {y}) \ {c} = r
    BY <2>2, <2>3, <2>4, <2>5
  <2>a. ASSUME NEW u \in SUBSET S, u \notin D, NEW z \in u
        PROVE  SumFunctionOnSet(f, u) = f[z] + SumFunctionOnSet(f, u \ {z})
    BY <2>a
  <2>8. g[s \ {c}] = f[y] + g[r]
    <3>1. SumFunctionOnSet(f, s \ {c}) = f[y] + SumFunctionOnSet(f, (s \ {c}) \ {y})
      BY <2>6, <2>7, <2>a
    <3> QED
      BY <1>2, <2>7, <3>1
  <2>9. g[s \ {y}] = f[c] + g[r]
    <3>1. SumFunctionOnSet(f, s \ {y}) = f[c] + SumFunctionOnSet(f, (s \ {y}) \ {c})
      BY <2>6, <2>7, <2>a
    <3> QED
      BY <1>2, <2>7, <3>1
  <2>10. f[c] \in Int /\ f[y] \in Int /\ g[r] \in Int
    BY <1>5, <2>2, <2>3, <2>4, <2>7
  <2> HIDE DEF r
  <2> QED
    BY <2>3, <2>4, <2>8, <2>9, <2>10
<1> QED
  BY <1>6

\* The greater the summands, the greater the sum.
LEMMA SumLeq ==
  ASSUME NEW f, NEW g, NEW S, IsFiniteSet(S),
         \A x \in S : f[x] \in Int /\ g[x] \in Int /\ f[x] <= g[x]
  PROVE  SumFunctionOnSet(f, S) <= SumFunctionOnSet(g, S)
<1> DEFINE D == {s \in SUBSET S : ~ (SumFunctionOnSet(f, s) <= SumFunctionOnSet(g, s))}
<1>1. \A s \in SUBSET S : IsFiniteSet(s)
  BY FS_Subset
<1>2. \A s \in SUBSET S : SumFunctionOnSet(f, s) \in Int /\ SumFunctionOnSet(g, s) \in Int
  BY <1>1, SumNumbers
<1>3. D = {}
  <2> SUFFICES ASSUME D # {} PROVE FALSE
    OBVIOUS
  <2>1. D \subseteq SUBSET S
    OBVIOUS
  <2>2. PICK s \in D : \A t \in D : ~ (t \subseteq s /\ t # s)
    <3> HIDE DEF D
    <3> QED
      BY <2>1, Smallest
  <2>3. CASE s = {}
    <3>1. SumFunctionOnSet(f, s) = 0 /\ SumFunctionOnSet(g, s) = 0
      BY <2>3, SumEmpty
    <3>2. ~ (0 <= 0)
      BY <2>2, <3>1
    <3> QED
      BY <3>2
  <2>4. CASE s # {}
    <3>1. PICK x \in s : TRUE
      BY <2>4
    <3> DEFINE r == s \ {x}
    <3>2. r \in SUBSET S /\ r \notin D /\ r # s /\ r \subseteq s
      BY <2>2, <3>1
    <3>3. SumFunctionOnSet(f, r) <= SumFunctionOnSet(g, r)
      BY <3>2
    <3>4. s \in SUBSET S /\ x \in S /\ IsFiniteSet(s)
      BY <1>1, <2>2, <3>1
    <3>5. SumFunctionOnSet(f, s) = f[x] + SumFunctionOnSet(f, r)
      BY <3>1, <3>4, SumWithout
    <3>6. SumFunctionOnSet(g, s) = g[x] + SumFunctionOnSet(g, r)
      BY <3>1, <3>4, SumWithout
    <3>7. /\ f[x] \in Int /\ g[x] \in Int /\ f[x] <= g[x]
          /\ SumFunctionOnSet(f, r) \in Int /\ SumFunctionOnSet(g, r) \in Int
      BY <1>2, <3>2, <3>4
    <3>8. ~ (SumFunctionOnSet(f, s) <= SumFunctionOnSet(g, s))
      BY <2>2
    <3> HIDE DEF r
    <3> QED
      BY <3>3, <3>5, <3>6, <3>7, <3>8
  <2> QED
    BY <2>3, <2>4
<1>4. S \notin D
  BY <1>3
<1> QED
  BY <1>4

\* A sum depends on nothing but its summands.
LEMMA SumSame ==
  ASSUME NEW f, NEW g, NEW S, IsFiniteSet(S), \A x \in S : f[x] \in Int /\ f[x] = g[x]
  PROVE  SumFunctionOnSet(f, S) = SumFunctionOnSet(g, S)
<1>1. \A x \in S : f[x] \in Int /\ g[x] \in Int /\ f[x] <= g[x] /\ g[x] <= f[x]
  OBVIOUS
<1>2. SumFunctionOnSet(f, S) \in Int /\ SumFunctionOnSet(g, S) \in Int
  BY <1>1, SumNumbers
<1>3. SumFunctionOnSet(f, S) <= SumFunctionOnSet(g, S)
  BY <1>1, SumLeq
<1>4. SumFunctionOnSet(g, S) <= SumFunctionOnSet(f, S)
  BY <1>1, SumLeq
<1> QED
  BY <1>2, <1>3, <1>4

\* One summand changes, and the sum by as much.
LEMMA SumChange ==
  ASSUME NEW f, NEW g, NEW S, IsFiniteSet(S), NEW x \in S,
         \A y \in S : f[y] \in Int /\ g[y] \in Int,
         \A y \in S : y # x => g[y] = f[y]
  PROVE  SumFunctionOnSet(g, S) = SumFunctionOnSet(f, S) - f[x] + g[x]
<1> DEFINE r == S \ {x}
<1>1. IsFiniteSet(r)
  BY FS_Subset
<1>2. SumFunctionOnSet(f, r) = SumFunctionOnSet(g, r)
  BY <1>1, SumSame
<1>3. SumFunctionOnSet(f, S) = f[x] + SumFunctionOnSet(f, r)
  BY SumWithout
<1>4. SumFunctionOnSet(g, S) = g[x] + SumFunctionOnSet(g, r)
  BY SumWithout
<1>5. SumFunctionOnSet(f, r) \in Int /\ f[x] \in Int /\ g[x] \in Int
  BY <1>1, SumNumbers
<1> HIDE DEF r
<1> QED
  BY <1>2, <1>3, <1>4, <1>5

\* Zeros add up to zero.
LEMMA SumZero ==
  ASSUME NEW f, NEW S, IsFiniteSet(S), \A x \in S : f[x] = 0
  PROVE  SumFunctionOnSet(f, S) = 0
<1> DEFINE D == {s \in SUBSET S : SumFunctionOnSet(f, s) # 0}
<1>1. D = {}
  <2> SUFFICES ASSUME D # {} PROVE FALSE
    OBVIOUS
  <2>1. D \subseteq SUBSET S
    OBVIOUS
  <2>2. PICK s \in D : \A t \in D : ~ (t \subseteq s /\ t # s)
    <3> HIDE DEF D
    <3> QED
      BY <2>1, Smallest
  <2>3. s # {}
    BY <2>2, SumEmpty
  <2>4. PICK x \in s : TRUE
    BY <2>3
  <2>5. SumFunctionOnSet(f, s \ {x}) = 0
    BY <2>2, <2>4
  <2>6. IsFiniteSet(s) /\ \A y \in s : f[y] \in Int
    BY <2>2, FS_Subset
  <2>7. SumFunctionOnSet(f, s) = f[x] + SumFunctionOnSet(f, s \ {x})
    BY <2>4, <2>6, SumWithout
  <2>8. f[x] = 0
    BY <2>2, <2>4
  <2> QED
    BY <2>2, <2>5, <2>7, <2>8
<1>2. S \notin D
  BY <1>1
<1> QED
  BY <1>2

\* Summands that are not negative: a sum of fewer is no greater.
LEMMA SumFewer ==
  ASSUME NEW f, NEW S, IsFiniteSet(S), \A x \in S : f[x] \in Nat, NEW T, T \subseteq S
  PROVE  /\ SumFunctionOnSet(f, T) \in Nat
         /\ SumFunctionOnSet(f, T) <= SumFunctionOnSet(f, S)
<1>0. \A x \in S : f[x] \in Int
  OBVIOUS
<1>1. \A s \in SUBSET S : IsFiniteSet(s)
  BY FS_Subset
<1>2. \A s \in SUBSET S : SumFunctionOnSet(f, s) \in Int
  BY <1>0, <1>1, SumNumbers
<1> DEFINE D == {s \in SUBSET S : ~ (0 <= SumFunctionOnSet(f, s))}
<1>3. D = {}
  <2> SUFFICES ASSUME D # {} PROVE FALSE
    OBVIOUS
  <2>1. D \subseteq SUBSET S
    OBVIOUS
  <2>2. PICK s \in D : \A t \in D : ~ (t \subseteq s /\ t # s)
    <3> HIDE DEF D
    <3> QED
      BY <2>1, Smallest
  <2>3. CASE s = {}
    <3>1. ~ (0 <= 0)
      BY <2>2, <2>3, SumEmpty
    <3> QED
      BY <3>1
  <2>4. CASE s # {}
    <3>1. PICK x \in s : TRUE
      BY <2>4
    <3> DEFINE r == s \ {x}
    <3>2. r \in SUBSET S /\ 0 <= SumFunctionOnSet(f, r)
      BY <2>2, <3>1
    <3>3. s \in SUBSET S /\ x \in S /\ IsFiniteSet(s)
      BY <1>1, <2>2, <3>1
    <3>4. SumFunctionOnSet(f, s) = f[x] + SumFunctionOnSet(f, r)
      BY <1>0, <3>1, <3>3, SumWithout
    <3>5. SumFunctionOnSet(f, r) \in Int /\ f[x] \in Nat /\ ~ (0 <= SumFunctionOnSet(f, s))
      BY <1>2, <2>2, <3>2, <3>3
    <3> HIDE DEF r
    <3> QED
      BY <3>2, <3>4, <3>5
  <2> QED
    BY <2>3, <2>4
<1>4. \A s \in SUBSET S : SumFunctionOnSet(f, s) \in Nat
  BY <1>2, <1>3
<1> DEFINE E == {s \in SUBSET S : T \subseteq s
                   /\ ~ (SumFunctionOnSet(f, T) <= SumFunctionOnSet(f, s))}
<1>5. E = {}
  <2> SUFFICES ASSUME E # {} PROVE FALSE
    OBVIOUS
  <2>1. E \subseteq SUBSET S
    OBVIOUS
  <2>2. PICK s \in E : \A t \in E : ~ (t \subseteq s /\ t # s)
    <3> HIDE DEF E
    <3> QED
      BY <2>1, Smallest
  <2>3. s # T
    <3>1. SumFunctionOnSet(f, T) \in Int
      BY <1>2
    <3> QED
      BY <2>2, <3>1
  <2>4. PICK x \in s : x \notin T
    BY <2>2, <2>3
  <2> DEFINE r == s \ {x}
  <2>5. r \in SUBSET S /\ T \subseteq r /\ r \notin E
    BY <2>2, <2>4
  <2>6. SumFunctionOnSet(f, T) <= SumFunctionOnSet(f, r)
    BY <2>5
  <2>7. s \in SUBSET S /\ x \in S /\ IsFiniteSet(s)
    BY <1>1, <2>2, <2>4
  <2>8. SumFunctionOnSet(f, s) = f[x] + SumFunctionOnSet(f, r)
    BY <1>0, <2>4, <2>7, SumWithout
  <2>9. /\ SumFunctionOnSet(f, r) \in Int /\ SumFunctionOnSet(f, T) \in Int /\ f[x] \in Nat
        /\ ~ (SumFunctionOnSet(f, T) <= SumFunctionOnSet(f, s))
    BY <1>2, <2>2, <2>5, <2>7
  <2> HIDE DEF r
  <2> QED
    BY <2>6, <2>8, <2>9
<1>6. T \in SUBSET S /\ S \in SUBSET S /\ S \notin E
  BY <1>5
<1> QED
  BY <1>4, <1>6

\* Summands that are zero may be left out.
LEMMA SumSupport ==
  ASSUME NEW f, NEW S, IsFiniteSet(S), \A x \in S : f[x] \in Int,
         NEW T, T \subseteq S, \A x \in S \ T : f[x] = 0
  PROVE  SumFunctionOnSet(f, S) = SumFunctionOnSet(f, T)
<1> DEFINE D == {s \in SUBSET S : T \subseteq s
                   /\ SumFunctionOnSet(f, s) # SumFunctionOnSet(f, T)}
<1>1. \A s \in SUBSET S : IsFiniteSet(s)
  BY FS_Subset
<1>2. D = {}
  <2> SUFFICES ASSUME D # {} PROVE FALSE
    OBVIOUS
  <2>1. D \subseteq SUBSET S
    OBVIOUS
  <2>2. PICK s \in D : \A t \in D : ~ (t \subseteq s /\ t # s)
    <3> HIDE DEF D
    <3> QED
      BY <2>1, Smallest
  <2>10. s # T /\ T \subseteq s
    BY <2>2
  <2>3. PICK x \in s : x \notin T
    BY <2>10
  <2> DEFINE r == s \ {x}
  <2>4. r \in SUBSET S /\ T \subseteq r /\ r \notin D
    BY <2>2, <2>3
  <2>5. s \in SUBSET S /\ x \in S /\ x \notin T /\ IsFiniteSet(s)
    BY <1>1, <2>2, <2>3
  <2>6. SumFunctionOnSet(f, s) = f[x] + SumFunctionOnSet(f, r)
    BY <2>3, <2>5, SumWithout
  <2>7. f[x] = 0 /\ SumFunctionOnSet(f, r) = SumFunctionOnSet(f, T)
    BY <2>4, <2>5
  <2>8. SumFunctionOnSet(f, r) \in Int
    BY <1>1, <2>4, SumNumbers
  <2>9. SumFunctionOnSet(f, s) # SumFunctionOnSet(f, T)
    BY <2>2
  <2> HIDE DEF r
  <2> QED
    BY <2>6, <2>7, <2>8, <2>9
<1>3. T \in SUBSET S /\ S \in SUBSET S /\ S \notin D
  BY <1>2
<1> QED
  BY <1>3

\* Arithmetic that the solvers only take in this form.
LEMMA Distributes ==
  ASSUME NEW c \in Int, NEW m \in Int, NEW n \in Int
  PROVE  c * (m + n) = c * m + c * n
  OBVIOUS

\* A common factor.
LEMMA SumTimes ==
  ASSUME NEW f, NEW g, NEW S, IsFiniteSet(S), NEW c \in Int,
         \A x \in S : f[x] \in Int /\ g[x] = c * f[x]
  PROVE  SumFunctionOnSet(g, S) = c * SumFunctionOnSet(f, S)
<1> DEFINE D == {s \in SUBSET S : SumFunctionOnSet(g, s) # c * SumFunctionOnSet(f, s)}
<1>1. \A s \in SUBSET S : IsFiniteSet(s)
  BY FS_Subset
<1>2. \A x \in S : f[x] \in Int /\ g[x] \in Int
  OBVIOUS
<1>3. \A s \in SUBSET S : SumFunctionOnSet(f, s) \in Int
  BY <1>1, <1>2, SumNumbers
<1>4. D = {}
  <2> SUFFICES ASSUME D # {} PROVE FALSE
    OBVIOUS
  <2>1. D \subseteq SUBSET S
    OBVIOUS
  <2>2. PICK s \in D : \A t \in D : ~ (t \subseteq s /\ t # s)
    <3> HIDE DEF D
    <3> QED
      BY <2>1, Smallest
  <2>3. s # {}
    <3>1. c * 0 = 0
      OBVIOUS
    <3> QED
      BY <2>2, <3>1, SumEmpty
  <2>4. PICK x \in s : TRUE
    BY <2>3
  <2> DEFINE r == s \ {x}
  <2>5. s \in SUBSET S /\ x \in S /\ r \in SUBSET S /\ IsFiniteSet(s)
    BY <1>1, <2>2, <2>4
  <2>6. SumFunctionOnSet(g, r) = c * SumFunctionOnSet(f, r)
    BY <2>2, <2>4, <2>5
  <2>7. /\ SumFunctionOnSet(f, s) = f[x] + SumFunctionOnSet(f, r)
        /\ SumFunctionOnSet(g, s) = g[x] + SumFunctionOnSet(g, r)
    BY <1>2, <2>4, <2>5, SumWithout
  <2>8. SumFunctionOnSet(f, r) \in Int /\ f[x] \in Int /\ g[x] = c * f[x]
    BY <1>3, <2>5
  <2>9. SumFunctionOnSet(g, s) # c * SumFunctionOnSet(f, s)
    BY <2>2
  <2> HIDE DEF r
  <2>10. c * (f[x] + SumFunctionOnSet(f, r)) = c * f[x] + c * SumFunctionOnSet(f, r)
    BY <2>8, Distributes
  <2> QED
    BY <2>6, <2>7, <2>8, <2>9, <2>10
<1>5. S \notin D
  BY <1>4
<1> QED
  BY <1>5

\* The same number is taken from every summand.
LEMMA SumShift ==
  ASSUME NEW f, NEW g, NEW S, IsFiniteSet(S), NEW c \in Int,
         \A x \in S : f[x] \in Int /\ g[x] = f[x] - c
  PROVE  SumFunctionOnSet(g, S) = SumFunctionOnSet(f, S) - c * Cardinality(S)
<1> DEFINE D == {s \in SUBSET S :
                   SumFunctionOnSet(g, s) # SumFunctionOnSet(f, s) - c * Cardinality(s)}
<1>1. \A s \in SUBSET S : IsFiniteSet(s) /\ Cardinality(s) \in Nat
  BY FS_Subset, FS_CardinalityType
<1>2. \A x \in S : f[x] \in Int /\ g[x] \in Int
  OBVIOUS
<1>3. \A s \in SUBSET S : SumFunctionOnSet(f, s) \in Int
  BY <1>1, <1>2, SumNumbers
<1>4. D = {}
  <2> SUFFICES ASSUME D # {} PROVE FALSE
    OBVIOUS
  <2>1. D \subseteq SUBSET S
    OBVIOUS
  <2>2. PICK s \in D : \A t \in D : ~ (t \subseteq s /\ t # s)
    <3> HIDE DEF D
    <3> QED
      BY <2>1, Smallest
  <2>3. s # {}
    <3>1. 0 - c * 0 = 0
      OBVIOUS
    <3> QED
      BY <2>2, <3>1, SumEmpty, FS_EmptySet
  <2>4. PICK x \in s : TRUE
    BY <2>3
  <2> DEFINE r == s \ {x}
  <2>5. s \in SUBSET S /\ x \in S /\ r \in SUBSET S /\ IsFiniteSet(s)
    BY <1>1, <2>2, <2>4
  <2>6. SumFunctionOnSet(g, r) = SumFunctionOnSet(f, r) - c * Cardinality(r)
    BY <2>2, <2>4, <2>5
  <2>7. /\ SumFunctionOnSet(f, s) = f[x] + SumFunctionOnSet(f, r)
        /\ SumFunctionOnSet(g, s) = g[x] + SumFunctionOnSet(g, r)
    BY <1>2, <2>4, <2>5, SumWithout
  <2>8. SumFunctionOnSet(f, r) \in Int /\ f[x] \in Int /\ g[x] = f[x] - c
    BY <1>3, <2>5
  <2>9. SumFunctionOnSet(g, s) # SumFunctionOnSet(f, s) - c * Cardinality(s)
    BY <2>2
  <2>10. Cardinality(s) = Cardinality(r) + 1 /\ Cardinality(r) \in Nat
    <3>1. Cardinality(r) = Cardinality(s) - 1
      BY <2>4, <2>5, FS_RemoveElement
    <3>2. Cardinality(s) \in Nat /\ Cardinality(r) \in Nat
      BY <1>1, <2>5
    <3> HIDE DEF r
    <3> QED
      BY <3>1, <3>2
  <2> HIDE DEF r
  <2>11. c * (Cardinality(r) + 1) = c * Cardinality(r) + c * 1 /\ c * 1 = c
    BY <2>10, Distributes
  <2>12. c * Cardinality(r) \in Int
    BY <2>10
  <2> QED
    BY <2>6, <2>7, <2>8, <2>9, <2>10, <2>11, <2>12
<1>5. S \notin D
  BY <1>4
<1> QED
  BY <1>5

\* A sum of sums.
LEMMA SumPlus ==
  ASSUME NEW f, NEW g, NEW h, NEW S, IsFiniteSet(S),
         \A x \in S : f[x] \in Int /\ g[x] \in Int /\ h[x] = f[x] + g[x]
  PROVE  SumFunctionOnSet(h, S) = SumFunctionOnSet(f, S) + SumFunctionOnSet(g, S)
<1> DEFINE D == {s \in SUBSET S : SumFunctionOnSet(h, s)
                                  # SumFunctionOnSet(f, s) + SumFunctionOnSet(g, s)}
<1>1. \A s \in SUBSET S : IsFiniteSet(s)
  BY FS_Subset
<1>2. \A x \in S : f[x] \in Int /\ g[x] \in Int /\ h[x] \in Int
  OBVIOUS
<1>3. \A s \in SUBSET S : SumFunctionOnSet(f, s) \in Int /\ SumFunctionOnSet(g, s) \in Int
  BY <1>1, <1>2, SumNumbers
<1>4. D = {}
  <2> SUFFICES ASSUME D # {} PROVE FALSE
    OBVIOUS
  <2>1. D \subseteq SUBSET S
    OBVIOUS
  <2>2. PICK s \in D : \A t \in D : ~ (t \subseteq s /\ t # s)
    <3> HIDE DEF D
    <3> QED
      BY <2>1, Smallest
  <2>3. s # {}
    <3> SUFFICES ASSUME s = {} PROVE FALSE
      OBVIOUS
    <3>1. /\ SumFunctionOnSet(h, s) = 0
          /\ SumFunctionOnSet(f, s) = 0 /\ SumFunctionOnSet(g, s) = 0
      BY SumEmpty
    <3>2. SumFunctionOnSet(h, s) # SumFunctionOnSet(f, s) + SumFunctionOnSet(g, s)
      BY <2>2
    <3> QED
      BY <3>1, <3>2
  <2>4. PICK x \in s : TRUE
    BY <2>3
  <2> DEFINE r == s \ {x}
  <2>5. s \in SUBSET S /\ x \in S /\ r \in SUBSET S /\ IsFiniteSet(s)
    BY <1>1, <2>2, <2>4
  <2>6. SumFunctionOnSet(h, r) = SumFunctionOnSet(f, r) + SumFunctionOnSet(g, r)
    BY <2>2, <2>4, <2>5
  <2>7. /\ SumFunctionOnSet(f, s) = f[x] + SumFunctionOnSet(f, r)
        /\ SumFunctionOnSet(g, s) = g[x] + SumFunctionOnSet(g, r)
        /\ SumFunctionOnSet(h, s) = h[x] + SumFunctionOnSet(h, r)
    BY <1>2, <2>4, <2>5, SumWithout
  <2>8. /\ SumFunctionOnSet(f, r) \in Int /\ SumFunctionOnSet(g, r) \in Int
        /\ f[x] \in Int /\ g[x] \in Int /\ h[x] = f[x] + g[x]
    BY <1>3, <2>5
  <2>9. SumFunctionOnSet(h, s) # SumFunctionOnSet(f, s) + SumFunctionOnSet(g, s)
    BY <2>2
  <2> HIDE DEF r
  <2> QED
    BY <2>6, <2>7, <2>8, <2>9
<1>5. S \notin D
  BY <1>4
<1> QED
  BY <1>5

\* How many elements are of a kind, as a sum of ones.
LEMMA CountIsSum ==
  ASSUME NEW S, IsFiniteSet(S), NEW T, T \subseteq S
  PROVE  SumFunctionOnSet([x \in S |-> IF x \in T THEN 1 ELSE 0], S) = Cardinality(T)
<1> DEFINE ones == [x \in S |-> IF x \in T THEN 1 ELSE 0]
           none == [x \in S |-> 0]
<1>1. IsFiniteSet(T) /\ Cardinality(T) \in Nat
  BY FS_Subset, FS_CardinalityType
<1>2. /\ \A x \in S : ones[x] \in Int
      /\ \A x \in S \ T : ones[x] = 0
      /\ \A x \in T : none[x] \in Int /\ ones[x] = none[x] - (-1)
      /\ \A x \in T : none[x] = 0
  OBVIOUS
<1> HIDE DEF ones, none
<1>3. SumFunctionOnSet(ones, S) = SumFunctionOnSet(ones, T)
  BY <1>2, SumSupport
<1>4. SumFunctionOnSet(none, T) = 0
  BY <1>1, <1>2, SumZero
<1>5. SumFunctionOnSet(ones, T) = SumFunctionOnSet(none, T) - (-1) * Cardinality(T)
  <2>1. -1 \in Int
    OBVIOUS
  <2> QED
    BY <1>1, <1>2, <2>1, SumShift
<1> QED
  BY <1>1, <1>3, <1>4, <1>5 DEF ones

\* A number is added to the summands of some elements.
LEMMA SumMarked ==
  ASSUME NEW f, NEW h, NEW S, IsFiniteSet(S), NEW T, T \subseteq S, NEW k \in Int,
         \A x \in S : f[x] \in Int /\ h[x] = IF x \in T THEN f[x] + k ELSE f[x]
  PROVE  SumFunctionOnSet(h, S) = SumFunctionOnSet(f, S) + k * Cardinality(T)
<1> DEFINE ones == [x \in S |-> IF x \in T THEN 1 ELSE 0]
           more == [x \in S |-> k * ones[x]]
<1>1. SumFunctionOnSet(ones, S) = Cardinality(T)
  BY CountIsSum
<1>2. /\ \A x \in S : ones[x] \in Int /\ more[x] = k * ones[x]
      /\ \A x \in S : x \in T => ones[x] = 1
      /\ \A x \in S : x \notin T => ones[x] = 0
  OBVIOUS
<1> HIDE DEF ones, more
<1>3. \A x \in S : more[x] = IF x \in T THEN k ELSE 0
  BY <1>2
<1>4. \A x \in S : f[x] \in Int /\ more[x] \in Int /\ h[x] = f[x] + more[x]
  BY <1>3
<1>5. SumFunctionOnSet(more, S) = k * SumFunctionOnSet(ones, S)
  BY <1>2, SumTimes
<1>6. SumFunctionOnSet(h, S) = SumFunctionOnSet(f, S) + SumFunctionOnSet(more, S)
  BY <1>4, SumPlus
<1> QED
  BY <1>1, <1>5, <1>6

\* A quotient, times its divisor, is no more than was divided.
LEMMA QuotientFits ==
  ASSUME NEW n \in Nat, NEW d \in Nat \ {0}
  PROVE  n \div d \in Nat /\ d * (n \div d) <= n
  OBVIOUS

\* A positive factor leaves an order as it is.
LEMMA FactorCancels ==
  ASSUME NEW c \in Nat \ {0}, NEW m \in Int, NEW n \in Int, c * m <= c * n
  PROVE  m <= n
<1> SUFFICES ASSUME n + 1 <= m PROVE FALSE
  OBVIOUS
<1> DEFINE k == m - (n + 1)
<1>1. k \in Nat /\ m = (n + 1) + k
  OBVIOUS
<1> HIDE DEF k
<1>2. c * m = c * (n + 1) + c * k /\ c * (n + 1) = c * n + c * 1
  BY <1>1, Distributes
<1>3. c * k \in Nat /\ c * 1 = c /\ c * n \in Int
  BY <1>1
<1> QED
  BY <1>2, <1>3

\* What is shared in proportion and rounded down is no more than there was.
LEMMA SharesWithin ==
  ASSUME NEW S, IsFiniteSet(S), NEW b, NEW p \in Nat, NEW q,
         \A x \in S : b[x] \in Nat, SumFunctionOnSet(b, S) > 0,
         \A x \in S : q[x] = (p * b[x]) \div SumFunctionOnSet(b, S)
  PROVE  SumFunctionOnSet(q, S) <= p
<1> DEFINE c == SumFunctionOnSet(b, S)
           up == [x \in S |-> c * q[x]]
           of == [x \in S |-> p * b[x]]
<1>1. c \in Nat \ {0}
  <2>1. c \in Nat
    BY SumFewer
  <2> QED
    BY <2>1
<1>2. \A x \in S : p * b[x] \in Nat /\ q[x] = (p * b[x]) \div c
  OBVIOUS
<1> HIDE DEF c
<1>3. \A x \in S : q[x] \in Nat /\ c * q[x] <= p * b[x]
  BY <1>1, <1>2, QuotientFits
<1>4. SumFunctionOnSet(up, S) = c * SumFunctionOnSet(q, S)
  <2>1. \A x \in S : q[x] \in Int /\ up[x] = c * q[x]
    BY <1>3
  <2> HIDE DEF up
  <2> QED
    BY <1>1, <2>1, SumTimes
<1>5. SumFunctionOnSet(of, S) = p * SumFunctionOnSet(b, S)
  <2>1. \A x \in S : b[x] \in Int /\ of[x] = p * b[x]
    OBVIOUS
  <2> HIDE DEF of
  <2> QED
    BY <2>1, SumTimes
<1>6. SumFunctionOnSet(up, S) <= SumFunctionOnSet(of, S)
  <2>1. \A x \in S : c * q[x] \in Int
    BY <1>1, <1>3
  <2>2. \A x \in S : up[x] \in Int /\ of[x] \in Int /\ up[x] <= of[x]
    BY <1>2, <1>3, <2>1
  <2> HIDE DEF up, of
  <2> QED
    BY <2>2, SumLeq
<1>7. SumFunctionOnSet(q, S) \in Int
  <2>1. \A x \in S : q[x] \in Int
    BY <1>3
  <2> QED
    BY <2>1, SumNumbers
<1>8. c * SumFunctionOnSet(q, S) <= c * p
  <2>1. p * SumFunctionOnSet(b, S) = c * p
    BY <1>1 DEF c
  <2> HIDE DEF up, of
  <2> QED
    BY <1>4, <1>5, <1>6, <2>1
<1> QED
  BY <1>1, <1>7, <1>8, FactorCancels

\* A set of numbers up to a bound has a greatest.
LEMMA LargestUpTo ==
  ASSUME NEW n \in Nat, NEW S, S \subseteq 0 .. n, S # {}
  PROVE  Max(S) \in S /\ \A x \in S : Max(S) >= x
<1> DEFINE D == {n - x : x \in S}
<1>0. \A x \in S : n - x \in Nat
  OBVIOUS
<1>1. D \subseteq Nat /\ D # {}
  BY <1>0
<1>2. PICK d \in D : \A e \in D : d <= e
  <2> HIDE DEF D
  <2> QED
    BY <1>1, SmallestNat
<1>3. PICK x \in S : d = n - x
  OBVIOUS
<1>4. \A y \in S : x >= y
  <2> SUFFICES ASSUME NEW y \in S PROVE x >= y
    OBVIOUS
  <2>1. n - x <= n - y
    BY <1>2, <1>3
  <2> QED
    BY <2>1
<1> QED
  BY <1>4 DEF Max
===============================================================================
