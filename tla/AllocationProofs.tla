--------------------------- MODULE AllocationProofs ---------------------------
(***************************************************************************)
(* What the allocation rules guarantee for every population: sums over     *)
(* finite sets, the greedy loop, largest remainders, allocate_whole, and   *)
(* the split of a whole through a forest of groups.                        *)
(***************************************************************************)
EXTENDS GroupForest, FiniteSetTheorems, WellFoundedInduction, TLAPS

-------------------------------------------------------------------------------
(* Sums over finite sets.  SumFunctionOnSet is the value at S of the       *)
(* function on the subsets of S that adds up one chosen element at a time; *)
(* every argument by induction takes a smallest subset without the         *)
(* property.                                                               *)

Picked(s) == CHOOSE x \in s : TRUE

AddsUp(f, K, it) ==
  it = [s \in K |-> IF s = {} THEN 0 ELSE f[Picked(s)] + it[s \ {Picked(s)}]]

LEMMA SmallestSet ==
  ASSUME NEW S, IsFiniteSet(S), NEW T \in SUBSET SUBSET S, T # {}
  PROVE  \E x \in T : \A y \in T : ~(y \subseteq x /\ y # x)
<1>1. IsWellFoundedOn(StrictSubsetOrdering(S), SUBSET S)
  BY FS_StrictSubsetOrderingWellFounded, FS_FiniteSubsetsOfFinite
<1>2. PICK x \in T : \A y \in T : ~(<<y, x>> \in StrictSubsetOrdering(S))
  BY <1>1, WFMin
<1> QED BY <1>2 DEF StrictSubsetOrdering

LEMMA PickedIn ==
  ASSUME NEW s, s # {}
  PROVE  Picked(s) \in s
BY DEF Picked

LEMMA SumExists ==
  ASSUME NEW f, NEW S, IsFiniteSet(S)
  PROVE  \E it : AddsUp(f, SUBSET S, it)
<1> DEFINE P == SUBSET S
           Closed(K) == \A s \in K : s # {} => s \ {Picked(s)} \in K
           T == {C \in SUBSET P : Closed(P \ C) /\ \E it : AddsUp(f, P \ C, it)}
<1>1. IsFiniteSet(P)
  BY FS_SUBSET
<1>2. P \in T
  <2>1. P \ P = {}
    OBVIOUS
  <2>2. \E it : it = [s \in {} |-> IF s = {} THEN 0 ELSE f[Picked(s)] + it[s \ {Picked(s)}]]
    <3> DEFINE e == [s \in {} |-> 0]
    <3>1. e = [s \in {} |-> IF s = {} THEN 0 ELSE f[Picked(s)] + e[s \ {Picked(s)}]]
      OBVIOUS
    <3> QED BY <3>1
  <2> QED BY <2>1, <2>2 DEF AddsUp
<1>3. PICK C \in T : \A D \in T : ~(D \subseteq C /\ D # C)
  <2>1. T \in SUBSET SUBSET P /\ T # {}
    BY <1>2
  <2> HIDE DEF T, P
  <2> QED BY <1>1, <2>1, SmallestSet
<1>4. PICK it : AddsUp(f, P \ C, it)
  BY <1>3
<1>5. CASE C = {}
  BY <1>4, <1>5
<1>6. CASE C # {}
  <2>1. PICK s \in C : \A t \in C : ~(t \subseteq s /\ t # s)
    BY <1>3, <1>6, SmallestSet
  <2> DEFINE K == P \ C
             L == P \ (C \ {s})
             jt == [t \in L |-> IF t = {} THEN 0 ELSE f[Picked(t)] + it[t \ {Picked(t)}]]
  <2>2. s \in P /\ L = K \cup {s} /\ s \notin K /\ C \in SUBSET P
    BY <1>3, <2>1
  <2>3. s # {} => s \ {Picked(s)} \in K
    <3> SUFFICES ASSUME s # {} PROVE s \ {Picked(s)} \in K
      OBVIOUS
    <3>1. Picked(s) \in s
      BY PickedIn
    <3> QED BY <2>1, <2>2, <3>1
  <2>4. Closed(K)
    BY <1>3
  <2>5. Closed(L)
    BY <2>2, <2>3, <2>4
  <2>6. \A t \in K : jt[t] = it[t]
    BY <1>4, <2>2 DEF AddsUp
  <2>7. AddsUp(f, L, jt)
    <3>1. \A t \in L : t # {} => jt[t \ {Picked(t)}] = it[t \ {Picked(t)}]
      BY <2>2, <2>3, <2>4, <2>6
    <3> QED BY <3>1 DEF AddsUp
  <2>8. C \ {s} \in T
    BY <2>2, <2>5, <2>7
  <2> QED BY <1>3, <2>1, <2>8
<1> QED BY <1>5, <1>6

LEMMA SumSolves ==
  ASSUME NEW f, NEW S, IsFiniteSet(S)
  PROVE  \E it : AddsUp(f, SUBSET S, it) /\ SumFunctionOnSet(f, S) = it[S]
<1>1. SumFunctionOnSet(f, S) = (CHOOSE it : AddsUp(f, SUBSET S, it))[S]
  BY DEF SumFunctionOnSet, FoldFunctionOnSet, MapThenFoldSet, AddsUp, Picked
<1> QED BY <1>1, SumExists

LEMMA SumCoherent ==
  ASSUME NEW f, NEW S, IsFiniteSet(S), NEW u \in SUBSET S,
         NEW it, AddsUp(f, SUBSET S, it)
  PROVE  it[u] = SumFunctionOnSet(f, u)
<1> DEFINE Bad == {v \in SUBSET S : \E W \in SUBSET S : v \subseteq W /\
                     \E jt : AddsUp(f, SUBSET W, jt) /\ jt[v] # SumFunctionOnSet(f, v)}
<1> SUFFICES ASSUME Bad # {} PROVE FALSE
  OBVIOUS
<1>1. PICK v \in Bad : \A x \in Bad : ~(x \subseteq v /\ x # v)
  <2>1. Bad \in SUBSET SUBSET S
    OBVIOUS
  <2> HIDE DEF Bad
  <2> QED BY <2>1, SmallestSet
<1>a. PICK W \in SUBSET S : v \subseteq W /\
                             \E jt : AddsUp(f, SUBSET W, jt) /\ jt[v] # SumFunctionOnSet(f, v)
  BY <1>1
<1>2. PICK jt : v \subseteq W /\ AddsUp(f, SUBSET W, jt) /\ jt[v] # SumFunctionOnSet(f, v)
  BY <1>a
<1>3. IsFiniteSet(v)
  BY <1>1, FS_Subset
<1>4. PICK kt : AddsUp(f, SUBSET v, kt) /\ SumFunctionOnSet(f, v) = kt[v]
  BY <1>3, SumSolves
<1>5. jt[v] = IF v = {} THEN 0 ELSE f[Picked(v)] + jt[v \ {Picked(v)}]
  BY <1>2 DEF AddsUp
<1>6. kt[v] = IF v = {} THEN 0 ELSE f[Picked(v)] + kt[v \ {Picked(v)}]
  BY <1>4 DEF AddsUp
<1>7. CASE v = {}
  BY <1>2, <1>4, <1>5, <1>6, <1>7
<1>8. CASE v # {}
  <2> DEFINE w == v \ {Picked(v)}
  <2>1. w \subseteq v /\ w # v /\ w \in SUBSET S
    BY <1>8, PickedIn
  <2>2. w \notin Bad
    BY <1>1, <2>1
  <2>3. jt[w] = SumFunctionOnSet(f, w) /\ kt[w] = SumFunctionOnSet(f, w)
    BY <1>2, <1>4, <2>1, <2>2
  <2> QED BY <1>2, <1>4, <1>5, <1>6, <1>8, <2>3
<1> QED BY <1>7, <1>8

LEMMA SumUnfold ==
  ASSUME NEW f, NEW S, IsFiniteSet(S)
  PROVE  SumFunctionOnSet(f, S) =
           IF S = {} THEN 0 ELSE f[Picked(S)] + SumFunctionOnSet(f, S \ {Picked(S)})
<1>1. PICK it : AddsUp(f, SUBSET S, it) /\ SumFunctionOnSet(f, S) = it[S]
  BY SumSolves
<1>2. it[S] = IF S = {} THEN 0 ELSE f[Picked(S)] + it[S \ {Picked(S)}]
  BY <1>1 DEF AddsUp
<1>3. it[S \ {Picked(S)}] = SumFunctionOnSet(f, S \ {Picked(S)})
  BY <1>1, SumCoherent
<1> QED BY <1>1, <1>2, <1>3

LEMMA SumEmpty ==
  ASSUME NEW f
  PROVE  SumFunctionOnSet(f, {}) = 0
BY SumUnfold, FS_EmptySet

LEMMA SumInt ==
  ASSUME NEW f, NEW S, IsFiniteSet(S), \A x \in S : f[x] \in Int
  PROVE  SumFunctionOnSet(f, S) \in Int
<1> DEFINE Bad == {v \in SUBSET S : SumFunctionOnSet(f, v) \notin Int}
<1> SUFFICES ASSUME Bad # {} PROVE FALSE
  OBVIOUS
<1>1. PICK v \in Bad : \A x \in Bad : ~(x \subseteq v /\ x # v)
  <2>1. Bad \in SUBSET SUBSET S
    OBVIOUS
  <2> HIDE DEF Bad
  <2> QED BY <2>1, SmallestSet
<1>2. IsFiniteSet(v) /\ v \subseteq S /\ SumFunctionOnSet(f, v) \notin Int
  BY <1>1, FS_Subset
<1>3. SumFunctionOnSet(f, v) = IF v = {} THEN 0 ELSE f[Picked(v)] + SumFunctionOnSet(f, v \ {Picked(v)})
  BY <1>2, SumUnfold
<1>4. v # {}
  BY <1>2, <1>3
<1> DEFINE w == v \ {Picked(v)}
<1>5. Picked(v) \in v /\ w \subseteq v /\ w # v /\ w \in SUBSET S
  BY <1>2, <1>4, PickedIn
<1>6. SumFunctionOnSet(f, w) \in Int
  BY <1>1, <1>5
<1>7. f[Picked(v)] \in Int
  BY <1>2, <1>5
<1> QED BY <1>2, <1>3, <1>4, <1>6, <1>7

\* The order in which the elements are added up does not matter.
LEMMA SumRemove ==
  ASSUME NEW f, NEW S, IsFiniteSet(S), \A x \in S : f[x] \in Int, NEW a \in S
  PROVE  SumFunctionOnSet(f, S) = f[a] + SumFunctionOnSet(f, S \ {a})
<1> DEFINE Splits(v, x) == SumFunctionOnSet(f, v) = f[x] + SumFunctionOnSet(f, v \ {x})
           Bad == {v \in SUBSET S : \E x \in v : ~Splits(v, x)}
<1> SUFFICES ASSUME Bad # {} PROVE FALSE
  OBVIOUS
<1>1. PICK v \in Bad : \A x \in Bad : ~(x \subseteq v /\ x # v)
  <2>1. Bad \in SUBSET SUBSET S
    OBVIOUS
  <2> HIDE DEF Bad
  <2> QED BY <2>1, SmallestSet
<1>2. PICK x \in v : ~Splits(v, x)
  BY <1>1
<1> DEFINE c == Picked(v)
<1>3. IsFiniteSet(v) /\ v \subseteq S /\ v # {} /\ c \in v
  BY <1>1, <1>2, FS_Subset, PickedIn
<1>4. Splits(v, c)
  BY <1>3, SumUnfold
<1>5. x # c
  BY <1>2, <1>4
<1>6. Splits(v \ {c}, x) /\ Splits(v \ {x}, c)
  <2> HIDE DEF Splits
  <2>1. v \ {c} \in SUBSET S /\ v \ {c} # v /\ v \ {x} \in SUBSET S /\ v \ {x} # v
    BY <1>2, <1>3
  <2>2. v \ {c} \notin Bad /\ v \ {x} \notin Bad
    BY <1>1, <2>1
  <2> QED BY <1>2, <1>3, <1>5, <2>1, <2>2
<1>7. (v \ {c}) \ {x} = (v \ {x}) \ {c}
  OBVIOUS
<1> DEFINE r == SumFunctionOnSet(f, (v \ {x}) \ {c})
<1>8. r \in Int /\ f[x] \in Int /\ f[c] \in Int
  <2>1. IsFiniteSet((v \ {x}) \ {c}) /\ \A y \in (v \ {x}) \ {c} : f[y] \in Int
    BY <1>3, FS_Subset
  <2> QED BY <1>2, <1>3, <2>1, SumInt
<1>9. /\ SumFunctionOnSet(f, v) = f[c] + SumFunctionOnSet(f, v \ {c})
      /\ SumFunctionOnSet(f, v \ {c}) = f[x] + r
      /\ SumFunctionOnSet(f, v \ {x}) = f[c] + r
  BY <1>4, <1>6, <1>7
<1> HIDE DEF r
<1> QED BY <1>2, <1>8, <1>9

\* Adding one element to a set.
LEMMA SumAdd ==
  ASSUME NEW f, NEW S, IsFiniteSet(S), NEW a, a \notin S,
         \A x \in S \cup {a} : f[x] \in Int
  PROVE  /\ SumFunctionOnSet(f, S \cup {a}) = f[a] + SumFunctionOnSet(f, S)
         /\ SumFunctionOnSet(f, S) \in Int
<1>1. IsFiniteSet(S \cup {a}) /\ (S \cup {a}) \ {a} = S
  BY FS_AddElement
<1> QED BY <1>1, SumRemove, SumInt

\* Induction over a finite set, for a property given as the set of subsets that
\* have it.
LEMMA SetInduction ==
  ASSUME NEW S, IsFiniteSet(S), NEW Good, {} \in Good,
         \A T \in SUBSET S : \A x \in S \ T : T \in Good => T \cup {x} \in Good
  PROVE  S \in Good
<1> DEFINE Bad == {v \in SUBSET S : v \notin Good}
<1> SUFFICES ASSUME Bad # {} PROVE FALSE
  OBVIOUS
<1>1. PICK v \in Bad : \A x \in Bad : ~(x \subseteq v /\ x # v)
  <2>1. Bad \in SUBSET SUBSET S
    OBVIOUS
  <2> HIDE DEF Bad
  <2> QED BY <2>1, SmallestSet
<1>2. PICK x \in v : TRUE
  BY <1>1
<1>3. v \ {x} \in SUBSET S /\ x \in S \ (v \ {x}) /\ v = (v \ {x}) \cup {x} /\ v \ {x} # v
  BY <1>1, <1>2
<1>4. v \ {x} \in Good
  BY <1>1, <1>3
<1> QED BY <1>1, <1>3, <1>4

LEMMA MaximumExists ==
  ASSUME NEW S, IsFiniteSet(S), S # {}, NEW f, \A x \in S : f[x] \in Int
  PROVE  \E m \in S : \A x \in S : f[x] <= f[m]
<1> DEFINE Good == {T \in SUBSET S : T = {} \/ \E m \in T : \A x \in T : f[x] <= f[m]}
<1>1. {} \in Good
  OBVIOUS
<1>2. ASSUME NEW T \in SUBSET S, NEW x \in S \ T, T \in Good PROVE T \cup {x} \in Good
  <2>1. CASE T = {}
    <3>1. f[x] <= f[x]
      OBVIOUS
    <3> QED BY <2>1, <3>1
  <2>2. CASE T # {}
    <3>1. PICK m \in T : \A y \in T : f[y] <= f[m]
      BY <1>2, <2>2
    <3>2. CASE f[x] <= f[m]
      <4>1. \A y \in T \cup {x} : f[y] <= f[m]
        BY <3>1, <3>2
      <4> QED BY <4>1
    <3>3. CASE f[m] <= f[x]
      <4>1. \A y \in T \cup {x} : f[y] <= f[x]
        BY <3>1, <3>3
      <4> QED BY <4>1
    <3> QED BY <3>2, <3>3
  <2> QED BY <2>1, <2>2
<1>3. S \in Good
  <2> HIDE DEF Good
  <2> QED BY <1>1, <1>2, SetInduction
<1> QED BY <1>3

\* Max of the community modules, on a finite set of numbers.
LEMMA MaxOf ==
  ASSUME NEW S, IsFiniteSet(S), S # {}, S \subseteq Int
  PROVE  Max(S) \in S /\ \A x \in S : x <= Max(S)
<1> DEFINE f == [x \in S |-> x]
<1>1. \A x \in S : f[x] \in Int /\ f[x] = x
  OBVIOUS
<1> HIDE DEF f
<1>2. PICK m \in S : \A x \in S : f[x] <= f[m]
  BY <1>1, MaximumExists
<1>3. \A x \in S : m >= x
  BY <1>1, <1>2
<1> QED BY <1>3 DEF Max

LEMMA SumUnion ==
  ASSUME NEW f, NEW A, NEW B, IsFiniteSet(A), IsFiniteSet(B), A \cap B = {},
         \A x \in A \cup B : f[x] \in Int
  PROVE  SumFunctionOnSet(f, A \cup B) = SumFunctionOnSet(f, A) + SumFunctionOnSet(f, B)
<1> DEFINE Good == {T \in SUBSET B : SumFunctionOnSet(f, A \cup T) = SumFunctionOnSet(f, A) + SumFunctionOnSet(f, T)}
<1>0. SumFunctionOnSet(f, A) \in Int
  BY SumInt
<1>1. {} \in Good
  <2>1. A \cup {} = A
    OBVIOUS
  <2> QED BY <1>0, <2>1, SumEmpty
<1>2. ASSUME NEW T \in SUBSET B, NEW x \in B \ T, T \in Good PROVE T \cup {x} \in Good
  <2>1. IsFiniteSet(T) /\ IsFiniteSet(A \cup T)
    BY FS_Subset, FS_Union
  <2>2. x \notin A \cup T /\ (A \cup T) \cup {x} = A \cup (T \cup {x})
    BY <1>2
  <2>3. SumFunctionOnSet(f, A \cup (T \cup {x})) = f[x] + SumFunctionOnSet(f, A \cup T)
    BY <2>1, <2>2, SumAdd
  <2>4. SumFunctionOnSet(f, T \cup {x}) = f[x] + SumFunctionOnSet(f, T) /\ SumFunctionOnSet(f, T) \in Int
    BY <2>1, SumAdd
  <2>5. SumFunctionOnSet(f, A \cup T) = SumFunctionOnSet(f, A) + SumFunctionOnSet(f, T)
    BY <1>2
  <2>6. SumFunctionOnSet(f, A \cup (T \cup {x})) = SumFunctionOnSet(f, A) + SumFunctionOnSet(f, T \cup {x})
    BY <1>0, <2>3, <2>4, <2>5
  <2> QED BY <2>6
<1> HIDE DEF Good
<1>3. B \in Good
  BY <1>1, <1>2, SetInduction
<1> QED BY <1>3 DEF Good

LEMMA SumPointwise ==
  ASSUME NEW f, NEW g, NEW h, NEW S, IsFiniteSet(S),
         \A x \in S : f[x] \in Int /\ g[x] \in Int /\ h[x] = f[x] + g[x]
  PROVE  SumFunctionOnSet(h, S) = SumFunctionOnSet(f, S) + SumFunctionOnSet(g, S)
<1> DEFINE F(T) == SumFunctionOnSet(f, T)
           G(T) == SumFunctionOnSet(g, T)
           H(T) == SumFunctionOnSet(h, T)
           Good == {T \in SUBSET S : H(T) = F(T) + G(T)}
<1>1. {} \in Good
  BY SumEmpty
<1>2. ASSUME NEW T \in SUBSET S, NEW x \in S \ T, T \in Good PROVE T \cup {x} \in Good
  <2>1. IsFiniteSet(T)
    BY FS_Subset
  <2>2. /\ F(T \cup {x}) = f[x] + F(T) /\ F(T) \in Int
        /\ G(T \cup {x}) = g[x] + G(T) /\ G(T) \in Int
        /\ H(T \cup {x}) = h[x] + H(T) /\ H(T) \in Int
    <3>1. \A y \in T \cup {x} : f[y] \in Int /\ g[y] \in Int /\ h[y] \in Int
      OBVIOUS
    <3>2. F(T \cup {x}) = f[x] + F(T) /\ F(T) \in Int
      BY <2>1, <3>1, SumAdd
    <3>3. G(T \cup {x}) = g[x] + G(T) /\ G(T) \in Int
      BY <2>1, <3>1, SumAdd
    <3>4. H(T \cup {x}) = h[x] + H(T) /\ H(T) \in Int
      BY <2>1, <3>1, SumAdd
    <3> QED BY <3>2, <3>3, <3>4
  <2>3. H(T) = F(T) + G(T) /\ h[x] = f[x] + g[x] /\ f[x] \in Int /\ g[x] \in Int
    BY <1>2
  <2> HIDE DEF F, G, H
  <2>4. H(T \cup {x}) = F(T \cup {x}) + G(T \cup {x})
    BY <2>2, <2>3
  <2> QED BY <2>4
<1> HIDE DEF Good
<1>3. S \in Good
  BY <1>1, <1>2, SetInduction
<1> QED BY <1>3 DEF Good

LEMMA SumOrdered ==
  ASSUME NEW f, NEW g, NEW S, IsFiniteSet(S),
         \A x \in S : f[x] \in Int /\ g[x] \in Int /\ f[x] <= g[x]
  PROVE  SumFunctionOnSet(f, S) <= SumFunctionOnSet(g, S)
<1> DEFINE F(T) == SumFunctionOnSet(f, T)
           G(T) == SumFunctionOnSet(g, T)
           Good == {T \in SUBSET S : F(T) <= G(T)}
<1>1. {} \in Good
  BY SumEmpty
<1>2. ASSUME NEW T \in SUBSET S, NEW x \in S \ T, T \in Good PROVE T \cup {x} \in Good
  <2>1. IsFiniteSet(T)
    BY FS_Subset
  <2>2. /\ F(T \cup {x}) = f[x] + F(T) /\ F(T) \in Int
        /\ G(T \cup {x}) = g[x] + G(T) /\ G(T) \in Int
    BY <2>1, SumAdd
  <2>3. F(T) <= G(T) /\ f[x] <= g[x] /\ f[x] \in Int /\ g[x] \in Int
    BY <1>2
  <2> HIDE DEF F, G
  <2>4. F(T \cup {x}) <= G(T \cup {x})
    BY <2>2, <2>3
  <2> QED BY <2>4
<1> HIDE DEF Good
<1>3. S \in Good
  BY <1>1, <1>2, SetInduction
<1> QED BY <1>3 DEF Good

LEMMA SumSame ==
  ASSUME NEW f, NEW g, NEW S, IsFiniteSet(S), \A x \in S : f[x] \in Int /\ g[x] = f[x]
  PROVE  SumFunctionOnSet(f, S) = SumFunctionOnSet(g, S)
<1>1. SumFunctionOnSet(f, S) \in Int /\ SumFunctionOnSet(g, S) \in Int
  BY SumInt
<1>2. SumFunctionOnSet(f, S) <= SumFunctionOnSet(g, S) /\ SumFunctionOnSet(g, S) <= SumFunctionOnSet(f, S)
  BY SumOrdered
<1> QED BY <1>1, <1>2

LEMMA SumNat ==
  ASSUME NEW f, NEW S, IsFiniteSet(S), \A x \in S : f[x] \in Nat
  PROVE  SumFunctionOnSet(f, S) \in Nat
<1> DEFINE Good == {T \in SUBSET S : SumFunctionOnSet(f, T) \in Nat}
<1>1. {} \in Good
  BY SumEmpty
<1>2. ASSUME NEW T \in SUBSET S, NEW x \in S \ T, T \in Good PROVE T \cup {x} \in Good
  <2>1. IsFiniteSet(T)
    BY FS_Subset
  <2>2. SumFunctionOnSet(f, T \cup {x}) = f[x] + SumFunctionOnSet(f, T)
    BY <2>1, SumAdd
  <2> QED BY <1>2, <2>2
<1> HIDE DEF Good
<1>3. S \in Good
  BY <1>1, <1>2, SetInduction
<1> QED BY <1>3 DEF Good

\* A subset of naturals adds up to no more.
LEMMA SumSubset ==
  ASSUME NEW f, NEW S, IsFiniteSet(S), \A x \in S : f[x] \in Nat, NEW T \in SUBSET S
  PROVE  SumFunctionOnSet(f, T) <= SumFunctionOnSet(f, S)
<1>1. IsFiniteSet(T) /\ IsFiniteSet(S \ T) /\ T \cup (S \ T) = S /\ T \cap (S \ T) = {}
  BY FS_Subset
<1>2. SumFunctionOnSet(f, S) = SumFunctionOnSet(f, T) + SumFunctionOnSet(f, S \ T)
  BY <1>1, SumUnion
<1>3. SumFunctionOnSet(f, T) \in Nat /\ SumFunctionOnSet(f, S \ T) \in Nat
  BY <1>1, SumNat
<1> QED BY <1>2, <1>3

LEMMA SumOnes ==
  ASSUME NEW f, NEW S, IsFiniteSet(S), \A x \in S : f[x] = 1
  PROVE  SumFunctionOnSet(f, S) = Cardinality(S)
<1> DEFINE Good == {T \in SUBSET S : SumFunctionOnSet(f, T) = Cardinality(T)}
<1>1. {} \in Good
  BY SumEmpty, FS_EmptySet
<1>2. ASSUME NEW T \in SUBSET S, NEW x \in S \ T, T \in Good PROVE T \cup {x} \in Good
  <2>1. IsFiniteSet(T)
    BY FS_Subset
  <2>2. SumFunctionOnSet(f, T \cup {x}) = 1 + SumFunctionOnSet(f, T)
    BY <2>1, SumAdd
  <2>3. Cardinality(T \cup {x}) = Cardinality(T) + 1 /\ Cardinality(T) \in Nat
    BY <2>1, FS_AddElement, FS_CardinalityType
  <2> QED BY <1>2, <2>2, <2>3
<1> HIDE DEF Good
<1>3. S \in Good
  BY <1>1, <1>2, SetInduction
<1> QED BY <1>3 DEF Good

LEMMA SumScaled ==
  ASSUME NEW f, NEW g, NEW k \in Int, NEW S, IsFiniteSet(S),
         \A x \in S : f[x] \in Int /\ g[x] = k * f[x]
  PROVE  SumFunctionOnSet(g, S) = k * SumFunctionOnSet(f, S)
<1> DEFINE F(T) == SumFunctionOnSet(f, T)
           G(T) == SumFunctionOnSet(g, T)
           Good == {T \in SUBSET S : G(T) = k * F(T)}
<1>0. \A x, y \in Int : k * (x + y) = k * x + k * y /\ k * x \in Int
  OBVIOUS
<1>1. {} \in Good
  BY SumEmpty
<1>2. ASSUME NEW T \in SUBSET S, NEW x \in S \ T, T \in Good PROVE T \cup {x} \in Good
  <2>1. IsFiniteSet(T)
    BY FS_Subset
  <2>2. /\ F(T \cup {x}) = f[x] + F(T) /\ F(T) \in Int
        /\ G(T \cup {x}) = g[x] + G(T)
    <3>1. \A y \in T \cup {x} : g[y] \in Int
      BY <1>0
    <3> QED BY <2>1, <3>1, SumAdd
  <2>3. G(T) = k * F(T) /\ g[x] = k * f[x] /\ f[x] \in Int
    BY <1>2
  <2> HIDE DEF F, G
  <2>4. k * (f[x] + F(T)) = k * f[x] + k * F(T)
    BY <1>0, <2>2, <2>3
  <2>5. G(T \cup {x}) = k * F(T \cup {x})
    BY <2>2, <2>3, <2>4
  <2> QED BY <2>5
<1> HIDE DEF Good
<1>3. S \in Good
  BY <1>1, <1>2, SetInduction
<1> QED BY <1>3 DEF Good

-------------------------------------------------------------------------------
(* The greedy loop.                                                        *)

StrictOrder(order, D) ==
  /\ \A a \in D : <<a, a>> \notin order
  /\ \A a, b, c \in D : <<a, b>> \in order /\ <<b, c>> \in order => <<a, c>> \in order
  /\ \A a, b \in D : a # b => <<a, b>> \in order \/ <<b, a>> \in order

LEMMA LastOne ==
  ASSUME NEW B, IsFiniteSet(B), B # {}, NEW order, StrictOrder(order, B)
  PROVE  \E m \in B : \A x \in B \ {m} : <<x, m>> \in order
<1> DEFINE Good == {T \in SUBSET B : T = {} \/ \E m \in T : \A x \in T \ {m} : <<x, m>> \in order}
<1>1. {} \in Good
  OBVIOUS
<1>2. ASSUME NEW T \in SUBSET B, NEW x \in B \ T, T \in Good PROVE T \cup {x} \in Good
  <2>1. CASE T = {}
    <3>1. \A y \in (T \cup {x}) \ {x} : FALSE
      BY <2>1
    <3> QED BY <3>1
  <2>2. CASE T # {}
    <3>1. PICK m \in T : \A y \in T \ {m} : <<y, m>> \in order
      BY <1>2, <2>2
    <3>2. m \in B /\ x # m
      BY <1>2
    <3>3. CASE <<m, x>> \in order
      <4>1. \A y \in T : <<y, x>> \in order
        BY <3>1, <3>2, <3>3 DEF StrictOrder
      <4>2. \A y \in (T \cup {x}) \ {x} : <<y, x>> \in order
        BY <4>1
      <4> QED BY <4>2
    <3>4. CASE <<x, m>> \in order
      <4>1. \A y \in (T \cup {x}) \ {m} : <<y, m>> \in order
        BY <3>1, <3>4
      <4> QED BY <4>1
    <3> QED BY <3>2, <3>3, <3>4 DEF StrictOrder
  <2> QED BY <2>1, <2>2
<1> HIDE DEF Good
<1>3. B \in Good
  BY <1>1, <1>2, SetInduction
<1> QED BY <1>3 DEF Good

LEMMA LeastAdds ==
  ASSUME NEW w \in Nat, NEW s \in Nat, NEW amount \in Nat
  PROVE  Least(w, Excess(amount, s)) + Least(s, amount) = Least(w + s, amount)
BY DEF Least, Excess

\* One member's part is a natural number within what it wants.
LEMMA GreedyParts ==
  ASSUME NEW D, IsFiniteSet(D), NEW want \in [D -> Nat], NEW order, NEW amount \in Nat
  PROVE  /\ Greedy(want, order, amount) \in [D -> Nat]
         /\ \A i \in D : Greedy(want, order, amount)[i] <= want[i]
<1> DEFINE before(i) == {j \in D : <<j, i>> \in order}
<1>1. Greedy(want, order, amount) =
        [i \in D |-> Least(want[i], Excess(amount, SumFunctionOnSet(want, before(i))))]
  BY DEF Greedy
<1>2. ASSUME NEW i \in D
      PROVE  /\ Least(want[i], Excess(amount, SumFunctionOnSet(want, before(i)))) \in Nat
             /\ Least(want[i], Excess(amount, SumFunctionOnSet(want, before(i)))) <= want[i]
  <2>1. IsFiniteSet(before(i)) /\ \A j \in before(i) : want[j] \in Nat
    BY FS_Subset
  <2>2. SumFunctionOnSet(want, before(i)) \in Nat
    BY <2>1, SumNat
  <2>3. want[i] \in Nat
    OBVIOUS
  <2> HIDE DEF before
  <2> QED BY <2>2, <2>3 DEF Least, Excess
<1> HIDE DEF before
<1> QED BY <1>1, <1>2

\* The loop hands out the amount, or all that is wanted: on every set of members
\* that holds with a member those before it.
LEMMA GreedyPrefix ==
  ASSUME NEW D, IsFiniteSet(D), NEW want \in [D -> Nat], NEW order, StrictOrder(order, D),
         NEW amount \in Nat, NEW B \in SUBSET D,
         \A i \in B : \A j \in D : <<j, i>> \in order => j \in B
  PROVE  SumFunctionOnSet(Greedy(want, order, amount), B) = Least(SumFunctionOnSet(want, B), amount)
<1> DEFINE g == Greedy(want, order, amount)
           Down(T) == \A i \in T : \A j \in D : <<j, i>> \in order => j \in T
           Right(T) == SumFunctionOnSet(g, T) = Least(SumFunctionOnSet(want, T), amount)
           Bad == {T \in SUBSET D : Down(T) /\ ~Right(T)}
<1> SUFFICES ASSUME Bad # {} PROVE FALSE
  OBVIOUS
<1>1. PICK T \in Bad : \A x \in Bad : ~(x \subseteq T /\ x # T)
  <2>1. Bad \in SUBSET SUBSET D
    OBVIOUS
  <2> HIDE DEF Bad
  <2> QED BY <2>1, SmallestSet
<1>2. T \in SUBSET D /\ IsFiniteSet(T) /\ Down(T) /\ ~Right(T)
  BY <1>1, FS_Subset
<1>3. T # {}
  <2>1. SumFunctionOnSet(g, {}) = 0 /\ SumFunctionOnSet(want, {}) = 0
    BY SumEmpty
  <2>2. Right({})
    BY <2>1 DEF Least
  <2> QED BY <1>2, <2>2
<1>4. StrictOrder(order, T)
  BY <1>2 DEF StrictOrder
<1>5. PICK m \in T : \A x \in T \ {m} : <<x, m>> \in order
  BY <1>2, <1>3, <1>4, LastOne
<1> DEFINE U == T \ {m}
<1>6. {j \in D : <<j, m>> \in order} = U
  <2>1. \A j \in D : <<j, m>> \in order => j \in T /\ j # m
    BY <1>2, <1>5 DEF StrictOrder
  <2> QED BY <1>2, <1>5, <2>1
<1>7. U \in SUBSET D /\ IsFiniteSet(U) /\ U # T /\ m \in D /\ m \notin U /\ T = U \cup {m}
  BY <1>2, <1>5, FS_Subset
<1>8. Down(U)
  <2>1. \A i \in U : <<m, i>> \notin order
    <3> SUFFICES ASSUME NEW i \in U, <<m, i>> \in order PROVE FALSE
      OBVIOUS
    <3>1. <<i, m>> \in order /\ i \in D
      BY <1>5, <1>7
    <3>2. <<i, i>> \in order
      BY <1>7, <3>1, Zenon DEF StrictOrder
    <3> QED BY <3>1, <3>2, Zenon DEF StrictOrder
  <2> QED BY <1>2, <2>1
<1>9. Right(U)
  <2> HIDE DEF Right
  <2> QED BY <1>1, <1>7, <1>8
<1> DEFINE s == SumFunctionOnSet(want, U)
           q == SumFunctionOnSet(g, U)
<1>10. \A i \in D : g[i] \in Nat /\ want[i] \in Nat
  BY GreedyParts
<1>11. g[m] = Least(want[m], Excess(amount, s))
  BY <1>6, <1>7 DEF Greedy
<1>12. s \in Nat
  BY <1>7, <1>10, SumNat
<1> HIDE DEF g
<1>13. SumFunctionOnSet(g, T) = g[m] + q
  <2>1. \A x \in U \cup {m} : g[x] \in Int
    BY <1>7, <1>10
  <2> HIDE DEF U
  <2> QED BY <1>7, <2>1, SumAdd
<1>14. SumFunctionOnSet(want, T) = want[m] + s
  <2>1. \A x \in U \cup {m} : want[x] \in Int
    BY <1>7, <1>10
  <2> HIDE DEF U
  <2> QED BY <1>7, <2>1, SumAdd
<1>15. q = Least(s, amount)
  BY <1>9
<1>16. want[m] \in Nat
  BY <1>7, <1>10
<1> HIDE DEF s, q
<1>17. SumFunctionOnSet(g, T) = Least(want[m] + s, amount)
  BY <1>11, <1>12, <1>13, <1>15, <1>16, LeastAdds
<1> QED BY <1>2, <1>14, <1>17

LEMMA GreedyTotal ==
  ASSUME NEW D, IsFiniteSet(D), NEW want \in [D -> Nat], NEW order, StrictOrder(order, D),
         NEW amount \in Nat
  PROVE  Total(Greedy(want, order, amount)) = Least(Total(want), amount)
<1>1. DOMAIN want = D /\ DOMAIN Greedy(want, order, amount) = D
  BY DEF Greedy
<1>2. SumFunctionOnSet(Greedy(want, order, amount), D) = Least(SumFunctionOnSet(want, D), amount)
  BY GreedyPrefix
<1> QED BY <1>1, <1>2 DEF Total

\* A member that gets less than it wants leaves nothing for those after it.
LEMMA GreedyPriority ==
  ASSUME NEW D, IsFiniteSet(D), NEW want \in [D -> Nat], NEW order, StrictOrder(order, D),
         NEW amount \in Nat, NEW a \in D, NEW b \in D, <<a, b>> \in order,
         Greedy(want, order, amount)[a] < want[a]
  PROVE  Greedy(want, order, amount)[b] = 0
<1> DEFINE before(i) == {j \in D : <<j, i>> \in order}
           sum(T) == SumFunctionOnSet(want, T)
<1>1. /\ Greedy(want, order, amount)[a] = Least(want[a], Excess(amount, sum(before(a))))
      /\ Greedy(want, order, amount)[b] = Least(want[b], Excess(amount, sum(before(b))))
  BY DEF Greedy
<1>2. before(a) \cup {a} \in SUBSET before(b) /\ a \notin before(a)
  BY Zenon DEF StrictOrder
<1>3. IsFiniteSet(before(a)) /\ IsFiniteSet(before(b)) /\ \A j \in D : want[j] \in Nat
  BY FS_Subset
<1>4. sum(before(a) \cup {a}) = want[a] + sum(before(a))
  <2>1. \A x \in before(a) \cup {a} : want[x] \in Int
    BY <1>3
  <2> HIDE DEF before
  <2> QED BY <1>2, <1>3, <2>1, SumAdd
<1>5. sum(before(a)) \in Nat /\ sum(before(b)) \in Nat
  BY <1>3, SumNat
<1>6. sum(before(a) \cup {a}) <= sum(before(b))
  <2>1. \A x \in before(b) : want[x] \in Nat
    BY <1>3
  <2> HIDE DEF before
  <2> QED BY <1>2, <1>3, <2>1, SumSubset
<1>7. want[a] \in Nat /\ want[b] \in Nat
  OBVIOUS
<1> HIDE DEF sum, before
<1>8. Least(want[a], Excess(amount, sum(before(a)))) < want[a]
  BY <1>1
<1>9. amount < want[a] + sum(before(a))
  BY <1>5, <1>7, <1>8 DEF Least, Excess
<1> QED BY <1>1, <1>4, <1>5, <1>6, <1>7, <1>9 DEF Least, Excess

-------------------------------------------------------------------------------
(* Largest remainders.                                                     *)

LEMMA DivMod ==
  ASSUME NEW a \in Nat, NEW b \in Nat \ {0}
  PROVE  a = b * (a \div b) + (a % b) /\ a % b \in 0..(b - 1) /\ a \div b \in Nat
OBVIOUS

LEMMA LessFactor ==
  ASSUME NEW w \in Nat \ {0}, NEW l \in Int, NEW n \in Int, w * l < n * w
  PROVE  l < n
OBVIOUS

LEMMA SignOfFactor ==
  ASSUME NEW w \in Nat \ {0}, NEW l \in Int, w * l >= 0
  PROVE  l >= 0
OBVIOUS

LEMMA FewerProducts ==
  ASSUME NEW w \in Nat \ {0}, NEW l \in Nat, NEW p \in Nat, p < l
  PROVE  p * (w - 1) < w * l
OBVIOUS

\* Competitors as the engine builds them: at least one, with a positive weight each.
Competing(c) ==
  /\ IsFiniteSet(DOMAIN c) /\ DOMAIN c # {} /\ DOMAIN c \subseteq Int
  /\ \A i \in DOMAIN c : c[i].weight \in Nat \ {0} /\ c[i].floor \in Nat /\ c[i].rank \in Int

LEMMA WeightSumPositive ==
  ASSUME NEW c, Competing(c)
  PROVE  WeightSum(c) \in Nat \ {0}
<1> DEFINE D == DOMAIN c
           w == [i \in D |-> c[i].weight]
<1>1. IsFiniteSet(D) /\ D # {} /\ \A i \in D : w[i] \in Nat /\ w[i] >= 1
  BY DEF Competing
<1>2. WeightSum(c) = SumFunctionOnSet(w, D)
  BY DEF WeightSum, Total
<1>3. PICK a \in D : TRUE
  BY <1>1
<1>4. IsFiniteSet(D \ {a})
  BY <1>1, FS_Subset
<1> HIDE DEF w, D
<1>5. SumFunctionOnSet(w, D) = w[a] + SumFunctionOnSet(w, D \ {a})
  BY <1>1, SumRemove
<1>6. SumFunctionOnSet(w, D \ {a}) \in Nat
  BY <1>1, <1>4, SumNat
<1>7. w[a] \in Nat /\ w[a] >= 1
  BY <1>1
<1> QED BY <1>2, <1>5, <1>6, <1>7

\* The exact share of a member is its rounded one and its residue.
LEMMA ExactShare ==
  ASSUME NEW c, Competing(c), NEW amount \in Nat, NEW i \in DOMAIN c
  PROVE  /\ Shares(c, amount)[i] \in Nat
         /\ Residues(c, amount)[i] \in 0..(WeightSum(c) - 1)
         /\ amount * c[i].weight = WeightSum(c) * Shares(c, amount)[i] + Residues(c, amount)[i]
<1>1. WeightSum(c) \in Nat \ {0}
  BY WeightSumPositive
<1>2. amount * c[i].weight \in Nat
  BY DEF Competing
<1>3. /\ Shares(c, amount)[i] = (amount * c[i].weight) \div WeightSum(c)
      /\ Residues(c, amount)[i] = (amount * c[i].weight) % WeightSum(c)
  BY DEF Shares, Residues
<1> QED BY <1>1, <1>2, <1>3, DivMod

\* What rounding down leaves, times the sum of the weights, is the sum of the
\* residues; so it is less than a unit for each member.
LEMMA Rounding ==
  ASSUME NEW c, Competing(c), NEW amount \in Nat
  PROVE  /\ amount - Total(Shares(c, amount)) \in 0..(Cardinality(DOMAIN c) - 1)
         /\ WeightSum(c) * (amount - Total(Shares(c, amount))) = Total(Residues(c, amount))
         /\ Total(Shares(c, amount)) \in Nat
<1> DEFINE D == DOMAIN c
           W == WeightSum(c)
           share == Shares(c, amount)
           residue == Residues(c, amount)
           weight == [i \in D |-> c[i].weight]
           exact == [i \in D |-> amount * weight[i]]
           whole == [i \in D |-> W * share[i]]
           bound == [i \in D |-> W - 1]
           ones == [i \in D |-> 1]
           n == Cardinality(D)
<1>1. IsFiniteSet(D) /\ D # {} /\ W \in Nat \ {0} /\ n \in Nat
  BY WeightSumPositive, FS_CardinalityType DEF Competing
<1>2. \A i \in D : /\ weight[i] \in Int /\ share[i] \in Nat /\ residue[i] \in 0..(W - 1)
                   /\ exact[i] = whole[i] + residue[i]
  BY ExactShare DEF Competing
<1>3. DOMAIN share = D /\ DOMAIN residue = D /\ W = SumFunctionOnSet(weight, D)
  BY DEF Shares, Residues, WeightSum, Total
<1>4. \A i \in D : exact[i] = amount * weight[i] /\ whole[i] = W * share[i] /\ bound[i] = W - 1 /\ ones[i] = 1
  OBVIOUS
<1> HIDE DEF W, share, residue, weight, exact, whole, bound, ones, n, D
<1>5. SumFunctionOnSet(exact, D) = amount * W
  BY <1>1, <1>2, <1>3, <1>4, SumScaled
<1>6. SumFunctionOnSet(whole, D) = W * SumFunctionOnSet(share, D)
  BY <1>1, <1>2, <1>4, SumScaled
<1>7. \A i \in D : whole[i] \in Int /\ residue[i] \in Int
  BY <1>1, <1>2, <1>4
<1>8. SumFunctionOnSet(exact, D) = SumFunctionOnSet(whole, D) + SumFunctionOnSet(residue, D)
  BY <1>1, <1>2, <1>7, SumPointwise
<1> DEFINE s == SumFunctionOnSet(share, D)
           r == SumFunctionOnSet(residue, D)
<1>9. s \in Nat /\ r \in Nat
  BY <1>1, <1>2, SumNat
<1>10. r <= n * (W - 1)
  <2>1. SumFunctionOnSet(ones, D) = n
    BY <1>1, <1>4, SumOnes DEF n
  <2>2. SumFunctionOnSet(bound, D) = (W - 1) * n
    <3> DEFINE k == W - 1
    <3>1. k \in Int /\ \A i \in D : ones[i] \in Int /\ bound[i] = k * ones[i]
      BY <1>1, <1>4
    <3> HIDE DEF k
    <3>2. SumFunctionOnSet(bound, D) = k * SumFunctionOnSet(ones, D)
      BY <1>1, <3>1, SumScaled
    <3> QED BY <2>1, <3>2 DEF k
  <2>3. \A i \in D : residue[i] \in Int /\ bound[i] \in Int /\ residue[i] <= bound[i]
    BY <1>1, <1>2, <1>4
  <2>4. r <= SumFunctionOnSet(bound, D)
    BY <1>1, <2>3, SumOrdered
  <2> HIDE DEF r
  <2> QED BY <1>1, <2>2, <2>4
<1>11. n > 0
  BY <1>1, FS_EmptySet DEF n
<1>12. amount * W = W * s + r
  BY <1>5, <1>6, <1>8
<1> HIDE DEF s, r
<1>13. W * (amount - s) = r
  BY <1>1, <1>9, <1>12
<1>14. amount - s >= 0
  BY <1>1, <1>9, <1>13, SignOfFactor
<1>15. amount - s < n
  <2>1. n * (W - 1) < n * W
    BY <1>1, <1>11
  <2>2. n * (W - 1) \in Int /\ n * W \in Int
    BY <1>1
  <2>3. W * (amount - s) < n * W
    BY <1>9, <1>10, <1>13, <2>1, <2>2
  <2> QED BY <1>1, <1>9, <2>3, LessFactor
<1> QED BY <1>1, <1>3, <1>9, <1>13, <1>14, <1>15 DEF s, r, W, share, residue, D, n, Total

\* Each member gets at most one unit of what rounding left, together they get
\* all of it, and it goes to members that rounding cost something.
LEMMA Remainders ==
  ASSUME NEW c, Competing(c), NEW amount \in Nat
  PROVE  /\ LargestRemainder(c, amount) \in [DOMAIN c -> {0, 1}]
         /\ Total(LargestRemainder(c, amount)) = amount - Total(Shares(c, amount))
         /\ \A i \in DOMAIN c : LargestRemainder(c, amount)[i] = 1 => Residues(c, amount)[i] > 0
<1> DEFINE D == DOMAIN c
           W == WeightSum(c)
           residue == Residues(c, amount)
           left == amount - Total(Shares(c, amount))
           extra == LargestRemainder(c, amount)
           order == {o \in D \X D : residue[o[1]] > residue[o[2]] \/ (residue[o[1]] = residue[o[2]] /\ o[1] < o[2])}
           ones == [i \in D |-> 1]
           ahead(i) == LargerResidues(residue, i)
           n == Cardinality(D)
<1>1. IsFiniteSet(D) /\ W \in Nat \ {0} /\ n \in Nat /\ \A i \in D : i \in Int
  BY WeightSumPositive, FS_CardinalityType DEF Competing
<1>2. left \in 0..(n - 1) /\ left \in Nat /\ W * left = SumFunctionOnSet(residue, D)
  <2>1. left \in 0..(n - 1) /\ W * left = Total(residue)
    BY Rounding
  <2>2. DOMAIN residue = D
    BY DEF Residues
  <2> QED BY <2>1, <2>2 DEF Total
<1>3. \A i \in D : residue[i] \in 0..(W - 1) /\ residue[i] \in Int
  <2>1. \A i \in D : residue[i] \in 0..(W - 1)
    BY ExactShare
  <2> HIDE DEF residue, W
  <2> QED BY <1>1, <2>1
<1>4. DOMAIN residue = D /\ extra = [i \in D |-> IF Cardinality(ahead(i)) < left THEN 1 ELSE 0]
  BY DEF Residues, LargestRemainder
<1>5. \A i \in D : ahead(i) = {j \in D : residue[j] > residue[i] \/ (residue[j] = residue[i] /\ j < i)}
  BY <1>4 DEF LargerResidues
<1> HIDE DEF W, residue, left, extra, ahead, n, D
<1>6. StrictOrder(order, D)
  BY <1>1, <1>3 DEF StrictOrder
<1>7. \A i \in D : ahead(i) = {j \in D : <<j, i>> \in order}
  BY <1>5
<1> HIDE DEF order
<1>8. ones \in [D -> Nat] /\ \A i \in D : ones[i] = 1
  OBVIOUS
<1> HIDE DEF ones
<1>9. \A i \in D : /\ IsFiniteSet(ahead(i)) /\ Cardinality(ahead(i)) \in Nat
                   /\ SumFunctionOnSet(ones, ahead(i)) = Cardinality(ahead(i))
  <2> TAKE i \in D
  <2>1. IsFiniteSet(ahead(i)) /\ ahead(i) \subseteq D
    BY <1>1, <1>7, FS_Subset
  <2> QED BY <1>8, <2>1, SumOnes, FS_CardinalityType
<1>10. extra = Greedy(ones, order, left)
  <2>1. Greedy(ones, order, left) = [i \in D |-> Least(1, Excess(left, Cardinality(ahead(i))))]
    <3>1. DOMAIN ones = D
      BY <1>8
    <3>2. Greedy(ones, order, left) =
            [i \in D |-> Least(ones[i], Excess(left, SumFunctionOnSet(ones, {j \in D : <<j, i>> \in order})))]
      BY <3>1 DEF Greedy
    <3> QED BY <1>7, <1>8, <1>9, <3>2
  <2>2. \A i \in D : Least(1, Excess(left, Cardinality(ahead(i)))) =
                       IF Cardinality(ahead(i)) < left THEN 1 ELSE 0
    BY <1>2, <1>9 DEF Least, Excess
  <2> QED BY <1>4, <2>1, <2>2
<1>11. Total(extra) = left
  <2>1. Total(ones) = n
    BY <1>1, <1>8, SumOnes DEF Total, n
  <2>2. Total(extra) = Least(n, left)
    BY <1>1, <1>2, <1>6, <1>8, <1>10, <2>1, GreedyTotal
  <2> QED BY <1>1, <1>2, <2>2 DEF Least
<1>12. ASSUME NEW i \in D, extra[i] = 1, ~(residue[i] > 0) PROVE FALSE
  <2> DEFINE P == {j \in D : residue[j] > 0}
             p == Cardinality(ahead(i))
             bound == [j \in D |-> IF j \in P THEN W - 1 ELSE 0]
             small == [j \in D |-> W - 1]
  <2>1. p < left /\ p \in Nat
    BY <1>4, <1>9, <1>12
  <2>2. P \subseteq ahead(i) /\ IsFiniteSet(P) /\ IsFiniteSet(D \ P)
    <3>1. \A j \in P : j \in D /\ residue[j] > residue[i]
      BY <1>3, <1>12
    <3> QED BY <1>1, <1>5, <3>1, FS_Subset
  <2>3. Cardinality(P) <= p /\ Cardinality(P) \in Nat
    BY <1>9, <2>2, FS_Subset, FS_CardinalityType
  <2>4. SumFunctionOnSet(residue, D) = SumFunctionOnSet(residue, P) + SumFunctionOnSet(residue, D \ P)
    <3>1. P \cup (D \ P) = D /\ P \cap (D \ P) = {}
      OBVIOUS
    <3> HIDE DEF P
    <3> QED BY <1>3, <2>2, <3>1, SumUnion
  <2>5. SumFunctionOnSet(residue, D \ P) = 0
    <3> DEFINE zero == [j \in D |-> 0]
    <3>1. \A j \in D \ P : residue[j] \in Int /\ zero[j] = 0 * residue[j] /\ residue[j] = zero[j] /\ zero[j] \in Int
      BY <1>1, <1>3
    <3> HIDE DEF zero, P
    <3>2. SumFunctionOnSet(zero, D \ P) = 0 * SumFunctionOnSet(residue, D \ P)
      BY <2>2, <3>1, SumScaled
    <3>3. SumFunctionOnSet(residue, D \ P) = SumFunctionOnSet(zero, D \ P)
      BY <2>2, <3>1, SumSame
    <3>4. SumFunctionOnSet(residue, D \ P) \in Int
      BY <2>2, <3>1, SumInt
    <3> QED BY <3>2, <3>3, <3>4
  <2>6. SumFunctionOnSet(residue, P) <= (W - 1) * Cardinality(P)
    <3>1. \A j \in P : ones[j] \in Int /\ small[j] = (W - 1) * ones[j] /\ W - 1 \in Int
      BY <1>1, <1>8
    <3>2. \A j \in P : residue[j] \in Int /\ small[j] \in Int /\ residue[j] <= small[j]
      BY <1>1, <1>3
    <3>3. SumFunctionOnSet(ones, P) = Cardinality(P)
      BY <1>8, <2>2, SumOnes
    <3>4. W - 1 \in Int
      BY <1>1
    <3> HIDE DEF small, P
    <3>5. SumFunctionOnSet(small, P) = (W - 1) * Cardinality(P)
      BY <2>2, <3>1, <3>3, <3>4, SumScaled
    <3>6. SumFunctionOnSet(residue, P) <= SumFunctionOnSet(small, P)
      BY <2>2, <3>2, SumOrdered
    <3> QED BY <3>5, <3>6
  <2>7. SumFunctionOnSet(residue, P) \in Int
    BY <1>3, <2>2, SumInt
  <2>8. W * left <= (W - 1) * Cardinality(P)
    BY <1>2, <2>4, <2>5, <2>6, <2>7
  <2> DEFINE q == Cardinality(P)
  <2> HIDE DEF p, q
  <2>9. q \in Nat /\ q < left
    BY <1>2, <2>1, <2>3 DEF q
  <2>10. q * (W - 1) < W * left
    BY <1>1, <1>2, <2>9, FewerProducts
  <2>11. W * left <= (W - 1) * q
    BY <2>8 DEF q
  <2>12. (W - 1) * q = q * (W - 1) /\ q * (W - 1) \in Int /\ W * left \in Int
    BY <1>1, <1>2, <2>9
  <2> QED BY <2>10, <2>11, <2>12
<1>13. extra \in [D -> {0, 1}]
  BY <1>4
<1> QED BY <1>11, <1>12, <1>13 DEF extra, left, residue, D

-------------------------------------------------------------------------------
(* allocate_whole.                                                         *)

LEMMA ZeroTotal ==
  ASSUME NEW D, IsFiniteSet(D), NEW f \in [D -> Nat], Total(f) = 0, NEW i \in D
  PROVE  f[i] = 0
<1>1. \A x \in D : f[x] \in Int
  OBVIOUS
<1>2. SumFunctionOnSet(f, D) = f[i] + SumFunctionOnSet(f, D \ {i})
  BY <1>1, SumRemove
<1>3. SumFunctionOnSet(f, D \ {i}) \in Nat
  BY FS_Subset, SumNat
<1>4. SumFunctionOnSet(f, D) = 0 /\ f[i] \in Nat
  BY DEF Total
<1> QED BY <1>2, <1>3, <1>4

\* Two ways of comparing that the engine breaks ties by key with are strict orders.
LEMMA DonorsOrdered ==
  ASSUME NEW c, Competing(c), NEW slack \in [DOMAIN c -> Nat]
  PROVE  StrictOrder({o \in (DOMAIN c) \X (DOMAIN c) : DonatesBefore(c, slack, o[1], o[2])}, DOMAIN c)
<1>1. \A i \in DOMAIN c : i \in Int /\ c[i].rank \in Int /\ slack[i] \in Int
  BY DEF Competing
<1> DEFINE D == DOMAIN c
           R(i) == c[i].rank
           order == {o \in D \X D : DonatesBefore(c, slack, o[1], o[2])}
<1>2. \A a, b \in D : <<a, b>> \in order <=>
        \/ slack[a] > slack[b]
        \/ slack[a] = slack[b] /\ R(a) < R(b)
        \/ slack[a] = slack[b] /\ R(a) = R(b) /\ a < b
  BY DEF DonatesBefore
<1>3. \A i \in D : i \in Int /\ R(i) \in Int /\ slack[i] \in Int
  BY <1>1
<1> HIDE DEF order, R, D
<1>4. StrictOrder(order, D)
  BY <1>2, <1>3 DEF StrictOrder
<1> QED BY <1>4 DEF order, D

LEMMA ServingOrdered ==
  ASSUME NEW c, Competing(c)
  PROVE  StrictOrder({o \in (DOMAIN c) \X (DOMAIN c) : ServedBefore(c, o[1], o[2])}, DOMAIN c)
<1> DEFINE D == DOMAIN c
           R(i) == c[i].rank
           F(i) == c[i].floor
           order == {o \in D \X D : ServedBefore(c, o[1], o[2])}
<1>2. \A a, b \in D : <<a, b>> \in order <=>
        \/ R(a) > R(b)
        \/ R(a) = R(b) /\ F(a) > F(b)
        \/ R(a) = R(b) /\ F(a) = F(b) /\ a < b
  BY DEF ServedBefore
<1>3. \A i \in D : i \in Int /\ R(i) \in Int /\ F(i) \in Int
  BY DEF Competing
<1> HIDE DEF order, R, F, D
<1>4. StrictOrder(order, D)
  BY <1>2, <1>3 DEF StrictOrder
<1> QED BY <1>4 DEF order, D

\* The shares raised to the floors out of the slack: nothing is created or lost,
\* no donor falls below its own floor, and nothing moves when no floor is short.
LEMMA Moved ==
  ASSUME NEW c, Competing(c), NEW share \in [DOMAIN c -> Nat], FloorsFit(c, share)
  PROVE  /\ Reallocated(c, share) \in [DOMAIN c -> Nat]
         /\ Total(Reallocated(c, share)) = Total(share)
         /\ \A i \in DOMAIN c : Reallocated(c, share)[i] >= c[i].floor
         /\ Total(Need(c, share)) = 0 => Reallocated(c, share) = share
<1> DEFINE D == DOMAIN c
           F(i) == c[i].floor
           need == Need(c, share)
           slack == Slack(c, share)
           order == {o \in D \X D : DonatesBefore(c, slack, o[1], o[2])}
           given == Greedy(slack, order, Total(need))
           moved == Reallocated(c, share)
           raised == [i \in D |-> share[i] + need[i]]
<1>1. IsFiniteSet(D) /\ \A i \in D : F(i) \in Nat /\ share[i] \in Nat
  BY DEF Competing
<1>2. need = [i \in D |-> Excess(F(i), share[i])] /\ slack = [i \in D |-> Excess(share[i], F(i))]
  BY DEF Need, Slack
<1>3. moved = [i \in D |-> share[i] + need[i] - given[i]]
  BY DEF Reallocated
<1>4. need \in [D -> Nat] /\ slack \in [D -> Nat]
  <2> HIDE DEF F
  <2> QED BY <1>1, <1>2 DEF Excess
<1>5. StrictOrder(order, D)
  BY <1>4, DonorsOrdered
<1> HIDE DEF need, slack, order
<1>6. Total(need) \in Nat /\ Total(slack) \in Nat
  BY <1>1, <1>4, SumNat DEF Total
<1>7. Total(need) <= Total(slack)
  BY DEF FloorsFit, need, slack
<1>8. given \in [D -> Nat] /\ \A i \in D : given[i] <= slack[i]
  BY <1>1, <1>4, <1>6, GreedyParts
<1>9. Total(given) = Total(need)
  <2>1. Total(given) = Least(Total(slack), Total(need))
    BY <1>1, <1>4, <1>5, <1>6, GreedyTotal
  <2> QED BY <1>6, <1>7, <2>1 DEF Least
<1>10. Total(need) = 0 => \A i \in D : given[i] = 0 /\ need[i] = 0
  <2> SUFFICES ASSUME Total(need) = 0 PROVE \A i \in D : given[i] = 0 /\ need[i] = 0
    OBVIOUS
  <2> HIDE DEF given
  <2> QED BY <1>1, <1>4, <1>8, <1>9, ZeroTotal
<1> HIDE DEF given, moved, F, D
<1>11. ASSUME NEW i \in D
       PROVE  moved[i] \in Nat /\ moved[i] >= F(i) /\ moved[i] = share[i] + need[i] - given[i]
  <2>1. /\ need[i] = Excess(F(i), share[i]) /\ given[i] <= Excess(share[i], F(i))
        /\ moved[i] = share[i] + need[i] - given[i]
    BY <1>2, <1>3, <1>8
  <2>2. F(i) \in Nat /\ share[i] \in Nat /\ given[i] \in Nat
    BY <1>1, <1>8
  <2> QED BY <2>1, <2>2 DEF Excess
<1>12. moved \in [D -> Nat]
  <2>1. DOMAIN moved = D /\ moved = [i \in D |-> moved[i]]
    BY <1>3
  <2> QED BY <1>11, <2>1
<1>13. Total(moved) = Total(share)
  <2>0. \A i \in D : raised[i] = share[i] + need[i]
    OBVIOUS
  <2> HIDE DEF raised
  <2>1. \A i \in D : share[i] \in Int /\ need[i] \in Int /\ given[i] \in Int /\ moved[i] \in Int
    BY <1>1, <1>4, <1>8, <1>12
  <2>2. SumFunctionOnSet(raised, D) = SumFunctionOnSet(share, D) + SumFunctionOnSet(need, D)
    BY <1>1, <2>0, <2>1, SumPointwise
  <2>3. \A i \in D : raised[i] = moved[i] + given[i]
    BY <1>11, <2>0, <2>1
  <2>4. SumFunctionOnSet(raised, D) = SumFunctionOnSet(moved, D) + SumFunctionOnSet(given, D)
    BY <1>1, <2>1, <2>3, SumPointwise
  <2>5. SumFunctionOnSet(given, D) = SumFunctionOnSet(need, D)
    BY <1>4, <1>8, <1>9 DEF Total
  <2>6. SumFunctionOnSet(share, D) \in Int /\ SumFunctionOnSet(need, D) \in Int /\ SumFunctionOnSet(moved, D) \in Int
    BY <1>1, <2>1, SumInt
  <2>7. SumFunctionOnSet(moved, D) = SumFunctionOnSet(share, D)
    BY <2>2, <2>4, <2>5, <2>6
  <2>8. DOMAIN share = D /\ DOMAIN moved = D
    BY <1>12 DEF D
  <2> QED BY <2>7, <2>8 DEF Total
<1>14. Total(need) = 0 => moved = share
  <2> SUFFICES ASSUME Total(need) = 0 PROVE moved = share
    OBVIOUS
  <2>1. \A i \in D : moved[i] = share[i]
    BY <1>1, <1>10, <1>11
  <2>2. DOMAIN share = D
    BY DEF D
  <2> QED BY <1>12, <2>1, <2>2
<1> QED BY <1>11, <1>12, <1>13, <1>14 DEF moved, need, D, F

\* A rest split by weight on top of what was granted.
LEMMA ToppedUp ==
  ASSUME NEW c, Competing(c), NEW granted \in [DOMAIN c -> Nat], NEW rest \in Nat
  PROVE  /\ Topped(c, granted, rest) \in [DOMAIN c -> Nat]
         /\ Total(Topped(c, granted, rest)) = Total(granted) + rest
         /\ \A i \in DOMAIN c : Topped(c, granted, rest)[i] >= granted[i]
         /\ rest = 0 => \A i \in DOMAIN c : Topped(c, granted, rest)[i] = granted[i]
<1> DEFINE D == DOMAIN c
           share == Shares(c, rest)
           extra == LargestRemainder(c, rest)
           top == Topped(c, granted, rest)
           part == [i \in D |-> share[i] + extra[i]]
<1>1. IsFiniteSet(D)
  BY DEF Competing
<1>2. share \in [D -> Nat]
  <2>1. \A i \in D : share[i] \in Nat
    BY ExactShare
  <2>2. share = [i \in D |-> share[i]]
    BY DEF Shares
  <2> HIDE DEF share
  <2> QED BY <2>1, <2>2
<1>3. extra \in [D -> {0, 1}] /\ Total(extra) = rest - Total(share) /\ rest - Total(share) \in Nat /\ Total(share) \in Nat
  <2>1. rest - Total(share) \in 0..(Cardinality(D) - 1)
    BY Rounding
  <2>2. Cardinality(D) \in Nat
    BY <1>1, FS_CardinalityType
  <2>3. rest - Total(share) \in Nat
    <3> HIDE DEF share, D
    <3> QED BY <2>1, <2>2
  <2> QED BY <2>3, Remainders, Rounding
<1>4. top = [i \in D |-> granted[i] + share[i] + extra[i]]
  BY DEF Topped
<1> HIDE DEF share, extra, top, D
<1>5. granted \in [D -> Nat] /\ extra \in [D -> Nat] /\ part \in [D -> Nat]
  BY <1>2, <1>3 DEF D
<1>6. \A i \in D : part[i] = share[i] + extra[i]
  OBVIOUS
<1> HIDE DEF part
<1>7. top \in [D -> Nat] /\ \A i \in D : top[i] = granted[i] + part[i]
  <2>1. \A i \in D : granted[i] \in Nat /\ share[i] \in Nat /\ extra[i] \in Nat
    BY <1>2, <1>5
  <2>2. \A i \in D : top[i] = granted[i] + share[i] + extra[i]
    BY <1>4
  <2>3. \A i \in D : top[i] \in Nat /\ top[i] = granted[i] + part[i]
    BY <1>6, <2>1, <2>2
  <2>4. top = [i \in D |-> top[i]]
    BY <1>4
  <2> QED BY <2>3, <2>4
<1>8. Total(top) = Total(granted) + rest
  <2>1. \A i \in D : /\ granted[i] \in Int /\ part[i] \in Int /\ share[i] \in Int /\ extra[i] \in Int
                     /\ top[i] = granted[i] + part[i] /\ part[i] = share[i] + extra[i]
    BY <1>2, <1>5, <1>6, <1>7
  <2>2. SumFunctionOnSet(top, D) = SumFunctionOnSet(granted, D) + SumFunctionOnSet(part, D)
    BY <1>1, <2>1, SumPointwise
  <2>3. SumFunctionOnSet(part, D) = SumFunctionOnSet(share, D) + SumFunctionOnSet(extra, D)
    BY <1>1, <2>1, SumPointwise
  <2>4. DOMAIN top = D /\ DOMAIN granted = D /\ DOMAIN share = D /\ DOMAIN extra = D
    BY <1>2, <1>5, <1>7
  <2>5. SumFunctionOnSet(part, D) = rest
    BY <1>3, <2>3, <2>4 DEF Total
  <2> QED BY <2>2, <2>4, <2>5 DEF Total
<1>9. \A i \in D : top[i] >= granted[i]
  <2>1. \A i \in D : granted[i] \in Nat /\ part[i] \in Nat
    BY <1>5
  <2> QED BY <1>7, <2>1
<1>10. rest = 0 => \A i \in D : top[i] = granted[i]
  <2> SUFFICES ASSUME rest = 0, NEW i \in D PROVE top[i] = granted[i]
    OBVIOUS
  <2>1. Total(share) = 0 /\ Total(extra) = 0
    BY <1>3
  <2>2. share[i] = 0 /\ extra[i] = 0
    BY <1>1, <1>2, <1>5, <2>1, ZeroTotal
  <2>3. granted[i] \in Nat
    BY <1>5
  <2> QED BY <1>6, <1>7, <2>2, <2>3
<1> QED BY <1>7, <1>8, <1>9, <1>10 DEF top, D

\* Floors granted in obligation order: the whole is handed out, and nobody of
\* weaker obligation gets a unit while a floor is short.
LEMMA Overcommits ==
  ASSUME NEW c, Competing(c), NEW amount \in Nat
  PROVE  /\ Overcommitted(c, amount) \in [DOMAIN c -> Nat]
         /\ Total(Overcommitted(c, amount)) = amount
         /\ \A a, b \in DOMAIN c :
              c[a].rank > c[b].rank /\ Overcommitted(c, amount)[a] < c[a].floor
                => Overcommitted(c, amount)[b] = 0
<1> DEFINE D == DOMAIN c
           floors == [i \in D |-> c[i].floor]
           order == {o \in D \X D : ServedBefore(c, o[1], o[2])}
           granted == Greedy(floors, order, amount)
           rest == amount - Total(granted)
           all == Overcommitted(c, amount)
<1>1. IsFiniteSet(D) /\ floors \in [D -> Nat] /\ \A i \in D : floors[i] = c[i].floor
  BY DEF Competing
<1>2. StrictOrder(order, D)
  BY ServingOrdered
<1>3. all = Topped(c, granted, rest)
  BY DEF Overcommitted
<1>4. \A a, b \in D : c[a].rank > c[b].rank => <<a, b>> \in order
  BY DEF ServedBefore
<1> HIDE DEF floors, order
<1>5. granted \in [D -> Nat] /\ \A i \in D : granted[i] <= floors[i]
  BY <1>1, GreedyParts
<1>6. Total(granted) = Least(Total(floors), amount) /\ Total(floors) \in Nat
  BY <1>1, <1>2, GreedyTotal, SumNat DEF Total
<1>7. rest \in Nat /\ Total(granted) \in Nat
  <2> HIDE DEF granted
  <2> QED BY <1>6 DEF Least
<1>8. /\ all \in [D -> Nat] /\ Total(all) = Total(granted) + rest
      /\ \A i \in D : all[i] >= granted[i]
      /\ rest = 0 => \A i \in D : all[i] = granted[i]
  <2> HIDE DEF granted, rest
  <2> QED BY <1>3, <1>5, <1>7, ToppedUp
<1>9. Total(all) = amount
  <2> HIDE DEF granted, all
  <2> QED BY <1>7, <1>8
<1>10. ASSUME NEW a \in D, NEW b \in D, c[a].rank > c[b].rank, all[a] < c[a].floor
       PROVE  all[b] = 0
  <2>1. granted[a] < floors[a]
    <3>1. all[a] \in Nat /\ granted[a] \in Nat /\ granted[a] <= all[a] /\ floors[a] \in Nat /\ all[a] < floors[a]
      BY <1>1, <1>5, <1>8, <1>10
    <3> HIDE DEF granted, all
    <3> QED BY <3>1
  <2>2. granted[b] = 0
    <3>1. <<a, b>> \in order
      BY <1>4, <1>10
    <3> HIDE DEF D
    <3> QED BY <1>1, <1>2, <2>1, <3>1, GreedyPriority
  <2>3. Total(granted) < Total(floors)
    <3> HIDE DEF granted
    <3>0. DOMAIN granted = D /\ DOMAIN floors = D /\ IsFiniteSet(D \ {a})
      BY <1>1, <1>5, FS_Subset
    <3>1. \A i \in D : granted[i] \in Int /\ floors[i] \in Int /\ granted[i] <= floors[i]
      BY <1>1, <1>5
    <3>2. /\ SumFunctionOnSet(granted, D) = granted[a] + SumFunctionOnSet(granted, D \ {a})
          /\ SumFunctionOnSet(floors, D) = floors[a] + SumFunctionOnSet(floors, D \ {a})
      BY <1>1, <3>1, SumRemove
    <3>3. SumFunctionOnSet(granted, D \ {a}) <= SumFunctionOnSet(floors, D \ {a})
      BY <3>0, <3>1, SumOrdered
    <3>4. SumFunctionOnSet(granted, D \ {a}) \in Int /\ SumFunctionOnSet(floors, D \ {a}) \in Int
      BY <3>0, <3>1, SumInt
    <3>5. granted[a] \in Int /\ floors[a] \in Int
      BY <3>1
    <3>6. SumFunctionOnSet(granted, D) < SumFunctionOnSet(floors, D)
      BY <2>1, <3>2, <3>3, <3>4, <3>5
    <3> QED BY <3>0, <3>6 DEF Total
  <2>4. rest = 0
    <3> HIDE DEF granted
    <3> QED BY <1>6, <1>7, <2>3 DEF Least
  <2> QED BY <1>8, <2>2, <2>4
<1> QED BY <1>8, <1>9, <1>10 DEF all, D

\* What allocate_whole promises for one level.
Splits(c, amount, r) ==
  /\ r.allocations \in [DOMAIN c -> Nat]
  /\ Total(r.allocations) = amount
  /\ ~r.overcommit => \A i \in DOMAIN c : r.allocations[i] >= c[i].floor
  /\ r.overcommit => \A a, b \in DOMAIN c :
       c[a].rank > c[b].rank /\ r.allocations[a] < c[a].floor => r.allocations[b] = 0
  /\ Total(Need(c, Shares(c, amount))) = 0 =>
       \A i \in DOMAIN c :
         /\ -WeightSum(c) < r.allocations[i] * WeightSum(c) - amount * c[i].weight
         /\ r.allocations[i] * WeightSum(c) - amount * c[i].weight < WeightSum(c)

LEMMA QuotaError ==
  ASSUME NEW W \in Nat \ {0}, NEW s \in Nat, NEW r \in 0..(W - 1), NEW e \in {0, 1}, e = 1 => r > 0
  PROVE  LET error == (s + e) * W - (W * s + r) IN -W < error /\ error < W
<1>1. (s + e) * W - (W * s + r) = e * W - r
  OBVIOUS
<1>2. CASE e = 0
  <2>1. e * W - r = 0 - r
    BY <1>2
  <2> QED BY <1>1, <2>1
<1>3. CASE e = 1
  <2>1. e * W - r = W - r
    BY <1>3
  <2> QED BY <1>1, <1>3, <2>1
<1> QED BY <1>2, <1>3

LEMMA Allocates ==
  ASSUME NEW c, Competing(c), NEW amount \in Nat
  PROVE  Splits(c, amount, allocate_whole(c, amount))
<1> DEFINE D == DOMAIN c
           W == WeightSum(c)
           share == Shares(c, amount)
           moved == Reallocated(c, share)
           extra == LargestRemainder(c, amount)
           sum == [i \in D |-> moved[i] + extra[i]]
           result == allocate_whole(c, amount)
<1>1. IsFiniteSet(D)
  BY DEF Competing
<1>2. share \in [D -> Nat] /\ Total(share) \in Nat
  <2>1. \A i \in D : share[i] \in Nat
    BY ExactShare
  <2>2. share = [i \in D |-> share[i]]
    BY DEF Shares
  <2> HIDE DEF share
  <2> QED BY <1>1, <2>1, <2>2, SumNat DEF Total
<1>3. /\ extra \in [D -> {0, 1}] /\ Total(extra) = amount - Total(share)
      /\ \A i \in D : extra[i] = 1 => Residues(c, amount)[i] > 0
  BY Remainders
<1>4. IF FloorsFit(c, share)
      THEN result.allocations = sum /\ result.overcommit = FALSE
      ELSE result.allocations = Overcommitted(c, amount) /\ result.overcommit = TRUE
  BY DEF allocate_whole, AllocationResult
<1>5. CASE FloorsFit(c, share)
  <2>1. /\ moved \in [D -> Nat] /\ Total(moved) = Total(share)
        /\ \A i \in D : moved[i] >= c[i].floor
        /\ Total(Need(c, share)) = 0 => moved = share
    BY <1>2, <1>5, Moved
  <2>2. \A i \in D : sum[i] = moved[i] + extra[i] /\ moved[i] \in Nat /\ extra[i] \in Nat /\ extra[i] \in {0, 1}
    <3> HIDE DEF moved, extra
    <3> QED BY <1>3, <2>1
  <2>3. sum \in [D -> Nat]
    <3> HIDE DEF moved, extra
    <3> QED BY <2>2
  <2>4. Total(sum) = amount
    <3>1. DOMAIN sum = D /\ DOMAIN moved = D /\ DOMAIN extra = D
      BY <1>3, <2>1
    <3> HIDE DEF moved, extra, sum, share
    <3>2. \A i \in D : moved[i] \in Int /\ extra[i] \in Int /\ sum[i] = moved[i] + extra[i]
      BY <2>2
    <3>3. SumFunctionOnSet(sum, D) = SumFunctionOnSet(moved, D) + SumFunctionOnSet(extra, D)
      BY <1>1, <3>2, SumPointwise
    <3>4. Total(sum) = Total(share) + (amount - Total(share))
      BY <1>3, <2>1, <3>1, <3>3 DEF Total
    <3> QED BY <1>2, <3>4
  <2>5. \A i \in D : sum[i] >= c[i].floor
    <3>1. \A i \in D : c[i].floor \in Nat
      BY DEF Competing
    <3> HIDE DEF moved, extra, sum
    <3> QED BY <2>1, <2>2, <3>1
  <2>6. ASSUME Total(Need(c, share)) = 0, NEW i \in D
        PROVE  -W < sum[i] * W - amount * c[i].weight /\ sum[i] * W - amount * c[i].weight < W
    <3> DEFINE r == Residues(c, amount)[i]
    <3>1. /\ share[i] \in Nat /\ r \in 0..(W - 1)
          /\ amount * c[i].weight = W * share[i] + r
      BY ExactShare
    <3>2. sum[i] = share[i] + extra[i]
      BY <2>1, <2>2, <2>6
    <3>3. extra[i] \in {0, 1} /\ (extra[i] = 1 => r > 0)
      BY <1>3, <2>2
    <3>4. W \in Nat \ {0}
      BY WeightSumPositive
    <3> HIDE DEF r, W, share, extra, sum
    <3>5. LET error == (share[i] + extra[i]) * W - (W * share[i] + r) IN -W < error /\ error < W
      BY <3>1, <3>3, <3>4, QuotaError
    <3> QED BY <3>1, <3>2, <3>5
  <2>7. result.allocations = sum /\ result.overcommit = FALSE
    BY <1>4, <1>5
  <2> HIDE DEF sum, share, result, W
  <2> QED BY <2>3, <2>4, <2>5, <2>6, <2>7 DEF Splits, share, result, W
<1>6. CASE ~FloorsFit(c, share)
  <2>1. Total(Need(c, share)) # 0
    <3>1. \A i \in D : Slack(c, share)[i] \in Nat
      <4>1. \A i \in D : share[i] \in Nat /\ c[i].floor \in Nat
        BY <1>2 DEF Competing
      <4>2. \A i \in D : Slack(c, share)[i] = Excess(share[i], c[i].floor)
        BY DEF Slack
      <4> HIDE DEF share
      <4> QED BY <4>1, <4>2 DEF Excess
    <3>2. Total(Slack(c, share)) \in Nat
      <4>1. DOMAIN Slack(c, share) = D
        BY DEF Slack
      <4> QED BY <1>1, <3>1, <4>1, SumNat DEF Total
    <3> HIDE DEF share
    <3> QED BY <1>6, <3>2 DEF FloorsFit
  <2>2. /\ Overcommitted(c, amount) \in [D -> Nat]
        /\ Total(Overcommitted(c, amount)) = amount
        /\ \A a, b \in D :
             c[a].rank > c[b].rank /\ Overcommitted(c, amount)[a] < c[a].floor
               => Overcommitted(c, amount)[b] = 0
    BY Overcommits
  <2>3. result.allocations = Overcommitted(c, amount) /\ result.overcommit = TRUE
    BY <1>4, <1>6
  <2> HIDE DEF result
  <2> QED BY <2>1, <2>2, <2>3 DEF Splits, result
<1> QED BY <1>5, <1>6

-------------------------------------------------------------------------------
(* The forest.  A policy is taken with the conditions of ValidPolicy that  *)
(* the split needs: parents exist, walks to the root end within the depth  *)
(* bound, weights are positive and no group is empty.                      *)

Forest(p) ==
  /\ PolicyType(p)
  /\ DOMAIN p.subjects # {}
  /\ \A g \in DOMAIN p.groups : p.groups[g].parent \in Levels(p)
  /\ \A s \in DOMAIN p.subjects : p.subjects[s].group \in DOMAIN p.groups
  /\ \A g \in DOMAIN p.groups : Depth(p, g) <= MaxGroupDepth
  /\ \A n \in Nodes(p) : Declared(p, n).weight >= 1
  /\ \A g \in DOMAIN p.groups : \E s \in DOMAIN p.subjects : p.subjects[s].group = g

LEMMA ValidIsForest ==
  ASSUME NEW p, PolicyType(p), ValidPolicy(p)
  PROVE  Forest(p)
BY DEF Forest, ValidPolicy, Levels

LEMMA ForestShape ==
  ASSUME NEW p, Forest(p)
  PROVE  /\ IsFiniteSet(Levels(p)) /\ IsFiniteSet(Nodes(p))
         /\ Nodes(p) \subseteq Nat
         /\ NoParent \in Levels(p) /\ NoParent \notin DOMAIN p.groups
         /\ \A n \in Nodes(p) : Parent(p, n) \in Levels(p)
         /\ \A g \in DOMAIN p.groups : g \in Nodes(p) /\ g \in Levels(p)
         /\ \A s \in DOMAIN p.subjects : s \in Nodes(p) /\ s \notin DOMAIN p.groups
<1>1. IsFiniteSet(DOMAIN p.groups) /\ IsFiniteSet(DOMAIN p.subjects)
  BY DEF Forest, PolicyType
<1>2. IsFiniteSet(DOMAIN p.groups \cup {NoParent}) /\ IsFiniteSet(DOMAIN p.groups \cup DOMAIN p.subjects)
  BY <1>1, FS_AddElement, FS_Union
<1>3. \A n \in Nodes(p) : Parent(p, n) \in Levels(p)
  BY DEF Forest, Parent, Levels, Nodes
<1> QED BY <1>2, <1>3 DEF Forest, PolicyType, Levels, Nodes

\* One step of the walk to the root.
Up(p, x) == IF x = NoParent THEN NoParent ELSE p.groups[x].parent

IsWalk(p, g, up) ==
  up = [k \in 0..MaxGroupDepth |-> IF k = 0 THEN g ELSE Up(p, up[k - 1])]

LEMMA WalkExists ==
  ASSUME NEW p, NEW g
  PROVE  \E up : IsWalk(p, g, up)
<1> DEFINE u1 == Up(p, g)
           u2 == Up(p, u1)
           u3 == Up(p, u2)
           u4 == Up(p, u3)
           u5 == Up(p, u4)
           u6 == Up(p, u5)
           u7 == Up(p, u6)
           u8 == Up(p, u7)
           w == [k \in 0..8 |-> CASE k = 0 -> g [] k = 1 -> u1 [] k = 2 -> u2 [] k = 3 -> u3
                                  [] k = 4 -> u4 [] k = 5 -> u5 [] k = 6 -> u6 [] k = 7 -> u7
                                  [] OTHER -> u8]
<1>1. /\ w[0] = g /\ w[1] = u1 /\ w[2] = u2 /\ w[3] = u3 /\ w[4] = u4
      /\ w[5] = u5 /\ w[6] = u6 /\ w[7] = u7 /\ w[8] = u8
  <2> HIDE DEF u1, u2, u3, u4, u5, u6, u7, u8
  <2> QED OBVIOUS
<1>2. /\ w[1] = Up(p, w[0]) /\ w[2] = Up(p, w[1]) /\ w[3] = Up(p, w[2]) /\ w[4] = Up(p, w[3])
      /\ w[5] = Up(p, w[4]) /\ w[6] = Up(p, w[5]) /\ w[7] = Up(p, w[6]) /\ w[8] = Up(p, w[7])
  <2> HIDE DEF w
  <2> QED BY <1>1
<1>3. w = [k \in 0..8 |-> w[k]]
  OBVIOUS
<1> HIDE DEF w
<1>4. \A k \in 0..8 : w[k] = IF k = 0 THEN g ELSE Up(p, w[k - 1])
  <2>1. \A k \in 0..8 : k = 0 \/ k = 1 \/ k = 2 \/ k = 3 \/ k = 4 \/ k = 5 \/ k = 6 \/ k = 7 \/ k = 8
    OBVIOUS
  <2> QED BY <1>1, <1>2, <2>1
<1>5. w = [k \in 0..8 |-> IF k = 0 THEN g ELSE Up(p, w[k - 1])]
  BY <1>3, <1>4
<1> QED BY <1>5 DEF MaxGroupDepth, IsWalk

\* Every set of levels has one whose level above is not in it.
LEMMA RootReached ==
  ASSUME NEW p, Forest(p), NEW B \in SUBSET Levels(p), B # {}
  PROVE  \E g \in B : g = NoParent \/ Parent(p, g) \notin B
<1> SUFFICES ASSUME \A g \in B : g # NoParent /\ Parent(p, g) \in B PROVE FALSE
  OBVIOUS
<1>1. PICK g \in B : TRUE
  OBVIOUS
<1>2. \A h \in B : h \in DOMAIN p.groups /\ h # NoParent /\ Up(p, h) \in B
  BY DEF Up, Parent, Levels
<1> DEFINE up == CHOOSE u : IsWalk(p, g, u)
<1>3. Depth(p, g) = Cardinality({k \in 0..MaxGroupDepth : up[k] # NoParent})
  BY DEF Depth, Up, IsWalk
<1>4. IsWalk(p, g, up)
  BY WalkExists
<1> HIDE DEF up
<1>5. \A k \in 0..MaxGroupDepth : up[k] = IF k = 0 THEN g ELSE Up(p, up[k - 1])
  BY <1>4 DEF IsWalk
<1>6. \A k \in 0..8 : up[k] \in B
  <2>0. up[0] \in B
    BY <1>5 DEF MaxGroupDepth
  <2>1. \A k \in 1..8 : up[k - 1] \in B => up[k] \in B
    BY <1>2, <1>5 DEF MaxGroupDepth
  <2>2. up[1] \in B /\ up[2] \in B /\ up[3] \in B /\ up[4] \in B
    BY <2>0, <2>1
  <2>3. up[5] \in B /\ up[6] \in B /\ up[7] \in B /\ up[8] \in B
    BY <2>1, <2>2
  <2>4. \A k \in 0..8 : k = 0 \/ k = 1 \/ k = 2 \/ k = 3 \/ k = 4 \/ k = 5 \/ k = 6 \/ k = 7 \/ k = 8
    OBVIOUS
  <2> QED BY <2>0, <2>2, <2>3, <2>4
<1>7. {k \in 0..MaxGroupDepth : up[k] # NoParent} = 0..8
  BY <1>2, <1>6 DEF MaxGroupDepth
<1>8. Cardinality(0..8) = 9
  <2>1. \A a, b \in Int : Cardinality(a..b) = IF a > b THEN 0 ELSE b - a + 1
    BY FS_Interval
  <2> DEFINE a == 0
             b == 8
  <2>2. a \in Int /\ b \in Int /\ ~(a > b) /\ b - a + 1 = 9
    OBVIOUS
  <2> HIDE DEF a, b
  <2>3. Cardinality(a..b) = 9
    BY <2>1, <2>2
  <2> QED BY <2>3 DEF a, b
<1>9. Depth(p, g) <= 8
  BY <1>1, <1>2 DEF Forest, MaxGroupDepth
<1> QED BY <1>3, <1>7, <1>8, <1>9

LEMMA PositiveProduct ==
  ASSUME NEW a \in Nat, a >= 1, NEW b \in Int, b >= 1
  PROVE  a * b \in Nat \ {0}
OBVIOUS

LEMMA LevelsCompete ==
  ASSUME NEW p, Forest(p), NEW g \in Levels(p), NEW modified \in BOOLEAN
  PROVE  /\ Competing(Competitors(p, g, modified))
         /\ DOMAIN Competitors(p, g, modified) = Children(p, g)
         /\ \A n \in Children(p, g) :
              /\ Competitors(p, g, modified)[n].floor = Declared(p, n).floor
              /\ Competitors(p, g, modified)[n].rank = Declared(p, n).rank
<1> DEFINE c == Competitors(p, g, modified)
           bps(n) == IF modified /\ n \in DOMAIN p.subjects THEN p.subjects[n].bps ELSE 0
<1>1. /\ DOMAIN c = Children(p, g)
      /\ \A n \in Children(p, g) :
           /\ c[n].weight = effective_share_weight(Declared(p, n).weight, bps(n))
           /\ c[n].floor = Declared(p, n).floor
           /\ c[n].rank = Declared(p, n).rank
  BY DEF Competitors
<1>2. Children(p, g) \subseteq Nodes(p) /\ IsFiniteSet(Children(p, g)) /\ Children(p, g) \subseteq Int
  <2>1. Children(p, g) \subseteq Nodes(p)
    BY DEF Children
  <2> QED BY <2>1, ForestShape, FS_Subset
<1>3. Children(p, g) # {}
  <2>1. CASE g \in DOMAIN p.groups
    <3>1. PICK s \in DOMAIN p.subjects : p.subjects[s].group = g
      BY <2>1 DEF Forest
    <3>2. s \in Nodes(p) /\ s \notin DOMAIN p.groups
      BY ForestShape
    <3> QED BY <3>1, <3>2 DEF Children, Parent
  <2>2. CASE g = NoParent
    <3>1. DOMAIN p.groups # {} /\ DOMAIN p.groups \in SUBSET Levels(p)
      BY DEF Forest, Levels
    <3>2. PICK h \in DOMAIN p.groups : h = NoParent \/ Parent(p, h) \notin DOMAIN p.groups
      BY <3>1, RootReached
    <3>3. h # NoParent /\ h \in Nodes(p) /\ Parent(p, h) \in Levels(p)
      BY ForestShape
    <3> QED BY <2>2, <3>2, <3>3 DEF Levels, Children
  <2> QED BY <2>1, <2>2 DEF Levels
<1>4. ASSUME NEW n \in Children(p, g)
      PROVE  c[n].weight \in Nat \ {0} /\ c[n].floor \in Nat /\ c[n].rank \in Int
  <2>1. /\ n \in Nodes(p) /\ Declared(p, n).weight \in Nat /\ Declared(p, n).weight >= 1
        /\ Declared(p, n).floor \in Nat /\ Declared(p, n).rank \in Nat
    BY <1>2 DEF Forest, PolicyType
  <2>2. bps(n) \in Int
    BY DEF Forest, PolicyType
  <2> DEFINE factor == IF BasisPointScale + bps(n) <= 0 THEN 1 ELSE BasisPointScale + bps(n)
  <2>3. factor \in Int /\ factor >= 1
    <3> HIDE DEF bps
    <3> QED BY <2>2 DEF BasisPointScale
  <2>4. effective_share_weight(Declared(p, n).weight, bps(n)) = Declared(p, n).weight * factor
    BY DEF effective_share_weight
  <2> HIDE DEF factor, bps, c
  <2>5. Declared(p, n).weight * factor \in Nat \ {0}
    BY <2>1, <2>3, PositiveProduct
  <2> QED BY <1>1, <2>1, <2>4, <2>5
<1> QED BY <1>1, <1>2, <1>3, <1>4 DEF Competing

\* What a level has to split, and the equation that Scatter solves.
Part(p, amount, level, g) ==
  IF g = NoParent THEN amount ELSE level[Parent(p, g)].allocations[g]

IsScatter(p, amount, modified, K, level) ==
  level = [g \in K |-> allocate_whole(Competitors(p, g, modified), Part(p, amount, level, g))]

LEMMA ScatterExists ==
  ASSUME NEW p, Forest(p), NEW amount, NEW modified
  PROVE  \E level : IsScatter(p, amount, modified, Levels(p), level)
<1> DEFINE P == Levels(p)
           Closed(K) == \A g \in K : g # NoParent => Parent(p, g) \in K
           Solved(K) == \E level : IsScatter(p, amount, modified, K, level)
           T == {C \in SUBSET P : Closed(P \ C) /\ Solved(P \ C)}
<1>1. IsFiniteSet(P)
  BY ForestShape
<1>2. P \in T
  <2>1. P \ P = {}
    OBVIOUS
  <2>2. Solved({})
    <3> DEFINE e == [g \in {} |-> 0]
    <3>1. e = [g \in {} |-> allocate_whole(Competitors(p, g, modified), Part(p, amount, e, g))]
      OBVIOUS
    <3>2. IsScatter(p, amount, modified, {}, e)
      BY <3>1 DEF IsScatter
    <3> QED BY <3>2
  <2> QED BY <2>1, <2>2
<1>3. PICK C \in T : \A D \in T : ~(D \subseteq C /\ D # C)
  <2>1. T \in SUBSET SUBSET P /\ T # {}
    BY <1>2
  <2> HIDE DEF T, P
  <2> QED BY <1>1, <2>1, SmallestSet
<1>4. PICK level : IsScatter(p, amount, modified, P \ C, level)
  BY <1>3
<1>5. CASE C = {}
  BY <1>4, <1>5
<1>6. CASE C # {}
  <2>1. PICK g \in C : g = NoParent \/ Parent(p, g) \notin C
    BY <1>3, <1>6, RootReached
  <2> DEFINE K == P \ C
             L == P \ (C \ {g})
             next == [h \in L |-> allocate_whole(Competitors(p, h, modified), Part(p, amount, level, h))]
  <2>2. g \in P /\ L = K \cup {g} /\ g \notin K /\ C \in SUBSET P
    BY <1>3, <2>1
  <2>3. g # NoParent => Parent(p, g) \in K
    BY <2>1, <2>2, ForestShape DEF Levels
  <2>4. Closed(K)
    BY <1>3
  <2>5. Closed(L)
    BY <2>2, <2>3, <2>4
  <2>6. \A h \in K : next[h] = level[h]
    BY <1>4, <2>2 DEF IsScatter
  <2>7. IsScatter(p, amount, modified, L, next)
    <3>1. \A h \in L : Part(p, amount, next, h) = Part(p, amount, level, h)
      BY <2>2, <2>3, <2>4, <2>6 DEF Part
    <3> QED BY <3>1 DEF IsScatter
  <2>8. C \ {g} \in T
    BY <2>2, <2>5, <2>7
  <2> QED BY <1>3, <2>1, <2>8
<1> QED BY <1>5, <1>6

\* Every level splits its part, which is a natural number.
LEMMA ScatterSplits ==
  ASSUME NEW p, Forest(p), NEW amount \in Nat, NEW modified \in BOOLEAN, NEW g \in Levels(p)
  PROVE  LET level == Scatter(p, amount, modified)
             part == Part(p, amount, level, g)
         IN part \in Nat /\ Splits(Competitors(p, g, modified), part, level[g])
<1> DEFINE level == Scatter(p, amount, modified)
           part(h) == Part(p, amount, level, h)
           Bad == {h \in Levels(p) : part(h) \notin Nat}
<1>1. IsScatter(p, amount, modified, Levels(p), level)
  <2>1. level = CHOOSE l : IsScatter(p, amount, modified, Levels(p), l)
    BY DEF Scatter, IsScatter, Part
  <2>2. \E l : IsScatter(p, amount, modified, Levels(p), l)
    BY ScatterExists
  <2> HIDE DEF level
  <2> QED BY <2>1, <2>2
<1> HIDE DEF level
<1>2. \A h \in Levels(p) : level[h] = allocate_whole(Competitors(p, h, modified), part(h))
  BY <1>1 DEF IsScatter
<1>3. ASSUME NEW h \in Levels(p), part(h) \in Nat
      PROVE  Splits(Competitors(p, h, modified), part(h), level[h])
  <2>1. Competing(Competitors(p, h, modified))
    BY LevelsCompete
  <2> HIDE DEF part
  <2> QED BY <1>2, <1>3, <2>1, Allocates
<1>4. Bad = {}
  <2> SUFFICES ASSUME Bad # {} PROVE FALSE
    OBVIOUS
  <2>1. PICK h \in Bad : h = NoParent \/ Parent(p, h) \notin Bad
    <3>1. Bad \in SUBSET Levels(p)
      OBVIOUS
    <3> HIDE DEF Bad
    <3> QED BY <3>1, RootReached
  <2>2. CASE h = NoParent
    BY <2>1, <2>2 DEF Part
  <2>3. CASE h # NoParent
    <3>1. h \in DOMAIN p.groups
      BY <2>1, <2>3 DEF Levels
    <3>2. h \in Nodes(p) /\ Parent(p, h) \in Levels(p) /\ h \in Children(p, Parent(p, h))
      BY <3>1, ForestShape DEF Children
    <3>3. part(Parent(p, h)) \in Nat
      BY <2>1, <2>3, <3>2
    <3>4. Splits(Competitors(p, Parent(p, h), modified), part(Parent(p, h)), level[Parent(p, h)])
      BY <1>3, <3>2, <3>3
    <3>5. DOMAIN Competitors(p, Parent(p, h), modified) = Children(p, Parent(p, h))
      BY <3>2, LevelsCompete
    <3>6. level[Parent(p, h)].allocations[h] \in Nat
      BY <3>2, <3>4, <3>5 DEF Splits
    <3> QED BY <2>1, <2>3, <3>6 DEF Part
  <2> QED BY <2>2, <2>3
<1>5. part(g) \in Nat
  BY <1>4
<1>6. Splits(Competitors(p, g, modified), part(g), level[g])
  BY <1>3, <1>5
<1> QED BY <1>5, <1>6 DEF level

\* The entitlements one pass leaves behind.
Pass(p, level) == [n \in Nodes(p) |-> level[Parent(p, n)].allocations[n]]

LEMMA PassLevels ==
  ASSUME NEW p, Forest(p), NEW amount \in Nat, NEW modified \in BOOLEAN
  PROVE  LET level == Scatter(p, amount, modified)
             pass == Pass(p, level)
         IN /\ pass \in [Nodes(p) -> Nat]
            /\ \A g \in Levels(p) : Part(p, amount, level, g) = IF g = NoParent THEN amount ELSE pass[g]
            /\ \A g \in Levels(p) :
                 SumFunctionOnSet(pass, Children(p, g)) = Part(p, amount, level, g)
            /\ \A g \in Levels(p) : \A n \in Children(p, g) : pass[n] = level[g].allocations[n]
<1> DEFINE level == Scatter(p, amount, modified)
           pass == Pass(p, level)
           c(g) == Competitors(p, g, modified)
<1>1. \A g \in Levels(p) : /\ Part(p, amount, level, g) \in Nat
                           /\ Splits(c(g), Part(p, amount, level, g), level[g])
  BY ScatterSplits
<1>2. \A g \in Levels(p) : DOMAIN c(g) = Children(p, g) /\ IsFiniteSet(Children(p, g))
  BY LevelsCompete DEF Competing
<1> HIDE DEF level, c
<1>3. \A g \in Levels(p) : \A n \in Children(p, g) : pass[n] = level[g].allocations[n]
  BY DEF Pass, Children
<1>4. \A g \in Levels(p) : /\ level[g].allocations \in [Children(p, g) -> Nat]
                           /\ Total(level[g].allocations) = Part(p, amount, level, g)
  BY <1>1, <1>2 DEF Splits
<1>5. \A n \in Nodes(p) : n \in Children(p, Parent(p, n)) /\ Parent(p, n) \in Levels(p)
  BY ForestShape DEF Children
<1>6. pass \in [Nodes(p) -> Nat]
  <2>1. \A n \in Nodes(p) : pass[n] \in Nat
    BY <1>3, <1>4, <1>5
  <2>2. pass = [n \in Nodes(p) |-> pass[n]]
    BY DEF Pass
  <2> HIDE DEF pass
  <2> QED BY <2>1, <2>2
<1>7. \A g \in Levels(p) : Part(p, amount, level, g) = IF g = NoParent THEN amount ELSE pass[g]
  BY ForestShape DEF Part, Pass, Levels
<1>8. ASSUME NEW g \in Levels(p)
      PROVE  SumFunctionOnSet(pass, Children(p, g)) = Part(p, amount, level, g)
  <2> DEFINE a == level[g].allocations
  <2>1. DOMAIN a = Children(p, g) /\ \A n \in Children(p, g) : a[n] \in Int /\ pass[n] = a[n]
    BY <1>3, <1>4
  <2> HIDE DEF a, pass
  <2>2. SumFunctionOnSet(a, Children(p, g)) = SumFunctionOnSet(pass, Children(p, g))
    BY <1>2, <2>1, SumSame
  <2> QED BY <1>4, <2>1, <2>2 DEF Total, a
<1> QED BY <1>3, <1>6, <1>7, <1>8 DEF level

\* Added up level by level, the nodes below a set of levels hold the parts of
\* those levels.
LEMMA SumByLevel ==
  ASSUME NEW p, Forest(p), NEW f \in [Nodes(p) -> Nat], NEW part,
         \A g \in Levels(p) : part[g] \in Nat /\ SumFunctionOnSet(f, Children(p, g)) = part[g]
  PROVE  SumFunctionOnSet(f, Nodes(p)) = SumFunctionOnSet(part, Levels(p))
<1> DEFINE L == Levels(p)
           Below(T) == {n \in Nodes(p) : Parent(p, n) \in T}
           Good == {T \in SUBSET L : SumFunctionOnSet(f, Below(T)) = SumFunctionOnSet(part, T)}
<1>0. IsFiniteSet(L) /\ IsFiniteSet(Nodes(p)) /\ \A n \in Nodes(p) : f[n] \in Int
  BY ForestShape
<1>1. {} \in Good
  <2>1. Below({}) = {}
    OBVIOUS
  <2> QED BY <2>1, SumEmpty
<1>2. ASSUME NEW T \in SUBSET L, NEW x \in L \ T, T \in Good PROVE T \cup {x} \in Good
  <2>1. IsFiniteSet(T) /\ IsFiniteSet(Below(T)) /\ IsFiniteSet(Children(p, x))
    <3>1. Below(T) \subseteq Nodes(p) /\ Children(p, x) \subseteq Nodes(p)
      BY DEF Children
    <3> QED BY <1>0, <3>1, FS_Subset
  <2>2. Below(T \cup {x}) = Below(T) \cup Children(p, x) /\ Below(T) \cap Children(p, x) = {}
    BY DEF Children
  <2>3. \A n \in Below(T) \cup Children(p, x) : f[n] \in Int
    BY <1>0 DEF Children
  <2>4. SumFunctionOnSet(f, Below(T)) = SumFunctionOnSet(part, T)
    BY <1>2
  <2>5. \A g \in T \cup {x} : part[g] \in Int
    OBVIOUS
  <2>6. x \notin T /\ SumFunctionOnSet(f, Children(p, x)) = part[x]
    OBVIOUS
  <2> HIDE DEF Below
  <2>7. SumFunctionOnSet(f, Below(T) \cup Children(p, x)) = SumFunctionOnSet(f, Below(T)) + part[x]
    BY <2>1, <2>2, <2>3, <2>6, SumUnion
  <2>8. /\ SumFunctionOnSet(part, T \cup {x}) = part[x] + SumFunctionOnSet(part, T)
        /\ SumFunctionOnSet(part, T) \in Int
    BY <2>1, <2>5, <2>6, SumAdd
  <2>9. part[x] \in Int
    BY <2>5
  <2>10. SumFunctionOnSet(f, Below(T \cup {x})) = SumFunctionOnSet(part, T \cup {x})
    <3>1. SumFunctionOnSet(f, Below(T \cup {x})) = SumFunctionOnSet(part, T) + part[x]
      BY <2>2, <2>4, <2>7, Zenon
    <3> QED BY <2>8, <2>9, <3>1
  <2> QED BY <2>10 DEF Below
<1>3. L \in Good
  <2> HIDE DEF Good, L
  <2> QED BY <1>0, <1>1, <1>2, SetInduction
<1>4. Below(L) = Nodes(p)
  BY ForestShape
<1> QED BY <1>3, <1>4

LEMMA SubjectsGetAll ==
  ASSUME NEW p, Forest(p), NEW amount \in Nat, NEW f \in [Nodes(p) -> Nat],
         \A g \in Levels(p) : SumFunctionOnSet(f, Children(p, g)) = IF g = NoParent THEN amount ELSE f[g]
  PROVE  SumFunctionOnSet(f, DOMAIN p.subjects) = amount
<1> DEFINE G == DOMAIN p.groups
           S == DOMAIN p.subjects
           part == [g \in Levels(p) |-> IF g = NoParent THEN amount ELSE f[g]]
<1>1. /\ IsFiniteSet(G) /\ IsFiniteSet(S) /\ G \cap S = {} /\ Nodes(p) = G \cup S
      /\ NoParent \notin G /\ Levels(p) = G \cup {NoParent}
  BY DEF Forest, PolicyType, Nodes, Levels
<1>2. \A n \in G \cup S : f[n] \in Nat
  BY <1>1
<1>3. \A g \in Levels(p) : part[g] \in Nat /\ SumFunctionOnSet(f, Children(p, g)) = part[g]
  BY <1>1, <1>2
<1>4. part[NoParent] = amount /\ \A g \in G : part[g] = f[g]
  BY <1>1
<1> HIDE DEF part, G, S
<1>5. SumFunctionOnSet(f, Nodes(p)) = SumFunctionOnSet(part, Levels(p))
  BY <1>3, SumByLevel
<1>6. SumFunctionOnSet(f, G \cup S) = SumFunctionOnSet(f, G) + SumFunctionOnSet(f, S)
  <2>1. \A n \in G \cup S : f[n] \in Int
    BY <1>2
  <2> QED BY <1>1, <2>1, SumUnion
<1>7. SumFunctionOnSet(part, G \cup {NoParent}) = amount + SumFunctionOnSet(part, G)
  <2>1. \A g \in G \cup {NoParent} : part[g] \in Int
    BY <1>1, <1>3
  <2> QED BY <1>1, <1>4, <2>1, SumAdd
<1>8. SumFunctionOnSet(f, G) = SumFunctionOnSet(part, G)
  <2>1. \A g \in G : f[g] \in Int /\ part[g] = f[g]
    BY <1>2, <1>4
  <2> QED BY <1>1, <2>1, SumSame
<1>9. SumFunctionOnSet(f, G) \in Nat /\ SumFunctionOnSet(f, S) \in Nat
  BY <1>1, <1>2, SumNat
<1>10. SumFunctionOnSet(f, G) + SumFunctionOnSet(f, S) = amount + SumFunctionOnSet(f, G)
  BY <1>1, <1>5, <1>6, <1>7, <1>8, Zenon
<1>11. SumFunctionOnSet(f, S) = amount
  BY <1>9, <1>10
<1> QED BY <1>11 DEF S

\* The sets A[h], whose union is B, have no member in common, and each sums to
\* sum[h].
Blocks(f, H, A, sum, B) ==
  /\ IsFiniteSet(H)
  /\ \A h \in H : IsFiniteSet(A[h]) /\ sum[h] = SumFunctionOnSet(f, A[h])
  /\ \A h \in H : \A x \in A[h] : f[x] \in Int
  /\ \A h, k \in H : h # k => A[h] \cap A[k] = {}
  /\ B = UNION {A[h] : h \in H}

\* The sum over a disjoint union is the sum of the sums.
LEMMA SumBlocks ==
  ASSUME NEW f, NEW H, NEW A, NEW sum, NEW B, Blocks(f, H, A, sum, B)
  PROVE  SumFunctionOnSet(f, B) = SumFunctionOnSet(sum, H) /\ IsFiniteSet(B)
<1> DEFINE U(T) == UNION {A[h] : h \in T}
           Right(T) == IsFiniteSet(U(T)) /\ SumFunctionOnSet(f, U(T)) = SumFunctionOnSet(sum, T)
           Good == {T \in SUBSET H : Right(T)}
<1>0. /\ IsFiniteSet(H)
      /\ \A h \in H : IsFiniteSet(A[h]) /\ sum[h] = SumFunctionOnSet(f, A[h])
      /\ \A h \in H : \A x \in A[h] : f[x] \in Int
      /\ \A h, k \in H : h # k => A[h] \cap A[k] = {}
      /\ B = U(H)
  BY DEF Blocks
<1>1. {} \in Good
  <2>1. U({}) = {}
    OBVIOUS
  <2> QED BY <2>1, SumEmpty, FS_EmptySet
<1>2. ASSUME NEW T \in SUBSET H, NEW h \in H \ T, T \in Good PROVE T \cup {h} \in Good
  <2>1. U(T \cup {h}) = U(T) \cup A[h] /\ U(T) \cap A[h] = {}
    BY <1>0
  <2>2. \A x \in U(T) \cup A[h] : f[x] \in Int
    BY <1>0
  <2>3. IsFiniteSet(T) /\ IsFiniteSet(A[h]) /\ sum[h] = SumFunctionOnSet(f, A[h]) /\ h \notin T
    BY <1>0, FS_Subset
  <2>4. \A k \in T \cup {h} : sum[k] \in Int
    <3>1. \A k \in H : SumFunctionOnSet(f, A[k]) \in Int
      BY <1>0, SumInt
    <3> QED BY <1>0, <3>1
  <2>5. Right(T)
    BY <1>2
  <2> HIDE DEF U
  <2>6. SumFunctionOnSet(f, U(T) \cup A[h]) = SumFunctionOnSet(f, U(T)) + SumFunctionOnSet(f, A[h])
    BY <2>1, <2>2, <2>3, <2>5, SumUnion
  <2>7. /\ SumFunctionOnSet(sum, T \cup {h}) = sum[h] + SumFunctionOnSet(sum, T)
        /\ SumFunctionOnSet(sum, T) \in Int
    BY <2>3, <2>4, SumAdd
  <2>8. SumFunctionOnSet(f, U(T \cup {h})) = SumFunctionOnSet(sum, T) + sum[h]
    BY <2>1, <2>3, <2>5, <2>6, Zenon
  <2>9. SumFunctionOnSet(f, U(T \cup {h})) = SumFunctionOnSet(sum, T \cup {h})
    <3>1. sum[h] \in Int
      BY <2>4
    <3> QED BY <2>7, <2>8, <3>1
  <2>10. IsFiniteSet(U(T) \cup A[h])
    BY <2>3, <2>5, FS_Union
  <2>11. Right(T \cup {h})
    BY <2>1, <2>9, <2>10, Zenon
  <2> QED BY <2>11
<1>3. H \in Good
  <2> HIDE DEF Good
  <2> QED BY <1>0, <1>1, <1>2, SetInduction
<1> QED BY <1>0, <1>3

-------------------------------------------------------------------------------
(* The groups above a group.                                               *)

IsChain(p, K, chain) ==
  chain = [h \in K |->
    {h} \cup (IF p.groups[h].parent = NoParent THEN {} ELSE chain[p.groups[h].parent])]

LEMMA ChainExists ==
  ASSUME NEW p, Forest(p)
  PROVE  \E chain : IsChain(p, DOMAIN p.groups, chain)
<1> DEFINE G == DOMAIN p.groups
           Closed(K) == \A g \in K : p.groups[g].parent # NoParent => p.groups[g].parent \in K
           Solved(K) == \E chain : IsChain(p, K, chain)
           T == {C \in SUBSET G : Closed(G \ C) /\ Solved(G \ C)}
<1>1. IsFiniteSet(G) /\ G \in SUBSET Levels(p) /\ NoParent \notin G
  BY DEF Forest, PolicyType, Levels
<1>2. G \in T
  <2>1. G \ G = {}
    OBVIOUS
  <2>2. Solved({})
    <3> DEFINE e == [h \in {} |-> {}]
    <3>1. e = [h \in {} |->
                 {h} \cup (IF p.groups[h].parent = NoParent THEN {} ELSE e[p.groups[h].parent])]
      OBVIOUS
    <3>2. IsChain(p, {}, e)
      BY <3>1 DEF IsChain
    <3> QED BY <3>2
  <2> QED BY <2>1, <2>2
<1>3. PICK C \in T : \A D \in T : ~(D \subseteq C /\ D # C)
  <2>1. T \in SUBSET SUBSET G /\ T # {}
    BY <1>2
  <2> HIDE DEF T, G
  <2> QED BY <1>1, <2>1, SmallestSet
<1>4. PICK chain : IsChain(p, G \ C, chain)
  BY <1>3
<1>5. CASE C = {}
  BY <1>4, <1>5
<1>6. CASE C # {}
  <2>1. PICK g \in C : g = NoParent \/ Parent(p, g) \notin C
    <3>1. C \in SUBSET Levels(p)
      BY <1>1, <1>3
    <3> QED BY <1>6, <3>1, RootReached
  <2> DEFINE K == G \ C
             L == G \ (C \ {g})
             above(h) == p.groups[h].parent
             next == [h \in L |-> {h} \cup (IF above(h) = NoParent THEN {} ELSE chain[above(h)])]
  <2>2. g \in G /\ L = K \cup {g} /\ g \notin K /\ C \in SUBSET G
    BY <1>3, <2>1
  <2>3. above(g) # NoParent => above(g) \in K
    BY <1>1, <2>1, <2>2 DEF Forest, Levels, Parent
  <2>4. Closed(K)
    BY <1>3
  <2>5. Closed(L)
    BY <2>2, <2>3, <2>4
  <2>6. \A h \in K : next[h] = chain[h]
    BY <1>4, <2>2 DEF IsChain
  <2>7. IsChain(p, L, next)
    <3>1. \A h \in L : above(h) # NoParent => next[above(h)] = chain[above(h)]
      BY <2>2, <2>3, <2>4, <2>6
    <3> QED BY <3>1 DEF IsChain
  <2>8. C \ {g} \in T
    BY <2>2, <2>5, <2>7
  <2> QED BY <1>3, <2>1, <2>8
<1> QED BY <1>5, <1>6

LEMMA ChainUnfold ==
  ASSUME NEW p, Forest(p), NEW g \in DOMAIN p.groups
  PROVE  Chain(p, g) = {g} \cup (IF p.groups[g].parent = NoParent THEN {}
                                 ELSE Chain(p, p.groups[g].parent))
<1> DEFINE chain == CHOOSE c : IsChain(p, DOMAIN p.groups, c)
<1>1. \A h : Chain(p, h) = chain[h]
  BY DEF Chain, IsChain
<1>2. IsChain(p, DOMAIN p.groups, chain)
  BY ChainExists
<1> HIDE DEF chain
<1>3. chain[g] = {g} \cup (IF p.groups[g].parent = NoParent THEN {} ELSE chain[p.groups[g].parent])
  BY <1>2 DEF IsChain
<1> QED BY <1>1, <1>3

\* Induction from the roots down, for a property given as the set of groups
\* that have it.
LEMMA ForestInduction ==
  ASSUME NEW p, Forest(p), NEW Good,
         \A g \in DOMAIN p.groups :
           (p.groups[g].parent # NoParent => p.groups[g].parent \in Good) => g \in Good
  PROVE  DOMAIN p.groups \subseteq Good
<1> DEFINE Bad == DOMAIN p.groups \ Good
<1> SUFFICES ASSUME Bad # {} PROVE FALSE
  OBVIOUS
<1>1. Bad \in SUBSET Levels(p)
  BY DEF Levels
<1>2. PICK g \in Bad : g = NoParent \/ Parent(p, g) \notin Bad
  <2> HIDE DEF Bad
  <2> QED BY <1>1, RootReached
<1>3. g \in DOMAIN p.groups /\ g # NoParent /\ Parent(p, g) = p.groups[g].parent
  BY <1>2, ForestShape DEF Parent
<1>4. p.groups[g].parent \in DOMAIN p.groups \cup {NoParent}
  BY <1>3 DEF Forest, Levels
<1>5. p.groups[g].parent # NoParent => p.groups[g].parent \in Good
  BY <1>2, <1>3, <1>4
<1> QED BY <1>2, <1>3, <1>5

\* g is above k, or is k, exactly if k is g or a child of g is above k.
LEMMA ChainBelow ==
  ASSUME NEW p, Forest(p), NEW k \in DOMAIN p.groups
  PROVE  /\ Chain(p, k) \subseteq DOMAIN p.groups /\ k \in Chain(p, k)
         /\ \A g \in DOMAIN p.groups :
              g \in Chain(p, k) <=>
                k = g \/ \E h \in DOMAIN p.groups : p.groups[h].parent = g /\ h \in Chain(p, k)
         /\ \E h \in Chain(p, k) : p.groups[h].parent = NoParent
<1> DEFINE G == DOMAIN p.groups
           above(h) == p.groups[h].parent
           C(h) == Chain(p, h)
           Within(h) == C(h) \subseteq G /\ h \in C(h)
           Links(h) == \A g \in G : g \in C(h) <=> h = g \/ \E i \in G : above(i) = g /\ i \in C(h)
           Rooted(h) == \E i \in C(h) : above(i) = NoParent
           Good == {h \in G : Within(h) /\ Links(h) /\ Rooted(h)}
<1>1. \A h \in G : /\ C(h) = {h} \cup (IF above(h) = NoParent THEN {} ELSE C(above(h)))
                   /\ above(h) \in G \cup {NoParent}
  BY ChainUnfold DEF Forest, Levels
<1>0. NoParent \notin G
  BY ForestShape
<1>2. ASSUME NEW h \in G, above(h) # NoParent => above(h) \in Good PROVE h \in Good
  <2> HIDE DEF C, above, G
  <2>1. CASE above(h) = NoParent
    <3>1. C(h) = {h}
      BY <1>1, <2>1
    <3>2. Within(h) /\ Rooted(h)
      BY <2>1, <3>1
    <3>3. Links(h)
      BY <1>0, <2>1, <3>1
    <3> QED BY <3>2, <3>3
  <2>2. CASE above(h) # NoParent
    <3>1. C(h) = {h} \cup C(above(h)) /\ above(h) \in G
      BY <1>1, <2>2
    <3>2. Within(above(h)) /\ Links(above(h)) /\ Rooted(above(h))
      BY <1>2, <2>2
    <3>3. Within(h) /\ Rooted(h)
      BY <3>1, <3>2
    <3>4. ASSUME NEW g \in G, g \in C(h) PROVE h = g \/ \E i \in G : above(i) = g /\ i \in C(h)
      <4>1. CASE g = h
        BY <4>1
      <4>2. CASE g = above(h)
        BY <3>1, <4>2
      <4>3. CASE g # h /\ g # above(h)
        <5>1. PICK i \in G : above(i) = g /\ i \in C(above(h))
          BY <3>1, <3>2, <3>4, <4>3
        <5> QED BY <3>1, <5>1
      <4> QED BY <4>1, <4>2, <4>3
    <3>5. ASSUME NEW g \in G, h = g \/ \E i \in G : above(i) = g /\ i \in C(h) PROVE g \in C(h)
      <4>1. CASE h = g
        BY <3>1, <4>1
      <4>2. ASSUME NEW i \in G, above(i) = g, i \in C(h) PROVE g \in C(h)
        <5>1. CASE i = h
          BY <3>1, <3>2, <4>2, <5>1
        <5>2. CASE i \in C(above(h))
          BY <3>1, <3>2, <4>2, <5>2
        <5> QED BY <3>1, <4>2, <5>1, <5>2
      <4> QED BY <3>5, <4>1, <4>2
    <3>6. Links(h)
      BY <3>4, <3>5
    <3> QED BY <3>3, <3>6
  <2> QED BY <2>1, <2>2
<1>3. G \subseteq Good
  <2> HIDE DEF Good
  <2> QED BY <1>2, ForestInduction
<1> QED BY <1>3

\* No group is above the group it is in.
LEMMA ChainAcyclic ==
  ASSUME NEW p, Forest(p), NEW k \in DOMAIN p.groups, p.groups[k].parent # NoParent
  PROVE  k \notin Chain(p, p.groups[k].parent)
<1> DEFINE G == DOMAIN p.groups
           above(h) == p.groups[h].parent
           C(h) == Chain(p, h)
           Good == {h \in G : above(h) # NoParent => h \notin C(above(h))}
<1>1. \A h \in G : /\ C(h) = {h} \cup (IF above(h) = NoParent THEN {} ELSE C(above(h)))
                   /\ above(h) \in G \cup {NoParent}
  BY ChainUnfold DEF Forest, Levels
<1>2. \A h \in G : above(h) # h
  <2>1. ASSUME NEW h \in G, above(h) = h PROVE FALSE
    <3>1. {h} \in SUBSET Levels(p) /\ h # NoParent
      BY ForestShape
    <3>2. \E g \in {h} : g = NoParent \/ Parent(p, g) \notin {h}
      BY <3>1, RootReached
    <3> QED BY <2>1, <3>1, <3>2 DEF Parent
  <2> QED BY <2>1
<1>3. \A h, i \in G : i \in C(h) /\ above(i) # NoParent => above(i) \in C(h)
  <2>1. \A h, i \in G : above(i) # NoParent => above(i) \in G
    BY <1>1
  <2>2. \A h, g \in G : g \in C(h) <=> h = g \/ \E i \in G : above(i) = g /\ i \in C(h)
    BY ChainBelow
  <2> QED BY <2>1, <2>2
<1>4. ASSUME NEW h \in G, above(h) # NoParent => above(h) \in Good PROVE h \in Good
  <2> HIDE DEF C, above, G
  <2> SUFFICES ASSUME above(h) # NoParent, h \in C(above(h)) PROVE FALSE
    OBVIOUS
  <2>1. above(h) \in G /\ above(h) # h
    BY <1>1, <1>2
  <2>2. above(above(h)) # NoParent /\ h \in C(above(above(h))) /\ above(above(h)) \in G
    BY <1>1, <2>1
  <2>3. above(h) \in C(above(above(h)))
    BY <1>3, <2>2
  <2> QED BY <1>4, <2>2, <2>3
<1>5. G \subseteq Good
  <2> HIDE DEF Good
  <2> QED BY <1>4, ForestInduction
<1> QED BY <1>5

\* On the way to the root every level is passed once.
LEMMA ChainLinear ==
  ASSUME NEW p, Forest(p), NEW k \in DOMAIN p.groups
  PROVE  /\ \A h, i \in Chain(p, k) : p.groups[h].parent = p.groups[i].parent => h = i
         /\ \A h \in Chain(p, k) : p.groups[h].parent # k
<1> DEFINE G == DOMAIN p.groups
           above(h) == p.groups[h].parent
           C(h) == Chain(p, h)
           Outer(j) == \A h \in C(j) : above(h) # j
           Once(j) == \A h, i \in C(j) : above(h) = above(i) => h = i
           Good == {j \in G : Once(j)}
<1>0. NoParent \notin G
  BY ForestShape
<1>1. \A h \in G : /\ C(h) = {h} \cup (IF above(h) = NoParent THEN {} ELSE C(above(h)))
                   /\ above(h) \in G \cup {NoParent}
  BY ChainUnfold DEF Forest, Levels
<1>2. \A h \in G : above(h) # NoParent => h \notin C(above(h))
  BY ChainAcyclic
<1>3. \A h, i \in G : i \in C(h) /\ above(i) # NoParent => above(i) \in C(h)
  <2>1. \A h, i \in G : above(i) # NoParent => above(i) \in G
    BY <1>1
  <2>2. \A h, g \in G : g \in C(h) <=> h = g \/ \E i \in G : above(i) = g /\ i \in C(h)
    BY ChainBelow
  <2> QED BY <2>1, <2>2
<1>4. \A h \in G : C(h) \subseteq G /\ h \in C(h)
  BY ChainBelow
<1> HIDE DEF C, above, G
<1>5. \A j \in G : Outer(j)
  <2> SUFFICES ASSUME NEW j \in G, NEW h \in C(j), above(h) = j PROVE FALSE
    OBVIOUS
  <2>1. h \in G /\ above(h) # NoParent
    BY <1>0, <1>4
  <2>2. h # j
    BY <1>2, <1>4, <2>1
  <2>3. above(j) # NoParent /\ h \in C(above(j)) /\ above(j) \in G
    BY <1>1, <2>2
  <2>4. j \in C(above(j))
    BY <1>3, <2>1, <2>3
  <2> QED BY <1>2, <2>3, <2>4
<1>6. ASSUME NEW j \in G, above(j) # NoParent => above(j) \in Good PROVE j \in Good
  <2>1. CASE above(j) = NoParent
    BY <1>1, <2>1
  <2>2. CASE above(j) # NoParent
    <3>1. C(j) = {j} \cup C(above(j)) /\ above(j) \in G
      BY <1>1, <2>2
    <3>2. Outer(above(j)) /\ Once(above(j))
      BY <1>5, <1>6, <2>2, <3>1
    <3>3. Once(j)
      BY <3>1, <3>2
    <3> QED BY <3>3
  <2> QED BY <2>1, <2>2
<1>7. G \subseteq Good
  <2> HIDE DEF Good
  <2> QED BY <1>6, ForestInduction DEF G, above
<1> QED BY <1>5, <1>7 DEF C, above, G

\* The subjects in a group or below it; below no group are all of them.
Inside(p, g) ==
  IF g = NoParent THEN DOMAIN p.subjects
  ELSE {s \in DOMAIN p.subjects : g \in Chain(p, p.subjects[s].group)}

\* Added up over the subjects inside, a group has what its own subjects and its
\* subgroups have.
LEMMA RollsUp ==
  ASSUME NEW p, Forest(p), NEW f, \A s \in DOMAIN p.subjects : f[s] \in Int,
         NEW sum, \A g \in DOMAIN p.groups : sum[g] = SumFunctionOnSet(f, Inside(p, g)),
         NEW g \in Levels(p)
  PROVE  SumFunctionOnSet(f, Inside(p, g)) =
           SumFunctionOnSet(f, {s \in DOMAIN p.subjects : p.subjects[s].group = g})
             + SumFunctionOnSet(sum, {h \in DOMAIN p.groups : p.groups[h].parent = g})
<1> DEFINE G == DOMAIN p.groups
           S == DOMAIN p.subjects
           above(h) == p.groups[h].parent
           C(s) == Chain(p, p.subjects[s].group)
           direct == {s \in S : p.subjects[s].group = g}
           children == {h \in G : above(h) = g}
           A == [h \in G |-> Inside(p, h)]
           U == UNION {A[h] : h \in children}
<1>1. NoParent \notin G /\ IsFiniteSet(G) /\ IsFiniteSet(S)
  BY DEF Forest, PolicyType
<1>2. \A h \in G : A[h] = {s \in S : h \in C(s)} /\ A[h] \subseteq S
  BY <1>1 DEF Inside
<1>3. \A s \in S : p.subjects[s].group \in G
  BY DEF Forest
<1>4. \A s \in S : \A h \in G : h \in C(s) <=>
        p.subjects[s].group = h \/ \E i \in G : above(i) = h /\ i \in C(s)
  BY <1>3, ChainBelow
<1>5. \A s \in S : C(s) \subseteq G /\ \E i \in C(s) : above(i) = NoParent
  BY <1>3, ChainBelow
<1>6. \A s \in S : /\ \A h, i \in C(s) : above(h) = above(i) => h = i
                   /\ \A h \in C(s) : above(h) # p.subjects[s].group
  BY <1>3, ChainLinear
<1> HIDE DEF A, C, above
<1>15. \A s : s \in U <=> \E h \in children : s \in A[h]
  <2> HIDE DEF children
  <2> QED OBVIOUS
<1>16. \A h \in children : \A s : s \in A[h] <=> s \in S /\ h \in C(s)
  BY <1>2
<1> HIDE DEF U
<1>7. Inside(p, g) = direct \cup U
  <2>1. CASE g = NoParent
    <3>1. Inside(p, g) = S
      BY <2>1 DEF Inside
    <3>2. \A s \in S : s \in U
      <4> SUFFICES ASSUME NEW s \in S PROVE s \in U
        OBVIOUS
      <4>1. PICK i \in C(s) : above(i) = NoParent
        BY <1>5
      <4>2. i \in children /\ s \in A[i]
        BY <1>2, <1>5, <2>1, <4>1
      <4> QED BY <1>15, <4>2
    <3>3. U \subseteq S
      BY <1>15, <1>16
    <3> QED BY <3>1, <3>2, <3>3
  <2>2. CASE g # NoParent
    <3>1. g \in G
      BY <2>2 DEF Levels
    <3>2. Inside(p, g) = {s \in S : g \in C(s)}
      BY <2>2 DEF Inside, C
    <3>3. \A s \in S : g \in C(s) <=> s \in direct \/ s \in U
      <4> SUFFICES ASSUME NEW s \in S PROVE g \in C(s) <=> s \in direct \/ s \in U
        OBVIOUS
      <4>1. s \in U <=> \E i \in G : above(i) = g /\ i \in C(s)
        BY <1>15, <1>16
      <4> QED BY <1>4, <3>1, <4>1
    <3>4. U \subseteq S
      BY <1>15, <1>16
    <3> QED BY <3>2, <3>3, <3>4
  <2> QED BY <2>1, <2>2
<1>8. direct \cap U = {} /\ \A h, k \in children : h # k => A[h] \cap A[k] = {}
  <2>1. ASSUME NEW s \in direct, s \in U PROVE FALSE
    <3>1. PICK h \in children : s \in A[h]
      BY <1>15, <2>1
    <3>2. s \in S /\ h \in C(s) /\ above(h) = p.subjects[s].group
      BY <1>16, <3>1
    <3> QED BY <1>6, <3>2
  <2>2. ASSUME NEW h \in children, NEW k \in children, NEW s, s \in A[h], s \in A[k] PROVE h = k
    <3>1. s \in S /\ h \in C(s) /\ k \in C(s) /\ above(h) = above(k)
      BY <1>16, <2>2
    <3> QED BY <1>6, <3>1
  <2> QED BY <2>1, <2>2
<1>9. IsFiniteSet(direct) /\ IsFiniteSet(children) /\ \A h \in children : IsFiniteSet(A[h])
  BY <1>1, <1>2, FS_Subset
<1>10. /\ \A h \in children : sum[h] = SumFunctionOnSet(f, A[h])
       /\ \A h \in children : \A x \in A[h] : f[x] \in Int
  BY <1>16 DEF A
<1>11. \A x \in direct \cup U : f[x] \in Int
  BY <1>15, <1>16
<1> HIDE DEF direct, children
<1>12. SumFunctionOnSet(f, U) = SumFunctionOnSet(sum, children) /\ IsFiniteSet(U)
  <2>1. Blocks(f, children, A, sum, U)
    BY <1>8, <1>9, <1>10 DEF Blocks, U
  <2> QED BY <2>1, SumBlocks
<1>13. SumFunctionOnSet(f, direct \cup U) = SumFunctionOnSet(f, direct) + SumFunctionOnSet(f, U)
  BY <1>8, <1>9, <1>11, <1>12, SumUnion
<1>14. SumFunctionOnSet(f, Inside(p, g)) = SumFunctionOnSet(f, direct) + SumFunctionOnSet(sum, children)
  BY <1>7, <1>12, <1>13, Zenon
<1> QED BY <1>14 DEF direct, children, above

===============================================================================
