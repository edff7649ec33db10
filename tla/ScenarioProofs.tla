---------------------------- MODULE ScenarioProofs ----------------------------
(***************************************************************************)
(* The parser is correct for every set of lines, every width of the        *)
(* numbers and documents of every length: what it accepts is the grammar,  *)
(* and what it builds line by line is what the document says as a whole.   *)
(***************************************************************************)
EXTENDS Scenario, SequenceTheorems, AllocationProofs

-------------------------------------------------------------------------------
(* A set of lines from top to bottom.                                      *)

Rank(lines, i) == Cardinality({j \in lines : j <= i})

LEMMA RankBounds ==
  ASSUME NEW lines, IsFiniteSet(lines), lines \subseteq Int, NEW i \in lines
  PROVE  /\ Rank(lines, i) \in Nat /\ Cardinality(lines) \in Nat
         /\ 1 <= Rank(lines, i) /\ Rank(lines, i) <= Cardinality(lines)
<1> DEFINE below == {j \in lines : j <= i}
<1>1. below \in SUBSET lines /\ i \in below
  OBVIOUS
<1> HIDE DEF below
<1>2. IsFiniteSet(below) /\ Cardinality(below) <= Cardinality(lines)
  BY <1>1, FS_Subset
<1>3. Cardinality(below) \in Nat /\ Cardinality(lines) \in Nat
  BY <1>2, FS_CardinalityType
<1>4. Cardinality(below) # 0
  BY <1>1, <1>2, FS_EmptySet
<1>5. 1 <= Cardinality(below)
  BY <1>3, <1>4
<1> QED BY <1>2, <1>3, <1>5 DEF Rank, below

LEMMA RankGrows ==
  ASSUME NEW lines, IsFiniteSet(lines), lines \subseteq Int, NEW i \in lines, NEW j \in lines,
         i < j
  PROVE  Rank(lines, i) < Rank(lines, j)
<1> DEFINE below(k) == {m \in lines : m <= k}
<1>1. below(j) \in SUBSET lines /\ below(i) \in SUBSET below(j)
  <2>1. ASSUME NEW m \in below(i) PROVE m \in below(j)
    <3>1. m \in Int /\ i \in Int /\ j \in Int /\ m \in lines /\ m <= i
      OBVIOUS
    <3> QED BY <3>1
  <2> QED BY <2>1
<1>2. j \in below(j) /\ j \notin below(i)
  OBVIOUS
<1> HIDE DEF below
<1>3. IsFiniteSet(below(j))
  BY <1>1, FS_Subset
<1>4. /\ IsFiniteSet(below(i)) /\ Cardinality(below(i)) <= Cardinality(below(j))
      /\ Cardinality(below(j)) = Cardinality(below(i)) => below(j) = below(i)
  BY <1>1, <1>3, FS_Subset
<1>5. Cardinality(below(i)) \in Nat /\ Cardinality(below(j)) \in Nat
  BY <1>3, <1>4, FS_CardinalityType
<1>6. Cardinality(below(i)) < Cardinality(below(j))
  BY <1>2, <1>4, <1>5
<1> QED BY <1>6 DEF Rank, below

LEMMA RankUnique ==
  ASSUME NEW lines, IsFiniteSet(lines), lines \subseteq Int, NEW i \in lines, NEW j \in lines,
         Rank(lines, i) = Rank(lines, j)
  PROVE  i = j
<1>1. Rank(lines, i) \in Nat
  BY RankBounds
<1>2. ASSUME i < j PROVE FALSE
  <2>1. Rank(lines, i) < Rank(lines, j)
    BY <1>2, RankGrows
  <2> QED BY <2>1, <1>1
<1>3. ASSUME j < i PROVE FALSE
  <2>1. Rank(lines, j) < Rank(lines, i)
    BY <1>3, RankGrows
  <2> QED BY <2>1, <1>1
<1>4. i \in Int /\ j \in Int
  OBVIOUS
<1> QED BY <1>2, <1>3, <1>4

\* The lines below the largest keep their ranks when it is taken away.
LEMMA RankBelow ==
  ASSUME NEW lines, IsFiniteSet(lines), lines \subseteq Int, NEW m \in Int,
         \A j \in lines : j < m
  PROVE  /\ IsFiniteSet(lines \cup {m}) /\ Cardinality(lines \cup {m}) = Cardinality(lines) + 1
         /\ \A i \in lines : Rank(lines \cup {m}, i) = Rank(lines, i)
         /\ Rank(lines \cup {m}, m) = Cardinality(lines) + 1
<1>1. m \notin lines
  OBVIOUS
<1>2. IsFiniteSet(lines \cup {m}) /\ Cardinality(lines \cup {m}) = Cardinality(lines) + 1
  BY <1>1, FS_AddElement
<1>3. ASSUME NEW i \in lines PROVE Rank(lines \cup {m}, i) = Rank(lines, i)
  <2>1. {j \in lines \cup {m} : j <= i} = {j \in lines : j <= i}
    OBVIOUS
  <2> QED BY <2>1 DEF Rank
<1>4. {j \in lines \cup {m} : j <= m} = lines \cup {m}
  <2>1. ASSUME NEW j \in lines \cup {m} PROVE j <= m
    <3>1. j \in Int /\ (j = m \/ j < m)
      OBVIOUS
    <3> QED BY <3>1
  <2> QED BY <2>1
<1>5. Rank(lines \cup {m}, m) = Cardinality(lines \cup {m})
  BY <1>4 DEF Rank
<1> QED BY <1>2, <1>3, <1>5

LEMMA RankReached ==
  ASSUME NEW lines, IsFiniteSet(lines), lines \subseteq Int, NEW k \in 1..Cardinality(lines)
  PROVE  \E i \in lines : Rank(lines, i) = k
<1> DEFINE Full(s) == \A n \in 1..Cardinality(s) : \E i \in s : Rank(s, i) = n
           Bad == {s \in SUBSET lines : ~Full(s)}
<1> SUFFICES ASSUME Bad # {} PROVE FALSE
  OBVIOUS
<1>1. PICK s \in Bad : \A t \in Bad : ~(t \subseteq s /\ t # s)
  <2>1. Bad \in SUBSET SUBSET lines
    OBVIOUS
  <2>2. Bad # {} /\ IsFiniteSet(lines)
    OBVIOUS
  <2> HIDE DEF Bad
  <2> QED BY ONLY <2>1, <2>2, SmallestSet
<1>2. s \subseteq lines /\ ~Full(s) /\ IsFiniteSet(s) /\ s \subseteq Int
  BY <1>1, FS_Subset
<1>3. s # {}
  BY <1>2, FS_EmptySet
<1>4. Max(s) \in s /\ \A x \in s : x <= Max(s)
  BY <1>2, <1>3, MaxOf
<1> DEFINE m == Max(s)
           t == s \ {m}
<1> HIDE DEF Bad
<1>5. t \subseteq s /\ t # s /\ s = t \cup {m} /\ t \subseteq Int /\ m \in Int
  BY <1>2, <1>4
<1>6. IsFiniteSet(t) /\ \A j \in t : j < m
  <2>1. IsFiniteSet(t)
    BY <1>2, FS_RemoveElement
  <2>2. \A j \in t : j <= m /\ j # m /\ j \in Int
    BY <1>2, <1>4
  <2> HIDE DEF m, t
  <2> QED BY <2>1, <2>2, <1>5
<1> HIDE DEF m, t
<1>7. Full(t)
  <2>1. t \in SUBSET lines
    BY <1>2, <1>5
  <2> QED BY <2>1, <1>1, <1>5 DEF Bad
<1>8. /\ Cardinality(s) = Cardinality(t) + 1
      /\ \A i \in t : Rank(s, i) = Rank(t, i)
      /\ Rank(s, m) = Cardinality(t) + 1
  BY <1>5, <1>6, RankBelow
<1>9. Cardinality(t) \in Nat
  BY <1>6, FS_CardinalityType
<1>10. ASSUME NEW n \in 1..Cardinality(s) PROVE \E i \in s : Rank(s, i) = n
  <2>1. CASE n = Cardinality(t) + 1
    BY <2>1, <1>8, <1>5
  <2>2. CASE n # Cardinality(t) + 1
    <3>1. n \in 1..Cardinality(t)
      BY <2>2, <1>8, <1>9
    <3>2. PICK i \in t : Rank(t, i) = n
      BY <3>1, <1>7
    <3> QED BY <3>2, <1>8, <1>5
  <2> QED BY <2>1, <2>2
<1> QED BY <1>10, <1>2

LEMMA TopDownIs ==
  ASSUME NEW lines, IsFiniteSet(lines), lines \subseteq Int, NEW k \in 1..Cardinality(lines)
  PROVE  TopDown(lines)[k] \in lines /\ Rank(lines, TopDown(lines)[k]) = k
<1>1. \E i \in lines : Cardinality({j \in lines : j <= i}) = k
  BY RankReached DEF Rank
<1>2. TopDown(lines)[k] = CHOOSE i \in lines : Cardinality({j \in lines : j <= i}) = k
  BY DEF TopDown
<1>3. TopDown(lines)[k] \in lines /\ Cardinality({j \in lines : j <= TopDown(lines)[k]}) = k
  BY <1>1, <1>2
<1> QED BY <1>3 DEF Rank

\* A line below all of them comes last.
LEMMA TopDownAdd ==
  ASSUME NEW lines, IsFiniteSet(lines), lines \subseteq Int, NEW m \in Int,
         \A j \in lines : j < m
  PROVE  /\ \A k \in 1..Cardinality(lines) : TopDown(lines \cup {m})[k] = TopDown(lines)[k]
         /\ TopDown(lines \cup {m})[Cardinality(lines) + 1] = m
<1> DEFINE more == lines \cup {m}
<1>1. IsFiniteSet(more) /\ more \subseteq Int /\ m \in more /\ lines \subseteq more
  BY FS_AddElement
<1>2. /\ Cardinality(more) = Cardinality(lines) + 1
      /\ \A i \in lines : Rank(more, i) = Rank(lines, i)
      /\ Rank(more, m) = Cardinality(lines) + 1
  BY RankBelow
<1>3. Cardinality(lines) \in Nat
  BY FS_CardinalityType
<1> HIDE DEF more
<1>4. ASSUME NEW k \in 1..Cardinality(lines) PROVE TopDown(more)[k] = TopDown(lines)[k]
  <2>1. TopDown(lines)[k] \in lines /\ Rank(lines, TopDown(lines)[k]) = k
    BY TopDownIs
  <2>2. k \in 1..Cardinality(more)
    BY <1>2, <1>3
  <2>3. TopDown(more)[k] \in more /\ Rank(more, TopDown(more)[k]) = k
    BY <2>2, <1>1, TopDownIs
  <2> QED BY <2>1, <2>3, <1>1, <1>2, RankUnique
<1>5. TopDown(more)[Cardinality(lines) + 1] = m
  <2>1. Cardinality(lines) + 1 \in 1..Cardinality(more)
    BY <1>2, <1>3
  <2>2. /\ TopDown(more)[Cardinality(lines) + 1] \in more
        /\ Rank(more, TopDown(more)[Cardinality(lines) + 1]) = Cardinality(lines) + 1
    BY <2>1, <1>1, TopDownIs
  <2> QED BY <2>2, <1>1, <1>2, RankUnique
<1> QED BY <1>4, <1>5 DEF more

\* The last of them is the largest.
LEMMA TopDownLast ==
  ASSUME NEW lines, IsFiniteSet(lines), lines \subseteq Int, lines # {}
  PROVE  /\ Cardinality(lines) \in Nat \ {0}
         /\ TopDown(lines)[Cardinality(lines)] = Max(lines)
<1>1. Cardinality(lines) \in Nat \ {0}
  BY FS_CardinalityType, FS_EmptySet
<1>2. Max(lines) \in lines /\ \A x \in lines : x <= Max(lines)
  BY MaxOf
<1>3. {j \in lines : j <= Max(lines)} = lines
  BY <1>2
<1>4. Rank(lines, Max(lines)) = Cardinality(lines)
  BY <1>3 DEF Rank
<1>5. /\ TopDown(lines)[Cardinality(lines)] \in lines
      /\ Rank(lines, TopDown(lines)[Cardinality(lines)]) = Cardinality(lines)
  <2>1. Cardinality(lines) \in 1..Cardinality(lines)
    BY <1>1
  <2> QED BY <2>1, TopDownIs
<1> QED BY <1>1, <1>2, <1>4, <1>5, RankUnique

-------------------------------------------------------------------------------
(* One more line.                                                          *)

LEMMA OneMore ==
  ASSUME NEW d \in Seq(Lines), NEW l \in Lines
  PROVE  /\ Append(d, l) \in Seq(Lines) /\ Len(Append(d, l)) = Len(d) + 1
         /\ Len(d) \in Nat /\ DOMAIN d = 1..Len(d) /\ DOMAIN Append(d, l) = 1..(Len(d) + 1)
         /\ \A i \in 1..Len(d) : Append(d, l)[i] = d[i] /\ d[i] \in Lines
         /\ Append(d, l)[Len(d) + 1] = l
OBVIOUS

LEMMA BoundedLines ==
  ASSUME NEW n \in Nat, NEW lines, lines \subseteq 1..n
  PROVE  /\ IsFiniteSet(lines) /\ lines \subseteq Int /\ \A i \in lines : i < n + 1
         /\ lines \cup {n + 1} \subseteq 1..(n + 1)
<1>1. IsFiniteSet(1..n)
  BY FS_Interval
<1>2. IsFiniteSet(lines)
  BY <1>1, FS_Subset
<1>3. ASSUME NEW i \in lines \cup {n + 1} PROVE i \in 1..(n + 1)
  <2>1. i \in 1..n \/ i = n + 1
    OBVIOUS
  <2> QED BY <2>1
<1> QED BY <1>2, <1>3

LEMMA LinesFinite ==
  ASSUME NEW d \in Seq(Lines), NEW directive
  PROVE  /\ LinesOf(d, directive) \subseteq 1..Len(d)
         /\ LinesOf(d, directive) \subseteq Int
         /\ IsFiniteSet(LinesOf(d, directive))
         /\ \A i \in LinesOf(d, directive) : i < Len(d) + 1
<1>1. Len(d) \in Nat /\ DOMAIN d = 1..Len(d)
  OBVIOUS
<1>2. LinesOf(d, directive) \subseteq 1..Len(d)
  BY <1>1 DEF LinesOf
<1> QED BY <1>1, <1>2, BoundedLines

LEMMA LinesOther ==
  ASSUME NEW d \in Seq(Lines), NEW l \in Lines, NEW directive, l.directive # directive
  PROVE  LinesOf(Append(d, l), directive) = LinesOf(d, directive)
<1>1. ASSUME NEW i \in LinesOf(Append(d, l), directive) PROVE i \in LinesOf(d, directive)
  BY OneMore DEF LinesOf
<1>2. ASSUME NEW i \in LinesOf(d, directive) PROVE i \in LinesOf(Append(d, l), directive)
  BY OneMore DEF LinesOf
<1> QED BY <1>1, <1>2

LEMMA LinesSame ==
  ASSUME NEW d \in Seq(Lines), NEW l \in Lines
  PROVE  LinesOf(Append(d, l), l.directive) = LinesOf(d, l.directive) \cup {Len(d) + 1}
<1>1. ASSUME NEW i \in LinesOf(Append(d, l), l.directive)
      PROVE  i \in LinesOf(d, l.directive) \cup {Len(d) + 1}
  BY OneMore DEF LinesOf
<1>2. ASSUME NEW i \in LinesOf(d, l.directive) \cup {Len(d) + 1}
      PROVE  i \in LinesOf(Append(d, l), l.directive)
  BY OneMore DEF LinesOf
<1> QED BY <1>1, <1>2

\* The largest of a set and a larger number is that number.
LEMMA MaxAdd ==
  ASSUME NEW lines, IsFiniteSet(lines), lines \subseteq Int, NEW m \in Int,
         \A j \in lines : j < m
  PROVE  Max(lines \cup {m}) = m
<1> DEFINE more == lines \cup {m}
<1>1. IsFiniteSet(more) /\ more # {} /\ more \subseteq Int /\ m \in more
  BY FS_AddElement
<1>2. \A j \in more : j = m \/ j < m
  OBVIOUS
<1> HIDE DEF more
<1>3. Max(more) \in more /\ m <= Max(more)
  BY <1>1, MaxOf
<1>4. Max(more) = m
  <2>1. Max(more) \in Int /\ (Max(more) = m \/ Max(more) < m)
    BY <1>1, <1>2, <1>3
  <2> QED BY <2>1, <1>3
<1> QED BY <1>4 DEF more

\* What the last line with a directive says.
LEMMA LastOther ==
  ASSUME NEW d \in Seq(Lines), NEW lines, lines \subseteq 1..Len(d), lines # {}, NEW l \in Lines
  PROVE  Max(lines) \in 1..Len(d) /\ Append(d, l)[Max(lines)] = d[Max(lines)]
<1>1. Len(d) \in Nat
  OBVIOUS
<1>2. IsFiniteSet(lines) /\ lines \subseteq Int
  BY <1>1, BoundedLines
<1>3. Max(lines) \in lines
  BY <1>2, MaxOf
<1> QED BY <1>3, OneMore

LEMMA LastSame ==
  ASSUME NEW d \in Seq(Lines), NEW l \in Lines
  PROVE  /\ LinesOf(Append(d, l), l.directive) # {}
         /\ Append(d, l)[Max(LinesOf(Append(d, l), l.directive))] = l
<1>1. Max(LinesOf(d, l.directive) \cup {Len(d) + 1}) = Len(d) + 1
  <2>1. Len(d) + 1 \in Int
    OBVIOUS
  <2> QED BY <2>1, LinesFinite, MaxAdd
<1>2. Max(LinesOf(Append(d, l), l.directive)) = Len(d) + 1
  BY <1>1, LinesSame
<1>3. LinesOf(Append(d, l), l.directive) # {}
  <2>1. LinesOf(Append(d, l), l.directive) = LinesOf(d, l.directive) \cup {Len(d) + 1}
    BY LinesSame
  <2> QED BY <2>1, Zenon
<1>4. Append(d, l)[Len(d) + 1] = l
  BY OneMore
<1> QED BY <1>2, <1>3, <1>4

-------------------------------------------------------------------------------
(* Sequences that grow with the document.                                  *)

HasLength(f, c) == f = [k \in 1..c |-> f[k]]

LEMMA Grown ==
  ASSUME NEW c \in Nat, NEW f, NEW g, HasLength(f, c), HasLength(g, c + 1),
         \A k \in 1..c : g[k] = f[k]
  PROVE  Append(f, g[c + 1]) = g
<1> DEFINE x == g[c + 1]
<1> USE DEF HasLength
<1> DEFINE S == {f[k] : k \in 1..c} \cup {x}
<1>1. f \in Seq(S) /\ Len(f) = c
  <2>1. \A k \in 1..c : f[k] \in S
    OBVIOUS
  <2>2. f \in [1..c -> S]
    BY <2>1
  <2>3. c \in Nat
    OBVIOUS
  <2> HIDE DEF S
  <2> QED BY ONLY <2>2, <2>3
<1>2. x \in S
  OBVIOUS
<1> HIDE DEF S
<1>3. /\ Append(f, x) \in Seq(S) /\ Len(Append(f, x)) = c + 1
      /\ \A k \in 1..c : Append(f, x)[k] = f[k]
      /\ Append(f, x)[c + 1] = x
  BY <1>1, <1>2
<1>4. g \in Seq(S) /\ Len(g) = c + 1
  <2>1. \A k \in 1..(c + 1) : g[k] \in S
    <3>1. \A k \in 1..c : f[k] \in S
      BY <1>1
    <3> QED BY <3>1, <1>2
  <2>2. g \in [1..(c + 1) -> S]
    BY <2>1
  <2> QED BY <2>2
<1>5. \A k \in 1..(c + 1) : Append(f, x)[k] = g[k]
  <2> SUFFICES ASSUME NEW k \in 1..(c + 1) PROVE Append(f, x)[k] = g[k]
    OBVIOUS
  <2>1. k = c + 1 \/ k \in 1..c
    OBVIOUS
  <2> QED BY <2>1, <1>3
<1> QED BY <1>3, <1>4, <1>5, SeqEqual

LEMMA NoElements ==
  ASSUME NEW f, f = [k \in 1..0 |-> f[k]]
  PROVE  f = <<>>
<1>1. f \in [1..0 -> {}]
  OBVIOUS
<1>2. f \in Seq({}) /\ Len(f) = 0
  BY <1>1
<1> QED BY <1>2, EmptySeq

\* The values of a function at a set of lines, from top to bottom.
ValuesAt(v, lines) == [k \in 1..Cardinality(lines) |-> v[TopDown(lines)[k]]]

LEMMA ValuesSame ==
  ASSUME NEW n \in Nat, NEW lines, lines \subseteq 1..n, NEW v, NEW w, \A i \in lines : v[i] = w[i]
  PROVE  ValuesAt(v, lines) = ValuesAt(w, lines)
<1>1. \A k \in 1..Cardinality(lines) : TopDown(lines)[k] \in lines
  BY BoundedLines, TopDownIs
<1>2. \A k \in 1..Cardinality(lines) : v[TopDown(lines)[k]] = w[TopDown(lines)[k]]
  BY <1>1
<1> QED BY <1>2 DEF ValuesAt

LEMMA ValuesAdd ==
  ASSUME NEW n \in Nat, NEW lines, lines \subseteq 1..n, NEW v, NEW w, \A i \in lines : v[i] = w[i]
  PROVE  ValuesAt(w, lines \cup {n + 1}) = Append(ValuesAt(v, lines), w[n + 1])
<1> DEFINE m == n + 1
           c == Cardinality(lines)
           f == ValuesAt(v, lines)
           g == ValuesAt(w, lines \cup {m})
<1>1. IsFiniteSet(lines) /\ lines \subseteq Int /\ m \in Int /\ \A j \in lines : j < m
  <2>1. IsFiniteSet(lines) /\ lines \subseteq Int /\ \A j \in lines : j < n + 1
    BY BoundedLines
  <2> QED BY <2>1
<1>2. Cardinality(lines \cup {m}) = c + 1 /\ c \in Nat
  <2> HIDE DEF m
  <2> QED BY <1>1, RankBelow, FS_CardinalityType
<1>3. /\ \A k \in 1..c : TopDown(lines \cup {m})[k] = TopDown(lines)[k]
      /\ TopDown(lines \cup {m})[c + 1] = m
  <2> HIDE DEF m
  <2> QED BY <1>1, TopDownAdd
<1>4. \A k \in 1..c : TopDown(lines)[k] \in lines
  BY <1>1, TopDownIs
<1>5. /\ f = [k \in 1..c |-> v[TopDown(lines)[k]]]
      /\ g = [k \in 1..(c + 1) |-> w[TopDown(lines \cup {m})[k]]]
  BY <1>2 DEF ValuesAt
<1> HIDE DEF c, f, g, m
<1>6. HasLength(f, c) /\ HasLength(g, c + 1)
  BY <1>5 DEF HasLength
<1>7. ASSUME NEW k \in 1..c PROVE g[k] = f[k]
  <2>1. k \in 1..(c + 1)
    BY <1>2
  <2>2. g[k] = w[TopDown(lines \cup {m})[k]] /\ f[k] = v[TopDown(lines)[k]]
    BY <2>1, <1>5
  <2> QED BY <2>2, <1>3, <1>4
<1>8. g[c + 1] = w[m]
  <2>1. c + 1 \in 1..(c + 1)
    BY <1>2
  <2> QED BY <2>1, <1>3, <1>5
<1>9. Append(f, g[c + 1]) = g
  BY <1>2, <1>6, <1>7, Grown
<1> QED BY <1>8, <1>9 DEF f, g, m

LEMMA ValuesNone ==
  ASSUME NEW v
  PROVE  ValuesAt(v, {}) = <<>>
<1>1. ValuesAt(v, {}) = [k \in 1..0 |-> v[TopDown({})[k]]]
  BY FS_EmptySet DEF ValuesAt
<1> DEFINE f == ValuesAt(v, {})
<1>2. f = [k \in 1..0 |-> f[k]]
  BY <1>1
<1> HIDE DEF f
<1>3. f = <<>>
  BY <1>2, NoElements
<1> QED BY <1>3 DEF f

LEMMA LabelledValues ==
  ASSUME NEW d \in Seq(Lines), NEW lines, lines \subseteq 1..Len(d)
  PROVE  LabelledAt(d, lines) = ValuesAt([i \in DOMAIN d |-> Labelled(d[i])], lines)
<1>1. Len(d) \in Nat /\ DOMAIN d = 1..Len(d)
  OBVIOUS
<1>2. \A k \in 1..Cardinality(lines) : TopDown(lines)[k] \in DOMAIN d
  BY <1>1, BoundedLines, TopDownIs
<1> QED BY <1>2 DEF LabelledAt, ValuesAt

LEMMA LabelledOther ==
  ASSUME NEW d \in Seq(Lines), NEW l \in Lines, NEW lines, lines \subseteq 1..Len(d)
  PROVE  LabelledAt(Append(d, l), lines) = LabelledAt(d, lines)
<1> DEFINE e == Append(d, l)
           v == [i \in DOMAIN d |-> Labelled(d[i])]
           w == [i \in DOMAIN e |-> Labelled(e[i])]
<1>1. e \in Seq(Lines) /\ lines \subseteq 1..Len(e) /\ Len(d) \in Nat
  BY OneMore
<1>2. LabelledAt(d, lines) = ValuesAt(v, lines) /\ LabelledAt(e, lines) = ValuesAt(w, lines)
  <2> HIDE DEF e
  <2> QED BY <1>1, LabelledValues
<1>3. \A i \in lines : w[i] = v[i]
  <2>1. /\ Len(d) \in Nat /\ DOMAIN d = 1..Len(d) /\ DOMAIN e = 1..(Len(d) + 1)
        /\ \A i \in 1..Len(d) : e[i] = d[i]
    BY OneMore
  <2> HIDE DEF e
  <2>2. \A i \in lines : i \in DOMAIN d /\ i \in DOMAIN e /\ e[i] = d[i]
    BY <2>1
  <2> QED BY <2>2
<1> HIDE DEF v, w
<1>4. ValuesAt(w, lines) = ValuesAt(v, lines)
  BY <1>1, <1>3, ValuesSame
<1> QED BY <1>2, <1>4

LEMMA LabelledSame ==
  ASSUME NEW d \in Seq(Lines), NEW l \in Lines, NEW lines, lines \subseteq 1..Len(d)
  PROVE  LabelledAt(Append(d, l), lines \cup {Len(d) + 1}) = Append(LabelledAt(d, lines), Labelled(l))
<1> DEFINE e == Append(d, l)
           more == lines \cup {Len(d) + 1}
           v == [i \in DOMAIN d |-> Labelled(d[i])]
           w == [i \in DOMAIN e |-> Labelled(e[i])]
<1>1. e \in Seq(Lines) /\ more \subseteq 1..Len(e) /\ Len(d) \in Nat
  <2>1. e \in Seq(Lines) /\ Len(e) = Len(d) + 1 /\ Len(d) \in Nat
    BY OneMore
  <2>2. more \subseteq 1..(Len(d) + 1)
    BY <2>1, BoundedLines
  <2> QED BY <2>1, <2>2
<1>2. LabelledAt(d, lines) = ValuesAt(v, lines) /\ LabelledAt(e, more) = ValuesAt(w, more)
  <2> HIDE DEF e, more
  <2> QED BY <1>1, LabelledValues
<1>3. (\A i \in lines : v[i] = w[i]) /\ w[Len(d) + 1] = Labelled(l)
  <2>1. /\ Len(d) \in Nat /\ DOMAIN d = 1..Len(d) /\ DOMAIN e = 1..(Len(d) + 1)
        /\ (\A i \in 1..Len(d) : e[i] = d[i]) /\ e[Len(d) + 1] = l
    BY OneMore
  <2> HIDE DEF e
  <2>2. \A i \in lines : i \in DOMAIN d /\ i \in DOMAIN e /\ e[i] = d[i]
    BY <2>1
  <2>3. \A i \in lines : v[i] = w[i]
    BY <2>2
  <2>4. Len(d) + 1 \in DOMAIN e
    BY <2>1
  <2>5. w[Len(d) + 1] = Labelled(l)
    BY <2>1, <2>4
  <2> QED BY <2>3, <2>5
<1> HIDE DEF v, w
<1>4. ValuesAt(w, lines \cup {Len(d) + 1}) = Append(ValuesAt(v, lines), w[Len(d) + 1])
  BY <1>1, <1>3, ValuesAdd
<1> QED BY <1>2, <1>3, <1>4

LEMMA EntitiesValues ==
  ASSUME NEW d \in Seq(Lines), NEW lines, lines \subseteq 1..Len(d)
  PROVE  EntitiesAt(d, lines) = ValuesAt([i \in DOMAIN d |-> Entity(d[i])], lines)
<1>1. Len(d) \in Nat /\ DOMAIN d = 1..Len(d)
  OBVIOUS
<1>2. \A k \in 1..Cardinality(lines) : TopDown(lines)[k] \in DOMAIN d
  BY <1>1, BoundedLines, TopDownIs
<1> QED BY <1>2 DEF EntitiesAt, ValuesAt

LEMMA EntitiesOther ==
  ASSUME NEW d \in Seq(Lines), NEW l \in Lines, NEW lines, lines \subseteq 1..Len(d)
  PROVE  EntitiesAt(Append(d, l), lines) = EntitiesAt(d, lines)
<1> DEFINE e == Append(d, l)
           v == [i \in DOMAIN d |-> Entity(d[i])]
           w == [i \in DOMAIN e |-> Entity(e[i])]
<1>1. e \in Seq(Lines) /\ lines \subseteq 1..Len(e) /\ Len(d) \in Nat
  BY OneMore
<1>2. EntitiesAt(d, lines) = ValuesAt(v, lines) /\ EntitiesAt(e, lines) = ValuesAt(w, lines)
  <2> HIDE DEF e
  <2> QED BY <1>1, EntitiesValues
<1>3. \A i \in lines : w[i] = v[i]
  <2>1. /\ Len(d) \in Nat /\ DOMAIN d = 1..Len(d) /\ DOMAIN e = 1..(Len(d) + 1)
        /\ \A i \in 1..Len(d) : e[i] = d[i]
    BY OneMore
  <2> HIDE DEF e
  <2>2. \A i \in lines : i \in DOMAIN d /\ i \in DOMAIN e /\ e[i] = d[i]
    BY <2>1
  <2> QED BY <2>2
<1> HIDE DEF v, w
<1>4. ValuesAt(w, lines) = ValuesAt(v, lines)
  BY <1>1, <1>3, ValuesSame
<1> QED BY <1>2, <1>4

LEMMA EntitiesSame ==
  ASSUME NEW d \in Seq(Lines), NEW l \in Lines, NEW lines, lines \subseteq 1..Len(d)
  PROVE  EntitiesAt(Append(d, l), lines \cup {Len(d) + 1}) = Append(EntitiesAt(d, lines), Entity(l))
<1> DEFINE e == Append(d, l)
           more == lines \cup {Len(d) + 1}
           v == [i \in DOMAIN d |-> Entity(d[i])]
           w == [i \in DOMAIN e |-> Entity(e[i])]
<1>1. e \in Seq(Lines) /\ more \subseteq 1..Len(e) /\ Len(d) \in Nat
  <2>1. e \in Seq(Lines) /\ Len(e) = Len(d) + 1 /\ Len(d) \in Nat
    BY OneMore
  <2>2. more \subseteq 1..(Len(d) + 1)
    BY <2>1, BoundedLines
  <2> QED BY <2>1, <2>2
<1>2. EntitiesAt(d, lines) = ValuesAt(v, lines) /\ EntitiesAt(e, more) = ValuesAt(w, more)
  <2> HIDE DEF e, more
  <2> QED BY <1>1, EntitiesValues
<1>3. (\A i \in lines : v[i] = w[i]) /\ w[Len(d) + 1] = Entity(l)
  <2>1. /\ Len(d) \in Nat /\ DOMAIN d = 1..Len(d) /\ DOMAIN e = 1..(Len(d) + 1)
        /\ (\A i \in 1..Len(d) : e[i] = d[i]) /\ e[Len(d) + 1] = l
    BY OneMore
  <2> HIDE DEF e
  <2>2. \A i \in lines : i \in DOMAIN d /\ i \in DOMAIN e /\ e[i] = d[i]
    BY <2>1
  <2>3. \A i \in lines : v[i] = w[i]
    BY <2>2
  <2>4. Len(d) + 1 \in DOMAIN e
    BY <2>1
  <2>5. w[Len(d) + 1] = Entity(l)
    BY <2>1, <2>4
  <2> QED BY <2>3, <2>5
<1> HIDE DEF v, w
<1>4. ValuesAt(w, lines \cup {Len(d) + 1}) = Append(ValuesAt(v, lines), w[Len(d) + 1])
  BY <1>1, <1>3, ValuesAdd
<1> QED BY <1>2, <1>3, <1>4

-------------------------------------------------------------------------------
(* Where a line stands.                                                    *)

LEMMA LeadsOld ==
  ASSUME NEW d \in Seq(Lines), NEW l \in Lines, NEW i \in 1..(Len(d) + 1)
  PROVE  Leads(Append(d, l), i) <=> Leads(d, i)
<1>1. \A j \in 1..(i - 1) : Append(d, l)[j] = d[j]
  <2>1. \A j \in 1..(i - 1) : j \in 1..Len(d)
    OBVIOUS
  <2> QED BY <2>1, OneMore
<1> QED BY <1>1 DEF Leads

LEMMA LeadsNew ==
  ASSUME NEW d \in Seq(Lines), NEW l \in Lines
  PROVE  Leads(Append(d, l), Len(d) + 2) <=> Leads(d, Len(d) + 1) /\ l.directive = "blank"
<1> DEFINE e == Append(d, l)
           n == Len(d)
<1>1. n \in Nat /\ (\A i \in 1..n : e[i] = d[i]) /\ e[n + 1] = l
  BY OneMore
<1> HIDE DEF e, n
<1>2. (n + 2) - 1 = n + 1 /\ (n + 1) - 1 = n
  BY <1>1
<1>3. Leads(e, n + 2) <=> \A j \in 1..(n + 1) : e[j].directive = "blank"
  BY <1>2 DEF Leads
<1>4. Leads(d, n + 1) <=> \A j \in 1..n : d[j].directive = "blank"
  BY <1>2 DEF Leads
<1>5. \A j : j \in 1..(n + 1) <=> j \in 1..n \/ j = n + 1
  BY <1>1
<1>6. Leads(e, n + 2) <=> Leads(d, n + 1) /\ l.directive = "blank"
  BY <1>1, <1>3, <1>4, <1>5
<1> QED BY <1>6 DEF e, n

\* The section openers above line i.
Openers(d, i) == {j \in 1..(i - 1) : d[j].directive \in Sections}

LEMMA OpenersBounded ==
  ASSUME NEW d, NEW i \in Nat \ {0}
  PROVE  /\ IsFiniteSet(Openers(d, i)) /\ Openers(d, i) \subseteq Int
         /\ \A j \in Openers(d, i) : j \in 1..(i - 1) /\ d[j].directive \in Sections /\ j < i
         /\ Openers(d, i) # {} => Max(Openers(d, i)) \in Openers(d, i)
<1>1. i - 1 \in Nat /\ Openers(d, i) \subseteq 1..(i - 1)
  BY DEF Openers
<1>2. IsFiniteSet(Openers(d, i)) /\ Openers(d, i) \subseteq Int
  BY <1>1, BoundedLines
<1>3. Openers(d, i) # {} => Max(Openers(d, i)) \in Openers(d, i)
  BY <1>2, MaxOf
<1>4. \A j \in Openers(d, i) : j \in 1..(i - 1) /\ d[j].directive \in Sections /\ j < i
  BY DEF Openers
<1> QED BY <1>2, <1>3, <1>4

LEMMA SectionIs ==
  ASSUME NEW d, NEW i
  PROVE  SectionOf(d, i) = IF Openers(d, i) = {} THEN "none" ELSE d[Max(Openers(d, i))].directive
BY DEF SectionOf, Openers

LEMMA SectionOld ==
  ASSUME NEW d \in Seq(Lines), NEW l \in Lines, NEW i \in 1..(Len(d) + 1)
  PROVE  SectionOf(Append(d, l), i) = SectionOf(d, i)
<1> DEFINE e == Append(d, l)
<1>1. \A j \in 1..(i - 1) : e[j] = d[j]
  <2>1. \A j \in 1..(i - 1) : j \in 1..Len(d)
    OBVIOUS
  <2> QED BY <2>1, OneMore
<1> HIDE DEF e
<1>2. Openers(e, i) = Openers(d, i)
  BY <1>1 DEF Openers
<1>3. i \in Nat \ {0}
  OBVIOUS
<1>4. Openers(d, i) # {} => e[Max(Openers(d, i))] = d[Max(Openers(d, i))]
  BY <1>1, <1>3, OpenersBounded
<1>5. SectionOf(e, i) = SectionOf(d, i)
  BY <1>2, <1>4, SectionIs
<1> QED BY <1>5 DEF e

LEMMA SectionNew ==
  ASSUME NEW d \in Seq(Lines), NEW l \in Lines
  PROVE  SectionOf(Append(d, l), Len(d) + 2) =
           IF l.directive \in Sections THEN l.directive ELSE SectionOf(d, Len(d) + 1)
<1> DEFINE e == Append(d, l)
           n == Len(d)
<1>1. n \in Nat /\ (\A i \in 1..n : e[i] = d[i]) /\ e[n + 1] = l
  BY OneMore
<1>2. SectionOf(e, n + 1) = SectionOf(d, n + 1)
  <2>1. n + 1 \in 1..(Len(d) + 1)
    BY <1>1
  <2> QED BY <2>1, SectionOld
<1> HIDE DEF e, n
<1>3. n + 1 \in Nat \ {0} /\ n + 1 \in Int /\ (n + 2) - 1 = n + 1 /\ (n + 1) - 1 = n
  BY <1>1
<1>4. \A j : j \in 1..(n + 1) <=> j \in 1..n \/ j = n + 1
  BY <1>1
<1>5. CASE l.directive \in Sections
  <2>1. Openers(e, n + 2) = Openers(e, n + 1) \cup {n + 1}
    BY <1>1, <1>3, <1>4, <1>5 DEF Openers
  <2>2. /\ IsFiniteSet(Openers(e, n + 1)) /\ Openers(e, n + 1) \subseteq Int
        /\ \A j \in Openers(e, n + 1) : j < n + 1
    BY <1>3, OpenersBounded
  <2>3. Max(Openers(e, n + 2)) = n + 1
    BY <1>3, <2>1, <2>2, MaxAdd
  <2>4. Openers(e, n + 2) # {}
    BY <2>1
  <2> QED BY <1>1, <1>5, <2>3, <2>4, SectionIs DEF e, n
<1>6. CASE l.directive \notin Sections
  <2>1. Openers(e, n + 2) = Openers(e, n + 1)
    BY <1>1, <1>3, <1>4, <1>6 DEF Openers
  <2>2. SectionOf(e, n + 2) = SectionOf(e, n + 1)
    BY <2>1, SectionIs
  <2> QED BY <1>2, <1>6, <2>2 DEF e, n
<1> QED BY <1>5, <1>6

\* Inside a section something has been said, and it was opened by a line of its own.
LEMMA SectionOpened ==
  ASSUME NEW d \in Seq(Lines), NEW i \in 1..(Len(d) + 1), SectionOf(d, i) # "none"
  PROVE  ~Leads(d, i) /\ LinesOf(d, SectionOf(d, i)) # {}
<1> DEFINE m == Max(Openers(d, i))
<1>1. i \in Nat \ {0} /\ Len(d) \in Nat /\ DOMAIN d = 1..Len(d)
  OBVIOUS
<1>2. Openers(d, i) # {} /\ SectionOf(d, i) = d[m].directive
  BY SectionIs
<1>3. m \in 1..(i - 1) /\ d[m].directive \in Sections
  BY <1>1, <1>2, OpenersBounded
<1> HIDE DEF m
<1>4. d[m].directive # "blank"
  BY <1>3 DEF Sections
<1>5. m \in DOMAIN d
  BY <1>1, <1>3
<1> QED BY <1>2, <1>3, <1>4, <1>5 DEF Leads, LinesOf

LEMMA InPlaceOld ==
  ASSUME NEW d \in Seq(Lines), NEW l \in Lines, NEW i \in 1..Len(d)
  PROVE  InPlace(Append(d, l), i) <=> InPlace(d, i)
<1>1. i \in 1..(Len(d) + 1)
  OBVIOUS
<1>2. Append(d, l)[i] = d[i]
  BY OneMore
<1>3. /\ Leads(Append(d, l), i) <=> Leads(d, i)
      /\ SectionOf(Append(d, l), i) = SectionOf(d, i)
  BY <1>1, LeadsOld, SectionOld
<1> QED BY <1>2, <1>3 DEF InPlace

\* What the last line needs to be in place.
Fitting(d, l) ==
  \/ l.directive = "blank"
  \/ l.directive = "version" /\ Leads(d, Len(d) + 1) /\ Single(l) /\ l.args[1] = <<1>>
  \/ l.directive = "epoch" /\ ~Leads(d, Len(d) + 1) /\ Single(l)
  \/ l.directive \in {"policy", "evidence"} /\ ~Leads(d, Len(d) + 1) /\ Identified(l)
  \/ l.directive \in {"group", "subject"} /\ SectionOf(d, Len(d) + 1) = "policy" /\ Identified(l)
  \/ l.directive = "obs" /\ SectionOf(d, Len(d) + 1) = "evidence" /\ Identified(l)
  \/ l.directive = "request" /\ ~Leads(d, Len(d) + 1) /\ l.args = <<>> /\ AttributesFit(l)

LEMMA GrammaticalAdd ==
  ASSUME NEW d \in Seq(Lines), NEW l \in Lines
  PROVE  Grammatical(Append(d, l)) <=> Grammatical(d) /\ Fitting(d, l)
<1> DEFINE e == Append(d, l)
           n == Len(d)
<1>1. n \in Nat /\ DOMAIN d = 1..n /\ DOMAIN e = 1..(n + 1) /\ e[n + 1] = l
  BY OneMore
<1>2. \A i \in 1..n : InPlace(e, i) <=> InPlace(d, i)
  BY InPlaceOld
<1>3. InPlace(e, n + 1) <=> Fitting(d, l)
  <2>1. n + 1 \in 1..(Len(d) + 1)
    BY <1>1
  <2>2. (Leads(e, n + 1) <=> Leads(d, n + 1)) /\ SectionOf(e, n + 1) = SectionOf(d, n + 1)
    BY <2>1, LeadsOld, SectionOld
  <2> HIDE DEF e
  <2> QED BY <1>1, <2>2 DEF InPlace, Fitting
<1> HIDE DEF e, n
<1>4. \A j : j \in 1..(n + 1) <=> j \in 1..n \/ j = n + 1
  BY <1>1
<1>5. Grammatical(e) <=> Grammatical(d) /\ Fitting(d, l)
  BY <1>1, <1>2, <1>3, <1>4 DEF Grammatical
<1> QED BY <1>5 DEF e

-------------------------------------------------------------------------------
(* What one more line adds to what the document says.                      *)

\* A number of the last line with a directive, and the fields of the last request.
LastArg(d, directive, i) ==
  IF LinesOf(d, directive) = {} THEN 0 ELSE d[Max(LinesOf(d, directive))].args[i][1]

RequestOf(d) ==
  IF LinesOf(d, "request") = {} THEN NoFields
  ELSE Assigned(NoFields, d[Max(LinesOf(d, "request"))].attrs)

LEMMA LastKept ==
  ASSUME NEW d \in Seq(Lines), NEW l \in Lines, NEW directive, l.directive # directive
  PROVE  LinesOf(d, directive) # {} =>
           Append(d, l)[Max(LinesOf(Append(d, l), directive))] = d[Max(LinesOf(d, directive))]
<1>1. LinesOf(Append(d, l), directive) = LinesOf(d, directive)
  BY LinesOther
<1>2. LinesOf(d, directive) \subseteq 1..Len(d)
  BY LinesFinite
<1> QED BY <1>1, <1>2, LastOther

LEMMA LastArgOther ==
  ASSUME NEW d \in Seq(Lines), NEW l \in Lines, NEW directive, l.directive # directive, NEW i
  PROVE  LastArg(Append(d, l), directive, i) = LastArg(d, directive, i)
<1>1. LinesOf(Append(d, l), directive) = LinesOf(d, directive)
  BY LinesOther
<1>2. LinesOf(d, directive) # {} =>
        Append(d, l)[Max(LinesOf(Append(d, l), directive))] = d[Max(LinesOf(d, directive))]
  BY LastKept
<1>3. CASE LinesOf(d, directive) = {}
  BY <1>1, <1>3 DEF LastArg
<1>4. CASE LinesOf(d, directive) # {}
  BY <1>1, <1>2, <1>4 DEF LastArg
<1> QED BY <1>3, <1>4

LEMMA LastArgSame ==
  ASSUME NEW d \in Seq(Lines), NEW l \in Lines, NEW i
  PROVE  LastArg(Append(d, l), l.directive, i) = l.args[i][1]
BY LastSame DEF LastArg

LEMMA RequestOther ==
  ASSUME NEW d \in Seq(Lines), NEW l \in Lines, l.directive # "request"
  PROVE  RequestOf(Append(d, l)) = RequestOf(d)
<1>1. LinesOf(Append(d, l), "request") = LinesOf(d, "request")
  BY LinesOther
<1>2. LinesOf(d, "request") # {} =>
        Append(d, l)[Max(LinesOf(Append(d, l), "request"))] = d[Max(LinesOf(d, "request"))]
  BY LastKept
<1>3. CASE LinesOf(d, "request") = {}
  BY <1>1, <1>3 DEF RequestOf
<1>4. CASE LinesOf(d, "request") # {}
  BY <1>1, <1>2, <1>4 DEF RequestOf
<1> QED BY <1>3, <1>4

LEMMA RequestSame ==
  ASSUME NEW d \in Seq(Lines), NEW l \in Lines, l.directive = "request"
  PROVE  RequestOf(Append(d, l)) = Assigned(NoFields, l.attrs)
<1>1. /\ LinesOf(Append(d, l), l.directive) # {}
      /\ Append(d, l)[Max(LinesOf(Append(d, l), l.directive))] = l
  BY LastSame
<1> QED BY <1>1 DEF RequestOf

LEMMA DeclaredOther ==
  ASSUME NEW d \in Seq(Lines), NEW l \in Lines, NEW directive, l.directive # directive
  PROVE  LabelledAt(Append(d, l), LinesOf(Append(d, l), directive)) =
           LabelledAt(d, LinesOf(d, directive))
<1>1. LinesOf(Append(d, l), directive) = LinesOf(d, directive)
  BY LinesOther
<1>2. LinesOf(d, directive) \subseteq 1..Len(d)
  BY LinesFinite
<1> QED BY <1>1, <1>2, LabelledOther

LEMMA DeclaredSame ==
  ASSUME NEW d \in Seq(Lines), NEW l \in Lines
  PROVE  LabelledAt(Append(d, l), LinesOf(Append(d, l), l.directive)) =
           Append(LabelledAt(d, LinesOf(d, l.directive)), Labelled(l))
<1>1. LinesOf(Append(d, l), l.directive) = LinesOf(d, l.directive) \cup {Len(d) + 1}
  BY LinesSame
<1>2. LinesOf(d, l.directive) \subseteq 1..Len(d)
  BY LinesFinite
<1> QED BY <1>1, <1>2, LabelledSame

-------------------------------------------------------------------------------
(* The attributes of the policy.                                           *)

\* The lines that set a key.
Setting(d, lines, key) == {i \in lines : key \in KeysOf(d[i].attrs)}

LEMMA FieldsDomain ==
  ASSUME NEW d, NEW lines
  PROVE  /\ \A key : key \in DOMAIN FieldsAt(d, lines) <=> Setting(d, lines, key) # {}
         /\ \A key \in DOMAIN FieldsAt(d, lines) :
              FieldsAt(d, lines)[key] = LastValue(d[Max(Setting(d, lines, key))].attrs, key)
         /\ FieldsAt(d, lines) = [key \in DOMAIN FieldsAt(d, lines) |-> FieldsAt(d, lines)[key]]
<1>1. DOMAIN FieldsAt(d, lines) = UNION {KeysOf(d[i].attrs) : i \in lines}
  BY DEF FieldsAt
<1>2. \A key \in DOMAIN FieldsAt(d, lines) :
        FieldsAt(d, lines)[key] = LastValue(d[Max(Setting(d, lines, key))].attrs, key)
  BY DEF FieldsAt, Setting
<1>3. FieldsAt(d, lines) = [key \in DOMAIN FieldsAt(d, lines) |-> FieldsAt(d, lines)[key]]
  BY DEF FieldsAt
<1>4. \A key : key \in UNION {KeysOf(d[i].attrs) : i \in lines} <=> Setting(d, lines, key) # {}
  BY DEF Setting
<1> QED BY <1>1, <1>2, <1>3, <1>4

LEMMA SettingOld ==
  ASSUME NEW d \in Seq(Lines), NEW l \in Lines, NEW lines, lines \subseteq 1..Len(d), NEW key
  PROVE  /\ Setting(d, lines, key) \subseteq 1..Len(d)
         /\ Setting(d, lines, key) # {} =>
              Append(d, l)[Max(Setting(d, lines, key))] = d[Max(Setting(d, lines, key))]
<1>1. Setting(d, lines, key) \subseteq 1..Len(d)
  BY DEF Setting
<1> QED BY <1>1, LastOther

LEMMA FieldsOther ==
  ASSUME NEW d \in Seq(Lines), NEW l \in Lines, NEW lines, lines \subseteq 1..Len(d)
  PROVE  FieldsAt(Append(d, l), lines) = FieldsAt(d, lines)
<1> DEFINE e == Append(d, l)
           f == FieldsAt(d, lines)
           g == FieldsAt(e, lines)
<1>1. ASSUME NEW key PROVE Setting(e, lines, key) = Setting(d, lines, key)
  <2>1. \A i \in lines : e[i] = d[i]
    BY OneMore
  <2> HIDE DEF e, f, g
  <2> QED BY <2>1 DEF Setting
<1>2. ASSUME NEW key, Setting(d, lines, key) # {}
      PROVE  e[Max(Setting(d, lines, key))] = d[Max(Setting(d, lines, key))]
  <2> HIDE DEF f, g
  <2> QED BY <1>2, SettingOld
<1> HIDE DEF e
<1>3. /\ \A key : key \in DOMAIN f <=> Setting(d, lines, key) # {}
      /\ \A key \in DOMAIN f : f[key] = LastValue(d[Max(Setting(d, lines, key))].attrs, key)
      /\ f = [key \in DOMAIN f |-> f[key]]
  BY FieldsDomain
<1>4. /\ \A key : key \in DOMAIN g <=> Setting(e, lines, key) # {}
      /\ \A key \in DOMAIN g : g[key] = LastValue(e[Max(Setting(e, lines, key))].attrs, key)
      /\ g = [key \in DOMAIN g |-> g[key]]
  BY FieldsDomain
<1> HIDE DEF f, g
<1>5. DOMAIN g = DOMAIN f
  BY <1>1, <1>3, <1>4
<1>6. \A key \in DOMAIN f : g[key] = f[key]
  BY <1>1, <1>2, <1>3, <1>4, <1>5
<1>7. g = f
  BY <1>3, <1>4, <1>5, <1>6
<1> QED BY <1>7 DEF f, g, e

LEMMA FieldsSame ==
  ASSUME NEW d \in Seq(Lines), NEW l \in Lines, NEW lines, lines \subseteq 1..Len(d)
  PROVE  FieldsAt(Append(d, l), lines \cup {Len(d) + 1}) = Assigned(FieldsAt(d, lines), l.attrs)
<1> DEFINE e == Append(d, l)
           m == Len(d) + 1
           more == lines \cup {m}
           f == FieldsAt(d, lines)
           g == FieldsAt(e, more)
           K == KeysOf(l.attrs)
<1>1. e[m] = l /\ Len(d) \in Nat /\ m \in Int
  BY OneMore
<1>2. ASSUME NEW key PROVE Setting(e, lines, key) = Setting(d, lines, key)
  <2>1. \A i \in lines : e[i] = d[i]
    BY OneMore
  <2> HIDE DEF e, m, more, f, g, K
  <2> QED BY <2>1 DEF Setting
<1>3. ASSUME NEW key, Setting(d, lines, key) # {}
      PROVE  e[Max(Setting(d, lines, key))] = d[Max(Setting(d, lines, key))]
  <2> HIDE DEF m, more, f, g, K
  <2> QED BY <1>3, SettingOld
<1>4. \A key : /\ IsFiniteSet(Setting(d, lines, key)) /\ Setting(d, lines, key) \subseteq Int
               /\ \A j \in Setting(d, lines, key) : j < m
  BY <1>1, SettingOld, BoundedLines
<1> HIDE DEF e, m
<1>5. /\ \A key : key \in K => Setting(e, more, key) = Setting(d, lines, key) \cup {m}
      /\ \A key : key \notin K => Setting(e, more, key) = Setting(d, lines, key)
  <2>1. \A key : Setting(e, more, key) = Setting(e, lines, key) \cup (IF key \in K THEN {m} ELSE {})
    BY <1>1 DEF Setting
  <2> QED BY <1>2, <2>1
<1>6. /\ \A key : key \in DOMAIN f <=> Setting(d, lines, key) # {}
      /\ \A key \in DOMAIN f : f[key] = LastValue(d[Max(Setting(d, lines, key))].attrs, key)
  BY FieldsDomain
<1>7. /\ \A key : key \in DOMAIN g <=> Setting(e, more, key) # {}
      /\ \A key \in DOMAIN g : g[key] = LastValue(e[Max(Setting(e, more, key))].attrs, key)
      /\ g = [key \in DOMAIN g |-> g[key]]
  BY FieldsDomain
<1> HIDE DEF f, g, more, K
<1>8. DOMAIN g = DOMAIN f \cup K
  <2>1. ASSUME NEW key PROVE key \in DOMAIN g <=> key \in DOMAIN f \cup K
    BY <1>5, <1>6, <1>7
  <2> QED BY <2>1
<1>9. ASSUME NEW key \in K PROVE g[key] = LastValue(l.attrs, key)
  <2>1. Max(Setting(d, lines, key) \cup {m}) = m
    BY <1>1, <1>4, MaxAdd
  <2>2. Max(Setting(e, more, key)) = m /\ key \in DOMAIN g
    BY <2>1, <1>5, <1>8
  <2> QED BY <2>2, <1>1, <1>7
<1>10. ASSUME NEW key \in DOMAIN f, key \notin K PROVE g[key] = f[key]
  <2>1. Setting(e, more, key) = Setting(d, lines, key) /\ Setting(d, lines, key) # {}
    BY <1>5, <1>6, <1>10
  <2>2. key \in DOMAIN g
    BY <1>8
  <2> QED BY <2>1, <2>2, <1>3, <1>6, <1>7
<1>11. g = [key \in DOMAIN f \cup K |-> IF key \in K THEN LastValue(l.attrs, key) ELSE f[key]]
  BY <1>7, <1>8, <1>9, <1>10
<1> QED BY <1>11 DEF Assigned, f, g, e, m, more, K

-------------------------------------------------------------------------------
(* Evidence and its observations.                                          *)

EvidenceOf(d) ==
  [k \in 1..Cardinality(LinesOf(d, "evidence")) |-> SnapshotAt(d, TopDown(LinesOf(d, "evidence"))[k])]

LEMMA SnapshotIs ==
  ASSUME NEW d, NEW i
  PROVE  SnapshotAt(d, i) =
           [id |-> d[i].args[1][1], generation |-> d[i].args[2][1],
            fields |-> Assigned(NoFields, d[i].attrs),
            observations |-> EntitiesAt(d, ObservedAfter(d, i))]
BY DEF SnapshotAt, Snapshot

LEMMA Observing ==
  ASSUME NEW id, NEW generation, NEW fields, NEW o, NEW p
  PROVE  LET s == [id |-> id, generation |-> generation, fields |-> fields, observations |-> o]
         IN /\ s.observations = o
            /\ [s EXCEPT !.observations = p] =
                 [id |-> id, generation |-> generation, fields |-> fields, observations |-> p]
OBVIOUS

LEMMA ObservedBounded ==
  ASSUME NEW d \in Seq(Lines), NEW i
  PROVE  ObservedAfter(d, i) \subseteq 1..Len(d)
<1>1. LinesOf(d, "obs") \subseteq 1..Len(d)
  BY LinesFinite
<1> QED BY <1>1 DEF ObservedAfter

\* A snapshot stays what it was when its observations do.
LEMMA SnapshotKept ==
  ASSUME NEW d \in Seq(Lines), NEW l \in Lines, NEW i \in 1..Len(d),
         ObservedAfter(Append(d, l), i) = ObservedAfter(d, i)
  PROVE  SnapshotAt(Append(d, l), i) = SnapshotAt(d, i)
<1>1. Append(d, l)[i] = d[i]
  BY OneMore
<1>2. EntitiesAt(Append(d, l), ObservedAfter(d, i)) = EntitiesAt(d, ObservedAfter(d, i))
  BY ObservedBounded, EntitiesOther
<1> QED BY <1>1, <1>2, SnapshotIs

LEMMA ObservedOther ==
  ASSUME NEW d \in Seq(Lines), NEW l \in Lines, NEW i \in 1..Len(d), l.directive # "obs"
  PROVE  ObservedAfter(Append(d, l), i) = ObservedAfter(d, i)
<1> DEFINE e == Append(d, l)
<1>1. LinesOf(e, "obs") = LinesOf(d, "obs")
  BY LinesOther
<1>2. CASE l.directive # "evidence"
  <2>1. LinesOf(e, "evidence") = LinesOf(d, "evidence")
    BY <1>2, LinesOther
  <2> HIDE DEF e
  <2>2. ObservedAfter(e, i) = ObservedAfter(d, i)
    BY <1>1, <2>1 DEF ObservedAfter
  <2> QED BY <2>2 DEF e
<1>3. CASE l.directive = "evidence"
  <2>1. LinesOf(e, "evidence") = LinesOf(d, "evidence") \cup {Len(d) + 1}
    BY <1>3, LinesSame
  <2>2. \A j \in LinesOf(d, "obs") : Len(d) + 1 > j
    <3>1. Len(d) \in Nat /\ LinesOf(d, "obs") \subseteq 1..Len(d)
      BY LinesFinite
    <3> QED BY <3>1
  <2> HIDE DEF e
  <2>3. ASSUME NEW j \in LinesOf(d, "obs")
        PROVE  (\A s \in LinesOf(e, "evidence") : s <= i \/ s > j) <=>
               (\A s \in LinesOf(d, "evidence") : s <= i \/ s > j)
    BY <2>1, <2>2
  <2>4. ObservedAfter(e, i) = ObservedAfter(d, i)
    BY <1>1, <2>3 DEF ObservedAfter
  <2> QED BY <2>4 DEF e
<1> QED BY <1>2, <1>3

LEMMA ObservedNone ==
  ASSUME NEW d \in Seq(Lines), NEW l \in Lines, l.directive = "evidence"
  PROVE  ObservedAfter(Append(d, l), Len(d) + 1) = {}
<1>1. LinesOf(Append(d, l), "obs") = LinesOf(d, "obs")
  BY LinesOther
<1>2. \A j \in LinesOf(d, "obs") : ~(j > Len(d) + 1)
  <2>1. Len(d) \in Nat /\ LinesOf(d, "obs") \subseteq 1..Len(d)
    BY LinesFinite
  <2> QED BY <2>1
<1> QED BY <1>1, <1>2 DEF ObservedAfter

LEMMA ObservedObs ==
  ASSUME NEW d \in Seq(Lines), NEW l \in Lines, l.directive = "obs",
         NEW i \in LinesOf(d, "evidence")
  PROVE  ObservedAfter(Append(d, l), i) =
           IF i = Max(LinesOf(d, "evidence")) THEN ObservedAfter(d, i) \cup {Len(d) + 1}
           ELSE ObservedAfter(d, i)
<1> DEFINE e == Append(d, l)
           m == Len(d) + 1
           starts == LinesOf(d, "evidence")
           open(j) == j > i /\ \A s \in starts : s <= i \/ s > j
<1>1. LinesOf(e, "obs") = LinesOf(d, "obs") \cup {m}
  BY LinesSame
<1>2. LinesOf(e, "evidence") = starts
  BY LinesOther
<1>3. ObservedAfter(e, i) = {j \in LinesOf(d, "obs") \cup {m} : open(j)}
  <2> HIDE DEF e, m
  <2> QED BY <1>1, <1>2 DEF ObservedAfter
<1>4. ObservedAfter(d, i) = {j \in LinesOf(d, "obs") : open(j)}
  BY DEF ObservedAfter
<1>5. starts \subseteq 1..Len(d) /\ IsFiniteSet(starts) /\ starts \subseteq Int /\ Len(d) \in Nat
  BY LinesFinite
<1>6. m \in Int /\ \A s \in starts : s < m /\ ~(s > m) /\ s \in Int
  BY <1>5
<1>7. Max(starts) \in starts /\ \A s \in starts : s <= Max(starts)
  BY <1>5, MaxOf
<1>8. open(m) <=> i = Max(starts)
  <2> HIDE DEF m, starts
  <2>1. i \in starts /\ i \in Int /\ m > i /\ Max(starts) \in Int
    BY <1>6, <1>7 DEF starts
  <2>2. open(m) <=> \A s \in starts : s <= i
    BY <2>1, <1>6
  <2>3. ASSUME \A s \in starts : s <= i PROVE i = Max(starts)
    <3>1. Max(starts) <= i /\ i <= Max(starts)
      BY <2>1, <2>3, <1>7
    <3> QED BY <3>1, <2>1
  <2>4. ASSUME i = Max(starts) PROVE \A s \in starts : s <= i
    BY <2>4, <1>7
  <2> QED BY <2>2, <2>3, <2>4
<1> HIDE DEF open, m, starts, e
<1>9. CASE i = Max(starts)
  <2>1. ObservedAfter(e, i) = ObservedAfter(d, i) \cup {m}
    BY <1>3, <1>4, <1>8, <1>9
  <2> QED BY <2>1, <1>9 DEF e, m, starts
<1>10. CASE i # Max(starts)
  <2>1. ObservedAfter(e, i) = ObservedAfter(d, i)
    BY <1>3, <1>4, <1>8, <1>10
  <2> QED BY <2>1, <1>10 DEF e, m, starts
<1> QED BY <1>9, <1>10

LEMMA EvidenceValues ==
  ASSUME NEW d \in Seq(Lines)
  PROVE  /\ EvidenceOf(d) = ValuesAt([i \in DOMAIN d |-> SnapshotAt(d, i)], LinesOf(d, "evidence"))
         /\ DOMAIN EvidenceOf(d) = 1..Cardinality(LinesOf(d, "evidence"))
<1> DEFINE starts == LinesOf(d, "evidence")
<1>1. DOMAIN d = 1..Len(d) /\ starts \subseteq 1..Len(d) /\ IsFiniteSet(starts) /\ starts \subseteq Int
  BY LinesFinite
<1> HIDE DEF starts
<1>2. \A k \in 1..Cardinality(starts) : TopDown(starts)[k] \in DOMAIN d
  BY <1>1, TopDownIs
<1>3. ValuesAt([i \in DOMAIN d |-> SnapshotAt(d, i)], starts) =
        [k \in 1..Cardinality(starts) |-> SnapshotAt(d, TopDown(starts)[k])]
  BY <1>2 DEF ValuesAt
<1> QED BY <1>3 DEF EvidenceOf, starts

LEMMA EvidenceOther ==
  ASSUME NEW d \in Seq(Lines), NEW l \in Lines, l.directive \notin {"evidence", "obs"}
  PROVE  EvidenceOf(Append(d, l)) = EvidenceOf(d)
<1> DEFINE e == Append(d, l)
           starts == LinesOf(d, "evidence")
           v == [i \in DOMAIN d |-> SnapshotAt(d, i)]
           w == [i \in DOMAIN e |-> SnapshotAt(e, i)]
<1>1. e \in Seq(Lines) /\ Len(d) \in Nat /\ DOMAIN d = 1..Len(d) /\ DOMAIN e = 1..(Len(d) + 1)
  BY OneMore
<1>2. LinesOf(e, "evidence") = starts /\ starts \subseteq 1..Len(d)
  BY LinesOther, LinesFinite
<1>3. \A i \in 1..Len(d) : SnapshotAt(e, i) = SnapshotAt(d, i)
  BY ObservedOther, SnapshotKept
<1>4. EvidenceOf(d) = ValuesAt(v, starts) /\ EvidenceOf(e) = ValuesAt(w, starts)
  <2> HIDE DEF e
  <2> QED BY <1>1, <1>2, EvidenceValues
<1> HIDE DEF e, starts
<1>5. \A i \in starts : w[i] = v[i]
  BY <1>1, <1>2, <1>3
<1> HIDE DEF v, w
<1>6. ValuesAt(w, starts) = ValuesAt(v, starts)
  BY <1>1, <1>2, <1>5, ValuesSame
<1> QED BY <1>4, <1>6 DEF e

LEMMA EvidenceNew ==
  ASSUME NEW d \in Seq(Lines), NEW l \in Lines, l.directive = "evidence"
  PROVE  EvidenceOf(Append(d, l)) = Append(EvidenceOf(d), Snapshot(l))
<1> DEFINE e == Append(d, l)
           n == Len(d)
           starts == LinesOf(d, "evidence")
           v == [i \in DOMAIN d |-> SnapshotAt(d, i)]
           w == [i \in DOMAIN e |-> SnapshotAt(e, i)]
<1>1. /\ e \in Seq(Lines) /\ n \in Nat /\ DOMAIN d = 1..n /\ DOMAIN e = 1..(n + 1)
      /\ e[n + 1] = l
  BY OneMore
<1>2. LinesOf(e, "evidence") = starts \cup {n + 1} /\ starts \subseteq 1..n
  BY LinesSame, LinesFinite
<1>3. \A i \in 1..n : SnapshotAt(e, i) = SnapshotAt(d, i)
  BY ObservedOther, SnapshotKept
<1>4. SnapshotAt(e, n + 1) = Snapshot(l)
  <2>1. EntitiesAt(e, {}) = <<>>
    <3>1. EntitiesAt(e, {}) = ValuesAt([i \in DOMAIN e |-> Entity(e[i])], {})
      <4> HIDE DEF e
      <4> QED BY <1>1, EntitiesValues
    <3> QED BY <3>1, ValuesNone
  <2>2. ObservedAfter(e, n + 1) = {}
    BY ObservedNone
  <2> HIDE DEF e, n
  <2> QED BY <1>1, <2>1, <2>2, SnapshotIs DEF Snapshot
<1>5. EvidenceOf(d) = ValuesAt(v, starts) /\ EvidenceOf(e) = ValuesAt(w, starts \cup {n + 1})
  <2> HIDE DEF e
  <2> QED BY <1>1, <1>2, EvidenceValues
<1> HIDE DEF e, starts, n
<1>6. (\A i \in starts : v[i] = w[i]) /\ w[n + 1] = Snapshot(l)
  <2>1. n + 1 \in DOMAIN e
    <3> HIDE DEF v, w
    <3> QED BY <1>1
  <2>2. \A i \in starts : i \in 1..n /\ i \in 1..(n + 1)
    <3> HIDE DEF v, w
    <3> QED BY <1>1, <1>2
  <2>3. \A i \in starts : i \in DOMAIN d /\ i \in DOMAIN e
    <3> HIDE DEF v, w
    <3> QED BY <1>1, <2>2
  <2>4. \A i \in starts : v[i] = w[i]
    BY <2>2, <2>3, <1>3
  <2>5. w[n + 1] = Snapshot(l)
    BY <2>1, <1>4
  <2> QED BY <2>4, <2>5
<1> HIDE DEF v, w
<1>7. ValuesAt(w, starts \cup {n + 1}) = Append(ValuesAt(v, starts), w[n + 1])
  BY <1>1, <1>2, <1>6, ValuesAdd
<1> QED BY <1>5, <1>6, <1>7 DEF e

LEMMA EvidenceObs ==
  ASSUME NEW d \in Seq(Lines), NEW l \in Lines, l.directive = "obs", LinesOf(d, "evidence") # {}
  PROVE  EvidenceOf(Append(d, l)) =
           [EvidenceOf(d) EXCEPT ![Cardinality(LinesOf(d, "evidence"))].observations =
                                   Append(@, Entity(l))]
<1> DEFINE e == Append(d, l)
           starts == LinesOf(d, "evidence")
           c == Cardinality(starts)
           old == EvidenceOf(d)
           at == TopDown(starts)
<1>1. (\A i \in 1..Len(d) : e[i] = d[i]) /\ e[Len(d) + 1] = l /\ Len(d) \in Nat
  BY OneMore
<1>2. LinesOf(e, "evidence") = starts
  BY LinesOther
<1>3. starts \subseteq 1..Len(d) /\ IsFiniteSet(starts) /\ starts \subseteq Int
  BY LinesFinite
<1>4. c \in Nat \ {0} /\ at[c] = Max(starts)
  BY <1>3, TopDownLast
<1>5. \A k \in 1..c : at[k] \in starts /\ Rank(starts, at[k]) = k
  BY <1>3, TopDownIs
<1>6. \A k \in 1..c : at[k] = Max(starts) => k = c
  <2>1. c \in 1..c
    BY <1>4
  <2> HIDE DEF c, at, starts
  <2>2. Rank(starts, Max(starts)) = c
    BY <2>1, <1>4, <1>5
  <2> QED BY <2>2, <1>5
<1>7. ASSUME NEW k \in 1..c, k # c PROVE SnapshotAt(e, at[k]) = SnapshotAt(d, at[k])
  <2>1. ObservedAfter(e, at[k]) = ObservedAfter(d, at[k])
    BY <1>5, <1>6, <1>7, ObservedObs
  <2>2. at[k] \in 1..Len(d)
    BY <1>3, <1>5
  <2> HIDE DEF at
  <2> QED BY <2>1, <2>2, SnapshotKept
<1>8. SnapshotAt(e, at[c]) = [SnapshotAt(d, at[c]) EXCEPT !.observations = Append(@, Entity(l))]
  <2> DEFINE i == at[c]
  <2>1. i \in starts /\ i \in 1..Len(d) /\ i = Max(starts)
    BY <1>3, <1>4, <1>5
  <2> HIDE DEF i, at, c
  <2>2. ObservedAfter(e, i) = ObservedAfter(d, i) \cup {Len(d) + 1}
    BY <2>1, ObservedObs
  <2>3. ObservedAfter(d, i) \subseteq 1..Len(d)
    BY ObservedBounded
  <2>4. EntitiesAt(e, ObservedAfter(e, i)) = Append(EntitiesAt(d, ObservedAfter(d, i)), Entity(l))
    BY <2>2, <2>3, EntitiesSame
  <2>5. e[i] = d[i]
    BY <2>1, <1>1
  <2> HIDE DEF e
  <2>6. SnapshotAt(e, i) = [SnapshotAt(d, i) EXCEPT !.observations = Append(@, Entity(l))]
    <3> DEFINE id == d[i].args[1][1]
               gen == d[i].args[2][1]
               fields == Assigned(NoFields, d[i].attrs)
               o == EntitiesAt(d, ObservedAfter(d, i))
               p == Append(o, Entity(l))
               s == [id |-> id, generation |-> gen, fields |-> fields, observations |-> o]
               t == [id |-> id, generation |-> gen, fields |-> fields, observations |-> p]
    <3>1. SnapshotAt(d, i) = s
      BY SnapshotIs
    <3>2. SnapshotAt(e, i) = t
      BY <2>4, <2>5, SnapshotIs
    <3> HIDE DEF id, gen, fields, o, p
    <3>3. s.observations = o /\ [s EXCEPT !.observations = p] = t
      BY Observing
    <3> HIDE DEF s, t
    <3> QED BY <3>1, <3>2, <3>3 DEF p
  <2> QED BY <2>6 DEF i
<1>9. /\ EvidenceOf(e) = [k \in 1..c |-> SnapshotAt(e, at[k])]
      /\ old = [k \in 1..c |-> SnapshotAt(d, at[k])]
  <2> HIDE DEF e
  <2> QED BY <1>2 DEF EvidenceOf
<1> HIDE DEF e, c, at, starts, old
<1>10. [old EXCEPT ![c].observations = Append(@, Entity(l))] =
         [k \in 1..c |-> IF k = c THEN [old[c] EXCEPT !.observations = Append(@, Entity(l))]
                         ELSE old[k]]
  BY <1>9
<1>11. c \in 1..c /\ old[c] = SnapshotAt(d, at[c])
  BY <1>4, <1>9
<1>12. ASSUME NEW k \in 1..c
       PROVE  SnapshotAt(e, at[k]) =
                IF k = c THEN [old[c] EXCEPT !.observations = Append(@, Entity(l))] ELSE old[k]
  <2>1. CASE k = c
    BY <2>1, <1>8, <1>11
  <2>2. CASE k # c
    BY <2>2, <1>7, <1>9
  <2> QED BY <2>1, <2>2
<1>13. EvidenceOf(e) = [old EXCEPT ![c].observations = Append(@, Entity(l))]
  <2> DEFINE new(k) == IF k = c THEN [old[c] EXCEPT !.observations = Append(@, Entity(l))]
                       ELSE old[k]
  <2>1. \A k \in 1..c : SnapshotAt(e, at[k]) = new(k)
    BY <1>12
  <2>2. [old EXCEPT ![c].observations = Append(@, Entity(l))] = [k \in 1..c |-> new(k)]
    BY <1>10
  <2> HIDE DEF new
  <2>3. [k \in 1..c |-> SnapshotAt(e, at[k])] = [k \in 1..c |-> new(k)]
    BY <2>1
  <2> QED BY <1>9, <2>2, <2>3
<1> QED BY <1>13 DEF e, c, starts, old

LEMMA EvidenceLength ==
  ASSUME NEW d \in Seq(Lines)
  PROVE  /\ Len(EvidenceOf(d)) = Cardinality(LinesOf(d, "evidence"))
         /\ Cardinality(LinesOf(d, "evidence")) \in Nat
         /\ Cardinality(LinesOf(d, "evidence")) = 0 <=> LinesOf(d, "evidence") = {}
<1> DEFINE c == Cardinality(LinesOf(d, "evidence"))
           f == EvidenceOf(d)
           S == {f[k] : k \in 1..c}
<1>1. c \in Nat /\ (c = 0 <=> LinesOf(d, "evidence") = {})
  BY LinesFinite, FS_CardinalityType, FS_EmptySet
<1>2. f = [k \in 1..c |-> f[k]]
  BY DEF EvidenceOf
<1> HIDE DEF c, f
<1>3. f \in [1..c -> S]
  BY <1>2
<1> HIDE DEF S
<1>4. Len(f) = c
  BY ONLY <1>1, <1>3
<1> QED BY <1>1, <1>4 DEF c, f

-------------------------------------------------------------------------------
(* The scenario that the lines read so far make up.  The policy's epoch is *)
(* filled in only at the end of the document.                              *)

Scenarios(has_policy, id, generation, fields, groups, subjects, epoch, evidence, has_request,
          request) ==
  [has_policy |-> has_policy,
   policy |-> [id |-> id, generation |-> generation, epoch |-> 0, fields |-> fields,
               groups |-> groups, subjects |-> subjects],
   epoch |-> epoch, evidence |-> evidence, has_request |-> has_request, request |-> request]

Has(d, directive) == LinesOf(d, directive) # {}

DraftOf(d) ==
  Scenarios(Has(d, "policy"), LastArg(d, "policy", 1), LastArg(d, "policy", 2),
            FieldsAt(d, LinesOf(d, "policy")), LabelledAt(d, LinesOf(d, "group")),
            LabelledAt(d, LinesOf(d, "subject")), LastArg(d, "epoch", 1), EvidenceOf(d),
            Has(d, "request"), RequestOf(d))

\* A step changes one part of the draft.
LEMMA Updates ==
  ASSUME NEW d
  PROVE  LET hp == Has(d, "policy")
             i == LastArg(d, "policy", 1)
             g == LastArg(d, "policy", 2)
             f == FieldsAt(d, LinesOf(d, "policy"))
             gs == LabelledAt(d, LinesOf(d, "group"))
             ss == LabelledAt(d, LinesOf(d, "subject"))
             ep == LastArg(d, "epoch", 1)
             ev == EvidenceOf(d)
             hr == Has(d, "request")
             rq == RequestOf(d)
             s == DraftOf(d)
         IN /\ s.policy.fields = f /\ s.policy.groups = gs /\ s.policy.subjects = ss
            /\ s.evidence = ev
            /\ \A x : [s EXCEPT !.epoch = x] = Scenarios(hp, i, g, f, gs, ss, x, ev, hr, rq)
            /\ \A x : [s EXCEPT !.policy.groups = x] = Scenarios(hp, i, g, f, x, ss, ep, ev, hr, rq)
            /\ \A x : [s EXCEPT !.policy.subjects = x] = Scenarios(hp, i, g, f, gs, x, ep, ev, hr, rq)
            /\ \A x : [s EXCEPT !.evidence = x] = Scenarios(hp, i, g, f, gs, ss, ep, x, hr, rq)
            /\ \A b, x : [s EXCEPT !.has_request = b, !.request = x] =
                           Scenarios(hp, i, g, f, gs, ss, ep, ev, b, x)
            /\ \A b, x, y, z :
                 [s EXCEPT !.has_policy = b,
                           !.policy = [@ EXCEPT !.id = x, !.generation = y, !.fields = z]] =
                   Scenarios(b, x, y, z, gs, ss, ep, ev, hr, rq)
<1> DEFINE hp == Has(d, "policy")
           i == LastArg(d, "policy", 1)
           g == LastArg(d, "policy", 2)
           f == FieldsAt(d, LinesOf(d, "policy"))
           gs == LabelledAt(d, LinesOf(d, "group"))
           ss == LabelledAt(d, LinesOf(d, "subject"))
           ep == LastArg(d, "epoch", 1)
           ev == EvidenceOf(d)
           hr == Has(d, "request")
           rq == RequestOf(d)
           s == Scenarios(hp, i, g, f, gs, ss, ep, ev, hr, rq)
<1>0. DraftOf(d) = s
  BY DEF DraftOf
<1> HIDE DEF hp, i, g, f, gs, ss, ep, ev, hr, rq
<1>1. s.policy.fields = f /\ s.policy.groups = gs /\ s.policy.subjects = ss /\ s.evidence = ev
  BY DEF Scenarios
<1>2. \A x : [s EXCEPT !.epoch = x] = Scenarios(hp, i, g, f, gs, ss, x, ev, hr, rq)
  BY DEF Scenarios
<1>3. \A x : [s EXCEPT !.policy.groups = x] = Scenarios(hp, i, g, f, x, ss, ep, ev, hr, rq)
  BY DEF Scenarios
<1>4. \A x : [s EXCEPT !.policy.subjects = x] = Scenarios(hp, i, g, f, gs, x, ep, ev, hr, rq)
  BY DEF Scenarios
<1>5. \A x : [s EXCEPT !.evidence = x] = Scenarios(hp, i, g, f, gs, ss, ep, x, hr, rq)
  BY DEF Scenarios
<1>6. ASSUME NEW b, NEW x
      PROVE  [s EXCEPT !.has_request = b, !.request = x] =
               Scenarios(hp, i, g, f, gs, ss, ep, ev, b, x)
  <2> DEFINE t(c) == Scenarios(hp, i, g, f, gs, ss, ep, ev, c, rq)
  <2>1. \A c : [s EXCEPT !.has_request = c] = t(c)
    BY DEF Scenarios
  <2>2. \A c, y : [t(c) EXCEPT !.request = y] = Scenarios(hp, i, g, f, gs, ss, ep, ev, c, y)
    BY DEF Scenarios
  <2>3. [s EXCEPT !.has_request = b] = t(b)
    BY <2>1
  <2>4. [t(b) EXCEPT !.request = x] = Scenarios(hp, i, g, f, gs, ss, ep, ev, b, x)
    BY <2>2
  <2> HIDE DEF s, t
  <2> QED BY <2>3, <2>4
<1>7. ASSUME NEW b, NEW x, NEW y, NEW z
      PROVE  [s EXCEPT !.has_policy = b,
                       !.policy = [@ EXCEPT !.id = x, !.generation = y, !.fields = z]] =
               Scenarios(b, x, y, z, gs, ss, ep, ev, hr, rq)
  <2> DEFINE t(c) == Scenarios(c, i, g, f, gs, ss, ep, ev, hr, rq)
             p(u, v, w) == [id |-> u, generation |-> v, epoch |-> 0, fields |-> w, groups |-> gs,
                            subjects |-> ss]
  <2>1. \A c : [s EXCEPT !.has_policy = c] = t(c)
    BY DEF Scenarios
  <2>2. s.policy = p(i, g, f)
    BY DEF Scenarios
  <2>3. [p(i, g, f) EXCEPT !.id = x, !.generation = y, !.fields = z] = p(x, y, z)
    <3>1. \A u : [p(i, g, f) EXCEPT !.id = u] = p(u, g, f)
      OBVIOUS
    <3>2. \A u, v : [p(u, g, f) EXCEPT !.generation = v] = p(u, v, f)
      OBVIOUS
    <3>3. \A u, v, w : [p(u, v, f) EXCEPT !.fields = w] = p(u, v, w)
      OBVIOUS
    <3> HIDE DEF p
    <3>4. [p(i, g, f) EXCEPT !.id = x] = p(x, g, f)
      BY <3>1
    <3>5. [p(x, g, f) EXCEPT !.generation = y] = p(x, y, f)
      BY <3>2
    <3>6. [p(x, y, f) EXCEPT !.fields = z] = p(x, y, z)
      BY <3>3
    <3> QED BY <3>4, <3>5, <3>6
  <2>4. \A c, u, v, w : [t(c) EXCEPT !.policy = p(u, v, w)] =
                          Scenarios(c, u, v, w, gs, ss, ep, ev, hr, rq)
    BY DEF Scenarios
  <2> HIDE DEF s, t, p
  <2>5. [s EXCEPT !.has_policy = b] = t(b)
    BY <2>1
  <2>6. [t(b) EXCEPT !.policy = p(x, y, z)] = Scenarios(b, x, y, z, gs, ss, ep, ev, hr, rq)
    BY <2>4
  <2> QED BY <2>2, <2>3, <2>5, <2>6
<1> HIDE DEF s
<1>8. LET q == DraftOf(d)
      IN /\ q.policy.fields = f /\ q.policy.groups = gs /\ q.policy.subjects = ss /\ q.evidence = ev
         /\ \A x : [q EXCEPT !.epoch = x] = Scenarios(hp, i, g, f, gs, ss, x, ev, hr, rq)
         /\ \A x : [q EXCEPT !.policy.groups = x] = Scenarios(hp, i, g, f, x, ss, ep, ev, hr, rq)
         /\ \A x : [q EXCEPT !.policy.subjects = x] = Scenarios(hp, i, g, f, gs, x, ep, ev, hr, rq)
         /\ \A x : [q EXCEPT !.evidence = x] = Scenarios(hp, i, g, f, gs, ss, ep, x, hr, rq)
  BY <1>0, <1>1, <1>2, <1>3, <1>4, <1>5
<1>9. \A b, x : [DraftOf(d) EXCEPT !.has_request = b, !.request = x] =
                  Scenarios(hp, i, g, f, gs, ss, ep, ev, b, x)
  BY <1>0, <1>6
<1>10. \A b, x, y, z :
         [DraftOf(d) EXCEPT !.has_policy = b,
                            !.policy = [@ EXCEPT !.id = x, !.generation = y, !.fields = z]] =
           Scenarios(b, x, y, z, gs, ss, ep, ev, hr, rq)
  BY <1>0, <1>7
<1> QED BY <1>8, <1>9, <1>10 DEF hp, i, g, f, gs, ss, ep, ev, hr, rq

LEMMA NothingRead ==
  DraftOf(<<>>) = EmptyScenario
<1>1. \A directive : LinesOf(<<>>, directive) = {}
  BY DEF LinesOf
<1>2. <<>> \in Seq(Lines) /\ {} \subseteq 1..Len(<<>>)
  OBVIOUS
<1>3. LabelledAt(<<>>, {}) = <<>>
  <2>1. LabelledAt(<<>>, {}) = ValuesAt([i \in DOMAIN <<>> |-> Labelled(<<>>[i])], {})
    BY <1>2, LabelledValues
  <2> QED BY <2>1, ValuesNone
<1>4. EvidenceOf(<<>>) = <<>>
  <2>1. EvidenceOf(<<>>) = ValuesAt([i \in DOMAIN <<>> |-> SnapshotAt(<<>>, i)], {})
    BY <1>1, <1>2, EvidenceValues
  <2> QED BY <2>1, ValuesNone
<1>5. FieldsAt(<<>>, {}) = NoFields
  <2>1. UNION {KeysOf(<<>>[i].attrs) : i \in {}} = {}
    OBVIOUS
  <2> QED BY <2>1 DEF FieldsAt, NoFields
<1>6. \A directive, i : LastArg(<<>>, directive, i) = 0
  BY <1>1 DEF LastArg
<1>7. RequestOf(<<>>) = NoFields
  BY <1>1 DEF RequestOf
<1>8. DraftOf(<<>>) = Scenarios(FALSE, 0, 0, NoFields, <<>>, <<>>, 0, <<>>, FALSE, NoFields)
  BY <1>1, <1>3, <1>4, <1>5, <1>6, <1>7 DEF DraftOf, Has
<1> QED BY <1>8 DEF Scenarios, EmptyScenario

\* End adds nothing but the epoch of the policy.
LEMMA DraftMeans ==
  ASSUME NEW d
  PROVE  WithEpoch(DraftOf(d)) = MeaningOf(d)
<1> DEFINE hp == Has(d, "policy")
           i == LastArg(d, "policy", 1)
           g == LastArg(d, "policy", 2)
           f == FieldsAt(d, LinesOf(d, "policy"))
           gs == LabelledAt(d, LinesOf(d, "group"))
           ss == LabelledAt(d, LinesOf(d, "subject"))
           ep == LastArg(d, "epoch", 1)
           ev == EvidenceOf(d)
           hr == Has(d, "request")
           rq == RequestOf(d)
           s == Scenarios(hp, i, g, f, gs, ss, ep, ev, hr, rq)
           m(pe) == [has_policy |-> hp,
                     policy |-> [id |-> i, generation |-> g, epoch |-> pe, fields |-> f,
                                 groups |-> gs, subjects |-> ss],
                     epoch |-> ep, evidence |-> ev, has_request |-> hr, request |-> rq]
<1>1. DraftOf(d) = s
  BY DEF DraftOf
<1>2. MeaningOf(d) = m(IF hp THEN ep ELSE 0)
  BY DEF MeaningOf, LastArg, RequestOf, EvidenceOf, Has
<1> HIDE DEF hp, i, g, f, gs, ss, ep, ev, hr, rq
<1>3. s = m(0) /\ s.has_policy = hp /\ s.epoch = ep /\ s.policy.epoch = 0
  BY DEF Scenarios
<1> HIDE DEF s
<1>4. WithEpoch(s) = IF hp THEN [s EXCEPT !.epoch = ep, !.policy.epoch = ep] ELSE s
  BY <1>3 DEF WithEpoch
<1>5. [s EXCEPT !.epoch = ep, !.policy.epoch = ep] = m(ep)
  <2>1. [s EXCEPT !.epoch = ep] = m(0)
    BY <1>3
  <2>2. [m(0) EXCEPT !.policy.epoch = ep] = m(ep)
    OBVIOUS
  <2> HIDE DEF m
  <2> QED BY <2>1, <2>2
<1> HIDE DEF m
<1>6. WithEpoch(s) = m(IF hp THEN ep ELSE 0)
  BY <1>3, <1>4, <1>5
<1> QED BY <1>1, <1>2, <1>6

-------------------------------------------------------------------------------
(* The inductive invariant: the flags say where the next line stands, and  *)
(* the local scenario is what the lines read so far say.                   *)

Place ==
  /\ saw_version <=> ~Leads(read, Len(read) + 1)
  /\ in_policy <=> SectionOf(read, Len(read) + 1) = "policy"
  /\ in_evidence <=> SectionOf(read, Len(read) + 1) = "evidence"
  /\ current = IF in_evidence THEN Cardinality(LinesOf(read, "evidence")) ELSE 0

ParserInv ==
  /\ read \in Seq(Lines)
  /\ phase = "reading" => Grammatical(read) /\ Place /\ scenario = DraftOf(read)
  /\ AcceptsTheGrammar
  /\ MeansWhatItSays

LEMMA ParserInvInit ==
  ASSUME Init
  PROVE  ParserInv
<1>1. read \in Seq(Lines) /\ Len(read) = 0 /\ DOMAIN read = {} /\ read = <<>>
  BY DEF Init
<1>2. Grammatical(read)
  BY <1>1 DEF Grammatical
<1>3. Leads(read, Len(read) + 1)
  BY <1>1 DEF Leads
<1>4. SectionOf(read, Len(read) + 1) = "none"
  <2>1. Openers(read, Len(read) + 1) = {}
    BY <1>1 DEF Openers
  <2> QED BY <2>1, SectionIs
<1>5. Place
  BY <1>3, <1>4 DEF Init, Place
<1>6. scenario = DraftOf(read)
  BY <1>1, NothingRead DEF Init
<1>7. phase = "reading"
  BY DEF Init
<1> QED BY <1>1, <1>2, <1>5, <1>6, <1>7 DEF ParserInv, AcceptsTheGrammar, MeansWhatItSays

\* The code's conditions are those of the grammar.
LEMMA Accepting ==
  ASSUME ParserInv, phase = "reading", NEW l \in Lines, l.directive # "blank"
  PROVE  Acceptable(l) <=> Fitting(read, l)
<1> DEFINE n == Len(read) + 1
<1>1. read \in Seq(Lines) /\ Place /\ Len(read) \in Nat /\ n \in 1..(Len(read) + 1)
  BY DEF ParserInv
<1> HIDE DEF n
<1>2. SectionOf(read, n) # "none" => ~Leads(read, n) /\ LinesOf(read, SectionOf(read, n)) # {}
  BY <1>1, SectionOpened
<1>3. /\ saw_version <=> ~Leads(read, n)
      /\ in_policy <=> SectionOf(read, n) = "policy"
      /\ in_evidence <=> SectionOf(read, n) = "evidence"
      /\ in_evidence => current # 0
  <2>1. SectionOf(read, n) = "evidence" => Cardinality(LinesOf(read, "evidence")) # 0
    BY <1>1, <1>2, EvidenceLength
  <2> QED BY <1>1, <2>1 DEF Place, n
<1>4. in_policy \/ in_evidence => saw_version
  BY <1>2, <1>3
<1> QED BY <1>3, <1>4 DEF Acceptable, Fitting, n

\* What reading one more line means for the place of the line after it.
LEMMA Moves ==
  ASSUME ParserInv, phase = "reading", NEW l \in Lines, read' = Append(read, l)
  PROVE  /\ read \in Seq(Lines) /\ read' \in Seq(Lines) /\ Place /\ scenario = DraftOf(read)
         /\ Leads(read', Len(read') + 1) <=> Leads(read, Len(read) + 1) /\ l.directive = "blank"
         /\ SectionOf(read', Len(read') + 1) =
              IF l.directive \in Sections THEN l.directive ELSE SectionOf(read, Len(read) + 1)
         /\ Grammatical(read') <=> Fitting(read, l)
<1>1. read \in Seq(Lines) /\ Place /\ Grammatical(read) /\ scenario = DraftOf(read)
  BY DEF ParserInv
<1>2. read' \in Seq(Lines) /\ Len(read') = Len(read) + 1 /\ Len(read) \in Nat
  BY <1>1, OneMore
<1>3. Len(read') + 1 = Len(read) + 2
  BY <1>2
<1>4. Leads(read', Len(read') + 1) <=> Leads(read, Len(read) + 1) /\ l.directive = "blank"
  BY <1>1, <1>3, LeadsNew
<1>5. SectionOf(read', Len(read') + 1) =
        IF l.directive \in Sections THEN l.directive ELSE SectionOf(read, Len(read) + 1)
  BY <1>1, <1>3, SectionNew
<1>6. Grammatical(read') <=> Fitting(read, l)
  BY <1>1, GrammaticalAdd
<1> QED BY <1>1, <1>2, <1>4, <1>5, <1>6

\* A directive that is taken keeps the text grammatical; the rest is its own business.
LEMMA Taking ==
  ASSUME ParserInv, NEW l \in Lines, NEW directive, Takes(l, directive), directive # "blank",
         Place', scenario' = DraftOf(read')
  PROVE  ParserInv'
<1>1. phase = "reading" /\ phase' = "reading" /\ l.directive = directive /\ Acceptable(l)
      /\ read' = Append(read, l)
  BY DEF Takes
<1>2. Fitting(read, l)
  BY <1>1, Accepting
<1>3. read' \in Seq(Lines) /\ Grammatical(read')
  BY <1>1, <1>2, Moves
<1> QED BY <1>1, <1>3 DEF ParserInv, AcceptsTheGrammar, MeansWhatItSays

\* Nothing of the scenario changes but what the line's directive is about.
LEMMA Untouched ==
  ASSUME NEW d \in Seq(Lines), NEW l \in Lines
  PROVE  LET e == Append(d, l)
         IN /\ l.directive # "policy" =>
                 /\ Has(e, "policy") = Has(d, "policy")
                 /\ LastArg(e, "policy", 1) = LastArg(d, "policy", 1)
                 /\ LastArg(e, "policy", 2) = LastArg(d, "policy", 2)
                 /\ FieldsAt(e, LinesOf(e, "policy")) = FieldsAt(d, LinesOf(d, "policy"))
            /\ l.directive # "group" =>
                 LabelledAt(e, LinesOf(e, "group")) = LabelledAt(d, LinesOf(d, "group"))
            /\ l.directive # "subject" =>
                 LabelledAt(e, LinesOf(e, "subject")) = LabelledAt(d, LinesOf(d, "subject"))
            /\ l.directive # "epoch" => LastArg(e, "epoch", 1) = LastArg(d, "epoch", 1)
            /\ l.directive \notin {"evidence", "obs"} => EvidenceOf(e) = EvidenceOf(d)
            /\ l.directive # "evidence" => LinesOf(e, "evidence") = LinesOf(d, "evidence")
            /\ l.directive # "request" =>
                 Has(e, "request") = Has(d, "request") /\ RequestOf(e) = RequestOf(d)
<1> DEFINE e == Append(d, l)
<1>1. ASSUME l.directive # "policy"
      PROVE  /\ Has(e, "policy") = Has(d, "policy")
             /\ LastArg(e, "policy", 1) = LastArg(d, "policy", 1)
             /\ LastArg(e, "policy", 2) = LastArg(d, "policy", 2)
             /\ FieldsAt(e, LinesOf(e, "policy")) = FieldsAt(d, LinesOf(d, "policy"))
  <2>1. LinesOf(e, "policy") = LinesOf(d, "policy") /\ LinesOf(d, "policy") \subseteq 1..Len(d)
    BY <1>1, LinesOther, LinesFinite
  <2>2. FieldsAt(e, LinesOf(d, "policy")) = FieldsAt(d, LinesOf(d, "policy"))
    BY <2>1, FieldsOther
  <2>3. \A i : LastArg(e, "policy", i) = LastArg(d, "policy", i)
    BY <1>1, LastArgOther
  <2> QED BY <2>1, <2>2, <2>3 DEF Has
<1>2. l.directive # "group" =>
        LabelledAt(e, LinesOf(e, "group")) = LabelledAt(d, LinesOf(d, "group"))
  BY DeclaredOther
<1>3. l.directive # "subject" =>
        LabelledAt(e, LinesOf(e, "subject")) = LabelledAt(d, LinesOf(d, "subject"))
  BY DeclaredOther
<1>4. l.directive # "epoch" => LastArg(e, "epoch", 1) = LastArg(d, "epoch", 1)
  BY LastArgOther
<1>5. l.directive \notin {"evidence", "obs"} => EvidenceOf(e) = EvidenceOf(d)
  BY EvidenceOther
<1>6. l.directive # "evidence" => LinesOf(e, "evidence") = LinesOf(d, "evidence")
  BY LinesOther
<1>7. l.directive # "request" =>
        Has(e, "request") = Has(d, "request") /\ RequestOf(e) = RequestOf(d)
  BY LinesOther, RequestOther DEF Has
<1> QED BY <1>1, <1>2, <1>3, <1>4, <1>5, <1>6, <1>7

\* Each directive changes its own part of the draft and no other.
LEMMA DraftEpoch ==
  ASSUME NEW d \in Seq(Lines), NEW l \in Lines, l.directive = "epoch"
  PROVE  LET e == Append(d, l)
         IN [DraftOf(d) EXCEPT !.epoch = LastArg(e, "epoch", 1)] = DraftOf(e)
<1> DEFINE e == Append(d, l)
<1>1. /\ Has(e, "policy") = Has(d, "policy")
      /\ LastArg(e, "policy", 1) = LastArg(d, "policy", 1)
      /\ LastArg(e, "policy", 2) = LastArg(d, "policy", 2)
      /\ FieldsAt(e, LinesOf(e, "policy")) = FieldsAt(d, LinesOf(d, "policy"))
      /\ LabelledAt(e, LinesOf(e, "group")) = LabelledAt(d, LinesOf(d, "group"))
      /\ LabelledAt(e, LinesOf(e, "subject")) = LabelledAt(d, LinesOf(d, "subject"))
      /\ EvidenceOf(e) = EvidenceOf(d)
      /\ Has(e, "request") = Has(d, "request")
      /\ RequestOf(e) = RequestOf(d)
  BY Untouched
<1> HIDE DEF e
<1>2. [DraftOf(d) EXCEPT !.epoch = LastArg(e, "epoch", 1)] =
         Scenarios(Has(d, "policy"), LastArg(d, "policy", 1), LastArg(d, "policy", 2),
                   FieldsAt(d, LinesOf(d, "policy")), LabelledAt(d, LinesOf(d, "group")),
                   LabelledAt(d, LinesOf(d, "subject")), LastArg(e, "epoch", 1), EvidenceOf(d),
                   Has(d, "request"), RequestOf(d))
  BY Updates
<1>3. DraftOf(e) =
         Scenarios(Has(d, "policy"), LastArg(d, "policy", 1), LastArg(d, "policy", 2),
                   FieldsAt(d, LinesOf(d, "policy")), LabelledAt(d, LinesOf(d, "group")),
                   LabelledAt(d, LinesOf(d, "subject")), LastArg(e, "epoch", 1), EvidenceOf(d),
                   Has(d, "request"), RequestOf(d))
  BY <1>1 DEF DraftOf
<1> QED BY <1>2, <1>3 DEF e

LEMMA DraftGroup ==
  ASSUME NEW d \in Seq(Lines), NEW l \in Lines, l.directive = "group"
  PROVE  LET e == Append(d, l)
         IN [DraftOf(d) EXCEPT !.policy.groups = LabelledAt(e, LinesOf(e, "group"))] = DraftOf(e)
<1> DEFINE e == Append(d, l)
<1>1. /\ Has(e, "policy") = Has(d, "policy")
      /\ LastArg(e, "policy", 1) = LastArg(d, "policy", 1)
      /\ LastArg(e, "policy", 2) = LastArg(d, "policy", 2)
      /\ FieldsAt(e, LinesOf(e, "policy")) = FieldsAt(d, LinesOf(d, "policy"))
      /\ LabelledAt(e, LinesOf(e, "subject")) = LabelledAt(d, LinesOf(d, "subject"))
      /\ LastArg(e, "epoch", 1) = LastArg(d, "epoch", 1)
      /\ EvidenceOf(e) = EvidenceOf(d)
      /\ Has(e, "request") = Has(d, "request")
      /\ RequestOf(e) = RequestOf(d)
  BY Untouched
<1> HIDE DEF e
<1>2. [DraftOf(d) EXCEPT !.policy.groups = LabelledAt(e, LinesOf(e, "group"))] =
         Scenarios(Has(d, "policy"), LastArg(d, "policy", 1), LastArg(d, "policy", 2),
                   FieldsAt(d, LinesOf(d, "policy")), LabelledAt(e, LinesOf(e, "group")),
                   LabelledAt(d, LinesOf(d, "subject")), LastArg(d, "epoch", 1), EvidenceOf(d),
                   Has(d, "request"), RequestOf(d))
  BY Updates
<1>3. DraftOf(e) =
         Scenarios(Has(d, "policy"), LastArg(d, "policy", 1), LastArg(d, "policy", 2),
                   FieldsAt(d, LinesOf(d, "policy")), LabelledAt(e, LinesOf(e, "group")),
                   LabelledAt(d, LinesOf(d, "subject")), LastArg(d, "epoch", 1), EvidenceOf(d),
                   Has(d, "request"), RequestOf(d))
  BY <1>1 DEF DraftOf
<1> QED BY <1>2, <1>3 DEF e

LEMMA DraftSubject ==
  ASSUME NEW d \in Seq(Lines), NEW l \in Lines, l.directive = "subject"
  PROVE  LET e == Append(d, l)
         IN [DraftOf(d) EXCEPT !.policy.subjects = LabelledAt(e, LinesOf(e, "subject"))] = DraftOf(e)
<1> DEFINE e == Append(d, l)
<1>1. /\ Has(e, "policy") = Has(d, "policy")
      /\ LastArg(e, "policy", 1) = LastArg(d, "policy", 1)
      /\ LastArg(e, "policy", 2) = LastArg(d, "policy", 2)
      /\ FieldsAt(e, LinesOf(e, "policy")) = FieldsAt(d, LinesOf(d, "policy"))
      /\ LabelledAt(e, LinesOf(e, "group")) = LabelledAt(d, LinesOf(d, "group"))
      /\ LastArg(e, "epoch", 1) = LastArg(d, "epoch", 1)
      /\ EvidenceOf(e) = EvidenceOf(d)
      /\ Has(e, "request") = Has(d, "request")
      /\ RequestOf(e) = RequestOf(d)
  BY Untouched
<1> HIDE DEF e
<1>2. [DraftOf(d) EXCEPT !.policy.subjects = LabelledAt(e, LinesOf(e, "subject"))] =
         Scenarios(Has(d, "policy"), LastArg(d, "policy", 1), LastArg(d, "policy", 2),
                   FieldsAt(d, LinesOf(d, "policy")), LabelledAt(d, LinesOf(d, "group")),
                   LabelledAt(e, LinesOf(e, "subject")), LastArg(d, "epoch", 1), EvidenceOf(d),
                   Has(d, "request"), RequestOf(d))
  BY Updates
<1>3. DraftOf(e) =
         Scenarios(Has(d, "policy"), LastArg(d, "policy", 1), LastArg(d, "policy", 2),
                   FieldsAt(d, LinesOf(d, "policy")), LabelledAt(d, LinesOf(d, "group")),
                   LabelledAt(e, LinesOf(e, "subject")), LastArg(d, "epoch", 1), EvidenceOf(d),
                   Has(d, "request"), RequestOf(d))
  BY <1>1 DEF DraftOf
<1> QED BY <1>2, <1>3 DEF e

LEMMA DraftEvidence ==
  ASSUME NEW d \in Seq(Lines), NEW l \in Lines, l.directive \in {"evidence", "obs"}
  PROVE  LET e == Append(d, l)
         IN [DraftOf(d) EXCEPT !.evidence = EvidenceOf(e)] = DraftOf(e)
<1> DEFINE e == Append(d, l)
<1>1. /\ Has(e, "policy") = Has(d, "policy")
      /\ LastArg(e, "policy", 1) = LastArg(d, "policy", 1)
      /\ LastArg(e, "policy", 2) = LastArg(d, "policy", 2)
      /\ FieldsAt(e, LinesOf(e, "policy")) = FieldsAt(d, LinesOf(d, "policy"))
      /\ LabelledAt(e, LinesOf(e, "group")) = LabelledAt(d, LinesOf(d, "group"))
      /\ LabelledAt(e, LinesOf(e, "subject")) = LabelledAt(d, LinesOf(d, "subject"))
      /\ LastArg(e, "epoch", 1) = LastArg(d, "epoch", 1)
      /\ Has(e, "request") = Has(d, "request")
      /\ RequestOf(e) = RequestOf(d)
  BY Untouched
<1> HIDE DEF e
<1>2. [DraftOf(d) EXCEPT !.evidence = EvidenceOf(e)] =
         Scenarios(Has(d, "policy"), LastArg(d, "policy", 1), LastArg(d, "policy", 2),
                   FieldsAt(d, LinesOf(d, "policy")), LabelledAt(d, LinesOf(d, "group")),
                   LabelledAt(d, LinesOf(d, "subject")), LastArg(d, "epoch", 1), EvidenceOf(e),
                   Has(d, "request"), RequestOf(d))
  BY Updates
<1>3. DraftOf(e) =
         Scenarios(Has(d, "policy"), LastArg(d, "policy", 1), LastArg(d, "policy", 2),
                   FieldsAt(d, LinesOf(d, "policy")), LabelledAt(d, LinesOf(d, "group")),
                   LabelledAt(d, LinesOf(d, "subject")), LastArg(d, "epoch", 1), EvidenceOf(e),
                   Has(d, "request"), RequestOf(d))
  BY <1>1 DEF DraftOf
<1> QED BY <1>2, <1>3 DEF e

LEMMA DraftRequest ==
  ASSUME NEW d \in Seq(Lines), NEW l \in Lines, l.directive = "request"
  PROVE  LET e == Append(d, l)
         IN [DraftOf(d) EXCEPT !.has_request = Has(e, "request"), !.request = RequestOf(e)] = DraftOf(e)
<1> DEFINE e == Append(d, l)
<1>1. /\ Has(e, "policy") = Has(d, "policy")
      /\ LastArg(e, "policy", 1) = LastArg(d, "policy", 1)
      /\ LastArg(e, "policy", 2) = LastArg(d, "policy", 2)
      /\ FieldsAt(e, LinesOf(e, "policy")) = FieldsAt(d, LinesOf(d, "policy"))
      /\ LabelledAt(e, LinesOf(e, "group")) = LabelledAt(d, LinesOf(d, "group"))
      /\ LabelledAt(e, LinesOf(e, "subject")) = LabelledAt(d, LinesOf(d, "subject"))
      /\ LastArg(e, "epoch", 1) = LastArg(d, "epoch", 1)
      /\ EvidenceOf(e) = EvidenceOf(d)
  BY Untouched
<1> HIDE DEF e
<1>2. [DraftOf(d) EXCEPT !.has_request = Has(e, "request"), !.request = RequestOf(e)] =
         Scenarios(Has(d, "policy"), LastArg(d, "policy", 1), LastArg(d, "policy", 2),
                   FieldsAt(d, LinesOf(d, "policy")), LabelledAt(d, LinesOf(d, "group")),
                   LabelledAt(d, LinesOf(d, "subject")), LastArg(d, "epoch", 1), EvidenceOf(d),
                   Has(e, "request"), RequestOf(e))
  <2> DEFINE b == Has(e, "request")
             x == RequestOf(e)
             S(c, y) == Scenarios(Has(d, "policy"), LastArg(d, "policy", 1),
                                  LastArg(d, "policy", 2), FieldsAt(d, LinesOf(d, "policy")),
                                  LabelledAt(d, LinesOf(d, "group")),
                                  LabelledAt(d, LinesOf(d, "subject")), LastArg(d, "epoch", 1),
                                  EvidenceOf(d), c, y)
  <2>1. \A c, y : [DraftOf(d) EXCEPT !.has_request = c, !.request = y] = S(c, y)
    BY Updates
  <2> HIDE DEF b, x, S
  <2>2. [DraftOf(d) EXCEPT !.has_request = b, !.request = x] = S(b, x)
    BY <2>1
  <2> QED BY <2>2 DEF b, x, S
<1>3. DraftOf(e) =
         Scenarios(Has(d, "policy"), LastArg(d, "policy", 1), LastArg(d, "policy", 2),
                   FieldsAt(d, LinesOf(d, "policy")), LabelledAt(d, LinesOf(d, "group")),
                   LabelledAt(d, LinesOf(d, "subject")), LastArg(d, "epoch", 1), EvidenceOf(d),
                   Has(e, "request"), RequestOf(e))
  BY <1>1 DEF DraftOf
<1> QED BY <1>2, <1>3 DEF e

LEMMA DraftPolicy ==
  ASSUME NEW d \in Seq(Lines), NEW l \in Lines, l.directive = "policy"
  PROVE  LET e == Append(d, l)
         IN [DraftOf(d) EXCEPT !.has_policy = Has(e, "policy"),
                             !.policy = [@ EXCEPT !.id = LastArg(e, "policy", 1),
                                                  !.generation = LastArg(e, "policy", 2),
                                                  !.fields = FieldsAt(e, LinesOf(e, "policy"))]] = DraftOf(e)
<1> DEFINE e == Append(d, l)
<1>1. /\ LabelledAt(e, LinesOf(e, "group")) = LabelledAt(d, LinesOf(d, "group"))
      /\ LabelledAt(e, LinesOf(e, "subject")) = LabelledAt(d, LinesOf(d, "subject"))
      /\ LastArg(e, "epoch", 1) = LastArg(d, "epoch", 1)
      /\ EvidenceOf(e) = EvidenceOf(d)
      /\ Has(e, "request") = Has(d, "request")
      /\ RequestOf(e) = RequestOf(d)
  BY Untouched
<1> HIDE DEF e
<1>2. [DraftOf(d) EXCEPT !.has_policy = Has(e, "policy"),
                        !.policy = [@ EXCEPT !.id = LastArg(e, "policy", 1),
                                             !.generation = LastArg(e, "policy", 2),
                                             !.fields = FieldsAt(e, LinesOf(e, "policy"))]] =
         Scenarios(Has(e, "policy"), LastArg(e, "policy", 1), LastArg(e, "policy", 2),
                   FieldsAt(e, LinesOf(e, "policy")), LabelledAt(d, LinesOf(d, "group")),
                   LabelledAt(d, LinesOf(d, "subject")), LastArg(d, "epoch", 1), EvidenceOf(d),
                   Has(d, "request"), RequestOf(d))
  <2> DEFINE b == Has(e, "policy")
             x == LastArg(e, "policy", 1)
             y == LastArg(e, "policy", 2)
             z == FieldsAt(e, LinesOf(e, "policy"))
             S(c, u, v, w) == Scenarios(c, u, v, w, LabelledAt(d, LinesOf(d, "group")),
                                        LabelledAt(d, LinesOf(d, "subject")),
                                        LastArg(d, "epoch", 1), EvidenceOf(d),
                                        Has(d, "request"), RequestOf(d))
  <2>1. \A c, u, v, w :
          [DraftOf(d) EXCEPT !.has_policy = c,
                             !.policy = [@ EXCEPT !.id = u, !.generation = v, !.fields = w]] =
            S(c, u, v, w)
    BY Updates
  <2> HIDE DEF b, x, y, z, S
  <2>2. [DraftOf(d) EXCEPT !.has_policy = b,
                           !.policy = [@ EXCEPT !.id = x, !.generation = y, !.fields = z]] =
          S(b, x, y, z)
    BY <2>1
  <2> QED BY <2>2 DEF b, x, y, z, S
<1>3. DraftOf(e) =
         Scenarios(Has(e, "policy"), LastArg(e, "policy", 1), LastArg(e, "policy", 2),
                   FieldsAt(e, LinesOf(e, "policy")), LabelledAt(d, LinesOf(d, "group")),
                   LabelledAt(d, LinesOf(d, "subject")), LastArg(d, "epoch", 1), EvidenceOf(d),
                   Has(d, "request"), RequestOf(d))
  BY <1>1 DEF DraftOf
<1> QED BY <1>2, <1>3 DEF e

-------------------------------------------------------------------------------
(* One lemma per directive.                                                *)

\* A line that opens no section leaves the next one in the section it is in.
LEMMA PlaceKept ==
  ASSUME ParserInv, phase = "reading", NEW l \in Lines, read' = Append(read, l),
         l.directive \notin Sections \cup {"blank"}, saw_version' <=> TRUE,
         in_policy' = in_policy, in_evidence' = in_evidence, current' = current
  PROVE  Place'
<1>1. /\ read \in Seq(Lines) /\ Place
      /\ ~Leads(read', Len(read') + 1)
      /\ SectionOf(read', Len(read') + 1) = SectionOf(read, Len(read) + 1)
  BY Moves
<1>2. LinesOf(read', "evidence") = LinesOf(read, "evidence")
  <2>1. l.directive # "evidence"
    BY DEF Sections
  <2> QED BY <1>1, <2>1, LinesOther
<1> QED BY <1>1, <1>2 DEF Place

\* A directive other than version is accepted only after the version.
LEMMA SawVersion ==
  ASSUME NEW l, Acceptable(l), l.directive # "version"
  PROVE  saw_version <=> TRUE
BY DEF Acceptable

LEMMA VersionStep ==
  ASSUME ParserInv, NEW l \in Lines, Version(l)
  PROVE  ParserInv'
<1>1. /\ Takes(l, "version") /\ l.directive = "version" /\ phase = "reading"
      /\ read' = Append(read, l) /\ saw_version' = TRUE /\ scenario' = scenario
      /\ in_policy' = in_policy /\ in_evidence' = in_evidence /\ current' = current
  BY DEF Version, Takes
<1>2. Place'
  BY <1>1, PlaceKept DEF Sections
<1>3. DraftOf(read') = DraftOf(read) /\ scenario = DraftOf(read)
  <2>1. read \in Seq(Lines) /\ scenario = DraftOf(read)
    BY <1>1, Moves
  <2> QED BY <1>1, <2>1, Untouched DEF DraftOf
<1> QED BY <1>1, <1>2, <1>3, Taking

LEMMA BlankStep ==
  ASSUME ParserInv, NEW l \in Lines, Blank(l)
  PROVE  ParserInv'
<1>1. /\ l.directive = "blank" /\ phase = "reading" /\ phase' = phase /\ read' = Append(read, l)
      /\ scenario' = scenario /\ saw_version' = saw_version
      /\ in_policy' = in_policy /\ in_evidence' = in_evidence /\ current' = current
  BY DEF Blank, flags
<1>2. /\ read \in Seq(Lines) /\ read' \in Seq(Lines) /\ Place /\ scenario = DraftOf(read)
      /\ Leads(read', Len(read') + 1) <=> Leads(read, Len(read) + 1)
      /\ SectionOf(read', Len(read') + 1) = SectionOf(read, Len(read) + 1)
      /\ Grammatical(read')
  <2>1. Fitting(read, l)
    BY <1>1 DEF Fitting
  <2> QED BY <1>1, <2>1, Moves DEF Sections
<1>3. LinesOf(read', "evidence") = LinesOf(read, "evidence")
  BY <1>1, <1>2, LinesOther
<1>4. Place'
  BY <1>1, <1>2, <1>3 DEF Place
<1>5. DraftOf(read') = DraftOf(read)
  BY <1>1, <1>2, Untouched DEF DraftOf
<1> QED BY <1>1, <1>2, <1>4, <1>5 DEF ParserInv, AcceptsTheGrammar, MeansWhatItSays

LEMMA WithoutLast ==
  ASSUME NEW d \in Seq(Lines), NEW l \in Lines
  PROVE  SubSeq(Append(d, l), 1, Len(Append(d, l)) - 1) = d
<1> DEFINE e == Append(d, l)
           n == Len(d)
           b == SubSeq(e, 1, n)
<1>1. /\ n \in Nat /\ Len(e) = n + 1 /\ \A i \in 1..n : e[i] = d[i] /\ e[i] \in Lines
  BY OneMore
<1>2. /\ b \in Seq(Lines) /\ Len(b) = n /\ \A i \in 1..n : b[i] = e[i]
  <2> HIDE DEF e, n
  <2>1. /\ b \in Seq(Lines) /\ Len(b) = (IF 1 <= n THEN n - 1 + 1 ELSE 0)
        /\ \A i \in 1..(n - 1 + 1) : b[i] = e[1 + i - 1]
    BY <1>1, SubSeqProperties
  <2> HIDE DEF b
  <2> QED BY <1>1, <2>1
<1> HIDE DEF b, e
<1>3. b = d
  BY <1>1, <1>2, SeqEqual
<1>4. Len(e) - 1 = n
  BY <1>1
<1> QED BY <1>3, <1>4 DEF b, e, n

LEMMA RejectStep ==
  ASSUME ParserInv, NEW l \in Lines, Reject(l)
  PROVE  ParserInv'
<1>1. /\ l.directive # "blank" /\ ~Acceptable(l) /\ phase = "reading" /\ phase' = "bad line"
      /\ read' = Append(read, l)
  BY DEF Reject
<1>2. read \in Seq(Lines) /\ read' \in Seq(Lines) /\ ~Grammatical(read')
  BY <1>1, Accepting, Moves
<1>3. SubSeq(read', 1, Len(read') - 1) = read
  BY <1>1, <1>2, WithoutLast
<1>4. Grammatical(SubSeq(read', 1, Len(read') - 1))
  BY <1>1, <1>3 DEF ParserInv
<1> QED BY <1>1, <1>2, <1>4 DEF ParserInv, AcceptsTheGrammar, MeansWhatItSays

LEMMA EndStep ==
  ASSUME ParserInv, End
  PROVE  ParserInv'
<1>1. /\ phase = "reading" /\ scenario' = WithEpoch(scenario) /\ read' = read
      /\ phase' \in {"incomplete", "parsed", "invalid"}
  BY DEF End
<1>2. scenario' = MeaningOf(read')
  BY <1>1, DraftMeans DEF ParserInv
<1> QED BY <1>1, <1>2 DEF ParserInv, AcceptsTheGrammar, MeansWhatItSays

\* So does a directive other than version that opens none.
LEMMA KeptOpen ==
  ASSUME ParserInv, phase = "reading", NEW l \in Lines, read' = Append(read, l), Acceptable(l),
         l.directive \notin Sections \cup {"blank", "version"}, saw_version' = saw_version,
         in_policy' = in_policy, in_evidence' = in_evidence, current' = current
  PROVE  Place'
<1>1. saw_version' <=> TRUE
  BY SawVersion
<1> QED BY <1>1, PlaceKept

LEMMA EpochStep ==
  ASSUME ParserInv, NEW l \in Lines, Epoch(l)
  PROVE  ParserInv'
<1>1. /\ Takes(l, "epoch") /\ l.directive = "epoch" /\ phase = "reading" /\ Acceptable(l)
      /\ read' = Append(read, l) /\ saw_version' = saw_version
      /\ in_policy' = in_policy /\ in_evidence' = in_evidence /\ current' = current
      /\ scenario' = [scenario EXCEPT !.epoch = l.args[1][1]]
  BY DEF Epoch, Takes
<1>2. Place'
  BY <1>1, KeptOpen DEF Sections
<1>3. read \in Seq(Lines) /\ scenario = DraftOf(read)
  BY <1>1, Moves
<1>4. LastArg(read', "epoch", 1) = l.args[1][1]
  BY <1>1, <1>3, LastArgSame
<1>5. scenario' = [DraftOf(read) EXCEPT !.epoch = LastArg(read', "epoch", 1)]
  BY <1>1, <1>3, <1>4
<1>6. scenario' = DraftOf(read')
  BY <1>1, <1>3, <1>5, DraftEpoch
<1> QED BY <1>1, <1>2, <1>6, Taking

LEMMA GroupStep ==
  ASSUME ParserInv, NEW l \in Lines, GroupLine(l)
  PROVE  ParserInv'
<1>1. /\ Takes(l, "group") /\ l.directive = "group" /\ phase = "reading" /\ Acceptable(l)
      /\ read' = Append(read, l) /\ saw_version' = saw_version
      /\ in_policy' = in_policy /\ in_evidence' = in_evidence /\ current' = current
      /\ scenario' = [scenario EXCEPT !.policy.groups = Append(scenario.policy.groups, Labelled(l))]
  BY DEF GroupLine, Takes
<1>2. Place'
  BY <1>1, KeptOpen DEF Sections
<1>3. read \in Seq(Lines) /\ scenario = DraftOf(read)
  BY <1>1, Moves
<1> DEFINE new == LabelledAt(read', LinesOf(read', "group"))
<1>4. new = Append(LabelledAt(read, LinesOf(read, "group")), Labelled(l))
  BY <1>1, <1>3, DeclaredSame
<1>5. scenario.policy.groups = LabelledAt(read, LinesOf(read, "group"))
  BY <1>3, Updates DEF DraftOf
<1>6. scenario' = [DraftOf(read) EXCEPT !.policy.groups = new]
  BY <1>1, <1>3, <1>4, <1>5
<1>7. scenario' = DraftOf(read')
  BY <1>1, <1>3, <1>6, DraftGroup
<1> QED BY <1>1, <1>2, <1>7, Taking

LEMMA SubjectStep ==
  ASSUME ParserInv, NEW l \in Lines, SubjectLine(l)
  PROVE  ParserInv'
<1>1. /\ Takes(l, "subject") /\ l.directive = "subject" /\ phase = "reading" /\ Acceptable(l)
      /\ read' = Append(read, l) /\ saw_version' = saw_version
      /\ in_policy' = in_policy /\ in_evidence' = in_evidence /\ current' = current
      /\ scenario' =
           [scenario EXCEPT !.policy.subjects = Append(scenario.policy.subjects, Labelled(l))]
  BY DEF SubjectLine, Takes
<1>2. Place'
  BY <1>1, KeptOpen DEF Sections
<1>3. read \in Seq(Lines) /\ scenario = DraftOf(read)
  BY <1>1, Moves
<1> DEFINE new == LabelledAt(read', LinesOf(read', "subject"))
<1>4. new = Append(LabelledAt(read, LinesOf(read, "subject")), Labelled(l))
  BY <1>1, <1>3, DeclaredSame
<1>5. scenario.policy.subjects = LabelledAt(read, LinesOf(read, "subject"))
  BY <1>3, Updates DEF DraftOf
<1>6. scenario' = [DraftOf(read) EXCEPT !.policy.subjects = new]
  BY <1>1, <1>3, <1>4, <1>5
<1>7. scenario' = DraftOf(read')
  BY <1>1, <1>3, <1>6, DraftSubject
<1> QED BY <1>1, <1>2, <1>7, Taking

LEMMA ObsStep ==
  ASSUME ParserInv, NEW l \in Lines, Obs(l)
  PROVE  ParserInv'
<1>1. /\ Takes(l, "obs") /\ l.directive = "obs" /\ phase = "reading" /\ Acceptable(l)
      /\ read' = Append(read, l) /\ saw_version' = saw_version
      /\ in_policy' = in_policy /\ in_evidence' = in_evidence /\ current' = current
      /\ scenario' = [scenario EXCEPT !.evidence[current].observations = Append(@, Entity(l))]
  BY DEF Obs, Takes
<1>2. Place'
  BY <1>1, KeptOpen DEF Sections
<1>3. read \in Seq(Lines) /\ Place /\ scenario = DraftOf(read)
  BY <1>1, Moves
<1>4. in_evidence
  BY <1>1 DEF Acceptable
<1>5. current = Cardinality(LinesOf(read, "evidence")) /\ LinesOf(read, "evidence") # {}
  <2>1. SectionOf(read, Len(read) + 1) = "evidence"
    BY <1>3, <1>4 DEF Place
  <2>2. Len(read) + 1 \in 1..(Len(read) + 1)
    BY <1>3
  <2>3. LinesOf(read, "evidence") # {}
    BY <1>3, <2>1, <2>2, SectionOpened
  <2> QED BY <1>3, <1>4, <2>3 DEF Place
<1> DEFINE old == EvidenceOf(read)
           new == EvidenceOf(read')
<1>6. new = [old EXCEPT ![current].observations = Append(@, Entity(l))]
  BY <1>1, <1>3, <1>5, EvidenceObs
<1>7. scenario.evidence = old
  BY <1>3, Updates DEF DraftOf
<1>8. scenario' = [DraftOf(read) EXCEPT !.evidence = new]
  BY <1>1, <1>3, <1>6, <1>7
<1>9. scenario' = DraftOf(read')
  BY <1>1, <1>3, <1>8, DraftEvidence
<1> QED BY <1>1, <1>2, <1>9, Taking

LEMMA EvidenceStep ==
  ASSUME ParserInv, NEW l \in Lines, EvidenceLine(l)
  PROVE  ParserInv'
<1>1. /\ Takes(l, "evidence") /\ l.directive = "evidence" /\ phase = "reading" /\ Acceptable(l)
      /\ read' = Append(read, l) /\ saw_version' = saw_version
      /\ in_policy' = FALSE /\ in_evidence' = TRUE /\ current' = Len(scenario'.evidence)
      /\ scenario' = [scenario EXCEPT !.evidence = Append(scenario.evidence, Snapshot(l))]
  BY DEF EvidenceLine, Takes
<1>2. read \in Seq(Lines) /\ read' \in Seq(Lines) /\ scenario = DraftOf(read)
  BY <1>1, Moves
<1> DEFINE new == EvidenceOf(read')
<1>3. new = Append(EvidenceOf(read), Snapshot(l))
  BY <1>1, <1>2, EvidenceNew
<1>4. scenario.evidence = EvidenceOf(read)
  BY <1>2, Updates DEF DraftOf
<1>5. scenario' = [DraftOf(read) EXCEPT !.evidence = new]
  BY <1>1, <1>2, <1>3, <1>4
<1>6. scenario' = DraftOf(read')
  BY <1>1, <1>2, <1>5, DraftEvidence
<1>7. current' = Cardinality(LinesOf(read', "evidence"))
  <2>1. scenario'.evidence = new
    BY <1>6, Updates DEF DraftOf
  <2> QED BY <1>1, <1>2, <2>1, EvidenceLength
<1>8. Place'
  <2>1. ~Leads(read', Len(read') + 1) /\ SectionOf(read', Len(read') + 1) = "evidence"
    BY <1>1, Moves DEF Sections
  <2>2. saw_version' <=> TRUE
    BY <1>1, SawVersion
  <2> QED BY <1>1, <1>7, <2>1, <2>2 DEF Place
<1> QED BY <1>1, <1>6, <1>8, Taking

\* Policy and request lines open a section without evidence.
LEMMA PlaceOpened ==
  ASSUME ParserInv, phase = "reading", NEW l \in Lines, read' = Append(read, l), Acceptable(l),
         l.directive \in {"policy", "request"}, saw_version' = saw_version,
         in_policy' = (l.directive = "policy"), in_evidence' = FALSE, current' = 0
  PROVE  Place'
<1>1. ~Leads(read', Len(read') + 1) /\ SectionOf(read', Len(read') + 1) = l.directive
  BY Moves DEF Sections
<1>2. saw_version' <=> TRUE
  BY SawVersion
<1> QED BY <1>1, <1>2 DEF Place

LEMMA PolicyStep ==
  ASSUME ParserInv, NEW l \in Lines, PolicyLine(l)
  PROVE  ParserInv'
<1> DEFINE yes == TRUE
           fields == Assigned(scenario.policy.fields, l.attrs)
<1>1. /\ Takes(l, "policy") /\ l.directive = "policy" /\ phase = "reading" /\ Acceptable(l)
      /\ read' = Append(read, l) /\ saw_version' = saw_version
      /\ in_policy' = TRUE /\ in_evidence' = FALSE /\ current' = 0
      /\ scenario' = [scenario EXCEPT !.has_policy = yes,
                        !.policy = [@ EXCEPT !.id = l.args[1][1], !.generation = l.args[2][1],
                                             !.fields = fields]]
  BY DEF PolicyLine, Takes
<1>2. Place'
  BY <1>1, PlaceOpened
<1>3. read \in Seq(Lines) /\ scenario = DraftOf(read)
  BY <1>1, Moves
<1>4. LastArg(read', "policy", 1) = l.args[1][1] /\ LastArg(read', "policy", 2) = l.args[2][1]
  BY <1>1, <1>3, LastArgSame
<1>5. Has(read', "policy") = yes
  BY <1>1, <1>3, LastSame DEF Has
<1>6. FieldsAt(read', LinesOf(read', "policy")) = fields
  <2>1. /\ LinesOf(read', "policy") = LinesOf(read, "policy") \cup {Len(read) + 1}
        /\ LinesOf(read, "policy") \subseteq 1..Len(read)
    BY <1>1, <1>3, LinesSame, LinesFinite
  <2>2. scenario.policy.fields = FieldsAt(read, LinesOf(read, "policy"))
    BY <1>3, Updates DEF DraftOf
  <2> QED BY <1>1, <1>3, <2>1, <2>2, FieldsSame
<1> HIDE DEF yes, fields
<1>7. scenario' =
        [DraftOf(read) EXCEPT
           !.has_policy = Has(read', "policy"),
           !.policy = [@ EXCEPT !.id = LastArg(read', "policy", 1),
                                !.generation = LastArg(read', "policy", 2),
                                !.fields = FieldsAt(read', LinesOf(read', "policy"))]]
  BY <1>1, <1>3, <1>4, <1>5, <1>6
<1>8. scenario' = DraftOf(read')
  BY <1>1, <1>3, <1>7, DraftPolicy
<1> QED BY <1>1, <1>2, <1>8, Taking

LEMMA RequestStep ==
  ASSUME ParserInv, NEW l \in Lines, Request(l)
  PROVE  ParserInv'
<1> DEFINE yes == TRUE
<1>1. /\ Takes(l, "request") /\ l.directive = "request" /\ phase = "reading" /\ Acceptable(l)
      /\ read' = Append(read, l) /\ saw_version' = saw_version
      /\ in_policy' = FALSE /\ in_evidence' = FALSE /\ current' = 0
      /\ scenario' =
           [scenario EXCEPT !.has_request = yes, !.request = Assigned(NoFields, l.attrs)]
  BY DEF Request, Takes
<1>2. Place'
  BY <1>1, PlaceOpened
<1>3. read \in Seq(Lines) /\ scenario = DraftOf(read)
  BY <1>1, Moves
<1>4. RequestOf(read') = Assigned(NoFields, l.attrs)
  BY <1>1, <1>3, RequestSame
<1>5. Has(read', "request") = yes
  BY <1>1, <1>3, LastSame DEF Has
<1> HIDE DEF yes
<1>6. scenario' =
        [DraftOf(read) EXCEPT !.has_request = Has(read', "request"), !.request = RequestOf(read')]
  BY <1>1, <1>3, <1>4, <1>5
<1>7. scenario' = DraftOf(read')
  BY <1>1, <1>3, <1>6, DraftRequest
<1> QED BY <1>1, <1>2, <1>7, Taking

LEMMA ParserInvStep ==
  ASSUME ParserInv, [Next]_vars
  PROVE  ParserInv'
<1>1. CASE UNCHANGED vars
  BY <1>1 DEF vars, flags, ParserInv, Place, AcceptsTheGrammar, MeansWhatItSays
<1>2. CASE End
  BY <1>2, EndStep
<1>3. ASSUME NEW l \in Lines,
             \/ Blank(l) \/ Reject(l) \/ Version(l) \/ Epoch(l) \/ PolicyLine(l) \/ GroupLine(l)
             \/ SubjectLine(l) \/ EvidenceLine(l) \/ Obs(l) \/ Request(l)
      PROVE  ParserInv'
  BY <1>3, BlankStep, RejectStep, VersionStep, EpochStep, PolicyStep, GroupStep, SubjectStep,
     EvidenceStep, ObsStep, RequestStep
<1> QED BY <1>1, <1>2, <1>3 DEF Next

LEMMA ParserInvariant ==
  Spec => []ParserInv
<1>1. Init => ParserInv
  BY ParserInvInit
<1>2. ParserInv /\ [Next]_vars => ParserInv'
  BY ParserInvStep
<1> QED BY <1>1, <1>2, PTL DEF Spec

\* The parser stops exactly at the first line with which the text is no longer
\* grammatical: whatever Lines contains, however long the document is and
\* whatever sections were opened and closed before, the flags that parse_scenario
\* keeps decide the same as the whole text above the line does.
THEOREM ParserAcceptsTheGrammar ==
  Spec => []AcceptsTheGrammar
<1>1. ParserInv => AcceptsTheGrammar
  BY DEF ParserInv
<1> QED BY <1>1, ParserInvariant, PTL

\* The scenario that parse_scenario builds up line by line and hands out is what
\* the document says as a whole, for every document.
THEOREM ParserMeansWhatItSays ==
  Spec => []MeansWhatItSays
<1>1. ParserInv => MeansWhatItSays
  BY DEF ParserInv
<1> QED BY <1>1, ParserInvariant, PTL

===============================================================================
