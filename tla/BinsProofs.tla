----------------------------- MODULE BinsProofs -----------------------------
(***************************************************************************)
(* Proofs about Bins, for any chunks, sizes and needs.                     *)
(*                                                                         *)
(* The invariant Inv is that of the links.  Ringed: the chunks of a small  *)
(* bin with its header, and the chunks of one large size, form one circle. *)
(* Trie: of each ring of a large size one chunk, a node, is in the trie of *)
(* its bin.  A node at depth d has a region: the sizes whose bits lead to  *)
(* it.  Its own size is there, those of its children are the halves the    *)
(* next bit makes, and a root has all sizes of its bin.  A removed node is *)
(* replaced by one whose size is in the region, so a search still comes to *)
(* every node although the bits of the nodes above no longer tell.         *)
(*                                                                         *)
(* search, descent, nodes and ring are recursive functions: they are       *)
(* followed by induction over the depth, as sets of numbers (Climb).       *)
(***************************************************************************)
EXTENDS Bins, FiniteSetTheorems, FunctionTheorems, WellFoundedInduction, TLAPS

-----------------------------------------------------------------------------
(* Sizes and indexes *)

\* What holds of 0, and of n + 1 if it holds of n, holds of every number.
LEMMA Induction ==
  ASSUME NEW T, 0 \in T, \A n \in Nat : n \in T => n + 1 \in T
  PROVE  Nat \subseteq T
<1> DEFINE R == {ss \in Nat \X Nat : ss[1] < ss[2]}
           Rest == Nat \ T
<1>1. IsWellFoundedOn(R, Nat)
  BY NatLessThanWellFounded DEF OpToRel
<1>2. \A x, y \in Nat : <<y, x>> \in R <=> y < x
  OBVIOUS
<1> HIDE DEF R
<1>3. ASSUME Rest # {} PROVE FALSE
  <2>1. PICK x \in Rest : \A y \in Rest : ~ (<<y, x>> \in R)
    BY <1>1, <1>3, WFMin
  <2>2. x \in Nat /\ x # 0 /\ x - 1 \in Nat /\ x - 1 < x
    BY <2>1
  <2>3. x - 1 \in T
    BY <2>1, <2>2, <1>2
  <2>4. (x - 1) + 1 = x /\ x \notin T
    BY <2>1
  <2> QED BY <2>2, <2>3, <2>4
<1> QED BY <1>3

\* Numbers have a least one among them.
LEMMA Least ==
  ASSUME NEW T \in SUBSET Nat, T # {}
  PROVE  \E n \in T : \A m \in T : n =< m
<1> DEFINE R == {ss \in Nat \X Nat : ss[1] < ss[2]}
<1>1. IsWellFoundedOn(R, Nat)
  BY NatLessThanWellFounded DEF OpToRel
<1>2. \A x, y \in Nat : <<y, x>> \in R <=> y < x
  OBVIOUS
<1> HIDE DEF R
<1>3. PICK x \in T : \A y \in T : ~ (<<y, x>> \in R)
  BY <1>1, WFMin
<1>4. \A y \in T : ~(y < x)
  BY <1>2, <1>3
<1>5. \A y \in T : x =< y
  BY <1>3, <1>4
<1> QED BY <1>5

\* computeSmallIndex: small sizes fall into the 32 small bins.
LEMMA SmallIndexRange == SmallIndex \subseteq 0 .. kNumSmallBins - 1
<1> SUFFICES ASSUME NEW s \in Sizes, isSmall(s) PROVE getSmallBinIndex(s) \in 0 .. kNumSmallBins - 1
  BY DEF SmallIndex
<1>1. s \in Nat
  BY BinsAssumption
<1>2. s \div 2^3 \in Nat
  BY <1>1
<1> QED BY <1>2 DEF isSmall, getSmallBinIndex, kSmallBinShift, kNumSmallBins

\* A size that is not small is no index of a small bin.
LEMMA LargeSizes == \A s \in Sizes : ~isSmall(s) => s > kNumSmallBins - 1 /\ s \in Nat
<1> SUFFICES ASSUME NEW s \in Sizes, ~isSmall(s) PROVE s > kNumSmallBins - 1 /\ s \in Nat
  OBVIOUS
<1>1. s \in Nat
  BY BinsAssumption
<1>2. ~(s \div 2^3 < 32)
  BY DEF isSmall, kSmallBinShift, kNumSmallBins
<1> QED BY <1>1, <1>2 DEF kNumSmallBins

\* computeTreeIndex: sizes fall into the 32 tree bins.
LEMMA TreeIndexRange == TreeIndex \subseteq 0 .. kNumTreeBins - 1
<1> SUFFICES ASSUME NEW s \in Sizes PROVE computeTreeIndex(s) \in 0 .. kNumTreeBins - 1
  BY DEF TreeIndex
<1> DEFINE x == s \div 256
           InRange(i) == 2^i =< x /\ x < 2^(i + 1)
           k == CHOOSE i \in 0 .. 15 : InRange(i)
<1>1. x \in Nat
  <2>1. s \in Nat
    BY BinsAssumption
  <2> QED BY <2>1
<1>2. ASSUME x # 0, ~(x > 65535) PROVE k \in 0 .. 15
  <2> HIDE DEF x
  <2>0. /\ 2^0 = 1 /\ 2^1 = 2 /\ 2^2 = 4 /\ 2^3 = 8 /\ 2^4 = 16 /\ 2^5 = 32 /\ 2^6 = 64 /\ 2^7 = 128
        /\ 2^8 = 256 /\ 2^9 = 512 /\ 2^10 = 1024 /\ 2^11 = 2048 /\ 2^12 = 4096
        /\ 2^13 = 8192 /\ 2^14 = 16384 /\ 2^15 = 32768 /\ 2^16 = 65536
    OBVIOUS
  <2>1. \E i \in 0 .. 15 : InRange(i)
    <3>1. CASE x < 16
      <4>1. InRange(0) \/ InRange(1) \/ InRange(2) \/ InRange(3)
        BY <1>1, <1>2, <3>1, <2>0
      <4> QED BY <4>1
    <3>2. CASE x >= 16 /\ x < 256
      <4>1. InRange(4) \/ InRange(5) \/ InRange(6) \/ InRange(7)
        BY <1>1, <1>2, <3>2, <2>0
      <4> QED BY <4>1
    <3>3. CASE x >= 256 /\ x < 4096
      <4>1. InRange(8) \/ InRange(9) \/ InRange(10) \/ InRange(11)
        BY <1>1, <1>2, <3>3, <2>0
      <4> QED BY <4>1
    <3>4. CASE x >= 4096
      <4>1. InRange(12) \/ InRange(13) \/ InRange(14) \/ InRange(15)
        BY <1>1, <1>2, <3>4, <2>0
      <4> QED BY <4>1
    <3> QED BY <1>1, <3>1, <3>2, <3>3, <3>4
  <2> HIDE DEF InRange
  <2> QED BY <2>1
<1>3. computeTreeIndex(s) = IF x = 0 THEN 0 ELSE IF x > 65535 THEN 31 ELSE 2 * k + bit(s, k + 7)
  BY DEF computeTreeIndex, kTreeBinShift, kNumTreeBins
<1>4. bit(s, k + 7) \in 0 .. 1
  BY DEF bit
<1> HIDE DEF k, x
<1> QED BY <1>1, <1>2, <1>3, <1>4 DEF kNumTreeBins

\* Indexes and turns are what the variables are indexed by, and no chunk is an index.
LEMMA Indexes ==
  /\ \A s \in Sizes : isSmall(s) => getSmallBinIndex(s) \in SmallIndex
  /\ \A s \in Sizes : ~isSmall(s) => computeTreeIndex(s) \in TreeIndex
  /\ \A s, d : turn(s, d) \in 0 .. 1
  /\ SmallIndex \subseteq Nat /\ TreeIndex \subseteq Nat
  /\ (Chunk \cup {null}) \cap (SmallIndex \cup TreeIndex) = {}
<1>1. SmallIndex \subseteq Nat /\ TreeIndex \subseteq Nat
  BY SmallIndexRange, TreeIndexRange
<1>2. \A s, d : turn(s, d) \in 0 .. 1
  BY DEF turn, bit
<1>3. (Chunk \cup {null}) \cap (SmallIndex \cup TreeIndex) = {}
  BY <1>1, BinsAssumption
<1> QED BY <1>1, <1>2, <1>3 DEF SmallIndex, TreeIndex

-----------------------------------------------------------------------------
(* Circular lists *)

\* The elements of R in one circle: f and b are inverse, and whoever follows f from anywhere
\* comes past all of them.
Circle(R, f, b) ==
  /\ \A n \in R : f[n] \in R /\ b[n] \in R /\ b[f[n]] = n /\ f[b[n]] = n
  /\ \A S \in SUBSET R : S # {} /\ (\A n \in S : f[n] \in S) => S = R

\* The links of R do not change, c is linked in behind n, c is linked out.
Untouched(R, f, b, g, h) == \A x \in R : g[x] = f[x] /\ h[x] = b[x]

LinkedIn(R, n, c, f, b, g, h) ==
  /\ n \in R /\ c \notin R
  /\ g[n] = c /\ g[c] = f[n] /\ h[f[n]] = c /\ h[c] = n
  /\ \A x \in R : (x # n => g[x] = f[x]) /\ (x # f[n] => h[x] = b[x])

LinkedOut(R, c, f, b, g, h) ==
  /\ c \in R /\ R # {c}
  /\ g[b[c]] = f[c] /\ h[f[c]] = b[c]
  /\ \A x \in R \ {c} : (x # b[c] => g[x] = f[x]) /\ (x # f[c] => h[x] = b[x])

\* Links outside do not matter.
LEMMA CircleSame ==
  ASSUME NEW R, NEW f, NEW b, NEW g, NEW h, Circle(R, f, b), Untouched(R, f, b, g, h)
  PROVE  Circle(R, g, h)
BY DEF Circle, Untouched

\* A single element is a circle.
LEMMA CircleOne ==
  ASSUME NEW c, NEW f, NEW b, f[c] = c, b[c] = c
  PROVE  Circle({c}, f, b)
BY DEF Circle

\* Linking in keeps a circle.
LEMMA CircleJoin ==
  ASSUME NEW R, NEW f, NEW b, Circle(R, f, b), NEW n, NEW c, NEW g, NEW h, LinkedIn(R, n, c, f, b, g, h)
  PROVE  Circle(R \cup {c}, g, h)
<1> USE DEF LinkedIn
<1>1. \A x \in R : f[x] \in R /\ b[x] \in R /\ b[f[x]] = x /\ f[b[x]] = x
  BY DEF Circle
<1>2. ASSUME NEW x \in R \cup {c}
      PROVE  g[x] \in R \cup {c} /\ h[x] \in R \cup {c} /\ h[g[x]] = x /\ g[h[x]] = x
  BY <1>1
<1>3. ASSUME NEW S \in SUBSET (R \cup {c}), S # {}, \A x \in S : g[x] \in S
      PROVE  S = R \cup {c}
  <2>1. c \in S
    <3> SUFFICES ASSUME c \notin S PROVE FALSE
      OBVIOUS
    <3>1. n \notin S /\ S \in SUBSET R
      BY <1>3
    <3>2. \A x \in S : f[x] \in S
      BY <1>3, <3>1
    <3> QED BY <1>3, <3>1, <3>2 DEF Circle
  <2>2. f[n] \in S \ {c} /\ S \ {c} \in SUBSET R
    BY <1>1, <1>3, <2>1
  <2>3. \A x \in S \ {c} : f[x] \in S \ {c}
    BY <1>1, <1>3, <2>2
  <2>4. S \ {c} = R
    BY <2>2, <2>3 DEF Circle
  <2> QED BY <2>1, <2>4
<1> QED BY <1>2, <1>3 DEF Circle

\* Linking out keeps a circle.
LEMMA CircleLeave ==
  ASSUME NEW R, NEW f, NEW b, Circle(R, f, b), NEW c, NEW g, NEW h, LinkedOut(R, c, f, b, g, h)
  PROVE  Circle(R \ {c}, g, h)
<1> USE DEF LinkedOut
<1>1. \A x \in R : f[x] \in R /\ b[x] \in R /\ b[f[x]] = x /\ f[b[x]] = x
  BY DEF Circle
<1>2. f[c] # c /\ b[c] # c
  <2>1. ASSUME f[c] = c PROVE FALSE
    <3>1. {c} \in SUBSET R /\ {c} # {} /\ \A x \in {c} : f[x] \in {c}
      BY <2>1
    <3> QED BY <3>1 DEF Circle
  <2> QED BY <1>1, <2>1
<1>3. ASSUME NEW x \in R \ {c}
      PROVE  g[x] \in R \ {c} /\ h[x] \in R \ {c} /\ h[g[x]] = x /\ g[h[x]] = x
  BY <1>1, <1>2
<1>4. ASSUME NEW S \in SUBSET (R \ {c}), S # {}, \A x \in S : g[x] \in S
      PROVE  S = R \ {c}
  <2>1. b[c] \in S
    <3> SUFFICES ASSUME b[c] \notin S PROVE FALSE
      OBVIOUS
    <3>1. \A x \in S : f[x] \in S
      BY <1>4
    <3>2. S = R
      BY <1>4, <3>1 DEF Circle
    <3> QED BY <1>4, <3>2
  <2>2. f[c] \in S
    BY <1>4, <2>1
  <2>3. \A x \in S \cup {c} : f[x] \in S \cup {c}
    BY <1>1, <1>4, <2>2
  <2>4. S \cup {c} \in SUBSET R /\ S \cup {c} # {}
    BY <1>4
  <2>5. S \cup {c} = R
    <3> DEFINE Q == S \cup {c}
    <3>1. Q \in SUBSET R /\ Q # {} /\ \A x \in Q : f[x] \in Q
      BY <2>3, <2>4
    <3> HIDE DEF Q
    <3>2. Q = R
      BY <3>1 DEF Circle
    <3> QED BY <3>2 DEF Q
  <2> QED BY <1>4, <2>5
<1> QED BY <1>3, <1>4 DEF Circle

\* An element whose neighbours are the same has no others.
LEMMA CircleOfTwo ==
  ASSUME NEW R, NEW f, NEW b, Circle(R, f, b), NEW c \in R, f[c] = b[c]
  PROVE  R = {c, f[c]}
<1>1. {c, f[c]} \in SUBSET R /\ \A x \in {c, f[c]} : f[x] \in {c, f[c]}
  BY DEF Circle
<1> QED BY <1>1 DEF Circle

\* What holds of 0, and of each number up to n if it holds of the one before.
LEMMA Climb ==
  ASSUME NEW n \in Nat, NEW T, 0 \in T, \A d \in 1 .. n : d - 1 \in T => d \in T
  PROVE  0 .. n \subseteq T
<1> DEFINE Q == T \cup {d \in Nat : d > n}
<1>1. ASSUME NEW m \in Nat, m \in Q PROVE m + 1 \in Q
  <2>1. CASE m + 1 =< n
    <3>1. m + 1 \in 1 .. n /\ (m + 1) - 1 = m /\ m \in T
      BY <1>1, <2>1
    <3>2. (m + 1) - 1 \in T
      BY <3>1
    <3> QED BY <3>1, <3>2
  <2>2. CASE m + 1 > n
    BY <2>2
  <2> QED BY <2>1, <2>2
<1>2. 0 \in Q
  OBVIOUS
<1> HIDE DEF Q
<1>3. Nat \subseteq Q
  BY <1>1, <1>2, Induction
<1> QED BY <1>3 DEF Q

\* A function that is built up step by step, from a, by F, exists.
Steps(V, a, F) == a \in V /\ \A d \in Nat, v \in V : F[d][v] \in V

IsWalk(g, n, V, a, F) == g \in [0 .. n -> V] /\ g[0] = a /\ \A d \in 1 .. n : g[d] = F[d - 1][g[d - 1]]

\* There is a function that starts at a and goes on by F.
LEMMA Iterates ==
  ASSUME NEW V, NEW a, NEW F, Steps(V, a, F), NEW n \in Nat
  PROVE  \E g : IsWalk(g, n, V, a, F)
<1> DEFINE Good(m, g) == g \in [0 .. m -> V] /\ g[0] = a /\ \A d \in 1 .. m : g[d] = F[d - 1][g[d - 1]]
           T == {m \in Nat : \E g : Good(m, g)}
<1>0. a \in V /\ \A d \in Nat, v \in V : F[d][v] \in V
  BY DEF Steps
<1>1. 0 \in T
  <2> DEFINE g == [d \in 0 .. 0 |-> a]
  <2>1. Good(0, g)
    BY <1>0
  <2> QED BY <2>1
<1>2. ASSUME NEW m \in Nat, m \in T PROVE m + 1 \in T
  <2>1. PICK g : Good(m, g)
    BY <1>2
  <2> DEFINE h == [d \in 0 .. m + 1 |-> IF d = m + 1 THEN F[m][g[m]] ELSE g[d]]
  <2>2. g[m] \in V /\ F[m][g[m]] \in V
    BY <1>0, <2>1
  <2>3. h \in [0 .. m + 1 -> V] /\ h[0] = a
    BY <2>1, <2>2
  <2>4. ASSUME NEW d \in 1 .. m + 1 PROVE h[d] = F[d - 1][h[d - 1]]
    <3>1. d - 1 \in 0 .. m /\ h[d - 1] = g[d - 1] /\ (d # m + 1 => d \in 1 .. m)
      OBVIOUS
    <3> QED BY <2>1, <3>1
  <2>5. Good(m + 1, h)
    BY <2>3, <2>4
  <2> HIDE DEF Good, h
  <2> QED BY <2>5
<1> HIDE DEF T
<1>3. n \in T
  BY <1>1, <1>2, Induction
<1> QED BY <1>3 DEF T, IsWalk

\* What is defined by that recursion is such a function.
Follows(h, n, V, a, F) ==
  h = [d \in 0 .. n |-> h[d]] /\ h[0] = a /\ \A d \in 1 .. n : h[d - 1] \in V => h[d] = F[d - 1][h[d - 1]]

\* It stays in V.
LEMMA WalkFollows ==
  ASSUME NEW V, NEW a, NEW F, Steps(V, a, F), NEW n \in Nat, NEW h, Follows(h, n, V, a, F)
  PROVE  IsWalk(h, n, V, a, F)
<1> USE DEF Follows
<1> DEFINE T == {d \in 0 .. n : h[d] \in V}
<1>1. 0 \in T
  BY DEF Steps
<1>2. \A d \in 1 .. n : d - 1 \in T => d \in T
  <2> SUFFICES ASSUME NEW d \in 1 .. n, h[d - 1] \in V PROVE h[d] \in V
    OBVIOUS
  <2>1. F[d - 1][h[d - 1]] \in V
    BY DEF Steps
  <2> QED BY <2>1
<1> HIDE DEF T
<1>3. 0 .. n \subseteq T
  BY <1>1, <1>2, Climb
<1>4. \A d \in 0 .. n : h[d] \in V
  BY <1>3 DEF T
<1>5. h \in [0 .. n -> V]
  BY <1>4
<1>6. \A d \in 1 .. n : d - 1 \in 0 .. n
  OBVIOUS
<1> QED BY <1>4, <1>5, <1>6 DEF IsWalk

\* Going on from anywhere in a circle of at most m elements one comes past all of them in m steps.
Round(at, m, R, f) == at \in [0 .. m -> R] /\ \A d \in 1 .. m : at[d] = f[at[d - 1]]

\* It has been everywhere.
LEMMA CircleWalk ==
  ASSUME NEW R, NEW f, NEW b, Circle(R, f, b), NEW m \in Nat, IsFiniteSet(R), Cardinality(R) =< m,
         NEW at, Round(at, m, R, f)
  PROVE  {at[d] : d \in 0 .. m} = R
<1> USE DEF Round
<1>1. PICK x \in 0 .. m, y \in 0 .. m : x # y /\ at[x] = at[y]
  <2>1. IsFiniteSet(0 .. m) /\ Cardinality(0 .. m) = m + 1
    BY FS_Interval
  <2>2. Cardinality(R) \in Nat
    BY FS_CardinalityType
  <2>3. Cardinality(R) < Cardinality(0 .. m)
    BY <2>1, <2>2
  <2> QED BY <2>1, <2>3, FS_PigeonHole
<1>2. PICK u \in 0 .. m, v \in 0 .. m : u < v /\ at[u] = at[v]
  BY <1>1
<1> DEFINE S == {at[d] : d \in 0 .. v - 1}
<1>3. S \in SUBSET R /\ S # {}
  BY <1>2
<1>4. ASSUME NEW d \in 0 .. v - 1 PROVE f[at[d]] \in S
  <2>1. d + 1 \in 1 .. m /\ f[at[d]] = at[d + 1] /\ (d + 1) - 1 = d
    <3>1. d + 1 \in 1 .. m /\ (d + 1) - 1 = d
      BY <1>2
    <3> QED BY <3>1
  <2>2. CASE d + 1 \in 0 .. v - 1
    BY <2>1, <2>2
  <2>3. CASE d + 1 = v
    BY <1>2, <2>1, <2>3
  <2> QED BY <1>2, <2>2, <2>3
<1>5. S = R
  <2>1. \A z \in S : f[z] \in S
    BY <1>4
  <2> HIDE DEF S
  <2> QED BY <1>3, <2>1 DEF Circle
<1>6. S \subseteq {at[d] : d \in 0 .. m} /\ {at[d] : d \in 0 .. m} \subseteq R
  BY <1>2
<1> QED BY <1>5, <1>6

N == Cardinality(Chunk)

\* There are N chunks, and a search takes as many steps.
LEMMA ChunksFinite == N \in Nat /\ IsFiniteSet(Chunk) /\ Depth = 0 .. N
BY BinsAssumption, FS_CardinalityType DEF N, Depth

\* Every variable has its type.
Typed ==
  /\ size \in [Chunk -> Sizes \cup {0}]
  /\ fd \in [Chunk \cup SmallIndex -> Links \cup SmallIndex]
  /\ bk \in [Chunk \cup SmallIndex -> Links \cup SmallIndex]
  /\ parent \in [Chunk -> Links \cup TreeIndex]
  /\ child \in [Chunk -> [0 .. 1 -> Links]]
  /\ tree_bins \in [TreeIndex -> Links]
  /\ small_map \subseteq SmallIndex /\ tree_map \subseteq TreeIndex

-----------------------------------------------------------------------------
(* The ways through the links *)

\* The way of a search.
LEMMA SearchSteps ==
  ASSUME Typed, NEW s, computeTreeIndex(s) \in TreeIndex
  PROVE  /\ search(s) \in [0 .. N -> Links] /\ search(s)[0] = tree_bins[computeTreeIndex(s)]
         /\ \A d \in 1 .. N : LET c == search(s)[d - 1]
                              IN  search(s)[d] = IF c = null \/ size[c] = s THEN c ELSE child[c][turn(s, d - 1)]
<1> DEFINE a == tree_bins[computeTreeIndex(s)]
           Then(d, c) == IF c = null \/ size[c] = s THEN c ELSE child[c][turn(s, d)]
           F == [d \in Nat |-> [c \in Links |-> Then(d, c)]]
           Way(g) == g = [d \in Depth |-> IF d = 0 THEN a ELSE Then(d - 1, g[d - 1])]
<1>1. search(s) = CHOOSE g : Way(g)
  BY DEF search
<1>2. a \in Links /\ \A d \in Nat, c \in Links : Then(d, c) \in Links
  <2>1. \A c \in Chunk, j \in 0 .. 1 : child[c][j] \in Links
    BY DEF Typed
  <2>2. a \in Links
    BY DEF Typed
  <2> QED BY <2>1, <2>2, Indexes DEF Links
<1> HIDE DEF Then, a
<1>3. Steps(Links, a, F)
  BY <1>2 DEF Steps
<1>4. N \in Nat /\ \A d \in 1 .. N : d - 1 \in Nat /\ d - 1 \in 0 .. N
  BY ChunksFinite
<1>5. PICK g : IsWalk(g, N, Links, a, F)
  <2> HIDE DEF F
  <2> QED BY <1>3, <1>4, Iterates
<1>6. \A d \in 1 .. N : g[d] = Then(d - 1, g[d - 1])
  BY <1>4, <1>5 DEF IsWalk
<1>7. Way(g)
  <2>1. \A d \in Depth : d # 0 => d \in 1 .. N
    BY ChunksFinite
  <2>2. g = [d \in Depth |-> g[d]]
    BY <1>5, ChunksFinite DEF IsWalk
  <2> QED BY <1>5, <1>6, <2>1, <2>2 DEF IsWalk
<1>8. Way(search(s))
  <2> HIDE DEF Way
  <2> QED BY <1>1, <1>7
<1> DEFINE h == search(s)
<1>9. DOMAIN h = 0 .. N /\ h = [d \in 0 .. N |-> h[d]] /\ h[0] = a /\ \A d \in 1 .. N : h[d] = Then(d - 1, h[d - 1])
  <2>1. h = [d \in 0 .. N |-> IF d = 0 THEN a ELSE Then(d - 1, h[d - 1])]
    BY <1>8, ChunksFinite
  <2> HIDE DEF h
  <2> QED BY <2>1, <1>4
<1> HIDE DEF h
<1>10. IsWalk(h, N, Links, a, F)
  <2>1. Follows(h, N, Links, a, F)
    BY <1>4, <1>9 DEF Follows
  <2> HIDE DEF F
  <2> QED BY <1>3, <1>4, <2>1, WalkFollows
<1>11. h \in [0 .. N -> Links]
  BY <1>10 DEF IsWalk
<1> QED BY <1>9, <1>11 DEF h, a, Then

\* The way down to the right.
LEMMA DescentSteps ==
  ASSUME Typed, NEW c \in Chunk
  PROVE  /\ descent(c) \in [0 .. N -> Chunk] /\ descent(c)[0] = c
         /\ \A d \in 1 .. N : LET x == descent(c)[d - 1]
                              IN  descent(c)[d] = IF children(x) = {} THEN x
                                                  ELSE IF child[x][1] # null THEN child[x][1] ELSE child[x][0]
<1> DEFINE Then(x) == IF children(x) = {} THEN x ELSE IF child[x][1] # null THEN child[x][1] ELSE child[x][0]
           F == [d \in Nat |-> [x \in Chunk |-> Then(x)]]
           Way(g) == g = [d \in Depth |-> IF d = 0 THEN c ELSE Then(g[d - 1])]
<1>1. descent(c) = CHOOSE g : Way(g)
  BY DEF descent
<1>2. \A x \in Chunk : Then(x) \in Chunk
  <2> SUFFICES ASSUME NEW x \in Chunk PROVE Then(x) \in Chunk
    OBVIOUS
  <2>1. child[x][0] \in Links /\ child[x][1] \in Links
    BY DEF Typed
  <2> QED BY <2>1 DEF children, Links
<1> HIDE DEF Then
<1>3. Steps(Chunk, c, F)
  BY <1>2 DEF Steps
<1>4. N \in Nat /\ \A d \in 1 .. N : d - 1 \in Nat /\ d - 1 \in 0 .. N
  BY ChunksFinite
<1>5. PICK g : IsWalk(g, N, Chunk, c, F)
  <2> HIDE DEF F
  <2> QED BY <1>3, <1>4, Iterates
<1>6. \A d \in 1 .. N : g[d] = Then(g[d - 1])
  BY <1>4, <1>5 DEF IsWalk
<1>7. Way(g)
  <2>1. \A d \in Depth : d # 0 => d \in 1 .. N
    BY ChunksFinite
  <2>2. g = [d \in Depth |-> g[d]]
    BY <1>5, ChunksFinite DEF IsWalk
  <2> QED BY <1>5, <1>6, <2>1, <2>2 DEF IsWalk
<1>8. Way(descent(c))
  <2> HIDE DEF Way
  <2> QED BY <1>1, <1>7
<1> DEFINE h == descent(c)
<1>9. h = [d \in 0 .. N |-> h[d]] /\ h[0] = c /\ \A d \in 1 .. N : h[d] = Then(h[d - 1])
  <2>1. h = [d \in 0 .. N |-> IF d = 0 THEN c ELSE Then(h[d - 1])]
    BY <1>8, ChunksFinite
  <2> HIDE DEF h
  <2> QED BY <2>1, <1>4
<1> HIDE DEF h
<1>10. IsWalk(h, N, Chunk, c, F)
  <2>1. Follows(h, N, Chunk, c, F)
    BY <1>4, <1>9 DEF Follows
  <2> HIDE DEF F
  <2> QED BY <1>3, <1>4, <2>1, WalkFollows
<1>11. h \in [0 .. N -> Chunk]
  BY <1>10 DEF IsWalk
<1> QED BY <1>9, <1>11 DEF h, Then, Links

\* Following fd once around a circle.
LEMMA RingIs ==
  ASSUME NEW R, Circle(R, fd, bk), NEW n \in R, IsFiniteSet(R), Cardinality(R) =< N + 1
  PROVE  ring(n) = R
<1> DEFINE m == N + 1
           F == [d \in Nat |-> [x \in R |-> fd[x]]]
           Way(g) == g = [d \in 0 .. m |-> IF d = 0 THEN n ELSE fd[g[d - 1]]]
           h == CHOOSE g : Way(g)
<1>1. ring(n) = {h[d] : d \in DOMAIN h}
  BY DEF ring, N
<1>2. Steps(R, n, F)
  BY DEF Steps, Circle
<1>3. m \in Nat /\ \A d \in 1 .. m : d - 1 \in Nat /\ d - 1 \in 0 .. m
  BY ChunksFinite
<1> HIDE DEF m
<1>4. PICK g : IsWalk(g, m, R, n, F)
  <2> HIDE DEF F
  <2> QED BY <1>2, <1>3, Iterates
<1>5. \A d \in 1 .. m : g[d] = fd[g[d - 1]]
  BY <1>3, <1>4 DEF IsWalk
<1>6. Way(g)
  <2>1. \A d \in 0 .. m : d # 0 => d \in 1 .. m
    BY <1>3
  <2>2. g = [d \in 0 .. m |-> g[d]]
    BY <1>4 DEF IsWalk
  <2> QED BY <1>4, <1>5, <2>1, <2>2 DEF IsWalk
<1>7. Way(h)
  <2> HIDE DEF Way
  <2> QED BY <1>6
<1> HIDE DEF h
<1>8. h = [d \in 0 .. m |-> h[d]] /\ h[0] = n /\ \A d \in 1 .. m : h[d] = fd[h[d - 1]]
  BY <1>3, <1>7
<1>9. IsWalk(h, m, R, n, F)
  <2>1. Follows(h, m, R, n, F)
    BY <1>3, <1>8 DEF Follows
  <2> HIDE DEF F
  <2> QED BY <1>2, <1>3, <2>1, WalkFollows
<1>10. h \in [0 .. m -> R] /\ DOMAIN h = 0 .. m
  BY <1>9 DEF IsWalk
<1>11. Cardinality(R) =< m
  BY DEF m
<1>12. {h[d] : d \in 0 .. m} = R
  <2>1. Round(h, m, R, fd)
    BY <1>8, <1>10 DEF Round
  <2> QED BY <1>3, <1>11, <2>1, CircleWalk
<1> QED BY <1>1, <1>10, <1>12 DEF h

\* The nodes of a trie, level by level.
LEMMA NodesSteps ==
  ASSUME Typed, NEW i \in TreeIndex
  PROVE  \E g : /\ g \in [0 .. N -> SUBSET Chunk] /\ nodes(i) = g[N] /\ g[0] = {tree_bins[i]} \ {null}
                /\ \A d \in 1 .. N : g[d] = g[d - 1] \cup UNION {children(c) : c \in g[d - 1]}
<1> DEFINE a == {tree_bins[i]} \ {null}
           Then(S) == S \cup UNION {children(c) : c \in S}
           F == [d \in Nat |-> [S \in SUBSET Chunk |-> Then(S)]]
           Way(g) == g = [d \in Depth |-> IF d = 0 THEN a ELSE Then(g[d - 1])]
           h == CHOOSE g : Way(g)
<1>1. nodes(i) = h[N]
  BY DEF nodes, N
<1>2. a \in SUBSET Chunk /\ \A S \in SUBSET Chunk : Then(S) \in SUBSET Chunk
  <2>1. \A x \in Chunk : child[x][0] \in Links /\ child[x][1] \in Links
    BY DEF Typed
  <2>2. \A x \in Chunk : children(x) \in SUBSET Chunk
    BY <2>1 DEF children, Links
  <2>3. tree_bins[i] \in Links
    BY DEF Typed
  <2> QED BY <2>2, <2>3 DEF Links
<1> HIDE DEF Then, a
<1>3. Steps(SUBSET Chunk, a, F)
  BY <1>2 DEF Steps
<1>4. N \in Nat /\ \A d \in 1 .. N : d - 1 \in Nat /\ d - 1 \in 0 .. N
  BY ChunksFinite
<1>5. PICK g : IsWalk(g, N, SUBSET Chunk, a, F)
  <2> HIDE DEF F
  <2> QED BY <1>3, <1>4, Iterates
<1>6. \A d \in 1 .. N : g[d] = Then(g[d - 1])
  <2>1. \A d \in 1 .. N : g[d - 1] \in SUBSET Chunk
    BY <1>4, <1>5 DEF IsWalk
  <2> QED BY <1>4, <1>5, <2>1 DEF IsWalk
<1>7. Way(g)
  <2>1. \A d \in Depth : d # 0 => d \in 1 .. N
    BY ChunksFinite
  <2>2. g = [d \in Depth |-> g[d]]
    BY <1>5, ChunksFinite DEF IsWalk
  <2> QED BY <1>5, <1>6, <2>1, <2>2 DEF IsWalk
<1>8. Way(h)
  <2> HIDE DEF Way
  <2> QED BY <1>7
<1> HIDE DEF h
<1>9. h = [d \in 0 .. N |-> h[d]] /\ h[0] = a /\ \A d \in 1 .. N : h[d] = Then(h[d - 1])
  BY <1>4, <1>8, ChunksFinite
<1>10. IsWalk(h, N, SUBSET Chunk, a, F)
  <2>1. Follows(h, N, SUBSET Chunk, a, F)
    BY <1>4, <1>9 DEF Follows
  <2> HIDE DEF F
  <2> QED BY <1>3, <1>4, <2>1, WalkFollows
<1>11. h \in [0 .. N -> SUBSET Chunk]
  BY <1>10 DEF IsWalk
<1> QED BY <1>1, <1>9, <1>11 DEF a, Then

\* treeAllocSmall finds a chunk, and on the way to the left from a root.
LEMMA BestFitWay ==
  ASSUME Typed, tree_map # {}, \A i \in tree_map : tree_bins[i] # null, NEW nb \in Needs
  PROVE  \E g, i, e : /\ i \in tree_map /\ g \in [0 .. N -> Links] /\ g[0] = tree_bins[i]
                      /\ \A d \in 1 .. N : g[d] = IF g[d - 1] = null THEN null ELSE leftmostChild(g[d - 1])
                      /\ e \in 0 .. N /\ g[e] # null /\ bestFit(nb) = g[e]
<1> DEFINE i == CHOOSE i \in tree_map : \A j \in tree_map : i =< j
           a == tree_bins[i]
           Then(x) == IF x = null THEN null ELSE leftmostChild(x)
           F == [d \in Nat |-> [x \in Links |-> Then(x)]]
           Way(g) == g = [d \in Depth |-> IF d = 0 THEN a ELSE Then(g[d - 1])]
           h == CHOOSE g : Way(g)
           onWay == {d \in Depth : h[d] # null}
           rest(d) == unsignedRest(h[d], nb)
           Best(d) == /\ \A e \in onWay : rest(d) =< rest(e)
                      /\ \A e \in onWay : e < d => rest(d) < rest(e)
<1>1. bestFit(nb) = h[CHOOSE d \in onWay : Best(d)]
  BY DEF bestFit
<1>2. i \in tree_map
  <2>1. tree_map \in SUBSET Nat
    BY Indexes DEF Typed
  <2>2. \E k \in tree_map : \A j \in tree_map : k =< j
    BY <2>1, Least
  <2> QED BY <2>2
<1> HIDE DEF i
<1>3. a \in Links /\ \A x \in Links : Then(x) \in Links
  <2>1. \A x \in Chunk : child[x][0] \in Links /\ child[x][1] \in Links
    BY DEF Typed
  <2>2. \A x \in Chunk : leftmostChild(x) \in Links
    BY <2>1 DEF leftmostChild
  <2>3. a \in Links
    BY <1>2 DEF Typed
  <2> QED BY <2>2, <2>3 DEF Links
<1> HIDE DEF Then
<1>4. Steps(Links, a, F)
  BY <1>3 DEF Steps
<1>5. N \in Nat /\ \A d \in 1 .. N : d - 1 \in Nat /\ d - 1 \in 0 .. N
  BY ChunksFinite
<1>6. PICK g : IsWalk(g, N, Links, a, F)
  <2> HIDE DEF F, a
  <2> QED BY <1>4, <1>5, Iterates
<1>7. \A d \in 1 .. N : g[d] = Then(g[d - 1])
  BY <1>5, <1>6 DEF IsWalk
<1>8. Way(g)
  <2>1. \A d \in Depth : d # 0 => d \in 1 .. N
    BY ChunksFinite
  <2>2. g = [d \in Depth |-> g[d]]
    BY <1>6, ChunksFinite DEF IsWalk
  <2> QED BY <1>6, <1>7, <2>1, <2>2 DEF IsWalk
<1>9. Way(h)
  <2> HIDE DEF Way
  <2> QED BY <1>8
<1> HIDE DEF h
<1>10. h = [d \in 0 .. N |-> h[d]] /\ h[0] = a /\ \A d \in 1 .. N : h[d] = Then(h[d - 1])
  BY <1>5, <1>9, ChunksFinite
<1>11. IsWalk(h, N, Links, a, F)
  <2>1. Follows(h, N, Links, a, F)
    BY <1>5, <1>10 DEF Follows
  <2> HIDE DEF F, a
  <2> QED BY <1>4, <1>5, <2>1, WalkFollows
<1>12. h \in [0 .. N -> Links]
  BY <1>11 DEF IsWalk
<1>13. \E d \in onWay : Best(d)
  <2>1. onWay \in SUBSET Nat /\ onWay # {}
    <3>1. 0 \in onWay
      BY <1>2, <1>5, <1>10, ChunksFinite
    <3> QED BY <3>1, ChunksFinite
  <2>2. \A d \in onWay : rest(d) \in Nat
    <3> SUFFICES ASSUME NEW d \in onWay PROVE rest(d) \in Nat
      OBVIOUS
    <3>1. h[d] \in Chunk
      BY <1>12, ChunksFinite DEF Links
    <3>2. size[h[d]] \in Nat /\ nb \in Nat
      <4>1. \A c \in Chunk : size[c] \in Nat
        <5>1. \A z \in Sizes : z \in Nat
          BY BinsAssumption
        <5> QED BY <5>1 DEF Typed
      <4>2. nb \in Nat
        BY BinsAssumption
      <4> QED BY <3>1, <4>1, <4>2
    <3>3. 2^30 \in Nat
      OBVIOUS
    <3> QED BY <3>2, <3>3 DEF unsignedRest
  <2> HIDE DEF rest
  <2> DEFINE rests == {rest(d) : d \in onWay}
  <2>3. PICK r \in rests : \A q \in rests : r =< q
    <3>1. rests \in SUBSET Nat /\ rests # {}
      BY <2>1, <2>2
    <3> HIDE DEF rests
    <3> QED BY <3>1, Least
  <2> DEFINE firsts == {d \in onWay : rest(d) = r}
  <2>4. PICK d \in firsts : \A e \in firsts : d =< e
    <3>1. firsts \in SUBSET Nat /\ firsts # {}
      BY <2>1, <2>3
    <3> HIDE DEF firsts
    <3> QED BY <3>1, Least
  <2>5. \A e \in onWay : rest(d) =< rest(e)
    BY <2>3, <2>4
  <2>6. ASSUME NEW e \in onWay, e < d PROVE rest(d) < rest(e)
    <3>1. e \notin firsts
      BY <2>1, <2>4, <2>6
    <3>2. rest(e) # r /\ r =< rest(e) /\ rest(d) = r
      BY <2>3, <2>4, <3>1
    <3> QED BY <2>2, <3>2
  <2> QED BY <2>4, <2>5, <2>6
<1> DEFINE best == CHOOSE d \in onWay : Best(d)
<1>14. best \in onWay
  <2> HIDE DEF onWay, Best
  <2> QED BY <1>13
<1>15. best \in 0 .. N /\ h[best] # null /\ bestFit(nb) = h[best]
  BY <1>1, <1>14, ChunksFinite DEF h
<1> HIDE DEF best
<1> QED BY <1>2, <1>10, <1>12, <1>15 DEF Then

-----------------------------------------------------------------------------
(* The invariant *)

Members    == binned \cup SmallIndex
keyOf(s)   == IF isSmall(s) THEN getSmallBinIndex(s) ELSE s
key(n)     == IF n \in SmallIndex THEN n ELSE keyOf(size[n])

\* A small bin with its header, or the chunks of one large size.
Ring(k)    == {n \in Members : key(n) = k}

Ringed == \A n \in Members : Circle(Ring(key(n)), fd, bk)

Mapped ==
  /\ \A i \in SmallIndex : i \in small_map <=> Ring(i) # {i}
  /\ \A i \in TreeIndex : i \in tree_map <=> tree_bins[i] # null

-----------------------------------------------------------------------------
(* Lists *)

\* Members of the lists and their keys.
LEMMA Keys ==
  ASSUME Typed
  PROVE  /\ Members \subseteq Chunk \cup SmallIndex /\ SmallIndex \subseteq Members
         /\ \A i \in SmallIndex : key(i) = i /\ i \in Ring(i)
         /\ \A c \in binned : c \in Chunk /\ size[c] \in Sizes /\ c \notin SmallIndex /\ key(c) = keyOf(size[c])
         /\ \A n \in Members : n \in Ring(key(n))
<1>1. \A c \in Chunk : c \notin SmallIndex
  BY Indexes
<1>2. \A c \in binned : c \in Chunk /\ size[c] \in Sizes
  <2> SUFFICES ASSUME NEW c \in binned PROVE size[c] \in Sizes
    BY DEF binned
  <2>1. c \in Chunk /\ size[c] \in Sizes \cup {0} /\ size[c] > 0
    BY DEF binned, Typed
  <2> QED BY <2>1
<1> QED BY <1>1, <1>2 DEF Members, key, Ring, binned

\* The key of a large size is its own.
LEMMA LargeKeys ==
  /\ \A s \in Sizes : isSmall(s) => keyOf(s) = getSmallBinIndex(s) /\ keyOf(s) \in SmallIndex
  /\ \A s \in Sizes : ~isSmall(s) => keyOf(s) = s /\ keyOf(s) \notin SmallIndex
<1>1. \A s \in Sizes : ~isSmall(s) => s \notin SmallIndex
  BY LargeSizes, SmallIndexRange DEF kNumSmallBins
<1> QED BY <1>1, Indexes DEF keyOf

\* What the rings are in the words of the properties.
LEMMA RingSets ==
  ASSUME Typed
  PROVE  /\ \A i \in SmallIndex : Ring(i) = {i} \cup {c \in binned : isSmall(size[c]) /\ getSmallBinIndex(size[c]) = i}
         /\ \A c \in treeBinned : key(c) = size[c] /\ Ring(size[c]) = {x \in binned : size[x] = size[c]}
<1>1. ASSUME NEW i \in SmallIndex
      PROVE  Ring(i) = {i} \cup {c \in binned : isSmall(size[c]) /\ getSmallBinIndex(size[c]) = i}
  <2>1. \A n \in SmallIndex : key(n) = i <=> n = i
    BY Keys
  <2>2. \A c \in binned : key(c) = i <=> isSmall(size[c]) /\ getSmallBinIndex(size[c]) = i
    BY Keys, LargeKeys
  <2> QED BY <2>1, <2>2 DEF Ring, Members
<1>2. ASSUME NEW c \in treeBinned
      PROVE  key(c) = size[c] /\ Ring(size[c]) = {x \in binned : size[x] = size[c]}
  <2>1. c \in binned /\ ~isSmall(size[c]) /\ size[c] \in Sizes
    BY Keys DEF treeBinned
  <2>2. \A n \in SmallIndex : key(n) # size[c]
    BY <2>1, Keys, LargeKeys
  <2>3. \A x \in binned : key(x) = size[c] <=> size[x] = size[c]
    BY <2>1, Keys, LargeKeys
  <2> QED BY <2>1, <2>2, <2>3 DEF Ring, Members
<1> QED BY <1>1, <1>2

\* Rings are finite: the header and the chunks at most.
LEMMA RingSize ==
  ASSUME Typed, NEW n \in Members
  PROVE  IsFiniteSet(Ring(key(n))) /\ Cardinality(Ring(key(n))) =< N + 1
<1>1. PICK k : k = key(n)
  OBVIOUS
<1>2. IsFiniteSet(Chunk \cup {k}) /\ Cardinality(Chunk \cup {k}) =< N + 1
  BY ChunksFinite, FS_AddElement DEF N
<1>3. Ring(k) \in SUBSET (Chunk \cup {k})
  BY Keys DEF Ring, Members, binned
<1>4. /\ IsFiniteSet(Ring(k)) /\ Cardinality(Ring(k)) =< Cardinality(Chunk \cup {k})
      /\ Cardinality(Ring(k)) \in Nat /\ Cardinality(Chunk \cup {k}) \in Nat
  BY <1>2, <1>3, FS_Subset, FS_CardinalityType
<1> QED BY <1>1, <1>2, <1>4, ChunksFinite

\* The chunks that follow fd from n are those with its key.
LEMMA RingOf ==
  ASSUME Typed, Ringed, NEW n \in Members
  PROVE  ring(n) = Ring(key(n))
<1>1. n \in Ring(key(n)) /\ Circle(Ring(key(n)), fd, bk)
  BY Keys DEF Ringed
<1>2. PICK R : R = Ring(key(n))
  OBVIOUS
<1>3. IsFiniteSet(R) /\ Cardinality(R) =< N + 1 /\ n \in R /\ Circle(R, fd, bk)
  BY <1>1, <1>2, RingSize
<1> QED BY <1>2, <1>3, RingIs

\* Links stay in the ring.
LEMMA RingLinks ==
  ASSUME Typed, Ringed, NEW n \in Members
  PROVE  fd[n] \in Ring(key(n)) /\ bk[n] \in Ring(key(n)) /\ bk[fd[n]] = n /\ fd[bk[n]] = n
         /\ fd[n] \in Members /\ bk[n] \in Members /\ key(fd[n]) = key(n) /\ key(bk[n]) = key(n)
<1>1. fd[n] \in Ring(key(n)) /\ bk[n] \in Ring(key(n)) /\ bk[fd[n]] = n /\ fd[bk[n]] = n
  BY Keys DEF Ringed, Circle
<1> QED BY <1>1 DEF Ring

\* A chunk of size s comes in.
LEMMA Arrival ==
  ASSUME Typed, NEW c \in Chunk, size[c] = 0, NEW s \in Sizes, size' = [size EXCEPT ![c] = s]
  PROVE  /\ Members' = Members \cup {c} /\ c \notin Members
         /\ \A n \in Members : key(n)' = key(n)
         /\ key(c)' = keyOf(s)
         /\ \A k : Ring(k)' = IF k = keyOf(s) THEN Ring(k) \cup {c} ELSE Ring(k)
<1>1. s > 0 /\ size'[c] = s /\ \A x \in Chunk \ {c} : size'[x] = size[x]
  BY BinsAssumption DEF Typed
<1>2. Members' = Members \cup {c} /\ c \notin Members /\ c \notin SmallIndex
  BY <1>1, Indexes DEF Members, binned
<1>3. \A n \in Members : key(n)' = key(n)
  BY <1>1, <1>2, Keys DEF key, keyOf
<1>4. key(c)' = keyOf(s)
  BY <1>1, <1>2 DEF key, keyOf
<1> QED BY <1>2, <1>3, <1>4 DEF Ring

\* A chunk goes out.
LEMMA Departure ==
  ASSUME Typed, NEW c \in binned, size' = [size EXCEPT ![c] = 0]
  PROVE  /\ Members' = Members \ {c} /\ binned' = binned \ {c}
         /\ \A n \in Members \ {c} : key(n)' = key(n)
         /\ \A k : Ring(k)' = Ring(k) \ {c}
<1>1. c \in Chunk /\ size'[c] = 0 /\ \A x \in Chunk \ {c} : size'[x] = size[x]
  BY Keys DEF Typed
<1>2. Members' = Members \ {c} /\ binned' = binned \ {c}
  BY <1>1, Keys DEF Members, binned
<1>3. \A n \in Members \ {c} : key(n)' = key(n)
  BY <1>1, Keys DEF key, keyOf
<1> QED BY <1>2, <1>3 DEF Ring

\* The chunk is linked in behind n, of its ring.
LEMMA JoinKeeps ==
  ASSUME Typed, Ringed, NEW c \in Chunk, size[c] = 0, NEW s \in Sizes, size' = [size EXCEPT ![c] = s],
         NEW n \in Members, key(n) = keyOf(s),
         fd' = [fd EXCEPT ![n] = c, ![c] = fd[n]], bk' = [bk EXCEPT ![fd[n]] = c, ![c] = n]
  PROVE  Ringed'
<1>1. /\ Members' = Members \cup {c} /\ c \notin Members
      /\ \A m \in Members : key(m)' = key(m)
      /\ key(c)' = keyOf(s)
      /\ \A k : Ring(k)' = IF k = keyOf(s) THEN Ring(k) \cup {c} ELSE Ring(k)
  BY Arrival
<1> DEFINE R == Ring(keyOf(s))
           p == fd[n]
<1>2. Circle(R, fd, bk) /\ n \in R /\ p \in R /\ c \notin R
  BY <1>1, Keys, RingLinks DEF Ringed, Ring
<1>3. /\ \A x \in Members : x # n => fd'[x] = fd[x]
      /\ \A x \in Members : x # p => bk'[x] = bk[x]
      /\ fd'[n] = c /\ fd'[c] = p /\ bk'[p] = c /\ bk'[c] = n
  <2>1. /\ n \in Chunk \cup SmallIndex /\ p \in Chunk \cup SmallIndex /\ n # c /\ p # c
        /\ Members \subseteq Chunk \cup SmallIndex
    BY <1>1, <1>2, Keys DEF Ring
  <2> QED BY <1>1, <2>1 DEF Typed
<1>4. Circle(R \cup {c}, fd', bk')
  <2>1. R \subseteq Members
    BY DEF Ring
  <2> HIDE DEF R, p
  <2>2. LinkedIn(R, n, c, fd, bk, fd', bk')
    BY <1>2, <1>3, <2>1 DEF p, LinkedIn
  <2> QED BY <1>2, <2>2, CircleJoin
<1> SUFFICES ASSUME NEW m \in Members' PROVE Circle(Ring(key(m))', fd', bk')
  BY DEF Ringed
<1>5. CASE key(m)' = keyOf(s)
  <2>1. Ring(key(m))' = R \cup {c}
    BY <1>1, <1>5
  <2> QED BY <1>4, <2>1
<1>6. CASE key(m)' # keyOf(s)
  <2>1. m \in Members /\ key(m)' = key(m) /\ Ring(key(m))' = Ring(key(m))
    BY <1>1, <1>6
  <2>2. Circle(Ring(key(m)), fd, bk)
    BY <2>1 DEF Ringed
  <2>3. \A x \in Ring(key(m)) : x \in Members /\ x # n /\ x # p
    BY <1>2, <1>6, <2>1 DEF Ring
  <2>4. Untouched(Ring(key(m)), fd, bk, fd', bk')
    BY <1>3, <2>3 DEF Untouched
  <2>5. Circle(Ring(key(m)), fd', bk')
    BY <2>2, <2>4, CircleSame
  <2> QED BY <2>1, <2>5
<1> QED BY <1>5, <1>6

\* The chunk is the first of its size.
LEMMA AloneKeeps ==
  ASSUME Typed, Ringed, NEW c \in Chunk, size[c] = 0, NEW s \in Sizes, size' = [size EXCEPT ![c] = s],
         \A n \in Members : key(n) # keyOf(s), fd' = [fd EXCEPT ![c] = c], bk' = [bk EXCEPT ![c] = c]
  PROVE  Ringed'
<1>1. /\ Members' = Members \cup {c} /\ c \notin Members
      /\ \A m \in Members : key(m)' = key(m)
      /\ key(c)' = keyOf(s)
      /\ \A k : Ring(k)' = IF k = keyOf(s) THEN Ring(k) \cup {c} ELSE Ring(k)
  BY Arrival
<1>2. /\ fd'[c] = c /\ bk'[c] = c
      /\ \A x \in Members : fd'[x] = fd[x] /\ bk'[x] = bk[x]
  BY <1>1, Keys DEF Typed
<1> SUFFICES ASSUME NEW m \in Members' PROVE Circle(Ring(key(m))', fd', bk')
  BY DEF Ringed
<1>3. CASE m = c
  <2>1. Ring(key(m))' = Ring(keyOf(s)) \cup {c} /\ Ring(keyOf(s)) = {}
    BY <1>1, <1>3 DEF Ring
  <2>2. PICK r : r = Ring(key(m))'
    OBVIOUS
  <2>3. r = {c} /\ Circle({c}, fd', bk')
    BY <1>2, <2>1, <2>2, CircleOne
  <2> QED BY <2>2, <2>3, Zenon
<1>4. CASE m # c
  <2>1. m \in Members /\ key(m)' = key(m) /\ Ring(key(m))' = Ring(key(m))
    BY <1>1, <1>4
  <2>2. Circle(Ring(key(m)), fd, bk)
    BY <2>1 DEF Ringed
  <2>3. Untouched(Ring(key(m)), fd, bk, fd', bk')
    BY <1>2 DEF Ring, Untouched
  <2>4. Circle(Ring(key(m)), fd', bk')
    BY <2>2, <2>3, CircleSame
  <2> QED BY <2>1, <2>4
<1> QED BY <1>3, <1>4

\* A chunk is linked out.
LEMMA LeaveKeeps ==
  ASSUME Typed, Ringed, NEW c \in binned, size' = [size EXCEPT ![c] = 0],
         fd' = [fd EXCEPT ![bk[c]] = fd[c], ![c] = null], bk' = [bk EXCEPT ![fd[c]] = bk[c], ![c] = null]
  PROVE  Ringed'
<1>1. /\ Members' = Members \ {c} /\ c \in Members
      /\ \A m \in Members \ {c} : key(m)' = key(m)
      /\ \A k : Ring(k)' = Ring(k) \ {c}
  BY Departure DEF Members
<1> DEFINE R == Ring(key(c))
           p == fd[c]
           q == bk[c]
<1>2. Circle(R, fd, bk) /\ c \in R /\ p \in R /\ q \in R /\ p \in Members /\ q \in Members
  BY <1>1, Keys, RingLinks DEF Ringed
<1>3. /\ \A x \in Members \ {c} : fd'[x] = IF x = q THEN p ELSE fd[x]
      /\ \A x \in Members \ {c} : bk'[x] = IF x = p THEN q ELSE bk[x]
  BY <1>2, Keys DEF Typed
<1> SUFFICES ASSUME NEW m \in Members' PROVE Circle(Ring(key(m))', fd', bk')
  BY DEF Ringed
<1>4. m \in Members \ {c} /\ key(m)' = key(m) /\ Ring(key(m))' = Ring(key(m)) \ {c}
  BY <1>1
<1>5. CASE key(m) = key(c)
  <2>1. m \in R /\ R # {c}
    BY <1>4, <1>5 DEF Ring
  <2>2. p # c /\ q # c
    <3>1. ASSUME p = c PROVE FALSE
      <4>1. {c} \in SUBSET R /\ {c} # {} /\ \A x \in {c} : fd[x] \in {c}
        BY <1>2, <3>1
      <4> QED BY <1>2, <2>1, <4>1 DEF Circle
    <3>2. q = c => p = c
      BY <1>2 DEF Circle
    <3> QED BY <3>1, <3>2
  <2>3. R \subseteq Members
    BY DEF Ring
  <2> HIDE DEF R, p, q
  <2>4. LinkedOut(R, c, fd, bk, fd', bk')
    BY <1>2, <1>3, <2>1, <2>2, <2>3 DEF p, q, LinkedOut
  <2>5. Circle(R \ {c}, fd', bk')
    BY <1>2, <2>1, <2>4, CircleLeave
  <2> QED BY <1>4, <1>5, <2>5 DEF R
<1>6. CASE key(m) # key(c)
  <2>1. Ring(key(m)) \ {c} = Ring(key(m)) /\ Circle(Ring(key(m)), fd, bk)
    BY <1>4, <1>6 DEF Ring, Ringed
  <2>2. \A x \in Ring(key(m)) : x \in Members \ {c} /\ x # p /\ x # q
    BY <1>2, <1>6 DEF Ring
  <2>3. Untouched(Ring(key(m)), fd, bk, fd', bk')
    BY <1>3, <2>2 DEF Untouched
  <2>4. Circle(Ring(key(m)), fd', bk')
    BY <2>1, <2>3, CircleSame
  <2>5. Ring(key(m))' = Ring(key(m))
    BY <1>4, <2>1
  <2> QED BY <2>4, <2>5
<1> QED BY <1>5, <1>6

-----------------------------------------------------------------------------
(* The shape of the tries *)

OfBin(i)        == {s \in Sizes : ~isSmall(s) /\ computeTreeIndex(s) = i}
Turned(S, d, j) == {s \in S : turn(s, d) = j}

\* M are the nodes, sz, par and kid their sizes and links, roots those of the bins. dep is
\* the depth of a node and reg the sizes whose search comes to it unless it ends above.
NodeShape(M, sz, dep, reg) ==
  /\ M \subseteq Chunk
  /\ \A x \in M : dep[x] \in Nat /\ sz[x] \in reg[x] /\ reg[x] \subseteq OfBin(computeTreeIndex(sz[x]))

ParentShape(M, par, kid, roots) ==
  \A x \in M : /\ par[x] \in TreeIndex \cup M
               /\ par[x] \in TreeIndex => roots[par[x]] = x
               /\ par[x] \in M => \E j \in 0 .. 1 : kid[par[x]][j] = x

RootShape(M, par, roots, dep, reg) ==
  \A i \in TreeIndex : /\ roots[i] \in M \cup {null}
                       /\ roots[i] \in M => par[roots[i]] = i /\ dep[roots[i]] = 0 /\ reg[roots[i]] = OfBin(i)

KidShape(M, par, kid, dep, reg) ==
  /\ \A x \in M, j \in 0 .. 1 :
       /\ kid[x][j] \in M \cup {null}
       /\ kid[x][j] \in M => /\ par[kid[x][j]] = x /\ dep[kid[x][j]] = dep[x] + 1
                             /\ reg[kid[x][j]] = Turned(reg[x], dep[x], j)
  /\ \A x \in Chunk \ M, j \in 0 .. 1 : kid[x][j] = null

Shape(M, sz, par, kid, roots, dep, reg) ==
  /\ NodeShape(M, sz, dep, reg) /\ ParentShape(M, par, kid, roots)
  /\ RootShape(M, par, roots, dep, reg) /\ KidShape(M, par, kid, dep, reg)

\* A leaf goes.
Dropped(M, c, sz, par, kid, roots, sz2, par2, kid2, roots2) ==
  /\ c \in M /\ \A j \in 0 .. 1 : kid[c][j] = null
  /\ \A x \in M \ {c} : sz2[x] = sz[x] /\ par2[x] = par[x]
  /\ \A x \in Chunk, j \in 0 .. 1 : kid2[x][j] = IF kid[x][j] = c THEN null ELSE kid[x][j]
  /\ \A i \in TreeIndex : roots2[i] = IF roots[i] = c THEN null ELSE roots[i]

\* What is left has the shape of tries.
LEMMA DropKeeps ==
  ASSUME NEW M, NEW c, NEW sz, NEW par, NEW kid, NEW roots,
         NEW sz2, NEW par2, NEW kid2, NEW roots2, NEW dep, NEW reg,
         Shape(M, sz, par, kid, roots, dep, reg), Dropped(M, c, sz, par, kid, roots, sz2, par2, kid2, roots2)
  PROVE  Shape(M \ {c}, sz2, par2, kid2, roots2, dep, reg)
<1> USE DEF Dropped
<1>0. /\ NodeShape(M, sz, dep, reg) /\ ParentShape(M, par, kid, roots)
      /\ RootShape(M, par, roots, dep, reg) /\ KidShape(M, par, kid, dep, reg)
  BY DEF Shape
<1>1. NodeShape(M \ {c}, sz2, dep, reg)
  BY <1>0 DEF NodeShape
<1>2. ParentShape(M \ {c}, par2, kid2, roots2)
  <2> SUFFICES ASSUME NEW x \in M \ {c}
               PROVE  /\ par2[x] \in TreeIndex \cup (M \ {c})
                      /\ par2[x] \in TreeIndex => roots2[par2[x]] = x
                      /\ par2[x] \in M \ {c} => \E j \in 0 .. 1 : kid2[par2[x]][j] = x
    BY DEF ParentShape
  <2>1. par2[x] = par[x] /\ par[x] \in TreeIndex \cup M /\ x # c /\ M \subseteq Chunk /\ x # null /\ c # null
    BY <1>0, BinsAssumption DEF ParentShape, NodeShape
  <2>2. par[x] # c
    <3> SUFFICES ASSUME par[x] = c PROVE FALSE
      OBVIOUS
    <3>1. PICK j \in 0 .. 1 : kid[c][j] = x
      BY <1>0 DEF ParentShape
    <3> QED BY <2>1, <3>1
  <2>3. par[x] \in TreeIndex => roots2[par[x]] = x
    BY <1>0, <2>1 DEF ParentShape
  <2>4. par[x] \in M => \E j \in 0 .. 1 : kid2[par[x]][j] = x
    BY <1>0, <2>1 DEF ParentShape
  <2> QED BY <2>1, <2>2, <2>3, <2>4
<1>3. RootShape(M \ {c}, par2, roots2, dep, reg)
  BY <1>0, BinsAssumption DEF RootShape, NodeShape
<1>4. KidShape(M \ {c}, par2, kid2, dep, reg)
  <2>1. ASSUME NEW x \in M \ {c}, NEW j \in 0 .. 1
        PROVE  /\ kid2[x][j] \in (M \ {c}) \cup {null}
               /\ kid2[x][j] \in M \ {c} => /\ par2[kid2[x][j]] = x /\ dep[kid2[x][j]] = dep[x] + 1
                                            /\ reg[kid2[x][j]] = Turned(reg[x], dep[x], j)
    <3>1. x \in Chunk /\ kid2[x][j] = IF kid[x][j] = c THEN null ELSE kid[x][j]
      BY <1>0 DEF NodeShape
    <3>2. null \notin M
      BY <1>0, BinsAssumption DEF NodeShape
    <3>3. PICK y : y = kid[x][j]
      OBVIOUS
    <3>4. y \in M \cup {null} /\ (y \in M => par[y] = x /\ dep[y] = dep[x] + 1 /\ reg[y] = Turned(reg[x], dep[x], j))
      BY <1>0, <3>3 DEF KidShape
    <3>5. kid2[x][j] = IF y = c THEN null ELSE y
      BY <3>1, <3>3
    <3> QED BY <3>2, <3>4, <3>5
  <2>2. ASSUME NEW x \in Chunk \ (M \ {c}), NEW j \in 0 .. 1 PROVE kid2[x][j] = null
    <3>1. kid[x][j] = null
      BY <1>0 DEF KidShape
    <3> QED BY <3>1
  <2> QED BY <2>1, <2>2 DEF KidShape
<1> QED BY <1>1, <1>2, <1>3, <1>4 DEF Shape

\* r, which is no node, takes the place of c.
Replaced(M, c, r, sz, par, kid, roots, sz2, par2, kid2, roots2, reg) ==
  /\ c \in M /\ r \in Chunk \ M /\ sz2[r] \in reg[c]
  /\ \A x \in M \ {c} : sz2[x] = sz[x] /\ par2[x] = IF par[x] = c THEN r ELSE par[x]
  /\ par2[r] = par[c]
  /\ \A x \in Chunk, j \in 0 .. 1 :
       kid2[x][j] = IF x = c THEN null
                    ELSE IF x = r THEN kid[c][j]
                    ELSE IF kid[x][j] = c THEN r ELSE kid[x][j]
  /\ \A i \in TreeIndex : roots2[i] = IF roots[i] = c THEN r ELSE roots[i]

Moved(f, r, v) == [x \in Chunk |-> IF x = r THEN v ELSE f[x]]

\* They still have the shape of tries, r at the depth and with the region of c.
LEMMA ReplaceKeeps ==
  ASSUME NEW M, NEW c, NEW r, NEW sz, NEW par, NEW kid, NEW roots,
         NEW sz2, NEW par2, NEW kid2, NEW roots2, NEW dep, NEW reg,
         Shape(M, sz, par, kid, roots, dep, reg), Replaced(M, c, r, sz, par, kid, roots, sz2, par2, kid2, roots2, reg)
  PROVE  Shape((M \ {c}) \cup {r}, sz2, par2, kid2, roots2, Moved(dep, r, dep[c]), Moved(reg, r, reg[c]))
<1> USE DEF Replaced
<1>0. /\ NodeShape(M, sz, dep, reg) /\ ParentShape(M, par, kid, roots)
      /\ RootShape(M, par, roots, dep, reg) /\ KidShape(M, par, kid, dep, reg)
  BY DEF Shape
<1>a. PICK K : K = (M \ {c}) \cup {r}
  OBVIOUS
<1>b. PICK dep2 : dep2 = Moved(dep, r, dep[c])
  OBVIOUS
<1>c. PICK reg2 : reg2 = Moved(reg, r, reg[c])
  OBVIOUS
<1>d. /\ dep2[r] = dep[c] /\ reg2[r] = reg[c]
      /\ \A x \in M : dep2[x] = dep[x] /\ reg2[x] = reg[x]
      /\ r # c /\ r # null /\ c # null /\ M \subseteq Chunk /\ K \subseteq Chunk /\ null \notin K /\ null \notin M
  BY <1>0, <1>a, <1>b, <1>c, BinsAssumption DEF NodeShape, Moved
<1>e. K \cap TreeIndex = {}
  BY <1>d, Indexes
<1>f. M \cap TreeIndex = {} /\ r \notin TreeIndex
  BY <1>d, Indexes
<1>1. NodeShape(K, sz2, dep2, reg2)
  <2> SUFFICES ASSUME NEW x \in K
               PROVE  dep2[x] \in Nat /\ sz2[x] \in reg2[x] /\ reg2[x] \subseteq OfBin(computeTreeIndex(sz2[x]))
    BY <1>d DEF NodeShape
  <2>1. CASE x = r
    <3>1. dep[c] \in Nat /\ reg[c] \subseteq OfBin(computeTreeIndex(sz[c]))
      BY <1>0 DEF NodeShape
    <3>2. computeTreeIndex(sz2[r]) = computeTreeIndex(sz[c])
      BY <3>1 DEF OfBin
    <3> QED BY <1>d, <2>1, <3>1, <3>2
  <2>2. CASE x # r
    BY <1>0, <1>a, <1>d, <2>2 DEF NodeShape
  <2> QED BY <2>1, <2>2
<1>2. ParentShape(K, par2, kid2, roots2)
  <2> SUFFICES ASSUME NEW x \in K
               PROVE  /\ par2[x] \in TreeIndex \cup K
                      /\ par2[x] \in TreeIndex => roots2[par2[x]] = x
                      /\ par2[x] \in K => \E j \in 0 .. 1 : kid2[par2[x]][j] = x
    BY DEF ParentShape
  <2>1. PICK y \in M : x = IF y = c THEN r ELSE y
    BY <1>a
  <2>2. PICK p : p = par[y]
    OBVIOUS
  <2>3. p \in TreeIndex \cup M /\ (p \in TreeIndex => roots[p] = y) /\ (p \in M => \E j \in 0 .. 1 : kid[p][j] = y)
    BY <1>0, <2>2 DEF ParentShape
  <2>4. p # y
    <3> SUFFICES ASSUME p = y PROVE FALSE
      OBVIOUS
    <3>1. PICK j \in 0 .. 1 : kid[y][j] = y
      BY <2>3
    <3>2. dep[y] = dep[y] + 1 /\ dep[y] \in Nat
      BY <1>0, <3>1 DEF KidShape, NodeShape
    <3> QED BY <3>2
  <2>5. par2[x] = IF p = c THEN r ELSE p
    BY <2>1, <2>2, <2>4
  <2>6. CASE p \in TreeIndex
    <3>1. par2[x] = p /\ roots2[p] = x
      BY <1>f, <2>1, <2>3, <2>5, <2>6
    <3> QED BY <1>e, <2>6, <3>1
  <2>7. CASE p \in M
    <3>1. par2[x] \in K /\ par2[x] \notin TreeIndex
      BY <1>a, <1>e, <2>5, <2>7
    <3>2. PICK j \in 0 .. 1 : kid[p][j] = y
      BY <2>3, <2>7
    <3>3. kid2[par2[x]][j] = x
      <4>1. CASE p = c
        BY <1>d, <2>1, <2>4, <2>5, <3>2, <4>1
      <4>2. CASE p # c
        <5>1. p \in Chunk /\ p # r /\ par2[x] = p
          BY <1>d, <2>5, <2>7, <4>2
        <5> QED BY <2>1, <3>2, <4>2, <5>1
      <4> QED BY <4>1, <4>2
    <3> QED BY <3>1, <3>3
  <2> QED BY <2>3, <2>6, <2>7
<1>3. RootShape(K, par2, roots2, dep2, reg2)
  <2> SUFFICES ASSUME NEW i \in TreeIndex
               PROVE  /\ roots2[i] \in K \cup {null}
                      /\ roots2[i] \in K => par2[roots2[i]] = i /\ dep2[roots2[i]] = 0 /\ reg2[roots2[i]] = OfBin(i)
    BY DEF RootShape
  <2>1. PICK y : y = roots[i]
    OBVIOUS
  <2>2. y \in M \cup {null} /\ (y \in M => par[y] = i /\ dep[y] = 0 /\ reg[y] = OfBin(i))
    BY <1>0, <2>1 DEF RootShape
  <2>3. roots2[i] = IF y = c THEN r ELSE y
    BY <2>1
  <2>4. CASE y = c
    BY <1>a, <1>d, <2>2, <2>3, <2>4
  <2>5. CASE y # c
    BY <1>a, <1>d, <1>f, <2>2, <2>3, <2>5
  <2> QED BY <2>4, <2>5
<1>4. KidShape(K, par2, kid2, dep2, reg2)
  <2>1. ASSUME NEW x \in K, NEW j \in 0 .. 1
        PROVE  /\ kid2[x][j] \in K \cup {null}
               /\ kid2[x][j] \in K => /\ par2[kid2[x][j]] = x /\ dep2[kid2[x][j]] = dep2[x] + 1
                                      /\ reg2[kid2[x][j]] = Turned(reg2[x], dep2[x], j)
    <3>1. PICK y \in M : x = IF y = c THEN r ELSE y
      BY <1>a
    <3>2. PICK z : z = kid[y][j]
      OBVIOUS
    <3>3. z \in M \cup {null} /\ (z \in M => par[z] = y /\ dep[z] = dep[y] + 1 /\ reg[z] = Turned(reg[y], dep[y], j))
      BY <1>0, <3>2 DEF KidShape
    <3>4. z # y /\ dep[y] \in Nat
      BY <1>0, <1>d, <3>3 DEF NodeShape
    <3>5. kid2[x][j] = IF z = c THEN r ELSE z
      <4>1. CASE y = c
        BY <1>d, <3>1, <3>2, <3>4, <4>1
      <4>2. CASE y # c
        BY <1>d, <3>1, <3>2, <4>2
      <4> QED BY <4>1, <4>2
    <3>6. dep2[x] = dep[y] /\ reg2[x] = reg[y]
      BY <1>d, <3>1
    <3>7. CASE z = null
      BY <1>d, <3>5, <3>7
    <3>8. CASE z \in M
      <4>1. PICK w : w = kid2[x][j]
        OBVIOUS
      <4>2. w = (IF z = c THEN r ELSE z) /\ w \in K
        BY <1>a, <3>5, <3>8, <4>1
      <4>3. dep2[w] = dep[z] /\ reg2[w] = reg[z]
        BY <1>d, <3>8, <4>2
      <4>4. par2[w] = x
        BY <3>1, <3>3, <3>4, <3>8, <4>2
      <4> QED BY <3>3, <3>6, <3>8, <4>1, <4>2, <4>3, <4>4
    <3> QED BY <3>3, <3>7, <3>8
  <2>2. ASSUME NEW x \in Chunk \ K, NEW j \in 0 .. 1 PROVE kid2[x][j] = null
    <3>1. CASE x = c
      BY <3>1
    <3>2. CASE x # c
      <4>1. x \notin M /\ x # r
        BY <1>a, <3>2
      <4>2. kid[x][j] = null
        BY <1>0, <4>1 DEF KidShape
      <4> QED BY <1>d, <3>2, <4>1, <4>2
    <3> QED BY <3>1, <3>2
  <2> QED BY <2>1, <2>2 DEF KidShape
<1>5. Shape(K, sz2, par2, kid2, roots2, dep2, reg2)
  BY <1>1, <1>2, <1>3, <1>4 DEF Shape
<1> QED BY <1>5, <1>a, <1>b, <1>c, Zenon

\* c, which is no node, becomes child j of p.
AddedBelow(M, c, p, j, sz, par, kid, roots, sz2, par2, kid2, roots2, dep, reg) ==
  /\ p \in M /\ j \in 0 .. 1 /\ kid[p][j] = null
  /\ c \in Chunk \ M /\ sz2[c] \in Turned(reg[p], dep[p], j) /\ par2[c] = p
  /\ \A x \in M : sz2[x] = sz[x] /\ par2[x] = par[x]
  /\ \A x \in Chunk, k \in 0 .. 1 : kid2[x][k] = IF x = p /\ k = j THEN c ELSE kid[x][k]
  /\ \A i \in TreeIndex : roots2[i] = roots[i]

\* They still have the shape of tries, c one deeper than p and with that half of its region.
LEMMA AddBelowKeeps ==
  ASSUME NEW M, NEW c, NEW p, NEW j, NEW sz, NEW par, NEW kid, NEW roots,
         NEW sz2, NEW par2, NEW kid2, NEW roots2, NEW dep, NEW reg,
         Shape(M, sz, par, kid, roots, dep, reg),
         AddedBelow(M, c, p, j, sz, par, kid, roots, sz2, par2, kid2, roots2, dep, reg)
  PROVE  Shape(M \cup {c}, sz2, par2, kid2, roots2, Moved(dep, c, dep[p] + 1), Moved(reg, c, Turned(reg[p], dep[p], j)))
<1> USE DEF AddedBelow
<1>0. /\ NodeShape(M, sz, dep, reg) /\ ParentShape(M, par, kid, roots)
      /\ RootShape(M, par, roots, dep, reg) /\ KidShape(M, par, kid, dep, reg)
  BY DEF Shape
<1>a. PICK K : K = M \cup {c}
  OBVIOUS
<1>b. PICK dep2 : dep2 = Moved(dep, c, dep[p] + 1)
  OBVIOUS
<1>c. PICK reg2 : reg2 = Moved(reg, c, Turned(reg[p], dep[p], j))
  OBVIOUS
<1>d. /\ dep2[c] = dep[p] + 1 /\ reg2[c] = Turned(reg[p], dep[p], j)
      /\ \A x \in M : dep2[x] = dep[x] /\ reg2[x] = reg[x]
      /\ p # c /\ c # null /\ M \subseteq Chunk /\ K \subseteq Chunk /\ null \notin K /\ null \notin M
  BY <1>0, <1>a, <1>b, <1>c, BinsAssumption DEF NodeShape, Moved
<1>e. K \cap TreeIndex = {}
  BY <1>d, Indexes
<1>1. NodeShape(K, sz2, dep2, reg2)
  <2> SUFFICES ASSUME NEW x \in K
               PROVE  dep2[x] \in Nat /\ sz2[x] \in reg2[x] /\ reg2[x] \subseteq OfBin(computeTreeIndex(sz2[x]))
    BY <1>d DEF NodeShape
  <2>1. CASE x = c
    <3>1. dep[p] \in Nat /\ reg[p] \subseteq OfBin(computeTreeIndex(sz[p]))
      BY <1>0 DEF NodeShape
    <3>2. sz2[c] \in reg[p] /\ Turned(reg[p], dep[p], j) \subseteq reg[p]
      BY DEF Turned
    <3>3. computeTreeIndex(sz2[c]) = computeTreeIndex(sz[p])
      BY <3>1, <3>2 DEF OfBin
    <3>4. Turned(reg[p], dep[p], j) \subseteq OfBin(computeTreeIndex(sz2[c]))
      BY <3>1, <3>2, <3>3
    <3> QED BY <1>d, <2>1, <3>1, <3>4
  <2>2. CASE x # c
    BY <1>0, <1>a, <1>d, <2>2 DEF NodeShape
  <2> QED BY <2>1, <2>2
<1>2. ParentShape(K, par2, kid2, roots2)
  <2> SUFFICES ASSUME NEW x \in K
               PROVE  /\ par2[x] \in TreeIndex \cup K
                      /\ par2[x] \in TreeIndex => roots2[par2[x]] = x
                      /\ par2[x] \in K => \E k \in 0 .. 1 : kid2[par2[x]][k] = x
    BY DEF ParentShape
  <2>1. CASE x = c
    <3>1. par2[x] = p /\ p \in K /\ p \notin TreeIndex /\ p \in Chunk /\ kid2[p][j] = c
      BY <1>a, <1>d, <1>e, <2>1
    <3> QED BY <2>1, <3>1
  <2>2. CASE x # c
    <3>1. PICK q : q = par[x]
      OBVIOUS
    <3>2. /\ x \in M /\ q \in TreeIndex \cup M
          /\ q \in TreeIndex => roots[q] = x
          /\ q \in M => \E k \in 0 .. 1 : kid[q][k] = x
      BY <1>0, <1>a, <2>2, <3>1 DEF ParentShape
    <3>3. par2[x] = q /\ q # c
      BY <1>a, <1>d, <1>e, <3>1, <3>2
    <3>4. CASE q \in TreeIndex
      BY <1>e, <3>2, <3>3, <3>4
    <3>5. CASE q \in M
      <4>1. PICK k \in 0 .. 1 : kid[q][k] = x
        BY <3>2, <3>5
      <4>2. q \in K /\ q \notin TreeIndex /\ q \in Chunk /\ x # null
        BY <1>a, <1>d, <1>e, <3>5
      <4>3. kid2[q][k] = x
        BY <4>1, <4>2
      <4> QED BY <3>3, <4>2, <4>3
    <3> QED BY <3>2, <3>4, <3>5
  <2> QED BY <2>1, <2>2
<1>3. RootShape(K, par2, roots2, dep2, reg2)
  <2> SUFFICES ASSUME NEW i \in TreeIndex
               PROVE  /\ roots2[i] \in K \cup {null}
                      /\ roots2[i] \in K => par2[roots2[i]] = i /\ dep2[roots2[i]] = 0 /\ reg2[roots2[i]] = OfBin(i)
    BY DEF RootShape
  <2>1. PICK y : y = roots[i]
    OBVIOUS
  <2>2. y \in M \cup {null} /\ (y \in M => par[y] = i /\ dep[y] = 0 /\ reg[y] = OfBin(i)) /\ roots2[i] = y
    BY <1>0, <2>1 DEF RootShape
  <2> QED BY <1>a, <1>d, <2>2
<1>4. KidShape(K, par2, kid2, dep2, reg2)
  <2>1. ASSUME NEW x \in K, NEW k \in 0 .. 1
        PROVE  /\ kid2[x][k] \in K \cup {null}
               /\ kid2[x][k] \in K => /\ par2[kid2[x][k]] = x /\ dep2[kid2[x][k]] = dep2[x] + 1
                                      /\ reg2[kid2[x][k]] = Turned(reg2[x], dep2[x], k)
    <3>0. x \in Chunk
      BY <1>d
    <3>1. CASE x = p /\ k = j
      <4>1. kid2[x][k] = c /\ c \in K
        BY <1>a, <3>0, <3>1
      <4>2. dep2[x] = dep[p] /\ reg2[x] = reg[p]
        BY <1>d, <3>1
      <4> QED BY <1>d, <3>1, <4>1, <4>2
    <3>2. CASE x = c
      <4>1. kid[x][k] = null
        BY <1>0, <3>2 DEF KidShape
      <4> QED BY <1>d, <3>0, <3>2, <4>1
    <3>3. CASE x # c /\ ~(x = p /\ k = j)
      <4>1. PICK z : z = kid[x][k]
        OBVIOUS
      <4>2. /\ x \in M /\ z \in M \cup {null}
            /\ z \in M => par[z] = x /\ dep[z] = dep[x] + 1 /\ reg[z] = Turned(reg[x], dep[x], k)
        BY <1>0, <1>a, <3>3, <4>1 DEF KidShape
      <4>3. kid2[x][k] = z
        BY <3>0, <3>3, <4>1
      <4>4. CASE z = null
        BY <1>d, <4>3, <4>4
      <4>5. CASE z \in M
        <5>1. par2[z] = x /\ dep2[z] = dep[z] /\ reg2[z] = reg[z] /\ dep2[x] = dep[x] /\ reg2[x] = reg[x] /\ z \in K
          BY <1>a, <1>d, <4>2, <4>5
        <5> QED BY <4>2, <4>3, <4>5, <5>1
      <4> QED BY <4>2, <4>4, <4>5
    <3> QED BY <3>1, <3>2, <3>3
  <2>2. ASSUME NEW x \in Chunk \ K, NEW k \in 0 .. 1 PROVE kid2[x][k] = null
    <3>1. x \notin M /\ x # p
      BY <1>a
    <3>2. kid[x][k] = null
      BY <1>0, <3>1 DEF KidShape
    <3> QED BY <3>1, <3>2
  <2> QED BY <2>1, <2>2 DEF KidShape
<1>5. Shape(K, sz2, par2, kid2, roots2, dep2, reg2)
  BY <1>1, <1>2, <1>3, <1>4 DEF Shape
<1> QED BY <1>5, <1>a, <1>b, <1>c, Zenon

\* c, which is no node, becomes the root of an empty bin.
AddedRoot(M, c, i, sz, par, kid, roots, sz2, par2, kid2, roots2) ==
  /\ i \in TreeIndex /\ roots[i] = null
  /\ c \in Chunk \ M /\ sz2[c] \in OfBin(i) /\ par2[c] = i
  /\ \A x \in M : sz2[x] = sz[x] /\ par2[x] = par[x]
  /\ \A x \in Chunk, k \in 0 .. 1 : kid2[x][k] = kid[x][k]
  /\ \A k \in TreeIndex : roots2[k] = IF k = i THEN c ELSE roots[k]

\* They still have the shape of tries, c with all sizes of the bin.
LEMMA AddRootKeeps ==
  ASSUME NEW M, NEW c, NEW i, NEW sz, NEW par, NEW kid, NEW roots,
         NEW sz2, NEW par2, NEW kid2, NEW roots2, NEW dep, NEW reg,
         Shape(M, sz, par, kid, roots, dep, reg),
         AddedRoot(M, c, i, sz, par, kid, roots, sz2, par2, kid2, roots2)
  PROVE  Shape(M \cup {c}, sz2, par2, kid2, roots2, Moved(dep, c, 0), Moved(reg, c, OfBin(i)))
<1> USE DEF AddedRoot
<1>0. /\ NodeShape(M, sz, dep, reg) /\ ParentShape(M, par, kid, roots)
      /\ RootShape(M, par, roots, dep, reg) /\ KidShape(M, par, kid, dep, reg)
  BY DEF Shape
<1>a. PICK K : K = M \cup {c}
  OBVIOUS
<1>b. PICK dep2 : dep2 = Moved(dep, c, 0)
  OBVIOUS
<1>c. PICK reg2 : reg2 = Moved(reg, c, OfBin(i))
  OBVIOUS
<1>d. /\ dep2[c] = 0 /\ reg2[c] = OfBin(i)
      /\ \A x \in M : dep2[x] = dep[x] /\ reg2[x] = reg[x]
      /\ c # null /\ M \subseteq Chunk /\ K \subseteq Chunk /\ null \notin K /\ null \notin M
  BY <1>0, <1>a, <1>b, <1>c, BinsAssumption DEF NodeShape, Moved
<1>e. K \cap TreeIndex = {}
  BY <1>d, Indexes
<1>1. NodeShape(K, sz2, dep2, reg2)
  <2> SUFFICES ASSUME NEW x \in K
               PROVE  dep2[x] \in Nat /\ sz2[x] \in reg2[x] /\ reg2[x] \subseteq OfBin(computeTreeIndex(sz2[x]))
    BY <1>d DEF NodeShape
  <2>1. CASE x = c
    <3>1. computeTreeIndex(sz2[c]) = i
      BY DEF OfBin
    <3> QED BY <1>d, <2>1, <3>1
  <2>2. CASE x # c
    BY <1>0, <1>a, <1>d, <2>2 DEF NodeShape
  <2> QED BY <2>1, <2>2
<1>2. ParentShape(K, par2, kid2, roots2)
  <2> SUFFICES ASSUME NEW x \in K
               PROVE  /\ par2[x] \in TreeIndex \cup K
                      /\ par2[x] \in TreeIndex => roots2[par2[x]] = x
                      /\ par2[x] \in K => \E k \in 0 .. 1 : kid2[par2[x]][k] = x
    BY DEF ParentShape
  <2>1. CASE x = c
    BY <1>e, <2>1
  <2>2. CASE x # c
    <3>1. PICK q : q = par[x]
      OBVIOUS
    <3>2. /\ x \in M /\ q \in TreeIndex \cup M
          /\ q \in TreeIndex => roots[q] = x
          /\ q \in M => \E k \in 0 .. 1 : kid[q][k] = x
      BY <1>0, <1>a, <2>2, <3>1 DEF ParentShape
    <3>3. par2[x] = q /\ q # c
      BY <1>a, <1>d, <1>e, <3>1, <3>2
    <3>4. CASE q \in TreeIndex
      <4>1. q # i
        BY <1>d, <3>2, <3>4
      <4> QED BY <1>e, <3>2, <3>3, <3>4, <4>1
    <3>5. CASE q \in M
      <4>1. PICK k \in 0 .. 1 : kid[q][k] = x
        BY <3>2, <3>5
      <4>2. q \in K /\ q \notin TreeIndex /\ q \in Chunk
        BY <1>a, <1>d, <1>e, <3>5
      <4> QED BY <3>3, <4>1, <4>2
    <3> QED BY <3>2, <3>4, <3>5
  <2> QED BY <2>1, <2>2
<1>3. RootShape(K, par2, roots2, dep2, reg2)
  <2> SUFFICES ASSUME NEW k \in TreeIndex
               PROVE  /\ roots2[k] \in K \cup {null}
                      /\ roots2[k] \in K => par2[roots2[k]] = k /\ dep2[roots2[k]] = 0 /\ reg2[roots2[k]] = OfBin(k)
    BY DEF RootShape
  <2>1. CASE k = i
    BY <1>a, <1>d, <2>1
  <2>2. CASE k # i
    <3>1. PICK y : y = roots[k]
      OBVIOUS
    <3>2. y \in M \cup {null} /\ (y \in M => par[y] = k /\ dep[y] = 0 /\ reg[y] = OfBin(k)) /\ roots2[k] = y
      BY <1>0, <2>2, <3>1 DEF RootShape
    <3> QED BY <1>a, <1>d, <3>2
  <2> QED BY <2>1, <2>2
<1>4. KidShape(K, par2, kid2, dep2, reg2)
  <2>1. ASSUME NEW x \in K, NEW k \in 0 .. 1
        PROVE  /\ kid2[x][k] \in K \cup {null}
               /\ kid2[x][k] \in K => /\ par2[kid2[x][k]] = x /\ dep2[kid2[x][k]] = dep2[x] + 1
                                      /\ reg2[kid2[x][k]] = Turned(reg2[x], dep2[x], k)
    <3>0. x \in Chunk
      BY <1>d
    <3>1. CASE x = c
      <4>1. kid[x][k] = null
        BY <1>0, <3>1 DEF KidShape
      <4> QED BY <1>d, <3>0, <4>1
    <3>2. CASE x # c
      <4>1. PICK z : z = kid[x][k]
        OBVIOUS
      <4>2. /\ x \in M /\ z \in M \cup {null}
            /\ z \in M => par[z] = x /\ dep[z] = dep[x] + 1 /\ reg[z] = Turned(reg[x], dep[x], k)
        BY <1>0, <1>a, <3>2, <4>1 DEF KidShape
      <4>3. kid2[x][k] = z
        BY <3>0, <4>1
      <4>4. CASE z = null
        BY <1>d, <4>3, <4>4
      <4>5. CASE z \in M
        <5>1. par2[z] = x /\ dep2[z] = dep[z] /\ reg2[z] = reg[z] /\ dep2[x] = dep[x] /\ reg2[x] = reg[x] /\ z \in K
          BY <1>a, <1>d, <4>2, <4>5
        <5> QED BY <4>2, <4>3, <4>5, <5>1
      <4> QED BY <4>2, <4>4, <4>5
    <3> QED BY <3>1, <3>2
  <2>2. ASSUME NEW x \in Chunk \ K, NEW k \in 0 .. 1 PROVE kid2[x][k] = null
    <3>1. x \notin M
      BY <1>a
    <3>2. kid[x][k] = null
      BY <1>0, <3>1 DEF KidShape
    <3> QED BY <3>2
  <2> QED BY <2>1, <2>2 DEF KidShape
<1>5. Shape(K, sz2, par2, kid2, roots2, dep2, reg2)
  BY <1>1, <1>2, <1>3, <1>4 DEF Shape
<1> QED BY <1>5, <1>a, <1>b, <1>c, Zenon

-----------------------------------------------------------------------------
(* How deep *)

\* A node has fewer chunks above it than there are.
LEMMA DepthBound ==
  ASSUME NEW M, NEW sz, NEW par, NEW kid, NEW roots, NEW dep, NEW reg, Shape(M, sz, par, kid, roots, dep, reg)
  PROVE  \A x \in M : dep[x] \in Nat /\ dep[x] + 1 =< N
<1>0. /\ NodeShape(M, sz, dep, reg) /\ ParentShape(M, par, kid, roots)
      /\ RootShape(M, par, roots, dep, reg) /\ KidShape(M, par, kid, dep, reg)
  BY DEF Shape
<1>1. M \subseteq Chunk /\ \A x \in M : dep[x] \in Nat
  BY <1>0 DEF NodeShape
<1> DEFINE Above(x, S) == /\ S \subseteq M /\ IsFiniteSet(S) /\ Cardinality(S) = dep[x] + 1
                          /\ \A y \in S : dep[y] =< dep[x]
           T == {m \in Nat : \A x \in M : dep[x] = m => \E S : Above(x, S)}
<1>2. 0 \in T
  <2> SUFFICES ASSUME NEW x \in M, dep[x] = 0 PROVE \E S : Above(x, S)
    OBVIOUS
  <2>1. IsFiniteSet({x}) /\ Cardinality({x}) = 1
    BY FS_Singleton
  <2>2. Above(x, {x})
    BY <2>1
  <2> QED BY <2>2
<1>3. ASSUME NEW m \in Nat, m \in T PROVE m + 1 \in T
  <2> SUFFICES ASSUME NEW x \in M, dep[x] = m + 1 PROVE \E S : Above(x, S)
    OBVIOUS
  <2>1. PICK p : p = par[x]
    OBVIOUS
  <2>2. p \in M /\ dep[p] = m
    <3>1. /\ p \in TreeIndex \cup M
          /\ p \in TreeIndex => roots[p] = x
          /\ p \in M => \E j \in 0 .. 1 : kid[p][j] = x
      BY <1>0, <2>1 DEF ParentShape
    <3>2. p \notin TreeIndex
      <4> SUFFICES ASSUME p \in TreeIndex PROVE FALSE
        OBVIOUS
      <4>1. dep[x] = 0
        BY <1>0, <3>1 DEF RootShape
      <4> QED BY <4>1
    <3>3. PICK j \in 0 .. 1 : kid[p][j] = x
      BY <3>1, <3>2
    <3>4. p \in M /\ dep[x] = dep[p] + 1
      BY <1>0, <3>1, <3>2, <3>3 DEF KidShape
    <3>5. dep[p] \in Nat
      BY <1>1, <3>4
    <3> QED BY <3>4, <3>5
  <2>3. PICK S : Above(p, S)
    BY <1>3, <2>2
  <2>4. x \notin S
    BY <2>2, <2>3
  <2>5. IsFiniteSet(S \cup {x}) /\ Cardinality(S \cup {x}) = Cardinality(S) + 1
    BY <2>3, <2>4, FS_AddElement
  <2>6. \A y \in S \cup {x} : dep[y] =< dep[x]
    <3> SUFFICES ASSUME NEW y \in S PROVE dep[y] =< dep[x]
      OBVIOUS
    <3>1. dep[y] =< m /\ dep[y] \in Nat
      BY <1>1, <2>2, <2>3
    <3> QED BY <3>1
  <2>7. Above(x, S \cup {x})
    BY <2>2, <2>3, <2>5, <2>6
  <2> QED BY <2>7
<1> HIDE DEF T
<1>4. Nat \subseteq T
  BY <1>2, <1>3, Induction
<1> SUFFICES ASSUME NEW x \in M PROVE dep[x] + 1 =< N
  BY <1>1
<1>5. PICK S : Above(x, S)
  BY <1>1, <1>4 DEF T
<1>6. Cardinality(S) =< N
  BY <1>1, <1>5, FS_Subset, ChunksFinite DEF N
<1> QED BY <1>5, <1>6

-----------------------------------------------------------------------------
(* The invariant of the tries *)

\* The member of a ring that is linked into the trie.
Node == {c \in treeBinned : parent[c] # null}

Trie(dep, reg) ==
  /\ Shape(Node, size, parent, child, tree_bins, dep, reg)
  /\ \A c \in Chunk \ treeBinned : parent[c] = null
  /\ \A c \in treeBinned : \E x \in Node : size[x] = size[c]
  /\ \A x, y \in Node : size[x] = size[y] => x = y

Inv == Typed /\ Ringed /\ Mapped /\ \E dep, reg : Trie(dep, reg)

\* What the shape says, for the nodes there are.
LEMMA TrieFacts ==
  ASSUME Typed, NEW dep, NEW reg, Trie(dep, reg)
  PROVE  /\ Node \subseteq treeBinned /\ Node \subseteq Chunk /\ null \notin Node /\ Node \cap TreeIndex = {}
         /\ \A x \in Node : /\ x \in binned /\ size[x] \in Sizes /\ ~isSmall(size[x]) /\ size[x] \in reg[x]
                            /\ reg[x] \subseteq OfBin(computeTreeIndex(size[x]))
                            /\ dep[x] \in Nat /\ dep[x] + 1 =< N
         /\ \A x \in Node : /\ parent[x] \in TreeIndex \cup Node
                            /\ parent[x] \in TreeIndex => tree_bins[parent[x]] = x
                            /\ parent[x] \in Node => \E j \in 0 .. 1 : child[parent[x]][j] = x
         /\ \A i \in TreeIndex : /\ tree_bins[i] \in Node \cup {null}
                                 /\ tree_bins[i] \in Node => /\ parent[tree_bins[i]] = i /\ dep[tree_bins[i]] = 0
                                                             /\ reg[tree_bins[i]] = OfBin(i)
         /\ \A x \in Node, j \in 0 .. 1 :
              /\ child[x][j] \in Node \cup {null}
              /\ child[x][j] \in Node => /\ parent[child[x][j]] = x /\ dep[child[x][j]] = dep[x] + 1
                                         /\ reg[child[x][j]] = Turned(reg[x], dep[x], j)
         /\ \A x \in Chunk \ Node, j \in 0 .. 1 : child[x][j] = null
<1>1. Shape(Node, size, parent, child, tree_bins, dep, reg)
  BY DEF Trie
<1>2. /\ NodeShape(Node, size, dep, reg) /\ ParentShape(Node, parent, child, tree_bins)
      /\ RootShape(Node, parent, tree_bins, dep, reg) /\ KidShape(Node, parent, child, dep, reg)
  BY <1>1 DEF Shape
<1>3. \A x \in Node : dep[x] \in Nat /\ dep[x] + 1 =< N
  BY <1>1, DepthBound
<1>4. Node \subseteq treeBinned /\ Node \subseteq Chunk /\ null \notin Node /\ Node \cap TreeIndex = {}
  <2>1. Node \subseteq treeBinned /\ Node \subseteq Chunk
    BY DEF Node, treeBinned, binned
  <2> QED BY <2>1, Indexes, BinsAssumption
<1>5. \A x \in Node : x \in binned /\ size[x] \in Sizes /\ ~isSmall(size[x])
  BY Keys DEF Node, treeBinned
<1>6. \A x \in Node : size[x] \in reg[x] /\ reg[x] \subseteq OfBin(computeTreeIndex(size[x]))
  BY <1>2 DEF NodeShape
<1>7. \A x \in Node : /\ parent[x] \in TreeIndex \cup Node
                      /\ parent[x] \in TreeIndex => tree_bins[parent[x]] = x
                      /\ parent[x] \in Node => \E j \in 0 .. 1 : child[parent[x]][j] = x
  BY <1>2 DEF ParentShape
<1>8. \A i \in TreeIndex : /\ tree_bins[i] \in Node \cup {null}
                           /\ tree_bins[i] \in Node => /\ parent[tree_bins[i]] = i /\ dep[tree_bins[i]] = 0
                                                       /\ reg[tree_bins[i]] = OfBin(i)
  BY <1>2 DEF RootShape
<1>9. /\ \A x \in Node, j \in 0 .. 1 :
           /\ child[x][j] \in Node \cup {null}
           /\ child[x][j] \in Node => /\ parent[child[x][j]] = x /\ dep[child[x][j]] = dep[x] + 1
                                      /\ reg[child[x][j]] = Turned(reg[x], dep[x], j)
      /\ \A x \in Chunk \ Node, j \in 0 .. 1 : child[x][j] = null
  BY <1>2 DEF KidShape
<1> QED BY <1>3, <1>4, <1>5, <1>6, <1>7, <1>8, <1>9

\* The way of the search for s: a node whose region has s.
LEMMA SearchIn ==
  ASSUME Typed, NEW dep, NEW reg, Trie(dep, reg), NEW s \in Sizes, ~isSmall(s)
  PROVE  \A d \in 0 .. N : LET x == search(s)[d]
                           IN  x # null => x \in Node /\ s \in reg[x] /\ (dep[x] = d \/ size[x] = s)
<1>1. PICK at : at = search(s)
  OBVIOUS
<1>2. PICK i \in TreeIndex : i = computeTreeIndex(s)
  BY Indexes
<1>3. /\ at \in [0 .. N -> Links] /\ at[0] = tree_bins[i]
      /\ \A d \in 1 .. N : at[d] = IF at[d - 1] = null \/ size[at[d - 1]] = s THEN at[d - 1]
                                   ELSE child[at[d - 1]][turn(s, d - 1)]
  BY <1>1, <1>2, SearchSteps
<1>4. s \in OfBin(i)
  BY <1>2 DEF OfBin
<1> DEFINE Good(d) == at[d] # null => at[d] \in Node /\ s \in reg[at[d]] /\ (dep[at[d]] = d \/ size[at[d]] = s)
           T == {d \in 0 .. N : Good(d)}
<1>5. 0 \in T
  <2>1. PICK x : x = at[0]
    OBVIOUS
  <2>2. x \in Node \cup {null} /\ (x \in Node => dep[x] = 0 /\ reg[x] = OfBin(i))
    BY <1>3, <2>1, TrieFacts
  <2> QED BY <1>4, <2>1, <2>2, ChunksFinite
<1>6. ASSUME NEW d \in 1 .. N, d - 1 \in T PROVE d \in T
  <2>1. PICK x : x = at[d - 1]
    OBVIOUS
  <2>2. d \in Nat /\ d - 1 \in Nat /\ (d - 1) + 1 = d /\ d \in 0 .. N
    BY ChunksFinite
  <2>3. PICK j \in 0 .. 1 : j = turn(s, d - 1)
    BY Indexes
  <2>4. at[d] = IF x = null \/ size[x] = s THEN x ELSE child[x][j]
    BY <1>3, <2>1, <2>3
  <2>5. x # null => x \in Node /\ s \in reg[x] /\ (dep[x] = d - 1 \/ size[x] = s)
    BY <1>6, <2>1
  <2>6. CASE x = null \/ size[x] = s
    BY <2>2, <2>4, <2>5, <2>6
  <2>7. CASE ~(x = null \/ size[x] = s)
    <3>1. x \in Node /\ s \in reg[x] /\ dep[x] = d - 1
      BY <2>5, <2>7
    <3>2. PICK y : y = child[x][j]
      OBVIOUS
    <3>3. y \in Node \cup {null} /\ (y \in Node => dep[y] = dep[x] + 1 /\ reg[y] = Turned(reg[x], dep[x], j))
      BY <3>1, <3>2, TrieFacts
    <3>4. y \in Node => dep[y] = d /\ s \in reg[y]
      BY <2>2, <2>3, <3>1, <3>3 DEF Turned
    <3> QED BY <2>2, <2>4, <2>7, <3>2, <3>3, <3>4
  <2> QED BY <2>6, <2>7
<1> HIDE DEF T
<1>7. 0 .. N \subseteq T
  BY <1>5, <1>6, ChunksFinite, Climb
<1>8. \A d \in 0 .. N : Good(d)
  BY <1>7 DEF T
<1> QED BY <1>1, <1>8

\* It ends at null or at a node of that size.
LEMMA SearchEnds ==
  ASSUME Typed, NEW dep, NEW reg, Trie(dep, reg), NEW s \in Sizes, ~isSmall(s), found(s) # null
  PROVE  found(s) \in Node /\ size[found(s)] = s
<1>1. PICK x : x = found(s)
  OBVIOUS
<1>2. x = search(s)[N] /\ N \in 0 .. N /\ N \in Nat
  BY <1>1, ChunksFinite DEF found, N
<1>3. x \in Node /\ (dep[x] = N \/ size[x] = s)
  BY <1>1, <1>2, SearchIn
<1>4. dep[x] \in Nat /\ dep[x] + 1 =< N
  BY <1>3, TrieFacts
<1> QED BY <1>1, <1>2, <1>3, <1>4

\* It comes to every node in whose region s is, unless there is one of that size above.
LEMMA SearchComes ==
  ASSUME Typed, NEW dep, NEW reg, Trie(dep, reg), NEW s \in Sizes, ~isSmall(s)
  PROVE  \A x \in Node : s \in reg[x] => \/ search(s)[dep[x]] = x
                                         \/ search(s)[dep[x]] # null /\ size[search(s)[dep[x]]] = s
<1>1. PICK at : at = search(s)
  OBVIOUS
<1>2. PICK i \in TreeIndex : i = computeTreeIndex(s)
  BY Indexes
<1>3. /\ at \in [0 .. N -> Links] /\ at[0] = tree_bins[i]
      /\ \A d \in 1 .. N : at[d] = IF at[d - 1] = null \/ size[at[d - 1]] = s THEN at[d - 1]
                                   ELSE child[at[d - 1]][turn(s, d - 1)]
  BY <1>1, <1>2, SearchSteps
<1> DEFINE There(x, m) == at[m] = x \/ (at[m] # null /\ size[at[m]] = s)
           T == {m \in Nat : \A x \in Node : dep[x] = m /\ s \in reg[x] => There(x, m)}
<1>4. 0 \in T
  <2> SUFFICES ASSUME NEW x \in Node, dep[x] = 0, s \in reg[x] PROVE at[0] = x
    OBVIOUS
  <2>1. PICK p : p = parent[x]
    OBVIOUS
  <2>2. /\ p \in TreeIndex \cup Node
        /\ p \in TreeIndex => tree_bins[p] = x
        /\ p \in Node => \E j \in 0 .. 1 : child[p][j] = x
    BY <2>1, TrieFacts
  <2>3. p \notin Node
    <3> SUFFICES ASSUME p \in Node PROVE FALSE
      OBVIOUS
    <3>1. PICK j \in 0 .. 1 : child[p][j] = x
      BY <2>2
    <3>2. dep[x] = dep[p] + 1 /\ dep[p] \in Nat
      BY <3>1, TrieFacts
    <3> QED BY <3>2
  <2>4. p \in TreeIndex /\ tree_bins[p] = x
    BY <2>2, <2>3
  <2>5. reg[x] = OfBin(p)
    BY <2>4, TrieFacts
  <2>6. p = i
    BY <1>2, <2>5 DEF OfBin
  <2> QED BY <1>3, <2>4, <2>6
<1>5. ASSUME NEW m \in Nat, m \in T PROVE m + 1 \in T
  <2> SUFFICES ASSUME NEW x \in Node, dep[x] = m + 1, s \in reg[x] PROVE There(x, m + 1)
    OBVIOUS
  <2>1. PICK p : p = parent[x]
    OBVIOUS
  <2>2. /\ p \in TreeIndex \cup Node
        /\ p \in TreeIndex => tree_bins[p] = x
        /\ p \in Node => \E j \in 0 .. 1 : child[p][j] = x
    BY <2>1, TrieFacts
  <2>3. p \notin TreeIndex
    <3> SUFFICES ASSUME p \in TreeIndex PROVE FALSE
      OBVIOUS
    <3>1. dep[x] = 0
      BY <2>2, TrieFacts
    <3> QED BY <3>1
  <2>4. PICK j \in 0 .. 1 : child[p][j] = x
    BY <2>2, <2>3
  <2>5. p \in Node
    BY <2>2, <2>3
  <2>6. dep[x] = dep[p] + 1 /\ dep[p] \in Nat /\ reg[x] = Turned(reg[p], dep[p], j)
    BY <2>4, <2>5, TrieFacts
  <2>7. dep[p] = m /\ s \in reg[p] /\ turn(s, m) = j
    BY <2>6 DEF Turned
  <2>8. There(p, m)
    BY <1>5, <2>5, <2>7
  <2>9. dep[x] + 1 =< N
    BY TrieFacts
  <2>10. m + 1 \in 1 .. N /\ (m + 1) - 1 = m
    BY <2>9, ChunksFinite
  <2>11. at[m + 1] = IF at[m] = null \/ size[at[m]] = s THEN at[m] ELSE child[at[m]][turn(s, m)]
    <3>1. PICK d \in 1 .. N : d = m + 1 /\ d - 1 = m
      BY <2>10
    <3>2. at[d] = IF at[d - 1] = null \/ size[at[d - 1]] = s THEN at[d - 1] ELSE child[at[d - 1]][turn(s, d - 1)]
      BY <1>3
    <3> QED BY <3>1, <3>2
  <2>12. p # null
    BY <2>5, TrieFacts
  <2> QED BY <2>4, <2>7, <2>8, <2>11, <2>12
<1> HIDE DEF T
<1>6. Nat \subseteq T
  BY <1>4, <1>5, Induction
<1> SUFFICES ASSUME NEW x \in Node, s \in reg[x] PROVE There(x, dep[x])
  BY <1>1
<1>7. dep[x] \in Nat
  BY TrieFacts
<1> QED BY <1>6, <1>7 DEF T

\* So it finds the node of its size.
LEMMA SearchFinds ==
  ASSUME Typed, NEW dep, NEW reg, Trie(dep, reg), NEW x \in Node
  PROVE  found(size[x]) = x
<1>1. PICK s : s = size[x]
  OBVIOUS
<1>2. s \in Sizes /\ ~isSmall(s) /\ s \in reg[x] /\ dep[x] \in Nat /\ dep[x] + 1 =< N /\ x # null
  BY <1>1, TrieFacts
<1>3. PICK at : at = search(s)
  OBVIOUS
<1>4. PICK e : e = dep[x]
  OBVIOUS
<1>5. e \in 0 .. N
  BY <1>2, <1>4, ChunksFinite
<1>6. at[e] = x
  <2>1. at[e] = x \/ (at[e] # null /\ size[at[e]] = s)
    BY <1>2, <1>3, <1>4, SearchComes
  <2>2. at[e] # null => at[e] \in Node
    BY <1>2, <1>3, <1>5, SearchIn
  <2> QED BY <1>1, <2>1, <2>2 DEF Trie
<1>7. \A d \in 1 .. N : at[d] = IF at[d - 1] = null \/ size[at[d - 1]] = s THEN at[d - 1]
                                ELSE child[at[d - 1]][turn(s, d - 1)]
  BY <1>2, <1>3, SearchSteps, Indexes
<1> DEFINE T == {d \in 0 .. N : d < e \/ at[d] = x}
<1>8. 0 \in T
  BY <1>5, <1>6, ChunksFinite
<1>9. ASSUME NEW d \in 1 .. N, d - 1 \in T PROVE d \in T
  <2>0. d \in 0 .. N
    BY ChunksFinite
  <2>1. CASE d < e
    BY <2>0, <2>1
  <2>2. CASE d = e
    BY <1>6, <2>0, <2>2
  <2>3. CASE d > e
    <3>1. ~(d - 1 < e)
      BY <1>5, <2>3, ChunksFinite
    <3>2. at[d - 1] = x
      BY <1>9, <3>1
    <3>3. at[d] = x
      BY <1>1, <1>7, <3>2
    <3> QED BY <2>0, <3>3
  <2> QED BY <1>5, <2>1, <2>2, <2>3, ChunksFinite
<1> HIDE DEF T
<1>10. 0 .. N \subseteq T
  BY <1>8, <1>9, ChunksFinite, Climb
<1>11. at[N] = x
  BY <1>5, <1>10, ChunksFinite DEF T
<1> QED BY <1>1, <1>3, <1>11 DEF found, N

\* The place the search for a size that is not there ends at is free.
LEMMA FreePlace ==
  ASSUME Typed, Mapped, NEW dep, NEW reg, Trie(dep, reg), NEW s \in Sizes, ~isSmall(s), found(s) = null,
         computeTreeIndex(s) \in tree_map, NEW d,
         d = CHOOSE e \in Depth : search(s)[e] = null /\ (e = 0 \/ search(s)[e - 1] # null)
  PROVE  /\ d - 1 \in 0 .. N /\ search(s)[d - 1] \in Node /\ turn(s, d - 1) \in 0 .. 1
         /\ child[search(s)[d - 1]][turn(s, d - 1)] = null
         /\ s \in Turned(reg[search(s)[d - 1]], dep[search(s)[d - 1]], turn(s, d - 1))
<1>1. PICK at : at = search(s)
  OBVIOUS
<1>2. PICK i \in TreeIndex : i = computeTreeIndex(s)
  BY Indexes
<1>3. /\ at \in [0 .. N -> Links] /\ at[0] = tree_bins[i]
      /\ \A e \in 1 .. N : at[e] = IF at[e - 1] = null \/ size[at[e - 1]] = s THEN at[e - 1]
                                   ELSE child[at[e - 1]][turn(s, e - 1)]
  BY <1>1, <1>2, SearchSteps
<1>4. at[0] # null /\ at[N] = null
  BY <1>1, <1>2, <1>3 DEF Mapped, found, N
<1> DEFINE Free(e) == at[e] = null /\ (e = 0 \/ at[e - 1] # null)
           ends == {e \in Depth : at[e] = null}
<1>5. \E e \in Depth : Free(e)
  <2>1. ends \in SUBSET Nat /\ ends # {}
    BY <1>4, ChunksFinite
  <2>2. PICK e \in ends : \A f \in ends : e =< f
    <3> HIDE DEF ends
    <3> QED BY <2>1, Least
  <2>3. e \in 1 .. N /\ e - 1 \in Depth /\ e - 1 < e
    BY <1>4, <2>2, ChunksFinite
  <2>4. e - 1 \notin ends
    BY <2>2, <2>3, ChunksFinite
  <2> QED BY <2>2, <2>3, <2>4
<1>6. d \in Depth /\ Free(d)
  <2>1. d = CHOOSE e \in Depth : Free(e)
    BY <1>1
  <2> HIDE DEF Free
  <2> QED BY <1>5, <2>1
<1>7. d \in 1 .. N /\ at[d - 1] # null /\ at[d] = null
  <2>1. d # 0
    <3> SUFFICES ASSUME d = 0 PROVE FALSE
      OBVIOUS
    <3>1. at[0] = null
      BY <1>6
    <3> QED BY <1>4, <3>1
  <2>2. d \in 0 .. N /\ N \in Nat
    BY <1>6, ChunksFinite
  <2>3. at[d] = null /\ (d = 0 \/ at[d - 1] # null)
    BY <1>6
  <2> QED BY <2>1, <2>2, <2>3
<1>8. d - 1 \in 0 .. N
  BY <1>7, ChunksFinite
<1>9. PICK x : x = at[d - 1]
  OBVIOUS
<1>10. x \in Node /\ s \in reg[x] /\ (dep[x] = d - 1 \/ size[x] = s) /\ x # null
  BY <1>1, <1>7, <1>8, <1>9, SearchIn
<1>11. size[x] # s /\ child[x][turn(s, d - 1)] = null
  <2>1. at[d] = IF x = null \/ size[x] = s THEN x ELSE child[x][turn(s, d - 1)]
    BY <1>3, <1>7, <1>9
  <2> QED BY <1>7, <1>10, <2>1
<1>12. dep[x] = d - 1 /\ s \in Turned(reg[x], dep[x], turn(s, d - 1))
  BY <1>10, <1>11 DEF Turned
<1> QED BY <1>1, <1>8, <1>9, <1>10, <1>11, <1>12, Indexes

-----------------------------------------------------------------------------
(* Ways down *)

\* The leaf that takes the place of c is below it.
LEMMA LeafBelow ==
  ASSUME Typed, NEW dep, NEW reg, Trie(dep, reg), NEW c \in Node, children(c) # {}, NEW r, r = replacement(c)
  PROVE  r \in Node /\ r # c /\ reg[r] \subseteq reg[c] /\ r \notin {tree_bins[i] : i \in TreeIndex}
         /\ \A j \in 0 .. 1 : child[r][j] = null
<1>1. PICK at : at = descent(c)
  OBVIOUS
<1>2. /\ at \in [0 .. N -> Chunk] /\ at[0] = c
      /\ \A d \in 1 .. N : at[d] = IF children(at[d - 1]) = {} THEN at[d - 1]
                                   ELSE IF child[at[d - 1]][1] # null THEN child[at[d - 1]][1] ELSE child[at[d - 1]][0]
  <2>1. c \in Chunk
    BY TrieFacts
  <2> QED BY <1>1, <2>1, DescentSteps
<1>3. r = at[N] /\ dep[c] \in Nat /\ N \in Nat /\ dep[c] + 1 =< N /\ \A x \in Node : dep[x] \in Nat
  <2>1. \A x \in Node : dep[x] \in Nat /\ dep[x] + 1 =< N
    BY TrieFacts
  <2>2. r = at[N]
    BY <1>1 DEF replacement, N
  <2> QED BY <2>1, <2>2, ChunksFinite
<1> DEFINE Good(d) == /\ at[d] \in Node /\ reg[at[d]] \subseteq reg[c]
                      /\ dep[at[d]] = dep[c] + d \/ (children(at[d]) = {} /\ dep[at[d]] > dep[c])
           T == {d \in 0 .. N : Good(d)}
<1>4. 0 \in T
  BY <1>2, <1>3
<1>5. ASSUME NEW d \in 1 .. N, d - 1 \in T PROVE d \in T
  <2>1. PICK x : x = at[d - 1]
    OBVIOUS
  <2>2. /\ x \in Node /\ reg[x] \subseteq reg[c]
        /\ dep[x] = dep[c] + (d - 1) \/ (children(x) = {} /\ dep[x] > dep[c])
    BY <1>5, <2>1
  <2>3. at[d] = IF children(x) = {} THEN x ELSE IF child[x][1] # null THEN child[x][1] ELSE child[x][0]
    BY <1>2, <2>1
  <2>4. d \in 0 .. N
    BY ChunksFinite
  <2>5. CASE children(x) = {}
    <3>1. x = c => FALSE
      BY <2>5
    <3>2. dep[x] > dep[c]
      <4>1. CASE d = 1
        BY <1>2, <2>1, <3>1, <4>1
      <4>2. CASE d # 1
        BY <1>3, <2>2, <4>2
      <4> QED BY <4>1, <4>2
    <3> QED BY <2>2, <2>3, <2>4, <2>5, <3>2
  <2>6. CASE children(x) # {}
    <3>1. dep[x] = dep[c] + (d - 1)
      BY <2>2, <2>6
    <3>2. PICK j \in 0 .. 1 : at[d] = child[x][j] /\ child[x][j] # null
      <4>1. CASE child[x][1] # null
        BY <2>3, <2>6, <4>1
      <4>2. CASE child[x][1] = null
        <5>1. child[x][0] # null
          BY <2>6, <4>2 DEF children
        <5> QED BY <2>3, <2>6, <4>2, <5>1
      <4> QED BY <4>1, <4>2
    <3>3. PICK y : y = at[d]
      OBVIOUS
    <3>4. y \in Node /\ dep[y] = dep[x] + 1 /\ reg[y] = Turned(reg[x], dep[x], j)
      BY <2>2, <3>2, <3>3, TrieFacts
    <3>5. reg[y] \subseteq reg[c] /\ dep[y] = dep[c] + d
      BY <1>3, <2>2, <3>1, <3>4 DEF Turned
    <3> QED BY <2>4, <3>3, <3>4, <3>5
  <2> QED BY <2>5, <2>6
<1> HIDE DEF T
<1>6. 0 .. N \subseteq T
  BY <1>3, <1>4, <1>5, Climb
<1>7. Good(N)
  BY <1>3, <1>6 DEF T
<1>8. r \in Node /\ reg[r] \subseteq reg[c] /\ children(r) = {} /\ dep[r] > dep[c]
  <2>1. dep[r] + 1 =< N
    BY <1>3, <1>7, TrieFacts
  <2> QED BY <1>3, <1>7, <2>1
<1>9. \A j \in 0 .. 1 : child[r][j] = null
  <2>1. child[r][0] = null /\ child[r][1] = null
    BY <1>8 DEF children
  <2>2. \A j \in 0 .. 1 : j = 0 \/ j = 1
    OBVIOUS
  <2> QED BY <2>1, <2>2
<1>10. \A i \in TreeIndex : r # tree_bins[i]
  <2> SUFFICES ASSUME NEW i \in TreeIndex, r = tree_bins[i] PROVE FALSE
    OBVIOUS
  <2>1. dep[r] = 0
    BY <1>8, TrieFacts
  <2> QED BY <1>3, <1>8, <2>1
<1> QED BY <1>3, <1>8, <1>9, <1>10

\* treeAllocSmall takes a node.
LEMMA BestFitIsNode ==
  ASSUME Typed, Mapped, NEW dep, NEW reg, Trie(dep, reg), tree_map # {}, NEW nb \in Needs
  PROVE  bestFit(nb) \in Node
<1>1. \A i \in tree_map : tree_bins[i] # null /\ i \in TreeIndex
  BY DEF Mapped, Typed
<1>2. PICK g, i, e : /\ i \in tree_map /\ g \in [0 .. N -> Links] /\ g[0] = tree_bins[i]
                     /\ \A d \in 1 .. N : g[d] = IF g[d - 1] = null THEN null ELSE leftmostChild(g[d - 1])
                     /\ e \in 0 .. N /\ g[e] # null /\ bestFit(nb) = g[e]
  BY <1>1, BestFitWay
<1> DEFINE T == {d \in 0 .. N : g[d] # null => g[d] \in Node}
<1>3. 0 \in T
  BY <1>1, <1>2, TrieFacts, ChunksFinite
<1>4. ASSUME NEW d \in 1 .. N, d - 1 \in T PROVE d \in T
  <2>1. PICK x : x = g[d - 1]
    OBVIOUS
  <2>2. (x # null => x \in Node) /\ g[d] = (IF x = null THEN null ELSE leftmostChild(x)) /\ d \in 0 .. N
    BY <1>2, <1>4, <2>1, ChunksFinite
  <2>3. x \in Node => leftmostChild(x) \in Node \cup {null}
    BY TrieFacts DEF leftmostChild
  <2> QED BY <2>2, <2>3
<1> HIDE DEF T
<1>5. 0 .. N \subseteq T
  BY <1>3, <1>4, ChunksFinite, Climb
<1> QED BY <1>2, <1>5 DEF T

\* Every chunk of trie i is of its sizes.
LEMMA NodesInBin ==
  ASSUME Typed, NEW dep, NEW reg, Trie(dep, reg), NEW i \in TreeIndex
  PROVE  \A x \in nodes(i) : x \in Node /\ reg[x] \subseteq OfBin(i)
<1>1. PICK g : /\ g \in [0 .. N -> SUBSET Chunk] /\ nodes(i) = g[N] /\ g[0] = {tree_bins[i]} \ {null}
               /\ \A d \in 1 .. N : g[d] = g[d - 1] \cup UNION {children(c) : c \in g[d - 1]}
  BY NodesSteps
<1> DEFINE Good(x) == x \in Node /\ reg[x] \subseteq OfBin(i)
           T == {d \in 0 .. N : \A x \in g[d] : Good(x)}
<1>2. 0 \in T
  BY <1>1, TrieFacts, ChunksFinite
<1>3. ASSUME NEW d \in 1 .. N, d - 1 \in T PROVE d \in T
  <2> SUFFICES ASSUME NEW x \in g[d] PROVE Good(x)
    BY ChunksFinite
  <2>1. \A y \in g[d - 1] : Good(y)
    BY <1>3
  <2>2. CASE x \in g[d - 1]
    BY <2>1, <2>2
  <2>3. CASE x \notin g[d - 1]
    <3>1. PICK y \in g[d - 1] : x \in children(y)
      BY <1>1, <2>3
    <3>2. PICK j \in 0 .. 1 : x = child[y][j] /\ x # null
      BY <3>1 DEF children
    <3>3. y \in Node /\ reg[y] \subseteq OfBin(i)
      BY <2>1
    <3>4. x \in Node /\ reg[x] = Turned(reg[y], dep[y], j)
      BY <3>2, <3>3, TrieFacts
    <3> QED BY <3>3, <3>4 DEF Turned
  <2> QED BY <2>2, <2>3
<1> HIDE DEF T
<1>4. 0 .. N \subseteq T
  BY <1>2, <1>3, ChunksFinite, Climb
<1> QED BY <1>1, <1>4, ChunksFinite DEF T

-----------------------------------------------------------------------------
(* The steps and the tries *)

\* Steps on chunks that are no nodes leave the tries as they are.
LEMMA TrieStays ==
  ASSUME Typed, NEW dep, NEW reg, Trie(dep, reg), NEW c \in Chunk, parent[c] = null,
         parent' = parent, child' = child, tree_bins' = tree_bins,
         \A x \in Chunk \ {c} : size'[x] = size[x],
         c \in treeBinned' => \E x \in Node : size[x] = size'[c]
  PROVE  Trie(dep, reg)'
<1>1. c \notin Node
  BY DEF Node
<1>2. \A x \in Chunk \ {c} : x \in treeBinned' <=> x \in treeBinned
  BY DEF treeBinned, binned
<1>3. Node' = Node
  <2>1. Node \subseteq Chunk /\ Node' \subseteq Chunk
    BY DEF Node, treeBinned, binned
  <2>2. \A x \in Chunk : x \in Node' <=> x \in Node
    BY <1>2 DEF Node
  <2> QED BY <2>1, <2>2
<1>4. \A x \in Node : size'[x] = size[x]
  BY <1>1, TrieFacts
<1>5. Shape(Node, size', parent, child, tree_bins, dep, reg)
  BY <1>4 DEF Trie, Shape, NodeShape
<1>6. \A x \in Chunk \ treeBinned' : parent[x] = null
  BY <1>2 DEF Trie
<1>7. \A x \in treeBinned' : \E y \in Node : size'[y] = size'[x]
  <2> SUFFICES ASSUME NEW x \in treeBinned' PROVE \E y \in Node : size'[y] = size'[x]
    OBVIOUS
  <2>1. CASE x = c
    BY <1>4, <2>1
  <2>2. CASE x # c
    <3>1. x \in Chunk \ {c}
      BY <2>2 DEF treeBinned, binned
    <3>2. PICK y \in Node : size[y] = size[x]
      BY <1>2, <3>1 DEF Trie
    <3> QED BY <1>4, <3>1, <3>2
  <2> QED BY <2>1, <2>2
<1>8. \A x, y \in Node : size'[x] = size'[y] => x = y
  BY <1>4 DEF Trie
<1> QED BY <1>3, <1>5, <1>6, <1>7, <1>8 DEF Trie

\* handOver gives the place of c to r.
LEMMA HandOverReplaces ==
  ASSUME Typed, NEW dep, NEW reg, NEW c, NEW r, NEW M, NEW below,
         Shape(M, size, parent, below, tree_bins, dep, reg),
         below \in [Chunk -> [0 .. 1 -> Links]], parent[c] # null, \A x \in M : size[x] \in Sizes /\ ~isSmall(size[x]),
         c \in M, r \in Chunk \ M, size[r] \in reg[c], size' = [size EXCEPT ![c] = 0],
         handOver(c, r, below[c], below)
  PROVE  /\ Replaced(M, c, r, size, parent, below, tree_bins, size', parent', child', tree_bins', reg)
         /\ parent'[c] = null /\ \A x \in Chunk \ (M \cup {r}) : parent'[x] = parent[x]
         /\ tree_map' = tree_map
<1>0. /\ NodeShape(M, size, dep, reg) /\ ParentShape(M, parent, below, tree_bins)
      /\ RootShape(M, parent, tree_bins, dep, reg) /\ KidShape(M, parent, below, dep, reg)
  BY DEF Shape
<1>1. M \subseteq Chunk /\ c # r /\ c # null /\ r # null /\ M \cap TreeIndex = {} /\ null \notin M /\ c \in Chunk
  BY <1>0, BinsAssumption, Indexes DEF NodeShape
<1>2. PICK i \in TreeIndex : i = computeTreeIndex(size[c])
  BY Indexes
<1>3. PICK p : p = parent[c]
  OBVIOUS
<1>4. /\ p \in TreeIndex \cup M
      /\ p \in TreeIndex => tree_bins[p] = c
      /\ p \in M => \E j \in 0 .. 1 : below[p][j] = c
  BY <1>0, <1>3 DEF ParentShape
<1>5. \A k \in TreeIndex : tree_bins[k] = c => k = p /\ k = i
  <2> SUFFICES ASSUME NEW k \in TreeIndex, tree_bins[k] = c PROVE k = p /\ k = i
    OBVIOUS
  <2>1. p = k /\ reg[c] = OfBin(k) /\ size[c] \in reg[c]
    BY <1>0, <1>3 DEF RootShape, NodeShape
  <2> QED BY <1>2, <2>1 DEF OfBin
<1>6. \A x \in Chunk, j \in 0 .. 1 : below[x][j] = c => x \in M /\ x = p
  <2> SUFFICES ASSUME NEW x \in Chunk, NEW j \in 0 .. 1, below[x][j] = c PROVE x \in M /\ x = p
    OBVIOUS
  <2>1. x \in M
    BY <1>0, <1>1 DEF KidShape
  <2> QED BY <1>0, <1>3, <2>1 DEF KidShape
<1>7. c = tree_bins[i] <=> p \notin M
  <2>1. c = tree_bins[i] => p \notin M
    BY <1>1, <1>2, <1>5
  <2>2. p \notin M => c = tree_bins[i]
    <3> SUFFICES ASSUME p \notin M PROVE c = tree_bins[i]
      OBVIOUS
    <3>1. p \in TreeIndex /\ tree_bins[p] = c
      BY <1>4
    <3>2. p = i
      BY <1>5, <3>1
    <3> QED BY <3>1, <3>2
  <2> QED BY <2>1, <2>2
<1>8. /\ c = tree_bins[i] => tree_bins' = [tree_bins EXCEPT ![i] = r] /\ tree_map' = tree_map
      /\ c # tree_bins[i] => tree_bins' = tree_bins /\ tree_map' = tree_map
      /\ child' = [x \in Chunk |->
              IF x = c THEN [j \in 0 .. 1 |-> null]
              ELSE IF x = r THEN [j \in 0 .. 1 |-> IF below[c][j] # null THEN below[c][j] ELSE below[x][j]]
              ELSE IF x = p /\ c # tree_bins[i]
              THEN [below[x] EXCEPT ![IF below[x][0] = c THEN 0 ELSE 1] = r]
              ELSE below[x]]
      /\ parent' = [x \in Chunk |->
              IF x = c THEN null
              ELSE IF x = r THEN p
              ELSE IF r # null /\ x \in {below[c][0], below[c][1]} THEN r
              ELSE parent[x]]
  BY <1>1, <1>2, <1>3 DEF handOver
<1>9. \A k \in TreeIndex : tree_bins'[k] = IF tree_bins[k] = c THEN r ELSE tree_bins[k]
  BY <1>2, <1>5, <1>8 DEF Typed
<1>10. ASSUME NEW x \in Chunk, NEW j \in 0 .. 1
       PROVE  child'[x][j] = IF x = c THEN null
                             ELSE IF x = r THEN below[c][j]
                             ELSE IF below[x][j] = c THEN r ELSE below[x][j]
  <2>1. CASE x = c
    BY <1>8, <2>1
  <2>2. CASE x = r
    <3>1. below[x][j] = null
      BY <1>0, <2>2 DEF KidShape
    <3>2. child'[x] = [k \in 0 .. 1 |-> IF below[c][k] # null THEN below[c][k] ELSE below[x][k]]
      BY <1>1, <1>8, <2>2
    <3> QED BY <1>1, <2>2, <3>1, <3>2
  <2>3. CASE x # c /\ x # r /\ x = p /\ c # tree_bins[i]
    <3>1. child'[x] = [below[x] EXCEPT ![IF below[x][0] = c THEN 0 ELSE 1] = r]
      BY <1>8, <2>3
    <3>2. below[x] \in [0 .. 1 -> Links]
      OBVIOUS
    <3>3. PICK k \in 0 .. 1 : below[x][k] = c
      BY <1>4, <1>7, <2>3
    <3>4. ~(below[x][0] = c /\ below[x][1] = c)
      <4> SUFFICES ASSUME below[x][0] = c, below[x][1] = c PROVE FALSE
        OBVIOUS
      <4>1. x \in M /\ 0 \in 0 .. 1 /\ 1 \in 0 .. 1
        BY <1>4, <1>7, <2>3
      <4>2. reg[c] = Turned(reg[x], dep[x], 0) /\ reg[c] = Turned(reg[x], dep[x], 1)
        BY <1>0, <4>1 DEF KidShape
      <4>3. size[c] \in reg[c]
        BY <1>0 DEF NodeShape
      <4> QED BY <4>2, <4>3 DEF Turned
    <3>5. k = (IF below[x][0] = c THEN 0 ELSE 1)
      BY <3>3, <3>4
    <3>6. child'[x] = [below[x] EXCEPT ![k] = r] /\ (j = k <=> below[x][j] = c)
      <4>1. j = k <=> below[x][j] = c
        <5>1. j = 0 \/ j = 1
          OBVIOUS
        <5>2. k = 0 \/ k = 1
          OBVIOUS
        <5> QED BY <3>3, <3>4, <5>1, <5>2
      <4> QED BY <3>1, <3>5, <4>1
    <3> QED BY <2>3, <3>2, <3>6
  <2>4. CASE x # c /\ x # r /\ ~(x = p /\ c # tree_bins[i])
    <3>1. child'[x] = below[x]
      BY <1>8, <2>4
    <3>2. below[x][j] # c
      BY <1>6, <1>7, <2>4
    <3> QED BY <2>4, <3>1, <3>2
  <2> QED BY <2>1, <2>2, <2>3, <2>4
<1>11. ASSUME NEW x \in M \ {c} PROVE parent'[x] = IF parent[x] = c THEN r ELSE parent[x]
  <2>1. parent'[x] = IF x \in {below[c][0], below[c][1]} THEN r ELSE parent[x]
    BY <1>1, <1>8
  <2>2. x \in {below[c][0], below[c][1]} => parent[x] = c
    BY <1>0 DEF KidShape
  <2>3. parent[x] = c => x \in {below[c][0], below[c][1]}
    <3> SUFFICES ASSUME parent[x] = c PROVE x \in {below[c][0], below[c][1]}
      OBVIOUS
    <3>1. PICK j \in 0 .. 1 : below[c][j] = x
      BY <1>0 DEF ParentShape
    <3>2. j = 0 \/ j = 1
      OBVIOUS
    <3> QED BY <3>1, <3>2
  <2> QED BY <2>1, <2>2, <2>3
<1>12. parent'[r] = parent[c] /\ parent'[c] = null
  BY <1>1, <1>3, <1>8
<1>13. ASSUME NEW x \in Chunk \ (M \cup {r}) PROVE parent'[x] = parent[x]
  <2>1. below[c][0] \in M \cup {null} /\ below[c][1] \in M \cup {null}
    BY <1>0 DEF KidShape
  <2>2. x # null
    BY BinsAssumption
  <2>3. x \notin {below[c][0], below[c][1]} /\ x # c /\ x # r
    BY <2>1, <2>2
  <2> QED BY <1>8, <2>3
<1>14. size'[r] \in reg[c] /\ \A x \in M \ {c} : size'[x] = size[x]
  BY <1>1 DEF Typed
<1>15. Replaced(M, c, r, size, parent, below, tree_bins, size', parent', child', tree_bins', reg)
  BY <1>9, <1>10, <1>11, <1>12, <1>14 DEF Replaced
<1> QED BY <1>8, <1>12, <1>13, <1>15

\* r is of the ring of c, or a node and c alone in its ring. M are the nodes without r, and
\* below their links.
MayReplace(r, c, M, below) ==
  /\ r \in treeBinned /\ r # c
  /\ \/ r \notin Node /\ size[r] = size[c]
     \/ r \in Node /\ \A x \in treeBinned : size[x] = size[c] => x = c
  /\ M = Node \ {r} /\ below \in [Chunk -> [0 .. 1 -> Links]]

Replacing(dep, reg, c, r, M, below) ==
  /\ c \in Node /\ MayReplace(r, c, M, below)
  /\ Shape(M, size, parent, below, tree_bins, dep, reg) /\ size[r] \in reg[c]
  /\ size' = [size EXCEPT ![c] = 0] /\ handOver(c, r, below[c], below)

\* The tries, when a node has given its place to a chunk of its ring or to a leaf below it.
LEMMA TrieAfterReplacement ==
  ASSUME Typed, NEW dep, NEW reg, Trie(dep, reg), NEW c, NEW r, NEW M, NEW below, Replacing(dep, reg, c, r, M, below)
  PROVE  (\E dep2, reg2 : Trie(dep2, reg2))' /\ tree_map' = tree_map
         /\ \A k \in TreeIndex : tree_bins'[k] = IF tree_bins[k] = c THEN r ELSE tree_bins[k]
<1> USE DEF Replacing
<1>a. PICK dep2 : dep2 = Moved(dep, r, dep[c])
  OBVIOUS
<1>b. PICK reg2 : reg2 = Moved(reg, r, reg[c])
  OBVIOUS
<1>1. /\ r \in treeBinned /\ r # c
      /\ \/ r \notin Node /\ size[r] = size[c]
         \/ r \in Node /\ \A x \in treeBinned : size[x] = size[c] => x = c
      /\ \A x : x \in M <=> x \in Node /\ x # r
  BY DEF MayReplace
<1>2. c \in M /\ r \in Chunk \ M /\ c \in Chunk /\ r # null /\ c # null /\ parent[c] # null
  BY <1>1, BinsAssumption DEF Node, treeBinned, binned
<1>3. /\ Replaced(M, c, r, size, parent, below, tree_bins, size', parent', child', tree_bins', reg)
      /\ parent'[c] = null /\ \A x \in Chunk \ (M \cup {r}) : parent'[x] = parent[x]
      /\ tree_map' = tree_map
  <2>1. \A x \in M : size[x] \in Sizes /\ ~isSmall(size[x])
    BY <1>1, TrieFacts
  <2>2. below \in [Chunk -> [0 .. 1 -> Links]]
    BY DEF MayReplace
  <2> QED BY <1>2, <2>1, <2>2, HandOverReplaces
<1>4. Shape((M \ {c}) \cup {r}, size', parent', child', tree_bins', dep2, reg2)
  BY <1>a, <1>b, <1>3, ReplaceKeeps
<1>5. \A x \in Chunk \ {c} : size'[x] = size[x]
  BY DEF Typed
<1>6. treeBinned' = treeBinned \ {c}
  <2>1. size'[c] = 0
    BY <1>2 DEF Typed
  <2> QED BY <1>2, <1>5, <2>1 DEF treeBinned, binned
<1>7. \A x \in (M \ {c}) \cup {r} : parent'[x] # null
  <2>1. \A x \in M : parent[x] # null
    BY <1>1 DEF Node
  <2> QED BY <1>2, <1>3, <2>1 DEF Replaced
<1>8. Node' = (M \ {c}) \cup {r}
  <2>1. Node' = {x \in treeBinned' : parent'[x] # null}
    BY DEF Node
  <2>2. (M \ {c}) \cup {r} \subseteq treeBinned'
    BY <1>1, <1>6 DEF Node
  <2>3. ASSUME NEW x \in treeBinned', x \notin (M \ {c}) \cup {r} PROVE parent'[x] = null
    <3>1. x \in Chunk \ (M \cup {r}) /\ x \notin Node /\ x \in treeBinned
      BY <1>1, <1>6, <2>3 DEF treeBinned, binned
    <3> QED BY <1>3, <3>1 DEF Node
  <2> QED BY <1>7, <2>1, <2>2, <2>3
<1>9. \A x \in Chunk \ treeBinned' : parent'[x] = null
  <2> SUFFICES ASSUME NEW x \in Chunk \ treeBinned' PROVE parent'[x] = null
    OBVIOUS
  <2>1. CASE x = c
    BY <1>3, <2>1
  <2>2. CASE x # c
    <3>1. x \in Chunk \ treeBinned /\ x # r /\ x \notin M
      BY <1>1, <1>6, <2>2 DEF Node
    <3> QED BY <1>3, <3>1 DEF Trie
  <2> QED BY <2>1, <2>2
<1>10. ASSUME NEW x \in treeBinned' PROVE \E y \in Node' : size'[y] = size'[x]
  <2>1. x \in treeBinned /\ x # c /\ x \in Chunk /\ size'[x] = size[x]
    BY <1>5, <1>6 DEF treeBinned, binned
  <2>2. PICK y \in Node : size[y] = size[x]
    BY <2>1 DEF Trie
  <2>3. CASE y # c
    <3>1. y \in Node' /\ y \in Chunk \ {c}
      BY <1>1, <1>8, <2>3, TrieFacts
    <3> QED BY <1>5, <2>1, <2>2, <3>1
  <2>4. CASE y = c
    <3>0. r \notin Node /\ size[r] = size[c]
      BY <1>1, <2>1, <2>2, <2>4
    <3>1. size[r] = size[x] /\ r \in Chunk \ {c} /\ r \in Node'
      BY <1>2, <1>8, <2>2, <2>4, <3>0
    <3> QED BY <1>5, <2>1, <3>1
  <2> QED BY <2>3, <2>4
<1>11. ASSUME NEW x \in Node', NEW y \in Node', size'[x] = size'[y] PROVE x = y
  <2>1. (x \in Node \/ x = r) /\ x # c /\ (y \in Node \/ y = r) /\ y # c
    BY <1>1, <1>8
  <2>2. size[x] = size[y] /\ x # c /\ y # c
    BY <1>2, <1>5, <1>11, <2>1, TrieFacts
  <2>3. \A u, v \in Node : size[u] = size[v] => u = v
    BY DEF Trie
  <2>4. ASSUME NEW u \in Node, u # c, size[u] = size[r] PROVE u = r
    <3>1. CASE r \in Node
      BY <2>3, <2>4, <3>1
    <3>2. CASE r \notin Node
      BY <1>1, <2>3, <2>4, <3>2
    <3> QED BY <3>1, <3>2
  <2> QED BY <2>1, <2>2, <2>3, <2>4
<1>12. Shape(Node', size', parent', child', tree_bins', dep2, reg2)
  BY <1>4, <1>8, Zenon
<1>13. Trie(dep2, reg2)'
  BY <1>9, <1>10, <1>11, <1>12 DEF Trie
<1> QED BY <1>3, <1>13 DEF Replaced

\* The tries, when a node that is alone of its size and has no children is taken out.
LEMMA TrieAfterDrop ==
  ASSUME Typed, NEW dep, NEW reg, Trie(dep, reg), NEW c \in Node, \A j \in 0 .. 1 : child[c][j] = null,
         \A x \in treeBinned : size[x] = size[c] => x = c,
         NEW below, below = child, size' = [size EXCEPT ![c] = 0], handOver(c, null, below[c], below)
  PROVE  /\ Trie(dep, reg)'
         /\ \A k \in TreeIndex : /\ tree_bins'[k] = IF tree_bins[k] = c THEN null ELSE tree_bins[k]
                                 /\ k \in tree_map' <=> k \in tree_map /\ tree_bins[k] # c
         /\ tree_map' \subseteq tree_map
<1>1. c \in Chunk /\ c # null /\ null \notin Node /\ null \notin Chunk
  BY TrieFacts, BinsAssumption
<1>2. PICK i \in TreeIndex : i = computeTreeIndex(size[c])
  BY TrieFacts, Indexes
<1>3. PICK p : p = parent[c]
  OBVIOUS
<1>4. /\ p \in TreeIndex \cup Node
      /\ p \in TreeIndex => tree_bins[p] = c
      /\ p \in Node => \E j \in 0 .. 1 : child[p][j] = c
  BY <1>3, TrieFacts
<1>5. \A k \in TreeIndex : tree_bins[k] = c => k = p /\ k = i
  <2> SUFFICES ASSUME NEW k \in TreeIndex, tree_bins[k] = c PROVE k = p /\ k = i
    OBVIOUS
  <2>1. p = k /\ reg[c] = OfBin(k) /\ size[c] \in reg[c]
    BY <1>3, TrieFacts
  <2> QED BY <1>2, <2>1 DEF OfBin
<1>6. \A x \in Chunk, j \in 0 .. 1 : child[x][j] = c => x \in Node /\ x = p
  <2> SUFFICES ASSUME NEW x \in Chunk, NEW j \in 0 .. 1, child[x][j] = c PROVE x \in Node /\ x = p
    OBVIOUS
  <2>1. x \in Node
    BY <1>1, TrieFacts
  <2> QED BY <1>3, <2>1, TrieFacts
<1>7. c = tree_bins[i] <=> p \notin Node
  <2>1. c = tree_bins[i] => p \notin Node
    BY <1>2, <1>5, TrieFacts
  <2>2. p \notin Node => c = tree_bins[i]
    <3> SUFFICES ASSUME p \notin Node PROVE c = tree_bins[i]
      OBVIOUS
    <3>1. p \in TreeIndex /\ tree_bins[p] = c
      BY <1>4
    <3>2. p = i
      BY <1>5, <3>1
    <3> QED BY <3>1, <3>2
  <2> QED BY <2>1, <2>2
<1>8. /\ c = tree_bins[i] => tree_bins' = [tree_bins EXCEPT ![i] = null] /\ tree_map' = tree_map \ {i}
      /\ c # tree_bins[i] => tree_bins' = tree_bins /\ tree_map' = tree_map
      /\ child' = [x \in Chunk |->
              IF x = c THEN [j \in 0 .. 1 |-> null]
              ELSE IF x = null THEN [j \in 0 .. 1 |-> IF child[c][j] # null THEN child[c][j] ELSE child[x][j]]
              ELSE IF x = p /\ c # tree_bins[i]
              THEN [child[x] EXCEPT ![IF child[x][0] = c THEN 0 ELSE 1] = null]
              ELSE child[x]]
      /\ parent' = [x \in Chunk |-> IF x = c THEN null ELSE IF x = null THEN p ELSE parent[x]]
  BY <1>2, <1>3 DEF handOver
<1>9. \A k \in TreeIndex : /\ tree_bins'[k] = IF tree_bins[k] = c THEN null ELSE tree_bins[k]
                           /\ k \in tree_map' <=> k \in tree_map /\ tree_bins[k] # c
  BY <1>2, <1>5, <1>8 DEF Typed
<1>10. ASSUME NEW x \in Chunk, NEW j \in 0 .. 1
       PROVE  child'[x][j] = IF child[x][j] = c THEN null ELSE child[x][j]
  <2>0. child[x] \in [0 .. 1 -> Links] /\ x # null
    BY <1>1 DEF Typed
  <2>1. CASE x = c
    BY <1>1, <1>8, <2>1
  <2>2. CASE x # c /\ x = p /\ c # tree_bins[i]
    <3>1. child'[x] = [child[x] EXCEPT ![IF child[x][0] = c THEN 0 ELSE 1] = null]
      BY <1>8, <2>0, <2>2
    <3>2. PICK k \in 0 .. 1 : child[x][k] = c
      BY <1>4, <1>7, <2>2
    <3>3. ~(child[x][0] = c /\ child[x][1] = c)
      <4> SUFFICES ASSUME child[x][0] = c, child[x][1] = c PROVE FALSE
        OBVIOUS
      <4>1. x \in Node /\ 0 \in 0 .. 1 /\ 1 \in 0 .. 1
        BY <1>4, <1>7, <2>2
      <4>2. reg[c] = Turned(reg[x], dep[x], 0) /\ reg[c] = Turned(reg[x], dep[x], 1)
        BY <4>1, TrieFacts
      <4>3. size[c] \in reg[c]
        BY TrieFacts
      <4> QED BY <4>2, <4>3 DEF Turned
    <3>4. k = (IF child[x][0] = c THEN 0 ELSE 1)
      BY <3>2, <3>3
    <3>5. child'[x] = [child[x] EXCEPT ![k] = null] /\ (j = k <=> child[x][j] = c)
      <4>1. j = k <=> child[x][j] = c
        <5>1. j = 0 \/ j = 1
          OBVIOUS
        <5>2. k = 0 \/ k = 1
          OBVIOUS
        <5> QED BY <3>2, <3>3, <5>1, <5>2
      <4> QED BY <3>1, <3>4, <4>1
    <3> QED BY <2>0, <3>5
  <2>3. CASE x # c /\ ~(x = p /\ c # tree_bins[i])
    <3>1. child'[x] = child[x]
      BY <1>8, <2>0, <2>3
    <3>2. child[x][j] # c
      BY <1>6, <1>7, <2>3
    <3> QED BY <3>1, <3>2
  <2> QED BY <2>1, <2>2, <2>3
<1>11. /\ \A x \in Chunk \ {c} : parent'[x] = parent[x] /\ size'[x] = size[x]
       /\ parent'[c] = null /\ size'[c] = 0
  BY <1>1, <1>8 DEF Typed
<1>12. Dropped(Node, c, size, parent, child, tree_bins, size', parent', child', tree_bins')
  <2>1. \A x \in Node \ {c} : size'[x] = size[x] /\ parent'[x] = parent[x]
    BY <1>11, TrieFacts
  <2> QED BY <1>9, <1>10, <2>1 DEF Dropped
<1>13. Shape(Node \ {c}, size', parent', child', tree_bins', dep, reg)
  BY <1>12, DropKeeps DEF Trie
<1>14. treeBinned' = treeBinned \ {c} /\ Node' = Node \ {c}
  <2>1. treeBinned' = treeBinned \ {c}
    BY <1>11 DEF treeBinned, binned
  <2> QED BY <1>11, <2>1 DEF Node, treeBinned, binned
<1>15. \A x \in Chunk \ treeBinned' : parent'[x] = null
  BY <1>11, <1>14 DEF Trie
<1>16. ASSUME NEW x \in treeBinned' PROVE \E y \in Node' : size'[y] = size'[x]
  <2>1. x \in treeBinned /\ x # c /\ x \in Chunk
    BY <1>14 DEF treeBinned, binned
  <2>2. PICK y \in Node : size[y] = size[x]
    BY <2>1 DEF Trie
  <2>3. y # c /\ y \in Chunk
    BY <2>1, <2>2, TrieFacts
  <2> QED BY <1>11, <1>14, <2>1, <2>2, <2>3
<1>17. \A x, y \in Node' : size'[x] = size'[y] => x = y
  <2> SUFFICES ASSUME NEW x \in Node', NEW y \in Node', size'[x] = size'[y] PROVE x = y
    OBVIOUS
  <2>1. x \in Node /\ y \in Node /\ x \in Chunk \ {c} /\ y \in Chunk \ {c}
    BY <1>14, TrieFacts
  <2> QED BY <1>11, <2>1 DEF Trie
<1>18. Shape(Node', size', parent', child', tree_bins', dep, reg)
  BY <1>13, <1>14, Zenon
<1>19. Trie(dep, reg)'
  BY <1>15, <1>16, <1>17, <1>18 DEF Trie
<1>20. tree_map' \subseteq tree_map
  BY <1>8
<1> QED BY <1>9, <1>19, <1>20

\* The tries, when a chunk of a new size has come in.
LEMMA TrieAfterAdding ==
  ASSUME Typed, NEW dep, NEW reg, Trie(dep, reg), NEW c \in Chunk, size[c] = 0, NEW s \in Sizes, ~isSmall(s),
         size' = [size EXCEPT ![c] = s], parent'[c] # null, \A x \in Chunk \ {c} : parent'[x] = parent[x],
         \A x \in Node : size[x] # s,
         NEW dep2, NEW reg2, Shape(Node \cup {c}, size', parent', child', tree_bins', dep2, reg2)
  PROVE  Trie(dep2, reg2)'
<1>1. size'[c] = s /\ s > 0 /\ \A x \in Chunk \ {c} : size'[x] = size[x]
  BY BinsAssumption DEF Typed
<1>2. c \notin treeBinned /\ c \notin Node
  BY DEF Node, treeBinned, binned
<1>3. treeBinned' = treeBinned \cup {c} /\ Node' = Node \cup {c}
  <2>1. treeBinned' = treeBinned \cup {c}
    BY <1>1 DEF treeBinned, binned
  <2> QED BY <1>2, <2>1 DEF Node, treeBinned, binned
<1>4. \A x \in Chunk \ treeBinned' : parent'[x] = null
  BY <1>3 DEF Trie
<1>5. ASSUME NEW x \in treeBinned' PROVE \E y \in Node' : size'[y] = size'[x]
  <2>1. CASE x = c
    BY <1>3, <2>1
  <2>2. CASE x # c
    <3>1. x \in treeBinned /\ x \in Chunk
      BY <1>3, <2>2 DEF treeBinned, binned
    <3>2. PICK y \in Node : size[y] = size[x]
      BY <3>1 DEF Trie
    <3>3. y # c /\ y \in Chunk /\ y \in Node'
      BY <1>2, <1>3, TrieFacts
    <3> QED BY <1>1, <2>2, <3>1, <3>2, <3>3
  <2> QED BY <2>1, <2>2
<1>6. ASSUME NEW x \in Node', NEW y \in Node', size'[x] = size'[y] PROVE x = y
  <2>1. \A z \in Node : z \in Chunk \ {c} /\ size'[z] = size[z] /\ size[z] # s
    BY <1>1, <1>2, TrieFacts
  <2>2. \A u, v \in Node : size[u] = size[v] => u = v
    BY DEF Trie
  <2> QED BY <1>1, <1>3, <1>6, <2>1, <2>2
<1>7. Shape(Node', size', parent', child', tree_bins', dep2, reg2)
  BY <1>3, Zenon
<1> QED BY <1>4, <1>5, <1>6, <1>7 DEF Trie

-----------------------------------------------------------------------------
(* The steps and the invariant *)

\* Init: all bins are empty.
LEMMA InitInv == Init => Inv
<1> SUFFICES ASSUME Init PROVE Inv
  OBVIOUS
<1>1. Typed
  BY DEF Init, Typed, Links
<1>2. binned = {} /\ treeBinned = {} /\ Members = SmallIndex /\ Node = {}
  <2>1. \A c \in Chunk : size[c] = 0
    BY DEF Init
  <2>2. binned = {}
    BY <2>1 DEF binned
  <2> QED BY <2>2 DEF treeBinned, Members, Node
<1>3. \A i \in SmallIndex : Ring(i) = {i} /\ key(i) = i /\ i \notin Chunk
  <2>1. \A i \in SmallIndex : key(i) = i
    BY <1>1, Keys
  <2>2. \A i \in SmallIndex : i \notin Chunk
    BY Indexes
  <2> QED BY <1>2, <2>1, <2>2 DEF Ring
<1>4. Ringed
  <2> SUFFICES ASSUME NEW i \in Members PROVE Circle(Ring(key(i)), fd, bk)
    BY DEF Ringed
  <2>1. i \in SmallIndex /\ fd[i] = i /\ bk[i] = i
    BY <1>2, <1>3 DEF Init
  <2>2. Circle({i}, fd, bk)
    BY <2>1, CircleOne
  <2>3. Ring(key(i)) = {i}
    BY <1>3, <2>1
  <2> QED BY <2>2, <2>3, Zenon
<1>5. Mapped
  BY <1>3 DEF Init, Mapped
<1>6. Trie(fd, fd)
  <2>1. NodeShape({}, size, fd, fd) /\ ParentShape({}, parent, child, tree_bins)
    BY DEF NodeShape, ParentShape
  <2>2. RootShape({}, parent, tree_bins, fd, fd) /\ KidShape({}, parent, child, fd, fd)
    BY DEF RootShape, KidShape, Init
  <2>3. Shape({}, size, parent, child, tree_bins, fd, fd)
    BY <2>1, <2>2 DEF Shape
  <2>4. Shape(Node, size, parent, child, tree_bins, fd, fd)
    BY <1>2, <2>3, Zenon
  <2>5. \A c \in Chunk : parent[c] = null
    BY DEF Init
  <2> QED BY <1>2, <2>4, <2>5 DEF Trie
<1> QED BY <1>1, <1>4, <1>5, <1>6 DEF Inv

\* insertChunk, of a small size.
LEMMA InsertSmallKeeps ==
  ASSUME Inv, NEW c \in Chunk, NEW s \in Sizes, isSmall(s), insertChunk(c, s)
  PROVE  Inv'
<1>0. Typed /\ Ringed /\ Mapped
  BY DEF Inv
<1>1. PICK dep, reg : Trie(dep, reg)
  BY DEF Inv
<1>2. PICK i \in SmallIndex : i = getSmallBinIndex(s) /\ i = keyOf(s)
  BY LargeKeys
<1>3. PICK p : p = fd[i]
  OBVIOUS
<1>4. /\ size[c] = 0 /\ size' = [size EXCEPT ![c] = s]
      /\ small_map' = small_map \cup {i}
      /\ fd' = [fd EXCEPT ![i] = c, ![c] = p] /\ bk' = [bk EXCEPT ![p] = c, ![c] = i]
      /\ parent' = parent /\ child' = child /\ tree_bins' = tree_bins /\ tree_map' = tree_map
  BY <1>2, <1>3 DEF insertChunk, insertSmallChunk, trees
<1>5. i \in Members /\ key(i) = keyOf(s) /\ c \notin binned
  BY <1>0, <1>2, <1>4, Keys DEF binned
<1>6. Ringed'
  BY <1>0, <1>3, <1>4, <1>5, JoinKeeps
<1>7. Typed'
  <2>1. p \in Links \cup SmallIndex
    BY <1>0, <1>3 DEF Typed
  <2> QED BY <1>0, <1>4, <2>1 DEF Typed, Links
<1>8. \A k : Ring(k)' = IF k = i THEN Ring(k) \cup {c} ELSE Ring(k)
  BY <1>0, <1>2, <1>4, Arrival
<1>9. Mapped'
  <2>1. \A k \in SmallIndex : k \in small_map' <=> Ring(k)' # {k}
    <3>1. c # i
      BY <1>2, Indexes
    <3>2. Ring(i)' # {i} /\ i \in small_map'
      BY <1>4, <1>8, <3>1
    <3>3. ASSUME NEW k \in SmallIndex, k # i PROVE k \in small_map' <=> Ring(k)' # {k}
      <4>1. Ring(k)' = Ring(k) /\ (k \in small_map' <=> k \in small_map)
        BY <1>4, <1>8, <3>3
      <4> QED BY <1>0, <4>1 DEF Mapped
    <3> QED BY <3>2, <3>3
  <2> QED BY <1>0, <1>4, <2>1 DEF Mapped
<1>10. Trie(dep, reg)'
  <2>1. c \notin treeBinned /\ parent[c] = null
    BY <1>1, <1>5 DEF treeBinned, Trie
  <2>2. size'[c] = s /\ \A x \in Chunk \ {c} : size'[x] = size[x]
    BY <1>0, <1>4 DEF Typed
  <2>3. c \notin treeBinned'
    BY <2>2 DEF treeBinned
  <2> QED BY <1>0, <1>1, <1>4, <2>1, <2>2, <2>3, TrieStays
<1> QED BY <1>6, <1>7, <1>9, <1>10 DEF Inv

\* insertChunk, of a large size.
LEMMA InsertLargeKeeps ==
  ASSUME Inv, NEW c \in Chunk, NEW s \in Sizes, ~isSmall(s), insertChunk(c, s)
  PROVE  Inv'
<1>0. Typed /\ Ringed /\ Mapped
  BY DEF Inv
<1>1. PICK dep, reg : Trie(dep, reg)
  BY DEF Inv
<1>2. keyOf(s) = s /\ s \notin SmallIndex
  BY LargeKeys
<1>3. size[c] = 0 /\ size' = [size EXCEPT ![c] = s] /\ small_map' = small_map /\ insertLargeChunk(c, s)
  BY DEF insertChunk, insertLargeChunk
<1>4. size'[c] = s /\ \A x \in Chunk \ {c} : size'[x] = size[x]
  BY <1>0, <1>3 DEF Typed
<1>5. c \notin binned /\ c \notin treeBinned /\ c \notin Node /\ parent[c] = null /\ c # null
  BY <1>1, <1>3, BinsAssumption DEF binned, treeBinned, Node, Trie
<1>6. \A k \in SmallIndex : Ring(k)' = Ring(k)
  BY <1>0, <1>2, <1>3, Arrival
<1>7. \A k \in SmallIndex : k \in small_map' <=> Ring(k)' # {k}
  BY <1>0, <1>3, <1>6 DEF Mapped
<1>8. CASE computeTreeIndex(s) \in tree_map /\ found(s) # null
  <2>1. PICK n : n = found(s)
    OBVIOUS
  <2>2. PICK p : p = fd[n]
    OBVIOUS
  <2>3. n \in Node /\ size[n] = s
    BY <1>0, <1>1, <1>8, <2>1, SearchEnds
  <2>4. /\ fd' = [fd EXCEPT ![n] = c, ![c] = p] /\ bk' = [bk EXCEPT ![p] = c, ![c] = n]
        /\ parent' = parent /\ child' = child /\ tree_bins' = tree_bins /\ tree_map' = tree_map
    BY <1>3, <1>8, <2>1, <2>2 DEF insertLargeChunk, joinRing, trees
  <2>5. n \in Members /\ key(n) = keyOf(s) /\ n \in Chunk
    BY <1>0, <1>2, <2>3, Keys DEF Members, Node, treeBinned
  <2>6. Ringed'
    BY <1>0, <1>3, <2>2, <2>4, <2>5, JoinKeeps
  <2>7. Typed'
    <3>1. p \in Links \cup SmallIndex
      BY <1>0, <2>2, <2>5 DEF Typed
    <3> QED BY <1>0, <1>3, <2>4, <2>5, <3>1 DEF Typed, Links
  <2>8. Mapped'
    BY <1>0, <1>7, <2>4 DEF Mapped
  <2>9. Trie(dep, reg)'
    BY <1>0, <1>1, <1>4, <1>5, <2>3, <2>4, TrieStays
  <2> QED BY <2>6, <2>7, <2>8, <2>9 DEF Inv
<1>9. CASE ~(computeTreeIndex(s) \in tree_map /\ found(s) # null)
  <2>1. PICK i \in TreeIndex : i = computeTreeIndex(s)
    BY Indexes
  <2>2. addNode(c, s)
    BY <1>3, <1>9 DEF insertLargeChunk
  <2>3. fd' = [fd EXCEPT ![c] = c] /\ bk' = [bk EXCEPT ![c] = c]
    BY <2>2 DEF addNode
  <2>4. found(s) = null
    <3> SUFFICES ASSUME found(s) # null PROVE FALSE
      OBVIOUS
    <3>1. tree_bins[i] = null
      BY <1>0, <1>9, <2>1 DEF Mapped
    <3>2. \A d \in 1 .. N : search(s)[d - 1] = null => search(s)[d] = null
      BY <1>0, <2>1, SearchSteps
    <3> DEFINE T == {d \in 0 .. N : search(s)[d] = null}
    <3>3. 0 \in T
      BY <1>0, <2>1, <3>1, SearchSteps, ChunksFinite
    <3>4. \A d \in 1 .. N : d - 1 \in T => d \in T
      BY <3>2, ChunksFinite
    <3> HIDE DEF T
    <3>5. 0 .. N \subseteq T
      BY <3>3, <3>4, ChunksFinite, Climb
    <3>6. search(s)[N] = null
      BY <3>5, ChunksFinite DEF T
    <3> QED BY <3>6 DEF found, N
  <2>5. \A x \in Node : size[x] # s
    <3> SUFFICES ASSUME NEW x \in Node, size[x] = s PROVE FALSE
      OBVIOUS
    <3>1. found(size[x]) = x /\ x # null
      BY <1>0, <1>1, SearchFinds, TrieFacts
    <3> QED BY <2>4, <3>1
  <2>6. \A n \in Members : key(n) # keyOf(s)
    <3> SUFFICES ASSUME NEW n \in Members, key(n) = s PROVE FALSE
      BY <1>2
    <3>1. n \in binned /\ size[n] \in Sizes /\ keyOf(size[n]) = s
      BY <1>0, <1>2, Keys DEF Members
    <3>2. size[n] = s /\ n \in treeBinned
      BY <1>2, <3>1, LargeKeys DEF treeBinned
    <3> QED BY <1>1, <2>5, <3>2 DEF Trie
  <2>7. Ringed'
    BY <1>0, <1>3, <2>3, <2>6, AloneKeeps
  <2>8. CASE i \notin tree_map
    <3>1. /\ tree_map' = tree_map \cup {i} /\ tree_bins' = [tree_bins EXCEPT ![i] = c]
          /\ parent' = [parent EXCEPT ![c] = i] /\ child' = child
      BY <2>1, <2>2, <2>8 DEF addNode
    <3>2. \A k \in TreeIndex : tree_bins'[k] = IF k = i THEN c ELSE tree_bins[k]
      BY <1>0, <2>1, <3>1 DEF Typed
    <3>3. parent'[c] = i /\ \A x \in Chunk \ {c} : parent'[x] = parent[x]
      BY <1>0, <3>1 DEF Typed
    <3>4. AddedRoot(Node, c, i, size, parent, child, tree_bins, size', parent', child', tree_bins')
      <4>1. s \in OfBin(i) /\ tree_bins[i] = null
        BY <1>0, <2>1, <2>8 DEF OfBin, Mapped
      <4>2. \A x \in Node : x \in Chunk \ {c}
        BY <1>0, <1>1, <1>5, TrieFacts
      <4> QED BY <1>4, <1>5, <3>1, <3>2, <3>3, <4>1, <4>2 DEF AddedRoot
    <3>5. PICK dep2 : dep2 = Moved(dep, c, 0)
      OBVIOUS
    <3>6. PICK reg2 : reg2 = Moved(reg, c, OfBin(i))
      OBVIOUS
    <3>7. Shape(Node, size, parent, child, tree_bins, dep, reg)
      BY <1>1 DEF Trie
    <3>8. Shape(Node \cup {c}, size', parent', child', tree_bins', dep2, reg2)
      BY <3>4, <3>5, <3>6, <3>7, AddRootKeeps
    <3>9. Trie(dep2, reg2)'
      <4>1. parent'[c] # null
        BY <3>3, Indexes
      <4> QED BY <1>0, <1>1, <1>3, <2>5, <3>3, <3>8, <4>1, TrieAfterAdding
    <3>10. Mapped'
      <4>1. \A k \in TreeIndex : k \in tree_map' <=> tree_bins'[k] # null
        BY <1>0, <1>5, <3>1, <3>2 DEF Mapped
      <4> QED BY <1>7, <4>1 DEF Mapped
    <3>11. Typed'
      BY <1>0, <1>3, <2>3, <3>1 DEF Typed, Links
    <3> QED BY <2>7, <3>9, <3>10, <3>11 DEF Inv
  <2>9. CASE i \in tree_map
    <3>0. PICK d : d = CHOOSE e \in Depth : search(s)[e] = null /\ (e = 0 \/ search(s)[e - 1] # null)
      OBVIOUS
    <3>1. PICK p : p = search(s)[d - 1]
      OBVIOUS
    <3>2. PICK j : j = turn(s, d - 1)
      OBVIOUS
    <3>3. p \in Node /\ j \in 0 .. 1 /\ child[p][j] = null /\ s \in Turned(reg[p], dep[p], j)
      BY <1>0, <1>1, <2>1, <2>4, <2>9, <3>0, <3>1, <3>2, FreePlace
    <3>4. /\ child' = [child EXCEPT ![p][j] = c] /\ parent' = [parent EXCEPT ![c] = p]
          /\ tree_bins' = tree_bins /\ tree_map' = tree_map
      BY <2>1, <2>2, <2>9, <3>0, <3>1, <3>2 DEF addNode
    <3>5. p \in Chunk /\ p # null /\ p # c
      BY <1>0, <1>1, <1>5, <3>3, TrieFacts
    <3>6. parent'[c] = p /\ \A x \in Chunk \ {c} : parent'[x] = parent[x]
      BY <1>0, <3>4 DEF Typed
    <3>7. \A x \in Chunk, k \in 0 .. 1 : child'[x][k] = IF x = p /\ k = j THEN c ELSE child[x][k]
      <4> SUFFICES ASSUME NEW x \in Chunk, NEW k \in 0 .. 1
                   PROVE  child'[x][k] = IF x = p /\ k = j THEN c ELSE child[x][k]
        OBVIOUS
      <4>1. child \in [Chunk -> [0 .. 1 -> Links]] /\ child[x] \in [0 .. 1 -> Links]
        BY <1>0 DEF Typed
      <4> QED BY <3>3, <3>4, <3>5, <4>1
    <3>8. AddedBelow(Node, c, p, j, size, parent, child, tree_bins, size', parent', child', tree_bins', dep, reg)
      <4>1. \A x \in Node : x \in Chunk \ {c}
        BY <1>0, <1>1, <1>5, TrieFacts
      <4> QED BY <1>4, <1>5, <3>3, <3>4, <3>6, <3>7, <4>1 DEF AddedBelow
    <3>9. PICK dep2 : dep2 = Moved(dep, c, dep[p] + 1)
      OBVIOUS
    <3>10. PICK reg2 : reg2 = Moved(reg, c, Turned(reg[p], dep[p], j))
      OBVIOUS
    <3>11. Shape(Node, size, parent, child, tree_bins, dep, reg)
      BY <1>1 DEF Trie
    <3>12. Shape(Node \cup {c}, size', parent', child', tree_bins', dep2, reg2)
      BY <3>8, <3>9, <3>10, <3>11, AddBelowKeeps
    <3>13. Trie(dep2, reg2)'
      <4>1. parent'[c] # null
        BY <3>5, <3>6
      <4> QED BY <1>0, <1>1, <1>3, <2>5, <3>6, <3>12, <4>1, TrieAfterAdding
    <3>14. Mapped'
      BY <1>0, <1>7, <3>4 DEF Mapped
    <3>15. Typed'
      <4>1. child' \in [Chunk -> [0 .. 1 -> Links]]
        <5>1. child[p] \in [0 .. 1 -> Links] /\ child \in [Chunk -> [0 .. 1 -> Links]] /\ c \in Links
          BY <1>0, <3>5 DEF Typed, Links
        <5>2. child' = [child EXCEPT ![p] = [child[p] EXCEPT ![j] = c]]
          BY <3>4, <5>1
        <5>3. [child[p] EXCEPT ![j] = c] \in [0 .. 1 -> Links]
          BY <5>1
        <5> QED BY <5>1, <5>2, <5>3
      <4>2. parent' \in [Chunk -> Links \cup TreeIndex]
        BY <1>0, <3>4, <3>5 DEF Typed, Links
      <4>3. /\ size' \in [Chunk -> Sizes \cup {0}]
            /\ fd' \in [Chunk \cup SmallIndex -> Links \cup SmallIndex]
            /\ bk' \in [Chunk \cup SmallIndex -> Links \cup SmallIndex]
        BY <1>0, <1>3, <2>3 DEF Typed, Links
      <4>4. tree_bins' \in [TreeIndex -> Links] /\ small_map' \subseteq SmallIndex /\ tree_map' \subseteq TreeIndex
        BY <1>0, <1>3, <3>4 DEF Typed
      <4> QED BY <4>1, <4>2, <4>3, <4>4 DEF Typed
    <3> QED BY <2>7, <3>13, <3>14, <3>15 DEF Inv
  <2> QED BY <2>8, <2>9
<1> QED BY <1>8, <1>9

\* unlinkSmallChunk.
LEMMA UnlinkSmallKeeps ==
  ASSUME Inv, NEW c \in binned, isSmall(size[c]), takeOut(c), unlinkFrom(c, bk[c])
  PROVE  Inv'
<1>0. Typed /\ Ringed /\ Mapped
  BY DEF Inv
<1>1. PICK dep, reg : Trie(dep, reg)
  BY DEF Inv
<1>2. /\ c \in Chunk /\ size[c] \in Sizes /\ c \in Members /\ c \in Ring(key(c)) /\ c \notin SmallIndex
      /\ key(c) = keyOf(size[c])
  BY <1>0, Keys DEF Members
<1>3. PICK i \in SmallIndex : i = getSmallBinIndex(size[c]) /\ i = key(c)
  BY <1>2, LargeKeys
<1>4. PICK p : p = fd[c]
  OBVIOUS
<1>5. PICK q : q = bk[c]
  OBVIOUS
<1>6. /\ size' = [size EXCEPT ![c] = 0]
      /\ small_map' = IF p = q THEN small_map \ {i} ELSE small_map
      /\ fd' = [fd EXCEPT ![q] = p, ![c] = null] /\ bk' = [bk EXCEPT ![p] = q, ![c] = null]
      /\ parent' = parent /\ child' = child /\ tree_bins' = tree_bins /\ tree_map' = tree_map
  BY <1>3, <1>4, <1>5 DEF takeOut, unlinkFrom, trees
<1>7. Ringed'
  BY <1>0, <1>4, <1>5, <1>6, LeaveKeeps
<1>8. PICK R : R = Ring(i)
  OBVIOUS
<1>9. Circle(R, fd, bk) /\ c \in R /\ i \in R /\ p \in R /\ q \in R /\ c # i
  <2>1. Circle(Ring(key(c)), fd, bk)
    BY <1>0, <1>2 DEF Ringed
  <2>2. p \in Ring(key(c)) /\ q \in Ring(key(c)) /\ i \in Ring(i)
    BY <1>0, <1>2, <1>4, <1>5, RingLinks, Keys
  <2> QED BY <1>2, <1>3, <1>8, <2>1, <2>2
<1>10. Typed'
  <2>1. p \in Links \cup SmallIndex /\ q \in Links \cup SmallIndex
    BY <1>0, <1>2, <1>4, <1>5 DEF Typed
  <2> QED BY <1>0, <1>6, <2>1 DEF Typed, Links
<1>11. \A k : Ring(k)' = Ring(k) \ {c}
  BY <1>0, <1>6, Departure
<1>12. p = q <=> R \ {c} = {i}
  <2>1. ASSUME p = q PROVE R \ {c} = {i}
    <3>0. fd[c] = bk[c]
      BY <1>4, <1>5, <2>1
    <3>1. R = {c, fd[c]}
      BY <1>9, <3>0, CircleOfTwo
    <3> QED BY <1>4, <1>9, <3>1
  <2>2. ASSUME R \ {c} = {i} PROVE p = q
    <3>1. p # c /\ q # c
      <4>1. ASSUME p = c PROVE FALSE
        <5>1. {c} \in SUBSET R /\ {c} # {} /\ \A x \in {c} : fd[x] \in {c}
          BY <1>4, <1>9, <4>1
        <5>2. {c} = R
          BY <1>9, <5>1 DEF Circle
        <5> QED BY <1>9, <5>2
      <4>2. q = c => p = c
        BY <1>4, <1>5, <1>9 DEF Circle
      <4> QED BY <4>1, <4>2
    <3> QED BY <1>9, <2>2, <3>1
  <2> QED BY <2>1, <2>2
<1>13. Mapped'
  <2>1. \A k \in SmallIndex : k \in small_map' <=> Ring(k)' # {k}
    <3>1. i \in small_map
      <4>1. Ring(i) # {i}
        BY <1>8, <1>9
      <4> QED BY <1>0, <4>1 DEF Mapped
    <3>2. i \in small_map' <=> Ring(i)' # {i}
      BY <1>6, <1>8, <1>11, <1>12, <3>1
    <3>3. ASSUME NEW k \in SmallIndex, k # i PROVE k \in small_map' <=> Ring(k)' # {k}
      <4>1. c \notin Ring(k)
        BY <1>3, <3>3 DEF Ring
      <4>2. Ring(k)' = Ring(k)
        BY <1>11, <4>1
      <4>3. k \in small_map' <=> k \in small_map
        BY <1>6, <3>3
      <4> QED BY <1>0, <4>2, <4>3 DEF Mapped
    <3> QED BY <3>2, <3>3
  <2> QED BY <1>0, <1>6, <2>1 DEF Mapped
<1>14. Trie(dep, reg)'
  <2>1. c \notin treeBinned /\ parent[c] = null
    BY <1>1, <1>2 DEF treeBinned, Trie
  <2>2. size'[c] = 0 /\ \A x \in Chunk \ {c} : size'[x] = size[x]
    BY <1>0, <1>2, <1>6 DEF Typed
  <2>3. c \notin treeBinned'
    BY <2>2 DEF treeBinned, binned
  <2> QED BY <1>0, <1>1, <1>2, <1>6, <2>1, <2>2, <2>3, TrieStays
<1> QED BY <1>7, <1>10, <1>13, <1>14 DEF Inv

\* handOver keeps the types.
LEMMA HandOverTyped ==
  ASSUME Typed, NEW c \in Node, NEW r \in Links, NEW below \in [Chunk -> [0 .. 1 -> Links]],
         handOver(c, r, below[c], below),
         /\ size' \in [Chunk -> Sizes \cup {0}]
         /\ fd' \in [Chunk \cup SmallIndex -> Links \cup SmallIndex]
         /\ bk' \in [Chunk \cup SmallIndex -> Links \cup SmallIndex]
         /\ small_map' \subseteq SmallIndex,
         tree_map' \subseteq TreeIndex
  PROVE  Typed'
<1>0. c \in Chunk /\ parent[c] \in Links \cup TreeIndex /\ null \in Links /\ r \in Links \cup TreeIndex
  BY DEF Node, treeBinned, binned, Typed, Links
<1>1. tree_bins' \in [TreeIndex -> Links]
  BY DEF handOver, Typed
<1>2. parent' \in [Chunk -> Links \cup TreeIndex]
  <2>1. \A x \in Chunk : parent[x] \in Links \cup TreeIndex
    BY DEF Typed
  <2>2. parent' = [x \in Chunk |-> parent'[x]] /\ \A x \in Chunk : parent'[x] \in {null, parent[c], r, parent[x]}
    BY DEF handOver
  <2>3. \A x \in Chunk : parent'[x] \in Links \cup TreeIndex
    BY <1>0, <2>1, <2>2
  <2> QED BY <2>2, <2>3
<1>3. child' \in [Chunk -> [0 .. 1 -> Links]]
  <2>1. ASSUME NEW x \in Chunk PROVE child'[x] \in [0 .. 1 -> Links]
    <3>1. below[x] \in [0 .. 1 -> Links] /\ below[c] \in [0 .. 1 -> Links]
      BY <1>0
    <3>2. [j \in 0 .. 1 |-> null] \in [0 .. 1 -> Links]
      BY <1>0
    <3>3. [j \in 0 .. 1 |-> IF below[c][j] # null THEN below[c][j] ELSE below[x][j]] \in [0 .. 1 -> Links]
      BY <3>1
    <3>4. \A k : [below[x] EXCEPT ![k] = r] \in [0 .. 1 -> Links]
      BY <3>1
    <3>5. \/ child'[x] = [j \in 0 .. 1 |-> null]
          \/ child'[x] = [j \in 0 .. 1 |-> IF below[c][j] # null THEN below[c][j] ELSE below[x][j]]
          \/ child'[x] = [below[x] EXCEPT ![IF below[x][0] = c THEN 0 ELSE 1] = r]
          \/ child'[x] = below[x]
      BY DEF handOver
    <3> QED BY <3>1, <3>2, <3>3, <3>4, <3>5
  <2>2. child' = [x \in Chunk |-> child'[x]]
    BY DEF handOver
  <2> QED BY <2>1, <2>2
<1> QED BY <1>1, <1>2, <1>3 DEF Typed

\* unlinkLargeChunk.
LEMMA UnlinkLargeKeeps ==
  ASSUME Inv, NEW c \in treeBinned, takeOut(c), unlinkLargeChunk(c)
  PROVE  Inv'
<1>0. Typed /\ Ringed /\ Mapped
  BY DEF Inv
<1>1. PICK dep, reg : Trie(dep, reg)
  BY DEF Inv
<1>2. /\ c \in binned /\ c \in Chunk /\ size[c] \in Sizes /\ c \in Members /\ ~isSmall(size[c])
      /\ c \in Chunk \cup SmallIndex
      /\ key(c) = size[c] /\ c \in Ring(size[c]) /\ Ring(size[c]) = {x \in binned : size[x] = size[c]}
      /\ \A k \in SmallIndex : c \notin Ring(k)
  <2>1. c \in binned /\ c \in Chunk /\ size[c] \in Sizes /\ c \in Members /\ ~isSmall(size[c])
    BY <1>0, Keys DEF treeBinned, Members
  <2>2. key(c) = size[c] /\ Ring(size[c]) = {x \in binned : size[x] = size[c]}
    BY <1>0, RingSets
  <2>3. \A k \in SmallIndex : c \notin Ring(k)
    BY <2>1, <2>2, LargeKeys DEF Ring
  <2> QED BY <2>1, <2>2, <2>3
<1>3. PICK p : p = fd[c]
  OBVIOUS
<1>4. PICK r : r = bk[c]
  OBVIOUS
<1>5. p \in binned /\ r \in binned /\ size[p] = size[c] /\ size[r] = size[c] /\ bk[p] = c /\ fd[r] = c
  <2>1. p \in Ring(key(c)) /\ r \in Ring(key(c)) /\ bk[p] = c /\ fd[r] = c
    BY <1>0, <1>2, <1>3, <1>4, RingLinks
  <2> QED BY <1>2, <2>1
<1>6. size' = [size EXCEPT ![c] = 0] /\ size'[c] = 0 /\ \A x \in Chunk \ {c} : size'[x] = size[x]
  BY <1>0, <1>2 DEF takeOut, Typed
<1>7. \A k \in SmallIndex : Ring(k)' = Ring(k)
  <2>1. \A k : Ring(k)' = Ring(k) \ {c}
    BY <1>0, <1>2, <1>6, Departure
  <2> QED BY <1>2, <2>1
<1>8. treeBinned' = treeBinned \ {c}
  BY <1>6 DEF treeBinned, binned
<1>9. /\ p \in Chunk \cup SmallIndex /\ r \in Chunk \cup SmallIndex
      /\ p \in Links /\ r \in Links /\ r \in treeBinned /\ r \in Chunk
  BY <1>2, <1>5 DEF Links, binned, treeBinned
<1>10. CASE r # c
  <2>1. /\ bk' = [bk EXCEPT ![p] = r, ![c] = null] /\ fd' = [fd EXCEPT ![r] = p, ![c] = null]
        /\ small_map' = small_map
        /\ parent[c] = null => parent' = parent /\ child' = child /\ tree_bins' = tree_bins /\ tree_map' = tree_map
        /\ parent[c] # null => handOver(c, r, child[c], child)
    BY <1>3, <1>4, <1>10 DEF unlinkLargeChunk, trees
  <2>2. Ringed'
    BY <1>0, <1>2, <1>3, <1>4, <1>6, <2>1, LeaveKeeps
  <2>3. \A k \in SmallIndex : k \in small_map' <=> Ring(k)' # {k}
    BY <1>0, <1>7, <2>1 DEF Mapped
  <2>4. /\ size' \in [Chunk -> Sizes \cup {0}]
        /\ fd' \in [Chunk \cup SmallIndex -> Links \cup SmallIndex]
        /\ bk' \in [Chunk \cup SmallIndex -> Links \cup SmallIndex]
        /\ small_map' \subseteq SmallIndex
    BY <1>0, <1>6, <1>9, <2>1 DEF Typed, Links
  <2>5. CASE parent[c] = null
    <3>1. Trie(dep, reg)'
      <4>1. c \notin treeBinned'
        BY <1>8
      <4> QED BY <1>0, <1>1, <1>2, <1>6, <2>1, <2>5, <4>1, TrieStays
    <3>2. Mapped' /\ Typed'
      BY <1>0, <2>1, <2>3, <2>4, <2>5 DEF Mapped, Typed
    <3> QED BY <2>2, <3>1, <3>2 DEF Inv
  <2>6. CASE parent[c] # null
    <3>1. c \in Node
      BY <2>6 DEF Node
    <3>2. r \notin Node
      BY <1>1, <1>5, <1>10, <3>1 DEF Trie
    <3>3. PICK below : below = child
      OBVIOUS
    <3>4. below \in [Chunk -> [0 .. 1 -> Links]] /\ handOver(c, r, below[c], below)
      BY <1>0, <2>1, <2>6, <3>3 DEF Typed
    <3>c. PICK M : M = Node \ {r}
      OBVIOUS
    <3>5. Shape(M, size, parent, below, tree_bins, dep, reg)
      <4>1. M = Node
        BY <3>2, <3>c
      <4>2. Shape(Node, size, parent, below, tree_bins, dep, reg)
        BY <1>1, <3>3 DEF Trie
      <4> QED BY <4>1, <4>2, Zenon
    <3>6. size[r] \in reg[c]
      BY <1>0, <1>1, <1>5, <3>1, TrieFacts
    <3>7. /\ (\E dep2, reg2 : Trie(dep2, reg2))' /\ tree_map' = tree_map
          /\ \A k \in TreeIndex : tree_bins'[k] = IF tree_bins[k] = c THEN r ELSE tree_bins[k]
      <4>1. MayReplace(r, c, M, below)
        BY <1>5, <1>9, <1>10, <3>2, <3>4, <3>c DEF MayReplace
      <4>2. Replacing(dep, reg, c, r, M, below)
        BY <1>6, <3>1, <3>4, <3>5, <3>6, <4>1 DEF Replacing
      <4> QED BY <1>0, <1>1, <4>2, TrieAfterReplacement
    <3>8. Typed'
      <4>1. tree_map' \subseteq TreeIndex
        BY <1>0, <3>7 DEF Typed
      <4> QED BY <1>0, <1>9, <2>4, <3>1, <3>4, <4>1, HandOverTyped
    <3>9. Mapped'
      <4>1. \A k \in TreeIndex : k \in tree_map' <=> tree_bins'[k] # null
        <5>1. r # null /\ c # null
          BY <1>2, <1>9, BinsAssumption
        <5> QED BY <1>0, <3>7, <5>1 DEF Mapped
      <4> QED BY <2>3, <4>1 DEF Mapped
    <3> QED BY <2>2, <3>7, <3>8, <3>9 DEF Inv
  <2> QED BY <2>5, <2>6
<1>11. CASE r = c
  <2>1. p = c
    BY <1>3, <1>5, <1>11
  <2>2. Ring(size[c]) = {c}
    <3>1. Circle(Ring(size[c]), fd, bk)
      BY <1>0, <1>2 DEF Ringed
    <3>2. {c} \in SUBSET Ring(size[c]) /\ {c} # {} /\ \A x \in {c} : fd[x] \in {c}
      BY <1>2, <1>3, <2>1
    <3>3. PICK R : R = Ring(size[c])
      OBVIOUS
    <3>4. R = {c}
      BY <3>1, <3>2, <3>3 DEF Circle
    <3> QED BY <3>3, <3>4
  <2>3. \A x \in treeBinned : size[x] = size[c] => x = c
    BY <1>2, <2>2 DEF treeBinned
  <2>4. c \in Node
    <3>1. PICK x \in Node : size[x] = size[c]
      BY <1>1 DEF Trie
    <3>2. x \in treeBinned
      BY DEF Node
    <3> QED BY <2>3, <3>1, <3>2
  <2>5. PICK l : l = replacement(c)
    OBVIOUS
  <2>6. PICK cut : cut = [x \in Chunk |-> [j \in 0 .. 1 |-> IF child[x][j] = l THEN null ELSE child[x][j]]]
    OBVIOUS
  <2>7. /\ bk' = [bk EXCEPT ![c] = null] /\ fd' = [fd EXCEPT ![c] = null]
        /\ small_map' = small_map /\ handOver(c, l, cut[c], cut)
    BY <1>4, <1>11, <2>5, <2>6 DEF unlinkLargeChunk
  <2>8. Ringed'
    <3>1. fd' = [fd EXCEPT ![r] = p, ![c] = null] /\ bk' = [bk EXCEPT ![p] = r, ![c] = null]
      BY <1>0, <1>11, <2>1, <2>7 DEF Typed
    <3> QED BY <1>0, <1>2, <1>3, <1>4, <1>6, <3>1, LeaveKeeps
  <2>9. \A k \in SmallIndex : k \in small_map' <=> Ring(k)' # {k}
    BY <1>0, <1>7, <2>7 DEF Mapped
  <2>10. /\ size' \in [Chunk -> Sizes \cup {0}]
         /\ fd' \in [Chunk \cup SmallIndex -> Links \cup SmallIndex]
         /\ bk' \in [Chunk \cup SmallIndex -> Links \cup SmallIndex]
         /\ small_map' \subseteq SmallIndex
    BY <1>0, <1>6, <2>7 DEF Typed, Links
  <2>11. cut \in [Chunk -> [0 .. 1 -> Links]]
    <3>1. \A x \in Chunk, j \in 0 .. 1 : child[x][j] \in Links
      BY <1>0 DEF Typed
    <3> QED BY <2>6, <3>1 DEF Links
  <2>12. CASE children(c) = {}
    <3>1. l = null
      BY <2>5, <2>12 DEF replacement
    <3>2. cut = child
      <4>1. child \in [Chunk -> [0 .. 1 -> Links]]
        BY <1>0 DEF Typed
      <4>2. ASSUME NEW x \in Chunk PROVE cut[x] = child[x]
        <5>1. child[x] \in [0 .. 1 -> Links] /\ cut[x] \in [0 .. 1 -> Links]
          BY <2>11, <4>1
        <5>2. \A j \in 0 .. 1 : cut[x][j] = child[x][j]
          BY <2>6, <3>1
        <5> QED BY <5>1, <5>2
      <4> QED BY <2>11, <4>1, <4>2
    <3>3. \A j \in 0 .. 1 : child[c][j] = null
      <4>1. child[c][0] = null /\ child[c][1] = null
        BY <2>12 DEF children
      <4>2. \A j \in 0 .. 1 : j = 0 \/ j = 1
        OBVIOUS
      <4> QED BY <4>1, <4>2
    <3>4. handOver(c, null, cut[c], cut)
      BY <2>7, <3>1
    <3>5. /\ Trie(dep, reg)'
          /\ \A k \in TreeIndex : /\ tree_bins'[k] = IF tree_bins[k] = c THEN null ELSE tree_bins[k]
                                  /\ k \in tree_map' <=> k \in tree_map /\ tree_bins[k] # c
          /\ tree_map' \subseteq tree_map
      BY <1>0, <1>1, <1>6, <2>3, <2>4, <3>2, <3>3, <3>4, TrieAfterDrop
    <3>6. Typed'
      <4>1. null \in Links /\ tree_map' \subseteq TreeIndex
        BY <1>0, <3>5 DEF Links, Typed
      <4> QED BY <1>0, <2>10, <2>11, <2>4, <3>4, <4>1, HandOverTyped
    <3>7. Mapped'
      <4>1. \A k \in TreeIndex : k \in tree_map' <=> tree_bins'[k] # null
        BY <1>0, <3>5 DEF Mapped
      <4> QED BY <2>9, <4>1 DEF Mapped
    <3> QED BY <2>8, <3>5, <3>6, <3>7 DEF Inv
  <2>13. CASE children(c) # {}
    <3>1. /\ l \in Node /\ l # c /\ reg[l] \subseteq reg[c] /\ \A i \in TreeIndex : l # tree_bins[i]
          /\ \A j \in 0 .. 1 : child[l][j] = null
      BY <1>0, <1>1, <2>4, <2>5, <2>13, LeafBelow
    <3>2. Dropped(Node, l, size, parent, child, tree_bins, size, parent, cut, tree_bins)
      BY <2>6, <3>1 DEF Dropped
    <3>c. PICK M : M = Node \ {l}
      OBVIOUS
    <3>3. Shape(M, size, parent, cut, tree_bins, dep, reg)
      <4>1. Shape(Node, size, parent, child, tree_bins, dep, reg)
        BY <1>1 DEF Trie
      <4> QED BY <3>c, <3>2, <4>1, DropKeeps
    <3>4. size[l] \in reg[c] /\ l \in treeBinned /\ l # c /\ l \in Chunk /\ l \in Links
      <4>1. size[l] \in reg[l] /\ l \in treeBinned /\ l \in Chunk
        BY <1>0, <1>1, <3>1, TrieFacts
      <4> QED BY <3>1, <4>1 DEF Links
    <3>5. /\ (\E dep2, reg2 : Trie(dep2, reg2))' /\ tree_map' = tree_map
          /\ \A k \in TreeIndex : tree_bins'[k] = IF tree_bins[k] = c THEN l ELSE tree_bins[k]
      <4>1. MayReplace(l, c, M, cut)
        BY <2>3, <2>11, <3>1, <3>4, <3>c DEF MayReplace
      <4>2. Replacing(dep, reg, c, l, M, cut)
        BY <1>6, <2>4, <2>7, <3>3, <3>4, <4>1 DEF Replacing
      <4> QED BY <1>0, <1>1, <4>2, TrieAfterReplacement
    <3>6. Typed'
      <4>1. tree_map' \subseteq TreeIndex
        BY <1>0, <3>5 DEF Typed
      <4> QED BY <1>0, <2>4, <2>7, <2>10, <2>11, <3>4, <4>1, HandOverTyped
    <3>7. Mapped'
      <4>1. \A k \in TreeIndex : k \in tree_map' <=> tree_bins'[k] # null
        <5>1. l # null /\ c # null
          BY <1>2, <3>4, BinsAssumption
        <5> QED BY <1>0, <3>5, <5>1 DEF Mapped
      <4> QED BY <2>9, <4>1 DEF Mapped
    <3> QED BY <2>8, <3>5, <3>6, <3>7 DEF Inv
  <2> QED BY <2>12, <2>13
<1> QED BY <1>10, <1>11

\* alloc takes the first of a list: the header is behind it.
LEMMA UnlinkFirstKeeps ==
  ASSUME Inv, NEW i \in SmallIndex, unlinkFirstSmallChunk(i)
  PROVE  Inv'
<1>0. Typed /\ Ringed /\ Mapped
  BY DEF Inv
<1>1. PICK c : c = fd[i] /\ takeOut(c) /\ unlinkFrom(c, i) /\ i \in small_map
  BY DEF unlinkFirstSmallChunk
<1>2. i \in Members /\ key(i) = i /\ i \in Ring(i)
  BY <1>0, Keys
<1>3. c \in Members /\ key(c) = i /\ bk[c] = i
  BY <1>0, <1>1, <1>2, RingLinks
<1>4. c # i
  <2> SUFFICES ASSUME c = i PROVE FALSE
    OBVIOUS
  <2>1. PICK R : R = Ring(i)
    OBVIOUS
  <2>2. Circle(R, fd, bk) /\ i \in R
    <3>1. Circle(Ring(key(i)), fd, bk)
      BY <1>0, <1>2 DEF Ringed
    <3> QED BY <1>2, <2>1, <3>1
  <2>3. {i} \in SUBSET R /\ {i} # {} /\ \A x \in {i} : fd[x] \in {i}
    BY <1>1, <2>2
  <2>4. R = {i}
    BY <2>2, <2>3 DEF Circle
  <2> QED BY <1>0, <1>1, <2>1, <2>4 DEF Mapped
<1>5. c \in binned
  <2>1. c \in SmallIndex => c = i
    BY <1>0, <1>3, Keys
  <2> QED BY <1>3, <1>4, <2>1 DEF Members
<1>6. isSmall(size[c])
  BY <1>0, <1>3, <1>5, Keys, LargeKeys
<1>7. unlinkFrom(c, bk[c])
  BY <1>1, <1>3
<1> QED BY <1>1, <1>5, <1>6, <1>7, UnlinkSmallKeeps

\* alloc takes the best fit of the first trie.
LEMMA TreeAllocKeeps ==
  ASSUME Inv, NEW nb \in Needs, treeAllocSmall(nb)
  PROVE  Inv'
<1>1. PICK c : c = bestFit(nb) /\ takeOut(c) /\ unlinkLargeChunk(c) /\ tree_map # {}
  BY DEF treeAllocSmall
<1>2. c \in Node
  BY <1>1, BestFitIsNode DEF Inv
<1>3. c \in treeBinned
  BY <1>2 DEF Node
<1> QED BY <1>1, <1>3, UnlinkLargeKeeps

\* Next: every step keeps the invariant.
LEMMA NextInv == Inv /\ [Next]_vars => Inv'
<1> SUFFICES ASSUME Inv, [Next]_vars PROVE Inv'
  OBVIOUS
<1>1. ASSUME NEW c \in Chunk, NEW s \in Sizes, insertChunk(c, s) PROVE Inv'
  BY <1>1, InsertSmallKeeps, InsertLargeKeeps
<1>2. ASSUME NEW c \in Chunk, unlinkChunk(c) PROVE Inv'
  <2>1. c \in binned /\ takeOut(c)
    BY <1>2 DEF unlinkChunk
  <2>2. CASE isSmall(size[c])
    <3>1. unlinkFrom(c, bk[c])
      BY <1>2, <2>2 DEF unlinkChunk
    <3> QED BY <2>1, <2>2, <3>1, UnlinkSmallKeeps
  <2>3. CASE ~isSmall(size[c])
    <3>1. unlinkLargeChunk(c) /\ c \in treeBinned
      BY <1>2, <2>1, <2>3 DEF unlinkChunk, treeBinned
    <3> QED BY <2>1, <3>1, UnlinkLargeKeeps
  <2> QED BY <2>2, <2>3
<1>3. ASSUME NEW i \in SmallIndex, unlinkFirstSmallChunk(i) PROVE Inv'
  BY <1>3, UnlinkFirstKeeps
<1>4. ASSUME NEW nb \in Needs, treeAllocSmall(nb) PROVE Inv'
  BY <1>4, TreeAllocKeeps
<1>5. CASE UNCHANGED vars
  <2>0. /\ size' = size /\ fd' = fd /\ bk' = bk /\ tree_bins' = tree_bins
        /\ small_map' = small_map /\ tree_map' = tree_map
    BY <1>5 DEF vars, lists, trees
  <2>1. Typed' /\ Ringed' /\ Mapped'
    <3>1. Typed'
      BY <1>5 DEF Inv, Typed, vars, lists, trees
    <3>2. Members' = Members /\ \A n \in Members : key(n)' = key(n)
      BY <2>0 DEF Members, binned, key
    <3>3. \A k : Ring(k)' = Ring(k)
      BY <3>2 DEF Ring
    <3>4. Ringed'
      <4> SUFFICES ASSUME NEW n \in Members PROVE Circle(Ring(key(n))', fd', bk')
        BY <3>2 DEF Ringed
      <4>1. Ring(key(n))' = Ring(key(n)) /\ Circle(Ring(key(n)), fd, bk)
        BY <3>2, <3>3 DEF Inv, Ringed
      <4> QED BY <2>0, <4>1
    <3>5. Mapped'
      BY <2>0, <3>3 DEF Inv, Mapped
    <3> QED BY <3>1, <3>4, <3>5
  <2>2. \A dep, reg : Trie(dep, reg) => Trie(dep, reg)'
    BY <1>5 DEF Trie, Node, treeBinned, binned, vars, lists, trees
  <2> QED BY <2>1, <2>2 DEF Inv
<1> QED BY <1>1, <1>2, <1>3, <1>4, <1>5 DEF Next

-----------------------------------------------------------------------------
(* What the invariant says of the bins *)

\* In every state the links are circles and tries.
THEOREM BinsInvariant == Spec => []Inv
<1>1. Init => Inv
  BY InitInv
<1>2. Inv /\ [Next]_vars => Inv'
  BY NextInv
<1> QED BY <1>1, <1>2, PTL DEF Spec

\* Links lead to chunks and the maps have bits for bins there are.
THEOREM TypeCorrect == Spec => []TypeOK
<1>1. Inv => TypeOK
  <2> SUFFICES ASSUME Inv PROVE TypeOK
    OBVIOUS
  <2>1. /\ small_map \subseteq SmallIndex \cap 0 .. kNumSmallBins - 1
        /\ tree_map \subseteq TreeIndex \cap 0 .. kNumTreeBins - 1
    BY SmallIndexRange, TreeIndexRange DEF Inv, Typed
  <2> QED BY <2>1 DEF Inv, Typed, TypeOK
<1> QED BY <1>1, BinsInvariant, PTL

\* traverseAndCheck and findInBin: a chunk that was inserted and not taken out is in the bin
\* of its size, where the search for its size finds it, and nothing else is there.
THEOREM InsertedIsFound == Spec => []FoundInBin
<1>1. Inv => FoundInBin
  <2> SUFFICES ASSUME Inv PROVE FoundInBin
    OBVIOUS
  <2>0. Typed /\ Ringed
    BY DEF Inv
  <2>1. PICK dep, reg : Trie(dep, reg)
    BY DEF Inv
  <2>2. ASSUME NEW i \in SmallIndex
        PROVE  ring(i) \ {i} = {c \in binned : isSmall(size[c]) /\ getSmallBinIndex(size[c]) = i}
    <3>1. ring(i) = Ring(i)
      <4>1. i \in Members /\ key(i) = i
        BY <2>0, Keys
      <4>2. ring(i) = Ring(key(i))
        BY <2>0, <4>1, RingOf
      <4> QED BY <4>1, <4>2
    <3>2. Ring(i) = {i} \cup {c \in binned : isSmall(size[c]) /\ getSmallBinIndex(size[c]) = i}
      BY <2>0, RingSets
    <3>3. i \notin binned
      BY <2>0, Keys
    <3> QED BY <3>1, <3>2, <3>3
  <2>3. ASSUME NEW c \in treeBinned PROVE ring(c) = {x \in binned : size[x] = size[c]} /\ ring(c) \subseteq treeBinned
    <3>1. c \in Members /\ key(c) = size[c] /\ Ring(size[c]) = {x \in binned : size[x] = size[c]} /\ ~isSmall(size[c])
      BY <2>0, RingSets DEF Members, treeBinned
    <3>2. ring(c) = Ring(key(c))
      BY <2>0, <3>1, RingOf
    <3>3. ring(c) = Ring(size[c])
      BY <3>1, <3>2
    <3> QED BY <3>1, <3>3 DEF treeBinned
  <2>4. ASSUME NEW i \in TreeIndex, NEW n \in nodes(i)
        PROVE  ring(n) \subseteq {c \in treeBinned : computeTreeIndex(size[c]) = i}
    <3>1. n \in Node /\ reg[n] \subseteq OfBin(i)
      BY <2>0, <2>1, NodesInBin
    <3>2. n \in treeBinned /\ size[n] \in reg[n]
      BY <2>0, <2>1, <3>1, TrieFacts
    <3>3. computeTreeIndex(size[n]) = i
      BY <3>1, <3>2 DEF OfBin
    <3> QED BY <2>3, <3>2, <3>3
  <2>5. ASSUME NEW c \in treeBinned PROVE found(size[c]) # null /\ c \in ring(found(size[c]))
    <3>1. PICK x \in Node : size[x] = size[c]
      BY <2>1 DEF Trie
    <3>2. found(size[x]) = x /\ x # null /\ x \in treeBinned
      BY <2>0, <2>1, SearchFinds, TrieFacts
    <3>3. found(size[c]) = x
      BY <3>1, <3>2
    <3>4. c \in ring(x)
      BY <2>3, <3>1, <3>2 DEF treeBinned
    <3> QED BY <3>2, <3>3, <3>4
  <2> QED BY <2>2, <2>4, <2>5 DEF FoundInBin
<1> QED BY <1>1, BinsInvariant, PTL

\* checkSmallbin and checkTreebin: the maps mark the bins that are not empty.
THEOREM BitsAreTrue == Spec => []MapsMarkBins
<1>1. Inv => MapsMarkBins
  <2> SUFFICES ASSUME Inv PROVE MapsMarkBins
    OBVIOUS
  <2>0. Typed /\ Ringed /\ Mapped
    BY DEF Inv
  <2>1. ASSUME NEW i \in SmallIndex PROVE i \in small_map <=> fd[i] # i
    <3>1. PICK R : R = Ring(i)
      OBVIOUS
    <3>2. Circle(R, fd, bk) /\ i \in R
      <4>1. i \in Members /\ key(i) = i /\ i \in Ring(i)
        BY <2>0, Keys
      <4>2. Circle(Ring(key(i)), fd, bk)
        BY <2>0, <4>1 DEF Ringed
      <4> QED BY <3>1, <4>1, <4>2
    <3>3. fd[i] = i => R = {i}
      <4> SUFFICES ASSUME fd[i] = i PROVE R = {i}
        OBVIOUS
      <4>1. {i} \in SUBSET R /\ {i} # {} /\ \A x \in {i} : fd[x] \in {i}
        BY <3>2
      <4> QED BY <3>2, <4>1 DEF Circle
    <3>4. R = {i} => fd[i] = i
      BY <3>2 DEF Circle
    <3>5. i \in small_map <=> R # {i}
      BY <2>0, <3>1 DEF Mapped
    <3> QED BY <3>3, <3>4, <3>5
  <2>2. small_map = {i \in SmallIndex : fd[i] # i}
    BY <2>0, <2>1 DEF Typed
  <2>3. tree_map = {i \in TreeIndex : tree_bins[i] # null}
    BY <2>0 DEF Typed, Mapped
  <2> QED BY <2>2, <2>3 DEF MapsMarkBins
<1> QED BY <1>1, BinsInvariant, PTL

\* checkTree: links go both ways, and a ring has one size and one member with a parent, which
\* is the only one with children.
THEOREM TriesAreSound == Spec => []TreesAreSound
<1>1. Inv => TreesAreSound
  <2> SUFFICES ASSUME Inv PROVE TreesAreSound
    OBVIOUS
  <2>0. Typed /\ Ringed
    BY DEF Inv
  <2>1. PICK dep, reg : Trie(dep, reg)
    BY DEF Inv
  <2>2. \A n \in binned \cup SmallIndex : bk[fd[n]] = n /\ fd[bk[n]] = n
    BY <2>0, RingLinks DEF Members
  <2>3. ASSUME NEW c \in treeBinned
        PROVE  /\ \A x \in children(c) : parent[c] # null /\ parent[x] = c
               /\ parent[c] \in Chunk => c \in children(parent[c])
               /\ parent[c] \in TreeIndex => c = tree_bins[parent[c]]
               /\ \A x \in ring(c) : size[x] = size[c]
               /\ Cardinality({x \in ring(c) : parent[x] # null}) = 1
    <3>1. c \in Chunk /\ c \in Members /\ key(c) = size[c] /\ c # null
          /\ Ring(size[c]) = {x \in binned : size[x] = size[c]} /\ ~isSmall(size[c])
      BY <2>0, RingSets, BinsAssumption DEF Members, treeBinned, binned
    <3>2. ring(c) = {x \in binned : size[x] = size[c]}
      <4>1. ring(c) = Ring(key(c))
        BY <2>0, <3>1, RingOf
      <4>2. ring(c) = Ring(size[c])
        BY <3>1, <4>1
      <4> QED BY <3>1, <4>2
    <3>3. ASSUME NEW x \in children(c) PROVE parent[c] # null /\ parent[x] = c
      <4>1. PICK j \in 0 .. 1 : x = child[c][j] /\ x # null
        BY DEF children
      <4>2. c \in Node
        BY <2>0, <2>1, <3>1, <4>1, TrieFacts
      <4>3. x \in Node /\ parent[x] = c
        BY <2>0, <2>1, <4>1, <4>2, TrieFacts
      <4> QED BY <4>2, <4>3 DEF Node
    <3>4. parent[c] # null => c \in Node
      BY DEF Node
    <3>5. ASSUME parent[c] \in Chunk PROVE c \in children(parent[c])
      <4>1. PICK p : p = parent[c]
        OBVIOUS
      <4>2. p \notin TreeIndex /\ p # null /\ c \in Node
        BY <3>4, <3>5, <4>1, Indexes, BinsAssumption
      <4>3. p \in Node /\ \E j \in 0 .. 1 : child[p][j] = c
        BY <2>0, <2>1, <4>1, <4>2, TrieFacts
      <4>4. PICK j \in 0 .. 1 : child[p][j] = c
        BY <4>3
      <4>5. j = 0 \/ j = 1
        OBVIOUS
      <4>6. c \in children(p)
        BY <3>1, <4>4, <4>5 DEF children
      <4> QED BY <4>1, <4>6
    <3>6. ASSUME parent[c] \in TreeIndex PROVE c = tree_bins[parent[c]]
      <4>1. parent[c] # null
        BY <3>6, Indexes
      <4> QED BY <2>0, <2>1, <3>4, <3>6, <4>1, TrieFacts
    <3>7. PICK n \in Node : size[n] = size[c]
      BY <2>1 DEF Trie
    <3>8. {x \in ring(c) : parent[x] # null} = {n}
      <4>1. n \in ring(c) /\ parent[n] # null
        BY <3>2, <3>7 DEF Node, treeBinned
      <4>2. ASSUME NEW x \in ring(c), parent[x] # null PROVE x = n
        <5>1. x \in Node /\ size[x] = size[n]
          BY <3>1, <3>2, <3>7, <4>2 DEF Node, treeBinned
        <5> QED BY <2>1, <5>1 DEF Trie
      <4> QED BY <4>1, <4>2
    <3>9. Cardinality({x \in ring(c) : parent[x] # null}) = 1
      BY <3>8, FS_Singleton
    <3> QED BY <3>2, <3>3, <3>5, <3>6, <3>9
  <2> QED BY <2>2, <2>3 DEF TreesAreSound
<1> QED BY <1>1, BinsInvariant, PTL
=============================================================================
