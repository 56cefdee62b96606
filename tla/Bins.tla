-------------------------------- MODULE Bins --------------------------------
(***************************************************************************)
(* The bins of a MemorySpace: small bins are circular lists, tree bins are *)
(* bitwise tries whose nodes carry a ring of chunks of the same size.      *)
(* MemAlloc knows of a bin only which chunks are in it; here are the links *)
(* that make it so.  Sizes are bytes, with the widths of the code.         *)
(*                                                                         *)
(* The header of small bin i and the address of tree_bins[i] are written   *)
(* i.  The links of a chunk that is in no bin are null: the code leaves    *)
(* what was there and overwrites all of it when the chunk is inserted.     *)
(***************************************************************************)
EXTENDS Integers, FiniteSets

CONSTANTS
    Chunk,                \* chunks
    null,
    Sizes,                \* sizes a free chunk may have
    Needs                 \* padded requests treeAllocSmall is called with

ASSUME BinsAssumption ==
    /\ IsFiniteSet(Chunk) /\ null \notin Chunk
    /\ (Chunk \cup {null}) \cap Nat = {}
    /\ Sizes \subseteq Nat \ (0 .. 15)
    /\ Needs \subseteq Nat

kNumSmallBins  == 32
kNumTreeBins   == 32
kSmallBinShift == 3
kTreeBinShift  == 8
kSizeTBitSize  == 32

VARIABLES
    size,                 \* the size in the head of a binned chunk, 0 if it is in no bin
    fd, bk,               \* links of chunks and of the headers of small bins
    parent, child,        \* links of tree chunks
    tree_bins,
    small_map, tree_map

lists == <<fd, bk, small_map>>
trees == <<parent, child, tree_bins, tree_map>>
vars  == <<size, lists, trees>>

binned == {c \in Chunk : size[c] > 0}

bit(n, i) == IF i >= 0 /\ (n \div 2^i) % 2 = 1 THEN 1 ELSE 0

\* Slip: one size too many, whose bin has no bit in the map.
isSmallInclusive(s) == s \div 2^kSmallBinShift =< kNumSmallBins

isSmall(s)          == s \div 2^kSmallBinShift < kNumSmallBins
getSmallBinIndex(s) == s \div 2^kSmallBinShift

computeTreeIndex(s) ==
    LET x == s \div 2^kTreeBinShift
        k == CHOOSE i \in 0 .. 15 : 2^i =< x /\ x < 2^(i + 1)
    IN  IF x = 0 THEN 0
        ELSE IF x > 65535 THEN kNumTreeBins - 1
        ELSE 2 * k + bit(s, k + kTreeBinShift - 1)

\* Slip: the shift of the next bin.
leftshiftNextBin(index) == index \div 2 + kTreeBinShift

leftshiftForTreeIndex(index) ==
    IF index = kNumSmallBins - 1 THEN 0 ELSE index \div 2 + kTreeBinShift - 1

\* Which child: the top bit of the shifted size, shifted once more at each level.
turn(s, depth) ==
    bit(s, kSizeTBitSize - 1 - leftshiftForTreeIndex(computeTreeIndex(s)) - depth)

SmallIndex == {getSmallBinIndex(s) : s \in {z \in Sizes : isSmall(z)}}
TreeIndex  == {computeTreeIndex(s) : s \in {z \in Sizes : ~isSmall(z)}}
Depth      == 0 .. Cardinality(Chunk)

children(c) == {child[c][0], child[c][1]} \ {null}

leftmostChild(c) == IF child[c][0] # null THEN child[c][0] ELSE child[c][1]

\* The nodes a search for size s passes: it stops at a node of that size, or at null.
search(s) ==
    LET at[d \in Depth] ==
            IF d = 0 THEN tree_bins[computeTreeIndex(s)]
            ELSE LET c == at[d - 1]
                 IN  IF c = null \/ size[c] = s THEN c ELSE child[c][turn(s, d - 1)]
    IN  at

found(s) == search(s)[Cardinality(Chunk)]

-----------------------------------------------------------------------------
(* Small bins *)

insertSmallChunk(c, s) ==
    LET i       == getSmallBinIndex(s)
        forward == fd[i]
    IN  /\ small_map' = small_map \cup {i}
        /\ fd' = [fd EXCEPT ![i] = c, ![c] = forward]
        /\ bk' = [bk EXCEPT ![forward] = c, ![c] = i]
        /\ UNCHANGED trees

\* Slip: the map keeps its bit.
unlinkFromUnmarked(c, back) ==
    LET forward == fd[c]
    IN  /\ bk' = [bk EXCEPT ![forward] = back, ![c] = null]
        /\ fd' = [fd EXCEPT ![back] = forward, ![c] = null]
        /\ UNCHANGED <<trees, small_map>>

\* unlinkSmallChunk, and unlinkFirstSmallChunk with the header for back.
unlinkFrom(c, back) ==
    LET forward == fd[c]
    IN  /\ small_map' = IF forward = back THEN small_map \ {getSmallBinIndex(size[c])} ELSE small_map
        /\ bk' = [bk EXCEPT ![forward] = back, ![c] = null]
        /\ fd' = [fd EXCEPT ![back] = forward, ![c] = null]
        /\ UNCHANGED trees

-----------------------------------------------------------------------------
(* Tree bins *)

\* Slip: the new chunk of a ring is not linked from behind.
joinRingOneWay(c, node) ==
    /\ fd' = [fd EXCEPT ![node] = c, ![c] = fd[node]]
    /\ bk' = [bk EXCEPT ![c] = node]
    /\ UNCHANGED trees

\* A chunk of the same size is there: the new one joins its ring, with no parent.
joinRing(c, node) ==
    LET front == fd[node]
    IN  /\ fd' = [fd EXCEPT ![node] = c, ![c] = front]
        /\ bk' = [bk EXCEPT ![front] = c, ![c] = node]
        /\ UNCHANGED trees

\* The new chunk is the root, or the child the search would have gone to.
addNode(c, s) ==
    LET i    == computeTreeIndex(s)
        path == search(s)
        d    == CHOOSE e \in Depth : path[e] = null /\ (e = 0 \/ path[e - 1] # null)
    IN  /\ fd' = [fd EXCEPT ![c] = c] /\ bk' = [bk EXCEPT ![c] = c]
        /\ IF i \notin tree_map
           THEN /\ tree_map' = tree_map \cup {i}
                /\ tree_bins' = [tree_bins EXCEPT ![i] = c]
                /\ parent' = [parent EXCEPT ![c] = i]
                /\ UNCHANGED child
           ELSE /\ child' = [child EXCEPT ![path[d - 1]][turn(s, d - 1)] = c]
                /\ parent' = [parent EXCEPT ![c] = path[d - 1]]
                /\ UNCHANGED <<tree_bins, tree_map>>

insertLargeChunk(c, s) ==
    /\ IF computeTreeIndex(s) \in tree_map /\ found(s) # null
       THEN joinRing(c, found(s)) ELSE addNode(c, s)
    /\ UNCHANGED small_map

\* The chunks met going down from c, to the right where there is a right child.
descent(c) ==
    LET at[d \in Depth] ==
            IF d = 0 THEN c
            ELSE LET x == at[d - 1]
                 IN  IF children(x) = {} THEN x
                     ELSE IF child[x][1] # null THEN child[x][1] ELSE child[x][0]
    IN  at

\* The leaf that takes the place of c, null if c has no child.
replacement(c) == IF children(c) = {} THEN null ELSE descent(c)[Cardinality(Chunk)]

\* Slip: the children stay behind.
handOverAlone(c, r, kids, below) ==
    LET i == computeTreeIndex(size[c])
    IN  /\ IF c = tree_bins[i]
           THEN /\ tree_bins' = [tree_bins EXCEPT ![i] = r]
                /\ tree_map' = IF r = null THEN tree_map \ {i} ELSE tree_map
           ELSE UNCHANGED <<tree_bins, tree_map>>
        /\ child' = [x \in Chunk |->
              IF x = c THEN [j \in 0 .. 1 |-> null]
              ELSE IF x = parent[c] /\ c # tree_bins[i]
              THEN [j \in 0 .. 1 |-> IF below[x][j] = c THEN r ELSE below[x][j]]
              ELSE below[x]]
        /\ parent' = [parent EXCEPT ![c] = null]

\* c, with kids for children, gives its place under its parent to r.
handOver(c, r, kids, below) ==
    LET i == computeTreeIndex(size[c])
    IN  /\ IF c = tree_bins[i]
           THEN /\ tree_bins' = [tree_bins EXCEPT ![i] = r]
                /\ tree_map' = IF r = null THEN tree_map \ {i} ELSE tree_map
           ELSE UNCHANGED <<tree_bins, tree_map>>
        /\ child' = [x \in Chunk |->
              IF x = c THEN [j \in 0 .. 1 |-> null]
              ELSE IF x = r THEN [j \in 0 .. 1 |-> IF kids[j] # null THEN kids[j] ELSE below[x][j]]
              ELSE IF x = parent[c] /\ c # tree_bins[i]
              THEN [below[x] EXCEPT ![IF below[x][0] = c THEN 0 ELSE 1] = r]
              ELSE below[x]]
        /\ parent' = [x \in Chunk |->
              IF x = c THEN null
              ELSE IF x = r THEN parent[c]
              ELSE IF r # null /\ x \in {kids[0], kids[1]} THEN r
              ELSE parent[x]]

unlinkLargeChunk(c) ==
    IF bk[c] # c
    THEN \* one of a ring: the one behind takes its place, if it has one
         LET r == bk[c]
         IN  /\ bk' = [bk EXCEPT ![fd[c]] = r, ![c] = null]
             /\ fd' = [fd EXCEPT ![r] = fd[c], ![c] = null]
             /\ IF parent[c] = null THEN UNCHANGED trees ELSE handOver(c, r, child[c], child)
             /\ UNCHANGED small_map
    ELSE LET r   == replacement(c)
             cut == [x \in Chunk |-> [j \in 0 .. 1 |-> IF child[x][j] = r THEN null ELSE child[x][j]]]
         IN  /\ bk' = [bk EXCEPT ![c] = null] /\ fd' = [fd EXCEPT ![c] = null]
             /\ handOver(c, r, cut[c], cut)
             /\ UNCHANGED small_map

\* size - nb as an unsigned word: a chunk that is too small seems to leave the most.
unsignedRest(c, nb) == IF size[c] >= nb THEN size[c] - nb ELSE 2^30 + size[c]

\* The first of the best on the way down to the left from the root of the first bin.
bestFit(nb) ==
    LET root == tree_bins[CHOOSE i \in tree_map : \A j \in tree_map : i =< j]
        at[d \in Depth] == IF d = 0 THEN root
                           ELSE IF at[d - 1] = null THEN null ELSE leftmostChild(at[d - 1])
        onWay == {d \in Depth : at[d] # null}
        best  == CHOOSE d \in onWay :
                    /\ \A e \in onWay : unsignedRest(at[d], nb) =< unsignedRest(at[e], nb)
                    /\ \A e \in onWay : e < d => unsignedRest(at[d], nb) < unsignedRest(at[e], nb)
    IN  at[best]

-----------------------------------------------------------------------------
(* What alloc and free do with the bins *)

insertChunk(c, s) ==
    /\ size[c] = 0
    /\ size' = [size EXCEPT ![c] = s]
    /\ IF isSmall(s) THEN insertSmallChunk(c, s) ELSE insertLargeChunk(c, s)

takeOut(c) == size' = [size EXCEPT ![c] = 0]

unlinkChunk(c) ==
    /\ c \in binned /\ takeOut(c)
    /\ IF isSmall(size[c]) THEN unlinkFrom(c, bk[c]) ELSE unlinkLargeChunk(c)

\* alloc takes the first chunk of a small bin.
unlinkFirstSmallChunk(i) ==
    /\ i \in small_map
    /\ \E c \in {fd[i]} : takeOut(c) /\ unlinkFrom(c, i)

treeAllocSmall(nb) ==
    /\ tree_map # {}
    /\ \E c \in {bestFit(nb)} : takeOut(c) /\ unlinkLargeChunk(c)

Init ==
    /\ size = [c \in Chunk |-> 0]
    /\ fd = [n \in Chunk \cup SmallIndex |-> IF n \in Chunk THEN null ELSE n]
    /\ bk = [n \in Chunk \cup SmallIndex |-> IF n \in Chunk THEN null ELSE n]
    /\ parent = [c \in Chunk |-> null]
    /\ child = [c \in Chunk |-> [j \in 0 .. 1 |-> null]]
    /\ tree_bins = [i \in TreeIndex |-> null]
    /\ small_map = {} /\ tree_map = {}

Next ==
    \/ \E c \in Chunk, s \in Sizes : insertChunk(c, s)
    \/ \E c \in Chunk : unlinkChunk(c)
    \/ \E i \in SmallIndex : unlinkFirstSmallChunk(i)
    \/ \E nb \in Needs : treeAllocSmall(nb)

Spec == Init /\ [][Next]_vars

-----------------------------------------------------------------------------
(* Properties *)

\* Links lead to chunks, and every bin has its bit in the map.
Links == Chunk \cup {null}

TypeOK ==
    /\ size \in [Chunk -> Sizes \cup {0}]
    /\ fd \in [Chunk \cup SmallIndex -> Links \cup SmallIndex]
    /\ bk \in [Chunk \cup SmallIndex -> Links \cup SmallIndex]
    /\ parent \in [Chunk -> Links \cup TreeIndex]
    /\ child \in [Chunk -> [0 .. 1 -> Links]]
    /\ tree_bins \in [TreeIndex -> Links]
    /\ small_map \subseteq SmallIndex \cap 0 .. kNumSmallBins - 1
    /\ tree_map \subseteq TreeIndex \cap 0 .. kNumTreeBins - 1

\* Beyond this bin leftshiftForTreeIndex shifts too far, and a left child
\* may be larger than the right one, which checkTree asserts against (line 438).
lastOrdered == 19

treeBinned == {c \in binned : ~isSmall(size[c])}

\* The chunks of a list or ring, following fd from n.
ring(n) ==
    LET at[d \in 0 .. Cardinality(Chunk) + 1] == IF d = 0 THEN n ELSE fd[at[d - 1]]
    IN  {at[d] : d \in DOMAIN at}

\* The nodes of a trie.
nodes(i) ==
    LET at[d \in Depth] == IF d = 0 THEN {tree_bins[i]} \ {null}
                           ELSE at[d - 1] \cup UNION {children(c) : c \in at[d - 1]}
    IN  at[Cardinality(Chunk)]

\* A chunk that was inserted and not taken out is in the bin of its size, and nothing else
\* is (traverseAndCheck).  findInBin finds it: the way down by the bits of its size leads to
\* its ring, whatever was taken out above it.
FoundInBin ==
    /\ \A i \in SmallIndex :
         ring(i) \ {i} = {c \in binned : isSmall(size[c]) /\ getSmallBinIndex(size[c]) = i}
    /\ \A i \in TreeIndex : \A n \in nodes(i) :
         ring(n) \subseteq {c \in treeBinned : computeTreeIndex(size[c]) = i}
    /\ \A c \in treeBinned : found(size[c]) # null /\ c \in ring(found(size[c]))

\* checkSmallbin and checkTreebin: the maps mark the bins that are not empty.
MapsMarkBins ==
    /\ small_map = {i \in SmallIndex : fd[i] # i}
    /\ tree_map = {i \in TreeIndex : tree_bins[i] # null}

\* checkTree: links go both ways; a ring has one size and one member with a
\* parent, and only that one has children.
TreesAreSound ==
    /\ \A n \in binned \cup SmallIndex : bk[fd[n]] = n /\ fd[bk[n]] = n
    /\ \A c \in treeBinned :
         /\ \A x \in children(c) : parent[c] # null /\ parent[x] = c
         /\ parent[c] \in Chunk => c \in children(parent[c])
         /\ parent[c] \in TreeIndex => c = tree_bins[parent[c]]
         /\ \A x \in ring(c) : size[x] = size[c]
         /\ Cardinality({x \in ring(c) : parent[x] # null}) = 1

\* treeAllocSmall takes the smallest of the large chunks, if all are large
\* enough and their bins are ordered.
BestFit ==
    \A nb \in Needs :
        (tree_map # {} /\ \A c \in treeBinned : size[c] >= nb /\ computeTreeIndex(size[c]) =< lastOrdered)
        => \A c \in treeBinned : size[bestFit(nb)] =< size[c]
=============================================================================
