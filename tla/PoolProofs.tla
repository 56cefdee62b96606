------------------------------ MODULE PoolProofs ------------------------------
(***************************************************************************)
(* Theorems about the pool of PoolInLinear: the blocks of the linear       *)
(* allocator share no byte when the lower one is whole, the nodes in the   *)
(* list of a pool that serves share none at all, and the free list         *)
(* implements a pool of the nodes it was threaded through.  These are all  *)
(* the nodes only when there is one, or the links are one node apart.      *)
(***************************************************************************)
EXTENDS PoolInLinear, FiniteSetTheorems, WellFoundedInduction, TLAPS

allVars == <<pool, linear, inLinear>>

-----------------------------------------------------------------------------
(* Arithmetic *)

\* A number rounded up is the next multiple.
LEMMA RoundedUp ==
  ASSUME NEW a \in Int, NEW d \in Nat \ {0}
  PROVE  /\ roundedUp(a, d) \in Int /\ roundedUp(a, d) >= a /\ roundedUp(a, d) < a + d
         /\ aligned(a, d) = roundedUp(a, d)
<1>1. PICK q \in Int : q = (a + d - 1) \div d
  OBVIOUS
<1>2. PICK p \in Int : p = q * d
  OBVIOUS
<1>3. p =< a + d - 1 /\ a + d - 1 < p + d
  <2>1. PICK m \in Int : m = a + d - 1
    OBVIOUS
  <2>2. m = d * (m \div d) + (m % d) /\ m % d \in 0 .. d - 1
    BY <2>1
  <2>3. d * q = p
    BY <1>2
  <2> QED BY <1>1, <2>1, <2>2, <2>3
<1>4. roundedUp(a, d) = p /\ aligned(a, d) = p
  BY <1>1, <1>2 DEF roundedUp, aligned
<1> QED BY <1>3, <1>4

\* A multiple of eight rounded up stays one.
LEMMA RoundedToEight ==
  ASSUME NEW a \in Int, NEW d \in Nat \ {0}, d % 8 = 0
  PROVE  roundedUp(a, d) % 8 = 0
<1>1. PICK e \in Nat : d = 8 * e
  <2>1. d = 8 * (d \div 8) + (d % 8) /\ d \div 8 \in Nat
    OBVIOUS
  <2> QED BY <2>1
<1>2. PICK q \in Int : q = (a + d - 1) \div d
  OBVIOUS
<1>3. PICK f \in Int : f = q * e
  OBVIOUS
<1>4. roundedUp(a, d) = 8 * f
  BY <1>1, <1>2, <1>3 DEF roundedUp
<1> QED BY <1>4

\* What a remainder lies between.
LEMMA Remainder == ASSUME NEW a \in Int, NEW d \in Nat \ {0} PROVE a % d \in 0 .. d - 1
OBVIOUS

\* Behind a whole block, at a distance that is a multiple of eight, there is room for a header.
LEMMA BehindWhole ==
  ASSUME NEW d \in Int, NEW size \in Nat, d >= size, d % 8 = 0, Whole(size)
  PROVE  d >= size + WordSize
BY DEF Whole, WordSize

-----------------------------------------------------------------------------
(* The linear allocator *)

Request(r) ==
  /\ r.size \in Nat /\ r.alignment \in Nat /\ r.offset \in Nat
  /\ r.alignment < 8 \/ r.alignment % 8 = 0

\* The header is not in front of where the pointer was, and offset bytes into the block
\* the address is a multiple of eight.
LEMMA Headers ==
  ASSUME NEW r, Request(r), NEW c \in Int
  PROVE  /\ headerOf(r, c) \in Int /\ headerOf(r, c) >= c
         /\ (headerOf(r, c) + WordSize + r.offset) % 8 = 0
<1> DEFINE al == IF r.alignment < 8 THEN 8 ELSE r.alignment
           off == r.offset + WordSize
<1>1. al \in Nat \ {0} /\ al % 8 = 0 /\ off \in Nat
  BY DEF Request, WordSize
<1>2. headerOf(r, c) = roundedUp(c + off, al) - off
  BY DEF headerOf
<1> HIDE DEF al
<1>3. /\ roundedUp(c + off, al) \in Int /\ roundedUp(c + off, al) >= c + off
      /\ roundedUp(c + off, al) % 8 = 0
  <2>1. PICK s \in Int : s = c + off
    BY <1>1
  <2>2. roundedUp(s, al) \in Int /\ roundedUp(s, al) >= s
    BY <1>1, RoundedUp
  <2>3. roundedUp(s, al) % 8 = 0
    BY <1>1, RoundedToEight
  <2> QED BY <2>1, <2>2, <2>3
<1>4. headerOf(r, c) + WordSize + r.offset = roundedUp(c + off, al)
  BY <1>1, <1>2, <1>3 DEF WordSize, Request
<1> QED BY <1>1, <1>2, <1>3, <1>4

\* Blocks lie behind one another, up to where the pointer is.
InOrder ==
  /\ mCurrent \in Int
  /\ \A b \in given : b.at \in Int /\ b.size \in Nat /\ b.at - WordSize + b.size =< mCurrent
  /\ \A b, c \in given : b.at < c.at => b.at + b.size =< c.at

\* A request moves the pointer on, whether it fits or not.
LEMMA RequestInOrder ==
  ASSUME InOrder, NEW r, Request(r), allocateLinear(r)
  PROVE  InOrder' /\ mCurrent' >= mCurrent
<1>1. PICK h \in Int : h = headerOf(r, mCurrent)
  BY Headers DEF InOrder
<1>2. h >= mCurrent /\ mCurrent' = h + r.size /\ r.size \in Nat
  BY <1>1, Headers DEF InOrder, allocateLinear, after, Request
<1>3. PICK n : n = [at |-> h + WordSize, size |-> r.size]
  OBVIOUS
<1>4. n.at = h + WordSize /\ n.size = r.size
  BY <1>3
<1>5. given' \subseteq given \cup {n}
  BY <1>1, <1>3 DEF allocateLinear, blockOf
<1>6. \A b \in given' : b.at \in Int /\ b.size \in Nat /\ b.at - WordSize + b.size =< mCurrent'
  BY <1>2, <1>4, <1>5 DEF InOrder, WordSize
<1>7. ASSUME NEW b \in given', NEW c \in given', b.at < c.at
      PROVE  b.at + b.size =< c.at
  <2>1. CASE b \in given /\ c \in given
    BY <1>7, <2>1 DEF InOrder
  <2>2. CASE b \in given /\ c = n
    BY <1>2, <1>4, <2>2 DEF InOrder, WordSize
  <2>3. CASE b = n /\ c = n
    <3>1. h + WordSize < h + WordSize
      BY <1>4, <1>7, <2>3
    <3> QED BY <1>1, <3>1 DEF WordSize
  <2>4. CASE b = n /\ c \in given
    <3>1. c.at + c.size =< h + WordSize /\ c.at \in Int /\ c.size \in Nat
      BY <1>2, <2>4 DEF InOrder, WordSize
    <3>2. h + WordSize < c.at
      BY <1>4, <1>7, <2>4
    <3>3. FALSE
      BY <1>1, <3>1, <3>2 DEF WordSize
    <3> QED BY <3>3
  <2> QED BY <1>5, <2>1, <2>2, <2>3, <2>4
<1> QED BY <1>2, <1>6, <1>7 DEF InOrder

\* What blocks in order have to do with bytes.
LEMMA InOrderApart == ASSUME InOrder PROVE BlocksApart
<1> SUFFICES ASSUME NEW b \in given, NEW c \in given,
                    b.at < c.at, (c.at - b.at) % 8 = 0, Whole(b.size)
             PROVE  bytesOf(b) \cap bytesOf(c) = {}
  BY DEF BlocksApart
<1>1. b.at \in Int /\ c.at \in Int /\ b.size \in Nat /\ c.size \in Nat /\ b.at + b.size =< c.at
  BY DEF InOrder
<1>2. c.at - b.at >= b.size + WordSize
  BY <1>1, BehindWhole
<1> QED BY <1>1, <1>2 DEF bytesOf, WordSize

-----------------------------------------------------------------------------
(* The nodes of a pool *)

\* Products keep the order.
LEMMA Product ==
  ASSUME NEW i \in Int, NEW j \in Int, NEW n \in Nat, i =< j
  PROVE  i * n \in Int /\ j * n \in Int /\ i * n =< j * n
<1>1. PICK d \in Nat : j = i + d
  OBVIOUS
<1>2. d * n \in Nat /\ i * n \in Int
  OBVIOUS
<1>3. j * n = i * n + d * n
  BY <1>1
<1> QED BY <1>2, <1>3

\* The nodes lie behind the list's head, and the last one ends in the pool.
LEMMA Layout ==
  ASSUME NEW g \in Geometries
  PROVE  /\ nodeSize(g) \in Nat /\ nodeSize(g) >= PointerSize
         /\ mSize(g) \in Nat /\ g.start \in Nat /\ g.offset \in Nat
         /\ firstNode(g) \in Nat /\ firstNode(g) >= afterList(g)
         /\ afterList(g) \in Nat /\ afterList(g) > PointerSize
         /\ element_count(g) \in Int
         /\ element_count(g) >= 0 => (element_count(g) + 1) * nodeSize(g) =< afterList(g) + mSize(g) - firstNode(g)
<1>1. /\ g.size \in Nat /\ g.count \in Nat \ {0} /\ g.offset \in Nat /\ g.alignment \in Nat \ {0}
      /\ g.size + 2 * g.offset >= PointerSize /\ g.start \in Nat \ {0}
  BY GeometryAssumption
<1>2. nodeSize(g) \in Nat /\ nodeSize(g) >= PointerSize
  BY <1>1 DEF nodeSize
<1>3. mSize(g) \in Nat
  <2>1. PICK q \in Nat : q = (g.size + 2 * g.offset) \div g.alignment
    BY <1>1
  <2>2. PICK p \in Nat : p = q * g.alignment
    BY <1>1
  <2>3. p * g.count \in Nat
    BY <1>1
  <2> QED BY <1>1, <2>1, <2>2, <2>3 DEF mSize
<1>4. afterList(g) \in Nat /\ afterList(g) > PointerSize
  BY <1>1 DEF afterList, PointerSize
<1>5. firstNode(g) \in Nat /\ firstNode(g) >= afterList(g)
  <2>1. PICK a \in Nat : a = afterList(g) + g.offset
    BY <1>1, <1>4
  <2>2. aligned(a, g.alignment) \in Int /\ aligned(a, g.alignment) >= a
    <3>1. PICK d \in Nat \ {0} : d = g.alignment
      BY <1>1
    <3>2. aligned(a, d) \in Int /\ aligned(a, d) >= a
      BY RoundedUp
    <3> QED BY <3>1, <3>2
  <2> QED BY <1>1, <1>4, <2>1, <2>2 DEF firstNode
<1>6. PICK r \in Int : r = mSize(g) - (firstNode(g) - afterList(g))
  BY <1>3, <1>4, <1>5
<1>7. PICK q \in Int : q = r \div nodeSize(g)
  BY <1>2 DEF PointerSize
<1>8. element_count(g) = q - 1
  BY <1>6, <1>7 DEF element_count
<1>9. q * nodeSize(g) =< r
  <2>1. PICK d \in Nat \ {0} : d = nodeSize(g)
    BY <1>2 DEF PointerSize
  <2>2. r = d * (r \div d) + (r % d) /\ r % d \in 0 .. d - 1
    OBVIOUS
  <2>3. d * q = q * d
    OBVIOUS
  <2> QED BY <1>7, <2>1, <2>2, <2>3
<1>10. (element_count(g) + 1) * nodeSize(g) =< afterList(g) + mSize(g) - firstNode(g)
  <2>1. element_count(g) + 1 = q
    BY <1>8
  <2> QED BY <1>3, <1>4, <1>5, <1>6, <1>9, <2>1
<1> QED BY <1>1, <1>2, <1>3, <1>4, <1>5, <1>8, <1>10

\* A multiple leaves no remainder.
LEMMA MultipleRemainder ==
  ASSUME NEW k \in Int, NEW n \in Nat \ {0}
  PROVE  (k * n) % n = 0
<1>1. PICK x \in Int : x = k * n
  OBVIOUS
<1>2. PICK q \in Int : q = x \div n
  OBVIOUS
<1>3. PICK r \in Int : r = x % n
  OBVIOUS
<1>4. x = n * q + r /\ r \in 0 .. n - 1
  BY <1>2, <1>3
<1>5. PICK y \in Int : y = q * n
  OBVIOUS
<1>6. n * q = y
  BY <1>5
<1>7. r = x - y /\ r \in 0 .. n - 1
  BY <1>4, <1>5, <1>6
<1>8. CASE q = k
  <2>1. y = x
    BY <1>1, <1>5, <1>8
  <2> QED BY <1>1, <1>3, <1>7, <2>1
<1>9. CASE q < k
  <2>1. (q + 1) * n =< k * n
    BY <1>9, Product
  <2>2. (q + 1) * n = q * n + n
    OBVIOUS
  <2> QED BY <1>1, <1>5, <1>7, <2>1, <2>2
<1>10. CASE q > k
  <2>1. (k + 1) * n =< q * n
    BY <1>10, Product
  <2>2. (k + 1) * n = k * n + n
    OBVIOUS
  <2> QED BY <1>1, <1>5, <1>7, <2>1, <2>2
<1> QED BY <1>8, <1>9, <1>10

\* A number that leaves no remainder is a multiple.
LEMMA NoRemainder ==
  ASSUME NEW a \in Nat, NEW n \in Nat \ {0}, a % n = 0
  PROVE  \E q \in Nat : a = q * n
<1>1. a = n * (a \div n) + (a % n) /\ a \div n \in Nat
  OBVIOUS
<1>2. PICK q \in Nat : q = a \div n
  BY <1>1
<1>3. n * q = q * n
  OBVIOUS
<1> QED BY <1>1, <1>2, <1>3

\* The geometry of a pool that serves, if the memory was blank when the links are uneven.
HasList(g) ==
  /\ g \in Geometries /\ element_count(g) >= 0
  /\ \/ Even(g)
     \/ element_count(g) > nodeSize(g) /\ betweenLinks(g, firstNode(g) + element_count(g))

\* The number of the last link.
Last(g) == IF element_count(g) = 0 THEN 0 ELSE IF Even(g) THEN nodeSize(g) ELSE 1

\* The links are as far apart as a node is large, and stay among the nodes.
LEMMA Links ==
  ASSUME NEW g, HasList(g)
  PROVE  /\ element_count(g) \in Nat /\ Last(g) \in Nat /\ Last(g) =< element_count(g)
         /\ element_count(g) # 0 => element_count(g) >= nodeSize(g)
         /\ Last(g) * element_count(g) + nodeSize(g) =< (element_count(g) + 1) * nodeSize(g)
         /\ Threaded(g) = {firstNode(g) + i * element_count(g) : i \in 0 .. Last(g)}
<1>1. PICK E \in Nat : E = element_count(g)
  BY Layout DEF HasList
<1>2. PICK N \in Nat \ {0} : N = nodeSize(g) /\ N >= 4
  BY Layout DEF HasList, PointerSize
<1>3. PICK F \in Nat : F = firstNode(g)
  BY Layout DEF HasList
<1>4. PICK m : m = Last(g)
  OBVIOUS
<1>5. PICK e \in BOOLEAN : e <=> Even(g)
  OBVIOUS
<1>6. m = IF E = 0 THEN 0 ELSE IF e THEN N ELSE 1
  BY <1>1, <1>2, <1>4, <1>5 DEF Last
<1>7. Threaded(g) = {F + i * E : i \in 0 .. IF e THEN N ELSE 1}
  BY <1>1, <1>2, <1>3, <1>5 DEF Threaded
<1>8. (e => E % N = 0) /\ (~e => E > N)
  BY <1>1, <1>2, <1>5 DEF HasList, Even
<1>9. E * N \in Nat /\ (E + 1) * N = E * N + N /\ N * E = E * N
  OBVIOUS
<1>10. CASE E = 0
  <2>1. m = 0 /\ 0 * E = 0 /\ E * N = 0
    BY <1>6, <1>10
  <2>2. Threaded(g) = {F + i * E : i \in 0 .. 0}
    <3>1. \A i \in Nat : F + i * E = F
      BY <1>10
    <3>2. 0 \in 0 .. IF e THEN N ELSE 1
      OBVIOUS
    <3> QED BY <1>7, <3>1, <3>2
  <2> QED BY <1>1, <1>2, <1>3, <1>4, <1>9, <1>10, <2>1, <2>2
<1>11. CASE E # 0 /\ e
  <2>1. PICK q \in Nat : E = q * N
    BY <1>8, <1>11, NoRemainder
  <2>2. q # 0
    BY <1>11, <2>1
  <2>3. 1 * N =< q * N
    BY <2>2, Product
  <2>4. E >= N
    BY <2>1, <2>3
  <2>5. m = N /\ Threaded(g) = {F + i * E : i \in 0 .. m}
    BY <1>6, <1>7, <1>11
  <2> QED BY <1>1, <1>2, <1>3, <1>4, <1>9, <1>11, <2>4, <2>5
<1>12. CASE E # 0 /\ ~e
  <2>1. E > N /\ m = 1 /\ Threaded(g) = {F + i * E : i \in 0 .. m} /\ 1 * E = E
    BY <1>6, <1>7, <1>8, <1>12
  <2>2. E =< E * N
    <3>1. 1 * E =< N * E
      BY Product
    <3> QED BY <1>9, <3>1
  <2>3. m * E + N =< (E + 1) * N
    BY <1>9, <2>1, <2>2
  <2>4. m \in Nat /\ m =< E /\ E >= N
    BY <1>12, <2>1
  <2> QED BY <1>1, <1>2, <1>3, <1>4, <2>1, <2>3, <2>4
<1> QED BY <1>10, <1>11, <1>12

\* A node of the list lies among the pool's bytes, and those of two nodes are apart.
LEMMA NodeFacts ==
  ASSUME NEW g, HasList(g)
  PROVE  /\ \A a \in Threaded(g) : a \in Nat /\ a > PointerSize /\ a \in Bytes(g)
                                   /\ a >= afterList(g)
                                   /\ a + nodeSize(g) =< afterList(g) + mSize(g)
         /\ \A a, b \in Threaded(g) : a < b => a + nodeSize(g) =< b
         /\ Bytes(g) \subseteq Nat /\ null \notin Bytes(g)
         /\ \A b \in Bytes(g) : b > PointerSize /\ b < afterList(g) + mSize(g)
<1> DEFINE E == element_count(g)
           N == nodeSize(g)
           F == firstNode(g)
           M == Last(g)
<1>1. /\ E \in Nat /\ N \in Nat /\ F \in Nat /\ N >= 4 /\ F >= afterList(g)
      /\ afterList(g) \in Nat /\ afterList(g) > 4 /\ mSize(g) \in Nat
      /\ (E + 1) * N =< afterList(g) + mSize(g) - F
  BY Layout DEF PointerSize, HasList
<1>2. /\ M \in Nat /\ (E # 0 => E >= N) /\ M * E + N =< (E + 1) * N
      /\ Threaded(g) = {F + i * E : i \in 0 .. M}
  BY Links
<1>3. Bytes(g) = F .. F + E * N + N - 1
  BY DEF Bytes, node
<1> HIDE DEF E, N, F, M
<1>4. \A i \in 0 .. M : i * E \in Nat /\ i * E =< M * E /\ M * E \in Nat
  BY <1>1, <1>2, Product
<1>5. E * N + N = (E + 1) * N /\ E * N \in Nat
  BY <1>1
<1>6. ASSUME NEW a \in Threaded(g)
      PROVE  /\ a \in Nat /\ a > 4 /\ a \in Bytes(g) /\ a >= afterList(g)
             /\ a + N =< afterList(g) + mSize(g)
  <2>1. PICK i \in 0 .. M : a = F + i * E
    BY <1>2
  <2>2. PICK e \in Nat : e = E * N
    BY <1>5
  <2>3. PICK p \in Nat : p = i * E /\ p =< M * E
    BY <1>4
  <2>4. PICK z \in Nat : z = M * E /\ z + N =< e + N
    BY <1>2, <1>4, <1>5, <2>2
  <2>5. p + N =< e + N /\ e + N =< afterList(g) + mSize(g) - F /\ a = F + p
    BY <1>1, <1>5, <2>1, <2>2, <2>3, <2>4
  <2>6. a \in F .. F + e + N - 1
    BY <1>1, <2>5
  <2>7. a \in Bytes(g)
    BY <1>3, <2>2, <2>6
  <2> QED BY <1>1, <2>5, <2>7
<1>7. ASSUME NEW a \in Threaded(g), NEW b \in Threaded(g), a < b
      PROVE  a + N =< b
  <2>1. PICK i \in 0 .. M : a = F + i * E
    BY <1>2
  <2>2. PICK j \in 0 .. M : b = F + j * E
    BY <1>2
  <2>3. PICK p \in Nat : p = i * E
    BY <1>4
  <2>4. PICK r \in Nat : r = j * E
    BY <1>4
  <2>5. p < r
    BY <1>1, <1>7, <2>1, <2>2, <2>3, <2>4
  <2>6. ~(j =< i)
    <3>1. j =< i => j * E =< i * E
      BY <1>1, <1>2, Product
    <3> QED BY <2>3, <2>4, <2>5, <3>1
  <2>7. (i + 1) * E =< j * E /\ (i + 1) * E = i * E + E
    <3>1. i + 1 =< j /\ i \in Int /\ j \in Int
      BY <1>2, <2>6
    <3> QED BY <1>1, <3>1, Product
  <2>8. p + E =< r
    BY <2>3, <2>4, <2>7
  <2>9. E >= N
    <3>1. E # 0
      BY <2>3, <2>4, <2>5
    <3> QED BY <1>2, <3>1
  <2> QED BY <1>1, <2>1, <2>2, <2>3, <2>4, <2>8, <2>9
<1>8. \A b \in Bytes(g) : b \in Nat /\ b > 4 /\ b < afterList(g) + mSize(g)
  <2>1. PICK e \in Nat : e = E * N
    BY <1>5
  <2> QED BY <1>1, <1>3, <1>5, <2>1
<1> QED BY <1>6, <1>7, <1>8 DEF N, null, PointerSize

\* Nodes are lost unless the links are one node apart.
THEOREM NodesLost ==
  ASSUME NEW g, HasList(g)
  PROVE  Threaded(g) = Nodes(g) <=> element_count(g) \in {0, nodeSize(g)}
<1>1. PICK E \in Nat : E = element_count(g)
  BY Links
<1>2. PICK N \in Nat \ {0} : N = nodeSize(g) /\ N >= 4
  BY Layout DEF HasList, PointerSize
<1>3. PICK F \in Nat : F = firstNode(g)
  BY Layout DEF HasList
<1>4. PICK M \in Nat : M = Last(g)
  BY Links
<1>5. Nodes(g) = {F + i * N : i \in 0 .. E}
  BY <1>1, <1>2, <1>3 DEF Nodes, node
<1>6. Threaded(g) = {F + i * E : i \in 0 .. M} /\ (E # 0 => E >= N)
  BY <1>1, <1>2, <1>3, <1>4, Links
<1>7. ASSUME E = 0 PROVE Threaded(g) = Nodes(g)
  <2>1. M = 0
    BY <1>1, <1>4, <1>7 DEF Last
  <2>2. \A i \in 0 .. 0 : F + i * E = F /\ F + i * N = F
    OBVIOUS
  <2> QED BY <1>5, <1>6, <1>7, <2>1, <2>2
<1>8. ASSUME E = N PROVE Threaded(g) = Nodes(g)
  <2>1. Even(g)
    <3>1. (1 * N) % N = 0
      BY MultipleRemainder
    <3>2. 1 * N = N
      OBVIOUS
    <3> QED BY <1>1, <1>2, <1>8, <3>1, <3>2 DEF Even
  <2>2. M = E
    BY <1>1, <1>2, <1>4, <1>8, <2>1 DEF Last
  <2> QED BY <1>5, <1>6, <1>8, <2>2
<1>9. ASSUME E > N PROVE Threaded(g) # Nodes(g)
  <2>1. F + 1 * N \in Nodes(g) /\ 1 * N = N
    BY <1>5, <1>9
  <2>2. ASSUME NEW i \in 0 .. M PROVE F + i * E # F + N
    <3>1. CASE i = 0
      BY <3>1
    <3>2. CASE i # 0
      <4>1. 1 * E =< i * E /\ 1 * E = E /\ i * E \in Int
        BY <3>2, Product
      <4> QED BY <1>9, <4>1
    <3> QED BY <3>1, <3>2
  <2>3. F + N \notin Threaded(g)
    BY <1>6, <2>2
  <2> QED BY <2>1, <2>3
<1> QED BY <1>1, <1>2, <1>6, <1>7, <1>8, <1>9

-----------------------------------------------------------------------------
(* The list *)

\* A set of natural numbers that is not empty has a least one.
LEMMA LeastNumber ==
  ASSUME NEW S \in SUBSET Nat, S # {}
  PROVE  \E n \in S : \A m \in S : n =< m
<1> DEFINE R == OpToRel(<, Nat)
<1>1. IsWellFoundedOn(R, Nat)
  BY NatLessThanWellFounded, Zenon
<1>2. \A n, m \in Nat : n < m => <<n, m>> \in R
  BY Zenon DEF OpToRel
<1> HIDE DEF R
<1>3. PICK n \in S : \A m \in S : ~ (<<m, n>> \in R)
  BY <1>1, WFMin
<1>4. \A m \in S : ~(m < n)
  BY <1>2, <1>3
<1> QED BY <1>4

\* The n nodes f[0] .. f[n - 1] of a pool are in the list that begins at next, in this
\* order, each once, and none is held.
ChainOf(g, l, next, h, n, f) ==
  /\ n \in Nat /\ f \in [0 .. n -> Int] /\ f[0] = next /\ f[n] = null
  /\ \A i \in 0 .. n - 1 : f[i] \in Threaded(g) \ h /\ l[f[i]] = f[i + 1]
  /\ \A i, j \in 0 .. n - 1 : f[i] = f[j] => i = j

\* The words of a pool.
Words(g, l) == l \in [Bytes(g) -> Int]

\* The nodes that can be reached from next, as in FreeNodes.
WalkOf(g, l, next) ==
  LET follow == [a \in Int |-> IF a \in DOMAIN l THEN l[a] ELSE null]
      walk[i \in Nat] == IF i = 0 THEN next ELSE follow[walk[i - 1]]
  IN  {walk[i] : i \in 0 .. element_count(g)} \ {null}

\* A list has no more nodes than there are.
LEMMA ChainLength ==
  ASSUME NEW g, HasList(g), NEW l, NEW next, NEW h, NEW n, NEW f, ChainOf(g, l, next, h, n, f)
  PROVE  n =< element_count(g) + 1
<1>1. PICK e \in Nat : e = Last(g) /\ e =< element_count(g) /\ element_count(g) \in Nat
  BY Links
<1>2. n \in Nat
  BY DEF ChainOf
<1>3. SUFFICES ASSUME n > e + 1 PROVE FALSE
  BY <1>1, <1>2
<1> DEFINE S == 0 .. n - 1
           T == 0 .. e
           t == [i \in S |-> CHOOSE k \in T : f[i] = firstNode(g) + k * element_count(g)]
<1>4. ASSUME NEW i \in S PROVE t[i] \in T /\ f[i] = firstNode(g) + t[i] * element_count(g)
  <2>1. \E k \in T : f[i] = firstNode(g) + k * element_count(g)
    BY <1>1, Links DEF ChainOf
  <2> QED BY <2>1
<1>5. IsFiniteSet(S) /\ Cardinality(S) = n /\ IsFiniteSet(T) /\ Cardinality(T) = e + 1
  <2>1. PICK m \in Nat : m = n - 1 /\ m >= 0
    BY <1>1, <1>2, <1>3
  <2>2. IsFiniteSet(0 .. m) /\ Cardinality(0 .. m) = m - 0 + 1
    BY FS_Interval
  <2>3. IsFiniteSet(0 .. e) /\ Cardinality(0 .. e) = e - 0 + 1
    BY FS_Interval
  <2> QED BY <1>2, <2>1, <2>2, <2>3
<1>6. t \in [S -> T]
  BY <1>4
<1> HIDE DEF S, T, t
<1>7. PICK i, j \in S : i # j /\ t[i] = t[j]
  BY <1>1, <1>2, <1>3, <1>5, <1>6, FS_PigeonHole
<1>8. f[i] = f[j]
  BY <1>4, <1>7
<1> QED BY <1>7, <1>8 DEF S, ChainOf

\* The free nodes are those in the list.
LEMMA ChainFree ==
  ASSUME NEW g, HasList(g), NEW l, Words(g, l), NEW next, NEW h, NEW n, NEW f, ChainOf(g, l, next, h, n, f)
  PROVE  WalkOf(g, l, next) = {f[i] : i \in 0 .. n - 1}
<1> DEFINE follow  == [a \in Int |-> IF a \in DOMAIN l THEN l[a] ELSE null]
           walk[i \in Nat] == IF i = 0 THEN next ELSE follow[walk[i - 1]]
           w == [i \in Nat |-> IF i =< n THEN f[i] ELSE null]
           E == element_count(g)
<1>1. WalkOf(g, l, next) = {walk[i] : i \in 0 .. E} \ {null}
  BY DEF WalkOf
<1>2. /\ E \in Nat /\ n \in Nat /\ n =< E + 1 /\ DOMAIN l = Bytes(g) /\ null \in Int
      /\ null \notin Bytes(g)
      /\ \A i \in 0 .. n - 1 : f[i] \in Bytes(g) /\ f[i] \in Int /\ f[i] # null /\ l[f[i]] = f[i + 1]
      /\ f[0] = next /\ f[n] = null
  <2>1. E \in Nat /\ n \in Nat /\ n =< E + 1 /\ f[0] = next /\ f[n] = null /\ null \in Int
    <3>1. E \in Nat
      BY Links
    <3>2. n \in Nat /\ f[0] = next /\ f[n] = null
      BY DEF ChainOf
    <3>3. n =< E + 1
      BY ChainLength
    <3> QED BY <3>1, <3>2, <3>3 DEF null
  <2>2. DOMAIN l = Bytes(g) /\ null \notin Bytes(g)
        /\ \A a \in Threaded(g) : a \in Bytes(g) /\ a \in Int /\ a # null
    BY NodeFacts DEF Words, null, PointerSize
  <2>3. \A i \in 0 .. n - 1 : f[i] \in Threaded(g) /\ l[f[i]] = f[i + 1]
    BY DEF ChainOf
  <2> HIDE DEF E
  <2> QED BY <2>1, <2>2, <2>3
<1> HIDE DEF E
<1>3. follow[null] = null /\ \A i \in 0 .. n - 1 : follow[f[i]] = f[i + 1]
  BY <1>2
<1>4. ASSUME NEW i \in Nat
      PROVE  w[i] = IF i = 0 THEN next ELSE follow[w[i - 1]]
  <2>1. CASE i = 0
    BY <1>2, <2>1
  <2>2. CASE i # 0 /\ i =< n
    <3>1. i - 1 \in 0 .. n - 1 /\ (i - 1) + 1 = i
      BY <1>2, <2>2
    <3>2. i - 1 \in Nat /\ i - 1 =< n
      BY <1>2, <3>1
    <3>3. w[i] = f[i] /\ w[i - 1] = f[i - 1]
      BY <2>2, <3>2
    <3>4. follow[f[i - 1]] = f[i]
      <4> HIDE DEF w, follow
      <4> QED BY <1>3, <3>1
    <3> HIDE DEF w, follow
    <3> QED BY <2>2, <3>3, <3>4
  <2>3. CASE i = n + 1
    <3>1. i # 0 /\ i - 1 = n /\ ~(i =< n) /\ n =< n
      BY <1>2, <2>3
    <3>2. w[i] = null /\ w[i - 1] = null
      BY <1>2, <3>1
    <3> QED BY <1>3, <3>1, <3>2
  <2>4. CASE i > n + 1
    <3>1. i # 0 /\ i - 1 \in Nat /\ ~(i =< n) /\ ~(i - 1 =< n)
      BY <1>2, <2>4
    <3>2. w[i] = null
      BY <3>1
    <3>3. w[i - 1] = null
      BY <3>1
    <3> HIDE DEF w, follow
    <3> QED BY <1>3, <3>1, <3>2, <3>3
  <2> HIDE DEF w, follow
  <2> QED BY <1>2, <2>1, <2>2, <2>3, <2>4
<1>5. w = [i \in Nat |-> IF i = 0 THEN next ELSE follow[w[i - 1]]]
  BY <1>4
<1>6. walk = [i \in Nat |-> IF i = 0 THEN next ELSE follow[walk[i - 1]]]
  <2> HIDE DEF w, follow
  <2> QED BY <1>5
<1>7. \A i \in Nat : walk[i] = IF i = 0 THEN next ELSE follow[walk[i - 1]]
  <2> HIDE DEF walk, follow
  <2> QED BY <1>6
<1> HIDE DEF walk, w, follow
<1>8. \A i \in Nat : walk[i] = w[i]
  <2> DEFINE D == {i \in Nat : walk[i] # w[i]}
  <2>1. SUFFICES ASSUME D # {} PROVE FALSE
    OBVIOUS
  <2>2. PICK k \in D : \A m \in D : k =< m
    BY <2>1, LeastNumber
  <2>3. CASE k = 0
    BY <1>4, <1>7, <2>2, <2>3
  <2>4. CASE k # 0
    <3>1. k - 1 \in Nat /\ k - 1 \notin D
      BY <2>2, <2>4
    <3>2. walk[k - 1] = w[k - 1]
      BY <3>1
    <3> QED BY <1>4, <1>7, <2>2, <2>4, <3>2
  <2> QED BY <2>3, <2>4
<1>9. \A i \in 0 .. n - 1 : w[i] = f[i]
  BY <1>2 DEF w
<1>10. \A i \in 0 .. E : w[i] # null => i \in 0 .. n - 1
  BY <1>2 DEF w
<1>11. 0 .. n - 1 \subseteq 0 .. E
  BY <1>2
<1> QED BY <1>1, <1>2, <1>8, <1>9, <1>10, <1>11

\* The first node of a list is taken: x is what it pointed to, m the words afterwards.
Opens(g, l, next, h, n, f, x, m) ==
  /\ HasList(g) /\ Words(g, l) /\ Words(g, m) /\ ChainOf(g, l, next, h, n, f)
  /\ next # null /\ x = l[next] /\ \A a \in Threaded(g) \ {next} : m[a] = l[a]

\* Taking the first node of a list leaves the rest of it.
LEMMA ObtainChain ==
  ASSUME NEW g, NEW l, NEW next, NEW h, NEW n, NEW f, NEW x, NEW m, Opens(g, l, next, h, n, f, x, m)
  PROVE  /\ next \in Threaded(g) \ h
         /\ \E k, e : ChainOf(g, m, x, h \cup {next}, k, e)
         /\ next \in WalkOf(g, l, next)
         /\ WalkOf(g, m, x) = WalkOf(g, l, next) \ {next}
<1> DEFINE e == [i \in 0 .. n - 1 |-> f[i + 1]]
<1>0. /\ HasList(g) /\ Words(g, l) /\ Words(g, m) /\ ChainOf(g, l, next, h, n, f)
      /\ next # null /\ x = l[next] /\ \A a \in Threaded(g) \ {next} : m[a] = l[a]
  BY DEF Opens
<1>1. /\ n \in Nat /\ f \in [0 .. n -> Int] /\ f[0] = next /\ f[n] = null
      /\ \A i \in 0 .. n - 1 : f[i] \in Threaded(g) \ h /\ l[f[i]] = f[i + 1]
      /\ \A i, j \in 0 .. n - 1 : f[i] = f[j] => i = j
  BY <1>0 DEF ChainOf
<1>2. n > 0
  BY <1>0, <1>1
<1>3. next \in Threaded(g) \ h /\ x = f[1] /\ f[1] \in Int
  BY <1>0, <1>1, <1>2
<1>4. /\ \A i \in 0 .. n - 1 : e[i] = f[i + 1] /\ i + 1 \in 0 .. n
      /\ e \in [0 .. n - 1 -> Int]
  BY <1>1
<1> HIDE DEF e
<1>5. \A i \in 0 .. n - 2 : i + 1 \in 0 .. n - 1 /\ (i + 1) + 1 = i + 2 /\ i + 1 # 0 /\ i \in 0 .. n - 1
  BY <1>1
<1>6. ASSUME NEW i \in 0 .. n - 2
      PROVE  e[i] \in Threaded(g) \ (h \cup {next}) /\ m[e[i]] = e[i + 1]
  <2>1. e[i] = f[i + 1] /\ f[i + 1] \in Threaded(g) \ h /\ l[f[i + 1]] = f[(i + 1) + 1]
    BY <1>1, <1>4, <1>5
  <2>2. f[i + 1] # next
    BY <1>1, <1>2, <1>5
  <2>3. e[i + 1] = f[(i + 1) + 1]
    BY <1>4, <1>5
  <2> QED BY <1>0, <2>1, <2>2, <2>3
<1>7. ASSUME NEW i \in 0 .. n - 2, NEW j \in 0 .. n - 2, e[i] = e[j]
      PROVE  i = j
  <2>1. f[i + 1] = f[j + 1] /\ i + 1 \in 0 .. n - 1 /\ j + 1 \in 0 .. n - 1
    BY <1>4, <1>5, <1>7
  <2> QED BY <1>1, <2>1
<1>8. ChainOf(g, m, x, h \cup {next}, n - 1, e)
  <2>1. n - 1 \in Nat /\ e[0] = f[1] /\ e[n - 1] = null /\ (n - 1) - 1 = n - 2
    <3>1. n - 1 \in Nat /\ n - 1 \in 0 .. n - 1 /\ 0 \in 0 .. n - 1 /\ (n - 1) + 1 = n /\ 0 + 1 = 1 /\ (n - 1) - 1 = n - 2
      BY <1>1, <1>2
    <3>2. e[n - 1] = f[(n - 1) + 1] /\ e[0] = f[0 + 1]
      BY <1>4, <3>1
    <3> QED BY <1>1, <3>1, <3>2
  <2> QED BY <1>3, <1>4, <1>6, <1>7, <2>1 DEF ChainOf
<1>9. WalkOf(g, l, next) = {f[i] : i \in 0 .. n - 1}
  BY <1>0, ChainFree
<1>10. WalkOf(g, m, x) = {e[i] : i \in 0 .. n - 2}
  <2>1. WalkOf(g, m, x) = {e[i] : i \in 0 .. (n - 1) - 1}
    BY <1>0, <1>8, ChainFree
  <2>2. (n - 1) - 1 = n - 2
    BY <1>1
  <2> QED BY <2>1, <2>2
<1>11. next \in {f[i] : i \in 0 .. n - 1}
  BY <1>1, <1>2
<1>12. {e[i] : i \in 0 .. n - 2} = {f[i] : i \in 0 .. n - 1} \ {next}
  <2>1. \A i \in 0 .. n - 2 : e[i] \in {f[j] : j \in 0 .. n - 1} /\ e[i] # next
    BY <1>4, <1>5, <1>6
  <2>2. ASSUME NEW j \in 0 .. n - 1, f[j] # next
        PROVE  f[j] \in {e[i] : i \in 0 .. n - 2}
    <3>1. j # 0
      BY <1>1, <2>2
    <3>2. j - 1 \in 0 .. n - 2 /\ (j - 1) + 1 = j
      BY <1>1, <3>1
    <3>3. e[j - 1] = f[(j - 1) + 1]
      BY <1>4, <1>5, <3>2
    <3> QED BY <3>2, <3>3
  <2> QED BY <2>1, <2>2
<1> QED BY <1>3, <1>8, <1>9, <1>10, <1>11, <1>12

\* Putting a node that is held in front of a list.
LEMMA ReturnChain ==
  ASSUME NEW g, HasList(g), NEW l, Words(g, l), NEW m, Words(g, m), NEW next, NEW h, NEW n, NEW f,
         ChainOf(g, l, next, h, n, f), h \subseteq Threaded(g), NEW p \in h, m[p] = next,
         \A a \in Threaded(g) \ {p} : m[a] = l[a]
  PROVE  /\ \E k, e : ChainOf(g, m, p, h \ {p}, k, e)
         /\ WalkOf(g, m, p) = WalkOf(g, l, next) \cup {p}
<1> DEFINE e == [i \in 0 .. n + 1 |-> IF i = 0 THEN p ELSE f[i - 1]]
<1>1. /\ n \in Nat /\ f \in [0 .. n -> Int] /\ f[0] = next /\ f[n] = null
      /\ \A i \in 0 .. n - 1 : f[i] \in Threaded(g) \ h /\ l[f[i]] = f[i + 1]
      /\ \A i, j \in 0 .. n - 1 : f[i] = f[j] => i = j
  BY DEF ChainOf
<1>2. p \in Threaded(g) /\ p \in Int
  BY NodeFacts
<1>3. /\ e[0] = p
      /\ \A i \in 1 .. n + 1 : e[i] = f[i - 1] /\ i - 1 \in 0 .. n
      /\ e \in [0 .. n + 1 -> Int]
  BY <1>1, <1>2
<1> HIDE DEF e
<1>4. \A i \in 1 .. n : i - 1 \in 0 .. n - 1 /\ (i - 1) + 1 = i /\ (i + 1) - 1 = i /\ i \in 1 .. n + 1 /\ i + 1 \in 1 .. n + 1
  BY <1>1
<1>5. ASSUME NEW i \in 1 .. n
      PROVE  e[i] = f[i - 1] /\ f[i - 1] \in Threaded(g) \ h /\ m[e[i]] = e[i + 1]
  <2>1. e[i] = f[i - 1] /\ f[i - 1] \in Threaded(g) \ h /\ l[f[i - 1]] = f[(i - 1) + 1]
    BY <1>1, <1>3, <1>4
  <2>2. e[i + 1] = f[(i + 1) - 1]
    BY <1>3, <1>4
  <2> QED BY <1>4, <2>1, <2>2
<1>6. ASSUME NEW i \in 0 .. n
      PROVE  e[i] \in Threaded(g) \ (h \ {p}) /\ m[e[i]] = e[i + 1]
  <2>1. CASE i = 0
    <3>1. e[0 + 1] = f[0]
      <4>1. 1 \in 1 .. n + 1 /\ 1 - 1 = 0 /\ 0 + 1 = 1
        BY <1>1
      <4> QED BY <1>3, <4>1
    <3> QED BY <1>1, <1>2, <1>3, <2>1, <3>1
  <2>2. CASE i # 0
    <3>1. i \in 1 .. n
      BY <1>1, <2>2
    <3> QED BY <1>5, <3>1
  <2> QED BY <2>1, <2>2
<1>7. ASSUME NEW i \in 0 .. n, NEW j \in 0 .. n, e[i] = e[j]
      PROVE  i = j
  <2>1. \A k \in 0 .. n : k # 0 => k \in 1 .. n
    BY <1>1
  <2>2. \A k \in 1 .. n : e[k] # p
    BY <1>5
  <2>3. CASE i # 0 /\ j # 0
    <3>1. i \in 1 .. n /\ j \in 1 .. n
      BY <2>1, <2>3
    <3>2. f[i - 1] = f[j - 1] /\ i - 1 \in 0 .. n - 1 /\ j - 1 \in 0 .. n - 1
      BY <1>4, <1>5, <1>7, <3>1
    <3>3. i - 1 = j - 1
      BY <1>1, <3>2
    <3> QED BY <1>4, <3>1, <3>3
  <2> QED BY <1>3, <1>7, <2>1, <2>2, <2>3
<1>8. ChainOf(g, m, p, h \ {p}, n + 1, e)
  <2>1. n + 1 \in Nat /\ (n + 1) - 1 = n /\ e[n + 1] = null
    <3>1. n + 1 \in Nat /\ (n + 1) - 1 = n /\ n + 1 \in 1 .. n + 1
      BY <1>1
    <3> QED BY <1>1, <1>3, <3>1
  <2> QED BY <1>3, <1>6, <1>7, <2>1 DEF ChainOf
<1>9. WalkOf(g, l, next) = {f[i] : i \in 0 .. n - 1}
  BY ChainFree
<1>10. WalkOf(g, m, p) = {e[i] : i \in 0 .. n}
  <2>1. WalkOf(g, m, p) = {e[i] : i \in 0 .. (n + 1) - 1}
    BY <1>8, ChainFree
  <2>2. (n + 1) - 1 = n
    BY <1>1
  <2> QED BY <2>1, <2>2
<1>11. {e[i] : i \in 0 .. n} = {f[i] : i \in 0 .. n - 1} \cup {p}
  <2>1. \A i \in 0 .. n : e[i] \in {f[j] : j \in 0 .. n - 1} \cup {p}
    <3> SUFFICES ASSUME NEW i \in 0 .. n, i # 0 PROVE e[i] \in {f[j] : j \in 0 .. n - 1}
      BY <1>3
    <3>1. i \in 1 .. n
      BY <1>1
    <3> QED BY <1>4, <1>5, <3>1
  <2>2. ASSUME NEW j \in 0 .. n - 1
        PROVE  f[j] \in {e[i] : i \in 0 .. n}
    <3>1. j + 1 \in 1 .. n /\ (j + 1) - 1 = j /\ j + 1 \in 0 .. n
      BY <1>1
    <3>2. e[j + 1] = f[(j + 1) - 1]
      BY <1>5, <3>1
    <3> QED BY <3>1, <3>2
  <2>3. p \in {e[i] : i \in 0 .. n}
    <3>1. 0 \in 0 .. n
      BY <1>1
    <3> QED BY <1>3, <3>1
  <2> QED BY <2>1, <2>2, <2>3
<1> QED BY <1>8, <1>9, <1>10, <1>11

\* The list the constructor makes: each node points element_count bytes further.
LEMMA FirstList ==
  ASSUME NEW g, HasList(g), NEW rest \in {null, junk}, Even(g) \/ rest = null
  PROVE  /\ Words(g, linked(g, rest))
         /\ \E n, f : ChainOf(g, linked(g, rest), firstNode(g), {}, n, f)
         /\ WalkOf(g, linked(g, rest), firstNode(g)) = Threaded(g)
<1> DEFINE l == linked(g, rest)
<1>1. PICK E \in Nat : E = element_count(g)
  BY Links
<1>2. PICK N \in Nat \ {0} : N = nodeSize(g) /\ N >= 4
  BY Layout DEF HasList, PointerSize
<1>3. PICK F \in Nat : F = firstNode(g)
  BY Layout DEF HasList
<1>4. PICK m \in Nat : m = Last(g)
  BY Links
<1> DEFINE f == [j \in 0 .. m + 1 |-> IF j =< m THEN F + j * E ELSE null]
<1>5. /\ E # 0 => E >= N
      /\ Threaded(g) = {F + i * E : i \in 0 .. m}
      /\ \A a \in Threaded(g) : a \in Nat /\ a \in Bytes(g) /\ a # null
      /\ Bytes(g) \subseteq Nat
  BY <1>1, <1>2, <1>3, <1>4, Links, NodeFacts DEF null, PointerSize
<1>6. /\ l = [a \in Bytes(g) |->
                 IF a = F + E * N THEN null
                 ELSE IF (a - F) % N = 0 THEN a + E
                 ELSE IF (a - F) % N \in 4 .. N - 4 THEN rest ELSE junk]
      /\ E * N \in Nat
  BY <1>1, <1>2, <1>3 DEF linked, node, betweenLinks, PointerSize
<1> HIDE DEF l
<1>7. Words(g, l)
  <2>1. \A a \in Bytes(g) : \A x :
            (IF a = F + E * N THEN null
             ELSE IF (a - F) % N = 0 THEN a + E ELSE IF x THEN rest ELSE junk) \in Int
    <3>1. null \in Int /\ junk \in Int /\ rest \in Int
      BY DEF null, junk
    <3>2. \A a \in Bytes(g) : a + E \in Int
      BY <1>5
    <3> QED BY <3>1, <3>2, Zenon
  <2> QED BY <1>6, <2>1, Zenon DEF Words
<1>8. ASSUME NEW j \in 0 .. m PROVE F + j * E \in Threaded(g) /\ j * E \in Nat
  <2>1. F + j * E \in Threaded(g)
    BY <1>5, Zenon
  <2>2. j * E \in Nat
    OBVIOUS
  <2> QED BY <2>1, <2>2
<1>9. /\ f \in [0 .. m + 1 -> Int] /\ f[m + 1] = null
      /\ \A j \in 0 .. m : f[j] = F + j * E
  <2>1. \A j \in 0 .. m + 1 : j =< m => j \in 0 .. m
    OBVIOUS
  <2>2. \A j \in 0 .. m : j \in 0 .. m + 1 /\ j =< m
    OBVIOUS
  <2>3. m + 1 \in 0 .. m + 1 /\ ~(m + 1 =< m)
    OBVIOUS
  <2> QED BY <1>8, <2>1, <2>2, <2>3 DEF null
<1> HIDE DEF f
<1>10. f[0] = F
  <2>1. 0 \in 0 .. m /\ 0 * E = 0
    OBVIOUS
  <2> QED BY <1>9, <2>1
<1>11. ASSUME NEW j \in 0 .. m PROVE l[f[j]] = f[j + 1]
  <2>1. f[j] = F + j * E /\ f[j] \in Bytes(g) /\ j * E \in Nat
    BY <1>5, <1>8, <1>9
  <2>2. CASE Even(g)
    <3>1. m = IF E = 0 THEN 0 ELSE N
      BY <1>1, <1>2, <1>4, <2>2 DEF Last
    <3>2. (f[j] - F) % N = 0
      <4>1. E % N = 0
        BY <1>1, <1>2, <2>2 DEF Even
      <4>2. PICK q \in Nat : E = q * N
        BY <4>1, NoRemainder
      <4>3. PICK k \in Nat : k = j * q
        <5>1. j * q \in Nat
          OBVIOUS
        <5> QED BY <5>1
      <4>4. j * E = k * N
        <5>1. j * (q * N) = (j * q) * N
          OBVIOUS
        <5> QED BY <4>2, <4>3, <5>1
      <4>5. f[j] - F = k * N
        BY <2>1, <4>4
      <4> QED BY <4>5, MultipleRemainder
    <3>3. CASE j = m
      <4>1. m * E = E * N
        <5>1. 0 * E = 0 /\ N * E = E * N /\ 0 * N = 0
          OBVIOUS
        <5> QED BY <3>1, <5>1
      <4> QED BY <1>6, <1>9, <2>1, <3>3, <4>1
    <3>4. CASE j # m
      <4>1. j + 1 \in 0 .. m /\ E # 0 /\ m = N
        BY <3>1, <3>4
      <4>2. (j + 1) * E = j * E + E /\ (j + 1) * E =< N * E /\ N * E = E * N
        BY <4>1, Product
      <4>3. F + j * E # F + E * N
        <5>1. PICK u \in Nat : u = j * E
          BY <2>1
        <5>2. PICK v \in Nat : v = E * N
          BY <1>6
        <5> QED BY <4>1, <4>2, <5>1, <5>2
      <4>4. l[f[j]] = f[j] + E
        BY <1>6, <2>1, <3>2, <4>3
      <4>5. f[j + 1] = F + (j * E + E)
        BY <1>9, <4>1, <4>2
      <4> QED BY <2>1, <4>4, <4>5
    <3> QED BY <3>3, <3>4
  <2>3. CASE ~Even(g)
    <3>1. E > N /\ rest = null /\ betweenLinks(g, F + E)
      BY <1>1, <1>2, <1>3, <2>3 DEF HasList
    <3>2. m = 1
      BY <1>1, <1>4, <2>3, <3>1 DEF Last
    <3>3. E < E * N
      <4>1. 2 * E =< N * E /\ N * E = E * N
        BY <1>2, Product
      <4> QED BY <1>6, <3>1, <4>1
    <3>4. E % N \in 4 .. N - 4
      <4>1. (F + E) - F = E
        OBVIOUS
      <4> QED BY <1>2, <1>3, <3>1, <4>1 DEF betweenLinks, PointerSize
    <3>5. CASE j = 0
      <4>1. f[j] = F /\ (F - F) % N = 0 /\ F # F + E * N
        <5>1. 0 % N = 0
          <6>1. 0 * N = 0 /\ (0 * N) % N = 0
            BY MultipleRemainder
          <6> QED BY <6>1
        <5> QED BY <1>6, <1>10, <3>3, <3>5, <5>1
      <4>2. l[F] = F + E
        BY <1>6, <2>1, <4>1
      <4>3. f[1] = F + 1 * E /\ 1 * E = E
        BY <1>9, <3>2
      <4> QED BY <3>5, <4>1, <4>2, <4>3
    <3>6. CASE j = 1
      <4>1. f[j] = F + E
        <5>1. 1 * E = E
          OBVIOUS
        <5> QED BY <2>1, <3>6, <5>1
      <4>2. F + E # F + E * N /\ (F + E) - F = E
        BY <1>6, <3>3
      <4>3. E % N # 0
        BY <1>2, <3>4
      <4>4. l[F + E] = rest
        BY <1>6, <2>1, <3>4, <4>1, <4>2, <4>3
      <4> QED BY <1>9, <3>1, <3>2, <3>6, <4>1, <4>4
    <3> QED BY <3>2, <3>5, <3>6
  <2> QED BY <2>2, <2>3
<1>12. ASSUME NEW i \in 0 .. m, NEW j \in 0 .. m, i < j PROVE f[i] # f[j]
  <2>1. E # 0 /\ i \in Nat /\ j \in Nat /\ i + 1 =< j
    BY <1>1, <1>4, <1>12 DEF Last
  <2>2. (i + 1) * E =< j * E /\ (i + 1) * E = i * E + E
    BY <2>1, Product
  <2>3. PICK u \in Nat : u = i * E
    BY <1>8
  <2>4. PICK v \in Nat : v = j * E
    BY <1>8
  <2> QED BY <1>9, <2>1, <2>2, <2>3, <2>4
<1>13. ChainOf(g, l, F, {}, m + 1, f)
  <2>1. m + 1 \in Nat /\ (m + 1) - 1 = m
    OBVIOUS
  <2>2. \A i \in 0 .. m : f[i] \in Threaded(g)
    BY <1>8, <1>9
  <2>3. \A i, j \in 0 .. m : f[i] = f[j] => i = j
    <3>1. \A i, j \in 0 .. m : i < j \/ j < i \/ i = j
      OBVIOUS
    <3> QED BY <1>12, <3>1
  <2> QED BY <1>9, <1>10, <1>11, <2>1, <2>2, <2>3 DEF ChainOf
<1>14. WalkOf(g, l, F) = Threaded(g)
  <2>1. WalkOf(g, l, F) = {f[i] : i \in 0 .. (m + 1) - 1}
    BY <1>7, <1>13, ChainFree
  <2>2. (m + 1) - 1 = m
    OBVIOUS
  <2>3. {f[i] : i \in 0 .. m} = {F + i * E : i \in 0 .. m}
    BY <1>9
  <2> QED BY <1>5, <2>1, <2>2, <2>3
<1> QED BY <1>3, <1>7, <1>13, <1>14 DEF l

\* What the client writes to a node it has, and the pool to one that comes back, changes no
\* word of another node.
LEMMA Writing ==
  ASSUME HasList(geometry), Words(geometry, link), NEW a \in Threaded(geometry), NEW v \in Int
  PROVE  /\ Words(geometry, scribbled(a)) /\ Words(geometry, stored(a, v))
         /\ stored(a, v)[a] = v
         /\ \A b \in Threaded(geometry) \ {a} : scribbled(a)[b] = link[b] /\ stored(a, v)[b] = link[b]
<1>1. /\ DOMAIN link = Bytes(geometry) /\ a \in Bytes(geometry) /\ junk \in Int
      /\ \A b \in Bytes(geometry) : link[b] \in Int
  BY NodeFacts DEF Words, junk
<1>2. /\ scribbled(a) = [b \in Bytes(geometry) |->
                            IF b \in touched(a, a + nodeSize(geometry) - 1) THEN junk ELSE link[b]]
      /\ stored(a, v) = [b \in Bytes(geometry) |->
                            IF b = a THEN v ELSE IF b \in touched(a, a + PointerSize - 1) THEN junk ELSE link[b]]
  BY <1>1 DEF scribbled, stored
<1>3. ASSUME NEW b \in Threaded(geometry) \ {a}
      PROVE  /\ b \notin touched(a, a + nodeSize(geometry) - 1)
             /\ b \notin touched(a, a + PointerSize - 1)
             /\ b \in Bytes(geometry)
  <2>1. PICK n \in Nat : n = nodeSize(geometry) /\ n >= 4
    BY Layout DEF HasList, PointerSize
  <2>2. a \in Nat /\ b \in Nat /\ b \in Bytes(geometry) /\ (a < b => a + n =< b) /\ (b < a => b + n =< a)
    BY <2>1, NodeFacts
  <2> QED BY <2>1, <2>2 DEF touched, PointerSize
<1> QED BY <1>1, <1>2, <1>3 DEF Words

\* The list, its nodes and the nodes that are held: together they are those threaded at first.
Listed ==
  /\ Words(geometry, link) /\ held \subseteq Threaded(geometry)
  /\ \E n, f : ChainOf(geometry, link, mNext, held, n, f)
  /\ WalkOf(geometry, link, mNext) = Threaded(geometry) \ held

\* What depends on the geometry, and on what was in memory before, alone.
LEMMA SameGeometry ==
  ASSUME geometry' = geometry
  PROVE  /\ Threaded(geometry)' = Threaded(geometry)
         /\ blank' = blank => (Serves(geometry)' <=> Serves(geometry))
BY DEF Threaded, Serves, betweenLinks, Even, firstNode, element_count, nodeSize, mSize, afterList, aligned

\* Listed in the next state, of a pool that stays where it is.
LEMMA ListedThen ==
  ASSUME geometry' = geometry
  PROVE  Listed' <=>
           /\ Words(geometry, link') /\ held' \subseteq Threaded(geometry)
           /\ \E n, f : ChainOf(geometry, link', mNext', held', n, f)
           /\ WalkOf(geometry, link', mNext') = Threaded(geometry) \ held'
<1>1. PICK g : g = geometry
  OBVIOUS
<1>2. geometry' = g
  BY <1>1
<1> QED BY <1>1, <1>2 DEF Listed

\* FreeNodes is what can be reached from mNext.
LEMMA FreeWalk ==
  /\ FreeNodes = WalkOf(geometry, link, mNext)
  /\ FreeNodes' = WalkOf(geometry', link', mNext')
BY DEF FreeNodes, WalkOf

\* The nodes threaded at first depend on the geometry alone.
LEMMA FreeThen ==
  ASSUME geometry' = geometry
  PROVE  Pool!Next <=>
           \/ \E n \in Threaded(geometry) \ held :
                 /\ Threaded(geometry) \ held' = (Threaded(geometry) \ held) \ {n}
                 /\ held' = held \cup {n}
           \/ Threaded(geometry) \ held = {} /\ held' = held
           \/ \E n \in held :
                 /\ Threaded(geometry) \ held' = (Threaded(geometry) \ held) \cup {n}
                 /\ held' = held \ {n}
<1>1. Threaded(geometry)' = Threaded(geometry)
  BY SameGeometry
<1> QED BY <1>1 DEF Pool!Next, Pool!Obtain, Pool!Refuse, Pool!Return

\* obtainNode takes the first node, or says that there is none.
LEMMA ObtainKeeps ==
  ASSUME HasList(geometry), Listed, obtainNode, geometry' = geometry
  PROVE  Listed' /\ halt' = halt /\ Pool!Next
<1>1. PICK n, f : ChainOf(geometry, link, mNext, held, n, f)
  BY DEF Listed
<1>2. /\ Words(geometry, link) /\ held \subseteq Threaded(geometry)
      /\ WalkOf(geometry, link, mNext) = Threaded(geometry) \ held
  BY DEF Listed
<1>3. CASE mNext = null
  <2>1. UNCHANGED <<held, link, mNext, halt>>
    BY <1>3 DEF obtainNode
  <2>2. Threaded(geometry) \ held = {}
    <3>1. WalkOf(geometry, link, mNext) = {f[i] : i \in 0 .. n - 1}
      BY <1>1, <1>2, ChainFree
    <3>2. n = 0
      <4>1. n \in Nat /\ f[0] = null /\ \A i \in 0 .. n - 1 : f[i] \in Threaded(geometry)
        BY <1>1, <1>3 DEF ChainOf
      <4>2. null \notin Threaded(geometry)
        BY NodeFacts
      <4>3. ~(0 \in 0 .. n - 1)
        BY <4>1, <4>2
      <4> QED BY <4>1, <4>3
    <3>3. {f[i] : i \in 0 .. n - 1} = {}
      BY <3>2
    <3> QED BY <1>2, <3>1, <3>3
  <2>3. Listed'
    BY <2>1 DEF Listed
  <2>4. Pool!Next
    BY <2>1, <2>2, FreeThen
  <2> QED BY <2>1, <2>3, <2>4
<1>4. CASE mNext # null
  <2>1. mNext \in Threaded(geometry) /\ f[0] = mNext
    <3>1. n \in Nat /\ f[0] = mNext /\ f[n] = null /\ \A i \in 0 .. n - 1 : f[i] \in Threaded(geometry)
      BY <1>1 DEF ChainOf
    <3>2. n # 0
      BY <1>4, <3>1
    <3> QED BY <3>1, <3>2
  <2>2. mNext \in DOMAIN link
    BY <1>2, <2>1, NodeFacts DEF Words
  <2>3. /\ held' = held \cup {mNext} /\ link' = scribbled(mNext)
        /\ mNext' = link[mNext] /\ halt' = halt
    BY <1>4, <2>2 DEF obtainNode
  <2>4. Words(geometry, link') /\ \A b \in Threaded(geometry) \ {mNext} : link'[b] = link[b]
    BY <1>2, <2>1, <2>3, Writing, 0 \in Int
  <2>5. /\ mNext \in Threaded(geometry) \ held
        /\ \E k, e : ChainOf(geometry, link', link[mNext], held \cup {mNext}, k, e)
        /\ WalkOf(geometry, link', link[mNext]) = WalkOf(geometry, link, mNext) \ {mNext}
    <3>1. PICK m, x : m = link' /\ x = link[mNext]
      OBVIOUS
    <3>2. Words(geometry, m) /\ \A b \in Threaded(geometry) \ {mNext} : m[b] = link[b]
      BY <2>4, <3>1
    <3>3. Opens(geometry, link, mNext, held, n, f, x, m)
      BY <1>1, <1>2, <1>4, <3>1, <3>2 DEF Opens
    <3>4. /\ mNext \in Threaded(geometry) \ held
          /\ \E k, e : ChainOf(geometry, m, x, held \cup {mNext}, k, e)
          /\ mNext \in WalkOf(geometry, link, mNext)
          /\ WalkOf(geometry, m, x) = WalkOf(geometry, link, mNext) \ {mNext}
      BY <3>3, ObtainChain
    <3> QED BY <3>1, <3>4
  <2>6. (Threaded(geometry) \ held) \ {mNext} = Threaded(geometry) \ (held \cup {mNext})
    OBVIOUS
  <2>7. Listed'
    <3>1. held' \subseteq Threaded(geometry)
      BY <1>2, <2>1, <2>3
    <3>2. WalkOf(geometry, link', mNext') = Threaded(geometry) \ held'
      BY <1>2, <2>3, <2>5, <2>6
    <3>3. \E k, e : ChainOf(geometry, link', mNext', held', k, e)
      BY <2>3, <2>5
    <3> QED BY <2>4, <3>1, <3>2, <3>3, ListedThen
  <2>8. Pool!Next
    BY <2>3, <2>5, <2>6, FreeThen
  <2> QED BY <2>3, <2>7, <2>8
<1> QED BY <1>3, <1>4

\* returnNode makes a node that was held the first.
LEMMA ReturnKeeps ==
  ASSUME HasList(geometry), Listed, mNext \in Int, NEW p \in held, returnNode(p),
         held' = held \ {p}, geometry' = geometry
  PROVE  Listed' /\ Pool!Next
<1>1. PICK n, f : ChainOf(geometry, link, mNext, held, n, f)
  BY DEF Listed
<1>2. /\ Words(geometry, link) /\ held \subseteq Threaded(geometry) /\ p \in Threaded(geometry)
      /\ WalkOf(geometry, link, mNext) = Threaded(geometry) \ held
  BY DEF Listed
<1>3. link' = stored(p, mNext) /\ mNext' = p
  BY DEF returnNode
<1>4. Words(geometry, link') /\ link'[p] = mNext /\ \A b \in Threaded(geometry) \ {p} : link'[b] = link[b]
  BY <1>2, <1>3, Writing
<1>5. /\ \E k, e : ChainOf(geometry, link', p, held \ {p}, k, e)
      /\ WalkOf(geometry, link', p) = WalkOf(geometry, link, mNext) \cup {p}
  BY <1>1, <1>2, <1>4, ReturnChain
<1>6. (Threaded(geometry) \ held) \cup {p} = Threaded(geometry) \ (held \ {p})
  BY <1>2
<1>7. Listed'
  <2>1. held' \subseteq Threaded(geometry)
    BY <1>2
  <2>2. WalkOf(geometry, link', mNext') = Threaded(geometry) \ held'
    BY <1>2, <1>3, <1>5, <1>6
  <2>3. \E k, e : ChainOf(geometry, link', mNext', held', k, e)
    BY <1>3, <1>5
  <2> QED BY <1>4, <2>1, <2>2, <2>3, ListedThen
<1>8. Pool!Next
  BY <1>6, FreeThen
<1> QED BY <1>7, <1>8

\* The nodes of a list, and those that are held, share no byte.
LEMMA ListedApart ==
  ASSUME geometry \in Geometries, Serves(geometry) => Listed
  PROVE  NodesApart
<1> SUFFICES ASSUME Serves(geometry), NEW a \in held \cup FreeNodes
             PROVE  /\ Extent(a) \subseteq afterList(geometry) .. afterList(geometry) + mSize(geometry) - 1
                    /\ \A b \in (held \cup FreeNodes) \ {a} : Extent(a) \cap Extent(b) = {}
  BY DEF NodesApart
<1>1. HasList(geometry) /\ Listed
  BY DEF HasList, Serves
<1>2. held \cup FreeNodes \subseteq Threaded(geometry)
  BY <1>1, FreeWalk DEF Listed
<1>3. PICK n \in Nat : n = nodeSize(geometry)
  BY Layout
<1>4. \A x \in Threaded(geometry) : Extent(x) = x .. x + n - 1
  <2> SUFFICES ASSUME NEW x \in Threaded(geometry) PROVE Extent(x) = x .. x + n - 1
    OBVIOUS
  <2>1. x \in Nat /\ geometry.size \in Nat /\ geometry.offset \in Nat
    BY <1>1, NodeFacts, GeometryAssumption
  <2>2. x + geometry.size + 2 * geometry.offset - 1 = x + n - 1
    BY <1>3, <2>1 DEF nodeSize
  <2> QED BY <2>2 DEF Extent
<1>5. /\ \A x \in Threaded(geometry) : x \in Nat /\ x >= afterList(geometry)
                                    /\ x + n =< afterList(geometry) + mSize(geometry)
      /\ \A x, y \in Threaded(geometry) : x < y => x + n =< y
      /\ afterList(geometry) \in Nat /\ mSize(geometry) \in Nat
  BY <1>1, <1>3, NodeFacts, Layout
<1>6. Extent(a) \subseteq afterList(geometry) .. afterList(geometry) + mSize(geometry) - 1
  BY <1>2, <1>3, <1>4, <1>5
<1>7. ASSUME NEW b \in (held \cup FreeNodes) \ {a} PROVE Extent(a) \cap Extent(b) = {}
  <2>1. a \in Threaded(geometry) /\ b \in Threaded(geometry) /\ a # b
    BY <1>2
  <2>2. a \in Nat /\ b \in Nat /\ (a + n =< b \/ b + n =< a)
    BY <1>5, <2>1
  <2> QED BY <1>3, <1>4, <2>1, <2>2
<1> QED BY <1>6, <1>7

-----------------------------------------------------------------------------
(* The invariant *)

\* While the pool is used, the linear allocator's pointer is behind it.
Behind ==
  inLinear /\ Running =>
    /\ mCurrent >= geometry.start + mSize(geometry)
    /\ (geometry.start + geometry.offset) % 8 = 0

PoolInv ==
  /\ TypeOK /\ InOrder /\ Behind
  /\ Undisturbed /\ Serves(geometry) => Listed

\* What is asked for is a request the linear allocator can serve, the pool's own included.
LEMMA Asked ==
  /\ \A r \in Requests : Request(r)
  /\ \A g \in Geometries : Request(poolRequest(g))
<1>1. \A r \in Requests : Request(r)
  BY LinearAssumption DEF Request
<1>2. ASSUME NEW g \in Geometries PROVE Request(poolRequest(g))
  <2>1. mSize(g) \in Nat /\ g.offset \in Nat
    BY Layout
  <2>2. g.alignment \in Nat /\ (g.alignment < 8 \/ g.alignment % 8 = 0)
    <3>1. g.alignment \in {4, 8, 16, 32, 64}
      BY GeometryAssumption
    <3> QED BY <3>1
  <2>3. /\ poolRequest(g).size = mSize(g) + PointerSize /\ poolRequest(g).alignment = g.alignment
        /\ poolRequest(g).offset = g.offset
    BY DEF poolRequest
  <2> QED BY <2>1, <2>2, <2>3 DEF Request, PointerSize
<1> QED BY <1>1, <1>2

\* The pool's block ends where the pointer is.
LEMMA FirstBlock ==
  ASSUME geometry \in Geometries, NEW g, NEW b, b = blockOf(poolRequest(g), LinearStart),
         geometry = At(g, b.at), mCurrent = after(poolRequest(g), LinearStart), given = {b}
  PROVE  InOrder /\ Behind
<1>1. /\ geometry.size = g.size /\ geometry.count = g.count /\ geometry.alignment = g.alignment
      /\ geometry.offset = g.offset /\ geometry.start = b.at
  BY DEF At
<1>2. mSize(g) = mSize(geometry) /\ poolRequest(g) = poolRequest(geometry)
  BY <1>1 DEF mSize, poolRequest
<1>3. PICK r : r = poolRequest(geometry)
  OBVIOUS
<1>4. Request(r) /\ r.size = mSize(geometry) + PointerSize /\ r.offset = geometry.offset
  BY <1>3, Asked DEF poolRequest
<1>5. PICK h \in Int : h = headerOf(r, LinearStart)
  BY <1>4, Headers, LinearAssumption
<1>6. (h + WordSize + r.offset) % 8 = 0
  BY <1>4, <1>5, Headers, LinearAssumption
<1>7. b.at = h + WordSize /\ b.size = r.size /\ mCurrent = h + r.size
  BY <1>2, <1>3, <1>5 DEF blockOf, after
<1>8. mSize(geometry) \in Nat
  BY Layout
<1>9. InOrder
  BY <1>4, <1>5, <1>7 DEF InOrder, WordSize, Request
<1>10. mCurrent = geometry.start + mSize(geometry) /\ geometry.start + geometry.offset = h + WordSize + r.offset
  BY <1>1, <1>4, <1>5, <1>7, <1>8 DEF WordSize, PointerSize
<1>11. geometry.start \in Int /\ mCurrent \in Int
  BY <1>1, <1>5, <1>7, <1>9 DEF WordSize, InOrder
<1> QED BY <1>6, <1>8, <1>9, <1>10, <1>11 DEF Behind

\* The program begins with it.
LEMMA InitPool == PoolInit => PoolInv
<1> SUFFICES ASSUME PoolInit PROVE PoolInv
  OBVIOUS
<1>1. /\ geometry \in Geometries /\ held = {} /\ alarm = FALSE /\ mCount \in 0 .. CountLimit - 1
      /\ IF element_count(geometry) < 0
         THEN halt = "fault" /\ link = <<>> /\ mNext = null
         ELSE /\ halt = "no" /\ mNext = firstNode(geometry)
              /\ link = linked(geometry, IF blank THEN null ELSE junk)
  BY DEF PoolInit, Init
<1>2. element_count(geometry) \in Int /\ firstNode(geometry) \in Int
  BY <1>1, Layout
<1>3. TypeOK
  <2>1. mNext \in Int /\ \A a \in DOMAIN link : a \in Int /\ link[a] \in Int
    <3>1. CASE element_count(geometry) < 0
      <4>1. DOMAIN link = {}
        BY <1>1, <3>1
      <4> QED BY <1>1, <3>1, <4>1 DEF null
    <3>2. CASE ~(element_count(geometry) < 0)
      <4>1. Bytes(geometry) \subseteq Int
        BY DEF Bytes
      <4> QED BY <1>1, <1>2, <3>2, <4>1 DEF linked, null, junk
    <3> QED BY <3>1, <3>2
  <2> QED BY <1>1, <2>1 DEF TypeOK
<1>4. InOrder /\ Behind
  <2>1. CASE inLinear
    <3>1. PICK g \in LinearShapes :
              LET b == blockOf(poolRequest(g), LinearStart)
              IN  /\ geometry = At(g, b.at)
                  /\ mCurrent = after(poolRequest(g), LinearStart)
                  /\ given = {b}
      BY <2>1 DEF PoolInit
    <3>2. PICK b : b = blockOf(poolRequest(g), LinearStart)
      OBVIOUS
    <3> QED BY <1>1, <3>1, <3>2, FirstBlock
  <2>2. CASE ~inLinear
    <3>1. Start
      BY <2>2 DEF PoolInit
    <3> QED BY <2>2, <3>1, LinearAssumption DEF Start, InOrder, Behind
  <2> QED BY <2>1, <2>2
<1>5. ASSUME Serves(geometry) PROVE Listed
  <2>1. HasList(geometry) /\ (Even(geometry) \/ blank)
    BY <1>1, <1>5 DEF HasList, Serves
  <2>2. PICK rest \in {null, junk} : rest = IF blank THEN null ELSE junk
    OBVIOUS
  <2>3. link = linked(geometry, rest) /\ mNext = firstNode(geometry)
    BY <1>1, <1>2, <1>5, <2>2 DEF Serves
  <2>4. Even(geometry) \/ rest = null
    BY <2>1, <2>2
  <2>5. /\ Words(geometry, link) /\ \E n, f : ChainOf(geometry, link, mNext, {}, n, f)
        /\ WalkOf(geometry, link, mNext) = Threaded(geometry)
    BY <2>1, <2>3, <2>4, FirstList
  <2>6. held = {} /\ Threaded(geometry) \ {} = Threaded(geometry)
    BY <1>1
  <2> QED BY <2>5, <2>6 DEF Listed
<1> QED BY <1>3, <1>4, <1>5 DEF PoolInv

\* Every variable keeps its type.
LEMMA TypesKept == ASSUME TypeOK, [PoolNext]_allVars PROVE TypeOK'
<1>0. CountLimit \in Nat \ {0}
  BY GeometryAssumption
<1>1. \A a \in Int, v \in Int :
          /\ DOMAIN scribbled(a) = DOMAIN link /\ DOMAIN stored(a, v) = DOMAIN link
          /\ \A b \in DOMAIN link : scribbled(a)[b] \in Int /\ stored(a, v)[b] \in Int
  BY DEF scribbled, stored, junk, TypeOK
<1>2. CASE allocate
  <2>1. mCount' \in 0 .. CountLimit - 1
    <3>1. mCount + 1 \in Int
      BY <1>0 DEF TypeOK
    <3> QED BY <1>0, <1>2, <3>1, Remainder DEF allocate
  <2>2. mNext' \in Int /\ (\A a \in DOMAIN link' : a \in Int /\ link'[a] \in Int) /\ held' \subseteq DOMAIN link'
        /\ halt' \in {halt, "undefined"}
    <3>1. CASE mNext = null \/ mNext \notin DOMAIN link
      BY <1>2, <3>1 DEF allocate, obtainNode, TypeOK
    <3>2. CASE mNext # null /\ mNext \in DOMAIN link
      <4>1. /\ held' = held \cup {mNext} /\ link' = scribbled(mNext)
            /\ mNext' = link[mNext] /\ halt' = halt
        BY <1>2, <3>2 DEF allocate, obtainNode
      <4>2. DOMAIN link' = DOMAIN link /\ \A b \in DOMAIN link : link'[b] \in Int
        BY <1>1, <4>1, 0 \in Int DEF TypeOK
      <4> QED BY <3>2, <4>1, <4>2 DEF TypeOK
    <3> QED BY <3>1, <3>2
  <2> QED BY <1>2, <2>1, <2>2 DEF allocate, TypeOK
<1>3. ASSUME NEW p \in held, deallocate(p) PROVE TypeOK'
  <2>1. mCount' \in 0 .. CountLimit - 1
    <3>1. mCount - 1 \in Int
      BY <1>0 DEF TypeOK
    <3> QED BY <1>0, <1>3, <3>1, Remainder DEF deallocate
  <2>2. link' = stored(p, mNext) /\ mNext' = p /\ held' = held \ {p}
    BY <1>3 DEF deallocate, returnNode
  <2>3. ASSUME p \in Int PROVE mNext' \in Int /\ DOMAIN link' = DOMAIN link /\ \A a \in DOMAIN link' : link'[a] \in Int
    BY <1>1, <2>2, <2>3 DEF TypeOK
  <2>4. p \in Int
    BY DEF TypeOK
  <2> QED BY <1>3, <2>1, <2>2, <2>3, <2>4 DEF deallocate, TypeOK
<1>4. CASE Destroy
  BY <1>4 DEF Destroy, TypeOK
<1>5. ASSUME NEW r \in Requests, OtherRequest(r) PROVE TypeOK'
  <2>1. CASE link' = link
    BY <1>5, <2>1 DEF OtherRequest, TypeOK
  <2>2. CASE link' = stored(headerOf(r, mCurrent), junk)
    BY <1>5, <2>2 DEF OtherRequest, TypeOK, stored, junk
  <2> QED BY <1>5, <2>1, <2>2 DEF OtherRequest
<1>6. CASE Reset \/ UNCHANGED allVars
  BY <1>6 DEF Reset, allVars, pool, vars, TypeOK
<1> QED BY <1>2, <1>3, <1>4, <1>5, <1>6 DEF PoolNext, PoolStep

\* What others ask for behind the pool leaves the words of its nodes alone.
LEMMA OthersStayOut ==
  ASSUME PoolInv, Undisturbed, Serves(geometry), NEW r \in Requests, OtherRequest(r)
  PROVE  Words(geometry, link') /\ \A b \in Threaded(geometry) : link'[b] = link[b]
<1>1. geometry \in Geometries /\ HasList(geometry) /\ Words(geometry, link)
  BY DEF PoolInv, TypeOK, HasList, Serves, Listed
<1>2. PICK h \in Int : h = headerOf(r, mCurrent)
  BY Asked, Headers DEF PoolInv, InOrder
<1>3. h >= mCurrent /\ (h + WordSize + r.offset) % 8 = 0 /\ mCurrent \in Int /\ r.offset \in Nat
  BY <1>2, Asked, Headers DEF PoolInv, InOrder, Request
<1>4. PICK s \in Nat : s = geometry.start
  BY <1>1, Layout
<1>5. PICK m \in Nat : m = mSize(geometry)
  BY <1>1, Layout
<1>6. PICK o \in Nat : o = geometry.offset
  BY <1>1, Layout
<1>7. mCurrent >= s + m /\ (s + o) % 8 = 0
  BY <1>4, <1>5, <1>6 DEF PoolInv, Behind, OtherRequest
<1>8. Whole(m + PointerSize) /\ (r.offset - o) % 8 = 0
  BY <1>5, <1>6 DEF Undisturbed, poolRequest, OtherRequest
<1>9. h >= s + m + PointerSize
  <2>1. (h + WordSize - s) % 8 = 0 /\ h + WordSize - s \in Int
    BY <1>3, <1>7, <1>8 DEF WordSize
  <2>2. h + WordSize - s >= m + PointerSize /\ m + PointerSize \in Nat
    BY <1>3, <1>7 DEF WordSize, PointerSize
  <2>3. h + WordSize - s >= m + PointerSize + WordSize
    BY <1>8, <2>1, <2>2, BehindWhole
  <2> QED BY <2>3 DEF WordSize, PointerSize
<1>10. ASSUME NEW b \in Threaded(geometry)
       PROVE  b \in Bytes(geometry) /\ b # h /\ b \notin touched(h, h + PointerSize - 1)
  <2>1. PICK n \in Nat : n = nodeSize(geometry) /\ n >= PointerSize
    BY <1>1, Layout
  <2>2. /\ b \in Nat /\ b + n =< afterList(geometry) + m /\ afterList(geometry) = s + PointerSize
        /\ b \in Bytes(geometry)
    BY <1>1, <1>4, <1>5, <2>1, NodeFacts DEF afterList
  <2> QED BY <1>9, <2>1, <2>2 DEF touched, PointerSize
<1>11. DOMAIN link = Bytes(geometry) /\ \A b \in Bytes(geometry) : link[b] \in Int
  BY <1>1 DEF Words
<1>12. /\ Words(geometry, stored(h, junk))
       /\ \A b \in Threaded(geometry) : stored(h, junk)[b] = link[b]
  BY <1>10, <1>11 DEF stored, Words, junk
<1>13. link' = link \/ link' = stored(h, junk)
  BY <1>2 DEF OtherRequest
<1> QED BY <1>1, <1>12, <1>13

\* A list goes by the words of the nodes alone.
LEMMA SameList ==
  ASSUME HasList(geometry), Listed, Words(geometry, link'), UNCHANGED <<geometry, mNext, held>>,
         \A b \in Threaded(geometry) : link'[b] = link[b]
  PROVE  Listed'
<1>1. PICK n, f : ChainOf(geometry, link, mNext, held, n, f)
  BY DEF Listed
<1>2. PICK m : m = link'
  OBVIOUS
<1>3. Words(geometry, link) /\ Words(geometry, m) /\ \A b \in Threaded(geometry) : m[b] = link[b]
  BY <1>2 DEF Listed
<1>4. ChainOf(geometry, m, mNext, held, n, f)
  BY <1>1, <1>3 DEF ChainOf
<1>5. /\ WalkOf(geometry, link, mNext) = {f[i] : i \in 0 .. n - 1}
      /\ WalkOf(geometry, m, mNext) = {f[i] : i \in 0 .. n - 1}
  BY <1>1, <1>3, <1>4, ChainFree
<1>6. /\ held \subseteq Threaded(geometry)
      /\ WalkOf(geometry, m, mNext) = Threaded(geometry) \ held
  BY <1>5 DEF Listed
<1>7. mNext' = mNext /\ held' = held /\ \E k, e : ChainOf(geometry, m, mNext, held, k, e)
  BY <1>4
<1> QED BY <1>2, <1>3, <1>6, <1>7, ListedThen

\* Every step keeps the invariant, and a step of an undisturbed pool is one of an abstract
\* pool.
LEMMA StepPool ==
  ASSUME PoolInv, [PoolNext]_allVars
  PROVE  PoolInv' /\ [Undisturbed /\ Serves(geometry) => Pool!Next]_<<held, mCount>>
<1>1. TypeOK' /\ TypeOK /\ InOrder /\ Behind /\ (Undisturbed /\ Serves(geometry) => Listed)
  BY TypesKept DEF PoolInv
<1>2. geometry \in Geometries /\ (Serves(geometry) => HasList(geometry))
  BY <1>1 DEF TypeOK, HasList, Serves
<1>3. CASE allocate /\ UNCHANGED <<linear, inLinear>>
  <2>1. UNCHANGED <<geometry, blank>> /\ obtainNode /\ Running
    BY <1>3 DEF allocate
  <2>2. InOrder' /\ Behind' /\ (Serves(geometry)' <=> Serves(geometry)) /\ (Undisturbed' <=> Undisturbed)
    BY <1>1, <1>3, <2>1, SameGeometry DEF linear, InOrder, Behind, Undisturbed, Running
  <2>3. Undisturbed /\ Serves(geometry) => Listed' /\ Pool!Next
    BY <1>1, <1>2, <2>1, ObtainKeeps
  <2> QED BY <1>1, <2>2, <2>3 DEF PoolInv
<1>4. ASSUME NEW p \in held, deallocate(p), UNCHANGED <<linear, inLinear>>
      PROVE  PoolInv' /\ [Undisturbed /\ Serves(geometry) => Pool!Next]_<<held, mCount>>
  <2>1. UNCHANGED <<geometry, blank>> /\ returnNode(p) /\ held' = held \ {p} /\ halt' = halt
    BY <1>4 DEF deallocate
  <2>2. InOrder' /\ Behind' /\ (Serves(geometry)' <=> Serves(geometry)) /\ (Undisturbed' <=> Undisturbed)
    BY <1>1, <1>4, <2>1, SameGeometry DEF linear, InOrder, Behind, Undisturbed, Running
  <2>3. Undisturbed /\ Serves(geometry) => Listed' /\ Pool!Next
    BY <1>1, <1>2, <2>1, ReturnKeeps DEF TypeOK
  <2> QED BY <1>1, <2>2, <2>3 DEF PoolInv
<1>5. CASE Destroy /\ UNCHANGED <<linear, inLinear>>
  <2>1. UNCHANGED <<geometry, blank, link, mNext, mCount, held>> /\ halt' = "destroyed"
    BY <1>5 DEF Destroy
  <2>2. InOrder' /\ Behind' /\ (Serves(geometry)' <=> Serves(geometry)) /\ (Undisturbed' <=> Undisturbed) /\ (Listed' <=> Listed)
    BY <1>1, <1>5, <2>1, SameGeometry DEF linear, InOrder, Behind, Undisturbed, Running, Listed
  <2> QED BY <1>1, <2>1, <2>2 DEF PoolInv
<1>6. ASSUME NEW r \in Requests, OtherRequest(r)
      PROVE  PoolInv' /\ [Undisturbed /\ Serves(geometry) => Pool!Next]_<<held, mCount>>
  <2>1. UNCHANGED <<geometry, blank, mNext, mCount, held, alarm, halt, inLinear>> /\ allocateLinear(r)
    BY <1>6 DEF OtherRequest
  <2>2. InOrder' /\ mCurrent' >= mCurrent
    BY <1>1, <2>1, Asked, RequestInOrder
  <2>3. Behind' /\ (Serves(geometry)' <=> Serves(geometry)) /\ (Undisturbed' <=> Undisturbed)
    <3>1. mSize(geometry) \in Nat /\ geometry.start \in Nat
      BY <1>2, Layout
    <3>2. mCurrent \in Int /\ mCurrent' \in Int
      BY <1>1, <2>2 DEF InOrder
    <3> QED BY <1>1, <2>1, <2>2, <3>1, <3>2, SameGeometry DEF Behind, Undisturbed, Running
  <2>4. Undisturbed /\ Serves(geometry) => Listed'
    <3> SUFFICES ASSUME Undisturbed, Serves(geometry) PROVE Listed'
      OBVIOUS
    <3>1. Words(geometry, link') /\ \A b \in Threaded(geometry) : link'[b] = link[b]
      BY <1>6, OthersStayOut
    <3> QED BY <1>1, <1>2, <2>1, <3>1, SameList
  <2> QED BY <1>1, <2>1, <2>2, <2>3, <2>4 DEF PoolInv
<1>7. CASE Reset
  <2>1. UNCHANGED <<geometry, blank, link, mNext, mCount, held, alarm, halt, inLinear>> /\ ~Running /\ reset
    BY <1>7 DEF Reset, pool, vars, Running
  <2>2. InOrder'
    BY <2>1, LinearAssumption DEF reset, InOrder
  <2>3. Behind' /\ (Serves(geometry)' <=> Serves(geometry)) /\ (Undisturbed' <=> Undisturbed) /\ (Listed' <=> Listed)
    BY <2>1, SameGeometry DEF Behind, Undisturbed, Running, Listed
  <2> QED BY <1>1, <2>1, <2>2, <2>3 DEF PoolInv
<1>8. CASE UNCHANGED allVars
  <2>1. UNCHANGED <<geometry, blank, link, mNext, mCount, held, alarm, halt, inLinear, mCurrent, given>>
    BY <1>8 DEF allVars, pool, vars, linear
  <2>2. InOrder' /\ Behind' /\ (Serves(geometry)' <=> Serves(geometry)) /\ (Undisturbed' <=> Undisturbed) /\ (Listed' <=> Listed)
    BY <1>1, <2>1, SameGeometry DEF InOrder, Behind, Undisturbed, Running, Listed
  <2> QED BY <1>1, <2>1, <2>2 DEF PoolInv
<1> QED BY <1>3, <1>4, <1>5, <1>6, <1>7, <1>8 DEF PoolNext, PoolStep

\* The invariant holds in every state.
THEOREM PoolInvariant == PoolSpec => []PoolInv
<1>1. PoolInv /\ [PoolNext]_<<pool, linear, inLinear>> => PoolInv'
  BY StepPool DEF allVars
<1> QED BY InitPool, <1>1, PTL DEF PoolSpec

\* Every variable has its type: mCount is a word, and no node is held that is outside the
\* pool's memory.
THEOREM PoolTypes == PoolSpec => []TypeOK
<1>1. PoolInv => TypeOK
  BY DEF PoolInv
<1> QED BY PoolInvariant, <1>1, PTL

\* Two blocks of the linear allocator share no byte if the lower one is whole.
THEOREM BlocksStayApart == PoolSpec => []BlocksApart
<1>1. PoolInv => BlocksApart
  BY InOrderApart DEF PoolInv
<1> QED BY PoolInvariant, <1>1, PTL

\* The nodes in the list of a pool that serves, and those held, share no byte, neither with
\* one another nor with what is allocated behind the pool.
THEOREM NodesStayApart == PoolSpec => []NodesApartThere
<1>1. PoolInv => NodesApartThere
  <2> SUFFICES ASSUME PoolInv, Undisturbed PROVE NodesApart
    BY DEF NodesApartThere
  <2>1. geometry \in Geometries /\ (Serves(geometry) => Listed)
    BY DEF PoolInv, TypeOK
  <2> QED BY <2>1, ListedApart
<1> QED BY PoolInvariant, <1>1, PTL

\* obtainNode and returnNode are the operations of a pool of the nodes threaded at first: it
\* loses none of them, hands none out twice, and refuses only when all of them are held.
THEOREM ImplementsPool == PoolSpec => KeepsThePoolThere
<1>1. PoolInv /\ [PoolNext]_<<pool, linear, inLinear>> =>
          [Undisturbed /\ Serves(geometry) => Pool!Next]_<<held, mCount>>
  BY StepPool DEF allVars
<1> QED BY PoolInvariant, <1>1, PTL DEF PoolSpec, KeepsThePoolThere
===============================================================================
