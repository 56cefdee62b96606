---------------------------- MODULE PoolAllocator ----------------------------
(***************************************************************************)
(* PoolAllocator (src/PoolAllocator.cpp) and the FreeList it puts in front *)
(* of its nodes (src/FreeList.cpp): a singly linked list threaded through  *)
(* the free nodes.  Neither takes a lock; this is the pool of one thread.  *)
(* Addresses and sizes are bytes, as in the code.                          *)
(***************************************************************************)
EXTENDS Integers, FiniteSets

CONSTANTS
    Geometries,           \* arguments of the constructor, [size, count, alignment, offset],
                          \* and what mAllocator returns, start
    CountLimit            \* mCount is a word: it counts modulo CountLimit

PointerSize == 4          \* also sizeof(FreeList)
null == 0
junk == -1                \* a word that is not a link

ASSUME GeometryAssumption ==
    /\ CountLimit \in Nat \ {0}
    /\ \A g \in Geometries :
          /\ g.size \in Nat /\ g.count \in Nat \ {0} /\ g.offset \in Nat
          /\ g.alignment \in {4, 8, 16, 32, 64}
          /\ g.size + 2 * g.offset >= PointerSize
          /\ g.start \in Nat \ {0}

VARIABLES
    geometry,             \* the pool's
    blank,                \* its memory was all zero before the list was made
    link,                 \* what the word at each byte of the pool reads as
    mNext, mCount,
    held,                 \* the nodes the client has
    alarm,                \* an ASSERT_ERROR fired
    halt                  \* "no", or what ended the run

vars == <<geometry, blank, link, mNext, mCount, held, alarm, halt>>

aligned(a, alignment) == ((a + alignment - 1) \div alignment) * alignment

nodeSize(g) == g.size + 2 * g.offset

\* The constructor rounds the size of an element down.
mSize(g) == ((g.size + 2 * g.offset) \div g.alignment) * g.alignment * g.count + g.alignment

afterList(g)   == g.start + PointerSize
firstNode(g)   == aligned(afterList(g) + g.offset, g.alignment) - g.offset

\* The number of nodes less one; negative where the unsigned subtraction wraps around.
element_count(g) == (mSize(g) - (firstNode(g) - afterList(g))) \div nodeSize(g) - 1

node(g, i)  == firstNode(g) + i * nodeSize(g)
Nodes(g)    == {node(g, i) : i \in 0 .. element_count(g)}
Bytes(g)    == firstNode(g) .. node(g, element_count(g)) + nodeSize(g) - 1

\* The word at byte a shares no byte with the head of a node, where the links are.
betweenLinks(g, a) == (a - firstNode(g)) % nodeSize(g) \in PointerSize .. nodeSize(g) - PointerSize

\* Slip: a node follows the guard bytes of one side only.
linkedOneGuard(g, rest) ==
    [a \in Bytes(g) |->
        IF a = node(g, element_count(g)) THEN null
        ELSE IF (a - firstNode(g)) % nodeSize(g) = 0 THEN a + g.size + g.offset
        ELSE IF betweenLinks(g, a) THEN rest ELSE junk]

\* Each node but the last points element_count bytes further; what is in the other words is
\* what was in memory.
linked(g, rest) ==
    [a \in Bytes(g) |->
        IF a = node(g, element_count(g)) THEN null
        ELSE IF (a - firstNode(g)) % nodeSize(g) = 0 THEN a + element_count(g)
        ELSE IF betweenLinks(g, a) THEN rest ELSE junk]

\* The words that share a byte with a .. b.
touched(a, b) == a - PointerSize + 1 .. b

\* The client may write to all of a node it has.
scribbled(a) ==
    [b \in DOMAIN link |-> IF b \in touched(a, a + nodeSize(geometry) - 1) THEN junk ELSE link[b]]

stored(a, value) ==
    [b \in DOMAIN link |->
        IF b = a THEN value ELSE IF b \in touched(a, a + PointerSize - 1) THEN junk ELSE link[b]]

-----------------------------------------------------------------------------
Running == halt = "no"

Init ==
    /\ geometry \in Geometries /\ blank \in BOOLEAN
    /\ held = {} /\ alarm = FALSE
    /\ mCount \in 0 .. CountLimit - 1       \* not initialized
    /\ IF element_count(geometry) < 0
       THEN halt = "fault" /\ link = <<>> /\ mNext = null
       ELSE /\ halt = "no" /\ mNext = firstNode(geometry)
            /\ link = linked(geometry, IF blank THEN null ELSE junk)

\* What is not a link may be any address.
obtainNode ==
    IF mNext = null THEN UNCHANGED <<held, link, mNext, halt>>
    ELSE IF mNext \notin DOMAIN link
    THEN halt' = "undefined" /\ UNCHANGED <<held, link, mNext>>
    ELSE /\ held' = held \cup {mNext} /\ link' = scribbled(mNext)
         /\ mNext' = link[mNext] /\ halt' = halt

\* Slip: the node is put in front, but what was there is forgotten.
returnNodeAlone(p) == link' = stored(p, null) /\ mNext' = p

returnNode(p) == link' = stored(p, mNext) /\ mNext' = p

allocate ==
    /\ Running
    /\ mCount' = (mCount + 1) % CountLimit
    /\ obtainNode
    /\ UNCHANGED <<geometry, blank, alarm>>

\* Slip: a count that can be negative.
deallocateSigned(p) ==
    /\ Running
    /\ alarm' = (alarm \/ p >= geometry.start + mSize(geometry))
    /\ mCount' = mCount - 1
    /\ held' = held \ {p}
    /\ returnNode(p)
    /\ UNCHANGED <<geometry, blank, halt>>

deallocate(p) ==
    /\ Running
    /\ alarm' = (alarm \/ p >= geometry.start + mSize(geometry))
    /\ mCount' = (mCount - 1) % CountLimit
    /\ held' = held \ {p}
    /\ returnNode(p)
    /\ UNCHANGED <<geometry, blank, halt>>

Destroy ==
    /\ Running
    /\ alarm' = (alarm \/ mCount # 0)
    /\ halt' = "destroyed"
    /\ UNCHANGED <<geometry, blank, link, mNext, mCount, held>>

Next == allocate \/ (\E p \in held : deallocate(p)) \/ Destroy

Spec == Init /\ [][Next]_vars

-----------------------------------------------------------------------------
(* Properties.  The links of FreeList are element_count bytes apart, however large
   a node is: few of the nodes there is room for are in the list. *)

\* The links meet nodes: the last of them is null.
Even(g) == element_count(g) % nodeSize(g) = 0

\* What the list has at first: from the first node, what each link leads to.  If the second is
\* no node, what was in memory there must have been null.
Threaded(g) == {firstNode(g) + i * element_count(g) : i \in 0 .. IF Even(g) THEN nodeSize(g) ELSE 1}

\* The pools that go on working: Even ones, and others in blank memory whose second node lies
\* behind the first and between two links.  The Scheduler's are such (127 and 1023 bytes from
\* node to node, a node having 56): each has two nodes.  In any other the list leaves the pool
\* or ends in a word that the client has written to.
Serves(g) ==
    /\ element_count(g) >= 0
    /\ \/ Even(g)
       \/ blank /\ element_count(g) > nodeSize(g) /\ betweenLinks(g, firstNode(g) + element_count(g))

Extent(a) == a .. a + geometry.size + 2 * geometry.offset - 1

FreeNodes ==
    LET follow  == [a \in Int |-> IF a \in DOMAIN link THEN link[a] ELSE null]
        walk[i \in Nat] == IF i = 0 THEN mNext ELSE follow[walk[i - 1]]
    IN  {walk[i] : i \in 0 .. element_count(geometry)} \ {null}

\* Every variable has its type.
TypeOK ==
    /\ geometry \in Geometries
    /\ mNext \in Int /\ \A a \in DOMAIN link : a \in Int /\ link[a] \in Int
    /\ mCount \in 0 .. CountLimit - 1
    /\ held \subseteq DOMAIN link
    /\ alarm \in BOOLEAN /\ halt \in {"no", "fault", "undefined", "destroyed"}

\* No two nodes, held or in the list, share a byte, and each lies in the pool.
NodesApart ==
    LET nodes == held \cup FreeNodes
        bytes == afterList(geometry) .. afterList(geometry) + mSize(geometry) - 1
    IN  Serves(geometry) => \A a \in nodes :
            /\ Extent(a) \subseteq bytes
            /\ \A b \in nodes \ {a} : Extent(a) \cap Extent(b) = {}

\* The nodes threaded at first are the pool's for good: it hands out one that is not held,
\* and refuses only when all of them are held, whatever the client writes to its nodes and in
\* whatever order it returns them.  (The other nodes there is room for are lost from the
\* beginning: see NodesLost.)
Pool == INSTANCE NodePool WITH free <- Threaded(geometry) \ held
KeepsThePool == [][Serves(geometry) => Pool!Next]_<<held, mCount>>
=============================================================================
