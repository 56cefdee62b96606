----------------------------- MODULE PoolInLinear -----------------------------
(***************************************************************************)
(* A PoolAllocator whose memory comes from another allocator: from a       *)
(* LinearAllocator that goes on serving other requests, or from one that   *)
(* leaves it alone.                                                        *)
(***************************************************************************)
EXTENDS PoolAllocator, LinearAllocator

CONSTANTS
    Shapes,                   \* pools by themselves: arguments of the constructor
    LinearShapes,             \* pools in the linear allocator: the same
    MaxHeld,                  \* bound: nodes held of a pool in the linear allocator
    MaxGiven                  \* bound: blocks of the linear allocator

VARIABLE inLinear             \* the pool's memory is the linear allocator's

pool == vars

\* What PoolAllocator::init asks its allocator for.
poolRequest(g) == [size |-> mSize(g) + PointerSize, alignment |-> g.alignment, offset |-> g.offset]

\* mStart + offset is aligned, or mStart itself if kDefaultAlignment is enough.
generalStart(g) ==
    IF g.alignment =< 8 THEN 8 ELSE aligned(g.offset + 1, g.alignment) - g.offset

At(g, start) == [size |-> g.size, count |-> g.count, alignment |-> g.alignment,
                 offset |-> g.offset, start |-> start]

Placed ==
    {At(g, generalStart(g)) : g \in Shapes} \cup
    {At(g, blockOf(poolRequest(g), LinearStart).at) : g \in LinearShapes}

PoolInit ==
    /\ Init
    /\ inLinear \in BOOLEAN
    /\ IF inLinear
       THEN \E g \in LinearShapes :
                LET b == blockOf(poolRequest(g), LinearStart)
                IN  /\ geometry = At(g, b.at)
                    /\ mCurrent = after(poolRequest(g), LinearStart) /\ ~isOut(mCurrent)
                    /\ given = {b}
       ELSE (\E g \in Shapes : geometry = At(g, generalStart(g))) /\ Start

PoolStep ==
    /\ \/ allocate /\ (inLinear => Cardinality(held) < MaxHeld)
       \/ \E p \in held : deallocate(p)
       \/ Destroy
    /\ UNCHANGED <<linear, inLinear>>

\* Another client of the linear allocator: the size is stored, over the pool if it is there.
\* Bound: no request after the first that does not fit; what follows does not fit either.
OtherRequest(r) ==
    /\ Running /\ inLinear /\ ~isOut(mCurrent) /\ Cardinality(given) < MaxGiven
    /\ allocateLinear(r)
    /\ link' = IF ~isOut(mCurrent') /\ DOMAIN link \cap touched(headerOf(r, mCurrent), headerOf(r, mCurrent) + WordSize - 1) # {}
               THEN stored(headerOf(r, mCurrent), junk) ELSE link
    /\ UNCHANGED <<geometry, blank, mNext, mCount, held, alarm, halt, inLinear>>

\* The linear allocator is reset when the pool is gone.
Reset ==
    /\ halt = "destroyed" /\ inLinear /\ given # {}
    /\ reset
    /\ UNCHANGED <<pool, inLinear>>

PoolNext == PoolStep \/ (\E r \in Requests : OtherRequest(r)) \/ Reset

PoolSpec == PoolInit /\ [][PoolNext]_<<pool, linear, inLinear>>

-----------------------------------------------------------------------------
(* Properties *)

\* The pool's block is whole, and the others ask for its offset modulo 8: a header of
\* another offset may cover the last bytes of the block all the same.
Undisturbed ==
    inLinear => /\ Whole(poolRequest(geometry).size)
                /\ \A r \in Requests : (r.offset - geometry.offset) % 8 = 0

\* NodesApart and KeepsThePool, for a pool by itself and for one in a linear allocator whose
\* block is whole: what is allocated behind it leaves its links alone.
NodesApartThere == Undisturbed => NodesApart

KeepsThePoolThere == [][Undisturbed /\ Serves(geometry) => Pool!Next]_<<held, mCount>>
=============================================================================
