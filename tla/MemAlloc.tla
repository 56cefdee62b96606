------------------------------ MODULE MemAlloc ------------------------------
(***************************************************************************)
(* One MemorySpace of src/MemAlloc.cpp: the boundary-tag heap behind       *)
(* alloc() and free().  Both hold memory_lock from the first line to the   *)
(* last, so each call is one step.                                         *)
(*                                                                         *)
(* Addresses and sizes are counted in units of kDefaultAlignment bytes     *)
(* from least_addr.  The head word of a chunk is split into its size       *)
(* (csize) and its two flag bits (pinuse, cinuse); foot is prev_foot.  A   *)
(* word that is no longer the boundary of a chunk is kept at zero: the     *)
(* code leaves stale bytes there, and a step that would read them halts    *)
(* the model with "undefined".  The bins are abstracted to one function,   *)
(* bin[a] being the size under which the chunk at a was inserted.  A free  *)
(* that is led to a chunk in no bin, one of the client's perhaps, takes it *)
(* as the code does, and astray remembers that.                            *)
(***************************************************************************)
EXTENDS Integers, FiniteSets

CONSTANTS
    kNumSmallBins,        \* number of small bins, and the width of small_map
    MspSize,              \* units taken by the MemorySpace struct at least_addr
    PageSize,             \* page_size
    InitialSize,          \* size of the segment createMemorySpace reserves
    segment_granularity,
    segment_threshold,
    MaxPages,             \* address space: beyond it the system refuses to reserve
    Requests,             \* requests, in units: r stands for 8*r - 1 bytes
    MaxBlocks             \* bound: blocks the client holds at one time

ASSUME SizesAssumption ==
    /\ kNumSmallBins \in Nat /\ kNumSmallBins > 2
    /\ MspSize \in Nat \ {0}
    /\ PageSize \in Nat \ {0}
    /\ MaxPages \in Nat \ {0}
    /\ InitialSize \in Nat /\ MspSize < InitialSize /\ PageSize =< InitialSize
    /\ InitialSize =< MaxPages * PageSize
    /\ segment_granularity \in Nat \ {0}
    /\ segment_threshold \in Nat
    /\ Requests \subseteq Nat /\ MaxBlocks \in Nat

kMinChunkSize == 2                       \* four 4-byte words
Arena == MaxPages * PageSize
Unit  == 0 .. Arena - 1
Msp   == Arena + 1                       \* the MemorySpace pointer in a footer: no unit

VARIABLES
    csize, pinuse, cinuse, foot,         \* the words of the heap
    bin, dv, dv_size, top, top_size,     \* the fields of MemorySpace
    footprint, curr_page_index,
    reserved, committed,                 \* pages reserved one by one; pages committed
    owned,                               \* units the client was granted at an address
    lost,                                \* blocks freed that the space never took back
    carved,                              \* a binned chunk went through lines 942-945 / 883-885
    astray,                              \* free consolidated with a chunk it did not find in its bin
    alarm,                               \* an ASSERT_ERROR of a check function fired
    halt                                 \* "no", "fault" (access violation), "undefined"

heap   == <<csize, pinuse, cinuse, foot>>
space  == <<bin, dv, dv_size, top, top_size>>
pages  == <<footprint, curr_page_index, reserved, committed>>
ghosts == <<owned, lost, carved, astray, alarm, halt>>
vars   == <<heap, space, pages, ghosts>>

-----------------------------------------------------------------------------
(* Sizes, bins and chunks *)

padRequest(r) == IF r < 2 THEN kMinChunkSize ELSE r + 1
isSmall(size) == size < kNumSmallBins
PagesFor(n)   == (n + PageSize - 1) \div PageSize

live        == {a \in Unit : owned[a] > 0}
Start       == {a \in Unit : csize[a] > 0} \cup {top}
binned      == {a \in Unit : bin[a] > 0}
small_map   == {bin[a] : a \in binned} \cap 1 .. kNumSmallBins - 1
tree_chunks == {a \in Unit : bin[a] >= kNumSmallBins}

\* x86 shifts a 32-bit word by the count modulo 32
shift(nb)   == nb % kNumSmallBins
\* (smallbits & 0x3U) != 0, and smallbits != 0
FitBits(nb)  == {shift(nb), shift(nb) + 1} \cap small_map
SmallBits(nb) == {i \in small_map : i >= shift(nb)}

isDv(a)      == dv_size > 0 /\ a = dv
isInuse(a)   == a \in cinuse \/ a \notin pinuse
nextChunk(a) == a + csize[a]

checkInuseChunk(a) ==
    /\ isInuse(a)
    /\ nextChunk(a) \in pinuse
    /\ a \in pinuse \/ csize[a - foot[a]] = foot[a]

checkFreeChunk(a) ==
    /\ ~isInuse(a)
    /\ nextChunk(a) \notin pinuse
    /\ a \notin {dv, top} =>
         /\ foot[nextChunk(a)] = csize[a]
         /\ a \in pinuse
         /\ nextChunk(a) = top \/ isInuse(nextChunk(a))

checkAllocedChunk(size, nb) == size >= nb /\ size < nb + kMinChunkSize

-----------------------------------------------------------------------------
(* Steps every operation is built from *)

Crash(kind) == halt' = kind /\ UNCHANGED <<heap, space, pages, owned, lost, carved, astray, alarm>>

Running  == halt = "no"
MayAlloc == Running /\ Cardinality(live) < MaxBlocks

Backed(S) == \A a \in S : a \div PageSize \in committed

\* The step touches the boundary words at S: an access violation if a page is missing.
Touching(S, Step) == IF Backed(S) THEN Step ELSE Crash("fault")

\* The caller is handed the nb units it needs at a.
Grant(a, nb) == owned' = [owned EXCEPT ![a] = nb]

Insert(a, size) == [bin EXCEPT ![a] = size]

\* Slip: the chunk taken stays in its bin.
UnlinkForgotten(S) == bin
Unlink(S)       == [a \in Unit |-> IF a \in S THEN 0 ELSE bin[a]]

\* Slip: the successor's PINUSE bit is not set.
MarkInuseOnly(a, size) ==
    /\ csize' = [csize EXCEPT ![a] = size]
    /\ cinuse' = cinuse \cup {a}
    /\ pinuse' = pinuse
    /\ foot' = [foot EXCEPT ![a + size] = Msp]

\* setSizeInuse / setSizeInusePinuse: the PINUSE bit of the chunk is kept as it
\* is, which is any bit at all when the head was never written.
MarkInuse(a, size) ==
    /\ csize' = [csize EXCEPT ![a] = size]
    /\ cinuse' = cinuse \cup {a}
    /\ \E kept \in IF csize[a] > 0 THEN {pinuse} ELSE {pinuse \cup {a}, pinuse \ {a}} :
          pinuse' = kept \cup {a + size}
    /\ foot' = [foot EXCEPT ![a + size] = Msp]

\* setSizePinuseOfInuseChunk on a, and the head of what remains behind it.
SplitInuse(a, nb, rest) ==
    /\ csize' = [csize EXCEPT ![a] = nb, ![a + nb] = rest]
    /\ pinuse' = pinuse \cup {a, a + nb}
    /\ cinuse' = (cinuse \cup {a}) \ {a + nb}

\* The free chunk at a now has this size; the boundaries in dead are inside it.
Merge(a, size, dead) ==
    /\ csize' = [u \in Unit |-> IF u = a THEN size ELSE IF u \in dead THEN 0 ELSE csize[u]]
    /\ cinuse' = cinuse \ (dead \cup {a})

\* What a step that neither allocates pages nor halts leaves alone.
Quiet == UNCHANGED <<pages, carved, astray, halt>>

-----------------------------------------------------------------------------
(* alloc *)

\* Remainderless fit: the bin of nb, or the next one.
AllocSmallFit(r, p) ==
    LET nb   == padRequest(r)
        size == IF nb \in small_map THEN nb ELSE nb + 1
    IN  /\ MayAlloc
        /\ isSmall(nb) /\ size \in small_map /\ bin[p] = size
        /\ Touching({p, p + size},
             /\ MarkInuse(p, size)
             /\ bin' = Unlink({p})
             /\ Grant(p, nb)
             /\ alarm' = (alarm \/ csize[p] # size)
             /\ Quiet /\ UNCHANGED <<dv, dv_size, top, top_size, lost>>)

\* A large request reads small_bins beyond its end.
AllocWildBin(r) ==
    /\ MayAlloc
    /\ ~isSmall(padRequest(r)) /\ FitBits(padRequest(r)) # {}
    /\ Crash("undefined")

\* The chunk p, binned as size, is split: the free head goes to p, not to the
\* remainder, and the remainder becomes the designated victim with no head.
Carve(p, nb, size) ==
    LET rest == size - nb
    IN  IF size < nb \/ ~isSmall(dv_size)
        THEN Crash("undefined")
        ELSE Touching({p, p + nb, p + rest},
               /\ csize' = [csize EXCEPT ![p] = rest]
               /\ pinuse' = pinuse \cup {p}
               /\ cinuse' = cinuse \ {p}
               /\ foot' = [foot EXCEPT ![p + nb] = Msp, ![p + rest] = rest]
               /\ bin' = [a \in Unit |-> IF a = p THEN 0
                                         ELSE IF isDv(a) THEN dv_size ELSE bin[a]]
               /\ dv' = p + nb /\ dv_size' = rest
               /\ Grant(p, nb)
               /\ carved' = TRUE
               /\ alarm' = (alarm \/ csize[p] # size \/ ~checkAllocedChunk(rest, nb))
               /\ UNCHANGED <<top, top_size, lost, astray, halt, pages>>)

\* The next non-empty small bin.  A large nb wraps around to a smaller one.
AllocSplit(r, p) ==
    LET nb == padRequest(r)
    IN  /\ MayAlloc
        /\ FitBits(nb) = {} /\ nb > dv_size
        /\ bin[p] \in SmallBits(nb)
        /\ \A i \in SmallBits(nb) : bin[p] =< i
        /\ Carve(p, nb, bin[p])

\* computeTreeIndex: two tree bins for each power of two.
computeTreeIndex(size) ==
    LET k == CHOOSE k \in 0 .. size : kNumSmallBins * 2^k =< size /\ size < kNumSmallBins * 2^(k + 1)
    IN  2 * k + (IF 2 * size >= 3 * kNumSmallBins * 2^k THEN 1 ELSE 0)

least_tree_bin ==
    {p \in tree_chunks : \A q \in tree_chunks : computeTreeIndex(bin[p]) =< computeTreeIndex(bin[q])}

\* treeAllocSmall: a chunk of the first tree bin, whether nb fits in it or not.  It is the best
\* of those on the way from the root to the left, which is any, for all that is known here.
AllocTree(r, p) ==
    LET nb == padRequest(r)
    IN  /\ MayAlloc
        /\ FitBits(nb) = {} /\ nb =< dv_size
        /\ p \in least_tree_bin
        /\ IF nb =< bin[p] /\ bin[p] < nb + kMinChunkSize
           THEN Touching({p, p + bin[p]},
                  /\ MarkInuse(p, bin[p])
                  /\ bin' = Unlink({p})
                  /\ Grant(p, nb)
                  /\ Quiet /\ UNCHANGED <<dv, dv_size, top, top_size, lost, alarm>>)
           ELSE Carve(p, nb, bin[p])

\* No bin answers: dv, top, the system.
NoBin(nb) ==
    /\ MayAlloc
    /\ FitBits(nb) = {}
    /\ IF nb > dv_size THEN SmallBits(nb) = {} ELSE tree_chunks = {}

AllocDvSplit(r) ==
    LET nb   == padRequest(r)
        rest == dv_size - nb
    IN  /\ NoBin(nb) /\ nb + kMinChunkSize =< dv_size
        /\ Touching({dv, dv + nb, dv + dv_size},
             /\ SplitInuse(dv, nb, rest)
             /\ foot' = [foot EXCEPT ![dv + nb] = Msp, ![dv + dv_size] = rest]
             /\ dv' = dv + nb /\ dv_size' = rest
             /\ Grant(dv, nb)
             /\ Quiet /\ UNCHANGED <<bin, top, top_size, lost, alarm>>)

\* Up to one unit behind nb is dropped: the chunk is given size nb, not dv_size.
AllocDvExhaust(r) ==
    LET nb == padRequest(r)
    IN  /\ NoBin(nb) /\ nb =< dv_size /\ dv_size < nb + kMinChunkSize
        /\ Touching({dv, dv + nb},
             /\ MarkInuse(dv, nb)
             /\ dv' = 0 /\ dv_size' = 0
             /\ Grant(dv, nb)
             /\ Quiet /\ UNCHANGED <<bin, top, top_size, lost, alarm>>)

\* The head of the block at the old top and of the top that remains.
SplitTop(nb, newTopSize) ==
    /\ SplitInuse(top, nb, newTopSize)
    /\ foot' = [foot EXCEPT ![top + nb] = Msp]
    /\ top' = top + nb /\ top_size' = newTopSize
    /\ Grant(top, nb)
    /\ UNCHANGED <<bin, dv, dv_size, lost, carved, astray, alarm, halt>>

\* commitPage fails on a page that is not, or no longer, reserved.
Reserved(k) == k * PageSize < InitialSize \/ k \in reserved

\* Split top; one page is committed when top moves past the committed ones.
AllocTop(r) ==
    LET nb      == padRequest(r)
        past    == top + nb > curr_page_index * PageSize
        backing == IF past /\ Reserved(curr_page_index)
                   THEN committed \cup {curr_page_index} ELSE committed
    IN  /\ NoBin(nb) /\ nb > dv_size /\ nb < top_size
        /\ IF \A a \in {top, top + nb} : a \div PageSize \in backing
           THEN /\ SplitTop(nb, top_size - nb)
                /\ committed' = backing
                /\ curr_page_index' = IF past THEN curr_page_index + 1 ELSE curr_page_index
                /\ UNCHANGED <<footprint, reserved>>
           ELSE Crash("fault")

NeedsSystem(nb) == NoBin(nb) /\ nb > dv_size /\ nb >= top_size

\* Slip: curr_page_index is not moved on.
AllocGrowNoIndex(r) ==
    LET nb      == padRequest(r)
        grown   == PagesFor(nb) * PageSize
        next    == footprint \div PageSize
        backing == IF PagesFor(nb) = 1 THEN committed \cup {next} ELSE committed
    IN  /\ NeedsSystem(nb) /\ r =< segment_threshold
        /\ footprint + grown =< Arena
        /\ IF \A a \in {top, top + nb} : a \div PageSize \in backing
           THEN /\ SplitTop(nb, top_size + grown - nb)
                /\ footprint' = footprint + grown
                /\ curr_page_index' = curr_page_index
                /\ reserved' = reserved \cup {next}
                /\ committed' = backing
           ELSE Crash("fault")

\* One page is reserved behind the segment; all the pages nb needs are then
\* committed at once, which the system refuses unless it is one page.
AllocGrow(r) ==
    LET nb      == padRequest(r)
        grown   == PagesFor(nb) * PageSize
        next    == footprint \div PageSize
        backing == IF PagesFor(nb) = 1 THEN committed \cup {next} ELSE committed
    IN  /\ NeedsSystem(nb) /\ r =< segment_threshold
        /\ footprint + grown =< Arena
        /\ IF \A a \in {top, top + nb} : a \div PageSize \in backing
           THEN /\ SplitTop(nb, top_size + grown - nb)
                /\ footprint' = footprint + grown
                /\ curr_page_index' = curr_page_index + 1
                /\ reserved' = reserved \cup {next}
                /\ committed' = backing
           ELSE Crash("fault")

\* Threshold passed, or the reservation was refused: the chunk is reserved on
\* its own, never committed, and its head is written.
AllocDirect(r) ==
    /\ NeedsSystem(padRequest(r))
    /\ Crash("fault")

-----------------------------------------------------------------------------
(* free *)

\* Slip: the previous chunk is not where the merged one starts.
baseInPlace(a) == a

\* Slips: prev_foot is not added to the size, or taken from it.
bsizeForward(a)   == csize[a]
bsizeMinusFoot(a) == IF a \in pinuse THEN csize[a] ELSE csize[a] - foot[a]

\* The chunk after consolidating backwards: where it starts and how long it is.
base(a)  == IF a \in pinuse THEN a ELSE a - foot[a]
bsize(a) == IF a \in pinuse THEN csize[a] ELSE csize[a] + foot[a]

\* The chunk that free unlinks in front of a, if it is not the designated victim.
Prev(a) == IF a \in pinuse THEN {} ELSE {base(a)}

\* A chunk unlinkChunk can take out: inserted, and under the size it is asked for.
Linked(a, size) == a \in Unit /\ size > 0 /\ bin[a] = size

\* The words free reads are those of a boundary: the block's head, its footer if it goes
\* backwards, the successor's head.
Reads(a) ==
    /\ csize[a] > 0 /\ nextChunk(a) \in Start
    /\ a \notin pinuse => foot[a] \in 1 .. a

\* The free neighbours it consolidates with are where it looks for them.
Sound(a) ==
    LET n == nextChunk(a)
    IN  /\ Reads(a)
        /\ a \notin pinuse => isDv(a - foot[a]) \/ Linked(a - foot[a], foot[a])
        /\ n \in pinuse \ (cinuse \cup {top}) => isDv(n) \/ Linked(n, csize[n])

FreeTouches(a) == {a, nextChunk(a), base(a)}

\* The block leaves the client's hands; checkInuseChunk looks at it first.
HandBack(a) == owned' = [owned EXCEPT ![a] = 0]

\* The head does not say in use: free returns without doing anything.
FreeIgnored(a) ==
    /\ Running
    /\ ~isInuse(a)
    /\ HandBack(a) /\ lost' = lost \cup {a} /\ alarm' = TRUE
    /\ UNCHANGED <<heap, space, pages, carved, astray, halt>>

\* Above segment_threshold the chunk goes to VirtualFree, which releases the
\* page reserved at that very address if there is one, and else does nothing.
FreeDirect(a) ==
    LET page == a \div PageSize
    IN  /\ Running
        /\ isInuse(a) /\ csize[a] > segment_threshold
        /\ HandBack(a) /\ lost' = lost \cup {a}
        /\ alarm' = (alarm \/ ~checkInuseChunk(a))
        /\ IF a = page * PageSize /\ page \in reserved
           THEN reserved' = reserved \ {page} /\ committed' = committed \ {page}
           ELSE UNCHANGED <<reserved, committed>>
        /\ UNCHANGED <<heap, space, footprint, curr_page_index, carved, astray, halt>>

Pooled(a) == Running /\ isInuse(a) /\ csize[a] =< segment_threshold

\* A word that is not kept; or unlinkChunk follows the links of a chunk that is in no bin,
\* and they lead elsewhere: the chunk is the client's, who may have written to them.
FreeUndefined(a) == Pooled(a) /\ ~Sound(a) /\ Crash("undefined")
FreeFault(a)     == Pooled(a) /\ Reads(a) /\ ~Backed(FreeTouches(a)) /\ Crash("fault")

\* What the consolidating cases share.  n is the successor.  A chunk that is in no bin is
\* taken like one that is: the links it has left from its bin lead nowhere new.
Consolidates(a) ==
    /\ Pooled(a) /\ Reads(a) /\ Backed(FreeTouches(a))
    /\ HandBack(a)
    /\ astray' = (astray \/ ~Sound(a))
    /\ UNCHANGED <<lost, carved, halt>>

\* free has returned early at line 1110: the previous chunk is dv, the next in use.
IntoPrevDv(a) == a \notin pinuse /\ isDv(base(a)) /\ nextChunk(a) \in pinuse \cap cinuse

\* Slips: the successor's CINUSE bit is not looked at.
HeldSuccessorAny(n) == n \in pinuse
FreeSuccessorAny(n) == n \in pinuse /\ n # top /\ ~isDv(n)

\* What the successor's head says: held, or free and binned.
HeldSuccessor(n) == n \in pinuse \cap cinuse
FreeSuccessor(n) == n \in pinuse \ cinuse /\ n # top /\ ~isDv(n)

\* Slip: off by one page.
DecommitsEarly(newTop) == newTop < curr_page_index * PageSize

\* Top has moved below the last committed page.
Decommits(newTop) == newTop < (curr_page_index - 1) * PageSize

\* Slip: the successor's PINUSE bit stays set.
FreeChunkKeepsPinuse(a, size, dead, cleared) ==
    /\ Merge(base(a), size, dead)
    /\ pinuse' = (pinuse \ dead) \cup {base(a)}
    /\ foot' = [u \in Unit |-> IF u = base(a) + size THEN size
                               ELSE IF u \in dead \ {base(a)} THEN 0 ELSE foot[u]]

\* The chunk takes the place of the boundaries in dead; foot of what follows is
\* its size, and the PINUSE bits in cleared go.
FreeChunk(a, size, dead, cleared) ==
    /\ Merge(base(a), size, dead)
    /\ pinuse' = ((pinuse \ dead) \cup {base(a)}) \ cleared
    /\ foot' = [u \in Unit |-> IF u = base(a) + size THEN size
                               ELSE IF u \in dead \ {base(a)} THEN 0 ELSE foot[u]]

\* checkInuseChunk on the way in, checkFreeChunk on the inserted chunk on the way out.
CheckFreed(a) ==
    \E p \in {base(a)} : alarm' = (alarm \/ ~checkInuseChunk(a) \/ ~checkFreeChunk(p)')

FreePrevDv(a) ==
    /\ Consolidates(a) /\ IntoPrevDv(a)
    /\ dv_size' = bsize(a)
    /\ FreeChunk(a, bsize(a), {a}, {nextChunk(a)})
    /\ alarm' = (alarm \/ ~checkInuseChunk(a))
    /\ UNCHANGED <<bin, dv, top, top_size, pages>>

\* The successor is top: top moves down, at most one page is decommitted, and
\* whole granules counted from least_addr are released.
FreeIntoTop(a) ==
    LET newTop   == base(a)
        newSize  == top_size + bsize(a)
        lastPage == curr_page_index - 1
        factor   == newSize \div segment_granularity
        released == IF newSize > segment_granularity
                    THEN {k \in reserved : \E i \in 2 .. factor :
                            k * PageSize = segment_granularity * (i - 1)}
                    ELSE {}
        below    == Decommits(newTop)
    IN  /\ Consolidates(a)
        /\ nextChunk(a) = top /\ top \in pinuse \ cinuse
        /\ Merge(newTop, newSize, {a, top})
        /\ pinuse' = (pinuse \ {a, top}) \cup {newTop}
        /\ foot' = [u \in Unit |-> IF u \in {a, top} \ {newTop} THEN 0 ELSE foot[u]]
        /\ top' = newTop /\ top_size' = newSize
        /\ IF isDv(newTop)
           THEN dv' = 0 /\ dv_size' = 0 /\ bin' = bin
           ELSE bin' = Unlink(Prev(a)) /\ UNCHANGED <<dv, dv_size>>
        /\ curr_page_index' = IF below THEN lastPage ELSE curr_page_index
        /\ committed' = (committed \ released) \ (IF below THEN {lastPage} ELSE {})
        /\ reserved' = reserved \ released
        /\ alarm' = (alarm \/ ~checkInuseChunk(a))
        /\ UNCHANGED footprint

FreeNextDv(a) ==
    LET n == nextChunk(a)
    IN  /\ Consolidates(a)
        /\ isDv(n) /\ n \in pinuse \ cinuse
        /\ dv' = base(a) /\ dv_size' = dv_size + bsize(a)
        /\ FreeChunk(a, dv_size + bsize(a), {a, n}, {})
        /\ bin' = Unlink(Prev(a))
        /\ alarm' = (alarm \/ ~checkInuseChunk(a))
        /\ UNCHANGED <<top, top_size, pages>>

\* The successor is a binned chunk: both go, the sum is inserted (or becomes dv).
FreeNextFree(a) ==
    LET n    == nextChunk(a)
        size == bsize(a) + csize[n]
    IN  /\ Consolidates(a)
        /\ FreeSuccessor(n)
        /\ FreeChunk(a, size, {a, n}, {})
        /\ UNCHANGED <<dv, top, top_size, pages>>
        /\ IF isDv(base(a))
           THEN /\ dv_size' = size /\ bin' = Unlink({n})
                /\ alarm' = (alarm \/ ~checkInuseChunk(a))
           ELSE /\ bin' = [Unlink({n}) EXCEPT ![base(a)] = size]
                /\ UNCHANGED dv_size
                /\ CheckFreed(a)

FreeNextInuse(a) ==
    LET n == nextChunk(a)
    IN  /\ Consolidates(a) /\ ~IntoPrevDv(a)
        /\ HeldSuccessor(n)
        /\ FreeChunk(a, bsize(a), {a}, {n})
        /\ bin' = Insert(base(a), bsize(a))
        /\ UNCHANGED <<dv, dv_size, top, top_size, pages>>
        /\ CheckFreed(a)

\* The error return: the successor says that the block is free, and the previous chunk has
\* been unlinked by then.  NeverBroken says when it cannot happen.
FreeBroken(a) ==
    /\ Pooled(a) /\ Reads(a) /\ Backed(FreeTouches(a))
    /\ nextChunk(a) \notin pinuse
    /\ HandBack(a) /\ lost' = lost \cup {a}
    /\ bin' = IF isDv(base(a)) THEN bin ELSE Unlink(Prev(a))
    /\ astray' = (astray \/ ~Sound(a))
    /\ alarm' = (alarm \/ ~checkInuseChunk(a))
    /\ UNCHANGED <<heap, dv, dv_size, top, top_size, pages, carved, halt>>

-----------------------------------------------------------------------------
(* createMemorySpace: the struct is the first chunk; the head of top is not written. *)
Init ==
    /\ csize = [a \in Unit |-> IF a = 0 THEN MspSize ELSE 0]
    /\ pinuse = {0} /\ cinuse = {0}
    /\ foot = [a \in Unit |-> 0]
    /\ bin = [a \in Unit |-> 0]
    /\ dv = 0 /\ dv_size = 0
    /\ top = MspSize /\ top_size = InitialSize - MspSize
    /\ footprint = InitialSize /\ curr_page_index = 1
    /\ reserved = {} /\ committed = {0}
    /\ owned = [a \in Unit |-> 0]
    /\ lost = {} /\ carved = FALSE /\ astray = FALSE /\ alarm = FALSE /\ halt = "no"

alloc(r) ==
    \/ \E p \in binned : AllocSmallFit(r, p)
    \/ AllocWildBin(r)
    \/ \E p \in binned : AllocSplit(r, p)
    \/ \E p \in binned : AllocTree(r, p)
    \/ AllocDvSplit(r)
    \/ AllocDvExhaust(r)
    \/ AllocTop(r)
    \/ AllocGrow(r)
    \/ AllocDirect(r)

free(a) ==
    \/ FreeIgnored(a)
    \/ FreeDirect(a)
    \/ FreeUndefined(a)
    \/ FreeFault(a)
    \/ FreePrevDv(a)
    \/ FreeIntoTop(a)
    \/ FreeNextDv(a)
    \/ FreeNextFree(a)
    \/ FreeNextInuse(a)
    \/ FreeBroken(a)

Allocate == \E r \in Requests : alloc(r)
Release  == \E a \in live : free(a)

\* Any thread may call; memory_lock orders the calls.  A halted process takes no step.
Next == Allocate \/ Release

Spec == Init /\ [][Next]_vars
=============================================================================
