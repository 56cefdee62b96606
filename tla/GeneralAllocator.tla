--------------------------- MODULE GeneralAllocator ---------------------------
(***************************************************************************)
(* GeneralAllocator (src/GeneralAllocator.cpp): one MemorySpace for each   *)
(* class of sizes, in a slot behind a mutex of its own, created when it is *)
(* first needed; and the address space the spaces share (src/SysAlloc.cpp).*)
(* Of a MemorySpace this module has the pages: its first page, how many it *)
(* claims, how it grows, releases and is destroyed.  Where in them a block *)
(* lies is the subject of MemAlloc.  A page is 64 KB, also the granularity *)
(* of reservations and of the segments of the small spaces.                *)
(***************************************************************************)
EXTENDS Integers, FiniteSets, FiniteSetsExt, Functions

CONSTANTS
    Threads,
    Sizes,                    \* the sizes clients ask for
    NumPages,                 \* bound: pages of the address space
    MaxBlocks                 \* bound: blocks held at one time

ASSUME GeneralAssumption ==
    /\ Sizes \subseteq Nat /\ Sizes # {} /\ "nobody" \notin Threads
    /\ NumPages \in Nat /\ MaxBlocks \in Nat

Pages   == 1 .. NumPages
NULL    == 0
nobody  == "nobody"
large   == 20                 \* the slot of everything from 256 bytes on

\* getInstIndexFromSize.  Line 126 assigns to a variable of its own, and index stays 0.
index(size) == IF size < 64 THEN size \div 8 ELSE IF size < 256 THEN 0 ELSE large

\* The other slots play no part.
Slots == {index(size) : size \in Sizes}

VARIABLES
    reservation,              \* of each page: the space that has reserved it, or NULL
    mSpace,                   \* of each slot: its space, by its first page (least_addr), or NULL
    footprint,                \* of each space: pages it claims
    mMutex,                   \* of each slot: who holds it
    pc, slot,                 \* of each thread: where it is, and index
    sum, from,                \* getTotalAllocated so far; ghost: the total when it began
    blocks,                   \* of each page: held blocks whose footer names the space there
    halt                      \* "no", or what ended the run

spaces  == <<mSpace, footprint>>
thread  == <<pc, slot, sum, from>>
vars    == <<reservation, spaces, mMutex, thread, blocks, halt>>

Running == halt = "no"
Goes(t, where) == pc' = [pc EXCEPT ![t] = where]
Ends(t)        == Goes(t, "idle") /\ slot' = [slot EXCEPT ![t] = large]

-----------------------------------------------------------------------------
(* SysAlloc *)

Unreserved(p) == p \in Pages /\ reservation[p] = NULL

\* Every reservation is of one page, and whoever has its address releases it.
releaseSegments(ps) == [p \in Pages |-> IF p \in ps THEN NULL ELSE reservation[p]]

\* init creates the spaces in order, before there are other threads, and stops at the first
\* one the system refuses.  The allocator is in static storage: the other slots are null.
Init ==
    /\ mSpace \in [Slots -> Pages \cup {NULL}]
    /\ \A s, r \in Slots : s < r /\ mSpace[s] \in {mSpace[r], NULL} => mSpace[r] = NULL
    /\ reservation = [p \in Pages |-> IF \E s \in Slots : mSpace[s] = p THEN p ELSE NULL]
    /\ footprint = [p \in Pages |-> IF reservation[p] = p THEN 1 ELSE 0]
    /\ mMutex = [s \in Slots |-> nobody]
    /\ pc = [t \in Threads |-> "idle"] /\ slot = [t \in Threads |-> large]
    /\ sum = [t \in Threads |-> 0] /\ from = [t \in Threads |-> 0]
    /\ blocks = [p \in Pages |-> 0]
    /\ halt = "no"

-----------------------------------------------------------------------------
(* What the spaces claim *)

claimed(p) == p .. p + footprint[p] - 1

claimants(q) == {s \in Slots : mSpace[s] # NULL /\ q \in claimed(mSpace[s])}

\* Its pages are reserved by it, and no other space claims them.
Alone(p) == \A q \in claimed(p) : q \in Pages /\ reservation[q] = p /\ \A s, r \in claimants(q) : s = r

\* What halt is after a call that uses a space.  Where spaces share pages, or claim such as nobody
\* has, it may go well, or meet a page that is not there, or what another space or its clients
\* wrote.  Without the page of its own MemorySpace it does not go well.
Outcomes(p) ==
    IF Alone(p) THEN {"no"} ELSE IF reservation[p] = p THEN {"no", "undefined"} ELSE {"undefined"}

-----------------------------------------------------------------------------
(* allocate and callocate *)

Held == MapThenSumSet(LAMBDA p : blocks[p], Pages)

Call(t, size) ==
    /\ Running /\ pc[t] = "idle"
    /\ slot' = [slot EXCEPT ![t] = index(size)]
    /\ Goes(t, "find")
    /\ UNCHANGED <<reservation, spaces, mMutex, sum, from, blocks, halt>>

Lock(t, here, there) ==
    /\ Running /\ pc[t] = here /\ mMutex[slot[t]] = nobody
    /\ mMutex' = [mMutex EXCEPT ![slot[t]] = t]
    /\ Goes(t, there)
    /\ UNCHANGED <<reservation, spaces, slot, sum, from, blocks, halt>>

Unlock(t) == mMutex' = [mMutex EXCEPT ![slot[t]] = nobody]

LockToFind(t)     == Lock(t, "find", "look")
LockToAllocate(t) == Lock(t, "found", "allocate")

\* Slip: the mutex is released before the space is created.
LookThenUnlock(t) ==
    /\ Running /\ pc[t] = "look"
    /\ Goes(t, IF mSpace[slot[t]] # NULL THEN "found" ELSE "create")
    /\ Unlock(t)
    /\ UNCHANGED <<reservation, spaces, slot, sum, from, blocks, halt>>

Look(t) ==
    /\ Running /\ pc[t] = "look"
    /\ IF mSpace[slot[t]] # NULL THEN Goes(t, "found") /\ Unlock(t)
                                 ELSE Goes(t, "create") /\ UNCHANGED mMutex
    /\ UNCHANGED <<reservation, spaces, slot, sum, from, blocks, halt>>

\* createMemorySpace: one page, wherever the system likes.
Create(t, p) ==
    /\ Running /\ pc[t] = "create" /\ Unreserved(p)
    /\ reservation' = [reservation EXCEPT ![p] = p]
    /\ mSpace' = [mSpace EXCEPT ![slot[t]] = p]
    /\ footprint' = [footprint EXCEPT ![p] = 1]
    /\ Goes(t, "found") /\ Unlock(t)
    /\ UNCHANGED <<slot, sum, from, blocks, halt>>

CreateRefused(t) ==
    /\ Running /\ pc[t] = "create"
    /\ Ends(t) /\ Unlock(t)
    /\ UNCHANGED <<reservation, spaces, sum, from, blocks, halt>>

\* The block and its footer.
Hand(t, p) ==
    /\ blocks' = [blocks EXCEPT ![p] = @ + 1]
    /\ Ends(t) /\ Unlock(t)
    /\ UNCHANGED <<mSpace, sum, from>>

Fits(t) ==
    /\ Running /\ pc[t] = "allocate"
    /\ Hand(t, mSpace[slot[t]])
    /\ halt' \in Outcomes(mSpace[slot[t]])
    /\ UNCHANGED <<reservation, footprint>>

behind(p) == p + footprint[p]

\* An empty small space has room.
MayBeFull(t) == pc[t] = "allocate" /\ (slot[t] = large \/ blocks[mSpace[slot[t]]] > 0)

\* A request of up to a page: the page behind is reserved and claimed.
Grow(t) ==
    /\ Running /\ MayBeFull(t)
    /\ LET p == mSpace[slot[t]]
       IN  /\ Unreserved(behind(p))
           /\ reservation' = [reservation EXCEPT ![behind(p)] = p]
           /\ footprint' = [footprint EXCEPT ![p] = @ + 1]
           /\ halt' \in Outcomes(p)
           /\ Hand(t, p)

\* A larger one, which the threshold leaves to the last slot: one page is reserved, and all of
\* page_aligned_nb is claimed.  The commit of the whole fails; the head behind the block is then
\* on a page that is not there, or on one of another space, and the call goes on.
GrowFurther(t) ==
    /\ Running /\ MayBeFull(t) /\ slot[t] = large
    /\ LET p == mSpace[large]
       IN  /\ Unreserved(behind(p))
           /\ reservation' = [reservation EXCEPT ![behind(p)] = p]
           /\ \E page_aligned_nb \in 2 .. NumPages - behind(p) + 1 :    \* bound: inside the address space
                 /\ footprint' = [footprint EXCEPT ![p] = @ + page_aligned_nb]
                 /\ halt' \in {"undefined"} \cup
                        IF \E q \in Pages : q > behind(p) /\ q < behind(p) + page_aligned_nb /\ ~Unreserved(q)
                        THEN Outcomes(p) ELSE {}
           /\ Hand(t, p)

\* Refused, alloc writes to a reservation of its own without committing it.
GrowRefused(t) ==
    /\ Running /\ MayBeFull(t)
    /\ halt' = "fault"
    /\ UNCHANGED <<reservation, spaces, mMutex, thread, blocks>>

-----------------------------------------------------------------------------
(* deallocate, getTotalAllocated, the destructor *)

\* The segment_granularity a slot's space is created with, in pages.
segment_granularity(s) == IF s = large THEN 512 ELSE 1

\* Slip: the loop goes down to the first granule.
releasedToFirst(p, granularity, size_factor) == {p + granularity * (i - 1) : i \in 1 .. size_factor}

released(p, granularity, size_factor) == {p + granularity * (i - 1) : i \in 2 .. size_factor}

\* free with the space of the footer, under no mutex of the allocator.  If top reaches over
\* whole granules, as many are released from the second of the space on, and still claimed.
deallocate(t, p) ==
    /\ Running /\ pc[t] = "idle" /\ blocks[p] > 0
    /\ blocks' = [blocks EXCEPT ![p] = @ - 1]
    /\ \E s \in {s \in Slots : mSpace[s] = p} :
       \E size_factor \in 0 .. (footprint[p] - 1) \div segment_granularity(s) :
          reservation' = releaseSegments(released(p, segment_granularity(s), size_factor))
    /\ halt' \in Outcomes(p)
    /\ UNCHANGED <<spaces, mMutex, thread>>

claims == [s \in Slots |-> IF mSpace[s] = NULL THEN 0 ELSE footprint[mSpace[s]]]

TotalFootprint == SumFunction(claims)

getTotalAllocated(t) ==
    /\ Running /\ pc[t] = "idle"
    /\ sum' = [sum EXCEPT ![t] = 0] /\ from' = [from EXCEPT ![t] = TotalFootprint]
    /\ slot' = [slot EXCEPT ![t] = Min(Slots)]
    /\ Goes(t, "sum")
    /\ UNCHANGED <<reservation, spaces, mMutex, blocks, halt>>

later(s) == {r \in Slots : r > s}

\* Slip: the loop ends one slot early.
isLastEarly(s) == Cardinality(later(s)) =< 1

isLast(s) == later(s) = {}

\* Under the mutex of each slot in turn.
AddFootprint(t) ==
    /\ Running /\ pc[t] = "sum" /\ mMutex[slot[t]] = nobody
    /\ sum' = [sum EXCEPT ![t] = @ + claims[slot[t]]]
    /\ IF isLast(slot[t]) THEN Goes(t, "total") /\ UNCHANGED slot
                          ELSE slot' = [slot EXCEPT ![t] = Min(later(@))] /\ UNCHANGED pc
    /\ halt' \in IF mSpace[slot[t]] = NULL THEN {"no"} ELSE Outcomes(mSpace[slot[t]])
    /\ UNCHANGED <<reservation, spaces, mMutex, from, blocks>>

Return(t) ==
    /\ Running /\ pc[t] = "total"
    /\ sum' = [sum EXCEPT ![t] = 0] /\ from' = [from EXCEPT ![t] = 0]
    /\ Ends(t)
    /\ UNCHANGED <<reservation, spaces, mMutex, blocks, halt>>

\* Slip: the space of the last slot is not destroyed.
destroyedButLarge == {mSpace[s] : s \in Slots \ {large}} \ {NULL}

destroyed == {mSpace[s] : s \in Slots} \ {NULL}

\* Every space still has the page of its MemorySpace, and no two slots the same.
StructsIntact ==
    \A s \in Slots : mSpace[s] # NULL =>
        /\ reservation[mSpace[s]] = mSpace[s]
        /\ \A r \in Slots \ {s} : mSpace[r] # mSpace[s]

\* destroyMemoryRegion releases the page a space began with, and reads it before.
Destroy ==
    /\ Running /\ \A t \in Threads : pc[t] = "idle"
    /\ reservation' = releaseSegments(destroyed)
    /\ halt' \in IF StructsIntact THEN {"destroyed"} ELSE {"undefined"}
    /\ UNCHANGED <<spaces, mMutex, thread, blocks>>

-----------------------------------------------------------------------------
Next ==
    \/ \E t \in Threads, size \in Sizes : Held < MaxBlocks /\ Call(t, size)
    \/ \E t \in Threads : LockToFind(t)
    \/ \E t \in Threads : Look(t)
    \/ \E t \in Threads, p \in Pages : Create(t, p)
    \/ \E t \in Threads : CreateRefused(t)
    \/ \E t \in Threads : LockToAllocate(t)
    \/ \E t \in Threads : Fits(t)
    \/ \E t \in Threads : Grow(t)
    \/ \E t \in Threads : GrowFurther(t)
    \/ \E t \in Threads : GrowRefused(t)
    \/ \E t \in Threads, p \in Pages : deallocate(t, p)
    \/ \E t \in Threads : getTotalAllocated(t)
    \/ \E t \in Threads : AddFootprint(t)
    \/ \E t \in Threads : Return(t)
    \/ Destroy

Spec == Init /\ [][Next]_vars

-----------------------------------------------------------------------------
(* Properties *)

\* Every variable has its type; the thread inside a mutex is the one that holds it.
TypeOK ==
    /\ reservation \in [Pages -> Pages \cup {NULL}]
    /\ mSpace \in [Slots -> Pages \cup {NULL}] /\ footprint \in [Pages -> Nat]
    /\ pc \in [Threads -> {"idle", "find", "look", "create", "found", "allocate", "sum", "total"}]
    /\ slot \in [Threads -> Slots \cup {large}]
    /\ \A s \in Slots : {t \in Threads : slot[t] = s /\ pc[t] \in {"look", "create", "allocate"}}
                            = {mMutex[s]} \ {nobody}
    /\ blocks \in [Pages -> Nat]

\* No page is claimed by two spaces.  Growth over more than a page (line 1032 of MemAlloc.cpp) and
\* creation on a page that was released while it was claimed (line 1154) bring it about.
ClaimsApart ==
    \A s, r \in Slots : s # r /\ mSpace[s] # NULL /\ mSpace[r] # NULL =>
        claimed(mSpace[s]) \cap claimed(mSpace[r]) = {}

\* Whatever spaces claim without having reserved it and release while they claim it, only where
\* two have come to claim the same page does one lose the page its MemorySpace is in to the
\* other's release, or is a page left reserved that the space it was reserved for does not claim.
ReservedByClaimant ==
    Running /\ ClaimsApart =>
        /\ \A s \in Slots : mSpace[s] # NULL => reservation[mSpace[s]] = mSpace[s]
        /\ \A q \in Pages : reservation[q] # NULL =>
               q \in claimed(reservation[q]) /\ \E s \in Slots : mSpace[s] = reservation[q]

\* What getInstIndexFromSize found under the mutex is there when allocate has taken the mutex
\* again, and deallocate finds in the footer a space the allocator still has: a slot gets one
\* space and keeps it, so the space of every block is in some slot.
BlocksHaveSpace ==
    /\ \A t \in Threads : pc[t] \in {"found", "allocate"} => mSpace[slot[t]] # NULL
    /\ \A p \in Pages : blocks[p] > 0 => \E s \in Slots : mSpace[s] = p

\* getTotalAllocated takes one mutex after the other while other threads create spaces and
\* grow them: the sum is one the allocator had at some time, or lies between two of them, unless
\* a space was created on the page of another.
TotalInBetween ==
    \A t \in Threads : pc[t] = "total" /\ StructsIntact => sum[t] \in from[t] .. TotalFootprint

\* What the destructor leaves reserved is what spaces have grown by (line 1410 releases the first
\* page only): no page a space itself is in, and unless spaces came to claim the same page none
\* that is not behind the first of the space it was reserved for.
OnlyGrowthIsLeft ==
    halt = "destroyed" =>
        /\ \A s \in Slots : mSpace[s] # NULL => reservation[mSpace[s]] = NULL
        /\ ClaimsApart => \A q \in Pages : reservation[q] # NULL =>
               \E s \in Slots : mSpace[s] = reservation[q] /\ q \in claimed(mSpace[s]) \ {mSpace[s]}
=============================================================================
