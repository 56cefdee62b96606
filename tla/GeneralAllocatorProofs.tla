------------------------ MODULE GeneralAllocatorProofs ------------------------
(***************************************************************************)
(* Theorems about GeneralAllocator, for every number of threads, of pages  *)
(* and of sizes: the mutex of a slot covers the lookup, the creation and   *)
(* the allocation, a slot gets one space and keeps it, and what becomes of *)
(* the pages the spaces reserve, claim and release.                        *)
(***************************************************************************)
EXTENDS GeneralAllocator, FiniteSetTheorems, WellFoundedInduction, TLAPS

Places == {"idle", "find", "look", "create", "found", "allocate", "sum", "total"}
Inside == {"look", "create", "allocate"}

Typed ==
  /\ reservation \in [Pages -> Pages \cup {NULL}]
  /\ mSpace \in [Slots -> Pages \cup {NULL}] /\ footprint \in [Pages -> Nat]
  /\ blocks \in [Pages -> Nat]

\* A thread that works on a slot has one; the mutex of a slot names the thread inside.
Threading ==
  /\ pc \in [Threads -> Places] /\ slot \in [Threads -> Slots \cup {large}]
  /\ mMutex \in [Slots -> Threads \cup {nobody}]
  /\ \A t \in Threads : pc[t] # "idle" => slot[t] \in Slots
  /\ \A s \in Slots, t \in Threads : mMutex[s] = t <=> slot[t] = s /\ pc[t] \in Inside

\* The thread that is about to create a space is the only one that could have.
Missing == \A t \in Threads : pc[t] = "create" => mSpace[slot[t]] = NULL

\* A space claims one page at least.
Sized == \A s \in Slots : mSpace[s] # NULL => footprint[mSpace[s]] > 0

\* The inductive invariant.
Inv == Typed /\ Threading /\ Missing /\ Sized /\ ReservedByClaimant /\ BlocksHaveSpace /\ OnlyGrowthIsLeft

\* getInstIndexFromSize names one of nine slots.
LEMMA SlotBounds == Slots \subseteq (0 .. 7) \cup {20}
<1> SUFFICES ASSUME NEW size \in Sizes PROVE index(size) \in (0 .. 7) \cup {20}
  BY DEF Slots
<1>1. size \in Nat
  BY GeneralAssumption
<1>2. size < 64 => size \div 8 \in 0 .. 7
  BY <1>1
<1> QED BY <1>2 DEF index, large

\* A set of slots has a first one.
LEMMA FirstSlot ==
  ASSUME NEW S \in SUBSET Slots, S # {}
  PROVE  Min(S) \in S /\ \A y \in S : Min(S) =< y
<1>1. S \subseteq (0 .. 7) \cup {20}
  BY SlotBounds
<1>2. \E x \in S : \A y \in S : x =< y
  <2> DEFINE From(k) == \A y \in S : k =< y
  <2>1. S \subseteq Nat /\ From(0)
    BY <1>1
  <2>2. \A k \in Nat : From(k) => k \in S \/ From(k + 1)
    BY <2>1
  <2>3. From(8) => 20 \in S /\ From(20)
    <3>1. ASSUME From(8), NEW y \in S PROVE y = 20
      BY <1>1, <3>1
    <3>2. PICK y : y \in S
      OBVIOUS
    <3> QED BY <3>1, <3>2
  <2> HIDE DEF From
  <2>4. (\E k \in S : From(k)) \/ From(4)
    BY <2>1, <2>2
  <2>5. From(4) => (\E k \in S : From(k)) \/ From(8)
    BY <2>2
  <2>6. \E k \in S : From(k)
    BY <2>3, <2>4, <2>5
  <2> QED BY <2>6 DEF From
<1> QED BY <1>2 DEF Min

\* A thread moves on: into the mutex of its slot, out of it, or neither.
LEMMA ThreadMoves ==
  ASSUME Threading, NEW t \in Threads, NEW w \in Places, NEW s \in Slots \cup {large},
         pc' = [pc EXCEPT ![t] = w], slot' = [slot EXCEPT ![t] = s], w # "idle" => s \in Slots,
         \/ pc[t] \notin Inside /\ w \notin Inside /\ mMutex' = mMutex
         \/ pc[t] \notin Inside /\ w \in Inside /\ mMutex[s] = nobody /\ mMutex' = [mMutex EXCEPT ![s] = t]
         \/ pc[t] \in Inside /\ w \notin Inside /\ mMutex' = [mMutex EXCEPT ![slot[t]] = nobody]
         \/ pc[t] \in Inside /\ w \in Inside /\ s = slot[t] /\ mMutex' = mMutex
  PROVE  Threading'
<1>0. nobody \notin Threads /\ "idle" \notin Inside
  BY GeneralAssumption DEF nobody, Inside
<1>1. pc' \in [Threads -> Places] /\ slot' \in [Threads -> Slots \cup {large}]
  BY DEF Threading
<1>2. \A u \in Threads : pc'[u] # "idle" => slot'[u] \in Slots
  BY DEF Threading
<1>3. pc[t] \in Inside => slot[t] \in Slots /\ mMutex[slot[t]] = t
  BY <1>0 DEF Threading
<1>4. mMutex' \in [Slots -> Threads \cup {nobody}]
  BY <1>0, <1>3 DEF Threading
<1>5. ASSUME NEW r \in Slots, NEW u \in Threads
      PROVE  mMutex'[r] = u <=> slot'[u] = r /\ pc'[u] \in Inside
  <2>1. mMutex[r] = u <=> slot[u] = r /\ pc[u] \in Inside
    BY DEF Threading
  <2>2. mMutex[r] = t <=> slot[t] = r /\ pc[t] \in Inside
    BY DEF Threading
  <2>3. u # t => pc'[u] = pc[u] /\ slot'[u] = slot[u]
    BY DEF Threading
  <2>4. pc'[t] = w /\ slot'[t] = s
    BY DEF Threading
  <2>5. CASE pc[t] \notin Inside /\ w \notin Inside /\ mMutex' = mMutex
    BY <2>1, <2>2, <2>3, <2>4, <2>5
  <2>6. CASE pc[t] \notin Inside /\ w \in Inside /\ mMutex[s] = nobody /\ mMutex' = [mMutex EXCEPT ![s] = t]
    <3>1. s \in Slots /\ mMutex'[r] = IF r = s THEN t ELSE mMutex[r]
      BY <1>0, <2>6 DEF Threading
    <3> QED BY <1>0, <2>1, <2>2, <2>3, <2>4, <2>6, <3>1
  <2>7. CASE pc[t] \in Inside /\ w \notin Inside /\ mMutex' = [mMutex EXCEPT ![slot[t]] = nobody]
    <3>1. mMutex'[r] = IF r = slot[t] THEN nobody ELSE mMutex[r]
      BY <2>7, <1>3 DEF Threading
    <3> QED BY <1>0, <1>3, <2>1, <2>2, <2>3, <2>4, <2>7, <3>1
  <2>8. CASE pc[t] \in Inside /\ w \in Inside /\ s = slot[t] /\ mMutex' = mMutex
    BY <2>1, <2>2, <2>3, <2>4, <2>8
  <2> QED BY <2>5, <2>6, <2>7, <2>8
<1> QED BY <1>1, <1>2, <1>4, <1>5 DEF Threading

\* How a call goes on.
LEMMA OutcomesTyped ==
  \A p : Outcomes(p) \subseteq {"no", "undefined"}
BY DEF Outcomes

\* What every step that only moves threads leaves alone.
LEMMA SpacesStay ==
  ASSUME Inv, UNCHANGED <<reservation, spaces>>, Running, halt' \in {"no", "undefined"}
  PROVE  ReservedByClaimant' /\ OnlyGrowthIsLeft'
<1>1. ClaimsApart' => ClaimsApart
  BY DEF ClaimsApart, claimed, spaces
<1>2. ReservedByClaimant'
  BY <1>1 DEF Inv, ReservedByClaimant, claimed, spaces, Running
<1> QED BY <1>2 DEF OnlyGrowthIsLeft

\* A step of one thread that creates nothing, by where it goes: it may go on to
\* create only if the slot is empty, and to allocate only if it is not.
LEMMA MovesKeep ==
  ASSUME Inv, Threading', UNCHANGED <<reservation, spaces, blocks>>, Running, halt' \in {"no", "undefined"},
         NEW t \in Threads, \A u \in Threads \ {t} : pc'[u] = pc[u] /\ slot'[u] = slot[u],
         pc'[t] = "create" => mSpace[slot'[t]] = NULL,
         pc'[t] \in {"found", "allocate"} => mSpace[slot'[t]] # NULL
  PROVE  Inv'
<1>1. mSpace' = mSpace /\ footprint' = footprint
  BY DEF spaces
<1>2. Missing'
  BY <1>1 DEF Inv, Missing
<1>3. \A u \in Threads : pc'[u] \in {"found", "allocate"} => mSpace'[slot'[u]] # NULL
  BY <1>1 DEF Inv, BlocksHaveSpace
<1>4. BlocksHaveSpace'
  BY <1>1, <1>3 DEF Inv, BlocksHaveSpace
<1>5. Typed' /\ Sized'
  BY <1>1 DEF Inv, Typed, Sized
<1> QED BY <1>2, <1>4, <1>5, SpacesStay DEF Inv

\* The steps that move a thread and change no space.
LEMMA QuietStep ==
  ASSUME Inv, NEW t \in Threads,
         \/ \E size \in Sizes : Call(t, size)
         \/ LockToFind(t) \/ Look(t) \/ CreateRefused(t) \/ LockToAllocate(t)
         \/ getTotalAllocated(t) \/ AddFootprint(t) \/ Return(t)
  PROVE  Inv'
<1> USE DEF Places, Inside
<1>0. /\ Threading /\ pc \in [Threads -> Places] /\ slot \in [Threads -> Slots \cup {large}]
      /\ pc[t] # "idle" => slot[t] \in Slots
      /\ \A size \in Sizes : index(size) \in Slots
      /\ large \in Slots \cup {large} /\ Slots # {}
  <2>1. \A size \in Sizes : index(size) \in Slots
    BY DEF Slots
  <2>2. Slots # {}
    BY <2>1, GeneralAssumption
  <2> QED BY <2>1, <2>2 DEF Inv, Threading
<1>1. ASSUME NEW w \in Places, NEW s \in Slots \cup {large},
             UNCHANGED <<reservation, spaces, blocks>>, Running, halt' \in {"no", "undefined"},
             pc' = [pc EXCEPT ![t] = w], slot' = [slot EXCEPT ![t] = s], w # "idle" => s \in Slots,
             \/ pc[t] \notin Inside /\ w \notin Inside /\ mMutex' = mMutex
             \/ pc[t] \notin Inside /\ w \in Inside /\ mMutex[s] = nobody /\ mMutex' = [mMutex EXCEPT ![s] = t]
             \/ pc[t] \in Inside /\ w \notin Inside /\ mMutex' = [mMutex EXCEPT ![slot[t]] = nobody]
             \/ pc[t] \in Inside /\ w \in Inside /\ s = slot[t] /\ mMutex' = mMutex,
             w = "create" => mSpace[s] = NULL, w \in {"found", "allocate"} => mSpace[s] # NULL
      PROVE  Inv'
  <2>1. Threading'
    BY <1>0, <1>1, ThreadMoves
  <2>2. \A u \in Threads \ {t} : pc'[u] = pc[u] /\ slot'[u] = slot[u]
    BY <1>0, <1>1
  <2>3. pc'[t] = w /\ slot'[t] = s
    BY <1>0, <1>1
  <2> QED BY <1>1, <2>1, <2>2, <2>3, MovesKeep
<1>2. slot[t] \in Slots \cup {large} /\ slot = [slot EXCEPT ![t] = slot[t]] /\ pc = [pc EXCEPT ![t] = pc[t]]
  BY <1>0
<1>3. ASSUME NEW size \in Sizes, Call(t, size) PROVE Inv'
  BY <1>0, <1>1, <1>3 DEF Call, Goes, Running
<1>4. CASE LockToFind(t)
  BY <1>0, <1>1, <1>2, <1>4 DEF LockToFind, Lock, Goes, Running
<1>5. CASE LockToAllocate(t)
  <2>1. mSpace[slot[t]] # NULL
    BY <1>5 DEF LockToAllocate, Lock, Inv, BlocksHaveSpace
  <2> QED BY <1>0, <1>1, <1>2, <1>5, <2>1 DEF LockToAllocate, Lock, Goes, Running
<1>6. CASE Look(t)
  BY <1>0, <1>1, <1>2, <1>6 DEF Look, Unlock, Goes, Running
<1>7. CASE CreateRefused(t)
  BY <1>0, <1>1, <1>7 DEF CreateRefused, Ends, Unlock, Goes, Running
<1>8. CASE getTotalAllocated(t)
  BY <1>0, <1>1, <1>8, FirstSlot DEF getTotalAllocated, Goes, Running
<1>9. CASE AddFootprint(t)
  <2>0. halt' \in {"no", "undefined"} /\ Running
    BY <1>9, OutcomesTyped DEF AddFootprint
  <2>1. CASE isLast(slot[t])
    BY <1>0, <1>1, <1>2, <1>9, <2>0, <2>1 DEF AddFootprint, Goes
  <2>2. CASE ~isLast(slot[t])
    <3>1. Min(later(slot[t])) \in Slots
      <4>1. later(slot[t]) \in SUBSET Slots /\ later(slot[t]) # {}
        BY <2>2 DEF isLast, later
      <4>2. Min(later(slot[t])) \in later(slot[t])
        BY <4>1, FirstSlot
      <4> QED BY <4>1, <4>2
    <3>2. slot' = [slot EXCEPT ![t] = Min(later(slot[t]))]
      BY <1>9, <2>2 DEF AddFootprint
    <3> QED BY <1>0, <1>1, <1>2, <1>9, <2>0, <2>2, <3>1, <3>2 DEF AddFootprint
  <2> QED BY <2>1, <2>2
<1>10. CASE Return(t)
  BY <1>0, <1>1, <1>10 DEF Return, Ends, Goes, Running
<1> QED BY <1>3, <1>4, <1>5, <1>6, <1>7, <1>8, <1>9, <1>10

\* createMemorySpace: the page is nobody's, and the slot has no space to lose.
LEMMA CreateStep ==
  ASSUME Inv, NEW t \in Threads, NEW p \in Pages, Create(t, p)
  PROVE  Inv'
<1>0. /\ Threading /\ pc \in [Threads -> Places] /\ slot \in [Threads -> Slots \cup {large}]
      /\ slot[t] \in Slots /\ mSpace[slot[t]] = NULL /\ mMutex[slot[t]] = t
      /\ Running /\ p # NULL /\ p \in Nat /\ NumPages \in Nat
  <2>1. pc[t] = "create" /\ Running
    BY DEF Create
  <2> QED BY <2>1, GeneralAssumption DEF Inv, Threading, Missing, NULL, Pages, Inside
<1>r. PICK r \in Slots : r = slot[t]
  BY <1>0
<1>1. /\ reservation[p] = NULL /\ reservation' = [reservation EXCEPT ![p] = p]
      /\ mSpace' = [mSpace EXCEPT ![r] = p] /\ footprint' = [footprint EXCEPT ![p] = 1]
      /\ pc[t] = "create" /\ pc' = [pc EXCEPT ![t] = "found"] /\ slot' = slot
      /\ mMutex' = [mMutex EXCEPT ![r] = nobody] /\ blocks' = blocks /\ halt' = halt
  BY <1>r DEF Create, Unreserved, Goes, Unlock
<1>2. Typed'
  BY <1>0, <1>1 DEF Inv, Typed
<1>3. Threading'
  <2>1. slot' = [slot EXCEPT ![t] = slot[t]]
    BY <1>0, <1>1
  <2> QED BY <1>0, <1>1, <1>r, <2>1, ThreadMoves DEF Places, Inside
<1>4. Missing'
  <2> SUFFICES ASSUME NEW u \in Threads, pc'[u] = "create" PROVE mSpace'[slot'[u]] = NULL
    BY DEF Missing
  <2>1. u # t /\ pc[u] = "create" /\ slot[u] \in Slots
    BY <1>0, <1>1 DEF Threading
  <2>2. slot[u] # r
    BY <1>0, <1>r, <2>1 DEF Threading, Inside
  <2> QED BY <1>0, <1>1, <1>r, <2>1, <2>2 DEF Inv, Typed, Missing
<1>5. /\ mSpace \in [Slots -> Pages \cup {NULL}] /\ footprint \in [Pages -> Nat]
      /\ \A s \in Slots : mSpace'[s] = IF s = r THEN p ELSE mSpace[s]
      /\ \A q \in Pages : footprint'[q] = IF q = p THEN 1 ELSE footprint[q]
      /\ \A q \in Pages : reservation'[q] = IF q = p THEN p ELSE reservation[q]
      /\ r \in Slots
  BY <1>0, <1>1 DEF Inv, Typed
<1>6. \A s \in Slots \ {r} : mSpace[s] # NULL /\ mSpace[s] # p => claimed(mSpace[s])' = claimed(mSpace[s])
  BY <1>5 DEF claimed
<1>7. claimed(p)' = {p}
  <2>1. footprint'[p] = 1
    BY <1>5
  <2>2. p .. p + 1 - 1 = {p}
    BY <1>0
  <2> QED BY <2>1, <2>2 DEF claimed
<1>8. mSpace'[r] = p /\ p # NULL
  BY <1>0, <1>5
<1>9. Sized'
  <2> SUFFICES ASSUME NEW s \in Slots, mSpace'[s] # NULL PROVE footprint'[mSpace'[s]] > 0
    BY DEF Sized
  <2>1. CASE mSpace'[s] = p
    BY <1>5, <2>1
  <2>2. CASE mSpace'[s] # p
    <3>1. mSpace'[s] = mSpace[s] /\ mSpace[s] \in Pages /\ footprint[mSpace[s]] > 0
      BY <1>5, <2>2 DEF Inv, Sized
    <3> QED BY <1>5, <2>2, <3>1
  <2> QED BY <2>1, <2>2
<1>10. ReservedByClaimant'
  <2> SUFFICES ASSUME ClaimsApart'
               PROVE  /\ \A s \in Slots : mSpace'[s] # NULL => reservation'[mSpace'[s]] = mSpace'[s]
                      /\ \A q \in Pages : reservation'[q] # NULL =>
                            q \in claimed(reservation[q])' /\ \E s \in Slots : mSpace'[s] = reservation'[q]
    BY DEF ReservedByClaimant
  <2>1. \A s, u \in Slots : s # u /\ mSpace'[s] # NULL /\ mSpace'[u] # NULL =>
           claimed(mSpace[s])' \cap claimed(mSpace[u])' = {}
    BY DEF ClaimsApart
  <2>2. \A s \in Slots \ {r} : mSpace[s] # p
    <3> SUFFICES ASSUME NEW s \in Slots \ {r}, mSpace[s] = p PROVE FALSE
      OBVIOUS
    <3>1. mSpace'[s] = p /\ mSpace'[r] = p
      BY <1>5
    <3>2. claimed(mSpace[s])' = {p} /\ claimed(mSpace[r])' = {p}
      BY <1>7, <3>1 DEF claimed
    <3> QED BY <1>8, <1>5, <2>1, <3>1, <3>2
  <2>3. ClaimsApart
    <3> SUFFICES ASSUME NEW s \in Slots, NEW u \in Slots, s # u, mSpace[s] # NULL, mSpace[u] # NULL
                 PROVE  claimed(mSpace[s]) \cap claimed(mSpace[u]) = {}
      BY DEF ClaimsApart
    <3>1. s # r /\ u # r
      BY <1>0, <1>r
    <3>2. claimed(mSpace[s])' = claimed(mSpace[s]) /\ claimed(mSpace[u])' = claimed(mSpace[u])
      BY <1>6, <2>2, <3>1
    <3>3. mSpace'[s] # NULL /\ mSpace'[u] # NULL
      BY <1>5, <3>1
    <3> QED BY <2>1, <3>2, <3>3
  <2>4. /\ \A s \in Slots : mSpace[s] # NULL => reservation[mSpace[s]] = mSpace[s]
        /\ \A q \in Pages : reservation[q] # NULL =>
               q \in claimed(reservation[q]) /\ \E s \in Slots : mSpace[s] = reservation[q]
    BY <1>0, <2>3 DEF Inv, ReservedByClaimant
  <2>5. \A s \in Slots : mSpace'[s] # NULL => reservation'[mSpace'[s]] = mSpace'[s]
    BY <1>5, <2>2, <2>4
  <2>6. ASSUME NEW q \in Pages, reservation'[q] # NULL
        PROVE  q \in claimed(reservation[q])' /\ \E s \in Slots : mSpace'[s] = reservation'[q]
    <3>1. CASE q = p
      <4>1. reservation'[q] = p
        BY <1>5, <3>1
      <4>2. claimed(reservation[q])' = {p}
        BY <1>7, <4>1 DEF claimed
      <4> QED BY <1>8, <3>1, <4>1, <4>2, <1>5
    <3>2. CASE q # p
      <4>1. reservation'[q] = reservation[q]
        BY <1>5, <3>2
      <4>2. PICK s \in Slots : mSpace[s] = reservation[q]
        BY <2>4, <2>6, <4>1
      <4>3. s # r /\ mSpace[s] # p /\ mSpace'[s] = mSpace[s] /\ mSpace[s] # NULL
        BY <1>0, <1>r, <1>5, <2>2, <2>6, <4>1, <4>2
      <4>4. claimed(reservation[q])' = claimed(reservation[q])
        BY <1>5, <4>1, <4>2, <4>3 DEF claimed
      <4> QED BY <2>4, <2>6, <4>1, <4>2, <4>3, <4>4
    <3> QED BY <3>1, <3>2
  <2> QED BY <2>5, <2>6
<1>11. BlocksHaveSpace'
  <2>1. ASSUME NEW u \in Threads, pc'[u] \in {"found", "allocate"} PROVE mSpace'[slot'[u]] # NULL
    <3>1. u = t \/ (pc[u] \in {"found", "allocate"} /\ slot[u] \in Slots /\ mSpace[slot[u]] # NULL)
      BY <1>0, <1>1, <2>1 DEF Inv, BlocksHaveSpace, Threading
    <3> QED BY <1>0, <1>1, <1>5, <1>r, <3>1
  <2>2. ASSUME NEW q \in Pages, blocks'[q] > 0 PROVE \E s \in Slots : mSpace'[s] = q
    <3>1. PICK s \in Slots : mSpace[s] = q
      BY <1>1, <2>2 DEF Inv, BlocksHaveSpace
    <3>2. s # r
      BY <1>0, <1>r, <3>1 DEF NULL, Pages
    <3> QED BY <1>5, <3>1, <3>2
  <2> QED BY <2>1, <2>2 DEF BlocksHaveSpace
<1>12. OnlyGrowthIsLeft'
  BY <1>0, <1>1 DEF OnlyGrowthIsLeft, Running
<1> QED BY <1>2, <1>3, <1>4, <1>9, <1>10, <1>11, <1>12 DEF Inv

\* A space claims the page it begins with.
LEMMA ClaimsItsFirst ==
  ASSUME Inv
  PROVE  \A s \in Slots : mSpace[s] # NULL =>
           /\ mSpace[s] \in Pages /\ mSpace[s] \in claimed(mSpace[s]) /\ footprint[mSpace[s]] \in Nat \ {0}
<1> SUFFICES ASSUME NEW s \in Slots, mSpace[s] # NULL
             PROVE  /\ mSpace[s] \in Pages /\ mSpace[s] \in claimed(mSpace[s])
                    /\ footprint[mSpace[s]] \in Nat \ {0}
  OBVIOUS
<1>1. mSpace[s] \in Pages /\ footprint[mSpace[s]] \in Nat /\ footprint[mSpace[s]] > 0
  BY DEF Inv, Typed, Sized
<1>2. mSpace[s] \in claimed(mSpace[s])
  BY <1>1, GeneralAssumption DEF claimed, Pages
<1> QED BY <1>1, <1>2

\* A thread that has allocated leaves the mutex and holds a block of the slot's space.
LEMMA HandMoves ==
  ASSUME Inv, NEW t \in Threads, pc[t] = "allocate", NEW p, p = mSpace[slot[t]], Hand(t, p)
  PROVE  /\ Threading' /\ Missing' /\ blocks' \in [Pages -> Nat] /\ mSpace' = mSpace
         /\ p \in Pages /\ p # NULL /\ slot[t] \in Slots
         /\ \A u \in Threads : pc'[u] \in {"found", "allocate"} => mSpace[slot'[u]] # NULL
         /\ \A q \in Pages : blocks'[q] > 0 => \E s \in Slots : mSpace[s] = q
<1>0. /\ Threading /\ pc \in [Threads -> Places] /\ slot \in [Threads -> Slots \cup {large}]
      /\ slot[t] \in Slots /\ mSpace[slot[t]] # NULL
      /\ mSpace \in [Slots -> Pages \cup {NULL}] /\ blocks \in [Pages -> Nat]
  BY DEF Inv, Threading, Typed, BlocksHaveSpace
<1>1. /\ pc' = [pc EXCEPT ![t] = "idle"] /\ slot' = [slot EXCEPT ![t] = large]
      /\ mMutex' = [mMutex EXCEPT ![slot[t]] = nobody] /\ mSpace' = mSpace
      /\ blocks' = [blocks EXCEPT ![p] = @ + 1]
  BY DEF Hand, Ends, Goes, Unlock
<1>2. Threading'
  BY <1>0, <1>1, ThreadMoves DEF Places, Inside
<1>3. \A u \in Threads : pc'[u] # "idle" => pc'[u] = pc[u] /\ slot'[u] = slot[u]
  BY <1>0, <1>1
<1>4. Missing'
  BY <1>1, <1>3 DEF Inv, Missing
<1>5. \A q \in Pages : blocks'[q] > 0 => q = p \/ blocks[q] > 0
  BY <1>0, <1>1
<1> QED BY <1>0, <1>1, <1>2, <1>3, <1>4, <1>5 DEF Inv, BlocksHaveSpace

\* Where claims only become larger and the slots keep their spaces, pages claimed by two stay so.
LEMMA ApartBefore ==
  ASSUME mSpace' = mSpace, \A s \in Slots : mSpace[s] # NULL => claimed(mSpace[s]) \subseteq claimed(mSpace[s])',
         ClaimsApart'
  PROVE  ClaimsApart
<1> SUFFICES ASSUME NEW s \in Slots, NEW u \in Slots, s # u, mSpace[s] # NULL, mSpace[u] # NULL
             PROVE  claimed(mSpace[s]) \cap claimed(mSpace[u]) = {}
  BY DEF ClaimsApart
<1>1. claimed(mSpace[s])' \cap claimed(mSpace[u])' = {}
  BY DEF ClaimsApart
<1> QED BY <1>1

\* A block in the pages the space has.
LEMMA FitsStep ==
  ASSUME Inv, NEW t \in Threads, Fits(t)
  PROVE  Inv'
<1>1. /\ Running /\ pc[t] = "allocate" /\ Hand(t, mSpace[slot[t]]) /\ UNCHANGED <<reservation, footprint>>
      /\ halt' \in {"no", "undefined"}
  BY OutcomesTyped DEF Fits
<1>2. /\ Threading' /\ Missing' /\ blocks' \in [Pages -> Nat] /\ mSpace' = mSpace
      /\ \A u \in Threads : pc'[u] \in {"found", "allocate"} => mSpace[slot'[u]] # NULL
      /\ \A q \in Pages : blocks'[q] > 0 => \E s \in Slots : mSpace[s] = q
  BY <1>1, HandMoves
<1>3. Typed' /\ Sized'
  BY <1>1, <1>2 DEF Inv, Typed, Sized
<1>4. BlocksHaveSpace'
  BY <1>2 DEF BlocksHaveSpace
<1>5. ReservedByClaimant' /\ OnlyGrowthIsLeft'
  BY <1>1, <1>2, SpacesStay DEF spaces
<1> QED BY <1>2, <1>3, <1>4, <1>5 DEF Inv

\* The page behind the space was nobody's, and is the space's from now on; it claims that
\* page, and whatever it adds to its footprint behind it.
LEMMA GrowthStep ==
  ASSUME Inv, NEW t \in Threads, NEW n \in Nat \ {0}, NEW p, p = mSpace[slot[t]], NEW q, q = behind(p),
         Running, pc[t] = "allocate", q \in Pages, reservation[q] = NULL,
         reservation' = [reservation EXCEPT ![q] = p], footprint' = [footprint EXCEPT ![p] = @ + n],
         Hand(t, p), halt' \in {"no", "undefined"}
  PROVE  Inv'
<1>4. /\ Threading' /\ Missing' /\ blocks' \in [Pages -> Nat] /\ mSpace' = mSpace
      /\ p \in Pages /\ p # NULL /\ slot[t] \in Slots
      /\ \A u \in Threads : pc'[u] \in {"found", "allocate"} => mSpace[slot'[u]] # NULL
      /\ \A z \in Pages : blocks'[z] > 0 => \E s \in Slots : mSpace[s] = z
  BY HandMoves
<1>5. PICK r \in Slots : r = slot[t]
  BY <1>4
<1>6. /\ reservation \in [Pages -> Pages \cup {NULL}] /\ footprint \in [Pages -> Nat]
      /\ mSpace \in [Slots -> Pages \cup {NULL}] /\ Pages \subseteq Nat
  BY GeneralAssumption DEF Inv, Typed, Pages
<1>7. Typed'
  <2>1. reservation' \in [Pages -> Pages \cup {NULL}]
    BY <1>4, <1>6
  <2>2. footprint[p] + n \in Nat
    BY <1>4, <1>6
  <2>3. footprint' \in [Pages -> Nat]
    BY <1>4, <1>6, <2>2
  <2> QED BY <1>4, <1>6, <2>1, <2>3 DEF Typed
<1>8. /\ \A z \in Pages : reservation'[z] = IF z = q THEN p ELSE reservation[z]
      /\ \A z \in Pages : footprint'[z] = IF z = p THEN footprint[p] + n ELSE footprint[z]
  BY <1>4, <1>6
<1>9. q = p + footprint[p] /\ footprint[p] \in Nat /\ p \in Nat
  BY <1>4, <1>6 DEF behind
<1>10. \A z \in Pages : claimed(z) \subseteq claimed(z)'
  <2> SUFFICES ASSUME NEW z \in Pages PROVE claimed(z) \subseteq claimed(z)'
    OBVIOUS
  <2>1. footprint[z] \in Nat /\ footprint'[z] \in Nat /\ footprint[z] =< footprint'[z] /\ z \in Nat
    BY <1>6, <1>8, <1>9
  <2> QED BY <2>1 DEF claimed
<1>11. q \in claimed(p)'
  <2>1. footprint'[p] = footprint[p] + n
    BY <1>4, <1>8
  <2> QED BY <1>9, <2>1 DEF claimed
<1>13. Sized'
  BY <1>4, <1>6, <1>8, <1>9 DEF Inv, Sized
<1>14. ReservedByClaimant'
  <2> SUFFICES ASSUME ClaimsApart'
               PROVE  /\ \A s \in Slots : mSpace[s] # NULL => reservation'[mSpace[s]] = mSpace[s]
                      /\ \A z \in Pages : reservation'[z] # NULL =>
                            z \in claimed(reservation[z])' /\ \E s \in Slots : mSpace[s] = reservation'[z]
    BY <1>4 DEF ReservedByClaimant
  <2>1. ClaimsApart
    <3>1. \A s \in Slots : mSpace[s] # NULL => claimed(mSpace[s]) \subseteq claimed(mSpace[s])'
      <4> SUFFICES ASSUME NEW s \in Slots, mSpace[s] # NULL
                   PROVE  claimed(mSpace[s]) \subseteq claimed(mSpace[s])'
        OBVIOUS
      <4>1. PICK z \in Pages : z = mSpace[s]
        BY <1>6
      <4>2. claimed(mSpace[s])' = claimed(z)'
        BY <1>4, <4>1 DEF claimed
      <4> QED BY <1>10, <4>1, <4>2
    <3> QED BY <1>4, <3>1, ApartBefore
  <2>2. /\ \A s \in Slots : mSpace[s] # NULL => reservation[mSpace[s]] = mSpace[s]
        /\ \A z \in Pages : reservation[z] # NULL =>
               z \in claimed(reservation[z]) /\ \E s \in Slots : mSpace[s] = reservation[z]
    BY <2>1 DEF Inv, ReservedByClaimant
  <2>3. \A s \in Slots : mSpace[s] # NULL => reservation'[mSpace[s]] = mSpace[s]
    BY <1>6, <1>8, <2>2
  <2>4. ASSUME NEW z \in Pages, reservation'[z] # NULL
        PROVE  z \in claimed(reservation[z])' /\ \E s \in Slots : mSpace[s] = reservation'[z]
    <3>1. CASE z = q
      <4>1. reservation'[z] = p
        BY <1>8, <3>1
      <4>2. claimed(reservation[z])' = claimed(p)'
        BY <4>1 DEF claimed
      <4> QED BY <1>5, <1>11, <3>1, <4>1, <4>2
    <3>2. CASE z # q
      <4>1. PICK w \in Pages : w = reservation[z] /\ w = reservation'[z]
        BY <1>6, <1>8, <2>4, <3>2
      <4>2. claimed(reservation[z])' = claimed(w)' /\ claimed(reservation[z]) = claimed(w)
        BY <4>1 DEF claimed
      <4>3. w # NULL
        BY <2>4, <4>1
      <4> QED BY <1>10, <2>2, <4>1, <4>2, <4>3
    <3> QED BY <3>1, <3>2
  <2> QED BY <2>3, <2>4
<1>15. BlocksHaveSpace'
  BY <1>4 DEF BlocksHaveSpace
<1>16. OnlyGrowthIsLeft'
  BY DEF OnlyGrowthIsLeft
<1> QED BY <1>4, <1>7, <1>13, <1>14, <1>15, <1>16 DEF Inv

\* Growth by a page.
LEMMA GrowStep ==
  ASSUME Inv, NEW t \in Threads, Grow(t)
  PROVE  Inv'
<1>1. PICK p : p = mSpace[slot[t]]
  OBVIOUS
<1>2. PICK q : q = behind(p)
  OBVIOUS
<1>3. /\ Running /\ pc[t] = "allocate" /\ q \in Pages /\ reservation[q] = NULL
      /\ reservation' = [reservation EXCEPT ![q] = p] /\ footprint' = [footprint EXCEPT ![p] = @ + 1]
      /\ Hand(t, p) /\ halt' \in {"no", "undefined"}
  BY <1>1, <1>2, OutcomesTyped DEF Grow, MayBeFull, Unreserved
<1>4. PICK n \in Nat \ {0} : n = 1
  OBVIOUS
<1>5. footprint' = [footprint EXCEPT ![p] = @ + n]
  BY <1>3, <1>4
<1> QED BY <1>1, <1>2, <1>3, <1>5, GrowthStep

\* Growth by more than one.
LEMMA FurtherStep ==
  ASSUME Inv, NEW t \in Threads, GrowFurther(t)
  PROVE  Inv'
<1>1. PICK p : p = mSpace[slot[t]]
  OBVIOUS
<1>2. PICK q : q = behind(p)
  OBVIOUS
<1>3. /\ Running /\ pc[t] = "allocate" /\ q \in Pages /\ reservation[q] = NULL
      /\ reservation' = [reservation EXCEPT ![q] = p] /\ Hand(t, p)
  BY <1>1, <1>2 DEF GrowFurther, MayBeFull, Unreserved
<1>4. PICK n \in 2 .. NumPages - q + 1 :
        footprint' = [footprint EXCEPT ![p] = @ + n] /\ halt' \in {"no", "undefined"}
  BY <1>1, <1>2, OutcomesTyped DEF GrowFurther
<1>5. n \in Nat \ {0}
  BY <1>3, <1>4, GeneralAssumption DEF Pages
<1> QED BY <1>1, <1>2, <1>3, <1>4, <1>5, GrowthStep

\* The step that ends the run without touching anything else.
LEMMA RefusedStep ==
  ASSUME Inv, NEW t \in Threads, GrowRefused(t)
  PROVE  Inv'
<1>1. UNCHANGED <<reservation, mSpace, footprint, mMutex, pc, slot, blocks>> /\ halt' = "fault"
  BY DEF GrowRefused, spaces, thread
<1>2. Typed' /\ Threading' /\ Missing' /\ Sized' /\ BlocksHaveSpace'
  BY <1>1 DEF Inv, Typed, Threading, Missing, Sized, BlocksHaveSpace
<1>3. ReservedByClaimant' /\ OnlyGrowthIsLeft'
  BY <1>1 DEF ReservedByClaimant, OnlyGrowthIsLeft, Running
<1> QED BY <1>2, <1>3 DEF Inv

\* free takes a block back, and releases pages the space claims, its first never among them.
LEMMA DeallocateStep ==
  ASSUME Inv, NEW t \in Threads, NEW p \in Pages, deallocate(t, p)
  PROVE  Inv'
<1>1. /\ Running /\ blocks[p] > 0 /\ blocks' = [blocks EXCEPT ![p] = @ - 1]
      /\ UNCHANGED <<mSpace, footprint, mMutex, pc, slot>> /\ halt' \in {"no", "undefined"}
  BY OutcomesTyped DEF deallocate, spaces, thread
<1>2. PICK s \in Slots : mSpace[s] = p /\ \E size_factor \in 0 .. (footprint[p] - 1) \div segment_granularity(s) :
          reservation' = releaseSegments(released(p, segment_granularity(s), size_factor))
  BY DEF deallocate
<1>3. PICK size_factor \in 0 .. (footprint[p] - 1) \div segment_granularity(s) :
          reservation' = releaseSegments(released(p, segment_granularity(s), size_factor))
  BY <1>2
<1>4. PICK gone : gone = released(p, segment_granularity(s), size_factor) /\ reservation' = releaseSegments(gone)
  BY <1>3
<1>5. /\ reservation \in [Pages -> Pages \cup {NULL}] /\ blocks \in [Pages -> Nat]
      /\ mSpace \in [Slots -> Pages \cup {NULL}] /\ p \in Nat /\ p # NULL
  BY GeneralAssumption DEF Inv, Typed, Pages, NULL
<1>6. footprint[p] \in Nat /\ footprint[p] > 0
  BY <1>2, <1>5 DEF Inv, Typed, Sized
<1>7. gone \subseteq claimed(p) \ {p}
  <2> SUFFICES ASSUME NEW i \in 2 .. size_factor
               PROVE  p + segment_granularity(s) * (i - 1) \in claimed(p) \ {p}
    BY <1>4 DEF released
  <2>1. PICK f \in Nat : f = footprint[p] /\ f > 0
    BY <1>6
  <2>2. CASE s = large
    <3>1. segment_granularity(s) = 512
      BY <2>2 DEF segment_granularity
    <3>2. size_factor \in 0 .. (f - 1) \div 512
      BY <1>3, <2>1, <3>1
    <3>3. i \in Int /\ 2 =< i /\ 512 * i =< f - 1
      BY <2>1, <3>2
    <3> QED BY <1>5, <2>1, <3>1, <3>3 DEF claimed
  <2>3. CASE s # large
    <3>1. segment_granularity(s) = 1
      BY <2>3 DEF segment_granularity
    <3>2. size_factor \in 0 .. (f - 1) \div 1
      BY <1>3, <2>1, <3>1
    <3>3. i \in Int /\ 2 =< i /\ i =< f - 1
      BY <2>1, <3>2
    <3> QED BY <1>5, <2>1, <3>1, <3>3 DEF claimed
  <2> QED BY <2>2, <2>3
<1>8. \A q \in Pages : reservation'[q] = IF q \in gone THEN NULL ELSE reservation[q]
  BY <1>4 DEF releaseSegments
<1>9. Typed'
  BY <1>1, <1>4, <1>5 DEF Inv, Typed, releaseSegments
<1>10. ReservedByClaimant'
  <2> SUFFICES ASSUME ClaimsApart'
               PROVE  /\ \A r \in Slots : mSpace[r] # NULL => reservation'[mSpace[r]] = mSpace[r]
                      /\ \A q \in Pages : reservation'[q] # NULL =>
                            q \in claimed(reservation[q])' /\ \E r \in Slots : mSpace[r] = reservation'[q]
    BY <1>1 DEF ReservedByClaimant
  <2>1. ClaimsApart
    BY <1>1 DEF ClaimsApart, claimed
  <2>2. /\ \A r \in Slots : mSpace[r] # NULL => reservation[mSpace[r]] = mSpace[r]
        /\ \A q \in Pages : reservation[q] # NULL =>
               q \in claimed(reservation[q]) /\ \E r \in Slots : mSpace[r] = reservation[q]
    BY <1>1, <2>1 DEF Inv, ReservedByClaimant
  <2>3. ASSUME NEW r \in Slots, mSpace[r] # NULL PROVE mSpace[r] \notin gone
    <3>1. CASE r = s
      BY <1>2, <1>7, <3>1
    <3>2. CASE r # s
      <4>1. claimed(mSpace[r]) \cap claimed(mSpace[s]) = {}
        BY <1>2, <1>5, <2>1, <2>3, <3>2 DEF ClaimsApart
      <4>2. mSpace[r] \in claimed(mSpace[r])
        BY <2>3, ClaimsItsFirst
      <4> QED BY <1>2, <1>7, <4>1, <4>2
    <3> QED BY <3>1, <3>2
  <2>4. \A r \in Slots : mSpace[r] # NULL => reservation'[mSpace[r]] = mSpace[r]
    BY <1>5, <1>8, <2>2, <2>3
  <2>5. ASSUME NEW q \in Pages, reservation'[q] # NULL
        PROVE  q \in claimed(reservation[q])' /\ \E r \in Slots : mSpace[r] = reservation'[q]
    <3>1. reservation'[q] = reservation[q] /\ reservation[q] # NULL
      BY <1>8, <2>5
    <3>2. claimed(reservation[q])' = claimed(reservation[q])
      BY <1>1, <3>1 DEF claimed
    <3> QED BY <2>2, <3>1, <3>2
  <2> QED BY <2>4, <2>5
<1>11. BlocksHaveSpace'
  BY <1>1, <1>5 DEF Inv, BlocksHaveSpace
<1>12. Threading' /\ Missing' /\ Sized'
  BY <1>1 DEF Inv, Threading, Missing, Sized
<1>13. OnlyGrowthIsLeft'
  BY <1>1 DEF OnlyGrowthIsLeft
<1> QED BY <1>9, <1>10, <1>11, <1>12, <1>13 DEF Inv

\* The destructor releases the page every space is in.
LEMMA DestroyStep ==
  ASSUME Inv, Destroy
  PROVE  Inv'
<1>1. /\ Running /\ reservation' = releaseSegments(destroyed) /\ halt' \in {"destroyed", "undefined"}
      /\ UNCHANGED <<mSpace, footprint, mMutex, pc, slot, blocks>>
  BY DEF Destroy, spaces, thread
<1>2. reservation \in [Pages -> Pages \cup {NULL}] /\ mSpace \in [Slots -> Pages \cup {NULL}]
  BY DEF Inv, Typed
<1>3. Typed' /\ Threading' /\ Missing' /\ Sized' /\ BlocksHaveSpace' /\ ReservedByClaimant'
  BY <1>1, <1>2 DEF Inv, Typed, Threading, Missing, Sized, BlocksHaveSpace, ReservedByClaimant, Running, releaseSegments
<1>4. \A q \in Pages : reservation'[q] = IF q \in destroyed THEN NULL ELSE reservation[q]
  BY <1>1 DEF releaseSegments
<1>5. \A s \in Slots : mSpace[s] # NULL => mSpace[s] \in Pages /\ mSpace[s] \in destroyed
  BY <1>2 DEF destroyed
<1>6. ASSUME ClaimsApart', NEW q \in Pages, reservation'[q] # NULL
      PROVE  \E s \in Slots : mSpace[s] = reservation'[q] /\ q \in claimed(mSpace[s])' \ {mSpace[s]}
  <2>1. ClaimsApart
    BY <1>1, <1>6 DEF ClaimsApart, claimed
  <2>2. reservation'[q] = reservation[q] /\ q \notin destroyed /\ reservation[q] # NULL
    BY <1>4, <1>6
  <2>3. q \in claimed(reservation[q]) /\ \E s \in Slots : mSpace[s] = reservation[q]
    BY <1>1, <2>1, <2>2 DEF Inv, ReservedByClaimant
  <2>4. PICK s \in Slots : mSpace[s] = reservation[q]
    BY <2>3
  <2>5. claimed(mSpace[s])' = claimed(reservation[q])
    BY <1>1, <2>4 DEF claimed
  <2>6. q # mSpace[s]
    BY <1>5, <2>2, <2>4
  <2> QED BY <2>2, <2>3, <2>4, <2>5, <2>6
<1>7. OnlyGrowthIsLeft'
  BY <1>1, <1>4, <1>5, <1>6 DEF OnlyGrowthIsLeft
<1> QED BY <1>3, <1>7 DEF Inv

-----------------------------------------------------------------------------
(* The theorems *)

\* The inductive invariant holds in every state, for every number of threads.
THEOREM GeneralInvariant == Spec => []Inv
<1>1. Init => Inv
  <2> SUFFICES ASSUME Init PROVE Inv
    OBVIOUS
  <2>1. /\ mSpace \in [Slots -> Pages \cup {NULL}] /\ Pages \subseteq Nat \ {NULL}
        /\ \A p \in Pages : reservation[p] = IF \E s \in Slots : mSpace[s] = p THEN p ELSE NULL
        /\ \A p \in Pages : footprint[p] = IF reservation[p] = p THEN 1 ELSE 0
        /\ Slots \subseteq Nat
    BY GeneralAssumption, SlotBounds DEF Init, Pages, NULL
  <2>2. Typed
    BY <2>1 DEF Init, Typed
  <2>3. Threading
    BY GeneralAssumption DEF Init, Threading, Places, Inside, nobody
  <2>4. \A s \in Slots : mSpace[s] # NULL =>
           /\ mSpace[s] \in Pages /\ reservation[mSpace[s]] = mSpace[s] /\ footprint[mSpace[s]] = 1
           /\ \A r \in Slots \ {s} : mSpace[r] # mSpace[s]
    <3> SUFFICES ASSUME NEW s \in Slots, mSpace[s] # NULL
                 PROVE  /\ mSpace[s] \in Pages /\ reservation[mSpace[s]] = mSpace[s] /\ footprint[mSpace[s]] = 1
                        /\ \A r \in Slots \ {s} : mSpace[r] # mSpace[s]
      OBVIOUS
    <3>1. \A u, r \in Slots : u < r /\ mSpace[u] \in {mSpace[r], NULL} => mSpace[r] = NULL
      BY DEF Init
    <3>2. \A r \in Slots \ {s} : r < s \/ s < r
      BY <2>1
    <3> QED BY <2>1, <3>1, <3>2
  <2>5. Sized
    BY <2>4 DEF Sized
  <2>6. \A s \in Slots : mSpace[s] # NULL => claimed(mSpace[s]) = {mSpace[s]}
    <3>1. \A p \in Nat : p .. p + 1 - 1 = {p}
      OBVIOUS
    <3> QED BY <2>1, <2>4, <3>1 DEF claimed
  <2>7. ReservedByClaimant
    BY <2>1, <2>4, <2>6 DEF ReservedByClaimant
  <2>8. Missing /\ BlocksHaveSpace /\ OnlyGrowthIsLeft
    BY DEF Init, Missing, BlocksHaveSpace, OnlyGrowthIsLeft
  <2> QED BY <2>2, <2>3, <2>5, <2>7, <2>8 DEF Inv
<1>2. Inv /\ [Next]_vars => Inv'
  <2> SUFFICES ASSUME Inv, [Next]_vars PROVE Inv'
    OBVIOUS
  <2>1. CASE Next
    BY <2>1, QuietStep, CreateStep, FitsStep, GrowStep, FurtherStep, RefusedStep, DeallocateStep, DestroyStep DEF Next
  <2>2. CASE UNCHANGED vars
    BY <2>2 DEF vars, spaces, thread, Inv, Typed, Threading, Missing, Sized, ReservedByClaimant, BlocksHaveSpace,
       OnlyGrowthIsLeft, ClaimsApart, Running, claimed
  <2> QED BY <2>1, <2>2
<1> QED BY <1>1, <1>2, PTL DEF Spec

\* Every variable keeps its type, and each mutex is held by the one thread that
\* looks up, creates or allocates in its slot.
THEOREM GeneralTypes == Spec => []TypeOK
<1>1. Inv => TypeOK
  <2> SUFFICES ASSUME Inv PROVE TypeOK
    OBVIOUS
  <2>1. \A s \in Slots : {t \in Threads : slot[t] = s /\ pc[t] \in {"look", "create", "allocate"}} = {mMutex[s]} \ {nobody}
    BY GeneralAssumption DEF Inv, Threading, Inside, nobody
  <2> QED BY <2>1 DEF Inv, Typed, Threading, Places, TypeOK
<1> QED BY <1>1, GeneralInvariant, PTL

\* What getInstIndexFromSize led a thread to is there when it allocates, and
\* deallocate finds the space of every block: a slot never loses its space.
THEOREM SlotsKeepTheirSpace == Spec => []BlocksHaveSpace
<1>1. Inv => BlocksHaveSpace
  BY DEF Inv
<1> QED BY <1>1, GeneralInvariant, PTL

\* Whatever pages spaces claim without reserving them, and release while they claim them, as
\* long as no page is claimed twice each space has the page of its MemorySpace, and no page is
\* reserved for a space that does not claim it.
THEOREM PagesHaveClaimants == Spec => []ReservedByClaimant
<1>1. Inv => ReservedByClaimant
  BY DEF Inv
<1> QED BY <1>1, GeneralInvariant, PTL

\* The destructor leaves no space's own page reserved: what it leaves is growth.
THEOREM DestructorReleases == Spec => []OnlyGrowthIsLeft
<1>1. Inv => OnlyGrowthIsLeft
  BY DEF Inv
<1> QED BY <1>1, GeneralInvariant, PTL

-----------------------------------------------------------------------------
(* Sums over finite sets *)

\* What holds of 0, and of n + 1 if it holds of n, holds of every number.
LEMMA Induction ==
  ASSUME NEW T, 0 \in T, \A n \in Nat : n \in T => n + 1 \in T
  PROVE  Nat \subseteq T
<1> DEFINE R == {ss \in Nat \X Nat : ss[1] < ss[2]}
           Rest == Nat \ T
<1>1. IsWellFoundedOn(R, Nat)
  BY NatLessThanWellFounded DEF OpToRel
<1>2. \A x, y \in Nat : <<y, x>> \in R <=> y < x
  OBVIOUS
<1> HIDE DEF R
<1>3. ASSUME Rest # {} PROVE FALSE
  <2>1. PICK x \in Rest : \A y \in Rest : ~ (<<y, x>> \in R)
    BY <1>1, <1>3, WFMin
  <2>2. x \in Nat /\ x # 0 /\ x - 1 \in Nat /\ x - 1 < x
    BY <2>1
  <2>3. x - 1 \in T
    BY <2>1, <2>2, <1>2
  <2>4. (x - 1) + 1 = x /\ x \notin T
    BY <2>1
  <2> QED BY <2>2, <2>3, <2>4
<1> QED BY <1>3

\* The sum of f over a set, as the fold computes it: g is the function of its subsets.
pick(s) == CHOOSE x \in s : TRUE
plus(f, g, s) == IF s = {} THEN 0 ELSE f[pick(s)] + g[s \ {pick(s)}]
Sums(f, g, D) == g = [s \in D |-> plus(f, g, s)]

\* The library's sum is such a function, at the whole set.
LEMMA SumIsFold ==
  ASSUME NEW f, NEW S
  PROVE  SumFunctionOnSet(f, S) = (CHOOSE g : Sums(f, g, SUBSET S))[S]
BY DEF Sums, plus, pick, SumFunctionOnSet, FoldFunctionOnSet, MapThenFoldSet

\* The subsets of at most n elements.
Small(S, n) == {s \in SUBSET S : Cardinality(s) =< n}

\* A part without one of its elements is smaller.
LEMMA Smaller ==
  ASSUME NEW S, IsFiniteSet(S), NEW s \in SUBSET S
  PROVE  /\ IsFiniteSet(s) /\ Cardinality(s) \in Nat
         /\ \A x \in s : Cardinality(s \ {x}) = Cardinality(s) - 1
         /\ s # {} => pick(s) \in s /\ Cardinality(s) > 0
         /\ s = {} => Cardinality(s) = 0
<1>1. IsFiniteSet(s)
  BY FS_Subset
<1>2. Cardinality(s) \in Nat
  BY <1>1, FS_CardinalityType
<1>3. \A x \in s : Cardinality(s \ {x}) = Cardinality(s) - 1
  BY <1>1, FS_RemoveElement
<1>4. s # {} => pick(s) \in s
  BY DEF pick
<1>5. Cardinality(s) = 0 <=> s = {}
  BY <1>1, FS_EmptySet
<1> QED BY <1>1, <1>2, <1>3, <1>4, <1>5

\* The recursion over the subsets of a finite set defines a function.
LEMMA SumsExist ==
  ASSUME NEW f, NEW S, IsFiniteSet(S)
  PROVE  \E g : Sums(f, g, SUBSET S)
<1> DEFINE T == {n \in Nat : \E g : Sums(f, g, Small(S, n))}
<1>1. 0 \in T
  <2> DEFINE g == [s \in Small(S, 0) |-> 0]
  <2>1. \A s \in Small(S, 0) : s = {}
    BY Smaller DEF Small
  <2>2. Sums(f, g, Small(S, 0))
    BY <2>1 DEF Sums, plus
  <2> QED BY <2>2
<1>2. ASSUME NEW n \in Nat, n \in T PROVE n + 1 \in T
  <2>1. PICK g : Sums(f, g, Small(S, n))
    BY <1>2
  <2> DEFINE h == [s \in Small(S, n + 1) |-> plus(f, g, s)]
  <2>2. \A s \in Small(S, n) : s \in Small(S, n + 1) /\ h[s] = g[s]
    <3> SUFFICES ASSUME NEW s \in Small(S, n) PROVE s \in Small(S, n + 1) /\ h[s] = g[s]
      OBVIOUS
    <3>1. s \in Small(S, n + 1)
      BY Smaller DEF Small
    <3>2. g[s] = plus(f, g, s)
      BY <2>1 DEF Sums
    <3> QED BY <3>1, <3>2
  <2>3. \A s \in Small(S, n + 1) : s # {} => s \ {pick(s)} \in Small(S, n)
    BY Smaller DEF Small
  <2> HIDE DEF h
  <2>4. \A s \in Small(S, n + 1) : plus(f, h, s) = plus(f, g, s)
    BY <2>2, <2>3 DEF plus
  <2>5. Sums(f, h, Small(S, n + 1))
    BY <2>4 DEF Sums, h
  <2> QED BY <2>5
<1> HIDE DEF T
<1>3. Nat \subseteq T
  BY <1>1, <1>2, Induction
<1>4. Cardinality(S) \in Nat /\ Cardinality(S) \in T
  BY <1>3, FS_CardinalityType
<1>5. Small(S, Cardinality(S)) = SUBSET S
  BY FS_Subset DEF Small
<1> QED BY <1>4, <1>5 DEF T

\* Sums of integers are integers.
LEMMA SumsTyped ==
  ASSUME NEW S, IsFiniteSet(S), NEW f, \A x \in S : f[x] \in Int, NEW g, Sums(f, g, SUBSET S)
  PROVE  \A s \in SUBSET S : g[s] \in Int
<1> DEFINE T == {n \in Nat : \A s \in Small(S, n) : g[s] \in Int}
<1>0. \A s \in SUBSET S : g[s] = plus(f, g, s)
  BY DEF Sums
<1>1. 0 \in T
  <2>1. \A s \in Small(S, 0) : s \in SUBSET S /\ s = {}
    BY Smaller DEF Small
  <2>2. \A s \in Small(S, 0) : g[s] = 0
    BY <1>0, <2>1 DEF plus
  <2> QED BY <2>2
<1>2. ASSUME NEW n \in Nat, n \in T PROVE n + 1 \in T
  <2>1. ASSUME NEW s \in Small(S, n + 1), s # {} PROVE g[s] \in Int
    <3>1. s \ {pick(s)} \in Small(S, n) /\ pick(s) \in S
      BY <2>1, Smaller DEF Small
    <3>2. g[s \ {pick(s)}] \in Int /\ f[pick(s)] \in Int
      BY <3>1, <1>2
    <3>3. g[s] = f[pick(s)] + g[s \ {pick(s)}]
      BY <2>1, <1>0 DEF plus, Small
    <3> QED BY <3>2, <3>3
  <2>2. \A s \in SUBSET S : s = {} => g[s] = 0
    BY <1>0 DEF plus
  <2>3. \A s \in Small(S, n + 1) : g[s] \in Int
    BY <2>1, <2>2 DEF Small
  <2> QED BY <2>3
<1> HIDE DEF T
<1>3. Nat \subseteq T
  BY <1>1, <1>2, Induction
<1> SUFFICES ASSUME NEW s \in SUBSET S PROVE g[s] \in Int
  OBVIOUS
<1>4. Cardinality(s) \in T /\ s \in Small(S, Cardinality(s))
  BY <1>3, Smaller DEF Small
<1> QED BY <1>4 DEF T

\* In whatever order the elements are picked.
LEMMA SumsAdd ==
  ASSUME NEW S, IsFiniteSet(S), NEW f, \A x \in S : f[x] \in Int, NEW g, Sums(f, g, SUBSET S)
  PROVE  \A s \in SUBSET S, x \in S : x \in s => g[s] = f[x] + g[s \ {x}]
<1> DEFINE T == {n \in Nat : \A s \in Small(S, n), x \in S : x \in s => g[s] = f[x] + g[s \ {x}]}
<1>0. \A s \in SUBSET S : g[s] \in Int /\ (s # {} => g[s] = f[pick(s)] + g[s \ {pick(s)}])
  BY SumsTyped DEF Sums, plus
<1>1. 0 \in T
  BY Smaller DEF Small
<1>2. ASSUME NEW n \in Nat, n \in T PROVE n + 1 \in T
  <2> SUFFICES ASSUME NEW s \in Small(S, n + 1), NEW x \in S, x \in s PROVE g[s] = f[x] + g[s \ {x}]
    OBVIOUS
  <2> DEFINE p == pick(s)
  <2>0. s \in SUBSET S /\ p \in s /\ p \in S
    BY Smaller DEF Small
  <2>1. g[s] = f[p] + g[s \ {p}]
    BY <1>0, <2>0
  <2> HIDE DEF p
  <2>2. CASE x # p
    <3>1. s \ {p} \in Small(S, n) /\ s \ {x} \in Small(S, n)
      BY <2>0, Smaller DEF Small
    <3>2. g[s \ {p}] = f[x] + g[(s \ {p}) \ {x}]
      BY <3>1, <1>2, <2>2
    <3>3. g[s \ {x}] = f[p] + g[(s \ {x}) \ {p}]
      BY <3>1, <1>2, <2>0, <2>2
    <3>4. g[(s \ {x}) \ {p}] = g[(s \ {p}) \ {x}]
      <4>1. (s \ {x}) \ {p} = (s \ {p}) \ {x}
        OBVIOUS
      <4> QED BY <4>1, Zenon
    <3>5. g[(s \ {x}) \ {p}] \in Int /\ f[x] \in Int /\ f[p] \in Int
      BY <1>0, <2>0
    <3> QED BY <2>1, <3>2, <3>3, <3>4, <3>5
  <2> QED BY <2>1, <2>2
<1> HIDE DEF T
<1>3. Nat \subseteq T
  BY <1>1, <1>2, Induction
<1> SUFFICES ASSUME NEW s \in SUBSET S, NEW x \in S, x \in s PROVE g[s] = f[x] + g[s \ {x}]
  OBVIOUS
<1>4. Cardinality(s) \in T /\ s \in Small(S, Cardinality(s))
  BY <1>3, Smaller DEF Small
<1>5. \A r \in Small(S, Cardinality(s)), y \in S : y \in r => g[r] = f[y] + g[r \ {y}]
  BY <1>4 DEF T
<1> QED BY <1>4, <1>5

\* The fold over a part is the fold over the whole, at that part.
LEMMA SumsAgree ==
  ASSUME NEW S, IsFiniteSet(S), NEW f, NEW R \in SUBSET S,
         NEW g, Sums(f, g, SUBSET S), NEW h, Sums(f, h, SUBSET R)
  PROVE  h[R] = g[R]
<1> DEFINE T == {n \in Nat : \A s \in Small(R, n) : h[s] = g[s]}
<1>0. \A s \in SUBSET R : s \in SUBSET S /\ g[s] = plus(f, g, s) /\ h[s] = plus(f, h, s)
  BY DEF Sums
<1>1. IsFiniteSet(R)
  BY FS_Subset
<1>2. 0 \in T
  <2>1. \A s \in Small(R, 0) : s \in SUBSET R /\ s = {}
    BY <1>1, Smaller DEF Small
  <2>2. \A s \in Small(R, 0) : h[s] = g[s]
    BY <1>0, <2>1 DEF plus
  <2> QED BY <2>2
<1>3. ASSUME NEW n \in Nat, n \in T PROVE n + 1 \in T
  <2> SUFFICES ASSUME NEW s \in Small(R, n + 1) PROVE h[s] = g[s]
    OBVIOUS
  <2>1. s \in SUBSET R /\ (s # {} => s \ {pick(s)} \in Small(R, n))
    BY <1>1, Smaller DEF Small
  <2>2. s # {} => h[s \ {pick(s)}] = g[s \ {pick(s)}]
    BY <2>1, <1>3
  <2>3. plus(f, h, s) = plus(f, g, s)
    BY <2>2 DEF plus
  <2> QED BY <1>0, <2>1, <2>3
<1> HIDE DEF T
<1>4. Nat \subseteq T
  BY <1>2, <1>3, Induction
<1>5. Cardinality(R) \in T /\ R \in Small(R, Cardinality(R))
  BY <1>1, <1>4, Smaller DEF Small
<1> QED BY <1>5 DEF T

\* A sum is a number, that of no numbers is 0, and each number counts once.
LEMMA SumFacts ==
  ASSUME NEW S, IsFiniteSet(S), NEW f, \A x \in S : f[x] \in Int
  PROVE  /\ \A R \in SUBSET S : SumFunctionOnSet(f, R) \in Int
         /\ \A R \in SUBSET S : R = {} => SumFunctionOnSet(f, R) = 0
         /\ \A R \in SUBSET S, x \in S : x \in R => SumFunctionOnSet(f, R) = f[x] + SumFunctionOnSet(f, R \ {x})
<1>1. PICK g : Sums(f, g, SUBSET S)
  BY SumsExist
<1>2. ASSUME NEW R \in SUBSET S PROVE SumFunctionOnSet(f, R) = g[R]
  <2>1. \E h : Sums(f, h, SUBSET R)
    BY FS_Subset, SumsExist
  <2> DEFINE h == CHOOSE h : Sums(f, h, SUBSET R)
  <2>2. Sums(f, h, SUBSET R)
    BY <2>1
  <2>3. SumFunctionOnSet(f, R) = h[R]
    BY SumIsFold
  <2> HIDE DEF h
  <2>4. h[R] = g[R]
    BY <1>1, <2>2, SumsAgree
  <2> QED BY <2>3, <2>4
<1>3. \A R \in SUBSET S : g[R] \in Int /\ (R = {} => g[R] = 0)
  BY <1>1, SumsTyped DEF Sums, plus
<1>4. \A R \in SUBSET S, x \in S : x \in R => g[R] = f[x] + g[R \ {x}]
  BY <1>1, SumsAdd
<1>5. \A R \in SUBSET S, x \in S : R \ {x} \in SUBSET S
  OBVIOUS
<1> QED BY <1>2, <1>3, <1>4, <1>5

\* If no term gets smaller the sum does not.
LEMMA SumGrows ==
  ASSUME NEW S, IsFiniteSet(S), NEW f, NEW h,
         \A x \in S : f[x] \in Int /\ h[x] \in Int /\ f[x] =< h[x]
  PROVE  \A R \in SUBSET S : SumFunctionOnSet(f, R) =< SumFunctionOnSet(h, R)
<1> DEFINE T == {n \in Nat : \A s \in Small(S, n) : SumFunctionOnSet(f, s) =< SumFunctionOnSet(h, s)}
<1>0. \A s \in SUBSET S : /\ SumFunctionOnSet(f, s) \in Int /\ SumFunctionOnSet(h, s) \in Int
                          /\ s = {} => SumFunctionOnSet(f, s) = 0 /\ SumFunctionOnSet(h, s) = 0
  BY SumFacts
<1>1. 0 \in T
  <2>1. \A s \in Small(S, 0) : s \in SUBSET S /\ s = {}
    BY Smaller DEF Small
  <2>2. \A s \in Small(S, 0) : SumFunctionOnSet(f, s) =< SumFunctionOnSet(h, s)
    BY <1>0, <2>1
  <2> QED BY <2>2
<1>2. ASSUME NEW n \in Nat, n \in T PROVE n + 1 \in T
  <2> SUFFICES ASSUME NEW s \in Small(S, n + 1) PROVE SumFunctionOnSet(f, s) =< SumFunctionOnSet(h, s)
    OBVIOUS
  <2>1. s \in SUBSET S
    BY DEF Small
  <2>2. CASE s = {}
    BY <1>0, <2>1, <2>2
  <2>3. CASE s # {}
    <3> DEFINE p == pick(s)
               r == s \ {p}
    <3>1. p \in s /\ p \in S /\ r \in Small(S, n) /\ r \in SUBSET S
      BY <2>1, <2>3, Smaller DEF Small
    <3>2. SumFunctionOnSet(f, r) =< SumFunctionOnSet(h, r)
      BY <3>1, <1>2
    <3>3. /\ SumFunctionOnSet(f, s) = f[p] + SumFunctionOnSet(f, r)
          /\ SumFunctionOnSet(h, s) = h[p] + SumFunctionOnSet(h, r)
      BY <2>1, <3>1, SumFacts
    <3> HIDE DEF p, r
    <3> QED BY <1>0, <3>1, <3>2, <3>3
  <2> QED BY <2>2, <2>3
<1> HIDE DEF T
<1>3. Nat \subseteq T
  BY <1>1, <1>2, Induction
<1> SUFFICES ASSUME NEW R \in SUBSET S PROVE SumFunctionOnSet(f, R) =< SumFunctionOnSet(h, R)
  OBVIOUS
<1>4. Cardinality(R) \in T /\ R \in Small(S, Cardinality(R))
  BY <1>3, Smaller DEF Small
<1> QED BY <1>4 DEF T

-----------------------------------------------------------------------------
(* getTotalAllocated *)

Before(s)  == {r \in Slots : r < s}
OnFrom(s)   == {r \in Slots : r >= s}

\* A thread at w with slot s that has added up n and began at a total of m, where the spaces
\* claim c: it has added no more than what the slots before s have now, and what it lacks of
\* m the slots from s on have now.
Counts(c, w, s, n, m) ==
  /\ w = "sum" => /\ s \in Slots /\ n =< SumFunctionOnSet(c, Before(s))
                  /\ m =< n + SumFunctionOnSet(c, OnFrom(s))
  /\ w = "total" => n =< SumFunctionOnSet(c, Slots) /\ m =< n

Counting ==
  /\ sum \in [Threads -> Int] /\ from \in [Threads -> Int]
  /\ \A t \in Threads : Counts(claims, pc[t], slot[t], sum[t], from[t])

\* The slots are finitely many numbers.
LEMMA SlotsFinite == IsFiniteSet(Slots) /\ Slots \subseteq Nat
<1>1. Slots \subseteq 0 .. 20
  BY SlotBounds
<1>2. IsFiniteSet(0 .. 20)
  <2>1. 0 \in Int /\ 20 \in Int
    OBVIOUS
  <2> QED BY <2>1, FS_Interval
<1>3. IsFiniteSet(Slots)
  BY <1>1, <1>2, FS_Subset
<1> QED BY <1>1, <1>3

\* Spaces only grow.
LEMMA CountsGrow ==
  ASSUME NEW c, NEW d, \A s \in Slots : c[s] \in Int /\ d[s] \in Int /\ c[s] =< d[s],
         NEW w, NEW s, NEW n \in Int, NEW m \in Int, Counts(c, w, s, n, m)
  PROVE  Counts(d, w, s, n, m)
<1>1. \A R \in SUBSET Slots : /\ SumFunctionOnSet(c, R) \in Int /\ SumFunctionOnSet(d, R) \in Int
                               /\ SumFunctionOnSet(c, R) =< SumFunctionOnSet(d, R)
  BY SlotsFinite, SumFacts, SumGrows
<1>2. Before(s) \in SUBSET Slots /\ OnFrom(s) \in SUBSET Slots
  BY DEF Before, OnFrom
<1> QED BY <1>1, <1>2 DEF Counts

\* The thread begins.
LEMMA CountsStart ==
  ASSUME NEW c, \A s \in Slots : c[s] \in Int, Slots # {}
  PROVE  Counts(c, "sum", Min(Slots), 0, SumFunctionOnSet(c, Slots))
<1>1. Min(Slots) \in Slots /\ \A r \in Slots : Min(Slots) =< r
  BY FirstSlot
<1>2. PICK s \in Slots : s = Min(Slots)
  BY <1>1
<1>3. Before(s) = {} /\ OnFrom(s) = Slots
  <2>1. s \in Nat /\ \A r \in Slots : r \in Nat /\ s =< r
    BY <1>1, <1>2, SlotsFinite
  <2>2. \A r \in Slots : ~(r < s) /\ r >= s
    BY <2>1
  <2> QED BY <2>2 DEF Before, OnFrom
<1>4. SumFunctionOnSet(c, Before(s)) = 0 /\ SumFunctionOnSet(c, Slots) \in Int
  <2>1. /\ \A R \in SUBSET Slots : SumFunctionOnSet(c, R) \in Int
        /\ \A R \in SUBSET Slots : R = {} => SumFunctionOnSet(c, R) = 0
    BY SlotsFinite, SumFacts
  <2>2. Before(s) \in SUBSET Slots
    BY DEF Before
  <2> QED BY <1>3, <2>1, <2>2
<1>5. SumFunctionOnSet(c, OnFrom(s)) = SumFunctionOnSet(c, Slots)
  BY <1>3, Zenon
<1> QED BY <1>2, <1>4, <1>5 DEF Counts

\* It adds what the space of one slot claims at this moment.
LEMMA CountsOn ==
  ASSUME NEW c, \A r \in Slots : c[r] \in Int, NEW s \in Slots, NEW n \in Int, NEW m \in Int,
         Counts(c, "sum", s, n, m)
  PROVE  /\ later(s) = {} => Counts(c, "total", s, n + c[s], m)
         /\ later(s) # {} => Counts(c, "sum", Min(later(s)), n + c[s], m)
<1>1. /\ \A R \in SUBSET Slots : SumFunctionOnSet(c, R) \in Int
      /\ \A R \in SUBSET Slots : R = {} => SumFunctionOnSet(c, R) = 0
      /\ \A R \in SUBSET Slots, x \in Slots : x \in R => SumFunctionOnSet(c, R) = c[x] + SumFunctionOnSet(c, R \ {x})
  BY SlotsFinite, SumFacts
<1>2. Before(s) \in SUBSET Slots /\ OnFrom(s) \in SUBSET Slots /\ Before(s) \cup {s} \in SUBSET Slots /\ c[s] \in Int
  BY DEF Before, OnFrom
<1>3. n =< SumFunctionOnSet(c, Before(s)) /\ m =< n + SumFunctionOnSet(c, OnFrom(s))
  BY DEF Counts
<1>4. SumFunctionOnSet(c, Before(s) \cup {s}) = c[s] + SumFunctionOnSet(c, Before(s))
  <2>1. (Before(s) \cup {s}) \ {s} = Before(s)
    BY SlotsFinite DEF Before
  <2>2. SumFunctionOnSet(c, (Before(s) \cup {s}) \ {s}) = SumFunctionOnSet(c, Before(s))
    BY <2>1, Zenon
  <2>3. SumFunctionOnSet(c, Before(s) \cup {s}) = c[s] + SumFunctionOnSet(c, (Before(s) \cup {s}) \ {s})
    BY <1>1, <1>2
  <2> QED BY <2>2, <2>3
<1>5. SumFunctionOnSet(c, OnFrom(s)) = c[s] + SumFunctionOnSet(c, OnFrom(s) \ {s})
  BY <1>1, <1>2, SlotsFinite DEF OnFrom
<1>6. ASSUME later(s) = {} PROVE Counts(c, "total", s, n + c[s], m)
  <2>1. Before(s) \cup {s} = Slots /\ OnFrom(s) \ {s} = {} /\ OnFrom(s) \ {s} \in SUBSET Slots
    <3>1. \A r \in Slots : r \in Nat /\ s \in Nat /\ ~(r > s)
      BY <1>6, SlotsFinite DEF later
    <3>2. \A r \in Slots : (r < s \/ r = s) /\ (r >= s => r = s)
      BY <3>1
    <3> QED BY <3>2 DEF Before, OnFrom
  <2>2. SumFunctionOnSet(c, Before(s) \cup {s}) = SumFunctionOnSet(c, Slots)
    BY <2>1, Zenon
  <2>3. SumFunctionOnSet(c, OnFrom(s) \ {s}) = 0
    BY <1>1, <2>1
  <2> QED BY <1>1, <1>2, <1>3, <1>4, <1>5, <2>2, <2>3 DEF Counts
<1>7. ASSUME later(s) # {} PROVE Counts(c, "sum", Min(later(s)), n + c[s], m)
  <2>1. later(s) \in SUBSET Slots
    BY DEF later
  <2>2. Min(later(s)) \in later(s) /\ \A r \in later(s) : Min(later(s)) =< r
    BY <1>7, <2>1, FirstSlot
  <2>3. PICK r \in Slots : r = Min(later(s)) /\ r > s /\ \A x \in Slots : x > s => r =< x
    BY <2>2 DEF later
  <2>4. Before(s) \cup {s} = Before(r) /\ OnFrom(s) \ {s} = OnFrom(r) /\ OnFrom(r) \in SUBSET Slots
    <3>1. \A x \in Slots : x \in Nat /\ s \in Nat /\ r \in Nat
      BY SlotsFinite
    <3>2. \A x \in Slots : (x < r <=> x < s \/ x = s) /\ (x >= r <=> x >= s /\ x # s)
      BY <2>3, <3>1
    <3> QED BY <3>2 DEF Before, OnFrom
  <2>5. /\ SumFunctionOnSet(c, Before(s) \cup {s}) = SumFunctionOnSet(c, Before(r))
        /\ SumFunctionOnSet(c, OnFrom(s) \ {s}) = SumFunctionOnSet(c, OnFrom(r))
    BY <2>4, Zenon
  <2>6. SumFunctionOnSet(c, OnFrom(r)) \in Int
    BY <1>1, <2>4
  <2>7. n + c[s] =< SumFunctionOnSet(c, Before(r)) /\ m =< n + c[s] + SumFunctionOnSet(c, OnFrom(r))
    BY <1>1, <1>2, <1>3, <1>4, <1>5, <2>5, <2>6
  <2> QED BY <2>3, <2>7 DEF Counts
<1> QED BY <1>6, <1>7

\* A space that has lost its page, or has one with another, is not mended.
LEMMA IntactBefore ==
  ASSUME Inv, Next, StructsIntact'
  PROVE  StructsIntact
<1>0. /\ mSpace \in [Slots -> Pages \cup {NULL}] /\ footprint \in [Pages -> Nat]
      /\ reservation \in [Pages -> Pages \cup {NULL}] /\ Pages \subseteq Nat \ {NULL}
  BY GeneralAssumption DEF Inv, Typed, Pages, NULL
<1>1. ASSUME mSpace' = mSpace,
             \A s \in Slots : mSpace[s] # NULL /\ reservation'[mSpace[s]] = mSpace[s] => reservation[mSpace[s]] = mSpace[s]
      PROVE  StructsIntact
  BY <1>1 DEF StructsIntact
<1>2. ASSUME NEW t \in Threads, Grow(t) \/ GrowFurther(t) PROVE StructsIntact
  <2>1. PICK p : p = mSpace[slot[t]]
    OBVIOUS
  <2>2. /\ pc[t] = "allocate" /\ Hand(t, p) /\ behind(p) \in Pages
        /\ reservation' = [reservation EXCEPT ![behind(p)] = p]
    BY <1>2, <2>1 DEF Grow, GrowFurther, MayBeFull, Unreserved
  <2>3. mSpace' = mSpace /\ slot[t] \in Slots /\ p # NULL
    BY <2>1, <2>2 DEF Hand, Inv, Threading, BlocksHaveSpace
  <2>4. p \in Nat /\ footprint[p] \in Nat /\ footprint[p] > 0
    BY <1>0, <2>1, <2>3 DEF Inv, Sized
  <2>5. behind(p) # p
    BY <2>4 DEF behind
  <2>6. \A s \in Slots : mSpace[s] # NULL /\ reservation'[mSpace[s]] = mSpace[s] => reservation[mSpace[s]] = mSpace[s]
    <3> SUFFICES ASSUME NEW s \in Slots, mSpace[s] # NULL, reservation'[mSpace[s]] = mSpace[s]
                 PROVE  reservation[mSpace[s]] = mSpace[s]
      OBVIOUS
    <3>1. mSpace[s] \in Pages
      BY <1>0
    <3>2. mSpace[s] # behind(p)
      BY <1>0, <2>2, <2>5
    <3> QED BY <1>0, <2>2, <3>1, <3>2
  <2> QED BY <1>1, <2>3, <2>6
<1>3. ASSUME NEW t \in Threads, NEW p \in Pages, Create(t, p) PROVE StructsIntact
  <2>1. /\ pc[t] = "create" /\ mSpace' = [mSpace EXCEPT ![slot[t]] = p]
        /\ reservation' = [reservation EXCEPT ![p] = p]
    BY <1>3 DEF Create
  <2>2. PICK r \in Slots : r = slot[t] /\ mSpace[r] = NULL
    BY <2>1 DEF Inv, Threading, Missing
  <2>3. /\ \A s \in Slots : mSpace'[s] = IF s = r THEN p ELSE mSpace[s]
        /\ \A q \in Pages : reservation'[q] = IF q = p THEN p ELSE reservation[q]
    BY <1>0, <2>1, <2>2
  <2>4. ASSUME NEW s \in Slots, mSpace[s] # NULL
        PROVE  /\ reservation[mSpace[s]] = mSpace[s] /\ \A u \in Slots \ {s} : mSpace[u] # mSpace[s]
    <3>1. s # r /\ mSpace'[s] = mSpace[s] /\ mSpace[s] \in Pages
      BY <1>0, <2>2, <2>3, <2>4
    <3>2. reservation'[mSpace'[s]] = mSpace'[s] /\ \A u \in Slots \ {s} : mSpace'[u] # mSpace'[s]
      BY <2>4, <3>1 DEF StructsIntact
    <3>3. mSpace'[r] = p
      BY <2>3
    <3>4. mSpace[s] # p
      BY <3>1, <3>2, <3>3
    <3>5. reservation'[mSpace[s]] = reservation[mSpace[s]]
      BY <2>3, <3>1, <3>4
    <3>6. \A u \in Slots \ {s} : mSpace[u] # mSpace[s]
      BY <2>2, <2>3, <2>4, <3>1, <3>2
    <3> QED BY <3>1, <3>2, <3>5, <3>6
  <2> QED BY <2>4 DEF StructsIntact
<1>4. ASSUME NEW t \in Threads, NEW p \in Pages, deallocate(t, p) PROVE StructsIntact
  <2>1. PICK gone : reservation' = releaseSegments(gone)
    BY <1>4 DEF deallocate
  <2>2. mSpace' = mSpace
    BY <1>4 DEF deallocate, spaces
  <2> QED BY <1>0, <1>1, <2>1, <2>2 DEF releaseSegments
<1>5. ASSUME Destroy PROVE StructsIntact
  <2>1. reservation' = releaseSegments(destroyed) /\ mSpace' = mSpace
    BY <1>5 DEF Destroy, spaces
  <2> QED BY <1>0, <1>1, <2>1 DEF releaseSegments
<1>6. ASSUME UNCHANGED <<reservation, mSpace>> PROVE StructsIntact
  BY <1>1, <1>6
<1>7. \/ UNCHANGED <<reservation, mSpace>> \/ Destroy
      \/ \E t \in Threads : Grow(t) \/ GrowFurther(t)
      \/ \E t \in Threads, p \in Pages : Create(t, p) \/ deallocate(t, p)
  BY DEF Next, Call, LockToFind, LockToAllocate, Lock, Look, CreateRefused, Fits, Hand, GrowRefused,
     getTotalAllocated, AddFootprint, Return, spaces
<1> QED BY <1>2, <1>3, <1>4, <1>5, <1>6, <1>7

\* What the spaces claim, and that no step makes it less unless two come to be one.
LEMMA ClaimsGrow ==
  ASSUME Inv, Inv', Next, StructsIntact'
  PROVE  \A s \in Slots : claims[s] \in Int /\ claims'[s] \in Int /\ claims[s] =< claims'[s]
<1> SUFFICES ASSUME NEW s \in Slots
             PROVE  claims[s] \in Int /\ claims'[s] \in Int /\ claims[s] =< claims'[s]
  OBVIOUS
<1>1. /\ claims[s] = IF mSpace[s] = NULL THEN 0 ELSE footprint[mSpace[s]]
      /\ claims'[s] = IF mSpace'[s] = NULL THEN 0 ELSE footprint'[mSpace'[s]]
  BY DEF claims
<1>2. /\ mSpace \in [Slots -> Pages \cup {NULL}] /\ footprint \in [Pages -> Nat]
      /\ mSpace' \in [Slots -> Pages \cup {NULL}] /\ footprint' \in [Pages -> Nat]
  BY DEF Inv, Typed
<1>3. claims[s] \in Nat /\ claims'[s] \in Nat
  BY <1>1, <1>2
<1>4. CASE UNCHANGED spaces
  BY <1>1, <1>3, <1>4 DEF spaces
<1>5. ASSUME NEW t \in Threads, NEW p \in Pages, Create(t, p) PROVE claims[s] =< claims'[s]
  <2>1. /\ Running /\ pc[t] = "create" /\ mSpace' = [mSpace EXCEPT ![slot[t]] = p]
        /\ footprint' = [footprint EXCEPT ![p] = 1]
    BY <1>5 DEF Create
  <2>2. slot[t] \in Slots /\ mSpace[slot[t]] = NULL
    BY <2>1 DEF Inv, Threading, Missing
  <2>3. mSpace[s] # NULL => mSpace[s] \in Pages /\ mSpace[s] # p
    <3> SUFFICES ASSUME mSpace[s] # NULL PROVE mSpace[s] \in Pages /\ mSpace[s] # p
      OBVIOUS
    <3>1. s # slot[t] /\ mSpace'[slot[t]] = p /\ mSpace'[s] = mSpace[s]
      BY <1>2, <2>1, <2>2
    <3>2. mSpace'[slot[t]] # mSpace'[s]
      BY <2>2, <3>1 DEF StructsIntact
    <3> QED BY <1>2, <3>1, <3>2
  <2>4. CASE mSpace[s] = NULL
    BY <1>1, <1>3, <2>4
  <2>5. CASE mSpace[s] # NULL
    BY <1>1, <1>2, <1>3, <2>1, <2>2, <2>3, <2>5
  <2> QED BY <2>4, <2>5
<1>6. ASSUME NEW t \in Threads, Grow(t) \/ GrowFurther(t) PROVE claims[s] =< claims'[s]
  <2>1. \E n \in Nat : mSpace' = mSpace /\ footprint' = [footprint EXCEPT ![mSpace[slot[t]]] = @ + n]
    <3>1. CASE Grow(t)
      <4>1. mSpace' = mSpace /\ footprint' = [footprint EXCEPT ![mSpace[slot[t]]] = @ + 1]
        BY <3>1 DEF Grow, Hand
      <4> QED BY <4>1
    <3>2. CASE GrowFurther(t)
      <4>1. mSpace' = mSpace /\ behind(mSpace[slot[t]]) \in Pages
        BY <3>2 DEF GrowFurther, Hand, Unreserved
      <4>2. PICK n \in 2 .. NumPages - behind(mSpace[slot[t]]) + 1 :
              footprint' = [footprint EXCEPT ![mSpace[slot[t]]] = @ + n]
        BY <3>2 DEF GrowFurther
      <4>3. n \in Nat
        BY <4>1, GeneralAssumption DEF Pages
      <4> QED BY <4>1, <4>2, <4>3
    <3> QED BY <1>6, <3>1, <3>2
  <2>2. PICK n \in Nat : mSpace' = mSpace /\ footprint' = [footprint EXCEPT ![mSpace[slot[t]]] = @ + n]
    BY <2>1
  <2> QED BY <1>1, <1>2, <1>3, <2>2
<1>7. UNCHANGED spaces \/ (\E t \in Threads : Grow(t) \/ GrowFurther(t)) \/ (\E t \in Threads, p \in Pages : Create(t, p))
  BY DEF Next, Call, LockToFind, LockToAllocate, Lock, Look, CreateRefused, Fits, Hand, GrowRefused,
     deallocate, getTotalAllocated, AddFootprint, Return, Destroy, spaces
<1> QED BY <1>3, <1>4, <1>5, <1>6, <1>7

\* A thread whose numbers are right after the step, that has none, or that takes no part in it.
Undisturbed(u) ==
  \/ Counts(claims', pc'[u], slot'[u], sum'[u], from'[u])
  \/ pc'[u] \notin {"sum", "total"}
  \/ pc'[u] = pc[u] /\ slot'[u] = slot[u] /\ sum'[u] = sum[u] /\ from'[u] = from[u]

\* If every thread is such a one, what the spaces gain in the step harms nobody's numbers.
LEMMA OthersCount ==
  ASSUME Inv, Counting, \A s \in Slots : claims[s] \in Int /\ claims'[s] \in Int /\ claims[s] =< claims'[s],
         sum' \in [Threads -> Int], from' \in [Threads -> Int],
         \A u \in Threads : Undisturbed(u)
  PROVE  Counting'
<1> SUFFICES ASSUME NEW u \in Threads PROVE Counts(claims', pc'[u], slot'[u], sum'[u], from'[u])
  BY DEF Counting
<1>1. CASE pc'[u] \notin {"sum", "total"}
  BY <1>1 DEF Counts
<1>2. CASE pc'[u] = pc[u] /\ slot'[u] = slot[u] /\ sum'[u] = sum[u] /\ from'[u] = from[u]
  <2>1. sum[u] \in Int /\ from[u] \in Int /\ Counts(claims, pc[u], slot[u], sum[u], from[u])
    BY DEF Counting
  <2>2. Counts(claims', pc[u], slot[u], sum[u], from[u])
    BY <2>1, CountsGrow
  <2> QED BY <1>2, <2>2
<1> QED BY <1>1, <1>2 DEF Undisturbed

\* Whatever the other threads do, a sum that is being added up stays between two totals.
LEMMA CountingStep ==
  ASSUME Inv, Inv', Counting, Next, StructsIntact'
  PROVE  Counting'
<1>1. \A s \in Slots : claims[s] \in Int /\ claims'[s] \in Int /\ claims[s] =< claims'[s]
  BY ClaimsGrow
<1>2. /\ pc \in [Threads -> Places] /\ slot \in [Threads -> Slots \cup {large}]
      /\ sum \in [Threads -> Int] /\ from \in [Threads -> Int]
      /\ \A u \in Threads : Counts(claims, pc[u], slot[u], sum[u], from[u])
  BY DEF Inv, Threading, Counting
<1>3. ASSUME NEW t \in Threads, NEW w, w \notin {"sum", "total"},
             pc' = [pc EXCEPT ![t] = w], \A u \in Threads \ {t} : slot'[u] = slot[u],
             UNCHANGED <<sum, from>>
      PROVE  Counting'
  <2>1. \A u \in Threads : pc'[u] \notin {"sum", "total"} \/ (pc'[u] = pc[u] /\ slot'[u] = slot[u])
    BY <1>2, <1>3
  <2>2. \A u \in Threads : Undisturbed(u)
    BY <1>3, <2>1 DEF Undisturbed
  <2> QED BY <1>1, <1>2, <1>3, <2>2, OthersCount
<1>4. ASSUME NEW t \in Threads,
             \/ \E size \in Sizes : Call(t, size)
             \/ LockToFind(t) \/ Look(t) \/ (\E p \in Pages : Create(t, p)) \/ CreateRefused(t)
             \/ LockToAllocate(t) \/ Fits(t) \/ Grow(t) \/ GrowFurther(t)
      PROVE  Counting'
  <2>1. \A u \in Threads \ {t} : slot'[u] = slot[u]
    BY <1>2, <1>4 DEF Call, LockToFind, LockToAllocate, Lock, Look, Create, CreateRefused, Fits, Grow, GrowFurther, Hand, Ends
  <2>2. UNCHANGED <<sum, from>>
    BY <1>4 DEF Call, LockToFind, LockToAllocate, Lock, Look, Create, CreateRefused, Fits, Grow, GrowFurther, Hand
  <2>3. \E w \in Places \ {"sum", "total"} : pc' = [pc EXCEPT ![t] = w]
    BY <1>4 DEF Call, LockToFind, LockToAllocate, Lock, Look, Create, CreateRefused, Fits, Grow, GrowFurther, Hand, Ends, Goes, Places
  <2> QED BY <1>3, <2>1, <2>2, <2>3
<1>5. ASSUME NEW t \in Threads, GrowRefused(t) \/ (\E p \in Pages : deallocate(t, p))
      PROVE  Counting'
  <2>1. UNCHANGED thread
    BY <1>5 DEF GrowRefused, deallocate
  <2>2. \A u \in Threads : Undisturbed(u)
    BY <2>1 DEF thread, Undisturbed
  <2> QED BY <1>1, <1>2, <2>1, <2>2, OthersCount DEF thread
<1>6. ASSUME Destroy PROVE Counting'
  <2>1. UNCHANGED thread
    BY <1>6 DEF Destroy
  <2>2. \A u \in Threads : Undisturbed(u)
    BY <2>1 DEF thread, Undisturbed
  <2> QED BY <1>1, <1>2, <2>1, <2>2, OthersCount DEF thread
<1>7. ASSUME NEW t \in Threads, getTotalAllocated(t) PROVE Counting'
  <2>1. /\ pc' = [pc EXCEPT ![t] = "sum"] /\ slot' = [slot EXCEPT ![t] = Min(Slots)]
        /\ sum' = [sum EXCEPT ![t] = 0] /\ from' = [from EXCEPT ![t] = TotalFootprint]
        /\ mSpace' = mSpace /\ footprint' = footprint
    BY <1>7 DEF getTotalAllocated, Goes, spaces
  <2>2. TotalFootprint = SumFunctionOnSet(claims, Slots) /\ claims' = claims
    BY <2>1 DEF TotalFootprint, SumFunction, claims
  <2>3. SumFunctionOnSet(claims, Slots) \in Int
    BY <1>1, SlotsFinite, SumFacts
  <2>4. Slots # {}
    BY GeneralAssumption DEF Slots
  <2>5. Counts(claims, "sum", Min(Slots), 0, TotalFootprint)
    BY <1>1, <2>2, <2>4, CountsStart
  <2>6. /\ pc'[t] = "sum" /\ slot'[t] = Min(Slots) /\ sum'[t] = 0 /\ from'[t] = TotalFootprint
        /\ sum' \in [Threads -> Int] /\ from' \in [Threads -> Int]
        /\ \A u \in Threads \ {t} : pc'[u] = pc[u] /\ slot'[u] = slot[u] /\ sum'[u] = sum[u] /\ from'[u] = from[u]
    BY <1>2, <2>1, <2>2, <2>3
  <2>7. Counts(claims', pc'[t], slot'[t], sum'[t], from'[t])
    BY <2>2, <2>5, <2>6
  <2>8. \A u \in Threads : Undisturbed(u)
    BY <2>6, <2>7 DEF Undisturbed
  <2> QED BY <1>1, <2>6, <2>8, OthersCount
<1>8. ASSUME NEW t \in Threads, AddFootprint(t) PROVE Counting'
  <2>1. /\ pc[t] = "sum" /\ slot[t] \in Slots /\ sum' = [sum EXCEPT ![t] = @ + claims[slot[t]]] /\ from' = from
        /\ mSpace' = mSpace /\ footprint' = footprint
    BY <1>8 DEF AddFootprint, spaces, Inv, Threading
  <2>2. claims' = claims
    BY <2>1 DEF claims
  <2>3. PICK s \in Slots : s = slot[t]
    BY <2>1
  <2>4. PICK n \in Int : n = sum[t]
    BY <1>2
  <2>5. Counts(claims, "sum", s, n, from[t]) /\ from[t] \in Int /\ claims[s] \in Int
    BY <1>1, <1>2, <2>1, <2>3, <2>4
  <2>6. /\ later(s) = {} => Counts(claims, "total", s, n + claims[s], from[t])
        /\ later(s) # {} => Counts(claims, "sum", Min(later(s)), n + claims[s], from[t])
    BY <1>1, <2>5, CountsOn
  <2>7. /\ later(s) = {} => pc' = [pc EXCEPT ![t] = "total"] /\ slot' = slot
        /\ later(s) # {} => slot' = [slot EXCEPT ![t] = Min(later(s))] /\ pc' = pc
    BY <1>8, <2>3 DEF AddFootprint, isLast, Goes
  <2>8. /\ sum'[t] = n + claims[s] /\ from'[t] = from[t]
        /\ sum' \in [Threads -> Int] /\ from' \in [Threads -> Int]
        /\ \A u \in Threads \ {t} : pc'[u] = pc[u] /\ slot'[u] = slot[u] /\ sum'[u] = sum[u] /\ from'[u] = from[u]
    BY <1>2, <2>1, <2>3, <2>4, <2>5, <2>7
  <2>9. /\ later(s) = {} => pc'[t] = "total" /\ slot'[t] = s
        /\ later(s) # {} => pc'[t] = "sum" /\ slot'[t] = Min(later(s))
    BY <1>2, <2>1, <2>3, <2>7
  <2>10. Counts(claims', pc'[t], slot'[t], sum'[t], from'[t])
    BY <2>2, <2>6, <2>8, <2>9
  <2>11. \A u \in Threads : Undisturbed(u)
    BY <2>8, <2>10 DEF Undisturbed
  <2> QED BY <1>1, <2>8, <2>11, OthersCount
<1>9. ASSUME NEW t \in Threads, Return(t) PROVE Counting'
  <2>1. /\ pc' = [pc EXCEPT ![t] = "idle"] /\ slot' = [slot EXCEPT ![t] = large]
        /\ sum' = [sum EXCEPT ![t] = 0] /\ from' = [from EXCEPT ![t] = 0]
    BY <1>9 DEF Return, Ends, Goes
  <2>2. /\ pc'[t] = "idle" /\ sum' \in [Threads -> Int] /\ from' \in [Threads -> Int]
        /\ \A u \in Threads \ {t} : pc'[u] = pc[u] /\ slot'[u] = slot[u] /\ sum'[u] = sum[u] /\ from'[u] = from[u]
    BY <1>2, <2>1
  <2>3. \A u \in Threads : Undisturbed(u)
    BY <2>2 DEF Undisturbed
  <2> QED BY <1>1, <2>2, <2>3, OthersCount
<1> QED BY <1>4, <1>5, <1>6, <1>7, <1>8, <1>9 DEF Next

\* While a thread takes one mutex after the other, spaces are created and grow: unless two come
\* to be in one page, the total it returns is no less than the one when it began and no more
\* than the present one.
THEOREM TotalsInBetween == Spec => []TotalInBetween
<1> DEFINE Counted == StructsIntact => Counting
<1>1. Init => Counted
  BY DEF Init, Counting, Counts
<1>2. Inv /\ Inv' /\ Counted /\ [Next]_vars => Counted'
  <2>1. ASSUME Counted, UNCHANGED vars PROVE Counted'
    <3>1. UNCHANGED <<pc, slot, sum, from>> /\ claims' = claims /\ (StructsIntact' => StructsIntact)
      BY <2>1 DEF vars, thread, spaces, claims, StructsIntact
    <3> QED BY <2>1, <3>1 DEF Counting
  <2>2. ASSUME Inv, Inv', Counted, Next PROVE Counted'
    BY <2>2, CountingStep, IntactBefore
  <2> QED BY <2>1, <2>2
<1>3. Inv /\ Counted => TotalInBetween
  <2> SUFFICES ASSUME Inv, Counting, NEW t \in Threads, pc[t] = "total" PROVE sum[t] \in from[t] .. TotalFootprint
    BY DEF TotalInBetween
  <2>1. claims \in [Slots -> Int]
    BY DEF claims, Inv, Typed
  <2>2. TotalFootprint = SumFunctionOnSet(claims, Slots)
    BY DEF TotalFootprint, SumFunction, claims
  <2>3. TotalFootprint \in Int
    BY <2>1, <2>2, SlotsFinite, SumFacts
  <2>4. sum[t] \in Int /\ from[t] \in Int /\ sum[t] =< TotalFootprint /\ from[t] =< sum[t]
    BY <2>2 DEF Counting, Counts
  <2> QED BY <2>3, <2>4
<1> HIDE DEF Counted
<1> QED BY <1>1, <1>2, <1>3, GeneralInvariant, PTL DEF Spec
=============================================================================
