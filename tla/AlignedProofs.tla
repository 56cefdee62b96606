---------------------------- MODULE AlignedProofs ----------------------------
(***************************************************************************)
(* Theorems about allocAligned with frees between its writes: as long as   *)
(* no binned chunk was split and no write was lost, the heap is sound at   *)
(* every moment, if the head written in the middle of a chunk is not yet   *)
(* counted as one.                                                         *)
(***************************************************************************)
EXTENDS AllocAligned, MemAllocHeap

\* From the moment the head of the aligned chunk is written until the chunk in
\* front of it has its new size, that head lies within another chunk.
hidden == IF stage \in {"next", "lead"} THEN {job.ptr} ELSE {}

\* The sizes that count: a heap of MemAlloc, if a strange one.
whole == [u \in Unit |-> IF u \in hidden THEN 0 ELSE csize[u]]
H == INSTANCE MemAllocHeap WITH csize <- whole

-----------------------------------------------------------------------------
(* The heap without the hidden head *)

\* What the definitions of the heap are when the hidden head is left out.
LEMMA WholeHeap ==
  /\ H!Unit = Unit /\ H!Msp = Msp
  /\ H!live = live /\ H!binned = binned
  /\ H!Start = {a \in Unit : whole[a] > 0} \cup {top}
  /\ \A a : H!nextChunk(a) = a + whole[a]
<1>1. H!Unit = Unit /\ H!Msp = Msp
  BY DEF H!Unit, Unit, H!Msp, Msp, H!Arena, Arena
<1>2. H!live = live /\ H!binned = binned
  BY <1>1 DEF H!live, live, H!binned, binned
<1>3. H!Start = {a \in H!Unit : whole[a] > 0} \cup {top}
  BY DEF H!Start
<1>4. \A a : H!nextChunk(a) = a + whole[a]
  BY DEF H!nextChunk
<1> QED BY <1>1, <1>2, <1>3, <1>4

\* With nothing hidden it is the heap.
LEMMA WholeIsAll ==
  ASSUME whole = csize
  PROVE  (H!HeapParts <=> HeapParts) /\ H!Start = Start
<1>1. /\ H!Unit = Unit /\ H!Msp = Msp
      /\ H!live = live /\ H!binned = binned
      /\ \A a : H!nextChunk(a) = nextChunk(a)
      /\ H!Start = Start
  BY WholeHeap DEF nextChunk, Start
<1>2. H!Tiled <=> Tiled
  BY <1>1 DEF H!Tiled, Tiled, H!Arena, Arena
<1>3. H!OneHand <=> OneHand
  BY <1>1 DEF H!OneHand, OneHand
<1>4. H!Tags <=> Tags
  BY <1>1 DEF H!Tags, Tags
<1>5. H!Bounded <=> Bounded
  BY <1>1 DEF H!Bounded, Bounded
<1>6. H!Granted <=> Granted
  BY <1>1 DEF H!Granted, Granted
<1> QED BY <1>1, <1>2, <1>3, <1>4, <1>5, <1>6 DEF H!HeapParts, HeapParts

\* The heap without the hidden head is typed if the heap is.
LEMMA WholeTyped == TypeOK => H!TypeOK
<1> SUFFICES ASSUME TypeOK PROVE H!TypeOK
  OBVIOUS
<1>1. whole \in [Unit -> Nat]
  BY DEF whole, TypeOK
<1>2. H!Unit = Unit
  BY WholeHeap
<1> HIDE DEF whole
<1> QED BY <1>1, <1>2 DEF H!TypeOK, TypeOK

\* What is known of a chunk that somebody holds; the hidden head is not one.
LEMMA HeldFacts ==
  ASSUME TypeOK, H!HeapParts, NEW x \in live \cup lost
  PROVE  /\ x \in Unit /\ x \in Nat /\ x # 0 /\ x # top /\ x \in H!Start /\ x \notin hidden /\ x \in cinuse
         /\ whole[x] = csize[x] /\ csize[x] \in Nat \ {0} /\ H!nextChunk(x) = nextChunk(x)
         /\ nextChunk(x) = x + csize[x] /\ nextChunk(x) \in H!Start /\ nextChunk(x) \in Unit /\ nextChunk(x) \in Nat
         /\ nextChunk(x) \in pinuse /\ foot[nextChunk(x)] = Msp
         /\ x \in live => owned[x] =< csize[x] /\ owned[x] \in Nat \ {0}
<1>1. H!TypeOK
  BY WholeTyped
<1>2. /\ x \in H!Start \ {top} /\ x \in Unit /\ whole[x] \in Nat \ {0} /\ H!nextChunk(x) = x + whole[x]
  <2>1. x \in H!live \cup lost \cup H!binned /\ H!OneHand
    BY WholeHeap DEF H!HeapParts
  <2>2. x \in H!Start \ {top} /\ x \in H!Unit /\ whole[x] \in Nat \ {0}
    BY <1>1, <2>1, H!InnerChunk, SizesAssumption
  <2> QED BY <2>2, WholeHeap
<1>3. x \notin hidden /\ whole[x] = csize[x]
  <2>1. whole[x] = IF x \in hidden THEN 0 ELSE csize[x]
    BY <1>2 DEF whole
  <2> QED BY <1>2, <2>1
<1>4. H!nextChunk(x) = nextChunk(x) /\ nextChunk(x) = x + csize[x]
  BY <1>2, <1>3 DEF nextChunk
<1>5. x # 0 /\ x \in cinuse /\ nextChunk(x) \in pinuse /\ foot[nextChunk(x)] = Msp
      /\ (x \in live => owned[x] =< csize[x])
  BY <1>2, <1>3, <1>4, WholeHeap DEF H!HeapParts, H!OneHand, H!Tags, H!Granted
<1>6. nextChunk(x) \in H!Start /\ nextChunk(x) \in Unit
  <2>1. nextChunk(x) \in H!Start /\ top + top_size = footprint /\ footprint =< Arena /\ top_size > 0
    BY <1>2, <1>4, WholeHeap DEF H!HeapParts, H!Tiled, H!Arena, Arena
  <2>2. top \in Unit
    BY <2>1, ArenaNat DEF TypeOK, Unit
  <2> QED BY <2>1, <2>2, WholeHeap
<1>7. Unit \subseteq Nat
  BY ArenaNat DEF Unit
<1>8. x \in live => owned[x] \in Nat \ {0}
  BY <1>2 DEF TypeOK, live
<1> HIDE DEF whole
<1> QED BY <1>2, <1>3, <1>4, <1>5, <1>6, <1>7, <1>8

\* A call of free that hands a block back sees nothing of the hidden head.
FreedApart(a) ==
  /\ H!free(a) /\ owned' = [owned EXCEPT ![a] = 0] /\ lost \subseteq lost'
  /\ \A u \in hidden : csize'[u] = csize[u] /\ u # top' /\ (u \in cinuse => u \in cinuse')

\* Where free writes, the two heaps are merged alike.
LEMMA MergedAlike ==
  ASSUME NEW p \in Unit, NEW size, NEW dead, Merge(p, size, dead), p \notin hidden, hidden \cap dead = {}, hidden' = hidden
  PROVE  /\ H!Merge(p, size, dead)
         /\ \A u \in hidden \cap Unit : csize'[u] = csize[u] /\ (u \in cinuse => u \in cinuse')
<1>1. /\ csize' = [u \in Unit |-> IF u = p THEN size ELSE IF u \in dead THEN 0 ELSE csize[u]]
      /\ cinuse' = cinuse \ (dead \cup {p})
  BY DEF Merge
<1>2. whole' = [u \in Unit |-> IF u \in hidden THEN 0 ELSE csize'[u]]
  BY DEF whole
<1>3. whole' = [u \in Unit |-> IF u = p THEN size ELSE IF u \in dead THEN 0 ELSE whole[u]]
  BY <1>1, <1>2 DEF whole
<1>4. H!Unit = Unit
  BY WholeHeap
<1> HIDE DEF whole, hidden
<1>5. H!Merge(p, size, dead)
  BY <1>1, <1>3, <1>4 DEF H!Merge
<1> QED BY <1>1, <1>5

\* A free by any thread is a free of the heap without the hidden head.
LEMMA FreeApart ==
  ASSUME TypeOK, H!HeapParts, H!FirstTagged, NEW a \in live, free(a), halt' = "no", ~carved',
         hidden' = hidden, hidden \subseteq Unit, hidden \cap H!Start = {}
  PROVE  FreedApart(a)
<1> DEFINE n == nextChunk(a)
<1>1. H!TypeOK /\ dv_size = 0
  BY WholeTyped DEF H!HeapParts, H!Granted
<1>2. /\ a \in Unit /\ a \in Nat /\ a \in H!Start /\ a \notin hidden /\ a \in cinuse /\ whole[a] = csize[a] /\ csize[a] > 0
      /\ H!nextChunk(a) = n /\ n \in H!Start /\ n \in Unit /\ n \in pinuse
  BY HeldFacts
<1>3. /\ H!base(a) = base(a) /\ H!bsize(a) = bsize(a) /\ (H!isInuse(a) <=> isInuse(a)) /\ isInuse(a)
      /\ \A u : (H!isDv(u) <=> isDv(u)) /\ ~isDv(u)
  BY <1>1, <1>2 DEF H!base, base, H!bsize, bsize, H!isInuse, isInuse, H!isDv, isDv
<1>4. n \notin hidden /\ whole[n] = csize[n]
  BY <1>2 DEF whole
<1>5. n \in Start
  <2>1. \A u \in Unit : whole[u] > 0 => csize[u] > 0
    BY DEF whole
  <2> HIDE DEF whole
  <2> QED BY <1>2, <2>1, WholeHeap DEF Start
<1>6. H!Sound(a) /\ Sound(a)
  <2>1. H!Sound(a)
    <3>1. a \in H!live
      BY WholeHeap
    <3> QED BY <1>1, <3>1, H!FreeIsLed, SizesAssumption
  <2>2. Reads(a)
    BY <1>2, <1>5, <2>1 DEF H!Sound, H!Reads, Reads
  <2> QED BY <1>2, <1>3, <1>4, <2>1, <2>2, WholeHeap DEF H!Sound, Sound, H!Linked, Linked
<1>p. H!Prev(a) = Prev(a)
  BY <1>3 DEF H!Prev, Prev
<1>7. base(a) \in {a} \cup binned /\ base(a) \in Unit /\ base(a) \notin hidden /\ base(a) \in H!Start /\ whole[base(a)] = csize[base(a)]
  <2>1. base(a) \in {a} \cup binned /\ base(a) \in Unit
    <3>1. H!Sound(a) /\ a \in H!live
      BY <1>6, WholeHeap
    <3>2. H!base(a) \in {a} \cup H!binned /\ H!base(a) \in H!Unit
      BY <1>1, <3>1, H!FreedBlock, SizesAssumption
    <3> QED BY <1>3, <3>2, WholeHeap
  <2>2. base(a) \in H!Start
    BY <1>2, <2>1, WholeHeap DEF H!HeapParts, H!OneHand
  <2>3. base(a) \notin hidden
    BY <2>2
  <2> QED BY <2>1, <2>2, <2>3 DEF whole
<1>8. H!checkInuseChunk(a) /\ checkInuseChunk(a)
  <2>1. a \in H!live
    BY WholeHeap
  <2>2. H!checkInuseChunk(a)
    BY <1>1, <2>1, H!InuseChecks, SizesAssumption
  <2>3. ASSUME a \notin pinuse PROVE csize[a - foot[a]] = foot[a]
    <3>1. a - foot[a] \in H!binned /\ whole[a - foot[a]] = foot[a]
      BY <1>1, <2>1, <2>3, H!FreeInFront, SizesAssumption
    <3>2. a - foot[a] \in Unit /\ a - foot[a] \notin hidden
      BY <3>1, WholeHeap DEF H!HeapParts, H!OneHand, binned
    <3> QED BY <3>1, <3>2 DEF whole
  <2> QED BY <1>2, <1>3, <2>2, <2>3 DEF checkInuseChunk
<1>9. (Backed(FreeTouches(a)) => H!Backed(H!FreeTouches(a))) /\ (Running <=> H!Running) /\ (H!HandBack(a) <=> HandBack(a))
      /\ \A S : H!Unlink(S) = Unlink(S)
  BY <1>2, <1>3, WholeHeap DEF H!Backed, Backed, H!FreeTouches, FreeTouches, H!Running, Running, H!HandBack, HandBack,
     H!Unlink, Unlink
<1>10. CASE FreeDirect(a)
  <2>1. UNCHANGED <<csize, pinuse, cinuse, foot, top>> /\ owned' = [owned EXCEPT ![a] = 0] /\ lost' = lost \cup {a}
    BY <1>10 DEF FreeDirect, HandBack, heap, space
  <2>2. whole' = whole
    BY <2>1 DEF whole
  <2>3. H!FreeDirect(a)
    BY <1>2, <1>3, <1>8, <1>9, <1>10, <2>1, <2>2 DEF H!FreeDirect, FreeDirect, H!heap, heap, H!space, space
  <2>4. \A u \in hidden : u # top'
    BY <2>1, WholeHeap
  <2> QED BY <2>1, <2>3, <2>4 DEF FreedApart, H!free
<1>11. ASSUME Consolidates(a) PROVE H!Consolidates(a) /\ owned' = [owned EXCEPT ![a] = 0] /\ lost' = lost
  <2>1. H!Pooled(a)
    BY <1>2, <1>3, <1>9, <1>11 DEF H!Pooled, Consolidates, Pooled
  <2>2. H!Reads(a) /\ astray' = (astray \/ ~H!Sound(a))
    BY <1>6, <1>11 DEF H!Sound, Consolidates
  <2>3. H!Consolidates(a)
    BY <1>9, <1>11, <2>1, <2>2 DEF H!Consolidates, Consolidates
  <2> QED BY <1>11, <2>3 DEF Consolidates, HandBack
<1>12. \A u \in hidden : u # n /\ u # a /\ u # top /\ u \in Unit
  BY <1>2, <1>4, WholeHeap
<1>13. CASE FreeIntoTop(a)
  <2>1. Consolidates(a) /\ Merge(base(a), top_size + bsize(a), {a, top}) /\ top' = base(a) /\ n = top
    BY <1>13 DEF FreeIntoTop
  <2>2. base(a) \in Unit /\ base(a) \notin hidden
    BY <1>7, <1>11, <2>1
  <2>3. hidden \cap {a, top} = {}
    BY <1>12
  <2>4. /\ H!Merge(base(a), top_size + bsize(a), {a, top})
        /\ \A u \in hidden \cap Unit : csize'[u] = csize[u] /\ (u \in cinuse => u \in cinuse')
    BY <2>1, <2>2, <2>3, MergedAlike
  <2>5. H!FreeIntoTop(a)
    BY <1>p, <1>2, <1>3, <1>8, <1>9, <1>11, <1>13, <2>1, <2>4, WholeHeap DEF H!FreeIntoTop, FreeIntoTop, H!Decommits, Decommits
  <2> QED BY <1>11, <1>12, <2>1, <2>2, <2>4, <2>5 DEF FreedApart, H!free
<1>14. ASSUME NEW size, NEW dead, NEW cleared, Consolidates(a), FreeChunk(a, size, dead, cleared), dead \subseteq {a, n}
       PROVE  /\ H!FreeChunk(a, size, dead, cleared)
              /\ \A u \in hidden : csize'[u] = csize[u] /\ (u \in cinuse => u \in cinuse')
              /\ CheckFreed(a) => H!CheckFreed(a)
  <2>1. base(a) \in Unit /\ base(a) \notin hidden
    BY <1>7, <1>11, <1>14
  <2>2. hidden \cap dead = {}
    BY <1>12, <1>14
  <2>3. Merge(base(a), size, dead)
    BY <1>14 DEF FreeChunk
  <2>4. /\ H!Merge(base(a), size, dead)
        /\ \A u \in hidden \cap Unit : csize'[u] = csize[u] /\ (u \in cinuse => u \in cinuse')
    BY <2>1, <2>2, <2>3, MergedAlike
  <2>5. H!FreeChunk(a, size, dead, cleared)
    BY <1>3, <1>14, <2>4, WholeHeap DEF H!FreeChunk, FreeChunk
  <2>6. ASSUME CheckFreed(a) PROVE H!CheckFreed(a)
    <3>1. PICK p \in {base(a)} : alarm' = (alarm \/ ~checkInuseChunk(a) \/ ~checkFreeChunk(p)')
      BY <2>6 DEF CheckFreed
    <3>2. whole'[p] = csize'[p]
      BY <2>1, <3>1 DEF whole
    <3>3. H!checkFreeChunk(p)' <=> checkFreeChunk(p)'
      <4>1. H!nextChunk(p)' = nextChunk(p)' /\ (H!isInuse(p)' <=> isInuse(p)')
        BY <3>2 DEF H!nextChunk, nextChunk, H!isInuse, isInuse
      <4>2. H!isInuse(nextChunk(p))' <=> isInuse(nextChunk(p))'
        BY DEF H!isInuse, isInuse
      <4> QED BY <3>2, <4>1, <4>2 DEF H!checkFreeChunk, checkFreeChunk
    <3> QED BY <1>3, <1>8, <3>1, <3>3 DEF H!CheckFreed
  <2> QED BY <1>12, <2>4, <2>5, <2>6
<1>15. CASE FreeNextFree(a)
  <2>1. Consolidates(a) /\ FreeChunk(a, bsize(a) + csize[n], {a, n}, {}) /\ CheckFreed(a) /\ top' = top
    BY <1>3, <1>15 DEF FreeNextFree
  <2>2. /\ H!FreeChunk(a, bsize(a) + csize[n], {a, n}, {}) /\ H!CheckFreed(a)
        /\ \A u \in hidden : csize'[u] = csize[u] /\ (u \in cinuse => u \in cinuse')
    BY <1>14, <2>1
  <2>3. H!FreeSuccessor(n)
    BY <1>3, <1>15 DEF FreeNextFree, H!FreeSuccessor, FreeSuccessor
  <2>4. H!FreeNextFree(a)
    BY <1>2, <1>3, <1>4, <1>9, <1>11, <1>15, <2>1, <2>2, <2>3 DEF H!FreeNextFree, FreeNextFree, H!pages, pages
  <2> QED BY <1>11, <1>12, <2>1, <2>2, <2>4 DEF FreedApart, H!free
<1>16. CASE FreeNextInuse(a)
  <2>1. Consolidates(a) /\ FreeChunk(a, bsize(a), {a}, {n}) /\ CheckFreed(a) /\ top' = top
    BY <1>16 DEF FreeNextInuse
  <2>2. /\ H!FreeChunk(a, bsize(a), {a}, {n}) /\ H!CheckFreed(a)
        /\ \A u \in hidden : csize'[u] = csize[u] /\ (u \in cinuse => u \in cinuse')
    BY <1>14, <2>1
  <2>3. H!HeldSuccessor(n) /\ ~H!IntoPrevDv(a)
    BY <1>3, <1>16 DEF FreeNextInuse, H!HeldSuccessor, HeldSuccessor, H!IntoPrevDv
  <2>4. H!FreeNextInuse(a)
    BY <1>2, <1>3, <1>4, <1>9, <1>11, <1>16, <2>1, <2>2, <2>3 DEF H!FreeNextInuse, FreeNextInuse, H!pages, pages, H!Insert, Insert
  <2> QED BY <1>11, <1>12, <2>1, <2>2, <2>4 DEF FreedApart, H!free
<1>17. ~FreeIgnored(a) /\ ~FreeUndefined(a) /\ ~FreeFault(a) /\ ~FreePrevDv(a) /\ ~FreeNextDv(a)
      /\ ~FreeBroken(a)
  BY <1>2, <1>3 DEF FreeBroken, FreeIgnored, FreeUndefined, FreeFault, FreePrevDv, FreeNextDv, IntoPrevDv, Crash
<1> QED BY <1>10, <1>13, <1>15, <1>16, <1>17 DEF free

\* So it leaves the heap sound, and every other chunk alone.
LEMMA FreeKeeps ==
  ASSUME TypeOK, H!HeapParts, H!FirstTagged, ~alarm, NEW a \in live, free(a), halt' = "no", ~carved',
         hidden' = hidden, hidden \subseteq Unit, hidden \cap H!Start = {}
  PROVE  /\ TypeOK' /\ H!HeapParts' /\ H!FirstTagged' /\ ~alarm' /\ hidden' \cap H!Start' = {}
         /\ owned' = [owned EXCEPT ![a] = 0] /\ lost \subseteq lost'
         /\ \A u \in hidden : csize'[u] = csize[u] /\ (u \in cinuse => u \in cinuse')
         /\ \A x \in (live \cup lost) \ {a} : csize'[x] = csize[x]
<1>1. AnyCall /\ H!AnyCall /\ FreedApart(a)
  <2>1. FreedApart(a)
    BY FreeApart
  <2>2. AnyCall
    BY DEF AnyCall, Release
  <2>3. H!AnyCall
    BY <2>1, WholeHeap DEF H!AnyCall, H!Release, FreedApart
  <2> QED BY <2>1, <2>2, <2>3
<1>2. Healthy /\ H!Healthy
  BY <1>1, HealthyBefore DEF Healthy, Running, H!Healthy, H!Running
<1>3. TypeOK' /\ H!TypeOK /\ H!HeapSound /\ H!Calm
  BY <1>1, <1>2, TypeStep, WholeTyped DEF H!HeapSound, H!Calm
<1>4. H!HeapSound'
  BY <1>1, <1>3, H!HeapStep, SizesAssumption
<1>5. H!HeapParts'
  BY <1>4 DEF H!HeapSound, H!Healthy, H!Running
<1>6. H!FirstTagged' /\ ~alarm'
  BY <1>1, <1>3, <1>4, H!CalmStep, SizesAssumption
<1>7. hidden' \cap H!Start' = {}
  <2>1. H!Start' = {u \in Unit : whole'[u] > 0} \cup {top'}
    BY DEF H!Start, H!Unit, Unit, H!Arena, Arena
  <2>2. \A u \in hidden : whole'[u] = 0
    BY DEF whole
  <2>3. \A u \in hidden : u # top'
    BY <1>1 DEF FreedApart
  <2> QED BY <2>1, <2>2, <2>3
<1>8. ASSUME NEW x \in (live \cup lost) \ {a} PROVE csize'[x] = csize[x]
  <2>1. x \in Unit /\ x \notin hidden /\ whole[x] = csize[x]
    BY HeldFacts
  <2>2. x \in H!live \cup lost /\ owned'[x] = owned[x]
    BY <1>1, <2>1, WholeHeap DEF FreedApart, TypeOK
  <2>3. whole'[x] = whole[x]
    BY <1>1, <1>3, <2>2, H!StableStep, SizesAssumption
  <2>4. whole'[x] = csize'[x]
    BY <2>1 DEF whole
  <2> QED BY <2>1, <2>3, <2>4
<1> QED BY <1>1, <1>3, <1>5, <1>6, <1>7, <1>8 DEF FreedApart

-----------------------------------------------------------------------------
(* Arithmetic of the alignment *)

\* An alignment becomes a power of two, of 16 bytes at least.
LEMMA PowerFacts == \A alignment \in Alignments : powerOfTwo(alignment) \in Nat /\ powerOfTwo(alignment) >= 2
<1> SUFFICES ASSUME NEW alignment \in Alignments PROVE powerOfTwo(alignment) \in Nat /\ powerOfTwo(alignment) >= 2
  OBVIOUS
<1> DEFINE Fits(k) == alignment =< 8 * 2^k /\ (k = 1 \/ alignment > 8 * 2^(k - 1))
           chosen == CHOOSE k \in 1 .. alignment : Fits(k)
<1>0. /\ 2^0 = 1 /\ 2^1 = 2 /\ 2^2 = 4 /\ 2^3 = 8 /\ 2^4 = 16 /\ 2^5 = 32 /\ 2^6 = 64 /\ 2^7 = 128
      /\ 2^8 = 256 /\ 2^9 = 512 /\ 2^10 = 1024 /\ 2^11 = 2048 /\ 2^12 = 4096
      /\ 2^13 = 8192 /\ 2^14 = 16384 /\ 2^15 = 32768 /\ 2^16 = 65536 /\ 2^17 = 131072
      /\ 2^18 = 262144 /\ 2^19 = 524288 /\ 2^20 = 1048576 /\ 2^21 = 2097152 /\ 2^22 = 4194304
      /\ 2^23 = 8388608 /\ 2^24 = 16777216 /\ 2^25 = 33554432 /\ 2^26 = 67108864
      /\ 2^27 = 134217728 /\ 2^28 = 268435456
  OBVIOUS
<1>1. alignment \in Nat /\ alignment > 8 /\ (alignment - 1) \div 8 < 2^28
  BY AlignedAssumption
<1>2. alignment =< 8 * 268435456
  BY <1>0, <1>1
<1>3. \E k \in 1 .. 28 : k =< alignment /\ Fits(k)
  <2>1. CASE alignment =< 8 * 256
    <3>1. Fits(1) \/ (Fits(2) /\ 2 =< alignment) \/ (Fits(3) /\ 3 =< alignment) \/ (Fits(4) /\ 4 =< alignment)
          \/ (Fits(5) /\ 5 =< alignment) \/ (Fits(6) /\ 6 =< alignment) \/ (Fits(7) /\ 7 =< alignment) \/ (Fits(8) /\ 8 =< alignment)
      BY <1>0, <1>1, <2>1
    <3> HIDE DEF Fits
    <3> QED BY <1>1, <3>1
  <2>2. CASE alignment > 8 * 256 /\ alignment =< 8 * 65536
    <3>1. Fits(9) \/ Fits(10) \/ Fits(11) \/ Fits(12) \/ Fits(13) \/ Fits(14) \/ Fits(15) \/ Fits(16)
      BY <1>0, <1>1, <2>2
    <3> HIDE DEF Fits
    <3> QED BY <1>1, <2>2, <3>1
  <2>3. CASE alignment > 8 * 65536 /\ alignment =< 8 * 4194304
    <3>1. Fits(17) \/ Fits(18) \/ Fits(19) \/ Fits(20) \/ Fits(21) \/ Fits(22)
      BY <1>0, <1>1, <2>3
    <3> HIDE DEF Fits
    <3> QED BY <1>1, <2>3, <3>1
  <2>4. CASE alignment > 8 * 4194304
    <3>1. Fits(23) \/ Fits(24) \/ Fits(25) \/ Fits(26) \/ Fits(27) \/ Fits(28)
      BY <1>0, <1>1, <1>2, <2>4
    <3> HIDE DEF Fits
    <3> QED BY <1>1, <2>4, <3>1
  <2> QED BY <1>1, <2>1, <2>2, <2>3, <2>4
<1>4. chosen \in 1 .. 28
  <2>1. PICK k \in 1 .. 28 : k =< alignment /\ Fits(k)
    BY <1>3
  <2>2. chosen \in 1 .. alignment /\ Fits(chosen)
    <3> HIDE DEF Fits
    <3>1. k \in 1 .. alignment
      BY <1>1, <2>1
    <3> QED BY <2>1, <3>1
  <2> QED BY <1>1, <2>2
<1> HIDE DEF chosen
<1>5. powerOfTwo(alignment) = 2^chosen
  BY DEF powerOfTwo, kDefaultAlignment, chosen
<1>6. 2^chosen \in Nat /\ 2^chosen >= 2
  <2> DEFINE Fine(n) == n \in Nat /\ n >= 2
  <2>1. /\ Fine(2^1) /\ Fine(2^2) /\ Fine(2^3) /\ Fine(2^4) /\ Fine(2^5) /\ Fine(2^6) /\ Fine(2^7) /\ Fine(2^8)
        /\ Fine(2^9) /\ Fine(2^10) /\ Fine(2^11) /\ Fine(2^12) /\ Fine(2^13) /\ Fine(2^14) /\ Fine(2^15) /\ Fine(2^16)
        /\ Fine(2^17) /\ Fine(2^18) /\ Fine(2^19) /\ Fine(2^20) /\ Fine(2^21) /\ Fine(2^22) /\ Fine(2^23) /\ Fine(2^24)
        /\ Fine(2^25) /\ Fine(2^26) /\ Fine(2^27) /\ Fine(2^28)
    OBVIOUS
  <2>2. chosen \in {1, 2, 3, 4, 5, 6, 7, 8, 9, 10, 11, 12, 13, 14} \cup {15, 16, 17, 18, 19, 20, 21, 22, 23, 24, 25, 26, 27, 28}
    BY <1>4
  <2> HIDE DEF Fine
  <2>3. Fine(2^chosen)
    BY <2>1, <2>2, Zenon
  <2> QED BY <2>3 DEF Fine
<1> QED BY <1>5, <1>6

\* Where the aligned chunk begins: room for a leader in front, and no further than
\* the space that was asked for.
LEMMA AlignedSpot ==
  ASSUME NEW a \in Nat, NEW align \in Nat, align >= 2, NEW offset \in Nat
  PROVE  /\ place(a, align, offset) \in Nat /\ a + 2 =< place(a, align, offset) /\ place(a, align, offset) =< a + align + 1
         /\ isAligned(place(a, align, offset), align, offset)
<1> DEFINE m == a + 1 + offset + align - 1
<1>1. PICK q \in Int : q = m \div align
  OBVIOUS
<1>2. PICK p \in Int : p = q * align
  OBVIOUS
<1>3. p =< m /\ m < p + align
  <2>1. m \in Int /\ m = align * (m \div align) + (m % align) /\ m % align \in 0 .. align - 1
    OBVIOUS
  <2>2. align * q = p
    BY <1>2
  <2> QED BY <1>1, <2>1, <2>2
<1>4. place(a, align, offset) = IF p - 1 - offset - a >= 2 THEN p - 1 - offset ELSE p - 1 - offset + align
  BY <1>1, <1>2 DEF place, kMinChunkSize
<1>5. p % align = 0 /\ (p + align) % align = 0
  <2>1. p = align * q /\ p + align = align * (q + 1)
    BY <1>2
  <2> QED BY <2>1
<1>6. CASE p - 1 - offset - a >= 2
  <2>1. place(a, align, offset) + 1 + offset = p
    BY <1>4, <1>6
  <2> QED BY <1>3, <1>4, <1>5, <1>6, <2>1 DEF isAligned
<1>7. CASE p - 1 - offset - a < 2
  <2>1. place(a, align, offset) + 1 + offset = p + align
    BY <1>4, <1>7
  <2> QED BY <1>3, <1>4, <1>5, <1>7, <2>1 DEF isAligned
<1> QED BY <1>6, <1>7

-----------------------------------------------------------------------------
(* The inductive invariant *)

\* A head as it is read, what a call keeps, and the types of both.
Word == [at : Unit, size : Nat, pin : BOOLEAN, cin : BOOLEAN]
Job  == [need : Nat, align : Nat \ {0}, offset : Nat, ptr : Unit, leader : Unit, next : Unit]

AlignedTypes ==
  /\ TypeOK /\ job \in Job /\ seen \in Word /\ late \in Word /\ raced \in BOOLEAN
  /\ stage \in {"out", "place", "next", "lead", "trim", "rest", "give"}

\* alloc has returned a chunk with room for the block, the aligned spot and a leader.
Served ==
  /\ job.ptr \in live /\ job.leader = 0
  /\ owned[job.ptr] = job.need + job.align + job.offset + 2

\* The aligned head is written, within the chunk whose head still has its old size.
Placed ==
  /\ job.leader \in live /\ job.ptr \notin H!Start /\ job.ptr \in cinuse
  /\ job.leader + 2 =< job.ptr /\ job.ptr + job.need < job.leader + owned[job.leader]
  /\ job.next = nextChunk(job.leader) /\ csize[job.ptr] = job.next - job.ptr
  /\ isAligned(job.ptr, job.align, job.offset)

\* The block and the leader, if there is one, are chunks.
Divided ==
  /\ job.ptr \in live /\ csize[job.ptr] >= job.need
  /\ isAligned(job.ptr, job.align, job.offset)
  /\ job.leader # 0 => job.leader \in live /\ job.leader # job.ptr /\ csize[job.leader] >= 2

\* What the thread in allocAligned relies on between two of its writes.
Holding ==
  /\ stage # "out" => job.need >= 2 /\ job.align >= 2
  /\ stage = "place" => Served
  /\ stage \in {"next", "lead"} => Placed
  /\ stage \in {"trim", "rest", "give"} => Divided
  /\ stage = "trim" => seen.size = csize[job.ptr]
  /\ stage = "rest" => \E q \in lost : job.next = nextChunk(q)

\* A write under way goes to the head of a held chunk of the call.
Pending == late.size > 0 => stage # "out" /\ late.at \in cinuse

\* The heap without the hidden head is sound, and the call is as it believes.
AlignedParts == H!HeapParts /\ H!FirstTagged /\ ~alarm /\ Holding /\ Pending

\* The inductive invariant.
AlignedInv == Intact => AlignedTypes /\ AlignedParts

\* The hidden head is in the arena and counts for nothing.
LEMMA HiddenApart ==
  ASSUME AlignedTypes, Holding
  PROVE  hidden \subseteq Unit /\ hidden \cap H!Start = {}
<1>1. CASE stage \in {"next", "lead"}
  BY <1>1 DEF hidden, AlignedTypes, Job, Holding, Placed
<1>2. CASE stage \notin {"next", "lead"}
  BY <1>2 DEF hidden
<1> QED BY <1>1, <1>2

\* With nothing hidden the sizes are those of the heap, and what holds of it is the same.
Bare  == hidden = {}
Agree == whole = csize /\ (H!HeapParts <=> HeapParts)

\* The first implies the second.
LEMMA BareAgrees == TypeOK /\ Bare => Agree
<1> SUFFICES ASSUME TypeOK, Bare PROVE Agree
  OBVIOUS
<1>1. csize = [u \in Unit |-> csize[u]]
  BY DEF TypeOK
<1>2. whole = csize
  BY <1>1 DEF whole, Bare
<1> HIDE DEF whole
<1> QED BY <1>2, WholeIsAll DEF Agree

\* The same after a step.
LEMMA BareAgreesNext == TypeOK' /\ Bare' => Agree'
BY BareAgrees, PTL

\* A step that leaves the heap's words as they are.
LEMMA SameHeap ==
  ASSUME TypeOK, H!HeapParts, H!FirstTagged, whole' = whole, NEW S, S \cap H!Start = {}, cinuse' = cinuse \cup S,
         pinuse \subseteq pinuse', pinuse' \subseteq pinuse \cup S,
         UNCHANGED <<foot, bin, dv_size, top, top_size, footprint, owned, lost>>
  PROVE  H!HeapParts' /\ H!FirstTagged'
<1>1. H!HeapParts'
  BY H!OutsideKeeps, SizesAssumption
<1>2. H!FirstTagged'
  BY DEF H!FirstTagged
<1> QED BY <1>1, <1>2

\* Alloc has run: the call has its chunk.
LEMMA ServedStep ==
  ASSUME AlignedTypes, AlignedParts, Intact, NEW r \in AlignedRequests, NEW alignment \in Alignments, NEW offset \in Offsets,
         allocAligned(r, alignment, offset), Intact'
  PROVE  AlignedTypes' /\ AlignedParts'
<1> DEFINE nb    == requestToSize(r)
           align == powerOfTwo(alignment)
           req   == alignedRequest(nb, align, offset)
<1>1. /\ stage = "out" /\ alloc(req) /\ halt' = "no" /\ ~carved' /\ UNCHANGED <<seen, late, raced>> /\ stage' = "place"
      /\ job' = [need |-> nb, align |-> align, offset |-> offset, leader |-> 0, next |-> 0,
                 ptr |-> CHOOSE p \in Unit : owned'[p] # owned[p]]
      /\ late.size = 0
  BY DEF allocAligned, Intact, Healthy, Running
<1>2. nb \in Nat /\ nb >= 2 /\ align \in Nat /\ align >= 2 /\ offset \in Nat
  <2>1. r \in Nat /\ offset \in Nat
    BY AlignedAssumption
  <2>2. nb \in Nat /\ nb >= 2
    BY <2>1 DEF requestToSize, kMinChunkSize, padRequest
  <2> QED BY <2>1, <2>2, PowerFacts
<1>3. req \in Nat /\ padRequest(req) = nb + align + offset + 2
  <2>1. req = nb + align + offset + 2 - 1
    BY DEF alignedRequest, kMinChunkSize
  <2> HIDE DEF nb, align, req
  <2>2. req \in Nat /\ req >= 2 /\ req + 1 = nb + align + offset + 2
    BY <1>2, <2>1
  <2> QED BY <2>2 DEF padRequest
<1> HIDE DEF nb, align, req
<1>4. hidden = {} /\ hidden' = {} /\ TypeOK
  BY <1>1 DEF hidden, AlignedTypes
<1>5. whole = csize /\ HeapParts /\ FirstTagged /\ Healthy /\ ~alarm
  <2>1. whole = csize
    BY <1>4, BareAgrees DEF Bare, Agree
  <2>2. HeapParts
    BY <1>4, BareAgrees DEF AlignedParts, Bare, Agree
  <2>3. FirstTagged /\ ~alarm
    BY DEF AlignedParts, H!FirstTagged, FirstTagged
  <2> QED BY <2>1, <2>2, <2>3 DEF Intact
<1>6. AnyCall
  BY <1>1, <1>3 DEF AnyCall, AnyAlloc
<1>7. TypeOK'
  BY <1>4, <1>6, TypeStep
<1>8. HeapParts'
  BY <1>1, <1>4, <1>5, <1>6, HeapStep DEF HeapSound, Calm, Healthy, Running
<1>9. FirstTagged' /\ ~alarm'
  BY <1>1, <1>4, <1>5, <1>6, <1>8, CalmStep DEF HeapSound, Calm
<1>10. H!HeapParts' /\ H!FirstTagged'
  <2>1. Agree'
    BY <1>4, <1>7, BareAgreesNext DEF Bare
  <2> QED BY <1>8, <1>9, <2>1 DEF Agree, H!FirstTagged, FirstTagged
<1>11. PICK p \in Unit \ live : owned' = [owned EXCEPT ![p] = padRequest(req)]
  BY <1>1, <1>3, <1>4, <1>5, GrantOne
<1>12. /\ \A u \in Unit : owned'[u] # owned[u] <=> u = p
       /\ owned'[p] = nb + align + offset + 2 /\ p \in live'
  BY <1>2, <1>3, <1>4, <1>11 DEF TypeOK, live
<1>13. (CHOOSE u \in Unit : owned'[u] # owned[u]) = p
  BY <1>11, <1>12
<1>14. 0 \in Unit
  BY ArenaNat, SizesAssumption DEF Unit
<1>15. AlignedTypes'
  <2>1. job' = [need |-> nb, align |-> align, offset |-> offset, leader |-> 0, next |-> 0, ptr |-> p]
    BY <1>1, <1>13
  <2>2. job' \in Job
    BY <1>2, <1>14, <2>1 DEF Job
  <2> QED BY <1>1, <1>7, <2>2 DEF AlignedTypes
<1>16. Holding'
  BY <1>1, <1>2, <1>12, <1>13 DEF Holding, Served
<1>17. Pending'
  BY <1>1 DEF Pending
<1> QED BY <1>9, <1>10, <1>15, <1>16, <1>17 DEF AlignedParts

\* Its chunks are held chunks, the hidden head apart.
LEMMA SameStart == ASSUME whole' = whole, top' = top PROVE H!Start' = H!Start
BY DEF H!Start, H!Unit, Unit, H!Arena, Arena

\* The aligned spot is found, and its head written.
LEMMA PlaceStep ==
  ASSUME AlignedTypes, AlignedParts, Place, Intact'
  PROVE  AlignedTypes' /\ AlignedParts'
<1> DEFINE x    == job.ptr
           pos  == place(job.ptr, job.align, job.offset)
           size == csize[job.ptr] - (pos - job.ptr)
<1>1. stage = "place" /\ x \in live /\ job.leader = 0 /\ owned[x] = job.need + job.align + job.offset + 2
      /\ job.need >= 2 /\ job.align >= 2 /\ job \in Job /\ TypeOK /\ H!HeapParts /\ hidden = {} /\ H!FirstTagged
  BY DEF Place, AlignedTypes, AlignedParts, Holding, Served, hidden
<1>2. /\ x \in Unit /\ x \in Nat /\ x # 0 /\ x \in H!Start /\ x \in cinuse /\ x # top
      /\ whole[x] = csize[x] /\ csize[x] \in Nat \ {0} /\ H!nextChunk(x) = nextChunk(x)
      /\ nextChunk(x) = x + csize[x] /\ nextChunk(x) \in H!Start /\ nextChunk(x) \in Unit /\ nextChunk(x) \in Nat
      /\ owned[x] =< csize[x]
  BY <1>1, HeldFacts
<1>3. whole = csize
  BY <1>1, BareAgrees DEF Bare, Agree
<1>4. job.need \in Nat /\ job.align \in Nat /\ job.offset \in Nat
  BY <1>1 DEF Job
<1>5. CASE isAligned(x, job.align, job.offset)
  <2>1. stage' = "trim" /\ seen' = head(x) /\ UNCHANGED <<vars, job, late, raced>>
    BY <1>5 DEF Place
  <2>2. hidden' = {} /\ UNCHANGED <<csize, pinuse, cinuse, foot, bin, dv_size, top, top_size, footprint, owned, lost, alarm>>
    BY <2>1 DEF hidden, vars, heap, space, pages, ghosts
  <2>3. whole' = whole
    BY <1>1, <2>2 DEF whole
  <2>4. H!HeapParts' /\ H!FirstTagged'
    <3>1. {} \cap H!Start = {} /\ cinuse' = cinuse \cup {} /\ pinuse \subseteq pinuse' /\ pinuse' \subseteq pinuse \cup {}
      BY <2>2
    <3> QED BY <1>1, <2>2, <2>3, <3>1, SameHeap
  <2>5. AlignedTypes'
    <3>1. TypeOK'
      BY <1>1, <2>1 DEF TypeOK, vars, heap, space, pages, ghosts
    <3>2. head(x) \in Word
      BY <1>2 DEF head, Word
    <3> QED BY <2>1, <3>1, <3>2 DEF AlignedTypes
  <2>6. Holding'
    <3>1. live' = live
      BY <2>2 DEF live
    <3>2. csize[x] >= job.need
      BY <1>1, <1>2, <1>4
    <3>3. Divided'
      BY <1>1, <1>5, <2>1, <2>2, <3>1, <3>2 DEF Divided
    <3>4. seen'.size = csize'[job'.ptr]
      BY <2>1, <2>2 DEF head
    <3> QED BY <1>1, <2>1, <3>3, <3>4 DEF Holding
  <2>7. Pending'
    BY <1>1, <2>1, <2>2 DEF Pending, AlignedParts
  <2> QED BY <2>2, <2>4, <2>5, <2>6, <2>7 DEF AlignedParts
<1>6. CASE ~isAligned(x, job.align, job.offset)
  <2>1. pos \in Nat /\ x + 2 =< pos /\ pos =< x + job.align + 1 /\ isAligned(pos, job.align, job.offset)
    BY <1>1, <1>2, <1>4, AlignedSpot
  <2>2. /\ csize' = [csize EXCEPT ![pos] = size] /\ cinuse' = cinuse \cup {pos} /\ pinuse' \in {pinuse, pinuse \cup {pos}}
        /\ job' = [job EXCEPT !.ptr = pos, !.leader = job.ptr, !.next = pos + size]
        /\ seen' = head(pos + size) /\ stage' = "next"
        /\ UNCHANGED <<foot, space, pages, ghosts, late, raced>>
    <3>1. ~Crash("undefined")
      BY DEF Crash, Intact, Healthy, Running
    <3> QED BY <1>6, <3>1 DEF Place
  <2> HIDE DEF pos
  <2>3. size = nextChunk(x) - pos /\ size \in Nat /\ pos + size = nextChunk(x) /\ pos < nextChunk(x)
        /\ pos + job.need < x + owned[x]
    BY <1>1, <1>2, <1>4, <2>1
  <2> HIDE DEF size
  <2>4. pos \notin H!Start /\ pos \in Unit
    <3>1. \A u \in x + 1 .. nextChunk(x) - 1 : u \notin H!Start
      BY <1>1, <1>2 DEF H!HeapParts, H!Tiled
    <3> QED BY <1>2, <2>1, <2>3, <3>1, ArenaNat DEF Unit
  <2>5. csize[pos] = 0
    <3>1. ~(csize[pos] > 0) /\ csize[pos] \in Nat
      BY <1>1, <1>3, <2>4, WholeHeap DEF TypeOK
    <3> QED BY <3>1
  <2>6. job' \in Job /\ job'.ptr = pos /\ job'.leader = x /\ job'.next = nextChunk(x)
        /\ job'.need = job.need /\ job'.align = job.align /\ job'.offset = job.offset
    BY <1>1, <1>2, <2>2, <2>3, <2>4 DEF Job
  <2>7. whole' = whole
    <3>1. hidden' = {pos}
      BY <2>2, <2>6 DEF hidden
    <3>2. whole' = [u \in Unit |-> IF u = pos THEN 0 ELSE csize'[u]]
      BY <3>1 DEF whole
    <3>3. \A u \in Unit : (IF u = pos THEN 0 ELSE csize'[u]) = csize[u]
      BY <1>1, <2>2, <2>4, <2>5 DEF TypeOK
    <3>4. whole' = [u \in Unit |-> csize[u]]
      BY <3>2, <3>3
    <3> QED BY <1>1, <1>3, <3>4 DEF TypeOK
  <2>8. UNCHANGED <<foot, bin, dv_size, top, top_size, footprint, owned, lost, alarm>>
    BY <2>2 DEF space, pages, ghosts
  <2>9. H!HeapParts' /\ H!FirstTagged'
    <3>1. {pos} \cap H!Start = {} /\ pinuse \subseteq pinuse' /\ pinuse' \subseteq pinuse \cup {pos} /\ cinuse' = cinuse \cup {pos}
      BY <2>2, <2>4
    <3> QED BY <1>1, <2>7, <2>8, <3>1, SameHeap
  <2>10. AlignedTypes'
    <3>1. TypeOK'
      <4>1. csize' \in [Unit -> Nat] /\ cinuse' \subseteq Nat /\ pinuse' \subseteq Nat
        BY <1>1, <2>1, <2>2, <2>3, <2>4 DEF TypeOK
      <4> QED BY <1>1, <2>2, <4>1 DEF TypeOK, space, pages, ghosts
    <3>2. head(pos + size) \in Word
      BY <1>1, <1>2, <2>3 DEF head, Word, TypeOK
    <3> QED BY <2>2, <2>6, <3>1, <3>2 DEF AlignedTypes
  <2>11. Placed'
    <3>1. live' = live
      BY <2>8 DEF live
    <3>2. H!Start' = H!Start
      BY <2>7, <2>8, SameStart
    <3>3. csize'[x] = csize[x] /\ csize'[pos] = size
      BY <1>1, <1>2, <2>1, <2>2, <2>4 DEF TypeOK
    <3>4. job'.leader \in live' /\ job'.ptr \notin H!Start' /\ job'.ptr \in cinuse' /\ job'.leader + 2 =< job'.ptr
      BY <1>1, <2>1, <2>2, <2>4, <2>6, <3>1, <3>2
    <3>5. job'.ptr + job'.need < job'.leader + owned'[job'.leader]
      BY <2>3, <2>6, <2>8
    <3>6. job'.next = job'.leader + csize'[job'.leader]
      BY <1>2, <2>6, <3>3
    <3>7. csize'[job'.ptr] = job'.next - job'.ptr /\ isAligned(job'.ptr, job'.align, job'.offset)
      BY <2>1, <2>3, <2>6, <3>3
    <3> QED BY <3>4, <3>5, <3>6, <3>7 DEF Placed, nextChunk, isAligned
  <2>12. Holding'
    BY <1>1, <2>2, <2>6, <2>11 DEF Holding
  <2>13. Pending'
    BY <1>1, <2>2 DEF Pending, AlignedParts
  <2> QED BY <2>8, <2>9, <2>10, <2>12, <2>13 DEF AlignedParts
<1> QED BY <1>5, <1>6

\* A write that finds the words it writes already there.
LEMMA SameWords ==
  ASSUME AlignedTypes, AlignedParts, hidden' = hidden, UNCHANGED <<csize, pinuse, cinuse, foot, space, pages, ghosts>>
  PROVE  TypeOK' /\ H!HeapParts' /\ H!FirstTagged' /\ ~alarm' /\ H!Start' = H!Start /\ live' = live
         /\ \A a : nextChunk(a)' = nextChunk(a)
<1>1. UNCHANGED <<foot, bin, dv_size, top, top_size, footprint, owned, lost, alarm>>
  BY DEF space, pages, ghosts
<1>2. whole' = whole
  BY DEF whole
<1>3. TypeOK'
  BY DEF AlignedTypes, TypeOK, space, pages, ghosts
<1>4. {} \cap H!Start = {} /\ cinuse' = cinuse \cup {} /\ pinuse \subseteq pinuse' /\ pinuse' \subseteq pinuse \cup {}
  OBVIOUS
<1>5. H!HeapParts' /\ H!FirstTagged'
  BY <1>1, <1>2, <1>4, SameHeap DEF AlignedTypes, AlignedParts
<1>6. H!Start' = H!Start /\ live' = live /\ \A a : nextChunk(a)' = nextChunk(a)
  BY <1>1, <1>2, SameStart DEF live, nextChunk
<1> QED BY <1>1, <1>3, <1>5, <1>6 DEF AlignedParts

\* The flag of the chunk behind is set where alloc, or the cut, has set it.
LEMMA MarkStep ==
  ASSUME AlignedTypes, AlignedParts, MarkSuccessor, Intact'
  PROVE  AlignedTypes' /\ AlignedParts'
<1> DEFINE n == job.next
<1>1. /\ stage \in {"next", "rest"} /\ TypeOK /\ H!HeapParts /\ job \in Job /\ n \in Unit
      /\ csize' = [csize EXCEPT ![n] = seen.size]
      /\ cinuse' = (IF seen.cin THEN cinuse \cup {n} ELSE cinuse \ {n})
      /\ pinuse' = pinuse \cup {n}
      /\ foot' = [foot EXCEPT ![n] = Msp]
      /\ seen.size = csize[n] /\ seen.cin = (n \in cinuse) /\ ~raced /\ ~raced'
      /\ UNCHANGED <<space, pages, ghosts, job, late>>
  BY DEF MarkSuccessor, AlignedTypes, AlignedParts, Intact, Job
<1>2. n \in pinuse /\ foot[n] = Msp
  <2>1. PICK q \in live \cup lost : n = nextChunk(q)
    BY <1>1 DEF AlignedParts, Holding, Placed
  <2> QED BY <1>1, <2>1, HeldFacts
<1>3. UNCHANGED <<csize, pinuse, cinuse, foot, space, pages, ghosts>>
  BY <1>1, <1>2 DEF TypeOK
<1>4. IF stage = "next" THEN stage' = "lead" /\ seen' = head(job.leader)
      ELSE stage' = "give" /\ seen' = NoHead
  BY DEF MarkSuccessor
<1>5. hidden' = hidden
  BY <1>1, <1>4 DEF hidden
<1>6. /\ TypeOK' /\ H!HeapParts' /\ H!FirstTagged' /\ ~alarm' /\ H!Start' = H!Start /\ live' = live
      /\ \A a : nextChunk(a)' = nextChunk(a)
  BY <1>3, <1>5, SameWords
<1>7. AlignedTypes'
  <2>1. head(job.leader) \in Word /\ NoHead \in Word
    BY <1>1, ArenaNat, SizesAssumption DEF head, Word, NoHead, Job, TypeOK, Unit
  <2>2. raced' \in BOOLEAN
    BY DEF MarkSuccessor
  <2> QED BY <1>1, <1>4, <1>6, <2>1, <2>2 DEF AlignedTypes
<1>8. Holding'
  <2>1. owned' = owned
    BY <1>1 DEF ghosts
  <2>2. CASE stage = "next"
    BY <1>1, <1>3, <1>4, <1>6, <2>1, <2>2 DEF AlignedParts, Holding, Placed
  <2>3. CASE stage = "rest"
    BY <1>1, <1>3, <1>4, <1>6, <2>3 DEF AlignedParts, Holding, Divided
  <2> QED BY <1>1, <2>2, <2>3
<1>9. Pending'
  BY <1>1, <1>3, <1>4 DEF AlignedParts, Pending
<1> QED BY <1>6, <1>7, <1>8, <1>9 DEF AlignedParts

\* A late write finds what it writes.
LEMMA LateStep ==
  ASSUME AlignedTypes, AlignedParts, LateWrite, Intact'
  PROVE  AlignedTypes' /\ AlignedParts'
<1>1. /\ TypeOK /\ late \in Word /\ late.at \in cinuse
      /\ csize' = [csize EXCEPT ![late.at] = late.size]
      /\ cinuse' = cinuse \cup {late.at} /\ pinuse' = pinuse \ {late.at}
      /\ late.size = csize[late.at] /\ late.at \notin pinuse /\ ~raced'
      /\ late' = NoHead
      /\ UNCHANGED <<foot, space, pages, ghosts, stage, job, seen>>
  BY DEF LateWrite, AlignedTypes, AlignedParts, Pending, Intact
<1>2. UNCHANGED <<csize, pinuse, cinuse, foot, space, pages, ghosts>>
  BY <1>1 DEF TypeOK
<1>3. hidden' = hidden
  BY <1>1 DEF hidden
<1>4. /\ TypeOK' /\ H!HeapParts' /\ H!FirstTagged' /\ ~alarm' /\ H!Start' = H!Start /\ live' = live
      /\ \A a : nextChunk(a)' = nextChunk(a)
  BY <1>2, <1>3, SameWords
<1>5. AlignedTypes'
  <2>1. NoHead \in Word
    BY ArenaNat, SizesAssumption DEF Word, NoHead, Unit
  <2>2. raced' \in BOOLEAN
    BY DEF LateWrite
  <2> QED BY <1>1, <1>4, <2>1, <2>2 DEF AlignedTypes
<1>6. owned' = owned /\ lost' = lost
  BY <1>1 DEF ghosts
<1>7. Placed => Placed'
  BY <1>1, <1>2, <1>4, <1>6 DEF Placed
<1>8. (Divided => Divided') /\ (Served => Served')
  BY <1>1, <1>2, <1>4, <1>6 DEF Divided, Served
<1>9. Holding'
  BY <1>1, <1>2, <1>4, <1>6, <1>7, <1>8 DEF AlignedParts, Holding
<1>10. Pending'
  BY <1>1 DEF Pending, NoHead
<1> QED BY <1>4, <1>5, <1>9, <1>10 DEF AlignedParts

\* The leader gets its size: from now on there are two chunks.
LEMMA CutStep ==
  ASSUME AlignedTypes, AlignedParts, CutLead, Intact'
  PROVE  AlignedTypes' /\ AlignedParts'
<1> DEFINE x == job.leader
           p == job.ptr
           h == owned[x] - (p - x)
<1>1. /\ stage = "lead" /\ TypeOK /\ H!HeapParts /\ H!FirstTagged /\ ~alarm /\ job \in Job /\ seen \in Word /\ hidden = {p}
      /\ x \in live /\ p \notin H!Start /\ p \in cinuse /\ p \in Unit
      /\ x + 2 =< p /\ p + job.need < x + owned[x]
      /\ job.next = nextChunk(x) /\ csize[p] = nextChunk(x) - p
      /\ isAligned(p, job.align, job.offset) /\ job.need >= 2 /\ job.align >= 2
  BY DEF CutLead, AlignedTypes, AlignedParts, Holding, Placed, hidden, Job
<1>2. /\ csize' = [csize EXCEPT ![x] = p - x, ![p] = csize[p]] /\ cinuse' = cinuse \cup {x, p}
      /\ pinuse' = (IF seen.pin THEN pinuse \cup {x} ELSE pinuse \ {x}) \cup {p}
      /\ foot' = [foot EXCEPT ![p] = Msp]
      /\ raced' = (raced \/ seen.pin # (x \in pinuse))
      /\ owned' = [owned EXCEPT ![x] = p - x, ![p] = h]
      /\ seen' = [head(p) EXCEPT !.pin = TRUE] /\ stage' = "trim"
      /\ UNCHANGED <<space, pages, lost, carved, astray, alarm, halt, job, late>>
  BY DEF CutLead, SetSizeInuse
<1>3. pinuse' = pinuse \cup {p}
  <2>1. ~raced'
    BY DEF Intact
  <2>2. seen.pin = (x \in pinuse)
    BY <1>2, <2>1
  <2> QED BY <1>2, <2>2
<1>4. /\ x \in Unit /\ x \in Nat /\ x \in H!Start /\ whole[x] = csize[x] /\ csize[x] \in Nat \ {0}
      /\ H!nextChunk(x) = nextChunk(x) /\ nextChunk(x) = x + csize[x] /\ nextChunk(x) \in Nat
      /\ owned[x] =< csize[x] /\ owned[x] \in Nat \ {0} /\ x # 0
  BY <1>1, HeldFacts
<1>5. p \in Nat /\ job.need \in Nat /\ x < p /\ p < nextChunk(x) /\ h \in Nat \ {0} /\ h =< nextChunk(x) - p /\ p - x \in Nat \ {0} /\ x # p
  <2>1. p \in Nat /\ job.need \in Nat
    BY <1>1, ArenaNat DEF Unit, Job
  <2> QED BY <1>1, <1>4, <2>1
<1>6. TypeOK'
  <2>1. csize' \in [Unit -> Nat] /\ foot' \in [Unit -> Nat] /\ owned' \in [Unit -> Nat] /\ pinuse' \subseteq Nat /\ cinuse' \subseteq Nat
    <3>1. csize[p] \in Nat
      BY <1>1 DEF TypeOK
    <3>2. Msp \in Nat
      BY ArenaNat DEF Msp
    <3> HIDE DEF h, x, p
    <3> QED BY <1>1, <1>2, <1>3, <1>4, <1>5, <3>1, <3>2 DEF TypeOK
  <2> QED BY <1>1, <1>2, <2>1 DEF TypeOK, space, pages
<1>7. whole' = csize'
  <2>1. hidden' = {}
    BY <1>2 DEF hidden
  <2> QED BY <1>6, <2>1, BareAgreesNext DEF Bare, Agree
<1>8. whole' = [whole EXCEPT ![x] = p - x, ![p] = nextChunk(x) - p]
  <2>1. whole = [u \in Unit |-> IF u = p THEN 0 ELSE csize[u]]
    BY <1>1 DEF whole
  <2>2. whole' = [u \in Unit |-> IF u = x THEN p - x ELSE IF u = p THEN csize[p] ELSE csize[u]]
    BY <1>1, <1>2, <1>4, <1>5, <1>7 DEF TypeOK
  <2> HIDE DEF whole, p, x
  <2> QED BY <1>1, <1>4, <1>5, <2>1, <2>2
<1>9. H!HeapParts'
  <2>1. H!TypeOK /\ x \in H!live /\ H!Msp = Msp
    BY <1>1, WholeTyped, WholeHeap
  <2>2. lost' = (IF h = 0 THEN lost \cup {p} ELSE lost) /\ UNCHANGED <<bin, dv_size, top, top_size, footprint>>
    BY <1>2, <1>5 DEF space, pages
  <2>3. p - x =< p - x
    BY <1>5
  <2>4. foot' = [foot EXCEPT ![p] = H!Msp] /\ whole' = [whole EXCEPT ![x] = p - x, ![p] = H!nextChunk(x) - p]
    BY <1>2, <1>4, <1>8, <2>1
  <2> HIDE DEF h, p, x
  <2> QED BY <1>1, <1>2, <1>3, <1>4, <1>5, <2>1, <2>2, <2>3, <2>4, H!CutKeeps, SizesAssumption
<1>10. H!FirstTagged'
  BY <1>1, <1>2, <1>3 DEF H!FirstTagged, space
<1>11. AlignedTypes'
  <2>1. [head(p) EXCEPT !.pin = TRUE] \in Word
    BY <1>1 DEF head, Word, TypeOK
  <2>2. raced' \in BOOLEAN
    BY <1>2
  <2> QED BY <1>1, <1>2, <1>6, <2>1, <2>2 DEF AlignedTypes
<1>12. Divided' /\ seen'.size = csize'[job'.ptr]
  <2>1. csize'[p] = csize[p] /\ csize'[x] = p - x /\ owned'[p] = h /\ owned'[x] = p - x /\ job' = job
    BY <1>1, <1>2, <1>4, <1>5 DEF TypeOK
  <2>2. p \in live' /\ x \in live'
    BY <1>1, <1>4, <1>5, <2>1 DEF live
  <2>3. csize[p] >= job.need /\ p - x >= 2
    BY <1>1, <1>4, <1>5
  <2>4. seen'.size = csize[p]
    BY <1>2 DEF head
  <2> QED BY <1>1, <1>5, <2>1, <2>2, <2>3, <2>4 DEF Divided
<1>13. Holding'
  BY <1>1, <1>2, <1>12 DEF Holding
<1>14. Pending'
  BY <1>1, <1>2 DEF Pending, AlignedParts
<1> QED BY <1>1, <1>2, <1>9, <1>10, <1>11, <1>13, <1>14 DEF AlignedParts

\* What is behind the block is cut off, and dropped.
LEMMA TrimStep ==
  ASSUME AlignedTypes, AlignedParts, Trim, Intact'
  PROVE  AlignedTypes' /\ AlignedParts'
<1> DEFINE p    == job.ptr
           q    == job.ptr + job.need
           rest == seen.size - job.need
<1>1. /\ stage = "trim" /\ TypeOK /\ H!HeapParts /\ H!FirstTagged /\ ~alarm /\ job \in Job /\ seen \in Word /\ hidden = {}
      /\ p \in live /\ csize[p] >= job.need /\ isAligned(p, job.align, job.offset) /\ seen.size = csize[p]
      /\ job.need >= 2 /\ job.align >= 2 /\ job.need \in Nat
      /\ job.leader # 0 => job.leader \in live /\ job.leader # p /\ csize[job.leader] >= 2
  BY DEF Trim, AlignedTypes, AlignedParts, Holding, Divided, hidden, Job
<1>2. /\ p \in Unit /\ p \in Nat /\ p \in H!Start /\ csize[p] \in Nat \ {0}
      /\ H!nextChunk(p) = nextChunk(p) /\ nextChunk(p) = p + csize[p] /\ nextChunk(p) \in Nat /\ nextChunk(p) \in Unit
      /\ p # 0 /\ nextChunk(p) \in H!Start
  BY <1>1, HeldFacts
<1>3. whole = csize
  BY <1>1, BareAgrees DEF Bare, Agree
<1>4. owned' = [owned EXCEPT ![p] = job.need] /\ UNCHANGED <<space, pages, carved, astray, alarm, halt, late>>
  BY DEF Trim
<1>5. owned' \in [Unit -> Nat] /\ live' = live
  <2>1. owned' \in [Unit -> Nat] /\ \A u \in Unit : owned'[u] > 0 <=> owned[u] > 0
    BY <1>1, <1>2, <1>4 DEF TypeOK, live
  <2> QED BY <2>1 DEF live
<1>6. CASE rest > kMinChunkSize
  <2>1. /\ csize' = [csize EXCEPT ![p] = q - p, ![q] = rest] /\ cinuse' = cinuse \cup {p, q}
        /\ pinuse' = (IF seen.pin THEN pinuse \cup {p} ELSE pinuse \ {p}) \cup {q}
        /\ foot' = [foot EXCEPT ![q] = Msp]
        /\ raced' = (raced \/ seen.pin # (p \in pinuse))
        /\ lost' = lost \cup {q} /\ seen' = head(q + rest) /\ job' = [job EXCEPT !.next = q + rest] /\ stage' = "rest"
    BY <1>6 DEF Trim, SetSizeInuse
  <2>2. pinuse' = pinuse \cup {q}
    <3>1. ~raced'
      BY DEF Intact
    <3>2. seen.pin = (p \in pinuse)
      BY <2>1, <3>1
    <3> QED BY <2>1, <3>2
  <2>3. /\ rest = nextChunk(p) - q /\ rest \in Nat /\ q + rest = nextChunk(p) /\ q - p = job.need
        /\ q \in Nat /\ p < q /\ q < nextChunk(p)
    BY <1>1, <1>2, <1>6 DEF kMinChunkSize
  <2>4. q \in Unit /\ q \notin H!Start /\ q \notin live /\ p # q
    <3>1. \A u \in p + 1 .. nextChunk(p) - 1 : u \notin H!Start
      BY <1>1, <1>2, HeldFacts DEF H!HeapParts, H!Tiled
    <3>2. q \in Unit /\ q \notin H!Start
      BY <1>2, <2>3, <3>1, ArenaNat DEF Unit
    <3> QED BY <1>1, <2>3, <3>2, HeldFacts
  <2> HIDE DEF p, q, rest
  <2>5. owned' = [owned EXCEPT ![p] = job.need, ![q] = 0]
    <3>1. ~(owned[q] > 0) /\ owned[q] \in Nat /\ owned \in [Unit -> Nat]
      BY <1>1, <2>4 DEF TypeOK, live
    <3>2. owned[q] = 0
      BY <3>1
    <3> QED BY <1>2, <1>4, <2>4, <3>1, <3>2
  <2>6. TypeOK'
    <3>1. csize' \in [Unit -> Nat] /\ foot' \in [Unit -> Nat] /\ pinuse' \subseteq Nat /\ cinuse' \subseteq Nat /\ lost' \subseteq Unit
      <4>1. Msp \in Nat
        BY ArenaNat DEF Msp
      <4> QED BY <1>1, <1>2, <2>1, <2>2, <2>3, <2>4, <4>1 DEF TypeOK
    <3> QED BY <1>1, <1>4, <1>5, <3>1 DEF TypeOK, space, pages
  <2>7. whole' = csize'
    <3>1. hidden' = {}
      BY <2>1 DEF hidden
    <3> QED BY <2>6, <3>1, BareAgreesNext DEF Bare, Agree
  <2>8. H!HeapParts'
    <3>1. H!TypeOK /\ p \in H!live /\ H!Msp = Msp
      BY <1>1, WholeTyped, WholeHeap
    <3>2. lost' = (IF 0 = 0 THEN lost \cup {q} ELSE lost) /\ UNCHANGED <<bin, dv_size, top, top_size, footprint>>
      BY <1>4, <2>1 DEF space, pages
    <3>3. foot' = [foot EXCEPT ![q] = H!Msp] /\ whole' = [whole EXCEPT ![p] = q - p, ![q] = H!nextChunk(p) - q]
      BY <1>2, <1>3, <2>1, <2>3, <2>7, <3>1
    <3>4. job.need \in Nat \ {0} /\ job.need =< q - p /\ 0 =< H!nextChunk(p) - q /\ 0 \in Nat /\ q < H!nextChunk(p)
      BY <1>1, <1>2, <2>3
    <3> QED BY <1>1, <2>1, <2>2, <2>3, <2>5, <3>1, <3>2, <3>3, <3>4, H!CutKeeps, SizesAssumption
  <2>9. H!FirstTagged'
    BY <1>1, <1>4, <2>2 DEF H!FirstTagged, space
  <2>10. AlignedTypes'
    <3>1. job' \in Job
      BY <1>1, <1>2, <2>1, <2>3 DEF Job
    <3>2. head(q + rest) \in Word
      BY <1>1, <1>2, <2>3 DEF head, Word, TypeOK
    <3>3. raced' \in BOOLEAN
      BY <2>1
    <3> QED BY <1>4, <2>1, <2>6, <3>1, <3>2, <3>3 DEF AlignedTypes
  <2>11. job'.ptr = p /\ job'.next = q + rest /\ job'.need = job.need /\ job'.align = job.align /\ job'.offset = job.offset
         /\ job'.leader = job.leader
    BY <1>1, <2>1 DEF Job, p
  <2>12. Divided'
    <3>1. csize'[p] = job.need
      BY <1>1, <1>2, <2>1, <2>3, <2>4 DEF TypeOK
    <3>2. job.leader # 0 => csize'[job.leader] = csize[job.leader]
      <4>1. SUFFICES ASSUME job.leader # 0 PROVE csize'[job.leader] = csize[job.leader]
        OBVIOUS
      <4>2. job.leader \in Unit /\ job.leader # p /\ job.leader # q
        BY <1>1, <2>4, <4>1 DEF live
      <4> QED BY <1>1, <2>1, <4>2 DEF TypeOK
    <3> QED BY <1>1, <1>5, <2>11, <3>1, <3>2 DEF Divided
  <2>13. \E y \in lost' : job'.next = y + csize'[y]
    <3>1. csize'[q] = rest
      BY <1>1, <2>1, <2>4 DEF TypeOK
    <3> QED BY <2>1, <2>11, <3>1
  <2>14. Holding'
    BY <1>1, <2>1, <2>11, <2>12, <2>13 DEF Holding, nextChunk
  <2>15. Pending'
    BY <1>1, <1>4, <2>1 DEF Pending, AlignedParts
  <2> QED BY <1>1, <1>4, <2>8, <2>9, <2>10, <2>14, <2>15 DEF AlignedParts
<1>7. CASE ~(rest > kMinChunkSize)
  <2>1. stage' = "give" /\ seen' = NoHead /\ UNCHANGED <<heap, lost, job, raced>>
    BY <1>7 DEF Trim
  <2>2. UNCHANGED <<csize, pinuse, cinuse, foot, lost, bin, dv_size, top, top_size, footprint, alarm>>
    BY <1>4, <2>1 DEF heap, space, pages
  <2>3. whole' = whole
    <3>1. hidden' = {}
      BY <2>1 DEF hidden
    <3> QED BY <1>1, <2>2, <3>1 DEF whole
  <2>4. H!HeapParts' /\ H!FirstTagged'
    <3>1. H!TypeOK /\ p \in H!live /\ job.need \in Nat \ {0} /\ job.need =< whole[p]
      BY <1>1, <1>3, WholeTyped, WholeHeap
    <3>2. H!HeapParts'
      BY <1>1, <1>4, <2>2, <2>3, <3>1, H!RegrantKeeps, SizesAssumption
    <3> QED BY <1>1, <2>2, <3>2 DEF H!FirstTagged
  <2>5. AlignedTypes'
    <3>1. TypeOK'
      BY <1>1, <1>4, <1>5, <2>1 DEF TypeOK, heap, space, pages
    <3>2. NoHead \in Word
      BY ArenaNat, SizesAssumption DEF Word, NoHead, Unit
    <3> QED BY <1>1, <1>4, <2>1, <3>1, <3>2 DEF AlignedTypes
  <2>6. Divided'
    BY <1>1, <1>5, <2>1, <2>2 DEF Divided
  <2>7. Holding'
    BY <1>1, <2>1, <2>6 DEF Holding
  <2>8. Pending'
    BY <1>1, <1>4, <2>1, <2>2 DEF Pending, AlignedParts
  <2> QED BY <1>1, <2>2, <2>4, <2>5, <2>7, <2>8 DEF AlignedParts
<1> QED BY <1>6, <1>7

\* The leader goes back, and the block to the client.
LEMMA GiveStep ==
  ASSUME AlignedTypes, AlignedParts, Give, Intact'
  PROVE  AlignedTypes' /\ AlignedParts'
<1>1. /\ stage = "give" /\ late.size = 0 /\ stage' = "out" /\ job' = NoJob /\ UNCHANGED <<seen, late, raced>>
      /\ IF job.leader = 0 THEN UNCHANGED vars ELSE free(job.leader)
      /\ TypeOK /\ H!HeapParts /\ H!FirstTagged /\ ~alarm /\ halt' = "no" /\ ~carved'
      /\ job.leader # 0 => job.leader \in live
  BY DEF Give, AlignedTypes, AlignedParts, Intact, Healthy, Running, Holding, Divided
<1>2. hidden = {} /\ hidden' = {}
  BY <1>1 DEF hidden
<1>3. TypeOK' /\ H!HeapParts' /\ H!FirstTagged' /\ ~alarm'
  <2>1. CASE job.leader = 0
    <3>1. UNCHANGED <<csize, pinuse, cinuse, foot, space, pages, ghosts>>
      BY <1>1, <2>1 DEF vars, heap
    <3> QED BY <1>2, <3>1, SameWords
  <2>2. CASE job.leader # 0
    <3>1. hidden' = hidden /\ hidden \subseteq Unit /\ hidden \cap H!Start = {}
      BY <1>2
    <3>2. PICK x \in live : free(x)
      BY <1>1, <2>2
    <3> QED BY <1>1, <3>1, <3>2, FreeKeeps
  <2> QED BY <2>1, <2>2
<1>4. AlignedTypes'
  <2>1. NoJob \in Job
    BY ArenaNat, SizesAssumption DEF Job, NoJob, Unit
  <2> QED BY <1>1, <1>3, <2>1 DEF AlignedTypes
<1>5. Holding' /\ Pending'
  BY <1>1 DEF Holding, Pending
<1> QED BY <1>3, <1>4, <1>5 DEF AlignedParts

\* Every held chunk has its CINUSE bit.
Marked == live \subseteq cinuse

\* It has in a heap that is sound without the hidden head.
LEMMA HeldMarked == H!HeapParts => Marked
<1> SUFFICES ASSUME H!HeapParts, NEW x \in live PROVE x \in cinuse
  BY DEF Marked
<1> QED BY WholeHeap DEF H!HeapParts, H!Tags

\* A head that is read, or written back without its PINUSE bit, is a head.
LEMMA ReadWord ==
  ASSUME csize \in [Unit -> Nat], NEW u \in Unit
  PROVE  [head(u) EXCEPT !.pin = FALSE] \in Word
<1>1. head(u) \in Word
  <2>1. csize[u] \in Nat
    OBVIOUS
  <2>2. (u \in pinuse) \in BOOLEAN /\ (u \in cinuse) \in BOOLEAN
    OBVIOUS
  <2> QED BY <2>1, <2>2 DEF head, Word
<1> HIDE DEF head
<1> QED BY <1>1 DEF Word

\* A free by another thread, with or without a write that is late.
LEMMA BesideStep ==
  ASSUME AlignedTypes, AlignedParts, NEW a \in live \ mine, FreeBeside(a), Intact'
  PROVE  AlignedTypes' /\ AlignedParts'
<1> DEFINE n == nextChunk(a)
<1>1. /\ late.size = 0 /\ free(a) /\ UNCHANGED <<stage, job, seen, raced>>
      /\ IF n \in mine /\ n \in pinuse \ pinuse'
         THEN late' \in {NoHead, [head(n) EXCEPT !.pin = FALSE]}
         ELSE late' = late
      /\ TypeOK /\ H!HeapParts /\ H!FirstTagged /\ ~alarm /\ halt' = "no" /\ ~carved' /\ a \in live
  BY DEF FreeBeside, AlignedTypes, AlignedParts, Intact, Healthy, Running
<1>2. hidden' = hidden /\ hidden \subseteq Unit /\ hidden \cap H!Start = {}
  BY <1>1, HiddenApart DEF hidden, AlignedParts
<1>3. /\ TypeOK' /\ H!HeapParts' /\ H!FirstTagged' /\ ~alarm' /\ hidden' \cap H!Start' = {}
      /\ owned' = [owned EXCEPT ![a] = 0] /\ lost \subseteq lost'
      /\ \A u \in hidden : csize'[u] = csize[u] /\ (u \in cinuse => u \in cinuse')
      /\ \A x \in (live \cup lost) \ {a} : csize'[x] = csize[x]
  BY <1>1, <1>2, FreeKeeps
<1>4. \A x \in live \ {a} : x \in live' /\ csize'[x] = csize[x] /\ owned'[x] = owned[x]
  BY <1>1, <1>3 DEF TypeOK, live
<1>5. \A x \in lost : csize'[x] = csize[x]
  <2>1. a \notin lost
    BY <1>1, WholeHeap DEF H!HeapParts, H!OneHand
  <2> QED BY <1>3, <2>1
<1>6. stage # "out" => a \notin {job.ptr, job.leader}
  BY DEF mine
<1>7. ASSUME stage = "place" PROVE Served'
  BY <1>1, <1>4, <1>6, <1>7 DEF AlignedParts, Holding, Served
<1>8. ASSUME stage \in {"next", "lead"} PROVE Placed'
  <2>1. hidden = {job.ptr} /\ hidden' = {job.ptr} /\ a # job.leader
    BY <1>1, <1>2, <1>6, <1>8 DEF hidden
  <2>2. Placed
    BY <1>8 DEF AlignedParts, Holding
  <2>3. csize'[job.ptr] = csize[job.ptr] /\ job.ptr \in cinuse' /\ job.ptr \notin H!Start'
    BY <1>3, <2>1, <2>2 DEF Placed
  <2>4. job.leader \in live' /\ csize'[job.leader] = csize[job.leader] /\ owned'[job.leader] = owned[job.leader]
    BY <1>4, <2>1, <2>2 DEF Placed
  <2> QED BY <1>1, <2>2, <2>3, <2>4 DEF Placed, nextChunk, isAligned
<1>9. ASSUME stage \in {"trim", "rest", "give"} PROVE Divided' /\ csize'[job.ptr] = csize[job.ptr]
  <2>1. Divided /\ a # job.ptr /\ a # job.leader
    BY <1>6, <1>9 DEF AlignedParts, Holding
  <2>2. job.ptr \in live' /\ csize'[job.ptr] = csize[job.ptr]
    BY <1>4, <2>1 DEF Divided
  <2>3. job.leader # 0 => job.leader \in live' /\ csize'[job.leader] = csize[job.leader]
    BY <1>4, <2>1 DEF Divided
  <2> QED BY <1>1, <2>1, <2>2, <2>3 DEF Divided, isAligned
<1>10. ASSUME stage = "rest" PROVE \E q \in lost' : job.next = q + csize'[q]
  <2>1. PICK q \in lost : job.next = nextChunk(q)
    BY <1>10 DEF AlignedParts, Holding
  <2> QED BY <1>3, <1>5, <2>1 DEF nextChunk
<1>11. Holding'
  BY <1>1, <1>7, <1>8, <1>9, <1>10 DEF AlignedParts, Holding, nextChunk
<1>12. late' # late => n \in mine /\ late' \in {NoHead, [head(n) EXCEPT !.pin = FALSE]}
  BY <1>1
<1>13. ASSUME n \in mine PROVE stage # "out" /\ n \in cinuse' /\ n \in Unit
  <2>1. stage # "out" /\ n \in {job.ptr, job.leader}
    BY <1>13 DEF mine
  <2>2. n \in Unit /\ n > 0
    BY <1>1, HeldFacts, ArenaNat DEF Unit
  <2>3. Marked'
    BY <1>3, HeldMarked, PTL
  <2>4. live' \subseteq cinuse'
    BY <2>3 DEF Marked
  <2>5. job.ptr \in cinuse' /\ (job.leader # 0 => job.leader \in cinuse')
    BY <1>1, <1>7, <1>8, <1>9, <2>1, <2>4 DEF AlignedTypes, Served, Placed, Divided
  <2> QED BY <2>1, <2>2, <2>5
<1>14. AlignedTypes'
  <2>1. NoHead \in Word
    BY ArenaNat, SizesAssumption DEF Word, NoHead, Unit
  <2>2. ASSUME n \in Unit PROVE [head(n) EXCEPT !.pin = FALSE] \in Word
    <3> HIDE DEF n
    <3> QED BY <1>1, <2>2, ReadWord DEF TypeOK
  <2>3. late' \in Word
    BY <1>12, <1>13, <2>1, <2>2 DEF AlignedTypes
  <2> QED BY <1>1, <1>3, <2>3 DEF AlignedTypes
<1>15. Pending'
  <2>1. CASE late' = late
    BY <1>1, <2>1 DEF Pending
  <2>2. CASE late' = NoHead
    BY <2>2 DEF Pending, NoHead
  <2>3. CASE n \in mine /\ late' = [head(n) EXCEPT !.pin = FALSE]
    <3>1. late'.at = n
      BY <2>3 DEF head
    <3> QED BY <1>1, <1>13, <2>3, <3>1 DEF Pending
  <2> QED BY <1>12, <2>1, <2>2, <2>3
<1> QED BY <1>3, <1>11, <1>14, <1>15 DEF AlignedParts

\* An alloc by another thread, when none is in allocAligned.
LEMMA AllocateStep ==
  ASSUME AlignedTypes, AlignedParts, stage = "out", Allocate, UNCHANGED aligning, Intact, Intact'
  PROVE  AlignedTypes' /\ AlignedParts'
<1>1. UNCHANGED <<stage, job, seen, late, raced>> /\ halt' = "no" /\ ~carved' /\ TypeOK /\ Healthy
  BY DEF aligning, Intact, Healthy, Running, AlignedTypes
<1>2. hidden = {} /\ hidden' = {}
  BY <1>1 DEF hidden
<1>3. HeapParts /\ FirstTagged /\ ~alarm
  <2>1. Agree
    BY <1>1, <1>2, BareAgrees DEF Bare
  <2> QED BY <2>1 DEF Agree, AlignedParts, H!FirstTagged, FirstTagged
<1>4. AnyCall
  BY NextCalls DEF Next
<1>5. TypeOK' /\ HeapParts'
  BY <1>1, <1>3, <1>4, TypeStep, HeapStep DEF HeapSound, Calm, Healthy, Running
<1>6. FirstTagged' /\ ~alarm'
  BY <1>1, <1>3, <1>4, <1>5, CalmStep DEF HeapSound, Calm
<1>7. H!HeapParts' /\ H!FirstTagged'
  <2>1. Agree'
    BY <1>2, <1>5, BareAgreesNext DEF Bare
  <2> QED BY <1>5, <1>6, <2>1 DEF Agree, H!FirstTagged, FirstTagged
<1>8. AlignedTypes'
  BY <1>1, <1>5 DEF AlignedTypes
<1>9. Holding' /\ Pending'
  BY <1>1 DEF Holding, Pending, AlignedParts
<1> QED BY <1>6, <1>7, <1>8, <1>9 DEF AlignedParts

\* A step that leaves no write lost and no chunk carved starts from such a state.
LEMMA IntactBefore == AlignedNext /\ Intact' => Intact
<1> SUFFICES ASSUME AlignedNext, Intact' PROVE Intact
  OBVIOUS
<1>0. halt' = "no" /\ ~carved' /\ ~raced'
  BY DEF Intact, Healthy, Running
<1>1. ASSUME AnyCall, raced' = raced PROVE Intact
  BY <1>0, <1>1, HealthyBefore DEF Intact
<1>2. ASSUME stage = "out", Allocate, UNCHANGED aligning PROVE Intact
  BY <1>1, <1>2, NextCalls DEF Next, aligning
<1>3. ASSUME NEW r \in AlignedRequests, NEW alignment \in Alignments, NEW offset \in Offsets, allocAligned(r, alignment, offset) PROVE Intact
  <2> DEFINE req == alignedRequest(requestToSize(r), powerOfTwo(alignment), offset)
  <2>1. req \in Nat
    <3>1. requestToSize(r) \in Nat /\ powerOfTwo(alignment) \in Nat /\ offset \in Nat /\ powerOfTwo(alignment) >= 2
      BY AlignedAssumption, PowerFacts DEF requestToSize, kMinChunkSize, padRequest
    <3> QED BY <3>1 DEF alignedRequest, kMinChunkSize
  <2>2. alloc(req) /\ raced' = raced
    BY <1>3 DEF allocAligned
  <2> QED BY <1>1, <2>1, <2>2 DEF AnyCall, AnyAlloc
<1>4. ASSUME Place PROVE Intact
  <2>1. Running
    BY <1>4 DEF Place
  <2>2. ~Crash("undefined")
    BY <1>0 DEF Crash
  <2>3. UNCHANGED vars \/ UNCHANGED ghosts
    BY <1>4, <2>2 DEF Place
  <2>4. carved' = carved
    BY <2>3 DEF vars, ghosts
  <2>5. raced' = raced
    BY <1>4, <2>2 DEF Place
  <2> QED BY <1>0, <2>1, <2>4, <2>5 DEF Intact, Healthy
<1>5. ASSUME MarkSuccessor PROVE Intact
  BY <1>0, <1>5 DEF MarkSuccessor, ghosts, Intact, Healthy
<1>6. ASSUME CutLead PROVE Intact
  BY <1>0, <1>6 DEF CutLead, SetSizeInuse, Intact, Healthy
<1>7. ASSUME Trim PROVE Intact
  BY <1>0, <1>7 DEF Trim, SetSizeInuse, Intact, Healthy
<1>8. ASSUME Give PROVE Intact
  <2>1. Running /\ raced' = raced
    BY <1>8 DEF Give
  <2>2. CASE UNCHANGED vars
    BY <1>0, <2>1, <2>2 DEF vars, ghosts, Intact, Healthy
  <2>3. CASE free(job.leader)
    <3>1. Healthy
      BY <1>0, <2>3, FreeHealthy
    <3> QED BY <1>0, <2>1, <3>1 DEF Intact
  <2> QED BY <1>8, <2>2, <2>3 DEF Give
<1>9. ASSUME NEW a \in live \ mine, FreeBeside(a) PROVE Intact
  <2>1. AnyCall /\ raced' = raced
    BY <1>9 DEF FreeBeside, AnyCall, Release
  <2> QED BY <1>1, <2>1
<1>10. ASSUME LateWrite PROVE Intact
  BY <1>0, <1>10 DEF LateWrite, ghosts, Intact, Healthy
<1> QED BY <1>2, <1>3, <1>4, <1>5, <1>6, <1>7, <1>8, <1>9, <1>10 DEF AlignedNext

\* The first state: no call, and the heap of Init.
LEMMA AlignedStart == AlignedInit => AlignedInv
<1> SUFFICES ASSUME AlignedInit PROVE AlignedTypes /\ AlignedParts
  BY DEF AlignedInv
<1>1. /\ Init /\ stage = "out" /\ job = NoJob /\ seen = NoHead /\ late = NoHead /\ raced = FALSE
      /\ TypeOK /\ HeapParts
  BY InitTyped, InitSound DEF AlignedInit
<1>2. 0 \in Unit
  BY ArenaNat, SizesAssumption DEF Unit
<1>3. AlignedTypes
  <2>1. NoJob \in Job
    BY <1>2 DEF NoJob, Job
  <2>2. NoHead \in Word
    BY <1>2 DEF NoHead, Word
  <2> QED BY <1>1, <2>1, <2>2 DEF AlignedTypes
<1>4. Bare
  BY <1>1 DEF Bare, hidden
<1>5. H!HeapParts
  BY <1>1, <1>4, BareAgrees DEF Agree
<1>6. H!FirstTagged /\ ~alarm
  BY <1>1 DEF Init, H!FirstTagged
<1>7. Holding /\ Pending
  BY <1>1 DEF Holding, Pending, NoHead
<1> QED BY <1>3, <1>5, <1>6, <1>7 DEF AlignedParts

\* Nothing that is said of a state changes when no variable does.
LEMMA AlignedStutter ==
  ASSUME AlignedTypes, AlignedParts, UNCHANGED allvars
  PROVE  AlignedTypes' /\ AlignedParts'
<1>1. UNCHANGED <<stage, job, seen, late, raced>> /\ UNCHANGED vars
  BY DEF allvars, aligning
<1>2. UNCHANGED <<csize, pinuse, cinuse, foot, bin, dv_size, top, top_size, footprint, owned, lost, alarm>> /\ TypeOK'
  BY <1>1, TypeStep DEF vars, heap, space, pages, ghosts, AlignedTypes
<1>3. hidden' = hidden
  BY <1>1 DEF hidden
<1>4. whole' = whole
  BY <1>2, <1>3 DEF whole
<1>5. H!HeapParts' /\ H!FirstTagged'
  <2>1. {} \cap H!Start = {} /\ cinuse' = cinuse \cup {} /\ pinuse \subseteq pinuse' /\ pinuse' \subseteq pinuse \cup {}
    BY <1>2
  <2> QED BY <1>2, <1>4, <2>1, SameHeap DEF AlignedTypes, AlignedParts
<1>6. H!Start' = H!Start
  BY <1>2, <1>4, SameStart
<1>7. AlignedTypes'
  BY <1>1, <1>2 DEF AlignedTypes
<1>8. live' = live
  BY <1>2 DEF live
<1>9. Holding'
  BY <1>1, <1>2, <1>6, <1>8 DEF AlignedParts, Holding, Served, Placed, Divided, nextChunk, isAligned
<1>10. Pending'
  BY <1>1, <1>2 DEF AlignedParts, Pending
<1> QED BY <1>2, <1>5, <1>7, <1>9, <1>10 DEF AlignedParts

\* Whoever takes the step, the thread in allocAligned or one that frees beside it.
LEMMA AlignedStep == AlignedInv /\ [AlignedNext]_allvars => AlignedInv'
<1> SUFFICES ASSUME AlignedInv, [AlignedNext]_allvars, Intact' PROVE AlignedTypes' /\ AlignedParts'
  BY DEF AlignedInv
<1>1. CASE UNCHANGED allvars
  <2>1. Intact
    BY <1>1 DEF Intact, Healthy, Running, allvars, aligning, vars, ghosts
  <2> QED BY <1>1, <2>1, AlignedStutter DEF AlignedInv
<1>2. CASE AlignedNext
  <2>1. Intact /\ AlignedTypes /\ AlignedParts
    BY <1>2, IntactBefore DEF AlignedInv
  <2>2. CASE stage = "out" /\ Allocate /\ UNCHANGED aligning
    BY <2>1, <2>2, AllocateStep
  <2>3. ASSUME NEW r \in AlignedRequests, NEW alignment \in Alignments, NEW offset \in Offsets,
               allocAligned(r, alignment, offset)
        PROVE  AlignedTypes' /\ AlignedParts'
    BY <2>1, <2>3, ServedStep
  <2>4. CASE Place
    BY <2>1, <2>4, PlaceStep
  <2>5. CASE MarkSuccessor
    BY <2>1, <2>5, MarkStep
  <2>6. CASE CutLead
    BY <2>1, <2>6, CutStep
  <2>7. CASE Trim
    BY <2>1, <2>7, TrimStep
  <2>8. CASE Give
    BY <2>1, <2>8, GiveStep
  <2>9. ASSUME NEW a \in live \ mine, FreeBeside(a) PROVE AlignedTypes' /\ AlignedParts'
    BY <2>1, <2>9, BesideStep
  <2>10. CASE LateWrite
    BY <2>1, <2>10, LateStep
  <2> QED BY <1>2, <2>2, <2>3, <2>4, <2>5, <2>6, <2>7, <2>8, <2>9, <2>10 DEF AlignedNext
<1> QED BY <1>1, <1>2

-----------------------------------------------------------------------------
(* What it establishes *)

\* Between any two writes of allocAligned, with frees by other threads in
\* between, the heap is sound without the hidden head, no check function has
\* reported anything, and the chunks of the call are what its next step takes
\* them for: as long as no binned chunk was split and no write was lost.
THEOREM AlignedInvariant == AlignedSpec => []AlignedInv
BY AlignedStart, AlignedStep, PTL DEF AlignedSpec

\* Every variable of such a state has its type, and what is written lies in the arena.
THEOREM AlignedTypesHold == AlignedSpec => [](Intact => AlignedTypeOK)
<1>1. AlignedInv => (Intact => AlignedTypeOK)
  <2> SUFFICES ASSUME AlignedTypes PROVE AlignedTypeOK
    BY DEF AlignedInv
  <2> QED BY DEF AlignedTypes, AlignedTypeOK, mine, Job, Word
<1> QED BY <1>1, AlignedInvariant, PTL

\* When allocAligned is over the heap is one that alloc and free could have made,
\* and until then a free by another thread finds nothing wrong with it.
THEOREM SoundAfterAligned == AlignedSpec => []HeapAfterAligned
<1>1. AlignedInv => HeapAfterAligned
  <2> SUFFICES ASSUME AlignedTypes, AlignedParts PROVE (stage = "out" => HeapParts) /\ ~alarm
    BY DEF AlignedInv, HeapAfterAligned
  <2>1. ASSUME stage = "out" PROVE HeapParts
    <3>1. Bare
      BY <2>1 DEF Bare, hidden
    <3> QED BY <3>1, BareAgrees DEF Agree, AlignedTypes, AlignedParts
  <2> QED BY <2>1 DEF AlignedParts
<1> QED BY <1>1, AlignedInvariant, PTL

\* The block allocAligned returns is large enough and aligned at its offset, and
\* the leader it frees is a whole chunk.
THEOREM ResultIsAligned == AlignedSpec => []AlignedResult
<1>1. AlignedInv => AlignedResult
  BY DEF AlignedInv, AlignedParts, Holding, Divided, AlignedResult, kMinChunkSize
<1> QED BY <1>1, AlignedInvariant, PTL

\* deallocate finds the space behind every block at every moment, without a lock.
THEOREM FootersNameSpace == AlignedSpec => []FooterNamesSpace
<1>1. AlignedInv => FooterNamesSpace
  <2> SUFFICES ASSUME AlignedTypes, AlignedParts, NEW a \in live PROVE csize[a] > 0 /\ foot[nextChunk(a)] = Msp
    BY DEF AlignedInv, FooterNamesSpace
  <2>1. TypeOK /\ H!HeapParts
    BY DEF AlignedTypes, AlignedParts
  <2> QED BY <2>1, HeldFacts
<1> QED BY <1>1, AlignedInvariant, PTL
=============================================================================
