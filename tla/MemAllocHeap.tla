----------------------------- MODULE MemAllocHeap -----------------------------
(***************************************************************************)
(* The types and the heap invariant of MemAlloc, for every size of the     *)
(* heap, every set of requests and every order of calls: as long as        *)
(* no binned chunk has been split, the chunks tile the segment, each is in *)
(* one hand, the boundary tags are right and free chunks are consolidated. *)
(***************************************************************************)
EXTENDS MemAllocProps, TLAPS, WellFoundedInduction

\* The arena is a natural number of units, and its products stay folded below.
LEMMA ArenaNat == Arena \in Nat /\ InitialSize =< Arena /\ MspSize < Arena
BY SizesAssumption DEF Arena

\* Page numbers are natural numbers.
LEMMA DivNat == ASSUME NEW n \in Nat PROVE n \div PageSize \in Nat
BY SizesAssumption

\* A request needs a positive number of units.
LEMMA PadNat == ASSUME NEW r \in Nat PROVE padRequest(r) \in Nat /\ padRequest(r) >= 2
BY DEF padRequest, kMinChunkSize

\* The pages a size takes, and the bytes they hold, are natural numbers.
LEMMA PagesNat ==
  ASSUME NEW n \in Nat
  PROVE  PagesFor(n) \in Nat /\ PagesFor(n) * PageSize \in Nat /\ n =< PagesFor(n) * PageSize
<1> DEFINE up == n + PageSize - 1
<1>1. up \in Nat /\ PageSize \in Nat \ {0}
  BY SizesAssumption
<1>2. PagesFor(n) = up \div PageSize
  BY DEF PagesFor
<1>3. up \div PageSize \in Nat
  BY <1>1, DivNat
<1>4. up = PageSize * (up \div PageSize) + (up % PageSize) /\ up % PageSize \in 0 .. PageSize - 1
  BY <1>1
<1>5. (up \div PageSize) * PageSize = PageSize * (up \div PageSize)
  BY <1>1, <1>3
<1>6. PageSize * (up \div PageSize) \in Nat
  BY <1>1, <1>3
<1>7. n =< PageSize * (up \div PageSize)
  BY <1>1, <1>4, <1>6
<1> QED BY <1>2, <1>3, <1>5, <1>6, <1>7

\* The words setSizeInusePinuse writes are typed.
LEMMA MarkInuseTyped ==
  ASSUME TypeOK, NEW a \in Nat, NEW size \in Nat, MarkInuse(a, size)
  PROVE  /\ csize' \in [Unit -> Nat] /\ foot' \in [Unit -> Nat]
         /\ pinuse' \subseteq Nat /\ cinuse' \subseteq Nat
<1> USE ArenaNat DEF TypeOK
<1>1. Unit \subseteq Nat /\ Msp \in Nat
  BY DEF Unit, Msp
<1>2. csize' \in [Unit -> Nat] /\ foot' \in [Unit -> Nat] /\ cinuse' \subseteq Nat
  BY <1>1 DEF MarkInuse
<1>3. PICK kept \in IF csize[a] > 0 THEN {pinuse} ELSE {pinuse \cup {a}, pinuse \ {a}} :
          pinuse' = kept \cup {a + size}
  BY DEF MarkInuse
<1>4. kept \subseteq Nat
  BY <1>1
<1> QED BY <1>1, <1>2, <1>3, <1>4

\* A call of alloc or free.  The requests allocAligned makes are not in Requests.
AnyAlloc == \E r \in Nat : alloc(r)
AnyCall  == AnyAlloc \/ Release

\* What holds of all calls holds of those the client makes itself.
LEMMA NextCalls == Next => AnyCall
BY SizesAssumption DEF Next, Allocate, AnyCall, AnyAlloc

\* Every step of alloc and free keeps the types, whatever the heap went through.
LEMMA TypeStep == TypeOK /\ [AnyCall]_vars => TypeOK'
<1> USE DEF vars, heap, space, pages, ghosts
<1> SUFFICES ASSUME TypeOK, [AnyCall]_vars PROVE TypeOK'
  OBVIOUS
<1> USE SizesAssumption, ArenaNat
<1>0. Unit \subseteq Nat /\ Msp \in Nat
  BY DEF Unit, Msp
<1>a. \A r \in Nat : padRequest(r) \in Nat /\ padRequest(r) >= 2
  BY PadNat
<1>b. ASSUME NEW k, Crash(k), k \in {"no", "fault", "undefined"} PROVE TypeOK'
  BY <1>b DEF Crash, TypeOK
<1>1. ASSUME NEW r \in Nat, NEW p \in binned, AllocSmallFit(r, p) PROVE TypeOK'
  <2> DEFINE nb   == padRequest(r)
             size == IF nb \in small_map THEN nb ELSE nb + 1
  <2>1. p \in Unit /\ size \in Nat /\ nb \in Nat
    BY <1>a DEF binned
  <2>2. CASE Backed({p, p + size})
    <3>1. MarkInuse(p, size) /\ bin' = Unlink({p}) /\ Grant(p, nb) /\ alarm' = (alarm \/ csize[p] # size)
          /\ Quiet /\ UNCHANGED <<dv, dv_size, top, top_size, lost>>
      BY <1>1, <2>2 DEF AllocSmallFit, Touching
    <3>2. alarm' \in BOOLEAN
      BY <3>1
    <3> HIDE DEF nb, size
    <3> QED BY <3>1, <3>2, <2>1, <1>0, MarkInuseTyped DEF Unlink, Grant, Quiet, TypeOK
  <2>3. CASE ~Backed({p, p + size})
    BY <1>1, <2>3, <1>b DEF AllocSmallFit, Touching
  <2> QED BY <2>2, <2>3
<1>2. ASSUME NEW p \in binned, NEW nb \in Nat, Carve(p, nb, bin[p]) PROVE TypeOK'
  <2> DEFINE rest == bin[p] - nb
  <2>1. p \in Unit /\ bin[p] \in Nat
    BY DEF binned, TypeOK
  <2>2. CASE bin[p] < nb \/ ~isSmall(dv_size) \/ ~Backed({p, p + nb, p + rest})
    BY <1>2, <2>2, <1>b DEF Carve, Touching
  <2>3. CASE ~(bin[p] < nb \/ ~isSmall(dv_size) \/ ~Backed({p, p + nb, p + rest}))
    <3>1. rest \in Nat /\ p + nb \in Nat
      BY <2>1, <2>3, <1>0
    <3>2. /\ csize' = [csize EXCEPT ![p] = rest]
          /\ pinuse' = pinuse \cup {p} /\ cinuse' = cinuse \ {p}
          /\ foot' = [foot EXCEPT ![p + nb] = Msp, ![p + rest] = rest]
          /\ bin' = [a \in Unit |-> IF a = p THEN 0
                                    ELSE IF isDv(a) THEN dv_size ELSE bin[a]]
          /\ dv' = p + nb /\ dv_size' = rest
          /\ Grant(p, nb) /\ carved' = TRUE
          /\ alarm' = (alarm \/ csize[p] # bin[p] \/ ~checkAllocedChunk(rest, nb))
          /\ UNCHANGED <<top, top_size, lost, astray, halt, pages>>
      BY <1>2, <2>3 DEF Carve, Touching
    <3> HIDE DEF rest
    <3>3. bin' \in [Unit -> Nat]
      BY <3>2 DEF TypeOK
    <3>4. alarm' \in BOOLEAN
      BY <3>2
    <3> QED BY <3>1, <3>2, <3>3, <3>4, <2>1, <1>0 DEF Grant, TypeOK
  <2> QED BY <2>2, <2>3
<1>3. ASSUME NEW r \in Nat, NEW p \in binned, AllocTree(r, p) PROVE TypeOK'
  <2> DEFINE nb == padRequest(r)
  <2>1. p \in Unit /\ bin[p] \in Nat /\ nb \in Nat
    BY <1>a DEF binned, TypeOK
  <2>2. CASE nb =< bin[p] /\ bin[p] < nb + kMinChunkSize /\ Backed({p, p + bin[p]})
    <3>1. MarkInuse(p, bin[p]) /\ bin' = Unlink({p}) /\ Grant(p, nb)
          /\ Quiet /\ UNCHANGED <<dv, dv_size, top, top_size, lost, alarm>>
      BY <1>3, <2>2 DEF AllocTree, Touching
    <3> HIDE DEF nb
    <3> QED BY <3>1, <2>1, <1>0, MarkInuseTyped DEF Unlink, Grant, Quiet, TypeOK
  <2>3. CASE ~(nb =< bin[p] /\ bin[p] < nb + kMinChunkSize /\ Backed({p, p + bin[p]}))
    BY <1>3, <2>1, <2>3, <1>2, <1>b DEF AllocTree, Touching
  <2> QED BY <2>2, <2>3
<1>4. ASSUME NEW r \in Nat, AllocDvSplit(r) PROVE TypeOK'
  <2> DEFINE nb   == padRequest(r)
             rest == dv_size - nb
  <2>1. nb \in Nat /\ rest \in Nat /\ dv \in Nat /\ dv + nb \in Nat /\ dv \in Nat
    BY <1>4, <1>a DEF AllocDvSplit, TypeOK, kMinChunkSize
  <2>2. CASE Backed({dv, dv + nb, dv + dv_size})
    <3>1. /\ SplitInuse(dv, nb, rest)
          /\ foot' = [foot EXCEPT ![dv + nb] = Msp, ![dv + dv_size] = rest]
          /\ dv' = dv + nb /\ dv_size' = rest /\ Grant(dv, nb)
          /\ Quiet /\ UNCHANGED <<bin, top, top_size, lost, alarm>>
      BY <1>4, <2>2 DEF AllocDvSplit, Touching
    <3> HIDE DEF nb, rest
    <3> QED BY <3>1, <2>1, <1>0 DEF SplitInuse, Grant, Quiet, TypeOK
  <2>3. CASE ~Backed({dv, dv + nb, dv + dv_size})
    BY <1>4, <2>3, <1>b DEF AllocDvSplit, Touching
  <2> QED BY <2>2, <2>3
<1>5. ASSUME NEW r \in Nat, AllocDvExhaust(r) PROVE TypeOK'
  <2> DEFINE nb == padRequest(r)
  <2>1. nb \in Nat /\ dv \in Nat
    BY <1>a DEF TypeOK
  <2>2. CASE Backed({dv, dv + nb})
    <3>1. MarkInuse(dv, nb) /\ dv' = 0 /\ dv_size' = 0 /\ Grant(dv, nb)
          /\ Quiet /\ UNCHANGED <<bin, top, top_size, lost, alarm>>
      BY <1>5, <2>2 DEF AllocDvExhaust, Touching
    <3> HIDE DEF nb
    <3> QED BY <3>1, <2>1, <1>0, MarkInuseTyped DEF Grant, Quiet, TypeOK
  <2>3. CASE ~Backed({dv, dv + nb})
    BY <1>5, <2>3, <1>b DEF AllocDvExhaust, Touching
  <2> QED BY <2>2, <2>3
<1>6. ASSUME NEW nb \in Nat, NEW rest \in Nat, SplitTop(nb, rest),
             footprint' \in Nat, curr_page_index' \in Nat,
             reserved' \subseteq Nat, committed' \subseteq Nat
      PROVE TypeOK'
  <2> DEFINE below == top + nb
  <2>0. top \in Nat /\ below \in Nat
    BY DEF TypeOK
  <2>a. /\ csize' = [csize EXCEPT ![top] = nb, ![below] = rest]
        /\ foot' = [foot EXCEPT ![below] = Msp]
        /\ owned' = [owned EXCEPT ![top] = nb]
        /\ pinuse' = pinuse \cup {top, below}
        /\ cinuse' = (cinuse \cup {top}) \ {below}
    BY <1>6 DEF SplitTop, SplitInuse, Grant
  <2> HIDE DEF below
  <2>b. csize' \in [Unit -> Nat]
    BY <2>0, <2>a DEF TypeOK
  <2>1. /\ foot' \in [Unit -> Nat] /\ owned' \in [Unit -> Nat]
        /\ pinuse' \subseteq Nat /\ cinuse' \subseteq Nat
    BY <2>0, <2>a, <1>0 DEF TypeOK
  <2>2. top' \in Nat /\ top_size' \in Nat
    BY <1>6 DEF SplitTop, TypeOK
  <2>3. UNCHANGED <<bin, dv, dv_size, lost, carved, astray, alarm, halt>>
    BY <1>6 DEF SplitTop
  <2> QED BY <1>6, <2>b, <2>1, <2>2, <2>3 DEF TypeOK
<1>7. ASSUME NEW r \in Nat, AllocTop(r) PROVE TypeOK'
  <2> DEFINE nb      == padRequest(r)
             past    == top + nb > curr_page_index * PageSize
             backing == IF past /\ Reserved(curr_page_index)
                        THEN committed \cup {curr_page_index} ELSE committed
  <2>1. nb \in Nat /\ top_size - nb \in Nat /\ backing \subseteq Nat
    BY <1>7, <1>a DEF AllocTop, TypeOK
  <2>2. CASE \A a \in {top, top + nb} : a \div PageSize \in backing
    <3>1. SplitTop(nb, top_size - nb) /\ committed' = backing
          /\ curr_page_index' = (IF past THEN curr_page_index + 1 ELSE curr_page_index)
          /\ UNCHANGED <<footprint, reserved>>
      BY <1>7, <2>2 DEF AllocTop
    <3>2. footprint' \in Nat /\ curr_page_index' \in Nat /\ reserved' \subseteq Nat
      BY <3>1 DEF TypeOK
    <3> HIDE DEF nb, backing
    <3> QED BY <3>1, <3>2, <2>1, <1>6
  <2>3. CASE ~(\A a \in {top, top + nb} : a \div PageSize \in backing)
    BY <1>7, <2>3, <1>b DEF AllocTop
  <2> QED BY <2>2, <2>3
<1>8. ASSUME NEW r \in Nat, AllocGrow(r) PROVE TypeOK'
  <2> DEFINE nb      == padRequest(r)
             grown   == PagesFor(nb) * PageSize
             next    == footprint \div PageSize
             backing == IF PagesFor(nb) = 1 THEN committed \cup {next} ELSE committed
  <2>1. nb \in Nat /\ grown \in Nat /\ next \in Nat /\ backing \subseteq Nat
    BY <1>a, PagesNat, DivNat DEF TypeOK
  <2>2. CASE \A a \in {top, top + nb} : a \div PageSize \in backing
    <3>1. /\ SplitTop(nb, top_size + grown - nb)
          /\ footprint' = footprint + grown
          /\ curr_page_index' = curr_page_index + 1
          /\ reserved' = reserved \cup {next}
          /\ committed' = backing
      BY <1>8, <2>2 DEF AllocGrow
    <3> HIDE DEF nb, grown, next, backing
    <3>2. footprint' \in Nat /\ curr_page_index' \in Nat /\ reserved' \subseteq Nat /\ committed' \subseteq Nat
      BY <3>1, <2>1 DEF TypeOK
    <3>3. nb =< grown
      BY <2>1, PagesNat DEF grown
    <3>4. top_size + grown - nb \in Nat
      BY <3>3, <2>1 DEF TypeOK
    <3> QED BY <3>1, <3>2, <3>4, <2>1, <1>6
  <2>3. CASE ~(\A a \in {top, top + nb} : a \div PageSize \in backing)
    BY <1>8, <2>3, <1>b DEF AllocGrow
  <2> QED BY <2>2, <2>3
<1>9. ASSUME NEW a \in live, FreeIgnored(a) PROVE TypeOK'
  BY <1>9 DEF FreeIgnored, HandBack, live, TypeOK
<1>10. ASSUME NEW a \in live, FreeDirect(a) PROVE TypeOK'
  <2>1. alarm' \in BOOLEAN
    BY <1>10 DEF FreeDirect
  <2>2. reserved' \subseteq Nat /\ committed' \subseteq Nat
    BY <1>10 DEF FreeDirect, TypeOK
  <2>3. owned' \in [Unit -> Nat] /\ lost' \subseteq Unit
    BY <1>10 DEF FreeDirect, HandBack, live, TypeOK
  <2>4. UNCHANGED <<heap, space, footprint, curr_page_index, carved, astray, halt>>
    BY <1>10 DEF FreeDirect
  <2> QED BY <2>1, <2>2, <2>3, <2>4 DEF TypeOK
<1>11. ASSUME NEW a \in live, Consolidates(a) 
       PROVE  /\ a \in Unit /\ base(a) \in Unit /\ bsize(a) \in Nat
              /\ nextChunk(a) \in Nat
              /\ owned' \in [Unit -> Nat] /\ lost' \subseteq Unit
              /\ carved' \in BOOLEAN /\ astray' \in BOOLEAN /\ halt' \in {"no", "fault", "undefined"}
  <2>1. a \in Unit
    BY DEF live
  <2>2. base(a) \in Unit
    <3>1. CASE a \in pinuse
      BY <2>1, <3>1 DEF base
    <3>2. CASE a \notin pinuse
      <4>1. base(a) = a - foot[a] /\ foot[a] \in 1 .. a
        BY <1>11, <3>2 DEF Consolidates, Reads, base
      <4> QED BY <2>1, <4>1 DEF Unit
    <3> QED BY <3>1, <3>2
  <2>3. astray' \in BOOLEAN
    BY <1>11 DEF Consolidates
  <2>4. /\ bsize(a) \in Nat /\ nextChunk(a) \in Nat /\ owned' \in [Unit -> Nat] /\ lost' \subseteq Unit
        /\ carved' \in BOOLEAN /\ halt' \in {"no", "fault", "undefined"}
    BY <1>11, <2>1, <1>0 DEF Consolidates, HandBack, bsize, nextChunk, TypeOK
  <2> QED BY <2>1, <2>2, <2>3, <2>4
<1>12. ASSUME NEW p \in Unit, NEW size \in Nat, NEW dead \in SUBSET Nat, Merge(p, size, dead)
       PROVE  csize' \in [Unit -> Nat] /\ cinuse' \subseteq Nat
  BY <1>12 DEF Merge, TypeOK
<1>13. ASSUME NEW a \in live, Consolidates(a), NEW size \in Nat, NEW dead \in SUBSET Nat,
              NEW cleared, FreeChunk(a, size, dead, cleared)
       PROVE  /\ csize' \in [Unit -> Nat] /\ foot' \in [Unit -> Nat]
              /\ pinuse' \subseteq Nat /\ cinuse' \subseteq Nat
  <2>1. base(a) \in Unit
    BY <1>11, <1>13
  <2>2. csize' \in [Unit -> Nat] /\ cinuse' \subseteq Nat
    BY <1>12, <1>13, <2>1 DEF FreeChunk
  <2>3. foot' \in [Unit -> Nat]
    BY <1>13 DEF FreeChunk, TypeOK
  <2>4. pinuse' \subseteq Nat
    BY <1>0, <1>13, <2>1 DEF FreeChunk, TypeOK
  <2> QED BY <2>2, <2>3, <2>4
<1>14. ASSUME NEW a \in live, FreePrevDv(a) PROVE TypeOK'
  <2>1. Consolidates(a) /\ {a} \in SUBSET Nat /\ FreeChunk(a, bsize(a), {a}, {nextChunk(a)})
    BY <1>14, <1>0 DEF FreePrevDv, live
  <2>2. alarm' \in BOOLEAN
    BY <1>14 DEF FreePrevDv
  <2>3. dv_size' \in Nat /\ UNCHANGED <<bin, dv, top, top_size, pages>>
    BY <1>14, <2>1, <1>11 DEF FreePrevDv
  <2> QED BY <2>1, <2>2, <2>3, <1>11, <1>13 DEF TypeOK
<1>15. ASSUME NEW a \in live, FreeNextDv(a) PROVE TypeOK'
  <2> DEFINE n    == nextChunk(a)
             size == dv_size + bsize(a)
  <2>1. Consolidates(a) /\ FreeChunk(a, size, {a, n}, {})
    BY <1>15 DEF FreeNextDv
  <2>2. size \in Nat /\ {a, n} \in SUBSET Nat
    <3>1. bsize(a) \in Nat /\ n \in Nat /\ a \in Nat /\ dv_size \in Nat
      BY <2>1, <1>11, <1>0 DEF TypeOK
    <3> QED BY <3>1
  <2>3. alarm' \in BOOLEAN
    BY <1>15 DEF FreeNextDv
  <2>4. dv' \in Nat /\ dv_size' \in Nat /\ bin' \in [Unit -> Nat]
    BY <1>15, <2>1, <2>2, <1>11, <1>0 DEF FreeNextDv, Unlink, TypeOK
  <2>5. UNCHANGED <<top, top_size, pages>>
    BY <1>15 DEF FreeNextDv
  <2> HIDE DEF n, size
  <2> QED BY <2>1, <2>2, <2>3, <2>4, <2>5, <1>11, <1>13 DEF TypeOK
<1>16. ASSUME NEW a \in live, CheckFreed(a) PROVE alarm' \in BOOLEAN
  BY <1>16 DEF CheckFreed
<1>17. ASSUME NEW a \in live, FreeNextFree(a) PROVE TypeOK'
  <2> DEFINE n    == nextChunk(a)
             size == bsize(a) + csize[n]
  <2>1. Consolidates(a) /\ FreeChunk(a, size, {a, n}, {})
    BY <1>17 DEF FreeNextFree
  <2>2. n \in Start /\ n # top /\ base(a) \in Unit
    BY <1>17, <2>1, <1>11 DEF Consolidates, Reads, FreeNextFree, FreeSuccessor
  <2>3. size \in Nat /\ {a, n} \in SUBSET Nat
    <3>1. bsize(a) \in Nat /\ n \in Nat /\ a \in Nat
      BY <2>1, <1>11, <1>0
    <3>2. csize[n] \in Nat
      BY <2>2 DEF Start, TypeOK
    <3> QED BY <3>1, <3>2
  <2>4. alarm' \in BOOLEAN
    BY <1>17, <1>16 DEF FreeNextFree
  <2>5. dv_size' \in Nat /\ UNCHANGED <<dv, top, top_size, pages>>
    BY <1>17, <2>3 DEF FreeNextFree, TypeOK
  <2>6. bin' \in [Unit -> Nat]
    <3>1. Unlink({n}) \in [Unit -> Nat]
      BY DEF Unlink, TypeOK
    <3> QED BY <1>17, <2>3, <3>1 DEF FreeNextFree
  <2> HIDE DEF n, size
  <2> QED BY <2>1, <2>3, <2>4, <2>5, <2>6, <1>11, <1>13 DEF TypeOK
<1>18. ASSUME NEW a \in live, FreeNextInuse(a) PROVE TypeOK'
  <2>1. Consolidates(a) /\ {a} \in SUBSET Nat /\ FreeChunk(a, bsize(a), {a}, {nextChunk(a)})
    BY <1>18, <1>0 DEF FreeNextInuse, live
  <2>2. alarm' \in BOOLEAN
    BY <1>18, <1>16 DEF FreeNextInuse
  <2>3. bin' \in [Unit -> Nat] /\ UNCHANGED <<dv, dv_size, top, top_size, pages>>
    BY <1>18, <2>1, <1>11 DEF FreeNextInuse, Insert, TypeOK
  <2> QED BY <2>1, <2>2, <2>3, <1>11, <1>13 DEF TypeOK
<1>19. ASSUME NEW a \in live, FreeIntoTop(a) PROVE TypeOK'
  <2> DEFINE newTop   == base(a)
             newSize  == top_size + bsize(a)
             lastPage == curr_page_index - 1
             below    == newTop < lastPage * PageSize
  <2>1. Consolidates(a) /\ Merge(newTop, newSize, {a, top})
    BY <1>19 DEF FreeIntoTop
  <2>2. newTop \in Unit /\ newSize \in Nat /\ {a, top} \in SUBSET Nat
    <3>1. bsize(a) \in Nat /\ a \in Nat /\ top_size \in Nat /\ top \in Nat
      BY <2>1, <1>11, <1>0 DEF TypeOK
    <3> QED BY <2>1, <1>11, <3>1
  <2>3. alarm' \in BOOLEAN
    BY <1>19 DEF FreeIntoTop
  <2>4. csize' \in [Unit -> Nat] /\ cinuse' \subseteq Nat
    BY <2>1, <2>2, <1>12
  <2>5. foot' \in [Unit -> Nat] /\ pinuse' \subseteq Nat
    BY <1>19, <2>2, <1>0 DEF FreeIntoTop, TypeOK
  <2>6. top' \in Nat /\ top_size' \in Nat /\ footprint' \in Nat
    BY <1>19, <2>2, <1>0 DEF FreeIntoTop, TypeOK
  <2>7. dv' \in Nat /\ dv_size' \in Nat /\ bin' \in [Unit -> Nat]
    BY <1>19, <1>0 DEF FreeIntoTop, Unlink, TypeOK
  <2>8. reserved' \subseteq Nat /\ committed' \subseteq Nat
    BY <1>19 DEF FreeIntoTop, TypeOK
  <2>9. curr_page_index' \in Nat
    <3>1. curr_page_index' = IF below THEN lastPage ELSE curr_page_index
      BY <1>19 DEF FreeIntoTop, Decommits
    <3>2. newTop \in Nat /\ curr_page_index \in Nat
      BY <2>2, <1>0 DEF TypeOK
    <3>3. lastPage \in Nat \/ ~below
      <4> SUFFICES ASSUME lastPage \notin Nat PROVE ~below
        OBVIOUS
      <4>1. lastPage = -1
        BY <3>2
      <4>2. lastPage * PageSize < 0
        BY <4>1
      <4> QED BY <4>2, <3>2
    <3> QED BY <3>1, <3>2, <3>3
  <2> QED BY <2>1, <2>3, <2>4, <2>5, <2>6, <2>7, <2>8, <2>9, <1>11 DEF TypeOK
<1>23. ASSUME NEW a \in live, FreeBroken(a) PROVE TypeOK'
  <2>1. owned' \in [Unit -> Nat] /\ lost' \subseteq Unit
    BY <1>23 DEF FreeBroken, HandBack, live, TypeOK
  <2>2. bin' \in [Unit -> Nat]
    BY <1>23 DEF FreeBroken, Unlink, TypeOK
  <2>3. astray' \in BOOLEAN /\ alarm' \in BOOLEAN
    BY <1>23 DEF FreeBroken
  <2>4. UNCHANGED <<heap, dv, dv_size, top, top_size, pages, carved, halt>>
    BY <1>23 DEF FreeBroken
  <2> QED BY <2>1, <2>2, <2>3, <2>4 DEF TypeOK
<1>20. CASE AnyAlloc
  BY <1>20, <1>a, <1>b, <1>1, <1>2, <1>3, <1>4, <1>5, <1>7, <1>8
     DEF AnyAlloc, alloc, AllocWildBin, AllocSplit, AllocDirect
<1>21. CASE Release
  BY <1>21, <1>b, <1>9, <1>10, <1>14, <1>15, <1>17, <1>18, <1>19, <1>23
     DEF Release, free, FreeUndefined, FreeFault
<1>22. CASE UNCHANGED vars
  BY <1>22 DEF TypeOK
<1> QED BY <1>20, <1>21, <1>22 DEF AnyCall

\* The first state is typed.
LEMMA InitTyped == Init => TypeOK
<1> SUFFICES ASSUME Init PROVE TypeOK
  OBVIOUS
<1> USE DEF Init
<1>1. csize \in [Unit -> Nat] /\ foot \in [Unit -> Nat] /\ bin \in [Unit -> Nat] /\ owned \in [Unit -> Nat]
  BY SizesAssumption
<1>2. InitialSize - MspSize \in Nat /\ MspSize \in Nat /\ InitialSize \in Nat
  BY SizesAssumption
<1>3. pinuse \subseteq Nat /\ cinuse \subseteq Nat /\ reserved \subseteq Nat /\ committed \subseteq Nat /\ lost \subseteq Unit
  OBVIOUS
<1> QED BY <1>1, <1>2, <1>3 DEF TypeOK

\* Every state of the program is well typed, whatever the heap went through.
THEOREM TypeCorrect == Spec => []TypeOK
<1>1. Init => TypeOK
  BY InitTyped
<1>2. TypeOK /\ [Next]_vars => TypeOK'
  BY TypeStep, NextCalls
<1> QED BY <1>1, <1>2, PTL DEF Spec

-----------------------------------------------------------------------------
(* The parts of the heap invariant, action by action *)

\* Chunks that tile do not share a successor: the next chunk of the lower one
\* is not beyond the higher one.
LEMMA NextApart ==
  ASSUME TypeOK, Tiled, NEW a \in Start \ {top}, NEW b \in Start, a < b
  PROVE  nextChunk(a) =< b /\ nextChunk(a) \in Nat /\ b \in Nat
<1>1. a \in Nat /\ b \in Nat /\ csize[a] \in Nat
  BY ArenaNat DEF TypeOK, Unit, Start
<1>2. \A u \in a + 1 .. nextChunk(a) - 1 : u \notin Start
  BY DEF Tiled
<1> QED BY <1>1, <1>2 DEF nextChunk

\* A chunk that is binned, held or dropped is not top and is longer than nothing.
LEMMA InnerChunk ==
  ASSUME TypeOK, OneHand, NEW a \in live \cup lost \cup binned
  PROVE  a \in Start \ {top} /\ a \in Unit /\ csize[a] \in Nat \ {0} /\ nextChunk(a) \in Nat
<1>1. a \in Start /\ a # top
  BY DEF OneHand
<1>2. a \in Unit /\ csize[a] > 0
  BY <1>1 DEF Start
<1>3. csize[a] \in Nat /\ Unit \subseteq Nat
  BY <1>2, ArenaNat DEF TypeOK, Unit
<1> QED BY <1>1, <1>2, <1>3 DEF nextChunk

\* Taking a binned chunk whole keeps the heap sound.
LEMMA FitKeeps ==
  ASSUME TypeOK, HeapParts, NEW p \in binned, NEW nb \in Nat, nb > 0, nb =< csize[p],
         csize' = csize, cinuse' = cinuse \cup {p},
         pinuse' = pinuse \cup {nextChunk(p)},
         foot' = [foot EXCEPT ![nextChunk(p)] = Msp],
         bin' = Unlink({p}), owned' = [owned EXCEPT ![p] = nb],
         UNCHANGED <<dv, dv_size, top, top_size, lost, footprint>>
  PROVE  HeapParts'
<1> USE DEF HeapParts
<1>0. Unit \subseteq Nat /\ csize \in [Unit -> Nat] /\ p \in Unit /\ owned \in [Unit -> Nat] /\ bin \in [Unit -> Nat]
  BY ArenaNat DEF TypeOK, Unit, binned
<1>1. Start' = Start /\ live' = live \cup {p} /\ binned' = binned \ {p}
  BY <1>0 DEF Start, live, binned, Unlink
<1>2. \A a : nextChunk(a)' = nextChunk(a)
  BY DEF nextChunk
<1>3. Tiled'
  BY <1>1, <1>2 DEF Tiled
<1>4. OneHand'
  BY <1>1 DEF OneHand
<1>5. nextChunk(p) \in live \cup lost /\ \A b \in binned : nextChunk(b) # p
  BY <1>1 DEF OneHand, Bounded
<1>6. Tags'
  <2>1. \A b \in binned \ {p} : nextChunk(b) # nextChunk(p)
    <3> SUFFICES ASSUME NEW b \in binned \ {p} PROVE nextChunk(b) # nextChunk(p)
      OBVIOUS
    <3>1. /\ b \in Start \ {top} /\ b \in Nat /\ csize[b] \in Nat \ {0} /\ p \in Start \ {top}
          /\ csize[p] \in Nat \ {0}
      BY InnerChunk, <1>0
    <3>2. CASE b < p
      BY <3>1, <3>2, <1>0, NextApart DEF nextChunk
    <3>3. CASE p < b
      BY <3>1, <3>3, <1>0, NextApart DEF nextChunk
    <3> QED BY <3>1, <3>2, <3>3, <1>0
  <2>2. \A a \in live \cup lost \cup {p} : a \in Start
    BY <1>1 DEF OneHand
  <2>3. (cinuse \cap Start)' = {0} \cup live' \cup lost'
    BY <1>1, <2>2 DEF Tags
  <2>4. nextChunk(p) \in Unit
    <3>1. nextChunk(p) \in live \cup lost
      BY DEF Bounded
    <3> QED BY <3>1, InnerChunk
  <2>5. \A a \in live' \cup lost' : nextChunk(a) \in pinuse' /\ foot'[nextChunk(a)] = Msp
    <3> SUFFICES ASSUME NEW a \in live \cup lost \cup {p}
                 PROVE  nextChunk(a) \in pinuse' /\ foot'[nextChunk(a)] = Msp
      BY <1>1
    <3>1. foot \in [Unit -> Nat]
      BY DEF TypeOK
    <3>2. CASE a = p
      BY <2>4, <3>1, <3>2
    <3>3. CASE a # p
      <4>1. nextChunk(a) \in pinuse /\ foot[nextChunk(a)] = Msp
        BY <3>3 DEF Tags
      <4> QED BY <2>4, <3>1, <4>1
    <3> QED BY <3>2, <3>3
  <2>6. \A b \in binned' : nextChunk(b) \notin pinuse' /\ foot'[nextChunk(b)] = csize[b] /\ bin'[b] = csize[b]
    <3> SUFFICES ASSUME NEW b \in binned \ {p}
                 PROVE  nextChunk(b) \notin pinuse' /\ foot'[nextChunk(b)] = csize[b] /\ bin'[b] = csize[b]
      BY <1>1
    <3>1. nextChunk(b) \notin pinuse /\ foot[nextChunk(b)] = csize[b] /\ bin[b] = csize[b] /\ b \in Unit
      BY DEF Tags, binned
    <3> QED BY <2>1, <2>4, <3>1 DEF Unlink, TypeOK
  <2> QED BY <1>1, <1>2, <2>3, <2>5, <2>6 DEF Tags
<1>7. Bounded'
  BY <1>1, <1>2, <1>5 DEF Bounded
<1>8. Granted'
  BY <1>0, <1>1 DEF Granted
<1> QED BY <1>3, <1>4, <1>6, <1>7, <1>8

\* Splitting top keeps the heap sound, whether the segment has grown or not.
LEMMA TopKeeps ==
  ASSUME TypeOK, HeapParts, NEW nb \in Nat, nb >= 2, NEW rest \in Nat, rest > 0,
         NEW q, q = top, NEW t, t = top + nb, footprint' = t + rest, footprint' =< Arena,
         csize' = [csize EXCEPT ![top] = nb, ![t] = rest],
         pinuse' = pinuse \cup {top, t}, cinuse' = (cinuse \cup {top}) \ {t},
         foot' = [foot EXCEPT ![t] = Msp],
         top' = t, top_size' = rest, owned' = [owned EXCEPT ![top] = nb],
         UNCHANGED <<bin, dv, dv_size, lost>>
  PROVE  HeapParts'
<1> USE DEF HeapParts
<1>0. /\ Unit \subseteq Nat /\ Msp \in Nat
      /\ csize \in [Unit -> Nat] /\ foot \in [Unit -> Nat] /\ bin \in [Unit -> Nat] /\ owned \in [Unit -> Nat]
      /\ MspSize \in Nat \ {0}
  <2>1. Unit \subseteq Nat /\ Msp \in Nat
    BY ArenaNat DEF Unit, Msp
  <2> QED BY <2>1, SizesAssumption DEF TypeOK
<1>1. q \in Unit /\ t \in Unit /\ q < t
  BY ArenaNat DEF Tiled, TypeOK, Unit
<1>2. t \notin Start /\ \A a \in Start : a \in Nat /\ a =< top
  BY <1>0, <1>1 DEF Tiled, Start
<1>3. Start' = Start \cup {t}
  <2>1. \A a \in Unit : csize'[a] > 0 <=> csize[a] > 0 \/ a = q \/ a = t
    BY <1>0, <1>1
  <2> QED BY <1>1, <2>1 DEF Start
<1>4. live' = live \cup {q} /\ binned' = binned
  BY <1>0, <1>1 DEF live, binned
<1>5. \A a \in Start \ {q} : csize'[a] = csize[a] /\ nextChunk(a)' = nextChunk(a)
  BY <1>0, <1>2, <1>1 DEF Start, nextChunk
<1>6. csize'[q] = nb /\ nextChunk(q)' = t
  BY <1>0, <1>1 DEF nextChunk
<1>7. \A a \in live \cup lost \cup binned \cup {0} : a \in Start \ {q, t}
  BY <1>0, <1>1, <1>2 DEF OneHand, Granted
<1>8. Tiled'
  <2>1. \A a \in Start' : a =< top'
    BY <1>1, <1>2, <1>3, <1>0
  <2>2. ASSUME NEW a \in Start PROVE nextChunk(a)' \in Start' /\ \A u \in a + 1 .. nextChunk(a)' - 1 : u \notin Start'
    <3>1. CASE a = q
      BY <3>1, <1>6, <1>3, <1>2, <1>1, <1>0
    <3>2. CASE a # q
      <4>1. nextChunk(a) \in Start /\ nextChunk(a) =< q /\ nextChunk(a) \in Nat /\ a \in Nat
        BY <3>2, <1>2 DEF Tiled
      <4>2. \A u \in a + 1 .. nextChunk(a) - 1 : u \notin Start
        BY <3>2 DEF Tiled
      <4> QED BY <3>2, <4>1, <4>2, <1>5, <1>3, <1>1, <1>0
    <3> QED BY <3>1, <3>2
  <2>3. Start' \ {top'} = Start
    BY <1>2, <1>3
  <2>4. top' + top_size' = footprint' /\ footprint' =< Arena /\ top_size' > 0
    OBVIOUS
  <2> QED BY <2>1, <2>2, <2>3, <2>4 DEF Tiled
<1>9. OneHand'
  BY <1>2, <1>3, <1>4, <1>7 DEF OneHand
<1>10. Tags'
  <2>1. (cinuse \cap Start)' = {0} \cup live' \cup lost'
    <3>1. cinuse \cap Start = {0} \cup live \cup lost
      BY DEF Tags
    <3>2. cinuse' \cap (Start \cup {t}) = (cinuse \cap Start) \cup {q}
      <4>1. q \in Start /\ q # t /\ t \notin Start
        BY <1>0, <1>1, <1>2 DEF Start
      <4> QED BY <4>1
    <3> QED BY <3>1, <3>2, <1>3, <1>4
  <2>2. \A a \in live \cup lost : nextChunk(a)' \in pinuse' /\ foot'[nextChunk(a)'] = Msp
    <3> SUFFICES ASSUME NEW a \in live \cup lost PROVE nextChunk(a)' \in pinuse' /\ foot'[nextChunk(a)'] = Msp
      OBVIOUS
    <3>1. nextChunk(a)' = nextChunk(a)
      BY <1>5, <1>7
    <3>2. nextChunk(a) \in Unit
      <4>1. nextChunk(a) \in Start
        BY <1>7 DEF Tiled
      <4> QED BY <4>1, <1>1 DEF Start
    <3>3. nextChunk(a) \in pinuse /\ foot[nextChunk(a)] = Msp
      BY DEF Tags
    <3> QED BY <3>1, <3>2, <3>3, <1>0, <1>1
  <2>3. nextChunk(q)' \in pinuse' /\ foot'[nextChunk(q)'] = Msp
    BY <1>6, <1>0, <1>1
  <2>4. \A b \in binned : nextChunk(b)' \notin pinuse' /\ foot'[nextChunk(b)'] = csize'[b] /\ bin'[b] = csize'[b]
    <3> SUFFICES ASSUME NEW b \in binned
                 PROVE  nextChunk(b)' \notin pinuse' /\ foot'[nextChunk(b)'] = csize'[b] /\ bin'[b] = csize'[b]
      OBVIOUS
    <3>1. nextChunk(b)' = nextChunk(b) /\ csize'[b] = csize[b]
      BY <1>5, <1>7
    <3>2. nextChunk(b) \in live \cup lost
      BY DEF Bounded
    <3>3. nextChunk(b) \notin {q, t} /\ nextChunk(b) \in Unit
      BY <3>2, <1>7, <1>1 DEF Start
    <3> QED BY <3>1, <3>3, <1>0 DEF Tags
  <2> QED BY <2>1, <2>2, <2>3, <2>4, <1>4 DEF Tags
<1>11. Bounded'
  BY <1>4, <1>5, <1>7 DEF Bounded
<1>12. Granted'
  <2>1. dv_size' = 0 /\ csize'[0] = MspSize /\ MspSize =< top'
    <3>1. dv_size = 0 /\ csize[0] = MspSize /\ MspSize =< q
      BY DEF Granted
    <3>2. 0 \in Start \ {q}
      BY <1>7
    <3>3. csize'[0] = csize[0]
      BY <3>2, <1>5
    <3> QED BY <3>1, <3>3, <1>0, <1>1
  <2>2. ASSUME NEW a \in live PROVE owned'[a] =< csize'[a]
    BY <1>0, <1>1, <1>5, <1>7 DEF Granted, live
  <2>3. owned'[q] =< csize'[q]
    BY <1>0, <1>1, <1>6
  <2> QED BY <2>1, <2>2, <2>3, <1>4 DEF Granted
<1> QED BY <1>8, <1>9, <1>10, <1>11, <1>12

\* A block above segment_threshold is only dropped.
LEMMA DropKeeps ==
  ASSUME TypeOK, HeapParts, NEW a \in live, owned' = [owned EXCEPT ![a] = 0], lost' = lost \cup {a},
         UNCHANGED <<csize, pinuse, cinuse, foot, bin, dv, dv_size, top, top_size, footprint>>
  PROVE  HeapParts'
<1> USE DEF HeapParts
<1>1. Start' = Start /\ binned' = binned /\ \A c : nextChunk(c)' = nextChunk(c)
  BY DEF Start, binned, nextChunk
<1>2. live' = live \ {a} /\ live' \cup lost' = live \cup lost
  BY DEF live, TypeOK
<1>3. Tiled'
  BY <1>1 DEF Tiled
<1>4. OneHand'
  BY <1>1, <1>2 DEF OneHand
<1>5. Tags'
  BY <1>1, <1>2 DEF Tags
<1>6. Bounded'
  BY <1>1, <1>2 DEF Bounded
<1>7. Granted'
  BY <1>2 DEF Granted, live, TypeOK
<1> QED BY <1>3, <1>4, <1>5, <1>6, <1>7

\* The chunks of a merge: the boundaries in dead are gone, p spans them all.
LEMMA MergeTiles ==
  ASSUME TypeOK, Tiled, NEW p \in Start \ {top}, NEW size \in Nat \ {0}, NEW e, e = p + size,
         e \in Start, NEW dead \in SUBSET (p .. e - 1),
         \A u \in Start : u =< p \/ u \in dead \/ u >= e,
         Merge(p, size, dead), UNCHANGED <<top, top_size, footprint>>
  PROVE  /\ Tiled' /\ Start' = (Start \ dead) \cup {p}
         /\ csize'[p] = size /\ nextChunk(p)' = e
         /\ \A x \in Start' \ {p} : x \in Start /\ csize'[x] = csize[x] /\ nextChunk(x)' = nextChunk(x)
<1>0. /\ p \in Unit /\ p \in Nat /\ csize \in [Unit -> Nat] /\ Unit \subseteq Nat /\ e \in Nat /\ top \in Nat
      /\ \A u \in Start : u \in Nat
  BY ArenaNat DEF TypeOK, Unit, Start
<1>1. csize' = [u \in Unit |-> IF u = p THEN size ELSE IF u \in dead THEN 0 ELSE csize[u]]
  BY DEF Merge
<1>2. top \notin dead /\ e =< top
  BY <1>0 DEF Tiled
<1>3. Start' = (Start \ dead) \cup {p}
  BY <1>0, <1>1, <1>2 DEF Start
<1>4. csize'[p] = size /\ nextChunk(p)' = e
  BY <1>0, <1>1 DEF nextChunk
<1>5. \A x \in Start : x \in Unit
  <2>1. top + top_size = footprint /\ footprint =< Arena /\ top_size > 0
    BY DEF Tiled
  <2>2. top_size \in Nat /\ footprint \in Nat
    BY DEF TypeOK
  <2>3. top \in Unit
    BY <1>0, <2>1, <2>2, ArenaNat DEF Unit
  <2> QED BY <2>3 DEF Start
<1>6. \A x \in Start' \ {p} : x \in Start /\ csize'[x] = csize[x] /\ nextChunk(x)' = nextChunk(x)
  <2> SUFFICES ASSUME NEW x \in Start' \ {p} PROVE x \in Start /\ csize'[x] = csize[x] /\ nextChunk(x)' = nextChunk(x)
    OBVIOUS
  <2>1. x \in Start /\ x \notin dead /\ x # p
    BY <1>3
  <2>2. x \in Unit
    BY <1>5, <2>1
  <2>3. csize'[x] = csize[x]
    BY <1>1, <2>1, <2>2
  <2> QED BY <2>1, <2>3 DEF nextChunk
<1>d. \A u \in dead : u \in Nat /\ p =< u /\ u < e
  BY <1>0
<1>7. Tiled'
  <2>1. \A x \in Start' : x =< top'
    BY <1>3 DEF Tiled
  <2>2. ASSUME NEW x \in Start' \ {top}
        PROVE  nextChunk(x)' \in Start' /\ \A u \in x + 1 .. nextChunk(x)' - 1 : u \notin Start'
    <3>1. CASE x = p
      <4>1. e \in Start'
        BY <1>0, <1>3
      <4>2. \A u \in p + 1 .. e - 1 : u \notin Start'
        BY <1>0, <1>3
      <4> QED BY <3>1, <4>1, <4>2, <1>4
    <3>2. CASE x # p
      <4>1. x \in Start \ {top} /\ x \notin dead /\ nextChunk(x)' = nextChunk(x) /\ x \in Nat
        BY <3>2, <1>3, <1>6, <1>0
      <4>2. nextChunk(x) \in Start /\ \A u \in x + 1 .. nextChunk(x) - 1 : u \notin Start
        BY <4>1 DEF Tiled
      <4>3. CASE x < p
        <5>1. nextChunk(x) =< p
          BY <4>1, <4>3, NextApart
        <5> DEFINE y == nextChunk(x)
        <5>a. y \in Start /\ y \in Nat /\ y =< p
          BY <5>1, <4>2, <1>0
        <5> HIDE DEF y
        <5>2. y \in Start'
          BY <5>a, <1>0, <1>3, <1>d
        <5> QED BY <5>2, <4>1, <4>2, <1>3, <1>0 DEF y
      <4>4. CASE x >= e
        <5>1. nextChunk(x) > x
          BY <4>1, <1>0 DEF nextChunk, Start
        <5> DEFINE y == nextChunk(x)
        <5>b. y \in Start /\ y > x
          BY <5>1, <4>2
        <5> HIDE DEF y
        <5>a. y \in Nat /\ y > e
          BY <5>b, <4>1, <4>4, <1>0
        <5>2. y \in Start'
          BY <5>a, <5>b, <1>0, <1>3, <1>d
        <5> QED BY <5>2, <4>1, <4>2, <1>3, <1>0 DEF y
      <4> QED BY <3>2, <4>1, <4>3, <4>4, <1>0
    <3> QED BY <3>1, <3>2
  <2> QED BY <2>1, <2>2 DEF Tiled
<1> QED BY <1>3, <1>4, <1>6, <1>7

\* A freed chunk that takes its place between held neighbours keeps the heap
\* sound: dead are the boundaries it swallows, e is the chunk that follows.
LEMMA ConsolidateKeeps ==
  ASSUME TypeOK, HeapParts, NEW a \in live, NEW p \in {a} \cup binned, NEW size \in Nat \ {0},
         NEW e \in live \cup lost, e = p + size,
         NEW dead \in SUBSET (p .. e - 1), a \in dead, dead \subseteq {a} \cup binned,
         \A u \in Start : u =< p \/ u \in dead \/ u >= e,
         \A b \in binned \ (dead \cup {p}) : nextChunk(b) \notin {a, p, e},
         \A x \in (live \cup lost) \ {a} : nextChunk(x) \notin (dead \ {p}) \cup {e},
         Merge(p, size, dead), pinuse' = ((pinuse \ dead) \cup {p}) \ {e},
         foot' = [u \in Unit |-> IF u = e THEN size ELSE IF u \in dead \ {p} THEN 0 ELSE foot[u]],
         bin' = [u \in Unit |-> IF u = p THEN size ELSE IF u \in dead THEN 0 ELSE bin[u]],
         owned' = [owned EXCEPT ![a] = 0],
         UNCHANGED <<dv_size, top, top_size, lost, footprint>>
  PROVE  HeapParts'
<1> USE DEF HeapParts
<1>0. /\ Unit \subseteq Nat /\ owned \in [Unit -> Nat] /\ bin \in [Unit -> Nat] /\ foot \in [Unit -> Nat]
  <2>1. Unit \subseteq Nat
    BY ArenaNat DEF Unit
  <2> QED BY <2>1 DEF TypeOK
<1>1. \A x \in live \cup lost \cup binned : x \in Start \ {top} /\ x \in Unit /\ x # 0
  BY InnerChunk DEF OneHand
<1>2. p \in Start \ {top} /\ e \in Start /\ p \in Unit /\ e \in Unit /\ p # 0 /\ p # e /\ a # e
  BY <1>0, <1>1
<1>3. /\ Tiled' /\ Start' = (Start \ dead) \cup {p} /\ csize'[p] = size /\ nextChunk(p)' = e
      /\ \A x \in Start' \ {p} : x \in Start /\ csize'[x] = csize[x] /\ nextChunk(x)' = nextChunk(x)
  BY <1>2, MergeTiles
<1>4. live' = live \ {a}
  BY <1>0 DEF live
<1>5. binned' = (binned \ dead) \cup {p}
  BY <1>0, <1>2 DEF binned
<1>6. (live' \cup lost') \cap (dead \cup {p}) = {} /\ p \notin lost /\ e \in live' \cup lost'
  <2>1. live \cap lost = {} /\ live \cap binned = {} /\ lost \cap binned = {}
    BY DEF OneHand
  <2>2. \A x \in dead \cup {p} : x = a \/ x \in binned
    OBVIOUS
  <2>3. lost' = lost
    OBVIOUS
  <2>4. \A x \in live' \cup lost' : x # a /\ x \notin binned
    BY <2>1, <2>3, <1>4
  <2>5. p \notin lost
    BY <2>1
  <2>6. e \in live' \cup lost'
    BY <2>3, <1>2, <1>4
  <2> QED BY <2>2, <2>4, <2>5, <2>6, Zenon
<1>7. OneHand'
  <2>1. Start = {0, top} \cup live \cup lost \cup binned /\ 0 \notin dead /\ top \notin dead
    BY <1>1, <1>0 DEF OneHand
  <2>2. Start' = {0, top} \cup live' \cup lost \cup binned'
    BY <2>1, <1>2, <1>3, <1>4, <1>5, <1>6
  <2>3. live' \cap binned' = {} /\ lost \cap binned' = {} /\ live' \cap lost = {}
    BY <1>4, <1>5, <1>6 DEF OneHand
  <2>4. {0, top} \cap (live' \cup lost \cup binned') = {}
    BY <1>2, <1>4, <1>5 DEF OneHand
  <2>5. lost' = lost /\ top' = top
    OBVIOUS
  <2> QED BY <2>2, <2>3, <2>4, <2>5 DEF OneHand
<1>8. cinuse' = cinuse \ (dead \cup {p})
  BY DEF Merge
<1>9. Tags'
  <2>1. (cinuse \cap Start)' = {0} \cup live' \cup lost'
    BY <1>1, <1>2, <1>3, <1>4, <1>6, <1>8 DEF Tags, OneHand
  <2>2. ASSUME NEW x \in live' \cup lost'
        PROVE  nextChunk(x)' \in pinuse' /\ foot'[nextChunk(x)'] = Msp
    <3>1. x \in (live \cup lost) \ {a} /\ x \in Start' \ {p}
      BY <1>1, <1>3, <1>4, <1>6
    <3>2. nextChunk(x)' = nextChunk(x) /\ nextChunk(x) \notin (dead \ {p}) \cup {e}
      BY <3>1, <1>3
    <3>3. nextChunk(x) \in pinuse /\ foot[nextChunk(x)] = Msp
      BY <3>1 DEF Tags
    <3>4. nextChunk(x) \in Unit
      <4>1. nextChunk(x) \in Start
        BY <3>1, <1>1 DEF Tiled
      <4>2. nextChunk(x) \in Unit \/ nextChunk(x) = top
        BY <4>1 DEF Start
      <4>3. top \in Unit
        BY ArenaNat DEF Tiled, TypeOK, Unit
      <4> QED BY <4>2, <4>3
    <3> QED BY <3>2, <3>3, <3>4
  <2>3. nextChunk(p)' \notin pinuse' /\ foot'[nextChunk(p)'] = csize'[p] /\ bin'[p] = csize'[p]
    BY <1>2, <1>3
  <2>4. ASSUME NEW b \in binned \ (dead \cup {p})
        PROVE  nextChunk(b)' \notin pinuse' /\ foot'[nextChunk(b)'] = csize'[b] /\ bin'[b] = csize'[b]
    <3>1. nextChunk(b)' = nextChunk(b) /\ csize'[b] = csize[b] /\ nextChunk(b) \notin {a, p, e}
      BY <1>1, <1>3
    <3>2. nextChunk(b) \notin pinuse /\ foot[nextChunk(b)] = csize[b] /\ bin[b] = csize[b]
      BY DEF Tags
    <3>3. nextChunk(b) \in live \cup lost
      BY DEF Bounded
    <3>4. nextChunk(b) \in Unit /\ nextChunk(b) \notin dead /\ b \in Unit
      BY <3>1, <3>3, <1>1 DEF OneHand
    <3> QED BY <3>1, <3>2, <3>4
  <2> QED BY <1>5, <2>1, <2>2, <2>3, <2>4 DEF Tags
<1>10. Bounded'
  <2>1. ASSUME NEW b \in binned \ (dead \cup {p}) PROVE nextChunk(b)' \in live' \cup lost'
    <3>1. nextChunk(b)' = nextChunk(b) /\ nextChunk(b) # a
      BY <1>1, <1>3
    <3>2. nextChunk(b) \in live \cup lost /\ lost' = lost
      BY DEF Bounded
    <3> QED BY <3>1, <3>2, <1>4
  <2> QED BY <1>3, <1>5, <1>6, <2>1 DEF Bounded
<1>11. Granted'
  <2>1. 0 \in Start' \ {p}
    BY <1>2, <1>3, <1>0 DEF OneHand
  <2>2. csize'[0] = csize[0]
    BY <2>1, <1>3
  <2>3. ASSUME NEW x \in live' PROVE owned'[x] =< csize'[x]
    <3>1. x \in live \ {a} /\ x \in Start' \ {p} /\ x \in Unit
      BY <1>1, <1>3, <1>4, <1>6
    <3>2. csize'[x] = csize[x] /\ owned'[x] = owned[x]
      BY <3>1, <1>0, <1>3
    <3> QED BY <3>1, <3>2 DEF Granted
  <2> QED BY <2>2, <2>3 DEF Granted
<1> QED BY <1>3, <1>7, <1>9, <1>10, <1>11

\* No two chunks have the same successor.
LEMMA SuccessorUnique ==
  ASSUME TypeOK, HeapParts, NEW x \in live \cup lost \cup binned, NEW y \in live \cup lost \cup binned,
         nextChunk(x) = nextChunk(y)
  PROVE  x = y
<1>1. /\ x \in Start \ {top} /\ x \in Unit /\ csize[x] \in Nat \ {0} /\ nextChunk(x) \in Nat
      /\ y \in Start \ {top} /\ y \in Unit /\ csize[y] \in Nat \ {0}
  BY InnerChunk DEF HeapParts
<1>2. nextChunk(x) > x /\ nextChunk(y) > y /\ x \in Nat /\ y \in Nat
  BY <1>1, ArenaNat DEF nextChunk, Unit
<1>3. x < y => nextChunk(x) =< y
  BY <1>1, NextApart DEF HeapParts
<1>4. y < x => nextChunk(y) =< x
  BY <1>1, NextApart DEF HeapParts
<1> QED BY <1>1, <1>2, <1>3, <1>4

\* A set of natural numbers that is not empty has a least element.
LEMMA LeastNatural ==
  ASSUME NEW T \in SUBSET Nat, T # {}
  PROVE  \E x \in T : \A y \in T : x =< y
<1> DEFINE R == OpToRel(<, Nat)
<1>1. IsWellFoundedOn(R, Nat)
  BY NatLessThanWellFounded, Zenon
<1>2. \A x, y \in Nat : x < y => <<x, y>> \in R
  BY Zenon DEF OpToRel
<1> HIDE DEF R
<1>3. PICK x \in T : \A y \in T : ~ (<<y, x>> \in R)
  BY <1>1, WFMin
<1>4. \A y \in T : ~(y < x)
  BY <1>2, <1>3
<1> QED BY <1>4

\* Chunks that tile have a predecessor each, but for the first.
LEMMA Predecessor ==
  ASSUME TypeOK, HeapParts, NEW a \in Start, a # 0
  PROVE  \E x \in Start \ {top} : nextChunk(x) = a
<1>0. /\ \A u \in Start : u \in Nat
      /\ 0 \in Start /\ Tiled
  <2>1. \A u \in Start : u \in Nat
    BY ArenaNat DEF TypeOK, Unit, Start
  <2>2. 0 \in Start /\ Tiled
    BY DEF HeapParts, OneHand
  <2> QED BY <2>1, <2>2
<1>1. a \in Nat \ {0}
  BY <1>0
<1> DEFINE D == {d \in Nat : d > 0 /\ a - d \in Start}
<1>2. a \in D
  BY <1>0, <1>1
<1>3. PICK d \in D : \A y \in D : d =< y
  <2>1. D \in SUBSET Nat /\ D # {}
    BY <1>2
  <2> HIDE DEF D
  <2> QED BY <2>1, LeastNatural
<1> DEFINE x == a - d
<1>4. x \in Start /\ x \in Nat /\ x < a /\ \A u \in Start : u < a => u =< x
  <2>1. d \in Nat /\ d > 0 /\ x \in Start /\ x \in Nat
    BY <1>0, <1>3
  <2>2. ASSUME NEW u \in Start, u < a PROVE u =< x
    <3>1. u \in Nat /\ a - u \in Nat /\ a - u > 0 /\ a - (a - u) = u
      BY <1>0, <1>1, <2>2
    <3>2. a - u \in D
      BY <3>1
    <3>3. d =< a - u
      BY <1>3, <3>2
    <3> QED BY <1>1, <2>1, <3>1, <3>3
  <2> QED BY <1>1, <2>1, <2>2
<1> HIDE DEF x, D
<1>5. x # top /\ a =< top
  BY <1>0, <1>1, <1>4 DEF Tiled, TypeOK
<1>6. nextChunk(x) \in Start /\ nextChunk(x) =< a /\ nextChunk(x) > x
  <2>1. nextChunk(x) \in Start /\ nextChunk(x) =< a
    BY <1>0, <1>4, <1>5, NextApart DEF Tiled
  <2>2. csize[x] \in Nat \ {0}
    BY <1>4, <1>5 DEF Start, TypeOK
  <2> QED BY <1>4, <2>1, <2>2 DEF nextChunk
<1>7. nextChunk(x) = a
  <2> DEFINE y == nextChunk(x)
  <2>1. y \in Start /\ y =< a /\ y > x /\ y \in Nat
    BY <1>0, <1>6
  <2> HIDE DEF y
  <2>2. ~(y < a)
    BY <1>4, <2>1
  <2>3. y = a
    BY <1>1, <2>1, <2>2
  <2> QED BY <2>3 DEF y
<1> QED BY <1>4, <1>5, <1>7

\* The first chunk behind the struct has its PINUSE bit set from the moment it
\* has a head.
FirstTagged == top = MspSize \/ MspSize \in pinuse
Calm == Healthy => FirstTagged /\ ~alarm

\* prev_foot of a block whose PINUSE bit is clear leads to a binned chunk.
LEMMA FreeInFront ==
  ASSUME TypeOK, HeapParts, FirstTagged, NEW a \in live, a \notin pinuse
  PROVE  a - foot[a] \in binned /\ csize[a - foot[a]] = foot[a]
<1>1. a \in Start /\ a # 0 /\ a # top /\ a \in Nat
  BY InnerChunk, ArenaNat DEF HeapParts, OneHand, Unit
<1>2. PICK x \in Start \ {top} : nextChunk(x) = a
  BY <1>1, Predecessor
<1>3. x \notin live \cup lost
  BY <1>2 DEF HeapParts, Tags
<1>4. x # 0
  BY <1>1, <1>2, SizesAssumption DEF HeapParts, Granted, FirstTagged, nextChunk
<1>5. x \in binned
  BY <1>2, <1>3, <1>4 DEF HeapParts, OneHand
<1>6. foot[a] = csize[x] /\ a = x + csize[x]
  BY <1>2, <1>5 DEF HeapParts, Tags, nextChunk
<1>7. x \in Nat /\ csize[x] \in Nat
  BY <1>5, InnerChunk, ArenaNat DEF HeapParts, Unit
<1>8. a - foot[a] = x
  BY <1>6, <1>7
<1> QED BY <1>5, <1>6, <1>8

\* On a healthy heap free finds its neighbours where it looks for them.
LEMMA FreeIsLed ==
  ASSUME TypeOK, HeapParts, FirstTagged, NEW a \in live
  PROVE  Sound(a) /\ nextChunk(a) \in pinuse
<1> DEFINE n == nextChunk(a)
<1>1. a \in Start \ {top} /\ csize[a] \in Nat \ {0} /\ a \in Nat /\ a \in Unit
  BY InnerChunk, ArenaNat DEF HeapParts, OneHand, Unit
<1>2. n \in Start /\ n \in pinuse
  BY <1>1 DEF HeapParts, Tiled, Tags
<1>3. ASSUME a \notin pinuse
      PROVE  foot[a] \in 1 .. a /\ Linked(a - foot[a], foot[a])
  <2>1. a - foot[a] \in binned /\ csize[a - foot[a]] = foot[a]
    BY <1>3, FreeInFront
  <2>2. a - foot[a] \in Nat /\ bin[a - foot[a]] = foot[a] /\ bin[a - foot[a]] > 0 /\ a - foot[a] \in Unit
    BY <2>1, ArenaNat DEF HeapParts, Tags, binned, Unit
  <2>3. foot[a] \in Nat
    BY <1>1 DEF TypeOK
  <2> QED BY <1>1, <2>2, <2>3 DEF Linked
<1>4. ASSUME n \notin cinuse, n # top PROVE Linked(n, csize[n])
  <2> HIDE DEF n
  <2>1. n \in binned
    BY <1>2, <1>4 DEF HeapParts, OneHand, Tags
  <2> QED BY <2>1 DEF HeapParts, Tags, binned, Linked
<1>5. Reads(a)
  BY <1>1, <1>2, <1>3 DEF Reads
<1> QED BY <1>2, <1>3, <1>4, <1>5 DEF Sound

\* A held block is in no bin, so that only the chunk in front of it is unlinked.
LEMMA PrevUnlinked ==
  ASSUME TypeOK, NEW a \in live, a \notin binned
  PROVE  Unlink(Prev(a)) = Unlink({base(a)})
<1>1. a \in Unit /\ bin[a] = 0
  BY DEF live, binned, TypeOK
<1>2. CASE a \in pinuse
  <2>1. Prev(a) = {} /\ base(a) = a
    BY <1>2 DEF Prev, base
  <2> QED BY <1>1, <2>1 DEF Unlink
<1>3. CASE a \notin pinuse
  BY <1>3 DEF Prev
<1> QED BY <1>2, <1>3

\* What free finds around the block it is given: base(a) is the block or the
\* binned chunk in front of it, and nothing else borders on either.
LEMMA FreedBlock ==
  ASSUME TypeOK, HeapParts, NEW a \in live, Sound(a)
  PROVE  /\ base(a) \in {a} \cup binned /\ base(a) \in Unit /\ base(a) =< a /\ base(a) # 0
         /\ nextChunk(a) \in Start /\ nextChunk(a) > a /\ nextChunk(a) \in Nat
         /\ bsize(a) \in Nat \ {0} /\ base(a) + bsize(a) = nextChunk(a)
         /\ \A u \in Start : u =< base(a) \/ u = a \/ u >= nextChunk(a)
         /\ \A x \in binned \ {base(a)} : nextChunk(x) \notin {a, base(a)}
         /\ base(a) # a => \A x \in live \cup lost : nextChunk(x) # a
<1> USE DEF HeapParts
<1> DEFINE p == base(a)
           n == nextChunk(a)
<1>0. Unit \subseteq Nat /\ csize \in [Unit -> Nat] /\ foot \in [Unit -> Nat] /\ bin \in [Unit -> Nat]
  <2>1. Unit \subseteq Nat
    BY ArenaNat DEF Unit
  <2> QED BY <2>1 DEF TypeOK
<1>1. \A x \in live \cup lost \cup binned : x \in Start \ {top} /\ x \in Unit /\ x # 0 /\ csize[x] \in Nat \ {0} /\ nextChunk(x) \in Nat
  BY InnerChunk DEF OneHand
<1>2. n \in Start /\ n > a /\ n = a + csize[a] /\ n \in Nat
  <2>1. n \in Start
    BY DEF Sound, Reads
  <2>2. n = a + csize[a]
    BY DEF nextChunk
  <2>3. a \in Nat /\ csize[a] \in Nat \ {0}
    BY <1>0, <1>1
  <2> HIDE DEF n
  <2> QED BY <2>1, <2>2, <2>3
<1>3. a \notin pinuse => /\ p \in binned /\ foot[a] = csize[p] /\ nextChunk(p) = a /\ p = a - foot[a]
  <2> SUFFICES ASSUME a \notin pinuse
               PROVE p \in binned /\ foot[a] = csize[p] /\ nextChunk(p) = a /\ p = a - foot[a]
    OBVIOUS
  <2>1. p = a - foot[a]
    BY DEF base
  <2>2. Linked(p, foot[a])
    BY <2>1 DEF Sound, isDv, Granted
  <2>3. p \in binned /\ bin[p] = foot[a]
    BY <2>2 DEF Linked, binned
  <2>4. csize[p] = foot[a]
    BY <2>3 DEF Tags
  <2> HIDE DEF p
  <2>5. p + csize[p] = a
    <3>1. a \in Nat /\ foot[a] \in Nat
      BY <1>0, <1>1
    <3>2. (a - foot[a]) + foot[a] = a
      BY <3>1
    <3> QED BY <3>2, <2>1, <2>4
  <2> QED BY <2>1, <2>3, <2>4, <2>5 DEF nextChunk
<1>4. a \in pinuse => p = a /\ bsize(a) = csize[a]
  BY DEF base, bsize
<1>5. p \in {a} \cup binned /\ p \in Unit /\ p # 0
  BY <1>1, <1>3, <1>4
<1>6. p =< a /\ bsize(a) \in Nat \ {0} /\ p + bsize(a) = n
  <2>1. CASE a \in pinuse
    <3>1. p = a /\ bsize(a) = csize[a] /\ csize[a] \in Nat \ {0} /\ a \in Nat
      BY <2>1, <1>4, <1>0, <1>1
    <3> HIDE DEF p, n
    <3> QED BY <3>1, <1>2
  <2>2. CASE a \notin pinuse
    <3>1. bsize(a) = csize[a] + foot[a] /\ p = a - foot[a] /\ p \in Unit
      BY <2>2, <1>3, <1>5 DEF bsize
    <3> HIDE DEF p, n
    <3>2. csize[a] \in Nat \ {0} /\ foot[a] \in Nat /\ a \in Nat
      BY <1>0, <1>1
    <3> QED BY <3>1, <3>2, <1>2
  <2> QED BY <2>1, <2>2
<1>7. \A u \in Start : u =< p \/ u = a \/ u >= n
  <2> SUFFICES ASSUME NEW u \in Start PROVE u =< p \/ u = a \/ u >= n
    OBVIOUS
  <2>0. u \in Nat /\ a \in Nat /\ p \in Nat
    BY <1>0, <1>1, <1>5 DEF Start, TypeOK
  <2>1. u > a => u >= n
    BY <1>1, <1>2, NextApart
  <2>2. p # a /\ u > p => u >= a
    <3> SUFFICES ASSUME p # a, u > p PROVE u >= a
      OBVIOUS
    <3>1. p \in Start \ {top} /\ nextChunk(p) = a
      BY <1>1, <1>3, <1>4, <1>5
    <3> HIDE DEF p
    <3> QED BY <3>1, <2>0, NextApart
  <2> HIDE DEF p, n
  <2> QED BY <2>0, <2>1, <2>2, <1>2
<1>9. p # a => \A x \in live \cup lost \cup (binned \ {p}) : nextChunk(x) # a
  <2> SUFFICES ASSUME p # a, NEW x \in live \cup lost \cup (binned \ {p}), nextChunk(x) = a PROVE FALSE
    OBVIOUS
  <2>1. p \in binned /\ nextChunk(p) = a
    BY <1>3, <1>4
  <2>2. x = p
    BY <2>1, SuccessorUnique
  <2> QED BY <2>1, <2>2 DEF OneHand
<1>10. \A x \in binned \ {p} : nextChunk(x) \notin {a, p}
  <2> SUFFICES ASSUME NEW x \in binned \ {p} PROVE nextChunk(x) # a /\ nextChunk(x) # p
    OBVIOUS
  <2>1. nextChunk(x) \notin pinuse /\ nextChunk(x) \in live \cup lost
    BY DEF Tags, Bounded
  <2>2. nextChunk(x) # a
    <3>1. CASE p # a
      BY <3>1, <1>9
    <3>2. CASE p = a
      BY <2>1, <3>2, <1>3 DEF OneHand
    <3> QED BY <3>1, <3>2
  <2>3. p # a => nextChunk(x) # p
    BY <2>1, <1>5 DEF OneHand
  <2> QED BY <2>2, <2>3
<1> QED BY <1>2, <1>5, <1>6, <1>7, <1>9, <1>10

\* The successor is held: the block is consolidated backwards and binned.
LEMMA NextInuseKeeps ==
  ASSUME TypeOK, HeapParts, NEW a \in live, Sound(a), FreeNextInuse(a)
  PROVE  HeapParts'
<1>1. Sound(a) /\ nextChunk(a) \in pinuse \cap cinuse
  BY DEF FreeNextInuse, Consolidates, HeldSuccessor
<1> DEFINE p == base(a)
           e == nextChunk(a)
           size == bsize(a)
           dead == {a}
<1>2. /\ p \in {a} \cup binned /\ p \in Unit /\ p =< a /\ p # 0
      /\ e \in Start /\ e > a /\ e \in Nat /\ size \in Nat \ {0} /\ p + size = e
      /\ \A u \in Start : u =< p \/ u = a \/ u >= e
      /\ \A x \in binned \ {p} : nextChunk(x) \notin {a, p}
      /\ p # a => \A x \in live \cup lost : nextChunk(x) # a
  BY <1>1, FreedBlock
<1>3. /\ Merge(p, size, dead) /\ owned' = [owned EXCEPT ![a] = 0]
      /\ pinuse' = ((pinuse \ dead) \cup {p}) \ {e}
      /\ foot' = [u \in Unit |-> IF u = p + size THEN size ELSE IF u \in {a} \ {p} THEN 0 ELSE foot[u]]
      /\ bin' = [bin EXCEPT ![p] = size]
      /\ UNCHANGED <<dv_size, top, top_size, lost, footprint>>
  <2>1. FreeChunk(a, size, {a}, {e}) /\ bin' = [bin EXCEPT ![p] = size]
    BY DEF FreeNextInuse, Insert
  <2>2. UNCHANGED <<dv_size, top, top_size, footprint>>
    BY DEF FreeNextInuse, pages
  <2>3. owned' = [owned EXCEPT ![a] = 0] /\ lost' = lost
    BY DEF FreeNextInuse, Consolidates, HandBack
  <2> QED BY <2>1, <2>2, <2>3 DEF FreeChunk
<1>4. \A x \in live \cup lost \cup binned : x \in Start \ {top} /\ x \in Unit /\ csize[x] \in Nat \ {0} /\ nextChunk(x) \in Nat /\ x \in Nat
  BY InnerChunk, ArenaNat DEF HeapParts, Unit
<1>5. e \in live \cup lost
  <2>1. e \in {0} \cup live \cup lost
    BY <1>1, <1>2 DEF HeapParts, Tags
  <2>2. a \in Nat
    BY <1>4
  <2> HIDE DEF e
  <2> QED BY <2>1, <2>2, <1>2
<1>6. \A x \in (live \cup lost \cup binned) \ {a} : nextChunk(x) = e => x \in binned /\ x = p
  BY SuccessorUnique
<1>7. bin' = [u \in Unit |-> IF u = p THEN size ELSE IF u \in dead THEN 0 ELSE bin[u]]
  <2>1. a \notin binned /\ a \in Unit /\ bin \in [Unit -> Nat]
    BY <1>4 DEF HeapParts, OneHand, TypeOK
  <2>2. bin[a] = 0
    BY <2>1 DEF binned
  <2> QED BY <2>1, <2>2, <1>2, <1>3
<1>8. dead \in SUBSET (p .. e - 1)
  <2>1. a \in Nat /\ p \in Nat
    BY <1>2, <1>4, ArenaNat DEF Unit
  <2> HIDE DEF p, e
  <2> QED BY <1>2, <2>1
<1>9. \A x \in binned \ (dead \cup {p}) : nextChunk(x) \notin {a, p, e}
  BY <1>2, <1>6
<1>10. \A x \in (live \cup lost) \ {a} : nextChunk(x) \notin (dead \ {p}) \cup {e}
  BY <1>2, <1>6 DEF HeapParts, OneHand
<1>11. foot' = [u \in Unit |-> IF u = e THEN size ELSE IF u \in dead \ {p} THEN 0 ELSE foot[u]]
  BY <1>2, <1>3
<1>12. /\ a \in dead /\ dead \subseteq {a} \cup binned /\ e = p + size
       /\ \A u \in Start : u =< p \/ u \in dead \/ u >= e
  BY <1>2
<1> HIDE DEF p, e, size, dead
<1> QED BY <1>2, <1>3, <1>5, <1>7, <1>8, <1>9, <1>10, <1>11, <1>12, ConsolidateKeeps

\* The successor is a binned chunk: the block, and the chunks on either side,
\* become one.
LEMMA NextFreeKeeps ==
  ASSUME TypeOK, HeapParts, NEW a \in live, Sound(a), FreeNextFree(a)
  PROVE  HeapParts'
<1> DEFINE p == base(a)
           n == nextChunk(a)
           e == nextChunk(n)
           size == bsize(a) + csize[n]
           dead == {a, n}
<1>1. Sound(a) /\ n \in pinuse \ cinuse /\ n # top /\ ~isDv(p)
  <2>1. ~isDv(p)
    BY DEF isDv, HeapParts, Granted
  <2> QED BY <2>1 DEF FreeNextFree, Consolidates, FreeSuccessor
<1>2. /\ p \in {a} \cup binned /\ p \in Unit /\ p =< a /\ p # 0
      /\ n \in Start /\ n > a /\ n \in Nat /\ bsize(a) \in Nat \ {0} /\ p + bsize(a) = n
      /\ \A u \in Start : u =< p \/ u = a \/ u >= n
      /\ \A x \in binned \ {p} : nextChunk(x) \notin {a, p}
      /\ p # a => \A x \in live \cup lost : nextChunk(x) # a
  BY <1>1, FreedBlock
<1>3. /\ Merge(p, size, dead) /\ owned' = [owned EXCEPT ![a] = 0]
      /\ pinuse' = ((pinuse \ dead) \cup {p}) \ {}
      /\ foot' = [u \in Unit |-> IF u = p + size THEN size ELSE IF u \in dead \ {p} THEN 0 ELSE foot[u]]
      /\ bin' = [Unlink({n}) EXCEPT ![p] = size]
      /\ UNCHANGED <<dv_size, top, top_size, lost, footprint>>
  <2>1. FreeChunk(a, size, dead, {}) /\ UNCHANGED <<top, top_size, footprint>>
    BY DEF FreeNextFree, pages
  <2>2. bin' = [Unlink({n}) EXCEPT ![p] = size] /\ UNCHANGED dv_size
    BY <1>1 DEF FreeNextFree
  <2>3. owned' = [owned EXCEPT ![a] = 0] /\ lost' = lost
    BY DEF FreeNextFree, Consolidates, HandBack
  <2> QED BY <2>1, <2>2, <2>3 DEF FreeChunk
<1>4. /\ \A x \in live \cup lost \cup binned :
           x \in Start \ {top} /\ x \in Unit /\ csize[x] \in Nat \ {0} /\ nextChunk(x) \in Nat /\ x \in Nat
      /\ \A u \in Start : u \in Nat
  <2>1. \A u \in Start : u \in Nat
    BY ArenaNat DEF Start, Unit, TypeOK
  <2> QED BY <2>1, InnerChunk DEF HeapParts
<1>5. n \in binned
  <2>1. n \notin {0} \cup live \cup lost
    BY <1>1, <1>2 DEF HeapParts, Tags
  <2> HIDE DEF n
  <2> QED BY <2>1, <1>1, <1>2 DEF HeapParts, OneHand
<1>6. e \in live \cup lost /\ e \notin pinuse /\ e = n + csize[n] /\ csize[n] \in Nat \ {0} /\ e \in Nat
  <2>1. e \in live \cup lost /\ e \notin pinuse
    BY <1>5 DEF HeapParts, Bounded, Tags
  <2>2. e = n + csize[n]
    BY DEF nextChunk
  <2> QED BY <2>1, <2>2, <1>4, <1>5
<1>7. \A x \in live \cup lost \cup binned : (nextChunk(x) = e => x = n) /\ (nextChunk(x) = n => x = a)
  BY <1>5, SuccessorUnique
<1>8. size \in Nat \ {0} /\ e = p + size /\ p < e /\ p \in Nat /\ a \in Nat
  <2>1. p \in Nat /\ a \in Nat
    BY <1>2, <1>4, ArenaNat DEF Unit
  <2> HIDE DEF p, n, e
  <2> QED BY <2>1, <1>2, <1>6
<1>9. \A u \in Start : u =< p \/ u \in dead \/ u >= e
  <2>1. \A u \in Start : u > n => u >= e
    BY <1>1, <1>4, <1>5, NextApart DEF HeapParts
  <2>2. \A u \in Start : u \in Nat /\ (u =< p \/ u = a \/ u >= n)
    BY <1>2, <1>4
  <2> HIDE DEF p, n, e
  <2> QED BY <2>1, <2>2, <1>2
<1>10. bin' = [u \in Unit |-> IF u = p THEN size ELSE IF u \in dead THEN 0 ELSE bin[u]]
  <2>1. a \notin binned /\ a \in Unit /\ bin \in [Unit -> Nat]
    BY <1>4 DEF HeapParts, OneHand, TypeOK
  <2>2. bin[a] = 0
    BY <2>1 DEF binned
  <2> HIDE DEF p, n, size
  <2> QED BY <2>1, <2>2, <1>2, <1>3 DEF Unlink
<1>11. dead \in SUBSET (p .. e - 1) /\ a \in dead /\ dead \subseteq {a} \cup binned
  <2>1. p =< a /\ a < n /\ n < e /\ p \in Nat /\ a \in Nat /\ n \in Nat /\ e \in Nat
    BY <1>2, <1>6, <1>8
  <2>2. dead \subseteq {a} \cup binned
    BY <1>5
  <2> HIDE DEF p, n, e
  <2> QED BY <2>1, <2>2
<1>12. \A x \in binned \ (dead \cup {p}) : nextChunk(x) \notin {a, p, e}
  BY <1>2, <1>7
<1>13. \A x \in (live \cup lost) \ {a} : nextChunk(x) \notin (dead \ {p}) \cup {e}
  BY <1>2, <1>5, <1>7 DEF HeapParts, OneHand
<1>14. foot' = [u \in Unit |-> IF u = e THEN size ELSE IF u \in dead \ {p} THEN 0 ELSE foot[u]]
  BY <1>3, <1>8
<1>15. pinuse' = ((pinuse \ dead) \cup {p}) \ {e}
  BY <1>3, <1>6, <1>8
<1> HIDE DEF p, n, e, size, dead
<1>16. p \in {a} \cup binned /\ e \in live \cup lost
  BY <1>2, <1>6
<1>17. Merge(p, size, dead) /\ owned' = [owned EXCEPT ![a] = 0] /\ UNCHANGED <<dv_size, top, top_size, lost, footprint>>
  BY <1>3
<1>18. size \in Nat \ {0} /\ e = p + size
  BY <1>8
<1>19. dead \in SUBSET (p .. e - 1)
  BY <1>11
<1>20. a \in dead /\ dead \subseteq {a} \cup binned /\ e = p + size /\ \A u \in Start : u =< p \/ u \in dead \/ u >= e
  BY <1>9, <1>11, <1>18
<1>21. Merge(p, size, dead) /\ pinuse' = ((pinuse \ dead) \cup {p}) \ {e}
  BY <1>15, <1>17
<1> QED BY <1>10, <1>12, <1>13, <1>14, <1>16, <1>17, <1>18, <1>19, <1>20, <1>21, ConsolidateKeeps

\* The successor is top: top takes over the block and the chunk in front of it.
LEMMA IntoTopKeeps ==
  ASSUME TypeOK, HeapParts, NEW a \in live, Sound(a), FreeIntoTop(a)
  PROVE  HeapParts'
<1> DEFINE p == base(a)
           size == top_size + bsize(a)
           dead == {a, top}
<1>1. Sound(a) /\ nextChunk(a) = top
  BY DEF FreeIntoTop, Consolidates
<1>2. /\ p \in {a} \cup binned /\ p \in Unit /\ p =< a /\ p # 0
      /\ top \in Start /\ top > a /\ top \in Nat /\ bsize(a) \in Nat \ {0} /\ p + bsize(a) = top
      /\ \A u \in Start : u =< p \/ u = a \/ u >= top
      /\ \A x \in binned \ {p} : nextChunk(x) \notin {a, p}
      /\ p # a => \A x \in live \cup lost : nextChunk(x) # a
  BY <1>1, FreedBlock
<1>3. /\ Merge(p, size, dead) /\ owned' = [owned EXCEPT ![a] = 0]
      /\ pinuse' = (pinuse \ dead) \cup {p}
      /\ foot' = [u \in Unit |-> IF u \in dead \ {p} THEN 0 ELSE foot[u]]
      /\ bin' = Unlink({p}) /\ top' = p /\ top_size' = size
      /\ UNCHANGED <<dv_size, lost, footprint>>
  <2>1. ~isDv(p)
    BY DEF isDv, HeapParts, Granted
  <2>2. owned' = [owned EXCEPT ![a] = 0] /\ lost' = lost
    BY DEF FreeIntoTop, Consolidates, HandBack
  <2>3. bin' = Unlink({p})
    <3>1. a \notin binned
      BY DEF HeapParts, OneHand
    <3> QED BY <2>1, <3>1, PrevUnlinked DEF FreeIntoTop
  <2> QED BY <2>1, <2>2, <2>3 DEF FreeIntoTop
<1>4. /\ \A x \in live \cup lost \cup binned : x \in Start \ {top} /\ x \in Unit /\ x # 0 /\ csize[x] \in Nat \ {0}
      /\ \A u \in Start : u \in Nat
      /\ Unit \subseteq Nat /\ top_size \in Nat /\ a \in Nat /\ p \in Nat
  <2>1. Unit \subseteq Nat
    BY ArenaNat DEF Unit
  <2>2. top_size \in Nat /\ top \in Nat
    BY DEF TypeOK
  <2>3. \A x \in live \cup lost \cup binned : x # 0
    BY DEF HeapParts, OneHand
  <2> QED BY <2>1, <2>2, <2>3, <1>2, InnerChunk DEF HeapParts, Start, live
<1>5. size \in Nat \ {0} /\ p + size = footprint /\ p < top
  <2>1. top + top_size = footprint
    BY DEF HeapParts, Tiled
  <2> HIDE DEF p
  <2> QED BY <2>1, <1>2, <1>4
<1>6. Start' = (Start \ {a, top}) \cup {p}
  <2>1. csize' = [u \in Unit |-> IF u = p THEN size ELSE IF u \in dead THEN 0 ELSE csize[u]]
    BY <1>3 DEF Merge
  <2> HIDE DEF p, size
  <2> QED BY <2>1, <1>2, <1>3, <1>5 DEF Start
<1>7. \A x \in Start' \ {p} : /\ x \in Start \ {a, top} /\ x \in Unit /\ x < p
                              /\ csize'[x] = csize[x] /\ nextChunk(x)' = nextChunk(x)
  <2> SUFFICES ASSUME NEW x \in Start' \ {p}
               PROVE  /\ x \in Start \ {a, top} /\ x \in Unit /\ x < p
                      /\ csize'[x] = csize[x] /\ nextChunk(x)' = nextChunk(x)
    OBVIOUS
  <2>1. x \in Start \ {a, top} /\ x \in Unit /\ x # p
    BY <1>6 DEF Start
  <2>2. x =< top
    BY <2>1 DEF HeapParts, Tiled
  <2>3. x < p
    <3>1. x =< p \/ x = a \/ x >= top
      BY <2>1, <1>2
    <3>2. x \in Nat
      BY <2>1, <1>4
    <3> HIDE DEF p
    <3> QED BY <3>1, <3>2, <2>1, <2>2, <1>2, <1>4
  <2>4. csize'[x] = csize[x]
    BY <2>1, <1>3 DEF Merge
  <2> QED BY <2>1, <2>3, <2>4 DEF nextChunk
<1>8. \A x \in Start' \ {p} : nextChunk(x) \in Start /\ nextChunk(x) =< p /\ nextChunk(x) \notin dead \ {p}
  <2> SUFFICES ASSUME NEW x \in Start' \ {p}
               PROVE  nextChunk(x) \in Start /\ nextChunk(x) =< p /\ nextChunk(x) \notin dead \ {p}
    OBVIOUS
  <2>1. x \in Start \ {top} /\ x < p /\ p \in Start
    <3>1. p \in Start
      BY <1>2, <1>4
    <3> QED BY <3>1, <1>7
  <2>2. nextChunk(x) \in Start
    BY <2>1 DEF HeapParts, Tiled
  <2>3. nextChunk(x) =< p
    BY <2>1, NextApart DEF HeapParts
  <2> DEFINE y == nextChunk(x)
  <2> HIDE DEF y, p
  <2>4. y # top /\ (y = a => a = p)
    BY <2>2, <2>3, <1>2, <1>4, <1>5 DEF y
  <2> QED BY <2>2, <2>3, <2>4 DEF y
<1>9. live' = live \ {a} /\ binned' = binned \ {p} /\ lost' = lost
  <2>1. owned \in [Unit -> Nat] /\ bin \in [Unit -> Nat]
    BY DEF TypeOK
  <2> HIDE DEF p
  <2> QED BY <2>1, <1>3 DEF live, binned, Unlink
<1>10. Tiled'
  <2>1. top' + top_size' = footprint' /\ footprint' =< Arena /\ top_size' > 0
    BY <1>3, <1>5 DEF HeapParts, Tiled
  <2>2. \A x \in Start' : x =< top'
    BY <1>3, <1>4, <1>7
  <2>3. ASSUME NEW x \in Start' \ {p}
        PROVE  nextChunk(x)' \in Start' /\ \A u \in x + 1 .. nextChunk(x)' - 1 : u \notin Start'
    <3>1. nextChunk(x)' = nextChunk(x) /\ nextChunk(x) \in Start /\ nextChunk(x) =< p /\ nextChunk(x) \notin dead \ {p}
          /\ x \in Start \ {top} /\ x \in Nat
      BY <1>4, <1>7, <1>8
    <3>2. \A u \in x + 1 .. nextChunk(x) - 1 : u \notin Start
      BY <3>1 DEF HeapParts, Tiled
    <3>3. nextChunk(x) \in Nat
      BY <3>1, <1>4
    <3> DEFINE y == nextChunk(x)
    <3> HIDE DEF y, p
    <3>4. y \in Start'
      BY <3>1, <1>6 DEF y
    <3>5. \A u \in x + 1 .. y - 1 : u \notin Start'
      BY <3>1, <3>2, <3>3, <1>4, <1>6 DEF y
    <3> QED BY <3>1, <3>4, <3>5 DEF y
  <2> QED BY <2>1, <2>2, <2>3, <1>3 DEF Tiled
<1>11. OneHand'
  <2>1. /\ Start = {0, top} \cup live \cup lost \cup binned
        /\ live \cap lost = {} /\ live \cap binned = {} /\ lost \cap binned = {}
        /\ {0, top} \cap (live \cup lost \cup binned) = {} /\ top # 0
    BY <1>2, <1>4 DEF HeapParts, OneHand
  <2>2. p = a \/ p \in binned
    BY <1>2
  <2> HIDE DEF p
  <2>3. Start' = {0, p} \cup live' \cup lost' \cup binned'
    BY <2>1, <2>2, <1>6, <1>9
  <2>4. {0, p} \cap (live' \cup lost' \cup binned') = {}
    BY <2>1, <2>2, <1>2, <1>9
  <2>5. live' \cap lost' = {} /\ live' \cap binned' = {} /\ lost' \cap binned' = {}
    BY <2>1, <1>9
  <2> QED BY <2>3, <2>4, <2>5, <1>3 DEF OneHand
<1>12. \A x \in live' \cup lost' \cup binned' : x \in Start' \ {p} /\ x \in (live \cup lost \cup binned) \ {a}
  BY <1>3, <1>9, <1>11 DEF OneHand, HeapParts
<1>13. cinuse' = cinuse \ (dead \cup {p})
  BY <1>3 DEF Merge
<1>14. Tags'
  <2>1. (cinuse \cap Start)' = {0} \cup live' \cup lost'
    <3>1. cinuse \cap Start = {0} \cup live \cup lost
      BY DEF HeapParts, Tags
    <3>2. p \notin {0} \cup live' \cup lost' /\ top \notin {0} \cup live \cup lost /\ 0 \notin dead \cup {p}
          /\ {0} \cup live' \cup lost' \subseteq Start'
      BY <1>2, <1>4, <1>11, <1>3 DEF HeapParts, OneHand
    <3>3. \A x \in {0} \cup live \cup lost : x \in {0} \cup live' \cup lost' \/ x = a
      BY <1>9
    <3>4. \A x \in {0} \cup live' \cup lost' : x \in {0} \cup live \cup lost /\ x # a
      BY <1>4, <1>9 DEF HeapParts, OneHand
    <3> HIDE DEF p
    <3>5. \A x : x \in cinuse' \cap Start' <=> x \in cinuse \cap Start /\ x # a /\ x # top /\ x # p
      BY <1>6, <1>13
    <3>6. \A x : x \in cinuse' \cap Start' <=> x \in {0} \cup live' \cup lost'
      BY <3>1, <3>2, <3>3, <3>4, <3>5
    <3> QED BY <3>6
  <2>2. ASSUME NEW x \in live' \cup lost'
        PROVE  nextChunk(x)' \in pinuse' /\ foot'[nextChunk(x)'] = Msp
    <3>1. nextChunk(x)' = nextChunk(x) /\ nextChunk(x) \notin dead \ {p} /\ nextChunk(x) \in Start
      BY <1>7, <1>8, <1>12
    <3>2. nextChunk(x) \in pinuse /\ foot[nextChunk(x)] = Msp
      BY <1>9 DEF HeapParts, Tags
    <3>3. nextChunk(x) \in Unit
      <4>1. top \in Unit
        BY ArenaNat DEF HeapParts, Tiled, TypeOK, Unit
      <4> QED BY <4>1, <3>1 DEF Start
    <3> HIDE DEF p
    <3> QED BY <3>1, <3>2, <3>3, <1>3
  <2>3. ASSUME NEW b \in binned'
        PROVE  nextChunk(b)' \notin pinuse' /\ foot'[nextChunk(b)'] = csize'[b] /\ bin'[b] = csize'[b]
    <3>1. b \in Start' \ {p} /\ b \in binned \ {p}
      BY <1>9, <1>12
    <3>2. nextChunk(b)' = nextChunk(b) /\ csize'[b] = csize[b] /\ nextChunk(b) \notin dead \ {p} /\ nextChunk(b) \in Start /\ b \in Unit
      BY <3>1, <1>7, <1>8
    <3>3. nextChunk(b) \notin pinuse /\ foot[nextChunk(b)] = csize[b] /\ bin[b] = csize[b] /\ nextChunk(b) # p
      BY <3>1, <1>2 DEF HeapParts, Tags
    <3>4. nextChunk(b) \in Unit
      <4>1. top \in Unit
        BY ArenaNat DEF HeapParts, Tiled, TypeOK, Unit
      <4> QED BY <4>1, <3>2 DEF Start
    <3> HIDE DEF p
    <3> QED BY <3>1, <3>2, <3>3, <3>4, <1>3 DEF Unlink
  <2> QED BY <2>1, <2>2, <2>3 DEF Tags
<1>15. Bounded'
  <2> SUFFICES ASSUME NEW b \in binned' PROVE nextChunk(b)' \in live' \cup lost'
    BY DEF Bounded
  <2>1. b \in Start' \ {p} /\ b \in binned \ {p}
    BY <1>9, <1>12
  <2>2. nextChunk(b)' = nextChunk(b) /\ nextChunk(b) # a
    BY <2>1, <1>2, <1>7
  <2>3. nextChunk(b) \in live \cup lost
    BY <2>1 DEF HeapParts, Bounded
  <2> QED BY <2>2, <2>3, <1>9
<1>16. Granted'
  <2>1. 0 \in Start' \ {p}
    BY <1>2, <1>11 DEF OneHand
  <2>2. csize'[0] = MspSize /\ MspSize =< p
    <3>1. csize[0] = MspSize
      BY DEF HeapParts, Granted
    <3>2. nextChunk(0) = MspSize
      BY <3>1, SizesAssumption DEF nextChunk
    <3> QED BY <2>1, <3>1, <3>2, <1>7, <1>8
  <2>3. dv_size' = 0
    BY <1>3 DEF HeapParts, Granted
  <2>4. ASSUME NEW x \in live' PROVE owned'[x] =< csize'[x]
    <3>1. x \in live \ {a} /\ csize'[x] = csize[x] /\ x \in Unit
      BY <1>7, <1>9, <1>12
    <3>2. owned'[x] = owned[x]
      BY <3>1, <1>3 DEF TypeOK
    <3> QED BY <3>1, <3>2 DEF HeapParts, Granted
  <2> QED BY <2>2, <2>3, <2>4, <1>3 DEF Granted
<1> QED BY <1>10, <1>11, <1>14, <1>15, <1>16 DEF HeapParts

\* A remainderless fit takes a binned chunk whole.
LEMMA SmallFitKeeps ==
  ASSUME TypeOK, HeapParts, NEW r \in Nat, NEW p \in binned, AllocSmallFit(r, p), halt' = "no"
  PROVE  HeapParts'
<1> DEFINE nb   == padRequest(r)
           size == IF nb \in small_map THEN nb ELSE nb + 1
<1>1. bin[p] = csize[p] /\ csize[p] \in Nat \ {0}
  BY InnerChunk DEF HeapParts, Tags
<1>2. MarkInuse(p, size) /\ bin[p] = size /\ bin' = Unlink({p}) /\ owned' = [owned EXCEPT ![p] = nb]
      /\ UNCHANGED <<dv, dv_size, top, top_size, lost, footprint>>
  BY DEF AllocSmallFit, Touching, Crash, Grant, Quiet, MayAlloc, Running, pages
<1>3. nb \in Nat /\ nb >= 2 /\ nb =< size
  <2>1. r \in Nat
    BY SizesAssumption
  <2>2. nb \in Nat /\ nb >= 2
    BY <2>1, PadNat
  <2> HIDE DEF nb
  <2> QED BY <2>2
<1> HIDE DEF nb, size
<1>4. csize' = csize /\ cinuse' = cinuse \cup {p} /\ foot' = [foot EXCEPT ![nextChunk(p)] = Msp]
  BY <1>1, <1>2 DEF MarkInuse, TypeOK, nextChunk
<1>5. pinuse' = pinuse \cup {nextChunk(p)}
  BY <1>1, <1>2 DEF MarkInuse, nextChunk
<1>6. nb > 0 /\ nb =< csize[p]
  BY <1>1, <1>2, <1>3
<1> QED BY <1>2, <1>3, <1>4, <1>5, <1>6, FitKeeps

\* Top is split, in the segment as it is or in the segment grown by whole pages.
LEMMA SplitTopKeeps ==
  ASSUME TypeOK, HeapParts, NEW nb \in Nat, nb >= 2, NEW rest \in Nat, rest > 0, SplitTop(nb, rest),
         footprint' = top + nb + rest, footprint' =< Arena
  PROVE  HeapParts'
<1> DEFINE q == top
           t == top + nb
<1>1. /\ csize' = [csize EXCEPT ![top] = nb, ![t] = rest]
      /\ pinuse' = pinuse \cup {top, t} /\ cinuse' = (cinuse \cup {top}) \ {t}
      /\ foot' = [foot EXCEPT ![t] = Msp]
      /\ top' = t /\ top_size' = rest /\ owned' = [owned EXCEPT ![top] = nb]
      /\ UNCHANGED <<bin, dv, dv_size, lost>>
  BY DEF SplitTop, SplitInuse, Grant
<1>2. q = top /\ t = top + nb /\ footprint' = t + rest
  OBVIOUS
<1> HIDE DEF q, t
<1> QED BY <1>1, <1>2, TopKeeps

\* A free that leaves the heap healthy, whatever it was handed, was called on a
\* healthy heap.
LEMMA FreeHealthy ==
  ASSUME NEW a, free(a), halt' = "no", ~carved'
  PROVE  Healthy
<1> USE DEF Running
<1>1. ASSUME Consolidates(a) PROVE Healthy
  BY <1>1 DEF Consolidates, Pooled, Healthy
<1>2. ASSUME FreeIgnored(a) \/ FreeDirect(a) PROVE Healthy
  BY <1>2 DEF FreeIgnored, FreeDirect, Healthy
<1>3. ~FreeUndefined(a) /\ ~FreeFault(a)
  BY DEF FreeUndefined, FreeFault, Crash
<1>5. ASSUME FreeBroken(a) PROVE Healthy
  BY <1>5 DEF FreeBroken, Pooled, Healthy
<1>4. FreePrevDv(a) \/ FreeIntoTop(a) \/ FreeNextDv(a) \/ FreeNextFree(a) \/ FreeNextInuse(a) => Consolidates(a)
  BY DEF FreePrevDv, FreeIntoTop, FreeNextDv, FreeNextFree, FreeNextInuse
<1> QED BY <1>1, <1>2, <1>3, <1>4, <1>5 DEF free

\* A step that leaves the heap healthy was taken by a healthy heap.
LEMMA HealthyBefore ==
  ASSUME AnyCall, halt' = "no", ~carved'
  PROVE  Healthy
<1> USE DEF Running
<1>1. ASSUME AnyAlloc PROVE Healthy
  <2>1. Running
    BY <1>1 DEF AnyAlloc, alloc, AllocSmallFit, AllocWildBin, AllocSplit, AllocTree, NoBin, AllocDvSplit,
       AllocDvExhaust, AllocTop, NeedsSystem, AllocGrow, AllocDirect, MayAlloc
  <2>2. ~carved
    <3>1. ASSUME NEW r \in Nat, NEW p \in binned, AllocSmallFit(r, p) \/ AllocSplit(r, p) PROVE ~carved
      BY <3>1 DEF AllocSmallFit, AllocSplit, Carve, Touching, Crash, Quiet
    <3>2. ASSUME NEW r \in Nat, NEW p \in binned, AllocTree(r, p) PROVE ~carved
      BY <3>2 DEF AllocTree, Carve, Touching, Crash, Quiet
    <3>3. ASSUME NEW r \in Nat, AllocDvSplit(r) \/ AllocDvExhaust(r) PROVE ~carved
      BY <3>3 DEF AllocDvSplit, AllocDvExhaust, Touching, Crash, Quiet
    <3>4. ASSUME NEW r \in Nat, AllocTop(r) \/ AllocGrow(r) PROVE ~carved
      BY <3>4 DEF AllocTop, AllocGrow, SplitTop, Crash
    <3>5. ASSUME NEW r \in Nat, AllocWildBin(r) \/ AllocDirect(r) PROVE ~carved
      BY <3>5 DEF AllocWildBin, AllocDirect, Crash
    <3> QED BY <1>1, <3>1, <3>2, <3>3, <3>4, <3>5 DEF AnyAlloc, alloc
  <2> QED BY <2>1, <2>2 DEF Healthy
<1>2. ASSUME Release PROVE Healthy
  BY <1>2, FreeHealthy DEF Release
<1> QED BY <1>1, <1>2 DEF AnyCall

\* The designated victim is never there, so these are the steps a healthy heap
\* can take and still be healthy.
LEMMA HealthySteps ==
  ASSUME TypeOK, HeapParts, AnyCall, halt' = "no", ~carved'
  PROVE  \/ \E r \in Nat : (\E p \in binned : AllocSmallFit(r, p)) \/ AllocTop(r) \/ AllocGrow(r)
         \/ \E a \in live : FreeDirect(a) \/ FreeIntoTop(a) \/ FreeNextFree(a) \/ FreeNextInuse(a)
<1>1. dv_size = 0
  BY DEF HeapParts, Granted
<1>2. ASSUME NEW r \in Nat PROVE padRequest(r) \in Nat /\ padRequest(r) >= 2
  BY SizesAssumption, PadNat
<1>3. ASSUME NEW r \in Nat, AllocWildBin(r) PROVE FALSE
  BY <1>3 DEF AllocWildBin, Crash
<1>4. ASSUME NEW r \in Nat, NEW p \in binned, AllocSplit(r, p) PROVE FALSE
  BY <1>4 DEF AllocSplit, Carve, Touching, Crash
<1>5. ASSUME NEW r \in Nat, NEW p \in binned, AllocTree(r, p) PROVE FALSE
  BY <1>1, <1>2, <1>5 DEF AllocTree
<1>6. ASSUME NEW r \in Nat, AllocDvSplit(r) PROVE FALSE
  BY <1>1, <1>2, <1>6 DEF AllocDvSplit, kMinChunkSize
<1>7. ASSUME NEW r \in Nat, AllocDvExhaust(r) PROVE FALSE
  BY <1>1, <1>2, <1>7 DEF AllocDvExhaust
<1>8. ASSUME NEW r \in Nat, AllocDirect(r) PROVE FALSE
  BY <1>8 DEF AllocDirect, Crash
<1>9. ASSUME NEW a \in live, FreeIgnored(a) PROVE FALSE
  <2>1. a \in cinuse
    BY DEF HeapParts, Tags
  <2> QED BY <1>9, <2>1 DEF FreeIgnored, isInuse
<1>10. ASSUME NEW a \in live, FreeUndefined(a) \/ FreeFault(a) PROVE FALSE
  BY <1>10 DEF FreeUndefined, FreeFault, Crash
<1>11. ASSUME NEW a \in live, FreePrevDv(a) \/ FreeNextDv(a) PROVE FALSE
  BY <1>1, <1>11 DEF FreePrevDv, FreeNextDv, IntoPrevDv, isDv
<1>14. ASSUME NEW a \in live, FreeBroken(a) PROVE FALSE
  BY <1>14 DEF FreeBroken, HeapParts, Tags
<1>12. CASE AnyAlloc
  BY <1>12, <1>3, <1>4, <1>5, <1>6, <1>7, <1>8 DEF AnyAlloc, alloc
<1>13. CASE Release
  BY <1>13, <1>9, <1>10, <1>11, <1>14 DEF Release, free
<1> QED BY <1>12, <1>13 DEF AnyCall

\* Every step of a healthy heap that leaves it healthy keeps it sound.
LEMMA HeapStep == TypeOK /\ HeapSound /\ Calm /\ [AnyCall]_vars => HeapSound'
<1> SUFFICES ASSUME TypeOK, HeapSound, Calm, [AnyCall]_vars, halt' = "no", ~carved' PROVE HeapParts'
  BY DEF HeapSound, Healthy, Running
<1> USE DEF Running
<1>1. CASE UNCHANGED vars
  <2>1. HeapParts
    BY <1>1 DEF HeapSound, Healthy, vars, heap, space, pages, ghosts
  <2>2. Start' = Start /\ live' = live /\ binned' = binned /\ \A a : nextChunk(a)' = nextChunk(a)
    BY <1>1 DEF Start, live, binned, nextChunk, vars, heap, space, pages, ghosts
  <2>3. UNCHANGED <<csize, pinuse, cinuse, foot, bin, dv_size, top, top_size, footprint, owned, lost>>
    BY <1>1 DEF vars, heap, space, pages, ghosts
  <2>4. Tiled'
    BY <2>1, <2>2, <2>3 DEF HeapParts, Tiled
  <2>5. OneHand' /\ Bounded'
    BY <2>1, <2>2, <2>3 DEF HeapParts, OneHand, Bounded
  <2>6. Tags' /\ Granted'
    BY <2>1, <2>2, <2>3 DEF HeapParts, Tags, Granted
  <2> QED BY <2>4, <2>5, <2>6 DEF HeapParts
<1>2. CASE AnyCall
  <2>1. HeapParts /\ dv_size = 0
    <3>1. Healthy
      BY <1>2, HealthyBefore
    <3> QED BY <3>1 DEF HeapSound, HeapParts, Granted
  <2>11. \A a \in live : Sound(a)
    <3>1. FirstTagged
      BY <1>2, HealthyBefore DEF Calm
    <3> QED BY <2>1, <3>1, FreeIsLed
  <2>2. ASSUME NEW r \in Nat PROVE padRequest(r) \in Nat /\ padRequest(r) >= 2
    BY SizesAssumption, PadNat
  <2>3. top + top_size = footprint /\ footprint =< Arena /\ top \in Nat /\ top_size \in Nat /\ top_size > 0
        /\ footprint \in Nat
    BY <2>1 DEF HeapParts, Tiled, TypeOK
  <2>4. ASSUME NEW r \in Nat, NEW p \in binned, AllocSmallFit(r, p) PROVE HeapParts'
    BY <2>1, <2>4, SmallFitKeeps
  <2>5. ASSUME NEW r \in Nat, AllocTop(r) PROVE HeapParts'
    <3> DEFINE nb == padRequest(r)
    <3>1. nb < top_size /\ SplitTop(nb, top_size - nb) /\ footprint' = footprint
      BY <2>5 DEF AllocTop, Crash
    <3>2. nb \in Nat /\ nb >= 2
      BY <2>2
    <3> HIDE DEF nb
    <3>3. top_size - nb \in Nat /\ top_size - nb > 0 /\ footprint' = top + nb + (top_size - nb)
      BY <2>3, <3>1, <3>2
    <3> QED BY <2>1, <2>3, <3>1, <3>2, <3>3, SplitTopKeeps
  <2>6. ASSUME NEW r \in Nat, AllocGrow(r) PROVE HeapParts'
    <3> DEFINE nb    == padRequest(r)
               grown == PagesFor(nb) * PageSize
    <3>1. SplitTop(nb, top_size + grown - nb) /\ footprint' = footprint + grown /\ footprint + grown =< Arena
      BY <2>6 DEF AllocGrow, Crash
    <3>2. nb \in Nat /\ nb >= 2 /\ grown \in Nat /\ nb =< grown
      BY <2>2, PagesNat
    <3> HIDE DEF nb, grown
    <3>3. /\ top_size + grown - nb \in Nat /\ top_size + grown - nb > 0
          /\ footprint' = top + nb + (top_size + grown - nb)
      BY <2>3, <3>1, <3>2
    <3> QED BY <2>1, <3>1, <3>2, <3>3, SplitTopKeeps
  <2>7. ASSUME NEW a \in live, FreeDirect(a) PROVE HeapParts'
    <3>1. owned' = [owned EXCEPT ![a] = 0] /\ lost' = lost \cup {a}
      BY <2>7 DEF FreeDirect, HandBack
    <3>2. UNCHANGED <<csize, pinuse, cinuse, foot, bin, dv, dv_size, top, top_size, footprint>>
      BY <2>7 DEF FreeDirect, heap, space
    <3> QED BY <2>1, <3>1, <3>2, DropKeeps
  <2>8. ASSUME NEW a \in live, FreeIntoTop(a) PROVE HeapParts'
    BY <2>1, <2>11, <2>8, IntoTopKeeps
  <2>9. ASSUME NEW a \in live, FreeNextFree(a) PROVE HeapParts'
    BY <2>1, <2>11, <2>9, NextFreeKeeps
  <2>10. ASSUME NEW a \in live, FreeNextInuse(a) PROVE HeapParts'
    BY <2>1, <2>11, <2>10, NextInuseKeeps
  <2> QED BY <1>2, <2>1, <2>4, <2>5, <2>6, <2>7, <2>8, <2>9, <2>10, HealthySteps
<1> QED BY <1>1, <1>2

\* One block, the space itself, and top behind it: the first heap is sound.
LEMMA InitSound == Init => HeapParts
<1> SUFFICES ASSUME Init PROVE HeapParts
  OBVIOUS
<1>1. Unit \subseteq Nat /\ 0 \in Unit /\ MspSize \in Unit /\ MspSize \in Nat \ {0} /\ InitialSize \in Nat /\ MspSize < InitialSize
  BY ArenaNat, SizesAssumption DEF Unit
<1>2. \A u \in Unit : csize[u] = (IF u = 0 THEN MspSize ELSE 0) /\ bin[u] = 0 /\ owned[u] = 0
  BY DEF Init
<1>3. Start = {0, MspSize} /\ live = {} /\ binned = {} /\ lost = {} /\ top = MspSize /\ nextChunk(0) = MspSize
  BY <1>1, <1>2 DEF Init, Start, live, binned, nextChunk
<1>4. Tiled
  <2>1. top + top_size = footprint /\ footprint =< Arena /\ top_size > 0
    BY <1>1, ArenaNat DEF Init
  <2> QED BY <2>1, <1>1, <1>3 DEF Tiled
<1>5. OneHand
  BY <1>1, <1>3 DEF OneHand
<1>6. Tags
  BY <1>1, <1>3 DEF Init, Tags
<1>7. Bounded /\ Granted
  BY <1>1, <1>2, <1>3 DEF Init, Bounded, Granted
<1> QED BY <1>4, <1>5, <1>6, <1>7 DEF HeapParts

-----------------------------------------------------------------------------
(* What the check functions find, and what the client may rely on *)

\* checkInuseChunk passes for a block the client holds.
LEMMA InuseChecks ==
  ASSUME TypeOK, HeapParts, FirstTagged, NEW a \in live
  PROVE  checkInuseChunk(a)
<1>1. a \in Start
  BY InnerChunk DEF HeapParts
<1>2. a \in cinuse /\ nextChunk(a) \in pinuse
  BY <1>1 DEF HeapParts, Tags
<1>3. a \notin pinuse => csize[a - foot[a]] = foot[a]
  BY FreeInFront
<1> QED BY <1>2, <1>3 DEF checkInuseChunk, isInuse

\* checkFreeChunk passes for a binned chunk whose PINUSE bit is set.
FreeChecks == \A p \in binned \cap pinuse : checkFreeChunk(p)
\* checkFreeChunk passes on every chunk in a bin: its neighbours are in use, and know of it.
LEMMA FreeChecksPass == HeapParts => FreeChecks
<1> SUFFICES ASSUME HeapParts, NEW p \in binned, p \in pinuse PROVE checkFreeChunk(p)
  BY DEF FreeChecks
<1>1. p \in Start /\ p \notin {0} \cup live \cup lost /\ nextChunk(p) \in live \cup lost
  BY DEF HeapParts, OneHand, Bounded
<1>2. p \notin cinuse /\ nextChunk(p) \in cinuse
  BY <1>1 DEF HeapParts, Tags, OneHand
<1>3. nextChunk(p) \notin pinuse /\ foot[nextChunk(p)] = csize[p]
  BY DEF HeapParts, Tags
<1> QED BY <1>2, <1>3 DEF checkFreeChunk, isInuse

\* The chunk the client and the bins see first is the one behind the struct.
LEMMA AboveStruct ==
  ASSUME TypeOK, HeapParts, NEW x \in live \cup lost \cup binned
  PROVE  MspSize =< x /\ x < top /\ x \in Nat /\ top \in Nat
<1>1. x \in Start \ {top} /\ x \in Unit /\ x # 0
  BY InnerChunk DEF HeapParts, OneHand
<1>2. 0 \in Start \ {top} /\ nextChunk(0) = MspSize /\ x \in Nat /\ x > 0
  BY <1>1, ArenaNat, SizesAssumption DEF HeapParts, OneHand, Granted, nextChunk, Unit
<1>3. MspSize =< x
  BY <1>1, <1>2, NextApart DEF HeapParts
<1> QED BY <1>1, <1>2, <1>3 DEF HeapParts, Tiled, TypeOK

\* What the frees that consolidate do to the words: only the block, the binned
\* chunk in front of it and its free successor are written over.
LEMMA FreedWords ==
  ASSUME TypeOK, HeapParts, FirstTagged, NEW a \in live, FreeIntoTop(a) \/ FreeNextFree(a) \/ FreeNextInuse(a)
  PROVE  /\ base(a) \in {a} \cup binned /\ MspSize =< base(a) /\ base(a) =< a /\ a < nextChunk(a) /\ a \in Nat
         /\ base(a) \in Nat /\ nextChunk(a) \in Nat
         /\ owned' = [owned EXCEPT ![a] = 0]
         /\ FreeNextFree(a) \/ FreeIntoTop(a) => nextChunk(a) \notin live \cup lost
         /\ \/ top' = base(a) /\ pinuse' = (pinuse \ {a, nextChunk(a)}) \cup {base(a)}
            \/ top' = top /\ \E dead \in SUBSET {a, nextChunk(a)}, cleared \in SUBSET {nextChunk(a)} :
                 pinuse' = ((pinuse \ dead) \cup {base(a)}) \ cleared
         /\ \E size \in Int, dead \in SUBSET {a, nextChunk(a)} :
              Merge(base(a), size, dead) /\ (nextChunk(a) \in dead => nextChunk(a) \notin live \cup lost)
<1> DEFINE p == base(a)
           n == nextChunk(a)
<1>1. Consolidates(a) /\ Sound(a) /\ owned' = [owned EXCEPT ![a] = 0]
  BY FreeIsLed DEF FreeIntoTop, FreeNextFree, FreeNextInuse, Consolidates, HandBack
<1>2. /\ p \in {a} \cup binned /\ p =< a /\ n \in Start /\ n > a /\ n \in Nat /\ bsize(a) \in Nat
      /\ csize[n] \in Int \/ n = top
  <2>1. csize[n] \in Int \/ n = top
    BY <1>1 DEF Sound, Reads, Start, TypeOK
  <2> QED BY <1>1, <2>1, FreedBlock
<1>3. MspSize =< p /\ p \in Nat /\ a \in Nat
  BY <1>2, AboveStruct
<1>4. n \notin cinuse => n \notin live \cup lost
  BY <1>2 DEF HeapParts, Tags
<1>5. CASE FreeIntoTop(a)
  <2>1. /\ n = top /\ top \notin cinuse /\ Merge(p, top_size + bsize(a), {a, n})
        /\ pinuse' = (pinuse \ {a, n}) \cup {p} /\ top' = p
    BY <1>5 DEF FreeIntoTop
  <2>2. top_size + bsize(a) \in Int
    BY <1>2 DEF TypeOK
  <2> HIDE DEF p, n
  <2>3. \E size \in Int, dead \in SUBSET {a, n} : Merge(p, size, dead) /\ (n \in dead => n \notin live \cup lost)
    BY <1>4, <2>1, <2>2
  <2> QED BY <1>1, <1>2, <1>3, <1>4, <2>1, <2>3 DEF p, n
<1>6. CASE FreeNextFree(a)
  <2>1. /\ FreeChunk(a, bsize(a) + csize[n], {a, n}, {}) /\ n \notin cinuse /\ n # top /\ top' = top
    BY <1>6 DEF FreeNextFree, FreeSuccessor
  <2>2. bsize(a) + csize[n] \in Int
    BY <1>2, <2>1
  <2>3. Merge(p, bsize(a) + csize[n], {a, n}) /\ pinuse' = ((pinuse \ {a, n}) \cup {p}) \ {}
    BY <2>1 DEF FreeChunk
  <2> HIDE DEF p, n
  <2>4. \E size \in Int, dead \in SUBSET {a, n} : Merge(p, size, dead) /\ (n \in dead => n \notin live \cup lost)
    BY <1>4, <2>1, <2>2, <2>3
  <2>5. \E dead \in SUBSET {a, n}, cleared \in SUBSET {n} : pinuse' = ((pinuse \ dead) \cup {p}) \ cleared
    BY <2>3
  <2> QED BY <1>1, <1>2, <1>3, <1>4, <2>1, <2>4, <2>5 DEF p, n
<1>7. CASE FreeNextInuse(a)
  <2>1. FreeChunk(a, bsize(a), {a}, {n}) /\ top' = top /\ n \in cinuse
    BY <1>7 DEF FreeNextInuse, HeldSuccessor
  <2>2. Merge(p, bsize(a), {a}) /\ pinuse' = ((pinuse \ {a}) \cup {p}) \ {n}
    BY <2>1 DEF FreeChunk
  <2>3. ~FreeNextFree(a) /\ ~FreeIntoTop(a)
    BY <2>1 DEF FreeNextFree, FreeIntoTop, FreeSuccessor
  <2>4. a # n
    BY <1>2, <1>3
  <2> HIDE DEF p, n
  <2>5. \E size \in Int, dead \in SUBSET {a, n} : Merge(p, size, dead) /\ (n \in dead => n \notin live \cup lost)
    BY <1>2, <2>2, <2>4
  <2>6. \E dead \in SUBSET {a, n}, cleared \in SUBSET {n} : pinuse' = ((pinuse \ dead) \cup {p}) \ cleared
    BY <2>2
  <2> QED BY <1>1, <1>2, <1>3, <2>1, <2>3, <2>5, <2>6 DEF p, n
<1> QED BY <1>5, <1>6, <1>7

\* A step of a healthy heap trips no check function.
LEMMA CalmStep ==
  ASSUME TypeOK, HeapSound, HeapSound', Calm, AnyCall, halt' = "no", ~carved'
  PROVE  FirstTagged' /\ ~alarm'
<1>0. HeapParts /\ FirstTagged /\ ~alarm /\ HeapParts' /\ MspSize \in Nat /\ top \in Nat
  BY HealthyBefore, SizesAssumption DEF HeapSound, Healthy, Running, Calm, TypeOK
<1>1. ASSUME NEW r \in Nat, NEW p \in binned, AllocSmallFit(r, p) PROVE FirstTagged' /\ ~alarm'
  <2> DEFINE size == IF padRequest(r) \in small_map THEN padRequest(r) ELSE padRequest(r) + 1
  <2>1. bin[p] = size /\ MarkInuse(p, size) /\ alarm' = (alarm \/ csize[p] # size) /\ top' = top
    BY <1>0, <1>1 DEF AllocSmallFit, Touching, Crash, MayAlloc, Running
  <2>2. csize[p] = bin[p] /\ csize[p] > 0
    BY <1>0, InnerChunk DEF HeapParts, Tags
  <2> HIDE DEF size
  <2>3. pinuse \subseteq pinuse'
    BY <2>1, <2>2 DEF MarkInuse
  <2>4. ~alarm'
    BY <1>0, <2>1, <2>2
  <2> QED BY <1>0, <2>1, <2>3, <2>4 DEF FirstTagged
<1>2. ASSUME NEW r \in Nat, AllocTop(r) \/ AllocGrow(r) PROVE FirstTagged' /\ ~alarm'
  <2>1. PICK nb, rest : SplitTop(nb, rest)
    BY <1>2 DEF AllocTop, AllocGrow, Crash
  <2>2. pinuse' = pinuse \cup {top, top + nb} /\ alarm' = alarm
    BY <2>1 DEF SplitTop, SplitInuse
  <2> QED BY <1>0, <2>2 DEF FirstTagged
<1>3. ASSUME NEW a \in live, FreeDirect(a) PROVE FirstTagged' /\ ~alarm'
  <2>1. checkInuseChunk(a)
    BY <1>0, InuseChecks
  <2>2. alarm' = (alarm \/ ~checkInuseChunk(a)) /\ pinuse' = pinuse /\ top' = top
    BY <1>3 DEF FreeDirect, heap, space
  <2> QED BY <1>0, <2>1, <2>2 DEF FirstTagged
<1>4. ASSUME NEW a \in live, FreeIntoTop(a) \/ FreeNextFree(a) \/ FreeNextInuse(a) PROVE FirstTagged' /\ ~alarm'
  <2>1. checkInuseChunk(a) /\ MspSize < top
    BY <1>0, InuseChecks, AboveStruct
  <2>2. /\ MspSize =< base(a) /\ base(a) =< a /\ a < nextChunk(a) /\ a \in Nat /\ base(a) \in Nat /\ nextChunk(a) \in Nat
        /\ \/ top' = base(a) /\ pinuse' = (pinuse \ {a, nextChunk(a)}) \cup {base(a)}
           \/ top' = top /\ \E dead \in SUBSET {a, nextChunk(a)}, cleared \in SUBSET {nextChunk(a)} :
                pinuse' = ((pinuse \ dead) \cup {base(a)}) \ cleared
    BY <1>0, <1>4, FreedWords
  <2>3. MspSize \in pinuse
    BY <1>0, <2>1 DEF FirstTagged
  <2>4. MspSize \in pinuse'
    <3>1. MspSize # nextChunk(a) /\ (MspSize = a => MspSize = base(a))
      BY <1>0, <2>2
    <3> QED BY <2>2, <2>3, <3>1
  <2>5. base(a) \in pinuse'
    BY <2>2
  <2>a. base(a) \in Unit /\ bsize(a) \in Nat \ {0} /\ bin \in [Unit -> Nat]
    <3>1. Sound(a)
      BY <1>0, FreeIsLed
    <3> QED BY <1>0, <3>1, FreedBlock DEF TypeOK
  <2>6. ASSUME CheckFreed(a), bin'[base(a)] > 0 PROVE ~alarm'
    <3>1. PICK p \in {base(a)} : alarm' = (alarm \/ ~checkInuseChunk(a) \/ ~checkFreeChunk(p)')
      BY <2>6 DEF CheckFreed
    <3>2. p \in binned' /\ p \in pinuse'
      BY <2>5, <2>6, <2>a, <3>1 DEF binned
    <3>3. FreeChecks'
      BY <1>0, FreeChecksPass, PTL
    <3>4. checkFreeChunk(p)'
      BY <3>2, <3>3 DEF FreeChecks
    <3> QED BY <1>0, <2>1, <3>1, <3>4
  <2>7. CASE FreeIntoTop(a)
    BY <1>0, <2>1, <2>4, <2>7 DEF FreeIntoTop, FirstTagged
  <2>8. CASE FreeNextFree(a)
    <3> DEFINE n == nextChunk(a)
    <3>1. /\ n \in Start \ {top} /\ top' = top /\ CheckFreed(a)
          /\ bin' = [Unlink({n}) EXCEPT ![base(a)] = bsize(a) + csize[n]]
      <4>1. ~isDv(base(a))
        BY <1>0 DEF isDv, HeapParts, Granted
      <4>2. n \in Start /\ FreeSuccessor(n)
        BY <2>8 DEF FreeNextFree, Consolidates, Reads
      <4>3. top' = top /\ CheckFreed(a) /\ bin' = [Unlink({n}) EXCEPT ![base(a)] = bsize(a) + csize[n]]
        BY <2>8, <4>1 DEF FreeNextFree
      <4> HIDE DEF n
      <4> QED BY <4>2, <4>3 DEF FreeSuccessor
    <3>2. csize[n] \in Nat
      BY <3>1 DEF Start, TypeOK
    <3>3. bin'[base(a)] > 0
      BY <2>a, <3>1, <3>2 DEF Unlink
    <3> QED BY <2>4, <2>6, <3>1, <3>3 DEF FirstTagged
  <2>9. CASE FreeNextInuse(a)
    <3>1. top' = top /\ CheckFreed(a) /\ bin' = [bin EXCEPT ![base(a)] = bsize(a)]
      BY <2>9 DEF FreeNextInuse, Insert
    <3>2. bin'[base(a)] > 0
      BY <2>a, <3>1
    <3> QED BY <2>4, <2>6, <3>1, <3>2 DEF FirstTagged
  <2> QED BY <1>4, <2>7, <2>8, <2>9
<1> QED BY <1>0, <1>1, <1>2, <1>3, <1>4, HealthySteps

\* The heap is sound, and no check function has fired.
LEMMA SoundAndCalm == Spec => [](HeapSound /\ Calm)
<1>1. Init => HeapSound
  BY InitSound DEF HeapSound
<1>2. Init => Calm
  BY DEF Init, Calm, FirstTagged
<1>3. TypeOK /\ HeapSound /\ Calm /\ [Next]_vars => HeapSound'
  BY HeapStep, NextCalls
<1>4. TypeOK /\ HeapSound /\ HeapSound' /\ Calm /\ [Next]_vars => Calm'
  <2> SUFFICES ASSUME TypeOK, HeapSound, HeapSound', Calm, [Next]_vars, halt' = "no", ~carved'
               PROVE  FirstTagged' /\ ~alarm'
    BY DEF Calm, Healthy, Running
  <2>1. CASE Next
    BY <2>1, CalmStep, NextCalls
  <2>2. CASE UNCHANGED vars
    BY <2>2 DEF Calm, Healthy, Running, FirstTagged, vars, heap, space, ghosts
  <2> QED BY <2>1, <2>2
<1> QED BY <1>1, <1>2, <1>3, <1>4, TypeCorrect, PTL DEF Spec

\* The heap of every MemorySpace is sound in every state a client can bring it
\* to without splitting a binned chunk: alloc and free keep the tiling, the
\* ownership, the tags and the consolidation of the chunks.
THEOREM HeapInvariant == Spec => []HeapSound
BY SoundAndCalm, PTL

\* Walking the chunks of a healthy heap from the first to top meets every boundary and
\* nothing else, and no chunk is both held and free, or forgotten.
COROLLARY ChunksTile == Spec => []HeapTiled
<1>1. HeapSound => HeapTiled
  BY DEF HeapSound, HeapParts, HeapTiled
<1> QED BY <1>1, HeapInvariant, PTL

\* The flag bits and the footers of a healthy heap tell the truth.
COROLLARY TagsAreTrue == Spec => []BoundaryTags
<1>1. HeapSound => BoundaryTags
  BY DEF HeapSound, HeapParts, BoundaryTags
<1> QED BY <1>1, HeapInvariant, PTL

\* Two free chunks of a healthy heap never touch.
COROLLARY FreeChunksApart == Spec => []Coalesced
<1>1. HeapSound => Coalesced
  BY DEF HeapSound, HeapParts, Coalesced
<1> QED BY <1>1, HeapInvariant, PTL

\* top is back at the first chunk, which is when free returns true, exactly
\* when the client has returned every block and none was dropped.
COROLLARY PristineWhenEmpty == Spec => []EmptyIsPristine
<1>1. ASSUME TypeOK, HeapParts PROVE live \cup lost = {} <=> top = MspSize
  <2>1. /\ 0 \in Start \ {top} /\ nextChunk(0) = MspSize /\ MspSize \in Nat \ {0}
        /\ Start = {0, top} \cup live \cup lost \cup binned /\ top \in Nat
    BY <1>1, SizesAssumption DEF HeapParts, OneHand, Granted, nextChunk, TypeOK
  <2>2. nextChunk(0) \in Start
    BY <1>1, <2>1 DEF HeapParts, Tiled
  <2>3. ASSUME live \cup lost = {} PROVE top = MspSize
    <3>1. binned = {}
      BY <1>1, <2>3 DEF HeapParts, Bounded
    <3> QED BY <2>1, <2>2, <2>3, <3>1
  <2>4. ASSUME top = MspSize, NEW x \in live \cup lost PROVE FALSE
    <3>1. x \in Start /\ x # 0 /\ x # top /\ x \in Nat /\ x =< top
      <4>1. x \in Start /\ x # 0 /\ x # top
        BY <1>1 DEF HeapParts, OneHand
      <4>2. x \in Unit /\ x =< top
        BY <1>1, <4>1 DEF HeapParts, Tiled, Start
      <4> QED BY <4>1, <4>2, ArenaNat DEF Unit
    <3>2. nextChunk(0) =< x
      BY <1>1, <2>1, <3>1, NextApart DEF HeapParts
    <3> QED BY <2>1, <2>4, <3>1, <3>2
  <2> QED BY <2>3, <2>4
<1>2. TypeOK /\ HeapSound => EmptyIsPristine
  BY <1>1 DEF HeapSound, EmptyIsPristine
<1> QED BY <1>2, HeapInvariant, TypeCorrect, PTL

\* None of the check functions of a debug build fires on a healthy heap.
THEOREM ChecksPass == Spec => []NoAlarm
<1>1. Calm => NoAlarm
  BY DEF Calm, NoAlarm
<1> QED BY <1>1, SoundAndCalm, PTL

\* No free of a healthy heap is led to a chunk that is in no bin.
LEMMA HealthyNotAstray == Spec => [](Healthy => ~astray)
<1> DEFINE Straight == Healthy => ~astray
<1>1. Init => Straight
  BY DEF Init
<1>2. TypeOK /\ HeapSound /\ Calm /\ Straight /\ [Next]_vars => Straight'
  <2> SUFFICES ASSUME TypeOK, HeapSound, Calm, Straight, [Next]_vars, halt' = "no", ~carved' PROVE ~astray'
    BY DEF Healthy, Running
  <2>1. CASE UNCHANGED vars
    BY <2>1 DEF vars, ghosts, Healthy, Running
  <2>2. CASE Next
    <3>1. AnyCall
      BY <2>2, NextCalls
    <3>2. Healthy /\ HeapParts /\ FirstTagged /\ ~astray
      BY <3>1, HealthyBefore DEF HeapSound, Calm
    <3>3. ASSUME NEW r \in Nat, NEW p \in binned, AllocSmallFit(r, p) PROVE ~astray'
      BY <3>2, <3>3 DEF AllocSmallFit, Touching, Crash, Quiet
    <3>4. ASSUME NEW r \in Nat, AllocTop(r) \/ AllocGrow(r) PROVE ~astray'
      BY <3>2, <3>4 DEF AllocTop, AllocGrow, Crash, SplitTop
    <3>5. ASSUME NEW a \in live, FreeDirect(a) PROVE ~astray'
      BY <3>2, <3>5 DEF FreeDirect
    <3>6. ASSUME NEW a \in live, FreeIntoTop(a) \/ FreeNextFree(a) \/ FreeNextInuse(a) PROVE ~astray'
      <4>1. Sound(a)
        BY <3>2, FreeIsLed
      <4> QED BY <3>2, <3>6, <4>1 DEF FreeIntoTop, FreeNextFree, FreeNextInuse, Consolidates
    <3> QED BY <3>1, <3>2, <3>3, <3>4, <3>5, <3>6, HealthySteps
  <2> QED BY <2>1, <2>2
<1> QED BY <1>1, <1>2, SoundAndCalm, TypeCorrect, PTL DEF Spec

\* No call on a healthy heap resizes or moves a block that somebody else holds:
\* what alloc splits and what free merges is never a held chunk.
LEMMA StableStep ==
  ASSUME TypeOK, HeapSound, Calm, AnyCall, halt' = "no", ~carved', NEW b \in live \cup lost, owned'[b] = owned[b]
  PROVE  csize'[b] = csize[b]
<1>0. HeapParts /\ FirstTagged /\ b \in Unit /\ csize \in [Unit -> Nat] /\ owned \in [Unit -> Nat] /\ b \in Nat
  BY HealthyBefore, ArenaNat DEF HeapSound, Calm, Healthy, live, TypeOK, Unit
<1>l. live \cap lost = {} /\ \A a \in live : owned[a] > 0
  BY <1>0 DEF HeapParts, OneHand, live
<1>1. b \notin binned /\ b \in Start /\ b # top /\ b < top /\ top \in Nat
  BY <1>0, AboveStruct DEF HeapParts, OneHand
<1>2. ASSUME NEW r \in Nat, NEW p \in binned, AllocSmallFit(r, p) PROVE csize'[b] = csize[b]
  <2>1. PICK size : csize' = [csize EXCEPT ![p] = size]
    BY <1>2 DEF AllocSmallFit, Touching, Crash, MarkInuse, MayAlloc, Running
  <2> QED BY <1>0, <1>1, <2>1
<1>3. ASSUME NEW r \in Nat, AllocTop(r) \/ AllocGrow(r) PROVE csize'[b] = csize[b]
  <2>1. PICK rest : SplitTop(padRequest(r), rest)
    BY <1>3 DEF AllocTop, AllocGrow, Crash
  <2>2. padRequest(r) \in Nat
    BY SizesAssumption, PadNat
  <2> HIDE DEF padRequest
  <2>3. b # top + padRequest(r)
    BY <1>0, <1>1, <2>2
  <2> QED BY <1>0, <1>1, <2>1, <2>3 DEF SplitTop, SplitInuse
<1>4. ASSUME NEW a \in live, FreeDirect(a) PROVE csize'[b] = csize[b]
  BY <1>4 DEF FreeDirect, heap
<1>5. ASSUME NEW a \in live, FreeIntoTop(a) \/ FreeNextFree(a) \/ FreeNextInuse(a) PROVE csize'[b] = csize[b]
  <2>1. /\ base(a) \in {a} \cup binned /\ owned' = [owned EXCEPT ![a] = 0]
        /\ \E size \in Int, dead \in SUBSET {a, nextChunk(a)} :
              Merge(base(a), size, dead) /\ (nextChunk(a) \in dead => nextChunk(a) \notin live \cup lost)
    BY <1>0, <1>5, FreedWords
  <2>2. b # a
    BY <1>0, <1>l, <2>1
  <2>3. PICK size \in Int, dead \in SUBSET {a, nextChunk(a)} :
              Merge(base(a), size, dead) /\ (nextChunk(a) \in dead => nextChunk(a) \notin live \cup lost)
    BY <2>1
  <2>4. b # base(a) /\ b \notin dead
    BY <1>1, <2>1, <2>2, <2>3
  <2> QED BY <1>0, <2>3, <2>4 DEF Merge
<1> QED BY <1>0, <1>2, <1>3, <1>4, <1>5, HealthySteps

\* A block keeps the chunk it was given until it is freed.
THEOREM BlocksKeepTheirChunk == Spec => ChunkIsStable
<1> DEFINE Stable == \A a \in live : (owned'[a] = owned[a] /\ ~carved' /\ halt' = "no") => csize'[a] = csize[a]
<1>1. TypeOK /\ HeapSound /\ Calm /\ [Next]_vars => [Stable]_vars
  <2> SUFFICES ASSUME TypeOK, HeapSound, Calm, Next PROVE Stable
    OBVIOUS
  <2> QED BY StableStep, NextCalls
<1> QED BY <1>1, TypeCorrect, SoundAndCalm, PTL DEF Spec, ChunkIsStable

-----------------------------------------------------------------------------
(* What allocAligned does to a heap *)

\* A request that is served gives the client one chunk more.
LEMMA GrantOne ==
  ASSUME TypeOK, HeapParts, NEW r \in Nat, alloc(r), halt' = "no", ~carved'
  PROVE  \E p \in Unit \ live : owned' = [owned EXCEPT ![p] = padRequest(r)] /\ lost' = lost
<1>1. PICK s \in {r} : (\E p \in binned : AllocSmallFit(s, p)) \/ AllocTop(s) \/ AllocGrow(s)
  <2>1. dv_size = 0
    BY DEF HeapParts, Granted
  <2>2. padRequest(r) \in Nat /\ padRequest(r) >= 2
    BY SizesAssumption, PadNat
  <2>3. ~AllocWildBin(r) /\ ~AllocDirect(r)
    BY DEF AllocWildBin, AllocDirect, Crash
  <2>5. ASSUME AllocDvSplit(r) PROVE FALSE
    BY <2>1, <2>2, <2>5 DEF AllocDvSplit, kMinChunkSize
  <2>6. ASSUME AllocDvExhaust(r) PROVE FALSE
    BY <2>1, <2>2, <2>6 DEF AllocDvExhaust
  <2>4. \A p \in binned : ~AllocSplit(r, p) /\ ~AllocTree(r, p)
    BY <2>1, <2>2 DEF AllocSplit, AllocTree, Carve, Touching, Crash
  <2> QED BY <2>3, <2>4, <2>5, <2>6 DEF alloc
<1>2. ASSUME NEW p \in binned, AllocSmallFit(r, p)
      PROVE  p \in Unit \ live /\ owned' = [owned EXCEPT ![p] = padRequest(r)] /\ lost' = lost
  BY <1>2 DEF AllocSmallFit, Touching, Crash, Grant, HeapParts, OneHand, binned, MayAlloc, Running
<1>3. ASSUME AllocTop(r) \/ AllocGrow(r)
      PROVE  top \in Unit \ live /\ owned' = [owned EXCEPT ![top] = padRequest(r)] /\ lost' = lost
  <2>1. owned' = [owned EXCEPT ![top] = padRequest(r)] /\ lost' = lost
    BY <1>3 DEF AllocTop, AllocGrow, Crash, SplitTop, Grant
  <2>2. top \in Unit /\ top \notin live
    BY ArenaNat DEF HeapParts, Tiled, OneHand, TypeOK, Unit
  <2> QED BY <2>1, <2>2
<1> QED BY <1>1, <1>2, <1>3

\* Flags of words that are no boundary do not matter.
LEMMA OutsideKeeps ==
  ASSUME HeapParts, NEW S, S \cap Start = {}, csize' = csize, cinuse' = cinuse \cup S,
         pinuse \subseteq pinuse', pinuse' \subseteq pinuse \cup S,
         UNCHANGED <<foot, bin, dv_size, top, top_size, footprint, owned, lost>>
  PROVE  HeapParts'
<1>1. Start' = Start /\ live' = live /\ binned' = binned /\ \A a : nextChunk(a)' = nextChunk(a)
  BY DEF Start, live, binned, nextChunk
<1>2. Tiled'
  BY <1>1 DEF HeapParts, Tiled
<1>3. OneHand' /\ Bounded'
  BY <1>1 DEF HeapParts, OneHand, Bounded
<1>4. \A a \in binned : nextChunk(a) \in Start
  BY DEF HeapParts, Tiled, OneHand
<1>5. Tags'
  <2>1. (cinuse \cap Start)' = {0} \cup live \cup lost
    BY <1>1 DEF HeapParts, Tags
  <2>2. \A a \in live \cup lost : nextChunk(a) \in pinuse' /\ foot'[nextChunk(a)] = Msp
    BY DEF HeapParts, Tags
  <2>3. \A a \in binned : nextChunk(a) \notin pinuse' /\ foot'[nextChunk(a)] = csize[a] /\ bin'[a] = csize[a]
    BY <1>4 DEF HeapParts, Tags
  <2> QED BY <1>1, <2>1, <2>2, <2>3 DEF Tags
<1>6. Granted'
  BY <1>1 DEF HeapParts, Granted
<1> QED BY <1>2, <1>3, <1>5, <1>6 DEF HeapParts

\* The client may be promised any part of its chunk.
LEMMA RegrantKeeps ==
  ASSUME TypeOK, HeapParts, NEW x \in live, NEW g \in Nat \ {0}, g =< csize[x], owned' = [owned EXCEPT ![x] = g],
         UNCHANGED <<csize, pinuse, cinuse, foot, bin, dv_size, top, top_size, footprint, lost>>
  PROVE  HeapParts'
<1>1. \A u \in Unit : owned'[u] = IF u = x THEN g ELSE owned[u]
  BY DEF TypeOK
<1>2. Start' = Start /\ binned' = binned /\ \A a : nextChunk(a)' = nextChunk(a)
  BY DEF Start, binned, nextChunk
<1>3. live' = live
  BY <1>1 DEF live
<1>4. Tiled'
  BY <1>2 DEF HeapParts, Tiled
<1>5. OneHand' /\ Bounded'
  BY <1>2, <1>3 DEF HeapParts, OneHand, Bounded
<1>6. Tags'
  BY <1>2, <1>3 DEF HeapParts, Tags
<1>7. Granted'
  BY <1>1, <1>3 DEF HeapParts, Granted, live
<1> QED BY <1>4, <1>5, <1>6, <1>7 DEF HeapParts

\* A held chunk is cut in two.  The second part goes to the client, or to nobody if h = 0.
LEMMA CutKeeps ==
  ASSUME TypeOK, HeapParts, NEW x \in live, NEW y \in Nat, x < y, y < nextChunk(x),
         NEW g \in Nat \ {0}, g =< y - x, NEW h \in Nat, h =< nextChunk(x) - y,
         csize' = [csize EXCEPT ![x] = y - x, ![y] = nextChunk(x) - y],
         cinuse' = cinuse \cup {x, y}, pinuse' = pinuse \cup {y}, foot' = [foot EXCEPT ![y] = Msp],
         owned' = [owned EXCEPT ![x] = g, ![y] = h], lost' = IF h = 0 THEN lost \cup {y} ELSE lost,
         UNCHANGED <<bin, dv_size, top, top_size, footprint>>
  PROVE  HeapParts'
<1> DEFINE z == nextChunk(x)
<1>1. /\ x \in Start \ {top} /\ x \in Unit /\ csize[x] \in Nat \ {0} /\ z \in Nat /\ x \in Nat /\ x # 0
      /\ z = x + csize[x] /\ z \in Start /\ z =< top /\ top \in Nat /\ top \in Unit
  <2>1. x \in Start \ {top} /\ x \in Unit /\ csize[x] \in Nat \ {0} /\ z \in Nat /\ x # 0
    BY InnerChunk DEF HeapParts, OneHand
  <2>2. z \in Start /\ z =< top /\ top \in Nat /\ top \in Unit
    BY <2>1, ArenaNat DEF HeapParts, Tiled, TypeOK, Unit
  <2> QED BY <2>1, <2>2, ArenaNat DEF nextChunk, Unit
<1>2. y \in Unit /\ y \notin Start /\ y # top /\ y # z /\ y # x /\ y \in Int
  <2>1. y \notin Start
    BY <1>1 DEF HeapParts, Tiled
  <2> QED BY <1>1, <2>1, ArenaNat DEF Unit
<1>3. /\ csize \in [Unit -> Nat] /\ owned \in [Unit -> Nat] /\ foot \in [Unit -> Nat]
      /\ \A a \in Start : a \in Nat
  <2>1. \A a \in Start : a \in Nat
    BY ArenaNat DEF TypeOK, Unit, Start
  <2> QED BY <2>1 DEF TypeOK
<1> HIDE DEF z
<1>4. /\ csize'[x] = y - x /\ csize'[y] = z - y
      /\ \A a \in Unit \ {x, y} : csize'[a] = csize[a]
  BY <1>1, <1>2, <1>3 DEF z
<1>5. Start' = Start \cup {y} /\ binned' = binned
  <2>1. Start' = {a \in Unit : csize'[a] > 0} \cup {top}
    BY DEF Start
  <2>2. \A a \in Unit : csize'[a] > 0 <=> (a = y \/ csize[a] > 0)
    BY <1>1, <1>2, <1>3, <1>4
  <2>3. binned' = binned
    BY DEF binned
  <2> QED BY <1>2, <2>1, <2>2, <2>3 DEF Start
<1>6. live' = live \cup (IF h = 0 THEN {} ELSE {y}) /\ y \notin live \cup lost \cup binned
  <2>1. y \notin live \cup lost \cup binned
    BY <1>2 DEF HeapParts, OneHand
  <2>2. owned[y] = 0
    BY <1>2, <1>3, <2>1 DEF live
  <2>3. \A a \in Unit : owned'[a] > 0 <=> (owned[a] > 0 \/ (a = y /\ h # 0))
    <3>1. owned'[x] = g /\ owned'[y] = h /\ \A a \in Unit \ {x, y} : owned'[a] = owned[a]
      BY <1>1, <1>2, <1>3
    <3>2. owned[x] > 0 /\ g > 0 /\ (h > 0 <=> h # 0)
      BY DEF live
    <3> QED BY <1>2, <2>2, <3>1, <3>2
  <2> QED BY <1>2, <2>1, <2>3 DEF live
<1>7. /\ nextChunk(x)' = y /\ nextChunk(y)' = z
      /\ \A a \in Start \ {x, top} : nextChunk(a)' = nextChunk(a)
  <2>1. nextChunk(x)' = x + csize'[x] /\ nextChunk(y)' = y + csize'[y]
    BY DEF nextChunk
  <2>2. \A a \in Start \ {x, top} : csize'[a] = csize[a]
    BY <1>2, <1>4 DEF Start
  <2>3. nextChunk(x)' = y /\ nextChunk(y)' = z
    BY <1>1, <1>2, <1>4, <2>1
  <2>4. \A a \in Start \ {x, top} : nextChunk(a)' = nextChunk(a)
    BY <2>2 DEF nextChunk
  <2> QED BY <2>3, <2>4
<1>8. Tiled'
  <2>1. \A u \in x + 1 .. z - 1 : u \notin Start
    BY <1>1 DEF HeapParts, Tiled, z
  <2>2. ASSUME NEW a \in Start \ {x, top} PROVE nextChunk(a) \in Start /\ \A u \in a + 1 .. nextChunk(a) - 1 : u \notin Start \cup {y}
    <3>1. nextChunk(a) \in Start /\ \A u \in a + 1 .. nextChunk(a) - 1 : u \notin Start
      BY DEF HeapParts, Tiled
    <3>2. a \in Nat /\ nextChunk(a) \in Nat
      BY <1>3, <3>1
    <3>3. CASE a < x
      <4>1. nextChunk(a) =< x
        BY <1>1, <3>3, NextApart DEF HeapParts
      <4> QED BY <1>1, <3>1, <3>2, <4>1
    <3>4. CASE a > x
      <4>1. z =< a
        BY <1>1, <3>4, NextApart DEF HeapParts, z
      <4> QED BY <1>1, <3>1, <3>2, <4>1 DEF z
    <3> QED BY <1>1, <3>2, <3>3, <3>4
  <2>3. \A a \in Start' \ {top} : /\ nextChunk(a)' \in Start'
                                  /\ \A u \in a + 1 .. nextChunk(a)' - 1 : u \notin Start'
    <3>1. ASSUME NEW a \in Start' \ {top}
          PROVE  nextChunk(a)' \in Start' /\ \A u \in a + 1 .. nextChunk(a)' - 1 : u \notin Start'
      <4>1. CASE a = x
        BY <1>1, <1>2, <1>5, <1>7, <2>1, <4>1 DEF z
      <4>2. CASE a = y
        BY <1>1, <1>2, <1>5, <1>7, <2>1, <4>2 DEF z
      <4>3. CASE a \in Start \ {x, top}
        BY <1>5, <1>7, <2>2, <4>3
      <4> QED BY <1>5, <4>1, <4>2, <4>3
    <3> QED BY <3>1
  <2>4. /\ top + top_size = footprint /\ footprint =< Arena /\ top_size > 0
        /\ \A a \in Start' : a =< top
    BY <1>1, <1>2, <1>5 DEF HeapParts, Tiled, z
  <2> QED BY <2>3, <2>4 DEF Tiled
<1>9. OneHand'
  BY <1>1, <1>2, <1>5, <1>6 DEF HeapParts, OneHand
<1>10. Bounded'
  <2>1. \A a \in binned : a \in Start \ {x, top}
    BY DEF HeapParts, OneHand
  <2> QED BY <1>5, <1>6, <1>7, <2>1 DEF HeapParts, Bounded
<1>11. Tags'
  <2>1. \A a \in live \cup lost \cup binned : a \in Start \ {top} /\ nextChunk(a) # y
    <3>1. \A a \in live \cup lost \cup binned : a \in Start \ {top} /\ nextChunk(a) \in Start
      BY DEF HeapParts, OneHand, Tiled
    <3> QED BY <1>2, <3>1
  <2>2. (cinuse \cap Start)' = {0} \cup live' \cup lost'
    <3>1. cinuse \cap Start = {0} \cup live \cup lost
      BY DEF HeapParts, Tags
    <3> QED BY <1>1, <1>2, <1>5, <1>6, <3>1
  <2>3. ASSUME NEW a \in live \cup lost PROVE nextChunk(a) \in pinuse' /\ foot'[nextChunk(a)] = Msp
    <3>1. nextChunk(a) \in pinuse /\ foot[nextChunk(a)] = Msp
      BY DEF HeapParts, Tags
    <3> QED BY <1>3, <2>1, <3>1
  <2>4. ASSUME NEW a \in binned
        PROVE  nextChunk(a) \notin pinuse' /\ foot'[nextChunk(a)] = csize[a] /\ bin'[a] = csize[a] /\ csize'[a] = csize[a]
               /\ nextChunk(a)' = nextChunk(a)
    <3>1. nextChunk(a) \notin pinuse /\ foot[nextChunk(a)] = csize[a] /\ bin[a] = csize[a] /\ a \notin {x, y} /\ a \in Unit
      BY <1>6 DEF HeapParts, Tags, OneHand, binned
    <3> QED BY <1>3, <1>4, <1>7, <2>1, <3>1
  <2>5. y \in pinuse' /\ foot'[y] = Msp
    BY <1>2, <1>3
  <2>6. \A a \in (live \cup lost)' : nextChunk(a)' \in pinuse' /\ foot'[nextChunk(a)'] = Msp
    <3>1. (live \cup lost)' = live \cup lost \cup {y}
      BY <1>6
    <3>2. z \in pinuse' /\ foot'[z] = Msp
      BY <2>3 DEF z
    <3> QED BY <1>2, <1>7, <2>1, <2>3, <2>5, <3>1, <3>2
  <2>7. \A a \in binned' : nextChunk(a)' \notin pinuse' /\ foot'[nextChunk(a)'] = csize'[a] /\ bin'[a] = csize'[a]
    BY <1>5, <2>4
  <2> QED BY <2>2, <2>6, <2>7 DEF Tags
<1>12. Granted'
  <2>1. csize'[0] = csize[0]
    <3>1. 0 \in Unit \ {x, y}
      BY <1>1, ArenaNat, SizesAssumption DEF Unit
    <3> QED BY <1>4, <3>1
  <2>2. ASSUME NEW a \in live' PROVE owned'[a] =< csize'[a]
    <3>1. CASE a = x
      BY <1>1, <1>2, <1>3, <1>4, <3>1
    <3>2. CASE a = y
      BY <1>1, <1>2, <1>3, <1>4, <3>2 DEF z
    <3>3. CASE a \notin {x, y}
      <4>1. a \in live /\ a \in Unit
        BY <1>6, <3>3 DEF live
      <4> QED BY <1>3, <1>4, <3>3, <4>1 DEF HeapParts, Granted
    <3> QED BY <3>1, <3>2, <3>3
  <2> QED BY <2>1, <2>2 DEF Granted, HeapParts
<1> QED BY <1>8, <1>9, <1>10, <1>11, <1>12 DEF HeapParts
=============================================================================
