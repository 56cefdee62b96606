---------------------------- MODULE MemAllocRegions ----------------------------
(***************************************************************************)
(* The space of a MemorySpace as regions: what the client holds, what      *)
(* waits in a bin, the designated victim and top.  Unlike the boundary     *)
(* tags of MemAllocHeap, the regions stay apart when lines 942-945 and     *)
(* 883-885 have written the head of the wrong chunk, and do so until a     *)
(* free is led by a stale footer or a missing head to a chunk in no bin    *)
(* (astray), which it consolidates with all the same.                      *)
(***************************************************************************)
EXTENDS MemAllocHeap

Over(u, z) == z =< u /\ u < z + Span(z)

\* A unit below top that no region has, and no boundary: it is never used again.
Dead(u) == u \notin Start /\ u < top /\ \A z \in Places : ~Over(u, z)

\* A held block that free ignores, or can only stop at.
Stuck(z) == z \in live /\ (z \in cinuse => Dead(nextChunk(z)))

\* Nothing that can come back into the space's hands has the unit u.
Idle(u) == \A z \in Places : Over(u, z) => Stuck(z)

\* Following prev_foot from x to y meets a free region that ends at x, or nothing.
Joins(y, x) ==
  \A z \in Places : Over(y, z) => Stuck(z) \/ (z \notin live /\ y = z /\ z + Span(z) = x)

FreeTags == \A z \in Places \ live : z \in Start => z \in pinuse \ cinuse
OneUse   == live \cap binned = {} /\ (dv_size > 0 => dv \in Unit /\ dv \notin live \cup binned)
TopEnds  == MspSize =< top /\ top + top_size = footprint /\ footprint =< Arena /\ top_size > 0
Enough  == \A a \in live : owned[a] =< Span(a) /\ (a \notin cinuse => a \in pinuse)
Follows == \A z \in live \cap cinuse : nextChunk(z) \in Start => nextChunk(z) \in pinuse
BlankTop == \A u \in Unit : u > top => csize[u] = 0
Blank ==
  \A z \in Places : (z \in live => z \in cinuse) =>
    \A u \in Unit : z < u /\ u < z + Span(z) => csize[u] = 0
Backlinks == \A x \in (live \cap cinuse) \ pinuse : Joins(x - foot[x], x)
Headless  == \A x \in Places \ Start : Idle(x - foot[x]) /\ Idle(x - 1)

\* The inductive invariant.
Regions ==
  /\ FreeTags /\ OneUse /\ TopEnds /\ Apart /\ Enough /\ Follows
  /\ BlankTop /\ Blank /\ Backlinks /\ Headless
RegionsApart == Running /\ ~astray => Regions

\* Where a region may lie.
LEMMA PlaceFacts ==
  ASSUME TypeOK, Regions
  PROVE  /\ Unit \subseteq Nat /\ top \in Unit /\ MspSize \in Nat \ {0} /\ top_size \in Nat /\ footprint \in Nat
         /\ \A z \in Places : /\ z \in Unit /\ z \in Nat /\ Span(z) \in Nat \ {0} /\ z + Span(z) \in Unit
                              /\ z + Span(z) =< top /\ MspSize =< z /\ z < top
         /\ \A z \in Places : z \in live => owned[z] > 0 /\ bin[z] = 0 /\ ~isDv(z)
         /\ csize \in [Unit -> Nat] /\ foot \in [Unit -> Nat] /\ bin \in [Unit -> Nat] /\ owned \in [Unit -> Nat]
         /\ pinuse \subseteq Nat /\ dv_size \in Nat /\ Msp \in Nat /\ Unit = 0 .. Arena - 1 /\ Arena \in Nat
<1>1. /\ csize \in [Unit -> Nat] /\ foot \in [Unit -> Nat] /\ bin \in [Unit -> Nat] /\ owned \in [Unit -> Nat]
      /\ dv_size \in Nat /\ top_size \in Nat /\ footprint \in Nat /\ top \in Nat /\ pinuse \subseteq Nat
  BY DEF TypeOK
<1>2. Arena \in Nat /\ Unit = 0 .. Arena - 1 /\ Unit \subseteq Nat /\ MspSize \in Nat \ {0} /\ Msp \in Nat
  BY ArenaNat, SizesAssumption DEF Unit, Msp
<1>3. top \in Unit
  BY <1>1, <1>2 DEF Regions, TopEnds
<1>4. ASSUME NEW z \in Places
      PROVE  /\ z \in Unit /\ z \in Nat /\ Span(z) \in Nat \ {0} /\ z + Span(z) \in Unit
             /\ z + Span(z) =< top /\ MspSize =< z /\ z < top
  <2>1. z \in Unit /\ z \in Nat
    BY <1>2 DEF Places, live, binned
  <2>2. Span(z) \in Nat
    BY <1>1, <2>1 DEF Span
  <2>3. Span(z) > 0 /\ z + Span(z) =< top /\ MspSize =< z
    BY DEF Regions, Apart
  <2> DEFINE s == Span(z)
  <2> HIDE DEF s
  <2>4. s \in Nat \ {0} /\ z + s =< top /\ MspSize =< z
    BY <2>2, <2>3 DEF s
  <2>5. z + s \in Unit /\ z < top
    BY <1>2, <1>3, <2>1, <2>4
  <2> QED BY <2>1, <2>4, <2>5 DEF s
<1>5. ASSUME NEW z \in live PROVE owned[z] > 0 /\ bin[z] = 0 /\ ~isDv(z)
  <2>1. z \in Unit /\ owned[z] > 0
    BY DEF live
  <2>2. bin[z] \in Nat /\ ~(bin[z] > 0)
    BY <1>1, <2>1 DEF binned, Regions, OneUse
  <2>3. ~isDv(z)
    BY DEF isDv, Regions, OneUse
  <2> QED BY <2>1, <2>2, <2>3
<1> QED BY <1>1, <1>2, <1>3, <1>4, <1>5

\* A unit is in one region only.
LEMMA OverOne ==
  ASSUME TypeOK, Regions, NEW u \in Int, NEW x \in Places, NEW y \in Places, Over(u, x), Over(u, y)
  PROVE  x = y
<1>1. x \in Nat /\ y \in Nat /\ Span(x) \in Nat /\ Span(y) \in Nat
  BY PlaceFacts
<1>2. x < y => x + Span(x) =< y
  BY DEF Regions, Apart
<1>3. y < x => y + Span(y) =< x
  BY DEF Regions, Apart
<1> QED BY <1>1, <1>2, <1>3 DEF Over

\* The last unit of a region.
LEMMA EndOne ==
  ASSUME TypeOK, Regions, NEW x \in Places, NEW y \in Places, x + Span(x) = y + Span(y)
  PROVE  x = y
<1>1. x \in Nat /\ y \in Nat /\ Span(x) \in Nat \ {0} /\ Span(y) \in Nat \ {0}
  BY PlaceFacts
<1>2. Over(x + Span(x) - 1, x) /\ Over(x + Span(x) - 1, y)
  BY <1>1 DEF Over
<1> QED BY <1>1, <1>2, OverOne

\* A block that is stuck stays stuck as long as the client holds it.
LEMMA StuckStays ==
  ASSUME TypeOK, NEW z, Stuck(z), z \in live', csize'[z] = csize[z], z \in cinuse' <=> z \in cinuse,
         \A u \in Nat : Dead(u) => Dead(u)'
  PROVE  Stuck(z)'
<1>1. nextChunk(z)' = nextChunk(z) /\ nextChunk(z) \in Nat
  <2>1. z \in Unit /\ z \in Nat /\ csize[z] \in Nat
    BY ArenaNat DEF Stuck, live, TypeOK, Unit
  <2> QED BY <2>1 DEF nextChunk
<1>2. ASSUME z \in cinuse' PROVE Dead(nextChunk(z))'
  <2>1. Dead(nextChunk(z))
    BY <1>2 DEF Stuck
  <2>2. \E u : u = nextChunk(z)
    OBVIOUS
  <2>3. PICK u : u = nextChunk(z)
    BY <2>2
  <2>4. Dead(u)'
    BY <1>1, <2>1, <2>3
  <2> QED BY <1>1, <2>3, <2>4
<1> QED BY <1>2 DEF Stuck

-----------------------------------------------------------------------------
(* alloc *)

\* A free region is handed out whole, or, for the designated victim, all but
\* its last unit.
LEMMA WholeRegions ==
  ASSUME TypeOK, Regions, NEW r \in Places \ live, NEW k \in Nat \ {0}, k =< Span(r),
         NEW nb \in Nat \ {0}, nb =< k,
         MarkInuse(r, k), owned' = [owned EXCEPT ![r] = nb], bin' = Unlink({r}),
         \A a \in Unit : isDv(a)' <=> isDv(a) /\ a # r,
         (dv_size' = dv_size /\ dv' = dv) \/ dv_size' = 0,
         UNCHANGED <<top, top_size, footprint>>
  PROVE  Regions'
<1>0. /\ Unit \subseteq Nat /\ top \in Unit /\ top \in Nat
      /\ \A z \in Places : /\ z \in Unit /\ z \in Nat /\ Span(z) \in Nat \ {0} /\ z + Span(z) \in Unit
                           /\ z + Span(z) =< top /\ MspSize =< z /\ z < top
      /\ csize \in [Unit -> Nat] /\ foot \in [Unit -> Nat] /\ bin \in [Unit -> Nat] /\ owned \in [Unit -> Nat]
      /\ pinuse \subseteq Nat /\ dv_size \in Nat /\ Msp \in Nat
  BY PlaceFacts
<1>1. /\ r \in Unit /\ r \in Nat /\ r + k \in Unit /\ r + k \in Nat /\ r + k =< r + Span(r)
      /\ Span(r) \in Nat
  <2>1. r \in Nat /\ r \in Unit /\ Span(r) \in Nat /\ r + Span(r) \in Unit
    BY <1>0
  <2> DEFINE s == Span(r)
  <2> HIDE DEF s
  <2>2. r + k =< r + s /\ r + k \in Nat /\ s \in Nat /\ r + s \in Unit
    BY <2>1 DEF s
  <2>3. r + k \in Unit
    BY <2>2, ArenaNat DEF Unit
  <2> QED BY <2>1, <2>2, <2>3 DEF s
<1>2. live' = live \cup {r} /\ binned' = binned \ {r} /\ Places' = Places
  <2>1. live' = live \cup {r}
    BY <1>0, <1>1 DEF live
  <2>2. binned' = binned \ {r}
    BY <1>0, <1>1 DEF binned, Unlink
  <2>3. {a \in Unit : isDv(a)}' = {a \in Unit : isDv(a)} \ {r}
    BY <1>1
  <2> QED BY <2>1, <2>2, <2>3 DEF Places
<1>3. /\ \A u \in Unit : csize'[u] = IF u = r THEN k ELSE csize[u]
      /\ \A u \in Unit : foot'[u] = IF u = r + k THEN Msp ELSE foot[u]
      /\ cinuse' = cinuse \cup {r} /\ r + k \in pinuse' /\ pinuse \ {r} \subseteq pinuse'
      /\ (csize[r] > 0 => pinuse \subseteq pinuse')
  <2>1. /\ csize' = [csize EXCEPT ![r] = k] /\ foot' = [foot EXCEPT ![r + k] = Msp]
        /\ cinuse' = cinuse \cup {r}
        /\ \E kept \in IF csize[r] > 0 THEN {pinuse} ELSE {pinuse \cup {r}, pinuse \ {r}} :
              pinuse' = kept \cup {r + k}
    BY DEF MarkInuse
  <2>2. \E kept : pinuse' = kept \cup {r + k} /\ kept \in {pinuse, pinuse \cup {r}, pinuse \ {r}}
                  /\ (csize[r] > 0 => kept = pinuse)
    BY <2>1
  <2> QED BY <1>0, <1>1, <2>1, <2>2
<1>4. /\ Span(r)' = k
      /\ \A z \in Places : z # r => Span(z)' = Span(z)
  <2>1. Span(r)' = k
    BY <1>1, <1>2, <1>3 DEF Span
  <2>2. ASSUME NEW z \in Places, z # r PROVE Span(z)' = Span(z)
    <3>1. /\ z \in live' <=> z \in live
          /\ z \in binned' <=> z \in binned
          /\ z \in cinuse' <=> z \in cinuse
          /\ z \in Unit /\ csize'[z] = csize[z]
      BY <2>2, <1>0, <1>2, <1>3
    <3>2. owned'[z] = owned[z] /\ bin'[z] = bin[z]
      BY <2>2, <3>1, <1>0 DEF Unlink
    <3>3. z \notin live \cup binned => dv_size' = dv_size
      <4>1. z \notin live \cup binned => isDv(z)
        BY DEF Places
      <4>2. isDv(z) => isDv(z)'
        BY <2>2, <3>1
      <4>3. isDv(z)' => dv_size' > 0
        BY DEF isDv
      <4> QED BY <4>1, <4>2, <4>3
    <3> QED BY <3>1, <3>2, <3>3 DEF Span
  <2> QED BY <2>1, <2>2
<1>5. Start' = Start \cup {r}
  <2>1. \A u \in Unit : csize'[u] > 0 <=> csize[u] > 0 \/ u = r
    BY <1>0, <1>1, <1>3
  <2> QED BY <1>1, <2>1 DEF Start
<1>6. \A u \in Int : \A z \in Places : Over(u, z)' => Over(u, z)
  <2> SUFFICES ASSUME NEW u \in Int, NEW z \in Places, Over(u, z)' PROVE Over(u, z)
    OBVIOUS
  <2>1. z =< u /\ u < z + Span(z)'
    BY DEF Over
  <2>2. Span(z) \in Nat /\ z \in Nat /\ (Span(z)' = Span(z) \/ z = r)
    BY <1>0, <1>4
  <2> QED BY <2>1, <2>2, <1>1, <1>4 DEF Over
<1>r. Over(r, r) /\ r \notin live /\ r # top
  BY <1>0, <1>1 DEF Over
<1>7. \A u \in Nat : Dead(u) => Dead(u)'
  <2> SUFFICES ASSUME NEW u \in Nat, Dead(u) PROVE Dead(u)'
    OBVIOUS
  <2>1. u # r
    BY <1>r DEF Dead
  <2> QED BY <2>1, <1>2, <1>5, <1>6 DEF Dead
<1>8. \A z \in live : Stuck(z) => Stuck(z)'
  BY <1>0, <1>2, <1>3, <1>7, <1>r, StuckStays DEF live
<1>9. \A u \in Int : Idle(u) => Idle(u)'
  BY <1>2, <1>6, <1>8 DEF Idle, Stuck
<1>10. FreeTags' /\ OneUse' /\ TopEnds'
  <2>1. FreeTags'
    BY <1>2, <1>3, <1>5, <1>r DEF FreeTags, Regions
  <2>2. live' \cap binned' = {}
    BY <1>2 DEF Regions, OneUse
  <2>3. ASSUME dv_size' > 0 PROVE dv' \in Unit /\ dv' \notin live' \cup binned'
    <3>1. dv' = dv /\ dv_size' = dv_size /\ dv \in Unit /\ dv \notin live \cup binned
      BY <2>3 DEF Regions, OneUse
    <3>2. isDv(dv)'
      BY <2>3, <3>1 DEF isDv
    <3>3. dv # r
      BY <3>1, <3>2
    <3> QED BY <3>1, <3>3, <1>2
  <2>4. TopEnds'
    BY DEF Regions, TopEnds
  <2> QED BY <2>1, <2>2, <2>3, <2>4 DEF OneUse
<1>11. Apart'
  <2>1. ASSUME NEW a \in Places PROVE MspSize =< a /\ Span(a)' > 0 /\ a + Span(a)' =< top
    BY <1>0, <1>1, <1>4 DEF Regions, Apart
  <2>2. ASSUME NEW a \in Places, NEW b \in Places, a < b PROVE a + Span(a)' =< b
    <3>1. a + Span(a) =< b /\ a \in Nat /\ b \in Nat /\ Span(a) \in Nat
      BY <2>2, <1>0 DEF Regions, Apart
    <3> QED BY <3>1, <1>1, <1>4
  <2> QED BY <1>2, <2>1, <2>2 DEF Apart
<1>12. Enough'
  <2>1. owned'[r] = nb /\ r \in cinuse'
    BY <1>0, <1>1, <1>3
  <2>2. ASSUME NEW z \in live PROVE owned'[z] =< Span(z)' /\ (z \notin cinuse' => z \in pinuse')
    <3>1. z # r /\ z \in Places /\ owned'[z] = owned[z] /\ Span(z)' = Span(z)
      BY <1>0, <1>4, <1>r DEF Places, live
    <3> QED BY <3>1, <1>3 DEF Regions, Enough
  <2> QED BY <1>2, <1>4, <2>1, <2>2 DEF Enough
<1>13. Follows'
  <2> SUFFICES ASSUME NEW z \in (live \cap cinuse)', nextChunk(z)' \in Start' PROVE nextChunk(z)' \in pinuse'
    BY DEF Follows
  <2>1. CASE z = r
    BY <2>1, <1>1, <1>3 DEF nextChunk
  <2>2. CASE z # r
    <3>1. z \in live \cap cinuse /\ z \in Places /\ z \in Unit /\ nextChunk(z)' = nextChunk(z) /\ Span(z) = csize[z]
      BY <2>2, <1>0, <1>2, <1>3 DEF nextChunk, Places, Span
    <3>2. CASE nextChunk(z) # r
      BY <3>1, <3>2, <1>3, <1>5 DEF Regions, Follows
    <3>3. CASE nextChunk(z) = r /\ csize[r] > 0
      BY <3>1, <3>3, <1>1, <1>3 DEF Regions, Follows, Start
    <3>4. CASE nextChunk(z) = r /\ ~(csize[r] > 0)
      <4>1. r \notin Start
        BY <3>4, <1>r DEF Start
      <4>2. Idle(r - 1)
        BY <4>1 DEF Regions, Headless
      <4>3. Over(r - 1, z)
        BY <3>1, <3>4, <1>0 DEF Over, nextChunk
      <4>4. Dead(r)
        BY <4>2, <4>3, <3>1, <3>4 DEF Idle, Stuck
      <4> QED BY <4>4, <1>r DEF Dead
    <3> QED BY <3>2, <3>3, <3>4
  <2> QED BY <2>1, <2>2
<1>14. BlankTop'
  BY <1>0, <1>1, <1>3 DEF Regions, BlankTop
<1>15. \A u \in Unit : r < u /\ u < r + Span(r) => csize[u] = 0
  BY <1>r DEF Regions, Blank
<1>16. Blank'
  <2> SUFFICES ASSUME NEW z \in Places, z \in live' => z \in cinuse', NEW u \in Unit, z < u, u < z + Span(z)'
               PROVE  csize'[u] = 0
    BY <1>2 DEF Blank
  <2>0. u \in Nat /\ z \in Nat /\ Span(z) \in Nat
    BY <1>0
  <2>1. CASE z = r
    BY <2>0, <2>1, <1>1, <1>3, <1>4, <1>15
  <2>2. CASE z # r
    <3>1. Over(u, z) /\ (z \in live => z \in cinuse)
      BY <2>0, <2>2, <1>2, <1>3, <1>4 DEF Over
    <3>2. u # r
      BY <2>0, <2>2, <3>1, <1>r, OverOne
    <3> QED BY <2>2, <3>1, <3>2, <1>3, <1>4 DEF Regions, Blank
  <2> QED BY <2>1, <2>2
<1>17. ASSUME k < Span(r) PROVE Stuck(r)'
  <2>1. r + k \notin Start' /\ r + k < top
    BY <1>0, <1>1, <1>5, <1>15, <1>17 DEF Start
  <2>2. \A z \in Places : ~(z =< r + k /\ r + k < z + Span(z)')
    <3> SUFFICES ASSUME NEW z \in Places, z =< r + k, r + k < z + Span(z)' PROVE FALSE
      OBVIOUS
    <3>1. z # r
      BY <1>1, <1>4
    <3>2. Over(r + k, z) /\ Over(r + k, r)
      BY <3>1, <1>1, <1>4, <1>17 DEF Over
    <3> QED BY <3>1, <3>2, <1>1, OverOne
  <2>3. nextChunk(r)' = r + k
    BY <1>1, <1>3 DEF nextChunk
  <2> QED BY <2>1, <2>2, <2>3, <1>2 DEF Stuck, Dead, Over
<1>19. Backlinks'
  <2> SUFFICES ASSUME NEW x \in (live \cap cinuse)', x \notin pinuse', NEW y, y = x - foot'[x] PROVE Joins(y, x)'
    BY DEF Backlinks
  <2>1. CASE x = r
    <3>1. csize[r] = 0 /\ r \notin Start
      BY <2>1, <1>0, <1>1, <1>3, <1>r DEF Regions, FreeTags, Start
    <3>2. y = r - foot[r] /\ y \in Int
      BY <2>1, <1>0, <1>1, <1>3
    <3>3. Idle(y)
      BY <3>1, <3>2 DEF Regions, Headless
    <3> QED BY <3>2, <3>3, <1>9 DEF Idle, Joins
  <2>2. CASE x # r
    <3>1. x \in (live \cap cinuse) \ pinuse /\ x # r + k /\ x \in Unit /\ y = x - foot[x] /\ y \in Int
      BY <2>2, <1>0, <1>2, <1>3 DEF live
    <3>2. Joins(y, x)
      BY <3>1 DEF Regions, Backlinks
    <3> SUFFICES ASSUME NEW z \in Places, Over(y, z)'
                 PROVE  Stuck(z)' \/ (z \notin live' /\ y = z /\ z + Span(z)' = x)
      BY <1>2 DEF Joins
    <3>3. Stuck(z) \/ (z \notin live /\ y = z /\ z + Span(z) = x)
      BY <3>1, <3>2, <1>6 DEF Joins
    <3>4. CASE z = r
      <4>1. r + Span(r) = x /\ Span(r) # k
        BY <3>1, <3>3, <3>4, <1>r DEF Stuck
      <4> QED BY <3>4, <4>1, <1>1, <1>17
    <3>5. CASE z # r
      BY <3>3, <3>5, <1>2, <1>4, <1>8 DEF Stuck
    <3> QED BY <3>4, <3>5
  <2> QED BY <2>1, <2>2
<1>20. Headless'
  <2> SUFFICES ASSUME NEW x \in Places, x \notin Start', NEW y, y = x - foot'[x], NEW w, w = x - 1
               PROVE  Idle(y)' /\ Idle(w)'
    BY <1>2 DEF Headless
  <2>1. x # r /\ x \notin Start /\ x \in Nat /\ x \in Unit
    BY <1>0, <1>5
  <2>2. Idle(x - foot[x]) /\ Idle(w)
    BY <2>1 DEF Regions, Headless
  <2>3. x # r + k
    <3> SUFFICES ASSUME x = r + k PROVE FALSE
      OBVIOUS
    <3>1. CASE k = Span(r)
      BY <2>1, <2>2, <3>1, <1>0, <1>1, <1>r DEF Idle, Over, Stuck
    <3>2. CASE k # Span(r)
      <4>1. Over(x, r) /\ Over(x, x)
        BY <2>1, <3>2, <1>0, <1>1 DEF Over
      <4> QED BY <2>1, <4>1, OverOne
    <3> QED BY <3>1, <3>2
  <2>4. y = x - foot[x] /\ y \in Int /\ w \in Int
    BY <2>1, <2>3, <1>0, <1>3
  <2> QED BY <2>2, <2>4, <1>9
<1> QED BY <1>10, <1>11, <1>12, <1>13, <1>14, <1>16, <1>19, <1>20 DEF Regions

\* The designated victim is split: the block in front, the rest stays dv.
LEMMA DvRegions ==
  ASSUME TypeOK, Regions, NEW r, r = dv, dv_size > 0, NEW nb \in Nat \ {0}, NEW rest \in Nat \ {0},
         NEW t, t = r + nb, nb + rest = dv_size,
         SplitInuse(r, nb, rest), foot' = [foot EXCEPT ![t] = Msp, ![r + dv_size] = rest],
         dv' = t, dv_size' = rest, owned' = [owned EXCEPT ![r] = nb],
         UNCHANGED <<bin, top, top_size, footprint>>
  PROVE  Regions'
<1>0. /\ Unit \subseteq Nat /\ top \in Unit /\ top \in Nat
      /\ \A z \in Places : /\ z \in Unit /\ z \in Nat /\ Span(z) \in Nat \ {0} /\ z + Span(z) \in Unit
                           /\ z + Span(z) =< top /\ MspSize =< z /\ z < top
      /\ csize \in [Unit -> Nat] /\ foot \in [Unit -> Nat] /\ bin \in [Unit -> Nat] /\ owned \in [Unit -> Nat]
      /\ MspSize \in Nat
  BY PlaceFacts
<1>1. /\ r \in Places \ live /\ r \notin binned /\ Span(r) = nb + rest /\ r \in Nat /\ r \in Unit
      /\ r + nb + rest \in Unit /\ r # top /\ Over(r, r)
  <2>1. r \in Unit /\ r \notin live \cup binned /\ isDv(r)
    BY DEF Regions, OneUse, isDv
  <2>2. r \in Places /\ Span(r) = nb + rest
    BY <2>1 DEF Places, Span
  <2>3. r \in Nat /\ r + Span(r) \in Unit /\ r < top
    BY <2>2, <1>0
  <2> QED BY <2>1, <2>2, <2>3 DEF Over
<1>2. t \in Unit /\ t \in Nat /\ r < t /\ t < r + nb + rest /\ t < top /\ r + nb + rest \in Nat
      /\ t + rest = r + nb + rest /\ r + nb + rest =< top
  <2>1. t \in Nat /\ r < t /\ t < r + nb + rest /\ r + nb + rest \in Nat /\ t + rest = r + nb + rest
    BY <1>1
  <2>2. r + Span(r) =< top
    BY <1>0, <1>1
  <2>3. r + nb + rest = r + Span(r)
    BY <1>1
  <2>4. t \in Unit
    BY <1>0, <1>1, <2>1, ArenaNat DEF Unit
  <2> QED BY <2>1, <2>2, <2>3, <2>4, <1>0
<1>3. /\ \A u \in Unit : csize'[u] = IF u = r THEN nb ELSE IF u = t THEN rest ELSE csize[u]
      /\ \A u \in Unit : foot'[u] = IF u = r + nb + rest THEN rest ELSE IF u = t THEN Msp ELSE foot[u]
      /\ cinuse' = (cinuse \cup {r}) \ {t} /\ pinuse' = pinuse \cup {r, t}
  <2>1. csize' = [csize EXCEPT ![r] = nb, ![t] = rest] /\ r + dv_size = r + nb + rest
    BY <1>1 DEF SplitInuse
  <2>2. cinuse' = (cinuse \cup {r}) \ {t} /\ pinuse' = pinuse \cup {r, t}
    BY DEF SplitInuse
  <2> QED BY <1>0, <1>1, <1>2, <2>1, <2>2
<1>t. t \notin Places
  <2> SUFFICES ASSUME t \in Places PROVE FALSE
    OBVIOUS
  <2>1. Over(t, t) /\ Over(t, r)
    BY <1>0, <1>1, <1>2 DEF Over
  <2> QED BY <2>1, <1>1, <1>2, OverOne
<1>4. live' = live \cup {r} /\ binned' = binned /\ Places' = Places \cup {t} /\ t \notin live'
  <2>1. live' = live \cup {r}
    BY <1>0, <1>1 DEF live
  <2>2. binned' = binned
    BY DEF binned
  <2>3. {a \in Unit : isDv(a)}' = {t} /\ {a \in Unit : isDv(a)} = {r}
    BY <1>1, <1>2 DEF isDv
  <2>4. Places = live \cup binned \cup {r}
    BY <2>3 DEF Places
  <2>5. Places' = live' \cup binned' \cup {t}
    BY <2>3 DEF Places
  <2> QED BY <2>1, <2>2, <2>4, <2>5, <1>1, <1>2, <1>t DEF Places
<1>5. Span(r)' = nb /\ Span(t)' = rest /\ \A z \in Places : z # r => Span(z)' = Span(z)
  <2>1. Span(r)' = nb
    BY <1>1, <1>2, <1>3, <1>4 DEF Span
  <2>2. Span(t)' = rest
    BY <1>t, <1>4 DEF Span, Places
  <2>3. ASSUME NEW z \in Places, z # r PROVE Span(z)' = Span(z)
    <3>1. z # t /\ z \in live \cup binned /\ z \in Unit
      BY <2>3, <1>0, <1>t DEF Places, isDv
    <3> QED BY <2>3, <3>1, <1>0, <1>3, <1>4 DEF Span
  <2> QED BY <2>1, <2>2, <2>3
<1>6. Start' = Start \cup {r, t}
  <2>1. \A u \in Unit : csize'[u] > 0 <=> csize[u] > 0 \/ u = r \/ u = t
    BY <1>0, <1>1, <1>2, <1>3
  <2> QED BY <1>1, <1>2, <2>1 DEF Start
<1>7. /\ \A u \in Int : \A z \in Places : Over(u, z)' => Over(u, z)
      /\ \A u \in Int : Over(u, t)' => Over(u, r)
  <2> SUFFICES ASSUME NEW u \in Int
               PROVE  /\ \A z \in Places : Over(u, z)' => Over(u, z)
                      /\ Over(u, t)' => Over(u, r)
    OBVIOUS
  <2>1. ASSUME NEW z \in Places, Over(u, z)' PROVE Over(u, z)
    <3>1. z =< u /\ u < z + Span(z)' /\ Span(z) \in Nat /\ z \in Nat
      BY <2>1, <1>0 DEF Over
    <3> QED BY <3>1, <1>1, <1>5 DEF Over
  <2>2. ASSUME Over(u, t)' PROVE Over(u, r)
    BY <2>2, <1>1, <1>2, <1>5 DEF Over
  <2> QED BY <2>1, <2>2
<1>8. \A u \in Nat : Dead(u) => Dead(u)'
  <2> SUFFICES ASSUME NEW u \in Nat, Dead(u) PROVE Dead(u)'
    OBVIOUS
  <2>1. ~Over(u, r) /\ u \notin Start /\ u < top
    BY <1>1 DEF Dead
  <2>2. u # r /\ u # t
    BY <2>1, <1>1, <1>2 DEF Over
  <2> QED BY <2>1, <2>2, <1>4, <1>6, <1>7 DEF Dead
<1>9. \A z \in live : Stuck(z) => Stuck(z)'
  <2> SUFFICES ASSUME NEW z \in live, Stuck(z) PROVE Stuck(z)'
    OBVIOUS
  <2>1. z # r /\ z # t /\ z \in Unit
    BY <1>1, <1>t DEF Places, live
  <2> QED BY <2>1, <1>3, <1>4, <1>8, StuckStays
<1>10. \A u \in Int : Idle(u) => Idle(u)'
  <2> SUFFICES ASSUME NEW u \in Int, Idle(u), NEW z \in Places \cup {t}, Over(u, z)' PROVE Stuck(z)'
    BY <1>4 DEF Idle
  <2>1. ~Over(u, r)
    BY <1>1 DEF Idle, Stuck
  <2>2. z \in Places /\ Over(u, z)
    BY <2>1, <1>7
  <2> QED BY <2>2, <1>9 DEF Idle, Stuck
<1>11. FreeTags' /\ OneUse' /\ TopEnds'
  <2>1. FreeTags'
    BY <1>3, <1>4, <1>6 DEF FreeTags, Regions
  <2>2. live' \cap binned' = {} /\ t \notin live' \cup binned'
    BY <1>1, <1>t, <1>4 DEF Regions, OneUse, Places
  <2>3. TopEnds'
    BY DEF Regions, TopEnds
  <2> QED BY <2>1, <2>2, <2>3, <1>2 DEF OneUse
<1>12. Apart'
  <2>1. ASSUME NEW a \in Places PROVE MspSize =< a /\ Span(a)' > 0 /\ a + Span(a)' =< top
    BY <1>0, <1>1, <1>2, <1>5
  <2>2. MspSize =< t /\ Span(t)' > 0 /\ t + Span(t)' =< top
    BY <1>0, <1>1, <1>2, <1>5
  <2>3. ASSUME NEW a \in Places, NEW b \in Places, a < b PROVE a + Span(a)' =< b
    <3>1. a + Span(a) =< b /\ a \in Nat /\ b \in Nat /\ Span(a) \in Nat
      BY <2>3, <1>0 DEF Regions, Apart
    <3> QED BY <3>1, <1>1, <1>5
  <2>4. ASSUME NEW a \in Places, a < t PROVE a + Span(a)' =< t
    <3>1. a > r => r + Span(r) =< a
      BY <1>1 DEF Regions, Apart
    <3>2. a < r => a + Span(a) =< r
      BY <1>1 DEF Regions, Apart
    <3>3. a \in Nat /\ Span(a) \in Nat
      BY <1>0
    <3> QED BY <2>4, <3>1, <3>2, <3>3, <1>1, <1>2, <1>5
  <2>5. ASSUME NEW b \in Places, t < b PROVE t + Span(t)' =< b
    <3>1. r < b /\ b \in Nat
      BY <2>5, <1>0, <1>1, <1>2
    <3>2. r + Span(r) =< b
      BY <3>1, <1>1 DEF Regions, Apart
    <3> QED BY <3>1, <3>2, <1>1, <1>2, <1>5
  <2> QED BY <2>1, <2>2, <2>3, <2>4, <2>5, <1>2, <1>4 DEF Apart
<1>13. Enough'
  <2>1. owned'[r] = nb /\ r \in pinuse'
    BY <1>0, <1>1, <1>3
  <2>2. ASSUME NEW z \in live PROVE owned'[z] =< Span(z)' /\ (z \notin cinuse' => z \in pinuse')
    <3>1. z # r /\ z # t /\ z \in Places /\ owned'[z] = owned[z] /\ Span(z)' = Span(z)
      BY <1>0, <1>1, <1>t, <1>5 DEF Places, live
    <3> QED BY <3>1, <1>3 DEF Regions, Enough
  <2> QED BY <1>4, <1>5, <2>1, <2>2 DEF Enough
<1>14. Follows'
  <2> SUFFICES ASSUME NEW z \in (live \cap cinuse)', nextChunk(z)' \in Start' PROVE nextChunk(z)' \in pinuse'
    BY DEF Follows
  <2>1. CASE z = r
    BY <2>1, <1>1, <1>2, <1>3 DEF nextChunk
  <2>2. CASE z # r
    <3>1. z \in live \cap cinuse /\ nextChunk(z)' = nextChunk(z)
      BY <2>2, <1>0, <1>3, <1>4 DEF nextChunk, live
    <3> QED BY <3>1, <1>3, <1>6 DEF Regions, Follows
  <2> QED BY <2>1, <2>2
<1>15. BlankTop'
  BY <1>0, <1>1, <1>2, <1>3 DEF Regions, BlankTop
<1>16. \A u \in Unit : r < u /\ u < r + nb + rest => csize[u] = 0
  <2>1. \A u \in Unit : r < u /\ u < r + Span(r) => csize[u] = 0
    BY <1>1 DEF Regions, Blank
  <2>2. r + Span(r) = r + nb + rest
    BY <1>1
  <2> QED BY <2>1, <2>2
<1>17. Blank'
  <2> SUFFICES ASSUME NEW z \in Places \cup {t}, z \in live' => z \in cinuse', NEW u \in Unit, z < u, u < z + Span(z)'
               PROVE  csize'[u] = 0
    BY <1>4 DEF Blank
  <2>0. u \in Nat
    BY <1>0
  <2>1. CASE z = r
    BY <2>0, <2>1, <1>1, <1>2, <1>3, <1>5, <1>16
  <2>2. CASE z = t
    BY <2>0, <2>2, <1>1, <1>2, <1>3, <1>5, <1>16
  <2>3. CASE z # r /\ z # t
    <3>0. z \in Places /\ z \in Nat
      BY <2>3, <1>0
    <3>1. Over(u, z) /\ (z \in live => z \in cinuse)
      BY <2>0, <2>3, <3>0, <1>3, <1>4, <1>5 DEF Over
    <3>2. ~Over(u, r)
      BY <2>0, <2>3, <3>0, <3>1, <1>1, OverOne
    <3>3. u # r /\ u # t
      BY <3>2, <1>1, <1>2 DEF Over
    <3> QED BY <2>3, <3>0, <3>1, <3>3, <1>3, <1>5 DEF Regions, Blank
  <2> QED BY <2>1, <2>2, <2>3
<1>18. Backlinks'
  <2> SUFFICES ASSUME NEW x \in (live \cap cinuse)', x \notin pinuse', NEW y, y = x - foot'[x] PROVE Joins(y, x)'
    BY DEF Backlinks
  <2>1. x # r /\ x # t /\ x \in (live \cap cinuse) \ pinuse /\ x \in Unit /\ x \in Nat
    BY <1>0, <1>3, <1>4 DEF live
  <2> SUFFICES ASSUME NEW z \in Places \cup {t}, Over(y, z)'
               PROVE  Stuck(z)' \/ (z \notin live' /\ y = z /\ z + Span(z)' = x)
    BY <1>4 DEF Joins
  <2>2. CASE x = r + nb + rest
    <3>1. y = t
      <4>1. foot'[x] = rest /\ x = t + rest
        BY <2>1, <2>2, <1>2, <1>3
      <4> QED BY <4>1, <1>2
    <3>2. z = t
      <4>1. z \in Places => Over(t, z)
        BY <3>1, <1>2, <1>7
      <4>2. Over(t, r)
        BY <1>1, <1>2 DEF Over
      <4>3. z \in Places => z = r
        BY <4>1, <4>2, <1>1, <1>2, OverOne
      <4>4. ~Over(t, r)'
        BY <1>1, <1>2, <1>5 DEF Over
      <4> QED BY <3>1, <4>3, <4>4
    <3> QED BY <2>2, <3>1, <3>2, <1>2, <1>4, <1>5
  <2>3. CASE x # r + nb + rest
    <3>1. y = x - foot[x] /\ y \in Int
      BY <2>1, <2>3, <1>0, <1>3
    <3>2. Joins(y, x)
      BY <2>1, <3>1 DEF Regions, Backlinks
    <3>3. ~Over(y, r)
      <4> SUFFICES ASSUME Over(y, r) PROVE FALSE
        OBVIOUS
      <4>1. r + Span(r) = x
        BY <3>2, <1>1 DEF Joins, Stuck
      <4> QED BY <4>1, <2>3, <1>1
    <3>4. z \in Places /\ z # r /\ Over(y, z)
      BY <3>1, <3>3, <1>7
    <3>5. Stuck(z) \/ (z \notin live /\ y = z /\ z + Span(z) = x)
      BY <3>2, <3>4 DEF Joins
    <3> QED BY <3>4, <3>5, <1>4, <1>5, <1>9 DEF Stuck
  <2> QED BY <2>2, <2>3
<1>19. Headless'
  <2> SUFFICES ASSUME NEW x \in Places \cup {t}, x \notin Start', NEW y, y = x - foot'[x], NEW w, w = x - 1
               PROVE  Idle(y)' /\ Idle(w)'
    BY <1>4 DEF Headless
  <2>1. x # r /\ x # t /\ x \in Places /\ x \notin Start /\ x \in Nat /\ x \in Unit
    BY <1>0, <1>6
  <2>2. Idle(x - foot[x]) /\ Idle(w)
    BY <2>1 DEF Regions, Headless
  <2>3. x # r + nb + rest
    <3> SUFFICES ASSUME x = r + nb + rest PROVE FALSE
      OBVIOUS
    <3>1. Over(w, r)
      BY <2>1, <1>1 DEF Over
    <3> QED BY <2>2, <3>1, <1>1 DEF Idle, Stuck
  <2>4. y = x - foot[x] /\ y \in Int /\ w \in Int
    BY <2>1, <2>3, <1>0, <1>3
  <2> QED BY <2>2, <2>4, <1>10
<1> QED BY <1>11, <1>12, <1>13, <1>14, <1>15, <1>17, <1>18, <1>19 DEF Regions

\* A binned chunk is split: the head of the block now says free, and the
\* remainder, the new designated victim, has none.
LEMMA CarveRegions ==
  ASSUME TypeOK, Regions, NEW r \in binned, NEW nb \in Nat \ {0}, NEW rest \in Nat \ {0},
         NEW t, t = r + nb, bin[r] = nb + rest,
         csize' = [csize EXCEPT ![r] = rest], pinuse' = pinuse \cup {r}, cinuse' = cinuse \ {r},
         foot' = [foot EXCEPT ![t] = Msp, ![r + rest] = rest],
         bin' = [a \in Unit |-> IF a = r THEN 0 ELSE IF isDv(a) THEN dv_size ELSE bin[a]],
         dv' = t, dv_size' = rest, owned' = [owned EXCEPT ![r] = nb],
         UNCHANGED <<top, top_size, footprint>>
  PROVE  Regions'
<1>0. /\ Unit \subseteq Nat /\ top \in Unit /\ top \in Nat
      /\ \A z \in Places : /\ z \in Unit /\ z \in Nat /\ Span(z) \in Nat \ {0} /\ z + Span(z) \in Unit
                           /\ z + Span(z) =< top /\ MspSize =< z /\ z < top
      /\ csize \in [Unit -> Nat] /\ foot \in [Unit -> Nat] /\ bin \in [Unit -> Nat] /\ owned \in [Unit -> Nat]
      /\ MspSize \in Nat
  BY PlaceFacts
<1>1. /\ r \in Places \ live /\ Span(r) = nb + rest /\ r \in Nat /\ r \in Unit /\ ~isDv(r)
      /\ r + nb + rest \in Unit /\ r # top /\ Over(r, r)
  <2>1. r \in Places /\ r \notin live /\ ~isDv(r)
    BY DEF Regions, OneUse, isDv, Places
  <2>2. Span(r) = nb + rest
    BY <2>1 DEF Span
  <2>3. r \in Nat /\ r \in Unit /\ r + Span(r) \in Unit /\ r < top
    BY <2>1, <1>0
  <2> QED BY <2>1, <2>2, <2>3 DEF Over
<1>2. /\ t \in Unit /\ t \in Nat /\ r < t /\ t < r + nb + rest /\ t < top /\ r + nb + rest \in Nat
      /\ t + rest = r + nb + rest /\ r + nb + rest =< top
      /\ r < r + rest /\ r + rest < r + nb + rest /\ r + rest \in Unit /\ r + rest \in Nat
  <2>1. /\ t \in Nat /\ r < t /\ t < r + nb + rest /\ r + nb + rest \in Nat /\ t + rest = r + nb + rest
        /\ r < r + rest /\ r + rest < r + nb + rest /\ r + rest \in Nat
    BY <1>1
  <2>2. r + Span(r) =< top
    BY <1>0, <1>1
  <2>3. r + nb + rest = r + Span(r)
    BY <1>1
  <2>4. t \in Unit /\ r + rest \in Unit
    BY <1>0, <1>1, <2>1, ArenaNat DEF Unit
  <2> QED BY <2>1, <2>2, <2>3, <2>4, <1>0
<1>3. /\ \A u \in Unit : csize'[u] = IF u = r THEN rest ELSE csize[u]
      /\ \A u \in Unit : foot'[u] = IF u = r + rest THEN rest ELSE IF u = t THEN Msp ELSE foot[u]
  BY <1>0, <1>1, <1>2
<1>t. t \notin Places /\ r + rest \notin Places
  <2>1. Over(t, r) /\ Over(r + rest, r)
    BY <1>1, <1>2 DEF Over
  <2>2. \A z \in Places : Over(z, z)
    BY <1>0 DEF Over
  <2> QED BY <2>1, <2>2, <1>1, <1>2, OverOne
<1>4. live' = live \cup {r} /\ Places' = Places \cup {t} /\ t \notin live' \cup binned' /\ live' \cap binned' = {}
  <2>1. live' = live \cup {r}
    BY <1>0, <1>1 DEF live
  <2> DEFINE V == {a \in Unit : isDv(a)}
  <2>2. binned' = (binned \cup V) \ {r}
    <3>1. \A a \in Unit : bin'[a] > 0 <=> a # r /\ (isDv(a) \/ bin[a] > 0)
      BY <1>0 DEF isDv
    <3> QED BY <3>1 DEF binned
  <2>3. V' = {t}
    BY <1>2 DEF isDv
  <2>4. Places = live \cup binned \cup V
    BY DEF Places
  <2>5. Places' = live' \cup binned' \cup V'
    BY DEF Places
  <2>6. live \cap (binned \cup V) = {}
    BY DEF Regions, OneUse, isDv
  <2>7. t \notin live' \cup binned'
    BY <1>1, <1>2, <1>t, <2>1, <2>2, <2>4
  <2> HIDE DEF V
  <2> QED BY <2>1, <2>2, <2>3, <2>4, <2>5, <2>6, <2>7
<1>5. Span(r)' = nb /\ Span(t)' = rest /\ \A z \in Places : z # r => Span(z)' = Span(z)
  <2>1. Span(r)' = nb
    BY <1>0, <1>1, <1>4 DEF Span
  <2>2. Span(t)' = rest
    BY <1>4 DEF Span
  <2>3. ASSUME NEW z \in Places, z # r PROVE Span(z)' = Span(z)
    <3>1. z # t /\ z \in Unit /\ (z \in live' <=> z \in live) /\ (z \in cinuse' <=> z \in cinuse)
      BY <2>3, <1>0, <1>t, <1>4
    <3>2. csize'[z] = csize[z] /\ owned'[z] = owned[z]
      BY <2>3, <3>1, <1>0, <1>3
    <3>3. z \notin live => z \in binned' /\ bin'[z] = IF z \in binned THEN bin[z] ELSE dv_size
      <4> SUFFICES ASSUME z \notin live
                   PROVE  z \in binned' /\ bin'[z] = IF z \in binned THEN bin[z] ELSE dv_size
        OBVIOUS
      <4>1. CASE z \in binned
        <5>1. ~isDv(z)
          BY <4>1 DEF Regions, OneUse, isDv
        <5>2. bin'[z] = bin[z] /\ bin[z] > 0
          BY <2>3, <3>1, <4>1, <5>1 DEF binned
        <5> QED BY <3>1, <4>1, <5>2 DEF binned
      <4>2. CASE z \notin binned
        <5>1. isDv(z)
          BY <4>2 DEF Places
        <5>2. bin'[z] = dv_size /\ dv_size > 0
          BY <2>3, <3>1, <5>1 DEF isDv
        <5> QED BY <3>1, <4>2, <5>2 DEF binned
      <4> QED BY <4>1, <4>2
    <3> QED BY <3>1, <3>2, <3>3 DEF Span
  <2> QED BY <2>1, <2>2, <2>3
<1>6. Start' = Start \cup {r}
  <2>1. \A u \in Unit : csize'[u] > 0 <=> csize[u] > 0 \/ u = r
    BY <1>0, <1>1, <1>2, <1>3
  <2> QED BY <1>1, <1>2, <2>1 DEF Start
<1>7. /\ \A u \in Int : \A z \in Places : Over(u, z)' => Over(u, z)
      /\ \A u \in Int : Over(u, t)' => Over(u, r)
  <2> SUFFICES ASSUME NEW u \in Int
               PROVE  /\ \A z \in Places : Over(u, z)' => Over(u, z)
                      /\ Over(u, t)' => Over(u, r)
    OBVIOUS
  <2>1. ASSUME NEW z \in Places, Over(u, z)' PROVE Over(u, z)
    <3>1. z =< u /\ u < z + Span(z)' /\ Span(z) \in Nat /\ z \in Nat
      BY <2>1, <1>0 DEF Over
    <3> QED BY <3>1, <1>1, <1>5 DEF Over
  <2>2. ASSUME Over(u, t)' PROVE Over(u, r)
    BY <2>2, <1>1, <1>2, <1>5 DEF Over
  <2> QED BY <2>1, <2>2
<1>8. \A u \in Nat : Dead(u) => Dead(u)'
  <2> SUFFICES ASSUME NEW u \in Nat, Dead(u) PROVE Dead(u)'
    OBVIOUS
  <2>1. ~Over(u, r) /\ u \notin Start /\ u < top
    BY <1>1 DEF Dead
  <2>2. u # r
    BY <2>1, <1>1
  <2> QED BY <2>1, <2>2, <1>4, <1>6, <1>7 DEF Dead
<1>9. (\A z \in live : Stuck(z) => Stuck(z)') /\ Stuck(r)'
  <2>1. Stuck(r)'
    BY <1>4 DEF Stuck
  <2>2. ASSUME NEW z \in live, Stuck(z) PROVE Stuck(z)'
    <3>1. z # r /\ z \in Unit
      BY <1>1 DEF live
    <3> QED BY <2>2, <3>1, <1>3, <1>4, <1>8, StuckStays
  <2> QED BY <2>1, <2>2
<1>10. \A u \in Int : Idle(u) => Idle(u)'
  <2> SUFFICES ASSUME NEW u \in Int, Idle(u), NEW z \in Places \cup {t}, Over(u, z)' PROVE Stuck(z)'
    BY <1>4 DEF Idle
  <2>1. ~Over(u, r)
    BY <1>1 DEF Idle, Stuck
  <2>2. z \in Places /\ Over(u, z)
    BY <2>1, <1>7
  <2> QED BY <2>2, <1>9 DEF Idle, Stuck
<1>16. \A u \in Unit : r < u /\ u < r + nb + rest => csize[u] = 0
  <2>1. \A u \in Unit : r < u /\ u < r + Span(r) => csize[u] = 0
    BY <1>1 DEF Regions, Blank
  <2>2. r + Span(r) = r + nb + rest
    BY <1>1
  <2> QED BY <2>1, <2>2
<1>s. t \notin Start'
  <2>1. ~(csize[t] > 0)
    BY <1>2, <1>16
  <2> QED BY <2>1, <1>2, <1>6, <1>0 DEF Start
<1>11. FreeTags' /\ OneUse' /\ TopEnds'
  <2>1. FreeTags'
    BY <1>4, <1>6, <1>s DEF FreeTags, Regions
  <2>2. TopEnds'
    BY DEF Regions, TopEnds
  <2> QED BY <2>1, <2>2, <1>2, <1>4 DEF OneUse
<1>12. Apart'
  <2>1. ASSUME NEW a \in Places PROVE MspSize =< a /\ Span(a)' > 0 /\ a + Span(a)' =< top
    BY <1>0, <1>1, <1>2, <1>5
  <2>2. MspSize =< t /\ Span(t)' > 0 /\ t + Span(t)' =< top
    BY <1>0, <1>1, <1>2, <1>5
  <2>3. ASSUME NEW a \in Places, NEW b \in Places, a < b PROVE a + Span(a)' =< b
    <3>1. a + Span(a) =< b /\ a \in Nat /\ b \in Nat /\ Span(a) \in Nat
      BY <2>3, <1>0 DEF Regions, Apart
    <3> QED BY <3>1, <1>1, <1>5
  <2>4. ASSUME NEW a \in Places, a < t PROVE a + Span(a)' =< t
    <3>1. a > r => r + Span(r) =< a
      BY <1>1 DEF Regions, Apart
    <3>2. a < r => a + Span(a) =< r
      BY <1>1 DEF Regions, Apart
    <3>3. a \in Nat /\ Span(a) \in Nat
      BY <1>0
    <3> QED BY <2>4, <3>1, <3>2, <3>3, <1>1, <1>2, <1>5
  <2>5. ASSUME NEW b \in Places, t < b PROVE t + Span(t)' =< b
    <3>1. r < b /\ b \in Nat
      BY <2>5, <1>0, <1>1, <1>2
    <3>2. r + Span(r) =< b
      BY <3>1, <1>1 DEF Regions, Apart
    <3> QED BY <3>1, <3>2, <1>1, <1>2, <1>5
  <2> QED BY <2>1, <2>2, <2>3, <2>4, <2>5, <1>2, <1>4 DEF Apart
<1>13. Enough'
  <2>1. owned'[r] = nb /\ r \in pinuse'
    BY <1>0, <1>1
  <2>2. ASSUME NEW z \in live PROVE owned'[z] =< Span(z)' /\ (z \notin cinuse' => z \in pinuse')
    <3>1. z # r /\ z \in Places /\ owned'[z] = owned[z] /\ Span(z)' = Span(z)
      BY <1>0, <1>1, <1>5 DEF Places, live
    <3> QED BY <3>1 DEF Regions, Enough
  <2> QED BY <1>4, <1>5, <2>1, <2>2 DEF Enough
<1>14. Follows'
  <2> SUFFICES ASSUME NEW z \in (live \cap cinuse)', nextChunk(z)' \in Start' PROVE nextChunk(z)' \in pinuse'
    BY DEF Follows
  <2>1. z # r /\ z \in live \cap cinuse /\ nextChunk(z)' = nextChunk(z)
    BY <1>0, <1>3, <1>4 DEF nextChunk, live
  <2> QED BY <2>1, <1>6 DEF Regions, Follows
<1>15. BlankTop'
  BY <1>0, <1>1, <1>2, <1>3 DEF Regions, BlankTop
<1>17. Blank'
  <2> SUFFICES ASSUME NEW z \in Places \cup {t}, z \in live' => z \in cinuse', NEW u \in Unit, z < u, u < z + Span(z)'
               PROVE  csize'[u] = 0
    BY <1>4 DEF Blank
  <2>0. u \in Nat /\ z # r
    BY <1>0, <1>4
  <2>2. CASE z = t
    BY <2>0, <2>2, <1>1, <1>2, <1>3, <1>5, <1>16
  <2>3. CASE z # t
    <3>0. z \in Places /\ z \in Nat
      BY <2>3, <1>0
    <3>1. Over(u, z) /\ (z \in live => z \in cinuse)
      BY <2>0, <2>3, <3>0, <1>4, <1>5 DEF Over
    <3>2. u # r
      BY <2>0, <2>3, <3>0, <3>1, <1>1, OverOne
    <3> QED BY <2>0, <2>3, <3>0, <3>1, <3>2, <1>3, <1>5 DEF Regions, Blank
  <2> QED BY <2>2, <2>3
<1>18. Backlinks'
  <2> SUFFICES ASSUME NEW x \in (live \cap cinuse)', x \notin pinuse', NEW y, y = x - foot'[x] PROVE Joins(y, x)'
    BY DEF Backlinks
  <2>1. x # r /\ x # t /\ x # r + rest /\ x \in (live \cap cinuse) \ pinuse /\ x \in Unit /\ x \in Nat
    BY <1>0, <1>t, <1>4 DEF live, Places
  <2> SUFFICES ASSUME NEW z \in Places \cup {t}, Over(y, z)'
               PROVE  Stuck(z)' \/ (z \notin live' /\ y = z /\ z + Span(z)' = x)
    BY <1>4 DEF Joins
  <2>2. y = x - foot[x] /\ y \in Int
    BY <2>1, <1>0, <1>3
  <2>3. Joins(y, x)
    BY <2>1, <2>2 DEF Regions, Backlinks
  <2>4. z # t
    <3> SUFFICES ASSUME z = t PROVE FALSE
      OBVIOUS
    <3>1. Over(y, r) /\ t =< y
      BY <2>2, <1>7 DEF Over
    <3>2. y = r
      BY <3>1, <2>3, <1>1 DEF Joins, Stuck
    <3> QED BY <3>1, <3>2, <1>1, <1>2
  <2>5. CASE z = r
    BY <2>5, <1>9
  <2>6. CASE z # r
    <3>1. z \in Places /\ Over(y, z)
      BY <2>2, <2>4, <1>7
    <3>2. Stuck(z) \/ (z \notin live /\ y = z /\ z + Span(z) = x)
      BY <2>3, <3>1 DEF Joins
    <3> QED BY <2>6, <3>1, <3>2, <1>4, <1>5, <1>9 DEF Stuck
  <2> QED BY <2>5, <2>6
<1>19. Headless'
  <2> SUFFICES ASSUME NEW x \in Places \cup {t}, x \notin Start', NEW y, y = x - foot'[x], NEW w, w = x - 1
               PROVE  Idle(y)' /\ Idle(w)'
    BY <1>4 DEF Headless
  <2>1. CASE x = t
    <3>1. Over(w, r)
      BY <2>1, <1>1, <1>2 DEF Over
    <3>2. \A z \in Places \cup {t} : Over(w, z)' => z = r
      <4> SUFFICES ASSUME NEW z \in Places \cup {t}, Over(w, z)' PROVE z = r
        OBVIOUS
      <4>1. z # t /\ w \in Int
        BY <2>1, <1>2 DEF Over
      <4> QED BY <3>1, <4>1, <1>1, <1>7, OverOne
    <3>3. \A z \in Places \cup {t} : Over(y, z)' => z = r
      <4> SUFFICES ASSUME NEW z \in Places \cup {t}, Over(y, z)' PROVE z = r
        OBVIOUS
      <4>1. CASE t = r + rest
        <5>1. y = r
          <6>1. foot'[t] = rest
            BY <4>1, <1>2, <1>3
          <6> QED BY <2>1, <4>1, <6>1, <1>1
        <5>2. z # t
          BY <5>1, <1>1, <1>2 DEF Over
        <5>3. Over(r, z)
          BY <5>1, <5>2, <1>1, <1>7
        <5> QED BY <5>2, <5>3, <1>1, OverOne
      <4>2. CASE t # r + rest
        <5>1. y = t - Msp
          BY <2>1, <4>2, <1>2, <1>3
        <5>2. y < 0
          BY SMTT(40), <5>1, <1>2, ArenaNat DEF Msp, Unit
        <5>3. z =< y /\ z \in Nat
          BY <1>0, <1>2 DEF Over
        <5>4. y \in Int
          BY <5>1, <1>2, ArenaNat DEF Msp
        <5> QED BY <5>2, <5>3, <5>4
      <4> QED BY <4>1, <4>2
    <3> QED BY <3>2, <3>3, <1>4, <1>9 DEF Idle
  <2>2. CASE x # t
    <3>1. x # r /\ x # r + rest /\ x \in Places /\ x \notin Start /\ x \in Nat /\ x \in Unit
      BY <2>2, <1>0, <1>t, <1>6
    <3>2. Idle(x - foot[x]) /\ Idle(w)
      BY <3>1 DEF Regions, Headless
    <3>3. y = x - foot[x] /\ y \in Int /\ w \in Int
      BY <2>2, <3>1, <1>0, <1>3
    <3> QED BY <3>2, <3>3, <1>10
  <2> QED BY <2>1, <2>2
<1> QED BY <1>11, <1>12, <1>13, <1>14, <1>15, <1>17, <1>18, <1>19 DEF Regions

\* Top is split, in the segment as it is or in the segment grown by whole pages.
LEMMA TopRegions ==
  ASSUME TypeOK, Regions, NEW r, r = top, NEW nb \in Nat \ {0}, NEW rest \in Nat \ {0},
         NEW t, t = r + nb, SplitTop(nb, rest), footprint' = t + rest, footprint' =< Arena
  PROVE  Regions'
<1>0. /\ Unit \subseteq Nat /\ r \in Unit /\ r \in Nat
      /\ \A z \in Places : /\ z \in Unit /\ z \in Nat /\ Span(z) \in Nat \ {0} /\ z + Span(z) \in Unit
                           /\ z + Span(z) =< r /\ MspSize =< z /\ z < r
      /\ csize \in [Unit -> Nat] /\ foot \in [Unit -> Nat] /\ bin \in [Unit -> Nat] /\ owned \in [Unit -> Nat]
      /\ MspSize \in Nat /\ dv_size \in Nat
  BY PlaceFacts
<1>1. t \in Unit /\ t \in Nat /\ r < t /\ MspSize =< r
  <2>1. t \in Nat /\ r < t /\ t < t + rest
    BY <1>0
  <2>2. t \in Unit
    BY <2>1, ArenaNat DEF Unit
  <2> QED BY <2>1, <2>2 DEF Regions, TopEnds
<1>2. r \notin Places /\ t \notin Places
  BY <1>0, <1>1
<1>3. /\ \A u \in Unit : csize'[u] = IF u = r THEN nb ELSE IF u = t THEN rest ELSE csize[u]
      /\ \A u \in Unit : foot'[u] = IF u = t THEN Msp ELSE foot[u]
      /\ cinuse' = (cinuse \cup {r}) \ {t} /\ pinuse' = pinuse \cup {r, t}
      /\ top' = t /\ top_size' = rest /\ owned' = [owned EXCEPT ![r] = nb]
      /\ UNCHANGED <<bin, dv, dv_size>>
  BY <1>0, <1>1 DEF SplitTop, SplitInuse, Grant
<1>4. live' = live \cup {r} /\ binned' = binned /\ Places' = Places \cup {r}
  <2>1. live' = live \cup {r}
    BY <1>0, <1>3 DEF live
  <2>2. binned' = binned /\ {a \in Unit : isDv(a)}' = {a \in Unit : isDv(a)}
    BY <1>3 DEF binned, isDv
  <2> QED BY <2>1, <2>2 DEF Places
<1>5. Span(r)' = nb /\ \A z \in Places : Span(z)' = Span(z)
  <2>1. Span(r)' = nb
    BY <1>0, <1>1, <1>3, <1>4 DEF Span
  <2>2. ASSUME NEW z \in Places PROVE Span(z)' = Span(z)
    <3>1. z # r /\ z # t /\ z \in Unit
      BY <1>0, <1>2
    <3> QED BY <3>1, <1>0, <1>3, <1>4 DEF Span
  <2> QED BY <2>1, <2>2
<1>6. Start' = Start \cup {t}
  <2>1. \A u \in Unit : csize'[u] > 0 <=> csize[u] > 0 \/ u = r \/ u = t
    BY <1>0, <1>1, <1>3
  <2> QED BY <1>0, <1>1, <1>3, <2>1 DEF Start
<1>7. \A u \in Int : \A z \in Places \cup {r} : Over(u, z)' /\ u < r => z \in Places /\ Over(u, z)
  <2> SUFFICES ASSUME NEW u \in Int, NEW z \in Places \cup {r}, Over(u, z)', u < r PROVE z \in Places /\ Over(u, z)
    OBVIOUS
  <2>1. z =< u /\ u < z + Span(z)' /\ z \in Nat
    BY <1>0 DEF Over
  <2>2. z # r
    BY <2>1, <1>0
  <2> QED BY <2>1, <2>2, <1>5 DEF Over
<1>8. \A u \in Nat : Dead(u) => Dead(u)'
  <2> SUFFICES ASSUME NEW u \in Nat, Dead(u) PROVE Dead(u)'
    OBVIOUS
  <2>1. u \notin Start /\ u < r
    BY DEF Dead
  <2>2. u # t /\ u < t
    BY <2>1, <1>0, <1>1
  <2> QED BY <2>1, <2>2, <1>3, <1>4, <1>6, <1>7 DEF Dead
<1>9. \A z \in live : Stuck(z) => Stuck(z)'
  <2> SUFFICES ASSUME NEW z \in live, Stuck(z) PROVE Stuck(z)'
    OBVIOUS
  <2>1. z # r /\ z # t /\ z \in Unit
    BY <1>2 DEF Places, live
  <2> QED BY <2>1, <1>3, <1>4, <1>8, StuckStays
<1>10. \A u \in Int : u < r /\ Idle(u) => Idle(u)'
  BY <1>4, <1>7, <1>9 DEF Idle, Stuck
<1>11. FreeTags' /\ OneUse' /\ TopEnds'
  <2>1. FreeTags'
    BY <1>2, <1>3, <1>4, <1>6 DEF FreeTags, Regions
  <2>2. live' \cap binned' = {}
    BY <1>2, <1>4 DEF Regions, OneUse, Places
  <2>3. ASSUME dv_size' > 0 PROVE dv' \in Unit /\ dv' \notin live' \cup binned'
    <3>1. dv \in Unit /\ dv \notin live \cup binned /\ isDv(dv)
      BY <2>3, <1>3 DEF Regions, OneUse, isDv
    <3>2. dv # r
      BY <3>1, <1>2 DEF Places
    <3> QED BY <3>1, <3>2, <1>3, <1>4
  <2>4. TopEnds'
    BY <1>0, <1>1, <1>3 DEF TopEnds
  <2> QED BY <2>1, <2>2, <2>3, <2>4 DEF OneUse
<1>12. Apart'
  <2>1. ASSUME NEW a \in Places PROVE MspSize =< a /\ Span(a)' > 0 /\ a + Span(a)' =< t
    <3>1. a + Span(a) =< r /\ a + Span(a) \in Nat
      BY <1>0
    <3>2. a + Span(a) =< t
      BY <3>1, <1>0, <1>1
    <3> QED BY <3>2, <1>0, <1>5
  <2>2. MspSize =< r /\ Span(r)' > 0 /\ r + Span(r)' =< t
    BY <1>0, <1>1, <1>5
  <2>3. ASSUME NEW a \in Places, NEW b \in Places, a < b PROVE a + Span(a)' =< b
    BY <2>3, <1>5 DEF Regions, Apart
  <2>4. ASSUME NEW a \in Places PROVE a + Span(a)' =< r /\ a < r /\ a \in Nat
    BY <1>0, <1>5
  <2> QED BY <2>1, <2>2, <2>3, <2>4, <1>0, <1>3, <1>4 DEF Apart
<1>13. Enough'
  <2>1. owned'[r] = nb /\ r \in pinuse'
    BY <1>0, <1>3
  <2>2. ASSUME NEW z \in live PROVE owned'[z] =< Span(z)' /\ (z \notin cinuse' => z \in pinuse')
    <3>1. z # r /\ z # t /\ z \in Places /\ owned'[z] = owned[z] /\ Span(z)' = Span(z)
      BY <1>0, <1>2, <1>3, <1>5 DEF Places, live
    <3> QED BY <3>1, <1>3 DEF Regions, Enough
  <2> QED BY <1>4, <1>5, <2>1, <2>2 DEF Enough
<1>14. Follows'
  <2> SUFFICES ASSUME NEW z \in (live \cap cinuse)', nextChunk(z)' \in Start' PROVE nextChunk(z)' \in pinuse'
    BY DEF Follows
  <2>1. CASE z = r
    BY <2>1, <1>0, <1>3 DEF nextChunk
  <2>2. CASE z # r
    <3>1. z \in live \cap cinuse /\ nextChunk(z)' = nextChunk(z)
      BY <2>2, <1>0, <1>3, <1>4 DEF nextChunk, live
    <3> QED BY <3>1, <1>3, <1>6 DEF Regions, Follows
  <2> QED BY <2>1, <2>2
<1>15. BlankTop'
  <2> SUFFICES ASSUME NEW u \in Unit, u > t PROVE csize'[u] = 0
    BY <1>3 DEF BlankTop
  <2>1. u > r /\ u # t /\ u # r
    BY <1>0, <1>1
  <2> QED BY <2>1, <1>3 DEF Regions, BlankTop
<1>17. Blank'
  <2> SUFFICES ASSUME NEW z \in Places \cup {r}, z \in live' => z \in cinuse', NEW u \in Unit, z < u, u < z + Span(z)'
               PROVE  csize'[u] = 0
    BY <1>4 DEF Blank
  <2>0. u \in Nat
    BY <1>0
  <2>1. CASE z = r
    <3>1. u > r /\ u # t
      BY <2>0, <2>1, <1>0, <1>5
    <3> QED BY <3>1, <2>0, <1>0, <1>3 DEF Regions, BlankTop
  <2>2. CASE z # r
    <3>0. z \in Places /\ z \in Nat
      BY <2>2, <1>0
    <3>1. u < z + Span(z) /\ (z \in live => z \in cinuse)
      BY <2>2, <3>0, <1>2, <1>3, <1>4, <1>5
    <3>2. u < r
      BY <2>0, <3>0, <3>1, <1>0
    <3>3. u # r /\ u # t
      BY <2>0, <3>2, <1>0, <1>1
    <3> QED BY <3>0, <3>1, <3>3, <1>3 DEF Regions, Blank
  <2> QED BY <2>1, <2>2
<1>18. Backlinks'
  <2> SUFFICES ASSUME NEW x \in (live \cap cinuse)', x \notin pinuse', NEW y, y = x - foot'[x] PROVE Joins(y, x)'
    BY DEF Backlinks
  <2>1. x # r /\ x # t /\ x \in (live \cap cinuse) \ pinuse /\ x \in Unit /\ x \in Places
    BY <1>3, <1>4 DEF live, Places
  <2>2. y = x - foot[x] /\ y \in Int /\ y < r
    BY <2>1, <1>0, <1>3
  <2>3. Joins(y, x)
    BY <2>1, <2>2 DEF Regions, Backlinks
  <2> SUFFICES ASSUME NEW z \in Places \cup {r}, Over(y, z)'
               PROVE  Stuck(z)' \/ (z \notin live' /\ y = z /\ z + Span(z)' = x)
    BY <1>4 DEF Joins
  <2>4. z \in Places /\ Over(y, z)
    BY <2>2, <1>7
  <2>5. Stuck(z) \/ (z \notin live /\ y = z /\ z + Span(z) = x)
    BY <2>3, <2>4 DEF Joins
  <2> QED BY <2>4, <2>5, <1>2, <1>4, <1>5, <1>9 DEF Stuck
<1>19. Headless'
  <2> SUFFICES ASSUME NEW x \in Places \cup {r}, x \notin Start', NEW y, y = x - foot'[x], NEW w, w = x - 1
               PROVE  Idle(y)' /\ Idle(w)'
    BY <1>4 DEF Headless
  <2>1. x # r /\ x # t /\ x \in Places /\ x \notin Start /\ x \in Nat /\ x \in Unit /\ x < r
    BY <1>0, <1>6 DEF Start
  <2>2. Idle(x - foot[x]) /\ Idle(w)
    BY <2>1 DEF Regions, Headless
  <2>3. y = x - foot[x] /\ y \in Int /\ w \in Int /\ y < r /\ w < r
    BY <2>1, <1>0, <1>3
  <2> QED BY <2>2, <2>3, <1>10
<1> QED BY <1>11, <1>12, <1>13, <1>14, <1>15, <1>17, <1>18, <1>19 DEF Regions

-----------------------------------------------------------------------------
(* free *)

\* A block the space never takes back is no region any more.
LEMMA DropRegions ==
  ASSUME TypeOK, Regions, NEW a \in live, HandBack(a), UNCHANGED <<heap, space, footprint>>
  PROVE  Regions'
<1>0. /\ \A z \in Places : z \in Unit /\ z \in Nat /\ Span(z) \in Nat
      /\ owned \in [Unit -> Nat] /\ foot \in [Unit -> Nat] /\ Unit \subseteq Nat
  BY PlaceFacts
<1>1. UNCHANGED <<csize, pinuse, cinuse, foot, bin, dv, dv_size, top, top_size, footprint>>
  BY DEF heap, space
<1>2. live' = live \ {a} /\ binned' = binned /\ Start' = Start
  BY <1>0, <1>1 DEF HandBack, live, binned, Start
<1>3. Places' = Places \ {a}
  <2>1. {u \in Unit : isDv(u)}' = {u \in Unit : isDv(u)}
    BY <1>1 DEF isDv
  <2>2. a \notin binned /\ a \notin {u \in Unit : isDv(u)}
    BY DEF Regions, OneUse, isDv
  <2> QED BY <1>2, <2>1, <2>2 DEF Places
<1>4. \A z \in Places \ {a} : Span(z)' = Span(z)
  <2> SUFFICES ASSUME NEW z \in Places \ {a} PROVE Span(z)' = Span(z)
    OBVIOUS
  <2>1. owned'[z] = owned[z] /\ (z \in live' <=> z \in live)
    BY <1>0, <1>2 DEF HandBack
  <2> QED BY <2>1, <1>1, <1>2 DEF Span
<1>5. \A u : \A z \in Places \ {a} : Over(u, z)' <=> Over(u, z)
  BY <1>4 DEF Over
<1>6. \A u \in Nat : Dead(u) => Dead(u)'
  BY <1>1, <1>2, <1>3, <1>5 DEF Dead
<1>7. \A z \in live \ {a} : Stuck(z) => Stuck(z)'
  BY <1>1, <1>2, <1>6, StuckStays
<1>8. \A u : Idle(u) => Idle(u)'
  BY <1>3, <1>5, <1>7 DEF Idle, Stuck
<1>9. FreeTags' /\ OneUse' /\ TopEnds'
  BY <1>1, <1>2, <1>3 DEF Regions, FreeTags, OneUse, TopEnds
<1>10. Apart'
  BY <1>1, <1>3, <1>4 DEF Regions, Apart
<1>11. Enough'
  <2> SUFFICES ASSUME NEW z \in live \ {a} PROVE owned'[z] =< Span(z)' /\ (z \notin cinuse' => z \in pinuse')
    BY <1>2 DEF Enough
  <2>1. z \in Places /\ owned'[z] = owned[z] /\ Span(z)' = Span(z)
    BY <1>0, <1>4 DEF HandBack, Places, live
  <2> QED BY <2>1, <1>1 DEF Regions, Enough
<1>12. Follows' /\ BlankTop'
  BY <1>1, <1>2 DEF Regions, Follows, BlankTop, nextChunk
<1>13. Blank'
  BY <1>1, <1>2, <1>3, <1>4 DEF Regions, Blank
<1>14. Backlinks'
  <2> SUFFICES ASSUME NEW x \in (live \cap cinuse)', x \notin pinuse', NEW y, y = x - foot'[x] PROVE Joins(y, x)'
    BY DEF Backlinks
  <2>1. Joins(y, x)
    BY <1>1, <1>2 DEF Regions, Backlinks
  <2> SUFFICES ASSUME NEW z \in Places \ {a}, Over(y, z)'
               PROVE  Stuck(z)' \/ (z \notin live' /\ y = z /\ z + Span(z)' = x)
    BY <1>3 DEF Joins
  <2>2. Stuck(z) \/ (z \notin live /\ y = z /\ z + Span(z) = x)
    BY <2>1, <1>5 DEF Joins
  <2> QED BY <2>2, <1>2, <1>4, <1>7 DEF Stuck
<1>15. Headless'
  <2> SUFFICES ASSUME NEW x \in Places \ {a}, x \notin Start, NEW y, y = x - foot[x], NEW w, w = x - 1
               PROVE  Idle(y)' /\ Idle(w)'
    BY <1>1, <1>2, <1>3 DEF Headless
  <2> QED BY <1>8 DEF Regions, Headless
<1> QED BY <1>9, <1>10, <1>11, <1>12, <1>13, <1>14, <1>15 DEF Regions

\* What free finds around the block it is given when its neighbours are where it looks for
\* them, however wrong the tags are elsewhere: the block, and in front of it a free region or
\* nothing.
LEMMA FreedRegion ==
  ASSUME TypeOK, Regions, NEW a \in live, Pooled(a), Sound(a)
  PROVE  /\ a \in cinuse /\ ~Stuck(a) /\ nextChunk(a) = a + Span(a) /\ nextChunk(a) \in Start
         /\ base(a) \in Places
         /\ base(a) = a \/ (base(a) \notin live /\ base(a) + Span(base(a)) = a)
         /\ base(a) + bsize(a) = nextChunk(a) /\ bsize(a) \in Int
<1>0. /\ \A z \in Places : z \in Unit /\ z \in Nat /\ Span(z) \in Nat \ {0}
      /\ \A z \in live : z \in Places
      /\ csize \in [Unit -> Nat] /\ foot \in [Unit -> Nat] /\ bin \in [Unit -> Nat]
  BY PlaceFacts DEF Places
<1>1. a \in cinuse /\ Span(a) = csize[a] /\ a \in Places /\ a \in Unit /\ a \in Nat
  BY <1>0 DEF Pooled, isInuse, Regions, Enough, Span
<1>2. nextChunk(a) = a + Span(a) /\ nextChunk(a) \in Start /\ ~Stuck(a)
  BY <1>1 DEF nextChunk, Sound, Reads, Stuck, Dead
<1>3. CASE a \in pinuse
  BY <1>0, <1>1, <1>2, <1>3 DEF base, bsize
<1>4. CASE a \notin pinuse
  <2> DEFINE p == a - foot[a]
  <2>1. base(a) = p /\ bsize(a) = csize[a] + foot[a] /\ foot[a] \in Nat /\ csize[a] \in Nat
    BY <1>0, <1>1, <1>4 DEF base, bsize
  <2>2. p + bsize(a) = nextChunk(a)
    BY <1>1, <1>2, <2>1
  <2>3. isDv(p) \/ Linked(p, foot[a])
    BY <1>4 DEF Sound
  <2>4. CASE Linked(p, foot[a])
    <3>1. p \in binned /\ bin[p] = foot[a]
      BY <2>4 DEF Linked, binned
    <3>2. p \in Places /\ p \notin live /\ Span(p) = foot[a]
      BY <3>1 DEF Places, Span, Regions, OneUse
    <3>3. p + Span(p) = a
      BY <1>1, <2>1, <3>2
    <3> QED BY <1>1, <1>2, <2>1, <2>2, <3>2, <3>3
  <2>5. CASE isDv(p)
    <3>1. p \in Places /\ p \notin live
      BY <2>5 DEF Places, Regions, OneUse, isDv
    <3>2. Joins(p, a)
      BY <1>1, <1>4 DEF Regions, Backlinks
    <3>3. Over(p, p)
      BY <3>1, <1>0 DEF Over
    <3>4. p + Span(p) = a
      BY <3>1, <3>2, <3>3 DEF Joins, Stuck
    <3> QED BY <1>1, <1>2, <2>1, <2>2, <3>1, <3>4
  <2> QED BY <2>3, <2>4, <2>5
<1> QED BY <1>3, <1>4

\* A freed block and the free regions it touches become one region, of a bin or
\* of the designated victim: from p to e, n is what follows the block.
MergesAt(a, p, n, e, size, dead, cleared, b) ==
  /\ a \in live \cap cinuse /\ ~Stuck(a) /\ p \in Places /\ (p = a \/ (p \notin live /\ p + Span(p) = a))
  /\ n = a + Span(a) /\ p + size = e /\ size \in Int
  /\ (dead = {a} /\ e = n) \/ (dead = {a, n} /\ n \in Places \ live /\ e = n + Span(n))
  /\ cleared \in SUBSET {n} /\ (cleared # {} => n \in cinuse)
  /\ Merge(p, size, dead) /\ pinuse' = ((pinuse \ dead) \cup {p}) \ cleared
  /\ foot' = [u \in Unit |-> IF u = e THEN size ELSE IF u \in dead \ {p} THEN 0 ELSE foot[u]]
  /\ bin' = [u \in Unit |-> IF u = p THEN b ELSE IF u \in dead THEN 0 ELSE bin[u]]
  /\ \/ b = size /\ dv' = dv /\ dv_size' = dv_size /\ \A z \in Unit : isDv(z) => z # p /\ z \notin dead
     \/ b = 0 /\ dv' = p /\ dv_size' = size /\ \A z \in Unit : isDv(z) => z = p \/ z \in dead
  /\ owned' = [owned EXCEPT ![a] = 0] /\ top' = top /\ top_size' = top_size /\ footprint' = footprint

\* A freed chunk and its free neighbours become one free chunk that begins at p and ends at e.
LEMMA MergeRegions ==
  ASSUME TypeOK, Regions, NEW a, NEW p, NEW n, NEW e, NEW size, NEW dead, NEW cleared, NEW b,
         MergesAt(a, p, n, e, size, dead, cleared, b)
  PROVE  Regions'
<1> /\ a \in live \cap cinuse /\ ~Stuck(a) /\ p \in Places /\ (p = a \/ (p \notin live /\ p + Span(p) = a))
    /\ n = a + Span(a) /\ p + size = e /\ size \in Int
    /\ (dead = {a} /\ e = n) \/ (dead = {a, n} /\ n \in Places \ live /\ e = n + Span(n))
    /\ cleared \in SUBSET {n} /\ (cleared # {} => n \in cinuse)
    /\ Merge(p, size, dead) /\ pinuse' = ((pinuse \ dead) \cup {p}) \ cleared
    /\ foot' = [u \in Unit |-> IF u = e THEN size ELSE IF u \in dead \ {p} THEN 0 ELSE foot[u]]
    /\ bin' = [u \in Unit |-> IF u = p THEN b ELSE IF u \in dead THEN 0 ELSE bin[u]]
    /\ \/ b = size /\ dv' = dv /\ dv_size' = dv_size /\ \A z \in Unit : isDv(z) => z # p /\ z \notin dead
       \/ b = 0 /\ dv' = p /\ dv_size' = size /\ \A z \in Unit : isDv(z) => z = p \/ z \in dead
    /\ owned' = [owned EXCEPT ![a] = 0] /\ top' = top /\ top_size' = top_size /\ footprint' = footprint
  BY DEF MergesAt
<1>0. /\ Unit \subseteq Nat /\ top \in Unit /\ top \in Nat
      /\ \A z \in Places : /\ z \in Unit /\ z \in Nat /\ Span(z) \in Nat \ {0} /\ z + Span(z) \in Unit
                           /\ z + Span(z) =< top /\ MspSize =< z /\ z < top
      /\ csize \in [Unit -> Nat] /\ foot \in [Unit -> Nat] /\ bin \in [Unit -> Nat] /\ owned \in [Unit -> Nat]
      /\ MspSize \in Nat
  BY PlaceFacts
<1>1. /\ a \in Places /\ a \in Nat /\ p \in Nat /\ p \in Unit /\ p =< a /\ a < n /\ n \in Nat /\ n =< top
      /\ Span(a) \in Nat
  BY <1>0 DEF Places
<1>2. /\ size \in Nat \ {0} /\ e \in Nat /\ n =< e /\ e =< top /\ p < e /\ a < e
      /\ n \in dead => n \in Places \ live /\ n < e /\ e = n + Span(n) /\ Span(n) \in Nat
      /\ n \notin dead => e = n
  <2>1. CASE dead = {a} /\ e = n
    BY <2>1, <1>0, <1>1
  <2>2. CASE dead = {a, n} /\ n \in Places \ live /\ e = n + Span(n)
    BY <2>2, <1>0, <1>1
  <2> QED BY <2>1, <2>2
<1>d. a \in dead /\ dead \subseteq {a, n} /\ p # n
  BY <1>1
<1>3. /\ \A u \in Unit : csize'[u] = IF u = p THEN size ELSE IF u \in dead THEN 0 ELSE csize[u]
      /\ cinuse' = cinuse \ (dead \cup {p})
  BY DEF Merge
<1>v. dead \cup {p} \subseteq Places /\ (dead \cup {p}) \cap live = {a} /\ dead \subseteq Unit
  BY <1>0, <1>1, <1>2, <1>d
<1>4. live' = live \ {a} /\ Places' = (Places \ dead) \cup {p} /\ p \notin live' /\ (p \in binned' <=> b = size)
      /\ live' \cap binned' = {} /\ \A z \in Places \ (dead \cup {p}) : z \in binned' <=> z \in binned
  <2>1. live' = live \ {a}
    BY <1>0 DEF live
  <2> DEFINE V == {u \in Unit : isDv(u)}
  <2>2. binned' = (binned \ (dead \cup {p})) \cup (IF b = size THEN {p} ELSE {})
    <3>1. \A u \in Unit : bin'[u] > 0 <=> IF u = p THEN b = size ELSE u \notin dead /\ bin[u] > 0
      BY <1>2
    <3> QED BY <3>1, <1>1 DEF binned
  <2>3. V' = (V \ (dead \cup {p})) \cup (IF b = size THEN {} ELSE {p})
    <3>1. CASE b = size /\ dv' = dv /\ dv_size' = dv_size /\ \A z \in Unit : isDv(z) => z # p /\ z \notin dead
      BY <3>1 DEF isDv
    <3>2. CASE b = 0 /\ dv' = p /\ dv_size' = size /\ \A z \in Unit : isDv(z) => z = p \/ z \in dead
      <4>1. V' = {p}
        BY <3>2, <1>1, <1>2 DEF isDv
      <4>2. V \subseteq dead \cup {p}
        BY <3>2
      <4> QED BY <3>2, <4>1, <4>2, <1>2
    <3> QED BY <3>1, <3>2
  <2>4. Places = live \cup binned \cup V /\ live \cap binned = {}
    BY DEF Places, Regions, OneUse
  <2>5. Places' = live' \cup binned' \cup V'
    BY DEF Places
  <2> HIDE DEF V
  <2>6. Places' = (Places \ dead) \cup {p}
    BY <2>1, <2>2, <2>3, <2>4, <2>5, <1>v
  <2> QED BY <2>1, <2>2, <2>4, <2>6, <1>d, <1>v
<1>5. Span(p)' = size /\ \A z \in Places \ (dead \cup {p}) : Span(z)' = Span(z)
  <2>1. Span(p)' = size
    BY <1>1, <1>4 DEF Span
  <2>2. ASSUME NEW z \in Places \ (dead \cup {p}) PROVE Span(z)' = Span(z)
    <3>1. z \in Unit /\ z # a /\ (z \in live' <=> z \in live) /\ (z \in cinuse' <=> z \in cinuse)
          /\ (z \in binned' <=> z \in binned)
      BY <1>0, <1>3, <1>4, <1>d
    <3>2. csize'[z] = csize[z] /\ owned'[z] = owned[z] /\ bin'[z] = bin[z]
      BY <3>1, <1>0, <1>3
    <3>3. z \notin live \cup binned => dv_size' = dv_size
      BY <3>1 DEF Places
    <3> QED BY <3>1, <3>2, <3>3 DEF Span
  <2> QED BY <2>1, <2>2
<1>6. \A u \in Unit : u \in Start' => u = p \/ (u \in Start /\ u \notin dead)
  <2>1. \A u \in dead : u # top
    BY <1>0, <1>v
  <2> QED BY <1>0, <1>3, <2>1 DEF Start
<1>7. /\ \A u \in Int : \A z \in Places \ (dead \cup {p}) : Over(u, z)' <=> Over(u, z)
      /\ \A u \in Int : Over(u, p)' => Over(u, p) \/ Over(u, a) \/ (n \in dead /\ Over(u, n))
  <2> SUFFICES ASSUME NEW u \in Int
               PROVE  /\ \A z \in Places \ (dead \cup {p}) : Over(u, z)' <=> Over(u, z)
                      /\ Over(u, p)' => Over(u, p) \/ Over(u, a) \/ (n \in dead /\ Over(u, n))
    OBVIOUS
  <2>1. ASSUME NEW z \in Places \ (dead \cup {p}) PROVE Over(u, z)' <=> Over(u, z)
    BY <1>5 DEF Over
  <2>2. ASSUME Over(u, p)' PROVE Over(u, p) \/ Over(u, a) \/ (n \in dead /\ Over(u, n))
    <3>1. p =< u /\ u < e
      BY <2>2, <1>5 DEF Over
    <3>2. CASE u >= a /\ u < n
      BY <3>2 DEF Over
    <3>3. CASE u < a
      <4>1. p + Span(p) = a
        BY <3>1, <3>3, <1>1
      <4> QED BY <3>1, <3>3, <4>1 DEF Over
    <3>4. CASE u >= n
      <4>1. n \in dead /\ e = n + Span(n)
        BY <3>1, <3>4, <1>1, <1>2
      <4> QED BY <3>1, <3>4, <4>1 DEF Over
    <3> QED BY <3>2, <3>3, <3>4, <1>1
  <2> QED BY <2>1, <2>2
<1>p. Over(p, p) /\ ~Stuck(p) /\ (n \in dead => ~Stuck(n))
  BY <1>0, <1>2 DEF Over, Stuck
<1>8. \A u \in Nat : Dead(u) => Dead(u)'
  <2> SUFFICES ASSUME NEW u \in Nat, Dead(u) PROVE Dead(u)'
    OBVIOUS
  <2>1. u \notin Start /\ u < top /\ ~Over(u, p) /\ ~Over(u, a) /\ (n \in dead => ~Over(u, n)) /\ u # p
    BY <1>1, <1>2, <1>p DEF Dead
  <2>2. u \in Unit
    BY <2>1, <1>0, ArenaNat DEF Unit
  <2>3. u \notin Start'
    BY <2>1, <2>2, <1>6
  <2>4. \A z \in Places' : ~Over(u, z)'
    BY <2>1, <1>4, <1>7 DEF Dead
  <2> QED BY <2>1, <2>3, <2>4 DEF Dead
<1>9. \A z \in live \ {a} : Stuck(z) => Stuck(z)'
  <2> SUFFICES ASSUME NEW z \in live \ {a}, Stuck(z) PROVE Stuck(z)'
    OBVIOUS
  <2>1. z \in Unit /\ z \notin dead /\ z # p
    BY <1>v DEF live
  <2> QED BY <2>1, <1>3, <1>4, <1>8, StuckStays
<1>10. \A u \in Int : Idle(u) => Idle(u)'
  <2> SUFFICES ASSUME NEW u \in Int, Idle(u), NEW z \in (Places \ dead) \cup {p}, Over(u, z)' PROVE Stuck(z)'
    BY <1>4 DEF Idle
  <2>1. z # p
    BY <1>1, <1>2, <1>7, <1>p DEF Idle
  <2>2. z \in Places /\ Over(u, z) /\ z # a
    BY <2>1, <1>7, <1>d
  <2> QED BY <2>2, <1>9 DEF Idle, Stuck
<1>11. FreeTags' /\ OneUse' /\ TopEnds'
  <2>1. ASSUME NEW z \in Places' \ live', z \in Start' PROVE z \in pinuse' \ cinuse'
    <3>1. CASE z = p
      BY <3>1, <1>3, <1>d
    <3>2. CASE z # p
      <4>1. z \in Places \ live /\ z \in Start /\ z \notin dead
        BY <2>1, <3>2, <1>0, <1>4, <1>6, <1>d
      <4>2. z \in pinuse /\ z \notin cinuse
        BY <4>1 DEF Regions, FreeTags
      <4> QED BY <4>1, <4>2, <1>3
    <3> QED BY <3>1, <3>2
  <2>2. ASSUME dv_size' > 0 PROVE dv' \in Unit /\ dv' \notin live' \cup binned'
    <3>1. CASE b = size /\ dv' = dv /\ dv_size' = dv_size /\ \A z \in Unit : isDv(z) => z # p /\ z \notin dead
      <4>1. dv \in Unit /\ dv \notin live \cup binned /\ isDv(dv)
        BY <2>2, <3>1 DEF Regions, OneUse, isDv
      <4>2. dv \in Places \ (dead \cup {p})
        BY <3>1, <4>1 DEF Places
      <4> QED BY <3>1, <4>1, <4>2, <1>4
    <3>2. CASE b = 0 /\ dv' = p
      BY <3>2, <1>1, <1>2, <1>4
    <3> QED BY <3>1, <3>2
  <2>3. TopEnds'
    BY DEF Regions, TopEnds
  <2> QED BY <2>1, <2>2, <2>3, <1>4 DEF FreeTags, OneUse
<1>12. Apart'
  <2>1. ASSUME NEW z \in Places \ (dead \cup {p}) PROVE MspSize =< z /\ Span(z)' > 0 /\ z + Span(z)' =< top
    BY <1>0, <1>5
  <2>2. MspSize =< p /\ Span(p)' > 0 /\ p + Span(p)' =< top
    BY <1>0, <1>2, <1>5
  <2>3. ASSUME NEW x \in Places \ (dead \cup {p}), NEW y \in Places, x < y PROVE x + Span(x)' =< y
    BY <2>3, <1>5 DEF Regions, Apart
  <2>4. ASSUME NEW y \in Places \ (dead \cup {p}), p < y PROVE p + Span(p)' =< y
    <3>0. y \in Nat /\ y # a /\ (y = n => n \notin dead)
      BY <1>0, <1>d
    <3>1. a < y
      <4>1. p # a => p + Span(p) =< y
        BY <2>4 DEF Regions, Apart
      <4> QED BY <2>4, <3>0, <4>1, <1>1
    <3>2. n =< y
      BY <3>1, <1>1 DEF Regions, Apart
    <3>3. n \in dead => n + Span(n) =< y
      <4> SUFFICES ASSUME n \in dead PROVE n + Span(n) =< y
        OBVIOUS
      <4>1. n < y
        BY <3>0, <3>2, <1>1
      <4> QED BY <4>1, <1>2 DEF Regions, Apart
    <3> QED BY <3>2, <3>3, <1>2, <1>5
  <2> QED BY <2>1, <2>2, <2>3, <2>4, <1>0, <1>4 DEF Apart
<1>13. Enough'
  <2> SUFFICES ASSUME NEW z \in live \ {a} PROVE owned'[z] =< Span(z)' /\ (z \notin cinuse' => z \in pinuse')
    BY <1>4 DEF Enough
  <2>1. z \in Places \ (dead \cup {p}) /\ owned'[z] = owned[z] /\ Span(z)' = Span(z) /\ (z \in cinuse' <=> z \in cinuse)
    BY <1>0, <1>3, <1>5, <1>v DEF Places, live
  <2> QED BY <2>1 DEF Regions, Enough
<1>14. Follows'
  <2> SUFFICES ASSUME NEW z \in (live \cap cinuse)', nextChunk(z)' \in Start' PROVE nextChunk(z)' \in pinuse'
    BY DEF Follows
  <2>1. z \in live \cap cinuse /\ z # a /\ z \in Places /\ z \notin dead \cup {p} /\ z \in Unit
    BY <1>3, <1>4, <1>v DEF Places, live
  <2>2. nextChunk(z)' = z + Span(z) /\ nextChunk(z) = z + Span(z) /\ z + Span(z) \in Unit
    BY <2>1, <1>0, <1>3 DEF nextChunk, Span
  <2>3. CASE z + Span(z) = p
    BY <2>2, <2>3, <1>d
  <2>4. CASE z + Span(z) # p
    <3>1. z + Span(z) \in Start /\ z + Span(z) \notin dead
      BY <2>2, <2>4, <1>6
    <3>2. z + Span(z) \in pinuse
      BY <2>1, <2>2, <3>1 DEF Regions, Follows
    <3>3. z + Span(z) # n
      BY <2>1, <1>1, EndOne
    <3> QED BY <2>2, <3>1, <3>2, <3>3
  <2> QED BY <2>3, <2>4
<1>15. BlankTop'
  BY <1>0, <1>3 DEF Regions, BlankTop
<1>17. Blank'
  <2> SUFFICES ASSUME NEW z \in (Places \ dead) \cup {p}, z \in live' => z \in cinuse', NEW u \in Unit, z < u,
                      u < z + Span(z)'
               PROVE  csize'[u] = 0
    BY <1>4 DEF Blank
  <2>0. u \in Nat /\ u \in Int
    BY <1>0
  <2>1. CASE z = p
    <3>1. Over(u, p) \/ Over(u, a) \/ (n \in dead /\ Over(u, n))
      BY <2>0, <2>1, <1>1, <1>7 DEF Over
    <3>2. CASE u \in dead
      BY <2>1, <3>2, <1>1, <1>3
    <3>3. CASE u \notin dead
      <4>1. \A q \in {p, a, n} : q \in Places /\ (q \in live => q \in cinuse) /\ q # u /\ Over(u, q) => csize[u] = 0
        BY <2>0, <1>0 DEF Over, Regions, Blank
      <4>2. csize[u] = 0
        BY <2>1, <3>1, <3>3, <4>1, <1>1, <1>2, <1>d
      <4> QED BY <2>1, <3>3, <4>2, <1>1, <1>3
    <3> QED BY <3>2, <3>3
  <2>2. CASE z # p
    <3>1. z \in Places \ (dead \cup {p}) /\ z \in Nat
      BY <2>2, <1>0
    <3>a. u < z + Span(z) /\ z =< u
      BY <2>0, <3>1, <1>5
    <3>b. z \in live => z \in cinuse
      BY <3>1, <1>3, <1>4, <1>d
    <3>2. u < z + Span(z) /\ (z \in live => z \in cinuse) /\ Over(u, z)
      BY <3>a, <3>b DEF Over
    <3>3. csize[u] = 0
      BY <3>1, <3>2 DEF Regions, Blank
    <3>4. u # p
      BY <2>0, <3>1, <3>2, <1>p, OverOne
    <3> QED BY <3>3, <3>4, <1>3
  <2> QED BY <2>1, <2>2
<1>18. Backlinks'
  <2> SUFFICES ASSUME NEW x \in (live \cap cinuse)', x \notin pinuse', NEW y, y = x - foot'[x] PROVE Joins(y, x)'
    BY DEF Backlinks
  <2>1. x \in live \cap cinuse /\ x # a /\ x \notin dead /\ x # p /\ x \in Unit /\ x \in Nat
    BY <1>0, <1>3, <1>4, <1>v DEF live
  <2> SUFFICES ASSUME NEW z \in (Places \ dead) \cup {p}, Over(y, z)'
               PROVE  Stuck(z)' \/ (z \notin live' /\ y = z /\ z + Span(z)' = x)
    BY <1>4 DEF Joins
  <2>2. CASE x = e
    <3>1. y = p
      BY <2>1, <2>2, <1>1, <1>2
    <3>2. z = p
      <4>1. z # p => Over(p, z)
        BY <3>1, <1>1, <1>7
      <4> QED BY <4>1, <1>1, <1>p, OverOne
    <3> QED BY <2>2, <3>1, <3>2, <1>4, <1>5
  <2>3. CASE x # e
    <3>1. x \notin pinuse
      BY <2>1, <2>3, <1>2
    <3>2. y = x - foot[x] /\ y \in Int
      BY <2>1, <2>3, <1>0
    <3>3. Joins(y, x)
      BY <2>1, <3>1, <3>2 DEF Regions, Backlinks
    <3>4. \A q \in Places : Over(y, q) => Stuck(q) \/ (q \notin live /\ y = q /\ q + Span(q) = x)
      BY <3>3 DEF Joins
    <3>5. z # p
      <4> SUFFICES ASSUME z = p PROVE FALSE
        OBVIOUS
      <4>1. Over(y, p) \/ Over(y, a) \/ (n \in dead /\ Over(y, n))
        BY <3>2, <1>7
      <4>2. CASE Over(y, a)
        BY <3>4, <4>2, <1>1
      <4>3. CASE Over(y, p) /\ p # a
        BY <2>1, <3>4, <4>3, <1>p
      <4>4. CASE n \in dead /\ Over(y, n)
        BY <2>3, <3>4, <4>4, <1>2, <1>p
      <4> QED BY <4>1, <4>2, <4>3, <4>4
    <3>6. Over(y, z) /\ z \in Places \ (dead \cup {p}) /\ z # a
      BY <3>2, <3>5, <1>7, <1>d
    <3>7. Stuck(z) \/ (z \notin live /\ y = z /\ z + Span(z) = x)
      BY <3>4, <3>6
    <3> QED BY <3>6, <3>7, <1>4, <1>5, <1>9 DEF Stuck
  <2> QED BY <2>2, <2>3
<1>19. Headless'
  <2> SUFFICES ASSUME NEW x \in (Places \ dead) \cup {p}, x \notin Start', NEW y, y = x - foot'[x], NEW w, w = x - 1
               PROVE  Idle(y)' /\ Idle(w)'
    BY <1>4 DEF Headless
  <2>1. x # p
    BY <1>1, <1>2, <1>3 DEF Start
  <2>2. x \in Places \ (dead \cup {p}) /\ x \in Unit /\ x \in Nat
    BY <2>1, <1>0
  <2>3. x \notin Start
    BY <2>2, <1>3 DEF Start
  <2>4. Idle(x - foot[x]) /\ Idle(w)
    BY <2>2, <2>3 DEF Regions, Headless
  <2>5. x # e
    <3> SUFFICES ASSUME x = e PROVE FALSE
      OBVIOUS
    <3>1. Over(w, a) \/ (n \in dead /\ Over(w, n))
      BY <1>1, <1>2 DEF Over
    <3> QED BY <2>4, <3>1, <1>1, <1>2, <1>p DEF Idle
  <2>6. y = x - foot[x] /\ y \in Int /\ w \in Int
    BY <2>2, <2>5, <1>0
  <2> QED BY <2>4, <2>6, <1>10
<1> QED BY <1>11, <1>12, <1>13, <1>14, <1>15, <1>17, <1>18, <1>19 DEF Regions

\* Top takes over the block in front of it and the free region before that.
LEMMA IntoTopRegions ==
  ASSUME TypeOK, Regions, NEW a \in live \cap cinuse, ~Stuck(a),
         NEW p \in Places, p = a \/ (p \notin live /\ p + Span(p) = a),
         NEW n, n = top, n = a + Span(a), NEW size, p + size = footprint, size \in Int,
         NEW dead, dead = {a, n},
         Merge(p, size, dead), pinuse' = (pinuse \ dead) \cup {p},
         foot' = [u \in Unit |-> IF u \in dead \ {p} THEN 0 ELSE foot[u]],
         top' = p, top_size' = size,
         \/ isDv(p) /\ dv' = 0 /\ dv_size' = 0 /\ bin' = bin
         \/ ~isDv(p) /\ dv' = dv /\ dv_size' = dv_size /\ bin' = Unlink({p}),
         owned' = [owned EXCEPT ![a] = 0], footprint' = footprint
  PROVE  Regions'
<1>0. /\ Unit \subseteq Nat /\ n \in Unit /\ n \in Nat /\ footprint \in Nat
      /\ \A z \in Places : /\ z \in Unit /\ z \in Nat /\ Span(z) \in Nat \ {0} /\ z + Span(z) \in Unit
                           /\ z + Span(z) =< n /\ MspSize =< z /\ z < n
      /\ csize \in [Unit -> Nat] /\ foot \in [Unit -> Nat] /\ bin \in [Unit -> Nat] /\ owned \in [Unit -> Nat]
      /\ MspSize \in Nat
  BY PlaceFacts
<1>1. /\ a \in Places /\ a \in Nat /\ p \in Nat /\ p \in Unit /\ p =< a /\ a < n /\ p < n /\ Span(a) \in Nat
      /\ MspSize =< p /\ a \in Unit
  BY <1>0 DEF Places
<1>2. size \in Nat \ {0} /\ footprint =< Arena /\ n < footprint
  <2>1. top + top_size = footprint /\ footprint =< Arena /\ top_size > 0 /\ top_size \in Nat
    BY PlaceFacts DEF Regions, TopEnds
  <2> QED BY <2>1, <1>0, <1>1
<1>3. /\ \A u \in Unit : csize'[u] = IF u = p THEN size ELSE IF u \in dead THEN 0 ELSE csize[u]
      /\ cinuse' = cinuse \ (dead \cup {p})
  BY DEF Merge
<1>v. n \notin Places /\ {a, p} \cap live = {a}
  BY <1>0, <1>1
<1>4. live' = live \ {a} /\ Places' = Places \ {a, p} /\ binned' = binned \ {p} /\ p \notin live'
      /\ \A u \in Unit : isDv(u)' <=> isDv(u) /\ u # p
  <2>1. live' = live \ {a}
    BY <1>0 DEF live
  <2>2. binned' = binned \ {p}
    <3>1. isDv(p) => p \notin binned
      BY DEF Regions, OneUse, isDv
    <3>2. CASE bin' = bin /\ isDv(p)
      BY <3>1, <3>2 DEF binned
    <3>3. CASE bin' = Unlink({p})
      <4>1. \A u \in Unit : bin'[u] = IF u = p THEN 0 ELSE bin[u]
        BY <3>3 DEF Unlink
      <4> QED BY <4>1 DEF binned
    <3> QED BY <3>2, <3>3
  <2>3. \A u \in Unit : isDv(u)' <=> isDv(u) /\ u # p
    BY DEF isDv
  <2>4. Places = live \cup binned \cup {u \in Unit : isDv(u)}
    BY DEF Places
  <2>5. Places' = live' \cup binned' \cup {u \in Unit : isDv(u) /\ u # p}
    BY <2>3 DEF Places
  <2>6. a \notin binned /\ ~isDv(a) /\ (p # a => p \notin live)
    BY DEF Regions, OneUse, isDv
  <2> QED BY <2>1, <2>2, <2>3, <2>4, <2>5, <2>6
<1>5. \A z \in Places' : z \in Places /\ z \notin {a, p, n} /\ Span(z)' = Span(z) /\ z + Span(z) =< p
  <2> SUFFICES ASSUME NEW z \in Places \ {a, p} PROVE z # n /\ Span(z)' = Span(z) /\ z + Span(z) =< p
    BY <1>4
  <2>1. z \in Unit /\ z \in Nat /\ z # a /\ z # p /\ z # n /\ (z \in live' <=> z \in live)
        /\ (z \in cinuse' <=> z \in cinuse) /\ (z \in binned' <=> z \in binned)
    BY <1>0, <1>3, <1>4, <1>v
  <2>2. csize'[z] = csize[z] /\ owned'[z] = owned[z] /\ bin'[z] = bin[z]
    BY <2>1, <1>0, <1>3 DEF Unlink
  <2>3. z \notin live \cup binned => dv_size' = dv_size
    BY <2>1 DEF Places, isDv
  <2>4. Span(z)' = Span(z)
    BY <2>1, <2>2, <2>3 DEF Span
  <2>5. z < p => z + Span(z) =< p
    BY DEF Regions, Apart
  <2>6. p < z => a < z
    <3> SUFFICES ASSUME p < z, p # a PROVE a < z
      OBVIOUS
    <3>1. p + Span(p) =< z
      BY DEF Regions, Apart
    <3> QED BY <3>1, <2>1, <1>1
  <2>7. ~(a < z)
    <3> SUFFICES ASSUME a < z PROVE FALSE
      OBVIOUS
    <3>1. a + Span(a) =< z
      BY <1>1 DEF Regions, Apart
    <3> QED BY <3>1, <1>0
  <2> QED BY <2>1, <2>4, <2>5, <2>6, <2>7, <1>1
<1>6. p \in Start' /\ \A u \in Unit : u \in Start' => u = p \/ (u \in Start /\ u \notin dead)
  BY <1>0, <1>1, <1>3 DEF Start
<1>7. \A u \in Int : \A z \in Places' : Over(u, z)' <=> Over(u, z)
  BY <1>5 DEF Over
<1>g. \A u \in Int : p =< u /\ u < n => Over(u, p) \/ Over(u, a)
  <2> SUFFICES ASSUME NEW u \in Int, p =< u, u < n PROVE Over(u, p) \/ Over(u, a)
    OBVIOUS
  <2>1. CASE u < a
    <3>1. p + Span(p) = a
      BY <2>1, <1>1
    <3> QED BY <2>1, <3>1 DEF Over
  <2>2. CASE u >= a
    BY <2>2 DEF Over
  <2> QED BY <2>1, <2>2, <1>1
<1>8. \A u \in Nat : Dead(u) => Dead(u)'
  <2> SUFFICES ASSUME NEW u \in Nat, Dead(u) PROVE Dead(u)'
    OBVIOUS
  <2>1. u \notin Start /\ u < n /\ ~Over(u, p) /\ ~Over(u, a)
    BY <1>1 DEF Dead
  <2>2. u < p
    BY <2>1, <1>1, <1>g
  <2>3. u \in Unit
    BY <2>1, <1>0, ArenaNat DEF Unit
  <2>4. u \notin Start'
    BY <2>1, <2>2, <2>3, <1>1, <1>6
  <2>5. \A z \in Places' : ~Over(u, z)'
    BY <1>5, <1>7 DEF Dead
  <2> QED BY <2>2, <2>4, <2>5 DEF Dead
<1>9. \A z \in live \ {a} : Stuck(z) => Stuck(z)'
  <2> SUFFICES ASSUME NEW z \in live \ {a}, Stuck(z) PROVE Stuck(z)'
    OBVIOUS
  <2>1. z \in Unit /\ z \notin dead /\ z # p
    BY <1>v DEF live, Places
  <2> QED BY <2>1, <1>3, <1>4, <1>8, StuckStays
<1>10. \A u \in Int : Idle(u) => Idle(u)'
  <2> SUFFICES ASSUME NEW u \in Int, Idle(u), NEW z \in Places', Over(u, z)' PROVE Stuck(z)'
    BY DEF Idle
  <2>1. z \in Places /\ Over(u, z) /\ z # a
    BY <1>5, <1>7
  <2> QED BY <2>1, <1>9 DEF Idle, Stuck
<1>11. FreeTags' /\ OneUse' /\ TopEnds'
  <2>1. ASSUME NEW z \in Places' \ live', z \in Start' PROVE z \in pinuse' \ cinuse'
    <3>1. z \in Places \ live /\ z \in Start /\ z \notin dead
      BY <2>1, <1>0, <1>4, <1>5, <1>6
    <3>2. z \in pinuse /\ z \notin cinuse
      BY <3>1 DEF Regions, FreeTags
    <3> QED BY <3>1, <3>2, <1>3
  <2>2. ASSUME dv_size' > 0 PROVE dv' \in Unit /\ dv' \notin live' \cup binned'
    <3>1. dv' = dv /\ dv_size' = dv_size
      BY <2>2
    <3>2. dv \in Unit /\ dv \notin live \cup binned
      BY <2>2, <3>1 DEF Regions, OneUse
    <3> QED BY <3>1, <3>2, <1>4
  <2>3. live' \cap binned' = {}
    BY <1>4 DEF Regions, OneUse
  <2>4. TopEnds'
    BY <1>1, <1>2 DEF TopEnds
  <2> QED BY <2>1, <2>2, <2>3, <2>4 DEF FreeTags, OneUse
<1>12. Apart'
  <2>1. ASSUME NEW z \in Places' PROVE MspSize =< z /\ Span(z)' > 0 /\ z + Span(z)' =< p
    BY <1>0, <1>5
  <2>2. ASSUME NEW x \in Places', NEW y \in Places', x < y PROVE x + Span(x)' =< y
    BY <2>2, <1>5 DEF Regions, Apart
  <2> QED BY <2>1, <2>2 DEF Apart
<1>13. Enough'
  <2> SUFFICES ASSUME NEW z \in live \ {a} PROVE owned'[z] =< Span(z)' /\ (z \notin cinuse' => z \in pinuse')
    BY <1>4 DEF Enough
  <2>1. z \in Places' /\ owned'[z] = owned[z] /\ z \in Unit
    BY <1>0, <1>4 DEF Places, live
  <2>2. z \notin dead \cup {p} /\ Span(z)' = Span(z) /\ (z \in cinuse' <=> z \in cinuse)
    BY <2>1, <1>3, <1>5
  <2> QED BY <2>1, <2>2 DEF Regions, Enough
<1>14. Follows'
  <2> SUFFICES ASSUME NEW z \in (live \cap cinuse)', nextChunk(z)' \in Start' PROVE nextChunk(z)' \in pinuse'
    BY DEF Follows
  <2>1. z \in live \cap cinuse /\ z \in Places' /\ z \in Places /\ z \notin dead \cup {p} /\ z \in Unit
    BY <1>3, <1>4, <1>5 DEF Places, live
  <2>2. nextChunk(z)' = z + Span(z) /\ nextChunk(z) = z + Span(z) /\ z + Span(z) \in Unit
    BY <2>1, <1>0, <1>3 DEF nextChunk, Span
  <2>3. CASE z + Span(z) = p
    BY <2>2, <2>3
  <2>4. CASE z + Span(z) # p
    BY <2>1, <2>2, <2>4, <1>6 DEF Regions, Follows
  <2> QED BY <2>3, <2>4
<1>b. \A u \in Unit : p < u => csize'[u] = 0
  <2> SUFFICES ASSUME NEW u \in Unit, p < u PROVE csize'[u] = 0
    OBVIOUS
  <2>0. u \in Nat /\ u # p
    BY <1>0, <1>1
  <2>1. CASE u \in dead
    BY <2>0, <2>1, <1>3
  <2>2. CASE u \notin dead /\ u > n
    BY <2>0, <2>2, <1>3 DEF Regions, BlankTop
  <2>3. CASE u \notin dead /\ u < n
    <3>1. Over(u, p) \/ Over(u, a)
      BY <2>0, <2>3, <1>1, <1>g
    <3>2. \A q \in {p, a} : Over(u, q) => csize[u] = 0
      BY <2>0, <2>3, <1>0, <1>1 DEF Over, Regions, Blank
    <3> QED BY <2>0, <2>3, <3>1, <3>2, <1>3
  <2> QED BY <2>0, <2>1, <2>2, <2>3, <1>0
<1>15. BlankTop'
  BY <1>b, <1>1 DEF BlankTop
<1>17. Blank'
  <2> SUFFICES ASSUME NEW z \in Places', z \in live' => z \in cinuse', NEW u \in Unit, z < u, u < z + Span(z)'
               PROVE  csize'[u] = 0
    BY DEF Blank
  <2>1. z \in Places /\ z \in Nat /\ u \in Nat /\ u < z + Span(z) /\ (z \in live => z \in cinuse) /\ u < p
    BY <1>0, <1>1, <1>3, <1>4, <1>5
  <2>2. csize[u] = 0
    BY <2>1 DEF Regions, Blank
  <2> QED BY <2>1, <2>2, <1>1, <1>3
<1>18. Backlinks'
  <2> SUFFICES ASSUME NEW x \in (live \cap cinuse)', x \notin pinuse', NEW y, y = x - foot'[x] PROVE Joins(y, x)'
    BY DEF Backlinks
  <2>1. x \in live \cap cinuse /\ x \in Places' /\ x \in Unit
    BY <1>3, <1>4 DEF live, Places
  <2>2. x \notin dead /\ x # p
    BY <2>1, <1>5
  <2>3. x \notin pinuse /\ y = x - foot[x] /\ y \in Int
    BY <2>1, <2>2, <1>0
  <2>4. Joins(y, x)
    BY <2>1, <2>3 DEF Regions, Backlinks
  <2> SUFFICES ASSUME NEW z \in Places', Over(y, z)'
               PROVE  Stuck(z)' \/ (z \notin live' /\ y = z /\ z + Span(z)' = x)
    BY DEF Joins
  <2>5. Over(y, z) /\ z \in Places /\ z # a
    BY <2>3, <1>5, <1>7
  <2>6. Stuck(z) \/ (z \notin live /\ y = z /\ z + Span(z) = x)
    BY <2>4, <2>5 DEF Joins
  <2> QED BY <2>5, <2>6, <1>4, <1>5, <1>9 DEF Stuck
<1>19. Headless'
  <2> SUFFICES ASSUME NEW x \in Places', x \notin Start', NEW y, y = x - foot'[x], NEW w, w = x - 1
               PROVE  Idle(y)' /\ Idle(w)'
    BY DEF Headless
  <2>1. x \in Places /\ x \notin dead \cup {p} /\ x \in Unit /\ x \in Nat
    BY <1>0, <1>5
  <2>2. x \notin Start
    BY <2>1, <1>3 DEF Start
  <2>3. Idle(x - foot[x]) /\ Idle(w)
    BY <2>1, <2>2 DEF Regions, Headless
  <2>4. y = x - foot[x] /\ y \in Int /\ w \in Int
    BY <2>1, <1>0
  <2> QED BY <2>3, <2>4, <1>10
<1> QED BY <1>11, <1>12, <1>13, <1>14, <1>15, <1>17, <1>18, <1>19 DEF Regions

-----------------------------------------------------------------------------
(* The steps of the heap, and what they mean to the client *)

\* What a step does to the client: nothing, because the process has been stopped, or a step
\* of the block store that leaves the regions in order.  A free that goes astray is neither.
Outcome == (halt' # "no" /\ owned' = owned) \/ (Regions' /\ Store!Next)

\* The process stops.
LEMMA CrashOutcome == ASSUME NEW kind \in {"fault", "undefined"}, Crash(kind) PROVE Outcome
BY DEF Crash, Outcome

\* A block handed out of a free region, or of the front of top, is nobody's.
LEMMA HandsOut ==
  ASSUME TypeOK, Regions, NEW p \in Unit, NEW nb \in Nat \ {0}, owned' = [owned EXCEPT ![p] = nb],
         (p \in Places \ live /\ nb =< Span(p)) \/ (p = top /\ top + nb =< Arena)
  PROVE  Store!Next
<1>0. /\ Unit \subseteq Nat /\ Unit = 0 .. Arena - 1 /\ Arena \in Nat /\ MspSize \in Nat
      /\ \A z \in Places : /\ z \in Unit /\ z \in Nat /\ Span(z) \in Nat \ {0} /\ z + Span(z) \in Unit
                           /\ z + Span(z) =< top /\ MspSize =< z /\ z < top
      /\ owned \in [Unit -> Nat] /\ top \in Nat
  BY PlaceFacts
<1>1. p \in Nat /\ MspSize =< p /\ p + nb =< Arena
  BY <1>0 DEF Regions, TopEnds
<1>2. ASSUME NEW b \in Unit PROVE (b .. b + owned[b] - 1) \cap (p .. p + nb - 1) = {}
  <2> SUFFICES ASSUME NEW u \in b .. b + owned[b] - 1, u \in p .. p + nb - 1 PROVE FALSE
    OBVIOUS
  <2>0. b \in Nat /\ owned[b] \in Nat
    BY <1>0
  <2>1. u \in Int /\ b =< u /\ u < b + owned[b] /\ p =< u /\ u < p + nb
    BY <2>0, <1>1
  <2>2. b \in live /\ b \in Places
    BY <2>0, <2>1 DEF live, Places
  <2>3. owned[b] =< Span(b) /\ Span(b) \in Nat /\ b + Span(b) =< top
    BY <2>2, <1>0 DEF Regions, Enough
  <2>4. Over(u, b)
    BY <2>0, <2>1, <2>3 DEF Over
  <2>5. CASE p \in Places \ live /\ nb =< Span(p)
    <3>1. Over(u, p)
      BY <2>1, <2>5, <1>0, <1>1 DEF Over
    <3> QED BY <2>1, <2>2, <2>4, <2>5, <3>1, OverOne
  <2>6. CASE p = top
    BY <2>0, <2>1, <2>3, <2>6, <1>0
  <2> QED BY <2>5, <2>6
<1>3. owned'[p] = nb /\ owned' = [owned EXCEPT ![p] = owned'[p]]
  BY <1>0
<1>4. Store!HandOut(p)
  BY <1>0, <1>1, <1>2, <1>3 DEF Store!HandOut, Store!At, Store!Addresses, Store!Extent
<1> QED BY <1>0, <1>4 DEF Store!Next, Store!Addresses

\* A freed block leaves the client's hands.
LEMMA TakesBack ==
  ASSUME TypeOK, NEW a \in live, owned' = [owned EXCEPT ![a] = 0]
  PROVE  Store!Next
<1>1. a \in Unit /\ owned[a] > 0 /\ owned \in [Unit -> Nat] /\ Unit = Store!Addresses
  BY DEF live, TypeOK, Unit, Store!Addresses
<1>2. owned'[a] = 0 /\ owned' = [owned EXCEPT ![a] = owned'[a]]
  BY <1>1
<1>3. Store!TakeBack(a)
  BY <1>1, <1>2 DEF Store!TakeBack, Store!At
<1> QED BY <1>1, <1>3 DEF Store!Next

\* A binned chunk is taken whole.
LEMMA FitOutcome ==
  ASSUME TypeOK, Regions, NEW p \in binned, NEW nb \in Nat \ {0}, nb =< bin[p],
         MarkInuse(p, bin[p]), bin' = Unlink({p}), Grant(p, nb),
         UNCHANGED <<dv, dv_size, top, top_size, footprint>>
  PROVE  Outcome
<1>1. p \in Places \ live /\ Span(p) = bin[p] /\ ~isDv(p) /\ p \in Unit
  BY DEF Regions, OneUse, Places, Span, isDv, binned
<1>2. bin[p] \in Nat \ {0}
  BY <1>1, PlaceFacts
<1>3. owned' = [owned EXCEPT ![p] = nb]
  BY DEF Grant
<1>4. \A a \in Unit : isDv(a)' <=> isDv(a) /\ a # p
  BY <1>1 DEF isDv
<1>k. bin[p] =< Span(p)
  BY <1>1, <1>2
<1>5. Regions'
  BY <1>1, <1>2, <1>3, <1>4, <1>k, WholeRegions
<1>6. Store!Next
  BY <1>1, <1>3, HandsOut
<1> QED BY <1>5, <1>6 DEF Outcome

\* A binned chunk is split, or the process is stopped.
LEMMA CarveOutcome ==
  ASSUME TypeOK, Regions, NEW p \in binned, NEW nb \in Nat \ {0}, nb # bin[p], Carve(p, nb, bin[p])
  PROVE  Outcome
<1> DEFINE rest == bin[p] - nb
           t    == p + nb
<1>1. CASE bin[p] < nb \/ ~isSmall(dv_size) \/ ~Backed({p, t, p + rest})
  <2>1. Crash("undefined") \/ Crash("fault")
    BY <1>1 DEF Carve, Touching
  <2> QED BY <2>1, CrashOutcome
<1>2. CASE ~(bin[p] < nb) /\ isSmall(dv_size) /\ Backed({p, t, p + rest})
  <2>1. /\ csize' = [csize EXCEPT ![p] = rest]
        /\ pinuse' = pinuse \cup {p}
        /\ cinuse' = cinuse \ {p}
        /\ foot' = [foot EXCEPT ![t] = Msp, ![p + rest] = rest]
        /\ bin' = [a \in Unit |-> IF a = p THEN 0 ELSE IF isDv(a) THEN dv_size ELSE bin[a]]
        /\ dv' = t /\ dv_size' = rest
        /\ owned' = [owned EXCEPT ![p] = nb]
        /\ UNCHANGED <<top, top_size, footprint>>
    BY <1>2 DEF Carve, Touching, Grant, pages
  <2>2. p \in Places \ live /\ Span(p) = bin[p] /\ p \in Unit
    BY DEF Regions, OneUse, Places, Span, binned
  <2>3. bin[p] \in Nat \ {0}
    BY <2>2, PlaceFacts
  <2>4. rest \in Nat \ {0} /\ bin[p] = nb + rest
    BY <2>3, <1>2
  <2>k. nb =< Span(p)
    BY <2>2, <2>3, <1>2
  <2>5. Store!Next
    BY <2>1, <2>2, <2>k, HandsOut
  <2>6. t = p + nb
    OBVIOUS
  <2> HIDE DEF rest, t
  <2>7. Regions'
    BY <2>1, <2>4, <2>6, CarveRegions
  <2> QED BY <2>5, <2>7 DEF Outcome
<1> QED BY <1>1, <1>2

\* A small count is what the x86 shift leaves of it.
LEMMA ShiftSmall == ASSUME NEW nb \in Nat, nb < kNumSmallBins PROVE shift(nb) = nb
BY SizesAssumption DEF shift

\* Every path of alloc.
LEMMA AllocOutcome ==
  ASSUME TypeOK, Regions, NEW r \in Requests, alloc(r)
  PROVE  Outcome
<1> DEFINE nb == padRequest(r)
<1>0. nb \in Nat \ {0} /\ nb >= 2
  <2>1. r \in Nat
    BY SizesAssumption
  <2> HIDE DEF nb
  <2>2. nb \in Nat /\ nb >= 2
    BY <2>1, PadNat DEF nb
  <2> QED BY <2>2
<1>f. \A p \in binned : bin[p] \in Nat
  BY DEF binned, TypeOK
<1>1. ASSUME NEW p \in binned, AllocSmallFit(r, p) PROVE Outcome
  <2> DEFINE size == IF nb \in small_map THEN nb ELSE nb + 1
  <2>1. bin[p] = size /\ (Crash("fault") \/
           (/\ MarkInuse(p, size) /\ bin' = Unlink({p}) /\ Grant(p, nb)
            /\ UNCHANGED <<dv, dv_size, top, top_size, footprint>>))
    BY <1>1 DEF AllocSmallFit, Touching, Quiet, pages
  <2>2. nb =< size
    BY <1>0
  <2> HIDE DEF nb, size
  <2> QED BY <2>1, <2>2, <1>0, FitOutcome, CrashOutcome
<1>2. ASSUME AllocWildBin(r) \/ AllocDirect(r) PROVE Outcome
  BY <1>2, CrashOutcome DEF AllocWildBin, AllocDirect
<1>3. ASSUME NEW p \in binned, AllocSplit(r, p) PROVE Outcome
  <2>1. Carve(p, nb, bin[p]) /\ FitBits(nb) = {} /\ bin[p] \in small_map
    BY <1>3 DEF AllocSplit, SmallBits
  <2>2. nb # bin[p]
    <3> SUFFICES ASSUME nb = bin[p] PROVE FALSE
      OBVIOUS
    <3>1. bin[p] \in 1 .. kNumSmallBins - 1
      BY <2>1 DEF small_map
    <3>2. nb < kNumSmallBins
      BY <3>1, SizesAssumption
    <3>3. shift(nb) = nb
      BY <3>2, <1>0, ShiftSmall
    <3> QED BY <2>1, <3>3 DEF FitBits
  <2> QED BY <2>1, <2>2, <1>0, CarveOutcome
<1>4. ASSUME NEW p \in binned, AllocTree(r, p) PROVE Outcome
  <2>1. IF nb =< bin[p] /\ bin[p] < nb + kMinChunkSize
        THEN Touching({p, p + bin[p]},
               /\ MarkInuse(p, bin[p]) /\ bin' = Unlink({p}) /\ Grant(p, nb)
               /\ Quiet /\ UNCHANGED <<dv, dv_size, top, top_size, lost, alarm>>)
        ELSE Carve(p, nb, bin[p])
    BY <1>4 DEF AllocTree
  <2>2. CASE nb =< bin[p] /\ bin[p] < nb + kMinChunkSize
    <3>1. CASE ~Backed({p, p + bin[p]})
      BY <2>1, <2>2, <3>1, CrashOutcome DEF Touching
    <3>2. CASE Backed({p, p + bin[p]})
      <4>1. MarkInuse(p, bin[p]) /\ bin' = Unlink({p}) /\ Grant(p, nb)
            /\ UNCHANGED <<dv, dv_size, top, top_size, footprint>>
        BY <2>1, <2>2, <3>2 DEF Touching, Quiet, pages
      <4> QED BY <2>2, <4>1, <1>0, FitOutcome
    <3> QED BY <3>1, <3>2
  <2>3. CASE ~(nb =< bin[p] /\ bin[p] < nb + kMinChunkSize)
    <3>1. Carve(p, nb, bin[p])
      BY <2>1, <2>3
    <3>2. nb # bin[p]
      BY <2>3, <1>0, <1>f DEF kMinChunkSize
    <3> QED BY <3>1, <3>2, <1>0, CarveOutcome
  <2> QED BY <2>2, <2>3
<1>d. dv_size \in Nat /\ (dv_size > 0 => dv \in Places \ live /\ Span(dv) = dv_size /\ dv \in Unit /\ bin[dv] = 0)
  <2>1. dv_size \in Nat /\ bin \in [Unit -> Nat]
    BY DEF TypeOK
  <2>2. ASSUME dv_size > 0 PROVE dv \in Places \ live /\ Span(dv) = dv_size /\ dv \in Unit /\ bin[dv] = 0
    BY <2>1, <2>2 DEF Regions, OneUse, Places, Span, isDv, binned
  <2> QED BY <2>1, <2>2
<1>5. ASSUME AllocDvSplit(r) PROVE Outcome
  <2> DEFINE rest == dv_size - nb
             t    == dv + nb
             q    == dv
  <2>1. nb + kMinChunkSize =< dv_size /\ Touching({dv, t, dv + dv_size},
             /\ SplitInuse(dv, nb, rest)
             /\ foot' = [foot EXCEPT ![t] = Msp, ![dv + dv_size] = rest]
             /\ dv' = t /\ dv_size' = rest
             /\ Grant(dv, nb)
             /\ Quiet /\ UNCHANGED <<bin, top, top_size, lost, alarm>>)
    BY <1>5 DEF AllocDvSplit
  <2>2. CASE ~Backed({dv, t, dv + dv_size})
    BY <2>1, <2>2, CrashOutcome DEF Touching
  <2>3. CASE Backed({dv, t, dv + dv_size})
    <3>1. /\ SplitInuse(q, nb, rest)
          /\ foot' = [foot EXCEPT ![t] = Msp, ![q + dv_size] = rest]
          /\ dv' = t /\ dv_size' = rest /\ owned' = [owned EXCEPT ![q] = nb]
          /\ UNCHANGED <<bin, top, top_size, footprint>>
      BY <2>1, <2>3 DEF Touching, Quiet, pages, Grant
    <3>2. rest \in Nat \ {0} /\ nb + rest = dv_size /\ dv_size > 0 /\ nb =< dv_size
      BY <2>1, <1>0, <1>d DEF kMinChunkSize
    <3>3. q = dv /\ t = q + nb
      OBVIOUS
    <3>4. q \in Places \ live /\ nb =< Span(q) /\ q \in Unit
      BY <3>2, <1>d
    <3> HIDE DEF nb, rest, t, q
    <3>5. Regions'
      BY <3>1, <3>2, <3>3, <1>0, DvRegions
    <3>6. Store!Next
      BY <3>1, <3>4, <1>0, HandsOut
    <3> QED BY <3>5, <3>6 DEF Outcome
  <2> QED BY <2>2, <2>3
<1>6. ASSUME AllocDvExhaust(r) PROVE Outcome
  <2> DEFINE q == dv
  <2>1. nb =< dv_size /\ Touching({dv, dv + nb},
             /\ MarkInuse(dv, nb)
             /\ dv' = 0 /\ dv_size' = 0
             /\ Grant(dv, nb)
             /\ Quiet /\ UNCHANGED <<bin, top, top_size, lost, alarm>>)
    BY <1>6 DEF AllocDvExhaust
  <2>2. CASE ~Backed({dv, dv + nb})
    BY <2>1, <2>2, CrashOutcome DEF Touching
  <2>3. CASE Backed({dv, dv + nb})
    <3>1. /\ MarkInuse(q, nb) /\ owned' = [owned EXCEPT ![q] = nb]
          /\ dv' = 0 /\ dv_size' = 0 /\ bin' = bin
          /\ UNCHANGED <<top, top_size, footprint>>
      BY <2>1, <2>3 DEF Touching, Quiet, pages, Grant
    <3>2. dv_size > 0
      BY <2>1, <1>0, <1>d
    <3>3. q \in Places \ live /\ nb =< Span(q) /\ q \in Unit /\ bin[q] = 0
      BY <2>1, <3>2, <1>d
    <3>4. bin' = Unlink({q})
      BY <3>1, <3>3 DEF Unlink, TypeOK
    <3>5. \A a \in Unit : isDv(a)' <=> isDv(a) /\ a # q
      BY <3>1 DEF isDv
    <3> HIDE DEF nb, q
    <3>6. nb =< nb
      BY <1>0
    <3>7. Regions'
      BY <3>1, <3>3, <3>4, <3>5, <3>6, <1>0, WholeRegions
    <3>8. Store!Next
      BY <3>1, <3>3, <1>0, HandsOut
    <3> QED BY <3>7, <3>8 DEF Outcome
  <2> QED BY <2>2, <2>3
<1>t. top + top_size = footprint /\ footprint =< Arena /\ top \in Nat /\ top_size \in Nat /\ footprint \in Nat
      /\ top \in Unit /\ Arena \in Nat
  BY PlaceFacts DEF Regions, TopEnds
<1>s. ASSUME NEW rest \in Nat \ {0}, SplitTop(nb, rest), footprint' = top + nb + rest, footprint' =< Arena PROVE Outcome
  <2> DEFINE q == top
             t == q + nb
  <2>1. owned' = [owned EXCEPT ![q] = nb] /\ q = top /\ t = q + nb /\ footprint' = t + rest
    BY <1>s DEF SplitTop, Grant
  <2> HIDE DEF nb, q, t
  <2>2. top + nb =< Arena
    BY <1>0, <1>s, <1>t
  <2>3. Regions'
    BY <2>1, <1>0, <1>s, TopRegions
  <2>4. Store!Next
    BY <2>1, <2>2, <1>0, <1>t, HandsOut
  <2> QED BY <2>3, <2>4 DEF Outcome
<1>7. ASSUME AllocTop(r) PROVE Outcome
  <2>1. Crash("fault") \/ (nb < top_size /\ SplitTop(nb, top_size - nb) /\ footprint' = footprint)
    BY <1>7 DEF AllocTop
  <2> HIDE DEF nb
  <2>2. ASSUME nb < top_size /\ SplitTop(nb, top_size - nb) /\ footprint' = footprint PROVE Outcome
    <3>1. top_size - nb \in Nat \ {0} /\ footprint' = top + nb + (top_size - nb)
      BY <2>2, <1>0, <1>t
    <3> QED BY <2>2, <3>1, <1>s, <1>t
  <2> QED BY <2>1, <2>2, CrashOutcome
<1>8. ASSUME AllocGrow(r) PROVE Outcome
  <2> DEFINE grown == PagesFor(nb) * PageSize
  <2>1. \/ Crash("fault")
        \/ SplitTop(nb, top_size + grown - nb) /\ footprint' = footprint + grown /\ footprint + grown =< Arena
    BY <1>8 DEF AllocGrow
  <2>g. nb >= top_size
    BY <1>8 DEF AllocGrow, NeedsSystem
  <2>2. grown \in Nat /\ nb =< grown
    BY <1>0, PagesNat
  <2> HIDE DEF nb, grown
  <2>3. ASSUME SplitTop(nb, top_size + grown - nb) /\ footprint' = footprint + grown /\ footprint + grown =< Arena
        PROVE Outcome
    <3>1. top_size > 0
      BY DEF Regions, TopEnds
    <3>2. top_size + grown - nb \in Nat \ {0} /\ footprint' = top + nb + (top_size + grown - nb)
      BY <2>2, <2>3, <3>1, <1>0, <1>t
    <3> QED BY <2>3, <3>2, <1>s, <1>t
  <2> QED BY <2>1, <2>3, CrashOutcome
<1> HIDE DEF nb
<1> QED BY <1>1, <1>2, <1>3, <1>4, <1>5, <1>6, <1>7, <1>8 DEF alloc

\* The successor of a block that free looks at has its PINUSE bit set.
LEMMA SuccessorHeld ==
  ASSUME Regions, NEW a \in live, Pooled(a), Reads(a)
  PROVE  nextChunk(a) \in pinuse
<1>1. a \in cinuse
  BY DEF Pooled, isInuse, Regions, Enough
<1>2. nextChunk(a) \in Start
  BY DEF Reads
<1> QED BY <1>1, <1>2 DEF Regions, Follows

\* Every path of free.
LEMMA FreeOutcome ==
  ASSUME TypeOK, Regions, NEW a \in live, free(a), ~astray'
  PROVE  Outcome
<1> DEFINE p == base(a)
           n == nextChunk(a)
<1>1. ASSUME FreeIgnored(a) \/ FreeDirect(a) PROVE Outcome
  <2>1. HandBack(a) /\ UNCHANGED <<heap, space, footprint>>
    BY <1>1 DEF FreeIgnored, FreeDirect, pages
  <2>2. Regions'
    BY <2>1, DropRegions
  <2>3. Store!Next
    BY <2>1, TakesBack DEF HandBack
  <2> QED BY <2>2, <2>3 DEF Outcome
<1>2. ASSUME FreeUndefined(a) \/ FreeFault(a) PROVE Outcome
  BY <1>2, CrashOutcome DEF FreeUndefined, FreeFault
<1>3. ASSUME Consolidates(a)
      PROVE  /\ a \in live \cap cinuse /\ ~Stuck(a) /\ n = a + Span(a) /\ n \in Start
             /\ p \in Places /\ (p = a \/ (p \notin live /\ p + Span(p) = a))
             /\ p + bsize(a) = n /\ bsize(a) \in Int
             /\ owned' = [owned EXCEPT ![a] = 0] /\ Store!Next
  <2>1. Pooled(a) /\ Sound(a) /\ owned' = [owned EXCEPT ![a] = 0]
    BY <1>3, ~astray' DEF Consolidates, HandBack
  <2>2. Store!Next
    BY <2>1, TakesBack
  <2> QED BY <2>1, <2>2, FreedRegion
<1>b. /\ bin \in [Unit -> Nat] /\ dv_size \in Nat /\ csize \in [Unit -> Nat]
      /\ \A z \in Places : z \in Unit /\ z \in Nat /\ Span(z) \in Nat \ {0}
      /\ \A z \in live : bin[z] = 0 /\ ~isDv(z) /\ z \in Places
      /\ \A z \in Unit : isDv(z) => bin[z] = 0 /\ z \in Places \ live /\ Span(z) = dv_size
  <2>1. ASSUME NEW z \in Unit, isDv(z) PROVE bin[z] = 0 /\ z \in Places \ live /\ Span(z) = dv_size
    BY <2>1 DEF Regions, OneUse, TypeOK, binned, Places, Span, isDv
  <2> QED BY <2>1, PlaceFacts DEF Places
<1>u. Unlink(Prev(a)) = Unlink({p})
  <2>1. a \notin binned
    BY DEF Regions, OneUse
  <2> QED BY <2>1, PrevUnlinked
<1>4. ASSUME FreePrevDv(a) PROVE Outcome
  <2> DEFINE size == bsize(a)
             dead == {a}
             cleared == {n}
  <2>1. Consolidates(a) /\ isDv(p) /\ n \in cinuse /\ dv_size' = size /\ FreeChunk(a, size, {a}, {n})
        /\ UNCHANGED <<bin, dv, top, top_size, footprint>>
    BY <1>4 DEF FreePrevDv, IntoPrevDv, pages
  <2>2. /\ Merge(p, size, dead) /\ pinuse' = ((pinuse \ dead) \cup {p}) \ cleared
        /\ foot' = [u \in Unit |-> IF u = p + size THEN size ELSE IF u \in dead \ {p} THEN 0 ELSE foot[u]]
    BY <2>1 DEF FreeChunk
  <2>3. p + size = n
    BY <2>1, <1>3
  <2>4. bin' = [u \in Unit |-> IF u = p THEN 0 ELSE IF u \in dead THEN 0 ELSE bin[u]]
    <3>1. p \in Unit /\ bin[p] = 0 /\ bin[a] = 0
      BY <2>1, <1>3, <1>b
    <3> QED BY <2>1, <3>1, <1>b
  <2>5. dv' = p /\ dv_size' = size /\ \A z \in Unit : isDv(z) => z = p \/ z \in dead
    BY <2>1 DEF isDv
  <2>6. cleared \in SUBSET {n} /\ n \in cinuse /\ dead = {a}
    BY <2>1
  <2>7. foot' = [u \in Unit |-> IF u = n THEN size ELSE IF u \in dead \ {p} THEN 0 ELSE foot[u]]
    BY <2>2, <2>3
  <2> HIDE DEF p, n, size, dead, cleared
  <2>8. Regions'
    <3>1. /\ a \in live \cap cinuse /\ ~Stuck(a) /\ p \in Places /\ (p = a \/ (p \notin live /\ p + Span(p) = a))
          /\ n = a + Span(a) /\ p + size = n
      BY <2>1, <2>3, <1>3
    <3>2. size \in Int
      BY <2>1, <1>3 DEF size
    <3>3. owned' = [owned EXCEPT ![a] = 0] /\ top' = top /\ top_size' = top_size /\ footprint' = footprint
      BY <2>1, <1>3
    <3>m. MergesAt(a, p, n, n, size, dead, cleared, 0)
      BY <3>1, <3>2, <3>3, <2>1, <2>2, <2>3, <2>4, <2>5, <2>6, <2>7, <1>3 DEF MergesAt
    <3> QED BY <3>m, MergeRegions
  <2> QED BY <2>1, <2>8, <1>3 DEF Outcome
<1>5. ASSUME FreeNextDv(a) PROVE Outcome
  <2> DEFINE size == dv_size + bsize(a)
             dead == {a, n}
             e == n + dv_size
  <2>1. Consolidates(a) /\ isDv(n) /\ dv' = p /\ dv_size' = size /\ FreeChunk(a, size, {a, n}, {})
        /\ bin' = Unlink({p}) /\ UNCHANGED <<top, top_size, footprint>>
    BY <1>5, <1>u DEF FreeNextDv, pages
  <2>2. /\ Merge(p, size, dead) /\ pinuse' = ((pinuse \ dead) \cup {p}) \ {}
        /\ foot' = [u \in Unit |-> IF u = p + size THEN size ELSE IF u \in dead \ {p} THEN 0 ELSE foot[u]]
    BY <2>1 DEF FreeChunk
  <2>u. n \in Unit
    BY <2>1 DEF Regions, OneUse, isDv
  <2>3. n \in Places \ live /\ e = n + Span(n) /\ bin[n] = 0 /\ n \in Nat
    BY <2>1, <2>u, <1>b
  <2>4. p + size = e /\ size \in Int
    <3>1. p + bsize(a) = n /\ bsize(a) \in Int /\ p \in Nat
      BY <2>1, <1>3, <1>b
    <3> HIDE DEF p, n
    <3> QED BY <3>1, <1>b
  <2>5. bin' = [u \in Unit |-> IF u = p THEN 0 ELSE IF u \in dead THEN 0 ELSE bin[u]]
    <3>1. p \in Unit /\ bin[n] = 0 /\ bin[a] = 0
      BY <2>1, <2>3, <1>3, <1>b
    <3> HIDE DEF p, n
    <3> QED BY <2>1, <3>1, <1>b DEF Unlink
  <2>6. \A z \in Unit : isDv(z) => z = p \/ z \in dead
    BY <2>1 DEF isDv
  <2>7. foot' = [u \in Unit |-> IF u = e THEN size ELSE IF u \in dead \ {p} THEN 0 ELSE foot[u]]
    BY <2>2, <2>4
  <2>8. dead = {a, n} /\ {} \in SUBSET {n}
    OBVIOUS
  <2> HIDE DEF p, n, size, dead, e
  <2>9. Regions'
    <3>m. MergesAt(a, p, n, e, size, dead, {}, 0)
      BY <2>1, <2>2, <2>3, <2>4, <2>5, <2>6, <2>7, <2>8, <1>3 DEF MergesAt
    <3> QED BY <3>m, MergeRegions
  <2> QED BY <2>1, <2>9, <1>3 DEF Outcome
<1>6. ASSUME FreeNextFree(a) PROVE Outcome
  <2> DEFINE size == bsize(a) + csize[n]
             dead == {a, n}
             e == n + csize[n]
  <2>1. /\ Consolidates(a) /\ n \in pinuse \ cinuse /\ n # top /\ ~isDv(n) /\ FreeChunk(a, size, {a, n}, {})
        /\ UNCHANGED <<dv, top, top_size, footprint>>
        /\ IF isDv(p) THEN dv_size' = size /\ bin' = Unlink({n})
                      ELSE bin' = [Unlink({n}) EXCEPT ![p] = size] /\ UNCHANGED dv_size
    BY <1>6 DEF FreeNextFree, FreeSuccessor, pages
  <2>2. /\ Merge(p, size, dead) /\ pinuse' = ((pinuse \ dead) \cup {p}) \ {}
        /\ foot' = [u \in Unit |-> IF u = p + size THEN size ELSE IF u \in dead \ {p} THEN 0 ELSE foot[u]]
    BY <2>1 DEF FreeChunk
  <2>3. n \in Places \ live /\ e = n + Span(n) /\ n \in Nat /\ csize[n] \in Nat /\ n \in Unit
    <3>1. Linked(n, csize[n])
      BY <2>1, ~astray' DEF Consolidates, Sound
    <3>2. n \in binned /\ bin[n] = csize[n]
      BY <3>1 DEF Linked, binned
    <3>3. n \in Places \ live /\ Span(n) = csize[n]
      BY <3>2 DEF Places, Span, Regions, OneUse
    <3> HIDE DEF n
    <3> QED BY <3>3, <1>b
  <2>4. p + size = e /\ size \in Int
    <3>1. p + bsize(a) = n /\ bsize(a) \in Int /\ p \in Nat
      BY <2>1, <1>3, <1>b
    <3> HIDE DEF p, n
    <3> QED BY <3>1, <2>3
  <2>7. foot' = [u \in Unit |-> IF u = e THEN size ELSE IF u \in dead \ {p} THEN 0 ELSE foot[u]]
    BY <2>2, <2>4
  <2>8. dead = {a, n} /\ {} \in SUBSET {n} /\ p \in Unit /\ p # n /\ bin[a] = 0 /\ a \in Unit /\ ~isDv(a)
    <3>1. p \in Unit /\ bin[a] = 0 /\ a \in Unit /\ ~isDv(a) /\ a \in Nat /\ p \in Nat /\ Span(a) \in Nat \ {0}
          /\ (p = a \/ p + Span(p) = a) /\ n = a + Span(a) /\ Span(p) \in Nat
      BY <2>1, <1>3, <1>b
    <3> HIDE DEF p, n
    <3>2. p # n
      BY <3>1
    <3> QED BY <3>1, <3>2
  <2>9. CASE isDv(p)
    <3>1. bin' = [u \in Unit |-> IF u = p THEN 0 ELSE IF u \in dead THEN 0 ELSE bin[u]]
      <4>1. bin[p] = 0
        BY <2>8, <2>9, <1>b
      <4> HIDE DEF p, n
      <4> QED BY <2>1, <2>8, <2>9, <4>1, <1>b DEF Unlink
    <3>2. dv' = p /\ dv_size' = size /\ \A z \in Unit : isDv(z) => z = p \/ z \in dead
      BY <2>1, <2>9 DEF isDv
    <3> HIDE DEF p, n, size, dead, e
    <3>3. Regions'
      <4>m. MergesAt(a, p, n, e, size, dead, {}, 0)
        BY <2>1, <2>2, <2>3, <2>4, <2>7, <2>8, <3>1, <3>2, <1>3 DEF MergesAt
      <4> QED BY <4>m, MergeRegions
    <3> QED BY <2>1, <3>3, <1>3 DEF Outcome
  <2>10. CASE ~isDv(p)
    <3>1. bin' = [u \in Unit |-> IF u = p THEN size ELSE IF u \in dead THEN 0 ELSE bin[u]]
      <4> HIDE DEF p, n, size
      <4> QED BY <2>1, <2>8, <2>10, <1>b DEF Unlink
    <3>2. dv' = dv /\ dv_size' = dv_size /\ \A z \in Unit : isDv(z) => z # p /\ z \notin dead
      BY <2>1, <2>8, <2>10
    <3> HIDE DEF p, n, size, dead, e
    <3>3. Regions'
      <4>m. MergesAt(a, p, n, e, size, dead, {}, size)
        BY <2>1, <2>2, <2>3, <2>4, <2>7, <2>8, <3>1, <3>2, <1>3 DEF MergesAt
      <4> QED BY <4>m, MergeRegions
    <3> QED BY <2>1, <3>3, <1>3 DEF Outcome
  <2> QED BY <2>9, <2>10
<1>7. ASSUME FreeNextInuse(a) PROVE Outcome
  <2> DEFINE size == bsize(a)
             dead == {a}
             cleared == {n}
  <2>1. Consolidates(a) /\ ~IntoPrevDv(a) /\ n \in pinuse \cap cinuse /\ FreeChunk(a, size, {a}, {n})
        /\ bin' = [bin EXCEPT ![p] = size] /\ UNCHANGED <<dv, dv_size, top, top_size, footprint>>
    BY <1>7 DEF FreeNextInuse, HeldSuccessor, Insert, pages
  <2>2. /\ Merge(p, size, dead) /\ pinuse' = ((pinuse \ dead) \cup {p}) \ cleared
        /\ foot' = [u \in Unit |-> IF u = p + size THEN size ELSE IF u \in dead \ {p} THEN 0 ELSE foot[u]]
    BY <2>1 DEF FreeChunk
  <2>3. p + size = n /\ ~isDv(a) /\ bin[a] = 0 /\ a \in Unit /\ p \in Unit
    BY <2>1, <1>3, <1>b
  <2>4. ~isDv(p)
    <3>1. CASE a \in pinuse
      BY <2>3, <3>1 DEF base
    <3>2. CASE a \notin pinuse
      BY <2>1, <3>2 DEF IntoPrevDv
    <3> QED BY <3>1, <3>2
  <2>5. bin' = [u \in Unit |-> IF u = p THEN size ELSE IF u \in dead THEN 0 ELSE bin[u]]
    <3> HIDE DEF p, size
    <3> QED BY <2>1, <2>3, <1>b
  <2>6. dv' = dv /\ dv_size' = dv_size /\ \A z \in Unit : isDv(z) => z # p /\ z \notin dead
    BY <2>1, <2>3, <2>4
  <2>7. foot' = [u \in Unit |-> IF u = n THEN size ELSE IF u \in dead \ {p} THEN 0 ELSE foot[u]]
    BY <2>2, <2>3
  <2>8. cleared \in SUBSET {n} /\ n \in cinuse /\ dead = {a}
    BY <2>1
  <2> HIDE DEF p, n, size, dead, cleared
  <2>9. Regions'
    <3>1. /\ a \in live \cap cinuse /\ ~Stuck(a) /\ p \in Places /\ (p = a \/ (p \notin live /\ p + Span(p) = a))
          /\ n = a + Span(a) /\ p + size = n
      BY <2>1, <2>3, <1>3
    <3>2. size \in Int
      BY <2>1, <1>3 DEF size
    <3>3. owned' = [owned EXCEPT ![a] = 0] /\ top' = top /\ top_size' = top_size /\ footprint' = footprint
      BY <2>1, <1>3
    <3>m. MergesAt(a, p, n, n, size, dead, cleared, size)
      BY <3>1, <3>2, <3>3, <2>1, <2>2, <2>3, <2>5, <2>6, <2>7, <2>8, <1>3 DEF MergesAt
    <3> QED BY <3>m, MergeRegions
  <2> QED BY <2>1, <2>9, <1>3 DEF Outcome
<1>8. ASSUME FreeIntoTop(a) PROVE Outcome
  <2> DEFINE size == top_size + bsize(a)
             dead == {a, n}
  <2>1. /\ Consolidates(a) /\ n = top /\ Merge(p, size, dead) /\ pinuse' = (pinuse \ dead) \cup {p}
        /\ foot' = [u \in Unit |-> IF u \in dead \ {p} THEN 0 ELSE foot[u]]
        /\ top' = p /\ top_size' = size /\ footprint' = footprint
        /\ IF isDv(p) THEN dv' = 0 /\ dv_size' = 0 /\ bin' = bin
                      ELSE bin' = Unlink({p}) /\ UNCHANGED <<dv, dv_size>>
    BY <1>8, <1>u DEF FreeIntoTop
  <2>2. p + size = footprint /\ size \in Int
    <3>1. p + bsize(a) = top /\ bsize(a) \in Int /\ p \in Nat /\ top + top_size = footprint /\ top_size \in Nat
          /\ top \in Nat
      BY <2>1, <1>3, <1>b DEF Regions, TopEnds, TypeOK
    <3> HIDE DEF p
    <3> QED BY <3>1
  <2>3. dead = {a, n}
    OBVIOUS
  <2> HIDE DEF p, n, size, dead
  <2>4. Regions'
    BY ZenonT(40), <2>1, <2>2, <2>3, <1>3, IntoTopRegions
  <2> QED BY <2>1, <2>4, <1>3 DEF Outcome
<1>9. ~FreeBroken(a)
  <2> SUFFICES ASSUME FreeBroken(a) PROVE FALSE
    OBVIOUS
  <2>1. Pooled(a) /\ Reads(a) /\ n \notin pinuse
    BY DEF FreeBroken
  <2> QED BY <2>1, SuccessorHeld
<1> HIDE DEF p, n
<1> QED BY <1>1, <1>2, <1>4, <1>5, <1>6, <1>7, <1>8, <1>9 DEF free

\* Only a running process takes a step.
LEMMA StepsRun == Next => Running
<1>1. ASSUME NEW r \in Requests, alloc(r) PROVE Running
  BY <1>1 DEF alloc, AllocSmallFit, AllocWildBin, AllocSplit, AllocTree, NoBin, AllocDvSplit, AllocDvExhaust,
     AllocTop, NeedsSystem, AllocGrow, AllocDirect, MayAlloc
<1>2. ASSUME NEW a, free(a) PROVE Running
  BY <1>2 DEF free, FreeIgnored, FreeDirect, FreeUndefined, FreeFault, FreePrevDv, FreeIntoTop, FreeNextDv,
     FreeNextFree, FreeNextInuse, FreeBroken, Consolidates, Pooled
<1> QED BY <1>1, <1>2 DEF Next, Allocate, Release

\* A space that went astray stays so.
LEMMA AstrayStays == [Next]_vars /\ ~astray' => ~astray
<1>1. ASSUME NEW r \in Requests, alloc(r) PROVE astray' = astray
  BY <1>1 DEF alloc, AllocSmallFit, AllocWildBin, AllocSplit, AllocTree, Carve, AllocDvSplit, AllocDvExhaust,
     AllocTop, AllocGrow, AllocDirect, SplitTop, Touching, Crash, Quiet
<1>2. ASSUME NEW a, free(a), astray PROVE astray'
  BY <1>2, Zenon DEF free, FreeIgnored, FreeDirect, FreeUndefined, FreeFault, FreePrevDv, FreeIntoTop, FreeNextDv,
     FreeNextFree, FreeNextInuse, FreeBroken, Consolidates, Crash
<1> QED BY <1>1, <1>2 DEF Next, Allocate, Release, vars, ghosts

\* Every step, seen from the regions and from the client.
LEMMA RegionsStep ==
  ASSUME TypeOK, RegionsApart, [Next]_vars
  PROVE  RegionsApart' /\ [astray' \/ Store!Next]_owned
<1>0. CASE astray'
  BY <1>0 DEF RegionsApart
<1>1. CASE Next /\ ~astray'
  <2>1. Running /\ Regions
    BY <1>1, StepsRun, AstrayStays DEF RegionsApart
  <2>2. Outcome
    BY <1>1, <2>1, AllocOutcome, FreeOutcome DEF Next, Allocate, Release
  <2> QED BY <2>2 DEF Outcome, RegionsApart, Running
<1>2. CASE UNCHANGED vars
  <2>1. UNCHANGED <<csize, pinuse, cinuse, foot, bin, dv, dv_size, top, top_size, footprint, owned, astray, halt>>
    BY <1>2 DEF vars, heap, space, pages, ghosts
  <2>2. Start' = Start /\ live' = live /\ binned' = binned /\ \A z : nextChunk(z)' = nextChunk(z) /\ isDv(z)' = isDv(z)
    BY <2>1 DEF Start, live, binned, nextChunk, isDv
  <2>3. Places' = Places /\ \A z : Span(z)' = Span(z)
    BY <2>1, <2>2 DEF Places, Span
  <2>4. \A u, z : Over(u, z)' = Over(u, z)
    BY <2>3 DEF Over
  <2>5. \A u : Dead(u)' = Dead(u)
    BY <2>1, <2>2, <2>3, <2>4 DEF Dead
  <2>6. \A z : Stuck(z)' = Stuck(z)
    BY <2>1, <2>2, <2>5 DEF Stuck, nextChunk
  <2>7. \A u, x : Idle(u)' = Idle(u) /\ Joins(u, x)' = Joins(u, x)
    BY <2>2, <2>3, <2>4, <2>6 DEF Idle, Joins
  <2>8. Regions => Regions'
    BY <2>1, <2>2, <2>3, <2>7
       DEF Regions, FreeTags, OneUse, TopEnds, Apart, Enough, Follows, BlankTop, Blank, Backlinks, Headless, nextChunk
  <2> QED BY <2>1, <2>8 DEF RegionsApart, Running
<1> QED BY <1>0, <1>1, <1>2

\* The heap createMemorySpace leaves behind has one region, top.
LEMMA InitRegions == ASSUME Init PROVE Regions
<1>1. Unit \subseteq Nat /\ 0 \in Unit /\ MspSize \in Unit /\ MspSize \in Nat \ {0} /\ InitialSize \in Nat
      /\ MspSize < InitialSize /\ InitialSize =< Arena
  BY ArenaNat, SizesAssumption DEF Unit
<1>2. \A u \in Unit : csize[u] = (IF u = 0 THEN MspSize ELSE 0) /\ bin[u] = 0 /\ owned[u] = 0
  BY DEF Init
<1>3. live = {} /\ binned = {} /\ dv_size = 0 /\ top = MspSize
  BY <1>2 DEF Init, live, binned
<1>4. Places = {}
  BY <1>3 DEF Places, isDv
<1>5. TopEnds /\ OneUse
  BY <1>1, <1>3 DEF Init, TopEnds, OneUse
<1>6. BlankTop
  BY <1>1, <1>2, <1>3 DEF BlankTop
<1> QED BY <1>3, <1>4, <1>5, <1>6 DEF Regions, FreeTags, Apart, Enough, Follows, Blank, Backlinks, Headless

-----------------------------------------------------------------------------
(* The theorems *)

\* The inductive invariant.
LEMMA RegionsHold == Spec => []RegionsApart
<1>1. Init => RegionsApart
  BY InitRegions DEF RegionsApart
<1>2. TypeOK /\ RegionsApart /\ [Next]_vars => RegionsApart'
  BY RegionsStep
<1> QED BY <1>1, <1>2, TypeCorrect, PTL DEF Spec

\* Only a carve leads a free astray, and until one is, what the client holds and what may be
\* handed out again are apart, although the heads of carved chunks are wrong.
THEOREM RegionsStayApart == Spec => []FreeSpaceApart
<1>1. RegionsApart /\ (Healthy => ~astray) => FreeSpaceApart
  BY DEF RegionsApart, Regions, FreeSpaceApart, Healthy
<1> QED BY <1>1, RegionsHold, HealthyNotAstray, PTL

\* alloc and free implement the block store until a free is led to a chunk in no bin, which a
\* healthy heap never does: after lines 942-945 alone no unit is handed to two holders.
THEOREM ImplementsStore == Spec => KeepsTheStore
<1>1. Init => Store!Init
  BY DEF Init, Store!Init, Store!Addresses, Unit
<1>2. TypeOK /\ RegionsApart /\ [Next]_vars => [astray' \/ Store!Next]_owned
  BY RegionsStep
<1> QED BY <1>1, <1>2, TypeCorrect, RegionsHold, PTL DEF Spec, KeepsTheStore

\* free does not reach its error return at lines 1195-1199 before a free has been led to a
\* chunk in no bin: the successor of a block it looks at has its PINUSE bit set.
THEOREM ErrorReturnUnreachable == Spec => []NeverBroken
<1>1. ASSUME RegionsApart PROVE NeverBroken
  BY <1>1, SuccessorHeld DEF RegionsApart, NeverBroken
<1> QED BY <1>1, RegionsHold, PTL

\* Page 0 is never reserved on its own, so no free releases it, and the decommit of free is
\* of a page above the one top is in.  No tag, however wrong, can change that.
StructSound == 0 \in committed /\ 0 \notin reserved /\ PageSize =< footprint

LEMMA StructStep ==
  ASSUME TypeOK, StructSound, [Next]_vars
  PROVE  StructSound'
<1>0. /\ PageSize \in Nat \ {0} /\ segment_granularity \in Nat \ {0} /\ curr_page_index \in Nat
      /\ footprint \in Nat /\ reserved \subseteq Nat /\ csize \in [Unit -> Nat]
  BY SizesAssumption DEF TypeOK
<1>p. ASSUME UNCHANGED pages PROVE StructSound'
  BY <1>p DEF StructSound, pages
<1>c. ASSUME NEW kind, Crash(kind) PROVE StructSound'
  BY <1>c, <1>p DEF Crash
<1>1. ASSUME NEW r \in Requests, alloc(r) PROVE StructSound'
  <2>1. ASSUME AllocTop(r) PROVE StructSound'
    <3>1. Crash("fault") \/ (committed \subseteq committed' /\ UNCHANGED <<footprint, reserved>>)
      BY <2>1 DEF AllocTop
    <3> QED BY <3>1, <1>c DEF StructSound
  <2>2. ASSUME AllocGrow(r) PROVE StructSound'
    <3> DEFINE next == footprint \div PageSize
               grown == PagesFor(padRequest(r)) * PageSize
    <3>1. \/ Crash("fault")
          \/ committed \subseteq committed' /\ footprint' = footprint + grown /\ reserved' = reserved \cup {next}
      BY <2>2 DEF AllocGrow
    <3>2. next # 0
      BY <1>0 DEF StructSound
    <3>3. grown \in Nat
      <4>1. r \in Nat
        BY SizesAssumption
      <4> QED BY <4>1, <1>0, PadNat, PagesNat
    <3> HIDE DEF next, grown
    <3> QED BY <3>1, <3>2, <3>3, <1>0, <1>c DEF StructSound
  <2>3. CASE ~AllocTop(r) /\ ~AllocGrow(r)
    <3>1. UNCHANGED pages
      BY <1>1, <2>3 DEF alloc, AllocSmallFit, AllocWildBin, AllocSplit, AllocTree, Carve, AllocDvSplit, AllocDvExhaust,
         AllocDirect, Touching, Crash, Quiet
    <3> QED BY <3>1, <1>p
  <2> QED BY <2>1, <2>2, <2>3
<1>2. ASSUME NEW a \in live, free(a) PROVE StructSound'
  <2>2. CASE FreeDirect(a)
    <3> DEFINE page == a \div PageSize
    <3>1. /\ footprint' = footprint
          /\ \/ UNCHANGED <<reserved, committed>>
             \/ page \in reserved /\ reserved' = reserved \ {page} /\ committed' = committed \ {page}
      BY <2>2 DEF FreeDirect
    <3> HIDE DEF page
    <3> QED BY <3>1 DEF StructSound
  <2>3. CASE FreeIntoTop(a)
    <3> DEFINE newTop   == base(a)
               newSize  == top_size + bsize(a)
               factor   == newSize \div segment_granularity
               released == IF newSize > segment_granularity
                           THEN {k \in reserved : \E i \in 2 .. factor : k * PageSize = segment_granularity * (i - 1)}
                           ELSE {}
               below    == Decommits(newTop)
    <3>1. /\ committed' = (committed \ released) \ (IF below THEN {curr_page_index - 1} ELSE {})
          /\ reserved' = reserved \ released /\ footprint' = footprint /\ Consolidates(a)
      BY <2>3 DEF FreeIntoTop
    <3>2. 0 \notin released
      BY DEF StructSound
    <3>3. below => curr_page_index - 1 # 0
      <4>1. newTop \in Nat
        <5>1. Reads(a) /\ a \in Nat
          BY <3>1, ArenaNat DEF Consolidates, live, Unit
        <5> QED BY <5>1 DEF Reads, base
      <4> HIDE DEF newTop
      <4> QED BY <1>0, <4>1 DEF Decommits
    <3> HIDE DEF released, below
    <3> QED BY <3>1, <3>2, <3>3 DEF StructSound
  <2>4. CASE ~FreeDirect(a) /\ ~FreeIntoTop(a)
    <3>1. UNCHANGED pages
      BY <1>2, <2>4 DEF free, FreeIgnored, FreeUndefined, FreeFault, FreePrevDv, FreeNextDv, FreeNextFree, FreeNextInuse,
         FreeBroken, Crash
    <3> QED BY <3>1, <1>p
  <2> QED BY <2>2, <2>3, <2>4
<1>3. CASE UNCHANGED vars
  BY <1>3, <1>p DEF vars
<1> QED BY <1>1, <1>2, <1>3 DEF Next, Allocate, Release

\* The page of the MemorySpace struct, which every call reads and writes, is
\* committed as long as the space exists, astray or not.
THEOREM StructStaysBacked == Spec => []StructIsBacked
<1>1. Init => StructSound
  BY SizesAssumption DEF Init, StructSound
<1>2. TypeOK /\ StructSound /\ [Next]_vars => StructSound'
  BY StructStep
<1>3. StructSound => StructIsBacked
  BY DEF StructSound, StructIsBacked
<1> QED BY <1>1, <1>2, <1>3, TypeCorrect, PTL DEF Spec

-----------------------------------------------------------------------------
(* The pages behind the regions *)

\* No block is above segment_threshold, at most one unit more than was granted.
Pooling == \A a \in live : owned[a] < segment_threshold /\ (a \in cinuse => csize[a] =< owned[a] + 1)

\* Top is in the last committed page or below, and pages were reserved one by one behind the
\* initial segment.
Pages ==
    /\ committed = 0 .. curr_page_index - 1
    /\ curr_page_index > 0 /\ curr_page_index * PageSize =< footprint
    /\ InitialSize =< footprint /\ footprint % PageSize = 0
    /\ top = MspSize \/ top < curr_page_index * PageSize
    /\ \A k \in reserved : InitialSize =< k * PageSize /\ (k + 1) * PageSize =< footprint

Backing == Running /\ ~astray => Pooling /\ Pages

\* The page of a unit is one of the first k iff the unit lies in them.
LEMMA PageBelow ==
  ASSUME NEW u \in Nat, NEW k \in Int
  PROVE  (u \div PageSize < k) <=> (u < k * PageSize)
<1>0. PageSize \in Nat \ {0}
  BY SizesAssumption
<1> DEFINE q == u \div PageSize
<1>1. q \in Nat /\ q * PageSize =< u /\ u < q * PageSize + PageSize
  BY <1>0
<1> HIDE DEF q
<1>2. CASE q < k
  <2>1. q + 1 =< k
    BY <1>1, <1>2
  <2>2. (q + 1) * PageSize =< k * PageSize
    BY <1>0, <1>1, <2>1
  <2>3. (q + 1) * PageSize = q * PageSize + PageSize
    BY <1>0, <1>1
  <2>4. k * PageSize \in Int /\ q * PageSize \in Int
    BY <1>0, <1>1
  <2> QED BY <1>0, <1>1, <1>2, <2>2, <2>3, <2>4 DEF q
<1>3. CASE k =< q
  <2>1. k * PageSize =< q * PageSize
    BY <1>0, <1>1, <1>3
  <2>4. k * PageSize \in Int /\ q * PageSize \in Int
    BY <1>0, <1>1
  <2> QED BY <1>0, <1>1, <1>3, <2>1, <2>4 DEF q
<1> QED BY <1>1, <1>2, <1>3

\* Multiples of the page size are as far apart as their numbers.
LEMMA PageSteps ==
  ASSUME NEW j \in Int, NEW k \in Int
  PROVE  /\ j * PageSize \in Int /\ (k + 1) * PageSize = k * PageSize + PageSize
         /\ j =< k => j * PageSize =< k * PageSize
         /\ j < k => j * PageSize + PageSize =< k * PageSize
<1>0. PageSize \in Nat \ {0}
  BY SizesAssumption
<1>1. j * PageSize \in Int /\ k * PageSize \in Int
  BY <1>0
<1>2. \A m \in Int : (m + 1) * PageSize = m * PageSize + PageSize
  BY <1>0
<1>3. \A m, n \in Int : m =< n => m * PageSize =< n * PageSize
  BY <1>0
<1>4. j < k => j + 1 =< k
  OBVIOUS
<1> QED BY <1>1, <1>2, <1>3, <1>4

\* A multiple of the page size that lies below another ends where it begins, or before.
LEMMA WholePages ==
  ASSUME NEW n \in Nat, n % PageSize = 0
  PROVE  /\ n = (n \div PageSize) * PageSize /\ n \div PageSize \in Nat
         /\ \A k \in Int : k * PageSize < n => (k + 1) * PageSize =< n
         /\ (n + PageSize) % PageSize = 0
<1>0. PageSize \in Nat \ {0}
  BY SizesAssumption
<1> DEFINE q == n \div PageSize
<1>1. q \in Nat /\ n = q * PageSize
  BY <1>0
<1> HIDE DEF q
<1>2. ASSUME NEW k \in Int, k * PageSize < n PROVE (k + 1) * PageSize =< n
  <2> DEFINE kP == k * PageSize
             qP == q * PageSize
  <2>0. kP \in Int /\ qP \in Int /\ kP < qP /\ n = qP
    BY <1>1, <1>2, PageSteps
  <2>1. k < q
    <3> SUFFICES ASSUME q =< k PROVE FALSE
      BY <1>1
    <3>1. qP =< kP
      BY <1>1, PageSteps
    <3> HIDE DEF kP, qP
    <3> QED BY <2>0, <3>1
  <2>2. (k + 1) * PageSize = kP + PageSize
    BY PageSteps
  <2>3. kP + PageSize =< qP
    BY <1>1, <2>1, PageSteps
  <2> HIDE DEF kP, qP
  <2> QED BY <2>0, <2>2, <2>3
<1>3. (n + PageSize) % PageSize = 0
  <2> DEFINE m == n + PageSize
             d == m \div PageSize
             r == m % PageSize
  <2>1. m \in Nat /\ m = (q + 1) * PageSize
    BY <1>0, <1>1
  <2>2. d \in Nat /\ r \in Nat /\ r < PageSize /\ m = d * PageSize + r
    <3> HIDE DEF m
    <3>1. m = PageSize * d + r /\ r \in 0 .. PageSize - 1
      BY <1>0, <2>1
    <3>2. d \in Nat
      BY <1>0, <2>1
    <3> HIDE DEF d, r
    <3>3. PageSize * d = d * PageSize
      BY <1>0, <3>2
    <3> QED BY <1>0, <3>1, <3>2, <3>3
  <2> HIDE DEF m, d, r
  <2>3. ~(d < q + 1)
    <3> SUFFICES ASSUME d < q + 1 PROVE FALSE
      OBVIOUS
    <3>1. d * PageSize + PageSize =< (q + 1) * PageSize /\ d * PageSize \in Int
      BY <1>1, <2>2, PageSteps
    <3> QED BY <1>0, <2>1, <2>2, <3>1
  <2>4. (q + 1) * PageSize =< d * PageSize /\ d * PageSize \in Int
    BY <1>1, <2>2, <2>3, PageSteps
  <2>5. r = 0
    BY <2>1, <2>2, <2>4
  <2> QED BY <2>5 DEF r, m
<1> QED BY <1>1, <1>2, <1>3 DEF q

\* A block that was handed out is in one of the bins' sizes: what alloc grants fits its chunk.
LEMMA AllocPooling ==
  ASSUME WithinGranule, TypeOK, Pooling, NEW r \in Requests, alloc(r), halt' = "no"
  PROVE  Pooling'
<1> DEFINE nb == padRequest(r)
<1>0. nb \in Nat \ {0} /\ nb < segment_threshold /\ segment_threshold \in Nat
  <2>1. r \in Nat /\ segment_threshold \in Nat
    BY SizesAssumption
  <2>2. padRequest(r) \in Nat /\ padRequest(r) >= 2
    BY <2>1, PadNat
  <2> HIDE DEF nb
  <2>3. nb \in Nat /\ nb >= 2 /\ nb < segment_threshold
    BY <2>2 DEF nb, WithinGranule
  <2> QED BY <2>1, <2>3
<1>t. csize \in [Unit -> Nat] /\ owned \in [Unit -> Nat]
  BY DEF TypeOK
<1> HIDE DEF nb
<1> DEFINE Writes(p, size) ==
             /\ \A u \in Unit : csize'[u] = (IF u = p THEN size ELSE csize[u]) \/ u \notin cinuse'
             /\ \A u \in Unit : u # p => (u \in cinuse' => u \in cinuse)
<1>1. ASSUME NEW p, NEW size \in Int, size =< nb + 1, owned' = [owned EXCEPT ![p] = nb], Writes(p, size)
      PROVE  Pooling'
  <2> SUFFICES ASSUME NEW a \in Unit, owned'[a] > 0
               PROVE  owned'[a] < segment_threshold /\ (a \in cinuse' => csize'[a] =< owned'[a] + 1)
    BY DEF Pooling, live
  <2>1. CASE a = p
    BY <2>1, <1>0, <1>1, <1>t
  <2>2. CASE a # p
    <3>1. owned'[a] = owned[a] /\ a \in live
      BY <2>2, <1>1, <1>t DEF live
    <3> QED BY <2>2, <3>1, <1>1 DEF Pooling
  <2> QED BY <2>1, <2>2
<1>n. nb \in Int /\ nb =< nb + 1
  BY <1>0
<1>2. ASSUME NEW p, NEW size \in Int, size =< nb + 1, MarkInuse(p, size), Grant(p, nb) PROVE Pooling'
  <2>1. owned' = [owned EXCEPT ![p] = nb] /\ Writes(p, size)
    BY <1>2, <1>t DEF MarkInuse, Grant
  <2> QED BY <1>2, <2>1, <1>1
<1>3. ASSUME NEW p, NEW rest, SplitInuse(p, nb, rest), Grant(p, nb) PROVE Pooling'
  <2> DEFINE q == p + nb
  <2>0. /\ csize' = [csize EXCEPT ![p] = nb, ![q] = rest]
        /\ cinuse' = (cinuse \cup {p}) \ {q}
        /\ owned' = [owned EXCEPT ![p] = nb]
    BY <1>3 DEF SplitInuse, Grant
  <2> HIDE DEF q
  <2>1. Writes(p, nb)
    BY <2>0, <1>t
  <2> HIDE DEF Writes
  <2> QED BY <1>n, <2>0, <2>1, <1>1
<1>4. ASSUME NEW p, NEW size, Carve(p, nb, size) PROVE Pooling'
  <2>1. /\ csize' = [csize EXCEPT ![p] = size - nb]
        /\ cinuse' = cinuse \ {p}
        /\ owned' = [owned EXCEPT ![p] = nb]
    BY <1>4 DEF Carve, Touching, Crash, Grant
  <2>2. Writes(p, nb)
    BY <2>1, <1>t
  <2> HIDE DEF Writes
  <2> QED BY <1>n, <2>1, <2>2, <1>1
<1>5. ASSUME NEW p \in binned, AllocSmallFit(r, p) PROVE Pooling'
  <2> DEFINE size == IF nb \in small_map THEN nb ELSE nb + 1
  <2>1. MarkInuse(p, size) /\ Grant(p, nb)
    BY <1>5 DEF AllocSmallFit, Touching, Crash, nb
  <2>2. size \in Int /\ size =< nb + 1
    BY <1>0
  <2> HIDE DEF size
  <2> QED BY <2>1, <2>2, <1>2
<1>6. ASSUME NEW p \in binned, AllocTree(r, p) PROVE Pooling'
  <2>0. bin[p] \in Nat
    BY DEF binned, TypeOK
  <2>1. CASE nb =< bin[p] /\ bin[p] < nb + kMinChunkSize
    <3>1. MarkInuse(p, bin[p]) /\ Grant(p, nb)
      BY <1>6, <2>1 DEF AllocTree, Touching, Crash, nb
    <3>2. bin[p] =< nb + 1
      BY <1>0, <2>0, <2>1 DEF kMinChunkSize
    <3> QED BY <2>0, <3>1, <3>2, <1>2
  <2>2. CASE ~(nb =< bin[p] /\ bin[p] < nb + kMinChunkSize)
    <3>1. Carve(p, nb, bin[p])
      BY <1>6, <2>2 DEF AllocTree, nb
    <3> QED BY <3>1, <1>4
  <2> QED BY <2>1, <2>2
<1>7. ASSUME NEW p \in binned, AllocSplit(r, p) PROVE Pooling'
  BY <1>7, <1>4 DEF AllocSplit, nb
<1>8. ASSUME AllocDvSplit(r) PROVE Pooling'
  <2>1. SplitInuse(dv, nb, dv_size - nb) /\ Grant(dv, nb)
    BY <1>8 DEF AllocDvSplit, Touching, Crash, nb
  <2> QED BY <2>1, <1>3
<1>9. ASSUME AllocDvExhaust(r) PROVE Pooling'
  <2>1. MarkInuse(dv, nb) /\ Grant(dv, nb)
    BY <1>9 DEF AllocDvExhaust, Touching, Crash, nb
  <2> QED BY <2>1, <1>0, <1>2
<1>10. ASSUME AllocTop(r) \/ AllocGrow(r) PROVE Pooling'
  <2>1. PICK rest : SplitTop(nb, rest)
    BY <1>10 DEF AllocTop, AllocGrow, Crash, nb
  <2>2. SplitInuse(top, nb, rest) /\ Grant(top, nb)
    BY <2>1 DEF SplitTop
  <2> QED BY <2>2, <1>3
<1>11. ~AllocWildBin(r) /\ ~AllocDirect(r)
  BY DEF AllocWildBin, AllocDirect, Crash
<1> QED BY <1>5, <1>6, <1>7, <1>8, <1>9, <1>10, <1>11 DEF alloc

\* free hands a block back, and gives no block a larger size.
LEMMA FreePooling ==
  ASSUME TypeOK, Pooling, NEW a \in live, free(a), halt' = "no"
  PROVE  Pooling'
<1>t. csize \in [Unit -> Nat] /\ owned \in [Unit -> Nat]
  BY DEF TypeOK
<1>1. ASSUME owned' = [owned EXCEPT ![a] = 0],
             \A u \in Unit : csize'[u] = csize[u] \/ csize'[u] = 0 \/ u \notin cinuse',
             \A u \in Unit : u \in cinuse' => u \in cinuse
      PROVE  Pooling'
  <2> SUFFICES ASSUME NEW b \in Unit, owned'[b] > 0
               PROVE  owned'[b] < segment_threshold /\ (b \in cinuse' => csize'[b] =< owned'[b] + 1)
    BY DEF Pooling, live
  <2>1. owned'[b] = owned[b] /\ b \in live /\ owned[b] \in Nat
    BY <1>1, <1>t DEF live
  <2> QED BY <2>1, <1>1 DEF Pooling
<1>2. ASSUME NEW p, NEW size, NEW dead, Merge(p, size, dead), HandBack(a) PROVE Pooling'
  <2>1. owned' = [owned EXCEPT ![a] = 0]
    BY <1>2 DEF HandBack
  <2>2. \A u \in Unit : csize'[u] = csize[u] \/ csize'[u] = 0 \/ u \notin cinuse'
    BY <1>2, <1>t DEF Merge
  <2>3. \A u \in Unit : u \in cinuse' => u \in cinuse
    BY <1>2 DEF Merge
  <2> QED BY <2>1, <2>2, <2>3, <1>1
<1>3. ASSUME FreeIgnored(a) \/ FreeDirect(a) PROVE Pooling'
  <2>1. owned' = [owned EXCEPT ![a] = 0] /\ csize' = csize /\ cinuse' = cinuse
    BY <1>3 DEF FreeIgnored, FreeDirect, HandBack, heap
  <2> QED BY <2>1, <1>1
<1>4. ~FreeUndefined(a) /\ ~FreeFault(a)
  BY DEF FreeUndefined, FreeFault, Crash
<1>b. ASSUME FreeBroken(a) PROVE Pooling'
  <2>1. owned' = [owned EXCEPT ![a] = 0] /\ csize' = csize /\ cinuse' = cinuse
    BY <1>b DEF FreeBroken, HandBack, heap
  <2> QED BY <2>1, <1>1
<1>5. ASSUME FreePrevDv(a) \/ FreeNextDv(a) \/ FreeNextFree(a) \/ FreeNextInuse(a) PROVE Pooling'
  <2>1. HandBack(a)
    BY <1>5 DEF FreePrevDv, FreeNextDv, FreeNextFree, FreeNextInuse, Consolidates
  <2>2. PICK size, dead, cleared : FreeChunk(a, size, dead, cleared)
    BY <1>5 DEF FreePrevDv, FreeNextDv, FreeNextFree, FreeNextInuse
  <2>3. Merge(base(a), size, dead)
    BY <2>2 DEF FreeChunk
  <2> QED BY <2>1, <2>3, <1>2
<1>6. ASSUME FreeIntoTop(a) PROVE Pooling'
  <2>1. HandBack(a) /\ Merge(base(a), top_size + bsize(a), {a, top})
    BY <1>6 DEF FreeIntoTop, Consolidates
  <2> QED BY <2>1, <1>2
<1> QED BY <1>3, <1>4, <1>b, <1>5, <1>6 DEF free

\* Where the pages of the invariant lie.
LEMMA PagesFacts ==
  ASSUME TypeOK, Regions, Pages
  PROVE  /\ PageSize \in Nat \ {0} /\ curr_page_index \in Nat /\ footprint \in Nat /\ top \in Nat /\ top_size \in Nat
         /\ curr_page_index * PageSize \in Nat /\ top + top_size = footprint /\ top < footprint
         /\ committed = 0 .. curr_page_index - 1 /\ curr_page_index * PageSize =< footprint
         /\ \A u \in Nat : u \div PageSize \in Nat /\ (u \div PageSize \in committed <=> u < curr_page_index * PageSize)
<1>1. PageSize \in Nat \ {0} /\ curr_page_index \in Nat /\ footprint \in Nat /\ top \in Nat /\ top_size \in Nat
  BY SizesAssumption DEF TypeOK
<1>2. curr_page_index * PageSize \in Nat /\ top + top_size = footprint /\ top < footprint
  BY <1>1 DEF Regions, TopEnds
<1>3. committed = 0 .. curr_page_index - 1 /\ curr_page_index * PageSize =< footprint
  BY DEF Pages
<1>4. ASSUME NEW u \in Nat PROVE u \div PageSize \in Nat /\ (u \div PageSize \in committed <=> u < curr_page_index * PageSize)
  <2>1. u \div PageSize \in Nat
    BY DivNat
  <2>2. u \div PageSize < curr_page_index <=> u < curr_page_index * PageSize
    BY <1>1, PageBelow
  <2> QED BY <1>1, <1>3, <2>1, <2>2
<1> QED BY <1>1, <1>2, <1>3, <1>4

\* A split of top commits the next page when it needs it, and stops the process if it needs two.
LEMMA TopPages ==
  ASSUME WithinGranule, TypeOK, Regions, Pages, NEW r \in Requests, AllocTop(r), halt' = "no"
  PROVE  Pages'
<1> DEFINE nb      == padRequest(r)
           reach   == curr_page_index * PageSize
           past    == top + nb > curr_page_index * PageSize
           backing == IF past /\ Reserved(curr_page_index)
                      THEN committed \cup {curr_page_index} ELSE committed
<1>0. nb \in Nat
  <2>1. r \in Nat
    BY SizesAssumption
  <2> HIDE DEF nb
  <2> QED BY <2>1, PadNat DEF nb
<1>1. /\ (top + nb) \div PageSize \in backing
      /\ top' = top + nb /\ committed' = backing
      /\ curr_page_index' = IF past THEN curr_page_index + 1 ELSE curr_page_index
      /\ UNCHANGED <<footprint, reserved>> /\ top + nb < footprint
  <2>1. /\ \A a \in {top, top + nb} : a \div PageSize \in backing
        /\ top' = top + nb /\ committed' = backing
        /\ curr_page_index' = IF past THEN curr_page_index + 1 ELSE curr_page_index
        /\ UNCHANGED <<footprint, reserved>> /\ nb < top_size
    BY DEF AllocTop, Crash, SplitTop
  <2> HIDE DEF nb, backing, past
  <2> QED BY <1>0, <2>1, PagesFacts
<1> HIDE DEF nb
<1>p. /\ curr_page_index \in Nat /\ top \in Nat /\ footprint \in Nat /\ InitialSize \in Nat
      /\ committed = 0 .. curr_page_index - 1 /\ InitialSize =< footprint
  BY PagesFacts, SizesAssumption DEF Pages
<1>2. top + nb \in Nat /\ (top + nb) \div PageSize \in Nat
  <2>1. top + nb \in Nat
    BY <1>0, <1>p
  <2> QED BY <2>1, DivNat
<1>3. reach \in Nat /\ (curr_page_index + 1) * PageSize = reach + PageSize
  BY PagesFacts, PageSteps
<1>4. CASE ~past
  <2>1. (top + nb) \div PageSize \in committed /\ UNCHANGED <<committed, curr_page_index>>
    BY <1>1, <1>4
  <2>2. top' < reach
    BY <1>1, <1>2, <2>1, PagesFacts
  <2> QED BY <1>1, <2>1, <2>2 DEF Pages
<1>5. CASE past
  <2>1. Reserved(curr_page_index)
    <3> SUFFICES ASSUME ~Reserved(curr_page_index) PROVE FALSE
      OBVIOUS
    <3>1. (top + nb) \div PageSize \in committed
      BY <1>1
    <3>2. \A u \in Nat : u \div PageSize \in committed => u < reach
      BY PagesFacts
    <3>3. top + nb < reach
      BY <1>2, <3>1, <3>2
    <3>4. reach < top + nb
      BY <1>5
    <3> HIDE DEF reach
    <3> QED BY <1>2, <1>3, <3>3, <3>4
  <2>2. committed' = committed \cup {curr_page_index} /\ curr_page_index' = curr_page_index + 1
    BY <1>1, <1>5, <2>1
  <2>3. committed' = 0 .. curr_page_index' - 1
    BY <2>2, <1>p
  <2>4. curr_page_index' * PageSize =< footprint
    <3>1. CASE curr_page_index * PageSize < InitialSize
      <4>1. (curr_page_index + 1) * PageSize =< InitialSize
        <5>1. \A k \in Int : k * PageSize < InitialSize => (k + 1) * PageSize =< InitialSize
          BY <1>p, WholePages DEF WithinGranule
        <5> QED BY <1>p, <3>1, <5>1
      <4>2. (curr_page_index + 1) * PageSize \in Int
        BY <1>3, PagesFacts
      <4> QED BY <1>p, <2>2, <4>1, <4>2
    <3>2. CASE curr_page_index \in reserved
      BY <2>2, <3>2 DEF Pages
    <3> QED BY <2>1, <3>1, <3>2 DEF Reserved
  <2>5. top' < curr_page_index' * PageSize
    <3>1. (top + nb) \div PageSize < curr_page_index + 1
      <4>1. (top + nb) \div PageSize \in committed' /\ curr_page_index \in Nat
        BY <1>1, PagesFacts
      <4> QED BY <1>2, <2>2, <2>3, <4>1
    <3>2. curr_page_index + 1 \in Int
      BY PagesFacts
    <3>3. top + nb < (curr_page_index + 1) * PageSize
      BY <1>2, <3>1, <3>2, PageBelow
    <3> QED BY <1>1, <2>2, <3>3
  <2>6. curr_page_index' > 0
    BY <1>p, <2>2
  <2> QED BY <1>1, <2>3, <2>4, <2>5, <2>6 DEF Pages
<1> QED BY <1>4, <1>5

\* A space grows by one page, the one behind those that are committed: more stops the process,
\* and so does a page that is left uncommitted in between.
LEMMA GrowPages ==
  ASSUME TypeOK, Regions, Pages, NEW r \in Requests, AllocGrow(r), halt' = "no"
  PROVE  Pages'
<1> DEFINE nb      == padRequest(r)
           next    == footprint \div PageSize
           backing == IF PagesFor(nb) = 1 THEN committed \cup {next} ELSE committed
<1>0. nb \in Nat
  <2>1. r \in Nat
    BY SizesAssumption
  <2> HIDE DEF nb
  <2> QED BY <2>1, PadNat DEF nb
<1>1. /\ \A a \in {top, top + nb} : a \div PageSize \in backing
      /\ top' = top + nb /\ committed' = backing /\ nb >= top_size
      /\ footprint' = footprint + PagesFor(nb) * PageSize
      /\ curr_page_index' = curr_page_index + 1 /\ reserved' = reserved \cup {next}
  BY DEF AllocGrow, Crash, SplitTop, NeedsSystem
<1>2. nb =< PagesFor(nb) * PageSize
  BY <1>0, PagesNat
<1> HIDE DEF nb, backing
<1>p. /\ PageSize \in Nat \ {0} /\ curr_page_index \in Nat /\ top \in Nat /\ footprint \in Nat /\ InitialSize \in Nat
      /\ committed = 0 .. curr_page_index - 1 /\ InitialSize =< footprint
      /\ curr_page_index * PageSize \in Nat /\ curr_page_index * PageSize =< footprint
      /\ top_size \in Nat /\ top + top_size = footprint /\ top < footprint
  BY PagesFacts, SizesAssumption DEF Pages
<1>3. footprint = next * PageSize /\ next \in Nat /\ (footprint + PageSize) % PageSize = 0
  BY <1>p, WholePages DEF Pages
<1>4. top + nb \in Nat /\ footprint =< top + nb
  BY <1>0, <1>1, <1>p
<1>5. PagesFor(nb) = 1
  <2> SUFFICES ASSUME PagesFor(nb) # 1 PROVE FALSE
    OBVIOUS
  <2>1. (top + nb) \div PageSize \in committed
    BY <1>1 DEF backing
  <2>2. top + nb < curr_page_index * PageSize
    BY <1>4, <2>1, PagesFacts
  <2> QED BY <1>p, <1>4, <2>2
<1>6. footprint' = footprint + PageSize /\ nb =< PageSize /\ committed' = committed \cup {next}
  BY <1>1, <1>2, <1>5, <1>p DEF backing
<1> HIDE DEF next
<1>7. next = curr_page_index
  <2>1. next =< curr_page_index
    <3> SUFFICES ASSUME curr_page_index < next PROVE FALSE
      BY <1>p, <1>3
    <3>1. curr_page_index * PageSize + PageSize =< next * PageSize
      BY <1>p, <1>3, PageSteps
    <3>2. curr_page_index * PageSize =< top
      BY <1>0, <1>1, <1>p, <1>3, <1>6, <3>1
    <3>3. top \div PageSize # next
      <4>1. top < next * PageSize
        BY <1>p, <1>3
      <4>2. top \div PageSize < next
        BY <1>p, <1>3, <4>1, PageBelow
      <4> QED BY <1>p, <4>2
    <3>4. top \div PageSize \in committed
      BY <1>1, <1>6, <3>3
    <3> QED BY <1>p, <3>2, <3>4, PagesFacts
  <2>2. curr_page_index =< next
    <3> SUFFICES ASSUME next < curr_page_index PROVE FALSE
      BY <1>p, <1>3
    <3>1. next * PageSize + PageSize =< curr_page_index * PageSize
      BY <1>p, <1>3, PageSteps
    <3> QED BY <1>p, <1>3, <3>1
  <2> QED BY <1>p, <1>3, <2>1, <2>2
<1>8. committed' = 0 .. curr_page_index' - 1 /\ curr_page_index' > 0
  BY <1>1, <1>6, <1>7, <1>p
<1>9. curr_page_index' * PageSize = footprint'
  BY <1>1, <1>3, <1>6, <1>7, <1>p, PageSteps
<1>10. InitialSize =< footprint' /\ footprint' % PageSize = 0
  BY <1>3, <1>6, <1>p
<1>11. top' < curr_page_index' * PageSize
  <2>1. top' = top + nb /\ nb =< PageSize
    BY <1>1, <1>6
  <2> QED BY <1>0, <1>6, <1>9, <1>p, <2>1
<1>12. \A k \in reserved' : InitialSize =< k * PageSize /\ (k + 1) * PageSize =< footprint'
  <2> SUFFICES ASSUME NEW k \in reserved' PROVE InitialSize =< k * PageSize /\ (k + 1) * PageSize =< footprint'
    OBVIOUS
  <2>1. CASE k = next
    BY <1>1, <1>3, <1>6, <1>7, <1>9, <1>p, <2>1
  <2>2. CASE k \in reserved
    <3>1. InitialSize =< k * PageSize /\ (k + 1) * PageSize =< footprint /\ k \in Int
      BY <2>2 DEF Pages, TypeOK
    <3>2. (k + 1) * PageSize \in Int
      BY <1>p, <3>1
    <3> QED BY <1>6, <1>p, <3>1, <3>2
  <2> QED BY <1>1, <2>1, <2>2
<1> QED BY <1>8, <1>9, <1>10, <1>11, <1>12, <1>6, <1>p DEF Pages

\* When a block goes into top nothing is released, for the granules of top end below the pages
\* that were reserved one by one, and the last page is decommitted only when top is below it.
LEMMA IntoTopPages ==
  ASSUME WithinGranule, TypeOK, Regions, Pages, NEW a \in live, FreeIntoTop(a), ~astray'
  PROVE  Pages'
<1> DEFINE newTop   == base(a)
           newSize  == top_size + bsize(a)
           lastPage == curr_page_index - 1
           factor   == newSize \div segment_granularity
           released == IF newSize > segment_granularity
                       THEN {k \in reserved : \E i \in 2 .. factor : k * PageSize = segment_granularity * (i - 1)}
                       ELSE {}
           below    == Decommits(newTop)
<1>1. /\ top' = newTop /\ nextChunk(a) = top /\ Consolidates(a)
      /\ curr_page_index' = IF below THEN lastPage ELSE curr_page_index
      /\ committed' = (committed \ released) \ (IF below THEN {lastPage} ELSE {})
      /\ reserved' = reserved \ released
      /\ footprint' = footprint
  BY DEF FreeIntoTop
<1>p. /\ PageSize \in Nat \ {0} /\ curr_page_index \in Nat /\ top \in Nat /\ footprint \in Nat /\ InitialSize \in Nat
      /\ committed = 0 .. curr_page_index - 1 /\ InitialSize =< footprint
      /\ curr_page_index * PageSize \in Nat /\ curr_page_index * PageSize =< footprint
      /\ top_size \in Nat /\ top + top_size = footprint /\ footprint =< Arena /\ Arena \in Nat
      /\ segment_granularity \in Nat \ {0} /\ MspSize \in Nat \ {0}
      /\ reserved \subseteq Nat
  BY PagesFacts, ArenaNat, SizesAssumption DEF Pages, Regions, TopEnds, TypeOK
<1>2. newTop \in Nat /\ MspSize =< newTop /\ newTop < top /\ bsize(a) \in Int /\ newTop + bsize(a) = top
  <2>1. Pooled(a) /\ Sound(a)
    BY <1>1, ~astray' DEF Consolidates
  <2>2. newTop \in Places /\ newTop + bsize(a) = nextChunk(a) /\ bsize(a) \in Int
    BY <2>1, FreedRegion
  <2> HIDE DEF newTop
  <2>3. newTop \in Nat /\ MspSize =< newTop /\ newTop < top
    BY <2>2, PlaceFacts
  <2> QED BY <1>1, <2>2, <2>3
<1>3. newSize \in Nat /\ newSize < InitialSize + segment_granularity
  <2> HIDE DEF newTop
  <2> QED BY <1>p, <1>2 DEF WithinGranule
<1>4. released = {}
  <2> SUFFICES ASSUME NEW k \in reserved, NEW i \in 2 .. factor, k * PageSize = segment_granularity * (i - 1)
               PROVE  FALSE
    OBVIOUS
  <2> HIDE DEF newSize
  <2>1. factor \in Nat /\ segment_granularity * factor =< newSize
    BY <1>p, <1>3
  <2> HIDE DEF factor
  <2>2. i \in Nat /\ i =< factor /\ 2 =< i
    BY <2>1
  <2>3. segment_granularity * i =< segment_granularity * factor
    BY <1>p, <2>1, <2>2
  <2>4. segment_granularity * (i - 1) = segment_granularity * i - segment_granularity
    BY <1>p, <2>2
  <2>5. segment_granularity * i \in Nat /\ segment_granularity * factor \in Nat
    BY <1>p, <2>1, <2>2
  <2>6. k * PageSize < InitialSize
    BY <1>p, <1>3, <2>1, <2>3, <2>4, <2>5
  <2>7. InitialSize =< k * PageSize /\ k * PageSize \in Int
    BY <1>p DEF Pages
  <2> QED BY <1>p, <2>6, <2>7
<1>5. top < curr_page_index * PageSize
  BY <1>2, <1>p DEF Pages
<1> HIDE DEF newTop, released
<1>6. CASE below
  <2>1. newTop < lastPage * PageSize /\ lastPage \in Int
    BY <1>6, <1>p DEF Decommits
  <2>2. lastPage > 0
    <3> SUFFICES ASSUME lastPage =< 0 PROVE FALSE
      BY <2>1
    <3>1. lastPage * PageSize =< 0 * PageSize /\ lastPage * PageSize \in Int
      BY <2>1, PageSteps
    <3> QED BY <1>2, <1>p, <2>1, <3>1
  <2>3. curr_page_index' = lastPage /\ committed' = committed \ {lastPage} /\ reserved' = reserved
    BY <1>1, <1>4, <1>6
  <2>4. committed' = 0 .. curr_page_index' - 1
    BY <1>p, <2>3
  <2>5. curr_page_index' * PageSize =< footprint'
    <3>1. lastPage * PageSize =< curr_page_index * PageSize /\ lastPage * PageSize \in Int
      BY <1>p, <2>1, PageSteps
    <3> QED BY <1>1, <1>p, <2>3, <3>1
  <2> QED BY <1>1, <2>1, <2>2, <2>3, <2>4, <2>5 DEF Pages
<1>7. CASE ~below
  <2>1. UNCHANGED <<curr_page_index, committed, reserved>>
    BY <1>1, <1>4, <1>7
  <2>2. top' < curr_page_index * PageSize
    BY <1>1, <1>2, <1>5, <1>p
  <2> QED BY <1>1, <2>1, <2>2 DEF Pages
<1> QED BY <1>6, <1>7

\* Every step of a space within its granule.
LEMMA BackingStep ==
  ASSUME WithinGranule, TypeOK, RegionsApart, Backing, [Next]_vars
  PROVE  Backing'
<1> SUFFICES ASSUME Running', ~astray' PROVE Pooling' /\ Pages'
  BY DEF Backing
<1>a. ~astray
  BY AstrayStays
<1>h. halt' = "no"
  BY DEF Running
<1>1. ASSUME NEW r \in Requests, alloc(r) PROVE Pooling' /\ Pages'
  <2>1. Running /\ Regions /\ Pooling /\ Pages
    BY <1>1, <1>a, StepsRun DEF RegionsApart, Backing, Next, Allocate
  <2>2. Pooling'
    BY <1>1, <1>h, <2>1, AllocPooling
  <2>3. CASE AllocTop(r)
    BY <1>h, <2>1, <2>2, <2>3, TopPages
  <2>4. CASE AllocGrow(r)
    BY <1>h, <2>1, <2>2, <2>4, GrowPages
  <2>5. CASE ~AllocTop(r) /\ ~AllocGrow(r)
    <3>1. UNCHANGED <<pages, top>>
      BY <1>1, <1>h, <2>5 DEF alloc, AllocSmallFit, AllocWildBin, AllocSplit, AllocTree, Carve, AllocDvSplit,
         AllocDvExhaust, AllocDirect, Touching, Crash, Quiet
    <3> QED BY <2>1, <2>2, <3>1 DEF Pages, pages
  <2> QED BY <2>3, <2>4, <2>5
<1>2. ASSUME NEW a \in live, free(a) PROVE Pooling' /\ Pages'
  <2>1. Running /\ Regions /\ Pooling /\ Pages
    BY <1>2, <1>a, StepsRun DEF RegionsApart, Backing, Next, Release
  <2>2. Pooling'
    BY <1>2, <1>h, <2>1, FreePooling
  <2>3. ~FreeDirect(a)
    <3> SUFFICES ASSUME isInuse(a), csize[a] > segment_threshold PROVE FALSE
      BY DEF FreeDirect
    <3>1. a \in cinuse
      BY <2>1 DEF isInuse, Regions, Enough
    <3>2. owned[a] \in Nat /\ csize[a] \in Nat /\ segment_threshold \in Nat
      BY SizesAssumption DEF live, TypeOK
    <3> QED BY <2>1, <3>1, <3>2 DEF Pooling
  <2>4. CASE FreeIntoTop(a)
    BY <2>1, <2>2, <2>4, IntoTopPages
  <2>5. CASE ~FreeIntoTop(a)
    <3>1. UNCHANGED <<pages, top>>
      BY <1>2, <1>h, <2>3, <2>5 DEF free, FreeIgnored, FreeUndefined, FreeFault, FreePrevDv, FreeNextDv, FreeNextFree,
         FreeNextInuse, FreeBroken, Crash, space
    <3> QED BY <2>1, <2>2, <3>1 DEF Pages, pages
  <2> QED BY <2>4, <2>5
<1>3. CASE UNCHANGED vars
  <2>1. UNCHANGED <<csize, cinuse, owned, top, footprint, curr_page_index, reserved, committed, halt>>
    BY <1>3 DEF vars, heap, space, pages, ghosts
  <2>2. live' = live /\ Pooling /\ Pages
    BY <1>a, <1>h, <2>1 DEF live, Backing, Running
  <2> QED BY <2>1, <2>2 DEF Pooling, Pages
<1> QED BY <1>1, <1>2, <1>3 DEF Next, Allocate, Release

\* The inductive invariant behind both theorems.
LEMMA BackingHolds == WithinGranule => (Spec => []Backing)
<1> SUFFICES ASSUME WithinGranule PROVE Spec => []Backing
  OBVIOUS
<1>1. ASSUME Init PROVE Backing
  <2>1. InitialSize \in Nat /\ PageSize \in Nat \ {0} /\ InitialSize % PageSize = 0 /\ MspSize < InitialSize /\ MspSize \in Nat
    BY SizesAssumption DEF WithinGranule
  <2>2. live = {} /\ top = MspSize /\ footprint = InitialSize /\ curr_page_index = 1 /\ reserved = {} /\ committed = {0}
    BY <1>1 DEF Init, live
  <2>3. 1 * PageSize =< InitialSize
    <3>1. 0 * PageSize < InitialSize
      BY <2>1
    <3> QED BY <2>1, <3>1, WholePages
  <2>4. committed = 0 .. curr_page_index - 1
    BY <2>2
  <2> QED BY <2>1, <2>2, <2>3, <2>4 DEF Backing, Pooling, Pages
<1>2. TypeOK /\ RegionsApart /\ Backing /\ [Next]_vars => Backing'
  BY BackingStep
<1> QED BY <1>1, <1>2, TypeCorrect, RegionsHold, PTL DEF Spec

\* In a space within its granule curr_page_index counts the committed pages, and they are the
\* first ones, until a free goes astray: what alloc commits, free decommits in order.
THEOREM PagesAreAPrefix == WithinGranule => (Spec => []CommittedPrefix)
<1> SUFFICES ASSUME WithinGranule PROVE Spec => []CommittedPrefix
  OBVIOUS
<1>1. Backing => CommittedPrefix
  BY DEF Backing, Pages, CommittedPrefix
<1>2. Spec => []Backing
  BY BackingHolds
<1> QED BY <1>1, <1>2, PTL

\* In a space within its granule every unit of a block the client holds is in a committed
\* page until a free goes astray: a wrong head alone does not take a page from a block.
THEOREM LiveStaysBacked == WithinGranule => (Spec => []LiveIsBacked)
<1> SUFFICES ASSUME WithinGranule PROVE Spec => []LiveIsBacked
  OBVIOUS
<1>1. ASSUME TypeOK, RegionsApart, Backing PROVE LiveIsBacked
  <2> SUFFICES ASSUME Running, ~astray, NEW a \in live, NEW u \in a .. a + owned[a] - 1
               PROVE  u \div PageSize \in committed
    BY DEF LiveIsBacked
  <2>1. Regions /\ Pages
    BY <1>1 DEF RegionsApart, Backing
  <2>2. a \in Places /\ owned[a] =< Span(a)
    BY <2>1 DEF Places, Regions, Enough
  <2>3. a \in Nat /\ Span(a) \in Nat /\ a + Span(a) =< top /\ MspSize =< a /\ a < top /\ MspSize \in Nat /\ top \in Nat
    BY <1>1, <2>1, <2>2, PlaceFacts
  <2>4. owned[a] \in Nat
    BY <1>1 DEF live, TypeOK
  <2>5. u \in Nat /\ u < top
    BY <2>2, <2>3, <2>4
  <2>6. top < curr_page_index * PageSize /\ curr_page_index * PageSize \in Nat
    BY <1>1, <2>1, <2>3, PagesFacts DEF Pages
  <2>7. u < curr_page_index * PageSize
    BY <2>3, <2>5, <2>6
  <2> QED BY <1>1, <2>1, <2>5, <2>7, PagesFacts
<1>2. Spec => []Backing
  BY BackingHolds
<1> QED BY <1>1, <1>2, TypeCorrect, RegionsHold, PTL
=============================================================================
