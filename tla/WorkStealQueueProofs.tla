------------------------ MODULE WorkStealQueueProofs ------------------------
(***************************************************************************)
(* What the work stealing queue keeps, for every size of its array, every  *)
(* set of thieves and every number of pushes: no task is returned twice,   *)
(* none is lost, and the queue implements the deque of TaskDeque.          *)
(***************************************************************************)
EXTENDS WorkStealQueue, SequenceTheorems, TLAPS

(***************************************************************************)
(* The inductive invariant.  The stores of a push leave the buffer as a    *)
(* pair, the slot and then mBottom one beyond it, so that what waits in    *)
(* the buffer is a run of slots from mBottom on; only the claim of a pop   *)
(* goes back, and it is the last store.                                    *)
(***************************************************************************)
ToSlot(s) == s.slot # toBottom

\* The stores of the buffer follow one another.
Paired ==
    /\ \A i \in 1 .. Len(buffer) : ToSlot(buffer[i]) =>
          i < Len(buffer) /\ buffer[i + 1] = Store(toBottom, buffer[i].slot + 1)
    /\ \A i \in 1 .. Len(buffer) - 1 : ~ToSlot(buffer[i]) =>
          \/ ToSlot(buffer[i + 1]) /\ buffer[i + 1].slot = buffer[i].value
          \/ ~ToSlot(buffer[i + 1]) /\ i + 1 = Len(buffer) /\ pc = "pop"

\* The first of them follows what is in memory.
Heads ==
    buffer # <<>> =>
      \/ ToSlot(buffer[1]) /\ buffer[1].slot = mBottom
      \/ buffer[1] = Store(toBottom, mBottom + 1) /\ (pc = "pop" => Len(buffer) > 1)
      \/ Len(buffer) = 1 /\ pc = "pop" /\ ~ToSlot(buffer[1])

\* What the owner knows: its next slot, and the slot it claims.
Claims ==
    /\ pc = "push" => b = ownBottom /\ b < pushes
    /\ pc = "pop" /\ buffer # <<>> =>
         /\ buffer[Len(buffer)] = Store(toBottom, b)
         /\ IF Len(buffer) = 1 THEN mBottom = b + 1
                               ELSE buffer[Len(buffer) - 1] = Store(toBottom, b + 1)
    /\ claiming => mBottom = b /\ b < WORK_QUEUE_SIZE /\ b < pushes
    /\ pc = "popcas" => buffer = <<>> /\ t = b /\ x = mArray[b] /\ t =< mTop

\* The indexes stay in the array and below the number of pushes.
InArray ==
    /\ mBottom =< WORK_QUEUE_SIZE /\ mBottom =< pushes
    /\ \A i \in 1 .. Len(buffer) : ~ToSlot(buffer[i]) =>
          buffer[i].value =< WORK_QUEUE_SIZE /\ buffer[i].value =< pushes
    /\ \A i \in 1 .. Len(buffer) : ToSlot(buffer[i]) => buffer[i].slot \in Slots

\* The slots that hold a task end here: one beyond back while mBottom waits.
written == IF claiming THEN b + 1
           ELSE IF buffer # <<>> /\ buffer[1] = Store(toBottom, mBottom + 1)
                THEN mBottom + 1
                ELSE mBottom

held == mTop .. written - 1
pending == {i \in 1 .. Len(buffer) : ToSlot(buffer[i])}

\* A task that push has stored and nobody was given.
Waiting(k) == k \in 1 .. pushes /\ taken[k] = 0 /\ (pc = "push" => k < pushes)

\* Every task is in one place.
OnePlace ==
    /\ mTop =< written
    /\ \A s \in held : Waiting(mArray[s])
    /\ \A i \in pending : Waiting(buffer[i].value)
    /\ \A r, s \in held : mArray[r] = mArray[s] => r = s
    /\ \A i, j \in pending : buffer[i].value = buffer[j].value => i = j
    /\ \A s \in held, i \in pending : mArray[s] # buffer[i].value
    /\ \A k \in Task : taken[k] =< 1 /\ (taken[k] > 0 => k =< pushes)
    /\ pc = "push" => taken[pushes] = 0

\* A thief whose compare-exchange would succeed has read the task at the front.
ThiefSees(i) ==
    /\ tt[i] =< mTop
    /\ tpc[i] = "slot" => tt[i] \in Slots
    /\ tpc[i] \in {"slot", "cas"} /\ tt[i] = mTop => mTop < back
    /\ tpc[i] = "cas" /\ tt[i] = mTop => tx[i] = mArray[mTop]

\* A task that push has accepted is taken, held, pending, or about to be stored.
Somewhere(k) ==
    \/ taken[k] = 1
    \/ \E s \in held : mArray[s] = k
    \/ \E i \in pending : buffer[i].value = k
    \/ pc = "push" /\ k = pushes
Kept == \A k \in 1 .. pushes : k \notin refused => Somewhere(k)

Inv == /\ TypeOK /\ Paired /\ Heads /\ Claims /\ InArray /\ OnePlace
       /\ (\A i \in Thieves : ThiefSees(i))
-----------------------------------------------------------------------------
(* Facts about stores and buffers *)

StoreSet == [slot : Slots \cup {toBottom}, value : 0 .. MaxPushes + 1]

\* The fields of a store.
LEMMA StoreFields ==
  /\ \A i, v : Store(i, v).slot = i /\ Store(i, v).value = v
  /\ \A i \in Slots : i \in Nat /\ i # toBottom /\ i < WORK_QUEUE_SIZE
  /\ \A v : ~ToSlot(Store(toBottom, v))
  /\ \A i \in Slots : \A v : ToSlot(Store(i, v))
  /\ \A s, r \in StoreSet : s.slot = r.slot /\ s.value = r.value => s = r
  /\ \A s \in StoreSet : s.slot \in Slots \cup {toBottom} /\ s.value \in Nat
  /\ \A s \in StoreSet : (ToSlot(s) => s.slot \in Slots) /\ (~ToSlot(s) => s = Store(toBottom, s.value))
BY QueueAssumption DEF Store, ToSlot, StoreSet, Slots, toBottom

\* What the owner reads from mBottom is its last store, if one waits.
LEMMA OwnBottom ==
  ASSUME TypeOK, Paired
  PROVE  /\ Len(buffer) \in Nat /\ (buffer = <<>> <=> Len(buffer) = 0)
         /\ \A i \in 1 .. Len(buffer) : buffer[i] \in StoreSet
         /\ buffer = <<>> => ownBottom = mBottom
         /\ buffer # <<>> => /\ ~ToSlot(buffer[Len(buffer)])
                             /\ ownBottom = buffer[Len(buffer)].value
<1>1. buffer \in Seq(StoreSet)
  BY DEF TypeOK, StoreSet
<1>2. Len(buffer) \in Nat /\ (buffer = <<>> <=> Len(buffer) = 0)
  BY <1>1
<1>3. \A i \in 1 .. Len(buffer) : buffer[i] \in StoreSet
  BY <1>1
<1>4. ASSUME buffer # <<>> PROVE ~ToSlot(buffer[Len(buffer)])
  BY <1>2, <1>4 DEF Paired
<1>5. CASE buffer = <<>>
  BY <1>2, <1>3, <1>5 DEF ownBottom
<1>6. CASE buffer # <<>>
  <2> DEFINE mine == {i \in 1 .. Len(buffer) : buffer[i].slot = toBottom}
  <2>1. Len(buffer) \in mine /\ mine # {}
    BY <1>2, <1>4, <1>6 DEF ToSlot
  <2>2. \A i \in mine : (\A j \in mine : j =< i) <=> i = Len(buffer)
    BY <1>2, <2>1
  <2> HIDE DEF mine
  <2>3. (CHOOSE i \in mine : \A j \in mine : j =< i) = Len(buffer)
    BY <2>1, <2>2
  <2>4. ownBottom = buffer[CHOOSE i \in mine : \A j \in mine : j =< i].value
    BY <2>1 DEF ownBottom, mine
  <2> QED BY <1>2, <1>3, <1>4, <1>6, <2>3, <2>4
<1> QED BY <1>2, <1>3, <1>5, <1>6
-----------------------------------------------------------------------------
(* The owner's steps *)

\* A push that begins takes the next task, and reads its own mBottom, waiting store and all.
LEMMA PushReadKeeps == ASSUME Inv, PushRead PROVE Inv'
<1> USE DEF Inv, PushRead, memory, thief
<1>0. /\ Len(buffer) \in Nat /\ (buffer = <<>> <=> Len(buffer) = 0)
      /\ \A i \in 1 .. Len(buffer) : buffer[i] \in StoreSet
      /\ ownBottom \in Nat /\ ownBottom =< pushes
  BY OwnBottom, StoreFields DEF TypeOK, InArray
<1>1. ownBottom' = ownBottom /\ pc' \in {"idle", "push"} /\ ~claiming /\ ~claiming'
  BY DEF ownBottom, claiming
<1>2. written' = written /\ back' = back /\ held' = held /\ pending' = pending
  BY <1>1 DEF written, back, held, pending
<1>3. TypeOK'
  <2>1. pushes + 1 \in Task /\ ownBottom \in 0 .. MaxPushes + 1
    BY <1>0, QueueAssumption DEF TypeOK, Task
  <2>2. refused' \subseteq Task /\ pushes' \in 0 .. MaxPushes
    BY <2>1, QueueAssumption DEF TypeOK
  <2>3. t' \in 0 .. MaxPushes + 1
    BY DEF TypeOK
  <2> QED BY <1>1, <2>1, <2>2, <2>3 DEF TypeOK
<1>4. Paired'
  BY DEF Paired
<1>5. Heads'
  BY DEF Heads
<1>6. Claims'
  BY <1>0, <1>1 DEF Claims, TypeOK
<1>7. InArray'
  BY <1>0, StoreFields DEF InArray, TypeOK
<1>8. OnePlace'
  <2>1. \A k : Waiting(k) => Waiting(k)'
    BY DEF Waiting, TypeOK
  <2>2. taken'[pushes'] = 0
    <3>1. pushes' = pushes + 1 /\ taken' = taken /\ pushes + 1 \in Task
      BY QueueAssumption DEF TypeOK, Task
    <3>2. taken[pushes + 1] \in Nat /\ (taken[pushes + 1] > 0 => pushes + 1 =< pushes)
      BY <3>1 DEF OnePlace, TypeOK
    <3> QED BY <3>1, <3>2 DEF TypeOK
  <2> QED BY <1>2, <2>1, <2>2 DEF OnePlace, TypeOK, Task
<1>9. \A i \in Thieves : ThiefSees(i)'
  BY <1>2 DEF ThiefSees
<1> QED BY <1>3, <1>4, <1>5, <1>6, <1>7, <1>8, <1>9

\* An undefined access leaves everything else alone.
LEMMA WildKeeps == ASSUME Inv, GoWild PROVE Inv'
<1> USE DEF Inv, GoWild, owner, memory, thief, ghosts
<1>1. ownBottom' = ownBottom /\ claiming' = claiming
  BY DEF ownBottom, claiming
<1>2. written' = written /\ back' = back /\ held' = held /\ pending' = pending
  BY <1>1 DEF written, back, held, pending
<1>3. TypeOK' /\ Paired' /\ Heads'
  BY DEF TypeOK, Paired, Heads
<1>4. Claims' /\ InArray'
  BY <1>1 DEF Claims, InArray
<1>5. OnePlace' /\ \A i \in Thieves : ThiefSees(i)'
  BY <1>2 DEF OnePlace, Waiting, ThiefSees
<1> QED BY <1>3, <1>4, <1>5

\* A claim waits in the buffer, behind the stores of the pushes.
LEMMA PopClaimKeeps == ASSUME Inv, PopClaim PROVE Inv'
<1> USE DEF Inv
<1>1. CASE ownBottom =< 0
  <2>1. ~(ownBottom > 0)
    BY <1>1, OwnBottom, StoreFields DEF TypeOK, InArray
  <2> QED BY <2>1, WildKeeps DEF PopClaim
<1>2. CASE ownBottom > 0
  <2> DEFINE n == Len(buffer)
             c == ownBottom - 1
  <2>0. /\ n \in Nat /\ (buffer = <<>> <=> n = 0)
        /\ \A i \in 1 .. n : buffer[i] \in StoreSet
        /\ ownBottom \in Nat /\ c \in Nat /\ ownBottom =< pushes /\ ownBottom =< WORK_QUEUE_SIZE
        /\ c \in 0 .. MaxPushes + 1
    <3>1. /\ n \in Nat /\ (buffer = <<>> <=> n = 0)
          /\ \A i \in 1 .. n : buffer[i] \in StoreSet
          /\ ownBottom \in Nat
      BY OwnBottom, StoreFields DEF TypeOK
    <3>2. ownBottom =< pushes /\ ownBottom =< WORK_QUEUE_SIZE
      BY <3>1, OwnBottom DEF InArray
    <3>3. pushes \in 0 .. MaxPushes
      BY DEF TypeOK
    <3> QED BY <1>2, <3>1, <3>2, <3>3, QueueAssumption
  <2>1. /\ b' = c /\ pc = "idle" /\ pc' = "pop" /\ ~wild
        /\ UNCHANGED <<mTop, mBottom, mArray, t, x, tpc, tt, tx, pushes, refused, taken, wild>>
    BY <1>2 DEF PopClaim, memory, thief, ghosts
  <2>2. /\ Len(buffer') = n + 1 /\ buffer' # <<>>
        /\ \A i \in 1 .. n : buffer'[i] = buffer[i]
        /\ buffer'[n + 1] = Store(toBottom, c)
        /\ buffer' \in Seq(StoreSet)
    <3>1. buffer' = Append(buffer, Store(toBottom, c)) /\ buffer \in Seq(StoreSet)
      BY <1>2, <2>1 DEF PopClaim, TypeOK, StoreSet
    <3>2. Store(toBottom, c) \in StoreSet
      BY <2>0 DEF StoreSet, Store
    <3> QED BY <3>1, <3>2, AppendProperties
  <2>3. IF n = 0 THEN ownBottom = mBottom ELSE buffer[n] = Store(toBottom, c + 1)
    BY OwnBottom, StoreFields, <2>0
  <2> HIDE DEF n, c
  <2>4. ~claiming /\ ~claiming'
    BY <2>1, <2>2 DEF claiming
  <2>5. written' = written
    <3>1. n # 0 => buffer'[1] = buffer[1]
      BY <2>0, <2>2
    <3>2. n = 0 => buffer'[1] # Store(toBottom, mBottom + 1)
      BY <2>0, <2>2, <2>3, StoreFields DEF n, c, TypeOK
    <3> QED BY <2>0, <2>1, <2>2, <2>4, <3>1, <3>2 DEF written
  <2>6. back' = back /\ held' = held /\ pending' = pending
    <3>1. pending' = pending
      BY <2>0, <2>2, StoreFields DEF pending, n
    <3> QED BY <2>1, <2>4, <2>5, <3>1 DEF back, held
  <2>7. TypeOK'
    BY <2>0, <2>1, <2>2 DEF TypeOK, StoreSet
  <2>8. Paired'
    <3>1. ASSUME NEW i \in 1 .. n + 1, ToSlot(buffer'[i])
          PROVE  i < n + 1 /\ buffer'[i + 1] = Store(toBottom, buffer'[i].slot + 1)
      <4>1. i \in 1 .. n
        BY <2>0, <2>2, <3>1, StoreFields
      <4>2. i < n /\ buffer[i + 1] = Store(toBottom, buffer[i].slot + 1)
        BY <2>2, <3>1, <4>1 DEF Paired, n
      <4> QED BY <2>0, <2>2, <4>1, <4>2
    <3>2. ASSUME NEW i \in 1 .. n, ~ToSlot(buffer'[i])
          PROVE  \/ ToSlot(buffer'[i + 1]) /\ buffer'[i + 1].slot = buffer'[i].value
                 \/ ~ToSlot(buffer'[i + 1]) /\ i = n
      <4>1. CASE i < n
        <5>1. i \in 1 .. n - 1 /\ i + 1 \in 1 .. n
          BY <2>0, <4>1
        <5> QED BY <2>1, <2>2, <3>2, <5>1 DEF Paired, n
      <4>2. CASE i = n
        BY <2>2, <4>2, StoreFields
      <4> QED BY <2>0, <4>1, <4>2
    <3> QED BY <2>0, <2>1, <2>2, <3>1, <3>2 DEF Paired
  <2>9. Heads'
    BY <2>0, <2>1, <2>2, StoreFields DEF Heads, n
  <2>10. Claims'
    BY <2>0, <2>1, <2>2, <2>3, <2>4 DEF Claims, c
  <2>11. InArray'
    <3>1. \A i \in 1 .. n : ~ToSlot(buffer'[i]) =>
             buffer'[i].value =< WORK_QUEUE_SIZE /\ buffer'[i].value =< pushes
      BY <2>2 DEF InArray, n
    <3>2. \A i \in 1 .. n : ToSlot(buffer'[i]) => buffer'[i].slot \in Slots
      BY <2>2 DEF InArray, n
    <3>3. /\ ~ToSlot(buffer'[n + 1]) /\ buffer'[n + 1].value = c
          /\ c =< WORK_QUEUE_SIZE /\ c =< pushes
      BY <2>0, <2>2, StoreFields, QueueAssumption DEF c, TypeOK
    <3> QED BY <2>0, <2>1, <2>2, <3>1, <3>2, <3>3 DEF InArray
  <2>12. OnePlace'
    <3>1. \A k : Waiting(k) => Waiting(k)'
      BY <2>1 DEF Waiting
    <3>2. \A i \in pending : buffer'[i] = buffer[i]
      BY <2>2 DEF pending, n
    <3> QED BY <2>1, <2>5, <2>6, <3>1, <3>2 DEF OnePlace
  <2>13. \A i \in Thieves : ThiefSees(i)'
    BY <2>1, <2>6 DEF ThiefSees
  <2> QED BY <2>7, <2>8, <2>9, <2>10, <2>11, <2>12, <2>13
<1>3. ownBottom \in Nat
  BY OwnBottom, StoreFields DEF TypeOK
<1> QED BY <1>1, <1>2, <1>3

\* The stores of a push join the end of the buffer, and its task gets its place.
LEMMA PushWriteKeeps == ASSUME Inv, PushWrite PROVE Inv'
<1> USE DEF Inv
<1>1. CASE b \notin Slots
  BY <1>1, WildKeeps DEF PushWrite
<1>2. CASE b \in Slots
  <2> DEFINE n == Len(buffer)
             e == Store(b, pushes)
             f == Store(toBottom, b + 1)
  <2>0. /\ n \in Nat /\ (buffer = <<>> <=> n = 0)
        /\ \A i \in 1 .. n : buffer[i] \in StoreSet
        /\ b = ownBottom /\ b \in Nat /\ b < pushes /\ pushes \in Task /\ pushes \in Nat /\ b < WORK_QUEUE_SIZE
        /\ WORK_QUEUE_SIZE \in Nat
    <3>1. b < pushes /\ b = ownBottom
      BY DEF PushWrite, Claims
    <3>2. pushes \in 0 .. MaxPushes /\ b \in Nat
      BY <1>2, StoreFields DEF TypeOK
    <3> QED BY OwnBottom, StoreFields, QueueAssumption, <1>2, <3>1, <3>2 DEF Task
  <2>1. /\ pc = "push" /\ pc' = "idle" /\ ~wild
        /\ UNCHANGED <<mTop, mBottom, mArray, b, t, x, tpc, tt, tx, pushes, refused, taken, wild>>
    BY <1>2 DEF PushWrite, memory, thief, ghosts
  <2>2. /\ Len(buffer') = n + 2 /\ buffer' # <<>>
        /\ \A i \in 1 .. n : buffer'[i] = buffer[i]
        /\ buffer'[n + 1] = e /\ buffer'[n + 2] = f
        /\ buffer' \in Seq(StoreSet)
    <3>1. buffer' = buffer \o <<e, f>> /\ buffer \in Seq(StoreSet)
      BY <1>2, <2>1 DEF PushWrite, TypeOK, StoreSet
    <3>2. e \in StoreSet /\ f \in StoreSet
      <4>1. pushes \in 0 .. MaxPushes + 1 /\ b + 1 \in 0 .. MaxPushes + 1
        BY <2>0, QueueAssumption DEF Task
      <4> QED BY <1>2, <4>1 DEF StoreSet, Store
    <3>3. /\ <<e, f>> \in Seq(StoreSet) /\ Len(<<e, f>>) = 2
          /\ <<e, f>>[1] = e /\ <<e, f>>[2] = f
      BY <3>2
    <3> HIDE DEF e, f
    <3>4. /\ buffer' \in Seq(StoreSet) /\ Len(buffer') = n + 2
          /\ \A i \in 1 .. n + 2 : buffer'[i] = IF i =< n THEN buffer[i] ELSE <<e, f>>[i - n]
      BY <3>1, <3>3, ConcatProperties
    <3> QED BY <2>0, <3>3, <3>4
  <2>3. /\ ToSlot(e) /\ e.slot = b /\ e.value = pushes
        /\ ~ToSlot(f) /\ f.value = b + 1
    BY <1>2, StoreFields
  <2>4. n = 0 => b = mBottom
    BY OwnBottom, <2>0
  <2>5. n > 0 => ~ToSlot(buffer[n]) /\ buffer[n].value = b
    BY OwnBottom, <2>0
  <2>6. f = Store(toBottom, e.slot + 1)
    BY <2>3
  <2> HIDE DEF n, e, f
  <2>7. ~claiming /\ ~claiming'
    BY <2>1 DEF claiming
  <2>8. written' = written
    <3>1. n # 0 => buffer'[1] = buffer[1]
      BY <2>0, <2>2
    <3>2. n = 0 => buffer'[1] # Store(toBottom, mBottom + 1)
      BY <2>0, <2>2, <2>3, StoreFields
    <3> QED BY <2>0, <2>1, <2>2, <2>7, <3>1, <3>2 DEF written
  <2>9. back' = back /\ held' = held /\ pending' = pending \cup {n + 1}
    <3>1. pending' = pending \cup {n + 1}
      BY <2>0, <2>2, <2>3 DEF pending, n
    <3> QED BY <2>1, <2>7, <2>8, <3>1 DEF back, held
  <2>10. TypeOK'
    BY <2>0, <2>1, <2>2 DEF TypeOK, StoreSet
  <2>11. Paired'
    <3>1. ASSUME NEW i \in 1 .. n + 2, ToSlot(buffer'[i])
          PROVE  i < n + 2 /\ buffer'[i + 1] = Store(toBottom, buffer'[i].slot + 1)
      <4>1. CASE i \in 1 .. n
        <5>1. i < n /\ buffer[i + 1] = Store(toBottom, buffer[i].slot + 1)
          BY <2>2, <3>1, <4>1 DEF Paired, n
        <5> QED BY <2>0, <2>2, <4>1, <5>1
      <4>2. CASE i = n + 1
        BY <2>0, <2>2, <2>6, <4>2
      <4> QED BY <2>0, <2>2, <2>3, <3>1, <4>1, <4>2
    <3>2. ASSUME NEW i \in 1 .. n + 1, ~ToSlot(buffer'[i])
          PROVE  ToSlot(buffer'[i + 1]) /\ buffer'[i + 1].slot = buffer'[i].value
      <4>1. CASE i < n
        <5>1. i \in 1 .. n - 1 /\ i + 1 \in 1 .. n
          BY <2>0, <4>1
        <5> QED BY <2>1, <2>2, <3>2, <5>1 DEF Paired, n
      <4>2. CASE i = n
        BY <2>0, <2>2, <2>3, <2>5, <4>2
      <4> QED BY <2>0, <2>2, <2>3, <3>2, <4>1, <4>2
    <3> QED BY <2>0, <2>2, <3>1, <3>2 DEF Paired
  <2>12. Heads'
    BY <2>0, <2>1, <2>2, <2>3, <2>4 DEF Heads, n
  <2>13. Claims'
    BY <2>1, <2>7 DEF Claims
  <2>14. InArray'
    <3>1. \A i \in 1 .. n : ~ToSlot(buffer'[i]) =>
             buffer'[i].value =< WORK_QUEUE_SIZE /\ buffer'[i].value =< pushes
      BY <2>2 DEF InArray, n
    <3>2. \A i \in 1 .. n : ToSlot(buffer'[i]) => buffer'[i].slot \in Slots
      BY <2>2 DEF InArray, n
    <3>3. \A i \in 1 .. n + 2 : i \in 1 .. n \/ i = n + 1 \/ i = n + 2
      BY <2>0
    <3>4. mBottom' =< WORK_QUEUE_SIZE /\ mBottom' =< pushes'
      BY <2>1 DEF InArray
    <3>5. b + 1 =< WORK_QUEUE_SIZE /\ b + 1 =< pushes
      BY <2>0
    <3> QED BY <1>2, <2>1, <2>2, <2>3, <3>1, <3>2, <3>3, <3>4, <3>5 DEF InArray
  <2>15. OnePlace'
    <3>1. \A k : Waiting(k) => Waiting(k)' /\ k # pushes
      BY <2>1 DEF Waiting
    <3>2. Waiting(pushes)'
      BY <2>0, <2>1 DEF Waiting, OnePlace, Task
    <3>3. /\ \A i \in pending : buffer'[i] = buffer[i] /\ i # n + 1
          /\ buffer'[n + 1].value = pushes
      BY <2>0, <2>2, <2>3 DEF pending, n
    <3>4. /\ mTop' =< written'
          /\ \A s \in held' : Waiting(mArray[s])' /\ mArray'[s] # pushes
          /\ \A r, s \in held' : mArray'[r] = mArray'[s] => r = s
      BY <2>1, <2>8, <2>9, <3>1 DEF OnePlace
    <3>5. /\ \A i \in pending' : Waiting(buffer[i].value)'
          /\ \A i, j \in pending' : buffer'[i].value = buffer'[j].value => i = j
      <4>1. \A i \in pending : Waiting(buffer[i].value)' /\ buffer'[i].value # pushes
        BY <2>1, <3>3 DEF OnePlace, Waiting
      <4>2. \A i, j \in pending : buffer'[i].value = buffer'[j].value => i = j
        BY <3>3 DEF OnePlace
      <4>3. ASSUME NEW i, i = n + 1 PROVE Waiting(buffer[i].value)'
        BY <2>1, <3>2, <3>3, <4>3 DEF Waiting
      <4> QED BY <2>9, <3>3, <4>1, <4>2, <4>3
    <3>6. \A s \in held', i \in pending' : mArray'[s] # buffer'[i].value
      BY <2>1, <2>9, <3>3, <3>4 DEF OnePlace
    <3> QED BY <2>1, <3>4, <3>5, <3>6 DEF OnePlace
  <2>16. \A i \in Thieves : ThiefSees(i)'
    BY <2>1, <2>9 DEF ThiefSees
  <2> QED BY <2>10, <2>11, <2>12, <2>13, <2>14, <2>15, <2>16
<1> QED BY <1>1, <1>2

\* Returning a task that waits: once, and it no longer waits.
LEMMA ReturnOnce ==
  ASSUME TypeOK, OnePlace, NEW k, Waiting(k), Return(k)
  PROVE  /\ k \in Task /\ taken' = [taken EXCEPT ![k] = 1] /\ taken' \in [Task -> Nat]
         /\ \A j \in Task : taken'[j] =< 1 /\ (taken'[j] > 0 => j =< pushes)
         /\ \A j : Waiting(j) /\ j # k => taken'[j] = 0
         /\ pc = "push" => taken'[pushes] = 0
<1>1. k \in Task /\ taken[k] = 0 /\ pushes \in Nat /\ k =< pushes
  BY QueueAssumption DEF Waiting, TypeOK, Task
<1>2. taken' = [taken EXCEPT ![k] = 1]
  BY <1>1 DEF Return
<1>3. \A j \in Task : taken'[j] = IF j = k THEN 1 ELSE taken[j]
  BY <1>1, <1>2 DEF TypeOK
<1>4. \A j : Waiting(j) => j \in Task
  BY QueueAssumption DEF Waiting, TypeOK, Task
<1>5. pc = "push" => taken'[pushes] = 0
  BY <1>1, <1>3, QueueAssumption DEF Waiting, OnePlace, TypeOK, Task
<1> QED BY <1>1, <1>2, <1>3, <1>4, <1>5 DEF TypeOK, OnePlace, Waiting

\* A claim that found the queue empty, or left it so, puts mBottom back.
LEMMA RestoreKeeps ==
  ASSUME Inv, claiming, mTop' = b + 1, buffer' = <<Store(toBottom, b + 1)>>, pc' = "idle",
         t' = b \/ t' = b + 1, x' \in Task \cup {none}, taken' \in [Task -> Nat],
         \A k \in Task : taken'[k] =< 1 /\ (taken'[k] > 0 => k =< pushes),
         UNCHANGED <<mBottom, mArray, b, tpc, tt, tx, pushes, refused, wild>>
  PROVE  Inv'
<1> USE DEF Inv
<1>1. /\ buffer = <<>> /\ mBottom = b /\ b < WORK_QUEUE_SIZE /\ b < pushes /\ b \in Nat /\ mTop =< b + 1
      /\ pushes \in 0 .. MaxPushes /\ MaxPushes \in Nat /\ mTop \in Nat /\ WORK_QUEUE_SIZE \in Nat
  BY QueueAssumption DEF claiming, Claims, TypeOK, OnePlace, written
<1>2. b + 1 \in 0 .. MaxPushes + 1 /\ b \in 0 .. MaxPushes + 1
  BY <1>1
<1>3. /\ Len(buffer') = 1 /\ buffer'[1] = Store(toBottom, b + 1) /\ buffer' \in Seq(StoreSet) /\ buffer' # <<>>
      /\ ~ToSlot(buffer'[1]) /\ buffer'[1].value = b + 1
  <2>1. Store(toBottom, b + 1) \in StoreSet
    BY <1>2 DEF Store, StoreSet
  <2> QED BY <2>1, StoreFields
<1>4. ~claiming' /\ written' = b + 1 /\ held' = {} /\ pending' = {} /\ back = b + 1
  BY <1>1, <1>3 DEF claiming, written, held, pending, back
<1>5. TypeOK'
  BY <1>2, <1>3 DEF TypeOK, StoreSet
<1>6. Paired' /\ Heads'
  BY <1>1, <1>3 DEF Paired, Heads
<1>7. Claims' /\ InArray'
  BY <1>1, <1>3, <1>4 DEF Claims, InArray
<1>8. OnePlace'
  BY <1>1, <1>4 DEF OnePlace
<1>9. \A i \in Thieves : ThiefSees(i)'
  <2> SUFFICES ASSUME NEW i \in Thieves PROVE ThiefSees(i)'
    OBVIOUS
  <2>1. tt[i] \in Nat /\ tt[i] =< mTop
    BY QueueAssumption DEF TypeOK, ThiefSees
  <2>2. tpc[i] \in {"slot", "cas"} /\ tt[i] = mTop => mTop < b + 1
    BY <1>4 DEF ThiefSees
  <2> QED BY <1>1, <2>1, <2>2 DEF ThiefSees
<1> QED BY <1>5, <1>6, <1>7, <1>8, <1>9

\* More than one task: the owner takes the last and shortens the queue.
LEMMA PopReadKeeps == ASSUME Inv, PopRead PROVE Inv'
<1> USE DEF Inv
<1>1. /\ claiming /\ pc = "pop" /\ buffer = <<>> /\ mBottom = b /\ b < WORK_QUEUE_SIZE /\ b < pushes /\ b \in Nat
      /\ mTop =< b + 1 /\ pushes \in 0 .. MaxPushes /\ MaxPushes \in Nat /\ mTop \in Nat
      /\ WORK_QUEUE_SIZE \in Nat /\ b \in Slots /\ mArray[b] \in Task \cup {none}
      /\ written = b + 1 /\ back = b + 1 /\ pending = {}
  <2>1. claiming /\ pc = "pop" /\ buffer = <<>> /\ mBottom = b /\ b < WORK_QUEUE_SIZE /\ b < pushes
    BY DEF claiming, Claims, PopRead
  <2>2. b \in Nat /\ b \in Slots /\ mArray[b] \in Task \cup {none}
    BY <2>1, QueueAssumption DEF TypeOK, Slots
  <2> QED BY <2>1, <2>2, QueueAssumption DEF TypeOK, OnePlace, written, back, pending
<1>2. UNCHANGED <<mTop, mBottom, mArray, b, tpc, tt, tx, pushes, refused, wild>> /\ t' = mTop
  BY DEF PopRead, memory, thief
<1>3. CASE mTop > b
  <2>1. buffer' = <<Store(toBottom, b + 1)>> /\ pc' = "idle" /\ UNCHANGED <<x, taken>> /\ mTop = b + 1
    BY <1>1, <1>3 DEF PopRead
  <2>2. \A k \in Task : taken'[k] =< 1 /\ (taken'[k] > 0 => k =< pushes)
    BY <2>1 DEF OnePlace
  <2> QED BY <1>1, <1>2, <2>1, <2>2, RestoreKeeps DEF TypeOK
<1>4. CASE mTop = b
  <2>1. pc' = "popcas" /\ UNCHANGED <<taken, buffer>> /\ x' = mArray[b]
    BY <1>1, <1>4 DEF PopRead
  <2>2. claiming' /\ written' = written /\ back' = back /\ held' = held /\ pending' = pending
    BY <1>1, <1>2, <2>1 DEF claiming, written, back, held, pending
  <2>3. TypeOK'
    BY <1>1, <1>2, <2>1 DEF TypeOK
  <2>4. Paired' /\ Heads'
    BY <1>1, <2>1 DEF Paired, Heads
  <2>5. Claims' /\ InArray'
    BY <1>1, <1>2, <1>4, <2>1, <2>2 DEF Claims, InArray
  <2>6. OnePlace'
    BY <1>1, <1>2, <2>1, <2>2 DEF OnePlace, Waiting
  <2>7. \A i \in Thieves : ThiefSees(i)'
    BY <1>2, <2>2 DEF ThiefSees
  <2> QED BY <2>3, <2>4, <2>5, <2>6, <2>7
<1>5. CASE mTop < b
  <2>1. pc' = "idle" /\ UNCHANGED buffer /\ x' = mArray[b] /\ Return(mArray[b])
    BY <1>1, <1>5 DEF PopRead
  <2>2. b \in held /\ Waiting(mArray[b])
    BY <1>1, <1>5 DEF OnePlace, held
  <2>3. /\ taken' \in [Task -> Nat]
        /\ \A j \in Task : taken'[j] =< 1 /\ (taken'[j] > 0 => j =< pushes)
        /\ \A j : Waiting(j) /\ j # mArray[b] => taken'[j] = 0
    BY <1>1, <2>1, <2>2, ReturnOnce
  <2>4. ~claiming' /\ written' = b /\ back' = b /\ held' = held \ {b} /\ pending' = {}
    BY <1>1, <1>2, <2>1 DEF claiming, written, back, held, pending
  <2>5. TypeOK'
    BY <1>1, <1>2, <2>1, <2>3 DEF TypeOK
  <2>6. Paired' /\ Heads'
    BY <1>1, <2>1 DEF Paired, Heads
  <2>7. Claims' /\ InArray'
    BY <1>1, <1>2, <2>1, <2>4 DEF Claims, InArray
  <2>8. OnePlace'
    <3>1. \A s \in held \ {b} : Waiting(mArray[s]) /\ mArray[s] # mArray[b]
      BY <2>2 DEF OnePlace
    <3>2. \A s \in held' : Waiting(mArray[s])'
      BY <1>2, <2>1, <2>3, <2>4, <3>1 DEF Waiting
    <3>3. \A r, s \in held' : mArray'[r] = mArray'[s] => r = s
      BY <1>2, <2>4 DEF OnePlace
    <3> QED BY <1>1, <1>2, <1>5, <2>1, <2>3, <2>4, <3>2, <3>3 DEF OnePlace
  <2>9. \A i \in Thieves : ThiefSees(i)'
    BY <1>2, <1>5, <2>4 DEF ThiefSees
  <2> QED BY <2>5, <2>6, <2>7, <2>8, <2>9
<1> QED BY <1>1, <1>3, <1>4, <1>5

\* One task left: whoever moves mTop first has it.
LEMMA PopCasKeeps == ASSUME Inv, PopCas PROVE Inv'
<1> USE DEF Inv
<1>1. /\ claiming /\ pc = "popcas" /\ mBottom = b /\ b < WORK_QUEUE_SIZE /\ b \in Nat /\ t = b /\ x = mArray[b]
      /\ t =< mTop /\ mTop =< b + 1 /\ mTop \in Nat /\ written = b + 1 /\ x \in Task \cup {none}
  <2>1. claiming /\ pc = "popcas"
    BY DEF claiming, PopCas
  <2> QED BY <2>1 DEF Claims, OnePlace, written, TypeOK
<1>2. /\ buffer' = <<Store(toBottom, b + 1)>> /\ pc' = "idle" /\ t' = b /\ x' = x
      /\ UNCHANGED <<mBottom, mArray, b, tpc, tt, tx, pushes, refused, wild>>
  BY <1>1 DEF PopCas, thief
<1>3. CASE mTop = t
  <2>1. mTop' = b + 1 /\ Return(x)
    BY <1>1, <1>3 DEF PopCas
  <2>2. Waiting(x)
    BY <1>1, <1>3 DEF OnePlace, held
  <2>3. taken' \in [Task -> Nat] /\ \A j \in Task : taken'[j] =< 1 /\ (taken'[j] > 0 => j =< pushes)
    BY <1>1, <2>1, <2>2, ReturnOnce
  <2> QED BY <1>1, <1>2, <2>1, <2>3, RestoreKeeps
<1>4. CASE mTop # t
  <2>1. UNCHANGED <<mTop, taken>> /\ mTop = b + 1
    BY <1>1, <1>4 DEF PopCas
  <2>2. taken' \in [Task -> Nat] /\ \A j \in Task : taken'[j] =< 1 /\ (taken'[j] > 0 => j =< pushes)
    BY <2>1 DEF OnePlace, TypeOK
  <2> QED BY <1>1, <1>2, <2>1, <2>2, RestoreKeeps
<1> QED BY <1>3, <1>4

\* What is left of the buffer when its first store has gone.
LEMMA FlushShape ==
  ASSUME Inv, Flush
  PROVE  /\ Len(buffer) \in Nat \ {0} /\ Len(buffer') = Len(buffer) - 1
         /\ \A i \in 1 .. Len(buffer') : buffer'[i] = buffer[i + 1]
         /\ \A i \in 1 .. Len(buffer) : buffer[i] \in StoreSet
         /\ buffer' \in Seq(StoreSet) /\ (buffer' = <<>> <=> Len(buffer) = 1)
         /\ ~claiming /\ pc # "popcas" /\ ~wild
         /\ IF ToSlot(buffer[1]) THEN mBottom' = mBottom /\ mArray' = [mArray EXCEPT ![buffer[1].slot] = buffer[1].value]
                                 ELSE mBottom' = buffer[1].value /\ mArray' = mArray
         /\ UNCHANGED <<mTop, pc, b, t, x, tpc, tt, tx, pushes, refused, taken, wild>>
         /\ Paired'
<1>1. buffer \in Seq(StoreSet) /\ buffer # <<>> /\ buffer' = Tail(buffer) /\ Head(buffer) = buffer[1]
  BY DEF Inv, TypeOK, Flush, StoreSet
<1>2. /\ Len(buffer) \in Nat \ {0} /\ Len(buffer') = Len(buffer) - 1
      /\ \A i \in 1 .. Len(buffer') : buffer'[i] = buffer[i + 1]
      /\ buffer' \in Seq(StoreSet)
  BY <1>1, HeadTailProperties
<1>3. (buffer' = <<>> <=> Len(buffer) = 1) /\ \A i \in 1 .. Len(buffer) : buffer[i] \in StoreSet
  <2>1. buffer' = <<>> <=> Len(buffer') = 0
    BY <1>2, EmptySeq
  <2>2. \A i \in 1 .. Len(buffer) : buffer[i] \in StoreSet
    BY <1>1
  <2> QED BY <1>2, <2>1, <2>2
<1>4. /\ UNCHANGED <<mTop, pc, b, t, x, tpc, tt, tx, pushes, refused, taken, wild>> /\ ~wild
      /\ ~claiming /\ pc # "popcas"
  BY <1>1 DEF Flush, owner, thief, ghosts, claiming, Inv, Claims
<1>5. IF ToSlot(buffer[1]) THEN mBottom' = mBottom /\ mArray' = [mArray EXCEPT ![buffer[1].slot] = buffer[1].value]
                           ELSE mBottom' = buffer[1].value /\ mArray' = mArray
  BY <1>1 DEF Flush, ToSlot
<1>6. Paired'
  <2> DEFINE n == Len(buffer)
  <2>1. \A i \in 1 .. n - 1 : i + 1 \in 1 .. n
    BY <1>2
  <2>2. ASSUME NEW i \in 1 .. n - 1, ToSlot(buffer'[i])
        PROVE  i < n - 1 /\ buffer'[i + 1] = Store(toBottom, buffer'[i].slot + 1)
    <3>1. i + 1 < n /\ buffer[i + 2] = Store(toBottom, buffer[i + 1].slot + 1)
      BY <1>2, <2>1, <2>2 DEF Inv, Paired
    <3> QED BY <1>2, <3>1
  <2>3. ASSUME NEW i \in 1 .. n - 2, ~ToSlot(buffer'[i])
        PROVE  \/ ToSlot(buffer'[i + 1]) /\ buffer'[i + 1].slot = buffer'[i].value
               \/ ~ToSlot(buffer'[i + 1]) /\ i + 1 = n - 1 /\ pc = "pop"
    <3>1. i + 1 \in 1 .. n - 1 /\ buffer'[i] = buffer[i + 1] /\ buffer'[i + 1] = buffer[i + 2]
      <4>1. n \in Nat /\ \A j \in 1 .. n - 1 : buffer'[j] = buffer[j + 1]
        BY <1>2
      <4>2. i \in Nat /\ i \in 1 .. n - 1 /\ i + 1 \in 1 .. n - 1 /\ (i + 1) + 1 = i + 2
        BY <4>1
      <4> HIDE DEF n
      <4> QED BY <4>1, <4>2
    <3> QED BY SMTT(40), <1>2, <2>3, <3>1 DEF Inv, Paired
  <2> HIDE DEF n
  <2> QED BY <1>2, <1>4, <2>2, <2>3 DEF Paired, n
<1> QED BY <1>2, <1>3, <1>4, <1>5, <1>6

\* The owner's last store is still the last.
LEMMA FlushClaims ==
  ASSUME Inv, Flush
  PROVE  /\ pc = "push" => b = ownBottom' /\ b < pushes
         /\ pc = "pop" /\ Len(buffer) > 1 =>
              /\ buffer'[Len(buffer')] = Store(toBottom, b)
              /\ Len(buffer) > 2 => buffer'[Len(buffer') - 1] = Store(toBottom, b + 1)
              /\ Len(buffer) = 2 => buffer[1] = Store(toBottom, b + 1)
<1> USE FlushShape
<1>1. Len(buffer) > 1 => buffer'[Len(buffer')] = buffer[Len(buffer)]
  OBVIOUS
<1>2. Len(buffer) > 2 => buffer'[Len(buffer') - 1] = buffer[Len(buffer) - 1]
  OBVIOUS
<1>3. ASSUME pc = "push" PROVE b = ownBottom' /\ b < pushes
  <2>1. b = buffer[Len(buffer)].value /\ b < pushes /\ ~ToSlot(buffer[Len(buffer)])
    BY <1>3, OwnBottom DEF Inv, Claims
  <2>2. CASE Len(buffer) = 1
    <3>1. buffer' = <<>> /\ mBottom' = b
      BY <2>1, <2>2
    <3>2. ownBottom' = mBottom'
      BY <3>1 DEF ownBottom
    <3> QED BY <2>1, <3>1, <3>2
  <2>3. CASE Len(buffer) > 1
    <3> DEFINE mine == {i \in 1 .. Len(buffer') : buffer'[i].slot = toBottom}
    <3>1. Len(buffer') \in mine
      BY <1>1, <2>1, <2>3 DEF ToSlot
    <3>2. \A i \in mine : (\A j \in mine : j =< i) <=> i = Len(buffer')
      BY <3>1
    <3>3. ownBottom' = IF mine = {} THEN mBottom' ELSE buffer'[CHOOSE i \in mine : \A j \in mine : j =< i].value
      BY DEF ownBottom
    <3> HIDE DEF mine
    <3>4. (CHOOSE i \in mine : \A j \in mine : j =< i) = Len(buffer')
      BY <3>1, <3>2
    <3> QED BY <1>1, <2>1, <2>3, <3>1, <3>3, <3>4
  <2> QED BY <2>2, <2>3
<1>4. ASSUME pc = "pop", Len(buffer) > 1
      PROVE  buffer[Len(buffer)] = Store(toBottom, b) /\ buffer[Len(buffer) - 1] = Store(toBottom, b + 1)
  BY <1>4 DEF Inv, Claims
<1> QED BY <1>1, <1>2, <1>3, <1>4

\* The slot of a push reaches memory: its task is held there.
LEMMA FlushSlotKeeps == ASSUME Inv, Flush, ToSlot(buffer[1]) PROVE Inv'
<1> DEFINE n == Len(buffer)
           m == mBottom
<1> USE DEF Inv
<1>1. /\ n \in Nat \ {0} /\ Len(buffer') = n - 1 /\ buffer' \in Seq(StoreSet)
      /\ \A i \in 1 .. n - 1 : buffer'[i] = buffer[i + 1]
      /\ \A i \in 1 .. n : buffer[i] \in StoreSet
      /\ ~claiming /\ pc # "popcas" /\ Paired'
      /\ UNCHANGED <<mTop, mBottom, pc, b, t, x, tpc, tt, tx, pushes, refused, taken, wild>>
  BY FlushShape
<1>2. /\ buffer[1].slot = m /\ m \in Slots /\ m \in Nat /\ m < WORK_QUEUE_SIZE /\ n > 1
      /\ buffer[2] = Store(toBottom, m + 1) /\ mArray' = [mArray EXCEPT ![m] = buffer[1].value]
      /\ buffer # <<>> /\ buffer' # <<>> /\ buffer'[1] = Store(toBottom, m + 1)
  <2>1. buffer # <<>>
    BY DEF Flush
  <2>2. buffer[1].slot = m
    BY <2>1, StoreFields DEF Heads
  <2>3. n > 1 /\ buffer[2] = Store(toBottom, m + 1)
    BY <1>1, <2>2 DEF Paired
  <2>4. m \in Slots
    BY <1>1, <2>2, StoreFields
  <2> QED BY <1>1, <2>1, <2>2, <2>3, <2>4, FlushShape, StoreFields
<1> HIDE DEF n
<1>3. ~claiming' /\ written = m /\ written' = m + 1 /\ back = m /\ back' = m
  <2>1. buffer[1] # Store(toBottom, m + 1)
    BY StoreFields
  <2>2. ~claiming'
    BY <1>2 DEF claiming
  <2> QED BY <1>1, <1>2, <2>1, <2>2 DEF written, back
<1>4. mTop \in Nat /\ mTop =< m /\ held' = held \cup {m} /\ m \notin held
  <2>1. mTop \in Nat /\ mTop =< m
    BY <1>3 DEF OnePlace, TypeOK
  <2> QED BY <1>1, <1>2, <1>3, <2>1 DEF held
<1>5. /\ \A s \in held : mArray'[s] = mArray[s]
      /\ mArray' \in [Slots -> Task \cup {none}] /\ mArray'[m] = buffer[1].value
  <2>1. Waiting(buffer[1].value)
    BY <1>1 DEF OnePlace, pending, n
  <2>2. buffer[1].value \in Task
    BY <2>1, QueueAssumption DEF Waiting, TypeOK, Task
  <2> QED BY SMTT(40), <1>2, <1>4, <2>2 DEF TypeOK, held
<1>6. 1 \in pending /\ \A i \in pending' : i + 1 \in pending /\ buffer'[i] = buffer[i + 1] /\ i \in Nat \ {0}
  BY <1>1 DEF pending, n
<1>7. TypeOK'
  BY <1>1, <1>5 DEF TypeOK, StoreSet
<1>8. Heads'
  BY <1>1, <1>2, FlushClaims, StoreFields DEF Heads, n
<1>9. Claims'
  <2>1. pc' = "push" => b' = ownBottom' /\ b' < pushes'
    BY <1>1, FlushClaims
  <2>2. pc' = "pop" => n > 2
    <3>1. pc = "pop" /\ n = 2 => buffer[1] = Store(toBottom, b + 1)
      BY FlushClaims DEF n
    <3> QED BY <1>1, <1>2, <3>1, StoreFields
  <2> QED BY <1>1, <1>3, <2>1, <2>2, FlushClaims DEF Claims, n
<1>10. InArray'
  <2>1. \A i \in 1 .. n - 1 : i + 1 \in 1 .. n
    BY <1>1
  <2>2. \A i \in 1 .. n - 1 : ~ToSlot(buffer'[i]) =>
           buffer'[i].value =< WORK_QUEUE_SIZE /\ buffer'[i].value =< pushes
    BY <1>1, <2>1 DEF InArray, n
  <2>3. \A i \in 1 .. n - 1 : ToSlot(buffer'[i]) => buffer'[i].slot \in Slots
    BY <1>1, <2>1 DEF InArray, n
  <2> QED BY <1>1, <2>2, <2>3 DEF InArray
<1>11. OnePlace'
  <2>1. \A k : Waiting(k) => Waiting(k)'
    BY <1>1 DEF Waiting
  <2>2. \A s \in held' : Waiting(mArray[s])'
    BY <1>1, <1>4, <1>5, <1>6 DEF OnePlace, Waiting
  <2>3. \A i \in pending' : Waiting(buffer[i].value)'
    BY <1>1, <1>6 DEF OnePlace, Waiting
  <2>4. \A r, s \in held' : mArray'[r] = mArray'[s] => r = s
    BY <1>4, <1>5, <1>6 DEF OnePlace
  <2>5. \A i, j \in pending' : buffer'[i].value = buffer'[j].value => i = j
    BY <1>6 DEF OnePlace
  <2>6. \A s \in held', i \in pending' : mArray'[s] # buffer'[i].value
    <3>1. \A i \in pending' : i + 1 # 1
      BY <1>6
    <3> QED BY <1>4, <1>5, <1>6, <3>1 DEF OnePlace
  <2>7. /\ \A k \in Task : taken'[k] =< 1 /\ (taken'[k] > 0 => k =< pushes')
        /\ pc' = "push" => taken'[pushes'] = 0
    BY <1>1 DEF OnePlace
  <2>8. mTop' =< written'
    BY <1>1, <1>2, <1>3, <1>4
  <2> QED BY <2>2, <2>3, <2>4, <2>5, <2>6, <2>7, <2>8 DEF OnePlace
<1>12. \A i \in Thieves : ThiefSees(i)'
  <2> SUFFICES ASSUME NEW i \in Thieves PROVE ThiefSees(i)'
    OBVIOUS
  <2>1. mTop < m => mArray'[mTop] = mArray[mTop]
    BY <1>2, <1>3, <1>4, <1>5 DEF held
  <2>2. tpc[i] \in {"slot", "cas"} /\ tt[i] = mTop => mTop < m
    BY <1>3 DEF ThiefSees
  <2> QED BY <1>1, <1>3, <2>1, <2>2 DEF ThiefSees
<1> QED BY <1>1, <1>7, <1>8, <1>9, <1>10, <1>11, <1>12

\* mBottom of a push, or the one a pop puts back, reaches memory.
LEMMA FlushBottomKeeps ==
  ASSUME Inv, Flush, buffer[1] = Store(toBottom, mBottom + 1), pc = "pop" => Len(buffer) > 1
  PROVE  Inv'
<1> DEFINE n == Len(buffer)
           m == mBottom + 1
<1> USE DEF Inv
<1>1. /\ n \in Nat \ {0} /\ Len(buffer') = n - 1 /\ buffer' \in Seq(StoreSet) /\ (buffer' = <<>> <=> n = 1)
      /\ \A i \in 1 .. n - 1 : buffer'[i] = buffer[i + 1]
      /\ \A i \in 1 .. n : buffer[i] \in StoreSet
      /\ ~claiming /\ pc # "popcas" /\ Paired'
      /\ UNCHANGED <<mTop, pc, b, t, x, tpc, tt, tx, pushes, refused, taken, wild>>
  BY FlushShape
<1>2. /\ ~ToSlot(buffer[1]) /\ buffer[1].value = m /\ m \in Nat /\ m \in 0 .. MaxPushes + 1
      /\ m =< WORK_QUEUE_SIZE /\ m =< pushes /\ mBottom' = m /\ mArray' = mArray /\ buffer # <<>>
  <2>1. ~ToSlot(buffer[1]) /\ buffer[1].value = m
    BY StoreFields
  <2>2. m =< WORK_QUEUE_SIZE /\ m =< pushes
    BY <1>1, <2>1 DEF InArray
  <2>3. pushes \in 0 .. MaxPushes /\ MaxPushes \in Nat /\ mBottom \in Nat
    BY QueueAssumption DEF TypeOK
  <2> QED BY <1>1, <2>1, <2>2, <2>3, FlushShape DEF Flush
<1> HIDE DEF n
<1>3. n > 1 => \/ ToSlot(buffer'[1]) /\ buffer'[1].slot = m
               \/ ~ToSlot(buffer'[1]) /\ n = 2 /\ pc = "pop" /\ buffer'[1] = Store(toBottom, b) /\ m = b + 1
  <2> SUFFICES ASSUME n > 1 PROVE \/ ToSlot(buffer[2]) /\ buffer[2].slot = m
                                  \/ ~ToSlot(buffer[2]) /\ n = 2 /\ pc = "pop" /\ buffer[2] = Store(toBottom, b) /\ m = b + 1
    BY <1>1
  <2>1. \/ ToSlot(buffer[2]) /\ buffer[2].slot = m
        \/ ~ToSlot(buffer[2]) /\ n = 2 /\ pc = "pop"
    BY <1>1, <1>2 DEF Paired, n
  <2>2. n = 2 /\ pc = "pop" => buffer[2] = Store(toBottom, b) /\ buffer[1] = Store(toBottom, b + 1)
    BY <1>2 DEF Claims, n
  <2>3. buffer[1] = Store(toBottom, b + 1) => m = b + 1
    BY <1>2, StoreFields
  <2> QED BY <2>1, <2>2, <2>3
<1>4. ~claiming' /\ written = m /\ written' = m /\ back = mBottom /\ back' = m
  <2>1. ~claiming'
    BY <1>1 DEF claiming, n
  <2>2. n > 1 => buffer'[1] # Store(toBottom, m + 1)
    <3>1. b \in Nat /\ (m = b + 1 => b # m + 1)
      BY <1>2, QueueAssumption DEF TypeOK
    <3>2. Store(toBottom, b) = Store(toBottom, m + 1) => b = m + 1
      BY StoreFields
    <3>3. ~ToSlot(Store(toBottom, m + 1))
      BY StoreFields
    <3> QED BY <1>3, <3>1, <3>2, <3>3
  <2> QED BY <1>1, <1>2, <2>1, <2>2 DEF written, back
<1>5. held' = held /\ 1 \notin pending
  BY <1>1, <1>2, <1>4 DEF held, pending
<1>6. \A i \in pending' : i + 1 \in pending /\ buffer'[i] = buffer[i + 1] /\ i \in Nat
  BY <1>1 DEF pending, n
<1>7. TypeOK'
  BY <1>1, <1>2 DEF TypeOK, StoreSet
<1>8. Heads'
  BY <1>1, <1>2, <1>3 DEF Heads
<1>9. Claims'
  <2>1. pc' = "push" => b' = ownBottom' /\ b' < pushes'
    BY <1>1, FlushClaims
  <2>2. pc' = "pop" /\ buffer' # <<>> =>
          /\ buffer'[Len(buffer')] = Store(toBottom, b')
          /\ IF Len(buffer') = 1 THEN mBottom' = b' + 1
                                 ELSE buffer'[Len(buffer') - 1] = Store(toBottom, b' + 1)
    BY <1>1, <1>2, <1>3, FlushClaims, StoreFields DEF n
  <2> QED BY <1>1, <1>4, <2>1, <2>2 DEF Claims
<1>10. InArray'
  <2>1. \A i \in 1 .. n - 1 : i + 1 \in 1 .. n
    BY <1>1
  <2>2. \A i \in 1 .. n - 1 : ~ToSlot(buffer'[i]) =>
           buffer'[i].value =< WORK_QUEUE_SIZE /\ buffer'[i].value =< pushes
    BY <1>1, <2>1 DEF InArray, n
  <2>3. \A i \in 1 .. n - 1 : ToSlot(buffer'[i]) => buffer'[i].slot \in Slots
    BY <1>1, <2>1 DEF InArray, n
  <2> QED BY <1>1, <1>2, <2>2, <2>3 DEF InArray
<1>11. OnePlace'
  <2>1. \A s \in held' : Waiting(mArray[s])'
    BY <1>1, <1>2, <1>5 DEF OnePlace, Waiting
  <2>2. \A i \in pending' : Waiting(buffer[i].value)'
    BY <1>1, <1>6 DEF OnePlace, Waiting
  <2>3. \A r, s \in held' : mArray'[r] = mArray'[s] => r = s
    BY <1>2, <1>5 DEF OnePlace
  <2>4. \A i, j \in pending' : buffer'[i].value = buffer'[j].value => i = j
    BY <1>6 DEF OnePlace
  <2>5. \A s \in held', i \in pending' : mArray'[s] # buffer'[i].value
    BY <1>2, <1>5, <1>6 DEF OnePlace
  <2>6. /\ \A k \in Task : taken'[k] =< 1 /\ (taken'[k] > 0 => k =< pushes')
        /\ pc' = "push" => taken'[pushes'] = 0
    BY <1>1 DEF OnePlace
  <2>7. mTop' =< written'
    BY <1>1, <1>4 DEF OnePlace
  <2> QED BY <2>1, <2>2, <2>3, <2>4, <2>5, <2>6, <2>7 DEF OnePlace
<1>12. \A i \in Thieves : ThiefSees(i)'
  <2> SUFFICES ASSUME NEW i \in Thieves PROVE ThiefSees(i)'
    OBVIOUS
  <2>1. mTop < mBottom => mTop < m
    BY DEF TypeOK
  <2> QED BY <1>1, <1>2, <1>4, <2>1 DEF ThiefSees
<1> QED BY <1>1, <1>7, <1>8, <1>9, <1>10, <1>11, <1>12

\* The claim of a pop reaches memory, the last of the buffer.
LEMMA FlushClaimKeeps ==
  ASSUME Inv, Flush, pc = "pop", Len(buffer) = 1, ~ToSlot(buffer[1])
  PROVE  Inv'
<1> USE DEF Inv
<1>1. /\ Len(buffer') = 0 /\ buffer' = <<>> /\ buffer' \in Seq(StoreSet) /\ mArray' = mArray
      /\ ~claiming /\ mBottom' = buffer[1].value
      /\ UNCHANGED <<mTop, pc, b, t, x, tpc, tt, tx, pushes, refused, taken, wild>>
  BY FlushShape
<1>2. buffer # <<>> /\ buffer[1] = Store(toBottom, b) /\ mBottom = b + 1 /\ mBottom' = b
  BY <1>1, StoreFields DEF Claims, Flush
<1>3. claiming' /\ written = b + 1 /\ written' = b + 1 /\ back = b + 1 /\ back' = b + 1
  <2>1. claiming' /\ buffer[1] # Store(toBottom, mBottom + 1)
    BY <1>1, <1>2, StoreFields DEF claiming, TypeOK
  <2> QED BY <1>1, <1>2, <2>1 DEF written, back
<1>4. held' = held /\ pending' = {}
  BY <1>1, <1>3 DEF held, pending
<1>5. TypeOK'
  BY <1>1, <1>2 DEF TypeOK, StoreSet
<1>6. Paired' /\ Heads'
  BY <1>1 DEF Paired, Heads
<1>7. Claims' /\ InArray'
  <2>1. b < WORK_QUEUE_SIZE /\ b < pushes /\ b \in Nat /\ pushes \in Nat /\ WORK_QUEUE_SIZE \in Nat
    BY <1>2, QueueAssumption DEF InArray, TypeOK
  <2> QED BY <1>1, <1>2, <1>3, <2>1 DEF Claims, InArray
<1>8. OnePlace'
  BY <1>1, <1>3, <1>4 DEF OnePlace, Waiting
<1>9. \A i \in Thieves : ThiefSees(i)'
  BY <1>1, <1>3 DEF ThiefSees
<1> QED BY <1>5, <1>6, <1>7, <1>8, <1>9

\* Whichever store it is, the oldest one may reach memory.
LEMMA FlushKeeps == ASSUME Inv, Flush PROVE Inv'
<1>1. CASE ToSlot(buffer[1])
  BY <1>1, FlushSlotKeeps
<1>2. CASE buffer[1] = Store(toBottom, mBottom + 1) /\ (pc = "pop" => Len(buffer) > 1)
  BY <1>2, FlushBottomKeeps
<1>3. CASE Len(buffer) = 1 /\ pc = "pop" /\ ~ToSlot(buffer[1])
  BY <1>3, FlushClaimKeeps
<1> QED BY <1>1, <1>2, <1>3 DEF Inv, Heads, Flush

-----------------------------------------------------------------------------
(* The thieves' steps *)

\* A thief that only reads leaves the queue as it is.
LEMMA ThiefReads ==
  ASSUME Inv, NEW i \in Thieves,
         UNCHANGED <<mTop, mBottom, mArray, buffer, pc, b, t, x, pushes, refused, taken, wild>>,
         tpc' \in [Thieves -> {"idle", "bottom", "slot", "cas"}],
         tt' \in [Thieves -> 0 .. MaxPushes + 1], tx' \in [Thieves -> Task \cup {none}],
         \A j \in Thieves \ {i} : tpc'[j] = tpc[j] /\ tt'[j] = tt[j] /\ tx'[j] = tx[j],
         ThiefSees(i)'
  PROVE  Inv'
<1> USE DEF Inv
<1>1. claiming' = claiming /\ ownBottom' = ownBottom
  BY DEF claiming, ownBottom
<1>2. written' = written /\ back' = back /\ held' = held /\ pending' = pending
  BY <1>1 DEF written, back, held, pending
<1>3. TypeOK' /\ Paired' /\ Heads'
  BY DEF TypeOK, Paired, Heads
<1>4. Claims' /\ InArray'
  BY <1>1 DEF Claims, InArray
<1>5. OnePlace'
  BY <1>2 DEF OnePlace, Waiting
<1>6. \A j \in Thieves \ {i} : ThiefSees(j)'
  BY <1>2 DEF ThiefSees
<1> QED BY <1>3, <1>4, <1>5, <1>6

\* A thief remembers an mTop, which may be old by the time it is used.
LEMMA StealTopKeeps == ASSUME Inv, NEW i \in Thieves, StealTop(i) PROVE Inv'
<1>1. /\ UNCHANGED <<mTop, mBottom, mArray, buffer, pc, b, t, x, pushes, refused, taken, wild, tx>>
      /\ tt' = [tt EXCEPT ![i] = mTop] /\ tpc' = [tpc EXCEPT ![i] = "bottom"]
  BY DEF StealTop, memory, owner, ghosts
<1>2. /\ tt \in [Thieves -> 0 .. MaxPushes + 1] /\ tx \in [Thieves -> Task \cup {none}]
      /\ tpc \in [Thieves -> {"idle", "bottom", "slot", "cas"}] /\ mTop \in 0 .. MaxPushes + 1
  BY DEF Inv, TypeOK
<1>3. ThiefSees(i)'
  BY <1>1, <1>2, QueueAssumption DEF ThiefSees
<1> QED BY <1>1, <1>2, <1>3, ThiefReads

\* A thief that sees a task in the queue has an mTop below the slots that were written.
LEMMA StealBottomKeeps == ASSUME Inv, NEW i \in Thieves, StealBottom(i) PROVE Inv'
<1>1. /\ UNCHANGED <<mTop, mBottom, mArray, buffer, pc, b, t, x, pushes, refused, taken, wild, tt, tx>>
      /\ tpc' = [tpc EXCEPT ![i] = IF tt[i] < mBottom THEN "slot" ELSE "idle"]
  BY DEF StealBottom, memory, owner, ghosts
<1>2. /\ tt \in [Thieves -> 0 .. MaxPushes + 1] /\ tx \in [Thieves -> Task \cup {none}]
      /\ tpc \in [Thieves -> {"idle", "bottom", "slot", "cas"}] /\ mTop \in 0 .. MaxPushes + 1
      /\ tt[i] =< mTop
  BY DEF Inv, TypeOK, ThiefSees
<1>3. back' = back /\ mBottom =< back /\ mBottom =< WORK_QUEUE_SIZE /\ mBottom \in Nat
  BY <1>1, QueueAssumption DEF back, claiming, Inv, Claims, InArray, TypeOK
<1>4. ThiefSees(i)'
  <2>1. CASE tt[i] < mBottom
    <3>1. tpc'[i] = "slot" /\ tt'[i] = tt[i] /\ tt[i] \in Slots /\ (tt[i] = mTop => mTop < back)
      BY <1>1, <1>2, <1>3, <2>1, QueueAssumption DEF Slots, back, Inv, TypeOK
    <3> QED BY <1>1, <1>2, <1>3, <3>1 DEF ThiefSees
  <2>2. CASE ~(tt[i] < mBottom)
    BY <1>1, <1>2, <2>2 DEF ThiefSees
  <2> QED BY <2>1, <2>2
<1> QED BY <1>1, <1>2, <1>4, ThiefReads

\* A thief whose mTop still stands has read the task at the front.
LEMMA StealSlotKeeps == ASSUME Inv, NEW i \in Thieves, StealSlot(i) PROVE Inv'
<1>1. /\ UNCHANGED <<mTop, mBottom, mArray, buffer, pc, b, t, x, pushes, refused, taken, wild, tt>>
      /\ tx' = [tx EXCEPT ![i] = mArray[tt[i]]] /\ tpc' = [tpc EXCEPT ![i] = "cas"] /\ tpc[i] = "slot"
  BY DEF StealSlot, memory, owner, ghosts
<1>2. /\ tt \in [Thieves -> 0 .. MaxPushes + 1] /\ tx \in [Thieves -> Task \cup {none}]
      /\ tpc \in [Thieves -> {"idle", "bottom", "slot", "cas"}] /\ ThiefSees(i)
      /\ mArray[tt[i]] \in Task \cup {none}
  BY <1>1 DEF Inv, TypeOK, ThiefSees
<1>3. back' = back
  BY <1>1 DEF back, claiming
<1>4. ThiefSees(i)'
  BY <1>1, <1>2, <1>3 DEF ThiefSees
<1> QED BY <1>1, <1>2, <1>4, ThiefReads

\* The compare-exchange succeeds: the thief was given the task at the front.
LEMMA StealWins ==
  ASSUME Inv, NEW i \in Thieves, StealCas(i), mTop = tt[i]
  PROVE  /\ mTop' = mTop + 1 /\ mTop \in held /\ mTop < back /\ back =< written /\ back =< MaxPushes + 1
         /\ Waiting(mArray[mTop]) /\ Return(mArray[mTop]) /\ tpc' = [tpc EXCEPT ![i] = "idle"]
         /\ UNCHANGED <<mBottom, mArray, buffer, pc, b, t, x, tt, tx, pushes, refused, wild>>
<1>1. /\ tpc[i] = "cas" /\ mTop' = tt[i] + 1 /\ Return(tx[i]) /\ tpc' = [tpc EXCEPT ![i] = "idle"]
      /\ UNCHANGED <<mBottom, mArray, buffer, pc, b, t, x, tt, tx, pushes, refused, wild>>
  BY DEF StealCas, owner
<1>2. mTop < back /\ tx[i] = mArray[mTop]
  BY <1>1 DEF Inv, ThiefSees
<1>3. back =< written /\ back =< MaxPushes + 1 /\ back \in Nat /\ written \in Nat /\ mTop \in Nat
  BY QueueAssumption DEF back, written, claiming, Inv, Claims, InArray, TypeOK
<1>4. mTop \in held
  BY <1>2, <1>3 DEF held
<1> QED BY <1>1, <1>2, <1>3, <1>4 DEF Inv, OnePlace

\* A thief is given the task at the front, or nothing.
LEMMA StealCasKeeps == ASSUME Inv, NEW i \in Thieves, StealCas(i) PROVE Inv'
<1> USE DEF Inv
<1>1. CASE mTop # tt[i]
  <2>1. /\ tpc' = [tpc EXCEPT ![i] = "idle"]
        /\ UNCHANGED <<mTop, mBottom, mArray, buffer, pc, b, t, x, tt, tx, pushes, refused, taken, wild>>
    BY <1>1 DEF StealCas, owner
  <2>2. /\ tt \in [Thieves -> 0 .. MaxPushes + 1] /\ tx \in [Thieves -> Task \cup {none}]
        /\ tpc \in [Thieves -> {"idle", "bottom", "slot", "cas"}] /\ tt[i] =< mTop
    BY DEF TypeOK, ThiefSees
  <2>3. ThiefSees(i)'
    BY <2>1, <2>2 DEF ThiefSees
  <2> QED BY <2>1, <2>2, <2>3, ThiefReads
<1>2. CASE mTop = tt[i]
  <2>1. /\ mTop' = mTop + 1 /\ mTop \in held /\ mTop < back /\ back =< written /\ back =< MaxPushes + 1
        /\ Waiting(mArray[mTop]) /\ Return(mArray[mTop]) /\ tpc' = [tpc EXCEPT ![i] = "idle"]
        /\ UNCHANGED <<mBottom, mArray, buffer, pc, b, t, x, tt, tx, pushes, refused, wild>>
    BY <1>2, StealWins
  <2>2. /\ taken' \in [Task -> Nat]
        /\ \A j \in Task : taken'[j] =< 1 /\ (taken'[j] > 0 => j =< pushes)
        /\ \A j : Waiting(j) /\ j # mArray[mTop] => taken'[j] = 0
        /\ pc = "push" => taken'[pushes] = 0
    BY <2>1, ReturnOnce
  <2>3. claiming' = claiming /\ ownBottom' = ownBottom
    BY <2>1 DEF claiming, ownBottom
  <2>4. written' = written /\ back' = back /\ held' = held \ {mTop} /\ pending' = pending
    <3>1. written' = written /\ back' = back /\ pending' = pending
      BY <2>1, <2>3 DEF written, back, pending
    <3>2. mTop \in Nat /\ written \in Nat
      BY QueueAssumption DEF written, TypeOK
    <3> QED BY <2>1, <3>1, <3>2 DEF held
  <2>5. mTop \in 0 .. MaxPushes + 1 /\ MaxPushes \in Nat /\ back \in Nat /\ written \in Nat /\ t \in Nat
    BY QueueAssumption DEF TypeOK, back, written
  <2>6. TypeOK' /\ Paired' /\ Heads'
    BY <2>1, <2>2, <2>5 DEF TypeOK, Paired, Heads
  <2>7. Claims' /\ InArray'
    BY <2>1, <2>3, <2>5 DEF Claims, InArray
  <2>8. OnePlace'
    <3>1. \A s \in held \ {mTop} : Waiting(mArray[s]) /\ mArray[s] # mArray[mTop]
      BY <2>1 DEF OnePlace
    <3>2. \A s \in held' : Waiting(mArray[s])'
      BY <2>1, <2>2, <2>4, <3>1 DEF Waiting
    <3>3. \A j \in pending : Waiting(buffer[j].value) /\ buffer[j].value # mArray[mTop]
      BY <2>1 DEF OnePlace
    <3>4. \A j \in pending' : Waiting(buffer[j].value)'
      BY <2>1, <2>2, <2>4, <3>3 DEF Waiting
    <3>5. /\ \A r, s \in held' : mArray'[r] = mArray'[s] => r = s
          /\ \A j, k \in pending' : buffer'[j].value = buffer'[k].value => j = k
          /\ \A s \in held', j \in pending' : mArray'[s] # buffer'[j].value
      BY <2>1, <2>4 DEF OnePlace
    <3>6. mTop' =< written'
      BY <2>1, <2>4, <2>5
    <3> QED BY <2>1, <2>2, <3>2, <3>4, <3>5, <3>6 DEF OnePlace
  <2>9. \A j \in Thieves : ThiefSees(j)'
    <3> SUFFICES ASSUME NEW j \in Thieves PROVE ThiefSees(j)'
      OBVIOUS
    <3>1. tt[j] \in Nat /\ tt[j] =< mTop /\ tt'[j] = tt[j] /\ (tpc'[j] = "slot" => tpc[j] = "slot")
      BY <2>1, QueueAssumption DEF TypeOK, ThiefSees
    <3> QED BY <2>1, <2>5, <3>1 DEF ThiefSees
  <2> QED BY <2>6, <2>7, <2>8, <2>9
<1> QED BY <1>1, <1>2

-----------------------------------------------------------------------------
(* The theorems *)

\* An empty queue.
LEMMA InitInv == ASSUME Init PROVE Inv
<1> USE QueueAssumption DEF Init
<1>1. TypeOK
  <2>1. buffer \in Seq([slot : Slots \cup {toBottom}, value : 0 .. MaxPushes + 1])
    OBVIOUS
  <2>2. taken \in [Task -> Nat] /\ mArray \in [Slots -> Task \cup {none}] /\ pushes \in 0 .. MaxPushes
    OBVIOUS
  <2>3. /\ tpc \in [Thieves -> {"idle", "bottom", "slot", "cas"}]
        /\ tt \in [Thieves -> 0 .. MaxPushes + 1] /\ tx \in [Thieves -> Task \cup {none}]
    OBVIOUS
  <2>4. /\ mTop \in 0 .. MaxPushes + 1 /\ mBottom \in 0 .. MaxPushes + 1
        /\ b \in 0 .. MaxPushes + 1 /\ t \in 0 .. MaxPushes + 1 /\ x \in Task \cup {none}
    OBVIOUS
  <2>5. refused \subseteq Task /\ wild \in BOOLEAN /\ pc \in {"idle", "push", "pop", "popcas"}
    OBVIOUS
  <2> HIDE DEF Init
  <2> QED BY <2>1, <2>2, <2>3, <2>4, <2>5 DEF TypeOK
<1>2. ~claiming /\ written = 0 /\ held = {} /\ pending = {}
  BY DEF claiming, written, held, pending
<1>3. Paired /\ Heads
  BY DEF Paired, Heads
<1>4. Claims /\ InArray
  BY <1>2 DEF Claims, InArray
<1>5. OnePlace
  BY <1>2 DEF OnePlace
<1>6. \A i \in Thieves : ThiefSees(i)
  BY DEF ThiefSees
<1> QED BY <1>1, <1>3, <1>4, <1>5, <1>6 DEF Inv

\* Every step keeps the bookkeeping.
LEMMA StepInv == ASSUME Inv, [Next]_vars PROVE Inv'
<1>1. CASE PushRead    BY <1>1, PushReadKeeps
<1>2. CASE PopClaim    BY <1>2, PopClaimKeeps
<1>3. CASE PushWrite   BY <1>3, PushWriteKeeps
<1>4. CASE PopRead     BY <1>4, PopReadKeeps
<1>5. CASE PopCas      BY <1>5, PopCasKeeps
<1>6. CASE Flush       BY <1>6, FlushKeeps
<1>7. ASSUME NEW i \in Thieves, StealTop(i) PROVE Inv'
  BY <1>7, StealTopKeeps
<1>8. ASSUME NEW i \in Thieves, StealBottom(i) PROVE Inv'
  BY <1>8, StealBottomKeeps
<1>9. ASSUME NEW i \in Thieves, StealSlot(i) PROVE Inv'
  BY <1>9, StealSlotKeeps
<1>10. ASSUME NEW i \in Thieves, StealCas(i) PROVE Inv'
  BY <1>10, StealCasKeeps
<1>11. CASE UNCHANGED vars
  <2> USE <1>11 DEF vars, memory, owner, thief, ghosts
  <2>1. claiming' = claiming /\ ownBottom' = ownBottom
    BY DEF claiming, ownBottom
  <2>2. written' = written /\ back' = back /\ held' = held /\ pending' = pending
    BY <2>1 DEF written, back, held, pending
  <2>3. TypeOK' /\ Paired' /\ Heads'
    BY DEF Inv, TypeOK, Paired, Heads
  <2>4. Claims' /\ InArray'
    BY <2>1 DEF Inv, Claims, InArray
  <2>5. OnePlace' /\ \A i \in Thieves : ThiefSees(i)'
    BY <2>2 DEF Inv, OnePlace, Waiting, ThiefSees
  <2> QED BY <2>3, <2>4, <2>5 DEF Inv
<1> QED BY <1>1, <1>2, <1>3, <1>4, <1>5, <1>6, <1>7, <1>8, <1>9, <1>10, <1>11 DEF Next

\* Whatever the stores, fences and thieves do, the bookkeeping of the queue holds.
THEOREM QueueInvariant == Spec => []Inv
<1>1. Init => Inv
  BY InitInv
<1>2. Inv /\ [Next]_vars => Inv'
  BY StepInv
<1> QED BY <1>1, <1>2, PTL DEF Spec

\* Every word of the queue keeps its range, the indexes within what was pushed.
THEOREM QueueTypes == Spec => []TypeOK
<1>1. Inv => TypeOK
  BY DEF Inv
<1> QED BY <1>1, QueueInvariant, PTL

\* pop and steal return no task twice, whatever the number of thieves.
THEOREM OnceOnly == Spec => []TakenOnce
<1>1. Inv => TakenOnce
  BY DEF Inv, OnePlace, TakenOnce
<1> QED BY <1>1, QueueInvariant, PTL

-----------------------------------------------------------------------------
(* The deque behind the indexes *)

Row(top, bk, arr) == [i \in 1 .. IF bk =< top THEN 0 ELSE bk - top |-> arr[top + i - 1]]

\* A row of slots is a sequence.
LEMMA RowSeq ==
  ASSUME NEW top \in Nat, NEW bk \in Nat, NEW arr, \A s \in top .. bk - 1 : arr[s] \in Task
  PROVE  /\ Row(top, bk, arr) \in Seq(Task)
         /\ Len(Row(top, bk, arr)) = IF bk =< top THEN 0 ELSE bk - top
         /\ \A i \in 1 .. Len(Row(top, bk, arr)) : Row(top, bk, arr)[i] = arr[top + i - 1]
<1> DEFINE n == IF bk =< top THEN 0 ELSE bk - top
           q == Row(top, bk, arr)
<1>1. n \in Nat /\ \A i \in 1 .. n : top + i - 1 \in top .. bk - 1
  OBVIOUS
<1>2. q = [i \in 1 .. n |-> arr[top + i - 1]]
  BY DEF Row
<1> HIDE DEF n
<1>3. q \in [1 .. n -> Task]
  BY <1>1, <1>2
<1>4. q \in Seq(Task) /\ Len(q) = n
  BY <1>1, <1>3
<1> QED BY <1>2, <1>4 DEF n

\* The row grows at the back, and shrinks at either end.
LEMMA RowGrows ==
  ASSUME NEW top \in Nat, NEW bk \in Nat, NEW arr, top =< bk, \A s \in top .. bk : arr[s] \in Task
  PROVE  Row(top, bk + 1, arr) = Append(Row(top, bk, arr), arr[bk])
<1>1. /\ Row(top, bk, arr) \in Seq(Task) /\ Len(Row(top, bk, arr)) = bk - top
      /\ \A i \in 1 .. bk - top : Row(top, bk, arr)[i] = arr[top + i - 1]
  BY RowSeq
<1>2. /\ Row(top, bk + 1, arr) \in Seq(Task) /\ Len(Row(top, bk + 1, arr)) = bk + 1 - top
      /\ \A i \in 1 .. bk + 1 - top : Row(top, bk + 1, arr)[i] = arr[top + i - 1]
  BY RowSeq
<1>3. arr[bk] \in Task
  OBVIOUS
<1> DEFINE q == Row(top, bk, arr)
           r == Row(top, bk + 1, arr)
           a == Append(q, arr[bk])
<1>4. /\ a \in Seq(Task) /\ Len(a) = bk + 1 - top
      /\ \A i \in 1 .. bk - top : a[i] = q[i]
      /\ a[bk + 1 - top] = arr[bk]
  BY <1>1, <1>3, AppendProperties
<1> HIDE DEF q, r, a
<1>5. ASSUME NEW i \in 1 .. bk + 1 - top PROVE r[i] = a[i]
  <2>1. r[i] = arr[top + i - 1]
    BY <1>2 DEF r
  <2>2. CASE i = bk + 1 - top
    <3>1. top + i - 1 = bk
      BY <2>2
    <3> QED BY <1>4, <2>1, <2>2, <3>1
  <2>3. CASE i # bk + 1 - top
    <3>1. i \in 1 .. bk - top
      BY <2>3
    <3> QED BY <1>1, <1>4, <2>1, <3>1 DEF q
  <2> QED BY <2>2, <2>3
<1>6. r = a
  BY <1>2, <1>4, <1>5, SeqEqual DEF r
<1> QED BY <1>6 DEF q, r, a

\* Taking from an end of a row.
LEMMA RowShrinks ==
  ASSUME NEW top \in Nat, NEW bk \in Nat, NEW arr, top < bk, \A s \in top .. bk - 1 : arr[s] \in Task
  PROVE  /\ Row(top, bk, arr) # <<>>
         /\ Head(Row(top, bk, arr)) = arr[top] /\ Row(top + 1, bk, arr) = Tail(Row(top, bk, arr))
         /\ Row(top, bk, arr)[Len(Row(top, bk, arr))] = arr[bk - 1]
         /\ Row(top, bk - 1, arr) = SubSeq(Row(top, bk, arr), 1, Len(Row(top, bk, arr)) - 1)
<1> DEFINE q == Row(top, bk, arr)
           r == Row(top + 1, bk, arr)
           l == Row(top, bk - 1, arr)
<1>1. /\ q \in Seq(Task) /\ Len(q) = bk - top
      /\ \A i \in 1 .. bk - top : q[i] = arr[top + i - 1]
  BY RowSeq
<1>2. /\ r \in Seq(Task) /\ Len(r) = bk - top - 1
      /\ \A i \in 1 .. bk - top - 1 : r[i] = arr[top + 1 + i - 1]
  BY RowSeq
<1>3. /\ l \in Seq(Task) /\ Len(l) = bk - 1 - top
      /\ \A i \in 1 .. bk - 1 - top : l[i] = arr[top + i - 1]
  <2>1. PICK k \in Nat : k = bk - 1
    OBVIOUS
  <2>2. top =< k /\ \A s \in top .. k - 1 : arr[s] \in Task
    BY <2>1
  <2>3. /\ Row(top, k, arr) \in Seq(Task) /\ Len(Row(top, k, arr)) = k - top
        /\ \A i \in 1 .. k - top : Row(top, k, arr)[i] = arr[top + i - 1]
    BY <2>2, RowSeq
  <2> QED BY <2>1, <2>3
<1> HIDE DEF q, r, l
<1>4. q # <<>> /\ Head(q) = arr[top]
  BY <1>1
<1>5. r = Tail(q)
  <2>1. /\ Tail(q) \in Seq(Task) /\ Len(Tail(q)) = Len(q) - 1
        /\ \A i \in 1 .. Len(q) - 1 : Tail(q)[i] = q[i + 1]
    BY <1>1, <1>4, HeadTailProperties
  <2> QED BY <1>1, <1>2, <2>1, SeqEqual
<1>6. l = SubSeq(q, 1, Len(q) - 1)
  <2>1. /\ SubSeq(q, 1, Len(q) - 1) \in Seq(Task) /\ Len(SubSeq(q, 1, Len(q) - 1)) = Len(q) - 1
        /\ \A i \in 1 .. Len(q) - 1 : SubSeq(q, 1, Len(q) - 1)[i] = q[i]
    BY <1>1
  <2> QED BY <1>1, <1>3, <2>1, SeqEqual
<1> QED BY <1>1, <1>4, <1>5, <1>6 DEF q, r, l

\* What a step that leaves the ends of the queue alone shows of the deque.
LEMMA SameDeque ==
  ASSUME Inv, UNCHANGED <<mTop, taken>>, back' = back \/ (back =< mTop /\ back' =< mTop),
         \A s \in mTop .. back - 1 : mArray'[s] = mArray[s]
  PROVE  UNCHANGED <<items, taken>>
<1> DEFINE len == IF back =< mTop THEN 0 ELSE back - mTop
<1>1. mTop \in Nat /\ back \in Nat
  BY QueueAssumption DEF Inv, TypeOK, back
<1>2. len \in Nat /\ len' = len /\ \A i \in 1 .. len : mTop + i - 1 \in mTop .. back - 1
  BY <1>1
<1>3. items = [i \in 1 .. len |-> mArray[mTop + i - 1]]
  BY DEF items
<1>4. items' = [i \in 1 .. len' |-> mArray'[mTop' + i - 1]]
  BY DEF items
<1> HIDE DEF len
<1> QED BY <1>2, <1>3, <1>4

\* The tasks of the deque are held, and each can be handed out.
LEMMA DequeHeld ==
  ASSUME Inv
  PROVE  /\ mTop \in Nat /\ back \in Nat /\ b \in Nat /\ items = Row(mTop, back, mArray)
         /\ \A s \in mTop .. back - 1 : s \in held
         /\ \A s \in held : mArray[s] \in Task /\ taken[mArray[s]] = 0
<1>1. mTop \in Nat /\ back \in Nat /\ b \in Nat /\ written \in Nat /\ back =< written
  BY QueueAssumption DEF Inv, TypeOK, back, written, claiming, Claims
<1>2. \A s \in mTop .. back - 1 : s \in held
  BY <1>1 DEF held
<1>3. \A k : Waiting(k) => k \in Task /\ taken[k] = 0
  BY QueueAssumption DEF Waiting, Inv, TypeOK, Task
<1> QED BY <1>1, <1>2, <1>3 DEF items, Row, Inv, OnePlace

\* A store that reaches memory is a push of the deque when it is the mBottom of one.
LEMMA FlushDeque == ASSUME Inv, Inv', Flush PROVE [Deque!Next]_<<items, taken>>
<1>0. /\ UNCHANGED <<mTop, pc, b, taken>> /\ ~claiming /\ Len(buffer) \in Nat \ {0} /\ buffer # <<>>
      /\ (buffer' = <<>> <=> Len(buffer) = 1) /\ pc # "popcas"
      /\ \A i \in 1 .. Len(buffer) : buffer[i] \in StoreSet
      /\ IF ToSlot(buffer[1]) THEN mBottom' = mBottom /\ mArray' = [mArray EXCEPT ![buffer[1].slot] = buffer[1].value]
                              ELSE mBottom' = buffer[1].value /\ mArray' = mArray
  BY FlushShape DEF Flush
<1>1. back = mBottom /\ mTop \in Nat /\ mBottom \in Nat
  BY <1>0, QueueAssumption DEF back, Inv, TypeOK
<1>2. CASE ToSlot(buffer[1])
  <2>1. buffer[1].slot = mBottom /\ Len(buffer) > 1
    BY <1>0, <1>2, StoreFields DEF Inv, Heads, Paired
  <2>2. back' = back
    BY <1>0, <1>1, <1>2, <2>1 DEF back, claiming
  <2>3. \A s \in mTop .. back - 1 : mArray'[s] = mArray[s]
    <3>1. mArray' = [mArray EXCEPT ![mBottom] = buffer[1].value] /\ mArray \in [Slots -> Task \cup {none}]
      BY <1>0, <1>2, <2>1 DEF Inv, TypeOK
    <3>2. \A s \in mTop .. back - 1 : s # mBottom /\ s \in Slots
      BY <1>1, QueueAssumption DEF Inv, InArray, Slots
    <3> QED BY <3>1, <3>2
  <2> QED BY <1>0, <2>2, <2>3, SameDeque
<1>3. CASE buffer[1] = Store(toBottom, mBottom + 1) /\ (pc = "pop" => Len(buffer) > 1)
  <2>1. mBottom' = mBottom + 1 /\ mArray' = mArray
    BY <1>0, <1>3, StoreFields
  <2>2. back' = mBottom + 1
    BY <1>0, <1>3, <2>1 DEF back, claiming
  <2>3. CASE mTop =< mBottom
    <3>1. items = Row(mTop, mBottom, mArray) /\ items' = Row(mTop, mBottom + 1, mArray)
      BY <1>0, <1>1, <2>1, <2>2 DEF items, Row
    <3>2. \A s \in mTop .. mBottom : mArray[s] \in Task /\ taken[mArray[s]] = 0
      <4>1. written = mBottom + 1
        BY <1>0, <1>3 DEF written
      <4>2. \A s \in mTop .. mBottom : s \in held
        BY <1>1, <4>1 DEF held
      <4> QED BY <4>2, DequeHeld
    <3>3. items' = Append(items, mArray[mBottom]) /\ mArray[mBottom] \in Task /\ taken[mArray[mBottom]] = 0
      BY <1>1, <2>3, <3>1, <3>2, RowGrows
    <3> QED BY <1>0, <3>3 DEF Deque!Next, Deque!PutBack
  <2>4. CASE mTop > mBottom
    <3>1. mTop =< written /\ written = mBottom + 1
      BY <1>0, <1>3 DEF written, Inv, OnePlace
    <3> QED BY <1>0, <1>1, <2>1, <2>2, <2>4, <3>1, SameDeque
  <2> QED BY <1>1, <2>3, <2>4
<1>4. CASE Len(buffer) = 1 /\ pc = "pop" /\ ~ToSlot(buffer[1])
  <2>1. buffer' = <<>> /\ back' = b + 1 /\ mBottom = b + 1
    BY <1>0, <1>4 DEF Inv, Claims, back, claiming
  <2> QED BY <1>0, <1>1, <1>4, <2>1, SameDeque
<1> QED BY <1>0, <1>2, <1>3, <1>4 DEF Inv, Heads

\* A pop with tasks to spare takes from the back of the deque.
LEMMA PopReadDeque == ASSUME Inv, Inv', PopRead PROVE [Deque!Next]_<<items, taken>>
<1>1. /\ claiming /\ pc = "pop" /\ buffer = <<>> /\ back = b + 1 /\ mTop \in Nat /\ b \in Nat /\ mBottom = b
      /\ b + 1 \in Nat
      /\ UNCHANGED <<mTop, mBottom, mArray, b>>
  BY DequeHeld DEF PopRead, memory, claiming, back, Inv, Claims
<1>2. CASE mTop > b
  <2>1. UNCHANGED taken /\ back' = b
    BY <1>1, <1>2 DEF PopRead, back, claiming
  <2> QED BY <1>1, <1>2, <2>1, SameDeque
<1>3. CASE mTop = b
  <2>1. UNCHANGED taken /\ back' = b + 1
    BY <1>1, <1>3 DEF PopRead, back, claiming
  <2> QED BY <1>1, <2>1, SameDeque
<1>4. CASE mTop < b
  <2>1. Return(mArray[b]) /\ back' = b
    BY <1>1, <1>4 DEF PopRead, back, claiming
  <2>2. \A s \in mTop .. b : mArray[s] \in Task
    BY <1>1, DequeHeld
  <2>3. items = Row(mTop, b + 1, mArray) /\ items' = Row(mTop, b, mArray)
    BY <1>1, <2>1 DEF items, Row
  <2>4. /\ items # <<>> /\ items[Len(items)] = mArray[b] /\ items' = SubSeq(items, 1, Len(items) - 1)
    <3>1. PICK k \in Nat : k = b + 1
      BY <1>1
    <3>2. mTop < k /\ \A s \in mTop .. k - 1 : mArray[s] \in Task
      BY <1>1, <1>4, <2>2, <3>1
    <3>3. /\ Row(mTop, k, mArray) # <<>> /\ Row(mTop, k, mArray)[Len(Row(mTop, k, mArray))] = mArray[k - 1]
          /\ Row(mTop, k - 1, mArray) = SubSeq(Row(mTop, k, mArray), 1, Len(Row(mTop, k, mArray)) - 1)
      BY <1>1, <3>2, RowShrinks
    <3>4. k - 1 = b
      BY <1>1, <3>1
    <3> QED BY <2>3, <3>1, <3>3, <3>4
  <2>5. taken' = [taken EXCEPT ![items[Len(items)]] = @ + 1]
    BY <1>1, <1>4, <2>1, <2>2, <2>4 DEF Return
  <2> QED BY <2>4, <2>5 DEF Deque!Next, Deque!TakeBack, Deque!HandOut
<1> QED BY <1>1, <1>2, <1>3, <1>4

\* Moving mTop by one hands out the task at the front.
LEMMA FrontDeque ==
  ASSUME Inv, mTop < back, mTop' = mTop + 1, Return(mArray[mTop]), mArray' = mArray,
         back' = back \/ (back = mTop + 1 /\ back' = mTop)
  PROVE  Deque!TakeFront
<1>1. /\ mTop \in Nat /\ back \in Nat /\ items = Row(mTop, back, mArray)
      /\ \A s \in mTop .. back - 1 : mArray[s] \in Task
  BY DequeHeld
<1>2. items' = Row(mTop + 1, back, mArray)
  BY <1>1 DEF items, Row
<1>3. items # <<>> /\ Head(items) = mArray[mTop] /\ items' = Tail(items)
  BY <1>1, <1>2, RowShrinks
<1>4. taken' = [taken EXCEPT ![Head(items)] = @ + 1]
  <2>1. mArray[mTop] \in Task
    BY <1>1
  <2> QED BY <1>3, <2>1 DEF Return
<1> QED BY <1>3, <1>4 DEF Deque!TakeFront, Deque!HandOut

\* A pop that wins the last task takes the only one there is.
LEMMA PopCasDeque == ASSUME Inv, Inv', PopCas PROVE [Deque!Next]_<<items, taken>>
<1>1. /\ claiming /\ back = b + 1 /\ mTop \in Nat /\ b \in Nat /\ mBottom = b /\ t = b /\ x = mArray[b] /\ mTop >= t
      /\ mTop =< b + 1 /\ UNCHANGED <<mBottom, mArray, b>> /\ back' = b
  BY DequeHeld DEF PopCas, claiming, back, Inv, Claims, OnePlace, written
<1>2. CASE mTop = t
  BY <1>1, <1>2, FrontDeque DEF PopCas, Deque!Next
<1>3. CASE mTop # t
  BY <1>1, <1>3, SameDeque DEF PopCas
<1> QED BY <1>2, <1>3

\* A steal takes from the front of the deque.
LEMMA StealCasDeque == ASSUME Inv, NEW i \in Thieves, StealCas(i) PROVE [Deque!Next]_<<items, taken>>
<1>1. UNCHANGED <<mBottom, mArray, buffer, pc, b>>
  BY DEF StealCas, owner
<1>2. back' = back
  BY <1>1 DEF back, claiming
<1>3. CASE mTop = tt[i]
  BY <1>1, <1>2, <1>3, StealWins, FrontDeque DEF Deque!Next
<1>4. CASE mTop # tt[i]
  BY <1>1, <1>2, <1>4, SameDeque DEF StealCas
<1> QED BY <1>3, <1>4

\* The queue implements the deque: pushes take effect when mBottom reaches memory,
\* pops and steals when they return, one at a time, each at its end.
THEOREM ImplementsDeque == Spec => KeepsTheDeque
<1>1. Init => Deque!Init
  <2> SUFFICES ASSUME Init PROVE items = <<>> /\ taken = [k \in Task |-> 0]
    BY DEF Deque!Init
  <2>1. Inv /\ back = 0 /\ mTop = 0
    BY InitInv DEF Init, back, claiming
  <2>2. items = Row(0, 0, mArray) /\ Row(0, 0, mArray) = <<>>
    BY <2>1, DequeHeld, RowSeq
  <2> QED BY <2>2 DEF Init
<1>2. Inv /\ Inv' /\ [Next]_vars => [Deque!Next]_<<items, taken>>
  <2> SUFFICES ASSUME Inv, Inv', [Next]_vars PROVE [Deque!Next]_<<items, taken>>
    OBVIOUS
  <2> USE DEF memory, owner, thief, ghosts
  <2>1. ASSUME UNCHANGED <<mTop, mArray, mBottom, taken, pc, b, buffer>>
        PROVE  UNCHANGED <<items, taken>>
    BY <2>1, SameDeque DEF back, claiming
  <2>2. CASE PushRead
    BY <2>2, SameDeque DEF PushRead, back, claiming
  <2>3. CASE PopClaim
    <3>1. CASE GoWild
      BY <2>1, <3>1 DEF GoWild
    <3>2. CASE ~GoWild
      <4>1. /\ UNCHANGED <<mTop, mArray, mBottom, taken>> /\ pc = "idle"
            /\ buffer' = Append(buffer, Store(toBottom, b')) /\ buffer' # <<>>
        BY <2>3, <3>2 DEF PopClaim, Inv, TypeOK
      <4>2. back' = back
        BY <4>1 DEF back, claiming
      <4> QED BY <4>1, <4>2, SameDeque
    <3> QED BY <3>1, <3>2
  <2>4. CASE PushWrite
    <3>1. CASE GoWild
      BY <2>1, <3>1 DEF GoWild
    <3>2. CASE ~GoWild
      <4>1. UNCHANGED <<mTop, mArray, mBottom, taken>> /\ pc = "push" /\ pc' = "idle"
        BY <2>4, <3>2 DEF PushWrite
      <4>2. back' = back
        BY <4>1 DEF back, claiming
      <4> QED BY <4>1, <4>2, SameDeque
    <3> QED BY <3>1, <3>2
  <2>5. CASE PopRead
    BY <2>5, PopReadDeque
  <2>6. CASE PopCas
    BY <2>6, PopCasDeque
  <2>7. CASE Flush
    BY <2>7, FlushDeque
  <2>8. ASSUME NEW i \in Thieves, StealTop(i) \/ StealBottom(i) \/ StealSlot(i)
        PROVE  UNCHANGED <<items, taken>>
    BY <2>1, <2>8 DEF StealTop, StealBottom, StealSlot
  <2>9. ASSUME NEW i \in Thieves, StealCas(i) PROVE [Deque!Next]_<<items, taken>>
    BY <2>9, StealCasDeque
  <2>10. CASE UNCHANGED vars
    BY <2>1, <2>10 DEF vars
  <2> QED BY <2>2, <2>3, <2>4, <2>5, <2>6, <2>7, <2>8, <2>9, <2>10 DEF Next
<1> QED BY <1>1, <1>2, QueueInvariant, PTL DEF Spec, KeepsTheDeque, Deque!Spec

-----------------------------------------------------------------------------
(* No task is lost *)

\* A step that hands out no task and moves none keeps every task.
LEMMA SameKept ==
  ASSUME Kept, UNCHANGED <<pushes, refused>>, pc = "push" => pc' = "push",
         \A k \in Task : taken[k] = 1 => taken'[k] = 1, pushes \in 0 .. MaxPushes, MaxPushes \in Nat,
         \A s \in held : (s \in held' /\ mArray'[s] = mArray[s]) \/ taken'[mArray[s]] = 1,
         \A i \in pending : \/ \E j \in pending' : buffer'[j].value = buffer[i].value
                            \/ \E s \in held' : mArray'[s] = buffer[i].value
  PROVE  Kept'
<1> SUFFICES ASSUME NEW k \in 1 .. pushes, k \notin refused PROVE Somewhere(k)'
  BY DEF Kept
<1>1. CASE taken[k] = 1
  BY <1>1 DEF Somewhere, Task
<1>2. CASE \E s \in held : mArray[s] = k
  BY <1>2 DEF Somewhere
<1>3. CASE \E i \in pending : buffer[i].value = k
  BY <1>3 DEF Somewhere
<1>4. CASE pc = "push" /\ k = pushes
  BY <1>4 DEF Somewhere
<1> QED BY <1>1, <1>2, <1>3, <1>4 DEF Kept, Somewhere

\* What reaches memory is held there.
LEMMA FlushKept == ASSUME Inv, Kept, Flush PROVE Kept'
<1> DEFINE n == Len(buffer)
<1>0. /\ n \in Nat \ {0} /\ Len(buffer') = n - 1 /\ buffer # <<>>
      /\ (buffer' = <<>> <=> n = 1)
      /\ \A i \in 1 .. n - 1 : buffer'[i] = buffer[i + 1]
      /\ \A i \in 1 .. n : buffer[i] \in StoreSet
      /\ ~claiming /\ pc # "popcas"
      /\ IF ToSlot(buffer[1]) THEN mBottom' = mBottom /\ mArray' = [mArray EXCEPT ![buffer[1].slot] = buffer[1].value]
                              ELSE mBottom' = buffer[1].value /\ mArray' = mArray
      /\ UNCHANGED <<mTop, pc, b, pushes, refused, taken>>
  BY FlushShape DEF Flush
<1> HIDE DEF n
<1>1. \A i \in pending \ {1} : i - 1 \in pending' /\ buffer'[i - 1] = buffer[i]
  BY <1>0 DEF pending, n
<1>2. /\ pushes \in 0 .. MaxPushes /\ MaxPushes \in Nat /\ mTop \in Nat /\ mBottom \in Nat /\ mTop =< written
      /\ mArray \in [Slots -> Task \cup {none}]
  BY QueueAssumption DEF Inv, TypeOK, OnePlace
<1>3. CASE ToSlot(buffer[1])
  <2>1. buffer[1].slot = mBottom /\ mBottom \in Slots /\ n > 1 /\ buffer[2] = Store(toBottom, mBottom + 1)
    <3>1. buffer[1].slot = mBottom
      BY <1>0, <1>3, StoreFields DEF Inv, Heads
    <3>2. n > 1 /\ buffer[2] = Store(toBottom, mBottom + 1)
      BY <1>0, <1>3, <3>1 DEF Inv, Paired, n
    <3>3. mBottom \in Slots
      BY <1>0, <1>3, <3>1, StoreFields
    <3> QED BY <3>1, <3>2, <3>3
  <2>2. written = mBottom /\ written' = mBottom + 1
    BY <1>0, <1>3, <2>1, StoreFields DEF written, claiming
  <2>3. /\ \A s \in held : s \in held' /\ mArray'[s] = mArray[s]
        /\ mBottom \in held' /\ mArray'[mBottom] = buffer[1].value
    <3>1. mArray' = [mArray EXCEPT ![mBottom] = buffer[1].value] /\ mTop' = mTop
      BY <1>0, <1>3, <2>1
    <3>2. \A s \in held : s # mBottom /\ s \in Slots /\ s \in held'
      BY <1>2, <2>1, <2>2, <3>1, QueueAssumption DEF held, Slots
    <3>3. mBottom \in held'
      BY <1>2, <2>1, <2>2, <3>1 DEF held
    <3> QED BY <1>2, <2>1, <3>1, <3>2, <3>3
  <2>4. \A i \in pending : \/ \E j \in pending' : buffer'[j].value = buffer[i].value
                           \/ \E s \in held' : mArray'[s] = buffer[i].value
    BY <1>1, <2>3
  <2> QED BY <1>0, <1>2, <2>3, <2>4, SameKept
<1>4. CASE ~ToSlot(buffer[1])
  <2>1. 1 \notin pending
    BY <1>4 DEF pending
  <2>2. written =< written'
    <3>1. CASE buffer[1] = Store(toBottom, mBottom + 1) /\ (pc = "pop" => n > 1)
      <4>1. mBottom' = mBottom + 1 /\ written = mBottom + 1 /\ ~claiming'
        BY <1>0, <3>1, StoreFields DEF written, claiming
      <4> QED BY <1>2, <4>1 DEF written
    <3>2. CASE n = 1 /\ pc = "pop"
      <4>1. buffer[1] = Store(toBottom, b) /\ mBottom = b + 1 /\ b \in Nat
        BY <1>0, <3>2, QueueAssumption DEF n, Inv, Claims, TypeOK
      <4>2. written = b + 1 /\ written' = b + 1
        BY <1>0, <3>2, <4>1, StoreFields DEF written, claiming
      <4> QED BY <4>1, <4>2
    <3> QED BY <1>0, <1>4, <3>1, <3>2 DEF Inv, Heads, n
  <2>3. \A s \in held : s \in held' /\ mArray'[s] = mArray[s]
    <3>1. written \in Nat /\ written' \in Nat
      <4>1. mBottom' \in Nat /\ b \in Nat /\ b' = b
        <5>1. buffer[1] \in StoreSet /\ mBottom' = buffer[1].value
          BY <1>0, <1>4
        <5>2. buffer[1].value \in Nat
          BY <5>1, StoreFields
        <5>3. b \in Nat
          BY QueueAssumption DEF Inv, TypeOK
        <5> QED BY <1>0, <5>1, <5>2, <5>3
      <4>2. written \in Nat
        BY <1>2, <4>1 DEF written
      <4>3. written' = b' + 1 \/ written' = mBottom' + 1 \/ written' = mBottom'
        BY DEF written
      <4>4. written' \in Nat
        BY <4>1, <4>3
      <4> QED BY <4>2, <4>4
    <3> QED BY <1>0, <1>2, <1>4, <2>2, <3>1 DEF held
  <2> QED BY <1>0, <1>1, <1>2, <2>1, <2>3, SameKept
<1> QED BY <1>3, <1>4

\* A push has its task pending, and a claim drops none.
LEMMA OwnerKept == ASSUME Inv, Inv', Kept, PushRead \/ PushWrite \/ PopClaim PROVE Kept'
<1> USE DEF memory, owner, thief, ghosts
<1>0. /\ Len(buffer) \in Nat /\ \A i \in 1 .. Len(buffer) : buffer[i] \in StoreSet
      /\ buffer \in Seq(StoreSet) /\ pushes \in 0 .. MaxPushes /\ MaxPushes \in Nat
  BY OwnBottom, QueueAssumption DEF Inv, TypeOK, StoreSet
<1>1. CASE GoWild
  <2>1. held' = held /\ pending' = pending
    BY <1>1 DEF GoWild, held, pending, written, claiming
  <2> QED BY <1>0, <1>1, <2>1, SameKept DEF GoWild
<1>2. CASE PushRead
  <2>1. held' = held /\ pending' = pending
    BY <1>2 DEF PushRead, held, pending, written, claiming
  <2>2. /\ UNCHANGED <<taken, mArray, buffer>> /\ pushes' = pushes + 1 /\ pc = "idle"
        /\ (pc' = "push" /\ refused' = refused) \/ refused' = refused \cup {pushes + 1}
    BY <1>2 DEF PushRead
  <2>3. \A k : Somewhere(k) => Somewhere(k)'
    BY <2>1, <2>2 DEF Somewhere
  <2>4. \A k : k = pushes + 1 => k \in refused' \/ Somewhere(k)'
    BY <2>2 DEF Somewhere
  <2>5. \A k \in 1 .. pushes' : k \in 1 .. pushes \/ k = pushes + 1
    BY <1>0, <2>2
  <2> QED BY <2>2, <2>3, <2>4, <2>5 DEF Kept
<1>3. CASE PopClaim /\ ~GoWild
  <2>1. /\ UNCHANGED <<mTop, mBottom, mArray, taken, pushes, refused>> /\ pc = "idle" /\ pc' = "pop"
        /\ buffer' = Append(buffer, Store(toBottom, b')) /\ ownBottom > 0 /\ b' = ownBottom - 1
    BY <1>3 DEF PopClaim
  <2>2. Store(toBottom, b') \in StoreSet
    <3>1. b' \in 0 .. MaxPushes + 1
      BY DEF Inv, TypeOK
    <3> QED BY <3>1 DEF Store, StoreSet
  <2>3. \A i \in 1 .. Len(buffer) : i \in 1 .. Len(buffer') /\ buffer'[i] = buffer[i]
    BY <1>0, <2>1, <2>2, AppendProperties
  <2>4. \A i \in pending : i \in pending' /\ buffer'[i] = buffer[i]
    BY <2>3 DEF pending
  <2>5. written' = written
    <3>1. ~claiming /\ buffer' # <<>> /\ ~claiming'
      BY <1>0, <2>1, <2>2, AppendProperties DEF claiming
    <3>2. CASE buffer # <<>>
      <4>1. buffer'[1] = buffer[1]
        BY <1>0, <2>3, <3>2, OwnBottom DEF Inv
      <4> QED BY <2>1, <3>1, <3>2, <4>1 DEF written
    <3>3. CASE buffer = <<>>
      <4>1. ownBottom = mBottom /\ buffer'[1] = Store(toBottom, mBottom - 1) /\ mBottom \in Nat
        BY <1>0, <2>1, <2>2, <3>3, OwnBottom, AppendProperties, QueueAssumption DEF Inv, TypeOK
      <4>2. Store(toBottom, mBottom - 1) # Store(toBottom, mBottom + 1)
        BY <4>1, StoreFields
      <4> QED BY <2>1, <3>1, <3>3, <4>1, <4>2 DEF written
    <3> QED BY <3>2, <3>3
  <2>6. held' = held
    BY <2>1, <2>5 DEF held
  <2> QED BY <1>0, <2>1, <2>4, <2>6, SameKept
<1>4. CASE PushWrite /\ ~GoWild
  <2> DEFINE e == Store(b, pushes)
             f == Store(toBottom, b + 1)
  <2>1. /\ UNCHANGED <<mTop, mBottom, mArray, taken, pushes, refused, b>> /\ pc = "push" /\ pc' = "idle"
        /\ buffer' = buffer \o <<e, f>> /\ b \in Slots /\ b < pushes /\ b \in Nat
    BY <1>4, StoreFields DEF PushWrite, Inv, Claims
  <2>2. e \in StoreSet /\ f \in StoreSet /\ ToSlot(e) /\ e.value = pushes
    <3>1. pushes \in 0 .. MaxPushes + 1 /\ b + 1 \in 0 .. MaxPushes + 1
      BY <1>0, <2>1
    <3> QED BY <2>1, <3>1, StoreFields DEF Store, StoreSet
  <2> HIDE DEF e, f
  <2>3. /\ Len(buffer') = Len(buffer) + 2 /\ buffer'[Len(buffer) + 1] = e
        /\ \A i \in 1 .. Len(buffer) : buffer'[i] = buffer[i]
    <3>1. <<e, f>> \in Seq(StoreSet) /\ Len(<<e, f>>) = 2 /\ <<e, f>>[1] = e
      BY <2>2
    <3>2. /\ Len(buffer') = Len(buffer) + 2
          /\ \A i \in 1 .. Len(buffer) + 2 : buffer'[i] = IF i =< Len(buffer) THEN buffer[i] ELSE <<e, f>>[i - Len(buffer)]
      BY <1>0, <2>1, <3>1, ConcatProperties
    <3> QED BY <1>0, <3>1, <3>2
  <2>4. /\ \A i \in pending : i \in pending' /\ buffer'[i] = buffer[i]
        /\ Len(buffer) + 1 \in pending' /\ buffer'[Len(buffer) + 1].value = pushes
    BY <1>0, <2>2, <2>3 DEF pending
  <2>5. written' = written
    <3>1. ~claiming /\ buffer' # <<>> /\ ~claiming'
      BY <1>0, <2>1, <2>3 DEF claiming
    <3>2. CASE buffer # <<>>
      <4>1. buffer'[1] = buffer[1]
        BY <1>0, <2>3, <3>2, OwnBottom DEF Inv
      <4> QED BY <2>1, <3>1, <3>2, <4>1 DEF written
    <3>3. CASE buffer = <<>>
      <4>1. buffer'[1] = e
        BY <2>3, <3>3
      <4>2. e # Store(toBottom, mBottom + 1)
        BY <2>2, StoreFields
      <4> QED BY <2>1, <3>1, <3>3, <4>1, <4>2 DEF written
    <3> QED BY <3>2, <3>3
  <2>6. held' = held
    BY <2>1, <2>5 DEF held
  <2>7. \A k : Somewhere(k) => Somewhere(k)'
    BY <2>1, <2>4, <2>6 DEF Somewhere
  <2> QED BY <2>1, <2>7 DEF Kept
<1> QED BY <1>1, <1>2, <1>3, <1>4

\* A pop returns the task it claimed, or puts mBottom back above it.
LEMMA PopKept == ASSUME Inv, Kept, PopRead \/ PopCas PROVE Kept'
<1> USE DEF memory, owner, thief, ghosts
<1>0. /\ pushes \in 0 .. MaxPushes /\ MaxPushes \in Nat /\ b \in Nat /\ mTop \in Nat
      /\ UNCHANGED <<mArray, b, mBottom, pushes, refused>> /\ claiming /\ pc # "push" /\ buffer = <<>>
      /\ pending = {} /\ written = b + 1 /\ mTop =< b + 1 /\ mBottom = b
      /\ held = mTop .. b /\ taken \in [Task -> Nat]
  BY QueueAssumption DEF Inv, TypeOK, PopRead, PopCas, claiming, pending, written, OnePlace, held, Claims
<1>1. CASE mTop > b
  <2>1. held = {} /\ UNCHANGED taken
    BY <1>0, <1>1 DEF PopRead, PopCas, Inv, Claims
  <2> QED BY <1>0, <2>1, SameKept
<1>2. CASE mTop = b /\ PopRead
  <2>1. UNCHANGED <<mTop, taken, buffer>> /\ pc' = "popcas"
    BY <1>0, <1>2 DEF PopRead
  <2>2. held' = held
    BY <1>0, <2>1 DEF held, written, claiming
  <2> QED BY <1>0, <2>1, <2>2, SameKept
<1>3. CASE mTop < b \/ (mTop = b /\ PopCas)
  <2>1. b \in held /\ Return(mArray[b])
    BY <1>0, <1>3 DEF PopRead, PopCas, Inv, Claims
  <2>2. Waiting(mArray[b]) /\ OnePlace /\ TypeOK
    BY <2>1 DEF Inv, OnePlace
  <2>3. mArray[b] \in Task /\ taken' = [taken EXCEPT ![mArray[b]] = 1]
    BY <2>1, <2>2, ReturnOnce
  <2>4. \A s \in held : s \in held' \/ s = b
    <3>1. CASE mTop = b
      BY <1>0, <3>1
    <3>2. CASE mTop < b
      <4>1. mTop' = mTop /\ ~claiming' /\ buffer' = <<>>
        BY <1>0, <3>2 DEF PopRead, PopCas, Inv, Claims, claiming
      <4>2. written' = b
        BY <1>0, <4>1 DEF written
      <4> QED BY <1>0, <4>1, <4>2 DEF held
    <3> QED BY <1>3, <3>1, <3>2
  <2> QED BY <1>0, <2>3, <2>4, SameKept
<1> QED BY <1>0, <1>1, <1>2, <1>3

\* A steal returns the task that mTop passes.
LEMMA StealCasKept == ASSUME Inv, Kept, NEW i \in Thieves, StealCas(i) PROVE Kept'
<1>0. /\ UNCHANGED <<mBottom, mArray, buffer, pc, b, pushes, refused>> /\ pushes \in 0 .. MaxPushes
      /\ MaxPushes \in Nat
  BY QueueAssumption DEF StealCas, owner, Inv, TypeOK
<1>1. pending' = pending /\ written' = written
  BY <1>0 DEF pending, written, claiming
<1>2. CASE mTop # tt[i]
  <2>1. UNCHANGED <<mTop, taken>>
    BY <1>2 DEF StealCas
  <2> QED BY <1>0, <1>1, <2>1, SameKept DEF held
<1>3. CASE mTop = tt[i]
  <2>1. mTop' = mTop + 1 /\ mTop \in held /\ Waiting(mArray[mTop]) /\ Return(mArray[mTop])
    BY <1>3, StealWins
  <2>2. mArray[mTop] \in Task /\ taken' = [taken EXCEPT ![mArray[mTop]] = 1] /\ taken \in [Task -> Nat]
    BY <2>1, ReturnOnce DEF Inv, TypeOK
  <2>3. \A s \in held : s \in held' \/ s = mTop
    <3>1. mTop \in Nat /\ written \in Nat
      BY QueueAssumption DEF Inv, TypeOK, written
    <3> QED BY <1>1, <2>1, <3>1 DEF held
  <2> QED BY <1>0, <1>1, <2>2, <2>3, SameKept
<1> QED BY <1>2, <1>3

\* A task that push accepted is, in every state, in one of the places of the queue
\* or returned: no interleaving of pops, steals and stores drops it.
THEOREM NoTaskLost == Spec => []Kept
<1>1. Init => Kept
  BY DEF Init, Kept
<1>2. Inv /\ Inv' /\ Kept /\ [Next]_vars => Kept'
  <2> SUFFICES ASSUME Inv, Inv', Kept, [Next]_vars PROVE Kept'
    OBVIOUS
  <2> USE DEF memory, owner, thief, ghosts
  <2>1. ASSUME UNCHANGED <<mTop, mArray, mBottom, taken, pc, b, buffer, pushes, refused>>
        PROVE  Kept'
    <3>1. held' = held /\ pending' = pending
      BY <2>1 DEF held, pending, written, claiming
    <3> QED BY <2>1, <3>1 DEF Kept, Somewhere
  <2>2. CASE PushRead \/ PushWrite \/ PopClaim
    BY <2>2, OwnerKept
  <2>3. CASE PopRead \/ PopCas
    BY <2>3, PopKept
  <2>4. CASE Flush
    BY <2>4, FlushKept
  <2>5. ASSUME NEW i \in Thieves, StealTop(i) \/ StealBottom(i) \/ StealSlot(i) PROVE Kept'
    BY <2>1, <2>5 DEF StealTop, StealBottom, StealSlot
  <2>6. ASSUME NEW i \in Thieves, StealCas(i) PROVE Kept'
    BY <2>6, StealCasKept
  <2>7. CASE UNCHANGED vars
    BY <2>1, <2>7 DEF vars
  <2> QED BY <2>2, <2>3, <2>4, <2>5, <2>6, <2>7 DEF Next
<1> QED BY <1>1, <1>2, QueueInvariant, PTL DEF Spec
=============================================================================
