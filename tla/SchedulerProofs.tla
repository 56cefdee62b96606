---------------------------- MODULE SchedulerProofs ----------------------------
(***************************************************************************)
(* Theorems about Scheduler, for every number of threads and of tasks and  *)
(* every load: no race in the global queue makes a task disappear, and     *)
(* with two generations of tasks a kernel runs after those of its          *)
(* children, and a node goes back to the pool once, when all is done.      *)
(***************************************************************************)
EXTENDS Scheduler, SequenceTheorems, FiniteSetTheorems, FunctionTheorems, WellFoundedInduction, TLAPS

Finishing == {"finish", "parent", "return"}
Places  == {"wait", "asleep", "look", "pop", "take", "clear", "steal", "push", "open"} \cup Finishing
Reasons == {"no", "fault", "undefined", "unwritten", "twice", "corrupt", "wild"}
Frame   == [task : Task, open : 0 .. CountLimit - 1]

Typed ==
  /\ \A k \in Task : mParent[k] \in 0 .. k - 1
  /\ mOpenTasks \in [Task -> 0 .. CountLimit - 1]
  /\ mLocalWorkQueue \in [Threads -> Seq(Task)]
  /\ mBottom \in Nat /\ waiting \subseteq Task /\ mBottom + Cardinality(waiting) =< NumTasks
  /\ mTop \in 0 .. mBottom
  /\ mArray \in [0 .. NumTasks -> Task \cup {nullptr}]
  /\ mMutex \in Threads \cup {nobody} /\ pc \in [Threads -> Places]
  /\ t \in [Threads -> 0 .. NumTasks] /\ x \in [Threads -> Task \cup {nullptr}]
  /\ running \in [Threads -> Seq(Task)] /\ finishing \in [Threads -> Seq(Frame)]
  /\ ran \in [Task -> Nat] /\ ended \subseteq Task /\ returned \in [Task -> Nat]
  /\ halt \in Reasons

\* The innermost task of the thread has ended; what is left is to tell its parent.
Past(i) == pc[i] \in {"parent", "return"} \/ (pc[i] = "finish" /\ Len(finishing[i]) > 1)

\* The calls of finishTask began with the innermost task, which has ended since.
StackOf(i) ==
  /\ pc[i] \in Finishing <=> finishing[i] # <<>>
  /\ pc[i] \in Finishing \cup {"open"} => running[i] # <<>>
  /\ finishing[i] # <<>> => finishing[i][Len(finishing[i])].task = running[i][1]
  /\ Past(i) => running[i][1] \in ended

Stacks == \A i \in Threads : StackOf(i)

\* What pop and push remember of the global queue; the slot push is about to write.
Slots ==
  /\ \A i \in Threads : pc[i] \in {"take", "clear"} => t[i] < mBottom
  /\ \A i \in Threads : x[i] # nullptr => pc[i] \in {"push", "clear"}
  /\ \A i \in Threads : pc[i] = "push" =>
        /\ i = client /\ t[i] = mBottom - 1 /\ mTop =< t[i] /\ mArray[t[i]] = nullptr
        /\ \A j \in Threads : pc[j] = "clear" => t[j] < t[i]
  /\ \A n \in mBottom .. NumTasks : mArray[n] = nullptr

InQueue(i) == {mLocalWorkQueue[i][n] : n \in DOMAIN mLocalWorkQueue[i]}

\* The task has been popped; its slot may be passed over.
Safe(k) == Taken(k) \/ \E i \in Threads : pc[i] = "clear" /\ x[i] = k
Done(n) == mArray[n] = nullptr \/ Safe(mArray[n])

\* A thread that stores mTop passes over slots whose tasks have been popped, however old
\* the mTop it has read; so does the one that clears its slot.
Passed ==
  /\ \A n \in 0 .. NumTasks : n < mTop => Done(n)
  /\ \A i \in Threads, n \in 0 .. NumTasks :
        (pc[i] = "take" /\ n < t[i]) \/ (pc[i] = "clear" /\ n = t[i]) => Done(n)

Kept ==
  \A k \in Task :
    \/ k \in waiting \/ Safe(k)
    \/ \E i \in Threads : k \in InQueue(i) \/ (pc[i] = "push" /\ x[i] = k)
    \/ \E n \in mTop .. mBottom - 1 : mArray[n] = k

\* The inductive invariant.
Inv == Typed /\ (halt = "no" => Stacks /\ Slots /\ Passed /\ Kept)

-----------------------------------------------------------------------------
(* Stacks of calls *)

\* A call on top of a stack.
LEMMA OnTop ==
  ASSUME NEW S, NEW e \in S, NEW s \in Seq(S), NEW r, r = <<e>> \o s
  PROVE  /\ r \in Seq(S) /\ r # <<>> /\ Len(r) = Len(s) + 1 /\ DOMAIN r = 1 .. Len(s) + 1
         /\ r[1] = e /\ \A n \in 1 .. Len(s) : r[n + 1] = s[n]
<1>1. <<e>> \in Seq(S) /\ Len(<<e>>) = 1 /\ <<e>>[1] = e
  OBVIOUS
<1>2. r \in Seq(S) /\ Len(r) = Len(s) + 1
  BY <1>1, ConcatProperties
<1>3. \A n \in 1 .. Len(r) : r[n] = IF n =< 1 THEN <<e>>[n] ELSE s[n - 1]
  BY <1>1, <1>2, ConcatProperties
<1>4. Len(s) \in Nat
  OBVIOUS
<1> QED BY <1>1, <1>2, <1>3, <1>4

\* A call on top of a stack is a stack.
LEMMA PutOnTop == ASSUME NEW S, NEW e \in S, NEW s \in Seq(S) PROVE <<e>> \o s \in Seq(S)
BY ConcatProperties

\* The stack without the innermost call.
LEMMA Below ==
  ASSUME NEW S, NEW s \in Seq(S), s # <<>>
  PROVE  /\ Tail(s) \in Seq(S) /\ Len(s) \in Nat \ {0} /\ Len(Tail(s)) = Len(s) - 1
         /\ DOMAIN s = 1 .. Len(s) /\ DOMAIN Tail(s) = 1 .. Len(s) - 1
         /\ \A n \in 1 .. Len(s) - 1 : Tail(s)[n] = s[n + 1]
         /\ Head(s) = s[1] /\ s[1] \in S /\ s[Len(s)] \in S
         /\ (Tail(s) = <<>>) = (Len(s) = 1)
<1>1. Len(s) \in Nat \ {0} /\ DOMAIN s = 1 .. Len(s) /\ Head(s) = s[1] /\ s[1] \in S /\ s[Len(s)] \in S
  OBVIOUS
<1>2. Tail(s) \in Seq(S) /\ Len(Tail(s)) = Len(s) - 1
  BY HeadTailProperties
<1>3. \A n \in 1 .. Len(s) - 1 : Tail(s)[n] = s[n + 1]
  BY HeadTailProperties
<1>4. DOMAIN Tail(s) = 1 .. Len(s) - 1
  BY <1>2
<1>5. (Tail(s) = <<>>) = (Len(s) = 1)
  BY <1>1, <1>2, EmptySeq
<1> QED BY <1>1, <1>2, <1>3, <1>4, <1>5

\* A queue without its newest task.
LEMMA Front ==
  ASSUME NEW S, NEW s \in Seq(S), s # <<>>, NEW r, r = SubSeq(s, 1, Len(s) - 1)
  PROVE  /\ r \in Seq(S) /\ DOMAIN r = 1 .. Len(s) - 1
         /\ \A n \in 1 .. Len(s) - 1 : r[n] = s[n]
         /\ s[Len(s)] \in S /\ DOMAIN s = 1 .. Len(s) /\ Len(s) \in Nat \ {0}
OBVIOUS

\* A thread turns to a task.
LEMMA Turns ==
  ASSUME Typed, NEW i \in Threads, NEW k \in Task,
         running' = [running EXCEPT ![i] = <<k>> \o @]
  PROVE  /\ running' \in [Threads -> Seq(Task)]
         /\ running'[i] # <<>> /\ running'[i][1] = k
         /\ DOMAIN running'[i] = 1 .. Len(running[i]) + 1
         /\ \A n \in 1 .. Len(running[i]) : running'[i][n + 1] = running[i][n]
         /\ \A j \in Threads \ {i} : running'[j] = running[j]
         /\ InCalls(i)' = InCalls(i) \cup {k}
<1>1. running \in [Threads -> Seq(Task)]
  BY DEF Typed
<1>2. running'[i] = <<k>> \o running[i] /\ \A j \in Threads \ {i} : running'[j] = running[j]
  BY <1>1
<1>3. /\ running'[i] \in Seq(Task) /\ running'[i] # <<>> /\ running'[i][1] = k
      /\ DOMAIN running'[i] = 1 .. Len(running[i]) + 1
      /\ \A n \in 1 .. Len(running[i]) : running'[i][n + 1] = running[i][n]
  BY <1>1, <1>2, OnTop
<1>4. running' \in [Threads -> Seq(Task)]
  BY <1>1, <1>3
<1>5. InCalls(i)' = InCalls(i) \cup {k}
  <2>1. Len(running[i]) \in Nat /\ DOMAIN running[i] = 1 .. Len(running[i])
    BY <1>1
  <2>2. ASSUME NEW n \in DOMAIN running'[i] PROVE running'[i][n] \in InCalls(i) \cup {k}
    <3>1. CASE n = 1
      BY <3>1, <1>3
    <3>2. CASE n # 1
      <4>1. n - 1 \in 1 .. Len(running[i]) /\ running'[i][(n - 1) + 1] = running[i][n - 1]
        BY <3>2, <1>3, <2>1
      <4> QED BY <4>1, <2>1 DEF InCalls
    <3> QED BY <3>1, <3>2
  <2>3. ASSUME NEW n \in DOMAIN running[i] PROVE running[i][n] \in InCalls(i)'
    <3>1. n + 1 \in DOMAIN running'[i] /\ running'[i][n + 1] = running[i][n]
      BY <1>3, <2>1
    <3> QED BY <3>1 DEF InCalls
  <2>4. k \in InCalls(i)'
    <3>1. 1 \in DOMAIN running'[i]
      BY <1>3, <2>1
    <3> QED BY <3>1, <1>3 DEF InCalls
  <2> QED BY <2>2, <2>3, <2>4 DEF InCalls
<1> QED BY <1>2, <1>3, <1>4, <1>5

\* A thread is through with its innermost task.
LEMMA Leaves ==
  ASSUME Typed, NEW i \in Threads, running[i] # <<>>,
         running' = [running EXCEPT ![i] = Tail(@)]
  PROVE  /\ running' \in [Threads -> Seq(Task)]
         /\ running'[i] = Tail(running[i])
         /\ DOMAIN running'[i] = 1 .. Len(running[i]) - 1
         /\ DOMAIN running[i] = 1 .. Len(running[i]) /\ Len(running[i]) \in Nat \ {0}
         /\ \A n \in 1 .. Len(running[i]) - 1 : running'[i][n] = running[i][n + 1]
         /\ \A j \in Threads \ {i} : running'[j] = running[j]
         /\ InCalls(i) = InCalls(i)' \cup {running[i][1]}
<1>1. running \in [Threads -> Seq(Task)]
  BY DEF Typed
<1>2. running'[i] = Tail(running[i]) /\ \A j \in Threads \ {i} : running'[j] = running[j]
  BY <1>1
<1>3. /\ running'[i] \in Seq(Task) /\ DOMAIN running'[i] = 1 .. Len(running[i]) - 1
      /\ DOMAIN running[i] = 1 .. Len(running[i]) /\ Len(running[i]) \in Nat \ {0}
      /\ \A n \in 1 .. Len(running[i]) - 1 : running'[i][n] = running[i][n + 1]
  BY <1>1, <1>2, Below
<1>4. running' \in [Threads -> Seq(Task)]
  BY <1>1, <1>3
<1>5. InCalls(i) = InCalls(i)' \cup {running[i][1]}
  <2>1. ASSUME NEW n \in DOMAIN running[i] PROVE running[i][n] \in InCalls(i)' \cup {running[i][1]}
    <3>1. CASE n = 1
      BY <3>1
    <3>2. CASE n # 1
      <4>1. n - 1 \in 1 .. Len(running[i]) - 1 /\ running'[i][n - 1] = running[i][(n - 1) + 1]
        BY <3>2, <1>3
      <4> QED BY <4>1, <1>3 DEF InCalls
    <3> QED BY <3>1, <3>2
  <2>2. ASSUME NEW n \in DOMAIN running'[i] PROVE running'[i][n] \in InCalls(i)
    <3>1. n + 1 \in DOMAIN running[i] /\ running'[i][n] = running[i][n + 1]
      BY <1>3
    <3> QED BY <3>1 DEF InCalls
  <2>3. running[i][1] \in InCalls(i)
    BY <1>3 DEF InCalls
  <2> QED BY <2>1, <2>2, <2>3 DEF InCalls
<1> QED BY <1>2, <1>3, <1>4, <1>5

-----------------------------------------------------------------------------
(* Types *)

\* A thread goes on somewhere.
LEMMA Going ==
  ASSUME Typed, NEW i \in Threads, NEW where \in Places, Goes(i, where)
  PROVE  pc' \in [Threads -> Places] /\ pc'[i] = where /\ \A j \in Threads \ {i} : pc'[j] = pc[j]
BY DEF Typed, Goes

\* A parent that is not null is a task.
LEMMA ParentIsTask ==
  ASSUME Typed, NEW k \in Task, mParent[k] # nullptr
  PROVE  mParent[k] \in Task
<1>1. mParent[k] \in 0 .. k - 1
  BY DEF Typed
<1>2. k \in Nat /\ k =< NumTasks /\ NumTasks \in Nat
  BY LoadAssumption DEF Task
<1>3. mParent[k] # 0
  BY DEF nullptr
<1> HIDE DEF Typed
<1> QED BY <1>1, <1>2, <1>3 DEF Task

\* The global queue, the client pushing.
LEMMA PushTyped ==
  ASSUME Typed, NEW k \in waiting, Push(k)
  PROVE  Typed'
<1> USE DEF Push
<1>1. client \in Threads /\ nullptr \notin Task
  BY LoadAssumption DEF Threads, client, Task, nullptr
<1>2. pc' \in [Threads -> Places]
  BY <1>1, Going DEF Places
<1>3. IsFiniteSet(waiting) /\ k \in waiting /\ k \in Task
  <2>1. IsFiniteSet(Task)
    BY LoadAssumption, FS_Interval DEF Task
  <2> QED BY <2>1, FS_Subset DEF Typed
<1>4. Cardinality(waiting') = Cardinality(waiting) - 1 /\ Cardinality(waiting) \in Nat
  BY <1>3, FS_RemoveElement, FS_CardinalityType
<1>5. mBottom' \in Nat /\ mBottom' + Cardinality(waiting') =< NumTasks /\ mTop' \in 0 .. mBottom'
  BY <1>4, LoadAssumption DEF Typed
<1>6. Cardinality(waiting') \in Nat
  BY <1>3, FS_RemoveElement, FS_CardinalityType
<1>7. mBottom \in 0 .. NumTasks
  BY <1>5, <1>6, LoadAssumption DEF Typed
<1>8. t' \in [Threads -> 0 .. NumTasks] /\ x' \in [Threads -> Task \cup {nullptr}]
  BY <1>7, <1>3 DEF Typed
<1> QED BY <1>2, <1>5, <1>8 DEF Typed, tasks, ghosts

\* The global queue: no index leaves the array, since mTop stays below an mBottom.
LEMMA GlobalTyped ==
  ASSUME Typed, Slots, NEW i \in Threads,
         (i = client /\ PushStore) \/ PopEmpty(i) \/ PopTest(i) \/ PopTake(i) \/ PopClear(i)
  PROVE  Typed'
<1>0. 0 .. NumTasks \subseteq Nat /\ mBottom =< NumTasks
  <2>1. IsFiniteSet(Task)
    BY LoadAssumption, FS_Interval DEF Task
  <2>2. Cardinality(waiting) \in Nat
    BY <2>1, FS_Subset, FS_CardinalityType DEF Typed
  <2> QED BY <2>2, LoadAssumption DEF Typed
<1>1. CASE i = client /\ PushStore
  <2>1. pc' \in [Threads -> Places]
    BY <1>1, Going DEF PushStore, Places
  <2>2. mArray' \in [0 .. NumTasks -> Task \cup {nullptr}] /\ x' \in [Threads -> Task \cup {nullptr}]
    BY <1>1 DEF PushStore, Typed
  <2> QED BY <1>1, <2>1, <2>2 DEF PushStore, Typed, tasks, ghosts
<1>2. CASE PopEmpty(i)
  <2>1. pc' \in [Threads -> Places]
    BY <1>2, Going DEF PopEmpty, Empty, Places, Typed
  <2>2. mMutex' = mMutex /\ halt' \in Reasons
    BY <1>2 DEF PopEmpty, Empty, Typed, Halts, Reasons
  <2> QED BY <1>2, <2>1, <2>2 DEF PopEmpty, Typed, tasks, global, calls, ghosts
<1>3. CASE PopTest(i)
  <2>1. pc' \in [Threads -> Places]
    BY <1>3, Going DEF PopTest, Places
  <2>2. t' \in [Threads -> 0 .. NumTasks]
    BY <1>3, <1>0, LoadAssumption DEF PopTest, Typed
  <2> QED BY <1>3, <2>1, <2>2 DEF PopTest, Typed, tasks, global, ghosts
<1>4. CASE PopTake(i)
  <2>1. pc' \in [Threads -> Places]
    BY <1>4, Going DEF PopTake, Places
  <2>2. x' \in [Threads -> Task \cup {nullptr}]
    BY <1>4 DEF PopTake, Typed
  <2>3. mTop' \in 0 .. mBottom
    BY <1>4, <1>0 DEF PopTake, Typed, Slots
  <2>4. halt' \in Reasons
    BY <1>4 DEF PopTake, Typed, Halts, Reasons
  <2> QED BY <1>4, <2>1, <2>2, <2>3, <2>4 DEF PopTake, Typed, tasks, ghosts
<1>5. CASE PopClear(i)
  <2>1. mArray' \in [0 .. NumTasks -> Task \cup {nullptr}] /\ x' \in [Threads -> Task \cup {nullptr}]
    BY <1>5 DEF PopClear, Typed
  <2>2. pc' \in [Threads -> Places] /\ mMutex' \in Threads \cup {nobody}
        /\ running' \in [Threads -> Seq(Task)] /\ halt' \in Reasons
    <3>1. CASE x[i] # nullptr /\ RunTask(i, x[i])
               /\ mMutex' = (IF mMutex = i THEN nobody ELSE mMutex)
               /\ IF Taken(x[i]) THEN Halts("twice") ELSE UNCHANGED halt
      <4>1. pc' \in [Threads -> Places]
        BY <3>1, Going DEF RunTask, Places
      <4>2. x[i] \in Task
        BY <3>1 DEF Typed
      <4>3. running' \in [Threads -> Seq(Task)]
        BY <3>1, <4>2, Turns DEF RunTask
      <4>4. mMutex' \in Threads \cup {nobody}
        BY <3>1 DEF Typed
      <4>5. halt' \in Reasons
        BY <3>1 DEF Typed, Halts, Reasons
      <4> QED BY <4>1, <4>3, <4>4, <4>5
    <3>2. CASE Empty(i) /\ UNCHANGED running
      <4>1. pc' \in [Threads -> Places]
        BY <3>2, Going DEF Empty, Places, Typed
      <4> QED BY <3>2, <4>1 DEF Empty, Typed, Halts, Reasons
    <3>3. CASE Halts("undefined") /\ UNCHANGED <<pc, mMutex, running>>
      BY <3>3 DEF Typed, Halts, Reasons
    <3> QED BY <1>5, <3>1, <3>2, <3>3 DEF PopClear
  <2> QED BY <1>5, <2>1, <2>2 DEF PopClear, Typed, tasks, ghosts
<1> QED BY <1>1, <1>2, <1>3, <1>4, <1>5

\* A set of natural numbers that is not empty has a least one.
LEMMA LeastNumber ==
  ASSUME NEW S \in SUBSET Nat, S # {}
  PROVE  \E n \in S : \A m \in S : n =< m
<1> DEFINE R == OpToRel(<, Nat)
<1>1. IsWellFoundedOn(R, Nat)
  BY NatLessThanWellFounded, Zenon
<1>2. \A n, m \in Nat : n < m => <<n, m>> \in R
  BY Zenon DEF OpToRel
<1> HIDE DEF R
<1>3. PICK n \in S : \A m \in S : ~ (<<m, n>> \in R)
  BY <1>1, WFMin
<1>4. \A m \in S : ~(m < n)
  BY <1>2, <1>3
<1> QED BY <1>4

\* What a remainder lies between.
LEMMA Remainder == ASSUME NEW a \in Int, NEW d \in Nat \ {0} PROVE a % d \in 0 .. d - 1
OBVIOUS

\* A count that does not wrap.
LEMMA Modulo == ASSUME NEW d \in Nat, NEW a \in 0 .. d - 1 PROVE a % d = a
OBVIOUS

\* What back says is where a thread goes on looking.
LEMMA BackPlaces == \A i, rest : back(i, rest) \in Places
BY DEF back, Places

\* The queues a thread finds work in.
LEMMA StealTask ==
  ASSUME Typed, NEW i \in Threads, Steal(i)
  PROVE  \/ \E v \in Threads :
               /\ mLocalWorkQueue[v] # <<>>
               /\ mLocalWorkQueue' = [mLocalWorkQueue EXCEPT ![v] = Tail(@)]
               /\ RunTask(i, Head(mLocalWorkQueue[v]))
         \/ Goes(i, back(i, running[i])) /\ UNCHANGED <<mLocalWorkQueue, running>>
<1> DEFINE at(n) == (i + n) % mNumThreads
           full  == {n \in 1 .. mNumThreads : mLocalWorkQueue[at(n)] # <<>>}
           first == CHOOSE n \in full : \A m \in full : n =< m
<1>1. CASE full # {}
  <2>1. \E n \in full : \A m \in full : n =< m
    <3>1. full \in SUBSET Nat
      BY LoadAssumption
    <3> HIDE DEF full
    <3> QED BY <3>1, <1>1, LeastNumber
  <2>2. first \in full
    BY <2>1
  <2>3. at(first) \in Threads /\ mLocalWorkQueue[at(first)] # <<>>
    <3>1. first \in 1 .. mNumThreads /\ i \in Int
      BY <2>2 DEF Threads
    <3> HIDE DEF first
    <3>2. at(first) \in 0 .. mNumThreads - 1
      <4>1. i + first \in Int
        BY <3>1
      <4> QED BY <4>1, LoadAssumption, Remainder
    <3> QED BY <3>2, <2>2 DEF Threads
  <2> QED BY <1>1, <2>3 DEF Steal
<1>2. CASE full = {}
  BY <1>2 DEF Steal
<1> QED BY <1>1, <1>2

\* The calls of finishTask of one thread.
LEMMA Calling ==
  ASSUME Typed, NEW i \in Threads, NEW s \in Seq(Frame), Calls(i, s)
  PROVE  /\ finishing' \in [Threads -> Seq(Frame)] /\ finishing'[i] = s
         /\ \A j \in Threads \ {i} : finishing'[j] = finishing[j]
BY DEF Typed, Calls

\* A pop far behind the array ends the run.
LEMMA WildTyped ==
  ASSUME Typed, NEW i \in Threads, PopWild(i)
  PROVE  Typed' /\ halt' = "wild"
BY DEF PopWild, Halts, Reasons, Typed, tasks, global, calls, ghosts

\* Looking for work.
LEMMA FindTyped ==
  ASSUME Typed, NEW i \in Threads, Wait(i) \/ WakeUp(i) \/ PopLocal(i) \/ Steal(i)
  PROVE  Typed'
<1>1. CASE Wait(i)
  <2>1. pc' \in [Threads -> Places]
    BY <1>1, Going DEF Wait, Places
  <2>2. mMutex' \in Threads \cup {nobody}
    BY <1>1 DEF Wait, Typed
  <2> QED BY <1>1, <2>1, <2>2 DEF Wait, Typed, tasks, global, calls, ghosts
<1>2. CASE WakeUp(i)
  <2>1. pc' \in [Threads -> Places]
    BY <1>2, Going DEF WakeUp, Places
  <2> QED BY <1>2, <2>1 DEF WakeUp, Typed, tasks, global, calls, ghosts
<1>3. CASE PopLocal(i)
  <2> DEFINE q == mLocalWorkQueue[i]
  <2>1. CASE q # <<>>
    <3>1. q \in Seq(Task)
      BY DEF Typed
    <3>2. q[Len(q)] \in Task /\ SubSeq(q, 1, Len(q) - 1) \in Seq(Task)
      BY <3>1, <2>1, Front
    <3>3. pc' \in [Threads -> Places] /\ running' \in [Threads -> Seq(Task)]
      BY <1>3, <2>1, <3>2, Going, Turns DEF PopLocal, RunTask, Places
    <3>4. mLocalWorkQueue' \in [Threads -> Seq(Task)]
      BY <1>3, <2>1, <3>2 DEF PopLocal, Typed
    <3> QED BY <1>3, <3>3, <3>4 DEF PopLocal, Typed, tasks, global, ghosts
  <2>2. CASE q = <<>>
    <3>1. pc' \in [Threads -> Places]
      BY <1>3, <2>2, Going DEF PopLocal, Places
    <3> QED BY <1>3, <2>2, <3>1 DEF PopLocal, Typed, tasks, global, ghosts
  <2> QED BY <2>1, <2>2
<1>4. CASE Steal(i)
  <2>1. CASE Goes(i, back(i, running[i])) /\ UNCHANGED <<mLocalWorkQueue, running>>
    <3>1. pc' \in [Threads -> Places]
      BY <2>1, Going, BackPlaces
    <3> QED BY <1>4, <2>1, <3>1 DEF Steal, Typed, tasks, global, ghosts
  <2>2. ASSUME NEW v \in Threads, mLocalWorkQueue[v] # <<>>,
               mLocalWorkQueue' = [mLocalWorkQueue EXCEPT ![v] = Tail(@)],
               RunTask(i, Head(mLocalWorkQueue[v]))
        PROVE  Typed'
    <3>1. mLocalWorkQueue[v] \in Seq(Task)
      BY DEF Typed
    <3>2. Head(mLocalWorkQueue[v]) \in Task /\ Tail(mLocalWorkQueue[v]) \in Seq(Task)
      BY <3>1, <2>2, Below
    <3>3. pc' \in [Threads -> Places] /\ running' \in [Threads -> Seq(Task)]
      BY <2>2, <3>2, Going, Turns DEF RunTask, Places
    <3>4. mLocalWorkQueue' \in [Threads -> Seq(Task)]
      BY <2>2, <3>2 DEF Typed
    <3> QED BY <1>4, <3>3, <3>4 DEF Steal, Typed, tasks, global, ghosts
  <2> QED BY <1>4, <2>1, <2>2, StealTask
<1> QED BY <1>1, <1>2, <1>3, <1>4

\* Running a task.
LEMMA RunTyped ==
  ASSUME Typed, NEW i \in Threads, StackOf(i),
         StillOpen(i) \/ RunKernel(i) \/ CountDown(i) \/ NotifyParent(i) \/ ReturnNode(i)
  PROVE  Typed'
<1>0. 0 \in 0 .. CountLimit - 1 /\ CountLimit \in Nat \ {0}
  BY LoadAssumption
<1>1. CASE StillOpen(i)
  <2>1. pc' \in [Threads -> Places]
    BY <1>1, Going DEF StillOpen, Places
  <2> QED BY <1>1, <2>1 DEF StillOpen, Typed, tasks, global, calls, ghosts
<1>2. CASE RunKernel(i)
  <2>1. pc' \in [Threads -> Places]
    BY <1>2, Going DEF RunKernel, Places, Finishing
  <2>2. running[i] \in Seq(Task) /\ running[i] # <<>>
    BY <1>2 DEF RunKernel, Typed, StackOf
  <2>3. Head(running[i]) \in Task
    BY <2>2, Below
  <2>4. finishing' \in [Threads -> Seq(Frame)]
    <3>1. [task |-> Head(running[i]), open |-> 0] \in Frame
      BY <2>3, <1>0 DEF Frame
    <3>2. <<[task |-> Head(running[i]), open |-> 0]>> \in Seq(Frame)
      BY <3>1
    <3> QED BY <1>2, <3>2 DEF RunKernel, Typed
  <2>5. ran' \in [Task -> Nat]
    BY SMTT(40), <1>2, <2>3 DEF RunKernel, Typed
  <2> QED BY <1>2, <2>1, <2>4, <2>5 DEF RunKernel, Typed, tasks, global
<1>3. CASE CountDown(i)
  <2>1. pc' \in [Threads -> Places]
    BY <1>3, Going DEF CountDown, Places, Finishing
  <2>2. finishing[i] \in Seq(Frame) /\ finishing[i] # <<>>
    BY <1>3 DEF CountDown, Typed, StackOf, Finishing
  <2>3. Head(finishing[i]) \in Frame /\ Tail(finishing[i]) \in Seq(Frame)
    BY <2>2, HeadTailProperties
  <2>4. current(i) \in Task
    BY <2>3 DEF current, Frame
  <2>5. PICK open \in 0 .. CountLimit - 1 : open = (mOpenTasks[current(i)] - 1) % CountLimit
    <3>1. mOpenTasks[current(i)] - 1 \in Int
      BY <2>4 DEF Typed
    <3> QED BY <3>1, <1>0, Remainder
  <2>6. PICK s \in Seq(Frame) : s = <<[task |-> current(i), open |-> open]>> \o Tail(finishing[i])
    <3>1. [task |-> current(i), open |-> open] \in Frame
      BY <2>4 DEF Frame
    <3> QED BY <3>1, <2>3, PutOnTop
  <2>7. Calls(i, s)
    BY <1>3, <2>5, <2>6 DEF CountDown
  <2>8. finishing' \in [Threads -> Seq(Frame)]
    BY <2>7, Calling
  <2>9. mOpenTasks' \in [Task -> 0 .. CountLimit - 1] /\ ended' \subseteq Task /\ halt' \in Reasons
    BY <1>3, <2>4, <2>5 DEF CountDown, Typed, Halts, Reasons
  <2> QED BY <1>3, <2>1, <2>8, <2>9 DEF CountDown, Typed, global
<1>4. CASE NotifyParent(i)
  <2>1. pc' \in [Threads -> Places]
    BY <1>4, Going DEF NotifyParent, Places, Finishing
  <2>2. finishing[i] \in Seq(Frame) /\ finishing[i] # <<>>
    BY <1>4 DEF NotifyParent, Typed, StackOf, Finishing
  <2>3. Head(finishing[i]) \in Frame
    BY <2>2, HeadTailProperties
  <2>4. current(i) \in Task
    BY <2>3 DEF current, Frame
  <2>5. CASE mParent[current(i)] # nullptr
    <3>1. mParent[current(i)] \in Task
      BY <2>4, <2>5, ParentIsTask
    <3>2. PICK s \in Seq(Frame) :
              s = <<[task |-> mParent[current(i)], open |-> 0]>> \o finishing[i]
      <4>1. [task |-> mParent[current(i)], open |-> 0] \in Frame
        BY <3>1, <1>0 DEF Frame
      <4> QED BY <4>1, <2>2, PutOnTop
    <3>3. Calls(i, s)
      BY <1>4, <2>5, <3>2 DEF NotifyParent
    <3>4. finishing' \in [Threads -> Seq(Frame)]
      BY <3>3, Calling
    <3> QED BY <1>4, <2>1, <3>4 DEF NotifyParent, Typed, tasks, global, ghosts
  <2>6. CASE mParent[current(i)] = nullptr
    BY <1>4, <2>6, <2>1 DEF NotifyParent, Typed, tasks, global, ghosts
  <2> QED BY <2>5, <2>6
<1>5. CASE ReturnNode(i)
  <2>1. finishing[i] \in Seq(Frame) /\ finishing[i] # <<>> /\ running[i] # <<>>
    BY <1>5 DEF ReturnNode, Typed, StackOf, Finishing
  <2>2. Head(finishing[i]) \in Frame /\ Tail(finishing[i]) \in Seq(Frame)
    BY <2>1, HeadTailProperties
  <2>3. finishing' \in [Threads -> Seq(Frame)]
    BY <1>5, <2>2, Calling DEF ReturnNode
  <2>4. returned' \in [Task -> Nat]
    <3>1. current(i) \in Task
      BY <2>2 DEF current, Frame
    <3>2. returned \in [Task -> Nat]
      BY DEF Typed
    <3>3. returned[current(i)] + 1 \in Nat
      BY <3>1, <3>2
    <3>4. [returned EXCEPT ![current(i)] = @ + 1] \in [Task -> Nat]
      BY <3>2, <3>3
    <3> QED BY <1>5, <3>2, <3>4 DEF ReturnNode
  <2>5. running' \in [Threads -> Seq(Task)] /\ pc' \in [Threads -> Places]
    <3>1. CASE Len(finishing[i]) > 1
      BY <1>5, <3>1 DEF ReturnNode, Typed
    <3>2. CASE ~(Len(finishing[i]) > 1)
      BY <1>5, <3>2, <2>1, Leaves, Going, BackPlaces DEF ReturnNode
    <3> QED BY <3>1, <3>2
  <2> QED BY <1>5, <2>3, <2>4, <2>5 DEF ReturnNode, Typed, tasks, global
<1> QED BY <1>1, <1>2, <1>3, <1>4, <1>5

-----------------------------------------------------------------------------
(* The queues and the tasks that are somewhere *)

Special == {"take", "clear", "push"}

\* A thread moves on, away from the global queue, and no task disappears.
MovesOn(i) ==
  /\ UNCHANGED <<global, t, x>>
  /\ pc[i] \notin Special /\ pc'[i] \notin Special
  /\ \A j \in Threads \ {i} : pc'[j] = pc[j]
  /\ ended \subseteq ended'
  /\ \A j \in Threads : InCalls(j) \subseteq InCalls(j)' \cup ended'
  /\ \A j \in Threads : \A k \in InQueue(j) : k \in InQueue(j)' \/ Taken(k)'

\* Nothing else is said of a thread that is away from the global queue.
LEMMA MovingOnKeeps ==
  ASSUME Typed, Slots, Passed, Kept, NEW i \in Threads, MovesOn(i)
  PROVE  Slots' /\ Passed' /\ Kept'
<1> USE DEF MovesOn, global
<1>1. \A j \in Threads, w \in Special : pc'[j] = w <=> pc[j] = w
  BY DEF Special
<1>2. /\ \A j \in Threads : pc'[j] = "take" <=> pc[j] = "take"
      /\ \A j \in Threads : pc'[j] = "clear" <=> pc[j] = "clear"
      /\ \A j \in Threads : pc'[j] = "push" <=> pc[j] = "push"
  BY <1>1 DEF Special
<1>3. \A k : Taken(k) => Taken(k)'
  BY DEF Taken
<1>4. \A k : Safe(k) => Safe(k)'
  BY <1>2, <1>3 DEF Safe
<1>5. \A n : Done(n) => Done(n)'
  BY <1>4 DEF Done
<1>6. Slots'
  BY <1>2 DEF Slots
<1>7. Passed'
  BY <1>2, <1>5 DEF Passed
<1>8. Kept'
  <2> SUFFICES ASSUME NEW k \in Task
               PROVE  \/ k \in waiting \/ Safe(k)'
                      \/ \E j \in Threads : k \in InQueue(j)' \/ (pc'[j] = "push" /\ x[j] = k)
                      \/ \E n \in mTop .. mBottom - 1 : mArray[n] = k
    BY DEF Kept
  <2>1. CASE \E j \in Threads : k \in InQueue(j)
    BY <2>1 DEF Safe
  <2>2. CASE ~ \E j \in Threads : k \in InQueue(j)
    BY <2>2, <1>2, <1>4 DEF Kept
  <2> QED BY <2>1, <2>2
<1> QED BY <1>6, <1>7, <1>8

\* The other threads' stacks.
LEMMA OtherStacks ==
  ASSUME Stacks, NEW i \in Threads, StackOf(i)', ended \subseteq ended',
         \A j \in Threads \ {i} : pc'[j] = pc[j] /\ running'[j] = running[j] /\ finishing'[j] = finishing[j]
  PROVE  Stacks'
BY DEF Stacks, StackOf, Past

\* Looking for work, and turning to a task that was found.
LEMMA LookingStack ==
  ASSUME Typed, Stacks, NEW i \in Threads, NEW where \in Places \ Finishing,
         pc[i] \notin Finishing, Goes(i, where), UNCHANGED <<ended, finishing>>,
         \/ UNCHANGED running /\ (where = "open" => running[i] # <<>>)
         \/ \E k \in Task : running' = [running EXCEPT ![i] = <<k>> \o @]
  PROVE  Stacks'
<1>1. pc'[i] = where /\ \A j \in Threads \ {i} : pc'[j] = pc[j]
  BY Going
<1>2. running'[i] = running[i] \/ running'[i] # <<>>
  BY Turns
<1>3. \A j \in Threads \ {i} : running'[j] = running[j]
  BY Turns
<1>4. where = "open" => running'[i] # <<>>
  BY Turns
<1>5. StackOf(i)'
  BY <1>1, <1>2, <1>4 DEF Stacks, StackOf, Past, Finishing
<1> QED BY <1>1, <1>3, <1>5, OtherStacks

\* A thread goes on with the task it is in, or without one.
LEMMA BackOpen == \A i, rest : back(i, rest) \in Places \ (Finishing \cup Special) /\ (back(i, rest) = "open" => rest # <<>>)
BY DEF back, Places, Finishing, Special

\* A task that is found in a queue is on a stack from now on.
LEMMA FindKeeps ==
  ASSUME Typed, Stacks, Slots, Passed, Kept, NEW i \in Threads,
         Wait(i) \/ WakeUp(i) \/ PopLocal(i) \/ Steal(i) \/ PopEmpty(i) \/ StillOpen(i)
  PROVE  Stacks' /\ Slots' /\ Passed' /\ Kept'
<1> USE DEF Finishing, Special, Places
<1>1. CASE Wait(i)
  <2>1. PICK where \in {"pop", "asleep"} : Goes(i, where)
    BY <1>1 DEF Wait
  <2>2. Stacks'
    BY <1>1, <2>1, LookingStack DEF Wait, calls, ghosts
  <2>3. MovesOn(i)
    BY <1>1, <2>1, Going DEF MovesOn, Wait, calls, ghosts, InCalls, InQueue
  <2> QED BY <2>2, <2>3, MovingOnKeeps
<1>2. CASE WakeUp(i)
  <2>2. Stacks'
    BY <1>2, LookingStack DEF WakeUp, calls, ghosts
  <2>3. MovesOn(i)
    BY <1>2, Going DEF MovesOn, WakeUp, calls, ghosts, InCalls, InQueue
  <2> QED BY <2>2, <2>3, MovingOnKeeps
<1>3. CASE StillOpen(i)
  <2>2. Stacks'
    BY <1>3, LookingStack DEF StillOpen, calls, ghosts
  <2>3. MovesOn(i)
    BY <1>3, Going DEF MovesOn, StillOpen, calls, ghosts, InCalls, InQueue
  <2> QED BY <2>2, <2>3, MovingOnKeeps
<1>4. CASE PopEmpty(i)
  <2>0. PICK where \in {"pop", "steal"} : Goes(i, where)
    BY <1>4 DEF PopEmpty, Empty, Goes, Typed
  <2>2. Stacks'
    BY <1>4, <2>0, LookingStack DEF PopEmpty, calls, ghosts
  <2>3. MovesOn(i)
    BY <1>4, <2>0, Going DEF MovesOn, PopEmpty, calls, ghosts, InCalls, InQueue
  <2> QED BY <2>2, <2>3, MovingOnKeeps
<1>5. CASE PopLocal(i)
  <2> DEFINE q == mLocalWorkQueue[i]
  <2>0. q \in Seq(Task) /\ mLocalWorkQueue \in [Threads -> Seq(Task)]
    BY DEF Typed
  <2>1. CASE q # <<>>
    <3>1. q[Len(q)] \in Task
      BY <2>0, <2>1, Front
    <3>2. Goes(i, "open") /\ running' = [running EXCEPT ![i] = <<q[Len(q)]>> \o @]
      BY <1>5, <2>1 DEF PopLocal, RunTask
    <3>3. Stacks'
      BY <1>5, <3>1, <3>2, LookingStack DEF PopLocal, ghosts
    <3>4. InCalls(i)' = InCalls(i) \cup {q[Len(q)]} /\ \A j \in Threads \ {i} : InCalls(j)' = InCalls(j)
      <4>1. InCalls(i)' = InCalls(i) \cup {q[Len(q)]} /\ \A j \in Threads \ {i} : running'[j] = running[j]
        BY <3>1, <3>2, Turns
      <4> QED BY <4>1 DEF InCalls
    <3>5. \A j \in Threads : \A k \in InQueue(j) : k \in InQueue(j)' \/ k = q[Len(q)]
      <4>1. mLocalWorkQueue' = [mLocalWorkQueue EXCEPT ![i] = SubSeq(q, 1, Len(q) - 1)]
        BY <1>5, <2>1 DEF PopLocal
      <4>2. \A j \in Threads \ {i} : mLocalWorkQueue'[j] = mLocalWorkQueue[j]
        BY <4>1, <2>0
      <4>3. mLocalWorkQueue'[i] = SubSeq(q, 1, Len(q) - 1)
        BY <4>1, <2>0
      <4>4. \A k \in InQueue(i) : k \in InQueue(i)' \/ k = q[Len(q)]
        <5> SUFFICES ASSUME NEW n \in DOMAIN q, n # Len(q) PROVE q[n] \in InQueue(i)'
          BY DEF InQueue
        <5>1. DOMAIN q = 1 .. Len(q) /\ Len(q) \in Nat
          BY <2>0
        <5>2. n \in DOMAIN mLocalWorkQueue'[i] /\ mLocalWorkQueue'[i][n] = q[n]
          BY <4>3, <5>1, <2>0, <2>1, Front
        <5> QED BY <5>2 DEF InQueue
      <4> QED BY <4>2, <4>4 DEF InQueue
    <3>6. \A k : k = q[Len(q)] => Taken(k)'
      BY <3>4 DEF Taken
    <3>7. MovesOn(i)
      BY <1>5, <3>2, <3>4, <3>5, <3>6, Going DEF MovesOn, PopLocal, ghosts
    <3> QED BY <3>3, <3>7, MovingOnKeeps
  <2>2. CASE q = <<>>
    <3>1. Stacks'
      BY <1>5, <2>2, LookingStack DEF PopLocal, ghosts
    <3>2. MovesOn(i)
      BY <1>5, <2>2, Going DEF MovesOn, PopLocal, ghosts, InCalls, InQueue
    <3> QED BY <3>1, <3>2, MovingOnKeeps
  <2> QED BY <2>1, <2>2
<1>6. CASE Steal(i)
  <2>1. CASE Goes(i, back(i, running[i])) /\ UNCHANGED <<mLocalWorkQueue, running>>
    <3>1. PICK where \in Places \ (Finishing \cup Special) : where = back(i, running[i])
      BY BackOpen
    <3>2. Stacks'
      BY <1>6, <2>1, <3>1, BackOpen, LookingStack DEF Steal, ghosts
    <3>3. MovesOn(i)
      <4>1. pc'[i] = where /\ \A j \in Threads \ {i} : pc'[j] = pc[j]
        BY <2>1, <3>1, Going
      <4>2. pc'[i] \notin Special /\ pc[i] \notin Special
        <5>1. pc[i] = "steal"
          BY <1>6 DEF Steal
        <5> QED BY <3>1, <4>1, <5>1
      <4> QED BY <1>6, <2>1, <4>1, <4>2 DEF MovesOn, Steal, ghosts, InCalls, InQueue
    <3> QED BY <3>2, <3>3, MovingOnKeeps
  <2>2. ASSUME NEW v \in Threads, mLocalWorkQueue[v] # <<>>,
               mLocalWorkQueue' = [mLocalWorkQueue EXCEPT ![v] = Tail(@)],
               RunTask(i, Head(mLocalWorkQueue[v]))
        PROVE  Stacks' /\ Slots' /\ Passed' /\ Kept'
    <3>0. mLocalWorkQueue \in [Threads -> Seq(Task)] /\ mLocalWorkQueue[v] \in Seq(Task)
      BY DEF Typed
    <3>1. PICK k \in Task : k = Head(mLocalWorkQueue[v])
      BY <3>0, <2>2, Below
    <3>2. Goes(i, "open") /\ running' = [running EXCEPT ![i] = <<k>> \o @]
      BY <2>2, <3>1 DEF RunTask
    <3>3. Stacks'
      BY <1>6, <3>2, LookingStack DEF Steal, ghosts
    <3>4. InCalls(i)' = InCalls(i) \cup {k} /\ \A j \in Threads \ {i} : InCalls(j)' = InCalls(j)
      <4>1. InCalls(i)' = InCalls(i) \cup {k} /\ \A j \in Threads \ {i} : running'[j] = running[j]
        BY <3>2, Turns
      <4> QED BY <4>1 DEF InCalls
    <3>5. \A j \in Threads : \A l \in InQueue(j) : l \in InQueue(j)' \/ l = k
      <4>1. \A j \in Threads \ {v} : mLocalWorkQueue'[j] = mLocalWorkQueue[j]
        BY <2>2, <3>0
      <4>2. mLocalWorkQueue'[v] = Tail(mLocalWorkQueue[v])
        BY <2>2, <3>0
      <4>3. \A l \in InQueue(v) : l \in InQueue(v)' \/ l = k
        <5> SUFFICES ASSUME NEW n \in DOMAIN mLocalWorkQueue[v], n # 1
                     PROVE  mLocalWorkQueue[v][n] \in InQueue(v)'
          BY <3>0, <3>1, <2>2, Below DEF InQueue
        <5>1. n - 1 \in DOMAIN Tail(mLocalWorkQueue[v])
              /\ Tail(mLocalWorkQueue[v])[n - 1] = mLocalWorkQueue[v][(n - 1) + 1]
          BY <3>0, <2>2, Below
        <5> QED BY <5>1, <4>2, <3>0, <2>2, Below DEF InQueue
      <4> QED BY <4>1, <4>3 DEF InQueue
    <3>6. Taken(k)'
      BY <3>4 DEF Taken
    <3>7. MovesOn(i)
      <4>1. UNCHANGED <<global, t, x>> /\ ended' = ended /\ pc[i] = "steal"
        BY <1>6 DEF Steal, ghosts
      <4>2. pc'[i] = "open" /\ \A j \in Threads \ {i} : pc'[j] = pc[j]
        BY <3>2, Going
      <4>3. \A j \in Threads : InCalls(j) \subseteq InCalls(j)' \cup ended'
        BY <3>4
      <4>4. \A j \in Threads : \A l \in InQueue(j) : l \in InQueue(j)' \/ Taken(l)'
        BY <3>5, <3>6
      <4> QED BY <4>1, <4>2, <4>3, <4>4 DEF MovesOn, Special
    <3> QED BY <3>3, <3>7, MovingOnKeeps
  <2> QED BY <1>6, <2>1, <2>2, StealTask
<1> QED BY <1>1, <1>2, <1>3, <1>4, <1>5, <1>6

\* The calls of finishTask leave the queues alone, and a task that leaves a stack has ended.
LEMMA RunKeeps ==
  ASSUME Typed, Stacks, Slots, Passed, Kept, NEW i \in Threads,
         RunKernel(i) \/ CountDown(i) \/ NotifyParent(i) \/ ReturnNode(i)
  PROVE  Stacks' /\ Slots' /\ Passed' /\ Kept'
<1> USE DEF Finishing, Special, Places
<1>0. StackOf(i) /\ running[i] \in Seq(Task) /\ finishing[i] \in Seq(Frame)
  BY DEF Stacks, Typed
<1>1. CASE RunKernel(i)
  <2>1. pc'[i] = "finish" /\ \A j \in Threads \ {i} : pc'[j] = pc[j]
    BY <1>1, Going DEF RunKernel
  <2>2. running[i] # <<>> /\ Head(running[i]) = running[i][1]
    BY <1>0, <1>1, Below DEF RunKernel, StackOf
  <2>3. /\ finishing'[i] = <<[task |-> running[i][1], open |-> 0]>>
        /\ \A j \in Threads \ {i} : finishing'[j] = finishing[j]
    BY <1>1, <2>2 DEF RunKernel, Typed
  <2>4. StackOf(i)'
    <3>1. PICK f : f = [task |-> running[i][1], open |-> 0]
      OBVIOUS
    <3>2. finishing'[i] = <<f>> /\ f.task = running[i][1]
      BY <2>3, <3>1
    <3>3. finishing'[i] # <<>> /\ Len(finishing'[i]) = 1 /\ finishing'[i][1] = f
      BY <3>2
    <3>4. running'[i] = running[i]
      BY <1>1 DEF RunKernel
    <3> QED BY <2>1, <2>2, <3>2, <3>3, <3>4 DEF StackOf, Past
  <2>5. Stacks'
    BY <1>1, <2>1, <2>3, <2>4, OtherStacks DEF RunKernel
  <2>6. MovesOn(i)
    BY <1>1, <2>1 DEF MovesOn, RunKernel, InCalls, InQueue
  <2> QED BY <2>5, <2>6, MovingOnKeeps
<1>2. CASE CountDown(i)
  <2>1. pc'[i] = "parent" /\ \A j \in Threads \ {i} : pc'[j] = pc[j]
    BY <1>2, Going DEF CountDown
  <2>2. finishing[i] # <<>> /\ running[i] # <<>>
        /\ finishing[i][Len(finishing[i])].task = running[i][1]
    BY <1>0, <1>2 DEF CountDown, StackOf
  <2>3. PICK f \in Frame : /\ f.task = current(i)
                           /\ Calls(i, <<f>> \o Tail(finishing[i]))
    <3>1. Head(finishing[i]) \in Frame
      BY <1>0, <2>2, HeadTailProperties
    <3>2. current(i) \in Task
      BY <3>1 DEF current, Frame
    <3>3. (mOpenTasks[current(i)] - 1) % CountLimit \in 0 .. CountLimit - 1
      <4>1. mOpenTasks[current(i)] - 1 \in Int
        BY <3>2 DEF Typed
      <4> QED BY <4>1, LoadAssumption, Remainder
    <3>4. [task |-> current(i), open |-> (mOpenTasks[current(i)] - 1) % CountLimit] \in Frame
      BY <3>2, <3>3 DEF Frame
    <3> QED BY <1>2, <3>4 DEF CountDown
  <2>4. PICK s \in Seq(Frame) : s = <<f>> \o Tail(finishing[i])
    BY <1>0, <2>2, <2>3, Below, PutOnTop
  <2>5. /\ finishing'[i] = s
        /\ \A j \in Threads \ {i} : finishing'[j] = finishing[j]
    BY <2>3, <2>4, Calling
  <2>6. s # <<>> /\ Len(s) = Len(finishing[i]) /\ s[Len(s)].task = running[i][1]
    <3>1. Tail(finishing[i]) \in Seq(Frame) /\ Len(Tail(finishing[i])) = Len(finishing[i]) - 1
          /\ Len(finishing[i]) \in Nat \ {0} /\ Head(finishing[i]) = finishing[i][1]
          /\ \A n \in 1 .. Len(finishing[i]) - 1 : Tail(finishing[i])[n] = finishing[i][n + 1]
      BY <1>0, <2>2, Below
    <3>2. s # <<>> /\ Len(s) = Len(finishing[i]) /\ s[1] = f
          /\ \A n \in 1 .. Len(finishing[i]) - 1 : s[n + 1] = Tail(finishing[i])[n]
      BY <3>1, <2>3, <2>4, OnTop
    <3>3. CASE Len(finishing[i]) = 1
      <4>1. f.task = running[i][1]
        BY <3>1, <3>3, <2>2, <2>3 DEF current
      <4> QED BY <4>1, <3>2, <3>3
    <3>4. CASE Len(finishing[i]) > 1
      <4>1. Len(s) - 1 \in 1 .. Len(finishing[i]) - 1
        BY <3>1, <3>2, <3>4
      <4>2. s[(Len(s) - 1) + 1] = finishing[i][(Len(s) - 1) + 1]
        BY <4>1, <3>1, <3>2
      <4>3. s[Len(s)] = finishing[i][Len(finishing[i])]
        BY <4>2, <3>1, <3>2
      <4> QED BY <4>3, <3>2, <2>2
    <3>5. Len(finishing[i]) = 1 \/ Len(finishing[i]) > 1
      <4> DEFINE n == Len(finishing[i])
      <4>1. n \in Nat \ {0}
        BY <3>1
      <4>2. n = 1 \/ n > 1
        <5> HIDE DEF n
        <5> QED BY <4>1
      <4> QED BY <4>2
    <3> QED BY <3>3, <3>4, <3>5
  <2>7. running[i][1] \in ended'
    <3>1. CASE Len(finishing[i]) = 1
      <4>1. current(i) = running[i][1]
        BY <3>1, <2>2, <1>0, Below DEF current
      <4> QED BY <4>1, <3>1, <1>2 DEF CountDown
    <3>2. CASE Len(finishing[i]) # 1
      <4>1. Len(finishing[i]) > 1
        BY SMTT(40), <3>2, <1>0, <2>2, Below
      <4>2. running[i][1] \in ended
        BY <4>1, <1>0, <1>2 DEF CountDown, StackOf, Past
      <4> QED BY <3>2, <4>2, <1>2 DEF CountDown
    <3> QED BY <3>1, <3>2
  <2>8. ended \subseteq ended' /\ running' = running
    BY <1>2 DEF CountDown
  <2>9. StackOf(i)'
    BY <2>1, <2>2, <2>5, <2>6, <2>7, <2>8 DEF StackOf, Past
  <2>10. Stacks'
    BY <2>1, <2>5, <2>8, <2>9, OtherStacks
  <2>11. MovesOn(i)
    BY <1>2, <2>1, <2>8 DEF MovesOn, CountDown, InCalls, InQueue
  <2> QED BY <2>10, <2>11, MovingOnKeeps
<1>3. CASE NotifyParent(i)
  <2>0. finishing[i] # <<>> /\ running[i] # <<>> /\ running[i][1] \in ended
        /\ finishing[i][Len(finishing[i])].task = running[i][1]
    BY <1>0, <1>3 DEF NotifyParent, StackOf, Past
  <2>1. CASE mParent[current(i)] # nullptr
    <3>1. pc'[i] = "finish" /\ \A j \in Threads \ {i} : pc'[j] = pc[j]
      BY <1>3, <2>1, Going DEF NotifyParent
    <3>2. PICK f \in Frame : Calls(i, <<f>> \o finishing[i])
      <4>1. Head(finishing[i]) \in Frame
        BY <1>0, <2>0, HeadTailProperties
      <4>2. mParent[current(i)] \in Task
        <5>1. current(i) \in Task
          BY <4>1 DEF current, Frame
        <5> QED BY <5>1, <2>1, ParentIsTask
      <4>3. [task |-> mParent[current(i)], open |-> 0] \in Frame
        BY <4>2, LoadAssumption DEF Frame
      <4> QED BY <4>3, <1>3, <2>1 DEF NotifyParent
    <3>3. PICK s \in Seq(Frame) : s = <<f>> \o finishing[i]
      BY <1>0, <3>2, PutOnTop
    <3>4. /\ finishing'[i] = s
          /\ \A j \in Threads \ {i} : finishing'[j] = finishing[j]
      BY <3>2, <3>3, Calling
    <3>5. s # <<>> /\ Len(s) > 1 /\ s[Len(s)] = finishing[i][Len(finishing[i])]
      <4>1. s # <<>> /\ Len(s) = Len(finishing[i]) + 1
            /\ \A n \in 1 .. Len(finishing[i]) : s[n + 1] = finishing[i][n]
        BY <1>0, <3>2, <3>3, OnTop
      <4>2. Len(finishing[i]) \in Nat \ {0}
        BY <1>0, <2>0, Below
      <4> QED BY <4>1, <4>2
    <3>6. ended' = ended /\ running' = running
      BY <1>3 DEF NotifyParent, ghosts
    <3>7. StackOf(i)'
      BY <2>0, <3>1, <3>4, <3>5, <3>6 DEF StackOf, Past
    <3>8. Stacks'
      BY <3>1, <3>4, <3>6, <3>7, OtherStacks
    <3>9. MovesOn(i)
      BY <1>3, <3>1, <3>6 DEF MovesOn, NotifyParent, InCalls, InQueue
    <3> QED BY <3>8, <3>9, MovingOnKeeps
  <2>2. CASE mParent[current(i)] = nullptr
    <3>1. pc'[i] = "return" /\ \A j \in Threads \ {i} : pc'[j] = pc[j]
      BY <1>3, <2>2, Going DEF NotifyParent
    <3>2. finishing' = finishing /\ ended' = ended /\ running' = running
      BY <1>3, <2>2 DEF NotifyParent, ghosts
    <3>3. StackOf(i)'
      BY <2>0, <3>1, <3>2 DEF StackOf, Past
    <3>4. Stacks'
      BY <3>1, <3>2, <3>3, OtherStacks
    <3>5. MovesOn(i)
      BY <1>3, <3>1, <3>2 DEF MovesOn, NotifyParent, InCalls, InQueue
    <3> QED BY <3>4, <3>5, MovingOnKeeps
  <2> QED BY <2>1, <2>2
<1>4. CASE ReturnNode(i)
  <2>0. finishing[i] # <<>> /\ running[i] # <<>> /\ running[i][1] \in ended
        /\ finishing[i][Len(finishing[i])].task = running[i][1] /\ pc[i] = "return"
    BY <1>0, <1>4 DEF ReturnNode, StackOf, Past
  <2>1. PICK s \in Seq(Frame) : s = Tail(finishing[i])
    BY <1>0, <2>0, Below
  <2>2. /\ finishing'[i] = s
        /\ \A j \in Threads \ {i} : finishing'[j] = finishing[j]
    BY <1>4, <2>1, Calling DEF ReturnNode
  <2>3. Len(finishing[i]) \in Nat \ {0} /\ Len(s) = Len(finishing[i]) - 1
        /\ (s = <<>>) = (Len(finishing[i]) = 1)
        /\ \A n \in 1 .. Len(finishing[i]) - 1 : s[n] = finishing[i][n + 1]
    BY SMTT(40), <1>0, <2>0, <2>1, Below
  <2>4. ended' = ended /\ UNCHANGED <<global, t, x, mLocalWorkQueue>>
    BY <1>4 DEF ReturnNode
  <2>5. CASE Len(finishing[i]) > 1
    <3>1. pc' = pc /\ running' = running
      BY <1>4, <2>5 DEF ReturnNode
    <3>2. s # <<>> /\ s[Len(s)].task = running[i][1]
      BY <2>0, <2>3, <2>5
    <3>3. StackOf(i)'
      BY <2>0, <2>2, <2>4, <3>1, <3>2 DEF StackOf, Past
    <3>4. Stacks'
      BY <2>2, <2>4, <3>1, <3>3, OtherStacks
    <3>5. MovesOn(i)
      BY <2>0, <2>4, <3>1 DEF MovesOn, InCalls, InQueue
    <3> QED BY <3>4, <3>5, MovingOnKeeps
  <2>6. CASE Len(finishing[i]) = 1
    <3>1. PICK where \in Places \ (Finishing \cup Special) :
              /\ Goes(i, where) /\ (where = "open" => Tail(running[i]) # <<>>)
      <4>1. Goes(i, back(i, Tail(running[i])))
        BY <1>4, <2>6 DEF ReturnNode
      <4> QED BY <4>1, BackOpen
    <3>2. pc'[i] = where /\ \A j \in Threads \ {i} : pc'[j] = pc[j]
      BY <3>1, Going
    <3>3. running' = [running EXCEPT ![i] = Tail(@)]
      BY <1>4, <2>6 DEF ReturnNode
    <3>4. running'[i] = Tail(running[i]) /\ InCalls(i) = InCalls(i)' \cup {running[i][1]}
          /\ \A j \in Threads \ {i} : running'[j] = running[j]
      BY <2>0, <3>3, Leaves
    <3>5. s = <<>>
      BY <2>3, <2>6
    <3>6. StackOf(i)'
      BY <2>2, <3>1, <3>2, <3>4, <3>5 DEF StackOf, Past
    <3>7. Stacks'
      BY <2>2, <2>4, <3>2, <3>4, <3>6, OtherStacks
    <3>8. \A j \in Threads : InCalls(j) \subseteq InCalls(j)' \cup ended'
      <4>1. InCalls(i) \subseteq InCalls(i)' \cup ended'
        BY <2>0, <2>4, <3>4
      <4>2. \A j \in Threads \ {i} : InCalls(j)' = InCalls(j)
        BY <3>4 DEF InCalls
      <4> QED BY <4>1, <4>2
    <3>9. MovesOn(i)
      BY <2>0, <2>4, <3>1, <3>2, <3>8 DEF MovesOn, InQueue
    <3> QED BY <3>7, <3>9, MovingOnKeeps
  <2> QED BY <2>3, <2>5, <2>6
<1> QED BY <1>1, <1>2, <1>3, <1>4

\* Steps of the global queue that move a thread and no stack.
LEMMA SlotStack ==
  ASSUME Typed, Stacks, NEW i \in Threads, NEW where \in Places \ (Finishing \cup {"open"}),
         pc[i] \notin Finishing, Goes(i, where), UNCHANGED <<ended, finishing, running>>
  PROVE  Stacks' /\ (\A k : Taken(k)' = Taken(k)) /\ pc'[i] = where
         /\ \A j \in Threads \ {i} : pc'[j] = pc[j]
<1>1. Stacks'
  BY LookingStack
<1>2. \A k : Taken(k)' = Taken(k)
  BY DEF Taken, InCalls
<1> QED BY <1>1, <1>2, Going

\* A push counts mBottom up over a slot that is still empty.
LEMMA PushKeeps ==
  ASSUME Typed, Stacks, Slots, Passed, Kept, NEW k \in waiting, Push(k)
  PROVE  Stacks' /\ Slots' /\ Passed' /\ Kept'
<1> USE DEF Finishing, Places
<1>1. client \in Threads /\ nullptr \notin Task /\ k \in Task /\ 0 .. NumTasks \subseteq Nat
  BY LoadAssumption DEF Threads, client, Task, nullptr, Typed
<1>2. pc[client] = "look" /\ Goes(client, "push") /\ UNCHANGED <<ended, finishing, running>>
      /\ UNCHANGED <<mLocalWorkQueue, mTop, mArray>>
  BY DEF Push, ghosts
<1>3. Stacks' /\ (\A l : Taken(l)' = Taken(l)) /\ pc'[client] = "push"
      /\ \A j \in Threads \ {client} : pc'[j] = pc[j]
  BY <1>1, <1>2, SlotStack
<1>4. /\ mBottom' = mBottom + 1 /\ waiting' = waiting \ {k} /\ mBottom \in Nat /\ mTop \in 0 .. mBottom
      /\ x'[client] = k /\ \A j \in Threads \ {client} : x'[j] = x[j]
      /\ t'[client] = mBottom /\ \A j \in Threads \ {client} : t'[j] = t[j]
  BY <1>1 DEF Push, Typed
<1>5. /\ \A j \in Threads : t[j] \in 0 .. NumTasks
      /\ mBottom < NumTasks
  <2>1. Typed'
    BY PushTyped
  <2>2. t'[client] \in 0 .. NumTasks /\ mBottom' =< NumTasks
    <3>1. IsFiniteSet(Task)
      BY LoadAssumption, FS_Interval DEF Task
    <3>2. Cardinality(waiting') \in Nat
      BY <2>1, <3>1, FS_Subset, FS_CardinalityType DEF Typed
    <3>3. mBottom' \in Nat /\ mBottom' + Cardinality(waiting') =< NumTasks
      BY <2>1 DEF Typed
    <3>4. t'[client] \in 0 .. NumTasks
      BY <2>1, <1>1 DEF Typed
    <3> QED BY <3>2, <3>3, <3>4, LoadAssumption
  <2> QED BY <2>2, <1>4, LoadAssumption DEF Typed
<1>6. \A l : Safe(l) => Safe(l)'
  BY <1>2, <1>3, <1>4 DEF Safe
<1>7. \A n : Done(n) => Done(n)'
  BY <1>2, <1>6 DEF Done
<1>8. Slots'
  <2>1. \A j \in Threads : pc'[j] \in {"take", "clear"} => t'[j] < mBottom'
    BY <1>1, <1>3, <1>4, <1>5 DEF Slots
  <2>2. \A j \in Threads : x'[j] # nullptr => pc'[j] \in {"push", "clear"}
    BY <1>3, <1>4 DEF Slots
  <2>3. ASSUME NEW j \in Threads, pc'[j] = "push"
        PROVE  /\ j = client /\ t'[j] = mBottom' - 1 /\ mTop =< t'[j] /\ mArray[t'[j]] = nullptr
               /\ \A h \in Threads : pc'[h] = "clear" => t'[h] < t'[j]
    <3>1. j = client
      BY <2>3, <1>3 DEF Slots
    <3>2. mArray[mBottom] = nullptr
      BY <1>4, <1>5, LoadAssumption DEF Slots
    <3>3. \A h \in Threads : pc'[h] = "clear" => t'[h] < mBottom
      BY <1>3, <1>4 DEF Slots
    <3> QED BY <3>1, <3>2, <3>3, <1>4
  <2>4. \A n \in mBottom' .. NumTasks : mArray[n] = nullptr
    BY <1>4 DEF Slots
  <2> QED BY <2>1, <2>2, <2>3, <2>4, <1>2 DEF Slots
<1>9. Passed'
  <2>1. \A j \in Threads, n \in 0 .. NumTasks :
           (pc'[j] = "take" /\ n < t'[j]) \/ (pc'[j] = "clear" /\ n = t'[j]) => Done(n)
    BY <1>3, <1>4 DEF Passed
  <2> QED BY <2>1, <1>2, <1>7 DEF Passed
<1>10. Kept'
  <2> SUFFICES ASSUME NEW l \in Task
               PROVE  \/ l \in waiting' \/ Safe(l)'
                      \/ \E j \in Threads : l \in InQueue(j)' \/ (pc'[j] = "push" /\ x'[j] = l)
                      \/ \E n \in mTop' .. mBottom' - 1 : mArray'[n] = l
    BY DEF Kept
  <2>1. CASE l = k
    BY <2>1, <1>1, <1>3, <1>4
  <2>2. CASE l # k
    <3>1. \A j \in Threads : InQueue(j)' = InQueue(j)
      BY <1>2 DEF InQueue
    <3>2. \A j \in Threads : ~(pc[j] = "push" /\ x[j] = l)
      BY <1>2 DEF Slots
    <3>3. mTop .. mBottom - 1 \subseteq mTop' .. mBottom' - 1
      BY <1>2, <1>4
    <3> QED BY <2>2, <3>1, <3>2, <3>3, <1>2, <1>4, <1>6 DEF Kept
  <2> QED BY <2>1, <2>2
<1> QED BY <1>3, <1>8, <1>9, <1>10

\* The slot of the push is written: the task was in the hands of the client until now.
LEMMA PushStoreKeeps ==
  ASSUME Typed, Stacks, Slots, Passed, Kept, PushStore
  PROVE  Stacks' /\ Slots' /\ Passed' /\ Kept'
<1> USE DEF Finishing, Places
<1>1. client \in Threads /\ nullptr \notin Task /\ 0 .. NumTasks \subseteq Nat
  BY LoadAssumption DEF Threads, client, Task, nullptr
<1>2. pc[client] = "push" /\ Goes(client, "look") /\ UNCHANGED <<ended, finishing, running>>
      /\ UNCHANGED <<mLocalWorkQueue, mTop, mBottom, waiting, t>>
  BY DEF PushStore, ghosts
<1>3. Stacks' /\ (\A l : Taken(l)' = Taken(l)) /\ pc'[client] = "look"
      /\ \A j \in Threads \ {client} : pc'[j] = pc[j]
  BY <1>1, <1>2, SlotStack
<1>4. PICK b \in 0 .. NumTasks : b = t[client]
  BY <1>1 DEF Typed
<1>5. /\ x'[client] = nullptr /\ \A j \in Threads \ {client} : x'[j] = x[j]
      /\ mArray'[b] = x[client] /\ \A n \in (0 .. NumTasks) \ {b} : mArray'[n] = mArray[n]
  BY <1>1, <1>4 DEF PushStore, Typed
<1>6. /\ b = mBottom - 1 /\ mTop =< b /\ mArray[b] = nullptr /\ mBottom \in Nat /\ mTop \in 0 .. mBottom
      /\ \A j \in Threads : pc[j] = "clear" => t[j] < b
      /\ \A j \in Threads : t[j] \in 0 .. NumTasks
  BY <1>1, <1>2, <1>4 DEF Slots, Typed
<1>7. \A l : Safe(l) => Safe(l)'
  BY <1>2, <1>3, <1>5 DEF Safe
<1>8. \A n \in (0 .. NumTasks) \ {b} : Done(n) => Done(n)'
  BY <1>5, <1>7 DEF Done
<1>9. Slots'
  <2>1. \A j \in Threads : pc'[j] \in {"take", "clear"} => t[j] < mBottom
    BY <1>3 DEF Slots
  <2>2. \A j \in Threads : x'[j] # nullptr => pc'[j] \in {"push", "clear"}
    BY <1>3, <1>5 DEF Slots
  <2>3. \A j \in Threads : pc'[j] # "push"
    BY <1>3 DEF Slots
  <2>4. \A n \in mBottom .. NumTasks : mArray'[n] = nullptr
    BY <1>5, <1>6 DEF Slots
  <2> QED BY <2>1, <2>2, <2>3, <2>4, <1>2 DEF Slots
<1>10. Passed'
  <2>1. \A n \in 0 .. NumTasks : n < mTop => Done(n)'
    BY <1>6, <1>8 DEF Passed
  <2>2. ASSUME NEW j \in Threads, NEW n \in 0 .. NumTasks,
               (pc'[j] = "take" /\ n < t[j]) \/ (pc'[j] = "clear" /\ n = t[j])
        PROVE  Done(n)'
    <3>1. (pc[j] = "take" /\ n < t[j]) \/ (pc[j] = "clear" /\ n = t[j])
      BY <2>2, <1>3
    <3>2. n # b
      BY <3>1, <1>6 DEF Slots
    <3> QED BY <3>1, <3>2, <1>8 DEF Passed
  <2> QED BY <2>1, <2>2, <1>2 DEF Passed
<1>11. Kept'
  <2> SUFFICES ASSUME NEW l \in Task
               PROVE  \/ l \in waiting \/ Safe(l)'
                      \/ \E j \in Threads : l \in InQueue(j)' \/ (pc'[j] = "push" /\ x'[j] = l)
                      \/ \E n \in mTop .. mBottom - 1 : mArray'[n] = l
    BY <1>2 DEF Kept
  <2>1. \A j \in Threads : InQueue(j)' = InQueue(j)
    BY <1>2 DEF InQueue
  <2>2. CASE \E j \in Threads : pc[j] = "push" /\ x[j] = l
    <3>1. x[client] = l
      BY <2>2 DEF Slots
    <3>2. b \in mTop .. mBottom - 1
      BY <1>6
    <3> QED BY <3>1, <3>2, <1>5
  <2>3. CASE \E n \in mTop .. mBottom - 1 : mArray[n] = l
    <3>1. PICK n \in mTop .. mBottom - 1 : mArray[n] = l
      BY <2>3
    <3>2. n # b
      BY <3>1, <1>1, <1>6
    <3>3. n \in 0 .. NumTasks
      BY <1>4, <1>6, <3>1, LoadAssumption
    <3> QED BY <3>1, <3>2, <3>3, <1>5
  <2> QED BY <2>1, <2>2, <2>3, <1>7 DEF Kept
<1> QED BY <1>3, <1>9, <1>10, <1>11

\* A pop remembers mTop, below which everything has been popped.
LEMMA PopTestKeeps ==
  ASSUME Typed, Stacks, Slots, Passed, Kept, NEW i \in Threads, PopTest(i)
  PROVE  Stacks' /\ Slots' /\ Passed' /\ Kept'
<1> USE DEF Finishing, Places
<1>2. pc[i] = "pop" /\ Goes(i, "take") /\ UNCHANGED <<ended, finishing, running>>
      /\ UNCHANGED <<mLocalWorkQueue, global, x>> /\ hasTask
  BY DEF PopTest, ghosts
<1>3. Stacks' /\ (\A l : Taken(l)' = Taken(l)) /\ pc'[i] = "take"
      /\ \A j \in Threads \ {i} : pc'[j] = pc[j]
  BY <1>2, SlotStack
<1>4. t'[i] = mTop /\ \A j \in Threads \ {i} : t'[j] = t[j]
  BY DEF PopTest, Typed
<1>5. /\ \A j \in Threads : pc'[j] = "clear" => pc[j] = "clear" /\ j # i
      /\ \A j \in Threads : pc'[j] = "push" => pc[j] = "push" /\ j # i
      /\ \A j \in Threads : pc[j] = "clear" => pc'[j] = "clear" /\ j # i
      /\ \A j \in Threads : pc[j] = "push" => pc'[j] = "push" /\ j # i
  BY <1>2, <1>3
<1>6. \A l : Safe(l) => Safe(l)'
  BY <1>2, <1>3, <1>5 DEF Safe
<1>7. \A n : Done(n) => Done(n)'
  BY <1>2, <1>6 DEF Done, global
<1>8. Slots'
  <2>1. \A j \in Threads : pc'[j] \in {"take", "clear"} => t'[j] < mBottom
    BY <1>2, <1>3, <1>4 DEF Slots, hasTask, Typed
  <2>2. \A j \in Threads : x[j] # nullptr => pc'[j] \in {"push", "clear"}
    BY <1>2, <1>3 DEF Slots
  <2>3. ASSUME NEW j \in Threads, pc'[j] = "push"
        PROVE  /\ j = client /\ t'[j] = mBottom - 1 /\ mTop =< t'[j] /\ mArray[t'[j]] = nullptr
               /\ \A h \in Threads : pc'[h] = "clear" => t'[h] < t'[j]
    BY <2>3, <1>4, <1>5 DEF Slots
  <2> QED BY <2>1, <2>2, <2>3, <1>2 DEF Slots, global
<1>9. Passed'
  <2>1. \A j \in Threads, n \in 0 .. NumTasks :
           (pc'[j] = "take" /\ n < t'[j]) \/ (pc'[j] = "clear" /\ n = t'[j]) => Done(n)
    BY <1>3, <1>4, <1>5 DEF Passed
  <2> QED BY <2>1, <1>2, <1>7 DEF Passed, global
<1>10. Kept'
  <2>1. \A j \in Threads : InQueue(j)' = InQueue(j)
    BY <1>2 DEF InQueue
  <2> QED BY <2>1, <1>2, <1>5, <1>6 DEF Kept, global
<1> QED BY <1>3, <1>8, <1>9, <1>10

\* mTop jumps, forward or back: over tasks that have been popped only.
LEMMA PopTakeKeeps ==
  ASSUME Typed, Stacks, Slots, Passed, Kept, NEW i \in Threads, PopTake(i), halt' = "no"
  PROVE  Stacks' /\ Slots' /\ Passed' /\ Kept'
<1> USE DEF Finishing, Places
<1>1. nullptr \notin Task /\ 0 .. NumTasks \subseteq Nat
  BY LoadAssumption DEF Task, nullptr
<1>2. pc[i] = "take" /\ Goes(i, "clear") /\ UNCHANGED <<ended, finishing, running>>
      /\ UNCHANGED <<mLocalWorkQueue, mArray, waiting, mBottom, t>>
  BY DEF PopTake, ghosts
<1>3. Stacks' /\ (\A l : Taken(l)' = Taken(l)) /\ pc'[i] = "clear"
      /\ \A j \in Threads \ {i} : pc'[j] = pc[j]
  BY <1>2, SlotStack
<1>4. PICK b \in 0 .. NumTasks : b = t[i]
  BY DEF Typed
<1>5. x'[i] = mArray[b] /\ \A j \in Threads \ {i} : x'[j] = x[j]
  BY <1>4 DEF PopTake, Typed
<1>6. mTop' = b + 1 /\ b < mBottom /\ mBottom \in Nat /\ mTop \in 0 .. mBottom
      /\ \A j \in Threads : t[j] \in 0 .. NumTasks
  BY <1>2, <1>4 DEF PopTake, Slots, Typed
<1>7. pc[client] = "push" => t[client] # b
  BY <1>4 DEF PopTake, Halts
<1>8. \A j \in Threads \ {i} : pc'[j] = "clear" <=> pc[j] = "clear"
  BY <1>3
<1>9. \A l : Safe(l) => Safe(l)'
  BY <1>2, <1>3, <1>5 DEF Safe
<1>10. \A n : Done(n) => Done(n)'
  BY <1>2, <1>9 DEF Done
<1>11. Done(b)'
  BY <1>2, <1>3, <1>5 DEF Done, Safe
<1>12. Slots'
  <2>1. \A j \in Threads : pc'[j] \in {"take", "clear"} => t[j] < mBottom
    BY <1>2, <1>3 DEF Slots
  <2>2. \A j \in Threads : x'[j] # nullptr => pc'[j] \in {"push", "clear"}
    BY <1>3, <1>5 DEF Slots
  <2>3. ASSUME NEW j \in Threads, pc'[j] = "push"
        PROVE  /\ j = client /\ t[j] = mBottom - 1 /\ mTop' =< t[j] /\ mArray[t[j]] = nullptr
               /\ \A h \in Threads : pc'[h] = "clear" => t[h] < t[j]
    <3>1. pc[j] = "push" /\ j = client /\ t[j] = mBottom - 1 /\ mArray[t[j]] = nullptr
          /\ \A h \in Threads : pc[h] = "clear" => t[h] < t[j]
      BY <2>3, <1>3 DEF Slots
    <3>2. b < t[j]
      BY <3>1, <1>6, <1>7
    <3>3. \A h \in Threads : pc'[h] = "clear" => t[h] < t[j]
      BY <3>1, <3>2, <1>4, <1>8
    <3>4. mTop' =< t[j]
      BY <3>1, <3>2, <1>6
    <3> QED BY <3>1, <3>3, <3>4
  <2> QED BY <2>1, <2>2, <2>3, <1>2 DEF Slots
<1>13. Passed'
  <2>1. ASSUME NEW n \in 0 .. NumTasks, n < mTop' PROVE Done(n)'
    <3>1. n = b \/ n < b
      BY <2>1, <1>6
    <3>2. n < b => Done(n)
      BY <1>2, <1>4 DEF Passed
    <3> QED BY <3>1, <3>2, <1>10, <1>11
  <2>2. ASSUME NEW j \in Threads, NEW n \in 0 .. NumTasks,
               (pc'[j] = "take" /\ n < t[j]) \/ (pc'[j] = "clear" /\ n = t[j])
        PROVE  Done(n)'
    <3>1. CASE j = i
      BY <3>1, <2>2, <1>3, <1>4, <1>11
    <3>2. CASE j # i
      BY <3>2, <2>2, <1>3, <1>10 DEF Passed
    <3> QED BY <3>1, <3>2
  <2> QED BY <2>1, <2>2, <1>2 DEF Passed
<1>14. Kept'
  <2> SUFFICES ASSUME NEW l \in Task
               PROVE  \/ l \in waiting \/ Safe(l)'
                      \/ \E j \in Threads : l \in InQueue(j)' \/ (pc'[j] = "push" /\ x'[j] = l)
                      \/ \E n \in mTop' .. mBottom - 1 : mArray[n] = l
    BY <1>2 DEF Kept
  <2>1. \A j \in Threads : InQueue(j)' = InQueue(j)
    BY <1>2 DEF InQueue
  <2>2. \A j \in Threads : pc[j] = "push" => pc'[j] = "push" /\ x'[j] = x[j]
    BY <1>2, <1>3, <1>5
  <2>3. CASE \E n \in mTop .. mBottom - 1 : mArray[n] = l
    <3>1. PICK n \in mTop .. mBottom - 1 : mArray[n] = l
      BY <2>3
    <3>2. CASE n >= mTop'
      <4>1. n \in mTop' .. mBottom - 1
        BY <3>1, <3>2, <1>6
      <4> QED BY <3>1, <4>1
    <3>3. CASE n < mTop'
      <4>1. n \in 0 .. NumTasks
        BY <3>1, <3>3, <1>4, <1>6, LoadAssumption
      <4>2. Done(n)'
        BY <3>3, <4>1, <1>13 DEF Passed
      <4> QED BY <4>2, <3>1, <1>1, <1>2 DEF Done
    <3> QED BY <3>1, <3>2, <3>3, <1>6
  <2> QED BY <2>1, <2>2, <2>3, <1>9 DEF Kept
<1> QED BY <1>3, <1>12, <1>13, <1>14

\* The slot that is cleared holds no task that is not somewhere else.
LEMMA PopClearKeeps ==
  ASSUME Typed, Stacks, Slots, Passed, Kept, NEW i \in Threads, PopClear(i), halt' = "no", halt = "no"
  PROVE  Stacks' /\ Slots' /\ Passed' /\ Kept'
<1> USE DEF Finishing, Places
<1>1. nullptr \notin Task /\ 0 .. NumTasks \subseteq Nat
  BY LoadAssumption DEF Task, nullptr
<1>2. pc[i] = "clear" /\ UNCHANGED <<ended, finishing>>
      /\ UNCHANGED <<mLocalWorkQueue, mTop, waiting, mBottom, t>>
  BY DEF PopClear, ghosts
<1>3. PICK where \in {"open", "steal", "clear"} : pc'[i] = where /\ where # "clear"
  <2>1. CASE RunTask(i, x[i])
    BY <2>1, Going DEF RunTask
  <2>2. CASE Empty(i)
    BY <2>2, Going DEF Empty, Halts
  <2> QED BY <2>1, <2>2 DEF PopClear, Halts
<1>4. \A j \in Threads \ {i} : pc'[j] = pc[j]
  <2>1. CASE RunTask(i, x[i])
    BY <2>1, Going DEF RunTask
  <2>2. CASE Empty(i)
    BY <2>2, Going DEF Empty, Halts
  <2> QED BY <2>1, <2>2 DEF PopClear, Halts
<1>5. PICK b \in 0 .. NumTasks : b = t[i]
  BY DEF Typed
<1>6. /\ x'[i] = nullptr /\ \A j \in Threads \ {i} : x'[j] = x[j]
      /\ mArray'[b] = nullptr /\ \A n \in (0 .. NumTasks) \ {b} : mArray'[n] = mArray[n]
  BY <1>5 DEF PopClear, Typed
<1>7. mBottom \in Nat /\ mTop \in 0 .. mBottom /\ b < mBottom /\ mBottom =< NumTasks
  <2>1. IsFiniteSet(Task)
    BY SMTT(40), LoadAssumption, FS_Interval DEF Task
  <2>2. Cardinality(waiting) \in Nat
    BY <2>1, FS_Subset, FS_CardinalityType DEF Typed
  <2> QED BY <2>2, <1>2, <1>5, LoadAssumption DEF Typed, Slots
<1>8. Stacks'
  <2>1. CASE x[i] # nullptr /\ RunTask(i, x[i])
    <3>1. x[i] \in Task
      BY <2>1 DEF Typed
    <3> QED BY <2>1, <3>1, <1>2, LookingStack DEF RunTask
  <2>2. CASE Empty(i) /\ UNCHANGED running
    BY <2>2, <1>2, LookingStack DEF Empty, Halts
  <2> QED BY <2>1, <2>2 DEF PopClear, Halts
<1>9. /\ \A l : Taken(l) => Taken(l)'
      /\ \A l : l = x[i] /\ l # nullptr => Taken(l)'
  <2>1. CASE x[i] # nullptr /\ RunTask(i, x[i])
    <3>1. x[i] \in Task
      BY <2>1 DEF Typed
    <3>2. InCalls(i)' = InCalls(i) \cup {x[i]} /\ \A j \in Threads \ {i} : running'[j] = running[j]
      BY <2>1, <3>1, Turns DEF RunTask
    <3>3. \A j \in Threads \ {i} : InCalls(j)' = InCalls(j)
      BY <3>2 DEF InCalls
    <3> QED BY <3>2, <3>3, <1>2 DEF Taken
  <2>2. CASE x[i] = nullptr /\ UNCHANGED running
    <3>1. \A j \in Threads : InCalls(j)' = InCalls(j)
      BY <2>2 DEF InCalls
    <3> QED BY <2>2, <3>1, <1>2 DEF Taken
  <2>3. (x[i] # nullptr /\ RunTask(i, x[i])) \/ (x[i] = nullptr /\ UNCHANGED running)
    BY DEF PopClear, Halts
  <2> QED BY <2>1, <2>2, <2>3
<1>10. \A l \in Task : Safe(l) => Safe(l)'
  <2> SUFFICES ASSUME NEW l \in Task, Safe(l) PROVE Safe(l)'
    OBVIOUS
  <2>1. CASE Taken(l)
    BY <2>1, <1>9 DEF Safe
  <2>2. CASE l = x[i]
    BY <2>2, <1>1, <1>9 DEF Safe
  <2>3. ASSUME NEW j \in Threads \ {i}, pc[j] = "clear", x[j] = l PROVE Safe(l)'
    <3>1. pc'[j] = "clear" /\ x'[j] = l
      BY <2>3, <1>4, <1>6
    <3> QED BY <3>1 DEF Safe
  <2> QED BY <2>1, <2>2, <2>3 DEF Safe
<1>11. \A n \in 0 .. NumTasks : Done(n) => Done(n)'
  <2>1. mArray \in [0 .. NumTasks -> Task \cup {nullptr}]
    BY DEF Typed
  <2> QED BY <2>1, <1>6, <1>10 DEF Done
<1>12. Done(b)'
  BY <1>6 DEF Done
<1>13. Slots'
  <2>1. \A j \in Threads : pc'[j] \in {"take", "clear"} => t[j] < mBottom
    BY <1>3, <1>4 DEF Slots
  <2>2. \A j \in Threads : x'[j] # nullptr => pc'[j] \in {"push", "clear"}
    BY <1>4, <1>6 DEF Slots
  <2>3. ASSUME NEW j \in Threads, pc'[j] = "push"
        PROVE  /\ j = client /\ t[j] = mBottom - 1 /\ mTop =< t[j] /\ mArray'[t[j]] = nullptr
               /\ \A h \in Threads : pc'[h] = "clear" => t[h] < t[j]
    <3>1. j # i /\ pc[j] = "push"
      BY <2>3, <1>3, <1>4
    <3>2. t[j] \in 0 .. NumTasks /\ mArray[t[j]] = nullptr
      BY <3>1 DEF Slots, Typed
    <3>3. mArray'[t[j]] = nullptr
      BY <3>2, <1>6
    <3>4. \A h \in Threads : pc'[h] = "clear" => pc[h] = "clear"
      BY <1>3, <1>4
    <3> QED BY <3>1, <3>3, <3>4 DEF Slots
  <2>4. \A n \in mBottom .. NumTasks : mArray'[n] = nullptr
    BY <1>6, <1>7 DEF Slots
  <2> QED BY <2>1, <2>2, <2>3, <2>4, <1>2 DEF Slots
<1>14. Passed'
  <2>1. \A n \in 0 .. NumTasks : n < mTop => Done(n)'
    BY <1>11 DEF Passed
  <2>2. ASSUME NEW j \in Threads, NEW n \in 0 .. NumTasks,
               (pc'[j] = "take" /\ n < t[j]) \/ (pc'[j] = "clear" /\ n = t[j])
        PROVE  Done(n)'
    <3>1. j # i
      BY <2>2, <1>3
    <3> QED BY <3>1, <2>2, <1>4, <1>11 DEF Passed
  <2> QED BY <2>1, <2>2, <1>2 DEF Passed
<1>15. Kept'
  <2> SUFFICES ASSUME NEW l \in Task
               PROVE  \/ l \in waiting \/ Safe(l)'
                      \/ \E j \in Threads : l \in InQueue(j)' \/ (pc'[j] = "push" /\ x'[j] = l)
                      \/ \E n \in mTop .. mBottom - 1 : mArray'[n] = l
    BY <1>2 DEF Kept
  <2>1. \A j \in Threads : InQueue(j)' = InQueue(j)
    BY <1>2 DEF InQueue
  <2>2. \A j \in Threads : pc[j] = "push" => pc'[j] = "push" /\ x'[j] = x[j]
    BY <1>2, <1>4, <1>6
  <2>3. CASE \E n \in mTop .. mBottom - 1 : mArray[n] = l
    <3>1. PICK n \in mTop .. mBottom - 1 : mArray[n] = l
      BY <2>3
    <3>2. n \in 0 .. NumTasks
      BY <3>1, <1>7, LoadAssumption
    <3>3. CASE n = b
      <4>1. Done(b)
        BY <1>2, <1>5 DEF Passed
      <4>2. Safe(l)
        BY <4>1, <3>1, <3>3, <1>1 DEF Done
      <4> QED BY <4>2, <1>10
    <3>4. CASE n # b
      BY <3>1, <3>2, <3>4, <1>6
    <3> QED BY <3>3, <3>4
  <2> QED BY <2>1, <2>2, <2>3, <1>10 DEF Kept
<1> QED BY <1>8, <1>13, <1>14, <1>15

-----------------------------------------------------------------------------
(* The first state, and the theorems *)

\* Sets of tasks are finite.
LEMMA TaskSets ==
  ASSUME NEW S \in SUBSET Task
  PROVE  IsFiniteSet(S) /\ Cardinality(S) \in 0 .. NumTasks
<1>1. IsFiniteSet(Task) /\ Cardinality(Task) = NumTasks
  BY LoadAssumption, FS_Interval DEF Task
<1> QED BY <1>1, LoadAssumption, FS_Subset, FS_CardinalityType

\* A queue that is filled in order has each of its tasks once.
LEMMA InOrder ==
  ASSUME NEW S \in SUBSET Task
  PROVE  LET q == inOrder(S) IN
         /\ q \in Seq(S) /\ Len(q) = Cardinality(S)
         /\ \A k \in S : \E n \in 1 .. Cardinality(S) : q[n] = k
         /\ \A n, m \in 1 .. Cardinality(S) : q[n] = q[m] => n = m
<1> DEFINE N == Cardinality(S)
           lower(k) == {j \in S : j < k}
           rank(k) == Cardinality(lower(k))
           q == inOrder(S)
<1>0. IsFiniteSet(S) /\ N \in Nat /\ S \subseteq Nat
  BY TaskSets, LoadAssumption DEF Task
<1>1. ASSUME NEW k \in S PROVE IsFiniteSet(lower(k)) /\ rank(k) \in Nat
  <2>1. lower(k) \in SUBSET S
    OBVIOUS
  <2> QED BY <2>1, <1>0, FS_Subset, FS_CardinalityType
<1>2. ASSUME NEW k \in S, NEW T \in SUBSET S, lower(k) \subseteq T, k \in T
      PROVE  rank(k) < Cardinality(T)
  <2>1. k \notin lower(k)
    BY <1>0
  <2>2. Cardinality(lower(k) \cup {k}) = rank(k) + 1
    BY <1>1, <2>1, FS_AddElement
  <2>3. IsFiniteSet(T) /\ lower(k) \cup {k} \in SUBSET T
    BY <1>0, <1>2, FS_Subset
  <2>4. Cardinality(lower(k) \cup {k}) =< Cardinality(T)
    BY <2>3, FS_Subset, Zenon
  <2>5. Cardinality(T) \in Nat
    BY <2>3, FS_CardinalityType
  <2>6. rank(k) + 1 =< Cardinality(T) /\ rank(k) \in Nat
    BY <2>2, <2>4, <1>1, Zenon
  <2>7. \A a, c \in Nat : a + 1 =< c => a < c
    OBVIOUS
  <2> HIDE DEF rank
  <2> QED BY <2>5, <2>6, <2>7, Zenon
<1>3. \A k \in S : rank(k) \in 0 .. N - 1
  <2> SUFFICES ASSUME NEW k \in S PROVE rank(k) < N
    BY <1>0, <1>1
  <2> QED BY <1>2
<1>4. \A k, l \in S : k < l => rank(k) < rank(l)
  <2> SUFFICES ASSUME NEW k \in S, NEW l \in S, k < l PROVE rank(k) < rank(l)
    OBVIOUS
  <2>1. \A j \in S : j < k => j < l
    BY <1>0
  <2>2. lower(l) \in SUBSET S /\ lower(k) \subseteq lower(l) /\ k \in lower(l)
    BY <2>1
  <2> QED BY <2>2, <1>2
<1> HIDE DEF rank
<1>5. \A k, l \in S : rank(k) = rank(l) => k = l
  <2> SUFFICES ASSUME NEW k \in S, NEW l \in S, rank(k) = rank(l) PROVE k = l
    OBVIOUS
  <2>1. k < l \/ l < k \/ k = l
    BY <1>0
  <2>2. rank(k) \in Int /\ rank(l) \in Int
    BY <1>3
  <2> QED BY <2>1, <2>2, <1>4
<1>6. \A n \in 1 .. N : \E k \in S : rank(k) = n - 1
  <2> DEFINE f == [k \in S |-> rank(k)]
             T == 0 .. N - 1
  <2>1. f \in Injection(S, T)
    BY <1>3, <1>5 DEF Injection, IsInjective
  <2>2. IsFiniteSet(T) /\ Cardinality(T) = N
    <3>1. N \in Nat
      BY <1>0
    <3> HIDE DEF N
    <3>2. 0 \in Int /\ N - 1 \in Int
      BY <3>1
    <3>3. IsFiniteSet(T) /\ Cardinality(T) = IF 0 > N - 1 THEN 0 ELSE (N - 1) - 0 + 1
      BY <3>2, FS_Interval
    <3> QED BY <3>1, <3>3
  <2>3. f \in Surjection(S, T)
    BY <2>1, <2>2, FS_Injection
  <2>4. \A m \in T : \E k \in S : f[k] = m
    BY <2>3 DEF Surjection
  <2>5. \A n \in 1 .. N : n - 1 \in T
    BY <1>0
  <2> QED BY <2>4, <2>5
<1>7. q = [n \in 1 .. N |-> CHOOSE k \in S : rank(k) = n - 1]
  BY DEF inOrder, rank
<1>8. \A n \in 1 .. N : q[n] \in S /\ rank(q[n]) = n - 1
  BY <1>6, <1>7
<1>9. q \in [1 .. N -> S]
  BY <1>7, <1>8
<1> HIDE DEF q
<1>10. q \in Seq(S) /\ Len(q) = N
  BY <1>0, <1>9
<1>11. \A k \in S : \E n \in 1 .. N : q[n] = k
  <2> SUFFICES ASSUME NEW k \in S PROVE \E n \in 1 .. N : q[n] = k
    OBVIOUS
  <2>1. PICK n \in 1 .. N : n = rank(k) + 1
    BY <1>3, <1>0
  <2>2. rank(k) \in Int
    BY <1>3
  <2>3. rank(q[n]) = rank(k)
    BY <2>1, <2>2, <1>8
  <2> QED BY <2>3, <1>5, <1>8
<1>12. \A n, m \in 1 .. N : q[n] = q[m] => n = m
  <2> SUFFICES ASSUME NEW n \in 1 .. N, NEW m \in 1 .. N, q[n] = q[m] PROVE n = m
    OBVIOUS
  <2>1. n - 1 = m - 1
    BY <1>8
  <2> QED BY <2>1
<1> QED BY <1>10, <1>11, <1>12 DEF q

\* The client has just loaded its tasks.
LEMMA InitInv == ASSUME Init PROVE Inv
<1>1. PICK l \in Loads :
        LET shared == inOrder(Load(l, inGlobal))
        IN  /\ mParent = l.parent
            /\ mOpenTasks = [k \in Task |-> 1 + Cardinality({c \in Task : l.parent[c] = k})]
            /\ mLocalWorkQueue = [i \in Threads |-> inOrder(Load(l, i))]
            /\ mTop = 0 /\ mBottom = Len(shared)
            /\ mArray = [n \in 0 .. NumTasks |-> IF n < mBottom THEN shared[n + 1] ELSE nullptr]
            /\ waiting = Load(l, withClient)
            /\ mMutex = nobody
            /\ pc = [i \in Threads |-> IF i = client THEN "look" ELSE "wait"]
            /\ t = [i \in Threads |-> 0] /\ x = [i \in Threads |-> nullptr]
            /\ running = [i \in Threads |-> <<>>] /\ finishing = [i \in Threads |-> <<>>]
            /\ ran = [k \in Task |-> 0] /\ ended = {} /\ returned = [k \in Task |-> 0]
            /\ halt = "no"
  BY DEF Init
<1> DEFINE G == Load(l, inGlobal)
           W == Load(l, withClient)
           shared == inOrder(G)
<1>2. /\ \A k \in Task : l.parent[k] \in 0 .. k - 1
      /\ l.queue \in [Task -> Threads \cup {inGlobal, withClient}]
      /\ NumTasks \in Nat /\ CountLimit \in Nat /\ CountLimit > NumTasks
      /\ nullptr \notin Task /\ 0 \notin Task
  BY LoadAssumption DEF Task, nullptr
<1>3. /\ shared \in Seq(G) /\ Len(shared) = Cardinality(G)
      /\ \A k \in G : \E n \in 1 .. Cardinality(G) : shared[n] = k
  <2>1. G \in SUBSET Task
    BY DEF Load
  <2> QED BY <2>1, InOrder
<1>4. Cardinality(G) \in Nat /\ Cardinality(G) + Cardinality(W) =< NumTasks
  <2>1. G \in SUBSET Task /\ W \in SUBSET Task /\ G \cup W \in SUBSET Task
    BY DEF Load
  <2>2. G \cap W = {}
    BY DEF Load, inGlobal, withClient
  <2>3. Cardinality(G \cap W) = 0
    BY <2>2, FS_EmptySet
  <2>4. Cardinality(G \cup W) = Cardinality(G) + Cardinality(W) - Cardinality(G \cap W)
    BY <2>1, TaskSets, FS_Union
  <2>5. Cardinality(G) \in 0 .. NumTasks /\ Cardinality(W) \in 0 .. NumTasks
        /\ Cardinality(G \cup W) \in 0 .. NumTasks
    BY <2>1, TaskSets
  <2> QED BY <2>3, <2>4, <2>5, <1>2
<1>5. mBottom = Cardinality(G) /\ mBottom \in 0 .. NumTasks
  <2>1. Cardinality(W) \in 0 .. NumTasks
    BY TaskSets DEF Load
  <2> QED BY <1>1, <1>3, <1>4, <1>2, <2>1
<1>6. mOpenTasks \in [Task -> 0 .. CountLimit - 1]
  <2> SUFFICES ASSUME NEW k \in Task
               PROVE  1 + Cardinality({c \in Task : l.parent[c] = k}) \in 0 .. CountLimit - 1
    BY <1>1
  <2> DEFINE C == {c \in Task : l.parent[c] = k}
  <2>1. k \notin C
    BY <1>2 DEF Task
  <2>2. C \in SUBSET Task /\ C \cup {k} \in SUBSET Task
    OBVIOUS
  <2>3. IsFiniteSet(C) /\ Cardinality(C) \in 0 .. NumTasks /\ Cardinality(C \cup {k}) \in 0 .. NumTasks
    BY <2>2, TaskSets
  <2>4. Cardinality(C \cup {k}) = Cardinality(C) + 1
    BY <2>1, <2>3, FS_AddElement
  <2> HIDE DEF C
  <2>5. 1 + Cardinality(C) \in 0 .. CountLimit - 1
    BY <2>3, <2>4, <1>2
  <2> QED BY <2>5 DEF C
<1>7. mLocalWorkQueue \in [Threads -> Seq(Task)]
  <2> SUFFICES ASSUME NEW i \in Threads PROVE inOrder(Load(l, i)) \in Seq(Task)
    BY <1>1
  <2>1. Load(l, i) \in SUBSET Task
    BY DEF Load
  <2>2. inOrder(Load(l, i)) \in Seq(Load(l, i))
    BY <2>1, InOrder
  <2> QED BY <2>1, <2>2, SeqMonotonic
<1>8. mArray \in [0 .. NumTasks -> Task \cup {nullptr}]
  <2> SUFFICES ASSUME NEW n \in 0 .. NumTasks, n < mBottom PROVE shared[n + 1] \in Task
    BY <1>1
  <2>1. n + 1 \in 1 .. Len(shared)
    BY <1>3, <1>4, <1>5, <1>2
  <2>2. shared[n + 1] \in G
    BY <2>1, <1>3, ElementOfSeq
  <2> QED BY <2>2 DEF Load
<1>9. Typed
  <2>1. pc \in [Threads -> Places]
    BY <1>1 DEF Places
  <2>2. running \in [Threads -> Seq(Task)] /\ finishing \in [Threads -> Seq(Frame)]
    BY <1>1
  <2>3. waiting \subseteq Task
    BY <1>1 DEF Load
  <2>4. mTop \in 0 .. mBottom /\ mBottom \in Nat /\ mBottom + Cardinality(waiting) =< NumTasks
    BY <1>1, <1>4, <1>5
  <2>5. t \in [Threads -> 0 .. NumTasks] /\ x \in [Threads -> Task \cup {nullptr}]
        /\ ran \in [Task -> Nat] /\ returned \in [Task -> Nat] /\ ended \subseteq Task
        /\ mMutex \in Threads \cup {nobody} /\ halt \in Reasons
    BY <1>1, <1>2 DEF Reasons
  <2> QED BY <1>1, <1>2, <1>6, <1>7, <1>8, <2>1, <2>2, <2>3, <2>4, <2>5 DEF Typed
<1>10. \A i \in Threads : pc[i] \in {"look", "wait"} /\ x[i] = nullptr /\ running[i] = <<>> /\ finishing[i] = <<>>
  BY <1>1
<1>11. Stacks
  BY <1>10 DEF Stacks, StackOf, Past, Finishing
<1>12. Slots
  <2>1. \A n \in mBottom .. NumTasks : mArray[n] = nullptr
    BY <1>1, <1>5
  <2> QED BY <2>1, <1>10 DEF Slots
<1>13. Passed
  BY <1>1, <1>10 DEF Passed
<1>14. Kept
  <2> SUFFICES ASSUME NEW k \in Task
               PROVE  \/ k \in waiting \/ \E i \in Threads : k \in InQueue(i)
                      \/ \E n \in mTop .. mBottom - 1 : mArray[n] = k
    BY DEF Kept
  <2>1. CASE k \in W
    BY <2>1, <1>1
  <2>2. CASE k \in G
    <3>1. PICK n \in 1 .. Cardinality(G) : shared[n] = k
      BY <2>2, <1>3
    <3>2. n - 1 \in mTop .. mBottom - 1 /\ n - 1 \in 0 .. NumTasks /\ n - 1 < mBottom
      BY <1>1, <1>4, <1>5, <1>2
    <3>3. mArray[n - 1] = shared[(n - 1) + 1]
      BY <1>1, <3>2
    <3>4. mArray[n - 1] = k
      BY <3>1, <3>3
    <3> QED BY <3>2, <3>4
  <2>3. ASSUME NEW i \in Threads, k \in Load(l, i) PROVE k \in InQueue(i)
    <3> DEFINE q == inOrder(Load(l, i))
    <3>1. Load(l, i) \in SUBSET Task
      BY DEF Load
    <3>2. /\ q \in Seq(Load(l, i)) /\ Len(q) = Cardinality(Load(l, i))
          /\ \E n \in 1 .. Cardinality(Load(l, i)) : q[n] = k
      BY <3>1, <2>3, InOrder
    <3>3. mLocalWorkQueue[i] = q
      BY <1>1
    <3> HIDE DEF q
    <3>4. DOMAIN q = 1 .. Len(q)
      BY <3>2
    <3> QED BY <3>2, <3>3, <3>4 DEF InQueue
  <2>4. l.queue[k] \in Threads \cup {inGlobal, withClient}
    BY <1>2
  <2> QED BY <2>1, <2>2, <2>3, <2>4 DEF Load
<1> QED BY <1>9, <1>11, <1>12, <1>13, <1>14 DEF Inv

\* Only a run that has not ended takes a step.
LEMMA StepTyped == ASSUME Inv, Next PROVE halt = "no" /\ Typed'
<1>1. halt = "no"
  BY DEF Next, Step
<1>2. Typed /\ Stacks /\ Slots
  BY <1>1 DEF Inv
<1>3. ASSUME NEW i \in Threads, Step(i) PROVE Typed'
  <2>1. StackOf(i)
    BY <1>2 DEF Stacks
  <2> QED BY <1>2, <1>3, <2>1, GlobalTyped, FindTyped, WildTyped, RunTyped DEF Step
<1> QED BY <1>1, <1>2, <1>3, PushTyped, FindTyped DEF Next

\* Every step after which the run goes on keeps the bookkeeping.
LEMMA StepKeeps ==
  ASSUME Inv, Next, halt' = "no" PROVE Stacks' /\ Slots' /\ Passed' /\ Kept'
<1>1. halt = "no"
  BY StepTyped
<1>2. Typed /\ Stacks /\ Slots /\ Passed /\ Kept
  BY <1>1 DEF Inv
<1>3. ASSUME NEW i \in Threads, Step(i) PROVE Stacks' /\ Slots' /\ Passed' /\ Kept'
  <2>1. ~PopWild(i)
    BY <1>2, WildTyped
  <2> QED BY <1>1, <1>2, <1>3, <2>1, FindKeeps, RunKeeps, PopTestKeeps, PopTakeKeeps, PopClearKeeps,
             PushStoreKeeps
      DEF Step
<1> QED BY <1>2, <1>3, PushKeeps, FindKeeps DEF Next

\* The bookkeeping of the queues, the threads and the calls holds whatever the races in pop.
THEOREM SchedulerInvariant == Spec => []Inv
<1>1. Inv /\ [Next]_vars => Inv'
  <2>1. CASE Inv /\ Next
    BY <2>1, StepTyped, StepKeeps DEF Inv
  <2>2. CASE Inv /\ UNCHANGED vars
    BY <2>2 DEF Inv, Typed, Stacks, StackOf, Past, Slots, Passed, Done, Safe, Taken, InCalls, Kept,
                InQueue, vars, tasks, global, calls, ghosts
  <2> QED BY <2>1, <2>2
<1> QED BY <1>1, InitInv, PTL DEF Spec

\* Every variable keeps its range: mTop never passes mBottom, and neither passes the array,
\* although the threads that store mTop may have read it long before.
THEOREM SchedulerTypes == Spec => []TypeOK
<1>1. Inv => TypeOK
  <2> SUFFICES ASSUME Inv PROVE TypeOK
    OBVIOUS
  <2>1. Typed
    BY DEF Inv
  <2>2. Cardinality(waiting) \in Nat
    BY <2>1, TaskSets, LoadAssumption DEF Typed
  <2>3. mBottom \in 0 .. NumTasks
    BY <2>1, <2>2, LoadAssumption DEF Typed
  <2>4. \A i \in Threads : InCalls(i) \subseteq Task
    BY <2>1 DEF Typed, InCalls
  <2> QED BY <2>1, <2>3, <2>4 DEF TypeOK, Typed, Places, Finishing, Reasons
<1> QED BY <1>1, SchedulerInvariant, PTL

\* No task is lost, whatever the number of threads that pop from the global queue without a
\* lock: mTop may jump back, and forward again, but only over tasks somebody has popped.
THEOREM NoTaskDisappears == Spec => []NothingLost
<1>1. Inv => NothingLost
  <2> SUFFICES ASSUME Inv, halt = "no", NEW k \in Task
               PROVE  \/ k \in waiting \cup ended
                      \/ \E i \in Threads : x[i] = k \/ k \in InCalls(i) \/ k \in InQueue(i)
                      \/ \E n \in mTop .. mBottom - 1 : mArray[n] = k
    BY DEF NothingLost, InQueue
  <2>1. Kept
    BY DEF Inv
  <2> QED BY <2>1 DEF Kept, Safe, Taken
<1> QED BY <1>1, SchedulerInvariant, PTL

-----------------------------------------------------------------------------
(* The order of kernels.  A task is found once, ends once and counts its parent down once.
   With two generations the count of a task is then the number of its children that have
   not counted it down, and itself: finishTask, which goes all the way up, counts nobody
   else's. *)

\* No task is on two stacks, and one that has ended is only left to tell its parent.
Once ==
  /\ \A i, j \in Threads : \A n \in DOMAIN running[i], m \in DOMAIN running[j] :
        running[i][n] = running[j][m] => i = j /\ n = m
  /\ \A i \in Threads : \A n \in DOMAIN running[i] : running[i][n] \in ended => n = 1 /\ Past(i)

\* A task in a local queue is nowhere else.
Global == waiting \cup {x[i] : i \in Threads} \cup {mArray[n] : n \in 0 .. NumTasks}

Fresh ==
  /\ \A i \in Threads : \A k \in InQueue(i) : ~Taken(k) /\ k \notin Global
  /\ \A i, j \in Threads : \A n \in DOMAIN mLocalWorkQueue[i], m \in DOMAIN mLocalWorkQueue[j] :
        mLocalWorkQueue[i][n] = mLocalWorkQueue[j][m] => i = j /\ n = m

\* A call of finishTask for a task, and perhaps one for its parent inside it.
Frames ==
  \A i \in Threads :
    /\ finishing[i] = <<>> \/ Len(finishing[i]) \in {1, 2}
    /\ Len(finishing[i]) = 2 => finishing[i][1].task = mParent[finishing[i][2].task]

\* The kernel has been called, and the task has not ended.
Kernel(i) == pc[i] = "finish" /\ Len(finishing[i]) = 1
Ran ==
  \A k \in Task :
    ran[k] = IF k \in ended \/ \E i \in Threads : Kernel(i) /\ running[i][1] = k THEN 1 ELSE 0

\* The parent has not been counted down yet.
Notifying(i) ==
  (pc[i] = "parent" /\ Len(finishing[i]) = 1) \/ (pc[i] = "finish" /\ Len(finishing[i]) = 2)
Pending(c)  == c \notin ended \/ \E i \in Threads : Notifying(i) /\ running[i][1] = c
OpenOnes(k) == {c \in Children(k) : Pending(c)}
self(k)     == IF k \in ended THEN 0 ELSE 1
Counts      == \A k \in Task : mOpenTasks[k] = self(k) + Cardinality(OpenOnes(k))

\* A call that has counted down to zero, and not returned the node yet.
AtZero(i, n) ==
  n \in DOMAIN finishing[i] /\ (pc[i] = "finish" => n # 1) /\ finishing[i][n].open = 0

\* There is one such call, or the node has been returned.
LastCall ==
  /\ \A i \in Threads, n \in {1, 2} : AtZero(i, n) =>
        mOpenTasks[finishing[i][n].task] = 0 /\ returned[finishing[i][n].task] = 0
  /\ \A i, j \in Threads, n, m \in {1, 2} :
        AtZero(i, n) /\ AtZero(j, m) /\ finishing[i][n].task = finishing[j][m].task => i = j /\ n = m
  /\ \A k \in Task : returned[k] \in {0, 1} /\ (returned[k] = 1 => mOpenTasks[k] = 0)

Two == \A k \in Task : mParent[k] # nullptr => mParent[mParent[k]] = nullptr

Order == Once /\ Frames /\ Ran /\ Counts /\ LastCall

OrderInv == Two /\ (IF halt = "no" THEN Order /\ Fresh ELSE ReturnedWhole)

\* What the calls of finishTask and the stacks say stays true of a thread in neither.
LEMMA QuietOrder ==
  ASSUME Typed, Order, NEW i \in Threads, pc[i] \notin Finishing, pc'[i] \notin Finishing,
         \A j \in Threads \ {i} : pc'[j] = pc[j],
         UNCHANGED <<mParent, mOpenTasks, running, finishing, ghosts>>
  PROVE  Order'
<1> USE DEF tasks, ghosts
<1>1. \A j \in Threads, w \in Finishing : pc'[j] = w <=> pc[j] = w
  OBVIOUS
<1>2. \A j \in Threads : /\ pc'[j] = "finish" <=> pc[j] = "finish"
                         /\ pc'[j] = "parent" <=> pc[j] = "parent"
                         /\ pc'[j] = "return" <=> pc[j] = "return"
  BY <1>1 DEF Finishing
<1>3. Once' /\ Frames' /\ Ran' /\ LastCall'
  BY <1>2 DEF Order, Once, Past, Frames, Ran, Kernel, LastCall, AtZero
<1>4. \A k : OpenOnes(k)' = OpenOnes(k) /\ self(k)' = self(k)
  BY <1>2 DEF OpenOnes, Pending, Notifying, Children, self
<1>5. Counts'
  BY <1>4 DEF Order, Counts
<1> QED BY <1>3, <1>5 DEF Order

\* A thread turns to a task nobody has turned to.
LEMMA TurnOrder ==
  ASSUME Typed, Order, NEW i \in Threads, NEW k \in Task, ~Taken(k),
         pc[i] \notin Finishing, pc'[i] = "open",
         \A j \in Threads \ {i} : pc'[j] = pc[j],
         running' = [running EXCEPT ![i] = <<k>> \o @],
         UNCHANGED <<mParent, mOpenTasks, finishing, ghosts>>
  PROVE  Order'
<1> USE DEF tasks, ghosts
<1>0. running \in [Threads -> Seq(Task)]
  BY DEF Typed
<1>1. \A j \in Threads, w \in Finishing : pc'[j] = w <=> pc[j] = w
  BY DEF Finishing
<1>2. \A j \in Threads : /\ pc'[j] = "finish" <=> pc[j] = "finish"
                         /\ pc'[j] = "parent" <=> pc[j] = "parent"
                         /\ pc'[j] = "return" <=> pc[j] = "return"
                         /\ pc[j] \in Finishing => j # i
  BY <1>1 DEF Finishing
<1>3. /\ running'[i][1] = k /\ DOMAIN running'[i] = 1 .. Len(running[i]) + 1
      /\ \A n \in 1 .. Len(running[i]) : running'[i][n + 1] = running[i][n]
      /\ \A j \in Threads \ {i} : running'[j] = running[j]
      /\ Len(running[i]) \in Nat /\ DOMAIN running[i] = 1 .. Len(running[i])
  BY <1>0, Turns
<1>4. \A n \in DOMAIN running'[i] : n = 1 \/ (n - 1 \in DOMAIN running[i] /\ running'[i][n] = running[i][n - 1])
  <2> SUFFICES ASSUME NEW n \in DOMAIN running'[i], n # 1
               PROVE  n - 1 \in DOMAIN running[i] /\ running'[i][n] = running[i][n - 1]
    OBVIOUS
  <2>1. n - 1 \in 1 .. Len(running[i]) /\ running'[i][(n - 1) + 1] = running[i][n - 1]
    BY <1>3
  <2> QED BY <2>1, <1>3
<1>5. k \notin ended /\ \A j \in Threads : \A n \in DOMAIN running[j] : running[j][n] # k
  BY DEF Taken, InCalls
<1>6. ~Past(i) /\ ~Past(i)'
  BY <1>2 DEF Past, Finishing
<1>7. Once'
  <2>1. ASSUME NEW j \in Threads, NEW h \in Threads,
               NEW n \in DOMAIN running'[j], NEW m \in DOMAIN running'[h],
               running'[j][n] = running'[h][m]
        PROVE  j = h /\ n = m
    <3>1. CASE j = i /\ h = i
      <4>1. n \in Int /\ m \in Int
        BY <3>1, <1>3
      <4> QED BY <3>1, <4>1, <2>1, <1>3, <1>4, <1>5 DEF Order, Once
    <3>2. CASE j # i /\ h # i
      BY <3>2, <2>1, <1>3 DEF Order, Once
    <3>3. CASE j = i /\ h # i
      <4>1. running'[i][n] = running[h][m] /\ m \in DOMAIN running[h]
        BY <3>3, <2>1, <1>3
      <4>2. n # 1
        BY <4>1, <1>3, <1>5
      <4> QED BY <3>3, <4>1, <4>2, <1>4 DEF Order, Once
    <3>4. CASE j # i /\ h = i
      <4>1. running'[i][m] = running[j][n] /\ n \in DOMAIN running[j]
        BY <3>4, <2>1, <1>3
      <4>2. m # 1
        BY <4>1, <1>3, <1>5
      <4> QED BY <3>4, <4>1, <4>2, <1>4 DEF Order, Once
    <3> QED BY <3>1, <3>2, <3>3, <3>4
  <2>2. ASSUME NEW j \in Threads, NEW n \in DOMAIN running'[j], running'[j][n] \in ended
        PROVE  n = 1 /\ Past(j)'
    <3>1. CASE j = i
      BY <3>1, <2>2, <1>3, <1>4, <1>5, <1>6 DEF Order, Once
    <3>2. CASE j # i
      BY <3>2, <2>2, <1>2, <1>3 DEF Order, Once, Past
    <3> QED BY <3>1, <3>2
  <2> QED BY <2>1, <2>2 DEF Once
<1>8. Frames' /\ LastCall'
  BY <1>2 DEF Order, Frames, LastCall, AtZero
<1>9. \A j \in Threads : pc[j] \in Finishing => running'[j] = running[j]
  BY <1>2, <1>3
<1>10. Ran'
  BY <1>2, <1>9 DEF Order, Ran, Kernel, Finishing
<1>11. Counts'
  <2>1. \A c \in Task : OpenOnes(c)' = OpenOnes(c) /\ self(c)' = self(c)
    BY <1>2, <1>9 DEF OpenOnes, Pending, Notifying, Children, self, Finishing
  <2> QED BY <2>1 DEF Order, Counts
<1> QED BY <1>7, <1>8, <1>10, <1>11 DEF Order

\* The kernel is called, for the first time, after those of the children have ended.
LEMMA RunKernelOrder ==
  ASSUME Typed, Stacks, Order, NEW i \in Threads, RunKernel(i)
  PROVE  /\ Order'
         /\ running[i] # <<>> /\ Head(running[i]) = running[i][1] /\ running[i][1] \in Task
         /\ ran' = [ran EXCEPT ![running[i][1]] = 1] /\ ran[running[i][1]] = 0
         /\ Children(running[i][1]) \subseteq ended
<1> USE DEF tasks
<1>0. running[i] \in Seq(Task) /\ StackOf(i) /\ finishing \in [Threads -> Seq(Frame)] /\ ran \in [Task -> Nat]
  BY DEF Typed, Stacks
<1>1. running[i] # <<>> /\ pc[i] = "open" /\ finishing[i] = <<>>
  BY <1>0 DEF RunKernel, StackOf, Finishing
<1>2. PICK k \in Task : k = Head(running[i]) /\ k = running[i][1] /\ 1 \in DOMAIN running[i]
  <2>1. /\ Head(running[i]) = running[i][1] /\ running[i][1] \in Task
        /\ DOMAIN running[i] = 1 .. Len(running[i]) /\ Len(running[i]) \in Nat \ {0}
    BY <1>0, <1>1, Below
  <2>2. 1 \in DOMAIN running[i]
    BY <2>1
  <2> QED BY <2>1, <2>2
<1>3. pc'[i] = "finish" /\ \A j \in Threads \ {i} : pc'[j] = pc[j]
  BY Going DEF RunKernel, Places, Finishing
<1>4. PICK f : f = [task |-> k, open |-> 0]
  OBVIOUS
<1>5. finishing'[i] = <<f>> /\ \A j \in Threads \ {i} : finishing'[j] = finishing[j]
  BY <1>0, <1>2, <1>4 DEF RunKernel
<1>6. Len(finishing'[i]) = 1 /\ DOMAIN finishing'[i] = {1} /\ finishing'[i] # <<>>
  BY <1>5
<1>7. UNCHANGED <<running, mOpenTasks, mParent, ended, returned>> /\ ~isOpen(k)
      /\ ran' = [ran EXCEPT ![k] = @ + 1]
  BY <1>2 DEF RunKernel
<1>8. k \notin ended
  BY <1>1, <1>2 DEF Order, Once, Past
<1>9. \A j \in Threads : pc[j] \in Finishing => running[j] # <<>> /\ 1 \in DOMAIN running[j]
  <2> SUFFICES ASSUME NEW j \in Threads, pc[j] \in Finishing
               PROVE  running[j] # <<>> /\ 1 \in DOMAIN running[j]
    OBVIOUS
  <2>1. running[j] # <<>> /\ running[j] \in Seq(Task)
    BY DEF Stacks, StackOf, Typed
  <2> QED BY <2>1, Below
<1>10. \A j \in Threads : pc[j] \in Finishing => running[j][1] # k
  BY <1>1, <1>2, <1>9 DEF Order, Once, Finishing
<1>11. ran[k] = 0
  BY <1>8, <1>10 DEF Order, Ran, Kernel, Finishing
<1>12. ran' = [ran EXCEPT ![k] = 1]
  BY <1>0, <1>7, <1>11
<1>13. Children(k) \subseteq ended
  <2>1. OpenOnes(k) \in SUBSET Task
    BY DEF OpenOnes, Children
  <2>2. IsFiniteSet(OpenOnes(k)) /\ Cardinality(OpenOnes(k)) \in Nat
    BY <2>1, TaskSets, LoadAssumption
  <2>3. mOpenTasks[k] = 1 + Cardinality(OpenOnes(k)) /\ ~(mOpenTasks[k] > 1)
    BY <1>7, <1>8 DEF Order, Counts, self, isOpen
  <2>4. Cardinality(OpenOnes(k)) = 0
    BY <2>2, <2>3
  <2>5. OpenOnes(k) = {}
    BY <2>2, <2>4, FS_EmptySet
  <2> QED BY <2>5 DEF OpenOnes, Pending
<1>14. Once'
  <2>1. \A j \in Threads : Past(j) => Past(j)'
    BY <1>1, <1>3, <1>5 DEF Past
  <2> QED BY <2>1, <1>7 DEF Order, Once
<1>15. Frames'
  <2>1. ASSUME NEW j \in Threads
        PROVE  /\ finishing'[j] = <<>> \/ Len(finishing'[j]) \in {1, 2}
               /\ Len(finishing'[j]) = 2 => finishing'[j][1].task = mParent[finishing'[j][2].task]
    <3>1. CASE j = i
      BY <3>1, <1>6
    <3>2. CASE j # i
      BY <3>2, <1>5 DEF Order, Frames
    <3> QED BY <3>1, <3>2
  <2> QED BY <2>1, <1>7 DEF Frames
<1>16. Ran'
  <2>1. \A j \in Threads \ {i} : Kernel(j)' <=> Kernel(j)
    BY <1>3, <1>5 DEF Kernel
  <2>2. Kernel(i)' /\ ~Kernel(i)
    BY <1>1, <1>3, <1>6 DEF Kernel
  <2>3. ASSUME NEW l \in Task
        PROVE  ran'[l] = IF l \in ended \/ \E j \in Threads : Kernel(j)' /\ running[j][1] = l THEN 1 ELSE 0
    <3>1. CASE l = k
      BY <3>1, <2>2, <1>0, <1>2, <1>12
    <3>2. CASE l # k
      BY <3>2, <2>1, <2>2, <1>0, <1>2, <1>12 DEF Order, Ran
    <3> QED BY <3>1, <3>2
  <2> QED BY <2>3, <1>7 DEF Ran
<1>17. Counts'
  <2>1. \A j \in Threads : Notifying(j)' <=> Notifying(j)
    BY <1>1, <1>3, <1>5, <1>6 DEF Notifying
  <2>2. \A l \in Task : OpenOnes(l)' = OpenOnes(l) /\ self(l)' = self(l)
    BY <2>1, <1>7 DEF OpenOnes, Pending, Children, self
  <2> QED BY <2>2, <1>7 DEF Order, Counts
<1>18. LastCall'
  <2>1. \A n : ~AtZero(i, n)'
    BY <1>3, <1>6 DEF AtZero
  <2>2. \A j \in Threads \ {i} : \A n : AtZero(j, n)' <=> AtZero(j, n)
    BY <1>3, <1>5 DEF AtZero
  <2> QED BY <2>1, <2>2, <1>5, <1>7 DEF Order, LastCall
<1> QED BY <1>1, <1>2, <1>11, <1>12, <1>13, <1>14, <1>15, <1>16, <1>17, <1>18 DEF Order

\* What the thread in finishTask knows of its task and, in the call inside, of its parent.
LEMMA FrameFacts ==
  ASSUME Typed, Stacks, Order, NEW i \in Threads, pc[i] \in Finishing
  PROVE  /\ running[i] # <<>> /\ running[i] \in Seq(Task)
         /\ 1 \in DOMAIN running[i] /\ running[i][1] \in Task
         /\ finishing[i] # <<>> /\ finishing[i] \in Seq(Frame)
         /\ Len(finishing[i]) \in {1, 2} /\ DOMAIN finishing[i] = 1 .. Len(finishing[i])
         /\ finishing[i][1] \in Frame /\ Head(finishing[i]) = finishing[i][1]
         /\ current(i) = finishing[i][1].task /\ current(i) \in Task
         /\ Len(finishing[i]) = 1 => current(i) = running[i][1]
         /\ Len(finishing[i]) = 2 =>
               /\ finishing[i][2].task = running[i][1] /\ current(i) = mParent[running[i][1]]
         /\ \A j \in Threads : pc[j] \in Finishing /\ running[j][1] = running[i][1] => j = i
<1>1. ASSUME NEW j \in Threads, pc[j] \in Finishing
      PROVE  running[j] # <<>> /\ 1 \in DOMAIN running[j] /\ running[j][1] \in Task /\ running[j] \in Seq(Task)
  <2>1. running[j] # <<>> /\ running[j] \in Seq(Task)
    BY <1>1 DEF Stacks, StackOf, Typed
  <2> QED BY <2>1, Below
<1>2. finishing[i] # <<>> /\ finishing[i] \in Seq(Frame)
  BY DEF Stacks, StackOf, Typed
<1>3. /\ Len(finishing[i]) \in {1, 2} /\ DOMAIN finishing[i] = 1 .. Len(finishing[i])
      /\ finishing[i][1] \in Frame /\ Head(finishing[i]) = finishing[i][1]
  BY <1>2, Below DEF Order, Frames
<1>4. current(i) = finishing[i][1].task /\ current(i) \in Task
  BY <1>3 DEF current, Frame
<1>5. finishing[i][Len(finishing[i])].task = running[i][1]
  BY <1>2 DEF Stacks, StackOf
<1>6. Len(finishing[i]) = 2 => finishing[i][1].task = mParent[finishing[i][2].task]
  BY DEF Order, Frames
<1>7. \A j \in Threads : pc[j] \in Finishing /\ running[j][1] = running[i][1] => j = i
  BY <1>1 DEF Order, Once
<1> QED BY <1>1, <1>2, <1>3, <1>4, <1>5, <1>6, <1>7

\* finishTask goes on to the parent, and no further: a parent has none.
LEMMA NotifyParentOrder ==
  ASSUME Typed, Stacks, Order, Two, NEW i \in Threads, NotifyParent(i)
  PROVE  Order'
<1> USE DEF tasks, ghosts
<1>0. pc[i] = "parent" /\ UNCHANGED <<mParent, mOpenTasks, running, ran, ended, returned>>
  BY DEF NotifyParent
<1>1. PICK k \in Task, fin \in Seq(Frame) :
      /\ k = current(i) /\ fin = finishing[i]
      /\ running[i][1] \in Task /\ fin # <<>> /\ Len(fin) \in {1, 2}
      /\ DOMAIN fin = 1 .. Len(fin) /\ fin[1] \in Frame /\ k = fin[1].task
      /\ Len(fin) = 1 => k = running[i][1]
      /\ Len(fin) = 2 => fin[2].task = running[i][1] /\ k = mParent[running[i][1]]
  BY <1>0, FrameFacts DEF Finishing
<1>2. CASE mParent[k] # nullptr
  <2>1. Len(fin) = 1
    <3>1. nullptr \notin Task
      BY LoadAssumption DEF Task, nullptr
    <3>2. Len(fin) = 2 => mParent[running[i][1]] # nullptr /\ mParent[mParent[running[i][1]]] # nullptr
      BY <1>1, <1>2, <3>1
    <3> QED BY <3>2, <1>1 DEF Two
  <2>2. pc'[i] = "finish" /\ \A j \in Threads \ {i} : pc'[j] = pc[j]
    BY <1>1, <1>2, Going DEF NotifyParent, Places, Finishing
  <2>3. PICK p \in Task : p = mParent[k]
    <3>1. mParent[k] \in 0 .. k - 1
      BY DEF Typed
    <3> QED BY <3>1, <1>2, LoadAssumption DEF Task, nullptr
  <2>4. PICK f \in Frame : f = [task |-> p, open |-> 0]
    <3>1. 0 \in 0 .. CountLimit - 1
      BY LoadAssumption
    <3> QED BY <3>1 DEF Frame
  <2>5. Calls(i, <<f>> \o fin)
    BY <1>1, <1>2, <2>3, <2>4 DEF NotifyParent
  <2>6. PICK s \in Seq(Frame) : s = <<f>> \o fin
    BY <1>1, <2>4, PutOnTop
  <2>7. finishing'[i] = s /\ \A j \in Threads \ {i} : finishing'[j] = finishing[j]
    BY <2>5, <2>6, Calling
  <2>8. s # <<>> /\ Len(s) = 2 /\ DOMAIN s = {1, 2} /\ s[1] = f /\ s[2] = fin[1]
    <3>1. s # <<>> /\ Len(s) = Len(fin) + 1 /\ DOMAIN s = 1 .. Len(fin) + 1
          /\ s[1] = f /\ \A n \in 1 .. Len(fin) : s[n + 1] = fin[n]
      BY <1>1, <2>4, <2>6, OnTop
    <3>2. s[1 + 1] = fin[1]
      BY <3>1, <2>1
    <3> QED BY <3>1, <3>2, <2>1
  <2>9. Once'
    <3>1. \A j \in Threads : Past(j) => Past(j)'
      BY <1>1, <2>2, <2>7, <2>8 DEF Past
    <3> QED BY <3>1, <1>0 DEF Order, Once
  <2>10. Frames'
    <3>1. s[1].task = mParent[s[2].task]
      BY <2>3, <2>4, <2>8, <1>1
    <3> QED BY <3>1, <2>7, <2>8, <1>0 DEF Order, Frames
  <2>11. Ran'
    <3>1. \A j \in Threads : Kernel(j)' <=> Kernel(j)
      BY <1>1, <1>0, <2>2, <2>7, <2>8 DEF Kernel
    <3> QED BY <3>1, <1>0 DEF Order, Ran
  <2>12. Counts'
    <3>1. \A j \in Threads : Notifying(j)' <=> Notifying(j)
      BY <1>1, <1>0, <2>1, <2>2, <2>7, <2>8 DEF Notifying
    <3>2. \A l \in Task : OpenOnes(l)' = OpenOnes(l) /\ self(l)' = self(l)
      BY <3>1, <1>0 DEF OpenOnes, Pending, Children, self
    <3> QED BY <3>2, <1>0 DEF Order, Counts
  <2>13. LastCall'
    <3>1. ~AtZero(i, 1)' /\ (AtZero(i, 2)' <=> AtZero(i, 1)) /\ ~AtZero(i, 2)
      BY <1>0, <1>1, <2>1, <2>2, <2>7, <2>8 DEF AtZero
    <3>2. finishing'[i][2] = finishing[i][1]
      BY <1>1, <2>7, <2>8
    <3>3. \A j \in Threads \ {i} : \A n : AtZero(j, n)' <=> AtZero(j, n)
      BY <2>2, <2>7 DEF AtZero
    <3> QED BY SMTT(40), <3>1, <3>2, <3>3, <2>7, <1>0 DEF Order, LastCall
  <2> QED BY <2>9, <2>10, <2>11, <2>12, <2>13 DEF Order
<1>3. CASE mParent[k] = nullptr
  <2>1. pc'[i] = "return" /\ finishing' = finishing /\ \A j \in Threads \ {i} : pc'[j] = pc[j]
    BY <1>1, <1>3, Going DEF NotifyParent, Places, Finishing
  <2>2. Once' /\ Frames'
    <3>1. \A j \in Threads : Past(j) => Past(j)'
      BY <1>0, <2>1 DEF Past
    <3> QED BY <3>1, <1>0, <2>1 DEF Order, Once, Frames
  <2>3. Ran'
    <3>1. \A j \in Threads : Kernel(j)' <=> Kernel(j)
      BY <1>0, <2>1 DEF Kernel
    <3> QED BY <3>1, <1>0 DEF Order, Ran
  <2>4. Counts'
    <3>1. \A j \in Threads \ {i} : Notifying(j)' <=> Notifying(j)
      BY <2>1 DEF Notifying
    <3>2. \A c : c # running[i][1] => (Pending(c)' <=> Pending(c))
      BY <3>1, <1>0 DEF Pending
    <3>3. CASE Len(fin) = 2
      <4>1. ~Notifying(i) /\ ~Notifying(i)'
        BY <1>1, <3>3, <1>0, <2>1 DEF Notifying
      <4>2. \A l \in Task : OpenOnes(l)' = OpenOnes(l) /\ self(l)' = self(l)
        BY <3>1, <4>1, <1>0 DEF OpenOnes, Pending, Children, self
      <4> QED BY <4>2, <1>0 DEF Order, Counts
    <3>4. CASE Len(fin) = 1
      <4>1. \A l \in Task : running[i][1] \notin Children(l)
        BY <3>4, <1>1, <1>3, LoadAssumption DEF Children, Task, nullptr
      <4>2. \A l \in Task : OpenOnes(l)' = OpenOnes(l) /\ self(l)' = self(l)
        BY <3>2, <4>1, <1>0 DEF OpenOnes, Children, self
      <4> QED BY <4>2, <1>0 DEF Order, Counts
    <3> QED BY <3>3, <3>4, <1>1
  <2>5. LastCall'
    <3>1. \A j \in Threads : \A n : AtZero(j, n)' <=> AtZero(j, n)
      BY <1>0, <2>1 DEF AtZero
    <3> QED BY <3>1, <2>1, <1>0 DEF Order, LastCall
  <2> QED BY <2>2, <2>3, <2>4, <2>5 DEF Order
<1> QED BY <1>2, <1>3

\* A count is not at zero when finishTask counts it down.
LEMMA CountedDown ==
  ASSUME Typed, Stacks, Order, NEW i \in Threads, CountDown(i)
  PROVE  /\ mOpenTasks[current(i)] \in 1 .. CountLimit - 1
         /\ returned[current(i)] = 0
         /\ Len(finishing[i]) = 1 => running[i][1] \notin ended
         /\ Len(finishing[i]) = 2 => running[i][1] \in ended /\ running[i][1] \in OpenOnes(current(i))
<1>0. pc[i] = "finish"
  BY DEF CountDown
<1>1. PICK k \in Task, u \in Task :
      /\ k = current(i) /\ u = running[i][1] /\ 1 \in DOMAIN running[i]
      /\ Len(finishing[i]) \in {1, 2} /\ finishing[i] # <<>>
      /\ Len(finishing[i]) = 1 => k = u
      /\ Len(finishing[i]) = 2 => k = mParent[u]
  BY <1>0, FrameFacts DEF Finishing
<1>2. OpenOnes(k) \in SUBSET Task
  BY DEF OpenOnes, Children
<1>3. IsFiniteSet(OpenOnes(k)) /\ Cardinality(OpenOnes(k)) \in Nat
  BY <1>2, TaskSets, LoadAssumption
<1>4. mOpenTasks[k] = self(k) + Cardinality(OpenOnes(k)) /\ mOpenTasks[k] \in 0 .. CountLimit - 1
  BY DEF Order, Counts, Typed
<1>5. Len(finishing[i]) = 1 => u \notin ended
  <2>1. Len(finishing[i]) = 1 => ~Past(i)
    BY <1>0 DEF Past
  <2>2. u \in ended => Past(i)
    BY <1>1 DEF Order, Once
  <2> QED BY <2>1, <2>2
<1>6. Len(finishing[i]) = 2 => u \in ended /\ u \in OpenOnes(k)
  <2>1. Len(finishing[i]) = 2 => Past(i) /\ Notifying(i)
    BY <1>0 DEF Past, Notifying
  <2>2. Len(finishing[i]) = 2 => u \in ended
    BY <2>1, <1>1 DEF Stacks, StackOf
  <2> QED BY <2>1, <2>2, <1>1 DEF OpenOnes, Pending, Children
<1>7. mOpenTasks[k] # 0
  <2>1. CASE Len(finishing[i]) = 1
    <3>1. self(k) = 1
      BY <2>1, <1>1, <1>5 DEF self
    <3> QED BY <3>1, <1>3, <1>4
  <2>2. CASE Len(finishing[i]) = 2
    <3>1. Cardinality(OpenOnes(k)) # 0
      BY <2>2, <1>3, <1>6, FS_EmptySet
    <3>2. self(k) \in {0, 1}
      BY DEF self
    <3> QED BY <3>1, <3>2, <1>3, <1>4
  <2> QED BY <2>1, <2>2, <1>1
<1>8. mOpenTasks[k] \in 1 .. CountLimit - 1
  BY <1>4, <1>7, LoadAssumption
<1>9. returned[k] = 0
  BY <1>7 DEF Order, LastCall
<1> QED BY <1>1, <1>5, <1>6, <1>8, <1>9

\* finishTask counts the task down, or its parent for it.
LEMMA CountDownOrder ==
  ASSUME Typed, Stacks, Order, NEW i \in Threads, CountDown(i)
  PROVE  Order' /\ UNCHANGED halt
<1> USE DEF tasks
<1>0. pc[i] = "finish" /\ UNCHANGED <<mParent, running, ran, returned>>
  BY DEF CountDown
<1>1. PICK k \in Task, u \in Task, fin \in Seq(Frame) :
      /\ k = current(i) /\ u = running[i][1] /\ fin = finishing[i] /\ 1 \in DOMAIN running[i]
      /\ Len(fin) \in {1, 2} /\ fin # <<>> /\ DOMAIN fin = 1 .. Len(fin) /\ k = fin[1].task
      /\ Len(fin) = 1 => k = u
      /\ Len(fin) = 2 => fin[2].task = u /\ k = mParent[u]
      /\ \A j \in Threads : pc[j] \in Finishing /\ running[j][1] = u => j = i
  BY <1>0, FrameFacts DEF Finishing
<1>2. /\ mOpenTasks[k] \in 1 .. CountLimit - 1 /\ returned[k] = 0
      /\ Len(fin) = 1 => u \notin ended
      /\ Len(fin) = 2 => u \in ended /\ u \in OpenOnes(k)
  BY <1>1, CountedDown
<1>3. PICK open \in 0 .. CountLimit - 1 : open = mOpenTasks[k] - 1 /\ open = (mOpenTasks[k] - 1) % CountLimit
  <2>1. mOpenTasks[k] - 1 \in 0 .. CountLimit - 1
    BY <1>2, LoadAssumption
  <2> QED BY <2>1, Modulo, LoadAssumption
<1>4. /\ mOpenTasks' = [mOpenTasks EXCEPT ![k] = open]
      /\ Calls(i, <<[task |-> k, open |-> open]>> \o Tail(fin))
      /\ ended' = IF Len(fin) = 1 THEN ended \cup {k} ELSE ended
      /\ UNCHANGED halt /\ Goes(i, "parent")
  <2>1. /\ mOpenTasks' = [mOpenTasks EXCEPT ![k] = (mOpenTasks[k] - 1) % CountLimit]
        /\ Calls(i, <<[task |-> k, open |-> (mOpenTasks[k] - 1) % CountLimit]>> \o Tail(fin))
        /\ ended' = IF Len(fin) = 1 THEN ended \cup {k} ELSE ended
        /\ IF returned[k] > 0 THEN Halts("corrupt") ELSE UNCHANGED halt
        /\ Goes(i, "parent")
    BY <1>1 DEF CountDown
  <2>2. UNCHANGED halt
    BY <2>1, <1>2
  <2> QED BY <2>1, <2>2, <1>3
<1>5. mOpenTasks \in [Task -> 0 .. CountLimit - 1] /\ ran \in [Task -> Nat]
  BY DEF Typed
<1>6. mOpenTasks'[k] = open /\ \A l \in Task \ {k} : mOpenTasks'[l] = mOpenTasks[l]
  BY <1>4, <1>5
<1>7. pc'[i] = "parent" /\ \A j \in Threads \ {i} : pc'[j] = pc[j]
  BY <1>4, Going DEF Places, Finishing
<1>8. PICK f \in Frame : f = [task |-> k, open |-> open]
  BY DEF Frame
<1>9. PICK s \in Seq(Frame) : s = <<f>> \o Tail(fin)
  BY <1>1, <1>8, Below, PutOnTop
<1>10. finishing'[i] = s /\ \A j \in Threads \ {i} : finishing'[j] = finishing[j]
  BY <1>4, <1>8, <1>9, Calling
<1>11. s # <<>> /\ Len(s) = Len(fin) /\ DOMAIN s = 1 .. Len(fin) /\ s[1] = f
       /\ (Len(fin) = 2 => s[2] = fin[2])
  <2>1. Tail(fin) \in Seq(Frame) /\ Len(Tail(fin)) = Len(fin) - 1
        /\ \A n \in 1 .. Len(fin) - 1 : Tail(fin)[n] = fin[n + 1]
    BY <1>1, Below
  <2>2. /\ s # <<>> /\ Len(s) = Len(fin) - 1 + 1 /\ DOMAIN s = 1 .. Len(fin) - 1 + 1
        /\ s[1] = f /\ \A n \in 1 .. Len(fin) - 1 : s[n + 1] = Tail(fin)[n]
    BY <2>1, <1>8, <1>9, OnTop
  <2>3. Len(fin) = 2 => s[1 + 1] = fin[1 + 1]
    <3> SUFFICES ASSUME Len(fin) = 2 PROVE s[1 + 1] = fin[1 + 1]
      OBVIOUS
    <3>1. 1 \in 1 .. Len(fin) - 1
      OBVIOUS
    <3>2. s[1 + 1] = Tail(fin)[1] /\ Tail(fin)[1] = fin[1 + 1]
      BY <3>1, <2>1, <2>2
    <3> QED BY <3>2
  <2> QED BY <2>2, <2>3, <1>1
<1>12. Once'
  <2>1. Past(i)' /\ \A j \in Threads \ {i} : Past(j)' <=> Past(j)
    BY <1>7, <1>10 DEF Past
  <2>2. ASSUME NEW j \in Threads, NEW n \in DOMAIN running[j], running[j][n] \in ended'
        PROVE  n = 1 /\ Past(j)'
    <3>1. CASE running[j][n] = u
      BY <3>1, <1>1, <2>1 DEF Order, Once
    <3>2. CASE running[j][n] # u
      BY <3>2, <2>2, <2>1, <1>1, <1>4 DEF Order, Once
    <3> QED BY <3>1, <3>2
  <2> QED BY <2>2, <1>0 DEF Order, Once
<1>13. Frames'
  <2>1. ASSUME NEW j \in Threads
        PROVE  /\ finishing'[j] = <<>> \/ Len(finishing'[j]) \in {1, 2}
               /\ Len(finishing'[j]) = 2 => finishing'[j][1].task = mParent[finishing'[j][2].task]
    <3>1. CASE j = i
      BY <3>1, <1>1, <1>8, <1>10, <1>11
    <3>2. CASE j # i
      BY <3>2, <1>10 DEF Order, Frames
    <3> QED BY <3>1, <3>2
  <2> QED BY <2>1, <1>0 DEF Frames
<1>14. Ran'
  <2>1. \A j \in Threads \ {i} : Kernel(j)' <=> Kernel(j)
    BY <1>7, <1>10 DEF Kernel
  <2>2. ~Kernel(i)' /\ (Kernel(i) <=> Len(fin) = 1)
    BY <1>0, <1>1, <1>7 DEF Kernel
  <2>3. ASSUME NEW l \in Task
        PROVE  ran[l] = IF l \in ended' \/ \E j \in Threads : Kernel(j)' /\ running[j][1] = l THEN 1 ELSE 0
    <3>1. CASE l = u
      <4>1. ran[u] = 1
        BY <2>2, <1>1, <1>2 DEF Order, Ran
      <4>2. u \in ended'
        BY <1>1, <1>2, <1>4
      <4> QED BY <3>1, <4>1, <4>2
    <3>2. CASE l # u
      <4>1. l \in ended' <=> l \in ended
        BY <3>2, <1>1, <1>4
      <4> QED BY <3>2, <4>1, <2>1, <2>2, <1>1 DEF Order, Ran
    <3> QED BY <3>1, <3>2
  <2> QED BY <2>3, <1>0 DEF Ran
<1>15. Counts'
  <2>1. \A j \in Threads \ {i} : Notifying(j)' <=> Notifying(j)
    BY <1>7, <1>10 DEF Notifying
  <2>2. \A c \in Task \ {u} : Pending(c)' <=> Pending(c)
    BY <2>1, <1>0, <1>1, <1>4 DEF Pending
  <2>3. CASE Len(fin) = 1
    <3>1. Pending(u) /\ Pending(u)'
      <4>1. Notifying(i)'
        BY <2>3, <1>7, <1>10, <1>11 DEF Notifying
      <4> QED BY <4>1, <2>3, <1>0, <1>1, <1>2 DEF Pending
    <3>2. \A l : OpenOnes(l)' = OpenOnes(l)
      BY <3>1, <2>2, <1>0 DEF OpenOnes, Children
    <3>3. self(u) = 1 /\ self(u)' = 0 /\ \A l \in Task \ {u} : self(l)' = self(l)
      BY <2>3, <1>1, <1>2, <1>4 DEF self
    <3>4. IsFiniteSet(OpenOnes(u)) /\ Cardinality(OpenOnes(u)) \in Nat
      <4>1. OpenOnes(u) \in SUBSET Task
        BY DEF OpenOnes, Children
      <4> QED BY <4>1, TaskSets, LoadAssumption
    <3>5. ASSUME NEW l \in Task PROVE mOpenTasks'[l] = self(l)' + Cardinality(OpenOnes(l)')
      <4>1. CASE l = u
        BY <4>1, <2>3, <3>2, <3>3, <3>4, <1>1, <1>3, <1>6 DEF Order, Counts
      <4>2. CASE l # u
        BY <4>2, <2>3, <3>2, <3>3, <1>1, <1>6 DEF Order, Counts
      <4> QED BY <4>1, <4>2
    <3> QED BY <3>5 DEF Counts
  <2>4. CASE Len(fin) = 2
    <3>1. ~Pending(u)'
      <4>1. ~Notifying(i)'
        BY <2>4, <1>7, <1>10, <1>11 DEF Notifying
      <4>2. ASSUME NEW j \in Threads \ {i} PROVE ~(Notifying(j)' /\ running[j][1] = u)
        BY <2>1, <1>1 DEF Notifying, Finishing
      <4> QED BY <4>1, <4>2, <2>4, <1>0, <1>2, <1>4 DEF Pending
    <3>2. OpenOnes(k)' = OpenOnes(k) \ {u}
      BY <3>1, <2>2, <1>0 DEF OpenOnes, Children
    <3>3. \A l \in Task \ {k} : OpenOnes(l)' = OpenOnes(l)
      BY <2>2, <2>4, <1>0, <1>1 DEF OpenOnes, Children
    <3>4. \A l \in Task : self(l)' = self(l)
      BY <2>4, <1>4 DEF self
    <3>5. Cardinality(OpenOnes(k)') = Cardinality(OpenOnes(k)) - 1 /\ Cardinality(OpenOnes(k)) \in Nat
      <4>1. OpenOnes(k) \in SUBSET Task
        BY DEF OpenOnes, Children
      <4>2. IsFiniteSet(OpenOnes(k)) /\ u \in OpenOnes(k)
        BY <4>1, <2>4, <1>2, TaskSets
      <4> QED BY <4>2, <3>2, FS_RemoveElement, FS_CardinalityType
    <3>6. ASSUME NEW l \in Task PROVE mOpenTasks'[l] = self(l)' + Cardinality(OpenOnes(l)')
      <4>1. CASE l = k
        <5>1. self(k) \in {0, 1}
          BY DEF self
        <5> QED BY <5>1, <4>1, <3>4, <3>5, <1>3, <1>6 DEF Order, Counts
      <4>2. CASE l # k
        BY <4>2, <3>3, <3>4, <1>6 DEF Order, Counts
      <4> QED BY <4>1, <4>2
    <3> QED BY <3>6 DEF Counts
  <2> QED BY <2>3, <2>4, <1>1
<1>16. LastCall'
  <2>1. \A j \in Threads \ {i} : \A n : AtZero(j, n)' <=> AtZero(j, n)
    BY <1>7, <1>10 DEF AtZero
  <2>2. AtZero(i, 1)' => open = 0 /\ finishing'[i][1].task = k
    BY <1>8, <1>10, <1>11 DEF AtZero
  <2>3. AtZero(i, 2)' => AtZero(i, 2) /\ finishing'[i][2] = finishing[i][2] /\ finishing[i][2].task # k
    <3>1. AtZero(i, 2)' => Len(fin) = 2
      BY <1>1, <1>10, <1>11 DEF AtZero
    <3>2. AtZero(i, 2)' => AtZero(i, 2) /\ finishing'[i][2] = finishing[i][2]
      BY <3>1, <1>0, <1>1, <1>10, <1>11 DEF AtZero
    <3>3. Len(fin) = 2 => u # k
      <4>1. mParent[u] \in 0 .. u - 1
        BY DEF Typed
      <4> QED BY <4>1, <1>1, LoadAssumption DEF Task
    <3> QED BY <3>1, <3>2, <3>3, <1>1
  <2>4. \A j \in Threads, n \in {1, 2} : AtZero(j, n) =>
            finishing[j][n].task # k /\ finishing[j][n].task \in Task
    <3> SUFFICES ASSUME NEW j \in Threads, NEW n \in {1, 2}, AtZero(j, n)
                 PROVE  finishing[j][n].task # k /\ finishing[j][n].task \in Task
      OBVIOUS
    <3>1. mOpenTasks[finishing[j][n].task] = 0
      BY DEF Order, LastCall
    <3>2. finishing[j][n] \in Frame
      <4>1. finishing[j] \in Seq(Frame) /\ n \in DOMAIN finishing[j]
        BY DEF AtZero, Typed
      <4> QED BY <4>1
    <3> QED BY <3>1, <3>2, <1>2 DEF Frame
  <2>5. ASSUME NEW j \in Threads, NEW n \in {1, 2}, AtZero(j, n)'
        PROVE  \/ j = i /\ n = 1 /\ open = 0 /\ finishing'[j][n].task = k
               \/ AtZero(j, n) /\ finishing'[j][n].task = finishing[j][n].task
    <3>1. CASE j = i
      BY <3>1, <2>2, <2>3, <2>5
    <3>2. CASE j # i
      BY <3>2, <2>1, <2>5, <1>10
    <3> QED BY <3>1, <3>2
  <2>6. ASSUME NEW j \in Threads, NEW n \in {1, 2}, AtZero(j, n)'
        PROVE  mOpenTasks'[finishing'[j][n].task] = 0 /\ returned[finishing'[j][n].task] = 0
    <3>1. CASE finishing'[j][n].task = k /\ open = 0
      BY <3>1, <1>2, <1>6
    <3>2. CASE AtZero(j, n) /\ finishing'[j][n].task = finishing[j][n].task
      BY <3>2, <2>4, <1>6 DEF Order, LastCall
    <3> QED BY <3>1, <3>2, <2>5, <2>6
  <2>7. ASSUME NEW j \in Threads, NEW h \in Threads, NEW n \in {1, 2}, NEW m \in {1, 2},
               AtZero(j, n)', AtZero(h, m)', finishing'[j][n].task = finishing'[h][m].task
        PROVE  j = h /\ n = m
    <3>1. CASE AtZero(j, n) /\ finishing'[j][n].task = finishing[j][n].task
      <4>1. AtZero(h, m) /\ finishing'[h][m].task = finishing[h][m].task
        BY <3>1, <2>4, <2>5, <2>7
      <4>2. finishing[j][n].task = finishing[h][m].task
        BY <3>1, <4>1, <2>7
      <4> QED BY <3>1, <4>1, <4>2 DEF Order, LastCall
    <3>2. CASE j = i /\ n = 1 /\ finishing'[j][n].task = k
      <4>1. ~(AtZero(h, m) /\ finishing'[h][m].task = finishing[h][m].task)
        BY <3>2, <2>4, <2>7
      <4> QED BY <3>2, <4>1, <2>5, <2>7
    <3> QED BY <3>1, <3>2, <2>5, <2>7
  <2>8. \A l \in Task : returned[l] \in {0, 1} /\ (returned[l] = 1 => mOpenTasks'[l] = 0)
    BY <1>2, <1>6 DEF Order, LastCall
  <2> QED BY <2>6, <2>7, <2>8, <1>0 DEF LastCall
<1> QED BY <1>4, <1>12, <1>13, <1>14, <1>15, <1>16 DEF Order

\* The last call that ends leaves the stack; the node goes back once.
LEMMA ReturnNodeOrder ==
  ASSUME Typed, Stacks, Order, NEW i \in Threads, ReturnNode(i)
  PROVE  Order'
<1> USE DEF tasks
<1>0. pc[i] = "return" /\ UNCHANGED <<mParent, mOpenTasks, ran, ended>>
  BY DEF ReturnNode
<1>1. PICK k \in Task, fin \in Seq(Frame) :
      /\ k = current(i) /\ fin = finishing[i] /\ k = fin[1].task
      /\ running[i] # <<>> /\ Len(fin) \in {1, 2} /\ fin # <<>> /\ DOMAIN fin = 1 .. Len(fin)
      /\ Head(fin) = fin[1]
  BY <1>0, FrameFacts DEF Finishing
<1>2. Tail(fin) \in Seq(Frame) /\ DOMAIN Tail(fin) = 1 .. Len(fin) - 1 /\ Len(Tail(fin)) = Len(fin) - 1
      /\ (\A n \in 1 .. Len(fin) - 1 : Tail(fin)[n] = fin[n + 1]) /\ (Len(fin) = 1 => Tail(fin) = <<>>)
  BY <1>1, Below
<1>3. finishing'[i] = Tail(fin) /\ \A j \in Threads \ {i} : finishing'[j] = finishing[j]
  BY <1>1, <1>2, Calling DEF ReturnNode
<1>4. returned' = IF fin[1].open = 0 THEN [returned EXCEPT ![k] = @ + 1] ELSE returned
  BY <1>1 DEF ReturnNode, isDone
<1>5. \A j \in Threads \ {i} : pc'[j] = pc[j] /\ running'[j] = running[j]
  <2>1. CASE Len(fin) > 1
    BY <2>1, <1>1 DEF ReturnNode
  <2>2. CASE ~(Len(fin) > 1)
    BY <2>2, <1>1, Leaves, Going, BackPlaces DEF ReturnNode
  <2> QED BY <2>1, <2>2
<1>6. ASSUME Len(fin) = 2 PROVE pc'[i] = "return" /\ running'[i] = running[i]
  <2>1. Len(finishing[i]) > 1
    <3>1. finishing[i] = fin
      BY <1>1
    <3>2. Len(fin) > 1
      BY <1>6
    <3> QED BY <3>1, <3>2, Zenon
  <2>2. UNCHANGED <<running, pc>>
    BY <2>1 DEF ReturnNode
  <2> QED BY <1>0, <2>2
<1>7. ASSUME Len(fin) = 1
      PROVE  /\ pc'[i] \notin Finishing /\ DOMAIN running'[i] = 1 .. Len(running[i]) - 1
             /\ DOMAIN running[i] = 1 .. Len(running[i]) /\ Len(running[i]) \in Nat \ {0}
             /\ \A n \in 1 .. Len(running[i]) - 1 : running'[i][n] = running[i][n + 1]
  <2>1. /\ running' = [running EXCEPT ![i] = Tail(@)]
        /\ Goes(i, back(i, Tail(running[i])))
    <3>1. ~(Len(finishing[i]) > 1)
      BY <1>1, <1>7
    <3> QED BY <3>1 DEF ReturnNode
  <2>2. PICK where \in Places \ (Finishing \cup Special) : where = back(i, Tail(running[i]))
    BY BackOpen
  <2>3. pc'[i] = where
    BY <2>1, <2>2, Going
  <2> QED BY <1>1, <2>1, <2>2, <2>3, Leaves
<1>8. /\ ~Kernel(i) /\ ~Kernel(i)' /\ ~Notifying(i) /\ ~Notifying(i)'
      /\ \A j \in Threads \ {i} : (Kernel(j)' <=> Kernel(j)) /\ (Notifying(j)' <=> Notifying(j))
  <2>1. pc'[i] \notin {"finish", "parent"}
    BY <1>1, <1>6, <1>7 DEF Finishing
  <2>2. ~Kernel(i) /\ ~Kernel(i)' /\ ~Notifying(i) /\ ~Notifying(i)'
    BY <1>0, <2>1 DEF Kernel, Notifying
  <2>3. \A j \in Threads \ {i} : (Kernel(j)' <=> Kernel(j)) /\ (Notifying(j)' <=> Notifying(j))
    BY <1>3, <1>5 DEF Kernel, Notifying
  <2> QED BY <2>2, <2>3
<1>9. Once'
  <2>1. CASE Len(fin) = 2
    <3>1. \A j \in Threads : (Past(j) => Past(j)') /\ running'[j] = running[j]
      BY <2>1, <1>3, <1>5, <1>6 DEF Past
    <3> QED BY <3>1, <1>0 DEF Order, Once
  <2>2. CASE Len(fin) = 1
    <3>1. ASSUME NEW j \in Threads, NEW n \in DOMAIN running'[j]
          PROVE  \/ j = i /\ n \in Nat \ {0} /\ n + 1 \in DOMAIN running[i] /\ running'[j][n] = running[i][n + 1]
                 \/ j # i /\ n \in DOMAIN running[j] /\ running'[j][n] = running[j][n]
      <4>1. CASE j = i
        BY SMTT(40), <4>1, <2>2, <1>7, <3>1
      <4>2. CASE j # i
        BY <4>2, <1>5, <3>1
      <4> QED BY <4>1, <4>2
    <3>2. ASSUME NEW j \in Threads, NEW h \in Threads,
                 NEW n \in DOMAIN running'[j], NEW m \in DOMAIN running'[h],
                 running'[j][n] = running'[h][m]
          PROVE  j = h /\ n = m
      <4>1. CASE j = i /\ h = i
        <5>1. /\ n \in Nat \ {0} /\ n + 1 \in DOMAIN running[i] /\ running'[j][n] = running[i][n + 1]
              /\ m \in Nat \ {0} /\ m + 1 \in DOMAIN running[i] /\ running'[h][m] = running[i][m + 1]
          BY <4>1, <3>1
        <5>2. \A a, b \in DOMAIN running[i] : running[i][a] = running[i][b] => a = b
          BY DEF Order, Once
        <5>3. running[i][n + 1] = running[i][m + 1]
          BY <5>1, <3>2
        <5>4. n + 1 = m + 1
          BY <5>1, <5>2, <5>3
        <5> QED BY <5>1, <5>4, <4>1
      <4>2. CASE j # i /\ h # i
        BY <4>2, <3>1, <3>2 DEF Order, Once
      <4>3. CASE j = i /\ h # i
        <5>1. n + 1 \in DOMAIN running[i] /\ m \in DOMAIN running[h] /\ running[i][n + 1] = running[h][m]
          BY <4>3, <3>1, <3>2
        <5> QED BY <5>1, <4>3 DEF Order, Once
      <4>4. CASE j # i /\ h = i
        <5>1. m + 1 \in DOMAIN running[i] /\ n \in DOMAIN running[j] /\ running[i][m + 1] = running[j][n]
          BY <4>4, <3>1, <3>2
        <5> QED BY <5>1, <4>4 DEF Order, Once
      <4> QED BY <4>1, <4>2, <4>3, <4>4
    <3>3. ASSUME NEW j \in Threads, NEW n \in DOMAIN running'[j], running'[j][n] \in ended
          PROVE  n = 1 /\ Past(j)'
      <4>1. CASE j = i
        <5>1. n \in Nat \ {0} /\ n + 1 \in DOMAIN running[i] /\ running[i][n + 1] \in ended
          BY <4>1, <3>1, <3>3
        <5>2. n + 1 = 1
          BY <5>1 DEF Order, Once
        <5> QED BY <5>1, <5>2
      <4>2. CASE j # i
        <5>1. n \in DOMAIN running[j] /\ running[j][n] \in ended
          BY <4>2, <3>1, <3>3
        <5>2. n = 1 /\ Past(j)
          BY <5>1 DEF Order, Once
        <5> QED BY <5>2, <4>2, <1>3, <1>5 DEF Past
      <4> QED BY <4>1, <4>2
    <3> QED BY <3>2, <3>3, <1>0 DEF Once
  <2> QED BY <2>1, <2>2, <1>1
<1>10. Frames'
  <2>1. ASSUME NEW j \in Threads
        PROVE  /\ finishing'[j] = <<>> \/ Len(finishing'[j]) \in {1, 2}
               /\ Len(finishing'[j]) = 2 => finishing'[j][1].task = mParent[finishing'[j][2].task]
    <3>1. CASE j = i
      <4>1. Tail(fin) = <<>> \/ Len(Tail(fin)) = 1
        BY <1>1, <1>2
      <4>2. CASE Tail(fin) = <<>>
        <5>1. Len(<<>>) = 0
          OBVIOUS
        <5>2. finishing'[j] = <<>>
          BY <3>1, <4>2, <1>3
        <5>3. Len(finishing'[j]) = 0
          BY <5>1, <5>2
        <5> QED BY <5>2, <5>3
      <4>3. CASE Len(Tail(fin)) = 1
        <5>1. Len(finishing'[j]) = 1
          BY <3>1, <4>3, <1>3
        <5> QED BY <5>1
      <4> QED BY <4>1, <4>2, <4>3
    <3>2. CASE j # i
      BY <3>2, <1>3 DEF Order, Frames
    <3> QED BY <3>1, <3>2
  <2> QED BY <2>1, <1>0 DEF Frames
<1>11. Ran'
  BY <1>0, <1>5, <1>8 DEF Order, Ran
<1>12. Counts'
  <2>1. \A l \in Task : OpenOnes(l)' = OpenOnes(l) /\ self(l)' = self(l)
    BY <1>0, <1>5, <1>8 DEF OpenOnes, Pending, Children, self
  <2> QED BY <2>1, <1>0 DEF Order, Counts
<1>13. LastCall'
  <2>1. \A j \in Threads \ {i} : \A n : (AtZero(j, n)' <=> AtZero(j, n)) /\ finishing'[j][n] = finishing[j][n]
    BY <1>3, <1>5 DEF AtZero
  <2>2. ~AtZero(i, 2)'
    <3>1. Len(fin) - 1 \in {0, 1}
      <4>1. CASE Len(fin) = 1
        BY <4>1
      <4>2. CASE Len(fin) = 2
        BY <4>2
      <4> QED BY <4>1, <4>2, <1>1
    <3>2. 2 \notin DOMAIN Tail(fin)
      BY <3>1, <1>2
    <3> QED BY <3>2, <1>3 DEF AtZero
  <2>3. AtZero(i, 1)' => AtZero(i, 2) /\ finishing'[i][1] = finishing[i][2]
    <3>1. 1 \in DOMAIN Tail(fin) => Len(fin) = 2 /\ Tail(fin)[1] = fin[1 + 1] /\ 2 \in DOMAIN fin
      BY <1>1, <1>2
    <3> QED BY <3>1, <1>0, <1>1, <1>3 DEF AtZero
  <2>4. fin[1].open = 0 => AtZero(i, 1)
    BY <1>0, <1>1 DEF AtZero
  <2>5. ASSUME NEW j \in Threads, NEW n \in {1, 2}, AtZero(j, n)'
        PROVE  \E m \in {1, 2} : /\ AtZero(j, m) /\ ~(j = i /\ m = 1)
                                  /\ finishing'[j][n] = finishing[j][m]
                                  /\ m = IF j = i THEN 2 ELSE n
    BY <2>1, <2>2, <2>3, <2>5
  <2>6. ASSUME NEW j \in Threads, NEW m \in {1, 2}, AtZero(j, m), ~(j = i /\ m = 1)
        PROVE  returned'[finishing[j][m].task] = 0
    <3>1. returned[finishing[j][m].task] = 0
      BY <2>6 DEF Order, LastCall
    <3>2. fin[1].open = 0 => finishing[j][m].task # k
      BY <2>4, <2>6, <1>1 DEF Order, LastCall
    <3>3. finishing[j][m].task \in Task
      <4>1. finishing[j] \in Seq(Frame) /\ m \in DOMAIN finishing[j]
        BY <2>6 DEF AtZero, Typed
      <4>2. finishing[j][m] \in Frame
        BY <4>1
      <4> QED BY <4>2 DEF Frame
    <3>4. returned \in [Task -> Nat]
      BY DEF Typed
    <3> QED BY <3>1, <3>2, <3>3, <3>4, <1>4
  <2>7. ASSUME NEW j \in Threads, NEW n \in {1, 2}, AtZero(j, n)'
        PROVE  mOpenTasks[finishing'[j][n].task] = 0 /\ returned'[finishing'[j][n].task] = 0
    <3>1. PICK m \in {1, 2} : AtZero(j, m) /\ ~(j = i /\ m = 1) /\ finishing'[j][n] = finishing[j][m]
      BY <2>5, <2>7
    <3>2. mOpenTasks[finishing[j][m].task] = 0
      BY <3>1 DEF Order, LastCall
    <3> QED BY <3>1, <3>2, <2>6
  <2>8. ASSUME NEW j \in Threads, NEW h \in Threads, NEW n \in {1, 2}, NEW m \in {1, 2},
               AtZero(j, n)', AtZero(h, m)', finishing'[j][n].task = finishing'[h][m].task
        PROVE  j = h /\ n = m
    <3>1. PICK a \in {1, 2} : AtZero(j, a) /\ finishing'[j][n] = finishing[j][a] /\ a = IF j = i THEN 2 ELSE n
      BY <2>5, <2>8
    <3>2. PICK b \in {1, 2} : AtZero(h, b) /\ finishing'[h][m] = finishing[h][b] /\ b = IF h = i THEN 2 ELSE m
      BY <2>5, <2>8
    <3>3. finishing[j][a].task = finishing[h][b].task
      BY <3>1, <3>2, <2>8
    <3>4. j = h /\ a = b
      BY <3>1, <3>2, <3>3 DEF Order, LastCall
    <3>5. CASE j = i
      BY <3>4, <3>5, <2>2, <2>8
    <3>6. CASE j # i
      BY <3>1, <3>2, <3>4, <3>6
    <3> QED BY <3>4, <3>5, <3>6
  <2>9. ASSUME NEW l \in Task
        PROVE  returned'[l] \in {0, 1} /\ (returned'[l] = 1 => mOpenTasks[l] = 0)
    <3>1. returned \in [Task -> Nat] /\ returned[l] \in {0, 1} /\ (returned[l] = 1 => mOpenTasks[l] = 0)
      BY DEF Typed, Order, LastCall
    <3>2. CASE l = k /\ fin[1].open = 0
      <4>1. returned[k] = 0 /\ mOpenTasks[k] = 0
        BY <3>2, <2>4, <1>1 DEF Order, LastCall
      <4> QED BY <3>1, <3>2, <4>1, <1>4
    <3>3. CASE ~(l = k /\ fin[1].open = 0)
      BY <3>1, <3>3, <1>4
    <3> QED BY <3>2, <3>3
  <2> QED BY <2>7, <2>8, <2>9, <1>0 DEF LastCall
<1> QED BY <1>9, <1>10, <1>11, <1>12, <1>13 DEF Order

\* What moves in and out of the global queue is not in a local one.
LEMMA FreshSame ==
  ASSUME Typed, Fresh, UNCHANGED mLocalWorkQueue, Global' \subseteq Global \cup {nullptr},
         \A k \in Task : Taken(k)' => Taken(k) \/ k \in Global
  PROVE  Fresh'
<1>1. \A i \in Threads : InQueue(i)' = InQueue(i)
  BY DEF InQueue
<1>2. \A i \in Threads : InQueue(i) \subseteq Task
  BY DEF InQueue, Typed
<1>3. nullptr \notin Task
  BY LoadAssumption DEF Task, nullptr
<1>4. \A i \in Threads : \A k \in InQueue(i)' : ~Taken(k)' /\ k \notin Global'
  BY <1>1, <1>2, <1>3 DEF Fresh
<1> QED BY <1>4 DEF Fresh

\* The task leaves the queue of the thread; q is left.
LeavesQueue(v, k, q) ==
  /\ mLocalWorkQueue' = [mLocalWorkQueue EXCEPT ![v] = q]
  /\ \E d \in {0, 1}, g \in DOMAIN mLocalWorkQueue[v] :
        /\ mLocalWorkQueue[v][g] = k
        /\ \A n \in DOMAIN q : /\ n + d \in DOMAIN mLocalWorkQueue[v] /\ n + d # g
                               /\ q[n] = mLocalWorkQueue[v][n + d]

\* A task that leaves a local queue is on one stack, and the others are where they were.
LEMMA FreshFound ==
  ASSUME Typed, Fresh, NEW v \in Threads, NEW q \in Seq(Task), NEW k \in Task, LeavesQueue(v, k, q),
         UNCHANGED <<waiting, x, mArray>>, \A l : Taken(l)' => Taken(l) \/ l = k
  PROVE  Fresh' /\ ~Taken(k)
<1>0. PICK d \in {0, 1}, g \in DOMAIN mLocalWorkQueue[v] :
        /\ mLocalWorkQueue[v][g] = k
        /\ \A n \in DOMAIN q : /\ n + d \in DOMAIN mLocalWorkQueue[v] /\ n + d # g
                               /\ q[n] = mLocalWorkQueue[v][n + d]
  BY DEF LeavesQueue
<1>1. mLocalWorkQueue \in [Threads -> Seq(Task)]
  BY DEF Typed
<1>2. mLocalWorkQueue'[v] = q /\ \A j \in Threads \ {v} : mLocalWorkQueue'[j] = mLocalWorkQueue[j]
  BY <1>1 DEF LeavesQueue
<1>3. Global' = Global
  BY DEF Global
<1>4. \A j \in Threads : \A n \in DOMAIN mLocalWorkQueue'[j] :
         \E m \in DOMAIN mLocalWorkQueue[j] : /\ mLocalWorkQueue'[j][n] = mLocalWorkQueue[j][m]
                                              /\ m = IF j = v THEN n + d ELSE n
                                              /\ ~(j = v /\ m = g)
  BY <1>0, <1>2
<1>5. \A j \in Threads : \A l \in InQueue(j)' : l \in InQueue(j) /\ l # k
  <2> SUFFICES ASSUME NEW j \in Threads, NEW n \in DOMAIN mLocalWorkQueue'[j]
               PROVE  mLocalWorkQueue'[j][n] \in InQueue(j) /\ mLocalWorkQueue'[j][n] # k
    BY DEF InQueue
  <2>1. PICK m \in DOMAIN mLocalWorkQueue[j] :
            mLocalWorkQueue'[j][n] = mLocalWorkQueue[j][m] /\ ~(j = v /\ m = g)
    BY <1>4
  <2>2. mLocalWorkQueue[j][m] # k
    BY <2>1, <1>0 DEF Fresh
  <2> QED BY <2>1, <2>2 DEF InQueue
<1>6. \A j \in Threads : \A l \in InQueue(j)' : ~Taken(l)' /\ l \notin Global'
  BY <1>3, <1>5 DEF Fresh
<1>7. ASSUME NEW i \in Threads, NEW j \in Threads,
             NEW n \in DOMAIN mLocalWorkQueue'[i], NEW m \in DOMAIN mLocalWorkQueue'[j],
             mLocalWorkQueue'[i][n] = mLocalWorkQueue'[j][m]
      PROVE  i = j /\ n = m
  <2>1. PICK a \in DOMAIN mLocalWorkQueue[i] :
            mLocalWorkQueue'[i][n] = mLocalWorkQueue[i][a] /\ a = IF i = v THEN n + d ELSE n
    BY <1>4
  <2>2. PICK b \in DOMAIN mLocalWorkQueue[j] :
            mLocalWorkQueue'[j][m] = mLocalWorkQueue[j][b] /\ b = IF j = v THEN m + d ELSE m
    BY <1>4
  <2>3. i = j /\ a = b
    BY <2>1, <2>2, <1>7 DEF Fresh
  <2>4. CASE i = v
    <3>1. n \in Int /\ m \in Int
      BY <2>3, <2>4, <1>2
    <3> QED BY <3>1, <2>1, <2>2, <2>3, <2>4
  <2>5. CASE i # v
    BY <2>1, <2>2, <2>3, <2>5
  <2> QED BY <2>3, <2>4, <2>5
<1>8. ~Taken(k)
  <2>1. k \in InQueue(v)
    BY <1>0 DEF InQueue
  <2> QED BY <2>1 DEF Fresh
<1> QED BY <1>6, <1>7, <1>8 DEF Fresh

\* A thread looks for work.
LEMMA FindOrder ==
  ASSUME Typed, Order, Fresh, NEW i \in Threads,
         Wait(i) \/ WakeUp(i) \/ StillOpen(i) \/ PopLocal(i) \/ Steal(i)
  PROVE  Order' /\ Fresh'
<1> USE DEF tasks, ghosts, global, calls
<1>1. CASE Wait(i) \/ WakeUp(i) \/ StillOpen(i)
  <2>1. PICK where \in Places \ Finishing : Goes(i, where)
    BY <1>1 DEF Wait, WakeUp, StillOpen, Places, Finishing
  <2>2. pc'[i] \notin Finishing /\ \A j \in Threads \ {i} : pc'[j] = pc[j]
    BY <2>1, Going
  <2>3. pc[i] \notin Finishing
    BY <1>1 DEF Wait, WakeUp, StillOpen, Finishing
  <2>4. UNCHANGED <<mLocalWorkQueue, mParent, mOpenTasks, running, finishing, ran, ended, returned, waiting, x, mArray>>
    BY <1>1 DEF Wait, WakeUp, StillOpen
  <2>5. Order'
    BY <2>2, <2>3, <2>4, QuietOrder
  <2>6. Global' = Global /\ \A k : Taken(k)' = Taken(k)
    BY <2>4 DEF Global, Taken, InCalls
  <2> QED BY <2>4, <2>5, <2>6, FreshSame
<1>2. CASE \/ PopLocal(i) /\ mLocalWorkQueue[i] = <<>>
           \/ Steal(i) /\ UNCHANGED <<mLocalWorkQueue, running>>
  <2>1. PICK where \in Places \ Finishing : Goes(i, where)
    BY <1>2, StealTask, BackOpen DEF PopLocal, RunTask, Places, Finishing
  <2>2. pc'[i] \notin Finishing /\ \A j \in Threads \ {i} : pc'[j] = pc[j]
    BY <2>1, Going
  <2>3. pc[i] \notin Finishing
    BY <1>2 DEF PopLocal, Steal, Finishing
  <2>4. UNCHANGED <<mLocalWorkQueue, mParent, mOpenTasks, running, finishing, ran, ended, returned, waiting, x, mArray>>
    BY <1>2 DEF PopLocal, Steal
  <2>5. Order'
    BY <2>2, <2>3, <2>4, QuietOrder
  <2>6. Global' = Global /\ \A k : Taken(k)' = Taken(k)
    BY <2>4 DEF Global, Taken, InCalls
  <2> QED BY <2>4, <2>5, <2>6, FreshSame
<1>3. ASSUME NEW v \in Threads, NEW q \in Seq(Task), NEW k \in Task, LeavesQueue(v, k, q),
             RunTask(i, k), pc[i] \notin Finishing, UNCHANGED <<tasks, global, x, finishing, ghosts>>
      PROVE  Order' /\ Fresh'
  <2>1. running' = [running EXCEPT ![i] = <<k>> \o @] /\ Goes(i, "open")
    BY <1>3 DEF RunTask
  <2>2. InCalls(i)' = InCalls(i) \cup {k} /\ \A j \in Threads \ {i} : running'[j] = running[j]
    BY <2>1, Turns
  <2>3. \A j \in Threads \ {i} : InCalls(j)' = InCalls(j)
    BY <2>2 DEF InCalls
  <2>4. \A l : Taken(l)' => Taken(l) \/ l = k
    BY <2>2, <2>3, <1>3 DEF Taken
  <2>5. Fresh' /\ ~Taken(k)
    BY <2>4, <1>3, FreshFound
  <2>6. pc'[i] = "open" /\ \A j \in Threads \ {i} : pc'[j] = pc[j]
    BY <2>1, Going DEF Places
  <2>7. Order'
    BY <2>1, <2>5, <2>6, <1>3, TurnOrder
  <2> QED BY <2>5, <2>7
<1>4. CASE PopLocal(i) /\ mLocalWorkQueue[i] # <<>>
  <2>1. PICK w \in Seq(Task) : w = mLocalWorkQueue[i] /\ w # <<>>
    BY <1>4 DEF Typed
  <2>2. PICK q \in Seq(Task) : q = SubSeq(w, 1, Len(w) - 1)
    BY <2>1, Front
  <2>3. PICK k \in Task : k = w[Len(w)]
    BY <2>1, Front
  <2>4. Len(w) \in DOMAIN w /\ \A n \in DOMAIN q : n + 0 \in DOMAIN w /\ n + 0 # Len(w) /\ q[n] = w[n + 0]
    BY <2>1, <2>2, Front
  <2>5. mLocalWorkQueue' = [mLocalWorkQueue EXCEPT ![i] = q] /\ RunTask(i, k) /\ pc[i] = "look"
        /\ UNCHANGED <<tasks, global, x, finishing, ghosts>>
    BY <1>4, <2>1, <2>2, <2>3 DEF PopLocal
  <2>6. LeavesQueue(i, k, q)
    BY <2>1, <2>3, <2>4, <2>5 DEF LeavesQueue
  <2>7. pc[i] \notin Finishing
    BY <2>5 DEF Finishing
  <2> QED BY <2>5, <2>6, <2>7, <1>3
<1>5. CASE Steal(i) /\ ~UNCHANGED <<mLocalWorkQueue, running>>
  <2>1. PICK v \in Threads : /\ mLocalWorkQueue[v] # <<>>
                             /\ mLocalWorkQueue' = [mLocalWorkQueue EXCEPT ![v] = Tail(@)]
                             /\ RunTask(i, Head(mLocalWorkQueue[v]))
    BY <1>5, StealTask
  <2>2. PICK w \in Seq(Task) : w = mLocalWorkQueue[v] /\ w # <<>>
    BY <2>1 DEF Typed
  <2>3. PICK q \in Seq(Task) : q = Tail(w)
    BY <2>2, Below
  <2>4. PICK k \in Task : k = Head(w) /\ k = w[1]
    BY <2>2, Below
  <2>5. 1 \in DOMAIN w /\ \A n \in DOMAIN q : n + 1 \in DOMAIN w /\ n + 1 # 1 /\ q[n] = w[n + 1]
    BY <2>2, <2>3, Below
  <2>6. mLocalWorkQueue' = [mLocalWorkQueue EXCEPT ![v] = q] /\ RunTask(i, k) /\ pc[i] = "steal"
        /\ UNCHANGED <<tasks, global, x, finishing, ghosts>>
    BY <1>5, <2>1, <2>2, <2>3, <2>4 DEF Steal
  <2>7. LeavesQueue(v, k, q)
    BY <2>2, <2>4, <2>5, <2>6 DEF LeavesQueue
  <2>8. pc[i] \notin Finishing
    BY <2>6 DEF Finishing
  <2> QED BY <2>6, <2>7, <2>8, <1>3
<1>6. CASE Steal(i)
  BY <1>2, <1>5, <1>6, Zenon
<1>7. CASE PopLocal(i)
  <2>1. CASE mLocalWorkQueue[i] = <<>>
    BY <1>2, <1>7, <2>1
  <2>2. CASE mLocalWorkQueue[i] # <<>>
    BY <1>4, <1>7, <2>2, Zenon
  <2> QED BY <2>1, <2>2, Zenon
<1>8. CASE Wait(i) \/ WakeUp(i) \/ StillOpen(i)
  BY <1>1, <1>8, Zenon
<1> QED BY <1>6, <1>7, <1>8, Zenon

\* A thread is at the global queue, or the client is.
LEMMA GlobalOrder ==
  ASSUME Typed, Slots, Order, Fresh, NEW i \in Threads, halt' = "no", halt = "no",
         (i = client /\ PushStore) \/ PopEmpty(i) \/ PopTest(i) \/ PopTake(i) \/ PopClear(i)
  PROVE  Order' /\ Fresh'
<1> USE DEF tasks, ghosts, global, calls
<1>0. UNCHANGED <<mLocalWorkQueue, mParent, mOpenTasks, finishing, ran, ended, returned, waiting>>
  BY DEF PushStore, PopEmpty, PopTest, PopTake, PopClear
<1>1. pc[i] \in {"push", "pop", "take", "clear"}
  BY DEF PushStore, PopEmpty, PopTest, PopTake, PopClear
<1>2. pc[i] \notin Finishing
  BY <1>1 DEF Finishing
<1>3. CASE PopClear(i) /\ x[i] # nullptr
  <2>1. PICK k \in Task : k = x[i]
    BY <1>3 DEF Typed
  <2>2. RunTask(i, k) /\ ~Taken(k)
    BY <1>3, <2>1 DEF PopClear, Halts
  <2>3. running' = [running EXCEPT ![i] = <<k>> \o @] /\ Goes(i, "open")
    BY <2>2 DEF RunTask
  <2>4. pc'[i] = "open" /\ \A j \in Threads \ {i} : pc'[j] = pc[j]
    BY <2>3, Going DEF Places
  <2>5. Order'
    BY <2>2, <2>3, <2>4, <1>0, <1>2, TurnOrder
  <2>6. Global' \subseteq Global \cup {nullptr}
    BY <1>0, <1>3 DEF Global, PopClear, Typed
  <2>7. \A l : Taken(l)' => Taken(l) \/ l = k
    <3>1. InCalls(i)' = InCalls(i) \cup {k} /\ \A j \in Threads \ {i} : running'[j] = running[j]
      BY <2>3, Turns
    <3>2. \A j \in Threads \ {i} : InCalls(j)' = InCalls(j)
      BY <3>1 DEF InCalls
    <3> QED BY <3>1, <3>2, <1>0 DEF Taken
  <2>8. k \in Global
    BY <2>1 DEF Global
  <2> QED BY <2>5, <2>6, <2>7, <2>8, <1>0, FreshSame
<1>4. CASE ~(PopClear(i) /\ x[i] # nullptr)
  <2>1. running' = running /\ \E where \in Places \ Finishing : Goes(i, where)
    BY <1>4 DEF PushStore, PopEmpty, PopTest, PopTake, PopClear, Empty, Halts, Places, Finishing
  <2>2. pc'[i] \notin Finishing /\ \A j \in Threads \ {i} : pc'[j] = pc[j]
    BY <2>1, Going
  <2>3. Order'
    BY <2>1, <2>2, <1>0, <1>2, QuietOrder
  <2>4. Global' \subseteq Global \cup {nullptr}
    <3>1. CASE PopEmpty(i) \/ PopTest(i)
      BY <3>1 DEF Global, PopEmpty, PopTest
    <3>2. CASE PopTake(i)
      <4>1. /\ t[i] \in 0 .. NumTasks /\ UNCHANGED <<waiting, mArray>>
            /\ x'[i] = mArray[t[i]] /\ \A j \in Threads \ {i} : x'[j] = x[j]
        BY <3>2 DEF PopTake, Typed
      <4> QED BY <4>1 DEF Global
    <3>3. CASE PopClear(i)
      BY <3>3, <1>0 DEF Global, PopClear, Typed
    <3>4. CASE PushStore
      <4>1. client \in Threads
        BY LoadAssumption DEF Threads, client
      <4> QED BY <3>4, <4>1 DEF Global, PushStore, Typed
    <3> QED BY <3>1, <3>2, <3>3, <3>4
  <2>5. \A k : Taken(k)' = Taken(k)
    BY <2>1, <1>0 DEF Taken, InCalls
  <2> QED BY <2>3, <2>4, <2>5, <1>0, FreshSame
<1> QED BY <1>3, <1>4

\* The client hands over a task.
LEMMA PushOrder ==
  ASSUME Typed, Order, Fresh, NEW k \in waiting, Push(k)
  PROVE  Order' /\ Fresh'
<1> USE DEF tasks, ghosts, global, calls
<1>1. client \in Threads
  BY LoadAssumption DEF Threads, client
<1>2. /\ UNCHANGED <<mLocalWorkQueue, mParent, mOpenTasks, running, finishing, ran, ended, returned, mArray>>
      /\ pc[client] = "look" /\ Goes(client, "push")
      /\ waiting' = waiting \ {k} /\ x' = [x EXCEPT ![client] = k]
  BY DEF Push
<1>3. pc'[client] = "push" /\ \A j \in Threads \ {client} : pc'[j] = pc[j]
  BY <1>1, <1>2, Going DEF Places
<1>4. Order'
  BY <1>1, <1>2, <1>3, QuietOrder DEF Finishing
<1>5. Global' \subseteq Global \cup {nullptr}
  BY <1>1, <1>2 DEF Global, Typed
<1>6. \A l : Taken(l)' = Taken(l)
  BY <1>2 DEF Taken, InCalls
<1> QED BY <1>2, <1>4, <1>5, <1>6, FreshSame

\* finishTask leaves the queues alone.
LEMMA FinishFresh ==
  ASSUME Typed, Stacks, Order, Fresh, NEW i \in Threads,
         RunKernel(i) \/ CountDown(i) \/ NotifyParent(i) \/ ReturnNode(i)
  PROVE  Fresh'
<1> USE DEF tasks, ghosts, global, calls
<1>1. UNCHANGED <<mLocalWorkQueue, waiting, x, mArray>>
  BY DEF RunKernel, CountDown, NotifyParent, ReturnNode
<1>2. Global' = Global
  BY <1>1 DEF Global
<1>3. \A l \in Task : Taken(l)' => Taken(l)
  <2>1. CASE RunKernel(i) \/ NotifyParent(i)
    BY <2>1 DEF RunKernel, NotifyParent, Taken, InCalls
  <2>2. CASE CountDown(i)
    <3>1. pc[i] = "finish"
      BY <2>2 DEF CountDown
    <3>2. PICK k \in Task, u \in Task :
              /\ k = current(i) /\ u = running[i][1] /\ 1 \in DOMAIN running[i]
              /\ Len(finishing[i]) = 1 => k = u
      BY <3>1, FrameFacts DEF Finishing
    <3>3. running' = running /\ ended' = IF Len(finishing[i]) = 1 THEN ended \cup {k} ELSE ended
      BY <2>2, <3>2 DEF CountDown
    <3>4. \A j \in Threads : InCalls(j)' = InCalls(j)
      BY <3>3 DEF InCalls
    <3>5. u \in InCalls(i)
      BY <3>2 DEF InCalls
    <3> QED BY <3>2, <3>3, <3>4, <3>5 DEF Taken
  <2>3. CASE ReturnNode(i)
    <3>1. ended' = ended /\ pc[i] = "return"
      BY <2>3 DEF ReturnNode
    <3>2. running[i] # <<>>
      BY <3>1, FrameFacts DEF Finishing
    <3>3. running' = running \/ running' = [running EXCEPT ![i] = Tail(@)]
      BY <2>3 DEF ReturnNode
    <3>4. CASE running' = running
      BY <3>1, <3>4 DEF Taken, InCalls
    <3>5. CASE running' = [running EXCEPT ![i] = Tail(@)]
      <4>1. InCalls(i) = InCalls(i)' \cup {running[i][1]} /\ \A j \in Threads \ {i} : running'[j] = running[j]
        BY <3>2, <3>5, Leaves
      <4>2. \A j \in Threads \ {i} : InCalls(j)' = InCalls(j)
        BY <4>1 DEF InCalls
      <4> QED BY <3>1, <4>1, <4>2 DEF Taken
    <3> QED BY <3>3, <3>4, <3>5
  <2> QED BY <2>1, <2>2, <2>3
<1> QED BY <1>1, <1>2, <1>3, FreshSame

\* A node that has gone back to the pool, and its children, have ended.
LEMMA WholeNow == ASSUME Typed, Order, halt = "no" PROVE ReturnedWhole
<1> SUFFICES ASSUME NEW k \in Task
             PROVE  returned[k] =< 1 /\ (returned[k] = 1 => {k} \cup Children(k) \subseteq ended)
  BY DEF ReturnedWhole
<1>1. returned[k] \in {0, 1} /\ (returned[k] = 1 => mOpenTasks[k] = 0)
  BY DEF Order, LastCall
<1>2. IsFiniteSet(OpenOnes(k)) /\ Cardinality(OpenOnes(k)) \in Nat
  <2>1. OpenOnes(k) \in SUBSET Task
    BY DEF OpenOnes, Children
  <2> QED BY <2>1, TaskSets, LoadAssumption
<1>3. mOpenTasks[k] = self(k) + Cardinality(OpenOnes(k)) /\ self(k) \in {0, 1}
  BY DEF Order, Counts, self
<1>4. mOpenTasks[k] = 0 => self(k) = 0 /\ Cardinality(OpenOnes(k)) = 0
  BY <1>2, <1>3
<1>5. mOpenTasks[k] = 0 => k \in ended /\ OpenOnes(k) = {}
  BY <1>2, <1>4, FS_EmptySet DEF self
<1>6. mOpenTasks[k] = 0 => Children(k) \subseteq ended
  BY <1>5 DEF OpenOnes, Pending
<1> QED BY <1>1, <1>5, <1>6

\* A load of two generations: no task has both a child and a parent.
TwoGenerations == \A l \in Loads : \A k \in Task : l.parent[k] # nullptr => l.parent[l.parent[k]] = nullptr

\* A load of two generations, before anything runs.
LEMMA InitOrder == ASSUME TwoGenerations, Init PROVE OrderInv
<1>0. Typed
  BY InitInv DEF Inv
<1>1. PICK l \in Loads :
        LET shared == inOrder(Load(l, inGlobal))
        IN  /\ mParent = l.parent
            /\ mOpenTasks = [k \in Task |-> 1 + Cardinality({c \in Task : l.parent[c] = k})]
            /\ mLocalWorkQueue = [i \in Threads |-> inOrder(Load(l, i))]
            /\ mTop = 0 /\ mBottom = Len(shared)
            /\ mArray = [n \in 0 .. NumTasks |-> IF n < mBottom THEN shared[n + 1] ELSE nullptr]
            /\ waiting = Load(l, withClient)
            /\ mMutex = nobody
            /\ pc = [i \in Threads |-> IF i = client THEN "look" ELSE "wait"]
            /\ t = [i \in Threads |-> 0] /\ x = [i \in Threads |-> nullptr]
            /\ running = [i \in Threads |-> <<>>] /\ finishing = [i \in Threads |-> <<>>]
            /\ ran = [k \in Task |-> 0] /\ ended = {} /\ returned = [k \in Task |-> 0]
            /\ halt = "no"
  BY DEF Init
<1>2. \A i \in Threads : /\ pc[i] \in {"look", "wait"} /\ x[i] = nullptr
                         /\ running[i] = <<>> /\ finishing[i] = <<>>
                         /\ mLocalWorkQueue[i] = inOrder(Load(l, i))
  BY <1>1
<1>3. Two
  BY <1>1 DEF Two, TwoGenerations
<1>5. Once /\ Frames
  BY <1>2 DEF Once, Frames
<1>6. \A i \in Threads : ~Kernel(i) /\ ~Notifying(i) /\ \A n : ~AtZero(i, n)
  BY <1>2 DEF Kernel, Notifying, AtZero
<1>7. Ran /\ LastCall
  BY <1>1, <1>6 DEF Ran, LastCall
<1>8. Counts
  <2>1. \A k \in Task : OpenOnes(k) = {c \in Task : l.parent[c] = k} /\ self(k) = 1
    BY <1>1 DEF OpenOnes, Pending, Children, self
  <2>2. \A k \in Task : mOpenTasks[k] = 1 + Cardinality({c \in Task : l.parent[c] = k})
    BY <1>1
  <2> QED BY <2>1, <2>2 DEF Counts
<1>9. ASSUME NEW S \in SUBSET Task
      PROVE  /\ \A n \in DOMAIN inOrder(S) : inOrder(S)[n] \in S
             /\ \A n, m \in DOMAIN inOrder(S) : inOrder(S)[n] = inOrder(S)[m] => n = m
             /\ inOrder(S) \in Seq(S)
  <2> DEFINE q == inOrder(S)
  <2>1. /\ q \in Seq(S) /\ Len(q) = Cardinality(S)
        /\ \A n, m \in 1 .. Cardinality(S) : q[n] = q[m] => n = m
    BY InOrder
  <2> HIDE DEF q
  <2>2. DOMAIN q = 1 .. Len(q) /\ \A n \in DOMAIN q : q[n] \in S
    BY <2>1
  <2>3. \A n, m \in DOMAIN q : q[n] = q[m] => n = m
    BY <2>1, <2>2
  <2> QED BY <2>1, <2>2, <2>3 DEF q
<1>10. \A i \in Threads : \A n \in DOMAIN mLocalWorkQueue[i] :
          mLocalWorkQueue[i][n] \in Task /\ l.queue[mLocalWorkQueue[i][n]] = i
  <2> SUFFICES ASSUME NEW i \in Threads, NEW n \in DOMAIN mLocalWorkQueue[i]
               PROVE  mLocalWorkQueue[i][n] \in Load(l, i)
    BY DEF Load
  <2>1. Load(l, i) \in SUBSET Task
    BY DEF Load
  <2> QED BY <2>1, <1>2, <1>9
<1>11. \A k \in Global : k = nullptr \/ l.queue[k] \in {inGlobal, withClient}
  <2>1. \A k \in waiting : l.queue[k] = withClient
    BY <1>1 DEF Load
  <2>2. ASSUME NEW n \in 0 .. NumTasks, mArray[n] # nullptr PROVE l.queue[mArray[n]] = inGlobal
    <3> DEFINE shared == inOrder(Load(l, inGlobal))
    <3>1. n < Len(shared) /\ mArray[n] = shared[n + 1]
      BY <1>1, <2>2
    <3>2. Load(l, inGlobal) \in SUBSET Task
      BY DEF Load
    <3>3. shared \in Seq(Load(l, inGlobal))
      BY <3>2, <1>9
    <3> HIDE DEF shared
    <3>4. n + 1 \in 1 .. Len(shared)
      BY <3>1, <3>3, LoadAssumption
    <3>5. shared[n + 1] \in Load(l, inGlobal)
      BY <3>3, <3>4
    <3> QED BY <3>1, <3>5 DEF Load
  <2> QED BY <2>1, <2>2, <1>2 DEF Global
<1>12. Fresh
  <2>1. \A k : ~Taken(k)
    BY <1>1, <1>2 DEF Taken, InCalls
  <2>2. nullptr \notin Task /\ inGlobal \notin Threads /\ withClient \notin Threads
    BY LoadAssumption DEF Task, nullptr, inGlobal, withClient, Threads
  <2>3. \A i \in Threads : \A k \in InQueue(i) : ~Taken(k) /\ k \notin Global
    BY <2>1, <2>2, <1>10, <1>11 DEF InQueue
  <2>4. ASSUME NEW i \in Threads, NEW j \in Threads,
               NEW n \in DOMAIN mLocalWorkQueue[i], NEW m \in DOMAIN mLocalWorkQueue[j],
               mLocalWorkQueue[i][n] = mLocalWorkQueue[j][m]
        PROVE  i = j /\ n = m
    <3>1. i = j
      BY <2>4, <1>10
    <3>2. Load(l, i) \in SUBSET Task
      BY DEF Load
    <3> QED BY <2>4, <3>1, <3>2, <1>2, <1>9
  <2> QED BY <2>3, <2>4 DEF Fresh
<1> QED BY <1>1, <1>3, <1>5, <1>7, <1>8, <1>12 DEF OrderInv, Order

\* Every step keeps the order; the step that calls a kernel finds the children ended.
LEMMA StepOrder ==
  ASSUME Inv, OrderInv, Next
  PROVE  OrderInv' /\ \A k \in Task : ran'[k] # ran[k] => ran[k] = 0 /\ Children(k) \subseteq ended
<1>1. halt = "no" /\ Typed' /\ Typed /\ Stacks /\ Slots /\ Order /\ Fresh /\ Two
  BY StepTyped DEF Inv, OrderInv
<1> DEFINE Runs == \A k \in Task : ran'[k] # ran[k] => ran[k] = 0 /\ Children(k) \subseteq ended
<1>2. ASSUME NEW i \in Threads,
             Wait(i) \/ WakeUp(i) \/ StillOpen(i) \/ PopLocal(i) \/ Steal(i)
      PROVE  Order' /\ Fresh' /\ UNCHANGED <<halt, mParent, ran>>
  <2>1. UNCHANGED <<halt, mParent, ran>>
    BY <1>2 DEF Wait, WakeUp, StillOpen, PopLocal, Steal, tasks, ghosts
  <2> QED BY <1>1, <1>2, <2>1, FindOrder
<1>3. ASSUME NEW i \in Threads,
             (i = client /\ PushStore) \/ PopEmpty(i) \/ PopTest(i) \/ PopTake(i) \/ PopClear(i)
      PROVE  /\ halt' = "no" => Order' /\ Fresh'
             /\ halt' # "corrupt" /\ UNCHANGED <<mParent, ran, ended, returned>>
  <2>1. halt' # "corrupt" /\ UNCHANGED <<mParent, ran, ended, returned>>
    BY <1>1, <1>3 DEF PushStore, PopEmpty, PopTest, PopTake, PopClear, Empty, Halts, tasks, ghosts
  <2> QED BY <1>1, <1>3, <2>1, GlobalOrder
<1>4. ASSUME NEW i \in Threads, RunKernel(i)
      PROVE  Order' /\ Fresh' /\ UNCHANGED <<halt, mParent>> /\ Runs
  <2>1. UNCHANGED <<halt, mParent>>
    BY <1>4 DEF RunKernel, tasks
  <2>2. Order' /\ Fresh'
    BY <1>1, <1>4, RunKernelOrder, FinishFresh
  <2>3. PICK k \in Task : ran' = [ran EXCEPT ![k] = 1] /\ ran[k] = 0 /\ Children(k) \subseteq ended
    BY <1>1, <1>4, RunKernelOrder
  <2>4. Runs
    BY <1>1, <2>3 DEF Typed
  <2> QED BY <2>1, <2>2, <2>4
<1>5. ASSUME NEW i \in Threads, CountDown(i) \/ NotifyParent(i) \/ ReturnNode(i)
      PROVE  Order' /\ Fresh' /\ UNCHANGED <<halt, mParent, ran>>
  <2>1. UNCHANGED <<mParent, ran>> /\ (NotifyParent(i) \/ ReturnNode(i) => UNCHANGED halt)
    BY <1>5 DEF CountDown, NotifyParent, ReturnNode, tasks, ghosts
  <2>2. Fresh'
    BY <1>1, <1>5, FinishFresh
  <2> QED BY <1>1, <1>5, <2>1, <2>2, CountDownOrder, NotifyParentOrder, ReturnNodeOrder
<1>6. ASSUME NEW k \in waiting, Push(k)
      PROVE  Order' /\ Fresh' /\ UNCHANGED <<halt, mParent, ran>>
  <2>1. UNCHANGED <<halt, mParent, ran>>
    BY <1>6 DEF Push, tasks, ghosts
  <2> QED BY <1>1, <1>6, <2>1, PushOrder
<1> DEFINE Goal == /\ halt' = "no" => Order' /\ Fresh'
                   /\ UNCHANGED mParent /\ Runs
                   /\ (halt' = "no" \/ (halt' # "corrupt" /\ UNCHANGED <<ended, returned>>))
<1>7. ASSUME NEW i \in Threads, Step(i) PROVE Goal
  <2>1. CASE Wait(i) \/ PopLocal(i) \/ Steal(i) \/ StillOpen(i)
    BY <1>1, <1>2, <2>1
  <2>2. CASE PopEmpty(i) \/ PopTest(i) \/ PopTake(i) \/ PopClear(i) \/ (i = client /\ PushStore)
    BY <1>3, <2>2
  <2>3. CASE RunKernel(i)
    BY <1>1, <1>4, <2>3
  <2>4. CASE CountDown(i) \/ NotifyParent(i) \/ ReturnNode(i)
    BY <1>1, <1>5, <2>4
  <2>5. CASE PopWild(i)
    <3>1. halt' = "wild" /\ UNCHANGED <<mParent, ran, ended, returned>>
      BY <1>1, <2>5, WildTyped DEF PopWild, tasks, ghosts
    <3> QED BY <3>1
  <2> QED BY <1>7, <2>1, <2>2, <2>3, <2>4, <2>5 DEF Step
<1>8. Goal
  <2>1. CASE \E i \in Threads : Step(i)
    BY <2>1, <1>7
  <2>2. CASE \E k \in waiting : Push(k)
    BY <1>1, <1>6, <2>2
  <2>3. CASE \E i \in Threads : WakeUp(i)
    BY <1>1, <1>2, <2>3
  <2> QED BY <2>1, <2>2, <2>3 DEF Next
<1>9. Two' /\ Runs
  BY <1>1, <1>8 DEF Two
<1>10. CASE halt' = "no"
  <2>1. Order' /\ Fresh'
    BY <1>8, <1>10
  <2> QED BY <2>1, <1>9, <1>10 DEF OrderInv
<1>11. CASE halt' # "no"
  <2>1. ReturnedWhole
    BY <1>1, WholeNow
  <2>2. ReturnedWhole'
    BY <2>1, <1>8, <1>11 DEF ReturnedWhole, Children
  <2> QED BY <2>2, <1>9, <1>11 DEF OrderInv
<1> QED BY <1>10, <1>11

\* With two generations of tasks the counts of open tasks are exact, and every kernel is
\* called once.
LEMMA OrderInvariant == ASSUME TwoGenerations PROVE Spec => [](Inv /\ OrderInv)
<1>1. Inv /\ OrderInv /\ [Next]_vars => OrderInv'
  <2>1. CASE Inv /\ OrderInv /\ Next
    BY <2>1, StepOrder
  <2>2. CASE Inv /\ OrderInv /\ UNCHANGED vars
    <3>1. Two' /\ halt' = halt /\ (ReturnedWhole => ReturnedWhole')
      BY <2>2 DEF OrderInv, Two, ReturnedWhole, Children, vars, tasks, ghosts
    <3>2. Order => Order'
      BY <2>2 DEF Order, Once, Past, Frames, Ran, Kernel, Counts, OpenOnes, Pending, Notifying, Children, self,
                  LastCall, AtZero, vars, tasks, calls, ghosts
    <3>3. Fresh => Fresh'
      BY <2>2 DEF Fresh, InQueue, Taken, InCalls, Global, vars, global, calls, ghosts
    <3> QED BY <2>2, <3>1, <3>2, <3>3 DEF OrderInv
  <2> QED BY <2>1, <2>2
<1>2. Init => OrderInv
  BY InitOrder
<1> QED BY <1>1, <1>2, SchedulerInvariant, PTL DEF Spec

\* With two generations of tasks a node goes back to the pool once, when it and its children
\* have ended, and no count is taken down afterwards.  With three this is false: finishTask,
\* which goes all the way up, counts a grandparent down for its grandchildren, too.
THEOREM NodesReturnWhole == ASSUME TwoGenerations PROVE Spec => []ReturnedWhole
<1>1. Inv /\ OrderInv => ReturnedWhole
  BY WholeNow DEF Inv, OrderInv
<1> QED BY <1>1, OrderInvariant, PTL

\* With two generations of tasks every kernel is called once, after those of all children.
THEOREM ChildrenRunFirst == ASSUME TwoGenerations PROVE Spec => ChildrenFirst
<1>1. Inv /\ OrderInv /\ [Next]_vars =>
        [\A k \in Task : ran'[k] # ran[k] => ran[k] = 0 /\ Children(k) \subseteq ended]_vars
  BY StepOrder
<1> QED BY <1>1, OrderInvariant, PTL DEF Spec, ChildrenFirst

=============================================================================
