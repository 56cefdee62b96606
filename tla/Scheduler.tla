------------------------------ MODULE Scheduler ------------------------------
(***************************************************************************)
(* The Scheduler of src/Scheduler.cpp with its GlobalWorkQueue             *)
(* (src/WorkStealQueue.h), access by access.  A local WorkStealQueue is    *)
(* the deque module WorkStealQueue shows it to be.  Thread 0 is the client *)
(* that owns the scheduler: it pushes tasks and otherwise calls            *)
(* runOtherTasks(0); the others are in workerThread.  Nothing in the code  *)
(* creates tasks: they come with a load.                                   *)
(***************************************************************************)
EXTENDS Integers, Sequences, FiniteSets

CONSTANTS
    mNumThreads,
    NumTasks,
    CountLimit,               \* mOpenTasks is a word: it counts modulo CountLimit
    Loads                     \* the tasks the client has: a record of
                              \*   parent  the parent of each task, or nullptr
                              \*   queue   where it is at first: in the local queue of
                              \*           a thread, inGlobal, or withClient, who
                              \*           pushes it later

Threads == 0 .. mNumThreads - 1
Task    == 1 .. NumTasks
client  == 0
nullptr == 0
inGlobal   == -1
withClient == -2

ASSUME LoadAssumption ==
    /\ mNumThreads \in Nat \ {0} /\ NumTasks \in Nat
    /\ CountLimit \in Nat /\ CountLimit > NumTasks   \* the tasks are fewer than 2^32
    /\ \A l \in Loads :
          /\ \A k \in Task : l.parent[k] \in 0 .. k - 1
          /\ l.queue \in [Task -> Threads \cup {inGlobal, withClient}]

VARIABLES
    mParent,                  \* each task's parent
    mOpenTasks,               \* each task's count
    mLocalWorkQueue,          \* the local queues, oldest task first
    pushed,                   \* the threads whose local queue was ever pushed to
    mTop, mBottom, mArray,    \* the global queue
    waiting,                  \* the tasks the client will push
    mMutex,                   \* the thread inside it, or -1
    pc, t, x,                 \* each thread: where it is; pop's t and x
    running,                  \* the tasks of its calls of runTask, innermost first
    finishing,                \* its calls of finishTask, innermost first
    ran,                      \* ghost: how often each kernel was called
    ended,                    \* ghost: the tasks that have counted themselves down
    returned,                 \* ghost: how often each node was given back to the pool
    halt                      \* "no", or why nothing more is claimed

tasks   == <<mParent, mOpenTasks, pushed>>
global  == <<mTop, mBottom, mArray, waiting>>
calls   == <<t, x, running, finishing>>
ghosts  == <<ran, ended, returned>>
vars    == <<tasks, mLocalWorkQueue, global, mMutex, pc, calls, ghosts, halt>>

nobody  == -1
Goes(i, where) == pc' = [pc EXCEPT ![i] = where]
Halts(why)     == halt' = why

Load(l, place) == {k \in Task : l.queue[k] = place}
inOrder(S) == [n \in 1 .. Cardinality(S) |-> CHOOSE k \in S : Cardinality({j \in S : j < k}) = n - 1]

Init ==
    \E l \in Loads :
        LET shared == inOrder(Load(l, inGlobal))
        IN  /\ mParent = l.parent
            /\ mOpenTasks = [k \in Task |-> 1 + Cardinality({c \in Task : l.parent[c] = k})]
            /\ mLocalWorkQueue = [i \in Threads |-> inOrder(Load(l, i))]
            /\ pushed = {i \in Threads : Load(l, i) # {}}
            /\ mTop = 0 /\ mBottom = Len(shared)
            /\ mArray = [n \in 0 .. NumTasks |-> IF n < mBottom THEN shared[n + 1] ELSE nullptr]
            /\ waiting = Load(l, withClient)
            /\ mMutex = nobody
            /\ pc = [i \in Threads |-> IF i = client THEN "look" ELSE "wait"]
            /\ t = [i \in Threads |-> 0] /\ x = [i \in Threads |-> nullptr]
            /\ running = [i \in Threads |-> <<>>] /\ finishing = [i \in Threads |-> <<>>]
            /\ ran = [k \in Task |-> 0] /\ ended = {} /\ returned = [k \in Task |-> 0]
            /\ halt = "no"

Children(k) == {c \in Task : mParent[c] = k}

\* Slip: a worker with a task on its hands waits like one without.
backToWait(i, rest) == IF i # client THEN "wait" ELSE IF rest # <<>> THEN "open" ELSE "look"

\* Where a thread goes on after runTask or runOtherTasks with these calls left.
back(i, rest) == IF rest # <<>> THEN "open" ELSE IF i = client THEN "look" ELSE "wait"

\* runTask(k, i), or the null pointer a worker does not ask about.
RunTask(i, k) ==
    /\ running' = [running EXCEPT ![i] = <<k>> \o @]
    /\ Goes(i, "open")

-----------------------------------------------------------------------------
(* The global queue.  It has no lock of its own; mMutex is held where a worker waits. *)

\* mArray[mBottom++] = task: mBottom counts up before the slot is written.
Push(k) ==
    /\ pc[client] = "look" /\ running[client] = <<>>
    /\ mBottom' = mBottom + 1
    /\ waiting' = waiting \ {k}
    /\ x' = [x EXCEPT ![client] = k] /\ t' = [t EXCEPT ![client] = mBottom]
    /\ Goes(client, "push")
    /\ UNCHANGED <<tasks, mLocalWorkQueue, mTop, mArray, mMutex, running, finishing, ghosts, halt>>

PushStore ==
    /\ pc[client] = "push"
    /\ mArray' = [mArray EXCEPT ![t[client]] = x[client]]
    /\ x' = [x EXCEPT ![client] = nullptr]
    /\ Goes(client, "look")
    /\ UNCHANGED <<tasks, mLocalWorkQueue, mTop, mBottom, waiting, mMutex, t, running, finishing,
                   ghosts, halt>>

\* Slip: the last index counts as a task.
hasTaskInclusive == mTop =< mBottom

hasTask == mTop < mBottom

\* Without a task pop returns null: runOtherTasks steals, workerThread dereferences it.
Empty(i) ==
    IF mMutex = i THEN Halts("fault") /\ UNCHANGED <<pc, mMutex>>
                  ELSE Goes(i, "steal") /\ UNCHANGED <<mMutex, halt>>

PopEmpty(i) ==
    /\ pc[i] = "pop" /\ ~hasTask
    /\ Empty(i)
    /\ UNCHANGED <<tasks, mLocalWorkQueue, global, calls, ghosts>>

PopTest(i) ==
    /\ pc[i] = "pop" /\ hasTask
    /\ t' = [t EXCEPT ![i] = mTop]
    /\ Goes(i, "take")
    /\ UNCHANGED <<tasks, mLocalWorkQueue, global, mMutex, x, running, finishing, ghosts, halt>>

\* Slip: mTop is counted up, whatever it was read as.
PopTakeCounting(i) ==
    /\ pc[i] = "take"
    /\ mTop' = mTop + 1
    /\ x' = [x EXCEPT ![i] = mArray[t[i]]]
    /\ Goes(i, "clear")
    /\ IF pc[client] = "push" /\ t[client] = t[i] THEN Halts("unwritten") ELSE UNCHANGED halt
    /\ UNCHANGED <<tasks, mLocalWorkQueue, mBottom, mArray, waiting, mMutex, t, running, finishing,
                   ghosts>>

\* mTop is stored, then the slot read.  A slot that push has not written yet is lost to it.
PopTake(i) ==
    /\ pc[i] = "take"
    /\ mTop' = t[i] + 1
    /\ x' = [x EXCEPT ![i] = mArray[t[i]]]
    /\ Goes(i, "clear")
    /\ IF pc[client] = "push" /\ t[client] = t[i] THEN Halts("unwritten") ELSE UNCHANGED halt
    /\ UNCHANGED <<tasks, mLocalWorkQueue, mBottom, mArray, waiting, mMutex, t, running, finishing,
                   ghosts>>

InCalls(i) == {running[i][n] : n \in DOMAIN running[i]}

Taken(k) == k \in ended \/ \E i \in Threads : k \in InCalls(i)

\* The slot is cleared; then pop ends without a return statement.  It may return x, and
\* may return anything.
PopClear(i) ==
    /\ pc[i] = "clear"
    /\ mArray' = [mArray EXCEPT ![t[i]] = nullptr]
    /\ x' = [x EXCEPT ![i] = nullptr]
    /\ \/ /\ x[i] # nullptr
          /\ RunTask(i, x[i])
          /\ mMutex' = IF mMutex = i THEN nobody ELSE mMutex
          /\ IF Taken(x[i]) THEN Halts("twice") ELSE UNCHANGED halt
       \/ /\ x[i] = nullptr
          /\ Empty(i) /\ UNCHANGED running
       \/ /\ Halts("undefined") /\ UNCHANGED <<pc, mMutex, running>>
    /\ UNCHANGED <<tasks, mLocalWorkQueue, mTop, mBottom, waiting, t, finishing, ghosts>>

-----------------------------------------------------------------------------
(* Finding work *)

\* waitUntilTaskIsAvailable: under the mutex, pop follows if there is a task.
Wait(i) ==
    /\ pc[i] = "wait" /\ mMutex = nobody
    /\ IF mTop # mBottom THEN mMutex' = i /\ Goes(i, "pop")
                         ELSE Goes(i, "asleep") /\ UNCHANGED mMutex
    /\ UNCHANGED <<tasks, mLocalWorkQueue, global, calls, ghosts, halt>>

\* Nobody notifies mCondition; it may wake up spuriously.
WakeUp(i) ==
    /\ pc[i] = "asleep"
    /\ Goes(i, "wait")
    /\ UNCHANGED <<tasks, mLocalWorkQueue, global, mMutex, calls, ghosts, halt>>

\* runOtherTasks: the newest task of one's own queue, else the global queue.
PopLocal(i) ==
    /\ pc[i] = "look" /\ i \in pushed
    /\ LET q == mLocalWorkQueue[i]
       IN  IF q # <<>>
           THEN /\ mLocalWorkQueue' = [mLocalWorkQueue EXCEPT ![i] = SubSeq(q, 1, Len(q) - 1)]
                /\ RunTask(i, q[Len(q)])
           ELSE Goes(i, "pop") /\ UNCHANGED <<mLocalWorkQueue, running>>
    /\ UNCHANGED <<tasks, global, mMutex, t, x, finishing, ghosts, halt>>

\* In a queue nothing was pushed to mBottom - 1 wraps around, and pop reads far behind the array.
PopWild(i) ==
    /\ pc[i] = "look" /\ i \notin pushed
    /\ Halts("wild")
    /\ UNCHANGED <<tasks, mLocalWorkQueue, global, mMutex, pc, calls, ghosts>>

\* stealTaskFromOtherThread: the oldest task of the next queue that has one.  Queues only get
\* shorter, so that looking at one after the other finds what looking at once does.
Steal(i) ==
    /\ pc[i] = "steal"
    /\ LET at(n) == (i + n) % mNumThreads
           full  == {n \in 1 .. mNumThreads : mLocalWorkQueue[at(n)] # <<>>}
       IN  IF full # {}
           THEN LET victim == at(CHOOSE n \in full : \A m \in full : n =< m)
                IN  /\ mLocalWorkQueue' = [mLocalWorkQueue EXCEPT ![victim] = Tail(@)]
                    /\ RunTask(i, Head(mLocalWorkQueue[victim]))
           ELSE Goes(i, back(i, running[i])) /\ UNCHANGED <<mLocalWorkQueue, running>>
    /\ UNCHANGED <<tasks, global, mMutex, t, x, finishing, ghosts, halt>>

-----------------------------------------------------------------------------
(* Running a task *)

\* Slip: off by one.
isOpenTwice(k) == mOpenTasks[k] > 2

isOpen(k) == mOpenTasks[k] > 1

\* Other tasks are run as long as children are open.
StillOpen(i) ==
    /\ pc[i] = "open" /\ isOpen(Head(running[i]))
    /\ Goes(i, "look")
    /\ UNCHANGED <<tasks, mLocalWorkQueue, global, mMutex, calls, ghosts, halt>>

\* The kernel, and the call of finishTask.
RunKernel(i) ==
    /\ pc[i] = "open" /\ ~isOpen(Head(running[i]))
    /\ ran' = [ran EXCEPT ![Head(running[i])] = @ + 1]
    /\ finishing' = [finishing EXCEPT ![i] = <<[task |-> Head(running[i]), open |-> 0]>>]
    /\ Goes(i, "finish")
    /\ UNCHANGED <<tasks, mLocalWorkQueue, global, mMutex, t, x, running, ended, returned, halt>>

current(i) == Head(finishing[i]).task
Calls(i, frames) == finishing' = [finishing EXCEPT ![i] = frames]

\* The count of a node that is back in the pool is the link of the free list.
CountDown(i) ==
    /\ pc[i] = "finish"
    /\ LET k    == current(i)
           open == (mOpenTasks[k] - 1) % CountLimit
       IN  /\ mOpenTasks' = [mOpenTasks EXCEPT ![k] = open]
           /\ Calls(i, <<[task |-> k, open |-> open]>> \o Tail(finishing[i]))
           /\ ended' = IF Len(finishing[i]) = 1 THEN ended \cup {k} ELSE ended
           /\ IF returned[k] > 0 THEN Halts("corrupt") ELSE UNCHANGED halt
    /\ Goes(i, "parent")
    /\ UNCHANGED <<mParent, pushed, mLocalWorkQueue, global, mMutex, t, x, running, ran, returned>>

\* finishTask(task->mParent), all the way up.
NotifyParent(i) ==
    /\ pc[i] = "parent"
    /\ IF mParent[current(i)] # nullptr
       THEN /\ Calls(i, <<[task |-> mParent[current(i)], open |-> 0]>> \o finishing[i])
            /\ Goes(i, "finish")
       ELSE Goes(i, "return") /\ UNCHANGED finishing
    /\ UNCHANGED <<tasks, mLocalWorkQueue, global, mMutex, t, x, running, ghosts, halt>>

\* Slip: the count is read again on the way back.
isDoneNow(i) == mOpenTasks[current(i)] = 0

isDone(i) == Head(finishing[i]).open = 0

\* On the way back the node goes to its pool if this call counted it down to zero.
ReturnNode(i) ==
    /\ pc[i] = "return"
    /\ returned' = IF isDone(i)
                   THEN [returned EXCEPT ![current(i)] = @ + 1] ELSE returned
    /\ Calls(i, Tail(finishing[i]))
    /\ IF Len(finishing[i]) > 1 THEN UNCHANGED <<running, pc>>
       ELSE /\ running' = [running EXCEPT ![i] = Tail(@)]
            /\ Goes(i, back(i, Tail(running[i])))
    /\ UNCHANGED <<tasks, mLocalWorkQueue, global, mMutex, t, x, ran, ended, halt>>

-----------------------------------------------------------------------------
Step(i) ==
    /\ halt = "no"
    /\ \/ Wait(i) \/ PopLocal(i) \/ PopWild(i) \/ PopEmpty(i) \/ PopTest(i) \/ PopTake(i) \/ PopClear(i)
       \/ Steal(i) \/ StillOpen(i) \/ RunKernel(i) \/ CountDown(i) \/ NotifyParent(i)
       \/ ReturnNode(i)
       \/ i = client /\ PushStore

Next ==
    \/ \E i \in Threads : Step(i)
    \/ halt = "no" /\ \E k \in waiting : Push(k)
    \/ halt = "no" /\ \E i \in Threads : WakeUp(i)

Spec == Init /\ [][Next]_vars

\* Threads that can go on do.  A worker need not wake up, and the client need not push.
FairSpec == Spec /\ \A i \in Threads : WF_vars(Step(i))

-----------------------------------------------------------------------------
(* Properties.  They speak of a run up to the first task two threads have popped, the
   first null pointer a worker runs, the first slot read before it was written, the first
   thread that looks for a task in a queue of its own that was never pushed to.  *)

\* Every variable has its type.
TypeOK ==
    /\ mOpenTasks \in [Task -> 0 .. CountLimit - 1]
    /\ mBottom \in 0 .. NumTasks /\ mTop \in 0 .. mBottom
    /\ mArray \in [0 .. NumTasks -> Task \cup {nullptr}]
    /\ waiting \subseteq Task /\ ended \subseteq Task
    /\ \A i \in Threads : InCalls(i) \subseteq Task /\ mLocalWorkQueue[i] \in Seq(Task)
    /\ mMutex \in Threads \cup {nobody}
    /\ pc \in [Threads -> {"wait", "asleep", "look", "pop", "take", "clear", "steal", "push",
                            "open", "finish", "parent", "return"}]
    /\ halt \in {"no", "fault", "undefined", "unwritten", "twice", "corrupt", "wild"}

\* runTask (lines 146-153) calls a kernel after those of all children have ended, whichever
\* threads run them and whatever else the thread has been running in between.
ChildrenFirst ==
    [][\A k \in Task : ran'[k] # ran[k] => ran[k] = 0 /\ Children(k) \subseteq ended]_vars

\* A node goes back to the pool (line 170) once, when it and all its children have ended, and
\* is not counted down any more.
ReturnedWhole ==
    /\ halt # "corrupt"
    /\ \A k \in Task :
          /\ returned[k] =< 1
          /\ returned[k] = 1 => {k} \cup Children(k) \subseteq ended

\* No race in pop makes the queues lose a task: one that is not running yet is where somebody
\* will look.  (mTop may jump back; it never jumps over a task.)
NothingLost ==
    halt = "no" =>
        \A k \in Task :
            \/ k \in waiting \cup ended
            \/ \E i \in Threads :
                  x[i] = k \/ k \in InCalls(i) \/ k \in {mLocalWorkQueue[i][n] : n \in DOMAIN mLocalWorkQueue[i]}
            \/ \E n \in mTop .. mBottom - 1 : mArray[n] = k

\* Once the client has handed over all its tasks each of them is run, although a worker that
\* finds the global queue empty may sleep for ever and a task that could run waits under the
\* ones its thread has picked up since.  (With a child still to come they may wait for ever.
\* A thread that comes to look for other tasks has had one in its own queue, or it ends here.)
EventuallyRun == waiting = {} ~> halt # "no" \/ \A k \in Task : ran[k] > 0
=============================================================================
