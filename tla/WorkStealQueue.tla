---------------------------- MODULE WorkStealQueue ----------------------------
(***************************************************************************)
(* WorkStealQueue of src/WorkStealQueue.h, the Chase-Lev deque: one owner  *)
(* pushes and pops, thieves steal.                                         *)
(*                                                                         *)
(* The only platform of the build is x86 (vcxproj: Win32), whose memory is *)
(* TSO: relaxed, acquire and release accesses are plain moves, a store     *)
(* waits in its processor's buffer, a seq_cst fence and a compare-exchange *)
(* empty the buffer.  Only the owner stores, so only it has a buffer.      *)
(* A step is what happens between two accesses another thread can tell     *)
(* apart.  The tasks are numbered in the order they are pushed.            *)
(***************************************************************************)
EXTENDS Integers, Sequences

CONSTANTS
    WORK_QUEUE_SIZE,
    Thieves,
    MaxPushes                 \* bound: pushes the owner makes

ASSUME QueueAssumption ==
    /\ WORK_QUEUE_SIZE \in Nat \ {0}
    /\ MaxPushes \in Nat

Task == 1 .. MaxPushes
none == 0                     \* nullptr, and what an unwritten slot holds

VARIABLES
    mTop, mBottom, mArray,    \* memory
    buffer,                   \* the owner's stores on their way to memory
    pc, b, t, x,              \* the owner: where it is, and its locals
    tpc, tt, tx,              \* each thief: where it is, its t and its x
    pushes,                   \* tasks the owner came with so far
    refused,                  \* tasks push dropped because the queue was full
    taken,                    \* taken[k]: how often task k was returned
    wild                      \* an index left the array

memory == <<mTop, mBottom, mArray>>
owner  == <<pc, b, t, x>>
thief  == <<tpc, tt, tx>>
ghosts == <<pushes, refused, taken>>
vars   == <<memory, buffer, owner, thief, ghosts, wild>>

Slots == 0 .. WORK_QUEUE_SIZE - 1

\* A store: to the slot i, or to mBottom (slot -1).
Store(i, v)  == [slot |-> i, value |-> v]
toBottom     == -1

\* What the owner reads from mBottom: its youngest store, else memory.
ownBottom ==
    LET mine == {i \in 1 .. Len(buffer) : buffer[i].slot = toBottom}
    IN  IF mine = {} THEN mBottom
        ELSE buffer[CHOOSE i \in mine : \A j \in mine : j =< i].value

\* The undefined access ends what can be said.
GoWild == wild' = TRUE /\ UNCHANGED <<memory, buffer, owner, thief, ghosts>>

Return(k) == taken' = IF k \in Task THEN [taken EXCEPT ![k] = @ + 1] ELSE taken

-----------------------------------------------------------------------------
(* The owner *)

\* push, up to the comparison with the size.
PushRead ==
    /\ ~wild /\ pc = "idle" /\ pushes < MaxPushes
    /\ pushes' = pushes + 1
    /\ b' = ownBottom /\ t' = mTop
    /\ IF ownBottom - mTop =< WORK_QUEUE_SIZE - 1
       THEN pc' = "push" /\ UNCHANGED refused
       ELSE pc' = "idle" /\ refused' = refused \cup {pushes + 1}
    /\ UNCHANGED <<memory, buffer, x, thief, taken, wild>>

\* The slot and mBottom are stored, in this order: the release fence.
PushWrite ==
    /\ ~wild /\ pc = "push"
    /\ IF b \in Slots
       THEN /\ buffer' = buffer \o <<Store(b, pushes), Store(toBottom, b + 1)>>
            /\ pc' = "idle"
            /\ UNCHANGED <<memory, b, t, x, thief, ghosts, wild>>
       ELSE GoWild

\* Slip: the index is signed, and the queue is claimed below 0.
PopClaimSigned ==
    /\ ~wild /\ pc = "idle"
    /\ b' = ownBottom - 1
    /\ buffer' = Append(buffer, Store(toBottom, b'))
    /\ pc' = "pop"
    /\ UNCHANGED <<memory, t, x, thief, ghosts, wild>>

\* pop claims the last task by moving mBottom.  From 0 the size_t wraps around:
\* every index is below it, and pop is bound to read a[SIZE_MAX].
PopClaim ==
    /\ ~wild /\ pc = "idle"
    /\ IF ownBottom > 0
       THEN /\ b' = ownBottom - 1
            /\ buffer' = Append(buffer, Store(toBottom, b'))
            /\ pc' = "pop"
            /\ UNCHANGED <<memory, t, x, thief, ghosts, wild>>
       ELSE GoWild

\* Slip: the seq_cst fence of pop is missing.
PopReadNoFence ==
    /\ ~wild /\ pc = "pop"
    /\ t' = mTop
    /\ IF mTop =< b
       THEN /\ x' = mArray[b]
            /\ IF mTop = b THEN pc' = "popcas" /\ UNCHANGED taken
                           ELSE pc' = "idle" /\ Return(mArray[b])
            /\ UNCHANGED buffer
       ELSE /\ buffer' = Append(buffer, Store(toBottom, b + 1))
            /\ pc' = "idle" /\ UNCHANGED <<x, taken>>
    /\ UNCHANGED <<memory, b, thief, pushes, refused, wild>>

\* The fence, then mTop.  More than one task left: the last is the owner's.
PopRead ==
    /\ ~wild /\ pc = "pop" /\ buffer = <<>>
    /\ t' = mTop
    /\ IF mTop =< b
       THEN /\ x' = mArray[b]
            /\ IF mTop = b THEN pc' = "popcas" /\ UNCHANGED taken
                           ELSE pc' = "idle" /\ Return(mArray[b])
            /\ UNCHANGED buffer
       ELSE /\ buffer' = <<Store(toBottom, b + 1)>>
            /\ pc' = "idle" /\ UNCHANGED <<x, taken>>
    /\ UNCHANGED <<memory, b, thief, pushes, refused, wild>>

\* One task left: the owner races the thieves for it.
PopCas ==
    /\ ~wild /\ pc = "popcas" /\ buffer = <<>>
    /\ IF mTop = t THEN mTop' = t + 1 /\ Return(x) ELSE UNCHANGED <<mTop, taken>>
    /\ buffer' = <<Store(toBottom, b + 1)>>
    /\ pc' = "idle"
    /\ UNCHANGED <<mBottom, mArray, b, t, x, thief, pushes, refused, wild>>

\* The oldest store reaches memory.
Flush ==
    /\ ~wild /\ buffer # <<>>
    /\ LET s == Head(buffer)
       IN  IF s.slot = toBottom
           THEN mBottom' = s.value /\ UNCHANGED mArray
           ELSE mArray' = [mArray EXCEPT ![s.slot] = s.value] /\ UNCHANGED mBottom
    /\ buffer' = Tail(buffer)
    /\ UNCHANGED <<mTop, owner, thief, ghosts, wild>>

-----------------------------------------------------------------------------
(* A thief *)

StealTop(i) ==
    /\ ~wild /\ tpc[i] = "idle"
    /\ tt' = [tt EXCEPT ![i] = mTop]
    /\ tpc' = [tpc EXCEPT ![i] = "bottom"]
    /\ UNCHANGED <<memory, buffer, owner, tx, ghosts, wild>>

\* Slip: the last task is left to the owner.
StealBottomLeavesOne(i) ==
    /\ ~wild /\ tpc[i] = "bottom"
    /\ tpc' = [tpc EXCEPT ![i] = IF tt[i] + 1 < mBottom THEN "slot" ELSE "idle"]
    /\ UNCHANGED <<memory, buffer, owner, tt, tx, ghosts, wild>>

StealBottom(i) ==
    /\ ~wild /\ tpc[i] = "bottom"
    /\ tpc' = [tpc EXCEPT ![i] = IF tt[i] < mBottom THEN "slot" ELSE "idle"]
    /\ UNCHANGED <<memory, buffer, owner, tt, tx, ghosts, wild>>

StealSlot(i) ==
    /\ ~wild /\ tpc[i] = "slot"
    /\ tx' = [tx EXCEPT ![i] = mArray[tt[i]]]
    /\ tpc' = [tpc EXCEPT ![i] = "cas"]
    /\ UNCHANGED <<memory, buffer, owner, tt, ghosts, wild>>

\* Slip: a store instead of the compare-exchange.
StealStore(i) ==
    /\ ~wild /\ tpc[i] = "cas"
    /\ mTop' = tt[i] + 1 /\ Return(tx[i])
    /\ tpc' = [tpc EXCEPT ![i] = "idle"]
    /\ UNCHANGED <<mBottom, mArray, buffer, owner, tt, tx, pushes, refused, wild>>

StealCas(i) ==
    /\ ~wild /\ tpc[i] = "cas"
    /\ IF mTop = tt[i] THEN mTop' = tt[i] + 1 /\ Return(tx[i])
                       ELSE UNCHANGED <<mTop, taken>>
    /\ tpc' = [tpc EXCEPT ![i] = "idle"]
    /\ UNCHANGED <<mBottom, mArray, buffer, owner, tt, tx, pushes, refused, wild>>

-----------------------------------------------------------------------------
Init ==
    /\ mTop = 0 /\ mBottom = 0 /\ mArray = [i \in Slots |-> none]
    /\ buffer = <<>>
    /\ pc = "idle" /\ b = 0 /\ t = 0 /\ x = none
    /\ tpc = [i \in Thieves |-> "idle"]
    /\ tt = [i \in Thieves |-> 0] /\ tx = [i \in Thieves |-> none]
    /\ pushes = 0 /\ refused = {} /\ taken = [k \in Task |-> 0]
    /\ wild = FALSE

OwnerGoesOn == PushWrite \/ PopRead \/ PopCas
Steal(i)    == StealTop(i) \/ StealBottom(i) \/ StealSlot(i) \/ StealCas(i)

Next ==
    \/ PushRead \/ PopClaim \/ PushWrite \/ PopRead \/ PopCas \/ Flush
    \/ \E i \in Thieves : StealTop(i)
    \/ \E i \in Thieves : StealBottom(i)
    \/ \E i \in Thieves : StealSlot(i)
    \/ \E i \in Thieves : StealCas(i)

Spec == Init /\ [][Next]_vars

\* Every thread that runs goes on running, and a store does not stay in its
\* buffer; the owner need not start another push or pop, a worker without work
\* steals for ever (Scheduler::runOtherTasks).
Fairness ==
    /\ WF_vars(OwnerGoesOn) /\ WF_vars(Flush)
    /\ \A i \in Thieves : WF_vars(Steal(i))

FairSpec == Spec /\ Fairness

-----------------------------------------------------------------------------
(* Properties *)

TypeOK ==
    /\ mTop \in 0 .. MaxPushes + 1 /\ mBottom \in 0 .. MaxPushes + 1
    /\ mArray \in [Slots -> Task \cup {none}]
    /\ buffer \in Seq([slot : Slots \cup {toBottom}, value : 0 .. MaxPushes + 1])
    /\ pc \in {"idle", "push", "pop", "popcas"}
    /\ b \in 0 .. MaxPushes + 1 /\ t \in 0 .. MaxPushes + 1 /\ x \in Task \cup {none}
    /\ tpc \in [Thieves -> {"idle", "bottom", "slot", "cas"}]
    /\ tt \in [Thieves -> 0 .. MaxPushes + 1] /\ tx \in [Thieves -> Task \cup {none}]
    /\ pushes \in 0 .. MaxPushes /\ refused \subseteq Task
    /\ taken \in [Task -> Nat] /\ wild \in BOOLEAN

\* No task is returned twice, whoever asked.
TakenOnce == \A k \in Task : taken[k] =< 1

\* The deque behind the indexes: a pop that has claimed a task has not taken it yet.
claiming == pc \in {"pop", "popcas"} /\ buffer = <<>>
back     == IF claiming THEN b + 1 ELSE mBottom
items    == [i \in 1 .. IF back =< mTop THEN 0 ELSE back - mTop |-> mArray[mTop + i - 1]]

Deque == INSTANCE TaskDeque WITH Tasks <- Task

\* Pushes, pops and steals take effect one at a time: the owner at the back,
\* the thieves at the front, each task once.
KeepsTheDeque == Deque!Spec

\* A task that was accepted is run by somebody, as long as the thieves look.
EventuallyTaken == \A k \in Task : (k =< pushes /\ k \notin refused) ~> (taken[k] > 0 \/ wild)
=============================================================================
