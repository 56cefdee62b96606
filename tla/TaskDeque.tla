------------------------------ MODULE TaskDeque ------------------------------
(***************************************************************************)
(* What a work stealing queue promises: a deque of tasks whose owner puts  *)
(* and takes at the back, whose thieves take at the front, and which hands *)
(* out each task it was given once.                                        *)
(***************************************************************************)
EXTENDS Integers, Sequences

CONSTANT Tasks

VARIABLES items, taken        \* taken[k]: how often task k has been handed out

Init == items = <<>> /\ taken = [k \in Tasks |-> 0]

PutBack(k) == items' = Append(items, k) /\ UNCHANGED taken

HandOut(k) == taken' = [taken EXCEPT ![k] = @ + 1]

TakeBack ==
    /\ items # <<>>
    /\ HandOut(items[Len(items)])
    /\ items' = SubSeq(items, 1, Len(items) - 1)

TakeFront == items # <<>> /\ HandOut(Head(items)) /\ items' = Tail(items)

Next == (\E k \in Tasks : taken[k] = 0 /\ PutBack(k)) \/ TakeBack \/ TakeFront

Spec == Init /\ [][Next]_<<items, taken>>
=============================================================================
