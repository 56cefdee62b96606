------------------------------ MODULE BlockStore ------------------------------
(***************************************************************************)
(* What alloc and free promise their client, with nothing of the heap: a   *)
(* block is handed out of units nobody holds, outside the MemorySpace      *)
(* struct, and stays the client's until the client gives it back.          *)
(***************************************************************************)
EXTENDS Integers

CONSTANTS First, Limit        \* blocks lie in First .. Limit - 1

VARIABLE owned                \* owned[a]: units of the block at a, or 0

Addresses   == 0 .. Limit - 1
Extent(a)   == a .. a + owned[a] - 1
Init        == owned = [a \in Addresses |-> 0]

\* The block at a changes and no other does.
At(a) == owned' = [owned EXCEPT ![a] = owned'[a]]

HandOut(a) ==
    /\ At(a) /\ owned'[a] > 0
    /\ First =< a /\ a + owned'[a] =< Limit
    /\ \A b \in Addresses : Extent(b) \cap (a .. a + owned'[a] - 1) = {}

TakeBack(a) == At(a) /\ owned[a] > 0 /\ owned'[a] = 0

Next == \E a \in Addresses : HandOut(a) \/ TakeBack(a)

Spec == Init /\ [][Next]_owned
=============================================================================
