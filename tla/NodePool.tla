------------------------------- MODULE NodePool -------------------------------
(***************************************************************************)
(* What a pool promises: a fixed set of nodes, each either free or held by *)
(* the client, and a null pointer only when none is free.                  *)
(***************************************************************************)
VARIABLES free, held

Obtain == \E n \in free : free' = free \ {n} /\ held' = held \cup {n}
Refuse == free = {} /\ UNCHANGED <<free, held>>
Return == \E n \in held : free' = free \cup {n} /\ held' = held \ {n}

Next == Obtain \/ Refuse \/ Return
=============================================================================
