------------------------------- MODULE MCBins -------------------------------
(***************************************************************************)
(* The bins for TLC.  Which chunk is which does not matter.                *)
(***************************************************************************)
EXTENDS Bins, TLC

ChunkSymmetry == Permutations(Chunk)
=============================================================================
