----------------------------- MODULE MCMemAlloc -----------------------------
(***************************************************************************)
(* The heap for TLC.  Each cfg scales the word width, the page and the     *)
(* granularity down together, so that a few requests reach every path:     *)
(* the struct takes 1 or 2 units, a page 4 to 18, a bin map 3 to 6 bits.   *)
(***************************************************************************)
EXTENDS MemAllocProps

\* For run core: what comes after a free that went astray.  None of its properties speaks of
\* those states, and astray is never taken back.
Accounted == ~astray
=============================================================================
