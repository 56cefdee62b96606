---------------------------- MODULE LinearAllocator ----------------------------
(***************************************************************************)
(* LinearAllocator (src/LinearAllocator.cpp), made by init: a pointer that *)
(* moves through one region.  A block has its size in the word in front.   *)
(***************************************************************************)
EXTENDS Integers

CONSTANTS
    LinearStart, LinearSize,  \* mStart, a multiple of every alignment, and mSize
    Requests                  \* bound: what clients ask for, [size, alignment, offset]

\* Alignments are powers of two (line 45): less than 8, or multiples of it.
ASSUME LinearAssumption ==
    /\ LinearStart \in Nat \ {0} /\ LinearSize \in Nat
    /\ \A r \in Requests :
          /\ r.size \in Nat /\ r.alignment \in Nat /\ r.offset \in Nat
          /\ \E k \in 0 .. 30 : r.alignment = 2^k
          /\ r.alignment < 8 \/ r.alignment % 8 = 0

VARIABLES
    mCurrent,
    given                     \* the blocks handed out since the last reset: [at, size]

linear == <<mCurrent, given>>

WordSize == 4                 \* sizeof(size_t)

roundedUp(a, alignment) == ((a + alignment - 1) \div alignment) * alignment

\* Where allocate puts the size: offset bytes into the block the address is aligned, to
\* kDefaultAlignment at least.
headerOf(r, current) ==
    LET alignment == IF r.alignment < 8 THEN 8 ELSE r.alignment
        offset    == r.offset + WordSize
    IN  roundedUp(current + offset, alignment) - offset

\* Slip: the offset is forgotten when the pointer is moved back.
afterBackwards(r, current) == headerOf(r, current) - r.offset + r.size

\* The word in front is not counted.
after(r, current) == headerOf(r, current) + r.size

blockOf(r, current) == [at |-> headerOf(r, current) + WordSize, size |-> r.size]

isOut(current) == current >= LinearStart + LinearSize

Start == mCurrent = LinearStart /\ given = {}

\* A request that does not fit has moved mCurrent all the same.
allocateLinear(r) ==
    /\ mCurrent' = after(r, mCurrent)
    /\ given' = IF isOut(mCurrent') THEN given ELSE given \cup {blockOf(r, mCurrent)}

reset == mCurrent' = LinearStart /\ given' = {}

\* The next header, of a block with the same offset modulo 8, lies behind the block if the
\* size is 1 to 4 modulo 8; otherwise it covers the last bytes of the block.
Whole(size) == size % 8 \in 1 .. WordSize

bytesOf(b) == b.at - WordSize .. b.at + b.size - 1

\* Two blocks, the sizes in front included, share no byte if the lower one is whole, whatever
\* was asked for in between, in vain or not (lines 58-67 move mCurrent in any case).
BlocksApart ==
    \A b, c \in given :
        b.at < c.at /\ (c.at - b.at) % 8 = 0 /\ Whole(b.size) => bytesOf(b) \cap bytesOf(c) = {}
=============================================================================
