---------------------------- MODULE AllocAligned ----------------------------
(***************************************************************************)
(* allocAligned of src/MemAlloc.cpp, as GeneralAllocator::allocate calls   *)
(* it: mMutex of the space is held, so one thread at a time is in alloc or *)
(* allocAligned, but memory_lock is free again once alloc has returned,    *)
(* and GeneralAllocator::deallocate takes no mutex.  What allocAligned     *)
(* does to the heads of its chunk is a sequence of reads and writes that   *)
(* other threads' calls of free come between.                              *)
(***************************************************************************)
EXTENDS MemAllocProps

CONSTANTS
    AlignedRequests,      \* requests, in units as in Requests
    Alignments,           \* alignments asked for, in bytes
    Offsets               \* offsets, in units

ASSUME AlignedAssumption ==
    /\ AlignedRequests \subseteq Nat /\ Offsets \subseteq Nat
    /\ Alignments \subseteq Nat \ (0 .. 8)
    \* Beyond 2^31 the loop of lines 1221-1222 does not end.
    /\ \A alignment \in Alignments : (alignment - 1) \div 8 < 2^28

VARIABLES
    stage,                \* where the thread in allocAligned is, "out" if there is none
    job,                  \* need and align: the call; ptr: its chunk; leader: 0 if there is none;
                          \* next: the chunk whose PINUSE bit is to be set
    seen,                 \* a head that was read and is about to be written back
    late,                 \* the head a free in progress will write back; size 0: none
    raced                 \* ghost: a write was lost

aligning == <<stage, job, seen, late, raced>>
allvars  == <<vars, aligning>>

kDefaultAlignment == 8
NoHead == [at |-> 0, size |-> 0, pin |-> FALSE, cin |-> FALSE]
NoJob  == [need |-> 0, align |-> 2, offset |-> 0, ptr |-> 0, leader |-> 0, next |-> 0]

head(a) == [at |-> a, size |-> csize[a], pin |-> a \in pinuse, cin |-> a \in cinuse]

\* The chunks of the call: nobody else knows of them.
mine == IF stage = "out" THEN {} ELSE {job.ptr, job.leader}

\* A power of two that is at least kMinChunkSize, in units.
powerOfTwo(alignment) ==
    2 ^ (CHOOSE k \in 1 .. alignment :
            /\ alignment =< kDefaultAlignment * 2^k
            /\ k = 1 \/ alignment > kDefaultAlignment * 2^(k - 1))

\* 15 bytes are less than kMinChunkSize and get no room for the overhead.
requestToSize(r) == IF r < 3 THEN kMinChunkSize ELSE padRequest(r)

\* The bytes asked of alloc, in units; alloc adds the overhead.
alignedRequest(nb, align, offset) == nb + align + offset + kMinChunkSize - 1

isAligned(a, align, offset) == (a + 1 + offset) % align = 0

\* Slips: the aligned spot before the chunk; a leader of any size.
placeBefore(a, align, offset) ==
    LET user == a + 1 + offset
    IN  (user \div align) * align - 1 - offset

placeNearest(a, align, offset) ==
    LET user == a + 1 + offset
    IN  ((user + align - 1) \div align) * align - 1 - offset

\* The first aligned spot that leaves a leader of kMinChunkSize.
place(a, align, offset) ==
    LET user == a + 1 + offset
        spot == ((user + align - 1) \div align) * align - 1 - offset
    IN  IF spot - a >= kMinChunkSize THEN spot ELSE spot + align

-----------------------------------------------------------------------------
\* Line 1234: alloc, under memory_lock.  (At exactly segment_threshold the
\* comparison of bytes and that of units differ; no request is that large.)
allocAligned(r, alignment, offset) ==
    LET nb    == requestToSize(r)
        align == powerOfTwo(alignment)
        req   == alignedRequest(nb, align, offset)
    IN  /\ stage = "out" /\ late.size = 0
        /\ req # segment_threshold
        /\ alloc(req)
        /\ IF halt' = "no"
           THEN /\ stage' = "place"
                /\ job' = [need |-> nb, align |-> align, offset |-> offset, leader |-> 0, next |-> 0,
                           ptr |-> CHOOSE p \in Unit : owned'[p] # owned[p]]
           ELSE UNCHANGED <<stage, job>>
        /\ UNCHANGED <<seen, late, raced>>

\* Lines 1241-1262: the head of the aligned chunk is written, that of the chunk
\* behind is read.
Place ==
    LET pos  == place(job.ptr, job.align, job.offset)
        size == csize[job.ptr] - (pos - job.ptr)
    IN  /\ Running /\ stage = "place"
        /\ IF isAligned(job.ptr, job.align, job.offset)
           THEN /\ stage' = "trim" /\ seen' = head(job.ptr)
                /\ UNCHANGED <<vars, job, late, raced>>
           ELSE IF size =< 0
           THEN Crash("undefined") /\ UNCHANGED aligning
           ELSE /\ csize' = [csize EXCEPT ![pos] = size]
                /\ cinuse' = cinuse \cup {pos}
                /\ pinuse' \in {pinuse, pinuse \cup {pos}}
                /\ job' = [job EXCEPT !.ptr = pos, !.leader = job.ptr, !.next = pos + size]
                /\ seen' = head(pos + size) /\ stage' = "next"
                /\ UNCHANGED <<foot, space, pages, ghosts, late, raced>>

\* The second half of head |= kPinuseBit on the chunk behind, and its footer.
MarkSuccessor ==
    LET n == job.next
    IN  /\ Running /\ stage \in {"next", "rest"}
        /\ csize' = [csize EXCEPT ![n] = seen.size]
        /\ cinuse' = IF seen.cin THEN cinuse \cup {n} ELSE cinuse \ {n}
        /\ pinuse' = pinuse \cup {n}
        /\ foot' = [foot EXCEPT ![n] = Msp]
        /\ raced' = (raced \/ seen.size # csize[n] \/ seen.cin # (n \in cinuse))
        /\ IF stage = "next"
           THEN stage' = "lead" /\ seen' = head(job.leader)
           ELSE stage' = "give" /\ seen' = NoHead
        /\ UNCHANGED <<space, pages, ghosts, job, late>>

\* Slips: PINUSE set instead of kept; no footer for the chunk behind.
SetSizeInusePinuse(p, q, rest) ==
    /\ csize' = [csize EXCEPT ![p] = q - p, ![q] = rest]
    /\ cinuse' = cinuse \cup {p, q}
    /\ pinuse' = pinuse \cup {p, q}
    /\ foot' = [foot EXCEPT ![q] = Msp]
    /\ raced' = (raced \/ seen.pin # (p \in pinuse))

SetSizeInuseNoFoot(p, q, rest) ==
    /\ csize' = [csize EXCEPT ![p] = q - p, ![q] = rest]
    /\ cinuse' = cinuse \cup {p, q}
    /\ pinuse' = (IF seen.pin THEN pinuse \cup {p} ELSE pinuse \ {p}) \cup {q}
    /\ foot' = foot
    /\ raced' = (raced \/ seen.pin # (p \in pinuse))

\* The chunk at p ends at q, where one of our own follows that has size rest.  The
\* head of p is written with the PINUSE bit that was read.
SetSizeInuse(p, q, rest) ==
    /\ csize' = [csize EXCEPT ![p] = q - p, ![q] = rest]
    /\ cinuse' = cinuse \cup {p, q}
    /\ pinuse' = (IF seen.pin THEN pinuse \cup {p} ELSE pinuse \ {p}) \cup {q}
    /\ foot' = [foot EXCEPT ![q] = Msp]
    /\ raced' = (raced \/ seen.pin # (p \in pinuse))

\* Line 1263: the leader is cut off in front.
CutLead ==
    LET a == job.leader
        p == job.ptr
    IN  /\ Running /\ stage = "lead"
        /\ SetSizeInuse(a, p, csize[p])
        /\ owned' = [owned EXCEPT ![a] = p - a, ![p] = owned[a] - (p - a)]
        /\ seen' = [head(p) EXCEPT !.pin = TRUE] /\ stage' = "trim"
        /\ UNCHANGED <<space, pages, lost, carved, astray, alarm, halt, job, late>>

\* Lines 1268-1275: what is behind nb becomes a chunk in use that nobody holds
\* or frees (trailer is never set).  Its successor's head is read.
Trim ==
    LET p    == job.ptr
        q    == p + job.need
        rest == seen.size - job.need
    IN  /\ Running /\ stage = "trim"
        /\ IF rest > kMinChunkSize
           THEN /\ SetSizeInuse(p, q, rest)
                /\ lost' = lost \cup {q}
                /\ seen' = head(q + rest) /\ job' = [job EXCEPT !.next = q + rest]
                /\ stage' = "rest"
           ELSE stage' = "give" /\ seen' = NoHead /\ UNCHANGED <<heap, lost, job, raced>>
        /\ owned' = [owned EXCEPT ![p] = job.need]
        /\ UNCHANGED <<space, pages, carved, astray, alarm, halt, late>>

\* Lines 1280-1287: the leader is freed, under memory_lock, and the block is the client's.
Give ==
    /\ Running /\ stage = "give" /\ late.size = 0
    /\ IF job.leader = 0 THEN UNCHANGED vars ELSE free(job.leader)
    /\ stage' = "out" /\ job' = NoJob
    /\ UNCHANGED <<seen, late, raced>>

-----------------------------------------------------------------------------
\* A free by another thread.  When it clears the PINUSE bit of our chunk it reads
\* that head and writes it back (lines 1108, 1188); the write may come later,
\* after writes of ours, but before memory_lock is free.
FreeBeside(a) ==
    /\ late.size = 0
    /\ free(a)
    /\ IF nextChunk(a) \in mine /\ nextChunk(a) \in pinuse \ pinuse'
       THEN late' \in {NoHead, [head(nextChunk(a)) EXCEPT !.pin = FALSE]}
       ELSE late' = late
    /\ UNCHANGED <<stage, job, seen, raced>>

LateWrite ==
    LET a == late.at
    IN  /\ Running /\ late.size > 0
        /\ csize' = [csize EXCEPT ![a] = late.size]
        /\ cinuse' = cinuse \cup {a} /\ pinuse' = pinuse \ {a}
        /\ raced' = (raced \/ late.size # csize[a] \/ a \in pinuse)
        /\ late' = NoHead
        /\ UNCHANGED <<foot, space, pages, ghosts, stage, job, seen>>

AlignedInit ==
    Init /\ stage = "out" /\ job = NoJob /\ seen = NoHead /\ late = NoHead /\ raced = FALSE

\* Alignments up to kDefaultAlignment go straight to alloc.
AlignedNext ==
    \/ stage = "out" /\ late.size = 0 /\ Allocate /\ UNCHANGED aligning
    \/ \E r \in AlignedRequests, alignment \in Alignments, offset \in Offsets :
          allocAligned(r, alignment, offset)
    \/ Place
    \/ MarkSuccessor
    \/ CutLead
    \/ Trim
    \/ Give
    \/ \E a \in live \ mine : FreeBeside(a)
    \/ LateWrite

AlignedSpec == AlignedInit /\ [][AlignedNext]_allvars

-----------------------------------------------------------------------------
(* Properties.  They are about heaps in which no binned chunk was split and no
   write to a head was lost. *)
Intact == Healthy /\ ~raced

\* Every variable has its type.
AlignedTypeOK ==
    /\ TypeOK
    /\ stage \in {"out", "place", "next", "lead", "trim", "rest", "give"}
    /\ mine \subseteq Unit /\ job.need \in Nat /\ job.next \in Unit
    /\ {seen.at, late.at} \subseteq Unit /\ {seen.size, late.size} \subseteq Nat
    /\ raced \in BOOLEAN

\* When no allocAligned is going on the heap is what alloc and free made it: a tiling with
\* true tags, and the leader and the block are chunks of their own.  Between its writes a
\* free by another thread finds nothing its check functions would report.
HeapAfterAligned == Intact => (stage = "out" => HeapParts) /\ ~alarm

\* Line 1277 and the comment at 1244-1247: the block to be returned is large enough, it is
\* aligned at its offset, and the leader is a whole chunk.  (Line 1278 asserts
\* alignment at offset 0 whatever the offset.)
AlignedResult ==
    Intact /\ stage = "give" =>
        /\ csize[job.ptr] >= job.need
        /\ isAligned(job.ptr, job.align, job.offset)
        /\ job.leader # 0 => csize[job.leader] >= kMinChunkSize

\* getMemorySpaceAddr, which deallocate calls under no lock, finds the space
\* behind every block a client holds, at every moment.
FooterNamesSpace ==
    Intact => \A a \in live \ mine : csize[a] > 0 /\ foot[nextChunk(a)] = Msp

\* checkAllocedChunk, checkInuseChunk and checkFreeChunk never fire on a heap in
\* which no binned chunk was split ("CINUSE bit is set for a free chunk", line
\* 346, and the others).
NoAlarmBesideAligned == Healthy => ~alarm
=============================================================================
