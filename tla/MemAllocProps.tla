---------------------------- MODULE MemAllocProps ----------------------------
(***************************************************************************)
(* What the heap of MemAlloc must satisfy.  The conjuncts that speak of    *)
(* the boundary tags hold as long as no binned chunk has been split        *)
(* (lines 944 and 884 write the head of the wrong chunk) and nothing has   *)
(* halted the process: Healthy.                                            *)
(***************************************************************************)
EXTENDS MemAlloc

Healthy == Running /\ ~carved

\* Every variable has its type, in every state.
TypeOK ==
    /\ csize \in [Unit -> Nat] /\ foot \in [Unit -> Nat] /\ bin \in [Unit -> Nat]
    /\ owned \in [Unit -> Nat]
    /\ pinuse \subseteq Nat /\ cinuse \subseteq Nat
    /\ dv \in Nat /\ dv_size \in Nat /\ top \in Nat /\ top_size \in Nat
    /\ footprint \in Nat /\ curr_page_index \in Nat
    /\ reserved \subseteq Nat /\ committed \subseteq Nat
    /\ lost \subseteq Unit
    /\ carved \in BOOLEAN /\ astray \in BOOLEAN /\ alarm \in BOOLEAN
    /\ halt \in {"no", "fault", "undefined"}

\* Walking from chunk to chunk (traverseAndCheck) meets every boundary, meets
\* nothing else, and ends at top, which ends the segment.
Tiled ==
    /\ top + top_size = footprint /\ footprint =< Arena /\ top_size > 0
    /\ \A a \in Start : a =< top
    /\ \A a \in Start \ {top} :
         /\ nextChunk(a) \in Start
         /\ \A u \in a + 1 .. nextChunk(a) - 1 : u \notin Start

\* Every chunk is in exactly one hand: the struct, the client, a bin, top, or
\* the blocks above segment_threshold that free dropped.
OneHand ==
    /\ Start = {0, top} \cup live \cup lost \cup binned
    /\ live \cap lost = {} /\ live \cap binned = {} /\ lost \cap binned = {}
    /\ {0, top} \cap (live \cup lost \cup binned) = {}

\* Splits, merges, growth and decommits leave a walk from the struct to top on which every
\* chunk is in one hand.
HeapTiled == Healthy => Tiled /\ OneHand

\* The flag bits and footers say what the neighbours are: CINUSE iff somebody
\* holds the chunk, the successor's PINUSE likewise, the footer the size of a
\* free chunk and the MemorySpace of a held one (getMemorySpaceAddr).
Tags ==
    /\ cinuse \cap Start = {0} \cup live \cup lost
    /\ \A a \in live \cup lost : nextChunk(a) \in pinuse /\ foot[nextChunk(a)] = Msp
    /\ \A a \in binned : nextChunk(a) \notin pinuse /\ foot[nextChunk(a)] = csize[a]
    /\ \A a \in binned : bin[a] = csize[a]

BoundaryTags == Healthy => Tags

\* Freeing always consolidates: the neighbour of a binned chunk is held, never
\* another free chunk and never top.
Bounded   == \A a \in binned : nextChunk(a) \in live \cup lost
Coalesced == Healthy => Bounded

\* What the proofs need besides: a healthy heap has no designated victim, the
\* struct keeps its chunk, and a block has at least the units it was granted.
Granted ==
    /\ dv_size = 0 /\ csize[0] = MspSize /\ MspSize =< top
    /\ \A a \in live : owned[a] =< csize[a]

\* The inductive invariant of MemAllocHeap.
HeapParts == Tiled /\ OneHand /\ Tags /\ Bounded /\ Granted
HeapSound == Healthy => HeapParts

\* What the client holds and what the space may hand out again, wherever the heads say.  A
\* held block whose head says free ends where the client's units do.
Places  == live \cup binned \cup {a \in Unit : isDv(a)}
Span(z) == IF z \in live THEN (IF z \in cinuse THEN csize[z] ELSE owned[z])
           ELSE IF z \in binned THEN bin[z] ELSE dv_size

Apart ==
    /\ \A a \in Places : MspSize =< a /\ Span(a) > 0 /\ a + Span(a) =< top
    /\ \A a, b \in Places : a < b => a + Span(a) =< b

\* A wrong head alone hands nothing out twice: blocks, bins, the designated victim and top
\* keep apart after binned chunks were split, until a free is led to a chunk in no bin, and
\* only a split can lead it there.
FreeSpaceApart == Running => (astray => carved) /\ (~astray => Apart)

\* free's return value: top is back at the first chunk exactly when every block
\* has come back, and then the bins are empty and all the space is in top.
EmptyIsPristine ==
    Healthy => (live \cup lost = {} <=> top = MspSize)

\* The error return at 1195-1199 is unreachable, carved chunks or not.
NeverBroken ==
    Running /\ ~astray => \A a \in live : Pooled(a) /\ Reads(a) => nextChunk(a) \in pinuse

\* No check function fires on a healthy heap.
NoAlarm == Healthy => ~alarm

\* The blocks the client holds never overlap before a free is led to a chunk in no bin.
Store == INSTANCE BlockStore WITH First <- MspSize, Limit <- Arena
KeepsTheStore == Store!Init /\ [][astray' \/ Store!Next]_owned

\* A block keeps the chunk it was given until it is freed.
ChunkIsStable ==
    [][\A a \in live : (owned'[a] = owned[a] /\ ~carved' /\ halt' = "no") => csize'[a] = csize[a]]_vars

\* The spaces for which the two properties below are theorems (PagesAreAPrefix, LiveStaysBacked): the
\* segment is made of whole pages, it has grown by at most a granule, so that free has nothing
\* to release, and no request is reserved on its own.
WithinGranule ==
    /\ InitialSize % PageSize = 0
    /\ Arena =< InitialSize + segment_granularity
    /\ \A r \in Requests : padRequest(r) < segment_threshold

\* What the client holds is backed by committed pages.
LiveIsBacked ==
    Running /\ ~astray => \A a \in live : \A u \in a .. a + owned[a] - 1 : u \div PageSize \in committed

\* curr_page_index counts the committed pages, and they are the first ones.
CommittedPrefix == Running /\ ~astray => committed = 0 .. curr_page_index - 1

\* The page of the MemorySpace struct is never decommitted or released.
StructIsBacked == 0 \in committed

-----------------------------------------------------------------------------
(* What the source says and the code does not do; each is the property of a
   run that finds it violated. *)

\* free "returns true if it ends up deleting the memory segment when no allocaations exist in
\* it" (MemAlloc.h:55): it returns true when top comes back to the first chunk (line 1159), and
\* then the client holds nothing.
TrueWhenEmpty == Running /\ top = MspSize => live = {}

\* "Now check if the size of top is a multiple of segment_granularity. If yes,
\* free that portion" (lines 1146-1147): what a free releases is part of top.
ReleasesOnlyTop ==
    [][\A k \in reserved \ reserved' : top' # top => k * PageSize >= top']_vars
=============================================================================
