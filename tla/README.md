# OdinMemoryAllocator in TLA+

A verification development for the memory allocator and task scheduler of the
Odin engine. It models the program as it is, checks it on small
instances with TLC, and proves the central facts about the heap, the general allocator,
the queues, the scheduler and the pool with TLAPS for every value of the constants.

The build is the one of the Visual Studio project: Win32, 32-bit `size_t`, x86.
`ASSERT_ERROR` is active in every configuration and lets execution go on.

## 1. The system

| part | state | operations | called by |
|---|---|---|---|
| heap of a `MemorySpace` (`MemAlloc.cpp`) | boundary tags in memory, `small_map`/`small_bins`, `tree_map`/`tree_bins`, `dv`, `top`, `footprint`, `curr_page_index` | `alloc`, `free`, `allocAligned`, `calloc` | `GeneralAllocator` |
| creation and inspection (`MemAlloc.cpp`) | the same | `createMemorySpace`, `createMemorySpaceWithBase`, `destroyMemoryRegion`, `getMemorySpaceAddr`, `validateMemorySpace` | `GeneralAllocator` |
| `SysAlloc` | the pages of the process (the operating system's) | reserve, commit, decommit, release | the heap, `LinearAllocator` |
| `GeneralAllocator` | 21 spaces and 21 mutexes | `init`, `allocate`, `callocate`, `deallocate`, `getInstIndexFromSize` | clients |
| `LinearAllocator` | a bump pointer | `init`, `allocate`, `reset` | clients |
| `PoolAllocator`, `FreeList` | a list threaded through a pool, a count | `init`, `allocate`, `deallocate` | clients, `Scheduler` |
| `WorkStealQueue` | `mTop`, `mBottom`, `mArray` | `push`, `pop` (owner), `steal` (anybody) | `Scheduler` |
| `GlobalWorkQueue` | `mTop`, `mBottom`, `mArray` | `push` (one thread), `pop` (any) | `Scheduler` |
| `Scheduler` | queues, task pools, a condition variable, `mDone`; each task's `mOpenTasks` | `init`, worker threads, `runTask`, `finishTask`, `isTaskFinished` | clients |
| `MemoryArena` and its policies | a mutex, an allocator | `allocate`, `deallocate` | nobody: not compiled |
| `Assert`, `Allocator.h`, `main.cpp` | an ignore flag per assertion | reporting, macros, a demonstration | all |

How they interact: a client calls `GeneralAllocator`, which picks a space by the
request's size under that space's mutex and calls into the heap, which takes
its own `memory_lock`; the heap calls `SysAlloc` for pages. `deallocate` finds the
space again through the footer behind the block. A scheduler's worker takes tasks
from its own `WorkStealQueue`, the `GlobalWorkQueue`, then its colleagues' queues;
tasks are nodes of a `PoolAllocator`. Nothing is persisted and no message is sent:
there is no crash recovery and no unreliable delivery. A fault ends the process.

What is hard:

* **Long sequences of legal calls.** The heap's data structure is its own memory:
  a flag or a footer that one `free` leaves wrong is followed by another call much
  later.
* **Pages.** Which pages are reserved and committed is derived from `top`, a page
  index and a footprint that are updated in five places.
* **Lock-free interleaving.** `WorkStealQueue` relies on the order of its stores and
  on one fence; `GlobalWorkQueue` on nothing.
* **Locks that are dropped and taken again** in `GeneralAllocator`, and heads that
  `allocAligned` rewrites after `alloc` has released the lock.
* **Liveness** of the scheduler: waiting, and work that must eventually be taken.

What makes each part correct: the heap hands out disjoint blocks, keeps every byte
in one hand, coalesces completely, and backs what it hands out; the queues hand out
each task once and lose none; a finished task has no open children; a pool's list
holds exactly its free nodes; a general allocator frees a block to the space it came
from. `PROJECT.json` lists the hazards line by line.

## 2. Modules

| module | what it is |
|---|---|
| `MemAlloc` | the heap of one `MemorySpace`: `alloc` and `free`, one action for each path through them |
| `MemAllocProps` | its invariants and action properties |
| `BlockStore` | what `alloc` and `free` promise a client, without the heap |
| `MCMemAlloc` | the heap for TLC |
| `MemAllocHeap` | theorems: type correctness, the inductive invariant of a healthy heap and what follows from it |
| `MemAllocRegions` | theorems: what stays true of the heap when its tags do not; the block store; the pages |
| `AllocAligned` | `allocAligned` step by step, with other threads' calls of `free` in between |
| `AlignedProofs` | theorems: the heap between two writes of `allocAligned`, and what comes out |
| `Bins` | the small bins, rings and tries link by link, with the code's widths, and their properties |
| `BinsProofs` | theorems: the circles, the regions of the tries, and that every search ends at its ring |
| `MCBins` | the bins for TLC |
| `PoolAllocator` | a pool and its `FreeList`, byte by byte, and their properties |
| `NodePool` | what a pool promises, without links |
| `LinearAllocator` | the bump pointer, byte by byte, its headers and its failures |
| `PoolInLinear` | a pool whose memory comes from a linear allocator that serves other clients |
| `PoolProofs` | theorems: the linear allocator's blocks, the pool's nodes, `NodePool` implemented |
| `MCPoolAllocator` | pools of several shapes, by themselves and there, for TLC |
| `GeneralAllocator` | the spaces in their slots, the mutexes, the two-phase lock, the pages the spaces share |
| `GeneralAllocatorProofs` | theorems: who holds which mutex, that a space outlives its blocks, and what a total counts |
| `MCGeneralAllocator` | two threads, three slots for TLC |
| `Scheduler` | the scheduler's threads and its global queue, access by access, and their properties |
| `SchedulerProofs` | theorems: no task is lost in the global queue; the order of a tree of two generations |
| `MCScheduler` | tasks in two and in three generations for TLC |
| `WorkStealQueue` | the Chase-Lev deque, access by access under TSO, and its properties |
| `WorkStealQueueProofs` | theorems: no task twice, none lost, `TaskDeque` implemented |
| `TaskDeque` | what a work stealing queue promises, without its indexes |

### `MemAlloc` and the code

`alloc` and `free` hold `memory_lock` from their first line to their last, so each call
is one step and the threads that make the calls need no names.

*Addresses* are units of `kDefaultAlignment` bytes counted from `least_addr`. A request
`r` is one of `8*r - 1` bytes, so that `padRequest` gives `r + 1` units (8 bytes
of overhead), and at least `kMinChunkSize`, 2.

*Memory.* A chunk's head word is `csize[a]`, and the sets `pinuse` and `cinuse` of the
addresses whose flag is set; `foot[a]` is `prev_foot`, and `Msp` stands for the
`MemorySpace` pointer. The code leaves stale words inside merged chunks. The
model keeps such words at zero, and a call that would read one halts with
`"undefined"`: nothing is claimed about what such a call does.

*Stray frees.* `free` looks for free neighbours by a footer or a head and does not ask whether what it finds there is
in a bin. After lines 942-945 have split a binned chunk in front of a block, that block still says that its
predecessor is free, and freeing it merges a chunk the client holds. The model goes on as the code does:
the chunk is merged, may be handed out again, and `astray` remembers it from then on. `unlinkChunk` follows the links such a chunk was left with: either nothing new
happens (they lead where it was, which is what the merging actions say), or they lead elsewhere,
the client having written over them (`FreeUndefined`, which is possible besides). After a stray free the model has one owner
for each address, although the code may have two: it says where such a run goes and claims nothing about it.

*Bins.* `bin[a]` is the size under which the chunk at `a` was inserted, or 0. From it
come `small_map`, the chunks of each small bin and `tree_chunks`; any chunk of a
bin may be the first of its list. `AllocTree` takes any chunk of the least tree bin in use, and so allows more than
`treeAllocSmall`, which goes down the left side of the trie (865-873) and takes the smallest chunk it meets. The walk itself is in module `Bins`.

*The word width* is `kNumSmallBins` (32 in the code: the small bins are the bits of one
word), so `small_map >> index` with a large index is masked as x86 does (`shift`).

*Pages.* `reserved` holds the pages reserved one by one behind the initial segment,
`committed` those that may be touched. A step that would touch another page halts
with `"fault"`. `VirtualFree` with `MEM_RELEASE` works on the base of a reservation
only and fails silently elsewhere, as the code ignores its result; a commit fails
on a page that is not reserved.

*Ghosts.* `owned` (what the client holds, and how much it was promised), `lost` (blocks
freed that the space did not take back), `carved` (a binned chunk was split), `astray` (see above),
`alarm` (a check function's `ASSERT_ERROR` fired), `halt`.

| code | actions |
|---|---|
| `alloc` 904-919, fit without remainder | `AllocSmallFit`, `AllocWildBin` (large request, masked shift) |
| 920-950, split of a small chunk | `AllocSplit` |
| 952-956 and `treeAllocSmall` | `AllocTree` |
| 973-996, designated victim | `AllocDvSplit`, `AllocDvExhaust` |
| 997-1023, top | `AllocTop` |
| 1025-1056, growth | `AllocGrow` |
| 1058-1066, a reservation of its own | `AllocDirect` |
| `free` 1077-1091 | `FreeIgnored`, `FreeDirect`; `FreeUndefined`, `FreeFault` for reads of stale words and missing pages |
| 1095-1193, consolidation | `FreePrevDv`, `FreeIntoTop` (with decommit and release), `FreeNextDv`, `FreeNextFree`, `FreeNextInuse` |
| 1195-1199 | `FreeBroken`; `NeverBroken` shows that only a stray free leads to it |

`alloc(r)` and `free(a)` are the disjunctions of these actions, `Allocate` and `Release` the calls
a client can make.

Definitions marked as slips in a comment (`bsizeForward`, `UnlinkForgotten`, ...) are no
part of the model. Each states a plausible bug; put in the place of the definition
below it, it makes one of the properties fail.

### `Bins` and the code

Sizes are bytes and `computeTreeIndex`, `leftshiftForTreeIndex` and the bit tests are
those of the code; a bit of a size is read directly instead of shifted out. A small bin is a
ring through its header; the header of bin `i` and the address `&tree_bins[i]` a root has for its
parent are both written as the number `i`. The field `index` of a chunk is left out: it always is
`computeTreeIndex` of its size. Links of a chunk that is in no bin are set to `null`, where the
code leaves them stale; no operation reads them before it writes them. The actions are
`insertChunk`, `unlinkChunk` (from any place: the heap unlinks neighbours it merges),
`unlinkFirstSmallChunk` and `treeAllocSmall`, each under `memory_lock`, hence one step.

### `AllocAligned` and the code

`GeneralAllocator::allocate` holds the space's `mMutex`, so one thread at a time is in `alloc` or
`allocAligned`; `deallocate` holds no mutex, and `free` only `memory_lock`, which `alloc` has
released when `allocAligned` goes to work on its chunk. `stage` is where that thread is, and
each of its steps ends where another thread's `free` can make a difference: `head |= kPinuseBit` on
the chunk behind is a read (`seen`) and a write (`MarkSuccessor`), and so is a head that is
rewritten with its own `PINUSE` bit (`SetSizeInuse`). `LateWrite` is the write of a concurrent
`free` that read a head of ours before we wrote it. `raced` notes that a write was lost.
The run explores what follows only as long as nothing is lost and no binned chunk was
split (`CONSTRAINT Intact`), which is where its properties speak; `aligned_race` has no constraint.

`trailer` is never assigned in the code, so the spare room behind the block is a chunk in use nobody
will free: it goes to `lost`. A request of 15 bytes gets a chunk of 16, of which 8 are
overhead: `requestToSize` is as in the code. Offsets are multiples of 8 bytes; others would put
chunk heads at odd addresses.

### `PoolAllocator`, `LinearAllocator` and the code

`linked` is the constructor's loop: the link of a node is `element_count` bytes, not
`nodeSize` bytes, further. `link[a]` is what a read of the word at byte `a` gives, `junk` where no
link was written; a node in the client's hands may hold anything, so all words that touch
it become `junk`. A word between two links holds what was in memory before (`blank`: null, or anything), and reading
one that is neither ends the run with `"undefined"`. `mCount` is
not initialised and starts with any value. Of the nodes there is room for, `Threaded` are those the list reaches: all of them
only if there is one link for each, which the theorem `NodesLost` makes exact. The Scheduler's pools (127 and 1023 bytes from
link to link, a node having 56) have two, and only because the second link is a word of blank memory: such pools, and those in which
each link meets a node (`Even`), are the ones that serve at all (`Serves`). A pool whose size is less than one node makes the
unsigned `element_count` wrap around, and the constructor's loop faults.

`LinearAllocator::allocate` aligns the address behind its header (`headerOf`), counts the size but
not the header (`after`), and has moved `mCurrent` before it finds that there is no room
(`allocateLinear`). So the header of the next block overlaps the last four bytes of the one before,
unless the size is 1 to 4 modulo 8 (`Whole`) and the alignment leaves a gap. `isOut` compares with `mSize`,
which `init` does not round up, unlike what it reserves: no block leaves the region.

`PoolInLinear` composes the two. `PoolInit` is `PoolAllocator::init` with either a linear allocator or
one that leaves the pool alone (`start` is the address its allocator returned); `OtherRequest` is
a request of somebody else, whose header is stored over the pool's links if it lies on them. The
linear allocator does not know of the pool and frees nothing until `Reset`. A pool there is `Undisturbed` if
its block is whole and the others ask for offsets that equal its own modulo 8: with another offset the
header behind the pool may lie closer to it than 4 bytes.

### `GeneralAllocator` and the code

`getInstIndexFromSize` takes the mutex of a slot, looks for the space and creates it if there is
none (`LockToFind`, `Look`, `Create`), and releases the mutex; `allocate` takes it again
(`LockToAllocate`) and allocates (`Fits`, `Grow`, ...). `callocate` does the same. `index` is the code's,
line 126 included: there a second variable of the same name is assigned, and all sizes from 64
to 255 go to slot 0, not to the slots lines 25-26 speak of.

Of a space the module has the page it begins with, the pages it claims (`footprint`) and the
number of blocks whose footer names it. Which blocks fit is left open, except that an empty small
space has room. Pages are 64 KB, as all spaces have them. `reservation` is the system's
table, with the space that made each reservation: growth asks for the page behind (`behind`), which may be another space's and is then refused
(`GrowRefused`: the direct path writes to memory it did not commit).

The code breaks the separation of the spaces in two places, and the model goes on after both. Growth by more than a page
reserves one page and claims all of `page_aligned_nb` (`GrowFurther`, lines 1029-1045): the pages further on may belong to somebody, or be given to
somebody later. A `free` with a top of several granules releases pages, counted from the space's first, that it goes on claiming
(`deallocate`, lines 1150-1157): they may be given to another space and released a second time under it. So spaces come to
share pages, and one may lose the very page its struct is in, or two have their structs on the same page.
What a call does with a space that shares pages is up to what the other space and its clients wrote there: `Outcomes` lets it go well or
end as `"undefined"`, and lets it only end so if the page of the struct is gone. A granule is one page in the small spaces and
512 in the large one (32 MB), as `init` sets them.

`init` creates the spaces in order and stops at the first one refused; the model takes an allocator in
static storage, whose other slots are null. No space is ever given back: `deallocate` ignores the
result of `free` that says the space is empty, contrary to the comment at line 133. That a slot keeps
its space is what `BlocksHaveSpace` rests on. The branch of `deallocate` for a null footer is not reached by blocks that
`alloc` hands out. The destructor's `destroyMemoryRegion` releases the first reservation only, and reads it before.
`getTotalAllocated` adds up under one mutex after the other; `from` notes the total at its beginning.

### `Scheduler` and the code

Thread 0 is the client's, the others are in `workerThread`. `pc` says where a thread is, `running` is its
stack of `runTask` calls, `finishing` its stack of `finishTask` calls. A step has at most one access
to what threads share: a load or a store of the global queue (`PopTest`, `PopTake`, `PopClear`, `Push`,
`PushStore`), a decrement (`CountDown`), a call of a local queue (`PopLocal`, `Steal`), which `WorkStealQueue`
shows to be one atomic step of `TaskDeque`. Under TSO a store that is still in its buffer when the
next step of another thread comes is a store that has not been made: the order of steps covers it.

Nothing in the repository creates tasks. A load (`Loads`) says which tasks there are, the parent of
each, and in which queue each is; the tasks the client still has are pushed later. What the
code as written cannot run is read as its authors must have meant it: the predicate of the wait lacks its `return`,
`init` asks for a platform nothing defines, starts threads in `mWorkerThreads[1]` to `[N-1]` of an array of
`N-1`, and never calls `init` on the local pools, so that all nodes are the global pool's. `pop` computes `x` and ends
without `return x`: it returns `x`, or anything (`"undefined"`).

The run of a model ends, in `halt`, with what leaves nothing to claim: a worker that runs the null
pointer `pop` may give it (`"fault"`), a slot popped before it was written (`"unwritten"`), a task two
threads popped (`"twice"`), a pop of a local queue nothing was ever pushed to (`"wild"`: `mBottom - 1` wraps around and
the code reads `a[SIZE_MAX]`, lines 60-67; `pushed` says whose queue that is), a count written into a node of the pool (`"corrupt"`, which `ReturnedWhole` shows
not to happen before any of the others in two generations). All but the last do happen. `pop` is not thread safe, as
`WorkStealQueue.h:104` says it is and line 156 doubts. A thread goes wild if no task was ever put in its own queue by the time it first has to wait for children.
Which queues get tasks is up to the code that creates them, which the repository does not have.

### `WorkStealQueue` and the code

A step is what happens between two memory accesses another thread can tell apart. On
x86, relaxed, acquire and release accesses are plain moves; a store waits in its
processor's buffer (`buffer`, `Flush`), which a `seq_cst` fence and a compare-exchange
find empty. Only the owner stores, so only it has a buffer. `PushRead`/`PushWrite`
are `push` before and after the size test; `PopClaim`, `PopRead`, `PopCas` are `pop` up to
the fence, the read of `mTop` and the slot, the race for the last task; `StealTop`,
`StealBottom`, `StealSlot`, `StealCas` are the four accesses of `steal`. An access outside
the array sets `wild`, after which nothing is claimed: a push to a slot behind the end, or
a pop whose `mBottom - 1` wraps around. Tasks are numbered in the order they are pushed.

`TaskDeque` is refined under the mapping `items` = the slots from `mTop` to `back`, where
`back` still counts the task a `pop` has claimed but not taken.

## 3. Runs

| run | expects | what it shows |
|---|---|---|
| `core` | pass | the healthy heap: tiling, true tags, complete coalescing, `top` back at the first chunk exactly when nothing is out, no assertion fires, what is held is committed, the committed pages are a prefix, blocks keep their chunk |
| `carved` | pass | what a wrong head leaves true, with blocks above the threshold and released pages on top of it: until a free is led to a chunk in no bin, blocks are disjoint (`BlockStore`), keep apart from bins, dv and top, and `free` does not reach its error return; only a split can lead a free there; the struct's page stays throughout |
| `merged` | violation | a split leaves the next block saying that its predecessor is free: freeing that one merges the block in front, which is still held, and reports the space empty |
| `release` | violation | a free releases pages below `top` |
| `bins` | pass | each bin has exactly its chunks, and a chunk is found by its size; the maps mark the bins in use; rings and tries have sound links; `treeAllocSmall` takes a smallest chunk |
| `aligned` | pass | as long as no write is lost: the heap is tiled with true tags after `allocAligned`, no check fires meanwhile, the block is aligned and large enough, every footer names the space at every moment |
| `aligned_race` | violation | a `free` concurrent with `allocAligned` loses a write to a head, and a later `free` reports it |
| `pool` | pass | nodes are apart; of those the constructor threads none is lost, and none refused while one is not held, by itself and in a linear allocator; blocks of the linear allocator are apart |
| `general` | pass | until two spaces claim the same page, each has the page of its struct and each page reserved is claimed by the space that reserved it, whatever was claimed without being reserved and released while claimed; a space that was found is there when it is used, and when its blocks come back; the total is between totals there were; the destructor leaves no first page |
| `deque` | pass | each task is taken at most once, the deque is implemented (only tasks come out, in order, and none is lost), and each accepted task is eventually taken |
| `scheduler` | pass | a kernel runs once, after those of its children; a node goes back once, when all is done; no task is lost; once the client has pushed all, each is run |
| `scheduler_deep` | violation | with three generations a kernel runs before that of its child |

**Healthy.** The properties that speak of tags hold while `carved` is false: the misplaced
head of lines 944 and 884 (run `merged`) is a defect that falsifies them at once, and
what comes before it deserves to be checked. `FreeSpaceApart`, `KeepsTheStore`, `NeverBroken`,
`LiveIsBacked` and `CommittedPrefix` hold after a split too, until a free goes `astray`; what the heap hands out after that does overlap
(in the run `carved`, nine calls are enough to have two blocks share a unit), and the error return of `free` can be reached.
`StructIsBacked` has no condition. `core` does not go on behind a stray free (`CONSTRAINT Accounted`): none of its properties
speaks of such states but `TypeOK`, which is a theorem, and `astray` is never taken back.

**Findings.** Each of the four violations contradicts a line of the source, quoted in
`PROJECT.json`: the assertion at `MemAlloc.cpp:347`, the comment at 1146, what `MemAlloc.h:55` says of the result of `free`, and
`Scheduler.h:43` with `Scheduler.cpp:149`. The models contain other divergences, which the passing runs keep out of
by a condition of their properties or by ending there: a `top` that lands exactly on a page boundary is not committed (`MemAlloc.cpp:1006`
against 1003; `SplitTop` faults); from 256 KB on a left child may be larger than the right one
(`MemAlloc.cpp:179` against the assertion at 438; `BestFit` stops at `lastOrdered`); a push to a queue with room
writes behind the array (`WorkStealQueue.h:48` against line 12; `wild`); two threads pop the same task
(`WorkStealQueue.h:157` against line 104; `"twice"`); a thread without tasks of its own reads far behind its local queue
(`WorkStealQueue.h:60`; `"wild"`); spaces come to share pages (`MemAlloc.cpp:1032` and 1154; `ClaimsApart` is the
condition of `ReservedByClaimant`); a block obtained by a split has a free head (`MemAlloc.cpp:944`, against the assertion at 335), so that freeing it does nothing
(`FreeIgnored`); and the Scheduler's pools have two nodes instead of 1024
(`FreeList.cpp:25`; `NodesLost`).

**Serves.** The properties of the pool are stated for shapes that serve: those in which the size of a node
divides the distance of the links, among them lists that pass over most nodes, and those that have two nodes, the second behind the
first and between two links, in blank memory. The Scheduler's pools are of the second kind, and its global one (56 bytes, 128 nodes) is in the run. In any other shape
the list leaves the pool or ends in a word the client has written to; the run contains two and they end with
`"undefined"`. What the properties count is what the constructor threads (`Threaded`), computed from the shape and not from the list; `NodesLost` says when that is less than
what there is room for. In a linear allocator the block of the pool has to be `Whole`
besides: of the three shapes there one is not.

**Bounds.** Sizes are scaled down together. `core`: pages of 8 units, a struct of 2, 6-bit
words, 2 pages, requests of 2, 3 and 5 units, 4 blocks: small bins 2 to 5, tree chunks from 6,
chunks that cross a page boundary, growth, and every combination of free, held and top
neighbours; exhaustive within the two pages. `carved` uses three pages of 4 units, granules of one page, a struct of 1 and a threshold of 3,
so that within twelve units a chunk can be split, its remainder become dv, a free be led to either, a request
of 7 units overflow the word, and blocks lie above the threshold and start on pages
of their own; everything after a stray free is explored too. `merged` needs one page of 10. `bins`: six chunks, ten sizes from one small and three tree bins on both
sides of 256 KB, two requests: nodes with two children that have descendants, rings
of up to six, every order of taking them out; chunks are interchangeable (symmetry). `aligned`: two pages
of 10, alignments of 16 and 24 bytes (rounded to 32), offsets of 0 and 8, three blocks: leaders that need
the second aligned spot, a block on either side of the chunk, growth; with
`aligned_race`, one page of 18 and four blocks are enough. `pool`: lists of five nodes in all orders,
with a stride of one, two and three nodes, shapes of one node, of two (the Scheduler's) and of none; in the linear allocator nine nodes, of which
the client holds up to three, and up to five blocks of three kinds of request (with an offset, with an alignment of 16, of 3 bytes),
until one fails. `general`: sizes 8, 100 and 300, for two small slots and the large one, four pages for three
spaces, two blocks: every order of creation, growth up to a neighbour and over it, release and creation on what was released, refusal. These are
enough for a space to lose its struct to another, and for two to be created on one page; threads are interchangeable (symmetry).
`scheduler`: a client and two workers; five tasks, a parent with two or three children, or two parents with one or two
each, spread over queues of every kind so that a parent is found before, between and after its
children, on the same thread or another. In four of the six loads each thread has had a task of its own, so that no thread goes wild and
`EventuallyRun` is about all the work; in the fifth the workers have not, and find none but children, which do not wait; in the sixth a worker may find the
parent and go wild. Three threads are needed for a sibling to end while the
parent is counted down and a third thread waits. `scheduler_deep` needs two threads and one task of each generation.
`MaxBlocks` bounds only how many blocks the client holds at one time. `deque`: 3 slots, 2
thieves, 4 pushes: a full queue, a refused push, the last-task race with both
thieves, an array that is used up. More thieves only repeat the roles of the two:
one that wins the compare-exchange, one that comes late.

**Deadlock** is not an error in any run: a fault ends the process, and a client or an owner that
has used its bound makes no further call.

**Fairness.** The heap has none: every step is a call of a client. `deque`: the owner
finishes the operation it is in, buffers drain, and each thief goes on
stealing (weak fairness). Threads run, and a worker without work tries again
(`Scheduler::runOtherTasks` in the loop of `runTask`). The owner need not start any
operation. Under this, `EventuallyTaken` holds, since a failing steal means
another thread took a task. `scheduler`: each thread that can take a step does (weak fairness of `Step`, one
thread at a time); a sleeping worker need not wake up, since nobody notifies it, and the client need not
push. `EventuallyRun` is therefore about the time after its last push: with a child still to come its
parent waits, and a task that was found meanwhile may lie under that parent on some thread's stack. It is satisfied by a run that
ends, in any of the ways listed in section 2: a thread that has gone wild runs nothing more.

## 4. Theorems

Each theorem is about the specification of its module for every value of the constants that satisfies the
module's assumptions, which TLC evaluates for the values of the runs. No recursive operator is used in
the modules proved about.

### The heap

For every word width above 2, page size, segment, threshold,
set of requests and number of blocks; the only assumption is `SizesAssumption`: sizes are
natural numbers, the struct is smaller than the initial segment, which holds a page and
fits into the address space.

* `MemAllocHeap!TypeCorrect`: `TypeOK` is inductive by itself. Its lemmas go by groups of
  actions.
* `MemAllocHeap!HeapInvariant`: `HeapSound`, which is `Healthy => HeapParts`.

`HeapTiled`, `BoundaryTags` and `Coalesced` are not inductive one by one.
That merging two chunks leaves a tiling needs the tags to be true; that the tags are
true needs the neighbour of a free chunk to be held, or merging would pass
over a flag; that a chunk is in one hand needs that the boundaries are exactly the
chunks known. `HeapParts` is the conjunction, strengthened by `Granted`: a healthy heap has no
designated victim (`dv_size = 0`; dv is filled only where a binned chunk is split),
the struct keeps its chunk, and a block is at least as long as promised. The
former makes every dv action impossible in a healthy heap, so that the proof treats
fitting, splitting top, dropping, and freeing with three kinds of successor.

One lemma serves each step (`SmallFitKeeps`, `TopKeeps`, `DropKeeps`, `NextInuseKeeps`,
`NextFreeKeeps`, `IntoTopKeeps`), over lemmas about pure facts: `MergeTiles` (a tiling with a run of
chunks replaced by one is a tiling), `ConsolidateKeeps`, `FreedBlock` (what `free` reads of its
neighbours is what they are). `HeapStep` puts them together; the temporal theorem
is by PTL. `ChunksTile`, `TagsAreTrue`, `FreeChunksApart` and
`PristineWhenEmpty` are the corollaries. `ChecksPass` derives `NoAlarm` from the invariant and from what a step
writes: each check function reads tags of a chunk of which the invariant, or the step, says what they are.
`BlocksKeepTheirChunk` is the action property `ChunkIsStable`, from the invariant in the state before a step.

`MemAllocRegions` says what is left when the tags are wrong, in every running state before a free goes `astray`, with no condition on
`carved`. Its invariant `Regions` does not speak of tags but of the regions found from the other side: the blocks the
client holds, the chunks in the bins, dv and top. They are apart (`Apart`) and below top (`TopEnds`). The
hard part is what `free` may merge with after lines 942-945 or 883-885 have marked the wrong chunk. A block whose `PINUSE` bit
is clear leads `free` backwards by `prev_foot`; `Backlinks` says that what lies there is a free region that ends where the block
begins, or nothing that can come back (`Idle`), or, after a split in front of it, a block that is still held: that free is
the stray one, and with it the invariant ends. A block whose head carries no size (`Headless`) is ignored by `free`, and so is
lost. `RegionsStayApart` (what is held, binned, dv and top are apart until a free goes astray, and in a space in which nothing was split none
does), `ImplementsStore` (until then a block overlaps no other and stays where it is) and `ErrorReturnUnreachable` follow from it.
None of them is true afterwards: the code hands out a block twice, and the model does too. `StructStaysBacked` holds throughout, by an invariant of its own
(`StructSound`): no decommit or release reaches page 0, whatever the tags say.

`PagesAreAPrefix` and `LiveStaysBacked` are about the pages, again after splits too and until a free goes astray. They have a hypothesis on the
constants, `WithinGranule`: the initial segment is a number of whole pages, the arena is no larger than it and one granule, and no request reaches
`segment_threshold`. `GeneralAllocator.cpp:31-40` gives the spaces whole pages (the initial size is the page size, 64 KB); the twenty small
classes are asked for 256 bytes at most, far below their threshold of 8 KB, the last one for less than its threshold except by requests of 8 MB. The condition on
the arena is one on growth: the theorems speak of a space until it has grown by more than its granule, one page in the small classes, 32 MB in the last. It is
needed: once the free part of the segment exceeds a granule, `FreeIntoTop` releases pages counted from `least_addr`, and run `release`, which is outside
the hypothesis, shows pages below `top` released. A growth by more than one page ends in a fault, so that whatever goes on has grown by one page at a time.
`Backing` is the invariant: the pages reserved and committed are those below an index (`Pages`), the segment ends with the last of them
(`Pooling`), and the index is that of the page `top` lies on or the next; with `RegionsApart` every block
ends below `top`, hence on a committed page. What the code computes by division and modulus (`page_align`, the number of pages above top)
is in the lemmas `PageBelow`, `PageSteps`, `WholePages` and `TopPages`.

### `allocAligned`

For the constants of the heap, any requests and offsets, and alignments from 9 bytes to 2^31 (`AlignedAssumption`): beyond
that the loop of lines 1221-1222 shifts its power of two out of the word and does not end. The theorems of `AlignedProofs` are about
`Intact` states, as the properties are: no binned chunk was split and no write was lost. Which interleavings lose a write is
what `raced` records in the steps; nothing is assumed of the order of the steps.

Between the write of the aligned head (line 1262) and the cut of the leader (line 1263) the heap is no tiling: a head with a size lies in the
middle of a chunk. It is one if that head is left out. `hidden` is that head, `whole` are the sizes
without it, and `H`, an instance of `MemAllocHeap` with `whole` for `csize`, has every definition and lemma of the heap for
them. `AlignedInv` says that `H!HeapParts` holds at every moment, that no check function has fired, that a write under way
goes to a chunk in use, and what the call relies on at each stage: `Served` (the chunk has room for the block, the spot and a leader), `Placed` (the head
lies that far inside, and what was read of the chunk is still true), `Divided` (block and leader are chunks of the client's).

The steps of other threads are calls of `free`: `FreeApart` shows that each is a call of `H!free`, since what it reads and writes is never the
hidden head, so that the heap's own step lemmas apply (`FreeKeeps`) and `H!StableStep` keeps the chunks of the call as they were. The
steps of `allocAligned` itself are no steps of the heap. `OutsideKeeps`, `RegrantKeeps` and `CutKeeps` of `MemAllocHeap` say what
they do to one: writing flags where no chunk begins, changing what a block was promised, cutting a held chunk in two. `AlignedSpot`
is the arithmetic of lines 1248-1255 for every position, alignment and offset; `PowerFacts` is that of the loop. `IntactBefore`
shows that only intact states lead to intact ones, which makes the condition inductive.

`SoundAfterAligned`, `ResultIsAligned` and `FootersNameSpace` state the properties of run `aligned` as they are; `AlignedTypesHold` states
`AlignedTypeOK` for intact states, the ones the run keeps to.

### The work stealing queue

For every size of the array, set of thieves and number of pushes (`QueueAssumption`). The invariant `Inv` of
`WorkStealQueueProofs` has the store buffer in it. `Paired` and `Heads` say that the stores that wait are a run of pairs, a
slot and then `mBottom` one beyond it, from the slot in memory on, and that only the claim of a `pop` goes back. `Claims` is what the
owner knows of its slot; `ThiefSees` what a thief knows: if its compare-exchange can still succeed, `mTop`
has not moved since it was read, and the task it has read is still at the front. `OnePlace` puts every accepted task
in exactly one slot, in one store under way, or in the hands of whoever took it. `OnceOnly` is its last part.

`ImplementsDeque` is a step-by-step simulation: under the mapping `items` a `Flush` of `mBottom` is the abstract push, an owner's successful read
or exchange and a thief's successful exchange are the abstract takes, all other steps stutter. `RowGrows` and `RowShrinks` say what happens
to `items` at either end. `NoTaskLost` adds that a task `push` accepted, and nobody has taken, is in a slot or in the buffer; together with
`OnceOnly` each accepted task has exactly one fate.

### `GeneralAllocator`

For every set of threads, sizes and pages, on the assumption that there is a size and that no thread is called `"nobody"`.
`Threading` says which mutex a thread holds at each place it can be in, so that two threads never are between lock and
unlock of the same slot, although the slot's mutex is dropped between finding a space and using it. `Missing` says that a slot whose space is still to
be created is empty, and its creator alone. With `Sized` (a space has at least its own page), `BlocksHaveSpace` and
`ReservedByClaimant` are inductive.

`PagesHaveClaimants` is the latter. Its condition, that no page is claimed twice (`ClaimsApart`), can be lost and is never regained (`ApartBefore`: claims only
grow and slots keep their spaces). As long as it holds, each way a reservation is made or ends has to be matched with the claims: a space created on a page that somebody
claims ends the condition (`ClaimsItsFirst`); growth reserves a page it claims, whether it claims more or not
(`GrowthStep`, `FurtherStep`); and the pages a free releases are the space's own or nobody's, since they lie within its
claims and a space that reserved one of them would claim it as well, but never its first, so that every struct keeps its page. `DestructorReleases` says of `OnlyGrowthIsLeft` what follows
when the first pages are released.

`TotalsInBetween` is about `getTotalAllocated`, which adds up one space after another while others grow. `Counting` compares what a thread
has added so far with the same slots' share of the total when it began and of the present one; it survives growth of a slot counted already
and of one still to come. Its condition, that every space has the page of its struct to itself (`StructsIntact`), is never mended once it is
lost (`IntactBefore`), and creation of a space on the page of another is the one step that would make a total smaller. `SumFacts` has what it needs of a sum over a finite set: the library
defines it by a recursive function on sets, and the lemmas are proved from that equation.

### The bins

For any sets of chunks, sizes and needs; `BinsAssumption` says that sizes are numbers of 16 at least, the smallest chunk, and that chunks and
`null` are no numbers, because headers and roots are. `Inv` of `BinsProofs` has two parts. `Ringed`: the chunks of a small bin with its
header, and the chunks of one large size, form one circle (`Circle`: `fd` and `bk` are inverse, and a set closed under `fd` is everything).
`Trie`: of each ring of a large size one chunk is a node of the trie. The difficulty is that the path from the root to a node does not
tell the node's size: `unlinkLargeChunk` puts the leaf that `descent` finds, of another size, in the place of the chunk it takes out.
So each node has a depth and a *region*, the sizes of its bin whose next bits lead to its place. The invariant says that the size of
a node is in its region, that a root's region is its bin, and that a child's is the half of its parent's that the next bit selects. A leaf below a
node has a region inside the node's, so it may take its place (`ReplaceKeeps`); cutting a leaf off leaves the other regions as they are
(`DropKeeps`); the null link at which a search ends is the place for its size (`FreePlace`, `AddBelowKeeps`). `SearchComes` shows that
the search for a size comes to every node whose region has it, unless it has met a node of that size before; `SearchFinds`
and `SearchEnds` follow, as one size has one node. That searches and descents end within as many steps as
there are chunks is `DepthBound`: nodes on a path have different depths. From the invariant come `InsertedIsFound`, `BitsAreTrue`,
`TriesAreSound` and `TypeCorrect`.

### The scheduler

For every number of threads and tasks and every load, on the assumption `LoadAssumption` (a parent has a lower number than its
children, and there are fewer tasks than a count can hold). `pop` reads `mTop` once and stores it twice without a lock; the invariant `Passed` says
why no task is skipped by that: however old the value a thread stores, the slots below it have all been popped by somebody. With
`Slots` (what each thread remembers of the queue), `Stacks` (the shape of the two stacks of a thread) and `Kept` it is
inductive, and gives `NoTaskDisappears` and `SchedulerTypes`. They and the two theorems below are about runs up to a halt.

`NodesReturnWhole` and `ChildrenRunFirst` have a hypothesis on the load, `TwoGenerations`: no task has both a parent and a child.
With three generations they are false, as run `scheduler_deep` shows. Under it, `Order` says that a task is on at most
one stack (`Once`), who is on whose stack (`Frames`), what has ended (`Ran`), that a count is the number of
children still to come and of the task itself (`Counts`), and that whoever has counted a task down to
zero is alone with it (`LastCall`).

### The pool and the linear allocator

For every shape of a pool and all requests. `GeometryAssumption`: sizes are natural numbers, a node has room
for a link, an alignment is a power of two from 4 to 64. `LinearAssumption`: requests are natural numbers and alignments powers of two, of which
the proof uses that they are less than 8 or multiples of 8.

`NodesLost` is about the constructor: wherever it has a list to build, that list has all the nodes there is room for if and only if
`element_count` (the number of the nodes less one, which the constructor also takes for the bytes from a node to the next) is 0 or happens to be `nodeSize`. The Scheduler's pools are
not of that kind.

`BlocksStayApart` rests on `InOrder`: each block ends in front of the next, headers not counted, and in front of `mCurrent`;
that the header fits in between is arithmetic modulo 8 (`BehindWhole`). For the pool the invariant is `Listed`: there is a
sequence of nodes, without repetition, from `mNext` to null, along the links, that meets no node in the client's hands, and no byte but the head of
a node is a link (`Words`). The nodes of the sequence and those in the client's hands together are `Threaded`, the ones the shape of the pool gives: so none
is lost, and a refusal means that all of them are held. `FirstList` shows it for what the constructor writes: with `element_count = q * nodeSize` the list goes to every
`q`-th node and ends exactly at the last; in the other pools that serve it has two nodes and ends at the second. The walk of `FreeNodes` along the links is a recursive function; that it
gives the nodes of the sequence (`ChainFree`) is proved from the equation that defines it: the sequence satisfies it,
and the least number at which two solutions differ is none. `ObtainChain` and `ReturnChain` are the two operations,
`Writing` the client's writes to what it holds. `OthersStayOut` shows that the linear allocator, which knows nothing of the
pool, stores no header over it if the pool is undisturbed. `NodesStayApart` and `ImplementsPool` follow.

### Only model-checked

* Liveness (`EventuallyTaken`, `EventuallyRun`): fairness and `ENABLED` are out of the provers' reach.
* `LiveIsBacked` and `CommittedPrefix` outside `WithinGranule`, where the code does not guarantee them; run `core` checks them for its sizes.
* What the heap does after a stray free, and a `GeneralAllocator` whose spaces share pages: the model goes on, `StructIsBacked` and `BlocksHaveSpace` hold, nothing else is claimed.
* `BestFit` of `Bins`: that a left child has the smaller sizes is arithmetic on the bits of numbers, with exponents that are variables, which
  the provers do not do; and it holds only up to tree bin 19, and where every chunk is large enough.
* What `allocAligned` leaves once a write was lost: run `aligned_race` shows a state that a check function reports. No theorem speaks of such states.

## 5. Not modelled

* `treeAllocLarge` and the NULL return: `kMaxRequest` is `0xFFFFFFC0`, so the first branch
  of `alloc` serves every request but 63 sizes, and those return NULL.
* Sizes near `2^32` and the arithmetic that wraps there.
* Stale bytes inside chunks, user data, padding, `magic`, `max_footprint`, logging.
* Two processes' worth of address space: what the system refuses is a free choice.
* `MemoryArena.h`, `BoundsCheckingPolicy.h`, `MemoryTrackingPolicy.h`: no file includes them and they name
  undeclared identifiers. `Assert`, `Allocator.h`, `main.cpp`: no state of interest.
* `Scheduler`: the allocations of `init`, the destructor, and task IDs: `calcTaskID` has no caller, so
  `isTaskFinished` and `getTask` have nothing to be called with. (An ID counts nodes from `getStartAddress`, where the
  list's own word is, not the first node: `getTask` would not find the task back.) What a pool does with a
  node that comes back is `PoolAllocator`'s; several threads return nodes to the one pool without a lock, which no property covers.
* `calloc` (it is `alloc` with an overflow check), `createMemorySpaceWithBase`, the second constructor of `LinearAllocator`
  and its destructor, and what `createMemorySpace` does when a page is refused (`commitPage(NULL)` may reserve another).

## 6. Plan

Every component with a program to model has a module, and every such module has theorems. What the theorems leave open is
in "Only model-checked". The next thing worth stating is an abstract store for aligned blocks: `BlockStore` promises blocks where `alloc` put them, and
`allocAligned` moves the block it returns inside the one it was given.
