-------------------------------- MODULE Arena --------------------------------
(***************************************************************************)
(* The arena allocator, ArenaImpl (arena_impl.h, arena.cc).                  *)
(*                                                                          *)
(* An arena is a linked list of blocks, each owned by one thread (by the     *)
(* address of its thread-local cache).  Only the owner bumps a block's       *)
(* position and edits its cleanup list, without a lock; the head of the      *)
(* list, the hint and the space counter are shared.  A block is found        *)
(* through the thread's cache (valid while it holds the arena's lifecycle    *)
(* id), through the arena's hint, or by walking the list.                    *)
(*                                                                          *)
(* One action per access to shared state; the steps on a thread's own block  *)
(* between two such accesses are one action.  Addresses are reused: a block  *)
(* freed by a Reset may be the next block of another arena.  The caller's    *)
(* contract (arena.h:173, :507) is a guard: Reset and the destructor run     *)
(* while no other thread is inside a call on that arena.                     *)
(***************************************************************************)
EXTENDS Integers, SequencesExt, FiniteSetsExt

CONSTANTS
  Threads,            (* Addresses of thread-local ThreadCaches.            *)
  Arenas,             (* ArenaImpl objects.                                 *)
  HeapBlocks,         (* Addresses block_alloc can return.                  *)
  NULL,
  InitialBlock,       (* InitialBlock[a]: options_.initial_block, or NULL.  *)
  InitialBlockSize,
  HeaderSize,         (* kHeaderSize.                                       *)
  StartBlockSize, MaxBlockSize,
  MinCleanupElements, MaxCleanupElements,
  ChunkHeaderSize, CleanupNodeSize,
  Sizes,              (* The sizes users allocate.                          *)
  Observers,          (* The threads that call SpaceUsed.                   *)
  MaxLifecycle,       (* Bound: lifecycle ids handed out.                   *)
  MaxRegistered       (* Bound: cleanups per thread between two resets.     *)

Memory == HeapBlocks \union ({InitialBlock[a] : a \in Arenas} \ {NULL})

ASSUME ArenaAssumption ==
  /\ NULL \notin HeapBlocks \union Threads \union Arenas
  /\ InitialBlock \in [Arenas -> Memory \union {NULL}]
  /\ \A a \in Arenas : InitialBlock[a] \notin HeapBlocks
  /\ \A a, c \in Arenas : InitialBlock[a] = InitialBlock[c] /\ InitialBlock[a] # NULL => a = c
  /\ HeaderSize \in Nat \ {0} /\ InitialBlockSize \in Nat /\ InitialBlockSize >= HeaderSize
  /\ StartBlockSize \in Nat /\ MaxBlockSize \in Nat
  /\ MinCleanupElements \in Nat \ {0} /\ MaxCleanupElements \in Nat \ {0}
  /\ ChunkHeaderSize \in Nat /\ CleanupNodeSize \in Nat
  /\ IsFiniteSet(Memory)
  /\ Sizes \subseteq Nat /\ MaxLifecycle \in Nat /\ MaxRegistered \in Nat

VARIABLES
  lifecycle_id_generator,
  arena,         (* arena[a]: the fields of ArenaImpl, whether it is alive,  *)
                 (* and two histories since the last reset: how many         *)
                 (* cleanups each thread registered, and which ran.          *)
  heap,          (* heap[b]: the Block at address b.                         *)
  thread_cache,  (* thread_cache[t]: the last lifecycle id seen and block.   *)
  call           (* call[t]: t's call in progress and its local variables.   *)

vars == <<lifecycle_id_generator, arena, heap, thread_cache, call>>

-----------------------------------------------------------------------------
(* Blocks, cleanup lists, calls. *)

(* The cleanup lists that a block heads: the capacity and the free nodes of  *)
(* the first chunk (0 when there is none), and the nodes of all chunks, the  *)
(* next to run first; <<t, i>> is the i-th that t registered.                *)
NoCleanup == [size |-> 0, room |-> 0, nodes |-> << >>]

(* A block: the arena it was allocated for (NULL: the address is free), the  *)
(* fields of struct Block, and the length of the list that starts with it.   *)
FreeBlock == [arena |-> NULL, owner |-> NULL, next |-> NULL,
              cleanup |-> NoCleanup, pos |-> 0, size |-> 0, depth |-> 0]

EmptyBlock(a, t, size, depth) ==
  [arena |-> a, owner |-> t, next |-> NULL, cleanup |-> NoCleanup,
   pos |-> HeaderSize, size |-> size, depth |-> depth]

Avail(b) == heap[b].size - heap[b].pos
Depth(b) == IF b = NULL THEN 0 ELSE heap[b].depth

NoCache == [id |-> -1, block |-> NULL]

(* pc: the next step; the arguments; block: the block found, created or      *)
(* walked to; full: my_full_block; chunk: elements of the cleanup chunk      *)
(* being allocated, 0 for the user's memory; total, before: SpaceUsed's sum, *)
(* and the history of the bytes in use in each block when it was called.     *)
NoCall == [pc |-> "idle", arena |-> NULL, op |-> "none", n |-> 0, cleanup |-> FALSE,
           block |-> NULL, full |-> NULL, chunk |-> 0, total |-> 0, before |-> [b \in Memory |-> 0]]

Idle(t) == call[t].pc = "idle"
At(t, label) == call[t].pc = label
Goto(t, label) == call' = [call EXCEPT ![t].pc = label]
GotoWith(t, label, b) == call' = [call EXCEPT ![t].pc = label, ![t].block = b]
Return(t) == call' = [call EXCEPT ![t] = NoCall]

Larger(m, n) == IF m > n THEN m ELSE n
Smaller(m, n) == IF m < n THEN m ELSE n

(* Mutant: the size does not count the header.                               *)
NewBlockSizeWithoutHeader(last, bytes) ==
  Larger(IF last = NULL THEN StartBlockSize
                        ELSE Smaller(2 * heap[last].size, MaxBlockSize),
         bytes)

(* The block size NewBlock asks for, doubling up to the limit.               *)
NewBlockSize(last, bytes) ==
  Larger(IF last = NULL THEN StartBlockSize
                        ELSE Smaller(2 * heap[last].size, MaxBlockSize),
         HeaderSize + bytes)

(* The elements of the chunk ExpandCleanupList adds, and its bytes.          *)
ChunkElements(list) ==
  Smaller(IF list.size = 0 THEN MinCleanupElements ELSE 2 * list.size, MaxCleanupElements)
ChunkBytes(k) == ChunkHeaderSize + k * CleanupNodeSize

(* The bytes GetBlock is asked for. *)
Need(t) == IF call[t].chunk = 0 THEN call[t].n ELSE ChunkBytes(call[t].chunk)

-----------------------------------------------------------------------------
(* Construction and allocation. *)

Init ==
  /\ lifecycle_id_generator = 0
  /\ arena = [a \in Arenas |->
       [alive |-> FALSE, lifecycle_id |-> -1, blocks |-> NULL, hint |-> NULL,
        space_allocated |-> 0, lock |-> NULL,
        registered |-> [t \in Threads |-> 0], ran |-> << >>]]
  /\ heap = [b \in Memory |-> FreeBlock]
  /\ thread_cache = [t \in Threads |-> NoCache]
  /\ call = [t \in Threads |-> NoCall]

(* An arena with its initial block, if it has one, and no other block.       *)
Restarted(a, id) ==
  [alive |-> TRUE, lifecycle_id |-> id, blocks |-> InitialBlock[a], hint |-> InitialBlock[a],
   space_allocated |-> IF InitialBlock[a] = NULL THEN 0 ELSE InitialBlockSize,
   lock |-> NULL, registered |-> [t \in Threads |-> 0], ran |-> << >>]

(* The calling thread owns and caches the initial block. *)
OwnInitialBlock(t, a, b, id) ==
  IF InitialBlock[a] = NULL THEN UNCHANGED <<heap, thread_cache>>
  ELSE /\ heap' = [heap EXCEPT ![b] = EmptyBlock(a, t, InitialBlockSize, 1)]
       /\ thread_cache' = [thread_cache EXCEPT ![t] = [id |-> id, block |-> b]]

(* No call on a is in progress; none is a Reset or the destructor.          *)
Unused(a) == \A t \in Threads : call[t].arena # a
Usable(a) ==
  /\ arena[a].alive
  /\ \A t \in Threads : call[t].arena = a => call[t].op \notin {"reset", "destroy"}

(* The constructor: Init. *)
Construct(t, a) ==
  /\ Idle(t) /\ ~ arena[a].alive
  /\ lifecycle_id_generator < MaxLifecycle
  /\ lifecycle_id_generator' = lifecycle_id_generator + 1
  /\ arena' = [arena EXCEPT ![a] = Restarted(a, lifecycle_id_generator)]
  /\ OwnInitialBlock(t, a, InitialBlock[a], lifecycle_id_generator)
  /\ UNCHANGED call

(* AllocateAligned(n), AllocateAlignedAndAddCleanup(n), and AddCleanup, for  *)
(* which n is 0.                                                             *)
Allocate(t, a, n, cleanup) ==
  /\ Idle(t) /\ Usable(a)
  /\ n > 0 \/ cleanup
  /\ cleanup => arena[a].registered[t] < MaxRegistered
  /\ call' = [call EXCEPT ![t] = [NoCall EXCEPT
       !.pc = "get", !.arena = a, !.op = "allocate", !.n = n, !.cleanup = cleanup]]
  /\ UNCHANGED <<lifecycle_id_generator, arena, heap, thread_cache>>

(* Mutant: the hint is taken whoever owns the block. *)
HintedBlockOfAnyone(t, a) == arena[a].hint

(* t's block as its cache knows it, and as the hint does. *)
CachedBlock(t, a) ==
  IF thread_cache[t].id = arena[a].lifecycle_id THEN thread_cache[t].block ELSE NULL
HintedBlock(t, a) ==
  IF arena[a].hint # NULL /\ heap[arena[a].hint].owner = t THEN arena[a].hint ELSE NULL

(* Where the call goes on with the block GetBlock returned. *)
AfterGetBlock(t) == IF call[t].chunk = 0 THEN "alloc" ELSE "expand"

(* GetBlock, the fast paths. *)
GetBlock(t) ==
  /\ At(t, "get")
  /\ LET cached == CachedBlock(t, call[t].arena)
         hinted == HintedBlock(t, call[t].arena)
         Fits(b) == b # NULL /\ Avail(b) >= Need(t)
     IN \/ Fits(cached) /\ GotoWith(t, AfterGetBlock(t), cached)
        \/ ~ Fits(cached) /\ Fits(hinted) /\ GotoWith(t, AfterGetBlock(t), hinted)
        \/ /\ ~ Fits(cached) /\ ~ Fits(hinted)
           /\ call' = [call EXCEPT ![t].pc = "find",
                                   ![t].full = IF hinted # NULL THEN hinted ELSE cached]
  /\ UNCHANGED <<lifecycle_id_generator, arena, heap, thread_cache>>

(* FindBlock loads the head of the list; other threads may push after that.  *)
FindBlock(t) ==
  /\ At(t, "find")
  /\ GotoWith(t, "walk", arena[call[t].arena].blocks)
  /\ UNCHANGED <<lifecycle_id_generator, arena, heap, thread_cache>>

(* FindBlock walks to t's first block; GetBlockSlow takes it if it fits.     *)
WalkBlocks(t) ==
  /\ At(t, "walk")
  /\ LET b == call[t].block IN
     \/ b # NULL /\ heap[b].owner # t /\ GotoWith(t, "walk", heap[b].next)
     \/ (b # NULL => heap[b].owner = t /\ Avail(b) < Need(t)) /\ Goto(t, "new")
     \/ /\ b # NULL /\ heap[b].owner = t /\ Avail(b) >= Need(t)
        /\ call' = [call EXCEPT ![t].pc = "cache", ![t].full = NULL]
  /\ UNCHANGED <<lifecycle_id_generator, arena, heap, thread_cache>>

(* NewBlock: block_alloc returns some free address.                          *)
NewBlock(t) ==
  /\ At(t, "new")
  /\ \E b \in HeapBlocks :
       /\ heap[b].arena = NULL
       /\ heap' = [heap EXCEPT ![b] =
            EmptyBlock(call[t].arena, t, NewBlockSize(call[t].block, Need(t)), 0)]
       /\ GotoWith(t, "lock", b)
  /\ UNCHANGED <<lifecycle_id_generator, arena, thread_cache>>

(* No memory: operator new, the default block_alloc, throws out of the call. *)
BadAlloc(t) ==
  /\ At(t, "new")
  /\ \A b \in HeapBlocks : heap[b].arena # NULL
  /\ Return(t)
  /\ UNCHANGED <<lifecycle_id_generator, arena, heap, thread_cache>>

(* Mutant: MutexLock does not exclude.                                       *)
LockIgnored(a) == TRUE

LockFree(a) == arena[a].lock = NULL

(* AddBlock: lock blocks_lock_, and point the block at the head of the list. *)
LockBlocks(t) ==
  /\ At(t, "lock")
  /\ LET a == call[t].arena
         b == call[t].block
     IN /\ LockFree(a)
        /\ arena' = [arena EXCEPT ![a].lock = t]
        /\ heap' = [heap EXCEPT ![b].next = arena[a].blocks,
                                ![b].depth = 1 + Depth(arena[a].blocks)]
  /\ Goto(t, "publish")
  /\ UNCHANGED <<lifecycle_id_generator, thread_cache>>

(* Mutant: the lock is kept. *)
PublishAndKeepLock(t) ==
  /\ At(t, "publish")
  /\ LET b == call[t].block IN
     arena' = [arena EXCEPT
       ![call[t].arena].blocks = b,
       ![call[t].arena].space_allocated = arena[call[t].arena].space_allocated + heap[b].size]
  /\ Goto(t, "cache")
  /\ UNCHANGED <<lifecycle_id_generator, heap, thread_cache>>

(* AddBlock: the block becomes the head, the counter grows, unlock.          *)
PublishBlock(t) ==
  /\ At(t, "publish")
  /\ LET b == call[t].block IN
     arena' = [arena EXCEPT
       ![call[t].arena].blocks = b,
       ![call[t].arena].space_allocated = arena[call[t].arena].space_allocated + heap[b].size,
       ![call[t].arena].lock = NULL]
  /\ Goto(t, "cache")
  /\ UNCHANGED <<lifecycle_id_generator, heap, thread_cache>>

(* Mutant: the list is not taken from the full block. *)
CopyCleanupList(full, b) == [heap EXCEPT ![b].cleanup = heap[full].cleanup]

(* The new block b gets the cleanup list of the block that was too full.     *)
StealCleanupList(full, b) ==
  [heap EXCEPT ![b].cleanup = heap[full].cleanup, ![full].cleanup = NoCleanup]

(* CacheBlock, after stealing the list if there is a full block.             *)
CacheBlock(t) ==
  /\ At(t, "cache")
  /\ LET a == call[t].arena
         b == call[t].block
         full == call[t].full
     IN /\ heap' = IF full = NULL THEN heap ELSE StealCleanupList(full, b)
        /\ thread_cache' = [thread_cache EXCEPT ![t] = [id |-> arena[a].lifecycle_id, block |-> b]]
        /\ arena' = [arena EXCEPT ![a].hint = b]
  /\ call' = [call EXCEPT ![t].pc = AfterGetBlock(t), ![t].full = NULL]
  /\ UNCHANGED lifecycle_id_generator

(* AllocFromBlock, for the user's memory. *)
AllocFromBlock(t) ==
  /\ At(t, "alloc")
  /\ heap' = [heap EXCEPT ![call[t].block].pos = heap[call[t].block].pos + call[t].n]
  /\ IF call[t].cleanup THEN Goto(t, "add") ELSE Return(t)
  /\ UNCHANGED <<lifecycle_id_generator, arena, thread_cache>>

(* A block with the cleanup as the next node of its list of size and room.   *)
WithCleanup(t, b, size, room) ==
  [heap[b] EXCEPT !.cleanup =
     [size |-> size, room |-> room - 1,
      nodes |-> << <<t, arena[call[t].arena].registered[t] + 1>> >>
                  \o heap[b].cleanup.nodes]]

Register(t) ==
  arena' = [arena EXCEPT ![call[t].arena].registered[t] =
              arena[call[t].arena].registered[t] + 1]

(* Mutant: a full chunk is not noticed. *)
AddCleanupUnchecked(t) ==
  /\ At(t, "add")
  /\ LET b == call[t].block IN
     heap' = [heap EXCEPT ![b] =
       WithCleanup(t, b, heap[b].cleanup.size, heap[b].cleanup.room)]
  /\ Register(t)
  /\ Return(t)
  /\ UNCHANGED <<lifecycle_id_generator, thread_cache>>

(* AddCleanupInBlock: there is room in the first chunk. *)
AddCleanupInBlock(t) ==
  /\ At(t, "add")
  /\ LET b == call[t].block IN
     /\ heap[b].cleanup.room > 0
     /\ heap' = [heap EXCEPT ![b] =
          WithCleanup(t, b, heap[b].cleanup.size, heap[b].cleanup.room)]
  /\ Register(t)
  /\ Return(t)
  /\ UNCHANGED <<lifecycle_id_generator, thread_cache>>

(* ExpandCleanupList looks for a block if b has not the bytes for the chunk. *)
AfterExpand(b, bytes) == IF Avail(b) < bytes THEN "get" ELSE "expand"

(* AddCleanupInBlock: there is no room.  ExpandCleanupList chooses the *)
(* elements of a larger chunk.                                               *)
ExpandCleanupList(t) ==
  /\ At(t, "add")
  /\ LET b == call[t].block
         k == ChunkElements(heap[b].cleanup)
     IN /\ heap[b].cleanup.room = 0
        /\ call' = [call EXCEPT ![t].chunk = k,
             ![t].pc = AfterExpand(b, ChunkBytes(k))]
  /\ UNCHANGED <<lifecycle_id_generator, arena, heap, thread_cache>>

(* ExpandCleanupList allocates the chunk, and the cleanup is added to it.    *)
AddCleanupChunk(t) ==
  /\ At(t, "expand")
  /\ LET b == call[t].block
         k == call[t].chunk
     IN heap' = [heap EXCEPT ![b] =
          [WithCleanup(t, b, k, k) EXCEPT !.pos = heap[b].pos + ChunkBytes(k)]]
  /\ Register(t)
  /\ Return(t)
  /\ UNCHANGED <<lifecycle_id_generator, thread_cache>>

-----------------------------------------------------------------------------
(* Reset and the destructor. *)

Release(t, a, op) ==
  call' = [call EXCEPT ![t] = [NoCall EXCEPT
    !.pc = "cleanup", !.arena = a, !.op = op, !.block = arena[a].blocks]]

(* Mutant: Reset keeps the arena's lifecycle id. *)
ResetKeepsId(t, a) ==
  /\ Idle(t) /\ arena[a].alive /\ Unused(a)
  /\ Release(t, a, "reset")
  /\ UNCHANGED <<lifecycle_id_generator, arena, heap, thread_cache>>

(* Reset: a new lifecycle id, so that no thread's cache matches.             *)
Reset(t, a) ==
  /\ Idle(t) /\ arena[a].alive /\ Unused(a)
  /\ lifecycle_id_generator < MaxLifecycle
  /\ lifecycle_id_generator' = lifecycle_id_generator + 1
  /\ arena' = [arena EXCEPT ![a].lifecycle_id = lifecycle_id_generator]
  /\ Release(t, a, "reset")
  /\ UNCHANGED <<heap, thread_cache>>

(* The destructor, which keeps the id. *)
Destroy(t, a) ==
  /\ Idle(t) /\ arena[a].alive /\ Unused(a)
  /\ Release(t, a, "destroy")
  /\ UNCHANGED <<lifecycle_id_generator, arena, heap, thread_cache>>

(* CleanupList runs a block's cleanups; after the last block, to FreeBlocks. *)
CleanupList(t) ==
  /\ At(t, "cleanup")
  /\ LET a == call[t].arena
         b == call[t].block
     IN \/ /\ b # NULL
           /\ arena' = [arena EXCEPT ![a].ran = arena[a].ran \o heap[b].cleanup.nodes]
           /\ GotoWith(t, "cleanup", heap[b].next)
        \/ /\ b = NULL
           /\ GotoWith(t, "free", arena[a].blocks)
           /\ UNCHANGED arena
  /\ UNCHANGED <<lifecycle_id_generator, heap, thread_cache>>

(* FreeBlocks frees a block, or keeps it: the last one, if the user gave it. *)
FreeBlocks(t) ==
  /\ At(t, "free") /\ call[t].block # NULL
  /\ LET b == call[t].block
         next == heap[b].next
     IN \/ /\ next = NULL /\ InitialBlock[call[t].arena] # NULL
           /\ call' = [call EXCEPT ![t].block = next, ![t].full = b]
           /\ UNCHANGED heap
        \/ /\ next # NULL \/ InitialBlock[call[t].arena] = NULL
           /\ GotoWith(t, "free", next)
           /\ heap' = [heap EXCEPT ![b] = FreeBlock]
  /\ UNCHANGED <<lifecycle_id_generator, arena, thread_cache>>

(* The end of FreeBlocks, the same in Reset and in the destructor.           *)
FinishReset(t) ==
  /\ At(t, "free") /\ call[t].block = NULL
  /\ LET a == call[t].arena
         id == arena[a].lifecycle_id
     IN /\ arena' = [arena EXCEPT ![a] =
             [Restarted(a, id) EXCEPT !.alive = (call[t].op = "reset")]]
        /\ OwnInitialBlock(t, a, call[t].full, id)
  /\ Return(t)
  /\ UNCHANGED lifecycle_id_generator

-----------------------------------------------------------------------------
(* SpaceUsed, and the end of a thread. *)

(* The bytes in use in the blocks of a.  A block not yet pushed has none.    *)
InUse(a) ==
  [b \in Memory |-> IF heap[b].arena = a THEN heap[b].pos - HeaderSize ELSE 0]

(* SpaceUsed loads the head of the list.                                     *)
SpaceUsed(t, a) ==
  /\ t \in Observers /\ Idle(t) /\ Usable(a)
  /\ call' = [call EXCEPT ![t] = [NoCall EXCEPT
       !.pc = "sum", !.arena = a, !.op = "used", !.block = arena[a].blocks, !.before = InUse(a)]]
  /\ UNCHANGED <<lifecycle_id_generator, arena, heap, thread_cache>>

(* Mutant: what is left is summed, not what is used. *)
SumFreeBytes(t, b) ==
  call' = [call EXCEPT ![t].total = call[t].total + Avail(b), ![t].block = heap[b].next]

SumBlock(t, b) ==
  call' = [call EXCEPT ![t].total = call[t].total + (heap[b].pos - HeaderSize),
                       ![t].block = heap[b].next]

(* SpaceUsed reads blocks that other threads allocate from, without a lock.  *)
WalkUsed(t) ==
  /\ At(t, "sum") /\ call[t].block # NULL
  /\ SumBlock(t, call[t].block)
  /\ UNCHANGED <<lifecycle_id_generator, arena, heap, thread_cache>>

SpaceUsedReturns(t) ==
  /\ At(t, "sum") /\ call[t].block = NULL
  /\ Return(t)
  /\ UNCHANGED <<lifecycle_id_generator, arena, heap, thread_cache>>

(* A thread ends; a new one gets the address of its ThreadCache.             *)
ThreadExit(t) ==
  /\ Idle(t) /\ thread_cache[t] # NoCache
  /\ thread_cache' = [thread_cache EXCEPT ![t] = NoCache]
  /\ UNCHANGED <<lifecycle_id_generator, arena, heap, call>>

-----------------------------------------------------------------------------
CallStep(t) ==
  \/ GetBlock(t) \/ FindBlock(t) \/ WalkBlocks(t)
  \/ NewBlock(t) \/ BadAlloc(t) \/ LockBlocks(t) \/ PublishBlock(t) \/ CacheBlock(t)
  \/ AllocFromBlock(t)
  \/ AddCleanupInBlock(t) \/ ExpandCleanupList(t) \/ AddCleanupChunk(t)
  \/ CleanupList(t) \/ FreeBlocks(t) \/ FinishReset(t)
  \/ WalkUsed(t) \/ SpaceUsedReturns(t)

Begin(t) ==
  \/ ThreadExit(t)
  \/ \E a \in Arenas :
       \/ Construct(t, a) \/ Reset(t, a) \/ Destroy(t, a) \/ SpaceUsed(t, a)
       \/ \E n \in Sizes \union {0}, cleanup \in BOOLEAN : Allocate(t, a, n, cleanup)

Next == \E t \in Threads : CallStep(t) \/ Begin(t)

Spec == Init /\ [][Next]_vars

(* A running thread continues its call; no thread has to begin one.          *)
FairSpec == Spec /\ \A t \in Threads : WF_vars(CallStep(t))

-----------------------------------------------------------------------------
(* Properties. *)

Labels == {"idle", "get", "find", "walk", "new", "lock", "publish", "cache", "alloc", "add",
           "expand", "cleanup", "free", "sum"}
Nodes == Seq(Threads \X Nat)

ArenaType ==
  [alive : BOOLEAN, lifecycle_id : Int, blocks : Memory \union {NULL},
   hint : Memory \union {NULL}, space_allocated : Nat, lock : Threads \union {NULL},
   registered : [Threads -> Nat], ran : Nodes]
CleanupType == [size : Nat, room : Nat, nodes : Nodes]
BlockType ==
  [arena : Arenas \union {NULL}, owner : Threads \union {NULL},
   next : Memory \union {NULL}, cleanup : CleanupType, pos : Nat, size : Nat, depth : Nat]
CacheType == [id : Int, block : Memory \union {NULL}]
CallType ==
  [pc : Labels, arena : Arenas \union {NULL},
   op : {"none", "allocate", "reset", "destroy", "used"}, n : Nat, cleanup : BOOLEAN,
   block : Memory \union {NULL}, full : Memory \union {NULL}, chunk : Nat,
   total : Nat, before : [Memory -> Int]]

(* Type correctness.  The first chunk of a cleanup list never has more nodes *)
(* than it was allocated for: its room does not go below zero (arena.cc:167) *)
TypeOK ==
  /\ lifecycle_id_generator \in Nat
  /\ arena \in [Arenas -> ArenaType]
  /\ heap \in [Memory -> BlockType]
  /\ thread_cache \in [Threads -> CacheType]
  /\ call \in [Threads -> CallType]

(* Only the owner works on a block, so its position and cleanup list need no *)
(* lock; and no call reaches a block that was freed, or another arena's.     *)
Owning == {"lock", "publish", "cache", "alloc", "add", "expand"}
OwnsBlock(t) ==
  /\ call[t].pc \in Owning => call[t].block # NULL /\ heap[call[t].block].owner = t
  /\ call[t].pc # "idle" /\ call[t].block # NULL => heap[call[t].block].arena = call[t].arena
  /\ call[t].pc = "cache" /\ call[t].full # NULL =>
       call[t].full # call[t].block /\ heap[call[t].full].owner = t
ExclusiveBlock == \A t \in Threads : OwnsBlock(t)

(* A cache whose id matches an arena in use leads to a block of that thread  *)
(* in that arena, and a hint to a block of the arena: neither survives the   *)
(* block, though addresses are reused (arena.cc:95, arena_impl.h:139).       *)
Releasing(a) == \E t \in Threads : call[t].arena = a /\ call[t].op \in {"reset", "destroy"}
CacheValid == \A a \in Arenas : arena[a].alive /\ ~ Releasing(a) =>
  /\ \A t \in Threads : thread_cache[t].id = arena[a].lifecycle_id =>
       LET b == thread_cache[t].block IN b # NULL /\ heap[b].arena = a /\ heap[b].owner = t
  /\ arena[a].hint # NULL => heap[arena[a].hint].arena = a

(* A block has the bytes that are carved out of it: AllocFromBlock's         *)
(* assertion (arena.cc:228), for the user's memory and for cleanup chunks.   *)
NeedFits(t) ==
  call[t].pc \in {"lock", "publish", "cache", "alloc", "expand"} =>
    Avail(call[t].block) >= Need(t)
AllocationFits ==
  /\ \A b \in Memory : heap[b].pos <= heap[b].size
  /\ \A t \in Threads : NeedFits(t)

(* The blocks of the list that starts with b: the smallest set with b and,   *)
(* of every block that has a next one, that one.                             *)
ClosedUnderNext(S) == \A b \in S : heap[b].next # NULL => heap[b].next \in S
BlocksFrom(b) ==
  LET closed == {S \in SUBSET Memory : (b # NULL => b \in S) /\ ClosedUnderNext(S)}
  IN {c \in Memory : \A S \in closed : c \in S}

SumOver(f, S) == MapThenSumSet(LAMBDA b : f[b], S)

(* Every block ever obtained is in the list, is about to be pushed, or was   *)
(* freed: concurrent pushes lose none, and a reset frees all but the initial *)
(* block (arena.cc:143, :272).  That one is last.                            *)
Freed(a) == \E t \in Threads : call[t].arena = a /\ At(t, "free")
Pushed(a) == {call[t].block : t \in {u \in Threads :
                call[u].arena = a /\ call[u].pc \in {"lock", "publish"}}}
Left(a) ==
  UNION {BlocksFrom(call[t].block) \union ({call[t].full} \ {NULL}) :
           t \in {u \in Threads : call[u].arena = a /\ At(u, "free")}}
NoBlockLost == \A a \in Arenas :
  LET held == {b \in Memory : heap[b].arena = a}
      list == BlocksFrom(arena[a].blocks)
  IN /\ ~ arena[a].alive => held \subseteq {InitialBlock[a]}
     /\ arena[a].alive /\ Freed(a) => held = Left(a)
     /\ arena[a].alive /\ ~ Freed(a) =>
          /\ held = list \union Pushed(a)
          /\ InitialBlock[a] # NULL =>
               InitialBlock[a] \in list /\ heap[InitialBlock[a]].next = NULL

(* space_allocated_ is the sum of the sizes of all blocks in the list        *)
(* (arena_impl.h:186), as SpaceAllocated reads it under the lock.            *)
SpaceIsSum == \A a \in Arenas : arena[a].alive /\ ~ Freed(a) =>
  arena[a].space_allocated =
    SumOver([b \in Memory |-> heap[b].size], BlocksFrom(arena[a].blocks))

(* Where the cleanups of a are: those that ran, and those that wait in a     *)
(* block that the walk of CleanupList has yet to reach; and their order.     *)
Waiting(a) ==
  {b \in BlocksFrom(arena[a].blocks) :
     /\ ~ Freed(a)
     /\ \A t \in Threads :
          call[t].arena = a /\ At(t, "cleanup") => b \in BlocksFrom(call[t].block)}
Places(a) ==
  {<<NULL, i>> : i \in DOMAIN arena[a].ran} \union
  UNION {{<<b, i>> : i \in DOMAIN heap[b].cleanup.nodes} : b \in Waiting(a)}
NodeAt(a, p) ==
  IF p[1] = NULL THEN arena[a].ran[p[2]] ELSE heap[p[1]].cleanup.nodes[p[2]]
RunsBefore(p, q) ==
  \/ p[1] = q[1] /\ p[2] < q[2]
  \/ p[1] = NULL /\ q[1] # NULL
  \/ p[1] \notin {NULL, q[1]} /\ q[1] # NULL /\ q[1] \in BlocksFrom(heap[p[1]].next)

(* Every cleanup a thread registered runs exactly once, the last registered  *)
(* first, whatever blocks and stolen lists hold them (arena.cc:243, :320):   *)
(* each has run or waits, at one place, and in the order in which they run   *)
(* those of a thread count down.                                             *)
CleanupsKept == \A a \in Arenas : arena[a].alive =>
  LET places == Places(a) IN
  /\ {NodeAt(a, p) : p \in places} =
       UNION {{<<t, k>> : k \in 1 .. arena[a].registered[t]} : t \in Threads}
  /\ \A p, q \in places :
       NodeAt(a, p)[1] = NodeAt(a, q)[1] /\ RunsBefore(p, q) => NodeAt(a, p)[2] > NodeAt(a, q)[2]

(* SpaceUsed, racing allocations, returns no less than what was in use when  *)
(* it was called and no more than what is in use when it returns             *)
(* (arena.h:489: it "may not include space used by other threads executing   *)
(* concurrently").                                                          *)
SpaceUsedInRange == [][\A t \in Threads : SpaceUsedReturns(t) =>
  /\ SumOver(call[t].before, Memory) <= call[t].total
  /\ call[t].total <= SumOver(InUse(call[t].arena), Memory)]_vars

(* Every call returns: no thread waits for the lock, or walks, for ever.     *)
EveryCallReturns == \A t \in Threads : ~ Idle(t) ~> Idle(t)
=============================================================================
