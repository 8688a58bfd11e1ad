----------------------------- MODULE ArenaProofs -----------------------------
(***************************************************************************)
(* What TLAPS proves of Arena, for every set of threads, arenas and blocks,  *)
(* every size and every bound: its types, that only the owner of a block     *)
(* works on it (ExclusiveBlock), that no matching cache and no hint is       *)
(* stale (CacheValid), that every allocation fits (AllocationFits), that no  *)
(* block is lost (NoBlockLost), that the space counter is the sum of the     *)
(* blocks (SpaceIsSum), that SpaceUsed is off by no more than what others    *)
(* allocate meanwhile (SpaceUsedInRange), and that every cleanup runs once   *)
(* and each thread's last one first (CleanupsKept).                          *)
(***************************************************************************)
EXTENDS Arena, SequenceTheorems, FiniteSetTheorems, TLAPS

-----------------------------------------------------------------------------
(* The inductive invariant: what a call relies on. *)

AllocateLabels ==
  {"get", "find", "walk", "new", "lock", "publish", "cache", "alloc", "add", "expand"}
ReleaseOps == {"reset", "destroy"}

(* A call is on an arena in use, at a step of its operation.                 *)
CallConsistent(t) ==
  /\ call[t].pc = "idle" => call[t] = NoCall
  /\ call[t].pc # "idle" => call[t].arena \in Arenas /\ arena[call[t].arena].alive
  /\ call[t].op = "allocate" <=> call[t].pc \in AllocateLabels
  /\ call[t].op = "used" <=> call[t].pc = "sum"
  /\ call[t].op \in ReleaseOps <=> call[t].pc \in {"cleanup", "free"}
  /\ call[t].pc \in {"alloc", "add"} => call[t].chunk = 0
  /\ call[t].pc = "expand" => call[t].chunk > 0
  /\ call[t].pc \in {"get", "alloc", "add", "expand", "cleanup", "sum"} => call[t].full = NULL

(* A block that is about to be pushed: not in the list, then in front of it. *)
PendingBlock(t) ==
  /\ call[t].pc = "lock" => heap[call[t].block].depth = 0 /\ heap[call[t].block].next = NULL
  /\ call[t].pc = "publish" =>
       /\ arena[call[t].arena].lock = t
       /\ heap[call[t].block].depth = 1 + Depth(arena[call[t].arena].blocks)
       /\ heap[call[t].block].next = arena[call[t].arena].blocks

(* FreeBlocks has freed the blocks above its cursor.                         *)
FreeProgress(t) ==
  call[t].pc = "free" =>
    /\ \A b \in Memory : heap[b].arena = call[t].arena =>
         heap[b].depth > 0 /\ (heap[b].depth <= Depth(call[t].block) \/ b = call[t].full)
    /\ call[t].full # NULL => call[t].full = InitialBlock[call[t].arena]

(* The blocks kept across the steps of GetBlockSlow.                         *)
FullBlock(t) ==
  /\ call[t].pc = "new" /\ call[t].block # NULL => heap[call[t].block].owner = t
  /\ call[t].op = "allocate" /\ call[t].full # NULL =>
       /\ heap[call[t].full].arena = call[t].arena /\ heap[call[t].full].owner = t
       /\ call[t].pc \in {"lock", "publish", "cache"} => call[t].full # call[t].block

CallOK(t) ==
  /\ CallConsistent(t) /\ PendingBlock(t) /\ FreeProgress(t) /\ FullBlock(t)
  /\ OwnsBlock(t) /\ NeedFits(t)

-----------------------------------------------------------------------------
(* The inductive invariant: arenas and blocks. *)

(* A call that resets or destroys an arena is the only one on it.            *)
ReleasedAlone == \A t, u \in Threads :
  call[t].op \in ReleaseOps /\ call[u].arena = call[t].arena => u = t

(* Initial blocks stay with their arena, where they are the oldest block.    *)
InitialBlocks ==
  /\ \A b \in Memory : heap[b].arena # NULL =>
       b \in HeapBlocks \/ b = InitialBlock[heap[b].arena]
  /\ \A a \in Arenas :
       /\ arena[a].alive /\ InitialBlock[a] # NULL =>
            heap[InitialBlock[a]].arena = a /\ heap[InitialBlock[a]].depth = 1
       /\ ~ arena[a].alive => \A b \in Memory : heap[b].arena = a => b = InitialBlock[a]

(* The blocks of an arena are ordered by depth, and each but the last points *)
(* to the next one by depth.                                                 *)
Linked(b) ==
  /\ heap[b].pos >= HeaderSize
  /\ heap[b].next = NULL <=> heap[b].depth \in {0, 1}
  /\ heap[b].next # NULL =>
       /\ heap[heap[b].next].arena = heap[b].arena
       /\ heap[heap[b].next].depth + 1 = heap[b].depth
       /\ heap[heap[b].next].depth > 0
Ordered ==
  /\ \A b \in Memory : heap[b].arena # NULL => Linked(b)
  /\ \A b, c \in Memory :
       heap[b].arena = heap[c].arena /\ heap[b].depth = heap[c].depth /\ heap[b].depth > 0
         => heap[b].arena = NULL \/ b = c

(* The head of the list is the deepest; only a block that is about to be     *)
(* pushed is not below it.                                                   *)
Pending(t, b) == call[t].block = b /\ call[t].pc \in {"lock", "publish"}
Headed(a) == ~ Freed(a) =>
  /\ arena[a].blocks # NULL =>
       heap[arena[a].blocks].arena = a /\ heap[arena[a].blocks].depth > 0
  /\ \A b \in Memory : heap[b].arena = a =>
       \/ heap[b].depth > 0 /\ heap[b].depth <= Depth(arena[a].blocks)
       \/ \E t \in Threads : Pending(t, b)

(* Lifecycle ids are never handed out twice, and no cache holds the new id   *)
(* of an arena that is being reset.                                          *)
Lifecycles ==
  /\ \A a \in Arenas :
       /\ arena[a].lifecycle_id < lifecycle_id_generator
       /\ arena[a].alive => arena[a].lifecycle_id >= 0
  /\ \A a, c \in Arenas :
       arena[a].lifecycle_id = arena[c].lifecycle_id /\ arena[a].lifecycle_id >= 0 => a = c
  /\ \A t \in Threads : thread_cache[t].id < lifecycle_id_generator
  /\ \A t, u \in Threads : call[u].op = "reset" =>
       thread_cache[t].id # arena[call[u].arena].lifecycle_id

PositionsFit == \A b \in Memory : heap[b].pos <= heap[b].size

IInv ==
  /\ TypeOK
  /\ \A t \in Threads : CallOK(t)
  /\ ReleasedAlone /\ InitialBlocks /\ Ordered
  /\ \A a \in Arenas : Headed(a)
  /\ Lifecycles /\ CacheValid /\ PositionsFit

-----------------------------------------------------------------------------
(* Steps on a thread's own blocks. *)

(* The types, field by field. *)
FieldsTyped ==
  /\ \A u \in Threads :
       /\ call[u].pc \in Labels /\ call[u].arena \in Arenas \union {NULL}
       /\ call[u].block \in Memory \union {NULL} /\ call[u].full \in Memory \union {NULL}
       /\ call[u].n \in Nat /\ call[u].chunk \in Nat
  /\ \A a \in Arenas :
       /\ arena[a].alive \in BOOLEAN /\ arena[a].lifecycle_id \in Int
       /\ arena[a].blocks \in Memory \union {NULL} /\ arena[a].hint \in Memory \union {NULL}
       /\ arena[a].lock \in Threads \union {NULL}
  /\ \A b \in Memory :
       /\ heap[b].arena \in Arenas \union {NULL} /\ heap[b].owner \in Threads \union {NULL}
       /\ heap[b].next \in Memory \union {NULL}
       /\ heap[b].pos \in Nat /\ heap[b].size \in Nat /\ heap[b].depth \in Nat
  /\ \A u \in Threads :
       thread_cache[u].id \in Int /\ thread_cache[u].block \in Memory \union {NULL}

(* What the assumption on the constants gives.                              *)
LEMMA Constants ==
  /\ NULL \notin HeapBlocks /\ NULL \notin Threads /\ NULL \notin Arenas /\ NULL \notin Memory
  /\ HeapBlocks \subseteq Memory
  /\ \A a \in Arenas : InitialBlock[a] \in Memory \union {NULL} /\ InitialBlock[a] \notin HeapBlocks
  /\ \A a, c \in Arenas : InitialBlock[a] = InitialBlock[c] /\ InitialBlock[a] # NULL => a = c
  /\ HeaderSize \in Nat /\ InitialBlockSize \in Nat /\ InitialBlockSize >= HeaderSize
BY ArenaAssumption DEF Memory

(* The types of the variables, field by field.                              *)
LEMMA TypeOfFields == TypeOK => FieldsTyped
BY DEF TypeOK, FieldsTyped, CallType, ArenaType, BlockType, CacheType

(* A step of t that changes no list and no lock: at most t's call, cache and *)
(* hint, and the position and cleanups of t's blocks.                        *)
Ordinary(t) ==
  /\ lifecycle_id_generator' = lifecycle_id_generator
  /\ \A u \in Threads \ {t} : call'[u] = call[u] /\ thread_cache'[u] = thread_cache[u]
  /\ \A a \in Arenas :
       /\ arena'[a].alive = arena[a].alive /\ arena'[a].lifecycle_id = arena[a].lifecycle_id
       /\ arena'[a].blocks = arena[a].blocks /\ arena'[a].lock = arena[a].lock
       /\ \/ arena'[a].hint = arena[a].hint
          \/ arena'[a].hint # NULL /\ heap[arena'[a].hint].arena = a
  /\ \A b \in Memory :
       /\ heap'[b].arena = heap[b].arena /\ heap'[b].owner = heap[b].owner
       /\ heap'[b].next = heap[b].next /\ heap'[b].depth = heap[b].depth
       /\ heap'[b].size = heap[b].size
       /\ \/ heap'[b].pos = heap[b].pos
          \/ heap[b].owner = t /\ heap'[b].pos \in heap[b].pos .. heap[b].size
  /\ \/ thread_cache'[t] = thread_cache[t]
     \/ thread_cache'[t].id = -1
     \/ /\ call[t].op = "allocate" /\ thread_cache'[t].block # NULL
        /\ thread_cache'[t].id = arena[call[t].arena].lifecycle_id
        /\ heap[thread_cache'[t].block].arena = call[t].arena
        /\ heap[thread_cache'[t].block].owner = t
  /\ call[t].pc \notin {"lock", "publish"} /\ call'[t].pc \notin {"lock", "publish"}
  /\ call[t].pc = "free" => call'[t].pc = "free"
  /\ call[t].op \in ReleaseOps => call'[t].op = call[t].op /\ call'[t].arena = call[t].arena
  /\ call'[t].op \in ReleaseOps =>
       \/ call'[t].op = call[t].op /\ call'[t].arena = call[t].arena
       \/ call'[t].op = "destroy" /\ Unused(call'[t].arena)
  /\ \/ call'[t].arena \in {NULL, call[t].arena}
     \/ \A u \in Threads : call[u].arena = call'[t].arena => call[u].op \notin ReleaseOps

(* A step that leaves the others' blocks and caches alone keeps what their  *)
(* calls rely on.                                                           *)
LEMMA OrdinaryOthers ==
  ASSUME IInv, TypeOK', NEW t \in Threads, Ordinary(t), NEW u \in Threads \ {t}
  PROVE  CallOK(u)'
<1>0. /\ CallOK(u) /\ call'[u] = call[u]
      /\ FieldsTyped /\ NULL \notin HeapBlocks \union Threads \union Arenas
  BY TypeOfFields, ArenaAssumption DEF IInv, Ordinary
<1>1. CallConsistent(u)'
  BY <1>0 DEF Ordinary, CallOK, CallConsistent, NoCall
<1>2. \A b \in Memory \union {NULL} :
        (IF b = NULL THEN 0 ELSE heap'[b].depth) = (IF b = NULL THEN 0 ELSE heap[b].depth)
  BY DEF Ordinary
<1>3. PendingBlock(u)'
  <2> DEFINE a == call[u].arena
             b == call[u].block
  <2>1. /\ call'[u].arena = a /\ call'[u].block = b /\ call'[u].pc = call[u].pc
        /\ call[u].pc \in {"lock", "publish"} => b \in Memory /\ a \in Arenas
    BY <1>0 DEF CallOK, CallConsistent, OwnsBlock, Owning, AllocateLabels, FieldsTyped
  <2>2. \A m \in Memory : heap'[m].depth = heap[m].depth /\ heap'[m].next = heap[m].next
    BY DEF Ordinary
  <2>3. a \in Arenas => /\ arena'[a].blocks = arena[a].blocks /\ arena'[a].lock = arena[a].lock
                        /\ arena[a].blocks \in Memory \union {NULL}
    BY <1>0 DEF Ordinary, FieldsTyped
  <2>4. PendingBlock(u)
    BY <1>0 DEF CallOK
  <2> QED
    BY <2>1, <2>2, <2>3, <2>4 DEF PendingBlock, Depth
<1>4. FreeProgress(u)'
  BY <1>0, <1>2 DEF Ordinary, CallOK, FreeProgress, Depth, FieldsTyped
<1>5. FullBlock(u)'
  BY <1>0 DEF Ordinary, CallOK, FullBlock, FieldsTyped
<1>6. OwnsBlock(u)'
  BY <1>0 DEF Ordinary, CallOK, OwnsBlock, Owning, FieldsTyped
<1>7. NeedFits(u)'
  BY <1>0 DEF Ordinary, CallOK, NeedFits, Avail, Need, OwnsBlock, Owning, FieldsTyped
<1> QED
  BY <1>1, <1>3, <1>4, <1>5, <1>6, <1>7 DEF CallOK

(* For such a step only the thread's own call is left to look at.           *)
LEMMA OrdinaryKeeps ==
  ASSUME IInv, TypeOK', NEW t \in Threads, Ordinary(t), CallOK(t)'
  PROVE  IInv'
<1>0. /\ FieldsTyped /\ NULL \notin HeapBlocks \union Threads \union Arenas
      /\ \A u \in Threads : CallOK(u) /\ CallConsistent(u)
      /\ ReleasedAlone /\ InitialBlocks /\ Ordered /\ Lifecycles /\ CacheValid /\ PositionsFit
      /\ \A a \in Arenas : Headed(a)
  BY TypeOfFields, ArenaAssumption DEF IInv, CallOK
<1>1. \A u \in Threads : CallOK(u)'
  BY OrdinaryOthers
<1>2. ReleasedAlone'
  BY <1>0 DEF Ordinary, ReleasedAlone, ReleaseOps, Unused, CallConsistent, FieldsTyped
<1>9. \A m \in Memory :
        /\ heap'[m].arena = heap[m].arena /\ heap'[m].owner = heap[m].owner
        /\ heap'[m].next = heap[m].next /\ heap'[m].depth = heap[m].depth
        /\ heap'[m].pos >= heap[m].pos /\ heap'[m].pos \in Nat
  BY <1>0 DEF Ordinary, FieldsTyped
<1>10. \A a \in Arenas :
         /\ arena'[a].alive = arena[a].alive /\ arena'[a].lifecycle_id = arena[a].lifecycle_id
         /\ arena'[a].blocks = arena[a].blocks
         /\ \/ arena'[a].hint = arena[a].hint
            \/ arena'[a].hint # NULL /\ heap[arena'[a].hint].arena = a
         /\ arena[a].blocks \in Memory \union {NULL} /\ arena[a].hint \in Memory \union {NULL}
         /\ arena[a].lifecycle_id \in Int
  BY <1>0 DEF Ordinary, FieldsTyped
<1>11. \A u \in Threads \ {t} : call'[u] = call[u] /\ thread_cache'[u] = thread_cache[u]
  BY DEF Ordinary
<1>3. InitialBlocks'
  BY <1>0, <1>9, <1>10, Constants DEF InitialBlocks
<1>4. Ordered'
  <2>1. ASSUME NEW b \in Memory, heap'[b].arena # NULL PROVE Linked(b)'
    <3>1. Linked(b) /\ heap[b].next \in Memory \union {NULL} /\ heap[b].pos \in Nat
      BY <1>0, <1>9, <2>1 DEF Ordered, FieldsTyped
    <3> QED
      BY <1>9, <3>1, ArenaAssumption DEF Linked
  <2> QED
    BY <1>0, <1>9, <2>1 DEF Ordered
<1>5. \A a \in Arenas : Headed(a)'
  <2> SUFFICES ASSUME NEW a \in Arenas, ~ Freed(a)' PROVE Headed(a)'
    BY DEF Headed
  <2>1. ~ Freed(a)
    BY <1>0, <1>11 DEF Freed, At, Ordinary, CallConsistent, ReleaseOps
  <2>2. \A u \in Threads, b \in Memory : Pending(u, b) => Pending(u, b)'
    BY <1>11 DEF Pending, Ordinary
  <2>3. Headed(a)
    BY <1>0
  <2>4. Depth(arena[a].blocks)' = Depth(arena[a].blocks)
    BY <1>9, <1>10 DEF Depth
  <2> QED
    BY <1>9, <1>10, <2>1, <2>2, <2>3, <2>4 DEF Headed
<1>6. Lifecycles'
  <2>1. \A u \in Threads : call'[u].op = "reset" =>
          /\ call[u].op = "reset" /\ call'[u].arena = call[u].arena
          /\ call[u].arena \in Arenas /\ arena[call[u].arena].alive
    BY <1>0, <1>11 DEF Ordinary, ReleaseOps, CallConsistent
  <2>2. call[t].op = "allocate" => call[t].arena \in Arenas /\ arena[call[t].arena].alive
    BY <1>0 DEF CallConsistent, AllocateLabels
  <2>3. \A u \in Threads : call[u].op = "reset" /\ call[t].op = "allocate" => call[u].arena # call[t].arena
    BY <1>0 DEF ReleasedAlone, ReleaseOps
  <2>4. \A u \in Threads, a \in Arenas : thread_cache[u].id \in Int /\ arena[a].lifecycle_id \in Int
    BY <1>0 DEF FieldsTyped
  <2>5. \/ thread_cache'[t] = thread_cache[t]
        \/ thread_cache'[t].id = -1
        \/ call[t].op = "allocate" /\ thread_cache'[t].id = arena[call[t].arena].lifecycle_id
    BY DEF Ordinary
  <2>6. lifecycle_id_generator \in Nat /\ lifecycle_id_generator' = lifecycle_id_generator
    BY DEF IInv, TypeOK, Ordinary
  <2>7. Lifecycles
    BY <1>0
  <2>8. \A u \in Threads : thread_cache'[u].id < lifecycle_id_generator
    BY <1>11, <2>2, <2>4, <2>5, <2>6, <2>7 DEF Lifecycles
  <2>9. ASSUME NEW v \in Threads, NEW u \in Threads, call'[u].op = "reset"
        PROVE  thread_cache'[v].id # arena[call[u].arena].lifecycle_id
    <3>1. CASE v # t
      BY <1>11, <2>1, <2>7, <2>9, <3>1 DEF Lifecycles
    <3>2. CASE v = t
      BY <2>1, <2>2, <2>3, <2>4, <2>5, <2>7, <2>9, <3>2 DEF Lifecycles
    <3> QED
      BY <3>1, <3>2
  <2> QED
    BY <1>10, <2>1, <2>6, <2>7, <2>8, <2>9 DEF Lifecycles
<1>7. CacheValid'
  <2> SUFFICES ASSUME NEW a \in Arenas, arena'[a].alive, ~ Releasing(a)'
               PROVE  /\ \A u \in Threads : thread_cache'[u].id = arena'[a].lifecycle_id =>
                           LET b == thread_cache'[u].block
                           IN  b # NULL /\ heap'[b].arena = a /\ heap'[b].owner = u
                      /\ arena'[a].hint # NULL => heap'[arena'[a].hint].arena = a
    BY DEF CacheValid
  <2>1. arena[a].alive /\ ~ Releasing(a)
    BY <1>10, <1>11 DEF Releasing, Ordinary, ReleaseOps
  <2>2. \A u \in Threads : thread_cache'[u].id = arena'[a].lifecycle_id =>
          LET b == thread_cache'[u].block
          IN  b \in Memory /\ heap[b].arena = a /\ heap[b].owner = u
    <3> SUFFICES ASSUME NEW u \in Threads, thread_cache'[u].id = arena[a].lifecycle_id
                 PROVE  /\ thread_cache'[u].block \in Memory
                        /\ heap[thread_cache'[u].block].arena = a /\ heap[thread_cache'[u].block].owner = u
      BY <1>10
    <3>1. thread_cache'[u].block \in Memory \union {NULL}
      BY TypeOfFields DEF TypeOK, CacheType
    <3>2. CASE thread_cache'[u] = thread_cache[u]
      BY <1>0, <2>1, <3>1, <3>2 DEF CacheValid
    <3>3. arena[a].lifecycle_id >= 0 /\ arena[a].lifecycle_id # -1
      BY <1>0, <1>10, <2>1 DEF Lifecycles
    <3>4. CASE thread_cache'[u] # thread_cache[u]
      <4>1. u = t /\ call[t].op = "allocate" /\ thread_cache'[t].block # NULL
            /\ thread_cache'[t].id = arena[call[t].arena].lifecycle_id
            /\ heap[thread_cache'[t].block].arena = call[t].arena
            /\ heap[thread_cache'[t].block].owner = t
        BY <1>11, <3>3, <3>4 DEF Ordinary
      <4>2. call[t].arena \in Arenas
        BY <1>0, <4>1 DEF CallConsistent, AllocateLabels
      <4>3. call[t].arena = a
        BY <1>0, <3>3, <4>1, <4>2 DEF Lifecycles
      <4> QED
        BY <3>1, <4>1, <4>3
    <3> QED
      BY <3>2, <3>4
  <2>3. arena'[a].hint # NULL => heap[arena'[a].hint].arena = a /\ arena'[a].hint \in Memory
    <3>1. arena'[a].hint \in Memory \union {NULL}
      BY DEF TypeOK, ArenaType
    <3> QED
      BY <1>0, <1>10, <2>1, <3>1 DEF CacheValid
  <2> QED
    BY <1>9, <2>2, <2>3, Constants
<1>8. PositionsFit'
  BY <1>0 DEF Ordinary, PositionsFit, FieldsTyped
<1> QED
  BY <1>1, <1>2, <1>3, <1>4, <1>5, <1>6, <1>7, <1>8 DEF IInv

-----------------------------------------------------------------------------
(* What the updates of call do. *)

OnlyCall(t) ==
  /\ call' \in [Threads -> CallType]
  /\ \A u \in Threads \ {t} : call'[u] = call[u]
SameArguments(t) ==
  /\ call'[t].arena = call[t].arena /\ call'[t].op = call[t].op
  /\ call'[t].n = call[t].n /\ call'[t].cleanup = call[t].cleanup

(* The record of a thread that is in no call.                               *)
LEMMA NoCallType ==
  /\ NoCall \in CallType
  /\ NoCall.block = NULL /\ NoCall.full = NULL /\ NoCall.chunk = 0
BY DEF NoCall, CallType, Labels

(* A call that returns changes nothing but the thread's record.             *)
LEMMA ReturnEffect ==
  ASSUME TypeOK, NEW t \in Threads, Return(t)
  PROVE  OnlyCall(t) /\ call'[t] = NoCall
BY NoCallType DEF TypeOK, Return, OnlyCall

(* A call that goes to its next place keeps its arguments and its block.    *)
LEMMA GotoEffect ==
  ASSUME TypeOK, NEW t \in Threads, NEW label \in Labels, Goto(t, label)
  PROVE  /\ OnlyCall(t) /\ SameArguments(t)
         /\ call'[t].pc = label /\ call'[t].block = call[t].block
         /\ call'[t].full = call[t].full /\ call'[t].chunk = call[t].chunk
<1>1. call[t] \in CallType
  BY DEF TypeOK
<1>2. call'[t] = [call[t] EXCEPT !.pc = label]
  BY DEF TypeOK, Goto
<1>3. call'[t] \in CallType
  BY <1>1, <1>2 DEF CallType
<1>4. OnlyCall(t)
  BY <1>3 DEF TypeOK, Goto, OnlyCall
<1> QED
  BY <1>1, <1>2, <1>4 DEF CallType, SameArguments

(* The same with another block.                                             *)
LEMMA GotoWithEffect ==
  ASSUME TypeOK, NEW t \in Threads, NEW label \in Labels, NEW b \in Memory \union {NULL},
         GotoWith(t, label, b)
  PROVE  /\ OnlyCall(t) /\ SameArguments(t)
         /\ call'[t].pc = label /\ call'[t].block = b
         /\ call'[t].full = call[t].full /\ call'[t].chunk = call[t].chunk
<1>1. call[t] \in CallType
  BY DEF TypeOK
<1>2. call'[t] = [call[t] EXCEPT !.pc = label, !.block = b]
  BY DEF TypeOK, GotoWith
<1>3. call'[t] \in CallType
  BY <1>1, <1>2 DEF CallType
<1>4. OnlyCall(t)
  BY <1>3 DEF TypeOK, GotoWith, OnlyCall
<1> QED
  BY <1>1, <1>2, <1>4 DEF CallType, SameArguments

(* A call that was interrupted or is over breaks nothing. *)
LEMMA IdleOK ==
  ASSUME NEW t \in Threads, call[t] = NoCall
  PROVE  CallOK(t)
BY Constants DEF CallOK, CallConsistent, PendingBlock, FreeProgress, FullBlock, OwnsBlock, Owning, NeedFits, NoCall, AllocateLabels, ReleaseOps

(* A step of t's call that changes nothing else. *)
LEMMA CallOnlyKeeps ==
  ASSUME IInv, NEW t \in Threads, OnlyCall(t),
         UNCHANGED <<lifecycle_id_generator, arena, heap, thread_cache>>,
         call[t].pc \notin {"lock", "publish"}, call'[t].pc \notin {"lock", "publish"},
         call[t].pc = "free" => call'[t].pc = "free",
         \/ call'[t] = NoCall /\ call[t].op \notin ReleaseOps
         \/ call'[t].op = call[t].op /\ call'[t].arena = call[t].arena
         \/ /\ call[t].pc = "idle" /\ call'[t].op # "reset"
            /\ \A u \in Threads : call[u].arena = call'[t].arena => call[u].op \notin ReleaseOps
            /\ call'[t].op = "destroy" => Unused(call'[t].arena),
         CallOK(t)'
  PROVE  IInv'
<1>1. TypeOK'
  BY DEF IInv, TypeOK, OnlyCall
<1>2. FieldsTyped /\ CallConsistent(t)
  BY TypeOfFields DEF IInv, CallOK
<1>3. Ordinary(t)
  BY <1>2 DEF Ordinary, OnlyCall, ReleaseOps, NoCall, FieldsTyped, CallConsistent
<1> QED
  BY <1>1, <1>3, OrdinaryKeeps

(* The look into the thread's cache.                                        *)
LEMMA GetBlockKeeps ==
  ASSUME IInv, NEW t \in Threads, GetBlock(t)
  PROVE  IInv'
<1> DEFINE a == call[t].arena
<1>0. /\ TypeOK /\ FieldsTyped /\ CallOK(t) /\ CallConsistent(t) /\ CacheValid /\ ReleasedAlone
      /\ call[t].pc = "get"
  BY TypeOfFields DEF IInv, CallOK, GetBlock, At
<1>1. a \in Arenas /\ arena[a].alive /\ ~ Releasing(a) /\ call[t].op = "allocate"
  BY <1>0 DEF CallConsistent, Releasing, ReleasedAlone, AllocateLabels, ReleaseOps
<1>2. /\ CachedBlock(t, a) \in Memory \union {NULL} /\ HintedBlock(t, a) \in Memory \union {NULL}
      /\ \A b \in Memory : b = CachedBlock(t, a) \/ b = HintedBlock(t, a) =>
           heap[b].arena = a /\ heap[b].owner = t
  BY <1>0, <1>1, Constants DEF CachedBlock, HintedBlock, CacheValid, FieldsTyped
<1>3. AfterGetBlock(t) = IF call[t].chunk = 0 THEN "alloc" ELSE "expand"
  BY DEF AfterGetBlock
<1>4. CASE \E b \in {CachedBlock(t, a), HintedBlock(t, a)} :
             b # NULL /\ Avail(b) >= Need(t) /\ GotoWith(t, AfterGetBlock(t), b)
  <2>1. PICK b \in {CachedBlock(t, a), HintedBlock(t, a)} :
             b # NULL /\ Avail(b) >= Need(t) /\ GotoWith(t, AfterGetBlock(t), b)
    BY <1>4
  <2>2. b \in Memory /\ heap[b].arena = a /\ heap[b].owner = t /\ AfterGetBlock(t) \in Labels
    BY <1>2, <1>3, <2>1 DEF Labels
  <2>3. /\ OnlyCall(t) /\ SameArguments(t) /\ call'[t].pc = AfterGetBlock(t) /\ call'[t].block = b
        /\ call'[t].full = call[t].full /\ call'[t].chunk = call[t].chunk
    BY <1>0, <2>1, <2>2, GotoWithEffect
  <2>4. UNCHANGED <<lifecycle_id_generator, arena, heap, thread_cache>>
    BY DEF GetBlock
  <2>5. CallOK(t)'
    BY <1>0, <1>1, <1>3, <2>1, <2>2, <2>3, <2>4
       DEF SameArguments, CallOK, CallConsistent, PendingBlock, FreeProgress, FullBlock, OwnsBlock, Owning,
           NeedFits, Avail, Need, AllocateLabels, ReleaseOps, FieldsTyped
  <2> QED
    BY <1>0, <1>1, <1>3, <2>3, <2>4, <2>5, CallOnlyKeeps DEF SameArguments
<1>5. CASE \E f \in {CachedBlock(t, a), HintedBlock(t, a)} :
             call' = [call EXCEPT ![t].pc = "find", ![t].full = f]
  <2>1. PICK f \in {CachedBlock(t, a), HintedBlock(t, a)} :
             call' = [call EXCEPT ![t].pc = "find", ![t].full = f]
    BY <1>5
  <2>2. call[t] \in CallType /\ call'[t] = [call[t] EXCEPT !.pc = "find", !.full = f]
    BY <1>0, <2>1 DEF TypeOK
  <2>3. call'[t] \in CallType
    <3>1. f \in Memory \union {NULL}
      BY <1>2, <2>1
    <3> QED
      BY <2>2, <3>1 DEF CallType, Labels
  <2>4. /\ OnlyCall(t) /\ SameArguments(t) /\ call'[t].pc = "find" /\ call'[t].full = f
        /\ call'[t].block = call[t].block
    BY <1>0, <2>1, <2>2, <2>3 DEF TypeOK, OnlyCall, SameArguments, CallType
  <2>5. UNCHANGED <<lifecycle_id_generator, arena, heap, thread_cache>>
    BY DEF GetBlock
  <2>6. CallOK(t)'
    BY <1>0, <1>1, <1>2, <2>1, <2>4, <2>5
       DEF SameArguments, CallOK, CallConsistent, PendingBlock, FreeProgress, FullBlock, OwnsBlock, Owning,
           NeedFits, AllocateLabels, ReleaseOps, FieldsTyped
  <2> QED
    BY <1>0, <1>1, <2>4, <2>5, <2>6, CallOnlyKeeps DEF SameArguments
<1> QED
  BY <1>4, <1>5 DEF GetBlock

(* The look at the hint.                                                    *)
LEMMA FindBlockKeeps ==
  ASSUME IInv, NEW t \in Threads, FindBlock(t)
  PROVE  IInv'
<1> DEFINE b == arena[call[t].arena].blocks
<1>0. /\ TypeOK /\ FieldsTyped /\ CallOK(t) /\ CallConsistent(t) /\ ReleasedAlone
      /\ call[t].pc = "find" /\ UNCHANGED <<lifecycle_id_generator, arena, heap, thread_cache>>
  BY TypeOfFields DEF IInv, CallOK, FindBlock, At
<1>1. call[t].arena \in Arenas /\ call[t].op = "allocate" /\ Headed(call[t].arena)
  BY <1>0 DEF IInv, CallConsistent, AllocateLabels
<1>2. ~ Freed(call[t].arena)
  BY <1>0, <1>1 DEF IInv, CallOK, CallConsistent, Freed, At, ReleasedAlone, ReleaseOps
<1>3. b \in Memory \union {NULL} /\ (b # NULL => heap[b].arena = call[t].arena)
  BY <1>0, <1>1, <1>2 DEF Headed, FieldsTyped
<1>4. /\ OnlyCall(t) /\ SameArguments(t) /\ call'[t].pc = "walk" /\ call'[t].block = b
      /\ call'[t].full = call[t].full /\ call'[t].chunk = call[t].chunk
  BY <1>0, <1>3, GotoWithEffect DEF FindBlock, Labels
<1>5. CallOK(t)'
  BY <1>0, <1>1, <1>3, <1>4
     DEF SameArguments, CallOK, CallConsistent, PendingBlock, FreeProgress, FullBlock, OwnsBlock, Owning,
         NeedFits, AllocateLabels, ReleaseOps, FieldsTyped
<1> QED
  BY <1>0, <1>1, <1>4, <1>5, CallOnlyKeeps DEF SameArguments

(* The walk along the list of blocks.                                       *)
LEMMA WalkBlocksKeeps ==
  ASSUME IInv, NEW t \in Threads, WalkBlocks(t)
  PROVE  IInv'
<1> DEFINE b == call[t].block
<1>0. /\ TypeOK /\ FieldsTyped /\ CallOK(t) /\ CallConsistent(t) /\ OwnsBlock(t) /\ Ordered
      /\ call[t].pc = "walk" /\ UNCHANGED <<lifecycle_id_generator, arena, heap, thread_cache>>
  BY TypeOfFields DEF IInv, CallOK, WalkBlocks, At
<1>1. call[t].arena \in Arenas /\ call[t].op = "allocate"
  BY <1>0 DEF CallConsistent, AllocateLabels
<1>2. /\ b \in Memory \union {NULL}
      /\ b # NULL => /\ heap[b].arena = call[t].arena /\ heap[b].next \in Memory \union {NULL}
                     /\ heap[b].next # NULL => heap[heap[b].next].arena = call[t].arena
  BY <1>0, <1>1, Constants DEF FieldsTyped, OwnsBlock, Ordered, Linked
<1>3. CASE b # NULL /\ GotoWith(t, "walk", heap[b].next)
  <2>1. /\ OnlyCall(t) /\ SameArguments(t) /\ call'[t].pc = "walk" /\ call'[t].block = heap[b].next
        /\ call'[t].full = call[t].full /\ call'[t].chunk = call[t].chunk
    BY <1>0, <1>2, <1>3, GotoWithEffect DEF Labels
  <2>2. CallOK(t)'
    BY <1>0, <1>1, <1>2, <1>3, <2>1
       DEF SameArguments, CallOK, CallConsistent, PendingBlock, FreeProgress, FullBlock, OwnsBlock, Owning,
           NeedFits, AllocateLabels, ReleaseOps, FieldsTyped
  <2> QED
    BY <1>0, <1>1, <2>1, <2>2, CallOnlyKeeps DEF SameArguments
<1>4. CASE (b # NULL => heap[b].owner = t) /\ Goto(t, "new")
  <2>1. /\ OnlyCall(t) /\ SameArguments(t) /\ call'[t].pc = "new" /\ call'[t].block = b
        /\ call'[t].full = call[t].full /\ call'[t].chunk = call[t].chunk
    BY <1>0, <1>4, GotoEffect DEF Labels
  <2>2. CallOK(t)'
    BY <1>0, <1>1, <1>2, <1>4, <2>1
       DEF SameArguments, CallOK, CallConsistent, PendingBlock, FreeProgress, FullBlock, OwnsBlock, Owning,
           NeedFits, AllocateLabels, ReleaseOps, FieldsTyped
  <2> QED
    BY <1>0, <1>1, <2>1, <2>2, CallOnlyKeeps DEF SameArguments
<1>5. CASE /\ b # NULL /\ heap[b].owner = t /\ Avail(b) >= Need(t)
           /\ call' = [call EXCEPT ![t].pc = "cache", ![t].full = NULL]
  <2>1. call[t] \in CallType /\ call'[t] = [call[t] EXCEPT !.pc = "cache", !.full = NULL]
    BY <1>0, <1>5 DEF TypeOK
  <2>2. call'[t] \in CallType
    BY <2>1 DEF CallType, Labels
  <2>3. /\ OnlyCall(t) /\ SameArguments(t) /\ call'[t].pc = "cache" /\ call'[t].full = NULL
        /\ call'[t].block = b /\ call'[t].chunk = call[t].chunk
    BY <1>0, <1>5, <2>1, <2>2 DEF TypeOK, OnlyCall, SameArguments, CallType
  <2>4. CallOK(t)'
    BY <1>0, <1>1, <1>2, <1>5, <2>3
       DEF SameArguments, CallOK, CallConsistent, PendingBlock, FreeProgress, FullBlock, OwnsBlock, Owning,
           NeedFits, Avail, Need, AllocateLabels, ReleaseOps, FieldsTyped
  <2> QED
    BY <1>0, <1>1, <2>3, <2>4, CallOnlyKeeps DEF SameArguments
<1> QED
  BY <1>3, <1>4, <1>5 DEF WalkBlocks

(* A call returns, in a state that satisfies the rest of the invariant.      *)
LEMMA ReturnKeeps ==
  ASSUME IInv, NEW t \in Threads, Return(t),
         UNCHANGED <<lifecycle_id_generator, arena, heap, thread_cache>>,
         call[t].pc \in {"new", "sum"}
  PROVE  IInv'
<1>1. OnlyCall(t) /\ call'[t] = NoCall
  BY ReturnEffect DEF IInv
<1>2. call[t].op \notin ReleaseOps /\ call'[t].pc = "idle"
  BY <1>1 DEF IInv, CallOK, CallConsistent, NoCall
<1>3. CallOK(t)'
  BY <1>1, Constants DEF CallOK, CallConsistent, PendingBlock, FreeProgress, FullBlock, OwnsBlock, Owning,
                         NeedFits, NoCall, AllocateLabels, ReleaseOps
<1> QED
  BY <1>1, <1>2, <1>3, CallOnlyKeeps

(* A thread finds its cleanup list full.                                    *)
LEMMA ExpandCleanupListKeeps ==
  ASSUME IInv, NEW t \in Threads, ExpandCleanupList(t)
  PROVE  IInv'
<1> DEFINE b == call[t].block
           k == ChunkElements(heap[b].cleanup)
<1>0. /\ TypeOK /\ FieldsTyped /\ CallOK(t) /\ CallConsistent(t) /\ OwnsBlock(t)
      /\ call[t].pc = "add" /\ UNCHANGED <<lifecycle_id_generator, arena, heap, thread_cache>>
  BY TypeOfFields DEF IInv, CallOK, ExpandCleanupList, At
<1>1. call[t].arena \in Arenas /\ call[t].op = "allocate" /\ b \in Memory
  BY <1>0 DEF CallConsistent, AllocateLabels, OwnsBlock, Owning, FieldsTyped
<1>2. k \in Nat /\ k > 0
  <2>1. heap[b].cleanup.size \in Nat
    BY <1>0, <1>1 DEF TypeOK, BlockType, CleanupType
  <2> QED
    BY <2>1, ArenaAssumption DEF ChunkElements, Smaller
<1>3. PICK label \in {"get", "expand"} :
        /\ call' = [call EXCEPT ![t].chunk = k, ![t].pc = label]
        /\ label = "expand" => Avail(b) >= ChunkBytes(k)
  <2>1. Avail(b) \in Int /\ ChunkBytes(k) \in Int
    BY <1>0, <1>1, <1>2, ArenaAssumption DEF Avail, ChunkBytes, FieldsTyped
  <2>2. /\ AfterExpand(b, ChunkBytes(k)) \in {"get", "expand"}
        /\ AfterExpand(b, ChunkBytes(k)) = "expand" => Avail(b) >= ChunkBytes(k)
    BY <2>1 DEF AfterExpand
  <2> QED
    BY <2>2 DEF ExpandCleanupList
<1>4. call[t] \in CallType /\ call'[t] = [call[t] EXCEPT !.chunk = k, !.pc = label]
  BY <1>0, <1>3 DEF TypeOK
<1>5. call'[t] \in CallType
  BY <1>2, <1>4 DEF CallType, Labels
<1>6. /\ OnlyCall(t) /\ SameArguments(t) /\ call'[t].pc = label /\ call'[t].chunk = k
      /\ call'[t].block = b /\ call'[t].full = call[t].full
  BY <1>0, <1>3, <1>4, <1>5 DEF TypeOK, OnlyCall, SameArguments, CallType
<1>7. /\ call'[t].op = "allocate" /\ call'[t].arena = call[t].arena /\ call'[t].full = NULL
      /\ call'[t].pc \in {"get", "expand"} /\ UNCHANGED <<arena, heap>>
      /\ heap[b].arena = call[t].arena /\ heap[b].owner = t /\ arena[call[t].arena].alive
  BY <1>0, <1>1, <1>3, <1>6 DEF SameArguments, CallConsistent, OwnsBlock, Owning
<1>8. CallConsistent(t)' /\ PendingBlock(t)' /\ FreeProgress(t)' /\ FullBlock(t)' /\ OwnsBlock(t)'
  BY <1>1, <1>2, <1>6, <1>7, Constants
     DEF CallConsistent, PendingBlock, FreeProgress, FullBlock, OwnsBlock, Owning, AllocateLabels, ReleaseOps
<1>9. NeedFits(t)'
  BY <1>2, <1>3, <1>6, <1>7 DEF NeedFits, Avail, Need
<1> QED
  BY <1>0, <1>1, <1>3, <1>6, <1>7, <1>8, <1>9, CallOnlyKeeps DEF SameArguments, CallOK

-----------------------------------------------------------------------------
(* The calls that begin, and those that walk blocks without changing them.   *)

(* A call that begins on a at a label, on an arena nobody releases.          *)
LEMMA BeginKeeps ==
  ASSUME IInv, NEW t \in Threads, NEW a \in Arenas, NEW c \in CallType,
         call[t].pc = "idle", arena[a].alive,
         \A u \in Threads : call[u].arena = a => call[u].op \notin ReleaseOps,
         call' = [call EXCEPT ![t] = c],
         UNCHANGED <<lifecycle_id_generator, arena, heap, thread_cache>>,
         c.arena = a, c.full = NULL, c.chunk = 0,
         c.block # NULL => heap[c.block].arena = a,
         \/ c.pc = "get" /\ c.op = "allocate"
         \/ c.pc = "sum" /\ c.op = "used"
         \/ c.pc = "cleanup" /\ c.op = "destroy" /\ Unused(a)
  PROVE  IInv'
<1>1. OnlyCall(t) /\ call'[t] = c
  BY DEF IInv, TypeOK, OnlyCall
<1>2. CallOK(t)'
  BY <1>1 DEF CallOK, CallConsistent, PendingBlock, FreeProgress, FullBlock, OwnsBlock, Owning,
              NeedFits, AllocateLabels, ReleaseOps
<1> QED
  BY <1>1, <1>2, CallOnlyKeeps

(* A call of the allocator begins.                                          *)
LEMMA AllocateKeeps ==
  ASSUME IInv, NEW t \in Threads, NEW a \in Arenas, NEW n \in Sizes \union {0},
         NEW cleanup \in BOOLEAN, Allocate(t, a, n, cleanup)
  PROVE  IInv'
<1> DEFINE c == [NoCall EXCEPT
      !.pc = "get", !.arena = a, !.op = "allocate", !.n = n, !.cleanup = cleanup]
<1>1. c \in CallType /\ c.arena = a /\ c.full = NULL /\ c.chunk = 0 /\ c.block = NULL
      /\ c.pc = "get" /\ c.op = "allocate"
  BY NoCallType, ArenaAssumption DEF CallType, Labels
<1>2. /\ call[t].pc = "idle" /\ arena[a].alive
      /\ \A u \in Threads : call[u].arena = a => call[u].op \notin ReleaseOps
      /\ call' = [call EXCEPT ![t] = c]
      /\ UNCHANGED <<lifecycle_id_generator, arena, heap, thread_cache>>
  BY DEF Allocate, Idle, Usable, ReleaseOps
<1> HIDE DEF c
<1> QED
  BY <1>1, <1>2, BeginKeeps

(* The list of an arena begins with one of its blocks.                      *)
LEMMA HeadInArena ==
  ASSUME IInv, NEW a \in Arenas, ~ Freed(a)
  PROVE  /\ arena[a].blocks \in Memory \union {NULL}
         /\ arena[a].blocks # NULL => heap[arena[a].blocks].arena = a
BY TypeOfFields DEF IInv, Headed, FieldsTyped

(* SpaceUsed begins.                                                        *)
LEMMA SpaceUsedKeeps ==
  ASSUME IInv, NEW t \in Threads, NEW a \in Arenas, SpaceUsed(t, a)
  PROVE  IInv'
<1> DEFINE c == [NoCall EXCEPT
      !.pc = "sum", !.arena = a, !.op = "used", !.block = arena[a].blocks, !.before = InUse(a)]
<1>1. InUse(a) \in [Memory -> Int]
  BY TypeOfFields, ArenaAssumption DEF IInv, FieldsTyped, InUse
<1>2. ~ Freed(a)
  BY DEF SpaceUsed, Usable, Freed, At, IInv, CallOK, CallConsistent, ReleaseOps
<1>3. c \in CallType /\ c.arena = a /\ c.full = NULL /\ c.chunk = 0 /\ c.block = arena[a].blocks
      /\ c.pc = "sum" /\ c.op = "used"
  <2>1. arena[a].blocks \in Memory \union {NULL}
    BY <1>2, HeadInArena
  <2> QED
    BY <1>1, <2>1, NoCallType DEF CallType, Labels
<1>4. /\ call[t].pc = "idle" /\ arena[a].alive
      /\ \A u \in Threads : call[u].arena = a => call[u].op \notin ReleaseOps
      /\ call' = [call EXCEPT ![t] = c]
      /\ UNCHANGED <<lifecycle_id_generator, arena, heap, thread_cache>>
  BY DEF SpaceUsed, Idle, Usable, ReleaseOps
<1> HIDE DEF c
<1>5. c.block # NULL => heap[c.block].arena = a
  BY <1>2, <1>3, HeadInArena
<1> QED
  BY <1>3, <1>4, <1>5, BeginKeeps

(* Reset or the destructor begins.                                          *)
LEMMA DestroyKeeps ==
  ASSUME IInv, NEW t \in Threads, NEW a \in Arenas, Destroy(t, a)
  PROVE  IInv'
<1> DEFINE c == [NoCall EXCEPT
      !.pc = "cleanup", !.arena = a, !.op = "destroy", !.block = arena[a].blocks]
<1>1. ~ Freed(a) /\ Unused(a)
  BY DEF Destroy, Unused, Freed, At
<1>2. c \in CallType /\ c.arena = a /\ c.full = NULL /\ c.chunk = 0 /\ c.block = arena[a].blocks
      /\ c.pc = "cleanup" /\ c.op = "destroy"
  <2>1. arena[a].blocks \in Memory \union {NULL}
    BY <1>1, HeadInArena
  <2> QED
    BY <2>1, NoCallType DEF CallType, Labels
<1>3. /\ call[t].pc = "idle" /\ arena[a].alive
      /\ call' = [call EXCEPT ![t] = c]
      /\ UNCHANGED <<lifecycle_id_generator, arena, heap, thread_cache>>
  BY DEF Destroy, Idle, Release
<1> HIDE DEF c
<1>4. c.block # NULL => heap[c.block].arena = a
  BY <1>1, <1>2, HeadInArena
<1> QED
  BY <1>1, <1>2, <1>3, <1>4, BeginKeeps DEF Unused

(* SpaceUsed adds a block.                                                  *)
LEMMA WalkUsedKeeps ==
  ASSUME IInv, NEW t \in Threads, WalkUsed(t)
  PROVE  IInv'
<1> DEFINE b == call[t].block
           total == call[t].total + (heap[b].pos - HeaderSize)
<1>0. /\ TypeOK /\ FieldsTyped /\ CallOK(t) /\ CallConsistent(t) /\ OwnsBlock(t) /\ Ordered
      /\ call[t].pc = "sum" /\ b # NULL
      /\ UNCHANGED <<lifecycle_id_generator, arena, heap, thread_cache>>
  BY TypeOfFields DEF IInv, CallOK, WalkUsed, At
<1>1. call[t].arena \in Arenas /\ b \in Memory /\ heap[b].arena = call[t].arena
  BY <1>0 DEF CallConsistent, OwnsBlock, FieldsTyped
<1>2. /\ heap[b].next \in Memory \union {NULL}
      /\ heap[b].next # NULL => heap[heap[b].next].arena = call[t].arena
      /\ heap[b].pos \in Nat /\ heap[b].pos >= HeaderSize
  BY <1>0, <1>1, Constants DEF FieldsTyped, Ordered, Linked
<1>3. total \in Nat
  BY <1>0, <1>2, Constants DEF TypeOK, CallType
<1>4. call' = [call EXCEPT ![t].total = total, ![t].block = heap[b].next]
  BY DEF WalkUsed, SumBlock
<1> HIDE DEF total
<1>5. call[t] \in CallType /\ call'[t] = [call[t] EXCEPT !.total = total, !.block = heap[b].next]
  BY <1>0, <1>4 DEF TypeOK
<1>6. call'[t] \in CallType
  BY <1>2, <1>3, <1>5 DEF CallType
<1>7. /\ OnlyCall(t) /\ SameArguments(t) /\ call'[t].pc = "sum" /\ call'[t].chunk = call[t].chunk
      /\ call'[t].block = heap[b].next /\ call'[t].full = call[t].full
  BY <1>0, <1>4, <1>5, <1>6 DEF TypeOK, OnlyCall, SameArguments, CallType
<1>8. CallOK(t)'
  BY <1>0, <1>1, <1>2, <1>7
     DEF SameArguments, CallOK, CallConsistent, PendingBlock, FreeProgress, FullBlock, OwnsBlock, Owning,
         NeedFits, AllocateLabels, ReleaseOps
<1> QED
  BY <1>0, <1>7, <1>8, CallOnlyKeeps DEF SameArguments

(* A thread ends and its cache passes to a new one.                         *)
LEMMA ThreadExitKeeps ==
  ASSUME IInv, NEW t \in Threads, ThreadExit(t)
  PROVE  IInv'
<1>1. /\ TypeOK /\ FieldsTyped /\ CallOK(t) /\ call[t].pc = "idle" /\ call[t] = NoCall
      /\ UNCHANGED <<lifecycle_id_generator, arena, heap, call>>
  BY TypeOfFields DEF IInv, CallOK, CallConsistent, ThreadExit, Idle
<1>2. thread_cache' \in [Threads -> CacheType] /\ thread_cache'[t] = NoCache
      /\ \A u \in Threads \ {t} : thread_cache'[u] = thread_cache[u]
  BY <1>1 DEF ThreadExit, TypeOK, NoCache, CacheType
<1>3. TypeOK'
  BY <1>1, <1>2 DEF TypeOK
<1>4. Ordinary(t)
  BY <1>1, <1>2 DEF Ordinary, NoCache, NoCall, ReleaseOps
<1>5. CallOK(t)'
  BY <1>1, Constants DEF CallOK, CallConsistent, PendingBlock, FreeProgress, FullBlock, OwnsBlock, Owning,
                         NeedFits, NoCall, AllocateLabels, ReleaseOps
<1> QED
  BY <1>3, <1>4, <1>5, OrdinaryKeeps

-----------------------------------------------------------------------------
(* The steps that change a thread's own block, its cache and the histories.  *)

(* Cleanup nodes are appended.                                              *)
LEMMA NodesConcat ==
  ASSUME NEW x \in Nodes, NEW y \in Nodes
  PROVE  x \o y \in Nodes
BY ConcatProperties DEF Nodes

(* Only the registered and ran histories of an arena, and its hint, change.  *)
ArenaKept ==
  /\ arena' \in [Arenas -> ArenaType]
  /\ \A a \in Arenas :
       /\ arena'[a].alive = arena[a].alive /\ arena'[a].lifecycle_id = arena[a].lifecycle_id
       /\ arena'[a].blocks = arena[a].blocks /\ arena'[a].lock = arena[a].lock

(* The hint, if it changes, is a block of the arena. *)
HintKept ==
  \A a \in Arenas :
    \/ arena'[a].hint = arena[a].hint
    \/ arena'[a].hint # NULL /\ heap[arena'[a].hint].arena = a

(* At most the positions and cleanup lists of t's blocks change.             *)
BlocksKept(t) ==
  /\ heap' \in [Memory -> BlockType]
  /\ \A b \in Memory :
       /\ heap'[b].arena = heap[b].arena /\ heap'[b].owner = heap[b].owner
       /\ heap'[b].next = heap[b].next /\ heap'[b].depth = heap[b].depth
       /\ heap'[b].size = heap[b].size
       /\ \/ heap'[b].pos = heap[b].pos
          \/ heap[b].owner = t /\ heap'[b].pos \in heap[b].pos .. heap[b].size

(* A call that allocates goes on with its block, or returns.                 *)
LEMMA OwnBlockKeeps ==
  ASSUME IInv, NEW t \in Threads, OnlyCall(t), ArenaKept, HintKept, BlocksKept(t),
         UNCHANGED <<lifecycle_id_generator, thread_cache>>,
         call[t].pc \in {"alloc", "add", "expand"},
         \/ call'[t] = NoCall
         \/ SameArguments(t) /\ call'[t].pc = "add" /\ call'[t].block = call[t].block
            /\ call'[t].full = NULL /\ call'[t].chunk = 0
  PROVE  IInv'
<1>1. TypeOK'
  BY DEF IInv, TypeOK, OnlyCall, ArenaKept, BlocksKept
<1>2. /\ FieldsTyped /\ CallConsistent(t) /\ OwnsBlock(t)
      /\ call[t].op = "allocate" /\ call[t].arena \in Arenas /\ arena[call[t].arena].alive
      /\ call[t].block \in Memory
  BY TypeOfFields DEF IInv, CallOK, CallConsistent, AllocateLabels, OwnsBlock, Owning, FieldsTyped
<1>3. Ordinary(t)
  BY <1>2 DEF Ordinary, OnlyCall, ArenaKept, HintKept, BlocksKept, SameArguments, NoCall, ReleaseOps
<1>4. CallOK(t)'
  <2>1. CASE call'[t] = NoCall
    BY <2>1, Constants DEF CallOK, CallConsistent, PendingBlock, FreeProgress, FullBlock, OwnsBlock, Owning,
                           NeedFits, NoCall, AllocateLabels, ReleaseOps
  <2>2. CASE SameArguments(t) /\ call'[t].pc = "add" /\ call'[t].block = call[t].block
             /\ call'[t].full = NULL /\ call'[t].chunk = 0
    BY <1>2, <2>2, Constants
       DEF CallOK, CallConsistent, PendingBlock, FreeProgress, FullBlock, OwnsBlock, Owning,
           NeedFits, AllocateLabels, ReleaseOps, SameArguments, ArenaKept, BlocksKept
  <2> QED
    BY <2>1, <2>2
<1> QED
  BY <1>1, <1>3, <1>4, OrdinaryKeeps

(* The owner carves an object out of its block.                             *)
LEMMA AllocFromBlockKeeps ==
  ASSUME IInv, NEW t \in Threads, AllocFromBlock(t)
  PROVE  IInv'
<1> DEFINE b == call[t].block
<1>0. /\ TypeOK /\ FieldsTyped /\ CallConsistent(t) /\ OwnsBlock(t) /\ NeedFits(t)
      /\ call[t].pc = "alloc" /\ UNCHANGED <<lifecycle_id_generator, arena, thread_cache>>
  BY TypeOfFields DEF IInv, CallOK, AllocFromBlock, At
<1>1. /\ b \in Memory /\ heap[b].owner = t /\ heap[b].size - heap[b].pos >= call[t].n
      /\ call[t].chunk = 0 /\ call[t].full = NULL /\ call[t].n \in Nat
  BY <1>0 DEF CallConsistent, OwnsBlock, Owning, NeedFits, Need, Avail, FieldsTyped
<1>2. PICK p \in Nat : p = heap[b].pos + call[t].n /\ heap' = [heap EXCEPT ![b].pos = p]
  <2>1. heap[b].pos + call[t].n \in Nat
    BY <1>0, <1>1 DEF FieldsTyped
  <2>2. heap' = [heap EXCEPT ![b].pos = heap[b].pos + call[t].n]
    BY DEF AllocFromBlock
  <2> QED
    BY <2>1, <2>2
<1>3. BlocksKept(t)
  <2>1. heap[b] \in BlockType /\ heap'[b] = [heap[b] EXCEPT !.pos = p]
        /\ \A c \in Memory \ {b} : heap'[c] = heap[c]
    BY <1>0, <1>1, <1>2 DEF TypeOK
  <2>2. heap'[b] \in BlockType /\ p \in heap[b].pos .. heap[b].size
    BY <1>0, <1>1, <1>2, <2>1 DEF BlockType, FieldsTyped
  <2>3. heap' \in [Memory -> BlockType]
    BY <1>0, <1>1, <1>2, <2>1, <2>2 DEF TypeOK
  <2> QED
    BY <1>1, <2>1, <2>2, <2>3 DEF BlockType, BlocksKept
<1>4. ArenaKept /\ HintKept
  BY <1>0 DEF TypeOK, ArenaKept, HintKept
<1>5. CASE Return(t)
  BY <1>0, <1>3, <1>4, <1>5, ReturnEffect, OwnBlockKeeps
<1>6. CASE Goto(t, "add")
  <2>1. OnlyCall(t) /\ SameArguments(t) /\ call'[t].pc = "add" /\ call'[t].block = b
        /\ call'[t].full = call[t].full /\ call'[t].chunk = call[t].chunk
    BY <1>0, <1>6, GotoEffect DEF Labels
  <2> QED
    BY <1>0, <1>1, <1>3, <1>4, <2>1, OwnBlockKeeps
<1> QED
  BY <1>5, <1>6 DEF AllocFromBlock

(* A cleanup is noted in the history of its arena.                          *)
LEMMA RegisterKeeps ==
  ASSUME TypeOK, NEW t \in Threads, call[t].arena \in Arenas, Register(t)
  PROVE  ArenaKept /\ HintKept
<1> DEFINE a == call[t].arena
           r == [arena[a].registered EXCEPT ![t] = arena[a].registered[t] + 1]
<1>1. arena[a] \in ArenaType /\ arena[a].registered \in [Threads -> Nat]
  BY DEF TypeOK, ArenaType
<1>2. r \in [Threads -> Nat]
  BY <1>1
<1>3. arena' = [arena EXCEPT ![a].registered = r]
  BY <1>1 DEF Register
<1> HIDE DEF r
<1>4. arena'[a] = [arena[a] EXCEPT !.registered = r] /\ \A c \in Arenas \ {a} : arena'[c] = arena[c]
  BY <1>3 DEF TypeOK
<1>5. arena'[a] \in ArenaType
  BY <1>1, <1>2, <1>4 DEF ArenaType
<1>6. arena' \in [Arenas -> ArenaType]
  BY <1>3, <1>4, <1>5 DEF TypeOK
<1> QED
  BY <1>1, <1>4, <1>6 DEF ArenaType, ArenaKept, HintKept

(* A block with one more cleanup differs in its cleanup list only.          *)
LEMMA WithCleanupEffect ==
  ASSUME TypeOK, NEW t \in Threads, NEW b \in Memory, call[t].arena \in Arenas,
         NEW size \in Nat, NEW room \in Nat, room > 0
  PROVE  \E list \in CleanupType : WithCleanup(t, b, size, room) = [heap[b] EXCEPT !.cleanup = list]
<1> DEFINE i == arena[call[t].arena].registered[t] + 1
           nodes == << <<t, i>> >> \o heap[b].cleanup.nodes
           list == [size |-> size, room |-> room - 1, nodes |-> nodes]
<1>1. i \in Nat /\ heap[b].cleanup.nodes \in Nodes
  BY DEF TypeOK, ArenaType, BlockType, CleanupType
<1>2. << <<t, i>> >> \in Nodes
  BY <1>1 DEF Nodes
<1>3. nodes \in Nodes
  BY <1>1, <1>2, NodesConcat
<1> HIDE DEF nodes
<1>4. list \in CleanupType
  BY <1>3 DEF CleanupType
<1> QED
  BY <1>4 DEF WithCleanup, nodes

(* The owner adds a cleanup to its list.                                    *)
LEMMA AddCleanupInBlockKeeps ==
  ASSUME IInv, NEW t \in Threads, AddCleanupInBlock(t)
  PROVE  IInv'
<1> DEFINE b == call[t].block
<1>0. /\ TypeOK /\ FieldsTyped /\ CallConsistent(t) /\ OwnsBlock(t)
      /\ call[t].pc = "add" /\ UNCHANGED <<lifecycle_id_generator, thread_cache>>
      /\ heap[b].cleanup.room > 0 /\ Register(t) /\ Return(t)
  BY TypeOfFields DEF IInv, CallOK, AddCleanupInBlock, At
<1>1. b \in Memory /\ heap[b].owner = t /\ call[t].arena \in Arenas
  BY <1>0 DEF CallConsistent, OwnsBlock, Owning, FieldsTyped
<1>2. heap[b] \in BlockType /\ heap[b].cleanup.size \in Nat /\ heap[b].cleanup.room \in Nat
  BY <1>0, <1>1 DEF TypeOK, BlockType, CleanupType
<1>3. PICK list \in CleanupType :
        WithCleanup(t, b, heap[b].cleanup.size, heap[b].cleanup.room) = [heap[b] EXCEPT !.cleanup = list]
  BY <1>0, <1>1, <1>2, WithCleanupEffect
<1>4. heap' = [heap EXCEPT ![b] = [heap[b] EXCEPT !.cleanup = list]]
  BY <1>3 DEF AddCleanupInBlock
<1>5. [heap[b] EXCEPT !.cleanup = list] \in BlockType
  BY <1>2, <1>3 DEF BlockType
<1>6. BlocksKept(t)
  BY <1>0, <1>1, <1>2, <1>4, <1>5 DEF TypeOK, BlocksKept, BlockType
<1> QED
  BY <1>0, <1>1, <1>6, ReturnEffect, RegisterKeeps, OwnBlockKeeps

(* The owner adds a chunk to its cleanup list.                              *)
LEMMA AddCleanupChunkKeeps ==
  ASSUME IInv, NEW t \in Threads, AddCleanupChunk(t)
  PROVE  IInv'
<1> DEFINE b == call[t].block
           k == call[t].chunk
           p == heap[b].pos + ChunkBytes(k)
<1>0. /\ TypeOK /\ FieldsTyped /\ CallConsistent(t) /\ OwnsBlock(t) /\ NeedFits(t)
      /\ call[t].pc = "expand" /\ UNCHANGED <<lifecycle_id_generator, thread_cache>>
      /\ Register(t) /\ Return(t)
  BY TypeOfFields DEF IInv, CallOK, AddCleanupChunk, At
<1>1. b \in Memory /\ heap[b].owner = t /\ call[t].arena \in Arenas /\ k \in Nat /\ k > 0
  BY <1>0 DEF CallConsistent, OwnsBlock, Owning, FieldsTyped
<1>2. heap[b] \in BlockType /\ heap[b].pos \in Nat /\ heap[b].size \in Nat
  BY <1>0, <1>1 DEF TypeOK, BlockType
<1>3. ChunkBytes(k) \in Nat /\ heap[b].size - heap[b].pos >= ChunkBytes(k)
  BY <1>0, <1>1, ArenaAssumption DEF ChunkBytes, NeedFits, Need, Avail
<1>4. p \in Nat /\ p \in heap[b].pos .. heap[b].size
  BY <1>2, <1>3
<1>5. PICK list \in CleanupType : WithCleanup(t, b, k, k) = [heap[b] EXCEPT !.cleanup = list]
  BY <1>0, <1>1, WithCleanupEffect
<1>6. heap' = [heap EXCEPT ![b] = [[heap[b] EXCEPT !.cleanup = list] EXCEPT !.pos = p]]
  BY <1>5 DEF AddCleanupChunk
<1> HIDE DEF p
<1>7. PICK block \in BlockType :
        /\ heap' = [heap EXCEPT ![b] = block]
        /\ block.arena = heap[b].arena /\ block.owner = heap[b].owner /\ block.next = heap[b].next
        /\ block.depth = heap[b].depth /\ block.size = heap[b].size /\ block.pos = p
  <2>1. [[heap[b] EXCEPT !.cleanup = list] EXCEPT !.pos = p] \in BlockType
    BY <1>2, <1>4, <1>5 DEF BlockType
  <2> QED
    BY <1>2, <1>6, <2>1 DEF BlockType
<1>8. BlocksKept(t)
  BY <1>0, <1>1, <1>4, <1>7 DEF TypeOK, BlocksKept
<1> QED
  BY <1>0, <1>1, <1>8, ReturnEffect, RegisterKeeps, OwnBlockKeeps

(* The new block takes the cleanup list of the full one, and no position    *)
(* moves.                                                                   *)
LEMMA StealEffect ==
  ASSUME TypeOK, NEW t \in Threads, NEW full \in Memory, NEW b \in Memory,
         full # b, heap' = StealCleanupList(full, b)
  PROVE  BlocksKept(t) /\ \A c \in Memory : heap'[c].pos = heap[c].pos
<1> DEFINE list == heap[full].cleanup
<1>1. list \in CleanupType /\ NoCleanup \in CleanupType
  <2>1. << >> \in Nodes
    BY DEF Nodes
  <2> QED
    BY <2>1 DEF TypeOK, BlockType, NoCleanup, CleanupType
<1>2. heap' = [heap EXCEPT ![b].cleanup = list, ![full].cleanup = NoCleanup]
  BY DEF StealCleanupList
<1> HIDE DEF list
<1>3. ASSUME NEW c \in Memory
      PROVE  heap'[c] = heap[c] \/ \E l \in CleanupType : heap'[c] = [heap[c] EXCEPT !.cleanup = l]
  <2>1. CASE c = full
    <3>1. heap'[c] = [heap[c] EXCEPT !.cleanup = NoCleanup]
      BY <1>2, <2>1 DEF TypeOK
    <3> QED
      BY <1>1, <3>1
  <2>2. CASE c = b
    <3>1. heap'[c] = [heap[c] EXCEPT !.cleanup = list]
      BY <1>2, <2>2 DEF TypeOK
    <3> QED
      BY <1>1, <3>1
  <2>3. CASE c # full /\ c # b
    BY <1>2, <2>3 DEF TypeOK
  <2> QED
    BY <2>1, <2>2, <2>3
<1>4. ASSUME NEW c \in Memory
      PROVE  /\ heap'[c] \in BlockType
             /\ heap'[c].arena = heap[c].arena /\ heap'[c].owner = heap[c].owner
             /\ heap'[c].next = heap[c].next /\ heap'[c].depth = heap[c].depth
             /\ heap'[c].size = heap[c].size /\ heap'[c].pos = heap[c].pos
  <2>1. heap[c] \in BlockType
    BY DEF TypeOK
  <2> QED
    BY <1>1, <1>3, <2>1 DEF BlockType
<1>5. heap' \in [Memory -> BlockType]
  <2>1. DOMAIN heap' = Memory /\ heap' = [c \in Memory |-> heap'[c]]
    BY <1>2 DEF TypeOK
  <2> QED
    BY <1>4, <2>1
<1> QED
  BY <1>4, <1>5 DEF BlocksKept

(* The new block gets into the thread's cache.                              *)
LEMMA CacheBlockKeeps ==
  ASSUME IInv, NEW t \in Threads, CacheBlock(t)
  PROVE  IInv'
<1> DEFINE a == call[t].arena
           b == call[t].block
           full == call[t].full
<1>0. /\ TypeOK /\ FieldsTyped /\ CallOK(t) /\ CallConsistent(t) /\ OwnsBlock(t) /\ NeedFits(t)
      /\ call[t].pc = "cache" /\ lifecycle_id_generator' = lifecycle_id_generator
  BY TypeOfFields DEF IInv, CallOK, CacheBlock, At
<1>1. /\ b \in Memory /\ heap[b].owner = t /\ heap[b].arena = a /\ a \in Arenas /\ arena[a].alive
      /\ call[t].op = "allocate" /\ full \in Memory \union {NULL} /\ full # b
  BY <1>0, Constants DEF CallConsistent, OwnsBlock, Owning, FieldsTyped, AllocateLabels
<1>2. BlocksKept(t) /\ heap'[b].pos = heap[b].pos
  <2>1. CASE full = NULL
    BY <1>0, <1>1, <2>1 DEF CacheBlock, TypeOK, BlocksKept
  <2>2. CASE full # NULL
    <3>1. heap' = StealCleanupList(full, b) /\ full \in Memory
      BY <1>1, <2>2 DEF CacheBlock
    <3> QED
      BY <1>0, <1>1, <3>1, StealEffect
  <2> QED
    BY <2>1, <2>2
<1>3. ArenaKept /\ HintKept
  <2>1. arena' = [arena EXCEPT ![a].hint = b]
    BY DEF CacheBlock
  <2>2. arena[a] \in ArenaType /\ arena'[a] = [arena[a] EXCEPT !.hint = b]
        /\ \A c \in Arenas \ {a} : arena'[c] = arena[c]
    BY <1>0, <1>1, <2>1 DEF TypeOK
  <2>3. arena'[a] \in ArenaType
    BY <1>1, <2>2 DEF ArenaType
  <2>4. arena' \in [Arenas -> ArenaType]
    BY <1>0, <2>1, <2>2, <2>3 DEF TypeOK
  <2> QED
    BY <1>1, <2>2, <2>4, Constants DEF ArenaType, ArenaKept, HintKept
<1>4. /\ thread_cache' \in [Threads -> CacheType]
      /\ thread_cache'[t].id = arena[a].lifecycle_id /\ thread_cache'[t].block = b
      /\ \A u \in Threads \ {t} : thread_cache'[u] = thread_cache[u]
  <2>1. thread_cache' = [thread_cache EXCEPT ![t] = [id |-> arena[a].lifecycle_id, block |-> b]]
    BY DEF CacheBlock
  <2>2. [id |-> arena[a].lifecycle_id, block |-> b] \in CacheType
    BY <1>0, <1>1 DEF CacheType, FieldsTyped
  <2> QED
    BY <1>0, <2>1, <2>2 DEF TypeOK
<1>5. /\ OnlyCall(t) /\ SameArguments(t) /\ call'[t].pc = AfterGetBlock(t)
      /\ call'[t].full = NULL /\ call'[t].block = b /\ call'[t].chunk = call[t].chunk
  <2>1. /\ call[t] \in CallType /\ AfterGetBlock(t) \in Labels
        /\ call'[t] = [call[t] EXCEPT !.pc = AfterGetBlock(t), !.full = NULL]
    BY <1>0 DEF CacheBlock, TypeOK, AfterGetBlock, Labels
  <2>2. call'[t] \in CallType
    BY <2>1 DEF CallType
  <2> QED
    BY <1>0, <2>1, <2>2 DEF CacheBlock, TypeOK, OnlyCall, SameArguments, CallType
<1>6. AfterGetBlock(t) = IF call[t].chunk = 0 THEN "alloc" ELSE "expand"
  BY DEF AfterGetBlock
<1>7. TypeOK'
  BY <1>0, <1>2, <1>3, <1>4, <1>5 DEF TypeOK, OnlyCall, ArenaKept, BlocksKept
<1>8. Ordinary(t)
  BY <1>0, <1>1, <1>2, <1>3, <1>4, <1>5, <1>6, Constants
     DEF Ordinary, OnlyCall, SameArguments, ArenaKept, HintKept, BlocksKept, ReleaseOps
<1>9. CallOK(t)'
  <2>1. heap'[b].size - heap'[b].pos >= Need(t)
    BY <1>0, <1>1, <1>2 DEF NeedFits, Avail, BlocksKept, FieldsTyped
  <2>2. /\ heap'[b].owner = t /\ heap'[b].arena = a /\ arena'[a].alive
        /\ call'[t].pc \in {"alloc", "expand"} /\ call'[t].op = "allocate" /\ call'[t].arena = a
        /\ call'[t].n = call[t].n
        /\ call'[t].pc = "alloc" <=> call'[t].chunk = 0
        /\ call'[t].chunk \in Nat
    BY <1>0, <1>1, <1>2, <1>3, <1>5, <1>6 DEF SameArguments, ArenaKept, BlocksKept, FieldsTyped
  <2>3. CallConsistent(t)' /\ PendingBlock(t)' /\ FreeProgress(t)' /\ FullBlock(t)' /\ OwnsBlock(t)'
    BY <1>1, <1>5, <2>2, Constants
       DEF CallConsistent, PendingBlock, FreeProgress, FullBlock, OwnsBlock, Owning, AllocateLabels, ReleaseOps
  <2>4. NeedFits(t)'
    BY <1>5, <2>1, <2>2 DEF NeedFits, Avail, Need
  <2> QED
    BY <2>3, <2>4 DEF CallOK
<1> QED
  BY <1>7, <1>8, <1>9, OrdinaryKeeps

(* Reset or the destructor runs the cleanups.                               *)
LEMMA CleanupListKeeps ==
  ASSUME IInv, NEW t \in Threads, CleanupList(t)
  PROVE  IInv'
<1> DEFINE a == call[t].arena
           b == call[t].block
<1>0. /\ TypeOK /\ FieldsTyped /\ CallOK(t) /\ CallConsistent(t) /\ OwnsBlock(t) /\ Ordered
      /\ ReleasedAlone /\ \A u \in Threads : CallConsistent(u)
      /\ call[t].pc = "cleanup" /\ UNCHANGED <<lifecycle_id_generator, heap, thread_cache>>
  BY TypeOfFields DEF IInv, CallOK, CleanupList, At
<1>1. /\ a \in Arenas /\ arena[a].alive /\ call[t].op \in ReleaseOps /\ call[t].full = NULL
      /\ b # NULL => /\ b \in Memory /\ heap[b].next \in Memory \union {NULL}
                     /\ heap[b].next # NULL => heap[heap[b].next].arena = a
  BY <1>0, Constants DEF CallConsistent, FieldsTyped, OwnsBlock, Ordered, Linked
<1>2. ~ Freed(a) /\ \A u \in Threads, c \in Memory : Pending(u, c) => call[u].arena # a
  <2>1. ASSUME NEW u \in Threads, call[u].arena = a PROVE u = t
    BY <1>0, <1>1, <2>1 DEF ReleasedAlone
  <2> QED
    BY <1>0, <2>1 DEF Freed, At, Pending
<1>3. CASE b # NULL
  <2>1. /\ arena' = [arena EXCEPT ![a].ran = arena[a].ran \o heap[b].cleanup.nodes]
        /\ GotoWith(t, "cleanup", heap[b].next)
    BY <1>3 DEF CleanupList
  <2>2. arena[a].ran \o heap[b].cleanup.nodes \in Nodes
    BY <1>0, <1>1, <1>3, NodesConcat DEF TypeOK, ArenaType, BlockType, CleanupType
  <2>3. PICK ran \in Nodes : arena' = [arena EXCEPT ![a].ran = ran]
    BY <2>1, <2>2
  <2>4. arena[a] \in ArenaType /\ arena'[a] = [arena[a] EXCEPT !.ran = ran]
        /\ \A c \in Arenas \ {a} : arena'[c] = arena[c]
    BY <1>0, <1>1, <2>3 DEF TypeOK
  <2>5. arena'[a] \in ArenaType
    BY <2>3, <2>4 DEF ArenaType
  <2>6. arena' \in [Arenas -> ArenaType]
    BY <1>0, <2>3, <2>4, <2>5 DEF TypeOK
  <2>7. ArenaKept /\ HintKept
    BY <2>4, <2>6 DEF ArenaType, ArenaKept, HintKept
  <2>8. /\ OnlyCall(t) /\ SameArguments(t) /\ call'[t].pc = "cleanup" /\ call'[t].block = heap[b].next
        /\ call'[t].full = call[t].full /\ call'[t].chunk = call[t].chunk
    BY <1>0, <1>1, <1>3, <2>1, GotoWithEffect DEF Labels
  <2>9. TypeOK'
    BY <1>0, <2>6, <2>8 DEF TypeOK, OnlyCall
  <2>10. Ordinary(t)
    BY <1>0, <2>7, <2>8 DEF Ordinary, OnlyCall, SameArguments, ArenaKept, HintKept
  <2>11. CallOK(t)'
    BY <1>0, <1>1, <1>3, <2>7, <2>8, Constants
       DEF SameArguments, CallOK, CallConsistent, PendingBlock, FreeProgress, FullBlock, OwnsBlock, Owning,
           NeedFits, AllocateLabels, ReleaseOps, ArenaKept
  <2> QED
    BY <2>9, <2>10, <2>11, OrdinaryKeeps
<1>4. CASE b = NULL
  <2>1. GotoWith(t, "free", arena[a].blocks) /\ arena' = arena
    BY <1>4 DEF CleanupList
  <2>2. /\ arena[a].blocks \in Memory \union {NULL}
        /\ arena[a].blocks # NULL => heap[arena[a].blocks].arena = a
    BY <1>1, <1>2, HeadInArena
  <2>3. /\ OnlyCall(t) /\ SameArguments(t) /\ call'[t].pc = "free" /\ call'[t].block = arena[a].blocks
        /\ call'[t].full = call[t].full /\ call'[t].chunk = call[t].chunk
    BY <1>0, <2>1, <2>2, GotoWithEffect DEF Labels
  <2>4. \A c \in Memory : heap[c].arena = a => heap[c].depth > 0 /\ heap[c].depth <= Depth(arena[a].blocks)
    <3>1. Headed(a)
      BY <1>1 DEF IInv
    <3>2. ASSUME NEW c \in Memory, NEW u \in Threads, Pending(u, c) PROVE heap[c].arena # a
      <4>1. CallConsistent(u) /\ OwnsBlock(u) /\ call[u].arena # a
        BY <1>2, <3>2 DEF IInv, CallOK
      <4> QED
        BY <3>2, <4>1, Constants DEF Pending, OwnsBlock
    <3> QED
      BY <1>2, <3>1, <3>2 DEF Headed
  <2>5. FreeProgress(t)'
    <3>1. \A m : Depth(m)' = Depth(m)
      BY <1>0 DEF Depth
    <3> QED
      BY <1>0, <1>1, <2>1, <2>3, <2>4, <3>1 DEF FreeProgress, SameArguments
  <2>6. CallConsistent(t)' /\ PendingBlock(t)' /\ FullBlock(t)' /\ OwnsBlock(t)' /\ NeedFits(t)'
    BY <1>0, <1>1, <2>1, <2>2, <2>3
       DEF SameArguments, CallConsistent, PendingBlock, FullBlock, OwnsBlock, Owning,
           NeedFits, AllocateLabels, ReleaseOps
  <2> QED
    BY <1>0, <2>1, <2>3, <2>5, <2>6, CallOnlyKeeps DEF SameArguments, CallOK
<1> QED
  BY <1>3, <1>4

-----------------------------------------------------------------------------
(* Steps that change a list or an arena's life. *)

(* A call of another thread is not concerned.                                *)
LEMMA OtherCallKept ==
  ASSUME FieldsTyped, NEW u \in Threads, CallOK(u), call'[u] = call[u],
         call[u].pc # "idle" => arena'[call[u].arena].alive,
         \A b \in Memory : heap[b].arena = call[u].arena /\ call[u].pc # "idle" =>
            \/ /\ heap'[b].arena = heap[b].arena /\ heap'[b].owner = heap[b].owner
               /\ heap'[b].next = heap[b].next /\ heap'[b].depth = heap[b].depth
               /\ heap'[b].pos = heap[b].pos /\ heap'[b].size = heap[b].size
            \/ /\ heap'[b].arena = heap[b].arena /\ heap'[b].owner = heap[b].owner
               /\ heap[b].owner # u /\ call[u].pc # "free",
         call[u].pc = "publish" =>
            /\ arena'[call[u].arena].lock = arena[call[u].arena].lock
            /\ arena'[call[u].arena].blocks = arena[call[u].arena].blocks
            /\ Depth(arena[call[u].arena].blocks)' = Depth(arena[call[u].arena].blocks),
         call[u].pc = "free" =>
            \A b \in Memory : heap'[b].arena = call[u].arena => heap[b].arena = call[u].arena
  PROVE  CallOK(u)'
<1> DEFINE b == call[u].block
<1>0. /\ CallConsistent(u) /\ PendingBlock(u) /\ FreeProgress(u) /\ FullBlock(u) /\ OwnsBlock(u) /\ NeedFits(u)
      /\ b \in Memory \union {NULL} /\ call[u].full \in Memory \union {NULL}
  BY DEF CallOK, FieldsTyped
<1>1. CallConsistent(u)'
  BY <1>0 DEF CallConsistent, NoCall
<1>2. call[u].pc \in Owning => b \in Memory /\ heap[b].arena = call[u].arena /\ heap[b].owner = u
  BY <1>0 DEF OwnsBlock, Owning
<1>3. PendingBlock(u)'
  BY <1>0, <1>2 DEF PendingBlock, Owning
<1>4. FreeProgress(u)'
  <2> SUFFICES ASSUME call[u].pc = "free" PROVE FreeProgress(u)'
    BY DEF FreeProgress
  <2>1. Depth(call[u].block)' = Depth(call[u].block)
    BY <1>0 DEF Depth, OwnsBlock
  <2> QED
    BY <1>0, <2>1 DEF FreeProgress
<1>5. FullBlock(u)'
  BY <1>0 DEF FullBlock, CallConsistent, AllocateLabels, OwnsBlock
<1>6. OwnsBlock(u)'
  BY <1>0, <1>2 DEF OwnsBlock, Owning, FullBlock, CallConsistent, AllocateLabels
<1>7. NeedFits(u)'
  BY <1>0, <1>2 DEF NeedFits, Need, Avail, Owning
<1> QED
  BY <1>1, <1>3, <1>4, <1>5, <1>6, <1>7 DEF CallOK

(* Nobody releases the arena of a call that allocates.                       *)
LEMMA InUseWhileAllocating ==
  ASSUME IInv, NEW t \in Threads, call[t].op = "allocate"
  PROVE  /\ call[t].arena \in Arenas /\ arena[call[t].arena].alive
         /\ ~ Freed(call[t].arena) /\ ~ Releasing(call[t].arena)
         /\ \A u \in Threads : call[u].arena = call[t].arena => call[u].pc # "free"
<1>1. CallConsistent(t) /\ ReleasedAlone /\ \A u \in Threads : CallConsistent(u)
  BY DEF IInv, CallOK
<1>2. \A u \in Threads : call[u].arena = call[t].arena => call[u].op \notin ReleaseOps /\ call[u].pc # "free"
  BY <1>1 DEF ReleasedAlone, CallConsistent, ReleaseOps
<1> QED
  BY <1>1, <1>2 DEF CallConsistent, AllocateLabels, Freed, At, Releasing, ReleaseOps

(* A new block has room for its header and the object it is made for.       *)
LEMMA NewBlockSizeFits ==
  ASSUME FieldsTyped, NEW last \in Memory \union {NULL}, NEW bytes \in Nat
  PROVE  NewBlockSize(last, bytes) \in Nat /\ NewBlockSize(last, bytes) >= HeaderSize + bytes
<1> DEFINE wanted == IF last = NULL THEN StartBlockSize ELSE Smaller(2 * heap[last].size, MaxBlockSize)
<1>1. wanted \in Nat
  BY ArenaAssumption DEF Smaller, FieldsTyped
<1>2. NewBlockSize(last, bytes) = Larger(wanted, HeaderSize + bytes)
  BY DEF NewBlockSize
<1> HIDE DEF wanted
<1> QED
  BY <1>1, <1>2, Constants DEF Larger

(* The parts of the invariant about lifecycle ids, when neither ids nor      *)
(* caches change and no call begins or ends.                                 *)
LEMMA LifecyclesKept ==
  ASSUME IInv, NEW t \in Threads, OnlyCall(t), SameArguments(t),
         UNCHANGED <<lifecycle_id_generator, thread_cache>>,
         \A a \in Arenas : arena'[a].alive = arena[a].alive
                           /\ arena'[a].lifecycle_id = arena[a].lifecycle_id
  PROVE  Lifecycles' /\ ReleasedAlone' /\ \A a \in Arenas : Releasing(a)' => Releasing(a)
<1>1. \A u \in Threads : call'[u].op = call[u].op /\ call'[u].arena = call[u].arena
  BY DEF OnlyCall, SameArguments
<1>2. \A u \in Threads : call[u].op = "reset" => call[u].arena \in Arenas
  BY DEF IInv, CallOK, CallConsistent, ReleaseOps
<1> QED
  BY <1>1, <1>2 DEF IInv, Lifecycles, ReleasedAlone, Releasing

(* A block is made, or the allocation fails.                                *)
LEMMA NewBlockKeeps ==
  ASSUME IInv, NEW t \in Threads, NewBlock(t)
  PROVE  IInv'
<1> DEFINE a == call[t].arena
           last == call[t].block
<1>0. /\ TypeOK /\ FieldsTyped /\ CallOK(t) /\ CallConsistent(t) /\ FullBlock(t) /\ Ordered
      /\ InitialBlocks /\ CacheValid /\ PositionsFit
      /\ call[t].pc = "new" /\ UNCHANGED <<lifecycle_id_generator, arena, thread_cache>>
  BY TypeOfFields DEF IInv, CallOK, NewBlock, At
<1>1. call[t].op = "allocate" /\ a \in Arenas /\ arena[a].alive /\ ~ Freed(a)
  BY <1>0, InUseWhileAllocating DEF CallConsistent, AllocateLabels
<1>2. Need(t) \in Nat /\ last \in Memory \union {NULL}
  BY <1>0, ArenaAssumption DEF Need, ChunkBytes, FieldsTyped
<1>3. PICK b \in HeapBlocks :
        /\ heap[b].arena = NULL
        /\ heap' = [heap EXCEPT ![b] = EmptyBlock(a, t, NewBlockSize(last, Need(t)), 0)]
        /\ GotoWith(t, "lock", b)
  BY DEF NewBlock
<1> DEFINE size == NewBlockSize(last, Need(t))
           new == EmptyBlock(a, t, size, 0)
<1>4. size \in Nat /\ size >= HeaderSize + Need(t)
  BY <1>0, <1>2, NewBlockSizeFits
<1> HIDE DEF size
<1>5. new \in BlockType /\ new.arena = a /\ new.owner = t /\ new.next = NULL /\ new.depth = 0
      /\ new.pos = HeaderSize /\ new.size = size
  <2>1. NoCleanup \in CleanupType
    <3>1. << >> \in Nodes
      BY DEF Nodes
    <3> QED
      BY <3>1 DEF NoCleanup, CleanupType
  <2> QED
    BY <1>1, <1>4, <2>1, Constants DEF EmptyBlock, BlockType
<1>6. heap' = [heap EXCEPT ![b] = new] /\ b \in Memory
  BY <1>3, Constants DEF size
<1> HIDE DEF new
<1>7. heap' \in [Memory -> BlockType] /\ heap'[b] = new /\ \A m \in Memory \ {b} : heap'[m] = heap[m]
  BY <1>0, <1>5, <1>6 DEF TypeOK
<1>8. /\ OnlyCall(t) /\ SameArguments(t) /\ call'[t].pc = "lock" /\ call'[t].block = b
      /\ call'[t].full = call[t].full /\ call'[t].chunk = call[t].chunk
  BY <1>0, <1>3, <1>6, GotoWithEffect DEF Labels
<1>9. TypeOK'
  BY <1>0, <1>7, <1>8 DEF TypeOK, OnlyCall
<1>10. \A m \in Memory : heap[m].arena # NULL => m # b /\ heap'[m] = heap[m]
  BY <1>3, <1>7
<1>11. \A c \in Arenas : ~ Freed(c) => Depth(arena[c].blocks)' = Depth(arena[c].blocks)
  BY <1>0, <1>10, HeadInArena, Constants DEF Depth
<1>12. ASSUME NEW u \in Threads \ {t} PROVE CallOK(u)'
  <2>1. CallOK(u) /\ CallConsistent(u) /\ call'[u] = call[u] /\ ReleasedAlone
    BY <1>8 DEF IInv, CallOK, OnlyCall
  <2>2. call[u].pc # "idle" => call[u].arena \in Arenas /\ arena[call[u].arena].alive
    BY <2>1 DEF CallConsistent
  <2>3. call[u].pc = "publish" => ~ Freed(call[u].arena)
    BY <2>1, InUseWhileAllocating DEF CallConsistent, AllocateLabels
  <2>4. call[u].pc = "free" => call[u].arena # a
    BY <1>1, InUseWhileAllocating
  <2> QED
    BY <1>0, <1>5, <1>7, <1>10, <1>11, <2>1, <2>2, <2>3, <2>4, Constants, OtherCallKept
<1>13. CallOK(t)'
  <2>1. /\ heap'[b].arena = a /\ heap'[b].owner = t /\ heap'[b].next = NULL /\ heap'[b].depth = 0
        /\ heap'[b].size - heap'[b].pos >= Need(t) /\ Need(t)' = Need(t)
    BY <1>2, <1>4, <1>5, <1>7, <1>8, Constants DEF Need, SameArguments
  <2>2. call[t].full # NULL =>
          call[t].full # b /\ heap'[call[t].full].arena = a /\ heap'[call[t].full].owner = t
    BY <1>0, <1>1, <1>10, Constants DEF FullBlock, FieldsTyped
  <2>3. call'[t].op = "allocate" /\ call'[t].arena = a
    BY <1>1, <1>8 DEF SameArguments
  <2>4. CallConsistent(t)' /\ PendingBlock(t)' /\ FreeProgress(t)' /\ FullBlock(t)' /\ OwnsBlock(t)'
    BY <1>0, <1>1, <1>6, <1>8, <2>1, <2>2, <2>3, Constants
       DEF CallConsistent, PendingBlock, FreeProgress, FullBlock, OwnsBlock, Owning, AllocateLabels, ReleaseOps
  <2>5. NeedFits(t)'
    BY <1>8, <2>1 DEF NeedFits, Avail
  <2> QED
    BY <2>4, <2>5 DEF CallOK
<1>14. Lifecycles' /\ ReleasedAlone' /\ \A c \in Arenas : Releasing(c)' => Releasing(c)
  BY <1>0, <1>8, LifecyclesKept
<1>15. InitialBlocks'
  BY <1>0, <1>1, <1>3, <1>5, <1>7, <1>10, Constants DEF InitialBlocks
<1>16. Ordered'
  <2>1. ASSUME NEW m \in Memory, heap'[m].arena # NULL PROVE Linked(m)'
    <3>1. CASE m = b
      BY <1>5, <1>7, <3>1, Constants DEF Linked
    <3>2. CASE m # b
      <4>1. heap'[m] = heap[m] /\ Linked(m) /\ heap[m].next \in Memory \union {NULL}
            /\ heap[m].arena # NULL
        BY <1>0, <1>7, <2>1, <3>2 DEF Ordered, FieldsTyped
      <4>2. heap[m].next # NULL => heap'[heap[m].next] = heap[heap[m].next]
        BY <1>10, <4>1 DEF Linked
      <4> QED
        BY <4>1, <4>2 DEF Linked
    <3> QED
      BY <3>1, <3>2
  <2>2. ASSUME NEW m \in Memory, NEW c \in Memory, heap'[m].arena = heap'[c].arena,
               heap'[m].depth = heap'[c].depth, heap'[m].depth > 0
        PROVE  heap'[m].arena = NULL \/ m = c
    <3>1. m # b /\ c # b
      BY <1>5, <1>7, <2>2
    <3> QED
      BY <1>0, <1>7, <2>2, <3>1 DEF Ordered
  <2> QED
    BY <2>1, <2>2 DEF Ordered
<1>17. \A c \in Arenas : Headed(c)'
  <2> SUFFICES ASSUME NEW c \in Arenas, ~ Freed(c)' PROVE Headed(c)'
    BY DEF Headed
  <2>1. ~ Freed(c) /\ Headed(c)
    BY <1>0, <1>8 DEF IInv, Freed, At, OnlyCall
  <2>2. \A u \in Threads, m \in Memory : Pending(u, m) => Pending(u, m)'
    BY <1>0, <1>8 DEF Pending, OnlyCall
  <2>3. Pending(t, b)'
    BY <1>8 DEF Pending
  <2>4. arena[c].blocks # NULL => heap'[arena[c].blocks] = heap[arena[c].blocks]
    BY <1>10, <2>1, HeadInArena, Constants
  <2> QED
    BY <1>0, <1>5, <1>7, <1>11, <2>1, <2>2, <2>3, <2>4 DEF Headed
<1>18. CacheValid'
  <2> SUFFICES ASSUME NEW c \in Arenas, arena[c].alive, ~ Releasing(c)'
               PROVE  /\ \A u \in Threads : thread_cache[u].id = arena[c].lifecycle_id =>
                           LET m == thread_cache[u].block
                           IN  m # NULL /\ heap'[m].arena = c /\ heap'[m].owner = u
                      /\ arena[c].hint # NULL => heap'[arena[c].hint].arena = c
    BY <1>0 DEF CacheValid
  <2>1. ~ Releasing(c) \/ \E u \in Threads : call[u].arena = c /\ call[u].op \in ReleaseOps
    BY DEF Releasing, ReleaseOps
  <2>2. ~ Releasing(c)
    BY <1>8 DEF Releasing, OnlyCall, SameArguments
  <2> QED
    BY <1>0, <1>10, <2>2, Constants DEF CacheValid, FieldsTyped
<1>19. PositionsFit'
  BY <1>0, <1>2, <1>4, <1>5, <1>7, Constants DEF PositionsFit
<1> QED
  BY <1>9, <1>12, <1>13, <1>14, <1>15, <1>16, <1>17, <1>18, <1>19 DEF IInv

(* A thread takes the lock of the list.                                     *)
LEMMA LockBlocksKeeps ==
  ASSUME IInv, NEW t \in Threads, LockBlocks(t)
  PROVE  IInv'
<1> DEFINE a == call[t].arena
           b == call[t].block
           d == 1 + Depth(arena[a].blocks)
<1>0. /\ TypeOK /\ FieldsTyped /\ CallOK(t) /\ CallConsistent(t) /\ FullBlock(t) /\ OwnsBlock(t)
      /\ PendingBlock(t) /\ NeedFits(t) /\ Ordered /\ InitialBlocks /\ CacheValid /\ PositionsFit
      /\ call[t].pc = "lock" /\ UNCHANGED <<lifecycle_id_generator, thread_cache>>
      /\ arena[a].lock = NULL
  BY TypeOfFields DEF IInv, CallOK, LockBlocks, At, LockFree
<1>1. /\ call[t].op = "allocate" /\ a \in Arenas /\ arena[a].alive /\ ~ Freed(a)
      /\ b \in Memory /\ heap[b].arena = a /\ heap[b].owner = t /\ heap[b].depth = 0
  BY <1>0, InUseWhileAllocating DEF CallConsistent, AllocateLabels, OwnsBlock, Owning, PendingBlock, FieldsTyped
<1>2. /\ arena[a].blocks \in Memory \union {NULL}
      /\ arena[a].blocks # NULL =>
           /\ heap[arena[a].blocks].arena = a /\ heap[arena[a].blocks].depth > 0
           /\ arena[a].blocks # b
      /\ d \in Nat /\ d > 0
  BY <1>0, <1>1 DEF IInv, Headed, FieldsTyped, Depth
<1>3. /\ arena' = [arena EXCEPT ![a].lock = t]
      /\ heap' = [heap EXCEPT ![b].next = arena[a].blocks, ![b].depth = d]
      /\ Goto(t, "publish")
  BY DEF LockBlocks
<1> HIDE DEF d
<1>4. /\ OnlyCall(t) /\ SameArguments(t) /\ call'[t].pc = "publish" /\ call'[t].block = b
      /\ call'[t].full = call[t].full /\ call'[t].chunk = call[t].chunk
  BY <1>0, <1>3, GotoEffect DEF Labels
<1>5. /\ heap' \in [Memory -> BlockType] /\ \A m \in Memory \ {b} : heap'[m] = heap[m]
      /\ heap'[b].arena = a /\ heap'[b].owner = t /\ heap'[b].next = arena[a].blocks
      /\ heap'[b].depth = d /\ heap'[b].pos = heap[b].pos /\ heap'[b].size = heap[b].size
  <2>1. heap[b] \in BlockType /\ heap'[b] = [heap[b] EXCEPT !.next = arena[a].blocks, !.depth = d]
        /\ \A m \in Memory \ {b} : heap'[m] = heap[m]
    BY <1>0, <1>1, <1>3 DEF TypeOK
  <2>2. heap'[b] \in BlockType
    BY <1>2, <2>1 DEF BlockType
  <2>3. heap' \in [Memory -> BlockType]
    <3>1. heap' = [m \in Memory |-> heap'[m]]
      BY <1>0, <1>3 DEF TypeOK
    <3>2. \A m \in Memory : heap'[m] \in BlockType
      BY <1>0, <2>1, <2>2 DEF TypeOK
    <3> QED
      BY <3>1, <3>2
  <2> QED
    BY <1>1, <2>1, <2>3 DEF BlockType
<1>6. /\ arena' \in [Arenas -> ArenaType] /\ \A c \in Arenas \ {a} : arena'[c] = arena[c]
      /\ arena'[a].alive = arena[a].alive /\ arena'[a].lifecycle_id = arena[a].lifecycle_id
      /\ arena'[a].blocks = arena[a].blocks /\ arena'[a].hint = arena[a].hint /\ arena'[a].lock = t
  <2>1. arena[a] \in ArenaType /\ arena'[a] = [arena[a] EXCEPT !.lock = t]
        /\ \A c \in Arenas \ {a} : arena'[c] = arena[c]
    BY <1>0, <1>1, <1>3 DEF TypeOK
  <2>2. arena'[a] \in ArenaType
    BY <2>1 DEF ArenaType
  <2> QED
    BY <1>0, <1>1, <1>3, <2>1, <2>2 DEF TypeOK, ArenaType
<1>7. TypeOK'
  BY <1>0, <1>4, <1>5, <1>6 DEF TypeOK, OnlyCall
<1>8. ASSUME NEW c \in Arenas, ~ Freed(c)
      PROVE  /\ arena'[c].blocks = arena[c].blocks /\ arena[c].blocks \in Memory \union {NULL}
             /\ arena[c].blocks # NULL =>
                  arena[c].blocks # b /\ heap'[arena[c].blocks] = heap[arena[c].blocks]
  <2>1. arena'[c].blocks = arena[c].blocks /\ arena[c].blocks \in Memory \union {NULL}
    BY <1>0, <1>6 DEF FieldsTyped
  <2>2. arena[c].blocks # NULL => arena[c].blocks # b
    BY <1>1, <1>2, <1>8, <2>1, HeadInArena
  <2> QED
    BY <1>5, <2>1, <2>2
<1>9. ASSUME NEW u \in Threads \ {t} PROVE CallOK(u)'
  <2>1. CallOK(u) /\ CallConsistent(u) /\ call'[u] = call[u] /\ PendingBlock(u)
    BY <1>4 DEF IInv, CallOK, OnlyCall
  <2>2. call[u].pc # "idle" => call[u].arena \in Arenas /\ arena'[call[u].arena].alive
    BY <1>6, <2>1 DEF CallConsistent
  <2>3. call[u].pc = "publish" => ~ Freed(call[u].arena) /\ call[u].arena # a
    BY <1>0, <2>1, Constants, InUseWhileAllocating DEF CallConsistent, AllocateLabels, PendingBlock
  <2>4. call[u].pc = "free" => call[u].arena # a
    BY <1>1, InUseWhileAllocating
  <2>5. call[u].pc = "publish" =>
          /\ arena'[call[u].arena].lock = arena[call[u].arena].lock
          /\ arena'[call[u].arena].blocks = arena[call[u].arena].blocks
          /\ Depth(arena[call[u].arena].blocks)' = Depth(arena[call[u].arena].blocks)
    BY <1>6, <1>8, <2>1, <2>2, <2>3 DEF Depth
  <2>6. \A m \in Memory : heap'[m].arena = heap[m].arena /\ heap'[m].owner = heap[m].owner
    BY <1>1, <1>5
  <2>7. call[u].pc # "idle" => arena'[call[u].arena].alive
    BY <2>2
  <2>8. \A m \in Memory : heap[m].arena = call[u].arena /\ call[u].pc # "idle" =>
            \/ /\ heap'[m].arena = heap[m].arena /\ heap'[m].owner = heap[m].owner
               /\ heap'[m].next = heap[m].next /\ heap'[m].depth = heap[m].depth
               /\ heap'[m].pos = heap[m].pos /\ heap'[m].size = heap[m].size
            \/ /\ heap'[m].arena = heap[m].arena /\ heap'[m].owner = heap[m].owner
               /\ heap[m].owner # u /\ call[u].pc # "free"
    BY <1>1, <1>5, <2>4, <2>6
  <2> QED
    BY <1>0, <2>1, <2>5, <2>6, <2>7, <2>8, OtherCallKept
<1>10. CallOK(t)'
  <2>1. heap'[b].size - heap'[b].pos >= Need(t)'
    BY <1>0, <1>4, <1>5 DEF NeedFits, Avail, Need, SameArguments
  <2>2. call[t].full # NULL =>
          call[t].full # b /\ heap'[call[t].full].arena = a /\ heap'[call[t].full].owner = t
    BY <1>0, <1>1, <1>5 DEF FullBlock, FieldsTyped
  <2>3. (IF arena'[a].blocks = NULL THEN 0 ELSE heap'[arena'[a].blocks].depth) = Depth(arena[a].blocks)
    BY <1>1, <1>8 DEF Depth
  <2>4. call'[t].op = "allocate" /\ call'[t].arena = a
    BY <1>1, <1>4 DEF SameArguments
  <2>5. PendingBlock(t)'
    BY <1>4, <1>5, <1>6, <2>3, <2>4 DEF PendingBlock, Depth, d
  <2>6. CallConsistent(t)' /\ FreeProgress(t)' /\ FullBlock(t)' /\ OwnsBlock(t)'
    BY <1>0, <1>1, <1>4, <1>5, <1>6, <2>2, <2>4, Constants
       DEF CallConsistent, FreeProgress, FullBlock, OwnsBlock, Owning, AllocateLabels, ReleaseOps
  <2>7. NeedFits(t)'
    BY <1>4, <2>1 DEF NeedFits, Avail
  <2> QED
    BY <2>5, <2>6, <2>7 DEF CallOK
<1>11. Lifecycles' /\ ReleasedAlone' /\ \A c \in Arenas : Releasing(c)' => Releasing(c)
  BY <1>0, <1>4, <1>6, LifecyclesKept
<1>12. InitialBlocks'
  <2>1. \A c \in Arenas : arena'[c].alive = arena[c].alive
    BY <1>6
  <2>2. ASSUME NEW c \in Arenas, InitialBlock[c] # NULL, arena[c].alive PROVE InitialBlock[c] # b
    BY <1>0, <1>1, <2>2 DEF InitialBlocks
  <2> QED
    BY <1>0, <1>1, <1>5, <2>1, <2>2, Constants DEF InitialBlocks
<1>13. Ordered'
  <2>1. ASSUME NEW m \in Memory, heap'[m].arena # NULL PROVE Linked(m)'
    <3>1. heap[m].arena # NULL /\ Linked(m) /\ heap[m].next \in Memory \union {NULL}
      BY <1>0, <1>1, <1>5, <2>1 DEF Ordered, FieldsTyped
    <3>2. CASE m = b
      <4>1. arena[a].blocks # NULL => heap'[arena[a].blocks] = heap[arena[a].blocks]
        BY <1>2, <1>5
      <4>2. d = 1 + Depth(arena[a].blocks) /\ heap[b].pos >= HeaderSize
        BY <3>1, <3>2 DEF d, Linked
      <4>3. arena[a].blocks = NULL => d = 1
        BY <4>2 DEF Depth
      <4>4. arena[a].blocks # NULL => d = 1 + heap[arena[a].blocks].depth /\ heap[arena[a].blocks].depth \in Nat
        BY <1>0, <1>2, <4>2 DEF Depth, FieldsTyped
      <4> QED
        BY <1>2, <1>5, <3>2, <4>1, <4>2, <4>3, <4>4 DEF Linked
    <3>3. CASE m # b
      <4>1. heap'[m] = heap[m] /\ heap[m].next # b
        BY <1>1, <1>5, <3>1, <3>3, Constants DEF Linked
      <4>2. heap[m].next # NULL => heap'[heap[m].next] = heap[heap[m].next]
        BY <1>5, <3>1, <4>1
      <4> QED
        BY <3>1, <4>1, <4>2 DEF Linked
    <3> QED
      BY <3>2, <3>3
  <2>2. ASSUME NEW m \in Memory, m # b, heap[m].arena = a PROVE heap[m].depth # d
    <3>1. Headed(a) /\ heap[m].depth \in Nat /\ Depth(arena[a].blocks) \in Nat
      BY <1>0, <1>1, <1>2 DEF IInv, FieldsTyped, Depth
    <3>2. ASSUME NEW u \in Threads, Pending(u, m) PROVE heap[m].depth # d
      <4>1. CallConsistent(u) /\ PendingBlock(u) /\ OwnsBlock(u)
        BY DEF IInv, CallOK
      <4>2. u # t /\ call[u].arena = a
        BY <1>1, <2>2, <3>2, <4>1, Constants DEF Pending, OwnsBlock
      <4>3. call[u].pc # "publish"
        BY <1>0, <4>1, <4>2, Constants DEF PendingBlock
      <4> QED
        BY <1>2, <3>2, <4>1, <4>3 DEF Pending, PendingBlock
    <3> QED
      BY <1>1, <1>2, <2>2, <3>1, <3>2 DEF Headed, d
  <2>3. ASSUME NEW m \in Memory, NEW c \in Memory, heap'[m].arena = heap'[c].arena,
               heap'[m].depth = heap'[c].depth, heap'[m].depth > 0
        PROVE  heap'[m].arena = NULL \/ m = c
    <3>1. CASE m # b /\ c # b
      BY <1>0, <1>5, <2>3, <3>1 DEF Ordered
    <3>2. CASE m = b \/ c = b
      BY <1>1, <1>5, <2>2, <2>3, <3>2
    <3> QED
      BY <3>1, <3>2
  <2> QED
    BY <2>1, <2>3 DEF Ordered
<1>14. \A c \in Arenas : Headed(c)'
  <2> SUFFICES ASSUME NEW c \in Arenas, ~ Freed(c)' PROVE Headed(c)'
    BY DEF Headed
  <2>1. ~ Freed(c) /\ Headed(c)
    BY <1>0, <1>4 DEF IInv, Freed, At, OnlyCall
  <2>2. \A u \in Threads, m \in Memory : Pending(u, m) => Pending(u, m)'
    BY <1>0, <1>4 DEF Pending, OnlyCall
  <2>3. (\A m \in Memory : m = b => Pending(t, m)') /\ arena'[c].blocks = arena[c].blocks
    BY <1>4, <1>6 DEF Pending
  <2>4. arena[c].blocks # NULL =>
          heap'[arena[c].blocks].arena = c /\ heap'[arena[c].blocks].depth > 0
    <3>1. arena[c].blocks \in Memory \union {NULL}
      BY <1>0 DEF FieldsTyped
    <3> QED
      BY <1>1, <1>5, <2>1, <3>1 DEF Headed
  <2>5. \A m \in Memory \ {b} : heap'[m].arena = c =>
          (heap'[m].depth > 0 /\ heap'[m].depth <= Depth(arena[c].blocks)) \/ \E u \in Threads : Pending(u, m)
    BY <1>5, <2>1 DEF Headed
  <2>6. Depth(arena[c].blocks)' = Depth(arena[c].blocks)
    BY <1>8, <2>1 DEF Depth
  <2>7. ASSUME NEW m \in Memory, heap'[m].arena = c
        PROVE  \/ heap'[m].depth > 0 /\ heap'[m].depth <= Depth(arena[c].blocks)
               \/ \E u \in Threads : Pending(u, m)'
    BY <2>2, <2>3, <2>5, <2>7
  <2> QED
    BY <2>3, <2>4, <2>6, <2>7 DEF Headed
<1>15. CacheValid'
  <2> SUFFICES ASSUME NEW c \in Arenas, arena'[c].alive, ~ Releasing(c)'
               PROVE  /\ \A u \in Threads : thread_cache[u].id = arena'[c].lifecycle_id =>
                           LET m == thread_cache[u].block
                           IN  m # NULL /\ heap'[m].arena = c /\ heap'[m].owner = u
                      /\ arena'[c].hint # NULL => heap'[arena'[c].hint].arena = c
    BY <1>0 DEF CacheValid
  <2>1. ~ Releasing(c) /\ arena[c].alive
    BY <1>4, <1>6 DEF Releasing, OnlyCall, SameArguments
  <2>2. \A m \in Memory : heap'[m].arena = heap[m].arena /\ heap'[m].owner = heap[m].owner
    BY <1>1, <1>5
  <2>3. arena'[c].lifecycle_id = arena[c].lifecycle_id /\ arena'[c].hint = arena[c].hint
    BY <1>6
  <2> QED
    BY <1>0, <2>1, <2>2, <2>3 DEF CacheValid, FieldsTyped
<1>16. PositionsFit'
  BY <1>0, <1>1, <1>5 DEF PositionsFit
<1> QED
  BY <1>7, <1>9, <1>10, <1>11, <1>12, <1>13, <1>14, <1>15, <1>16 DEF IInv

(* The new block is put at the head of the list.                            *)
LEMMA PublishBlockKeeps ==
  ASSUME IInv, NEW t \in Threads, PublishBlock(t)
  PROVE  IInv'
<1> DEFINE a == call[t].arena
           b == call[t].block
           space == arena[a].space_allocated + heap[b].size
<1>0. /\ TypeOK /\ FieldsTyped /\ CallOK(t) /\ CallConsistent(t) /\ FullBlock(t) /\ OwnsBlock(t)
      /\ PendingBlock(t) /\ NeedFits(t) /\ Ordered /\ InitialBlocks /\ CacheValid /\ PositionsFit
      /\ call[t].pc = "publish" /\ UNCHANGED <<lifecycle_id_generator, heap, thread_cache>>
  BY TypeOfFields DEF IInv, CallOK, PublishBlock, At
<1>1. /\ call[t].op = "allocate" /\ a \in Arenas /\ arena[a].alive /\ ~ Freed(a)
      /\ b \in Memory /\ heap[b].arena = a /\ heap[b].owner = t
      /\ heap[b].depth = 1 + Depth(arena[a].blocks) /\ arena[a].lock = t
  BY <1>0, InUseWhileAllocating DEF CallConsistent, AllocateLabels, OwnsBlock, Owning, PendingBlock, FieldsTyped
<1>2. space \in Nat /\ Depth(arena[a].blocks) \in Nat
  BY <1>0, <1>1 DEF TypeOK, ArenaType, FieldsTyped, Depth
<1>3. /\ arena' = [arena EXCEPT ![a].blocks = b, ![a].space_allocated = space, ![a].lock = NULL]
      /\ Goto(t, "cache")
  BY DEF PublishBlock
<1> HIDE DEF space
<1>4. /\ OnlyCall(t) /\ SameArguments(t) /\ call'[t].pc = "cache" /\ call'[t].block = b
      /\ call'[t].full = call[t].full /\ call'[t].chunk = call[t].chunk
  BY <1>0, <1>3, GotoEffect DEF Labels
<1>5. /\ arena' \in [Arenas -> ArenaType] /\ \A c \in Arenas \ {a} : arena'[c] = arena[c]
      /\ arena'[a].alive = arena[a].alive /\ arena'[a].lifecycle_id = arena[a].lifecycle_id
      /\ arena'[a].blocks = b /\ arena'[a].hint = arena[a].hint
  <2>1. /\ arena[a] \in ArenaType
        /\ arena'[a] = [arena[a] EXCEPT !.blocks = b, !.space_allocated = space, !.lock = NULL]
        /\ \A c \in Arenas \ {a} : arena'[c] = arena[c]
    BY <1>0, <1>1, <1>3 DEF TypeOK
  <2> DEFINE r == arena[a]
  <2>4. arena'[a] = [alive |-> r.alive, lifecycle_id |-> r.lifecycle_id, blocks |-> b, hint |-> r.hint,
                     space_allocated |-> space, lock |-> NULL, registered |-> r.registered, ran |-> r.ran]
    BY <2>1 DEF ArenaType
  <2>5. /\ r.alive \in BOOLEAN /\ r.lifecycle_id \in Int /\ r.hint \in Memory \union {NULL}
        /\ r.registered \in [Threads -> Nat] /\ r.ran \in Nodes
    BY <2>1 DEF ArenaType
  <2>6. b \in Memory \union {NULL} /\ space \in Nat /\ NULL \in Threads \union {NULL}
    BY <1>1, <1>2
  <2>2. arena'[a] \in ArenaType
    BY <2>4, <2>5, <2>6 DEF ArenaType
  <2>3. arena' \in [Arenas -> ArenaType]
    <3>1. arena' = [c \in Arenas |-> arena'[c]]
      BY <1>0, <1>3 DEF TypeOK
    <3>2. \A c \in Arenas : arena'[c] \in ArenaType
      BY <1>0, <2>1, <2>2 DEF TypeOK
    <3> QED
      BY <3>1, <3>2
  <2> QED
    BY <2>1, <2>3, <2>4
<1>6. TypeOK'
  BY <1>0, <1>4, <1>5 DEF TypeOK, OnlyCall
<1>7. ASSUME NEW u \in Threads \ {t} PROVE CallOK(u)'
  <2>1. CallOK(u) /\ CallConsistent(u) /\ call'[u] = call[u] /\ PendingBlock(u)
    BY <1>4 DEF IInv, CallOK, OnlyCall
  <2>2. call[u].pc # "idle" => call[u].arena \in Arenas /\ arena'[call[u].arena].alive
    BY <1>5, <2>1 DEF CallConsistent
  <2>3. call[u].pc = "publish" => call[u].arena # a
    BY <1>1, <2>1 DEF PendingBlock
  <2>4. call[u].pc = "publish" => arena'[call[u].arena] = arena[call[u].arena]
    BY <1>5, <2>2, <2>3
  <2>5. call[u].pc = "publish" =>
          Depth(arena[call[u].arena].blocks)' = Depth(arena[call[u].arena].blocks)
    BY <1>0, <2>1, <2>4 DEF Depth
  <2> QED
    BY <1>0, <2>1, <2>2, <2>4, <2>5, OtherCallKept
<1>8. CallOK(t)'
  <2>1. call'[t].op = "allocate" /\ call'[t].arena = a /\ arena'[a].alive /\ heap' = heap
    BY <1>0, <1>1, <1>4, <1>5 DEF SameArguments
  <2>2. CallConsistent(t)' /\ PendingBlock(t)' /\ FreeProgress(t)' /\ FullBlock(t)' /\ OwnsBlock(t)'
    BY <1>0, <1>1, <1>4, <2>1, Constants
       DEF CallConsistent, PendingBlock, FreeProgress, FullBlock, OwnsBlock, Owning, AllocateLabels, ReleaseOps
  <2>3. NeedFits(t)'
    BY <1>0, <1>4, <2>1 DEF NeedFits, Avail, Need, SameArguments
  <2> QED
    BY <2>2, <2>3 DEF CallOK
<1>9. Lifecycles' /\ ReleasedAlone' /\ \A c \in Arenas : Releasing(c)' => Releasing(c)
  BY <1>0, <1>4, <1>5, LifecyclesKept
<1>10. InitialBlocks' /\ Ordered' /\ PositionsFit'
  <2>1. \A c \in Arenas : arena'[c].alive = arena[c].alive
    BY <1>5
  <2> QED
    BY <1>0, <2>1 DEF InitialBlocks, Ordered, Linked, PositionsFit
<1>11. \A c \in Arenas : Headed(c)'
  <2> SUFFICES ASSUME NEW c \in Arenas, ~ Freed(c)' PROVE Headed(c)'
    BY DEF Headed
  <2>1. ~ Freed(c) /\ Headed(c)
    BY <1>0, <1>4 DEF IInv, Freed, At, OnlyCall
  <2>2. \A u \in Threads \ {t}, m \in Memory : Pending(u, m) => Pending(u, m)'
    BY <1>4 DEF Pending, OnlyCall
  <2>3. \A m \in Memory : Pending(t, m) => m = b
    BY DEF Pending
  <2>4. CASE c = a
    <3>1. \A m : Depth(m)' = Depth(m)
      BY <1>0 DEF Depth
    <3>2. (IF arena'[a].blocks = NULL THEN 0 ELSE heap'[arena'[a].blocks].depth) = 1 + Depth(arena[a].blocks)
      BY <1>0, <1>1, <1>5, Constants
    <3>3. ASSUME NEW m \in Memory, heap[m].arena = a
          PROVE  \/ heap[m].depth > 0 /\ heap[m].depth <= 1 + Depth(arena[a].blocks)
                 \/ \E u \in Threads : Pending(u, m)'
      <4>1. CASE m = b
        BY <1>1, <1>2, <4>1
      <4>2. CASE m # b
        <5>1. heap[m].depth \in Nat
          BY <1>0 DEF FieldsTyped
        <5> QED
          BY <1>2, <2>1, <2>2, <2>3, <2>4, <3>3, <4>2, <5>1 DEF Headed
      <4> QED
        BY <4>1, <4>2
    <3>4. arena'[a].blocks = b /\ heap' = heap /\ b # NULL /\ heap[b].depth > 0
      BY <1>0, <1>1, <1>2, <1>5, Constants
    <3> QED
      BY <1>1, <2>4, <3>3, <3>4 DEF Headed, Depth
  <2>5. CASE c # a
    <3>1. arena'[c] = arena[c] /\ heap' = heap
      BY <1>0, <1>5, <2>5
    <3>2. \A m \in Memory : heap[m].arena = c => m # b
      BY <1>1, <2>5
    <3> QED
      BY <2>1, <2>2, <2>3, <3>1, <3>2 DEF Headed, Depth
  <2> QED
    BY <2>4, <2>5
<1>12. CacheValid'
  <2>1. \A c \in Arenas : arena'[c].alive = arena[c].alive
          /\ arena'[c].lifecycle_id = arena[c].lifecycle_id /\ arena'[c].hint = arena[c].hint
    BY <1>5
  <2>2. \A c \in Arenas : Releasing(c) => Releasing(c)'
    BY <1>4 DEF Releasing, OnlyCall, SameArguments
  <2> QED
    BY <1>0, <2>1, <2>2 DEF CacheValid
<1> QED
  BY <1>6, <1>7, <1>8, <1>9, <1>10, <1>11, <1>12 DEF IInv

(* A new lifecycle id, so that no cache matches.                             *)
LEMMA ResetKeeps ==
  ASSUME IInv, NEW t \in Threads, NEW a \in Arenas, Reset(t, a)
  PROVE  IInv'
<1> DEFINE c == [NoCall EXCEPT
      !.pc = "cleanup", !.arena = a, !.op = "reset", !.block = arena[a].blocks]
<1>0. /\ TypeOK /\ FieldsTyped /\ ReleasedAlone /\ InitialBlocks /\ Ordered /\ Lifecycles /\ CacheValid
      /\ PositionsFit /\ \A u \in Threads : CallOK(u) /\ CallConsistent(u) /\ call[u].arena # a
      /\ call[t].pc = "idle" /\ arena[a].alive /\ UNCHANGED <<heap, thread_cache>>
      /\ lifecycle_id_generator \in Nat /\ lifecycle_id_generator' = lifecycle_id_generator + 1
      /\ arena' = [arena EXCEPT ![a].lifecycle_id = lifecycle_id_generator]
      /\ call' = [call EXCEPT ![t] = c]
  BY TypeOfFields DEF IInv, TypeOK, CallOK, Reset, Idle, Unused, Release
<1>1. ~ Freed(a)
  BY <1>0 DEF Freed
<1>2. /\ c \in CallType /\ c.arena = a /\ c.full = NULL /\ c.chunk = 0 /\ c.block = arena[a].blocks
      /\ c.pc = "cleanup" /\ c.op = "reset"
  <2>1. arena[a].blocks \in Memory \union {NULL}
    BY <1>1, HeadInArena
  <2> QED
    BY <2>1, NoCallType DEF CallType, Labels
<1> HIDE DEF c
<1>3. OnlyCall(t) /\ call'[t] = c
  BY <1>0, <1>2 DEF TypeOK, OnlyCall
<1>4. /\ arena' \in [Arenas -> ArenaType] /\ \A d \in Arenas \ {a} : arena'[d] = arena[d]
      /\ arena'[a].lifecycle_id = lifecycle_id_generator
      /\ \A d \in Arenas :
           /\ arena'[d].alive = arena[d].alive /\ arena'[d].lock = arena[d].lock
           /\ arena'[d].blocks = arena[d].blocks /\ arena'[d].hint = arena[d].hint
  <2>1. arena[a] \in ArenaType /\ arena'[a] = [arena[a] EXCEPT !.lifecycle_id = lifecycle_id_generator]
        /\ \A d \in Arenas \ {a} : arena'[d] = arena[d]
    BY <1>0 DEF TypeOK
  <2>2. arena'[a] \in ArenaType
    BY <1>0, <2>1 DEF ArenaType
  <2>3. arena' \in [Arenas -> ArenaType]
    BY <1>0, <2>1, <2>2 DEF TypeOK
  <2> QED
    BY <2>1, <2>3 DEF ArenaType
<1>5. TypeOK'
  BY <1>0, <1>3, <1>4 DEF TypeOK, OnlyCall
<1>6. \A m : Depth(m)' = Depth(m)
  BY <1>0 DEF Depth
<1>7. ASSUME NEW u \in Threads \ {t} PROVE CallOK(u)'
  <2>1. CallOK(u) /\ CallConsistent(u) /\ call'[u] = call[u]
    BY <1>0, <1>3 DEF OnlyCall
  <2>2. call[u].pc # "idle" => call[u].arena \in Arenas /\ arena'[call[u].arena].alive
    BY <1>4, <2>1 DEF CallConsistent
  <2>3. call[u].pc = "publish" =>
          Depth(arena[call[u].arena].blocks)' = Depth(arena[call[u].arena].blocks)
    BY <1>0, <1>4, <2>1, <2>2 DEF Depth
  <2> QED
    BY <1>0, <1>4, <2>1, <2>2, <2>3, OtherCallKept
<1>8. CallOK(t)'
  <2>1. arena[a].blocks # NULL => heap[arena[a].blocks].arena = a
    BY <1>1, HeadInArena
  <2> QED
    BY <1>0, <1>2, <1>3, <1>4, <2>1
       DEF CallOK, CallConsistent, PendingBlock, FreeProgress, FullBlock, OwnsBlock, Owning,
           NeedFits, AllocateLabels, ReleaseOps
<1>9. ReleasedAlone'
  BY <1>0, <1>2, <1>3 DEF ReleasedAlone, OnlyCall
<1>10. InitialBlocks' /\ Ordered' /\ PositionsFit'
  BY <1>0, <1>4 DEF InitialBlocks, Ordered, Linked, PositionsFit
<1>11. \A d \in Arenas : Headed(d)'
  <2> SUFFICES ASSUME NEW d \in Arenas, ~ Freed(d)' PROVE Headed(d)'
    BY DEF Headed
  <2>1. ~ Freed(d) /\ Headed(d)
    BY <1>0, <1>3 DEF IInv, Freed, At, OnlyCall
  <2>2. \A u \in Threads, m \in Memory : Pending(u, m) => Pending(u, m)'
    BY <1>0, <1>3 DEF Pending, OnlyCall
  <2>3. Depth(arena[d].blocks)' = Depth(arena[d].blocks)
    BY <1>0, <1>4 DEF Depth
  <2> QED
    BY <1>0, <1>4, <2>1, <2>2, <2>3 DEF Headed
<1>12. Lifecycles'
  <2>1. ASSUME NEW u \in Threads, call'[u].op = "reset", u # t
        PROVE  call[u].op = "reset" /\ call'[u].arena \in Arenas \ {a} /\ call'[u].arena = call[u].arena
    BY <1>0, <1>3, <2>1 DEF OnlyCall, CallConsistent, ReleaseOps
  <2>2. \A d \in Arenas : arena[d].lifecycle_id \in Int /\ arena[d].lifecycle_id < lifecycle_id_generator
    BY <1>0 DEF Lifecycles, FieldsTyped
  <2>3. \A u \in Threads : thread_cache[u].id \in Int /\ thread_cache[u].id < lifecycle_id_generator
    BY <1>0 DEF Lifecycles, FieldsTyped
  <2>4. \A u, v \in Threads : call'[u].op = "reset" =>
          thread_cache[v].id # arena'[call'[u].arena].lifecycle_id
    BY <1>0, <1>2, <1>3, <1>4, <2>1, <2>3 DEF Lifecycles
  <2> QED
    BY <1>0, <1>4, <2>2, <2>3, <2>4 DEF Lifecycles
<1>13. CacheValid'
  <2> SUFFICES ASSUME NEW d \in Arenas, arena'[d].alive, ~ Releasing(d)'
               PROVE  /\ \A u \in Threads : thread_cache[u].id = arena'[d].lifecycle_id =>
                           LET m == thread_cache[u].block
                           IN  m # NULL /\ heap[m].arena = d /\ heap[m].owner = u
                      /\ arena'[d].hint # NULL => heap[arena'[d].hint].arena = d
    BY <1>0 DEF CacheValid
  <2>1. d # a /\ ~ Releasing(d)
    BY <1>0, <1>2, <1>3 DEF Releasing, OnlyCall, NoCall, CallConsistent
  <2> QED
    BY <1>0, <1>4, <2>1 DEF CacheValid
<1> QED
  BY <1>5, <1>7, <1>8, <1>9, <1>10, <1>11, <1>12, <1>13 DEF IInv

(* FreeBlocks keeps the last block: the user's. *)
LEMMA KeepInitialBlock ==
  ASSUME IInv, NEW t \in Threads, At(t, "free"), call[t].block # NULL,
         heap[call[t].block].next = NULL, InitialBlock[call[t].arena] # NULL,
         call' = [call EXCEPT ![t].block = NULL, ![t].full = call[t].block],
         UNCHANGED <<lifecycle_id_generator, arena, heap, thread_cache>>
  PROVE  IInv'
<1> DEFINE a == call[t].arena
           b == call[t].block
<1>0. /\ TypeOK /\ FieldsTyped /\ CallOK(t) /\ CallConsistent(t) /\ OwnsBlock(t) /\ FreeProgress(t)
      /\ InitialBlocks /\ Ordered /\ call[t].pc = "free"
  BY TypeOfFields DEF IInv, CallOK, At
<1>1. a \in Arenas /\ arena[a].alive /\ b \in Memory /\ heap[b].arena = a /\ call[t].op \in ReleaseOps
  BY <1>0 DEF CallConsistent, OwnsBlock, FieldsTyped
<1>2. heap[b].depth = 1
  BY <1>0, <1>1, Constants DEF FreeProgress, Ordered, Linked
<1>3. b = InitialBlock[a]
  BY <1>0, <1>1, <1>2, Constants DEF InitialBlocks, Ordered
<1>4. \A m \in Memory : heap[m].arena = a => m = b
  <2> SUFFICES ASSUME NEW m \in Memory, heap[m].arena = a PROVE m = b
    OBVIOUS
  <2>1. heap[m].depth > 0 /\ heap[m].depth \in Nat /\ (heap[m].depth <= heap[b].depth \/ m = call[t].full)
    BY <1>0, <1>1, Constants DEF FreeProgress, Depth, FieldsTyped
  <2>2. CASE heap[m].depth <= 1
    BY <1>0, <1>1, <1>2, <2>1, <2>2, Constants DEF Ordered
  <2>3. CASE m = call[t].full
    BY <1>0, <1>3, <2>3, Constants DEF FreeProgress
  <2> QED
    BY <1>2, <2>1, <2>2, <2>3
<1>5. /\ OnlyCall(t) /\ SameArguments(t) /\ call'[t].pc = "free" /\ call'[t].block = NULL
      /\ call'[t].full = b /\ call'[t].chunk = call[t].chunk
  <2>1. PICK r \in CallType : r = call[t]
    BY <1>0 DEF TypeOK
  <2>2. PICK m \in Memory : m = b
    BY <1>1
  <2>3. call'[t] = [r EXCEPT !.block = NULL, !.full = m]
    BY <1>0, <2>1, <2>2 DEF TypeOK
  <2>4. [r EXCEPT !.block = NULL, !.full = m] \in CallType
    BY DEF CallType
  <2>5. /\ call'[t].pc = r.pc /\ call'[t].arena = r.arena /\ call'[t].op = r.op /\ call'[t].n = r.n
        /\ call'[t].cleanup = r.cleanup /\ call'[t].chunk = r.chunk
        /\ call'[t].block = NULL /\ call'[t].full = m
    <3> DEFINE e == [r EXCEPT !.block = NULL, !.full = m]
    <3>1. /\ e.pc = r.pc /\ e.arena = r.arena /\ e.op = r.op /\ e.n = r.n
          /\ e.cleanup = r.cleanup /\ e.chunk = r.chunk /\ e.block = NULL /\ e.full = m
      BY <2>1 DEF CallType
    <3> HIDE DEF e
    <3> QED
      BY <2>3, <3>1 DEF e
  <2> QED
    BY <1>0, <2>1, <2>2, <2>3, <2>4, <2>5 DEF TypeOK, OnlyCall, SameArguments
<1>6. CallOK(t)'
  <2>1. FreeProgress(t)'
    BY <1>0, <1>1, <1>2, <1>3, <1>4, <1>5 DEF FreeProgress, SameArguments
  <2> QED
    BY <1>0, <1>1, <1>5, <2>1
       DEF SameArguments, CallOK, CallConsistent, PendingBlock, FullBlock, OwnsBlock, Owning,
           NeedFits, AllocateLabels, ReleaseOps
<1> QED
  BY <1>0, <1>5, <1>6, CallOnlyKeeps DEF SameArguments

(* FreeBlocks frees the deepest block that is left.                          *)
LEMMA FreeBlockKeeps ==
  ASSUME IInv, NEW t \in Threads, At(t, "free"), call[t].block # NULL,
         heap[call[t].block].next # NULL \/ InitialBlock[call[t].arena] = NULL,
         GotoWith(t, "free", heap[call[t].block].next),
         heap' = [heap EXCEPT ![call[t].block] = FreeBlock],
         UNCHANGED <<lifecycle_id_generator, arena, thread_cache>>
  PROVE  IInv'
<1> DEFINE a == call[t].arena
<1>0. /\ TypeOK /\ FieldsTyped /\ CallOK(t) /\ CallConsistent(t) /\ OwnsBlock(t) /\ FreeProgress(t)
      /\ InitialBlocks /\ Ordered /\ CacheValid /\ PositionsFit /\ ReleasedAlone
      /\ call[t].pc = "free"
  BY TypeOfFields DEF IInv, CallOK, At
<1>1. PICK b \in Memory :
        b = call[t].block /\ heap[b].arena = a /\ heap' = [heap EXCEPT ![b] = FreeBlock]
  BY <1>0 DEF OwnsBlock, FieldsTyped
<1>2. a \in Arenas /\ arena[a].alive /\ call[t].op \in ReleaseOps
  BY <1>0 DEF CallConsistent
<1>3. \A u \in Threads \ {t} : call[u].arena # a
  BY <1>0, <1>2 DEF ReleasedAlone
<1>4. /\ Linked(b) /\ heap[b].next \in Memory \union {NULL} /\ heap[b].depth \in Nat /\ heap[b].depth > 0
      /\ heap[b].next # NULL => heap[heap[b].next].arena = a
  BY <1>0, <1>1, <1>2, Constants DEF Ordered, Linked, FieldsTyped, FreeProgress
<1>5. heap' \in [Memory -> BlockType] /\ heap'[b] = FreeBlock /\ FreeBlock.arena = NULL
      /\ FreeBlock.pos = FreeBlock.size /\ \A m \in Memory \ {b} : heap'[m] = heap[m]
  <2>1. NoCleanup \in CleanupType
    <3>1. << >> \in Nodes
      BY DEF Nodes
    <3> QED
      BY <3>1 DEF NoCleanup, CleanupType
  <2>2. FreeBlock \in BlockType
    BY <2>1 DEF FreeBlock, BlockType
  <2> QED
    BY <1>0, <1>1, <2>2 DEF TypeOK, FreeBlock
<1>6. /\ OnlyCall(t) /\ SameArguments(t) /\ call'[t].pc = "free" /\ call'[t].block = heap[b].next
      /\ call'[t].full = call[t].full /\ call'[t].chunk = call[t].chunk
  BY <1>0, <1>1, <1>4, GotoWithEffect DEF Labels
<1>7. TypeOK'
  BY <1>0, <1>5, <1>6 DEF TypeOK, OnlyCall
<1>8. \A m \in Memory : heap[m].arena \notin {NULL, a} => m # b /\ heap'[m] = heap[m]
  BY <1>1, <1>5
<1>9. b # InitialBlock[a] /\ b # call[t].full
  <2>1. b # InitialBlock[a]
    BY <1>0, <1>1, <1>2, <1>4, Constants DEF InitialBlocks, Linked
  <2> QED
    BY <1>0, <1>1, <2>1, Constants DEF FreeProgress
<1>10. \A m \in Memory : heap[m].arena = a /\ m # b /\ m # call[t].full =>
         heap[m].depth > 0 /\ heap[m].depth < heap[b].depth
  <2> SUFFICES ASSUME NEW m \in Memory, heap[m].arena = a, m # b, m # call[t].full
               PROVE  heap[m].depth > 0 /\ heap[m].depth < heap[b].depth
    OBVIOUS
  <2>1. heap[m].depth \in Nat /\ heap[b].depth \in Nat /\ Depth(call[t].block) = heap[b].depth
    BY <1>0, <1>1 DEF FieldsTyped, Depth
  <2>2. heap[m].depth > 0 /\ heap[m].depth <= heap[b].depth
    BY <1>0, <2>1 DEF FreeProgress
  <2>3. heap[m].depth # heap[b].depth
    BY <1>0, <1>1, <1>2, <2>2, Constants DEF Ordered
  <2> QED
    BY <2>1, <2>2, <2>3
<1>11. call[t].full # NULL => heap[call[t].full].next = NULL
  BY <1>0, <1>1, <1>2, Constants DEF FreeProgress, InitialBlocks, Ordered, Linked, FieldsTyped
<1>12. \A m \in Memory : heap[m].arena = a => heap[m].next # b
  <2> SUFFICES ASSUME NEW m \in Memory, heap[m].arena = a, heap[m].next = b PROVE FALSE
    OBVIOUS
  <2>1. Linked(m) /\ b # NULL /\ heap[m].depth \in Nat
    BY <1>0, <1>2, Constants DEF Ordered, FieldsTyped
  <2>2. heap[m].depth = heap[b].depth + 1
    BY <2>1 DEF Linked
  <2>3. m # call[t].full
    BY <1>11, <2>1, Constants
  <2> QED
    BY <1>4, <1>10, <2>1, <2>2, <2>3
<1>13. ASSUME NEW u \in Threads \ {t} PROVE CallOK(u)'
  <2>1. CallOK(u) /\ CallConsistent(u) /\ call'[u] = call[u]
    BY <1>6 DEF IInv, CallOK, OnlyCall
  <2>2. call[u].pc # "idle" => call[u].arena \in Arenas /\ arena[call[u].arena].alive /\ call[u].arena # a
    BY <1>3, <2>1 DEF CallConsistent
  <2>3. call[u].pc = "publish" => ~ Freed(call[u].arena)
    BY <2>1, InUseWhileAllocating DEF CallConsistent, AllocateLabels
  <2>4. call[u].pc = "publish" =>
          Depth(arena[call[u].arena].blocks)' = Depth(arena[call[u].arena].blocks)
    BY <1>0, <1>8, <2>1, <2>2, <2>3, HeadInArena, Constants DEF Depth
  <2>5. \A m \in Memory : heap[m].arena = call[u].arena /\ call[u].pc # "idle" => heap'[m] = heap[m]
    BY <1>8, <2>2, Constants
  <2>6. \A m \in Memory : heap'[m].arena # NULL => heap'[m] = heap[m]
    BY <1>5
  <2> QED
    BY <1>0, <2>1, <2>2, <2>4, <2>5, <2>6, Constants, OtherCallKept
<1>14. CallOK(t)'
  <2>1. heap[b].next # NULL => heap'[heap[b].next] = heap[heap[b].next]
                               /\ heap[heap[b].next].depth + 1 = heap[b].depth
    BY <1>1, <1>4, <1>5 DEF Linked
  <2>2. heap[b].next = NULL => heap[b].depth = 1
    BY <1>4 DEF Linked
  <2>3. call'[t].arena = a /\ call'[t].op = call[t].op
    BY <1>6 DEF SameArguments
  <2>4. ASSUME NEW m \in Memory, heap'[m].arena = a
        PROVE  /\ heap'[m].depth > 0
               /\ \/ heap'[m].depth <= IF heap[b].next = NULL THEN 0 ELSE heap'[heap[b].next].depth
                  \/ m = call[t].full
    <3>1. m # b /\ heap'[m] = heap[m] /\ heap[m].arena = a /\ heap[m].depth \in Nat
      BY <1>0, <1>2, <1>5, <2>4, Constants DEF FieldsTyped
    <3>2. heap[m].depth > 0
      BY <1>0, <3>1 DEF FreeProgress
    <3>3. heap[b].next # NULL => heap[heap[b].next].depth \in Nat
      BY <1>0, <1>4 DEF FieldsTyped
    <3> QED
      BY <1>4, <1>10, <2>1, <2>2, <3>1, <3>2, <3>3
  <2>5. FreeProgress(t)'
    BY <1>0, <1>6, <2>3, <2>4 DEF FreeProgress, Depth
  <2>6. CallConsistent(t)' /\ PendingBlock(t)' /\ FullBlock(t)' /\ OwnsBlock(t)' /\ NeedFits(t)'
    BY <1>0, <1>2, <1>4, <1>6, <2>1, <2>3
       DEF CallConsistent, PendingBlock, FullBlock, OwnsBlock, Owning, NeedFits, AllocateLabels, ReleaseOps
  <2> QED
    BY <2>5, <2>6 DEF CallOK
<1>15. Lifecycles' /\ ReleasedAlone' /\ \A c \in Arenas : Releasing(c)' => Releasing(c)
  BY <1>0, <1>6, LifecyclesKept
<1>16. InitialBlocks'
  BY <1>0, <1>2, <1>5, <1>8, <1>9, Constants DEF InitialBlocks
<1>17. Ordered'
  <2>1. ASSUME NEW m \in Memory, heap'[m].arena # NULL PROVE Linked(m)'
    <3>1. m # b /\ heap'[m] = heap[m] /\ Linked(m) /\ heap[m].next \in Memory \union {NULL}
      BY <1>0, <1>5, <2>1 DEF Ordered, FieldsTyped
    <3>2. heap[m].next # b
      BY <1>1, <1>12, <3>1, Constants DEF Linked
    <3>3. heap[m].next # NULL => heap'[heap[m].next] = heap[heap[m].next]
      BY <1>5, <3>1, <3>2
    <3> QED
      BY <3>1, <3>3 DEF Linked
  <2>2. ASSUME NEW m \in Memory, NEW c \in Memory, heap'[m].arena = heap'[c].arena,
               heap'[m].depth = heap'[c].depth, heap'[m].depth > 0
        PROVE  heap'[m].arena = NULL \/ m = c
    BY <1>0, <1>5, <2>2 DEF Ordered
  <2> QED
    BY <2>1, <2>2 DEF Ordered
<1>18. \A c \in Arenas : Headed(c)'
  <2> SUFFICES ASSUME NEW c \in Arenas, ~ Freed(c)' PROVE Headed(c)'
    BY DEF Headed
  <2>1. c # a /\ ~ Freed(c) /\ Headed(c)
    BY <1>0, <1>6 DEF IInv, Freed, At, OnlyCall, SameArguments
  <2>2. \A u \in Threads, m \in Memory : Pending(u, m) => Pending(u, m)'
    BY <1>0, <1>6 DEF Pending, OnlyCall
  <2>3. arena[c].blocks # NULL => heap'[arena[c].blocks] = heap[arena[c].blocks]
    BY <1>8, <2>1, HeadInArena, Constants
  <2>4. \A m \in Memory : heap'[m].arena = c => heap'[m] = heap[m]
    BY <1>5, Constants
  <2> QED
    BY <1>0, <2>1, <2>2, <2>3, <2>4 DEF Headed, Depth
<1>19. CacheValid'
  <2> SUFFICES ASSUME NEW c \in Arenas, arena[c].alive, ~ Releasing(c)'
               PROVE  /\ \A u \in Threads : thread_cache[u].id = arena[c].lifecycle_id =>
                           LET m == thread_cache[u].block
                           IN  m # NULL /\ heap'[m].arena = c /\ heap'[m].owner = u
                      /\ arena[c].hint # NULL => heap'[arena[c].hint].arena = c
    BY <1>0 DEF CacheValid
  <2>1. ~ Releasing(c) /\ c # a
    BY <1>2, <1>6 DEF Releasing, OnlyCall, SameArguments, ReleaseOps
  <2> QED
    BY <1>0, <1>8, <2>1, Constants DEF CacheValid, FieldsTyped
<1>20. PositionsFit'
  BY <1>0, <1>5, <1>7, TypeOfFields DEF PositionsFit, FieldsTyped, FreeBlock
<1> QED
  BY <1>7, <1>13, <1>14, <1>15, <1>16, <1>17, <1>18, <1>19, <1>20 DEF IInv

(* Reset or the destructor frees a block.                                   *)
LEMMA FreeBlocksKeeps ==
  ASSUME IInv, NEW t \in Threads, FreeBlocks(t)
  PROVE  IInv'
<1> DEFINE b == call[t].block
<1>1. At(t, "free") /\ b # NULL /\ UNCHANGED <<lifecycle_id_generator, arena, thread_cache>>
  BY DEF FreeBlocks
<1>2. CASE /\ heap[b].next = NULL /\ InitialBlock[call[t].arena] # NULL
           /\ call' = [call EXCEPT ![t].block = heap[b].next, ![t].full = b]
           /\ UNCHANGED heap
  BY <1>1, <1>2, KeepInitialBlock
<1>3. CASE /\ heap[b].next # NULL \/ InitialBlock[call[t].arena] = NULL
           /\ GotoWith(t, "free", heap[b].next)
           /\ heap' = [heap EXCEPT ![b] = FreeBlock]
  BY <1>1, <1>3, FreeBlockKeeps
<1> QED
  BY <1>2, <1>3 DEF FreeBlocks

-----------------------------------------------------------------------------
(* An arena starts, or starts again, with its initial block only. *)

(* The user's block becomes an empty one that the thread owns and caches.   *)
LEMMA OwnInitialBlockEffect ==
  ASSUME TypeOK, NEW t \in Threads, NEW a \in Arenas, NEW id \in Int,
         OwnInitialBlock(t, a, InitialBlock[a], id)
  PROVE  /\ heap' \in [Memory -> BlockType] /\ thread_cache' \in [Threads -> CacheType]
         /\ \A m \in Memory : m # InitialBlock[a] => heap'[m] = heap[m]
         /\ \A u \in Threads \ {t} : thread_cache'[u] = thread_cache[u]
         /\ InitialBlock[a] = NULL => thread_cache' = thread_cache
         /\ InitialBlock[a] # NULL =>
              /\ heap'[InitialBlock[a]] = EmptyBlock(a, t, InitialBlockSize, 1)
              /\ thread_cache'[t] = [id |-> id, block |-> InitialBlock[a]]
<1>1. CASE InitialBlock[a] = NULL
  BY <1>1, Constants DEF OwnInitialBlock, TypeOK
<1>2. CASE InitialBlock[a] # NULL
  <2>1. PICK b \in Memory : b = InitialBlock[a]
    BY <1>2, Constants
  <2>2. /\ heap' = [heap EXCEPT ![b] = EmptyBlock(a, t, InitialBlockSize, 1)]
        /\ thread_cache' = [thread_cache EXCEPT ![t] = [id |-> id, block |-> b]]
    BY <1>2, <2>1 DEF OwnInitialBlock
  <2>3. NoCleanup \in CleanupType
    <3>1. << >> \in Nodes
      BY DEF Nodes
    <3> QED
      BY <3>1 DEF NoCleanup, CleanupType
  <2>4. EmptyBlock(a, t, InitialBlockSize, 1) \in BlockType
    BY <2>3, Constants DEF EmptyBlock, BlockType
  <2>5. [id |-> id, block |-> b] \in CacheType
    BY DEF CacheType
  <2> QED
    BY <1>2, <2>1, <2>2, <2>4, <2>5 DEF TypeOK
<1> QED
  BY <1>1, <1>2

(* An arena starts again with an id of its own and at most the user's block.*)
LEMMA RestartKeeps ==
  ASSUME IInv, NEW t \in Threads, NEW a \in Arenas, NEW id \in Nat, NEW r \in ArenaType,
         r.lifecycle_id = id, r.blocks = InitialBlock[a], r.hint = InitialBlock[a],
         arena' = [arena EXCEPT ![a] = r],
         OwnInitialBlock(t, a, InitialBlock[a], id),
         OnlyCall(t), call'[t] = NoCall,
         call[t].pc = "idle" \/ call[t].arena = a,
         \A u \in Threads \ {t} : call[u].arena # a,
         \A m \in Memory : heap[m].arena = a => m = InitialBlock[a],
         InitialBlock[a] # NULL => heap[InitialBlock[a]].arena \in {NULL, a},
         lifecycle_id_generator' \in Nat, lifecycle_id_generator' >= lifecycle_id_generator,
         id < lifecycle_id_generator',
         \A c \in Arenas \ {a} : arena[c].lifecycle_id # id,
         r.alive => \A u \in Threads : thread_cache[u].id # id
  PROVE  IInv'
<1> DEFINE i == InitialBlock[a]
<1>0. /\ TypeOK /\ FieldsTyped /\ InitialBlocks /\ Ordered /\ CacheValid /\ PositionsFit
      /\ ReleasedAlone /\ Lifecycles /\ lifecycle_id_generator \in Nat
      /\ \A u \in Threads : CallOK(u) /\ CallConsistent(u)
  BY TypeOfFields DEF IInv, CallOK, TypeOK
<1>1. /\ heap' \in [Memory -> BlockType] /\ thread_cache' \in [Threads -> CacheType]
      /\ \A m \in Memory : m # i => heap'[m] = heap[m]
      /\ \A u \in Threads \ {t} : thread_cache'[u] = thread_cache[u]
      /\ i = NULL => thread_cache' = thread_cache
      /\ i # NULL => /\ i \in Memory /\ heap'[i] = EmptyBlock(a, t, InitialBlockSize, 1)
                     /\ thread_cache'[t].id = id /\ thread_cache'[t].block = i
  <2>1. id \in Int
    OBVIOUS
  <2>2. /\ heap' \in [Memory -> BlockType] /\ thread_cache' \in [Threads -> CacheType]
        /\ \A m \in Memory : m # i => heap'[m] = heap[m]
        /\ \A u \in Threads \ {t} : thread_cache'[u] = thread_cache[u]
        /\ i = NULL => thread_cache' = thread_cache
        /\ i # NULL => /\ heap'[i] = EmptyBlock(a, t, InitialBlockSize, 1)
                       /\ thread_cache'[t] = [id |-> id, block |-> i]
    BY <1>0, <2>1, OwnInitialBlockEffect
  <2> QED
    BY <2>2, Constants
<1>2. i # NULL => /\ heap'[i].arena = a /\ heap'[i].owner = t /\ heap'[i].next = NULL
                  /\ heap'[i].depth = 1 /\ heap'[i].pos = HeaderSize /\ heap'[i].size = InitialBlockSize
  BY <1>1 DEF EmptyBlock
<1>3. arena' \in [Arenas -> ArenaType] /\ arena'[a] = r /\ \A c \in Arenas \ {a} : arena'[c] = arena[c]
  BY <1>0 DEF TypeOK
<1>4. TypeOK'
  BY <1>1, <1>3 DEF TypeOK, OnlyCall
<1>5. \A u \in Threads \ {t} : call'[u] = call[u]
  BY DEF OnlyCall
<1>6. /\ \A m \in Memory : heap[m].arena \notin {NULL, a} => m # i /\ heap'[m] = heap[m]
      /\ \A m \in Memory : heap'[m].arena = a => m = i
      /\ \A m \in Memory : heap'[m].arena \notin {NULL, a} => m # i /\ heap'[m] = heap[m]
  BY <1>1, <1>2, Constants
<1>7. ASSUME NEW u \in Threads PROVE CallOK(u)'
  <2>1. CASE u = t
    BY <2>1, Constants
       DEF CallOK, CallConsistent, PendingBlock, FreeProgress, FullBlock, OwnsBlock, Owning,
           NeedFits, NoCall, AllocateLabels, ReleaseOps
  <2>2. CASE u # t
    <3>1. CallOK(u) /\ call'[u] = call[u]
      BY <1>0, <1>5, <2>2
    <3>2. call[u].pc # "idle" =>
            call[u].arena \in Arenas \ {a} /\ arena'[call[u].arena].alive
      BY <1>0, <1>3, <2>2 DEF CallConsistent
    <3>3. call[u].pc = "publish" => ~ Freed(call[u].arena)
      BY <1>0, InUseWhileAllocating DEF CallConsistent, AllocateLabels
    <3>4. call[u].pc = "publish" =>
            Depth(arena[call[u].arena].blocks)' = Depth(arena[call[u].arena].blocks)
      <4> SUFFICES ASSUME call[u].pc = "publish"
                   PROVE  Depth(arena[call[u].arena].blocks)' = Depth(arena[call[u].arena].blocks)
        OBVIOUS
      <4>1. PICK d \in Arenas \ {a} : d = call[u].arena
        BY <3>2
      <4>2. arena[d].blocks # NULL =>
              arena[d].blocks \in Memory /\ heap[arena[d].blocks].arena = d
        BY <3>3, <4>1, HeadInArena
      <4>3. arena[d].blocks # NULL => heap'[arena[d].blocks] = heap[arena[d].blocks]
        BY <1>6, <4>2, Constants
      <4> QED
        BY <1>3, <3>1, <4>1, <4>3 DEF Depth
    <3>5. \A m \in Memory : heap[m].arena = call[u].arena /\ call[u].pc # "idle" => heap'[m] = heap[m]
      BY <1>6, <3>2, Constants
    <3>6. call[u].pc = "free" =>
            \A m \in Memory : heap'[m].arena = call[u].arena => heap[m].arena = call[u].arena
      BY <1>6, <3>2, Constants
    <3> QED
      BY <1>0, <1>3, <3>1, <3>2, <3>4, <3>5, <3>6, OtherCallKept
  <2> QED
    BY <2>1, <2>2
<1>8. ReleasedAlone'
  BY <1>0, <1>5, Constants DEF ReleasedAlone, ReleaseOps, NoCall, CallConsistent
<1>9. InitialBlocks'
  <2>1. ASSUME NEW m \in Memory, heap'[m].arena # NULL
        PROVE  m \in HeapBlocks \/ m = InitialBlock[heap'[m].arena]
    BY <1>0, <1>6, <2>1 DEF InitialBlocks
  <2>2. ASSUME NEW c \in Arenas
        PROVE  /\ arena'[c].alive /\ InitialBlock[c] # NULL =>
                    heap'[InitialBlock[c]].arena = c /\ heap'[InitialBlock[c]].depth = 1
               /\ ~ arena'[c].alive => \A m \in Memory : heap'[m].arena = c => m = InitialBlock[c]
    <3>1. CASE c = a
      BY <1>2, <1>6, <3>1
    <3>2. CASE c # a
      BY <1>0, <1>1, <1>3, <1>6, <3>2, Constants DEF InitialBlocks
    <3> QED
      BY <3>1, <3>2
  <2> QED
    BY <2>1, <2>2 DEF InitialBlocks
<1>10. Ordered'
  <2>1. ASSUME NEW m \in Memory, heap'[m].arena # NULL PROVE Linked(m)'
    <3>1. CASE m = i
      BY <1>2, <2>1, <3>1, Constants DEF Linked
    <3>2. CASE m # i
      <4>1. heap'[m] = heap[m] /\ Linked(m) /\ heap[m].next \in Memory \union {NULL}
            /\ heap[m].arena \notin {NULL, a}
        BY <1>0, <1>1, <2>1, <3>2 DEF Ordered, FieldsTyped
      <4>2. heap[m].next # NULL => heap'[heap[m].next] = heap[heap[m].next]
        BY <1>6, <4>1 DEF Linked
      <4> QED
        BY <4>1, <4>2 DEF Linked
    <3> QED
      BY <3>1, <3>2
  <2>2. ASSUME NEW m \in Memory, NEW c \in Memory, heap'[m].arena = heap'[c].arena,
               heap'[m].depth = heap'[c].depth, heap'[m].depth > 0
        PROVE  heap'[m].arena = NULL \/ m = c
    BY <1>0, <1>6, <2>2 DEF Ordered
  <2> QED
    BY <2>1, <2>2 DEF Ordered
<1>11. ASSUME NEW c \in Arenas PROVE Headed(c)'
  <2>1. CASE c = a
    <3>1. arena'[a].blocks = i /\ (i # NULL => heap'[i].arena = a /\ heap'[i].depth = 1)
      BY <1>2, <1>3
    <3>2. Depth(arena[a].blocks)' = IF i = NULL THEN 0 ELSE heap'[i].depth
      BY <3>1 DEF Depth
    <3> QED
      BY <1>6, <2>1, <3>1, <3>2, Constants DEF Headed
  <2>2. CASE c # a
    <3> SUFFICES ASSUME ~ Freed(c)' PROVE Headed(c)'
      BY DEF Headed
    <3>1. ~ Freed(c) /\ Headed(c)
      BY <1>5, <2>2 DEF IInv, Freed, At
    <3>2. ASSUME NEW u \in Threads, NEW m \in Memory, Pending(u, m), heap[m].arena = c PROVE Pending(u, m)'
      <4>1. heap[m].arena = call[u].arena
        BY <1>0, <3>2, Constants DEF Pending, CallOK, OwnsBlock, Owning
      <4> QED
        BY <1>5, <2>2, <3>2, <4>1 DEF Pending
    <3>3. arena[c].blocks # NULL => heap'[arena[c].blocks] = heap[arena[c].blocks]
      BY <1>6, <2>2, <3>1, HeadInArena, Constants
    <3>4. \A m \in Memory : heap'[m].arena = c => heap'[m] = heap[m]
      BY <1>6, <2>2, Constants
    <3> QED
      BY <1>3, <2>2, <3>1, <3>2, <3>3, <3>4 DEF Headed, Depth
  <2> QED
    BY <2>1, <2>2
<1>12. Lifecycles'
  <2>1. \A u \in Threads : call'[u].op = "reset" =>
          u # t /\ call[u].op = "reset" /\ call'[u].arena = call[u].arena /\ call[u].arena \in Arenas \ {a}
    BY <1>0, <1>5 DEF NoCall, CallConsistent, ReleaseOps
  <2>2. \A c \in Arenas, u \in Threads : arena[c].lifecycle_id \in Int /\ thread_cache[u].id \in Int
    BY <1>0 DEF FieldsTyped
  <2>3. \A u \in Threads : thread_cache'[u].id < lifecycle_id_generator'
                           /\ (thread_cache'[u].id = thread_cache[u].id \/ thread_cache'[u].id = id)
    BY <1>0, <1>1, <2>2 DEF Lifecycles
  <2>4. \A v, u \in Threads : call'[u].op = "reset" =>
          thread_cache'[v].id # arena'[call'[u].arena].lifecycle_id
    BY <1>0, <1>3, <2>1, <2>3 DEF Lifecycles
  <2>5. \A c \in Arenas : arena'[c].lifecycle_id < lifecycle_id_generator'
                          /\ (arena'[c].alive => arena'[c].lifecycle_id >= 0)
    BY <1>0, <1>3, <2>2 DEF Lifecycles
  <2>6. \A c, d \in Arenas :
          arena'[c].lifecycle_id = arena'[d].lifecycle_id /\ arena'[c].lifecycle_id >= 0 => c = d
    BY <1>0, <1>3 DEF Lifecycles
  <2> QED
    BY <2>3, <2>4, <2>5, <2>6 DEF Lifecycles
<1>13. CacheValid'
  <2> SUFFICES ASSUME NEW c \in Arenas, arena'[c].alive, ~ Releasing(c)'
               PROVE  /\ \A u \in Threads : thread_cache'[u].id = arena'[c].lifecycle_id =>
                           LET m == thread_cache'[u].block
                           IN  m # NULL /\ heap'[m].arena = c /\ heap'[m].owner = u
                      /\ arena'[c].hint # NULL => heap'[arena'[c].hint].arena = c
    BY DEF CacheValid
  <2>1. CASE c = a
    BY <1>1, <1>2, <1>3, <2>1
  <2>2. CASE c # a
    <3>1. arena[c].alive /\ ~ Releasing(c) /\ arena'[c] = arena[c] /\ arena[c].lifecycle_id # id
      <4>1. ~ Releasing(c)
        BY <1>0, <1>5, <2>2, Constants DEF Releasing, CallConsistent, NoCall
      <4> QED
        BY <1>3, <2>2, <4>1
    <3>2. \A u \in Threads : thread_cache'[u].id = arena[c].lifecycle_id => thread_cache'[u] = thread_cache[u]
      BY <1>1, <3>1
    <3> QED
      BY <1>0, <1>6, <2>2, <3>1, <3>2, Constants DEF CacheValid, FieldsTyped
  <2> QED
    BY <2>1, <2>2
<1>14. PositionsFit'
  BY <1>0, <1>1, <1>2, Constants DEF PositionsFit
<1> QED
  BY <1>4, <1>7, <1>8, <1>9, <1>10, <1>11, <1>12, <1>13, <1>14 DEF IInv

(* The record of an arena that starts.                                      *)
LEMMA RestartedType ==
  ASSUME NEW a \in Arenas, NEW id \in Int, NEW alive \in BOOLEAN
  PROVE  /\ [Restarted(a, id) EXCEPT !.alive = alive] \in ArenaType
         /\ Restarted(a, id) \in ArenaType
         /\ [Restarted(a, id) EXCEPT !.alive = alive].lifecycle_id = id
         /\ [Restarted(a, id) EXCEPT !.alive = alive].blocks = InitialBlock[a]
         /\ [Restarted(a, id) EXCEPT !.alive = alive].hint = InitialBlock[a]
         /\ [Restarted(a, id) EXCEPT !.alive = alive].alive = alive
         /\ Restarted(a, id).lifecycle_id = id
         /\ Restarted(a, id).blocks = InitialBlock[a] /\ Restarted(a, id).hint = InitialBlock[a]
<1>1. PICK s \in Nat : s = IF InitialBlock[a] = NULL THEN 0 ELSE InitialBlockSize
  BY Constants
<1>2. << >> \in Nodes
  BY DEF Nodes
<1>3. Restarted(a, id) =
        [alive |-> TRUE, lifecycle_id |-> id, blocks |-> InitialBlock[a], hint |-> InitialBlock[a],
         space_allocated |-> s, lock |-> NULL, registered |-> [t \in Threads |-> 0], ran |-> << >>]
  BY <1>1, Zenon DEF Restarted
<1>4. InitialBlock[a] \in Memory \union {NULL}
  BY Constants
<1> QED
  BY <1>2, <1>3, <1>4 DEF ArenaType

(* The constructor.                                                         *)
LEMMA ConstructKeeps ==
  ASSUME IInv, NEW t \in Threads, NEW a \in Arenas, Construct(t, a)
  PROVE  IInv'
<1>id. PICK id \in Nat : id = lifecycle_id_generator
  BY DEF IInv, TypeOK
<1>0. /\ TypeOK /\ FieldsTyped /\ InitialBlocks /\ Lifecycles
      /\ \A u \in Threads : CallConsistent(u)
      /\ call[t].pc = "idle" /\ ~ arena[a].alive /\ call' = call
      /\ lifecycle_id_generator' = id + 1
      /\ OwnInitialBlock(t, a, InitialBlock[a], id)
      /\ arena' = [arena EXCEPT ![a] = Restarted(a, id)]
  BY <1>id, TypeOfFields DEF IInv, CallOK, Construct, Idle, TypeOK
<1>1. PICK r \in ArenaType :
        /\ r.lifecycle_id = id /\ r.blocks = InitialBlock[a] /\ r.hint = InitialBlock[a]
        /\ r = Restarted(a, id)
  <2>1. id \in Int
    OBVIOUS
  <2>2. /\ Restarted(a, id) \in ArenaType /\ Restarted(a, id).lifecycle_id = id
        /\ Restarted(a, id).blocks = InitialBlock[a] /\ Restarted(a, id).hint = InitialBlock[a]
    BY <2>1, RestartedType
  <2> QED
    BY <2>2, Zenon
<1>2. OnlyCall(t) /\ call'[t] = NoCall
  BY <1>0 DEF OnlyCall, TypeOK, CallConsistent
<1>3. \A u \in Threads : call[u].arena # a
  BY <1>0, Constants DEF CallConsistent, NoCall
<1>4. \A m \in Memory : heap[m].arena = a => m = InitialBlock[a]
  BY <1>0 DEF InitialBlocks
<1>5. InitialBlock[a] # NULL => heap[InitialBlock[a]].arena \in {NULL, a}
  BY <1>0, Constants DEF InitialBlocks, FieldsTyped
<1>6. /\ \A c \in Arenas \ {a} : arena[c].lifecycle_id # id
      /\ \A u \in Threads : thread_cache[u].id # id
  BY <1>id, <1>0 DEF Lifecycles, FieldsTyped
<1>7. id < lifecycle_id_generator' /\ lifecycle_id_generator' \in Nat
      /\ lifecycle_id_generator' >= lifecycle_id_generator
  BY <1>id, <1>0
<1> QED
  BY <1>0, <1>1, <1>2, <1>3, <1>4, <1>5, <1>6, <1>7, RestartKeeps

(* The end of Reset and of the destructor.                                  *)
LEMMA FinishResetKeeps ==
  ASSUME IInv, NEW t \in Threads, FinishReset(t)
  PROVE  IInv'
<1>0. /\ TypeOK /\ FieldsTyped /\ InitialBlocks /\ Lifecycles /\ ReleasedAlone
      /\ CallConsistent(t) /\ FreeProgress(t)
      /\ call[t].pc = "free" /\ call[t].block = NULL
      /\ lifecycle_id_generator' = lifecycle_id_generator /\ lifecycle_id_generator \in Nat
  BY TypeOfFields DEF IInv, CallOK, FinishReset, At, TypeOK
<1>1. PICK a \in Arenas : a = call[t].arena
  BY <1>0 DEF CallConsistent
<1>2. arena[a].alive /\ call[t].op \in ReleaseOps
  BY <1>0, <1>1 DEF CallConsistent
<1>3. PICK id \in Nat : id = arena[a].lifecycle_id
  BY <1>0, <1>2 DEF Lifecycles, FieldsTyped
<1>4. \A m \in Memory : heap[m].arena = a => m = call[t].full
  <2> SUFFICES ASSUME NEW m \in Memory, heap[m].arena = a PROVE m = call[t].full
    OBVIOUS
  <2>1. heap[m].depth \in Nat /\ heap[m].depth > 0
    BY <1>0, <1>1 DEF FreeProgress, FieldsTyped
  <2>2. Depth(call[t].block) = 0
    BY <1>0 DEF Depth
  <2>3. heap[m].depth <= 0 \/ m = call[t].full
    BY <1>0, <1>1, <2>2 DEF FreeProgress
  <2> QED
    BY <2>1, <2>3
<1>5. call[t].full = InitialBlock[a]
  BY <1>0, <1>1, <1>2, <1>4, Constants DEF FreeProgress, InitialBlocks
<1>6. PICK alive \in BOOLEAN :
        alive = (call[t].op = "reset") /\ (alive => call[t].op = "reset")
  OBVIOUS
<1>7. /\ arena' = [arena EXCEPT ![a] = [Restarted(a, id) EXCEPT !.alive = alive]]
      /\ OwnInitialBlock(t, a, InitialBlock[a], id)
      /\ Return(t)
  BY <1>1, <1>3, <1>5, <1>6, Zenon DEF FinishReset
<1>8. PICK r \in ArenaType :
        /\ r.lifecycle_id = id /\ r.blocks = InitialBlock[a] /\ r.hint = InitialBlock[a]
        /\ r.alive = alive /\ r = [Restarted(a, id) EXCEPT !.alive = alive]
  <2> DEFINE e == [Restarted(a, id) EXCEPT !.alive = alive]
  <2>1. id \in Int
    OBVIOUS
  <2>2. /\ e \in ArenaType /\ e.lifecycle_id = id /\ e.blocks = InitialBlock[a]
        /\ e.hint = InitialBlock[a] /\ e.alive = alive
    BY <2>1, RestartedType
  <2>3. \E r \in ArenaType :
          /\ r.lifecycle_id = id /\ r.blocks = InitialBlock[a] /\ r.hint = InitialBlock[a]
          /\ r.alive = alive /\ r = e
    <3> HIDE DEF e
    <3> QED
      BY <2>2, Zenon
  <2> QED
    BY <2>3
<1>9. OnlyCall(t) /\ call'[t] = NoCall
  BY <1>0, <1>7, ReturnEffect
<1>10. \A u \in Threads \ {t} : call[u].arena # a
  BY <1>0, <1>1, <1>2 DEF ReleasedAlone
<1>11. /\ \A m \in Memory : heap[m].arena = a => m = InitialBlock[a]
       /\ InitialBlock[a] # NULL => heap[InitialBlock[a]].arena \in {NULL, a}
  BY <1>0, <1>2, <1>4, <1>5 DEF InitialBlocks
<1>12. /\ \A c \in Arenas \ {a} : arena[c].lifecycle_id # id
       /\ id < lifecycle_id_generator
  BY <1>0, <1>2, <1>3 DEF Lifecycles
<1>13. r.alive => \A u \in Threads : thread_cache[u].id # id
  <2>1. r.alive => call[t].op = "reset"
    BY <1>6, <1>8, Zenon
  <2> QED
    BY <1>0, <1>1, <1>3, <2>1 DEF Lifecycles
<1>14. arena' = [arena EXCEPT ![a] = r]
  BY <1>7, <1>8
<1>15. /\ id < lifecycle_id_generator' /\ lifecycle_id_generator' \in Nat
       /\ lifecycle_id_generator' >= lifecycle_id_generator /\ call[t].arena = a
  BY <1>0, <1>1, <1>12
<1>16. r.lifecycle_id = id /\ r.blocks = InitialBlock[a] /\ r.hint = InitialBlock[a]
  BY <1>8
<1>17. OwnInitialBlock(t, a, InitialBlock[a], id)
  BY <1>7
<1>18. \A c \in Arenas \ {a} : arena[c].lifecycle_id # id
  BY <1>12
<1> QED
  BY <1>9, <1>10, <1>11, <1>13, <1>14, <1>15, <1>16, <1>17, <1>18, RestartKeeps

-----------------------------------------------------------------------------
(* The theorems. *)

(* Before the first arena.                                                  *)
LEMMA InitIInv == Init => IInv
<1> SUFFICES ASSUME Init PROVE IInv
  OBVIOUS
<1>1. << >> \in Nodes
  BY DEF Nodes
<1>2. FreeBlock \in BlockType
  BY <1>1 DEF FreeBlock, BlockType, NoCleanup, CleanupType
<1>3. NoCache \in CacheType
  BY DEF NoCache, CacheType
<1>4. TypeOK
  BY <1>1, <1>2, <1>3, NoCallType DEF Init, TypeOK, ArenaType
<1>5. /\ \A t \in Threads : call[t] = NoCall /\ thread_cache[t] = NoCache /\ thread_cache[t].id = -1
      /\ \A t \in Threads : call[t].pc = "idle" /\ call[t].op = "none" /\ call[t].arena = NULL
      /\ \A a \in Arenas : ~ arena[a].alive /\ arena[a].lifecycle_id = -1
                           /\ arena[a].blocks = NULL /\ arena[a].hint = NULL
      /\ \A b \in Memory : heap[b].arena = NULL /\ heap[b].depth = 0
                           /\ heap[b].pos = 0 /\ heap[b].size = 0
      /\ lifecycle_id_generator = 0
  BY DEF Init, NoCall, NoCache, FreeBlock
<1>6. \A t \in Threads : CallOK(t)
  BY <1>5, IdleOK
<1>7. ReleasedAlone /\ InitialBlocks /\ Ordered /\ PositionsFit /\ CacheValid
  BY <1>5, Constants DEF ReleasedAlone, ReleaseOps, InitialBlocks, Ordered, PositionsFit, CacheValid
<1>8. \A a \in Arenas : Headed(a)
  BY <1>5, Constants DEF Headed
<1>9. Lifecycles
  BY <1>5 DEF Lifecycles
<1> QED
  BY <1>4, <1>6, <1>7, <1>8, <1>9 DEF IInv

(* Any step of a call.                                                      *)
LEMMA CallStepKeeps ==
  ASSUME IInv, NEW t \in Threads, CallStep(t)
  PROVE  IInv'
<1>1. CASE GetBlock(t)
  BY <1>1, GetBlockKeeps
<1>2. CASE FindBlock(t)
  BY <1>2, FindBlockKeeps
<1>3. CASE WalkBlocks(t)
  BY <1>3, WalkBlocksKeeps
<1>4. CASE NewBlock(t)
  BY <1>4, NewBlockKeeps
<1>5. CASE BadAlloc(t)
  BY <1>5, ReturnKeeps DEF BadAlloc, At
<1>6. CASE LockBlocks(t)
  BY <1>6, LockBlocksKeeps
<1>7. CASE PublishBlock(t)
  BY <1>7, PublishBlockKeeps
<1>8. CASE CacheBlock(t)
  BY <1>8, CacheBlockKeeps
<1>9. CASE AllocFromBlock(t)
  BY <1>9, AllocFromBlockKeeps
<1>10. CASE AddCleanupInBlock(t)
  BY <1>10, AddCleanupInBlockKeeps
<1>11. CASE ExpandCleanupList(t)
  BY <1>11, ExpandCleanupListKeeps
<1>12. CASE AddCleanupChunk(t)
  BY <1>12, AddCleanupChunkKeeps
<1>13. CASE CleanupList(t)
  BY <1>13, CleanupListKeeps
<1>14. CASE FreeBlocks(t)
  BY <1>14, FreeBlocksKeeps
<1>15. CASE FinishReset(t)
  BY <1>15, FinishResetKeeps
<1>16. CASE WalkUsed(t)
  BY <1>16, WalkUsedKeeps
<1>17. CASE SpaceUsedReturns(t)
  BY <1>17, ReturnKeeps DEF SpaceUsedReturns, At
<1> QED
  BY <1>1, <1>2, <1>3, <1>4, <1>5, <1>6, <1>7, <1>8, <1>9, <1>10, <1>11, <1>12, <1>13, <1>14,
     <1>15, <1>16, <1>17 DEF CallStep

(* Any step that begins a call.                                             *)
LEMMA BeginStepKeeps ==
  ASSUME IInv, NEW t \in Threads, Begin(t)
  PROVE  IInv'
<1>1. CASE ThreadExit(t)
  BY <1>1, ThreadExitKeeps
<1>2. CASE ~ ThreadExit(t)
  <2>1. PICK a \in Arenas :
          \/ Construct(t, a) \/ Reset(t, a) \/ Destroy(t, a) \/ SpaceUsed(t, a)
          \/ \E n \in Sizes \union {0}, cleanup \in BOOLEAN : Allocate(t, a, n, cleanup)
    BY <1>2, Zenon DEF Begin
  <2>2. CASE Construct(t, a)
    BY <2>2, ConstructKeeps
  <2>3. CASE Reset(t, a)
    BY <2>3, ResetKeeps
  <2>4. CASE Destroy(t, a)
    BY <2>4, DestroyKeeps
  <2>5. CASE SpaceUsed(t, a)
    BY <2>5, SpaceUsedKeeps
  <2>6. CASE \E n \in Sizes \union {0}, cleanup \in BOOLEAN : Allocate(t, a, n, cleanup)
    <3>1. PICK n \in Sizes \union {0}, cleanup \in BOOLEAN : Allocate(t, a, n, cleanup)
      BY <2>6, Zenon
    <3>2. n \in Nat
      BY ArenaAssumption
    <3> QED
      BY <3>1, <3>2, AllocateKeeps
  <2> QED
    BY <2>1, <2>2, <2>3, <2>4, <2>5, <2>6
<1> QED
  BY <1>1, <1>2

(* No step.                                                                 *)
LEMMA StutterKeeps == IInv /\ UNCHANGED vars => IInv'
<1> SUFFICES ASSUME IInv, UNCHANGED vars PROVE IInv'
  OBVIOUS
<1> QED
  BY DEF vars, IInv, TypeOK, CallOK, CallConsistent, PendingBlock, FreeProgress, FullBlock, OwnsBlock,
         NeedFits, Avail, Need, Depth, ReleasedAlone, InitialBlocks, Ordered, Linked, Headed, Freed, At,
         Pending, Lifecycles, CacheValid, Releasing, PositionsFit

(* Every step keeps the inductive invariant.                                *)
LEMMA NextKeeps == IInv /\ [Next]_vars => IInv'
BY CallStepKeeps, BeginStepKeeps, StutterKeeps DEF Next

(* The inductive invariant holds at all times.                              *)
LEMMA Invariance == Spec => []IInv
BY InitIInv, NextKeeps, PTL DEF Spec

(* In every execution every variable keeps its type: the room of a cleanup   *)
(* chunk and the space counter never go below zero, and every pointer is     *)
(* NULL or the address of a block (arena.cc:167, :224).                      *)
THEOREM TypeCorrect == Spec => []TypeOK
<1>1. IInv => TypeOK
  BY DEF IInv
<1> QED
  BY <1>1, Invariance, PTL

(* A thread that works on a block without a lock owns it, and the block is   *)
(* one of the arena the call is on (arena.cc:197-235, :165-175).             *)
THEOREM Exclusive == Spec => []ExclusiveBlock
<1>1. IInv => ExclusiveBlock
  BY DEF IInv, CallOK, ExclusiveBlock
<1> QED
  BY <1>1, Invariance, PTL

(* A cache that matches an arena in use, and a hint, never lead to a block   *)
(* that was freed or belongs to another arena, however addresses are reused  *)
(* (arena.cc:94-98, :197-222, arena_impl.h:178-182).                         *)
THEOREM CachesValid == Spec => []CacheValid
<1>1. IInv => CacheValid
  BY DEF IInv
<1> QED
  BY <1>1, Invariance, PTL

(* What is carved out of a block fits in it: the assertion of AllocFromBlock *)
(* (arena.cc:228), for the user's memory and for cleanup chunks.             *)
THEOREM Fits == Spec => []AllocationFits
<1>1. IInv => AllocationFits
  BY DEF IInv, CallOK, PositionsFit, AllocationFits
<1> QED
  BY <1>1, Invariance, PTL

-----------------------------------------------------------------------------
(* No block is lost.  By the inductive invariant the blocks of an arena are  *)
(* numbered by their depth without a gap, so a set that is closed under next *)
(* and holds one of them holds all that are less deep.                       *)

(* The blocks of b's arena that are not deeper than b. *)
Below(b) ==
  {c \in Memory : /\ heap[c].arena = heap[b].arena
                  /\ heap[c].depth > 0 /\ heap[c].depth <= heap[b].depth}

(* Of the blocks in a set one is the least deep. *)
LEMMA LeastDeep ==
  ASSUME IInv, NEW T \in SUBSET Memory, T # {}
  PROVE  \E c \in T : \A d \in T : heap[c].depth <= heap[d].depth
<1> DEFINE Depths == {1 .. heap[c].depth : c \in T}
<1>1. \A c \in T : heap[c].depth \in Nat
  BY DEF IInv, TypeOK, BlockType
<1>2. Depths \subseteq FiniteSubsetsOf(Nat) /\ Depths # {}
  <2>1. ASSUME NEW c \in T PROVE 1 .. heap[c].depth \in FiniteSubsetsOf(Nat)
    <3>1. IsFiniteSet(1 .. heap[c].depth)
      BY <1>1, FS_Interval
    <3> QED
      BY <1>1, <3>1 DEF FiniteSubsetsOf
  <2> QED
    BY <2>1
<1>3. PICK x \in Depths : \A y \in Depths : ~ (<<y, x>> \in StrictSubsetOrdering(Nat))
  BY <1>2, WFMin, FS_StrictSubsetOrderingWellFounded
<1>4. PICK c \in T : x = 1 .. heap[c].depth
  OBVIOUS
<1>5. \A d \in T : heap[c].depth <= heap[d].depth
  <2> SUFFICES ASSUME NEW d \in T, heap[d].depth < heap[c].depth PROVE FALSE
    BY <1>1
  <2> DEFINE y == 1 .. heap[d].depth
  <2>1. y \in Depths /\ y \subseteq x /\ heap[c].depth \in x /\ heap[c].depth \notin y
    BY <1>1, <1>4
  <2>2. x \subseteq Nat /\ y \subseteq Nat
    BY <1>1, <1>4
  <2> HIDE DEF y
  <2>3. <<y, x>> \in StrictSubsetOrdering(Nat)
    BY <2>1, <2>2 DEF StrictSubsetOrdering
  <2> QED
    BY <1>3, <2>1, <2>3
<1> QED
  BY <1>5

(* What the invariant says of two blocks of an arena and of their links.     *)
LEMMA Links ==
  ASSUME IInv, NEW b \in Memory, heap[b].arena # NULL
  PROVE  /\ heap[b].depth \in Nat
         /\ heap[b].next = NULL <=> heap[b].depth \in {0, 1}
         /\ heap[b].next # NULL =>
              /\ heap[b].next \in Memory /\ heap[heap[b].next].arena = heap[b].arena
              /\ heap[heap[b].next].depth + 1 = heap[b].depth
              /\ heap[heap[b].next].depth > 0 /\ heap[heap[b].next].depth \in Nat
         /\ \A c \in Memory :
              heap[c].arena = heap[b].arena /\ heap[c].depth = heap[b].depth /\ heap[b].depth > 0
                => c = b
<1>1. heap \in [Memory -> BlockType] /\ Ordered
  BY DEF IInv, TypeOK
<1>2. \A c \in Memory : heap[c].depth \in Nat /\ heap[c].next \in Memory \union {NULL}
  BY <1>1 DEF BlockType
<1>3. Linked(b)
  BY <1>1 DEF Ordered
<1>4. \A c \in Memory :
        heap[c].arena = heap[b].arena /\ heap[c].depth = heap[b].depth /\ heap[b].depth > 0
          => c = b
  BY <1>1 DEF Ordered
<1> QED
  BY <1>2, <1>3, <1>4 DEF Linked

(* A closed set with b holds every block of the arena that is not deeper.    *)
LEMMA ClosedHoldsBelow ==
  ASSUME IInv, NEW b \in Memory, heap[b].arena # NULL,
         NEW S \in SUBSET Memory, b \in S, ClosedUnderNext(S)
  PROVE  Below(b) \subseteq S
<1> SUFFICES ASSUME NEW c \in Below(b), c \notin S PROVE FALSE
  OBVIOUS
<1>1. /\ c \in Memory /\ heap[c].arena = heap[b].arena /\ heap[c].depth \in Nat
      /\ heap[c].depth > 0 /\ heap[c].depth <= heap[b].depth
  BY Links DEF Below
<1> DEFINE T == {d \in S : heap[d].arena = heap[b].arena /\ heap[c].depth <= heap[d].depth}
<1>2. T \in SUBSET Memory /\ b \in T
  BY <1>1
<1>3. PICK d \in T : \A e \in T : heap[d].depth <= heap[e].depth
  BY <1>2, LeastDeep, Zenon
<1>4. d \in Memory /\ d \in S /\ heap[d].arena = heap[b].arena /\ heap[c].depth <= heap[d].depth
  BY <1>2, <1>3
<1>5. heap[d].depth \in Nat /\ heap[d].depth # heap[c].depth
  BY <1>1, <1>4, Links
<1>6. heap[d].next # NULL
  BY <1>1, <1>4, <1>5, Links
<1>7. heap[d].next \in S /\ heap[heap[d].next].arena = heap[b].arena
      /\ heap[heap[d].next].depth \in Nat /\ heap[heap[d].next].depth + 1 = heap[d].depth
  BY <1>4, <1>6, Links DEF ClosedUnderNext
<1>8. heap[d].next \in T
  BY <1>1, <1>4, <1>5, <1>7
<1> QED
  BY <1>3, <1>5, <1>7, <1>8

(* What is not deeper than b is closed, if b is in a list.                   *)
LEMMA BelowIsClosed ==
  ASSUME IInv, NEW b \in Memory, heap[b].arena # NULL, heap[b].depth > 0
  PROVE  Below(b) \in SUBSET Memory /\ b \in Below(b) /\ ClosedUnderNext(Below(b))
<1>1. b \in Below(b)
  BY Links DEF Below
<1>2. ASSUME NEW c \in Below(b), heap[c].next # NULL
      PROVE  heap[c].next \in Below(b)
  <2>1. c \in Memory /\ heap[c].arena = heap[b].arena /\ heap[c].depth <= heap[b].depth
    BY DEF Below
  <2>2. heap[b].depth \in Nat /\ heap[c].depth \in Nat
    BY <2>1, Links
  <2>3. heap[c].next \in Memory /\ heap[heap[c].next].arena = heap[c].arena
        /\ heap[heap[c].next].depth + 1 = heap[c].depth
        /\ heap[heap[c].next].depth > 0 /\ heap[heap[c].next].depth \in Nat
    BY <1>2, <2>1, Links
  <2> QED
    BY <2>1, <2>2, <2>3 DEF Below
<1> QED
  BY <1>1, <1>2 DEF Below, ClosedUnderNext

(* The list that starts with a block has the blocks that are not deeper.     *)
LEMMA ListIsBelow ==
  ASSUME IInv, NEW b \in Memory, heap[b].arena # NULL, heap[b].depth > 0
  PROVE  BlocksFrom(b) = Below(b)
<1>1. b # NULL
  BY Constants
<1>2. ASSUME NEW c \in BlocksFrom(b) PROVE c \in Below(b)
  BY <1>1, BelowIsClosed DEF BlocksFrom
<1>3. ASSUME NEW c \in Below(b) PROVE c \in BlocksFrom(b)
  <2>1. c \in Memory
    BY DEF Below
  <2>2. ASSUME NEW S \in SUBSET Memory, b \in S, ClosedUnderNext(S) PROVE c \in S
    BY <2>2, ClosedHoldsBelow
  <2> QED
    BY <1>1, <2>1, <2>2 DEF BlocksFrom
<1> QED
  BY <1>2, <1>3

(* The empty list has no block.                                              *)
LEMMA NothingFromNull == BlocksFrom(NULL) = {}
<1>1. ClosedUnderNext({})
  BY DEF ClosedUnderNext
<1> QED
  BY <1>1 DEF BlocksFrom

(* A block that is about to be pushed came from the heap: it is not the      *)
(* initial block of its arena.                                               *)
PushedFromHeap ==
  \A t \in Threads : call[t].pc \in {"lock", "publish"} => call[t].block \in HeapBlocks

(* A step after which t's call pushes no block, or still the same, keeps it. *)
LEMMA SamePush ==
  ASSUME PushedFromHeap, NEW t \in Threads,
         \A u \in Threads \ {t} : call'[u] = call[u],
         call'[t].pc \in {"lock", "publish"} =>
           \/ call'[t].block \in HeapBlocks
           \/ /\ call'[t].block = call[t].block
              /\ call[t].pc \in {"lock", "publish"}
  PROVE  PushedFromHeap'
BY DEF PushedFromHeap

(* Every step keeps it. *)
LEMMA PushStepKeeps ==
  ASSUME PushedFromHeap, IInv, NEW t \in Threads, CallStep(t) \/ Begin(t)
  PROVE  PushedFromHeap'
<1> TypeOK
  BY DEF IInv
<1>1. call \in [Threads -> CallType]
  BY DEF TypeOK
<1>2. CASE CallStep(t)
  <2>1. CASE GetBlock(t) \/ FindBlock(t) \/ WalkBlocks(t)
    BY <1>1, <2>1, SamePush
       DEF GetBlock, FindBlock, WalkBlocks, Goto, GotoWith, AfterGetBlock, CallType
  <2>2. CASE NewBlock(t)
    <3>1. PICK b \in HeapBlocks : GotoWith(t, "lock", b)
      BY <2>2 DEF NewBlock
    <3>2. call'[t].block = b /\ \A u \in Threads \ {t} : call'[u] = call[u]
      BY <1>1, <3>1 DEF GotoWith, CallType
    <3> QED
      BY <3>2 DEF PushedFromHeap
  <2>3. CASE LockBlocks(t)
    BY <1>1, <2>3, SamePush DEF LockBlocks, At, Goto, CallType
  <2>4. CASE PublishBlock(t) \/ CacheBlock(t) \/ AllocFromBlock(t)
    BY <1>1, <2>4, SamePush
       DEF PublishBlock, CacheBlock, AllocFromBlock, Goto, Return, NoCall, AfterGetBlock, CallType
  <2>5. CASE AddCleanupInBlock(t) \/ ExpandCleanupList(t) \/ AddCleanupChunk(t) \/ BadAlloc(t)
    BY <1>1, <2>5, SamePush
       DEF AddCleanupInBlock, ExpandCleanupList, AddCleanupChunk, BadAlloc, Return, NoCall,
           AfterExpand, CallType
  <2>6. CASE CleanupList(t) \/ FreeBlocks(t) \/ FinishReset(t)
    <3>1. CASE CleanupList(t)
      <4>1. PICK b \in Memory \union {NULL}, label \in {"cleanup", "free"} : GotoWith(t, label, b)
        <5>1. call[t].arena \in Arenas
          BY <3>1 DEF IInv, CallOK, CallConsistent, CleanupList, At
        <5>2. \A b \in Memory : heap[b].next \in Memory \union {NULL}
          BY DEF TypeOK, BlockType
        <5>3. arena[call[t].arena].blocks \in Memory \union {NULL}
          BY <5>1 DEF TypeOK, ArenaType
        <5>4. call[t].block \in Memory \union {NULL}
          BY <1>1 DEF CallType
        <5> QED
          BY <3>1, <5>2, <5>3, <5>4 DEF CleanupList
      <4> QED
        BY <1>1, <4>1, SamePush DEF GotoWith, CallType
    <3>2. CASE FreeBlocks(t)
      <4>1. call'[t].pc = "free" /\ \A u \in Threads \ {t} : call'[u] = call[u]
        BY <1>1, <3>2 DEF FreeBlocks, At, GotoWith, CallType
      <4> QED
        BY <4>1, SamePush
    <3>3. CASE FinishReset(t)
      BY <1>1, <3>3, SamePush DEF FinishReset, Return, NoCall
    <3> QED
      BY <2>6, <3>1, <3>2, <3>3
  <2>7. CASE WalkUsed(t) \/ SpaceUsedReturns(t)
    BY <1>1, <2>7, SamePush DEF WalkUsed, SumBlock, SpaceUsedReturns, At, Return, NoCall, CallType
  <2> QED
    BY <1>2, <2>1, <2>2, <2>3, <2>4, <2>5, <2>6, <2>7 DEF CallStep
<1>3. CASE Begin(t)
  <2>1. CASE call' = call
    BY <2>1 DEF PushedFromHeap
  <2>2. CASE call' # call
    <3>1. PICK a \in Arenas :
            \/ Reset(t, a) \/ Destroy(t, a) \/ SpaceUsed(t, a)
            \/ \E n \in Sizes \union {0}, cleanup \in BOOLEAN : Allocate(t, a, n, cleanup)
      BY <1>3, <2>2 DEF Begin, ThreadExit, Construct
    <3>2. call'[t].pc \in {"cleanup", "sum", "get"} /\ \A u \in Threads \ {t} : call'[u] = call[u]
      <4>1. CASE Reset(t, a) \/ Destroy(t, a)
        BY <1>1, <4>1 DEF Reset, Destroy, Release, NoCall
      <4>2. CASE SpaceUsed(t, a)
        BY <1>1, <4>2 DEF SpaceUsed, NoCall
      <4>3. CASE \E n \in Sizes \union {0}, cleanup \in BOOLEAN : Allocate(t, a, n, cleanup)
        <5>1. PICK n \in Sizes \union {0}, cleanup \in BOOLEAN : Allocate(t, a, n, cleanup)
          BY <4>3, Zenon
        <5> QED
          BY <1>1, <5>1 DEF Allocate, NoCall
      <4> QED
        BY <3>1, <4>1, <4>2, <4>3
    <3> QED
      BY <3>2, SamePush
  <2> QED
    BY <2>1, <2>2
<1> QED
  BY <1>2, <1>3

(* It holds at all times. *)
LEMMA PushInvariance == Spec => []PushedFromHeap
<1>1. Init => PushedFromHeap
  BY DEF Init, PushedFromHeap, NoCall
<1>2. IInv /\ PushedFromHeap /\ [Next]_vars => PushedFromHeap'
  <2> SUFFICES ASSUME IInv, PushedFromHeap, [Next]_vars PROVE PushedFromHeap'
    OBVIOUS
  <2>1. CASE UNCHANGED vars
    BY <2>1 DEF vars, PushedFromHeap
  <2>2. CASE Next
    BY <2>2, PushStepKeeps DEF Next
  <2> QED
    BY <2>1, <2>2
<1> QED
  BY <1>1, <1>2, Invariance, PTL DEF Spec

(* What the blocks of an arena are, when it is not being freed. *)
LEMMA HeldByList ==
  ASSUME IInv, PushedFromHeap, NEW a \in Arenas, arena[a].alive, ~ Freed(a)
  PROVE  /\ {b \in Memory : heap[b].arena = a} = BlocksFrom(arena[a].blocks) \union Pushed(a)
         /\ InitialBlock[a] # NULL =>
              InitialBlock[a] \in BlocksFrom(arena[a].blocks) /\ heap[InitialBlock[a]].next = NULL
<1> DEFINE head == arena[a].blocks
           list == BlocksFrom(head)
<1>1. head \in Memory \union {NULL} /\ a # NULL
  BY Constants DEF IInv, TypeOK, ArenaType
<1>2. /\ head # NULL => heap[head].arena = a /\ heap[head].depth > 0
      /\ \A b \in Memory : heap[b].arena = a =>
           \/ heap[b].depth > 0 /\ heap[b].depth <= Depth(head)
           \/ \E t \in Threads : Pending(t, b)
  BY DEF IInv, Headed
<1>3. head # NULL => list = Below(head)
  BY <1>1, <1>2, ListIsBelow
<1>4. ASSUME NEW b \in Memory, heap[b].arena = a, heap[b].depth > 0, heap[b].depth <= Depth(head)
      PROVE  b \in list
  <2>1. head # NULL
    <3>1. heap[b].depth \in Nat
      BY <1>1, <1>4, Links
    <3> QED
      BY <1>4, <3>1 DEF Depth
  <2> QED
    BY <1>2, <1>3, <1>4, <2>1 DEF Below, Depth
<1>5. ASSUME NEW b \in Memory, heap[b].arena = a PROVE b \in list \union Pushed(a)
  <2>1. CASE heap[b].depth > 0 /\ heap[b].depth <= Depth(head)
    BY <1>4, <1>5, <2>1
  <2>2. CASE \E t \in Threads : Pending(t, b)
    <3>1. PICK t \in Threads : Pending(t, b)
      BY <2>2
    <3>2. call[t].pc \in Owning /\ call[t].pc # "idle" /\ call[t].block = b /\ OwnsBlock(t)
      BY <3>1 DEF Pending, Owning, IInv, CallOK
    <3>3. call[t].arena = a
      BY <1>5, <3>2 DEF OwnsBlock
    <3> QED
      BY <3>1, <3>3 DEF Pending, Pushed
  <2> QED
    BY <1>2, <1>5, <2>1, <2>2
<1>6. ASSUME NEW b \in list PROVE b \in Memory /\ heap[b].arena = a
  BY <1>2, <1>3, <1>6, NothingFromNull DEF Below
<1>7. ASSUME NEW b \in Pushed(a) PROVE b \in Memory /\ heap[b].arena = a
  <2>1. PICK t \in Threads :
          call[t].block = b /\ call[t].arena = a /\ call[t].pc \in {"lock", "publish"}
    BY DEF Pushed
  <2>2. OwnsBlock(t) /\ call[t] \in CallType
    BY DEF IInv, CallOK, TypeOK
  <2>3. call[t].block \in Memory \union {NULL} /\ call[t].block # NULL
    BY <2>1, <2>2 DEF CallType, OwnsBlock, Owning
  <2> QED
    BY <2>1, <2>2, <2>3 DEF OwnsBlock
<1>8. ASSUME InitialBlock[a] # NULL
      PROVE  InitialBlock[a] \in list /\ heap[InitialBlock[a]].next = NULL
  <2> DEFINE b == InitialBlock[a]
  <2>1. b \in Memory /\ b \notin HeapBlocks
    BY <1>8, Constants
  <2>2. heap[b].arena = a /\ heap[b].depth = 1
    BY <1>8 DEF IInv, InitialBlocks
  <2>3. \A t \in Threads : ~ Pending(t, b)
    BY <2>1 DEF Pending, PushedFromHeap
  <2> QED
    BY <1>1, <1>2, <1>4, <2>1, <2>2, <2>3, Links
<1> QED
  BY <1>5, <1>6, <1>7, <1>8

(* What they are while they are freed. *)
LEMMA HeldWhileFreed ==
  ASSUME IInv, NEW a \in Arenas, arena[a].alive, Freed(a)
  PROVE  {b \in Memory : heap[b].arena = a} = Left(a)
<1>1. PICK t \in Threads : call[t].arena = a /\ call[t].pc = "free"
  BY DEF Freed, At
<1>2. call[t].op \in ReleaseOps /\ call[t].block \in Memory \union {NULL} /\ a # NULL
      /\ call[t].full \in Memory \union {NULL}
  BY <1>1, Constants DEF IInv, CallOK, CallConsistent, TypeOK, CallType
<1>3. \A u \in Threads : call[u].arena = a => u = t
  BY <1>1, <1>2 DEF IInv, ReleasedAlone
<1>4. Left(a) = BlocksFrom(call[t].block) \union ({call[t].full} \ {NULL})
  BY <1>1, <1>3 DEF Left, At
<1>5. /\ call[t].block # NULL => heap[call[t].block].arena = a
      /\ \A b \in Memory : heap[b].arena = a =>
           heap[b].depth > 0 /\ (heap[b].depth <= Depth(call[t].block) \/ b = call[t].full)
      /\ call[t].full # NULL => call[t].full = InitialBlock[a]
  BY <1>1 DEF IInv, CallOK, OwnsBlock, FreeProgress
<1>6. call[t].block # NULL => BlocksFrom(call[t].block) = Below(call[t].block)
  BY <1>2, <1>5, ListIsBelow
<1>7. ASSUME NEW b \in Memory, heap[b].arena = a PROVE b \in Left(a)
  <2>1. CASE b = call[t].full
    BY <1>4, <2>1, Constants
  <2>2. CASE b # call[t].full
    <3>1. heap[b].depth > 0 /\ heap[b].depth <= Depth(call[t].block)
      BY <1>5, <1>7, <2>2
    <3>2. call[t].block # NULL
      <4>1. heap[b].depth \in Nat
        BY <1>2, <1>7, Links
      <4> QED
        BY <3>1, <4>1 DEF Depth
    <3> QED
      BY <1>4, <1>5, <1>6, <1>7, <3>1, <3>2 DEF Below, Depth
  <2> QED
    BY <2>1, <2>2
<1>8. ASSUME NEW b \in Left(a) PROVE b \in Memory /\ heap[b].arena = a
  <2>1. CASE b \in BlocksFrom(call[t].block)
    BY <1>5, <1>6, <2>1, NothingFromNull DEF Below
  <2>2. CASE b = call[t].full /\ b # NULL
    BY <1>2, <1>5, <2>2 DEF IInv, InitialBlocks
  <2> QED
    BY <1>4, <1>8, <2>1, <2>2
<1> QED
  BY <1>7, <1>8

(* Every block ever obtained is in the list of its arena, about to be        *)
(* pushed, or freed: pushes that overlap lose none, and a reset frees all    *)
(* but the initial block, which is the last (arena.cc:143, :272).            *)
THEOREM NothingLost == Spec => []NoBlockLost
<1>1. IInv /\ PushedFromHeap => NoBlockLost
  <2> SUFFICES ASSUME IInv, PushedFromHeap, NEW a \in Arenas
               PROVE  LET held == {b \in Memory : heap[b].arena = a}
                          list == BlocksFrom(arena[a].blocks)
                      IN /\ ~ arena[a].alive => held \subseteq {InitialBlock[a]}
                         /\ arena[a].alive /\ Freed(a) => held = Left(a)
                         /\ arena[a].alive /\ ~ Freed(a) =>
                              /\ held = list \union Pushed(a)
                              /\ InitialBlock[a] # NULL =>
                                   InitialBlock[a] \in list /\ heap[InitialBlock[a]].next = NULL
    BY Zenon DEF NoBlockLost
  <2>1. ~ arena[a].alive => {b \in Memory : heap[b].arena = a} \subseteq {InitialBlock[a]}
    BY DEF IInv, InitialBlocks
  <2>2. arena[a].alive \in BOOLEAN
    BY DEF IInv, TypeOK, ArenaType
  <2> QED
    BY <2>1, <2>2, HeldByList, HeldWhileFreed
<1> QED
  BY <1>1, Invariance, PushInvariance, PTL

-----------------------------------------------------------------------------
(* Sums. *)

(* What SumOver takes its value from: g adds up f over the subsets of S, of  *)
(* each set the first element first.                                        *)
First(s) == CHOOSE x \in s : TRUE
Adds(g, f, S) ==
  g = [s \in SUBSET S |-> IF s = {} THEN 0 ELSE f[First(s)] + g[s \ {First(s)}]]

(* SumOver is what such a function gives S. *)
LEMMA SumIsAdded ==
  ASSUME NEW f, NEW S
  PROVE  SumOver(f, S) = (CHOOSE g : Adds(g, f, S))[S]
BY DEF SumOver, MapThenSumSet, MapThenFoldSet, Adds, First

(* Of a set of subsets of a finite set one has no other one below it.        *)
LEMMA SmallestSet ==
  ASSUME NEW S, IsFiniteSet(S), NEW T, T \subseteq SUBSET S, T # {}
  PROVE  \E s \in T : \A u \in T : u \subseteq s => u = s
<1>1. T \subseteq FiniteSubsetsOf(S)
  BY FS_Subset DEF FiniteSubsetsOf
<1>2. PICK s \in T : \A u \in T : ~ (<<u, s>> \in StrictSubsetOrdering(S))
  BY <1>1, WFMin, FS_StrictSubsetOrderingWellFounded
<1>3. \A u \in T : u \subseteq s => u = s
  BY <1>2 DEF StrictSubsetOrdering
<1> QED
  BY <1>3

(* The value at a set. *)
LEMMA AddsValue ==
  ASSUME NEW g, NEW f, NEW S, Adds(g, f, S), NEW s \in SUBSET S
  PROVE  /\ s = {} => g[s] = 0
         /\ s # {} => First(s) \in s /\ g[s] = f[First(s)] + g[s \ {First(s)}]
BY DEF Adds, First

(* All such functions agree. *)
LEMMA AddsAgree ==
  ASSUME NEW f, NEW S, IsFiniteSet(S), NEW T, NEW g, NEW h, Adds(g, f, S), Adds(h, f, T),
         NEW s \in SUBSET S, s \in SUBSET T
  PROVE  g[s] = h[s]
<1> DEFINE Bad == {u \in SUBSET S : u \in SUBSET T /\ g[u] # h[u]}
<1>1. SUFFICES ASSUME Bad # {} PROVE FALSE
  OBVIOUS
<1>2. Bad \subseteq SUBSET S
  OBVIOUS
<1>3. PICK u \in Bad : \A v \in Bad : v \subseteq u => v = u
  <2> HIDE DEF Bad
  <2> QED
    BY <1>1, <1>2, SmallestSet
<1>4. u \in SUBSET S /\ u \in SUBSET T /\ g[u] # h[u]
  BY <1>3
<1>5. u # {}
  <2>1. ASSUME u = {} PROVE g[u] = 0 /\ h[u] = 0
    BY <1>4, <2>1 DEF Adds
  <2> QED
    BY <1>4, <2>1
<1>6. First(u) \in u /\ g[u] = f[First(u)] + g[u \ {First(u)}]
  BY <1>4, <1>5 DEF Adds, First
<1>7. h[u] = f[First(u)] + h[u \ {First(u)}]
  BY <1>4, <1>5 DEF Adds
<1>8. g[u \ {First(u)}] = h[u \ {First(u)}]
  BY <1>3, <1>4, <1>6
<1> QED
  BY <1>4, <1>6, <1>7, <1>8

(* There is such a function for every finite set. *)
LEMMA AddsExists ==
  ASSUME NEW f, NEW S, IsFiniteSet(S)
  PROVE  \E g : Adds(g, f, S)
<1> DEFINE Bad == {u \in SUBSET S : ~ \E g : Adds(g, f, u)}
<1>1. SUFFICES ASSUME Bad # {} PROVE FALSE
  OBVIOUS
<1>2. Bad \subseteq SUBSET S
  OBVIOUS
<1>3. PICK s \in Bad : \A v \in Bad : v \subseteq s => v = s
  <2> HIDE DEF Bad
  <2> QED
    BY <1>1, <1>2, SmallestSet
<1>4. s \in SUBSET S /\ ~ \E g : Adds(g, f, s)
  BY <1>3
<1>5. \A v \in SUBSET s : v # s => \E g : Adds(g, f, v)
  BY <1>3, <1>4
<1> DEFINE G(v) == (CHOOSE g : Adds(g, f, v))[v]
           h == [v \in SUBSET s |->
                  IF v = {} THEN 0 ELSE f[First(v)] + G(v \ {First(v)})]
<1>6. ASSUME NEW w \in SUBSET s, w # s PROVE h[w] = G(w)
  <2>1. PICK g : g = (CHOOSE k : Adds(k, f, w))
    OBVIOUS
  <2>2. Adds(g, f, w) /\ G(w) = g[w]
    BY <1>5, <1>6, <2>1
  <2>3. CASE w = {}
    <3>1. g[w] = 0
      BY <2>2, <2>3, AddsValue
    <3> QED
      BY <2>2, <2>3, <3>1
  <2>4. CASE w # {}
    <3>1. First(w) \in w /\ g[w] = f[First(w)] + g[w \ {First(w)}]
      BY <2>2, <2>4, AddsValue
    <3>2. PICK k : k = (CHOOSE j : Adds(j, f, w \ {First(w)}))
      OBVIOUS
    <3>3. Adds(k, f, w \ {First(w)}) /\ G(w \ {First(w)}) = k[w \ {First(w)}]
      BY <1>5, <1>6, <3>1, <3>2
    <3>4. IsFiniteSet(w) /\ IsFiniteSet(w \ {First(w)})
      BY <1>4, FS_Subset
    <3> DEFINE v == w \ {First(w)}
    <3>5. k[v] = g[v]
      <4>1. v \in SUBSET v /\ v \in SUBSET w
        OBVIOUS
      <4>2. IsFiniteSet(v) /\ Adds(k, f, v) /\ Adds(g, f, w)
        BY <2>2, <3>3, <3>4
      <4> HIDE DEF v
      <4> QED
        BY <4>1, <4>2, AddsAgree
    <3>6. h[w] = f[First(w)] + G(w \ {First(w)})
      BY <2>4, <3>1
    <3> QED
      BY <2>2, <3>1, <3>3, <3>5, <3>6
  <2> QED
    BY <2>3, <2>4
<1>7. ASSUME NEW v \in SUBSET s, v # {}
      PROVE  h[v \ {First(v)}] = G(v \ {First(v)})
  <2>1. First(v) \in v
    BY <1>7 DEF First
  <2>2. v \ {First(v)} \in SUBSET s /\ v \ {First(v)} # s
    BY <1>7, <2>1
  <2> HIDE DEF h, G
  <2> QED
    BY <1>6, <2>2
<1>8. Adds(h, f, s)
  <2>1. \A v \in SUBSET s :
          h[v] = IF v = {} THEN 0 ELSE f[First(v)] + h[v \ {First(v)}]
    <3> SUFFICES ASSUME NEW v \in SUBSET s
                 PROVE  h[v] = IF v = {} THEN 0 ELSE f[First(v)] + h[v \ {First(v)}]
      OBVIOUS
    <3>1. h[v] = IF v = {} THEN 0 ELSE f[First(v)] + G(v \ {First(v)})
      OBVIOUS
    <3> HIDE DEF h, G
    <3> QED
      BY <1>7, <3>1
  <2>2. h = [v \in SUBSET s |-> h[v]]
    OBVIOUS
  <2> HIDE DEF h
  <2> QED
    BY <2>1, <2>2 DEF Adds
<1> QED
  BY <1>4, <1>8

(* A sum takes one element first, and adds the sum over the others.          *)
LEMMA SumFirst ==
  ASSUME NEW f, NEW S, IsFiniteSet(S)
  PROVE  /\ S = {} => SumOver(f, S) = 0
         /\ S # {} => /\ First(S) \in S
                      /\ SumOver(f, S) = f[First(S)] + SumOver(f, S \ {First(S)})
<1>1. PICK g : g = (CHOOSE k : Adds(k, f, S))
  OBVIOUS
<1>2. Adds(g, f, S) /\ SumOver(f, S) = g[S]
  BY <1>1, AddsExists, SumIsAdded
<1>3. S = {} => SumOver(f, S) = 0
  BY <1>2, AddsValue
<1>4. ASSUME S # {}
      PROVE  First(S) \in S /\ SumOver(f, S) = f[First(S)] + SumOver(f, S \ {First(S)})
  <2>1. First(S) \in S /\ g[S] = f[First(S)] + g[S \ {First(S)}]
    BY <1>2, <1>4, AddsValue
  <2>2. PICK h : h = (CHOOSE k : Adds(k, f, S \ {First(S)}))
    OBVIOUS
  <2>3. IsFiniteSet(S \ {First(S)})
    BY FS_Subset
  <2>4. Adds(h, f, S \ {First(S)}) /\ SumOver(f, S \ {First(S)}) = h[S \ {First(S)}]
    BY <2>2, <2>3, AddsExists, SumIsAdded
  <2>5. g[S \ {First(S)}] = h[S \ {First(S)}]
    BY <1>2, <2>4, AddsAgree
  <2> QED
    BY <1>2, <2>1, <2>4, <2>5
<1> QED
  BY <1>3, <1>4

(* A sum of natural numbers is one, of larger ones is larger, and does not    *)
(* depend on the order in which they are added.                             *)
LEMMA SumNat ==
  ASSUME NEW S, IsFiniteSet(S), NEW f, \A x \in S : f[x] \in Nat
  PROVE  SumOver(f, S) \in Nat
<1> DEFINE Bad == {u \in SUBSET S : SumOver(f, u) \notin Nat}
<1>1. SUFFICES ASSUME Bad # {} PROVE FALSE
  OBVIOUS
<1>2. Bad \subseteq SUBSET S
  OBVIOUS
<1>3. PICK u \in Bad : \A v \in Bad : v \subseteq u => v = u
  <2> HIDE DEF Bad
  <2> QED
    BY <1>1, <1>2, SmallestSet
<1>4. u \in SUBSET S /\ SumOver(f, u) \notin Nat /\ IsFiniteSet(u)
  BY <1>3, FS_Subset
<1>5. u # {}
  <2>1. ASSUME u = {} PROVE SumOver(f, u) = 0
    BY <1>4, <2>1, SumFirst
  <2> QED
    BY <1>4, <2>1
<1>6. First(u) \in u /\ SumOver(f, u) = f[First(u)] + SumOver(f, u \ {First(u)})
  BY <1>4, <1>5, SumFirst
<1>7. SumOver(f, u \ {First(u)}) \in Nat
  BY <1>3, <1>4, <1>6
<1> QED
  BY <1>4, <1>6, <1>7

(* The same for a function with values below those of another.              *)
LEMMA SumMonotone ==
  ASSUME NEW S, IsFiniteSet(S), NEW f, NEW g,
         \A x \in S : f[x] \in Nat /\ g[x] \in Nat /\ f[x] <= g[x]
  PROVE  SumOver(f, S) <= SumOver(g, S)
<1> DEFINE Bad == {u \in SUBSET S : ~ (SumOver(f, u) <= SumOver(g, u))}
<1>1. SUFFICES ASSUME Bad # {} PROVE FALSE
  OBVIOUS
<1>2. Bad \subseteq SUBSET S
  OBVIOUS
<1>3. PICK u \in Bad : \A v \in Bad : v \subseteq u => v = u
  <2> HIDE DEF Bad
  <2> QED
    BY <1>1, <1>2, SmallestSet
<1>4. u \in SUBSET S /\ ~ (SumOver(f, u) <= SumOver(g, u)) /\ IsFiniteSet(u)
  BY <1>3, FS_Subset
<1>5. u # {}
  <2>1. ASSUME u = {} PROVE SumOver(f, u) = 0 /\ SumOver(g, u) = 0
    BY <1>4, <2>1, SumFirst
  <2> QED
    BY <1>4, <2>1
<1>6. First(u) \in u /\ SumOver(f, u) = f[First(u)] + SumOver(f, u \ {First(u)})
  BY <1>4, <1>5, SumFirst
<1>7. SumOver(g, u) = g[First(u)] + SumOver(g, u \ {First(u)})
  BY <1>4, <1>5, SumFirst
<1>8. SumOver(f, u \ {First(u)}) <= SumOver(g, u \ {First(u)})
  BY <1>3, <1>4, <1>6
<1>9. IsFiniteSet(u \ {First(u)}) /\ \A y \in u \ {First(u)} : f[y] \in Nat /\ g[y] \in Nat
  BY <1>4, FS_Subset
<1>10. SumOver(f, u \ {First(u)}) \in Nat /\ SumOver(g, u \ {First(u)}) \in Nat
  BY <1>9, SumNat
<1> QED
  BY <1>4, <1>6, <1>7, <1>8, <1>10

(* Equal values have equal sums. *)
LEMMA SumSame ==
  ASSUME NEW S, IsFiniteSet(S), NEW f, NEW g, \A x \in S : f[x] = g[x]
  PROVE  SumOver(f, S) = SumOver(g, S)
<1> DEFINE Bad == {u \in SUBSET S : SumOver(f, u) # SumOver(g, u)}
<1>1. SUFFICES ASSUME Bad # {} PROVE FALSE
  OBVIOUS
<1>2. Bad \subseteq SUBSET S
  OBVIOUS
<1>3. PICK u \in Bad : \A v \in Bad : v \subseteq u => v = u
  <2> HIDE DEF Bad
  <2> QED
    BY <1>1, <1>2, SmallestSet
<1>4. u \in SUBSET S /\ SumOver(f, u) # SumOver(g, u) /\ IsFiniteSet(u)
  BY <1>3, FS_Subset
<1>5. u # {}
  <2>1. ASSUME u = {} PROVE SumOver(f, u) = 0 /\ SumOver(g, u) = 0
    BY <1>4, <2>1, SumFirst
  <2> QED
    BY <1>4, <2>1
<1>6. First(u) \in u /\ SumOver(f, u) = f[First(u)] + SumOver(f, u \ {First(u)})
  BY <1>4, <1>5, SumFirst
<1>7. SumOver(g, u) = g[First(u)] + SumOver(g, u \ {First(u)})
  BY <1>4, <1>5, SumFirst
<1>8. SumOver(f, u \ {First(u)}) = SumOver(g, u \ {First(u)})
  BY <1>3, <1>4, <1>6
<1> QED
  BY <1>4, <1>6, <1>7, <1>8

(* Nothing adds up to nothing. *)
LEMMA SumZero ==
  ASSUME NEW S, IsFiniteSet(S), NEW f, \A x \in S : f[x] = 0
  PROVE  SumOver(f, S) = 0
<1> DEFINE Bad == {u \in SUBSET S : SumOver(f, u) # 0}
<1>1. SUFFICES ASSUME Bad # {} PROVE FALSE
  OBVIOUS
<1>2. Bad \subseteq SUBSET S
  OBVIOUS
<1>3. PICK u \in Bad : \A v \in Bad : v \subseteq u => v = u
  <2> HIDE DEF Bad
  <2> QED
    BY <1>1, <1>2, SmallestSet
<1>4. u \in SUBSET S /\ SumOver(f, u) # 0 /\ IsFiniteSet(u)
  BY <1>3, FS_Subset
<1>5. First(u) \in u /\ SumOver(f, u) = f[First(u)] + SumOver(f, u \ {First(u)})
  BY <1>4, SumFirst
<1>6. SumOver(f, u \ {First(u)}) = 0
  BY <1>3, <1>4, <1>5
<1> QED
  BY <1>4, <1>5, <1>6

(* Any element may be the one that is added last. *)
LEMMA SumOneMore ==
  ASSUME NEW S, IsFiniteSet(S), NEW f, \A y \in S : f[y] \in Nat, NEW x \in S
  PROVE  SumOver(f, S) = f[x] + SumOver(f, S \ {x})
<1> DEFINE Bad == {u \in SUBSET S : \E z \in u : SumOver(f, u) # f[z] + SumOver(f, u \ {z})}
<1>1. SUFFICES ASSUME Bad # {} PROVE FALSE
  OBVIOUS
<1>2. Bad \subseteq SUBSET S
  OBVIOUS
<1>3. PICK u \in Bad : \A v \in Bad : v \subseteq u => v = u
  <2> HIDE DEF Bad
  <2> QED
    BY <1>1, <1>2, SmallestSet
<1>4. u \in SUBSET S /\ IsFiniteSet(u) /\ \E z \in u : SumOver(f, u) # f[z] + SumOver(f, u \ {z})
  BY <1>3, FS_Subset
<1>5. PICK z \in u : SumOver(f, u) # f[z] + SumOver(f, u \ {z})
  BY <1>4
<1>6. PICK y \in u : SumOver(f, u) = f[y] + SumOver(f, u \ {y})
  BY <1>4, SumFirst
<1>7. y # z
  BY <1>5, <1>6
<1>8. \A v \in SUBSET u : v # u => \A k \in v : SumOver(f, v) = f[k] + SumOver(f, v \ {k})
  BY <1>3, <1>4
<1>9. SumOver(f, u \ {y}) = f[z] + SumOver(f, (u \ {y}) \ {z})
  BY <1>7, <1>8
<1>10. SumOver(f, u \ {z}) = f[y] + SumOver(f, (u \ {z}) \ {y})
  BY <1>7, <1>8
<1>11. (u \ {z}) \ {y} = (u \ {y}) \ {z}
  OBVIOUS
<1>12. SumOver(f, (u \ {y}) \ {z}) \in Nat
  <2>1. IsFiniteSet((u \ {y}) \ {z}) /\ \A k \in (u \ {y}) \ {z} : f[k] \in Nat
    BY <1>4, FS_Subset
  <2> QED
    BY <2>1, SumNat
<1>13. f[y] \in Nat /\ f[z] \in Nat
  BY <1>4
<1> QED
  BY <1>5, <1>6, <1>9, <1>10, <1>11, <1>12, <1>13

-----------------------------------------------------------------------------
(* The list of an arena, and what a step does to it. *)

(* The blocks of the list of a, by depth. *)
Listed(a) ==
  {b \in Memory : /\ heap[b].arena = a /\ heap[b].depth > 0
                  /\ heap[b].depth <= Depth(arena[a].blocks)}

(* They are those that are reached from the head. *)
LEMMA ListIsListed ==
  ASSUME IInv, NEW a \in Arenas, ~ Freed(a)
  PROVE  BlocksFrom(arena[a].blocks) = Listed(a)
<1>1. arena[a].blocks \in Memory \union {NULL} /\ a # NULL
  BY Constants DEF IInv, TypeOK, ArenaType
<1>2. arena[a].blocks # NULL =>
        heap[arena[a].blocks].arena = a /\ heap[arena[a].blocks].depth > 0
  BY DEF IInv, Headed
<1>3. CASE arena[a].blocks = NULL
  <2>1. \A b \in Memory : heap[b].depth \in Nat
    BY DEF IInv, TypeOK, BlockType
  <2> QED
    BY <1>3, <2>1, NothingFromNull DEF Listed, Depth
<1>4. CASE arena[a].blocks # NULL
  BY <1>1, <1>2, <1>4, ListIsBelow DEF Below, Listed, Depth
<1> QED
  BY <1>3, <1>4

(* What the walks and SpaceUsed see of a block stays; its position may grow. *)
SameBlock(b) ==
  /\ heap'[b].arena = heap[b].arena /\ heap'[b].owner = heap[b].owner
  /\ heap'[b].next = heap[b].next /\ heap'[b].depth = heap[b].depth
  /\ heap'[b].size = heap[b].size /\ heap'[b].pos >= heap[b].pos
ListSame(a) ==
  /\ arena'[a].alive = arena[a].alive /\ arena'[a].blocks = arena[a].blocks
  /\ arena'[a].space_allocated = arena[a].space_allocated
  /\ Listed(a)' = Listed(a) /\ \A b \in Listed(a) : SameBlock(b)

(* The list stays when only blocks that are not in it change.               *)
LEMMA ListStays ==
  ASSUME IInv, TypeOK', NEW a \in Arenas, ~ Freed(a),
         arena'[a].alive = arena[a].alive, arena'[a].blocks = arena[a].blocks,
         arena'[a].space_allocated = arena[a].space_allocated,
         \A b \in Memory :
           \/ SameBlock(b)
           \/ /\ heap[b].arena # a \/ heap[b].depth = 0
              /\ \/ heap'[b].arena # a
                 \/ heap'[b].depth = 0
                 \/ heap'[b].depth > Depth(arena[a].blocks)
  PROVE  ListSame(a)
<1> DEFINE head == arena[a].blocks
<1>1. /\ head \in Memory \union {NULL} /\ a # NULL
      /\ head # NULL => heap[head].arena = a /\ heap[head].depth > 0
  BY Constants DEF IInv, TypeOK, ArenaType, Headed
<1>2. \A b \in Memory : heap[b].depth \in Nat /\ heap'[b].depth \in Nat
  BY DEF IInv, TypeOK, BlockType
<1>3. head # NULL => heap'[head].depth = heap[head].depth
  BY <1>1, <1>2 DEF SameBlock
<1>4. Depth(head)' = Depth(head) /\ Depth(head) \in Nat
  BY <1>1, <1>2, <1>3 DEF Depth
<1>5. ASSUME NEW b \in Memory PROVE b \in Listed(a)' <=> b \in Listed(a)
  BY <1>2, <1>4, <1>5 DEF Listed, SameBlock
<1>6. \A b \in Listed(a) : SameBlock(b)
  BY <1>2 DEF Listed
<1>7. Listed(a) \subseteq Memory /\ Listed(a)' \subseteq Memory
  BY DEF Listed
<1> QED
  BY <1>5, <1>6, <1>7 DEF ListSame

(* What a step of t may do to the list of a, other than leave it: push a    *)
(* block, start it anew, free its blocks.                                   *)
Pushes(t, a) == PublishBlock(t) /\ call[t].arena = a
Restarts(t, a) == Construct(t, a) \/ (FinishReset(t) /\ call[t].arena = a)

(* The bytes of a chunk. *)
LEMMA ChunkBytesNat ==
  ASSUME NEW k \in Nat
  PROVE  ChunkBytes(k) \in Nat
<1>1. CleanupNodeSize \in Nat /\ ChunkHeaderSize \in Nat
  BY ArenaAssumption
<1>2. k * CleanupNodeSize \in Nat
  BY <1>1
<1> QED
  BY <1>1, <1>2 DEF ChunkBytes

(* FreeBlocks ends with the initial block alone. *)
LEMMA KeptAtTheEnd ==
  ASSUME IInv, NEW t \in Threads, FinishReset(t)
  PROVE  /\ call[t].arena \in Arenas /\ arena[call[t].arena].alive
         /\ call[t].full = InitialBlock[call[t].arena]
         /\ \A m \in Memory : heap[m].arena = call[t].arena => m = call[t].full
<1> DEFINE a == call[t].arena
<1>0. /\ FieldsTyped /\ InitialBlocks /\ CallConsistent(t) /\ FreeProgress(t)
      /\ call[t].pc = "free" /\ call[t].block = NULL
  BY TypeOfFields DEF IInv, CallOK, FinishReset, At
<1>1. a \in Arenas /\ arena[a].alive
  BY <1>0 DEF CallConsistent
<1>2. \A m \in Memory : heap[m].arena = a => m = call[t].full
  <2> SUFFICES ASSUME NEW m \in Memory, heap[m].arena = a PROVE m = call[t].full
    OBVIOUS
  <2>1. heap[m].depth \in Nat /\ heap[m].depth > 0
    BY <1>0 DEF FreeProgress, FieldsTyped
  <2>2. Depth(call[t].block) = 0
    BY <1>0 DEF Depth
  <2>3. heap[m].depth <= 0 \/ m = call[t].full
    BY <1>0, <2>2 DEF FreeProgress
  <2> QED
    BY <2>1, <2>3
<1>3. call[t].full = InitialBlock[a]
  BY <1>0, <1>1, <1>2, Constants DEF FreeProgress, InitialBlocks
<1> QED
  BY <1>1, <1>2, <1>3

(* A step of t is in no other thread's call. *)
LEMMA OthersStay ==
  ASSUME IInv, NEW t \in Threads, CallStep(t) \/ Begin(t), NEW u \in Threads \ {t}
  PROVE  call'[u] = call[u]
<1>1. call \in [Threads -> CallType]
  BY DEF IInv, TypeOK
<1>2. CASE CallStep(t)
  BY <1>1, <1>2 DEF CallStep, GetBlock, FindBlock, WalkBlocks, NewBlock, BadAlloc, LockBlocks,
     PublishBlock, CacheBlock, AllocFromBlock, AddCleanupInBlock, ExpandCleanupList,
     AddCleanupChunk, CleanupList, FreeBlocks, FinishReset, WalkUsed, SumBlock, SpaceUsedReturns,
     Goto, GotoWith, Return
<1>3. CASE Begin(t)
  BY <1>1, <1>3 DEF Begin, ThreadExit, Construct, Reset, Destroy, Release, SpaceUsed, Allocate
<1> QED
  BY <1>2, <1>3

(* The steps that allocate from the thread's own blocks. *)
OwnStep(t) == CacheBlock(t) \/ AllocFromBlock(t) \/ AddCleanupInBlock(t) \/ AddCleanupChunk(t)

(* Of the blocks they change the position and the cleanups, of the arenas    *)
(* the hint and the histories.                                              *)
LEMMA OwnStepEffect ==
  ASSUME IInv, NEW t \in Threads, OwnStep(t)
  PROVE  /\ \A b \in Memory : SameBlock(b)
         /\ \A a \in Arenas :
              /\ arena'[a].alive = arena[a].alive /\ arena'[a].blocks = arena[a].blocks
              /\ arena'[a].space_allocated = arena[a].space_allocated
              /\ arena'[a].lifecycle_id = arena[a].lifecycle_id
<1> DEFINE b == call[t].block
           c == call[t].arena
<1>1. /\ heap \in [Memory -> BlockType] /\ arena \in [Arenas -> ArenaType]
      /\ call[t] \in CallType
      /\ \A m \in Memory : heap[m].pos \in Nat
  BY DEF IInv, TypeOK, BlockType
<1>2. /\ c \in Arenas /\ b \in Memory
      /\ call[t].n \in Nat /\ ChunkBytes(call[t].chunk) \in Nat
  <2>1. call[t].chunk \in Nat
    BY <1>1 DEF CallType
  <2>2. ChunkBytes(call[t].chunk) \in Nat
    BY <2>1, ChunkBytesNat
  <2> QED
    BY <1>1, <2>2 DEF OwnStep, CacheBlock, AllocFromBlock, AddCleanupInBlock, AddCleanupChunk, At,
       IInv, CallOK, CallConsistent, OwnsBlock, Owning, CallType
<1>3. CASE CacheBlock(t)
  <2>1. call[t].full \in Memory \union {NULL}
    BY <1>1 DEF CallType
  <2>2. \A m \in Memory : SameBlock(m)
    BY <1>1, <1>3, <2>1 DEF CacheBlock, StealCleanupList, SameBlock, BlockType
  <2>3. \A a \in Arenas : arena'[a] = arena[a] \/ arena'[a] = [arena[a] EXCEPT !.hint = b]
    BY <1>1, <1>3 DEF CacheBlock
  <2>4. ASSUME NEW a \in Arenas
        PROVE  /\ arena'[a].alive = arena[a].alive /\ arena'[a].blocks = arena[a].blocks
               /\ arena'[a].space_allocated = arena[a].space_allocated
               /\ arena'[a].lifecycle_id = arena[a].lifecycle_id
    <3>1. arena[a] \in ArenaType
      BY <1>1
    <3> QED
      BY <2>3, <3>1 DEF ArenaType
  <2> QED
    BY <2>2, <2>4
<1>4. CASE AllocFromBlock(t)
  BY <1>1, <1>2, <1>4 DEF AllocFromBlock, SameBlock, BlockType
<1>5. CASE AddCleanupInBlock(t) \/ AddCleanupChunk(t)
  <2> DEFINE r == [arena[c].registered EXCEPT ![t] = arena[c].registered[t] + 1]
  <2>1. arena' = [arena EXCEPT ![c].registered = r]
    BY <1>1, <1>5 DEF AddCleanupInBlock, AddCleanupChunk, Register
  <2> HIDE DEF r
  <2>2. \A a \in Arenas : arena'[a] = arena[a] \/ arena'[a] = [arena[a] EXCEPT !.registered = r]
    BY <1>1, <2>1
  <2>3. \A m \in Memory : SameBlock(m)
    <3>1. CASE AddCleanupInBlock(t)
      <4>1. heap' = [heap EXCEPT ![b] = WithCleanup(t, b, heap[b].cleanup.size, heap[b].cleanup.room)]
        BY <3>1 DEF AddCleanupInBlock
      <4> QED
        BY <1>1, <1>2, <4>1 DEF WithCleanup, SameBlock, BlockType
    <3>2. CASE AddCleanupChunk(t)
      <4> DEFINE k == call[t].chunk
      <4>1. heap' = [heap EXCEPT ![b] =
                      [WithCleanup(t, b, k, k) EXCEPT !.pos = heap[b].pos + ChunkBytes(k)]]
        BY <3>2 DEF AddCleanupChunk
      <4> QED
        BY <1>1, <1>2, <4>1 DEF WithCleanup, SameBlock, BlockType
    <3> QED
      BY <1>5, <3>1, <3>2
  <2> QED
    BY <1>1, <2>2, <2>3 DEF ArenaType
<1> QED
  BY <1>3, <1>4, <1>5 DEF OwnStep

(* Every step. *)
LEMMA ListStep ==
  ASSUME IInv, IInv', NEW t \in Threads, CallStep(t) \/ Begin(t), NEW a \in Arenas,
         ~ Freed(a), ~ Freed(a)', ~ Pushes(t, a), ~ Restarts(t, a)
  PROVE  ListSame(a)
<1>0. /\ TypeOK' /\ call \in [Threads -> CallType] /\ heap \in [Memory -> BlockType]
      /\ arena \in [Arenas -> ArenaType] /\ a # NULL
      /\ \A b \in Memory : heap[b].pos \in Nat
      /\ \A b \in Memory : heap'[b].pos \in Nat
  BY Constants DEF IInv, TypeOK, BlockType
<1>1. CASE OwnStep(t)
  BY <1>0, <1>1, OwnStepEffect, ListStays
<1>2. CASE arena'[a] = arena[a] /\ heap' = heap
  <2>1. \A b \in Memory : SameBlock(b)
    BY <1>0, <1>2 DEF SameBlock
  <2> QED
    BY <1>0, <1>2, <2>1, ListStays
<1>3. CASE NewBlock(t)
  <2>1. PICK b \in HeapBlocks :
          /\ heap[b].arena = NULL
          /\ heap' = [heap EXCEPT ![b] =
               EmptyBlock(call[t].arena, t, NewBlockSize(call[t].block, Need(t)), 0)]
    BY <1>3 DEF NewBlock
  <2>2. ASSUME NEW c \in Memory, c # b PROVE SameBlock(c)
    BY <1>0, <2>1, <2>2 DEF SameBlock
  <2>3. b \in Memory /\ arena' = arena /\ heap'[b].depth = 0
    BY <1>0, <1>3, <2>1, Constants DEF NewBlock, EmptyBlock
  <2>4. heap[b].arena # a
    BY <1>0, <2>1
  <2> QED
    BY <1>0, <2>2, <2>3, <2>4, ListStays
<1>4. CASE LockBlocks(t)
  <2> DEFINE b == call[t].block
             c == call[t].arena
  <2>1. /\ c \in Arenas /\ b \in Memory /\ heap[b].arena = c /\ heap[b].depth = 0
    BY <1>0, <1>4 DEF LockBlocks, At, IInv, CallOK, CallConsistent, PendingBlock, OwnsBlock, Owning,
       CallType
  <2>2. /\ arena'[a].alive = arena[a].alive /\ arena'[a].blocks = arena[a].blocks
        /\ arena'[a].space_allocated = arena[a].space_allocated
    BY <1>0, <1>4, <2>1 DEF LockBlocks, ArenaType
  <2>3. ASSUME NEW d \in Memory, d # b PROVE SameBlock(d)
    BY <1>0, <1>4, <2>3 DEF LockBlocks, SameBlock
  <2>4. heap'[b].arena = c /\ heap'[b].depth = 1 + Depth(arena[c].blocks)
    BY <1>0, <1>4, <2>1 DEF LockBlocks, BlockType
  <2>5. Depth(arena[a].blocks) \in Nat
    BY <1>0 DEF Depth, ArenaType, BlockType
  <2>6. heap'[b].arena # a \/ heap'[b].depth > Depth(arena[a].blocks)
    BY <2>4, <2>5
  <2> QED
    BY <1>0, <2>1, <2>2, <2>3, <2>6, ListStays
<1>5. CASE PublishBlock(t)
  BY <1>0, <1>2, <1>5 DEF PublishBlock, Pushes, IInv, CallOK, CallConsistent, At
<1>6. CASE CleanupList(t)
  <2>1. arena'[a].alive = arena[a].alive /\ arena'[a].blocks = arena[a].blocks
        /\ arena'[a].space_allocated = arena[a].space_allocated
    <3> DEFINE c == call[t].arena
               r == arena[c].ran \o heap[call[t].block].cleanup.nodes
    <3>1. arena' = arena \/ arena' = [arena EXCEPT ![c].ran = r]
      BY <1>6 DEF CleanupList
    <3> HIDE DEF r, c
    <3>2. arena'[a] = arena[a] \/ arena'[a] = [arena[a] EXCEPT !.ran = r]
      BY <1>0, <3>1
    <3> QED
      BY <1>0, <3>2 DEF ArenaType
  <2>2. \A b \in Memory : SameBlock(b)
    BY <1>0, <1>6 DEF CleanupList, SameBlock
  <2> QED
    BY <1>0, <2>1, <2>2, ListStays
<1>7. CASE FreeBlocks(t)
  <2> DEFINE b == call[t].block
  <2>1. /\ b \in Memory /\ heap[b].arena = call[t].arena /\ call[t].arena # a
    BY <1>0, <1>7 DEF FreeBlocks, At, Freed, IInv, CallOK, OwnsBlock, CallType
  <2>2. arena' = arena
    BY <1>7 DEF FreeBlocks
  <2>3. heap' = heap \/ heap' = [heap EXCEPT ![b] = FreeBlock]
    BY <1>7 DEF FreeBlocks
  <2>4. ASSUME NEW d \in Memory, d # b PROVE SameBlock(d)
    BY <1>0, <2>3, <2>4 DEF SameBlock
  <2>5. SameBlock(b) \/ heap'[b].arena = NULL
    BY <1>0, <2>1, <2>3 DEF SameBlock, FreeBlock
  <2> QED
    BY <1>0, <2>1, <2>2, <2>4, <2>5, ListStays
<1>8. ASSUME NEW c \in Arenas, c # a, NEW b \in Memory \union {NULL}, NEW id,
             arena'[a] = arena[a], OwnInitialBlock(t, c, b, id),
             b = InitialBlock[c] \/ InitialBlock[c] = NULL
      PROVE  ListSame(a)
  <2>1. CASE InitialBlock[c] = NULL
    BY <1>2, <1>8, <2>1 DEF OwnInitialBlock
  <2>2. CASE InitialBlock[c] # NULL
    <3>1. b \in Memory /\ heap' = [heap EXCEPT ![b] = EmptyBlock(c, t, InitialBlockSize, 1)]
      BY <1>8, <2>2, Constants DEF OwnInitialBlock
    <3>2. ASSUME NEW d \in Memory, d # b PROVE SameBlock(d)
      BY <1>0, <3>1, <3>2 DEF SameBlock
    <3>3. heap'[b].arena # a
      BY <1>0, <1>8, <3>1 DEF EmptyBlock
    <3>4. heap[b].arena # a
      <4>1. \A d \in Memory : heap[d].arena # NULL =>
              d \in HeapBlocks \/ d = InitialBlock[heap[d].arena]
        BY DEF IInv, InitialBlocks
      <4> QED
        BY <1>0, <1>8, <2>2, <3>1, <4>1, Constants
    <3> QED
      BY <1>0, <1>8, <3>1, <3>2, <3>3, <3>4, ListStays
  <2> QED
    BY <2>1, <2>2
<1>9. CASE FinishReset(t)
  <2> DEFINE c == call[t].arena
  <2>1. /\ c \in Arenas /\ c # a /\ call[t].full \in Memory \union {NULL}
    BY <1>0, <1>9 DEF FinishReset, At, Restarts, IInv, CallOK, CallConsistent, CallType
  <2>2. arena'[a] = arena[a] /\ OwnInitialBlock(t, c, call[t].full, arena[c].lifecycle_id)
    BY <1>0, <1>9, <2>1 DEF FinishReset
  <2>3. call[t].full = InitialBlock[c]
    BY <1>9, KeptAtTheEnd
  <2> QED
    BY <1>8, <2>1, <2>2, <2>3
<1>10. CASE Begin(t)
  <2>1. ASSUME NEW c \in Arenas, Construct(t, c) PROVE ListSame(a)
    <3>1. c # a /\ arena'[a] = arena[a]
      BY <1>0, <2>1 DEF Construct, Restarts
    <3>2. OwnInitialBlock(t, c, InitialBlock[c], lifecycle_id_generator)
      BY <2>1 DEF Construct
    <3>3. InitialBlock[c] \in Memory \union {NULL}
      BY Constants
    <3> QED
      BY <1>8, <3>1, <3>2, <3>3
  <2>2. ASSUME NEW c \in Arenas, Reset(t, c) PROVE ListSame(a)
    <3>1. heap' = heap /\ arena' = [arena EXCEPT ![c].lifecycle_id = lifecycle_id_generator]
      BY <2>2 DEF Reset
    <3>2. /\ arena'[a].alive = arena[a].alive /\ arena'[a].blocks = arena[a].blocks
          /\ arena'[a].space_allocated = arena[a].space_allocated
      BY <1>0, <3>1 DEF ArenaType
    <3>3. \A b \in Memory : SameBlock(b)
      BY <1>0, <3>1 DEF SameBlock
    <3> QED
      BY <1>0, <3>2, <3>3, ListStays
  <2>3. CASE arena' = arena /\ heap' = heap
    BY <1>2, <2>3
  <2>4. CASE ~ (arena' = arena /\ heap' = heap)
    <3>1. \E c \in Arenas : Construct(t, c) \/ Reset(t, c)
      BY <1>10, <2>4, Zenon DEF Begin, ThreadExit, Destroy, SpaceUsed, Allocate
    <3> QED
      BY <2>1, <2>2, <3>1
  <2> QED
    BY <2>3, <2>4
<1> QED
  BY <1>1, <1>2, <1>3, <1>4, <1>5, <1>6, <1>7, <1>9, <1>10
  DEF CallStep, OwnStep, GetBlock, FindBlock, WalkBlocks, BadAlloc, ExpandCleanupList, WalkUsed, SpaceUsedReturns

-----------------------------------------------------------------------------
(* The block that is pushed becomes the first of the list. *)
LEMMA PushedListed ==
  ASSUME IInv, NEW t \in Threads, NEW a \in Arenas, Pushes(t, a)
  PROVE  /\ heap' = heap /\ ~ Freed(a) /\ call[t].block \in Memory \ Listed(a)
         /\ heap[call[t].block].arena = a /\ heap[call[t].block].owner = t
         /\ Listed(a)' = Listed(a) \union {call[t].block}
         /\ \A c \in Listed(a) : heap[c].depth < heap[call[t].block].depth
         /\ arena'[a].blocks = call[t].block /\ arena'[a].alive = arena[a].alive
         /\ arena'[a].space_allocated = arena[a].space_allocated + heap[call[t].block].size
         /\ arena'[a].lifecycle_id = arena[a].lifecycle_id /\ arena'[a].hint = arena[a].hint
         /\ arena'[a].registered = arena[a].registered /\ arena'[a].ran = arena[a].ran
<1> DEFINE b == call[t].block
           head == arena[a].blocks
<1>1. /\ heap \in [Memory -> BlockType] /\ arena \in [Arenas -> ArenaType] /\ call[t] \in CallType
      /\ \A m \in Memory : heap[m].depth \in Nat
      /\ a # NULL /\ NULL \notin Memory
  BY Constants DEF IInv, TypeOK, BlockType
<1>2. /\ b \in Memory /\ heap[b].arena = a /\ heap[b].owner = t
      /\ heap[b].depth = 1 + Depth(head) /\ call[t].op = "allocate" /\ call[t].arena = a
  BY <1>1 DEF Pushes, PublishBlock, At, IInv, CallOK, CallConsistent, AllocateLabels, PendingBlock,
     OwnsBlock, Owning, CallType
<1>3. heap' = heap /\ arena' = [arena EXCEPT ![a].blocks = b,
                                ![a].space_allocated = arena[a].space_allocated + heap[b].size,
                                ![a].lock = NULL]
  BY <1>2 DEF Pushes, PublishBlock
<1>4. arena'[a] = [arena[a] EXCEPT !.blocks = b,
                     !.space_allocated = arena[a].space_allocated + heap[b].size, !.lock = NULL]
  BY <1>1, <1>3
<1>5. ~ Freed(a)
  BY <1>2 DEF Freed, At, IInv, CallOK, CallConsistent, ReleasedAlone, ReleaseOps
<1>6. Depth(head) \in Nat
  BY <1>1 DEF Depth, ArenaType
<1>7. /\ arena'[a].blocks = b /\ arena'[a].alive = arena[a].alive
      /\ arena'[a].space_allocated = arena[a].space_allocated + heap[b].size
      /\ arena'[a].lifecycle_id = arena[a].lifecycle_id /\ arena'[a].hint = arena[a].hint
      /\ arena'[a].registered = arena[a].registered /\ arena'[a].ran = arena[a].ran
  BY <1>1, <1>4 DEF ArenaType
<1>8. Depth(arena[a].blocks)' = heap[b].depth
  BY <1>1, <1>2, <1>3, <1>7 DEF Depth
<1>9. \A c \in Memory : heap[c].arena = a /\ heap[c].depth = heap[b].depth => c = b
  BY <1>1, <1>2, <1>6, Links
<1>10. Listed(a)' = {c \in Memory : heap[c].arena = a /\ heap[c].depth > 0
                                    /\ heap[c].depth <= heap[b].depth}
  BY <1>3, <1>8 DEF Listed
<1>11. b \in Memory \ Listed(a) /\ \A c \in Listed(a) : heap[c].depth < heap[b].depth
  BY <1>1, <1>2, <1>6 DEF Listed
<1>12. ASSUME NEW c \in Memory PROVE c \in Listed(a)' <=> c \in Listed(a) \/ c = b
  BY <1>1, <1>2, <1>6, <1>9, <1>10 DEF Listed
<1>13. Listed(a)' = Listed(a) \union {b}
  BY <1>2, <1>10, <1>12 DEF Listed
<1> QED
  BY <1>2, <1>3, <1>5, <1>7, <1>11, <1>13

(* An arena that starts anew has its initial block, which is empty and the   *)
(* thread's, or no block.                                                    *)
LEMMA RestartListed ==
  ASSUME IInv, IInv', NEW t \in Threads, NEW a \in Arenas, Restarts(t, a)
  PROVE  /\ Listed(a)' = {InitialBlock[a]} \ {NULL}
         /\ arena'[a].blocks = InitialBlock[a] /\ arena'[a].hint = InitialBlock[a]
         /\ arena'[a].space_allocated = IF InitialBlock[a] = NULL THEN 0 ELSE InitialBlockSize
         /\ arena'[a].registered = [u \in Threads |-> 0] /\ arena'[a].ran = << >>
         /\ OwnInitialBlock(t, a, InitialBlock[a], arena'[a].lifecycle_id)
         /\ InitialBlock[a] # NULL =>
              /\ InitialBlock[a] \in Memory
              /\ heap'[InitialBlock[a]] = EmptyBlock(a, t, InitialBlockSize, 1)
<1> DEFINE i == InitialBlock[a]
<1>1. /\ heap \in [Memory -> BlockType] /\ arena \in [Arenas -> ArenaType]
      /\ i \in Memory \union {NULL} /\ NULL \notin Memory
  BY Constants DEF IInv, TypeOK
<1>2. /\ arena'[a].blocks = i /\ arena'[a].hint = i
      /\ arena'[a].space_allocated = IF i = NULL THEN 0 ELSE InitialBlockSize
      /\ arena'[a].registered = [u \in Threads |-> 0] /\ arena'[a].ran = << >>
      /\ OwnInitialBlock(t, a, i, arena'[a].lifecycle_id)
  <2>1. CASE Construct(t, a)
    <3>1. /\ arena'[a] = Restarted(a, lifecycle_id_generator)
          /\ OwnInitialBlock(t, a, i, lifecycle_id_generator)
      BY <1>1, <2>1 DEF Construct
    <3> QED
      BY <3>1 DEF Restarted
  <2>2. CASE FinishReset(t) /\ call[t].arena = a
    <3>1. call[t].full = i
      BY <2>2, KeptAtTheEnd
    <3>2. /\ arena'[a] = [Restarted(a, arena[a].lifecycle_id) EXCEPT
                            !.alive = (call[t].op = "reset")]
          /\ OwnInitialBlock(t, a, call[t].full, arena[a].lifecycle_id)
      BY <1>1, <2>2 DEF FinishReset
    <3> QED
      BY <3>1, <3>2 DEF Restarted
  <2> QED
    BY <2>1, <2>2 DEF Restarts
<1>4. i # NULL => i \in Memory /\ heap'[i] = EmptyBlock(a, t, InitialBlockSize, 1)
  BY <1>1, <1>2 DEF OwnInitialBlock
<1>5. \A b \in Memory : heap'[b].depth \in Nat
  BY DEF IInv, TypeOK, BlockType
<1>6. CASE i = NULL
  <2>1. Depth(arena[a].blocks)' = 0
    BY <1>2, <1>6 DEF Depth
  <2> QED
    BY <1>2, <1>5, <1>6, <2>1 DEF Listed
<1>7. CASE i # NULL
  <2>1. heap'[i].arena = a /\ heap'[i].depth = 1
    BY <1>4, <1>7 DEF EmptyBlock
  <2>2. Depth(arena[a].blocks)' = 1
    BY <1>2, <1>4, <1>7, <2>1 DEF Depth
  <2>3. \A b \in Memory : heap'[b].arena = a /\ heap'[b].depth = 1 => b = i
    <3>1. Ordered' /\ a # NULL
      BY Constants DEF IInv
    <3> QED
      BY <1>4, <1>7, <2>1, <3>1 DEF Ordered
  <2>4. \A b \in Memory : b \in Listed(a)' <=> b = i
    BY <1>5, <2>1, <2>2, <2>3 DEF Listed
  <2>5. Listed(a)' \subseteq Memory
    BY DEF Listed
  <2> QED
    BY <1>2, <1>4, <1>7, <2>4, <2>5
<1> QED
  BY <1>6, <1>7

-----------------------------------------------------------------------------
(* The space counter. *)

(* space_allocated is the sum of the sizes of the listed blocks. *)
BlockSizes == [b \in Memory |-> heap[b].size]
SpaceKept == \A a \in Arenas : arena[a].alive /\ ~ Freed(a) =>
  arena[a].space_allocated = SumOver(BlockSizes, Listed(a))

(* The blocks of a list are finitely many. *)
LEMMA ListedFinite ==
  ASSUME NEW a
  PROVE  Listed(a) \subseteq Memory /\ IsFiniteSet(Listed(a))
<1>1. Listed(a) \subseteq Memory
  BY DEF Listed
<1> QED
  BY <1>1, FS_Subset, ArenaAssumption

(* The sum over one block or none. *)
LEMMA SumOfOne ==
  ASSUME NEW f, NEW x, f[x] \in Nat
  PROVE  SumOver(f, {x}) = f[x] /\ SumOver(f, {}) = 0
<1>1. IsFiniteSet({}) /\ IsFiniteSet({x})
  BY FS_EmptySet, FS_Singleton
<1>2. SumOver(f, {}) = 0
  BY <1>1, SumFirst
<1>3. First({x}) = x /\ {x} \ {x} = {}
  BY DEF First
<1>4. SumOver(f, {x}) = f[First({x})] + SumOver(f, {x} \ {First({x})})
  BY <1>1, SumFirst
<1>5. SumOver(f, {x}) = f[x] + SumOver(f, {})
  BY <1>3, <1>4
<1> QED
  BY <1>2, <1>5

(* A step keeps the counter right. *)
LEMMA SpaceStepKeeps ==
  ASSUME IInv, IInv', SpaceKept, NEW t \in Threads, CallStep(t) \/ Begin(t)
  PROVE  SpaceKept'
<1> SUFFICES ASSUME NEW a \in Arenas, arena'[a].alive, ~ Freed(a)'
             PROVE  arena'[a].space_allocated = SumOver(BlockSizes', Listed(a)')
  BY DEF SpaceKept
<1>0. /\ heap \in [Memory -> BlockType] /\ arena \in [Arenas -> ArenaType]
      /\ \A b \in Memory : heap[b].size \in Nat
      /\ \A b \in Memory : heap'[b].size \in Nat
  BY DEF IInv, TypeOK, BlockType
<1>1. CASE Restarts(t, a)
  <2>1. /\ Listed(a)' = {InitialBlock[a]} \ {NULL}
        /\ InitialBlock[a] # NULL =>
             /\ InitialBlock[a] \in Memory
             /\ heap'[InitialBlock[a]] = EmptyBlock(a, t, InitialBlockSize, 1)
    BY <1>1, RestartListed
  <2>3. arena'[a].space_allocated = IF InitialBlock[a] = NULL THEN 0 ELSE InitialBlockSize
    BY <1>1, RestartListed
  <2>4. CASE InitialBlock[a] = NULL
    <3>1. Listed(a)' = {}
      BY <2>1, <2>4
    <3> QED
      BY <2>3, <2>4, <3>1, SumFirst, FS_EmptySet
  <2>5. CASE InitialBlock[a] # NULL
    <3>1. Listed(a)' = {InitialBlock[a]}
      BY <2>1, <2>5
    <3>2. BlockSizes'[InitialBlock[a]] = InitialBlockSize /\ InitialBlockSize \in Nat
      BY <2>1, <2>5, Constants DEF BlockSizes, EmptyBlock
    <3>3. SumOver(BlockSizes', {InitialBlock[a]}) = InitialBlockSize
      BY <3>2, SumOfOne
    <3> QED
      BY <2>3, <2>5, <3>1, <3>3
  <2> QED
    BY <2>4, <2>5
<1>2. CASE Pushes(t, a)
  <2> DEFINE b == call[t].block
  <2>1. /\ heap' = heap /\ ~ Freed(a) /\ b \in Memory \ Listed(a)
        /\ Listed(a)' = Listed(a) \union {b}
    BY <1>2, PushedListed
  <2>2. /\ arena'[a].alive = arena[a].alive
        /\ arena'[a].space_allocated = arena[a].space_allocated + heap[b].size
    BY <1>2, PushedListed
  <2>3. arena[a].space_allocated = SumOver(BlockSizes, Listed(a))
    BY <2>1, <2>2 DEF SpaceKept
  <2>4. BlockSizes' = BlockSizes
    BY <2>1 DEF BlockSizes
  <2> DEFINE L == Listed(a)'
  <2>5. IsFiniteSet(L) /\ L \subseteq Memory
    BY <2>1, ListedFinite, FS_AddElement
  <2>6. b \in L /\ L \ {b} = Listed(a)
    BY <2>1
  <2>7. \A y \in L : BlockSizes[y] \in Nat
    BY <1>0, <2>5 DEF BlockSizes
  <2>8. SumOver(BlockSizes, L) = BlockSizes[b] + SumOver(BlockSizes, L \ {b})
    <3> HIDE DEF L
    <3> QED
      BY <2>5, <2>6, <2>7, SumOneMore
  <2>9. BlockSizes[b] = heap[b].size /\ arena[a].space_allocated \in Nat
    BY <1>0, <2>1 DEF BlockSizes, ArenaType
  <2>10. SumOver(BlockSizes, L) = heap[b].size + arena[a].space_allocated
    BY <2>3, <2>6, <2>8, <2>9
  <2>11. SumOver(BlockSizes', Listed(a)') = SumOver(BlockSizes, L)
    BY <2>4
  <2>12. heap[b].size \in Nat
    BY <1>0, <2>1
  <2> HIDE DEF L
  <2> QED
    BY <2>2, <2>9, <2>10, <2>11, <2>12
<1>3. CASE ~ Restarts(t, a) /\ ~ Pushes(t, a)
  <2>1. ~ Freed(a)
    <3> SUFFICES ASSUME NEW u \in Threads, call[u].arena = a, call[u].pc = "free" PROVE FALSE
      BY DEF Freed, At
    <3>1. call'[u] # call[u]
      <4>1. call'[u].arena # a \/ call'[u].pc # "free"
        BY DEF Freed, At
      <4> QED
        BY <4>1
    <3>2. u = t
      BY <3>1, OthersStay
    <3>3. CallStep(t)
      BY <3>2 DEF Begin, ThreadExit, Construct, Reset, Destroy, SpaceUsed, Allocate, Idle
    <3>4. FreeBlocks(t)
      BY <1>3, <3>2, <3>3 DEF CallStep, GetBlock, FindBlock, WalkBlocks, NewBlock, BadAlloc, LockBlocks,
         PublishBlock, CacheBlock, AllocFromBlock, AddCleanupInBlock, ExpandCleanupList,
         AddCleanupChunk, CleanupList, WalkUsed, SpaceUsedReturns, At, Restarts
    <3>5. call'[t].pc = "free" /\ call'[t].arena = a
      BY <3>2, <3>4 DEF FreeBlocks, At, GotoWith, IInv, TypeOK, CallType
    <3> QED
      BY <3>2, <3>5 DEF Freed, At
  <2>2. ListSame(a)
    BY <1>3, <2>1, ListStep
  <2>3. arena[a].space_allocated = SumOver(BlockSizes, Listed(a))
    BY <2>1, <2>2 DEF ListSame, SpaceKept
  <2>4. \A b \in Listed(a) : BlockSizes'[b] = BlockSizes[b]
    BY <2>2, ListedFinite DEF ListSame, SameBlock, BlockSizes
  <2>5. SumOver(BlockSizes', Listed(a)) = SumOver(BlockSizes, Listed(a))
    BY <2>4, ListedFinite, SumSame
  <2> QED
    BY <2>2, <2>3, <2>5 DEF ListSame
<1> QED
  BY <1>1, <1>2, <1>3

-----------------------------------------------------------------------------
(* Before the first arena the counters are zero. *)
LEMMA InitSpace == Init => SpaceKept
BY DEF Init, SpaceKept

(* The counter is right at all times. *)
LEMMA SpaceInvariance == Spec => []SpaceKept
<1>1. IInv /\ IInv' /\ SpaceKept /\ [Next]_vars => SpaceKept'
  <2> SUFFICES ASSUME IInv, IInv', SpaceKept, [Next]_vars PROVE SpaceKept'
    OBVIOUS
  <2>1. CASE UNCHANGED vars
    BY <2>1 DEF vars, SpaceKept, BlockSizes, Listed, Freed, At, Depth
  <2>2. CASE Next
    BY <2>2, SpaceStepKeeps DEF Next
  <2> QED
    BY <2>1, <2>2
<1> QED
  BY <1>1, InitSpace, Invariance, PTL DEF Spec

(* SpaceAllocated is the sum of the sizes of the blocks in the list, however *)
(* the pushes of several threads overlap (arena.cc:143-150, arena_impl.h:186). *)
THEOREM SpaceCounted == Spec => []SpaceIsSum
<1>1. IInv /\ SpaceKept => SpaceIsSum
  BY ListIsListed DEF SpaceKept, SpaceIsSum, BlockSizes
<1> QED
  BY <1>1, Invariance, SpaceInvariance, PTL

-----------------------------------------------------------------------------
(* SpaceUsed. *)

(* A block that is about to be pushed is empty. *)
PendingEmpty ==
  \A t \in Threads : call[t].pc \in {"lock", "publish"} =>
    heap[call[t].block].pos = HeaderSize /\ heap[call[t].block].cleanup = NoCleanup

(* What a step does to a block of another thread: nothing, unless it ends or *)
(* restarts the block's arena.                                              *)
LEMMA OthersBlocks ==
  ASSUME IInv, NEW t \in Threads, CallStep(t) \/ Begin(t),
         NEW b \in Memory, heap[b].arena # NULL, heap[b].owner # t
  PROVE  \/ heap'[b] = heap[b]
         \/ FreeBlocks(t) /\ call[t].arena = heap[b].arena
         \/ b = InitialBlock[heap[b].arena] /\ Restarts(t, heap[b].arena)
<1>0. /\ heap \in [Memory -> BlockType] /\ call[t] \in CallType /\ CallOK(t)
      /\ \A m \in Memory : heap[m].arena # NULL => m \in HeapBlocks \/ m = InitialBlock[heap[m].arena]
      /\ heap[b].arena \in Arenas
  BY DEF IInv, TypeOK, InitialBlocks, BlockType
<1>1. CASE OwnStep(t) \/ LockBlocks(t)
  <2>1. /\ call[t].block \in Memory /\ heap[call[t].block].owner = t
        /\ call[t].pc = "cache" /\ call[t].full # NULL => heap[call[t].full].owner = t
    BY <1>0, <1>1 DEF OwnStep, CacheBlock, AllocFromBlock, AddCleanupInBlock, AddCleanupChunk,
       LockBlocks, At, CallOK, OwnsBlock, Owning, CallType
  <2>2. CASE CacheBlock(t)
    <3>1. b # call[t].block /\ (call[t].full # NULL => b # call[t].full)
      BY <2>1, <2>2 DEF CacheBlock, At
    <3> QED
      BY <1>0, <2>2, <3>1 DEF CacheBlock, StealCleanupList
  <2>3. CASE ~ CacheBlock(t)
    <3>1. b # call[t].block
      BY <2>1
    <3> QED
      BY <1>0, <1>1, <2>3, <3>1
         DEF OwnStep, AllocFromBlock, AddCleanupInBlock, AddCleanupChunk, LockBlocks
  <2> QED
    BY <2>2, <2>3
<1>2. CASE NewBlock(t)
  BY <1>0, <1>2 DEF NewBlock
<1>3. CASE FreeBlocks(t)
  <2>1. call[t].block \in Memory /\ heap[call[t].block].arena = call[t].arena
    BY <1>0, <1>3 DEF FreeBlocks, At, CallOK, OwnsBlock, CallType
  <2>2. heap' = heap \/ heap' = [heap EXCEPT ![call[t].block] = FreeBlock]
    BY <1>3 DEF FreeBlocks
  <2> QED
    BY <1>0, <1>3, <2>1, <2>2
<1>4. ASSUME NEW c \in Arenas, NEW i, NEW id, OwnInitialBlock(t, c, i, id), i = InitialBlock[c],
             Restarts(t, c)
      PROVE  \/ heap'[b] = heap[b]
             \/ b = InitialBlock[heap[b].arena] /\ Restarts(t, heap[b].arena)
  <2>1. heap' = heap \/ (i # NULL /\ heap' = [heap EXCEPT ![i] = EmptyBlock(c, t, InitialBlockSize, 1)])
    BY <1>4 DEF OwnInitialBlock
  <2>2. CASE b # i
    BY <1>0, <2>1, <2>2
  <2>3. CASE b = i
    <3>1. heap[b].arena = c
      BY <1>0, <1>4, <2>3, Constants
    <3> QED
      BY <1>4, <2>3, <3>1
  <2> QED
    BY <2>2, <2>3
<1>5. CASE FinishReset(t)
  <2> DEFINE c == call[t].arena
  <2>1. c \in Arenas /\ call[t].full = InitialBlock[c]
    BY <1>5, KeptAtTheEnd
  <2>2. OwnInitialBlock(t, c, call[t].full, arena[c].lifecycle_id) /\ Restarts(t, c)
    BY <1>5 DEF FinishReset, Restarts
  <2> QED
    BY <1>4, <2>1, <2>2
<1>6. CASE heap' = heap
  BY <1>6
<1>7. CASE \E c \in Arenas : Construct(t, c)
  <2>1. PICK c \in Arenas : Construct(t, c)
    BY <1>7
  <2>2. OwnInitialBlock(t, c, InitialBlock[c], lifecycle_id_generator) /\ Restarts(t, c)
    BY <2>1 DEF Construct, Restarts
  <2> QED
    BY <1>4, <2>2
<1>8. CASE Begin(t) /\ ~ \E c \in Arenas : Construct(t, c)
  <2>1. heap' = heap
    BY <1>8, Zenon DEF Begin, ThreadExit, Reset, Destroy, SpaceUsed, Allocate
  <2> QED
    BY <2>1
<1>9. CASE CallStep(t)
  BY <1>1, <1>2, <1>3, <1>5, <1>6, <1>9
     DEF CallStep, OwnStep, GetBlock, FindBlock, WalkBlocks, BadAlloc, ExpandCleanupList, WalkUsed,
         SpaceUsedReturns, PublishBlock, CleanupList
<1> QED
  BY <1>7, <1>8, <1>9

(* Only NewBlock and LockBlocks lead to where a block is pushed. *)
LEMMA LeadsToPush ==
  ASSUME IInv, NEW t \in Threads, CallStep(t), call'[t].pc \in {"lock", "publish"}
  PROVE  NewBlock(t) \/ LockBlocks(t)
<1> SUFFICES ASSUME ~ NewBlock(t), ~ LockBlocks(t) PROVE FALSE
  OBVIOUS
<1>0. call \in [Threads -> CallType]
  BY DEF IInv, TypeOK
<1>1. ~ (GetBlock(t) \/ FindBlock(t) \/ WalkBlocks(t))
  BY <1>0 DEF GetBlock, FindBlock, WalkBlocks, Goto, GotoWith, AfterGetBlock, CallType
<1>2. ~ (BadAlloc(t) \/ PublishBlock(t) \/ CacheBlock(t) \/ AllocFromBlock(t))
  BY <1>0 DEF BadAlloc, PublishBlock, CacheBlock, AllocFromBlock, Goto, Return, NoCall,
     AfterGetBlock, CallType
<1>3. ~ (AddCleanupInBlock(t) \/ ExpandCleanupList(t) \/ AddCleanupChunk(t))
  BY <1>0 DEF AddCleanupInBlock, ExpandCleanupList, AddCleanupChunk, Return, NoCall, AfterExpand,
     CallType
<1>4. ~ CleanupList(t)
  BY <1>0 DEF CleanupList, GotoWith, CallType
<1>5. ~ (FreeBlocks(t) \/ FinishReset(t))
  BY <1>0 DEF FreeBlocks, FinishReset, At, GotoWith, Return, NoCall, CallType
<1>6. ~ (WalkUsed(t) \/ SpaceUsedReturns(t))
  BY <1>0 DEF WalkUsed, SumBlock, SpaceUsedReturns, At, Return, NoCall, CallType
<1> QED
  BY <1>1, <1>2, <1>3, <1>4, <1>5, <1>6 DEF CallStep

(* What begins is at its first step. *)
LEMMA BeginsAt ==
  ASSUME IInv, NEW t \in Threads, Begin(t)
  PROVE  /\ call[t].pc = "idle"
         /\ call' = call \/ call'[t].pc \in {"cleanup", "sum", "get"}
<1>1. call \in [Threads -> CallType]
  BY DEF IInv, TypeOK
<1>2. CASE ThreadExit(t) \/ \E a \in Arenas : Construct(t, a)
  BY <1>2 DEF ThreadExit, Construct, Idle
<1>3. ASSUME NEW a \in Arenas, Reset(t, a) \/ Destroy(t, a)
      PROVE  call[t].pc = "idle" /\ call'[t].pc = "cleanup"
  <2>1. /\ call[t].pc = "idle"
        /\ Release(t, a, "reset") \/ Release(t, a, "destroy")
    BY <1>3 DEF Reset, Destroy, Idle
  <2>2. call'[t].pc = "cleanup"
    BY <1>1, <2>1 DEF Release, NoCall
  <2> QED
    BY <2>1, <2>2
<1>4. CASE \E a \in Arenas : SpaceUsed(t, a)
  BY <1>1, <1>4 DEF SpaceUsed, Idle
<1>5. ASSUME NEW a \in Arenas, NEW n, NEW cleanup, Allocate(t, a, n, cleanup)
      PROVE  call[t].pc = "idle" /\ call'[t].pc = "get"
  BY <1>1, <1>5 DEF Allocate, NoCall, Idle
<1> QED
  BY <1>2, <1>3, <1>4, <1>5, Zenon DEF Begin

(* A step keeps such a block empty. *)
LEMMA PendingStepKeeps ==
  ASSUME IInv, PushedFromHeap, PendingEmpty, NEW t \in Threads, CallStep(t) \/ Begin(t)
  PROVE  PendingEmpty'
<1> SUFFICES ASSUME NEW u \in Threads, call'[u].pc \in {"lock", "publish"}
             PROVE  /\ heap'[call'[u].block].pos = HeaderSize
                    /\ heap'[call'[u].block].cleanup = NoCleanup
  BY DEF PendingEmpty
<1>0. heap \in [Memory -> BlockType] /\ call \in [Threads -> CallType]
  BY DEF IInv, TypeOK
<1>1. CASE u # t
  <2> DEFINE b == call[u].block
  <2>1. call'[u] = call[u]
    BY <1>1, OthersStay
  <2>2. /\ b \in Memory /\ heap[b].owner = u /\ heap[b].arena = call[u].arena
        /\ call[u].arena \in Arenas /\ call[u].arena # NULL /\ b \in HeapBlocks
        /\ call[u].op = "allocate"
    BY <1>0, <2>1, Constants DEF IInv, CallOK, CallConsistent, AllocateLabels, OwnsBlock, Owning,
       CallType, PushedFromHeap
  <2>3. b # InitialBlock[heap[b].arena]
    BY <2>2, Constants
  <2>4. ~ (FreeBlocks(t) /\ call[t].arena = heap[b].arena)
    BY <1>1, <2>2 DEF FreeBlocks, At, IInv, CallOK, CallConsistent, ReleasedAlone, ReleaseOps
  <2>5. heap'[b] = heap[b]
    BY <1>1, <2>2, <2>3, <2>4, OthersBlocks
  <2> QED
    BY <2>1, <2>5 DEF PendingEmpty
<1>2. CASE u = t
  <2>1. CASE NewBlock(t)
    <3>1. PICK b \in HeapBlocks :
            /\ heap' = [heap EXCEPT ![b] =
                 EmptyBlock(call[t].arena, t, NewBlockSize(call[t].block, Need(t)), 0)]
            /\ GotoWith(t, "lock", b)
      BY <2>1 DEF NewBlock
    <3>2. call'[t].block = b /\ b \in Memory
      BY <1>0, <3>1, Constants DEF GotoWith, CallType
    <3> QED
      BY <1>0, <1>2, <3>1, <3>2 DEF EmptyBlock
  <2>2. CASE LockBlocks(t)
    <3>1. call'[t].block = call[t].block /\ call[t].pc = "lock" /\ call[t].block \in Memory
      BY <1>0, <2>2 DEF LockBlocks, At, Goto, CallType, IInv, CallOK, OwnsBlock, Owning
    <3>2. /\ heap'[call[t].block].pos = heap[call[t].block].pos
          /\ heap'[call[t].block].cleanup = heap[call[t].block].cleanup
      BY <1>0, <2>2, <3>1 DEF LockBlocks, BlockType
    <3> QED
      BY <1>2, <3>1, <3>2 DEF PendingEmpty
  <2>3. CASE CallStep(t) /\ ~ NewBlock(t) /\ ~ LockBlocks(t)
    BY <1>2, <2>3, LeadsToPush
  <2>4. CASE Begin(t)
    BY <1>2, <2>4, BeginsAt DEF PendingEmpty
  <2> QED
    BY <2>1, <2>2, <2>3, <2>4
<1> QED
  BY <1>1, <1>2

-----------------------------------------------------------------------------
(* What a SpaceUsed that walks has summed: no less than what was in use, in  *)
(* the blocks it has left behind, when it began, and no more than what is.   *)
Rest(u) == {c \in Listed(call[u].arena) : heap[c].depth <= Depth(call[u].block)}
LeftBehind(u) == Memory \ Rest(u)
Summed(u) == LET a == call[u].arena IN
  /\ call[u].block # NULL => call[u].block \in Listed(a)
  /\ \A b \in Memory : call[u].before[b] \in Nat /\ call[u].before[b] <= InUse(a)[b]
  /\ SumOver(call[u].before, LeftBehind(u)) <= call[u].total
  /\ call[u].total <= SumOver(InUse(a), LeftBehind(u))
UsedOK == \A u \in Threads : call[u].pc = "sum" => Summed(u)

(* What is in use in a block is a number, and in a block that is not listed  *)
(* nothing.                                                                 *)
LEMMA InUseNat ==
  ASSUME IInv, NEW a \in Arenas
  PROVE  \A b \in Memory : InUse(a)[b] \in Nat
<1>1. \A b \in Memory : heap[b].arena = a => heap[b].pos >= HeaderSize /\ heap[b].pos \in Nat
  BY Constants DEF IInv, TypeOK, BlockType, Ordered, Linked
<1> QED
  BY <1>1, Constants DEF InUse

(* The same after a step. *)
LEMMA InUseNatNext ==
  ASSUME IInv', NEW a \in Arenas
  PROVE  \A b \in Memory : InUse(a)'[b] \in Nat
<1>1. \A b \in Memory : heap'[b].arena = a => heap'[b].pos >= HeaderSize /\ heap'[b].pos \in Nat
  BY Constants DEF IInv, TypeOK, BlockType, Ordered, Linked
<1> QED
  BY <1>1, Constants DEF InUse

(* An arena in use has nothing in use outside its list. *)
LEMMA InUseListed ==
  ASSUME IInv, PendingEmpty, NEW a \in Arenas, ~ Freed(a), NEW b \in Memory \ Listed(a)
  PROVE  InUse(a)[b] = 0
<1>1. CASE heap[b].arena = a
  <2>1. PICK t \in Threads : Pending(t, b)
    BY <1>1 DEF IInv, Headed, Listed
  <2>2. heap[b].pos = HeaderSize
    BY <2>1 DEF Pending, PendingEmpty
  <2> QED
    BY <1>1, <2>2, Constants DEF InUse
<1>2. CASE heap[b].arena # a
  BY <1>2 DEF InUse
<1> QED
  BY <1>1, <1>2

(* A SpaceUsed walks over an arena that no one releases. *)
LEMMA UsedAlive ==
  ASSUME IInv, NEW u \in Threads, call[u].pc = "sum"
  PROVE  /\ call[u].arena \in Arenas /\ arena[call[u].arena].alive /\ ~ Freed(call[u].arena)
         /\ \A v \in Threads : call[v].arena = call[u].arena => call[v].op \notin ReleaseOps
<1>1. call[u].op = "used" /\ call[u].arena \in Arenas /\ arena[call[u].arena].alive
  BY DEF IInv, CallOK, CallConsistent
<1>2. \A v \in Threads : call[v].arena = call[u].arena => call[v].op \notin ReleaseOps
  BY <1>1 DEF IInv, ReleasedAlone, ReleaseOps
<1>3. ~ Freed(call[u].arena)
  BY <1>2 DEF Freed, At, IInv, CallOK, CallConsistent
<1> QED
  BY <1>1, <1>2, <1>3

(* Meanwhile no block of the arena is used less, and what the walk has yet   *)
(* to visit stays the same.                                                 *)
LEMMA UsedGrows ==
  ASSUME IInv, IInv', PendingEmpty, NEW t \in Threads, CallStep(t) \/ Begin(t),
         NEW u \in Threads \ {t}, call[u].pc = "sum",
         call[u].block # NULL => call[u].block \in Listed(call[u].arena)
  PROVE  /\ \A b \in Memory : InUse(call[u].arena)'[b] >= InUse(call[u].arena)[b]
         /\ Rest(u)' = Rest(u)
         /\ call[u].block # NULL => call[u].block \in Listed(call[u].arena)'
<1> DEFINE a == call[u].arena
           head == call[u].block
<1>1. /\ call'[u] = call[u] /\ a \in Arenas /\ arena[a].alive /\ ~ Freed(a)
      /\ \A v \in Threads : call[v].arena = a => call[v].op \notin ReleaseOps
  BY OthersStay, UsedAlive
<1>2. ~ Freed(a)'
  <2>1. call'[u].op = "used" /\ call'[u].arena = a
    BY <1>1 DEF IInv, CallOK, CallConsistent
  <2> QED
    BY <2>1 DEF Freed, At, IInv, CallOK, CallConsistent, ReleasedAlone, ReleaseOps
<1>3. ~ Restarts(t, a)
  BY <1>1 DEF Restarts, Construct, FinishReset, At, IInv, CallOK, CallConsistent
<1>4. /\ \A b \in Memory : heap[b].depth \in Nat /\ heap[b].pos \in Nat
      /\ \A b \in Memory : heap'[b].depth \in Nat /\ heap'[b].pos \in Nat
      /\ call[u].block \in Memory \union {NULL} /\ NULL \notin Memory
  BY Constants DEF IInv, TypeOK, BlockType, CallType
<1>5. \A b \in Listed(a) : b \in Listed(a)' /\ SameBlock(b)
  <2>1. CASE Pushes(t, a)
    <3>1. heap' = heap /\ Listed(a) \subseteq Listed(a)'
      BY <2>1, <1>1, PushedListed
    <3> QED
      BY <1>4, <3>1, ListedFinite DEF SameBlock
  <2>2. CASE ~ Pushes(t, a)
    BY <1>1, <1>2, <1>3, <2>2, ListStep DEF ListSame
  <2> QED
    BY <2>1, <2>2
<1>6. \A c \in Listed(a)' \ Listed(a) : \A b \in Listed(a) : heap'[c].depth > heap[b].depth
  <2>1. CASE Pushes(t, a)
    BY <2>1, <1>1, <1>4, PushedListed, ListedFinite
  <2>2. CASE ~ Pushes(t, a)
    BY <1>1, <1>2, <1>3, <2>2, ListStep DEF ListSame
  <2> QED
    BY <2>1, <2>2
<1>7. ASSUME NEW b \in Memory PROVE InUse(a)'[b] >= InUse(a)[b]
  <2>1. CASE b \in Listed(a)
    <3>1. heap[b].arena = a /\ heap'[b].arena = a /\ heap'[b].pos >= heap[b].pos
      BY <1>5, <2>1 DEF Listed, SameBlock
    <3> QED
      BY <1>1, <1>4, <3>1, Constants DEF InUse
  <2>2. CASE b \notin Listed(a)
    <3>1. InUse(a)[b] = 0 /\ InUse(a)'[b] \in Nat
      BY <1>1, <2>2, InUseListed, InUseNatNext
    <3> QED
      BY <3>1
  <2> QED
    BY <2>1, <2>2
<1>8. Rest(u)' = {c \in Listed(a)' : heap'[c].depth <= Depth(call[u].block)'}
  BY <1>1 DEF Rest
<1>9. CASE call[u].block = NULL
  <2>1. Depth(call[u].block)' = 0 /\ Depth(call[u].block) = 0
    BY <1>1, <1>9 DEF Depth
  <2>2. Rest(u)' = {} /\ Rest(u) = {}
    BY <1>4, <1>8, <2>1 DEF Rest, Listed
  <2> QED
    BY <1>7, <1>9, <2>2
<1>10. CASE call[u].block # NULL
  <2>1. call[u].block \in Listed(a) /\ Listed(a) \subseteq Memory /\ Listed(a)' \subseteq Memory
    BY <1>10 DEF Listed
  <2>2. /\ Depth(call[u].block)' = heap[call[u].block].depth
        /\ Depth(call[u].block) = heap[call[u].block].depth
    BY <1>1, <1>5, <1>10, <2>1 DEF Depth, SameBlock
  <2>3. ASSUME NEW c \in Memory PROVE c \in Rest(u)' <=> c \in Rest(u)
    BY <1>4, <1>5, <1>6, <1>8, <2>1, <2>2 DEF Rest, SameBlock
  <2>4. Rest(u)' \subseteq Memory /\ Rest(u) \subseteq Memory
    BY <1>8, <2>1 DEF Rest
  <2> QED
    BY <1>5, <1>7, <1>10, <2>1, <2>3, <2>4
<1> QED
  BY <1>9, <1>10

(* Within a call only WalkUsed goes on with a sum. *)
LEMMA LeadsToSum ==
  ASSUME IInv, NEW t \in Threads, CallStep(t), call'[t].pc = "sum"
  PROVE  WalkUsed(t)
<1> SUFFICES ASSUME ~ WalkUsed(t) PROVE FALSE
  OBVIOUS
<1>0. call \in [Threads -> CallType]
  BY DEF IInv, TypeOK
<1>1. ~ (GetBlock(t) \/ FindBlock(t) \/ WalkBlocks(t))
  BY <1>0 DEF GetBlock, FindBlock, WalkBlocks, Goto, GotoWith, AfterGetBlock, CallType
<1>2. ~ (BadAlloc(t) \/ PublishBlock(t) \/ CacheBlock(t) \/ AllocFromBlock(t))
  BY <1>0 DEF BadAlloc, PublishBlock, CacheBlock, AllocFromBlock, Goto, Return, NoCall,
     AfterGetBlock, CallType
<1>3. ~ (AddCleanupInBlock(t) \/ ExpandCleanupList(t) \/ AddCleanupChunk(t))
  BY <1>0 DEF AddCleanupInBlock, ExpandCleanupList, AddCleanupChunk, Return, NoCall, AfterExpand,
     CallType
<1>4. ~ (CleanupList(t) \/ NewBlock(t) \/ LockBlocks(t))
  BY <1>0 DEF CleanupList, NewBlock, LockBlocks, Goto, GotoWith, CallType
<1>5. ~ (FreeBlocks(t) \/ FinishReset(t) \/ SpaceUsedReturns(t))
  BY <1>0 DEF FreeBlocks, FinishReset, SpaceUsedReturns, At, GotoWith, Return, NoCall, CallType
<1> QED
  BY <1>1, <1>2, <1>3, <1>4, <1>5 DEF CallStep

(* A step keeps that so. *)
LEMMA UsedStepKeeps ==
  ASSUME IInv, IInv', PendingEmpty, UsedOK, NEW t \in Threads, CallStep(t) \/ Begin(t)
  PROVE  UsedOK'
<1> SUFFICES ASSUME NEW u \in Threads, call'[u].pc = "sum" PROVE Summed(u)'
  BY DEF UsedOK
<1>0. /\ call \in [Threads -> CallType] /\ heap \in [Memory -> BlockType] /\ NULL \notin Memory
      /\ \A b \in Memory : heap[b].depth \in Nat
  BY Constants DEF IInv, TypeOK, BlockType
<1>1. ASSUME NEW a \in Arenas, NEW f, \A b \in Memory : f[b] \in Nat /\ f[b] <= InUse(a)[b],
             NEW S \in SUBSET Memory
      PROVE  /\ SumOver(f, S) \in Nat /\ SumOver(InUse(a), S) \in Nat
             /\ SumOver(f, S) <= SumOver(InUse(a), S)
  <2>1. IsFiniteSet(S)
    BY FS_Subset, ArenaAssumption
  <2> QED
    BY <1>1, <2>1, InUseNat, SumNat, SumMonotone
<1>2. CASE u # t
  <2> DEFINE a == call[u].arena
             R == LeftBehind(u)
  <2>1. call'[u] = call[u] /\ Summed(u) /\ a \in Arenas
    BY <1>2, OthersStay, UsedAlive DEF UsedOK
  <2>2. /\ \A b \in Memory : InUse(a)'[b] >= InUse(a)[b]
        /\ Rest(u)' = Rest(u)
        /\ call[u].block # NULL => call[u].block \in Listed(a)'
    BY <1>2, <2>1, UsedGrows DEF Summed
  <2>3. /\ \A b \in Memory : InUse(a)[b] \in Nat
        /\ \A b \in Memory : InUse(a)'[b] \in Nat
    BY <2>1, InUseNat, InUseNatNext
  <2>4. R \subseteq Memory /\ IsFiniteSet(R)
    BY FS_Subset, ArenaAssumption DEF LeftBehind
  <2>5. SumOver(InUse(a), R) <= SumOver(InUse(a)', R)
    <3> HIDE DEF R
    <3> QED
      BY <2>2, <2>3, <2>4, SumMonotone
  <2>6. SumOver(InUse(a), R) \in Nat /\ SumOver(InUse(a)', R) \in Nat
    <3> HIDE DEF R
    <3> QED
      BY <2>3, <2>4, SumNat
  <2>7. LeftBehind(u)' = R
    BY <2>2 DEF LeftBehind
  <2>8. call[u].total \in Nat
    BY <1>0 DEF CallType
  <2>9. call[u].total <= SumOver(InUse(a)', R)
    <3>1. call[u].total <= SumOver(InUse(a), R)
      BY <2>1 DEF Summed
    <3> HIDE DEF R, a
    <3> QED
      BY <2>5, <2>6, <2>8, <3>1
  <2>10. \A b \in Memory : call[u].before[b] \in Nat /\ call[u].before[b] <= InUse(a)'[b]
    BY <2>1, <2>2, <2>3 DEF Summed
  <2> QED
    BY <2>1, <2>2, <2>7, <2>9, <2>10 DEF Summed
<1>3. CASE u = t /\ Begin(t)
  <2>1. PICK a \in Arenas : SpaceUsed(t, a)
    <3>1. call[t].pc = "idle"
      BY <1>3, BeginsAt
    <3>2. call' # call
      BY <1>3, <3>1
    <3>3. ASSUME NEW a \in Arenas, Reset(t, a) \/ Destroy(t, a) PROVE FALSE
      <4>1. Release(t, a, "reset") \/ Release(t, a, "destroy")
        BY <3>3 DEF Reset, Destroy
      <4>2. call'[t].pc = "cleanup"
        BY <1>0, <4>1 DEF Release, NoCall
      <4> QED
        BY <1>3, <4>2
    <3>4. \A a \in Arenas : \A n, cleanup : ~ Allocate(t, a, n, cleanup)
      BY <1>0, <1>3 DEF Allocate, NoCall
    <3> QED
      BY <1>3, <3>2, <3>3, <3>4, Zenon DEF Begin, ThreadExit, Construct
  <2>2. /\ call'[t].arena = a /\ call'[t].block = arena[a].blocks /\ call'[t].before = InUse(a)
        /\ call'[t].total = 0 /\ arena' = arena /\ heap' = heap
    BY <1>0, <2>1 DEF SpaceUsed, NoCall
  <2>3. ~ Freed(a)
    BY <2>1 DEF SpaceUsed, Usable, Freed, At, IInv, CallOK, CallConsistent, ReleaseOps
  <2>4. InUse(a)' = InUse(a) /\ Listed(a)' = Listed(a)
    BY <2>2 DEF InUse, Listed, Depth
  <2>5. Rest(t)' = Listed(a)
    BY <2>2, <2>4 DEF Rest, Listed, Depth
  <2>6. LeftBehind(t)' = Memory \ Listed(a) /\ IsFiniteSet(Memory \ Listed(a))
    BY <2>5, FS_Subset, ArenaAssumption DEF LeftBehind
  <2>7. SumOver(InUse(a), Memory \ Listed(a)) = 0
    BY <2>3, <2>6, InUseListed, SumZero
  <2>8. arena[a].blocks # NULL => arena[a].blocks \in Listed(a)
    <3>1. arena[a].blocks \in Memory \union {NULL}
      BY DEF IInv, TypeOK, ArenaType
    <3>2. arena[a].blocks # NULL => heap[arena[a].blocks].arena = a /\ heap[arena[a].blocks].depth > 0
      BY <2>3 DEF IInv, Headed
    <3> QED
      BY <1>0, <3>1, <3>2 DEF Listed, Depth
  <2>9. \A b \in Memory : InUse(a)[b] \in Nat
    BY InUseNat
  <2> QED
    BY <1>3, <2>2, <2>4, <2>6, <2>7, <2>8, <2>9 DEF Summed
<1>4. CASE u = t /\ CallStep(t)
  <2> DEFINE a == call[t].arena
             b == call[t].block
             R == Rest(t)
  <2>1. WalkUsed(t)
    BY <1>4, LeadsToSum
  <2>2. /\ call[t].pc = "sum" /\ b \in Memory /\ heap' = heap /\ arena' = arena
        /\ call'[t].pc = "sum" /\ call'[t].arena = a /\ call'[t].before = call[t].before
        /\ call'[t].total = call[t].total + (heap[b].pos - HeaderSize)
        /\ call'[t].block = heap[b].next
        /\ call[t].total \in Nat
    BY <1>0, <2>1 DEF WalkUsed, SumBlock, At, CallType
  <2>3. Summed(t) /\ a \in Arenas /\ a # NULL
    BY <2>2, UsedAlive, Constants DEF UsedOK
  <2>4. b \in Listed(a) /\ heap[b].arena = a
    BY <2>2, <2>3, <1>0 DEF Summed, Listed
  <2>5. /\ heap[b].next = NULL <=> heap[b].depth \in {0, 1}
        /\ heap[b].next # NULL =>
             /\ heap[b].next \in Memory /\ heap[heap[b].next].arena = a
             /\ heap[heap[b].next].depth + 1 = heap[b].depth /\ heap[heap[b].next].depth > 0
        /\ \A c \in Memory : heap[c].arena = a /\ heap[c].depth = heap[b].depth => c = b
    BY <1>0, <2>3, <2>4, Links DEF Listed
  <2>6. Depth(heap[b].next) + 1 = heap[b].depth
    BY <1>0, <2>4, <2>5 DEF Depth, Listed
  <2>7. Listed(a)' = Listed(a) /\ InUse(a)' = InUse(a) /\ Depth(call[t].block)' = Depth(heap[b].next)
    BY <2>2 DEF Listed, InUse, Depth
  <2>8. Rest(t)' = {c \in Listed(a) : heap[c].depth <= Depth(heap[b].next)}
    BY <2>2, <2>7 DEF Rest
  <2>9. b \in R /\ Rest(t)' = R \ {b}
    <3>1. Depth(b) = heap[b].depth /\ Listed(a) \subseteq Memory
      BY <1>0, <2>2 DEF Depth, Listed
    <3>2. ASSUME NEW c \in Listed(a)
          PROVE  heap[c].depth <= Depth(heap[b].next) <=> heap[c].depth <= heap[b].depth /\ c # b
      <4>1. c \in Memory /\ heap[c].arena = a /\ heap[c].depth \in Nat /\ heap[b].depth \in Nat
        BY <1>0, <2>2 DEF Listed
      <4>2. Depth(heap[b].next) \in Int
        BY <1>0, <2>5 DEF Depth
      <4> QED
        BY <2>5, <2>6, <4>1, <4>2
    <3> QED
      BY <2>4, <2>8, <3>1, <3>2, <1>0 DEF Rest
  <2> DEFINE S == LeftBehind(t)'
  <2>10. /\ S \subseteq Memory /\ b \in S /\ S \ {b} = LeftBehind(t) /\ IsFiniteSet(S)
    <3>1. S = Memory \ (R \ {b})
      BY <2>9 DEF LeftBehind
    <3>2. R \subseteq Memory
      BY DEF Rest, Listed
    <3>3. S \subseteq Memory /\ b \in S /\ S \ {b} = LeftBehind(t)
      BY <2>2, <2>9, <3>1, <3>2 DEF LeftBehind
    <3> QED
      BY <3>3, FS_Subset, ArenaAssumption
  <2> DEFINE f == call[t].before
             g == InUse(a)
  <2>11. /\ \A c \in Memory : f[c] \in Nat /\ f[c] <= g[c] /\ g[c] \in Nat
         /\ g[b] = heap[b].pos - HeaderSize
    <3>1. \A c \in Memory : f[c] \in Nat /\ f[c] <= g[c] /\ g[c] \in Nat
      BY <2>3, InUseNat DEF Summed
    <3>2. g[b] = heap[b].pos - HeaderSize
      BY <2>2, <2>4 DEF InUse
    <3> QED
      BY <3>1, <3>2
  <2>12. /\ SumOver(f, S) = f[b] + SumOver(f, S \ {b})
         /\ SumOver(g, S) = g[b] + SumOver(g, S \ {b})
    <3> HIDE DEF S, f, g, b
    <3> QED
      BY <2>10, <2>11, SumOneMore
  <2>13. /\ SumOver(f, LeftBehind(t)) \in Nat /\ SumOver(g, LeftBehind(t)) \in Nat
    <3>1. LeftBehind(t) \in SUBSET Memory
      BY DEF LeftBehind
    <3> QED
      BY <1>1, <2>3, <2>11, <3>1
  <2>14. /\ SumOver(f, LeftBehind(t)) <= call[t].total
         /\ call[t].total <= SumOver(g, LeftBehind(t))
    BY <2>3 DEF Summed
  <2>15. SumOver(f, S) <= call'[t].total /\ call'[t].total <= SumOver(g, S)
    <3>1. f[b] \in Nat /\ g[b] \in Nat /\ f[b] <= g[b] /\ call'[t].total = call[t].total + g[b]
      BY <2>2, <2>11
    <3>2. /\ SumOver(f, S) = f[b] + SumOver(f, LeftBehind(t))
          /\ SumOver(g, S) = g[b] + SumOver(g, LeftBehind(t))
      BY <2>10, <2>12
    <3>3. call[t].total \in Nat
      BY <2>2
    <3> HIDE DEF S, f, g, b
    <3> QED
      BY <2>13, <2>14, <3>1, <3>2, <3>3
  <2>16. heap[b].next # NULL => heap[b].next \in Listed(a)
    <3>1. heap[b].depth <= Depth(arena[a].blocks) /\ Depth(arena[a].blocks) \in Nat
      BY <1>0, <2>3, <2>4 DEF Listed, Depth, IInv, TypeOK, ArenaType
    <3> QED
      BY <1>0, <2>2, <2>5, <3>1 DEF Listed
  <2> QED
    BY <1>4, <2>2, <2>7, <2>11, <2>15, <2>16 DEF Summed
<1> QED
  BY <1>2, <1>3, <1>4

(* No SpaceUsed has begun. *)
LEMMA InitUsed == Init => PendingEmpty /\ UsedOK
BY DEF Init, PendingEmpty, UsedOK, NoCall

(* It is so at all times. *)
LEMMA UsedInvariance == Spec => [](PendingEmpty /\ UsedOK)
<1>1. IInv /\ IInv' /\ PushedFromHeap /\ PendingEmpty /\ UsedOK /\ [Next]_vars => PendingEmpty' /\ UsedOK'
  <2> SUFFICES ASSUME IInv, IInv', PushedFromHeap, PendingEmpty, UsedOK, [Next]_vars
               PROVE  PendingEmpty' /\ UsedOK'
    OBVIOUS
  <2>1. CASE UNCHANGED vars
    <3>1. call' = call /\ heap' = heap /\ arena' = arena
      BY <2>1 DEF vars
    <3>2. PendingEmpty'
      BY <3>1 DEF PendingEmpty
    <3>3. ASSUME NEW u \in Threads, call'[u].pc = "sum" PROVE Summed(u)'
      <4>1. Summed(u)
        BY <3>1, <3>3 DEF UsedOK
      <4> PICK a : a = call[u].arena
        OBVIOUS
      <4>2. Listed(a)' = Listed(a) /\ InUse(a)' = InUse(a) /\ call'[u].arena = a
        BY <3>1 DEF Listed, InUse, Depth
      <4>3. LeftBehind(u)' = LeftBehind(u)
        BY <3>1, <4>2 DEF LeftBehind, Rest, Depth
      <4> QED
        BY <3>1, <4>1, <4>2, <4>3 DEF Summed
    <3> QED
      BY <3>2, <3>3 DEF UsedOK
  <2>2. CASE Next
    <3>1. PICK t \in Threads : CallStep(t) \/ Begin(t)
      BY <2>2 DEF Next
    <3>2. PendingEmpty'
      BY <3>1, PendingStepKeeps
    <3>3. UsedOK'
      BY <3>1, UsedStepKeeps
    <3> QED
      BY <3>2, <3>3
  <2> QED
    BY <2>1, <2>2
<1> QED
  BY <1>1, InitUsed, Invariance, PushInvariance, PTL DEF Spec

(* SpaceUsed, racing allocations, returns no less than what was in use when  *)
(* it was called and no more than what is in use when it returns             *)
(* (arena.cc:348-361, arena.h:489).                                         *)
THEOREM UsedInRange == Spec => SpaceUsedInRange
<1> DEFINE InRange == \A t \in Threads : SpaceUsedReturns(t) =>
             /\ SumOver(call[t].before, Memory) <= call[t].total
             /\ call[t].total <= SumOver(InUse(call[t].arena), Memory)
<1>1. IInv /\ UsedOK => InRange
  <2> SUFFICES ASSUME IInv, UsedOK, NEW t \in Threads, SpaceUsedReturns(t)
               PROVE  /\ SumOver(call[t].before, Memory) <= call[t].total
                      /\ call[t].total <= SumOver(InUse(call[t].arena), Memory)
    OBVIOUS
  <2>1. call[t].pc = "sum" /\ call[t].block = NULL /\ Summed(t)
    BY DEF SpaceUsedReturns, At, UsedOK
  <2>2. \A b \in Memory : heap[b].depth \in Nat
    BY DEF IInv, TypeOK, BlockType
  <2>3. Rest(t) = {}
    BY <2>1, <2>2 DEF Rest, Depth, Listed
  <2>4. LeftBehind(t) = Memory
    BY <2>3 DEF LeftBehind
  <2> QED
    BY <2>1, <2>4 DEF Summed
<1>2. IInv /\ UsedOK /\ [Next]_vars => [InRange]_vars
  BY <1>1
<1>3. Spec => [][InRange]_vars
  <2> HIDE DEF InRange
  <2> QED
    BY <1>2, Invariance, UsedInvariance, PTL DEF Spec
<1> QED
  BY <1>3 DEF SpaceUsedInRange

-----------------------------------------------------------------------------
(* Cleanups.  A thread adds them to its first block in the list, whichever   *)
(* of its cache, the hint and the walk leads it there, and a new first block *)
(* takes over the list of the last one.                                     *)

(* t's first block in the list of a. *)
Top(t, a, b) ==
  /\ b \in Listed(a) /\ heap[b].owner = t
  /\ \A c \in Listed(a) : heap[c].owner = t => heap[c].depth <= heap[b].depth

(* t has pushed a block and has yet to note it in its cache and in the hint. *)
Caching(t, a) == call[t].arena = a /\ call[t].pc = "cache"

(* The cache and the hint lead to the first block of their thread.          *)
TopsKnown(a) ==
  /\ arena[a].hint # NULL => arena[a].hint \in Listed(a)
  /\ \A t \in Threads : ~ Caching(t, a) =>
       /\ thread_cache[t].id = arena[a].lifecycle_id => Top(t, a, thread_cache[t].block)
       /\ arena[a].hint # NULL /\ heap[arena[a].hint].owner = t => Top(t, a, arena[a].hint)

(* A call works on the first block of its thread, and takes the cleanups of  *)
(* what was the first.                                                      *)
TopInCall(t) ==
  LET a == call[t].arena
      b == call[t].block
      full == call[t].full
  IN /\ call[t].pc \in {"cache", "alloc", "add", "expand"} => Top(t, a, b)
     /\ call[t].pc \in {"find", "walk", "new", "lock", "publish"} /\ full # NULL => Top(t, a, full)
     /\ call[t].pc = "walk" =>
          /\ b # NULL => b \in Listed(a)
          /\ \A c \in Listed(a) : heap[c].owner = t => heap[c].depth <= Depth(b)
     /\ call[t].pc = "cache" /\ full # NULL =>
          /\ full \in Listed(a) /\ heap[b].cleanup.nodes = << >>
          /\ \A c \in Listed(a) : heap[c].owner = t /\ c # b => heap[c].depth <= heap[full].depth

(* The blocks of a whose cleanups have yet to run. *)
Remaining(a) ==
  {b \in Listed(a) : \A t \in Threads :
     call[t].arena = a /\ call[t].op \in ReleaseOps =>
       call[t].pc = "cleanup" /\ heap[b].depth <= Depth(call[t].block)}

NodesOf(b) == heap[b].cleanup.nodes

(* A block holds cleanups of its owner, the later ones first; of two blocks  *)
(* of a thread the first holds the later ones; what ran comes before both.  *)
OwnNodes(a) == \A b \in Remaining(a) : \A i \in DOMAIN NodesOf(b) :
  /\ NodesOf(b)[i][1] = heap[b].owner
  /\ NodesOf(b)[i][2] \in 1 .. arena[a].registered[heap[b].owner]
RanNodes(a) == \A i \in DOMAIN arena[a].ran :
  arena[a].ran[i][2] \in 1 .. arena[a].registered[arena[a].ran[i][1]]
AllNodes(a) == \A t \in Threads : \A k \in 1 .. arena[a].registered[t] :
  \/ \E i \in DOMAIN arena[a].ran : arena[a].ran[i] = <<t, k>>
  \/ \E b \in Remaining(a) : \E i \in DOMAIN NodesOf(b) : NodesOf(b)[i] = <<t, k>>
BlockOrder(a) == \A b \in Remaining(a) : \A i, j \in DOMAIN NodesOf(b) :
  i < j => NodesOf(b)[i][2] > NodesOf(b)[j][2]
ListOrder(a) == \A b, c \in Remaining(a) :
  heap[b].owner = heap[c].owner /\ heap[b].depth > heap[c].depth =>
    \A i \in DOMAIN NodesOf(b), j \in DOMAIN NodesOf(c) : NodesOf(b)[i][2] > NodesOf(c)[j][2]
RanOrder(a) == \A i, j \in DOMAIN arena[a].ran :
  i < j /\ arena[a].ran[i][1] = arena[a].ran[j][1] => arena[a].ran[i][2] > arena[a].ran[j][2]
RanFirst(a) == \A i \in DOMAIN arena[a].ran, b \in Remaining(a) :
  arena[a].ran[i][1] = heap[b].owner =>
    \A j \in DOMAIN NodesOf(b) : arena[a].ran[i][2] > NodesOf(b)[j][2]
NodesKept(a) ==
  /\ ~ Releasing(a) => arena[a].ran = << >>
  /\ OwnNodes(a) /\ RanNodes(a) /\ AllNodes(a)
  /\ BlockOrder(a) /\ ListOrder(a) /\ RanOrder(a) /\ RanFirst(a)

CleanInv ==
  /\ \A t \in Threads : TopInCall(t)
  /\ \A a \in Arenas : arena[a].alive => NodesKept(a)
  /\ \A a \in Arenas : arena[a].alive /\ ~ Releasing(a) => TopsKnown(a)

(* The steps of a call that releases. *)
LEMMA ReleaseSteps ==
  ASSUME IInv, NEW t \in Threads, CallStep(t) \/ Begin(t), call[t].pc \in {"cleanup", "free"}
  PROVE  CleanupList(t) \/ FreeBlocks(t) \/ FinishReset(t)
<1>1. CallStep(t)
  BY BeginsAt
<1> QED
  BY <1>1 DEF CallStep, GetBlock, FindBlock, WalkBlocks, NewBlock, BadAlloc, LockBlocks,
     PublishBlock, CacheBlock, AllocFromBlock, AddCleanupInBlock, ExpandCleanupList,
     AddCleanupChunk, WalkUsed, SpaceUsedReturns, At

(* A step in an arena that is in use, and is neither released nor restarted: *)
(* its list stays, or t pushes a block.                                     *)
LEMMA Unreleased ==
  ASSUME IInv, IInv', NEW t \in Threads, CallStep(t) \/ Begin(t), NEW a \in Arenas,
         arena'[a].alive, ~ Releasing(a)', ~ Restarts(t, a)
  PROVE  /\ ~ Releasing(a) /\ ~ Freed(a) /\ arena[a].alive
         /\ Listed(a) \subseteq Listed(a)' /\ \A b \in Listed(a) : SameBlock(b)
         /\ Pushes(t, a) \/ ListSame(a)
<1>0. /\ call \in [Threads -> CallType] /\ heap \in [Memory -> BlockType]
      /\ \A b \in Memory : heap[b].pos \in Nat
  BY DEF IInv, TypeOK, BlockType
<1>1. ASSUME NEW u \in Threads, call[u].arena = a, call[u].op \in ReleaseOps PROVE FALSE
  <2>1. u = t
    <3> SUFFICES ASSUME u # t PROVE FALSE
      OBVIOUS
    <3>1. call'[u] = call[u]
      BY OthersStay
    <3> QED
      BY <1>1, <3>1 DEF Releasing, ReleaseOps
  <2>2. call[t].pc \in {"cleanup", "free"}
    BY <1>1, <2>1 DEF IInv, CallOK, CallConsistent
  <2>3. CleanupList(t) \/ FreeBlocks(t) \/ FinishReset(t)
    BY <2>2, ReleaseSteps
  <2>4. CleanupList(t) \/ FreeBlocks(t) => call'[t].arena = a /\ call'[t].op = call[t].op
    BY <1>0, <1>1, <2>1 DEF CleanupList, FreeBlocks, GotoWith, CallType
  <2> QED
    BY <1>1, <2>1, <2>3, <2>4 DEF Restarts, Releasing, ReleaseOps
<1>2. ~ Releasing(a) /\ ~ Freed(a)
  BY <1>1 DEF Releasing, Freed, At, ReleaseOps, IInv, CallOK, CallConsistent
<1>3. ~ Freed(a)'
  BY DEF Releasing, Freed, At, ReleaseOps, IInv, CallOK, CallConsistent
<1>4. CASE Pushes(t, a)
  <2>1. /\ heap' = heap /\ Listed(a) \subseteq Listed(a)' /\ arena'[a].alive = arena[a].alive
    BY <1>4, PushedListed
  <2>2. \A b \in Listed(a) : SameBlock(b)
    BY <1>0, <2>1, ListedFinite DEF SameBlock
  <2> QED
    BY <1>2, <1>4, <2>1, <2>2
<1>5. CASE ~ Pushes(t, a)
  <2>1. ListSame(a)
    BY <1>2, <1>3, <1>5, ListStep
  <2> QED
    BY <1>2, <2>1 DEF ListSame
<1> QED
  BY <1>4, <1>5

(* A thread's first block stays that when no block of the thread is pushed.  *)
LEMMA TopStays ==
  ASSUME NEW a, NEW u, NEW b, Top(u, a, b),
         Listed(a) \subseteq Listed(a)', \A c \in Listed(a) : SameBlock(c),
         \A c \in Listed(a)' \ Listed(a) : heap'[c].owner # u
  PROVE  Top(u, a, b)'
BY DEF Top, SameBlock

(* A step of t leaves the calls of others on their blocks.                  *)
LEMMA OtherTopKept ==
  ASSUME IInv, IInv', NEW t \in Threads, CallStep(t) \/ Begin(t),
         NEW u \in Threads \ {t}, TopInCall(u)
  PROVE  TopInCall(u)'
<1> PICK a, b, full : a = call[u].arena /\ b = call[u].block /\ full = call[u].full
  OBVIOUS
<1>0. /\ call'[u] = call[u]
      /\ call'[u].arena = a /\ call'[u].block = b /\ call'[u].full = full
  BY OthersStay
<1>1. CASE call[u].op # "allocate"
  <2>1. call[u].pc \notin AllocateLabels
    BY <1>1 DEF IInv, CallOK, CallConsistent
  <2> QED
    BY <1>0, <2>1 DEF TopInCall, AllocateLabels
<1>2. CASE call[u].op = "allocate"
  <2>1. /\ a \in Arenas /\ arena[a].alive /\ arena'[a].alive /\ call[u].pc # "idle"
        /\ \A v \in Threads : call'[v].arena = a => call'[v].op \notin ReleaseOps
        /\ \A v \in Threads : call[v].arena = a => call[v].op \notin ReleaseOps
    BY <1>0, <1>2 DEF IInv, CallOK, CallConsistent, ReleasedAlone, ReleaseOps, AllocateLabels
  <2>2. ~ Releasing(a)'
    BY <2>1 DEF Releasing, ReleaseOps
  <2>3. ~ Restarts(t, a)
    BY <2>1 DEF Restarts, Construct, FinishReset, At, IInv, CallOK, CallConsistent
  <2>4. /\ Listed(a) \subseteq Listed(a)' /\ \A c \in Listed(a) : SameBlock(c)
        /\ Pushes(t, a) \/ ListSame(a)
    BY <2>1, <2>2, <2>3, Unreleased
  <2>5. \A c \in Listed(a)' \ Listed(a) : heap'[c].owner # u
    <3>1. CASE Pushes(t, a)
      BY <2>1, <3>1, PushedListed
    <3>2. CASE ListSame(a)
      BY <3>2 DEF ListSame
    <3> QED
      BY <2>4, <3>1, <3>2
  <2>6. \A c : Top(u, a, c) => Top(u, a, c)'
    BY <2>4, <2>5, TopStays
  <2>7. b \in Listed(a) => Depth(b)' = Depth(b)
    BY <2>4 DEF Depth, SameBlock
  <2>8. b \in Listed(a) => heap'[b].depth = heap[b].depth
    BY <2>4 DEF SameBlock
  <2>9. ASSUME call[u].pc = "cache" PROVE heap'[b] = heap[b]
    <3>1. /\ b \in Memory /\ heap[b].arena = a /\ heap[b].owner = u /\ a # NULL
      BY <2>1, <2>9, Constants DEF IInv, CallOK, OwnsBlock, Owning, TypeOK, CallType
    <3>2. ~ FreeBlocks(t) \/ call[t].arena # a
      BY <2>1 DEF FreeBlocks, At, IInv, CallOK, CallConsistent
    <3> QED
      BY <2>3, <3>1, <3>2, OthersBlocks
  <2>10. b = NULL => Depth(b)' = Depth(b)
    BY <1>0 DEF Depth
  <2>11. call[u].pc = "walk" => \A c \in Listed(a)' : heap'[c].owner = u => heap'[c].depth <= Depth(b)'
    BY <2>4, <2>5, <2>7, <2>10 DEF TopInCall, SameBlock
  <2>12. ASSUME call[u].pc = "cache", full # NULL
         PROVE  /\ full \in Listed(a)' /\ heap'[b].cleanup.nodes = << >>
                /\ \A c \in Listed(a)' : heap'[c].owner = u /\ c # b =>
                     heap'[c].depth <= heap'[full].depth
    BY <2>4, <2>5, <2>9, <2>12 DEF TopInCall, SameBlock
  <2>13. TopInCall(u)
    OBVIOUS
  <2>14. /\ call[u].pc \in {"cache", "alloc", "add", "expand"} => Top(u, a, b)'
         /\ (call[u].pc \in {"find", "walk", "new", "lock", "publish"} /\ full # NULL) =>
              Top(u, a, full)'
         /\ call[u].pc = "walk" => (b # NULL => b \in Listed(a)')
    BY <2>4, <2>6, <2>13 DEF TopInCall
  <2> QED
    BY <1>0, <2>11, <2>12, <2>14 DEF TopInCall
<1> QED
  BY <1>1, <1>2

BlockLabels == AllocateLabels \ {"get"}

(* What leads to a step that uses a block. *)
LEMMA LeadsToBlock ==
  ASSUME IInv, NEW t \in Threads, CallStep(t), call'[t].pc \in BlockLabels
  PROVE  \/ GetBlock(t) \/ FindBlock(t) \/ WalkBlocks(t) \/ NewBlock(t) \/ LockBlocks(t)
         \/ PublishBlock(t) \/ CacheBlock(t) \/ AllocFromBlock(t) \/ ExpandCleanupList(t)
<1>0. /\ call \in [Threads -> CallType]
      /\ call'[t].pc \notin {"idle", "get", "cleanup", "free", "sum"}
  BY DEF IInv, TypeOK, BlockLabels, AllocateLabels
<1>1. ~ (BadAlloc(t) \/ AddCleanupInBlock(t) \/ AddCleanupChunk(t))
  BY <1>0 DEF BadAlloc, AddCleanupInBlock, AddCleanupChunk, Return, NoCall
<1>2. ~ CleanupList(t)
  BY <1>0 DEF CleanupList, GotoWith, CallType
<1>3. ~ (FreeBlocks(t) \/ FinishReset(t))
  BY <1>0 DEF FreeBlocks, FinishReset, At, GotoWith, Return, NoCall, CallType
<1>4. ~ (WalkUsed(t) \/ SpaceUsedReturns(t))
  BY <1>0 DEF WalkUsed, SumBlock, SpaceUsedReturns, At, Return, NoCall, CallType
<1> QED
  BY <1>1, <1>2, <1>3, <1>4 DEF CallStep

(* The walk finds t's first block. *)
LEMMA WalkFindsTop ==
  ASSUME IInv, NEW t \in Threads, WalkBlocks(t), TopInCall(t), NEW a, a = call[t].arena
  PROVE  TopInCall(t)'
<1> PICK b, full : b = call[t].block /\ full = call[t].full
  OBVIOUS
<1>0. /\ call \in [Threads -> CallType] /\ heap \in [Memory -> BlockType] /\ a # NULL
      /\ \A c \in Memory : heap[c].depth \in Nat /\ heap[c].next \in Memory \union {NULL}
      /\ call[t].pc = "walk" /\ b \in Memory \union {NULL} /\ NULL \notin Memory
      /\ arena' = arena /\ heap' = heap
      /\ arena \in [Arenas -> ArenaType] /\ a \in Arenas
  BY Constants DEF IInv, TypeOK, BlockType, CallType, WalkBlocks, At, CallOK, CallConsistent
<1>1. /\ b # NULL => b \in Listed(a) /\ heap[b].arena = a
      /\ \A c \in Listed(a) : heap[c].owner = t => heap[c].depth <= Depth(b)
      /\ full # NULL => Top(t, a, full)
  BY <1>0 DEF TopInCall, Listed
<1>2. /\ Listed(a)' = Listed(a) /\ \A c : Top(t, a, c)' <=> Top(t, a, c)
      /\ \A c : Depth(c)' = Depth(c)
  BY <1>0 DEF Listed, Top, Depth
<1>3. CASE b # NULL /\ heap[b].owner # t /\ GotoWith(t, "walk", heap[b].next)
  <2>1. /\ call'[t].pc = "walk" /\ call'[t].arena = a /\ call'[t].full = full
        /\ call'[t].block = heap[b].next
    BY <1>0, <1>3 DEF GotoWith, CallType
  <2>2. /\ heap[b].next = NULL <=> heap[b].depth \in {0, 1}
        /\ heap[b].next # NULL =>
             /\ heap[b].next \in Memory /\ heap[heap[b].next].arena = a
             /\ heap[heap[b].next].depth + 1 = heap[b].depth /\ heap[heap[b].next].depth > 0
        /\ heap[b].depth > 0
        /\ \A c \in Memory : heap[c].arena = a /\ heap[c].depth = heap[b].depth => c = b
    BY <1>0, <1>1, <1>3, Links DEF Listed
  <2>3. /\ Depth(b) = heap[b].depth /\ Depth(heap[b].next) + 1 = heap[b].depth
        /\ Depth(heap[b].next) \in Nat /\ heap[b].depth \in Nat
    BY <1>0, <1>3, <2>2 DEF Depth
  <2>4. ASSUME NEW c \in Listed(a), heap[c].owner = t PROVE heap[c].depth <= Depth(heap[b].next)
    <3>1. c \in Memory /\ heap[c].arena = a /\ heap[c].depth \in Nat /\ heap[c].depth <= heap[b].depth
      BY <1>0, <1>1, <2>3, <2>4 DEF Listed
    <3>2. c # b
      BY <1>3, <2>4
    <3> QED
      BY <2>2, <2>3, <3>1, <3>2
  <2>5. heap[b].next # NULL => heap[b].next \in Listed(a)
    <3>1. heap[b].depth <= Depth(arena[a].blocks) /\ Depth(arena[a].blocks) \in Nat
      BY <1>0, <1>1, <1>3 DEF Listed, Depth, ArenaType
    <3> QED
      BY <1>0, <1>3, <2>2, <3>1 DEF Listed
  <2> QED
    BY <1>0, <1>1, <1>2, <2>1, <2>4, <2>5 DEF TopInCall
<1>4. CASE Goto(t, "new")
  <2>1. call'[t].pc = "new" /\ call'[t].arena = a /\ call'[t].full = full
    BY <1>0, <1>4 DEF Goto, CallType
  <2> QED
    BY <1>1, <1>2, <2>1 DEF TopInCall
<1>5. CASE /\ b # NULL /\ heap[b].owner = t
           /\ call' = [call EXCEPT ![t].pc = "cache", ![t].full = NULL]
  <2>1. call'[t].pc = "cache" /\ call'[t].arena = a /\ call'[t].full = NULL /\ call'[t].block = b
    BY <1>0, <1>5 DEF CallType
  <2>2. Top(t, a, b)
    BY <1>1, <1>5 DEF Top, Depth
  <2> QED
    BY <1>2, <2>1, <2>2 DEF TopInCall
<1> QED
  BY <1>3, <1>4, <1>5 DEF WalkBlocks

(* A step of t leaves its own call on its first block.                      *)
LEMMA OwnTopKept ==
  ASSUME IInv, IInv', PendingEmpty, NEW t \in Threads, CallStep(t) \/ Begin(t), TopInCall(t),
         \A a \in Arenas : arena[a].alive /\ ~ Releasing(a) => TopsKnown(a)
  PROVE  TopInCall(t)'
<1> SUFFICES ASSUME call'[t].pc \in BlockLabels PROVE TopInCall(t)'
  BY DEF TopInCall, BlockLabels, AllocateLabels
<1> PICK a, b, full : a = call[t].arena /\ b = call[t].block /\ full = call[t].full
  OBVIOUS
<1>0. /\ call \in [Threads -> CallType] /\ heap \in [Memory -> BlockType] /\ NULL \notin Memory
      /\ arena \in [Arenas -> ArenaType]
      /\ \A c \in Memory : heap[c].depth \in Nat
      /\ b \in Memory \union {NULL} /\ full \in Memory \union {NULL}
  BY Constants DEF IInv, TypeOK, BlockType, CallType
<1>1. CallStep(t)
  <2>1. call'[t].pc \notin {"idle", "cleanup", "sum", "get"}
    BY DEF BlockLabels, AllocateLabels
  <2> QED
    BY <2>1, BeginsAt
<1>2. \/ GetBlock(t) \/ FindBlock(t) \/ WalkBlocks(t) \/ NewBlock(t) \/ LockBlocks(t)
      \/ PublishBlock(t) \/ CacheBlock(t) \/ AllocFromBlock(t) \/ ExpandCleanupList(t)
  BY <1>1, LeadsToBlock
<1>3. call[t].pc \in AllocateLabels
  BY <1>2 DEF GetBlock, FindBlock, WalkBlocks, NewBlock, LockBlocks, PublishBlock, CacheBlock,
     AllocFromBlock, ExpandCleanupList, At, AllocateLabels
<1>4. call'[t].arena = a
  BY <1>0, <1>2 DEF GetBlock, FindBlock, WalkBlocks, NewBlock, LockBlocks, PublishBlock, CacheBlock,
     AllocFromBlock, ExpandCleanupList, Goto, GotoWith, Return, NoCall, BlockLabels, AllocateLabels, CallType
<1>5. /\ a \in Arenas /\ arena[a].alive /\ arena'[a].alive /\ ~ Releasing(a) /\ ~ Releasing(a)'
      /\ ~ Restarts(t, a) /\ call[t].op = "allocate"
  <2>1. /\ call[t].op = "allocate" /\ a \in Arenas /\ arena[a].alive
        /\ \A v \in Threads : call[v].arena = a => call[v].op \notin ReleaseOps
    BY <1>3 DEF IInv, CallOK, CallConsistent, ReleasedAlone, ReleaseOps, AllocateLabels
  <2>2. /\ call'[t].op = "allocate" /\ call'[t].pc # "idle"
    BY DEF IInv, CallOK, CallConsistent, BlockLabels, AllocateLabels
  <2>3. /\ arena'[a].alive
        /\ \A v \in Threads : call'[v].arena = a => call'[v].op \notin ReleaseOps
    BY <1>4, <2>2 DEF IInv, CallOK, CallConsistent, ReleasedAlone, ReleaseOps
  <2>4. ~ Restarts(t, a)
    BY <2>1 DEF Restarts, Construct, FinishReset, At, IInv, CallOK, CallConsistent
  <2> QED
    BY <2>1, <2>3, <2>4 DEF Releasing, ReleaseOps
<1>6. /\ Listed(a) \subseteq Listed(a)' /\ \A c \in Listed(a) : SameBlock(c)
      /\ Pushes(t, a) \/ ListSame(a)
  BY <1>5, Unreleased
<1>7. TopsKnown(a)
  BY <1>5
<1>8. ASSUME ~ PublishBlock(t), NEW c, Top(t, a, c) PROVE Top(t, a, c)'
  <2>1. ListSame(a)
    BY <1>6, <1>8 DEF Pushes
  <2> QED
    BY <1>6, <1>8, <2>1, TopStays DEF ListSame
<1>9. CASE GetBlock(t)
  <2>1. call[t].pc = "get" /\ ~ Caching(t, a) /\ ~ PublishBlock(t)
    BY <1>9 DEF GetBlock, PublishBlock, At, Caching
  <2>2. /\ CachedBlock(t, a) # NULL => Top(t, a, CachedBlock(t, a))
        /\ HintedBlock(t, a) # NULL => Top(t, a, HintedBlock(t, a))
    BY <1>7, <2>1 DEF TopsKnown, CachedBlock, HintedBlock
  <2>3. CASE \E c : c # NULL /\ Top(t, a, c) /\ GotoWith(t, AfterGetBlock(t), c)
    <3>1. PICK c : Top(t, a, c) /\ GotoWith(t, AfterGetBlock(t), c)
      BY <2>3
    <3>2. call'[t].pc \in {"alloc", "expand"} /\ call'[t].block = c
      BY <1>0, <3>1 DEF GotoWith, AfterGetBlock, CallType
    <3> QED
      BY <1>4, <1>8, <2>1, <3>1, <3>2 DEF TopInCall
  <2>4. CASE \E c : (c # NULL => Top(t, a, c)) /\ call' = [call EXCEPT ![t].pc = "find", ![t].full = c]
    <3>1. PICK c : (c # NULL => Top(t, a, c)) /\ call' = [call EXCEPT ![t].pc = "find", ![t].full = c]
      BY <2>4
    <3>2. call'[t].pc = "find" /\ call'[t].full = c
      BY <1>0, <3>1 DEF CallType
    <3> QED
      BY <1>4, <1>8, <2>1, <3>1, <3>2 DEF TopInCall
  <2> QED
    BY <1>9, <2>2, <2>3, <2>4 DEF GetBlock
<1>10. CASE FindBlock(t)
  <2>1. /\ call[t].pc = "find" /\ call'[t].pc = "walk" /\ call'[t].full = full
        /\ call'[t].block = arena[a].blocks /\ heap' = heap /\ arena' = arena
    BY <1>0, <1>10 DEF FindBlock, At, GotoWith, CallType
  <2>2. full # NULL => Top(t, a, full)
    BY <2>1 DEF TopInCall
  <2>3. /\ Listed(a)' = Listed(a) /\ Depth(arena[a].blocks)' = Depth(arena[a].blocks)
        /\ \A c : Top(t, a, c)' <=> Top(t, a, c)
    BY <2>1 DEF Listed, Depth, Top
  <2>4. \A c \in Listed(a) : heap[c].depth <= Depth(arena[a].blocks)
    BY DEF Listed
  <2>5. arena[a].blocks # NULL => arena[a].blocks \in Listed(a)
    <3>1. ~ Freed(a) /\ arena[a].blocks \in Memory \union {NULL}
      BY <1>0, <1>5, Unreleased DEF ArenaType
    <3>2. arena[a].blocks # NULL => heap[arena[a].blocks].arena = a /\ heap[arena[a].blocks].depth > 0
      BY <1>5, <3>1 DEF IInv, Headed
    <3> QED
      BY <1>0, <3>1, <3>2 DEF Listed, Depth
  <2> QED
    BY <1>4, <2>1, <2>2, <2>3, <2>4, <2>5 DEF TopInCall
<1>11. CASE WalkBlocks(t)
  BY <1>11, WalkFindsTop
<1>12. CASE NewBlock(t) \/ LockBlocks(t)
  <2>1. /\ call[t].pc \in {"new", "lock"} /\ call'[t].pc \in {"lock", "publish"}
        /\ call'[t].full = full /\ ~ PublishBlock(t)
    BY <1>0, <1>12 DEF NewBlock, LockBlocks, PublishBlock, At, Goto, GotoWith, CallType
  <2> QED
    BY <1>4, <1>8, <2>1 DEF TopInCall
<1>13. CASE PublishBlock(t)
  <2>1. /\ call[t].pc = "publish" /\ call'[t].pc = "cache" /\ call'[t].full = full
        /\ call'[t].block = b
    BY <1>0, <1>13 DEF PublishBlock, At, Goto, CallType
  <2>2. /\ heap' = heap /\ b \in Memory \ Listed(a) /\ heap[b].owner = t
        /\ Listed(a)' = Listed(a) \union {b}
        /\ \A c \in Listed(a) : heap[c].depth < heap[b].depth
    BY <1>5, <1>13, PushedListed DEF Pushes
  <2>3. Listed(a) \subseteq Memory
    BY DEF Listed
  <2>4. Top(t, a, b)'
    BY <1>0, <2>2, <2>3 DEF Top
  <2>5. heap[b].cleanup.nodes = << >>
    BY <2>1 DEF PendingEmpty, NoCleanup
  <2>6. full # NULL => Top(t, a, full)
    BY <2>1 DEF TopInCall
  <2> QED
    BY <1>4, <2>1, <2>2, <2>4, <2>5, <2>6 DEF TopInCall, Top
<1>14. CASE CacheBlock(t) \/ AllocFromBlock(t) \/ ExpandCleanupList(t)
  <2>1. /\ call[t].pc \in {"cache", "alloc", "add"} /\ call'[t].pc \in {"alloc", "add", "expand"}
        /\ call'[t].block = b /\ ~ PublishBlock(t)
    <3>1. CASE CacheBlock(t)
      BY <1>0, <3>1 DEF CacheBlock, PublishBlock, At, AfterGetBlock, CallType
    <3>2. CASE AllocFromBlock(t)
      <4>1. ~ Return(t)
        BY <1>0 DEF Return, NoCall, BlockLabels, AllocateLabels
      <4> QED
        BY <1>0, <3>2, <4>1 DEF AllocFromBlock, PublishBlock, At, Goto, CallType
    <3>3. CASE ExpandCleanupList(t)
      BY <1>0, <3>3 DEF ExpandCleanupList, PublishBlock, At, AfterExpand, CallType, BlockLabels
    <3> QED
      BY <1>14, <3>1, <3>2, <3>3
  <2> QED
    BY <1>4, <1>8, <2>1 DEF TopInCall
<1> QED
  BY <1>2, <1>9, <1>10, <1>11, <1>12, <1>13, <1>14

-----------------------------------------------------------------------------
(* Only CacheBlock changes the hint of an arena in use, or leads a cache to  *)
(* it, unless the arena is started anew.                                    *)
LEMMA CacheEffect ==
  ASSUME IInv, IInv', NEW t \in Threads, CallStep(t) \/ Begin(t), NEW a \in Arenas,
         arena'[a].alive, ~ Releasing(a)', ~ Restarts(t, a)
  PROVE  /\ arena'[a].lifecycle_id = arena[a].lifecycle_id
         /\ \A u \in Threads \ {t} : thread_cache'[u] = thread_cache[u]
         /\ \/ CacheBlock(t) /\ call[t].arena = a
            \/ /\ arena'[a].hint = arena[a].hint
               /\ thread_cache'[t] = thread_cache[t] \/ thread_cache'[t].id # arena[a].lifecycle_id
<1>0. /\ arena \in [Arenas -> ArenaType] /\ call \in [Threads -> CallType] /\ TypeOK
      /\ thread_cache \in [Threads -> CacheType]
      /\ arena[a].alive /\ arena[a].lifecycle_id >= 0
      /\ arena[a].lifecycle_id < lifecycle_id_generator
      /\ \A c \in Arenas : arena[a].lifecycle_id = arena[c].lifecycle_id => c = a
      /\ \A c \in Arenas : arena[c].lifecycle_id \in Int
      /\ lifecycle_id_generator \in Nat
  BY Unreleased DEF IInv, TypeOK, Lifecycles, ArenaType
<1> HIDE DEF TypeOK
<1>1. CASE Begin(t)
  <2>1. CASE ThreadExit(t)
    <3>1. thread_cache'[t].id = -1
      BY <1>0, <2>1 DEF ThreadExit, NoCache
    <3> QED
      BY <1>0, <2>1, <3>1 DEF ThreadExit
  <2>2. CASE \E c \in Arenas : Construct(t, c)
    <3>1. PICK c \in Arenas : Construct(t, c)
      BY <2>2
    <3>2. /\ c # a /\ arena'[a] = arena[a]
          /\ OwnInitialBlock(t, c, InitialBlock[c], lifecycle_id_generator)
      BY <1>0, <3>1 DEF Restarts, Construct
    <3>3. /\ \A u \in Threads \ {t} : thread_cache'[u] = thread_cache[u]
          /\ thread_cache'[t] = thread_cache[t] \/ thread_cache'[t].id = lifecycle_id_generator
      BY <1>0, <3>2 DEF OwnInitialBlock
    <3> QED
      BY <1>0, <3>2, <3>3
  <2>3. CASE \E c \in Arenas : Reset(t, c)
    <3>1. PICK c \in Arenas : Reset(t, c)
      BY <2>3
    <3>2. call'[t].arena = c /\ call'[t].op = "reset"
      BY <1>0, <3>1 DEF Reset, Release, NoCall
    <3>3. c # a
      BY <3>2 DEF Releasing
    <3> QED
      BY <1>0, <3>1, <3>3 DEF Reset
  <2>4. CASE UNCHANGED <<arena, thread_cache>>
    BY <2>4
  <2> QED
    BY <1>1, <2>1, <2>2, <2>3, <2>4 DEF Begin, Destroy, SpaceUsed, Allocate
<1>2. CASE CallStep(t)
  <2>1. CASE CacheBlock(t)
    <3>1. call[t].arena \in Arenas
      BY <2>1 DEF CacheBlock, At, IInv, CallOK, CallConsistent
    <3> QED
      BY <1>0, <2>1, <3>1 DEF CacheBlock
  <2>2. CASE FinishReset(t)
    <3>1. PICK c \in Arenas : c = call[t].arena
      BY <2>2, KeptAtTheEnd
    <3>2. /\ c # a /\ arena'[a] = arena[a]
          /\ OwnInitialBlock(t, c, call[t].full, arena[c].lifecycle_id)
      BY <1>0, <2>2, <3>1 DEF Restarts, FinishReset
    <3>3. /\ \A u \in Threads \ {t} : thread_cache'[u] = thread_cache[u]
          /\ thread_cache'[t] = thread_cache[t] \/ thread_cache'[t].id = arena[c].lifecycle_id
      BY <1>0, <3>2 DEF OwnInitialBlock
    <3> QED
      BY <1>0, <3>2, <3>3
  <2>3. CASE LockBlocks(t) \/ PublishBlock(t)
    <3>1. call[t].arena \in Arenas
      BY <2>3 DEF LockBlocks, PublishBlock, At, IInv, CallOK, CallConsistent
    <3>2. /\ thread_cache' = thread_cache
          /\ arena'[a].hint = arena[a].hint /\ arena'[a].lifecycle_id = arena[a].lifecycle_id
      BY <1>0, <2>3, <3>1 DEF LockBlocks, PublishBlock, ArenaType
    <3> QED
      BY <3>2
  <2>4. CASE AddCleanupInBlock(t) \/ AddCleanupChunk(t) \/ CleanupList(t)
    <3>1. call[t].arena \in Arenas
      BY <2>4 DEF AddCleanupInBlock, AddCleanupChunk, CleanupList, At, IInv, CallOK, CallConsistent
    <3>2. /\ thread_cache' = thread_cache
          /\ arena'[a].hint = arena[a].hint /\ arena'[a].lifecycle_id = arena[a].lifecycle_id
      <4>1. CASE AddCleanupInBlock(t)
        BY <1>0, <3>1, <4>1 DEF AddCleanupInBlock, Register, ArenaType
      <4>2. CASE AddCleanupChunk(t)
        BY <1>0, <3>1, <4>2 DEF AddCleanupChunk, Register, ArenaType
      <4>3. CASE CleanupList(t)
        BY <1>0, <3>1, <4>3 DEF CleanupList, ArenaType
      <4> QED
        BY <2>4, <4>1, <4>2, <4>3
    <3> QED
      BY <3>2
  <2>5. CASE UNCHANGED <<arena, thread_cache>>
    BY <2>5
  <2> QED
    BY <1>2, <2>1, <2>2, <2>3, <2>4, <2>5 DEF CallStep, GetBlock, FindBlock, WalkBlocks, NewBlock,
       BadAlloc, AllocFromBlock, ExpandCleanupList, FreeBlocks, WalkUsed, SpaceUsedReturns
<1> QED
  BY <1>1, <1>2

(* A step leaves the cache and the hint with the first block of a thread.   *)
LEMMA TopsKnownKept ==
  ASSUME IInv, IInv', NEW t \in Threads, CallStep(t) \/ Begin(t), TopInCall(t),
         NEW a \in Arenas, arena'[a].alive, ~ Releasing(a)', ~ Restarts(t, a), TopsKnown(a)
  PROVE  TopsKnown(a)'
<1>0. /\ Listed(a) \subseteq Listed(a)' /\ \A c \in Listed(a) : SameBlock(c)
      /\ Pushes(t, a) \/ ListSame(a)
  BY Unreleased
<1>1. /\ arena'[a].lifecycle_id = arena[a].lifecycle_id
      /\ \A u \in Threads \ {t} : thread_cache'[u] = thread_cache[u] /\ call'[u] = call[u]
      /\ \/ CacheBlock(t) /\ call[t].arena = a
         \/ /\ arena'[a].hint = arena[a].hint
            /\ thread_cache'[t] = thread_cache[t] \/ thread_cache'[t].id # arena[a].lifecycle_id
  BY CacheEffect, OthersStay
<1>2. /\ call \in [Threads -> CallType] /\ thread_cache \in [Threads -> CacheType]
      /\ arena \in [Arenas -> ArenaType]
  BY DEF IInv, TypeOK
<1>3. CASE CacheBlock(t) /\ call[t].arena = a
  <2>1. PICK b : b = call[t].block
    OBVIOUS
  <2>2. /\ ListSame(a) /\ Top(t, a, b)
        /\ arena'[a].hint = b /\ thread_cache'[t].block = b
    <3>1. call[t].pc = "cache" /\ ~ Pushes(t, a)
      BY <1>3 DEF CacheBlock, Pushes, PublishBlock, At
    <3> QED
      BY <1>0, <1>2, <1>3, <2>1, <3>1 DEF CacheBlock, TopInCall
  <2>3. \A u \in Threads : \A c : Top(u, a, c) => Top(u, a, c)'
    BY <1>0, <2>2, TopStays DEF ListSame
  <2>4. b \in Listed(a)' /\ heap'[b].owner = t
    BY <1>0, <2>2 DEF Top, SameBlock
  <2>5. ASSUME NEW u \in Threads, ~ Caching(u, a)'
        PROVE  /\ thread_cache'[u].id = arena'[a].lifecycle_id => Top(u, a, thread_cache[u].block)'
               /\ (arena'[a].hint # NULL /\ heap'[arena'[a].hint].owner = u) => Top(u, a, arena[a].hint)'
    <3>1. CASE u = t
      BY <2>2, <2>3, <3>1
    <3>2. CASE u # t
      <4>1. ~ Caching(u, a)
        BY <1>1, <2>5, <3>2 DEF Caching
      <4> QED
        BY <1>1, <2>2, <2>3, <2>4, <3>2, <4>1 DEF TopsKnown
    <3> QED
      BY <3>1, <3>2
  <2> QED
    BY <2>2, <2>4, <2>5 DEF TopsKnown
<1>4. CASE ~ (CacheBlock(t) /\ call[t].arena = a)
  <2>1. arena[a].hint # NULL => arena[a].hint \in Listed(a)
    BY DEF TopsKnown
  <2>2. ASSUME NEW u \in Threads, ~ Caching(u, a)'
        PROVE  /\ ~ Caching(u, a)
               /\ u # t \/ ~ Pushes(t, a)
    <3>1. Pushes(t, a) => Caching(t, a)'
      BY <1>2 DEF Pushes, PublishBlock, Goto, Caching, CallType
    <3>2. Caching(t, a) => Caching(t, a)'
      <4> SUFFICES ASSUME Caching(t, a) PROVE FALSE
        OBVIOUS
      <4>2. CallStep(t)
        BY BeginsAt DEF Caching
      <4>3. CacheBlock(t)
        BY <4>2 DEF Caching, CallStep, GetBlock, FindBlock, WalkBlocks, NewBlock, BadAlloc,
           LockBlocks, PublishBlock, AllocFromBlock, AddCleanupInBlock, ExpandCleanupList,
           AddCleanupChunk, CleanupList, FreeBlocks, FinishReset, WalkUsed, SpaceUsedReturns, At
      <4> QED
        BY <1>4, <4>3 DEF Caching
    <3> QED
      BY <1>1, <2>2, <3>1, <3>2 DEF Caching
  <2>3. ASSUME NEW u \in Threads, ~ Caching(u, a)', NEW c, Top(u, a, c) PROVE Top(u, a, c)'
    <3>1. \A d \in Listed(a)' \ Listed(a) : heap'[d].owner # u
      <4>1. CASE ListSame(a)
        BY <4>1 DEF ListSame
      <4>2. CASE Pushes(t, a)
        BY <2>2, <2>3, <4>2, PushedListed
      <4> QED
        BY <1>0, <4>1, <4>2
    <3> QED
      BY <1>0, <2>3, <3>1, TopStays
  <2>4. arena[a].hint # NULL => heap'[arena[a].hint].owner = heap[arena[a].hint].owner
    BY <1>0, <2>1 DEF SameBlock
  <2>5. ASSUME NEW u \in Threads, ~ Caching(u, a)'
        PROVE  /\ thread_cache'[u].id = arena'[a].lifecycle_id => Top(u, a, thread_cache[u].block)'
               /\ (arena'[a].hint # NULL /\ heap'[arena'[a].hint].owner = u) => Top(u, a, arena[a].hint)'
    <3>1. ~ Caching(u, a)
      BY <2>2, <2>5
    <3>2. /\ thread_cache[u].id = arena[a].lifecycle_id => Top(u, a, thread_cache[u].block)
          /\ (arena[a].hint # NULL /\ heap[arena[a].hint].owner = u) => Top(u, a, arena[a].hint)
      BY <3>1 DEF TopsKnown
    <3>3. thread_cache'[u] = thread_cache[u] \/ thread_cache'[u].id # arena'[a].lifecycle_id
      BY <1>1, <1>4
    <3>4. arena'[a].hint = arena[a].hint
      BY <1>1, <1>4
    <3>5. \A c : Top(u, a, c) => Top(u, a, c)'
      BY <2>3, <2>5
    <3>6. ASSUME thread_cache'[u].id = arena'[a].lifecycle_id PROVE Top(u, a, thread_cache[u].block)'
      BY <1>1, <3>2, <3>3, <3>5, <3>6
    <3>7. ASSUME arena'[a].hint # NULL, heap'[arena'[a].hint].owner = u PROVE Top(u, a, arena[a].hint)'
      BY <2>4, <3>2, <3>4, <3>5, <3>7
    <3> QED
      BY <3>6, <3>7
  <2>6. arena'[a].hint # NULL => arena'[a].hint \in Listed(a)'
    BY <1>0, <1>1, <1>4, <2>1
  <2> QED
    BY <2>5, <2>6 DEF TopsKnown
<1> QED
  BY <1>3, <1>4

(* An arena that starts anew is in no cache but that of the thread that owns *)
(* the initial block.                                                       *)
LEMMA TopsKnownAnew ==
  ASSUME IInv, IInv', NEW t \in Threads, NEW a \in Arenas, Restarts(t, a), arena'[a].alive
  PROVE  TopsKnown(a)'
<1>0. /\ TypeOK /\ arena \in [Arenas -> ArenaType] /\ thread_cache \in [Threads -> CacheType]
      /\ lifecycle_id_generator \in Nat
      /\ \A u \in Threads : thread_cache[u].id \in Int
      /\ \A u \in Threads : thread_cache[u].id < lifecycle_id_generator
  BY DEF IInv, TypeOK, Lifecycles, CacheType
<1> PICK b, id : b = InitialBlock[a] /\ id = arena'[a].lifecycle_id
  OBVIOUS
<1>1. /\ Listed(a)' = {b} \ {NULL} /\ arena'[a].hint = b
      /\ OwnInitialBlock(t, a, b, id)
      /\ b # NULL => b \in Memory /\ heap'[b] = EmptyBlock(a, t, InitialBlockSize, 1)
  BY RestartListed
<1>2. \A u \in Threads : thread_cache[u].id # id
  <2>1. CASE Construct(t, a)
    <3>1. id = lifecycle_id_generator
      BY <1>0, <2>1 DEF Construct, Restarted
    <3> QED
      BY <1>0, <3>1
  <2>2. CASE FinishReset(t) /\ call[t].arena = a
    <3>1. /\ arena' = [arena EXCEPT ![a] = [Restarted(a, arena[a].lifecycle_id)
                                             EXCEPT !.alive = (call[t].op = "reset")]]
      BY <2>2 DEF FinishReset
    <3>2. arena'[a] = [Restarted(a, arena[a].lifecycle_id) EXCEPT !.alive = (call[t].op = "reset")]
      BY <1>0, <3>1
    <3>3. call[t].op = "reset" /\ id = arena[a].lifecycle_id
      BY <3>2 DEF Restarted
    <3> QED
      BY <2>2, <3>3 DEF IInv, Lifecycles
  <2> QED
    BY <2>1, <2>2 DEF Restarts
<1>3. b # NULL => Top(t, a, b)'
  <2>1. SUFFICES ASSUME b # NULL PROVE Top(t, a, b)'
    OBVIOUS
  <2>2. /\ Listed(a)' = {b} /\ heap'[b].owner = t /\ heap'[b].depth = 1
    BY <1>1, <2>1 DEF EmptyBlock
  <2> QED
    BY <2>2 DEF Top
<1>4. \A u \in Threads : thread_cache'[u].id = id => u = t /\ b # NULL /\ thread_cache'[u].block = b
  BY <1>0, <1>1, <1>2 DEF OwnInitialBlock
<1>5. b # NULL => b \in Listed(a)' /\ heap'[b].owner = t
  BY <1>3 DEF Top
<1>6. ASSUME NEW u \in Threads, thread_cache'[u].id = id PROVE Top(u, a, thread_cache[u].block)'
  BY <1>3, <1>4, <1>6
<1>7. ASSUME NEW u \in Threads, b # NULL, heap'[b].owner = u PROVE Top(u, a, arena[a].hint)'
  BY <1>1, <1>3, <1>5, <1>7
<1> QED
  BY <1>1, <1>5, <1>6, <1>7 DEF TopsKnown

-----------------------------------------------------------------------------
(* The cleanups of an arena stay in order when those of no block change, and *)
(* the blocks that become part of the list have none.                       *)
LEMMA NodesStay ==
  ASSUME NEW a, NodesKept(a), ~ Releasing(a)' => ~ Releasing(a),
         arena'[a].registered = arena[a].registered, arena'[a].ran = arena[a].ran,
         Remaining(a) \subseteq Remaining(a)',
         \A b \in Remaining(a) :
           heap'[b].owner = heap[b].owner /\ heap'[b].depth = heap[b].depth /\ NodesOf(b)' = NodesOf(b),
         \A b \in Remaining(a)' \ Remaining(a) : NodesOf(b)' = << >>
  PROVE  NodesKept(a)'
<1>1. OwnNodes(a)' /\ RanNodes(a)'
  BY DEF NodesKept, OwnNodes, RanNodes
<1>4. AllNodes(a)'
  <2>1. AllNodes(a)
    BY DEF NodesKept
  <2>2. SUFFICES ASSUME NEW t \in Threads, NEW k \in 1 .. arena[a].registered[t],
                        ~ \E i \in DOMAIN arena[a].ran : arena[a].ran[i] = <<t, k>>
                 PROVE  \E c \in Remaining(a)' : \E i \in DOMAIN NodesOf(c)' : NodesOf(c)'[i] = <<t, k>>
    BY DEF AllNodes
  <2>3. PICK c \in Remaining(a) : \E i \in DOMAIN NodesOf(c) : NodesOf(c)[i] = <<t, k>>
    BY <2>1, <2>2 DEF AllNodes
  <2> QED
    BY <2>3
<1>2. BlockOrder(a)' /\ ListOrder(a)'
  BY DEF NodesKept, BlockOrder, ListOrder
<1>3. RanOrder(a)' /\ RanFirst(a)'
  BY DEF NodesKept, RanOrder, RanFirst
<1> QED
  BY <1>1, <1>2, <1>3, <1>4 DEF NodesKept

(* They stay in order when a new first block takes those of the last one.   *)
LEMMA NodesStolen ==
  ASSUME NEW a, NodesKept(a), ~ Releasing(a), ~ Releasing(a)',
         arena'[a].registered = arena[a].registered, arena'[a].ran = arena[a].ran,
         Remaining(a)' = Remaining(a),
         \A c \in Remaining(a) : heap[c].depth \in Nat,
         \A c \in Remaining(a) : heap'[c].owner = heap[c].owner /\ heap'[c].depth = heap[c].depth,
         NEW b \in Remaining(a), NEW full \in Remaining(a), b # full,
         heap[b].owner = heap[full].owner,
         \A c \in Remaining(a) : heap[c].owner = heap[b].owner /\ c # b =>
           heap[c].depth <= heap[full].depth /\ heap[c].depth < heap[b].depth,
         \A c \in Remaining(a) : c # full => heap[c].depth # heap[full].depth,
         NodesOf(b)' = NodesOf(full), NodesOf(full)' = << >>, NodesOf(b) = << >>,
         \A c \in Remaining(a) \ {b, full} : NodesOf(c)' = NodesOf(c)
  PROVE  NodesKept(a)'
<1>0. arena[a].ran = << >>
  BY DEF NodesKept
<1>1. OwnNodes(a)' /\ RanNodes(a)'
  BY <1>0 DEF NodesKept, OwnNodes, RanNodes
<1>2. AllNodes(a)'
  <2>1. SUFFICES ASSUME NEW t \in Threads, NEW k \in 1 .. arena[a].registered[t]
                 PROVE  \E c \in Remaining(a) : \E i \in DOMAIN NodesOf(c)' : NodesOf(c)'[i] = <<t, k>>
    BY DEF AllNodes
  <2>2. PICK c \in Remaining(a) : \E i \in DOMAIN NodesOf(c) : NodesOf(c)[i] = <<t, k>>
    BY <1>0, <2>1 DEF NodesKept, AllNodes
  <2>3. c # b
    BY <2>2
  <2> QED
    BY <2>2, <2>3
<1>3. BlockOrder(a)'
  BY DEF NodesKept, BlockOrder
<1>4. ListOrder(a)'
  <2>1. SUFFICES ASSUME NEW c \in Remaining(a), NEW d \in Remaining(a),
                        heap[c].owner = heap[d].owner, heap[c].depth > heap[d].depth,
                        NEW i \in DOMAIN NodesOf(c)', NEW j \in DOMAIN NodesOf(d)'
                 PROVE  NodesOf(c)'[i][2] > NodesOf(d)'[j][2]
    BY DEF ListOrder
  <2>2. c # full /\ d # full
    BY <2>1
  <2>3. d # b
    BY <2>1
  <2>4. CASE c = b
    <3>1. heap[d].depth <= heap[full].depth /\ heap[d].depth # heap[full].depth
      BY <2>1, <2>2, <2>3, <2>4
    <3>2. heap[full].depth > heap[d].depth
      BY <3>1
    <3> QED
      BY <2>1, <2>2, <2>3, <2>4, <3>2 DEF NodesKept, ListOrder
  <2>5. CASE c # b
    BY <2>1, <2>2, <2>3, <2>5 DEF NodesKept, ListOrder
  <2> QED
    BY <2>4, <2>5
<1>5. RanOrder(a)' /\ RanFirst(a)'
  BY <1>0 DEF RanOrder, RanFirst
<1> QED
  BY <1>0, <1>1, <1>2, <1>3, <1>4, <1>5 DEF NodesKept

(* A sequence with a new first element. *)
LEMMA AddedInFront ==
  ASSUME NEW S, NEW e \in S, NEW y \in Seq(S), NEW z, z = <<e>> \o y
  PROVE  /\ DOMAIN z = 1 .. Len(y) + 1 /\ Len(y) \in Nat /\ DOMAIN y = 1 .. Len(y)
         /\ z[1] = e
         /\ \A i \in DOMAIN z : i # 1 => i - 1 \in DOMAIN y /\ z[i] = y[i - 1]
         /\ \A i \in DOMAIN y : i + 1 \in DOMAIN z /\ z[i + 1] = y[i]
<1>1. PICK x : x = <<e>>
  OBVIOUS
<1>2. x \in Seq(S) /\ Len(x) = 1 /\ x[1] = e
  BY <1>1
<1>3. /\ z = x \o y /\ z \in Seq(S) /\ Len(z) = Len(x) + Len(y)
      /\ \A i \in 1 .. Len(x) + Len(y) : z[i] = IF i <= Len(x) THEN x[i] ELSE y[i - Len(x)]
  BY <1>1, <1>2, ConcatProperties
<1>4. Len(y) \in Nat /\ DOMAIN y = 1 .. Len(y)
  OBVIOUS
<1>5. DOMAIN z = 1 .. Len(y) + 1
  BY <1>2, <1>3, <1>4
<1>6. \A i \in 1 .. Len(y) + 1 : z[i] = IF i <= 1 THEN x[i] ELSE y[i - 1]
  BY <1>2, <1>3, <1>4
<1>7. ASSUME NEW i \in 1 .. Len(y) PROVE i + 1 \in 1 .. Len(y) + 1 /\ z[i + 1] = y[i]
  <2>1. i + 1 \in 1 .. Len(y) + 1 /\ ~ (i + 1 <= 1) /\ (i + 1) - 1 = i
    BY <1>4
  <2>2. z[i + 1] = y[(i + 1) - 1]
    BY <1>6, <2>1
  <2> QED
    BY <2>1, <2>2
<1> QED
  BY <1>2, <1>4, <1>5, <1>6, <1>7

(* They stay in order when a cleanup is added to the first block of a thread. *)
LEMMA NodesAdded ==
  ASSUME NEW a, NodesKept(a), ~ Releasing(a), ~ Releasing(a)',
         arena'[a].ran = arena[a].ran, Remaining(a)' = Remaining(a),
         \A c \in Remaining(a) : heap[c].depth \in Nat,
         \A c \in Remaining(a) : NodesOf(c) \in Nodes,
         \A c \in Remaining(a) : heap'[c].owner = heap[c].owner /\ heap'[c].depth = heap[c].depth,
         NEW t \in Threads, NEW b \in Remaining(a), heap[b].owner = t,
         \A c \in Remaining(a) : heap[c].owner = t => heap[c].depth <= heap[b].depth,
         arena[a].registered \in [Threads -> Nat],
         arena'[a].registered = [arena[a].registered EXCEPT ![t] = arena[a].registered[t] + 1],
         NodesOf(b)' = << <<t, arena[a].registered[t] + 1>> >> \o NodesOf(b),
         \A c \in Remaining(a) \ {b} : NodesOf(c)' = NodesOf(c)
  PROVE  NodesKept(a)'
<1> PICK k : k = arena[a].registered[t]
  OBVIOUS
<1>0. /\ arena[a].ran = << >> /\ k \in Nat /\ arena'[a].registered[t] = k + 1
      /\ \A u \in Threads : u # t => arena'[a].registered[u] = arena[a].registered[u]
  BY DEF NodesKept
<1>1. /\ DOMAIN NodesOf(b)' = 1 .. Len(NodesOf(b)) + 1 /\ Len(NodesOf(b)) \in Nat
      /\ DOMAIN NodesOf(b) = 1 .. Len(NodesOf(b))
      /\ NodesOf(b)'[1] = <<t, k + 1>>
      /\ \A i \in DOMAIN NodesOf(b)' : i # 1 => i - 1 \in DOMAIN NodesOf(b) /\ NodesOf(b)'[i] = NodesOf(b)[i - 1]
      /\ \A i \in DOMAIN NodesOf(b) : i + 1 \in DOMAIN NodesOf(b)' /\ NodesOf(b)'[i + 1] = NodesOf(b)[i]
  <2>0. PICK S, e, y, z :
          /\ S = Threads \X Nat /\ e = <<t, k + 1>> /\ y = NodesOf(b) /\ z = <<e>> \o y
    OBVIOUS
  <2>1. e \in S /\ y \in Seq(S) /\ z = <<e>> \o y
    BY <1>0, <2>0 DEF Nodes
  <2>2. NodesOf(b)' = z /\ e = <<t, k + 1>>
    BY <2>0
  <2>4. /\ DOMAIN z = 1 .. Len(y) + 1 /\ Len(y) \in Nat /\ DOMAIN y = 1 .. Len(y)
        /\ z[1] = e
        /\ \A i \in DOMAIN z : i # 1 => i - 1 \in DOMAIN y /\ z[i] = y[i - 1]
        /\ \A i \in DOMAIN y : i + 1 \in DOMAIN z /\ z[i + 1] = y[i]
    BY <2>1, AddedInFront
  <2>5. y = NodesOf(b)
    BY <2>0
  <2> QED
    BY <2>1, <2>2, <2>4, <2>5, Zenon
<1>2. \A c \in Remaining(a) : \A i \in DOMAIN NodesOf(c) :
        /\ NodesOf(c)[i][1] = heap[c].owner /\ heap[c].owner \in Threads
        /\ NodesOf(c)[i][2] \in 1 .. arena[a].registered[heap[c].owner]
  <2>1. SUFFICES ASSUME NEW c \in Remaining(a), NEW i \in DOMAIN NodesOf(c)
                 PROVE  /\ NodesOf(c)[i][1] = heap[c].owner /\ heap[c].owner \in Threads
                        /\ NodesOf(c)[i][2] \in 1 .. arena[a].registered[heap[c].owner]
    OBVIOUS
  <2>2. /\ NodesOf(c)[i][1] = heap[c].owner
        /\ NodesOf(c)[i][2] \in 1 .. arena[a].registered[heap[c].owner]
    BY DEF NodesKept, OwnNodes
  <2>3. NodesOf(c)[i] \in Threads \X Nat
    BY DEF Nodes
  <2> QED
    BY <2>2, <2>3
<1>3. OwnNodes(a)'
  <2>1. SUFFICES ASSUME NEW c \in Remaining(a), NEW i \in DOMAIN NodesOf(c)'
                 PROVE  /\ NodesOf(c)'[i][1] = heap[c].owner
                        /\ NodesOf(c)'[i][2] \in 1 .. arena'[a].registered[heap[c].owner]
    BY DEF OwnNodes
  <2>2. CASE c # b
    <3>1. /\ NodesOf(c)[i][1] = heap[c].owner /\ heap[c].owner \in Threads
          /\ NodesOf(c)[i][2] \in 1 .. arena[a].registered[heap[c].owner]
      BY <1>2, <2>2
    <3> QED
      BY <1>0, <2>2, <3>1
  <2>3. CASE c = b /\ i = 1
    BY <1>0, <1>1, <2>3
  <2>4. CASE c = b /\ i # 1
    <3>1. i - 1 \in DOMAIN NodesOf(b) /\ NodesOf(b)'[i] = NodesOf(b)[i - 1]
      BY <1>1, <2>4
    <3>2. NodesOf(b)[i - 1][1] = t /\ NodesOf(b)[i - 1][2] \in 1 .. k
      BY <1>2, <3>1
    <3> QED
      BY <1>0, <2>4, <3>1, <3>2
  <2> QED
    BY <2>2, <2>3, <2>4
<1>4. RanNodes(a)' /\ RanOrder(a)' /\ RanFirst(a)'
  BY <1>0 DEF RanNodes, RanOrder, RanFirst
<1>5. AllNodes(a)'
  <2>1. SUFFICES ASSUME NEW u \in Threads, NEW m \in 1 .. arena'[a].registered[u]
                 PROVE  \E c \in Remaining(a) : \E i \in DOMAIN NodesOf(c)' : NodesOf(c)'[i] = <<u, m>>
    BY DEF AllNodes
  <2>2. CASE u = t /\ m = k + 1
    BY <1>1, <2>2
  <2>3. CASE ~ (u = t /\ m = k + 1)
    <3>1. m \in 1 .. arena[a].registered[u]
      BY <1>0, <2>3
    <3>2. PICK c \in Remaining(a) : \E i \in DOMAIN NodesOf(c) : NodesOf(c)[i] = <<u, m>>
      BY <1>0, <3>1 DEF NodesKept, AllNodes
    <3>3. CASE c = b
      BY <1>1, <3>2, <3>3
    <3>4. CASE c # b
      BY <3>2, <3>4
    <3> QED
      BY <3>3, <3>4
  <2> QED
    BY <2>2, <2>3
<1>6. BlockOrder(a)'
  <2>1. SUFFICES ASSUME NEW c \in Remaining(a), NEW i \in DOMAIN NodesOf(c)', NEW j \in DOMAIN NodesOf(c)', i < j
                 PROVE  NodesOf(c)'[i][2] > NodesOf(c)'[j][2]
    BY DEF BlockOrder
  <2>2. CASE c # b
    BY <2>1, <2>2 DEF NodesKept, BlockOrder
  <2>3. CASE c = b
    <3>1. /\ j # 1 /\ i \in Nat /\ j \in Nat
      BY <1>1, <2>1, <2>3
    <3>2. j - 1 \in DOMAIN NodesOf(b) /\ NodesOf(b)'[j] = NodesOf(b)[j - 1]
      BY <1>1, <2>3, <3>1
    <3>3. NodesOf(b)[j - 1][2] \in 1 .. k
      BY <1>2, <3>2
    <3>4. CASE i = 1
      BY <1>0, <1>1, <2>3, <3>2, <3>3, <3>4
    <3>5. CASE i # 1
      <4>1. i - 1 \in DOMAIN NodesOf(b) /\ NodesOf(b)'[i] = NodesOf(b)[i - 1] /\ i - 1 < j - 1
        BY <1>1, <2>1, <2>3, <3>1, <3>5
      <4>2. NodesOf(b)[i - 1][2] > NodesOf(b)[j - 1][2]
        BY <3>2, <4>1 DEF NodesKept, BlockOrder
      <4> QED
        BY <2>3, <3>2, <4>1, <4>2
    <3> QED
      BY <3>4, <3>5
  <2> QED
    BY <2>2, <2>3
<1>7. ListOrder(a)'
  <2>1. SUFFICES ASSUME NEW c \in Remaining(a), NEW d \in Remaining(a),
                        heap[c].owner = heap[d].owner, heap[c].depth > heap[d].depth,
                        NEW i \in DOMAIN NodesOf(c)', NEW j \in DOMAIN NodesOf(d)'
                 PROVE  NodesOf(c)'[i][2] > NodesOf(d)'[j][2]
    BY DEF ListOrder
  <2>2. d # b
    BY <2>1
  <2>3. j \in DOMAIN NodesOf(d) /\ NodesOf(d)'[j] = NodesOf(d)[j]
    BY <2>2
  <2>4. NodesOf(d)[j][2] \in 1 .. arena[a].registered[heap[c].owner]
    BY <1>2, <2>1, <2>3
  <2>5. CASE c # b
    BY <2>1, <2>3, <2>5 DEF NodesKept, ListOrder
  <2>6. CASE c = b /\ i = 1
    <3>1. NodesOf(d)[j][2] \in 1 .. k
      BY <2>4, <2>6
    <3> QED
      BY <1>0, <1>1, <2>3, <2>6, <3>1
  <2>7. CASE c = b /\ i # 1
    <3>1. i - 1 \in DOMAIN NodesOf(b) /\ NodesOf(b)'[i] = NodesOf(b)[i - 1]
      BY <1>1, <2>7
    <3>2. NodesOf(b)[i - 1][2] > NodesOf(d)[j][2]
      BY <2>1, <2>3, <2>7, <3>1 DEF NodesKept, ListOrder
    <3> QED
      BY <2>3, <2>7, <3>1, <3>2
  <2> QED
    BY <2>5, <2>6, <2>7
<1> QED
  BY <1>0, <1>3, <1>4, <1>5, <1>6, <1>7 DEF NodesKept

(* They stay in order when those of the deepest block that remains run.     *)
LEMMA NodesRun ==
  ASSUME NEW a, NodesKept(a), Releasing(a)',
         arena'[a].registered = arena[a].registered,
         arena[a].ran \in Nodes, NEW b \in Remaining(a), NodesOf(b) \in Nodes,
         arena'[a].ran = arena[a].ran \o NodesOf(b),
         Remaining(a)' = Remaining(a) \ {b},
         \A c \in Remaining(a) : c # b => heap[b].depth > heap[c].depth,
         \A c \in Remaining(a) : heap'[c].owner = heap[c].owner /\ heap'[c].depth = heap[c].depth,
         \A c \in Remaining(a) : NodesOf(c)' = NodesOf(c)
  PROVE  NodesKept(a)'
<1> DEFINE x == arena[a].ran
           y == NodesOf(b)
           z == arena'[a].ran
<1>0. /\ Len(x) \in Nat /\ Len(y) \in Nat
      /\ DOMAIN x = 1 .. Len(x) /\ DOMAIN y = 1 .. Len(y) /\ DOMAIN z = 1 .. Len(x) + Len(y)
      /\ \A i \in DOMAIN z : z[i] = IF i <= Len(x) THEN x[i] ELSE y[i - Len(x)]
  <2>1. x \in Seq(Threads \X Nat) /\ y \in Seq(Threads \X Nat) /\ z = x \o y
    BY DEF Nodes
  <2> HIDE DEF x, y, z
  <2> QED
    BY <2>1, ConcatProperties
<1>1. \A i \in DOMAIN y : y[i][1] = heap[b].owner /\ y[i][2] \in 1 .. arena[a].registered[heap[b].owner]
  BY DEF NodesKept, OwnNodes
<1>2. \A i \in DOMAIN x : x[i][2] \in 1 .. arena[a].registered[x[i][1]]
  BY DEF NodesKept, RanNodes
<1>3. /\ \A i \in DOMAIN x : i \in DOMAIN z /\ z[i] = x[i]
      /\ \A i \in DOMAIN y : i + Len(x) \in DOMAIN z /\ z[i + Len(x)] = y[i]
      /\ \A i \in DOMAIN z : i \in Int /\ (i \in DOMAIN x \/ (i > Len(x) /\ i - Len(x) \in DOMAIN y))
      /\ \A i \in DOMAIN z : i \notin DOMAIN x => z[i] = y[i - Len(x)]
  <2> HIDE DEF x, y, z
  <2> QED
    BY <1>0
<1>4. OwnNodes(a)' /\ BlockOrder(a)' /\ ListOrder(a)'
  BY DEF NodesKept, OwnNodes, BlockOrder, ListOrder
<1>5. RanNodes(a)'
  <2>1. SUFFICES ASSUME NEW i \in DOMAIN z PROVE z[i][2] \in 1 .. arena[a].registered[z[i][1]]
    BY DEF RanNodes
  <2> HIDE DEF x, y, z
  <2> QED
    BY <1>1, <1>2, <1>3, <2>1
<1>6. AllNodes(a)'
  <2>1. SUFFICES ASSUME NEW t \in Threads, NEW k \in 1 .. arena[a].registered[t],
                        ~ \E i \in DOMAIN z : z[i] = <<t, k>>
                 PROVE  \E c \in Remaining(a) \ {b} : \E i \in DOMAIN NodesOf(c)' : NodesOf(c)'[i] = <<t, k>>
    BY DEF AllNodes
  <2>2. \/ \E i \in DOMAIN x : x[i] = <<t, k>>
        \/ \E c \in Remaining(a) : \E i \in DOMAIN NodesOf(c) : NodesOf(c)[i] = <<t, k>>
    BY DEF NodesKept, AllNodes
  <2>3. ~ \E i \in DOMAIN x : x[i] = <<t, k>>
    <3> HIDE DEF x, y, z
    <3> QED
      BY <1>3, <2>1
  <2>4. ~ \E i \in DOMAIN y : y[i] = <<t, k>>
    <3> HIDE DEF x, y, z
    <3> QED
      BY <1>3, <2>1
  <2> QED
    BY <2>2, <2>3, <2>4
<1>7. \A i \in DOMAIN x, c \in Remaining(a) : \A j \in DOMAIN NodesOf(c) :
        x[i][1] = heap[c].owner => x[i][2] > NodesOf(c)[j][2]
  BY DEF NodesKept, RanFirst
<1>8. RanOrder(a)'
  <2>1. SUFFICES ASSUME NEW i \in DOMAIN z, NEW j \in DOMAIN z, i < j, z[i][1] = z[j][1]
                 PROVE  z[i][2] > z[j][2]
    BY DEF RanOrder
  <2>2. CASE i \in DOMAIN x /\ j \in DOMAIN x
    <3>1. z[i] = x[i] /\ z[j] = x[j]
      BY <1>3, <2>2
    <3>2. x[i][2] > x[j][2]
      BY <2>1, <2>2, <3>1 DEF NodesKept, RanOrder
    <3> QED
      BY <3>1, <3>2
  <2>3. CASE i \in DOMAIN x /\ j \notin DOMAIN x
    <3>1. z[i] = x[i] /\ z[j] = y[j - Len(x)] /\ j - Len(x) \in DOMAIN y
      BY <1>3, <2>3
    <3>2. x[i][1] = heap[b].owner
      BY <1>1, <2>1, <3>1
    <3> QED
      BY <1>7, <2>3, <3>1, <3>2
  <2>4. CASE i \notin DOMAIN x
    <3>1. i > Len(x) /\ i - Len(x) \in DOMAIN y /\ i \in Int /\ j \in Int /\ Len(x) \in Nat
      BY <1>0, <1>3, <2>4
    <3>2. j \notin DOMAIN x /\ i - Len(x) < j - Len(x)
      <4> HIDE DEF x, y, z
      <4> QED
        BY <1>0, <2>1, <3>1
    <3>3. j - Len(x) \in DOMAIN y /\ z[i] = y[i - Len(x)] /\ z[j] = y[j - Len(x)]
      BY <1>3, <2>4, <3>2
    <3>4. y[i - Len(x)][2] > y[j - Len(x)][2]
      BY <3>1, <3>2, <3>3 DEF NodesKept, BlockOrder
    <3> QED
      BY <3>3, <3>4
  <2> QED
    BY <2>2, <2>3, <2>4
<1>9. RanFirst(a)'
  <2>1. SUFFICES ASSUME NEW i \in DOMAIN z, NEW c \in Remaining(a) \ {b}, z[i][1] = heap[c].owner,
                        NEW j \in DOMAIN NodesOf(c)
                 PROVE  z[i][2] > NodesOf(c)[j][2]
    BY DEF RanFirst
  <2>2. CASE i \in DOMAIN x
    BY <1>3, <1>7, <2>1, <2>2
  <2>3. CASE i \notin DOMAIN x
    <3>1. z[i] = y[i - Len(x)] /\ i - Len(x) \in DOMAIN y
      BY <1>3, <2>3
    <3>2. heap[b].owner = heap[c].owner /\ heap[b].depth > heap[c].depth
      BY <1>1, <2>1, <3>1
    <3>3. y[i - Len(x)][2] > NodesOf(c)[j][2]
      BY <3>1, <3>2 DEF NodesKept, ListOrder
    <3> QED
      BY <3>1, <3>3
  <2> QED
    BY <2>2, <2>3
<1> QED
  BY <1>4, <1>5, <1>6, <1>8, <1>9 DEF NodesKept

-----------------------------------------------------------------------------
(* The steps that change the cleanups of an arena, or what ran: one that     *)
(* takes over a list, adds, runs, or frees.                                 *)
Steals(t, a) == CacheBlock(t) /\ call[t].full # NULL /\ call[t].arena = a
AddsCleanup(t, a) == (AddCleanupInBlock(t) \/ AddCleanupChunk(t)) /\ call[t].arena = a
Releases(t, a) == (CleanupList(t) \/ FreeBlocks(t)) /\ call[t].arena = a

(* The other steps leave the cleanups, and what ran, as they are. *)
LEMMA CleanupsUntouched ==
  ASSUME IInv, NEW t \in Threads, CallStep(t) \/ Begin(t), NEW a \in Arenas, arena[a].alive,
         ~ Restarts(t, a), ~ Steals(t, a), ~ AddsCleanup(t, a), ~ Releases(t, a)
  PROVE  /\ arena'[a].registered = arena[a].registered /\ arena'[a].ran = arena[a].ran
         /\ \A b \in Memory : heap[b].arena = a => heap'[b].cleanup = heap[b].cleanup
<1>0. /\ arena \in [Arenas -> ArenaType] /\ call \in [Threads -> CallType]
      /\ heap \in [Memory -> BlockType] /\ a # NULL
      /\ call[t].arena \in Arenas \union {NULL}
      /\ call[t].pc # "idle" => call[t].arena \in Arenas
      /\ (call[t].pc # "idle" /\ call[t].block # NULL) => heap[call[t].block].arena = call[t].arena
      /\ call[t].pc \in Owning => call[t].block # NULL
      /\ (call[t].op = "allocate" /\ call[t].full # NULL) => heap[call[t].full].arena = call[t].arena
      /\ call[t].pc = "cache" => call[t].op = "allocate"
      /\ \A c \in Arenas : c # a => InitialBlock[c] = NULL \/ heap[InitialBlock[c]].arena # a
  <2>1. ASSUME NEW c \in Arenas, c # a, InitialBlock[c] # NULL PROVE heap[InitialBlock[c]].arena # a
    <3> SUFFICES ASSUME heap[InitialBlock[c]].arena = a PROVE FALSE
      OBVIOUS
    <3>1. InitialBlock[c] = InitialBlock[a]
      BY <2>1, Constants DEF IInv, InitialBlocks
    <3> QED
      BY <2>1, <3>1, Constants
  <2>2. CallOK(t)
    BY DEF IInv
  <2>3. /\ call[t].pc # "idle" => call[t].arena \in Arenas
        /\ call[t].pc = "cache" => call[t].op = "allocate"
    BY <2>2 DEF CallOK, CallConsistent, AllocateLabels
  <2>4. /\ (call[t].pc # "idle" /\ call[t].block # NULL) => heap[call[t].block].arena = call[t].arena
        /\ call[t].pc \in Owning => call[t].block # NULL
        /\ (call[t].op = "allocate" /\ call[t].full # NULL) => heap[call[t].full].arena = call[t].arena
    BY <2>2 DEF CallOK, OwnsBlock, FullBlock
  <2> QED
    BY <2>1, <2>3, <2>4, Constants DEF IInv, TypeOK, CallType
<1>1. CASE UNCHANGED <<arena, heap>>
  BY <1>1
<1>2. CASE \E c \in Arenas : Construct(t, c)
  <2>1. PICK c \in Arenas : Construct(t, c)
    BY <1>2
  <2>2. c # a
    BY <2>1 DEF Restarts
  <2>3. arena'[a] = arena[a] /\ (heap' = heap \/ (InitialBlock[c] # NULL /\ heap' =
           [heap EXCEPT ![InitialBlock[c]] = EmptyBlock(c, t, InitialBlockSize, 1)]))
    BY <1>0, <2>1, <2>2 DEF Construct, OwnInitialBlock
  <2> QED
    BY <1>0, <2>2, <2>3
<1>3. CASE \E c \in Arenas : Reset(t, c)
  BY <1>0, <1>3 DEF Reset, ArenaType
<1>4. CASE NewBlock(t)
  <2>1. PICK b : heap[b].arena = NULL /\ \A c \in Memory : c # b => heap'[c] = heap[c]
    BY <1>0, <1>4 DEF NewBlock
  <2> QED
    BY <1>0, <1>4, <2>1 DEF NewBlock
<1>5. CASE LockBlocks(t)
  BY <1>0, <1>5 DEF LockBlocks, At, ArenaType, BlockType
<1>6. CASE PublishBlock(t)
  BY <1>0, <1>6 DEF PublishBlock, At, ArenaType
<1>7. CASE CacheBlock(t)
  <2>1. /\ call[t].arena \in Arenas /\ heap[call[t].block].arena = call[t].arena
        /\ call[t].full # NULL => heap[call[t].full].arena = call[t].arena
    BY <1>0, <1>7 DEF CacheBlock, At, Owning
  <2>2. arena'[a].registered = arena[a].registered /\ arena'[a].ran = arena[a].ran
    BY <1>0, <1>7, <2>1 DEF CacheBlock, ArenaType
  <2>3. CASE call[t].full = NULL
    BY <1>7, <2>2, <2>3 DEF CacheBlock
  <2>4. CASE call[t].full # NULL
    <3>1. call[t].arena # a
      BY <1>7, <2>4 DEF Steals
    <3>2. \A c \in Memory : c # call[t].block /\ c # call[t].full => heap'[c] = heap[c]
      BY <1>0, <1>7, <2>4 DEF CacheBlock, StealCleanupList
    <3> QED
      BY <2>1, <2>2, <2>4, <3>1, <3>2
  <2> QED
    BY <2>3, <2>4
<1>8. CASE AllocFromBlock(t)
  BY <1>0, <1>8 DEF AllocFromBlock, BlockType
<1>9. CASE AddCleanupInBlock(t) \/ AddCleanupChunk(t)
  <2>1. call[t].arena \in Arenas \ {a} /\ heap[call[t].block].arena = call[t].arena
    BY <1>0, <1>9 DEF AddCleanupInBlock, AddCleanupChunk, At, Owning, AddsCleanup
  <2>2. arena'[a] = arena[a] /\ \A c \in Memory : c # call[t].block => heap'[c] = heap[c]
    <3>1. CASE AddCleanupInBlock(t)
      BY <1>0, <2>1, <3>1 DEF AddCleanupInBlock, Register
    <3>2. CASE AddCleanupChunk(t)
      BY <1>0, <2>1, <3>2 DEF AddCleanupChunk, Register
    <3> QED
      BY <1>9, <3>1, <3>2
  <2> QED
    BY <2>1, <2>2
<1>10. CASE CleanupList(t)
  <2>1. call[t].arena \in Arenas \ {a}
    BY <1>0, <1>10 DEF CleanupList, At, Releases
  <2> QED
    BY <1>0, <1>10, <2>1 DEF CleanupList
<1>11. CASE FreeBlocks(t)
  <2>1. call[t].arena \in Arenas \ {a} /\ heap[call[t].block].arena = call[t].arena
    BY <1>0, <1>11 DEF FreeBlocks, At, Releases
  <2>2. \A c \in Memory : c # call[t].block => heap'[c] = heap[c]
    BY <1>0, <1>11 DEF FreeBlocks
  <2> QED
    BY <1>11, <2>1, <2>2 DEF FreeBlocks
<1>12. CASE FinishReset(t)
  <2>1. PICK c \in Arenas : c = call[t].arena /\ call[t].full = InitialBlock[c]
    BY <1>12, KeptAtTheEnd
  <2>2. c # a
    BY <1>12, <2>1 DEF Restarts
  <2>3. arena'[a] = arena[a] /\ (heap' = heap \/ (InitialBlock[c] # NULL /\ heap' =
           [heap EXCEPT ![InitialBlock[c]] = EmptyBlock(c, t, InitialBlockSize, 1)]))
    BY <1>0, <1>12, <2>1, <2>2 DEF FinishReset, OwnInitialBlock
  <2> QED
    BY <1>0, <2>2, <2>3
<1>13. CASE Begin(t)
  BY <1>1, <1>2, <1>3, <1>13 DEF Begin, ThreadExit, Destroy, SpaceUsed, Allocate
<1>14. CASE CallStep(t)
  BY <1>1, <1>4, <1>5, <1>6, <1>7, <1>8, <1>9, <1>10, <1>11, <1>12, <1>14 DEF CallStep, GetBlock,
     FindBlock, WalkBlocks, BadAlloc, ExpandCleanupList, WalkUsed, SpaceUsedReturns
<1> QED
  BY <1>13, <1>14

(* An arena that starts anew has no cleanups. *)
LEMMA NodesAnew ==
  ASSUME IInv, IInv', NEW t \in Threads, NEW a \in Arenas, Restarts(t, a)
  PROVE  NodesKept(a)'
<1>1. /\ arena'[a].registered = [u \in Threads |-> 0] /\ arena'[a].ran = << >>
      /\ Listed(a)' = {InitialBlock[a]} \ {NULL}
      /\ InitialBlock[a] # NULL => heap'[InitialBlock[a]] = EmptyBlock(a, t, InitialBlockSize, 1)
  BY RestartListed
<1>2. \A b \in Remaining(a)' : NodesOf(b)' = << >>
  <2>1. \A b \in Remaining(a)' : b = InitialBlock[a] /\ b # NULL
    BY <1>1 DEF Remaining
  <2>2. \A b \in Remaining(a)' : heap'[b].cleanup.nodes = << >>
    BY <1>1, <2>1 DEF EmptyBlock, NoCleanup
  <2> QED
    BY <2>2 DEF NodesOf
<1>3. OwnNodes(a)' /\ RanNodes(a)'
  BY <1>1, <1>2 DEF OwnNodes, RanNodes
<1>4. AllNodes(a)'
  <2>1. \A u \in Threads : arena'[a].registered[u] = 0
    BY <1>1
  <2> QED
    BY <2>1 DEF AllNodes
<1>5. BlockOrder(a)' /\ ListOrder(a)'
  BY <1>2 DEF BlockOrder, ListOrder
<1>6. RanOrder(a)' /\ RanFirst(a)'
  BY <1>1 DEF RanOrder, RanFirst
<1> QED
  BY <1>1, <1>3, <1>4, <1>5, <1>6 DEF NodesKept

(* What remains to run of an arena that no one releases: all. *)
LEMMA AllRemain ==
  ASSUME NEW a, ~ Releasing(a)
  PROVE  Remaining(a) = Listed(a)
BY DEF Remaining, Releasing, ReleaseOps
(* The same after a step. *)
LEMMA AllRemainNext ==
  ASSUME NEW a, ~ Releasing(a)'
  PROVE  Remaining(a)' = Listed(a)'
BY DEF Remaining, Releasing, ReleaseOps

(* A new first block takes over the cleanups. *)
LEMMA StealsKeep ==
  ASSUME IInv, IInv', NEW t \in Threads, NEW a \in Arenas, Steals(t, a), TopInCall(t),
         NodesKept(a), arena'[a].alive, ~ Releasing(a)', ~ Restarts(t, a)
  PROVE  NodesKept(a)'
<1> PICK b, full : b = call[t].block /\ full = call[t].full
  OBVIOUS
<1>0. /\ heap \in [Memory -> BlockType] /\ arena \in [Arenas -> ArenaType]
      /\ CallStep(t) /\ CacheBlock(t) /\ call[t].pc = "cache" /\ call[t].arena = a /\ full # NULL
      /\ b \in Memory /\ full \in Memory
      /\ call \in [Threads -> CallType]
  BY DEF IInv, TypeOK, Steals, CallStep, CacheBlock, At, CallOK, OwnsBlock, Owning, CallType
<1>1. /\ ~ Releasing(a) /\ ListSame(a)
  <2>1. ~ Pushes(t, a)
    BY <1>0 DEF Pushes, PublishBlock, At
  <2> QED
    BY <1>0, <2>1, Unreleased
<1>2. /\ Listed(a)' = Listed(a) /\ Remaining(a) = Listed(a) /\ Remaining(a)' = Remaining(a)
      /\ \A c \in Listed(a) : SameBlock(c)
  BY <1>1, AllRemain, AllRemainNext DEF ListSame
<1>3. /\ b \in Listed(a) /\ heap[b].owner = t /\ full \in Listed(a) /\ NodesOf(b) = << >>
      /\ heap[full].owner = t /\ full # b
      /\ \A c \in Listed(a) : heap[c].owner = t => heap[c].depth <= heap[b].depth
      /\ \A c \in Listed(a) : heap[c].owner = t /\ c # b => heap[c].depth <= heap[full].depth
  <2>1. heap[full].owner = t /\ full # b
    BY <1>0 DEF IInv, CallOK, OwnsBlock
  <2> QED
    BY <1>0, <2>1 DEF TopInCall, Top, NodesOf
<1>4. /\ arena'[a].registered = arena[a].registered /\ arena'[a].ran = arena[a].ran
      /\ heap' = StealCleanupList(full, b)
  BY <1>0 DEF CacheBlock, ArenaType
<1>5. \A c, d \in Listed(a) : c # d => heap[c].depth # heap[d].depth
  BY Constants DEF Listed, IInv, Ordered
<1>6. /\ NodesOf(b)' = NodesOf(full) /\ NodesOf(full)' = << >>
      /\ \A c \in Listed(a) \ {b, full} : NodesOf(c)' = NodesOf(c)
  <2>1. /\ heap'[b].cleanup = heap[full].cleanup /\ heap'[full].cleanup = NoCleanup
        /\ \A c \in Memory \ {b, full} : heap'[c] = heap[c]
    BY <1>0, <1>3, <1>4 DEF StealCleanupList, BlockType
  <2> QED
    BY <2>1, ListedFinite DEF NodesOf, NoCleanup
<1>7. \A c \in Listed(a) : heap[c].depth \in Nat
  BY <1>0 DEF Listed, BlockType
<1>8. \A c \in Listed(a) : heap[c].owner = heap[b].owner /\ c # b =>
        heap[c].depth <= heap[full].depth /\ heap[c].depth < heap[b].depth
  BY <1>3, <1>5, <1>7
<1>9. \A c \in Remaining(a) : heap'[c].owner = heap[c].owner /\ heap'[c].depth = heap[c].depth
  BY <1>2 DEF SameBlock
<1> QED
  BY <1>1, <1>2, <1>3, <1>4, <1>5, <1>6, <1>7, <1>8, <1>9, NodesStolen

(* A cleanup is added. *)
LEMMA AddsKeep ==
  ASSUME IInv, IInv', NEW t \in Threads, NEW a \in Arenas, AddsCleanup(t, a), TopInCall(t),
         NodesKept(a), arena'[a].alive, ~ Releasing(a)', ~ Restarts(t, a)
  PROVE  NodesKept(a)'
<1> PICK b : b = call[t].block
  OBVIOUS
<1>0. /\ heap \in [Memory -> BlockType] /\ arena \in [Arenas -> ArenaType]
      /\ CallStep(t) /\ call[t].pc \in {"add", "expand"} /\ call[t].arena = a
      /\ b \in Memory /\ TypeOK
      /\ call \in [Threads -> CallType]
  BY DEF IInv, TypeOK, AddsCleanup, CallStep, AddCleanupInBlock, AddCleanupChunk, At, CallOK,
     OwnsBlock, Owning, CallType
<1>1. /\ ~ Releasing(a) /\ ListSame(a)
  <2>1. ~ Pushes(t, a)
    BY <1>0 DEF Pushes, PublishBlock, At
  <2> QED
    BY <1>0, <2>1, Unreleased
<1>2. /\ Listed(a)' = Listed(a) /\ Remaining(a) = Listed(a) /\ Remaining(a)' = Remaining(a)
      /\ \A c \in Listed(a) : SameBlock(c)
  BY <1>1, AllRemain, AllRemainNext DEF ListSame
<1>3. Top(t, a, b)
  BY <1>0 DEF TopInCall
<1>4. Register(t) /\ \E size, room : \/ heap' = [heap EXCEPT ![b] = WithCleanup(t, b, size, room)]
                                     \/ \E p : heap' = [heap EXCEPT ![b] =
                                          [WithCleanup(t, b, size, room) EXCEPT !.pos = p]]
  <2>1. CASE AddCleanupInBlock(t)
    BY <2>1 DEF AddCleanupInBlock
  <2>2. CASE AddCleanupChunk(t)
    BY <2>2 DEF AddCleanupChunk
  <2> QED
    BY <2>1, <2>2 DEF AddsCleanup
<1>5. /\ NodesOf(b)' = << <<t, arena[a].registered[t] + 1>> >> \o NodesOf(b)
      /\ \A c \in Listed(a) \ {b} : NodesOf(c)' = NodesOf(c)
  <2>1. PICK list : /\ heap'[b].cleanup = list /\ \A c \in Memory \ {b} : heap'[c] = heap[c]
                    /\ list.nodes = << <<t, arena[a].registered[t] + 1>> >> \o heap[b].cleanup.nodes
    <3>1. PICK size, room : \/ heap' = [heap EXCEPT ![b] = WithCleanup(t, b, size, room)]
                            \/ \E p : heap' = [heap EXCEPT ![b] =
                                 [WithCleanup(t, b, size, room) EXCEPT !.pos = p]]
      BY <1>4
    <3>2. PICK list : list = [size |-> size, room |-> room - 1,
                              nodes |-> << <<t, arena[a].registered[t] + 1>> >> \o heap[b].cleanup.nodes]
      OBVIOUS
    <3>3. WithCleanup(t, b, size, room) = [heap[b] EXCEPT !.cleanup = list]
      BY <1>0, <3>2 DEF WithCleanup
    <3>4. heap[b] \in BlockType
      BY <1>0
    <3>5. heap'[b].cleanup = list /\ \A c \in Memory \ {b} : heap'[c] = heap[c]
      <4>1. CASE heap' = [heap EXCEPT ![b] = WithCleanup(t, b, size, room)]
        BY <1>0, <3>3, <3>4, <4>1 DEF BlockType
      <4>2. CASE \E p : heap' = [heap EXCEPT ![b] = [WithCleanup(t, b, size, room) EXCEPT !.pos = p]]
        BY <1>0, <3>3, <3>4, <4>2 DEF BlockType
      <4> QED
        BY <3>1, <4>1, <4>2
    <3>6. list.nodes = << <<t, arena[a].registered[t] + 1>> >> \o heap[b].cleanup.nodes
      BY <3>2
    <3> QED
      BY <3>5, <3>6
  <2> QED
    BY <2>1, ListedFinite DEF NodesOf
<1>6. /\ arena'[a].ran = arena[a].ran /\ arena[a].registered \in [Threads -> Nat]
      /\ arena'[a].registered = [arena[a].registered EXCEPT ![t] = arena[a].registered[t] + 1]
  BY <1>0, <1>4 DEF Register, ArenaType
<1>7. /\ \A c \in Remaining(a) : NodesOf(c) \in Nodes /\ heap[c].depth \in Nat
      /\ \A c \in Remaining(a) : heap'[c].owner = heap[c].owner /\ heap'[c].depth = heap[c].depth
  BY <1>0, <1>2, ListedFinite DEF SameBlock, NodesOf, BlockType, CleanupType
<1>8. /\ b \in Remaining(a) /\ heap[b].owner = t
      /\ \A c \in Remaining(a) : heap[c].owner = t => heap[c].depth <= heap[b].depth
  BY <1>2, <1>3 DEF Top
<1>9. /\ \A c \in Remaining(a) : heap[c].depth \in Nat
      /\ \A c \in Remaining(a) : NodesOf(c) \in Nodes
      /\ \A c \in Remaining(a) \ {b} : NodesOf(c)' = NodesOf(c)
      /\ Remaining(a)' = Remaining(a)
  BY <1>2, <1>5, <1>7
<1> QED
  BY <1>1, <1>5, <1>6, <1>7, <1>8, <1>9, NodesAdded, Zenon

-----------------------------------------------------------------------------
(* Steps of an arena that is in use keep its cleanups. *)
LEMMA InUseNodesKept ==
  ASSUME IInv, IInv', PendingEmpty, NEW t \in Threads, CallStep(t) \/ Begin(t), TopInCall(t),
         NEW a \in Arenas, NodesKept(a), arena'[a].alive, ~ Releasing(a)', ~ Restarts(t, a)
  PROVE  NodesKept(a)'
<1>1. /\ ~ Releasing(a) /\ arena[a].alive /\ Listed(a) \subseteq Listed(a)'
      /\ \A c \in Listed(a) : SameBlock(c)
      /\ Pushes(t, a) \/ ListSame(a)
  BY Unreleased
<1>2. CASE Steals(t, a)
  BY <1>2, StealsKeep
<1>3. CASE AddsCleanup(t, a)
  BY <1>3, AddsKeep
<1>4. CASE ~ Steals(t, a) /\ ~ AddsCleanup(t, a)
  <2>1. ~ Releases(t, a)
    <3> SUFFICES ASSUME Releases(t, a) PROVE FALSE
      OBVIOUS
    <3>1. call[t].arena = a /\ call[t].op \in ReleaseOps
      BY DEF Releases, CleanupList, FreeBlocks, At, IInv, CallOK, CallConsistent
    <3> QED
      BY <1>1, <3>1 DEF Releasing, ReleaseOps
  <2>2. /\ arena'[a].registered = arena[a].registered /\ arena'[a].ran = arena[a].ran
        /\ \A b \in Memory : heap[b].arena = a => heap'[b].cleanup = heap[b].cleanup
    BY <1>1, <1>4, <2>1, CleanupsUntouched
  <2>3. /\ Remaining(a) = Listed(a) /\ Remaining(a)' = Listed(a)'
    BY <1>1, AllRemain, AllRemainNext
  <2>4. \A b \in Remaining(a) :
          heap'[b].owner = heap[b].owner /\ heap'[b].depth = heap[b].depth /\ NodesOf(b)' = NodesOf(b)
    BY <1>1, <2>2, <2>3 DEF SameBlock, Listed, NodesOf
  <2>5. \A b \in Remaining(a)' \ Remaining(a) : NodesOf(b)' = << >>
    <3>1. CASE Pushes(t, a)
      <4>1. heap' = heap /\ Listed(a)' = Listed(a) \union {call[t].block}
        BY <3>1, PushedListed
      <4>2. heap[call[t].block].cleanup.nodes = << >>
        BY <3>1 DEF Pushes, PublishBlock, At, PendingEmpty, NoCleanup
      <4> QED
        BY <2>3, <4>1, <4>2 DEF NodesOf
    <3>2. CASE ListSame(a)
      BY <2>3, <3>2 DEF ListSame
    <3> QED
      BY <1>1, <3>1, <3>2
  <2> QED
    BY <1>1, <2>2, <2>3, <2>4, <2>5, NodesStay
<1> QED
  BY <1>2, <1>3, <1>4

(* A call that releases has the arena to itself, and is at a listed block.  *)
LEMMA ReleaseAlone ==
  ASSUME IInv, NEW u \in Threads, call[u].op \in ReleaseOps, NEW a, a = call[u].arena
  PROVE  /\ a \in Arenas /\ arena[a].alive /\ \A v \in Threads : call[v].arena = a => v = u
         /\ call[u].pc \in {"cleanup", "free"}
         /\ call[u].pc = "cleanup" =>
              /\ ~ Freed(a)
              /\ call[u].block # NULL => call[u].block \in Listed(a)
              /\ Remaining(a) = {c \in Listed(a) : heap[c].depth <= Depth(call[u].block)}
         /\ call[u].pc = "free" => Remaining(a) = {}
<1> PICK b : b = call[u].block
  OBVIOUS
<1>1. /\ a \in Arenas /\ arena[a].alive /\ call[u].pc \in {"cleanup", "free"}
      /\ \A v \in Threads : call[v].arena = a => v = u
  BY DEF IInv, CallOK, CallConsistent, ReleasedAlone
<1>2. ASSUME call[u].pc = "cleanup"
      PROVE  /\ ~ Freed(a)
             /\ b # NULL => b \in Listed(a)
             /\ Remaining(a) = {c \in Listed(a) : heap[c].depth <= Depth(b)}
  <2>1. ~ Freed(a)
    BY <1>1, <1>2 DEF Freed, At
  <2>2. ASSUME b # NULL PROVE b \in Listed(a)
    <3>1. b \in Memory /\ heap[b].arena = a
      BY <1>2, <2>2 DEF IInv, TypeOK, CallType, CallOK, OwnsBlock
    <3>2. \A v \in Threads : ~ Pending(v, b)
      <4> SUFFICES ASSUME NEW v \in Threads, Pending(v, b) PROVE FALSE
        OBVIOUS
      <4>1. call[v].arena = a /\ call[v].pc \in {"lock", "publish"}
        BY <2>2, <3>1 DEF Pending, IInv, CallOK, OwnsBlock
      <4> QED
        BY <1>1, <1>2, <4>1
    <3> QED
      BY <1>1, <2>1, <3>1, <3>2 DEF IInv, Headed, Listed
  <2> QED
    BY <1>1, <1>2, <2>1, <2>2 DEF Remaining
<1>3. call[u].pc = "free" => Remaining(a) = {}
  BY DEF Remaining
<1> QED
  BY <1>1, <1>2, <1>3

(* CleanupList runs the cleanups of the first block that remains.           *)
LEMMA CleanupListNodesKept ==
  ASSUME IInv, IInv', NEW t \in Threads, CleanupList(t), NEW a, a = call[t].arena,
         NodesKept(a), call[t].block # NULL
  PROVE  NodesKept(a)'
<1> PICK b : b = call[t].block
  OBVIOUS
<1>0. /\ heap \in [Memory -> BlockType] /\ arena \in [Arenas -> ArenaType] /\ NULL \notin Memory
      /\ call \in [Threads -> CallType] /\ call[t].pc = "cleanup" /\ call[t].op \in ReleaseOps
      /\ a # NULL
  BY Constants DEF IInv, TypeOK, CleanupList, At, CallOK, CallConsistent
<1>1. /\ a \in Arenas /\ ~ Freed(a) /\ b \in Listed(a)
      /\ Remaining(a) = {c \in Listed(a) : heap[c].depth <= Depth(b)}
  BY <1>0, ReleaseAlone
<1>2. /\ heap' = heap /\ arena' = [arena EXCEPT ![a].ran = arena[a].ran \o heap[b].cleanup.nodes]
      /\ call' = [call EXCEPT ![t].pc = "cleanup", ![t].block = heap[b].next]
  BY DEF CleanupList, GotoWith
<1>3. /\ call'[t].pc = "cleanup" /\ call'[t].arena = a /\ call'[t].op = call[t].op
      /\ call'[t].block = heap[b].next /\ \A v \in Threads \ {t} : call'[v] = call[v]
      /\ call'[t].op \in ReleaseOps
  BY <1>0, <1>2 DEF CallType
<1>4. /\ arena'[a].blocks = arena[a].blocks /\ arena'[a].registered = arena[a].registered
      /\ arena'[a].ran = arena[a].ran \o NodesOf(b)
  BY <1>0, <1>1, <1>2 DEF ArenaType, NodesOf
<1>5. Listed(a)' = Listed(a)
  BY <1>2, <1>4 DEF Listed, Depth
<1>6. /\ b \in Memory /\ heap[b].arena = a /\ Linked(b) /\ heap[b].depth \in Nat
      /\ heap[b].next \in Memory \union {NULL}
      /\ \A c \in Listed(a) : c # b => heap[c].depth # heap[b].depth
      /\ \A c \in Listed(a) : heap[c].depth \in Nat /\ heap[c].depth > 0
      /\ heap[b].depth > 0
      /\ \A c \in Memory : heap[c].depth \in Nat
  BY <1>0, <1>1 DEF Listed, IInv, Ordered, BlockType
<1>7. Depth(heap[b].next) + 1 = heap[b].depth /\ Depth(heap[b].next) \in Nat /\ Depth(b) = heap[b].depth
  BY <1>0, <1>6 DEF Linked, Depth
<1>8. Remaining(a)' = {c \in Listed(a) : heap[c].depth <= Depth(heap[b].next)}
  <2>1. IInv' /\ \A v \in Threads : call'[v].arena = a /\ call'[v].op \in ReleaseOps => v = t
    <3>1. \A v \in Threads : call[v].arena = a => v = t
      BY <1>0, ReleaseAlone
    <3> QED
      BY <1>3, <3>1
  <2>2. \A c : Depth(c)' = Depth(c)
    BY <1>2 DEF Depth
  <2> QED
    BY <1>2, <1>3, <1>5, <2>1, <2>2 DEF Remaining
<1>9. Remaining(a)' = Remaining(a) \ {b}
  <2>1. \A c \in Listed(a) : heap[c].depth <= Depth(heap[b].next) <=> (heap[c].depth <= heap[b].depth /\ c # b)
    BY <1>6, <1>7
  <2> QED
    BY <1>1, <1>7, <1>8, <2>1
<1>10. /\ Releasing(a)' /\ b \in Remaining(a)
       /\ \A c \in Remaining(a) : c # b => heap[b].depth > heap[c].depth
  <2>1. \A c \in Remaining(a) : c # b => heap[b].depth > heap[c].depth
    BY <1>1, <1>6, <1>7
  <2>2. b \in Remaining(a)
    BY <1>1, <1>6, <1>7
  <2> QED
    BY <1>3, <2>1, <2>2 DEF Releasing, ReleaseOps
<1>11. /\ \A c \in Remaining(a) : heap'[c].owner = heap[c].owner /\ heap'[c].depth = heap[c].depth
       /\ \A c \in Remaining(a) : NodesOf(c)' = NodesOf(c)
       /\ arena[a].ran \in Nodes /\ NodesOf(b) \in Nodes
  BY <1>0, <1>1, <1>2, <1>6 DEF NodesOf, ArenaType, BlockType, CleanupType
<1> QED
  BY <1>4, <1>9, <1>10, <1>11, NodesRun

(* Steps of an arena that is being released keep its cleanups. *)
LEMMA ReleasedNodesKept ==
  ASSUME IInv, IInv', NEW t \in Threads, CallStep(t) \/ Begin(t),
         NEW a \in Arenas, NodesKept(a), arena'[a].alive, Releasing(a)', ~ Restarts(t, a)
  PROVE  NodesKept(a)'
<1>0. /\ heap \in [Memory -> BlockType] /\ arena \in [Arenas -> ArenaType] /\ NULL \notin Memory
      /\ call \in [Threads -> CallType] /\ a # NULL
  BY Constants DEF IInv, TypeOK
<1>1. PICK u \in Threads : call'[u].arena = a /\ call'[u].op \in ReleaseOps
  BY DEF Releasing, ReleaseOps
<1>2. \A v \in Threads \ {t} : call'[v] = call[v]
  BY OthersStay
<1>3. \A v \in Threads : call'[v].arena = a => v = u
  BY <1>1 DEF IInv, ReleasedAlone
<1>4. CASE u = t /\ call[t].op \notin ReleaseOps
  <2>1. \E c \in Arenas : Reset(t, c) \/ Destroy(t, c)
    <3>1. CASE CallStep(t)
      <4>1. CASE BadAlloc(t) \/ AddCleanupInBlock(t) \/ AddCleanupChunk(t) \/ SpaceUsedReturns(t) \/ FinishReset(t)
        <5>1. Return(t)
          BY <4>1 DEF BadAlloc, AddCleanupInBlock, AddCleanupChunk, SpaceUsedReturns, FinishReset
        <5> QED
          BY <1>0, <1>1, <1>4, <5>1 DEF Return, NoCall, ReleaseOps
      <4>2. CASE ~ (BadAlloc(t) \/ AddCleanupInBlock(t) \/ AddCleanupChunk(t) \/ SpaceUsedReturns(t) \/ FinishReset(t))
        <5>1. call'[t].op = call[t].op \/ Return(t)
          <6>1. CASE GetBlock(t) \/ FindBlock(t) \/ WalkBlocks(t)
            BY <1>0, <6>1 DEF GetBlock, FindBlock, WalkBlocks, Goto, GotoWith, CallType
          <6>2. CASE NewBlock(t) \/ LockBlocks(t) \/ PublishBlock(t) \/ CacheBlock(t)
            BY <1>0, <6>2 DEF NewBlock, LockBlocks, PublishBlock, CacheBlock, Goto, GotoWith, CallType
          <6>3. CASE AllocFromBlock(t) \/ ExpandCleanupList(t)
            BY <1>0, <6>3 DEF AllocFromBlock, ExpandCleanupList, Goto, CallType
          <6>4. CASE CleanupList(t) \/ FreeBlocks(t) \/ WalkUsed(t)
            BY <1>0, <6>4 DEF CleanupList, FreeBlocks, WalkUsed, SumBlock, GotoWith, CallType
          <6> QED
            BY <3>1, <4>2, <6>1, <6>2, <6>3, <6>4 DEF CallStep
        <5>2. ~ Return(t)
          BY <1>0, <1>1, <1>4 DEF Return, NoCall, ReleaseOps
        <5> QED
          BY <1>1, <1>4, <5>1, <5>2
      <4> QED
        BY <4>1, <4>2
    <3>2. CASE Begin(t)
      <4>1. call' # call
        BY <1>1, <1>4
      <4>2. ASSUME NEW c \in Arenas, SpaceUsed(t, c) PROVE FALSE
        <5>1. call'[t].op = "used"
          BY <1>0, <4>2 DEF SpaceUsed, NoCall
        <5> QED
          BY <1>1, <1>4, <5>1 DEF ReleaseOps
      <4>3. ASSUME NEW c \in Arenas, NEW n \in Sizes \union {0}, NEW cleanup \in BOOLEAN,
                   Allocate(t, c, n, cleanup)
            PROVE  FALSE
        <5>1. call'[t].op = "allocate"
          BY <1>0, <4>3 DEF Allocate, NoCall
        <5> QED
          BY <1>1, <1>4, <5>1 DEF ReleaseOps
      <4> QED
        BY <3>2, <4>1, <4>2, <4>3 DEF Begin, ThreadExit, Construct
    <3> QED
      BY <3>1, <3>2
  <2>2. PICK c \in Arenas : Reset(t, c) \/ Destroy(t, c)
    BY <2>1
  <2>3. /\ Release(t, c, "reset") \/ Release(t, c, "destroy")
        /\ heap' = heap /\ Unused(c) /\ arena[c].alive
        /\ arena' = arena \/ arena' = [arena EXCEPT ![c].lifecycle_id = lifecycle_id_generator]
    BY <2>2 DEF Reset, Destroy
  <2>4. call'[t].pc = "cleanup" /\ call'[t].arena = c /\ call'[t].block = arena[c].blocks
    <3>1. CASE Release(t, c, "reset")
      BY <1>0, <3>1 DEF Release, NoCall
    <3>2. CASE Release(t, c, "destroy")
      BY <1>0, <3>2 DEF Release, NoCall
    <3> QED
      BY <2>3, <3>1, <3>2
  <2>5. c = a
    BY <1>1, <1>4, <2>4
  <2>6. /\ arena'[a].blocks = arena[a].blocks /\ arena'[a].registered = arena[a].registered
        /\ arena'[a].ran = arena[a].ran
    BY <1>0, <2>3 DEF ArenaType
  <2>7. Remaining(a) = Listed(a) /\ Listed(a)' = Listed(a)
    <3>1. ~ Releasing(a)
      BY <2>3, <2>5 DEF Unused, Releasing
    <3> QED
      BY <2>3, <2>6, <3>1, AllRemain DEF Listed, Depth
  <2>8. Remaining(a)' = Listed(a)
    <3>1. \A d \in Listed(a) : heap'[d].depth <= Depth(arena[a].blocks)'
      BY <2>3, <2>6 DEF Listed, Depth
    <3>2. \A v \in Threads : call'[v].arena = a =>
            call'[v].pc = "cleanup" /\ call'[v].block = arena[a].blocks
      BY <1>3, <1>4, <2>4, <2>5
    <3>3. \A v \in Threads, d \in Listed(a) : call'[v].arena = a =>
            heap'[d].depth <= Depth(call[v].block)'
      BY <2>6, <3>1, <3>2 DEF Depth
    <3> QED
      BY <2>7, <3>2, <3>3 DEF Remaining
  <2>9. \A b \in Remaining(a) :
          heap'[b].owner = heap[b].owner /\ heap'[b].depth = heap[b].depth /\ NodesOf(b)' = NodesOf(b)
    BY <2>3 DEF NodesOf
  <2> QED
    BY <2>6, <2>7, <2>8, <2>9, NodesStay
<1>5. CASE u = t /\ call[t].op \in ReleaseOps
  <2>1. CleanupList(t) \/ FreeBlocks(t) \/ FinishReset(t)
    BY <1>5, ReleaseSteps DEF IInv, CallOK, CallConsistent
  <2>2. ~ FinishReset(t)
    BY <1>0, <1>1, <1>5 DEF FinishReset, Return, NoCall, ReleaseOps
  <2>3. call[t].arena = a /\ call'[t].op = call[t].op
    BY <1>0, <1>1, <1>5, <2>1, <2>2 DEF CleanupList, FreeBlocks, GotoWith, CallType
  <2>4. CASE CleanupList(t) /\ call[t].block # NULL
    BY <2>3, <2>4, CleanupListNodesKept
  <2>5. CASE ~ (CleanupList(t) /\ call[t].block # NULL)
    <3>1. Remaining(a) = {}
      <4>1. CASE CleanupList(t)
        <5>1. call[t].pc = "cleanup" /\ call[t].block = NULL
          BY <2>5, <4>1 DEF CleanupList, At
        <5>2. Remaining(a) = {c \in Listed(a) : heap[c].depth <= 0}
          BY <1>5, <2>3, <5>1, ReleaseAlone DEF Depth
        <5>3. \A c \in Listed(a) : heap[c].depth > 0 /\ heap[c].depth \in Nat
          BY <1>0 DEF Listed, BlockType
        <5> QED
          BY <5>2, <5>3
      <4>2. CASE FreeBlocks(t)
        BY <1>5, <2>3, <4>2, ReleaseAlone DEF FreeBlocks, At
      <4> QED
        BY <2>1, <2>2, <4>1, <4>2
    <3>2. call'[t].pc = "free" /\ arena' = arena
      BY <1>0, <2>1, <2>2, <2>5 DEF CleanupList, FreeBlocks, At, GotoWith, CallType
    <3>3. Remaining(a)' = {}
      BY <1>1, <1>5, <3>2 DEF Remaining
    <3> QED
      BY <3>1, <3>2, <3>3, NodesStay DEF Releasing, ReleaseOps
  <2> QED
    BY <2>4, <2>5
<1>6. CASE u # t
  <2>1. /\ call'[u] = call[u] /\ call[u].arena = a /\ call[u].op \in ReleaseOps /\ Releasing(a)
    BY <1>1, <1>2, <1>6 DEF Releasing, ReleaseOps
  <2>2. /\ arena[a].alive /\ \A v \in Threads : call[v].arena = a => v = u
        /\ call[u].pc \in {"cleanup", "free"}
        /\ call[u].pc = "cleanup" =>
              /\ ~ Freed(a)
              /\ call[u].block # NULL => call[u].block \in Listed(a)
              /\ Remaining(a) = {c \in Listed(a) : heap[c].depth <= Depth(call[u].block)}
        /\ call[u].pc = "free" => Remaining(a) = {}
    BY <2>1, ReleaseAlone
  <2>3. call[t].arena # a
    BY <1>6, <2>2
  <2>4. /\ arena'[a].registered = arena[a].registered /\ arena'[a].ran = arena[a].ran
        /\ \A b \in Memory : heap[b].arena = a => heap'[b].cleanup = heap[b].cleanup
    BY <2>2, <2>3, CleanupsUntouched DEF Steals, AddsCleanup, Releases
  <2>5. CASE call[u].pc = "free"
    <3>1. Remaining(a)' = {}
      BY <1>1, <2>1, <2>5 DEF Remaining
    <3> QED
      BY <2>1, <2>2, <2>4, <2>5, <3>1, NodesStay
  <2>6. CASE call[u].pc = "cleanup"
    <3>1. ~ Freed(a)'
      BY <1>3, <2>1, <2>6 DEF Freed, At
    <3>2. ListSame(a)
      BY <2>2, <2>3, <2>6, <3>1, ListStep DEF Pushes
    <3>3. PICK b : b = call[u].block
      OBVIOUS
    <3>4. /\ Listed(a)' = Listed(a) /\ \A c \in Listed(a) : heap'[c].depth = heap[c].depth
          /\ Depth(b)' = Depth(b)
      BY <2>2, <2>6, <3>2, <3>3 DEF ListSame, SameBlock, Depth
    <3>5. Remaining(a)' = {c \in Listed(a) : heap[c].depth <= Depth(b)}
      BY <1>1, <1>3, <2>1, <2>6, <3>3, <3>4 DEF Remaining
    <3>6. \A c \in Remaining(a) :
            heap'[c].owner = heap[c].owner /\ heap'[c].depth = heap[c].depth /\ NodesOf(c)' = NodesOf(c)
      BY <2>2, <2>4, <2>6, <3>2 DEF ListSame, SameBlock, Listed, NodesOf
    <3>7. Remaining(a)' = Remaining(a)
      BY <2>2, <2>6, <3>3, <3>5
    <3> QED
      BY <2>1, <2>4, <3>6, <3>7, NodesStay
  <2> QED
    BY <2>2, <2>5, <2>6
<1> QED
  BY <1>4, <1>5, <1>6

-----------------------------------------------------------------------------
(* An arena in use after a step was in use before it, unless it starts anew. *)
LEMMA AliveBefore ==
  ASSUME IInv, NEW t \in Threads, CallStep(t) \/ Begin(t), NEW a \in Arenas,
         arena'[a].alive, ~ Restarts(t, a)
  PROVE  arena[a].alive
<1>0. arena \in [Arenas -> ArenaType] /\ (call[t].pc # "idle" => call[t].arena \in Arenas)
  BY DEF IInv, TypeOK, CallOK, CallConsistent
<1>1. CASE UNCHANGED arena
  BY <1>1
<1>2. CASE \E c \in Arenas : Construct(t, c) \/ Reset(t, c)
  BY <1>0, <1>2 DEF Construct, Reset, Restarts, ArenaType
<1>3. CASE LockBlocks(t) \/ PublishBlock(t) \/ CacheBlock(t)
  BY <1>0, <1>3 DEF LockBlocks, PublishBlock, CacheBlock, At, ArenaType
<1>4. CASE AddCleanupInBlock(t)
  BY <1>0, <1>4 DEF AddCleanupInBlock, Register, At, ArenaType
<1>5. CASE AddCleanupChunk(t)
  BY <1>0, <1>5 DEF AddCleanupChunk, Register, At, ArenaType
<1>6. CASE CleanupList(t)
  BY <1>0, <1>6 DEF CleanupList, At, ArenaType
<1>7. CASE FinishReset(t)
  BY <1>0, <1>7 DEF FinishReset, Restarts, At
<1>8. CASE CallStep(t)
  BY <1>1, <1>3, <1>4, <1>5, <1>6, <1>7, <1>8 DEF CallStep, GetBlock, FindBlock, WalkBlocks, NewBlock,
     BadAlloc, AllocFromBlock, ExpandCleanupList, FreeBlocks, WalkUsed, SpaceUsedReturns
<1>9. CASE Begin(t)
  BY <1>1, <1>2, <1>9 DEF Begin, ThreadExit, Destroy, SpaceUsed, Allocate
<1> QED
  BY <1>8, <1>9

(* Every step keeps the cleanups, and threads with their first blocks.       *)
LEMMA CleanStepKeeps ==
  ASSUME IInv, IInv', PendingEmpty, CleanInv, NEW t \in Threads, CallStep(t) \/ Begin(t)
  PROVE  CleanInv'
<1>0. TopInCall(t)
  BY DEF CleanInv
<1>1. ASSUME NEW u \in Threads PROVE TopInCall(u)'
  <2>1. CASE u = t
    <3>1. TopInCall(t)'
      BY <1>0, OwnTopKept DEF CleanInv
    <3> QED
      BY <2>1, <3>1
  <2>2. CASE u # t
    BY <2>2, OtherTopKept DEF CleanInv
  <2> QED
    BY <2>1, <2>2
<1>2. ASSUME NEW a \in Arenas, arena'[a].alive PROVE NodesKept(a)'
  <2>1. CASE Restarts(t, a)
    BY <2>1, NodesAnew
  <2>2. CASE ~ Restarts(t, a)
    <3>1. NodesKept(a)
      BY <1>2, <2>2, AliveBefore DEF CleanInv
    <3>2. CASE Releasing(a)'
      BY <1>2, <2>2, <3>1, <3>2, ReleasedNodesKept
    <3>3. CASE ~ Releasing(a)'
      BY <1>0, <1>2, <2>2, <3>1, <3>3, InUseNodesKept
    <3> QED
      BY <3>2, <3>3
  <2> QED
    BY <2>1, <2>2
<1>3. ASSUME NEW a \in Arenas, arena'[a].alive, ~ Releasing(a)' PROVE TopsKnown(a)'
  <2>1. CASE Restarts(t, a)
    BY <1>3, <2>1, TopsKnownAnew
  <2>2. CASE ~ Restarts(t, a)
    <3>1. TopsKnown(a)
      BY <1>3, <2>2, Unreleased DEF CleanInv
    <3> QED
      BY <1>0, <1>3, <2>2, <3>1, TopsKnownKept
  <2> QED
    BY <2>1, <2>2
<1> QED
  BY <1>1, <1>2, <1>3 DEF CleanInv

(* At first no arena is in use. *)
LEMMA InitClean == Init => CleanInv
<1> SUFFICES ASSUME Init PROVE CleanInv
  OBVIOUS
<1>1. \A a \in Arenas : ~ arena[a].alive
  BY DEF Init
<1>2. \A t \in Threads : call[t].pc = "idle"
  BY DEF Init, NoCall
<1> QED
  BY <1>1, <1>2 DEF CleanInv, TopInCall

(* It is so at all times. *)
LEMMA CleanInvariance == Spec => []CleanInv
<1>1. IInv /\ IInv' /\ PendingEmpty /\ CleanInv /\ [Next]_vars => CleanInv'
  <2> SUFFICES ASSUME IInv, IInv', PendingEmpty, CleanInv, [Next]_vars PROVE CleanInv'
    OBVIOUS
  <2>1. CASE UNCHANGED vars
    <3> USE <2>1 DEF vars
    <3>1. \A a : Listed(a)' = Listed(a) /\ (Releasing(a)' <=> Releasing(a))
      BY DEF Listed, Depth, Releasing
    <3>2. \A a : Remaining(a)' = Remaining(a)
      BY <3>1 DEF Remaining, Depth
    <3>3. \A t : TopInCall(t) => TopInCall(t)'
      BY <3>1 DEF TopInCall, Top, Depth
    <3>4. \A a : TopsKnown(a) => TopsKnown(a)'
      BY <3>1 DEF TopsKnown, Top, Caching
    <3>5. \A a : NodesKept(a) => NodesKept(a)'
      BY <3>1, <3>2, NodesStay DEF NodesOf
    <3> QED
      BY <3>1, <3>3, <3>4, <3>5 DEF CleanInv
  <2>2. CASE Next
    BY <2>2, CleanStepKeeps DEF Next
  <2> QED
    BY <2>1, <2>2
<1> QED
  BY <1>1, InitClean, Invariance, UsedInvariance, PTL DEF Spec

(* The blocks after one of the list are less deep. *)
LEMMA NextIsLower ==
  ASSUME IInv, NEW a \in Arenas, NEW b \in Listed(a), NEW c \in BlocksFrom(heap[b].next)
  PROVE  heap[c].depth < heap[b].depth
<1>1. /\ heap[b].next # NULL /\ b \in Memory /\ heap[b].arena = a /\ a # NULL
  BY Constants, NothingFromNull DEF Listed
<1>2. /\ heap[b].next \in Memory /\ heap[heap[b].next].arena = a /\ heap[heap[b].next].depth > 0
      /\ heap[heap[b].next].depth + 1 = heap[b].depth
      /\ \A d \in Memory : heap[d].depth \in Nat
  BY <1>1 DEF IInv, Ordered, Linked, TypeOK, BlockType
<1>3. c \in Below(heap[b].next)
  BY <1>1, <1>2, ListIsBelow
<1> QED
  BY <1>1, <1>2, <1>3 DEF Below

(* What waits to run is what remains. *)
LEMMA WaitingIsRemaining ==
  ASSUME IInv, NEW a \in Arenas
  PROVE  Waiting(a) = Remaining(a)
<1>1. CASE Freed(a)
  <2>1. PICK t \in Threads : call[t].arena = a /\ call[t].pc = "free"
    BY <1>1 DEF Freed, At
  <2>2. Remaining(a) = {}
    BY <2>1, ReleaseAlone DEF IInv, CallOK, CallConsistent
  <2> QED
    BY <1>1, <2>2 DEF Waiting
<1>2. CASE ~ Freed(a)
  <2>1. BlocksFrom(arena[a].blocks) = Listed(a)
    BY <1>2, ListIsListed
  <2>2. \A t \in Threads : call[t].arena = a =>
          (call[t].op \in ReleaseOps <=> call[t].pc = "cleanup")
    BY <1>2 DEF Freed, At, IInv, CallOK, CallConsistent
  <2>3. ASSUME NEW t \in Threads, call[t].arena = a, call[t].pc = "cleanup", NEW c \in Listed(a)
        PROVE  c \in BlocksFrom(call[t].block) <=> heap[c].depth <= Depth(call[t].block)
    <3>1. PICK b : b = call[t].block
      OBVIOUS
    <3>2. b # NULL => b \in Listed(a)
      BY <2>2, <2>3, <3>1, ReleaseAlone
    <3>3. a # NULL /\ c \in Memory /\ heap[c].depth \in Nat /\ heap[c].depth > 0 /\ heap[c].arena = a
      BY Constants DEF Listed, IInv, TypeOK, BlockType
    <3>4. CASE b = NULL
      BY <3>1, <3>3, <3>4, NothingFromNull DEF Depth
    <3>5. CASE b # NULL
      <4>1. b \in Memory /\ heap[b].arena = a /\ heap[b].depth > 0
        BY <3>2, <3>5 DEF Listed
      <4>2. BlocksFrom(b) = Below(b)
        BY <3>3, <4>1, ListIsBelow
      <4> QED
        BY <3>1, <3>3, <3>5, <4>1, <4>2 DEF Below, Depth
    <3> QED
      BY <3>4, <3>5
  <2> QED
    BY <1>2, <2>1, <2>2, <2>3 DEF Waiting, Remaining, At
<1> QED
  BY <1>1, <1>2

(* Every cleanup runs exactly once, a thread's last one first, whatever      *)
(* blocks and stolen lists hold it: it has run, or waits in a block that the *)
(* walk has yet to reach (arena.cc:124-135, :165-192, :243-247, :318-346).   *)
THEOREM EveryCleanupRuns == Spec => []CleanupsKept
<1>1. IInv /\ CleanInv => CleanupsKept
  <2> SUFFICES ASSUME IInv, CleanInv, NEW a \in Arenas, arena[a].alive
               PROVE  /\ {NodeAt(a, p) : p \in Places(a)} =
                           UNION {{<<t, k>> : k \in 1 .. arena[a].registered[t]} : t \in Threads}
                      /\ \A p, q \in Places(a) :
                           RunsBefore(p, q) /\ NodeAt(a, p)[1] = NodeAt(a, q)[1] =>
                             NodeAt(a, p)[2] > NodeAt(a, q)[2]
    BY DEF CleanupsKept
  <2>0. /\ Waiting(a) = Remaining(a) /\ NodesKept(a) /\ NULL \notin Memory
        /\ Remaining(a) \subseteq Listed(a) /\ Listed(a) \subseteq Memory
    BY WaitingIsRemaining, Constants, ListedFinite DEF CleanInv, Remaining
  <2>1. \A p : p \in Places(a) <=>
          \/ \E i \in DOMAIN arena[a].ran : p = <<NULL, i>>
          \/ \E b \in Remaining(a) : \E i \in DOMAIN NodesOf(b) : p = <<b, i>>
    BY <2>0 DEF Places, NodesOf
  <2>2. /\ \A i : NodeAt(a, <<NULL, i>>) = arena[a].ran[i]
        /\ \A b \in Remaining(a) : \A i : NodeAt(a, <<b, i>>) = NodesOf(b)[i]
    BY <2>0 DEF NodeAt, NodesOf
  <2>3. ASSUME NEW t \in Threads, NEW k \in 1 .. arena[a].registered[t]
        PROVE  \/ \E i \in DOMAIN arena[a].ran : arena[a].ran[i] = <<t, k>>
               \/ \E b \in Remaining(a) : \E i \in DOMAIN NodesOf(b) : NodesOf(b)[i] = <<t, k>>
    BY <2>0 DEF NodesKept, AllNodes
  <2>4. ASSUME NEW p \in Places(a)
        PROVE  \E t \in Threads : \E k \in 1 .. arena[a].registered[t] : NodeAt(a, p) = <<t, k>>
    <3>1. CASE \E i \in DOMAIN arena[a].ran : p = <<NULL, i>>
      <4>1. PICK i \in DOMAIN arena[a].ran : p = <<NULL, i>>
        BY <3>1
      <4>2. arena[a].ran[i] \in Threads \X Nat
        BY DEF IInv, TypeOK, ArenaType, Nodes
      <4>3. arena[a].ran[i][2] \in 1 .. arena[a].registered[arena[a].ran[i][1]]
        BY <2>0 DEF NodesKept, RanNodes
      <4> QED
        BY <2>2, <4>1, <4>2, <4>3
    <3>2. CASE \E b \in Remaining(a) : \E i \in DOMAIN NodesOf(b) : p = <<b, i>>
      <4>1. PICK b \in Remaining(a) : \E i \in DOMAIN NodesOf(b) : p = <<b, i>>
        BY <3>2
      <4>2. PICK i \in DOMAIN NodesOf(b) : p = <<b, i>>
        BY <4>1
      <4>3. NodesOf(b)[i] \in Threads \X Nat
        BY <2>0 DEF IInv, TypeOK, BlockType, CleanupType, Nodes, NodesOf
      <4>4. NodesOf(b)[i][1] = heap[b].owner /\ NodesOf(b)[i][2] \in 1 .. arena[a].registered[heap[b].owner]
        BY <2>0 DEF NodesKept, OwnNodes
      <4> QED
        BY <2>2, <4>2, <4>3, <4>4
    <3> QED
      BY <2>1, <3>1, <3>2
  <2>5. ASSUME NEW t \in Threads, NEW k \in 1 .. arena[a].registered[t]
        PROVE  \E p \in Places(a) : <<t, k>> = NodeAt(a, p)
    <3>1. ASSUME NEW i \in DOMAIN arena[a].ran, arena[a].ran[i] = <<t, k>>
          PROVE  \E p \in Places(a) : <<t, k>> = NodeAt(a, p)
      <4>1. <<NULL, i>> \in Places(a) /\ NodeAt(a, <<NULL, i>>) = <<t, k>>
        BY <2>1, <2>2, <3>1
      <4> QED
        BY <4>1
    <3>2. ASSUME NEW b \in Remaining(a), NEW i \in DOMAIN NodesOf(b), NodesOf(b)[i] = <<t, k>>
          PROVE  \E p \in Places(a) : <<t, k>> = NodeAt(a, p)
      <4>1. <<b, i>> \in Places(a) /\ NodeAt(a, <<b, i>>) = <<t, k>>
        BY <2>1, <2>2, <3>2
      <4> QED
        BY <4>1
    <3> QED
      BY <2>3, <3>1, <3>2
  <2>6. {NodeAt(a, p) : p \in Places(a)} =
          UNION {{<<t, k>> : k \in 1 .. arena[a].registered[t]} : t \in Threads}
    BY <2>4, <2>5
  <2>7. ASSUME NEW p \in Places(a), NEW q \in Places(a), RunsBefore(p, q),
               NodeAt(a, p)[1] = NodeAt(a, q)[1]
        PROVE  NodeAt(a, p)[2] > NodeAt(a, q)[2]
    <3>1. ASSUME NEW i \in DOMAIN arena[a].ran, p = <<NULL, i>>,
                 NEW j \in DOMAIN arena[a].ran, q = <<NULL, j>>
          PROVE  NodeAt(a, p)[2] > NodeAt(a, q)[2]
      <4>1. i < j
        BY <2>7, <3>1 DEF RunsBefore
      <4> QED
        BY <2>0, <2>2, <2>7, <3>1, <4>1 DEF NodesKept, RanOrder
    <3>2. ASSUME NEW i \in DOMAIN arena[a].ran, p = <<NULL, i>>,
                 NEW c \in Remaining(a), NEW j \in DOMAIN NodesOf(c), q = <<c, j>>
          PROVE  NodeAt(a, p)[2] > NodeAt(a, q)[2]
      <4>1. arena[a].ran[i][1] = heap[c].owner
        BY <2>0, <2>2, <2>7, <3>2 DEF NodesKept, OwnNodes
      <4> QED
        BY <2>0, <2>2, <3>2, <4>1 DEF NodesKept, RanFirst
    <3>3. ASSUME NEW b \in Remaining(a), NEW i \in DOMAIN NodesOf(b), p = <<b, i>>,
                 NEW j \in DOMAIN arena[a].ran, q = <<NULL, j>>
          PROVE  FALSE
      BY <2>0, <2>7, <3>3 DEF RunsBefore
    <3>4. ASSUME NEW b \in Remaining(a), NEW i \in DOMAIN NodesOf(b), p = <<b, i>>,
                 NEW c \in Remaining(a), NEW j \in DOMAIN NodesOf(c), q = <<c, j>>
          PROVE  NodeAt(a, p)[2] > NodeAt(a, q)[2]
      <4>1. CASE b = c /\ i < j
        BY <2>0, <2>2, <3>4, <4>1 DEF NodesKept, BlockOrder
      <4>2. CASE c \in BlocksFrom(heap[b].next)
        <5>1. heap[c].depth < heap[b].depth
          BY <2>0, <4>2, NextIsLower
        <5>2. heap[b].depth > heap[c].depth /\ heap[b].owner = heap[c].owner
          BY <2>0, <2>2, <2>7, <3>4, <5>1 DEF NodesKept, OwnNodes
        <5> QED
          BY <2>0, <2>2, <3>4, <5>2 DEF NodesKept, ListOrder
      <4> QED
        BY <2>0, <2>7, <3>4, <4>1, <4>2 DEF RunsBefore
    <3> QED
      BY <2>1, <2>7, <3>1, <3>2, <3>3, <3>4
  <2> QED
    BY <2>6, <2>7
<1> QED
  BY <1>1, Invariance, CleanInvariance, PTL
=============================================================================
