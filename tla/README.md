# A verification of Protocol Buffers

TLA+ models of the parts of this repository (Protocol Buffers 3.3, C++ and
Java) whose correctness depends on the order in which threads act or on long
sequences of calls, TLC instances that check them, and TLAPS proofs.

Paths below are relative to `src/extracted/src/google/protobuf/` for C++ and to
`src/extracted/java/core/src/main/java/com/google/protobuf/` for Java.

| module | what it is |
|---|---|
| `OnceInit` | one-time initialisation, `GoogleOnceInit` (`stubs/once.{h,cc}`) |
| `MessageRegistry` | `GeneratedMessageFactory` (`message.cc`), which extends it with the registration of generated files |
| `Arena` | the arena allocator, `ArenaImpl` (`arena.cc`, `arena_impl.h`) |
| `MapOps` | maps, lists of entries and calls, common to the next three |
| `SharedMap` | abstract: a map whose calls take effect at once |
| `MapField` | the C++ map field (`map_field*.{h,cc}`), implements `SharedMap` |
| `JavaMapField` | `MapField.java` and the generated code around it, implements `SharedMap` |
| `LazyField` | the lazily parsed message field, `LazyFieldLite.java` |
| `DescriptorPool` | `DescriptorPool` and `DescriptorBuilder` (`descriptor.cc`) |
| `MessageTree` | abstract: a mutable tree of messages |
| `NestedBuilders` | the nested builders of Java, implements `MessageTree` |
| `MessageRegistryProofs` (of `OnceInit` too), `ArenaProofs`, `MapOpsProofs`, `MapFieldProofs`, `JavaMapFieldProofs`, `LazyFieldProofs`, `DescriptorPoolProofs`, `NestedBuildersProofs` | theorems |
| `MC...` | the instances for TLC, with their `.cfg` files |

Run a model with `tlc -config MCArenaThreads.cfg MCArena`, a proof with
`tlapm ArenaProofs.tla`.


## 1. The system

The repository is a serialisation library in several languages, and a compiler
that generates code for it. Most of it is pure: encoding, decoding, text, code
generation. The library promises that objects used only in `const` ways may be
shared by threads and that everything else is for one thread at a time
(`package_info.h:48-62`). What keeps that promise is in a few components that
change state behind a `const` interface, or that are explicitly for concurrent
use. A second kind of component is used by one thread, and has state of which
one part must follow another through any sequence of calls: tables that are
rolled back, messages that are cached.

### Inventory

| component | state | operations | what is hard | what makes it correct | status |
|---|---|---|---|---|---|
| One-time initialisation (`stubs/once.*`) | an atomic word per once object | `GoogleOnceInit`, nested through closures | races for the word, spinning, a fast path without the lock | a closure runs once; nobody returns before it has; everybody returns | modelled, proved |
| Message registry (`message.cc`) | files, types, prototypes, a mutex | `GetPrototype`, `RegisterFile`, registration functions that wait for once objects | registration inside a lookup, a lock held while waiting for a closure | every type registered once and with its descriptors, every lookup answered | modelled, proved |
| Arena (`arena.*`, `arena_impl.h`) | list of blocks, hint, space counter, per-thread caches, cleanup lists | allocate, add cleanup, `Reset`, destroy, `SpaceUsed` | lock-free walks against pushes, caches that outlive blocks, addresses reused | only the owner works on a block; no cache or hint is stale; no block or cleanup lost | modelled, proved |
| Map field, C++ (`map_field*`) | a map, a repeated field, a state word, a mutex | map and repeated-field calls, `MergeFrom`, `Swap`, `Clear`, deletes, serialisation | double-checked synchronisation in `const` calls, swaps of fields in different states | one map, whoever synchronises it when; no reader is disturbed | modelled, proved |
| Map field, Java (`MapField.java`, `java_map_field.cc`) | map, list, mode, mutability; which builder and messages share it | getters, mutable getters, `mergeFrom`, `clear`, `copy`, `build` | conversion under readers, sharing between builder and messages | one map per builder and per message | modelled, proved |
| Lazily parsed field (`LazyFieldLite.java`) | delayed bytes, value, memoized bytes, registry | getters that parse and memoize; `set`, `merge`, `mergeFrom`, `setValue`, `setByteString`, `clear` | getters race with each other and with a `merge` from the field | bytes and value stay what was put in; they do not change under readers | partly (`equals`), proved |
| Descriptor pool (`descriptor.cc`) | tables of files, symbols, extensions; checkpoints; pending files; known-bad sets | `BuildFile`, lookups with a fallback database, types linked on demand | builds nest, and each may be rolled back | tables are those of the files that were built; answers do not depend on history | partly, tables proved |
| Nested builders (`SingleFieldBuilderV3.java`, `GeneratedMessageV3.java`, `java_message_field.cc`) | message or builder per field, `isClean` at each level | get, set, merge, clear, build, change notices | a missing notice leaves a stale parent; replaced builders are used on | cached messages are up to date; builders are a tree | partly |
| `RepeatedFieldBuilderV3`, `SmallSortedMap`, `RepeatedPtrField`, `map.h` | lists, containers | insert, remove, iterate, swap | the notices again, with externally visible lists; iterators against overflow | a sequence / a map | not modelled |
| Streams (`io/coded_stream.*`, `io/zero_copy_stream_impl*`, `CodedInputStream.java`) | buffers, positions, limits | read, push and pop limits, back up, skip | 32-bit arithmetic at limits and buffer ends | never read past a limit | not modelled |
| JSON parser (`util/internal/json_stream_parser.cc`) | stack, leftover bytes | `Parse` of chunks, `FinishParse` | cuts at any byte | the same result however the input is cut | not modelled |
| Dynamic messages, extension sets, importer, reflection | tables | lookups | small locks, fallbacks | — | not modelled |
| Wire format, text format, differencer, utilities, stubs | none or local | pure functions | — | — | not modelled |
| Compiler and generators, JavaScript, Python, generated code, tests, build files | — | text, I/O | — | — | not modelled |

`PROJECT.json` lists every component with its files and the reason.

### How the components interact

* Generated code calls `GoogleOnceInit` before it touches descriptors and
  default instances, and the closure of one file calls it for the files it
  imports. The closure of `AddDescriptors` enters the file in the registry,
  and the registry runs the file's registration function, which waits for the
  closure that assigns descriptors: `MessageRegistry` is `OnceInit` with the
  registry on top.
* Messages, map fields and repeated fields allocate from an arena; strings and
  objects with destructors register cleanups with it (`Arena`). An arena calls
  back only the cleanups and the user's block functions.
* Reflection and the wire format see a C++ map field as a repeated field or as a
  map (`MapField`); which of them serialisation takes, and that a sorted one
  marks the field as changed, is part of that module.
* A Java builder shares its `MapField` with the messages it builds, and copies it
  before the next change; readers of those messages convert it (`JavaMapField`).
* Java messages hold `LazyFieldLite` objects; builders change them, and
  finished messages share them between threads. A builder may copy or merge
  from a field of a finished message that another thread is reading
  (`LazyField`).
* The pool asks a `DescriptorDatabase` for files; what it answers is an input of
  `DescriptorPool`, false answers included. The generated pool is a pool with
  lazily built imports over the files that `AddDescriptors` gave it.

### What is hard to test

`PROJECT.json` lists the hazards at their lines, with the properties that would
catch them. They are of four kinds: two threads on one word, list or field
(`once.cc:78`, `arena.cc:144`, `map_field.cc:94`), state cached in one place and
changed in another (`arena.cc:204`, `SingleFieldBuilderV3.java:225`,
`java_map_field.cc:360`), several variables that are read or written one after
the other (`LazyFieldLite.java:205`, `message.cc:356`), and long sequences of
legal calls (`LazyFieldLite.java:271`, `descriptor.cc:4328`).


## 2. Plan

Done, in this order: `OnceInit`, `Arena`, their proofs; `LazyField`; `MapField`
and `JavaMapField` against `SharedMap`; `MessageRegistry` over `OnceInit` and its
proofs; `DescriptorPool`; `NestedBuilders` against `MessageTree`; the proofs about
`MapField`, `JavaMapField`, `LazyField` and `DescriptorPool` (its answers last), about the
order of closures in `OnceInit`; that no block of an `Arena` is lost, what its space
counter and `SpaceUsed` say, and that every cleanup runs; about `NestedBuilders`, first its
caches and then the refinement.

Left, in the order of what it would add:

1. `DescriptorPool`: underlays, placeholders and weak imports.
2. `NestedBuilders`: `RepeatedFieldBuilderV3`, fields of oneofs.
3. Sequential models of the coded streams (with 32-bit integers), of
   `SmallSortedMap` and of the JSON parser.

What is to be proved about is written without RECURSIVE operators.


## 3. The models

All are sequentially consistent: an atomic access is one step and is seen
by every thread at once. The barriers of the C++ code (`Acquire_Load`,
`Release_Store`, `NoBarrier_Load`) and `volatile` in Java are therefore taken to
do what they are there for; what a weaker memory would add is not modelled.

### OnceInit

State: `once[o]`, the word; `stack[t]`, the calls a thread is in, because the
closure of one object calls others; `pc[t]`, the place in the innermost call;
`initialized[o]`, a history: how often the closure has ended.

| action | code |
|---|---|
| `Call`, `InlineCheck` | `GoogleOnceInit`, `once.h:125-139` |
| `ImplCheck`, `CompareAndSwap`, `Spin` | `GoogleOnceInitImpl`, `once.cc:65-94` |
| `ClosureCalls`, `ClosureEnds` | the closure: the once objects it initialises, and its end |
| `Publish`, `Return` | the release store of `DONE`; return to the caller or to the closure that called |

`Calls[o]` says which objects `o`'s closure initialises. The instance uses the
objects of `type.proto` and of an import as the generated code nests them; the
nesting has no cycle, as imports have none (a cycle would spin for ever, in the
code as in the model). `GOOGLE_PROTOBUF_NO_THREAD_SAFETY` builds have another
`GoogleOnceInit` and are not modelled.

### MessageRegistry

State, besides `OnceInit`'s: `file_map` and `type_map`, the maps of the factory;
`mutex`; `type[t]` and `at[t]`, the type `t` wants the prototype of and where it
is. The files have once objects for `AddDescriptors` (`addOf`) and
`protobuf_AssignDescriptorsOnce` (`assignOf`), the factory has one.

| action | code |
|---|---|
| `UseLibrary`, `OnceStep` | any other use of the library; every step of a once object. A closure of `AddDescriptors` that has come past `generated_factory()` enters its file (`RegistersFile`: `message.cc:307-312`, `type.pb.cc:214-225`) |
| `GetPrototype` | `generated_factory()`, then `GetPrototype`, `message.cc:301-305` |
| `FindType` | the look at `type_map_` under the reader lock (an ordinary mutex, `stubs/mutex.h`), 330-334 |
| `FindFile` | the look at `file_map_`, without the lock, 338-348 |
| `Lock`, `CheckAgain`, `RegisterTypes`, `Unlock` | the writer lock, the second check, the registration function of the file, which first waits for the descriptors, 350-368 and `generated_message_reflection.cc:2351-2368` |

`GetPrototype` is called after static initialisation: every `AddDescriptors` is
over (`once[addOf[f]] = DONE`). Libraries that are loaded later are left out; with
them `file_map_` would be read while another thread writes it (see section 5).
The recursion of `GetPrototype` in a registration function does not occur: the
generated function registers prototypes it has.

### Arena

State: `arena[a]`, the fields of `ArenaImpl`; `heap[b]`, a `Block` at an address;
`thread_cache[t]`, the thread-local `ThreadCache`, whose address is what a block's
`owner` holds; `call[t]`, the call a thread is in with its local variables;
`lifecycle_id_generator`. Addresses are reused: a freed block may be the next
block of another arena. Histories: the cleanups registered and run since the
last reset, a block's depth in the list, and what was in use when `SpaceUsed`
was called.

| action | code (`arena.cc`) |
|---|---|
| `Construct` | `Init`, with or without a block of the user, 65-90 |
| `Allocate` | `AllocateAligned`, `AllocateAlignedAndAddCleanup`, `AddCleanup`, 177-195 |
| `GetBlock`, `FindBlock`, `WalkBlocks` | `GetBlock` and `GetBlockSlow`: the cache, the hint, the walk, 197-222, 237-255 and 337-350 |
| `NewBlock`, `BadAlloc`, `LockBlocks`, `PublishBlock` | `NewBlock` and `AddBlock` under the mutex, 109-147 |
| `CacheBlock` | stealing the cleanup list of the block that was full; `CacheBlock`, 237-255 |
| `AllocFromBlock`, `AddCleanupInBlock`, `ExpandCleanupList`, `AddCleanupChunk` | the owner's work on its block, without a lock, 149-175 and 224-235 |
| `Reset`, `Destroy`, `CleanupList`, `FreeBlocks`, `FinishReset` | `Reset` and the destructor: cleanups, then blocks, one at a time, 94-107 and 272-335 |
| `SpaceUsed`, `WalkUsed`, `SpaceUsedReturns` | the unlocked sum over the blocks, 262-270 |
| `ThreadExit` | a thread ends and its cache's address passes to a new one |

A step is an access to shared state together with the thread's own work up to the
next one. The caller's contract is a guard: `Reset` and the destructor run
while no other call on that arena does (`arena.h:173-175`, `:502-507`). Sizes are
abstract numbers; alignment is part of the size. What a cleanup does is its
own affair; it does not call the arena. `Reset`'s return value and ASAN
poisoning are left out. `SpaceUsed` reads positions that others write without
a lock: a read is one step.

### MapOps, SharedMap, MapField

`SharedMap` is the promise: `content[f]` is a map; a call that is `pending` takes
effect in one step.

State of `MapField`: `field[f]`, the map, the repeated field (NULL until it is
needed) and `state_`; `mutex[f]`; and for each thread its `call`, the place in it,
the `view` it works on and the fields it still has to synchronise (`todo`). A map
is a function of its keys, a repeated field a sequence of entries in which the
last of a key counts (`AsMap`); a map becomes any list of its entries, as nobody
knows the order of the hash table (`ListsOf`).

| action | code |
|---|---|
| `Start` | a call by its name: `GetMap`, `ContainsMapKey`, `Put` (a new value for a key through `MutableMap` or `InsertOrLookupMapValue`), `Write` (through a reference got before), `InsertOrLookup`, `Delete`, `Clear`, `MergeFrom`, `Swap`, `GetRepeatedField`, `Append`, `SetEntry`, `RemoveLast`, `ClearEntries`, `SwapField` (by reflection), `SpaceUsed`, `Serialize`, `SerializeSorted` |
| `Choose` | the serialiser takes the map if `IsMapValid`, `wire_format.cc:985-1013` |
| `CheckState`, `Lock` | `SyncMapWithRepeatedField`, `SyncRepeatedFieldWithMap`: the check, the mutex and the second check, `map_field.cc:90-115` |
| `ClearView`, `FillView`, `StoreClean`, `Unlock` | the conversion, 238-405; the release store of `CLEAN`; the end of the lock |
| `Measure` | `SpaceUsedExcludingSelfLong` takes the mutex, `map_field.cc:55-60` |
| `Act` | what the call does with its view: `map_field_inl.h:178-260`, `map_field.cc:157-227`, `generated_message_reflection.cc:364-367` and `:1745-1809` |

A field is cleared and filled in two steps, so that a reader in between would
see it. `MayCall` is the contract: a call that is not `const` has its fields for
itself. `Fits` has the other preconditions: an entry to set or remove; a map
reference is written only while the map is the authority (`wire_format.cc:976-980`);
`MapField`s are not mixed with `DynamicMapField`s, which have no `Clear`,
`MergeFrom` and `Swap` of their own. `ContainsMapKey` is called on dynamic fields,
and `SerializeSorted` counts as a change: see section 5. Arenas only decide where
things are allocated, and are left out; `Swap` is that of fields on one arena.

### JavaMapField

State: `object[o]`, the variables of a `MapField`; `foo[f]`, the field of a builder
or message `f` that refers to one, possibly shared; `monitor[o]`; per thread `call`,
`pc` and the object it converts (`at`).

| action | code |
|---|---|
| `Start` | `GetMap`, `GetList` on builders and messages; `Put`, `Delete`, `Append`, `SetEntry`, `Clear`, `ClearEntries`, `MergeFrom` on builders; `Build` |
| `internalGetMutable`, `internalGet` | the generated accessors: a new `MapField`, a copy of a shared one, or the empty one, `java_map_field.cc:345-364` |
| `Check`, `Enter`, `Convert`, `StoreMode` | `getMap` and `getList`: the mode, the monitor, the mode again, the data, the mode, `MapField.java:181-192, 236-247` |
| `Read`, `Copy`, `Mutate`, `PutAll` | the view is returned; `copy`; `getMutableMap` and `getMutableList` and the change; `mergeFrom` |
| `Build` | `buildPartial` shares the object and makes it immutable, `java_map_field.cc:696-702` |

A builder, and a message being built, belong to one thread; a built message to
all. Objects nobody refers to are collected and used again. `CallsAssumption` says
which calls there are: a builder's are on builders, what is merged is a message, and
building goes from a builder to a message.

### LazyField

State: `field[f]`, the four variables of a `LazyFieldLite`; `monitor[f]`, the
thread inside `synchronized (this)`; `call[t]`; and `history[f]`: the content that
users gave `f`, how some of it got lost, and the bytes handed out since the last
change. A message is the sequence of pieces merged into it and a byte string the
pieces it encodes; `wire` tells given bytes from serialised ones, and `Bad` is
bytes that do not parse. `ByteString.EMPTY` is compared by identity in the
code, so it differs from an empty byte string of another origin in the model.
`PiecesAssumption` keeps the marks `Bad` and `Garbled` apart from the pieces, and
`NULL` from what a variable may hold.

| action | code (`LazyFieldLite.java`) |
|---|---|
| `GetValue`, `CheckValue`, `EnterMonitor`, `ParseValue`, `MemoizeParsed` | `getValue`, `ensureInitialized`: a check, the monitor and a second check, the write of `value`, the write of `memoizedBytes` |
| `ToByteString`, `ReadBytes`, `SerializeValue` | `toByteString` |
| `GetSerializedSize`, `ReadSize`, `ReadSizeOfValue` | `getSerializedSize` |
| `SetValue`, `SetByteString`, `Clear`, `MergeFromStream` | the setters that touch one field, each one step |
| `Set`, `SetValueFromOther`, `SetMemoizedFromOther` | `set`: two reads of a field that others may be parsing |
| `Merge`, `ReadOtherMemoized`, `ReadOtherHeld`, `ConcatenateBytes`, `MergeValues` | `merge`: both tests for emptiness, then a copy or one of the four ways to combine |

Setters are not thread-safe (`LazyFieldLite.java:40-47`): a setter of `f` runs while
nobody else uses `f`. The field it merges from or copies belongs to a finished
message and may be read meanwhile. `delayedBytes` and the registry of that field
do not change then, so reading them is part of the step that reads a variable
that may. The constructors are `SetByteString` and `SetValue` on a new field;
`equals` calls the getters one after the other.

`mergeFrom` reads the length and the bytes of a field from the stream, except
when the field holds a value only: then it gives the stream to the builder, which
reads the length as a tag. `MergeUnframed` says what may come of it: nothing, or
`Garbled` fields. No caller in the repository tells which of the two a caller
should expect; such fields are marked and left out of `ValueIsContent`.

### DescriptorPool

State: the tables (`files_by_name_`, `symbols_by_name_`, `extensions_`), what was added
to each since the checkpoints, the checkpoints, the files that are finished,
`pending_files_`, the known-bad sets, the extensions loaded, the stack of
`DescriptorBuilder`s, the user's call, and `given`, the files whose descriptors a
call has returned. `db` is the database, chosen at the start: which files there
are, what they import (also publicly), which are invalid, which define a symbol
of another file, what their field and their extension refer to, and what the
index answers. A pool has a database (`DATABASE`), builds imports lazily as the
generated pool does (`LAZY`), or is given files by `BuildFile` (`DIRECT`).

| action | code (`descriptor.cc`) |
|---|---|
| `CallBuildFile`, `CallBuildOther`, `CallFindFileByName`, `CallFindSymbol`, `CallMessageType`, `CallFindExtensionByNumber`, `CallFindAllExtensions` | the public calls, which empty the known-bad sets, 1325-1470, 3396-3420, 6819-6831 |
| `Look`, `NextNumber`, `Answer` | the look into the tables, then into the database; the numbers of `FindAllExtensions`; the answer, and the field's type once it is linked |
| `Enter`, `LoadImport`, `ImportsLoaded` | `BuildFile`: the file exists, is pending, or its imports are loaded, each perhaps by a builder of its own, 4039-4093 |
| `Abandon`, `Add` | `BuildFileImpl` up to cross-linking: checkpoint, file, imports, symbols, 4095-4279 |
| `LinkType`, `SetType`, `LinkExtendee`, `AddExtension` | `CrossLinkField` of the field and of the extension, with the lookups they make, 5203-5360 and 1106-1114 |
| `Finish` | `ClearLastCheckpoint` or `RollbackToLastCheckpoint`, 838-899 and 4327-4335 |

The mutex of the pool is held for a whole call, so there is one call at a time.
`DatabasesAssumption` gives the databases their types, makes public imports imports
(`public_dependency` lists indexes into `dependency`) and keeps `NULL` and `Clash`
apart from names and calls. `LazyAssumption` is the condition under which imports
may be built lazily: "no descriptor build errors are guaranteed by the compilation
generation process" (`descriptor.h:1670-1676`), so the files of such a pool have no
errors, no two of them define one symbol, none imports itself, the index answers
rightly for them, and the messages they use are those of files there are.

`AnswerIsRight` compares what a call finds with `Buildable`, the smallest set of files that have
no error and import only files of the set. It is claimed of a pool whose database is `WellKept`:
no symbol has two files, the index knows the file of each symbol that has one, and a lazy pool
has only files that can be built. With a clash, the first file that was looked for wins; with a
wrong index, what was built before by another name is found and what was not is missing. There
the answers do depend on history, in the code too. In the run all pools with a database are well
kept but those with a clash (an index that names a file for a symbol that has none is among
them), and `TablesConsistent`, `NothingLeftBehind` and `BuiltOnceAtATime` are claimed of every
database.

A file has one message, one field and one extension. Weak imports are not
modelled: in a cycle of them, which file gets a placeholder depends on which was
looked for first, so that `AnswerIsRight` is no property of theirs.

### MessageTree, NestedBuilders

`MessageTree` is the promise: a builder is a node of a mutable tree, and building
reads the tree below it. A message is the sequence of its own scalar and the
message in its field. When a message is merged into one that is not a builder yet, it is
left open whether that one becomes a builder, as the code does where its field builder
has no builder but holds another message than the default one; it shows in nothing but
which builders there are.

State of `NestedBuilders`: `heap.b`, the builders (scalar, bit, field, field
builder, parent, `isClean`); `heap.s`, the `SingleFieldBuilderV3`s (parent, builder,
message, `isClean`); the last `answer`. The user keeps every builder he got.

| operator | code |
|---|---|
| `FieldChanged`, `OnChanged`, `Told`, `Invalidated` | `onChanged` and `markDirty` up the tree, `SingleFieldBuilderV3.java:215-236`, `GeneratedMessageV3.java:698-729` |
| `GetMessage`, `FieldBuilt`, `GetBuilder`, `SetMessage`, `MergeField` | the methods of `SingleFieldBuilderV3` |
| `BuildPartial`, `Building`, `BuiltMessages`, `MergeFrom`, `Clear`, `SetX`, `SetField`, `ClearField`, `Field`, `GetFieldBuilder` | the generated builder, `java_message_builder.cc`, `java_message_field.cc:286-433` |
| `Call...` | one action for each call of the user on any builder |

`FieldPresence` tells proto2 from proto3.

The methods call each other up and down the tree of builders. A call of `onChanged` reaches
each builder once, whose flag it clears, so what it does is given by the set of those it
reaches (`Told`: the smallest set that has the first and is closed under who is told by whom);
the same holds of the builders that a `buildPartial` builds (`Building`). What is built, and
what `mergeFrom` leaves, are functions on the builders (and on the levels of the message).


## 4. What the runs check

| run | instance | states | shows |
|---|---|---|---|
| `registry` | 2 threads, `type.proto` and the file it imports: 3 types, 8 once objects | 124 k | no closure twice, dependencies first, no early return; no type registered twice, every prototype with its descriptors; every call and lookup returns |
| `arena_threads` | 2 threads, 1 arena, 3 heap blocks, sizes below and above the largest block, 2 cleanups, a reset | 1.9 M | only owners work on blocks; cleanups kept in order; allocations fit |
| `arena_reuse` | 2 threads, 2 arenas, 2 heap blocks and one of the user, 3 lives | 959 k | caches and hints do not survive blocks whose addresses go to another arena; no block is lost by racing pushes |
| `arena_live` | 2 threads, 1 arena, 2 heap blocks, 3 cleanups, a reset, one observer | 333 k | types, with cleanup chunks that fill up; every call returns; the space counter is the sum of the blocks; `SpaceUsed` is between what was in use before and after |
| `map_threads` | 2 threads, 2 generated map fields, 1 key, 2 values, every call | 801 k | calls see what the users gave the field; `CLEAN` means the same; no reader is disturbed; `MapField` implements `SharedMap` |
| `map_dynamic` | 2 threads, 1 dynamic map field, 2 keys, lists of 2 entries | 202 k | every call returns |
| `java_map` | 2 threads, a builder and the message it builds, 3 `MapField`s | 316 k | getters return what the field is; `JavaMapField` implements `SharedMap` |
| `lazy_threads` | 2 threads, 2 fields, a good piece and one that does not parse | 2.1 M | bytes and values are the content; bytes have a registry; empty is empty; bytes are stable; parsed once |
| `lazy_lost` | 1 thread, 2 fields | few | a disagreement (section 5) |
| `pool` | 3 files, every small database: imports with cycles, missing, invalid and clashing files, false answers, public and lazy imports, foreign types and extendees | 863 k | tables are those of the finished files, failed files leave nothing, each file is built by one builder at a time, answers are right and do not depend on history, every call answers |
| `builders` | proto2, 3 levels, 3 builders, 2 field builders | 37 k | cached messages are up to date; the builders implement `MessageTree` |
| `builders_clear` | the same in proto3 | few | a disagreement (section 5) |

`PROJECT.json` names, for every property, a change of the model, as a plausible
bug would make it, under which TLC finds the property violated (the operators
marked "Mutant" in the modules).

Three refinements are checked as properties, and all are proved as well: `MapField`
and `JavaMapField` implement `SharedMap` with `content[f]` the representation that
counts, `pending` the calls; only the step in which a call takes effect (`Act`;
`Read`, `Mutate`, `PutAll`, `Build`) changes the abstract map, and converting it is
a stutter. `NestedBuilders` implements `MessageTree` with a builder's children taken
from the field builders (`Node`).

### Bounds

* Two threads are enough for a race of two accesses, which is what the code's
  checks, locks and compare-and-swaps are about; the theorems are for any number.
* Arena: blocks start at three words, so that an allocation or two fill the first
  one, the next needs a new one and a cleanup list moves. `MaxLifecycle` bounds
  constructions and resets, `MaxRegistered` the cleanups
  of a thread between two resets. In `arena_live` a thread's first chunk has one element
  and the next has two, so that the second cleanup finds a full chunk and the third one
  that has room; in `arena_threads` chunks have two from the start. When
  the bounds are used up the model may stop, so deadlock is not checked there;
  `EveryCallReturns` says that no call is stuck.
* Map fields: `MaxEntries` bounds the entries that `Append` makes; one key with two
  values is enough to tell a stale representation from a current one, and
  `map_dynamic` has two keys so that lists have an order and duplicates. Calls are
  unbounded, so the model never stops, and deadlock is checked.
  In `java_map` an object that nobody refers to is used again, so the number of
  objects bounds only those in use.
* Lazy fields: `MaxPieces` is 2, so that every way to combine two non-empty
  fields occurs. Setters are unbounded: fields are cleared and set for ever.
* Descriptor pool: with three files there are chains, diamonds (two files that
  import the third) and cycles of imports; a fault is in one file, so that what
  else fails, fails because of it.
* Builders: three levels are a builder with a parent and a child, which is the
  first in which a notice passes through a builder that is not at an end.
* Symmetry is used for threads, blocks, fields, map fields and objects, in runs
  without liveness only.

### Fairness

Liveness assumes that every thread inside a call is scheduled: weak fairness of
each thread's next step. Nobody has to begin a call. Where a mutex is released
and taken again for ever by others (`MapField`'s `Lock` and `Measure`, the registry's
`FindType` and `Lock`) the step that takes it has strong fairness: the mutexes of
the platforms let no thread wait for ever while they become free again and again.
The arena needs no more than weak fairness, since a thread waits there at most for calls
that started before it: pushes are bounded by the heap blocks. `Spin` and the list
walks are ordinary steps. In the pool there is one call at a time, and weak fairness of
its steps.


## 5. Disagreements

Two runs show the code doing other than its comments say:

* `lazy_lost` (`NothingLost`): `merge` takes "both have `delayedBytes`" for "both are not
  parsed" (`LazyFieldLite.java:265-272`), but `delayedBytes` stay set after parsing.
  If the field was parsed before, what is merged into it is not in its value, nor
  in its memoized bytes.
* `builders_clear` (`CacheIsContent`): in proto3 the generated `clearField` sets the field
  and its field builder to null without `onChanged()` (`java_message_field.cc:362-367`).
  A parent that has been built before keeps its cached message and goes on answering
  with the field. In proto2 the same method tells the parent, and `builders` shows that
  there every cache is up to date.

Others were met while modelling and have no run of their own; the models take the
code as it is or leave the case out, as said in section 3:

* `LazyFieldLite.merge` (`:280`): when the field holds bytes and the other a value, the
  field's bytes are merged into the other's value, so the order of merging is
  reversed. `getSerializedSize` (`:424`) of bytes that do not parse changes from their
  size to 0 when the value is read, although the comment says that the size of
  delayed bytes must be returned. `set` (`:205-207`) copies `value` and then
  `memoizedBytes`: if another thread parses the copied field in between, the copy has
  memoized bytes without the value, which a further `merge` does not reset. `merge` and
  `mergeFrom` from a stream concatenate delayed bytes (`:272`, `:316`): if one of the two
  byte strings does not parse, the other is lost with it, whereas a value survives a merge
  of such bytes (`:336`). `ValueIsContent` covers the second and takes the first as the
  code has it: `Effective` of a content is what one parse of all of it finds.
* `MapField::ContainsMapKey` (`map_field_inl.h:202`) looks into the map without
  synchronising it, while `message.h:966` says that it "Returns true if key is in
  map"; that of `DynamicMapField` synchronises.
* Deterministic serialisation of a `const` message goes through
  `InsertOrLookupMapValue` and marks its map fields as changed (`wire_format.cc:996`),
  while the comment above (`:985-988`) is concerned to avoid just that. Two threads
  that serialise one message so write to its state.
* The descriptor of an unknown enum value is allocated in the generated pool's tables
  under a lock of its own (`descriptor.cc:1007-1016`), not under the pool's.
* `mergeField` of a message field in a oneof merges into the field builder and then
  sets it to the merged value alone (`java_message_field.cc:655-658`).
* `GetPrototype` reads `file_map_` without the lock (`message.cc:342`); a library that is
  loaded later writes it.


## 6. What is proved

TLAPS checks these for every value of the constants: any number of threads,
once objects, files, arenas, blocks, map fields, lazy fields, keys and calls, any
databases, any sizes and bounds.

| theorem | states |
|---|---|
| `MessageRegistryProofs!TypeCorrect` | `Spec => []TypeOK` |
| `MessageRegistryProofs!InitOnce` | `Spec => []AtMostOnce`: no closure is started twice |
| `MessageRegistryProofs!DependenciesInitialized` | `Spec => []DependenciesFirst`: an object is `DONE` after those its closure calls |
| `MessageRegistryProofs!ReturnMeansInitialized` | `Spec => ReturnsInitialized`: a call returns only after the closure is over |
| `MessageRegistryProofs!UsesOnce` | `RegistrySpec => Spec`: the registry is a use of once objects, so what is proved of `Spec` holds in it |
| `MessageRegistryProofs!RegisteredOnce` | `RegistrySpec => []NoTypeTwice` |
| `MessageRegistryProofs!AnswersReady` | `RegistrySpec => PrototypeReady`: who gets a prototype gets one with its descriptors |
| `ArenaProofs!TypeCorrect` | `Spec => []TypeOK` |
| `ArenaProofs!Exclusive` | `Spec => []ExclusiveBlock`: only the owner works on a block, in its arena |
| `ArenaProofs!CachesValid` | `Spec => []CacheValid`: no matching cache and no hint is stale |
| `ArenaProofs!Fits` | `Spec => []AllocationFits`: no allocation passes the end of its block |
| `ArenaProofs!NothingLost` | `Spec => []NoBlockLost`: every block is in the list, about to be, or freed |
| `ArenaProofs!SpaceCounted` | `Spec => []SpaceIsSum`: the space counter is the sum of the listed blocks |
| `ArenaProofs!UsedInRange` | `Spec => SpaceUsedInRange`: `SpaceUsed` is off by no more than what others allocate meanwhile |
| `ArenaProofs!EveryCleanupRuns` | `Spec => []CleanupsKept`: every cleanup runs once, a thread's last one first |
| `MapFieldProofs!TypeCorrect` | `Spec => []TypeOK`, with the mutex held by who synchronises |
| `MapFieldProofs!CleanSame` | `Spec => []CleanIsSame`: `CLEAN` fields are the same in both forms |
| `MapFieldProofs!SeeContent` | `Spec => []CallsSeeContent`: a call finds what the users gave the field |
| `MapFieldProofs!NoConflicts` | `Spec => []NoConflict`: const calls do not disturb each other |
| `MapFieldProofs!Implementation` | `Spec => Map!Spec`: `MapField` implements `SharedMap` |
| `JavaMapFieldProofs!WritersAlone` | `Spec => []CopyOnWrite`: a builder writes only into a `MapField` that nobody else refers to or is looking at |
| `JavaMapFieldProofs!GettersRight` | `Spec => []GettersSeeContent`: a getter returns what the field is |
| `JavaMapFieldProofs!JavaImplementation` | `Spec => Map!Spec`: `JavaMapField` implements `SharedMap` |
| `LazyFieldProofs!TypeCorrect` | `Spec => []TypeOK` |
| `LazyFieldProofs!ParseOnce` | `Spec => []ParsedOnce`: a field is parsed once |
| `LazyFieldProofs!RegistryStays` | `Spec => []RegistryKept`: bytes have a registry to be parsed with |
| `LazyFieldProofs!BytesKept` | `Spec => []DelayedIsContent`: the bytes are what was put in, in order |
| `LazyFieldProofs!ValueRight` | `Spec => []ValueIsContent`: so is the value |
| `LazyFieldProofs!EmptyRight` | `Spec => []EmptyIsContent`: a field that holds nothing was given nothing |
| `LazyFieldProofs!AnswersStable` | `Spec => []BytesStable`: getters answer alike until the field is changed |
| `DescriptorPoolProofs!TypeCorrect` | `Spec => []TypeOK` |
| `DescriptorPoolProofs!Consistent` | `Spec => []TablesConsistent`: the tables hold all of every finished file and nothing of a file that is gone |
| `DescriptorPoolProofs!NothingLeft` | `Spec => []NothingLeftBehind`: a call leaves no checkpoint and takes back nothing given out |
| `DescriptorPoolProofs!OnceAtATime` | `Spec => []BuiltOnceAtATime`: no file is being built twice at a time |
| `NestedBuildersProofs!CachesRight` | `FieldPresence => (Spec => []CacheIsContent)`: in proto2 no cached message is stale |
| `NestedBuildersProofs!Implementation` | `FieldPresence => (Spec => Implements)`: in proto2 `NestedBuilders` implements `MessageTree` |
| `DescriptorPoolProofs!AnswersRight` | `Spec => []AnswerIsRight`: a well-kept pool answers what its database determines |

They rest on the assumptions the modules declare: closures call once objects
(`CallsAssumption` of `OnceInit`); a file has once objects, its `AddDescriptors` calls
`generated_factory()` as the generated code does, and no type is of two files
(`FilesAssumption`); the user's initial blocks are distinct and not heap blocks, and
hold a header, sizes are natural numbers, the header and the cleanup chunks at least
one, and there are finitely many addresses (`ArenaAssumption`); there are finitely many keys, a repeated field may have as
many entries as there are keys, and calls have the arguments of their operations
(`MapOpsAssumption`, `MapFieldAssumption`, `JavaMapFieldAssumption`, `CallsAssumption` of
`MapField` and of `JavaMapField`); the pieces of lazy fields are no marks
(`PiecesAssumption`); what a database may be, and what it must be for a pool that
builds imports lazily (`DatabasesAssumption`, `LazyAssumption`). Section 3 says what in the
code justifies them, and TLC evaluates them in every run.

The arguments:

* `OnceInit`. The invariant ties the word to the stacks: an object is `EXECUTING_CLOSURE`
  exactly while one frame of one thread is inside its closure, and `DONE` only when
  `initialized` is 1. `AtMostOnce` alone is not inductive: that the thread that publishes is the
  only one in the closure is what makes it so. For `DependenciesFirst` the invariant goes down
  the stacks: what a frame has called is initialised, but for the call that the frame above it
  is in (`CalledIsInitialized`), and who publishes has made all calls (`PublishesAll`).
* `MessageRegistry`. `RegistryInv` adds to the invariant of `OnceInit`: a file whose
  `AddDescriptors` is past its third call, or done, is in `file_map` (`FilesEntered`), so that
  the look without the lock finds it; a file's types are registered together (`FilesWhole`);
  registered types have descriptors (`TypesAssigned`); and a thread that registers holds the
  mutex, has seen that the type is missing, and is in or past the closure that assigns
  (`LookupOK`).
* `Arena`. `ExclusiveBlock` speaks of the block a call works on; to keep it, the places a block
  is found in must be right: caches and hints (`CacheValid`), the list (`Headed`, and `Ordered`:
  `depth` falls along `next`, so the list has no cycle and stays in one arena), the user's block
  last in its arena's list (`InitialBlocks`), and ids that are never reused (`Lifecycles`),
  which is why a reset makes every cache mismatch. `ReleasedAlone` is the contract, that a call
  that releases blocks is alone on its arena: without it a block could be freed under the thread
  that allocates from it. `CallOK` is what each call relies on at each step, and `PositionsFit`
  bounds a block's position. For `NoBlockLost` the list is the smallest set that has its first
  block and is closed under `next` (`BlocksFrom`). Since `depth` falls by one along `next`, no
  two blocks of an arena have one depth, and every depth down to one is taken, it is the set of
  the blocks below the first (`Below`): had a set that is closed under `next` missed one of
  these, its least deep block above that one (`LeastDeep`) would have a next one that is still
  above. A pushed block goes one above the list, and it comes from the heap, so that the user's
  block stays last (`PushedFromHeap`); in a release the list that is left shrinks from its head
  (`FreeProgress`).
* The space of an `Arena`. `SumOver` adds up a function over a finite set in the order in which
  `CHOOSE` picks the elements, so the first lemmas show that the order does not matter: a set of
  addresses has a number of elements, and among the sets with an element that may not be
  taken out first a smallest one leads to a contradiction. For `SpaceIsSum`, each step
  either leaves the list of an arena as it is, or pushes the block of its call (`ListStep`,
  `PushedListed`) and adds its size, or starts the arena anew. For
  `SpaceUsedInRange`, `Summed` compares the total of a walk with what is in use in the blocks it
  has left behind: no less than when the call began, no more than now. It is kept because what
  is in use in a block only grows while the arena is not released, and because the block of
  a push not yet published is empty (`PendingEmpty`), so that a block pushed in front of
  the walk was worth nothing when the walk began.
* The cleanups of an `Arena`. A thread registers cleanups at its first block in the list, whichever
  of its cache, the hint and the walk leads it there: `TopsKnown` and `TopInCall` say so of what a
  thread has in its hands at each step of a call, and need that only `CacheBlock` changes the hint
  of an arena in use (`CacheEffect`). A new first block takes over the list of the one before it
  (`StealsKeep`), so the thread's nodes along its blocks, the least deep last, count down
  (`NodesKept`): a block has its owner's nodes only (`OwnNodes`), every registered one is in a block
  that remains or has run (`AllNodes`), they fall within a block (`BlockOrder`), from block to
  block (`ListOrder`), among those that ran (`RanOrder`), and from those to the ones that remain
  (`RanFirst`). Between a push and the `CacheBlock` that moves the list, the new first block is
  empty and the nodes are all in the full one; the invariant has to hold there, too, as
  other calls of `SpaceUsed` and `Allocate` pass by.
* `MapField`. `MapOpsProofs` has the facts about maps and lists of entries: what an entry that
  is appended, replaced or removed does to the map a list stands for. `IInv` is the types,
  `CleanIsSame`, that a call that changes a field has it for itself (`Separate`, from
  `MayCall`), and for each thread what its call relies on (`CallOK`): its view, and that every
  field it has synchronised is still up to date (`TodoOK`). That a field stays up to date while
  others work on it is the heart of the proof: the only step of another thread that may reach it
  is a synchronisation under the mutex, which turns a state into `CLEAN`, and `CLEAN` is stale
  for nobody (`Frame`, `OthersKeep`). Two threads that convert one field exclude each other by
  its mutex; one that reads a representation while another converts the other way round cannot
  exist, since what is being converted is stale and what is being read is not (`NoConflicts`).
  For the refinement, `SyncStep` shows that converting leaves `Content` as it is, and
  `ActEffect` that a call does to `Content` what `SharedMap` says, operation by operation.
* `JavaMapField`. The same with objects that are shared. `IInv` says of each `MapField` by
  itself that its mode tells the truth (`RecordOK`): what the mode claims to be there is there,
  and with `BOTH` it is one map; this holds at every point of a conversion, because the mode is
  written last. `Owned` says that a `MapField` that may be changed is referred to by one builder
  and by nobody else, which is why no change is seen by a message, and `Separate` that a builder
  is in one call. `CallOK` follows a call from place to place: the object it converts is that of
  its field, or of the message it merges from, and from the second check to the store of the
  mode it holds the monitor and the object is still stale. A step of one thread changes for the
  others only objects nobody refers to, an object of a builder that they do not use, or the form
  of an object that nobody reads (`Frame`). `WritersAlone` draws the conclusion: who writes has
  a mutable object of its own (`PlaceOK`), which by `Owned` and `Separate` is in no other call's
  hands. Messages and the builder that built them do share objects, but immutable ones.
* `LazyField`. `IInv` is the types, for each field what its variables mean (`FieldOK`), and for
  each thread what its call relies on (`CallOK`). The bytes are the content, or else the content
  parses (`DelayedOK`); the value has the pieces of the content that parse (`ValueOK`); and
  every answer that was given, and what is memoized to be given next, is the one `Answer` that
  the delayed bytes, or else the value, determine (`BytesOK`). That last is needed because
  `BytesStable` alone does not say what the next getter answers. `Alone` is the contract of
  setters; `ParseOK` that who parses holds the monitor and that the value is still missing;
  `MergeOK` and `CopyOK` what a setter knows of the other field between its reads: that field
  may be parsed and memoized meanwhile, but its content and its `Answer` stay.
* `DescriptorPool`. `IInv` is `Typed`, `StackOK`, `CallOK`, `TablesOK` and `LazyOK`. `StackOK`
  ties the stack of builders to `pending_files_`: the pending files are those of the builders
  that load imports, in their order, so that a file that leads back to itself is found pending
  and `Once` holds. `FilesOK` ties the stack to the checkpoints: the files that are in the
  tables and not finished are those of the builders past `Add`, and each made the checkpoint at
  its place in the stack. `RecordsOK` says that for each checkpoint what was recorded since it
  is exactly what the files since it have in the tables, so that a rollback leaves no entry
  without its file. None of this shows that what a rollback takes back is not used by what
  stays. That is `ClosedOK`: the table of files as it is, *and as each rollback that may still
  come would leave it*, is closed under imports (of files without an error so far) and linked
  types. The inner build of an outer one that fails later is taken back with it, and nothing
  before the outer checkpoint can refer to either. `NothingLeftBehind` follows since `given` has
  no file that was added since a checkpoint. `LazyOK` is for pools that build imports lazily,
  where an error would leave a field for which `message_type()` finds nothing: there no builder
  has an error, and what it looks for is there when the nested build returns.
* Its answers: `AnswersOK` is what they need on top of `IInv`, for well-kept databases. One half
  is that what is in the tables can be built: that a file is added after its imports
  (`FindsErrors`) gives it for the table as it is and as each rollback that may still come would
  leave it, provided it holds of the files that are still being built (`Grounded`). The other
  half is that what can be built is not missed. A file is remembered as bad only if it cannot be
  built (`BadRight`), which has to be shown for a file that fails because it is pending: it is
  pending below itself, and a builder whose file can be built waits only for an import that can
  be, too (`WaitsIn`); files that wait for each other in a circle are therefore not in the
  smallest set, as a set without them is closed as well. So a builder whose file can be built
  has no error when it finishes (`FindsNoError`). What a call has looked for is then in the
  tables for good (`Safe`), or is the file of the outermost builder (`Answering`); a nested
  build of it may have been rolled back on the way, which is why `Safe` asks that no checkpoint
  is older than the file.

* `NestedBuilders`. That a cached message is what its builder holds depends on who will be told
  of the next change. `Linked` is the tree: a builder and its field builder, a field builder and
  its builder refer to each other, and levels grow downwards. `Flagged` is what makes
  `isClean` sufficient: a builder that is to tell its parent (`Owes`) has a field builder that
  is to tell it, and below a cached message the builder owes, so from any builder below a cached
  message there is a way of flags up to it. The third part is a content of the builders
  (`CachedBut`): a function that gives each what it holds in terms of the one below, which
  exists and is unique since levels are finite (`ContentExists`, by the greatest level that
  is still wrong), and with which the caches agree. A change puts one builder out of
  agreement (`Almost`); `onChanged` only clears flags and caches, and keeps this
  (`Propagated`: whatever set of builders is told, if it is closed under who is told by
  whom); then the builder that changed owes nothing, and contents may be chosen anew for
  everything above it without touching a cache (`Settled`). A build adds caches and flags, all
  below it (`BuildPartialOK`). The theorem needs `FieldPresence`: in proto3 it is false
  (`builders_clear`, section 5), as `clearField` drops a field builder without telling.
* The refinement of `MessageTree`. The invariant above is enough but for one fact: a field that
  is not set holds nothing, be it in its builder or in its field builder (`Unset`); it is what
  makes the message that `getField` returns the one that `build` would. What a call does to
  the tree does not depend on caches and flags, so two heaps that differ in these only
  (`Alike`: before and after an `onChanged`, a build, a call of `getMessage`) stand for one
  tree (`AlikeNodes`), and a call that changes one builder and what is in its field builder
  (`AlikeBut`) changes one node (`ChildIs`, `XNodes`). A new builder is a new node whose
  message was the child of the node above (`GetBuilderNodes`). What `mergeField` leaves, and
  what `MessageTree` allows it to leave, are functions on the levels of the message: that both
  exist is by the greatest number of levels for which they do, that the first is in the second
  by the greatest level at which it is not (`MergeStep`, `MergeFieldNodes`). The messages
  that are returned agree as the content of a builder, with which its caches agree, is
  what the tree below it says (`ValueIs`).

TLC checks the invariants on the instances above too, and finds that the inductive
invariants of `JavaMapField`, `LazyField` and `DescriptorPool` hold on them.

Only model-checked: liveness, which is about fairness and `ENABLED`, out of the prover's
reach.


## 7. What is not modelled

* The components marked so in the inventory, with their reasons in `PROJECT.json`. Most of
  the repository is generated code, code generators, conversions and runtimes of other
  languages, which have no state that outlives a call; so the modelled lines are a
  small share of all lines.
* Weak memory, and what a compiler may do with racing plain accesses.
* Descriptor pool: underlays, placeholders, weak imports, options; allocation of
  unknown enum values.
* Nested builders: `RepeatedFieldBuilderV3` and fields of oneofs.
* Map fields: arenas, and `Swap` between arenas.
* Running out of lifecycle ids (2^63 of them); exceptions other than the parser's and
  `bad_alloc`; the contents of messages beyond what was merged into what.
