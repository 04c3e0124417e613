# A verification project for tair-contest

The repository holds several entries to a contest for a key-value store on
persistent memory (AEP): each `src/nvm_engine*` directory is one engine behind
the interface of `src/include/db.hpp`, that is `CreateOrOpen`, `Get`, `Set` and
the destructor. `src/README.md` states what an engine has to do: 16 threads
call it (line 7), values have 80 to 1024 bytes (line 15), and after every
interface call the data must be intact and recoverable, even when the power
fails (line 14). `src/judge-persistence` tests the last point by undoing stores
that were not persisted.

This directory models all six engines of the repository and its two examples,
`nvm_engine_latest` in the most detail, with the parts they are built
from: the skip list, the arena, the sorted index, the hash functions; and the
persistence judge itself. Eight modules hold machine-checked proofs.

## 1. The system

### 1.1 Components

| component | state | operations | modelled in |
|---|---|---|---|
| interface (`include/db.hpp`) | the store a client sees | `CreateOrOpen`, `Get`, `Set` | `KVStore`, `PhasedStore` (abstract) |
| latest: record format (`posix_file_aep.{h,cpp}`) | the bytes of an item | `CreateKV_Data`, `SetKV_Data`, `ReadKV_Data`, `ReadKV_KVs`, size and chunk id arithmetic | `AepRecord` |
| latest: shard (`posix_file_aep.cpp`, `NvmEngine.cpp`) | 4 GB of the mapped file; free lists, end of file, counter, index in DRAM | `AppendKV_Data`, `UpdateKV_Data`, `RecycleKV_Data`, `IndexCallback` | `AepShard` |
| latest: free lists under threads (`posix_file_aep.cpp`, `spinlock.h`) | a stack and a spinlock per chunk id, the end of the file with a spinlock | taking and giving back an item | `FreeSpace` |
| latest: index (`hash.h`) | `index_offsets`, `key_offset_s`, `key_offset_s_end` | `get`, `put`, `update` | `MyHashMap` |
| latest: hot-key pool (`hotkeyhash.h`) | one entry (key, size, bytes) per hash position | `getKV`, `setKV`, and how `Set` and `Get` use them | `HotKeyPool` |
| latest: whole engine with threads (`NvmEngine.cpp`) | a shard, its index and lists | `Set` and `Get` interleaved, kill, recovery | `LatestEngine` |
| `nvm_engine` | as the latest, with a one-byte update count per record and FIFO free queues | `Set`, `Get`, recovery | `FirstEngine` |
| `nvm_engine_patentair` | data and index files, their ends, skip lists | `Set`, `Get`, `AppendData`, `AppendIndex`, `Recover`, `Insert` | `PatentairEngine` |
| `nvm_engine_paten` | the same on ordinary files opened with `O_APPEND` | `AppendData`, `AppendIndex` with `pwrite` | `PatenEngine` |
| skip list of the two (`skiplist.h`) | nodes, `max_height_`, a lock | `Insert`, `Get`, `Iterator` | `SkipList` |
| arena of the two (`arena.{h,cpp}`) | blocks, the rest of the current one | `Allocate`, `AllocateAligned`, the destructor | `Arena` |
| `nvm_engine_p7` | value log, key log, block buffer, sorted index, cache | `Set`, `Get`, opening, closing | `P7Engine`, `SortLog` |
| `nvm_engine_peipei` | buckets with a mapped write buffer and data files | `Write`, `Read`, `LoadIndex` | `PeipeiEngine` |
| `nvm_example` | a log of slices, a map | `Append`, `Get`, recovery | `ExampleEngine` |
| `yet_another_nvm_example` | a slot table with mutexes for stripes | `Get`, `Set` | `BucketTable` |
| `judge-persistence/MyPinTool` | the log of unpersisted words and their states | `record_*`, `make_test` | `PmemTracer`; `AepShard!PowerLoss` |
| `test/auto_alloc` | a chain of blocks, a chain of destructors | `Alloc`, `Clear` | `AutoAlloc` |
| `algorithm` | the state of a streamed hash | `XXH32`, `XXH64`, `MurmurHash3` | `XXHash`, `MurmurHash3` |
| `judge`, `test`, `test_pei` | none of their own | callers of the engines | as the environment |
| `util`, copies of `xxhash.cpp` | none that is used | | not modelled |

`keyhash.h` (`KeyMap`) is used by no code.

### 1.2 How they interact

`NvmEngine::Set` first updates the hot-key pool, if the pool holds the key. Then
it looks the key up in the index of the key's shard. If the key is new,
`AppendKV_Data` takes an item and writes the record and `put` adds the key to
the index; if not, `UpdateKV_Data` does the same and recycles the old item, and
`update` overwrites the offset in the index. `Get` asks the pool, then index
and file, and fills the pool. All of this is called by 16 threads with no lock
around it; the only locks are the spinlocks inside the free lists and around
the end of the file. On opening, one thread per shard runs `IndexCallback`, which
walks over the items of the shard from offset 0 and rebuilds index, free
lists, end and counter. Nothing of these is kept in the file: the records say
everything. The shards share nothing but the file mapping.

The other engines differ in what they lock and in what they keep.
`nvm_engine` is the same design with fewer precautions. `patentair` and `paten`
append a value to a data file and an Index to an index file, chosen by a cursor
all threads raise, then insert the Index into a skip list whose writers lock and
whose readers do not. `p7` and `peipei` are written in one run of the program and
read in the next: both collect values in a block, copy full blocks to a file,
and build what `Get` searches only when they are opened. `nvm_example` holds one
mutex for everything; `yet_another_nvm_example` has a mutex per stripe of its table
and hands a search over from one to the next. The makefile links one engine
(`TARGET_ENGINE`) to a judge.

### 1.3 What is hard here, and what makes each component correct

* **Record and shard.** A record is written by several stores and one
  `pmem_persist` at its end. A process may stop between any two stores, also in
  recovery. A reused item still carries its former record; the counts at both
  its ends decide whether a record is complete, and the count of a complete one
  whether it is the latest. Correct means: no byte is lost or given twice over
  any sequence of Sets, crashes and recoveries; recovery steps from item to
  item and ends; the index is what the records say; live data is never
  overwritten; and a client sees a durable store.
* **Free lists.** Sizes are looked at without the lock. Correct means: never
  `top()` of an empty stack, a bound on the list, one thread in a list, one owner of
  an item.
* **Index.** Unlocked, and published before it is filled. Correct means: one
  entry per key, what `put` and `update` stored is found, no key is forgotten,
  `get` answers with an offset the key had, searches end.
* **Hot-key pool.** A copy of the data beside the data, filled by `Get`s and
  changed by `Set`s, keys sharing entries. Correct means: an entry in use
  agrees with the shard, and the engine with the pool answers as one without.

* **Append-only engines.** Three `fetch_add`s and two files per Set, and the end
  that is persisted apart. Correct means: records never overlap, an entry leads
  to its key's value, a restart finds every key.
* **Skip list.** Correct means: whatever links an Insert has made, each level is
  sorted and part of the one below, and a search that started after an Insert
  returned finds its key.
* **Engines of two phases** (`p7`, `peipei`). Correct means: what was written is
  found after the next opening, for every fill of the block at which the run ends.
* **Table with stripes.** Correct means: a call acts at one instant though it never
  holds two mutexes.
* **The judge.** Correct means: what it undoes is what a power failure could undo,
  no more and no less; otherwise its verdict is worth nothing.

`PROJECT.json` lists every such hazard with its line and the properties that
would catch it. Those without a property say why.

## 2. The modules and the code

### `KVStore` - what a client is promised

The abstract specification: a function `store` from keys to answers. A `Set` is
three steps: `Begin`, `Apply` (the moment it takes effect) and `Return`, which is
possible only after `Apply`. `Crash` may let a `Set` in progress happen as a
whole or not at all, and must keep everything else. One client: `Get` is called
when no `Set` is in progress. `AepShard` and `HotKeyPool` are shown to implement
it, each with its own refinement mapping.

### `AepRecord` - the format

An item is a function from the names of its parts (`head`, the key in two
pieces, `vsize`, `chunk`, the value in two pieces, `tail`) to contents.
`CreateKV_Data` and `SetKV_Data` are the orders in which the two functions store
the parts; the second leaves the chunk id alone. Sizes and offsets are the
code's in bytes: 107 + value, rounded up to 32 (`calFreeSpaceIdx`,
`calSizeFromIdx`). `ReadKV_Data` believes `vsize`; `ReadKV_KVs` compares the counts.
`Words` groups the parts into the 8-byte words that memory keeps or loses as a
whole.

### `AepShard` - one shard, one client, crashes

`Set` is everything up to the first store (lookup, count, taking an item from a
free list or the end), `Store` one store of the record, `Persist` the
`pmem_persist`, `Return` the recycling of the old item and the index update.
`RecoverItem` is one iteration of `IndexCallback`'s loop with its four outcomes
(torn, new key, newer record, older record), `RecoverEnd` its end. `Kill` may come
at any time and leaves the file as it is; `PowerLoss` comes in the middle of a
`Set` and puts back any subset of the words stored since the last persist, as
`MyPinTool` does. `Restart` is the state of a new engine object.

The index is a function here (`MyHashMap` shows that it is one), and with one
thread the pool is transparent (`HotKeyPool` shows that).

### `FreeSpace` - the lists under threads

The loop of `AppendKV_Data` and `UpdateKV_Data` and the whole of
`RecycleKV_Data`, one action per step another thread can see: the unlocked look
at a list's size (`SeeSpare`, `SeeNone`, `SeeRoom`, `Drop`), `Lock`, `Pop`, `Unlock`,
`Extend`, `Write`, `RecycleLock`, `Push`, `RecycleUnlock`. An item is a pair of its
chunk id and a number. `Pop` of an empty stack is undefined in C++ and has no step
here; `NeverPopsEmpty` says that it does not come to it.

### `MyHashMap` - the index

One action per access to shared memory: a search compares the position, then
the entry's key, then reads the offset; `put` finds a free position
(`PutFree`), takes a number (`FetchAdd`), publishes it (`Publish`), and only then
fills key and offset (`PutKey`, `PutOffset`), rereading the position each time
as the code does (`Entries`). An unused entry holds bytes `0xFF`, which no
key has.

### `HotKeyPool` - the cache

`check` and `compare` are `get_k`; `size` and `bytes` are the string `getKV`
builds; `setkey`, `setsize`, `setbytes` are `setKV`, of which a `Set` uses the last
two. The shard behind is one step (`ReadStore`, `WriteStore`).

### `PatentairEngine` - the append-only engine

`Set` takes the pair of files the cursor points at; `Reserve`, `Write`, `LoadEnd`
and `StoreEnd` are `AppendData`, and then, with `kind` = "index", `AppendIndex`:
the `fetch_add`, the copy, and the read and the store of the end, each a step
that other threads can come between. `InsertNew` publishes a node of the skip
list; `InsertOld` and `Overwrite` are the two assignments by which `x->key = key`
changes a linked one. `Get`, `Copy` and `Answer` are a lookup, the rest of the
copy of the Index, and the read of the data file. `Crash` ends everything in
DRAM and reopens the files, `IndexCallback(f)` is one iteration of the recovery
thread of file f, and `Recovered` the join. Offsets count records. `store`,
`given` and `cut` are history: what the last Insert made current, what was ever
Set, and what a crash interrupted.

Every store is persisted before the next, and recovery reads nothing past a
persisted end; so a power failure in the middle of a store leaves what a
stop before the store leaves, and one kind of crash is enough here.

### `LatestEngine` - the whole of the latest engine

What the modules above leave to each other: the index entry, the free list, the
end of the file and the items, under several threads. `Set` is the lookup,
`Take` the item from list or end, `Write` the record, `Recycle` the old item, which
comes before `Index` moves the entry, as in the code. `Lookup` and `Read` are the
two halves of a `Get`. `Stop` kills the process, at any of these steps of each thread, or
while it recovers; `RecoverItem` is one round of `IndexCallback`'s loop, and `RecoverEnd` ends it
at an item that was taken and not yet written. The end of the file is the loop's
`pos` meanwhile. A record, a list and the index are steps or functions here,
because the modules above show that they may be.

### `FirstEngine` - `nvm_engine`

`Set` is the lookup, which compares keys in the file; `Write`, `Recycle` and `Index` its
other steps, with a `Stop` between any two; `RecoverItem` and `RecoverEnd` are the
loop of recovery. The count is `cnt % CntMod`, `CntMod` being 256, and recovery
compares it: the older of two records wins once it has wrapped. The free queues
are kept per chunk in the order of `std::queue`.

### `PatenEngine` - `nvm_engine_paten`

As `PatentairEngine`, without mapped files: `ReserveData` is the `fetch_add`,
`AppendData` and `AppendIndex` are the `pwrite`s. The files are opened with `O_APPEND`,
so that a record goes to the end whatever offset the call names. `Fail` is a
`pwrite` that returns an error: its reservation stays. `right` remembers whether a record went to the place reserved for it.

### `SkipList` and `Arena` - the tables of both

`Insert` is `Lock`, the search (`FindGreaterOrEqual`, one load of a link at a time),
`Raise` of the height, then `Overwrite` of an equal key, or `NewNode` and for each
level `SetNext` (the new node's link, relaxed) and `Publish` (the
predecessor's, with release). `prev` is filled by the search, as in the code;
levels above the old height start at the head. `Get` and `Iterator_Seek`,
`Iterator_SeekToFirst`, `Iterator_SeekToLast`, `Iterator_Next` and `Iterator_Prev`
follow links with no lock (`FindLessThan` and `FindLast` are the searches of the
last two). Loads and stores of links happen one at a time in one order for all threads;
the code's barriers ask for what this relies on.
`Arena` has the two ways to allocate and the fallback to blocks of their own;
addresses are a block and an offset.

### `PhasedStore` and `PeipeiEngine` - `nvm_engine_peipei`

`PhasedStore` is the second abstract specification: like `KVStore`, but a `Get`
answers from a snapshot that opening takes, as the phases of the judge require.
`PeipeiEngine` is a bucket: `PutValue`, `PutKey`, `CopyValues`, `CopyKeys`, `Count` are the
statements of `Bucket::Write` in their order, `OpenFiles`, `MapBuffers` and
`LoadIndex` those of opening, with `Kill` between any two. A database that is
opened again and fills a block writes to a file opened for reading: `ExitOnError`.

### `P7Engine` and `SortLog` - `nvm_engine_p7`

`SortLog` has `put`, the sort (insertion sort for short parts, quicksort with
`partition` for the others, as functions), the deduplication and `find`, with
the wrap of `key + 1` kept. `P7Engine` is one log: `Set` with the block that is
flushed when full and the move to an enlarged log; `Close`; `Open` in
one of the three kinds of passes the recovery threads make (`Kinds`): even and odd
passes differ in whether the log's end is set before or after deduplication, and
the first logs may have a cache, which ends with the slot (`Foreign` is what lies
behind). `damaged` is history: a Set after an opening
took the position of an earlier one.

### `ExampleEngine` and `BucketTable` - the examples

`ExampleEngine`: `PushKey` and `PushValue` store a slice each, piece by piece, `Count`
raises the number of Sets, `Index` is the map; recovery reads as many pairs as were
counted. `BucketTable`: one action per position of a search, and at the end of a
stripe `Advance` unlocks its mutex before it locks the next; a Set that
finds a free position takes an entry number, stores it (`Publish`) and fills
the entry (`Fill`) under the mutex it holds.

### `PmemTracer` - the persistence judge

`Write`, `Flush` and `Drain` are `record_write`, `record_flush` and `record_drain`,
`Final` and `MakeTest` what the tool does at the end. The interval map of
states is a function from words to states, and `write_log` keeps the old values of
a word. `history.survivors` is what hardware allows: the values a word can
have after a power failure, given the stores, flushes and drains so far. It is
written down independently of the tool and the property compares the two.

### `XXHash`, `MurmurHash3`, `AutoAlloc`

The hashes have their arithmetic uninterpreted: an accumulator is the sequence
of words mixed into it. What is left is the control: blocks, lanes, the buffer of
the streaming form, and the switch that mixes in the tail. `AutoAlloc`
allocates downwards from the end of its block, keeps a list of destructors in the memory
it hands out, and `Clear` runs them and frees the blocks one at a time.

### Composition for the checker

`Engines` holds the engines over common variables, `engine` being the makefile's
choice, and `Parts` the parts over common variables; each step belongs to the
one chosen. The constants of the engines that are proved about are constants of
`Engines`, the others have their values there. `MC*.tla` modules only give the constants their values. Definitions with
a name like `Write_AlwaysRecycle` are deliberate mistakes, used to see that each
property can fail: each stands before the definition it is a mistaken form of.

## 3. The runs

| run | checks | shows |
|---|---|---|
| `shard_kill` | `TypeOK EveryByteOwned NothingPastEnd CountsDecide RecoveryEnds ImplementsKVStore` | against a process that is killed anywhere, the shard is a durable store and its space stays consistent |
| `shard_power` | `IndexIsLatest` | against a power failure in a Set, the index that recovery builds is what the surviving records say, torn keys included |
| `shard_power_loss` | `CrashKeepsReturnedSets` | **violated**: see section 6 |
| `free_space` | `TypeOK NeverPopsEmpty ListsBounded LocksGuard OneOwner` | the unlocked size checks are safe with as many threads as the reserve allows |
| `hash_map` | `OneEntryPerKey SetTakesHold NothingForgotten GetIsCurrent CallsEnd` | the unlocked index is right for one writer beside a reader |
| `hash_map_writers` | `SetTakesHold` | **violated** with two writers |
| `hot_key_pool` | `TypeOK PoolAgrees GetIsCurrent ImplementsKVStore` | with one thread the pool changes no answer |
| `hot_key_pool_threads` | `GetIsCurrent` | **violated** with two threads |
| `patentair` | `AppendsOnly EntriesLeadToValues UndisturbedGetsAreCurrent RestartKeepsEveryKey RecoveryEnds` | concurrent appends never meet, the tables lead to the right values, and a restart loses no key |
| `patentair_restart` | `RestartKeepsTheLatest` | **violated** with one client: an older value of a key can come back |
| `engines` | `TypeOK FirstKeepsTheLatest FirstItemsOwnedOnce P7AnswersAreLatest PatenIndexesLeadToValues LatestUndisturbedGetsAreCurrent ExampleImplementsKVStore PeipeiImplementsPhasedStore` | what each of the other engines, and the latest one as a whole, keeps over any calls, stops and openings; two of them implement an abstract store |
| `parts` | `SkipListIsSearchable TableCallsAreAtomic AllocationsApart TracerUndoesWhatMayBeLost IndexFindsTheLast HashesTakeInTheInput` | the lock-free readers of the skip list, the hand-over of mutexes, the allocators, the judge, sorting, and streamed hashing |

### Bounds, and why they are enough

* `AepShard`: two keys; two value sizes with items of 128 and 160 bytes, so that
  an item of the larger chunk id is reused for a shorter record
  (`calFreeSpaceIdx` searches upwards) and the walk of recovery meets both
  sizes; room for three items (416 bytes = 128 + 128 + 160), which two live records and
  the one being written need; `MaxCnt` = 4 Sets that complete or are torn, with
  any number of crashes and recoveries between them. That is enough for an item
  to be given, recycled, reused and torn. `Reserve` is 0 in place of 15, so that reuse
  happens at once; the value matters to threads only, and `FreeSpace` keeps it.
  For power loss the two keys differ in both halves, so that a torn item can mix
  two keys, and items have one size.
* `PatentairEngine`: two pairs of files, two keys, two values. A workload is either
  one client with four Sets and two crashes, so that a second crash meets what was
  written after the first, or two clients with three Sets and no crash, so that a
  Set and the next but one share their files and a key is overwritten by
  another thread. Two clients and a crash together are left out of the passing
  run: there a hole or a lost entry is possible (`posix_file_aep.cpp` line 47).
* `FreeSpace`: three threads, reserve two: the tight case of "threads <=
  reserve + 1", as 16 and 15 in the code. `MaxFree` = 1 and five items let the list
  become full, hold three items because three threads saw room at once, and be
  emptied by three threads that all saw enough. There is one list: a search that moves on to
  another list changes nothing two threads can disagree about, and the theorems
  hold for any number of lists. The bound `MaxItems` stops every thread in
  `Extend` in the end; for that reason alone deadlock is not checked.
* `MyHashMap`: four positions and three entries, so that a free position is left
  as in the code (33554467 positions, 16777216 entries); two keys hash
  to the last position, so that one wraps around to the home position of the third.
* `HotKeyPool`: three keys, two on one position, values of two sizes, any
  content of the shards at the start. The run for threads needs one key.

* `Engines`, about 670000 states in all. `FirstEngine`: two keys with the same
  position, the last one, so that the second wraps around; values with items of two
  sizes and room for four items at most; `CntMod` = 4 in place of 256, so that the count does wrap within the run and
  the state behind it is reached. `P7Engine`: blocks of two pages and slots
  of four, so that five Sets flush, fill a slot and enlarge, at every alignment;
  the greatest key is one of those that can be asked for. `PeipeiEngine`: blocks
  of two values and of four keys, so that the values' block is copied twice
  before the keys' once, and six Sets go beyond both. `PatenEngine`: two files and four
  Sets, so that a file is used again; two threads, or one with failing writes. `LatestEngine`:
  five Sets, two threads and reserve one, again the tight case, and
  one kill with both threads in the middle of a Set. `ExampleEngine`: keys of one byte and
  values of one and two, so that a reused place has a remainder of a longer slice behind it.
* `Parts`, about 1.2 million states; nothing tells the two threads apart, and they are
  symmetric. `SkipList`: three keys, two levels and three Inserts, enough for an
  Insert before, between and behind others on either level while another thread
  searches in any direction. `BucketTable`: two stripes, one of a single position, so
  that a search crosses to the other stripe and wraps; a colliding pair of keys;
  more keys than positions. `Arena` and `AutoAlloc`: a size that shares a
  block and one that gets a block of its own, in `AutoAlloc` only with the node of its destructor. `PmemTracer`: three words, three stores, ranges of any
  length. `SortLog`: every log of up to six entries over four keys, with the
  threshold of insertion sort at two so that `partition` runs. `XXHash`: up to 70
  bytes in pieces around the block sizes of 16 and 32, twice the larger one and
  the longest tail.

Named bounds that cut real behaviour off: `FileSize` (the code never looks whether
the file is full; its 32-bit end would wrap), `MaxCnt` (a 32-bit count), `Slots`
(`put` never looks whether the entries are used up), `MaxItems`, and `MaxSets`,
`MaxInserts`, `MaxWrites`, `MaxInput`, `MaxStops`, `MaxBlocks`, `MaxLog` of the modules in `Engines` and `Parts`.

### Fairness

`AepShard!FairSpec` has weak fairness of `Recover` alone: `CreateOrOpen` starts one
thread per shard and joins it, so that recovery is run until it ends or the
machine stops. `RecoveryEnds` then assumes that crashes end some day.
`PatentairEngine!FairSpec` is the same for its recovery threads, one per index file;
its crashes are bounded by the workload.
`MyHashMap!FairSpec` has weak fairness of each thread's steps: they are preemptively
scheduled threads that wait for nobody. `Engines` and `Parts` state no fairness: their
properties are safety, the two refinements included. No client is assumed to call anything.

## 4. What is proved

`FreeSpaceProofs` proves for every set of threads, number of lists and items,
every reserve and every `MAX_FREE_SPACE_SIZE`:

| theorem | property | argument |
|---|---|---|
| `TypeCorrect` | `TypeOK` | inductive as it stands |
| `MutualExclusion` | `LocksGuard` | inductive with `TypeOK`: a thread enters `pop` or `push` by `Acquire` only, and leaves by releasing its own lock |
| `PopsFindAnItem` | `NeverPopsEmpty` | through `EnoughForTakers`: the threads that have seen enough and have not yet popped are no more than the items in the list |
| `ListsStayBounded` | `ListsBounded` | through `RoomForPushers`: the length plus the threads that have seen room stays below the bound |
| `ItemsHaveOneOwner` | `OneOwner` | with `Numbered` (every number in use is below `items`) and `IdleHoldsNoNew` |

`NeverPopsEmpty` and `ListsBounded` are not inductive: they speak of a thread that is
already inside a list, while the mistake would be made earlier, at the unlocked
check. The strengthened forms count the threads between the check and the
access. When a thread passes the check the list has more than `Reserve` items,
and at most `Reserve + 1` threads exist, so that all of them find one; a pop takes
one thread and one item away at once; a push only adds. `ReserveAssumption`
(`Cardinality(Threads) <= Reserve + 1`) is all that is needed of the numbers, and
it is tight: with a reserve one smaller (`HasSpare_OrMore`) TLC finds the pop of
an empty stack. `FreeSpaceAssumption` otherwise only gives the constants their
types and makes `Threads` finite. That two Sets of one key do not overlap is in
`BeginSet` (a Set takes its key's record out of `live`); the mutant
`BeginSet_SharedKey` shows that `OneOwner` fails without it.

`HotKeyPoolProofs` proves about `HotKeyPool`, for all keys, values, lengths and
hashes:

| theorem | property | for |
|---|---|---|
| `TypeCorrect` | `TypeOK` | any number of threads |
| `PoolStaysRight` | `PoolAgrees` | one thread |
| `GetsAreCurrent` | `GetIsCurrent` | one thread |
| `PoolIsTransparent` | `ImplementsKVStore` (the refinement of `KVStore`) | one thread |

`PoolAgrees` speaks of the moments between calls only. The inductive invariant
`PoolInv` says what holds in between: every entry but the one being changed
agrees with the shards (`OthersAgree`); a Get that hits reads an entry of its
key (`Reading`); a Get that fills an entry has the answer of the shards in hand,
and a Set that hit has put its own value into the entry before the shards have
it (`Filling`), so that the entry agrees again at the moment the shards take the
value. From it every step maps to a step of `KVStore` or to none: `WriteStore` is
`Apply`, the last step of a Get is `Get`, `Return` is `Return`. `OneThread` is the
hypothesis of the last three theorems; `hot_key_pool_threads` shows that they
are false without it. `HotKeyPoolAssumption` gives the constants their types
and keeps the special values apart from answers and calls.

`MyHashMapProofs` proves about `MyHashMap`, for any table, keys, hash function and
number of readers:

| theorem | property |
|---|---|
| `OneEntryPerKeyAlways` | `OneEntryPerKey` |
| `SetTakesHoldAlways` | `SetTakesHold` |
| `NothingForgottenAlways` | `NothingForgotten` |
| `GetIsCurrentAlways` | `GetIsCurrent` |

Their hypothesis is `OneWriter`: one thread Sets in this table at a time. The
lock that would see to that is commented out (`hash.h` lines 69 and 85), and
`hash_map_writers` shows that the theorems are false with two. Readers are
any number, at any step. The invariant `IndexInv` is about the positions between
the home of a key and its entry: all of them are taken (`Reached`), so that the
search of the key gets there; `Filled` says which numbers lead to complete
entries, `WriterInv` what the writer's search has established (where its key is,
or that it is nowhere and that the position at hand is free), and `ReaderInv`
that the positions a reader has passed do not hold its key, or did not when the read
began. The one entry that is published and not yet filled belongs to the
writer; its key `NoKey` equals no key a reader compares.

`PatentairEngineProofs` proves about `PatentairEngine`, for any number of
threads, files, keys and records:

| theorem | property |
|---|---|
| `AppendsOnlyAlways` | `AppendsOnly` |
| `EntriesLeadToValuesAlways` | `EntriesLeadToValues` |
| `UndisturbedGetsAreCurrentAlways` | `UndisturbedGetsAreCurrent` |
| `RestartKeepsEveryKeyAlways` | `RestartKeepsEveryKey` |

Their hypothesis is `CrashesAreSolo`: a workload with crashes has one client, the
same bound as in the run, for the same reason (`posix_file_aep.cpp` line 47).
`LogInv` says what a thread in the middle of its Set knows (`ThreadInv`), that no two
threads hold the same position of a file (`PairInv`), what an entry leads to
(`EntryInv`) and that there is room for the records to come. With one client, `SoloInv`
adds how far the persisted end is behind the one in memory, and that below it
every key that was ever current has an entry; through recovery, `RecoveryInv`
says the same of the part of the index files already replayed.

`AepShardProofs` proves about `AepShard`, for any file size, keys, values, chunk
ids and bounds:

| theorem | property | crashes |
|---|---|---|
| `TypeCorrect` | `TypeOK` | kill and power loss |
| `OneOwnerAtMostAlways` | no item has two owners, no two owned items overlap | kill and power loss |
| `EveryByteOwnedAlways` | `EveryByteOwned`, while the free lists have room | kill and power loss |
| `NothingPastEndAlways` | `NothingPastEnd` | kill |
| `CountsDecideAlways` | `CountsDecide` | kill |
| `IndexIsLatestAlways` | `IndexIsLatest` | kill |
| `ShardIsDurable` | `ImplementsKVStore` (the refinement of `KVStore`) | kill |
| `KillsKeepReturnedSets` | `CrashKeepsReturnedSets` | kill |

The crashes come between any two stores, and in recovery as well. There are two
inductive invariants. `ShardInv` is about space and holds under power loss too:

* `LayoutInv`: the items that recovery would walk over lie side by side from
  offset 0 to the end of the file. While a Set writes a new item at the end, they
  lie so up to that item; while recovery runs, up to an end which it does not know yet,
  but it stands at an item or at that end.
* `WriteInv`: the item being written has the parts the Set has stored and, for the others,
  what was persisted before, so that what a power loss leaves is a mixture of the two. A
  reused item keeps its chunk id and so exists throughout; a new one begins to
  exist in one of the stores.
* `OwnInv`: index and free lists hold items that were walked over, each in one place.

That no item is left out (`AllHeld`) is inductive while no list is full: `RecycleKV_Data`
drops an item when its list is full, by design. `EveryByteOwnedAlways` says so in
its hypothesis `[]RoomInLists`. The lists take 1 000 000 items
(`nvm_engine_latest/config.h` line 16) and a shard has room for more, so this is
a condition on the load and not on the constants.

`KillInv` is about counts: no two complete records have the same one (`Unique`), no
tail is above the counter, and each is at most that of a record in the index (`TailsRise`), so
that the counter recovery builds, from complete records only, is above every count
in the file, torn ones included; the index has the record of the highest count of its key among those
walked over (`IndexInv`). This is where the order of the parts in `SetKV_Data` matters: the
head is stored first and the tail last, hence of two records with one count at most
one is complete. `ShardIsDurable` maps each step to a step of `KVStore` or
none: the store of the tail is `Apply`, `Persist` none, the index update `Return`,
`Kill` is `Crash`, in which the Set happened if its last part was stored.

`OnlyKills` (`CrashKinds` is within `{"kill"}`) is the hypothesis of the last
five. `KillsKeepReturnedSets` and `ShardIsDurable` are false without it, as `shard_power_loss` shows.
`IndexIsLatest` is checked under power loss by `shard_power` with items of one size; it is
not proved there, because a new item whose counts are kept and whose size is not is
no item for recovery, but its tail may later stand for a complete record beside
another with the same count, if items of several sizes or dropped ones bring the end there.

`EnginesProofs` proves about `nvm_engine_latest` as a whole (`LatestEngine`, as one of the
engines of `Engines`), for any threads, keys and reserve, and any number of Sets and
kills:

| theorem | property |
|---|---|
| `LatestGetsAreCurrent` | `LatestUndisturbedGetsAreCurrent` |

The hazard is that an item is in the free list while the index leads to it still: a thread
that has recycled it has yet to move the index, and another may take it and write its own
record there. `LatestInv` says for which keys that cannot be (`Kept`: no Set of the key
has recycled). `OwnInv` says that an item is once in the list, or in one thread's
hands, or the record of one kept key. `ThreadInv` says what a Set knows of its
key and that a Get which no Set has disturbed still has the index's item. `OpenInv` says that
the records of a key being set have lower counts than the Set's, hence
that the record written last has the highest (`Top`); `RecoveryInv` says of a file
half walked over that the index has the latest record of the part
behind, so that at the end it has `Top`. `Room` says that the items in use are
no more than the Sets made: the model always has a place to extend the
file by, whatever threads there are, so the bound `MaxSets` cuts nothing but the
number of Sets. A kill that leaves an item without a record before one that has one is the
hypothesis in the property itself (`hole`): recovery stops there, and what is behind is lost.
`EnginesAssumption` gives the constants their types.

`PartsProofs` proves about four of the parts, for any threads, keys, heights, numbers, sizes and words:

| theorem | property | of |
|---|---|---|
| `TableCallsHappenAtOnce` | `TableCallsAreAtomic` | `BucketTable` |
| `AllocatorsHandOutOnce` | `AllocationsApart` | `Arena`, `AutoAlloc` |
| `TracerIsFair` | `TracerUndoesWhatMayBeLost` | `PmemTracer` |
| `SkipListStaysSearchable` | `SkipListIsSearchable` | `SkipList` |

* `TableInv`. A search that goes on to the next stripe holds no mutex for a moment, and
  another call may pass it. What saves it is that a position once taken stays taken, with
  the same key: all the positions a call has passed are taken by other keys (`CallInv`, `Passed`),
  so a key that gets an entry meanwhile gets it ahead of the call. `KeysInv` says that
  all positions between the home of a key and its entry are taken, that it has one entry, and that the entry has
  what the last Set stored; `FillInv` that a Set which has published an entry and not yet
  filled it is the only one to do so for its key; `EntriesInv` that every entry below `entry_cnt`
  is at one position. So a Get that comes to a free position may answer that the
  key is not there at that moment.
* `ArenaInv` is `RegionsApart` with what is left of the current block: it ends within
  the block, and no region of that block reaches into it. `SlopAligns` is the
  arithmetic of `AllocateAligned`.
* `AllocInv` says that the blocks in the chain and the freed ones are the allocated
  ones, each once (`Once`), and that the free part of the first block is below all its regions
  (`FrontFree`). `Alloc` puts a block either first or behind the first; that is all
  `SpanStep` assumes of it, and so one lemma (`SpanKeeps`) serves its three cases.
* `TracerInv` says, for each word, that the old values in the log with the present
  one are values which a power failure may leave, and all of them
  if the log was never cut short by a neighbour's flush; and that the words marked as flushed are those of the
  flush in progress.

* `ListInv`. A Get holds no lock, and the thread that holds it has a picture of the list, `prev`,
  which it filled one load at a time. `NodesInv` says where the links of each level lead and that a
  node has all the links of its height; `LevelsAgree`, part of the property, that a level is sorted;
  `StoredInv` that a key is on level 0 once an Insert of it has stored something, with the value
  it stored. `PlaceInv`, `GetInv` and `WalkInv` are what a thread without the lock may still
  rely on after any steps of the others: the node it stands at is linked on the level it
  is at, before the key it looks for, and where its search ends it has passed over no key
  of an Insert that had returned when it began. `InsertInv` is about the one thread with the lock:
  of each level it has searched it knows the last node before its key (`Precedes`), which stays
  true because nobody else links; its node is on the levels it has published and on no
  other (`LinkInv`), so that the levels agree at every step in between. The pure
  part is `Inserted`: a sorted chain into which a node is linked at its place is sorted.

`PartsAssumption` gives the constants their types. It keeps the special values out of the
keys, threads and values; `Sizes` has no 0, as `arena.h` line 56 asserts.

`EarlierEnginesProofs` proves about `nvm_engine_peipei`, for any keys, block sizes and
number of Sets, about `nvm_engine`, for any keys, values, hash function and file, about
`nvm_engine_paten`, for any threads, keys, files, workloads and number of Sets, and about
`nvm_example`, for any slices as keys and values and any size of the file:

| theorem | property |
|---|---|
| `PeipeiIsPhased` | `PeipeiImplementsPhasedStore` (the refinement of `PhasedStore`) |
| `FirstKeepsTheLatestAlways` | `FirstKeepsTheLatest` |
| `FirstItemsStayOwned` | `FirstItemsOwnedOnce` |
| `PatenIndexesLeadToValuesAlways` | `PatenIndexesLeadToValues` |
| `ExampleIsKVStore` | `ExampleImplementsKVStore` (the refinement of `KVStore`) |

In `nvm_engine_peipei` the hazard is the moment a full block is left behind. Up to the store of the count, an
entry of it is read from the block in the mapped file, and after that from the data
file. `WriteInv` says what a Set has stored of its entry, and that between `CopyValues`
(or `CopyKeys`) and `Count` the file has what the block has; `OpeningInv` that a database
whose mapped file is new has no entries, so that clearing the blocks loses none. `Entry`
reads an entry of a block or of its file, and three lemmas say what a Set does to it: a
store in the next place changes no earlier entry (`BlockPut`), nor does the copy
(`BlockCopy`), and raising the count moves the entries of the block to their copies
(`BlockNext`). They rest on the arithmetic of whole blocks (`BlockEnds`, `SameBlock`).
`Count` is `Apply`: the entry it adds is the last one of its key (`Greatest`: a bounded set
of numbers has a greatest member). Keys and values are in blocks of their own sizes;
nothing is assumed of the two, though in the code one divides the other. `PeipeiAssumption`
has their types.

In `nvm_engine` a kill can come between any two steps of a Set, and an item that is reused
keeps its chunk; recovery has nothing but the items, one behind the other, and their
one-byte counts. Neither property is inductive; `FirstInv` adds what holds in between:

* `LayoutInv`: the items lie `SideBySide` from 0 to the end, by the sizes of their
  chunks, so recovery comes to every item and to nothing else. A Set that has reserved
  room behind the end and not written yet is killed without a trace.
* `FirstOwnInv`: an item that recovery has come by (`Known`; all of them, when there is
  none) is in the index, in the queue of its chunk, or is a Set's new one. Only the item a
  Set replaces is in both, between `Recycle` and `Index`: with one client nothing takes it there.
  `Popped` and `Pushed` say what a queue keeps.
* `FirstIndexInv`: a key has one entry, and all the positions a search passes before it
  (`Before`) are used, so that `get` ends at the entry (`GetFinds`) or, without one, at a free
  position (`GetMisses`), where `put` ends too. There is a free one as long as a key has no entry
  (`SomeRoom`): the keys are no more than the positions. That assumption is the code's, whose
  searches would never end.
* `FirstLatestInv`: until the count of a key wraps, its last record has the greatest
  count, alone (`Leads`), and the index leads to the greatest one that is known. The greatest count may
  belong to an item which a killed Set had written and not indexed; recovery
  finds it. `FirstCovered` says that the key of every known item has an entry, or gets one
  by the end of the Set; `FirstSetInv` what a Set knows of its two items.

`FirstInv` was checked on the run's instance before it was proved. `FirstAssumption` gives the
constants their types, and says that a count has at least two values.

In `nvm_engine_paten` a client reserves a place with `fetch_add` and the record is appended wherever
the file ends, which is another place when a write has failed or clients append in
another order than they reserved (`Unordered`). `PatenInv` has three parts beside the types:

* `IndexesInv`: every Index there is (in a table, in an index file, in the hands of a
  client) leads to the value of its Set, or it does not say it does and something was
  `Unordered`. No step takes from a data file (`DataStays`), so that an Index that led right
  still does.
* `PlacesInv`: without failures and with one client, the only place that is reserved
  and not filled is that client's own, and it is where its file ends. It makes `AppendData` of
  such a client put the record where the Index will say.
* `KeptInv`: a key of a Set that returned is in an index file (`InFile`); the tables have it
  or a recovery is on its way, whose tables have the keys of all it has replayed
  (`Replayed`: the files before the one it is in, and the first entries of that).

`PatenAssumption` gives the constants their types and keeps `Nothing` out of them.

In `nvm_example` nothing marks where a pair of slices ends but the sizes in it, so that the
place of each pair follows from all those before it. `Starts` has these places; a recursion over the
pairs, which `StartsExist` and `StartsAgree` turn into two facts to reason with: the first
pair starts at 1 and each next one where the one before it ends (`StartsFollow`). What a log says
(`Says`) and the map that leads there (`PlacesOf`) stay when something behind its end is
stored (`LogStays`), and one pair more changes them at its key only (`OnePairMore`).
`ExampleInv` adds to these what a Set has stored of its pair before each of its steps
(`StoredInv`), none of it counted, and which pairs the map has (`PlacedInv`): all; all but
the last before `Index`; in a recovery those it has passed. `Count` is `Apply` in
`KVStore`; the stores before it are stutters, and so are the rounds of recovery; a kill
before `Count` leaves no trace and one behind it keeps the Set. `ExampleAssumption` says that
keys and values are slices.

Constants: `ShardAssumption`, `MyHashMapAssumption` and `EngineAssumption` give them
their types, and `RecordAssumption` and `ChunksAssumption` (`AepRecord`) that every value fits an item.
`NothingAssumption` and `MarksAssumption` say that the special values are none of
the others (no key, call or record is `Nothing`).

## 5. What is only model-checked, and what is not modelled

* Liveness (`RecoveryEnds` of both engines, `CallsEnd`) is beyond the prover and stays with TLC.
* `IndexIsLatest` under power loss (section 4).
* `TypeOK` of `engines` and `P7AnswersAreLatest`: where a log of `nvm_engine_p7` ends after an
  opening is what its sort returns (see the next point). The types of the other engines are
  parts of their invariants.
* `FindsTheLast` and the hashes compute by recursion over their input; what they
  return for inputs of every length is out of the prover's reach.

Left out, and why:

* Two threads that Set one key at once, in `nvm_engine_latest`: the code orders
  nothing there. Both recycle the same old item. In `LatestEngine` a Get that a Set
  of its key overlaps runs, and is outside the property.
* Bytes below the parts of an item: a byte outside the items is not modelled,
  hence one item size under power loss.
* Power loss in engines other than the latest: in `nvm_engine_patentair` it leaves
  what a stop leaves (section 2), `nvm_engine` cannot tell a torn record from a whole
  one, `nvm_example` never persists its count, and the others persist nothing.
* The arithmetic of the hash functions, and lengths beyond an `int`; the engines' hash
  functions are any functions. `hash.cpp`, which chooses among them, keeps
  results in static buffers and has no caller.
* `util`: the parser of options and the logger's formatting; `options.h` is included
  and nothing in it is used. The copies of `xxhash.cpp` in engine directories are
  linked to nothing. `KeyMap` has no user.
* The hooks by which `MyPinTool` finds the stores in machine code: Pin's part.
* A kill of `nvm_engine_p7`, whose block is private memory and is lost with the
  process by design, and what one of its logs does to its neighbours' slots.
* Drivers and tests (`judge`, `test`, `test_pei`): they give the environment (16
  threads, phases, shared keys) and have no state worth a model.
* Logging, the statistics in `NvmEngine::Set`, the choice of shard or bucket, and
  mapping a file; shards and buckets are independent, so one is modelled.

## 6. Where the code does not do what is said of it

1. `shard_power_loss`: `README.md` line 14 demands integrity after a power
   failure. All of a record, both counts included, is stored before the only
   `pmem_persist`; if the words with the counts reach the memory and a word of the
   value does not, recovery takes the record as complete, in place of the former
   value of the key. Under `kill`, the same properties hold in full.
2. `hash_map_writers`: two `put`s of two keys can take the same free position,
   since the lock in `put` is commented out (`hash.h` lines 69 and 85); one of the
   keys is then not found though its Set returned.
3. `hot_key_pool_threads`: a Get can hit an entry of the pool while another Get
   fills it, between its size and its bytes, and answers with zeros.

4. `patentair_restart`: a key set twice has its entries in two index files, and
   nothing says which is later; `Recover` replays the files in threads that do not
   wait for each other, and the earlier value can be inserted last.

What the passing properties exclude in so many words, because the code fails there: in
`FirstKeepsTheLatest` a count that has wrapped; in `P7AnswersAreLatest` a log in which a Set
after an even pass took an earlier position, the page a cached log reads of its
neighbour, and the greatest key; in `PatenIndexesLeadToValues` records that two
threads wrote in another order than they reserved; in
`TracerUndoesWhatMayBeLost` the word behind a flushed range, whose old values `record_drain`
erases too; in `LatestUndisturbedGetsAreCurrent` the records behind a hole. The
hazards in `PROJECT.json` have the lines.

## 7. The plan

Done: all modules above; the proofs about `FreeSpace`, `HotKeyPool`, `MyHashMap`,
`PatentairEngine`, `AepShard`, `LatestEngine`, `BucketTable`, `Arena`,
`AutoAlloc`, `PmemTracer`, `SkipList`, `PeipeiEngine`, `FirstEngine`, `PatenEngine` and
`ExampleEngine`. Every safety property of the runs is proved that does not depend on what
a recursion over its input returns, but for power loss.

Models that could be finer: two Sets of one key in `LatestEngine`, with a
property that says what is left of the key; power loss with items of several
sizes, which needs the bytes between them.

## 8. Running it

    tlc -workers 2 -config FreeSpace.cfg MCFreeSpace
    tlapm FreeSpaceProofs.tla
    tlapm HotKeyPoolProofs.tla
    tlapm MyHashMapProofs.tla
    tlapm PatentairEngineProofs.tla
    tlapm AepShardProofs.tla
    tlapm EnginesProofs.tla
    tlapm PartsProofs.tla
    tlapm EarlierEnginesProofs.tla

    tlc -workers 2 -config Engines.cfg MCEngines
    tlc -workers 2 -config Parts.cfg MCParts

The runs take between two seconds (`hot_key_pool`) and two minutes (`shard_kill`);
`engines` and `parts` take about a minute each.
