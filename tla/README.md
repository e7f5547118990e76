# Verification of the concurrent structures in this repository

The repository is a Setbench fork that compares durable ordered maps: the artifact's
versioned adaptive radix tree (`ds/04-artifact`), a persistent (a,b)-tree
(`ds/24-abtree-pm-occ`) and a dozen indexes from other projects, on top of libraries for
locking, versioning, multi-word compare-and-swap and memory reclamation. This directory
holds TLA+ models of the radix tree, the (a,b)-tree and the libraries that carry their
correctness, the TLC runs that check them on small instances, and TLAPS proofs of the
safety properties that matter most.

`PROJECT.json` is the index: which lines each definition models (`map`), what each run
checks (`runs`), a plausible bug that breaks each property (`mutants`), the hazards of the
code and the properties that cover them (`hazards`), and the theorems.

## The parts and how they fit together

    ArtTree  (insert, remove, find, range)          ABTree  (find, tryInsert, tryErase)
      |  leaves: LogMerge, LogLeaf                    |  memory: Debra
      |  child pointers: VersionedPtr                 |
      |  locks: SpinLock                              both implement SetSpec
      |  stamps: Timestamps
      |  memory: Epoch                              PathCas implements MultiCas

A module higher up uses the one below through what that module establishes: `ArtTree` takes
a child pointer as atomic (`VersionedPtr`), a lock as having one owner (`SpinLock`) and
memory as not reused under a running operation (`Epoch`); `VersionedPtr` takes the clock
from `Timestamps` and the rule for retired objects from `Epoch`; `ABTree` never reuses
nodes, which is what `Debra` is there for. So a property of a tree is not about a tree in
isolation, but the composition is by contract, not one big state space.

| module | code | one step is |
|---|---|---|
| `Epoch` | `common/artifact_flock/epoch.h` (`epoch_s`, `mem_pool`), hooks of `artifact_verlib/timestamps.h` | one load, exchange, store or CAS |
| `SpinLock` | `artifact_flock/spin_lock.h` behind the hash lock of `flock.h` | one load, CAS or store of a lock entry |
| `Timestamps` | `artifact_verlib/timestamps.h`, five of the stamp types | one access of the stamp or clock |
| `VersionedPtr` | `artifact_verlib/versioned_hybrid_ptr_level.h`, with and without the unpersisted bit | one access of the pointer, a stamp or persistent memory |
| `ArtTree` | `ds/04-artifact/art.h` (`logs = 0`) and `art_double_log_leaves.h` (`logs = 2`) | one shared access, or a critical section up to its one visible write |
| `LogMerge` | leaf constructors and merging of `art_double_log_leaves.h` | one critical section on one leaf |
| `LogLeaf` | log entries of a leaf: `append`, `persist`, stamps, `find`, `range_internal` | one access of an entry |
| `PathCas` | `common/kcas/kcas_validate.h`, `casword.h` | one access of a word or a descriptor's state |
| `Debra` | `common/recordmgr/reclaimer_debra.h`, driven as `microbench/main.cpp` does | one access of the epoch or an announcement |
| `ABTree` | `ds/24-abtree-pm-occ/optik_btree.h` | one access of unprotected shared state |
| `SetSpec` | what the adapters of `ds/` promise: a linearizable set | a call, its effect, its return |
| `MultiCas` | what PathCAS promises: words changed several at a time | a read, a call, its commit, its return |

State variables and actions keep the names of the source where TLA+ allows it. Variables
that no line of the code has are marked as history where they are declared: the abstract
set and calls (`set`, `call`), the epoch in which something was retired, the stamps that
have been returned.

### Epoch reclamation (`Epoch`)

`announce` is `AnnounceLoad`, `AnnounceExchange`, `AnnounceRecheck`; `retire` with
`advance_epoch` is `Retire`, `AdvanceEpoch`, `ClearList`, `SetPoolEpoch`, `Heuristic`,
`Push`; `update_epoch` is `UpdateLoad`, `ScanAnnounced`, `ScanOlder`, `BeforeHook`,
`CasEpoch` and the two stores of the after-hook; `clear` is `Clear`. The client is the
weakest one the versioned tree needs: a retired link is still the `old_v` of a writer, so
an operation that was running when an object was unlinked may hand it to others until it
ends.

### Locks, stamps, versioned pointers

`SpinLock` hashes nodes to locks, so a nested call can meet a lock that its thread already
holds; a call is a frame on the thread's stack. `Timestamps` compares the stamps that calls
return with the order in which the calls began and returned. `VersionedPtr` follows
`store` (with its second attempt, flush and bit), `load` and `read_snapshot`, the stamping
by readers and the two shortcuts that cut a link; a behaviour chooses one of the builds and
clients of `Setups`.

### The radix tree (`ArtTree`, `LogMerge`, `LogLeaf`)

`ArtTree` has the lock-free descent of `find_location`, the validated and unvalidated reads,
the locked updates, splits, `add_child` with its copies of nodes, and the range walk. A leaf
is the set of its keys there. `LogMerge` has the arrays: every constructor that merges a
sorted array with two log entries, and the sizes that are computed separately from what is
copied. `LogLeaf` has the readers: entries that are published, flushed, unmarked and
stamped in separate steps while finds and ranges wait, help and read as of a snapshot.

### PathCAS (`PathCas`, `MultiCas`)

A call locks its entries in address order by rdcss, validates the words it visited, decides
its descriptor's state and unlocks. Any thread may help from a copy of a descriptor that the
owner reuses; tags carry the sequence number. The refinement mapping reads a word as its
value, a tag as the old or new value by the state of the descriptor it names, and a tag that
names no current descriptor as no value at all. `MultiCas` lets a call commit in one step if
its entries hold, and if there was a moment of the call since which nobody read or changed
one of its entries and at which entries and path all held: the code validates the path
after locking the entries and decides later, and the call linearizes at that moment. Two
calls that each write what the other only visited could both have such a moment, so `MultiCas`
also keeps what the finished calls relied on and wrote (`log`), and a call commits, or a
validation returns true, only if all of them together can be put in one order. Asking instead
that nobody changes a call's path between that moment and the commit would be too much: in
the chain of `MCPathCas` one call visits what a second writes and the second what a third
writes, all succeed, and the order in which they take effect is the opposite of the one in
which they are decided.

### DEBRA (`Debra`)

`startOp` is `ReadEpoch` (with `rotateEpochBags`), `FreeOne`, `Announce`, `Scan`, `Advance`;
`endOp`, `retire`, `initThread` and `deinitThread` are one action each. A bag is a set of
objects of which only full blocks are handed over. Threads register, run and deregister in
phases, separated as by the barriers of `microbench/main.cpp`.

### The (a,b)-tree (`ABTree`)

`find`, `tryInsert` and `tryErase` descend without locks (`Descend` is `readUntilFlushed` of
a child pointer) and read a leaf slot by slot between two reads of its version. Updates
lock the leaf, and the parent for a split; `cleanup` restarts from the entry after every
repair. `Acquire` takes the locks of a list in the order of the code and repeats the checks;
`Replace` installs a new subtree behind a dirty pointer, `Flush` clears the dirty bit,
`Release` marks what was replaced and unlocks.

## Runs

| run | properties | instance |
|---|---|---|
| `epoch` | `TypeOK` `EpochGap` `NoUseAfterFree` `RetiredOnce` `DoneStampSafe` | 2 threads, 3 objects, 4 epochs, 3 clock values |
| `spin_lock` | `TypeOK` `MutualExclusion` `ThunksProtected` `HeldIsReleased` | 2 threads, 3 nodes in 2 buckets, counter of 4 values |
| `timestamps` | `TypeOK` `WritesAfterSnapshots` `StampsFollowRealTime` | 2 threads, 5 stamp types, stamps up to 6 |
| `versioned_ptr` | `TypeOK` `RetiredUse` `FreshLinkKept` `DurableBeforeVisible` `ReadsAtomic` `RetiredExactlyOnce` | 3 threads, up to 2 pointers and 4 operations, both builds |
| `art` | `TypeOK` `TrieShape` `RangeExact` `NodesFit` `Linearizable` | 7 trees and client programs, up to 3 threads |
| `art_log_split` | `NoDuplicateBytes` (violated) | log leaves, keys of 3 bytes, one thread |
| `log_merge` | `ArrayExact` `Faithful` `OnlySplitsOverrun` | 7 keys, 2 values, leaves of 2 and 6 pairs |
| `log_leaf` | `TypeOK` `StampOrder` `SnapshotExact` `DurableReads` `ReadsEnd` | a writer with 3 updates, a reader with 2 calls |
| `pathcas` | `TypeOK` `LockedPrefix` `Implements` | 6 programs for up to 3 threads on up to 3 words |
| `debra` | `TwoEpochsAgo` `NoUseAfterFree` `ScanInBounds` | 2 threads, 2 objects, 3 epochs, 3 block and scan sizes |
| `debra_phases` | `TwoEpochsAgo` (violated) | the same with two registrations |
| `abtree` | `SwitchedAway` `Validated` `Linearizable`, and no deadlock | 12 trees of degree 3 or 4, up to 3 threads |

What the bounds are for:

- `epoch` has four epochs: the retired lists of a pool are kept for two, so objects of
  several epochs are retired, swapped and destructed; `Bounded` follows the life of
  objects and the stamps in separate parts of the state space, and `LatePickUp` leaves out
  only states that differ in when a reference was taken. `View` drops dead local variables.
- `spin_lock` lets the counter wrap (`CountLimit = 4` stands for 2^32) after two
  acquisitions, and has one pair of nodes that collide and one node that does not.
- The trees of `art` are one call away from growing, splitting, shrinking or merging;
  capacities are the smallest that keep the order small < big leaf, sparse < indirect < full
  node, and a sparse node holds three children more than a log leaf has pairs, as the code's
  17 and 14 do. With plain leaves keys have three bytes; with log leaves two, because with three
  the failing run applies. A single thread also builds trees out of every sequence of four calls. The byte
  range is 5 or 6 instead of 256, since only equality and order of bytes matter.
- `log_merge` has seven keys, one more than the array of a log leaf holds. Of the leaves of a
  split any one is followed; one with more pairs than its array has room for is the last state.
- `versioned_ptr` has one program of four operations on two pointers, two stores and two
  snapshots begun in a fixed order: a version that one snapshot leaves unseen must not be seen
  by a later snapshot without the store that came before it.
- `pathcas` has programs in which entries are added in opposite orders, a descriptor is
  used again while a helper still has a copy, two calls write what the other validated, three
  do so in a circle or in a chain, a removal marks a visited word, and three threads help each
  other.
- `debra` reaches three epochs, one more than the grace period.
- `abtree` loads a tree with one thread and then runs the calls named at each setup in
  `MCABTree.tla`: root splits, tag nodes below one parent, absorb, distribute, at leaves and
  one level above. Degree 3 or 4 makes `a = 2`, the smallest the code allows; the adapter's
  11 also gives 2.

Deadlock is checked where an idle system has a step (`epoch`, `spin_lock`, `timestamps`,
`abtree`). In `log_merge` an overrun leaf is not followed; in the other runs threads simply
have no calls left. In `abtree` the absence of deadlock is shown for behaviours in which no
thread meets the dirty sibling or the null grandparent described below: such a thread stops
in the model, without locks, where the code may hold the lock of the node
(`optik_btree.h:806-838`).

Fairness is assumed twice, and only weak. `HeldIsReleased` (a held lock is released) needs
threads inside a lock call to be scheduled and thunks to return, which holds because thunks
are straight-line code with nested try-locks that do not wait. `ReadsEnd` (every find and range returns)
needs the writer, the reader and the clock to go on: the code waits for a bit that a running
writer clears, and for the hardware clock to tick. No other liveness is claimed: the retry
loops of the trees and the spin lock of the (a,b)-tree can starve a thread.

## Proofs

Six modules hold theorems; all are proved for every number of threads, objects and other
constants, from the `ASSUME`s in the component modules (at least one thread, constants of
their type).

| theorem | states |
|---|---|
| `EpochProofs!TypeCorrect`, `EpochGapHolds`, `HooksExclusiveHolds` | types; the epoch is at most one ahead of every running operation; one thread at a time in the after-hooks |
| `EpochStampProofs!DoneStampSafeHolds` | `done_stamp` is not later than the stamp of a running snapshot |
| `EpochReclaimProofs!NoUseAfterFreeHolds`, `RetiredOnceHolds` | nothing an operation may hold is destructed; an object is in at most one retired list |
| `SpinLockProofs!MutualExclusionHolds`, `ThunksProtectedHolds` | one owner per lock; a thunk runs under its lock, nested calls included |
| `TimestampsProofs!WritesAfterSnapshotsHolds`, `StampsFollowRealTimeHolds` | what snapshots need of the clocks |
| `DebraProofs!EpochCorrect`, `ScanSafe` | the epoch and scan invariant; the scan stays within the announcements |
| `DebraProofs!ReclaimSafe`, `GracePeriod` | with at most one registration per thread: nothing held is freed, and what is freed was retired two epochs ago |

The arguments:

- *Epoch.* `EpochGap` alone is not inductive: a scan in progress has passed announcements
  that may change. `EpochInv` adds what the scan knows of the slots it has passed
  (`ScanInv`), and that a thread past its recheck announced an epoch that was current after
  the announcement (`AnnounceInv`). `ReclaimInv` relates the lists of a pool to the epochs in which
  their objects were unlinked (`PoolInv`, `OnceInv`), and the references of an operation to
  its announcement (`FadingInv`, `RefInv`). `StampInv` does the same for the stamps that
  the hooks carry from epoch to epoch.
- *SpinLock.* `LockInv` says which frame of which stack owns a lock entry, and that owners
  are odd counters; nested frames on the same lock own nothing.
- *Timestamps.* `StampInv`: read stamps are behind the clock, strictly where readers move
  it, and a call's local copy is between its beginning and the clock.
- *DEBRA.* The scan is spread over many operations, so the invariant has to say that what it
  saw stays true: `Seen` (a scanned thread that runs an operation began it in this epoch) and
  `Progress`. With `Running` (the epoch is at most one past the epoch in which a running operation
  announced) they are `EpochInv`. `IdleInv` and `PlaceInv` say who holds references and that
  every object is in one place. `LimboInv` bounds how many epochs the owner of an object has
  read since an operation could reach it, by the `Age` of the bag the object is in; three
  bags then give the two epochs of grace. The age of a bag is wrong after a second `initThread`,
  which is why the theorems assume `Registrations <= 1`.

Only model-checked, not proved: liveness; the refinements (`Linearizable`, `Implements`);
everything about `VersionedPtr`, `ArtTree`, `LogMerge`, `LogLeaf`, `PathCas` and `ABTree`.
Their properties rest on the shape of recursively built trees and sequences or on fairness,
which the prover cannot reach.

## Where code and comments disagree

Two runs are expected to fail; each shows a comment that the code does not keep.

- `art_log_split`: `append` leaves a leaf's `byte_num` as it was, so a later split can group
  the keys by a byte behind their first difference and give `sparse_node` two children with
  the same byte, where its constructor says "no duplicates". Keys can be lost.
- `debra_phases`: `initThread` resets `currentBag` but not `index`, so after a thread
  registers again its first objects are handed over after one or two rotations, not three,
  where the comment says "retired two epochs ago". The benchmark registers twice, for
  prefilling and for measuring.

Met while modelling, and not covered by a run:

- `optik_btree.h:805` says that the grandparent is never null. An underfull root leaf that is
  split between the read of its size and the comparison with `entry->ptrs[0]` (447) brings
  `fixUnderfullViolation` there with the entry as parent. The model stops such a thread.
- `optik_btree.h:810` reads the sibling without `readUntilFlushed`, so the pointer may carry
  the dirty bit. The model stops such a thread too.
- `art.h:1526`: `find_` has no answer for a cut edge that `find_location` returns. What the
  build does is undefined; the constant `Misread` holds the answers to consider, and the
  runs use the answer "absent".
- `art_double_log_leaves.h:3053`: a log leaf with a full array and two insert entries holds two
  pairs more than an array. A key that differs from all of them at an earlier byte splits it
  there, all the old pairs go to one new leaf, and `new_leaf` does not check that they fit, where
  its comment says that a log leaf has room for `max_big_leaf_size` pairs (2732) and a comment in
  `try_insert` asks whether this can be a problem (3133). `log_merge` reaches such leaves;
  `OnlySplitsOverrun` says that a split is the only way. `NodesFit` leaves log leaves out.
- `art_double_log_leaves.h:3919`: the scan of a small leaf looks for the first key in range
  without comparing with the size.
- `timestamps.h:297`: `get_write_stamp` of `timestamp_read_write` may return a stamp from
  before its back-off; `WritesAfterSnapshots` leaves this kind out.
- `kcas_validate.h:333`: if a word's old value comes back, a slow helper can install the tag
  of a call that is over, and nobody removes it. Version numbers do not come back, and no
  structure here uses the library.

## What the models assume

- Memory is sequentially consistent. Where the code uses relaxed accesses it relies on the
  fences of x86 and on `record_manager.h:141` for DEBRA (the build flag `DisableDebraFence`
  removes that fence, and with it this assumption).
- All cores see one hardware clock.
- A crash is modelled through what has been flushed when an operation returns
  (`DurableBeforeVisible`, `DurableReads`). There is no recovery code in the repository for
  these structures, so there is no restart to model. For the (a,b)-tree the order of flushes is not
  modelled; it clears the dirty bit of a pointer before it flushes the line.
- A value is named by its key in `ArtTree` and `ABTree`; the values are followed in
  `LogMerge` and `LogLeaf`.

## Not modelled

The models cover about 6100 of the 187000 lines of implementation, 3.3 per cent. Most of the
rest is code of other projects, and modelling it faithfully means a project of this kind for
each:

- the twelve indexes of the evaluation (`ds/07` to `ds/23`, about 115000 lines), each a system
  of its own with its own locking and recovery, several with whole libraries inside;
- vendored libraries: `common/artifact_parlay`, `common/atomic_ops` (about 24000 lines);
- benchmark drivers (`microbench`, `macrobench` with its database, `tools`): they produce
  calls and statistics; the phases that matter to a structure are in `Debra` and in the loads
  of `ArtTree` and `ABTree`.

Of the repository's own libraries, these are not modelled:

- the other reclaimers of `common/recordmgr` (hazard pointers, DEBRA+, token and tree epochs,
  RCU): compile-time alternatives to DEBRA;
- the other multi-word primitives (`kcas_reuse`, the transactional variants, `dcss`):
  unused by the structures here, with the same descriptor reuse as `PathCas`;
- range-query providers, RLU and user-level RCU: unused here;
- the lock-free locks of flock, the other versioned pointers, and the persistent allocator:
  build alternatives that no variation of `ds/04-artifact` selects, except
  `versioned_hybrid.h`, the predecessor of the modelled pointer without persistence;
- `art_singular_log_leaves.h`, `art_medium_leaves.h`: near copies of the modelled tree;
- inside the modelled files: statistics, printing, validation walks, destruction, back-off,
  and functions without callers (named in `PROJECT.json` under `components`).
