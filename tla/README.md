# Verification of nodejs-proto-cache (TreeKeyCache)

TLA+ models of `TreeKeyCache`, a cache that keeps a tree in a key/value storage,
checked with TLC on small instances; every safety property of a passing run is also proved
with TLAPS, for every instance. Paths below are relative to the repository, which is under `src/`.

## The system

A *node* is named by a path of keys. Down to `keyLevelNodes - 1` every node has a
storage key of its own (the *chained key* `a:b:...`) that holds its serialized
value. A node at level `keyLevelNodes` and everything below it is one serialized
tree under one key. The storage, the semaphore, the serializers and the memoizer
are given by the application; all but the storage are optional.

| component | state | operations | source |
|---|---|---|---|
| writers | the storage keys; the children registry; the semaphores; per call: level, the tree it read, "changed" | `deepTreeSet`, `setNode`, `getStep`, `persistStep`, `enrichTree`, `persistTree`, `dontWait` | `src/src/tree-key-cache.ts` 173-332, `src/src/internal/tree-internal-control.ts` |
| `fullTreeSet` | as above, over a whole tree | `fullTreeSet`, `saveFullTreeValue`, `registerKeyLevelChildren` | `tree-key-cache.ts` 339-395 |
| ttl and deadlines | ttl of keys, deadline of nodes | `getTtl`, `getTreeCurrentSerializedValue`, `persistTree` | `src/src/internal/get-ttl.ts` and others |
| readers | the memoizer's promises | `iteratePath`, `getNode`, `getNodeRef`, `randomIterate` | `tree-key-cache.ts` 92-167 |
| traversals in memory | a list or the recursion; what was yielded | four searches | `src/src/utils/graphs` |
| traversals of key levels | the same, with iterators over `getChildren` as entries | four searches, `AsyncQueue`, `AsyncStack`, `AsyncTreeRef` | `src/src/utils/graphs/async`, `src/src/internal/async-tree-ref.ts` |
| `pruneTree` | the tree; a map per level; "changed" | the loop | `src/src/internal/prune-tree.ts` |
| `prune` | trees read and to be written | read, prune, lock, write | `tree-key-cache.ts` 505-520 |
| registry reprocessing | the registry; promises of a partition | `reprocessAllKeyLevelChildren` | `tree-key-cache.ts` 460-489 |
| node history | several trees merged on the fly | `MultiTreeRef` | `src/src/internal/multi-tree-ref.ts` |
| helpers on trees | - | `deepTreeSet`, `deserializeWholeTree` of `utils`, `buildKey`, `splitKey` | `src/src/utils` |

Writers are async generators: they hand every level to the caller, who changes
`step.value` and asks for the next one, and they interact with each other only
through the storage, the registry and the semaphore. Traversals read what writers
register and store. `prune` is a writer that uses `pruneTree`, which iterates a
traversal of the tree it is changing.

What is hard here: every `await` and `yield` lets other calls run between the read
of a key and its write; a consumer may stop at any step; storage and semaphore may
reject; releases run in a later tick; the asynchronous queue mixes nodes with
iterators and its `length` is not the number of its entries; `pruneTree` relies on maps
that siblings share, level by level; ttls are whole seconds and deadlines milliseconds;
errors in the middle of a history are swallowed and memoized. What makes each component correct:

- writers: no stored contribution is lost under a key all writers lock; semaphores
  are neither lost nor given away; ancestors before descendants; registered before
  stored; every call ends;
- traversals: each node once, in the announced order, nothing missed, termination
  while the storage grows;
- `pruneTree`: removes exactly what is expired or empty, and reports every removal;
- ttl: a key is kept for as long as one of its nodes is live, and what has expired
  stays expired;
- reprocessing: everything that was stored is registered afterwards;
- readers: exactly what is live on the path, nothing older than the memoizer's context,
  each key read once.

`PROJECT.json` lists the hazards line by line with the properties that cover them.

## Modules

**TreePaths** - the static structure: calls and their paths, all that write next to them
(`Writers`: the calls, and in other modules `fullTreeSet` and `prune`), nodes, the key
each node is kept under, values. A value is the set of calls that contributed to it, so
that a lost update is visible as a missing member; `None` is a node without value,
`Absent` one that is not there. Equality of two values stands for equality of their
serialized forms.

**DeepTreeSet** - `deepTreeSet` and `setNode`. One action per piece of code between
two suspension points:

| action | code (`tree-key-cache.ts`) |
|---|---|
| `RegisterChild` | 224-226 |
| `Acquire`, `SkipAcquire` | 227-230 and 257-260: the semaphore, or none above `minLevelSemaphore` (the two phases compare differently: `Locks`) |
| `Get` | 232-239 and 262-279: a copy of the whole key is taken |
| `ConsumeInner` | 280-300: a step of the tree phase and the descent, creating children |
| `ConsumeLast` | 240-241 and 302-325: the last step under a key; goes on to the write only if something differs |
| `Persist` | the `storage.set` of `persistStep` or `persistTree`, then `finally` |
| `Release` | the `setImmediate` callback of `dontWait` |
| `RegisterFails`, `AcquireFails`, `GetFails`, `Close`, `PersistFails` | the errors, and a consumer that breaks or throws; a failing write or registration may or may not have been applied |

`written` is a history variable: the nodes a call stored its contribution in.
Consumers are modelled by what they leave in `step.value`: a `deepTreeSet` consumer
adds its contribution or leaves the step alone, `setNode` assigns at the last level.
`Comparable` says whether equal values have serialized forms that `!==` finds equal:
true for strings, false for buffers.

**TreeUpdates** - the abstract specification of the writers: the storage changes by
one atomic read-modify-write of one key by one call at a time.

**FullTreeSet** - `fullTreeSet` next to one or more calls of DeepTreeSet, whose storage,
registry and semaphores it shares: `FullAcquire` (354-357), `FullRegister` (one
`registerChild` of `registerKeyLevelChildren`), `FullGet`, `FullConsume` (the items under
one key; below a tree level key they change only the copy in memory, so one action
stands for all of them), `FullSet`, and `FullFails` for a rejection or a consumer that
stops. `fwritten` is history: the nodes in which it has stored its own value.

**Reprocess** - `reprocessAllKeyLevelChildren` next to both: `Clear` (466), `NextKey` and
`Push` (468-479, `Pair` is what is registered), `Settle` (a registration takes effect),
`Yield` (480-483, which waits for all of the partition), `Finish` (486-488) and `Stop`.
`rstart` and `wiped` are history: what was stored when the iteration started, what the
clearing removed.

**Expiration** - one tree level key with a clock that may tick at every `await`: the value
and the deadline of each node, the expiry of the key, and `deepTreeSet` or `setNode`,
`saveFullTreeValue` and `prune` from the moment they read the clock (`Begin`,
`PruneRead`) through the semaphore (`Acquire`, or `SkipAcquire` for a call whose
`minLevelSemaphore` lies below the key: 257-260 and 354-357), the read (`Get`), the changes
to the copy (`Consume`: `Enriched` is `enrichTree` and `checkFullSetItemChange`, `MaxTtl`
is `getTtl`), the ttl (`PruneTtl`, `ReadTtl`) to the write (`Set`, which may reject although
it was applied). 0 stands for `undefined`, as ttl and as deadline. Ttls are whole seconds,
`Scale` units of the clock each; what `getCurrentTtl` answers is rounded up, or down by at
most `Loss` (`CurrentTtls`), and no ttl and a key that is gone are both `undefined`. History
variables: `permanent`, the tree was once stored without a ttl; `outrun[p]` and
`overtaken[p]`, the calls that stored since `p` read the ttl, or the tree; `raced`, a call
that had been outrun has stored; `slack`, what rounding may have cost the key so far.

**TreeTraversal** - the searches over a tree in memory; **PruneTree** extends it with
the body of `pruneTree`'s loop, one iteration per item the traversal yields, and
**WholeTree** with the loop of `deserializeWholeTree`. `pruneTree` is modelled with the
reference of a parent and without (`based`), as `prune` calls it for `keyLevelNodes` above 1
and for 1; a tree of the second kind was written by `fullTreeSet`, the only writer that
works there, and has no deadlines. What the loop deletes lies below the node in hand, which
the generator has left, so the traversal walks the tree as it was: that the deletion does
not disturb it is by the structure of the search and not a result of these checks. What the
maps, shared by siblings, lead to is. The children of a node come in an
order that is fixed and unknown (`ChildrenOf`), as `for ... in` gives them.

**Readers** - `iteratePath` and `getNode` over prefixes of one path. A key holds the list
of the entries written to it, and a read gives the last one, or all with history.
`Read` and `Settle` are `getMemoized`: a promise per context and key, settled with what
is stored then, or rejected. The errors differ: `get` and the call of `getHistory` reject,
but a history that fails while it is iterated does so inside the `try` of
`deserializeAsyncList` or `deserializeTreeFromList`, so that the promise is fulfilled with
`undefined` and memoized (`lost`). `Resume` and `Walk` are the loops of `iteratePath` and
`getNodeRef`; `Direct` is the read that `getNodeRef` makes of a key level node, which goes
past the memoizer and iterates a history outside of any `try`. Without a memoizer every call is a context of its own. `reads` and
`floor` are history: how often a context has read a key, and what was stored when its
first call began.

**PruneStorage** - `TreeKeyCache.prune` next to the writers of DeepTreeSet, whose actions
it reuses: `PruneRead` (the unlocked read and `pruneTree`, taken as what PruneTree shows
of it), then per changed tree `PruneAcquire`, `PruneSet` and `PruneRelease`, and the
failures. There is no `finally` in the code, so `PruneSetFails` keeps the semaphore.
`seen` and `raced` are history: what was stored before the read, and between it and the
write.

**AsyncTraversal** - the searches that start at the root or at a key level node.
`getChildren` is external: an iterator gives every child that was registered when it
was opened, may or may not give later ones, and gives none twice (the storage of the
tests removes duplicates itself). `Register` and `Store` are other calls' writes;
a tree does not change after it was deserialized.

**DeepTreeSetProofs**, **PruneStorageProofs**, **ReprocessProofs** (with `fullTreeSet`),
**ExpirationProofs**, **ReadersProofs**, **AsyncTraversalProofs**, **WholeTreeProofs** (with
TreeTraversal and PruneTree) - the theorems about the modules they are named after.
**PathLemmas** - lemmas on prefixes, sequences and orders of elements that the last two
share. **MC...** - constants for TLC.

## Runs

| run | instance | checks |
|---|---|---|
| `WritersLocked` | three calls (two `deepTreeSet`, one `setNode`) on one leaf and the root of one tree, `keyLevelNodes` 2, all faults | `TypeOK`, `LockOwnership`, `NoLostUpdate`, `AtomicUpdates` |
| `Counters` | three counting calls, one with `previousKeys`, `keyLevelNodes` 3, values that never compare equal, all faults | `AncestorsCounted`, `RegisteredBeforeStored` |
| `PruneStorage` | `prune` and three calls on one tree (one with `previousKeys`, one `setNode`), all faults of both, fairness | `SemaphoresExclusive`, `SettledSurvives`, `EndsUnlessLeaked` |
| `Expiration` | a `deepTreeSet`, a `setNode` without the semaphore, a `fullTreeSet` and a `prune` of one tree of two nodes, ttls 1 and 2, two units of the clock to a second, rounding by up to one, clock up to 5 | `TypeOK`, `KeyOutlivesNodes`, `LockedNotOutrun`, `KeyNeverShortened`, `NoRevival` |
| `Reprocess` | a `deepTreeSet`, a `fullTreeSet` of the same path and the reprocessing in partitions of 2, with failures, fairness | `FullLocksExclusive`, `FullNoLostUpdate`, `ReprocessComplete`, `RegistrationsSettled`, `EverythingEnds` |
| `Readers` | `iteratePath` of three levels with a `getNode` of one or three, in its context or in another, up to two entries of the tree, clock up to 2, fairness | `TypeOK`, `ReadOnce`, `FreshInContext`, `WalkExact`, `LiveInContext`, `ReadersEnd` |
| `MemoryTrees` | all trees of two keys and three levels, three ways of traversing; `pruneTree` with and without a parent reference and `deserializeWholeTree` with all mixes of values up to two levels, `deserializeWholeTree` of larger trees with one expired value | `EachOnce`, `AncestorOrder`, `BreadthOrder`, `DepthOrder`, `LiveKept`, `PrunedExactly`, `UnchangedIsSame`, `WholeCopy` |
| `AsyncTraversal` | two key levels, trees of up to two levels more, five nodes that may appear meanwhile, from the root and from a node | `NoRepetition`, `Complete`, `AncestorOrder`, `BreadthOrder`, `DepthOrder`, `Terminates` |
| `SetNodeRace` | two `setNode` on two leaves of a tree | `SafePersistence`, violated |
| `PruneRace` | as `PruneStorage`, without faults | `OnlyEmptyRemoved`, violated |
| `KeyTtl` | as `Expiration` with three nodes, all calls locked, ttls exact, clock up to 6 | `KeyTtlIsMax`, violated |
| `StaleDeadline` | the same with two nodes | `GivenValuesReadable`, violated |

Why the bounds are enough. Conflicts between writers are about one key; two calls on
one leaf with a third on an inner node of the same tree give a stale copy, a write
over it and a reader in between. Two key levels above a tree are the least in which a
call can fail between two levels it has written. A traversal has to meet a node with
several children, a leaf among key level nodes (where `AsyncQueue` counts wrong) and
a tree with inner nodes; `pruneTree`'s maps per level matter from two siblings with
children on, which two keys and two levels give. For ttls it takes a shorter and a longer
one, a clock that passes both, a second that has parts (two are the least in which a ttl
can be rounded either way), a tree whose nodes are written by different calls, and a call
without the semaphore to race with the others. A
memoized promise matters from the second call of its context on, a history from the
second entry on. The only counters that would grow forever are the clock and the entries
of a key: `MaxTime` and `MaxWrites` bound them, and in Readers nothing is written after
the last call has ended. The other bounds are the instances' paths, `MaxLevel`,
`MixLevel` and `Universe`. Deadlock is not checked in the runs of Expiration alone:
their calls end and the clock stops at its bound, and a `prune` that fails keeps the
semaphore for good.

What the less obvious properties say:

- `KeyOutlivesNodes`: deadlines are counted from a `now` that was read before the
  semaphore was waited for, the ttl of the key from the moment it is stored; so the key is
  dropped no earlier than the last of its nodes expires, less the part of a second that each
  write of a live key may lose by rounding. Excepted are a key that was once stored without
  a ttl, and one stored by a call that was outrun: it read the ttl, another call
  stored a longer one, and it then wrote the shorter. `setNode` can do both sides of that.
- `KeyNeverShortened`: the only write that takes more than the rounding from a live key is
  that of a call that was outrun. `prune` writes back a ttl it has read and may lose the
  rounding; it does so holding the semaphore, so a `setNode` can outrun it too.
- `NoRevival`: no write makes an expired value readable, `prune`'s and that of a call
  without the semaphore included, unless its call put a value of its own there or was
  overtaken: it read the tree, another call stored, and it wrote its copy. What a call puts
  itself need not be readable either (finding 4).
- `LockedNotOutrun`: the two races excepted above never happen between calls that take the
  semaphore, but for `prune`, which reads the tree before it acquires. They are what
  `setNode` (finding 1) and `prune` (finding 2) are exposed to, and nothing else is.
- `RegistrationsSettled`: the two ways in which a stored key level node may be missing from
  the registry when no reprocessing is under way: `fullTreeSet` never registers the first
  level, and a reprocessing may clear a registration whose node is stored after it.
- `WalkExact`: what the loops collect level by level, against a definition that looks at
  every entry and level by itself. With history a step is given for every node that is
  reached, with an empty list of values if none is live; an entry that cannot be
  deserialized, and a history that fails while it is read, hide all entries of the key: the
  calls of the context end normally, with a step without a value above the trees, with no
  step at all below. `iteratePath` with
  `keyLevelNodes = 1`, which gives nothing at all, is excepted.
- `LiveInContext`: how stale a value may be. Without history it was live when the call
  began; with history the tree keeps the `now` of the call that read it, so it was live when
  some call of the same memoizer context began.

Every passing property has a mutant in `PROJECT.json`: a changed action, defined just
before the original, that makes TLC find the property violated.

### What the code does not do

1. `SetNodeRace`: `setNode` passes the length of its path as `minLevelSemaphore`, so it
   takes a semaphore only when the path ends exactly at `keyLevelNodes`. Two `setNode`
   calls on one tree lose an update although a semaphore is configured for "safe
   persistence".
2. `PruneRace`: `prune` reads a tree before it acquires the semaphore and writes what it
   read; values stored meanwhile under the semaphore are removed. `SettledSurvives` shows
   that nothing else is lost, and `EndsUnlessLeaked` that a failing `prune` is the only
   way a semaphore is lost, since it is released outside of any `finally`.
3. `KeyTtl`: a key that expires between `prune`'s read and its `getCurrentTtl` has no ttl
   then, and `prune` stores its old tree again for good, although all its values have
   deadlines. The ttl of a key is not "the max ttl of all its nodes" for another reason too:
   a tree that `fullTreeSet` stores because it created nodes, without changing one, gets no
   ttl; the next call's ttl then becomes the key's, and the key is dropped before the
   deadline of a node that had a longer one.
4. `StaleDeadline`: `fullTreeSet` replaces a value and leaves its deadline; over an expired
   value the new one is stored as expired.

Noted while modelling, without a run of their own:

- The tree phase of `deepTreeSet` never calls `registerChild` (`README.md` 179 says it is
  called for every child that is set), so a tree is not found by the traversals that start
  above it, unless `reprocessAllKeyLevelChildren` or `fullTreeSet` registered it.
- `iteratePath` yields a step without a value for a key level node whose value or history
  could not be read or deserialized, although the type of its steps (`tree-type.ts` 103)
  promises one. `WalkExact` includes it.
- With history, the second call of a memoizer context is given what was live at the `now` of
  the first. `LiveInContext` is the bound.
- With `keyLevelNodes = 1`, `prune` leaves the empty children of the root. `PrunedExactly`
  includes it.

Also: `postOrderBreadthFirstSearch` and `postOrderDepthFirstSearch` yield the same
order, since the list they are given is pushed to and never popped. The tests expect
that order, so it is noted here and not counted as a divergence. `getNode` of a key level
node reads the storage although a memoizer is configured "to avoid reading the same key
twice in the same memoizer context"; `ReadOnce` excepts it. `pruneTree` returns true for
any tree with a valueless inner node, and `prune` writes such trees again each time.

### Fairness

`EndsUnlessLeaked` assumes weak fairness of each call's next step, of each task of
`prune` and of each scheduled release: promises of storage and semaphore settle, a
consumer asks for the next step or closes the iteration, `setImmediate` callbacks run.
`prune` need not get to a key. A semaphore need only be granted when it stays free for a waiting call; that is enough, because no call asks for the
same key twice. An application that abandons a generator without closing it is outside
this assumption, and does keep its semaphore. `EverythingEnds` (specification
`ReprocessSpec`) assumes the same of `fullTreeSet`, of the reprocessing and of its
registrations; `randomIterate` ends, giving each key once. `ReadersEnd` assumes weak
fairness of each reader's next step and of each read: promises settle. `Terminates` assumes weak fairness of the
traversal's next step.

## Proofs

All theorems hold for every value of the constants that the modules' named assumptions
allow: any number of calls, any paths and trees, any faults and consumers. Each has the
form `Spec => []P`, and follows from an inductive invariant that TLC checked on the
run's instance before it was proved.

| module | theorem | property |
|---|---|---|
| `DeepTreeSetProofs` | `TypeCorrect`, `LockOwnershipHolds`, `NoLostUpdateHolds`, `RegisteredBeforeStoredHolds`, `AncestorsCountedHolds` | `TypeOK`, `LockOwnership`, `NoLostUpdate`, `RegisteredBeforeStored`, `AncestorsCounted` |
| | `Refinement` | `Spec => AtomicUpdates`, if all keys are `Guarded` |
| `PruneStorageProofs` | `SemaphoresExclusiveHolds`, `SettledSurvivesHolds` | `SemaphoresExclusive`, `SettledSurvives` |
| `ReprocessProofs` | `FullLocksExclusiveHolds`, `FullNoLostUpdateHolds`, `ReprocessCompleteHolds`, `RegistrationsSettledHolds` | `FullLocksExclusive`, `FullNoLostUpdate`, `ReprocessComplete`, `RegistrationsSettled` |
| `ExpirationProofs` | `TypeCorrect`, `KeyOutlivesNodesHolds`, `KeyNeverShortenedHolds`, `LockedNotOutrunHolds`, `NoRevivalHolds` | `TypeOK`, `KeyOutlivesNodes`, `KeyNeverShortened`, `LockedNotOutrun`, `NoRevival` |
| `ReadersProofs` | `TypeCorrect`, `ReadOnceHolds`, `FreshInContextHolds`, `LiveInContextHolds`, `WalkExactHolds` | `TypeOK`, `ReadOnce`, `FreshInContext`, `LiveInContext`, `WalkExact` |
| `AsyncTraversalProofs` | `NoRepetitionHolds`, `CompleteHolds`, `AncestorOrderHolds`, `BreadthOrderHolds`, `DepthOrderHolds` | `NoRepetition`, `Complete`, `AncestorOrder`, `BreadthOrder`, `DepthOrder` |
| `WholeTreeProofs` | `EachOnceHolds`, `AncestorOrderHolds`, `BreadthOrderHolds`, `DepthOrderHolds` | `EachOnce`, `AncestorOrder`, `BreadthOrder`, `DepthOrder` |
| | `LiveKeptHolds`, `PrunedExactlyHolds`, `UnchangedIsSameHolds` | `LiveKept`, `PrunedExactly`, `UnchangedIsSame` |
| | `WholeCopyHolds` | `WholeCopy` |

**Writers.** `NoLostUpdate` is not inductive. The invariant that is, `IInv`, adds to the
types:

- `LockInv`: `LockOwnership`, which makes two calls in one section impossible, and that
  a scheduled release is for a key its call has left for good;
- `WriteInv`: a call that is about to write is one that may write that key, so that
  under a guarded key it holds the semaphore;
- `SnapshotInv`: under a guarded key, the copy of the call in the section differs from
  the storage only by that call's own changes to nodes of its path.

From `SnapshotInv` the write of a call in its section preserves the others'
contributions, which is `NoLostUpdate`, and is a step of `TreeUpdates`, which is
`Refinement`. Both rest on `Guarded(k)`: every call that may write `k` locks it. That
condition is what `setNode` breaks in run `SetNodeRace`. `RegisteredBeforeStored` has
an invariant of its own about the calls' progress, and `AncestorsCounted` another: a
call's contribution is only where the call has stored it, and what a call has stored
reaches down from the first level it was to write without a gap.

**prune and fullTreeSet** share storage and semaphores with the writers. Their
invariants therefore take over the writers' (`CoreInv(S)`, for the guarded keys `S`
concerned), with lemmas for what one side's steps leave alone of the other's
(`ForeignWrites`, `ForeignHolder`, `ForeignReleases`), and add their own: for `prune`, that
the tree it is going to write has every contribution `prune` saw stored, unless one raced
with it or was overwritten (`PruneCopyInv`); for `fullTreeSet`, its own semaphores, copy and registrations.
`ReprocessComplete` rests on `IterateInv`: what was stored at the start is still to be
taken, in flight or registered, and on `AwaitInv`: nothing is in flight at the end.

**Expiration.** `KeyOutlivesNodes` needs, on the way to the write, that clocks were read in
the past (`BeganInv`), that every deadline of a copy is covered by the expiry of the key and
the slack, or by the ttl in hand (`CopyInv`), and that the ttl which `persistTree` compares
with reaches as far as the key does, up to the rounding, unless the call was outrun since it
read it (`TtlInv`). For `NoRevival` the copy of a call is what is stored, but for what the call
put there and what `prune` removed, unless the call was overtaken (`SectionInv`, `KindInv`). None of these
rests on the semaphore, so they hold for calls without one. `LockInv`, which says that the
calls that take it are in their section one at a time, is what `LockedNotOutrun` follows from.
The assumptions on time are that a second has at least one unit and that rounding down loses
less than a second.
That `getTtl` is the maximum over the nodes (`LargestExists`) is an induction over finite
sets, made as the argument from a least counterexample.

**Readers.** `PlaceInv` says where a call stands, `MemoInv` that a promise was made by a
call of its context, whose `now` it has, and is as new as the context, `ReadsInv` that its key was read once,
and `WalkInv` that the steps so far are exactly those of the levels passed, in what the
context has read, a lost history included.

**Traversals of key levels.** `FoundInv` and `OnceInv`: a node is found through its
parent, which is entered once, and stands in one place at a time - the list, the calls,
the output. `KnownInv` and `CoverInv`: what was there at the start is in every iterator
opened and tree read since, so something in the list, in the calls or being read still
leads to it (`Leads`); at the end the lists are empty, whatever `length` says, and nothing
can. `LevelInv`: the levels in the queue are in order and differ by one at most.
`StackInv` and `FrameInv`: what lies above an entry of the stack is in the subtree of that
entry's parent, the calls are one way down, and none of the subtrees they are in was left.
The assumptions are that nodes are closed under prefixes and finitely many.

**Trees in memory.** `Invariance` is about the searches alone, with or without a loop that
follows. In pre order (`PreInv`) a node is pushed when its parent is popped, which happens
once, and the children of every node that was popped are in the list or the output;
`QueueInv` adds that the levels in the queue are in order and differ by one at most,
`StackInv` that what lies above an entry of the stack is in the subtree of that entry's
parent, and that no subtree with something still to come was left. In post order (`PostInv`)
the calls are one way down the tree, each with exactly the children still to be visited in
hand, and all children of what was yielded were yielded before. That
nothing is missed at the end (`WholeTreeReached`) is an induction over the levels, made as
the argument from a least counterexample. `PruneInvariance`: below the calls that are under
way, `pruneTree`'s maps hold exactly the children yielded so far of the node of each call, each
marked by whether it has anything live (`MapInv`), so that the map which is popped belongs to
the node in hand; the nodes and values that stay are a function of what was yielded (`KeptNow`,
`ValueNow`), the root being yielded or not. `CopyInvariance`: `deserializeWholeTree`'s copy has what was yielded, and its stack
is the way to the last of it; by `StackInv` the parent of the next node is on that way
(`ParentOnTheWay`), so cutting the stack by levels finds it. The assumptions are that a node
has finitely many children, and that a hole of the array of maps is not a map.

Only model-checked: `EndsUnlessLeaked`, `EverythingEnds`, `ReadersEnd` and `Terminates`:
liveness under fairness is out of the prover's reach.

## Not modelled

`PROJECT.json` gives the reason for each: `randomIterate` (no state between two keys), the
key codec, serializers and events, the synchronous `deepTreeSet` of `utils`, the ttl of key
level nodes (given to the storage as it is), histories as the source of traversals, and
the option `multiTreeSelector`. Chained keys are taken to be one to one with paths, which
needs keys that are not empty and contain no `:`. `keyLevelNodes = 1`, with which
`deepTreeSet` throws for want of a previous key, and `previousKeys` that reach
`keyLevelNodes` are excluded by assumptions of the writers; PruneStorage and Expiration
therefore use what `pruneTree` does with a parent reference.

Two assumptions on what the application supplies. `getCurrentTtl` gives `undefined` or 0
for a key that is gone or has no ttl, as its type says; the -1 and -2 that the `redis.ttl`
of the sample in `README.md` gives would be truthy ttls, and are not modelled. Serialized
values are truthy: `getNode` tests the truth value (`tree-key-cache.ts` 164) where
`iteratePath` tests for `undefined` and `null`, so that for a serialized `''` or `0` the
two differ, which Readers does not show.

## Plan

Done: all modules above, and the proofs of all their safety properties. Left: a history as
the source of a traversal (`MultiTreeRef`), with the option `multiTreeSelector`; the
traversals of key levels as a refinement of those of a tree in memory, for a storage that
does not change meanwhile.
