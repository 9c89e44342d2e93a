----------------------------- MODULE DeepTreeSet -----------------------------
(***************************************************************************)
(* Concurrent calls of TreeKeyCache.deepTreeSet and TreeKeyCache.setNode   *)
(* on one storage and one semaphore (src/src/tree-key-cache.ts).  Every    *)
(* await and every yield of the generator is a point where other calls     *)
(* run: registering the child, acquiring the semaphore, reading the key,   *)
(* handing the step to the consumer, writing the key back, and the release *)
(* that dontWait leaves to a later tick.  Each may fail, and the consumer  *)
(* may stop the iteration at any step.                                     *)
(*                                                                         *)
(* No ttl is given to the calls of this module.                            *)
(***************************************************************************)
EXTENDS TreePaths

CONSTANTS
  Start,             \* Start[p]: previousKeys.length
  MinLevelSemaphore, \* MinLevelSemaphore[p] of a deepTreeSet call
  Created,           \* Created[p]: what createValue returns, None or {}
  Comparable,        \* !== tells equal serialized values (false for buffers)
  Moves,             \* what consumers do with a step: subset of {"edit","skip"}
  Faults,            \* which of {"register","acquire","get","consume","set"} may fail
  Free               \* a semaphore nobody holds

\* previousKeys are keys of the path before the tree level; setNode passes [].
ASSUME StartAssumption ==
  /\ Start \in [Calls -> 0 .. KeyLevelNodes - 1]
  /\ \A p \in Calls : Start[p] < Length(p)
  /\ \A p \in Calls : Kind[p] = "set" => Start[p] = 0

ASSUME MinLevelAssumption == MinLevelSemaphore \in [Calls -> Nat]

\* setNode's createValue is () => undefined.
ASSUME CreatedAssumption ==
  /\ Created \in [Calls -> {None, {}}]
  /\ \A p \in Calls : Kind[p] = "set" => Created[p] = None

ASSUME ConsumerAssumption ==
  /\ Comparable \in BOOLEAN
  /\ Moves \subseteq {"edit", "skip"}
  /\ Faults \subseteq {"register", "acquire", "get", "consume", "set"}
  /\ Free \notin Writers

VARIABLES
  storage,    \* storage[n]: what the storage holds for node n
  registry,   \* the <<parent, node>> pairs given to storage.registerChild
  holder,     \* holder[k]: the call that has the semaphore of key k
  releasing,  \* the <<call, key>> releases scheduled by dontWait
  pc,         \* pc[p]: what call p does next
  level,      \* level[p]: the level call p is at
  local,      \* local[p]: the nodes of the key p read, as p has changed them
  changed,    \* changed[p]: p's copy must be written back
  written     \* written[p]: the nodes p has stored its own contribution in

callVars == <<pc, level, local, changed>>
vars == <<storage, registry, holder, releasing, pc, level, local, changed, written>>

-----------------------------------------------------------------------------

\* setNode passes the length of its path as minLevelSemaphore.
MinLevel(p) == IF Kind[p] = "set" THEN Length(p) ELSE MinLevelSemaphore[p]

\* Whether p acquires the semaphore of the key of a level.  The key level loop
\* compares before currentLevel++, the tree phase after it.
Locks(p, l) == IF l < KeyLevelNodes THEN MinLevel(p) <= l - 1 ELSE MinLevel(p) <= l

\* The storage key call p works on.
ChainedKey(p) == PathNode(p, KeyLevel(level[p]))

\* Where the generator goes for a level: the key level loop registers first,
\* the tree phase starts at the semaphore.
Enter(p, l) ==
  CASE l > Length(p)          -> "done"
    [] l < KeyLevelNodes      -> "register"
    [] OTHER                  -> "acquire"

Blank == [n \in Nodes |-> Absent]

\* What getStep gives the consumer as step.value.
StepValue(p, cell) == IF cell \in {None, Absent} THEN Created[p] ELSE cell

\* What the consumer may leave in step.value: setNode assigns at the last level
\* only; a deepTreeSet consumer adds its contribution or leaves the step alone.
ConsumerValues(p, l, cell) ==
  IF Kind[p] = "set"
  THEN {IF l = Length(p) THEN {p} ELSE StepValue(p, cell)}
  ELSE {v \in {Contributors(StepValue(p, cell)) \cup {p}} : "edit" \in Moves}
       \cup {v \in {StepValue(p, cell)} : "skip" \in Moves}

\* The test of persistStep and enrichTree on the value a step was left with.
Differs(cell, v) == v # None /\ (v # cell \/ ~Comparable)

\* What is kept of a step: its value, where it differs from the stored one.
Enriched(tree, n, v) == [tree EXCEPT ![n] = IF Differs(@, v) THEN v ELSE @]

\* currentTree[TreeKeys.children][key] ??= {}
WithChild(tree, n) == [tree EXCEPT ![n] = IF @ = Absent THEN None ELSE @]

Init ==
  /\ storage = Blank
  /\ registry = {}
  /\ holder = [k \in Keys |-> Free]
  /\ releasing = {}
  /\ pc = [p \in Calls |-> Enter(p, Start[p] + 1)]
  /\ level = [p \in Calls |-> Start[p] + 1]
  /\ local = [p \in Calls |-> Blank]
  /\ changed = [p \in Calls |-> FALSE]
  /\ written = [p \in Calls |-> {}]

-----------------------------------------------------------------------------

\* Mutant: previousChainedKey read after chainedKey has been advanced.
RegisterChildUnderItself(p) ==
  /\ pc[p] = "register"
  /\ registry' = registry \cup {<<PathNode(p, level[p]), PathNode(p, level[p])>>}
  /\ pc' = [pc EXCEPT ![p] = "acquire"]
  /\ UNCHANGED <<storage, holder, releasing, level, local, changed, written>>

\* await storage.registerChild?.(previousChainedKey, key)
RegisterChild(p) ==
  /\ pc[p] = "register"
  /\ registry' = registry \cup {<<PathNode(p, level[p] - 1), PathNode(p, level[p])>>}
  /\ pc' = [pc EXCEPT ![p] = "acquire"]
  /\ UNCHANGED <<storage, holder, releasing, level, local, changed, written>>

\* Mutant: acquire is called without await.
AcquireNotAwaited(p) ==
  /\ pc[p] = "acquire"
  /\ Locks(p, KeyLevel(level[p]))
  /\ holder' = [holder EXCEPT ![ChainedKey(p)] = p]
  /\ pc' = [pc EXCEPT ![p] = "get"]
  /\ UNCHANGED <<storage, registry, releasing, level, local, changed, written>>

\* await semaphore.acquire(chainedKey), resolved when nobody holds the key.
Acquire(p) ==
  /\ pc[p] = "acquire"
  /\ Locks(p, KeyLevel(level[p]))
  /\ holder[ChainedKey(p)] = Free
  /\ holder' = [holder EXCEPT ![ChainedKey(p)] = p]
  /\ pc' = [pc EXCEPT ![p] = "get"]
  /\ UNCHANGED <<storage, registry, releasing, level, local, changed, written>>

\* Below minLevelSemaphore no semaphore is taken.
SkipAcquire(p) ==
  /\ pc[p] = "acquire"
  /\ ~Locks(p, KeyLevel(level[p]))
  /\ pc' = [pc EXCEPT ![p] = "get"]
  /\ UNCHANGED <<storage, registry, holder, releasing, level, local, changed, written>>

\* await storage.get(chainedKey): p takes a copy of everything under the key.
\* A missing tree is read as {}, a root without a value.
Get(p) ==
  /\ pc[p] = "get"
  /\ local' = [local EXCEPT ![p] = [n \in Nodes |->
                 IF KeyOf(n) # ChainedKey(p) THEN Absent
                 ELSE IF /\ storage[n] = Absent
                         /\ level[p] = KeyLevelNodes
                         /\ n = ChainedKey(p)
                      THEN None
                      ELSE storage[n]]]
  /\ pc' = [pc EXCEPT ![p] = "consume"]
  /\ UNCHANGED <<storage, registry, holder, releasing, level, changed, written>>

\* The finally block: dontWait schedules the release, if there is one.
ScheduleRelease(p) ==
  releasing' = IF Locks(p, KeyLevel(level[p]))
               THEN releasing \cup {<<p, ChainedKey(p)>>}
               ELSE releasing

\* Mutant: currentLevel is advanced once more after the last level.
LeavePastTheEnd(p) ==
  /\ ScheduleRelease(p)
  /\ local' = [local EXCEPT ![p] = Blank]
  /\ changed' = [changed EXCEPT ![p] = FALSE]
  /\ level' = [level EXCEPT ![p] = @ + 1]
  /\ pc' = [pc EXCEPT ![p] = IF level[p] < KeyLevelNodes THEN Enter(p, level[p] + 1) ELSE "done"]

\* Leave the section of the current key and go on with the next level; the
\* tree phase is the last one.
Leave(p) ==
  /\ ScheduleRelease(p)
  /\ local' = [local EXCEPT ![p] = Blank]
  /\ changed' = [changed EXCEPT ![p] = FALSE]
  /\ IF level[p] < KeyLevelNodes /\ level[p] < Length(p)
     THEN /\ level' = [level EXCEPT ![p] = @ + 1]
          /\ pc' = [pc EXCEPT ![p] = Enter(p, level[p] + 1)]
     ELSE /\ UNCHANGED level
          /\ pc' = [pc EXCEPT ![p] = "done"]

\* Mutant: the release is not in a finally block.
AbortWithoutRelease(p) ==
  /\ UNCHANGED <<releasing, level>>
  /\ local' = [local EXCEPT ![p] = Blank]
  /\ changed' = [changed EXCEPT ![p] = FALSE]
  /\ pc' = [pc EXCEPT ![p] = "failed"]

\* Leave the section because something threw, or the consumer returned.
Abort(p) ==
  /\ ScheduleRelease(p)
  /\ local' = [local EXCEPT ![p] = Blank]
  /\ changed' = [changed EXCEPT ![p] = FALSE]
  /\ pc' = [pc EXCEPT ![p] = "failed"]
  /\ UNCHANGED level

\* Mutant: the child is replaced by an empty one even if it is there.
ConsumeInnerResetsChild(p) ==
  /\ pc[p] = "consume"
  /\ level[p] >= KeyLevelNodes
  /\ level[p] < Length(p)
  /\ LET n == PathNode(p, level[p])
         child == PathNode(p, level[p] + 1)
     IN \E v \in ConsumerValues(p, level[p], local[p][n]) :
          local' = [local EXCEPT ![p] = [Enriched(@, n, v) EXCEPT ![child] = None]]
  /\ changed' = [changed EXCEPT ![p] = TRUE]
  /\ level' = [level EXCEPT ![p] = @ + 1]
  /\ UNCHANGED <<storage, registry, holder, releasing, pc, written>>

\* A step above the last one of the tree phase: enrichTree, then descend,
\* creating the child that is not there.
ConsumeInner(p) ==
  /\ pc[p] = "consume"
  /\ level[p] >= KeyLevelNodes
  /\ level[p] < Length(p)
  /\ LET n == PathNode(p, level[p])
         child == PathNode(p, level[p] + 1)
     IN \E v \in ConsumerValues(p, level[p], local[p][n]) :
          /\ local' = [local EXCEPT ![p] = WithChild(Enriched(@, n, v), child)]
          /\ changed' = [changed EXCEPT
                           ![p] = @ \/ Differs(local[p][n], v) \/ local[p][child] = Absent]
  /\ level' = [level EXCEPT ![p] = @ + 1]
  /\ UNCHANGED <<storage, registry, holder, releasing, pc, written>>

\* The step of a key level node, or the last one of the tree phase: the key is
\* written back if something changed.
ConsumeLast(p) ==
  /\ pc[p] = "consume"
  /\ level[p] < KeyLevelNodes \/ level[p] = Length(p)
  /\ LET n == PathNode(p, level[p])
     IN \E v \in ConsumerValues(p, level[p], local[p][n]) :
          IF changed[p] \/ Differs(local[p][n], v)
          THEN /\ local' = [local EXCEPT ![p] = Enriched(@, n, v)]
               /\ changed' = [changed EXCEPT ![p] = TRUE]
               /\ pc' = [pc EXCEPT ![p] = "set"]
               /\ UNCHANGED <<releasing, level>>
          ELSE Leave(p)
  /\ UNCHANGED <<storage, registry, holder, written>>

\* storage.set(chainedKey, ...): everything under the key is replaced.
StoreKey(p) ==
  /\ storage' = [n \in Nodes |->
                   IF KeyOf(n) = ChainedKey(p) THEN local[p][n] ELSE storage[n]]
  /\ written' = [written EXCEPT ![p] =
                   @ \cup {n \in Nodes : KeyOf(n) = ChainedKey(p)
                                         /\ p \in Contributors(local[p][n])}]

\* await storage.set(...) in persistStep or persistTree, then the finally block.
Persist(p) ==
  /\ pc[p] = "set"
  /\ StoreKey(p)
  /\ Leave(p)
  /\ UNCHANGED <<registry, holder>>

\* The tick in which a scheduled release runs.
Release(p, k) ==
  /\ <<p, k>> \in releasing
  /\ releasing' = releasing \ {<<p, k>>}
  /\ holder' = [holder EXCEPT ![k] = Free]
  /\ UNCHANGED <<storage, registry, callVars, written>>

-----------------------------------------------------------------------------

\* registerChild rejects, with or without having registered the child; no
\* semaphore is held yet.
RegisterFails(p) ==
  /\ "register" \in Faults
  /\ pc[p] = "register"
  /\ \/ UNCHANGED registry
     \/ registry' = registry \cup {<<PathNode(p, level[p] - 1), PathNode(p, level[p])>>}
  /\ pc' = [pc EXCEPT ![p] = "failed"]
  /\ UNCHANGED <<storage, holder, releasing, level, local, changed, written>>

\* acquire rejects (a timeout of the semaphore): outside of the try block.
AcquireFails(p) ==
  /\ "acquire" \in Faults
  /\ pc[p] = "acquire"
  /\ Locks(p, KeyLevel(level[p]))
  /\ pc' = [pc EXCEPT ![p] = "failed"]
  /\ UNCHANGED <<storage, registry, holder, releasing, level, local, changed, written>>

\* storage.get rejects, or what it read cannot be deserialized.
GetFails(p) ==
  /\ "get" \in Faults
  /\ pc[p] = "get"
  /\ Abort(p)
  /\ UNCHANGED <<storage, registry, holder, written>>

\* The consumer throws or breaks out of its for await at a yield: the generator
\* returns there, and what was not persisted is dropped.
Close(p) ==
  /\ "consume" \in Faults
  /\ pc[p] = "consume"
  /\ Abort(p)
  /\ UNCHANGED <<storage, registry, holder, written>>

\* Mutant: an error of storage.set is swallowed and the iteration goes on.
PersistFailsSilently(p) ==
  /\ "set" \in Faults
  /\ pc[p] = "set"
  /\ \/ UNCHANGED <<storage, written>>
     \/ StoreKey(p)
  /\ Leave(p)
  /\ UNCHANGED <<registry, holder>>

\* storage.set rejects, with or without having stored the key.
PersistFails(p) ==
  /\ "set" \in Faults
  /\ pc[p] = "set"
  /\ \/ UNCHANGED <<storage, written>>
     \/ StoreKey(p)
  /\ Abort(p)
  /\ UNCHANGED <<registry, holder>>

-----------------------------------------------------------------------------

\* What a call does on its own account, once the consumer asks for the next step.
Step(p) ==
  \/ RegisterChild(p)
  \/ Acquire(p)
  \/ SkipAcquire(p)
  \/ Get(p)
  \/ ConsumeInner(p)
  \/ ConsumeLast(p)
  \/ Persist(p)

Fail(p) ==
  \/ RegisterFails(p)
  \/ AcquireFails(p)
  \/ GetFails(p)
  \/ Close(p)
  \/ PersistFails(p)

Ended == \A p \in Calls : pc[p] \in {"done", "failed"}

\* Every call has ended and every release has run: nothing is left to happen.
Terminated == Ended /\ releasing = {} /\ UNCHANGED vars

Next ==
  \/ \E p \in Calls : Step(p) \/ Fail(p)
  \/ \E p \in Calls, k \in Keys : Release(p, k)
  \/ Terminated

Spec == Init /\ [][Next]_vars

-----------------------------------------------------------------------------
(* Properties *)

\* Typing of the writers' state.
TypeOK ==
  /\ storage \in [Nodes -> Cells]
  /\ registry \subseteq UNION {{<<PathNode(p, l - 1), PathNode(p, l)>> :
                                l \in 1 .. Length(p)} : p \in Calls}
  /\ holder \in [Keys -> Writers \cup {Free}]
  /\ releasing \subseteq Writers \X Keys
  /\ pc \in [Calls -> {"register", "acquire", "get", "consume", "set", "done", "failed"}]
  /\ level \in [Calls -> Nat]
  /\ \A p \in Calls : level[p] \in Start[p] + 1 .. Length(p)
  /\ local \in [Calls -> [Nodes -> Cells]]
  /\ changed \in [Calls -> BOOLEAN]
  /\ written \in [Calls -> SUBSET Nodes]

\* p is between acquire and the finally block of its current key.
InSection(p) == pc[p] \in {"get", "consume", "set"}

\* Whether p may write the key of level l: setNode leaves the key level nodes
\* above its target as they are, if their serialized forms can be compared.
MayWrite(p, l) == Kind[p] = "deep" \/ l = KeyLevel(Length(p)) \/ ~Comparable

\* Every call that may write key k takes its semaphore.
Guarded(k) ==
  \A p \in Calls : \A l \in Start[p] + 1 .. KeyLevel(Length(p)) :
    PathNode(p, l) = k /\ MayWrite(p, l) => Locks(p, l)

\* A setNode has replaced the value of n.
Overwritten(n) == \E q \in Calls : IsTarget(q, n) /\ n \in written[q]

\* The try/finally of deepTreeSet never loses a semaphore nor gives one away:
\* a key is held exactly by the call that is in its section, or whose release
\* is scheduled, whatever failed or was closed on the way.
LockOwnership ==
  \A p \in Calls, k \in Keys :
    holder[k] = p <=>
      \/ InSection(p) /\ ChainedKey(p) = k /\ Locks(p, KeyLevel(level[p]))
      \/ <<p, k>> \in releasing

\* No lost update: what a call has stored in a node under a key that all its
\* writers lock stays there until a setNode replaces it, however the
\* read-modify-writes of the other nodes of the same key interleave.
NoLostUpdate ==
  \A p \in Calls : \A n \in written[p] :
    Guarded(KeyOf(n)) =>
      p \in Contributors(storage[n]) \/ Overwritten(n)

\* With consumers that edit every step, a call counted in a node is counted
\* in every ancestor it visited: levels are written from the top, and a call
\* that fails or is closed goes no deeper.
AncestorsCounted ==
  Moves = {"edit"} =>
    \A p \in Calls : \A l \in 1 .. Length(p) :
      /\ Kind[p] = "deep"
      /\ p \in Contributors(storage[PathNode(p, l)])
      => \A j \in Start[p] + 1 .. l :
           \/ ~Guarded(KeyOf(PathNode(p, j)))
           \/ p \in Contributors(storage[PathNode(p, j)])
           \/ Overwritten(PathNode(p, j))

\* A key level node that is stored can be reached through the children
\* registry, from the level its writers started at: each one on the way was
\* registered before anything was stored below it.
RegisteredBeforeStored ==
  \A n \in Nodes :
    /\ Len(n) < KeyLevelNodes
    /\ storage[n] # Absent
    => \A l \in 1 .. Len(n) :
         \/ <<SubSeq(n, 1, l - 1), SubSeq(n, 1, l)>> \in registry
         \/ \E p \in Calls : n \in PathNodes(p) /\ l <= Start[p]

\* Every step is an atomic read-modify-write of one key by one call, or changes
\* no stored value.
Updates == INSTANCE TreeUpdates WITH tree <- storage
AtomicUpdates == Updates!Spec

-----------------------------------------------------------------------------
(* What the documentation says, and the code does not do. *)

\* "The Semaphore instance, if you want the guarantee safe persistence": a value
\* that was persisted is only ever replaced by a setNode of the same node.
SafePersistence ==
  \A p \in Calls : \A n \in written[p] :
    p \in Contributors(storage[n]) \/ \E q \in Calls \ {p} : IsTarget(q, n)

=============================================================================
