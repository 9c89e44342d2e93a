-------------------------- MODULE PruneStorageProofs --------------------------
(***************************************************************************)
(* Proofs about prune next to the writers.                                 *)
(***************************************************************************)
EXTENDS PruneStorage, DeepTreeSetProofs

PruneTypeOK ==
  /\ task \in [TreeKeys -> {"idle", "acquire", "set", "done", "failed"}]
  /\ copy \in [TreeKeys -> [Nodes -> Cells]]
  /\ dropping \subseteq TreeKeys
  /\ seen \in [TreeKeys -> SUBSET (Calls \X Nodes)]

\* prune has a semaphore while it writes, until its release has run, or for good.
PruneLockInv ==
  /\ \A k \in TreeKeys :
       holder[k] = Pruner <=> task[k] = "set" \/ k \in dropping \/ Leaked(k)
  /\ \A k \in dropping : task[k] = "done"

\* The tree that prune is going to write has what was stored when it was read.
PruneCopyInv ==
  \A k \in TreeKeys : task[k] \in {"acquire", "set"} /\ Guarded(k) =>
    \A p \in Calls : \A n \in Nodes : <<p, n>> \in seen[k] =>
      p \in Contributors(copy[k][n]) \/ Overwritten(n) \/ <<p, n>> \in raced

PruneIInv ==
  /\ CoreInv(GuardedKeys)
  /\ PruneTypeOK /\ PruneLockInv /\ PruneCopyInv /\ SettledSurvives

\* The key of a tree is a node and is kept under itself.
LEMMA TreeKeyFacts ==
  ASSUME NEW k \in TreeKeys
  PROVE  k \in Keys /\ k \in Nodes /\ KeyOf(k) = k
BY KeyIsNode DEF TreeKeys

\* Every node is in its own subtree.
LEMMA OwnSubtree ==
  ASSUME NEW n \in Nodes
  PROVE  InSubtree(n, n)
<1>1. PICK p \in Calls : Len(n) \in 1 .. Length(p) /\ n = PathNode(p, Len(n))
  BY NodeFacts
<1>2. SubSeq(PathNode(p, Len(n)), 1, Len(n)) = PathNode(p, Len(n))
  <2>1. Len(n) \in 0 .. Len(n)
    BY <1>1
  <2> QED BY <1>1, <2>1, PrefixOfPathNode
<1>3. Len(n) \in Nat
  BY NodeFacts
<1> QED BY <1>1, <1>2, <1>3 DEF InSubtree

\* pruneTree removes no value.
LEMMA PrunedKeepsValues ==
  ASSUME TypeOK, NEW k \in TreeKeys, NEW n \in Nodes, KeyOf(n) = k
  PROVE  /\ Pruned(k) \in [Nodes -> Cells]
         /\ Contributors(Pruned(k)[n]) = Contributors(storage[n])
<1>1. Pruned(k) \in [Nodes -> Cells]
  BY DEF Pruned, TypeOK, Cells
<1>2. Pruned(k)[n] \in {storage[n], Absent}
  BY Zenon DEF Pruned
<1>3. CASE storage[n] \in {None, Absent}
  BY <1>1, <1>2, <1>3 DEF Contributors
<1>4. CASE storage[n] \notin {None, Absent}
  <2>1. \E m \in Nodes : InSubtree(n, m) /\ HasValue(storage[m])
    BY <1>4, OwnSubtree DEF HasValue
  <2>2. Pruned(k)[n] = storage[n]
    BY <2>1, Zenon DEF Pruned
  <2> QED BY <1>1, <2>2
<1> QED BY <1>3, <1>4

-----------------------------------------------------------------------------

\* A step of the calls.
LEMMA CallStep ==
  ASSUME PruneIInv, [Next]_vars, UNCHANGED pruneVars
  PROVE  PruneIInv'
<1>1. CoreInv(GuardedKeys) /\ TypeOK /\ LockInv
  BY DEF PruneIInv, CoreInv
<1>2. CoreInv(GuardedKeys)'
  BY <1>1, CoreStep
<1>3. UNCHANGED <<task, copy, dropping, seen, raced>>
  BY DEF pruneVars
<1>4. PruneTypeOK'
  BY <1>3 DEF PruneIInv, PruneTypeOK, TreeKeys
<1>5. PruneLockInv'
  <2>1. \A k \in TreeKeys : holder'[k] = Pruner <=> holder[k] = Pruner
    BY <1>1, ForeignHolder, PrunerAssumption, TreeKeyFacts
  <2> QED BY <1>3, <2>1 DEF PruneIInv, PruneLockInv, Leaked, TreeKeys
<1>6. /\ \A q \in Calls : written[q] \subseteq written'[q]
      /\ \A n : Overwritten(n) => Overwritten(n)'
  BY <1>1, StorageSteps, StoreRecords DEF Overwritten
<1>7. PruneCopyInv'
  BY <1>3, <1>6
     DEF PruneIInv, PruneCopyInv, Guarded, MayWrite, Locks, MinLevel, Contributors, TreeKeys
<1>8. SettledSurvives'
  <2> SUFFICES ASSUME NEW q \in Calls, NEW n \in written'[q], Guarded(KeyOf(n))
               PROVE  q \in Contributors(storage'[n]) \/ Overwritten(n)' \/ <<q, n>> \in raced
    BY <1>3 DEF SettledSurvives, Guarded, MayWrite, Locks, MinLevel, Contributors
  <2>1. n \in Nodes /\ KeyOf(n) \in GuardedKeys
    BY <1>2 DEF CoreInv, TypeOK, Keys, GuardedKeys
  <2>2. CASE storage' = storage /\ written' = written
    BY <1>6, <2>2 DEF PruneIInv, SettledSurvives
  <2>3. ASSUME NEW p \in Calls, pc[p] = "set", StoreKey(p)
        PROVE  q \in Contributors(storage'[n]) \/ Overwritten(n)' \/ <<q, n>> \in raced
    <3>1. CASE n \in written[q]
      <4>1. q \in Contributors(storage[n]) \/ Overwritten(n) \/ <<q, n>> \in raced
        BY <3>1 DEF PruneIInv, SettledSurvives
      <4> QED BY <1>1, <1>6, <2>1, <2>3, <4>1, StoreKeeps
    <3>2. CASE n \notin written[q]
      BY <1>1, <2>3, <3>2, StoreRecords
    <3> QED BY <3>1, <3>2
  <2> QED BY <2>2, <2>3, StorageSteps
<1> QED BY <1>2, <1>4, <1>5, <1>7, <1>8 DEF PruneIInv

\* prune takes or gives back a semaphore that no call has.
LEMMA PruneHolder ==
  ASSUME CoreInv(GuardedKeys), NEW k \in TreeKeys, holder[k] \in {Free, Pruner},
         NEW w \in {Free, Pruner}, holder' = [holder EXCEPT ![k] = w],
         UNCHANGED <<storage, registry, releasing, callVars, written>>
  PROVE  CoreInv(GuardedKeys)'
<1>1. TypeOK /\ LockInv /\ WriteInv /\ SnapshotInv(GuardedKeys)
      /\ UNCHANGED <<pc, level, local, changed>>
  BY DEF CoreInv, callVars
<1>2. w \in Writers \cup {Free} /\ \A q \in Calls : w # q /\ holder[k] # q
  BY PrunerAssumption, ConsumerAssumption, WriterAssumption
<1>3. TypeOK'
  BY <1>1, <1>2 DEF TypeOK
<1>4. \A q \in Calls, j \in Keys : holder'[j] = q <=> holder[j] = q
  BY <1>1, <1>2, TreeKeyFacts DEF TypeOK
<1>5. LockInv'
  BY <1>1, <1>4, ForeignLocks
<1>6. WriteInv' /\ SnapshotInv(GuardedKeys)'
  BY <1>1, ForeignWrites, ForeignStore
<1> QED BY <1>3, <1>5, <1>6 DEF CoreInv

\* prune writes the tree of a key whose semaphore it has.
LEMMA PruneStore ==
  ASSUME PruneIInv, NEW k \in TreeKeys, task[k] = "set", StoreCopy(k),
         UNCHANGED <<registry, holder, releasing, callVars, written>>
  PROVE  /\ CoreInv(GuardedKeys)'
         /\ SettledSurvives'
         /\ raced \subseteq raced'
<1>1. TypeOK /\ LockInv /\ WriteInv /\ SnapshotInv(GuardedKeys) /\ PruneTypeOK /\ SettledSurvives
      /\ UNCHANGED <<pc, level, local, changed>>
  BY DEF PruneIInv, CoreInv, callVars
<1>2. k \in Keys /\ holder[k] = Pruner
  BY TreeKeyFacts DEF PruneIInv, PruneLockInv
<1>3. TypeOK'
  <2>1. storage' \in [Nodes -> Cells]
    BY <1>1 DEF StoreCopy, PruneTypeOK, TypeOK
  <2> QED BY <1>1, <2>1 DEF TypeOK
<1>4. LockInv' /\ WriteInv'
  BY <1>1, ForeignLocks, ForeignWrites
<1>5. SnapshotInv(GuardedKeys)'
  <2>1. ASSUME NEW q \in Calls, InSection(q), Locks(q, KeyLevel(level[q]))
        PROVE  ChainedKey(q) # k
    <3>1. holder[k] # q
      BY <1>2, PrunerAssumption
    <3> QED BY <1>1, <1>2, <2>1, <3>1 DEF LockInv, LockOwnership
  <2>2. \A n \in Nodes : KeyOf(n) # k => storage'[n] = storage[n]
    BY DEF StoreCopy
  <2> QED BY <1>1, <2>1, <2>2, ForeignStore
<1>6. SettledSurvives'
  <2> SUFFICES ASSUME NEW q \in Calls, NEW n \in written[q], Guarded(KeyOf(n))
               PROVE  q \in Contributors(storage'[n]) \/ Overwritten(n) \/ <<q, n>> \in raced'
    BY DEF SettledSurvives, Guarded, MayWrite, Locks, MinLevel, Contributors, Overwritten
  <2>1. n \in Nodes /\ raced' = raced \cup (StoredUnder(k) \ seen[k])
    BY <1>1 DEF TypeOK, StoreCopy
  <2>2. CASE KeyOf(n) # k
    <3>1. storage'[n] = storage[n]
      BY <2>1, <2>2 DEF StoreCopy
    <3> QED BY <1>1, <2>1, <3>1 DEF SettledSurvives
  <2>3. CASE KeyOf(n) = k
    <3>1. storage'[n] = copy[k][n]
      BY <2>1, <2>3 DEF StoreCopy
    <3>2. <<q, n>> \in StoredUnder(k)
      BY <2>1, <2>3 DEF StoredUnder
    <3>3. CASE <<q, n>> \in seen[k]
      BY <2>1, <2>3, <3>1, <3>3 DEF PruneIInv, PruneCopyInv
    <3> QED BY <2>1, <3>2, <3>3
  <2> QED BY <2>2, <2>3
<1> QED BY <1>3, <1>4, <1>5, <1>6 DEF CoreInv, StoreCopy

\* Every step of prune and of the writers keeps the inductive invariant.
LEMMA PruneInductive ==
  ASSUME PruneIInv, [PruneNext]_allVars
  PROVE  PruneIInv'
<1>0. /\ CoreInv(GuardedKeys) /\ TypeOK /\ PruneTypeOK /\ PruneLockInv /\ PruneCopyInv
      /\ SettledSurvives
  BY DEF PruneIInv, CoreInv
<1>1. ASSUME NEW p \in Calls, Step(p) \/ Fail(p), UNCHANGED pruneVars PROVE PruneIInv'
  BY <1>1, CallStep DEF Next
<1>2. ASSUME NEW p \in Calls, NEW k \in Keys, Release(p, k), UNCHANGED pruneVars PROVE PruneIInv'
  BY <1>2, CallStep DEF Next
<1>3. ASSUME NEW k \in TreeKeys, PruneRead(k) PROVE PruneIInv'
  <2>1. /\ task' = [task EXCEPT ![k] = IF Changed(k) THEN "acquire" ELSE "done"]
        /\ copy' = [copy EXCEPT ![k] = Pruned(k)]
        /\ seen' = [seen EXCEPT ![k] = StoredUnder(k)]
        /\ UNCHANGED <<vars, dropping, raced>> /\ task[k] = "idle"
    BY <1>3 DEF PruneRead
  <2>2. UNCHANGED <<storage, registry, holder, releasing, pc, level, local, changed, written>>
    BY <2>1 DEF vars
  <2>3. CoreInv(GuardedKeys)'
    BY <1>0, <2>1, CoreStep
  <2>4. PruneTypeOK'
    <3>1. Pruned(k) \in [Nodes -> Cells]
      BY <1>0, PrunedKeepsValues, TreeKeyFacts
    <3>2. StoredUnder(k) \in SUBSET (Calls \X Nodes)
      BY DEF StoredUnder
    <3> QED BY <1>0, <2>1, <3>1, <3>2 DEF PruneTypeOK
  <2>5. PruneLockInv'
    BY <1>0, <2>1, <2>2 DEF PruneLockInv, PruneTypeOK, Leaked
  <2>6. PruneCopyInv'
    <3> SUFFICES ASSUME NEW j \in TreeKeys, task'[j] \in {"acquire", "set"}, Guarded(j),
                        NEW p \in Calls, NEW n \in Nodes, <<p, n>> \in seen'[j]
                 PROVE  p \in Contributors(copy'[j][n]) \/ Overwritten(n) \/ <<p, n>> \in raced
      BY <2>1, <2>2
         DEF PruneCopyInv, Guarded, MayWrite, Locks, MinLevel, Contributors, Overwritten
    <3>1. CASE j # k
      BY <1>0, <2>1, <3>1 DEF PruneCopyInv, PruneTypeOK
    <3>2. CASE j = k
      <4>1. n \in written[p] /\ KeyOf(n) = k /\ copy'[j][n] = Pruned(k)[n]
        BY <1>0, <2>1, <3>2 DEF StoredUnder, PruneTypeOK
      <4>2. p \in Contributors(storage[n]) \/ Overwritten(n) \/ <<p, n>> \in raced
        BY <1>0, <3>2, <4>1 DEF SettledSurvives
      <4>3. Contributors(Pruned(k)[n]) = Contributors(storage[n])
        BY <1>0, <4>1, PrunedKeepsValues
      <4> QED BY <4>1, <4>2, <4>3
    <3> QED BY <3>1, <3>2
  <2>7. SettledSurvives'
    BY <1>0, <2>1, <2>2
       DEF SettledSurvives, Guarded, MayWrite, Locks, MinLevel, Contributors, Overwritten
  <2> QED BY <2>3, <2>4, <2>5, <2>6, <2>7 DEF PruneIInv
<1>4. ASSUME NEW k \in TreeKeys, PruneAcquire(k) PROVE PruneIInv'
  <2>1. /\ task[k] = "acquire" /\ holder[k] = Free
        /\ holder' = [holder EXCEPT ![k] = Pruner]
        /\ task' = [task EXCEPT ![k] = "set"]
        /\ UNCHANGED <<storage, registry, releasing, callVars, written>>
        /\ UNCHANGED <<copy, dropping, seen, raced>>
    BY <1>4 DEF PruneAcquire
  <2>2. CoreInv(GuardedKeys)'
    BY <1>0, <2>1, PruneHolder
  <2>3. PruneTypeOK'
    BY <1>0, <2>1 DEF PruneTypeOK
  <2>4. PruneLockInv'
    BY <1>0, <2>1, TreeKeyFacts DEF PruneLockInv, PruneTypeOK, TypeOK, Leaked
  <2>5. PruneCopyInv'
    BY <1>0, <2>1
       DEF PruneCopyInv, PruneTypeOK, Guarded, MayWrite, Locks, MinLevel, Contributors, Overwritten
  <2>6. SettledSurvives'
    BY <1>0, <2>1
       DEF SettledSurvives, Guarded, MayWrite, Locks, MinLevel, Contributors, Overwritten
  <2> QED BY <2>2, <2>3, <2>4, <2>5, <2>6 DEF PruneIInv
<1>5. ASSUME NEW k \in TreeKeys, PruneAcquireFails(k) PROVE PruneIInv'
  <2>1. /\ task[k] = "acquire" /\ task' = [task EXCEPT ![k] = "failed"]
        /\ UNCHANGED <<vars, copy, dropping, seen, raced>>
    BY <1>5 DEF PruneAcquireFails
  <2>2. UNCHANGED <<storage, registry, holder, releasing, pc, level, local, changed, written>>
    BY <2>1 DEF vars
  <2>3. CoreInv(GuardedKeys)'
    BY <1>0, <2>1, CoreStep
  <2>4. PruneTypeOK' /\ PruneLockInv'
    BY <1>0, <2>1, <2>2 DEF PruneTypeOK, PruneLockInv, Leaked
  <2>5. PruneCopyInv' /\ SettledSurvives'
    BY <1>0, <2>1, <2>2
       DEF PruneCopyInv, PruneTypeOK, SettledSurvives, Guarded, MayWrite, Locks, MinLevel,
           Contributors, Overwritten
  <2> QED BY <2>3, <2>4, <2>5 DEF PruneIInv
<1>6. ASSUME NEW k \in TreeKeys, PruneSet(k) \/ PruneSetFails(k) PROVE PruneIInv'
  <2>1. /\ task[k] = "set"
        /\ UNCHANGED <<registry, holder, releasing, callVars, written>>
        /\ UNCHANGED <<copy, seen>>
        /\ \/ task' = [task EXCEPT ![k] = "done"] /\ dropping' = dropping \cup {k}
           \/ task' = [task EXCEPT ![k] = "failed"] /\ dropping' = dropping
        /\ UNCHANGED <<storage, raced>> \/ StoreCopy(k)
    BY <1>6 DEF PruneSet, PruneSetFails
  <2>2. CoreInv(GuardedKeys)' /\ SettledSurvives' /\ raced \subseteq raced'
    <3>1. CASE UNCHANGED <<storage, raced>>
      <4>1. UNCHANGED vars
        BY <2>1, <3>1 DEF vars, callVars
      <4>2. CoreInv(GuardedKeys)'
        BY <1>0, <4>1, CoreStep
      <4> QED BY <1>0, <2>1, <3>1, <4>2
              DEF SettledSurvives, Guarded, MayWrite, Locks, MinLevel, Contributors, Overwritten
    <3>2. CASE StoreCopy(k)
      BY <2>1, <3>2, PruneStore
    <3> QED BY <2>1, <3>1, <3>2
  <2>3. PruneTypeOK'
    BY <1>0, <2>1 DEF PruneTypeOK
  <2>4. PruneLockInv'
    BY <1>0, <2>1 DEF PruneLockInv, PruneTypeOK, Leaked
  <2>5. PruneCopyInv'
    BY <1>0, <2>1, <2>2
       DEF PruneCopyInv, PruneTypeOK, Guarded, MayWrite, Locks, MinLevel, Contributors, Overwritten
  <2> QED BY <2>2, <2>3, <2>4, <2>5 DEF PruneIInv
<1>7. ASSUME NEW k \in TreeKeys, PruneRelease(k) PROVE PruneIInv'
  <2>1. /\ k \in dropping /\ dropping' = dropping \ {k}
        /\ holder' = [holder EXCEPT ![k] = Free]
        /\ UNCHANGED <<storage, registry, releasing, callVars, written>>
        /\ UNCHANGED <<task, copy, seen, raced>>
    BY <1>7 DEF PruneRelease
  <2>2. holder[k] = Pruner /\ task[k] = "done"
    BY <1>0, <2>1 DEF PruneLockInv
  <2>3. CoreInv(GuardedKeys)'
    BY <1>0, <2>1, <2>2, PruneHolder
  <2>4. PruneTypeOK'
    BY <1>0, <2>1 DEF PruneTypeOK
  <2>5. PruneLockInv'
    <3>1. Pruner # Free /\ \A j \in TreeKeys : holder'[j] = IF j = k THEN Free ELSE holder[j]
      BY <1>0, <2>1, TreeKeyFacts, PrunerAssumption, ConsumerAssumption DEF TypeOK
    <3> QED BY <1>0, <2>1, <2>2, <3>1 DEF PruneLockInv, Leaked
  <2>6. PruneCopyInv' /\ SettledSurvives'
    BY <1>0, <2>1
       DEF PruneCopyInv, SettledSurvives, Guarded, MayWrite, Locks, MinLevel,
           Contributors, Overwritten
  <2> QED BY <2>3, <2>4, <2>5, <2>6 DEF PruneIInv
<1>8. CASE UNCHANGED allVars
  BY <1>8, CallStep DEF allVars
<1> QED BY <1>1, <1>2, <1>3, <1>4, <1>5, <1>6, <1>7, <1>8 DEF PruneNext, PruneTask, Quiet

\* The initial state is in the inductive invariant.
LEMMA PruneInductiveInit == PruneInit => PruneIInv
<1> SUFFICES ASSUME PruneInit PROVE PruneIInv
  OBVIOUS
<1>1. CoreInv(GuardedKeys)
  BY CoreInit DEF PruneInit
<1>2. PruneTypeOK
  BY BlankType DEF PruneInit, PruneTypeOK
<1>3. PruneLockInv
  <2>1. \A k \in TreeKeys : holder[k] = Free /\ task[k] = "idle"
    BY TreeKeyFacts DEF PruneInit, Init
  <2>2. Pruner # Free
    BY PrunerAssumption, ConsumerAssumption
  <2> QED BY <2>1, <2>2 DEF PruneInit, PruneLockInv, Leaked
<1>4. PruneCopyInv /\ SettledSurvives
  BY DEF PruneInit, Init, PruneCopyInv, SettledSurvives
<1> QED BY <1>1, <1>2, <1>3, <1>4 DEF PruneIInv

\* In every reachable state with prune running, the semaphores of the calls are
\* held as without it, and prune holds one exactly while it writes, until its
\* release has run, or for good if it failed in between.
THEOREM SemaphoresExclusiveHolds == PruneSpec => []SemaphoresExclusive
<1>1. PruneSpec => []PruneIInv
  BY PruneInductiveInit, PruneInductive, PTL DEF PruneSpec
<1>2. PruneIInv => SemaphoresExclusive
  BY DEF PruneIInv, CoreInv, LockInv, PruneLockInv, SemaphoresExclusive
<1> QED BY <1>1, <1>2, PTL

\* In every reachable state a contribution under a guarded key is lost to prune
\* only if it was stored between prune's read and its write of the tree.
THEOREM SettledSurvivesHolds == PruneSpec => []SettledSurvives
<1>1. PruneSpec => []PruneIInv
  BY PruneInductiveInit, PruneInductive, PTL DEF PruneSpec
<1> QED BY <1>1, PTL DEF PruneIInv

=============================================================================
