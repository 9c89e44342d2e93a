----------------------------- MODULE PruneStorage -----------------------------
(***************************************************************************)
(* TreeKeyCache.prune (src/src/tree-key-cache.ts) next to the writers of   *)
(* DeepTreeSet: the tree level keys are read and pruned one after the      *)
(* other without the semaphore; for each tree that pruneTree changed a     *)
(* task of its own, not awaited before the next key is read, acquires the  *)
(* semaphore and writes the tree that was read.                            *)
(*                                                                         *)
(* pruneTree is taken as what PruneTree shows of it.  Nothing expires      *)
(* here: what prune may remove are nodes without a value.                  *)
(***************************************************************************)
EXTENDS DeepTreeSet

CONSTANTS
  Pruner,        \* prune as a holder of semaphores
  PruneFaults    \* which of {"acquire", "set"} may fail in prune

ASSUME PrunerAssumption == Pruner \in Writers \ Calls

VARIABLES
  task,       \* task[k]: prune's state for key k
  copy,       \* copy[k]: the tree of k as prune read it, pruned
  dropping,   \* the keys whose release by prune is scheduled
  seen,       \* seen[k]: the <<call, node>> stored under k when prune read it
  raced       \* the <<call, node>> that were stored between prune's read and write

pruneVars == <<task, copy, dropping, seen, raced>>
allVars == <<vars, pruneVars>>

TreeKeys == {k \in Keys : Len(k) = KeyLevelNodes}

InSubtree(n, m) == Len(n) <= Len(m) /\ SubSeq(m, 1, Len(n)) = n

HasValue(cell) == cell \notin {None, Absent}

StoredUnder(k) == {c \in Calls \X Nodes : c[2] \in written[c[1]] /\ KeyOf(c[2]) = k}

PruneInit ==
  /\ Init
  /\ task = [k \in TreeKeys |-> "idle"]
  /\ copy = [k \in TreeKeys |-> Blank]
  /\ dropping = {}
  /\ seen = [k \in TreeKeys |-> {}]
  /\ raced = {}

-----------------------------------------------------------------------------

\* Mutant: a node without a value goes with all that is below it.
PrunedByValueOnly(k) ==
  [n \in Nodes |->
     IF KeyOf(n) # k THEN Absent
     ELSE IF \A m \in Nodes : InSubtree(m, n) /\ Len(m) > Len(k) => HasValue(storage[m])
          THEN storage[n]
          ELSE Absent]

\* The tree of k without its empty branches; the root stays.
Pruned(k) ==
  [n \in Nodes |->
     IF KeyOf(n) # k THEN Absent
     ELSE IF n = k \/ \E m \in Nodes : InSubtree(n, m) /\ HasValue(storage[m])
          THEN storage[n]
          ELSE Absent]

\* What pruneTree returns: true for any tree with a node that has no value.
Changed(k) == \E n \in Nodes : KeyOf(n) = k /\ storage[n] = None

\* getNodeRef(path, true) reads the key and has a tree only if something is stored.
Found(k) == storage[k] # Absent

\* randomIterate gives the key, getNodeRef reads it, pruneTree prunes the copy.
PruneRead(k) ==
  /\ task[k] = "idle"
  /\ Found(k)
  /\ task' = [task EXCEPT ![k] = IF Changed(k) THEN "acquire" ELSE "done"]
  /\ copy' = [copy EXCEPT ![k] = Pruned(k)]
  /\ seen' = [seen EXCEPT ![k] = StoredUnder(k)]
  /\ UNCHANGED <<vars, dropping, raced>>

\* await semaphore.acquire(chainedKey)
PruneAcquire(k) ==
  /\ task[k] = "acquire"
  /\ holder[k] = Free
  /\ holder' = [holder EXCEPT ![k] = Pruner]
  /\ task' = [task EXCEPT ![k] = "set"]
  /\ UNCHANGED <<storage, registry, releasing, callVars, written, copy, dropping, seen, raced>>

PruneAcquireFails(k) ==
  /\ "acquire" \in PruneFaults
  /\ task[k] = "acquire"
  /\ task' = [task EXCEPT ![k] = "failed"]
  /\ UNCHANGED <<vars, copy, dropping, seen, raced>>

StoreCopy(k) ==
  /\ storage' = [n \in Nodes |-> IF KeyOf(n) = k THEN copy[k][n] ELSE storage[n]]
  /\ raced' = raced \cup (StoredUnder(k) \ seen[k])

\* Mutant: the release is forgotten.
PruneSetKeepsSemaphore(k) ==
  /\ task[k] = "set"
  /\ StoreCopy(k)
  /\ task' = [task EXCEPT ![k] = "done"]
  /\ UNCHANGED <<registry, holder, releasing, callVars, written, copy, dropping, seen>>

\* Mutant: the semaphore is released at once, and once more in a later tick.
PruneSetReleasesTwice(k) ==
  /\ task[k] = "set"
  /\ StoreCopy(k)
  /\ task' = [task EXCEPT ![k] = "done"]
  /\ dropping' = dropping \cup {k}
  /\ holder' = [holder EXCEPT ![k] = Free]
  /\ UNCHANGED <<registry, releasing, callVars, written, copy, seen>>

\* getCurrentTtl, persistTree and dontWait(release).
PruneSet(k) ==
  /\ task[k] = "set"
  /\ StoreCopy(k)
  /\ task' = [task EXCEPT ![k] = "done"]
  /\ dropping' = dropping \cup {k}
  /\ UNCHANGED <<registry, holder, releasing, callVars, written, copy, seen>>

\* getCurrentTtl or set rejects, the tree stored or not: there is no finally
\* block, and the semaphore stays with prune.
PruneSetFails(k) ==
  /\ "set" \in PruneFaults
  /\ task[k] = "set"
  /\ UNCHANGED <<storage, raced>> \/ StoreCopy(k)
  /\ task' = [task EXCEPT ![k] = "failed"]
  /\ UNCHANGED <<registry, holder, releasing, callVars, written, copy, dropping, seen>>

PruneRelease(k) ==
  /\ k \in dropping
  /\ dropping' = dropping \ {k}
  /\ holder' = [holder EXCEPT ![k] = Free]
  /\ UNCHANGED <<storage, registry, releasing, callVars, written, task, copy, seen, raced>>

-----------------------------------------------------------------------------

\* The semaphore of k was lost by prune.
Leaked(k) == holder[k] = Pruner /\ k \in TreeKeys /\ task[k] = "failed"

\* p is over, or waits for a semaphore that prune has lost.
Over(p) == pc[p] \in {"done", "failed"} \/ (pc[p] = "acquire" /\ Leaked(ChainedKey(p)))

\* Nothing is left to happen but what waits for a lost semaphore.
Quiet ==
  /\ \A p \in Calls : Over(p)
  /\ releasing = {} /\ dropping = {}
  /\ \A k \in TreeKeys : task[k] \in {"idle", "done", "failed"}
  /\ UNCHANGED allVars

PruneTask(k) == PruneAcquire(k) \/ PruneSet(k)

PruneNext ==
  \/ \E p \in Calls : (Step(p) \/ Fail(p)) /\ UNCHANGED pruneVars
  \/ \E p \in Calls, k \in Keys : Release(p, k) /\ UNCHANGED pruneVars
  \/ \E k \in TreeKeys :
       \/ PruneRead(k)
       \/ PruneTask(k)
       \/ PruneAcquireFails(k)
       \/ PruneSetFails(k)
       \/ PruneRelease(k)
  \/ Quiet

\* Promises of the storage and of the semaphore settle, consumers ask for the
\* next step or close the iteration, and setImmediate callbacks run; whether
\* prune gets to a key is up to randomIterate.
PruneSpec ==
  /\ PruneInit /\ [][PruneNext]_allVars
  /\ \A p \in Calls : WF_allVars(Step(p) /\ UNCHANGED pruneVars)
  /\ \A p \in Calls, k \in Keys : WF_allVars(Release(p, k) /\ UNCHANGED pruneVars)
  /\ \A k \in TreeKeys : WF_allVars(PruneTask(k)) /\ WF_allVars(PruneRelease(k))

-----------------------------------------------------------------------------
(* Properties *)

\* prune and the writers never share a semaphore, and neither releases the
\* other's, although prune's release too is left to a later tick.
SemaphoresExclusive ==
  /\ LockOwnership
  /\ \A k \in TreeKeys :
       holder[k] = Pruner <=> task[k] = "set" \/ k \in dropping \/ Leaked(k)

\* What a call has stored before prune reads a tree survives it, and so does
\* what is stored after prune has written it: nothing is lost under a guarded
\* key but what was stored between the two.
SettledSurvives ==
  \A p \in Calls : \A n \in written[p] :
    Guarded(KeyOf(n)) =>
      \/ p \in Contributors(storage[n])
      \/ Overwritten(n)
      \/ <<p, n>> \in raced

\* Every call ends and every semaphore is given back, with prune running: all
\* that may wait forever are the calls for a key whose semaphore a failing
\* prune has lost.
EndsUnlessLeaked ==
  <>[](/\ \A p \in Calls : Over(p)
       /\ \A k \in Keys : holder[k] = Free \/ Leaked(k))

\* "removing all empty or expired nodes": a node that holds a value which has
\* not expired is never removed, nor is its value.
OnlyEmptyRemoved ==
  \A p \in Calls : \A n \in written[p] :
    p \in Contributors(storage[n]) \/ Overwritten(n)

===============================================================================
