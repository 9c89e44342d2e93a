------------------------------ MODULE Reprocess ------------------------------
(***************************************************************************)
(* TreeKeyCache.reprocessAllKeyLevelChildren (src/src/tree-key-cache.ts)   *)
(* next to the writers: it clears the children registry, iterates over all *)
(* storage keys and registers every node on the way to each of them.  The  *)
(* registrations of a partition run concurrently; the consumer is given    *)
(* control when all of them have settled.                                  *)
(*                                                                         *)
(* randomIterate is external: it gives every key that is stored from its   *)
(* start on, may give later ones, and ends.                                *)
(***************************************************************************)
EXTENDS FullTreeSet

CONSTANTS
  Partition,      \* the partition argument
  ClearsRegistry  \* the storage has clearAllChildrenRegistry

ASSUME PartitionAssumption == Partition \in Nat /\ ClearsRegistry \in BOOLEAN

VARIABLES
  rpc,      \* what the reprocessing does next
  rleft,    \* the keys randomIterate still has to give
  rseen,    \* the keys it has given
  rpath,    \* the key being processed, and how many of its levels are left
  rcount,   \* promises.length
  inflight, \* the <<parent, node>> pairs whose registerChild has not settled
  rstart,   \* history: the keys that were stored when the iteration started
  wiped     \* history: the pairs the clearing removed

reprocessVars == <<rpc, rleft, rseen, rpath, rcount, inflight, rstart, wiped>>
allVars == <<vars, fullVars, reprocessVars>>

StoredKeys == {k \in Keys : storage[k] # Absent}

ReprocessInit ==
  /\ Init /\ FullInit
  /\ rpc = "clear"
  /\ rleft = {} /\ rseen = {}
  /\ rpath = <<>>
  /\ rcount = 0
  /\ inflight = {}
  /\ rstart = {} /\ wiped = {}
-----------------------------------------------------------------------------
\* clearAllChildrenRegistry?.(), after which randomIterate is called.
Clear ==
  /\ rpc = "clear"
  /\ wiped' = IF ClearsRegistry THEN registry ELSE {}
  /\ registry' = registry \ wiped'
  /\ rleft' = StoredKeys /\ rstart' = StoredKeys
  /\ rpc' = "iterate"
  /\ UNCHANGED <<storage, holder, releasing, callVars, written, fullVars, rseen, rpath, rcount, inflight>>

\* The next key of randomIterate: splitKey gives its path.
NextKey ==
  /\ rpc = "iterate"
  /\ \E k \in rleft \cup (StoredKeys \ rseen) :
       /\ rpath' = <<k, Len(k)>>
       /\ rleft' = rleft \ {k}
       /\ rseen' = rseen \cup {k}
  /\ rpc' = "push"
  /\ UNCHANGED <<vars, fullVars, rcount, inflight, rstart, wiped>>

\* Mutant: the nodes on the way are skipped, only the key itself is registered.
PairLastOnly == <<SubSeq(rpath[1], 1, Len(rpath[1]) - 1), rpath[1]>>

\* The parent and the node registered next: chainedKey and partialKey.
Pair ==
  LET l == Len(rpath[1]) - rpath[2] + 1
  IN <<SubSeq(rpath[1], 1, l - 1), SubSeq(rpath[1], 1, l)>>

\* registerChild is called, not awaited; a full partition is yielded.
Push ==
  /\ rpc = "push"
  /\ inflight' = inflight \cup {Pair}
  /\ rcount' = rcount + 1
  /\ rpath' = IF rpath[2] = 1 THEN <<>> ELSE <<rpath[1], rpath[2] - 1>>
  /\ rpc' = IF rcount + 1 >= Partition THEN "yield"
            ELSE IF rpath[2] = 1 THEN "iterate" ELSE "push"
  /\ UNCHANGED <<vars, fullVars, rleft, rseen, rstart, wiped>>

\* A registerChild takes effect.
Settle ==
  /\ \E pair \in inflight :
       /\ registry' = registry \cup {pair}
       /\ inflight' = inflight \ {pair}
  /\ UNCHANGED <<storage, holder, releasing, callVars, written, fullVars,
                 rpc, rleft, rseen, rpath, rcount, rstart, wiped>>

\* Mutant: the consumer is not made to wait for Promise.all.
YieldNotAwaited ==
  /\ rpc = "yield"
  /\ rcount' = 0
  /\ rpc' = IF rpath = <<>> THEN "iterate" ELSE "push"
  /\ UNCHANGED <<vars, fullVars, rleft, rseen, rpath, inflight, rstart, wiped>>

\* yield Promise.all(promises)
Yield == inflight = {} /\ YieldNotAwaited

\* randomIterate is exhausted; what is left of a partition is awaited.
Finish ==
  /\ rpc = "iterate"
  /\ rleft = {}
  /\ rcount > 0 => inflight = {}
  /\ rpc' = "done"
  /\ rcount' = 0 /\ rseen' = {}
  /\ UNCHANGED <<vars, fullVars, rleft, rpath, inflight, rstart, wiped>>

\* A registration or the iteration rejects, or the consumer stops.  What is in
\* flight still takes effect, except the registration that was rejected.
Stop ==
  /\ rpc \in {"clear", "iterate", "yield"}
  /\ rpc' = "stopped"
  /\ \E lost \in SUBSET inflight : inflight' = inflight \ lost
  /\ rleft' = {} /\ rseen' = {} /\ rpath' = <<>> /\ rcount' = 0
  /\ UNCHANGED <<vars, fullVars, rstart, wiped>>

ReprocessStep == Clear \/ NextKey \/ Push \/ Settle \/ Yield \/ Finish

Quiet ==
  /\ Ended /\ releasing = {} /\ inflight = {}
  /\ fpc \in {"done", "failed"} /\ rpc \in {"done", "stopped"}

ReprocessNext ==
  \/ \E p \in Calls : (Step(p) \/ Fail(p)) /\ UNCHANGED <<fullVars, reprocessVars>>
  \/ \E p \in Calls \cup {Full}, k \in Keys : Release(p, k) /\ UNCHANGED <<fullVars, reprocessVars>>
  \/ (FullStep \/ FullFails) /\ UNCHANGED reprocessVars
  \/ ReprocessStep
  \/ Stop
  \/ Quiet /\ UNCHANGED allVars

\* Promises settle, consumers ask for the next step or close the iteration, and
\* setImmediate callbacks run.
ReprocessSpec ==
  /\ ReprocessInit /\ [][ReprocessNext]_allVars
  /\ \A p \in Calls : WF_allVars(Step(p) /\ UNCHANGED <<fullVars, reprocessVars>>)
  /\ \A p \in Calls \cup {Full}, k \in Keys :
       WF_allVars(Release(p, k) /\ UNCHANGED <<fullVars, reprocessVars>>)
  /\ WF_allVars(FullStep /\ UNCHANGED reprocessVars)
  /\ WF_allVars(ReprocessStep)
-----------------------------------------------------------------------------
(* Properties *)

Pairs(k) == {<<SubSeq(k, 1, l - 1), SubSeq(k, 1, l)>> : l \in 1 .. Len(k)}

\* When the reprocessing is done, every key that was stored when it started can
\* be reached through the registry, the tree level keys included.
ReprocessComplete == rpc = "done" => \A k \in rstart : Pairs(k) \subseteq registry

\* Apart from a reprocessing that is under way or was stopped, a stored key level
\* node is registered from the level its writers started at.  fullTreeSet alone
\* does not register its first level, and a reprocessing that clears in between
\* a registration and the store forgets the former.
RegistrationsSettled ==
  rpc \in {"clear", "done"} =>
    \A n \in StoredKeys : Len(n) < KeyLevelNodes =>
      \A pair \in Pairs(n) :
        \/ pair \in registry
        \/ \E p \in Calls : n \in PathNodes(p) /\ Len(pair[2]) <= Start[p]
        \/ Len(pair[2]) = 1 /\ n \in FullNodes /\ \A p \in Calls : n \notin written[p]
        \/ pair \in wiped /\ n \notin rstart

\* Everything ends: no call waits forever for a semaphore, and the reprocessing
\* gets through all keys although writers add to them.
EverythingEnds == <>[]Quiet

=============================================================================
