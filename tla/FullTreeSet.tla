----------------------------- MODULE FullTreeSet -----------------------------
(***************************************************************************)
(* TreeKeyCache.fullTreeSet (src/src/tree-key-cache.ts) next to the calls  *)
(* of DeepTreeSet.  It goes breadth first through the key levels of the    *)
(* tree it was given: each key level node has its children registered, is  *)
(* read, handed to the consumer and written; at level keyLevelNodes        *)
(* saveFullTreeValue reads the stored tree, merges everything below into   *)
(* it and writes it back.                                                  *)
(*                                                                         *)
(* The order of the nodes is the one TreeTraversal shows.  Ttl is the      *)
(* subject of Expiration.                                                  *)
(***************************************************************************)
EXTENDS DeepTreeSet

CONSTANTS
  Full,        \* the call, as a contributor and as a holder of semaphores
  FullNodes,   \* the nodes of the tree it was given
  FullOrder,   \* those up to level keyLevelNodes, breadth first
  FullMin,     \* its minLevelSemaphore
  FullCreated  \* what its createValue returns: None or {}

ASSUME FullAssumption ==
  /\ Full \in Writers \ Calls
  /\ FullNodes \subseteq Nodes
  /\ \A n \in FullNodes : \A l \in 1 .. Len(n) : SubSeq(n, 1, l) \in FullNodes
  /\ FullMin \in Nat
  /\ FullCreated \in {None, {}}

\* A node comes after the nodes above it, as TreeTraversal!AncestorOrder has it.
ASSUME FullOrderAssumption ==
  /\ FullOrder \in Seq({n \in FullNodes : Len(n) <= KeyLevelNodes})
  /\ Len(FullOrder) >= 1
  /\ \A i \in 1 .. Len(FullOrder) : \A l \in 1 .. Len(FullOrder[i]) - 1 :
       \E j \in 1 .. i - 1 : FullOrder[j] = SubSeq(FullOrder[i], 1, l)

VARIABLES
  fpc,      \* what fullTreeSet does next
  fi,       \* the node of FullOrder it is at
  ftodo,    \* the children it has still to register
  fcopy,    \* the nodes of the key it has read, as it has changed them
  fput,     \* the nodes of that key it has put its own value in
  fwritten  \* history: the nodes it has stored its own value in

fullVars == <<fpc, fi, ftodo, fcopy, fput, fwritten>>

FullInit ==
  /\ fpc = "acquire"
  /\ fi = 1
  /\ ftodo = {}
  /\ fcopy = Blank
  /\ fput = {}
  /\ fwritten = {}
-----------------------------------------------------------------------------
FNode == FullOrder[fi]

\* Compared with the level itself, not with the level above as in deepTreeSet.
FullLocks(n) == FullMin <= Len(n)

FChildren == {c \in FullNodes : Len(c) = Len(FNode) + 1 /\ SubSeq(c, 1, Len(FNode)) = FNode}

\* The section of a key starts with the registrations, or with the read.
FullEnter ==
  IF Len(FNode) < KeyLevelNodes /\ FChildren # {}
  THEN fpc' = "register" /\ ftodo' = FChildren
  ELSE fpc' = "get" /\ UNCHANGED ftodo

\* The section of the key, whether or not its semaphore is free.
FullEnterSection ==
  /\ fpc = "acquire"
  /\ holder' = IF FullLocks(FNode) THEN [holder EXCEPT ![FNode] = Full] ELSE holder
  /\ FullEnter
  /\ UNCHANGED <<storage, registry, releasing, callVars, written, fi, fcopy, fput, fwritten>>

\* Mutant: acquire is called without await.
FullAcquireNotAwaited == FullEnterSection

FullAcquire == (FullLocks(FNode) => holder[FNode] = Free) /\ FullEnterSection

\* One registerChild(chainedKey, key) of registerKeyLevelChildren.
FullRegister ==
  /\ fpc = "register"
  /\ \E c \in ftodo :
       /\ registry' = registry \cup {<<FNode, c>>}
       /\ ftodo' = ftodo \ {c}
       /\ fpc' = IF ftodo = {c} THEN "get" ELSE "register"
  /\ UNCHANGED <<storage, holder, releasing, callVars, written, fi, fcopy, fput, fwritten>>

FullGet ==
  /\ fpc = "get"
  /\ fcopy' = [n \in Nodes |-> IF KeyOf(n) = FNode THEN storage[n] ELSE Absent]
  /\ fpc' = "consume"
  /\ UNCHANGED <<storage, registry, holder, releasing, callVars, written, fi, ftodo, fput, fwritten>>

\* The node before its item is handed out: getStep's createValue at a key level,
\* a child created by saveFullTreeValue below it.  The root of a tree is {}.
FullFound(n) ==
  IF Len(n) < KeyLevelNodes THEN (IF fcopy[n] = Absent THEN FullCreated ELSE fcopy[n])
  ELSE IF fcopy[n] # Absent THEN fcopy[n]
  ELSE IF n = FNode THEN None ELSE FullCreated

\* Mutant: there is no finally block.
FullReleaseForgotten == UNCHANGED releasing

\* The finally block: the release is left to a later tick.
FullRelease ==
  releasing' = IF FullLocks(FNode) THEN releasing \cup {<<Full, FNode>>} ELSE releasing

FullLeave ==
  /\ FullRelease
  /\ fcopy' = Blank
  /\ fput' = {}
  /\ fpc' = IF fi < Len(FullOrder) THEN "acquire" ELSE "done"
  /\ fi' = IF fi < Len(FullOrder) THEN fi + 1 ELSE fi
  /\ UNCHANGED ftodo

\* Mutant: the tree that is stored is not merged with what was read.
FullMergedBlank(E, n) == IF n \in E THEN {Full} ELSE IF n \in FullNodes THEN None ELSE Absent

\* What becomes of a node under the key.  E: the nodes whose item has the call's
\* own value when the consumer is done.
FullMerged(E, n) ==
  IF n \in E THEN {Full} ELSE IF n \in FullNodes THEN FullFound(n) ELSE fcopy[n]

\* The item of n is left with a value that is not the stored one.  Below the key
\* an item without a value of its own is not compared.
FullDiffers(E, n) ==
  /\ FullMerged(E, n) # None
  /\ \/ FullMerged(E, n) # fcopy[n]
     \/ ~Comparable /\ (n \in E \/ Len(n) < KeyLevelNodes)

\* The items under the key.  Nothing is written if no item differs; a child that
\* was created without a value does not count as a difference.
FullConsume ==
  /\ fpc = "consume"
  /\ LET under == {n \in FullNodes : KeyOf(n) = FNode}
     IN \E E \in SUBSET under :
          IF \E n \in under : FullDiffers(E, n)
          THEN /\ fcopy' = [n \in Nodes |-> IF KeyOf(n) = FNode THEN FullMerged(E, n) ELSE Absent]
               /\ fput' = E
               /\ fpc' = "set"
               /\ UNCHANGED <<releasing, fi, ftodo>>
          ELSE FullLeave
  /\ UNCHANGED <<storage, registry, holder, callVars, written, fwritten>>

FullStore ==
  /\ storage' = [n \in Nodes |-> IF KeyOf(n) = FNode THEN fcopy[n] ELSE storage[n]]
  /\ fwritten' = fwritten \cup fput

\* storage.set of persistStep or persistTree.
FullSet ==
  /\ fpc = "set"
  /\ FullStore
  /\ FullLeave
  /\ UNCHANGED <<registry, holder, callVars, written>>

\* An await rejects or the consumer stops: the key is released, if it was locked.
FullFails ==
  /\ fpc \in {"acquire", "register", "get", "consume", "set"}
  /\ \/ UNCHANGED <<storage, fwritten>>
     \/ fpc = "set" /\ FullStore
  /\ IF fpc = "acquire" THEN UNCHANGED releasing ELSE FullRelease
  /\ fpc' = "failed"
  /\ ftodo' = {} /\ fcopy' = Blank /\ fput' = {}
  /\ UNCHANGED <<registry, holder, callVars, written, fi>>

FullStep == FullAcquire \/ FullRegister \/ FullGet \/ FullConsume \/ FullSet
-----------------------------------------------------------------------------
(* Properties *)

\* Every writer of k, fullTreeSet included, takes its semaphore.
AllGuarded(k) == Guarded(k) /\ (k \in FullNodes => FullLocks(k))

\* Neither kind of call keeps a semaphore it has left, or gives away another's,
\* although both release in a later tick and walk the keys in different orders.
FullLocksExclusive ==
  /\ LockOwnership
  /\ \A k \in Keys : holder[k] = Full <=>
       \/ fpc \in {"register", "get", "consume", "set"} /\ FNode = k /\ FullLocks(k)
       \/ <<Full, k>> \in releasing

\* No lost update between deepTreeSet and fullTreeSet: a contribution stays in
\* its node until a setNode or fullTreeSet itself replaces that node's value.
FullNoLostUpdate ==
  \A n \in Nodes : AllGuarded(KeyOf(n)) =>
    /\ \A p \in Calls : n \in written[p] =>
         p \in Contributors(storage[n]) \/ Overwritten(n) \/ n \in fwritten
    /\ n \in fwritten => Full \in Contributors(storage[n]) \/ Overwritten(n)

=============================================================================
