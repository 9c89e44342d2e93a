---------------------------- MODULE ReprocessProofs ----------------------------
(***************************************************************************)
(* Proofs about fullTreeSet and the reprocessing of the children registry  *)
(* next to the writers.                                                    *)
(***************************************************************************)
EXTENDS Reprocess, DeepTreeSetProofs

\* The <<parent, node>> pairs of the nodes.
AllPairs == UNION {{<<PathNode(p, l - 1), PathNode(p, l)>> : l \in 1 .. Length(p)} : p \in Calls}

\* The keys that all writers lock, fullTreeSet included.
SharedKeys == {k \in Keys : AllGuarded(k)}

FullSection == fpc \in {"register", "get", "consume", "set"}

FullTypeOK ==
  /\ fpc \in {"acquire", "register", "get", "consume", "set", "done", "failed"}
  /\ fi \in 1 .. Len(FullOrder)
  /\ fpc = "register" => ftodo \subseteq FChildren
  /\ fcopy \in [Nodes -> Cells]
  /\ fpc = "set" => \A n \in fput : n \in Nodes /\ KeyOf(n) = FNode
  /\ fwritten \subseteq Nodes

\* fullTreeSet never comes back to a key whose release is still scheduled.
FullLockInv ==
  /\ \A k \in Keys : holder[k] = Full <=>
       \/ FullSection /\ FNode = k /\ FullLocks(k)
       \/ <<Full, k>> \in releasing
  /\ FullSection /\ FullLocks(FNode) => <<Full, FNode>> \notin releasing

\* The copy fullTreeSet has of a shared key is what is stored there, and once it
\* is merged it lacks nothing but what the call's own values replace.
FullCopyInv ==
  FNode \in SharedKeys =>
    \A n \in Nodes : KeyOf(n) = FNode =>
      /\ fpc = "consume" => fcopy[n] = storage[n]
      /\ fpc = "set" => IF n \in fput THEN fcopy[n] = {Full}
                        ELSE Contributors(storage[n]) \subseteq Contributors(fcopy[n])

FullIInv ==
  /\ CoreInv(SharedKeys)
  /\ FullTypeOK /\ FullLockInv /\ FullCopyInv /\ FullNoLostUpdate

-----------------------------------------------------------------------------
(* The structure *)

\* A node is the prefix of itself, and its prefixes are nodes of the same path.
LEMMA NodePrefixes ==
  ASSUME NEW n \in Nodes
  PROVE  /\ SubSeq(n, 1, Len(n)) = n
         /\ \A l \in 1 .. Len(n) :
              <<SubSeq(n, 1, l - 1), SubSeq(n, 1, l)>> \in AllPairs
<1>1. PICK p \in Calls : Len(n) \in 1 .. Length(p) /\ n = PathNode(p, Len(n))
  BY NodeFacts
<1>2. Len(n) \in Nat /\ Length(p) \in Nat
  BY <1>1, LevelFacts, NodeFacts
<1>3. SubSeq(n, 1, Len(n)) = n
  <2>1. Len(n) \in 0 .. Len(n)
    BY <1>2
  <2> QED BY <1>1, <2>1, PrefixOfPathNode
<1>4. ASSUME NEW l \in 1 .. Len(n)
      PROVE  <<SubSeq(n, 1, l - 1), SubSeq(n, 1, l)>> \in AllPairs
  <2>1. l \in 0 .. Len(n) /\ l - 1 \in 0 .. Len(n) /\ l \in 1 .. Length(p)
    BY <1>1, <1>2
  <2>2. SubSeq(n, 1, l) = PathNode(p, l) /\ SubSeq(n, 1, l - 1) = PathNode(p, l - 1)
    BY <1>1, <2>1, PrefixOfPathNode
  <2>3. <<PathNode(p, l - 1), PathNode(p, l)>> \in
          {<<PathNode(p, j - 1), PathNode(p, j)>> : j \in 1 .. Length(p)}
    BY <2>1
  <2> QED BY <2>2, <2>3 DEF AllPairs
<1> QED BY <1>3, <1>4

\* The nodes that fullTreeSet goes through are storage keys.
LEMMA FNodeFacts ==
  ASSUME FullTypeOK
  PROVE  /\ FNode \in FullNodes /\ FNode \in Nodes /\ FNode \in Keys /\ KeyOf(FNode) = FNode
         /\ Len(FNode) \in Nat /\ Len(FNode) >= 1 /\ Len(FNode) <= KeyLevelNodes
<1>1. FNode \in FullNodes /\ Len(FNode) <= KeyLevelNodes
  BY FullOrderAssumption DEF FullTypeOK, FNode
<1>2. FNode \in Nodes
  BY <1>1, FullAssumption
<1>3. Len(FNode) \in Nat /\ Len(FNode) >= 1
  BY <1>2, NodeFacts
<1>4. PICK p \in Calls : Len(FNode) \in 1 .. Length(p) /\ FNode = PathNode(p, Len(FNode))
  BY <1>2, NodeFacts
<1>5. KeyOf(FNode) = FNode
  <2>1. KeyLevel(Len(FNode)) = Len(FNode)
    BY <1>1, <1>3, KeyLevelNodesAssumption DEF KeyLevel
  <2> QED BY <1>4, <2>1, KeyOfPathNode
<1> QED BY <1>1, <1>2, <1>3, <1>5 DEF Keys

\* What fullTreeSet registers: a node and one of its children.
LEMMA ChildPair ==
  ASSUME FullTypeOK, NEW c \in FChildren
  PROVE  /\ c \in Nodes /\ Len(c) = Len(FNode) + 1
         /\ <<FNode, c>> = <<SubSeq(c, 1, Len(c) - 1), SubSeq(c, 1, Len(c))>>
         /\ <<FNode, c>> \in AllPairs
<1>1. c \in Nodes /\ Len(c) = Len(FNode) + 1 /\ SubSeq(c, 1, Len(FNode)) = FNode
  BY FullAssumption DEF FChildren
<1>2. Len(FNode) \in Nat /\ Len(c) \in 1 .. Len(c) /\ Len(c) - 1 = Len(FNode)
  BY <1>1, FNodeFacts
<1> QED BY <1>1, <1>2, NodePrefixes

-----------------------------------------------------------------------------
(* fullTreeSet next to the calls *)

\* A step that leaves all but the registry alone.
LEMMA FullFrame ==
  ASSUME FullIInv, registry' \subseteq AllPairs,
         UNCHANGED <<storage, holder, releasing, callVars, written, fullVars>>
  PROVE  FullIInv'
<1>1. /\ CoreInv(SharedKeys) /\ TypeOK
      /\ UNCHANGED <<pc, level, local, changed, fpc, fi, ftodo, fcopy, fput, fwritten>>
  BY DEF FullIInv, CoreInv, callVars, fullVars
<1>2. TypeOK'
  BY <1>1 DEF TypeOK, AllPairs, PathNode, Length
<1>3. CoreInv(SharedKeys)'
  BY <1>1, <1>2, ForeignStep
<1>4. FNode' = FNode /\ FChildren' = FChildren
  BY <1>1 DEF FNode, FChildren
<1>5. FullTypeOK' /\ FullLockInv' /\ FullCopyInv'
  BY <1>1, <1>4 DEF FullIInv, FullTypeOK, FullLockInv, FullSection, FullLocks, FullCopyInv, Contributors
<1>6. FullNoLostUpdate'
  BY <1>1 DEF FullIInv, FullNoLostUpdate, Contributors, Overwritten, IsTarget
<1> QED BY <1>3, <1>5, <1>6 DEF FullIInv

\* A step of the calls.
LEMMA FullCallStep ==
  ASSUME FullIInv, [Next]_vars, UNCHANGED fullVars
  PROVE  FullIInv'
<1>0. /\ CoreInv(SharedKeys) /\ TypeOK /\ LockInv /\ WriteInv /\ SharedKeys \in SUBSET GuardedKeys
      /\ FullTypeOK /\ FullLockInv
      /\ UNCHANGED <<fpc, fi, ftodo, fcopy, fput, fwritten>>
  BY DEF FullIInv, CoreInv, fullVars, SharedKeys, GuardedKeys, AllGuarded
<1>1. CoreInv(SharedKeys)'
  BY <1>0, CoreStep
<1>2. FNode' = FNode /\ FChildren' = FChildren
  BY <1>0 DEF FNode, FChildren
<1>3. FullTypeOK'
  BY <1>0, <1>2 DEF FullTypeOK
<1>4. FullLockInv'
  <2>1. \A k \in Keys : /\ holder'[k] = Full <=> holder[k] = Full
                        /\ <<Full, k>> \in releasing' <=> <<Full, k>> \in releasing
    BY <1>0, ForeignHolder, ForeignReleases, FullAssumption
  <2> QED BY <1>0, <1>2, <2>1, FNodeFacts DEF FullLockInv, FullSection, FullLocks
<1>5. \/ storage' = storage /\ written' = written
      \/ \E p \in Calls : pc[p] = "set" /\ StoreKey(p)
  BY StorageSteps
<1>6. FullCopyInv'
  <2> SUFFICES ASSUME FNode \in SharedKeys, NEW n \in Nodes, KeyOf(n) = FNode,
                      fpc \in {"consume", "set"}
               PROVE  storage'[n] = storage[n]
    BY <1>0, <1>2 DEF FullIInv, FullCopyInv, Contributors
  <2>1. holder[FNode] = Full
    BY <1>0, FNodeFacts DEF FullLockInv, FullSection, SharedKeys, AllGuarded
  <2>2. ASSUME NEW p \in Calls, pc[p] = "set", StoreKey(p) PROVE ChainedKey(p) # FNode
    <3> SUFFICES ASSUME ChainedKey(p) = FNode PROVE FALSE
      OBVIOUS
    <3>1. Locks(p, KeyLevel(level[p]))
      BY <1>0, <2>2, WriterLocks DEF SharedKeys, AllGuarded
    <3>2. holder[FNode] = p
      BY <1>0, <2>2, <3>1, FNodeFacts DEF LockInv, LockOwnership, InSection
    <3> QED BY <2>1, <3>2, FullAssumption
  <2> QED BY <1>5, <2>2 DEF StoreKey
<1>7. FullNoLostUpdate'
  <2> SUFFICES ASSUME NEW n \in Nodes, AllGuarded(KeyOf(n))
               PROVE  /\ \A q \in Calls : n \in written'[q] =>
                           q \in Contributors(storage'[n]) \/ Overwritten(n)' \/ n \in fwritten
                      /\ n \in fwritten => Full \in Contributors(storage'[n]) \/ Overwritten(n)'
    BY <1>0 DEF FullNoLostUpdate, AllGuarded, Guarded, MayWrite, Locks, MinLevel, FullLocks,
                Contributors
  <2>1. CASE storage' = storage /\ written' = written
    BY <2>1 DEF FullIInv, FullNoLostUpdate, Overwritten
  <2>2. ASSUME NEW p \in Calls, pc[p] = "set", StoreKey(p)
        PROVE  /\ \A q \in Calls : n \in written'[q] =>
                    q \in Contributors(storage'[n]) \/ Overwritten(n)' \/ n \in fwritten
               /\ n \in fwritten => Full \in Contributors(storage'[n]) \/ Overwritten(n)'
    <3>1. KeyOf(n) \in SharedKeys
      BY DEF SharedKeys, Keys
    <3>2. \A q : q \in Contributors(storage[n]) =>
                   q \in Contributors(storage'[n]) \/ Overwritten(n)'
      BY <1>0, <2>2, <3>1, StoreKeeps
    <3>3. Overwritten(n) => Overwritten(n)'
      BY <1>0, <2>2, StoreRecords
    <3>4. \A q \in Calls : n \in written'[q] =>
            n \in written[q] \/ q \in Contributors(storage'[n])
      BY <1>0, <2>2, StoreRecords
    <3> QED BY <3>2, <3>3, <3>4 DEF FullIInv, FullNoLostUpdate
  <2> QED BY <1>5, <2>1, <2>2
<1> QED BY <1>1, <1>3, <1>4, <1>6, <1>7 DEF FullIInv

\* fullTreeSet takes or gives back a semaphore.
LEMMA FullHolder ==
  ASSUME CoreInv(SharedKeys), NEW k \in Keys, holder[k] \in {Free, Full},
         NEW w \in {Free, Full}, holder' = [holder EXCEPT ![k] = w],
         releasing' \in {releasing, releasing \ {<<Full, k>>}},
         UNCHANGED <<storage, registry, callVars, written>>
  PROVE  CoreInv(SharedKeys)'
<1>1. TypeOK /\ UNCHANGED <<pc, level, local, changed>>
  BY DEF CoreInv, callVars
<1>2. /\ w \in Writers \cup {Free} /\ Full \notin Calls
      /\ \A q \in Calls : w # q /\ holder[k] # q
  BY FullAssumption, ConsumerAssumption, WriterAssumption
<1>3. TypeOK'
  BY <1>1, <1>2 DEF TypeOK
<1>4. \A q \in Calls, j \in Keys : /\ holder'[j] = q <=> holder[j] = q
                                   /\ <<q, j>> \in releasing' <=> <<q, j>> \in releasing
  BY <1>1, <1>2 DEF TypeOK
<1> QED BY <1>3, <1>4, ForeignStep

\* The scheduled release runs.
LEMMA FullReleaseStep ==
  ASSUME FullIInv, NEW k \in Keys, Release(Full, k), UNCHANGED fullVars
  PROVE  FullIInv'
<1>0. /\ CoreInv(SharedKeys) /\ TypeOK /\ FullTypeOK /\ FullLockInv
      /\ UNCHANGED <<fpc, fi, ftodo, fcopy, fput, fwritten>>
      /\ <<Full, k>> \in releasing /\ releasing' = releasing \ {<<Full, k>>}
      /\ holder' = [holder EXCEPT ![k] = Free]
      /\ UNCHANGED <<storage, registry, callVars, written>>
  BY DEF FullIInv, CoreInv, fullVars, Release
<1>1. FNode' = FNode /\ FChildren' = FChildren
  BY <1>0 DEF FNode, FChildren
<1>2. holder[k] = Full /\ Free # Full
  BY <1>0, FullAssumption, ConsumerAssumption DEF FullLockInv
<1>3. CoreInv(SharedKeys)'
  BY <1>0, <1>2, FullHolder
<1>4. FullTypeOK' /\ FullCopyInv'
  BY <1>0, <1>1 DEF FullIInv, FullTypeOK, FullCopyInv, Contributors
<1>5. FullLockInv'
  <2>1. \A j \in Keys : holder'[j] = IF j = k THEN Free ELSE holder[j]
    BY <1>0 DEF TypeOK
  <2>2. FullSection /\ FullLocks(FNode) => FNode # k
    BY <1>0 DEF FullLockInv
  <2>3. /\ \A j \in Keys : <<Full, j>> \in releasing' <=> j # k /\ <<Full, j>> \in releasing
        /\ FullSection' = FullSection
    BY <1>0 DEF FullSection
  <2> QED BY <1>0, <1>1, <1>2, <2>1, <2>2, <2>3, FNodeFacts DEF FullLockInv, FullLocks
<1>6. FullNoLostUpdate'
  BY <1>0 DEF FullIInv, FullNoLostUpdate, Contributors, Overwritten, IsTarget
<1> QED BY <1>3, <1>4, <1>5, <1>6 DEF FullIInv

\* Acquiring the semaphore of a level keeps the invariant of fullTreeSet.
LEMMA FullAcquireStep ==
  ASSUME FullIInv, FullAcquire
  PROVE  FullIInv'
<1>0. /\ CoreInv(SharedKeys) /\ TypeOK /\ FullTypeOK /\ FullLockInv /\ fpc = "acquire"
      /\ UNCHANGED <<storage, registry, releasing, callVars, written, fi, fcopy, fput, fwritten>>
      /\ FullLocks(FNode) => holder[FNode] = Free
      /\ holder' = IF FullLocks(FNode) THEN [holder EXCEPT ![FNode] = Full] ELSE holder
      /\ \/ fpc' = "register" /\ ftodo' = FChildren
         \/ fpc' = "get" /\ ftodo' = ftodo
  BY DEF FullIInv, CoreInv, FullAcquire, FullEnterSection, FullEnter
<1>1. FNode' = FNode /\ FChildren' = FChildren /\ FNode \in Keys
  BY <1>0, FNodeFacts DEF FNode, FChildren
<1>2. CoreInv(SharedKeys)'
  <2>1. CASE FullLocks(FNode)
    BY <1>0, <1>1, <2>1, FullHolder
  <2>2. CASE ~FullLocks(FNode)
    <3>1. UNCHANGED vars
      BY <1>0, <2>2 DEF vars, callVars
    <3>2. SharedKeys \in SUBSET GuardedKeys
      BY DEF SharedKeys, GuardedKeys, AllGuarded
    <3> QED BY <1>0, <3>1, <3>2, CoreStep
  <2> QED BY <2>1, <2>2
<1>3. FullTypeOK' /\ FullCopyInv'
  BY <1>0, <1>1 DEF FullTypeOK, FullCopyInv
<1>4. FullLockInv'
  <2>1. \A j \in Keys : holder'[j] = IF FullLocks(FNode) /\ j = FNode THEN Full ELSE holder[j]
    BY <1>0, <1>1 DEF TypeOK
  <2>2. FullLocks(FNode) => <<Full, FNode>> \notin releasing
    BY <1>0, <1>1, FullAssumption, ConsumerAssumption DEF FullLockInv
  <2>3. FullSection' /\ ~FullSection
    BY <1>0 DEF FullSection
  <2> QED BY <1>0, <1>1, <2>1, <2>2, <2>3 DEF FullLockInv, FullLocks
<1>5. FullNoLostUpdate'
  BY <1>0 DEF FullIInv, FullNoLostUpdate, Contributors, Overwritten, IsTarget
<1> QED BY <1>2, <1>3, <1>4, <1>5 DEF FullIInv

\* A step within the section that changes nothing but the copy and the registry.
LEMMA FullWithin ==
  ASSUME FullIInv, FullSection, FullSection', FullTypeOK', FullCopyInv',
         registry' \subseteq AllPairs,
         UNCHANGED <<storage, holder, releasing, callVars, written, fi, fwritten>>
  PROVE  FullIInv'
<1>0. /\ CoreInv(SharedKeys) /\ TypeOK /\ FullLockInv
      /\ UNCHANGED <<pc, level, local, changed>>
  BY DEF FullIInv, CoreInv, callVars
<1>1. TypeOK'
  BY <1>0 DEF TypeOK, AllPairs, PathNode, Length
<1>2. CoreInv(SharedKeys)'
  BY <1>0, <1>1, ForeignStep
<1>3. FNode' = FNode
  BY DEF FNode
<1>4. FullLockInv'
  BY <1>0, <1>3 DEF FullLockInv, FullLocks
<1>5. FullNoLostUpdate'
  BY DEF FullIInv, FullNoLostUpdate, Contributors, Overwritten, IsTarget
<1> QED BY <1>2, <1>4, <1>5 DEF FullIInv

\* registerKeyLevelChildren keeps the invariant of fullTreeSet.
LEMMA FullRegisterStep ==
  ASSUME FullIInv, FullRegister
  PROVE  FullIInv'
<1>1. PICK c \in ftodo :
        /\ registry' = registry \cup {<<FNode, c>>}
        /\ ftodo' = ftodo \ {c}
        /\ fpc' \in {"get", "register"}
  BY DEF FullRegister
<1>2. /\ fpc = "register" /\ TypeOK /\ FullTypeOK
      /\ UNCHANGED <<storage, holder, releasing, callVars, written, fi, fcopy, fput, fwritten>>
  BY DEF FullRegister, FullIInv, CoreInv
<1>3. FNode' = FNode /\ FChildren' = FChildren
  BY <1>2 DEF FNode, FChildren
<1>4. c \in FChildren
  BY <1>2 DEF FullTypeOK
<1>5. registry' \subseteq AllPairs
  BY <1>1, <1>2, <1>4, ChildPair DEF TypeOK, AllPairs
<1>6. FullTypeOK' /\ FullCopyInv'
  BY <1>1, <1>2, <1>3 DEF FullTypeOK, FullCopyInv
<1>7. FullSection /\ FullSection'
  BY <1>1, <1>2 DEF FullSection
<1> QED BY <1>2, <1>5, <1>6, <1>7, FullWithin

\* Reading a key keeps the invariant of fullTreeSet.
LEMMA FullGetStep ==
  ASSUME FullIInv, FullGet
  PROVE  FullIInv'
<1>1. /\ fpc = "get" /\ fpc' = "consume" /\ TypeOK /\ FullTypeOK
      /\ fcopy' = [n \in Nodes |-> IF KeyOf(n) = FNode THEN storage[n] ELSE Absent]
      /\ UNCHANGED <<storage, registry, holder, releasing, callVars, written, fi, ftodo, fput, fwritten>>
  BY DEF FullGet, FullIInv, CoreInv
<1>2. FNode' = FNode
  BY <1>1 DEF FNode
<1>3. FullTypeOK'
  BY <1>1 DEF FullTypeOK, TypeOK, Cells
<1>4. FullCopyInv'
  BY <1>1, <1>2 DEF FullCopyInv
<1>5. registry' \subseteq AllPairs
  BY <1>1 DEF TypeOK, AllPairs
<1>6. FullSection /\ FullSection'
  BY <1>1 DEF FullSection
<1> QED BY <1>1, <1>3, <1>4, <1>5, <1>6, FullWithin

\* fullTreeSet leaves the section of a key, having stored its copy or not.
LEMMA FullExit ==
  ASSUME FullIInv, FullSection, FullRelease,
         UNCHANGED <<registry, holder, callVars, written>>,
         UNCHANGED <<storage, fwritten>> \/ (fpc = "set" /\ FullStore),
         fpc' \in {"acquire", "done", "failed"}, fi' \in 1 .. Len(FullOrder), fcopy' = Blank
  PROVE  FullIInv'
<1>0. /\ CoreInv(SharedKeys) /\ TypeOK /\ LockInv /\ FullTypeOK /\ FullLockInv
      /\ UNCHANGED <<pc, level, local, changed>>
  BY DEF FullIInv, CoreInv, callVars
<1>1. FNode \in Keys /\ FNode \in FullNodes /\ FNode \in Nodes
  BY <1>0, FNodeFacts
<1>2. /\ storage' \in [Nodes -> Cells] /\ fwritten' \subseteq Nodes
      /\ \A n \in Nodes : KeyOf(n) # FNode => storage'[n] = storage[n]
  BY <1>0 DEF FullStore, TypeOK, FullTypeOK
<1>3. /\ releasing' \subseteq Writers \X Keys
      /\ \A w \in Writers, k \in Keys :
           <<w, k>> \in releasing' <=>
             <<w, k>> \in releasing \/ (w = Full /\ k = FNode /\ FullLocks(FNode))
  BY <1>0, <1>1, FullAssumption DEF FullRelease, TypeOK
<1>4. TypeOK'
  BY <1>0, <1>2, <1>3 DEF TypeOK
<1>5. CoreInv(SharedKeys)'
  <2>1. \A q \in Calls, k \in Keys : <<q, k>> \in releasing' <=> <<q, k>> \in releasing
    BY <1>3, FullAssumption, WriterAssumption
  <2>2. ASSUME NEW n \in Nodes, NEW q \in Calls,
               InSection(q), Locks(q, KeyLevel(level[q])),
               ChainedKey(q) \in SharedKeys, KeyOf(n) = ChainedKey(q)
        PROVE  storage'[n] = storage[n]
    <3>1. CASE KeyOf(n) # FNode
      BY <1>2, <3>1
    <3>2. CASE KeyOf(n) = FNode
      <4>1. holder[FNode] = q
        BY <1>0, <1>1, <2>2, <3>2 DEF LockInv, LockOwnership
      <4>2. holder[FNode] = Full
        BY <1>0, <1>1, <2>2, <3>2 DEF FullLockInv, SharedKeys, AllGuarded
      <4> QED BY <4>1, <4>2, FullAssumption
    <3> QED BY <3>1, <3>2
  <2> QED BY <1>0, <1>4, <2>1, <2>2, ForeignStep
<1>6. FullTypeOK' /\ FullCopyInv'
  BY <1>2, BlankType DEF FullTypeOK, FullCopyInv
<1>7. FullLockInv'
  <2>1. ~FullSection'
    BY DEF FullSection
  <2>2. \A k \in Keys : <<Full, k>> \in releasing' <=>
          <<Full, k>> \in releasing \/ (k = FNode /\ FullLocks(FNode))
    BY <1>3, FullAssumption
  <2> QED BY <1>0, <2>1, <2>2 DEF FullLockInv
<1>8. FullNoLostUpdate'
  <2>1. CASE UNCHANGED <<storage, fwritten>>
    BY <2>1 DEF FullIInv, FullNoLostUpdate, Contributors, Overwritten, IsTarget
  <2>2. CASE fpc = "set" /\ FullStore
    <3> SUFFICES ASSUME NEW n \in Nodes, AllGuarded(KeyOf(n))
                 PROVE  /\ \A q \in Calls : n \in written[q] =>
                             q \in Contributors(storage'[n]) \/ Overwritten(n) \/ n \in fwritten'
                        /\ n \in fwritten' => Full \in Contributors(storage'[n]) \/ Overwritten(n)
      BY DEF FullNoLostUpdate, AllGuarded, Guarded, MayWrite, Locks, MinLevel, FullLocks,
             Contributors, Overwritten, IsTarget
    <3>1. /\ fwritten' = fwritten \cup fput
          /\ storage'[n] = IF KeyOf(n) = FNode THEN fcopy[n] ELSE storage[n]
      BY <2>2 DEF FullStore
    <3>2. /\ \A q \in Calls : n \in written[q] =>
               q \in Contributors(storage[n]) \/ Overwritten(n) \/ n \in fwritten
          /\ n \in fwritten => Full \in Contributors(storage[n]) \/ Overwritten(n)
      BY DEF FullIInv, FullNoLostUpdate
    <3>3. CASE KeyOf(n) # FNode
      <4>1. n \notin fput
        BY <1>0, <2>2, <3>3 DEF FullTypeOK
      <4> QED BY <3>1, <3>2, <3>3, <4>1
    <3>4. CASE KeyOf(n) = FNode
      <4>1. FNode \in SharedKeys
        BY <1>1, <3>4 DEF SharedKeys
      <4>2. CASE n \in fput
        <5>1. storage'[n] = {Full}
          BY <2>2, <3>1, <3>4, <4>1, <4>2 DEF FullIInv, FullCopyInv
        <5>2. Full \in Contributors(storage'[n])
          BY <5>1, SentinelAssumption, FullAssumption DEF Contributors
        <5> QED BY <3>1, <4>2, <5>2
      <4>3. CASE n \notin fput
        <5>1. Contributors(storage[n]) \subseteq Contributors(storage'[n])
          BY <2>2, <3>1, <3>4, <4>1, <4>3 DEF FullIInv, FullCopyInv
        <5> QED BY <3>1, <3>2, <4>3, <5>1
      <4> QED BY <4>2, <4>3
    <3> QED BY <3>3, <3>4
  <2> QED BY <2>1, <2>2
<1> QED BY <1>5, <1>6, <1>7, <1>8 DEF FullIInv

\* What fullTreeSet merges into its copy takes nothing away from it.
LEMMA MergedFacts ==
  ASSUME FullTypeOK, NEW E, NEW n \in Nodes
  PROVE  /\ FullMerged(E, n) \in Cells
         /\ n \in E => FullMerged(E, n) = {Full}
         /\ n \notin E => Contributors(FullMerged(E, n)) = Contributors(fcopy[n])
<1>1. fcopy[n] \in Cells /\ {Full} \in Cells /\ FullCreated \in Cells /\ None \in Cells
  BY FullAssumption DEF FullTypeOK, Cells, Values
<1>2. Contributors(FullCreated) = {} /\ Contributors(None) = {} /\ Contributors(Absent) = {}
  BY FullAssumption DEF Contributors
<1>3. FullFound(n) \in Cells /\ Contributors(FullFound(n)) = Contributors(fcopy[n])
  BY <1>1, <1>2 DEF FullFound
<1> QED BY <1>1, <1>3 DEF FullMerged

\* The items under a key keep the invariant of fullTreeSet.
LEMMA FullConsumeStep ==
  ASSUME FullIInv, FullConsume
  PROVE  FullIInv'
<1>0. /\ fpc = "consume" /\ TypeOK /\ FullTypeOK
      /\ UNCHANGED <<storage, registry, holder, callVars, written, fwritten>>
  BY DEF FullConsume, FullIInv, CoreInv
<1>1. PICK E \in SUBSET {n \in FullNodes : KeyOf(n) = FNode} :
        \/ /\ fcopy' = [n \in Nodes |-> IF KeyOf(n) = FNode THEN FullMerged(E, n) ELSE Absent]
           /\ fput' = E /\ fpc' = "set"
           /\ UNCHANGED <<releasing, fi, ftodo>>
        \/ FullLeave
  BY Zenon DEF FullConsume
<1>2. CASE FullLeave
  <2>1. FullSection
    BY <1>0 DEF FullSection
  <2>2. /\ FullRelease /\ fcopy' = Blank /\ fpc' \in {"acquire", "done", "failed"}
        /\ fi' \in 1 .. Len(FullOrder)
    BY <1>0, <1>2, FullOrderAssumption DEF FullLeave, FullTypeOK
  <2> QED BY <1>0, <2>1, <2>2, FullExit
<1>3. CASE /\ fcopy' = [n \in Nodes |-> IF KeyOf(n) = FNode THEN FullMerged(E, n) ELSE Absent]
           /\ fput' = E /\ fpc' = "set"
           /\ UNCHANGED <<releasing, fi, ftodo>>
  <2>1. FNode' = FNode
    BY <1>3 DEF FNode
  <2>2. FullTypeOK'
    <3>1. \A n \in Nodes : FullMerged(E, n) \in Cells
      BY <1>0, MergedFacts
    <3>2. fcopy' \in [Nodes -> Cells]
      BY <1>3, <3>1 DEF Cells
    <3>3. \A n \in E : n \in Nodes /\ KeyOf(n) = FNode
      BY FullAssumption
    <3> QED BY <1>0, <1>3, <2>1, <3>2, <3>3 DEF FullTypeOK
  <2>3. FullCopyInv'
    <3> SUFFICES ASSUME FNode \in SharedKeys, NEW n \in Nodes, KeyOf(n) = FNode
                 PROVE  IF n \in E THEN fcopy'[n] = {Full}
                        ELSE Contributors(storage[n]) \subseteq Contributors(fcopy'[n])
      BY <1>0, <1>3, <2>1 DEF FullCopyInv, Contributors
    <3>1. fcopy'[n] = FullMerged(E, n) /\ fcopy[n] = storage[n]
      BY <1>0, <1>3 DEF FullIInv, FullCopyInv
    <3> QED BY <1>0, <3>1, MergedFacts
  <2>4. FullSection /\ FullSection' /\ registry' \subseteq AllPairs
    BY <1>0, <1>3 DEF FullSection, TypeOK, AllPairs
  <2> QED BY <1>0, <1>3, <2>2, <2>3, <2>4, FullWithin
<1> QED BY <1>1, <1>2, <1>3

\* saveFullTreeValue keeps the invariant of fullTreeSet.
LEMMA FullSetStep ==
  ASSUME FullIInv, FullSet
  PROVE  FullIInv'
<1>1. /\ fpc = "set" /\ FullStore /\ FullSection /\ FullTypeOK
      /\ UNCHANGED <<registry, holder, callVars, written>>
  BY DEF FullSet, FullSection, FullIInv
<1>2. /\ FullRelease /\ fcopy' = Blank /\ fpc' \in {"acquire", "done", "failed"}
      /\ fi' \in 1 .. Len(FullOrder)
  BY <1>1, FullOrderAssumption DEF FullSet, FullLeave, FullTypeOK
<1> QED BY <1>1, <1>2, FullExit

\* A failing fullTreeSet keeps the invariant.
LEMMA FullFailsStep ==
  ASSUME FullIInv, FullFails
  PROVE  FullIInv'
<1>1. /\ fpc \in {"acquire", "register", "get", "consume", "set"} /\ fpc' = "failed"
      /\ UNCHANGED <<storage, fwritten>> \/ (fpc = "set" /\ FullStore)
      /\ IF fpc = "acquire" THEN UNCHANGED releasing ELSE FullRelease
      /\ fcopy' = Blank /\ UNCHANGED <<registry, holder, callVars, written, fi>>
      /\ FullTypeOK
  BY DEF FullFails, FullIInv
<1>2. CASE fpc = "acquire"
  <2>1. /\ UNCHANGED <<storage, fwritten, releasing>> /\ UNCHANGED vars
        /\ CoreInv(SharedKeys) /\ FullLockInv
    BY <1>1, <1>2 DEF vars, callVars, FullIInv
  <2>2. CoreInv(SharedKeys)'
    <3>1. SharedKeys \in SUBSET GuardedKeys
      BY DEF SharedKeys, GuardedKeys, AllGuarded
    <3> QED BY <2>1, <3>1, CoreStep
  <2>3. FullTypeOK' /\ FullCopyInv'
    BY <1>1, <2>1, BlankType DEF FullTypeOK, FullCopyInv
  <2>4. FullLockInv'
    <3>1. ~FullSection /\ ~FullSection'
      BY <1>1, <1>2 DEF FullSection
    <3> QED BY <1>1, <2>1, <3>1 DEF FullLockInv
  <2>5. FullNoLostUpdate'
    BY <1>1, <2>1 DEF FullIInv, FullNoLostUpdate, Contributors, Overwritten, IsTarget
  <2> QED BY <2>2, <2>3, <2>4, <2>5 DEF FullIInv
<1>3. CASE fpc # "acquire"
  <2>1. FullSection /\ fi' \in 1 .. Len(FullOrder)
    BY <1>1, <1>3 DEF FullSection, FullTypeOK
  <2> QED BY <1>1, <1>3, <2>1, FullExit
<1> QED BY <1>2, <1>3

\* The steps of the reprocessing leave all but the registry alone.
LEMMA ReprocessFrame ==
  ASSUME ReprocessStep \/ Stop
  PROVE  UNCHANGED <<storage, holder, releasing, callVars, written, fullVars>>
<1>1. UNCHANGED vars => UNCHANGED <<storage, holder, releasing, callVars, written>>
  BY DEF vars, callVars
<1> QED BY <1>1 DEF ReprocessStep, Clear, NextKey, Push, Settle, Yield, YieldNotAwaited, Finish, Stop

-----------------------------------------------------------------------------
(* The reprocessing of the registry *)

KeyPair(n, l) == <<SubSeq(n, 1, l - 1), SubSeq(n, 1, l)>>

ReprocessTypeOK ==
  /\ rpc \in {"clear", "iterate", "push", "yield", "done", "stopped"}
  /\ rleft \subseteq Keys
  /\ rstart \subseteq Keys
  /\ rcount \in Nat
  /\ rpath = <<>> \/ \E k \in Keys : \E m \in 1 .. Len(k) : rpath = <<k, m>>
  /\ rpc = "push" => rpath # <<>>
  /\ rpc \in {"clear", "iterate", "done"} => rpath = <<>>
  /\ inflight \subseteq AllPairs

\* Nothing is in flight that a later yield does not wait for.
AwaitInv ==
  /\ rcount = 0 /\ rpc # "stopped" => inflight = {}
  /\ rpc = "done" => inflight = {} /\ rleft = {}
  /\ rpc = "clear" => wiped = {}

\* The levels of k up to l are registered, or about to be.
Reached(k, l) == \A j \in 1 .. l : KeyPair(k, j) \in registry \cup inflight

\* Every key that was stored at the start is still to come, under way or done.
IterateInv ==
  rpc \in {"iterate", "push", "yield", "done"} =>
    \A k \in rstart :
      \/ k \in rleft
      \/ rpath # <<>> /\ rpath[1] = k /\ Reached(k, Len(k) - rpath[2])
      \/ Reached(k, Len(k))

\* The pair was registered, if only before the clearing, or is one that some
\* call did not register because it started below.
Registered(n, l) ==
  \/ KeyPair(n, l) \in registry \cup wiped
  \/ \E q \in Calls : n \in PathNodes(q) /\ l <= Start[q]

\* fullTreeSet has registered the children of the key level nodes it has left,
\* and of the one it is at once it reads it.
FullRegistryInv ==
  \A i \in 1 .. fi : Len(FullOrder[i]) < KeyLevelNodes =>
    \A c \in FullNodes :
      /\ Len(c) = Len(FullOrder[i]) + 1 /\ SubSeq(c, 1, Len(FullOrder[i])) = FullOrder[i]
      /\ \/ i < fi
         \/ fpc \in {"get", "consume", "set"}
         \/ fpc = "register" /\ c \notin ftodo
      => <<FullOrder[i], c>> \in registry \cup wiped

WrittenInv ==
  \A p \in Calls : \A n \in written[p] : Len(n) < KeyLevelNodes =>
    \A l \in 1 .. Len(n) : Registered(n, l)

StoredInv ==
  \A n \in Nodes : Len(n) < KeyLevelNodes /\ storage[n] # Absent =>
    \A l \in 1 .. Len(n) : Registered(n, l) \/ (l = 1 /\ n \in FullNodes)

ReprocessIInv ==
  /\ FullIInv
  /\ ReprocessTypeOK /\ AwaitInv /\ IterateInv
  /\ RegistryInv(wiped) /\ FullRegistryInv /\ WrittenInv /\ StoredInv

\* The prefixes of a node are nodes.
LEMMA PrefixFacts ==
  ASSUME NEW n \in Nodes, NEW l \in 1 .. Len(n)
  PROVE  /\ SubSeq(n, 1, l) \in Nodes /\ Len(SubSeq(n, 1, l)) = l /\ l \in Nat
         /\ \A j \in 0 .. l : SubSeq(SubSeq(n, 1, l), 1, j) = SubSeq(n, 1, j)
<1>1. PICK p \in Calls : Len(n) \in 1 .. Length(p) /\ n = PathNode(p, Len(n))
  BY NodeFacts
<1>2. Len(n) \in Nat /\ Length(p) \in Nat /\ l \in 1 .. Length(p) /\ l \in Nat
  BY <1>1, LevelFacts, NodeFacts
<1>3. \A j \in 0 .. Len(n) : SubSeq(n, 1, j) = PathNode(p, j)
  BY <1>1, PrefixOfPathNode
<1>4. \A j \in 0 .. l : SubSeq(PathNode(p, l), 1, j) = PathNode(p, j)
  BY <1>2, PrefixOfPathNode
<1>5. l \in 0 .. Len(n) /\ \A j \in 0 .. l : j \in 0 .. Len(n)
  BY <1>2
<1> QED BY <1>2, <1>3, <1>4, <1>5, PathNodeFacts

\* A key level node has a key of its own.
LEMMA OwnKey ==
  ASSUME NEW n \in Nodes, Len(n) < KeyLevelNodes
  PROVE  KeyOf(n) = n
BY NodePrefixes DEF KeyOf, KeyLevel

\* All pairs but the cleared ones stay registered.
LEMMA RegistryKept ==
  ASSUME ReprocessIInv, [ReprocessNext]_allVars
  PROVE  /\ registry \cup wiped \subseteq registry' \cup wiped'
         /\ rpc # "clear" => registry \subseteq registry' /\ wiped' = wiped
<1>1. CASE UNCHANGED reprocessVars /\ [Next]_vars
  BY <1>1, RegistryGrows DEF reprocessVars
<1>2. CASE (FullStep \/ FullFails) /\ UNCHANGED reprocessVars
  BY <1>2 DEF reprocessVars, FullStep, FullFails, FullAcquire, FullEnterSection, FullRegister,
              FullGet, FullConsume, FullSet
<1>3. CASE Clear
  BY <1>3 DEF Clear, ReprocessIInv, AwaitInv
<1>4. CASE NextKey \/ Push \/ Settle \/ Yield \/ Finish \/ Stop
  BY <1>4 DEF NextKey, Push, Settle, Yield, YieldNotAwaited, Finish, Stop, vars
<1>5. ASSUME NEW k \in Keys, Release(Full, k), UNCHANGED reprocessVars
      PROVE  registry' = registry /\ wiped' = wiped
  BY <1>5 DEF Release, reprocessVars
<1>6. CASE UNCHANGED allVars
  BY <1>6 DEF allVars, vars, reprocessVars
<1>7. ASSUME NEW p \in Calls, NEW k \in Keys, Release(p, k) PROVE Next
  BY <1>7 DEF Next
<1>8. ASSUME NEW p \in Calls, Step(p) \/ Fail(p) PROVE Next
  BY <1>8 DEF Next
<1> QED BY <1>1, <1>2, <1>3, <1>4, <1>5, <1>6, <1>7, <1>8 DEF ReprocessNext, ReprocessStep

\* Every step of the three keeps the invariant of fullTreeSet.
LEMMA FullInductive ==
  ASSUME FullIInv, inflight \subseteq AllPairs, [ReprocessNext]_allVars
  PROVE  FullIInv'
<1>0. registry \subseteq AllPairs
  BY DEF FullIInv, CoreInv, TypeOK, AllPairs
<1>1. ASSUME NEW p \in Calls, Step(p) \/ Fail(p), UNCHANGED fullVars PROVE FullIInv'
  BY <1>1, FullCallStep DEF Next
<1>2. ASSUME NEW p \in Calls \cup {Full}, NEW k \in Keys, Release(p, k), UNCHANGED fullVars
      PROVE  FullIInv'
  <2>1. CASE p \in Calls
    BY <1>2, <2>1, FullCallStep DEF Next
  <2>2. CASE p = Full
    BY <1>2, <2>2, FullReleaseStep
  <2> QED BY <2>1, <2>2
<1>3. CASE FullStep \/ FullFails
  BY <1>3, FullAcquireStep, FullRegisterStep, FullGetStep, FullConsumeStep, FullSetStep,
     FullFailsStep DEF FullStep
<1>4. CASE ReprocessStep \/ Stop
  <2>1. registry' \subseteq AllPairs
    BY <1>0, <1>4 DEF ReprocessStep, Clear, NextKey, Push, Settle, Yield, YieldNotAwaited,
                      Finish, Stop, vars
  <2> QED BY <1>4, <2>1, ReprocessFrame, FullFrame
<1>5. CASE UNCHANGED allVars
  BY <1>5, FullCallStep DEF allVars
<1> QED BY <1>1, <1>2, <1>3, <1>4, <1>5 DEF ReprocessNext

-----------------------------------------------------------------------------
(* What is registered *)

RegisteredInv == RegistryInv(wiped) /\ FullRegistryInv /\ WrittenInv /\ StoredInv

\* What is registered, or was cleared and is excepted, stays so.
LEMMA RegisteredKept ==
  ASSUME ReprocessIInv, [ReprocessNext]_allVars, NEW n, NEW l, Registered(n, l)
  PROVE  Registered(n, l)'
<1>1. registry \cup wiped \subseteq registry' \cup wiped'
  BY RegistryKept
<1> QED BY <1>1 DEF Registered, KeyPair, PathNodes, PathNode, Length

\* A step that changes neither what is stored nor how far the writers are.
LEMMA RegisteredFrame ==
  ASSUME ReprocessIInv, [ReprocessNext]_allVars,
         UNCHANGED <<storage, written, pc, level, fpc, fi, ftodo>>
  PROVE  RegisteredInv'
<1>1. registry \cup wiped \subseteq registry' \cup wiped'
  BY RegistryKept
<1>2. RegistryInv(wiped)'
  BY <1>1 DEF ReprocessIInv, RegistryInv, PathNode
<1>3. FullRegistryInv'
  BY <1>1 DEF ReprocessIInv, FullRegistryInv
<1>4. WrittenInv' /\ StoredInv'
  BY RegisteredKept DEF ReprocessIInv, WrittenInv, StoredInv
<1> QED BY <1>2, <1>3, <1>4 DEF RegisteredInv

\* The writers store what is registered.
LEMMA RegisteredCallStep ==
  ASSUME ReprocessIInv, [ReprocessNext]_allVars, [Next]_vars,
         UNCHANGED <<fullVars, reprocessVars>>
  PROVE  RegisteredInv'
<1>0. /\ TypeOK /\ wiped' = wiped /\ UNCHANGED <<fpc, fi, ftodo>>
      /\ RegistryInv(wiped) /\ FullRegistryInv /\ WrittenInv /\ StoredInv
  BY DEF ReprocessIInv, FullIInv, CoreInv, reprocessVars, fullVars
<1>1. registry \cup wiped \subseteq registry' \cup wiped'
  BY RegistryKept
<1>2. RegistryInv(wiped)'
  <2>1. PICK W : W = wiped
    OBVIOUS
  <2>2. RegistryInv(W)
    BY <1>0, <2>1
  <2>3. RegistryInv(W)'
    BY <1>0, <2>2, RegistryStep
  <2> QED BY <1>0, <2>1, <2>3 DEF RegistryInv
<1>3. FullRegistryInv'
  BY <1>0, <1>1 DEF FullRegistryInv
<1>4. \/ storage' = storage /\ written' = written
      \/ \E p \in Calls : pc[p] = "set" /\ StoreKey(p)
  BY StorageSteps
<1>5. CASE storage' = storage /\ written' = written
  <2>1. WrittenInv' /\ StoredInv'
    BY <1>0, <1>5, RegisteredKept DEF WrittenInv, StoredInv
  <2> QED BY <1>2, <1>3, <2>1 DEF RegisteredInv
<1>6. ASSUME NEW p \in Calls, pc[p] = "set", StoreKey(p) PROVE RegisteredInv'
  <2>1. ASSUME NEW n \in Nodes, Len(n) < KeyLevelNodes, KeyOf(n) = ChainedKey(p),
               NEW l \in 1 .. Len(n)
        PROVE  Registered(n, l)
    <3>1. PICK W : W = wiped
      OBVIOUS
    <3>2. RegistryInv(W)
      BY <1>0, <3>1
    <3>3. \/ <<SubSeq(n, 1, l - 1), SubSeq(n, 1, l)>> \in registry \cup W
          \/ n \in PathNodes(p) /\ l <= Start[p]
      BY <1>0, <1>6, <2>1, <3>2, StoredIsRegistered
    <3> QED BY <3>1, <3>3 DEF Registered, KeyPair
  <2>2. WrittenInv'
    <3> SUFFICES ASSUME NEW q \in Calls, NEW n \in written'[q], Len(n) < KeyLevelNodes,
                        NEW l \in 1 .. Len(n)
                 PROVE  Registered(n, l)
      BY RegisteredKept DEF WrittenInv
    <3>1. CASE n \in written[q]
      BY <1>0, <3>1 DEF WrittenInv
    <3>2. CASE n \notin written[q]
      BY <1>0, <1>6, <2>1, <3>2, StoreRecords
    <3> QED BY <3>1, <3>2
  <2>3. StoredInv'
    <3> SUFFICES ASSUME NEW n \in Nodes, Len(n) < KeyLevelNodes, storage'[n] # Absent,
                        NEW l \in 1 .. Len(n)
                 PROVE  Registered(n, l) \/ (l = 1 /\ n \in FullNodes)
      BY RegisteredKept DEF StoredInv
    <3>1. CASE KeyOf(n) = ChainedKey(p)
      BY <2>1, <3>1
    <3>2. CASE KeyOf(n) # ChainedKey(p)
      <4>1. storage'[n] = storage[n]
        BY <1>6, <3>2 DEF StoreKey
      <4> QED BY <1>0, <4>1 DEF StoredInv
    <3> QED BY <3>1, <3>2
  <2> QED BY <1>2, <1>3, <2>2, <2>3 DEF RegisteredInv
<1> QED BY <1>4, <1>5, <1>6

\* What fullTreeSet stores at a key level it has registered, but for the first
\* level.
LEMMA FullStoredIsRegistered ==
  ASSUME ReprocessIInv, fpc = "set", NEW l \in 2 .. Len(FNode)
  PROVE  KeyPair(FNode, l) \in registry \cup wiped
<1>1. /\ FullTypeOK /\ fi \in 1 .. Len(FullOrder) /\ Len(FullOrder) \in Nat
      /\ FNode = FullOrder[fi]
  BY FullOrderAssumption DEF ReprocessIInv, FullIInv, FullTypeOK, FNode
<1>2. /\ FNode \in Nodes /\ FNode \in FullNodes /\ Len(FNode) \in Nat
      /\ Len(FNode) <= KeyLevelNodes
  BY <1>1, FNodeFacts
<1>3. l - 1 \in 1 .. Len(FNode) - 1 /\ l \in 1 .. Len(FNode) /\ l - 1 \in 1 .. Len(FNode)
      /\ l - 1 \in 0 .. l /\ l \in Nat
  BY <1>2
<1> DEFINE c == SubSeq(FNode, 1, l)
           n == SubSeq(FNode, 1, l - 1)
<1>4. c \in FullNodes /\ Len(c) = l /\ Len(n) = l - 1 /\ SubSeq(c, 1, l - 1) = n
  BY <1>2, <1>3, PrefixFacts, FullAssumption
<1>5. PICK j \in 1 .. fi - 1 : FullOrder[j] = n
  BY <1>1, <1>3, FullOrderAssumption
<1>6. j \in 1 .. fi /\ j < fi
  BY <1>1
<1> HIDE DEF c, n
<1>7. <<n, c>> \in registry \cup wiped
  <2>1. Len(n) < KeyLevelNodes /\ Len(c) = Len(n) + 1 /\ SubSeq(c, 1, Len(n)) = n
    BY <1>2, <1>3, <1>4, KeyLevelNodesAssumption
  <2> QED BY <1>4, <1>5, <1>6, <2>1 DEF ReprocessIInv, FullRegistryInv
<1> QED BY <1>7 DEF KeyPair, c, n

\* fullTreeSet stores what is registered, but for the first level.
LEMMA RegisteredFullStep ==
  ASSUME ReprocessIInv, FullStep \/ FullFails, UNCHANGED reprocessVars
  PROVE  RegisteredInv'
<1>0. /\ FullTypeOK /\ TypeOK /\ wiped' = wiped /\ [ReprocessNext]_allVars
      /\ RegistryInv(wiped) /\ FullRegistryInv /\ WrittenInv /\ StoredInv
      /\ fi \in 1 .. Len(FullOrder) /\ Len(FullOrder) \in Nat
  BY FullOrderAssumption
     DEF ReprocessIInv, FullIInv, FullTypeOK, CoreInv, reprocessVars, ReprocessNext
<1>1. registry \cup wiped \subseteq registry' \cup wiped'
  BY <1>0, RegistryKept
<1>2. UNCHANGED <<callVars, written>>
  BY DEF FullStep, FullFails, FullAcquire, FullEnterSection, FullRegister, FullGet,
         FullConsume, FullSet
<1>3. RegistryInv(wiped)' /\ WrittenInv'
  BY <1>0, <1>1, <1>2, RegisteredKept DEF RegistryInv, WrittenInv, PathNode, callVars
<1>4. storage' = storage \/ (fpc = "set" /\ FullStore)
  BY DEF FullStep, FullFails, FullAcquire, FullEnterSection, FullRegister, FullGet,
         FullConsume, FullSet
<1>5. StoredInv'
  <2> SUFFICES ASSUME NEW n \in Nodes, Len(n) < KeyLevelNodes, storage'[n] # Absent,
                      NEW l \in 1 .. Len(n)
               PROVE  Registered(n, l) \/ (l = 1 /\ n \in FullNodes)
    BY <1>0, RegisteredKept DEF StoredInv
  <2>1. CASE storage'[n] = storage[n]
    BY <1>0, <2>1 DEF StoredInv
  <2>2. CASE storage'[n] # storage[n]
    <3>1. fpc = "set" /\ KeyOf(n) = FNode
      BY <1>4, <2>2 DEF FullStore
    <3>2. n = FNode /\ n \in FullNodes
      BY <1>0, <3>1, OwnKey, FNodeFacts
    <3>3. CASE l = 1
      BY <3>2, <3>3
    <3>4. CASE l # 1
      <4>1. l \in 2 .. Len(FNode)
        BY <3>2, <3>4, NodeFacts
      <4> QED BY <3>1, <3>2, <4>1, FullStoredIsRegistered DEF Registered
    <3> QED BY <3>3, <3>4
  <2> QED BY <2>1, <2>2
<1>6. ASSUME fpc' = "failed" \/ ~FullSection', fi' = fi PROVE FullRegistryInv'
  BY <1>1, <1>6 DEF ReprocessIInv, FullRegistryInv, FullSection
<1>7. ASSUME FullLeave, fpc \in {"consume", "set"} PROVE FullRegistryInv'
  <2>1. CASE fi < Len(FullOrder)
    <3>1. fi' = fi + 1 /\ fpc' = "acquire" /\ fi \in Nat
      BY <1>0, <1>7, <2>1 DEF FullLeave
    <3> SUFFICES ASSUME NEW i \in 1 .. fi + 1, Len(FullOrder[i]) < KeyLevelNodes, i < fi + 1,
                        NEW c \in FullNodes,
                        Len(c) = Len(FullOrder[i]) + 1,
                        SubSeq(c, 1, Len(FullOrder[i])) = FullOrder[i]
                 PROVE  <<FullOrder[i], c>> \in registry \cup wiped
      BY <1>1, <3>1 DEF FullRegistryInv
    <3>2. i \in 1 .. fi
      BY <3>1
    <3> QED BY <1>0, <1>7, <3>2 DEF FullRegistryInv
  <2>2. CASE ~(fi < Len(FullOrder))
    BY <1>6, <1>7, <2>2 DEF FullLeave, FullSection
  <2> QED BY <2>1, <2>2
<1>8. CASE FullAcquire
  <2>1. /\ fi' = fi /\ FNode = FullOrder[fi]
        /\ \/ fpc' = "register" /\ ftodo' = FChildren
           \/ fpc' = "get" /\ ~(Len(FNode) < KeyLevelNodes /\ FChildren # {})
    BY <1>8 DEF FullAcquire, FullEnterSection, FullEnter, FNode
  <2> SUFFICES ASSUME NEW i \in 1 .. fi, Len(FullOrder[i]) < KeyLevelNodes, NEW c \in FullNodes,
                      Len(c) = Len(FullOrder[i]) + 1,
                      SubSeq(c, 1, Len(FullOrder[i])) = FullOrder[i],
                      \/ i < fi \/ fpc' \in {"get", "consume", "set"}
                      \/ (fpc' = "register" /\ c \notin ftodo')
               PROVE  <<FullOrder[i], c>> \in registry \cup wiped
    <3>1. FullRegistryInv'
      BY <1>1, <2>1 DEF FullRegistryInv
    <3> QED BY <1>3, <1>5, <3>1 DEF RegisteredInv
  <2>2. CASE i < fi
    BY <1>0, <2>2 DEF FullRegistryInv
  <2>3. CASE ~(i < fi)
    <3>1. i = fi
      BY <1>0, <2>3
    <3>2. c \in FChildren
      BY <2>1, <3>1 DEF FChildren
    <3> QED BY <2>1, <3>1, <3>2
  <2> QED BY <2>2, <2>3
<1>9. CASE FullRegister
  <2>1. PICK d \in ftodo :
          /\ registry' = registry \cup {<<FNode, d>>} /\ ftodo' = ftodo \ {d}
          /\ fpc' = IF ftodo = {d} THEN "get" ELSE "register"
    BY <1>9 DEF FullRegister
  <2>2. fi' = fi /\ fpc = "register" /\ FNode = FullOrder[fi] /\ ftodo \subseteq FChildren
    BY <1>0, <1>9 DEF FullRegister, FNode, FullTypeOK
  <2>3. FullRegistryInv'
    <3> SUFFICES ASSUME NEW i \in 1 .. fi, Len(FullOrder[i]) < KeyLevelNodes, NEW c \in FullNodes,
                        Len(c) = Len(FullOrder[i]) + 1,
                        SubSeq(c, 1, Len(FullOrder[i])) = FullOrder[i],
                        \/ i < fi \/ fpc' \in {"get", "consume", "set"}
                        \/ (fpc' = "register" /\ c \notin ftodo')
                 PROVE  <<FullOrder[i], c>> \in registry' \cup wiped
      BY <1>0, <2>2 DEF FullRegistryInv
    <3>1. CASE i < fi \/ c \notin ftodo
      BY <1>0, <1>1, <2>2, <3>1 DEF FullRegistryInv
    <3>2. CASE ~(i < fi) /\ c \in ftodo
      <4>1. i = fi /\ c = d
        BY <1>0, <2>1, <3>2
      <4> QED BY <2>1, <2>2, <4>1
    <3> QED BY <3>1, <3>2
  <2> QED BY <1>3, <1>5, <2>3 DEF RegisteredInv
<1>10. CASE FullGet
  <2>1. FullRegistryInv'
    BY <1>0, <1>1, <1>10 DEF FullRegistryInv, FullGet
  <2> QED BY <1>3, <1>5, <2>1 DEF RegisteredInv
<1>11. CASE FullConsume
  <2>1. fpc = "consume" /\ (FullLeave \/ (fpc' = "set" /\ UNCHANGED <<fi, ftodo>>))
    BY <1>11 DEF FullConsume
  <2>2. FullRegistryInv'
    BY <1>0, <1>1, <1>7, <2>1 DEF FullRegistryInv
  <2> QED BY <1>3, <1>5, <2>2 DEF RegisteredInv
<1>12. CASE FullSet
  BY <1>3, <1>5, <1>7, <1>12 DEF FullSet, RegisteredInv
<1>13. CASE FullFails
  BY <1>3, <1>5, <1>6, <1>13 DEF FullFails, RegisteredInv
<1> QED BY <1>8, <1>9, <1>10, <1>11, <1>12, <1>13 DEF FullStep

\* Every step keeps what is stored registered.
LEMMA RegisteredStepAll ==
  ASSUME ReprocessIInv, [ReprocessNext]_allVars
  PROVE  RegisteredInv'
<1>1. ASSUME NEW p \in Calls, Step(p) \/ Fail(p), UNCHANGED <<fullVars, reprocessVars>>
      PROVE  RegisteredInv'
  BY <1>1, RegisteredCallStep DEF Next
<1>2. ASSUME NEW p \in Calls \cup {Full}, NEW k \in Keys, Release(p, k),
             UNCHANGED <<fullVars, reprocessVars>>
      PROVE  RegisteredInv'
  BY <1>2, RegisteredFrame DEF Release, callVars, fullVars
<1>3. CASE (FullStep \/ FullFails) /\ UNCHANGED reprocessVars
  BY <1>3, RegisteredFullStep
<1>4. CASE ReprocessStep \/ Stop
  BY <1>4, ReprocessFrame, RegisteredFrame DEF callVars, fullVars
<1>5. CASE UNCHANGED allVars
  BY <1>5, RegisteredFrame DEF allVars, vars, fullVars
<1> QED BY <1>1, <1>2, <1>3, <1>4, <1>5 DEF ReprocessNext

-----------------------------------------------------------------------------
(* The iteration *)

IterationInv == ReprocessTypeOK /\ AwaitInv /\ IterateInv

\* The path being processed, taken apart.
LEMMA PathFacts ==
  ASSUME ReprocessTypeOK, rpath # <<>>
  PROVE  /\ rpath[1] \in Keys /\ rpath[1] \in Nodes /\ Len(rpath[1]) \in Nat
         /\ rpath[2] \in 1 .. Len(rpath[1]) /\ rpath = <<rpath[1], rpath[2]>>
<1>1. PICK k \in Keys : \E m \in 1 .. Len(k) : rpath = <<k, m>>
  BY DEF ReprocessTypeOK
<1>2. PICK m \in 1 .. Len(k) : rpath = <<k, m>>
  BY <1>1
<1>3. rpath[1] = k /\ rpath[2] = m
  BY <1>2
<1> QED BY <1>2, <1>3, KeyIsNode, NodeFacts

\* A step that leaves the iteration alone.
LEMMA IterationFrame ==
  ASSUME ReprocessIInv, [ReprocessNext]_allVars,
         UNCHANGED <<rpc, rleft, rseen, rpath, rcount, inflight, rstart, wiped>>
  PROVE  IterationInv'
<1>1. rpc # "clear" => registry \subseteq registry'
  BY RegistryKept
<1>2. ReprocessTypeOK' /\ AwaitInv'
  BY DEF ReprocessIInv, ReprocessTypeOK, AwaitInv
<1>3. IterateInv'
  <2>1. rpc # "clear" => \A k, l : Reached(k, l) => Reached(k, l)'
    BY <1>1 DEF Reached, KeyPair
  <2> QED BY <2>1 DEF ReprocessIInv, IterateInv
<1> QED BY <1>2, <1>3 DEF IterationInv

\* Clearing the registry keeps the invariant of the iteration.
LEMMA ClearStep ==
  ASSUME ReprocessIInv, Clear
  PROVE  IterationInv'
<1>1. /\ rpc = "clear" /\ rpc' = "iterate" /\ rleft' = StoredKeys /\ rstart' = StoredKeys
      /\ UNCHANGED <<rseen, rpath, rcount, inflight>> /\ ReprocessTypeOK /\ AwaitInv
  BY DEF Clear, ReprocessIInv
<1>2. StoredKeys \subseteq Keys
  BY DEF StoredKeys
<1>3. ReprocessTypeOK' /\ AwaitInv'
  BY <1>1, <1>2 DEF ReprocessTypeOK, AwaitInv
<1>4. IterateInv'
  BY <1>1 DEF IterateInv
<1> QED BY <1>3, <1>4 DEF IterationInv

\* Taking the next key keeps the invariant of the iteration.
LEMMA NextKeyStep ==
  ASSUME ReprocessIInv, NextKey
  PROVE  IterationInv'
<1>1. PICK k \in rleft \cup (StoredKeys \ rseen) : rpath' = <<k, Len(k)>> /\ rleft' = rleft \ {k}
  BY DEF NextKey
<1>2. /\ rpc = "iterate" /\ rpc' = "push"
      /\ UNCHANGED <<vars, fullVars, rcount, inflight, rstart, wiped>>
      /\ ReprocessTypeOK /\ AwaitInv /\ IterateInv
  BY DEF NextKey, ReprocessIInv
<1>3. registry' = registry
  BY <1>2 DEF vars
<1>4. k \in Keys /\ Len(k) \in Nat /\ Len(k) \in 1 .. Len(k)
  <2>1. k \in Keys
    BY <1>2 DEF ReprocessTypeOK, StoredKeys
  <2> QED BY <2>1, KeyIsNode, NodeFacts
<1>5. rpath' # <<>> /\ rpath'[1] = k /\ rpath'[2] = Len(k)
  BY <1>1
<1>6. ReprocessTypeOK'
  BY <1>1, <1>2, <1>4, <1>5 DEF ReprocessTypeOK
<1>7. AwaitInv'
  BY <1>2 DEF AwaitInv
<1>8. IterateInv'
  <2> SUFFICES ASSUME NEW j \in rstart
               PROVE  \/ j \in rleft'
                      \/ /\ rpath' # <<>> /\ rpath'[1] = j
                         /\ \A i \in 1 .. Len(j) - rpath'[2] :
                              KeyPair(j, i) \in registry' \cup inflight'
                      \/ \A i \in 1 .. Len(j) : KeyPair(j, i) \in registry' \cup inflight'
    BY <1>2 DEF IterateInv, Reached, KeyPair
  <2>1. CASE j = k
    <3>1. 1 .. Len(j) - rpath'[2] = {}
      BY <1>4, <1>5, <2>1
    <3> QED BY <1>5, <2>1, <3>1
  <2>2. CASE j # k
    <3>1. j \in rleft \/ Reached(j, Len(j))
      BY <1>2 DEF IterateInv, ReprocessTypeOK
    <3> QED BY <1>1, <1>2, <1>3, <2>2, <3>1 DEF Reached, KeyPair
  <2> QED BY <2>1, <2>2
<1> QED BY <1>6, <1>7, <1>8 DEF IterationInv

\* Registering a level of a key keeps the invariant of the iteration.
LEMMA PushStep ==
  ASSUME ReprocessIInv, Push
  PROVE  IterationInv'
<1>1. /\ rpc = "push" /\ rpath # <<>> /\ ReprocessTypeOK /\ AwaitInv /\ IterateInv
      /\ inflight' = inflight \cup {Pair} /\ rcount' = rcount + 1
      /\ rpath' = IF rpath[2] = 1 THEN <<>> ELSE <<rpath[1], rpath[2] - 1>>
      /\ rpc' = IF rcount + 1 >= Partition THEN "yield"
                ELSE IF rpath[2] = 1 THEN "iterate" ELSE "push"
      /\ UNCHANGED <<vars, fullVars, rleft, rseen, rstart, wiped>>
  BY DEF Push, ReprocessIInv, ReprocessTypeOK
<1> DEFINE k == rpath[1]
           m == rpath[2]
           l == Len(k) - m + 1
<1>2. k \in Keys /\ k \in Nodes /\ Len(k) \in Nat /\ m \in 1 .. Len(k)
  BY <1>1, PathFacts
<1>3. Pair = KeyPair(k, l) /\ l \in 1 .. Len(k)
  BY <1>2 DEF Pair, KeyPair
<1>4. Pair \in AllPairs
  BY <1>2, <1>3, NodePrefixes DEF KeyPair
<1>5. registry' = registry /\ rcount \in Nat
  BY <1>1 DEF vars, ReprocessTypeOK
<1>6. /\ m = 1 => rpath' = <<>>
      /\ m # 1 => rpath' = <<k, m - 1>> /\ rpath' # <<>> /\ rpath'[1] = k /\ rpath'[2] = m - 1
  BY <1>1
<1>7. ReprocessTypeOK'
  <2>1. rpath' = <<>> \/ \E j \in Keys : \E i \in 1 .. Len(j) : rpath' = <<j, i>>
    <3>1. m # 1 => m - 1 \in 1 .. Len(k)
      BY <1>2
    <3> HIDE DEF k, m
    <3> QED BY <1>2, <1>6, <3>1
  <2>2. rpc' = "push" => m # 1
    BY <1>1
  <2>3. rpc' = "iterate" => m = 1
    BY <1>1
  <2>4. rpc' \in {"yield", "iterate", "push"} /\ rcount' \in Nat /\ inflight' \subseteq AllPairs
    BY <1>1, <1>4, <1>5 DEF ReprocessTypeOK
  <2> HIDE DEF k, m
  <2> QED BY <1>1, <1>6, <2>1, <2>2, <2>3, <2>4 DEF ReprocessTypeOK
<1>8. AwaitInv'
  BY <1>1, <1>5 DEF AwaitInv
<1>9. IterateInv'
  <2> SUFFICES ASSUME NEW j \in rstart
               PROVE  \/ j \in rleft
                      \/ /\ rpath' # <<>> /\ rpath'[1] = j
                         /\ \A i \in 1 .. Len(j) - rpath'[2] :
                              KeyPair(j, i) \in registry' \cup inflight'
                      \/ \A i \in 1 .. Len(j) : KeyPair(j, i) \in registry' \cup inflight'
    BY <1>1 DEF IterateInv, Reached, KeyPair
  <2>2. CASE j \in rleft \/ Reached(j, Len(j))
    BY <1>1, <1>5, <2>2 DEF Reached
  <2>3. CASE j = k /\ Reached(j, Len(j) - m)
    <3>1. \A i \in 1 .. l : KeyPair(k, i) \in registry' \cup inflight'
      <4> SUFFICES ASSUME NEW i \in 1 .. l PROVE KeyPair(k, i) \in registry' \cup inflight'
        OBVIOUS
      <4>1. CASE i = l
        BY <1>1, <1>3, <4>1
      <4>2. CASE i # l
        <5>1. i \in 1 .. Len(k) - m
          BY <1>2, <4>2
        <5> QED BY <1>1, <1>5, <2>3, <5>1 DEF Reached
      <4> QED BY <4>1, <4>2
    <3>2. CASE m = 1
      <4>1. l = Len(k)
        BY <1>2, <3>2
      <4> QED BY <2>3, <3>1, <4>1
    <3>3. CASE m # 1
      <4>1. l = Len(k) - (m - 1)
        BY <1>2
      <4> QED BY <1>6, <2>3, <3>1, <3>3, <4>1
    <3> QED BY <3>2, <3>3
  <2> QED BY <1>1, <2>2, <2>3 DEF IterateInv
<1> QED BY <1>7, <1>8, <1>9 DEF IterationInv

\* A registration that takes effect keeps the invariant of the iteration.
LEMMA SettleStep ==
  ASSUME ReprocessIInv, Settle
  PROVE  IterationInv'
<1>1. PICK pair \in inflight :
        registry' = registry \cup {pair} /\ inflight' = inflight \ {pair}
  BY DEF Settle
<1>2. /\ UNCHANGED <<rpc, rleft, rseen, rpath, rcount, rstart, wiped>>
      /\ ReprocessTypeOK /\ AwaitInv /\ IterateInv
  BY DEF Settle, ReprocessIInv
<1>3. ReprocessTypeOK' /\ AwaitInv'
  BY <1>1, <1>2 DEF ReprocessTypeOK, AwaitInv
<1>4. \A k, l : Reached(k, l) => Reached(k, l)'
  BY <1>1 DEF Reached, KeyPair
<1>5. IterateInv'
  BY <1>2, <1>4 DEF IterateInv
<1> QED BY <1>3, <1>5 DEF IterationInv

\* Waiting for a partition, ending and failing keep the invariant of the iteration.
LEMMA LaterStep ==
  ASSUME ReprocessIInv, Yield \/ Finish \/ Stop
  PROVE  IterationInv'
<1>1. /\ UNCHANGED <<vars, rstart, wiped>> /\ registry' = registry /\ inflight' \subseteq inflight
      /\ rcount' = 0 /\ ReprocessTypeOK /\ AwaitInv /\ IterateInv
  BY DEF Yield, YieldNotAwaited, Finish, Stop, vars, ReprocessIInv
<1>2. CASE Yield
  <2>1. /\ rpc = "yield" /\ inflight = {} /\ UNCHANGED <<rleft, rseen, rpath, inflight>>
        /\ rpc' = IF rpath = <<>> THEN "iterate" ELSE "push"
    BY <1>2 DEF Yield, YieldNotAwaited
  <2>2. ReprocessTypeOK' /\ AwaitInv'
    BY <1>1, <2>1 DEF ReprocessTypeOK, AwaitInv
  <2>3. IterateInv'
    BY <1>1, <2>1 DEF IterateInv, Reached, KeyPair
  <2> QED BY <2>2, <2>3 DEF IterationInv
<1>3. CASE Finish
  <2>1. /\ rpc = "iterate" /\ rpc' = "done" /\ rleft = {} /\ UNCHANGED <<rleft, rpath, inflight>>
        /\ rcount > 0 => inflight = {}
    BY <1>3 DEF Finish
  <2>2. inflight = {}
    BY <1>1, <2>1 DEF AwaitInv, ReprocessTypeOK
  <2>3. ReprocessTypeOK' /\ AwaitInv'
    BY <1>1, <2>1, <2>2 DEF ReprocessTypeOK, AwaitInv
  <2>4. IterateInv'
    BY <1>1, <2>1 DEF IterateInv, Reached, KeyPair
  <2> QED BY <2>3, <2>4 DEF IterationInv
<1>4. CASE Stop
  <2>1. rpc' = "stopped" /\ rleft' = {} /\ rpath' = <<>>
    BY <1>4 DEF Stop
  <2> QED BY <1>1, <2>1 DEF IterationInv, ReprocessTypeOK, AwaitInv, IterateInv
<1> QED BY <1>2, <1>3, <1>4

\* Every step keeps the invariant of the iteration.
LEMMA IterationStep ==
  ASSUME ReprocessIInv, [ReprocessNext]_allVars
  PROVE  IterationInv'
<1>1. CASE UNCHANGED reprocessVars
  BY <1>1, IterationFrame DEF reprocessVars
<1>2. CASE ReprocessStep \/ Stop
  BY <1>2, ClearStep, NextKeyStep, PushStep, SettleStep, LaterStep DEF ReprocessStep
<1>3. ReprocessNext \/ UNCHANGED allVars
  OBVIOUS
<1>4. UNCHANGED allVars => UNCHANGED reprocessVars
  BY DEF allVars
<1> QED BY <1>1, <1>2, <1>3, <1>4 DEF ReprocessNext

\* Every step keeps the inductive invariant.
LEMMA ReprocessInductive ==
  ASSUME ReprocessIInv, [ReprocessNext]_allVars
  PROVE  ReprocessIInv'
<1>1. FullIInv /\ inflight \subseteq AllPairs
  BY DEF ReprocessIInv, ReprocessTypeOK
<1> QED BY <1>1, FullInductive, RegisteredStepAll, IterationStep
        DEF ReprocessIInv, RegisteredInv, IterationInv

\* The initial state is in the inductive invariant.
LEMMA ReprocessInductiveInit == ReprocessInit => ReprocessIInv
<1> SUFFICES ASSUME ReprocessInit PROVE ReprocessIInv
  OBVIOUS
<1>0. Init /\ FullInit
  BY DEF ReprocessInit
<1>1. CoreInv(SharedKeys)
  <2>1. SharedKeys \in SUBSET GuardedKeys
    BY DEF SharedKeys, GuardedKeys, AllGuarded
  <2> QED BY <1>0, <2>1, CoreInit
<1>2. FullTypeOK /\ FullCopyInv
  BY <1>0, BlankType, FullOrderAssumption DEF FullInit, FullTypeOK, FullCopyInv
<1>3. FullLockInv
  <2>1. /\ \A k \in Keys : holder[k] = Free
        /\ releasing = {} /\ ~FullSection /\ Full # Free
    BY <1>0, FullAssumption, ConsumerAssumption DEF Init, FullInit, FullSection
  <2> QED BY <2>1 DEF FullLockInv
<1>4. FullNoLostUpdate /\ WrittenInv /\ StoredInv
  BY <1>0 DEF Init, FullInit, Blank, FullNoLostUpdate, WrittenInv, StoredInv
<1>5. RegistryInv(wiped)
  <2>1. wiped = {}
    BY DEF ReprocessInit
  <2> QED BY <1>0, <2>1, RegistryInit
<1>6. FullRegistryInv
  BY <1>0 DEF FullInit, FullRegistryInv
<1>7. ReprocessTypeOK /\ AwaitInv /\ IterateInv
  BY DEF ReprocessInit, ReprocessTypeOK, AwaitInv, IterateInv
<1> QED BY <1>1, <1>2, <1>3, <1>4, <1>5, <1>6, <1>7 DEF ReprocessIInv, FullIInv

\* The inductive invariant holds in every reachable state.
LEMMA ReprocessInvariance == ReprocessSpec => []ReprocessIInv
BY ReprocessInductiveInit, ReprocessInductive, PTL DEF ReprocessSpec

-----------------------------------------------------------------------------
(* The theorems *)

\* In every reachable state the calls and fullTreeSet hold exactly the semaphores
\* of the sections they are in and of the releases they have scheduled.
THEOREM FullLocksExclusiveHolds == ReprocessSpec => []FullLocksExclusive
<1>1. ReprocessIInv => FullLocksExclusive
  BY DEF ReprocessIInv, FullIInv, CoreInv, LockInv, FullLockInv, FullSection, FullLocksExclusive
<1> QED BY <1>1, ReprocessInvariance, PTL

\* Under a key that deepTreeSet, setNode and fullTreeSet all lock, no contribution
\* is lost but to a setNode or to fullTreeSet's own value.
THEOREM FullNoLostUpdateHolds == ReprocessSpec => []FullNoLostUpdate
<1>1. ReprocessIInv => FullNoLostUpdate
  BY DEF ReprocessIInv, FullIInv
<1> QED BY <1>1, ReprocessInvariance, PTL

\* A reprocessing that gets to its end has registered every key that was stored
\* when it started, whatever the writers did meanwhile.
LEMMA CompleteFromInv == ReprocessIInv => ReprocessComplete
<1> SUFFICES ASSUME ReprocessIInv, rpc = "done", NEW k \in rstart, NEW l \in 1 .. Len(k)
             PROVE  KeyPair(k, l) \in registry
  BY DEF ReprocessComplete, Pairs, KeyPair
<1>1. inflight = {} /\ rleft = {} /\ rpath = <<>>
  BY DEF ReprocessIInv, AwaitInv, ReprocessTypeOK
<1>2. Reached(k, Len(k))
  BY <1>1 DEF ReprocessIInv, IterateInv
<1> QED BY <1>1, <1>2 DEF Reached

\* reprocessAllKeyLevelChildren, once it has ended, has registered every level of
\* every key that was stored when it started.
THEOREM ReprocessCompleteHolds == ReprocessSpec => []ReprocessComplete
BY CompleteFromInv, ReprocessInvariance, PTL

\* Before a reprocessing and after it has ended, a stored key level node can be
\* reached through the registry, but for what the code is known not to register.
THEOREM RegistrationsSettledHolds == ReprocessSpec => []RegistrationsSettled
<1>1. ReprocessIInv => RegistrationsSettled
  <2> SUFFICES ASSUME ReprocessIInv, rpc \in {"clear", "done"},
                      NEW n \in StoredKeys, Len(n) < KeyLevelNodes, NEW l \in 1 .. Len(n)
               PROVE  \/ KeyPair(n, l) \in registry
                      \/ \E p \in Calls : n \in PathNodes(p) /\ Len(KeyPair(n, l)[2]) <= Start[p]
                      \/ /\ Len(KeyPair(n, l)[2]) = 1 /\ n \in FullNodes
                         /\ \A p \in Calls : n \notin written[p]
                      \/ KeyPair(n, l) \in wiped /\ n \notin rstart
    BY DEF RegistrationsSettled, Pairs, KeyPair
  <2>1. n \in Keys /\ n \in Nodes /\ storage[n] # Absent
    BY KeyIsNode DEF StoredKeys
  <2>2. Len(KeyPair(n, l)[2]) = l
    BY <2>1, PrefixFacts DEF KeyPair
  <2>3. KeyPair(n, l) \in wiped => rpc = "done"
    BY DEF ReprocessIInv, AwaitInv
  <2>4. CASE Registered(n, l)
    <3>1. CASE KeyPair(n, l) \in wiped /\ n \in rstart
      <4>1. ReprocessComplete
        BY CompleteFromInv
      <4>2. KeyPair(n, l) \in Pairs(n)
        BY DEF Pairs, KeyPair
      <4> QED BY <2>3, <3>1, <4>1, <4>2 DEF ReprocessComplete
    <3> QED BY <2>2, <2>4, <3>1 DEF Registered
  <2>5. CASE ~Registered(n, l)
    <3>1. l = 1 /\ n \in FullNodes
      BY <2>1, <2>5 DEF ReprocessIInv, StoredInv
    <3>2. \A p \in Calls : n \notin written[p]
      BY <2>5 DEF ReprocessIInv, WrittenInv
    <3> QED BY <2>2, <3>1, <3>2
  <2> QED BY <2>4, <2>5
<1> QED BY <1>1, ReprocessInvariance, PTL

================================================================================
