-------------------------- MODULE DeepTreeSetProofs --------------------------
(***************************************************************************)
(* Proofs about the writers, for any number of calls, any paths and any    *)
(* keyLevelNodes.                                                          *)
(***************************************************************************)
EXTENDS DeepTreeSet, SequenceTheorems, TLAPS

\* The length of a path and the level its tree starts at.
LEMMA LevelFacts ==
  ASSUME NEW p \in Calls, NEW l \in 1 .. Length(p)
  PROVE  /\ Length(p) \in Nat /\ Length(p) >= 1
         /\ KeyLevel(l) \in 1 .. Length(p)
         /\ KeyLevel(l) <= l
         /\ KeyLevel(l) <= KeyLevelNodes
         /\ KeyLevel(KeyLevel(l)) = KeyLevel(l)
         /\ KeyLevel(l) <= KeyLevel(Length(p))
BY PathAssumption, KeyLevelNodesAssumption DEF Length, KeyLevel

\* A node of a path is a node, as long as its level.
LEMMA PathNodeFacts ==
  ASSUME NEW p \in Calls, NEW l \in 1 .. Length(p)
  PROVE  /\ PathNode(p, l) \in PathNodes(p)
         /\ PathNode(p, l) \in Nodes
         /\ Len(PathNode(p, l)) = l
         /\ PathNode(p, l) \in Seq(KeyNames)
         /\ \A i \in 1 .. l : PathNode(p, l)[i] = Path[p][i]
<1>1. Path[p] \in Seq(KeyNames) /\ l \in Nat /\ l <= Len(Path[p]) /\ l >= 1
  BY PathAssumption DEF Length
<1>2. PathNode(p, l) \in PathNodes(p) /\ PathNode(p, l) \in Nodes
  BY DEF PathNodes, Nodes
<1>3. Len(PathNode(p, l)) = l /\ PathNode(p, l) \in Seq(KeyNames)
      /\ \A i \in 1 .. l : PathNode(p, l)[i] = Path[p][i]
  BY <1>1, SubSeqProperties DEF PathNode
<1> QED BY <1>2, <1>3

\* The storage key of a node of a path is the path's node at the key level.
LEMMA KeyOfPathNode ==
  ASSUME NEW p \in Calls, NEW l \in 1 .. Length(p)
  PROVE  KeyOf(PathNode(p, l)) = PathNode(p, KeyLevel(l))
<1> DEFINE k == KeyLevel(l)
<1>1. k \in 1 .. l /\ l \in Nat /\ k \in 1 .. Length(p)
  BY LevelFacts
<1>2. Len(PathNode(p, l)) = l /\ PathNode(p, l) \in Seq(KeyNames)
      /\ \A i \in 1 .. l : PathNode(p, l)[i] = Path[p][i]
  BY PathNodeFacts
<1>3. KeyOf(PathNode(p, l)) = SubSeq(PathNode(p, l), 1, k)
  BY <1>2 DEF KeyOf
<1>4. /\ SubSeq(PathNode(p, l), 1, k) \in Seq(KeyNames)
      /\ Len(SubSeq(PathNode(p, l), 1, k)) = k
      /\ \A i \in 1 .. k : SubSeq(PathNode(p, l), 1, k)[i] = PathNode(p, l)[i]
  <2>1. k \in 1 .. Len(PathNode(p, l)) + 1 /\ 1 \in Nat
    BY <1>1, <1>2
  <2> HIDE DEF k
  <2> QED BY <1>1, <1>2, <2>1, SubSeqProperties
<1>5. /\ PathNode(p, k) \in Seq(KeyNames)
      /\ Len(PathNode(p, k)) = k
      /\ \A i \in 1 .. k : PathNode(p, k)[i] = Path[p][i]
  BY <1>1, PathNodeFacts
<1> HIDE DEF k
<1>6. SubSeq(PathNode(p, l), 1, k) = PathNode(p, k)
  BY <1>1, <1>2, <1>4, <1>5, SeqEqual
<1> QED BY <1>3, <1>6 DEF k

\* A node is a node of some call's path.
LEMMA NodeFacts ==
  ASSUME NEW n \in Nodes
  PROVE  /\ Len(n) \in Nat /\ Len(n) >= 1
         /\ \E p \in Calls : Len(n) \in 1 .. Length(p) /\ n = PathNode(p, Len(n))
<1>0. PICK p \in Calls : n \in PathNodes(p)
  BY DEF Nodes
<1>1. PICK l \in 1 .. Length(p) : n = PathNode(p, l)
  BY <1>0 DEF PathNodes
<1>2. Len(n) = l /\ l \in Nat /\ l >= 1
  BY <1>1, PathNodeFacts
<1> QED BY <1>1, <1>2

\* A key is itself a node, the one at the key level.
LEMMA KeyIsNode ==
  ASSUME NEW k \in Keys
  PROVE  k \in Nodes /\ KeyOf(k) = k /\ Len(k) <= KeyLevelNodes
<1>1. PICK n \in Nodes : k = KeyOf(n)
  BY DEF Keys
<1>2. PICK p \in Calls : Len(n) \in 1 .. Length(p) /\ n = PathNode(p, Len(n))
  BY NodeFacts
<1> DEFINE j == KeyLevel(Len(n))
<1>3. k = PathNode(p, j)
  BY <1>1, <1>2, KeyOfPathNode
<1>4. j \in 1 .. Length(p) /\ KeyLevel(j) = j /\ j <= KeyLevelNodes
  BY <1>2, LevelFacts
<1> HIDE DEF j
<1> QED BY <1>3, <1>4, PathNodeFacts, KeyOfPathNode

-----------------------------------------------------------------------------

\* Facts every action's proof needs about the call that takes it.
LEMMA CallFacts ==
  ASSUME TypeOK, NEW p \in Calls
  PROVE  /\ level[p] \in 1 .. Length(p)
         /\ Start[p] \in Nat
         /\ level[p] \in Nat
         /\ PathNode(p, level[p]) \in Nodes
         /\ ChainedKey(p) \in Keys
         /\ ChainedKey(p) \in Nodes
         /\ ChainedKey(p) = KeyOf(PathNode(p, level[p]))
         /\ Len(ChainedKey(p)) = KeyLevel(level[p])
<1>1. level[p] \in 1 .. Length(p) /\ Start[p] \in Nat /\ level[p] \in Nat
  BY StartAssumption, KeyLevelNodesAssumption, PathAssumption DEF TypeOK, Length
<1>2. KeyLevel(level[p]) \in 1 .. Length(p)
  BY <1>1, LevelFacts
<1>3. PathNode(p, level[p]) \in Nodes /\ ChainedKey(p) \in Nodes
      /\ Len(ChainedKey(p)) = KeyLevel(level[p])
  BY <1>1, <1>2, PathNodeFacts DEF ChainedKey
<1>4. ChainedKey(p) = KeyOf(PathNode(p, level[p]))
  BY <1>1, KeyOfPathNode DEF ChainedKey
<1> QED BY <1>1, <1>3, <1>4 DEF Keys

\* A tree without nodes is a tree.
LEMMA BlankType == Blank \in [Nodes -> Cells]
BY DEF Blank, Cells

\* What the consumer leaves in a step is a value, or nothing.
LEMMA ConsumerType ==
  ASSUME NEW p \in Calls, NEW l, NEW cell \in Cells,
         NEW v \in ConsumerValues(p, l, cell)
  PROVE  v \in Cells
<1>1. StepValue(p, cell) \in Cells /\ Contributors(StepValue(p, cell)) \in SUBSET Writers
  BY CreatedAssumption, SentinelAssumption DEF StepValue, Contributors, Cells, Values
<1>2. {p} \in Cells /\ Contributors(StepValue(p, cell)) \cup {p} \in Cells
  BY <1>1, WriterAssumption DEF Cells, Values
<1> QED BY <1>1, <1>2 DEF ConsumerValues

\* The two ways a call changes its copy keep it well typed.
LEMMA EnrichedType ==
  ASSUME NEW tree \in [Nodes -> Cells], NEW n, NEW v \in Cells
  PROVE  Enriched(tree, n, v) \in [Nodes -> Cells]
BY DEF Enriched

\* createChild makes a tree of a tree.
LEMMA WithChildType ==
  ASSUME NEW tree \in [Nodes -> Cells], NEW n
  PROVE  WithChild(tree, n) \in [Nodes -> Cells]
BY DEF WithChild, Cells

\* The two ways out of the section of a key keep the call's state well typed.
LEMMA LeaveType ==
  ASSUME TypeOK, NEW p \in Calls, Leave(p)
  PROVE  /\ releasing' \subseteq Writers \X Keys
         /\ pc' \in [Calls -> {"register", "acquire", "get", "consume", "set", "done", "failed"}]
         /\ level' \in [Calls -> Nat]
         /\ \A q \in Calls : level'[q] \in Start[q] + 1 .. Length(q)
         /\ local' \in [Calls -> [Nodes -> Cells]]
         /\ changed' \in [Calls -> BOOLEAN]
<1>1. releasing' \subseteq Writers \X Keys
  BY CallFacts, WriterAssumption DEF Leave, ScheduleRelease, TypeOK
<1>2. local' \in [Calls -> [Nodes -> Cells]] /\ changed' \in [Calls -> BOOLEAN]
  BY BlankType DEF Leave, TypeOK
<1>3. pc' \in [Calls -> {"register", "acquire", "get", "consume", "set", "done", "failed"}]
  BY DEF Leave, Enter, TypeOK
<1>4. level' \in [Calls -> Nat] /\ \A q \in Calls : level'[q] \in Start[q] + 1 .. Length(q)
  <2>1. level[p] \in Nat /\ Start[p] \in Nat /\ Length(p) \in Nat
        /\ level[p] \in Start[p] + 1 .. Length(p)
    BY CallFacts, LevelFacts DEF TypeOK
  <2>2. \/ level' = level
        \/ level[p] < Length(p) /\ level' = [level EXCEPT ![p] = level[p] + 1]
    BY DEF Leave
  <2>3. level \in [Calls -> Nat] /\ \A q \in Calls : level[q] \in Start[q] + 1 .. Length(q)
    BY DEF TypeOK
  <2>4. ASSUME NEW q \in Calls PROVE level'[q] \in Start[q] + 1 .. Length(q)
    <3>1. CASE q = p BY <3>1, <2>1, <2>2, <2>3
    <3>2. CASE q # p BY <3>2, <2>2, <2>3
    <3> QED BY <3>1, <3>2
  <2> QED BY <2>1, <2>2, <2>3, <2>4
<1> QED BY <1>1, <1>2, <1>3, <1>4

\* A call that fails keeps the types.
LEMMA AbortType ==
  ASSUME TypeOK, NEW p \in Calls, Abort(p)
  PROVE  /\ releasing' \subseteq Writers \X Keys
         /\ pc' \in [Calls -> {"register", "acquire", "get", "consume", "set", "done", "failed"}]
         /\ level' = level
         /\ local' \in [Calls -> [Nodes -> Cells]]
         /\ changed' \in [Calls -> BOOLEAN]
<1>1. releasing' \subseteq Writers \X Keys
  BY CallFacts, WriterAssumption DEF Abort, ScheduleRelease, TypeOK
<1> QED BY <1>1, BlankType DEF Abort, TypeOK

\* storage.set keeps the types.
LEMMA StoreKeyType ==
  ASSUME TypeOK, NEW p \in Calls, StoreKey(p)
  PROVE  storage' \in [Nodes -> Cells] /\ written' \in [Calls -> SUBSET Nodes]
BY DEF StoreKey, TypeOK

\* registerChild adds a pair of consecutive levels of a path.
LEMMA RegisterType ==
  ASSUME TypeOK, NEW p \in Calls,
         registry' = registry \cup {<<PathNode(p, level[p] - 1), PathNode(p, level[p])>>}
  PROVE  registry' \subseteq UNION {{<<PathNode(q, l - 1), PathNode(q, l)>> :
                                     l \in 1 .. Length(q)} : q \in Calls}
<1>1. level[p] \in 1 .. Length(p)
  BY CallFacts
<1>2. <<PathNode(p, level[p] - 1), PathNode(p, level[p])>> \in
        {<<PathNode(p, l - 1), PathNode(p, l)>> : l \in 1 .. Length(p)}
  BY <1>1
<1> QED BY <1>2 DEF TypeOK

\* Every action keeps the state well typed.
LEMMA TypeStep ==
  ASSUME TypeOK, [Next]_vars
  PROVE  TypeOK'
<1>1. ASSUME NEW p \in Calls, RegisterChild(p) PROVE TypeOK'
  BY <1>1, RegisterType DEF RegisterChild, TypeOK
<1>2. ASSUME NEW p \in Calls, Acquire(p) PROVE TypeOK'
  BY <1>2, CallFacts, WriterAssumption DEF Acquire, TypeOK
<1>3. ASSUME NEW p \in Calls, SkipAcquire(p) PROVE TypeOK'
  BY <1>3 DEF SkipAcquire, TypeOK
<1>4. ASSUME NEW p \in Calls, Get(p) PROVE TypeOK'
  <2>1. local' \in [Calls -> [Nodes -> Cells]]
    BY <1>4 DEF Get, TypeOK, Cells
  <2> QED BY <1>4, <2>1 DEF Get, TypeOK
<1>5. ASSUME NEW p \in Calls, ConsumeInner(p) PROVE TypeOK'
  <2> DEFINE n == PathNode(p, level[p])
             child == PathNode(p, level[p] + 1)
  <2>1. PICK v \in ConsumerValues(p, level[p], local[p][n]) :
          /\ local' = [local EXCEPT ![p] = WithChild(Enriched(@, n, v), child)]
          /\ changed' = [changed EXCEPT
                           ![p] = @ \/ Differs(local[p][n], v) \/ local[p][child] = Absent]
    BY <1>5 DEF ConsumeInner
  <2>2. n \in Nodes /\ local[p][n] \in Cells
    BY CallFacts DEF TypeOK
  <2>3. v \in Cells
    BY <2>1, <2>2, ConsumerType
  <2>4. local' \in [Calls -> [Nodes -> Cells]]
    <3>1. WithChild(Enriched(local[p], n, v), child) \in [Nodes -> Cells]
      BY <2>3, EnrichedType, WithChildType DEF TypeOK
    <3> QED BY <2>1, <3>1 DEF TypeOK
  <2>5. level' \in [Calls -> Nat] /\ \A q \in Calls : level'[q] \in Start[q] + 1 .. Length(q)
    BY <1>5, CallFacts, StartAssumption, PathAssumption DEF ConsumeInner, TypeOK, Length
  <2>6. changed' \in [Calls -> BOOLEAN]
    BY <2>1 DEF TypeOK, Differs
  <2> QED BY <1>5, <2>4, <2>5, <2>6 DEF ConsumeInner, TypeOK
<1>6. ASSUME NEW p \in Calls, ConsumeLast(p) PROVE TypeOK'
  <2> DEFINE n == PathNode(p, level[p])
  <2>1. PICK v \in ConsumerValues(p, level[p], local[p][n]) :
          IF changed[p] \/ Differs(local[p][n], v)
          THEN /\ local' = [local EXCEPT ![p] = Enriched(@, n, v)]
               /\ changed' = [changed EXCEPT ![p] = TRUE]
               /\ pc' = [pc EXCEPT ![p] = "set"]
               /\ UNCHANGED <<releasing, level>>
          ELSE Leave(p)
    BY <1>6 DEF ConsumeLast
  <2>2. n \in Nodes /\ local[p][n] \in Cells
    BY CallFacts DEF TypeOK
  <2>3. v \in Cells
    BY <2>1, <2>2, ConsumerType
  <2>4. CASE changed[p] \/ Differs(local[p][n], v)
    <3>1. local' \in [Calls -> [Nodes -> Cells]]
      <4>1. Enriched(local[p], n, v) \in [Nodes -> Cells]
        BY <2>3, EnrichedType DEF TypeOK
      <4> QED BY <2>1, <2>4, <4>1 DEF TypeOK
    <3> QED BY <1>6, <2>1, <2>4, <3>1 DEF ConsumeLast, TypeOK
  <2>5. CASE ~(changed[p] \/ Differs(local[p][n], v))
    <3>1. Leave(p)
      BY <2>1, <2>5
    <3> QED BY <1>6, <3>1, LeaveType DEF ConsumeLast, TypeOK
  <2> QED BY <2>4, <2>5
<1>7. ASSUME NEW p \in Calls, Persist(p) PROVE TypeOK'
  BY <1>7, LeaveType, StoreKeyType DEF Persist, TypeOK
<1>8. ASSUME NEW p \in Calls, NEW k \in Keys, Release(p, k) PROVE TypeOK'
  BY <1>8 DEF Release, callVars, TypeOK
<1>9. ASSUME NEW p \in Calls, Fail(p) PROVE TypeOK'
  <2>1. CASE RegisterFails(p)
    BY <2>1, RegisterType DEF RegisterFails, TypeOK
  <2>2. CASE AcquireFails(p)
    BY <2>2 DEF AcquireFails, TypeOK
  <2>3. CASE GetFails(p)
    BY <2>3, AbortType DEF GetFails, TypeOK
  <2>4. CASE Close(p)
    BY <2>4, AbortType DEF Close, TypeOK
  <2>5. CASE PersistFails(p)
    BY <2>5, AbortType, StoreKeyType DEF PersistFails, TypeOK
  <2> QED BY <1>9, <2>1, <2>2, <2>3, <2>4, <2>5 DEF Fail
<1>10. CASE UNCHANGED vars
  BY <1>10 DEF vars, TypeOK
<1> QED BY <1>1, <1>2, <1>3, <1>4, <1>5, <1>6, <1>7, <1>8, <1>9, <1>10
        DEF Next, Step, Terminated

\* The initial state is well typed.
LEMMA TypeInit == Init => TypeOK
<1> SUFFICES ASSUME Init PROVE TypeOK
  OBVIOUS
<1>1. Keys = {KeyOf(n) : n \in Nodes} /\ storage \in [Nodes -> Cells]
      /\ local \in [Calls -> [Nodes -> Cells]]
  BY BlankType DEF Init, Keys
<1>2. level \in [Calls -> Nat] /\ \A p \in Calls : level[p] \in Start[p] + 1 .. Length(p)
  BY StartAssumption, PathAssumption, KeyLevelNodesAssumption DEF Init, Length
<1>3. pc \in [Calls -> {"register", "acquire", "get", "consume", "set", "done", "failed"}]
  BY DEF Init, Enter
<1> QED BY <1>1, <1>2, <1>3 DEF Init, TypeOK

\* In every reachable state the storage holds cells, the semaphores have at most
\* one holder, and every call is at a level of its path.
THEOREM TypeCorrect == Spec => []TypeOK
BY TypeInit, TypeStep, PTL DEF Spec

-----------------------------------------------------------------------------
(* Semaphores *)

\* A release that is scheduled is for a key the call has left: one of a level
\* above the call's, unless the call is over.
ReleaseInv ==
  \A p \in Calls, k \in Keys :
    <<p, k>> \in releasing => pc[p] \in {"done", "failed"} \/ Len(k) < KeyLevel(level[p])

LockInv == LockOwnership /\ ReleaseInv

\* A call that leaves a section hands its semaphore over to the release.
LEMMA LeaveLock ==
  ASSUME TypeOK, LockInv, NEW p \in Calls, InSection(p), Leave(p), UNCHANGED holder
  PROVE  LockInv'
<1> DEFINE ck == ChainedKey(p)
<1>1. /\ level[p] \in 1 .. Length(p) /\ level[p] \in Nat /\ Length(p) \in Nat
      /\ ck \in Keys /\ Len(ck) = KeyLevel(level[p])
  BY CallFacts, LevelFacts
<1>2. pc \in [Calls -> {"register", "acquire", "get", "consume", "set", "done", "failed"}]
      /\ level \in [Calls -> Nat]
  BY DEF TypeOK
<1>3. ~InSection(p)' /\ pc'[p] \in {"register", "acquire", "done"}
  BY <1>2 DEF Leave, InSection, Enter
<1>4. \A q \in Calls \ {p} : pc'[q] = pc[q] /\ level'[q] = level[q]
  BY <1>2 DEF Leave
<1>5. \A q \in Calls, k \in Keys :
        <<q, k>> \in releasing' <=>
          \/ <<q, k>> \in releasing
          \/ q = p /\ k = ck /\ Locks(p, KeyLevel(level[p]))
  BY DEF Leave, ScheduleRelease
<1>6. pc'[p] = "done" \/ KeyLevel(level[p]) < KeyLevel(level'[p])
  BY <1>1, <1>2, KeyLevelNodesAssumption DEF Leave, KeyLevel
<1>7. LockOwnership'
  <2> SUFFICES ASSUME NEW q \in Calls, NEW k \in Keys
               PROVE  holder[k] = q <=>
                        \/ InSection(q)' /\ ChainedKey(q)' = k /\ Locks(q, KeyLevel(level'[q]))
                        \/ <<q, k>> \in releasing'
    BY DEF LockOwnership, Locks, MinLevel, KeyLevel
  <2>1. holder[k] = q <=>
          \/ InSection(q) /\ ChainedKey(q) = k /\ Locks(q, KeyLevel(level[q]))
          \/ <<q, k>> \in releasing
    BY DEF LockInv, LockOwnership
  <2>2. CASE q = p
    BY <1>3, <1>5, <2>1, <2>2
  <2>3. CASE q # p
    <3>1. InSection(q)' = InSection(q) /\ ChainedKey(q)' = ChainedKey(q)
      BY <1>4, <2>3 DEF InSection, ChainedKey
    <3> QED BY <1>4, <1>5, <2>1, <2>3, <3>1
  <2> QED BY <2>2, <2>3
<1>8. ReleaseInv'
  <2> SUFFICES ASSUME NEW q \in Calls, NEW k \in Keys, <<q, k>> \in releasing'
               PROVE  pc'[q] \in {"done", "failed"} \/ Len(k) < KeyLevel(level'[q])
    BY DEF ReleaseInv, KeyLevel
  <2>1. CASE q # p
    BY <1>4, <1>5, <2>1 DEF LockInv, ReleaseInv
  <2>2. CASE q = p /\ <<q, k>> \in releasing
    <3>1. Len(k) < KeyLevel(level[p])
      BY <2>2 DEF LockInv, ReleaseInv, InSection
    <3>2. Len(k) \in Nat /\ KeyLevel(level[p]) \in Nat /\ KeyLevel(level'[p]) \in Nat
      <4>1. k \in Nodes
        BY KeyIsNode
      <4>2. Len(k) \in Nat
        BY <4>1, NodeFacts
      <4>3. level'[p] \in Nat
        BY LeaveType
      <4> QED BY <1>1, <4>2, <4>3, KeyLevelNodesAssumption DEF KeyLevel
    <3> QED BY <1>6, <2>2, <3>1, <3>2
  <2>3. CASE q = p /\ k = ck
    BY <1>1, <1>6, <2>3
  <2> QED BY <1>5, <2>1, <2>2, <2>3
<1> QED BY <1>7, <1>8 DEF LockInv

\* A call that fails in its section schedules the release of its semaphore.
LEMMA AbortLock ==
  ASSUME TypeOK, LockInv, NEW p \in Calls, InSection(p), Abort(p), UNCHANGED holder
  PROVE  LockInv'
<1> DEFINE ck == ChainedKey(p)
<1>1. pc \in [Calls -> {"register", "acquire", "get", "consume", "set", "done", "failed"}]
  BY DEF TypeOK
<1>2. ~InSection(p)' /\ pc'[p] = "failed" /\ level' = level
  BY <1>1 DEF Abort, InSection
<1>3. \A q \in Calls \ {p} : pc'[q] = pc[q]
  BY <1>1 DEF Abort
<1>4. \A q \in Calls, k \in Keys :
        <<q, k>> \in releasing' <=>
          \/ <<q, k>> \in releasing
          \/ q = p /\ k = ck /\ Locks(p, KeyLevel(level[p]))
  BY DEF Abort, ScheduleRelease
<1>5. LockOwnership'
  <2> SUFFICES ASSUME NEW q \in Calls, NEW k \in Keys
               PROVE  holder[k] = q <=>
                        \/ InSection(q)' /\ ChainedKey(q)' = k /\ Locks(q, KeyLevel(level'[q]))
                        \/ <<q, k>> \in releasing'
    BY DEF LockOwnership, Locks, MinLevel, KeyLevel
  <2>1. holder[k] = q <=>
          \/ InSection(q) /\ ChainedKey(q) = k /\ Locks(q, KeyLevel(level[q]))
          \/ <<q, k>> \in releasing
    BY DEF LockInv, LockOwnership
  <2>2. CASE q = p
    BY <1>2, <1>4, <2>1, <2>2
  <2>3. CASE q # p
    <3>1. InSection(q)' = InSection(q) /\ ChainedKey(q)' = ChainedKey(q)
      BY <1>2, <1>3, <2>3 DEF InSection, ChainedKey
    <3> QED BY <1>2, <1>4, <2>1, <2>3, <3>1
  <2> QED BY <2>2, <2>3
<1>6. ReleaseInv'
  <2> SUFFICES ASSUME NEW q \in Calls, NEW k \in Keys, <<q, k>> \in releasing'
               PROVE  pc'[q] \in {"done", "failed"} \/ Len(k) < KeyLevel(level'[q])
    BY DEF ReleaseInv, KeyLevel
  <2>1. CASE q # p
    BY <1>2, <1>3, <1>4, <2>1 DEF LockInv, ReleaseInv
  <2>2. CASE q = p
    BY <1>2, <2>2
  <2> QED BY <2>1, <2>2
<1> QED BY <1>5, <1>6 DEF LockInv

\* A step of a call that stays on the same side of the semaphore of the same key.
LEMMA QuietLock ==
  ASSUME TypeOK, LockInv, NEW p \in Calls, UNCHANGED <<holder, releasing>>,
         pc[p] \notin {"done", "failed"},
         \A q \in Calls \ {p} : pc'[q] = pc[q] /\ level'[q] = level[q],
         KeyLevel(level'[p]) = KeyLevel(level[p]),
         InSection(p)' = InSection(p) \/ ~Locks(p, KeyLevel(level[p]))
  PROVE  LockInv'
<1>1. LockOwnership'
  <2> SUFFICES ASSUME NEW q \in Calls, NEW k \in Keys
               PROVE  holder[k] = q <=>
                        \/ InSection(q)' /\ ChainedKey(q)' = k /\ Locks(q, KeyLevel(level'[q]))
                        \/ <<q, k>> \in releasing
    BY DEF LockOwnership, Locks, MinLevel, KeyLevel
  <2>1. holder[k] = q <=>
          \/ InSection(q) /\ ChainedKey(q) = k /\ Locks(q, KeyLevel(level[q]))
          \/ <<q, k>> \in releasing
    BY DEF LockInv, LockOwnership
  <2>2. ChainedKey(q)' = ChainedKey(q) /\ KeyLevel(level'[q]) = KeyLevel(level[q])
    <3>1. KeyLevel(level'[q]) = KeyLevel(level[q])
      OBVIOUS
    <3> QED BY <3>1 DEF ChainedKey, PathNode, KeyLevel
  <2>3. CASE q = p
    BY <2>1, <2>2, <2>3
  <2>4. CASE q # p
    <3>1. InSection(q)' = InSection(q)
      BY <2>4 DEF InSection
    <3> QED BY <2>1, <2>2, <3>1
  <2> QED BY <2>3, <2>4
<1>2. ReleaseInv'
  <2> SUFFICES ASSUME NEW q \in Calls, NEW k \in Keys, <<q, k>> \in releasing
               PROVE  pc'[q] \in {"done", "failed"} \/ Len(k) < KeyLevel(level'[q])
    BY DEF ReleaseInv, KeyLevel
  <2> QED BY DEF LockInv, ReleaseInv
<1> QED BY <1>1, <1>2 DEF LockInv

\* In the tree phase the key of a call does not change with its level.
LEMMA TreePhaseKey ==
  ASSUME TypeOK, NEW p \in Calls, ConsumeInner(p)
  PROVE  /\ KeyLevel(level'[p]) = KeyLevel(level[p])
         /\ KeyLevel(level[p]) = KeyLevelNodes
         /\ \A q \in Calls \ {p} : level'[q] = level[q]
         /\ ChainedKey(p)' = ChainedKey(p)
         /\ level'[p] = level[p] + 1
<1>1. level \in [Calls -> Nat] /\ level[p] \in Nat
  BY DEF TypeOK
<1>2. level'[p] = level[p] + 1 /\ level[p] >= KeyLevelNodes
  BY <1>1 DEF ConsumeInner
<1>3. KeyLevel(level'[p]) = KeyLevel(level[p]) /\ KeyLevel(level[p]) = KeyLevelNodes
  BY <1>1, <1>2, KeyLevelNodesAssumption DEF KeyLevel
<1>4. ChainedKey(p)' = ChainedKey(p)
  BY <1>3 DEF ChainedKey, PathNode, KeyLevel
<1> QED BY <1>1, <1>2, <1>3, <1>4 DEF ConsumeInner

\* Every action keeps the semaphores with the calls that are in their sections.
LEMMA LockStep ==
  ASSUME TypeOK, LockInv, [Next]_vars
  PROVE  LockInv'
<1> USE DEF TypeOK
<1>1. ASSUME NEW p \in Calls, RegisterChild(p) PROVE LockInv'
  <2>1. /\ pc[p] = "register" /\ pc'[p] = "acquire"
        /\ UNCHANGED <<holder, releasing, level>>
        /\ \A q \in Calls \ {p} : pc'[q] = pc[q]
    BY <1>1 DEF RegisterChild
  <2>2. InSection(p)' = InSection(p)
    BY <2>1 DEF InSection
  <2> QED BY <2>1, <2>2, QuietLock
<1>2. ASSUME NEW p \in Calls, Acquire(p) PROVE LockInv'
  <2>1. ChainedKey(p) \in Keys /\ p # Free
    BY CallFacts, ConsumerAssumption, WriterAssumption
  <2>2. /\ holder[ChainedKey(p)] = Free
        /\ holder' = [holder EXCEPT ![ChainedKey(p)] = p]
        /\ level' = level /\ releasing' = releasing
        /\ Locks(p, KeyLevel(level[p]))
        /\ ~InSection(p) /\ InSection(p)'
        /\ \A q \in Calls \ {p} : pc'[q] = pc[q]
    BY <1>2 DEF Acquire, InSection
  <2>3. LockOwnership'
    <3> SUFFICES ASSUME NEW q \in Calls, NEW k \in Keys
                 PROVE  holder'[k] = q <=>
                          \/ InSection(q)' /\ ChainedKey(q)' = k /\ Locks(q, KeyLevel(level'[q]))
                          \/ <<q, k>> \in releasing'
      BY DEF LockOwnership, Locks, MinLevel, KeyLevel
    <3>1. holder[k] = q <=>
            \/ InSection(q) /\ ChainedKey(q) = k /\ Locks(q, KeyLevel(level[q]))
            \/ <<q, k>> \in releasing
      BY DEF LockInv, LockOwnership
    <3>2. ChainedKey(q)' = ChainedKey(q) /\ (q # p => InSection(q)' = InSection(q))
      BY <2>2 DEF ChainedKey, InSection
    <3>3. holder \in [Keys -> Writers \cup {Free}]
      OBVIOUS
    <3>4. q # Free
      BY ConsumerAssumption, WriterAssumption
    <3>5. CASE k = ChainedKey(p)
      <4>1. holder'[k] = p
        BY <2>1, <2>2, <3>3, <3>5
      <4> QED BY <2>2, <3>1, <3>2, <3>4, <3>5, <4>1
    <3>6. CASE k # ChainedKey(p)
      <4>1. holder'[k] = holder[k]
        BY <2>2, <3>3, <3>6
      <4> QED BY <2>2, <3>1, <3>2, <3>6, <4>1
    <3> QED BY <3>5, <3>6
  <2>4. ReleaseInv'
    <3> SUFFICES ASSUME NEW q \in Calls, NEW k \in Keys, <<q, k>> \in releasing
                 PROVE  pc'[q] \in {"done", "failed"} \/ Len(k) < KeyLevel(level[q])
      BY <2>2 DEF ReleaseInv, KeyLevel
    <3>1. pc[q] \in {"done", "failed"} \/ Len(k) < KeyLevel(level[q])
      BY DEF LockInv, ReleaseInv
    <3> QED BY <1>2, <2>2, <3>1 DEF Acquire
  <2> QED BY <2>3, <2>4 DEF LockInv
<1>3. ASSUME NEW p \in Calls, SkipAcquire(p) PROVE LockInv'
  BY <1>3, QuietLock DEF SkipAcquire, InSection
<1>4. ASSUME NEW p \in Calls, Get(p) PROVE LockInv'
  <2>1. /\ pc[p] = "get" /\ pc'[p] = "consume"
        /\ UNCHANGED <<holder, releasing, level>>
        /\ \A q \in Calls \ {p} : pc'[q] = pc[q]
    BY <1>4 DEF Get
  <2>2. InSection(p)' = InSection(p)
    BY <2>1 DEF InSection
  <2> QED BY <2>1, <2>2, QuietLock
<1>5. ASSUME NEW p \in Calls, ConsumeInner(p) PROVE LockInv'
  <2>1. UNCHANGED <<holder, releasing, pc>> /\ pc[p] = "consume"
    BY <1>5 DEF ConsumeInner
  <2>2. InSection(p)' = InSection(p)
    BY <2>1 DEF InSection
  <2> QED BY <1>5, <2>1, <2>2, TreePhaseKey, QuietLock
<1>6. ASSUME NEW p \in Calls, ConsumeLast(p) PROVE LockInv'
  <2>1. \/ Leave(p)
        \/ pc' = [pc EXCEPT ![p] = "set"] /\ UNCHANGED <<releasing, level>>
    BY <1>6 DEF ConsumeLast
  <2>2. InSection(p) /\ UNCHANGED holder /\ pc[p] = "consume"
    BY <1>6 DEF ConsumeLast, InSection
  <2>3. CASE pc' = [pc EXCEPT ![p] = "set"] /\ UNCHANGED <<releasing, level>>
    <3>1. InSection(p)' /\ \A q \in Calls \ {p} : pc'[q] = pc[q]
      BY <2>3 DEF InSection
    <3> QED BY <2>2, <2>3, <3>1, QuietLock
  <2> QED BY <2>1, <2>2, <2>3, LeaveLock
<1>7. ASSUME NEW p \in Calls, Persist(p) PROVE LockInv'
  BY <1>7, LeaveLock DEF Persist, InSection
<1>8. ASSUME NEW p \in Calls, NEW k \in Keys, Release(p, k) PROVE LockInv'
  <2>1. /\ <<p, k>> \in releasing
        /\ releasing' = releasing \ {<<p, k>>}
        /\ holder' = [holder EXCEPT ![k] = Free]
        /\ pc' = pc /\ level' = level
    BY <1>8 DEF Release, callVars
  <2>2. holder[k] = p /\ ~(InSection(p) /\ ChainedKey(p) = k)
    <3>1. holder[k] = p
      BY <2>1 DEF LockInv, LockOwnership
    <3>2. pc[p] \in {"done", "failed"} \/ Len(k) < KeyLevel(level[p])
      BY <2>1 DEF LockInv, ReleaseInv
    <3>3. Len(ChainedKey(p)) = KeyLevel(level[p]) /\ KeyLevel(level[p]) \in Nat
      <4>1. level[p] \in Nat
        OBVIOUS
      <4> QED BY <4>1, CallFacts, KeyLevelNodesAssumption DEF KeyLevel
    <3> QED BY <3>1, <3>2, <3>3 DEF InSection
  <2>3. LockOwnership'
    <3> SUFFICES ASSUME NEW q \in Calls, NEW j \in Keys
                 PROVE  holder'[j] = q <=>
                          \/ InSection(q)' /\ ChainedKey(q)' = j /\ Locks(q, KeyLevel(level'[q]))
                          \/ <<q, j>> \in releasing'
      BY DEF LockOwnership, Locks, MinLevel, KeyLevel
    <3>1. holder[j] = q <=>
            \/ InSection(q) /\ ChainedKey(q) = j /\ Locks(q, KeyLevel(level[q]))
            \/ <<q, j>> \in releasing
      BY DEF LockInv, LockOwnership
    <3>2. ChainedKey(q)' = ChainedKey(q) /\ InSection(q)' = InSection(q)
      BY <2>1 DEF ChainedKey, InSection
    <3>3. q # Free /\ holder'[j] = IF j = k THEN Free ELSE holder[j]
      BY <2>1, ConsumerAssumption, WriterAssumption
    <3> QED BY <2>1, <2>2, <3>1, <3>2, <3>3
  <2>4. ReleaseInv'
    BY <2>1 DEF LockInv, ReleaseInv, KeyLevel
  <2> QED BY <2>3, <2>4 DEF LockInv
<1>9. ASSUME NEW p \in Calls, Fail(p) PROVE LockInv'
  <2>1. CASE RegisterFails(p) \/ AcquireFails(p)
    <3>1. /\ pc[p] \in {"register", "acquire"} /\ pc'[p] = "failed"
          /\ UNCHANGED <<holder, releasing, level>>
          /\ \A q \in Calls \ {p} : pc'[q] = pc[q]
      BY <2>1 DEF RegisterFails, AcquireFails
    <3>2. InSection(p)' = InSection(p)
      BY <3>1 DEF InSection
    <3> QED BY <3>1, <3>2, QuietLock
  <2>3. CASE GetFails(p)
    BY <2>3, AbortLock DEF GetFails, InSection
  <2>4. CASE Close(p)
    BY <2>4, AbortLock DEF Close, InSection
  <2>5. CASE PersistFails(p)
    BY <2>5, AbortLock DEF PersistFails, InSection
  <2> QED BY <1>9, <2>1, <2>3, <2>4, <2>5 DEF Fail
<1>10. CASE UNCHANGED vars
  BY <1>10 DEF vars, LockInv, LockOwnership, ReleaseInv, InSection, ChainedKey, Locks, MinLevel, KeyLevel
<1> QED BY <1>1, <1>2, <1>3, <1>4, <1>5, <1>6, <1>7, <1>8, <1>9, <1>10
        DEF Next, Step, Terminated

\* At first no semaphore is held and no release is scheduled.
LEMMA LockInit == Init => LockInv
BY ConsumerAssumption, WriterAssumption DEF Init, LockInv, LockOwnership, ReleaseInv, InSection, Enter

\* In every reachable state a semaphore is held exactly by the call in the
\* section of its key, or by the one whose release is scheduled.
THEOREM LockOwnershipHolds == Spec => []LockOwnership
<1>1. Spec => [](TypeOK /\ LockInv)
  BY TypeInit, TypeStep, LockInit, LockStep, PTL DEF Spec
<1> QED BY <1>1, PTL DEF LockInv

-----------------------------------------------------------------------------
(* Snapshots *)

\* Only calls that may write a key get to write it; a copy has changed only in
\* the tree phase or on its way to the storage.
WriteInv ==
  \A p \in Calls :
    /\ pc[p] = "set" => MayWrite(p, KeyLevel(level[p]))
    /\ changed[p] => pc[p] = "set" \/ level[p] >= KeyLevelNodes

\* A node the call has read and not yet handed to its consumer.
Pending(p, n) == Len(n) > level[p] \/ (Len(n) = level[p] /\ pc[p] = "consume")

\* What the copy of an untouched node may be: what is stored, or the empty node
\* made for it.
Untouched(v) == {v} \cup (IF v = Absent THEN {None} ELSE {})

\* The copy a call has of a key is what is stored there now, but for what the
\* call itself has done to the nodes of its path.
Snapshot(p) ==
  \A n \in Nodes : KeyOf(n) = ChainedKey(p) =>
    /\ n \notin PathNodes(p) => local[p][n] = storage[n]
    /\ local[p][n] \in Updates!Outcomes(p, n, storage[n])
    /\ Pending(p, n) => local[p][n] \in Untouched(storage[n])

GuardedKeys == {k \in Keys : Guarded(k)}

\* S: the keys that all writers lock, those of other modules included.
SnapshotInv(S) ==
  \A p \in Calls :
    /\ pc[p] \in {"consume", "set"}
    /\ Locks(p, KeyLevel(level[p]))
    /\ ChainedKey(p) \in S
    => Snapshot(p)

\* No one but the holder of a key of S changes what is stored under it, so the
\* holder's snapshot cannot go stale.
CoreInv(S) == TypeOK /\ LockInv /\ WriteInv /\ SnapshotInv(S)

\* The inductive invariant of the writers.
IInv == CoreInv(GuardedKeys) /\ NoLostUpdate

\* The last node of a path is the path.
LEMMA LastNode ==
  ASSUME NEW p \in Calls
  PROVE  PathNode(p, Length(p)) = Path[p]
<1>1. Path[p] \in Seq(KeyNames) /\ Len(Path[p]) \in Nat
  BY PathAssumption
<1>2. /\ PathNode(p, Length(p)) \in Seq(KeyNames)
      /\ Len(PathNode(p, Length(p))) = Len(Path[p])
      /\ \A i \in 1 .. Len(Path[p]) : PathNode(p, Length(p))[i] = Path[p][i]
  <2>1. Length(p) \in 1 .. Length(p)
    BY PathAssumption, <1>1 DEF Length
  <2> QED BY <2>1, PathNodeFacts DEF Length
<1> QED BY <1>1, <1>2, SeqEqual

\* What is kept of a step is one of the outcomes of the call for its node.
LEMMA ConsumerOutcome ==
  ASSUME NEW p \in Calls, NEW l \in 1 .. Length(p),
         NEW s \in Cells, NEW c \in Untouched(s),
         NEW v \in ConsumerValues(p, l, c)
  PROVE  (IF Differs(c, v) THEN v ELSE c) \in Updates!Outcomes(p, PathNode(p, l), s)
<1> DEFINE n == PathNode(p, l)
<1>1. c \in Updates!Outcomes(p, n, s)
  BY DEF Untouched, Updates!Outcomes
<1>2. Contributors(c) = Contributors(s) /\ (c \in {None, Absent} <=> s \in {None, Absent})
  BY SentinelAssumption DEF Untouched, Contributors, Cells, Values
<1>3. c \notin {None, Absent} => c = s
  BY DEF Untouched
<1>4. CASE v = StepValue(p, c)
  <2>1. CASE c \in {None, Absent}
    <3>1. v \in {None, {}}
      BY <1>4, <2>1, CreatedAssumption DEF StepValue
    <3>2. v = {} => v \in Updates!Outcomes(p, n, s)
      BY <1>2, <2>1 DEF Updates!Outcomes
    <3>3. v = None => ~Differs(c, v)
      BY DEF Differs
    <3> QED BY <1>1, <3>1, <3>2, <3>3
  <2>2. CASE c \notin {None, Absent}
    BY <1>1, <1>4, <2>2 DEF StepValue
  <2> QED BY <2>1, <2>2
<1>5. CASE Kind[p] = "deep" /\ v = Contributors(StepValue(p, c)) \cup {p}
  <2>1. Contributors(StepValue(p, c)) = Contributors(s)
    BY <1>2, <1>3, CreatedAssumption, SentinelAssumption DEF StepValue, Contributors
  <2>2. v \in Updates!Outcomes(p, n, s)
    BY <1>5, <2>1 DEF Updates!Outcomes, Updates!Contributors, Contributors
  <2> QED BY <1>1, <2>2
<1>6. CASE Kind[p] = "set" /\ l = Length(p) /\ v = {p}
  <2>1. IsTarget(p, n)
    BY <1>6, LastNode DEF IsTarget
  <2>2. v \in Updates!Outcomes(p, n, s)
    BY <1>6, <2>1 DEF Updates!Outcomes, Updates!IsTarget, IsTarget
  <2> QED BY <1>1, <2>2
<1> QED BY <1>4, <1>5, <1>6, KindAssumption DEF ConsumerValues

\* A call never changes the value of a key level node it may not write.
LEMMA ConsumerLeavesAlone ==
  ASSUME NEW p \in Calls, NEW l \in 1 .. Length(p), l < KeyLevelNodes,
         NEW c \in Cells, NEW v \in ConsumerValues(p, l, c), Differs(c, v)
  PROVE  MayWrite(p, KeyLevel(l))
<1>1. CASE Kind[p] = "set" /\ l # Length(p) /\ Comparable
  <2>1. v = StepValue(p, c) /\ Created[p] = None
    BY <1>1, CreatedAssumption DEF ConsumerValues
  <2> QED BY <1>1, <2>1 DEF StepValue, Differs
<1>2. CASE l = Length(p)
  BY <1>2 DEF MayWrite
<1>3. CASE Kind[p] = "deep" \/ ~Comparable
  BY <1>3 DEF MayWrite
<1> QED BY <1>1, <1>2, <1>3, KindAssumption

\* A call comes to its write only under a key that it may write.
LEMMA WriteStep ==
  ASSUME TypeOK, WriteInv, [Next]_vars
  PROVE  WriteInv'
<1> USE DEF TypeOK
<1> DEFINE W(q) == /\ pc[q] = "set" => MayWrite(q, KeyLevel(level[q]))
                   /\ changed[q] => pc[q] = "set" \/ level[q] >= KeyLevelNodes
<1>0. ASSUME NEW p \in Calls,
             \A q \in Calls \ {p} : pc'[q] = pc[q] /\ level'[q] = level[q]
                                    /\ changed'[q] = changed[q],
             W(p)'
      PROVE  WriteInv'
  BY <1>0 DEF WriteInv, MayWrite, KeyLevel
<1>1. ASSUME NEW p \in Calls,
             RegisterChild(p) \/ Acquire(p) \/ SkipAcquire(p) \/ Get(p)
             \/ RegisterFails(p) \/ AcquireFails(p)
      PROVE  WriteInv'
  <2>1. pc[p] # "set" /\ pc'[p] # "set" /\ level' = level /\ changed' = changed
        /\ \A q \in Calls \ {p} : pc'[q] = pc[q]
    BY <1>1 DEF RegisterChild, Acquire, SkipAcquire, Get, RegisterFails, AcquireFails
  <2>2. W(p)'
    BY <2>1 DEF WriteInv
  <2> QED BY <1>0, <2>1, <2>2
<1>2. ASSUME NEW p \in Calls, Leave(p) \/ Abort(p)
      PROVE  WriteInv'
  <2>1. pc'[p] # "set" /\ changed'[p] = FALSE
        /\ \A q \in Calls \ {p} : pc'[q] = pc[q] /\ level'[q] = level[q]
                                  /\ changed'[q] = changed[q]
    BY <1>2 DEF Leave, Abort, Enter
  <2>2. W(p)'
    BY <2>1
  <2> QED BY <1>0, <2>1, <2>2
<1>3. ASSUME NEW p \in Calls, ConsumeInner(p) PROVE WriteInv'
  <2>1. /\ pc' = pc /\ pc[p] = "consume" /\ level'[p] >= KeyLevelNodes
        /\ \A q \in Calls \ {p} : level'[q] = level[q] /\ changed'[q] = changed[q]
    BY <1>3, KeyLevelNodesAssumption DEF ConsumeInner
  <2>2. W(p)'
    BY <2>1
  <2> QED BY <1>0, <2>1, <2>2
<1>4. ASSUME NEW p \in Calls, ConsumeLast(p) PROVE WriteInv'
  <2> DEFINE n == PathNode(p, level[p])
  <2>1. PICK v \in ConsumerValues(p, level[p], local[p][n]) :
          IF changed[p] \/ Differs(local[p][n], v)
          THEN /\ changed' = [changed EXCEPT ![p] = TRUE]
               /\ pc' = [pc EXCEPT ![p] = "set"]
               /\ UNCHANGED level
          ELSE Leave(p)
    BY <1>4 DEF ConsumeLast
  <2>2. CASE changed[p] \/ Differs(local[p][n], v)
    <3>1. level[p] \in 1 .. Length(p) /\ local[p][n] \in Cells /\ level[p] \in Nat
      BY CallFacts
    <3>2. MayWrite(p, KeyLevel(level[p]))
      <4>1. CASE level[p] < KeyLevelNodes
        <5>1. Differs(local[p][n], v)
          BY <1>4, <2>2, <4>1, <3>1, KeyLevelNodesAssumption DEF WriteInv, ConsumeLast
        <5> QED BY <2>1, <3>1, <4>1, <5>1, ConsumerLeavesAlone
      <4>2. CASE level[p] >= KeyLevelNodes
        <5>1. KeyLevel(level[p]) = KeyLevel(Length(p))
          BY <3>1, <4>2, LevelFacts, KeyLevelNodesAssumption DEF KeyLevel
        <5> QED BY <5>1 DEF MayWrite
      <4> QED BY <3>1, <4>1, <4>2, KeyLevelNodesAssumption
    <3>3. W(p)'
      BY <2>1, <2>2, <3>2 DEF MayWrite, KeyLevel
    <3> QED BY <1>0, <2>1, <2>2, <3>3
  <2>3. CASE ~(changed[p] \/ Differs(local[p][n], v))
    BY <1>2, <2>1, <2>3
  <2> QED BY <2>2, <2>3
<1>5. ASSUME NEW p \in Calls, Persist(p) \/ GetFails(p) \/ Close(p) \/ PersistFails(p)
      PROVE  WriteInv'
  BY <1>2, <1>5 DEF Persist, GetFails, Close, PersistFails
<1>6. ASSUME NEW p \in Calls, NEW k \in Keys, Release(p, k) PROVE WriteInv'
  BY <1>6 DEF Release, callVars, WriteInv, MayWrite, KeyLevel
<1>7. CASE UNCHANGED vars
  BY <1>7 DEF vars, WriteInv, MayWrite, KeyLevel
<1> QED BY <1>1, <1>3, <1>4, <1>5, <1>6, <1>7 DEF Next, Step, Fail, Terminated

\* A call that stores a guarded key holds its semaphore.
LEMMA WriterLocks ==
  ASSUME TypeOK, WriteInv, NEW p \in Calls, pc[p] = "set", Guarded(ChainedKey(p))
  PROVE  Locks(p, KeyLevel(level[p]))
<1>1. /\ KeyLevel(level[p]) \in Start[p] + 1 .. KeyLevel(Length(p))
      /\ MayWrite(p, KeyLevel(level[p]))
  <2>1. level[p] \in Start[p] + 1 .. Length(p) /\ Start[p] \in 0 .. KeyLevelNodes - 1
    BY StartAssumption DEF TypeOK
  <2>2. level[p] \in 1 .. Length(p) /\ level[p] \in Nat
    BY CallFacts
  <2>3. KeyLevel(level[p]) <= KeyLevel(Length(p)) /\ Length(p) \in Nat
    BY <2>2, LevelFacts
  <2> QED BY <2>1, <2>2, <2>3, KeyLevelNodesAssumption DEF WriteInv, KeyLevel
<1> QED BY <1>1 DEF Guarded, ChainedKey

\* A call that stores a guarded key is the only one in a locked section of it.
LEMMA SoleWriter ==
  ASSUME TypeOK, LockInv, WriteInv, NEW p \in Calls, NEW q \in Calls,
         pc[p] = "set", InSection(q), Locks(q, KeyLevel(level[q])),
         ChainedKey(q) = ChainedKey(p), Guarded(ChainedKey(p))
  PROVE  q = p
<1>1. ChainedKey(p) \in Keys /\ KeyLevel(level[p]) \in 1 .. Length(p)
      /\ KeyLevel(level[p]) <= KeyLevel(Length(p))
  BY CallFacts, LevelFacts
<1>2. Locks(p, KeyLevel(level[p]))
  BY WriterLocks
<1>3. holder[ChainedKey(p)] = p
  BY <1>1, <1>2 DEF LockInv, LockOwnership, InSection
<1>4. holder[ChainedKey(p)] = q
  BY <1>1 DEF LockInv, LockOwnership
<1> QED BY <1>3, <1>4

\* A step of p leaves the snapshots of the other calls as they are.
LEMMA OtherSnapshots ==
  ASSUME NEW S \in SUBSET GuardedKeys, CoreInv(S),
         NEW p \in Calls, NEW q \in Calls, q # p,
         pc'[q] = pc[q], level'[q] = level[q], local'[q] = local[q],
         storage' = storage \/ (pc[p] = "set" /\ StoreKey(p)),
         pc[q] \in {"consume", "set"}, Locks(q, KeyLevel(level[q])), ChainedKey(q) \in S
  PROVE  Snapshot(q)'
<1>1. Snapshot(q)
  BY DEF CoreInv, SnapshotInv
<1>2. \A n \in Nodes : KeyOf(n) = ChainedKey(q) => storage'[n] = storage[n]
  <2>1. CASE pc[p] = "set" /\ StoreKey(p)
    <3>1. ChainedKey(q) # ChainedKey(p)
      BY <2>1, SoleWriter DEF CoreInv, InSection, GuardedKeys
    <3> QED BY <2>1, <3>1 DEF StoreKey
  <2> QED BY <2>1
<1>3. ChainedKey(q)' = ChainedKey(q)
  BY DEF ChainedKey
<1> QED BY <1>1, <1>2, <1>3
        DEF Snapshot, Pending, Untouched, Updates!Outcomes, Updates!Contributors

\* What storage.get returns is a snapshot.
LEMMA GetSnapshot ==
  ASSUME TypeOK, NEW p \in Calls, Get(p)
  PROVE  Snapshot(p)'
<1>1. /\ level' = level /\ storage' = storage /\ pc'[p] = "consume"
      /\ local'[p] = [n \in Nodes |->
                 IF KeyOf(n) # ChainedKey(p) THEN Absent
                 ELSE IF /\ storage[n] = Absent
                         /\ level[p] = KeyLevelNodes
                         /\ n = ChainedKey(p)
                      THEN None
                      ELSE storage[n]]
  BY DEF Get, TypeOK
<1>2. ChainedKey(p)' = ChainedKey(p)
  BY <1>1 DEF ChainedKey
<1>3. ASSUME NEW n \in Nodes, KeyOf(n) = ChainedKey(p)
      PROVE  /\ local'[p][n] \in Untouched(storage[n])
             /\ n \notin PathNodes(p) => local'[p][n] = storage[n]
  <2>1. level[p] = KeyLevelNodes /\ n = ChainedKey(p) => n \in PathNodes(p)
    <3>1. KeyLevel(level[p]) \in 1 .. Length(p)
      BY CallFacts, LevelFacts
    <3> QED BY <3>1, PathNodeFacts DEF ChainedKey
  <2> QED BY <1>1, <1>3, <2>1 DEF Untouched
<1>4. ASSUME NEW n \in Nodes, KeyOf(n) = ChainedKey(p)
      PROVE  local'[p][n] \in Updates!Outcomes(p, n, storage[n])
  BY <1>3, <1>4 DEF Untouched, Updates!Outcomes
<1> QED BY <1>1, <1>2, <1>3, <1>4
        DEF Snapshot, Untouched, Updates!Outcomes, Updates!Contributors

\* A step the call takes on its copy keeps it a snapshot, but for that step.
LEMMA EnrichSnapshot ==
  ASSUME TypeOK, NEW p \in Calls, Snapshot(p), pc[p] = "consume",
         NEW v \in ConsumerValues(p, level[p], local[p][PathNode(p, level[p])])
  PROVE  LET t == Enriched(local[p], PathNode(p, level[p]), v)
         IN  /\ t \in [Nodes -> Cells]
             /\ \A n \in Nodes : KeyOf(n) = ChainedKey(p) =>
                  /\ n \notin PathNodes(p) => t[n] = storage[n]
                  /\ t[n] \in Updates!Outcomes(p, n, storage[n])
                  /\ Len(n) > level[p] => t[n] \in Untouched(storage[n])
<1> DEFINE m == PathNode(p, level[p])
           t == Enriched(local[p], m, v)
<1>1. /\ level[p] \in 1 .. Length(p) /\ m \in Nodes /\ m \in PathNodes(p)
      /\ Len(m) = level[p] /\ KeyOf(m) = ChainedKey(p) /\ level[p] \in Nat
  BY CallFacts, PathNodeFacts
<1>2. local[p] \in [Nodes -> Cells] /\ storage \in [Nodes -> Cells]
  BY DEF TypeOK
<1>3. v \in Cells
  BY <1>1, <1>2, ConsumerType
<1>4. t \in [Nodes -> Cells]
  BY <1>2, <1>3, EnrichedType
<1>5. t[m] = (IF Differs(local[p][m], v) THEN v ELSE local[p][m])
      /\ \A n \in Nodes : n # m => t[n] = local[p][n]
  BY <1>1, <1>2 DEF Enriched
<1>6. t[m] \in Updates!Outcomes(p, m, storage[m])
  <2>1. local[p][m] \in Untouched(storage[m])
    BY <1>1 DEF Snapshot, Pending
  <2> QED BY <1>1, <1>2, <1>5, <2>1, ConsumerOutcome
<1>7. ASSUME NEW n \in Nodes, KeyOf(n) = ChainedKey(p), n # m
      PROVE  /\ n \notin PathNodes(p) => t[n] = storage[n]
             /\ t[n] \in Updates!Outcomes(p, n, storage[n])
             /\ Len(n) > level[p] => t[n] \in Untouched(storage[n])
  <2>1. t[n] = local[p][n]
    BY <1>5, <1>7
  <2> QED BY <1>7, <2>1 DEF Snapshot, Pending
<1> QED BY <1>1, <1>4, <1>6, <1>7

\* A call that descends to a child, creating it if need be, keeps its snapshot.
LEMMA InnerSnapshot ==
  ASSUME TypeOK, NEW p \in Calls, Snapshot(p), ConsumeInner(p)
  PROVE  Snapshot(p)'
<1> DEFINE m == PathNode(p, level[p])
           child == PathNode(p, level[p] + 1)
<1>1. PICK v \in ConsumerValues(p, level[p], local[p][m]) :
        local' = [local EXCEPT ![p] = WithChild(Enriched(@, m, v), child)]
  BY DEF ConsumeInner
<1> DEFINE t == Enriched(local[p], m, v)
<1>2. /\ t \in [Nodes -> Cells]
      /\ \A n \in Nodes : KeyOf(n) = ChainedKey(p) =>
           /\ n \notin PathNodes(p) => t[n] = storage[n]
           /\ t[n] \in Updates!Outcomes(p, n, storage[n])
           /\ Len(n) > level[p] => t[n] \in Untouched(storage[n])
  BY EnrichSnapshot DEF ConsumeInner
<1>3. /\ level'[p] = level[p] + 1 /\ ChainedKey(p)' = ChainedKey(p)
      /\ storage' = storage /\ pc' = pc
  BY TreePhaseKey DEF ConsumeInner
<1>4. child \in Nodes /\ child \in PathNodes(p) /\ Len(child) = level[p] + 1
      /\ level[p] \in Nat
  <2>1. level[p] + 1 \in 1 .. Length(p) /\ level[p] \in Nat
    BY CallFacts, LevelFacts DEF ConsumeInner
  <2> QED BY <2>1, PathNodeFacts
<1>5. local'[p] = WithChild(t, child)
  BY <1>1 DEF TypeOK
<1> HIDE DEF t, child, m
<1>6. ASSUME NEW n \in Nodes, KeyOf(n) = ChainedKey(p)
      PROVE  /\ n \notin PathNodes(p) => local'[p][n] = storage[n]
             /\ local'[p][n] \in Updates!Outcomes(p, n, storage[n])
             /\ Len(n) > level[p] => local'[p][n] \in Untouched(storage[n])
  <2>1. CASE n = child
    <3>1. t[n] \in Untouched(storage[n])
      BY <1>2, <1>4, <1>6, <2>1
    <3>2. local'[p][n] = IF t[n] = Absent THEN None ELSE t[n]
      BY <1>2, <1>5, <2>1 DEF WithChild
    <3>3. local'[p][n] \in Untouched(storage[n])
      BY <3>1, <3>2 DEF Untouched
    <3>4. local'[p][n] \in Updates!Outcomes(p, n, storage[n])
      BY <3>3 DEF Untouched, Updates!Outcomes
    <3> QED BY <1>4, <2>1, <3>3, <3>4
  <2>2. CASE n # child
    <3>1. local'[p][n] = t[n]
      BY <1>2, <1>5, <2>2 DEF WithChild
    <3> QED BY <1>2, <1>6, <3>1
  <2> QED BY <2>1, <2>2
<1>7. ASSUME NEW n \in Nodes, Pending(p, n)'
      PROVE  Len(n) > level[p]
  BY <1>3, <1>4, <1>7, NodeFacts DEF Pending
<1> QED BY <1>3, <1>6, <1>7
        DEF Snapshot, Untouched, Updates!Outcomes, Updates!Contributors

\* So does the call that has had its last step.
LEMMA LastSnapshot ==
  ASSUME TypeOK, NEW p \in Calls, Snapshot(p), pc[p] = "consume",
         NEW v \in ConsumerValues(p, level[p], local[p][PathNode(p, level[p])]),
         local' = [local EXCEPT ![p] = Enriched(@, PathNode(p, level[p]), v)],
         pc' = [pc EXCEPT ![p] = "set"],
         UNCHANGED <<level, storage>>
  PROVE  Snapshot(p)'
<1> DEFINE t == Enriched(local[p], PathNode(p, level[p]), v)
<1>1. /\ t \in [Nodes -> Cells]
      /\ \A n \in Nodes : KeyOf(n) = ChainedKey(p) =>
           /\ n \notin PathNodes(p) => t[n] = storage[n]
           /\ t[n] \in Updates!Outcomes(p, n, storage[n])
           /\ Len(n) > level[p] => t[n] \in Untouched(storage[n])
  BY EnrichSnapshot
<1>2. local'[p] = t /\ pc'[p] = "set"
  BY DEF TypeOK
<1>3. ChainedKey(p)' = ChainedKey(p)
  BY DEF ChainedKey
<1> HIDE DEF t
<1> QED BY <1>1, <1>2, <1>3
        DEF Snapshot, Pending, Untouched, Updates!Outcomes, Updates!Contributors

\* A step of p that keeps p's snapshot, or leaves the section, keeps them all.
LEMMA SnapshotFrame ==
  ASSUME NEW S \in SUBSET GuardedKeys, CoreInv(S), NEW p \in Calls,
         \A q \in Calls \ {p} : pc'[q] = pc[q] /\ level'[q] = level[q] /\ local'[q] = local[q],
         storage' = storage \/ (pc[p] = "set" /\ StoreKey(p)),
         /\ pc'[p] \in {"consume", "set"}
         /\ Locks(p, KeyLevel(level'[p]))
         /\ ChainedKey(p)' \in S
         => Snapshot(p)'
  PROVE  SnapshotInv(S)'
<1> SUFFICES ASSUME NEW q \in Calls, pc'[q] \in {"consume", "set"},
                    Locks(q, KeyLevel(level'[q])), ChainedKey(q)' \in S
             PROVE  Snapshot(q)'
  BY DEF SnapshotInv, Locks, MinLevel, KeyLevel
<1>1. CASE q = p
  BY <1>1
<1>2. CASE q # p
  <2>1. ChainedKey(q)' = ChainedKey(q)
    BY <1>2 DEF ChainedKey
  <2> QED BY <1>2, <2>1, OtherSnapshots
<1> QED BY <1>1, <1>2

\* Every step keeps the copies of the calls in guarded sections up to date.
LEMMA SnapshotStep ==
  ASSUME NEW S \in SUBSET GuardedKeys, CoreInv(S), [Next]_vars
  PROVE  SnapshotInv(S)'
<1> USE DEF TypeOK
<1>0. TypeOK
  BY DEF CoreInv
<1>1. ASSUME NEW p \in Calls,
             RegisterChild(p) \/ Acquire(p) \/ SkipAcquire(p)
             \/ RegisterFails(p) \/ AcquireFails(p)
      PROVE  SnapshotInv(S)'
  <2>1. /\ pc'[p] \notin {"consume", "set"} /\ storage' = storage
        /\ level' = level /\ local' = local
        /\ \A q \in Calls \ {p} : pc'[q] = pc[q]
    BY <1>0, <1>1 DEF RegisterChild, Acquire, SkipAcquire, RegisterFails, AcquireFails
  <2> QED BY <2>1, SnapshotFrame
<1>2. ASSUME NEW p \in Calls, Leave(p) \/ Abort(p),
             storage' = storage \/ (pc[p] = "set" /\ StoreKey(p))
      PROVE  SnapshotInv(S)'
  <2>1. /\ pc'[p] \notin {"consume", "set"}
        /\ \A q \in Calls \ {p} : pc'[q] = pc[q] /\ level'[q] = level[q] /\ local'[q] = local[q]
    BY <1>0, <1>2 DEF Leave, Abort, Enter
  <2> QED BY <1>2, <2>1, SnapshotFrame
<1>3. ASSUME NEW p \in Calls, Get(p) PROVE SnapshotInv(S)'
  <2>1. /\ storage' = storage
        /\ \A q \in Calls \ {p} : pc'[q] = pc[q] /\ level'[q] = level[q] /\ local'[q] = local[q]
    BY <1>0, <1>3 DEF Get
  <2>2. Snapshot(p)'
    BY <1>0, <1>3, GetSnapshot
  <2> QED BY <2>1, <2>2, SnapshotFrame
<1>4. ASSUME NEW p \in Calls, ConsumeInner(p) PROVE SnapshotInv(S)'
  <2>1. /\ storage' = storage /\ pc' = pc /\ pc[p] = "consume"
        /\ \A q \in Calls \ {p} : level'[q] = level[q] /\ local'[q] = local[q]
    BY <1>0, <1>4 DEF ConsumeInner
  <2>2. ChainedKey(p)' = ChainedKey(p) /\ KeyLevel(level'[p]) = KeyLevel(level[p])
    BY <1>0, <1>4, TreePhaseKey
  <2>3. Locks(p, KeyLevel(level[p])) /\ ChainedKey(p) \in S => Snapshot(p)'
    BY <1>0, <1>4, <2>1, InnerSnapshot DEF CoreInv, SnapshotInv
  <2> QED BY <2>1, <2>2, <2>3, SnapshotFrame
<1>5. ASSUME NEW p \in Calls, ConsumeLast(p) PROVE SnapshotInv(S)'
  <2> DEFINE n == PathNode(p, level[p])
  <2>1. storage' = storage /\ pc[p] = "consume"
    BY <1>5 DEF ConsumeLast
  <2>2. PICK v \in ConsumerValues(p, level[p], local[p][n]) :
          \/ /\ local' = [local EXCEPT ![p] = Enriched(@, n, v)]
             /\ pc' = [pc EXCEPT ![p] = "set"]
             /\ UNCHANGED level
          \/ Leave(p)
    BY <1>5 DEF ConsumeLast
  <2>3. CASE Leave(p)
    BY <1>2, <2>1, <2>3
  <2>4. CASE /\ local' = [local EXCEPT ![p] = Enriched(@, n, v)]
             /\ pc' = [pc EXCEPT ![p] = "set"]
             /\ UNCHANGED level
    <3>1. Locks(p, KeyLevel(level[p])) /\ ChainedKey(p) \in S => Snapshot(p)'
      BY <1>0, <2>1, <2>2, <2>4, LastSnapshot DEF CoreInv, SnapshotInv
    <3>2. ChainedKey(p)' = ChainedKey(p)
      BY <2>4 DEF ChainedKey
    <3>3. \A q \in Calls \ {p} : pc'[q] = pc[q] /\ level'[q] = level[q] /\ local'[q] = local[q]
      BY <1>0, <2>4
    <3> QED BY <2>1, <2>4, <3>1, <3>2, <3>3, SnapshotFrame
  <2> QED BY <2>2, <2>3, <2>4
<1>6. ASSUME NEW p \in Calls, Persist(p) \/ GetFails(p) \/ Close(p) \/ PersistFails(p)
      PROVE  SnapshotInv(S)'
  <2>1. /\ Leave(p) \/ Abort(p)
        /\ storage' = storage \/ (pc[p] = "set" /\ StoreKey(p))
    BY <1>6 DEF Persist, GetFails, Close, PersistFails
  <2> QED BY <1>2, <2>1
<1>7. ASSUME NEW p \in Calls, UNCHANGED <<storage, pc, level, local>> PROVE SnapshotInv(S)'
  BY <1>7, SnapshotFrame DEF CoreInv, SnapshotInv, Snapshot, Pending, Untouched, ChainedKey,
     Updates!Outcomes, Updates!Contributors
<1>8. ASSUME NEW p \in Calls, NEW k \in Keys, Release(p, k) PROVE SnapshotInv(S)'
  BY <1>7, <1>8 DEF Release, callVars
<1>9. CASE UNCHANGED vars
  <2>1. CASE Calls = {}
    BY <2>1 DEF SnapshotInv
  <2>2. CASE Calls # {}
    BY <1>7, <1>9, <2>2 DEF vars
  <2> QED BY <2>1, <2>2
<1> QED BY <1>1, <1>3, <1>4, <1>5, <1>6, <1>8, <1>9 DEF Next, Step, Fail, Terminated

-----------------------------------------------------------------------------
(* Lost updates *)

\* Only a call that persists changes what is stored.
LEMMA StorageSteps ==
  ASSUME [Next]_vars
  PROVE  \/ storage' = storage /\ written' = written
         \/ \E p \in Calls : pc[p] = "set" /\ StoreKey(p)
BY DEF Next, Step, Fail, Terminated, vars, RegisterChild, Acquire, SkipAcquire, Get,
       ConsumeInner, ConsumeLast, Persist, Release, RegisterFails, AcquireFails, GetFails,
       Close, PersistFails

\* Storing a snapshot loses nothing but what a setNode replaces.
LEMMA StoreKeeps ==
  ASSUME NEW S \in SUBSET GuardedKeys, CoreInv(S), NEW p \in Calls, pc[p] = "set", StoreKey(p),
         NEW n \in Nodes, KeyOf(n) \in S, NEW q, q \in Contributors(storage[n])
  PROVE  q \in Contributors(storage'[n]) \/ Overwritten(n)'
<1>1. TypeOK
  BY DEF CoreInv
<1>2. CASE KeyOf(n) # ChainedKey(p)
  <2>1. storage'[n] = storage[n]
    BY <1>2 DEF StoreKey
  <2> QED BY <2>1
<1>3. CASE KeyOf(n) = ChainedKey(p)
  <2>1. storage'[n] = local[p][n]
    BY <1>3 DEF StoreKey
  <2>2. Locks(p, KeyLevel(level[p]))
    BY <1>1, <1>3, WriterLocks DEF CoreInv, GuardedKeys
  <2>3. Snapshot(p)
    BY <1>3, <2>2 DEF CoreInv, SnapshotInv
  <2>4. local[p][n] \in Updates!Outcomes(p, n, storage[n])
    BY <1>3, <2>3 DEF Snapshot
  <2>5. \/ Contributors(storage[n]) \subseteq Contributors(local[p][n])
        \/ IsTarget(p, n) /\ local[p][n] = {p}
    BY <1>1, <2>4, SentinelAssumption, WriterAssumption
       DEF Updates!Outcomes, Updates!Contributors, Updates!IsTarget, IsTarget,
           Contributors, TypeOK, Cells, Values
  <2>6. CASE IsTarget(p, n) /\ local[p][n] = {p}
    <3>1. p \in Contributors(local[p][n])
      BY <2>6, SentinelAssumption, WriterAssumption DEF Contributors
    <3>2. n \in written'[p]
      BY <1>1, <1>3, <3>1 DEF StoreKey, TypeOK
    <3> QED BY <2>6, <3>2 DEF Overwritten, IsTarget
  <2>7. CASE Contributors(storage[n]) \subseteq Contributors(local[p][n])
    BY <2>1, <2>7
  <2> QED BY <2>5, <2>6, <2>7
<1> QED BY <1>2, <1>3

\* What a call adds to its record of what it has stored is in the storage.
LEMMA StoreRecords ==
  ASSUME TypeOK, NEW p \in Calls, StoreKey(p)
  PROVE  /\ \A q \in Calls : written[q] \subseteq written'[q]
         /\ \A q \in Calls : \A n \in written'[q] \ written[q] :
              q = p /\ n \in Nodes /\ KeyOf(n) = ChainedKey(p)
              /\ p \in Contributors(local[p][n]) /\ storage'[n] = local[p][n]
         /\ \A n : Overwritten(n) => Overwritten(n)'
<1>1. \A q \in Calls : written[q] \subseteq written'[q]
  BY DEF StoreKey, TypeOK
<1>2. ASSUME NEW q \in Calls, NEW n \in written'[q] \ written[q]
      PROVE  q = p /\ n \in Nodes /\ KeyOf(n) = ChainedKey(p)
             /\ p \in Contributors(local[p][n]) /\ storage'[n] = local[p][n]
  <2>1. q = p
    BY <1>2 DEF StoreKey, TypeOK
  <2>2. n \in Nodes /\ KeyOf(n) = ChainedKey(p) /\ p \in Contributors(local[p][n])
    BY <1>2, <2>1 DEF StoreKey, TypeOK
  <2> QED BY <2>1, <2>2 DEF StoreKey
<1> QED BY <1>1, <1>2 DEF Overwritten

\* A write under a guarded key keeps the contributions of the others.
LEMMA StoreKeepsUpdates ==
  ASSUME IInv, NEW p \in Calls, pc[p] = "set", StoreKey(p)
  PROVE  NoLostUpdate'
<1> SUFFICES ASSUME NEW q \in Calls, NEW n \in written'[q], Guarded(KeyOf(n))
             PROVE  q \in Contributors(storage'[n]) \/ Overwritten(n)'
  BY DEF NoLostUpdate, Guarded, MayWrite, Locks, MinLevel, Contributors
<1>1. TypeOK /\ NoLostUpdate /\ CoreInv(GuardedKeys)
  BY DEF IInv, CoreInv
<1>2. n \in Nodes /\ KeyOf(n) \in GuardedKeys
  BY <1>1, StoreKeyType DEF Keys, GuardedKeys
<1>3. CASE n \in written[q]
  <2>1. q \in Contributors(storage[n]) \/ Overwritten(n)
    BY <1>1, <1>3 DEF NoLostUpdate
  <2> QED BY <1>1, <1>2, <2>1, StoreKeeps, StoreRecords
<1>4. CASE n \notin written[q]
  BY <1>1, <1>4, StoreRecords
<1> QED BY <1>3, <1>4

\* No step loses a contribution under a guarded key.
LEMMA NoLostUpdateStep ==
  ASSUME IInv, [Next]_vars
  PROVE  NoLostUpdate'
<1>1. CASE storage' = storage /\ written' = written
  BY <1>1 DEF IInv, NoLostUpdate, Overwritten, Guarded, MayWrite, Locks, MinLevel, Contributors
<1>2. CASE \E p \in Calls : pc[p] = "set" /\ StoreKey(p)
  BY <1>2, StoreKeepsUpdates
<1>3. \/ storage' = storage /\ written' = written
      \/ \E p \in Calls : pc[p] = "set" /\ StoreKey(p)
  BY StorageSteps
<1> QED BY <1>1, <1>2, <1>3

\* Every step keeps the inductive invariant.
LEMMA Inductive ==
  ASSUME IInv, [Next]_vars
  PROVE  IInv'
BY TypeStep, LockStep, WriteStep, SnapshotStep, NoLostUpdateStep DEF IInv, CoreInv

\* The initial state is in the inductive invariant.
LEMMA InductiveInit == Init => IInv
<1> SUFFICES ASSUME Init PROVE IInv
  OBVIOUS
<1>1. \A p \in Calls : pc[p] \in {"register", "acquire", "done"} /\ changed[p] = FALSE
                       /\ written[p] = {}
  BY DEF Init, Enter
<1> QED BY <1>1, TypeInit, LockInit DEF IInv, CoreInv, WriteInv, SnapshotInv, NoLostUpdate

\* In every reachable state each contribution stored under a key all of whose
\* writers lock it is still there, or a setNode has replaced it.
THEOREM NoLostUpdateHolds == Spec => []NoLostUpdate
<1>1. Spec => []IInv
  BY InductiveInit, Inductive, PTL DEF Spec
<1> QED BY <1>1, PTL DEF IInv

-----------------------------------------------------------------------------
(* Refinement *)

\* The abstract specification speaks of the same nodes and keys.
LEMMA SameStructure ==
  /\ Updates!Nodes = Nodes
  /\ Updates!Keys = Keys
  /\ Updates!Cells = Cells
  /\ \A p \in Calls : Updates!PathNodes(p) = PathNodes(p)
  /\ \A n : Updates!KeyOf(n) = KeyOf(n)
<1>1. \A p \in Calls : Updates!PathNodes(p) = PathNodes(p)
  BY DEF Updates!PathNodes, PathNodes, Updates!PathNode, PathNode, Updates!Length, Length
<1>2. \A n : Updates!KeyOf(n) = KeyOf(n)
  BY DEF Updates!KeyOf, KeyOf, Updates!KeyLevel, KeyLevel
<1>3. Updates!Nodes = Nodes
  BY <1>1 DEF Updates!Nodes, Nodes
<1>4. Updates!Keys = Keys
  BY <1>2, <1>3 DEF Updates!Keys, Keys
<1>5. Updates!Cells = Cells
  BY DEF Updates!Cells, Cells, Updates!Values, Values
<1> QED BY <1>1, <1>2, <1>3, <1>4, <1>5

\* A call that persists performs one atomic update.
LEMMA StoreIsUpdate ==
  ASSUME IInv, NEW p \in Calls, pc[p] = "set", StoreKey(p), Guarded(ChainedKey(p))
  PROVE  Updates!Next
<1>1. TypeOK /\ ChainedKey(p) \in Keys
  BY CallFacts DEF IInv, CoreInv
<1>2. Snapshot(p)
  <2>1. Locks(p, KeyLevel(level[p]))
    BY WriterLocks DEF IInv, CoreInv
  <2> QED BY <1>1, <2>1 DEF IInv, CoreInv, SnapshotInv, GuardedKeys
<1>3. storage' \in [Nodes -> Cells]
  BY <1>1, StoreKeyType
<1>4. ASSUME NEW n \in Nodes
      PROVE  IF n \in PathNodes(p) /\ KeyOf(n) = ChainedKey(p)
             THEN storage'[n] \in Updates!Outcomes(p, n, storage[n])
             ELSE storage'[n] = storage[n]
  <2>1. CASE KeyOf(n) = ChainedKey(p)
    <3>1. storage'[n] = local[p][n]
      BY <2>1 DEF StoreKey
    <3> QED BY <1>2, <2>1, <3>1 DEF Snapshot
  <2>2. CASE KeyOf(n) # ChainedKey(p)
    BY <2>2 DEF StoreKey
  <2> QED BY <2>1, <2>2
<1>5. Updates!Update(p, ChainedKey(p))
  BY <1>3, <1>4, SameStructure DEF Updates!Update
<1> QED BY <1>1, <1>5, SameStructure DEF Updates!Next

\* When every key is guarded, the writers implement the atomic updates of
\* TreeUpdates: the interleaved reads, edits and writes of one key by many calls
\* have the effect of whole read-modify-writes, one after the other.
THEOREM Refinement ==
  ASSUME \A k \in Keys : Guarded(k)
  PROVE  Spec => AtomicUpdates
<1>1. Init => Updates!Init
  BY SameStructure DEF Init, Blank, Updates!Init
<1>2. IInv /\ [Next]_vars => [Updates!Next]_storage
  <2> SUFFICES ASSUME IInv, [Next]_vars, storage' # storage
               PROVE  Updates!Next
    OBVIOUS
  <2>1. PICK p \in Calls : pc[p] = "set" /\ StoreKey(p)
    BY StorageSteps
  <2>2. Guarded(ChainedKey(p))
    BY CallFacts DEF IInv, CoreInv
  <2> QED BY <2>1, <2>2, StoreIsUpdate
<1>3. Spec => []IInv
  BY InductiveInit, Inductive, PTL DEF Spec
<1> QED BY <1>1, <1>2, <1>3, PTL DEF Spec, AtomicUpdates, Updates!Spec

-----------------------------------------------------------------------------
(* Children registry *)

\* A prefix of a node of a path is the path's node at that level.
LEMMA PrefixOfPathNode ==
  ASSUME NEW p \in Calls, NEW l \in 1 .. Length(p), NEW j \in 0 .. l
  PROVE  SubSeq(PathNode(p, l), 1, j) = PathNode(p, j)
<1>1. /\ l \in Nat /\ j \in Nat /\ Length(p) \in Nat
      /\ Len(PathNode(p, l)) = l /\ PathNode(p, l) \in Seq(KeyNames)
      /\ \A i \in 1 .. l : PathNode(p, l)[i] = Path[p][i]
  BY PathNodeFacts, LevelFacts
<1>2. CASE j = 0
  BY <1>2, SubSeqEmpty DEF PathNode
<1>3. CASE j # 0
  <2>1. j \in 1 .. Length(p) /\ j \in 1 .. l
    BY <1>1, <1>3
  <2>2. /\ PathNode(p, j) \in Seq(KeyNames) /\ Len(PathNode(p, j)) = j
        /\ \A i \in 1 .. j : PathNode(p, j)[i] = Path[p][i]
    BY <2>1, PathNodeFacts
  <2>3. /\ SubSeq(PathNode(p, l), 1, j) \in Seq(KeyNames)
        /\ Len(SubSeq(PathNode(p, l), 1, j)) = j
        /\ \A i \in 1 .. j : SubSeq(PathNode(p, l), 1, j)[i] = PathNode(p, l)[i]
    BY <1>1, <2>1, SubSeqProperties
  <2> QED BY <1>1, <2>1, <2>2, <2>3, SeqEqual
<1> QED BY <1>2, <1>3

\* A call has registered the key level nodes it has passed, and the one it is
\* at once it is beyond the registration.  W: pairs that were cleared since.
RegistryInv(W) ==
  \A p \in Calls : \A l \in Start[p] + 1 .. level[p] :
    /\ l < KeyLevelNodes
    /\ l < level[p] \/ pc[p] \notin {"register", "failed"}
    => <<PathNode(p, l - 1), PathNode(p, l)>> \in registry \cup W

\* The registry only grows, by the child the acting call is at.
LEMMA RegistryGrows ==
  ASSUME [Next]_vars
  PROVE  registry \subseteq registry'
BY DEF Next, Step, Fail, Terminated, vars, RegisterChild, Acquire, SkipAcquire, Get,
       ConsumeInner, ConsumeLast, Persist, Release, RegisterFails, AcquireFails, GetFails,
       Close, PersistFails

\* Every step keeps what a call has registered on its way down.
LEMMA RegistryStep ==
  ASSUME TypeOK, NEW W, RegistryInv(W), [Next]_vars
  PROVE  RegistryInv(W)'
<1> USE DEF TypeOK
<1> DEFINE R(q) == \A l \in Start[q] + 1 .. level[q] :
                     /\ l < KeyLevelNodes
                     /\ l < level[q] \/ pc[q] \notin {"register", "failed"}
                     => <<PathNode(q, l - 1), PathNode(q, l)>> \in registry \cup W
<1>0. ASSUME NEW p \in Calls,
             \A q \in Calls \ {p} : pc'[q] = pc[q] /\ level'[q] = level[q],
             R(p)'
      PROVE  RegistryInv(W)'
  <2> SUFFICES ASSUME NEW q \in Calls PROVE R(q)'
    BY DEF RegistryInv
  <2>1. CASE q = p
    BY <1>0, <2>1
  <2>2. CASE q # p
    BY <1>0, <2>2, RegistryGrows DEF RegistryInv, PathNode
  <2> QED BY <2>1, <2>2
<1>1. ASSUME NEW p \in Calls, RegisterChild(p) PROVE RegistryInv(W)'
  <2>1. /\ level' = level /\ \A q \in Calls \ {p} : pc'[q] = pc[q]
        /\ registry' = registry \cup {<<PathNode(p, level[p] - 1), PathNode(p, level[p])>>}
        /\ pc[p] = "register"
    BY <1>1 DEF RegisterChild
  <2>2. R(p)'
    <3> SUFFICES ASSUME NEW l \in Start[p] + 1 .. level[p], l < KeyLevelNodes
                 PROVE  <<PathNode(p, l - 1), PathNode(p, l)>> \in registry' \cup W
      BY <2>1 DEF PathNode
    <3>1. CASE l = level[p]
      BY <2>1, <3>1
    <3>2. CASE l # level[p]
      <4>1. l < level[p]
        BY <3>2, CallFacts
      <4> QED BY <2>1, <4>1 DEF RegistryInv
    <3> QED BY <3>1, <3>2
  <2> QED BY <1>0, <2>1, <2>2
<1>2. ASSUME NEW p \in Calls, level' = level,
             pc[p] # "register" \/ pc'[p] = "failed",
             pc[p] # "failed",
             \A q \in Calls \ {p} : pc'[q] = pc[q]
      PROVE  RegistryInv(W)'
  <2>1. R(p)'
    BY <1>2, RegistryGrows DEF RegistryInv, PathNode
  <2> QED BY <1>0, <1>2, <2>1
<1>3. ASSUME NEW p \in Calls, level'[p] = level[p] + 1, InSection(p),
             pc'[p] = "register" \/ level[p] + 1 >= KeyLevelNodes,
             \A q \in Calls \ {p} : pc'[q] = pc[q] /\ level'[q] = level[q]
      PROVE  RegistryInv(W)'
  <2>1. level[p] \in Nat /\ Start[p] \in Nat
    BY CallFacts
  <2>2. R(p)'
    <3> SUFFICES ASSUME NEW l \in Start[p] + 1 .. level[p] + 1, l < KeyLevelNodes,
                        l < level[p] + 1 \/ pc'[p] \notin {"register", "failed"}
                 PROVE  <<PathNode(p, l - 1), PathNode(p, l)>> \in registry' \cup W
      BY <1>3 DEF PathNode
    <3>1. l \in Start[p] + 1 .. level[p]
      BY <1>3, <2>1, KeyLevelNodesAssumption
    <3>2. pc[p] \notin {"register", "failed"}
      BY <1>3 DEF InSection
    <3> QED BY <3>1, <3>2, RegistryGrows DEF RegistryInv
  <2> QED BY <1>0, <1>3, <2>2
<1>4. ASSUME NEW p \in Calls, InSection(p), Leave(p) PROVE RegistryInv(W)'
  <2>1. \A q \in Calls \ {p} : pc'[q] = pc[q] /\ level'[q] = level[q]
    BY <1>4 DEF Leave
  <2>2. pc[p] \notin {"register", "failed"}
    BY <1>4 DEF InSection
  <2>3. CASE level[p] < KeyLevelNodes /\ level[p] < Length(p)
    <3>1. /\ level'[p] = level[p] + 1 /\ pc'[p] = Enter(p, level[p] + 1)
          /\ level[p] + 1 <= Length(p)
      BY <1>4, <2>3, CallFacts, LevelFacts DEF Leave
    <3>2. pc'[p] = "register" \/ level[p] + 1 >= KeyLevelNodes
      BY <3>1, CallFacts, LevelFacts, KeyLevelNodesAssumption DEF Enter
    <3> QED BY <1>3, <1>4, <2>1, <3>1, <3>2
  <2>4. CASE ~(level[p] < KeyLevelNodes /\ level[p] < Length(p))
    BY <1>2, <1>4, <2>1, <2>2, <2>4 DEF Leave
  <2> QED BY <2>3, <2>4
<1>5. ASSUME NEW p \in Calls, InSection(p), Abort(p) PROVE RegistryInv(W)'
  BY <1>2, <1>5 DEF Abort, InSection
<1>6. ASSUME NEW p \in Calls,
             Acquire(p) \/ SkipAcquire(p) \/ Get(p) \/ RegisterFails(p) \/ AcquireFails(p)
      PROVE  RegistryInv(W)'
  <2>1. /\ level' = level /\ pc[p] # "failed" /\ \A q \in Calls \ {p} : pc'[q] = pc[q]
        /\ pc[p] # "register" \/ pc'[p] = "failed"
    BY <1>6 DEF Acquire, SkipAcquire, Get, RegisterFails, AcquireFails
  <2> QED BY <1>2, <2>1
<1>7. ASSUME NEW p \in Calls, ConsumeInner(p) PROVE RegistryInv(W)'
  <2>1. pc' = pc /\ InSection(p) /\ level[p] >= KeyLevelNodes /\ level[p] \in Nat
    BY <1>7, CallFacts DEF ConsumeInner, InSection
  <2>2. level'[p] = level[p] + 1 /\ \A q \in Calls \ {p} : level'[q] = level[q]
    BY <1>7, TreePhaseKey
  <2> QED BY <1>3, <2>1, <2>2, KeyLevelNodesAssumption
<1>8. ASSUME NEW p \in Calls, ConsumeLast(p) PROVE RegistryInv(W)'
  <2>1. InSection(p) /\ pc[p] = "consume"
    BY <1>8 DEF ConsumeLast, InSection
  <2>2. \/ Leave(p)
        \/ pc' = [pc EXCEPT ![p] = "set"] /\ UNCHANGED level
    BY <1>8 DEF ConsumeLast
  <2> QED BY <1>2, <1>4, <2>1, <2>2
<1>9. ASSUME NEW p \in Calls, Persist(p) \/ GetFails(p) \/ Close(p) \/ PersistFails(p)
      PROVE  RegistryInv(W)'
  BY <1>4, <1>5, <1>9 DEF Persist, GetFails, Close, PersistFails, InSection
<1>10. ASSUME UNCHANGED <<pc, level>> PROVE RegistryInv(W)'
  BY <1>10, RegistryGrows DEF RegistryInv, PathNode
<1> QED BY <1>1, <1>6, <1>7, <1>8, <1>9, <1>10
        DEF Next, Step, Fail, Terminated, vars, Release, callVars

\* What a call stores was registered, and so were the nodes above it.
LEMMA StoredIsRegistered ==
  ASSUME TypeOK, NEW W, RegistryInv(W), NEW p \in Calls, pc[p] = "set",
         NEW n \in Nodes, Len(n) < KeyLevelNodes, KeyOf(n) = ChainedKey(p), NEW l \in 1 .. Len(n)
  PROVE  \/ <<SubSeq(n, 1, l - 1), SubSeq(n, 1, l)>> \in registry \cup W
         \/ n \in PathNodes(p) /\ l <= Start[p]
<1>1. PICK q \in Calls : Len(n) \in 1 .. Length(q) /\ n = PathNode(q, Len(n))
  BY NodeFacts
<1>2. KeyOf(n) = n
  <2>1. KeyLevel(Len(n)) = Len(n)
    BY DEF KeyLevel
  <2> QED BY <1>1, <2>1, KeyOfPathNode
<1>3. /\ Len(n) = KeyLevel(level[p]) /\ level[p] \in Nat /\ level[p] \in 1 .. Length(p)
      /\ Start[p] \in Nat
  BY <1>2, CallFacts
<1>4. Len(n) = level[p]
  BY <1>3, KeyLevelNodesAssumption DEF KeyLevel
<1>5. n = PathNode(p, level[p])
  BY <1>2, <1>3, <1>4 DEF ChainedKey
<1>6. CASE l <= Start[p]
  BY <1>3, <1>5, <1>6, PathNodeFacts
<1>7. CASE ~(l <= Start[p])
  <2>1. l \in Start[p] + 1 .. level[p] /\ l < KeyLevelNodes /\ l - 1 \in 0 .. level[p]
        /\ l \in 0 .. level[p]
    BY <1>3, <1>4, <1>7, KeyLevelNodesAssumption
  <2>2. <<PathNode(p, l - 1), PathNode(p, l)>> \in registry \cup W
    BY <2>1 DEF RegistryInv
  <2>3. SubSeq(n, 1, l) = PathNode(p, l) /\ SubSeq(n, 1, l - 1) = PathNode(p, l - 1)
    BY <1>3, <1>5, <2>1, PrefixOfPathNode
  <2> QED BY <2>2, <2>3
<1> QED BY <1>6, <1>7

\* At first nothing need be registered.
LEMMA RegistryInit ==
  ASSUME Init
  PROVE  RegistryInv({})
<1>1. ASSUME NEW p \in Calls, NEW l \in Start[p] + 1 .. level[p], l < KeyLevelNodes
      PROVE  ~(l < level[p] \/ pc[p] \notin {"register", "failed"})
  <2>1. /\ level[p] = Start[p] + 1 /\ Start[p] \in Nat /\ pc[p] = Enter(p, Start[p] + 1)
        /\ Start[p] < Length(p) /\ Length(p) \in Nat
    BY StartAssumption, PathAssumption, KeyLevelNodesAssumption DEF Init, Length
  <2>2. l = level[p]
    BY <2>1
  <2> QED BY <1>1, <2>1, <2>2, KeyLevelNodesAssumption DEF Enter
<1> QED BY <1>1 DEF RegistryInv

\* No step stores a key level node that is not registered.
LEMMA RegisteredStep ==
  ASSUME TypeOK, RegistryInv({}), RegisteredBeforeStored, [Next]_vars
  PROVE  RegisteredBeforeStored'
<1> SUFFICES ASSUME NEW n \in Nodes, Len(n) < KeyLevelNodes, storage'[n] # Absent,
                    NEW l \in 1 .. Len(n)
             PROVE  \/ <<SubSeq(n, 1, l - 1), SubSeq(n, 1, l)>> \in registry'
                    \/ \E q \in Calls : n \in PathNodes(q) /\ l <= Start[q]
  BY DEF RegisteredBeforeStored, PathNodes, PathNode, Length
<1>1. CASE storage[n] # Absent
  BY <1>1, RegistryGrows DEF RegisteredBeforeStored
<1>2. CASE storage[n] = Absent
  <2>1. PICK p \in Calls : pc[p] = "set" /\ StoreKey(p)
    BY <1>2, StorageSteps
  <2>2. KeyOf(n) = ChainedKey(p)
    BY <1>2, <2>1 DEF StoreKey
  <2>3. \/ <<SubSeq(n, 1, l - 1), SubSeq(n, 1, l)>> \in registry \cup {}
        \/ n \in PathNodes(p) /\ l <= Start[p]
    BY <2>1, <2>2, StoredIsRegistered
  <2> QED BY <2>3, RegistryGrows
<1> QED BY <1>1, <1>2

\* In every reachable state a stored key level node was registered, and so were
\* the nodes above it down from where its writers started.
THEOREM RegisteredBeforeStoredHolds == Spec => []RegisteredBeforeStored
<1>1. Init => RegistryInv({}) /\ RegisteredBeforeStored
  BY RegistryInit DEF Init, Blank, RegisteredBeforeStored
<1>2. TypeOK /\ RegistryInv({}) /\ RegisteredBeforeStored /\ [Next]_vars
      => TypeOK' /\ RegistryInv({})' /\ RegisteredBeforeStored'
  BY TypeStep, RegistryStep, RegisteredStep
<1> QED BY <1>1, <1>2, TypeInit, PTL DEF Spec

-----------------------------------------------------------------------------
(* Ancestors *)

\* Whoever a node or a copy of it carries the contribution of has stored it there.
CountedInv ==
  /\ \A p \in Calls : \A n \in Nodes : p \in Contributors(storage[n]) => n \in written[p]
  /\ \A p, q \in Calls : \A n \in Nodes :
       p # q /\ p \in Contributors(local[q][n]) => n \in written[p]

\* p has stored its contribution in its path down to level l.
StoredDownTo(p, l) == \A j \in Start[p] + 1 .. l : PathNode(p, j) \in written[p]

\* A consumer that edits every step leaves no gap: what a call has stored reaches
\* up to where it started, the key levels it has passed are stored, and so will
\* be, with the next write of its tree, the levels it has passed in it.
Edits(p) ==
  /\ \A l \in 1 .. Length(p) : PathNode(p, l) \in written[p] => StoredDownTo(p, l)
  /\ \A l \in Start[p] + 1 .. level[p] - 1 : l < KeyLevelNodes => PathNode(p, l) \in written[p]
  /\ pc[p] \in {"consume", "set"} =>
       \A l \in KeyLevel(level[p]) .. level[p] :
         l < level[p] \/ pc[p] = "set" => p \in Contributors(local[p][PathNode(p, l)])
  /\ pc[p] = "consume" /\ level[p] < KeyLevelNodes =>
       (p \in Contributors(local[p][PathNode(p, level[p])])
          => PathNode(p, level[p]) \in written[p])
  /\ pc[p] = "set" => level[p] < KeyLevelNodes \/ level[p] = Length(p)
  /\ pc[p] \in {"register", "acquire", "get"} => level[p] <= KeyLevelNodes

EditInv == \A p \in Calls : Kind[p] = "deep" => Edits(p)

\* What a step leaves carries the call's own contribution at most on top of what
\* was there.
LEMMA ConsumerContributors ==
  ASSUME NEW p \in Calls, NEW l, NEW c \in Cells, NEW v \in ConsumerValues(p, l, c)
  PROVE  Contributors(v) \subseteq Contributors(c) \cup {p}
<1>1. Contributors({}) = {} /\ Contributors(None) = {} /\ Contributors(Absent) = {}
  BY DEF Contributors
<1>2. Contributors(StepValue(p, c)) \subseteq Contributors(c)
  BY <1>1, CreatedAssumption DEF StepValue
<1>3. Contributors({p}) \subseteq {p}
  BY DEF Contributors
<1>4. Contributors(Contributors(StepValue(p, c)) \cup {p}) \subseteq Contributors(c) \cup {p}
  BY <1>2 DEF Contributors
<1> QED BY <1>2, <1>3, <1>4 DEF ConsumerValues

\* The consumer of a call adds no contribution but its own.
LEMMA EnrichedContributors ==
  ASSUME NEW p \in Calls, NEW l, NEW tree \in [Nodes -> Cells], NEW m \in Nodes,
         NEW v \in ConsumerValues(p, l, tree[m]), NEW n \in Nodes
  PROVE  Contributors(Enriched(tree, m, v)[n]) \subseteq Contributors(tree[n]) \cup {p}
<1>1. Contributors(v) \subseteq Contributors(tree[m]) \cup {p}
  BY ConsumerContributors
<1>2. Enriched(tree, m, v)[n] = IF n = m /\ Differs(tree[m], v) THEN v ELSE tree[n]
  BY DEF Enriched
<1> QED BY <1>1, <1>2

\* createChild adds no contribution.
LEMMA WithChildContributors ==
  ASSUME NEW tree \in [Nodes -> Cells], NEW c, NEW n \in Nodes
  PROVE  Contributors(WithChild(tree, c)[n]) = Contributors(tree[n])
BY DEF WithChild, Contributors

\* A copy carries what was in it or in the storage, and what its call has added.
LEMMA CopySources ==
  ASSUME TypeOK, [Next]_vars, NEW q \in Calls, NEW n \in Nodes
  PROVE  Contributors(local'[q][n])
           \subseteq Contributors(local[q][n]) \cup Contributors(storage[n]) \cup {q}
<1> DEFINE Goal(t) == Contributors(t[n])
                        \subseteq Contributors(local[q][n]) \cup Contributors(storage[n]) \cup {q}
<1>0. local \in [Calls -> [Nodes -> Cells]] /\ level \in [Calls -> Nat]
  BY DEF TypeOK
<1>1. Goal(local[q]) /\ Goal(Blank)
  BY DEF Blank, Contributors
<1>2. ASSUME NEW p \in Calls, Leave(p) \/ Abort(p) PROVE Goal(local'[q])
  BY <1>0, <1>1, <1>2 DEF Leave, Abort
<1>3. ASSUME NEW p \in Calls, Get(p) PROVE Goal(local'[q])
  <2>1. CASE q = p
    <3>1. local'[q][n] \in {Absent, None, storage[n]}
      BY <1>0, <1>3, <2>1 DEF Get
    <3> QED BY <3>1 DEF Contributors
  <2>2. CASE q # p
    BY <1>0, <1>1, <1>3, <2>2 DEF Get
  <2> QED BY <2>1, <2>2
<1>4. ASSUME NEW p \in Calls, ConsumeInner(p) PROVE Goal(local'[q])
  <2> DEFINE m == PathNode(p, level[p])
             child == PathNode(p, level[p] + 1)
  <2>1. PICK v \in ConsumerValues(p, level[p], local[p][m]) :
          local' = [local EXCEPT ![p] = WithChild(Enriched(@, m, v), child)]
    BY <1>4 DEF ConsumeInner
  <2>2. m \in Nodes /\ local[p] \in [Nodes -> Cells] /\ local[p][m] \in Cells
    BY <1>0, CallFacts
  <2>3. v \in Cells
    BY <2>1, <2>2, ConsumerType
  <2> DEFINE t == Enriched(local[p], m, v)
  <2>4. t \in [Nodes -> Cells] /\ Contributors(t[n]) \subseteq Contributors(local[p][n]) \cup {p}
    BY <2>1, <2>2, <2>3, EnrichedType, EnrichedContributors
  <2> HIDE DEF m, child, t
  <2>5. Contributors(WithChild(t, child)[n]) = Contributors(t[n])
    BY <2>4, WithChildContributors
  <2>6. local'[q] = IF q = p THEN WithChild(t, child) ELSE local[q]
    BY <1>0, <2>1 DEF t
  <2> QED BY <1>1, <2>4, <2>5, <2>6
<1>5. ASSUME NEW p \in Calls, ConsumeLast(p) PROVE Goal(local'[q])
  <2> DEFINE m == PathNode(p, level[p])
  <2>1. PICK v \in ConsumerValues(p, level[p], local[p][m]) :
          local' = [local EXCEPT ![p] = Enriched(@, m, v)] \/ Leave(p)
    BY <1>5 DEF ConsumeLast
  <2>2. m \in Nodes /\ local[p] \in [Nodes -> Cells]
    BY <1>0, CallFacts
  <2>3. Contributors(Enriched(local[p], m, v)[n]) \subseteq Contributors(local[p][n]) \cup {p}
    BY <2>1, <2>2, EnrichedContributors
  <2>4. CASE local' = [local EXCEPT ![p] = Enriched(@, m, v)]
    <3>1. local'[q] = IF q = p THEN Enriched(local[p], m, v) ELSE local[q]
      BY <1>0, <2>4
    <3> QED BY <1>1, <2>3, <3>1
  <2> QED BY <1>2, <2>1, <2>4
<1>6. CASE local' = local
  BY <1>1, <1>6
<1> QED BY <1>2, <1>3, <1>4, <1>5, <1>6
        DEF Next, Step, Fail, Terminated, vars, RegisterChild, Acquire, SkipAcquire, Persist,
            Release, callVars, RegisterFails, AcquireFails, GetFails, Close, PersistFails

\* A contribution of a call is found only in nodes that the call has stored.
LEMMA CountedStep ==
  ASSUME TypeOK, CountedInv, [Next]_vars
  PROVE  CountedInv'
<1>1. CASE storage' = storage /\ written' = written
  BY <1>1, CopySources DEF CountedInv, Contributors
<1>2. ASSUME NEW p \in Calls, StoreKey(p) PROVE CountedInv'
  <2>1. \A q \in Calls : written[q] \subseteq written'[q]
    BY <1>2, StoreRecords
  <2>2. ASSUME NEW q \in Calls, NEW n \in Nodes, q \in Contributors(storage'[n])
        PROVE  n \in written'[q]
    <3>1. CASE KeyOf(n) # ChainedKey(p)
      BY <1>2, <2>1, <2>2, <3>1 DEF StoreKey, CountedInv
    <3>2. CASE KeyOf(n) = ChainedKey(p) /\ q # p
      BY <1>2, <2>1, <2>2, <3>2 DEF StoreKey, CountedInv
    <3>3. CASE KeyOf(n) = ChainedKey(p) /\ q = p
      BY <1>2, <2>2, <3>3 DEF StoreKey, TypeOK
    <3> QED BY <3>1, <3>2, <3>3
  <2>3. ASSUME NEW q \in Calls, NEW r \in Calls, q # r, NEW n \in Nodes,
               q \in Contributors(local'[r][n])
        PROVE  n \in written'[q]
    <3>1. q \in Contributors(local[r][n]) \/ q \in Contributors(storage[n])
      BY <2>3, CopySources
    <3> QED BY <2>1, <2>3, <3>1 DEF CountedInv
  <2> QED BY <2>2, <2>3 DEF CountedInv, Contributors
<1> QED BY <1>1, <1>2, StorageSteps

\* A consumer that edits leaves its call's contribution in the step.
LEMMA EditContributes ==
  ASSUME Moves = {"edit"}, NEW p \in Calls, Kind[p] = "deep", NEW l,
         NEW tree \in [Nodes -> Cells], NEW m \in Nodes,
         NEW v \in ConsumerValues(p, l, tree[m])
  PROVE  /\ p \in Contributors(Enriched(tree, m, v)[m])
         /\ ~Differs(tree[m], v) => p \in Contributors(tree[m])
<1>1. v = Contributors(StepValue(p, tree[m])) \cup {p}
  BY DEF ConsumerValues
<1>2. StepValue(p, tree[m]) \in Cells /\ Contributors(StepValue(p, tree[m])) \in SUBSET Writers
  BY CreatedAssumption, SentinelAssumption DEF StepValue, Contributors, Cells, Values
<1>3. v \in SUBSET Writers /\ v \notin {None, Absent} /\ p \in Contributors(v)
  BY <1>1, <1>2, WriterAssumption, SentinelAssumption DEF Contributors
<1>4. ~Differs(tree[m], v) => v = tree[m]
  BY <1>3 DEF Differs
<1>5. Enriched(tree, m, v)[m] = IF Differs(tree[m], v) THEN v ELSE tree[m]
  BY DEF Enriched
<1> QED BY <1>3, <1>4, <1>5

\* A call that is about to store has, then, its whole path down to its level.
LEMMA StoreFillsPath ==
  ASSUME TypeOK, NEW p \in Calls, Edits(p), pc[p] = "set", StoreKey(p)
  PROVE  /\ PathNode(p, level[p]) \in written'[p]
         /\ \A l \in 1 .. Length(p) : PathNode(p, l) \in written'[p] => StoredDownTo(p, l)'
<1>1. /\ level[p] \in 1 .. Length(p) /\ level[p] \in Nat /\ Start[p] \in Nat /\ Length(p) \in Nat
      /\ level[p] \in Start[p] + 1 .. Length(p)
  BY CallFacts, LevelFacts DEF TypeOK
<1>2. written[p] \subseteq written'[p]
  BY StoreRecords
<1>3. ASSUME NEW j \in Start[p] + 1 .. level[p]
      PROVE  PathNode(p, j) \in written'[p]
  <2>1. j \in 1 .. Length(p) /\ j \in Nat
    BY <1>1
  <2>2. CASE j < KeyLevel(level[p])
    <3>1. j < KeyLevelNodes /\ j \in Start[p] + 1 .. level[p] - 1
      BY <1>1, <2>1, <2>2, KeyLevelNodesAssumption DEF KeyLevel
    <3> QED BY <1>2, <3>1 DEF Edits
  <2>3. CASE j >= KeyLevel(level[p])
    <3>1. j \in KeyLevel(level[p]) .. level[p] /\ KeyLevel(j) = KeyLevel(level[p])
      BY <1>1, <2>1, <2>3, KeyLevelNodesAssumption DEF KeyLevel
    <3>2. p \in Contributors(local[p][PathNode(p, j)])
      BY <3>1 DEF Edits
    <3>3. PathNode(p, j) \in Nodes /\ KeyOf(PathNode(p, j)) = ChainedKey(p)
      BY <2>1, <3>1, PathNodeFacts, KeyOfPathNode DEF ChainedKey
    <3> QED BY <3>2, <3>3 DEF StoreKey, TypeOK
  <2> QED BY <1>1, <2>1, <2>2, <2>3, KeyLevelNodesAssumption DEF KeyLevel
<1>4. ASSUME NEW l \in 1 .. Length(p), PathNode(p, l) \in written'[p]
      PROVE  StoredDownTo(p, l)'
  <2>1. CASE PathNode(p, l) \in written[p]
    BY <1>2, <2>1 DEF Edits, StoredDownTo, PathNode
  <2>2. CASE PathNode(p, l) \notin written[p]
    <3>1. KeyOf(PathNode(p, l)) = ChainedKey(p)
      BY <1>4, <2>2, StoreRecords
    <3>2. KeyLevel(l) = KeyLevel(level[p])
      <4>1. Len(KeyOf(PathNode(p, l))) = KeyLevel(l)
        BY KeyOfPathNode, LevelFacts, PathNodeFacts
      <4> QED BY <3>1, <4>1, CallFacts
    <3>3. l <= level[p]
      BY <1>1, <3>2, KeyLevelNodesAssumption DEF Edits, KeyLevel
    <3> QED BY <1>1, <1>3, <3>3 DEF StoredDownTo, PathNode
  <2> QED BY <2>1, <2>2
<1> QED BY <1>1, <1>3, <1>4

\* Leaving a section for the next level, or for good.
LEMMA LeaveEdits ==
  ASSUME TypeOK, NEW p \in Calls, InSection(p), Leave(p) \/ Abort(p),
         \A l \in Start[p] + 1 .. level[p] - 1 : l < KeyLevelNodes => PathNode(p, l) \in written'[p],
         Leave(p) /\ level[p] < KeyLevelNodes => PathNode(p, level[p]) \in written'[p],
         \A l \in 1 .. Length(p) : PathNode(p, l) \in written'[p] => StoredDownTo(p, l)'
  PROVE  Edits(p)'
<1>1. /\ level[p] \in 1 .. Length(p) /\ level[p] \in Nat /\ Start[p] \in Nat /\ Length(p) \in Nat
      /\ level[p] \in Start[p] + 1 .. Length(p)
  BY CallFacts, LevelFacts DEF TypeOK
<1>2. \/ level'[p] = level[p] /\ pc'[p] \in {"done", "failed"}
      \/ /\ level'[p] = level[p] + 1 /\ level[p] < KeyLevelNodes /\ Leave(p)
         /\ pc'[p] \in {"register", "acquire", "done"}
  BY DEF Leave, Abort, Enter, TypeOK
<1>3. ASSUME NEW l \in Start[p] + 1 .. level'[p] - 1, l < KeyLevelNodes
      PROVE  PathNode(p, l) \in written'[p]
  <2>1. l \in Start[p] + 1 .. level[p] - 1 \/ (l = level[p] /\ Leave(p))
    BY <1>1, <1>2
  <2> QED BY <1>3, <2>1
<1>4. pc'[p] \in {"register", "acquire", "get"} => level'[p] <= KeyLevelNodes
  BY <1>1, <1>2, KeyLevelNodesAssumption
<1> QED BY <1>2, <1>3, <1>4 DEF Edits, PathNode, Length

\* Every action keeps a call's edits without a gap.
LEMMA EditStep ==
  ASSUME Moves = {"edit"}, TypeOK, CountedInv, EditInv, [Next]_vars
  PROVE  EditInv'
<1>0. ASSUME NEW p \in Calls,
             \A q \in Calls \ {p} : /\ pc'[q] = pc[q] /\ level'[q] = level[q]
                                    /\ local'[q] = local[q] /\ written'[q] = written[q],
             Kind[p] = "deep" => Edits(p)'
      PROVE  EditInv'
  <2> SUFFICES ASSUME NEW q \in Calls, Kind[q] = "deep" PROVE Edits(q)'
    BY DEF EditInv
  <2>1. CASE q = p
    BY <1>0, <2>1
  <2>2. CASE q # p
    BY <1>0, <2>2 DEF EditInv, Edits, StoredDownTo, PathNode, Length, KeyLevel, Contributors
  <2> QED BY <2>1, <2>2
<1>1. ASSUME NEW p \in Calls,
             RegisterChild(p) \/ Acquire(p) \/ SkipAcquire(p) \/ RegisterFails(p) \/ AcquireFails(p)
      PROVE  EditInv'
  <2>1. /\ pc'[p] \in {"acquire", "get", "failed"} /\ level' = level /\ local' = local
        /\ written' = written /\ \A q \in Calls \ {p} : pc'[q] = pc[q]
        /\ pc[p] \in {"register", "acquire"}
    BY <1>1 DEF TypeOK, RegisterChild, Acquire, SkipAcquire, RegisterFails, AcquireFails
  <2>2. Kind[p] = "deep" => Edits(p)'
    BY <2>1 DEF EditInv, Edits, StoredDownTo, PathNode, Length
  <2> QED BY <1>0, <2>1, <2>2
<1>2. ASSUME NEW p \in Calls, Get(p) PROVE EditInv'
  <2>1. /\ pc'[p] = "consume" /\ level' = level /\ pc[p] = "get"
        /\ written' = written
        /\ \A q \in Calls \ {p} : pc'[q] = pc[q] /\ local'[q] = local[q]
        /\ \A n \in Nodes : local'[p][n] \in {Absent, None, storage[n]}
    BY <1>2 DEF TypeOK, Get
  <2>2. ASSUME Kind[p] = "deep" PROVE Edits(p)'
    <3>1. Edits(p)
      BY <2>2 DEF EditInv
    <3>2. level[p] \in Nat /\ level[p] <= KeyLevelNodes /\ KeyLevel(level[p]) = level[p]
      BY <2>1, <3>1, CallFacts, KeyLevelNodesAssumption DEF Edits, KeyLevel
    <3>3. p \in Contributors(local'[p][PathNode(p, level[p])])
            => PathNode(p, level[p]) \in written[p]
      BY <2>1, CallFacts DEF CountedInv, Contributors
    <3> QED BY <2>1, <3>1, <3>2, <3>3
            DEF Edits, StoredDownTo, PathNode, Length, KeyLevel, Contributors
  <2> QED BY <1>0, <2>1, <2>2
<1>3. ASSUME NEW p \in Calls, ConsumeInner(p) PROVE EditInv'
  <2> DEFINE m == PathNode(p, level[p])
             child == PathNode(p, level[p] + 1)
  <2>1. PICK v \in ConsumerValues(p, level[p], local[p][m]) :
          local' = [local EXCEPT ![p] = WithChild(Enriched(@, m, v), child)]
    BY <1>3 DEF ConsumeInner
  <2> DEFINE t == Enriched(local[p], m, v)
  <2>2. /\ level[p] \in 1 .. Length(p) /\ level[p] \in Nat /\ Start[p] \in Nat
        /\ m \in Nodes /\ Len(m) = level[p] /\ local[p] \in [Nodes -> Cells]
    BY CallFacts, PathNodeFacts DEF TypeOK
  <2>3. /\ pc' = pc /\ pc[p] = "consume" /\ written' = written
        /\ level'[p] = level[p] + 1 /\ level[p] >= KeyLevelNodes
        /\ \A q \in Calls \ {p} : level'[q] = level[q] /\ local'[q] = local[q]
    BY <1>3, <2>2 DEF ConsumeInner, TypeOK
  <2>4. v \in Cells /\ t \in [Nodes -> Cells]
    BY <2>1, <2>2, ConsumerType, EnrichedType
  <2>5. \A n \in Nodes : Contributors(local'[p][n]) = Contributors(t[n])
    <3>1. local'[p] = WithChild(t, child)
      BY <2>1 DEF TypeOK
    <3> HIDE DEF t, child, m
    <3> QED BY <2>4, <3>1, WithChildContributors
  <2>6. ASSUME Kind[p] = "deep" PROVE Edits(p)'
    <3>1. Edits(p)
      BY <2>6 DEF EditInv
    <3>2. ASSUME NEW l \in KeyLevelNodes .. level[p]
          PROVE  p \in Contributors(local'[p][PathNode(p, l)])
      <4>1. l \in 1 .. Length(p) /\ l \in Nat
        BY <2>2, KeyLevelNodesAssumption, LevelFacts
      <4>2. PathNode(p, l) \in Nodes /\ Len(PathNode(p, l)) = l
        BY <4>1, PathNodeFacts
      <4>3. CASE l = level[p]
        <5>1. p \in Contributors(t[m])
          BY <2>1, <2>2, <2>6, EditContributes
        <5> QED BY <2>5, <4>2, <4>3, <5>1
      <4>4. CASE l # level[p]
        <5>1. t[PathNode(p, l)] = local[p][PathNode(p, l)]
          BY <2>2, <4>2, <4>4 DEF Enriched
        <5>2. KeyLevel(level[p]) = KeyLevelNodes
          BY <2>2, <2>3, KeyLevelNodesAssumption DEF KeyLevel
        <5>3. p \in Contributors(local[p][PathNode(p, l)])
          BY <2>2, <2>3, <3>1, <4>1, <4>4, <5>2 DEF Edits
        <5> QED BY <2>5, <4>2, <5>1, <5>3
      <4> QED BY <4>3, <4>4
    <3>3. KeyLevel(level'[p]) = KeyLevelNodes /\ ~(level'[p] < KeyLevelNodes)
      BY <2>2, <2>3, KeyLevelNodesAssumption DEF KeyLevel
    <3>4. \A l \in KeyLevel(level'[p]) .. level'[p] :
            l < level'[p] => p \in Contributors(local'[p][PathNode(p, l)])
      BY <2>2, <2>3, <3>2, <3>3, KeyLevelNodesAssumption
    <3>5. \A l \in Start[p] + 1 .. level'[p] - 1 : l < KeyLevelNodes => PathNode(p, l) \in written[p]
      BY <2>2, <2>3, <3>1, KeyLevelNodesAssumption DEF Edits
    <3> QED BY <2>3, <3>1, <3>3, <3>4, <3>5
            DEF Edits, StoredDownTo, PathNode, Length, KeyLevel, Contributors
  <2> QED BY <1>0, <2>3, <2>6
<1>4. ASSUME NEW p \in Calls, ConsumeLast(p) PROVE EditInv'
  <2> DEFINE m == PathNode(p, level[p])
  <2>1. PICK v \in ConsumerValues(p, level[p], local[p][m]) :
          IF changed[p] \/ Differs(local[p][m], v)
          THEN /\ local' = [local EXCEPT ![p] = Enriched(@, m, v)]
               /\ pc' = [pc EXCEPT ![p] = "set"]
               /\ UNCHANGED level
          ELSE Leave(p)
    BY <1>4 DEF ConsumeLast
  <2>2. /\ level[p] \in 1 .. Length(p) /\ level[p] \in Nat /\ Start[p] \in Nat /\ Length(p) \in Nat
        /\ m \in Nodes /\ Len(m) = level[p] /\ local[p] \in [Nodes -> Cells]
    BY CallFacts, PathNodeFacts, LevelFacts DEF TypeOK
  <2>3. /\ pc[p] = "consume" /\ written' = written
        /\ level[p] < KeyLevelNodes \/ level[p] = Length(p)
    BY <1>4 DEF ConsumeLast
  <2>4. CASE changed[p] \/ Differs(local[p][m], v)
    <3>1. /\ local'[p] = Enriched(local[p], m, v) /\ pc'[p] = "set" /\ level' = level
          /\ \A q \in Calls \ {p} : pc'[q] = pc[q] /\ local'[q] = local[q]
      BY <2>1, <2>4 DEF TypeOK
    <3>2. ASSUME Kind[p] = "deep" PROVE Edits(p)'
      <4>1. Edits(p)
        BY <3>2 DEF EditInv
      <4>2. ASSUME NEW l \in KeyLevel(level[p]) .. level[p]
            PROVE  p \in Contributors(local'[p][PathNode(p, l)])
        <5>1. l \in 1 .. Length(p) /\ l \in Nat
          BY <2>2, KeyLevelNodesAssumption, LevelFacts
        <5>2. PathNode(p, l) \in Nodes /\ Len(PathNode(p, l)) = l
          BY <5>1, PathNodeFacts
        <5>3. CASE l = level[p]
          <6>1. p \in Contributors(Enriched(local[p], m, v)[m])
            BY <2>2, <3>2, EditContributes
          <6> QED BY <3>1, <5>3, <6>1
        <5>4. CASE l # level[p]
          <6>1. local'[p][PathNode(p, l)] = local[p][PathNode(p, l)]
            BY <2>2, <3>1, <5>2, <5>4 DEF Enriched
          <6>2. p \in Contributors(local[p][PathNode(p, l)])
            BY <2>2, <2>3, <4>1, <5>1, <5>4 DEF Edits
          <6> QED BY <6>1, <6>2
        <5> QED BY <5>3, <5>4
      <4> QED BY <2>3, <3>1, <4>1, <4>2
              DEF Edits, StoredDownTo, PathNode, Length, KeyLevel, Contributors
    <3> QED BY <1>0, <2>3, <3>1, <3>2
  <2>5. CASE ~(changed[p] \/ Differs(local[p][m], v))
    <3>1. Leave(p) /\ InSection(p)
      BY <2>1, <2>3, <2>5 DEF InSection
    <3>2. \A q \in Calls \ {p} : pc'[q] = pc[q] /\ level'[q] = level[q] /\ local'[q] = local[q]
      BY <3>1 DEF Leave, TypeOK
    <3>3. ASSUME Kind[p] = "deep" PROVE Edits(p)'
      <4>1. Edits(p)
        BY <3>3 DEF EditInv
      <4>2. p \in Contributors(local[p][m])
        BY <2>1, <2>2, <2>5, <3>3, EditContributes
      <4>3. level[p] < KeyLevelNodes => m \in written[p]
        BY <2>3, <4>1, <4>2 DEF Edits
      <4>4. /\ \A l \in Start[p] + 1 .. level[p] - 1 : l < KeyLevelNodes => PathNode(p, l) \in written'[p]
            /\ \A l \in 1 .. Length(p) : PathNode(p, l) \in written'[p] => StoredDownTo(p, l)'
        BY <2>3, <4>1 DEF Edits, StoredDownTo, PathNode
      <4> QED BY <2>3, <3>1, <4>3, <4>4, LeaveEdits
    <3> QED BY <1>0, <2>3, <3>2, <3>3
  <2> QED BY <2>4, <2>5
<1>5. ASSUME NEW p \in Calls, InSection(p), Leave(p) => pc[p] = "set" /\ StoreKey(p),
             Leave(p) \/ Abort(p),
             written' = written \/ (pc[p] = "set" /\ StoreKey(p))
      PROVE  EditInv'
  <2>1. \A q \in Calls \ {p} : /\ pc'[q] = pc[q] /\ level'[q] = level[q]
                               /\ local'[q] = local[q] /\ written'[q] = written[q]
    BY <1>5 DEF Leave, Abort, TypeOK, StoreKey
  <2>2. ASSUME Kind[p] = "deep" PROVE Edits(p)'
    <3>1. Edits(p)
      BY <2>2 DEF EditInv
    <3>2. written[p] \subseteq written'[p]
      BY <1>5, StoreRecords
    <3>3. \A l \in Start[p] + 1 .. level[p] - 1 : l < KeyLevelNodes => PathNode(p, l) \in written'[p]
      BY <3>1, <3>2 DEF Edits
    <3>4. \A l \in 1 .. Length(p) : PathNode(p, l) \in written'[p] => StoredDownTo(p, l)'
      <4>1. CASE written' = written
        BY <3>1, <4>1 DEF Edits, StoredDownTo, PathNode
      <4>2. CASE pc[p] = "set" /\ StoreKey(p)
        BY <3>1, <4>2, StoreFillsPath
      <4> QED BY <1>5, <4>1, <4>2
    <3>5. Leave(p) => PathNode(p, level[p]) \in written'[p]
      BY <1>5, <3>1, StoreFillsPath
    <3> QED BY <1>5, <3>3, <3>4, <3>5, LeaveEdits
  <2> QED BY <1>0, <2>1, <2>2
<1>6. ASSUME NEW p \in Calls, Persist(p) PROVE EditInv'
  BY <1>5, <1>6 DEF Persist, InSection
<1>7. ASSUME NEW p \in Calls, GetFails(p) \/ Close(p) \/ PersistFails(p) PROVE EditInv'
  <2>1. /\ InSection(p) /\ Abort(p)
        /\ written' = written \/ (pc[p] = "set" /\ StoreKey(p))
    BY <1>7 DEF GetFails, Close, PersistFails, InSection
  <2>2. ~Leave(p)
    BY <2>1 DEF Leave, Abort, Enter, TypeOK
  <2> QED BY <1>5, <2>1, <2>2
<1>8. ASSUME UNCHANGED <<pc, level, local, written>> PROVE EditInv'
  BY <1>8 DEF EditInv, Edits, StoredDownTo, PathNode, Length, KeyLevel, Contributors
<1> QED BY <1>1, <1>2, <1>3, <1>4, <1>6, <1>7, <1>8
        DEF Next, Step, Fail, Terminated, vars, Release, callVars

\* In every reachable state, if consumers edit every step, a call counted in a
\* node is counted in the guarded nodes above it that it has visited.
THEOREM AncestorsCountedHolds == Spec => []AncestorsCounted
<1>1. CASE Moves # {"edit"}
  <2>1. AncestorsCounted
    BY <1>1 DEF AncestorsCounted
  <2> QED BY <2>1, PTL
<1>2. CASE Moves = {"edit"}
  <2>1. Init => CountedInv /\ EditInv
    <3> SUFFICES ASSUME Init PROVE CountedInv /\ EditInv
      OBVIOUS
    <3>1. CountedInv
      BY DEF Init, CountedInv, Blank, Contributors
    <3>2. ASSUME NEW p \in Calls PROVE Edits(p)
      <4>1. /\ level[p] = Start[p] + 1 /\ Start[p] \in 0 .. KeyLevelNodes - 1 /\ written[p] = {}
            /\ pc[p] \in {"register", "acquire", "done"}
        BY StartAssumption DEF Init, Enter
      <4> QED BY <4>1, KeyLevelNodesAssumption DEF Edits
    <3> QED BY <3>1, <3>2 DEF EditInv
  <2>2. IInv /\ CountedInv /\ EditInv /\ [Next]_vars => CountedInv' /\ EditInv'
    BY <1>2, CountedStep, EditStep DEF IInv, CoreInv
  <2>3. IInv /\ CountedInv /\ EditInv => AncestorsCounted
    <3> SUFFICES ASSUME IInv, CountedInv, EditInv, NEW p \in Calls, NEW l \in 1 .. Length(p),
                        Kind[p] = "deep", p \in Contributors(storage[PathNode(p, l)]),
                        NEW j \in Start[p] + 1 .. l, Guarded(KeyOf(PathNode(p, j)))
                 PROVE  p \in Contributors(storage[PathNode(p, j)]) \/ Overwritten(PathNode(p, j))
      BY DEF AncestorsCounted
    <3>1. PathNode(p, l) \in written[p]
      BY PathNodeFacts DEF CountedInv
    <3>2. PathNode(p, j) \in written[p]
      BY <3>1 DEF EditInv, Edits, StoredDownTo
    <3> QED BY <3>2 DEF IInv, NoLostUpdate
  <2>4. Spec => []IInv
    BY InductiveInit, Inductive, PTL DEF Spec
  <2> QED BY <2>1, <2>2, <2>3, <2>4, PTL DEF Spec
<1> QED BY <1>1, <1>2

-----------------------------------------------------------------------------
(* Other writers: what the invariants need of a step that no call takes. *)

\* The semaphores of the calls stay theirs.
LEMMA ForeignLocks ==
  ASSUME LockInv, UNCHANGED <<pc, level>>,
         \A q \in Calls, k \in Keys :
           /\ holder'[k] = q <=> holder[k] = q
           /\ <<q, k>> \in releasing' <=> <<q, k>> \in releasing
  PROVE  LockInv'
<1>1. ASSUME NEW q \in Calls
      PROVE  /\ InSection(q)' = InSection(q) /\ ChainedKey(q)' = ChainedKey(q)
             /\ KeyLevel(level'[q]) = KeyLevel(level[q])
  BY DEF InSection, ChainedKey
<1>2. LockOwnership'
  <2> SUFFICES ASSUME NEW q \in Calls, NEW k \in Keys
               PROVE  holder'[k] = q <=>
                        \/ InSection(q)' /\ ChainedKey(q)' = k /\ Locks(q, KeyLevel(level'[q]))
                        \/ <<q, k>> \in releasing'
    BY DEF LockOwnership, Locks, MinLevel, KeyLevel
  <2> QED BY <1>1 DEF LockInv, LockOwnership
<1>3. ReleaseInv'
  BY DEF LockInv, ReleaseInv, KeyLevel
<1> QED BY <1>2, <1>3 DEF LockInv

\* What is stored under the key of a locked section does not change.
LEMMA ForeignStore ==
  ASSUME NEW S, SnapshotInv(S), UNCHANGED <<pc, level, local>>,
         \A n \in Nodes : \A q \in Calls :
           /\ InSection(q) /\ Locks(q, KeyLevel(level[q]))
           /\ ChainedKey(q) \in S /\ KeyOf(n) = ChainedKey(q)
           => storage'[n] = storage[n]
  PROVE  SnapshotInv(S)'
<1> SUFFICES ASSUME NEW q \in Calls, pc[q] \in {"consume", "set"},
                    Locks(q, KeyLevel(level[q])), ChainedKey(q) \in S
             PROVE  Snapshot(q)'
  BY DEF SnapshotInv, Locks, MinLevel, KeyLevel, ChainedKey
<1>1. Snapshot(q)
  BY DEF SnapshotInv
<1>2. \A n \in Nodes : KeyOf(n) = ChainedKey(q) => storage'[n] = storage[n]
  BY DEF InSection
<1>3. ChainedKey(q)' = ChainedKey(q)
  BY DEF ChainedKey
<1> QED BY <1>1, <1>2, <1>3
        DEF Snapshot, Pending, Untouched, Updates!Outcomes, Updates!Contributors

\* Other writers do not bring a call to its write.
LEMMA ForeignWrites ==
  ASSUME WriteInv, UNCHANGED <<pc, level, changed>>
  PROVE  WriteInv'
BY DEF WriteInv, MayWrite, KeyLevel

\* The calls neither take a semaphore another writer holds nor give it one.
LEMMA ForeignHolder ==
  ASSUME TypeOK, LockInv, [Next]_vars, NEW w \in Writers \ Calls, NEW k \in Keys
  PROVE  holder'[k] = w <=> holder[k] = w
<1>1. ASSUME NEW p \in Calls, Acquire(p) PROVE holder'[k] = w <=> holder[k] = w
  <2>1. holder' = [holder EXCEPT ![ChainedKey(p)] = p] /\ holder[ChainedKey(p)] = Free
    BY <1>1 DEF Acquire
  <2> QED BY <2>1, ConsumerAssumption DEF TypeOK
<1>2. ASSUME NEW p \in Calls, NEW j \in Keys, Release(p, j) PROVE holder'[k] = w <=> holder[k] = w
  <2>1. holder' = [holder EXCEPT ![j] = Free] /\ holder[j] = p
    BY <1>2 DEF Release, LockInv, LockOwnership
  <2> QED BY <2>1, ConsumerAssumption DEF TypeOK
<1>3. CASE holder' = holder
  BY <1>3
<1> QED BY <1>1, <1>2, <1>3
        DEF Next, Step, Fail, Terminated, vars, RegisterChild, SkipAcquire, Get, ConsumeInner,
            ConsumeLast, Persist, RegisterFails, AcquireFails, GetFails, Close, PersistFails

\* The calls neither schedule nor run the releases of other writers.
LEMMA ForeignReleases ==
  ASSUME [Next]_vars, NEW w \in Writers \ Calls, NEW k \in Keys
  PROVE  <<w, k>> \in releasing' <=> <<w, k>> \in releasing
<1>1. ASSUME NEW p \in Calls, ScheduleRelease(p)
      PROVE  <<w, k>> \in releasing' <=> <<w, k>> \in releasing
  BY <1>1 DEF ScheduleRelease
<1>2. ASSUME NEW p \in Calls, NEW j \in Keys, Release(p, j)
      PROVE  <<w, k>> \in releasing' <=> <<w, k>> \in releasing
  BY <1>2 DEF Release
<1> QED BY <1>1, <1>2
        DEF Next, Step, Fail, Terminated, vars, RegisterChild, Acquire, SkipAcquire, Get,
            ConsumeInner, ConsumeLast, Persist, RegisterFails, AcquireFails, GetFails, Close,
            PersistFails, Leave, Abort

\* Another writer takes or gives back a semaphore of its own, schedules a release
\* of its own, or stores a key of S whose semaphore no call has.
LEMMA ForeignStep ==
  ASSUME NEW S, CoreInv(S), UNCHANGED <<callVars, written>>, TypeOK',
         \A q \in Calls, k \in Keys :
           /\ holder'[k] = q <=> holder[k] = q
           /\ <<q, k>> \in releasing' <=> <<q, k>> \in releasing,
         \A n \in Nodes : \A q \in Calls :
           /\ InSection(q) /\ Locks(q, KeyLevel(level[q]))
           /\ ChainedKey(q) \in S /\ KeyOf(n) = ChainedKey(q)
           => storage'[n] = storage[n]
  PROVE  CoreInv(S)'
<1>1. UNCHANGED <<pc, level, local, changed>>
  BY DEF callVars
<1> QED BY <1>1, ForeignLocks, ForeignWrites, ForeignStore DEF CoreInv

\* One step of the calls keeps the invariants of the writers.
LEMMA CoreStep ==
  ASSUME NEW S \in SUBSET GuardedKeys, CoreInv(S), [Next]_vars
  PROVE  CoreInv(S)'
BY TypeStep, LockStep, WriteStep, SnapshotStep DEF CoreInv

\* The part of the invariant that other writers share holds at first.
LEMMA CoreInit ==
  ASSUME NEW S \in SUBSET GuardedKeys
  PROVE  Init => CoreInv(S)
<1> SUFFICES ASSUME Init PROVE CoreInv(S)
  OBVIOUS
<1>1. \A p \in Calls : pc[p] \in {"register", "acquire", "done"} /\ changed[p] = FALSE
  BY DEF Init, Enter
<1> QED BY <1>1, TypeInit, LockInit DEF CoreInv, WriteInv, SnapshotInv

=============================================================================
