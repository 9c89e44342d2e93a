--------------------------- MODULE ExpirationProofs ---------------------------
(***************************************************************************)
(* Proofs about the ttl of a key and the deadlines of its nodes.           *)
(***************************************************************************)
EXTENDS Expiration, FiniteSetTheorems, TLAPS

InSection == {"get", "consume", "pruneTtl", "ttl", "set", "release", "leaked"}

\* Of the calls that take the semaphore one at a time is between acquire and
\* release; the others have none to release.
LockInv ==
  \A p \in Calls :
    /\ holder = p <=> Locks(p) /\ pc[p] \in InSection
    /\ pc[p] \in {"release", "leaked"} => Locks(p)

\* No clock was read in the future.
BeganInv == \A p \in Calls : began[p] <= now

\* d is over before the key expires, but for the rounding, or is over already.
Covered(d) == d <= expiry + slack \/ d <= now

\* No copy of the tree has a deadline beyond the expiration of the key, but for
\* what the ttl of the call itself is going to cover.
CopyInv ==
  ~permanent /\ ~raced => \A p \in Calls : \A n \in Nodes :
    copy[p][n] # Absent =>
      \/ Covered(copy[p][n].d)
      \/ pc[p] \in {"ttl", "set"} /\ copy[p][n].d <= now + Ms(ttl[p])

\* The ttl that persistTree has read reaches as far as the key still does, but
\* for the rounding, as long as nobody else has stored.
TtlInv ==
  \A p \in Calls : pc[p] = "set" /\ ttl[p] # 0 /\ outrun[p] = {} =>
    expiry <= now + Ms(current[p]) + Loss

\* A node in the copy of a call that nobody has overtaken has a value the call
\* gave it, none, or is what is stored.
SectionInv ==
  \A p \in Calls : \A n \in Nodes : overtaken[p] = {} =>
    \/ n \in put[p] \/ copy[p][n] = Absent \/ copy[p][n].v = None
    \/ copy[p][n] = store[n]

\* prune has a tree of its own before it enters the section, and it alone asks
\* for the ttl of the key twice; the others have no tree before they read it.
KindInv ==
  \A p \in Calls :
    /\ pc[p] \in {"get", "consume"} => Kind[p] # "prune"
    /\ pc[p] = "pruneTtl" => Kind[p] = "prune"
    /\ ~HasTree(p) => copy[p] = Empty /\ overtaken[p] = {}
    /\ pc[p] # "set" => outrun[p] = {}
    /\ pc[p] \notin {"ttl", "set"} => put[p] = {}

IInv ==
  /\ TypeOK /\ LockInv /\ BeganInv /\ KindInv
  /\ CopyInv /\ TtlInv /\ SectionInv /\ KeyOutlivesNodes /\ LockedNotOutrun

-----------------------------------------------------------------------------
(* The operators *)

Nodal == [v : Values \cup {None}, d : Nat]

\* A cell holds a node or is absent, not both.
LEMMA CellFacts == Cells = {Absent} \cup Nodal /\ Absent \notin Nodal
BY AbsentAssumption DEF Cells, Nodal

\* Of finitely many nodes one has the largest ttl: a smallest set without such a
\* node would have one once it is given back the node that was removed.
LEMMA LargestExists ==
  ASSUME NEW S \in SUBSET Nodes, S # {}, NEW f \in [Nodes -> Nat]
  PROVE  \E m \in S : \A n \in S : f[n] <= f[m]
<1> DEFINE Bad == {U \in SUBSET Nodes : U # {} /\ ~ \E m \in U : \A n \in U : f[n] <= f[m]}
<1> SUFFICES ASSUME Bad # {} PROVE FALSE
  OBVIOUS
<1>1. IsWellFoundedOn(StrictSubsetOrdering(Nodes), SUBSET Nodes)
  BY TreeAssumption, FS_StrictSubsetOrderingWellFounded, FS_FiniteSubsetsOfFinite
<1>2. PICK U \in Bad : \A V \in Bad : ~ (<<V, U>> \in StrictSubsetOrdering(Nodes))
  <2>1. Bad \subseteq SUBSET Nodes
    OBVIOUS
  <2> HIDE DEF Bad
  <2> QED BY <1>1, <2>1, WFMin
<1>3. PICK x \in U : TRUE
  OBVIOUS
<1> DEFINE V == U \ {x}
<1>4. V \notin Bad
  <2>1. V \in SUBSET Nodes /\ U \in SUBSET Nodes /\ V \subseteq U /\ V # U
    BY <1>3
  <2>2. <<V, U>> \in StrictSubsetOrdering(Nodes)
    BY <2>1 DEF StrictSubsetOrdering
  <2> QED BY <1>2, <2>2
<1>5. \A n \in U : f[n] \in Nat
  OBVIOUS
<1>6. CASE V = {}
  <2>1. \A n \in U : n = x
    BY <1>6
  <2>2. \A n \in U : f[n] <= f[x]
    BY <1>3, <1>5, <2>1
  <2> QED BY <1>3, <2>2
<1>7. CASE V # {}
  <2>1. PICK m \in V : \A n \in V : f[n] <= f[m]
    BY <1>4, <1>7
  <2>2. m \in U /\ \A n \in U : n = x \/ f[n] <= f[m]
    BY <2>1
  <2>3. CASE f[x] <= f[m]
    BY <2>2, <2>3
  <2>4. CASE ~ (f[x] <= f[m])
    <3>1. f[m] <= f[x]
      BY <1>3, <1>5, <2>2, <2>4
    <3>2. \A n \in U : f[n] <= f[x]
      BY <1>3, <1>5, <2>2, <3>1
    <3> QED BY <1>3, <3>2
  <2> QED BY <2>3, <2>4
<1> QED BY <1>6, <1>7

\* Whole seconds in the unit of the clock.
LEMMA MsFacts == \A a, b \in Nat : Ms(a) \in Nat /\ (a <= b => Ms(a) <= Ms(b))
<1> TAKE a, b \in Nat
<1>1. Scale \in Nat
  BY ValueAssumption
<1>2. Ms(a) \in Nat
  BY <1>1 DEF Ms
<1>3. ASSUME a <= b PROVE Ms(a) <= Ms(b)
  <2>1. b - a \in Nat /\ b = a + (b - a)
    BY <1>3
  <2>2. b * Scale = a * Scale + (b - a) * Scale
    BY <1>1, <2>1
  <2>3. (b - a) * Scale \in Nat /\ a * Scale \in Nat
    BY <1>1, <2>1
  <2> QED BY <2>2, <2>3 DEF Ms
<1> QED BY <1>2, <1>3

\* What getCurrentTtl answers reaches as far as the key does, but for the rounding.
LEMMA CurrentFacts ==
  ASSUME TypeOK, NEW s \in CurrentTtls
  PROVE  s \in Nat /\ expiry <= now + Ms(s) + Loss
<1>1. now \in Nat /\ expiry \in Nat /\ Loss \in Nat
  BY ValueAssumption DEF TypeOK
<1>2. CASE expiry = 0 \/ ~Alive
  <2>1. s = 0 /\ Ms(s) \in Nat /\ expiry <= now
    BY <1>1, <1>2, MsFacts DEF CurrentTtls, Alive
  <2> QED BY <1>1, <2>1
<1>3. CASE ~(expiry = 0 \/ ~Alive)
  <2>1. s \in 0 .. expiry /\ expiry - now - Loss <= Ms(s)
    BY <1>3 DEF CurrentTtls
  <2>2. s \in Nat /\ Ms(s) \in Nat
    BY <1>1, <2>1, MsFacts
  <2> QED BY <1>1, <2>1, <2>2
<1> QED BY <1>2, <1>3

\* The ttl that persistTree is given; for deepTreeSet it is that of the last step.
LEMMA MaxTtlFacts ==
  ASSUME NEW p \in Calls, NEW E
  PROVE  /\ MaxTtl(p, E) \in Nat
         /\ Kind[p] = "deep" => MaxTtl(p, E) = Ttl[p][Target[p]]
<1> DEFINE steps == IF Kind[p] = "deep" THEN {Target[p]}
                    ELSE {n \in Visits[p] : Differs(p, E, n)}
           best == CHOOSE m \in {Ttl[p][n] : n \in steps} : \A n \in steps : Ttl[p][n] <= m
<1>1. steps \in SUBSET Nodes /\ Ttl[p] \in [Nodes -> Nat]
  BY CallAssumption, ValueAssumption
<1>2. MaxTtl(p, E) = IF steps = {} THEN 0 ELSE best
  BY DEF MaxTtl
<1>3. ASSUME steps # {}
      PROVE  best \in {Ttl[p][n] : n \in steps} /\ best \in Nat
  <2>1. \E m \in steps : \A n \in steps : Ttl[p][n] <= Ttl[p][m]
    <3> HIDE DEF steps
    <3> QED BY <1>1, <1>3, LargestExists
  <2>2. \E m \in {Ttl[p][n] : n \in steps} : \A n \in steps : Ttl[p][n] <= m
    <3> HIDE DEF steps
    <3> QED BY <2>1
  <2>3. best \in {Ttl[p][n] : n \in steps}
    <3> HIDE DEF steps
    <3> QED BY <2>2
  <2> HIDE DEF steps, best
  <2> QED BY <1>1, <2>3
<1>4. CASE Kind[p] = "deep"
  <2>1. steps = {Target[p]}
    BY <1>4
  <2> HIDE DEF steps, best
  <2> QED BY <1>2, <1>3, <2>1
<1>5. CASE Kind[p] # "deep"
  <2> HIDE DEF steps, best
  <2> QED BY <1>2, <1>3, <1>5
<1> QED BY <1>4, <1>5

\* A child that is created has no deadline, and a value only if the call gave it.
LEMMA FoundFacts ==
  ASSUME TypeOK, NEW p \in Calls, NEW n \in Nodes
  PROVE  /\ Found(p, n) \in Nodal
         /\ copy[p][n] # Absent => Found(p, n) = copy[p][n]
         /\ copy[p][n] = Absent => Found(p, n).d = 0
         /\ \A E : copy[p][n] = Absent /\ ~Puts(p, E, n) => Found(p, n).v = None
<1>1. copy[p][n] \in {Absent} \cup Nodal /\ Created[p] \in Values \cup {None}
  BY CellFacts, ValueAssumption DEF TypeOK
<1> QED BY <1>1 DEF Found, Cell, Nodal, Puts

\* enrichTree and checkFullSetItemChange leave a node they do not change as they
\* found it, and give a deadline of their own to the last step at most.
LEMMA EnrichedFacts ==
  ASSUME TypeOK, NEW p \in Calls, NEW n \in Nodes, NEW E
  PROVE  /\ Enriched(p, E, n) \in Nodal
         /\ ~Differs(p, E, n) => Enriched(p, E, n) = Found(p, n)
         /\ \/ Enriched(p, E, n).d \in {0, Found(p, n).d}
            \/ /\ Kind[p] # "full" /\ n = Target[p]
               /\ Enriched(p, E, n).d = began[p] + Ms(Ttl[p][n])
<1>1. Found(p, n) \in Nodal
  BY FoundFacts
<1>2. copy[p][n] \in {Absent} \cup Nodal
  BY CellFacts DEF TypeOK
<1>3. Left(p, E, n) \in Values \cup {None}
  BY <1>2, ValueAssumption DEF Left, Current, Nodal
<1>4. began[p] + Ms(Ttl[p][n]) \in Nat
  BY ValueAssumption, MsFacts DEF TypeOK
<1> QED BY <1>1, <1>3, <1>4 DEF Enriched, Cell, Nodal

\* What storage.get gives is a tree.
LEMMA StoredType == TypeOK => Stored \in [Nodes -> Cells] /\ Empty \in [Nodes -> Cells]
BY DEF TypeOK, Stored, Empty, Cells

\* pruneTree changes no node but for removing it or its expired value.
LEMMA PrunedFacts ==
  ASSUME TypeOK
  PROVE  /\ Pruned \in [Nodes -> Cells]
         /\ \A n \in Nodes : Pruned[n] # Absent =>
              (Pruned[n].v = None /\ Pruned[n].d = 0) \/ Pruned[n] = store[n]
<1>1. \A n \in Nodes : Pruned[n] \in {Absent, Cell(None, 0), Stored[n]}
  BY Zenon DEF Pruned
<1>2. Cell(None, 0) \in Nodal /\ Cell(None, 0).d = 0 /\ Cell(None, 0).v = None
  BY DEF Cell, Nodal
<1>3. Pruned = [n \in Nodes |-> Pruned[n]]
  BY DEF Pruned
<1>4. \A n \in Nodes : Stored[n] \in {Absent, store[n]}
  BY DEF Stored, Empty
<1>5. \A n \in Nodes : Pruned[n] \in Cells
  BY <1>1, <1>2, StoredType, CellFacts
<1>6. Pruned \in [Nodes -> Cells]
  <2> HIDE DEF Pruned
  <2> QED BY <1>3, <1>5
<1> QED BY <1>1, <1>2, <1>4, <1>6

-----------------------------------------------------------------------------
(* The steps *)

\* A step that leaves the clock, the stored tree, its expiration, what the calls
\* have read and computed and the history alone.
LEMMA SameData ==
  ASSUME IInv, UNCHANGED <<now, store, expiry, copy, put, ttl, current, history>>,
         NEW p \in Calls, NEW l, pc' = [pc EXCEPT ![p] = l],
         pc[p] \notin {"ttl", "set"}, l \notin {"ttl", "set"}
  PROVE  CopyInv' /\ TtlInv' /\ SectionInv' /\ KeyOutlivesNodes' /\ LockedNotOutrun'
<1>1. \A q \in Calls : pc'[q] = IF q = p THEN l ELSE pc[q]
  BY DEF IInv, TypeOK
<1>2. UNCHANGED <<permanent, outrun, overtaken, raced, slack>>
  BY DEF history
<1>3. CopyInv'
  BY <1>1, <1>2 DEF IInv, CopyInv, Covered
<1>4. TtlInv'
  BY <1>1, <1>2 DEF IInv, TtlInv
<1>5. SectionInv' /\ LockedNotOutrun'
  BY <1>2 DEF IInv, SectionInv, LockedNotOutrun
<1> QED BY <1>2, <1>3, <1>4, <1>5 DEF IInv, KeyOutlivesNodes

\* The clock keeps the invariant.
LEMMA TickStep ==
  ASSUME IInv, Tick
  PROVE  IInv'
<1>1. /\ now \in Nat /\ now' = now + 1 /\ now' \in 1 .. MaxTime /\ expiry \in Nat
      /\ slack \in Nat /\ Loss \in Nat
      /\ UNCHANGED <<store, expiry, holder, pc, began, copy, put, ttl, current,
                     permanent, outrun, overtaken, raced, slack>>
  BY ValueAssumption DEF IInv, TypeOK, Tick, history
<1>2. TypeOK' /\ LockInv' /\ SectionInv' /\ LockedNotOutrun'
  BY <1>1 DEF IInv, TypeOK, LockInv, SectionInv, LockedNotOutrun
<1>3. BeganInv' /\ KindInv'
  BY <1>1 DEF IInv, TypeOK, BeganInv, KindInv, HasTree
<1>4. \A d \in Nat : Covered(d) => Covered(d)'
  BY <1>1 DEF Covered
<1>5. CopyInv'
  <2> SUFFICES ASSUME ~permanent, ~raced, NEW p \in Calls, NEW n \in Nodes,
                      copy[p][n] # Absent
               PROVE  \/ Covered(copy[p][n].d)'
                      \/ pc[p] \in {"ttl", "set"} /\ copy[p][n].d <= now' + Ms(ttl[p])
    BY <1>1 DEF CopyInv, Covered
  <2>1. copy[p][n].d \in Nat /\ Ms(ttl[p]) \in Nat
    BY CellFacts, MsFacts DEF IInv, TypeOK, Nodal
  <2>2. \/ Covered(copy[p][n].d)
        \/ pc[p] \in {"ttl", "set"} /\ copy[p][n].d <= now + Ms(ttl[p])
    BY DEF IInv, CopyInv
  <2> QED BY <1>1, <1>4, <2>1, <2>2
<1>6. TtlInv'
  <2>1. \A p \in Calls : Ms(current[p]) \in Nat
    BY MsFacts DEF IInv, TypeOK
  <2> QED BY <1>1, <2>1 DEF IInv, TtlInv
<1>7. KeyOutlivesNodes'
  <2>1. \A n \in Nodes : store[n] # Absent => store[n].d \in Nat
    BY CellFacts DEF IInv, TypeOK, Nodal
  <2> QED BY <1>1, <2>1 DEF IInv, KeyOutlivesNodes
<1> QED BY <1>2, <1>3, <1>5, <1>6, <1>7 DEF IInv

\* Reading the clock, and the unlocked read of prune, keep the invariant.
LEMMA BeginStep ==
  ASSUME IInv, NEW p \in Calls, Begin(p) \/ PruneRead(p)
  PROVE  IInv'
<1>0. /\ TypeOK /\ LockInv /\ KindInv /\ now \in 1 .. MaxTime /\ pc[p] = "begin"
      /\ UNCHANGED <<now, store, expiry, holder, put, ttl, current,
                     permanent, outrun, overtaken, raced, slack>>
  BY DEF IInv, TypeOK, Begin, PruneRead, history
<1>1. CASE Begin(p)
  <2>1. /\ UNCHANGED <<now, store, expiry, holder, copy, put, ttl, current, history>>
        /\ began' = [began EXCEPT ![p] = now] /\ pc' = [pc EXCEPT ![p] = "acquire"]
        /\ Kind[p] # "prune"
    BY <1>1 DEF Begin, Goto
  <2>2. TypeOK' /\ BeganInv'
    BY <1>0, <2>1 DEF IInv, TypeOK, BeganInv
  <2>3. \A q \in Calls : pc'[q] = IF q = p THEN "acquire" ELSE pc[q]
    BY <1>0, <2>1 DEF TypeOK
  <2>4. LockInv' /\ KindInv'
    BY <1>0, <2>1, <2>3 DEF LockInv, KindInv, InSection, HasTree
  <2>5. CopyInv' /\ TtlInv' /\ SectionInv' /\ KeyOutlivesNodes' /\ LockedNotOutrun'
    BY <1>0, <2>1, SameData
  <2> QED BY <2>2, <2>4, <2>5 DEF IInv
<1>2. CASE PruneRead(p)
  <2>1. PICK l \in {"acquire", "done"} :
        /\ UNCHANGED began
        /\ pc' = [pc EXCEPT ![p] = l]
        /\ \/ l = "acquire" /\ copy' = [copy EXCEPT ![p] = Pruned]
           \/ copy' = copy
        /\ Kind[p] = "prune"
    BY <1>2 DEF PruneRead, Goto
  <2>2. /\ \A q \in Calls : pc'[q] = IF q = p THEN l ELSE pc[q]
        /\ \A q \in Calls : copy'[q] = copy[q]
                            \/ (q = p /\ l = "acquire" /\ copy'[q] = Pruned)
    BY <1>0, <2>1 DEF TypeOK
  <2>3. TypeOK'
    BY <1>0, <2>1, PrunedFacts DEF TypeOK
  <2>4. LockInv' /\ KindInv' /\ BeganInv'
    BY <1>0, <2>1, <2>2 DEF IInv, LockInv, KindInv, InSection, BeganInv, HasTree
  <2>5. CopyInv'
    <3> SUFFICES ASSUME ~permanent, ~raced, NEW q \in Calls, NEW n \in Nodes,
                        copy'[q][n] # Absent
                 PROVE  \/ Covered(copy'[q][n].d)
                        \/ pc'[q] \in {"ttl", "set"} /\ copy'[q][n].d <= now + Ms(ttl[q])
      BY <1>0 DEF CopyInv, Covered
    <3>1. CASE copy'[q] = copy[q]
      BY <1>0, <2>2, <3>1 DEF IInv, CopyInv
    <3>2. CASE copy'[q] = Pruned
      <4>1. Pruned[n].d = 0 \/ Pruned[n] = store[n]
        BY <1>0, <3>2, PrunedFacts
      <4> QED BY <1>0, <3>2, <4>1 DEF IInv, KeyOutlivesNodes, Covered
    <3> QED BY <2>2, <3>1, <3>2
  <2>6. TtlInv'
    BY <1>0, <2>1, <2>2 DEF IInv, TtlInv
  <2>7. SectionInv'
    BY <1>0, <2>2, PrunedFacts DEF IInv, SectionInv
  <2>8. KeyOutlivesNodes' /\ LockedNotOutrun'
    BY <1>0 DEF IInv, KeyOutlivesNodes, LockedNotOutrun
  <2> QED BY <2>3, <2>4, <2>5, <2>6, <2>7, <2>8 DEF IInv
<1> QED BY <1>1, <1>2

\* Entering the section, with or without the semaphore, keeps the invariant.
LEMMA AcquireStep ==
  ASSUME IInv, NEW p \in Calls, Acquire(p) \/ SkipAcquire(p)
  PROVE  IInv'
<1>0. TypeOK /\ LockInv /\ BeganInv /\ KindInv /\ now \in 1 .. MaxTime
  BY DEF IInv, TypeOK
<1>1. PICK l \in {"pruneTtl", "get"} :
        /\ UNCHANGED <<now, store, expiry, copy, put, ttl, current, history>>
        /\ pc[p] = "acquire"
        /\ \/ Locks(p) /\ holder = Free /\ holder' = p
           \/ ~Locks(p) /\ holder' = holder
        /\ pc' = [pc EXCEPT ![p] = l]
        /\ began' \in {began, [began EXCEPT ![p] = now]}
        /\ l = "get" <=> Kind[p] # "prune"
  BY DEF Acquire, SkipAcquire, EnterSection, Goto
<1>2. \A q \in Calls : pc'[q] = IF q = p THEN l ELSE pc[q]
  BY <1>0, <1>1 DEF TypeOK
<1>3. UNCHANGED <<permanent, outrun, overtaken, raced, slack>>
  BY <1>1 DEF history
<1>4. TypeOK'
  BY <1>0, <1>1, <1>3 DEF TypeOK
<1>5. LockInv'
  BY <1>0, <1>1, <1>2, CallAssumption DEF LockInv, InSection
<1>6. KindInv'
  BY <1>0, <1>1, <1>2, <1>3 DEF KindInv, HasTree
<1>7. BeganInv'
  BY <1>0, <1>1 DEF TypeOK, BeganInv
<1>8. CopyInv' /\ TtlInv' /\ SectionInv' /\ KeyOutlivesNodes' /\ LockedNotOutrun'
  BY <1>1, SameData
<1> QED BY <1>4, <1>5, <1>6, <1>7, <1>8 DEF IInv

\* Reading the tree keeps the invariant.
LEMMA GetStep ==
  ASSUME IInv, NEW p \in Calls, Get(p)
  PROVE  IInv'
<1>0. TypeOK /\ LockInv /\ BeganInv /\ KindInv /\ now \in 1 .. MaxTime
  BY DEF IInv, TypeOK
<1>1. /\ UNCHANGED <<now, store, expiry, holder, began, put, ttl, current,
                     permanent, outrun, overtaken, raced, slack>>
      /\ pc[p] = "get" /\ pc' = [pc EXCEPT ![p] = "consume"]
      /\ copy' = [copy EXCEPT ![p] = Stored]
  BY DEF Get, Goto, history
<1>2. /\ \A q \in Calls : pc'[q] = IF q = p THEN "consume" ELSE pc[q]
      /\ \A q \in Calls : copy'[q] = IF q = p THEN Stored ELSE copy[q]
  BY <1>0, <1>1 DEF TypeOK
<1>3. TypeOK'
  BY <1>0, <1>1, StoredType DEF TypeOK
<1>4. LockInv' /\ KindInv' /\ BeganInv'
  BY <1>0, <1>1, <1>2 DEF LockInv, KindInv, InSection, BeganInv, HasTree
<1>5. CopyInv'
  <2> SUFFICES ASSUME ~permanent, ~raced, NEW q \in Calls, NEW n \in Nodes,
                      copy'[q][n] # Absent
               PROVE  \/ Covered(copy'[q][n].d)
                      \/ pc'[q] \in {"ttl", "set"} /\ copy'[q][n].d <= now + Ms(ttl[q])
    BY <1>1 DEF CopyInv, Covered
  <2>1. CASE q # p
    BY <1>2, <2>1 DEF IInv, CopyInv
  <2>2. CASE q = p
    <3>1. Stored[n] = store[n] /\ store[n] # Absent
      BY <1>2, <2>2 DEF Stored, Empty
    <3> QED BY <1>2, <2>2, <3>1 DEF IInv, KeyOutlivesNodes, Covered
  <2> QED BY <2>1, <2>2
<1>6. TtlInv'
  BY <1>1, <1>2 DEF IInv, TtlInv
<1>7. SectionInv'
  <2>1. \A n \in Nodes : Stored[n] \in {Absent, store[n]}
    BY DEF Stored, Empty
  <2> QED BY <1>1, <1>2, <2>1 DEF IInv, SectionInv
<1>8. KeyOutlivesNodes' /\ LockedNotOutrun'
  BY <1>1 DEF IInv, KeyOutlivesNodes, LockedNotOutrun
<1> QED BY <1>3, <1>4, <1>5, <1>6, <1>7, <1>8 DEF IInv

\* The labels a call may go to when it is past its section.
LEMMA LeaveFacts ==
  ASSUME NEW p \in Calls
  PROVE  /\ Leave(p) \in {"release", "done"}
         /\ Leave(p) = "release" <=> Locks(p)
         /\ Kind[p] = "prune" => Locks(p)
BY DEF Leave, Locks

\* The call goes without storing: its copy is gone.
LEMMA LeavesStep ==
  ASSUME IInv, NEW p \in Calls, NEW l \in {"release", "leaked", "done"}, Leaves(p, l),
         pc[p] \in InSection, l \in {"release", "leaked"} <=> Locks(p)
  PROVE  IInv'
<1>0. TypeOK /\ LockInv /\ BeganInv /\ KindInv /\ now \in 1 .. MaxTime
  BY DEF IInv, TypeOK
<1>1. /\ pc' = [pc EXCEPT ![p] = l]
      /\ began' = [began EXCEPT ![p] = 0]
      /\ copy' = [copy EXCEPT ![p] = Empty]
      /\ put' = [put EXCEPT ![p] = {}]
      /\ ttl' = [ttl EXCEPT ![p] = 0]
      /\ current' = [current EXCEPT ![p] = 0]
      /\ outrun' = [outrun EXCEPT ![p] = {}]
      /\ overtaken' = [overtaken EXCEPT ![p] = {}]
      /\ UNCHANGED <<now, store, expiry, holder, permanent, raced, slack>>
  BY DEF Leaves, Drop, Goto
<1>2. \A q \in Calls :
        /\ pc'[q] = IF q = p THEN l ELSE pc[q]
        /\ began'[q] = IF q = p THEN 0 ELSE began[q]
        /\ copy'[q] = IF q = p THEN Empty ELSE copy[q]
        /\ put'[q] = IF q = p THEN {} ELSE put[q]
        /\ ttl'[q] = IF q = p THEN 0 ELSE ttl[q]
        /\ current'[q] = IF q = p THEN 0 ELSE current[q]
        /\ outrun'[q] = IF q = p THEN {} ELSE outrun[q]
        /\ overtaken'[q] = IF q = p THEN {} ELSE overtaken[q]
  BY <1>0, <1>1 DEF TypeOK
<1>3. TypeOK'
  <2>1. copy' \in [Calls -> [Nodes -> Cells]]
    BY <1>0, <1>1, StoredType DEF TypeOK
  <2>2. /\ pc' \in [Calls -> {"begin", "acquire", "get", "consume", "pruneTtl", "ttl",
                              "set", "release", "leaked", "done"}]
        /\ began' \in [Calls -> 0 .. MaxTime] /\ put' \in [Calls -> SUBSET Nodes]
        /\ ttl' \in [Calls -> Nat] /\ current' \in [Calls -> Nat]
    BY <1>0, <1>1, ValueAssumption DEF TypeOK
  <2>3. outrun' \in [Calls -> SUBSET Calls] /\ overtaken' \in [Calls -> SUBSET Calls]
    BY <1>0, <1>1 DEF TypeOK
  <2> QED BY <1>0, <1>1, <2>1, <2>2, <2>3 DEF TypeOK
<1>4. LockInv'
  BY <1>0, <1>1, <1>2 DEF LockInv, InSection
<1>5. BeganInv' /\ KindInv'
  BY <1>0, <1>1, <1>2 DEF BeganInv, KindInv, HasTree
<1>6. CopyInv'
  BY <1>1, <1>2 DEF IInv, CopyInv, Covered, Empty
<1>7. TtlInv' /\ SectionInv' /\ LockedNotOutrun'
  BY <1>1, <1>2 DEF IInv, TtlInv, SectionInv, LockedNotOutrun, Empty
<1>8. KeyOutlivesNodes'
  BY <1>1 DEF IInv, KeyOutlivesNodes
<1> QED BY <1>3, <1>4, <1>5, <1>6, <1>7, <1>8 DEF IInv

\* A failed call and the consumer that stops.
LEMMA FailStep ==
  ASSUME IInv, NEW p \in Calls, Fail(p)
  PROVE  IInv'
<1> DEFINE l == IF Kind[p] = "prune" THEN "leaked" ELSE Leave(p)
<1>1. /\ l \in {"release", "leaked", "done"}
      /\ l \in {"release", "leaked"} <=> Locks(p)
  BY LeaveFacts
<1>2. Leaves(p, l) /\ pc[p] \in InSection
  BY DEF Fail, InSection
<1> HIDE DEF l
<1> QED BY <1>1, <1>2, LeavesStep

\* Changing the copy keeps the invariant: the largest ttl covers every deadline.
LEMMA ConsumeStep ==
  ASSUME IInv, NEW p \in Calls, Consume(p)
  PROVE  IInv'
<1>0. /\ TypeOK /\ LockInv /\ BeganInv /\ KindInv /\ pc[p] = "consume"
      /\ now \in Nat
  BY DEF IInv, TypeOK, Consume
<1>1. PICK E \in SUBSET Visits[p] :
        \/ Leaves(p, Leave(p))
        \/ /\ copy' = [copy EXCEPT ![p] = [n \in Nodes |->
                        IF n \in Visits[p] THEN Enriched(p, E, n) ELSE @[n]]]
           /\ put' = [put EXCEPT ![p] = {n \in Visits[p] : Puts(p, E, n)}]
           /\ ttl' = [ttl EXCEPT ![p] = MaxTtl(p, E)]
           /\ Goto(p, IF MaxTtl(p, E) = 0 THEN "set" ELSE "ttl")
           /\ UNCHANGED <<now, store, expiry, holder, began, current, history>>
  BY Zenon DEF Consume
<1>2. CASE Leaves(p, Leave(p))
  BY <1>0, <1>2, LeaveFacts, LeavesStep DEF InSection
<1>3. CASE /\ copy' = [copy EXCEPT ![p] = [n \in Nodes |->
                        IF n \in Visits[p] THEN Enriched(p, E, n) ELSE @[n]]]
           /\ put' = [put EXCEPT ![p] = {n \in Visits[p] : Puts(p, E, n)}]
           /\ ttl' = [ttl EXCEPT ![p] = MaxTtl(p, E)]
           /\ Goto(p, IF MaxTtl(p, E) = 0 THEN "set" ELSE "ttl")
           /\ UNCHANGED <<now, store, expiry, holder, began, current, history>>
  <2> DEFINE l == IF MaxTtl(p, E) = 0 THEN "set" ELSE "ttl"
             made == [n \in Nodes |-> IF n \in Visits[p] THEN Enriched(p, E, n) ELSE copy[p][n]]
             new == {n \in Visits[p] : Puts(p, E, n)}
  <2>1. /\ copy' = [copy EXCEPT ![p] = made] /\ put' = [put EXCEPT ![p] = new]
        /\ ttl' = [ttl EXCEPT ![p] = MaxTtl(p, E)] /\ pc' = [pc EXCEPT ![p] = l]
        /\ UNCHANGED <<now, store, expiry, holder, began, current,
                       permanent, outrun, overtaken, raced, slack>>
    BY <1>3 DEF Goto, history
  <2>2. Visits[p] \subseteq Nodes /\ Kind[p] \in {"deep", "full"}
    BY <1>0, CallAssumption DEF KindInv
  <2>3. /\ MaxTtl(p, E) \in Nat
        /\ Kind[p] = "deep" => MaxTtl(p, E) = Ttl[p][Target[p]]
    BY MaxTtlFacts
  <2>4. made \in [Nodes -> Cells] /\ new \in SUBSET Nodes
    <3>1. \A n \in Nodes : Enriched(p, E, n) \in Cells
      BY <1>0, EnrichedFacts, CellFacts
    <3>2. \A n \in Nodes : copy[p][n] \in Cells
      BY <1>0 DEF TypeOK
    <3> QED BY <2>2, <3>1, <3>2
  <2>5. l \in {"set", "ttl"} /\ (l = "set" => MaxTtl(p, E) = 0)
    OBVIOUS
  <2>6. \A n \in Nodes : n \notin new =>
          made[n] = copy[p][n] \/ (copy[p][n] = Absent /\ made[n].v = None)
    <3>1. \A n \in Nodes : ~Puts(p, E, n) => Enriched(p, E, n) = Found(p, n)
      BY <1>0, EnrichedFacts DEF Puts
    <3> QED BY <1>0, <3>1, FoundFacts
  <2>7. \A n \in Nodes : made[n] # Absent =>
          \/ made[n].d = 0
          \/ copy[p][n] # Absent /\ made[n].d = copy[p][n].d
          \/ made[n].d <= now + Ms(MaxTtl(p, E))
    <3> SUFFICES ASSUME NEW n \in Nodes
                 PROVE  \/ made[n] = copy[p][n]
                        \/ Enriched(p, E, n).d = 0
                        \/ copy[p][n] # Absent /\ Enriched(p, E, n).d = copy[p][n].d
                        \/ Enriched(p, E, n).d <= now + Ms(MaxTtl(p, E))
      OBVIOUS
    <3>1. CASE Enriched(p, E, n).d \in {0, Found(p, n).d}
      BY <1>0, <3>1, FoundFacts
    <3>2. CASE /\ Kind[p] # "full" /\ n = Target[p]
               /\ Enriched(p, E, n).d = began[p] + Ms(Ttl[p][n])
      <4>1. MaxTtl(p, E) = Ttl[p][n]
        BY <2>2, <2>3, <3>2
      <4>2. began[p] \in Nat /\ began[p] <= now /\ Ms(Ttl[p][n]) \in Nat
        BY <1>0, ValueAssumption, MsFacts DEF TypeOK, BeganInv
      <4> QED BY <1>0, <3>2, <4>1, <4>2
    <3> QED BY <1>0, <3>1, <3>2, EnrichedFacts
  <2> HIDE DEF l, made, new
  <2>8. \A q \in Calls :
          /\ pc'[q] = IF q = p THEN l ELSE pc[q]
          /\ copy'[q] = IF q = p THEN made ELSE copy[q]
          /\ put'[q] = IF q = p THEN new ELSE put[q]
          /\ ttl'[q] = IF q = p THEN MaxTtl(p, E) ELSE ttl[q]
    BY <1>0, <2>1 DEF TypeOK
  <2>9. TypeOK'
    BY <1>0, <2>1, <2>3, <2>4, <2>5 DEF TypeOK
  <2>10. LockInv' /\ KindInv' /\ BeganInv'
    BY <1>0, <2>1, <2>5, <2>8 DEF LockInv, KindInv, InSection, BeganInv, HasTree
  <2>11. CopyInv'
    <3> SUFFICES ASSUME ~permanent, ~raced, NEW q \in Calls, NEW n \in Nodes,
                        copy'[q][n] # Absent
                 PROVE  \/ Covered(copy'[q][n].d)
                        \/ pc'[q] \in {"ttl", "set"} /\ copy'[q][n].d <= now + Ms(ttl'[q])
      BY <2>1 DEF CopyInv, Covered
    <3>1. CASE q # p
      BY <2>8, <3>1 DEF IInv, CopyInv
    <3>2. CASE q = p
      <4>1. copy[p][n] # Absent => Covered(copy[p][n].d)
        BY <1>0 DEF IInv, CopyInv
      <4>2. Covered(0)
        BY <1>0 DEF Covered
      <4> QED BY <2>5, <2>7, <2>8, <3>2, <4>1, <4>2
    <3> QED BY <3>1, <3>2
  <2>12. TtlInv'
    BY <1>0, <2>1, <2>5, <2>8 DEF IInv, TtlInv
  <2>13. SectionInv'
    <3> SUFFICES ASSUME NEW n \in Nodes, overtaken[p] = {}
                 PROVE  \/ n \in new \/ made[n] = Absent \/ made[n].v = None
                        \/ made[n] = store[n]
      BY <2>1, <2>8 DEF IInv, SectionInv
    <3>1. copy[p][n] = Absent \/ copy[p][n].v = None \/ copy[p][n] = store[n]
      BY <1>0 DEF IInv, SectionInv, KindInv
    <3> QED BY <2>6, <3>1
  <2>14. KeyOutlivesNodes' /\ LockedNotOutrun'
    BY <2>1 DEF IInv, KeyOutlivesNodes, LockedNotOutrun
  <2> QED BY <2>9, <2>10, <2>11, <2>12, <2>13, <2>14 DEF IInv
<1> QED BY <1>1, <1>2, <1>3

\* getCurrentTtl by prune and by persistTree.
LEMMA TtlStep ==
  ASSUME IInv, NEW p \in Calls, PruneTtl(p) \/ ReadTtl(p)
  PROVE  IInv'
<1>0. /\ TypeOK /\ LockInv /\ BeganInv /\ KindInv /\ now \in Nat /\ expiry \in Nat
      /\ UNCHANGED <<now, store, expiry, holder, began, copy, put,
                     permanent, outrun, overtaken, raced, slack>>
  BY DEF IInv, TypeOK, PruneTtl, ReadTtl, history
<1>1. PICK s \in CurrentTtls, l \in {"ttl", "set"} :
        /\ pc[p] \in {"pruneTtl", "ttl"} /\ pc' = [pc EXCEPT ![p] = l]
        /\ \/ /\ pc[p] = "pruneTtl" /\ current' = current
              /\ ttl' = [ttl EXCEPT ![p] = s] /\ (l = "set" => s = 0)
           \/ /\ pc[p] = "ttl" /\ ttl' = ttl
              /\ current' = [current EXCEPT ![p] = s]
  <2>1. CASE PruneTtl(p)
    <3>1. PICK s \in CurrentTtls :
            /\ ttl' = [ttl EXCEPT ![p] = s]
            /\ Goto(p, IF s = 0 THEN "set" ELSE "ttl")
      BY <2>1 DEF PruneTtl
    <3>2. pc[p] = "pruneTtl" /\ current' = current
      BY <2>1 DEF PruneTtl
    <3>3. CASE s = 0
      <4> WITNESS s \in CurrentTtls, "set" \in {"ttl", "set"}
      <4> QED BY <3>1, <3>2, <3>3 DEF Goto
    <3>4. CASE s # 0
      <4> WITNESS s \in CurrentTtls, "ttl" \in {"ttl", "set"}
      <4> QED BY <3>1, <3>2, <3>4 DEF Goto
    <3> QED BY <3>3, <3>4
  <2>2. CASE ReadTtl(p)
    <3>1. PICK s \in CurrentTtls : current' = [current EXCEPT ![p] = s]
      BY <2>2 DEF ReadTtl
    <3> WITNESS s \in CurrentTtls, "set" \in {"ttl", "set"}
    <3> QED BY <2>2, <3>1 DEF ReadTtl, Goto
  <2> QED BY <2>1, <2>2
<1>2. s \in Nat /\ expiry <= now + Ms(s) + Loss
  BY <1>0, CurrentFacts
<1>3. /\ \A q \in Calls : pc'[q] = IF q = p THEN l ELSE pc[q]
      /\ \A q \in Calls : ttl'[q] = ttl[q] \/ (q = p /\ pc[p] = "pruneTtl")
      /\ \A q \in Calls : q # p => current'[q] = current[q]
      /\ l = "set" => ttl'[p] = 0 \/ current'[p] = s
  BY <1>0, <1>1 DEF TypeOK
<1>4. TypeOK'
  BY <1>0, <1>1, <1>2 DEF TypeOK
<1>5. LockInv' /\ KindInv' /\ BeganInv'
  BY <1>0, <1>1, <1>3 DEF LockInv, KindInv, InSection, BeganInv, HasTree
<1>6. CopyInv'
  <2> SUFFICES ASSUME ~permanent, ~raced, NEW q \in Calls, NEW n \in Nodes,
                      copy[q][n] # Absent
               PROVE  \/ Covered(copy[q][n].d)
                      \/ pc'[q] \in {"ttl", "set"} /\ copy[q][n].d <= now + Ms(ttl'[q])
    BY <1>0 DEF CopyInv, Covered
  <2>1. \/ Covered(copy[q][n].d)
        \/ pc[q] \in {"ttl", "set"} /\ copy[q][n].d <= now + Ms(ttl[q])
    BY DEF IInv, CopyInv
  <2> QED BY <1>1, <1>3, <2>1
<1>7. TtlInv'
  BY <1>0, <1>2, <1>3 DEF IInv, TtlInv
<1>8. SectionInv' /\ KeyOutlivesNodes' /\ LockedNotOutrun'
  BY <1>0 DEF IInv, SectionInv, KeyOutlivesNodes, LockedNotOutrun
<1> QED BY <1>4, <1>5, <1>6, <1>7, <1>8 DEF IInv

\* storage.set of a call that nobody has outrun: the key keeps the time it had,
\* but for the rounding.
LEMMA SetFacts ==
  ASSUME IInv, NEW p \in Calls, Set(p)
  PROVE  /\ now \in Nat /\ expiry \in Nat /\ expiry' \in Nat /\ slack \in Nat
         /\ slack' \in Nat /\ Loss \in Nat /\ slack <= slack'
         /\ ttl[p] = 0 => expiry' = 0
         /\ ttl[p] # 0 => now + Ms(ttl[p]) <= expiry'
         /\ ttl[p] # 0 /\ outrun[p] = {} => expiry <= expiry' + Loss
         /\ ttl[p] # 0 /\ outrun[p] = {} => expiry + slack <= expiry' + slack'
<1>1. /\ now \in Nat /\ expiry \in Nat /\ ttl[p] \in Nat /\ current[p] \in Nat
      /\ pc[p] = "set" /\ slack \in Nat /\ Loss \in Nat
      /\ expiry' = IF ttl[p] = 0 THEN 0 ELSE now + Ms(StoredTtl(p))
      /\ slack' = IF now < expiry THEN slack + Loss ELSE slack
  BY ValueAssumption DEF IInv, TypeOK, Set
<1>2. StoredTtl(p) \in Nat /\ ttl[p] <= StoredTtl(p) /\ current[p] <= StoredTtl(p)
  BY <1>1 DEF StoredTtl
<1>3. /\ Ms(StoredTtl(p)) \in Nat /\ Ms(ttl[p]) \in Nat /\ Ms(current[p]) \in Nat
      /\ Ms(ttl[p]) <= Ms(StoredTtl(p)) /\ Ms(current[p]) <= Ms(StoredTtl(p))
  BY <1>1, <1>2, MsFacts
<1>4. ttl[p] # 0 /\ outrun[p] = {} => expiry <= now + Ms(current[p]) + Loss
  BY <1>1 DEF IInv, TtlInv
<1> QED BY <1>1, <1>3, <1>4

\* storage.set keeps the invariant: the ttl counts from a time not before now.
LEMMA SetStep ==
  ASSUME IInv, NEW p \in Calls, Set(p)
  PROVE  IInv'
<1>0. /\ TypeOK /\ LockInv /\ BeganInv /\ KindInv /\ pc[p] = "set"
      /\ UNCHANGED <<now, holder>> /\ store' = copy[p]
      /\ permanent' = (permanent \/ ttl[p] = 0)
      /\ raced' = (raced \/ outrun[p] # {})
  BY DEF IInv, Set
<1>1. /\ now \in Nat /\ expiry \in Nat /\ expiry' \in Nat /\ slack \in Nat /\ slack' \in Nat
      /\ ttl[p] # 0 => now + Ms(ttl[p]) <= expiry'
      /\ ttl[p] # 0 /\ outrun[p] = {} => expiry + slack <= expiry' + slack'
  BY SetFacts
<1>2. PICK l \in {"release", "leaked", "done"} :
        Drop(p, l) /\ (l \in {"release", "leaked"} <=> Locks(p))
  BY LeaveFacts DEF Set
<1>3. /\ pc' = [pc EXCEPT ![p] = l]
      /\ began' = [began EXCEPT ![p] = 0]
      /\ copy' = [copy EXCEPT ![p] = Empty]
      /\ put' = [put EXCEPT ![p] = {}]
      /\ ttl' = [ttl EXCEPT ![p] = 0]
      /\ current' = [current EXCEPT ![p] = 0]
  BY <1>2 DEF Drop, Goto
<1>4. \A q \in Calls :
        /\ pc'[q] = IF q = p THEN l ELSE pc[q]
        /\ began'[q] = IF q = p THEN 0 ELSE began[q]
        /\ copy'[q] = IF q = p THEN Empty ELSE copy[q]
        /\ put'[q] = IF q = p THEN {} ELSE put[q]
        /\ ttl'[q] = IF q = p THEN 0 ELSE ttl[q]
  BY <1>0, <1>3 DEF TypeOK
<1>5. /\ outrun' \in [Calls -> SUBSET Calls] /\ overtaken' \in [Calls -> SUBSET Calls]
      /\ \A q \in Calls :
           /\ outrun'[q] = IF q = p THEN {}
                           ELSE IF pc[q] = "set" THEN outrun[q] \cup {p} ELSE outrun[q]
           /\ overtaken'[q] = IF q = p THEN {}
                              ELSE IF HasTree(q) THEN overtaken[q] \cup {p}
                              ELSE overtaken[q]
  <2>1. /\ outrun' = [q \in Calls |-> IF q = p THEN {}
                       ELSE IF pc[q] = "set" THEN outrun[q] \cup {p} ELSE outrun[q]]
        /\ overtaken' = [q \in Calls |-> IF q = p THEN {}
                          ELSE IF HasTree(q) THEN overtaken[q] \cup {p} ELSE overtaken[q]]
    BY DEF Set
  <2> QED BY <1>0, <2>1 DEF TypeOK
<1>6. TypeOK'
  <2>1. copy' \in [Calls -> [Nodes -> Cells]] /\ store' \in [Nodes -> Cells]
    BY <1>0, <1>3, StoredType DEF TypeOK
  <2>2. /\ pc' \in [Calls -> {"begin", "acquire", "get", "consume", "pruneTtl", "ttl",
                              "set", "release", "leaked", "done"}]
        /\ began' \in [Calls -> 0 .. MaxTime] /\ put' \in [Calls -> SUBSET Nodes]
        /\ ttl' \in [Calls -> Nat] /\ current' \in [Calls -> Nat]
    BY <1>0, <1>3, ValueAssumption DEF TypeOK
  <2>3. permanent' \in BOOLEAN /\ raced' \in BOOLEAN
    BY <1>0
  <2> QED BY <1>0, <1>1, <1>5, <2>1, <2>2, <2>3 DEF TypeOK
<1>7. LockInv'
  BY <1>0, <1>2, <1>4 DEF LockInv, InSection
<1>8. BeganInv' /\ KindInv'
  BY <1>0, <1>1, <1>4, <1>5 DEF BeganInv, KindInv, HasTree
<1>9. ASSUME ~permanent', ~raced', NEW q \in Calls, NEW n \in Nodes, copy[q][n] # Absent
      PROVE  \/ copy[q][n].d <= expiry' + slack' \/ copy[q][n].d <= now
             \/ q # p /\ pc[q] \in {"ttl", "set"} /\ copy[q][n].d <= now + Ms(ttl[q])
  <2>0. ~permanent /\ ~raced /\ ttl[p] # 0 /\ outrun[p] = {}
    BY <1>0, <1>9, Zenon
  <2>1. copy[q][n].d \in Nat /\ Ms(ttl[q]) \in Nat
    BY <1>0, <1>9, CellFacts, MsFacts DEF TypeOK, Nodal
  <2>2. \/ Covered(copy[q][n].d)
        \/ pc[q] \in {"ttl", "set"} /\ copy[q][n].d <= now + Ms(ttl[q])
    BY <1>9, <2>0 DEF IInv, CopyInv
  <2>3. CASE Covered(copy[q][n].d)
    <3>1. expiry + slack <= expiry' + slack'
      BY <1>1, <2>0
    <3>2. expiry \in Nat /\ slack \in Nat /\ expiry' \in Nat /\ slack' \in Nat
      BY <1>1
    <3>3. \A d, a, b, c, e \in Nat : d <= a + b /\ a + b <= c + e => d <= c + e
      OBVIOUS
    <3>4. copy[q][n].d <= expiry + slack => copy[q][n].d <= expiry' + slack'
      BY <2>1, <3>1, <3>2, <3>3, Zenon
    <3> QED BY <2>3, <3>4 DEF Covered
  <2>4. CASE q = p /\ copy[q][n].d <= now + Ms(ttl[q])
    BY <1>1, <2>0, <2>1, <2>4
  <2> QED BY <2>2, <2>3, <2>4
<1>10. CopyInv'
  <2> SUFFICES ASSUME ~permanent', ~raced', NEW q \in Calls, NEW n \in Nodes,
                      copy'[q][n] # Absent
               PROVE  \/ copy'[q][n].d <= expiry' + slack' \/ copy'[q][n].d <= now'
                      \/ pc'[q] \in {"ttl", "set"} /\ copy'[q][n].d <= now' + Ms(ttl'[q])
    BY DEF CopyInv, Covered
  <2>1. q # p /\ copy'[q] = copy[q] /\ pc'[q] = pc[q] /\ ttl'[q] = ttl[q] /\ now' = now
    BY <1>0, <1>4 DEF Empty
  <2> QED BY <1>9, <2>1
<1>11. TtlInv'
  BY <1>2, <1>4, <1>5 DEF TtlInv
<1>12. SectionInv'
  <2> SUFFICES ASSUME NEW q \in Calls, NEW n \in Nodes, overtaken'[q] = {}
               PROVE  copy'[q][n] = Absent
    BY DEF SectionInv
  <2>1. CASE q = p
    BY <1>4, <2>1 DEF Empty
  <2>2. CASE q # p
    <3>1. ~HasTree(q)
      BY <1>5, <2>2
    <3> QED BY <1>0, <1>4, <2>2, <3>1 DEF KindInv, Empty
  <2> QED BY <2>1, <2>2
<1>13. KeyOutlivesNodes'
  BY <1>0, <1>9 DEF KeyOutlivesNodes
<1>14. LockedNotOutrun'
  <2> SUFFICES ASSUME NEW q \in Calls, NEW r \in Calls, Locks(q), Locks(r)
               PROVE  r \notin outrun'[q] /\ (r \in overtaken'[q] => Kind[q] = "prune")
    BY DEF LockedNotOutrun, Locks
  <2>1. r \notin outrun[q] /\ (r \in overtaken[q] => Kind[q] = "prune")
    BY DEF IInv, LockedNotOutrun
  <2>2. CASE q # p /\ r = p
    <3>1. pc[q] \notin InSection
      BY <1>0, <2>2 DEF LockInv, InSection
    <3>2. pc[q] # "set" /\ (HasTree(q) => Kind[q] = "prune")
      BY <3>1 DEF HasTree, InSection
    <3> QED BY <1>5, <2>1, <2>2, <3>2
  <2>3. CASE ~(q # p /\ r = p)
    BY <1>5, <2>1, <2>3
  <2> QED BY <2>2, <2>3
<1> QED BY <1>6, <1>7, <1>8, <1>10, <1>11, <1>12, <1>13, <1>14 DEF IInv

\* Releasing the semaphore keeps the invariant.
LEMMA ReleaseStep ==
  ASSUME IInv, NEW p \in Calls, Release(p)
  PROVE  IInv'
<1>0. /\ TypeOK /\ LockInv /\ BeganInv /\ KindInv /\ pc[p] = "release"
      /\ holder' = Free /\ pc' = [pc EXCEPT ![p] = "done"]
      /\ UNCHANGED <<now, store, expiry, began, copy, put, ttl, current, history>>
  BY DEF IInv, Release, Goto
<1>1. \A q \in Calls : pc'[q] = IF q = p THEN "done" ELSE pc[q]
  BY <1>0 DEF TypeOK
<1>2. UNCHANGED <<permanent, outrun, overtaken, raced, slack>>
  BY <1>0 DEF history
<1>3. TypeOK'
  BY <1>0, <1>2 DEF TypeOK
<1>4. LockInv'
  BY <1>0, <1>1, CallAssumption DEF LockInv, InSection
<1>5. KindInv' /\ BeganInv'
  BY <1>0, <1>1, <1>2 DEF KindInv, BeganInv, HasTree
<1>6. CopyInv' /\ TtlInv' /\ SectionInv' /\ KeyOutlivesNodes' /\ LockedNotOutrun'
  BY <1>0, SameData
<1> QED BY <1>3, <1>4, <1>5, <1>6 DEF IInv

\* Every step keeps the inductive invariant.
LEMMA Inductive ==
  ASSUME IInv, [Next]_vars
  PROVE  IInv'
<1>1. CASE Tick
  BY <1>1, TickStep
<1>2. ASSUME NEW p \in Calls, Step(p) PROVE IInv'
  BY <1>2, BeginStep, AcquireStep, GetStep, ConsumeStep, TtlStep, SetStep, FailStep,
     ReleaseStep DEF Step
<1>3. CASE UNCHANGED vars
  <2>1. UNCHANGED <<now, store, expiry, holder, pc, began, copy, put, ttl, current,
                    permanent, outrun, overtaken, raced, slack>>
    BY <1>3 DEF vars
  <2>2. TypeOK' /\ LockInv' /\ BeganInv'
    BY <2>1 DEF IInv, TypeOK, LockInv, BeganInv
  <2>3. KindInv' /\ CopyInv' /\ TtlInv'
    BY <2>1 DEF IInv, KindInv, HasTree, CopyInv, Covered, TtlInv
  <2>4. SectionInv' /\ KeyOutlivesNodes' /\ LockedNotOutrun'
    BY <2>1 DEF IInv, SectionInv, KeyOutlivesNodes, LockedNotOutrun
  <2> QED BY <2>2, <2>3, <2>4 DEF IInv
<1> QED BY <1>1, <1>2, <1>3 DEF Next

\* The initial state is in the inductive invariant.
LEMMA InductiveInit == Init => IInv
<1> SUFFICES ASSUME Init PROVE IInv
  OBVIOUS
<1>1. TypeOK
  <2>1. Empty \in [Nodes -> Cells]
    BY DEF Empty, Cells
  <2>2. permanent \in BOOLEAN /\ raced \in BOOLEAN
    BY DEF Init
  <2>3. now \in 1 .. MaxTime /\ began \in [Calls -> 0 .. MaxTime]
    BY ValueAssumption DEF Init
  <2> QED BY <2>1, <2>2, <2>3 DEF Init, TypeOK
<1>2. LockInv /\ BeganInv /\ TtlInv
  BY CallAssumption DEF Init, LockInv, BeganInv, TtlInv, InSection
<1>3. KindInv /\ SectionInv /\ LockedNotOutrun
  BY DEF Init, KindInv, HasTree, SectionInv, LockedNotOutrun, Empty
<1>4. CopyInv /\ KeyOutlivesNodes
  BY DEF Init, CopyInv, KeyOutlivesNodes, Empty
<1> QED BY <1>1, <1>2, <1>3, <1>4 DEF IInv

\* The inductive invariant holds in every reachable state.
LEMMA Invariance == Spec => []IInv
BY InductiveInit, Inductive, PTL DEF Spec

\* The step that changes the stored tree or its expiration is a Set.
LEMMA OnlySetStores ==
  ASSUME Next
  PROVE  (store' = store /\ expiry' = expiry) \/ \E p \in Calls : Set(p)
<1>1. ASSUME NEW p \in Calls, Step(p), ~Set(p) PROVE store' = store /\ expiry' = expiry
  BY <1>1 DEF Step, Begin, PruneRead, Acquire, SkipAcquire, EnterSection, Get, Consume,
              Leaves, PruneTtl, ReadTtl, Fail, Release
<1>2. ASSUME Tick PROVE store' = store /\ expiry' = expiry
  BY <1>2 DEF Tick
<1> QED BY <1>1, <1>2 DEF Next

\* The call that stores is past its set.
LEMMA SetLeaves ==
  ASSUME TypeOK, NEW p \in Calls, Set(p)
  PROVE  pc[p] = "set" /\ pc'[p] # "set" /\ store' = copy[p]
BY LeaveFacts DEF Set, Drop, Goto, TypeOK

-----------------------------------------------------------------------------
(* The theorems *)

\* No ttl and no deadline is ever negative or undefined, whenever the clock ticks.
THEOREM TypeCorrect == Spec => []TypeOK
BY Invariance, PTL DEF IInv

\* However the calls, with and without a semaphore, interleave with each other and
\* with the clock, the storage keeps the key until every node of it has reached
\* its deadline, but for the rounding of the ttls, unless the tree was once stored
\* without a ttl or by a call that another one had outrun.
THEOREM KeyOutlivesNodesHolds == Spec => []KeyOutlivesNodes
BY Invariance, PTL DEF IInv

\* Two calls that take the semaphore never store between each other's reads and
\* writes, but for prune, which reads its tree before it acquires.
THEOREM LockedNotOutrunHolds == Spec => []LockedNotOutrun
BY Invariance, PTL DEF IInv

\* A write that takes more from the time of a live key than the rounding of a ttl
\* is one of a call that another one had outrun.
THEOREM KeyNeverShortenedHolds == Spec => KeyNeverShortened
<1> DEFINE A == now < expiry /\ expiry' # 0 /\ expiry' + Loss < expiry =>
                  \E p \in Calls : pc[p] = "set" /\ pc'[p] # "set" /\ outrun[p] # {}
<1>1. IInv /\ [Next]_vars => [A]_vars
  <2> SUFFICES ASSUME IInv, Next, expiry' # 0, expiry' + Loss < expiry
               PROVE  \E p \in Calls : pc[p] = "set" /\ pc'[p] # "set" /\ outrun[p] # {}
    BY DEF vars
  <2>1. TypeOK /\ expiry \in Nat /\ Loss \in Nat
    BY ValueAssumption DEF IInv, TypeOK
  <2>2. PICK p \in Calls : Set(p)
    BY <2>1, OnlySetStores
  <2>3. outrun[p] # {}
    BY <2>1, <2>2, SetFacts
  <2> QED BY <2>1, <2>2, <2>3, SetLeaves
<1> QED BY <1>1, Invariance, PTL DEF Spec, KeyNeverShortened

\* A value that has reached its deadline becomes readable again only by a call that
\* gives the node a value of its own, or that another one had overtaken since it
\* read the tree.
THEOREM NoRevivalHolds == Spec => NoRevival
<1> DEFINE A == \A n \in Nodes : Expired(store[n], now) /\ Current(store'[n], now) # None =>
                  \E p \in Calls : /\ pc[p] = "set" /\ pc'[p] # "set"
                                   /\ n \in put[p] \/ overtaken[p] # {}
<1>1. IInv /\ [Next]_vars => [A]_vars
  <2> SUFFICES ASSUME IInv, Next, NEW n \in Nodes, Expired(store[n], now),
                      Current(store'[n], now) # None
               PROVE  \E p \in Calls : /\ pc[p] = "set" /\ pc'[p] # "set"
                                       /\ n \in put[p] \/ overtaken[p] # {}
    BY DEF vars
  <2>1. TypeOK /\ Current(store[n], now) = None
    BY DEF IInv, Expired, Current
  <2>2. PICK p \in Calls : Set(p)
    BY <2>1, OnlySetStores
  <2>3. store'[n] = copy[p][n] /\ pc[p] = "set" /\ pc'[p] # "set"
    BY <2>1, <2>2, SetLeaves
  <2>4. copy[p][n] # Absent /\ copy[p][n].v # None
    BY <2>3 DEF Current
  <2>5. copy[p][n] # store[n]
    BY <2>1, <2>3
  <2>6. n \in put[p] \/ overtaken[p] # {}
    BY <2>4, <2>5 DEF IInv, SectionInv
  <2> QED BY <2>3, <2>6
<1> QED BY <1>1, Invariance, PTL DEF Spec, NoRevival

===============================================================================
