------------------------------ MODULE Expiration ------------------------------
(***************************************************************************)
(* Ttl and deadlines of one tree level key: the tree phase of deepTreeSet, *)
(* saveFullTreeValue of fullTreeSet and the write of prune, with a clock   *)
(* that may tick at every await (src/src/internal/tree-internal-control.ts,*)
(* src/src/tree-key-cache.ts).                                             *)
(*                                                                         *)
(* The key as a whole expires in the storage; a node expires by the        *)
(* deadline kept in the tree.  Ttls are whole seconds and deadlines are in *)
(* the finer unit of the clock.  0 stands for undefined, both as a ttl and *)
(* as a deadline: the code tests them by their truth value.  The steps a   *)
(* consumer sees under one key change nothing but the copy of the tree     *)
(* that the call works on, so one action stands for all of them.           *)
(*                                                                         *)
(* A call whose minLevelSemaphore lies below the key level takes no        *)
(* semaphore: setNode of any path longer than keyLevelNodes is one.        *)
(***************************************************************************)
EXTENDS Integers, FiniteSets

CONSTANTS
  Nodes, Root,  \* the nodes of the tree
  Above,        \* Above[n]: the nodes on the way from the root to n, both included
  Calls, Kind,  \* Kind[p]: "deep", "full" or "prune"
  KeyLevelNodes,      \* the level of the key
  MinLevelSemaphore,  \* MinLevelSemaphore[p]: the argument of p
  Visits,       \* Visits[p]: the nodes of a deep call's path or of a full call's tree
  Target,       \* Target[p]: the last node of a deep call's path
  Values, None, \* node values; None is undefined
  Value,        \* Value[p]: what the consumer assigns to step.value
  Created,      \* Created[p]: what createValue returns
  Ttl,          \* Ttl[p][n]: what the ttl argument gives for the step of n
  Scale,        \* MILLISECOND_SCALE: the units of the clock in a second
  Loss,         \* by how much getCurrentTtl may fall short of the time that is left
  Absent,       \* a node that is not there
  Free,         \* a semaphore nobody holds
  MaxTime       \* bound of the clock

ASSUME TreeAssumption ==
  /\ IsFiniteSet(Nodes)
  /\ Root \in Nodes
  /\ Above \in [Nodes -> SUBSET Nodes]
  /\ \A n \in Nodes : n \in Above[n] /\ Root \in Above[n]

ASSUME CallAssumption ==
  /\ Kind \in [Calls -> {"deep", "full", "prune"}]
  /\ Target \in [Calls -> Nodes]
  /\ Visits \in [Calls -> SUBSET Nodes]
  /\ \A p \in Calls : Kind[p] = "deep" => Visits[p] = Above[Target[p]]
  /\ KeyLevelNodes \in Nat \ {0, 1}
  /\ MinLevelSemaphore \in [Calls -> Nat]
  /\ Free \notin Calls

ASSUME ValueAssumption ==
  /\ None \notin Values
  /\ Value \in [Calls -> Values]
  /\ Created \in [Calls -> Values \cup {None}]
  /\ Ttl \in [Calls -> [Nodes -> Nat]]
  /\ Scale \in Nat \ {0}
  /\ Loss \in 0 .. Scale - 1
  /\ MaxTime \in Nat \ {0}

ASSUME AbsentAssumption == Absent \notin [v : Values \cup {None}, d : Nat]

VARIABLES
  now,       \* Date.now()
  store,     \* store[n]: the value and the deadline of n in the stored tree
  expiry,    \* when the storage drops the key, 0 for never
  holder,    \* the call that has the semaphore of the key
  pc,        \* pc[p]: what call p does next
  began,     \* began[p]: the now that p has read
  copy,      \* copy[p]: the tree as p has read and changed it
  put,       \* put[p]: the nodes p has given a value in its copy
  ttl,       \* ttl[p]: the ttl argument of persistTree
  current,   \* current[p]: the ttl that persistTree read for the key
  permanent, \* history: some call stored the tree without a ttl
  outrun,    \* history: the calls that stored since p read the ttl of the key
  overtaken, \* history: the calls that stored since p read the tree
  raced,     \* history: some call that was outrun has stored
  slack      \* history: what rounded ttls may have cost the key

vars == <<now, store, expiry, holder, pc, began, copy, put, ttl, current,
          permanent, outrun, overtaken, raced, slack>>

history == <<permanent, outrun, overtaken, raced, slack>>
-----------------------------------------------------------------------------
Cell(v, d) == [v |-> v, d |-> d]

Empty == [n \in Nodes |-> Absent]

Alive == expiry = 0 \/ now < expiry

\* storage.get
Stored == IF Alive THEN store ELSE Empty

\* ttl * MILLISECOND_SCALE
Ms(s) == s * Scale

\* storage.getCurrentTtl answers in whole seconds: rounded up, or down, by less
\* than a second.
CurrentTtls ==
  IF expiry = 0 \/ ~Alive THEN {0}
  ELSE {s \in 0 .. expiry : expiry - now - Loss <= Ms(s) /\ Ms(s) < expiry - now + Scale}

\* getTreeCurrentSerializedValue
Current(c, t) == IF c = Absent \/ (c.d # 0 /\ c.d <= t) THEN None ELSE c.v

Init ==
  /\ now = 1
  /\ store = Empty
  /\ expiry = 0
  /\ holder = Free
  /\ pc = [p \in Calls |-> "begin"]
  /\ began = [p \in Calls |-> 0]
  /\ copy = [p \in Calls |-> Empty]
  /\ put = [p \in Calls |-> {}]
  /\ ttl = [p \in Calls |-> 0]
  /\ current = [p \in Calls |-> 0]
  /\ permanent = FALSE
  /\ outrun = [p \in Calls |-> {}]
  /\ overtaken = [p \in Calls |-> {}]
  /\ raced = FALSE
  /\ slack = 0

Tick ==
  /\ now < MaxTime
  /\ now' = now + 1
  /\ UNCHANGED <<store, expiry, holder, pc, began, copy, put, ttl, current, history>>
-----------------------------------------------------------------------------
(* What the calls make of the tree.  E: the nodes whose step the consumer   *)
(* gave a value of its own, or that have one in the tree given to           *)
(* fullTreeSet.                                                             *)

\* What step.value of n is when the consumer is done with it.
Left(p, E, n) ==
  LET read == Current(copy[p][n], began[p])
  IN IF n \in E THEN Value[p]
     ELSE IF Kind[p] = "full" THEN None
     ELSE IF read = None THEN Created[p] ELSE read

\* The node as the walk finds it: children that are missing are created, by
\* saveFullTreeValue with the value of createValue.
Found(p, n) ==
  IF copy[p][n] # Absent THEN copy[p][n]
  ELSE Cell(IF Kind[p] = "full" /\ n # Root THEN Created[p] ELSE None, 0)

Differs(p, E, n) == Left(p, E, n) \notin {None, Current(Found(p, n), began[p])}

\* Mutant: the deadline is dropped whether or not the value was replaced.
EnrichedAlways(p, E, n) ==
  [Found(p, n) EXCEPT
     !.v = IF Differs(p, E, n) THEN Left(p, E, n) ELSE @,
     !.d = IF Kind[p] = "full" THEN @
           ELSE IF Differs(p, E, n) /\ n = Target[p] /\ Ttl[p][n] # 0
                THEN began[p] + Ms(Ttl[p][n]) ELSE 0]

\* enrichTree and checkFullSetItemChange.  Only the last step of deepTreeSet is
\* given the ttl; saveFullTreeValue leaves the deadline that is there.
Enriched(p, E, n) ==
  IF ~Differs(p, E, n) THEN Found(p, n)
  ELSE IF Kind[p] = "full" THEN [Found(p, n) EXCEPT !.v = Left(p, E, n)]
  ELSE Cell(Left(p, E, n),
            IF n = Target[p] /\ Ttl[p][n] # 0 THEN began[p] + Ms(Ttl[p][n]) ELSE 0)

\* The call gives n a value.
Puts(p, E, n) ==
  \/ Differs(p, E, n)
  \/ Kind[p] = "full" /\ n # Root /\ copy[p][n] = Absent /\ Created[p] # None

\* What makes the call write the tree back: a value that differs, a child that
\* deepTreeSet created, a value saveFullTreeValue created.
Changes(p, E, n) ==
  \/ Puts(p, E, n)
  \/ n # Root /\ copy[p][n] = Absent /\ Kind[p] = "deep"

\* maxTtl: getTtl for the last step of deepTreeSet, or for every item that
\* fullTreeSet changed.
MaxTtl(p, E) ==
  LET steps == IF Kind[p] = "deep" THEN {Target[p]} ELSE {n \in Visits[p] : Differs(p, E, n)}
  IN IF steps = {} THEN 0
     ELSE CHOOSE m \in {Ttl[p][n] : n \in steps} : \A n \in steps : Ttl[p][n] <= m

\* pruneTree, as PruneTree shows it: expired values and dead branches go.
LiveAt(t, n) == \E m \in Nodes : n \in Above[m] /\ Current(Stored[m], t) # None
Pruned ==
  [n \in Nodes |->
     IF Stored[n] = Absent \/ (n # Root /\ ~LiveAt(now, n)) THEN Absent
     ELSE IF Current(Stored[n], now) = None THEN Cell(None, 0) ELSE Stored[n]]
-----------------------------------------------------------------------------
Goto(p, l) == pc' = [pc EXCEPT ![p] = l]

\* minLevelSemaphore <= currentLevel; prune always takes the semaphore.
Locks(p) == Kind[p] = "prune" \/ MinLevelSemaphore[p] <= KeyLevelNodes

\* dontWait(undefined) has nothing to release.
Leave(p) == IF Locks(p) THEN "release" ELSE "done"

\* The call is past its last use of what it has read and computed.
Drop(p, l) ==
  /\ Goto(p, l)
  /\ began' = [began EXCEPT ![p] = 0]
  /\ copy' = [copy EXCEPT ![p] = Empty]
  /\ put' = [put EXCEPT ![p] = {}]
  /\ ttl' = [ttl EXCEPT ![p] = 0]
  /\ current' = [current EXCEPT ![p] = 0]

\* It goes without storing.
Leaves(p, l) ==
  /\ Drop(p, l)
  /\ outrun' = [outrun EXCEPT ![p] = {}]
  /\ overtaken' = [overtaken EXCEPT ![p] = {}]
  /\ UNCHANGED <<now, store, expiry, holder, permanent, raced, slack>>

\* deepTreeSet reads the clock when it starts, before it waits for anything.
Begin(p) ==
  /\ pc[p] = "begin"
  /\ Kind[p] # "prune"
  /\ began' = [began EXCEPT ![p] = now]
  /\ Goto(p, "acquire")
  /\ UNCHANGED <<now, store, expiry, holder, copy, put, ttl, current, history>>

\* prune reads and prunes the tree without the semaphore, and stops there if
\* pruneTree found nothing to change.
PruneRead(p) ==
  /\ pc[p] = "begin"
  /\ Kind[p] = "prune"
  /\ Stored # Empty
  /\ IF \E n \in Nodes : Stored[n] # Absent /\ Current(Stored[n], now) = None
     THEN copy' = [copy EXCEPT ![p] = Pruned] /\ Goto(p, "acquire")
     ELSE UNCHANGED copy /\ Goto(p, "done")
  /\ UNCHANGED <<now, store, expiry, holder, began, put, ttl, current, history>>

\* The section of the key is entered; saveFullTreeValue reads the clock only now.
EnterSection(p) ==
  /\ pc[p] = "acquire"
  /\ began' = IF Kind[p] = "full" THEN [began EXCEPT ![p] = now] ELSE began
  /\ Goto(p, IF Kind[p] = "prune" THEN "pruneTtl" ELSE "get")
  /\ UNCHANGED <<now, store, expiry, copy, put, ttl, current, history>>

\* Mutant: acquire is called without await.
AcquireNotAwaited(p) == Locks(p) /\ holder' = p /\ EnterSection(p)

\* await semaphore.acquire(chainedKey)
Acquire(p) == Locks(p) /\ holder = Free /\ holder' = p /\ EnterSection(p)

\* minLevelSemaphore > currentLevel
SkipAcquire(p) == ~Locks(p) /\ UNCHANGED holder /\ EnterSection(p)

Get(p) ==
  /\ pc[p] = "get"
  /\ copy' = [copy EXCEPT ![p] = Stored]
  /\ Goto(p, "consume")
  /\ UNCHANGED <<now, store, expiry, holder, began, put, ttl, current, history>>

\* All steps under the key, with the tree changed on the way.  persistTree asks
\* for the ttl of the key only if it was given one.
Consume(p) ==
  /\ pc[p] = "consume"
  /\ \E E \in SUBSET Visits[p] :
       IF \A n \in Visits[p] : ~Changes(p, E, n)
       THEN Leaves(p, Leave(p))
       ELSE /\ copy' = [copy EXCEPT ![p] = [n \in Nodes |->
                          IF n \in Visits[p] THEN Enriched(p, E, n) ELSE @[n]]]
            /\ put' = [put EXCEPT ![p] = {n \in Visits[p] : Puts(p, E, n)}]
            /\ ttl' = [ttl EXCEPT ![p] = MaxTtl(p, E)]
            /\ Goto(p, IF MaxTtl(p, E) = 0 THEN "set" ELSE "ttl")
            /\ UNCHANGED <<now, store, expiry, holder, began, current, history>>

\* prune's own getCurrentTtl: the ttl it will give to persistTree.
PruneTtl(p) ==
  /\ pc[p] = "pruneTtl"
  /\ \E s \in CurrentTtls :
       /\ ttl' = [ttl EXCEPT ![p] = s]
       /\ Goto(p, IF s = 0 THEN "set" ELSE "ttl")
  /\ UNCHANGED <<now, store, expiry, holder, began, copy, put, current, history>>

\* Mutant: a key that is gone or has no ttl is not told apart.
ReadTtlUnchecked(p) ==
  /\ pc[p] = "ttl"
  /\ current' = [current EXCEPT ![p] = (expiry - now) \div Scale]
  /\ Goto(p, "set")
  /\ UNCHANGED <<now, store, expiry, holder, began, copy, put, ttl, history>>

\* getCurrentTtl in persistTree.
ReadTtl(p) ==
  /\ pc[p] = "ttl"
  /\ \E s \in CurrentTtls : current' = [current EXCEPT ![p] = s]
  /\ Goto(p, "set")
  /\ UNCHANGED <<now, store, expiry, holder, began, copy, put, ttl, history>>

\* Mutant: the key gets the ttl of this call alone.
StoredTtlOwn(p) == ttl[p]

\* Math.max(currentTtl, ttl)
StoredTtl(p) == IF current[p] > ttl[p] THEN current[p] ELSE ttl[p]

\* The call works on a tree that it has read.
HasTree(p) ==
  \/ pc[p] \in {"consume", "pruneTtl", "ttl", "set"}
  \/ pc[p] = "acquire" /\ Kind[p] = "prune"

\* storage.set(chainedKey, tree, maxTtl).  It may reject although it was applied,
\* and prune, without a finally block, then never releases.
Set(p) ==
  /\ pc[p] = "set"
  /\ store' = copy[p]
  /\ expiry' = IF ttl[p] = 0 THEN 0 ELSE now + Ms(StoredTtl(p))
  /\ \E l \in {Leave(p)} \cup (IF Kind[p] = "prune" THEN {"leaked"} ELSE {}) : Drop(p, l)
  /\ permanent' = (permanent \/ ttl[p] = 0)
  /\ outrun' = [q \in Calls |-> IF q = p THEN {}
                                ELSE IF pc[q] = "set" THEN outrun[q] \cup {p} ELSE outrun[q]]
  /\ overtaken' = [q \in Calls |-> IF q = p THEN {}
                                   ELSE IF HasTree(q) THEN overtaken[q] \cup {p}
                                   ELSE overtaken[q]]
  /\ raced' = (raced \/ outrun[p] # {})
  /\ slack' = IF now < expiry THEN slack + Loss ELSE slack
  /\ UNCHANGED <<now, holder>>

\* An await rejects with nothing stored, or the consumer stops.
Fail(p) ==
  /\ pc[p] \in {"get", "consume", "pruneTtl", "ttl", "set"}
  /\ Leaves(p, IF Kind[p] = "prune" THEN "leaked" ELSE Leave(p))

\* The tick in which the release scheduled by dontWait runs.
Release(p) ==
  /\ pc[p] = "release"
  /\ holder' = Free
  /\ Goto(p, "done")
  /\ UNCHANGED <<now, store, expiry, began, copy, put, ttl, current, history>>

Step(p) ==
  \/ Begin(p) \/ PruneRead(p) \/ Acquire(p) \/ SkipAcquire(p) \/ Get(p) \/ Consume(p)
  \/ PruneTtl(p) \/ ReadTtl(p) \/ Set(p) \/ Fail(p) \/ Release(p)

Next == Tick \/ \E p \in Calls : Step(p)

Spec == Init /\ [][Next]_vars
-----------------------------------------------------------------------------
(* Properties *)

Cells == {Absent} \cup [v : Values \cup {None}, d : Nat]

\* Typing: ttls and deadlines are never negative, whenever they are computed.
TypeOK ==
  /\ now \in 1 .. MaxTime
  /\ store \in [Nodes -> Cells]
  /\ expiry \in Nat
  /\ holder \in Calls \cup {Free}
  /\ pc \in [Calls -> {"begin", "acquire", "get", "consume", "pruneTtl", "ttl",
                       "set", "release", "leaked", "done"}]
  /\ began \in [Calls -> 0 .. MaxTime]
  /\ copy \in [Calls -> [Nodes -> Cells]]
  /\ put \in [Calls -> SUBSET Nodes]
  /\ ttl \in [Calls -> Nat]
  /\ current \in [Calls -> Nat]
  /\ permanent \in BOOLEAN
  /\ outrun \in [Calls -> SUBSET Calls]
  /\ overtaken \in [Calls -> SUBSET Calls]
  /\ raced \in BOOLEAN
  /\ slack \in Nat

\* The storage keeps the key for as long as some node of it has not reached its
\* deadline, whatever ttl the calls bring and however long they wait between
\* reading the clock, the tree and the ttl, but for the part of a second that a
\* rounded ttl costs at each write of a live key: unless the tree was once stored without a
\* ttl, or by a call that another one had outrun between its read of the ttl and
\* its write.
KeyOutlivesNodes ==
  ~permanent /\ ~raced => \A n \in Nodes :
    store[n] # Absent => store[n].d <= expiry + slack \/ store[n].d <= now

\* A write takes more than the rounding of a ttl from the time a live key still
\* has only if another call stored between its read of the ttl and itself.
KeyNeverShortened ==
  [][now < expiry /\ expiry' # 0 /\ expiry' + Loss < expiry =>
       \E p \in Calls : pc[p] = "set" /\ pc'[p] # "set" /\ outrun[p] # {}]_vars

Expired(c, t) == c # Absent /\ c.d # 0 /\ c.d <= t

\* No call, prune and the calls without a semaphore included, makes a value
\* readable again that has reached its deadline, unless it gives the node a value
\* of its own, or another call stored after it had read the tree.
NoRevival ==
  [][\A n \in Nodes : Expired(store[n], now) /\ Current(store'[n], now) # None =>
       \E p \in Calls : /\ pc[p] = "set" /\ pc'[p] # "set"
                        /\ n \in put[p] \/ overtaken[p] # {}]_vars

\* Of two calls that both take the semaphore, neither stores between the other's
\* read of the ttl and its write, and neither between the other's read of the
\* tree and its write, but for prune, which reads before it acquires: the races
\* the properties above except need a call that takes none, or prune.
LockedNotOutrun ==
  \A p, q \in Calls : Locks(p) /\ Locks(q) =>
    /\ q \notin outrun[p]
    /\ q \in overtaken[p] => Kind[p] = "prune"

-----------------------------------------------------------------------------
(* What the documentation says, and the code does not do. *)

\* "when saving a whole tree into the storage, its key ttl will be the max ttl
\* of all its nodes": no node is dropped with its key before its own deadline,
\* and a tree in which every value has one does not stay for good.
KeyTtlIsMax ==
  LET filled == {n \in Nodes : store[n] # Absent /\ store[n].v # None}
  IN IF expiry = 0 THEN filled = {} \/ \E n \in filled : store[n].d = 0
     ELSE \A n \in filled : store[n].d <= expiry \/ store[n].d <= now

\* "Set all the given values of the informed tree": what fullTreeSet is about to
\* store has every value it was given, readable at the time it began.
GivenValuesReadable ==
  \A p \in Calls : Kind[p] = "full" /\ pc[p] \in {"ttl", "set"} =>
    \A n \in put[p] : Current(copy[p][n], began[p]) # None

===============================================================================
