------------------------------- MODULE Readers -------------------------------
(***************************************************************************)
(* The readers iteratePath and getNode (src/src/tree-key-cache.ts,         *)
(* getNodeRef of src/src/internal/tree-internal-control.ts) next to        *)
(* writers, with a memoizer (src/src/internal/get-memoized.ts) and with or *)
(* without node history (src/src/internal/multi-tree-ref.ts).              *)
(*                                                                         *)
(* All calls read prefixes of one path; the storage keys on it are the     *)
(* levels 1 .. keyLevelNodes.  An entry of a key gives the cell of every   *)
(* level kept under it.  Without a memoizer every call is a context of its *)
(* own: no call asks for a key twice.  A consumer that stops just takes no *)
(* more steps.                                                             *)
(***************************************************************************)
EXTENDS Integers, Sequences, SequencesExt

CONSTANTS
  KeyLevelNodes,   \* the level from which whole trees are stored
  Depth,           \* the deepest level of the path
  Calls,           \* the concurrent calls
  Contexts,        \* the memoizer's contexts
  Scenarios,       \* the calls considered: Calls -> kind, length, context
  Entries,         \* Entries[k]: what may be written to key k, level -> cell, or Bad
  Gone, None,      \* cells: no node, no value; a number is a value's deadline, 0 for none
  Bad,             \* an entry that cannot be deserialized
  MaxWrites,       \* MaxWrites[k]: bound of the entries of key k
  MaxTime          \* bound of the clock

Keys == 1 .. KeyLevelNodes

ASSUME ReaderAssumption ==
  /\ KeyLevelNodes \in Nat \ {0} /\ Depth \in Nat /\ KeyLevelNodes <= Depth
  /\ Scenarios \subseteq
       [Calls -> [kind : {"iterate", "node"}, length : 1 .. Depth, context : Contexts]]
  /\ Gone # None
  /\ MaxWrites \in [Keys -> Nat] /\ MaxTime \in Nat \ {0}

VARIABLES
  call,     \* call[p]: "iterate" for iteratePath or "node" for getNode, the number
            \* of keys of the path it was given, the context it runs in
  now,      \* Date.now()
  storage,  \* storage[k]: the entries written to key k, the newest last
  history,  \* the storage has getHistory
  memo,     \* memo[c][k]: the promise that context c keeps for key k
  pc,       \* pc[p]: what call p does next
  at,       \* at[p]: the level p is at
  began,    \* began[p]: the now that p has read
  trees,    \* trees[p]: the entries whose trees have the node p is at
  steps,    \* steps[p]: the steps given to the consumer
  reads,    \* history: reads[c][k]: how often context c has read key k
  floor     \* history: floor[c][k]: the entries of k when the first call of c began

vars == <<call, now, storage, history, memo, pc, at, began, trees, steps, reads, floor>>

\* n: how many entries the key had when it was read; t: the now of the first reader;
\* lost: reading the entries failed, and the promise was fulfilled without a value.
Promise(state, n, t) == [state |-> state, n |-> n, t |-> t, lost |-> FALSE]

Init ==
  /\ call \in Scenarios
  /\ now = 1
  /\ storage = [k \in Keys |-> <<>>]
  /\ history \in BOOLEAN
  /\ memo = [c \in Contexts |-> [k \in Keys |-> Promise("none", 0, 0)]]
  /\ pc = [p \in Calls |-> "begin"]
  /\ at = [p \in Calls |-> 0]
  /\ began = [p \in Calls |-> 0]
  /\ trees = [p \in Calls |-> {}]
  /\ steps = [p \in Calls |-> <<>>]
  /\ reads = [c \in Contexts |-> [k \in Keys |-> 0]]
  /\ floor = [c \in Contexts |-> [k \in Keys |-> 0]]

\* Nothing that happens later matters: a bound on the clock and the writers.
Ended == \A p \in Calls : pc[p] \in {"done", "failed"}

Tick ==
  /\ now < MaxTime
  /\ ~Ended
  /\ now' = now + 1
  /\ UNCHANGED <<call, storage, history, memo, pc, at, began, trees, steps, reads, floor>>

\* A writer replaces everything under a key; the history keeps what was there.
Write(k) ==
  /\ Len(storage[k]) < MaxWrites[k]
  /\ ~Ended
  /\ \E e \in Entries[k] : storage' = [storage EXCEPT ![k] = Append(@, e)]
  /\ UNCHANGED <<call, now, history, memo, pc, at, began, trees, steps, reads, floor>>
-----------------------------------------------------------------------------
\* The entries a read gives, of the n that have been written: getHistory gives
\* all of them, get the last one.
Versions(n) == IF history THEN 1 .. n ELSE {n} \ {0}

\* What the promise m was fulfilled with can be used: one entry that cannot be
\* deserialized spoils a whole list, and so does a list that fails on the way.
Readable(k, m) == ~m.lost /\ \A v \in Versions(m.n) : storage[k][v] # Bad

\* With history there always is a list, though it may be empty.
IsThere(n) == history \/ n > 0

\* vals: the entries the value was made from, none if it is undefined.
StepOf(l, vals, n) == [level |-> l, vals |-> vals, n |-> n]

\* getMemoizedStep, and what getNodeRef makes of the buffer of a key level node:
\* a value that cannot be deserialized is undefined.
KeySteps(k, m) ==
  IF IsThere(m.n) THEN <<StepOf(k, IF Readable(k, m) THEN Versions(m.n) ELSE {}, m.n)>>
  ELSE <<>>

\* getTreeCurrentSerializedValue at time t, for the node of level l.
IsLive(v, l, t) ==
  LET cell == storage[KeyLevelNodes][v][l]
  IN cell \notin {Gone, None} /\ (cell = 0 \/ cell > t)
-----------------------------------------------------------------------------
\* Mutant: getNode looks for a tree even if its path ends above one.
FirstKeyUnbounded(p) == IF call[p].kind = "node" THEN KeyLevelNodes ELSE 1

\* The first key a call reads: getNode goes straight to the last one of its path;
\* iteratePath does nothing if there are no key level nodes above the trees.
FirstKey(p) ==
  IF call[p].kind = "node" THEN (IF call[p].length < KeyLevelNodes THEN call[p].length ELSE KeyLevelNodes)
  ELSE IF KeyLevelNodes = 1 THEN 0 ELSE 1

Begin(p) ==
  /\ pc[p] = "begin"
  /\ began' = [began EXCEPT ![p] = now]
  /\ at' = [at EXCEPT ![p] = FirstKey(p)]
  /\ pc' = [pc EXCEPT ![p] = IF FirstKey(p) = 0 THEN "done" ELSE "read"]
  /\ floor' = IF \A q \in Calls : call[q].context = call[p].context => pc[q] = "begin"
              THEN [floor EXCEPT ![call[p].context] = [k \in Keys |-> Len(storage[k])]]
              ELSE floor
  /\ UNCHANGED <<call, now, storage, history, memo, trees, steps, reads>>

\* Mutant: the memoizer is not told apart by context.
MemoizerOne(p) == CHOOSE c \in Contexts : TRUE

\* The context whose memoizer answers p.
Memoizer(p) == call[p].context

Count(p) == reads' = [reads EXCEPT ![call[p].context][at[p]] = @ + 1]

\* getNode reads a key level node without the memoizer, and a history outside
\* the try blocks.
Direct(p) ==
  /\ pc[p] = "read"
  /\ call[p].kind = "node" /\ at[p] < KeyLevelNodes
  /\ Count(p)
  /\ \/ /\ steps' = [steps EXCEPT ![p] = KeySteps(at[p], Promise("ok", Len(storage[at[p]]), 0))]
        /\ pc' = [pc EXCEPT ![p] = "done"]
     \/ pc' = [pc EXCEPT ![p] = "failed"] /\ UNCHANGED steps
  /\ UNCHANGED <<call, now, storage, history, memo, at, began, trees, floor>>

\* Mutant: only a promise that has been fulfilled is found.
KnownFulfilled(p) == memo[Memoizer(p)][at[p]].state = "ok"

\* memoizer.get: the promise is there from the moment the read was started.
Known(p) == memo[Memoizer(p)][at[p]].state # "none"

\* getMemoizedStep or getMemoizedTree is called: runAndMemoize, if need be.
Read(p) ==
  /\ pc[p] = "read"
  /\ call[p].kind = "iterate" \/ at[p] = KeyLevelNodes
  /\ IF Known(p) THEN UNCHANGED <<memo, reads>>
     ELSE /\ memo' = [memo EXCEPT ![Memoizer(p)][at[p]] = Promise("pending", 0, began[p])]
          /\ Count(p)
  /\ pc' = [pc EXCEPT ![p] = "await"]
  /\ UNCHANGED <<call, now, storage, history, at, began, trees, steps, floor>>

\* The promise of a read is settled.  It is rejected if get fails, or the call of
\* getHistory; an error while the entries of a history are read is caught where
\* they are deserialized, and the promise is fulfilled with undefined.
Settle(c, k) ==
  /\ memo[c][k].state = "pending"
  /\ \/ \E lost \in {FALSE, history} :
          memo' = [memo EXCEPT ![c][k] =
                     [@ EXCEPT !.state = "ok", !.n = Len(storage[k]), !.lost = lost]]
     \/ memo' = [memo EXCEPT ![c][k] = [@ EXCEPT !.state = "rejected"]]
  /\ UNCHANGED <<call, now, storage, history, pc, at, began, trees, steps, reads, floor>>

\* Mutant: an error is not passed on to the calls that wait.
SettledFulfilled(p) == memo[Memoizer(p)][at[p]].state = "ok"

Settled(p) == memo[Memoizer(p)][at[p]].state \in {"ok", "rejected"}

\* The await ends: the step of a key level node is yielded, the walk of a tree
\* starts.
Resume(p) ==
  /\ pc[p] = "await"
  /\ Settled(p)
  /\ LET promise == memo[Memoizer(p)][at[p]]
     IN IF promise.state = "rejected"
        THEN pc' = [pc EXCEPT ![p] = "failed"] /\ UNCHANGED <<at, trees, steps>>
        ELSE IF at[p] < KeyLevelNodes
        THEN /\ steps' = [steps EXCEPT ![p] = @ \o KeySteps(at[p], promise)]
             /\ IF at[p] < call[p].length
                THEN at' = [at EXCEPT ![p] = @ + 1] /\ pc' = [pc EXCEPT ![p] = "read"]
                ELSE pc' = [pc EXCEPT ![p] = "done"] /\ UNCHANGED at
             /\ UNCHANGED trees
        ELSE /\ IF IsThere(promise.n) /\ Readable(at[p], promise)
                THEN /\ trees' = [trees EXCEPT ![p] = Versions(promise.n)]
                     /\ pc' = [pc EXCEPT ![p] = "walk"]
                ELSE pc' = [pc EXCEPT ![p] = "done"] /\ UNCHANGED trees
             /\ UNCHANGED <<at, steps>>
  /\ UNCHANGED <<call, now, storage, history, memo, began, reads, floor>>

\* The children of the tree of an entry; MultiTreeRef puts those with one key together.
HasNode(v, l) == storage[KeyLevelNodes][v][l] # Gone

\* Mutant: of the children with one key only the first is kept.
BelowFirst(p) ==
  LET all == {v \in trees[p] : HasNode(v, at[p] + 1)}
  IN {v \in all : \A w \in all : v <= w}

\* The node below, for the next key of the path.
Below(p) == {v \in trees[p] : HasNode(v, at[p] + 1)}

\* Mutant: the deadlines of a history are not looked at.
ValuesUndated(p) ==
  {v \in trees[p] : IsLive(v, at[p], IF history THEN 0 ELSE began[p])}

\* The value of a node: MultiTreeRef keeps the now it was made with, which is the
\* one of the first call that read the key.
Values(p) ==
  LET t == IF history THEN memo[Memoizer(p)][KeyLevelNodes].t ELSE began[p]
  IN {v \in trees[p] : IsLive(v, at[p], t)}

\* iteratePath yields on the way, getNode at the end; a list counts as a value.
Yields(p) ==
  /\ call[p].kind = "iterate" \/ at[p] = call[p].length
  /\ history \/ Values(p) # {}

\* One level of the walk.
Walk(p) ==
  /\ pc[p] = "walk"
  /\ steps' =
       IF Yields(p)
       THEN [steps EXCEPT ![p] =
               Append(@, StepOf(at[p], Values(p), memo[Memoizer(p)][KeyLevelNodes].n))]
       ELSE steps
  /\ IF at[p] < call[p].length /\ Below(p) # {}
     THEN /\ at' = [at EXCEPT ![p] = @ + 1]
          /\ trees' = [trees EXCEPT ![p] = Below(p)]
          /\ UNCHANGED pc
     ELSE /\ pc' = [pc EXCEPT ![p] = "done"]
          /\ trees' = [trees EXCEPT ![p] = {}]
          /\ UNCHANGED at
  /\ UNCHANGED <<call, now, storage, history, memo, began, reads, floor>>
-----------------------------------------------------------------------------
Step(p) == Begin(p) \/ Direct(p) \/ Read(p) \/ Resume(p) \/ Walk(p)

Next ==
  \/ Tick
  \/ \E k \in Keys : Write(k)
  \/ \E p \in Calls : Step(p)
  \/ \E c \in Contexts, k \in Keys : Settle(c, k)
  \/ Ended /\ UNCHANGED vars

\* Promises settle, and consumers ask for the next step.
Spec ==
  /\ Init /\ [][Next]_vars
  /\ \A p \in Calls : WF_vars(Step(p))
  /\ \A c \in Contexts, k \in Keys : WF_vars(Settle(c, k))
-----------------------------------------------------------------------------
(* Properties *)

\* Typing; no call goes past the end of its path.
TypeOK ==
  /\ now \in 1 .. MaxTime
  /\ \A k \in Keys : Len(storage[k]) <= MaxWrites[k]
  /\ \A c \in Contexts, k \in Keys : memo[c][k].state \in {"none", "pending", "ok", "rejected"}
  /\ pc \in [Calls -> {"begin", "read", "await", "walk", "done", "failed"}]
  /\ \A p \in Calls : at[p] \in 0 .. call[p].length
  /\ \A p \in Calls : trees[p] \subseteq 1 .. MaxWrites[KeyLevelNodes]

\* "avoid reading the same key twice in the same memoizer context": not even if
\* calls ask for it at the same time, except for a getNode that ends at a key
\* level node.
ReadOnce ==
  \A c \in Contexts, k \in Keys :
    \/ reads[c][k] <= 1
    \/ \E p \in Calls : call[p].context = c /\ call[p].kind = "node" /\ call[p].length = k /\ k < KeyLevelNodes

\* A step is never older than its context: what had been written when the first
\* call of the context began has been seen.
FreshInContext ==
  \A p \in Calls : \A i \in DOMAIN steps[p] :
    LET l == steps[p][i].level
        k == IF l < KeyLevelNodes THEN l ELSE KeyLevelNodes
    IN steps[p][i].n >= floor[call[p].context][k]

\* The entries under which the path leads to level l.
Leading(l, n) == {v \in Versions(n) : \A j \in KeyLevelNodes + 1 .. l : HasNode(v, j)}

\* What a call that was promised m for the tree level key gives for level l, with
\* values live at time t.
TreeSteps(l, m, t) ==
  LET vals == {v \in Leading(l, m.n) : IsLive(v, l, t)}
  IN IF \/ ~Readable(KeyLevelNodes, m)
        \/ history /\ l > KeyLevelNodes /\ Leading(l, m.n) = {}
        \/ ~history /\ vals = {}
     THEN {} ELSE {StepOf(l, vals, m.n)}

\* iteratePath gives exactly the nodes of the path that are live in what was read
\* for its context, from the top; getNode gives exactly the last of them, and so
\* both agree.  A value is live at the call's own now, with history at the now of
\* the first call of the context.  A history that could not be read or deserialized
\* counts as a node without a value above the trees, and as no tree at all below:
\* the call ends all the same, and so does every other one of its context.  Left
\* out are a getNode that ends above the trees and an iteratePath that does nothing
\* (see FirstKey).
WalkExact ==
  \A p \in Calls :
    /\ pc[p] = "done"
    /\ IF call[p].kind = "node" THEN call[p].length >= KeyLevelNodes ELSE FirstKey(p) # 0
    =>
      LET m == memo[call[p].context]
          t == IF history THEN m[KeyLevelNodes].t ELSE began[p]
          first == IF call[p].kind = "node" THEN call[p].length ELSE 1
      IN /\ \A i, j \in DOMAIN steps[p] : i < j => steps[p][i].level < steps[p][j].level
         /\ ToSet(steps[p]) =
              UNION {IF l < KeyLevelNodes THEN ToSet(KeySteps(l, m[l]))
                     ELSE TreeSteps(l, m[KeyLevelNodes], t) : l \in first .. call[p].length}

\* A value that had expired when a call began is given to it only with history, and
\* only if it was live when another call of the same context began.
LiveInContext ==
  \A p \in Calls : \A i \in DOMAIN steps[p] :
    LET x == steps[p][i]
    IN x.level >= KeyLevelNodes => \E q \in Calls :
         /\ IF history THEN call[q].context = call[p].context /\ pc[q] # "begin" ELSE q = p
         /\ \A v \in x.vals : IsLive(v, x.level, began[q])

\* Every call ends, also if the read it waits for was started by another call and
\* is rejected.
ReadersEnd == <>[]Ended

=============================================================================
