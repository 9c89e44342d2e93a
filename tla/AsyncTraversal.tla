---------------------------- MODULE AsyncTraversal ----------------------------
(***************************************************************************)
(* The traversals that start at a key level node, or at the root: their    *)
(* children come from storage.getChildren, one await at a time, while      *)
(* other calls register children and store trees.  Pre order over an       *)
(* AsyncQueue or an AsyncStack, and the recursive post order               *)
(* (src/src/utils/graphs/async), over the children AsyncTreeRef reads      *)
(* (src/src/internal/async-tree-ref.ts).                                   *)
(*                                                                         *)
(* A node is the sequence of keys that leads to it.  Below keyLevelNodes a *)
(* node's children are read from the storage; a node at keyLevelNodes is a *)
(* tree that is deserialized when it is read, and does not change then.    *)
(***************************************************************************)
EXTENDS Integers, Sequences, FiniteSets, SequencesExt

CONSTANTS
  KeyLevelNodes,   \* options.keyLevelNodes
  Universe,        \* the nodes there may be, closed under prefixes, without the root
  Registered0,     \* the children that are registered at first
  Stored0,         \* the nodes of the trees that are stored at first
  Bases,           \* the base paths considered, of levels below keyLevelNodes
  Modes            \* the traversals: of {"queue", "stack", "post"}

\* The keys of the paths.
KeyNames == UNION {ToSet(n) : n \in Universe}

ASSUME UniverseAssumption ==
  /\ KeyLevelNodes \in Nat
  /\ Universe \subseteq Seq(KeyNames) /\ IsFiniteSet(Universe)
  /\ \A n \in Universe : Len(n) > 0 /\ \A l \in 1 .. Len(n) : SubSeq(n, 1, l) \in Universe
  /\ Registered0 \subseteq {n \in Universe : Len(n) <= KeyLevelNodes}
  /\ Stored0 \subseteq {n \in Universe : Len(n) >= KeyLevelNodes}
  /\ \A b \in Bases : b \in Universe \cup {<<>>} /\ Len(b) < KeyLevelNodes
  /\ Modes \subseteq {"queue", "stack", "post"}

VARIABLES
  registered, \* the nodes known to getChildren as children of their parents
  stored,     \* the nodes of the stored trees
  mode,       \* which traversal this is
  base,       \* the node it starts at; <<>> when no base path was given
  before,     \* the nodes that could be reached when it started
  list,       \* pre order: entries [type, node], type "item" or "iterator"
  size,       \* pre order: list.length as the list reports it
  frames,     \* post order: the nodes of the recursive calls, innermost last
  iter,       \* iter[n]: the iterator over n's children
  reading,    \* the node whose iterator is asked for its next child
  child,      \* the child whose value is being read
  trees,      \* trees[n]: the nodes of the tree deserialized at n
  out,        \* the nodes yielded
  pc

store == <<registered, stored>>
setup == <<mode, base, before>>
vars == <<store, setup, list, size, frames, iter, reading, child, trees, out, pc>>

-----------------------------------------------------------------------------

AllNodes == Universe \cup {<<>>}

InSubtree(n, m) == IsPrefix(n, m)

InTree(n) == Len(n) >= KeyLevelNodes

\* The children getChildren knows of n, or those in the tree that was read.
ChildrenOf(n) ==
  {c \in IF InTree(n) THEN trees[SubSeq(n, 1, KeyLevelNodes)] ELSE registered :
     Len(c) = Len(n) + 1 /\ InSubtree(n, c)}

\* What a traversal from b can get to: every key level node on the way is
\* registered, and from keyLevelNodes on the nodes are in a stored tree.
Reachable(b) ==
  {n \in Universe :
     /\ InSubtree(b, n) /\ n # b
     /\ \A l \in Len(b) + 1 .. Len(n) :
          /\ l <= KeyLevelNodes => SubSeq(n, 1, l) \in registered
          /\ l >= KeyLevelNodes => SubSeq(n, 1, l) \in stored}

\* must: the children there were when the iterator was opened; given: those it
\* gave.  A child registered later may be given or not.
Closed == [open |-> FALSE, must |-> {}, given |-> {}]

Init ==
  /\ registered = Registered0
  /\ stored = Stored0
  /\ mode \in Modes
  /\ base \in Bases
  /\ before = {}
  /\ list = <<>>
  /\ size = 0
  /\ frames = <<>>
  /\ iter = [n \in AllNodes |-> Closed]
  /\ reading = <<>>
  /\ child = <<>>
  /\ trees = [n \in {m \in Universe : Len(m) = KeyLevelNodes} |-> {}]
  /\ out = <<>>
  /\ pc = "start"

-----------------------------------------------------------------------------
(* The other users of the storage *)

Register ==
  /\ \E n \in Universe \ registered :
       Len(n) <= KeyLevelNodes /\ registered' = registered \cup {n}
  /\ UNCHANGED <<stored, setup, list, size, frames, iter, reading, child, trees, out, pc>>

\* A tree is stored with a further node in it.
Store ==
  /\ \E n \in Universe \ stored :
       /\ InTree(n)
       /\ Len(n) > KeyLevelNodes => Front(n) \in stored
       /\ stored' = stored \cup {n}
  /\ UNCHANGED <<registered, setup, list, size, frames, iter, reading, child, trees, out, pc>>

-----------------------------------------------------------------------------
(* The lists *)

Item(n) == [type |-> "item", node |-> n]
Iterator(n) == [type |-> "iterator", node |-> n]

\* The entry pop() looks at, and the list without it.
Entry == IF mode = "queue" THEN Head(list) ELSE Last(list)
Rest == IF mode = "queue" THEN Tail(list) ELSE Front(list)

\* Mutant: the entry of the base is not told apart.
VisitYieldsBase(n, l, z) ==
  LET children == SetToSeq(ChildrenOf(n))
  IN /\ out' = IF n = <<>> THEN out ELSE Append(out, n)
     /\ list' = CASE InTree(n) -> l \o [i \in DOMAIN children |-> Item(children[i])]
                  [] ~InTree(n) /\ mode = "queue" -> Append(l, Iterator(n))
                  [] OTHER -> l
     /\ size' = z + Len(list') - Len(l)
     /\ reading' = n
     /\ pc' = IF ~InTree(n) /\ mode = "stack" THEN "next" ELSE "loop"

\* Mutant: an iterator is pushed at the head of the queue.
VisitUnshifts(n, l, z) ==
  LET children == SetToSeq(ChildrenOf(n))
  IN /\ out' = IF n = base THEN out ELSE Append(out, n)
     /\ list' = CASE InTree(n) -> l \o [i \in DOMAIN children |-> Item(children[i])]
                  [] ~InTree(n) /\ mode = "queue" -> <<Iterator(n)>> \o l
                  [] OTHER -> l
     /\ size' = z + Len(list') - Len(l)
     /\ reading' = n
     /\ pc' = IF ~InTree(n) /\ mode = "stack" THEN "next" ELSE "loop"

\* The iteration for a node that pop() gave, which leaves the list as l, of length
\* z: the node is yielded unless it is the base, and its children are pushed: one
\* by one those of a tree, as an iterator those of a key level node, which a
\* queue keeps and a stack reads to its end.
Visit(n, l, z) ==
  LET children == SetToSeq(ChildrenOf(n))
  IN /\ out' = IF n = base THEN out ELSE Append(out, n)
     /\ list' = CASE InTree(n) -> l \o [i \in DOMAIN children |-> Item(children[i])]
                  [] ~InTree(n) /\ mode = "queue" -> Append(l, Iterator(n))
                  [] OTHER -> l
     /\ size' = z + Len(list') - Len(l)
     /\ reading' = n
     /\ pc' = IF ~InTree(n) /\ mode = "stack" THEN "next" ELSE "loop"

-----------------------------------------------------------------------------
(* The traversal *)

\* Mutant: the base is yielded first in post order too.
StartYieldsBase ==
  /\ pc = "start"
  /\ before' = Reachable(base)
  /\ out' = IF base = <<>> THEN <<>> ELSE <<base>>
  /\ IF mode = "post"
     THEN frames' = <<base>> /\ reading' = base /\ pc' = "next"
          /\ UNCHANGED <<list, size>>
     ELSE list' = <<Item(base)>> /\ size' = 1 /\ pc' = "loop"
          /\ UNCHANGED <<frames, reading>>
  /\ UNCHANGED <<store, mode, base, iter, child, trees>>

\* The base is yielded first in pre order, and pushed without a key.
Start ==
  /\ pc = "start"
  /\ before' = Reachable(base)
  /\ IF mode = "post"
     THEN frames' = <<base>> /\ reading' = base /\ pc' = "next"
          /\ UNCHANGED <<list, size, out>>
     ELSE list' = <<Item(base)>> /\ size' = 1 /\ pc' = "loop"
          /\ out' = (IF base = <<>> THEN <<>> ELSE <<base>>)
          /\ UNCHANGED <<frames, reading>>
  /\ UNCHANGED <<store, mode, base, iter, child, trees>>

\* pc is "loop" at the test of the loop and "pop" within AsyncQueue.asyncNext.
Popping == (pc = "loop" /\ size > 0) \/ pc = "pop"

\* pop() of a node.
PopItem ==
  /\ Popping
  /\ list # <<>>
  /\ Entry.type = "item"
  /\ Visit(Entry.node, Rest, size - 1)
  /\ UNCHANGED <<store, setup, frames, iter, child, trees>>

\* pop() of an iterator, which stays at the head while it gives nodes.
PopIterator ==
  /\ Popping
  /\ list # <<>>
  /\ Entry.type = "iterator"
  /\ reading' = Entry.node
  /\ pc' = "next"
  /\ UNCHANGED <<store, setup, list, size, frames, iter, child, trees, out>>

\* The loop ends at length 0, or because pop() finds nothing: the length counts
\* the iterators that were removed.
EndPre ==
  /\ \/ pc = "loop" /\ size = 0
     \/ Popping /\ list = <<>>
  /\ pc' = "end"
  /\ UNCHANGED <<store, setup, list, size, frames, iter, reading, child, trees, out>>

\* The first next() of an iterator calls getChildren.
Open ==
  /\ pc = "next"
  /\ ~iter[reading].open
  /\ iter' = [iter EXCEPT ![reading] = [open |-> TRUE, must |-> ChildrenOf(reading), given |-> {}]]
  /\ UNCHANGED <<store, setup, list, size, frames, reading, child, trees, out, pc>>

\* The next child: its value is read now, or it is a node of a tree.
NextChild ==
  /\ pc = "next"
  /\ iter[reading].open
  /\ \E c \in ChildrenOf(reading) \ iter[reading].given :
       /\ iter' = [iter EXCEPT ![reading].given = @ \cup {c}]
       /\ child' = c
       /\ pc' = IF InTree(reading) THEN "deliver" ELSE "fetch"
  /\ UNCHANGED <<store, setup, list, size, frames, reading, trees, out>>

\* await get(): a key level child is always delivered, a tree only if it is stored.
Fetch ==
  /\ pc = "fetch"
  /\ trees' = IF InTree(child)
              THEN [trees EXCEPT ![child] = {n \in stored : InSubtree(child, n)}]
              ELSE trees
  /\ pc' = IF InTree(child) /\ child \notin stored THEN "next" ELSE "deliver"
  /\ UNCHANGED <<store, setup, list, size, frames, iter, reading, child, out>>

\* Mutant: the queue takes a node an iterator gives for an entry of its own.
DeliverCounted ==
  /\ pc = "deliver"
  /\ CASE mode = "queue" ->
            Visit(child, list, size - 1) /\ UNCHANGED frames
       [] mode = "stack" ->
            /\ list' = Append(list, Item(child)) /\ size' = size + 1 /\ pc' = "next"
            /\ UNCHANGED <<frames, reading, out>>
       [] mode = "post" ->
            /\ frames' = Append(frames, child) /\ reading' = child /\ pc' = "next"
            /\ UNCHANGED <<list, size, out>>
  /\ UNCHANGED <<store, setup, iter, child, trees>>

\* Mutant: the stack is pushed the nodes of an iterator at its bottom.
DeliverAtTheBottom ==
  /\ pc = "deliver"
  /\ CASE mode = "queue" ->
            Visit(child, list, size) /\ UNCHANGED frames
       [] mode = "stack" ->
            /\ list' = <<Item(child)>> \o list /\ size' = size + 1 /\ pc' = "next"
            /\ UNCHANGED <<frames, reading, out>>
       [] mode = "post" ->
            /\ frames' = Append(frames, child) /\ reading' = child /\ pc' = "next"
            /\ UNCHANGED <<list, size, out>>
  /\ UNCHANGED <<store, setup, iter, child, trees>>

\* A queue's pop() returns the child, the stack is pushed it, post order calls
\* itself for it.
Deliver ==
  /\ pc = "deliver"
  /\ CASE mode = "queue" ->
            Visit(child, list, size) /\ UNCHANGED frames
       [] mode = "stack" ->
            /\ list' = Append(list, Item(child)) /\ size' = size + 1 /\ pc' = "next"
            /\ UNCHANGED <<frames, reading, out>>
       [] mode = "post" ->
            /\ frames' = Append(frames, child) /\ reading' = child /\ pc' = "next"
            /\ UNCHANGED <<list, size, out>>
  /\ UNCHANGED <<store, setup, iter, child, trees>>

\* The iterator may be done when it gave what there was as it was opened.
Done == pc = "next" /\ iter[reading].open /\ iter[reading].must \subseteq iter[reading].given

\* Mutant: the node that holds the iterator stays in the queue.
ExhaustKeepsNode ==
  /\ mode = "queue"
  /\ Done
  /\ pc' = "pop"
  /\ UNCHANGED <<store, setup, list, size, frames, iter, reading, child, trees, out>>

\* AsyncQueue.asyncNext: the iterator is removed, the length is not changed, and
\* the next entry is popped.
Exhaust ==
  /\ mode = "queue"
  /\ Done
  /\ list' = Tail(list)
  /\ pc' = "pop"
  /\ UNCHANGED <<store, setup, size, frames, iter, reading, child, trees, out>>

\* AsyncStack.addIterable returns.
Drained ==
  /\ mode = "stack"
  /\ Done
  /\ pc' = "loop"
  /\ UNCHANGED <<store, setup, list, size, frames, iter, reading, child, trees, out>>

\* A recursive call yields its node and returns; the base comes last.
Ascend ==
  /\ mode = "post"
  /\ Done
  /\ frames' = Front(frames)
  /\ IF Len(frames) = 1
     THEN out' = (IF base = <<>> THEN out ELSE Append(out, base)) /\ pc' = "end" /\ UNCHANGED reading
     ELSE out' = Append(out, reading) /\ reading' = Last(Front(frames)) /\ UNCHANGED pc
  /\ UNCHANGED <<store, setup, list, size, iter, child, trees>>

\* getChildren, get or deserialize throws: so does the traversal.
Throw ==
  /\ \/ pc = "next" /\ ~InTree(reading)
     \/ pc = "fetch"
  /\ pc' = "failed"
  /\ UNCHANGED <<store, setup, list, size, frames, iter, reading, child, trees, out>>

Step ==
  \/ Start \/ PopItem \/ PopIterator \/ EndPre
  \/ Open \/ NextChild \/ Fetch \/ Deliver
  \/ Exhaust \/ Drained \/ Ascend

Ended == pc \in {"end", "failed"} /\ UNCHANGED vars

Next == Register \/ Store \/ Step \/ Throw \/ Ended

Spec == Init /\ [][Next]_vars

\* The caller asks for the next node until there is none, and what the storage
\* is asked for it answers.
FairSpec == Spec /\ WF_vars(Step)

-----------------------------------------------------------------------------
(* Properties *)

\* No node is yielded twice, whatever is registered or stored meanwhile
\* (pushIterable, AsyncTreeRef: each iterator is read once).
NoRepetition == IsInjective(out)

\* A traversal that ends has yielded all there was when it started, and nothing
\* that is neither the base nor there now: the length the queue gets wrong never
\* ends the loop too early.
Complete ==
  /\ pc = "end" => before \subseteq ToSet(out)
  /\ ToSet(out) \ {base} \subseteq Reachable(base)

\* A node comes after all its ancestors in pre order, before them in post order.
AncestorOrder ==
  \A i, j \in DOMAIN out :
    out[i] # out[j] /\ InSubtree(out[i], out[j]) => IF mode = "post" THEN j < i ELSE i < j

\* A queue yields level by level, over key levels and trees alike, though the
\* iterators of a level are read while the next level is visited.
BreadthOrder ==
  mode = "queue" => \A i, j \in DOMAIN out : i < j => Len(out[i]) <= Len(out[j])

\* A stack and the recursion yield each subtree without interruption.
DepthOrder ==
  mode \in {"stack", "post"} =>
    \A i, j, k \in DOMAIN out : \A n \in Universe :
      i < j /\ j < k /\ InSubtree(n, out[i]) /\ InSubtree(n, out[k]) => InSubtree(n, out[j])

\* Every traversal comes to an end, also while nodes are being added.
Terminates == <>(pc \in {"end", "failed"})

=============================================================================
