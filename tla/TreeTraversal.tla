---------------------------- MODULE TreeTraversal ----------------------------
(***************************************************************************)
(* The traversals of a tree that is in memory (src/src/utils/graphs): pre  *)
(* order over a Queue or a stack, and post order.  Each is a generator;    *)
(* one action is the code between two of its resumptions, or one iteration *)
(* of its loop.                                                            *)
(*                                                                         *)
(* A node is the sequence of keys that leads to it from the root of the    *)
(* tree, which is <<>>.  A tree is a set of nodes closed under prefixes.   *)
(***************************************************************************)
EXTENDS Integers, Sequences, FiniteSets, SequencesExt

CONSTANTS
  Keys,       \* the keys of the children
  MaxLevel,   \* depth of the trees considered
  Modes       \* of {"queue", "stack", "post"}: the traversals considered

ASSUME KeysAssumption ==
  /\ IsFiniteSet(Keys)
  /\ MaxLevel \in Nat
  /\ Modes \subseteq {"queue", "stack", "post"}

VARIABLES
  tree,   \* the tree that is traversed
  mode,   \* the traversal: pre order with a "queue" or a "stack", or "post" order
  based,  \* the traversal was given the node reference of the root
  list,   \* pre order: the nodes pushed and not popped yet
  frames, \* post order: the recursive calls under way, innermost last
  out,    \* the nodes yielded so far
  pc      \* "start", "loop" or "end"

vars == <<tree, mode, based, list, frames, out, pc>>

Root == <<>>

AllNodes == UNION {[1 .. l -> Keys] : l \in 0 .. MaxLevel}

\* Every tree whose nodes have their parents in it.
Trees == {t \in SUBSET AllNodes :
            Root \in t /\ \A n \in t : n # Root => Front(n) \in t}

InSubtree(n, m) == IsPrefix(n, m)

Children(n) == {c \in tree : Len(c) = Len(n) + 1 /\ InSubtree(n, c)}

\* The children of a node as "for (const key in children)" gives them: each once,
\* in an order that is not known.
ChildrenOf(n) == SetToSeq(Children(n))

Init ==
  /\ tree \in Trees
  /\ mode \in Modes
  /\ based \in BOOLEAN
  /\ list = <<>>
  /\ frames = <<>>
  /\ out = <<>>
  /\ pc = "start"

-----------------------------------------------------------------------------
(* Pre order *)

\* treePreOrderTraversal up to its loop: the root is yielded only if its node
\* reference was given, and pushed without a key.
StartPre ==
  /\ mode \in {"queue", "stack"}
  /\ pc = "start"
  /\ out' = IF based THEN <<Root>> ELSE <<>>
  /\ list' = <<Root>>
  /\ pc' = "loop"
  /\ UNCHANGED <<tree, mode, based, frames>>

\* Queue.pop and Array.pop.
Popped == IF mode = "queue" THEN Head(list) ELSE Last(list)
Rest == IF mode = "queue" THEN Tail(list) ELSE Front(list)

\* Mutant: the queue is pushed to at its head.
VisitPreUnshift ==
  /\ mode \in {"queue", "stack"}
  /\ pc = "loop"
  /\ list # <<>>
  /\ out' = IF Popped = Root THEN out ELSE Append(out, Popped)
  /\ list' = IF mode = "queue" THEN ChildrenOf(Popped) \o Rest ELSE Rest \o ChildrenOf(Popped)
  /\ UNCHANGED <<tree, mode, based, frames, pc>>

\* Mutant: the depth first search is given a queue too.
VisitPreShift ==
  /\ mode \in {"queue", "stack"}
  /\ pc = "loop"
  /\ list # <<>>
  /\ out' = IF Head(list) = Root THEN out ELSE Append(out, Head(list))
  /\ list' = Tail(list) \o ChildrenOf(Head(list))
  /\ UNCHANGED <<tree, mode, based, frames, pc>>

\* Mutant: the children of a node are pushed before the root entry is told apart,
\* and a root reference that was given is visited again.
VisitPreRootAgain ==
  /\ mode \in {"queue", "stack"}
  /\ pc = "loop"
  /\ list # <<>>
  /\ out' = IF Popped = Root /\ ~based THEN out ELSE Append(out, Popped)
  /\ list' = Rest \o ChildrenOf(Popped)
  /\ UNCHANGED <<tree, mode, based, frames, pc>>

\* One iteration: pop, yield unless it is the root entry, push the children.
VisitPre ==
  /\ mode \in {"queue", "stack"}
  /\ pc = "loop"
  /\ list # <<>>
  /\ out' = IF Popped = Root THEN out ELSE Append(out, Popped)
  /\ list' = Rest \o ChildrenOf(Popped)
  /\ UNCHANGED <<tree, mode, based, frames, pc>>

EndPre ==
  /\ mode \in {"queue", "stack"}
  /\ pc = "loop"
  /\ list = <<>>
  /\ pc' = "end"
  /\ UNCHANGED <<tree, mode, based, list, frames, out>>

-----------------------------------------------------------------------------
(* Post order *)

Frame(n) == [node |-> n, todo |-> ChildrenOf(n)]

\* The list is pushed to and never popped: queue and stack make no difference.
StartPost ==
  /\ mode = "post"
  /\ pc = "start"
  /\ frames' = <<Frame(Root)>>
  /\ pc' = "loop"
  /\ UNCHANGED <<tree, mode, based, list, out>>

\* Mutant: the node is yielded before its last child is visited.
DescendInOrder ==
  /\ mode = "post"
  /\ pc = "loop"
  /\ frames # <<>>
  /\ Last(frames).todo # <<>>
  /\ LET top == Last(frames)
         child == Head(top.todo)
     IN IF Len(top.todo) = 1 /\ Len(frames) > 1
        THEN /\ frames' = Append(Front(frames), Frame(child))
             /\ out' = Append(out, top.node)
        ELSE /\ frames' = Append([frames EXCEPT ![Len(frames)].todo = Tail(@)], Frame(child))
             /\ UNCHANGED out
  /\ UNCHANGED <<tree, mode, based, list, pc>>

\* The recursive call for the next child.
Descend ==
  /\ mode = "post"
  /\ pc = "loop"
  /\ frames # <<>>
  /\ Last(frames).todo # <<>>
  /\ LET child == Head(Last(frames).todo)
     IN /\ frames' = Append([frames EXCEPT ![Len(frames)].todo = Tail(@)], Frame(child))
        /\ list' = Append(list, child)
  /\ UNCHANGED <<tree, mode, based, out, pc>>

\* The children are done: the node is yielded, unless it is the root entry.
Ascend ==
  /\ mode = "post"
  /\ pc = "loop"
  /\ Len(frames) > 1
  /\ Last(frames).todo = <<>>
  /\ out' = Append(out, Last(frames).node)
  /\ frames' = Front(frames)
  /\ UNCHANGED <<tree, mode, based, list, pc>>

\* The root comes last, if its node reference was given.
EndPost ==
  /\ mode = "post"
  /\ pc = "loop"
  /\ Len(frames) = 1
  /\ Last(frames).todo = <<>>
  /\ frames' = <<>>
  /\ out' = IF based THEN Append(out, Root) ELSE out
  /\ pc' = "end"
  /\ UNCHANGED <<tree, mode, based, list>>

Next ==
  \/ StartPre \/ VisitPre \/ EndPre
  \/ StartPost \/ Descend \/ Ascend \/ EndPost
  \/ (pc = "end" /\ UNCHANGED vars)

Spec == Init /\ [][Next]_vars

-----------------------------------------------------------------------------
(* Properties *)

\* A traversal never yields a node twice, and it ends having yielded every
\* node; the root is there exactly when its node reference was given.
EachOnce ==
  /\ IsInjective(out)
  /\ pc = "end" => ToSet(out) = IF based THEN tree ELSE tree \ {Root}

\* A node comes after all its ancestors in pre order, before them in post order.
AncestorOrder ==
  \A i, j \in DOMAIN out :
    /\ out[i] # out[j]
    /\ InSubtree(out[i], out[j])
    => IF mode = "post" THEN j < i ELSE i < j

\* A queue yields the nodes level by level.
BreadthOrder ==
  mode = "queue" => \A i, j \in DOMAIN out : i < j => Len(out[i]) <= Len(out[j])

\* A stack and the recursion yield each subtree without interruption.
DepthOrder ==
  mode \in {"stack", "post"} =>
    \A i, j, k \in DOMAIN out : \A n \in tree :
      /\ i < j /\ j < k
      /\ InSubtree(n, out[i]) /\ InSubtree(n, out[k])
      => InSubtree(n, out[j])

=============================================================================
