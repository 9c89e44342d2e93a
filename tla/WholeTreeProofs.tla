--------------------------- MODULE WholeTreeProofs ---------------------------
(***************************************************************************)
(* Proofs about the traversals of trees in memory and the two loops that   *)
(* follow them, for every tree: each node is yielded once, none is missed, *)
(* and the nodes come in the order the name of the search says; pruneTree  *)
(* removes exactly what is expired or empty and reports it; and            *)
(* deserializeWholeTree copies the whole tree.                             *)
(***************************************************************************)
EXTENDS WholeTree, PathLemmas, WellFoundedInduction

-----------------------------------------------------------------------------
(* The inductive invariant *)

Frames == [node : tree, todo : Seq(tree)]

Typing ==
  /\ tree \in Trees /\ mode \in {"queue", "stack", "post"} /\ based \in BOOLEAN
  /\ list \in Seq(tree) /\ out \in Seq(tree) /\ frames \in Seq(Frames)
  /\ pc \in {"start", "loop", "end"}
  /\ pc = "start" => list = <<>> /\ frames = <<>> /\ out = <<>>

\* Pre order: the nodes whose children have been pushed.
Entered == (ToSet(out) \cup {Root}) \ ToSet(list)

\* A node is pushed when its parent is popped, which happens once.
PreInv ==
  mode # "post" /\ pc # "start" =>
    /\ IsInjective(out) /\ IsInjective(list)
    /\ ToSet(out) \cap ToSet(list) \subseteq {Root}
    /\ Root \in ToSet(out) <=> based
    /\ \A n \in ToSet(out) \cup ToSet(list) : \A m \in tree :
         InSubtree(m, n) /\ m # n => m \in Entered
    /\ \A n \in Entered : Children(n) \subseteq ToSet(out) \cup ToSet(list)
    /\ pc = "end" => list = <<>>

\* A queue holds the rest of one level and the beginning of the next.
QueueInv ==
  mode = "queue" =>
    /\ \A i, j \in DOMAIN list : i <= j => Len(list[i]) <= Len(list[j])
    /\ \A i, j \in DOMAIN list : Len(list[j]) <= Len(list[i]) + 1
    /\ \A i \in DOMAIN out, j \in DOMAIN list : Len(out[i]) <= Len(list[j])

\* Once the subtree of n was entered, nothing else was yielded.
Unbroken(n) == \A i, j \in DOMAIN out : i < j /\ InSubtree(n, out[i]) => InSubtree(n, out[j])

\* What is above an entry of a stack belongs to the subtree of the entry's parent.
StackInv ==
  mode = "stack" =>
    /\ \A i, j \in DOMAIN list : i < j => InSubtree(Front(list[i]), list[j])
    /\ \A i \in DOMAIN list : \A n \in tree : InSubtree(n, list[i]) /\ n # list[i] => Unbroken(n)

\* Post order: the nodes of the calls, and all that the recursion has got to.
Called == {frames[i].node : i \in DOMAIN frames}
Reached == ToSet(out) \cup Called

\* The calls are the way from the root to the innermost of them; what a call has
\* still to do was not reached, and the rest of its children was.
PostInv ==
  mode = "post" /\ pc = "loop" =>
    /\ frames # <<>> /\ IsInjective(out) /\ Called \cap ToSet(out) = {}
    /\ \A i \in DOMAIN frames :
         /\ Len(frames[i].node) = i - 1
         /\ IsInjective(frames[i].todo)
         /\ ToSet(frames[i].todo) \subseteq Children(frames[i].node) \ Reached
         /\ Children(frames[i].node) \subseteq ToSet(frames[i].todo) \cup Reached
         /\ \A n \in tree : InSubtree(n, frames[i].node) => Unbroken(n)
    /\ \A i, j \in DOMAIN frames : i <= j => InSubtree(frames[i].node, frames[j].node)
    /\ \A n \in ToSet(out) : Children(n) \subseteq ToSet(out)
    /\ \A n \in Reached : \A m \in tree : InSubtree(m, n) /\ m # n => m \in Reached

IInv ==
  /\ Typing /\ PreInv /\ QueueInv /\ StackInv /\ PostInv
  /\ EachOnce /\ AncestorOrder /\ BreadthOrder /\ DepthOrder

-----------------------------------------------------------------------------
(* Trees *)

\* The nodes of a tree are sequences of keys, and have their parents in it.
LEMMA TreeFacts ==
  ASSUME Typing
  PROVE  /\ tree \subseteq Seq(Keys) /\ Root \in tree /\ Len(Root) = 0
         /\ \A n \in tree : Len(n) \in Nat /\ (n # Root <=> Len(n) > 0)
         /\ \A n \in tree : n # Root => Front(n) \in tree
         /\ \A n \in tree : InSubtree(Root, n)
<1>1. tree \subseteq AllNodes /\ Root \in tree /\ \A n \in tree : n # Root => Front(n) \in tree
  BY DEF Typing, Trees
<1>2. AllNodes \subseteq Seq(Keys)
  <2>1. \A l \in 0 .. MaxLevel : [1 .. l -> Keys] \subseteq Seq(Keys)
    BY KeysAssumption
  <2> QED
    BY <2>1 DEF AllNodes
<1>3. \A n \in Seq(Keys) : Len(n) \in Nat /\ (n # <<>> <=> Len(n) > 0)
  OBVIOUS
<1>4. Root = <<>> /\ Len(Root) = 0 /\ Root \in Seq(Keys)
  BY DEF Root
<1>5. \A n \in Seq(Keys) : InSubtree(Root, n)
  <2> SUFFICES ASSUME NEW n \in Seq(Keys) PROVE IsPrefix(Root, n)
    BY DEF InSubtree
  <2>1. Len(Root) <= Len(n) /\ \A i \in 1 .. Len(Root) : Root[i] = n[i]
    BY <1>3, <1>4
  <2> QED
    BY <1>4, <2>1, PrefixPointwise
<1> QED
  BY <1>1, <1>2, <1>3, <1>4, <1>5

\* Subtrees are nested: a partial order, total on the ancestors of a node.
LEMMA SubtreeOrder ==
  ASSUME NEW m \in Seq(Keys), NEW n \in Seq(Keys)
  PROVE  /\ InSubtree(m, m)
         /\ InSubtree(m, n) => Len(m) <= Len(n)
         /\ InSubtree(m, n) /\ Len(n) <= Len(m) => m = n
         /\ \A k \in Seq(Keys) : InSubtree(m, n) /\ InSubtree(n, k) => InSubtree(m, k)
         /\ \A k \in Seq(Keys) :
              InSubtree(m, k) /\ InSubtree(n, k) /\ Len(m) <= Len(n) => InSubtree(m, n)
  BY PrefixOrder DEF InSubtree

\* A child is in the subtree of its parent, as are all its other ancestors.
LEMMA ChildFacts ==
  ASSUME Typing, NEW n \in tree, NEW c \in Children(n)
  PROVE  /\ c \in tree /\ c # Root /\ c # n /\ Len(c) = Len(n) + 1 /\ InSubtree(n, c) /\ Front(c) = n
         /\ \A m \in tree : InSubtree(m, c) /\ m # c => InSubtree(m, n)
<1>1. c \in tree /\ Len(c) = Len(n) + 1 /\ InSubtree(n, c) /\ tree \subseteq Seq(Keys)
  BY TreeFacts DEF Children
<1>2. /\ Len(c) > 0 /\ Front(c) = n /\ c # n
      /\ \A m \in Seq(Keys) : InSubtree(m, c) /\ m # c => InSubtree(m, n)
  BY <1>1, ChildPrefix DEF InSubtree
<1> QED
  BY <1>1, <1>2, TreeFacts

\* A node that is not the root is a child of its parent.
LEMMA ParentFacts ==
  ASSUME Typing, NEW n \in tree, n # Root
  PROVE  Front(n) \in tree /\ n \in Children(Front(n)) /\ InSubtree(Front(n), n) /\ Len(Front(n)) < Len(n)
<1>1. Front(n) \in tree /\ n \in Seq(Keys) /\ Len(n) \in Nat /\ Len(n) > 0
  BY TreeFacts
<1>2. Len(Front(n)) = Len(n) - 1 /\ InSubtree(Front(n), n)
  BY <1>1, ParentPrefix DEF InSubtree
<1> QED
  BY <1>1, <1>2 DEF Children

\* "for (const key in children)" gives each child once.
LEMMA ChildrenOfFacts ==
  ASSUME Typing, NEW n \in tree
  PROVE  /\ ChildrenOf(n) \in Seq(tree) /\ IsInjective(ChildrenOf(n)) /\ ToSet(ChildrenOf(n)) = Children(n)
<1>1. IsFiniteSet(Children(n))
  <2> DEFINE S == {Append(n, k) : k \in Keys}
  <2>1. IsFiniteSet(S)
    <3> DEFINE f == [k \in Keys |-> Append(n, k)]
    <3>1. f \in Surjection(Keys, S)
      BY DEF Surjection
    <3> QED
      BY <3>1, KeysAssumption, FS_Surjection
  <2>2. Children(n) \subseteq S
    <3> SUFFICES ASSUME NEW c \in Children(n) PROVE c \in S
      OBVIOUS
    <3>1. n \in Seq(Keys) /\ c \in Seq(Keys) /\ Len(c) = Len(n) + 1 /\ Front(c) = n
      BY ChildFacts, TreeFacts
    <3>2. c[Len(c)] \in Keys /\ Len(n) \in Nat
      BY <3>1
    <3>3. c = Append(Front(c), c[Len(c)])
      <4>1. c # <<>>
        BY <3>1
      <4>2. \A i \in 1 .. Len(c) - 1 : Front(c)[i] = c[i]
        BY <3>1, <4>1, FrontFacts
      <4> QED
        BY <3>1, <3>2, <4>2
    <3> QED
      BY <3>1, <3>2, <3>3
  <2> QED
    BY <2>1, <2>2, FS_Subset
<1>2. Children(n) \subseteq tree
  BY DEF Children
<1>3. /\ ChildrenOf(n) \in Seq(Children(n)) /\ IsInjective(ChildrenOf(n))
      /\ ToSet(ChildrenOf(n)) = Children(n)
  BY <1>1, SetToSeqFacts DEF ChildrenOf
<1>4. Seq(Children(n)) \subseteq Seq(tree)
  BY <1>2
<1> QED
  BY <1>3, <1>4

-----------------------------------------------------------------------------
(* Steps *)

\* A traversal leaves the tree and its own settings alone.
LEMMA StepFrame ==
  ASSUME [Next]_vars
  PROVE  /\ tree' = tree /\ mode' = mode /\ based' = based
         /\ \A n : Children(n)' = Children(n) /\ ChildrenOf(n)' = ChildrenOf(n)
<1>1. tree' = tree /\ mode' = mode /\ based' = based
  BY DEF Next, StartPre, VisitPre, EndPre, StartPost, Descend, Ascend, EndPost, vars
<1> QED
  BY <1>1 DEF Children, ChildrenOf, InSubtree

\* The list without its entry, in pre order.
LEMMA PopFacts ==
  ASSUME Typing, mode # "post", list # <<>>
  PROVE  /\ Popped \in tree /\ Rest \in Seq(tree) /\ ToSet(list) = ToSet(Rest) \cup {Popped}
         /\ IsInjective(list) => IsInjective(Rest) /\ Popped \notin ToSet(Rest)
<1>1. list \in Seq(tree) /\ mode \in {"queue", "stack"}
  BY DEF Typing
<1>2. CASE mode = "queue"
  BY <1>1, <1>2, TailFacts DEF Popped, Rest
<1>3. CASE mode = "stack"
  BY <1>1, <1>3, LastFacts, FrontFacts DEF Popped, Rest
<1> QED
  BY <1>1, <1>2, <1>3

\* One iteration of the loop: the node that is popped moves from the list to the
\* output, unless it is the root, and its children come into the list.
LEMMA VisitFacts ==
  ASSUME Typing, VisitPre
  PROVE  /\ out' \in Seq(tree) /\ list' \in Seq(tree) /\ list # <<>> /\ mode # "post" /\ pc = "loop" /\ pc' = pc
         /\ out' = IF Popped = Root THEN out ELSE Append(out, Popped)
         /\ ToSet(out') = IF Popped = Root THEN ToSet(out) ELSE ToSet(out) \cup {Popped}
         /\ list' = Rest \o ChildrenOf(Popped)
         /\ ToSet(list') = ToSet(Rest) \cup Children(Popped)
         /\ frames' = frames
<1>1. /\ out' = IF Popped = Root THEN out ELSE Append(out, Popped)
      /\ list' = Rest \o ChildrenOf(Popped)
      /\ list # <<>> /\ mode # "post" /\ pc = "loop" /\ pc' = pc /\ frames' = frames
  BY DEF VisitPre
<1>2. Popped \in tree /\ Rest \in Seq(tree) /\ out \in Seq(tree)
  BY <1>1, PopFacts DEF Typing
<1>3. ChildrenOf(Popped) \in Seq(tree) /\ ToSet(ChildrenOf(Popped)) = Children(Popped)
  BY <1>2, ChildrenOfFacts
<1>4. list' \in Seq(tree) /\ ToSet(list') = ToSet(Rest) \cup Children(Popped)
  BY <1>1, <1>2, <1>3, ConcatFacts, ConcatSets
<1>5. out' \in Seq(tree) /\ ToSet(out') = IF Popped = Root THEN ToSet(out) ELSE ToSet(out) \cup {Popped}
  <2>1. CASE Popped = Root
    BY <1>1, <1>2, <2>1
  <2>2. CASE Popped # Root
    BY <1>1, <1>2, <2>2, AppendFacts, ToSetAppend
  <2> QED
    BY <2>1, <2>2
<1> QED
  BY <1>1, <1>4, <1>5

\* The child that a recursive call goes on with.
LEMMA DescendFacts ==
  ASSUME Typing, Descend, NEW c, c = Head(Last(frames).todo)
  PROVE  /\ c \in tree /\ frames # <<>> /\ mode = "post" /\ pc = "loop" /\ pc' = pc
         /\ out' = out /\ list' \in Seq(tree) /\ frames' \in Seq(Frames)
         /\ Len(frames) \in Nat /\ Len(frames) > 0 /\ Len(frames') = Len(frames) + 1
         /\ DOMAIN frames = 1 .. Len(frames) /\ DOMAIN frames' = 1 .. Len(frames) + 1
         /\ \A i \in 1 .. Len(frames) : frames[i] \in Frames /\ frames'[i].node = frames[i].node
         /\ \A i \in 1 .. Len(frames) : i # Len(frames) => frames'[i].todo = frames[i].todo
         /\ frames[Len(frames)].todo # <<>> /\ c = Head(frames[Len(frames)].todo)
         /\ frames'[Len(frames)].todo = Tail(frames[Len(frames)].todo)
         /\ frames'[Len(frames) + 1].node = c /\ frames'[Len(frames) + 1].todo = ChildrenOf(c)
<1> DEFINE L == Len(frames)
           top == frames[L]
           f == [frames EXCEPT ![L].todo = Tail(@)]
<1>1. /\ mode = "post" /\ pc = "loop" /\ pc' = pc /\ out' = out /\ frames # <<>>
      /\ Last(frames).todo # <<>> /\ frames' = Append([frames EXCEPT ![Len(frames)].todo = Tail(@)], Frame(c))
      /\ list' = Append(list, c)
  BY DEF Descend
<1>2. frames \in Seq(Frames) /\ list \in Seq(tree)
  BY DEF Typing
<1>3. /\ L \in Nat /\ L > 0 /\ DOMAIN frames = 1 .. L /\ L \in 1 .. L /\ Last(frames) = top
      /\ \A i \in 1 .. L : frames[i] \in Frames
  BY <1>1, <1>2 DEF Last
<1>4. /\ top.node \in tree /\ top.todo \in Seq(tree) /\ top.todo # <<>> /\ c = Head(top.todo)
      /\ top = [node |-> top.node, todo |-> top.todo]
  BY <1>1, <1>3 DEF Frames
<1>5. c \in tree /\ Tail(top.todo) \in Seq(tree)
  BY <1>4, TailFacts
<1>6. f \in Seq(Frames) /\ Len(f) = L /\ DOMAIN f = 1 .. L
      /\ (\A i \in 1 .. L : i # L => f[i] = frames[i])
      /\ f[L].node = top.node /\ f[L].todo = Tail(top.todo)
  <2>1. f[L] = [top EXCEPT !.todo = Tail(top.todo)]
    BY <1>2, <1>3
  <2>2. f[L].node = top.node /\ f[L].todo = Tail(top.todo) /\ f[L] \in Frames
    BY <1>4, <1>5, <2>1 DEF Frames
  <2>3. DOMAIN f = 1 .. L /\ \A i \in 1 .. L : i # L => f[i] = frames[i]
    BY <1>2, <1>3
  <2>4. \A i \in 1 .. L : f[i] \in Frames
    BY <1>3, <2>2, <2>3
  <2>5. f = [i \in 1 .. L |-> f[i]]
    BY <1>2, <1>3
  <2> HIDE DEF f
  <2>6. f \in [1 .. L -> Frames]
    BY <2>3, <2>4, <2>5
  <2>7. \A k \in Nat : \A g \in [1 .. k -> Frames] : g \in Seq(Frames) /\ Len(g) = k
    OBVIOUS
  <2>8. f \in Seq(Frames) /\ Len(f) = L
    BY <1>3, <2>6, <2>7
  <2> QED
    BY <2>2, <2>3, <2>8
<1>7. Frame(c) \in Frames /\ Frame(c).node = c /\ Frame(c).todo = ChildrenOf(c)
  BY <1>5, ChildrenOfFacts DEF Frame, Frames
<1>8. frames' = Append(f, Frame(c))
  BY <1>1
<1> HIDE DEF f
<1>9. /\ frames' \in Seq(Frames) /\ Len(frames') = L + 1 /\ DOMAIN frames' = 1 .. L + 1
      /\ frames'[L + 1] = Frame(c) /\ \A i \in 1 .. L : frames'[i] = f[i]
  BY <1>6, <1>7, <1>8, AppendFacts
<1> QED
  BY <1>1, <1>2, <1>3, <1>4, <1>5, <1>6, <1>7, <1>9, AppendFacts

\* A recursive call that is done.
LEMMA AscendFacts ==
  ASSUME Typing, Ascend
  PROVE  /\ mode = "post" /\ pc = "loop" /\ pc' = pc /\ list' = list
         /\ Len(frames) \in Nat /\ Len(frames) > 1 /\ DOMAIN frames = 1 .. Len(frames)
         /\ frames' \in Seq(Frames) /\ DOMAIN frames' = 1 .. Len(frames) - 1 /\ frames' # <<>>
         /\ \A i \in 1 .. Len(frames) - 1 : frames'[i] = frames[i]
         /\ \A i \in 1 .. Len(frames) : frames[i] \in Frames
         /\ frames[Len(frames)].node \in tree /\ frames[Len(frames)].todo = <<>>
         /\ out' = Append(out, frames[Len(frames)].node)
         /\ out' \in Seq(tree) /\ ToSet(out') = ToSet(out) \cup {frames[Len(frames)].node}
<1>1. /\ mode = "post" /\ pc = "loop" /\ pc' = pc /\ list' = list /\ Len(frames) > 1
      /\ Last(frames).todo = <<>> /\ out' = Append(out, Last(frames).node) /\ frames' = Front(frames)
      /\ frames \in Seq(Frames) /\ out \in Seq(tree)
  BY DEF Ascend, Typing
<1>2. /\ Len(frames) \in Nat /\ DOMAIN frames = 1 .. Len(frames) /\ Last(frames) = frames[Len(frames)]
      /\ Len(frames) \in 1 .. Len(frames) /\ \A i \in 1 .. Len(frames) : frames[i] \in Frames
  BY <1>1 DEF Last
<1>3. frames[Len(frames)].node \in tree
  BY <1>2 DEF Frames
<1>4. /\ frames' \in Seq(Frames) /\ Len(frames') = Len(frames) - 1
      /\ \A i \in 1 .. Len(frames) - 1 : frames'[i] = frames[i]
  BY <1>1, FrontFacts
<1>5. DOMAIN frames' = 1 .. Len(frames) - 1 /\ frames' # <<>>
  BY <1>1, <1>2, <1>4
<1> QED
  BY <1>1, <1>2, <1>3, <1>4, <1>5, AppendFacts, ToSetAppend

\* Every step keeps the types.
LEMMA StepTyping ==
  ASSUME Typing, [Next]_vars
  PROVE  Typing'
<1>0. tree' = tree /\ mode' = mode /\ based' = based /\ Frames' = Frames
  BY StepFrame DEF Frames
<1>1. ASSUME StartPre PROVE Typing'
  <2>1. Root \in tree /\ list' = <<Root>> /\ (out' = <<>> \/ out' = <<Root>>) /\ pc' = "loop" /\ frames' = frames
    BY <1>1, TreeFacts DEF StartPre
  <2>2. <<Root>> \in Seq(tree) /\ <<>> \in Seq(tree)
    BY <2>1
  <2> QED
    BY <1>0, <2>1, <2>2 DEF Typing
<1>2. ASSUME VisitPre PROVE Typing'
  <2>1. out' \in Seq(tree) /\ list' \in Seq(tree) /\ frames' = frames /\ pc' = "loop"
    BY <1>2, VisitFacts
  <2> QED
    BY <1>0, <2>1 DEF Typing
<1>3. ASSUME EndPre PROVE Typing'
  BY <1>0, <1>3 DEF Typing, EndPre
<1>4. ASSUME StartPost PROVE Typing'
  <2>1. Frame(Root) \in Frames
    BY TreeFacts, ChildrenOfFacts DEF Frame, Frames
  <2>2. frames' = <<Frame(Root)>> /\ pc' = "loop" /\ list' = list /\ out' = out
    BY <1>4 DEF StartPost
  <2>3. frames' \in Seq(Frames)
    BY <2>1, <2>2
  <2> QED
    BY <1>0, <2>2, <2>3 DEF Typing
<1>5. ASSUME Descend PROVE Typing'
  <2>1. out' = out /\ list' \in Seq(tree) /\ frames' \in Seq(Frames) /\ pc' = "loop"
    BY <1>5, DescendFacts
  <2> QED
    BY <1>0, <2>1 DEF Typing
<1>6. ASSUME Ascend PROVE Typing'
  <2>1. out' \in Seq(tree) /\ list' = list /\ frames' \in Seq(Frames) /\ pc' = "loop"
    BY <1>6, AscendFacts
  <2> QED
    BY <1>0, <2>1 DEF Typing
<1>7. ASSUME EndPost PROVE Typing'
  <2>1. frames' = <<>> /\ list' = list /\ pc' = "end" /\ (out' = out \/ out' = Append(out, Root))
    BY <1>7 DEF EndPost
  <2>2. out \in Seq(tree) /\ Root \in tree
    BY TreeFacts DEF Typing
  <2>3. out' \in Seq(tree)
    BY <2>1, <2>2, AppendFacts
  <2> QED
    BY <1>0, <2>1, <2>3 DEF Typing
<1>8. ASSUME UNCHANGED vars PROVE Typing'
  BY <1>0, <1>8 DEF Typing, vars
<1> QED
  BY <1>1, <1>2, <1>3, <1>4, <1>5, <1>6, <1>7, <1>8 DEF Next

-----------------------------------------------------------------------------
(* Pre order *)

\* What is popped was not entered, so that nothing below it was found.
LEMMA PopFresh ==
  ASSUME Typing, PreInv, mode # "post", pc = "loop", list # <<>>
  PROVE  /\ Popped \in ToSet(list) /\ Popped \notin Entered
         /\ Popped \in ToSet(out) => Popped = Root
         /\ \A m \in ToSet(out) \cup ToSet(list) : InSubtree(Popped, m) => m = Popped
         /\ Children(Popped) \cap (ToSet(out) \cup ToSet(list)) = {}
<1>1. Popped \in tree /\ Popped \in ToSet(list)
  BY PopFacts
<1>2. Popped \notin Entered
  BY <1>1 DEF Entered
<1>3. Popped \in ToSet(out) => Popped = Root
  BY <1>1 DEF PreInv
<1>4. \A m \in ToSet(out) \cup ToSet(list) : InSubtree(Popped, m) => m = Popped
  BY <1>1, <1>2 DEF PreInv
<1>5. \A c \in Children(Popped) : InSubtree(Popped, c) /\ c # Popped
  BY <1>1, ChildFacts
<1> QED
  BY <1>1, <1>2, <1>3, <1>4, <1>5

\* The node that is popped is the only one that is entered.
LEMMA VisitEntered ==
  ASSUME Typing, PreInv, VisitPre
  PROVE  Entered' = Entered \cup {Popped}
<1>1. /\ list # <<>> /\ mode # "post" /\ pc = "loop"
      /\ ToSet(out') = IF Popped = Root THEN ToSet(out) ELSE ToSet(out) \cup {Popped}
      /\ ToSet(list') = ToSet(Rest) \cup Children(Popped)
  BY VisitFacts
<1>2. /\ ToSet(list) = ToSet(Rest) \cup {Popped} /\ Popped \notin ToSet(Rest) /\ Popped \in tree
  BY <1>1, PopFacts DEF PreInv
<1>3. Children(Popped) \cap (ToSet(out) \cup ToSet(list)) = {}
  BY <1>1, PopFresh
<1>4. Root \notin Children(Popped) /\ Popped \notin Children(Popped)
  BY <1>2, ChildFacts
<1> QED
  BY <1>1, <1>2, <1>3, <1>4 DEF Entered

\* An iteration of the loop.
LEMMA VisitKeeps ==
  ASSUME Typing, PreInv, VisitPre, [Next]_vars
  PROVE  PreInv'
<1> DEFINE n == Popped
<1>1. /\ list # <<>> /\ mode # "post" /\ pc = "loop" /\ pc' = pc
      /\ out' = IF n = Root THEN out ELSE Append(out, n)
      /\ ToSet(out') = IF n = Root THEN ToSet(out) ELSE ToSet(out) \cup {n}
      /\ list' = Rest \o ChildrenOf(n)
      /\ ToSet(list') = ToSet(Rest) \cup Children(n)
  BY VisitFacts
<1>2. /\ n \in tree /\ Rest \in Seq(tree) /\ ToSet(list) = ToSet(Rest) \cup {n}
      /\ IsInjective(Rest) /\ n \notin ToSet(Rest)
  BY <1>1, PopFacts DEF PreInv
<1>3. /\ n \in ToSet(list) /\ n \notin Entered /\ (n \in ToSet(out) => n = Root)
      /\ Children(n) \cap (ToSet(out) \cup ToSet(list)) = {}
  BY <1>1, PopFresh
<1>4. Entered' = Entered \cup {n}
  BY VisitEntered
<1>5. /\ ChildrenOf(n) \in Seq(tree) /\ IsInjective(ChildrenOf(n)) /\ ToSet(ChildrenOf(n)) = Children(n)
  BY <1>2, ChildrenOfFacts
<1>6. /\ tree' = tree /\ mode' = mode /\ based' = based /\ \A m : Children(m)' = Children(m)
  BY StepFrame
<1>7. \A c \in Children(n) : c # Root /\ c # n /\ \A m \in tree : InSubtree(m, c) /\ m # c => InSubtree(m, n)
  BY <1>2, ChildFacts
<1>8. /\ IsInjective(out) /\ ToSet(out) \cap ToSet(list) \subseteq {Root} /\ (Root \in ToSet(out) <=> based)
      /\ \A x \in ToSet(out) \cup ToSet(list) : \A m \in tree :
           InSubtree(m, x) /\ m # x => m \in Entered
      /\ \A x \in Entered : Children(x) \subseteq ToSet(out) \cup ToSet(list)
  BY <1>1 DEF PreInv
<1> HIDE DEF n
<1>9. IsInjective(out')
  BY <1>1, <1>2, <1>3, <1>8, InjectiveAppend DEF Typing
<1>10. IsInjective(list')
  <2>1. ToSet(Rest) \cap ToSet(ChildrenOf(n)) = {}
    BY <1>2, <1>3, <1>5
  <2> QED
    BY <1>1, <1>2, <1>5, <2>1, ConcatSets
<1>11. ToSet(out') \cap ToSet(list') \subseteq {Root}
  BY <1>1, <1>2, <1>3, <1>7, <1>8
<1>12. Root \in ToSet(out') <=> based'
  BY <1>1, <1>6, <1>8
<1>13. ASSUME NEW x \in ToSet(out') \cup ToSet(list'), NEW m \in tree, InSubtree(m, x), m # x
       PROVE  m \in Entered'
  <2>1. CASE x \in Children(n)
    <3>1. InSubtree(m, n)
      BY <1>7, <1>13, <2>1
    <3> QED
      BY <1>3, <1>4, <1>8, <3>1
  <2>2. CASE x \notin Children(n)
    <3>1. x \in ToSet(out) \cup ToSet(list)
      BY <1>1, <1>2, <2>2
    <3> QED
      BY <1>4, <1>8, <1>13, <3>1
  <2> QED
    BY <2>1, <2>2
<1>14. \A x \in Entered' : Children(x)' \subseteq ToSet(out') \cup ToSet(list')
  <2>1. ToSet(out) \cup ToSet(list) \subseteq ToSet(out') \cup ToSet(list') \cup {n}
    BY <1>1, <1>2
  <2>2. \A x \in Entered' : Root \notin Children(x)
    <3>1. Entered \subseteq tree
      BY TreeFacts, ToSetMember DEF Entered, Typing
    <3> QED
      BY <1>2, <1>4, <3>1, ChildFacts
  <2> QED
    BY <1>1, <1>2, <1>4, <1>6, <1>8, <2>1, <2>2
<1> QED
  BY <1>1, <1>6, <1>9, <1>10, <1>11, <1>12, <1>13, <1>14 DEF PreInv, InSubtree

\* Every step keeps the invariant of pre order.
LEMMA StepPre ==
  ASSUME Typing, PreInv, [Next]_vars
  PROVE  PreInv'
<1>0. tree' = tree /\ mode' = mode /\ based' = based /\ \A m : Children(m)' = Children(m)
  BY StepFrame
<1>1. ASSUME mode = "post" PROVE PreInv'
  BY <1>0, <1>1 DEF PreInv
<1>2. ASSUME StartPre PROVE PreInv'
  <2>1. list' = <<Root>> /\ out' = (IF based THEN <<Root>> ELSE <<>>) /\ pc' = "loop"
    BY <1>2 DEF StartPre
  <2>2. ToSet(<<Root>>) = {Root} /\ IsInjective(<<Root>>)
    BY DEF ToSet, IsInjective
  <2>3. ToSet(<<>>) = {} /\ IsInjective(<<>>)
    BY DEF ToSet, IsInjective
  <2>4. Entered' = {} /\ ToSet(list') = {Root} /\ ToSet(out') = (IF based THEN {Root} ELSE {})
    BY <2>1, <2>2, <2>3 DEF Entered
  <2>5. \A m \in tree : InSubtree(m, Root) => m = Root
    BY TreeFacts, SubtreeOrder
  <2> QED
    BY <1>0, <2>1, <2>2, <2>3, <2>4, <2>5 DEF PreInv, InSubtree
<1>3. ASSUME EndPre PROVE PreInv'
  <2>1. list = <<>> /\ list' = list /\ out' = out /\ pc = "loop" /\ Entered' = Entered
    BY <1>3 DEF EndPre, Entered
  <2> QED
    BY <1>0, <2>1 DEF PreInv, InSubtree
<1>4. ASSUME UNCHANGED vars PROVE PreInv'
  BY <1>0, <1>4 DEF PreInv, vars, Entered, InSubtree
<1>5. StartPost \/ Descend \/ Ascend \/ EndPost => mode = "post"
  BY DEF StartPost, Descend, Ascend, EndPost
<1> QED
  BY <1>1, <1>2, <1>3, <1>4, <1>5, VisitKeeps DEF Next

\* What an iteration leaves in the list, place by place: the rest of it, then the
\* children of the node that was popped.
LEMMA VisitPlaces ==
  ASSUME Typing, VisitPre
  PROVE  /\ Rest \in Seq(tree) /\ Len(Rest) \in Nat /\ Len(list) = Len(Rest) + 1
         /\ DOMAIN list = 1 .. Len(list) /\ DOMAIN list' = 1 .. Len(list')
         /\ \A i \in DOMAIN list' :
              \/ i \in 1 .. Len(Rest) /\ list'[i] = Rest[i]
              \/ i > Len(Rest) /\ list'[i] \in Children(Popped)
         /\ \A i \in 1 .. Len(Rest) : i \in DOMAIN list' /\ Rest[i] \in tree
<1>1. /\ list' = Rest \o ChildrenOf(Popped) /\ list' \in Seq(tree) /\ list # <<>> /\ mode # "post"
  BY VisitFacts
<1>2. Popped \in tree /\ Rest \in Seq(tree) /\ list \in Seq(tree) /\ mode \in {"queue", "stack"}
  BY <1>1, PopFacts DEF Typing
<1>3. ChildrenOf(Popped) \in Seq(tree) /\ ToSet(ChildrenOf(Popped)) = Children(Popped)
  BY <1>2, ChildrenOfFacts
<1>4. Len(list) = Len(Rest) + 1
  <2>1. Len(Tail(list)) = Len(list) - 1 /\ Len(Front(list)) = Len(list) - 1 /\ Len(list) \in Nat
    BY <1>1, <1>2, TailFacts, FrontFacts
  <2> QED
    BY <2>1 DEF Rest
<1>5. /\ Len(list') = Len(Rest) + Len(ChildrenOf(Popped))
      /\ \A i \in 1 .. Len(Rest) : list'[i] = Rest[i]
      /\ \A i \in 1 .. Len(list') :
           i \notin 1 .. Len(Rest) =>
             /\ i - Len(Rest) \in 1 .. Len(ChildrenOf(Popped))
             /\ list'[i] = ChildrenOf(Popped)[i - Len(Rest)]
  BY <1>1, <1>2, <1>3, ConcatFacts
<1>6. \A i \in 1 .. Len(ChildrenOf(Popped)) : ChildrenOf(Popped)[i] \in Children(Popped)
  BY <1>3, ToSetMember
<1>7. /\ Len(Rest) \in Nat /\ Len(ChildrenOf(Popped)) \in Nat /\ Len(list') \in Nat
      /\ DOMAIN list = 1 .. Len(list) /\ DOMAIN list' = 1 .. Len(list')
  BY <1>1, <1>2, <1>3
<1>8. ASSUME NEW i \in 1 .. Len(list'), i \notin 1 .. Len(Rest) PROVE i > Len(Rest) /\ list'[i] \in Children(Popped)
  BY <1>5, <1>6, <1>7, <1>8
<1>9. \A i \in 1 .. Len(Rest) : i \in 1 .. Len(list') /\ Rest[i] \in tree
  BY <1>2, <1>5, <1>7
<1> QED
  BY <1>2, <1>4, <1>5, <1>7, <1>8, <1>9

\* The output after an iteration, place by place.
LEMMA VisitOut ==
  ASSUME Typing, VisitPre, Popped # Root
  PROVE  /\ out' = Append(out, Popped) /\ Len(out) \in Nat
         /\ DOMAIN out = 1 .. Len(out) /\ DOMAIN out' = 1 .. Len(out) + 1 /\ out'[Len(out) + 1] = Popped
         /\ \A i \in 1 .. Len(out) : out'[i] = out[i] /\ out[i] \in tree
         /\ \A i \in 1 .. Len(out) + 1 : i \in 1 .. Len(out) \/ i = Len(out) + 1
<1>1. out' = Append(out, Popped) /\ list # <<>> /\ mode # "post" /\ out \in Seq(tree)
  BY VisitFacts DEF Typing
<1>2. Popped \in tree
  BY <1>1, PopFacts
<1>3. \A i \in 1 .. Len(out) : out[i] \in tree
  BY <1>1
<1> QED
  BY <1>1, <1>2, <1>3, AppendFacts

-----------------------------------------------------------------------------
(* A queue *)

\* A queue is popped at its head, where the lowest level is, and pushed the level
\* below that.
LEMMA QueueVisit ==
  ASSUME Typing, QueueInv, BreadthOrder, mode = "queue", VisitPre, [Next]_vars
  PROVE  QueueInv' /\ BreadthOrder'
<1> DEFINE R == Len(Rest)
           l == Len(Popped)
<1>1. /\ list # <<>> /\ mode' = mode /\ list \in Seq(tree)
  BY VisitFacts, StepFrame DEF Typing
<1>2. /\ R \in Nat /\ Len(list) = R + 1 /\ DOMAIN list = 1 .. Len(list) /\ Rest = Tail(list) /\ Popped = list[1]
      /\ Popped \in tree
  BY <1>1, VisitPlaces, PopFacts, TailFacts DEF Popped, Rest
<1>3. \A i \in 1 .. R : Rest[i] = list[i + 1] /\ i + 1 \in DOMAIN list /\ 1 \in DOMAIN list
  BY <1>1, <1>2, TailFacts
<1>4. \A n \in tree : Len(n) \in Nat
  BY TreeFacts
<1>5. \A i \in 1 .. R : Rest[i] \in tree /\ l <= Len(Rest[i]) /\ Len(Rest[i]) <= l + 1
  <2>1. \A i \in 1 .. R : Rest[i] \in tree
    BY VisitPlaces
  <2>2. \A i \in 1 .. R : 1 <= i + 1
    OBVIOUS
  <2> QED
    BY <1>2, <1>3, <2>1, <2>2 DEF QueueInv
<1>6. \A i, j \in 1 .. R : i <= j => Len(Rest[i]) <= Len(Rest[j])
  <2>1. \A i, j \in 1 .. R : i <= j => i + 1 <= j + 1
    BY <1>2
  <2> QED
    BY <1>3, <2>1 DEF QueueInv
<1>7. \A c \in Children(Popped) : c \in tree /\ Len(c) = l + 1
  BY <1>2, ChildFacts
<1>8. l \in Nat
  BY <1>2, <1>4
<1>9. \A i \in DOMAIN list' :
        \/ i \in 1 .. R /\ list'[i] = Rest[i]
        \/ i > R /\ list'[i] \in Children(Popped)
  BY VisitPlaces
<1>10. DOMAIN list' = 1 .. Len(list')
  BY VisitPlaces
<1>11. \A i \in DOMAIN list' : list'[i] \in tree /\ l <= Len(list'[i]) /\ Len(list'[i]) <= l + 1
                               /\ (i > R => Len(list'[i]) = l + 1)
  <2> SUFFICES ASSUME NEW i \in DOMAIN list'
               PROVE  /\ list'[i] \in tree /\ l <= Len(list'[i]) /\ Len(list'[i]) <= l + 1
                      /\ (i > R => Len(list'[i]) = l + 1)
    OBVIOUS
  <2> HIDE DEF R, l
  <2>1. CASE i \in 1 .. R /\ list'[i] = Rest[i]
    BY <1>2, <1>5, <2>1
  <2>2. CASE i > R /\ list'[i] \in Children(Popped)
    BY <1>7, <1>8, <2>2
  <2> QED
    BY <1>9, <2>1, <2>2
<1>12. \A i \in DOMAIN out : Len(out[i]) <= l
  BY <1>2, <1>3, VisitPlaces DEF QueueInv
<1>13. \A i \in DOMAIN out : out[i] \in tree
  BY DEF Typing
<1> HIDE DEF R, l
<1>14. \A i \in DOMAIN list' : Len(list'[i]) \in Nat
  BY <1>4, <1>11
<1>15. ASSUME NEW i \in DOMAIN list', NEW j \in DOMAIN list', i <= j PROVE Len(list'[i]) <= Len(list'[j])
  <2>1. CASE j > R
    BY <1>11, <2>1
  <2>2. CASE ~(j > R)
    <3>1. i \in 1 .. R /\ j \in 1 .. R
      BY <1>2, <1>10, <1>15, <2>2
    <3>2. list'[i] = Rest[i] /\ list'[j] = Rest[j]
      BY <1>2, <1>9, <2>2, <3>1
    <3> QED
      BY <1>6, <1>15, <3>1, <3>2
  <2> QED
    BY <2>1, <2>2
<1>16. \A i, j \in DOMAIN list' : Len(list'[j]) <= Len(list'[i]) + 1
  BY <1>8, <1>11, <1>14
<1>17. ASSUME NEW i \in DOMAIN out' PROVE Len(out'[i]) <= l /\ Len(out'[i]) \in Nat
  <2>1. CASE Popped = Root
    <3>1. out' = out
      BY <2>1, VisitFacts
    <3> QED
      BY <1>4, <1>12, <1>13, <3>1
  <2>2. CASE Popped # Root
    BY <1>4, <1>8, <1>12, <1>13, <2>2, VisitOut DEF l
  <2> QED
    BY <2>1, <2>2
<1>18. ASSUME NEW i \in DOMAIN out', NEW j \in DOMAIN out', i < j PROVE Len(out'[i]) <= Len(out'[j])
  <2>1. CASE Popped = Root
    <3>1. out' = out
      BY <2>1, VisitFacts
    <3> QED
      BY <1>1, <1>18, <3>1 DEF BreadthOrder
  <2>2. CASE Popped # Root
    <3>1. i \in 1 .. Len(out) /\ (j \in 1 .. Len(out) \/ j = Len(out) + 1)
      BY <1>18, <2>2, VisitOut
    <3>2. CASE j = Len(out) + 1
      BY <1>17, <2>2, <3>2, VisitOut DEF l
    <3>3. CASE j \in 1 .. Len(out)
      BY <1>18, <2>2, <3>1, <3>3, VisitOut DEF BreadthOrder
    <3> QED
      BY <3>1, <3>2, <3>3
  <2> QED
    BY <2>1, <2>2
<1>19. \A i \in DOMAIN out', j \in DOMAIN list' : Len(out'[i]) <= Len(list'[j])
  BY <1>8, <1>11, <1>14, <1>17
<1> QED
  BY <1>1, <1>15, <1>16, <1>18, <1>19 DEF QueueInv, BreadthOrder

\* Every step keeps the levels of a queue in order.
LEMMA StepQueue ==
  ASSUME Typing, QueueInv, BreadthOrder, [Next]_vars
  PROVE  QueueInv' /\ BreadthOrder'
<1>0. mode' = mode
  BY StepFrame
<1>1. CASE mode # "queue"
  BY <1>0, <1>1 DEF QueueInv, BreadthOrder
<1>2. CASE UNCHANGED <<list, out>>
  BY <1>0, <1>2 DEF QueueInv, BreadthOrder
<1>3. CASE StartPre
  <2>1. list' = <<Root>> /\ (out' = <<>> \/ out' = <<Root>>) /\ Len(Root) = 0
    BY <1>3, TreeFacts DEF StartPre
  <2>2. /\ \A i \in DOMAIN list' : i = 1 /\ list'[i] = Root
        /\ \A i \in DOMAIN out' : i = 1 /\ out'[i] = Root
    BY <2>1
  <2>3. QueueInv'
    BY <2>1, <2>2 DEF QueueInv
  <2>4. BreadthOrder'
    BY <2>1, <2>2 DEF BreadthOrder
  <2> QED
    BY <2>3, <2>4
<1>4. EndPre \/ UNCHANGED vars => UNCHANGED <<list, out>>
  BY DEF EndPre, vars
<1>5. StartPost \/ Descend \/ Ascend \/ EndPost => mode # "queue"
  BY DEF StartPost, Descend, Ascend, EndPost
<1> QED
  BY <1>1, <1>2, <1>3, <1>4, <1>5, QueueVisit DEF Next

-----------------------------------------------------------------------------
(* What may be yielded next *)

\* A subtree that is being yielded stays unbroken.
LEMMA UnbrokenAppend ==
  ASSUME Typing, NEW x \in tree, out' = Append(out, x), NEW n, Unbroken(n), InSubtree(n, x)
  PROVE  Unbroken(n)'
<1>1. /\ DOMAIN out' = 1 .. Len(out) + 1 /\ DOMAIN out = 1 .. Len(out) /\ out'[Len(out) + 1] = x
      /\ \A i \in 1 .. Len(out) : out'[i] = out[i]
      /\ \A i \in 1 .. Len(out) + 1 : i \in 1 .. Len(out) \/ i = Len(out) + 1
      /\ Len(out) \in Nat
  BY AppendFacts DEF Typing
<1>2. ASSUME NEW i \in DOMAIN out', NEW j \in DOMAIN out', i < j, InSubtree(n, out'[i])
      PROVE  InSubtree(n, out'[j])
  <2>1. CASE j = Len(out) + 1
    BY <1>1, <2>1
  <2>2. CASE j \in 1 .. Len(out)
    <3>1. i \in 1 .. Len(out)
      BY <1>1, <1>2, <2>2
    <3> QED
      BY <1>1, <1>2, <2>2, <3>1 DEF Unbroken
  <2> QED
    BY <1>1, <2>1, <2>2
<1> QED
  BY <1>2 DEF Unbroken, InSubtree

\* A node may be yielded if the subtrees it is in were not left.
LEMMA DepthAppend ==
  ASSUME Typing, DepthOrder, mode' = mode, tree' = tree, NEW x \in tree, out' = Append(out, x),
         \A n \in tree : InSubtree(n, x) => Unbroken(n)
  PROVE  DepthOrder'
<1>1. /\ DOMAIN out' = 1 .. Len(out) + 1 /\ DOMAIN out = 1 .. Len(out) /\ out'[Len(out) + 1] = x
      /\ \A i \in 1 .. Len(out) : out'[i] = out[i]
      /\ \A i \in 1 .. Len(out) + 1 : i \in 1 .. Len(out) \/ i = Len(out) + 1
      /\ Len(out) \in Nat
  BY AppendFacts DEF Typing
<1>2. ASSUME mode \in {"stack", "post"}, NEW i \in DOMAIN out', NEW j \in DOMAIN out', NEW k \in DOMAIN out',
             NEW n \in tree, i < j, j < k, InSubtree(n, out'[i]), InSubtree(n, out'[k])
      PROVE  InSubtree(n, out'[j])
  <2>1. i \in 1 .. Len(out) /\ j \in 1 .. Len(out)
    BY <1>1, <1>2
  <2>2. out'[i] = out[i] /\ out'[j] = out[j]
    BY <1>1, <2>1
  <2>3. CASE k = Len(out) + 1
    BY <1>1, <1>2, <2>1, <2>2, <2>3 DEF Unbroken
  <2>4. CASE k \in 1 .. Len(out)
    BY <1>1, <1>2, <2>1, <2>2, <2>4 DEF DepthOrder
  <2> QED
    BY <1>1, <2>3, <2>4
<1> QED
  BY <1>2 DEF DepthOrder, InSubtree

\* A node may be yielded if nothing below it was, in post order nothing above it.
LEMMA AncestorAppend ==
  ASSUME Typing, AncestorOrder, mode' = mode, NEW x \in tree, out' = Append(out, x),
         IF mode = "post" THEN \A i \in DOMAIN out : InSubtree(out[i], x) => out[i] = x
         ELSE \A i \in DOMAIN out : InSubtree(x, out[i]) => out[i] = x
  PROVE  AncestorOrder'
<1>1. /\ DOMAIN out' = 1 .. Len(out) + 1 /\ DOMAIN out = 1 .. Len(out) /\ out'[Len(out) + 1] = x
      /\ \A i \in 1 .. Len(out) : out'[i] = out[i]
      /\ \A i \in 1 .. Len(out) + 1 : i \in 1 .. Len(out) \/ i = Len(out) + 1
      /\ Len(out) \in Nat
  BY AppendFacts DEF Typing
<1>2. ASSUME NEW i \in DOMAIN out', NEW j \in DOMAIN out', out'[i] # out'[j], InSubtree(out'[i], out'[j])
      PROVE  IF mode = "post" THEN j < i ELSE i < j
  <2>1. CASE i \in 1 .. Len(out) /\ j \in 1 .. Len(out)
    BY <1>1, <1>2, <2>1 DEF AncestorOrder
  <2>2. CASE i = Len(out) + 1 /\ j \in 1 .. Len(out)
    BY <1>1, <1>2, <2>2
  <2>3. CASE i \in 1 .. Len(out) /\ j = Len(out) + 1
    BY <1>1, <1>2, <2>3
  <2>4. CASE i = Len(out) + 1 /\ j = Len(out) + 1
    BY <1>2, <2>4
  <2> QED
    BY <1>1, <2>1, <2>2, <2>3, <2>4
<1> QED
  BY <1>2 DEF AncestorOrder, InSubtree

-----------------------------------------------------------------------------
(* A stack *)

\* The subtrees that what is popped is in were not left.
LEMMA PopUnbroken ==
  ASSUME Typing, PreInv, StackInv, mode = "stack", pc = "loop", list # <<>>, NEW m \in tree, InSubtree(m, Popped)
  PROVE  Unbroken(m)
<1>1. /\ Popped = list[Len(list)] /\ Len(list) \in DOMAIN list /\ Popped \in tree
      /\ tree \subseteq Seq(Keys) /\ \A i \in DOMAIN out : out[i] \in tree /\ out[i] \in ToSet(out)
  <2>1. Popped = Last(list) /\ list \in Seq(tree) /\ out \in Seq(tree)
    BY DEF Typing, Popped
  <2> QED
    BY <2>1, PopFacts, TreeFacts DEF Last, ToSet
<1>2. CASE m # Popped
  BY <1>1, <1>2 DEF StackInv
<1>3. CASE m = Popped /\ Popped = Root
  BY <1>1, <1>3, TreeFacts DEF Unbroken
<1>4. CASE m = Popped /\ Popped # Root
  <2>1. \A i \in DOMAIN out : ~InSubtree(m, out[i])
    BY <1>1, <1>4, PopFresh
  <2> QED
    BY <2>1 DEF Unbroken
<1> QED
  BY <1>2, <1>3, <1>4

\* A stack is popped at its top and pushed the children there.
LEMMA StackVisit ==
  ASSUME Typing, PreInv, StackInv, mode = "stack", VisitPre, [Next]_vars
  PROVE  StackInv'
<1> DEFINE n == Popped
           R == Len(Rest)
<1>1. /\ list # <<>> /\ pc = "loop" /\ mode' = mode /\ tree' = tree /\ list \in Seq(tree)
      /\ out' = IF n = Root THEN out ELSE Append(out, n)
  BY VisitFacts, StepFrame DEF Typing
<1>2. /\ R \in Nat /\ Len(list) = R + 1 /\ DOMAIN list = 1 .. R + 1 /\ n = list[R + 1] /\ n \in tree
      /\ \A i \in 1 .. R : Rest[i] = list[i] /\ list[i] \in tree
      /\ DOMAIN list' = 1 .. Len(list')
      /\ \A i \in DOMAIN list' :
           \/ i \in 1 .. R /\ list'[i] = Rest[i]
           \/ i > R /\ list'[i] \in Children(n)
  <2>1. /\ R \in Nat /\ Len(list) = R + 1 /\ DOMAIN list = 1 .. R + 1 /\ DOMAIN list' = 1 .. Len(list')
        /\ \A i \in DOMAIN list' :
             \/ i \in 1 .. R /\ list'[i] = Rest[i]
             \/ i > R /\ list'[i] \in Children(n)
        /\ \A i \in 1 .. R : Rest[i] \in tree
    BY VisitPlaces
  <2>2. Rest = Front(list) /\ n = Last(list) /\ n \in tree
    BY <1>1, PopFacts DEF Popped, Rest
  <2>3. Last(list) = list[Len(list)] /\ \A i \in 1 .. Len(list) - 1 : Front(list)[i] = list[i]
    BY <1>1, LastFacts, FrontFacts
  <2>4. Len(list) - 1 = R
    BY <2>1
  <2> HIDE DEF n, R
  <2> QED
    BY <2>1, <2>2, <2>3, <2>4
<1>3. tree \subseteq Seq(Keys) /\ \A m \in tree : m # Root => Front(m) \in tree
  BY TreeFacts
<1>4. \A m \in tree : InSubtree(m, n) => Unbroken(m)
  BY <1>1, PopUnbroken
<1>5. \A c \in Children(n) : /\ c \in tree /\ Front(c) = n /\ InSubtree(n, c)
                             /\ \A m \in tree : InSubtree(m, c) /\ m # c => InSubtree(m, n)
  BY <1>2, ChildFacts
<1> HIDE DEF n, R
<1>6. \A i \in 1 .. R : i < R + 1 /\ i \in DOMAIN list /\ R + 1 \in DOMAIN list
  BY <1>2
<1>7. /\ \A i, j \in 1 .. R : i < j => InSubtree(Front(list[i]), list[j])
      /\ \A i \in 1 .. R : InSubtree(Front(list[i]), n)
  BY <1>2, <1>6 DEF StackInv
<1>8. \A m \in tree : InSubtree(m, n) => Unbroken(m)'
  <2>1. CASE n = Root
    <3>1. out' = out
      BY <1>1, <2>1
    <3> QED
      BY <1>4, <3>1 DEF Unbroken, InSubtree
  <2>2. CASE n # Root
    <3>1. out' = Append(out, n)
      BY <1>1, <2>2
    <3> QED
      BY <1>2, <1>4, <3>1, UnbrokenAppend
  <2> QED
    BY <2>1, <2>2
<1>9. ASSUME NEW i \in DOMAIN list', NEW j \in DOMAIN list', i < j
      PROVE  InSubtree(Front(list'[i]), list'[j])
  <2>1. CASE i \in 1 .. R /\ j \in 1 .. R
    BY <1>2, <1>7, <1>9, <2>1
  <2>2. CASE i \in 1 .. R /\ j \notin 1 .. R
    <3>1. list'[i] = list[i] /\ list'[j] \in Children(n)
      BY <1>2, <2>2
    <3>2. Front(list[i]) \in Seq(Keys)
      BY <1>2, <1>3, <2>2, FrontPrefix
    <3> QED
      BY <1>2, <1>3, <1>5, <1>7, <2>2, <3>1, <3>2, SubtreeOrder
  <2>3. CASE i \notin 1 .. R
    <3>1. j \notin 1 .. R
      BY <1>2, <1>9, <2>3
    <3> QED
      BY <1>2, <1>5, <2>3, <3>1
  <2> QED
    BY <2>1, <2>2, <2>3
<1>10. ASSUME NEW i \in DOMAIN list', NEW m \in tree, InSubtree(m, list'[i]), m # list'[i]
       PROVE  Unbroken(m)'
  <2>1. CASE i \in 1 .. R
    <3> DEFINE x == list[i]
    <3>1. x \in tree /\ InSubtree(m, x) /\ m # x /\ InSubtree(Front(x), n)
      BY <1>2, <1>7, <1>10, <2>1
    <3> HIDE DEF x
    <3>2. x # Root
      BY <1>3, <3>1, TreeFacts, SubtreeOrder
    <3>3. Front(x) \in tree /\ x \in Children(Front(x))
      BY <3>1, <3>2, ParentFacts
    <3>4. InSubtree(m, Front(x))
      BY <3>1, <3>3, ChildFacts
    <3>5. InSubtree(m, n)
      BY <1>2, <1>3, <3>1, <3>3, <3>4, SubtreeOrder
    <3> QED
      BY <1>8, <3>5
  <2>2. CASE i \notin 1 .. R
    BY <1>2, <1>5, <1>8, <1>10, <2>2
  <2> QED
    BY <2>1, <2>2
<1> QED
  BY <1>1, <1>9, <1>10 DEF StackInv, InSubtree

\* Every step keeps the subtrees of a stack together.
LEMMA StepStack ==
  ASSUME Typing, PreInv, StackInv, [Next]_vars
  PROVE  StackInv'
<1>0. mode' = mode /\ tree' = tree
  BY StepFrame
<1>1. CASE mode # "stack"
  BY <1>0, <1>1 DEF StackInv
<1>2. CASE UNCHANGED <<list, out>>
  BY <1>0, <1>2 DEF StackInv, Unbroken, InSubtree
<1>3. CASE StartPre
  <2>1. list' = <<Root>> /\ (out' = <<>> \/ out' = <<Root>>)
    BY <1>3 DEF StartPre
  <2>2. /\ \A i, j \in DOMAIN list' : ~(i < j)
        /\ \A i, j \in DOMAIN out' : ~(i < j)
    BY <2>1
  <2> QED
    BY <2>2 DEF StackInv, Unbroken
<1>4. EndPre \/ UNCHANGED vars => UNCHANGED <<list, out>>
  BY DEF EndPre, vars
<1>5. StartPost \/ Descend \/ Ascend \/ EndPost => mode # "stack"
  BY DEF StartPost, Descend, Ascend, EndPost
<1> QED
  BY <1>1, <1>2, <1>3, <1>4, <1>5, StackVisit DEF Next

-----------------------------------------------------------------------------
(* Post order *)

\* The parts of the invariant, as the steps use them.
LEMMA PostParts ==
  ASSUME Typing, PostInv, mode = "post", pc = "loop"
  PROVE  /\ frames # <<>> /\ IsInjective(out) /\ Called \cap ToSet(out) = {}
         /\ \A i \in DOMAIN frames :
              /\ frames[i].node \in tree /\ frames[i].node \in Called /\ frames[i].todo \in Seq(tree)
              /\ Len(frames[i].node) = i - 1
              /\ IsInjective(frames[i].todo)
              /\ ToSet(frames[i].todo) \subseteq Children(frames[i].node) \ Reached
              /\ Children(frames[i].node) \subseteq ToSet(frames[i].todo) \cup Reached
              /\ \A n \in tree : InSubtree(n, frames[i].node) => Unbroken(n)
         /\ \A i, j \in DOMAIN frames : i <= j => InSubtree(frames[i].node, frames[j].node)
         /\ \A n \in ToSet(out) : Children(n) \subseteq ToSet(out)
         /\ \A n \in Reached : \A m \in tree : InSubtree(m, n) /\ m # n => m \in Reached
         /\ Called \subseteq tree /\ ToSet(out) \subseteq tree
<1>1. \A i \in DOMAIN frames : frames[i] \in Frames
  BY DEF Typing
<1>2. \A i \in DOMAIN frames : frames[i].node \in tree /\ frames[i].todo \in Seq(tree) /\ frames[i].node \in Called
  BY <1>1 DEF Frames, Called
<1>3. ToSet(out) \subseteq tree
  BY ToSetMember DEF Typing
<1>4. Called \subseteq tree
  BY <1>2 DEF Called
<1> QED
  BY <1>2, <1>3, <1>4 DEF PostInv

\* What is above the node of a call belongs to a call.
LEMMA CalledAncestors ==
  ASSUME Typing, PostInv, mode = "post", pc = "loop",
         NEW i \in DOMAIN frames, NEW m \in tree, InSubtree(m, frames[i].node)
  PROVE  m \in Called
<1>1. /\ frames[i].node \in tree /\ Len(frames[i].node) = i - 1 /\ tree \subseteq Seq(Keys) /\ Len(m) \in Nat
      /\ DOMAIN frames = 1 .. Len(frames) /\ Len(frames) \in Nat
  BY PostParts, TreeFacts DEF Typing
<1>2. Len(m) <= i - 1
  BY <1>1, SubtreeOrder
<1> DEFINE k == Len(m) + 1
<1>3. k \in DOMAIN frames /\ k <= i
  BY <1>1, <1>2
<1>4. /\ InSubtree(frames[k].node, frames[i].node) /\ Len(frames[k].node) = k - 1
      /\ frames[k].node \in tree /\ frames[k].node \in Called
  BY <1>3, PostParts
<1>5. Len(m) = Len(frames[k].node)
  BY <1>1, <1>4
<1> HIDE DEF k
<1>6. InSubtree(m, frames[k].node) /\ Len(frames[k].node) <= Len(m)
  BY <1>1, <1>4, <1>5, SubtreeOrder
<1>7. m = frames[k].node
  BY <1>1, <1>4, <1>6, SubtreeOrder
<1> QED
  BY <1>4, <1>7

\* The recursive call for a child: it was not reached, nor anything below it.
LEMMA DescendKeeps ==
  ASSUME Typing, PostInv, Descend, [Next]_vars
  PROVE  PostInv'
<1> DEFINE L == Len(frames)
           p == frames[L].node
           c == Head(Last(frames).todo)
<1>1. /\ c \in tree /\ mode = "post" /\ pc = "loop" /\ pc' = pc /\ out' = out
      /\ L \in Nat /\ L > 0 /\ DOMAIN frames = 1 .. L /\ DOMAIN frames' = 1 .. L + 1
      /\ \A i \in 1 .. L : frames'[i].node = frames[i].node
      /\ \A i \in 1 .. L : i # L => frames'[i].todo = frames[i].todo
      /\ frames[L].todo # <<>> /\ c = Head(frames[L].todo)
      /\ frames'[L].todo = Tail(frames[L].todo)
      /\ frames'[L + 1].node = c /\ frames'[L + 1].todo = ChildrenOf(c)
  BY DescendFacts
<1> HIDE DEF L, p, c
<1>2. L \in 1 .. L /\ L + 1 \in 1 .. L + 1 /\ \A i \in 1 .. L + 1 : i \in 1 .. L \/ i = L + 1
  BY <1>1
<1>3. \A i \in 1 .. L :
        /\ frames[i].node \in tree /\ frames[i].node \in Called /\ frames[i].todo \in Seq(tree)
        /\ Len(frames[i].node) = i - 1
        /\ IsInjective(frames[i].todo)
        /\ ToSet(frames[i].todo) \subseteq Children(frames[i].node) \ Reached
        /\ Children(frames[i].node) \subseteq ToSet(frames[i].todo) \cup Reached
        /\ \A n \in tree : InSubtree(n, frames[i].node) => Unbroken(n)
  BY <1>1, PostParts
<1>4. /\ ToSet(frames[L].todo) = ToSet(Tail(frames[L].todo)) \cup {c}
      /\ IsInjective(Tail(frames[L].todo)) /\ c \notin ToSet(Tail(frames[L].todo))
  BY <1>1, <1>2, <1>3, TailFacts
<1>5. c \in Children(p) /\ c \notin Reached /\ p \in tree /\ p \in Called /\ Len(p) = L - 1
  BY <1>2, <1>3, <1>4 DEF p
<1>6. /\ Len(c) = L /\ InSubtree(p, c) /\ c # p /\ \A m \in tree : InSubtree(m, c) /\ m # c => InSubtree(m, p)
  <2>1. Len(c) = Len(p) + 1 /\ InSubtree(p, c) /\ c # p /\ \A m \in tree : InSubtree(m, c) /\ m # c => InSubtree(m, p)
    BY <1>5, ChildFacts
  <2> QED
    BY <1>1, <1>5, <2>1
<1>7. tree \subseteq Seq(Keys)
  BY TreeFacts
<1>8. /\ tree' = tree /\ mode' = mode /\ \A m : Children(m)' = Children(m)
      /\ \A m : Unbroken(m)' = Unbroken(m)
  BY <1>1, StepFrame DEF Unbroken, InSubtree
<1>9. /\ ChildrenOf(c) \in Seq(tree) /\ IsInjective(ChildrenOf(c)) /\ ToSet(ChildrenOf(c)) = Children(c)
  BY <1>1, ChildrenOfFacts
<1>10. \A d \in Children(c) : d \in tree /\ d # c /\ InSubtree(c, d)
  BY <1>1, ChildFacts
<1>11. Called' = Called \cup {c} /\ ToSet(out') = ToSet(out) /\ Reached' = Reached \cup {c}
  <2>1. Called' = Called \cup {c}
    BY <1>1, <1>2 DEF Called
  <2> QED
    BY <1>1, <2>1 DEF Reached
<1>12. frames' # <<>> /\ IsInjective(out') /\ Called' \cap ToSet(out') = {}
  <2>1. IsInjective(out) /\ Called \cap ToSet(out) = {}
    BY <1>1, PostParts
  <2>2. frames' # <<>>
    BY <1>1, <1>2
  <2> QED
    BY <1>1, <1>5, <1>11, <2>1, <2>2 DEF Reached
<1>13. ASSUME NEW i \in 1 .. L + 1
       PROVE  /\ Len(frames'[i].node) = i - 1
              /\ IsInjective(frames'[i].todo)
              /\ ToSet(frames'[i].todo) \subseteq Children(frames'[i].node) \ Reached'
              /\ Children(frames'[i].node) \subseteq ToSet(frames'[i].todo) \cup Reached'
              /\ \A n \in tree : InSubtree(n, frames'[i].node) => Unbroken(n)
  <2>1. CASE i \in 1 .. L /\ i # L
    <3>1. c \notin Children(frames[i].node)
      <4>1. \A d \in Children(frames[i].node) : Len(d) = i - 1 + 1
        BY <1>3, <2>1, ChildFacts
      <4> QED
        BY <1>1, <1>6, <2>1, <4>1
    <3> QED
      BY <1>1, <1>3, <1>11, <2>1, <3>1
  <2>2. CASE i = L
    <3>1. frames'[i].node = p /\ frames'[i].todo = Tail(frames[L].todo)
      BY <1>1, <1>2, <2>2 DEF p
    <3>2. /\ Len(p) = L - 1
          /\ ToSet(frames[L].todo) \subseteq Children(p) \ Reached
          /\ Children(p) \subseteq ToSet(frames[L].todo) \cup Reached
          /\ \A n \in tree : InSubtree(n, p) => Unbroken(n)
      BY <1>2, <1>3 DEF p
    <3> QED
      BY <1>4, <1>11, <2>2, <3>1, <3>2
  <2>3. CASE i = L + 1
    <3>1. frames'[i].node = c /\ frames'[i].todo = ChildrenOf(c)
      BY <1>1, <2>3
    <3>2. Children(c) \cap Reached' = {}
      BY <1>1, <1>5, <1>10, <1>11, PostParts
    <3>3. Len(c) = i - 1
      BY <1>1, <1>6, <2>3
    <3>4. ASSUME NEW n \in tree, InSubtree(n, c) PROVE Unbroken(n)
      <4>1. CASE n = c
        <5>1. \A k \in DOMAIN out : out[k] \in Reached
          BY DEF Reached, ToSet
        <5>2. \A k \in DOMAIN out : ~InSubtree(c, out[k])
          BY <1>1, <1>5, <5>1, PostParts
        <5> QED
          BY <4>1, <5>2 DEF Unbroken
      <4>2. CASE n # c
        BY <1>2, <1>3, <1>6, <3>4, <4>2 DEF p
      <4> QED
        BY <4>1, <4>2
    <3> QED
      BY <1>9, <3>1, <3>2, <3>3, <3>4
  <2> QED
    BY <1>2, <2>1, <2>2, <2>3
<1>14. ASSUME NEW i \in 1 .. L + 1, NEW j \in 1 .. L + 1, i <= j
       PROVE  InSubtree(frames'[i].node, frames'[j].node)
  <2>0. \A k, l \in 1 .. L : k <= l => InSubtree(frames[k].node, frames[l].node)
    BY <1>1, PostParts
  <2>1. CASE j \in 1 .. L
    <3>1. i \in 1 .. L
      BY <1>1, <1>14, <2>1
    <3> QED
      BY <1>1, <1>14, <2>0, <2>1, <3>1
  <2>2. CASE j = L + 1 /\ i \in 1 .. L
    <3>1. InSubtree(frames[i].node, p) /\ frames[i].node \in tree
      BY <1>1, <1>2, <1>3, <2>0, <2>2 DEF p
    <3> QED
      BY <1>1, <1>5, <1>6, <1>7, <2>2, <3>1, SubtreeOrder
  <2>3. CASE j = L + 1 /\ i = L + 1
    BY <1>1, <1>7, <2>3, SubtreeOrder
  <2> QED
    BY <1>2, <2>1, <2>2, <2>3
<1>15. \A n \in ToSet(out') : Children(n) \subseteq ToSet(out')
  BY <1>1, <1>11, PostParts
<1>16. ASSUME NEW n \in Reached', NEW m \in tree, InSubtree(m, n), m # n PROVE m \in Reached'
  <2>1. CASE n \in Reached
    BY <1>1, <1>11, <1>16, <2>1, PostParts
  <2>2. CASE n = c
    <3>1. InSubtree(m, p)
      BY <1>6, <1>16, <2>2
    <3>2. m \in Called
      BY <1>1, <1>2, <3>1, CalledAncestors DEF p
    <3> QED
      BY <1>11, <3>2 DEF Reached
  <2> QED
    BY <1>11, <2>1, <2>2
<1> QED
  BY <1>1, <1>8, <1>12, <1>13, <1>14, <1>15, <1>16 DEF PostInv, InSubtree

\* A call that is done yields its node: all its children were yielded, and it is
\* the innermost of the calls.
LEMMA AscendKeeps ==
  ASSUME Typing, PostInv, Ascend, [Next]_vars
  PROVE  PostInv'
<1> DEFINE L == Len(frames)
           n == frames[L].node
<1>1. /\ mode = "post" /\ pc = "loop" /\ pc' = pc /\ L \in Nat /\ L > 1 /\ DOMAIN frames = 1 .. L
      /\ DOMAIN frames' = 1 .. L - 1 /\ frames' # <<>> /\ \A i \in 1 .. L - 1 : frames'[i] = frames[i]
      /\ n \in tree /\ frames[L].todo = <<>> /\ out' = Append(out, n) /\ ToSet(out') = ToSet(out) \cup {n}
  BY AscendFacts
<1>2. L \in 1 .. L /\ (\A i \in 1 .. L - 1 : i \in 1 .. L) /\ \A i \in 1 .. L : i \in 1 .. L - 1 \/ i = L
  BY <1>1
<1>3. \A i \in 1 .. L :
        /\ frames[i].node \in tree /\ frames[i].node \in Called
        /\ Len(frames[i].node) = i - 1
        /\ IsInjective(frames[i].todo)
        /\ ToSet(frames[i].todo) \subseteq Children(frames[i].node) \ Reached
        /\ Children(frames[i].node) \subseteq ToSet(frames[i].todo) \cup Reached
        /\ \A m \in tree : InSubtree(m, frames[i].node) => Unbroken(m)
  BY <1>1, PostParts
<1>4. \A i, j \in 1 .. L : i <= j => InSubtree(frames[i].node, frames[j].node)
  BY <1>1, PostParts
<1>5. tree' = tree /\ mode' = mode /\ \A m : Children(m)' = Children(m)
  BY StepFrame
<1>6. tree \subseteq Seq(Keys)
  BY TreeFacts
<1> HIDE DEF L
<1>7. n \in Called /\ Len(n) = L - 1 /\ n \notin ToSet(out) /\ Called \cap ToSet(out) = {} /\ IsInjective(out)
  <2>1. n \in Called /\ Len(n) = L - 1
    BY <1>2, <1>3
  <2> QED
    BY <1>1, <2>1, PostParts
<1>8. Called' = Called \ {n}
  <2>1. \A i \in 1 .. L - 1 : frames[i].node # n
    BY <1>1, <1>2, <1>3, <1>7
  <2>2. Called = {frames[i].node : i \in 1 .. L} /\ Called' = {frames'[i].node : i \in 1 .. L - 1}
    BY <1>1 DEF Called
  <2> HIDE DEF n
  <2>3. ASSUME NEW x PROVE x \in Called' <=> x \in Called /\ x # n
    BY <1>1, <1>2, <2>1, <2>2 DEF n
  <2> QED
    BY <2>3
<1>9. Reached' = Reached
  BY <1>1, <1>7, <1>8 DEF Reached
<1>10. Children(n) \subseteq ToSet(out)
  <2>1. ToSet(frames[L].todo) = {}
    BY <1>1 DEF ToSet
  <2>2. Children(n) \subseteq Reached
    BY <1>2, <1>3, <2>1
  <2>3. \A d \in Children(n) : Len(d) = L - 1 + 1
    BY <1>1, <1>7, ChildFacts
  <2>4. \A d \in Called : Len(d) < L
    BY <1>1, <1>3 DEF Called
  <2> QED
    BY <1>1, <2>2, <2>3, <2>4 DEF Reached
<1>11. ASSUME NEW i \in 1 .. L - 1, NEW m \in tree, InSubtree(m, frames[i].node) PROVE Unbroken(m)'
  <2>1. Unbroken(m) /\ InSubtree(frames[i].node, n) /\ frames[i].node \in tree
    BY <1>1, <1>2, <1>3, <1>4, <1>11
  <2>2. InSubtree(m, n)
    BY <1>1, <1>6, <1>11, <2>1, SubtreeOrder
  <2> QED
    BY <1>1, <2>1, <2>2, UnbrokenAppend
<1>12. IsInjective(out')
  BY <1>1, <1>7, InjectiveAppend DEF Typing
<1>13. Called' \cap ToSet(out') = {}
  BY <1>1, <1>7, <1>8
<1>14. \A x \in ToSet(out') : Children(x) \subseteq ToSet(out')
  <2>1. \A x \in ToSet(out) : Children(x) \subseteq ToSet(out)
    BY <1>1, PostParts
  <2> HIDE DEF n
  <2> QED
    BY <1>1, <1>10, <2>1
<1>15. \A x \in Reached' : \A m \in tree : InSubtree(m, x) /\ m # x => m \in Reached'
  BY <1>1, <1>9, PostParts
<1> HIDE DEF n
<1>16. \A i \in 1 .. L - 1 :
         /\ Len(frames'[i].node) = i - 1
         /\ IsInjective(frames'[i].todo)
         /\ ToSet(frames'[i].todo) \subseteq Children(frames'[i].node) \ Reached'
         /\ Children(frames'[i].node) \subseteq ToSet(frames'[i].todo) \cup Reached'
         /\ \A m \in tree : InSubtree(m, frames'[i].node) => Unbroken(m)'
  BY <1>1, <1>2, <1>3, <1>9, <1>11
<1>17. \A i, j \in 1 .. L - 1 : i <= j => InSubtree(frames'[i].node, frames'[j].node)
  BY <1>1, <1>2, <1>4
<1> QED
  BY <1>1, <1>5, <1>12, <1>13, <1>14, <1>15, <1>16, <1>17 DEF PostInv, InSubtree

\* Every step keeps the invariant of the recursion.
LEMMA StepPost ==
  ASSUME Typing, PostInv, [Next]_vars
  PROVE  PostInv'
<1>0. tree' = tree /\ mode' = mode /\ \A m : Children(m)' = Children(m)
  BY StepFrame
<1>1. CASE mode # "post"
  BY <1>0, <1>1 DEF PostInv
<1>2. CASE StartPost
  <2>1. frames' = <<Frame(Root)>> /\ out' = out /\ out = <<>>
    BY <1>2 DEF StartPost, Typing
  <2>2. /\ ToSet(out') = {} /\ DOMAIN out' = {} /\ IsInjective(out')
        /\ DOMAIN frames' = {1} /\ frames'[1] = Frame(Root) /\ frames' # <<>>
    BY <2>1 DEF ToSet, IsInjective
  <2>3. Frame(Root).node = Root /\ Frame(Root).todo = ChildrenOf(Root) /\ Len(Root) = 0
    BY TreeFacts DEF Frame
  <2>4. Called' = {Root} /\ Reached' = {Root}
    BY <2>2, <2>3 DEF Called, Reached
  <2>5. IsInjective(ChildrenOf(Root)) /\ ToSet(ChildrenOf(Root)) = Children(Root) /\ Root \notin Children(Root)
    BY TreeFacts, ChildrenOfFacts, ChildFacts
  <2>6. InSubtree(Root, Root) /\ \A m \in tree : InSubtree(m, Root) => m = Root
    BY TreeFacts, SubtreeOrder
  <2>7. \A m : Unbroken(m)'
    BY <2>2 DEF Unbroken
  <2> QED
    BY <1>0, <2>2, <2>3, <2>4, <2>5, <2>6, <2>7 DEF PostInv, InSubtree
<1>3. CASE EndPost
  BY <1>3 DEF EndPost, PostInv
<1>4. CASE UNCHANGED vars
  BY <1>0, <1>4 DEF vars, PostInv, Called, Reached, Unbroken, InSubtree
<1>5. StartPre \/ VisitPre \/ EndPre => mode # "post"
  BY DEF StartPre, VisitPre, EndPre
<1> QED
  BY <1>1, <1>2, <1>3, <1>4, <1>5, DescendKeeps, AscendKeeps DEF Next

-----------------------------------------------------------------------------
(* Nothing is missed *)

\* What holds the root, and the children of all it holds, holds the tree: of the
\* nodes it misses there would be one at the lowest level.
LEMMA WholeTreeReached ==
  ASSUME Typing, NEW S, Root \in S, \A n \in S \cap tree : Children(n) \subseteq S
  PROVE  tree \subseteq S
<1> SUFFICES ASSUME NEW x \in tree, x \notin S PROVE FALSE
  OBVIOUS
<1> DEFINE T == {Len(n) : n \in tree \ S}
<1>1. T \subseteq Nat /\ T # {}
  BY TreeFacts
<1>2. PICK l \in T : \A k \in T : ~(<<k, l>> \in OpToRel(<, Nat))
  <2> HIDE DEF T
  <2> QED
    BY <1>1, NatLessThanWellFounded, WFMin
<1>3. PICK n \in tree \ S : Len(n) = l
  OBVIOUS
<1>4. Front(n) \in tree /\ n \in Children(Front(n)) /\ Len(Front(n)) < Len(n)
  BY <1>3, ParentFacts
<1>5. Front(n) \notin S
  BY <1>3, <1>4
<1>6. Len(Front(n)) \in T
  BY <1>4, <1>5
<1>7. Len(Front(n)) \in Nat /\ l \in Nat
  BY <1>1, <1>2, <1>6
<1>8. <<Len(Front(n)), l>> \in OpToRel(<, Nat)
  BY <1>3, <1>4, <1>7 DEF OpToRel
<1> QED
  BY <1>2, <1>6, <1>8

\* The root's call is the last: all that is below it was yielded.
LEMMA EndPostFacts ==
  ASSUME Typing, PostInv, EndPost
  PROVE  /\ out' = (IF based THEN Append(out, Root) ELSE out) /\ pc' = "end" /\ Root \notin ToSet(out)
         /\ IsInjective(out) /\ ToSet(out) = tree \ {Root} /\ Root \in tree
         /\ mode = "post" /\ pc = "loop"
<1>1. /\ mode = "post" /\ pc = "loop" /\ Len(frames) = 1 /\ Last(frames).todo = <<>>
      /\ out' = (IF based THEN Append(out, Root) ELSE out) /\ pc' = "end" /\ frames \in Seq(Frames)
  BY DEF EndPost, Typing
<1>2. DOMAIN frames = {1} /\ frames[1].todo = <<>>
  BY <1>1 DEF Last
<1>3. frames[1].node = Root /\ Root \in tree
  <2>1. frames[1].node \in tree /\ Len(frames[1].node) = 1 - 1
    BY <1>1, <1>2, PostParts
  <2> QED
    BY <2>1, TreeFacts
<1>4. Called = {Root}
  BY <1>2, <1>3 DEF Called
<1>5. ToSet(frames[1].todo) = {}
  BY <1>2 DEF ToSet
<1>6. Children(Root) \subseteq ToSet(out) \cup {Root}
  BY <1>1, <1>2, <1>3, <1>4, <1>5, PostParts DEF Reached
<1>7. /\ \A n \in ToSet(out) : Children(n) \subseteq ToSet(out)
      /\ IsInjective(out) /\ Called \cap ToSet(out) = {} /\ ToSet(out) \subseteq tree
  BY <1>1, PostParts
<1>8. tree \subseteq ToSet(out) \cup {Root}
  <2>1. \A n \in (ToSet(out) \cup {Root}) \cap tree : Children(n) \subseteq ToSet(out) \cup {Root}
    BY <1>6, <1>7
  <2> QED
    BY <2>1, WholeTreeReached
<1> QED
  BY <1>1, <1>3, <1>4, <1>7, <1>8

\* Every step keeps a traversal free of repetition, and ends it only when all was
\* yielded.
LEMMA StepOnce ==
  ASSUME Typing, PreInv, PostInv, EachOnce, [Next]_vars
  PROVE  EachOnce'
<1>0. tree' = tree /\ mode' = mode /\ based' = based
  BY StepFrame
<1>1. CASE UNCHANGED <<out, pc>>
  BY <1>0, <1>1 DEF EachOnce
<1>2. CASE StartPre
  <2>1. (out' = <<>> \/ out' = <<Root>>) /\ pc' = "loop"
    BY <1>2 DEF StartPre
  <2>2. IsInjective(<<>>) /\ IsInjective(<<Root>>)
    BY DEF IsInjective
  <2> QED
    BY <2>1, <2>2 DEF EachOnce
<1>3. CASE VisitPre
  <2>1. PreInv' /\ mode # "post" /\ pc' = "loop"
    BY <1>3, VisitKeeps, VisitFacts
  <2> QED
    BY <1>0, <2>1 DEF PreInv, EachOnce
<1>4. CASE EndPre
  <2>1. list = <<>> /\ out' = out /\ pc = "loop" /\ pc' = "end" /\ mode # "post"
    BY <1>4 DEF EndPre
  <2>2. ToSet(list) = {} /\ Entered = ToSet(out) \cup {Root}
    BY <2>1 DEF ToSet, Entered
  <2>3. /\ IsInjective(out) /\ (Root \in ToSet(out) <=> based)
        /\ \A n \in ToSet(out) \cup {Root} : Children(n) \subseteq ToSet(out) \cup {Root}
    BY <2>1, <2>2 DEF PreInv
  <2>4. tree \subseteq ToSet(out) \cup {Root}
    BY <2>3, WholeTreeReached
  <2>5. ToSet(out) \subseteq tree /\ Root \in tree
    BY ToSetMember, TreeFacts DEF Typing
  <2>6. ToSet(out) = IF based THEN tree ELSE tree \ {Root}
    BY <2>3, <2>4, <2>5
  <2> QED
    BY <1>0, <2>1, <2>3, <2>6 DEF EachOnce
<1>5. CASE StartPost
  BY <1>5 DEF StartPost, EachOnce
<1>6. CASE Descend
  <2>1. out' = out /\ pc' = pc
    BY <1>6 DEF Descend
  <2> QED
    BY <1>1, <2>1
<1>7. CASE Ascend
  <2>1. PostInv' /\ mode = "post" /\ pc' = "loop"
    BY <1>7, AscendKeeps, AscendFacts
  <2> QED
    BY <1>0, <2>1 DEF PostInv, EachOnce
<1>8. CASE EndPost
  <2>1. /\ out' = (IF based THEN Append(out, Root) ELSE out) /\ pc' = "end" /\ Root \notin ToSet(out)
        /\ IsInjective(out) /\ ToSet(out) = tree \ {Root} /\ Root \in tree /\ out \in Seq(tree)
    BY <1>8, EndPostFacts DEF Typing
  <2>2. CASE based
    <3>1. out' = Append(out, Root)
      BY <2>1, <2>2
    <3>2. IsInjective(out') /\ ToSet(out') = ToSet(out) \cup {Root}
      BY <2>1, <3>1, InjectiveAppend, ToSetAppend
    <3>3. ToSet(out') = tree
      BY <2>1, <3>2
    <3> QED
      BY <1>0, <2>2, <3>2, <3>3 DEF EachOnce
  <2>3. CASE ~based
    <3>1. out' = out
      BY <2>1, <2>3
    <3> QED
      BY <1>0, <2>1, <2>3, <3>1 DEF EachOnce
  <2> QED
    BY <2>2, <2>3
<1>9. UNCHANGED vars => UNCHANGED <<out, pc>>
  BY DEF vars
<1> QED
  BY <1>1, <1>2, <1>3, <1>4, <1>5, <1>6, <1>7, <1>8, <1>9 DEF Next

-----------------------------------------------------------------------------
(* The order *)

\* A node is yielded after those above it in pre order, before them in post order.
LEMMA StepAncestor ==
  ASSUME Typing, PreInv, PostInv, AncestorOrder, [Next]_vars
  PROVE  AncestorOrder'
<1>0. mode' = mode
  BY StepFrame
<1>1. CASE out' = out
  BY <1>0, <1>1 DEF AncestorOrder, InSubtree
<1>2. CASE StartPre
  <2>1. out' = <<>> \/ out' = <<Root>>
    BY <1>2 DEF StartPre
  <2>2. \A i, j \in DOMAIN out' : out'[i] = out'[j]
    BY <2>1
  <2> QED
    BY <2>2 DEF AncestorOrder
<1>3. CASE VisitPre
  <2>1. /\ list # <<>> /\ mode # "post" /\ pc = "loop"
        /\ out' = IF Popped = Root THEN out ELSE Append(out, Popped)
    BY <1>3, VisitFacts
  <2>2. Popped \in tree /\ \A m \in ToSet(out) : InSubtree(Popped, m) => m = Popped
    BY <2>1, PopFacts, PopFresh
  <2>3. \A i \in DOMAIN out : InSubtree(Popped, out[i]) => out[i] = Popped
    BY <2>2 DEF ToSet
  <2>4. CASE Popped # Root
    BY <1>0, <2>1, <2>2, <2>3, <2>4, AncestorAppend
  <2> QED
    BY <1>1, <2>1, <2>4
<1>4. CASE Ascend
  <2> DEFINE n == frames[Len(frames)].node
  <2>1. /\ mode = "post" /\ pc = "loop" /\ n \in tree /\ out' = Append(out, n) /\ Len(frames) \in DOMAIN frames
    <3>1. /\ mode = "post" /\ pc = "loop" /\ n \in tree /\ out' = Append(out, n)
          /\ Len(frames) \in Nat /\ Len(frames) > 1 /\ DOMAIN frames = 1 .. Len(frames)
      BY <1>4, AscendFacts
    <3> QED
      BY <3>1
  <2>2. \A m \in tree : InSubtree(m, n) => m \in Called
    BY <2>1, CalledAncestors
  <2>3. Called \cap ToSet(out) = {} /\ ToSet(out) \subseteq tree
    BY <2>1, PostParts
  <2>4. \A i \in DOMAIN out : out[i] \in ToSet(out)
    BY DEF ToSet
  <2> HIDE DEF n
  <2>5. \A i \in DOMAIN out : ~InSubtree(out[i], n)
    BY <2>2, <2>3, <2>4
  <2> QED
    BY <1>0, <2>1, <2>5, AncestorAppend
<1>5. CASE EndPost
  <2>1. /\ out' = (IF based THEN Append(out, Root) ELSE out) /\ mode = "post" /\ Root \in tree
        /\ ToSet(out) = tree \ {Root}
    BY <1>5, EndPostFacts
  <2>2. \A i \in DOMAIN out : InSubtree(out[i], Root) => out[i] = Root
    <3>1. \A i \in DOMAIN out : out[i] \in tree
      BY DEF Typing
    <3> QED
      BY <3>1, TreeFacts, SubtreeOrder
  <2>3. CASE out' = Append(out, Root)
    BY <1>0, <2>1, <2>2, <2>3, AncestorAppend
  <2> QED
    BY <1>1, <2>1, <2>3
<1>6. EndPre \/ StartPost \/ Descend \/ UNCHANGED vars => out' = out
  BY DEF EndPre, StartPost, Descend, vars
<1> QED
  BY <1>1, <1>2, <1>3, <1>4, <1>5, <1>6 DEF Next

\* What a stack pops is in no subtree that was left, and what a call yields is
\* in the subtrees of all the calls.
LEMMA StepDepth ==
  ASSUME Typing, PreInv, StackInv, PostInv, DepthOrder, [Next]_vars
  PROVE  DepthOrder'
<1>0. mode' = mode /\ tree' = tree
  BY StepFrame
<1>1. CASE out' = out
  BY <1>0, <1>1 DEF DepthOrder, InSubtree
<1>2. CASE StartPre
  <2>1. out' = <<>> \/ out' = <<Root>>
    BY <1>2 DEF StartPre
  <2>2. \A i, j \in DOMAIN out' : ~(i < j)
    BY <2>1
  <2> QED
    BY <2>2 DEF DepthOrder
<1>3. CASE mode = "queue"
  BY <1>0, <1>3 DEF DepthOrder
<1>4. CASE mode # "queue" /\ VisitPre
  <2>1. /\ list # <<>> /\ mode = "stack" /\ pc = "loop"
        /\ out' = IF Popped = Root THEN out ELSE Append(out, Popped)
    BY <1>4, VisitFacts DEF Typing
  <2>2. Popped \in tree /\ \A m \in tree : InSubtree(m, Popped) => Unbroken(m)
    BY <2>1, PopFacts, PopUnbroken
  <2>3. CASE Popped # Root
    BY <1>0, <2>1, <2>2, <2>3, DepthAppend
  <2> QED
    BY <1>1, <2>1, <2>3
<1>5. CASE Ascend
  <2> DEFINE n == frames[Len(frames)].node
  <2>1. /\ mode = "post" /\ pc = "loop" /\ n \in tree /\ out' = Append(out, n) /\ Len(frames) \in DOMAIN frames
    <3>1. /\ mode = "post" /\ pc = "loop" /\ n \in tree /\ out' = Append(out, n)
          /\ Len(frames) \in Nat /\ Len(frames) > 1 /\ DOMAIN frames = 1 .. Len(frames)
      BY <1>5, AscendFacts
    <3> QED
      BY <3>1
  <2>2. \A m \in tree : InSubtree(m, n) => Unbroken(m)
    BY <2>1, PostParts
  <2> HIDE DEF n
  <2> QED
    BY <1>0, <2>1, <2>2, DepthAppend
<1>6. CASE EndPost
  <2>1. out' = (IF based THEN Append(out, Root) ELSE out) /\ Root \in tree
    BY <1>6, EndPostFacts
  <2>2. ASSUME NEW m \in tree, InSubtree(m, Root) PROVE Unbroken(m)
    <3>1. m = Root /\ \A i \in DOMAIN out : out[i] \in tree
      BY <2>2, TreeFacts, SubtreeOrder DEF Typing
    <3> QED
      BY <3>1, TreeFacts DEF Unbroken
  <2>3. CASE out' = Append(out, Root)
    BY <1>0, <2>1, <2>2, <2>3, DepthAppend
  <2> QED
    BY <1>1, <2>1, <2>3
<1>7. EndPre \/ StartPost \/ Descend \/ UNCHANGED vars => out' = out
  BY DEF EndPre, StartPost, Descend, vars
<1> QED
  BY <1>1, <1>2, <1>3, <1>4, <1>5, <1>6, <1>7 DEF Next

-----------------------------------------------------------------------------
(* The inductive invariant and the properties *)

\* A traversal starts in the inductive invariant.
LEMMA InitIInv == Init => IInv
<1> SUFFICES ASSUME Init PROVE IInv
  OBVIOUS
<1>1. /\ tree \in Trees /\ mode \in Modes /\ based \in BOOLEAN
      /\ list = <<>> /\ frames = <<>> /\ out = <<>> /\ pc = "start"
  BY DEF Init
<1>2. Typing
  BY <1>1, KeysAssumption DEF Typing
<1>3. DOMAIN out = {} /\ DOMAIN list = {}
  BY <1>1
<1>4. PreInv /\ PostInv
  BY <1>1 DEF PreInv, PostInv
<1>5. QueueInv /\ StackInv
  BY <1>3 DEF QueueInv, StackInv
<1>6. EachOnce
  BY <1>1, <1>3 DEF EachOnce, IsInjective
<1>7. AncestorOrder /\ BreadthOrder /\ DepthOrder
  BY <1>3 DEF AncestorOrder, BreadthOrder, DepthOrder
<1> QED
  BY <1>2, <1>4, <1>5, <1>6, <1>7 DEF IInv

\* Every step keeps the inductive invariant.
LEMMA StepIInv == IInv /\ [Next]_vars => IInv'
<1> SUFFICES ASSUME IInv, [Next]_vars PROVE IInv'
  OBVIOUS
<1>0. /\ Typing /\ PreInv /\ QueueInv /\ StackInv /\ PostInv
      /\ EachOnce /\ AncestorOrder /\ BreadthOrder /\ DepthOrder
  BY DEF IInv
<1>1. Typing' /\ PreInv' /\ PostInv'
  BY <1>0, StepTyping, StepPre, StepPost
<1>2. QueueInv' /\ BreadthOrder' /\ StackInv'
  BY <1>0, StepQueue, StepStack
<1>3. EachOnce' /\ AncestorOrder' /\ DepthOrder'
  BY <1>0, StepOnce, StepAncestor, StepDepth
<1> QED
  BY <1>1, <1>2, <1>3 DEF IInv

\* The inductive invariant holds of every traversal of every tree, with a loop
\* that follows it or without.
THEOREM Invariance == WholeSpec => []IInv
<1>1. WholeInit => IInv
  BY InitIInv DEF WholeInit, PruneInit
<1>2. [WholeNext]_<<vars, pruneVars, wholeVars>> => [Next]_vars
  BY DEF WholeNext
<1> QED
  BY <1>1, <1>2, StepIInv, PTL DEF WholeSpec

\* Whatever the tree and the list, a traversal yields no node twice and ends with
\* all of them yielded, the root exactly when its reference was given.
THEOREM EachOnceHolds == WholeSpec => []EachOnce
<1>1. IInv => EachOnce
  BY DEF IInv
<1> QED
  BY <1>1, Invariance, PTL

\* Pre order yields a node after all above it, post order before all of them:
\* pruneTree knows of the whole subtree of a node when it decides about the node.
THEOREM AncestorOrderHolds == WholeSpec => []AncestorOrder
<1>1. IInv => AncestorOrder
  BY DEF IInv
<1> QED
  BY <1>1, Invariance, PTL

\* A Queue yields level by level.
THEOREM BreadthOrderHolds == WholeSpec => []BreadthOrder
<1>1. IInv => BreadthOrder
  BY DEF IInv
<1> QED
  BY <1>1, Invariance, PTL

\* A stack and the recursion yield each subtree without interruption, which the
\* stack of maps of pruneTree and the stack of deserializeWholeTree rely on.
THEOREM DepthOrderHolds == WholeSpec => []DepthOrder
<1>1. IInv => DepthOrder
  BY DEF IInv
<1> QED
  BY <1>1, Invariance, PTL

-----------------------------------------------------------------------------
(* pruneTree: the inductive invariant *)

\* What the map of a level holds for the children of n that were yielded.
MapOf(n) == [key \in {Last(c) : c \in Children(n) \cap ToSet(out)} |-> ~Live(Append(n, key))]

Maps == UNION {[S -> BOOLEAN] : S \in SUBSET (Keys \cup {RootKey})}

\* Below the maps of the calls under way there is none: the map of the children of
\* a call is there, and is theirs, as soon as one of them was yielded.
MapInv ==
  /\ stack \in Seq(Maps \cup {NoMap}) /\ Len(stack) <= Len(frames) + 2
  /\ \A i \in DOMAIN frames :
       IF i + 2 \in DOMAIN stack /\ stack[i + 2] # NoMap THEN stack[i + 2] = MapOf(frames[i].node)
       ELSE Children(frames[i].node) \cap ToSet(out) = {}

\* A node is gone when it, or a node above it, is not live and the parent of that
\* was yielded.
KeptNow == {m \in tree : \A c \in tree : c # Root /\ InSubtree(c, m) /\ Front(c) \in ToSet(out) => Live(c)}

ValueNow == [n \in tree |-> IF n \in ToSet(out) /\ given[n] # "live" THEN "none" ELSE given[n]]

PruneInv ==
  /\ given \in [tree -> {"live", "expired", "none"}]
  /\ ~Pruning => kept = tree /\ value = given
  /\ Pruning =>
       /\ kept = KeptNow /\ value = ValueNow
       /\ ~changed => \A n \in ToSet(out) : given[n] = "live"
       /\ pc # "end" => MapInv

-----------------------------------------------------------------------------
(* pruneTree *)

\* stack[l] ??= new Map(), and its entry: holes are left below it.
LEMMA EntryFacts ==
  ASSUME NEW s \in Seq(Maps \cup {NoMap}), NEW l \in Nat, Len(s) <= l + 1,
         NEW key \in Keys \cup {RootKey}, NEW b, b \in BOOLEAN, NEW t, t = WithEntry(s, l, key, b)
  PROVE  /\ t \in Seq(Maps \cup {NoMap}) /\ Len(t) = l + 1 /\ DOMAIN t = 1 .. l + 1
         /\ \A i \in 1 .. l : t[i] = IF i \in DOMAIN s THEN s[i] ELSE NoMap
         /\ t[l + 1] # NoMap
         /\ IF l + 1 \in DOMAIN s /\ s[l + 1] # NoMap THEN t[l + 1] = Put(s[l + 1], key, b)
            ELSE t[l + 1] = Put(<< >>, key, b)
<1> DEFINE w == WithMap(s, l)
           old == IF l + 1 \in DOMAIN s /\ s[l + 1] # NoMap THEN s[l + 1] ELSE << >>
<1>1. Len(s) \in Nat /\ DOMAIN s = 1 .. Len(s) /\ \A i \in 1 .. Len(s) : s[i] \in Maps \cup {NoMap}
  OBVIOUS
<1>2. (IF l + 1 > Len(s) THEN l + 1 ELSE Len(s)) = l + 1
  BY <1>1
<1>3. /\ DOMAIN w = 1 .. l + 1 /\ w = [i \in 1 .. l + 1 |-> w[i]]
      /\ \A i \in 1 .. l : w[i] = IF i \in DOMAIN s THEN s[i] ELSE NoMap
      /\ w[l + 1] = old
  BY <1>2 DEF WithMap
<1>4. t = [w EXCEPT ![l + 1] = Put(@, key, b)]
  BY DEF WithEntry
<1> HIDE DEF w
<1>5. /\ DOMAIN t = 1 .. l + 1 /\ t = [i \in 1 .. l + 1 |-> t[i]]
      /\ \A i \in 1 .. l : t[i] = IF i \in DOMAIN s THEN s[i] ELSE NoMap
      /\ t[l + 1] = Put(old, key, b)
  <2> HIDE DEF old
  <2>1. l + 1 \in 1 .. l + 1 /\ \A i \in 1 .. l : i \in 1 .. l + 1 /\ i # l + 1
    OBVIOUS
  <2>2. DOMAIN t = 1 .. l + 1 /\ t = [i \in 1 .. l + 1 |-> t[i]]
    BY <1>3, <1>4
  <2>3. t[l + 1] = Put(w[l + 1], key, b)
    BY <1>3, <1>4, <2>1
  <2>4. \A i \in 1 .. l : t[i] = w[i]
    BY <1>3, <1>4, <2>1
  <2> QED
    BY <1>3, <2>2, <2>3, <2>4
<1>6. old \in Maps
  <2>1. << >> \in [{} -> BOOLEAN]
    OBVIOUS
  <2>2. << >> \in Maps
    BY <2>1 DEF Maps
  <2> QED
    BY <1>1, <2>2
<1>7. PICK S \in SUBSET (Keys \cup {RootKey}) : old \in [S -> BOOLEAN]
  BY <1>6 DEF Maps
<1>8. Put(old, key, b) \in [{key} \cup S -> BOOLEAN]
  <2> HIDE DEF old
  <2> QED
    BY <1>7 DEF Put
<1>9. Put(old, key, b) \in Maps /\ Put(old, key, b) # NoMap
  <2>1. {key} \cup S \in SUBSET (Keys \cup {RootKey})
    OBVIOUS
  <2> HIDE DEF old
  <2> QED
    BY <1>8, <2>1, NoMapAssumption DEF Maps
<1>10. \A i \in 1 .. l + 1 : t[i] \in Maps \cup {NoMap}
  <2>1. \A i \in 1 .. l + 1 : i \in 1 .. l \/ i = l + 1
    OBVIOUS
  <2> HIDE DEF old
  <2> QED
    BY <1>1, <1>5, <1>9, <2>1
<1>11. t \in Seq(Maps \cup {NoMap}) /\ Len(t) = l + 1
  <2>1. \A k \in Nat : \A g \in [1 .. k -> Maps \cup {NoMap}] : g \in Seq(Maps \cup {NoMap}) /\ Len(g) = k
    OBVIOUS
  <2>2. t \in [1 .. l + 1 -> Maps \cup {NoMap}]
    BY <1>5, <1>10
  <2> QED
    BY <2>1, <2>2
<1> QED
  BY <1>5, <1>9, <1>11

\* The node below n on the way to a node of its subtree is in the tree.
LEMMA Toward ==
  ASSUME Typing, NEW n \in tree, NEW m \in tree, InSubtree(n, m), m # n
  PROVE  \E c \in Children(n) : InSubtree(c, m)
<1> DEFINE Chain == {x \in tree : InSubtree(x, m) /\ InSubtree(n, x) /\ x # n}
           T == {Len(x) : x \in Chain}
<1>1. tree \subseteq Seq(Keys) /\ m \in Chain
  BY TreeFacts, SubtreeOrder
<1>2. T \subseteq Nat /\ T # {}
  BY <1>1, TreeFacts
<1>3. PICK l \in T : \A k \in T : ~(<<k, l>> \in OpToRel(<, Nat))
  <2> HIDE DEF T
  <2> QED
    BY <1>2, NatLessThanWellFounded, WFMin
<1>4. PICK c \in Chain : Len(c) = l
  OBVIOUS
<1>5. c \in tree /\ InSubtree(c, m) /\ InSubtree(n, c) /\ c # n /\ Len(n) \in Nat /\ Len(c) \in Nat
  BY <1>4, TreeFacts
<1>6. c # Root
  BY <1>1, <1>5, TreeFacts, SubtreeOrder
<1>7. /\ Front(c) \in tree /\ c \in Children(Front(c)) /\ Len(Front(c)) < Len(c) /\ InSubtree(Front(c), c)
      /\ Len(c) = Len(Front(c)) + 1
  BY <1>5, <1>6, ParentFacts, ChildFacts
<1>8. InSubtree(n, Front(c)) /\ InSubtree(Front(c), m)
  BY <1>1, <1>5, <1>7, ChildFacts, SubtreeOrder
<1>9. Front(c) = n
  <2> SUFFICES ASSUME Front(c) # n PROVE FALSE
    OBVIOUS
  <2>1. Len(Front(c)) \in T
    BY <1>7, <1>8
  <2>2. Len(Front(c)) \in Nat /\ l \in Nat
    BY <1>2, <1>3, <2>1
  <2>3. <<Len(Front(c)), l>> \in OpToRel(<, Nat)
    BY <1>4, <1>7, <2>2 DEF OpToRel
  <2> QED
    BY <1>3, <2>1, <2>3
<1> QED
  BY <1>5, <1>7, <1>9

\* A node is live if its own value or a child is.
LEMMA LiveFacts ==
  ASSUME Typing, NEW n \in tree
  PROVE  /\ Live(n) <=> given[n] = "live" \/ \E c \in Children(n) : Live(c)
         /\ \A m \in tree : InSubtree(n, m) /\ Live(m) => Live(n)
<1>1. tree \subseteq Seq(Keys)
  BY TreeFacts
<1>2. \A m \in tree : InSubtree(n, m) /\ Live(m) => Live(n)
  BY <1>1, SubtreeOrder DEF Live, InSubtree
<1>3. given[n] = "live" => Live(n)
  BY <1>1, SubtreeOrder DEF Live, InSubtree
<1>4. (\E c \in Children(n) : Live(c)) => Live(n)
  BY <1>2, ChildFacts
<1>5. ASSUME Live(n) PROVE given[n] = "live" \/ \E c \in Children(n) : Live(c)
  <2>1. PICK m \in tree : InSubtree(n, m) /\ given[m] = "live"
    BY <1>5 DEF Live, InSubtree
  <2>2. CASE m # n
    <3>1. PICK c \in Children(n) : InSubtree(c, m)
      BY <2>1, <2>2, Toward
    <3> QED
      BY <2>1, <3>1 DEF Live, InSubtree
  <2> QED
    BY <2>1, <2>2
<1> QED
  BY <1>2, <1>3, <1>4, <1>5

\* The key of a child, under its parent, is the child.
LEMMA ChildKey ==
  ASSUME Typing, NEW n \in tree, NEW c \in Children(n)
  PROVE  /\ Append(n, Last(c)) = c /\ Last(c) \in Keys /\ KeyName(c) = Last(c)
         /\ \A d \in Children(n) : Last(d) = Last(c) => d = c
<1>1. ASSUME NEW d \in Children(n) PROVE Append(n, Last(d)) = d /\ Last(d) \in Keys /\ d # Root
  <2>1. n \in Seq(Keys) /\ d \in Seq(Keys) /\ Len(d) = Len(n) + 1 /\ Front(d) = n /\ d # Root /\ Len(n) \in Nat
    BY ChildFacts, TreeFacts
  <2>2. d # <<>>
    BY <2>1
  <2>3. /\ \A i \in 1 .. Len(d) - 1 : Front(d)[i] = d[i]
        /\ Last(d) = d[Len(d)] /\ Last(d) \in Keys
    <3>1. \A i \in 1 .. Len(d) - 1 : Front(d)[i] = d[i]
      BY <2>1, <2>2, FrontFacts
    <3>2. Last(d) = d[Len(d)] /\ Last(d) \in Keys
      BY <2>1, <2>2 DEF Last
    <3> QED
      BY <3>1, <3>2
  <2>4. d = Append(Front(d), d[Len(d)])
    BY <2>1, <2>3
  <2> QED
    BY <2>1, <2>3, <2>4
<1> QED
  BY <1>1 DEF KeyName

\* The call that yields its node: all below the node was yielded, nothing of what
\* is above it.
LEMMA YieldFacts ==
  ASSUME IInv, Pruning, Ascend \/ (EndPost /\ based), NEW n, n = frames[Len(frames)].node
  PROVE  /\ n \in tree /\ n \notin ToSet(out) /\ Children(n) \subseteq ToSet(out)
         /\ out' = Append(out, n) /\ out' # out /\ Last(out') = n /\ ToSet(out') = ToSet(out) \cup {n}
         /\ Len(frames) \in Nat /\ Len(frames) > 0 /\ Len(n) = Len(frames) - 1
         /\ Len(frames) \in DOMAIN frames /\ DOMAIN frames = 1 .. Len(frames) /\ pc = "loop"
         /\ \A m \in tree : InSubtree(m, n) => m \notin ToSet(out)
<1>1. Typing /\ PostInv /\ mode = "post" /\ out \in Seq(tree)
  BY DEF IInv, Pruning, Typing
<1>2. /\ out' = Append(out, n) /\ Len(frames) \in Nat /\ Len(frames) > 0 /\ DOMAIN frames = 1 .. Len(frames)
      /\ pc = "loop" /\ frames[Len(frames)].todo = <<>>
  <2>1. CASE Ascend
    BY <1>1, <2>1, AscendFacts
  <2>2. CASE EndPost /\ based
    <3>1. Len(frames) = 1 /\ frames \in Seq(Frames) /\ pc = "loop" /\ Last(frames).todo = <<>>
      BY <1>1, <2>2 DEF EndPost, Typing
    <3>2. DOMAIN frames = 1 .. 1 /\ Last(frames) = frames[Len(frames)]
      BY <3>1 DEF Last
    <3>3. frames[1].node \in tree /\ Len(frames[1].node) = 1 - 1
      BY <1>1, <3>1, <3>2, PostParts
    <3>4. n = Root
      BY <1>1, <3>1, <3>3, TreeFacts
    <3> QED
      BY <1>1, <2>2, <3>1, <3>2, <3>4, EndPostFacts
  <2> QED
    BY <2>1, <2>2
<1>3. Len(frames) \in DOMAIN frames
  BY <1>2
<1>4. /\ n \in tree /\ n \in Called /\ Len(n) = Len(frames) - 1 /\ Called \cap ToSet(out) = {}
      /\ Children(n) \subseteq ToSet(frames[Len(frames)].todo) \cup Reached
  BY <1>1, <1>2, <1>3, PostParts
<1>5. Children(n) \subseteq ToSet(out)
  <2>1. ToSet(frames[Len(frames)].todo) = {}
    BY <1>2 DEF ToSet
  <2>2. \A c \in Children(n) : Len(c) = Len(frames) - 1 + 1
    BY <1>1, <1>4, ChildFacts
  <2>3. \A i \in DOMAIN frames : Len(frames[i].node) = i - 1
    BY <1>1, <1>2, PostParts
  <2>4. \A c \in Called : Len(c) < Len(frames)
    BY <1>2, <2>3 DEF Called
  <2>5. \A c \in Children(n) : c \notin Called
    BY <1>2, <2>2, <2>4
  <2>6. Children(n) \subseteq ToSet(out) \cup Called
    BY <1>4, <2>1 DEF Reached
  <2> QED
    BY <2>5, <2>6
<1>6. \A m \in tree : InSubtree(m, n) => m \notin ToSet(out)
  BY <1>1, <1>2, <1>3, <1>4, CalledAncestors
<1>7. Last(out') = n /\ out' # out /\ ToSet(out') = ToSet(out) \cup {n}
  <2>1. ToSet(Append(out, n)) = ToSet(out) \cup {n}
    BY <1>1, <1>4, ToSetAppend
  <2>2. Len(Append(out, n)) = Len(out) + 1 /\ Len(out) \in Nat /\ Append(out, n)[Len(out) + 1] = n
    BY <1>1, <1>4, AppendFacts
  <2> QED
    BY <1>2, <2>1, <2>2 DEF Last
<1> QED
  BY <1>2, <1>3, <1>4, <1>5, <1>6, <1>7

\* What the loop finds in the map of the children of n is what is true of them.
LEMMA ChildMapFacts ==
  ASSUME IInv, PruneInv, Pruning, Ascend \/ (EndPost /\ based), NEW n, n = frames[Len(frames)].node
  PROVE  /\ EmptyKeys(n) = {Last(c) : c \in {d \in Children(n) : ~Live(d)}}
         /\ SomeChildKept(n) <=> \E c \in Children(n) : Live(c)
         /\ Cut(n) = {m \in kept : \E c \in Children(n) : ~Live(c) /\ InSubtree(c, m)}
<1> DEFINE L == Len(frames)
<1>1. /\ n \in tree /\ Children(n) \subseteq ToSet(out) /\ L \in Nat /\ L > 0 /\ Len(n) = L - 1
      /\ L \in DOMAIN frames /\ pc = "loop" /\ \A m \in tree : InSubtree(m, n) => m \notin ToSet(out)
  BY YieldFacts
<1>2. Typing /\ kept = KeptNow /\ MapInv
  BY <1>1 DEF IInv, PruneInv
<1>3. /\ stack \in Seq(Maps \cup {NoMap}) /\ Len(stack) <= L + 2 /\ Len(stack) \in Nat
      /\ DOMAIN stack = 1 .. Len(stack)
      /\ IF L + 2 \in DOMAIN stack /\ stack[L + 2] # NoMap THEN stack[L + 2] = MapOf(n)
         ELSE Children(n) \cap ToSet(out) = {}
  BY <1>1, <1>2 DEF MapInv
<1> HIDE DEF L
<1>4. HasChildren(n) <=> Children(n) # {}
  <2>1. kept \subseteq tree
    BY <1>2 DEF KeptNow
  <2>2. ASSUME NEW c \in Children(n) PROVE c \in kept
    <3>1. c \in tree /\ \A m \in tree : InSubtree(m, c) /\ m # c => InSubtree(m, n)
      BY <1>1, <1>2, ChildFacts
    <3>2. ASSUME NEW d \in tree, d # Root, InSubtree(d, c) PROVE Front(d) \notin ToSet(out)
      <4>1. /\ Front(d) \in tree /\ InSubtree(Front(d), d) /\ Len(Front(d)) < Len(d)
            /\ tree \subseteq Seq(Keys) /\ Len(d) \in Nat
        BY <1>2, <3>2, ParentFacts, TreeFacts
      <4>2. InSubtree(Front(d), c) /\ Front(d) # c
        BY <3>1, <3>2, <4>1, SubtreeOrder, TreeFacts, <1>2
      <4> QED
        BY <1>1, <3>1, <4>1, <4>2
    <3> QED
      BY <1>2, <3>1, <3>2 DEF KeptNow
  <2>3. HasChildren(n) <=> \E c \in kept : c \in Children(n)
    BY <2>1 DEF HasChildren, Children, InSubtree
  <2> QED
    BY <2>2, <2>3
<1>5. ChildMap(n) = IF L + 2 \in DOMAIN stack THEN stack[L + 2] ELSE NoMap
  <2>1. Level(n) + 1 = L + 1
    BY <1>1 DEF Level
  <2> DEFINE S == Len(stack)
  <2>0. S \in Nat /\ S <= L + 2 /\ DOMAIN stack = 1 .. S /\ L \in Nat
    BY <1>1, <1>3
  <2> HIDE DEF S
  <2>2. CASE Len(stack) > L + 1
    <3>1. S > L + 1
      BY <2>2 DEF S
    <3>2. S = L + 2 /\ L + 2 \in 1 .. S
      BY <2>0, <3>1
    <3>3. Len(stack) = L + 2 /\ L + 2 \in DOMAIN stack
      BY <2>0, <3>2 DEF S
    <3> QED
      BY <2>1, <2>2, <3>3 DEF ChildMap, Last
  <2>3. CASE ~(Len(stack) > L + 1)
    <3>1. L + 2 \notin DOMAIN stack
      BY <2>0, <2>3 DEF S
    <3> QED
      BY <2>1, <2>3, <3>1 DEF ChildMap
  <2> QED
    BY <2>2, <2>3
<1>6. \A c \in Children(n) : Append(n, Last(c)) = c
  BY <1>1, <1>2, ChildKey
<1>7. CASE ChildMap(n) = NoMap
  <2>1. Children(n) = {}
    BY <1>1, <1>3, <1>5, <1>7
  <2> QED
    BY <1>7, <2>1 DEF EmptyKeys, SomeChildKept, Cut
<1>8. CASE ChildMap(n) # NoMap
  <2>1. ChildMap(n) = MapOf(n)
    BY <1>3, <1>5, <1>8
  <2>2. MapOf(n) = [key \in {Last(c) : c \in Children(n)} |-> ~Live(Append(n, key))]
    <3>1. Children(n) \cap ToSet(out) = Children(n)
      BY <1>1
    <3> QED
      BY <3>1 DEF MapOf
  <2>3. /\ DOMAIN ChildMap(n) = {Last(c) : c \in Children(n)}
        /\ \A c \in Children(n) : ChildMap(n)[Last(c)] = ~Live(c)
    BY <1>6, <2>1, <2>2
  <2>4. EmptyKeys(n) = {Last(c) : c \in {d \in Children(n) : ~Live(d)}}
    BY <1>4, <1>8, <2>3 DEF EmptyKeys
  <2>5. SomeChildKept(n) <=> \E c \in Children(n) : Live(c)
    BY <1>4, <1>8, <2>3 DEF SomeChildKept
  <2>6. Cut(n) = {m \in kept : \E c \in Children(n) : ~Live(c) /\ InSubtree(c, m)}
    BY <1>6, <2>4 DEF Cut, InSubtree
  <2> QED
    BY <2>4, <2>5, <2>6
<1> QED
  BY <1>7, <1>8

\* The entry of n in the map of its level, which is the map of the children of the
\* call around it.
LEMMA MarkKeeps ==
  ASSUME IInv, PruneInv, Pruning, Ascend, tree' = tree, given' = given,
         stack' = Mark(frames[Len(frames)].node)
  PROVE  MapInv'
<1> DEFINE L == Len(frames)
           n == frames[L].node
           popped == IF Len(stack) > L + 1 THEN Front(stack) ELSE stack
<1>0. PICK p : p = frames[L - 1].node
  OBVIOUS
<1>1. /\ n \in tree /\ n \notin ToSet(out) /\ ToSet(out') = ToSet(out) \cup {n}
      /\ L \in Nat /\ Len(n) = L - 1 /\ L \in DOMAIN frames /\ DOMAIN frames = 1 .. L /\ pc = "loop"
  BY YieldFacts
<1>2. Typing /\ PostInv /\ MapInv /\ mode = "post"
  BY <1>1 DEF IInv, PruneInv, Pruning
<1>3. L > 1 /\ DOMAIN frames' = 1 .. L - 1 /\ Len(frames') = L - 1 /\ \A i \in 1 .. L - 1 : frames'[i] = frames[i]
  <2>1. /\ L > 1 /\ DOMAIN frames' = 1 .. L - 1 /\ frames' \in Seq(Frames)
        /\ \A i \in 1 .. L - 1 : frames'[i] = frames[i]
    BY <1>2, AscendFacts
  <2>2. Len(frames') = L - 1
    <3> HIDE DEF L
    <3> QED
      BY <1>1, <2>1
  <2> QED
    BY <2>1, <2>2
<1>4. /\ stack \in Seq(Maps \cup {NoMap}) /\ Len(stack) <= L + 2
      /\ \A i \in 1 .. L :
           IF i + 2 \in DOMAIN stack /\ stack[i + 2] # NoMap THEN stack[i + 2] = MapOf(frames[i].node)
           ELSE Children(frames[i].node) \cap ToSet(out) = {}
  BY <1>1, <1>2 DEF MapInv
<1>5. SomeChildKept(n) <=> \E c \in Children(n) : Live(c)
  BY ChildMapFacts
<1>6. \A i \in 1 .. L : frames[i].node \in tree /\ Len(frames[i].node) = i - 1
  BY <1>1, <1>2, PostParts
<1> HIDE DEF L
<1>7. InSubtree(p, n)
  <2>1. L - 1 \in 1 .. L /\ L \in 1 .. L /\ L - 1 <= L
    BY <1>1, <1>3
  <2>2. \A i, j \in 1 .. L : i <= j => InSubtree(frames[i].node, frames[j].node)
    BY <1>1, <1>2, PostParts
  <2> QED
    BY <1>0, <2>1, <2>2
<1>8. p \in tree /\ Len(p) = L - 2
  <2>1. L - 1 \in 1 .. L /\ (L - 1) - 1 = L - 2
    BY <1>1, <1>3
  <2>2. p \in tree /\ Len(p) = (L - 1) - 1
    BY <1>0, <1>6, <2>1
  <2> QED
    BY <2>1, <2>2
<1>9. n \in Children(p) /\ n # Root
  <2>1. Len(n) = Len(p) + 1
    BY <1>1, <1>8
  <2> HIDE DEF n
  <2>2. n \in Children(p)
    BY <1>1, <1>7, <2>1 DEF Children
  <2> QED
    BY <1>2, <1>8, <2>2, ChildFacts
<1> HIDE DEF n
<1>10. Append(p, Last(n)) = n /\ Last(n) \in Keys /\ KeyName(n) = Last(n)
  BY <1>2, <1>8, <1>9, ChildKey
<1>11. PICK b : b \in BOOLEAN /\ b = ~Live(n) /\ b = (given[n] # "live" /\ ~SomeChildKept(n))
  <2>1. (given[n] # "live" /\ ~SomeChildKept(n)) <=> ~Live(n)
    BY <1>1, <1>2, <1>5, LiveFacts
  <2>2. CASE Live(n)
    BY <2>1, <2>2
  <2>3. CASE ~Live(n)
    BY <2>1, <2>3
  <2> QED
    BY <2>2, <2>3
<1>12. Level(n) = L /\ Level(n) + 1 = L + 1
  BY <1>1 DEF Level
<1>13. stack' = WithEntry(popped, L, Last(n), b)
  <2>1. stack' = WithEntry(popped, Level(n), KeyName(n), given[n] # "live" /\ ~SomeChildKept(n))
    BY <1>12 DEF Mark, n, L
  <2> HIDE DEF popped
  <2> QED
    BY <1>10, <1>11, <1>12, <2>1
<1>14. /\ popped \in Seq(Maps \cup {NoMap}) /\ Len(popped) <= L + 1
       /\ \A i \in 1 .. L + 1 : (i \in DOMAIN popped <=> i \in DOMAIN stack)
       /\ \A i \in DOMAIN popped : popped[i] = stack[i]
  <2>0. Len(stack) \in Nat /\ DOMAIN stack = 1 .. Len(stack) /\ Len(stack) <= L + 2
    BY <1>4
  <2>1. CASE Len(stack) > L + 1
    <3>1. stack # <<>>
      BY <1>1, <1>4, <2>1
    <3>2. /\ Front(stack) \in Seq(Maps \cup {NoMap}) /\ Len(Front(stack)) = Len(stack) - 1
          /\ \A i \in 1 .. Len(stack) - 1 : Front(stack)[i] = stack[i]
      BY <1>4, <3>1, FrontFacts
    <3>3. Len(stack) = L + 2
      <4>1. \A k \in Nat : k <= L + 2 /\ k > L + 1 => k = L + 2
        BY <1>1
      <4> QED
        BY <2>0, <2>1, <4>1
    <3>4. Len(Front(stack)) = L + 1 /\ DOMAIN Front(stack) = 1 .. L + 1 /\ \A i \in 1 .. L + 1 : i \in 1 .. L + 2
      BY <1>1, <3>2, <3>3
    <3> QED
      BY <2>0, <2>1, <3>2, <3>3, <3>4
  <2>2. CASE ~(Len(stack) > L + 1)
    BY <1>1, <1>4, <2>0, <2>2
  <2> QED
    BY <2>1, <2>2
<1> HIDE DEF popped
<1>15. /\ stack' \in Seq(Maps \cup {NoMap}) /\ Len(stack') = L + 1 /\ DOMAIN stack' = 1 .. L + 1
       /\ \A i \in 1 .. L : stack'[i] = IF i \in DOMAIN popped THEN popped[i] ELSE NoMap
       /\ stack'[L + 1] # NoMap
       /\ IF L + 1 \in DOMAIN popped /\ popped[L + 1] # NoMap
          THEN stack'[L + 1] = Put(popped[L + 1], Last(n), b)
          ELSE stack'[L + 1] = Put(<< >>, Last(n), b)
  <2>1. PICK k, P, l, u : k = Last(n) /\ P = popped /\ l = L /\ u = stack'
    OBVIOUS
  <2>2. /\ P \in Seq(Maps \cup {NoMap}) /\ l \in Nat /\ Len(P) <= l + 1 /\ k \in Keys \cup {RootKey}
        /\ b \in BOOLEAN /\ u = WithEntry(P, l, k, b)
    BY <1>1, <1>10, <1>11, <1>13, <1>14, <2>1
  <2>3. /\ u \in Seq(Maps \cup {NoMap}) /\ Len(u) = l + 1 /\ DOMAIN u = 1 .. l + 1
        /\ \A i \in 1 .. l : u[i] = IF i \in DOMAIN P THEN P[i] ELSE NoMap
        /\ u[l + 1] # NoMap
        /\ IF l + 1 \in DOMAIN P /\ P[l + 1] # NoMap THEN u[l + 1] = Put(P[l + 1], k, b)
           ELSE u[l + 1] = Put(<< >>, k, b)
    BY <2>2, EntryFacts
  <2> QED
    BY <2>1, <2>3
<1>16. \A m : Live(m)' = Live(m) /\ Children(m)' = Children(m)
  BY DEF Live, Children, InSubtree
<1>17. \A m \in tree : MapOf(m)' = [key \in {Last(c) : c \in Children(m) \cap (ToSet(out) \cup {n})} |-> ~Live(Append(m, key))]
  BY <1>1, <1>16 DEF MapOf
<1>18. ASSUME NEW i \in 1 .. L - 1, NEW q, q = frames[i].node
       PROVE  IF i + 2 \in DOMAIN stack' /\ stack'[i + 2] # NoMap THEN stack'[i + 2] = MapOf(q)'
              ELSE Children(q)' \cap ToSet(out') = {}
  <2>1. i \in 1 .. L /\ i + 2 \in 1 .. L + 1 /\ q \in tree
    BY <1>1, <1>3, <1>6, <1>18
  <2>2. IF i + 2 \in DOMAIN stack /\ stack[i + 2] # NoMap THEN stack[i + 2] = MapOf(q)
        ELSE Children(q) \cap ToSet(out) = {}
    BY <1>4, <1>18, <2>1
  <2>3. CASE i # L - 1
    <3>1. n \notin Children(q)
      <4>1. Len(q) = i - 1
        BY <1>6, <1>18, <2>1
      <4>2. Len(n) # Len(q) + 1
        BY <1>1, <2>1, <2>3, <4>1
      <4> QED
        BY <4>2 DEF Children
    <3>2. i + 2 \in 1 .. L
      BY <1>1, <1>18, <2>3
    <3>3. stack'[i + 2] = IF i + 2 \in DOMAIN stack THEN stack[i + 2] ELSE NoMap
      BY <1>14, <1>15, <2>1, <3>2
    <3>4. Children(q) \cap (ToSet(out) \cup {n}) = Children(q) \cap ToSet(out)
      BY <3>1
    <3>5. MapOf(q)' = MapOf(q)
      <4>1. \A m \in tree :
              Children(m) \cap (ToSet(out) \cup {n}) = Children(m) \cap ToSet(out) => MapOf(m)' = MapOf(m)
        BY <1>17 DEF MapOf
      <4> QED
        BY <2>1, <3>4, <4>1
    <3> QED
      <4>1. i + 2 \in DOMAIN stack' /\ Children(q)' \cap ToSet(out') = Children(q) \cap ToSet(out)
        BY <1>1, <1>15, <1>16, <2>1, <3>4
      <4>2. CASE i + 2 \in DOMAIN stack /\ stack[i + 2] # NoMap
        BY <2>2, <3>3, <3>5, <4>1, <4>2
      <4>3. CASE ~(i + 2 \in DOMAIN stack /\ stack[i + 2] # NoMap)
        BY <2>2, <3>3, <4>1, <4>3
      <4> QED
        BY <4>2, <4>3
  <2>4. CASE i = L - 1
    <3>1. q = p /\ i + 2 = L + 1
      BY <1>0, <1>1, <1>18, <2>4
    <3>2. Children(p) \cap (ToSet(out) \cup {n}) = (Children(p) \cap ToSet(out)) \cup {n}
      BY <1>9
    <3> DEFINE K == {Last(c) : c \in Children(p) \cap ToSet(out)}
    <3>3. MapOf(p)' = [key \in K \cup {Last(n)} |-> ~Live(Append(p, key))]
      <4>1. {Last(c) : c \in Children(p) \cap (ToSet(out) \cup {n})} = K \cup {Last(n)}
        BY <3>2
      <4> HIDE DEF K
      <4> QED
        BY <1>8, <1>17, <4>1
    <3>4. MapOf(p) = [key \in K |-> ~Live(Append(p, key))]
      BY DEF MapOf
    <3>5. stack'[L + 1] = MapOf(p)'
      <4>1. CASE L + 1 \in DOMAIN stack /\ stack[L + 1] # NoMap
        <5>1. stack[L + 1] = MapOf(p)
          BY <2>2, <3>1, <4>1
        <5>2. stack'[L + 1] = Put(MapOf(p), Last(n), b)
          BY <1>14, <1>15, <2>1, <3>1, <4>1, <5>1
        <5> HIDE DEF K
        <5>3. Put(MapOf(p), Last(n), b) = [key \in K \cup {Last(n)} |-> ~Live(Append(p, key))]
          BY <1>10, <1>11, <3>4 DEF Put
        <5> QED
          BY <3>3, <5>2, <5>3
      <4>2. CASE ~(L + 1 \in DOMAIN stack /\ stack[L + 1] # NoMap)
        <5>1. Children(p) \cap ToSet(out) = {}
          BY <2>2, <3>1, <4>2
        <5>2. K = {}
          BY <5>1
        <5>3. stack'[L + 1] = [k \in {Last(n)} |-> b]
          <6>1. stack'[L + 1] = Put(<< >>, Last(n), b)
            BY <1>14, <1>15, <2>1, <3>1, <4>2
          <6>2. DOMAIN << >> = {}
            OBVIOUS
          <6> QED
            BY <6>1, <6>2 DEF Put
        <5> HIDE DEF K
        <5>4. K \cup {Last(n)} = {Last(n)}
          BY <5>2
        <5>5. [key \in {Last(n)} |-> ~Live(Append(p, key))] = [k \in {Last(n)} |-> b]
          BY <1>10, <1>11
        <5> QED
          BY <3>3, <5>3, <5>4, <5>5
      <4> QED
        BY <4>1, <4>2
    <3> HIDE DEF K
    <3> QED
      BY <1>15, <2>1, <3>1, <3>5
  <2> QED
    BY <2>3, <2>4
<1> QED
  <2>1. Len(stack') <= Len(frames') + 2
    BY <1>1, <1>3, <1>15
  <2>2. stack' \in Seq(Maps \cup {NoMap})
    BY <1>15
  <2>3. \A i \in DOMAIN frames' : \A q : q = frames'[i].node =>
          IF i + 2 \in DOMAIN stack' /\ stack'[i + 2] # NoMap THEN stack'[i + 2] = MapOf(q)'
          ELSE Children(q)' \cap ToSet(out') = {}
    BY <1>3, <1>18
  <2> QED
    BY <2>1, <2>2, <2>3 DEF MapInv, MapOf, Children, Live, Maps

\* The body of the loop: what is removed, and the value that is cleared.
LEMMA ItemKeeps ==
  ASSUME IInv, PruneInv, Pruning, Ascend \/ (EndPost /\ based), [Next]_vars, PruneItem(Last(out'))
  PROVE  PruneInv'
<1>1. PICK n : n = frames[Len(frames)].node
  OBVIOUS
<1>2. /\ n \in tree /\ n \notin ToSet(out) /\ Last(out') = n /\ ToSet(out') = ToSet(out) \cup {n} /\ pc = "loop"
  BY <1>1, YieldFacts
<1>3. /\ kept' = kept \ Cut(n) /\ given' = given /\ stack' = Mark(n)
      /\ value' = [value EXCEPT ![n] = IF given[n] = "live" THEN @ ELSE "none"]
      /\ changed' = (changed \/ EmptyKeys(n) # {} \/ given[n] # "live")
  BY <1>2 DEF PruneItem
<1>4. /\ tree' = tree /\ mode' = mode /\ based' = based /\ Typing
  BY StepFrame DEF IInv
<1>5. /\ Cut(n) = {m \in kept : \E c \in Children(n) : ~Live(c) /\ InSubtree(c, m)}
  BY <1>1, ChildMapFacts
<1>6. /\ given \in [tree -> {"live", "expired", "none"}] /\ kept = KeptNow /\ value = ValueNow
      /\ ~changed => \A m \in ToSet(out) : given[m] = "live"
  BY DEF PruneInv
<1>7. \A m : Live(m)' = Live(m)
  BY <1>3, <1>4 DEF Live
<1>8. KeptNow' = {m \in tree : \A c \in tree : c # Root /\ InSubtree(c, m) /\ Front(c) \in ToSet(out) \cup {n} => Live(c)}
  BY <1>2, <1>4, <1>7 DEF KeptNow, InSubtree
<1>9. \A c \in tree : c \in Children(n) <=> c # Root /\ Front(c) = n
  BY <1>2, <1>4, ChildFacts, ParentFacts
<1>10. kept' = KeptNow'
  <2>1. ASSUME NEW m \in tree PROVE m \in kept' <=> m \in KeptNow'
    <3>1. m \in kept <=> \A c \in tree : c # Root /\ InSubtree(c, m) /\ Front(c) \in ToSet(out) => Live(c)
      BY <1>6 DEF KeptNow
    <3>2. m \in Cut(n) <=> m \in kept /\ \E c \in tree : c # Root /\ Front(c) = n /\ ~Live(c) /\ InSubtree(c, m)
      <4>1. Children(n) \subseteq tree
        BY DEF Children
      <4> QED
        BY <1>5, <1>9, <4>1
    <3> QED
      BY <1>3, <1>8, <3>1, <3>2
  <2>2. kept \subseteq tree
    BY <1>6 DEF KeptNow
  <2> QED
    BY <1>3, <1>8, <2>1, <2>2
<1>11. value' = ValueNow'
  <2>1. value = [m \in tree |-> IF m \in ToSet(out) /\ given[m] # "live" THEN "none" ELSE given[m]]
    BY <1>6 DEF ValueNow
  <2>2. ValueNow' = [m \in tree |-> IF m \in ToSet(out) \cup {n} /\ given[m] # "live" THEN "none" ELSE given[m]]
    BY <1>2, <1>3, <1>4 DEF ValueNow
  <2>3. DOMAIN value' = tree /\ value' = [m \in tree |-> value'[m]]
    BY <1>3, <2>1
  <2>4. \A m \in tree : value'[m] = IF m \in ToSet(out) \cup {n} /\ given[m] # "live" THEN "none" ELSE given[m]
    BY <1>2, <1>3, <2>1
  <2> QED
    BY <2>2, <2>3, <2>4
<1>12. ~changed' => \A m \in ToSet(out') : given[m] = "live"
  BY <1>2, <1>3, <1>6
<1>13. pc' # "end" => MapInv'
  <2>1. EndPost => pc' = "end"
    BY DEF EndPost
  <2> QED
    BY <1>1, <1>3, <1>4, <2>1, MarkKeeps
<1> QED
  BY <1>3, <1>4, <1>6, <1>10, <1>11, <1>12, <1>13 DEF PruneInv, Pruning

\* A step of the traversal that yields nothing: the maps are those of the calls.
LEMMA MapsKept ==
  ASSUME IInv, PruneInv, Pruning, pc # "end", StartPost \/ Descend, [Next]_vars, given' = given, stack' = stack
  PROVE  MapInv' /\ out' = out
<1>1. /\ Typing /\ PostInv /\ MapInv /\ tree' = tree /\ mode = "post"
      /\ \A m : Children(m)' = Children(m)
  BY StepFrame DEF IInv, PruneInv, Pruning
<1>2. out' = out
  BY DEF StartPost, Descend
<1>3. \A m : MapOf(m)' = MapOf(m)
  BY <1>1, <1>2 DEF MapOf, Live, Children
<1>4. /\ stack \in Seq(Maps \cup {NoMap}) /\ Len(stack) <= Len(frames) + 2 /\ Len(stack) \in Nat
      /\ DOMAIN stack = 1 .. Len(stack)
      /\ \A i \in DOMAIN frames : \A q : q = frames[i].node =>
           IF i + 2 \in DOMAIN stack /\ stack[i + 2] # NoMap THEN stack[i + 2] = MapOf(q)
           ELSE Children(q) \cap ToSet(out) = {}
  BY <1>1 DEF MapInv
<1>5. CASE StartPost
  <2>1. frames' = <<Frame(Root)>> /\ pc = "start"
    BY <1>5 DEF StartPost
  <2>2. frames = <<>> /\ out = <<>>
    BY <1>1, <2>1 DEF Typing
  <2>3. Len(frames) = 0 /\ ToSet(out) = {} /\ Len(frames') = 1 /\ DOMAIN frames' = {1}
    BY <2>1, <2>2 DEF ToSet
  <2>4. Len(stack) <= 2 /\ 1 + 2 \notin DOMAIN stack
    BY <1>4, <2>3
  <2>5. Len(stack') <= Len(frames') + 2 /\ stack' \in Seq(Maps \cup {NoMap})
    BY <1>4, <2>3, <2>4
  <2>6. ToSet(out') = {} /\ 1 + 2 \notin DOMAIN stack'
    BY <1>2, <2>3, <2>4
  <2> QED
    BY <1>2, <2>3, <2>5, <2>6 DEF MapInv, Maps
<1>6. CASE Descend
  <2>1. PICK c, L : c = Head(Last(frames).todo) /\ L = Len(frames)
    OBVIOUS
  <2>2. /\ c \in tree /\ pc = "loop" /\ L \in Nat /\ L > 0 /\ Len(frames') = L + 1
        /\ DOMAIN frames = 1 .. L /\ DOMAIN frames' = 1 .. L + 1
        /\ \A i \in 1 .. L : frames'[i].node = frames[i].node
        /\ frames[L].todo # <<>> /\ c = Head(frames[L].todo) /\ frames'[L + 1].node = c
    BY <1>1, <1>6, <2>1, DescendFacts
  <2>3. c \notin Reached
    <3>1. L \in DOMAIN frames
      BY <2>2
    <3>2. frames[L].todo \in Seq(tree) /\ ToSet(frames[L].todo) \cap Reached = {}
      BY <1>1, <2>2, <3>1, PostParts
    <3>3. c \in ToSet(frames[L].todo)
      BY <2>2, <3>2, TailFacts
    <3> QED
      BY <3>2, <3>3
  <2>4. Children(c) \cap ToSet(out) = {}
    <3>1. \A d \in Children(c) : d # c /\ InSubtree(c, d)
      BY <1>1, <2>2, ChildFacts
    <3>2. ToSet(out) \subseteq Reached
      BY DEF Reached
    <3> QED
      BY <1>1, <2>2, <2>3, <3>1, <3>2, PostParts
  <2>5. Len(stack') <= Len(frames') + 2 /\ stack' \in Seq(Maps \cup {NoMap}) /\ L + 1 + 2 \notin DOMAIN stack
    BY <1>4, <2>1, <2>2
  <2>6. ASSUME NEW i \in DOMAIN frames', NEW q, q = frames'[i].node
        PROVE  IF i + 2 \in DOMAIN stack' /\ stack'[i + 2] # NoMap THEN stack'[i + 2] = MapOf(q)'
               ELSE Children(q)' \cap ToSet(out') = {}
    <3>1. CASE i \in 1 .. L
      BY <1>1, <1>2, <1>3, <1>4, <2>2, <2>6, <3>1
    <3>2. CASE i = L + 1
      <4>1. q = c /\ i + 2 \notin DOMAIN stack'
        BY <2>2, <2>5, <2>6, <3>2
      <4> QED
        BY <1>1, <1>2, <2>4, <4>1
    <3> QED
      BY <2>2, <3>1, <3>2
  <2> QED
    BY <1>2, <2>5, <2>6 DEF MapInv, MapOf, Children, Live, Maps
<1> QED
  BY <1>5, <1>6

\* Every step keeps the invariant of the loop.
LEMMA StepPrune ==
  ASSUME IInv, PruneInv, [WholeNext]_<<vars, pruneVars, wholeVars>>
  PROVE  PruneInv'
<1>0. [Next]_vars /\ IF Pruning /\ out' # out THEN PruneItem(Last(out')) ELSE UNCHANGED pruneVars
  BY DEF WholeNext, PruneStep, vars
<1>1. tree' = tree /\ mode' = mode /\ based' = based /\ Pruning' = Pruning
  BY <1>0, StepFrame DEF Pruning
<1>2. CASE ~Pruning
  BY <1>0, <1>1, <1>2 DEF PruneInv, pruneVars
<1>3. CASE Pruning /\ (Ascend \/ (EndPost /\ based))
  <2>1. out' # out
    BY <1>3, YieldFacts
  <2> QED
    BY <1>0, <1>3, <2>1, ItemKeeps
<1>4. ASSUME Pruning, out' = out, pc' # "end" => MapInv' PROVE PruneInv'
  <2>1. UNCHANGED pruneVars
    BY <1>0, <1>4
  <2>2. kept' = kept /\ value' = value /\ given' = given /\ changed' = changed
    BY <2>1 DEF pruneVars
  <2>3. KeptNow' = KeptNow /\ ValueNow' = ValueNow
    BY <1>1, <1>4, <2>2 DEF KeptNow, ValueNow, Live, InSubtree
  <2> QED
    BY <1>1, <1>4, <2>2, <2>3 DEF PruneInv
<1>5. CASE Pruning /\ (StartPost \/ Descend)
  <2>1. out' = out /\ pc # "end"
    BY <1>5 DEF StartPost, Descend
  <2>2. given' = given /\ stack' = stack
    BY <1>0, <2>1 DEF pruneVars
  <2> QED
    BY <1>0, <1>4, <1>5, <2>1, <2>2, MapsKept
<1>6. CASE Pruning /\ UNCHANGED vars
  <2>1. out' = out /\ pc' = pc /\ frames' = frames
    BY <1>6 DEF vars
  <2>2. given' = given /\ stack' = stack
    BY <1>0, <2>1 DEF pruneVars
  <2>3. MapInv => MapInv'
    BY <1>1, <2>1, <2>2 DEF MapInv, MapOf, Children, Live, Maps, InSubtree
  <2> QED
    BY <1>4, <1>6, <2>1, <2>3 DEF PruneInv
<1>7. StartPre \/ VisitPre \/ EndPre => ~Pruning
  BY DEF StartPre, VisitPre, EndPre, Pruning
<1>8. CASE Pruning /\ EndPost /\ ~based
  <2>1. out' = out /\ pc' = "end"
    BY <1>8 DEF EndPost
  <2> QED
    BY <1>4, <1>8, <2>1
<1> QED
  BY <1>0, <1>2, <1>3, <1>5, <1>6, <1>7, <1>8 DEF Next

\* The loop starts in its invariant.
LEMMA InitPruneInv == WholeInit => PruneInv
<1> SUFFICES ASSUME WholeInit PROVE PruneInv
  OBVIOUS
<1>1. /\ given \in Mixes /\ value = given /\ kept = tree /\ stack = <<>> /\ out = <<>> /\ frames = <<>> /\ pc = "start"
      /\ Typing
  BY InitIInv DEF WholeInit, PruneInit, Init, IInv
<1>2. given \in [tree -> {"live", "expired", "none"}]
  <2>1. AllLive \in [tree -> {"live", "expired", "none"}]
    BY DEF AllLive
  <2>2. \A n \in tree : [AllLive EXCEPT ![n] = "expired"] \in [tree -> {"live", "expired", "none"}]
    BY <2>1
  <2> QED
    BY <1>1, <2>1, <2>2 DEF Mixes, GivenValues
<1>3. ToSet(out) = {} /\ DOMAIN frames = {} /\ Len(stack) = 0 /\ Len(frames) = 0
  BY <1>1 DEF ToSet
<1>4. MapInv
  <2>1. stack \in Seq(Maps \cup {NoMap})
    BY <1>1
  <2> QED
    BY <1>3, <2>1 DEF MapInv
<1>5. KeptNow = tree
  BY <1>3 DEF KeptNow
<1>6. ValueNow = given
  BY <1>2, <1>3 DEF ValueNow
<1> QED
  BY <1>1, <1>2, <1>3, <1>4, <1>5, <1>6 DEF PruneInv

\* The loop of pruneTree has its invariant at every item of the traversal.
THEOREM PruneInvariance == WholeSpec => []PruneInv
  BY InitPruneInv, StepPrune, Invariance, PTL DEF WholeSpec

\* Whatever mix of live, expired and missing values a tree has, no branch that
\* holds a live value is cut at any point of pruneTree's loop: the map of the
\* children's level is always the one of the node in hand.
THEOREM LiveKeptHolds == WholeSpec => []LiveKept
<1>1. IInv /\ PruneInv => LiveKept
  <2> SUFFICES ASSUME IInv, PruneInv, Pruning, NEW n \in tree, Live(n)
               PROVE  n \in kept /\ (given[n] = "live" => value[n] = "live")
    BY DEF LiveKept
  <2>1. Typing /\ kept = KeptNow /\ value = ValueNow
    BY DEF IInv, PruneInv
  <2>2. n \in kept
    BY <2>1, LiveFacts DEF KeptNow
  <2> QED
    BY <2>1, <2>2 DEF ValueNow
<1> QED
  BY <1>1, Invariance, PruneInvariance, PTL

\* pruneTree ends with the root, the nodes that are live or lead to a live one, and
\* the live values; the children of a root that is not yielded stay, and its value.
THEOREM PrunedExactlyHolds == WholeSpec => []PrunedExactly
<1>1. IInv /\ PruneInv => PrunedExactly
  <2> SUFFICES ASSUME IInv, PruneInv, Pruning, pc = "end"
               PROVE  /\ kept = {n \in tree : Live(n) \/ Len(n) <= IF based THEN 0 ELSE 1}
                      /\ \A n \in kept :
                           value[n] = IF given[n] = "live" \/ (n = Root /\ ~based) THEN given[n] ELSE "none"
    BY DEF PrunedExactly
  <2>1. /\ Typing /\ kept = KeptNow /\ value = ValueNow
        /\ ToSet(out) = IF based THEN tree ELSE tree \ {Root}
    BY DEF IInv, PruneInv, EachOnce
  <2>2. tree \subseteq Seq(Keys) /\ Root \in tree /\ \A n \in tree : Len(n) \in Nat
    BY <2>1, TreeFacts
  <2>3. ASSUME NEW n \in tree
        PROVE  n \in kept <=> Live(n) \/ Len(n) <= IF based THEN 0 ELSE 1
    <3>1. n \in kept <=> \A c \in tree : c # Root /\ InSubtree(c, n) /\ Front(c) \in ToSet(out) => Live(c)
      BY <2>1 DEF KeptNow
    <3>2. ASSUME NEW c \in tree, c # Root
          PROVE  /\ Front(c) \in tree /\ Len(Front(c)) = Len(c) - 1 /\ Len(c) > 0
                 /\ Front(c) = Root <=> Len(c) = 1
      <4>1. Front(c) \in tree /\ c \in Seq(Keys) /\ Len(c) \in Nat /\ Len(c) > 0 /\ Len(Front(c)) \in Nat
        BY <2>1, <2>2, <3>2, TreeFacts
      <4>2. Len(Front(c)) = Len(c) - 1
        BY <4>1, ParentPrefix
      <4>3. Front(c) = Root <=> Len(Front(c)) = 0
        BY <2>1, <4>1, TreeFacts
      <4> QED
        BY <4>1, <4>2, <4>3
    <3>3. \A c \in tree : InSubtree(c, n) => Len(c) <= Len(n) /\ (Len(c) = Len(n) => c = n)
      BY <2>1, <2>2, SubtreeOrder
    <3>4. Live(n) => \A c \in tree : InSubtree(c, n) => Live(c)
      BY <2>1, LiveFacts
    <3>5. InSubtree(n, n) /\ (n = Root <=> Len(n) = 0)
      BY <2>1, <2>2, TreeFacts, SubtreeOrder
    <3>6. CASE Live(n)
      BY <3>1, <3>4, <3>6
    <3>7. CASE ~Live(n) /\ Len(n) <= IF based THEN 0 ELSE 1
      <4>1. ASSUME NEW c \in tree, c # Root, InSubtree(c, n), Front(c) \in ToSet(out) PROVE FALSE
        BY <2>1, <2>2, <3>2, <3>3, <3>7, <4>1
      <4> QED
        BY <3>1, <3>7, <4>1
    <3>8. CASE ~Live(n) /\ ~(Len(n) <= IF based THEN 0 ELSE 1)
      <4>1. n # Root /\ Front(n) \in ToSet(out)
        BY <2>1, <2>2, <3>2, <3>5, <3>8
      <4> QED
        BY <3>1, <3>5, <3>8, <4>1
    <3> QED
      BY <3>6, <3>7, <3>8
  <2>4. kept \subseteq tree
    BY <2>1 DEF KeptNow
  <2>5. \A n \in kept : value[n] = IF given[n] = "live" \/ (n = Root /\ ~based) THEN given[n] ELSE "none"
    BY <2>1, <2>2, <2>4 DEF ValueNow
  <2> QED
    BY <2>3, <2>4, <2>5
<1> QED
  BY <1>1, Invariance, PruneInvariance, PTL

\* When pruneTree reports no change, the tree is as it was read.
THEOREM UnchangedIsSameHolds == WholeSpec => []UnchangedIsSame
<1>1. IInv /\ PruneInv => UnchangedIsSame
  <2> SUFFICES ASSUME IInv, PruneInv, Pruning, pc = "end", ~changed PROVE kept = tree /\ value = given
    BY DEF UnchangedIsSame, PruneInv
  <2>1. /\ Typing /\ kept = KeptNow /\ value = ValueNow /\ tree \ {Root} \subseteq ToSet(out)
        /\ given \in [tree -> {"live", "expired", "none"}] /\ \A n \in ToSet(out) : given[n] = "live"
    BY DEF IInv, PruneInv, EachOnce
  <2>2. \A c \in tree : c # Root => Live(c)
    BY <2>1, LiveFacts
  <2>3. kept = tree
    BY <2>1, <2>2 DEF KeptNow
  <2>4. value = [n \in tree |-> given[n]]
    BY <2>1 DEF ValueNow
  <2> QED
    BY <2>1, <2>3, <2>4
<1> QED
  BY <1>1, Invariance, PruneInvariance, PTL

-----------------------------------------------------------------------------
(* deserializeWholeTree: the inductive invariant *)

\* The node that was yielded last.
Current == IF out = <<>> THEN Root ELSE Last(out)

\* The copy has what was yielded, and its stack holds the way to the last of it.
CopyInv ==
  Rebuilding =>
    /\ error \in {"none", "EmptyTree"} /\ (error = "EmptyTree" => tree = {Root})
    /\ error = "none" =>
         /\ built = [n \in ToSet(out) \cup {Root} |-> ValueOf(n)]
         /\ depth = Len(Current)
         /\ way = [i \in 1 .. depth + 1 |-> SubSeq(Current, 1, i - 1)]

-----------------------------------------------------------------------------
(* deserializeWholeTree *)

\* The parent of what a stack pops is on the way to the node that was yielded last:
\* the subtree of the parent was not left.
LEMMA ParentOnTheWay ==
  ASSUME IInv, Rebuilding, VisitPre, Popped # Root
  PROVE  /\ Popped \in tree /\ Popped \notin ToSet(out) /\ Current \in tree /\ Front(Popped) \in tree
         /\ InSubtree(Front(Popped), Current) /\ Len(Front(Popped)) = Len(Popped) - 1
         /\ out' = Append(out, Popped)
<1>1. /\ Typing /\ PreInv /\ StackInv /\ mode = "stack" /\ ~based
      /\ list # <<>> /\ pc = "loop" /\ mode # "post" /\ out' = Append(out, Popped) /\ out \in Seq(tree)
  BY VisitFacts DEF IInv, Rebuilding, Typing
<1>2. /\ Popped \in tree /\ Popped \notin ToSet(out) /\ Popped \in ToSet(list)
  BY <1>1, PopFacts, PopFresh
<1> DEFINE p == Front(Popped)
<1>3. p \in tree /\ Popped \in Children(p) /\ InSubtree(p, Popped)
  BY <1>1, <1>2, ParentFacts
<1>4. Len(Popped) = Len(p) + 1 /\ Popped # p /\ Len(p) \in Nat
  BY <1>1, <1>3, ChildFacts, TreeFacts
<1> HIDE DEF p
<1>5. CASE out = <<>>
  <2>1. p = Root
    <3>1. p \in Entered
      BY <1>1, <1>2, <1>3, <1>4 DEF PreInv
    <3> QED
      BY <1>5, <3>1 DEF Entered, ToSet
  <2>2. InSubtree(Root, Root) /\ Root \in tree
    BY <1>1, TreeFacts
  <2> QED
    BY <1>1, <1>2, <1>3, <1>4, <1>5, <2>1, <2>2 DEF Current, p
<1>6. CASE out # <<>>
  <2>1. Current = out[Len(out)] /\ Len(out) \in DOMAIN out /\ Current \in tree /\ DOMAIN out = 1 .. Len(out)
        /\ Len(out) \in Nat /\ tree \subseteq Seq(Keys)
    BY <1>1, <1>6, TreeFacts DEF Current, Last
  <2>2. InSubtree(p, Current)
    <3>1. CASE p = Root
      BY <1>1, <2>1, <3>1, TreeFacts
    <3>2. CASE p # Root
      <4>1. p \in ToSet(out)
        <5>1. p \in Entered
          BY <1>1, <1>2, <1>3, <1>4 DEF PreInv
        <5> QED
          BY <3>2, <5>1 DEF Entered
      <4>2. PICK i \in DOMAIN out : out[i] = p
        BY <4>1 DEF ToSet
      <4>3. Unbroken(p)
        BY <1>1, <1>3, PopUnbroken
      <4>4. InSubtree(p, out[i])
        BY <1>3, <2>1, <4>2, SubtreeOrder
      <4>5. i = Len(out) \/ i < Len(out)
        BY <2>1
      <4> QED
        BY <2>1, <4>3, <4>4, <4>5 DEF Unbroken
    <3> QED
      BY <3>1, <3>2
  <2> QED
    BY <1>1, <1>2, <1>3, <1>4, <2>1, <2>2 DEF p
<1> QED
  BY <1>5, <1>6

\* Cutting the stack back to the parent, by levels alone, finds the parent.
LEMMA CopyFacts ==
  ASSUME IInv, CopyInv, Rebuilding, error = "none", VisitPre, Popped # Root, CopyItem(Popped)
  PROVE  /\ error' = error /\ depth' = Len(Popped)
         /\ built' = Put(built, Popped, IF ValueOf(Popped) = {} THEN IF Popped \in DOMAIN built THEN built[Popped] ELSE {}
                                        ELSE ValueOf(Popped))
         /\ way' = [i \in 1 .. Len(Popped) + 1 |-> SubSeq(Popped, 1, i - 1)]
<1>1. PICK n, p, x, d : n = Popped /\ p = Front(Popped) /\ x = Current /\ d = depth
  OBVIOUS
<1>2. /\ n \in tree /\ n \notin ToSet(out) /\ x \in tree /\ p \in tree /\ InSubtree(p, x) /\ Len(p) = Len(n) - 1
      /\ p = Front(n) /\ n # Root
  BY <1>1, ParentOnTheWay
<1>3. Typing /\ d = Len(x) /\ way = [i \in 1 .. d + 1 |-> SubSeq(x, 1, i - 1)]
  BY <1>1 DEF IInv, CopyInv
<1>4. /\ n \in Seq(Keys) /\ p \in Seq(Keys) /\ x \in Seq(Keys) /\ n # <<>>
      /\ Len(n) \in Nat /\ Len(p) \in Nat /\ Len(x) \in Nat /\ d \in Nat
      /\ Len(n) > 0 /\ Len(p) <= d
  BY <1>2, <1>3, TreeFacts, SubtreeOrder DEF Root
<1>5. /\ n \in Children(p) /\ Append(p, Last(n)) = n
  BY <1>2, <1>3, ParentFacts, ChildKey
<1>6. \A k \in 1 .. Len(x) + 1 : SubSeq(x, 1, k - 1) \in Seq(Keys) /\ Len(SubSeq(x, 1, k - 1)) = k - 1
                                 /\ \A i \in 1 .. k - 1 : SubSeq(x, 1, k - 1)[i] = x[i]
  <2>1. \A k \in 1 .. Len(x) + 1 : k - 1 \in 0 .. Len(x)
    BY <1>4
  <2> QED
    BY <1>4, <2>1, SubSeqFacts
<1>7. way \in Seq(Seq(Keys)) /\ Len(way) = d + 1 /\ \A k \in 1 .. d + 1 : way[k] = SubSeq(x, 1, k - 1)
  <2>1. way \in [1 .. d + 1 -> Seq(Keys)]
    BY <1>3, <1>6
  <2>2. \A k \in Nat : \A g \in [1 .. k -> Seq(Keys)] : g \in Seq(Seq(Keys)) /\ Len(g) = k
    OBVIOUS
  <2>3. d + 1 \in Nat
    BY <1>4
  <2> QED
    BY <1>3, <2>1, <2>2, <2>3
<1>8. Pops(n) = d + 1 - Len(n) /\ ~(Pops(n) < 0 \/ Pops(n) >= Len(way)) /\ Len(way) - Pops(n) = Len(n)
  <2>1. Pops(n) = d + 1 - Len(n)
    BY <1>1 DEF Pops
  <2> QED
    BY <1>2, <1>4, <1>7, <2>1
<1> DEFINE left == SubSeq(way, 1, Len(way) - Pops(n))
           current == Append(Last(left), Last(n))
           had == IF current \in DOMAIN built THEN built[current] ELSE {}
<1>9. /\ built' = Put(built, current, IF ValueOf(n) = {} THEN had ELSE ValueOf(n))
      /\ way' = Append(left, current)
      /\ depth' = depth + 1 - Pops(n)
      /\ error' = error
  BY <1>1, <1>8 DEF CopyItem
<1>10. /\ left \in Seq(Seq(Keys)) /\ Len(left) = Len(n) /\ \A i \in 1 .. Len(n) : left[i] = SubSeq(x, 1, i - 1)
  <2>1. Len(n) \in 0 .. Len(way) /\ \A i \in 1 .. Len(n) : i \in 1 .. d + 1
    BY <1>2, <1>4, <1>7
  <2>2. left = SubSeq(way, 1, Len(n))
    BY <1>8
  <2> HIDE DEF left
  <2> QED
    BY <1>7, <2>1, <2>2, SubSeqFacts
<1> HIDE DEF left
<1>11. \A i \in 1 .. Len(n) : SubSeq(x, 1, i - 1) = SubSeq(n, 1, i - 1)
  <2> SUFFICES ASSUME NEW i \in 1 .. Len(n) PROVE SubSeq(x, 1, i - 1) = SubSeq(n, 1, i - 1)
    OBVIOUS
  <2>1. i - 1 \in 0 .. Len(p) /\ i - 1 \in 0 .. Len(x) /\ i - 1 \in 0 .. Len(n) /\ i \in 1 .. Len(x) + 1
    BY <1>2, <1>3, <1>4
  <2>2. /\ SubSeq(n, 1, i - 1) \in Seq(Keys) /\ Len(SubSeq(n, 1, i - 1)) = i - 1
        /\ \A k \in 1 .. i - 1 : SubSeq(n, 1, i - 1)[k] = n[k]
    BY <1>4, <2>1, SubSeqFacts
  <2>3. /\ SubSeq(x, 1, i - 1) \in Seq(Keys) /\ Len(SubSeq(x, 1, i - 1)) = i - 1
        /\ \A k \in 1 .. i - 1 : SubSeq(x, 1, i - 1)[k] = x[k]
    BY <1>6, <2>1
  <2>4. \A k \in 1 .. Len(p) : p[k] = x[k]
    BY <1>2, <1>4, PrefixPointwise DEF InSubtree
  <2>5. \A k \in 1 .. Len(p) : p[k] = n[k]
    BY <1>2, <1>4, FrontFacts
  <2>6. \A k \in 1 .. i - 1 : x[k] = n[k]
    BY <1>4, <2>1, <2>4, <2>5
  <2> QED
    BY <2>2, <2>3, <2>6
<1>12. Last(left) = p
  <2>1. Len(n) \in 1 .. Len(n) /\ Last(left) = left[Len(n)]
    BY <1>4, <1>10 DEF Last
  <2>2. left[Len(n)] = SubSeq(n, 1, Len(n) - 1)
    BY <1>10, <1>11, <2>1
  <2> QED
    BY <1>2, <2>1, <2>2 DEF Front
<1>13. current = n
  BY <1>5, <1>12
<1>14. way' = [i \in 1 .. Len(n) + 1 |-> SubSeq(n, 1, i - 1)]
  <2>1. way' = Append(left, n)
    BY <1>9, <1>13
  <2>2. /\ DOMAIN way' = 1 .. Len(n) + 1 /\ way' \in Seq(Seq(Keys))
        /\ way'[Len(n) + 1] = n /\ \A i \in 1 .. Len(n) : way'[i] = SubSeq(n, 1, i - 1)
        /\ \A i \in 1 .. Len(n) + 1 : i \in 1 .. Len(n) \/ i = Len(n) + 1
    BY <1>4, <1>10, <1>11, <2>1, AppendFacts
  <2>3. SubSeq(n, 1, (Len(n) + 1) - 1) = n
    <3>1. (Len(n) + 1) - 1 = Len(n) /\ Len(n) \in 0 .. Len(n)
      BY <1>4
    <3>2. SubSeq(n, 1, Len(n)) \in Seq(Keys) /\ Len(SubSeq(n, 1, Len(n))) = Len(n)
          /\ \A i \in 1 .. Len(n) : SubSeq(n, 1, Len(n))[i] = n[i]
      BY <1>4, <3>1, SubSeqFacts
    <3>3. SubSeq(n, 1, Len(n)) = n
      BY <1>4, <3>2
    <3> QED
      BY <3>1, <3>3
  <2>4. \A i \in 1 .. Len(n) + 1 : way'[i] = SubSeq(n, 1, i - 1)
    BY <2>2, <2>3
  <2>5. way' = [i \in 1 .. Len(n) + 1 |-> way'[i]]
    BY <2>2
  <2> QED
    BY <2>4, <2>5
<1>15. depth' = Len(n)
  <2>1. depth' = d + 1 - (d + 1 - Len(n))
    BY <1>1, <1>8, <1>9
  <2> QED
    BY <1>4, <2>1
<1>16. built' = Put(built, n, IF ValueOf(n) = {} THEN IF n \in DOMAIN built THEN built[n] ELSE {} ELSE ValueOf(n))
  BY <1>9, <1>13
<1> QED
  BY <1>1, <1>9, <1>14, <1>15, <1>16

\* Copying what is yielded keeps the invariant of the loop.
LEMMA CopyKeeps ==
  ASSUME IInv, CopyInv, Rebuilding, error = "none", VisitPre, Popped # Root, CopyItem(Popped),
         given' = given
  PROVE  CopyInv'
<1>1. PICK n, v : n = Popped /\ v = [m \in ToSet(out) \cup {Root, n} |-> ValueOf(m)]
  OBVIOUS
<1>2. /\ n \in tree /\ n \notin ToSet(out) /\ n # Root /\ out' = Append(out, n) /\ out \in Seq(tree)
      /\ mode' = mode /\ based' = based /\ tree' = tree
  BY <1>1, ParentOnTheWay DEF IInv, Typing, VisitPre
<1>3. out' # <<>> /\ Last(out') = n /\ ToSet(out') = ToSet(out) \cup {n}
  <2>1. ToSet(Append(out, n)) = ToSet(out) \cup {n}
    BY <1>2, ToSetAppend
  <2>2. Append(out, n)[Len(out) + 1] = n /\ Len(Append(out, n)) = Len(out) + 1 /\ Len(out) \in Nat
    BY <1>2, AppendFacts
  <2>3. Append(out, n) # <<>>
    BY <2>2
  <2> QED
    BY <1>2, <2>1, <2>2, <2>3 DEF Last
<1>4. Current' = n
  BY <1>3 DEF Current
<1>5. /\ error' = "none" /\ depth' = Len(n)
      /\ built' = Put(built, n, IF ValueOf(n) = {} THEN IF n \in DOMAIN built THEN built[n] ELSE {} ELSE ValueOf(n))
      /\ way' = [i \in 1 .. Len(n) + 1 |-> SubSeq(n, 1, i - 1)]
  BY <1>1, CopyFacts
<1>6. built = [m \in ToSet(out) \cup {Root} |-> ValueOf(m)]
  BY DEF CopyInv
<1>7. built' = Put(built, n, ValueOf(n))
  BY <1>2, <1>5, <1>6
<1>8. built' = v
  BY <1>1, <1>2, <1>6, <1>7 DEF Put
<1>9. \A m : ValueOf(m)' = ValueOf(m)
  BY DEF ValueOf
<1>10. v = [m \in ToSet(out') \cup {Root} |-> ValueOf(m)']
  <2>1. ToSet(out') \cup {Root} = ToSet(out) \cup {Root, n}
    BY <1>3
  <2> QED
    BY <1>1, <1>9, <2>1
<1> QED
  BY <1>4, <1>5, <1>8, <1>10 DEF CopyInv

\* Every step keeps the invariant of the copy.
LEMMA StepCopy ==
  ASSUME IInv, CopyInv, [WholeNext]_<<vars, pruneVars, wholeVars>>
  PROVE  CopyInv'
<1>0. /\ [Next]_vars
      /\ IF Pruning /\ out' # out THEN PruneItem(Last(out')) ELSE UNCHANGED pruneVars
      /\ IF Rebuilding /\ out' # out /\ error = "none" THEN CopyItem(Last(out')) ELSE UNCHANGED wholeVars
  BY DEF WholeNext, PruneStep, WholeStep, vars
<1>1. tree' = tree /\ mode' = mode /\ based' = based /\ Rebuilding' = Rebuilding
  BY <1>0, StepFrame DEF Rebuilding
<1>2. CASE ~Rebuilding
  BY <1>1, <1>2 DEF CopyInv
<1>3. Rebuilding => given' = given
  BY <1>0 DEF Rebuilding, Pruning, pruneVars
<1>4. \A m : Rebuilding => ValueOf(m)' = ValueOf(m)
  BY <1>3 DEF ValueOf
<1>5. CASE Rebuilding /\ error # "none"
  BY <1>0, <1>1, <1>5 DEF CopyInv, wholeVars
<1>6. CASE Rebuilding /\ out' = out
  <2>1. built' = built /\ way' = way /\ depth' = depth /\ error' = error
    BY <1>0, <1>6 DEF wholeVars
  <2>2. Current' = Current
    BY <1>6 DEF Current
  <2> QED
    BY <1>1, <1>4, <1>6, <2>1, <2>2 DEF CopyInv
<1>7. CASE Rebuilding /\ error = "none" /\ out' # out
  <2>1. /\ Typing /\ mode = "stack" /\ ~based
    BY <1>7 DEF IInv, Rebuilding
  <2>2. ~StartPre
    BY <1>7, <2>1 DEF StartPre, Typing
  <2>3. VisitPre
    BY <1>0, <1>7, <2>1, <2>2 DEF Next, EndPre, StartPost, Descend, Ascend, EndPost, vars
  <2>4. Popped # Root /\ out' = Append(out, Popped) /\ out \in Seq(tree) /\ Popped \in tree
    BY <1>7, <2>1, <2>3, VisitFacts, ParentOnTheWay DEF Typing
  <2>5. Last(out') = Popped
    <3>1. \A e \in tree : Append(out, e)[Len(out) + 1] = e /\ Len(Append(out, e)) = Len(out) + 1
      BY <2>4, AppendFacts
    <3> QED
      BY <2>4, <3>1 DEF Last
  <2>6. CopyItem(Last(out'))
    BY <1>0, <1>7
  <2>7. CopyItem(Popped)
    BY <2>5, <2>6
  <2> QED
    BY <1>3, <1>7, <2>3, <2>4, <2>7, CopyKeeps
<1> QED
  BY <1>2, <1>5, <1>6, <1>7

\* The copy starts with the root alone, and a tree that has nothing is refused.
LEMMA InitCopyInv == WholeInit => CopyInv
<1> SUFFICES ASSUME WholeInit PROVE CopyInv
  OBVIOUS
<1>1. /\ out = <<>> /\ built = [n \in {Root} |-> ValueOf(n)] /\ way = <<Root>> /\ depth = 0
      /\ error = IF Rebuilding /\ tree = {Root} /\ ValueOf(Root) = {} THEN "EmptyTree" ELSE "none"
  BY DEF WholeInit, PruneInit, Init
<1>2. Current = Root /\ Len(Root) = 0
  BY <1>1 DEF Current, Root
<1>3. ToSet(out) = {}
  BY <1>1 DEF ToSet
<1>4. way = [i \in 1 .. depth + 1 |-> SubSeq(Current, 1, i - 1)]
  <2>1. SubSeq(Root, 1, 0) = Root
    BY DEF Root
  <2>2. 1 .. depth + 1 = {1}
    BY <1>1
  <2>3. \A i \in {1} : SubSeq(Root, 1, i - 1) = Root
    BY <2>1
  <2>4. <<Root>> = [i \in {1} |-> Root]
    OBVIOUS
  <2> QED
    BY <1>1, <1>2, <2>2, <2>3, <2>4
<1>5. error \in {"none", "EmptyTree"} /\ (error = "EmptyTree" => tree = {Root})
  BY <1>1
<1>6. built = [n \in ToSet(out) \cup {Root} |-> ValueOf(n)]
  BY <1>1, <1>3
<1> QED
  BY <1>1, <1>2, <1>4, <1>5, <1>6 DEF CopyInv

\* The loop of deserializeWholeTree has its invariant at every node it is given.
THEOREM CopyInvariance == WholeSpec => []CopyInv
  BY InitCopyInv, StepCopy, Invariance, PTL DEF WholeSpec

\* For every tree and every set of expired values deserializeWholeTree rebuilds the
\* tree that was traversed: the levels alone always take it back to the right
\* parent, TreeError is never thrown, and EmptyTree only for a lone root.
THEOREM WholeCopyHolds == WholeSpec => []WholeCopy
<1>1. IInv /\ CopyInv => WholeCopy
  <2> SUFFICES ASSUME IInv, CopyInv, Rebuilding
               PROVE  /\ error # "TreeError"
                      /\ pc = "end" /\ error = "none" => built = [n \in tree |-> ValueOf(n)]
                      /\ error = "EmptyTree" => tree = {Root}
    BY DEF WholeCopy
  <2>1. error # "TreeError" /\ (error = "EmptyTree" => tree = {Root})
    BY DEF CopyInv
  <2>2. ASSUME pc = "end", error = "none" PROVE built = [n \in tree |-> ValueOf(n)]
    <3>1. ToSet(out) = tree \ {Root} /\ Typing
      BY <2>2 DEF IInv, EachOnce, Rebuilding
    <3>2. ToSet(out) \cup {Root} = tree
      BY <3>1, TreeFacts
    <3> QED
      BY <2>2, <3>2 DEF CopyInv
  <2> QED
    BY <2>1, <2>2
<1> QED
  BY <1>1, Invariance, CopyInvariance, PTL

=============================================================================
