------------------------- MODULE AsyncTraversalProofs -------------------------
(***************************************************************************)
(* Proofs about the traversals of key level nodes, for any storage that    *)
(* grows while they run, any base and any of the three lists: no node is   *)
(* yielded twice, nothing that was there at the start is missed, and the   *)
(* nodes come in the order the name of the search says.                    *)
(***************************************************************************)
EXTENDS AsyncTraversal, PathLemmas

-----------------------------------------------------------------------------
(* The inductive invariant *)

Entries == [type : {"item", "iterator"}, node : AllNodes]
Iterators == [open : BOOLEAN, must : SUBSET Universe, given : SUBSET Universe]
TreeNodes == {m \in Universe : Len(m) = KeyLevelNodes}

Typing ==
  /\ registered \subseteq Universe /\ stored \subseteq Universe /\ before \subseteq Universe
  /\ mode \in {"queue", "stack", "post"}
  /\ base \in AllNodes /\ Len(base) < KeyLevelNodes
  /\ list \in Seq(Entries) /\ size \in Nat /\ frames \in Seq(AllNodes) /\ out \in Seq(AllNodes)
  /\ iter \in [AllNodes -> Iterators]
  /\ reading \in AllNodes /\ child \in AllNodes
  /\ trees \in [TreeNodes -> SUBSET Universe]
  /\ pc \in {"start", "loop", "pop", "next", "fetch", "deliver", "end", "failed"}

\* An iterator is being read; it has given a child that is not delivered yet.
Reading == pc \in {"next", "fetch", "deliver"}
Busy == pc \in {"fetch", "deliver"}

\* Which of the variables a traversal uses, and where the iterator that is read
\* is kept.
ShapeInv ==
  /\ IF mode = "post" THEN list = <<>> /\ pc \notin {"loop", "pop"} ELSE frames = <<>>
  /\ pc = "start" => /\ list = <<>> /\ frames = <<>> /\ out = <<>> /\ before = {}
                     /\ \A m \in AllNodes : ~iter[m].open
  /\ pc = "end" => list = <<>> /\ frames = <<>>
  /\ pc = "pop" => mode = "queue"
  /\ size >= Len(list)
  /\ \A i \in DOMAIN list :
       list[i].type = "iterator" => mode = "queue" /\ ~InTree(list[i].node)
  /\ Reading =>
       /\ mode = "queue" => list # <<>> /\ list[1] = Iterator(reading)
       /\ mode = "post" => frames # <<>> /\ frames[Len(frames)] = reading
       /\ mode # "post" => ~InTree(reading)
  /\ Busy => child \in ChildrenOf(reading) /\ child \in iter[reading].given
  /\ pc = "fetch" => ~InTree(reading)

\* The nodes in the list, all that were found, and those whose children have been
\* asked for.
ItemsOf(l) == {l[i].node : i \in {j \in DOMAIN l : l[j].type = "item"}}
Items == ItemsOf(list)
Found == ToSet(out) \cup Items \cup ToSet(frames) \cup {c \in {child} : Busy}
Entered ==
  IF mode = "post" THEN ToSet(out) \cup ToSet(frames) \cup {b \in {base} : pc = "end"}
  ELSE (ToSet(out) \cup {base}) \ Items

\* A node is found once: through the iterator of its parent, which gives it once,
\* or when the parent, a node of a tree, is visited, which happens once.
FoundInv ==
  /\ \A n \in Found \ {base} :
       /\ InSubtree(base, n)
       /\ mode = "post" \/ ~InTree(Front(n)) => n \in iter[Front(n)].given
       /\ \A m \in AllNodes :
            InSubtree(base, m) /\ InSubtree(m, n) /\ m # n => m \in Entered
  /\ Reading => reading \in Entered
  /\ \A i \in DOMAIN list : list[i].type = "iterator" => list[i].node \in Entered
  /\ \A m \in AllNodes : IF iter[m].open THEN m \in Entered ELSE iter[m].given = {}

\* The places a node may be at exclude each other.
OnceInv ==
  /\ IsInjective(out)
  /\ \A i, j \in DOMAIN list :
       list[i].type = "item" /\ list[j].type = "item" /\ list[i].node = list[j].node => i = j
  /\ Items \cap ToSet(out) \subseteq {base}
  /\ ToSet(frames) \cap ToSet(out) = {}
  /\ Busy => /\ child \notin Items \cup ToSet(frames) \cup {base}
             /\ \A i \in DOMAIN out : ~InSubtree(child, out[i])

\* What is delivered can be reached.
Delivered == ToSet(out) \cup Items \cup ToSet(frames) \cup {c \in {child} : pc = "deliver"}

ReachInv ==
  /\ Delivered \ {base} \subseteq Reachable(base)
  /\ pc = "fetch" => child \in registered
  /\ \A m \in TreeNodes : \A x \in trees[m] : x \in stored /\ InSubtree(m, x)

\* The node below m on the way to n.
Toward(n, m) == SubSeq(n, 1, Len(m) + 1)

\* What was there at the start is in every tree that was read and in every
\* iterator that was opened since.
KnownInv ==
  /\ before \subseteq Reachable(base)
  /\ \A m \in TreeNodes \cap Delivered : \A n \in before :
       InSubtree(m, n) => \A l \in KeyLevelNodes .. Len(n) : SubSeq(n, 1, l) \in trees[m]
  /\ \A m \in AllNodes : \A n \in before :
       iter[m].open /\ InSubtree(base, m) /\ InSubtree(m, n) /\ m # n => Toward(n, m) \in iter[m].must

\* The iterator of m is in the list or being read.
Active(m) ==
  \/ \E i \in DOMAIN list : list[i] = Iterator(m)
  \/ mode = "stack" /\ Reading /\ reading = m

\* m will lead the traversal to n.
Leads(m, n) ==
  /\ InSubtree(base, m) /\ InSubtree(m, n)
  /\ \/ m \in Items
     \/ Busy /\ m = child
     \/ m \in ToSet(frames) /\ m = n
     \/ /\ m \in ToSet(frames) \/ Active(m)
        /\ m # n /\ Toward(n, m) \notin iter[m].given

CoverInv ==
  pc \notin {"start", "failed"} =>
    \A n \in before : n \in ToSet(out) \/ \E m \in AllNodes : Leads(m, n)

\* The level of what an entry yields next.
EntryLevel(e) == IF e.type = "item" THEN Len(e.node) ELSE Len(e.node) + 1

LevelInv ==
  mode = "queue" =>
    /\ \A i, j \in DOMAIN list : i < j => EntryLevel(list[i]) <= EntryLevel(list[j])
    /\ \A j \in DOMAIN list : EntryLevel(list[j]) <= EntryLevel(list[1]) + 1
    /\ \A i \in DOMAIN out, j \in DOMAIN list : Len(out[i]) <= EntryLevel(list[j])

\* Once the subtree of n was entered, nothing else was yielded.
Unbroken(n) == \A i, j \in DOMAIN out : i < j /\ InSubtree(n, out[i]) => InSubtree(n, out[j])

\* What is above an entry in a stack belongs to the subtree of the entry's parent.
StackInv ==
  mode = "stack" =>
    /\ \A i, j \in DOMAIN list : i < j => InSubtree(Front(list[i].node), list[j].node)
    /\ \A i \in DOMAIN list : \A n \in AllNodes :
         InSubtree(n, list[i].node) /\ n # list[i].node => Unbroken(n)
    /\ Reading =>
         /\ \A i \in DOMAIN list : InSubtree(Front(list[i].node), reading)
         /\ \A n \in AllNodes : InSubtree(n, reading) => Unbroken(n)

\* The recursive calls are the way from the base to the innermost of them.
FrameInv ==
  mode = "post" =>
    /\ \A i, j \in DOMAIN frames : i <= j => InSubtree(frames[i], frames[j])
    /\ \A i \in DOMAIN frames : Len(frames[i]) = Len(base) + i - 1 /\ InSubtree(base, frames[i])
    /\ \A i \in DOMAIN frames : \A n \in AllNodes : InSubtree(n, frames[i]) => Unbroken(n)

IInv ==
  /\ Typing /\ ShapeInv /\ FoundInv /\ OnceInv /\ ReachInv /\ KnownInv /\ CoverInv
  /\ LevelInv /\ BreadthOrder
  /\ StackInv /\ FrameInv /\ DepthOrder /\ AncestorOrder

-----------------------------------------------------------------------------
(* Nodes: the order of prefixes *)

\* Every node is a sequence of keys, and its prefixes are nodes.
LEMMA NodeFacts ==
  ASSUME NEW n \in AllNodes
  PROVE  /\ n \in Seq(KeyNames) /\ Len(n) \in Nat
         /\ n \in Universe <=> Len(n) > 0
         /\ \A l \in 0 .. Len(n) : SubSeq(n, 1, l) \in AllNodes /\ Len(SubSeq(n, 1, l)) = l
<1>1. n \in Seq(KeyNames) /\ Len(n) \in Nat /\ (n \in Universe <=> Len(n) > 0)
  <2>1. CASE n \in Universe
    BY <2>1, UniverseAssumption
  <2>2. CASE n = <<>>
    <3>1. n \in Seq(KeyNames) /\ Len(n) = 0
      BY <2>2
    <3> QED
      BY <3>1, UniverseAssumption
  <2> QED
    BY <2>1, <2>2 DEF AllNodes
<1>2. ASSUME NEW l \in 0 .. Len(n)
      PROVE  SubSeq(n, 1, l) \in AllNodes /\ Len(SubSeq(n, 1, l)) = l
  <2>1. CASE l = 0
    BY <1>1, <2>1 DEF AllNodes
  <2>2. CASE l > 0
    <3>1. n \in Universe /\ l \in 1 .. Len(n)
      BY <1>1, <2>2
    <3>2. SubSeq(n, 1, l) \in Universe
      BY <3>1, UniverseAssumption
    <3> QED
      BY <1>1, <3>1, <3>2 DEF AllNodes
  <2> QED
    BY <2>1, <2>2
<1> QED
  BY <1>1, <1>2

\* The subtrees are ordered like prefixes are.
LEMMA SubtreePointwise ==
  ASSUME NEW m \in AllNodes, NEW n \in AllNodes
  PROVE  InSubtree(m, n) <=> Len(m) <= Len(n) /\ \A i \in 1 .. Len(m) : m[i] = n[i]
  BY NodeFacts, PrefixPointwise DEF InSubtree

\* Subtrees are nested: a partial order, total on the ancestors of a node.
LEMMA SubtreeOrder ==
  ASSUME NEW m \in AllNodes, NEW n \in AllNodes
  PROVE  /\ InSubtree(m, m)
         /\ InSubtree(m, n) => Len(m) <= Len(n)
         /\ InSubtree(m, n) /\ Len(n) <= Len(m) => m = n
         /\ \A k \in AllNodes : InSubtree(m, n) /\ InSubtree(n, k) => InSubtree(m, k)
         /\ \A k \in AllNodes :
              InSubtree(m, k) /\ InSubtree(n, k) /\ Len(m) <= Len(n) => InSubtree(m, n)
<1>1. m \in Seq(KeyNames) /\ n \in Seq(KeyNames) /\ Len(m) \in Nat /\ Len(n) \in Nat
  BY NodeFacts
<1>2. InSubtree(m, m)
  BY <1>1, SubtreePointwise
<1>3. InSubtree(m, n) => Len(m) <= Len(n)
  BY SubtreePointwise
<1>4. ASSUME InSubtree(m, n), Len(n) <= Len(m) PROVE m = n
  <2>1. Len(m) = Len(n)
    BY <1>1, <1>3, <1>4
  <2>2. \A i \in 1 .. Len(m) : m[i] = n[i]
    BY <1>4, SubtreePointwise
  <2> QED
    BY <1>1, <2>1, <2>2
<1>5. ASSUME NEW k \in AllNodes, InSubtree(m, n), InSubtree(n, k) PROVE InSubtree(m, k)
  <2>1. Len(m) <= Len(n) /\ \A i \in 1 .. Len(m) : m[i] = n[i]
    BY <1>5, SubtreePointwise
  <2>2. Len(n) <= Len(k) /\ \A i \in 1 .. Len(n) : n[i] = k[i]
    BY <1>5, SubtreePointwise
  <2>3. Len(k) \in Nat
    BY NodeFacts
  <2>4. Len(m) <= Len(k) /\ \A i \in 1 .. Len(m) : m[i] = k[i]
    BY <1>1, <2>1, <2>2, <2>3
  <2> QED
    BY <2>4, SubtreePointwise
<1>6. ASSUME NEW k \in AllNodes, InSubtree(m, k), InSubtree(n, k), Len(m) <= Len(n)
      PROVE  InSubtree(m, n)
  <2>1. \A i \in 1 .. Len(m) : m[i] = k[i]
    BY <1>6, SubtreePointwise
  <2>2. \A i \in 1 .. Len(n) : n[i] = k[i]
    BY <1>6, SubtreePointwise
  <2>3. \A i \in 1 .. Len(m) : m[i] = n[i]
    BY <1>1, <1>6, <2>1, <2>2
  <2> QED
    BY <1>6, <2>3, SubtreePointwise
<1> QED
  BY <1>2, <1>3, <1>4, <1>5, <1>6

\* The prefixes of a node are the nodes whose subtrees it is in.
LEMMA PrefixFacts ==
  ASSUME NEW n \in AllNodes
  PROVE  /\ \A l \in 0 .. Len(n) : InSubtree(SubSeq(n, 1, l), n)
         /\ \A m \in AllNodes : InSubtree(m, n) => m = SubSeq(n, 1, Len(m))
<1>1. ASSUME NEW l \in 0 .. Len(n) PROVE InSubtree(SubSeq(n, 1, l), n)
  <2>1. SubSeq(n, 1, l) \in AllNodes /\ Len(SubSeq(n, 1, l)) = l /\ n \in Seq(KeyNames)
    BY NodeFacts
  <2>2. \A i \in 1 .. l : SubSeq(n, 1, l)[i] = n[i]
    BY <2>1
  <2>3. l <= Len(n)
    BY NodeFacts
  <2> QED
    BY <2>1, <2>2, <2>3, SubtreePointwise
<1>2. ASSUME NEW m \in AllNodes, InSubtree(m, n) PROVE m = SubSeq(n, 1, Len(m))
  <2>1. Len(m) \in 0 .. Len(n)
    BY <1>2, SubtreeOrder, NodeFacts
  <2>2. InSubtree(SubSeq(n, 1, Len(m)), n) /\ Len(SubSeq(n, 1, Len(m))) = Len(m)
        /\ SubSeq(n, 1, Len(m)) \in AllNodes
    BY <1>1, <2>1, NodeFacts
  <2>3. InSubtree(m, SubSeq(n, 1, Len(m)))
    BY <1>2, <2>1, <2>2, SubtreeOrder
  <2> QED
    BY <2>1, <2>2, <2>3, SubtreeOrder
<1> QED
  BY <1>1, <1>2

\* The parent of a node that is not the root.
LEMMA ParentFacts ==
  ASSUME NEW n \in AllNodes, Len(n) > 0
  PROVE  /\ Front(n) \in AllNodes /\ Len(Front(n)) = Len(n) - 1
         /\ InSubtree(Front(n), n) /\ Front(n) # n
         /\ \A m \in AllNodes : InSubtree(m, n) /\ m # n => InSubtree(m, Front(n))
<1>1. Len(n) - 1 \in 0 .. Len(n)
  BY NodeFacts
<1>2. /\ Front(n) \in AllNodes /\ Len(Front(n)) = Len(n) - 1 /\ InSubtree(Front(n), n)
  BY <1>1, NodeFacts, PrefixFacts DEF Front
<1>3. ASSUME NEW m \in AllNodes, InSubtree(m, n), m # n PROVE InSubtree(m, Front(n))
  <2>1. Len(m) < Len(n)
    BY <1>3, SubtreeOrder, NodeFacts
  <2> QED
    BY <1>2, <1>3, <2>1, SubtreeOrder, NodeFacts
<1> QED
  BY <1>1, <1>2, <1>3, NodeFacts

\* A child is a node whose parent it is.
LEMMA ChildFacts ==
  ASSUME NEW n \in AllNodes, NEW c \in AllNodes, Len(c) = Len(n) + 1, InSubtree(n, c)
  PROVE  /\ c \in Universe /\ Len(c) > 0 /\ Front(c) = n /\ c # n
         /\ \A m \in AllNodes : InSubtree(m, c) /\ m # c => InSubtree(m, n)
<1>1. c \in Universe /\ Len(c) > 0 /\ Len(n) \in Nat /\ c # n
  BY NodeFacts
<1>2. InSubtree(n, Front(c)) /\ Len(Front(c)) = Len(n) /\ Front(c) \in AllNodes
  BY <1>1, ParentFacts
<1>3. Front(c) = n
  BY <1>1, <1>2, SubtreeOrder
<1> QED
  BY <1>1, <1>3, ParentFacts

\* The node below m on the way to n.
LEMMA TowardFacts ==
  ASSUME NEW n \in AllNodes, NEW m \in AllNodes, InSubtree(m, n), m # n
  PROVE  /\ Toward(n, m) \in Universe /\ Len(Toward(n, m)) = Len(m) + 1
         /\ InSubtree(Toward(n, m), n) /\ InSubtree(m, Toward(n, m))
         /\ \A c \in AllNodes : Len(c) = Len(m) + 1 /\ InSubtree(c, n) => c = Toward(n, m)
<1>1. Len(m) < Len(n) /\ Len(m) \in Nat /\ Len(n) \in Nat
  BY SubtreeOrder, NodeFacts
<1>2. Len(m) + 1 \in 0 .. Len(n)
  BY <1>1
<1>3. /\ Toward(n, m) \in AllNodes /\ Len(Toward(n, m)) = Len(m) + 1 /\ InSubtree(Toward(n, m), n)
  BY <1>2, NodeFacts, PrefixFacts DEF Toward
<1>4. InSubtree(m, Toward(n, m))
  BY <1>1, <1>3, SubtreeOrder
<1>5. \A c \in AllNodes : Len(c) = Len(m) + 1 /\ InSubtree(c, n) => c = Toward(n, m)
  BY PrefixFacts DEF Toward
<1> QED
  BY <1>1, <1>3, <1>4, <1>5, NodeFacts

-----------------------------------------------------------------------------
(* Lists *)

\* The nodes of a list are those of its items.
LEMMA ItemsMember ==
  ASSUME NEW l \in Seq(Entries)
  PROVE  \A x : x \in ItemsOf(l) <=> \E i \in 1 .. Len(l) : l[i] = Item(x)
<1>1. DOMAIN l = 1 .. Len(l)
  OBVIOUS
<1>2. \A e \in Entries : e = [type |-> e.type, node |-> e.node]
  BY DEF Entries
<1>3. \A e \in Entries : \A x : e = Item(x) <=> e.type = "item" /\ e.node = x
  BY <1>2 DEF Item
<1>4. \A i \in 1 .. Len(l) : l[i] \in Entries
  OBVIOUS
<1> QED
  BY <1>1, <1>3, <1>4 DEF ItemsOf

-----------------------------------------------------------------------------
(* The effect of an iteration *)

\* What getChildren, or the tree, gives for a node: nodes one level below it.
LEMMA ChildrenFacts ==
  ASSUME Typing, NEW n \in AllNodes
  PROVE  /\ ChildrenOf(n) \subseteq Universe /\ IsFiniteSet(ChildrenOf(n))
         /\ InTree(n) => SubSeq(n, 1, KeyLevelNodes) \in TreeNodes
         /\ \A c \in ChildrenOf(n) : Len(c) = Len(n) + 1 /\ InSubtree(n, c) /\ Front(c) = n
<1>1. InTree(n) => SubSeq(n, 1, KeyLevelNodes) \in TreeNodes
  <2>1. SUFFICES ASSUME InTree(n) PROVE SubSeq(n, 1, KeyLevelNodes) \in TreeNodes
    OBVIOUS
  <2>2. KeyLevelNodes \in 0 .. Len(n) /\ KeyLevelNodes > 0
    BY <2>1, NodeFacts, UniverseAssumption DEF InTree, Typing
  <2>3. SubSeq(n, 1, KeyLevelNodes) \in AllNodes /\ Len(SubSeq(n, 1, KeyLevelNodes)) = KeyLevelNodes
    BY <2>2, NodeFacts
  <2> QED
    BY <2>2, <2>3, NodeFacts DEF TreeNodes
<1>2. ChildrenOf(n) \subseteq Universe
  BY <1>1 DEF ChildrenOf, Typing
<1>3. IsFiniteSet(ChildrenOf(n))
  BY <1>2, FS_Subset, UniverseAssumption
<1>4. ASSUME NEW c \in ChildrenOf(n) PROVE Len(c) = Len(n) + 1 /\ InSubtree(n, c) /\ Front(c) = n
  <2>1. Len(c) = Len(n) + 1 /\ InSubtree(n, c) /\ c \in AllNodes
    BY <1>2 DEF ChildrenOf, AllNodes
  <2> QED
    BY <2>1, ChildFacts
<1> QED
  BY <1>1, <1>2, <1>3, <1>4

\* What the visit of n pushes.
Pushed(n) ==
  IF InTree(n) THEN [i \in DOMAIN SetToSeq(ChildrenOf(n)) |-> Item(SetToSeq(ChildrenOf(n))[i])]
  ELSE IF mode = "queue" THEN <<Iterator(n)>> ELSE <<>>

\* What a visit pushes: each child of a tree's node once, or one iterator.
LEMMA PushedFacts ==
  ASSUME Typing, NEW n \in AllNodes
  PROVE  /\ Pushed(n) \in Seq(Entries)
         /\ InTree(n) =>
              /\ \A i \in 1 .. Len(Pushed(n)) : \E c \in ChildrenOf(n) : Pushed(n)[i] = Item(c)
              /\ \A c \in ChildrenOf(n) : \E i \in 1 .. Len(Pushed(n)) : Pushed(n)[i] = Item(c)
              /\ \A i, j \in 1 .. Len(Pushed(n)) : Pushed(n)[i].node = Pushed(n)[j].node => i = j
         /\ ~InTree(n) =>
              /\ \A i \in 1 .. Len(Pushed(n)) : i = 1 /\ mode = "queue" /\ Pushed(n)[i] = Iterator(n)
              /\ mode = "queue" => Len(Pushed(n)) = 1
<1>1. CASE InTree(n)
  <2> DEFINE s == SetToSeq(ChildrenOf(n))
  <2>1. s \in Seq(ChildrenOf(n)) /\ IsInjective(s) /\ ToSet(s) = ChildrenOf(n)
    BY ChildrenFacts, SetToSeqFacts
  <2> HIDE DEF s
  <2>2. ChildrenOf(n) \subseteq AllNodes
    BY ChildrenFacts DEF AllNodes
  <2>3. Pushed(n) = [i \in DOMAIN s |-> Item(s[i])]
    BY <1>1 DEF Pushed, s
  <2>4. DOMAIN s = 1 .. Len(s) /\ Len(s) \in Nat
    BY <2>1
  <2>5. \A i \in 1 .. Len(s) : s[i] \in ChildrenOf(n) /\ Item(s[i]) \in Entries /\ Item(s[i]).node = s[i]
    BY <2>1, <2>2 DEF Item, Entries
  <2>6. Pushed(n) \in Seq(Entries) /\ Len(Pushed(n)) = Len(s)
        /\ \A i \in 1 .. Len(s) : Pushed(n)[i] = Item(s[i])
    BY <2>3, <2>4, <2>5
  <2>7. \A c \in ChildrenOf(n) : \E i \in 1 .. Len(s) : s[i] = c
    BY <2>1, <2>4 DEF ToSet
  <2>8. \A i, j \in 1 .. Len(s) : s[i] = s[j] => i = j
    BY <2>1, <2>4 DEF IsInjective
  <2> QED
    BY <1>1, <2>5, <2>6, <2>7, <2>8
<1>2. CASE ~InTree(n) /\ mode = "queue"
  <2>1. Iterator(n) \in Entries
    BY DEF Entries, Iterator
  <2>2. Pushed(n) = <<Iterator(n)>>
    BY <1>2 DEF Pushed
  <2>3. Pushed(n) \in Seq(Entries) /\ Len(Pushed(n)) = 1 /\ Pushed(n)[1] = Iterator(n)
    BY <2>1, <2>2
  <2> QED
    BY <1>2, <2>3
<1>3. CASE ~InTree(n) /\ mode # "queue"
  <2>1. Pushed(n) = <<>>
    BY <1>3 DEF Pushed
  <2>2. Pushed(n) \in Seq(Entries) /\ Len(Pushed(n)) = 0
    BY <2>1
  <2> QED
    BY <1>3, <2>2
<1> QED
  BY <1>1, <1>2, <1>3

\* The list and its length after a visit.
LEMMA VisitFacts ==
  ASSUME Typing, NEW n \in AllNodes, NEW l \in Seq(Entries), NEW z \in Int, mode # "post",
         Visit(n, l, z)
  PROVE  /\ list' = l \o Pushed(n) /\ list' \in Seq(Entries)
         /\ Len(list') = Len(l) + Len(Pushed(n)) /\ size' = z + Len(Pushed(n))
         /\ out' = IF n = base THEN out ELSE Append(out, n)
         /\ reading' = n
         /\ pc' = IF ~InTree(n) /\ mode = "stack" THEN "next" ELSE "loop"
<1>1. Pushed(n) \in Seq(Entries)
  BY PushedFacts
<1>2. list' = l \o Pushed(n)
  <2>1. CASE InTree(n)
    BY <2>1 DEF Visit, Pushed
  <2>2. CASE ~InTree(n) /\ mode = "queue"
    BY <2>2 DEF Visit, Pushed
  <2>3. CASE ~InTree(n) /\ mode # "queue"
    BY <2>3 DEF Visit, Pushed
  <2> QED
    BY <2>1, <2>2, <2>3
<1>3. list' \in Seq(Entries) /\ Len(list') = Len(l) + Len(Pushed(n))
  BY <1>1, <1>2, ConcatFacts
<1>4. size' = z + Len(list') - Len(l)
  BY DEF Visit
<1>5. Len(l) \in Nat /\ Len(Pushed(n)) \in Nat
  BY <1>1
<1>6. size' = z + Len(Pushed(n))
  BY <1>3, <1>4, <1>5
<1> QED
  BY <1>2, <1>3, <1>6 DEF Visit

\* pop() gives n and leaves the list as l.
Taken(n, l) ==
  \/ Popping /\ list # <<>> /\ Entry = Item(n) /\ l = Rest
  \/ pc = "deliver" /\ mode = "queue" /\ n = child /\ l = list

\* pop() takes the first entry of a queue and the last of a stack.
LEMMA RestFacts ==
  ASSUME Typing, list # <<>>, mode # "post"
  PROVE  /\ Rest \in Seq(Entries) /\ Len(Rest) = Len(list) - 1 /\ Entry \in Entries /\ Len(list) \in Nat
         /\ mode = "queue" => Entry = list[1] /\ \A i \in 1 .. Len(Rest) : Rest[i] = list[i + 1]
         /\ mode = "stack" => Entry = list[Len(list)] /\ \A i \in 1 .. Len(Rest) : Rest[i] = list[i]
<1>1. list \in Seq(Entries) /\ Len(list) \in Nat /\ Len(list) > 0 /\ mode \in {"queue", "stack"}
  BY DEF Typing
<1>2. CASE mode = "queue"
  <2>1. Rest = Tail(list) /\ Entry = Head(list)
    BY <1>2 DEF Rest, Entry
  <2> QED
    BY <1>1, <1>2, <2>1
<1>3. CASE mode = "stack"
  <2>1. Rest = Front(list) /\ Entry = list[Len(list)]
    BY <1>3 DEF Rest, Entry, Last
  <2>2. Rest \in Seq(Entries) /\ Len(Rest) = Len(list) - 1 /\ Len(list) \in 1 .. Len(list)
        /\ \A i \in 1 .. Len(list) - 1 : Rest[i] = list[i]
    BY <1>1, <2>1, FrontFacts
  <2>3. Entry \in Entries
    BY <1>1, <2>1, <2>2
  <2> QED
    BY <1>1, <1>3, <2>1, <2>2, <2>3
<1> QED
  BY <1>1, <1>2, <1>3

\* PopItem, and Deliver of a queue, visit a node that was taken from the list.
LEMMA PopItemVisits ==
  ASSUME Typing, ShapeInv, PopItem
  PROVE  /\ mode # "post" /\ list # <<>> /\ Len(list) > 0 /\ size > 0
         /\ Entry.node \in AllNodes /\ Taken(Entry.node, Rest) /\ Visit(Entry.node, Rest, size - 1)
<1>1. mode # "post" /\ list # <<>> /\ Entry.type = "item" /\ Visit(Entry.node, Rest, size - 1) /\ Popping
  BY DEF PopItem, Popping, ShapeInv
<1>2. Entry \in Entries
  BY <1>1, RestFacts
<1>3. Entry.node \in AllNodes /\ Entry = Item(Entry.node)
  BY <1>1, <1>2 DEF Entries, Item
<1>4. Len(list) > 0 /\ size > 0
  BY <1>1 DEF Typing, ShapeInv
<1> QED
  BY <1>1, <1>3, <1>4 DEF Taken

\* A queue visits the child that its iterator gives.
LEMMA DeliverVisits ==
  ASSUME Typing, Deliver, mode = "queue"
  PROVE  child \in AllNodes /\ Taken(child, list) /\ Visit(child, list, size)
  BY DEF Deliver, Taken, Typing

\* The entries of the list that a node was taken from.
LEMMA TakenEntries ==
  ASSUME Typing, ShapeInv, mode # "post", NEW n \in AllNodes, NEW l, Taken(n, l)
  PROVE  /\ l \in Seq(Entries) /\ Len(l) <= Len(list) /\ Len(list) \in Nat
         /\ mode = "queue" \/ pc # "deliver"
         /\ \/ \A i \in 1 .. Len(l) : i \in 1 .. Len(list) /\ l[i] = list[i]
            \/ \A i \in 1 .. Len(l) : i + 1 \in 1 .. Len(list) /\ l[i] = list[i + 1]
         /\ Items \cup {c \in {child} : Busy} = ItemsOf(l) \cup {n}
         /\ \A m : (\E i \in 1 .. Len(l) : l[i] = Iterator(m)) <=> \E i \in 1 .. Len(list) : list[i] = Iterator(m)
<1>0. list \in Seq(Entries) /\ Len(list) \in Nat /\ mode \in {"queue", "stack"}
  BY DEF Typing
<1>1. CASE Popping /\ list # <<>> /\ Entry = Item(n) /\ l = Rest
  <2>1. /\ l \in Seq(Entries) /\ Len(l) = Len(list) - 1 /\ Len(list) \in Nat
        /\ mode = "queue" => Item(n) = list[1] /\ \A i \in 1 .. Len(l) : l[i] = list[i + 1]
        /\ mode = "stack" => Item(n) = list[Len(list)] /\ \A i \in 1 .. Len(l) : l[i] = list[i]
    BY <1>1, RestFacts
  <2>2. ~Busy /\ pc # "deliver"
    BY <1>1 DEF Popping, Busy
  <2>3. \A m : Item(n) # Iterator(m)
    BY DEF Item, Iterator
  <2>4. \A x : Item(n) = Item(x) <=> x = n
    BY DEF Item
  <2>5. /\ \A x : x \in Items <=> \E i \in 1 .. Len(list) : list[i] = Item(x)
        /\ \A x : x \in ItemsOf(l) <=> \E i \in 1 .. Len(l) : l[i] = Item(x)
    BY <1>0, <2>1, ItemsMember DEF Items
  <2>6. CASE mode = "queue"
    <3>1. \A i \in 1 .. Len(l) : i + 1 \in 1 .. Len(list) /\ l[i] = list[i + 1]
      BY <2>1, <2>6
    <3>2. \A i \in 1 .. Len(list) : i = 1 \/ (i - 1 \in 1 .. Len(l) /\ l[i - 1] = list[i])
      BY <2>1, <2>6
    <3>3. \A x : x \in Items <=> x = n \/ x \in ItemsOf(l)
      BY <2>1, <2>4, <2>5, <2>6, <3>1, <3>2
    <3>4. \A m : (\E i \in 1 .. Len(l) : l[i] = Iterator(m)) <=> \E i \in 1 .. Len(list) : list[i] = Iterator(m)
      BY <2>1, <2>3, <2>6, <3>1, <3>2
    <3> QED
      BY <2>1, <2>2, <2>6, <3>1, <3>3, <3>4
  <2>7. CASE mode = "stack"
    <3>1. \A i \in 1 .. Len(l) : i \in 1 .. Len(list) /\ l[i] = list[i]
      BY <2>1, <2>7
    <3>2. \A i \in 1 .. Len(list) : i = Len(list) \/ (i \in 1 .. Len(l) /\ l[i] = list[i])
      BY <2>1, <2>7
    <3>5. Len(list) \in 1 .. Len(list)
      BY <1>1, <2>1
    <3>3. \A x : x \in Items <=> x = n \/ x \in ItemsOf(l)
      BY <2>1, <2>4, <2>5, <2>7, <3>1, <3>2, <3>5
    <3>4. \A m : (\E i \in 1 .. Len(l) : l[i] = Iterator(m)) <=> \E i \in 1 .. Len(list) : list[i] = Iterator(m)
      BY <2>1, <2>3, <2>7, <3>1, <3>2
    <3> QED
      BY <2>1, <2>2, <2>7, <3>1, <3>3, <3>4
  <2> QED
    BY <1>0, <2>6, <2>7
<1>2. CASE pc = "deliver" /\ mode = "queue" /\ n = child /\ l = list
  <2>1. Items \cup {c \in {child} : Busy} = ItemsOf(l) \cup {n}
    BY <1>2 DEF Busy, Items
  <2> QED
    BY <1>0, <1>2, <2>1
<1> QED
  BY <1>1, <1>2 DEF Taken

-----------------------------------------------------------------------------
(* Types and shape *)

\* A traversal starts well typed, with nothing in its lists.
LEMMA InitTyping == Init => Typing /\ ShapeInv
<1> SUFFICES ASSUME Init PROVE Typing /\ ShapeInv
  OBVIOUS
<1>1. \A n \in AllNodes : Closed \in Iterators
  BY DEF Closed, Iterators
<1>2. iter \in [AllNodes -> Iterators] /\ \A m \in AllNodes : ~iter[m].open
  BY <1>1 DEF Init, Closed
<1>3. Typing
  <2>1. registered \subseteq Universe /\ stored \subseteq Universe /\ before \subseteq Universe
    BY UniverseAssumption DEF Init
  <2>2. mode \in {"queue", "stack", "post"} /\ base \in AllNodes /\ Len(base) < KeyLevelNodes
    BY UniverseAssumption DEF Init, AllNodes
  <2>3. list \in Seq(Entries) /\ size \in Nat /\ frames \in Seq(AllNodes) /\ out \in Seq(AllNodes)
    BY DEF Init
  <2>4. trees \in [TreeNodes -> SUBSET Universe] /\ reading \in AllNodes /\ child \in AllNodes
    BY DEF Init, TreeNodes, AllNodes
  <2> QED
    BY <1>2, <2>1, <2>2, <2>3, <2>4 DEF Init, Typing
<1>4. ShapeInv
  BY <1>2 DEF Init, ShapeInv, Reading, Busy
<1> QED
  BY <1>3, <1>4

\* A visit keeps the types.
LEMMA VisitTyping ==
  ASSUME Typing, NEW n \in AllNodes, NEW l \in Seq(Entries), NEW z \in Nat, mode # "post",
         Visit(n, l, z), UNCHANGED <<store, setup, frames, iter, child, trees>>
  PROVE  Typing'
<1>1. /\ list' \in Seq(Entries) /\ size' = z + Len(Pushed(n)) /\ reading' = n
      /\ out' = (IF n = base THEN out ELSE Append(out, n))
      /\ pc' = IF ~InTree(n) /\ mode = "stack" THEN "next" ELSE "loop"
  BY VisitFacts
<1>2. Pushed(n) \in Seq(Entries)
  BY PushedFacts
<1>3. size' \in Nat
  BY <1>1, <1>2
<1>4. out' \in Seq(AllNodes)
  BY <1>1 DEF Typing
<1> QED
  BY <1>1, <1>3, <1>4 DEF Typing, store, setup

\* Every step keeps the types.
LEMMA StepTyping ==
  ASSUME Typing, ShapeInv, [Next]_vars
  PROVE  Typing'
<1>1. CASE Register
  BY <1>1 DEF Typing, Register, setup
<1>2. CASE Store
  BY <1>2 DEF Typing, Store, setup
<1>3. CASE Start
  <2>1. Reachable(base) \subseteq Universe
    BY DEF Reachable
  <2>2. Item(base) \in Entries /\ base \in AllNodes
    BY DEF Item, Entries, Typing
  <2>3. list' \in Seq(Entries) /\ size' \in Nat /\ frames' \in Seq(AllNodes) /\ out' \in Seq(AllNodes)
    <3>1. <<Item(base)>> \in Seq(Entries) /\ <<base>> \in Seq(AllNodes) /\ <<>> \in Seq(AllNodes)
      BY <2>2
    <3>2. list \in Seq(Entries) /\ size \in Nat /\ frames \in Seq(AllNodes) /\ out \in Seq(AllNodes)
      BY DEF Typing
    <3>3. CASE mode = "post"
      BY <1>3, <3>1, <3>2, <3>3 DEF Start
    <3>4. CASE mode # "post"
      <4>1. list' = <<Item(base)>> /\ size' = 1 /\ frames' = frames
        BY <1>3, <3>4 DEF Start
      <4>2. out' = <<>> \/ out' = <<base>>
        BY <1>3, <3>4 DEF Start
      <4> QED
        BY <3>1, <3>2, <4>1, <4>2
    <3> QED
      BY <3>3, <3>4
  <2> QED
    BY <1>3, <2>1, <2>2, <2>3 DEF Typing, Start, store
<1>4. CASE PopItem
  <2>1. /\ mode # "post" /\ list # <<>> /\ size > 0
        /\ Entry.node \in AllNodes /\ Visit(Entry.node, Rest, size - 1)
    BY <1>4, PopItemVisits
  <2>2. Rest \in Seq(Entries) /\ size - 1 \in Nat
    BY <2>1, RestFacts DEF Typing
  <2> QED
    BY <1>4, <2>1, <2>2, VisitTyping DEF PopItem
<1>5. CASE PopIterator
  <2>1. Entry \in Entries
    BY <1>5, RestFacts DEF PopIterator, Popping, ShapeInv
  <2>2. Entry.node \in AllNodes
    BY <2>1 DEF Entries
  <2> QED
    BY <1>5, <2>2 DEF Typing, PopIterator, store, setup
<1>6. CASE EndPre
  BY <1>6 DEF Typing, EndPre, store, setup
<1>7. CASE Open
  <2>1. [open |-> TRUE, must |-> ChildrenOf(reading), given |-> {}] \in Iterators
    BY ChildrenFacts DEF Iterators, Typing
  <2>2. iter' \in [AllNodes -> Iterators]
    BY <1>7, <2>1 DEF Open, Typing
  <2> QED
    BY <1>7, <2>2 DEF Typing, Open, store, setup
<1>8. CASE NextChild
  <2>1. PICK c \in ChildrenOf(reading) \ iter[reading].given :
          /\ iter' = [iter EXCEPT ![reading].given = @ \cup {c}]
          /\ child' = c
          /\ pc' = IF InTree(reading) THEN "deliver" ELSE "fetch"
    BY <1>8 DEF NextChild
  <2>2. c \in Universe
    BY <2>1, ChildrenFacts DEF Typing
  <2>3. iter' \in [AllNodes -> Iterators]
    BY <2>1, <2>2 DEF Typing, Iterators
  <2> QED
    BY <1>8, <2>1, <2>2, <2>3 DEF Typing, NextChild, store, setup, AllNodes
<1>9. CASE Fetch
  <2>1. trees' \in [TreeNodes -> SUBSET Universe]
    BY <1>9 DEF Fetch, Typing
  <2> QED
    BY <1>9, <2>1 DEF Typing, Fetch, store, setup
<1>10. CASE Deliver
  <2>1. CASE mode = "queue"
    BY <1>10, <2>1, DeliverVisits, VisitTyping DEF Deliver, Typing
  <2>2. CASE mode = "stack"
    <3>1. Item(child) \in Entries
      BY DEF Item, Entries, Typing
    <3>2. list' = Append(list, Item(child)) /\ size' = size + 1 /\ pc' = "next"
          /\ UNCHANGED <<frames, reading, out>>
      BY <1>10, <2>2 DEF Deliver
    <3>3. list' \in Seq(Entries) /\ size' \in Nat
      BY <3>1, <3>2 DEF Typing
    <3> QED
      BY <1>10, <2>2, <3>2, <3>3 DEF Typing, Deliver, store, setup
  <2>3. CASE mode = "post"
    <3>1. frames' = Append(frames, child) /\ reading' = child /\ pc' = "next"
          /\ UNCHANGED <<list, size, out>>
      BY <1>10, <2>3 DEF Deliver
    <3>2. frames' \in Seq(AllNodes)
      BY <3>1 DEF Typing
    <3> QED
      BY <1>10, <3>1, <3>2 DEF Typing, Deliver, store, setup
  <2> QED
    BY <2>1, <2>2, <2>3 DEF Typing
<1>11. CASE Exhaust
  <2>1. list # <<>>
    BY <1>11 DEF Exhaust, Done, ShapeInv, Reading
  <2>2. list' \in Seq(Entries)
    BY <1>11, <2>1 DEF Exhaust, Typing
  <2> QED
    BY <1>11, <2>2 DEF Typing, Exhaust, store, setup
<1>12. CASE Drained
  BY <1>12 DEF Typing, Drained, store, setup
<1>13. CASE Ascend
  <2>1. frames # <<>> /\ frames \in Seq(AllNodes) /\ Len(frames) \in Nat /\ Len(frames) > 0
    BY <1>13 DEF Ascend, Done, ShapeInv, Reading, Typing
  <2>2. frames' \in Seq(AllNodes) /\ frames' = Front(frames) /\ Len(Front(frames)) = Len(frames) - 1
    BY <1>13, <2>1, FrontFacts DEF Ascend
  <2>3. Len(frames) # 1 => Last(Front(frames)) \in AllNodes
    BY <2>1, <2>2 DEF Last
  <2>6. base \in AllNodes /\ reading \in AllNodes /\ out \in Seq(AllNodes)
    BY DEF Typing
  <2>7. Append(out, base) \in Seq(AllNodes) /\ Append(out, reading) \in Seq(AllNodes)
    BY <2>6
  <2>4. out' \in Seq(AllNodes) /\ reading' \in AllNodes
    BY <1>13, <2>3, <2>6, <2>7 DEF Ascend
  <2>5. pc' \in {"end", pc}
    BY <1>13 DEF Ascend
  <2> QED
    BY <1>13, <2>2, <2>4, <2>5 DEF Typing, Ascend, store, setup
<1>14. CASE Throw
  BY <1>14 DEF Typing, Throw, store, setup
<1>15. CASE Ended \/ UNCHANGED vars
  BY <1>15 DEF Typing, Ended, vars, store, setup
<1> QED
  BY <1>1, <1>2, <1>3, <1>4, <1>5, <1>6, <1>7, <1>8, <1>9, <1>10, <1>11, <1>12, <1>13, <1>14,
     <1>15 DEF Next, Step

\* The list and the output after a visit.
LEMMA VisitEffect ==
  ASSUME Typing, ShapeInv, mode # "post", NEW n \in AllNodes, NEW l, NEW z \in Int,
         Taken(n, l), Visit(n, l, z)
  PROVE  /\ Items' = ItemsOf(l) \cup (IF InTree(n) THEN ChildrenOf(n) ELSE {})
         /\ \A m : (\E i \in 1 .. Len(list') : list'[i] = Iterator(m))
                   <=> \/ \E i \in 1 .. Len(list) : list[i] = Iterator(m)
                       \/ m = n /\ ~InTree(n) /\ mode = "queue"
         /\ ToSet(out') = ToSet(out) \cup (IF n = base THEN {} ELSE {n})
         /\ \A i \in 1 .. Len(list') :
              \/ \E j \in 1 .. Len(list) : list'[i] = list[j]
              \/ InTree(n) /\ \E c \in ChildrenOf(n) : list'[i] = Item(c)
              \/ ~InTree(n) /\ mode = "queue" /\ list'[i] = Iterator(n)
<1>1. /\ l \in Seq(Entries)
      /\ \A m : (\E i \in 1 .. Len(l) : l[i] = Iterator(m)) <=> \E i \in 1 .. Len(list) : list[i] = Iterator(m)
      /\ \A i \in 1 .. Len(l) : \E j \in 1 .. Len(list) : l[i] = list[j]
  BY TakenEntries
<1>2. /\ list' = l \o Pushed(n) /\ list' \in Seq(Entries)
      /\ out' = IF n = base THEN out ELSE Append(out, n)
  BY <1>1, VisitFacts
<1>3. Pushed(n) \in Seq(Entries)
  BY PushedFacts
<1>4. /\ Len(list') = Len(l) + Len(Pushed(n)) /\ Len(l) \in Nat /\ Len(Pushed(n)) \in Nat
      /\ \A i \in 1 .. Len(l) : i \in 1 .. Len(list') /\ list'[i] = l[i]
      /\ \A i \in 1 .. Len(Pushed(n)) : Len(l) + i \in 1 .. Len(list') /\ list'[Len(l) + i] = Pushed(n)[i]
      /\ \A i \in 1 .. Len(list') :
           i \in 1 .. Len(l) \/ (i - Len(l) \in 1 .. Len(Pushed(n)) /\ list'[i] = Pushed(n)[i - Len(l)])
  BY <1>1, <1>2, <1>3, ConcatFacts
<1>5. \A e : (\E i \in 1 .. Len(list') : list'[i] = e)
             <=> (\E i \in 1 .. Len(l) : l[i] = e) \/ \E i \in 1 .. Len(Pushed(n)) : Pushed(n)[i] = e
  BY <1>4
<1>6. \A x : \A m : Item(x) # Iterator(m)
  BY DEF Item, Iterator
<1>7. \A x, y : Item(x) = Item(y) => x = y
  BY DEF Item
<1>8. \A x, y : Iterator(x) = Iterator(y) => x = y
  BY DEF Iterator
<1>9. /\ \A x : x \in Items' <=> \E i \in 1 .. Len(list') : list'[i] = Item(x)
      /\ \A x : x \in ItemsOf(l) <=> \E i \in 1 .. Len(l) : l[i] = Item(x)
  BY <1>1, <1>2, ItemsMember DEF Items
<1>10. ToSet(out') = ToSet(out) \cup (IF n = base THEN {} ELSE {n})
  <2>1. n # base => ToSet(Append(out, n)) = ToSet(out) \cup {n}
    BY ToSetAppend DEF Typing
  <2> QED
    BY <1>2, <2>1
<1>11. CASE InTree(n)
  <2>1. \A x : (\E i \in 1 .. Len(Pushed(n)) : Pushed(n)[i] = Item(x)) <=> x \in ChildrenOf(n)
    BY <1>7, <1>11, PushedFacts
  <2>2. \A m : ~\E i \in 1 .. Len(Pushed(n)) : Pushed(n)[i] = Iterator(m)
    BY <1>6, <1>11, PushedFacts
  <2>3. Items' = ItemsOf(l) \cup ChildrenOf(n)
    BY <1>5, <1>9, <2>1
  <2>4. \A i \in 1 .. Len(list') :
          (\E j \in 1 .. Len(list) : list'[i] = list[j]) \/ \E c \in ChildrenOf(n) : list'[i] = Item(c)
    <3>1. \A i \in 1 .. Len(Pushed(n)) : \E c \in ChildrenOf(n) : Pushed(n)[i] = Item(c)
      BY <1>11, PushedFacts
    <3> TAKE i \in 1 .. Len(list')
    <3>2. CASE i \in 1 .. Len(l)
      <4>1. list'[i] = l[i]
        BY <1>4, <3>2
      <4> QED
        BY <1>1, <3>2, <4>1
    <3>3. CASE i - Len(l) \in 1 .. Len(Pushed(n)) /\ list'[i] = Pushed(n)[i - Len(l)]
      BY <3>1, <3>3
    <3> QED
      BY <1>4, <3>2, <3>3
  <2> QED
    BY <1>1, <1>5, <1>10, <1>11, <2>2, <2>3, <2>4
<1>12. CASE ~InTree(n)
  <2>1. \A i \in 1 .. Len(Pushed(n)) : mode = "queue" /\ Pushed(n)[i] = Iterator(n)
    BY <1>12, PushedFacts
  <2>2. mode = "queue" => \E i \in 1 .. Len(Pushed(n)) : Pushed(n)[i] = Iterator(n)
    <3>1. mode = "queue" => Len(Pushed(n)) = 1
      BY <1>12, PushedFacts
    <3> QED
      BY <2>1, <3>1
  <2>6. \A x : ~\E i \in 1 .. Len(Pushed(n)) : Pushed(n)[i] = Item(x)
    BY <1>6, <2>1
  <2>3. Items' = ItemsOf(l)
    BY <1>5, <1>9, <2>6
  <2>4. \A m : (\E i \in 1 .. Len(list') : list'[i] = Iterator(m))
               <=> (\E i \in 1 .. Len(list) : list[i] = Iterator(m)) \/ (m = n /\ mode = "queue")
    BY <1>1, <1>5, <1>8, <2>1, <2>2
  <2>5. \A i \in 1 .. Len(list') :
          (\E j \in 1 .. Len(list) : list'[i] = list[j]) \/ (mode = "queue" /\ list'[i] = Iterator(n))
    <3> TAKE i \in 1 .. Len(list')
    <3>2. CASE i \in 1 .. Len(l)
      <4>1. list'[i] = l[i]
        BY <1>4, <3>2
      <4> QED
        BY <1>1, <3>2, <4>1
    <3>3. CASE i - Len(l) \in 1 .. Len(Pushed(n)) /\ list'[i] = Pushed(n)[i - Len(l)]
      BY <2>1, <3>3
    <3> QED
      BY <1>4, <3>2, <3>3
  <2> QED
    BY <1>10, <1>12, <2>3, <2>4, <2>5
<1> QED
  BY <1>11, <1>12

\* The children known of a node do not become fewer by what others write.
LEMMA ChildrenGrow ==
  ASSUME Typing, NEW n \in AllNodes, registered \subseteq registered',
         UNCHANGED trees \/ ~InTree(n)
  PROVE  ChildrenOf(n) \subseteq ChildrenOf(n)'
  BY DEF ChildrenOf

\* A visit keeps the shape of the lists.
LEMMA VisitShape ==
  ASSUME Typing, ShapeInv, mode # "post", NEW n \in AllNodes, NEW l, NEW z \in Int,
         Taken(n, l), Visit(n, l, z), z >= Len(l),
         UNCHANGED <<store, setup, frames, iter, child, trees>>
  PROVE  ShapeInv'
<1>1. l \in Seq(Entries) /\ list \in Seq(Entries) /\ Len(l) \in Nat
  BY TakenEntries DEF Typing
<1>2. /\ list' \in Seq(Entries)
      /\ Len(list') = Len(l) + Len(Pushed(n)) /\ size' = z + Len(Pushed(n))
      /\ reading' = n /\ pc' = (IF ~InTree(n) /\ mode = "stack" THEN "next" ELSE "loop")
  BY <1>1, VisitFacts
<1>3. size' >= Len(list')
  <2>1. Len(Pushed(n)) \in Nat
    BY PushedFacts
  <2> QED
    BY <1>1, <1>2, <2>1
<1>4. \A i \in DOMAIN list' : list'[i].type = "iterator" => mode = "queue" /\ ~InTree(list'[i].node)
  <2> SUFFICES ASSUME NEW i \in 1 .. Len(list'), list'[i].type = "iterator"
               PROVE  mode = "queue" /\ ~InTree(list'[i].node)
    BY <1>2
  <2>1. CASE \E j \in 1 .. Len(list) : list'[i] = list[j]
    BY <1>1, <2>1 DEF ShapeInv
  <2>2. CASE \E c \in ChildrenOf(n) : list'[i] = Item(c)
    BY <2>2 DEF Item
  <2>3. CASE ~InTree(n) /\ mode = "queue" /\ list'[i] = Iterator(n)
    BY <2>3 DEF Iterator
  <2> QED
    BY <2>1, <2>2, <2>3, VisitEffect
<1>5. mode' = mode /\ frames' = frames /\ frames = <<>>
  BY DEF setup, ShapeInv
<1>6. (\A m : InTree(m)' <=> InTree(m))
  BY DEF InTree
<1> QED
  BY <1>2, <1>3, <1>4, <1>5 DEF ShapeInv, Reading, Busy, InTree

\* Every step keeps the shape of the lists.
LEMMA StepShape ==
  ASSUME Typing, ShapeInv, [Next]_vars
  PROVE  ShapeInv'
<1>1. CASE Register
  <2>1. ChildrenOf(reading) \subseteq ChildrenOf(reading)'
    BY <1>1, ChildrenGrow DEF Register, Typing
  <2>2. reading' = reading
    BY <1>1 DEF Register
  <2> QED
    BY <1>1, <2>1, <2>2 DEF ShapeInv, Register, setup, Reading, Busy, InTree, ChildrenOf, InSubtree
<1>2. CASE Store
  BY <1>2 DEF ShapeInv, Store, setup, Reading, Busy, InTree, ChildrenOf, InSubtree
<1>3. CASE Start
  <2>1. CASE mode = "post"
    <3>1. /\ frames' = <<base>> /\ reading' = base /\ pc' = "next"
          /\ UNCHANGED <<list, size, out, mode>> /\ list = <<>>
      BY <1>3, <2>1 DEF ShapeInv, Start
    <3>2. frames' # <<>> /\ frames'[Len(frames')] = base
      BY <3>1
    <3> QED
      BY <2>1, <3>1, <3>2 DEF ShapeInv, Reading, Busy
  <2>2. CASE mode # "post"
    <3>1. list' = <<Item(base)>> /\ size' = 1 /\ frames' = <<>> /\ pc' = "loop" /\ mode' = mode
      BY <1>3, <2>2 DEF ShapeInv, Start
    <3>2. Len(list') = 1 /\ DOMAIN list' = 1 .. 1 /\ list'[1] = Item(base)
      BY <3>1
    <3>3. \A i \in DOMAIN list' : list'[i].type = "item"
      BY <3>2 DEF Item
    <3> QED
      BY <2>2, <3>1, <3>2, <3>3 DEF ShapeInv, Reading, Busy
  <2> QED
    BY <2>1, <2>2
<1>4. CASE PopItem
  <2>1. /\ mode # "post" /\ list # <<>> /\ Entry.node \in AllNodes
        /\ Taken(Entry.node, Rest) /\ Visit(Entry.node, Rest, size - 1)
    BY <1>4, PopItemVisits
  <2>2. Len(Rest) = Len(list) - 1 /\ Len(list) \in Nat
    BY <2>1, RestFacts
  <2>3. size - 1 \in Int /\ size - 1 >= Len(Rest)
    BY <2>2 DEF ShapeInv, Typing
  <2> QED
    BY <1>4, <2>1, <2>3, VisitShape DEF PopItem
<1>5. CASE PopIterator
  <2>1. mode # "post" /\ list # <<>> /\ Entry.type = "iterator" /\ list \in Seq(Entries)
    BY <1>5 DEF PopIterator, Popping, ShapeInv, Typing
  <2>2. Entry \in Entries /\ 1 \in DOMAIN list /\ Len(list) \in DOMAIN list
        /\ (mode = "queue" => Entry = list[1]) /\ (mode = "stack" => Entry = list[Len(list)])
    BY <2>1, RestFacts
  <2>3. mode \in {"queue", "stack"}
    BY <2>1 DEF Typing
  <2>4. mode = "queue" /\ Entry = list[1] /\ ~InTree(Entry.node)
    BY <2>1, <2>2, <2>3 DEF ShapeInv
  <2>5. list[1] = Iterator(Entry.node)
    BY <2>1, <2>2, <2>4 DEF Entries, Iterator
  <2> QED
    BY <1>5, <2>1, <2>4, <2>5 DEF ShapeInv, PopIterator, setup, Reading, Busy, InTree, Iterator
<1>6. CASE EndPre
  <2>1. list = <<>>
    BY <1>6 DEF EndPre, ShapeInv, Typing
  <2> QED
    BY <1>6, <2>1 DEF ShapeInv, EndPre, Popping, setup, Reading, Busy, InTree
<1>7. CASE Open
  BY <1>7 DEF ShapeInv, Open, setup, Reading, Busy, InTree, Iterator
<1>8. CASE NextChild
  <2>1. PICK c \in ChildrenOf(reading) \ iter[reading].given :
          /\ iter' = [iter EXCEPT ![reading].given = @ \cup {c}]
          /\ child' = c
          /\ pc' = IF InTree(reading) THEN "deliver" ELSE "fetch"
    BY <1>8 DEF NextChild
  <2>2. child' \in ChildrenOf(reading) /\ child' \in iter'[reading].given
    BY <2>1 DEF Typing, Iterators
  <2>3. reading' = reading /\ ChildrenOf(reading)' = ChildrenOf(reading)
    BY <1>8 DEF NextChild, store, ChildrenOf, InTree, InSubtree
  <2> QED
    BY <1>8, <2>1, <2>2, <2>3 DEF ShapeInv, NextChild, setup, Reading, Busy, InTree, Iterator
<1>9. CASE Fetch
  <2>1. ChildrenOf(reading) \subseteq ChildrenOf(reading)'
    <3>1. reading \in AllNodes /\ ~InTree(reading) /\ registered' = registered /\ reading' = reading
      BY <1>9 DEF Typing, ShapeInv, Fetch, store
    <3> QED
      BY <3>1, ChildrenGrow
  <2> QED
    BY <1>9, <2>1 DEF ShapeInv, Fetch, setup, Reading, Busy, InTree, Iterator, ChildrenOf
<1>10. CASE Deliver
  <2>1. CASE mode = "queue"
    <3>1. size \in Int /\ size >= Len(list)
      BY DEF Typing, ShapeInv
    <3> QED
      BY <1>10, <2>1, <3>1, DeliverVisits, VisitShape DEF Deliver
  <2>2. CASE mode = "stack"
    <3>1. Item(child) \in Entries /\ Item(child).type = "item"
      BY DEF Item, Entries, Typing
    <3>2. list' = Append(list, Item(child)) /\ size' = size + 1 /\ pc' = "next"
          /\ UNCHANGED <<frames, reading, out>>
      BY <1>10, <2>2 DEF Deliver
    <3>3. list \in Seq(Entries) /\ Len(list') = Len(list) + 1 /\ DOMAIN list' = 1 .. Len(list) + 1
          /\ \A i \in DOMAIN list' : (i \in DOMAIN list /\ list'[i] = list[i]) \/ list'[i] = Item(child)
      BY <3>1, <3>2 DEF Typing
    <3>6. \A i \in DOMAIN list : list[i] \in Entries
      BY <3>3
    <3>7. \A i \in DOMAIN list : list[i].type \in {"item", "iterator"} /\ list[i].type # "iterator"
      BY <2>2, <3>6 DEF ShapeInv, Entries
    <3>4. \A i \in DOMAIN list' : list'[i].type = "item"
      BY <3>1, <3>3, <3>7
    <3>5. size' >= Len(list')
      BY <3>2, <3>3 DEF ShapeInv, Typing
    <3> QED
      BY <1>10, <2>2, <3>2, <3>4, <3>5 DEF ShapeInv, Deliver, setup, Reading, Busy, InTree
  <2>3. CASE mode = "post"
    <3>1. frames' = Append(frames, child) /\ reading' = child /\ pc' = "next"
          /\ UNCHANGED <<list, size, out>>
      BY <1>10, <2>3 DEF Deliver
    <3>3. frames \in Seq(AllNodes) /\ child \in AllNodes /\ Len(frames) \in Nat
      BY DEF Typing
    <3>2. frames' # <<>> /\ frames'[Len(frames')] = child
      BY <3>1, <3>3
    <3> QED
      BY <1>10, <2>3, <3>1, <3>2 DEF ShapeInv, Deliver, setup, Reading, Busy, InTree
  <2> QED
    BY <2>1, <2>2, <2>3 DEF Typing
<1>11. CASE Exhaust
  <2>1. list # <<>> /\ list \in Seq(Entries) /\ frames = <<>> /\ mode = "queue"
    BY <1>11 DEF Exhaust, Done, ShapeInv, Reading, Typing
  <2>2. list' = Tail(list) /\ pc' = "pop" /\ UNCHANGED <<setup, size, frames>>
    BY <1>11 DEF Exhaust
  <2>3. /\ Len(list') = Len(list) - 1 /\ Len(list) \in Nat
        /\ \A i \in DOMAIN list' : i + 1 \in DOMAIN list /\ list'[i] = list[i + 1]
    BY <2>1, <2>2
  <2> QED
    BY <2>1, <2>2, <2>3 DEF ShapeInv, Typing, setup, Reading, Busy, InTree
<1>12. CASE Drained
  BY <1>12 DEF ShapeInv, Drained, Done, setup, Reading, Busy, InTree
<1>13. CASE Ascend
  <2>1. frames # <<>> /\ frames \in Seq(AllNodes) /\ pc = "next" /\ list = <<>> /\ mode = "post"
    BY <1>13 DEF Ascend, Done, ShapeInv, Reading, Typing
  <2>2. /\ frames' = Front(frames) /\ Len(frames') = Len(frames) - 1 /\ Len(frames) \in 1 .. Len(frames)
        /\ frames' \in Seq(AllNodes)
    BY <1>13, <2>1, FrontFacts DEF Ascend
  <2>3. CASE Len(frames) = 1
    <3>1. frames' = <<>> /\ pc' = "end"
      BY <1>13, <2>2, <2>3 DEF Ascend
    <3> QED
      BY <1>13, <2>1, <3>1 DEF ShapeInv, Ascend, setup, Reading, Busy, InTree
  <2>4. CASE Len(frames) # 1
    <3>1. pc' = pc /\ reading' = frames'[Len(frames')] /\ frames' # <<>>
      BY <1>13, <2>2, <2>4 DEF Ascend, Last
    <3> QED
      BY <1>13, <2>1, <3>1 DEF ShapeInv, Ascend, setup, Reading, Busy, InTree
  <2> QED
    BY <2>3, <2>4
<1>14. CASE Throw
  BY <1>14 DEF ShapeInv, Throw, setup, Reading, Busy, InTree
<1>15. CASE Ended \/ UNCHANGED vars
  BY <1>15 DEF ShapeInv, Ended, vars, store, setup, Reading, Busy, InTree, ChildrenOf, InSubtree
<1> QED
  BY <1>1, <1>2, <1>3, <1>4, <1>5, <1>6, <1>7, <1>8, <1>9, <1>10, <1>11, <1>12, <1>13, <1>14,
     <1>15 DEF Next, Step

-----------------------------------------------------------------------------
(* A node is found once *)

\* All that was found is below the base, and below a node that was not entered
\* nothing was found.
LEMMA FoundFacts ==
  ASSUME Typing, FoundInv
  PROVE  /\ Found \subseteq AllNodes /\ Entered \subseteq AllNodes
         /\ Entered \subseteq Found \cup {base}
         /\ mode # "post" => Entered \subseteq ToSet(out) \cup {base} /\ Entered \cap Items = {}
         /\ \A n \in Found \cup Entered \cup {base} : InSubtree(base, n)
         /\ \A n \in AllNodes : InSubtree(base, n) /\ n \notin Entered =>
              \A f \in Found : InSubtree(n, f) => f = n
<1>1. base \in AllNodes /\ child \in AllNodes /\ list \in Seq(Entries)
  BY DEF Typing
<1>2. ToSet(out) \subseteq AllNodes /\ ToSet(frames) \subseteq AllNodes
  BY ToSetMember DEF Typing
<1>3. Items \subseteq AllNodes
  <2>1. \A i \in 1 .. Len(list) : \A x : list[i] = Item(x) => x \in AllNodes
    BY <1>1 DEF Entries, Item
  <2> QED
    BY <1>1, <2>1, ItemsMember DEF Items
<1>4. Found \subseteq AllNodes /\ Entered \subseteq Found \cup {base}
  BY <1>1, <1>2, <1>3 DEF Found, Entered
<1>5. mode # "post" => Entered \subseteq ToSet(out) \cup {base} /\ Entered \cap Items = {}
  BY DEF Entered
<1>6. InSubtree(base, base)
  BY <1>1, SubtreeOrder
<1>7. \A n \in Found \cup Entered \cup {base} : InSubtree(base, n)
  BY <1>4, <1>6 DEF FoundInv
<1>8. ASSUME NEW n \in AllNodes, InSubtree(base, n), n \notin Entered,
             NEW f \in Found, InSubtree(n, f)
      PROVE  f = n
  <2>1. CASE f = base
    <3>1. Len(n) <= Len(base)
      BY <1>1, <1>8, <2>1, SubtreeOrder
    <3> QED
      BY <1>1, <1>8, <2>1, <3>1, SubtreeOrder
  <2>2. CASE f # base
    BY <1>8, <2>2 DEF FoundInv
  <2> QED
    BY <2>1, <2>2
<1> QED
  BY <1>1, <1>4, <1>5, <1>7, <1>8

\* A node that is taken from the list has not been entered, and nothing below it
\* has been found.
LEMMA TakenFresh ==
  ASSUME Typing, ShapeInv, FoundInv, OnceInv, mode # "post",
         NEW n \in AllNodes, NEW l, Taken(n, l)
  PROVE  /\ InSubtree(base, n) /\ n \in Found /\ n \notin Entered
         /\ n \in ToSet(out) => n = base
         /\ n \notin ItemsOf(l)
         /\ \A i, j \in 1 .. Len(l) : \A x : l[i] = Item(x) /\ l[j] = Item(x) => i = j
         /\ \A c \in ChildrenOf(n) : c \notin Found /\ c # base
<1>1. list \in Seq(Entries) /\ Len(list) \in Nat /\ mode \in {"queue", "stack"}
  BY DEF Typing
<1>2. l \in Seq(Entries) /\ Items \cup {c \in {child} : Busy} = ItemsOf(l) \cup {n}
  BY TakenEntries
<1>3. n \in Found
  BY <1>2 DEF Found
<1>4. InSubtree(base, n)
  BY <1>3, FoundFacts
<1>5. \A i, j \in 1 .. Len(list) : \A x : list[i] = Item(x) /\ list[j] = Item(x) => i = j
  <2>1. \A x : Item(x).type = "item" /\ Item(x).node = x
    BY DEF Item
  <2> QED
    BY <1>1, <2>1 DEF OnceInv
<1>6. \A i, j \in 1 .. Len(l) : \A x : l[i] = Item(x) /\ l[j] = Item(x) => i = j
  <2>1. CASE \A i \in 1 .. Len(l) : i \in 1 .. Len(list) /\ l[i] = list[i]
    BY <1>5, <2>1
  <2>2. CASE \A i \in 1 .. Len(l) : i + 1 \in 1 .. Len(list) /\ l[i] = list[i + 1]
    <3> TAKE i, j \in 1 .. Len(l)
    <3> TAKE x
    <3> HAVE l[i] = Item(x) /\ l[j] = Item(x)
    <3>1. i + 1 = j + 1
      BY <1>5, <2>2
    <3> QED
      BY <3>1
  <2> QED
    BY <2>1, <2>2, TakenEntries
<1>7. n \notin ItemsOf(l) /\ n \notin Entered /\ (n \in ToSet(out) => n = base)
  <2>1. CASE Popping /\ list # <<>> /\ Entry = Item(n) /\ l = Rest
    <3>1. /\ Len(l) = Len(list) - 1
          /\ mode = "queue" => Item(n) = list[1] /\ \A i \in 1 .. Len(l) : l[i] = list[i + 1]
          /\ mode = "stack" => Item(n) = list[Len(list)] /\ \A i \in 1 .. Len(l) : l[i] = list[i]
      BY <2>1, RestFacts
    <3>2. ASSUME NEW i \in 1 .. Len(l), l[i] = Item(n) PROVE FALSE
      <4>1. CASE mode = "queue"
        <5>1. i + 1 \in 1 .. Len(list) /\ 1 \in 1 .. Len(list) /\ list[i + 1] = Item(n) /\ list[1] = Item(n)
          BY <1>1, <3>1, <3>2, <4>1
        <5> QED
          BY <1>5, <5>1
      <4>2. CASE mode = "stack"
        <5>1. /\ i \in 1 .. Len(list) /\ Len(list) \in 1 .. Len(list) /\ i # Len(list)
              /\ list[i] = Item(n) /\ list[Len(list)] = Item(n)
          BY <1>1, <3>1, <3>2, <4>2
        <5> QED
          BY <1>5, <5>1
      <4> QED
        BY <1>1, <4>1, <4>2
    <3>3. n \notin ItemsOf(l)
      BY <1>2, <3>2, ItemsMember
    <3>4. ~Busy
      BY <2>1 DEF Popping, Busy
    <3>5. n \in Items
      BY <1>2, <3>4
    <3> QED
      BY <3>3, <3>5, FoundFacts DEF OnceInv
  <2>2. CASE pc = "deliver" /\ mode = "queue" /\ n = child /\ l = list
    <3>1. /\ child \notin Items \cup ToSet(frames) \cup {base}
          /\ \A i \in DOMAIN out : ~InSubtree(child, out[i])
      BY <2>2 DEF OnceInv, Busy
    <3>2. n \notin ToSet(out)
      BY <2>2, <3>1, SubtreeOrder DEF ToSet
    <3> QED
      BY <2>2, <3>1, <3>2, FoundFacts DEF Items
  <2> QED
    BY <2>1, <2>2 DEF Taken
<1>8. ASSUME NEW c \in ChildrenOf(n) PROVE c \notin Found /\ c # base
  <2>1. c \in AllNodes /\ Len(c) = Len(n) + 1 /\ InSubtree(n, c) /\ Len(n) \in Nat
    BY ChildrenFacts, NodeFacts DEF AllNodes
  <2>2. c # base
    <3>1. Len(base) <= Len(n) /\ Len(base) \in Nat
      BY <1>4, SubtreeOrder, NodeFacts DEF Typing
    <3> QED
      BY <2>1, <3>1
  <2>3. c \notin Found
    BY <1>4, <1>7, <2>1, FoundFacts
  <2> QED
    BY <2>2, <2>3
<1> QED
  BY <1>3, <1>4, <1>6, <1>7, <1>8

\* What a visit of n finds and enters.
LEMMA VisitSets ==
  ASSUME Typing, ShapeInv, FoundInv, OnceInv, mode # "post",
         NEW n \in AllNodes, NEW l, NEW z \in Int, Taken(n, l), Visit(n, l, z),
         UNCHANGED <<store, setup, frames, iter, child, trees>>
  PROVE  /\ Found \subseteq Found' \cup {base}
         /\ Found' \subseteq Found \cup (IF InTree(n) THEN ChildrenOf(n) ELSE {})
         /\ Entered' = Entered \cup {n}
<1> DEFINE C == IF InTree(n) THEN ChildrenOf(n) ELSE {}
<1>1. /\ Items' = ItemsOf(l) \cup C
      /\ ToSet(out') = ToSet(out) \cup (IF n = base THEN {} ELSE {n})
  BY VisitEffect
<1>2. l \in Seq(Entries) /\ Items \cup {c \in {child} : Busy} = ItemsOf(l) \cup {n}
  BY TakenEntries
<1>3. /\ n \in Found /\ n \notin Entered /\ (n \in ToSet(out) => n = base)
      /\ n \notin ItemsOf(l) /\ \A c \in C : c \notin Found /\ c # base
  BY TakenFresh
<1> HIDE DEF C
<1>4. mode' = mode /\ base' = base /\ frames' = frames /\ frames = <<>> /\ child' = child
  BY DEF setup, ShapeInv
<1>5. ~Busy' /\ pc' # "end"
  BY DEF Visit, Busy
<1>6. ToSet(frames) = {} /\ ToSet(frames') = {}
  BY <1>4 DEF ToSet
<1>7. Found = ToSet(out) \cup ItemsOf(l) \cup {n}
  BY <1>2, <1>6 DEF Found
<1>8. Found' = ToSet(out') \cup Items'
  BY <1>5, <1>6 DEF Found
<1>9. Found \subseteq Found' \cup {base} /\ Found' \subseteq Found \cup C
  BY <1>1, <1>7, <1>8
<1>10. ItemsOf(l) \cap Entered = {}
  <2>1. ItemsOf(l) \subseteq Items \cup {n}
    <3>1. CASE pc = "deliver" /\ n = child
      BY <1>2, <3>1
    <3>2. CASE ~Busy
      BY <1>2, <3>2
    <3> QED
      BY <3>1, <3>2 DEF Taken, Popping, Busy
  <2> QED
    BY <1>3, <2>1, FoundFacts
<1>11. Entered' = (ToSet(out') \cup {base}) \ Items'
  BY <1>4 DEF Entered
<1>12. Entered = (ToSet(out) \cup {base}) \ Items
  BY DEF Entered
<1>13. Entered \subseteq Entered'
  BY <1>1, <1>3, <1>7, <1>10, <1>11, <1>12
<1>14. n \in Entered'
  BY <1>1, <1>3, <1>11
<1>15. Entered' \subseteq Entered \cup {n}
  <2>1. Items \subseteq ItemsOf(l) \cup {n}
    BY <1>2
  <2> QED
    BY <1>1, <1>11, <1>12, <2>1
<1> QED
  BY <1>9, <1>13, <1>14, <1>15 DEF C

\* A visit finds the children of a node that was not entered before.
LEMMA VisitFound ==
  ASSUME Typing, ShapeInv, FoundInv, OnceInv, mode # "post",
         NEW n \in AllNodes, NEW l, NEW z \in Int, Taken(n, l), Visit(n, l, z),
         UNCHANGED <<store, setup, frames, iter, child, trees>>
  PROVE  FoundInv'
<1>1. /\ Found' \subseteq Found \cup (IF InTree(n) THEN ChildrenOf(n) ELSE {})
      /\ Entered' = Entered \cup {n}
  BY VisitSets
<1>2. InSubtree(base, n) /\ n \in Found /\ base \in AllNodes
  BY TakenFresh DEF Typing
<1>3. mode' = mode /\ base' = base /\ iter' = iter
  BY DEF setup
<1>4. reading' = n
  BY DEF Visit
<1>5. ASSUME NEW x \in Found', x # base
      PROVE  /\ InSubtree(base, x)
             /\ ~InTree(Front(x)) => x \in iter[Front(x)].given
             /\ \A m \in AllNodes : InSubtree(base, m) /\ InSubtree(m, x) /\ m # x => m \in Entered'
  <2>1. CASE x \in Found
    BY <1>1, <1>5, <2>1 DEF FoundInv
  <2>2. CASE InTree(n) /\ x \in ChildrenOf(n)
    <3>1. x \in AllNodes /\ Len(x) = Len(n) + 1 /\ InSubtree(n, x) /\ Front(x) = n
      BY <2>2, ChildrenFacts DEF AllNodes
    <3>2. InSubtree(base, x)
      BY <1>2, <3>1, SubtreeOrder
    <3>3. ASSUME NEW m \in AllNodes, InSubtree(base, m), InSubtree(m, x), m # x PROVE m \in Entered'
      <4>1. InSubtree(m, n)
        BY <3>1, <3>3, ChildFacts
      <4>2. CASE m = n
        BY <1>1, <4>2
      <4>3. CASE m # n /\ n # base
        BY <1>1, <1>2, <3>3, <4>1, <4>3 DEF FoundInv
      <4>4. CASE m # n /\ n = base
        <5>1. Len(m) <= Len(base)
          BY <4>1, <4>4, SubtreeOrder
        <5>2. m = base
          BY <1>2, <3>3, <5>1, SubtreeOrder
        <5> QED
          BY <4>4, <5>2
      <4> QED
        BY <4>2, <4>3, <4>4
    <3> QED
      BY <2>2, <3>1, <3>2, <3>3
  <2> QED
    BY <1>1, <1>5, <2>1, <2>2
<1>6. \A i \in DOMAIN list' : list'[i].type = "iterator" => list'[i].node \in Entered'
  <2>1. list \in Seq(Entries) /\ list' \in Seq(Entries)
    BY TakenEntries, VisitFacts DEF Typing
  <2> SUFFICES ASSUME NEW i \in 1 .. Len(list'), list'[i].type = "iterator"
               PROVE  list'[i].node \in Entered'
    BY <2>1
  <2>2. CASE \E j \in 1 .. Len(list) : list'[i] = list[j]
    BY <1>1, <2>1, <2>2 DEF FoundInv
  <2>3. CASE \E c \in ChildrenOf(n) : list'[i] = Item(c)
    BY <2>3 DEF Item
  <2>4. CASE list'[i] = Iterator(n)
    BY <1>1, <2>4 DEF Iterator
  <2> QED
    BY <2>2, <2>3, <2>4, VisitEffect
<1>7. \A m \in AllNodes : IF iter'[m].open THEN m \in Entered' ELSE iter'[m].given = {}
  BY <1>1, <1>3 DEF FoundInv
<1>8. reading' \in Entered'
  BY <1>1, <1>4
<1>9. \A x : InTree(x)' <=> InTree(x)
  BY DEF InTree
<1> QED
  BY <1>3, <1>5, <1>6, <1>7, <1>8 DEF FoundInv, InTree, InSubtree

\* A visit moves its node from the list to the output, and pushes only new nodes.
LEMMA VisitOnce ==
  ASSUME Typing, ShapeInv, FoundInv, OnceInv, mode # "post",
         NEW n \in AllNodes, NEW l, NEW z \in Int, Taken(n, l), Visit(n, l, z),
         UNCHANGED <<store, setup, frames, iter, child, trees>>
  PROVE  OnceInv'
<1> DEFINE C == IF InTree(n) THEN ChildrenOf(n) ELSE {}
<1>1. /\ Items' = ItemsOf(l) \cup C
      /\ ToSet(out') = ToSet(out) \cup (IF n = base THEN {} ELSE {n})
  BY VisitEffect
<1>2. l \in Seq(Entries) /\ Items \cup {c \in {child} : Busy} = ItemsOf(l) \cup {n}
  BY TakenEntries
<1>3. /\ n \in Found /\ (n \in ToSet(out) => n = base)
      /\ n \notin ItemsOf(l) /\ \A c \in C : c \notin Found /\ c # base
      /\ \A i, j \in 1 .. Len(l) : \A x : l[i] = Item(x) /\ l[j] = Item(x) => i = j
  BY TakenFresh
<1> HIDE DEF C
<1>4. base' = base /\ frames' = <<>>
  BY DEF setup, ShapeInv
<1>5. ~Busy'
  BY DEF Visit, Busy
<1>7. Items' \cap ToSet(out') \subseteq {base}
  <2>1. ItemsOf(l) \cap ToSet(out) \subseteq {base}
    <3>1. ItemsOf(l) \subseteq Items
      <4>1. CASE l = list
        BY <4>1 DEF Items
      <4>2. CASE ~Busy
        BY <1>2, <4>2
      <4> QED
        BY <4>1, <4>2 DEF Taken, Popping, Busy
    <3> QED
      BY <3>1 DEF OnceInv
  <2>2. C \cap ToSet(out) = {} /\ n \notin C
    BY <1>3 DEF Found
  <2> QED
    BY <1>1, <1>3, <2>1, <2>2
<1>8. IsInjective(out')
  <2>1. IsInjective(out) /\ out \in Seq(AllNodes)
    BY DEF OnceInv, Typing
  <2>2. CASE n = base
    BY <2>1, <2>2 DEF Visit
  <2>3. CASE n # base
    <3>1. out' = Append(out, n)
      BY <2>3 DEF Visit
    <3> QED
      BY <1>3, <2>1, <2>3, <3>1, InjectiveAppend
  <2> QED
    BY <2>2, <2>3
<1>9. \A i, j \in DOMAIN list' :
        list'[i].type = "item" /\ list'[j].type = "item" /\ list'[i].node = list'[j].node => i = j
  <2>1. list' = l \o Pushed(n) /\ list' \in Seq(Entries)
    BY <1>2, VisitFacts
  <2>2. Pushed(n) \in Seq(Entries) /\ Len(Pushed(n)) \in Nat /\ Len(l) \in Nat
    BY <1>2, PushedFacts
  <2>3. /\ DOMAIN list' = 1 .. Len(list')
        /\ \A i \in 1 .. Len(l) : list'[i] = l[i]
        /\ \A i \in 1 .. Len(list') :
           i \in 1 .. Len(l) \/ (i - Len(l) \in 1 .. Len(Pushed(n)) /\ list'[i] = Pushed(n)[i - Len(l)])
    BY <1>2, <2>1, <2>2, ConcatFacts
  <2>4. \A e \in Entries : e = [type |-> e.type, node |-> e.node]
    BY DEF Entries
  <2>5. \A i \in 1 .. Len(list') : list'[i].type = "item" => list'[i] = Item(list'[i].node)
    BY <2>1, <2>4 DEF Item
  <2>6. \A x : Item(x).type = "item" /\ Item(x).node = x /\ Iterator(x).type = "iterator"
    BY DEF Item, Iterator
  <2>7. \A i \in 1 .. Len(Pushed(n)) : Pushed(n)[i].type = "item" => Pushed(n)[i].node \in C
    BY <2>6, PushedFacts DEF C
  <2>8. \A i \in 1 .. Len(l) : l[i].type = "item" => l[i].node \in ItemsOf(l) /\ l[i] = Item(l[i].node)
    BY <1>2, <2>4 DEF ItemsOf, Item
  <2>9. ItemsOf(l) \cap C = {}
    BY <1>2, <1>3 DEF Found
  <2>10. \A i, j \in 1 .. Len(Pushed(n)) : Pushed(n)[i].node = Pushed(n)[j].node => i = j
    BY PushedFacts
  <2> SUFFICES ASSUME NEW i \in 1 .. Len(list'), NEW j \in 1 .. Len(list'),
                      list'[i].type = "item", list'[j].type = "item", list'[i].node = list'[j].node
               PROVE  i = j
    BY <2>3
  <2>11. CASE i \in 1 .. Len(l) /\ j \in 1 .. Len(l)
    BY <1>3, <2>3, <2>8, <2>11
  <2>12. CASE i \in 1 .. Len(l) /\ j \notin 1 .. Len(l)
    <3>1. list'[i] = l[i] /\ list'[j] = Pushed(n)[j - Len(l)] /\ j - Len(l) \in 1 .. Len(Pushed(n))
      BY <2>3, <2>12
    <3> QED
      BY <2>7, <2>8, <2>9, <2>12, <3>1
  <2>13. CASE i \notin 1 .. Len(l) /\ j \in 1 .. Len(l)
    <3>1. list'[j] = l[j] /\ list'[i] = Pushed(n)[i - Len(l)] /\ i - Len(l) \in 1 .. Len(Pushed(n))
      BY <2>3, <2>13
    <3> QED
      BY <2>7, <2>8, <2>9, <2>13, <3>1
  <2>14. CASE i \notin 1 .. Len(l) /\ j \notin 1 .. Len(l)
    <3>1. /\ list'[i] = Pushed(n)[i - Len(l)] /\ i - Len(l) \in 1 .. Len(Pushed(n))
          /\ list'[j] = Pushed(n)[j - Len(l)] /\ j - Len(l) \in 1 .. Len(Pushed(n))
      BY <2>3, <2>14
    <3>2. i - Len(l) = j - Len(l)
      BY <2>10, <3>1
    <3> QED
      BY <2>2, <3>2
  <2> QED
    BY <2>11, <2>12, <2>13, <2>14
<1> QED
  BY <1>4, <1>5, <1>7, <1>8, <1>9 DEF OnceInv, ToSet

\* What leads to a node that was found has been entered.
LEMMA AncestorsEntered ==
  ASSUME Typing, FoundInv, NEW r \in Found \cup {base}, NEW m \in AllNodes,
         InSubtree(base, m), InSubtree(m, r)
  PROVE  m = r \/ m \in Entered
<1>1. CASE r # base
  BY <1>1 DEF FoundInv
<1>2. CASE r = base
  <2>1. base \in AllNodes
    BY DEF Typing
  <2>2. Len(m) <= Len(base)
    BY <1>2, <2>1, SubtreeOrder
  <2> QED
    BY <1>2, <2>1, <2>2, SubtreeOrder
<1> QED
  BY <1>1, <1>2

\* A child that an iterator gives was not found before.
LEMMA NextFresh ==
  ASSUME Typing, ShapeInv, FoundInv, pc = "next",
         NEW c \in ChildrenOf(reading), c \notin iter[reading].given
  PROVE  /\ c \in AllNodes /\ Len(c) = Len(reading) + 1 /\ InSubtree(reading, c) /\ Front(c) = reading
         /\ c # base /\ c \notin Found /\ InSubtree(base, c) /\ reading \in Found \cup {base}
         /\ \A f \in Found : ~InSubtree(c, f)
<1>1. reading \in AllNodes /\ base \in AllNodes /\ reading \in Entered
  BY DEF Typing, FoundInv, Reading
<1>2. c \in AllNodes /\ Len(c) = Len(reading) + 1 /\ InSubtree(reading, c) /\ Front(c) = reading
  BY <1>1, ChildrenFacts DEF AllNodes
<1>3. InSubtree(base, reading) /\ reading \in Found \cup {base}
  BY <1>1, FoundFacts
<1>4. InSubtree(base, c) /\ c # base
  <2>1. Len(base) <= Len(reading) /\ Len(base) \in Nat /\ Len(reading) \in Nat
    BY <1>1, <1>3, SubtreeOrder, NodeFacts
  <2> QED
    BY <1>1, <1>2, <1>3, <2>1, SubtreeOrder
<1>5. c \notin Found
  <2>1. mode = "post" \/ ~InTree(reading)
    BY DEF ShapeInv, Reading
  <2> QED
    BY <1>2, <1>4, <2>1 DEF FoundInv
<1>6. c \notin Entered
  BY <1>4, <1>5, FoundFacts
<1>7. \A f \in Found : ~InSubtree(c, f)
  BY <1>2, <1>4, <1>5, <1>6, FoundFacts
<1> QED
  BY <1>2, <1>3, <1>4, <1>5, <1>7

\* The nodes of a list that one more was pushed to.
LEMMA ItemsAppend ==
  ASSUME NEW l \in Seq(Entries), NEW x \in AllNodes
  PROVE  ItemsOf(Append(l, Item(x))) = ItemsOf(l) \cup {x}
<1>1. Item(x) \in Entries /\ \A y : Item(x) = Item(y) <=> x = y
  BY DEF Item, Entries
<1>2. Append(l, Item(x)) \in Seq(Entries)
  BY <1>1, AppendFacts
<1>3. \A y : (\E i \in 1 .. Len(l) + 1 : Append(l, Item(x))[i] = Item(y))
             <=> x = y \/ \E i \in 1 .. Len(l) : l[i] = Item(y)
  BY <1>1, AppendFacts
<1>4. Len(Append(l, Item(x))) = Len(l) + 1
  BY <1>1, AppendFacts
<1>5. \A y : y \in ItemsOf(Append(l, Item(x))) <=> x = y \/ y \in ItemsOf(l)
  BY <1>2, <1>3, <1>4, ItemsMember
<1> QED
  BY <1>5

\* The steps that neither find nor enter a node.
LEMMA QuietFound ==
  ASSUME Typing, FoundInv, UNCHANGED <<mode, base, out, frames>>, Items' = Items,
         \A i \in DOMAIN list' : \E j \in DOMAIN list : list'[i] = list[j],
         Busy' => Busy /\ child' = child,
         pc = "end" => pc' = "end",
         Reading' => reading' \in Entered,
         \A m \in AllNodes :
           /\ iter[m].given \subseteq iter'[m].given
           /\ IF iter'[m].open THEN m \in Entered ELSE iter'[m].given = {}
  PROVE  FoundInv'
<1>1. Found' \subseteq Found
  BY DEF Found
<1>2. Entered \subseteq Entered'
  BY DEF Entered
<1>3. Found \subseteq AllNodes
  BY FoundFacts
<1>4. ASSUME NEW n \in Found', n # base
      PROVE  /\ InSubtree(base, n)
             /\ mode = "post" \/ ~InTree(Front(n)) => n \in iter'[Front(n)].given
             /\ \A m \in AllNodes : InSubtree(base, m) /\ InSubtree(m, n) /\ m # n => m \in Entered'
  <2>1. n \in Found \ {base} /\ n \in AllNodes
    BY <1>1, <1>3, <1>4
  <2>2. InSubtree(base, n) /\ base \in AllNodes
    BY <2>1 DEF FoundInv, Typing
  <2>3. Len(n) > 0
    <3>1. Len(n) \in Nat /\ Len(base) \in Nat
      BY <2>1, <2>2, NodeFacts
    <3>2. ~(Len(n) <= Len(base))
      BY <2>1, <2>2, SubtreeOrder
    <3> QED
      BY <3>1, <3>2
  <2>4. Front(n) \in AllNodes
    BY <2>1, <2>3, ParentFacts
  <2> QED
    BY <1>2, <2>1, <2>4 DEF FoundInv
<1>5. \A i \in DOMAIN list' : list'[i].type = "iterator" => list'[i].node \in Entered'
  BY <1>2 DEF FoundInv
<1> QED
  BY <1>2, <1>4, <1>5 DEF FoundInv, InTree, InSubtree

\* A step that changes no list and gives no child keeps the places apart.
LEMMA QuietOnce ==
  ASSUME OnceInv, UNCHANGED <<base, out, frames, list>>, Busy' => Busy /\ child' = child
  PROVE  OnceInv'
  BY DEF OnceInv, Items, InSubtree

\* A recursive call returns.
LEMMA AscendFacts ==
  ASSUME Typing, ShapeInv, FrameInv, Ascend
  PROVE  /\ mode = "post" /\ pc = "next" /\ frames # <<>> /\ list = <<>> /\ Len(frames) \in 1 .. Len(frames)
         /\ reading = frames[Len(frames)] /\ reading \in ToSet(frames)
         /\ frames' \in Seq(AllNodes) /\ Len(frames') = Len(frames) - 1
         /\ \A i \in 1 .. Len(frames) - 1 : frames'[i] = frames[i]
         /\ ToSet(frames) = ToSet(frames') \cup {reading} /\ reading \notin ToSet(frames')
         /\ out' = IF reading = <<>> THEN out ELSE Append(out, reading)
         /\ IF Len(frames) = 1 THEN reading = base /\ pc' = "end" /\ frames' = <<>>
            ELSE pc' = "next" /\ reading # base /\ reading' \in ToSet(frames') /\ frames' # <<>>
                 /\ reading' = frames'[Len(frames')]
<1>1. /\ mode = "post" /\ pc = "next" /\ frames # <<>> /\ list = <<>> /\ frames \in Seq(AllNodes)
      /\ reading = frames[Len(frames)] /\ base \in AllNodes /\ reading \in AllNodes
  BY DEF Ascend, Done, ShapeInv, Reading, Typing
<1>2. /\ frames' \in Seq(AllNodes) /\ Len(frames') = Len(frames) - 1 /\ Len(frames) \in 1 .. Len(frames)
      /\ \A i \in 1 .. Len(frames) - 1 : frames'[i] = frames[i]
  BY <1>1, FrontFacts DEF Ascend
<1>3. \A i \in 1 .. Len(frames) : Len(frames[i]) = Len(base) + i - 1 /\ InSubtree(base, frames[i])
  BY <1>1 DEF FrameInv
<1>4. Len(base) \in Nat
  BY <1>1, NodeFacts
<1>5. ToSet(frames) = ToSet(frames') \cup {reading}
  <2>1. \A x : x \in ToSet(frames) <=> \E i \in 1 .. Len(frames) : frames[i] = x
    BY <1>1, ToSetMember
  <2>2. \A x : x \in ToSet(frames') <=> \E i \in 1 .. Len(frames) - 1 : frames[i] = x
    BY <1>2, ToSetMember
  <2>3. \A i \in 1 .. Len(frames) : i \in 1 .. Len(frames) - 1 \/ i = Len(frames)
    BY <1>2
  <2>4. \A i \in 1 .. Len(frames) - 1 : i \in 1 .. Len(frames)
    BY <1>2
  <2> QED
    BY <1>1, <1>2, <2>1, <2>2, <2>3, <2>4
<1>6. reading \notin ToSet(frames')
  <2>1. \A i \in 1 .. Len(frames) - 1 : Len(frames[i]) # Len(reading)
    BY <1>1, <1>2, <1>3, <1>4
  <2>2. \A x : x \in ToSet(frames') <=> \E i \in 1 .. Len(frames) - 1 : frames[i] = x
    BY <1>2, ToSetMember
  <2> QED
    BY <2>1, <2>2
<1>7. CASE Len(frames) = 1
  <2>1. Len(reading) = Len(base) /\ InSubtree(base, reading)
    BY <1>1, <1>2, <1>3, <1>4, <1>7
  <2>2. reading = base
    BY <1>1, <1>4, <2>1, SubtreeOrder
  <2>3. frames' = <<>>
    BY <1>2, <1>7
  <2> QED
    BY <1>1, <1>2, <1>5, <1>6, <1>7, <2>2, <2>3 DEF Ascend
<1>8. CASE Len(frames) # 1
  <2>0. Len(reading) = Len(base) + Len(frames) - 1 /\ Len(frames) \in Nat /\ Len(frames) > 1
    BY <1>1, <1>2, <1>3, <1>8
  <2>1. Len(reading) > Len(base) /\ Len(reading) \in Nat
    BY <1>4, <2>0
  <2>2. reading # base /\ reading # <<>>
    BY <1>4, <2>1
  <2>3. frames' # <<>> /\ Len(frames') \in 1 .. Len(frames')
    BY <1>2, <1>8
  <2>4. reading' = frames'[Len(frames')] /\ pc' = "next" /\ out' = Append(out, reading)
    BY <1>1, <1>8 DEF Ascend, Last
  <2>5. reading' \in ToSet(frames')
    BY <1>2, <2>3, <2>4, ToSetMember
  <2> QED
    BY <1>1, <1>2, <1>5, <1>6, <1>8, <2>2, <2>3, <2>4, <2>5
<1> QED
  BY <1>7, <1>8

\* Every step finds a node at most once.
LEMMA StepFound ==
  ASSUME Typing, ShapeInv, FoundInv, OnceInv, FrameInv, [Next]_vars
  PROVE  FoundInv' /\ OnceInv'
<1>0. \A m \in AllNodes : IF iter[m].open THEN m \in Entered ELSE iter[m].given = {}
  BY DEF FoundInv
<1>1. CASE Register
  BY <1>0, <1>1, QuietFound, QuietOnce DEF Register, setup, Items, Busy, Reading, FoundInv
<1>2. CASE Store
  BY <1>0, <1>2, QuietFound, QuietOnce DEF Store, setup, Items, Busy, Reading, FoundInv
<1>3. CASE Start
  <2>1. /\ list = <<>> /\ frames = <<>> /\ out = <<>> /\ \A m \in AllNodes : ~iter[m].open
        /\ base' = base /\ mode' = mode /\ iter' = iter
    BY <1>3 DEF ShapeInv, Start
  <2>2. CASE mode = "post"
    <3>1. frames' = <<base>> /\ reading' = base /\ pc' = "next" /\ list' = <<>> /\ out' = <<>>
      BY <1>3, <2>1, <2>2 DEF Start
    <3>2. ToSet(frames') = {base} /\ ToSet(out') = {} /\ Items' = {} /\ DOMAIN list' = {} /\ DOMAIN out' = {}
      BY <3>1 DEF ToSet, Items, ItemsOf
    <3>3. Found' = {base} /\ base \in Entered' /\ ~Busy'
      BY <2>1, <2>2, <3>1, <3>2 DEF Found, Entered, Busy
    <3>4. FoundInv'
      BY <1>0, <2>1, <3>1, <3>2, <3>3 DEF FoundInv
    <3>5. OnceInv'
      BY <3>2, <3>3 DEF OnceInv, IsInjective
    <3> QED
      BY <3>4, <3>5
  <2>3. CASE mode # "post"
    <3>1. frames' = <<>> /\ pc' = "loop" /\ list' = <<Item(base)>> /\ (out' = <<>> \/ out' = <<base>>)
      BY <1>3, <2>1, <2>3 DEF Start
    <3>2. /\ ToSet(frames') = {} /\ ToSet(out') \subseteq {base} /\ IsInjective(out')
      BY <3>1 DEF ToSet, IsInjective
    <3>3. DOMAIN list' = 1 .. 1 /\ list'[1].type = "item" /\ list'[1].node = base
      BY <3>1 DEF Item
    <3>4. Items' = {base}
      BY <3>3 DEF Items, ItemsOf
    <3>5. Found' = {base} /\ ~Busy' /\ ~Reading'
      BY <3>1, <3>2, <3>4 DEF Found, Busy, Reading
    <3>6. FoundInv'
      BY <1>0, <2>1, <3>3, <3>5 DEF FoundInv
    <3>7. OnceInv'
      BY <2>1, <3>2, <3>3, <3>4, <3>5 DEF OnceInv
    <3> QED
      BY <3>6, <3>7
  <2> QED
    BY <2>2, <2>3
<1>4. CASE PopItem
  <2>1. /\ mode # "post" /\ Entry.node \in AllNodes
        /\ Taken(Entry.node, Rest) /\ Visit(Entry.node, Rest, size - 1) /\ size - 1 \in Int
    BY <1>4, PopItemVisits DEF Typing
  <2> QED
    BY <1>4, <2>1, VisitFound, VisitOnce DEF PopItem
<1>5. CASE PopIterator
  <2>1. mode # "post" /\ list # <<>> /\ Entry.type = "iterator" /\ list \in Seq(Entries)
    BY <1>5 DEF PopIterator, Popping, ShapeInv, Typing
  <2>2. 1 \in DOMAIN list /\ Len(list) \in DOMAIN list
        /\ (mode = "queue" => Entry = list[1]) /\ (mode = "stack" => Entry = list[Len(list)])
    BY <2>1, RestFacts
  <2>3. Entry.node \in Entered
    BY <2>1, <2>2 DEF FoundInv, Typing
  <2>4. UNCHANGED <<mode, base, out, frames, list, iter>> /\ pc' = "next" /\ pc # "end" /\ reading' = Entry.node
    BY <1>5 DEF PopIterator, setup, Popping
  <2> QED
    BY <1>0, <2>3, <2>4, QuietFound, QuietOnce DEF Items, Busy
<1>6. CASE EndPre
  BY <1>0, <1>6, QuietFound, QuietOnce DEF EndPre, setup, Items, Busy, Reading
<1>7. CASE Open
  <2>1. reading \in Entered /\ reading \in AllNodes /\ iter[reading].given = {}
    BY <1>0, <1>7 DEF Open, FoundInv, Reading, Typing
  <2>2. /\ iter' = [iter EXCEPT ![reading] = [open |-> TRUE, must |-> ChildrenOf(reading), given |-> {}]]
        /\ iter \in [AllNodes -> Iterators]
    BY <1>7 DEF Open, Typing
  <2>3. \A m \in AllNodes :
          /\ iter[m].given \subseteq iter'[m].given
          /\ IF iter'[m].open THEN m \in Entered ELSE iter'[m].given = {}
    BY <1>0, <2>1, <2>2
  <2> QED
    BY <1>7, <2>1, <2>3, QuietFound, QuietOnce DEF Open, setup, Items, Busy, Reading
<1>8. CASE NextChild
  <2>1. PICK c \in ChildrenOf(reading) \ iter[reading].given :
          /\ iter' = [iter EXCEPT ![reading].given = @ \cup {c}]
          /\ child' = c
          /\ pc' = IF InTree(reading) THEN "deliver" ELSE "fetch"
    BY <1>8 DEF NextChild
  <2>2. /\ c \in AllNodes /\ Len(c) = Len(reading) + 1 /\ InSubtree(reading, c) /\ Front(c) = reading
        /\ c # base /\ c \notin Found /\ InSubtree(base, c) /\ reading \in Found \cup {base}
        /\ \A f \in Found : ~InSubtree(c, f)
    BY <1>8, <2>1, NextFresh DEF NextChild
  <2>3. /\ UNCHANGED <<mode, base, out, frames, list, reading>> /\ pc = "next" /\ iter[reading].open
        /\ reading \in Entered /\ reading \in AllNodes /\ iter \in [AllNodes -> Iterators]
    BY <1>8 DEF NextChild, setup, FoundInv, Reading, Typing
  <2>4. Found' = Found \cup {c} /\ Entered' = Entered /\ Items' = Items
    BY <2>1, <2>3 DEF Found, Entered, Items, Busy
  <2>5. /\ \A m \in AllNodes : m # reading => iter'[m] = iter[m]
        /\ iter'[reading].given = iter[reading].given \cup {c}
        /\ iter'[reading].open = iter[reading].open
    BY <2>1, <2>3 DEF Iterators
  <2>6. \A m \in AllNodes :
          /\ iter[m].given \subseteq iter'[m].given
          /\ IF iter'[m].open THEN m \in Entered ELSE iter'[m].given = {}
    BY <1>0, <2>3, <2>5
  <2>7. ASSUME NEW n \in Found', n # base
        PROVE  /\ InSubtree(base, n)
               /\ mode = "post" \/ ~InTree(Front(n)) => n \in iter'[Front(n)].given
               /\ \A m \in AllNodes : InSubtree(base, m) /\ InSubtree(m, n) /\ m # n => m \in Entered'
    <3>1. CASE n \in Found
      <4>1. InSubtree(base, n) /\ n \in AllNodes /\ base \in AllNodes
        BY <3>1, FoundFacts DEF Typing
      <4>2. Len(n) > 0
        <5>1. ~(Len(n) <= Len(base)) /\ Len(n) \in Nat /\ Len(base) \in Nat
          BY <2>7, <4>1, SubtreeOrder, NodeFacts
        <5> QED
          BY <5>1
      <4>3. Front(n) \in AllNodes
        BY <4>1, <4>2, ParentFacts
      <4> QED
        BY <2>4, <2>6, <2>7, <3>1, <4>3 DEF FoundInv
    <3>2. CASE n = c
      <4>1. n \in iter'[Front(n)].given
        BY <2>2, <2>5, <3>2
      <4>2. ASSUME NEW m \in AllNodes, InSubtree(base, m), InSubtree(m, n), m # n PROVE m \in Entered
        <5>1. InSubtree(m, reading)
          BY <2>2, <2>3, <3>2, <4>2, ChildFacts
        <5>2. m = reading \/ m \in Entered
          BY <2>2, <4>2, <5>1, AncestorsEntered
        <5> QED
          BY <2>3, <5>2
      <4> QED
        BY <2>2, <2>4, <3>2, <4>1, <4>2
    <3> QED
      BY <2>4, <2>7, <3>1, <3>2
  <2>8. FoundInv'
    BY <2>3, <2>4, <2>6, <2>7 DEF FoundInv, InTree, InSubtree
  <2>9. OnceInv'
    <3>1. c \notin Items \cup ToSet(frames) \cup {base}
      BY <2>2 DEF Found
    <3>2. \A i \in DOMAIN out : ~InSubtree(c, out[i])
      BY <2>2 DEF Found, ToSet
    <3> QED
      BY <2>1, <2>3, <2>4, <3>1, <3>2 DEF OnceInv, InSubtree
  <2> QED
    BY <2>8, <2>9
<1>9. CASE Fetch
  BY <1>0, <1>9, QuietFound, QuietOnce DEF Fetch, setup, Items, Busy, Reading, FoundInv
<1>10. CASE Deliver
  <2>0. /\ child \in AllNodes /\ child \notin Items \cup ToSet(frames) \cup {base} /\ child \notin ToSet(out)
        /\ Busy /\ pc = "deliver"
        /\ UNCHANGED <<mode, base, iter, child>>
    <3>1. pc = "deliver" /\ Busy /\ child \in AllNodes
      BY <1>10 DEF Deliver, Busy, Typing
    <3>2. child \notin ToSet(out)
      BY <3>1, SubtreeOrder DEF OnceInv, ToSet
    <3> QED
      BY <1>10, <3>1, <3>2 DEF Deliver, setup, OnceInv
  <2>1. CASE mode = "queue"
    BY <1>10, <2>1, DeliverVisits, VisitFound, VisitOnce DEF Deliver, Typing
  <2>2. CASE mode = "stack"
    <3>1. /\ list' = Append(list, Item(child)) /\ pc' = "next" /\ list \in Seq(Entries)
          /\ UNCHANGED <<frames, reading, out>>
      BY <1>10, <2>2 DEF Deliver, Typing
    <3>2. Items' = Items \cup {child}
      BY <2>0, <3>1, ItemsAppend DEF Items
    <3>3. ~Busy' /\ Reading' /\ Reading
      BY <2>0, <3>1 DEF Busy, Reading
    <3>4. Found' = Found /\ Entered' = Entered
      BY <2>0, <2>2, <3>1, <3>2, <3>3 DEF Found, Entered
    <3>5. /\ Item(child) \in Entries /\ Item(child).type = "item" /\ Item(child).node = child
      BY <2>0 DEF Item, Entries
    <3>6. /\ DOMAIN list' = 1 .. Len(list) + 1 /\ DOMAIN list = 1 .. Len(list)
          /\ list'[Len(list) + 1] = Item(child)
          /\ \A i \in 1 .. Len(list) : list'[i] = list[i]
          /\ \A i \in 1 .. Len(list) + 1 : i \in 1 .. Len(list) \/ i = Len(list) + 1
      BY <3>1, <3>5, AppendFacts
    <3>7. \A i \in DOMAIN list' : list'[i].type = "iterator" => list'[i].node \in Entered
      BY <3>5, <3>6 DEF FoundInv
    <3>8. FoundInv'
      BY <2>0, <3>1, <3>3, <3>4, <3>7 DEF FoundInv, InTree, InSubtree
    <3>9. \A i \in 1 .. Len(list) : list[i].type = "item" => list[i].node # child
      BY <2>0, <3>6 DEF Items, ItemsOf
    <3>10. \A i, j \in DOMAIN list' :
             list'[i].type = "item" /\ list'[j].type = "item" /\ list'[i].node = list'[j].node => i = j
      BY <3>5, <3>6, <3>9 DEF OnceInv
    <3>11. OnceInv'
      BY <2>0, <3>1, <3>2, <3>3, <3>10 DEF OnceInv
    <3> QED
      BY <3>8, <3>11
  <2>3. CASE mode = "post"
    <3>1. /\ frames' = Append(frames, child) /\ pc' = "next" /\ reading' = child /\ frames \in Seq(AllNodes)
          /\ UNCHANGED <<list, out>>
      BY <1>10, <2>3 DEF Deliver, Typing
    <3>2. ToSet(frames') = ToSet(frames) \cup {child}
      BY <2>0, <3>1, ToSetAppend
    <3>3. ~Busy' /\ Items' = Items
      BY <3>1 DEF Busy, Items
    <3>4. Found' = Found /\ Entered' = Entered \cup {child}
      BY <2>0, <2>3, <3>1, <3>2, <3>3 DEF Found, Entered
    <3>5. FoundInv'
      BY <2>0, <3>1, <3>4 DEF FoundInv, InTree, InSubtree
    <3>6. OnceInv'
      BY <2>0, <3>1, <3>2, <3>3 DEF OnceInv
    <3> QED
      BY <3>5, <3>6
  <2> QED
    BY <2>1, <2>2, <2>3 DEF Typing
<1>11. CASE Exhaust
  <2>1. /\ list # <<>> /\ list \in Seq(Entries) /\ list[1] = Iterator(reading) /\ pc = "next"
        /\ list' = Tail(list) /\ pc' = "pop" /\ UNCHANGED <<mode, base, out, frames, iter, child>>
    BY <1>11 DEF Exhaust, Done, ShapeInv, Reading, Typing, setup
  <2>2. /\ list' \in Seq(Entries) /\ Len(list') = Len(list) - 1 /\ Len(list) \in Nat
        /\ DOMAIN list = 1 .. Len(list) /\ DOMAIN list' = 1 .. Len(list')
        /\ \A i \in 1 .. Len(list') : i + 1 \in 1 .. Len(list) /\ list'[i] = list[i + 1]
        /\ \A i \in 1 .. Len(list) : i = 1 \/ (i - 1 \in 1 .. Len(list') /\ list'[i - 1] = list[i])
    BY <2>1
  <2>3. \A x : Item(x) # Iterator(reading)
    BY DEF Item, Iterator
  <2>4. /\ \A x : x \in Items' <=> \E i \in 1 .. Len(list') : list'[i] = Item(x)
        /\ \A x : x \in Items <=> \E i \in 1 .. Len(list) : list[i] = Item(x)
    BY <2>1, <2>2, ItemsMember DEF Items
  <2>5. \A x : x \in Items' <=> x \in Items
    BY <2>1, <2>2, <2>3, <2>4
  <2>6. Items' = Items
    <3>1. Items \subseteq Items' /\ Items' \subseteq Items
      BY <2>5
    <3> QED
      BY <3>1
  <2>7. ~Busy' /\ ~Reading'
    BY <2>1 DEF Busy, Reading
  <2>8. \A i \in DOMAIN list' : \E j \in DOMAIN list : list'[i] = list[j]
    BY <2>2
  <2>9. FoundInv'
    BY <1>0, <2>1, <2>6, <2>7, <2>8, QuietFound
  <2>10. \A i, j \in DOMAIN list' :
           list'[i].type = "item" /\ list'[j].type = "item" /\ list'[i].node = list'[j].node => i = j
    <3> SUFFICES ASSUME NEW i \in 1 .. Len(list'), NEW j \in 1 .. Len(list'),
                        list'[i].type = "item", list'[j].type = "item", list'[i].node = list'[j].node
                 PROVE  i = j
      BY <2>2
    <3>2. /\ i + 1 \in DOMAIN list /\ j + 1 \in DOMAIN list
          /\ list'[i] = list[i + 1] /\ list'[j] = list[j + 1]
      BY <2>2
    <3>1. i + 1 = j + 1
      BY <3>2 DEF OnceInv
    <3> QED
      BY <3>1
  <2>11. OnceInv'
    BY <2>1, <2>6, <2>7, <2>10 DEF OnceInv
  <2> QED
    BY <2>9, <2>11
<1>12. CASE Drained
  BY <1>0, <1>12, QuietFound, QuietOnce DEF Drained, Done, setup, Items, Busy, Reading
<1>13. CASE Ascend
  <2>1. /\ mode = "post" /\ pc = "next" /\ list = <<>> /\ reading \in ToSet(frames)
        /\ ToSet(frames) = ToSet(frames') \cup {reading} /\ reading \notin ToSet(frames')
        /\ out' = (IF reading = <<>> THEN out ELSE Append(out, reading))
        /\ IF Len(frames) = 1 THEN reading = base /\ pc' = "end" /\ frames' = <<>>
           ELSE pc' = "next" /\ reading # base /\ reading' \in ToSet(frames')
    BY <1>13, AscendFacts
  <2>2. /\ UNCHANGED <<mode, base, iter, child, list>> /\ out \in Seq(AllNodes) /\ reading \in AllNodes
        /\ base \in AllNodes
    BY <1>13 DEF Ascend, setup, Typing
  <2>3. ToSet(out') = ToSet(out) \cup (IF reading = <<>> THEN {} ELSE {reading})
    <3>1. ToSet(Append(out, reading)) = ToSet(out) \cup {reading}
      BY <2>2, ToSetAppend
    <3> QED
      BY <2>1, <3>1
  <2>4. ~Busy' /\ ~Busy /\ Items' = Items
    BY <2>1, <2>2 DEF Busy, Items
  <2>5. reading # base => reading # <<>>
    <3>1. InSubtree(base, reading)
      BY <2>1, FoundFacts DEF Found
    <3>2. Len(reading) <= Len(base) => reading = base
      BY <2>2, <3>1, SubtreeOrder
    <3>3. Len(base) \in Nat
      BY <2>2, NodeFacts
    <3> QED
      BY <3>2, <3>3
  <2>6. Found' \subseteq Found /\ Entered \subseteq Entered'
    BY <2>1, <2>2, <2>3, <2>4, <2>5 DEF Found, Entered
  <2>7. DOMAIN list' = {}
    BY <2>1, <2>2
  <2>8. Reading' => reading' \in Entered'
    BY <2>1, <2>2 DEF Reading, Entered
  <2>9. FoundInv'
    BY <1>0, <2>2, <2>6, <2>7, <2>8 DEF FoundInv, InTree, InSubtree
  <2>10. ToSet(frames) \cap ToSet(out) = {} /\ IsInjective(out)
    BY DEF OnceInv
  <2>11. IsInjective(out')
    <3>1. IsInjective(Append(out, reading))
      BY <2>1, <2>2, <2>10, InjectiveAppend
    <3> QED
      BY <2>1, <2>10, <3>1
  <2>12. ToSet(frames') \cap ToSet(out') = {}
    BY <2>1, <2>3, <2>10
  <2>13. Items' = {}
    BY <2>7 DEF Items, ItemsOf
  <2>14. OnceInv'
    BY <2>4, <2>7, <2>11, <2>12, <2>13 DEF OnceInv
  <2> QED
    BY <2>9, <2>14
<1>14. CASE Throw
  BY <1>0, <1>14, QuietFound, QuietOnce DEF Throw, setup, Items, Busy, Reading
<1>15. CASE Ended \/ UNCHANGED vars
  <2>1. UNCHANGED vars
    BY <1>15 DEF Ended
  <2> QED
    BY <1>0, <2>1, QuietFound, QuietOnce DEF vars, setup, Items, Busy, Reading, FoundInv
<1> QED
  BY <1>1, <1>2, <1>3, <1>4, <1>5, <1>6, <1>7, <1>8, <1>9, <1>10, <1>11, <1>12, <1>13, <1>14,
     <1>15 DEF Next, Step

-----------------------------------------------------------------------------
(* What is delivered can be reached *)

\* What a step leaves alone.
LEMMA StepFrame ==
  ASSUME [Next]_vars
  PROVE  /\ registered \subseteq registered' /\ stored \subseteq stored'
         /\ mode' = mode /\ base' = base
         /\ Start \/ before' = before
         /\ Fetch \/ trees' = trees
         /\ Register \/ Store \/ UNCHANGED store
<1>1. CASE Register \/ Store
  BY <1>1 DEF Register, Store, setup
<1>2. CASE Start \/ PopItem \/ PopIterator \/ EndPre \/ Open \/ NextChild
  BY <1>2 DEF Start, PopItem, PopIterator, EndPre, Open, NextChild, store, setup
<1>3. CASE Fetch \/ Deliver \/ Exhaust \/ Drained \/ Ascend \/ Throw
  BY <1>3 DEF Fetch, Deliver, Exhaust, Drained, Ascend, Throw, store, setup
<1>4. CASE Ended \/ UNCHANGED vars
  BY <1>4 DEF Ended, vars, store, setup
<1> QED
  BY <1>1, <1>2, <1>3, <1>4 DEF Next, Step

\* What can be reached stays so while the storage grows.
LEMMA ReachableGrows ==
  ASSUME registered \subseteq registered', stored \subseteq stored', base' = base
  PROVE  Reachable(base) \subseteq Reachable(base)'
  BY DEF Reachable, InSubtree

\* Reachable, by the nodes on the way.
LEMMA ReachableFacts ==
  ASSUME Typing, NEW n \in Reachable(base), NEW m \in AllNodes,
         InSubtree(base, m), InSubtree(m, n), m # base
  PROVE  /\ Len(m) <= KeyLevelNodes => m \in registered
         /\ Len(m) >= KeyLevelNodes => m \in stored
<1>1. base \in AllNodes /\ n \in AllNodes
  BY DEF Typing, Reachable, AllNodes
<1>2. Len(m) \in Nat /\ Len(base) \in Nat /\ Len(n) \in Nat
  BY <1>1, NodeFacts
<1>3. ~(Len(m) <= Len(base)) /\ Len(m) <= Len(n)
  BY <1>1, SubtreeOrder
<1>4. Len(m) \in Len(base) + 1 .. Len(n) /\ m = SubSeq(n, 1, Len(m))
  BY <1>1, <1>2, <1>3, PrefixFacts
<1> QED
  BY <1>4 DEF Reachable

\* A registered or stored child of what can be reached can be reached.
LEMMA ReachableChild ==
  ASSUME Typing, NEW n \in Reachable(base) \cup {base}, NEW c \in AllNodes,
         Len(c) = Len(n) + 1, InSubtree(n, c),
         Len(c) <= KeyLevelNodes => c \in registered,
         Len(c) >= KeyLevelNodes => c \in stored
  PROVE  c \in Reachable(base)
<1>1. base \in AllNodes /\ n \in AllNodes
  BY DEF Typing, Reachable, AllNodes
<1>2. InSubtree(base, n)
  BY <1>1, SubtreeOrder DEF Reachable
<1>3. Len(n) \in Nat /\ Len(base) \in Nat /\ Len(base) <= Len(n)
  BY <1>1, <1>2, SubtreeOrder, NodeFacts
<1>4. c \in Universe /\ InSubtree(base, c) /\ c # base
  BY <1>1, <1>2, <1>3, SubtreeOrder, NodeFacts
<1>5. ASSUME NEW l \in Len(base) + 1 .. Len(c)
      PROVE  /\ l <= KeyLevelNodes => SubSeq(c, 1, l) \in registered
             /\ l >= KeyLevelNodes => SubSeq(c, 1, l) \in stored
  <2>1. /\ SubSeq(c, 1, l) \in AllNodes /\ Len(SubSeq(c, 1, l)) = l /\ InSubtree(SubSeq(c, 1, l), c)
    <3>1. l \in 0 .. Len(c)
      BY <1>3
    <3> QED
      BY <3>1, NodeFacts, PrefixFacts
  <2>2. CASE l = Len(c)
    <3>1. SubSeq(c, 1, l) = c
      BY <2>1, <2>2, SubtreeOrder, NodeFacts
    <3> QED
      BY <2>2, <3>1
  <2>3. CASE l # Len(c)
    <3>1. l <= Len(n) /\ l \in Len(base) + 1 .. Len(n) /\ l > Len(base)
      BY <1>3, <2>3
    <3>5. \A p \in AllNodes : InSubtree(p, c) /\ Len(p) <= Len(n) => InSubtree(p, n)
      BY <1>1, SubtreeOrder
    <3>2. InSubtree(SubSeq(c, 1, l), n)
      BY <2>1, <3>1, <3>5
    <3>3. SubSeq(c, 1, l) = SubSeq(n, 1, l)
      BY <1>1, <2>1, <3>2, PrefixFacts
    <3>4. n # base
      BY <1>3, <3>1
    <3> QED
      BY <3>1, <3>3, <3>4 DEF Reachable
  <2> QED
    BY <2>2, <2>3
<1> QED
  BY <1>4, <1>5 DEF Reachable

\* A child whose value is being read is the only one found and not delivered.
LEMMA DeliveredFacts ==
  ASSUME Typing, FoundInv
  PROVE  /\ Delivered \subseteq Found /\ Entered \subseteq Delivered \cup {base}
         /\ pc # "fetch" => Delivered = Found
         /\ Delivered \subseteq AllNodes
  BY FoundFacts DEF Delivered, Found, Entered, Busy, Typing

\* What a step delivers is a child in a tree of what was delivered, or was fetched.
LEMMA DeliveredStep ==
  ASSUME Typing, ShapeInv, FoundInv, OnceInv, FrameInv, [Next]_vars
  PROVE  \A x \in Delivered' :
           \/ x \in Delivered \cup {base}
           \/ \E r \in Delivered \cup {base} : InTree(r) /\ x \in ChildrenOf(r)
           \/ Fetch /\ pc' = "deliver" /\ x = child
<1>1. ASSUME UNCHANGED <<list, out, frames>>, pc' # "deliver" \/ (pc = "deliver" /\ child' = child)
      PROVE  Delivered' \subseteq Delivered
  BY <1>1 DEF Delivered, Items
<1>2. ASSUME NEW n \in AllNodes, NEW l, NEW z \in Int, mode # "post", Taken(n, l), Visit(n, l, z),
             UNCHANGED <<store, setup, frames, iter, child, trees>>
      PROVE  \A x \in Delivered' :
               x \in Delivered \/ \E r \in Delivered \cup {base} : InTree(r) /\ x \in ChildrenOf(r)
  <2>1. Found' \subseteq Found \cup (IF InTree(n) THEN ChildrenOf(n) ELSE {})
    BY <1>2, VisitSets
  <2>2. n \in Found
    BY <1>2, TakenFresh
  <2>3. Delivered = Found
    BY <1>2, DeliveredFacts DEF Taken, Popping
  <2>4. Delivered' \subseteq Found'
    BY DEF Delivered, Found, Busy
  <2> QED
    BY <2>1, <2>2, <2>3, <2>4
<1>3. CASE Register \/ Store \/ PopIterator \/ EndPre \/ Open \/ Drained \/ Throw
  BY <1>1, <1>3 DEF Register, Store, PopIterator, EndPre, Open, Drained, Throw
<1>4. CASE Ended \/ UNCHANGED vars
  BY <1>1, <1>4 DEF Ended, vars
<1>5. CASE Start
  <2>1. list = <<>> /\ out = <<>> /\ frames = <<>> /\ pc' # "deliver"
    BY <1>5 DEF Start, ShapeInv
  <2>2. ToSet(<<base>>) = {base} /\ ToSet(<<>>) = {}
    BY DEF ToSet
  <2>3. ItemsOf(<<>>) = {} /\ ItemsOf(<<Item(base)>>) = {base}
    BY DEF ItemsOf, Item
  <2>4. (list' = <<>> \/ list' = <<Item(base)>>) /\ (out' = <<>> \/ out' = <<base>>)
        /\ (frames' = <<>> \/ frames' = <<base>>)
    BY <1>5, <2>1 DEF Start
  <2>5. Items' \subseteq {base} /\ ToSet(out') \subseteq {base} /\ ToSet(frames') \subseteq {base}
    BY <2>2, <2>3, <2>4 DEF Items
  <2> QED
    BY <2>1, <2>5 DEF Delivered
<1>6. CASE PopItem
  <2>1. /\ mode # "post" /\ Entry.node \in AllNodes
        /\ Taken(Entry.node, Rest) /\ Visit(Entry.node, Rest, size - 1) /\ size - 1 \in Int
    BY <1>6, PopItemVisits DEF Typing
  <2> QED
    BY <1>2, <1>6, <2>1 DEF PopItem
<1>7. CASE NextChild
  <2>1. /\ UNCHANGED <<list, out, frames>> /\ pc' = (IF InTree(reading) THEN "deliver" ELSE "fetch")
        /\ child' \in ChildrenOf(reading) /\ reading \in Entered
    BY <1>7 DEF NextChild, FoundInv, Reading
  <2>2. reading \in Delivered \cup {base}
    BY <2>1, DeliveredFacts
  <2> QED
    BY <2>1, <2>2 DEF Delivered, Items
<1>8. CASE Fetch
  BY <1>8 DEF Fetch, Delivered, Items
<1>9. CASE Deliver
  <2>0. pc = "deliver" /\ child \in Delivered /\ child \in AllNodes
    BY <1>9 DEF Deliver, Delivered, Typing
  <2>1. CASE mode = "queue"
    BY <1>2, <1>9, <2>1, DeliverVisits DEF Deliver, Typing
  <2>2. CASE mode = "stack"
    <3>1. /\ list' = Append(list, Item(child)) /\ pc' = "next" /\ list \in Seq(Entries)
          /\ UNCHANGED <<frames, out>>
      BY <1>9, <2>2 DEF Deliver, Typing
    <3>2. Items' = Items \cup {child}
      BY <2>0, <3>1, ItemsAppend DEF Items
    <3> QED
      BY <2>0, <3>1, <3>2 DEF Delivered
  <2>3. CASE mode = "post"
    <3>1. /\ frames' = Append(frames, child) /\ pc' = "next" /\ frames \in Seq(AllNodes)
          /\ UNCHANGED <<list, out>>
      BY <1>9, <2>3 DEF Deliver, Typing
    <3>2. ToSet(frames') = ToSet(frames) \cup {child}
      BY <2>0, <3>1, ToSetAppend
    <3> QED
      BY <2>0, <3>1, <3>2 DEF Delivered, Items
  <2> QED
    BY <2>1, <2>2, <2>3 DEF Typing
<1>10. CASE Exhaust
  <2>1. /\ list # <<>> /\ list \in Seq(Entries) /\ list' = Tail(list) /\ pc' = "pop" /\ UNCHANGED <<out, frames>>
    BY <1>10 DEF Exhaust, Done, ShapeInv, Reading, Typing
  <2>2. /\ list' \in Seq(Entries)
        /\ \A i \in 1 .. Len(list') : i + 1 \in 1 .. Len(list) /\ list'[i] = list[i + 1]
    BY <2>1
  <2>4. /\ \A x : x \in Items' <=> \E i \in 1 .. Len(list') : list'[i] = Item(x)
        /\ \A x : x \in Items <=> \E i \in 1 .. Len(list) : list[i] = Item(x)
    BY <2>1, <2>2, ItemsMember DEF Items
  <2>3. Items' \subseteq Items
    BY <2>2, <2>4
  <2> QED
    BY <2>1, <2>3 DEF Delivered
<1>11. CASE Ascend
  <2>1. /\ reading \in ToSet(frames) /\ ToSet(frames) = ToSet(frames') \cup {reading} /\ pc' \in {"end", "next"}
        /\ out' = (IF reading = <<>> THEN out ELSE Append(out, reading))
    BY <1>11, AscendFacts
  <2>2. ToSet(Append(out, reading)) = ToSet(out) \cup {reading} /\ list' = list
    BY <1>11, ToSetAppend DEF Ascend, Typing
  <2> QED
    BY <2>1, <2>2 DEF Delivered, Items
<1> QED
  BY <1>3, <1>4, <1>5, <1>6, <1>7, <1>8, <1>9, <1>10, <1>11 DEF Next, Step

\* Every step delivers only what can be reached.
LEMMA StepReach ==
  ASSUME Typing, ShapeInv, FoundInv, OnceInv, FrameInv, ReachInv, [Next]_vars
  PROVE  ReachInv'
<1>1. registered \subseteq registered' /\ stored \subseteq stored' /\ base' = base /\ base \in AllNodes
  BY StepFrame DEF Typing
<1>2. Reachable(base) \subseteq Reachable(base)'
  BY <1>1, ReachableGrows
<1>3. Delivered \cup {base} \subseteq Reachable(base) \cup {base}
  BY DEF ReachInv
<1>4. ASSUME NEW r \in Delivered \cup {base}, InTree(r), NEW x \in ChildrenOf(r)
      PROVE  x \in Reachable(base)
  <2>1. r \in AllNodes
    BY <1>1, DeliveredFacts
  <2>2. x \in AllNodes /\ Len(x) = Len(r) + 1 /\ InSubtree(r, x) /\ SubSeq(r, 1, KeyLevelNodes) \in TreeNodes
    BY <1>4, <2>1, ChildrenFacts DEF AllNodes
  <2>3. x \in stored
    BY <1>4, <2>2 DEF ChildrenOf, ReachInv
  <2>4. ~(Len(x) <= KeyLevelNodes)
    <3>1. Len(r) \in Nat
      BY <2>1, NodeFacts
    <3> QED
      BY <1>4, <2>2, <3>1, UniverseAssumption DEF InTree
  <2> QED
    BY <1>3, <2>2, <2>3, <2>4, ReachableChild
<1>5. ASSUME Fetch, pc' = "deliver" PROVE child \in Reachable(base)
  <2>1. /\ child \in ChildrenOf(reading) /\ reading \in AllNodes /\ ~InTree(reading) /\ reading \in Entered
        /\ child \in registered
    BY <1>5 DEF Fetch, ShapeInv, FoundInv, ReachInv, Busy, Reading, Typing
  <2>2. reading \in Reachable(base) \cup {base}
    BY <1>3, <2>1, DeliveredFacts
  <2>3. child \in AllNodes /\ Len(child) = Len(reading) + 1 /\ InSubtree(reading, child)
    BY <2>1, ChildrenFacts DEF AllNodes
  <2>4. Len(child) >= KeyLevelNodes => child \in stored
    BY <1>5 DEF Fetch, InTree
  <2> QED
    BY <2>1, <2>2, <2>3, <2>4, ReachableChild
<1>6. Delivered' \ {base} \subseteq Reachable(base)'
  BY <1>2, <1>3, <1>4, <1>5, DeliveredStep
<1>7. pc' = "fetch" => child' \in registered'
  <2>1. CASE NextChild
    <3>1. child' \in ChildrenOf(reading) /\ (pc' = "fetch" => ~InTree(reading))
      BY <2>1 DEF NextChild
    <3> QED
      BY <1>1, <3>1 DEF ChildrenOf
  <2>2. CASE pc = "fetch" /\ child' = child
    BY <1>1, <2>2 DEF ReachInv
  <2>3. CASE pc' # "fetch"
    BY <2>3
  <2>4. NextChild \/ (pc = "fetch" /\ child' = child) \/ pc' # "fetch"
    <3>1. CASE Register \/ Store \/ Open \/ Ended \/ UNCHANGED vars
      BY <3>1 DEF Register, Store, Open, Ended, vars
    <3>2. CASE Start \/ PopIterator \/ EndPre \/ Fetch \/ Exhaust \/ Drained \/ Throw
      BY <3>2 DEF Start, PopIterator, EndPre, Fetch, Exhaust, Drained, Throw
    <3>3. CASE PopItem
      BY <3>3 DEF PopItem, Visit
    <3>4. CASE Deliver
      BY <3>4 DEF Deliver, Visit, Typing
    <3>5. CASE Ascend
      BY <3>5 DEF Ascend, Done
    <3> QED
      BY <3>1, <3>2, <3>3, <3>4, <3>5 DEF Next, Step
  <2> QED
    BY <2>1, <2>2, <2>3, <2>4
<1>8. \A m \in TreeNodes : \A x \in trees'[m] : x \in stored' /\ InSubtree(m, x)
  <2>1. CASE Fetch
    <3>1. \A m \in TreeNodes : \A x \in trees'[m] :
            x \in trees[m] \/ (m = child /\ x \in stored /\ InSubtree(child, x))
      BY <2>1 DEF Fetch, Typing
    <3> QED
      BY <1>1, <3>1 DEF ReachInv
  <2>2. CASE trees' = trees
    BY <1>1, <2>2 DEF ReachInv
  <2> QED
    BY <2>1, <2>2, StepFrame
<1> QED
  BY <1>1, <1>6, <1>7, <1>8 DEF ReachInv, InSubtree

-----------------------------------------------------------------------------
(* What was there at the start is known *)

\* The node of keyLevelNodes above a node of a tree has been delivered.
LEMMA TreeDelivered ==
  ASSUME Typing, FoundInv, pc # "fetch", NEW n \in Found, InTree(n)
  PROVE  SubSeq(n, 1, KeyLevelNodes) \in TreeNodes \cap Delivered
<1> DEFINE m == SubSeq(n, 1, KeyLevelNodes)
<1>1. n \in AllNodes /\ InSubtree(base, n) /\ base \in AllNodes
  BY FoundFacts DEF Typing
<1>2. KeyLevelNodes \in 0 .. Len(n) /\ Len(base) < KeyLevelNodes /\ Len(base) \in Nat
  BY <1>1, NodeFacts, UniverseAssumption DEF InTree, Typing
<1>3. m \in TreeNodes
  BY <1>1, ChildrenFacts
<1>4. m \in AllNodes /\ Len(m) = KeyLevelNodes /\ InSubtree(m, n)
  BY <1>1, <1>2, NodeFacts, PrefixFacts
<1> HIDE DEF m
<1>5. InSubtree(base, m) /\ m # base
  BY <1>1, <1>2, <1>4, SubtreeOrder
<1>6. m = n \/ m \in Entered
  BY <1>4, <1>5, AncestorsEntered
<1> QED
  BY <1>3, <1>5, <1>6, DeliveredFacts DEF m

\* The children known of a node lead to all that was there at the start below it.
LEMMA ChildrenKnown ==
  ASSUME Typing, FoundInv, KnownInv, pc # "fetch",
         NEW m \in Found \cup {base}, NEW n \in before, InSubtree(m, n), m # n
  PROVE  Toward(n, m) \in ChildrenOf(m)
<1>1. m \in AllNodes /\ InSubtree(base, m) /\ n \in AllNodes /\ base \in AllNodes
  BY FoundFacts DEF Typing, AllNodes
<1>2. /\ Toward(n, m) \in AllNodes /\ Len(Toward(n, m)) = Len(m) + 1
      /\ InSubtree(Toward(n, m), n) /\ InSubtree(m, Toward(n, m))
  BY <1>1, TowardFacts DEF AllNodes
<1>3. Len(m) \in Nat /\ Len(n) \in Nat /\ Len(m) + 1 <= Len(n) /\ Len(base) <= Len(m) /\ Len(base) \in Nat
  BY <1>1, <1>2, SubtreeOrder, NodeFacts
<1>4. CASE InTree(m)
  <2>1. m \in Found
    BY <1>3, <1>4, UniverseAssumption DEF InTree, Typing
  <2>2. SubSeq(m, 1, KeyLevelNodes) \in TreeNodes \cap Delivered
    BY <1>4, <2>1, TreeDelivered
  <2>3. InSubtree(SubSeq(m, 1, KeyLevelNodes), m) /\ SubSeq(m, 1, KeyLevelNodes) \in AllNodes
    <3>1. KeyLevelNodes \in 0 .. Len(m)
      BY <1>3, <1>4, UniverseAssumption DEF InTree
    <3> QED
      BY <1>1, <3>1, PrefixFacts, NodeFacts
  <2>4. InSubtree(SubSeq(m, 1, KeyLevelNodes), n)
    BY <1>1, <2>3, SubtreeOrder
  <2>5. Len(m) + 1 \in KeyLevelNodes .. Len(n)
    BY <1>3, <1>4, UniverseAssumption DEF InTree
  <2>6. Toward(n, m) \in trees[SubSeq(m, 1, KeyLevelNodes)]
    BY <2>2, <2>4, <2>5 DEF KnownInv, Toward
  <2> QED
    BY <1>2, <1>4, <2>6 DEF ChildrenOf
<1>5. CASE ~InTree(m)
  <2>1. n \in Reachable(base)
    BY DEF KnownInv
  <2>2. Toward(n, m) # base /\ InSubtree(base, Toward(n, m)) /\ Len(Toward(n, m)) <= KeyLevelNodes
    BY <1>1, <1>2, <1>3, <1>5, SubtreeOrder, UniverseAssumption DEF InTree
  <2>3. Toward(n, m) \in registered
    BY <1>2, <2>1, <2>2, ReachableFacts
  <2> QED
    BY <1>2, <1>5, <2>3 DEF ChildrenOf
<1> QED
  BY <1>4, <1>5

\* The steps that change an iterator.
LEMMA StepIter ==
  ASSUME [Next]_vars
  PROVE  iter' = iter \/ Open \/ NextChild
<1>1. CASE Register \/ Store \/ Ended \/ UNCHANGED vars
  BY <1>1 DEF Register, Store, Ended, vars
<1>2. CASE Start \/ PopItem \/ PopIterator \/ EndPre \/ Fetch \/ Deliver \/ Exhaust \/ Drained
  BY <1>2 DEF Start, PopItem, PopIterator, EndPre, Fetch, Deliver, Exhaust, Drained
<1>3. CASE Ascend \/ Throw
  BY <1>3 DEF Ascend, Throw
<1> QED
  BY <1>1, <1>2, <1>3 DEF Next, Step

\* Trees that are read and iterators that are opened know what was there at the
\* start.
LEMMA StepKnown ==
  ASSUME Typing, ShapeInv, FoundInv, OnceInv, FrameInv, ReachInv, KnownInv, [Next]_vars
  PROVE  KnownInv'
<1>1. registered \subseteq registered' /\ stored \subseteq stored' /\ base' = base /\ base \in AllNodes
  BY StepFrame DEF Typing
<1>2. Reachable(base) \subseteq Reachable(base)'
  BY <1>1, ReachableGrows
<1>3. before' \subseteq Reachable(base) /\ before' \subseteq Universe
  <2>1. CASE Start
    BY <2>1 DEF Start, Reachable
  <2>2. CASE before' = before
    BY <2>2 DEF KnownInv, Typing
  <2> QED
    BY <2>1, <2>2, StepFrame
<1>4. ASSUME NEW m \in TreeNodes \cap Delivered', NEW n \in before', InSubtree(m, n),
             NEW l \in KeyLevelNodes .. Len(n)
      PROVE  SubSeq(n, 1, l) \in trees'[m]
  <2>0. m \in AllNodes /\ n \in AllNodes /\ Len(m) = KeyLevelNodes /\ KeyLevelNodes \in Nat /\ m # base
    BY <1>3, UniverseAssumption DEF TreeNodes, AllNodes, Typing
  <2>1. m \notin UNION {ChildrenOf(r) : r \in {x \in Delivered \cup {base} : InTree(x)}}
    <3> SUFFICES ASSUME NEW r \in Delivered \cup {base}, InTree(r), m \in ChildrenOf(r) PROVE FALSE
      OBVIOUS
    <3>1. r \in AllNodes
      BY <1>1, DeliveredFacts
    <3>2. Len(m) = Len(r) + 1 /\ Len(r) \in Nat
      BY <3>1, ChildrenFacts, NodeFacts
    <3> QED
      BY <2>0, <3>2 DEF InTree
  <2>2. m \in Delivered \/ (Fetch /\ m = child)
    BY <2>0, <2>1, DeliveredStep
  <2>3. ~Start
    <3>1. SUFFICES ASSUME Start PROVE FALSE
      OBVIOUS
    <3>2. list = <<>> /\ out = <<>> /\ frames = <<>> /\ pc = "start"
      BY <3>1 DEF Start, ShapeInv
    <3>3. Delivered = {}
      BY <3>2 DEF Delivered, Items, ItemsOf, ToSet
    <3> QED
      BY <2>2, <3>2, <3>3 DEF Fetch
  <2>4. n \in before /\ n \in Reachable(base)
    BY <1>3, <2>3, StepFrame
  <2>5. CASE Fetch /\ m = child
    <3>1. trees' = [trees EXCEPT ![child] = {x \in stored : InSubtree(child, x)}]
      BY <2>0, <2>5 DEF Fetch, InTree
    <3>2. trees'[m] = {x \in stored : InSubtree(m, x)}
      BY <2>5, <3>1 DEF Typing
    <3>3. l \in 0 .. Len(n) /\ l >= KeyLevelNodes
      BY <2>0
    <3>4. SubSeq(n, 1, l) \in AllNodes /\ Len(SubSeq(n, 1, l)) = l /\ InSubtree(SubSeq(n, 1, l), n)
      BY <2>0, <3>3, NodeFacts, PrefixFacts
    <3>5. InSubtree(base, n) /\ Len(base) \in Nat /\ Len(base) < KeyLevelNodes
      BY <1>1, <2>4, NodeFacts DEF Reachable, Typing
    <3>6. \A p, q \in AllNodes : InSubtree(p, n) /\ InSubtree(q, n) /\ Len(p) <= Len(q) => InSubtree(p, q)
      BY <2>0, SubtreeOrder
    <3>7. InSubtree(m, SubSeq(n, 1, l))
      BY <1>4, <2>0, <3>3, <3>4, <3>6
    <3>12. Len(base) <= Len(SubSeq(n, 1, l))
      BY <2>0, <3>3, <3>4, <3>5
    <3>8. InSubtree(base, SubSeq(n, 1, l))
      BY <1>1, <3>4, <3>5, <3>6, <3>12
    <3>9. SubSeq(n, 1, l) # base
      BY <2>0, <3>3, <3>4, <3>5
    <3>11. \A p \in AllNodes : InSubtree(base, p) /\ InSubtree(p, n) /\ p # base /\ Len(p) >= KeyLevelNodes
                               => p \in stored
      BY <2>4, ReachableFacts
    <3>10. SubSeq(n, 1, l) \in stored
      BY <3>3, <3>4, <3>8, <3>9, <3>11
    <3> QED
      BY <3>2, <3>7, <3>10
  <2>6. CASE m \in Delivered /\ ~(Fetch /\ m = child)
    <3>1. trees'[m] = trees[m]
      BY <2>6, StepFrame DEF Fetch, Typing
    <3> QED
      BY <1>4, <2>4, <2>6, <3>1 DEF KnownInv
  <2> QED
    BY <2>2, <2>5, <2>6
<1>5. ASSUME NEW m \in AllNodes, NEW n \in before', iter'[m].open,
             InSubtree(base, m), InSubtree(m, n), m # n
      PROVE  Toward(n, m) \in iter'[m].must
  <2>1. n \in before \/ Start
    BY StepFrame
  <2>2. CASE Start
    BY <1>5, <2>2 DEF Start, ShapeInv
  <2>3. CASE iter' = iter /\ n \in before
    BY <1>5, <2>3 DEF KnownInv
  <2>4. CASE Open /\ n \in before
    <3>1. /\ iter' = [iter EXCEPT ![reading] = [open |-> TRUE, must |-> ChildrenOf(reading), given |-> {}]]
          /\ reading \in AllNodes /\ pc = "next" /\ reading \in Entered
      BY <2>4 DEF Open, Typing, FoundInv, Reading
    <3>2. CASE m = reading
      <4>1. Toward(n, m) \in ChildrenOf(m)
        BY <1>5, <2>4, <3>1, <3>2, FoundFacts, ChildrenKnown
      <4> QED
        BY <3>1, <3>2, <4>1 DEF Typing
    <3>3. CASE m # reading
      BY <1>5, <2>4, <3>1, <3>3 DEF KnownInv, Typing
    <3> QED
      BY <3>2, <3>3
  <2>5. CASE NextChild /\ n \in before
    <3>1. iter'[m].open = iter[m].open /\ iter'[m].must = iter[m].must
      BY <2>5 DEF NextChild, Typing, Iterators
    <3> QED
      BY <1>5, <2>5, <3>1 DEF KnownInv
  <2> QED
    BY <2>1, <2>2, <2>3, <2>4, <2>5, StepIter
<1>6. before' \subseteq Reachable(base)'
  BY <1>2, <1>3
<1> QED
  BY <1>1, <1>4, <1>5, <1>6 DEF KnownInv, InSubtree, Toward

-----------------------------------------------------------------------------
(* Nothing that was there at the start is missed *)

\* m goes on leading to n while it keeps its place.
LEMMA LeadsKept ==
  ASSUME NEW m, NEW n, Leads(m, n), base' = base,
         m \in Items => m \in Items',
         Busy /\ m = child => (Busy' /\ m = child') \/ m \in Items',
         m \in ToSet(frames) => m \in ToSet(frames'),
         (m \in ToSet(frames) \/ Active(m)) /\ m # n /\ Toward(n, m) \notin iter[m].given =>
           (m \in ToSet(frames') \/ Active(m)') /\ Toward(n, m) \notin iter'[m].given
  PROVE  Leads(m, n)'
  BY DEF Leads, InSubtree, Toward

\* An iterator that is done has given all that was there at the start.
LEMMA DoneGiven ==
  ASSUME KnownInv, Typing, Done, NEW n \in before, InSubtree(base, reading),
         InSubtree(reading, n), reading # n
  PROVE  Toward(n, reading) \in iter[reading].given
  BY DEF KnownInv, Done, Typing

\* A visit hands what its node leads to over to its children.
LEMMA VisitCover ==
  ASSUME Typing, ShapeInv, FoundInv, OnceInv, KnownInv, mode # "post",
         NEW n0 \in AllNodes, NEW l, NEW z \in Int, Taken(n0, l), Visit(n0, l, z),
         UNCHANGED <<store, setup, frames, iter, child, trees>>,
         NEW m \in AllNodes, NEW n \in before, Leads(m, n)
  PROVE  n \in ToSet(out') \/ \E k \in AllNodes : Leads(k, n)'
<1>1. /\ Items' = ItemsOf(l) \cup (IF InTree(n0) THEN ChildrenOf(n0) ELSE {})
      /\ \A x : (\E i \in 1 .. Len(list') : list'[i] = Iterator(x))
                <=> \/ \E i \in 1 .. Len(list) : list[i] = Iterator(x)
                    \/ x = n0 /\ ~InTree(n0) /\ mode = "queue"
      /\ ToSet(out') = ToSet(out) \cup (IF n0 = base THEN {} ELSE {n0})
  BY VisitEffect
<1>2. /\ l \in Seq(Entries) /\ Items \cup {c \in {child} : Busy} = ItemsOf(l) \cup {n0}
      /\ mode = "queue" \/ pc # "deliver"
  BY TakenEntries
<1>3. InSubtree(base, n0) /\ n0 \in Found /\ n0 \notin Entered
  BY TakenFresh
<1>4. /\ list \in Seq(Entries) /\ list' \in Seq(Entries) /\ reading' = n0
      /\ pc' = IF ~InTree(n0) /\ mode = "stack" THEN "next" ELSE "loop"
  BY <1>2, VisitFacts DEF Typing
<1>5. base' = base /\ mode' = mode /\ iter' = iter /\ frames' = frames /\ ToSet(frames) = {}
  BY DEF setup, ShapeInv, ToSet
<1>6. \A x : (\E i \in DOMAIN list' : list'[i] = Iterator(x))
             <=> \/ \E i \in DOMAIN list : list[i] = Iterator(x)
                 \/ x = n0 /\ ~InTree(n0) /\ mode = "queue"
  BY <1>1, <1>4
<1>7. iter[n0].given = {}
  BY <1>3 DEF FoundInv
<1>8. n \in Universe /\ n # base /\ n \in AllNodes
  BY DEF Typing, KnownInv, Reachable, AllNodes
<1>9. CASE m = n0 /\ n = n0
  BY <1>1, <1>8, <1>9
<1>10. CASE m = n0 /\ n # n0 /\ InTree(n0)
  <2>1. InSubtree(m, n)
    BY DEF Leads
  <2>2. pc # "fetch"
    BY DEF Taken, Popping
  <2>3. Toward(n, n0) \in ChildrenOf(n0)
    BY <1>3, <1>10, <2>1, <2>2, ChildrenKnown
  <2>4. /\ Toward(n, n0) \in AllNodes /\ InSubtree(Toward(n, n0), n) /\ InSubtree(n0, Toward(n, n0))
    BY <1>8, <1>10, <2>1, TowardFacts DEF AllNodes
  <2>5. InSubtree(base, Toward(n, n0))
    BY <1>3, <2>4, SubtreeOrder DEF Typing
  <2>6. Toward(n, n0) \in Items'
    BY <1>1, <1>10, <2>3
  <2>7. Leads(Toward(n, n0), n)'
    BY <1>5, <2>4, <2>5, <2>6 DEF Leads, InSubtree, Toward
  <2> QED
    BY <2>4, <2>7
<1>11. CASE m = n0 /\ n # n0 /\ ~InTree(n0)
  <2>1. Active(n0)'
    <3>1. CASE mode = "queue"
      <4>1. \E i \in DOMAIN list' : list'[i] = Iterator(n0)
        BY <1>6, <1>11, <3>1
      <4> QED
        BY <4>1 DEF Active, Iterator
    <3>2. CASE mode = "stack"
      BY <1>4, <1>5, <1>11, <3>2 DEF Active, Reading
    <3> QED
      BY <3>1, <3>2 DEF Typing
  <2>2. InSubtree(base, m) /\ InSubtree(m, n)
    BY DEF Leads
  <2>3. Toward(n, n0) \notin iter'[n0].given
    BY <1>5, <1>7
  <2>4. Leads(n0, n)'
    BY <1>5, <1>11, <2>1, <2>2, <2>3 DEF Leads, InSubtree, Toward
  <2> QED
    BY <2>4
<1>12. CASE m # n0
  <2>1. m \in Items => m \in Items'
    BY <1>1, <1>2, <1>12
  <2>2. ~(Busy /\ m = child)
    BY <1>12 DEF Taken, Popping, Busy
  <2>3. Active(m) => Active(m)'
    <3>1. ~(mode = "stack" /\ Reading)
      BY DEF Taken, Popping, Reading
    <3> QED
      BY <1>6, <3>1 DEF Active, Iterator
  <2>4. Leads(m, n)'
    BY <1>5, <2>1, <2>2, <2>3, LeadsKept
  <2> QED
    BY <2>4
<1> QED
  BY <1>9, <1>10, <1>11, <1>12

\* No step loses a node that was there at the start.
LEMMA StepCover ==
  ASSUME Typing, ShapeInv, FoundInv, OnceInv, FrameInv, KnownInv, CoverInv, [Next]_vars
  PROVE  CoverInv'
<1> SUFFICES ASSUME pc' \notin {"start", "failed"}, NEW n \in before'
             PROVE  n \in ToSet(out') \/ \E m \in AllNodes : Leads(m, n)'
  BY DEF CoverInv
<1>0. base' = base /\ mode' = mode /\ base \in AllNodes
  BY StepFrame DEF Typing
<1>1. CASE Start
  <2>1. n \in Universe /\ InSubtree(base, n) /\ n # base /\ InSubtree(base, base)
    BY <1>0, <1>1, SubtreeOrder DEF Start, Reachable
  <2>2. CASE mode = "post"
    <3>1. frames' = <<base>> /\ iter' = iter /\ ~iter[base].open
      BY <1>0, <1>1, <2>2 DEF Start, ShapeInv
    <3>2. base \in ToSet(frames')
      BY <3>1 DEF ToSet
    <3>3. Toward(n, base) \notin iter'[base].given
      BY <1>0, <3>1 DEF FoundInv
    <3>4. Leads(base, n)'
      BY <1>0, <2>1, <3>2, <3>3 DEF Leads, InSubtree, Toward
    <3> QED
      BY <1>0, <3>4
  <2>3. CASE mode # "post"
    <3>1. list' = <<Item(base)>>
      BY <1>1, <2>3 DEF Start
    <3>2. base \in Items'
      <4>1. 1 \in DOMAIN list' /\ list'[1].type = "item" /\ list'[1].node = base
        BY <3>1 DEF Item
      <4> QED
        BY <4>1 DEF Items, ItemsOf
    <3>3. Leads(base, n)'
      BY <1>0, <2>1, <3>2 DEF Leads, InSubtree
    <3> QED
      BY <1>0, <3>3
  <2> QED
    BY <2>2, <2>3
<1>2. CASE n \in ToSet(out) /\ ~Start
  <2>1. ToSet(out) \subseteq ToSet(out')
    <3>1. ASSUME NEW x \in AllNodes, out' = Append(out, x) PROVE ToSet(out) \subseteq ToSet(out')
      BY <3>1, ToSetAppend DEF Typing
    <3>2. CASE PopItem
      BY <3>1, <3>2, PopItemVisits DEF Visit
    <3>3. CASE Deliver
      BY <3>1, <3>3 DEF Deliver, Visit, Typing
    <3>4. CASE Ascend
      BY <3>1, <3>4 DEF Ascend, Typing
    <3>5. CASE Register \/ Store \/ PopIterator \/ EndPre \/ Open \/ NextChild \/ Fetch
      BY <3>5 DEF Register, Store, PopIterator, EndPre, Open, NextChild, Fetch
    <3>6. CASE Exhaust \/ Drained \/ Throw \/ Ended \/ UNCHANGED vars
      BY <3>6 DEF Exhaust, Drained, Throw, Ended, vars
    <3> QED
      BY <1>2, <3>2, <3>3, <3>4, <3>5, <3>6 DEF Next, Step
  <2> QED
    BY <1>2, <2>1
<1>3. CASE n \notin ToSet(out) /\ ~Start
  <2>1. n \in before /\ pc \notin {"start", "failed"}
    <3>1. n \in before
      BY <1>3, StepFrame
    <3>2. CASE Register \/ Store \/ Ended \/ UNCHANGED vars
      BY <3>1, <3>2 DEF Register, Store, Ended, vars
    <3>3. CASE PopItem \/ PopIterator \/ EndPre \/ Open \/ NextChild \/ Fetch \/ Deliver
      BY <3>1, <3>3 DEF PopItem, PopIterator, EndPre, Popping, Open, NextChild, Fetch, Deliver
    <3>4. CASE Exhaust \/ Drained \/ Ascend \/ Throw
      BY <3>1, <3>4 DEF Exhaust, Drained, Ascend, Done, Throw
    <3> QED
      BY <1>3, <3>2, <3>3, <3>4 DEF Next, Step
  <2>2. PICK m \in AllNodes : Leads(m, n)
    BY <1>3, <2>1 DEF CoverInv
  <2>3. /\ InSubtree(base, m) /\ InSubtree(m, n) /\ n # base /\ n \in AllNodes /\ n # <<>>
        /\ n \in Reachable(base)
    BY <2>1, <2>2, NodeFacts DEF Leads, KnownInv, Reachable, AllNodes
  <2>4. ASSUME UNCHANGED <<list, frames>>, \A k \in AllNodes : iter'[k].given = iter[k].given,
               Busy /\ m = child => Busy' /\ m = child',
               mode = "stack" /\ Reading /\ reading = m /\ m # n /\ Toward(n, m) \notin iter[m].given
                 => Reading' /\ reading' = m
        PROVE  Leads(m, n)'
    <3>1. Items' = Items
      BY <2>4 DEF Items
    <3>2. m # n /\ Toward(n, m) \notin iter[m].given /\ Active(m) => Active(m)'
      BY <1>0, <2>4 DEF Active, Iterator
    <3> QED
      BY <1>0, <2>2, <2>4, <3>1, <3>2, LeadsKept
  <2>5. CASE Register \/ Store \/ Ended \/ UNCHANGED vars
    BY <2>4, <2>5 DEF Register, Store, Ended, vars, Busy, Reading
  <2>6. CASE PopItem
    <3>1. /\ mode # "post" /\ Entry.node \in AllNodes
          /\ Taken(Entry.node, Rest) /\ Visit(Entry.node, Rest, size - 1) /\ size - 1 \in Int
      BY <2>6, PopItemVisits DEF Typing
    <3> QED
      BY <2>1, <2>2, <2>6, <3>1, VisitCover DEF PopItem
  <2>7. CASE PopIterator \/ EndPre
    BY <2>4, <2>7 DEF PopIterator, EndPre, Popping, Busy, Reading
  <2>8. CASE Open
    <3>1. iter[reading].given = {} /\ reading \in AllNodes
      BY <2>8 DEF Open, FoundInv, Typing
    <3>2. \A k \in AllNodes : iter'[k].given = iter[k].given
      BY <2>8, <3>1 DEF Open, Typing
    <3> QED
      BY <2>4, <2>8, <3>2 DEF Open, Busy, Reading
  <2>9. CASE NextChild
    <3>1. PICK c \in ChildrenOf(reading) \ iter[reading].given :
            /\ iter' = [iter EXCEPT ![reading].given = @ \cup {c}]
            /\ child' = c
            /\ pc' = IF InTree(reading) THEN "deliver" ELSE "fetch"
      BY <2>9 DEF NextChild
    <3>2. UNCHANGED <<list, frames, reading>> /\ ~Busy /\ Busy' /\ Reading' /\ reading \in AllNodes
      BY <2>9, <3>1 DEF NextChild, Busy, Reading, Typing
    <3>3. CASE m = reading /\ m # n /\ Toward(n, m) = c
      <4>1. c \in AllNodes /\ InSubtree(c, n) /\ InSubtree(m, c)
        BY <2>3, <3>2, <3>3, TowardFacts DEF AllNodes
      <4>2. InSubtree(base, c)
        BY <1>0, <2>3, <4>1, SubtreeOrder
      <4>3. Leads(c, n)'
        BY <1>0, <3>1, <3>2, <4>1, <4>2 DEF Leads, InSubtree
      <4> QED
        BY <4>1, <4>3
    <3>4. CASE ~(m = reading /\ m # n /\ Toward(n, m) = c)
      <4>1. m # n /\ Toward(n, m) \notin iter[m].given => Toward(n, m) \notin iter'[m].given
        BY <3>1, <3>2, <3>4 DEF Typing, Iterators
      <4>2. Items' = Items
        BY <3>2 DEF Items
      <4>3. Active(m) => Active(m)'
        BY <1>0, <3>2 DEF Active, Iterator
      <4>4. Leads(m, n)'
        BY <1>0, <2>2, <3>2, <4>1, <4>2, <4>3, LeadsKept
      <4> QED
        BY <4>4
    <3> QED
      BY <3>3, <3>4
  <2>10. CASE Fetch
    <3>1. pc' = "next" => m # child
      <4>1. SUFFICES ASSUME pc' = "next", m = child PROVE FALSE
        OBVIOUS
      <4>2. InTree(child) /\ child \notin stored /\ child \in ChildrenOf(reading) /\ reading \in Entered
        BY <2>10, <4>1 DEF Fetch, ShapeInv, Busy, FoundInv, Reading
      <4>3. child # base
        BY <2>10 DEF OnceInv, Busy, Fetch
      <4>4. Len(child) >= KeyLevelNodes
        BY <4>2 DEF InTree
      <4> QED
        BY <2>3, <4>1, <4>2, <4>3, <4>4, ReachableFacts
    <3> QED
      BY <2>4, <2>10, <3>1 DEF Fetch, Busy, Reading
  <2>11. CASE Deliver
    <3>0. pc = "deliver" /\ child \in AllNodes /\ iter' = iter /\ child' = child
      BY <2>11 DEF Deliver, Typing
    <3>1. CASE mode = "queue"
      BY <2>1, <2>2, <2>11, <3>1, DeliverVisits, VisitCover DEF Deliver, Typing
    <3>2. CASE mode = "stack"
      <4>1. /\ list' = Append(list, Item(child)) /\ pc' = "next" /\ list \in Seq(Entries)
            /\ UNCHANGED <<frames, reading>>
        BY <2>11, <3>2 DEF Deliver, Typing
      <4>2. Items' = Items \cup {child}
        BY <3>0, <4>1, ItemsAppend DEF Items
      <4>3. Item(child) \in Entries
        BY <3>0 DEF Item, Entries
      <4>4. \A i \in DOMAIN list : i \in DOMAIN list' /\ list'[i] = list[i]
        BY <4>1, <4>3
      <4>5. Active(m) => Active(m)'
        BY <1>0, <3>0, <4>1, <4>4 DEF Active, Iterator, Reading
      <4>6. Leads(m, n)'
        BY <1>0, <2>2, <3>0, <4>1, <4>2, <4>5, LeadsKept
      <4> QED
        BY <4>6
    <3>3. CASE mode = "post"
      <4>1. frames' = Append(frames, child) /\ pc' = "next" /\ list' = list /\ frames \in Seq(AllNodes)
        BY <2>11, <3>3 DEF Deliver, Typing
      <4>2. ToSet(frames') = ToSet(frames) \cup {child}
        BY <3>0, <4>1, ToSetAppend
      <4>3. child \notin Entered
        <5>1. child \notin ToSet(frames) /\ \A i \in DOMAIN out : ~InSubtree(child, out[i])
          BY <3>0 DEF OnceInv, Busy
        <5>2. child \notin ToSet(out)
          BY <3>0, <5>1, SubtreeOrder DEF ToSet
        <5> QED
          BY <3>0, <3>3, <5>1, <5>2 DEF Entered
      <4>4. iter'[child].given = {}
        BY <3>0, <4>3 DEF FoundInv
      <4>5. Items' = Items
        BY <4>1 DEF Items
      <4>6. CASE m = child
        <5>1. Leads(m, n)'
          BY <1>0, <2>3, <4>2, <4>4, <4>6 DEF Leads, InSubtree, Toward
        <5> QED
          BY <5>1
      <4>7. CASE m # child
        <5>1. Active(m) => Active(m)'
          BY <1>0, <3>3, <4>1 DEF Active, Iterator
        <5>2. Leads(m, n)'
          BY <1>0, <2>2, <3>0, <4>2, <4>5, <4>7, <5>1, LeadsKept
        <5> QED
          BY <5>2
      <4> QED
        BY <4>6, <4>7
    <3> QED
      BY <3>1, <3>2, <3>3 DEF Typing
  <2>12. CASE Exhaust
    <3>1. /\ list # <<>> /\ list \in Seq(Entries) /\ list[1] = Iterator(reading) /\ pc = "next"
          /\ list' = Tail(list) /\ pc' = "pop" /\ UNCHANGED <<frames, iter, child>> /\ Done /\ mode = "queue"
      BY <2>12 DEF Exhaust, Done, ShapeInv, Reading, Typing
    <3>2. /\ list' \in Seq(Entries) /\ DOMAIN list = 1 .. Len(list) /\ DOMAIN list' = 1 .. Len(list')
          /\ \A i \in 1 .. Len(list) : i = 1 \/ (i - 1 \in 1 .. Len(list') /\ list'[i - 1] = list[i])
      BY <3>1
    <3>3. /\ \A x : x \in Items' <=> \E i \in 1 .. Len(list') : list'[i] = Item(x)
          /\ \A x : x \in Items <=> \E i \in 1 .. Len(list) : list[i] = Item(x)
      BY <3>1, <3>2, ItemsMember DEF Items
    <3>4. \A x : Item(x) # Iterator(reading)
      BY DEF Item, Iterator
    <3>5. m \in Items => m \in Items'
      BY <3>1, <3>2, <3>3, <3>4
    <3>6. m # n /\ Toward(n, m) \notin iter[m].given => m # reading
      BY <2>1, <2>3, <3>1, DoneGiven
    <3>7. Iterator(m) = Iterator(reading) => m = reading
      BY DEF Iterator
    <3>8. Active(m) /\ m # reading => Active(m)'
      BY <3>1, <3>2, <3>7 DEF Active, Iterator
    <3>9. ~Busy
      BY <3>1 DEF Busy
    <3>10. Leads(m, n)'
      BY <1>0, <2>2, <3>1, <3>5, <3>6, <3>8, <3>9, LeadsKept
    <3> QED
      BY <3>10
  <2>13. CASE Drained
    <3>1. Done /\ UNCHANGED <<list, frames, iter>> /\ pc = "next"
      BY <2>13 DEF Drained, Done
    <3>2. m # n /\ Toward(n, m) \notin iter[m].given => m # reading
      BY <2>1, <2>3, <3>1, DoneGiven
    <3> QED
      BY <2>4, <3>1, <3>2 DEF Busy
  <2>14. CASE Ascend
    <3>1. /\ pc = "next" /\ list = <<>> /\ mode = "post" /\ reading \in ToSet(frames)
          /\ ToSet(frames) = ToSet(frames') \cup {reading}
          /\ out' = (IF reading = <<>> THEN out ELSE Append(out, reading))
      BY <2>14, AscendFacts
    <3>2. Done /\ UNCHANGED <<list, iter>> /\ ~Busy
      BY <2>14 DEF Ascend, Done, Busy
    <3>3. m # n /\ Toward(n, m) \notin iter[m].given => m # reading
      BY <2>1, <2>3, <3>2, DoneGiven
    <3>4. CASE m = reading /\ m = n
      <4>1. ToSet(Append(out, reading)) = ToSet(out) \cup {reading}
        BY ToSetAppend DEF Typing
      <4> QED
        BY <2>3, <3>1, <3>4, <4>1
    <3>5. CASE m # reading
      <4>1. Items' = Items /\ ~Active(m)
        BY <3>1, <3>2 DEF Items, Active
      <4>2. Leads(m, n)'
        BY <1>0, <2>2, <3>1, <3>2, <3>5, <4>1, LeadsKept
      <4> QED
        BY <4>2
    <3>6. CASE m = reading /\ m # n
      <4>1. m \notin Items /\ ~Active(m)
        BY <3>1 DEF Items, ItemsOf, Active
      <4> QED
        BY <2>2, <3>2, <3>3, <3>6, <4>1 DEF Leads
    <3> QED
      BY <3>4, <3>5, <3>6
  <2>15. ~Throw
    BY DEF Throw
  <2> QED
    BY <1>3, <2>5, <2>6, <2>7, <2>8, <2>9, <2>10, <2>11, <2>12, <2>13, <2>14, <2>15 DEF Next, Step
<1> QED
  BY <1>1, <1>2, <1>3

-----------------------------------------------------------------------------
(* The order of a queue *)

\* The steps that change the list or the output.
LEMMA StepLists ==
  ASSUME [Next]_vars
  PROVE  UNCHANGED <<list, out>> \/ Start \/ PopItem \/ Deliver \/ Exhaust \/ Ascend
<1>1. CASE Register \/ Store \/ Ended \/ UNCHANGED vars
  BY <1>1 DEF Register, Store, Ended, vars
<1>2. CASE PopIterator \/ EndPre \/ Open \/ NextChild \/ Fetch \/ Drained \/ Throw
  BY <1>2 DEF PopIterator, EndPre, Open, NextChild, Fetch, Drained, Throw
<1> QED
  BY <1>1, <1>2 DEF Next, Step

\* Levels are numbers.
LEMMA LevelType ==
  ASSUME NEW e \in Entries
  PROVE  EntryLevel(e) \in Nat
<1>1. e.node \in AllNodes
  BY DEF Entries
<1>2. Len(e.node) \in Nat
  BY <1>1, NodeFacts
<1> QED
  BY <1>2 DEF EntryLevel

\* The levels of the entries when n is taken from a queue.
LEMMA TakenLevel ==
  ASSUME Typing, ShapeInv, LevelInv, mode = "queue", NEW n \in AllNodes, NEW l, Taken(n, l)
  PROVE  /\ \A i \in DOMAIN l : Len(n) <= EntryLevel(l[i]) /\ EntryLevel(l[i]) <= Len(n) + 1
         /\ \A i, j \in DOMAIN l : i < j => EntryLevel(l[i]) <= EntryLevel(l[j])
         /\ \A i \in DOMAIN out : Len(out[i]) <= Len(n)
<1>1. list \in Seq(Entries) /\ Len(list) \in Nat /\ DOMAIN list = 1 .. Len(list) /\ Len(n) \in Nat
  BY NodeFacts DEF Typing
<1>2. CASE Popping /\ list # <<>> /\ Entry = Item(n) /\ l = Rest
  <2>1. /\ l \in Seq(Entries) /\ Len(l) = Len(list) - 1 /\ list[1] = Item(n)
        /\ \A i \in 1 .. Len(l) : l[i] = list[i + 1]
    BY <1>2, RestFacts
  <2>2. DOMAIN l = 1 .. Len(l) /\ \A i \in 1 .. Len(l) : i + 1 \in DOMAIN list /\ 1 < i + 1
    BY <1>1, <2>1
  <2>3. 1 \in DOMAIN list /\ EntryLevel(list[1]) = Len(n)
    BY <1>1, <1>2, <2>1 DEF EntryLevel, Item
  <2>4. \A i \in DOMAIN l : Len(n) <= EntryLevel(l[i]) /\ EntryLevel(l[i]) <= Len(n) + 1
    BY <2>1, <2>2, <2>3 DEF LevelInv
  <2>5. ASSUME NEW i \in DOMAIN l, NEW j \in DOMAIN l, i < j
        PROVE  EntryLevel(l[i]) <= EntryLevel(l[j])
    <3>1. i + 1 \in DOMAIN list /\ j + 1 \in DOMAIN list /\ i + 1 < j + 1
      BY <2>2, <2>5
    <3> QED
      BY <2>1, <2>2, <3>1 DEF LevelInv
  <2>6. \A i \in DOMAIN out : Len(out[i]) <= Len(n)
    BY <2>3 DEF LevelInv
  <2> QED
    BY <2>4, <2>5, <2>6
<1>3. CASE pc = "deliver" /\ n = child /\ l = list
  <2>1. /\ list # <<>> /\ list[1] = Iterator(reading) /\ child \in ChildrenOf(reading) /\ reading \in AllNodes
    BY <1>3 DEF ShapeInv, Reading, Busy, Typing
  <2>2. Len(child) = Len(reading) + 1
    BY <2>1, ChildrenFacts
  <2>3. 1 \in DOMAIN list /\ EntryLevel(list[1]) = Len(n)
    BY <1>1, <1>3, <2>1, <2>2 DEF EntryLevel, Iterator
  <2>4. \A i \in DOMAIN list : EntryLevel(list[1]) <= EntryLevel(list[i])
    <3>1. \A i \in DOMAIN list : i = 1 \/ 1 < i
      BY <1>1
    <3> QED
      BY <1>1, <2>3, <3>1 DEF LevelInv
  <2> QED
    BY <1>3, <2>3, <2>4 DEF LevelInv
<1> QED
  BY <1>2, <1>3 DEF Taken

\* A visit of a queue yields at the level of the head and pushes one level below.
LEMMA VisitLevel ==
  ASSUME Typing, ShapeInv, LevelInv, BreadthOrder, mode = "queue",
         NEW n \in AllNodes, NEW l, NEW z \in Int, Taken(n, l), Visit(n, l, z)
  PROVE  LevelInv' /\ BreadthOrder'
<1>1. l \in Seq(Entries) /\ Len(l) \in Nat /\ DOMAIN l = 1 .. Len(l) /\ Len(n) \in Nat
  BY TakenEntries, NodeFacts
<1>2. /\ list' = l \o Pushed(n) /\ list' \in Seq(Entries)
      /\ out' = IF n = base THEN out ELSE Append(out, n)
  BY <1>1, VisitFacts
<1>3. Pushed(n) \in Seq(Entries) /\ Len(Pushed(n)) \in Nat
  BY PushedFacts
<1>4. /\ DOMAIN list' = 1 .. Len(list') /\ Len(list') = Len(l) + Len(Pushed(n))
      /\ \A i \in 1 .. Len(l) : list'[i] = l[i]
      /\ \A i \in 1 .. Len(list') :
           i \in 1 .. Len(l) \/ (i - Len(l) \in 1 .. Len(Pushed(n)) /\ list'[i] = Pushed(n)[i - Len(l)])
  BY <1>1, <1>2, <1>3, ConcatFacts
<1>5. \A i \in 1 .. Len(Pushed(n)) : EntryLevel(Pushed(n)[i]) = Len(n) + 1
  <2>1. \A c \in ChildrenOf(n) : EntryLevel(Item(c)) = Len(n) + 1
    BY ChildrenFacts DEF EntryLevel, Item
  <2>2. EntryLevel(Iterator(n)) = Len(n) + 1
    BY DEF EntryLevel, Iterator
  <2> QED
    BY <2>1, <2>2, PushedFacts
<1>6. /\ \A i \in 1 .. Len(l) : Len(n) <= EntryLevel(l[i]) /\ EntryLevel(l[i]) <= Len(n) + 1
      /\ \A i, j \in 1 .. Len(l) : i < j => EntryLevel(l[i]) <= EntryLevel(l[j])
      /\ \A i \in DOMAIN out : Len(out[i]) <= Len(n)
  BY <1>1, TakenLevel
<1>7. \A i \in 1 .. Len(list') :
        \/ i \in 1 .. Len(l) /\ EntryLevel(list'[i]) = EntryLevel(l[i])
        \/ i > Len(l) /\ EntryLevel(list'[i]) = Len(n) + 1
  <2> TAKE i \in 1 .. Len(list')
  <2>1. CASE i \in 1 .. Len(l)
    BY <1>4, <2>1
  <2>2. CASE i - Len(l) \in 1 .. Len(Pushed(n)) /\ list'[i] = Pushed(n)[i - Len(l)]
    <3>1. EntryLevel(list'[i]) = Len(n) + 1
      BY <1>5, <2>2
    <3>2. i > Len(l)
      BY <1>1, <1>3, <1>4, <2>2
    <3> QED
      BY <3>1, <3>2
  <2> QED
    BY <1>4, <2>1, <2>2
<1>8. \A i \in 1 .. Len(list') : Len(n) <= EntryLevel(list'[i]) /\ EntryLevel(list'[i]) <= Len(n) + 1
                                 /\ EntryLevel(list'[i]) \in Nat
  <2>1. \A i \in 1 .. Len(list') : EntryLevel(list'[i]) \in Nat
    BY <1>2, LevelType
  <2> QED
    BY <1>1, <1>6, <1>7, <2>1
<1>9. \A i, j \in 1 .. Len(list') : i < j => EntryLevel(list'[i]) <= EntryLevel(list'[j])
  <2> TAKE i, j \in 1 .. Len(list')
  <2> HAVE i < j
  <2>1. CASE j \in 1 .. Len(l) /\ EntryLevel(list'[j]) = EntryLevel(l[j])
    <3>1. i \in 1 .. Len(l) /\ EntryLevel(list'[i]) = EntryLevel(l[i])
      BY <1>1, <1>4, <2>1
    <3> QED
      BY <1>6, <2>1, <3>1
  <2>2. CASE EntryLevel(list'[j]) = Len(n) + 1
    BY <1>8, <2>2
  <2> QED
    BY <1>7, <2>1, <2>2
<1>10. \A j \in 1 .. Len(list') : EntryLevel(list'[j]) <= EntryLevel(list'[1]) + 1
  <2> TAKE j \in 1 .. Len(list')
  <2>1. 1 \in 1 .. Len(list')
    BY <1>4, <1>1, <1>3
  <2>2. /\ Len(n) <= EntryLevel(list'[1]) /\ EntryLevel(list'[1]) \in Nat
        /\ EntryLevel(list'[j]) <= Len(n) + 1 /\ EntryLevel(list'[j]) \in Nat
    BY <1>8, <2>1
  <2> QED
    BY <1>1, <2>2
<1>11. out \in Seq(AllNodes) /\ Len(out) \in Nat /\ DOMAIN out = 1 .. Len(out)
       /\ \A i \in DOMAIN out : Len(out[i]) \in Nat
  <2>1. out \in Seq(AllNodes)
    BY DEF Typing
  <2>2. Len(out) \in Nat /\ DOMAIN out = 1 .. Len(out) /\ \A i \in DOMAIN out : out[i] \in AllNodes
    BY <2>1
  <2> QED
    BY <2>1, <2>2, NodeFacts
<1>12. \A i \in DOMAIN out' : Len(out'[i]) <= Len(n) /\ Len(out'[i]) \in Nat
  <2>1. CASE n = base
    BY <1>2, <1>6, <1>11, <2>1
  <2>2. CASE n # base
    <3>1. out' = Append(out, n)
      BY <1>2, <2>2
    <3>2. \A i \in DOMAIN out' : (i \in DOMAIN out /\ out'[i] = out[i]) \/ out'[i] = n
      BY <1>11, <3>1, AppendFacts
    <3> QED
      BY <1>1, <1>6, <1>11, <3>2
  <2> QED
    BY <2>1, <2>2
<1>13. \A i, j \in DOMAIN out' : i < j => Len(out'[i]) <= Len(out'[j])
  <2>1. CASE n = base
    BY <1>2, <2>1 DEF BreadthOrder
  <2>2. CASE n # base
    <3>1. out' = Append(out, n)
      BY <1>2, <2>2
    <3>2. /\ DOMAIN out' = 1 .. Len(out) + 1 /\ out'[Len(out) + 1] = n
          /\ \A i \in 1 .. Len(out) : out'[i] = out[i]
          /\ \A i \in 1 .. Len(out) + 1 : i \in 1 .. Len(out) \/ i = Len(out) + 1
      BY <1>11, <3>1, AppendFacts
    <3> TAKE i, j \in DOMAIN out'
    <3> HAVE i < j
    <3>3. CASE j = Len(out) + 1
      BY <1>12, <3>2, <3>3
    <3>4. CASE j \in 1 .. Len(out)
      <4>1. i \in 1 .. Len(out)
        BY <1>11, <3>2, <3>4
      <4> QED
        BY <1>11, <3>2, <3>4, <4>1 DEF BreadthOrder
    <3> QED
      BY <3>2, <3>3, <3>4
  <2> QED
    BY <2>1, <2>2
<1>14. \A i \in DOMAIN out', j \in DOMAIN list' : Len(out'[i]) <= EntryLevel(list'[j])
  <2> TAKE i \in DOMAIN out', j \in DOMAIN list'
  <2>1. Len(out'[i]) <= Len(n) /\ Len(out'[i]) \in Nat
    BY <1>12
  <2>2. Len(n) <= EntryLevel(list'[j]) /\ EntryLevel(list'[j]) \in Nat
    BY <1>4, <1>8
  <2> QED
    BY <1>1, <2>1, <2>2
<1> QED
  BY <1>4, <1>9, <1>10, <1>13, <1>14 DEF LevelInv, BreadthOrder, EntryLevel

\* Every step keeps the levels of a queue in order.
LEMMA StepLevel ==
  ASSUME Typing, ShapeInv, LevelInv, BreadthOrder, [Next]_vars
  PROVE  LevelInv' /\ BreadthOrder'
<1>0. mode' = mode
  BY StepFrame
<1>1. CASE mode # "queue"
  BY <1>0, <1>1 DEF LevelInv, BreadthOrder
<1>2. CASE mode = "queue"
  <2>1. CASE UNCHANGED <<list, out>>
    BY <1>0, <2>1 DEF LevelInv, BreadthOrder, EntryLevel
  <2>2. CASE Start
    <3>1. list' = <<Item(base)>> /\ (out' = <<>> \/ out' = <<base>>)
      BY <1>2, <2>2 DEF Start
    <3>2. DOMAIN list' = 1 .. 1 /\ list'[1] = Item(base) /\ (DOMAIN out' = {} \/ DOMAIN out' = 1 .. 1)
          /\ \A i \in DOMAIN out' : out'[i] = base
      BY <3>1
    <3>3. EntryLevel(list'[1]) = Len(base) /\ Len(base) \in Nat
      BY <3>2, NodeFacts DEF EntryLevel, Item, Typing
    <3> QED
      BY <3>2, <3>3 DEF LevelInv, BreadthOrder, EntryLevel
  <2>3. CASE PopItem
    <3>1. /\ Entry.node \in AllNodes
          /\ Taken(Entry.node, Rest) /\ Visit(Entry.node, Rest, size - 1) /\ size - 1 \in Int
      BY <2>3, PopItemVisits DEF Typing
    <3> QED
      BY <1>2, <3>1, VisitLevel
  <2>4. CASE Deliver
    BY <1>2, <2>4, DeliverVisits, VisitLevel DEF Typing
  <2>5. CASE Exhaust
    <3>1. list # <<>> /\ list \in Seq(Entries) /\ list' = Tail(list) /\ out' = out
      BY <2>5 DEF Exhaust, Done, ShapeInv, Reading, Typing
    <3>2. /\ Len(list) \in Nat /\ DOMAIN list = 1 .. Len(list) /\ DOMAIN list' = 1 .. Len(list) - 1
          /\ \A i \in DOMAIN list' : i + 1 \in DOMAIN list /\ list'[i] = list[i + 1]
          /\ 1 \in DOMAIN list /\ list' \in Seq(Entries)
      BY <3>1
    <3>3. \A i \in DOMAIN list : EntryLevel(list[i]) \in Nat
      BY <3>1, LevelType
    <3>4. ASSUME NEW i \in DOMAIN list', NEW j \in DOMAIN list', i < j
          PROVE  EntryLevel(list'[i]) <= EntryLevel(list'[j])
      <4>1. i + 1 \in DOMAIN list /\ j + 1 \in DOMAIN list /\ i + 1 < j + 1
        BY <3>2, <3>4
      <4> QED
        BY <1>2, <3>2, <4>1 DEF LevelInv
    <3>5. ASSUME NEW j \in DOMAIN list' PROVE EntryLevel(list'[j]) <= EntryLevel(list'[1]) + 1
      <4>1. 1 \in DOMAIN list' /\ j + 1 \in DOMAIN list /\ 2 \in DOMAIN list /\ list'[1] = list[2]
            /\ list'[j] = list[j + 1]
        BY <3>2, <3>5
      <4>2. EntryLevel(list[1]) <= EntryLevel(list[2]) /\ EntryLevel(list[j + 1]) <= EntryLevel(list[1]) + 1
        BY <1>2, <3>2, <4>1 DEF LevelInv
      <4>3. EntryLevel(list[1]) \in Nat /\ EntryLevel(list[2]) \in Nat /\ EntryLevel(list[j + 1]) \in Nat
        BY <3>2, <3>3, <4>1
      <4> QED
        BY <4>1, <4>2, <4>3
    <3>6. \A i \in DOMAIN out', j \in DOMAIN list' : Len(out'[i]) <= EntryLevel(list'[j])
      BY <1>2, <3>1, <3>2 DEF LevelInv
    <3> QED
      BY <1>0, <1>2, <3>1, <3>4, <3>5, <3>6 DEF LevelInv, BreadthOrder, EntryLevel
  <2>6. ~Ascend
    BY <1>2 DEF Ascend
  <2> QED
    BY <2>1, <2>2, <2>3, <2>4, <2>5, <2>6, StepLists
<1> QED
  BY <1>1, <1>2

-----------------------------------------------------------------------------
(* The order of a stack and of the recursion *)

\* What is yielded keeps unbroken the subtrees that it belongs to.
LEMMA UnbrokenAppend ==
  ASSUME Typing, NEW x \in AllNodes, out' = Append(out, x), NEW n, Unbroken(n), InSubtree(n, x)
  PROVE  Unbroken(n)'
<1>1. /\ DOMAIN out' = 1 .. Len(out) + 1 /\ DOMAIN out = 1 .. Len(out) /\ out'[Len(out) + 1] = x
      /\ \A i \in 1 .. Len(out) : out'[i] = out[i]
      /\ \A i \in 1 .. Len(out) + 1 : i \in 1 .. Len(out) \/ i = Len(out) + 1
      /\ Len(out) \in Nat
  BY AppendFacts DEF Typing
<1>2. ASSUME NEW i \in DOMAIN out', NEW j \in DOMAIN out', i < j, InSubtree(n, out'[i])
      PROVE  InSubtree(n, out'[j])
  <2>1. CASE j = Len(out) + 1
    BY <1>1, <2>1
  <2>2. CASE j \in 1 .. Len(out)
    <3>1. i \in 1 .. Len(out)
      BY <1>1, <1>2, <2>2
    <3> QED
      BY <1>1, <1>2, <2>2, <3>1 DEF Unbroken
  <2> QED
    BY <1>1, <2>1, <2>2
<1> QED
  BY <1>2 DEF Unbroken, InSubtree

\* A node may be yielded if the subtrees it is in were not left.
LEMMA DepthAppend ==
  ASSUME Typing, DepthOrder, mode' = mode, NEW x \in AllNodes, out' = Append(out, x),
         \A n \in AllNodes : InSubtree(n, x) => Unbroken(n)
  PROVE  DepthOrder'
<1>1. /\ DOMAIN out' = 1 .. Len(out) + 1 /\ DOMAIN out = 1 .. Len(out) /\ out'[Len(out) + 1] = x
      /\ \A i \in 1 .. Len(out) : out'[i] = out[i]
      /\ \A i \in 1 .. Len(out) + 1 : i \in 1 .. Len(out) \/ i = Len(out) + 1
      /\ Len(out) \in Nat
  BY AppendFacts DEF Typing
<1>2. ASSUME mode \in {"stack", "post"}, NEW i \in DOMAIN out', NEW j \in DOMAIN out', NEW k \in DOMAIN out',
             NEW n \in Universe, i < j, j < k, InSubtree(n, out'[i]), InSubtree(n, out'[k])
      PROVE  InSubtree(n, out'[j])
  <2>1. i \in 1 .. Len(out) /\ j \in 1 .. Len(out)
    BY <1>1, <1>2
  <2>2. out'[i] = out[i] /\ out'[j] = out[j]
    BY <1>1, <2>1
  <2>3. CASE k = Len(out) + 1
    BY <1>1, <1>2, <2>1, <2>2, <2>3 DEF Unbroken, AllNodes
  <2>4. CASE k \in 1 .. Len(out)
    BY <1>1, <1>2, <2>1, <2>2, <2>4 DEF DepthOrder
  <2> QED
    BY <1>1, <2>3, <2>4
<1> QED
  BY <1>2 DEF DepthOrder, InSubtree

\* A node may be yielded if nothing below it was, in post order nothing above it.
LEMMA AncestorAppend ==
  ASSUME Typing, AncestorOrder, mode' = mode, NEW x \in AllNodes, out' = Append(out, x),
         IF mode = "post" THEN \A i \in DOMAIN out : InSubtree(out[i], x) => out[i] = x
         ELSE \A i \in DOMAIN out : InSubtree(x, out[i]) => out[i] = x
  PROVE  AncestorOrder'
<1>1. /\ DOMAIN out' = 1 .. Len(out) + 1 /\ DOMAIN out = 1 .. Len(out) /\ out'[Len(out) + 1] = x
      /\ \A i \in 1 .. Len(out) : out'[i] = out[i]
      /\ \A i \in 1 .. Len(out) + 1 : i \in 1 .. Len(out) \/ i = Len(out) + 1
      /\ Len(out) \in Nat
  BY AppendFacts DEF Typing
<1>2. ASSUME NEW i \in DOMAIN out', NEW j \in DOMAIN out', out'[i] # out'[j], InSubtree(out'[i], out'[j])
      PROVE  IF mode = "post" THEN j < i ELSE i < j
  <2>1. CASE i \in 1 .. Len(out) /\ j \in 1 .. Len(out)
    BY <1>1, <1>2, <2>1 DEF AncestorOrder
  <2>2. CASE i = Len(out) + 1 /\ j \in 1 .. Len(out)
    BY <1>1, <1>2, <2>2
  <2>3. CASE i \in 1 .. Len(out) /\ j = Len(out) + 1
    BY <1>1, <1>2, <2>3
  <2>4. CASE i = Len(out) + 1 /\ j = Len(out) + 1
    BY <1>2, <2>4
  <2> QED
    BY <1>1, <2>1, <2>2, <2>3, <2>4
<1> QED
  BY <1>2 DEF AncestorOrder, InSubtree

\* The output after a visit in pre order.
LEMMA VisitAncestor ==
  ASSUME Typing, ShapeInv, FoundInv, OnceInv, AncestorOrder, mode # "post", mode' = mode,
         NEW n \in AllNodes, NEW l, NEW z \in Int, Taken(n, l), Visit(n, l, z)
  PROVE  AncestorOrder'
<1>1. InSubtree(base, n) /\ n \notin Entered
  BY TakenFresh
<1>2. \A i \in DOMAIN out : InSubtree(n, out[i]) => out[i] = n
  BY <1>1, FoundFacts DEF Found, ToSet
<1>3. CASE n = base
  BY <1>3 DEF Visit, AncestorOrder, InSubtree
<1>4. CASE n # base
  <2>1. out' = Append(out, n)
    BY <1>4 DEF Visit
  <2> QED
    BY <1>2, <2>1, AncestorAppend
<1> QED
  BY <1>3, <1>4

\* A recursive call yields its node before those of the calls around it.
LEMMA AscendAncestor ==
  ASSUME Typing, ShapeInv, FoundInv, OnceInv, FrameInv, AncestorOrder, mode' = mode, Ascend
  PROVE  AncestorOrder'
<1>1. /\ mode = "post" /\ frames # <<>> /\ reading = frames[Len(frames)] /\ Len(frames) \in 1 .. Len(frames)
      /\ out' = IF reading = <<>> THEN out ELSE Append(out, reading)
  BY AscendFacts
<1>2. reading \in AllNodes /\ base \in AllNodes /\ frames \in Seq(AllNodes) /\ DOMAIN frames = 1 .. Len(frames)
      /\ DOMAIN out = 1 .. Len(out) /\ out \in Seq(AllNodes)
  BY DEF Typing
<1>3. ASSUME NEW i \in DOMAIN out, InSubtree(out[i], reading), out[i] # reading PROVE FALSE
  <2>1. out[i] \in Found /\ out[i] \in AllNodes /\ out[i] \in ToSet(out)
    BY <1>2 DEF Found, ToSet
  <2>2. InSubtree(base, out[i])
    BY <2>1, FoundFacts
  <2>3. Len(base) \in Nat /\ Len(out[i]) \in Nat /\ Len(reading) \in Nat /\ Len(base) <= Len(out[i])
        /\ Len(out[i]) <= Len(reading)
    BY <1>2, <1>3, <2>1, <2>2, SubtreeOrder, NodeFacts
  <2>4. /\ \A k \in 1 .. Len(frames) : Len(frames[k]) = Len(base) + k - 1
        /\ \A k, m \in 1 .. Len(frames) : k <= m => InSubtree(frames[k], frames[m])
    BY <1>1, <1>2 DEF FrameInv
  <2>5. /\ Len(frames) \in Nat
        /\ Len(reading) = Len(base) + Len(frames) - 1
    BY <1>1, <1>2, <2>4
  <2>6. PICK k \in 1 .. Len(frames) : k = Len(out[i]) - Len(base) + 1
    <3>1. Len(out[i]) - Len(base) + 1 \in 1 .. Len(frames)
      BY <2>3, <2>5
    <3> QED
      BY <3>1
  <2>11. /\ frames[k] \in AllNodes /\ Len(frames[k]) = Len(base) + k - 1
    BY <1>2, <2>4
  <2>12. InSubtree(frames[k], reading)
    <3>1. k <= Len(frames)
      BY <2>5
    <3> QED
      BY <1>1, <2>4, <3>1
  <2>7. Len(frames[k]) = Len(out[i])
    BY <2>3, <2>6, <2>11
  <2>8. frames[k] = out[i]
    <3>1. InSubtree(frames[k], out[i])
      BY <1>2, <1>3, <2>1, <2>3, <2>11, <2>12, <2>7, SubtreeOrder
    <3> QED
      BY <2>1, <2>3, <2>11, <2>7, <3>1, SubtreeOrder
  <2>9. out[i] \in ToSet(frames)
    BY <1>2, <2>8 DEF ToSet
  <2> QED
    BY <2>1, <2>9 DEF OnceInv
<1>4. CASE reading = <<>>
  BY <1>1, <1>4 DEF AncestorOrder, InSubtree
<1>5. CASE reading # <<>>
  <2>1. out' = Append(out, reading)
    BY <1>1, <1>5
  <2> QED
    BY <1>1, <1>2, <1>3, <2>1, AncestorAppend
<1> QED
  BY <1>4, <1>5

\* Every step keeps ancestors and descendants in order.
LEMMA StepAncestor ==
  ASSUME Typing, ShapeInv, FoundInv, OnceInv, FrameInv, AncestorOrder, [Next]_vars
  PROVE  AncestorOrder'
<1>0. mode' = mode
  BY StepFrame
<1>1. CASE out' = out
  BY <1>0, <1>1 DEF AncestorOrder, InSubtree
<1>2. CASE Start
  <2>1. out' = out \/ out' = <<>> \/ out' = <<base>>
    BY <1>2 DEF Start
  <2>2. CASE out' = <<>> \/ out' = <<base>>
    <3>1. \A i, j \in DOMAIN out' : out'[i] = out'[j]
      BY <2>2
    <3> QED
      BY <3>1 DEF AncestorOrder
  <2> QED
    BY <1>1, <2>1, <2>2
<1>3. CASE PopItem
  <2>1. /\ mode # "post" /\ Entry.node \in AllNodes
        /\ Taken(Entry.node, Rest) /\ Visit(Entry.node, Rest, size - 1) /\ size - 1 \in Int
    BY <1>3, PopItemVisits DEF Typing
  <2> QED
    BY <1>0, <2>1, VisitAncestor
<1>4. CASE Deliver
  <2>1. CASE mode = "queue"
    BY <1>0, <1>4, <2>1, DeliverVisits, VisitAncestor DEF Typing
  <2>2. CASE mode # "queue"
    BY <1>1, <1>4, <2>2 DEF Deliver, Typing
  <2> QED
    BY <2>1, <2>2
<1>5. CASE Exhaust
  BY <1>1, <1>5 DEF Exhaust
<1>6. CASE Ascend
  BY <1>0, <1>6, AscendAncestor
<1> QED
  BY <1>1, <1>2, <1>3, <1>4, <1>5, <1>6, StepLists

\* The steps of the recursion that change the calls or the output.
LEMMA StepCalls ==
  ASSUME Typing, ShapeInv, mode = "post", [Next]_vars
  PROVE  UNCHANGED <<frames, out>> \/ Start \/ Deliver \/ Ascend
<1>1. CASE Register \/ Store \/ Ended \/ UNCHANGED vars
  BY <1>1 DEF Register, Store, Ended, vars
<1>2. CASE PopIterator \/ EndPre \/ Open \/ NextChild \/ Fetch \/ Drained \/ Throw \/ Exhaust
  BY <1>2 DEF PopIterator, EndPre, Open, NextChild, Fetch, Drained, Throw, Exhaust
<1>3. ~PopItem
  BY PopItemVisits
<1> QED
  BY <1>1, <1>2, <1>3 DEF Next, Step

\* A call for a child of the innermost call's node.
LEMMA DeliverFrame ==
  ASSUME Typing, ShapeInv, FoundInv, OnceInv, FrameInv, mode = "post", base' = base, Deliver
  PROVE  FrameInv'
<1> DEFINE k == Len(frames)
<1>1. /\ frames' = Append(frames, child) /\ out' = out /\ pc = "deliver"
  BY DEF Deliver
<1>2. /\ frames # <<>> /\ frames[k] = reading /\ child \in ChildrenOf(reading)
      /\ reading \in AllNodes /\ child \in AllNodes /\ base \in AllNodes /\ frames \in Seq(AllNodes)
  BY <1>1 DEF ShapeInv, Reading, Busy, Typing
<1>3. /\ k \in 1 .. k /\ k \in Nat /\ DOMAIN frames = 1 .. k /\ DOMAIN frames' = 1 .. k + 1
      /\ frames'[k + 1] = child
      /\ \A i \in 1 .. k : frames'[i] = frames[i] /\ frames[i] \in AllNodes
      /\ \A i \in 1 .. k + 1 : i \in 1 .. k \/ i = k + 1
  BY <1>1, <1>2, AppendFacts
<1>4. /\ \A i, j \in 1 .. k : i <= j => InSubtree(frames[i], frames[j])
      /\ \A i \in 1 .. k : Len(frames[i]) = Len(base) + i - 1 /\ InSubtree(base, frames[i])
      /\ \A i \in 1 .. k : \A n \in AllNodes : InSubtree(n, frames[i]) => Unbroken(n)
  BY <1>3 DEF FrameInv
<1>5. /\ Len(child) = Len(reading) + 1 /\ InSubtree(reading, child)
      /\ \A m \in AllNodes : InSubtree(m, child) /\ m # child => InSubtree(m, reading)
  BY <1>2, ChildrenFacts, ChildFacts
<1>6. \A n : Unbroken(n) => Unbroken(n)'
  BY <1>1 DEF Unbroken, InSubtree
<1>7. Unbroken(child)
  BY <1>1 DEF Unbroken, OnceInv, Busy
<1>8. ASSUME NEW i \in 1 .. k
      PROVE  InSubtree(frames[i], child)
  <2>1. InSubtree(frames[i], reading)
    <3>1. i <= k
      BY <1>3
    <3> QED
      BY <1>2, <1>3, <1>4, <3>1
  <2> QED
    BY <1>2, <1>3, <1>5, <2>1, SubtreeOrder
<1>9. \A i, j \in 1 .. k + 1 : i <= j => InSubtree(frames'[i], frames'[j])
  <2>1. SUFFICES ASSUME NEW i \in 1 .. k + 1, NEW j \in 1 .. k + 1, i <= j
                 PROVE  InSubtree(frames'[i], frames'[j])
    OBVIOUS
  <2>2. CASE j = k + 1 /\ i = k + 1
    BY <1>2, <1>3, <2>2, SubtreeOrder
  <2>3. CASE j = k + 1 /\ i \in 1 .. k
    BY <1>3, <1>8, <2>3
  <2>4. CASE j \in 1 .. k
    <3>1. i \in 1 .. k
      BY <1>3, <2>1, <2>4
    <3> QED
      BY <1>3, <1>4, <2>1, <2>4, <3>1
  <2> QED
    BY <1>3, <2>2, <2>3, <2>4
<1>10. ASSUME NEW i \in 1 .. k + 1
       PROVE  Len(frames'[i]) = Len(base) + i - 1 /\ InSubtree(base, frames'[i])
  <2>1. CASE i \in 1 .. k
    BY <1>3, <1>4, <2>1
  <2>2. CASE i = k + 1
    <3>1. Len(reading) = Len(base) + k - 1 /\ InSubtree(base, reading)
      BY <1>2, <1>3, <1>4
    <3>2. Len(base) \in Nat
      BY <1>2, NodeFacts
    <3>3. Len(child) = Len(base) + (k + 1) - 1
      BY <1>3, <1>5, <3>1, <3>2
    <3>4. InSubtree(base, child)
      BY <1>2, <1>5, <3>1, SubtreeOrder
    <3> QED
      BY <1>3, <2>2, <3>3, <3>4
  <2> QED
    BY <1>3, <2>1, <2>2
<1>11. ASSUME NEW i \in 1 .. k + 1, NEW n \in AllNodes, InSubtree(n, frames'[i])
       PROVE  Unbroken(n)'
  <2>1. CASE i \in 1 .. k
    BY <1>3, <1>4, <1>6, <1>11, <2>1
  <2>2. CASE i = k + 1 /\ n = child
    BY <1>6, <1>7, <2>2
  <2>3. CASE i = k + 1 /\ n # child
    BY <1>2, <1>3, <1>4, <1>5, <1>6, <1>11, <2>3
  <2> QED
    BY <1>3, <2>1, <2>2, <2>3
<1> HIDE DEF k
<1>12. DOMAIN frames' = 1 .. k + 1
  BY <1>3
<1> QED
  BY <1>9, <1>10, <1>11, <1>12 DEF FrameInv, InSubtree

\* The innermost call returns: its node is in the subtrees of all the others.
LEMMA AscendFrame ==
  ASSUME Typing, ShapeInv, FrameInv, base' = base, Ascend
  PROVE  FrameInv'
<1> DEFINE k == Len(frames)
<1>1. /\ mode = "post" /\ frames # <<>> /\ reading = frames[k] /\ k \in 1 .. k
      /\ frames' \in Seq(AllNodes) /\ Len(frames') = k - 1
      /\ \A i \in 1 .. k - 1 : frames'[i] = frames[i]
      /\ out' = IF reading = <<>> THEN out ELSE Append(out, reading)
  BY AscendFacts
<1>2. /\ reading \in AllNodes /\ base \in AllNodes /\ frames \in Seq(AllNodes)
      /\ DOMAIN frames = 1 .. k /\ DOMAIN frames' = 1 .. k - 1 /\ k \in Nat
      /\ \A i \in 1 .. k : frames[i] \in AllNodes
  BY <1>1 DEF Typing
<1> HIDE DEF k
<1>3. /\ \A i, j \in 1 .. k : i <= j => InSubtree(frames[i], frames[j])
      /\ \A i \in 1 .. k : Len(frames[i]) = Len(base) + i - 1 /\ InSubtree(base, frames[i])
      /\ \A i \in 1 .. k : \A n \in AllNodes : InSubtree(n, frames[i]) => Unbroken(n)
  BY <1>1, <1>2 DEF FrameInv
<1>4. \A i \in 1 .. k - 1 : i \in 1 .. k /\ i <= k
  BY <1>2
<1>5. ASSUME NEW i \in 1 .. k - 1, NEW n \in AllNodes, InSubtree(n, frames'[i])
      PROVE  Unbroken(n)'
  <2>1. Unbroken(n) /\ InSubtree(n, frames[i]) /\ InSubtree(frames[i], reading) /\ frames[i] \in AllNodes
    BY <1>1, <1>2, <1>3, <1>4, <1>5
  <2>2. InSubtree(n, reading)
    BY <1>2, <2>1, SubtreeOrder
  <2>3. CASE reading = <<>>
    BY <1>1, <2>1, <2>3 DEF Unbroken, InSubtree
  <2>4. CASE reading # <<>>
    BY <1>1, <1>2, <2>1, <2>2, <2>4, UnbrokenAppend
  <2> QED
    BY <2>3, <2>4
<1>6. \A i, j \in 1 .. k - 1 : i <= j => InSubtree(frames'[i], frames'[j])
  BY <1>1, <1>3, <1>4
<1>7. \A i \in 1 .. k - 1 : Len(frames'[i]) = Len(base) + i - 1 /\ InSubtree(base, frames'[i])
  BY <1>1, <1>3, <1>4
<1> QED
  BY <1>2, <1>5, <1>6, <1>7 DEF FrameInv, InSubtree

\* Every step keeps the calls on one way down from the base.
LEMMA StepFrames ==
  ASSUME Typing, ShapeInv, FoundInv, OnceInv, FrameInv, [Next]_vars
  PROVE  FrameInv'
<1>0. mode' = mode /\ base' = base
  BY StepFrame
<1>1. CASE mode # "post"
  BY <1>0, <1>1 DEF FrameInv
<1>2. CASE mode = "post" /\ UNCHANGED <<frames, out>>
  BY <1>0, <1>2 DEF FrameInv, Unbroken, InSubtree
<1>3. CASE mode = "post" /\ Start
  <2>1. out' = <<>> /\ frames' = <<base>>
    BY <1>3 DEF Start, ShapeInv
  <2>2. \A n : Unbroken(n)'
    <3>1. \A i \in DOMAIN out' : FALSE
      BY <2>1
    <3> QED
      BY <3>1 DEF Unbroken
  <2>3. DOMAIN frames' = {1} /\ frames'[1] = base
    BY <2>1
  <2>4. base \in AllNodes /\ Len(base) \in Nat /\ InSubtree(base, base)
    BY NodeFacts, SubtreeOrder DEF Typing
  <2>5. \A i, j \in DOMAIN frames' : InSubtree(frames'[i], frames'[j])
    BY <2>3, <2>4
  <2>6. \A i \in DOMAIN frames' : Len(frames'[i]) = Len(base) + i - 1 /\ InSubtree(base, frames'[i])
    BY <2>3, <2>4
  <2> QED
    BY <1>0, <2>2, <2>5, <2>6 DEF FrameInv, InSubtree
<1> QED
  BY <1>0, <1>1, <1>2, <1>3, StepCalls, DeliverFrame, AscendFrame

\* The parent of any node; that of the root is the root.
LEMMA FrontNode ==
  ASSUME NEW n \in AllNodes
  PROVE  Front(n) \in AllNodes /\ InSubtree(Front(n), n)
<1>1. CASE Len(n) > 0
  BY <1>1, ParentFacts
<1>2. CASE ~(Len(n) > 0)
  <2>1. n = <<>>
    BY <1>2, NodeFacts DEF AllNodes
  <2>2. Front(n) = <<>>
    BY <2>1 DEF Front
  <2> QED
    BY <2>1, <2>2, SubtreeOrder
<1> QED
  BY <1>1, <1>2

\* The steps with a stack that change the list, the output or what is read.
LEMMA StepStack ==
  ASSUME Typing, ShapeInv, mode = "stack", [Next]_vars
  PROVE  \/ Start \/ PopItem \/ Deliver
         \/ UNCHANGED <<list, out>> /\ (Reading' => Reading /\ reading' = reading)
<1>1. CASE Register \/ Store \/ Ended \/ UNCHANGED vars
  BY <1>1 DEF Register, Store, Ended, vars, Reading
<1>2. CASE EndPre \/ Open \/ NextChild \/ Fetch \/ Drained \/ Throw
  BY <1>2 DEF EndPre, Open, NextChild, Fetch, Drained, Throw, Reading, Done
<1>3. CASE PopIterator
  <2>1. list # <<>> /\ Entry.type = "iterator"
    BY <1>3 DEF PopIterator
  <2>2. Entry = list[Len(list)] /\ Len(list) \in DOMAIN list
    BY <2>1, RestFacts DEF Typing
  <2> QED
    BY <2>1, <2>2 DEF ShapeInv
<1> QED
  BY <1>1, <1>2, <1>3 DEF Next, Step, Exhaust, Ascend

\* pop() of a node n: the subtrees that n belongs to are unbroken when n is
\* yielded, and so are those of the entries that are left.
LEMMA StackVisit ==
  ASSUME Typing, ShapeInv, FoundInv, OnceInv, StackInv, mode = "stack", mode' = mode, PopItem
  PROVE  StackInv'
<1> DEFINE n == Entry.node
           L == Len(Rest)
           P == Pushed(n)
<1>1. /\ list # <<>> /\ n \in AllNodes /\ Taken(n, Rest) /\ Visit(n, Rest, size - 1)
      /\ size - 1 \in Int /\ list \in Seq(Entries) /\ base \in AllNodes
  BY PopItemVisits DEF Typing
<1>2. /\ Rest \in Seq(Entries) /\ Len(list) = L + 1 /\ L \in Nat /\ n = list[L + 1].node
      /\ \A i \in 1 .. L : Rest[i] = list[i]
      /\ DOMAIN list = 1 .. L + 1
  BY <1>1, RestFacts
<1>3. /\ list' = Rest \o P /\ list' \in Seq(Entries) /\ P \in Seq(Entries)
      /\ out' = (IF n = base THEN out ELSE Append(out, n)) /\ reading' = n
      /\ pc' = IF ~InTree(n) THEN "next" ELSE "loop"
  BY <1>1, <1>2, VisitFacts, PushedFacts
<1>4. /\ InTree(n) => \A i \in 1 .. Len(P) : \E c \in ChildrenOf(n) : P[i] = Item(c)
      /\ ~InTree(n) => Len(P) = 0
  <2>1. ~InTree(n) => \A i \in 1 .. Len(P) : mode = "queue"
    BY <1>1, PushedFacts
  <2>2. Len(P) \in Nat
    BY <1>3
  <2>3. InTree(n) => \A i \in 1 .. Len(P) : \E c \in ChildrenOf(n) : P[i] = Item(c)
    BY <1>1, PushedFacts
  <2> QED
    BY <2>1, <2>2, <2>3
<1> HIDE DEF n, L, P
<1>5. /\ DOMAIN list' = 1 .. L + Len(P) /\ Len(P) \in Nat
      /\ \A i \in 1 .. L : list'[i] = list[i] /\ i \in DOMAIN list /\ i < L + 1
      /\ \A i \in 1 .. L + Len(P) : i \notin 1 .. L => i > L /\ \E k \in 1 .. Len(P) : list'[i] = P[k]
  <2>1. Rest \in Seq(Entries) /\ P \in Seq(Entries) /\ L = Len(Rest)
    BY <1>2, <1>3 DEF L
  <2>2. /\ Len(list') = L + Len(P)
        /\ \A i \in 1 .. L : list'[i] = Rest[i]
        /\ \A i \in 1 .. L + Len(P) :
             i \notin 1 .. L => i - L \in 1 .. Len(P) /\ list'[i] = P[i - L]
    BY <1>3, <2>1, ConcatFacts
  <2>3. Len(P) \in Nat /\ DOMAIN list' = 1 .. Len(list')
    BY <1>3
  <2>4. \A i \in 1 .. L + Len(P) : i \notin 1 .. L => i > L
    BY <1>2, <2>3
  <2>5. \A i \in 1 .. L : i \in DOMAIN list /\ i < L + 1
    BY <1>2
  <2>6. DOMAIN list' = 1 .. L + Len(P)
    BY <2>2, <2>3
  <2>7. \A i \in 1 .. L : list'[i] = list[i]
    BY <1>2, <2>2
  <2>8. \A i \in 1 .. L + Len(P) : i \notin 1 .. L => \E k \in 1 .. Len(P) : list'[i] = P[k]
    BY <2>2
  <2> QED
    BY <2>3, <2>4, <2>5, <2>6, <2>7, <2>8
<1>6. /\ \A i \in 1 .. L : list[i].node \in AllNodes /\ InSubtree(Front(list[i].node), n)
      /\ \A i, j \in 1 .. L : i < j => InSubtree(Front(list[i].node), list[j].node)
      /\ \A i \in 1 .. L + 1 : \A m \in AllNodes : InSubtree(m, list[i].node) /\ m # list[i].node => Unbroken(m)
  <2>1. \A i \in 1 .. L + 1 : list[i].node \in AllNodes
    <3>1. \A i \in DOMAIN list : list[i] \in Entries
      BY <1>1
    <3> QED
      BY <1>2, <3>1 DEF Entries
  <2>2. L + 1 \in DOMAIN list /\ \A i \in 1 .. L : i < L + 1 /\ i \in DOMAIN list /\ i \in 1 .. L + 1
    BY <1>2
  <2> QED
    BY <1>2, <2>1, <2>2 DEF StackInv
<1>7. \A i \in DOMAIN out : InSubtree(base, out[i]) /\ (InSubtree(n, out[i]) => n = base)
  <2>1. InSubtree(base, n) /\ n \notin Entered /\ (n \in ToSet(out) => n = base)
    BY <1>1, TakenFresh
  <2>2. \A i \in DOMAIN out : out[i] \in ToSet(out) /\ out[i] \in Found
    BY DEF ToSet, Found
  <2> QED
    BY <1>1, <2>1, <2>2, FoundFacts
<1>8. ASSUME NEW m \in AllNodes, InSubtree(m, n) PROVE Unbroken(m)'
  <2>1. CASE n = base
    <3>1. out' = out
      BY <1>3, <2>1
    <3>2. Unbroken(m)
      <4>1. \A i \in DOMAIN out : out[i] \in AllNodes
        BY DEF Typing
      <4>2. \A i \in DOMAIN out : InSubtree(m, out[i])
        BY <1>1, <1>7, <1>8, <2>1, <4>1, SubtreeOrder
      <4> QED
        BY <4>2 DEF Unbroken
    <3> QED
      BY <3>1, <3>2 DEF Unbroken, InSubtree
  <2>2. CASE n # base
    <3>1. out' = Append(out, n)
      BY <1>3, <2>2
    <3>2. Unbroken(m)
      <4>1. CASE m = n
        BY <1>7, <2>2, <4>1 DEF Unbroken
      <4>2. CASE m # n
        BY <1>2, <1>6, <1>8, <4>2
      <4> QED
        BY <4>1, <4>2
    <3> QED
      BY <1>1, <1>8, <3>1, <3>2, UnbrokenAppend
  <2> QED
    BY <2>1, <2>2
<1>9. ASSUME NEW i \in 1 .. L, NEW m \in AllNodes, InSubtree(m, list[i].node), m # list[i].node
      PROVE  Unbroken(m)'
  <2> DEFINE x == list[i].node
  <2>1. x \in AllNodes /\ Front(x) \in AllNodes /\ InSubtree(Front(x), n)
    BY <1>6, FrontNode
  <2> HIDE DEF x
  <2>2. Len(x) > 0
    <3>1. InSubtree(m, x) /\ m # x
      BY <1>9 DEF x
    <3> QED
      BY <2>1, <3>1, SubtreeOrder, NodeFacts
  <2>3. InSubtree(m, Front(x))
    BY <1>9, <2>1, <2>2, ParentFacts DEF x
  <2>4. InSubtree(m, n)
    BY <1>1, <2>1, <2>3, SubtreeOrder
  <2> QED
    BY <1>8, <2>4
<1>10. ASSUME NEW i \in 1 .. L + Len(P), i \notin 1 .. L
       PROVE  /\ i > L /\ InTree(n) /\ list'[i].node \in AllNodes /\ Front(list'[i].node) = n
              /\ InSubtree(n, list'[i].node)
              /\ \A m \in AllNodes : InSubtree(m, list'[i].node) /\ m # list'[i].node => InSubtree(m, n)
  <2>1. PICK k \in 1 .. Len(P) : list'[i] = P[k]
    BY <1>5, <1>10
  <2>2. InTree(n)
    BY <1>4, <2>1
  <2>3. PICK c \in ChildrenOf(n) : P[k] = Item(c)
    BY <1>4, <2>2
  <2>4. list'[i].node = c
    BY <2>1, <2>3 DEF Item
  <2>5. c \in AllNodes /\ Len(c) = Len(n) + 1 /\ InSubtree(n, c)
    BY <1>1, ChildrenFacts DEF AllNodes
  <2> QED
    BY <1>1, <1>5, <1>10, <2>2, <2>4, <2>5, ChildFacts
<1>11. ASSUME NEW i \in 1 .. L + Len(P), NEW j \in 1 .. L + Len(P), i < j
       PROVE  InSubtree(Front(list'[i].node), list'[j].node)
  <2>1. CASE j \in 1 .. L
    <3>1. i \in 1 .. L
      BY <1>2, <1>11, <2>1
    <3> QED
      BY <1>5, <1>6, <1>11, <2>1, <3>1
  <2>2. CASE j \notin 1 .. L /\ i \in 1 .. L
    <3>1. Front(list[i].node) \in AllNodes /\ InSubtree(Front(list[i].node), n)
      BY <1>6, <2>2, FrontNode
    <3>2. InSubtree(n, list'[j].node) /\ list'[j].node \in AllNodes
      BY <1>10, <2>2
    <3> QED
      BY <1>1, <1>5, <2>2, <3>1, <3>2, SubtreeOrder
  <2>3. CASE j \notin 1 .. L /\ i \notin 1 .. L
    BY <1>10, <2>3
  <2> QED
    BY <2>1, <2>2, <2>3
<1>12. ASSUME NEW i \in 1 .. L + Len(P), NEW m \in AllNodes, InSubtree(m, list'[i].node), m # list'[i].node
       PROVE  Unbroken(m)'
  <2>1. CASE i \in 1 .. L
    BY <1>5, <1>9, <1>12, <2>1
  <2>2. CASE i \notin 1 .. L
    BY <1>8, <1>10, <1>12, <2>2
  <2> QED
    BY <2>1, <2>2
<1>13. ASSUME Reading' PROVE \A i \in 1 .. L + Len(P) : InSubtree(Front(list'[i].node), reading')
  <2>1. ~InTree(n)
    BY <1>3, <1>13 DEF Reading
  <2>2. \A i \in 1 .. L + Len(P) : i \in 1 .. L
    BY <1>10, <2>1
  <2> QED
    BY <1>3, <1>5, <1>6, <2>2
<1> QED
  BY <1>3, <1>5, <1>8, <1>11, <1>12, <1>13 DEF StackInv, InSubtree

\* The stack is pushed the children that the iterator of a node gives.
LEMMA StackDeliver ==
  ASSUME Typing, ShapeInv, FoundInv, OnceInv, StackInv, mode = "stack", mode' = mode, Deliver
  PROVE  StackInv'
<1> DEFINE L == Len(list)
<1>1. /\ list' = Append(list, Item(child)) /\ reading' = reading /\ out' = out /\ pc = "deliver"
  BY DEF Deliver
<1>2. /\ child \in ChildrenOf(reading) /\ reading \in AllNodes /\ child \in AllNodes
      /\ list \in Seq(Entries)
  BY <1>1 DEF ShapeInv, Busy, Typing
<1>3. Item(child) \in Entries /\ Item(child).node = child
  BY <1>2 DEF Item, Entries
<1>4. /\ DOMAIN list = 1 .. L /\ DOMAIN list' = 1 .. L + 1 /\ L \in Nat
      /\ list'[L + 1].node = child
      /\ \A i \in 1 .. L : list'[i] = list[i]
      /\ \A i \in 1 .. L + 1 : i \in 1 .. L \/ i = L + 1
  BY <1>1, <1>2, <1>3, AppendFacts
<1> HIDE DEF L
<1>5. \A i \in 1 .. L : list[i].node \in AllNodes /\ Front(list[i].node) \in AllNodes
  <2>1. \A i \in DOMAIN list : list[i] \in Entries
    BY <1>2
  <2>2. \A i \in DOMAIN list : list[i].node \in AllNodes
    BY <2>1 DEF Entries
  <2> QED
    BY <1>4, <2>2, FrontNode
<1>6. /\ \A i, j \in 1 .. L : i < j => InSubtree(Front(list[i].node), list[j].node)
      /\ \A i \in 1 .. L : \A m \in AllNodes : InSubtree(m, list[i].node) /\ m # list[i].node => Unbroken(m)
      /\ \A i \in 1 .. L : InSubtree(Front(list[i].node), reading)
      /\ \A m \in AllNodes : InSubtree(m, reading) => Unbroken(m)
  BY <1>1, <1>4 DEF StackInv, Reading
<1>7. /\ InSubtree(reading, child) /\ Front(child) = reading
      /\ \A m \in AllNodes : InSubtree(m, child) /\ m # child => InSubtree(m, reading)
  BY <1>2, ChildrenFacts, ChildFacts
<1>8. \A m : Unbroken(m) => Unbroken(m)'
  BY <1>1 DEF Unbroken, InSubtree
<1>9. ASSUME NEW i \in 1 .. L + 1, NEW j \in 1 .. L + 1, i < j
      PROVE  InSubtree(Front(list'[i].node), list'[j].node)
  <2>1. i \in 1 .. L
    BY <1>4, <1>9
  <2>2. CASE j \in 1 .. L
    BY <1>4, <1>6, <1>9, <2>1, <2>2
  <2>3. CASE j = L + 1
    BY <1>2, <1>4, <1>5, <1>6, <1>7, <2>1, <2>3, SubtreeOrder
  <2> QED
    BY <1>4, <2>2, <2>3
<1>10. ASSUME NEW i \in 1 .. L + 1, NEW m \in AllNodes, InSubtree(m, list'[i].node), m # list'[i].node
       PROVE  Unbroken(m)'
  <2>1. CASE i \in 1 .. L
    BY <1>4, <1>6, <1>8, <1>10, <2>1
  <2>2. CASE i = L + 1
    BY <1>4, <1>6, <1>7, <1>8, <1>10, <2>2
  <2> QED
    BY <1>4, <2>1, <2>2
<1>11. ASSUME NEW i \in 1 .. L + 1 PROVE InSubtree(Front(list'[i].node), reading)
  <2>1. CASE i \in 1 .. L
    BY <1>4, <1>6, <2>1
  <2>2. CASE i = L + 1
    BY <1>2, <1>4, <1>7, <2>2, SubtreeOrder
  <2> QED
    BY <1>4, <2>1, <2>2
<1> QED
  BY <1>1, <1>4, <1>6, <1>8, <1>9, <1>10, <1>11 DEF StackInv, InSubtree

\* Every step keeps the subtrees of a stack together.
LEMMA StepStackInv ==
  ASSUME Typing, ShapeInv, FoundInv, OnceInv, StackInv, [Next]_vars
  PROVE  StackInv'
<1>0. mode' = mode
  BY StepFrame
<1>1. CASE mode # "stack"
  BY <1>0, <1>1 DEF StackInv
<1>2. CASE mode = "stack" /\ UNCHANGED <<list, out>> /\ (Reading' => Reading /\ reading' = reading)
  <2>1. \A m : Unbroken(m) <=> Unbroken(m)'
    BY <1>2 DEF Unbroken, InSubtree
  <2>2. /\ \A i, j \in DOMAIN list' : i < j => InSubtree(Front(list'[i].node), list'[j].node)
        /\ \A i \in DOMAIN list' : \A n \in AllNodes :
             InSubtree(n, list'[i].node) /\ n # list'[i].node => Unbroken(n)'
    BY <1>2, <2>1 DEF StackInv
  <2>3. Reading' => /\ \A i \in DOMAIN list' : InSubtree(Front(list'[i].node), reading')
                    /\ \A n \in AllNodes : InSubtree(n, reading') => Unbroken(n)'
    BY <1>2, <2>1 DEF StackInv
  <2> QED
    BY <2>2, <2>3 DEF StackInv, InSubtree
<1>3. CASE mode = "stack" /\ Start
  <2>1. list' = <<Item(base)>> /\ (out' = <<>> \/ out' = <<base>>) /\ pc' = "loop"
    BY <1>3 DEF Start
  <2>2. \A n : Unbroken(n)'
    <3>1. \A i, j \in DOMAIN out' : ~(i < j)
      BY <2>1
    <3> QED
      BY <3>1 DEF Unbroken
  <2>3. \A i, j \in DOMAIN list' : ~(i < j)
    BY <2>1
  <2> QED
    BY <2>1, <2>2, <2>3 DEF StackInv, Reading
<1> QED
  BY <1>0, <1>1, <1>2, <1>3, StepStack, StackVisit, StackDeliver

\* What a stack pops is in no subtree that was left, and what a call yields is
\* in the subtrees of all the calls.
LEMMA StepDepth ==
  ASSUME Typing, ShapeInv, FoundInv, OnceInv, StackInv, FrameInv, DepthOrder, [Next]_vars
  PROVE  DepthOrder'
<1>0. mode' = mode
  BY StepFrame
<1>1. CASE out' = out
  BY <1>0, <1>1 DEF DepthOrder, InSubtree
<1>2. CASE Start
  <2>1. out' = out \/ out' = <<>> \/ out' = <<base>>
    BY <1>2 DEF Start
  <2>2. CASE out' = <<>> \/ out' = <<base>>
    <3>1. \A i, j \in DOMAIN out' : ~(i < j)
      BY <2>2
    <3> QED
      BY <3>1 DEF DepthOrder
  <2> QED
    BY <1>1, <2>1, <2>2
<1>3. CASE mode = "queue"
  BY <1>0, <1>3 DEF DepthOrder
<1>4. CASE mode = "stack" /\ PopItem
  <2> DEFINE n == Entry.node
  <2>1. /\ n \in AllNodes /\ Taken(n, Rest) /\ Visit(n, Rest, size - 1) /\ base \in AllNodes
        /\ list # <<>> /\ Len(list) \in DOMAIN list /\ n = list[Len(list)].node
    BY <1>4, PopItemVisits, RestFacts DEF Typing
  <2>2. n \notin Entered /\ InSubtree(base, n) /\ (n \in ToSet(out) => n = base)
    BY <1>4, <2>1, TakenFresh
  <2> HIDE DEF n
  <2>3. CASE n = base
    BY <1>1, <2>1, <2>3 DEF Visit
  <2>4. CASE n # base
    <3>1. out' = Append(out, n)
      BY <2>1, <2>4 DEF Visit
    <3>2. Unbroken(n)
      <4>1. \A i \in DOMAIN out : out[i] \in ToSet(out) /\ out[i] \in Found
        BY DEF ToSet, Found
      <4>2. \A i \in DOMAIN out : ~InSubtree(n, out[i])
        BY <2>1, <2>2, <2>4, <4>1, FoundFacts
      <4> QED
        BY <4>2 DEF Unbroken
    <3>3. \A m \in AllNodes : InSubtree(m, n) /\ m # n => Unbroken(m)
      BY <1>4, <2>1 DEF StackInv
    <3> QED
      BY <1>0, <2>1, <3>1, <3>2, <3>3, DepthAppend
  <2> QED
    BY <2>3, <2>4
<1>5. CASE mode = "stack" /\ Deliver
  BY <1>1, <1>5 DEF Deliver
<1>6. CASE mode = "post" /\ Deliver
  BY <1>1, <1>6 DEF Deliver
<1>7. CASE Ascend
  <2>1. /\ mode = "post" /\ reading = frames[Len(frames)] /\ Len(frames) \in 1 .. Len(frames)
        /\ out' = IF reading = <<>> THEN out ELSE Append(out, reading)
    BY <1>7, AscendFacts
  <2>2. reading \in AllNodes /\ Len(frames) \in DOMAIN frames
    BY <2>1 DEF Typing
  <2>3. \A m \in AllNodes : InSubtree(m, reading) => Unbroken(m)
    BY <2>1, <2>2 DEF FrameInv
  <2> QED
    BY <1>0, <1>1, <2>1, <2>2, <2>3, DepthAppend
<1>8. mode \in {"queue", "stack", "post"}
  BY DEF Typing
<1> QED
  BY <1>1, <1>2, <1>3, <1>4, <1>5, <1>6, <1>7, <1>8, StepCalls, StepStack

-----------------------------------------------------------------------------
(* The inductive invariant and the properties *)

\* A traversal starts in the inductive invariant.
LEMMA InitIInv == Init => IInv
<1> SUFFICES ASSUME Init PROVE IInv
  OBVIOUS
<1>1. Typing /\ ShapeInv
  BY InitTyping
<1>2. /\ before = {} /\ list = <<>> /\ frames = <<>> /\ out = <<>> /\ pc = "start"
      /\ iter = [n \in AllNodes |-> Closed] /\ trees = [n \in TreeNodes |-> {}]
  BY DEF Init, TreeNodes
<1>3. /\ DOMAIN out = {} /\ DOMAIN list = {} /\ DOMAIN frames = {}
      /\ ~Busy /\ ~Reading
  BY <1>2 DEF Busy, Reading
<1>4. ToSet(out) = {} /\ ToSet(frames) = {} /\ Items = {} /\ Found = {} /\ Delivered = {}
  BY <1>2, <1>3 DEF ToSet, Items, ItemsOf, Found, Delivered
<1>5. \A m \in AllNodes : ~iter[m].open /\ iter[m].given = {}
  BY <1>2 DEF Closed
<1>6. FoundInv
  BY <1>3, <1>4, <1>5 DEF FoundInv
<1>7. OnceInv
  BY <1>3, <1>4 DEF OnceInv, IsInjective
<1>8. ReachInv
  <2>1. \A m \in TreeNodes : trees[m] = {}
    BY <1>2
  <2> QED
    BY <1>2, <1>4, <2>1 DEF ReachInv
<1>9. KnownInv /\ CoverInv
  BY <1>2, <1>4, <1>5 DEF KnownInv, CoverInv
<1>10. LevelInv /\ BreadthOrder
  BY <1>3 DEF LevelInv, BreadthOrder
<1>12. StackInv /\ FrameInv
  BY <1>3 DEF StackInv, FrameInv
<1>13. DepthOrder /\ AncestorOrder
  BY <1>3 DEF DepthOrder, AncestorOrder
<1> QED
  BY <1>1, <1>6, <1>7, <1>8, <1>9, <1>10, <1>12, <1>13 DEF IInv

\* Every step keeps the inductive invariant.
LEMMA StepIInv == IInv /\ [Next]_vars => IInv'
<1> SUFFICES ASSUME IInv, [Next]_vars PROVE IInv'
  OBVIOUS
<1>0. /\ Typing /\ ShapeInv /\ FoundInv /\ OnceInv /\ ReachInv /\ KnownInv /\ CoverInv
      /\ LevelInv /\ BreadthOrder
      /\ StackInv /\ FrameInv /\ DepthOrder /\ AncestorOrder
  BY DEF IInv
<1>1. Typing'
  BY <1>0, StepTyping
<1>2. ShapeInv'
  BY <1>0, StepShape
<1>3. FoundInv' /\ OnceInv'
  BY <1>0, StepFound
<1>4. ReachInv'
  BY <1>0, StepReach
<1>5. KnownInv'
  BY <1>0, StepKnown
<1>6. CoverInv'
  BY <1>0, StepCover
<1>7. LevelInv' /\ BreadthOrder'
  BY <1>0, StepLevel
<1>8. StackInv'
  BY <1>0, StepStackInv
<1>9. FrameInv'
  BY <1>0, StepFrames
<1>10. DepthOrder'
  BY <1>0, StepDepth
<1>11. AncestorOrder'
  BY <1>0, StepAncestor
<1> QED
  BY <1>1, <1>2, <1>3, <1>4, <1>5, <1>6, <1>7, <1>8, <1>9, <1>10, <1>11 DEF IInv

\* The inductive invariant holds of every traversal, whatever is registered and
\* stored while it runs.
THEOREM Invariance == Spec => []IInv
  BY InitIInv, StepIInv, PTL DEF Spec

\* No node is yielded twice, by an AsyncQueue, an AsyncStack or the recursion:
\* each child is given once by its parent's iterator, and each node is entered once.
THEOREM NoRepetitionHolds == Spec => []NoRepetition
<1>1. IInv => NoRepetition
  BY DEF IInv, OnceInv, NoRepetition
<1> QED
  BY <1>1, Invariance, PTL

\* A traversal that comes to its end has yielded all that could be reached when
\* it started, and never yields what is not there: the length that
\* AsyncQueue.asyncNext leaves too large ends no loop too early.
THEOREM CompleteHolds == Spec => []Complete
<1>1. IInv => Complete
  <2> SUFFICES ASSUME IInv PROVE Complete
    OBVIOUS
  <2>1. ToSet(out) \ {base} \subseteq Reachable(base)
    BY DEF IInv, ReachInv, Delivered
  <2>2. ASSUME pc = "end", NEW n \in before PROVE n \in ToSet(out)
    <3>1. list = <<>> /\ frames = <<>> /\ ~Busy /\ ~Reading
      BY <2>2 DEF IInv, ShapeInv, Busy, Reading
    <3>2. Items = {} /\ ToSet(frames) = {} /\ \A m : ~Active(m)
      BY <3>1 DEF Items, ItemsOf, ToSet, Active
    <3>3. \A m \in AllNodes : ~Leads(m, n)
      BY <3>1, <3>2 DEF Leads
    <3> QED
      BY <2>2, <3>3 DEF IInv, CoverInv
  <2> QED
    BY <2>1, <2>2 DEF Complete
<1> QED
  BY <1>1, Invariance, PTL

\* Pre order yields a node before all below it, post order after all of them.
THEOREM AncestorOrderHolds == Spec => []AncestorOrder
<1>1. IInv => AncestorOrder
  BY DEF IInv
<1> QED
  BY <1>1, Invariance, PTL

\* An AsyncQueue yields level by level, though the iterators of one level are
\* read while nodes of the next are pushed behind them.
THEOREM BreadthOrderHolds == Spec => []BreadthOrder
<1>1. IInv => BreadthOrder
  BY DEF IInv
<1> QED
  BY <1>1, Invariance, PTL

\* An AsyncStack, which reads an iterator to its end before it goes on, and the
\* recursion yield each subtree without interruption.
THEOREM DepthOrderHolds == Spec => []DepthOrder
<1>1. IInv => DepthOrder
  BY DEF IInv
<1> QED
  BY <1>1, Invariance, PTL

=============================================================================
