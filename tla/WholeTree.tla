------------------------------ MODULE WholeTree ------------------------------
(***************************************************************************)
(* The traversals of a tree in memory with the two loops of the library    *)
(* that follow them: pruneTree, and deserializeWholeTree                   *)
(* (src/src/utils/deserialize-whole-tree.ts), which copies the tree along  *)
(* a depth first search that is not given the root's reference, keeping    *)
(* the way down to the current node in a stack of its own.                 *)
(***************************************************************************)
EXTENDS PruneTree

VARIABLES
  built,  \* the nodes of newTree; built[n]: the node whose value it was given, in a set
  way,    \* the stack of nodes of newTree
  depth,  \* currentLevel
  error   \* what was thrown, "none" for nothing

wholeVars == <<built, way, depth, error>>

\* The value of n, if it has one that has not expired.
ValueOf(n) == {m \in {n} : given[m] = "live"}

\* Up to the loop: EmptyTree is thrown for a tree without children and value.
WholeInit ==
  /\ PruneInit
  /\ built = [n \in {Root} |-> ValueOf(n)]
  /\ way = <<Root>>
  /\ depth = 0
  /\ error = IF Rebuilding /\ tree = {Root} /\ ValueOf(Root) = {} THEN "EmptyTree" ELSE "none"

\* Mutant: the stack is popped once at most.
PopsOnce(n) == IF depth + 1 > Len(n) THEN 1 ELSE 0

\* while (currentLevel > node.level)
Pops(n) == depth + 1 - Len(n)

\* The body of the loop: go back up to the parent of n, copy n under it.
CopyItem(n) ==
  IF Pops(n) < 0 \/ Pops(n) >= Len(way)
  THEN error' = "TreeError" /\ UNCHANGED <<built, way, depth>>
  ELSE LET left == SubSeq(way, 1, Len(way) - Pops(n))
           current == Append(Last(left), Last(n))
           had == IF current \in DOMAIN built THEN built[current] ELSE {}
       IN /\ built' = Put(built, current, IF ValueOf(n) = {} THEN had ELSE ValueOf(n))
          /\ way' = Append(left, current)
          /\ depth' = depth + 1 - Pops(n)
          /\ UNCHANGED error

\* An error ends the loop.
WholeStep ==
  IF Rebuilding /\ out' # out /\ error = "none"
  THEN CopyItem(Last(out'))
  ELSE UNCHANGED wholeVars

WholeNext == Next /\ PruneStep /\ WholeStep

WholeSpec == WholeInit /\ [][WholeNext]_<<vars, pruneVars, wholeVars>>

-----------------------------------------------------------------------------
(* Properties *)

\* deserializeWholeTree never loses its way, although its stack is driven only
\* by the levels of the nodes: the copy has the nodes of the tree, each with its
\* own value if that has not expired.  Only a tree with nothing in it is refused.
WholeCopy ==
  Rebuilding =>
    /\ error # "TreeError"
    /\ pc = "end" /\ error = "none" => built = [n \in tree |-> ValueOf(n)]
    /\ error = "EmptyTree" => tree = {Root}

=============================================================================
