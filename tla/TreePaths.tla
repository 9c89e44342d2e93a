------------------------------ MODULE TreePaths ------------------------------
(***************************************************************************)
(* The static structure every module of the writers shares: the calls that *)
(* may be made on one TreeKeyCache, the nodes of their paths, and where    *)
(* the cache keeps each node.                                              *)
(*                                                                         *)
(* A node is named by the sequence of keys that leads to it.  Nodes at     *)
(* levels below keyLevelNodes each have a storage key of their own;        *)
(* a node at level keyLevelNodes and all its descendants live together in  *)
(* one serialized tree under the key of that level.                        *)
(*                                                                         *)
(* A node's value is abstracted to the set of the writers that contributed *)
(* to it (the README's counter per node is the size of that set).  Two     *)
(* values are equal exactly when their serialized forms are.               *)
(***************************************************************************)
EXTENDS Integers, Sequences

CONSTANTS
  Calls,          \* the calls of deepTreeSet and setNode made on the cache
  Writers,        \* all that write next to them, the calls included
  Kind,           \* Kind[p]: "deep" (deepTreeSet) or "set" (setNode)
  KeyNames,       \* the keys paths are made of
  Path,           \* Path[p]: the path argument, a sequence of keys
  KeyLevelNodes,  \* options.keyLevelNodes
  None,           \* a node of a stored tree that has no value (undefined)
  Absent          \* a node, or a storage key, that does not exist

ASSUME WriterAssumption == Calls \subseteq Writers

ASSUME KindAssumption == Kind \in [Calls -> {"deep", "set"}]

ASSUME PathAssumption ==
  /\ Path \in [Calls -> Seq(KeyNames)]
  /\ \A p \in Calls : Len(Path[p]) >= 1

\* With keyLevelNodes = 1 deepTreeSet always throws 'Non consistent storage'
\* unless previousKeys is given; that configuration is left out.
ASSUME KeyLevelNodesAssumption == KeyLevelNodes \in Nat /\ KeyLevelNodes >= 2

ASSUME SentinelAssumption ==
  /\ None # Absent
  /\ \A S \in SUBSET Writers : S # None /\ S # Absent

\* length of path, in the code.
Length(p) == Len(Path[p])

\* The node a call is at on a level (levels count from 1, as step.level does).
PathNode(p, l) == SubSeq(Path[p], 1, l)

PathNodes(p) == {PathNode(p, l) : l \in 1 .. Length(p)}

Nodes == UNION {PathNodes(p) : p \in Calls}

\* The storage key of the level a node is kept at.
KeyLevel(l) == IF l < KeyLevelNodes THEN l ELSE KeyLevelNodes

KeyOf(n) == SubSeq(n, 1, KeyLevel(Len(n)))

Keys == {KeyOf(n) : n \in Nodes}

Values == SUBSET Writers

Cells == {None, Absent} \cup Values

\* The writers a stored node carries the contribution of.
Contributors(v) == IF v \in {None, Absent} THEN {} ELSE v

\* The node setNode assigns: the last of its path.
IsTarget(p, n) == Kind[p] = "set" /\ n = Path[p]

=============================================================================
