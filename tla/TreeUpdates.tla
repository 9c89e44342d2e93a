----------------------------- MODULE TreeUpdates -----------------------------
(***************************************************************************)
(* What the cache promises its writers when every one of them holds the    *)
(* semaphore of the keys it writes: each storage key changes by one atomic *)
(* read-modify-write at a time.  A deepTreeSet adds its contribution to    *)
(* nodes of its path, a setNode replaces the value of the last one, and    *)
(* every other node keeps the value it has.                                *)
(***************************************************************************)
EXTENDS TreePaths

VARIABLE tree   \* tree[n]: the value of node n

Init == tree = [n \in Nodes |-> Absent]

\* The values one call may leave in a node of its path that holds v: the same
\* one, an empty node or a created value where there was none, or the call's
\* own contribution.
Outcomes(p, n, v) ==
  {v}
  \cup (IF v = Absent THEN {None} ELSE {})
  \cup (IF v \in {None, Absent} THEN {{}} ELSE {})
  \cup (IF Kind[p] = "deep" THEN {Contributors(v) \cup {p}} ELSE {})
  \cup (IF IsTarget(p, n) THEN {{p}} ELSE {})

\* One call updates, at once, the nodes of its path kept under one key.
Update(p, k) ==
  /\ tree' \in [Nodes -> Cells]
  /\ \A n \in Nodes :
       IF n \in PathNodes(p) /\ KeyOf(n) = k
       THEN tree'[n] \in Outcomes(p, n, tree[n])
       ELSE tree'[n] = tree[n]

Next == \E p \in Calls, k \in Keys : Update(p, k)

Spec == Init /\ [][Next]_tree

=============================================================================
