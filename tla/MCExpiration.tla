----------------------------- MODULE MCExpiration -----------------------------
(* A tree whose root has a child a and, where the cfg says so, a child c. *)
EXTENDS Expiration, TLC

CONSTANTS p1, p2, p3, p4, root, a, c

AboveTree == [n \in Nodes |-> {root, n}]
MixedKinds == p1 :> "deep" @@ p2 :> "deep" @@ p3 :> "full" @@ p4 :> "prune"
MixedTargets == p1 :> root @@ p2 :> a @@ p3 :> root @@ p4 :> root
MixedVisits == p1 :> {root} @@ p2 :> {root, a} @@ p3 :> Nodes @@ p4 :> {}
\* p1 and p2 assign the same value.
MixedValues == p1 :> "v" @@ p2 :> "v" @@ p3 :> "w" @@ p4 :> "w"
MixedCreated == [p \in Calls |-> IF p = p3 THEN "w" ELSE None]
\* p2 is a setNode: minLevelSemaphore is the length of its path.
MixedSemaphores == p1 :> 0 @@ p2 :> 3 @@ p3 :> 0 @@ p4 :> 0
LockedSemaphores == [p \in Calls |-> 0]
MixedTtl == [p \in Calls |-> [n \in Nodes |-> CASE p = p1 -> 1 [] p = p4 -> 0 [] OTHER -> 2]]

===============================================================================
