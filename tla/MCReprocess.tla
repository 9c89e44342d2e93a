----------------------------- MODULE MCReprocess -----------------------------
(* One deepTreeSet, one fullTreeSet and the reprocessing of the registry. *)
EXTENDS Reprocess, TLC

CONSTANTS p1

Names == {"a", "b", "c"}
OnePath == p1 :> <<"a", "b", "c">>
OneDeep == p1 :> "deep"
FromRoot == p1 :> 0
LockAll == p1 :> 0
CreateNone == p1 :> None
WholeTree == Nodes
WholeOrder == <<<<"a">>, <<"a", "b">>>>
DeepFaults == {"set"}

==============================================================================
