--------------------------- MODULE MCPruneStorage ---------------------------
(* Three writers of one tree, and prune. *)
EXTENDS PruneStorage, TLC

CONSTANTS p1, p2, p3

Names == {"a", "b", "c", "d"}
TreePath == p1 :> <<"a", "b", "c", "d">> @@ p2 :> <<"a", "b", "c">> @@ p3 :> <<"a", "b">>
TwoDeepOneSet == p1 :> "deep" @@ p2 :> "deep" @@ p3 :> "set"
\* p2 goes on from previousKeys = ["a"].
SecondFromA == p1 :> 0 @@ p2 :> 1 @@ p3 :> 0
LockAll == [p \in Calls |-> 0]
CreateNone == [p \in Calls |-> None]
AllFaults == {"register", "acquire", "get", "consume", "set"}

=============================================================================
