----------------------------- MODULE MCReaders -----------------------------
(* A path of three levels, whole trees from the second one on. *)
EXTENDS Readers, TLC

CONSTANTS p1, p2, c1, c2

Call(kind, length, context) == [kind |-> kind, length |-> length, context |-> context]
\* An iteratePath with another call: in its context or in another one.
TwoCalls ==
  {p1 :> Call("iterate", 3, c1) @@ p2 :> q :
     q \in {Call("node", 3, c1), Call("node", 1, c1), Call("node", 3, c2)}}
KeyEntries == {1 :> 0}
TreeEntries == {2 :> None @@ 3 :> 2, 2 :> 2 @@ 3 :> Gone, Bad}
AllEntries == 1 :> KeyEntries @@ 2 :> TreeEntries
FewWrites == 1 :> 1 @@ 2 :> 2

============================================================================
