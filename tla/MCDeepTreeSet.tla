---------------------------- MODULE MCDeepTreeSet ----------------------------
(* Small instances of DeepTreeSet for TLC.                                      *)
EXTENDS DeepTreeSet, TLC

CONSTANTS p1, p2, p3

Names == {"a", "b", "c", "d"}

AllFaults == {"register", "acquire", "get", "consume", "set"}

\* With keyLevelNodes = 2: one leaf of the tree kept at "a:b", and its root.
SharedTreePath == p1 :> <<"a", "b", "c">> @@ p2 :> <<"a", "b", "c">> @@ p3 :> <<"a", "b">>

\* Two leaves of one tree.
LeavesPath == p1 :> <<"a", "b", "c">> @@ p2 :> <<"a", "b", "d">>

\* With keyLevelNodes = 3: two levels of keys above the tree kept at "a:b:c".
CountersPath == p1 :> <<"a", "b", "c", "d">> @@ p2 :> <<"a", "b", "c", "d">>
                @@ p3 :> <<"a", "b">>

TwoDeepOneSet == p1 :> "deep" @@ p2 :> "deep" @@ p3 :> "set"
AllDeep == [p \in Calls |-> "deep"]
AllSet == [p \in Calls |-> "set"]

FromRoot == [p \in Calls |-> 0]
\* p3 goes on from previousKeys = ["a"].
ThirdFromA == p1 :> 0 @@ p2 :> 0 @@ p3 :> 1

LockAll == [p \in Calls |-> 0]

CreateFirst == [p \in Calls |-> IF p = p1 THEN {} ELSE None]
CreateNone == [p \in Calls |-> None]

=============================================================================
