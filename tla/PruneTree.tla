------------------------------ MODULE PruneTree ------------------------------
(***************************************************************************)
(* pruneTree (src/src/internal/prune-tree.ts): the loop that removes       *)
(* expired values and empty branches from a deserialized tree while a post *)
(* order traversal of the same tree is under way.                          *)
(*                                                                         *)
(* prune calls it with the root of a tree level key and the reference of   *)
(* that root's parent, so the traversal yields the root last and all       *)
(* levels are one less than the nodes' own.  With keyLevelNodes = 1 there  *)
(* is no parent, and the traversal does not yield the root.  The searches  *)
(* of the other modes run without a consumer.                              *)
(*                                                                         *)
(* What the loop removes lies below the node in hand, which the traversal  *)
(* has left behind: it walks the tree as it was.                           *)
(***************************************************************************)
EXTENDS TreeTraversal

RootKey == "root"

CONSTANTS
  NoMap,    \* a hole of the array of maps
  MixLevel  \* bound: trees up to this depth are pruned or copied with every mix of values

ASSUME NoMapAssumption == \A S \in SUBSET (Keys \cup {RootKey}) : NoMap \notin [S -> BOOLEAN]

VARIABLES
  given,   \* given[n]: "live", "expired" or "none", the value as it was read
  value,   \* value[n]: the value of n as pruneTree leaves it
  kept,    \* the nodes that have not been removed
  stack,   \* the maps of the levels, index 1 for level 0: key -> empty
  changed  \* what pruneTree will return

pruneVars == <<given, value, kept, stack, changed>>

KeyName(n) == IF n = Root THEN RootKey ELSE Last(n)

Pruning == mode = "post"

Rebuilding == mode = "stack" /\ ~based

AllLive == [n \in tree |-> "live"]

\* A tree without a parent was written by fullTreeSet, which sets no deadline.
GivenValues == IF Pruning /\ ~based THEN {"live", "none"} ELSE {"live", "expired", "none"}

\* The mixes of values considered: all of them, one value that is not live, none.
Mixes ==
  IF (Pruning \/ Rebuilding) /\ \A n \in tree : Len(n) <= MixLevel THEN [tree -> GivenValues]
  ELSE IF Rebuilding THEN {AllLive} \cup {[AllLive EXCEPT ![n] = "expired"] : n \in tree}
  ELSE {AllLive}

PruneInit ==
  /\ Init
  /\ given \in Mixes
  /\ value = given
  /\ kept = tree
  /\ stack = <<>>
  /\ changed = FALSE

\* item.level - baseLevel + 1
Level(n) == Len(n) + 1

\* stack[l] ??= new Map()
WithMap(s, l) ==
  [i \in 1 .. (IF l + 1 > Len(s) THEN l + 1 ELSE Len(s)) |->
     IF i \in DOMAIN s /\ (i # l + 1 \/ s[i] # NoMap) THEN s[i]
     ELSE IF i = l + 1 THEN << >> ELSE NoMap]

\* Map.set
Put(map, key, v) == [k \in DOMAIN map \cup {key} |-> IF k = key THEN v ELSE map[k]]

\* stack[l].set(key, b)
WithEntry(s, l, key, b) == [WithMap(s, l) EXCEPT ![l + 1] = Put(@, key, b)]

\* The map of the children's level, if one has been filled since it was popped.
ChildMap(n) == IF Len(stack) > Level(n) + 1 THEN Last(stack) ELSE NoMap

HasChildren(n) == \E c \in kept : Len(c) = Len(n) + 1 /\ IsPrefix(n, c)

\* The keys of the map that are marked empty.
EmptyKeys(n) ==
  IF ChildMap(n) = NoMap \/ ~HasChildren(n) THEN {}
  ELSE {key \in DOMAIN ChildMap(n) : ChildMap(n)[key]}

SomeChildKept(n) ==
  /\ ChildMap(n) # NoMap
  /\ HasChildren(n)
  /\ \E key \in DOMAIN ChildMap(n) : ~ChildMap(n)[key]

\* The children of n that are marked empty go, with all that is below them.
Cut(n) == {m \in kept : \E key \in EmptyKeys(n) : IsPrefix(Append(n, key), m)}

\* Mutant: a branch goes as soon as its own value is undefined.
MarkByValueOnly(n) ==
  LET popped == IF Len(stack) > Level(n) + 1 THEN Front(stack) ELSE stack
  IN WithEntry(popped, Level(n), KeyName(n), given[n] # "live")

\* The maps after n: its children's map is popped, n is marked not empty if one
\* of them stays, and otherwise by whether it has a value of its own.
Mark(n) ==
  LET popped == IF Len(stack) > Level(n) + 1 THEN Front(stack) ELSE stack
  IN WithEntry(popped, Level(n), KeyName(n), given[n] # "live" /\ ~SomeChildKept(n))

\* Mutant: only empty branches are removed, expired values stay.
PruneItemKeepsExpired(n) ==
  /\ kept' = kept \ Cut(n)
  /\ value' = value
  /\ changed' = (changed \/ EmptyKeys(n) # {} \/ given[n] # "live")
  /\ stack' = Mark(n)
  /\ UNCHANGED given

\* Mutant: removing an expired value is not reported.
PruneItemForgetsChange(n) ==
  /\ kept' = kept \ Cut(n)
  /\ value' = [value EXCEPT ![n] = IF given[n] = "live" THEN @ ELSE "none"]
  /\ changed' = (changed \/ EmptyKeys(n) # {})
  /\ stack' = Mark(n)
  /\ UNCHANGED given

\* The body of the loop for one item of the traversal.
PruneItem(n) ==
  /\ kept' = kept \ Cut(n)
  /\ value' = [value EXCEPT ![n] = IF given[n] = "live" THEN @ ELSE "none"]
  /\ changed' = (changed \/ EmptyKeys(n) # {} \/ given[n] # "live")
  /\ stack' = Mark(n)
  /\ UNCHANGED given

\* The loop takes what the traversal yields.
PruneStep ==
  IF Pruning /\ out' # out THEN PruneItem(Last(out')) ELSE UNCHANGED pruneVars

-----------------------------------------------------------------------------
(* Properties *)

\* n or something below it has a value that has not expired.
Live(n) == \E m \in tree : IsPrefix(n, m) /\ given[m] = "live"

\* At no point of the loop is a branch cut that still holds a live value.
LiveKept == Pruning => \A n \in tree : Live(n) => n \in kept /\ (given[n] = "live" => value[n] = "live")

\* pruneTree leaves the root, the nodes that are live or lead to a live one, and
\* no value but the live ones.  A root that is not yielded keeps its value and its
\* children whatever they are, though not what those have below them.
PrunedExactly ==
  Pruning /\ pc = "end" =>
    /\ kept = {n \in tree : Live(n) \/ Len(n) <= IF based THEN 0 ELSE 1}
    /\ \A n \in kept :
         value[n] = IF given[n] = "live" \/ (n = Root /\ ~based) THEN given[n] ELSE "none"

\* A tree that pruneTree reports unchanged was left as it was: prune may skip
\* writing it back.
UnchangedIsSame == pc = "end" /\ ~changed => kept = tree /\ value = given

=============================================================================
