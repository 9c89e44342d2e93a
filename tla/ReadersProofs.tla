---------------------------- MODULE ReadersProofs ----------------------------
(***************************************************************************)
(* Proofs about the readers, for any number of calls and contexts, any     *)
(* paths and any entries: the memoizer reads a key once, no step is older  *)
(* than its context, and a call that ends has given exactly the nodes of   *)
(* its path in what was read.                                              *)
(***************************************************************************)
EXTENDS Readers, TLAPS

-----------------------------------------------------------------------------
(* The inductive invariant *)

CallType == [kind : {"iterate", "node"}, length : 1 .. Depth, context : Contexts]
PromiseType == [state : {"none", "pending", "ok", "rejected"}, n : Nat, t : Nat, lost : BOOLEAN]
StepType == [level : Nat, vals : SUBSET Nat, n : Nat]
AllEntries == UNION {Entries[k] : k \in Keys}

Typing ==
  /\ call \in [Calls -> CallType]
  /\ now \in 1 .. MaxTime
  /\ storage \in [Keys -> Seq(AllEntries)]
  /\ \A k \in Keys : Len(storage[k]) <= MaxWrites[k]
  /\ history \in BOOLEAN
  /\ memo \in [Contexts -> [Keys -> PromiseType]]
  /\ pc \in [Calls -> {"begin", "read", "await", "walk", "done", "failed"}]
  /\ at \in [Calls -> Nat]
  /\ began \in [Calls -> Nat]
  /\ trees \in [Calls -> SUBSET Nat]
  /\ steps \in [Calls -> Seq(StepType)]
  /\ reads \in [Contexts -> [Keys -> Nat]]
  /\ floor \in [Contexts -> [Keys -> Nat]]

\* Where a call is, and what it has been promised there.
Placed(p) ==
  LET m == memo[call[p].context]
  IN /\ at[p] <= call[p].length
     /\ pc[p] = "begin" => steps[p] = <<>>
     /\ pc[p] \in {"read", "await"} =>
          /\ at[p] \in Keys
          /\ call[p].kind = "node" => at[p] = call[p].length \/ at[p] = KeyLevelNodes
     /\ pc[p] = "await" =>
          /\ call[p].kind = "iterate" \/ at[p] = KeyLevelNodes
          /\ m[at[p]].state # "none"
     /\ pc[p] = "walk" => KeyLevelNodes <= at[p] /\ m[KeyLevelNodes].state = "ok"
     /\ IF pc[p] = "walk" THEN trees[p] \subseteq 1 .. m[KeyLevelNodes].n ELSE trees[p] = {}

PlaceInv == \A p \in Calls : Placed(p)

\* A promise was made by a call of its context, whose now it has, and its value is as new as the
\* context.
MemoInv ==
  \A c \in Contexts, k \in Keys :
    /\ memo[c][k].n <= Len(storage[k])
    /\ floor[c][k] <= Len(storage[k])
    /\ memo[c][k].state = "ok" => floor[c][k] <= memo[c][k].n
    /\ memo[c][k].state # "none" => \E p \in Calls :
         call[p].context = c /\ pc[p] # "begin" /\ began[p] = memo[c][k].t

\* A getNode of the context c that reads the key level node k without the memoizer.
Reader(c, k) ==
  \E p \in Calls :
    call[p].context = c /\ call[p].kind = "node" /\ call[p].length = k /\ k < KeyLevelNodes

ReadsInv ==
  \A c \in Contexts, k \in Keys :
    \/ reads[c][k] <= IF memo[c][k].state = "none" THEN 0 ELSE 1
    \/ Reader(c, k)

\* The steps of the entries s, with history or not, that a call which began at b
\* and reads the memoizer m gives at level l; r is the promise it gets for a key.
VersionsIn(h, n) == IF h THEN 1 .. n ELSE {n} \ {0}
ReadableIn(s, h, k, r) == ~r.lost /\ \A v \in VersionsIn(h, r.n) : s[k][v] # Bad
LeadingIn(s, h, l, n) ==
  {v \in VersionsIn(h, n) : \A j \in KeyLevelNodes + 1 .. l : s[KeyLevelNodes][v][j] # Gone}
LiveIn(s, v, l, t) ==
  s[KeyLevelNodes][v][l] \notin {Gone, None} /\ (s[KeyLevelNodes][v][l] = 0 \/ s[KeyLevelNodes][v][l] > t)

KeyStepIn(s, h, k, r) ==
  IF h \/ r.n > 0 THEN {StepOf(k, IF ReadableIn(s, h, k, r) THEN VersionsIn(h, r.n) ELSE {}, r.n)} ELSE {}
TreeStepIn(s, h, l, r, t) ==
  LET vals == {v \in LeadingIn(s, h, l, r.n) : LiveIn(s, v, l, t)}
  IN IF \/ ~ReadableIn(s, h, KeyLevelNodes, r)
        \/ h /\ l > KeyLevelNodes /\ LeadingIn(s, h, l, r.n) = {}
        \/ ~h /\ vals = {}
     THEN {} ELSE {StepOf(l, vals, r.n)}

GivenIn(s, h, m, b, l) ==
  IF l < KeyLevelNodes THEN KeyStepIn(s, h, l, m[l])
  ELSE TreeStepIn(s, h, l, m[KeyLevelNodes], IF h THEN m[KeyLevelNodes].t ELSE b)

Given(p) == [l \in 1 .. Depth |-> GivenIn(storage, history, memo[call[p].context], began[p], l)]

\* The steps s are those of the levels f .. u, from the top.
Exact(s, given, f, u) ==
  /\ \A i, j \in DOMAIN s : i < j => s[i].level < s[j].level
  /\ \A i \in DOMAIN s : \E l \in f .. u : s[i] \in given[l]
  /\ \A l \in f .. u : \A x \in given[l] : \E i \in DOMAIN s : s[i] = x

\* The calls that get to the trees, the level they give first and the one they
\* have given last.
Walker(p) == IF call[p].kind = "node" THEN call[p].length >= KeyLevelNodes ELSE KeyLevelNodes > 1
First(p) == IF call[p].kind = "node" THEN call[p].length ELSE 1
Upto(p) == IF pc[p] = "done" THEN call[p].length ELSE at[p] - 1
KeyLevel(l) == IF l < KeyLevelNodes THEN l ELSE KeyLevelNodes

Walked(p) ==
  Walker(p) /\ pc[p] \in {"read", "await", "walk", "done"} =>
    /\ \A l \in First(p) .. Upto(p) : memo[call[p].context][KeyLevel(l)].state = "ok"
    /\ Exact(steps[p], Given(p), First(p), Upto(p))
    /\ pc[p] = "walk" =>
         LET r == memo[call[p].context][KeyLevelNodes]
         IN /\ ReadableIn(storage, history, KeyLevelNodes, r)
            /\ trees[p] = LeadingIn(storage, history, at[p], r.n)
            /\ at[p] > KeyLevelNodes => trees[p] # {}

WalkInv == \A p \in Calls : Walked(p)

\* LiveInContext, of one step x of p.
LiveFor(p, x) ==
  x.level >= KeyLevelNodes => \E q \in Calls :
    /\ IF history THEN call[q].context = call[p].context /\ pc[q] # "begin" ELSE q = p
    /\ \A v \in x.vals : IsLive(v, x.level, began[q])

\* The values of a step are of entries that have been written.
Dated(p) ==
  \A i \in DOMAIN steps[p] :
    /\ steps[p][i].level >= KeyLevelNodes =>
         steps[p][i].vals \subseteq 1 .. Len(storage[KeyLevelNodes])
    /\ LiveFor(p, steps[p][i])

DatedInv == \A p \in Calls : Dated(p)

\* FreshInContext, of one call.
Fresh(p) ==
  \A i \in DOMAIN steps[p] : steps[p][i].n >= floor[call[p].context][KeyLevel(steps[p][i].level)]

FreshInv == \A p \in Calls : Fresh(p)

IInv == Typing /\ PlaceInv /\ MemoInv /\ ReadsInv /\ FreshInv /\ DatedInv /\ WalkInv

-----------------------------------------------------------------------------
(* Types *)

\* The keys of the path are its levels up to keyLevelNodes.
LEMMA KeyFacts ==
  /\ KeyLevelNodes \in Nat /\ KeyLevelNodes >= 1 /\ Depth \in Nat /\ KeyLevelNodes <= Depth
  /\ KeyLevelNodes \in Keys /\ Keys \subseteq Nat
  /\ \A k \in Keys : k >= 1 /\ k <= KeyLevelNodes
BY ReaderAssumption DEF Keys

\* A call, taken apart.
LEMMA CallFacts ==
  ASSUME Typing, NEW p \in Calls
  PROVE  /\ call[p].kind \in {"iterate", "node"} /\ call[p].context \in Contexts
         /\ call[p].length \in Nat /\ call[p].length >= 1 /\ call[p].length <= Depth
         /\ at[p] \in Nat
<1>1. call[p] \in CallType /\ at[p] \in Nat
  BY DEF Typing
<1> QED BY <1>1, KeyFacts DEF CallType

\* What a promise of the memoizer holds.
LEMMA PromiseFacts ==
  ASSUME Typing, NEW c \in Contexts, NEW k \in Keys
  PROVE  /\ memo[c][k] \in PromiseType
         /\ memo[c][k].state \in {"none", "pending", "ok", "rejected"}
         /\ memo[c][k].n \in Nat /\ memo[c][k].t \in Nat
         /\ Len(storage[k]) \in Nat /\ storage[k] \in Seq(AllEntries)
<1>1. memo[c][k] \in PromiseType /\ storage[k] \in Seq(AllEntries)
  BY DEF Typing
<1> QED BY <1>1 DEF PromiseType

\* The entries of a key that a read sees.
LEMMA VersionsType ==
  ASSUME NEW n \in Nat
  PROVE  Versions(n) \subseteq 1 .. n /\ Versions(n) \in SUBSET Nat
BY DEF Versions

\* A step is a record of its level, its values and what was read.
LEMMA StepOfType ==
  ASSUME NEW l \in Nat, NEW vals \in SUBSET Nat, NEW n \in Nat
  PROVE  StepOf(l, vals, n) \in StepType
BY DEF StepOf, StepType

\* The steps of a key level node.
LEMMA KeyStepsType ==
  ASSUME NEW k \in Nat, NEW r, r.n \in Nat
  PROVE  KeySteps(k, r) \in Seq(StepType)
<1>1. (IF Readable(k, r) THEN Versions(r.n) ELSE {}) \in SUBSET Nat
  BY VersionsType
<1>2. StepOf(k, IF Readable(k, r) THEN Versions(r.n) ELSE {}, r.n) \in StepType
  BY <1>1, StepOfType
<1> QED BY <1>2 DEF KeySteps

\* Whose promise a call has.
LEMMA MemoizerFacts ==
  ASSUME Typing, NEW p \in Calls, NEW k \in Keys
  PROVE  /\ Memoizer(p) = call[p].context /\ Memoizer(p) \in Contexts
         /\ memo[Memoizer(p)][k].n \in Nat /\ memo[Memoizer(p)][k].t \in Nat
BY CallFacts, PromiseFacts DEF Memoizer

\* A promise is replaced.
LEMMA MemoUpdate ==
  ASSUME Typing, NEW c \in Contexts, NEW k \in Keys, NEW x \in PromiseType,
         memo' = [memo EXCEPT ![c][k] = x]
  PROVE  /\ memo' \in [Contexts -> [Keys -> PromiseType]]
         /\ \A d \in Contexts, j \in Keys :
              memo'[d][j] = IF d = c /\ j = k THEN x ELSE memo[d][j]
BY DEF Typing

\* Counting a read keeps the types.
LEMMA CountType ==
  ASSUME Typing, NEW p \in Calls, at[p] \in Keys, Count(p)
  PROVE  reads' \in [Contexts -> [Keys -> Nat]]
<1>1. call[p].context \in Contexts
  BY CallFacts
<1>2. reads[call[p].context][at[p]] + 1 \in Nat
  BY <1>1 DEF Typing
<1> QED BY <1>1, <1>2 DEF Count, Typing

\* A step of a reader keeps the types.
LEMMA TypingStep ==
  ASSUME Typing, PlaceInv, NEW p \in Calls, Step(p)
  PROVE  Typing'
<1>0. /\ call[p].context \in Contexts /\ call[p].length \in Nat /\ at[p] \in Nat
      /\ began[p] \in Nat /\ trees[p] \in SUBSET Nat /\ steps[p] \in Seq(StepType)
  BY CallFacts DEF Typing
<1>1. CASE Begin(p)
  <2>1. FirstKey(p) \in Nat
    BY <1>0, KeyFacts DEF FirstKey
  <2>2. now \in Nat
    BY ReaderAssumption DEF Typing
  <2>3. [k \in Keys |-> Len(storage[k])] \in [Keys -> Nat]
    BY DEF Typing
  <2>4. floor' \in [Contexts -> [Keys -> Nat]]
    BY <1>0, <1>1, <2>3 DEF Begin, Typing
  <2> QED BY <1>1, <2>1, <2>2, <2>4 DEF Begin, Typing
<1>2. CASE Direct(p)
  <2>1. at[p] \in Keys
    BY <1>2 DEF Direct, PlaceInv, Placed
  <2>2. reads' \in [Contexts -> [Keys -> Nat]]
    BY <1>2, <2>1, CountType DEF Direct
  <2>3. KeySteps(at[p], Promise("ok", Len(storage[at[p]]), 0)) \in Seq(StepType)
    <3>1. Promise("ok", Len(storage[at[p]]), 0).n \in Nat
      BY <2>1 DEF Promise, Typing
    <3> QED BY <1>0, <3>1, KeyStepsType
  <2>4. steps' \in [Calls -> Seq(StepType)]
    BY <1>2, <2>3 DEF Direct, Typing
  <2> QED BY <1>2, <2>2, <2>4 DEF Direct, Typing
<1>3. CASE Read(p)
  <2>1. at[p] \in Keys
    BY <1>3 DEF Read, PlaceInv, Placed
  <2>2. reads' \in [Contexts -> [Keys -> Nat]]
    BY <1>3, <2>1, CountType DEF Read, Typing
  <2>3. Promise("pending", 0, began[p]) \in PromiseType
    BY <1>0 DEF Promise, PromiseType
  <2>4. memo' \in [Contexts -> [Keys -> PromiseType]]
    <3>1. memo \in [Contexts -> [Keys -> PromiseType]]
      BY DEF Typing
    <3>2. memo' = memo \/ memo' = [memo EXCEPT ![call[p].context][at[p]] = Promise("pending", 0, began[p])]
      BY <1>3 DEF Read, Memoizer
    <3> QED BY <1>0, <2>1, <2>3, <3>1, <3>2, MemoUpdate
  <2> QED BY <1>3, <2>2, <2>4 DEF Read, Typing
<1>4. CASE Resume(p)
  <2>1. at[p] \in Keys /\ memo[Memoizer(p)][at[p]].n \in Nat
    BY <1>4, MemoizerFacts DEF Resume, PlaceInv, Placed
  <2> DEFINE r == memo[Memoizer(p)][at[p]]
  <2>2. KeySteps(at[p], r) \in Seq(StepType)
    BY <1>0, <2>1, KeyStepsType
  <2>3. steps[p] \o KeySteps(at[p], r) \in Seq(StepType)
    BY <1>0, <2>2
  <2>4. Versions(r.n) \in SUBSET Nat
    BY <2>1, VersionsType
  <2>5. /\ steps' = steps \/ steps' = [steps EXCEPT ![p] = @ \o KeySteps(at[p], r)]
        /\ trees' = trees \/ trees' = [trees EXCEPT ![p] = Versions(r.n)]
        /\ at' = at \/ at' = [at EXCEPT ![p] = @ + 1]
        /\ \E next \in {"failed", "read", "done", "walk"} : pc' = [pc EXCEPT ![p] = next]
    BY <1>4 DEF Resume
  <2>6. at[p] + 1 \in Nat
    BY <1>0
  <2> HIDE DEF r
  <2>7. steps' \in [Calls -> Seq(StepType)]
    BY <2>3, <2>5 DEF Typing
  <2>8. trees' \in [Calls -> SUBSET Nat]
    BY <2>4, <2>5 DEF Typing
  <2>9. at' \in [Calls -> Nat]
    BY <2>5, <2>6 DEF Typing
  <2>10. pc' \in [Calls -> {"begin", "read", "await", "walk", "done", "failed"}]
    BY <2>5 DEF Typing
  <2> QED BY <1>4, <2>7, <2>8, <2>9, <2>10 DEF Resume, Typing
<1>5. CASE Walk(p)
  <2>1. memo[Memoizer(p)][KeyLevelNodes].n \in Nat
    BY KeyFacts, MemoizerFacts
  <2>2. Values(p) \in SUBSET Nat /\ Below(p) \in SUBSET Nat
    BY <1>0 DEF Values, Below
  <2> DEFINE x == StepOf(at[p], Values(p), memo[Memoizer(p)][KeyLevelNodes].n)
  <2>3. x \in StepType
    BY <1>0, <2>1, <2>2, StepOfType
  <2>4. steps' = steps \/ steps' = [steps EXCEPT ![p] = Append(@, x)]
    BY <1>5 DEF Walk
  <2> HIDE DEF x
  <2>5. steps' \in [Calls -> Seq(StepType)]
    <3>1. Append(steps[p], x) \in Seq(StepType)
      BY <1>0, <2>3
    <3> QED BY <2>4, <3>1 DEF Typing
  <2>6. at[p] + 1 \in Nat
    BY <1>0
  <2> QED BY <1>5, <2>2, <2>5, <2>6 DEF Walk, Typing
<1> QED BY <1>1, <1>2, <1>3, <1>4, <1>5 DEF Step

\* Every step keeps the types.
LEMMA TypingNext ==
  ASSUME Typing, PlaceInv, [Next]_vars
  PROVE  Typing'
<1>1. CASE Tick
  <2>1. now' \in 1 .. MaxTime
    BY <1>1, ReaderAssumption DEF Tick, Typing
  <2> QED BY <1>1, <2>1 DEF Tick, Typing
<1>2. ASSUME NEW k \in Keys, Write(k) PROVE Typing'
  <2>1. PICK e \in Entries[k] : storage' = [storage EXCEPT ![k] = Append(@, e)]
    BY <1>2 DEF Write
  <2>2. e \in AllEntries /\ storage[k] \in Seq(AllEntries)
    BY DEF AllEntries, Typing
  <2>3. /\ Append(storage[k], e) \in Seq(AllEntries)
        /\ Len(Append(storage[k], e)) = Len(storage[k]) + 1
    BY <2>2
  <2>4. Len(storage[k]) + 1 <= MaxWrites[k]
    BY <1>2, <2>2, ReaderAssumption DEF Write
  <2>5. storage' \in [Keys -> Seq(AllEntries)]
    BY <2>1, <2>3 DEF Typing
  <2>6. \A j \in Keys : Len(storage'[j]) <= MaxWrites[j]
    BY <2>1, <2>3, <2>4 DEF Typing
  <2> QED BY <1>2, <2>5, <2>6 DEF Write, Typing
<1>3. ASSUME NEW c \in Contexts, NEW k \in Keys, Settle(c, k) PROVE Typing'
  <2>1. memo[c][k] \in PromiseType /\ Len(storage[k]) \in Nat
    BY PromiseFacts
  <2>2. /\ \A lost \in BOOLEAN :
             [memo[c][k] EXCEPT !.state = "ok", !.n = Len(storage[k]), !.lost = lost] \in PromiseType
        /\ [memo[c][k] EXCEPT !.state = "rejected"] \in PromiseType
    BY <2>1 DEF PromiseType
  <2>3. memo' \in [Contexts -> [Keys -> PromiseType]]
    <3>1. memo \in [Contexts -> [Keys -> PromiseType]]
      BY DEF Typing
    <3>2. \/ \E lost \in {FALSE, history} :
               memo' = [memo EXCEPT ![c][k] =
                          [memo[c][k] EXCEPT !.state = "ok", !.n = Len(storage[k]), !.lost = lost]]
          \/ memo' = [memo EXCEPT ![c][k] = [memo[c][k] EXCEPT !.state = "rejected"]]
      BY <1>3, <3>1 DEF Settle
    <3>3. {FALSE, history} \subseteq BOOLEAN
      BY DEF Typing
    <3> QED BY <2>2, <3>2, <3>3, MemoUpdate
  <2> QED BY <1>3, <2>3 DEF Settle, Typing
<1>4. CASE UNCHANGED vars
  BY <1>4 DEF vars, Typing
<1> QED BY <1>1, <1>2, <1>3, <1>4, TypingStep DEF Next

-----------------------------------------------------------------------------
(* What a step may change *)

\* Entries are only added, and the history stays what it is.
LEMMA StorageChange ==
  ASSUME Typing, [Next]_vars
  PROVE  /\ call' = call /\ history' = history
         /\ \A k \in Keys :
              /\ Len(storage[k]) \in Nat /\ Len(storage'[k]) \in Nat
              /\ Len(storage[k]) <= Len(storage'[k])
              /\ \A v \in 1 .. Len(storage[k]) : storage'[k][v] = storage[k][v]
<1>0. \A k \in Keys : storage[k] \in Seq(AllEntries)
  BY DEF Typing
<1>1. ASSUME NEW j \in Keys, Write(j)
      PROVE  \A k \in Keys :
               /\ Len(storage[k]) \in Nat /\ Len(storage'[k]) \in Nat
               /\ Len(storage[k]) <= Len(storage'[k])
               /\ \A v \in 1 .. Len(storage[k]) : storage'[k][v] = storage[k][v]
  <2>1. PICK e \in Entries[j] : storage' = [storage EXCEPT ![j] = Append(@, e)]
    BY <1>1 DEF Write
  <2>2. e \in AllEntries
    BY DEF AllEntries
  <2> TAKE k \in Keys
  <2>3. CASE k # j
    BY <1>0, <2>1, <2>3 DEF Typing
  <2>4. CASE k = j
    <3>1. storage'[k] = Append(storage[k], e)
      BY <2>1, <2>4 DEF Typing
    <3> QED BY <1>0, <2>2, <3>1
  <2> QED BY <2>3, <2>4
<1>2. \/ storage' = storage
      \/ \E j \in Keys : Write(j)
  BY DEF Next, vars, Tick, Step, Begin, Direct, Read, Resume, Walk, Settle
<1>3. call' = call /\ history' = history
  BY DEF Next, vars, Tick, Write, Step, Begin, Direct, Read, Resume, Walk, Settle
<1> QED BY <1>0, <1>1, <1>2, <1>3

\* A promise is made by a call, and settled once.
PromiseKept(c, k) == memo'[c][k] = memo[c][k]
PromiseMade(c, k) ==
  /\ memo[c][k].state = "none" /\ memo'[c][k].state = "pending" /\ memo'[c][k].n = 0
  /\ \E p \in Calls : /\ call[p].context = c /\ pc'[p] = "await" /\ at[p] = k
                       /\ Read(p) /\ ~Known(p) /\ memo'[c][k].t = began[p]
PromiseSettled(c, k) ==
  /\ memo[c][k].state = "pending" /\ storage' = storage /\ memo'[c][k].t = memo[c][k].t
  /\ UNCHANGED <<pc, floor, reads>>
  /\ \/ memo'[c][k].state = "ok" /\ memo'[c][k].n = Len(storage[k])
     \/ memo'[c][k].state = "rejected" /\ memo'[c][k].n = memo[c][k].n

\* A step leaves a promise alone, makes it or settles it.
LEMMA MemoChange ==
  ASSUME Typing, PlaceInv, [Next]_vars, NEW c \in Contexts, NEW k \in Keys
  PROVE  PromiseKept(c, k) \/ PromiseMade(c, k) \/ PromiseSettled(c, k)
<1>1. ASSUME NEW p \in Calls, Read(p)
      PROVE  PromiseKept(c, k) \/ PromiseMade(c, k)
  <2>1. CASE Known(p)
    BY <1>1, <2>1 DEF Read, PromiseKept
  <2>2. CASE ~Known(p)
    <3>1. at[p] \in Keys /\ call[p].context \in Contexts /\ began[p] \in Nat
      BY <1>1, CallFacts DEF Read, PlaceInv, Placed, Typing
    <3> DEFINE x == Promise("pending", 0, began[p])
    <3>2. x \in PromiseType /\ x.state = "pending" /\ x.n = 0 /\ x.t = began[p]
      BY <3>1 DEF Promise, PromiseType
    <3>3. memo' = [memo EXCEPT ![call[p].context][at[p]] = x]
      BY <1>1, <2>2 DEF Read, Memoizer
    <3>4. memo[call[p].context][at[p]].state = "none" /\ pc'[p] = "await"
      BY <1>1, <2>2 DEF Known, Memoizer, Read, Typing
    <3> HIDE DEF x
    <3>5. memo'[c][k] = IF c = call[p].context /\ k = at[p] THEN x ELSE memo[c][k]
      BY <3>1, <3>2, <3>3, MemoUpdate
    <3> QED BY <1>1, <2>2, <3>2, <3>4, <3>5 DEF PromiseKept, PromiseMade
  <2> QED BY <2>1, <2>2
<1>2. ASSUME NEW d \in Contexts, NEW j \in Keys, Settle(d, j)
      PROVE  PromiseKept(c, k) \/ PromiseSettled(c, k)
  <2>1. memo[d][j] \in PromiseType /\ Len(storage[j]) \in Nat /\ memo[d][j].state = "pending"
    BY <1>2, PromiseFacts DEF Settle
  <2> DEFINE ok(lost) == [memo[d][j] EXCEPT !.state = "ok", !.n = Len(storage[j]), !.lost = lost]
             no == [memo[d][j] EXCEPT !.state = "rejected"]
  <2>2. /\ \A lost \in BOOLEAN :
             /\ ok(lost) \in PromiseType /\ ok(lost).state = "ok"
             /\ ok(lost).n = Len(storage[j]) /\ ok(lost).t = memo[d][j].t
        /\ no \in PromiseType /\ no.state = "rejected"
        /\ no.n = memo[d][j].n /\ no.t = memo[d][j].t
    BY <2>1 DEF PromiseType
  <2>3. \E lost \in BOOLEAN : memo' = [memo EXCEPT ![d][j] = ok(lost)] \/ memo' = [memo EXCEPT ![d][j] = no]
    BY <1>2 DEF Settle, Typing
  <2> HIDE DEF ok, no
  <2>4. \E lost \in BOOLEAN :
          \/ memo'[c][k] = IF c = d /\ k = j THEN ok(lost) ELSE memo[c][k]
          \/ memo'[c][k] = IF c = d /\ k = j THEN no ELSE memo[c][k]
    BY <2>2, <2>3, MemoUpdate
  <2> QED BY <1>2, <2>1, <2>2, <2>4 DEF Settle, PromiseKept, PromiseSettled
<1>3. \/ memo' = memo
      \/ \E p \in Calls : Read(p)
      \/ \E d \in Contexts, j \in Keys : Settle(d, j)
  BY DEF Next, vars, Tick, Write, Step, Begin, Direct, Resume, Walk
<1> QED BY <1>1, <1>2, <1>3 DEF PromiseKept

\* What a promise is once it is fulfilled; a call that began does not begin again.
LEMMA PromiseStable ==
  ASSUME Typing, PlaceInv, [Next]_vars, NEW c \in Contexts, NEW k \in Keys
  PROVE  /\ memo[c][k].state = "ok" => memo'[c][k] = memo[c][k]
         /\ memo[c][k].state # "none" => memo'[c][k].state # "none"
BY MemoChange DEF PromiseKept, PromiseMade, PromiseSettled

\* A reader changes by its own steps only.
LEMMA CallChange ==
  ASSUME Typing, [Next]_vars, NEW q \in Calls
  PROVE  \/ UNCHANGED <<pc[q], at[q], began[q], trees[q], steps[q]>>
         \/ Step(q)
<1>1. ASSUME NEW p \in Calls, p # q, Step(p)
      PROVE  UNCHANGED <<pc[q], at[q], began[q], trees[q], steps[q]>>
  <2>1. CASE Begin(p)
    BY <1>1, <2>1 DEF Begin, Typing
  <2>2. CASE Direct(p)
    BY <1>1, <2>2 DEF Direct, Typing
  <2>3. CASE Read(p)
    BY <1>1, <2>3 DEF Read, Typing
  <2>4. CASE Resume(p)
    BY <1>1, <2>4 DEF Resume, Typing
  <2>5. CASE Walk(p)
    BY <1>1, <2>5 DEF Walk, Typing
  <2> QED BY <1>1, <2>1, <2>2, <2>3, <2>4, <2>5 DEF Step
<1>2. \/ UNCHANGED <<pc, at, began, trees, steps>>
      \/ \E p \in Calls : Step(p)
  BY DEF Next, vars, Tick, Write, Settle
<1> QED BY <1>1, <1>2

\* The now of a reader is read once.
LEMMA BeganChange ==
  ASSUME Typing, [Next]_vars, NEW q \in Calls, pc[q] # "begin"
  PROVE  began'[q] = began[q] /\ pc'[q] # "begin"
<1>1. CASE Step(q)
  <2>1. Direct(q) \/ Read(q) \/ Resume(q) \/ Walk(q)
    BY <1>1 DEF Step, Begin
  <2> QED BY <2>1 DEF Direct, Read, Resume, Walk, Typing
<1> QED BY <1>1, CallChange

\* floor is taken when the first call of a context begins.
LEMMA FloorChange ==
  ASSUME Typing, [Next]_vars, NEW c \in Contexts
  PROVE  \/ floor'[c] = floor[c]
         \/ /\ \A q \in Calls : call[q].context = c => pc[q] = "begin"
            /\ \A k \in Keys : floor'[c][k] = Len(storage[k])
            /\ UNCHANGED <<storage, memo, steps>>
<1>1. ASSUME NEW p \in Calls, Begin(p), floor'[c] # floor[c]
      PROVE  /\ \A q \in Calls : call[q].context = c => pc[q] = "begin"
             /\ \A k \in Keys : floor'[c][k] = Len(storage[k])
             /\ UNCHANGED <<storage, memo, steps>>
  <2>1. /\ \A q \in Calls : call[q].context = call[p].context => pc[q] = "begin"
        /\ floor' = [floor EXCEPT ![call[p].context] = [k \in Keys |-> Len(storage[k])]]
    BY <1>1 DEF Begin
  <2>2. c = call[p].context
    BY <1>1, <2>1 DEF Typing
  <2> QED BY <1>1, <2>1, <2>2 DEF Begin, Typing
<1>2. floor' = floor \/ \E p \in Calls : Begin(p)
  BY DEF Next, vars, Tick, Write, Step, Direct, Read, Resume, Walk, Settle
<1> QED BY <1>1, <1>2

-----------------------------------------------------------------------------
(* Places *)

\* A step of a reader leaves it at a place of its path.
LEMMA PlacedStep ==
  ASSUME Typing, PlaceInv, MemoInv, NEW p \in Calls, Step(p), [Next]_vars
  PROVE  Placed(p)'
<1> DEFINE c == call[p].context
           m == memo[c]
<1>0. /\ call' = call /\ c \in Contexts /\ call[p].kind \in {"iterate", "node"}
      /\ call[p].length \in Nat /\ call[p].length >= 1 /\ at[p] \in Nat /\ Placed(p)
  BY CallFacts, StorageChange DEF PlaceInv
<1>1. CASE Begin(p)
  <2>1. at'[p] = FirstKey(p) /\ trees' = trees
        /\ pc'[p] = (IF FirstKey(p) = 0 THEN "done" ELSE "read")
    BY <1>1 DEF Begin, Typing
  <2>2. pc[p] = "begin"
    BY <1>1 DEF Begin
  <2>3. FirstKey(p) # 0 => FirstKey(p) \in Keys
    BY <1>0, KeyFacts DEF FirstKey, Keys
  <2>4. /\ FirstKey(p) <= call[p].length
        /\ call[p].kind = "node" => FirstKey(p) = call[p].length \/ FirstKey(p) = KeyLevelNodes
    BY <1>0, KeyFacts DEF FirstKey
  <2> HIDE DEF c
  <2> QED BY <1>0, <2>1, <2>2, <2>3, <2>4 DEF Placed
<1>2. CASE Direct(p)
  <2>1. pc[p] = "read" /\ pc'[p] \in {"done", "failed"} /\ UNCHANGED <<at, trees>>
    BY <1>2 DEF Direct, Typing
  <2> QED BY <1>0, <2>1 DEF Placed
<1>3. CASE Read(p)
  <2>1. /\ pc[p] = "read" /\ pc'[p] = "await" /\ UNCHANGED <<at, trees>>
        /\ call[p].kind = "iterate" \/ at[p] = KeyLevelNodes
    BY <1>3 DEF Read, Typing
  <2>2. at[p] \in Keys
    BY <1>0, <2>1 DEF Placed
  <2>3. memo'[c][at[p]].state # "none"
    <3>1. CASE Known(p)
      BY <1>3, <3>1 DEF Read, Known, Memoizer
    <3>2. CASE ~Known(p)
      <4>1. memo' = [memo EXCEPT ![c][at[p]] = Promise("pending", 0, began[p])]
        BY <1>3, <3>2 DEF Read, Memoizer
      <4>2. Promise("pending", 0, began[p]) \in PromiseType
        BY DEF Promise, PromiseType, Typing
      <4>3. memo'[c][at[p]] = Promise("pending", 0, began[p])
        BY <1>0, <2>2, <4>1, <4>2, MemoUpdate
      <4> QED BY <4>3 DEF Promise
    <3> QED BY <3>1, <3>2
  <2> HIDE DEF c
  <2>4. Placed(p)' <=>
          /\ at[p] <= call[p].length /\ at[p] \in Keys
          /\ call[p].kind = "node" => at[p] = call[p].length \/ at[p] = KeyLevelNodes
          /\ call[p].kind = "iterate" \/ at[p] = KeyLevelNodes
          /\ memo'[call[p].context][at[p]].state # "none"
          /\ trees[p] = {}
    BY <1>0, <2>1 DEF Placed
  <2> QED BY <1>0, <2>1, <2>2, <2>3, <2>4 DEF Placed, c
<1>4. CASE Resume(p)
  <2>1. pc[p] = "await" /\ at[p] \in Keys /\ trees[p] = {} /\ UNCHANGED memo
    BY <1>0, <1>4 DEF Resume, Placed
  <2>2. m[at[p]].state \in {"ok", "rejected"} /\ m[at[p]].n \in Nat
    BY <1>0, <1>4, <2>1, PromiseFacts DEF Resume, Settled, Memoizer
  <2>3. \/ /\ pc'[p] \in {"failed", "done"} /\ UNCHANGED <<at, trees>>
        \/ /\ pc'[p] = "read" /\ at' = [at EXCEPT ![p] = @ + 1] /\ UNCHANGED trees
           /\ at[p] < KeyLevelNodes /\ at[p] < call[p].length
        \/ /\ pc'[p] = "walk" /\ UNCHANGED at /\ at[p] = KeyLevelNodes
           /\ trees'[p] = Versions(m[KeyLevelNodes].n) /\ m[KeyLevelNodes].state = "ok"
    <3>1. at[p] < KeyLevelNodes \/ at[p] = KeyLevelNodes
      BY <1>0, <2>1, KeyFacts DEF Keys
    <3>2. CASE m[at[p]].state = "rejected"
      BY <1>4, <3>2 DEF Resume, Memoizer, Typing
    <3>3. CASE m[at[p]].state = "ok" /\ at[p] < KeyLevelNodes
      BY <1>4, <3>3 DEF Resume, Memoizer, Typing
    <3>4. CASE m[at[p]].state = "ok" /\ at[p] = KeyLevelNodes
      BY <1>4, <3>4, KeyFacts DEF Resume, Memoizer, Typing
    <3> QED BY <2>2, <3>1, <3>2, <3>3, <3>4
  <2>4. CASE pc'[p] \in {"failed", "done"} /\ UNCHANGED <<at, trees>>
    BY <1>0, <2>1, <2>4 DEF Placed
  <2>5. CASE /\ pc'[p] = "read" /\ at' = [at EXCEPT ![p] = @ + 1] /\ UNCHANGED trees
             /\ at[p] < KeyLevelNodes /\ at[p] < call[p].length
    <3>1. at'[p] = at[p] + 1 /\ call[p].kind = "iterate"
      BY <1>0, <2>1, <2>5 DEF Placed, Typing
    <3>2. at[p] + 1 \in Keys /\ at[p] + 1 <= call[p].length
      BY <1>0, <2>1, <2>5, KeyFacts DEF Keys
    <3> QED BY <1>0, <2>1, <2>5, <3>1, <3>2 DEF Placed
  <2>6. CASE /\ pc'[p] = "walk" /\ UNCHANGED at /\ at[p] = KeyLevelNodes
             /\ trees'[p] = Versions(m[KeyLevelNodes].n) /\ m[KeyLevelNodes].state = "ok"
    <3>1. Versions(m[KeyLevelNodes].n) \subseteq 1 .. m[KeyLevelNodes].n
      BY <2>2, <2>6, VersionsType
    <3> QED BY <1>0, <2>1, <2>6, <3>1, KeyFacts DEF Placed
  <2> QED BY <2>3, <2>4, <2>5, <2>6
<1>5. CASE Walk(p)
  <2>1. pc[p] = "walk" /\ UNCHANGED memo
    BY <1>5 DEF Walk
  <2>2. \/ /\ pc'[p] = "walk" /\ at'[p] = at[p] + 1 /\ trees'[p] = Below(p) /\ at[p] < call[p].length
        \/ /\ pc'[p] = "done" /\ at'[p] = at[p] /\ trees'[p] = {}
    BY <1>5, <2>1 DEF Walk, Typing
  <2>3. Below(p) \subseteq trees[p]
    BY DEF Below
  <2>4. at[p] < call[p].length => at[p] + 1 <= call[p].length
    BY <1>0
  <2>5. KeyLevelNodes <= at[p] => KeyLevelNodes <= at[p] + 1
    BY <1>0, KeyFacts
  <2> QED BY <1>0, <2>1, <2>2, <2>3, <2>4, <2>5 DEF Placed
<1> QED BY <1>1, <1>2, <1>3, <1>4, <1>5 DEF Step

\* Every step leaves every reader at a place of its path.
LEMMA PlaceNext ==
  ASSUME Typing, PlaceInv, MemoInv, [Next]_vars
  PROVE  PlaceInv'
<1> SUFFICES ASSUME NEW p \in Calls PROVE Placed(p)'
  BY DEF PlaceInv
<1>1. CASE UNCHANGED <<pc[p], at[p], began[p], trees[p], steps[p]>>
  <2> DEFINE c == call[p].context
  <2>0. call' = call /\ c \in Contexts /\ Placed(p) /\ KeyLevelNodes \in Keys
    BY StorageChange, CallFacts, KeyFacts DEF PlaceInv
  <2>1. /\ memo[c][KeyLevelNodes].state = "ok" => memo'[c][KeyLevelNodes] = memo[c][KeyLevelNodes]
        /\ at[p] \in Keys /\ memo[c][at[p]].state # "none" => memo'[c][at[p]].state # "none"
    BY <2>0, PromiseStable
  <2> HIDE DEF c
  <2>2. CASE pc[p] = "await"
    BY <1>1, <2>0, <2>1, <2>2 DEF Placed, c
  <2>3. CASE pc[p] = "walk"
    BY <1>1, <2>0, <2>1, <2>3 DEF Placed, c
  <2>4. CASE pc[p] \notin {"await", "walk"}
    BY <1>1, <2>0, <2>4 DEF Placed
  <2> QED BY <2>2, <2>3, <2>4
<1>2. CASE Step(p)
  BY <1>2, PlacedStep
<1> QED BY <1>1, <1>2, CallChange

-----------------------------------------------------------------------------
(* Promises and reads *)

\* Every step keeps the promises as new as their context, and within what is stored.
LEMMA MemoNext ==
  ASSUME Typing, PlaceInv, MemoInv, [Next]_vars
  PROVE  MemoInv'
<1> SUFFICES ASSUME NEW c \in Contexts, NEW k \in Keys
             PROVE  /\ memo'[c][k].n <= Len(storage'[k])
                    /\ floor'[c][k] <= Len(storage'[k])
                    /\ memo'[c][k].state = "ok" => floor'[c][k] <= memo'[c][k].n
                    /\ memo'[c][k].state # "none" =>
                         \E p \in Calls : /\ call'[p].context = c /\ pc'[p] # "begin"
                                          /\ began'[p] = memo'[c][k].t
  BY DEF MemoInv
<1>0. /\ memo[c][k].n \in Nat /\ floor[c][k] \in Nat
      /\ Len(storage[k]) \in Nat /\ Len(storage'[k]) \in Nat /\ Len(storage[k]) <= Len(storage'[k])
      /\ call' = call
      /\ memo[c][k].n <= Len(storage[k]) /\ floor[c][k] <= Len(storage[k])
      /\ memo[c][k].state = "ok" => floor[c][k] <= memo[c][k].n
      /\ memo[c][k].state # "none" =>
           \E p \in Calls : call[p].context = c /\ pc[p] # "begin" /\ began[p] = memo[c][k].t
  BY PromiseFacts, StorageChange DEF Typing, MemoInv
<1>1. memo'[c][k].state # "none" =>
        \E p \in Calls : call[p].context = c /\ pc'[p] # "begin" /\ began'[p] = memo'[c][k].t
  <2>1. memo[c][k].state # "none" =>
          \E p \in Calls : call[p].context = c /\ pc'[p] # "begin" /\ began'[p] = memo[c][k].t
    BY <1>0, BeganChange
  <2>2. CASE PromiseMade(c, k)
    <3>1. PICK p \in Calls : call[p].context = c /\ pc'[p] = "await" /\ Read(p)
                             /\ memo'[c][k].t = began[p]
      BY <2>2 DEF PromiseMade
    <3>2. began'[p] = began[p]
      BY <3>1 DEF Read
    <3> QED BY <3>1, <3>2
  <2> QED BY <2>1, <2>2, MemoChange DEF PromiseKept, PromiseSettled
<1>2. memo'[c][k].n <= Len(storage'[k])
  BY <1>0, MemoChange DEF PromiseKept, PromiseMade, PromiseSettled
<1>3. floor'[c][k] <= Len(storage'[k])
  BY <1>0, FloorChange
<1>4. memo'[c][k].state = "ok" => floor'[c][k] <= memo'[c][k].n
  <2>1. CASE floor'[c] = floor[c]
    <3>1. memo'[c][k].state = "ok" =>
            \/ memo'[c][k] = memo[c][k]
            \/ memo'[c][k].n = Len(storage[k])
      BY MemoChange DEF PromiseKept, PromiseMade, PromiseSettled
    <3> QED BY <1>0, <2>1, <3>1
  <2>2. CASE (\A q \in Calls : call[q].context = c => pc[q] = "begin") /\ UNCHANGED memo
    BY <1>0, <2>2
  <2> QED BY <2>1, <2>2, FloorChange
<1> QED BY <1>0, <1>1, <1>2, <1>3, <1>4

\* Every step keeps the count of the reads at one per promise.
LEMMA ReadsNext ==
  ASSUME Typing, PlaceInv, ReadsInv, [Next]_vars
  PROVE  ReadsInv'
<1> SUFFICES ASSUME NEW c \in Contexts, NEW k \in Keys, ~Reader(c, k)
             PROVE  reads'[c][k] <= IF memo'[c][k].state = "none" THEN 0 ELSE 1
  <2>1. call' = call
    BY StorageChange
  <2> QED BY <2>1 DEF ReadsInv, Reader
<1>0. /\ reads[c][k] \in Nat /\ reads[c][k] <= IF memo[c][k].state = "none" THEN 0 ELSE 1
      /\ memo[c][k].state # "none" => memo'[c][k].state # "none"
  BY PromiseStable DEF Typing, ReadsInv
<1>1. CASE reads'[c][k] = reads[c][k]
  BY <1>0, <1>1
<1>2. ASSUME NEW p \in Calls, Count(p), pc[p] = "read", reads'[c][k] # reads[c][k]
      PROVE  /\ call[p].context = c /\ at[p] = k
             /\ reads'[c][k] = reads[c][k] + 1
  <2>1. call[p].context \in Contexts /\ at[p] \in Keys
    BY <1>2, CallFacts DEF PlaceInv, Placed
  <2> QED BY <1>2, <2>1 DEF Count, Typing
<1>3. ASSUME NEW p \in Calls, Direct(p), reads'[c][k] # reads[c][k] PROVE FALSE
  <2>1. /\ call[p].context = c /\ at[p] = k /\ call[p].kind = "node" /\ k < KeyLevelNodes
        /\ Placed(p) /\ pc[p] = "read"
    BY <1>2, <1>3 DEF Direct, PlaceInv
  <2>2. call[p].length = k
    BY <2>1, KeyFacts DEF Placed
  <2> QED BY <2>1, <2>2 DEF Reader
<1>4. ASSUME NEW p \in Calls, Read(p), reads'[c][k] # reads[c][k]
      PROVE  reads'[c][k] <= IF memo'[c][k].state = "none" THEN 0 ELSE 1
  <2>1. ~Known(p) /\ Count(p) /\ pc[p] = "read" /\ pc'[p] = "await"
    BY <1>4 DEF Read, Typing
  <2>2. call[p].context = c /\ at[p] = k /\ reads'[c][k] = reads[c][k] + 1
    BY <1>2, <1>4, <2>1
  <2>3. memo[c][k].state = "none"
    BY <2>1, <2>2 DEF Known, Memoizer
  <2>4. memo'[c][k].state # "none"
    <3>1. memo' = [memo EXCEPT ![c][k] = Promise("pending", 0, began[p])]
      BY <1>4, <2>1, <2>2 DEF Read, Memoizer
    <3>2. Promise("pending", 0, began[p]) \in PromiseType
      BY DEF Promise, PromiseType, Typing
    <3>3. memo'[c][k] = Promise("pending", 0, began[p])
      BY <3>1, <3>2, MemoUpdate
    <3> QED BY <3>3 DEF Promise
  <2> QED BY <1>0, <2>2, <2>3, <2>4
<1>5. reads' = reads \/ \E p \in Calls : Direct(p) \/ Read(p)
  BY DEF Next, vars, Tick, Write, Step, Begin, Resume, Walk, Settle
<1> QED BY <1>1, <1>3, <1>4, <1>5

-----------------------------------------------------------------------------
(* The steps that are given *)

\* The step of a key level node.
KeyStep(k, r) == StepOf(k, IF Readable(k, r) THEN Versions(r.n) ELSE {}, r.n)

\* The step of a key level node, which is given if the key is there.
LEMMA KeyStepFacts ==
  ASSUME NEW k \in Nat, NEW r, r.n \in Nat
  PROVE  /\ KeyStep(k, r) \in StepType /\ KeyStep(k, r).level = k /\ KeyStep(k, r).n = r.n
         /\ KeySteps(k, r) = IF IsThere(r.n) THEN <<KeyStep(k, r)>> ELSE <<>>
<1>1. (IF Readable(k, r) THEN Versions(r.n) ELSE {}) \in SUBSET Nat
  BY VersionsType
<1>2. KeyStep(k, r) \in StepType
  BY <1>1, StepOfType DEF KeyStep
<1> QED BY <1>2 DEF KeyStep, KeySteps, StepOf

\* What a call at a key level node adds, once the promise is fulfilled.
LEMMA ResumeSteps ==
  ASSUME Typing, PlaceInv, NEW p \in Calls, Resume(p), at[p] < KeyLevelNodes,
         memo[call[p].context][at[p]].state = "ok",
         NEW r, r = memo[call[p].context][at[p]]
  PROVE  /\ r.n \in Nat
         /\ steps'[p] = IF IsThere(r.n) THEN Append(steps[p], KeyStep(at[p], r)) ELSE steps[p]
         /\ IF at[p] < call[p].length THEN at'[p] = at[p] + 1 /\ pc'[p] = "read"
            ELSE at'[p] = at[p] /\ pc'[p] = "done"
<1>0. /\ at[p] \in Keys /\ at[p] \in Nat /\ call[p].context \in Contexts
      /\ steps[p] \in Seq(StepType)
  BY CallFacts DEF Resume, PlaceInv, Placed, Typing
<1>1. r.n \in Nat
  BY <1>0, PromiseFacts
<1>2. /\ steps'[p] = steps[p] \o KeySteps(at[p], r)
      /\ IF at[p] < call[p].length THEN at'[p] = at[p] + 1 /\ pc'[p] = "read"
         ELSE at'[p] = at[p] /\ pc'[p] = "done"
  BY <1>0 DEF Resume, Memoizer, Typing
<1>3. KeyStep(at[p], r) \in StepType
  BY <1>0, <1>1, KeyStepFacts
<1>4. /\ steps[p] \o <<>> = steps[p]
      /\ steps[p] \o <<KeyStep(at[p], r)>> = Append(steps[p], KeyStep(at[p], r))
  BY <1>0, <1>3
<1> QED BY <1>0, <1>1, <1>2, <1>4, KeyStepFacts

\* The promise a call waits for at a key level node, or walks the tree of, is as
\* new as the context.
LEMMA FreshStep ==
  ASSUME Typing, PlaceInv, MemoInv, FreshInv, NEW p \in Calls, Step(p), [Next]_vars
  PROVE  Fresh(p)'
<1> DEFINE c == call[p].context
<1>0. /\ call' = call /\ c \in Contexts /\ at[p] \in Nat /\ steps[p] \in Seq(StepType)
      /\ Placed(p) /\ Fresh(p)
  BY CallFacts, StorageChange DEF PlaceInv, FreshInv, Typing
<1>1. ASSUME NEW x \in StepType, steps'[p] = Append(steps[p], x), floor' = floor,
             x.n >= floor[c][KeyLevel(x.level)]
      PROVE  Fresh(p)'
  <2> SUFFICES ASSUME NEW i \in DOMAIN steps'[p]
               PROVE  steps'[p][i].n >= floor[c][KeyLevel(steps'[p][i].level)]
    BY <1>0, <1>1 DEF Fresh, KeyLevel
  <2>1. \/ i \in DOMAIN steps[p] /\ steps'[p][i] = steps[p][i]
        \/ steps'[p][i] = x
    BY <1>0, <1>1
  <2> QED BY <1>0, <1>1, <2>1 DEF Fresh
<1>2. CASE steps'[p] = steps[p] /\ floor' = floor
  BY <1>0, <1>2 DEF Fresh, KeyLevel
<1>3. CASE Begin(p)
  <2>1. steps'[p] = <<>>
    BY <1>0, <1>3 DEF Begin, Placed
  <2> QED BY <2>1 DEF Fresh
<1>4. CASE Direct(p)
  <2>1. at[p] \in Keys /\ at[p] < KeyLevelNodes /\ floor' = floor
    BY <1>0, <1>4 DEF Direct, Placed
  <2> DEFINE n == Len(storage[at[p]])
             r == Promise("ok", n, 0)
  <2>2. n \in Nat /\ floor[c][at[p]] <= n /\ floor[c][at[p]] \in Nat
    BY <1>0, <2>1 DEF MemoInv, Typing
  <2>r. r.n = n
    BY DEF Promise
  <2>3. steps'[p] = steps[p] \/ steps'[p] = KeySteps(at[p], r)
    BY <1>4 DEF Direct, Typing
  <2> HIDE DEF n, r
  <2>4. CASE steps'[p] = KeySteps(at[p], r)
    <3>1. steps'[p] = <<>> \/ steps'[p] = <<KeyStep(at[p], r)>>
      BY <1>0, <2>2, <2>r, <2>4, KeyStepFacts
    <3>2. KeyStep(at[p], r).level = at[p] /\ KeyStep(at[p], r).n = n
      BY <1>0, <2>2, <2>r, KeyStepFacts
    <3>3. n >= floor[c][KeyLevel(at[p])]
      BY <2>1, <2>2 DEF KeyLevel
    <3> QED BY <1>0, <2>1, <3>1, <3>2, <3>3 DEF Fresh, KeyLevel
  <2> QED BY <1>2, <2>1, <2>3, <2>4
<1>5. CASE Read(p)
  BY <1>2, <1>5 DEF Read
<1>6. CASE Resume(p)
  <2>1. at[p] \in Keys /\ floor' = floor
    BY <1>0, <1>6 DEF Resume, Placed
  <2>2. CASE at[p] < KeyLevelNodes /\ memo[c][at[p]].state = "ok"
    <3> DEFINE r == memo[c][at[p]]
    <3>1. r.n \in Nat /\ (steps'[p] = steps[p] \/ steps'[p] = Append(steps[p], KeyStep(at[p], r)))
      BY <1>6, <2>2, ResumeSteps
    <3>2. r.n >= floor[c][at[p]]
      <4>1. floor[c][at[p]] <= r.n /\ floor[c][at[p]] \in Nat
        BY <1>0, <2>1, <2>2 DEF MemoInv, Typing
      <4> QED BY <3>1, <4>1
    <3> HIDE DEF r, c
    <3>3. /\ KeyStep(at[p], r) \in StepType
          /\ KeyStep(at[p], r).n >= floor[c][KeyLevel(KeyStep(at[p], r).level)]
      BY <1>0, <2>2, <3>1, <3>2, KeyStepFacts DEF KeyLevel
    <3> QED BY <1>1, <1>2, <2>1, <3>1, <3>3
  <2>3. CASE ~(at[p] < KeyLevelNodes /\ memo[c][at[p]].state = "ok")
    <3>1. memo[c][at[p]].state \in {"ok", "rejected"}
      BY <1>6 DEF Resume, Settled, Memoizer
    <3>2. steps' = steps
      BY <1>6, <2>3, <3>1 DEF Resume, Memoizer
    <3> QED BY <1>2, <2>1, <3>2
  <2> QED BY <2>2, <2>3
<1>7. CASE Walk(p)
  <2>1. KeyLevelNodes <= at[p] /\ memo[c][KeyLevelNodes].state = "ok" /\ floor' = floor
    BY <1>0, <1>7 DEF Walk, Placed
  <2> DEFINE n == memo[c][KeyLevelNodes].n
             x == StepOf(at[p], Values(p), n)
  <2>2. n \in Nat /\ n >= floor[c][KeyLevelNodes]
    <3>1. /\ n \in Nat /\ floor[c][KeyLevelNodes] <= n /\ floor[c][KeyLevelNodes] \in Nat
      BY <1>0, <2>1, KeyFacts, PromiseFacts DEF MemoInv, Typing
    <3> QED BY <3>1
  <2>3. steps'[p] = steps[p] \/ steps'[p] = Append(steps[p], x)
    BY <1>7 DEF Walk, Memoizer, Typing
  <2>4. Values(p) \in SUBSET Nat
    BY DEF Values, Typing
  <2>5. x \in StepType /\ x.level = at[p] /\ x.n = n
    BY <1>0, <2>2, <2>4, StepOfType DEF StepOf
  <2>6. KeyLevel(at[p]) = KeyLevelNodes
    BY <1>0, <2>1, KeyFacts DEF KeyLevel
  <2> HIDE DEF x, n, c
  <2> QED BY <1>1, <1>2, <2>1, <2>2, <2>3, <2>5, <2>6
<1> QED BY <1>3, <1>4, <1>5, <1>6, <1>7 DEF Step

\* No step gives a reader what is older than its context.
LEMMA FreshNext ==
  ASSUME Typing, PlaceInv, MemoInv, FreshInv, [Next]_vars
  PROVE  FreshInv'
<1> SUFFICES ASSUME NEW p \in Calls PROVE Fresh(p)'
  BY DEF FreshInv
<1>1. CASE steps'[p] = steps[p]
  <2>0. call' = call /\ call[p].context \in Contexts /\ Placed(p) /\ Fresh(p)
    BY StorageChange, CallFacts DEF PlaceInv, FreshInv
  <2>1. CASE floor'[call[p].context] = floor[call[p].context]
    BY <1>1, <2>0, <2>1 DEF Fresh, KeyLevel
  <2>2. CASE pc[p] = "begin"
    BY <1>1, <2>0, <2>2 DEF Fresh, Placed
  <2> QED BY <2>0, <2>1, <2>2, FloorChange
<1>2. CASE Step(p)
  BY <1>2, FreshStep
<1> QED BY <1>1, <1>2, CallChange

\* A step that was given stays dated, whatever is written and begun later.
LEMMA DatedStable ==
  ASSUME Typing, PlaceInv, [Next]_vars, NEW p \in Calls, pc[p] # "begin", NEW x \in StepType,
         x.level >= KeyLevelNodes => x.vals \subseteq 1 .. Len(storage[KeyLevelNodes]),
         LiveFor(p, x)
  PROVE  /\ x.level >= KeyLevelNodes => x.vals \subseteq 1 .. Len(storage'[KeyLevelNodes])
         /\ LiveFor(p, x)'
<1> SUFFICES ASSUME x.level >= KeyLevelNodes
             PROVE  x.vals \subseteq 1 .. Len(storage'[KeyLevelNodes]) /\ LiveFor(p, x)'
  BY DEF LiveFor
<1>1. /\ call' = call /\ history' = history
      /\ Len(storage[KeyLevelNodes]) \in Nat /\ Len(storage'[KeyLevelNodes]) \in Nat
      /\ Len(storage[KeyLevelNodes]) <= Len(storage'[KeyLevelNodes])
      /\ \A v \in x.vals : storage'[KeyLevelNodes][v] = storage[KeyLevelNodes][v]
  BY StorageChange, KeyFacts
<1>2. PICK q \in Calls :
        /\ IF history THEN call[q].context = call[p].context /\ pc[q] # "begin" ELSE q = p
        /\ \A v \in x.vals : IsLive(v, x.level, began[q])
  BY DEF LiveFor
<1>3. began'[q] = began[q] /\ pc'[q] # "begin"
  BY <1>2, BeganChange
<1>4. \A v \in x.vals : IsLive(v, x.level, began[q])'
  BY <1>1, <1>2, <1>3 DEF IsLive
<1>5. LiveFor(p, x)'
  BY <1>1, <1>2, <1>3, <1>4 DEF LiveFor
<1> QED BY <1>1, <1>5

\* A reader gives what is live for a call of its context.
LEMMA DatedNext ==
  ASSUME Typing, PlaceInv, MemoInv, DatedInv, [Next]_vars
  PROVE  DatedInv'
<1> SUFFICES ASSUME NEW p \in Calls PROVE Dated(p)'
  BY DEF DatedInv
<1> DEFINE c == call[p].context
           Old(x) == /\ x.level >= KeyLevelNodes => x.vals \subseteq 1 .. Len(storage[KeyLevelNodes])
                     /\ LiveFor(p, x)
           New(x) == /\ x.level >= KeyLevelNodes => x.vals \subseteq 1 .. Len(storage'[KeyLevelNodes])
                     /\ LiveFor(p, x)'
<1>0. /\ c \in Contexts /\ at[p] \in Nat /\ steps[p] \in Seq(StepType) /\ Placed(p)
      /\ \A i \in DOMAIN steps[p] : steps[p][i] \in StepType /\ Old(steps[p][i])
      /\ KeyLevelNodes \in Nat
  <2>1. /\ c \in Contexts /\ at[p] \in Nat /\ steps[p] \in Seq(StepType) /\ Placed(p)
        /\ KeyLevelNodes \in Nat /\ Dated(p)
    BY CallFacts, KeyFacts DEF PlaceInv, DatedInv, Typing
  <2>2. \A i \in DOMAIN steps[p] : steps[p][i] \in StepType
    BY <2>1
  <2>3. \A i \in DOMAIN steps[p] : Old(steps[p][i])
    BY <2>1 DEF Dated
  <2> QED BY <2>1, <2>2, <2>3
<1>1. ASSUME NEW x \in StepType, Old(x), pc[p] # "begin" PROVE New(x)
  <2>1. /\ x.level >= KeyLevelNodes => x.vals \subseteq 1 .. Len(storage[KeyLevelNodes])
        /\ LiveFor(p, x)
    BY <1>1
  <2>2. /\ x.level >= KeyLevelNodes => x.vals \subseteq 1 .. Len(storage'[KeyLevelNodes])
        /\ LiveFor(p, x)'
    BY <1>1, <2>1, DatedStable
  <2> QED BY <2>2
<1>2. ASSUME \A y \in StepType : \A i \in DOMAIN steps'[p] : steps'[p][i] = y => New(y)
      PROVE  Dated(p)'
  <2> SUFFICES ASSUME NEW i \in DOMAIN steps'[p]
               PROVE  /\ steps'[p][i].level >= KeyLevelNodes =>
                           steps'[p][i].vals \subseteq 1 .. Len(storage'[KeyLevelNodes])
                      /\ LiveFor(p, steps[p][i])'
    BY DEF Dated
  <2>1. steps'[p] \in Seq(StepType)
    BY TypingNext DEF Typing
  <2>2. PICK y \in StepType : steps'[p][i] = y
    BY <2>1
  <2>3. New(y)
    BY <1>2, <2>2
  <2> QED BY <2>2, <2>3 DEF LiveFor
<1> HIDE DEF Old, New
<1>3. CASE steps'[p] = steps[p]
  <2>1. CASE pc[p] = "begin"
    BY <1>0, <1>2, <1>3, <2>1 DEF Placed
  <2>2. CASE pc[p] # "begin"
    <3>1. ASSUME NEW y \in StepType, NEW i \in DOMAIN steps'[p], steps'[p][i] = y PROVE New(y)
      BY <1>0, <1>1, <1>3, <2>2, <3>1
    <3> QED BY <1>2, <3>1
  <2> QED BY <2>1, <2>2
<1>4. ASSUME NEW x \in StepType, Old(x), steps'[p] = Append(steps[p], x), pc[p] # "begin"
      PROVE  Dated(p)'
  <2>1. ASSUME NEW y \in StepType, NEW i \in DOMAIN steps'[p], steps'[p][i] = y PROVE New(y)
    <3>1. (i \in DOMAIN steps[p] /\ y = steps[p][i]) \/ y = x
      BY <1>0, <1>4, <2>1
    <3>2. Old(y)
      BY <1>0, <1>4, <3>1
    <3> QED BY <1>1, <1>4, <3>2
  <2> QED BY <1>2, <2>1
<1>5. ASSUME NEW x \in StepType, x.level < KeyLevelNodes PROVE Old(x)
  BY <1>0, <1>5 DEF Old, LiveFor, StepType
<1>6. CASE Direct(p)
  <2>1. at[p] < KeyLevelNodes /\ at[p] \in Keys /\ pc[p] = "read"
    BY <1>0, <1>6 DEF Direct, Placed
  <2> DEFINE r == Promise("ok", Len(storage[at[p]]), 0)
  <2>2. r.n \in Nat
    BY <2>1 DEF Promise, Typing
  <2>3. steps'[p] = steps[p] \/ steps'[p] = KeySteps(at[p], r)
    BY <1>6 DEF Direct, Typing
  <2> HIDE DEF r
  <2>4. /\ KeyStep(at[p], r) \in StepType /\ KeyStep(at[p], r).level = at[p]
        /\ KeySteps(at[p], r) = <<>> \/ KeySteps(at[p], r) = <<KeyStep(at[p], r)>>
    BY <1>0, <2>2, KeyStepFacts
  <2>5. New(KeyStep(at[p], r))
    BY <1>1, <1>5, <2>1, <2>4
  <2>6. CASE steps'[p] = <<>> \/ steps'[p] = <<KeyStep(at[p], r)>>
    BY <1>2, <2>5, <2>6
  <2> QED BY <1>3, <2>3, <2>4, <2>6
<1>7. CASE Resume(p)
  <2>1. at[p] \in Keys /\ pc[p] = "await"
    BY <1>0, <1>7 DEF Resume, Placed
  <2>2. CASE at[p] < KeyLevelNodes /\ memo[c][at[p]].state = "ok"
    <3> DEFINE r == memo[c][at[p]]
    <3>1. r.n \in Nat /\ (steps'[p] = steps[p] \/ steps'[p] = Append(steps[p], KeyStep(at[p], r)))
      BY <1>7, <2>2, ResumeSteps
    <3> HIDE DEF r, c
    <3>2. KeyStep(at[p], r) \in StepType /\ KeyStep(at[p], r).level = at[p]
      BY <1>0, <3>1, KeyStepFacts
    <3>3. Old(KeyStep(at[p], r))
      BY <1>5, <2>2, <3>2
    <3> QED BY <1>3, <1>4, <2>1, <3>1, <3>2, <3>3
  <2>3. CASE ~(at[p] < KeyLevelNodes /\ memo[c][at[p]].state = "ok")
    <3>1. memo[c][at[p]].state \in {"ok", "rejected"}
      BY <1>7 DEF Resume, Settled, Memoizer
    <3>2. steps' = steps
      BY <1>7, <2>3, <3>1 DEF Resume, Memoizer
    <3> QED BY <1>3, <3>2
  <2> QED BY <2>2, <2>3
<1>8. CASE Walk(p)
  <2>1. /\ KeyLevelNodes <= at[p] /\ memo[c][KeyLevelNodes].state = "ok" /\ pc[p] = "walk"
        /\ trees[p] \subseteq 1 .. memo[c][KeyLevelNodes].n
    BY <1>0, <1>8 DEF Walk, Placed
  <2> DEFINE n == memo[c][KeyLevelNodes].n
             x == StepOf(at[p], Values(p), n)
  <2>2. n \in Nat /\ n <= Len(storage[KeyLevelNodes]) /\ Len(storage[KeyLevelNodes]) \in Nat
    BY <1>0, KeyFacts, PromiseFacts, StorageChange DEF MemoInv
  <2>3. steps'[p] = steps[p] \/ steps'[p] = Append(steps[p], x)
    BY <1>8 DEF Walk, Memoizer, Typing
  <2>4. Values(p) \subseteq trees[p] /\ trees[p] \in SUBSET Nat
    BY DEF Values, Typing
  <2>5. x \in StepType /\ x.level = at[p] /\ x.vals = Values(p)
    BY <1>0, <2>2, <2>4, StepOfType DEF StepOf
  <2>6. Values(p) \subseteq 1 .. Len(storage[KeyLevelNodes])
    BY <2>1, <2>2, <2>4
  <2>7. PICK q \in Calls :
          /\ IF history THEN c = call[q].context /\ pc[q] # "begin" ELSE q = p
          /\ \A v \in Values(p) : IsLive(v, at[p], began[q])
    <3>1. CASE history
      <4>1. PICK q \in Calls : call[q].context = c /\ pc[q] # "begin"
                               /\ began[q] = memo[c][KeyLevelNodes].t
        BY <1>0, <2>1, KeyFacts DEF MemoInv
      <4>2. \A v \in Values(p) : IsLive(v, at[p], memo[c][KeyLevelNodes].t)
        BY <3>1 DEF Values, Memoizer
      <4> QED BY <3>1, <4>1, <4>2
    <3>2. CASE ~history
      BY <3>2 DEF Values
    <3> QED BY <3>1, <3>2
  <2> HIDE DEF x, n
  <2>8. Old(x)
    BY <2>5, <2>6, <2>7 DEF Old, LiveFor
  <2> QED BY <1>3, <1>4, <2>1, <2>3, <2>5, <2>8
<1>9. CASE Step(p)
  <2>1. Begin(p) \/ Read(p) => steps' = steps
    BY DEF Begin, Read
  <2> QED BY <1>3, <1>6, <1>7, <1>8, <1>9, <2>1 DEF Step
<1> QED BY <1>3, <1>9, CallChange

-----------------------------------------------------------------------------
(* Sequences of steps, level by level *)

\* No steps are exactly those of no levels.
LEMMA ExactEmpty ==
  ASSUME NEW g, NEW f \in Int, NEW u \in Int, u < f
  PROVE  Exact(<<>>, g, f, u)
BY DEF Exact

\* Exactness depends on the levels in question only.
LEMMA ExactSame ==
  ASSUME NEW s, NEW g, NEW g2, NEW f, NEW u, \A l \in f .. u : g2[l] = g[l], Exact(s, g, f, u)
  PROVE  Exact(s, g2, f, u)
BY DEF Exact

\* No level, no steps.
LEMMA ExactNone ==
  ASSUME NEW s \in Seq(StepType), NEW g, NEW f \in Int, NEW u \in Int, NEW w \in Int, u < f, w < f,
         Exact(s, g, f, u)
  PROVE  Exact(s, g, f, w)
<1>1. f .. u = {} /\ f .. w = {}
  OBVIOUS
<1> QED BY <1>1 DEF Exact

\* The next level is given, or has nothing to give.
LEMMA ExactExtend ==
  ASSUME NEW s \in Seq(StepType), NEW s2, NEW g, NEW f \in Nat, NEW a \in Nat, f <= a,
         \A l \in f .. a - 1 : \A y \in g[l] : y.level = l,
         NEW x \in StepType, x.level = a,
         (g[a] = {} /\ s2 = s) \/ (g[a] = {x} /\ s2 = Append(s, x)),
         Exact(s, g, f, a - 1)
  PROVE  Exact(s2, g, f, a)
<1>0. /\ f .. a = (f .. a - 1) \cup {a}
      /\ \A l \in f .. a - 1 : l < a
  OBVIOUS
<1>1. CASE g[a] = {} /\ s2 = s
  BY <1>0, <1>1 DEF Exact
<1>2. CASE g[a] = {x} /\ s2 = Append(s, x)
  <2>1. /\ DOMAIN s = 1 .. Len(s) /\ Len(s) \in Nat /\ DOMAIN s2 = 1 .. Len(s) + 1
        /\ \A i \in DOMAIN s : s2[i] = s[i]
        /\ s2[Len(s) + 1] = x
    BY <1>2
  <2>2. \A i \in DOMAIN s2 : i \in DOMAIN s \/ i = Len(s) + 1
    BY <2>1
  <2>3. \A i \in DOMAIN s : s[i].level < a
    BY <1>0 DEF Exact
  <2>4. \A i, j \in DOMAIN s2 : i < j => s2[i].level < s2[j].level
    <3> SUFFICES ASSUME NEW i \in DOMAIN s2, NEW j \in DOMAIN s2, i < j
                 PROVE  s2[i].level < s2[j].level
      OBVIOUS
    <3>1. i \in DOMAIN s
      BY <2>1
    <3>2. CASE j \in DOMAIN s
      BY <2>1, <3>1, <3>2 DEF Exact
    <3>3. CASE j = Len(s) + 1
      BY <2>1, <2>3, <3>1, <3>3
    <3> QED BY <2>2, <3>2, <3>3
  <2>5. \A i \in DOMAIN s2 : \E l \in f .. a : s2[i] \in g[l]
    <3> SUFFICES ASSUME NEW i \in DOMAIN s2 PROVE \E l \in f .. a : s2[i] \in g[l]
      OBVIOUS
    <3>1. CASE i \in DOMAIN s
      BY <1>0, <2>1, <3>1 DEF Exact
    <3>2. CASE i = Len(s) + 1
      BY <1>0, <1>2, <2>1, <3>2
    <3> QED BY <2>2, <3>1, <3>2
  <2>6. \A l \in f .. a : \A y \in g[l] : \E i \in DOMAIN s2 : s2[i] = y
    <3> SUFFICES ASSUME NEW l \in f .. a, NEW y \in g[l] PROVE \E i \in DOMAIN s2 : s2[i] = y
      OBVIOUS
    <3>1. CASE l \in f .. a - 1
      <4>1. PICK i \in DOMAIN s : s[i] = y
        BY <3>1 DEF Exact
      <4> QED BY <2>1, <4>1
    <3>2. CASE l = a
      BY <1>2, <2>1, <3>2
    <3> QED BY <1>0, <3>1, <3>2
  <2> QED BY <2>4, <2>5, <2>6 DEF Exact
<1> QED BY <1>1, <1>2

\* The levels that follow have nothing to give.
LEMMA ExactStretch ==
  ASSUME NEW s, NEW g, NEW f \in Int, NEW a \in Int, NEW u \in Int, a <= u,
         \A l \in f .. u : l > a => g[l] = {}, Exact(s, g, f, a)
  PROVE  Exact(s, g, f, u)
<1>1. f .. a \subseteq f .. u
  OBVIOUS
<1>2. \A l \in f .. u : l \in f .. a \/ l > a
  OBVIOUS
<1> QED BY <1>1, <1>2 DEF Exact

-----------------------------------------------------------------------------
(* What a level gives *)

\* What is given for a level has that level.
LEMMA GivenLevel ==
  ASSUME NEW s, NEW h, NEW m, NEW b, NEW l, NEW x \in GivenIn(s, h, m, b, l)
  PROVE  x.level = l
BY DEF GivenIn, KeyStepIn, TreeStepIn, StepOf

\* Only the entries that were read matter.
LEMMA EntriesSame ==
  ASSUME NEW s, NEW s2, NEW h, NEW n \in Nat, NEW k,
         \A v \in 1 .. n : s2[k][v] = s[k][v]
  PROVE  \A v \in VersionsIn(h, n) : s2[k][v] = s[k][v]
<1>1. VersionsIn(h, n) \subseteq 1 .. n
  BY DEF VersionsIn
<1> QED BY <1>1

\* The step of a key depends on the entries that were read only.
LEMMA KeyStepSame ==
  ASSUME NEW s, NEW s2, NEW h, NEW r, r.n \in Nat, NEW k,
         \A v \in 1 .. r.n : s2[k][v] = s[k][v]
  PROVE  KeyStepIn(s2, h, k, r) = KeyStepIn(s, h, k, r)
<1>0. \A v \in VersionsIn(h, r.n) : s2[k][v] = s[k][v]
  BY EntriesSame
<1>1. ReadableIn(s2, h, k, r) <=> ReadableIn(s, h, k, r)
  BY <1>0 DEF ReadableIn
<1> QED BY <1>1 DEF KeyStepIn

\* What a tree leads to depends on the entries that were read only.
LEMMA TreeSame ==
  ASSUME NEW s, NEW s2, NEW h, NEW r, r.n \in Nat,
         \A v \in 1 .. r.n : s2[KeyLevelNodes][v] = s[KeyLevelNodes][v]
  PROVE  /\ ReadableIn(s2, h, KeyLevelNodes, r) <=> ReadableIn(s, h, KeyLevelNodes, r)
         /\ \A l : LeadingIn(s2, h, l, r.n) = LeadingIn(s, h, l, r.n)
<1>0. \A v \in VersionsIn(h, r.n) : s2[KeyLevelNodes][v] = s[KeyLevelNodes][v]
  BY EntriesSame
<1>1. ReadableIn(s2, h, KeyLevelNodes, r) <=> ReadableIn(s, h, KeyLevelNodes, r)
  BY <1>0 DEF ReadableIn
<1>2. \A l : LeadingIn(s2, h, l, r.n) = LeadingIn(s, h, l, r.n)
  BY <1>0 DEF LeadingIn
<1> QED BY <1>1, <1>2

\* The step of a tree's node depends on the entries that were read only.
LEMMA TreeStepSame ==
  ASSUME NEW s, NEW s2, NEW h, NEW r, r.n \in Nat, NEW l, NEW t,
         \A v \in 1 .. r.n : s2[KeyLevelNodes][v] = s[KeyLevelNodes][v]
  PROVE  TreeStepIn(s2, h, l, r, t) = TreeStepIn(s, h, l, r, t)
<1>0. \A v \in VersionsIn(h, r.n) : s2[KeyLevelNodes][v] = s[KeyLevelNodes][v]
  BY EntriesSame
<1>1. /\ ReadableIn(s2, h, KeyLevelNodes, r) <=> ReadableIn(s, h, KeyLevelNodes, r)
      /\ LeadingIn(s2, h, l, r.n) = LeadingIn(s, h, l, r.n)
  BY TreeSame
<1>2. {v \in LeadingIn(s2, h, l, r.n) : LiveIn(s2, v, l, t)}
        = {v \in LeadingIn(s, h, l, r.n) : LiveIn(s, v, l, t)}
  <2>1. LeadingIn(s, h, l, r.n) \subseteq VersionsIn(h, r.n)
    BY DEF LeadingIn
  <2>2. \A v \in LeadingIn(s, h, l, r.n) : LiveIn(s2, v, l, t) <=> LiveIn(s, v, l, t)
    BY <1>0, <2>1 DEF LiveIn
  <2> QED BY <1>1, <2>2
<1> QED BY <1>1, <1>2 DEF TreeStepIn

\* What a fulfilled promise gives does not change.
LEMMA GivenStable ==
  ASSUME Typing, PlaceInv, MemoInv, [Next]_vars, NEW p \in Calls, pc[p] # "begin",
         NEW l \in 1 .. Depth, memo[call[p].context][KeyLevel(l)].state = "ok"
  PROVE  Given(p)'[l] = Given(p)[l]
<1> DEFINE c == call[p].context
           k == KeyLevel(l)
           r == memo[c][k]
<1>0. c \in Contexts /\ k \in Keys /\ l \in Nat
  BY CallFacts, KeyFacts DEF KeyLevel, Keys
<1>1. /\ call' = call /\ history' = history /\ history \in BOOLEAN /\ began'[p] = began[p]
      /\ memo'[c][k] = memo[c][k]
  BY <1>0, StorageChange, BeganChange, PromiseStable DEF Typing
<1>2. r.n \in Nat /\ r.n <= Len(storage[k]) /\ Len(storage[k]) \in Nat
  BY <1>0, PromiseFacts DEF MemoInv
<1>3. \A v \in 1 .. r.n : storage'[k][v] = storage[k][v]
  BY <1>0, <1>2, StorageChange
<1>4. /\ Given(p)[l] = GivenIn(storage, history, memo[c], began[p], l)
      /\ Given(p)'[l] = GivenIn(storage', history, memo'[c], began[p], l)
  BY <1>1 DEF Given
<1>5. CASE l < KeyLevelNodes
  <2>1. k = l
    BY <1>5 DEF KeyLevel
  <2>2. KeyStepIn(storage', history, l, r) = KeyStepIn(storage, history, l, r)
    <3> HIDE DEF r, k
    <3> QED BY <1>2, <1>3, <2>1, KeyStepSame
  <2> QED BY <1>1, <1>4, <1>5, <2>1, <2>2 DEF GivenIn
<1>6. CASE ~(l < KeyLevelNodes)
  <2>1. k = KeyLevelNodes
    BY <1>6 DEF KeyLevel
  <2> DEFINE t == IF history THEN memo[c][KeyLevelNodes].t ELSE began[p]
  <2>2. TreeStepIn(storage', history, l, r, t) = TreeStepIn(storage, history, l, r, t)
    <3> HIDE DEF r, k, t
    <3>1. \A v \in 1 .. r.n : storage'[KeyLevelNodes][v] = storage[KeyLevelNodes][v]
      BY <1>3, <2>1
    <3> QED BY <1>2, <3>1, TreeStepSame
  <2> QED BY <1>1, <1>4, <1>6, <2>1, <2>2 DEF GivenIn
<1> QED BY <1>5, <1>6

-----------------------------------------------------------------------------
(* The walk *)

\* The levels of a walk, as numbers.
LEMMA WalkerFacts ==
  ASSUME Typing, PlaceInv, NEW p \in Calls
  PROVE  /\ First(p) \in Nat /\ First(p) >= 1 /\ First(p) <= call[p].length
         /\ Upto(p) \in Int /\ call[p].length \in 1 .. Depth /\ at[p] \in Nat
         /\ at[p] <= call[p].length /\ Upto(p) <= call[p].length
<1>1. /\ call[p].length \in Nat /\ call[p].length >= 1 /\ call[p].length <= Depth
      /\ at[p] \in Nat /\ at[p] <= call[p].length /\ Depth \in Nat
  BY CallFacts, KeyFacts DEF PlaceInv, Placed
<1> QED BY <1>1 DEF First, Upto

\* A step that leaves alone what the call has given and where it is.
LEMMA WalkedFrame ==
  ASSUME Typing, PlaceInv, MemoInv, WalkInv, [Next]_vars, NEW p \in Calls,
         pc[p] \in {"read", "await", "walk", "done"},
         UNCHANGED <<at[p], trees[p], steps[p]>>,
         pc'[p] = "walk" <=> pc[p] = "walk", pc'[p] = "done" <=> pc[p] = "done"
  PROVE  Walked(p)'
<1> DEFINE c == call[p].context
<1>0. call' = call /\ c \in Contexts /\ Walked(p) /\ history' = history
  BY StorageChange, CallFacts DEF WalkInv
<1>1. First(p)' = First(p) /\ Upto(p)' = Upto(p) /\ (Walker(p)' <=> Walker(p))
  BY <1>0 DEF First, Upto, Walker
<1> SUFFICES ASSUME Walker(p)
             PROVE  /\ \A l \in First(p) .. Upto(p) : memo'[c][KeyLevel(l)].state = "ok"
                    /\ Exact(steps[p], Given(p)', First(p), Upto(p))
                    /\ pc[p] = "walk" =>
                         /\ ReadableIn(storage', history, KeyLevelNodes, memo'[c][KeyLevelNodes])
                         /\ trees[p] = LeadingIn(storage', history, at[p], memo'[c][KeyLevelNodes].n)
                         /\ at[p] > KeyLevelNodes => trees[p] # {}
  BY <1>0, <1>1 DEF Walked, KeyLevel, ReadableIn, LeadingIn, VersionsIn, Exact
<1>2. /\ \A l \in First(p) .. Upto(p) : memo[c][KeyLevel(l)].state = "ok"
      /\ Exact(steps[p], Given(p), First(p), Upto(p))
  BY <1>0 DEF Walked
<1>3. \A l \in First(p) .. Upto(p) : l \in 1 .. Depth /\ KeyLevel(l) \in Keys
  BY WalkerFacts, KeyFacts DEF KeyLevel, Keys
<1>4. \A l \in First(p) .. Upto(p) : memo'[c][KeyLevel(l)].state = "ok"
  BY <1>0, <1>2, <1>3, PromiseStable
<1>5. Exact(steps[p], Given(p)', First(p), Upto(p))
  <2>1. \A l \in First(p) .. Upto(p) : Given(p)'[l] = Given(p)[l]
    BY <1>2, <1>3, GivenStable
  <2> QED BY <1>2, <2>1, ExactSame
<1>6. ASSUME pc[p] = "walk"
      PROVE  /\ ReadableIn(storage', history, KeyLevelNodes, memo'[c][KeyLevelNodes])
             /\ trees[p] = LeadingIn(storage', history, at[p], memo'[c][KeyLevelNodes].n)
             /\ at[p] > KeyLevelNodes => trees[p] # {}
  <2> DEFINE r == memo[c][KeyLevelNodes]
  <2>1. memo'[c][KeyLevelNodes] = memo[c][KeyLevelNodes]
    BY <1>0, <1>6, KeyFacts, PromiseStable DEF PlaceInv, Placed
  <2>2. r.n \in Nat /\ r.n <= Len(storage[KeyLevelNodes]) /\ Len(storage[KeyLevelNodes]) \in Nat
    BY <1>0, KeyFacts, PromiseFacts DEF MemoInv
  <2>3. \A v \in 1 .. r.n : storage'[KeyLevelNodes][v] = storage[KeyLevelNodes][v]
    BY <2>2, KeyFacts, StorageChange
  <2>4. /\ ReadableIn(storage, history, KeyLevelNodes, r)
        /\ trees[p] = LeadingIn(storage, history, at[p], r.n)
        /\ at[p] > KeyLevelNodes => trees[p] # {}
    BY <1>0, <1>6 DEF Walked
  <2> HIDE DEF r
  <2>5. /\ ReadableIn(storage', history, KeyLevelNodes, r) <=> ReadableIn(storage, history, KeyLevelNodes, r)
        /\ \A l : LeadingIn(storage', history, l, r.n) = LeadingIn(storage, history, l, r.n)
    <3>1. VersionsIn(history, r.n) \subseteq 1 .. r.n
      BY <2>2 DEF VersionsIn
    <3>2. \A v \in VersionsIn(history, r.n) : storage'[KeyLevelNodes][v] = storage[KeyLevelNodes][v]
      BY <2>3, <3>1
    <3>3. ReadableIn(storage', history, KeyLevelNodes, r) <=> ReadableIn(storage, history, KeyLevelNodes, r)
      BY <3>2 DEF ReadableIn
    <3>4. \A l : LeadingIn(storage', history, l, r.n) = LeadingIn(storage, history, l, r.n)
      BY <3>2 DEF LeadingIn
    <3> QED BY <3>3, <3>4
  <2> QED BY <2>1, <2>4, <2>5 DEF r
<1> QED BY <1>4, <1>5, <1>6

\* The step at a key level node is what that level gives.
LEMMA KeyStepGiven ==
  ASSUME Typing, NEW p \in Calls, NEW k \in Keys, k < KeyLevelNodes
  PROVE  Given(p)[k] = IF IsThere(memo[call[p].context][k].n)
                       THEN {KeyStep(k, memo[call[p].context][k])} ELSE {}
<1>1. k \in 1 .. Depth
  BY KeyFacts DEF Keys
<1>2. Given(p)[k] = KeyStepIn(storage, history, k, memo[call[p].context][k])
  BY <1>1 DEF Given, GivenIn
<1> QED BY <1>2 DEF KeyStepIn, KeyStep, IsThere, Readable, ReadableIn, Versions, VersionsIn

\* What is given to a call for a level has that level.
LEMMA GivenLevels ==
  ASSUME NEW p \in Calls, NEW l \in 1 .. Depth, NEW x \in Given(p)[l]
  PROVE  x.level = l
BY GivenLevel DEF Given

\* iteratePath goes on from a key level node.
LEMMA WalkedResumeKey ==
  ASSUME Typing, PlaceInv, WalkInv, NEW p \in Calls, Resume(p), Walker(p), call' = call,
         at[p] < KeyLevelNodes, memo[call[p].context][at[p]].state = "ok"
  PROVE  Walked(p)'
<1> DEFINE c == call[p].context
           r == memo[c][at[p]]
           x == KeyStep(at[p], r)
           g == Given(p)
<1>0. /\ pc[p] = "await" /\ at[p] \in Keys /\ c \in Contexts /\ Placed(p) /\ Walked(p)
      /\ UNCHANGED <<storage, history, memo, began>> /\ steps[p] \in Seq(StepType)
  BY CallFacts DEF Resume, PlaceInv, Placed, WalkInv, Typing
<1>1. call[p].kind = "iterate" /\ First(p) = 1 /\ at[p] >= 1 /\ at[p] \in 1 .. Depth /\ at[p] \in Nat
  BY <1>0, CallFacts, KeyFacts DEF Placed, First
<1>2. /\ r.n \in Nat
      /\ steps'[p] = IF IsThere(r.n) THEN Append(steps[p], x) ELSE steps[p]
      /\ IF at[p] < call[p].length THEN at'[p] = at[p] + 1 /\ pc'[p] = "read"
         ELSE at'[p] = at[p] /\ pc'[p] = "done"
  BY ResumeSteps
<1>3. g[at[p]] = IF IsThere(r.n) THEN {x} ELSE {}
  BY <1>0, KeyStepGiven
<1>4. x \in StepType /\ x.level = at[p]
  BY <1>1, <1>2, KeyStepFacts
<1>5. /\ \A l \in 1 .. at[p] - 1 : memo[c][KeyLevel(l)].state = "ok"
      /\ Exact(steps[p], g, 1, at[p] - 1)
  BY <1>0, <1>1 DEF Walked, Upto
<1>6. \A l \in 1 .. at[p] - 1 : \A y \in g[l] : y.level = l
  <2>1. \A l \in 1 .. at[p] - 1 : l \in 1 .. Depth
    BY <1>1, KeyFacts
  <2> QED BY <2>1, GivenLevels
<1>7. Exact(steps'[p], g, 1, at[p])
  <2> HIDE DEF r, x, g
  <2> QED BY <1>0, <1>1, <1>2, <1>3, <1>4, <1>5, <1>6, ExactExtend
<1>8. \A l \in 1 .. at[p] : memo[c][KeyLevel(l)].state = "ok"
  <2>1. \A l \in 1 .. at[p] : l \in 1 .. at[p] - 1 \/ l = at[p]
    BY <1>1
  <2>2. KeyLevel(at[p]) = at[p]
    BY DEF KeyLevel
  <2> QED BY <1>5, <2>1, <2>2
<1>9. Upto(p)' = at[p] /\ First(p)' = 1 /\ pc'[p] # "walk"
  <2>1. ~(at[p] < call[p].length) => at[p] = call[p].length
    BY WalkerFacts
  <2> QED BY <1>1, <1>2, <2>1 DEF Upto, First
<1>10. Given(p)' = g
  BY <1>0 DEF Given
<1> QED BY <1>0, <1>7, <1>8, <1>9, <1>10 DEF Walked, KeyLevel, Exact

\* A tree that is not there, or cannot be read, gives nothing at any level.
LEMMA NoTree ==
  ASSUME Typing, NEW p \in Calls, NEW l \in 1 .. Depth, l >= KeyLevelNodes,
         LET r == memo[call[p].context][KeyLevelNodes]
         IN ~(IsThere(r.n) /\ Readable(KeyLevelNodes, r))
  PROVE  Given(p)[l] = {}
<1> DEFINE m == memo[call[p].context]
           r == m[KeyLevelNodes]
           t == IF history THEN m[KeyLevelNodes].t ELSE began[p]
<1>0. r.n \in Nat
  BY KeyFacts, CallFacts, PromiseFacts
<1>1. Given(p)[l] = TreeStepIn(storage, history, l, r, t)
  BY KeyFacts DEF Given, GivenIn
<1>2. CASE ~Readable(KeyLevelNodes, r)
  <2>1. ~ReadableIn(storage, history, KeyLevelNodes, r)
    BY <1>2 DEF Readable, ReadableIn, Versions, VersionsIn
  <2> QED BY <1>1, <2>1 DEF TreeStepIn
<1>3. CASE ~IsThere(r.n)
  <2>1. ~history /\ r.n = 0
    BY <1>0, <1>3 DEF IsThere
  <2>2. LeadingIn(storage, history, l, r.n) = {}
    BY <2>1 DEF LeadingIn, VersionsIn
  <2> QED BY <1>1, <2>1, <2>2 DEF TreeStepIn
<1> QED BY <1>2, <1>3

\* The walk goes on from the key of the tree.
LEMMA WalkedResumeTree ==
  ASSUME Typing, PlaceInv, WalkInv, NEW p \in Calls, Resume(p), Walker(p), call' = call,
         at[p] = KeyLevelNodes, memo[call[p].context][at[p]].state = "ok"
  PROVE  Walked(p)'
<1> DEFINE c == call[p].context
           r == memo[c][KeyLevelNodes]
           g == Given(p)
<1>0. /\ pc[p] = "await" /\ c \in Contexts /\ Walked(p)
      /\ UNCHANGED <<storage, history, memo, began, at, steps>>
  <2>1. ~(at[p] < KeyLevelNodes)
    BY KeyFacts
  <2> QED BY <2>1, CallFacts DEF Resume, Memoizer, WalkInv
<1>1. Given(p)' = g /\ First(p)' = First(p)
  BY <1>0 DEF Given, First
<1>2. /\ \A l \in First(p) .. at[p] - 1 : memo[c][KeyLevel(l)].state = "ok"
      /\ Exact(steps[p], g, First(p), at[p] - 1)
  BY <1>0 DEF Walked, Upto
<1>3. CASE IsThere(r.n) /\ Readable(KeyLevelNodes, r)
  <2>1. pc'[p] = "walk" /\ trees'[p] = Versions(r.n)
    BY <1>3, KeyFacts DEF Resume, Memoizer, Typing
  <2>2. ReadableIn(storage, history, KeyLevelNodes, r)
    BY <1>3 DEF Readable, ReadableIn, Versions, VersionsIn
  <2>3. Versions(r.n) = LeadingIn(storage, history, at[p], r.n)
    <3>1. KeyLevelNodes + 1 .. at[p] = {}
      BY KeyFacts
    <3> QED BY <3>1 DEF LeadingIn, Versions, VersionsIn
  <2>4. Upto(p)' = at[p] - 1 /\ ~(at[p] > KeyLevelNodes)
    BY <1>0, <2>1, KeyFacts DEF Upto
  <2> HIDE DEF g
  <2> QED BY <1>0, <1>1, <1>2, <2>1, <2>2, <2>3, <2>4
          DEF Walked, KeyLevel, Exact, ReadableIn, LeadingIn, VersionsIn
<1>4. CASE ~(IsThere(r.n) /\ Readable(KeyLevelNodes, r))
  <2>1. pc'[p] = "done"
    BY <1>4, KeyFacts DEF Resume, Memoizer, Typing
  <2>2. Upto(p)' = call[p].length
    BY <2>1 DEF Upto
  <2>3. \A l \in First(p) .. call[p].length : l > at[p] - 1 =>
          l \in 1 .. Depth /\ l >= KeyLevelNodes /\ KeyLevel(l) = KeyLevelNodes
    BY WalkerFacts, KeyFacts DEF KeyLevel
  <2>4. \A l \in First(p) .. call[p].length : l > at[p] - 1 => g[l] = {}
    BY <1>4, <2>3, NoTree
  <2>5. Exact(steps[p], g, First(p), call[p].length)
    <3>1. /\ First(p) \in Int /\ at[p] - 1 \in Int /\ call[p].length \in Int
          /\ at[p] - 1 <= call[p].length
      BY WalkerFacts
    <3> HIDE DEF g
    <3> QED BY <1>2, <2>4, <3>1, ExactStretch
  <2>6. \A l \in First(p) .. call[p].length : memo[c][KeyLevel(l)].state = "ok"
    <3>1. \A l \in First(p) .. call[p].length : l \in First(p) .. at[p] - 1 \/ l > at[p] - 1
      BY WalkerFacts
    <3> QED BY <1>2, <2>3, <3>1
  <2> HIDE DEF g
  <2> QED BY <1>0, <1>1, <2>1, <2>2, <2>5, <2>6 DEF Walked, KeyLevel, Exact
<1> QED BY <1>3, <1>4

\* What a level of the tree gives, with the nodes a walk has got to.
LEMMA TreeStepGiven ==
  ASSUME Typing, PlaceInv, WalkInv, NEW p \in Calls, pc[p] = "walk", Walker(p),
         NEW x, x = StepOf(at[p], Values(p), memo[call[p].context][KeyLevelNodes].n)
  PROVE  Given(p)[at[p]] = IF history \/ Values(p) # {} THEN {x} ELSE {}
<1> DEFINE m == memo[call[p].context]
           r == m[KeyLevelNodes]
           t == IF history THEN m[KeyLevelNodes].t ELSE began[p]
           vals == {v \in LeadingIn(storage, history, at[p], r.n) : LiveIn(storage, v, at[p], t)}
<1>0. /\ at[p] \in 1 .. Depth /\ KeyLevelNodes <= at[p]
  BY WalkerFacts, KeyFacts DEF PlaceInv, Placed
<1>1. Given(p)[at[p]] = TreeStepIn(storage, history, at[p], r, t)
  BY <1>0, KeyFacts DEF Given, GivenIn
<1>2. /\ ReadableIn(storage, history, KeyLevelNodes, r)
      /\ trees[p] = LeadingIn(storage, history, at[p], r.n)
      /\ at[p] > KeyLevelNodes => trees[p] # {}
  BY DEF WalkInv, Walked
<1>3. Values(p) = vals
  BY <1>2 DEF Values, Memoizer, IsLive, LiveIn
<1>4. TreeStepIn(storage, history, at[p], r, t) =
        IF ~history /\ vals = {} THEN {} ELSE {StepOf(at[p], vals, r.n)}
  BY <1>2 DEF TreeStepIn
<1> HIDE DEF r, t, vals
<1>5. TreeStepIn(storage, history, at[p], r, t) =
        IF history \/ Values(p) # {} THEN {StepOf(at[p], Values(p), r.n)} ELSE {}
  BY <1>3, <1>4
<1> QED BY <1>1, <1>5 DEF r

\* Below a level without nodes there is nothing.
LEMMA NothingBelow ==
  ASSUME Typing, PlaceInv, WalkInv, NEW p \in Calls, pc[p] = "walk", Walker(p), Below(p) = {},
         NEW l \in 1 .. Depth, l > at[p]
  PROVE  Given(p)[l] = {}
<1> DEFINE m == memo[call[p].context]
           r == m[KeyLevelNodes]
           t == IF history THEN m[KeyLevelNodes].t ELSE began[p]
<1>0. at[p] \in Nat /\ KeyLevelNodes <= at[p] /\ l > KeyLevelNodes /\ ~(l < KeyLevelNodes)
  BY WalkerFacts, KeyFacts DEF PlaceInv, Placed
<1>1. Given(p)[l] = TreeStepIn(storage, history, l, r, t)
  BY <1>0 DEF Given, GivenIn
<1>2. trees[p] = LeadingIn(storage, history, at[p], r.n)
  BY DEF WalkInv, Walked
<1>3. LeadingIn(storage, history, l, r.n) = {}
  <2>1. /\ KeyLevelNodes + 1 .. at[p] \subseteq KeyLevelNodes + 1 .. l
        /\ at[p] + 1 \in KeyLevelNodes + 1 .. l
    BY <1>0, KeyFacts
  <2>2. ASSUME NEW v \in LeadingIn(storage, history, l, r.n) PROVE FALSE
    <3>1. v \in trees[p] /\ storage[KeyLevelNodes][v][at[p] + 1] # Gone
      BY <1>2, <2>1 DEF LeadingIn
    <3> QED BY <3>1 DEF Below, HasNode
  <2> QED BY <2>2
<1> HIDE DEF r, t
<1>4. TreeStepIn(storage, history, l, r, t) = {}
  BY <1>0, <1>3 DEF TreeStepIn
<1> QED BY <1>1, <1>4

\* The walk goes down one level of the tree.
LEMMA WalkedWalk ==
  ASSUME Typing, PlaceInv, WalkInv, NEW p \in Calls, Walk(p), Walker(p), call' = call
  PROVE  Walked(p)'
<1> DEFINE c == call[p].context
           n == memo[c][KeyLevelNodes].n
           x == StepOf(at[p], Values(p), n)
           g == Given(p)
           f == First(p)
<1>0. /\ pc[p] = "walk" /\ c \in Contexts /\ Walked(p) /\ KeyLevelNodes <= at[p]
      /\ memo[c][KeyLevelNodes].state = "ok"
      /\ UNCHANGED <<storage, history, memo, began>> /\ steps[p] \in Seq(StepType)
  BY CallFacts DEF Walk, WalkInv, PlaceInv, Placed, Typing
<1>1. /\ f \in Nat /\ f >= 1 /\ f <= call[p].length /\ call[p].length \in 1 .. Depth
      /\ at[p] \in Nat /\ at[p] <= call[p].length /\ at[p] \in 1 .. Depth
  BY <1>0, WalkerFacts, KeyFacts
<1>2. Given(p)' = g /\ First(p)' = f
  BY <1>0 DEF Given, First
<1>3. /\ \A l \in f .. at[p] - 1 : memo[c][KeyLevel(l)].state = "ok"
      /\ Exact(steps[p], g, f, at[p] - 1)
      /\ ReadableIn(storage, history, KeyLevelNodes, memo[c][KeyLevelNodes])
      /\ trees[p] = LeadingIn(storage, history, at[p], n)
  BY <1>0 DEF Walked, Upto
<1>4. x \in StepType /\ x.level = at[p]
  <2>1. n \in Nat
    BY <1>0, KeyFacts, PromiseFacts
  <2>2. Values(p) \in SUBSET Nat
    BY DEF Values, Typing
  <2> QED BY <1>1, <2>1, <2>2, StepOfType DEF StepOf
<1>5. steps'[p] = IF Yields(p) THEN Append(steps[p], x) ELSE steps[p]
  BY DEF Walk, Memoizer, Typing
<1>6. g[at[p]] = IF history \/ Values(p) # {} THEN {x} ELSE {}
  BY <1>0, TreeStepGiven
<1>7. \A l \in f .. at[p] - 1 : \A y \in g[l] : y.level = l
  <2>1. \A l \in f .. at[p] - 1 : l \in 1 .. Depth
    BY <1>1, KeyFacts
  <2> QED BY <2>1, GivenLevels
<1> HIDE DEF g, f, x
<1>8. Exact(steps'[p], g, f, at[p])
  <2>1. CASE call[p].kind = "iterate" \/ at[p] = call[p].length
    <3>1. f <= at[p]
      BY <1>0, <1>1, <2>1, KeyFacts, CallFacts DEF f, First
    <3>2. Yields(p) <=> history \/ Values(p) # {}
      BY <2>1 DEF Yields
    <3> QED BY <1>0, <1>1, <1>3, <1>4, <1>5, <1>6, <1>7, <3>1, <3>2, ExactExtend
  <2>2. CASE ~(call[p].kind = "iterate" \/ at[p] = call[p].length)
    <3>1. f = call[p].length /\ at[p] < f /\ steps'[p] = steps[p]
      BY <1>1, <1>5, <2>2, CallFacts DEF f, First, Yields
    <3>2. f \in Int /\ at[p] - 1 \in Int /\ at[p] \in Int /\ at[p] - 1 < f
      BY <1>1, <3>1
    <3> QED BY <1>0, <1>3, <3>1, <3>2, ExactNone
  <2> QED BY <2>1, <2>2
<1>9. \A l \in f .. call[p].length : l > at[p] - 1 => KeyLevel(l) = KeyLevelNodes
  BY <1>0, <1>1, KeyFacts DEF KeyLevel
<1>10. \A l \in f .. call[p].length : memo[c][KeyLevel(l)].state = "ok"
  <2>1. \A l \in f .. call[p].length : l \in f .. at[p] - 1 \/ l > at[p] - 1
    BY <1>1
  <2> QED BY <1>0, <1>3, <1>9, <2>1
<1>11. CASE at[p] < call[p].length /\ Below(p) # {}
  <2>1. at'[p] = at[p] + 1 /\ trees'[p] = Below(p) /\ pc'[p] = "walk"
    BY <1>0, <1>11 DEF Walk, Typing
  <2>2. Below(p) = LeadingIn(storage, history, at[p] + 1, n)
    <3>1. KeyLevelNodes + 1 .. at[p] + 1 = (KeyLevelNodes + 1 .. at[p]) \cup {at[p] + 1}
      BY <1>0, <1>1, KeyFacts
    <3> HIDE DEF n
    <3> QED BY <1>3, <3>1 DEF Below, HasNode, LeadingIn
  <2>3. Upto(p)' = at[p]
    BY <1>1, <2>1 DEF Upto
  <2>4. \A l \in f .. at[p] : memo[c][KeyLevel(l)].state = "ok"
    <3>1. f .. at[p] \subseteq f .. call[p].length
      BY <1>1
    <3> QED BY <1>10, <3>1
  <2> QED BY <1>0, <1>2, <1>3, <1>8, <1>11, <2>1, <2>2, <2>3, <2>4
          DEF Walked, KeyLevel, Exact, ReadableIn, LeadingIn, VersionsIn
<1>12. CASE ~(at[p] < call[p].length /\ Below(p) # {})
  <2>1. pc'[p] = "done"
    BY <1>12 DEF Walk, Typing
  <2>2. Exact(steps'[p], g, f, call[p].length)
    <3>1. CASE at[p] = call[p].length
      BY <1>8, <3>1
    <3>2. CASE Below(p) = {}
      <4>1. \A l \in f .. call[p].length : l \in 1 .. Depth
        BY <1>1, KeyFacts
      <4>2. \A l \in f .. call[p].length : l > at[p] => g[l] = {}
        BY <1>0, <3>2, <4>1, NothingBelow DEF g
      <4>3. f \in Int /\ at[p] \in Int /\ call[p].length \in Int
        BY <1>1
      <4> QED BY <1>1, <1>8, <4>2, <4>3, ExactStretch
    <3> QED BY <1>1, <1>12, <3>1, <3>2
  <2>3. Upto(p)' = call[p].length
    BY <2>1 DEF Upto
  <2> QED BY <1>0, <1>2, <1>10, <2>1, <2>2, <2>3 DEF Walked, KeyLevel, Exact
<1> QED BY <1>11, <1>12

\* A step of a reader collects exactly what is live at its level.
LEMMA WalkedStep ==
  ASSUME Typing, PlaceInv, MemoInv, WalkInv, NEW p \in Calls, Step(p), [Next]_vars
  PROVE  Walked(p)'
<1>0. call' = call
  BY StorageChange
<1>1. CASE Begin(p)
  <2>1. pc'[p] \in {"read", "done"} /\ at'[p] = FirstKey(p) /\ steps' = steps /\ pc[p] = "begin"
        /\ (FirstKey(p) # 0 => pc'[p] = "read")
    BY <1>1 DEF Begin, Typing
  <2>2. steps'[p] = <<>>
    BY <2>1 DEF PlaceInv, Placed
  <2> SUFFICES ASSUME Walker(p) PROVE Walked(p)'
    BY <1>0 DEF Walked, Walker
  <2>3. FirstKey(p) # 0 /\ FirstKey(p) \in Nat /\ FirstKey(p) - 1 < First(p) /\ First(p) \in Nat
    BY CallFacts, KeyFacts DEF FirstKey, First, Walker
  <2>4. Upto(p)' = FirstKey(p) - 1 /\ First(p)' = First(p)
    BY <1>0, <2>1, <2>3 DEF Upto, First
  <2>5. First(p) .. FirstKey(p) - 1 = {}
    BY <2>3
  <2>6. Exact(<<>>, Given(p)', First(p), FirstKey(p) - 1)
    <3>1. First(p) \in Int /\ FirstKey(p) - 1 \in Int
      BY <2>3
    <3> QED BY <2>3, <3>1, ExactEmpty
  <2> QED BY <1>0, <2>1, <2>2, <2>3, <2>4, <2>5, <2>6 DEF Walked, Exact
<1>2. CASE Direct(p)
  <2>1. call[p].kind = "node" /\ at[p] < KeyLevelNodes /\ Placed(p) /\ pc[p] = "read"
    BY <1>2 DEF Direct, PlaceInv
  <2>2. ~Walker(p)
    BY <2>1, CallFacts, KeyFacts DEF Walker, Placed
  <2> QED BY <1>0, <2>2 DEF Walked, Walker
<1>3. CASE Read(p)
  BY <1>3, WalkedFrame DEF Read, Typing
<1>4. CASE Resume(p)
  <2>1. at[p] \in Keys /\ memo[call[p].context][at[p]].state \in {"ok", "rejected"}
    BY <1>4 DEF Resume, Settled, Memoizer, PlaceInv, Placed
  <2>2. CASE memo[call[p].context][at[p]].state = "rejected"
    <3>1. pc'[p] = "failed"
      BY <1>4, <2>2 DEF Resume, Memoizer, Typing
    <3> QED BY <3>1 DEF Walked
  <2>3. CASE ~Walker(p)
    BY <1>0, <2>3 DEF Walked, Walker
  <2>4. at[p] < KeyLevelNodes \/ at[p] = KeyLevelNodes
    BY <2>1, KeyFacts DEF Keys
  <2> QED BY <1>0, <1>4, <2>1, <2>2, <2>3, <2>4, WalkedResumeKey, WalkedResumeTree
<1>5. CASE Walk(p)
  <2>1. CASE ~Walker(p)
    BY <1>0, <2>1 DEF Walked, Walker
  <2> QED BY <1>0, <1>5, <2>1, WalkedWalk
<1> QED BY <1>1, <1>2, <1>3, <1>4, <1>5 DEF Step

\* Every step keeps what the readers have collected exact.
LEMMA WalkNext ==
  ASSUME Typing, PlaceInv, MemoInv, WalkInv, [Next]_vars
  PROVE  WalkInv'
<1> SUFFICES ASSUME NEW p \in Calls PROVE Walked(p)'
  BY DEF WalkInv
<1>1. CASE UNCHANGED <<pc[p], at[p], began[p], trees[p], steps[p]>>
  <2>1. CASE pc[p] \in {"read", "await", "walk", "done"}
    BY <1>1, <2>1, WalkedFrame
  <2>2. CASE pc[p] \notin {"read", "await", "walk", "done"}
    BY <1>1, <2>2 DEF Walked
  <2> QED BY <2>1, <2>2
<1>2. CASE Step(p)
  BY <1>2, WalkedStep
<1> QED BY <1>1, <1>2, CallChange

-----------------------------------------------------------------------------
(* The theorems *)

\* The initial state is in the inductive invariant.
LEMMA InitInv == Init => IInv
<1> SUFFICES ASSUME Init PROVE IInv
  OBVIOUS
<1>1. Typing
  <2>1. call \in [Calls -> CallType]
    BY ReaderAssumption DEF Init, CallType
  <2>2. now \in 1 .. MaxTime
    BY ReaderAssumption DEF Init
  <2>3. storage \in [Keys -> Seq(AllEntries)] /\ \A k \in Keys : Len(storage[k]) <= MaxWrites[k]
    BY ReaderAssumption DEF Init
  <2>4. memo \in [Contexts -> [Keys -> PromiseType]]
    BY DEF Init, Promise, PromiseType
  <2>5. steps \in [Calls -> Seq(StepType)]
    BY DEF Init
  <2> QED BY <2>1, <2>2, <2>3, <2>4, <2>5 DEF Init, Typing
<1>2. \A p \in Calls : pc[p] = "begin" /\ at[p] = 0 /\ trees[p] = {} /\ steps[p] = <<>>
  BY DEF Init
<1>3. PlaceInv
  BY <1>1, <1>2, CallFacts DEF PlaceInv, Placed
<1>4. MemoInv /\ ReadsInv
  <2>1. \A c \in Contexts, k \in Keys :
          /\ memo[c][k] = Promise("none", 0, 0) /\ floor[c][k] = 0 /\ reads[c][k] = 0
          /\ storage[k] = <<>>
    BY DEF Init
  <2>2. Promise("none", 0, 0).n = 0 /\ Promise("none", 0, 0).state = "none"
    BY DEF Promise
  <2> QED BY <2>1, <2>2 DEF MemoInv, ReadsInv
<1>5. FreshInv /\ DatedInv /\ WalkInv
  BY <1>2 DEF FreshInv, Fresh, DatedInv, Dated, WalkInv, Walked
<1> QED BY <1>1, <1>3, <1>4, <1>5 DEF IInv

\* Every step keeps the inductive invariant.
LEMMA Inductive == IInv /\ [Next]_vars => IInv'
BY TypingNext, PlaceNext, MemoNext, ReadsNext, FreshNext, DatedNext, WalkNext DEF IInv

\* The inductive invariant holds in every reachable state.
LEMMA Invariance == Spec => []IInv
BY InitInv, Inductive, PTL DEF Spec

\* The typing of the readers, with the bounds: no call goes past the end of its
\* path and no tree is read that was not written.
THEOREM TypeCorrect == Spec => []TypeOK
<1>1. IInv => TypeOK
  <2> SUFFICES ASSUME IInv PROVE TypeOK
    OBVIOUS
  <2>1. \A c \in Contexts, k \in Keys : memo[c][k].state \in {"none", "pending", "ok", "rejected"}
    BY PromiseFacts DEF IInv
  <2>2. \A p \in Calls : at[p] \in 0 .. call[p].length
    BY CallFacts DEF IInv, PlaceInv, Placed
  <2>3. ASSUME NEW p \in Calls PROVE trees[p] \subseteq 1 .. MaxWrites[KeyLevelNodes]
    <3> DEFINE n == memo[call[p].context][KeyLevelNodes].n
    <3>1. trees[p] \subseteq 1 .. n \/ trees[p] = {}
      BY DEF IInv, PlaceInv, Placed
    <3>2. /\ n \in Nat /\ n <= Len(storage[KeyLevelNodes]) /\ Len(storage[KeyLevelNodes]) \in Nat
          /\ Len(storage[KeyLevelNodes]) <= MaxWrites[KeyLevelNodes] /\ MaxWrites[KeyLevelNodes] \in Nat
      BY KeyFacts, CallFacts, PromiseFacts, ReaderAssumption DEF IInv, MemoInv, Typing
    <3>3. 1 .. n \subseteq 1 .. MaxWrites[KeyLevelNodes]
      BY <3>2
    <3> QED BY <3>1, <3>3
  <2> QED BY <2>1, <2>2, <2>3 DEF IInv, Typing, TypeOK
<1> QED BY <1>1, Invariance, PTL

\* A context reads a key once, however many calls ask for it and whenever they
\* do (runAndMemoize); only getNode of a key level node does without.
THEOREM ReadOnceHolds == Spec => []ReadOnce
<1>1. IInv => ReadOnce
  <2> SUFFICES ASSUME IInv, NEW c \in Contexts, NEW k \in Keys, ~Reader(c, k)
               PROVE  reads[c][k] <= 1
    BY DEF ReadOnce, Reader
  <2>1. reads[c][k] \in Nat
    BY DEF IInv, Typing
  <2>2. reads[c][k] <= IF memo[c][k].state = "none" THEN 0 ELSE 1
    BY DEF IInv, ReadsInv
  <2> QED BY <2>1, <2>2
<1> QED BY <1>1, Invariance, PTL

\* No step is older than the context it is given in.
THEOREM FreshInContextHolds == Spec => []FreshInContext
<1>1. IInv => FreshInContext
  BY DEF IInv, FreshInv, Fresh, KeyLevel, FreshInContext
<1> QED BY <1>1, Invariance, PTL

\* What a reader gives was live when it began, or, with history, when another call
\* of its context began.
THEOREM LiveInContextHolds == Spec => []LiveInContext
<1>1. IInv => LiveInContext
  BY DEF IInv, DatedInv, Dated, LiveFor, LiveInContext
<1> QED BY <1>1, Invariance, PTL

\* iteratePath and getNode give exactly the live nodes of their paths in what was
\* read for the context, from the top, for any tree, history and interleaving.
THEOREM WalkExactHolds == Spec => []WalkExact
<1>1. IInv => WalkExact
  <2> SUFFICES ASSUME IInv, NEW p \in Calls, pc[p] = "done",
                      IF call[p].kind = "node" THEN call[p].length >= KeyLevelNodes ELSE FirstKey(p) # 0
               PROVE  LET m == memo[call[p].context]
                          t == IF history THEN m[KeyLevelNodes].t ELSE began[p]
                          first == IF call[p].kind = "node" THEN call[p].length ELSE 1
                      IN /\ \A i, j \in DOMAIN steps[p] : i < j => steps[p][i].level < steps[p][j].level
                         /\ ToSet(steps[p]) =
                              UNION {IF l < KeyLevelNodes THEN ToSet(KeySteps(l, m[l]))
                                     ELSE TreeSteps(l, m[KeyLevelNodes], t) : l \in first .. call[p].length}
    BY DEF WalkExact
  <2> DEFINE m == memo[call[p].context]
             t == IF history THEN m[KeyLevelNodes].t ELSE began[p]
             level(l) == IF l < KeyLevelNodes THEN ToSet(KeySteps(l, m[l]))
                         ELSE TreeSteps(l, m[KeyLevelNodes], t)
  <2>0. Typing /\ Walker(p) /\ Upto(p) = call[p].length
    BY CallFacts, KeyFacts DEF IInv, Walker, FirstKey, Upto
  <2>1. Exact(steps[p], Given(p), First(p), call[p].length)
    BY <2>0 DEF IInv, WalkInv, Walked
  <2>2. ASSUME NEW l \in First(p) .. call[p].length PROVE level(l) = Given(p)[l]
    <3>1. l \in 1 .. Depth /\ l \in Nat /\ KeyLevelNodes \in Nat
      BY WalkerFacts, KeyFacts DEF IInv
    <3>2. CASE l < KeyLevelNodes
      <4>1. l \in Keys /\ m[l].n \in Nat
        <5>1. l \in Keys
          BY <3>1, <3>2 DEF Keys
        <5> QED BY <2>0, <5>1, CallFacts, PromiseFacts
      <4>2. Given(p)[l] = IF IsThere(m[l].n) THEN {KeyStep(l, m[l])} ELSE {}
        BY <2>0, <3>2, <4>1, KeyStepGiven
      <4>3. KeySteps(l, m[l]) = IF IsThere(m[l].n) THEN <<KeyStep(l, m[l])>> ELSE <<>>
        BY <3>1, <4>1, KeyStepFacts
      <4>4. ToSet(<<KeyStep(l, m[l])>>) = {KeyStep(l, m[l])} /\ ToSet(<<>>) = {}
        BY DEF ToSet
      <4> QED BY <3>2, <4>2, <4>3, <4>4
    <3>3. CASE ~(l < KeyLevelNodes)
      <4>1. Given(p)[l] = TreeStepIn(storage, history, l, m[KeyLevelNodes], t)
        BY <3>1, <3>3 DEF Given, GivenIn
      <4>2. TreeStepIn(storage, history, l, m[KeyLevelNodes], t) = TreeSteps(l, m[KeyLevelNodes], t)
        BY DEF TreeStepIn, TreeSteps, LeadingIn, Leading, LiveIn, IsLive, ReadableIn, Readable,
               VersionsIn, Versions, HasNode
      <4> QED BY <3>3, <4>1, <4>2
    <3> QED BY <3>2, <3>3
  <2>3. ToSet(steps[p]) = UNION {level(l) : l \in First(p) .. call[p].length}
    <3> HIDE DEF level
    <3>1. \A y \in ToSet(steps[p]) : \E l \in First(p) .. call[p].length : y \in level(l)
      BY <2>1, <2>2 DEF Exact, ToSet
    <3>2. \A l \in First(p) .. call[p].length : \A y \in level(l) : y \in ToSet(steps[p])
      BY <2>1, <2>2 DEF Exact, ToSet
    <3> QED BY <3>1, <3>2
  <2> QED BY <2>1, <2>3 DEF Exact, First
<1> QED BY <1>1, Invariance, PTL

=============================================================================
