------------------------------ MODULE PathLemmas ------------------------------
(***************************************************************************)
(* Facts about sequences that the proofs about traversals share: a node is *)
(* the sequence of the keys that lead to it, a subtree is what has a given *)
(* prefix, and a list is a sequence that is appended to and popped.        *)
(***************************************************************************)
EXTENDS Integers, Sequences, FiniteSets, SequencesExt, FiniteSetTheorems, TLAPS

\* A prefix, element by element.
LEMMA PrefixPointwise ==
  ASSUME NEW K, NEW s \in Seq(K), NEW t \in Seq(K)
  PROVE  IsPrefix(s, t) <=> Len(s) <= Len(t) /\ \A i \in 1 .. Len(s) : s[i] = t[i]
<1>1. CASE Len(s) <= Len(t)
  <2>1. SubSeq(s, 1, Len(s)) \in Seq(K) /\ SubSeq(t, 1, Len(s)) \in Seq(K)
    BY <1>1
  <2>2. Len(SubSeq(s, 1, Len(s))) = Len(s) /\ Len(SubSeq(t, 1, Len(s))) = Len(s)
    BY <1>1
  <2>3. \A i \in 1 .. Len(s) : SubSeq(s, 1, Len(s))[i] = s[i] /\ SubSeq(t, 1, Len(s))[i] = t[i]
    BY <1>1
  <2>4. SubSeq(s, 1, Len(s)) = SubSeq(t, 1, Len(s)) <=> \A i \in 1 .. Len(s) : s[i] = t[i]
    BY <2>1, <2>2, <2>3
  <2> QED
    BY <1>1, <2>4 DEF IsPrefix
<1>2. CASE ~(Len(s) <= Len(t))
  BY <1>2 DEF IsPrefix
<1> QED
  BY <1>1, <1>2

\* The elements of a sequence and their places.
LEMMA ToSetMember ==
  ASSUME NEW S, NEW s \in Seq(S)
  PROVE  ToSet(s) \subseteq S /\ \A x : x \in ToSet(s) <=> \E i \in 1 .. Len(s) : s[i] = x
  BY DEF ToSet

\* An extended sequence, place by place.
LEMMA AppendFacts ==
  ASSUME NEW S, NEW s \in Seq(S), NEW e \in S
  PROVE  /\ Append(s, e) \in Seq(S) /\ Len(Append(s, e)) = Len(s) + 1 /\ Len(s) \in Nat
         /\ DOMAIN Append(s, e) = 1 .. Len(s) + 1 /\ DOMAIN s = 1 .. Len(s)
         /\ Append(s, e)[Len(s) + 1] = e
         /\ \A i \in 1 .. Len(s) : Append(s, e)[i] = s[i]
         /\ \A i \in 1 .. Len(s) + 1 : i \in 1 .. Len(s) \/ i = Len(s) + 1
  OBVIOUS

\* The elements of an extended sequence.
LEMMA ToSetAppend ==
  ASSUME NEW S, NEW s \in Seq(S), NEW e \in S
  PROVE  ToSet(Append(s, e)) = ToSet(s) \cup {e}
<1>1. /\ Len(Append(s, e)) = Len(s) + 1 /\ Append(s, e)[Len(s) + 1] = e
      /\ \A i \in 1 .. Len(s) : Append(s, e)[i] = s[i]
      /\ DOMAIN Append(s, e) = 1 .. Len(s) + 1 /\ DOMAIN s = 1 .. Len(s) /\ Len(s) \in Nat
  OBVIOUS
<1> QED
  BY <1>1 DEF ToSet

\* A new element keeps a sequence without repetition.
LEMMA InjectiveAppend ==
  ASSUME NEW S, NEW s \in Seq(S), NEW e \in S, IsInjective(s), e \notin ToSet(s)
  PROVE  IsInjective(Append(s, e))
<1> DEFINE t == Append(s, e)
<1>1. /\ DOMAIN t = 1 .. Len(s) + 1 /\ DOMAIN s = 1 .. Len(s) /\ t[Len(s) + 1] = e
      /\ \A i \in 1 .. Len(s) : t[i] = s[i]
      /\ \A i \in 1 .. Len(s) + 1 : i \in 1 .. Len(s) \/ i = Len(s) + 1
  BY AppendFacts
<1>2. \A i \in 1 .. Len(s) : s[i] # e
  BY <1>1 DEF ToSet
<1>3. \A i, j \in 1 .. Len(s) : s[i] = s[j] => i = j
  BY <1>1 DEF IsInjective
<1> HIDE DEF t
<1>4. \A i, j \in 1 .. Len(s) + 1 : t[i] = t[j] => i = j
  BY <1>1, <1>2, <1>3
<1> QED
  BY <1>1, <1>4 DEF IsInjective, t

\* A prefix of a sequence, place by place.
LEMMA SubSeqFacts ==
  ASSUME NEW S, NEW s \in Seq(S), NEW k \in 0 .. Len(s)
  PROVE  SubSeq(s, 1, k) \in Seq(S) /\ Len(SubSeq(s, 1, k)) = k
         /\ \A i \in 1 .. k : SubSeq(s, 1, k)[i] = s[i]
  OBVIOUS

\* A sequence without its last element, place by place.
LEMMA FrontFacts ==
  ASSUME NEW S, NEW s \in Seq(S), s # <<>>
  PROVE  /\ Front(s) \in Seq(S) /\ Len(Front(s)) = Len(s) - 1 /\ Len(s) \in 1 .. Len(s)
         /\ \A i \in 1 .. Len(s) - 1 : Front(s)[i] = s[i]
<1>1. Len(s) \in Nat /\ Len(s) > 0
  OBVIOUS
<1>2. Len(s) - 1 \in 0 .. Len(s)
  BY <1>1
<1>3. /\ SubSeq(s, 1, Len(s) - 1) \in Seq(S) /\ Len(SubSeq(s, 1, Len(s) - 1)) = Len(s) - 1
      /\ \A i \in 1 .. Len(s) - 1 : SubSeq(s, 1, Len(s) - 1)[i] = s[i]
  BY <1>2, SubSeqFacts
<1> QED
  BY <1>1, <1>3 DEF Front

\* Two sequences one after the other, place by place.
LEMMA ConcatFacts ==
  ASSUME NEW S, NEW s \in Seq(S), NEW t \in Seq(S)
  PROVE  /\ s \o t \in Seq(S) /\ Len(s \o t) = Len(s) + Len(t)
         /\ \A i \in 1 .. Len(s) : (s \o t)[i] = s[i]
         /\ \A i \in 1 .. Len(t) : (s \o t)[Len(s) + i] = t[i]
         /\ \A i \in 1 .. Len(s \o t) :
              i \notin 1 .. Len(s) => i - Len(s) \in 1 .. Len(t) /\ (s \o t)[i] = t[i - Len(s)]
  OBVIOUS

\* SetToSeq lists every element of a finite set once.
LEMMA SetToSeqFacts ==
  ASSUME NEW S, IsFiniteSet(S)
  PROVE  SetToSeq(S) \in Seq(S) /\ IsInjective(SetToSeq(S)) /\ ToSet(SetToSeq(S)) = S
<1> DEFINE N == Cardinality(S)
           s == SetToSeq(S)
<1>1. N \in Nat /\ ExistsBijection(1 .. N, S)
  BY FS_CardinalityType
<1>2. \E f \in [1 .. N -> S] : IsInjective(f)
  BY <1>1 DEF ExistsBijection, Bijection, Injection
<1>3. s \in [1 .. N -> S] /\ IsInjective(s)
  BY <1>2 DEF SetToSeq
<1>4. s \in Seq(S) /\ DOMAIN s = 1 .. N
  BY <1>1, <1>3
<1>5. s \in Injection(1 .. N, S)
  BY <1>3 DEF Injection
<1>6. IsFiniteSet(1 .. N) /\ Cardinality(1 .. N) = N
  BY <1>1, FS_Interval
<1>7. s \in Surjection(1 .. N, S)
  BY <1>5, <1>6, FS_Injection
<1>8. \A x \in S : \E i \in 1 .. N : s[i] = x
  BY <1>7 DEF Surjection
<1>9. ToSet(s) = S
  BY <1>3, <1>4, <1>8 DEF ToSet
<1> QED
  BY <1>3, <1>4, <1>9

\* Prefixes are ordered, and those of one sequence by their lengths.
LEMMA PrefixOrder ==
  ASSUME NEW K, NEW m \in Seq(K), NEW n \in Seq(K)
  PROVE  /\ IsPrefix(m, m)
         /\ IsPrefix(m, n) => Len(m) <= Len(n)
         /\ IsPrefix(m, n) /\ Len(n) <= Len(m) => m = n
         /\ \A k \in Seq(K) : IsPrefix(m, n) /\ IsPrefix(n, k) => IsPrefix(m, k)
         /\ \A k \in Seq(K) : IsPrefix(m, k) /\ IsPrefix(n, k) /\ Len(m) <= Len(n) => IsPrefix(m, n)
<1>1. Len(m) \in Nat /\ Len(n) \in Nat
  OBVIOUS
<1>2. IsPrefix(m, m)
  BY <1>1, PrefixPointwise
<1>3. IsPrefix(m, n) => Len(m) <= Len(n)
  BY PrefixPointwise
<1>4. ASSUME IsPrefix(m, n), Len(n) <= Len(m) PROVE m = n
  <2>1. Len(m) = Len(n)
    BY <1>1, <1>3, <1>4
  <2>2. \A i \in 1 .. Len(m) : m[i] = n[i]
    BY <1>4, PrefixPointwise
  <2> QED
    BY <1>1, <2>1, <2>2
<1>5. ASSUME NEW k \in Seq(K), IsPrefix(m, n), IsPrefix(n, k) PROVE IsPrefix(m, k)
  <2>1. Len(m) <= Len(n) /\ \A i \in 1 .. Len(m) : m[i] = n[i]
    BY <1>5, PrefixPointwise
  <2>2. Len(n) <= Len(k) /\ \A i \in 1 .. Len(n) : n[i] = k[i]
    BY <1>5, PrefixPointwise
  <2>3. Len(k) \in Nat
    OBVIOUS
  <2>4. Len(m) <= Len(k) /\ \A i \in 1 .. Len(m) : m[i] = k[i]
    BY <1>1, <2>1, <2>2, <2>3
  <2> QED
    BY <2>4, PrefixPointwise
<1>6. ASSUME NEW k \in Seq(K), IsPrefix(m, k), IsPrefix(n, k), Len(m) <= Len(n)
      PROVE  IsPrefix(m, n)
  <2>1. \A i \in 1 .. Len(m) : m[i] = k[i]
    BY <1>6, PrefixPointwise
  <2>2. \A i \in 1 .. Len(n) : n[i] = k[i]
    BY <1>6, PrefixPointwise
  <2>3. \A i \in 1 .. Len(m) : m[i] = n[i]
    BY <1>1, <1>6, <2>1, <2>2
  <2> QED
    BY <1>6, <2>3, PrefixPointwise
<1> QED
  BY <1>2, <1>3, <1>4, <1>5, <1>6

\* A sequence without its last element is the longest of its proper prefixes.
LEMMA ParentPrefix ==
  ASSUME NEW K, NEW n \in Seq(K), Len(n) > 0
  PROVE  /\ Front(n) \in Seq(K) /\ Len(Front(n)) = Len(n) - 1
         /\ IsPrefix(Front(n), n) /\ Front(n) # n
         /\ \A m \in Seq(K) : IsPrefix(m, n) /\ m # n => IsPrefix(m, Front(n))
<1>1. Len(n) \in Nat /\ n # <<>>
  OBVIOUS
<1>2. /\ Front(n) \in Seq(K) /\ Len(Front(n)) = Len(n) - 1
      /\ \A i \in 1 .. Len(n) - 1 : Front(n)[i] = n[i]
  BY <1>1, FrontFacts
<1>3. IsPrefix(Front(n), n)
  BY <1>1, <1>2, PrefixPointwise
<1>4. ASSUME NEW m \in Seq(K), IsPrefix(m, n), m # n PROVE IsPrefix(m, Front(n))
  <2>1. Len(m) < Len(n) /\ Len(m) \in Nat
    BY <1>1, <1>4, PrefixOrder
  <2>2. Len(m) <= Len(Front(n))
    BY <1>1, <1>2, <2>1
  <2> QED
    BY <1>2, <1>3, <1>4, <2>2, PrefixOrder
<1> QED
  BY <1>1, <1>2, <1>3, <1>4

\* One element more: the parent of what is one longer.
LEMMA ChildPrefix ==
  ASSUME NEW K, NEW n \in Seq(K), NEW c \in Seq(K), Len(c) = Len(n) + 1, IsPrefix(n, c)
  PROVE  /\ Len(c) > 0 /\ Front(c) = n /\ c # n
         /\ \A m \in Seq(K) : IsPrefix(m, c) /\ m # c => IsPrefix(m, n)
<1>1. Len(n) \in Nat /\ Len(c) > 0 /\ c # n
  OBVIOUS
<1>2. IsPrefix(n, Front(c)) /\ Len(Front(c)) = Len(n) /\ Front(c) \in Seq(K)
  BY <1>1, ParentPrefix
<1>3. Front(c) = n
  BY <1>1, <1>2, PrefixOrder
<1> QED
  BY <1>1, <1>3, ParentPrefix

\* The prefix of a sequence without elements is itself.
LEMMA FrontPrefix ==
  ASSUME NEW K, NEW n \in Seq(K)
  PROVE  Front(n) \in Seq(K) /\ IsPrefix(Front(n), n)
<1>1. CASE Len(n) > 0
  BY <1>1, ParentPrefix
<1>2. CASE ~(Len(n) > 0)
  <2>1. n = <<>>
    BY <1>2
  <2>2. Front(n) = <<>>
    BY <2>1 DEF Front
  <2> QED
    BY <2>1, <2>2, PrefixOrder
<1> QED
  BY <1>1, <1>2

\* The elements of two sequences, one after the other.
LEMMA ConcatSets ==
  ASSUME NEW S, NEW s \in Seq(S), NEW t \in Seq(S)
  PROVE  /\ ToSet(s \o t) = ToSet(s) \cup ToSet(t)
         /\ IsInjective(s) /\ IsInjective(t) /\ ToSet(s) \cap ToSet(t) = {} => IsInjective(s \o t)
<1> DEFINE u == s \o t
<1>1. /\ u \in Seq(S) /\ Len(u) = Len(s) + Len(t) /\ Len(s) \in Nat /\ Len(t) \in Nat
      /\ \A i \in 1 .. Len(s) : u[i] = s[i] /\ i \in 1 .. Len(u)
      /\ \A i \in 1 .. Len(t) : u[Len(s) + i] = t[i] /\ Len(s) + i \in 1 .. Len(u)
      /\ \A i \in 1 .. Len(u) : i \in 1 .. Len(s) \/ (i - Len(s) \in 1 .. Len(t) /\ u[i] = t[i - Len(s)])
  BY ConcatFacts
<1> HIDE DEF u
<1>2. /\ \A x : x \in ToSet(s) <=> \E i \in 1 .. Len(s) : s[i] = x
      /\ \A x : x \in ToSet(t) <=> \E i \in 1 .. Len(t) : t[i] = x
      /\ \A x : x \in ToSet(u) <=> \E i \in 1 .. Len(u) : u[i] = x
  BY <1>1, ToSetMember
<1>3. ToSet(u) = ToSet(s) \cup ToSet(t)
  BY <1>1, <1>2
<1>4. ASSUME IsInjective(s), IsInjective(t), ToSet(s) \cap ToSet(t) = {} PROVE IsInjective(u)
  <2>1. /\ \A i, j \in 1 .. Len(s) : s[i] = s[j] => i = j
        /\ \A i, j \in 1 .. Len(t) : t[i] = t[j] => i = j
    BY <1>4 DEF IsInjective
  <2>2. ASSUME NEW i \in 1 .. Len(u), NEW j \in 1 .. Len(u), u[i] = u[j] PROVE i = j
    <3>1. CASE i \in 1 .. Len(s) /\ j \in 1 .. Len(s)
      BY <1>1, <2>1, <2>2, <3>1
    <3>2. CASE i \in 1 .. Len(s) /\ j \notin 1 .. Len(s)
      BY <1>1, <1>2, <1>4, <2>2, <3>2
    <3>3. CASE i \notin 1 .. Len(s) /\ j \in 1 .. Len(s)
      BY <1>1, <1>2, <1>4, <2>2, <3>3
    <3>4. CASE i \notin 1 .. Len(s) /\ j \notin 1 .. Len(s)
      <4>1. i - Len(s) = j - Len(s)
        BY <1>1, <2>1, <2>2, <3>4
      <4> QED
        BY <1>1, <4>1
    <3> QED
      BY <3>1, <3>2, <3>3, <3>4
  <2>3. DOMAIN u = 1 .. Len(u)
    BY <1>1
  <2> QED
    BY <2>2, <2>3 DEF IsInjective
<1> QED
  BY <1>3, <1>4 DEF u

\* A sequence without its first element.
LEMMA TailFacts ==
  ASSUME NEW S, NEW s \in Seq(S), s # <<>>
  PROVE  /\ Tail(s) \in Seq(S) /\ Len(Tail(s)) = Len(s) - 1 /\ Head(s) = s[1] /\ Head(s) \in S
         /\ \A i \in 1 .. Len(s) - 1 : Tail(s)[i] = s[i + 1]
         /\ ToSet(s) = ToSet(Tail(s)) \cup {Head(s)}
         /\ IsInjective(s) => IsInjective(Tail(s)) /\ Head(s) \notin ToSet(Tail(s))
<1>1. /\ Tail(s) \in Seq(S) /\ Len(Tail(s)) = Len(s) - 1 /\ Head(s) = s[1] /\ Head(s) \in S
      /\ \A i \in 1 .. Len(s) - 1 : Tail(s)[i] = s[i + 1]
      /\ Len(s) \in Nat /\ Len(s) > 0
  OBVIOUS
<1>2. /\ \A x : x \in ToSet(s) <=> \E i \in 1 .. Len(s) : s[i] = x
      /\ \A x : x \in ToSet(Tail(s)) <=> \E i \in 1 .. Len(s) - 1 : s[i + 1] = x
  <2>1. \A x : x \in ToSet(Tail(s)) <=> \E i \in 1 .. Len(s) - 1 : Tail(s)[i] = x
    <3> DEFINE t == Tail(s)
    <3>1. t \in Seq(S) /\ Len(t) = Len(s) - 1
      BY <1>1
    <3> HIDE DEF t
    <3>2. \A x : x \in ToSet(t) <=> \E i \in 1 .. Len(s) - 1 : t[i] = x
      BY <3>1, ToSetMember
    <3> QED
      BY <3>2 DEF t
  <2>2. \A x : x \in ToSet(s) <=> \E i \in 1 .. Len(s) : s[i] = x
    BY ToSetMember
  <2> QED
    BY <1>1, <2>1, <2>2
<1>3. ToSet(s) = ToSet(Tail(s)) \cup {Head(s)}
  <2>1. \A i \in 1 .. Len(s) : i = 1 \/ i - 1 \in 1 .. Len(s) - 1
    BY <1>1
  <2>2. \A i \in 1 .. Len(s) - 1 : i + 1 \in 1 .. Len(s)
    BY <1>1
  <2>3. ASSUME NEW x \in ToSet(s), x # s[1] PROVE x \in ToSet(Tail(s))
    <3>1. PICK i \in 1 .. Len(s) : s[i] = x
      BY <1>2, <2>3
    <3>2. PICK j \in 1 .. Len(s) - 1 : i = j + 1
      <4>1. i - 1 \in 1 .. Len(s) - 1 /\ i = (i - 1) + 1
        BY <2>1, <2>3, <3>1
      <4> QED
        BY <4>1
    <3> QED
      BY <1>2, <3>1, <3>2
  <2>4. ToSet(Tail(s)) \subseteq ToSet(s)
    BY <1>2, <2>2
  <2>5. Head(s) \in ToSet(s)
    BY <1>1, <1>2
  <2> QED
    BY <1>1, <2>3, <2>4, <2>5
<1>4. ASSUME IsInjective(s) PROVE IsInjective(Tail(s)) /\ Head(s) \notin ToSet(Tail(s))
  <2>1. \A i, j \in 1 .. Len(s) : s[i] = s[j] => i = j
    BY <1>4 DEF IsInjective
  <2>2. \A i, j \in 1 .. Len(s) - 1 : Tail(s)[i] = Tail(s)[j] => i = j
    BY <1>1, <2>1
  <2>3. DOMAIN Tail(s) = 1 .. Len(s) - 1
    BY <1>1
  <2>4. \A i \in 1 .. Len(s) - 1 : s[i + 1] # s[1]
    BY <1>1, <2>1
  <2> QED
    BY <1>1, <1>2, <2>2, <2>3, <2>4 DEF IsInjective
<1> QED
  BY <1>1, <1>3, <1>4

\* A sequence without its last element.
LEMMA LastFacts ==
  ASSUME NEW S, NEW s \in Seq(S), s # <<>>
  PROVE  /\ Last(s) = s[Len(s)] /\ Last(s) \in S
         /\ ToSet(s) = ToSet(Front(s)) \cup {Last(s)}
         /\ IsInjective(s) => IsInjective(Front(s)) /\ Last(s) \notin ToSet(Front(s))
<1>1. /\ Front(s) \in Seq(S) /\ Len(Front(s)) = Len(s) - 1 /\ Last(s) = s[Len(s)] /\ Last(s) \in S
      /\ \A i \in 1 .. Len(s) - 1 : Front(s)[i] = s[i]
      /\ Len(s) \in Nat /\ Len(s) > 0
  BY FrontFacts DEF Last
<1>2. /\ \A x : x \in ToSet(s) <=> \E i \in 1 .. Len(s) : s[i] = x
      /\ \A x : x \in ToSet(Front(s)) <=> \E i \in 1 .. Len(s) - 1 : s[i] = x
  BY <1>1, ToSetMember
<1>3. ToSet(s) = ToSet(Front(s)) \cup {Last(s)}
  <2>1. \A i \in 1 .. Len(s) : i = Len(s) \/ i \in 1 .. Len(s) - 1
    BY <1>1
  <2>2. \A i \in 1 .. Len(s) - 1 : i \in 1 .. Len(s)
    BY <1>1
  <2> QED
    BY <1>1, <1>2, <2>1, <2>2
<1>4. ASSUME IsInjective(s) PROVE IsInjective(Front(s)) /\ Last(s) \notin ToSet(Front(s))
  <2>1. \A i, j \in 1 .. Len(s) : s[i] = s[j] => i = j
    BY <1>4 DEF IsInjective
  <2>2. \A i, j \in 1 .. Len(s) - 1 : Front(s)[i] = Front(s)[j] => i = j
    BY <1>1, <2>1
  <2>3. DOMAIN Front(s) = 1 .. Len(s) - 1
    BY <1>1
  <2>4. \A i \in 1 .. Len(s) - 1 : s[i] # s[Len(s)]
    BY <1>1, <2>1
  <2> QED
    BY <1>1, <1>2, <2>2, <2>3, <2>4 DEF IsInjective
<1> QED
  BY <1>1, <1>3, <1>4

=============================================================================
