---------------------------- MODULE QueueLemmas ----------------------------
(***************************************************************************)
(* What the queues of the models keep when an element is added at the end  *)
(* or taken from the front, for queues of any length, and the greatest of  *)
(* a bounded set of numbers.                                               *)
(***************************************************************************)
EXTENDS Integers, Sequences, SequencesExt, SequenceTheorems, FiniteSetTheorems,
        WellFoundedInduction, TLAPS

\* A prefix, element by element.
LEMMA PrefixElements ==
    ASSUME NEW T, NEW p \in Seq(T), NEW q \in Seq(T)
    PROVE  IsPrefix(p, q) <=>
               Len(p) <= Len(q) /\ \A i \in 1 .. Len(p) : p[i] = q[i]
<1> DEFINE f == SubSeq(q, 1, Len(p))
<1>1. Len(p) \in Nat /\ Len(q) \in Nat /\ \A i \in 1 .. Len(q) : q[i] \in T
  OBVIOUS
<1>2. SubSeq(p, 1, Len(p)) = p
  BY SubSeqFull
<1>3. ASSUME Len(p) <= Len(q)
      PROVE  /\ f \in Seq(T)
             /\ Len(f) = Len(p)
             /\ \A i \in 1 .. Len(p) : f[i] = q[i]
  <2>1. \A i \in 1 .. Len(p) : q[i] \in T
    BY <1>1, <1>3
  <2>2. /\ f \in Seq(T)
        /\ Len(f) = IF 1 <= Len(p) THEN Len(p) - 1 + 1 ELSE 0
        /\ \A i \in 1 .. Len(p) - 1 + 1 : f[i] = q[1 + i - 1]
    BY <1>1, <2>1, SubSeqProperties
  <2> HIDE DEF f
  <2> QED BY <1>1, <2>2
<1> HIDE DEF f
<1>4. ASSUME Len(p) <= Len(q), \A i \in 1 .. Len(p) : p[i] = q[i]
      PROVE  p = f
  <2>1. \A i \in 1 .. Len(p) : p[i] = f[i]
    BY <1>3, <1>4
  <2> QED BY <1>3, <1>4, <2>1, SeqEqual
<1> QED BY <1>2, <1>3, <1>4 DEF IsPrefix, f

\* Nothing is a prefix of every queue.
LEMMA EmptyIsPrefix ==
    ASSUME NEW T, NEW q \in Seq(T)
    PROVE  IsPrefix(<<>>, q)
<1>1. Len(<<>>) = 0 /\ Len(q) \in Nat
  BY EmptySeq
<1>2. SubSeq(<<>>, 1, 0) = <<>> /\ SubSeq(q, 1, 0) = <<>>
  BY SubSeqEmpty
<1> QED BY <1>1, <1>2 DEF IsPrefix

\* The head and the tail, by index.
LEMMA TailElements ==
    ASSUME NEW T, NEW s \in Seq(T), s # <<>>
    PROVE  /\ Len(s) \in Nat \ {0}
           /\ Head(s) = s[1] /\ s[1] \in T
           /\ Tail(s) \in Seq(T)
           /\ Len(Tail(s)) = Len(s) - 1
           /\ \A i \in 1 .. Len(s) - 1 : Tail(s)[i] = s[i + 1]
<1>1. Len(s) \in Nat \ {0}
  BY EmptySeq
<1> QED BY <1>1, HeadTailProperties, ElementOfSeq

\* Removing the first element leaves the tail.
LEMMA RemoveAtFront ==
    ASSUME NEW T, NEW s \in Seq(T), s # <<>>
    PROVE  RemoveAt(s, 1) = Tail(s)
<1>1. Len(s) \in Nat \ {0} /\ Tail(s) \in Seq(T)
  BY TailElements
<1>2. SubSeq(s, 1, 1 - 1) = <<>>
  BY SubSeqEmpty
<1>3. SubSeq(s, 1 + 1, Len(s)) = Tail(s)
  BY TailIsSubSeq
<1>4. <<>> \o Tail(s) = Tail(s)
  BY <1>1, ConcatEmptySeq
<1>5. RemoveAt(s, 1) = SubSeq(s, 1, 1 - 1) \o SubSeq(s, 1 + 1, Len(s))
  BY DEF RemoveAt
<1>6. RemoveAt(s, 1) = <<>> \o Tail(s)
  BY <1>2, <1>3, <1>5
<1> QED BY <1>4, <1>6

\* What is taken from the front of a concatenation.
LEMMA TailOfConcat ==
    ASSUME NEW T, NEW s \in Seq(T), NEW t \in Seq(T), s # <<>>
    PROVE  Tail(s \o t) = Tail(s) \o t /\ Head(s \o t) = Head(s)
<1>1. /\ Len(s) \in Nat \ {0} /\ Head(s) = s[1] /\ Tail(s) \in Seq(T)
      /\ Len(Tail(s)) = Len(s) - 1
      /\ \A i \in 1 .. Len(s) - 1 : Tail(s)[i] = s[i + 1]
  BY TailElements
<1>2. Len(t) \in Nat
  OBVIOUS
<1>3. /\ s \o t \in Seq(T)
      /\ Len(s \o t) = Len(s) + Len(t)
      /\ \A i \in 1 .. Len(s) + Len(t) :
            (s \o t)[i] = IF i <= Len(s) THEN s[i] ELSE t[i - Len(s)]
  BY ConcatProperties
<1>4. s \o t # <<>>
  BY <1>1, <1>2, <1>3
<1>5. /\ Head(s \o t) = (s \o t)[1] /\ Tail(s \o t) \in Seq(T)
      /\ Len(Tail(s \o t)) = Len(s \o t) - 1
      /\ \A i \in 1 .. Len(s \o t) - 1 : Tail(s \o t)[i] = (s \o t)[i + 1]
  BY <1>3, <1>4, TailElements
<1>6. /\ Tail(s) \o t \in Seq(T)
      /\ Len(Tail(s) \o t) = Len(s) - 1 + Len(t)
      /\ \A i \in 1 .. Len(s) - 1 + Len(t) :
            (Tail(s) \o t)[i] = IF i <= Len(s) - 1 THEN Tail(s)[i] ELSE t[i - (Len(s) - 1)]
  <2> DEFINE r == Tail(s)
  <2>1. r \in Seq(T) /\ Len(r) = Len(s) - 1
    BY <1>1
  <2> HIDE DEF r
  <2>2. /\ r \o t \in Seq(T)
        /\ Len(r \o t) = Len(r) + Len(t)
        /\ \A i \in 1 .. Len(r) + Len(t) :
              (r \o t)[i] = IF i <= Len(r) THEN r[i] ELSE t[i - Len(r)]
    BY <2>1, ConcatProperties
  <2> QED BY <2>1, <2>2 DEF r
<1> DEFINE a == Tail(s \o t)
           b == Tail(s) \o t
<1>7. ASSUME NEW i \in 1 .. Len(s) - 1 + Len(t)
      PROVE  a[i] = b[i]
  <2>1. i \in 1 .. Len(s \o t) - 1 /\ i + 1 \in 1 .. Len(s) + Len(t)
    BY <1>1, <1>2, <1>3
  <2>2. a[i] = IF i + 1 <= Len(s) THEN s[i + 1] ELSE t[(i + 1) - Len(s)]
    BY <1>3, <1>5, <2>1
  <2>3. b[i] = IF i <= Len(s) - 1 THEN Tail(s)[i] ELSE t[i - (Len(s) - 1)]
    BY <1>6
  <2>4. CASE i <= Len(s) - 1
    BY <1>1, <2>2, <2>3, <2>4
  <2>5. CASE ~(i <= Len(s) - 1)
    <3>1. (i + 1) - Len(s) = i - (Len(s) - 1) /\ ~(i + 1 <= Len(s))
      BY <1>1, <2>5
    <3> QED BY <2>2, <2>3, <2>5, <3>1
  <2> QED BY <2>4, <2>5
<1>8. a \in Seq(T) /\ b \in Seq(T) /\ Len(a) = Len(b) /\ Len(a) = Len(s) - 1 + Len(t)
  BY <1>1, <1>2, <1>3, <1>5, <1>6
<1> HIDE DEF a, b
<1>9. a = b
  BY <1>7, <1>8, SeqEqual
<1>10. Head(s \o t) = Head(s)
  BY <1>1, <1>2, <1>3, <1>5
<1> QED BY <1>9, <1>10 DEF a, b

\* An element moves from the front of a queue to the end of the one before it.
LEMMA HeadMoves ==
    ASSUME NEW T, NEW s \in Seq(T), NEW t \in Seq(T), t # <<>>
    PROVE  Append(s, Head(t)) \o Tail(t) = s \o t
<1>1. Head(t) \in T /\ Tail(t) \in Seq(T)
  BY HeadTailProperties
<1>2. Append(s, Head(t)) = s \o <<Head(t)>> /\ <<Head(t)>> \in Seq(T)
  BY <1>1, AppendIsConcat
<1>3. t = <<Head(t)>> \o Tail(t)
  <2>1. Len(t) \in Nat \ {0} /\ Head(t) = t[1] /\ Tail(t) = SubSeq(t, 2, Len(t))
    BY TailElements, TailIsSubSeq
  <2>2. SubSeq(t, 1, Len(t)) = <<t[1]>> \o SubSeq(t, 1 + 1, Len(t))
    <3>1. 1 \in 1 .. Len(t) /\ Len(t) \in 1 .. Len(t)
      BY <2>1
    <3> QED BY <3>1, SubSeqRecursiveFirst
  <2>3. SubSeq(t, 1, Len(t)) = t
    BY SubSeqFull
  <2> QED BY <2>1, <2>2, <2>3
<1>4. (s \o <<Head(t)>>) \o Tail(t) = s \o (<<Head(t)>> \o Tail(t))
  BY <1>1, <1>2, ConcatAssociative
<1> QED BY <1>2, <1>3, <1>4

\* A prefix stays one when the queue grows at its end.
LEMMA PrefixOfAppend ==
    ASSUME NEW T, NEW p \in Seq(T), NEW q \in Seq(T), NEW e \in T, IsPrefix(p, q)
    PROVE  IsPrefix(p, Append(q, e))
<1>1. Len(p) \in Nat /\ Len(q) \in Nat
  OBVIOUS
<1>2. Len(p) <= Len(q) /\ \A i \in 1 .. Len(p) : p[i] = q[i]
  BY PrefixElements
<1>3. /\ Append(q, e) \in Seq(T) /\ Len(Append(q, e)) = Len(q) + 1
      /\ \A i \in 1 .. Len(q) : Append(q, e)[i] = q[i]
  BY AppendProperties
<1>4. Len(p) <= Len(Append(q, e)) /\ \A i \in 1 .. Len(p) : p[i] = Append(q, e)[i]
  BY <1>1, <1>2, <1>3
<1> QED BY <1>3, <1>4, PrefixElements

\* The tail of a prefix is a prefix of the tail.
LEMMA PrefixOfTail ==
    ASSUME NEW T, NEW p \in Seq(T), NEW q \in Seq(T), IsPrefix(p, q), p # <<>>
    PROVE  q # <<>> /\ Head(p) = Head(q) /\ IsPrefix(Tail(p), Tail(q))
<1>1. Len(p) <= Len(q) /\ \A i \in 1 .. Len(p) : p[i] = q[i]
  BY PrefixElements
<1>2. /\ Len(p) \in Nat \ {0} /\ Head(p) = p[1]
      /\ Tail(p) \in Seq(T) /\ Len(Tail(p)) = Len(p) - 1
      /\ \A i \in 1 .. Len(p) - 1 : Tail(p)[i] = p[i + 1]
  BY TailElements
<1>3. Len(q) \in Nat /\ q # <<>>
  BY <1>1, <1>2
<1>4. /\ Head(q) = q[1]
      /\ Tail(q) \in Seq(T) /\ Len(Tail(q)) = Len(q) - 1
      /\ \A i \in 1 .. Len(q) - 1 : Tail(q)[i] = q[i + 1]
  BY <1>3, TailElements
<1>5. Head(p) = Head(q)
  BY <1>1, <1>2, <1>4
<1>6. Len(Tail(p)) <= Len(Tail(q)) /\ \A i \in 1 .. Len(Tail(p)) : Tail(p)[i] = Tail(q)[i]
  BY <1>1, <1>2, <1>3, <1>4
<1>7. IsPrefix(Tail(p), Tail(q))
  BY <1>2, <1>4, <1>6, PrefixElements
<1> QED BY <1>3, <1>5, <1>7

\* A set of numbers that has a bound has a greatest.
LEMMA GreatestOfBounded ==
    ASSUME NEW S \in SUBSET Nat, S # {}, NEW n \in Nat, \A x \in S : x <= n
    PROVE  Max(S) \in S /\ \A x \in S : x <= Max(S)
<1> DEFINE U == {m \in Nat : \A x \in S : x <= m}
           R == OpToRel(<, Nat)
<1>1. U \subseteq Nat /\ U # {}
  OBVIOUS
<1>2. PICK m \in U : \A y \in U : ~(<<y, m>> \in R)
  <2> HIDE DEF U
  <2> QED BY <1>1, WFMin, NatLessThanWellFounded, Zenon
<1>3. \A y \in U : ~(y < m)
  BY <1>2 DEF OpToRel
<1>4. m \in S
  <2> SUFFICES ASSUME m \notin S
               PROVE  FALSE
    OBVIOUS
  <2>1. \A x \in S : x <= m - 1
    OBVIOUS
  <2>2. m - 1 \in Nat
    <3>1. PICK x \in S : TRUE
      OBVIOUS
    <3>2. x \in Nat /\ x <= m - 1 /\ m \in Nat
      BY <2>1
    <3> HIDE DEF U
    <3> QED BY <3>2
  <2>3. m - 1 \in U /\ m - 1 < m
    BY <2>1, <2>2
  <2> QED BY <1>3, <2>3
<1>5. m \in S /\ \A y \in S : m >= y
  BY <1>4
<1>6. Max(S) \in S /\ \A y \in S : Max(S) >= y
  BY <1>5 DEF Max
<1> QED BY <1>6

\* Of two queues that hold one element between them, one holds it.
LEMMA ConcatIsOne ==
    ASSUME NEW T, NEW s \in Seq(T), NEW t \in Seq(T), NEW e \in T, s \o t = <<e>>
    PROVE  /\ s # <<>> => s = <<e>> /\ t = <<>>
           /\ t # <<>> => t = <<e>> /\ s = <<>>
<1>1. /\ Len(s) \in Nat /\ Len(t) \in Nat /\ Len(s) + Len(t) = 1
      /\ s = <<>> <=> Len(s) = 0
      /\ t = <<>> <=> Len(t) = 0
  <2>1. Len(s \o t) = Len(s) + Len(t) /\ Len(<<e>>) = 1
    BY ConcatProperties
  <2> QED BY <2>1, EmptySeq
<1>2. s = <<>> => s \o t = t
  BY ConcatEmptySeq
<1>3. t = <<>> => s \o t = s
  BY ConcatEmptySeq
<1> QED BY <1>1, <1>2, <1>3

-----------------------------------------------------------------------------
(* Where a queue holds elements of a set, and how many.                    *)

Places(q, S) == {i \in DOMAIN q : q[i] \in S}

\* There are finitely many such places, and none exactly if no element is of
\* the set.
LEMMA PlacesFinite ==
    ASSUME NEW T, NEW q \in Seq(T), NEW S
    PROVE  /\ IsFiniteSet(Places(q, S))
           /\ Cardinality(Places(q, S)) \in Nat
           /\ Cardinality(Places(q, S)) = 0 <=> \A i \in 1 .. Len(q) : q[i] \notin S
<1>1. Len(q) \in Nat /\ DOMAIN q = 1 .. Len(q)
  OBVIOUS
<1>2. IsFiniteSet(1 .. Len(q))
  BY <1>1, FS_Interval
<1>3. Places(q, S) \in SUBSET (1 .. Len(q))
  BY <1>1 DEF Places
<1>4. IsFiniteSet(Places(q, S))
  BY <1>2, <1>3, FS_Subset
<1>5. Cardinality(Places(q, S)) \in Nat
  BY <1>4, FS_CardinalityType
<1>6. Cardinality(Places(q, S)) = 0 <=> Places(q, S) = {}
  BY <1>4, FS_EmptySet
<1> QED BY <1>1, <1>4, <1>5, <1>6 DEF Places

\* One more place when an element of the set joins the queue.
LEMMA PlacesOfAppend ==
    ASSUME NEW T, NEW q \in Seq(T), NEW e \in T, NEW S
    PROVE  Cardinality(Places(Append(q, e), S)) =
               Cardinality(Places(q, S)) + IF e \in S THEN 1 ELSE 0
<1> DEFINE r == Append(q, e)
<1>1. /\ r \in Seq(T) /\ Len(r) = Len(q) + 1 /\ r[Len(q) + 1] = e
      /\ \A i \in 1 .. Len(q) : r[i] = q[i]
  BY AppendProperties
<1> HIDE DEF r
<1>2. DOMAIN r = 1 .. Len(q) + 1 /\ DOMAIN q = 1 .. Len(q) /\ Len(q) \in Nat
  BY <1>1
<1>3. IsFiniteSet(Places(q, S)) /\ Cardinality(Places(q, S)) \in Nat
  BY PlacesFinite
<1>4. CASE e \in S
  <2>1. Places(r, S) = Places(q, S) \cup {Len(q) + 1}
    BY <1>1, <1>2, <1>4 DEF Places
  <2>2. Len(q) + 1 \notin Places(q, S)
    BY <1>2 DEF Places
  <2> QED BY <1>3, <1>4, <2>1, <2>2, FS_AddElement DEF r
<1>5. CASE e \notin S
  <2>1. Places(r, S) = Places(q, S)
    BY <1>1, <1>2, <1>5 DEF Places
  <2> QED BY <1>3, <1>5, <2>1 DEF r
<1> QED BY <1>4, <1>5

\* One place less when an element of the set leaves the front of the queue.
LEMMA PlacesOfTail ==
    ASSUME NEW T, NEW q \in Seq(T), q # <<>>, NEW S
    PROVE  Cardinality(Places(q, S)) =
               Cardinality(Places(Tail(q), S)) + IF Head(q) \in S THEN 1 ELSE 0
<1> DEFINE r == Tail(q)
           A == Places(q, S) \ {1}
           f == [i \in Places(r, S) |-> i + 1]
<1>1. /\ Len(q) \in Nat \ {0} /\ Head(q) = q[1]
      /\ r \in Seq(T) /\ Len(r) = Len(q) - 1
      /\ \A i \in 1 .. Len(q) - 1 : r[i] = q[i + 1]
  BY TailElements
<1> HIDE DEF r
<1>2. DOMAIN r = 1 .. Len(q) - 1 /\ DOMAIN q = 1 .. Len(q)
  BY <1>1
<1>3. /\ IsFiniteSet(Places(q, S)) /\ Cardinality(Places(q, S)) \in Nat
      /\ IsFiniteSet(Places(r, S)) /\ Cardinality(Places(r, S)) \in Nat
  BY <1>1, PlacesFinite
<1>4. ExistsBijection(Places(r, S), A)
  <2>1. \A i \in Places(r, S) : i \in Nat /\ i + 1 \in A
    BY <1>1, <1>2 DEF Places
  <2>2. \A j \in A : j - 1 \in Places(r, S) /\ j \in Nat
    BY <1>1, <1>2 DEF Places
  <2>3. f \in Bijection(Places(r, S), A)
    <3>1. f \in [Places(r, S) -> A]
      BY <2>1
    <3>2. \A i, j \in Places(r, S) : f[i] = f[j] => i = j
      BY <2>1
    <3>3. \A j \in A : \E i \in Places(r, S) : f[i] = j
      <4> SUFFICES ASSUME NEW j \in A
                   PROVE  \E i \in Places(r, S) : f[i] = j
        OBVIOUS
      <4>1. j - 1 \in Places(r, S) /\ f[j - 1] = (j - 1) + 1 /\ (j - 1) + 1 = j
        BY <2>2
      <4> QED BY <4>1
    <3> HIDE DEF f, A
    <3> QED BY <3>1, <3>2, <3>3 DEF Bijection, Injection, Surjection, IsInjective
  <2> QED BY <2>3 DEF ExistsBijection
<1>5. IsFiniteSet(A) /\ Cardinality(A) = Cardinality(Places(r, S))
  BY <1>3, <1>4, FS_Bijection
<1>6. Cardinality(A) = IF 1 \in Places(q, S) THEN Cardinality(Places(q, S)) - 1
                       ELSE Cardinality(Places(q, S))
  BY <1>3, FS_RemoveElement
<1>7. 1 \in Places(q, S) <=> Head(q) \in S
  BY <1>1, <1>2 DEF Places
<1> HIDE DEF A
<1> QED BY <1>3, <1>5, <1>6, <1>7 DEF r

-----------------------------------------------------------------------------
(* What the last element of a kind says, among the first n of a queue.     *)

Latest(q, n, kind, base) ==
    LET S == {i \in 1 .. n : q[i].kind = kind}
    IN  IF S = {} THEN base ELSE q[Max(S)].user

\* It is what was said before the queue, if no element is of the kind.
LEMMA LatestIsBase ==
    ASSUME NEW q, NEW n, NEW kind, NEW base, \A i \in 1 .. n : q[i].kind # kind
    PROVE  Latest(q, n, kind, base) = base
BY DEF Latest

\* The last element of the kind.
IsLast(q, n, kind, i) ==
    i \in 1 .. n /\ q[i].kind = kind /\ \A j \in i + 1 .. n : q[j].kind # kind

\* It is what the last element of the kind says.
LEMMA LatestIs ==
    ASSUME NEW q, NEW n \in Nat, NEW kind, NEW base, NEW i, IsLast(q, n, kind, i)
    PROVE  Latest(q, n, kind, base) = q[i].user
<1> DEFINE S == {j \in 1 .. n : q[j].kind = kind}
<1>1. i \in S /\ S \in SUBSET Nat /\ \A j \in S : j <= n
  BY DEF IsLast
<1>2. \A j \in S : j <= i
  BY DEF IsLast
<1>3. Max(S) \in S /\ \A x \in S : x <= Max(S)
  <2> HIDE DEF S
  <2> QED BY <1>1, GreatestOfBounded
<1>4. Max(S) = i
  <2> HIDE DEF S
  <2>1. Max(S) <= i /\ i <= Max(S) /\ Max(S) \in Nat /\ i \in Nat
    BY <1>1, <1>2, <1>3
  <2> QED BY <2>1
<1> QED BY <1>1, <1>4 DEF Latest

\* If an element is of the kind, there is a last one.
LEMMA LastExists ==
    ASSUME NEW q, NEW n \in Nat, NEW kind, ~(\A i \in 1 .. n : q[i].kind # kind)
    PROVE  \E i \in 1 .. n : IsLast(q, n, kind, i)
<1> DEFINE S == {j \in 1 .. n : q[j].kind = kind}
<1>1. S # {} /\ S \in SUBSET Nat /\ \A j \in S : j <= n
  OBVIOUS
<1>2. Max(S) \in S /\ \A x \in S : x <= Max(S)
  <2> HIDE DEF S
  <2> QED BY <1>1, GreatestOfBounded
<1>3. Max(S) \in 1 .. n /\ q[Max(S)].kind = kind
  BY <1>2
<1>4. \A k \in Max(S) + 1 .. n : q[k].kind # kind
  <2> SUFFICES ASSUME NEW k \in Max(S) + 1 .. n, q[k].kind = kind
               PROVE  FALSE
    OBVIOUS
  <2>1. k \in 1 .. n /\ k > Max(S) /\ Max(S) \in Nat
    BY <1>3
  <2>2. k \in S
    BY <2>1
  <2> HIDE DEF S
  <2> QED BY <1>2, <2>1, <2>2
<1> HIDE DEF S
<1>5. IsLast(q, n, kind, Max(S))
  BY <1>3, <1>4 DEF IsLast
<1> QED BY <1>3, <1>5

\* Only the first n elements count.
LEMMA LatestOfEqual ==
    ASSUME NEW q, NEW r, NEW n \in Nat, NEW kind, NEW base,
           \A i \in 1 .. n : q[i] = r[i]
    PROVE  Latest(q, n, kind, base) = Latest(r, n, kind, base)
<1>1. CASE \A i \in 1 .. n : q[i].kind # kind
  <2>1. \A i \in 1 .. n : r[i].kind # kind
    BY <1>1
  <2> QED BY <1>1, <2>1, LatestIsBase
<1>2. CASE ~(\A i \in 1 .. n : q[i].kind # kind)
  <2>1. PICK i \in 1 .. n : IsLast(q, n, kind, i)
    BY <1>2, LastExists
  <2>2. \A k \in i + 1 .. n : k \in 1 .. n
    OBVIOUS
  <2>3. q[i] = r[i] /\ IsLast(r, n, kind, i)
    BY <2>1, <2>2 DEF IsLast
  <2>4. Latest(q, n, kind, base) = q[i].user
    BY <2>1, LatestIs
  <2>5. Latest(r, n, kind, base) = r[i].user
    BY <2>3, LatestIs
  <2> QED BY <2>3, <2>4, <2>5
<1> QED BY <1>1, <1>2

\* One element more says something, or does not.
LEMMA LatestOfNext ==
    ASSUME NEW q, NEW n \in Nat, NEW kind, NEW base
    PROVE  Latest(q, n + 1, kind, base) =
               IF q[n + 1].kind = kind THEN q[n + 1].user
                                       ELSE Latest(q, n, kind, base)
<1>1. CASE q[n + 1].kind = kind
  <2>1. IsLast(q, n + 1, kind, n + 1)
    BY <1>1 DEF IsLast
  <2>2. n + 1 \in Nat
    OBVIOUS
  <2> QED BY <1>1, <2>1, <2>2, LatestIs
<1>2. CASE q[n + 1].kind # kind
  <2>1. {i \in 1 .. n + 1 : q[i].kind = kind} = {i \in 1 .. n : q[i].kind = kind}
    BY <1>2
  <2> QED BY <1>2, <2>1 DEF Latest
<1> QED BY <1>1, <1>2

\* An element added at the end changes nothing for those before it, and says
\* something if it is of the kind.
LEMMA LatestBefore ==
    ASSUME NEW T, NEW q \in Seq(T), NEW e \in T, NEW kind, NEW base, NEW n \in 0 .. Len(q)
    PROVE  Latest(Append(q, e), n, kind, base) = Latest(q, n, kind, base)
<1> DEFINE r == Append(q, e)
<1>1. Len(q) \in Nat /\ \A i \in 1 .. Len(q) : r[i] = q[i]
  BY AppendProperties
<1> HIDE DEF r
<1>2. n \in Nat /\ \A i \in 1 .. n : r[i] = q[i]
  BY <1>1
<1>3. Latest(r, n, kind, base) = Latest(q, n, kind, base)
  BY <1>2, LatestOfEqual
<1> QED BY <1>3 DEF r

LEMMA LatestAtEnd ==
    ASSUME NEW T, NEW q \in Seq(T), NEW e \in T, NEW kind, NEW base
    PROVE  Latest(Append(q, e), Len(q) + 1, kind, base) =
               IF e.kind = kind THEN e.user ELSE Latest(q, Len(q), kind, base)
<1> DEFINE r == Append(q, e)
<1>1. Len(q) \in Nat /\ r[Len(q) + 1] = e /\ Len(q) \in 0 .. Len(q)
  BY AppendProperties
<1>2. Latest(r, Len(q), kind, base) = Latest(q, Len(q), kind, base)
  BY <1>1, LatestBefore
<1> HIDE DEF r
<1>3. Latest(r, Len(q) + 1, kind, base) =
        IF r[Len(q) + 1].kind = kind THEN r[Len(q) + 1].user
                                     ELSE Latest(r, Len(q), kind, base)
  BY <1>1, LatestOfNext
<1> QED BY <1>1, <1>2, <1>3 DEF r

\* When the first element is taken, what it says is said before the queue.
LEMMA LatestOfTail ==
    ASSUME NEW T, NEW q \in Seq(T), q # <<>>, NEW n \in 1 .. Len(q), NEW kind, NEW base
    PROVE  Latest(q, n, kind, base) =
               Latest(Tail(q), n - 1, kind,
                      IF Head(q).kind = kind THEN Head(q).user ELSE base)
<1> DEFINE r == Tail(q)
           b == IF Head(q).kind = kind THEN Head(q).user ELSE base
<1>1. /\ Len(q) \in Nat \ {0} /\ Head(q) = q[1]
      /\ \A i \in 1 .. Len(q) - 1 : r[i] = q[i + 1]
  BY TailElements
<1>2. n \in Nat /\ n - 1 \in Nat
  BY <1>1
<1> HIDE DEF r
<1>3. \A i \in 1 .. n - 1 : r[i] = q[i + 1]
  BY <1>1, <1>2
<1>4. CASE \A i \in 1 .. n - 1 : r[i].kind # kind
  <2>1. Latest(r, n - 1, kind, b) = b
    <3> HIDE DEF b
    <3> QED BY <1>4, LatestIsBase
  <2>2. \A j \in 2 .. n : q[j].kind # kind
    <3> SUFFICES ASSUME NEW j \in 2 .. n
                 PROVE  q[j].kind # kind
      OBVIOUS
    <3>1. j - 1 \in 1 .. n - 1 /\ (j - 1) + 1 = j
      BY <1>2
    <3> QED BY <1>3, <1>4, <3>1
  <2>3. CASE q[1].kind = kind
    <3>1. IsLast(q, n, kind, 1)
      BY <2>2, <2>3 DEF IsLast
    <3>2. Latest(q, n, kind, base) = q[1].user
      BY <1>2, <2>3, <3>1, LatestIs
    <3> QED BY <1>1, <2>1, <2>3, <3>2 DEF r
  <2>4. CASE q[1].kind # kind
    <3>1. \A j \in 1 .. n : q[j].kind # kind
      <4> SUFFICES ASSUME NEW j \in 1 .. n
                   PROVE  q[j].kind # kind
        OBVIOUS
      <4>1. j = 1 \/ j \in 2 .. n
        OBVIOUS
      <4> QED BY <2>2, <2>4, <4>1
    <3>2. Latest(q, n, kind, base) = base
      BY <3>1, LatestIsBase
    <3> QED BY <1>1, <2>1, <2>4, <3>2 DEF r
  <2> QED BY <2>3, <2>4
<1>5. CASE ~(\A i \in 1 .. n - 1 : r[i].kind # kind)
  <2>1. PICK j \in 1 .. n - 1 : IsLast(r, n - 1, kind, j)
    BY <1>2, <1>5, LastExists
  <2>2. j + 1 \in 1 .. n /\ r[j] = q[j + 1]
    BY <1>2, <1>3
  <2>3. \A k \in (j + 1) + 1 .. n : q[k].kind # kind
    <3> SUFFICES ASSUME NEW k \in (j + 1) + 1 .. n
                 PROVE  q[k].kind # kind
      OBVIOUS
    <3>1. k - 1 \in j + 1 .. n - 1 /\ k - 1 \in 1 .. n - 1 /\ (k - 1) + 1 = k
      BY <1>2, <2>2
    <3> QED BY <1>3, <2>1, <3>1 DEF IsLast
  <2>4. IsLast(q, n, kind, j + 1)
    BY <2>1, <2>2, <2>3 DEF IsLast
  <2>5. Latest(q, n, kind, base) = q[j + 1].user
    BY <1>2, <2>4, LatestIs
  <2>6. Latest(r, n - 1, kind, b) = r[j].user
    <3> HIDE DEF b
    <3> QED BY <1>2, <2>1, LatestIs
  <2> QED BY <2>2, <2>5, <2>6 DEF r
<1> QED BY <1>4, <1>5

\* Two elements added at once.
LEMMA ConcatOfTwo ==
    ASSUME NEW T, NEW q \in Seq(T), NEW a \in T, NEW b \in T
    PROVE  q \o <<a, b>> = Append(Append(q, a), b)
<1>1. Append(q, a) = q \o <<a>> /\ Append(q, a) \in Seq(T)
  BY AppendIsConcat, AppendProperties
<1>2. Append(Append(q, a), b) = Append(q, a) \o <<b>>
  BY <1>1, AppendIsConcat
<1>3. (q \o <<a>>) \o <<b>> = q \o (<<a>> \o <<b>>)
  <2>1. <<a>> \in Seq(T) /\ <<b>> \in Seq(T)
    OBVIOUS
  <2> QED BY <2>1, ConcatAssociative
<1>4. <<a>> \o <<b>> = <<a, b>>
  <2>1. <<a>> \o <<b>> = Append(<<a>>, b) /\ <<a>> \in Seq(T) /\ <<a, b>> \in Seq(T)
    BY AppendIsConcat
  <2>2. Len(Append(<<a>>, b)) = 2 /\ Append(<<a>>, b)[1] = a /\ Append(<<a>>, b)[2] = b
    BY <2>1, AppendProperties
  <2>3. Append(<<a>>, b) \in Seq(T) /\ \A i \in 1 .. 2 : i = 1 \/ i = 2
    BY <2>1, AppendProperties
  <2>4. Len(<<a, b>>) = 2 /\ <<a, b>>[1] = a /\ <<a, b>>[2] = b
    OBVIOUS
  <2> DEFINE c == Append(<<a>>, b)
             d == <<a, b>>
  <2>5. c \in Seq(T) /\ d \in Seq(T) /\ Len(c) = Len(d) /\ \A i \in 1 .. Len(c) : c[i] = d[i]
    BY <2>1, <2>2, <2>3, <2>4
  <2>6. c = d
    <3> HIDE DEF c, d
    <3> QED BY <2>5, SeqEqual
  <2> QED BY <2>1, <2>6
<1> QED BY <1>1, <1>2, <1>3, <1>4

\* Queues of one and of two elements.
LEMMA ShortQueues ==
    ASSUME NEW T, NEW a \in T, NEW b \in T
    PROVE  <<a>> \in Seq(T) /\ <<a, b>> \in Seq(T)
OBVIOUS

=============================================================================
