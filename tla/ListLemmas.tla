----------------------------- MODULE ListLemmas -----------------------------
(***************************************************************************)
(* What remove(at:) and insert(_:at:) do to the lists of a data source,    *)
(* and the elements of queues, for lists of any length.                    *)
(***************************************************************************)
EXTENDS Integers, Sequences, SequencesExt, SequenceTheorems, TLAPS

\* Removing a row shortens the list by one and keeps the others in order.
LEMMA RemoveAtProperties ==
    ASSUME NEW T, NEW s \in Seq(T), NEW i \in 1 .. Len(s)
    PROVE  /\ RemoveAt(s, i) \in Seq(T)
           /\ Len(RemoveAt(s, i)) = Len(s) - 1
           /\ \A j \in 1 .. i - 1 : RemoveAt(s, i)[j] = s[j]
           /\ \A j \in i .. Len(s) - 1 : RemoveAt(s, i)[j] = s[j + 1]
<1> DEFINE a == SubSeq(s, 1, i - 1)
           b == SubSeq(s, i + 1, Len(s))
<1>1. Len(s) \in Nat /\ \A j \in 1 .. Len(s) : s[j] \in T
  OBVIOUS
<1>2. /\ a \in Seq(T)
      /\ Len(a) = i - 1
      /\ \A j \in 1 .. i - 1 : a[j] = s[j]
  BY <1>1, SubSeqProperties
<1>3. /\ b \in Seq(T)
      /\ Len(b) = Len(s) - i
      /\ \A j \in 1 .. Len(s) - i : b[j] = s[i + j]
  BY <1>1, SubSeqProperties
<1> HIDE DEF a, b
<1>4. a \o b \in Seq(T) /\ Len(a \o b) = Len(s) - 1
  <2>1. a \o b \in Seq(T) /\ Len(a \o b) = Len(a) + Len(b)
    BY <1>2, <1>3, ConcatProperties
  <2> QED BY <1>1, <1>2, <1>3, <2>1
<1>5. \A j \in 1 .. i - 1 : (a \o b)[j] = a[j]
  BY <1>1, <1>2, <1>3, ConcatProperties
<1>6. \A j \in i .. Len(s) - 1 : (a \o b)[j] = b[j - (i - 1)]
  BY <1>1, <1>2, <1>3, ConcatProperties
<1>7. ASSUME NEW j \in i .. Len(s) - 1
      PROVE  b[j - (i - 1)] = s[j + 1]
  <2>1. j - (i - 1) \in 1 .. Len(s) - i /\ i + (j - (i - 1)) = j + 1
    BY <1>1
  <2> QED BY <1>3, <2>1
<1> QED BY <1>2, <1>4, <1>5, <1>6, <1>7 DEF RemoveAt, a, b

\* Inserting a row lengthens the list by one and shifts those from its index on.
LEMMA InsertAtProperties ==
    ASSUME NEW T, NEW s \in Seq(T), NEW e \in T, NEW j \in 1 .. Len(s) + 1
    PROVE  /\ InsertAt(s, j, e) \in Seq(T)
           /\ Len(InsertAt(s, j, e)) = Len(s) + 1
           /\ \A k \in 1 .. j - 1 : InsertAt(s, j, e)[k] = s[k]
           /\ InsertAt(s, j, e)[j] = e
           /\ \A k \in j + 1 .. Len(s) + 1 : InsertAt(s, j, e)[k] = s[k - 1]
<1> DEFINE a == SubSeq(s, 1, j - 1)
           b == SubSeq(s, j, Len(s))
           c == a \o <<e>>
<1>1. Len(s) \in Nat /\ \A k \in 1 .. Len(s) : s[k] \in T
  OBVIOUS
<1>2. /\ a \in Seq(T)
      /\ Len(a) = j - 1
      /\ \A k \in 1 .. j - 1 : a[k] = s[k]
  BY <1>1, SubSeqProperties
<1>3. /\ b \in Seq(T)
      /\ Len(b) = Len(s) - j + 1
      /\ \A k \in 1 .. Len(s) - j + 1 : b[k] = s[j + k - 1]
  BY <1>1, SubSeqProperties
<1> HIDE DEF a, b
<1>4. /\ c \in Seq(T)
      /\ Len(c) = j
      /\ \A k \in 1 .. j - 1 : c[k] = a[k]
      /\ c[j] = e
  <2>1. <<e>> \in Seq(T) /\ Len(<<e>>) = 1 /\ <<e>>[1] = e
    OBVIOUS
  <2> QED BY <1>1, <1>2, <2>1, ConcatProperties
<1> HIDE DEF c
<1>5. c \o b \in Seq(T) /\ Len(c \o b) = Len(s) + 1
  BY <1>1, <1>3, <1>4, ConcatProperties
<1>6. \A k \in 1 .. j : (c \o b)[k] = c[k]
  BY <1>1, <1>3, <1>4, ConcatProperties
<1>7. \A k \in j + 1 .. Len(s) + 1 : (c \o b)[k] = b[k - j]
  BY <1>1, <1>3, <1>4, ConcatProperties
<1>8. ASSUME NEW k \in j + 1 .. Len(s) + 1
      PROVE  b[k - j] = s[k - 1]
  <2>1. k - j \in 1 .. Len(s) - j + 1 /\ j + (k - j) - 1 = k - 1
    BY <1>1
  <2> QED BY <1>3, <2>1
<1>9. InsertAt(s, j, e) = c \o b
  BY DEF InsertAt, a, b, c
<1> QED BY <1>1, <1>2, <1>4, <1>5, <1>6, <1>7, <1>8, <1>9

\* The rows of a list, each at one index.
Distinct(s) == \A k, m \in DOMAIN s : s[k] = s[m] => k = m

\* The list u is s with e inserted at j.
Inserted(u, s, j, e) ==
    /\ Len(u) = Len(s) + 1
    /\ \A k \in 1 .. j - 1 : u[k] = s[k]
    /\ u[j] = e
    /\ \A k \in j + 1 .. Len(s) + 1 : u[k] = s[k - 1]

LEMMA InsertAtInserts ==
    ASSUME NEW T, NEW s \in Seq(T), NEW e \in T, NEW j \in 1 .. Len(s) + 1
    PROVE  InsertAt(s, j, e) \in Seq(T) /\ Inserted(InsertAt(s, j, e), s, j, e)
BY InsertAtProperties DEF Inserted

\* A row removed at i and inserted at j: no row is lost and none is doubled.
LEMMA MoveKeepsRows ==
    ASSUME NEW T, NEW s \in Seq(T), NEW i \in 1 .. Len(s), NEW j \in 1 .. Len(s)
    PROVE  /\ InsertAt(RemoveAt(s, i), j, s[i]) \in Seq(T)
           /\ Len(InsertAt(RemoveAt(s, i), j, s[i])) = Len(s)
           /\ ToSet(InsertAt(RemoveAt(s, i), j, s[i])) = ToSet(s)
           /\ Distinct(s) => Distinct(InsertAt(RemoveAt(s, i), j, s[i]))
<1> DEFINE n == Len(s)
           r == RemoveAt(s, i)
           t == InsertAt(r, j, s[i])
           q(k) == IF k < j THEN k ELSE k - 1
           p == [k \in 1 .. n |-> IF k = j THEN i
                                  ELSE IF q(k) < i THEN q(k) ELSE q(k) + 1]
<1>1. n \in Nat /\ i \in 1 .. n /\ j \in 1 .. n /\ s[i] \in T
  OBVIOUS
<1>2. /\ r \in Seq(T)
      /\ Len(r) = n - 1
      /\ \A k \in 1 .. i - 1 : r[k] = s[k]
      /\ \A k \in i .. n - 1 : r[k] = s[k + 1]
  BY RemoveAtProperties
<1> HIDE DEF r
<1>3. r \in Seq(T) /\ j \in 1 .. Len(r) + 1
  BY <1>1, <1>2
<1>4. /\ t \in Seq(T)
      /\ Len(t) = Len(r) + 1
      /\ \A k \in 1 .. j - 1 : t[k] = r[k]
      /\ t[j] = s[i]
      /\ \A k \in j + 1 .. Len(r) + 1 : t[k] = r[k - 1]
  <2> DEFINE e == s[i]
  <2>1. e \in T
    BY <1>1
  <2> HIDE DEF e
  <2>2. InsertAt(r, j, e) \in Seq(T) /\ Inserted(InsertAt(r, j, e), r, j, e)
    BY <1>3, <2>1, InsertAtInserts
  <2> QED BY <2>2 DEF e, Inserted
<1>5. t \in Seq(T) /\ Len(t) = n
  BY <1>1, <1>2, <1>4
<1> HIDE DEF t, n
<1>6. p \in [1 .. n -> 1 .. n]
  BY <1>1
<1>7. \A k \in 1 .. n : t[k] = s[p[k]]
  <2> SUFFICES ASSUME NEW k \in 1 .. n
               PROVE  t[k] = s[p[k]]
    OBVIOUS
  <2>1. CASE k = j
    BY <1>4, <2>1
  <2>2. CASE k < j
    <3>1. t[k] = r[k]
      BY <1>1, <1>4, <2>2
    <3>2. CASE k < i
      BY <1>1, <1>2, <2>2, <3>1, <3>2
    <3>3. CASE k >= i
      BY <1>1, <1>2, <2>2, <3>1, <3>3
    <3> QED BY <1>1, <3>2, <3>3
  <2>3. CASE k > j
    <3>1. t[k] = r[k - 1]
      BY <1>1, <1>2, <1>4, <2>3
    <3>2. CASE k - 1 < i
      BY <1>1, <1>2, <2>3, <3>1, <3>2
    <3>3. CASE k - 1 >= i
      BY <1>1, <1>2, <2>3, <3>1, <3>3
    <3> QED BY <1>1, <3>2, <3>3
  <2> QED BY <1>1, <2>1, <2>2, <2>3
<1>8. \A k, m \in 1 .. n : p[k] = p[m] => k = m
  BY <1>1
<1>9. ASSUME NEW m \in 1 .. n
      PROVE  \E k \in 1 .. n : p[k] = m
  <2>1. CASE m = i
    <3>1. j \in 1 .. n /\ p[j] = m
      BY <1>1, <2>1
    <3> QED BY <3>1
  <2>2. CASE m # i
    <3> DEFINE u == IF m < i THEN m ELSE m - 1
               k == IF u < j THEN u ELSE u + 1
    <3>1. k \in 1 .. n
      BY <1>1, <2>2
    <3>2. p[k] = m
      BY <1>1, <2>2, <3>1
    <3> QED BY <3>1, <3>2
  <2> QED BY <2>1, <2>2
<1> HIDE DEF p
<1>10. DOMAIN s = 1 .. n /\ DOMAIN t = 1 .. n
  BY <1>5 DEF n
<1>11. ToSet(t) = ToSet(s)
  <2>1. \A x \in ToSet(t) : x \in ToSet(s)
    BY <1>6, <1>7, <1>10 DEF ToSet
  <2>2. \A x \in ToSet(s) : x \in ToSet(t)
    <3> SUFFICES ASSUME NEW m \in 1 .. n
                 PROVE  \E k \in 1 .. n : s[m] = t[k]
      BY <1>10 DEF ToSet
    <3>1. PICK k \in 1 .. n : p[k] = m
      BY <1>9
    <3> QED BY <1>7, <3>1
  <2> QED BY <2>1, <2>2
<1>12. ASSUME Distinct(s)
       PROVE  Distinct(t)
  <2> SUFFICES ASSUME NEW k \in 1 .. n, NEW m \in 1 .. n, t[k] = t[m]
               PROVE  k = m
    BY <1>10 DEF Distinct
  <2>1. s[p[k]] = s[p[m]]
    BY <1>7
  <2>2. p[k] \in 1 .. n /\ p[m] \in 1 .. n
    BY <1>6
  <2>3. p[k] = p[m]
    BY <1>10, <1>12, <2>1, <2>2 DEF Distinct
  <2> QED BY <1>8, <2>3
<1> QED BY <1>5, <1>11, <1>12 DEF t, r, n

\* A row removed: the others are there, each once.
LEMMA RemoveKeepsRows ==
    ASSUME NEW T, NEW s \in Seq(T), NEW i \in 1 .. Len(s)
    PROVE  /\ ToSet(RemoveAt(s, i)) \subseteq ToSet(s)
           /\ Distinct(s) => Distinct(RemoveAt(s, i))
           /\ Distinct(s) => ToSet(RemoveAt(s, i)) = ToSet(s) \ {s[i]}
<1> DEFINE n == Len(s)
           t == RemoveAt(s, i)
           p == [k \in 1 .. n - 1 |-> IF k < i THEN k ELSE k + 1]
<1>1. n \in Nat /\ i \in 1 .. n
  OBVIOUS
<1>2. /\ t \in Seq(T)
      /\ Len(t) = n - 1
      /\ \A k \in 1 .. i - 1 : t[k] = s[k]
      /\ \A k \in i .. n - 1 : t[k] = s[k + 1]
  BY RemoveAtProperties
<1>3. DOMAIN s = 1 .. n /\ DOMAIN t = 1 .. n - 1
  BY <1>2
<1> HIDE DEF n, t
<1>4. \A k \in 1 .. n - 1 : p[k] \in 1 .. n /\ p[k] # i /\ t[k] = s[p[k]]
  BY <1>1, <1>2
<1>5. \A k, m \in 1 .. n - 1 : p[k] = p[m] => k = m
  BY <1>1
<1>6. \A m \in 1 .. n : m # i => \E k \in 1 .. n - 1 : p[k] = m
  <2> SUFFICES ASSUME NEW m \in 1 .. n, m # i
               PROVE  \E k \in 1 .. n - 1 : p[k] = m
    OBVIOUS
  <2>1. CASE m < i
    <3>1. m \in 1 .. n - 1 /\ p[m] = m
      BY <1>1, <2>1
    <3> QED BY <3>1
  <2>2. CASE m > i
    <3>1. m - 1 \in 1 .. n - 1 /\ p[m - 1] = m
      BY <1>1, <2>2
    <3> QED BY <3>1
  <2> QED BY <1>1, <2>1, <2>2
<1> HIDE DEF p
<1>7. ToSet(t) \subseteq ToSet(s)
  BY <1>3, <1>4 DEF ToSet
<1>8. ASSUME Distinct(s)
      PROVE  Distinct(t)
  <2> SUFFICES ASSUME NEW k \in 1 .. n - 1, NEW m \in 1 .. n - 1, t[k] = t[m]
               PROVE  k = m
    BY <1>3 DEF Distinct
  <2>1. p[k] = p[m]
    BY <1>3, <1>4, <1>8 DEF Distinct
  <2> QED BY <1>5, <2>1
<1>9. ASSUME Distinct(s)
      PROVE  ToSet(t) = ToSet(s) \ {s[i]}
  <2>1. ASSUME NEW k \in 1 .. n - 1
        PROVE  t[k] \in ToSet(s) \ {s[i]}
    BY <1>1, <1>3, <1>4, <1>9 DEF Distinct, ToSet
  <2>2. ASSUME NEW m \in 1 .. n, s[m] # s[i]
        PROVE  s[m] \in ToSet(t)
    <3>1. PICK k \in 1 .. n - 1 : p[k] = m
      BY <1>6, <2>2
    <3>2. s[m] = t[k]
      BY <1>4, <3>1
    <3> QED BY <1>3, <3>2 DEF ToSet
  <2> QED BY <1>3, <2>1, <2>2 DEF ToSet
<1> QED BY <1>7, <1>8, <1>9 DEF t

-----------------------------------------------------------------------------
(* The elements of a queue. *)

LEMMA ElementsOfTail ==
    ASSUME NEW T, NEW s \in Seq(T), s # <<>>
    PROVE  /\ ToSet(s) = {Head(s)} \cup ToSet(Tail(s))
           /\ Tail(s) \in Seq(T)
           /\ Head(s) \in T
<1>1. /\ Len(s) \in Nat \ {0} /\ Head(s) = s[1] /\ Head(s) \in T
      /\ Tail(s) \in Seq(T) /\ Len(Tail(s)) = Len(s) - 1
      /\ \A i \in 1 .. Len(s) - 1 : Tail(s)[i] = s[i + 1]
  BY EmptySeq, HeadTailProperties
<1> DEFINE t == Tail(s)
           n == Len(s)
<1>2. DOMAIN s = 1 .. n /\ DOMAIN t = 1 .. n - 1
  BY <1>1
<1> HIDE DEF t, n
<1>3. ASSUME NEW i \in 1 .. n
      PROVE  s[i] = s[1] \/ \E j \in 1 .. n - 1 : s[i] = t[j]
  <2>1. CASE i = 1
    BY <2>1
  <2>2. CASE i # 1
    <3>1. i - 1 \in 1 .. n - 1 /\ (i - 1) + 1 = i
      BY <1>1, <2>2 DEF n
    <3>2. t[i - 1] = s[i]
      BY <1>1, <3>1 DEF t, n
    <3> QED BY <3>1, <3>2
  <2> QED BY <2>1, <2>2
<1>4. ASSUME NEW j \in 1 .. n - 1
      PROVE  \E i \in 1 .. n : t[j] = s[i]
  <2>1. j + 1 \in 1 .. n /\ t[j] = s[j + 1]
    BY <1>1 DEF t, n
  <2> QED BY <2>1
<1>5. 1 \in 1 .. n
  BY <1>1 DEF n
<1>6. ToSet(s) = {s[i] : i \in 1 .. n} /\ ToSet(t) = {t[j] : j \in 1 .. n - 1}
  BY <1>2 DEF ToSet
<1>7. ToSet(s) = {s[1]} \cup ToSet(t)
  BY <1>3, <1>4, <1>5, <1>6
<1> QED BY <1>1, <1>7 DEF t

LEMMA ElementsOfConcat ==
    ASSUME NEW T, NEW s \in Seq(T), NEW t \in Seq(T)
    PROVE  /\ ToSet(s \o t) = ToSet(s) \cup ToSet(t)
           /\ s \o t \in Seq(T)
<1> DEFINE u == s \o t
           m == Len(s)
           n == Len(t)
<1>1. /\ m \in Nat /\ n \in Nat
      /\ u \in Seq(T) /\ Len(u) = m + n
      /\ \A i \in 1 .. m : u[i] = s[i]
      /\ \A i \in m + 1 .. m + n : u[i] = t[i - m]
  BY ConcatProperties
<1>2. DOMAIN s = 1 .. m /\ DOMAIN t = 1 .. n /\ DOMAIN u = 1 .. m + n
  BY <1>1
<1> HIDE DEF u, m, n
<1>3. ASSUME NEW i \in 1 .. m + n
      PROVE  (\E j \in 1 .. m : u[i] = s[j]) \/ (\E j \in 1 .. n : u[i] = t[j])
  <2>1. CASE i <= m
    <3>1. i \in 1 .. m
      BY <1>1, <2>1
    <3> QED BY <1>1, <3>1
  <2>2. CASE i > m
    <3>1. i \in m + 1 .. m + n /\ i - m \in 1 .. n
      BY <1>1, <2>2
    <3> QED BY <1>1, <3>1
  <2> QED BY <1>1, <2>1, <2>2
<1>4. ASSUME NEW j \in 1 .. m
      PROVE  \E i \in 1 .. m + n : s[j] = u[i]
  <2>1. j \in 1 .. m + n
    BY <1>1
  <2> QED BY <1>1, <2>1
<1>5. ASSUME NEW j \in 1 .. n
      PROVE  \E i \in 1 .. m + n : t[j] = u[i]
  <2>1. j + m \in m + 1 .. m + n /\ (j + m) - m = j /\ j + m \in 1 .. m + n
    BY <1>1
  <2> QED BY <1>1, <2>1
<1>6. ToSet(u) = ToSet(s) \cup ToSet(t)
  <2>1. /\ ToSet(s) = {s[j] : j \in 1 .. m} /\ ToSet(t) = {t[j] : j \in 1 .. n}
        /\ ToSet(u) = {u[i] : i \in 1 .. m + n}
    BY <1>2 DEF ToSet
  <2>2. ToSet(u) \subseteq ToSet(s) \cup ToSet(t)
    BY <1>3, <2>1
  <2>3. ToSet(s) \subseteq ToSet(u) /\ ToSet(t) \subseteq ToSet(u)
    BY <1>4, <1>5, <2>1
  <2> QED BY <2>2, <2>3
<1> QED BY <1>1, <1>6 DEF u

LEMMA ElementsOfAppend ==
    ASSUME NEW T, NEW s \in Seq(T), NEW e \in T
    PROVE  /\ ToSet(Append(s, e)) = ToSet(s) \cup {e}
           /\ Append(s, e) \in Seq(T)
<1>1. Append(s, e) = s \o <<e>> /\ <<e>> \in Seq(T)
  BY AppendIsConcat
<1> DEFINE t == <<e>>
<1>2. ToSet(t) = {e}
  BY DEF ToSet
<1> HIDE DEF t
<1>3. ToSet(s \o t) = ToSet(s) \cup ToSet(t) /\ s \o t \in Seq(T)
  BY <1>1, ElementsOfConcat DEF t
<1> QED BY <1>1, <1>2, <1>3 DEF t

LEMMA ElementsOfEmpty == ToSet(<<>>) = {}
BY DEF ToSet

=============================================================================
