--------------------------- MODULE AddStopProofs ---------------------------
(***************************************************************************)
(* What holds of AddStop for any lines, stations and platforms and every   *)
(* bound: however many taps, lookups and answers are under way at once.    *)
(***************************************************************************)
EXTENDS AddStop, QueueLemmas, ListLemmas, FiniteSetTheorems, TLAPS

-----------------------------------------------------------------------------
(* removeDuplicates.                                                       *)

UpTo(P, i) == {j \in P : j <= i}

LEMMA UpToFinite ==
    ASSUME NEW P \in SUBSET Nat, IsFiniteSet(P), NEW i
    PROVE  IsFiniteSet(UpTo(P, i)) /\ Cardinality(UpTo(P, i)) \in Nat
<1>1. UpTo(P, i) \subseteq P
  BY DEF UpTo
<1> QED BY <1>1, FS_Subset, FS_CardinalityType

\* Among the places whose number is at least n there is a least one.
LEMMA LeastFrom ==
    ASSUME NEW S \in SUBSET Nat, S # {}
    PROVE  \E i \in S : \A j \in S : i <= j
<1> DEFINE R == OpToRel(<, Nat)
<1>1. PICK i \in S : \A j \in S : ~(<<j, i>> \in R)
  BY WFMin, NatLessThanWellFounded, Zenon
<1>2. \A j \in S : ~(j < i)
  BY <1>1 DEF OpToRel
<1>3. \A j \in S : i <= j
  <2> SUFFICES ASSUME NEW j \in S
               PROVE  i <= j
    OBVIOUS
  <2>1. i \in Nat /\ j \in Nat /\ ~(j < i)
    BY <1>2
  <2> QED BY <2>1
<1> QED BY <1>3

\* The n-th place exists, for every n up to the number of places.
LEMMA NthExists ==
    ASSUME NEW P \in SUBSET Nat, IsFiniteSet(P), NEW b \in Nat, \A j \in P : j <= b,
           NEW n \in 1 .. Cardinality(P)
    PROVE  Nth(P, n) \in P /\ Cardinality(UpTo(P, Nth(P, n))) = n
<1> DEFINE S == {i \in P : Cardinality(UpTo(P, i)) >= n}
<1>1. Cardinality(P) \in Nat
  BY FS_CardinalityType
<1>2. P # {}
  BY <1>1, FS_EmptySet
<1>3. Max(P) \in P /\ \A j \in P : j <= Max(P)
  BY <1>2, GreatestOfBounded
<1>4. UpTo(P, Max(P)) = P
  BY <1>3 DEF UpTo
<1>5. S \subseteq Nat /\ S # {}
  <2>1. S \subseteq Nat
    OBVIOUS
  <2>2. Cardinality(UpTo(P, Max(P))) = Cardinality(P) /\ Cardinality(P) >= n
    BY <1>1, <1>4
  <2>3. Max(P) \in S
    BY <1>3, <2>2
  <2> HIDE DEF S
  <2> QED BY <2>1, <2>3
<1>6. PICK i \in S : \A j \in S : i <= j
  <2> HIDE DEF S
  <2> QED BY <1>5, LeastFrom
<1>7. i \in P /\ i \in Nat /\ Cardinality(UpTo(P, i)) >= n
  BY <1>6
<1>8. Cardinality(UpTo(P, i)) = n
  <2> DEFINE Q == UpTo(P, i) \ {i}
  <2> SUFFICES ASSUME Cardinality(UpTo(P, i)) # n
               PROVE  FALSE
    OBVIOUS
  <2>1. i \in UpTo(P, i)
    BY <1>7 DEF UpTo
  <2>2. IsFiniteSet(UpTo(P, i)) /\ Cardinality(UpTo(P, i)) \in Nat
    BY UpToFinite
  <2>3. IsFiniteSet(Q) /\ Cardinality(Q) = Cardinality(UpTo(P, i)) - 1
    BY <2>1, <2>2, FS_RemoveElement
  <2>4. n \in Nat /\ n >= 1
    BY <1>1
  <2>5. Cardinality(Q) >= n
    <3> HIDE DEF Q
    <3> QED BY <1>7, <2>2, <2>3, <2>4
  <2>6. Q # {}
    <3> HIDE DEF Q
    <3> QED BY <2>4, <2>5, FS_EmptySet
  <2>7. Q \in SUBSET Nat /\ \A j \in Q : j <= i
    BY DEF UpTo
  <2>8. Max(Q) \in Q /\ \A j \in Q : j <= Max(Q)
    <3> HIDE DEF Q
    <3> QED BY <1>7, <2>6, <2>7, GreatestOfBounded
  <2>9. \A j \in P : j <= Max(Q) <=> j \in Q
    <3> SUFFICES ASSUME NEW j \in P
                 PROVE  j <= Max(Q) <=> j \in Q
      OBVIOUS
    <3>1. j \in Q <=> j < i
      BY <1>7 DEF UpTo
    <3>2. Max(Q) \in Nat /\ Max(Q) < i /\ j \in Nat
      BY <1>7, <2>7, <2>8 DEF UpTo
    <3>3. j \in Q => j <= Max(Q)
      BY <2>8
    <3> HIDE DEF Q
    <3> QED BY <1>7, <3>1, <3>2, <3>3
  <2>10. UpTo(P, Max(Q)) = Q
    <3>1. Q \subseteq P
      BY DEF UpTo
    <3> HIDE DEF Q
    <3> QED BY <2>9, <3>1 DEF UpTo
  <2>11. Max(Q) \in P /\ Max(Q) \in Nat /\ Max(Q) < i
    <3>1. \A j \in Q : j \in P /\ j \in Nat /\ j <= i /\ j # i
      BY DEF UpTo
    <3> HIDE DEF Q
    <3> QED BY <1>7, <2>8, <3>1
  <2>12. Max(Q) \in S
    <3> HIDE DEF Q
    <3> QED BY <2>5, <2>10, <2>11
  <2> HIDE DEF S, Q
  <2> QED BY <1>6, <1>7, <2>11, <2>12
<1>9. \E k \in P : Cardinality({j \in P : j <= k}) = n
  BY <1>7, <1>8 DEF UpTo
<1>10. Nth(P, n) \in P /\ Cardinality({j \in P : j <= Nth(P, n)}) = n
  BY <1>9 DEF Nth
<1> QED BY <1>10 DEF UpTo

\* removeDuplicates keeps elements of the array, and no value twice.
LEMMA FirstValuesDistinct ==
    ASSUME NEW T, NEW s \in Seq(T)
    PROVE  /\ \A n \in DOMAIN FirstValues(s) :
                 FirstValues(s)[n] \in T /\ \E i \in DOMAIN s : FirstValues(s)[n] = s[i]
           /\ \A m, n \in DOMAIN FirstValues(s) :
                 m # n => FirstValues(s)[m] # FirstValues(s)[n]
           /\ 1 \notin DOMAIN FirstValues(s) => 2 \notin DOMAIN FirstValues(s)
           /\ FirstPlaces(s) # {} => 1 \in DOMAIN FirstValues(s)
<1> DEFINE P == FirstPlaces(s)
<1>1. Len(s) \in Nat /\ DOMAIN s = 1 .. Len(s) /\ \A i \in DOMAIN s : s[i] \in T
  OBVIOUS
<1>2. P \in SUBSET Nat /\ P \subseteq DOMAIN s /\ \A j \in P : j <= Len(s)
  BY <1>1 DEF FirstPlaces
<1>3. IsFiniteSet(P)
  <2>1. IsFiniteSet(1 .. Len(s))
    BY <1>1, FS_Interval
  <2> HIDE DEF P
  <2> QED BY <1>1, <1>2, <2>1, FS_Subset
<1>4. Cardinality(P) \in Nat
  BY <1>3, FS_CardinalityType
<1>5. \A n \in 1 .. Cardinality(P) : Nth(P, n) \in P /\ Cardinality(UpTo(P, Nth(P, n))) = n
  <2> HIDE DEF P
  <2> QED BY <1>1, <1>2, <1>3, NthExists
<1>6. /\ DOMAIN FirstValues(s) = 1 .. Cardinality(P)
      /\ \A n \in 1 .. Cardinality(P) : FirstValues(s)[n] = s[Nth(P, n)]
  BY DEF FirstValues
<1>7. \A i, j \in P : s[i] = s[j] => i = j
  <2> SUFFICES ASSUME NEW i \in P, NEW j \in P, s[i] = s[j], i # j
               PROVE  FALSE
    OBVIOUS
  <2>1. i \in Nat /\ j \in Nat /\ i >= 1 /\ j >= 1
    BY <1>1, <1>2
  <2>2. i < j \/ j < i
    BY <2>1
  <2>3. (\A k \in 1 .. j - 1 : s[k] # s[j]) /\ (\A k \in 1 .. i - 1 : s[k] # s[i])
    BY DEF FirstPlaces
  <2>4. i < j => i \in 1 .. j - 1
    BY <2>1
  <2>5. j < i => j \in 1 .. i - 1
    BY <2>1
  <2> QED BY <2>2, <2>3, <2>4, <2>5
<1>8. \A n \in DOMAIN FirstValues(s) :
         FirstValues(s)[n] \in T /\ \E i \in DOMAIN s : FirstValues(s)[n] = s[i]
  <2> HIDE DEF P
  <2> QED BY <1>1, <1>2, <1>5, <1>6
<1>9. \A m, n \in DOMAIN FirstValues(s) : m # n => FirstValues(s)[m] # FirstValues(s)[n]
  <2> HIDE DEF P
  <2> QED BY <1>5, <1>6, <1>7
<1>10. 1 \notin DOMAIN FirstValues(s) => 2 \notin DOMAIN FirstValues(s)
  BY <1>4, <1>6
<1>11. FirstPlaces(s) # {} => 1 \in DOMAIN FirstValues(s)
  <2>1. P # {} => Cardinality(P) # 0
    BY <1>3, FS_EmptySet
  <2> QED BY <1>4, <1>6, <2>1
<1> QED BY <1>8, <1>9, <1>10, <1>11

-----------------------------------------------------------------------------
(* What the blocks of the main queue carry.                                *)

\* The platforms that TfL answers with are those of one line at one station.
OneAnswer(s) ==
    \/ s = <<>>
    \/ \E l \in Line, n \in Supported :
          \A i \in DOMAIN s : s[i] \in PlatformsOf[l][n] \cup {None}

SoundBlock(b) ==
    /\ b.kind = "platforms" => OneAnswer(b.platforms)
    /\ b.kind = "stop" /\ b.trains # "none" =>
          PlatformsOf[b.request.line][b.request.station] # {}

SoundBlocks == \A b \in ToSet(mainQueue) : SoundBlock(b)

\* Each answer posts one block, of its kind, or none.
LEMMA LookupPosts ==
    ASSUME TypeOK, NEW i \in DOMAIN lookups, LookupAnswered(i)
    PROVE  \E b \in Block : b.kind = "found" /\ mainQueue' = Append(mainQueue, b)
<1>1. lookups[i] \in Station
  BY DEF TypeOK
<1>2. PICK n \in Found(lookups[i]) :
          mainQueue' = Append(mainQueue, [kind |-> "found", naptan |-> n])
  BY DEF LookupAnswered
<1>3. n \in Supported \cup {Unavailable, None}
  BY DEF Found
<1>4. [kind |-> "found", naptan |-> n] \in Block
  BY <1>3 DEF Block
<1> QED BY <1>2, <1>4

LEMMA PlatformsPost ==
    ASSUME TypeOK, NEW i \in DOMAIN platformRequests, PlatformsAnswered(i)
    PROVE  \/ mainQueue' = mainQueue
           \/ \E b \in Block : /\ b.kind = "platforms" /\ SoundBlock(b)
                              /\ mainQueue' = Append(mainQueue, b)
<1> SUFFICES ASSUME mainQueue' # mainQueue
             PROVE  \E b \in Block : /\ b.kind = "platforms" /\ SoundBlock(b)
                                    /\ mainQueue' = Append(mainQueue, b)
  OBVIOUS
<1> DEFINE r == platformRequests[i]
           here == Platforms(r.line, r.naptan)
           V == IF here = {} THEN {} ELSE here \cup {None}
<1>1. r \in PlatformRequest
  BY DEF TypeOK
<1>2. r.line \in Line /\ r.naptan \in Supported \cup {Unavailable}
  BY <1>1 DEF PlatformRequest
<1>3. PICK s \in BoundedSeq(V, MaxTrains) :
          mainQueue' = Append(mainQueue, [kind |-> "platforms", platforms |-> s])
  BY DEF PlatformsAnswered, PlatformLists
<1>4. here \subseteq Platform
  BY <1>2, PlatformAssumption DEF Platforms
<1> HIDE DEF r
<1>5. PICK n \in 0 .. MaxTrains : s \in [1 .. n -> V]
  BY <1>3 DEF BoundedSeq, SeqOf
<1>6. n \in Nat /\ DOMAIN s = 1 .. n /\ \A k \in 1 .. n : s[k] \in V
  BY <1>5, BoundsAssumption
<1>7. s \in Seq(Platform \cup {None})
  <2>1. V \subseteq Platform \cup {None}
    BY <1>4
  <2>2. s \in [1 .. n -> Platform \cup {None}]
    BY <1>5, <2>1
  <2> QED BY <1>6, <2>2, SeqDef
<1>8. OneAnswer(s)
  <2>1. CASE here = {}
    <3>1. n = 0
      <4>1. n # 0 => 1 \in 1 .. n
        BY <1>6
      <4>2. V = {}
        BY <2>1
      <4> HIDE DEF V
      <4> QED BY <1>6, <4>1, <4>2
    <3>2. s = <<>>
      BY <1>6, <1>7, <3>1
    <3> QED BY <3>2 DEF OneAnswer
  <2>2. CASE here # {}
    <3>1. r.naptan # Unavailable
      BY <2>2 DEF Platforms
    <3>2. r.naptan \in Supported /\ here = PlatformsOf[r.line][r.naptan]
      BY <1>2, <3>1 DEF Platforms
    <3>3. \A k \in DOMAIN s : s[k] \in PlatformsOf[r.line][r.naptan] \cup {None}
      <4>1. V = here \cup {None}
        BY <2>2
      <4> HIDE DEF V, here
      <4> QED BY <1>6, <3>2, <4>1
    <3> QED BY <1>2, <3>2, <3>3 DEF OneAnswer
  <2> QED BY <2>1, <2>2
<1> HIDE DEF here, V
<1>9. [kind |-> "platforms", platforms |-> s] \in Block
  BY <1>7 DEF Block
<1>10. SoundBlock([kind |-> "platforms", platforms |-> s])
  BY <1>8 DEF SoundBlock
<1> QED BY <1>3, <1>9, <1>10

LEMMA StopPosts ==
    ASSUME TypeOK, NEW r \in stopRequests, StopAnswered(r)
    PROVE  \/ mainQueue' = mainQueue /\ stranded' = stranded \cup {r.id}
           \/ /\ \E b \in Block : /\ b.kind = "stop" /\ b.request = r /\ SoundBlock(b)
                                 /\ mainQueue' = Append(mainQueue, b)
              /\ stranded' = stranded
<1> SUFFICES ASSUME ~(mainQueue' = mainQueue /\ stranded' = stranded \cup {r.id})
             PROVE  /\ \E b \in Block : /\ b.kind = "stop" /\ b.request = r /\ SoundBlock(b)
                                       /\ mainQueue' = Append(mainQueue, b)
                    /\ stranded' = stranded
  OBVIOUS
<1>1. r \in Request /\ r.station \in Supported
  BY DEF TypeOK, Request
<1>2. r.station # Unavailable
  BY <1>1, StationAssumption, NilAssumption
<1>3. stranded' = stranded
  BY DEF StopAnswered
<1>4. PICK t \in Arrivals(r) :
          mainQueue' = Append(mainQueue, [kind |-> "stop", request |-> r, trains |-> t])
  BY DEF StopAnswered
<1>5. /\ t \in {"none", "some", "untimed"}
      /\ t # "none" => PlatformsOf[r.line][r.station] # {}
  BY <1>2 DEF Arrivals, Platforms
<1>6. [kind |-> "stop", request |-> r, trains |-> t] \in Block
  BY <1>1, <1>5 DEF Block
<1>7. SoundBlock([kind |-> "stop", request |-> r, trains |-> t])
  BY <1>5 DEF SoundBlock
<1> QED BY <1>3, <1>4, <1>6, <1>7

-----------------------------------------------------------------------------
(* Types.                                                                  *)

LEMMA InitType == Init => TypeOK
<1> SUFFICES ASSUME Init
             PROVE  TypeOK
  OBVIOUS
<1>1. mainQueue \in Seq(Block)
  BY EmptySeq DEF Init
<1>2. 0 \in 0 .. 0 /\ 0 \in 0 .. MaxTaps
  BY BoundsAssumption
<1>3. lookups \in Seq(Station) /\ platformRequests \in Seq(PlatformRequest)
  BY EmptySeq DEF Init
<1>4. {is1Selected, is2Selected, alert, signedIn} \subseteq BOOLEAN
  BY DEF Init
<1>5. stranded \subseteq 1 .. taps /\ stopRequests \subseteq Request
      /\ saved \subseteq Document
  BY DEF Init
<1> QED BY <1>1, <1>2, <1>3, <1>4, <1>5 DEF Init, TypeOK

LEMMA BlockFields ==
    \A b \in Block :
        /\ b.kind \in {"attach", "detach", "alert", "found", "platforms", "stop"}
        /\ b.kind = "attach" => b.spinner \in 1 .. taps
        /\ b.kind = "found" => b.naptan \in Supported \cup {Unavailable, None}
        /\ b.kind = "platforms" => b.platforms \in Seq(Platform \cup {None})
        /\ b.kind = "stop" => /\ b.request \in Request
                              /\ b.trains \in {"none", "some", "untimed"}
BY DEF Block

\* A tap makes one more identifier: what had a type keeps it.
LEMMA TypesGrow ==
    ASSUME taps \in Nat, taps' = taps \/ taps' = taps + 1
    PROVE  /\ 1 .. taps \subseteq 1 .. taps' /\ 0 .. taps \subseteq 0 .. taps'
           /\ Request \subseteq Request' /\ Document \subseteq Document'
           /\ Block \subseteq Block'
<1>1. 1 .. taps \subseteq 1 .. taps' /\ 0 .. taps \subseteq 0 .. taps'
  OBVIOUS
<1>2. Request \subseteq Request'
  BY <1>1 DEF Request
<1>3. Document \subseteq Document'
  BY <1>1 DEF Document, Stop
<1>4. Block \subseteq Block'
  BY <1>1, <1>2 DEF Block
<1> QED BY <1>1, <1>2, <1>3, <1>4

\* The head of the main queue, and what is left of it.
LEMMA HeadBlock ==
    ASSUME TypeOK, NEW kind, Running(kind)
    PROVE  /\ Head(mainQueue) \in Block /\ Head(mainQueue).kind = kind
           /\ Tail(mainQueue) \in Seq(Block)
BY HeadTailProperties DEF TypeOK, Running

LEMMA AddStopType ==
    ASSUME TypeOK, AddStop
    PROVE  TypeOK'
<1>1. taps \in Nat /\ taps' = taps + 1 /\ taps' \in 0 .. MaxTaps /\ taps' \in 1 .. taps'
      /\ vSpinner' = taps' /\ vSpinner' \in 0 .. taps'
  BY BoundsAssumption DEF AddStop, TypeOK
<1>2. /\ 1 .. taps \subseteq 1 .. taps' /\ Request \subseteq Request'
      /\ Document \subseteq Document' /\ Block \subseteq Block'
  BY <1>1, TypesGrow
<1> DEFINE a == [kind |-> "attach", spinner |-> taps']
           d == [kind |-> "detach"]
           r == [id |-> taps', line |-> line, station |-> naptan, direction |-> SelectedTitle]
<1>3. a \in Block' /\ d \in Block'
  BY <1>1 DEF Block
<1>4. mainQueue \in Seq(Block')
  BY <1>2 DEF TypeOK
<1>5. Append(mainQueue, a) \in Seq(Block')
  <2> HIDE DEF a
  <2> QED BY <1>3, <1>4, AppendProperties
<1>6. Append(mainQueue, a) \o Uncover \in Seq(Block')
  <2>1. Uncover \in Seq(Block')
    <3>1. Uncover = <<d>>
      BY DEF Uncover
    <3> HIDE DEF d
    <3> QED BY <1>3, <3>1, ShortQueues
  <2> QED BY <1>5, <2>1, ConcatProperties
<1>7. ~Incomplete /\ SelectedTitle # None => r \in Request'
  BY <1>1 DEF Incomplete, SelectedTitle, Request, TypeOK
<1>8. /\ stopRequests \subseteq Request' /\ saved \subseteq Document'
      /\ overlays \subseteq 1 .. taps' /\ stranded \subseteq 1 .. taps'
  BY <1>2 DEF TypeOK
<1>9. \/ /\ alert' = TRUE /\ mainQueue' = Append(mainQueue, a) \o Uncover
         /\ UNCHANGED <<page, stopRequests, stranded>>
      \/ /\ page' = "trapped"
         /\ UNCHANGED <<alert, mainQueue, stopRequests, stranded>>
      \/ /\ ~Incomplete /\ SelectedTitle # None
         /\ \/ stopRequests' = stopRequests \cup {r} /\ stranded' = stranded
            \/ stranded' = stranded \cup {taps'} /\ stopRequests' = stopRequests
         /\ mainQueue' = Append(mainQueue, a)
         /\ UNCHANGED <<alert, page>>
  BY DEF AddStop
<1>10. /\ mainQueue' \in Seq(Block') /\ stopRequests' \subseteq Request'
       /\ stranded' \subseteq 1 .. taps'
  <2>1. taps' \in 1 .. taps'
    BY <1>1
  <2> HIDE DEF a, r
  <2> QED BY <1>4, <1>5, <1>6, <1>7, <1>8, <1>9, <2>1
<1>11. alert' \in BOOLEAN /\ page' \in {"open", "closed", "trapped"}
  <2> HIDE DEF a, r
  <2> QED BY <1>9 DEF TypeOK
<1>12. UNCHANGED <<form, overlays, lookups, platformRequests, account>>
  BY DEF AddStop
<1> QED BY <1>1, <1>8, <1>10, <1>11, <1>12 DEF TypeOK, form, account

\* The titles of an answer, or nil.
LEMMA TitleType ==
    ASSUME NEW s \in Seq(Platform \cup {None}), NEW i \in {1, 2}
    PROVE  Title(RemoveDuplicates(s), i) \in Platform \cup {None}
BY FirstValuesDistinct DEF Title, RemoveDuplicates

LEMMA NextType == TypeOK /\ [Next]_vars => TypeOK'
<1> SUFFICES ASSUME TypeOK, [Next]_vars
             PROVE  TypeOK'
  OBVIOUS
<1> DEFINE Same == Request' = Request /\ Document' = Document /\ Block' = Block
<1>0. taps' = taps => Same
  BY DEF Request, Document, Block
<1>1. ASSUME NEW l \in Line, DidSelectItem(l) PROVE TypeOK'
  <2>1. Same
    BY <1>0, <1>1 DEF DidSelectItem
  <2> HIDE DEF Same
  <2> QED BY <1>1, <2>1 DEF DidSelectItem, TypeOK, cover, asked, account, Same
<1>2. ASSUME NEW s \in Station, DidSelectRow(s) PROVE TypeOK'
  <2>1. lookups' \in Seq(Station)
    BY <1>2, AppendProperties DEF DidSelectRow, TypeOK
  <2>2. UNCHANGED <<form, cover, page, mainQueue, platformRequests, stopRequests, taps,
                    account, stranded>>
    BY <1>2 DEF DidSelectRow
  <2> QED BY <1>0, <2>1, <2>2 DEF TypeOK, form, cover, account
<1>3. CASE Direction1
  BY <1>0, <1>3 DEF Direction1, Direction, Flags1, TypeOK, cover, asked,
                           account
<1>4. CASE Direction2
  BY <1>0, <1>4 DEF Direction2, Direction, Flags2, TypeOK, cover, asked,
                           account
<1>5. CASE AddStop
  BY <1>5, AddStopType
<1>6. CASE Back
  BY <1>0, <1>6 DEF Back, TypeOK, form, cover, asked, account
<1>7. CASE DismissAlert
  BY <1>0, <1>7 DEF DismissAlert, TypeOK, form, asked, account
<1>A. ASSUME NEW b \in Block, mainQueue' = Append(mainQueue, b) PROVE mainQueue' \in Seq(Block)
  BY <1>A, AppendProperties DEF TypeOK
<1>8. ASSUME NEW i \in DOMAIN lookups, LookupAnswered(i) PROVE TypeOK'
  <2>1. mainQueue' \in Seq(Block)
    BY <1>8, <1>A, LookupPosts
  <2>2. lookups \in Seq(Station)
    BY DEF TypeOK
  <2>3. i \in 1 .. Len(lookups)
    BY <2>2, LenProperties
  <2>4. RemoveAt(lookups, i) \in Seq(Station)
    BY <2>2, <2>3, RemoveAtProperties
  <2>5. /\ lookups' \in Seq(Station)
        /\ UNCHANGED <<form, cover, page, platformRequests, stopRequests, taps, account,
                       stranded>>
    BY <1>8, <2>4 DEF LookupAnswered
  <2> QED BY <1>0, <2>1, <2>5 DEF TypeOK, form, cover, account
<1>9. ASSUME NEW i \in DOMAIN platformRequests, PlatformsAnswered(i) PROVE TypeOK'
  <2>1. mainQueue' \in Seq(Block)
    <3>1. CASE mainQueue' = mainQueue
      BY <3>1 DEF TypeOK
    <3>2. CASE mainQueue' # mainQueue
      BY <1>9, <1>A, <3>2, PlatformsPost
    <3> QED BY <3>1, <3>2
  <2>2. platformRequests \in Seq(PlatformRequest)
    BY DEF TypeOK
  <2>3. i \in 1 .. Len(platformRequests)
    BY <2>2, LenProperties
  <2>4. RemoveAt(platformRequests, i) \in Seq(PlatformRequest)
    BY <2>2, <2>3, RemoveAtProperties
  <2>5. /\ platformRequests' \in Seq(PlatformRequest)
        /\ UNCHANGED <<form, cover, page, lookups, stopRequests, taps, account, stranded>>
    BY <1>9, <2>4 DEF PlatformsAnswered
  <2> QED BY <1>0, <2>1, <2>5 DEF TypeOK, form, cover, account
<1>10. ASSUME NEW r \in stopRequests, StopAnswered(r) PROVE TypeOK'
  <2>1. r.id \in 1 .. taps
    BY DEF TypeOK, Request
  <2>2. stranded' \subseteq 1 .. taps /\ mainQueue' \in Seq(Block)
    <3>1. CASE mainQueue' = mainQueue /\ stranded' = stranded \cup {r.id}
      BY <2>1, <3>1 DEF TypeOK
    <3>2. CASE ~(mainQueue' = mainQueue /\ stranded' = stranded \cup {r.id})
      <4>1. mainQueue' \in Seq(Block)
        BY <1>10, <1>A, <3>2, StopPosts
      <4> QED BY <1>10, <3>2, <4>1, StopPosts DEF TypeOK
    <3> QED BY <3>1, <3>2
  <2>3. /\ stopRequests' \subseteq stopRequests
        /\ UNCHANGED <<form, cover, page, lookups, platformRequests, taps, account>>
    BY <1>10 DEF StopAnswered
  <2> QED BY <1>0, <2>2, <2>3 DEF TypeOK, form, cover, account
<1>U. CASE UserSignedOut
  BY <1>0, <1>U DEF UserSignedOut, TypeOK, form, cover, asked
<1>11. CASE Attach
  <2>1. Head(mainQueue) \in Block /\ Head(mainQueue).kind = "attach"
        /\ Tail(mainQueue) \in Seq(Block)
    BY <1>11, HeadBlock DEF Attach
  <2>2. Head(mainQueue).spinner \in 1 .. taps
    BY <2>1, BlockFields
  <2> QED BY <1>0, <1>11, <2>1, <2>2 DEF Attach, TypeOK, form, asked, account
<1>12. CASE Detach
  <2>1. Tail(mainQueue) \in Seq(Block)
    BY <1>12, HeadBlock DEF Detach
  <2>2. 0 \in 0 .. taps
    BY DEF TypeOK
  <2> QED BY <1>0, <1>12, <2>1, <2>2 DEF Detach, TypeOK, form, asked, account
<1>13. CASE ShowAlert
  <2>1. Tail(mainQueue) \in Seq(Block)
    BY <1>13, HeadBlock DEF ShowAlert
  <2> QED BY <1>0, <1>13, <2>1 DEF ShowAlert, TypeOK, form, asked, account
<1>14. CASE NaptanFound
  <2> DEFINE n == Head(mainQueue).naptan
             e == IF n = Unavailable /\ line # None THEN <<[kind |-> "alert"]>> ELSE <<>>
  <2>1. Head(mainQueue) \in Block /\ Head(mainQueue).kind = "found"
        /\ Tail(mainQueue) \in Seq(Block)
    BY <1>14, HeadBlock DEF NaptanFound
  <2>2. n \in Supported \cup {Unavailable, None}
    BY <2>1, BlockFields
  <2>3. e \in Seq(Block)
    <3>1. [kind |-> "alert"] \in Block
      BY DEF Block
    <3>2. <<[kind |-> "alert"]>> \in Seq(Block)
      BY <3>1, ShortQueues
    <3> QED BY <3>2, EmptySeq
  <2>4. Tail(mainQueue) \o e \in Seq(Block)
    <3> HIDE DEF e
    <3> QED BY <2>1, <2>3, ConcatProperties
  <2>5. /\ mainQueue' = Tail(mainQueue) \o e
        /\ \/ /\ naptan' = naptan /\ platformRequests' = platformRequests
              /\ page' = page \/ page' = "trapped"
           \/ /\ n # None /\ line # None /\ page' = page
              /\ platformRequests' = Append(platformRequests, [line |-> line, naptan |-> n])
              /\ naptan' = Kept(n)
    BY <1>14 DEF NaptanFound
  <2>6. n # None => Kept(n) \in Supported \cup {None}
    BY <2>2 DEF Kept, TypeOK
  <2>7. n # None /\ line # None => [line |-> line, naptan |-> n] \in PlatformRequest
    BY <2>2 DEF TypeOK, PlatformRequest
  <2>8. /\ mainQueue' \in Seq(Block) /\ naptan' \in Supported \cup {None}
        /\ platformRequests' \in Seq(PlatformRequest)
        /\ page' \in {"open", "closed", "trapped"}
    <3>1. /\ naptan \in Supported \cup {None} /\ page \in {"open", "closed", "trapped"}
          /\ platformRequests \in Seq(PlatformRequest)
      BY DEF TypeOK
    <3>2. \A r \in PlatformRequest : Append(platformRequests, r) \in Seq(PlatformRequest)
      BY <3>1, AppendProperties
    <3> HIDE DEF e, n
    <3> QED BY <2>4, <2>5, <2>6, <2>7, <3>1, <3>2
  <2>9. /\ taps' = taps
        /\ UNCHANGED <<line, is1Selected, is2Selected, title1, title2, cover, lookups,
                       stopRequests, account, stranded>>
    BY <1>14 DEF NaptanFound
  <2> HIDE DEF e, n
  <2> QED BY <1>0, <2>8, <2>9 DEF TypeOK, cover, account
<1>15. CASE DirectionsFound
  <2>1. Head(mainQueue) \in Block /\ Head(mainQueue).kind = "platforms"
        /\ Tail(mainQueue) \in Seq(Block)
    BY <1>15, HeadBlock DEF DirectionsFound
  <2>2. Head(mainQueue).platforms \in Seq(Platform \cup {None})
    BY <2>1, BlockFields
  <2>3. title1' \in Platform \cup {None} /\ title2' \in Platform \cup {None}
    BY <1>15, <2>2, TitleType DEF DirectionsFound, Titles
  <2>4. /\ mainQueue' = Tail(mainQueue) /\ taps' = taps
        /\ UNCHANGED <<line, naptan, is1Selected, is2Selected, cover, page, asked, account,
                       stranded>>
    BY <1>15 DEF DirectionsFound
  <2> QED BY <1>0, <2>1, <2>3, <2>4 DEF TypeOK, cover, asked, account
<1>16. CASE StopFound
  <2> DEFINE b == Head(mainQueue)
             d == [id |-> b.request.id, fields |-> Saved(b.request, b.trains),
                   direction |-> b.request.direction]
  <2>1. b \in Block /\ b.kind = "stop" /\ Tail(mainQueue) \in Seq(Block)
    BY <1>16, HeadBlock DEF StopFound
  <2>2. b.request \in Request
    BY <2>1, BlockFields
  <2>3. d \in Document
    BY <2>2 DEF Document, Stop, Request, Saved
  <2>4. [kind |-> "detach"] \in Block
    BY DEF Block
  <2>5. Append(Tail(mainQueue), [kind |-> "detach"]) \in Seq(Block)
    BY <2>1, <2>4, AppendProperties
  <2>6. /\ \/ page' = "trapped" /\ mainQueue' = Tail(mainQueue) /\ saved' = saved
           \/ /\ saved' = saved \cup {d} /\ page' = "closed"
              /\ mainQueue' = Append(Tail(mainQueue), [kind |-> "detach"])
        /\ taps' = taps /\ UNCHANGED <<form, cover, asked, signedIn, stranded>>
    BY <1>16 DEF StopFound
  <2>7. /\ mainQueue' \in Seq(Block) /\ page' \in {"open", "closed", "trapped"}
        /\ saved' \subseteq Document
    <3> HIDE DEF d
    <3> QED BY <2>1, <2>3, <2>5, <2>6 DEF TypeOK
  <2> HIDE DEF d
  <2> QED BY <1>0, <2>6, <2>7 DEF TypeOK, form, cover, asked
<1>17. CASE UNCHANGED vars
  BY <1>0, <1>17 DEF vars, TypeOK, form, cover, asked, account
<1> QED BY <1>1, <1>2, <1>3, <1>4, <1>5, <1>6, <1>7, <1>8, <1>9, <1>10, <1>11, <1>12, <1>13,
           <1>14, <1>15, <1>16, <1>17, <1>U DEF Next, UserStep, NetworkStep, MainStep

\* Every variable of AddStop keeps its type, however many taps and answers.
THEOREM TypeCorrect == Spec => []TypeOK
BY InitType, NextType, PTL DEF Spec

-----------------------------------------------------------------------------
(* Every block stays sound.                                                *)

LEMMA SoundNext ==
    ASSUME TypeOK, SoundBlocks, [Next]_vars
    PROVE  SoundBlocks'
<1>0. mainQueue \in Seq(Block)
  BY DEF TypeOK
<1>A. ASSUME NEW T, mainQueue \in Seq(T), NEW e \in T, SoundBlock(e),
             mainQueue' = Append(mainQueue, e)
      PROVE  SoundBlocks'
  <2>1. ToSet(mainQueue') = ToSet(mainQueue) \cup {e}
    BY <1>A, ElementsOfAppend
  <2> QED BY <2>1, <1>A DEF SoundBlocks
<1>T. mainQueue # <<>> =>
          /\ ToSet(Tail(mainQueue)) \subseteq ToSet(mainQueue)
          /\ Head(mainQueue) \in ToSet(mainQueue) /\ Tail(mainQueue) \in Seq(Block)
  BY <1>0, ElementsOfTail, HeadTailProperties
<1>1. CASE mainQueue' = mainQueue
  BY <1>1 DEF SoundBlocks
<1>2. CASE AddStop
  <2> DEFINE a == [kind |-> "attach", spinner |-> taps']
             d == [kind |-> "detach"]
             T == ToSet(mainQueue) \cup {a, d}
  <2>1. SoundBlock(a) /\ SoundBlock(d)
    BY DEF SoundBlock
  <2>2. mainQueue \in Seq(T)
    <3>1. /\ Len(mainQueue) \in Nat /\ mainQueue \in [1 .. Len(mainQueue) -> Block]
      BY <1>0
    <3>2. mainQueue \in [1 .. Len(mainQueue) -> ToSet(mainQueue)]
      BY <3>1 DEF ToSet
    <3>3. mainQueue \in [1 .. Len(mainQueue) -> T]
      BY <3>2
    <3> HIDE DEF T
    <3> QED BY <3>1, <3>3, SeqDef
  <2>3. a \in T /\ d \in T
    OBVIOUS
  <2>4. ToSet(Append(mainQueue, a)) = ToSet(mainQueue) \cup {a}
    <3> HIDE DEF T, a
    <3> QED BY <2>2, <2>3, ElementsOfAppend
  <2>5. Append(mainQueue, a) \in Seq(T)
    <3> HIDE DEF T, a
    <3> QED BY <2>2, <2>3, AppendProperties
  <2>6. Append(mainQueue, a) \o Uncover = Append(Append(mainQueue, a), d)
    BY <2>5 DEF Uncover
  <2>7. ToSet(Append(Append(mainQueue, a), d)) = ToSet(Append(mainQueue, a)) \cup {d}
    <3> DEFINE q == Append(mainQueue, a)
    <3>1. q \in Seq(T) /\ d \in T
      BY <2>3, <2>5
    <3> HIDE DEF T, a, d, q
    <3>2. ToSet(Append(q, d)) = ToSet(q) \cup {d}
      BY <3>1, ElementsOfAppend
    <3> QED BY <3>2 DEF q
  <2>8. \/ mainQueue' = Append(mainQueue, a) \o Uncover
        \/ mainQueue' = Append(mainQueue, a)
        \/ mainQueue' = mainQueue
    BY <1>2 DEF AddStop
  <2>9. ToSet(mainQueue') \subseteq ToSet(mainQueue) \cup {a, d}
    <3> HIDE DEF T, a, d
    <3> QED BY <2>4, <2>6, <2>7, <2>8
  <2> HIDE DEF a, d
  <2> QED BY <2>1, <2>9 DEF SoundBlocks
<1>3. ASSUME NEW i \in DOMAIN lookups, LookupAnswered(i) PROVE SoundBlocks'
  <2>1. PICK b \in Block : b.kind = "found" /\ mainQueue' = Append(mainQueue, b)
    BY <1>3, LookupPosts
  <2>2. SoundBlock(b)
    BY <2>1 DEF SoundBlock
  <2> QED BY <1>0, <1>A, <2>1, <2>2
<1>4. ASSUME NEW i \in DOMAIN platformRequests, PlatformsAnswered(i) PROVE SoundBlocks'
  BY <1>0, <1>1, <1>4, <1>A, PlatformsPost
<1>5. ASSUME NEW r \in stopRequests, StopAnswered(r) PROVE SoundBlocks'
  BY <1>0, <1>1, <1>5, <1>A, StopPosts
<1>6. CASE Attach \/ Detach \/ ShowAlert \/ DirectionsFound
  <2>1. mainQueue # <<>> /\ mainQueue' = Tail(mainQueue)
    BY <1>6 DEF Attach, Detach, ShowAlert, DirectionsFound, Running
  <2> QED BY <1>T, <2>1 DEF SoundBlocks
<1>7. CASE NaptanFound
  <2> DEFINE e == [kind |-> "alert"]
  <2>1. mainQueue # <<>>
        /\ (\/ mainQueue' = Tail(mainQueue) \o <<e>> \/ mainQueue' = Tail(mainQueue) \o <<>>)
    BY <1>7 DEF NaptanFound, Running
  <2>2. e \in Block /\ SoundBlock(e)
    BY DEF Block, SoundBlock
  <2> HIDE DEF e
  <2>3. Tail(mainQueue) \o <<e>> = Append(Tail(mainQueue), e)
        /\ Tail(mainQueue) \o <<>> = Tail(mainQueue)
    BY <1>T, <2>1, <2>2
  <2>4. ToSet(Append(Tail(mainQueue), e)) = ToSet(Tail(mainQueue)) \cup {e}
    <3> DEFINE t == Tail(mainQueue)
    <3>1. t \in Seq(Block) /\ e \in Block
      BY <1>T, <2>1, <2>2
    <3> HIDE DEF t
    <3>2. ToSet(Append(t, e)) = ToSet(t) \cup {e}
      BY <3>1, ElementsOfAppend
    <3> QED BY <3>2 DEF t
  <2> QED BY <1>T, <2>1, <2>2, <2>3, <2>4 DEF SoundBlocks
<1>8. CASE StopFound
  <2> DEFINE e == [kind |-> "detach"]
  <2>1. mainQueue # <<>> /\ (\/ mainQueue' = Append(Tail(mainQueue), e)
                            \/ mainQueue' = Tail(mainQueue))
    BY <1>8 DEF StopFound, Running
  <2>2. e \in Block /\ SoundBlock(e)
    BY DEF Block, SoundBlock
  <2> HIDE DEF e
  <2>3. ToSet(Append(Tail(mainQueue), e)) = ToSet(Tail(mainQueue)) \cup {e}
    <3> DEFINE t == Tail(mainQueue)
    <3>1. t \in Seq(Block) /\ e \in Block
      BY <1>T, <2>1, <2>2
    <3> HIDE DEF t
    <3>2. ToSet(Append(t, e)) = ToSet(t) \cup {e}
      BY <3>1, ElementsOfAppend
    <3> QED BY <3>2 DEF t
  <2> QED BY <1>T, <2>1, <2>2, <2>3 DEF SoundBlocks
<1>9. ASSUME NEW l \in Line, DidSelectItem(l) PROVE SoundBlocks'
  BY <1>1, <1>9 DEF DidSelectItem
<1>10. ASSUME NEW s \in Station, DidSelectRow(s) PROVE SoundBlocks'
  BY <1>1, <1>10 DEF DidSelectRow
<1>11. CASE Direction1 \/ Direction2 \/ Back \/ DismissAlert \/ UserSignedOut \/ UNCHANGED vars
  BY <1>1, <1>11 DEF Direction1, Direction2, Direction, Back, DismissAlert, UserSignedOut, vars
<1> QED BY <1>2, <1>3, <1>4, <1>5, <1>6, <1>7, <1>8, <1>9, <1>10, <1>11
        DEF Next, UserStep, NetworkStep, MainStep

-----------------------------------------------------------------------------
(* The form.                                                               *)

\* Only the completion of getDirections sets the titles.
TitleStep ==
    \/ DirectionsFound
    \/ title1' = title1 /\ title2' = title2

LEMMA TitlesNext ==
    ASSUME TypeOK, SoundBlocks, TitlesOfOneAnswer, TitleStep
    PROVE  TitlesOfOneAnswer'
<1>1. CASE title1' = title1 /\ title2' = title2
  BY <1>1 DEF TitlesOfOneAnswer
<1>2. CASE DirectionsFound
  <2> DEFINE p == Head(mainQueue).platforms
             f == FirstValues(p)
  <2>1. Head(mainQueue) \in Block /\ Head(mainQueue).kind = "platforms"
    BY <1>2, HeadBlock DEF DirectionsFound
  <2>2. p \in Seq(Platform \cup {None})
    BY <2>1, BlockFields
  <2>3. Head(mainQueue) \in ToSet(mainQueue)
    <3>1. mainQueue \in Seq(Block) /\ mainQueue # <<>>
      BY <1>2 DEF DirectionsFound, Running, TypeOK
    <3> QED BY <3>1, ElementsOfTail
  <2>4. OneAnswer(p)
    BY <2>1, <2>3 DEF SoundBlocks, SoundBlock
  <2>5. title1' = Title(f, 1) /\ title2' = Title(f, 2)
    BY <1>2 DEF DirectionsFound, RemoveDuplicates, Titles
  <2> HIDE DEF p
  <2>6. /\ \A n \in DOMAIN f : f[n] \in Platform \cup {None} /\ \E i \in DOMAIN p : f[n] = p[i]
        /\ \A m, n \in DOMAIN f : m # n => f[m] # f[n]
        /\ 1 \notin DOMAIN f => 2 \notin DOMAIN f
    BY <2>2, FirstValuesDistinct
  <2> HIDE DEF f
  <2>7. CASE 1 \notin DOMAIN f
    BY <2>5, <2>6, <2>7 DEF Title, TitlesOfOneAnswer
  <2>8. CASE 1 \in DOMAIN f
    <3>1. p # <<>>
      BY <2>6, <2>8
    <3>2. PICK l \in Line, n \in Supported :
              \A i \in DOMAIN p : p[i] \in PlatformsOf[l][n] \cup {None}
      BY <2>4, <3>1 DEF OneAnswer
    <3>3. title1' = f[1] /\ title1' \in PlatformsOf[l][n] \cup {None}
      BY <2>5, <2>6, <2>8, <3>2 DEF Title
    <3>4. title2' \in PlatformsOf[l][n] \cup {None}
      BY <2>5, <2>6, <3>2 DEF Title
    <3>5. title1' # title2' \/ (title1' = None /\ title2' = None)
      <4>1. 2 \in DOMAIN f => title2' = f[2] /\ f[1] # f[2]
        BY <2>5, <2>6, <2>8 DEF Title
      <4>2. 2 \notin DOMAIN f => title2' = None
        BY <2>5 DEF Title
      <4> QED BY <3>3, <4>1, <4>2
    <3> QED BY <3>3, <3>4, <3>5 DEF TitlesOfOneAnswer
  <2> QED BY <2>7, <2>8
<1> QED BY <1>1, <1>2 DEF TitleStep

\* Only the completion of getLineData saves a stop.
SavedStep == StopFound \/ saved' = saved

LEMMA SavedNext ==
    ASSUME TypeOK, SoundBlocks, CompleteStopsAreServed, SavedStep
    PROVE  CompleteStopsAreServed'
<1>1. CASE saved' = saved
  BY <1>1 DEF CompleteStopsAreServed
<1>2. CASE StopFound
  <2> DEFINE b == Head(mainQueue)
             d == [id |-> b.request.id, fields |-> Saved(b.request, b.trains),
                   direction |-> b.request.direction]
  <2>1. b \in Block /\ b.kind = "stop"
    BY <1>2, HeadBlock DEF StopFound
  <2>2. b \in ToSet(mainQueue)
    <3>1. mainQueue \in Seq(Block) /\ mainQueue # <<>>
      BY <1>2 DEF StopFound, Running, TypeOK
    <3> QED BY <3>1, ElementsOfTail
  <2>3. b.trains # "none" => PlatformsOf[b.request.line][b.request.station] # {}
    BY <2>1, <2>2 DEF SoundBlocks, SoundBlock
  <2>4. saved' = saved \/ saved' = saved \cup {d}
    BY <1>2 DEF StopFound
  <2>5. d.fields.line # None => PlatformsOf[d.fields.line][d.fields.station] # {}
    <3>1. CASE b.trains = "none"
      BY <3>1 DEF Saved
    <3>2. CASE b.trains # "none"
      BY <2>3, <3>2 DEF Saved
    <3> QED BY <3>1, <3>2
  <2> HIDE DEF d
  <2> QED BY <2>4, <2>5 DEF CompleteStopsAreServed
<1> QED BY <1>1, <1>2 DEF SavedStep

LEMMA DirectionNext ==
    ASSUME TypeOK, OneDirection,
           \/ Direction1 \/ Direction2
           \/ UNCHANGED <<is1Selected, is2Selected>>
    PROVE  OneDirection'
BY DEF OneDirection, Direction1, Direction2, Direction, Flags1, Flags2, TypeOK

\* Which part of the state each step may change.
LEMMA StepParts ==
    ASSUME [Next]_vars
    PROVE  /\ TitleStep /\ SavedStep
           /\ \/ Direction1 \/ Direction2
              \/ UNCHANGED <<is1Selected, is2Selected>>
<1>1. ASSUME NEW l \in Line, DidSelectItem(l)
      PROVE  UNCHANGED <<title1, title2, saved, is1Selected, is2Selected>>
  BY <1>1 DEF DidSelectItem, account
<1>2. ASSUME NEW s \in Station, DidSelectRow(s)
      PROVE  UNCHANGED <<title1, title2, saved, is1Selected, is2Selected>>
  BY <1>2 DEF DidSelectRow, form, account
<1>3. CASE Direction1 \/ Direction2
  BY <1>3 DEF Direction1, Direction2, Direction, TitleStep, SavedStep, account
<1>4. ASSUME NEW i \in DOMAIN lookups, LookupAnswered(i)
      PROVE  UNCHANGED <<title1, title2, saved, is1Selected, is2Selected>>
  BY <1>4 DEF LookupAnswered, form, account
<1>5. ASSUME NEW i \in DOMAIN platformRequests, PlatformsAnswered(i)
      PROVE  UNCHANGED <<title1, title2, saved, is1Selected, is2Selected>>
  BY <1>5 DEF PlatformsAnswered, form, account
<1>6. ASSUME NEW r \in stopRequests, StopAnswered(r)
      PROVE  UNCHANGED <<title1, title2, saved, is1Selected, is2Selected>>
  BY <1>6 DEF StopAnswered, form, account
<1>7. CASE AddStop \/ Back \/ DismissAlert \/ Attach \/ Detach \/ ShowAlert \/ NaptanFound
           \/ UserSignedOut \/ UNCHANGED vars
  BY <1>7 DEF AddStop, Back, DismissAlert, Attach, Detach, ShowAlert, NaptanFound,
              UserSignedOut, vars, form, account, TitleStep, SavedStep
<1>8. CASE DirectionsFound
  BY <1>8 DEF DirectionsFound, TitleStep, SavedStep, account
<1>9. CASE StopFound
  BY <1>9 DEF StopFound, form, TitleStep, SavedStep
<1> QED BY <1>1, <1>2, <1>3, <1>4, <1>5, <1>6, <1>7, <1>8, <1>9
        DEF Next, UserStep, NetworkStep, MainStep, TitleStep, SavedStep

-----------------------------------------------------------------------------

\* The inductive invariant of the form and of what is saved: the platforms of
\* an answer that waits in the main queue are those of one line and station.
FormInv ==
    TypeOK /\ SoundBlocks /\ OneDirection /\ TitlesOfOneAnswer /\ CompleteStopsAreServed

LEMMA InitForm == Init => FormInv
<1> SUFFICES ASSUME Init
             PROVE  FormInv
  OBVIOUS
<1>1. SoundBlocks
  BY ElementsOfEmpty DEF Init, SoundBlocks
<1> QED BY <1>1, InitType
        DEF Init, FormInv, OneDirection, TitlesOfOneAnswer, CompleteStopsAreServed

LEMMA NextForm == FormInv /\ [Next]_vars => FormInv'
BY NextType, SoundNext, StepParts, TitlesNext, SavedNext, DirectionNext DEF FormInv

\* Whatever is tapped, the two flags never choose both directions.
THEOREM DirectionsExclusive == Spec => []OneDirection
<1>1. FormInv => OneDirection
  BY DEF FormInv
<1> QED BY InitForm, NextForm, <1>1, PTL DEF Spec

\* In whatever order the answers come, the two buttons show the platforms of
\* one of them, each once.
THEOREM TitlesAgree == Spec => []TitlesOfOneAnswer
<1>1. FormInv => TitlesOfOneAnswer
  BY DEF FormInv
<1> QED BY InitForm, NextForm, <1>1, PTL DEF Spec

\* A stop that is saved with its fields is one that TfL has trains at.
THEOREM SavedStopsServed == Spec => []CompleteStopsAreServed
<1>1. FormInv => CompleteStopsAreServed
  BY DEF FormInv
<1> QED BY InitForm, NextForm, <1>1, PTL DEF Spec

-----------------------------------------------------------------------------
(* What covers the page.                                                   *)

\* A tap whose answer has not been taken up, or that will have none.
Awaits(k) ==
    \/ k \in stranded
    \/ \E r \in stopRequests : r.id = k
    \/ \E b \in ToSet(mainQueue) : b.kind = "stop" /\ b.request.id = k

Detaching == \E b \in ToSet(mainQueue) : b.kind = "detach"

\* The spinners that cover the page, or will once the blocks have run.
Covering ==
    overlays \cup {b.spinner : b \in {c \in ToSet(mainQueue) : c.kind = "attach"}}

\* Once a spinner is taken down, no block before that of another tap follows.
Ordered(q) ==
    \A i, j \in DOMAIN q :
        q[i].kind = "detach" /\ i < j => q[j].kind \notin {"attach", "detach"}

\* While the page is open, a spinner of a form that was refused is the last one
\* shown, and is about to be taken down; and an alert keeps the user from
\* another tap until then.
CoverInv ==
    page = "open" =>
        /\ \A k \in Covering : Awaits(k) \/ (k = vSpinner /\ Detaching)
        /\ Detaching => alert
        /\ Ordered(mainQueue)

LEMMA OrderedAppend ==
    ASSUME NEW T, NEW q \in Seq(T), NEW e \in T, Ordered(q),
           \/ e.kind \notin {"attach", "detach"}
           \/ \A b \in ToSet(q) : b.kind # "detach"
    PROVE  Ordered(Append(q, e))
<1> DEFINE a == Append(q, e)
<1>1. /\ Len(q) \in Nat /\ DOMAIN q = 1 .. Len(q) /\ DOMAIN a = 1 .. Len(q) + 1
      /\ \A i \in 1 .. Len(q) : a[i] = q[i] /\ q[i] \in ToSet(q)
      /\ a[Len(q) + 1] = e
  BY AppendProperties DEF ToSet
<1>2. SUFFICES ASSUME NEW i \in DOMAIN a, NEW j \in DOMAIN a, a[i].kind = "detach", i < j
               PROVE  a[j].kind \notin {"attach", "detach"}
  BY DEF Ordered
<1> HIDE DEF a
<1>3. i \in 1 .. Len(q)
  BY <1>1, <1>2
<1>4. CASE j \in 1 .. Len(q)
  BY <1>1, <1>2, <1>3, <1>4 DEF Ordered
<1>5. CASE j = Len(q) + 1
  BY <1>1, <1>2, <1>3, <1>5
<1> QED BY <1>1, <1>4, <1>5

LEMMA OrderedTail ==
    ASSUME NEW T, NEW q \in Seq(T), q # <<>>, Ordered(q)
    PROVE  /\ Ordered(Tail(q))
           /\ Head(q).kind = "detach" =>
                \A b \in ToSet(Tail(q)) : b.kind \notin {"attach", "detach"}
<1> DEFINE t == Tail(q)
<1>1. /\ Len(q) \in Nat \ {0} /\ DOMAIN q = 1 .. Len(q) /\ DOMAIN t = 1 .. Len(q) - 1
      /\ \A i \in 1 .. Len(q) - 1 : t[i] = q[i + 1]
      /\ Head(q) = q[1]
  BY TailElements
<1> HIDE DEF t
<1>2. \A i \in DOMAIN t : i + 1 \in DOMAIN q /\ 1 < i + 1 /\ i \in Nat
  BY <1>1
<1>3. Ordered(t)
  <2> SUFFICES ASSUME NEW i \in DOMAIN t, NEW j \in DOMAIN t, t[i].kind = "detach", i < j
               PROVE  t[j].kind \notin {"attach", "detach"}
    BY DEF Ordered
  <2>1. t[i] = q[i + 1] /\ t[j] = q[j + 1]
    BY <1>1
  <2>2. i + 1 \in DOMAIN q /\ j + 1 \in DOMAIN q /\ i + 1 < j + 1
    BY <1>2
  <2> QED BY <2>1, <2>2 DEF Ordered
<1>4. ASSUME q[1].kind = "detach", NEW b \in ToSet(t)
      PROVE  b.kind \notin {"attach", "detach"}
  <2>1. PICK i \in DOMAIN t : b = t[i]
    BY DEF ToSet
  <2>2. b = q[i + 1] /\ i + 1 \in DOMAIN q /\ 1 < i + 1 /\ 1 \in DOMAIN q
    BY <1>1, <1>2, <2>1
  <2> QED BY <1>4, <2>2 DEF Ordered
<1> QED BY <1>1, <1>3, <1>4 DEF t

\* A step that shows no further spinner, and takes nothing from those that
\* wait, keeps the invariant.
LEMMA CoverKept ==
    ASSUME CoverInv, page' = "open" => page = "open",
           page' = "open" => /\ vSpinner' = vSpinner
                             /\ alert => alert'
                             /\ Covering' \subseteq Covering
                             /\ \A k \in Covering : Awaits(k) => Awaits(k)'
                             /\ Detaching' <=> Detaching
                             /\ Ordered(mainQueue) => Ordered(mainQueue')
    PROVE  CoverInv'
<1> SUFFICES ASSUME page' = "open"
             PROVE  /\ \A k \in Covering' : Awaits(k)' \/ (k = vSpinner' /\ Detaching')
                    /\ Detaching' => alert'
                    /\ Ordered(mainQueue')
  BY DEF CoverInv
<1>1. /\ \A k \in Covering : Awaits(k) \/ (k = vSpinner /\ Detaching)
      /\ Detaching => alert
      /\ Ordered(mainQueue)
  BY DEF CoverInv
<1>2. /\ vSpinner' = vSpinner /\ (alert => alert') /\ (Detaching' <=> Detaching)
      /\ Ordered(mainQueue')
  BY <1>1
<1>3. ASSUME NEW k \in Covering' PROVE Awaits(k)' \/ (k = vSpinner' /\ Detaching')
  <2>1. k \in Covering /\ (Awaits(k) => Awaits(k)')
    OBVIOUS
  <2> QED BY <1>1, <1>2, <2>1
<1> QED BY <1>1, <1>2, <1>3

\* A block that neither shows nor takes down a spinner is posted.
LEMMA CoverAppended ==
    ASSUME TypeOK, CoverInv, NEW e \in Block, e.kind \notin {"attach", "detach"},
           mainQueue' = Append(mainQueue, e),
           UNCHANGED <<page, alert, vSpinner, overlays, stranded>>,
           \A r \in stopRequests :
               r \in stopRequests' \/ (e.kind = "stop" /\ e.request.id = r.id)
    PROVE  CoverInv'
<1>1. mainQueue \in Seq(Block)
  BY DEF TypeOK
<1>2. ToSet(mainQueue') = ToSet(mainQueue) \cup {e}
  BY <1>1, ElementsOfAppend
<1>3. Covering' = Covering
  BY <1>2 DEF Covering
<1>4. Detaching' <=> Detaching
  BY <1>2 DEF Detaching
<1>5. ASSUME NEW k, Awaits(k) PROVE Awaits(k)'
  <2>1. ASSUME NEW r \in stopRequests, r.id = k PROVE Awaits(k)'
    <3>1. CASE r \in stopRequests'
      BY <2>1, <3>1 DEF Awaits
    <3>2. CASE e.kind = "stop" /\ e.request.id = r.id
      BY <1>2, <2>1, <3>2 DEF Awaits
    <3> QED BY <3>1, <3>2
  <2>2. ASSUME NEW b \in ToSet(mainQueue), b.kind = "stop" /\ b.request.id = k PROVE Awaits(k)'
    BY <1>2, <2>2 DEF Awaits
  <2> QED BY <1>5, <2>1, <2>2 DEF Awaits
<1>6. Ordered(mainQueue) => Ordered(mainQueue')
  BY <1>1, OrderedAppend
<1> QED BY <1>3, <1>4, <1>5, <1>6, CoverKept

\* The first block is run, and does not end the wait of a tap.
LEMMA CoverPopped ==
    ASSUME TypeOK, CoverInv, mainQueue # <<>>, Head(mainQueue).kind \notin {"detach", "stop"},
           \/ mainQueue' = Tail(mainQueue)
           \/ mainQueue' = Append(Tail(mainQueue), [kind |-> "alert"]),
           UNCHANGED <<page, vSpinner, stopRequests, stranded>>, page' = "open" /\ alert => alert',
           overlays' = overlays
               \cup {b.spinner : b \in {c \in {Head(mainQueue)} : c.kind = "attach"}}
    PROVE  CoverInv'
<1> DEFINE h == Head(mainQueue)
           t == Tail(mainQueue)
           e == [kind |-> "alert"]
<1>1. /\ mainQueue \in Seq(Block) /\ t \in Seq(Block) /\ h \in Block
      /\ ToSet(mainQueue) = ToSet(t) \cup {h}
  BY HeadTailProperties, ElementsOfTail DEF TypeOK
<1>2. Ordered(mainQueue) => Ordered(t)
  BY <1>1, OrderedTail
<1>3. e \in Block /\ e.kind = "alert"
  BY DEF Block
<1>4. h.kind \notin {"detach", "stop"} /\ (mainQueue' = t \/ mainQueue' = Append(t, e))
      /\ overlays' = overlays \cup {b.spinner : b \in {c \in {h} : c.kind = "attach"}}
  OBVIOUS
<1> HIDE DEF h, t, e
<1>5. ToSet(Append(t, e)) = ToSet(t) \cup {e}
  BY <1>1, <1>3, ElementsOfAppend
<1>6. ToSet(t) \subseteq ToSet(mainQueue') /\ ToSet(mainQueue') \subseteq ToSet(t) \cup {e}
  BY <1>4, <1>5
<1>7. Covering' \subseteq Covering
  <2>1. {b.spinner : b \in {c \in ToSet(mainQueue') : c.kind = "attach"}} \subseteq
            {b.spinner : b \in {c \in ToSet(t) : c.kind = "attach"}}
    BY <1>3, <1>6
  <2>2. overlays' \cup {b.spinner : b \in {c \in ToSet(t) : c.kind = "attach"}} \subseteq Covering
    BY <1>1, <1>4 DEF Covering
  <2> QED BY <2>1, <2>2 DEF Covering
<1>8. Detaching' <=> Detaching
  BY <1>1, <1>3, <1>4, <1>6 DEF Detaching
<1>9. ASSUME NEW k, Awaits(k) PROVE Awaits(k)'
  <2>1. ASSUME NEW b \in ToSet(mainQueue), b.kind = "stop" /\ b.request.id = k PROVE Awaits(k)'
    <3>1. b \in ToSet(mainQueue')
      BY <1>1, <1>4, <1>6, <2>1
    <3> QED BY <2>1, <3>1 DEF Awaits
  <2> QED BY <1>9, <2>1 DEF Awaits
<1>10. Ordered(mainQueue) => Ordered(mainQueue')
  <2>1. Ordered(t) => Ordered(Append(t, e))
    BY <1>1, <1>3, OrderedAppend
  <2> QED BY <1>2, <1>4, <2>1
<1> QED BY <1>7, <1>8, <1>9, <1>10, CoverKept

\* A tap shows its spinner: its answer is awaited, or the form was incomplete
\* and the alert and the block that takes it down come with it.
LEMMA CoverTapped ==
    ASSUME TypeOK, CoverInv, AddStop
    PROVE  CoverInv'
<1> SUFFICES ASSUME page' = "open"
             PROVE  /\ \A k \in Covering' : Awaits(k)' \/ (k = vSpinner' /\ Detaching')
                    /\ Detaching' => alert'
                    /\ Ordered(mainQueue')
  BY DEF CoverInv
<1> DEFINE a == [kind |-> "attach", spinner |-> taps']
           d == [kind |-> "detach"]
           T == Block \cup {a, d}
           q == Append(mainQueue, a)
<1>1. mainQueue \in Seq(T) /\ a \in T /\ d \in T
  BY DEF TypeOK
<1>2. page = "open" /\ ~alert /\ overlays' = overlays /\ vSpinner' = taps'
  BY DEF AddStop, Touchable
<1>3. /\ \A k \in Covering : Awaits(k)
      /\ \A b \in ToSet(mainQueue) : b.kind # "detach"
      /\ Ordered(mainQueue)
  BY <1>2 DEF CoverInv, Detaching
<1>4. /\ \/ alert' = TRUE /\ mainQueue' = q \o Uncover
         \/ /\ taps' \in stranded' \/ \E r \in stopRequests' : r.id = taps'
            /\ mainQueue' = q
      /\ stopRequests \subseteq stopRequests' /\ stranded \subseteq stranded'
  <2> DEFINE r == [id |-> taps', line |-> line, station |-> naptan,
                   direction |-> SelectedTitle]
  <2>1. \/ /\ alert' = TRUE /\ mainQueue' = q \o Uncover
           /\ UNCHANGED <<stopRequests, stranded>>
        \/ /\ \/ stopRequests' = stopRequests \cup {r} /\ stranded' = stranded
              \/ stranded' = stranded \cup {taps'} /\ stopRequests' = stopRequests
           /\ mainQueue' = q
        \/ page' = "trapped"
    BY DEF AddStop
  <2>2. r.id = taps'
    OBVIOUS
  <2> HIDE DEF r, a, q
  <2> QED BY <2>1, <2>2
<1>5. a.kind = "attach" /\ a.spinner = taps' /\ d.kind = "detach"
  OBVIOUS
<1>6. q \in Seq(T)
  <2> HIDE DEF a, d, T
  <2> QED BY <1>1, AppendProperties
<1>7. q \o Uncover = Append(q, d)
  <2>1. Uncover = <<d>>
    BY DEF Uncover
  <2> HIDE DEF q, d, T
  <2> QED BY <1>1, <1>6, <2>1
<1>8. ToSet(q) = ToSet(mainQueue) \cup {a}
  <2> HIDE DEF a, d, T
  <2> QED BY <1>1, ElementsOfAppend
<1>9. Ordered(q)
  <2> HIDE DEF a, d, T
  <2> QED BY <1>1, <1>3, OrderedAppend
<1> HIDE DEF a, d, T, q
<1>10. ToSet(Append(q, d)) = ToSet(q) \cup {d}
  BY <1>1, <1>6, ElementsOfAppend
<1>11. \A b \in ToSet(q) : b.kind # "detach"
  BY <1>3, <1>5, <1>8
<1>12. Ordered(Append(q, d))
  BY <1>1, <1>6, <1>9, <1>11, OrderedAppend
<1>13. mainQueue' = q \/ mainQueue' = Append(q, d)
  BY <1>4, <1>7
<1>14. /\ ToSet(mainQueue) \subseteq ToSet(mainQueue')
       /\ ToSet(mainQueue') \subseteq ToSet(mainQueue) \cup {a, d}
  BY <1>8, <1>10, <1>13
<1>15. \A k \in Covering' : k \in Covering \/ k = taps'
  <2>1. {b.spinner : b \in {c \in ToSet(mainQueue') : c.kind = "attach"}} \subseteq
            {b.spinner : b \in {c \in ToSet(mainQueue) : c.kind = "attach"}} \cup {taps'}
    BY <1>5, <1>14
  <2> QED BY <1>2, <2>1 DEF Covering
<1>16. ASSUME NEW k, Awaits(k) PROVE Awaits(k)'
  <2>1. stopRequests \subseteq stopRequests' /\ stranded \subseteq stranded'
    BY <1>4
  <2> QED BY <1>14, <1>16, <2>1 DEF Awaits
<1>17. CASE alert' = TRUE /\ mainQueue' = Append(q, d)
  <2>1. Detaching'
    BY <1>5, <1>10, <1>17 DEF Detaching
  <2>2. \A k \in Covering' : Awaits(k)' \/ (k = vSpinner' /\ Detaching')
    BY <1>2, <1>3, <1>15, <1>16, <2>1
  <2> QED BY <1>12, <1>17, <2>2
<1>18. CASE /\ taps' \in stranded' \/ \E r \in stopRequests' : r.id = taps'
            /\ mainQueue' = q
  <2>1. ASSUME NEW k, k = taps' PROVE Awaits(k)'
    BY <1>18, <2>1 DEF Awaits
  <2>2. ~Detaching'
    BY <1>11, <1>18 DEF Detaching
  <2>3. \A k \in Covering' : Awaits(k)'
    BY <1>3, <1>15, <1>16, <2>1
  <2> QED BY <1>9, <1>18, <2>2, <2>3
<1> QED BY <1>4, <1>7, <1>17, <1>18

\* The spinner shown last is taken down: every other one waits for an answer.
LEMMA CoverDetached ==
    ASSUME TypeOK, CoverInv, Detach
    PROVE  CoverInv'
<1> SUFFICES ASSUME page' = "open"
             PROVE  /\ \A k \in Covering' : Awaits(k)' \/ (k = vSpinner' /\ Detaching')
                    /\ Detaching' => alert'
                    /\ Ordered(mainQueue')
  BY DEF CoverInv
<1> DEFINE h == Head(mainQueue)
           t == Tail(mainQueue)
<1>1. /\ h.kind = "detach" /\ mainQueue' = t /\ mainQueue # <<>>
      /\ overlays' = overlays \ {vSpinner}
      /\ UNCHANGED <<page, alert, stopRequests, stranded>>
  BY DEF Detach, Running, asked
<1>2. /\ mainQueue \in Seq(Block) /\ t \in Seq(Block) /\ h \in Block
      /\ ToSet(mainQueue) = ToSet(t) \cup {h}
  BY <1>1, HeadTailProperties, ElementsOfTail DEF TypeOK
<1>3. /\ \A k \in Covering : Awaits(k) \/ k = vSpinner
      /\ Ordered(mainQueue)
  BY <1>1 DEF CoverInv
<1>4. Ordered(t) /\ \A b \in ToSet(t) : b.kind \notin {"attach", "detach"}
  BY <1>1, <1>2, <1>3, OrderedTail
<1> HIDE DEF h, t
<1>5. Covering' = overlays \ {vSpinner}
  BY <1>1, <1>4 DEF Covering
<1>6. ~Detaching'
  BY <1>1, <1>4 DEF Detaching
<1>7. ASSUME NEW k, Awaits(k) PROVE Awaits(k)'
  <2>1. ASSUME NEW b \in ToSet(mainQueue), b.kind = "stop" /\ b.request.id = k PROVE Awaits(k)'
    BY <1>1, <1>2, <2>1 DEF Awaits
  <2> QED BY <1>1, <1>7, <2>1 DEF Awaits
<1>8. \A k \in Covering' : k \in Covering /\ k # vSpinner
  BY <1>5 DEF Covering
<1>9. \A k \in Covering' : Awaits(k)'
  BY <1>3, <1>7, <1>8
<1> QED BY <1>1, <1>4, <1>6, <1>9

LEMMA CoverNext ==
    ASSUME TypeOK, CoverInv, [Next]_vars
    PROVE  CoverInv'
<1>1. ASSUME page' # "open" PROVE CoverInv'
  BY <1>1 DEF CoverInv
<1>2. ASSUME UNCHANGED <<page, vSpinner, overlays, mainQueue, stopRequests, stranded>>,
             alert' = alert \/ ~Detaching
      PROVE  CoverInv'
  <2>1. /\ Covering' = Covering /\ Detaching' = Detaching
        /\ \A k : Awaits(k) => Awaits(k)'
    BY <1>2 DEF Covering, Detaching, Awaits
  <2> QED BY <1>2, <2>1 DEF CoverInv
<1>3. ASSUME NEW l \in Line, DidSelectItem(l) PROVE CoverInv'
  BY <1>2, <1>3 DEF DidSelectItem, cover, asked
<1>4. ASSUME NEW s \in Station, DidSelectRow(s) PROVE CoverInv'
  BY <1>2, <1>4 DEF DidSelectRow, cover
<1>5. CASE Direction1 \/ Direction2
  BY <1>2, <1>5 DEF Direction1, Direction2, Direction, cover, asked
<1>6. CASE AddStop
  BY <1>6, CoverTapped
<1>7. CASE Back \/ StopFound
  BY <1>1, <1>7 DEF Back, StopFound
<1>U. CASE UserSignedOut
  BY <1>2, <1>U DEF UserSignedOut, cover, asked
<1>8. CASE DismissAlert
  <2>1. ~Detaching
    BY <1>8 DEF DismissAlert, Detaching, ToSet
  <2> QED BY <1>2, <1>8, <2>1 DEF DismissAlert, asked
<1>9. ASSUME NEW i \in DOMAIN lookups, LookupAnswered(i) PROVE CoverInv'
  <2>1. PICK b \in Block : b.kind = "found" /\ mainQueue' = Append(mainQueue, b)
    BY <1>9, LookupPosts
  <2>2. UNCHANGED <<page, alert, vSpinner, overlays, stopRequests, stranded>>
    BY <1>9 DEF LookupAnswered, cover
  <2> QED BY <2>1, <2>2, CoverAppended
<1>10. ASSUME NEW i \in DOMAIN platformRequests, PlatformsAnswered(i) PROVE CoverInv'
  <2>1. UNCHANGED <<page, alert, vSpinner, overlays, stopRequests, stranded>>
    BY <1>10 DEF PlatformsAnswered, cover
  <2>2. CASE mainQueue' = mainQueue
    BY <1>2, <2>1, <2>2
  <2>3. CASE mainQueue' # mainQueue
    <3>1. PICK b \in Block : b.kind = "platforms" /\ mainQueue' = Append(mainQueue, b)
      BY <1>10, <2>3, PlatformsPost
    <3> QED BY <2>1, <3>1, CoverAppended
  <2> QED BY <2>2, <2>3
<1>11. ASSUME NEW r \in stopRequests, StopAnswered(r) PROVE CoverInv'
  <2>1. /\ UNCHANGED <<page, alert, vSpinner, overlays>>
        /\ stopRequests' = stopRequests \ {r}
    BY <1>11 DEF StopAnswered, cover
  <2>2. CASE mainQueue' = mainQueue /\ stranded' = stranded \cup {r.id}
    <3>1. Covering' = Covering /\ (Detaching' <=> Detaching)
      BY <2>1, <2>2 DEF Covering, Detaching
    <3>2. ASSUME NEW k, Awaits(k) PROVE Awaits(k)'
      BY <2>1, <2>2, <3>2 DEF Awaits
    <3> QED BY <2>1, <2>2, <3>1, <3>2, CoverKept
  <2>3. CASE ~(mainQueue' = mainQueue /\ stranded' = stranded \cup {r.id})
    <3>1. PICK b \in Block :
              b.kind = "stop" /\ b.request = r /\ mainQueue' = Append(mainQueue, b)
      BY <1>11, <2>3, StopPosts
    <3>2. stranded' = stranded
      BY <1>11, <2>3, StopPosts
    <3>3. \A x \in stopRequests :
              x \in stopRequests' \/ (b.kind = "stop" /\ b.request.id = x.id)
      BY <2>1, <3>1
    <3> QED BY <2>1, <3>1, <3>2, <3>3, CoverAppended
  <2> QED BY <2>2, <2>3
<1>12. CASE Attach
  <2>1. /\ mainQueue # <<>> /\ Head(mainQueue).kind = "attach"
        /\ mainQueue' = Tail(mainQueue)
        /\ overlays' = overlays \cup {Head(mainQueue).spinner}
        /\ UNCHANGED <<page, vSpinner, stopRequests, alert, stranded>>
    BY <1>12 DEF Attach, Running, asked
  <2>2. overlays' = overlays
            \cup {b.spinner : b \in {c \in {Head(mainQueue)} : c.kind = "attach"}}
    BY <2>1
  <2> QED BY <2>1, <2>2, CoverPopped
<1>13. CASE Detach
  BY <1>13, CoverDetached
<1>14. CASE (ShowAlert \/ NaptanFound \/ DirectionsFound) /\ page' = "open"
  <2>1. /\ mainQueue # <<>> /\ Head(mainQueue).kind \in {"alert", "found", "platforms"}
        /\ UNCHANGED <<page, vSpinner, stopRequests, overlays, stranded>> /\ (alert => alert')
    <3>1. CASE ShowAlert
      BY <3>1 DEF ShowAlert, Running, asked
    <3>2. CASE NaptanFound
      BY <1>14, <3>2 DEF NaptanFound, Running, cover
    <3>3. CASE DirectionsFound
      BY <3>3 DEF DirectionsFound, Running, cover, asked
    <3> QED BY <1>14, <3>1, <3>2, <3>3
  <2>2. \/ mainQueue' = Tail(mainQueue)
        \/ mainQueue' = Tail(mainQueue) \o <<>>
        \/ mainQueue' = Tail(mainQueue) \o <<[kind |-> "alert"]>>
    BY <1>14 DEF ShowAlert, NaptanFound, DirectionsFound
  <2>3. Tail(mainQueue) \in Seq(Block) /\ [kind |-> "alert"] \in Block
    BY <2>1, HeadTailProperties DEF TypeOK, Block
  <2>4. \/ mainQueue' = Tail(mainQueue)
        \/ mainQueue' = Append(Tail(mainQueue), [kind |-> "alert"])
    BY <2>2, <2>3
  <2>5. overlays' = overlays
            \cup {b.spinner : b \in {c \in {Head(mainQueue)} : c.kind = "attach"}}
    BY <2>1
  <2> QED BY <2>1, <2>4, <2>5, CoverPopped
<1>15. CASE UNCHANGED vars
  BY <1>2, <1>15 DEF vars, cover, asked
<1> QED BY <1>1, <1>3, <1>4, <1>5, <1>6, <1>7, <1>8, <1>9, <1>10, <1>11, <1>12, <1>13,
           <1>14, <1>15, <1>U
        DEF Next, UserStep, NetworkStep, MainStep

LEMMA InitCover == Init => CoverInv
<1> SUFFICES ASSUME Init
             PROVE  CoverInv
  OBVIOUS
<1>1. ToSet(mainQueue) = {} /\ overlays = {}
  BY ElementsOfEmpty DEF Init
<1>2. Ordered(mainQueue)
  BY DEF Init, Ordered
<1> QED BY <1>1, <1>2 DEF CoverInv, Covering, Detaching

\* Once the blocks have run, a spinner that covers the open page is that of a tap
\* whose answer is awaited, or of one without a user or whose request failed.
THEOREM CoveredAwaiting == Spec => []CoveredOnlyWhileAwaiting
<1>1. TypeOK /\ CoverInv => CoveredOnlyWhileAwaiting
  <2> SUFFICES ASSUME TypeOK, CoverInv, page = "open", mainQueue = <<>>, NEW k \in overlays
               PROVE  k \in stranded \/ \E r \in stopRequests : r.id = k
    BY DEF CoveredOnlyWhileAwaiting
  <2>1. ToSet(mainQueue) = {}
    BY ElementsOfEmpty
  <2>2. Awaits(k)
    BY <2>1 DEF CoverInv, Covering, Detaching
  <2> QED BY <2>1, <2>2 DEF Awaits
<1>2. Init => TypeOK /\ CoverInv
  BY InitType, InitCover
<1>3. TypeOK /\ CoverInv /\ [Next]_vars => (TypeOK /\ CoverInv)'
  BY NextType, CoverNext
<1> QED BY <1>1, <1>2, <1>3, PTL DEF Spec

=============================================================================
