-------------------------- MODULE PendingList_proofs --------------------------
(***************************************************************************)
(* What the operators of PendingList return, preserve and bound, for lists *)
(* of any length over any set of submissions.                              *)
(***************************************************************************)
EXTENDS PendingList, SequenceTheorems, WellFoundedInduction, TLAPS

\* The elements of a pending list of submissions in S.
Elements(S) == [sub : S, rank : Int]

\* Every element's rank is its position, as the clients are told.
RanksArePositions(list) == \A i \in 1..Len(list) : list[i].rank = i

\* s is in a pending list; in two places of it; x is in two places of a sequence.
Occurs(list, s) == \E i \in 1..Len(list) : list[i].sub = s
OccursTwice(list, s) ==
  \E i, j \in 1..Len(list) : i # j /\ list[i].sub = s /\ list[j].sub = s
Twice(seq, x) == \E i, j \in 1..Len(seq) : i # j /\ seq[i] = x /\ seq[j] = x

\* A sequence in which s occurs has a last occurrence of s, so the index entry
\* that LastIndex stands for exists.
LEMMA LastIndexExists ==
  ASSUME NEW S, NEW seq \in Seq(S), NEW s, \E i \in 1..Len(seq) : seq[i] = s
  PROVE  /\ LastIndex(seq, s) \in 1..Len(seq)
         /\ seq[LastIndex(seq, s)] = s
         /\ \A j \in 1..Len(seq) : seq[j] = s => j <= LastIndex(seq, s)
<1> DEFINE Distance == {k \in Nat : \E i \in 1..Len(seq) : seq[i] = s /\ k = Len(seq) - i}
<1>1. Len(seq) \in Nat
  BY LenProperties
<1>2. Distance # {}
  <2>1. PICK i \in 1..Len(seq) : seq[i] = s
    OBVIOUS
  <2>2. Len(seq) - i \in Nat
    BY <1>1
  <2> QED
    BY <2>1, <2>2
<1>3. PICK k \in Distance : \A j \in Distance : ~ (<<j, k>> \in OpToRel(<, Nat))
  <2>1. Distance \subseteq Nat
    OBVIOUS
  <2> HIDE DEF Distance
  <2> QED
    BY <1>2, <2>1, WFMin, NatLessThanWellFounded
<1>4. \A j \in Distance : k <= j
  <2> SUFFICES ASSUME NEW j \in Distance
               PROVE  k <= j
    OBVIOUS
  <2>1. j \in Nat /\ k \in Nat
    OBVIOUS
  <2>2. ~ (j < k)
    BY <1>3, <2>1, Zenon DEF OpToRel
  <2> QED
    BY <2>1, <2>2
<1>5. PICK i \in 1..Len(seq) : seq[i] = s /\ k = Len(seq) - i
  OBVIOUS
<1>6. \A j \in 1..Len(seq) : seq[j] = s => j <= i
  <2> SUFFICES ASSUME NEW j \in 1..Len(seq), seq[j] = s
               PROVE  j <= i
    OBVIOUS
  <2>1. Len(seq) - j \in Distance
    <3>1. Len(seq) - j \in Nat
      BY <1>1
    <3> QED
      BY <3>1
  <2>2. k <= Len(seq) - j
    BY <1>4, <2>1
  <2> QED
    BY <1>1, <1>5, <2>2
<1> QED
  BY <1>5, <1>6 DEF LastIndex

\* SubsOf lists the submissions of the elements in order.
LEMMA SubsOfType ==
  ASSUME NEW S, NEW list \in Seq(Elements(S))
  PROVE  /\ SubsOf(list) \in Seq(S)
         /\ Len(SubsOf(list)) = Len(list)
         /\ \A i \in 1..Len(list) : SubsOf(list)[i] = list[i].sub
<1>1. Len(list) \in Nat /\ \A i \in 1..Len(list) : list[i] \in Elements(S)
  BY LenProperties, ElementOfSeq
<1>2. \A i \in 1..Len(list) : list[i].sub \in S
  BY <1>1 DEF Elements
<1> QED
  BY <1>1, <1>2 DEF SubsOf

\* list.Remove: the sequence without one of its positions.
LEMMA UnlinkType ==
  ASSUME NEW S, NEW seq \in Seq(S), NEW i \in 1..Len(seq)
  PROVE  Unlink(seq, i) \in Seq(S)
<1>1. Len(seq) \in Nat /\ Len(seq) - 1 \in Nat
  BY LenProperties
<1>2. \A k \in 1..(Len(seq) - 1) : (IF k < i THEN seq[k] ELSE seq[k + 1]) \in S
  BY <1>1, ElementOfSeq
<1> QED
  BY <1>1, <1>2 DEF Unlink

\* pushPendingGradeQueue keeps ranks equal to positions, and adds only s.
LEMMA PushBackProperties ==
  ASSUME NEW S, NEW list \in Seq(Elements(S)), NEW s \in S
  PROVE  /\ PushBack(list, s) \in Seq(Elements(S))
         /\ RanksArePositions(list) => RanksArePositions(PushBack(list, s))
         /\ Len(PushBack(list, s)) = Len(list) + 1
         /\ \A i \in 1..Len(list) : PushBack(list, s)[i] = list[i]
         /\ PushBack(list, s)[Len(list) + 1].sub = s
<1>1. Len(list) \in Nat
  BY LenProperties
<1>2. PendingRequest(s, Len(list) + 1) \in Elements(S)
  BY <1>1 DEF PendingRequest, Elements
<1>3. /\ PushBack(list, s) \in Seq(Elements(S))
      /\ Len(PushBack(list, s)) = Len(list) + 1
      /\ \A i \in 1..Len(list) : PushBack(list, s)[i] = list[i]
      /\ PushBack(list, s)[Len(list) + 1] = PendingRequest(s, Len(list) + 1)
  BY <1>2, AppendProperties DEF PushBack
<1>4. PendingRequest(s, Len(list) + 1).sub = s /\ PendingRequest(s, Len(list) + 1).rank = Len(list) + 1
  BY DEF PendingRequest
<1>5. ASSUME RanksArePositions(list)
      PROVE  RanksArePositions(PushBack(list, s))
  <2> SUFFICES ASSUME NEW i \in 1..(Len(list) + 1)
               PROVE  PushBack(list, s)[i].rank = i
    BY <1>3 DEF RanksArePositions
  <2>1. CASE i \in 1..Len(list)
    BY <1>3, <1>5, <2>1 DEF RanksArePositions
  <2>2. CASE i = Len(list) + 1
    BY <1>3, <1>4, <2>2
  <2> QED
    BY <1>1, <2>1, <2>2
<1> QED
  BY <1>3, <1>4, <1>5

\* removePendingGradeRequest keeps ranks equal to positions, and every other
\* submission of the list stays in it.
LEMMA RemovePendingProperties ==
  ASSUME NEW S, NEW list \in Seq(Elements(S)), NEW s,
         \E i \in 1..Len(list) : list[i].sub = s
  PROVE  /\ RemovePending(list, s) \in Seq(Elements(S))
         /\ RanksArePositions(list) => RanksArePositions(RemovePending(list, s))
         /\ \A i \in 1..Len(list) : list[i].sub # s =>
              \E j \in 1..Len(RemovePending(list, s)) : RemovePending(list, s)[j].sub = list[i].sub
<1> DEFINE last == LastIndex(SubsOf(list), s)
           rest == RemovePending(list, s)
           moved(k) == IF k < last THEN list[k]
                       ELSE PendingRequest(list[k + 1].sub, list[k + 1].rank - 1)
<1>1. Len(list) \in Nat /\ \A i \in 1..Len(list) : list[i] \in Elements(S)
  BY LenProperties, ElementOfSeq
<1>2. last \in 1..Len(list) /\ list[last].sub = s
  <2>1. /\ SubsOf(list) \in Seq(S) /\ Len(SubsOf(list)) = Len(list)
        /\ \A i \in 1..Len(list) : SubsOf(list)[i] = list[i].sub
    BY SubsOfType
  <2>2. \E i \in 1..Len(SubsOf(list)) : SubsOf(list)[i] = s
    BY <2>1
  <2> QED
    BY <2>1, <2>2, LastIndexExists
<1> HIDE DEF last
<1>3. Len(list) - 1 \in Nat
  BY <1>1, <1>2
<1>4. \A k \in 1..(Len(list) - 1) : moved(k) \in Elements(S)
  BY <1>1, <1>2, <1>3 DEF Elements, PendingRequest
<1>5. rest = [k \in 1..(Len(list) - 1) |-> moved(k)]
  BY DEF RemovePending, last
<1> HIDE DEF moved
<1>6. rest \in Seq(Elements(S)) /\ Len(rest) = Len(list) - 1
  BY <1>3, <1>4, <1>5
<1>7. \A k \in 1..(Len(list) - 1) : rest[k] = moved(k)
  BY <1>5
<1> HIDE DEF rest
<1>8. ASSUME RanksArePositions(list)
      PROVE  RanksArePositions(rest)
  <2> SUFFICES ASSUME NEW k \in 1..(Len(list) - 1)
               PROVE  moved(k).rank = k
    BY <1>6, <1>7 DEF RanksArePositions
  <2>1. list[k].rank = k /\ list[k + 1].rank = k + 1
    BY <1>1, <1>3, <1>8 DEF RanksArePositions
  <2> QED
    BY <1>3, <2>1 DEF moved, PendingRequest
<1>9. ASSUME NEW i \in 1..Len(list), list[i].sub # s
      PROVE  \E j \in 1..Len(rest) : rest[j].sub = list[i].sub
  <2>1. i < last \/ i > last
    BY <1>1, <1>2, <1>9
  <2>2. CASE i < last
    <3>1. i \in 1..(Len(list) - 1) /\ moved(i) = list[i]
      BY <1>1, <1>2, <2>2 DEF moved
    <3> QED
      BY <1>6, <1>7, <3>1
  <2>3. CASE i > last
    <3>1. i - 1 \in 1..(Len(list) - 1) /\ moved(i - 1).sub = list[i].sub
      BY <1>1, <1>2, <2>3 DEF moved, PendingRequest
    <3> QED
      BY <1>6, <1>7, <3>1
  <2> QED
    BY <2>1, <2>2, <2>3
<1> QED
  BY <1>6, <1>8, <1>9 DEF rest

\* What is left of a pass after a dispatch is again a sequence of submissions.
LEMMA TodoAfterDispatchType ==
  ASSUME NEW S, NEW todo \in Seq(S), todo # <<>>, NEW s \in S, NEW indexed
  PROVE  TodoAfterDispatch(todo, s, indexed) \in Seq(S)
<1>1. Tail(todo) \in Seq(S)
  BY HeadTailProperties
<1>2. CASE \E i \in 1..Len(Tail(todo)) : Tail(todo)[i] = s
  <2>1. LastIndex(Tail(todo), s) \in 1..Len(Tail(todo))
    BY <1>1, <1>2, LastIndexExists
  <2>2. Unlink(Tail(todo), LastIndex(Tail(todo), s)) \in Seq(S)
    BY <1>1, <2>1, UnlinkType
  <2>3. <<s>> \in Seq(S)
    OBVIOUS
  <2> QED
    BY <1>1, <2>2, <2>3 DEF TodoAfterDispatch
<1>3. CASE ~ \E i \in 1..Len(Tail(todo)) : Tail(todo)[i] = s
  BY <1>1, <1>3 DEF TodoAfterDispatch
<1> QED
  BY <1>2, <1>3

\* A push adds its submission and leaves the others where they are.
LEMMA PushBackOccurs ==
  ASSUME NEW S, NEW list \in Seq(Elements(S)), NEW s \in S, NEW r
  PROVE  Occurs(PushBack(list, s), r) <=> Occurs(list, r) \/ r = s
<1>1. /\ Len(PushBack(list, s)) = Len(list) + 1
      /\ \A i \in 1..Len(list) : PushBack(list, s)[i] = list[i]
      /\ PushBack(list, s)[Len(list) + 1].sub = s
  BY PushBackProperties
<1>2. Len(list) \in Nat
  BY LenProperties
<1> HIDE DEF PushBack
<1>3. ASSUME Occurs(PushBack(list, s), r)
      PROVE  Occurs(list, r) \/ r = s
  BY <1>1, <1>2, <1>3 DEF Occurs
<1>4. ASSUME Occurs(list, r)
      PROVE  Occurs(PushBack(list, s), r)
  BY <1>1, <1>2, <1>4 DEF Occurs
<1>5. Occurs(PushBack(list, s), s)
  BY <1>1, <1>2 DEF Occurs
<1> QED
  BY <1>3, <1>4, <1>5

\* A removal takes one of the places of its submission and none of another's.
LEMMA RemovePendingOccurs ==
  ASSUME NEW S, NEW list \in Seq(Elements(S)), NEW s, Occurs(list, s), NEW r
  PROVE  /\ Occurs(RemovePending(list, s), r) => Occurs(list, r)
         /\ r # s /\ Occurs(list, r) => Occurs(RemovePending(list, s), r)
         /\ r # s /\ OccursTwice(list, r) => OccursTwice(RemovePending(list, s), r)
         /\ OccursTwice(list, s) => Occurs(RemovePending(list, s), s)
<1> DEFINE last == LastIndex(SubsOf(list), s)
           rest == RemovePending(list, s)
           to(k) == IF k < last THEN k ELSE k - 1
<1>1. Len(list) \in Nat
  BY LenProperties
<1>2. last \in 1..Len(list) /\ list[last].sub = s
  <2>1. /\ SubsOf(list) \in Seq(S) /\ Len(SubsOf(list)) = Len(list)
        /\ \A i \in 1..Len(list) : SubsOf(list)[i] = list[i].sub
    BY SubsOfType
  <2>2. \E i \in 1..Len(SubsOf(list)) : SubsOf(list)[i] = s
    BY <2>1 DEF Occurs
  <2> QED
    BY <2>1, <2>2, LastIndexExists
<1>3. /\ Len(rest) = Len(list) - 1
      /\ \A k \in 1..(Len(list) - 1) :
           rest[k].sub = IF k < last THEN list[k].sub ELSE list[k + 1].sub
  <2>1. rest = [k \in 1..(Len(list) - 1) |->
                  IF k < last THEN list[k]
                  ELSE PendingRequest(list[k + 1].sub, list[k + 1].rank - 1)]
    BY DEF RemovePending
  <2>2. Len(list) - 1 \in Nat
    BY <1>1, <1>2
  <2> QED
    BY <2>1, <2>2 DEF PendingRequest
<1> HIDE DEF last, rest
<1>4. ASSUME NEW k \in 1..Len(list), k # last
      PROVE  to(k) \in 1..Len(rest) /\ rest[to(k)].sub = list[k].sub
  <2>1. CASE k < last
    BY <1>1, <1>2, <1>3, <2>1
  <2>2. CASE k > last
    <3>1. k - 1 \in 1..(Len(list) - 1) /\ ~(k - 1 < last) /\ (k - 1) + 1 = k
      BY <1>1, <1>2, <2>2
    <3>2. to(k) = k - 1
      BY <1>1, <1>2, <2>2
    <3> QED
      BY <1>3, <3>1, <3>2
  <2> QED
    BY <1>1, <1>2, <1>4, <2>1, <2>2
<1>5. \A i, j \in 1..Len(list) : i # last /\ j # last /\ i # j => to(i) # to(j)
  BY <1>1, <1>2
<1> HIDE DEF to
<1>6. ASSUME Occurs(rest, r)
      PROVE  Occurs(list, r)
  <2>1. PICK k \in 1..(Len(list) - 1) : rest[k].sub = r
    BY <1>3, <1>6 DEF Occurs
  <2>2. k \in 1..Len(list) /\ k + 1 \in 1..Len(list)
    BY <1>1, <1>2
  <2> QED
    BY <1>3, <2>1, <2>2 DEF Occurs
<1>7. ASSUME r # s, Occurs(list, r)
      PROVE  Occurs(rest, r)
  BY <1>2, <1>4, <1>7 DEF Occurs
<1>8. ASSUME r # s, OccursTwice(list, r)
      PROVE  OccursTwice(rest, r)
  BY <1>2, <1>4, <1>5, <1>8 DEF OccursTwice
<1>9. ASSUME OccursTwice(list, s)
      PROVE  Occurs(rest, s)
  BY <1>4, <1>9 DEF OccursTwice, Occurs
<1> QED
  BY <1>6, <1>7, <1>8, <1>9 DEF rest

\* A push puts no other submission, and nothing that was not there, in two places.
LEMMA PushBackOnce ==
  ASSUME NEW S, NEW list \in Seq(Elements(S)), NEW s \in S, NEW r,
         OccursTwice(PushBack(list, s), r)
  PROVE  OccursTwice(list, r) \/ (r = s /\ Occurs(list, s))
<1>1. /\ Len(PushBack(list, s)) = Len(list) + 1
      /\ \A i \in 1..Len(list) : PushBack(list, s)[i] = list[i]
      /\ PushBack(list, s)[Len(list) + 1].sub = s
  BY PushBackProperties
<1>2. Len(list) \in Nat
  BY LenProperties
<1> HIDE DEF PushBack
<1>3. PICK i \in 1..(Len(list) + 1), j \in 1..(Len(list) + 1) :
        i # j /\ PushBack(list, s)[i].sub = r /\ PushBack(list, s)[j].sub = r
  BY <1>1 DEF OccursTwice
<1>4. CASE i \in 1..Len(list) /\ j \in 1..Len(list)
  BY <1>1, <1>3, <1>4 DEF OccursTwice
<1>5. CASE i = Len(list) + 1
  <2>1. j \in 1..Len(list)
    BY <1>2, <1>3, <1>5
  <2> QED
    BY <1>1, <1>3, <1>5, <2>1 DEF Occurs
<1>6. CASE j = Len(list) + 1
  <2>1. i \in 1..Len(list)
    BY <1>2, <1>3, <1>6
  <2> QED
    BY <1>1, <1>3, <1>6, <2>1 DEF Occurs
<1> QED
  BY <1>2, <1>4, <1>5, <1>6

\* A removal puts nothing in two places, and leaves nothing of a submission that
\* was in one.
LEMMA RemovePendingOnce ==
  ASSUME NEW S, NEW list \in Seq(Elements(S)), NEW s, Occurs(list, s), NEW r
  PROVE  /\ OccursTwice(RemovePending(list, s), r) => OccursTwice(list, r)
         /\ Occurs(RemovePending(list, s), s) => OccursTwice(list, s)
<1> DEFINE last == LastIndex(SubsOf(list), s)
           rest == RemovePending(list, s)
           from(k) == IF k < last THEN k ELSE k + 1
<1>1. Len(list) \in Nat
  BY LenProperties
<1>2. last \in 1..Len(list) /\ list[last].sub = s
  <2>1. /\ SubsOf(list) \in Seq(S) /\ Len(SubsOf(list)) = Len(list)
        /\ \A i \in 1..Len(list) : SubsOf(list)[i] = list[i].sub
    BY SubsOfType
  <2>2. \E i \in 1..Len(SubsOf(list)) : SubsOf(list)[i] = s
    BY <2>1 DEF Occurs
  <2> QED
    BY <2>1, <2>2, LastIndexExists
<1>3. /\ Len(rest) = Len(list) - 1
      /\ \A k \in 1..(Len(list) - 1) :
           rest[k].sub = IF k < last THEN list[k].sub ELSE list[k + 1].sub
  <2>1. rest = [k \in 1..(Len(list) - 1) |->
                  IF k < last THEN list[k]
                  ELSE PendingRequest(list[k + 1].sub, list[k + 1].rank - 1)]
    BY DEF RemovePending
  <2>2. Len(list) - 1 \in Nat
    BY <1>1, <1>2
  <2> QED
    BY <2>1, <2>2 DEF PendingRequest
<1> HIDE DEF last, rest
<1>4. ASSUME NEW k \in 1..Len(rest)
      PROVE  from(k) \in 1..Len(list) /\ from(k) # last /\ rest[k].sub = list[from(k)].sub
  <2>1. CASE k < last
    BY <1>1, <1>2, <1>3, <2>1
  <2>2. CASE ~(k < last)
    BY <1>1, <1>2, <1>3, <2>2
  <2> QED
    BY <2>1, <2>2
<1>5. \A i, j \in 1..Len(rest) : i # j => from(i) # from(j)
  BY <1>1, <1>2, <1>3
<1> HIDE DEF from
<1>6. ASSUME OccursTwice(rest, r)
      PROVE  OccursTwice(list, r)
  BY <1>4, <1>5, <1>6 DEF OccursTwice
<1>7. ASSUME Occurs(rest, s)
      PROVE  OccursTwice(list, s)
  BY <1>2, <1>4, <1>7 DEF Occurs, OccursTwice
<1> QED
  BY <1>6, <1>7 DEF rest

\* What a pass has left to visit it had to visit before; what it has left of the
\* submission it has just dispatched, or in two places, it had in two places.
LEMMA TodoAfterDispatchOccurs ==
  ASSUME NEW S, NEW todo \in Seq(S), todo # <<>>, NEW indexed
  PROVE  LET s    == Head(todo)
             left == TodoAfterDispatch(todo, s, indexed)
         IN  /\ \A i \in 1..Len(left) : \E k \in 1..Len(todo) : todo[k] = left[i]
             /\ \A i \in 1..Len(left) : left[i] = s => Twice(todo, s)
             /\ \A x : Twice(left, x) => Twice(todo, x)
<1> DEFINE s == Head(todo)
           rest == Tail(todo)
           last == LastIndex(rest, s)
           left == TodoAfterDispatch(todo, s, indexed)
<1>1. /\ Len(todo) \in Nat /\ Len(todo) > 0 /\ s = todo[1]
      /\ rest \in Seq(S) /\ Len(rest) = Len(todo) - 1
      /\ \A i \in 1..Len(rest) : rest[i] = todo[i + 1]
  BY HeadTailProperties, EmptySeq, LenProperties
<1> HIDE DEF s, rest
<1>2. \A i \in 1..Len(rest) : i + 1 \in 1..Len(todo) /\ i + 1 # 1 /\ 1 \in 1..Len(todo)
  BY <1>1
<1>3. /\ \A i \in 1..Len(rest) : \E k \in 1..Len(todo) : todo[k] = rest[i]
      /\ \A i \in 1..Len(rest) : rest[i] = s => Twice(todo, s)
      /\ \A x : Twice(rest, x) => Twice(todo, x)
  <2>1. ASSUME NEW i \in 1..Len(rest), rest[i] = s
        PROVE  Twice(todo, s)
    BY <1>1, <1>2, <2>1 DEF Twice
  <2>2. ASSUME NEW x, Twice(rest, x)
        PROVE  Twice(todo, x)
    <3>1. PICK i \in 1..Len(rest), j \in 1..Len(rest) : i # j /\ rest[i] = x /\ rest[j] = x
      BY <2>2 DEF Twice
    <3>2. i + 1 # j + 1
      BY <3>1
    <3> QED
      BY <1>1, <1>2, <3>1, <3>2 DEF Twice
  <2> QED
    BY <1>1, <1>2, <2>1, <2>2
<1> SUFFICES /\ \A i \in 1..Len(left) : \E k \in 1..Len(rest) : rest[k] = left[i]
             /\ \A x : Twice(left, x) => Twice(rest, x)
  BY <1>3 DEF s
<1>4. CASE left = rest
  BY <1>4
<1>5. ASSUME left # rest
      PROVE  /\ last \in 1..Len(rest) /\ rest[last] = s
             /\ left = IF last = 1 THEN <<s>> ELSE Unlink(rest, last)
  <2>1. \E i \in 1..Len(rest) : rest[i] = s
    BY <1>5 DEF TodoAfterDispatch, rest
  <2>2. left = IF last = 1 THEN <<s>> ELSE Unlink(rest, last)
    BY <1>5 DEF TodoAfterDispatch, rest
  <2> QED
    BY <1>1, <2>1, <2>2, LastIndexExists
<1> HIDE DEF left, last
<1>6. CASE left # rest /\ last = 1
  <2>1. left = <<s>> /\ Len(left) = 1 /\ left[1] = s
    BY <1>5, <1>6
  <2>2. \A x : ~Twice(left, x)
    BY <2>1 DEF Twice
  <2> QED
    BY <1>5, <1>6, <2>1, <2>2
<1>7. CASE left # rest /\ last # 1
  <2> DEFINE from(k) == IF k < last THEN k ELSE k + 1
  <2>1. left = [k \in 1..(Len(rest) - 1) |-> IF k < last THEN rest[k] ELSE rest[k + 1]]
    BY <1>5, <1>7 DEF Unlink
  <2>2. Len(rest) \in Nat /\ Len(rest) - 1 \in Nat
    BY <1>1, <1>5, <1>7, LenProperties
  <2>3. Len(left) = Len(rest) - 1
    BY <2>1, <2>2
  <2>4. \A k \in 1..Len(left) : from(k) \in 1..Len(rest) /\ left[k] = rest[from(k)]
    BY <2>1, <2>2, <2>3
  <2>5. \A i, j \in 1..Len(left) : i # j => from(i) # from(j)
    BY <1>5, <2>2, <2>3
  <2> HIDE DEF from
  <2> QED
    BY <2>4, <2>5 DEF Twice
<1> QED
  BY <1>4, <1>6, <1>7
=============================================================================
