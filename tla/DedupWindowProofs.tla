-------------------------- MODULE DedupWindowProofs --------------------------
(***************************************************************************)
(* What the operations of an InMemoryDedupStore do to its window, for      *)
(* every window, key and capacity.                                         *)
(***************************************************************************)
EXTENDS DedupWindow, SequenceTheorems, TLAPS

\* An OrderedDict has each key once.
NoRepeats(w) == \A i, j \in 1..Len(w) : w[i] = w[j] => i = j

\* The key that popitem reaches last.
Youngest(w) == w[Len(w)]

\* RemoveAt drops one element and nothing else (SequencesExt's definition
\* restated by index).
LEMMA RemoveAtProperties ==
    ASSUME NEW S, NEW s \in Seq(S), NEW n \in 1..Len(s)
    PROVE  /\ RemoveAt(s, n) \in Seq(S)
           /\ Len(RemoveAt(s, n)) = Len(s) - 1
           /\ \A i \in 1..(Len(s) - 1) :
                 RemoveAt(s, n)[i] = IF i < n THEN s[i] ELSE s[i + 1]
<1> DEFINE front == SubSeq(s, 1, n - 1)
           back  == SubSeq(s, n + 1, Len(s))
<1>1. /\ front \in Seq(S)
      /\ Len(front) = n - 1
      /\ \A i \in 1..(n - 1) : front[i] = s[i]
  <2>1. \A i \in 1..(n - 1) : s[i] \in S
    BY ElementOfSeq
  <2>. QED BY <2>1, SubSeqProperties
<1>2. /\ back \in Seq(S)
      /\ Len(back) = Len(s) - n
      /\ \A i \in 1..(Len(s) - n) : back[i] = s[n + i]
  <2>1. \A i \in (n + 1)..Len(s) : s[i] \in S
    BY ElementOfSeq
  <2>. QED BY <2>1, SubSeqProperties
<1>3. RemoveAt(s, n) = front \o back
  BY DEF RemoveAt
<1> HIDE DEF front, back
<1>4. /\ front \o back \in Seq(S)
      /\ Len(front \o back) = Len(front) + Len(back)
      /\ \A i \in 1..(Len(front) + Len(back)) :
            (front \o back)[i] = IF i <= Len(front) THEN front[i]
                                 ELSE back[i - Len(front)]
  BY <1>1, <1>2, ConcatProperties
<1>5. Len(front) + Len(back) = Len(s) - 1
  BY <1>1, <1>2
<1>6. ASSUME NEW i \in 1..(Len(s) - 1)
      PROVE  (front \o back)[i] = IF i < n THEN s[i] ELSE s[i + 1]
  <2>1. (front \o back)[i] = IF i <= n - 1 THEN front[i] ELSE back[i - (n - 1)]
    BY <1>1, <1>4, <1>5
  <2>2. CASE i < n
    BY <2>1, <2>2, <1>1
  <2>3. CASE ~(i < n)
    <3>1. i - (n - 1) \in 1..(Len(s) - n) /\ n + (i - (n - 1)) = i + 1
      BY <2>3
    <3>2. back[i - (n - 1)] = s[n + (i - (n - 1))]
      BY <3>1, <1>2
    <3>. QED BY <2>1, <2>3, <3>1, <3>2
  <2>. QED BY <2>2, <2>3
<1>. QED BY <1>3, <1>4, <1>5, <1>6

\* A key moved to the end stays in the window, and so does every other key.
LEMMA MoveToEndProperties ==
    ASSUME NEW S, NEW w \in Seq(S), NEW k \in S, Seen(w, k)
    PROVE  /\ MoveToEnd(w, k) \in Seq(S)
           /\ Len(MoveToEnd(w, k)) = Len(w)
           /\ ToSet(MoveToEnd(w, k)) \subseteq ToSet(w)
           /\ Len(w) > 0 /\ Youngest(MoveToEnd(w, k)) = k
           /\ NoRepeats(w) => NoRepeats(MoveToEnd(w, k))
<1> DEFINE at == CHOOSE i \in 1..Len(w) : w[i] = k
           rest == RemoveAt(w, at)
<1>1. at \in 1..Len(w) /\ w[at] = k
  BY DEF Seen, Contains
<1>2. MoveToEnd(w, k) = Append(rest, k)
  BY DEF MoveToEnd
<1> HIDE DEF at
<1>3. /\ rest \in Seq(S)
      /\ Len(rest) = Len(w) - 1
      /\ \A i \in 1..(Len(w) - 1) : rest[i] = IF i < at THEN w[i] ELSE w[i + 1]
  BY <1>1, RemoveAtProperties
<1>4. \A i \in 1..(Len(w) - 1) : rest[i] \in ToSet(w)
  BY <1>1, <1>3 DEF ToSet
<1>5. k \in ToSet(w)
  BY <1>1 DEF ToSet
<1> HIDE DEF rest
<1>6. /\ Len(Append(rest, k)) = Len(w)
      /\ Append(rest, k)[Len(w)] = k
      /\ \A i \in 1..(Len(w) - 1) : Append(rest, k)[i] = rest[i]
  BY <1>1, <1>3
<1>7. ASSUME NoRepeats(w)
      PROVE  NoRepeats(Append(rest, k))
  <2>1. \A i \in 1..(Len(w) - 1) : rest[i] # k
    BY <1>1, <1>3, <1>7 DEF NoRepeats
  <2>2. ASSUME NEW i \in 1..(Len(w) - 1), NEW j \in 1..(Len(w) - 1), rest[i] = rest[j]
        PROVE  i = j
    BY <1>1, <1>3, <1>7, <2>2 DEF NoRepeats
  <2>. QED BY <1>1, <1>6, <2>1, <2>2 DEF NoRepeats
<1>. QED BY <1>1, <1>2, <1>3, <1>4, <1>5, <1>6, <1>7 DEF ToSet, Youngest

\* seen(k) never adds a key, never changes the number of keys and repeats none.
LEMMA AfterSeenProperties ==
    ASSUME NEW S, NEW w \in Seq(S), NEW k \in S
    PROVE  /\ AfterSeen(w, k) \in Seq(S)
           /\ Len(AfterSeen(w, k)) = Len(w)
           /\ ToSet(AfterSeen(w, k)) \subseteq ToSet(w)
           /\ NoRepeats(w) => NoRepeats(AfterSeen(w, k))
BY MoveToEndProperties DEF AfterSeen

\* Eviction takes the oldest keys: it keeps the youngest one and the order.
LEMMA EvictOldestProperties ==
    ASSUME NEW S, NEW w \in Seq(S), NEW capacity \in Nat \ {0}
    PROVE  /\ EvictOldest(w, capacity) \in Seq(S)
           /\ Len(EvictOldest(w, capacity)) <= capacity
           /\ ToSet(EvictOldest(w, capacity)) \subseteq ToSet(w)
           /\ Len(w) > 0 => Youngest(EvictOldest(w, capacity)) = Youngest(w)
           /\ NoRepeats(w) => NoRepeats(EvictOldest(w, capacity))
<1>1. CASE Len(w) > capacity
  <2> DEFINE from == Len(w) - capacity + 1
             kept == SubSeq(w, from, Len(w))
  <2>1. \A i \in from..Len(w) : w[i] \in S /\ w[i] \in ToSet(w)
    BY <1>1, ElementOfSeq DEF ToSet
  <2>2. /\ kept \in Seq(S)
        /\ Len(kept) = capacity
        /\ \A i \in 1..capacity : kept[i] = w[from + i - 1]
    BY <1>1, <2>1, SubSeqProperties
  <2>3. EvictOldest(w, capacity) = kept
    BY <1>1 DEF EvictOldest
  <2> HIDE DEF kept
  <2>4. \A i \in 1..capacity : kept[i] \in ToSet(w)
    BY <1>1, <2>1, <2>2
  <2>5. Youngest(kept) = Youngest(w)
    <3>1. from + capacity - 1 = Len(w)
      BY <1>1
    <3>. QED BY <2>2, <3>1 DEF Youngest
  <2>6. NoRepeats(w) => NoRepeats(kept)
    <3> SUFFICES ASSUME NoRepeats(w), NEW i \in 1..capacity, NEW j \in 1..capacity,
                        kept[i] = kept[j]
                 PROVE  i = j
      BY <2>2 DEF NoRepeats
    <3>1. from + i - 1 \in 1..Len(w) /\ from + j - 1 \in 1..Len(w)
      BY <1>1
    <3>2. from + i - 1 = from + j - 1
      BY <2>2, <3>1 DEF NoRepeats
    <3>. QED BY <1>1, <3>2
  <2>. QED BY <2>2, <2>3, <2>4, <2>5, <2>6 DEF ToSet
<1>2. CASE ~(Len(w) > capacity)
  BY <1>2 DEF EvictOldest
<1>. QED BY <1>1, <1>2

\* record(k) (consumer.py 109-114) adds no key but k, leaves at most capacity
\* keys and none twice, and keeps k itself as the youngest key, also when
\* capacity is 1.
THEOREM AfterRecordProperties ==
    ASSUME NEW S, NEW w \in Seq(S), NEW k \in S, NEW capacity \in Nat \ {0}
    PROVE  /\ AfterRecord(w, k, capacity) \in Seq(S)
           /\ Len(AfterRecord(w, k, capacity)) <= capacity
           /\ ToSet(AfterRecord(w, k, capacity)) \subseteq ToSet(w) \cup {k}
           /\ Youngest(AfterRecord(w, k, capacity)) = k
           /\ NoRepeats(w) => NoRepeats(AfterRecord(w, k, capacity))
<1> DEFINE grown == IF Seen(w, k) THEN MoveToEnd(w, k) ELSE Append(w, k)
<1>1. /\ grown \in Seq(S) /\ ToSet(grown) \subseteq ToSet(w) \cup {k}
      /\ Len(grown) > 0 /\ Youngest(grown) = k
      /\ NoRepeats(w) => NoRepeats(grown)
  <2>1. CASE Seen(w, k)
    BY <2>1, MoveToEndProperties
  <2>2. CASE ~Seen(w, k)
    <3>1. /\ Append(w, k) \in Seq(S)
          /\ Len(Append(w, k)) = Len(w) + 1
          /\ Append(w, k)[Len(w) + 1] = k
          /\ \A i \in 1..Len(w) : Append(w, k)[i] = w[i]
      OBVIOUS
    <3>2. \A i \in 1..Len(w) : w[i] # k
      BY <2>2 DEF Seen, Contains
    <3>3. ToSet(Append(w, k)) \subseteq ToSet(w) \cup {k}
      BY <3>1 DEF ToSet
    <3>4. NoRepeats(w) => NoRepeats(Append(w, k))
      BY <3>1, <3>2 DEF NoRepeats
    <3>. QED BY <2>2, <3>1, <3>3, <3>4 DEF Youngest
  <2>. QED BY <2>1, <2>2
<1>2. AfterRecord(w, k, capacity) = EvictOldest(grown, capacity)
  BY DEF AfterRecord
<1> HIDE DEF grown
<1>. QED BY <1>1, <1>2, EvictOldestProperties

\* Moving a key to the end forgets none.
LEMMA MoveToEndForgetsNothing ==
    ASSUME NEW S, NEW w \in Seq(S), NEW k \in S, Seen(w, k)
    PROVE  ToSet(w) \subseteq ToSet(MoveToEnd(w, k))
<1> DEFINE at == CHOOSE i \in 1..Len(w) : w[i] = k
           rest == RemoveAt(w, at)
<1>1. at \in 1..Len(w) /\ w[at] = k
  BY DEF Seen, Contains
<1>2. MoveToEnd(w, k) = Append(rest, k)
  BY DEF MoveToEnd
<1> HIDE DEF at
<1>3. /\ rest \in Seq(S)
      /\ Len(rest) = Len(w) - 1
      /\ \A i \in 1..(Len(w) - 1) : rest[i] = IF i < at THEN w[i] ELSE w[i + 1]
  BY <1>1, RemoveAtProperties
<1> HIDE DEF rest
<1>4. /\ Len(Append(rest, k)) = Len(w)
      /\ Append(rest, k)[Len(w)] = k
      /\ \A i \in 1..(Len(w) - 1) : Append(rest, k)[i] = rest[i]
  BY <1>1, <1>3
<1>5. ASSUME NEW i \in 1..Len(w)
      PROVE  \E j \in 1..Len(w) : Append(rest, k)[j] = w[i]
  <2>1. CASE i < at
    BY <1>1, <1>3, <1>4, <2>1
  <2>2. CASE i = at
    <3>1. Len(w) \in 1..Len(w)
      BY <1>1
    <3>. QED BY <1>1, <1>4, <2>2, <3>1
  <2>3. CASE i > at
    <3>1. i - 1 \in 1..(Len(w) - 1) /\ ~(i - 1 < at) /\ (i - 1) + 1 = i
      BY <1>1, <2>3
    <3>. QED BY <1>3, <1>4, <3>1
  <2>4. i < at \/ i = at \/ i > at
    BY <1>1
  <2>. QED BY <2>1, <2>2, <2>3, <2>4
<1>6. \A i \in 1..Len(w) : \E j \in 1..Len(Append(rest, k)) : Append(rest, k)[j] = w[i]
  BY <1>4, <1>5
<1>. QED BY <1>2, <1>6 DEF ToSet

LEMMA AfterSeenForgetsNothing ==
    ASSUME NEW S, NEW w \in Seq(S), NEW k \in S
    PROVE  ToSet(w) \subseteq ToSet(AfterSeen(w, k))
BY MoveToEndForgetsNothing DEF AfterSeen

\* record(k) forgets a key only when that leaves the window full, and a full
\* window stays full.
LEMMA AfterRecordForgetsWhenFull ==
    ASSUME NEW S, NEW w \in Seq(S), NEW k \in S, NEW capacity \in Nat \ {0},
           Len(w) <= capacity
    PROVE  /\ \/ ToSet(w) \cup {k} \subseteq ToSet(AfterRecord(w, k, capacity))
              \/ Len(AfterRecord(w, k, capacity)) = capacity
           /\ Len(w) = capacity => Len(AfterRecord(w, k, capacity)) = capacity
<1>1. CASE Seen(w, k)
  <2>1. AfterRecord(w, k, capacity) = MoveToEnd(w, k)
    BY <1>1, MoveToEndProperties DEF AfterRecord, EvictOldest
  <2>2. k \in ToSet(w)
    BY <1>1 DEF Seen, Contains, ToSet
  <2>. QED BY <1>1, <2>1, <2>2, MoveToEndProperties, MoveToEndForgetsNothing
<1>2. CASE ~Seen(w, k)
  <2> DEFINE grown == Append(w, k)
  <2>1. /\ grown \in Seq(S) /\ Len(grown) = Len(w) + 1
        /\ grown[Len(w) + 1] = k
        /\ \A i \in 1..Len(w) : grown[i] = w[i]
    OBVIOUS
  <2>2. ToSet(w) \cup {k} \subseteq ToSet(grown)
    BY <2>1 DEF ToSet
  <2>3. AfterRecord(w, k, capacity) = EvictOldest(grown, capacity)
    BY <1>2 DEF AfterRecord
  <2> HIDE DEF grown
  <2>4. CASE Len(w) < capacity
    <3>1. EvictOldest(grown, capacity) = grown
      BY <2>1, <2>4 DEF EvictOldest
    <3>. QED BY <2>2, <2>3, <2>4, <3>1
  <2>5. CASE Len(w) = capacity
    <3>1. /\ EvictOldest(grown, capacity) = SubSeq(grown, 2, Len(grown))
          /\ Len(grown) = capacity + 1
      BY <2>1, <2>5 DEF EvictOldest
    <3>2. \A i \in 2..Len(grown) : grown[i] \in S
      BY <2>1, ElementOfSeq
    <3>3. Len(SubSeq(grown, 2, Len(grown))) = capacity
      BY <2>1, <3>1, <3>2, SubSeqProperties
    <3>. QED BY <2>3, <3>1, <3>3
  <2>. QED BY <2>4, <2>5
<1>. QED BY <1>1, <1>2

-----------------------------------------------------------------------------
(***************************************************************************)
(* The order of the keys after a touch.                                    *)
(***************************************************************************)
\* v is w after k was touched, at a capacity: k is the youngest key, the other
\* keys are keys of w in their order, and a key of w is missing only when it was
\* older than all that stayed and v is full.
Touched(w, v, k, capacity) ==
    /\ Len(v) > 0 /\ v[Len(v)] = k
    /\ \A i \in 1..(Len(v) - 1) : v[i] # k /\ v[i] \in ToSet(w)
    /\ \A i, j \in 1..(Len(v) - 1) : i < j =>
          \E a, b \in 1..Len(w) : a < b /\ w[a] = v[i] /\ w[b] = v[j]
    /\ \A a \in 1..Len(w) :
          \/ w[a] \in ToSet(v)
          \/ /\ Len(v) = capacity
             /\ \A i \in 1..(Len(v) - 1) : \E b \in 1..Len(w) : a < b /\ w[b] = v[i]
    /\ Len(w) = capacity => Len(v) = capacity

LEMMA InToSet ==
    ASSUME NEW S, NEW s \in Seq(S), NEW i \in 1..Len(s)
    PROVE  s[i] \in ToSet(s)
BY DEF ToSet

LEMMA MoveToEndTouches ==
    ASSUME NEW S, NEW w \in Seq(S), NEW k \in S, NEW capacity \in Nat \ {0},
           NoRepeats(w), Seen(w, k)
    PROVE  Touched(w, MoveToEnd(w, k), k, capacity)
<1> DEFINE at == CHOOSE i \in 1..Len(w) : w[i] = k
           rest == RemoveAt(w, at)
           v == MoveToEnd(w, k)
<1>1. at \in 1..Len(w) /\ w[at] = k
  BY DEF Seen, Contains
<1>2. v = Append(rest, k)
  BY DEF MoveToEnd
<1> HIDE DEF at
<1>3. /\ rest \in Seq(S)
      /\ Len(rest) = Len(w) - 1
      /\ \A i \in 1..(Len(w) - 1) : rest[i] = IF i < at THEN w[i] ELSE w[i + 1]
  BY <1>1, RemoveAtProperties
<1> HIDE DEF rest
<1>4. /\ Len(v) = Len(w) /\ v[Len(w)] = k
      /\ \A i \in 1..(Len(w) - 1) : v[i] = IF i < at THEN w[i] ELSE w[i + 1]
      /\ v \in Seq(S)
  BY <1>1, <1>2, <1>3
<1>5. ToSet(w) \subseteq ToSet(v)
  BY MoveToEndForgetsNothing
<1> HIDE DEF v
<1>6. \A i \in 1..(Len(v) - 1) : v[i] # k /\ v[i] \in ToSet(w)
  BY <1>1, <1>4 DEF NoRepeats, ToSet
<1>7. ASSUME NEW i \in 1..(Len(v) - 1), NEW j \in 1..(Len(v) - 1), i < j
      PROVE  \E a, b \in 1..Len(w) : a < b /\ w[a] = v[i] /\ w[b] = v[j]
  BY <1>1, <1>4, <1>7
<1>8. \A a \in 1..Len(w) : w[a] \in ToSet(v)
  BY <1>5, InToSet
<1>. QED BY <1>1, <1>4, <1>6, <1>7, <1>8 DEF Touched, v

LEMMA RecordNewTouches ==
    ASSUME NEW S, NEW w \in Seq(S), NEW k \in S, NEW capacity \in Nat \ {0},
           NoRepeats(w), ~Seen(w, k), Len(w) <= capacity
    PROVE  Touched(w, EvictOldest(Append(w, k), capacity), k, capacity)
<1> DEFINE grown == Append(w, k)
           v == EvictOldest(grown, capacity)
<1>1. /\ grown \in Seq(S) /\ Len(grown) = Len(w) + 1
      /\ grown[Len(w) + 1] = k
      /\ \A i \in 1..Len(w) : grown[i] = w[i]
  OBVIOUS
<1>2. \A i \in 1..Len(w) : w[i] # k /\ w[i] \in ToSet(w)
  BY DEF Seen, Contains, ToSet
<1> HIDE DEF grown
<1>3. CASE Len(w) < capacity
  <2>1. v = grown
    BY <1>1, <1>3 DEF EvictOldest
  <2> HIDE DEF v
  <2>2. \A a \in 1..Len(w) : w[a] \in ToSet(v)
    BY <1>1, <2>1 DEF ToSet
  <2>. QED BY <1>1, <1>2, <1>3, <2>1, <2>2 DEF Touched, v, grown
<1>4. CASE Len(w) = capacity
  <2>1. v = SubSeq(grown, 2, Len(grown)) /\ Len(grown) = capacity + 1
    BY <1>1, <1>4 DEF EvictOldest
  <2>2. \A i \in 2..Len(grown) : grown[i] \in S
    BY <1>1, ElementOfSeq
  <2>3. /\ v \in Seq(S) /\ Len(v) = capacity
        /\ \A i \in 1..capacity : v[i] = grown[i + 1]
    BY <2>1, <2>2, <1>1, SubSeqProperties
  <2> HIDE DEF v
  <2>4. v[capacity] = k /\ \A i \in 1..(capacity - 1) : v[i] = w[i + 1]
    BY <1>1, <1>4, <2>3
  <2>5. ASSUME NEW a \in 1..Len(w)
        PROVE  \/ w[a] \in ToSet(v)
               \/ \A i \in 1..(capacity - 1) : \E b \in 1..Len(w) : a < b /\ w[b] = v[i]
    <3>1. CASE a = 1
      BY <1>4, <2>4, <3>1
    <3>2. CASE a # 1
      <4>1. a - 1 \in 1..(capacity - 1) /\ a - 1 \in 1..Len(v) /\ v[a - 1] = w[a]
        BY <1>4, <2>3, <2>4, <3>2
      <4>2. v[a - 1] \in ToSet(v)
        BY <2>3, <4>1, InToSet
      <4>. QED BY <4>1, <4>2
    <3>. QED BY <3>1, <3>2
  <2>. QED BY <1>2, <1>4, <2>3, <2>4, <2>5 DEF Touched, v, grown
<1>. QED BY <1>3, <1>4

\* A hit and a record touch the key, within any capacity.
LEMMA SeenTouches ==
    ASSUME NEW S, NEW w \in Seq(S), NEW k \in S, NEW capacity \in Nat \ {0},
           NoRepeats(w), Seen(w, k)
    PROVE  Touched(w, AfterSeen(w, k), k, capacity)
BY MoveToEndTouches DEF AfterSeen

LEMMA RecordTouches ==
    ASSUME NEW S, NEW w \in Seq(S), NEW k \in S, NEW capacity \in Nat \ {0},
           NoRepeats(w), Len(w) <= capacity
    PROVE  Touched(w, AfterRecord(w, k, capacity), k, capacity)
<1>1. CASE Seen(w, k)
  <2>1. AfterRecord(w, k, capacity) = MoveToEnd(w, k)
    BY <1>1, MoveToEndProperties DEF AfterRecord, EvictOldest
  <2>. QED BY <1>1, <2>1, MoveToEndTouches
<1>2. CASE ~Seen(w, k)
  BY <1>2, RecordNewTouches DEF AfterRecord
<1>. QED BY <1>1, <1>2

\* delete() and set() on a Map (dedup-store.ts) come to what move_to_end does to
\* an OrderedDict, because the key occurs once.
LEMMA MapTouchIsMoveToEnd ==
    ASSUME NEW S, NEW w \in Seq(S), NEW k \in S, NoRepeats(w)
    PROVE  MapTouch(w, k) = IF Seen(w, k) THEN MoveToEnd(w, k) ELSE Append(w, k)
<1>1. CASE Seen(w, k)
  <2> DEFINE at == CHOOSE i \in 1..Len(w) : w[i] = k
             first == SelectInSeq(w, LAMBDA v : v = k)
             I == {i \in 1..Len(w) : w[i] = k}
  <2>1. at \in 1..Len(w) /\ w[at] = k
    BY <1>1 DEF Seen, Contains
  <2>2. I = {at}
    BY <2>1 DEF NoRepeats
  <2> HIDE DEF at
  <2>3. first = at
    <3>1. first = Min(I)
      BY <2>2 DEF SelectInSeq
    <3>2. Min({at}) = at
      BY <2>1 DEF Min
    <3>. QED BY <2>2, <3>1, <3>2
  <2>4. MapDelete(w, k) = RemoveAt(w, at)
    BY <2>1, <2>3 DEF MapDelete, RemoveFirst
  <2>. QED BY <1>1, <2>4 DEF MapTouch, MoveToEnd, at
<1>2. CASE ~Seen(w, k)
  BY <1>2 DEF MapTouch, MapDelete, RemoveFirst, Seen, Contains
<1>. QED BY <1>1, <1>2

\* In both runtimes seen and record leave the same window.
LEMMA MapAgrees ==
    ASSUME NEW S, NEW w \in Seq(S), NEW k \in S, NEW capacity, NoRepeats(w)
    PROVE  /\ MapAfterSeen(w, k) = AfterSeen(w, k)
           /\ MapAfterRecord(w, k, capacity) = AfterRecord(w, k, capacity)
BY MapTouchIsMoveToEnd DEF MapAfterSeen, AfterSeen, MapAfterRecord, AfterRecord
=============================================================================
