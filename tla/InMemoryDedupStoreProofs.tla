---------------------- MODULE InMemoryDedupStoreProofs ----------------------
(***************************************************************************)
(* For every capacity, every set of keys and every sequence of calls: both *)
(* InMemoryDedupStores hold the same keys, the ones touched last.          *)
(***************************************************************************)
EXTENDS InMemoryDedupStore, DedupWindowProofs, FiniteSetTheorems,
        WellFoundedInduction

-----------------------------------------------------------------------------
(***************************************************************************)
(* The history of touches.                                                 *)
(***************************************************************************)
\* LastTouch(k), of the history t.
LastAt(t, k) == CHOOSE i \in DOMAIN t :
                    t[i] = k /\ \A j \in DOMAIN t : t[j] = k => j <= i

LEMMA GreatestIndex ==
    ASSUME NEW n \in Nat, NEW I \in SUBSET (1..n), I # {}
    PROVE  \E i \in I : \A j \in I : j <= i
<1> DEFINE T == {n - i : i \in I}
<1>1. T \subseteq Nat /\ T # {}
  <2>1. \A i \in I : n - i \in Nat
    OBVIOUS
  <2>. QED BY <2>1
<1>2. PICK m \in T : \A x \in T : ~(<<x, m>> \in OpToRel(<, Nat))
  <2> HIDE DEF T
  <2>. QED BY <1>1, NatLessThanWellFounded, WFMin
<1>3. PICK i \in I : m = n - i
  BY <1>2
<1>4. ASSUME NEW j \in I PROVE j <= i
  <2>1. n - j \in T
    OBVIOUS
  <2>2. ~(n - j < n - i)
    BY <1>1, <1>2, <1>3, <2>1 DEF OpToRel
  <2>. QED BY <2>2
<1>. QED BY <1>4

LEMMA LastAtProperties ==
    ASSUME NEW S, NEW t \in Seq(S), NEW k \in ToSet(t)
    PROVE  /\ LastAt(t, k) \in 1..Len(t)
           /\ t[LastAt(t, k)] = k
           /\ \A j \in 1..Len(t) : t[j] = k => j <= LastAt(t, k)
<1> DEFINE I == {i \in 1..Len(t) : t[i] = k}
<1>1. I \in SUBSET (1..Len(t)) /\ I # {} /\ Len(t) \in Nat
  BY DEF ToSet
<1>2. PICK i \in I : \A j \in I : j <= i
  <2> HIDE DEF I
  <2>. QED BY <1>1, GreatestIndex
<1>3. \E x \in DOMAIN t : t[x] = k /\ \A j \in DOMAIN t : t[j] = k => j <= x
  BY <1>2
<1>. QED BY <1>3 DEF LastAt

\* A touch makes its key the youngest and leaves the ages of the others alone.
LEMMA LastAtAppend ==
    ASSUME NEW S, NEW t \in Seq(S), NEW k \in S
    PROVE  /\ ToSet(Append(t, k)) = ToSet(t) \cup {k}
           /\ LastAt(Append(t, k), k) = Len(t) + 1
           /\ \A j \in ToSet(t) : j # k => LastAt(Append(t, k), j) = LastAt(t, j)
<1> DEFINE u == Append(t, k)
<1>1. /\ u \in Seq(S) /\ Len(u) = Len(t) + 1 /\ u[Len(t) + 1] = k
      /\ \A i \in 1..Len(t) : u[i] = t[i]
  OBVIOUS
<1> HIDE DEF u
<1>2. ToSet(u) = ToSet(t) \cup {k}
  <2>1. k \in ToSet(u)
    BY <1>1, InToSet
  <2>2. ToSet(t) \subseteq ToSet(u)
    <3>1. \A i \in 1..Len(t) : t[i] \in ToSet(u)
      BY <1>1, InToSet
    <3>. QED BY <3>1 DEF ToSet
  <2>3. \A i \in 1..Len(u) : u[i] \in ToSet(t) \cup {k}
    BY <1>1, InToSet
  <2>4. ToSet(u) \subseteq ToSet(t) \cup {k}
    BY <1>1, <2>3 DEF ToSet
  <2>. QED BY <2>1, <2>2, <2>4
<1>3. LastAt(u, k) = Len(t) + 1
  <2>1. /\ LastAt(u, k) \in 1..Len(u)
        /\ \A j \in 1..Len(u) : u[j] = k => j <= LastAt(u, k)
    BY <1>1, <1>2, LastAtProperties
  <2>. QED BY <1>1, <2>1
<1>4. ASSUME NEW j \in ToSet(t), j # k PROVE LastAt(u, j) = LastAt(t, j)
  <2>1. /\ LastAt(u, j) \in 1..Len(u) /\ u[LastAt(u, j)] = j
        /\ \A i \in 1..Len(u) : u[i] = j => i <= LastAt(u, j)
    BY <1>1, <1>2, LastAtProperties
  <2>2. /\ LastAt(t, j) \in 1..Len(t) /\ t[LastAt(t, j)] = j
        /\ \A i \in 1..Len(t) : t[i] = j => i <= LastAt(t, j)
    BY LastAtProperties
  <2>3. LastAt(u, j) \in 1..Len(t)
    BY <1>1, <1>4, <2>1
  <2>. QED BY <1>1, <2>1, <2>2, <2>3
<1>. QED BY <1>2, <1>3, <1>4 DEF u

-----------------------------------------------------------------------------
(***************************************************************************)
(* The window w, of capacity c, after the touches t: its keys were touched *)
(* and lie in the order of their last touch, and a key that is missing was *)
(* evicted from a full window, being older than all that are left.         *)
(***************************************************************************)
Recency(w, t, c) ==
    /\ ToSet(w) \subseteq ToSet(t)
    /\ \A i, j \in 1..Len(w) : i < j => LastAt(t, w[i]) < LastAt(t, w[j])
    /\ \A k \in ToSet(t) \ ToSet(w) :
          Len(w) = c /\ \A i \in 1..Len(w) : LastAt(t, k) < LastAt(t, w[i])

LEMMA TouchKeepsRecency ==
    ASSUME NEW S, NEW w \in Seq(S), NEW v \in Seq(S), NEW t \in Seq(S), NEW k \in S,
           NEW c \in Nat \ {0}, Touched(w, v, k, c), Recency(w, t, c)
    PROVE  Recency(v, Append(t, k), c)
<1> DEFINE u == Append(t, k)
           last == Len(v)
<1>1. /\ ToSet(u) = ToSet(t) \cup {k}
      /\ LastAt(u, k) = Len(t) + 1
      /\ \A j \in ToSet(t) : j # k => LastAt(u, j) = LastAt(t, j)
  BY LastAtAppend
<1>2. \A j \in ToSet(t) : LastAt(t, j) \in 1..Len(t)
  BY LastAtProperties
<1>3. /\ ToSet(w) \subseteq ToSet(t)
      /\ \A i, j \in 1..Len(w) : i < j => LastAt(t, w[i]) < LastAt(t, w[j])
      /\ \A j \in ToSet(t) \ ToSet(w) :
            Len(w) = c /\ \A i \in 1..Len(w) : LastAt(t, j) < LastAt(t, w[i])
  BY DEF Recency
<1>4. /\ last > 0 /\ v[last] = k
      /\ \A i \in 1..(last - 1) : v[i] # k /\ v[i] \in ToSet(w)
      /\ \A i, j \in 1..(last - 1) : i < j =>
            \E a, b \in 1..Len(w) : a < b /\ w[a] = v[i] /\ w[b] = v[j]
      /\ \A a \in 1..Len(w) :
            \/ w[a] \in ToSet(v)
            \/ /\ last = c
               /\ \A i \in 1..(last - 1) : \E b \in 1..Len(w) : a < b /\ w[b] = v[i]
      /\ Len(w) = c => last = c
  BY DEF Touched
<1>5. last \in Nat /\ Len(t) \in Nat
  OBVIOUS
<1> HIDE DEF u, last
<1>6. \A i \in 1..(last - 1) : LastAt(u, v[i]) = LastAt(t, v[i])
  BY <1>1, <1>3, <1>4
<1>7. ToSet(v) \subseteq ToSet(u)
  <2>1. \A i \in 1..last : v[i] \in ToSet(u)
    <3> SUFFICES ASSUME NEW i \in 1..last PROVE v[i] \in ToSet(u)
      OBVIOUS
    <3>1. i = last \/ i \in 1..(last - 1)
      BY <1>5
    <3>. QED BY <1>1, <1>3, <1>4, <3>1
  <2>. QED BY <2>1 DEF ToSet, last
<1>8. ASSUME NEW i \in 1..last, NEW j \in 1..last, i < j
      PROVE  LastAt(u, v[i]) < LastAt(u, v[j])
  <2>1. i \in 1..(last - 1)
    BY <1>5, <1>8
  <2>2. CASE j = last
    <3>1. v[i] \in ToSet(t) /\ LastAt(t, v[i]) \in 1..Len(t)
      BY <1>2, <1>3, <1>4, <2>1
    <3>. QED BY <1>1, <1>4, <1>5, <1>6, <2>1, <2>2, <3>1
  <2>3. CASE j # last
    <3>1. j \in 1..(last - 1)
      BY <1>5, <2>3
    <3>2. LastAt(t, v[i]) < LastAt(t, v[j])
      BY <1>3, <1>4, <1>8, <2>1, <3>1
    <3>. QED BY <1>6, <2>1, <3>1, <3>2
  <2>. QED BY <2>2, <2>3
<1>9. ASSUME NEW j \in ToSet(u) \ ToSet(v)
      PROVE  last = c /\ \A i \in 1..last : LastAt(u, j) < LastAt(u, v[i])
  <2>1. k \in ToSet(v)
    <3>1. last \in 1..Len(v)
      BY <1>4, <1>5 DEF last
    <3>. QED BY <1>4, <3>1, InToSet
  <2>2. /\ j # k /\ j \in ToSet(t)
        /\ LastAt(u, j) = LastAt(t, j) /\ LastAt(t, j) \in 1..Len(t)
    BY <1>1, <1>2, <1>9, <2>1
  <2>3. last = c /\ \A i \in 1..(last - 1) : LastAt(t, j) < LastAt(t, v[i])
    <3>1. CASE j \notin ToSet(w)
      <4>1. \A x \in ToSet(w) : \E b \in 1..Len(w) : w[b] = x
        BY DEF ToSet
      <4>. QED BY <1>3, <1>4, <2>2, <3>1, <4>1
    <3>2. CASE j \in ToSet(w)
      <4>1. PICK a \in 1..Len(w) : w[a] = j
        BY <3>2 DEF ToSet
      <4>. QED BY <1>3, <1>4, <1>9, <4>1
    <3>. QED BY <3>1, <3>2
  <2>4. ASSUME NEW i \in 1..last PROVE LastAt(u, j) < LastAt(u, v[i])
    <3>1. CASE i = last
      BY <1>1, <1>4, <1>5, <2>2, <3>1
    <3>2. CASE i # last
      <4>1. i \in 1..(last - 1)
        BY <1>5, <3>2
      <4>. QED BY <1>6, <2>2, <2>3, <4>1
    <3>. QED BY <3>1, <3>2
  <2>. QED BY <2>3, <2>4
<1>. QED BY <1>7, <1>8, <1>9 DEF Recency, u, last

LEMMA WindowSize ==
    ASSUME NEW S, NEW w \in Seq(S), NoRepeats(w)
    PROVE  IsFiniteSet(ToSet(w)) /\ Cardinality(ToSet(w)) = Len(w)
<1>1. w \in Bijection(1..Len(w), ToSet(w))
  BY DEF Bijection, Injection, Surjection, IsInjective, NoRepeats, ToSet
<1>2. IsFiniteSet(1..Len(w)) /\ Cardinality(1..Len(w)) = Len(w)
  <2>1. 1 \in Int /\ Len(w) \in Int /\ Len(w) >= 0
    OBVIOUS
  <2>2. /\ IsFiniteSet(1..Len(w))
        /\ Cardinality(1..Len(w)) = IF 1 > Len(w) THEN 0 ELSE Len(w) - 1 + 1
    BY <2>1, FS_Interval
  <2>. QED BY <2>1, <2>2
<1>. QED BY <1>1, <1>2, FS_Bijection DEF ExistsBijection

LEMMA TouchedKeysFinite ==
    ASSUME NEW S, NEW t \in Seq(S)
    PROVE  IsFiniteSet(ToSet(t))
<1>1. t \in Surjection(1..Len(t), ToSet(t))
  BY DEF Surjection, ToSet
<1>2. IsFiniteSet(1..Len(t))
  BY FS_Interval
<1>. QED BY <1>1, <1>2, FS_Surjection

\* Recency is enough for the window to be the capacity youngest keys.
LEMMA RecencyIsMostRecent ==
    ASSUME NEW S, NEW w \in Seq(S), NEW t \in Seq(S), NEW c \in Nat \ {0},
           NoRepeats(w), Len(w) <= c, Recency(w, t, c)
    PROVE  ToSet(w) = {k \in ToSet(t) :
              Cardinality({j \in ToSet(t) : LastAt(t, j) > LastAt(t, k)}) < c}
<1> DEFINE Younger(k) == {j \in ToSet(t) : LastAt(t, j) > LastAt(t, k)}
<1>1. /\ ToSet(w) \subseteq ToSet(t)
      /\ \A i, j \in 1..Len(w) : i < j => LastAt(t, w[i]) < LastAt(t, w[j])
      /\ \A k \in ToSet(t) \ ToSet(w) :
            Len(w) = c /\ \A i \in 1..Len(w) : LastAt(t, k) < LastAt(t, w[i])
  BY DEF Recency
<1>2. \A j \in ToSet(t) : LastAt(t, j) \in Nat
  BY LastAtProperties
<1>3. IsFiniteSet(ToSet(w)) /\ Cardinality(ToSet(w)) = Len(w) /\ Len(w) \in Nat
  BY WindowSize
<1>4. ASSUME NEW k PROVE IsFiniteSet(Younger(k)) /\ Cardinality(Younger(k)) \in Nat
  <2>1. Younger(k) \in SUBSET ToSet(t)
    OBVIOUS
  <2>. QED BY <2>1, TouchedKeysFinite, FS_Subset, FS_CardinalityType
<1>5. ASSUME NEW k \in ToSet(w) PROVE Cardinality(Younger(k)) < c
  <2>1. PICK i \in 1..Len(w) : w[i] = k
    BY DEF ToSet
  <2>2. Younger(k) \subseteq ToSet(w)
    <3> SUFFICES ASSUME NEW j \in Younger(k), j \notin ToSet(w) PROVE FALSE
      OBVIOUS
    <3>1. LastAt(t, j) < LastAt(t, k)
      BY <1>1, <2>1
    <3>. QED BY <1>1, <1>2, <3>1
  <2>3. k \notin Younger(k)
    BY <1>1, <1>2
  <2> HIDE DEF Younger
  <2>4. /\ Cardinality(Younger(k)) <= Cardinality(ToSet(w))
        /\ Cardinality(ToSet(w)) = Cardinality(Younger(k)) => ToSet(w) = Younger(k)
    BY <1>3, <2>2, FS_Subset
  <2>. QED BY <1>3, <1>4, <2>3, <2>4
<1>6. ASSUME NEW k \in ToSet(t) \ ToSet(w) PROVE ~(Cardinality(Younger(k)) < c)
  <2>1. \A i \in 1..Len(w) : w[i] \in Younger(k)
    BY <1>1, <1>2, InToSet
  <2>2. ToSet(w) \in SUBSET Younger(k)
    BY <2>1 DEF ToSet
  <2> HIDE DEF Younger
  <2>3. Cardinality(ToSet(w)) <= Cardinality(Younger(k))
    BY <1>4, <2>2, FS_Subset
  <2>4. Len(w) = c
    BY <1>1
  <2>. QED BY <1>3, <1>4, <2>3, <2>4
<1> HIDE DEF Younger
<1>7. ToSet(w) = {k \in ToSet(t) : Cardinality(Younger(k)) < c}
  BY <1>1, <1>5, <1>6
<1>. QED BY <1>7 DEF Younger

-----------------------------------------------------------------------------
(***************************************************************************)
(* The two stores.                                                         *)
(***************************************************************************)
DedupInv == TypeOK /\ RuntimesAgree /\ Recency(window, touches, capacity)

LEMMA TypeOKNoRepeats ==
    ASSUME TypeOK
    PROVE  NoRepeats(window) /\ capacity \in Nat \ {0}
BY CapacityAssumption DEF TypeOK, IsInjective, NoRepeats

LEMMA SeenStep ==
    ASSUME DedupInv, NEW k \in Keys, SeenCall(k)
    PROVE  DedupInv'
<1>1. /\ window \in Seq(Keys) /\ touches \in Seq(Keys) /\ NoRepeats(window)
      /\ capacity \in Nat \ {0} /\ Len(window) <= capacity
  BY TypeOKNoRepeats DEF DedupInv, TypeOK
<1>2. /\ window' = AfterSeen(window, k) /\ map' = MapAfterSeen(window, k)
      /\ capacity' = capacity
      /\ touches' = IF Seen(window, k) THEN Append(touches, k) ELSE touches
  BY DEF SeenCall, DedupInv, RuntimesAgree
<1>3. /\ window' \in Seq(Keys) /\ Len(window') = Len(window) /\ NoRepeats(window')
      /\ touches' \in Seq(Keys)
  BY <1>1, <1>2, AfterSeenProperties
<1>4. TypeOK'
  BY <1>1, <1>2, <1>3 DEF DedupInv, TypeOK, IsInjective, NoRepeats
<1>5. RuntimesAgree'
  BY <1>1, <1>2, MapAgrees DEF RuntimesAgree
<1>6. Recency(window', touches', capacity')
  <2>1. CASE Seen(window, k)
    <3>1. Touched(window, window', k, capacity)
      BY <1>1, <1>2, <2>1, SeenTouches
    <3>. QED BY <1>1, <1>2, <1>3, <2>1, <3>1, TouchKeepsRecency DEF DedupInv
  <2>2. CASE ~Seen(window, k)
    BY <1>2, <2>2 DEF DedupInv, AfterSeen
  <2>. QED BY <2>1, <2>2
<1>. QED BY <1>4, <1>5, <1>6 DEF DedupInv

LEMMA RecordStep ==
    ASSUME DedupInv, NEW k \in Keys, RecordCall(k)
    PROVE  DedupInv'
<1>1. /\ window \in Seq(Keys) /\ touches \in Seq(Keys) /\ NoRepeats(window)
      /\ capacity \in Nat \ {0} /\ Len(window) <= capacity
  BY TypeOKNoRepeats DEF DedupInv, TypeOK
<1>2. /\ window' = AfterRecord(window, k, capacity)
      /\ map' = MapAfterRecord(window, k, capacity)
      /\ capacity' = capacity /\ touches' = Append(touches, k)
  BY DEF RecordCall, DedupInv, RuntimesAgree
<1>3. /\ window' \in Seq(Keys) /\ Len(window') <= capacity /\ NoRepeats(window')
      /\ touches' \in Seq(Keys)
  BY <1>1, <1>2, AfterRecordProperties
<1>4. TypeOK'
  BY <1>1, <1>2, <1>3 DEF DedupInv, TypeOK, IsInjective, NoRepeats
<1>5. RuntimesAgree'
  BY <1>1, <1>2, MapAgrees DEF RuntimesAgree
<1>6. Recency(window', touches', capacity')
  <2>1. Touched(window, window', k, capacity)
    BY <1>1, <1>2, RecordTouches
  <2>. QED BY <1>1, <1>2, <1>3, <2>1, TouchKeepsRecency DEF DedupInv
<1>. QED BY <1>4, <1>5, <1>6 DEF DedupInv

LEMMA DedupInvInductive == Spec => []DedupInv
<1>1. Init => DedupInv
  <2> SUFFICES ASSUME Init PROVE DedupInv
    OBVIOUS
  <2>1. window = << >> /\ map = << >> /\ touches = << >> /\ capacity \in Nat \ {0}
    BY CapacityAssumption DEF Init, EmptyWindow
  <2>2. TypeOK
    BY <2>1 DEF Init, TypeOK, IsInjective
  <2>3. Recency(window, touches, capacity)
    BY <2>1 DEF Recency, ToSet
  <2>. QED BY <2>1, <2>2, <2>3 DEF DedupInv, RuntimesAgree
<1>2. DedupInv /\ [Next]_vars => DedupInv'
  <2>1. CASE UNCHANGED vars
    BY <2>1 DEF vars, DedupInv, TypeOK, RuntimesAgree
  <2>. QED BY <2>1, SeenStep, RecordStep DEF Next
<1>. QED BY <1>1, <1>2, PTL DEF Spec

\* The store never exceeds its capacity and never holds a key twice, whatever
\* is asked of it or recorded in it, in whatever order.
THEOREM DedupTypeCorrect == Spec => []TypeOK
<1>1. DedupInv => TypeOK
  BY DEF DedupInv
<1>. QED BY <1>1, DedupInvInductive, PTL

\* The Map of dedup-store.ts is in step with the OrderedDict of consumer.py.
THEOREM RuntimesStayInStep == Spec => []RuntimesAgree
<1>1. DedupInv => RuntimesAgree
  BY DEF DedupInv
<1>. QED BY <1>1, DedupInvInductive, PTL

\* For every capacity and every history: the store is exactly the capacity keys
\* touched last.
THEOREM WindowIsLeastRecentlyUsed == Spec => []WindowIsMostRecent
<1>1. DedupInv => WindowIsMostRecent
  <2> SUFFICES ASSUME DedupInv PROVE WindowIsMostRecent
    OBVIOUS
  <2>1. /\ window \in Seq(Keys) /\ touches \in Seq(Keys) /\ NoRepeats(window)
        /\ capacity \in Nat \ {0} /\ Len(window) <= capacity
        /\ Recency(window, touches, capacity)
    BY TypeOKNoRepeats DEF DedupInv, TypeOK
  <2>2. \A k : LastTouch(k) = LastAt(touches, k)
    BY DEF LastTouch, LastAt
  <2>3. ToSet(window) = {k \in ToSet(touches) :
           Cardinality({j \in ToSet(touches) :
                           LastAt(touches, j) > LastAt(touches, k)}) < capacity}
    BY <2>1, RecencyIsMostRecent
  <2>. QED BY <2>2, <2>3 DEF WindowIsMostRecent, YoungerKeys, TouchedKeys
<1>. QED BY <1>1, DedupInvInductive, PTL
=============================================================================
