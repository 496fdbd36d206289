------------------------- MODULE InMemoryDedupStore -------------------------
(***************************************************************************)
(* The two InMemoryDedupStores, Python's (consumer.py 83-114) and          *)
(* TypeScript's (dedup-store.ts 51-93), under one interleaving of seen and *)
(* record, beside the history of the touches that made a key the youngest  *)
(* one.  The history is the reference: it never forgets, so "the last      *)
(* capacity distinct keys touched" can be read off it directly.            *)
(***************************************************************************)
EXTENDS DedupWindow, FiniteSets

CONSTANTS Keys,        \* idempotency keys
          Capacities,  \* the capacity arguments of the constructor
          MaxTouches   \* bound on the length of the history

\* Both constructors refuse a capacity below 1.
ASSUME CapacityAssumption == Capacities \subseteq Nat \ {0} /\ MaxTouches \in Nat

VARIABLES capacity,    \* the capacity both were constructed with
          window,      \* the keys of the OrderedDict, oldest first
          map,         \* the keys of the Map, oldest first
          touches      \* history: every hit and every record, in order

vars == <<capacity, window, map, touches>>

Init == /\ capacity \in Capacities
        /\ window = EmptyWindow
        /\ map = EmptyWindow
        /\ touches = << >>

\* seen(k).  A miss is not a touch: it leaves no trace in the store.
SeenCall(k) ==
    /\ Len(touches) < MaxTouches
    /\ window' = AfterSeen(window, k)
    /\ map' = MapAfterSeen(map, k)
    /\ touches' = IF Seen(window, k) THEN Append(touches, k) ELSE touches
    /\ UNCHANGED capacity

\* record(k).
RecordCall(k) ==
    /\ Len(touches) < MaxTouches
    /\ window' = AfterRecord(window, k, capacity)
    /\ map' = MapAfterRecord(map, k, capacity)
    /\ touches' = Append(touches, k)
    /\ UNCHANGED capacity

Next == \E k \in Keys : SeenCall(k) \/ RecordCall(k)

Spec == Init /\ [][Next]_vars
-----------------------------------------------------------------------------
\* The store holds idempotency keys, within its capacity and without repeats
\* (an OrderedDict cannot hold a key twice).
TypeOK ==
    /\ window \in Seq(Keys)
    /\ touches \in Seq(Keys)
    /\ capacity \in Capacities
    /\ Len(window) <= capacity
    /\ IsInjective(window)

TouchedKeys == ToSet(touches)

LastTouch(k) == CHOOSE i \in DOMAIN touches :
                    /\ touches[i] = k
                    /\ \A j \in DOMAIN touches : touches[j] = k => j <= i

YoungerKeys(k) == {j \in TouchedKeys : LastTouch(j) > LastTouch(k)}

\* The store holds exactly the capacity most recently touched distinct keys: a
\* key is forgotten only when capacity other keys were handled or hit since
\* its own last touch, and at capacity 1 the key just recorded stays.  "LRU
\* eviction" of consumer.py 83-114: both seen and record have to refresh the
\* age of a key for this to hold.
WindowIsMostRecent ==
    ToSet(window) = {k \in TouchedKeys : Cardinality(YoungerKeys(k)) < capacity}

\* The TypeScript store holds the same keys, of the same ages, as the Python
\* one ("mirroring the Python SDK", dedup-store.ts 21-22): the two runtimes
\* skip the same redeliveries.
RuntimesAgree == map = window
=============================================================================
