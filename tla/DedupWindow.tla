---------------------------- MODULE DedupWindow ----------------------------
(***************************************************************************)
(* The data structure of InMemoryDedupStore: in Python (consumer.py) an    *)
(* OrderedDict of idempotency keys, in TypeScript (dedup-store.ts) a Map,  *)
(* here the sequence of its keys, oldest first.  A key occurs at most once *)
(* in a window.                                                            *)
(***************************************************************************)
EXTENDS Integers, Sequences, SequencesExt

EmptyWindow == << >>

\* What seen(k) answers.
Seen(window, k) == Contains(window, k)

\* OrderedDict.move_to_end(k) for a key that is present.
MoveToEnd(window, k) ==
    LET at == CHOOSE i \in 1..Len(window) : window[i] = k
    IN  Append(RemoveAt(window, at), k)

\* Seeded fault: a hit does not refresh the age of the key.
SeenWithoutRefresh(window, k) == window

\* The window after seen(k): a hit makes k the youngest key, a miss changes
\* nothing.
AfterSeen(window, k) ==
    IF Seen(window, k) THEN MoveToEnd(window, k) ELSE window

\* Seeded fault: nothing is ever evicted.
NeverEvict(window, capacity) == window

\* popitem(last=False) until at most capacity keys are left.
EvictOldest(window, capacity) ==
    IF Len(window) > capacity
    THEN SubSeq(window, Len(window) - capacity + 1, Len(window))
    ELSE window

\* The window after record(k).
AfterRecord(window, k, capacity) ==
    EvictOldest(IF Seen(window, k) THEN MoveToEnd(window, k) ELSE Append(window, k),
                capacity)

\* A Map lists its keys in the order of their insertion; set() of a key that is
\* present keeps its place, hence delete() first.
MapDelete(window, k) == RemoveFirst(window, k)

\* Seeded fault: a hit sets the key without deleting it first.
MapSetOnly(window, k) ==
    IF Seen(window, k) THEN window ELSE Append(window, k)

\* delete, then set: k becomes the last key.
MapTouch(window, k) == Append(MapDelete(window, k), k)

\* The Map after seen(k) and after record(k).
MapAfterSeen(window, k) == IF Seen(window, k) THEN MapTouch(window, k) ELSE window

MapAfterRecord(window, k, capacity) == EvictOldest(MapTouch(window, k), capacity)
=============================================================================
