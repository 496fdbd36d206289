------------------------ MODULE AtLeastOnceDelivery ------------------------
(***************************************************************************)
(* What the consumer side of the event bus promises one consumer group     *)
(* (consumer.py 33-36, 198-200): in every partition the events are handled *)
(* and passed one after the other; an event is passed -- its offset is     *)
(* committed -- only once it was handled; an event that cannot be handled  *)
(* is never passed.  Consumers, crashes and rebalances do not appear.      *)
(***************************************************************************)
EXTENDS EventTopic

VARIABLES log,         \* log[p]: the events of partition p
          handled,     \* the keys some handler has completed
          committed    \* committed[p]: how many events of p the group has passed

vars == <<log, handled, committed>>

Init == /\ log = [p \in Partitions |-> << >>]
        /\ handled = {}
        /\ committed = [p \in Partitions |-> 0]

\* The next event of p that the group has not passed, when there is one.
HasNext(p) == committed[p] < Len(log[p])
NextEvent(p) == log[p][committed[p] + 1]

Publish(p, e) ==
    /\ Len(log[p]) < MaxLog
    /\ log' = [log EXCEPT ![p] = Append(@, e)]
    /\ UNCHANGED <<handled, committed>>

Handle(p) ==
    /\ HasNext(p)
    /\ IsValid(NextEvent(p))
    /\ handled' = handled \cup {NextEvent(p).key}
    /\ UNCHANGED <<log, committed>>

Pass(p) ==
    /\ HasNext(p)
    /\ IsValid(NextEvent(p))
    /\ NextEvent(p).key \in handled
    /\ committed' = [committed EXCEPT ![p] = @ + 1]
    /\ UNCHANGED <<log, handled>>

Next == \E p \in Partitions : \/ \E e \in Events : Publish(p, e)
                              \/ Handle(p)
                              \/ Pass(p)

Spec == Init /\ [][Next]_vars
=============================================================================
