------------------------- MODULE TypeScriptConsumer -------------------------
(***************************************************************************)
(* The TypeScript SDK's EventConsumer (event-bus-sdk/typescript/src/       *)
(* consumer.ts): the processes of one consumer group, each on one kafkajs  *)
(* consumer.  Every topic has one partition, so a member of Partitions is  *)
(* a topic.  kafkajs hands eachMessage one message at a time; when it      *)
(* rejects, the fetch position stays, and kafkajs feeds the message again, *)
(* after it went back to the committed offsets or without.                 *)
(***************************************************************************)
EXTENDS EventTopic, DedupWindow

CONSTANTS Consumers,  \* the processes of the group
          None,       \* no owner, nothing in hand
          Capacity,   \* capacity of each InMemoryDedupStore
          MaxEvents,  \* bound on the events of all topics together
          MaxFaults   \* bound on crashes, failures, rebalances and closes

ASSUME TypeScriptConsumerAssumption ==
    /\ None \notin Consumers
    /\ None \notin Partitions \X Nat
    /\ Capacity \in Nat \ {0}
    /\ MaxEvents \in Nat
    /\ MaxFaults \in Nat

VARIABLES
    \* the broker, and what kafkajs fetches next
    log, committed, owner, position,
    \* the consumer processes
    status,      \* status[c]: where process c is
    handlers,    \* handlers[c]: the topics subscribed, from which run() makes its Map
    current,     \* current[c]: topic and offset of the message in eachMessage
    dedup,       \* dedup[c]: the window of c's InMemoryDedupStore
    connected,   \* connected[c]: the flag that only subscribe() sets
    closing,     \* closing[c]: close() waits for kafkajs to disconnect
    \* history
    handled,     \* the keys some handler call resolved for
    mine,        \* mine[c]: the keys c handled since its process started
    faults       \* how much of MaxFaults is used up

brokerVars == <<log, committed, owner, position>>
memoryVars == <<handlers, connected, dedup>>
vars == <<brokerVars, status, memoryVars, current, closing, handled, mine, faults>>

Running == {"running", "handling", "committing"}

InHand(c) == log[current[c][1]][current[c][2]]

Init ==
    /\ log = [t \in Partitions |-> << >>]
    /\ committed = [t \in Partitions |-> 0]
    /\ owner = [t \in Partitions |-> None]
    /\ position = [t \in Partitions |-> 0]
    /\ status = [c \in Consumers |-> "starting"]
    /\ handlers = [c \in Consumers |-> {}]
    /\ current = [c \in Consumers |-> None]
    /\ dedup = [c \in Consumers |-> EmptyWindow]
    /\ connected = [c \in Consumers |-> FALSE]
    /\ closing = [c \in Consumers |-> FALSE]
    /\ handled = {}
    /\ mine = [c \in Consumers |-> {}]
    /\ faults = 0

Fault == faults < MaxFaults /\ faults' = faults + 1

Become(c, s) == status' = [status EXCEPT ![c] = s]
-----------------------------------------------------------------------------
\* The broker and the producers.
Publish(t, e) ==
    /\ Len(log[t]) < MaxLog
    /\ SumFunction([u \in Partitions |-> Len(log[u])]) < MaxEvents
    /\ log' = [log EXCEPT ![t] = Append(@, e)]
    /\ UNCHANGED <<committed, owner, position, status, memoryVars, current,
                   closing, handled, mine, faults>>

\* kafkajs joins the group between two messages, never inside eachMessage.
GivePartition(t, c) ==
    /\ status[c] = "running" /\ ~closing[c]
    /\ owner' = [owner EXCEPT ![t] = c]
    /\ position' = [position EXCEPT ![t] = committed[t]]
    /\ UNCHANGED <<log, committed, status, memoryVars, current, closing,
                   handled, mine>>

Assign(t, c) == owner[t] = None /\ GivePartition(t, c) /\ UNCHANGED faults

Rebalance(t, c) == owner[t] # None /\ GivePartition(t, c) /\ Fault

Release(c) == owner' = [t \in Partitions |-> IF owner[t] = c THEN None ELSE owner[t]]
-----------------------------------------------------------------------------
\* The life of a process.
\* The process dies; a new one starts with an empty memory.
Crash(c) ==
    /\ Become(c, "starting")
    /\ Release(c)
    /\ handlers' = [handlers EXCEPT ![c] = {}]
    /\ current' = [current EXCEPT ![c] = None]
    /\ dedup' = [dedup EXCEPT ![c] = EmptyWindow]
    /\ connected' = [connected EXCEPT ![c] = FALSE]
    /\ closing' = [closing EXCEPT ![c] = FALSE]
    /\ mine' = [mine EXCEPT ![c] = {}]
    /\ Fault
    /\ UNCHANGED <<log, committed, position, handled>>

\* The caller subscribes to topics, or to no more of them, and calls run(), which
\* makes its Map of the calls of subscribe() that have finished; kafkajs has also
\* taken on the topics of those in flight, whose push comes too late.  A
\* subscribe() sets the flag, a close() before run() takes it back, and run(),
\* for which kafkajs connects by itself, leaves it as it is.
Run(c) ==
    /\ status[c] = "starting"
    /\ \E finished \in SUBSET Partitions :
          /\ handlers' = [handlers EXCEPT ![c] = @ \cup finished]
          /\ handlers'[c] # {}
          /\ \/ connected' = [connected EXCEPT ![c] = finished # {}] /\ UNCHANGED faults
             \/ finished # {} /\ UNCHANGED connected /\ Fault
    /\ Become(c, "running")
    /\ UNCHANGED <<brokerVars, current, dedup, closing, handled, mine>>

\* close() while the loop runs.  Without the flag it leaves the loop alone.
Close(c) ==
    /\ status[c] \in Running /\ connected[c] /\ ~closing[c]
    /\ closing' = [closing EXCEPT ![c] = TRUE]
    /\ Fault
    /\ UNCHANGED <<brokerVars, status, memoryVars, current, handled, mine>>

\* Seeded fault: close() does not make the loop's consumer leave.
DisconnectSkipped(c) ==
    /\ closing[c] /\ status[c] = "running"
    /\ closing' = [closing EXCEPT ![c] = FALSE]
    /\ UNCHANGED <<brokerVars, status, memoryVars, current, handled, mine, faults>>

\* kafkajs disconnects once eachMessage has ended.  The object can be run again:
\* it keeps its subscriptions and its window.
Disconnect(c) ==
    /\ closing[c] /\ status[c] = "running"
    /\ Become(c, "starting")
    /\ Release(c)
    /\ connected' = [connected EXCEPT ![c] = FALSE]
    /\ closing' = [closing EXCEPT ![c] = FALSE]
    /\ UNCHANGED <<log, committed, position, handlers, current, dedup,
                   handled, mine, faults>>
-----------------------------------------------------------------------------
(***************************************************************************)
(* processMessage                                                          *)
(***************************************************************************)
NextMessage(t) == log[t][position[t] + 1]

\* eachMessage is called with the next message of t.
Feeds(c, t) ==
    /\ status[c] = "running" /\ ~closing[c]
    /\ owner[t] = c
    /\ position[t] < Len(log[t])

\* eachMessage rejects: the message in hand is fed again, from the position as it
\* is or, when kafkajs has restarted, from the committed offset.
FeedAgain(c) ==
    position' \in {position,
                   [t \in Partitions |-> IF owner[t] = c THEN committed'[t]
                                         ELSE position[t]]}

\* A topic without a handler: eachMessage resolves, kafkajs moves on.
SkipUnhandled(c, t) ==
    /\ Feeds(c, t)
    /\ t \notin handlers[c]
    /\ position' = [position EXCEPT ![t] = @ + 1]
    /\ UNCHANGED <<log, committed, owner, status, memoryVars, current, closing,
                   handled, mine, faults>>

\* decode or validate rejects: the message is malformed, or the schema registry
\* cannot be asked.
Reject(c, t) ==
    /\ Feeds(c, t)
    /\ t \in handlers[c]
    /\ IF IsValid(NextMessage(t)) THEN Fault ELSE UNCHANGED faults
    /\ UNCHANGED <<log, committed, owner, status, memoryVars, current, closing,
                   handled, mine>>
    /\ FeedAgain(c)

Decoded(c, t) ==
    /\ Feeds(c, t)
    /\ t \in handlers[c]
    /\ IsValid(NextMessage(t))
    /\ current' = [current EXCEPT ![c] = <<t, position[t] + 1>>]
    /\ UNCHANGED <<brokerVars, handlers, connected, closing, handled, mine, faults>>

\* Seeded fault: a duplicate returns before its offset is committed, and without
\* letting kafkajs resolve it.
SkipDuplicateUncommitted(c, t) ==
    /\ Decoded(c, t)
    /\ Seen(dedup[c], NextMessage(t).key)
    /\ dedup' = [dedup EXCEPT ![c] = AfterSeen(@, NextMessage(t).key)]
    /\ UNCHANGED status

SkipDuplicate(c, t) ==
    /\ Decoded(c, t)
    /\ Seen(dedup[c], NextMessage(t).key)
    /\ dedup' = [dedup EXCEPT ![c] = AfterSeen(@, NextMessage(t).key)]
    /\ Become(c, "committing")

CallHandler(c, t) ==
    /\ Decoded(c, t)
    /\ ~Seen(dedup[c], NextMessage(t).key)
    /\ Become(c, "handling")
    /\ UNCHANGED dedup

\* Seeded fault: the key is recorded after the commit, as far as that succeeds.
HandlerResolvesUnrecorded(c) ==
    /\ status[c] = "handling"
    /\ Become(c, "committing")
    /\ handled' = handled \cup {InHand(c).key}
    /\ mine' = [mine EXCEPT ![c] = @ \cup {InHand(c).key}]
    /\ UNCHANGED <<brokerVars, memoryVars, current, closing, faults>>

\* The handler resolves, and the key is recorded before the commit.
HandlerResolves(c) ==
    /\ status[c] = "handling"
    /\ Become(c, "committing")
    /\ handled' = handled \cup {InHand(c).key}
    /\ mine' = [mine EXCEPT ![c] = @ \cup {InHand(c).key}]
    /\ dedup' = [dedup EXCEPT ![c] = AfterRecord(@, InHand(c).key, Capacity)]
    /\ UNCHANGED <<brokerVars, handlers, connected, current, closing, faults>>

EndMessage(c) ==
    /\ Become(c, "running")
    /\ current' = [current EXCEPT ![c] = None]
    /\ UNCHANGED <<log, owner, memoryVars, closing, handled, mine>>

HandlerRejects(c) ==
    /\ status[c] = "handling"
    /\ EndMessage(c)
    /\ Fault
    /\ UNCHANGED committed
    /\ FeedAgain(c)

MayCommit(c) == owner[current[c][1]] = c

\* The committed offset is one past the message, counted from zero.
CommitOffset(c) == committed' = [committed EXCEPT ![current[c][1]] = current[c][2]]

\* Seeded fault: the commit is not fenced by the group's generation.
CommitUnfenced(c) ==
    /\ status[c] = "committing"
    /\ CommitOffset(c)
    /\ position' = IF MayCommit(c) THEN [position EXCEPT ![current[c][1]] = current[c][2]]
                   ELSE position
    /\ EndMessage(c)
    /\ UNCHANGED faults

\* eachMessage resolves and kafkajs moves past the message.
Commit(c) ==
    /\ status[c] = "committing"
    /\ MayCommit(c)
    /\ CommitOffset(c)
    /\ position' = [position EXCEPT ![current[c][1]] = current[c][2]]
    /\ EndMessage(c)
    /\ UNCHANGED faults

\* The partition was given to another member.
CommitRefused(c) ==
    /\ status[c] = "committing"
    /\ ~MayCommit(c)
    /\ EndMessage(c)
    /\ UNCHANGED <<committed, faults>>
    /\ FeedAgain(c)

\* The commit fails, or only its answer is lost, or onProcessed throws after it.
CommitRejects(c) ==
    /\ status[c] = "committing"
    /\ \/ UNCHANGED committed
       \/ MayCommit(c) /\ CommitOffset(c)
    /\ EndMessage(c)
    /\ Fault
    /\ FeedAgain(c)
-----------------------------------------------------------------------------
EachMessage(c, t) == SkipUnhandled(c, t) \/ Reject(c, t)
                     \/ SkipDuplicate(c, t) \/ CallHandler(c, t)

MessageEnds(c) == \/ HandlerResolves(c) \/ HandlerRejects(c)
                  \/ Commit(c) \/ CommitRefused(c) \/ CommitRejects(c)

Next ==
    \/ \E t \in Partitions : \/ \E e \in Events : Publish(t, e)
                             \/ \E c \in Consumers : Assign(t, c) \/ Rebalance(t, c)
    \/ \E c \in Consumers :
        \/ Crash(c) \/ Run(c) \/ Close(c) \/ Disconnect(c)
        \/ MessageEnds(c)
        \/ \E t \in Partitions : EachMessage(c, t)

Spec == Init /\ [][Next]_vars

\* A message in eachMessage comes to its end, kafkajs disconnects when asked, and
\* it fetches every assigned topic again and again, whatever it finds in the others.
FairSpec ==
    /\ Spec
    /\ \A c \in Consumers :
        /\ WF_vars(MessageEnds(c))
        /\ WF_vars(Disconnect(c))
        /\ \A t \in Partitions : SF_vars(EachMessage(c, t))
-----------------------------------------------------------------------------
(***************************************************************************)
(* Properties.                                                             *)
(***************************************************************************)

\* The state keeps its shape: no window exceeds its capacity, only a consumer
\* that runs has topics, and close() waits only for one that runs and whose
\* flag is set.
TypeOK ==
    /\ log \in [Partitions -> Seq(Events)]
    /\ committed \in [Partitions -> Nat]
    /\ owner \in [Partitions -> Consumers \cup {None}]
    /\ position \in [Partitions -> Nat]
    /\ status \in [Consumers -> {"starting"} \cup Running]
    /\ handlers \in [Consumers -> SUBSET Partitions]
    /\ current \in [Consumers -> (Partitions \X Nat) \cup {None}]
    /\ dedup \in [Consumers -> Seq(Keys)]
    /\ \A c \in Consumers : Len(dedup[c]) <= Capacity
    /\ connected \in [Consumers -> BOOLEAN]
    /\ closing \in [Consumers -> BOOLEAN]
    /\ \A c \in Consumers : closing[c] => status[c] \in Running /\ connected[c]
    /\ \A t \in Partitions : owner[t] # None => status[owner[t]] \in Running
    /\ handled \subseteq Keys
    /\ mine \in [Consumers -> SUBSET Keys]
    /\ faults \in 0..MaxFaults

\* Why the properties below hold.  A message in hand is a valid event of the
\* log, not beyond the next one, and handled when it is to be committed ...
Busy(c) == status[c] \in {"handling", "committing"}

InHandIsReady ==
    \A c \in Consumers : Busy(c) =>
        /\ current[c] # None
        /\ current[c][2] \in 1..Len(log[current[c][1]])
        /\ current[c][2] <= committed[current[c][1]] + 1
        /\ IsValid(InHand(c))
        /\ status[c] = "committing" => InHand(c).key \in handled

\* ... the owner of a topic fetches at the committed offset or, after a commit
\* whose call rejected, one before it; beyond it only without a handler ...
OwnerKeepsPace ==
    \A t \in Partitions : owner[t] # None =>
        /\ committed[t] <= position[t] + 1
        /\ t \in handlers[owner[t]] => position[t] <= committed[t]
        /\ Busy(owner[t]) /\ current[owner[t]][1] = t =>
              current[owner[t]][2] = position[t] + 1

\* ... and a window remembers only handled events.
WindowKeysWereHandled == \A c \in Consumers : ToSet(dedup[c]) \subseteq handled

\* At-least-once (consumer.ts 29-39): what the group has passed was handled,
\* though here, unlike in Python, a process goes on after every failure.
NoEventSkipped ==
    \A t \in Partitions :
        /\ committed[t] <= Len(log[t])
        /\ \A i \in 1..committed[t] : IsValid(log[t][i]) /\ log[t][i].key \in handled

ConsumerInv == /\ TypeOK /\ InHandIsReady /\ OwnerKeepsPace
               /\ WindowKeysWereHandled /\ NoEventSkipped

\* The group does what AtLeastOnceDelivery promises, topics without a handler,
\* re-fed messages and throwing callbacks included.
Delivery == INSTANCE AtLeastOnceDelivery
DeliversAtLeastOnce == Delivery!Spec

\* Over rejections, refused commits and restarts of kafkajs, a process calls the
\* handler again for a key it completed only when it has completed so many other
\* keys since that they fill its window (dedup-store.ts 42-50).
RepeatsOnlyAfterEviction ==
    \A c \in Consumers :
        status[c] = "handling" /\ InHand(c).key \in mine[c] =>
            /\ Len(dedup[c]) = Capacity
            /\ ToSet(dedup[c]) \subseteq mine[c] \ {InHand(c).key}

\* When its topic ends up with a consumer that has a handler for it, every event
\* with nothing but valid events before it is passed once the producers pause, as
\* MaxLog makes them (consumer.ts 209-214: a run() that overtook the subscribe()
\* of a topic never has a handler for it).
ValidPrefix(t, i) == i <= Len(log[t]) /\ \A j \in 1..i : IsValid(log[t][j])

Served(t) == owner[t] # None /\ t \in handlers[owner[t]]

CaughtUp(t) == \A i \in 1..MaxLog : ValidPrefix(t, i) => committed[t] >= i

ServedEventsPassed == \A t \in Partitions : <>[]Served(t) => []<>CaughtUp(t)

\* A close() that finds the flag set (consumer.ts 278-284) ends the loop, at the
\* latest after the message in eachMessage, however often the object is run again.
CloseEndsLoop == \A c \in Consumers : closing[c] ~> status[c] \notin Running
=============================================================================
