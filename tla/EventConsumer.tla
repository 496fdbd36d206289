--------------------------- MODULE EventConsumer ---------------------------
(***************************************************************************)
(* The Python SDK's EventConsumer (event-bus-sdk/trustlist_event_bus/      *)
(* consumer.py): the processes of one consumer group, each running         *)
(* run()/poll_once() with an in-memory deduplication store, and what the   *)
(* broker keeps for the group.  poll_once is split where another process   *)
(* can get in between: fetching, the handler, and the commit.              *)
(***************************************************************************)
EXTENDS EventTopic, DedupWindow

CONSTANTS Consumers,      \* the processes of the group
          None,           \* no owner, nothing in hand
          Capacity,       \* capacity of each InMemoryDedupStore
          MaxEvents,      \* run's max_events, or NoLimit
          NoLimit,
          CallerResumes,  \* does the caller go on polling after an exception?
          MaxFaults       \* bound on crashes, failures, rebalances and closes

ASSUME ConsumerAssumption ==
    /\ None \notin Consumers
    /\ None \notin Partitions \X Nat
    /\ Capacity \in Nat \ {0}
    /\ NoLimit \notin Nat
    /\ MaxEvents \in (Nat \ {0}) \cup {NoLimit}
    /\ CallerResumes \in BOOLEAN
    /\ MaxFaults \in Nat

VARIABLES
    \* the broker
    log,         \* log[p]: the events of partition p
    committed,   \* committed[p]: the group's committed offset
    owner,       \* owner[p]: the member p is assigned to, or None
    position,    \* position[p]: the owner's fetch position in p
    \* the consumer processes
    status,      \* status[c]: where process c is in run()
    current,     \* current[c]: partition and offset of the message in hand
    dedup,       \* dedup[c]: the window of c's InMemoryDedupStore
    closed,      \* closed[c]: the _closed flag
    processed,   \* processed[c]: run's count, kept when MaxEvents limits it
    \* history
    handled,     \* the keys some handler call returned from
    mine,        \* mine[c]: the keys c handled since it started
    faults       \* how much of MaxFaults is used up

brokerVars == <<log, committed, owner, position>>
memoryVars == <<current, dedup, closed, processed, mine>>
vars == <<log, committed, owner, position, status, current, dedup, closed,
          processed, handled, mine, faults>>

Statuses == {"stopped", "polling", "handling", "committing", "raised"}

InHand(c) == log[current[c][1]][current[c][2]]

Init ==
    /\ log = [p \in Partitions |-> << >>]
    /\ committed = [p \in Partitions |-> 0]
    /\ owner = [p \in Partitions |-> None]
    /\ position = [p \in Partitions |-> 0]
    /\ status = [c \in Consumers |-> "stopped"]
    /\ current = [c \in Consumers |-> None]
    /\ dedup = [c \in Consumers |-> EmptyWindow]
    /\ closed = [c \in Consumers |-> FALSE]
    /\ processed = [c \in Consumers |-> 0]
    /\ handled = {}
    /\ mine = [c \in Consumers |-> {}]
    /\ faults = 0

Fault == faults < MaxFaults /\ faults' = faults + 1

Become(c, s) == status' = [status EXCEPT ![c] = s]
-----------------------------------------------------------------------------
(***************************************************************************)
(* The broker and the producers.                                           *)
(***************************************************************************)
Publish(p, e) ==
    /\ Len(log[p]) < MaxLog
    /\ log' = [log EXCEPT ![p] = Append(@, e)]
    /\ UNCHANGED <<committed, owner, position, status, memoryVars, handled, faults>>

\* The coordinator gives p to c, which fetches from the committed offset on
\* (auto.offset.reset = earliest: from the start when there is none).  An
\* assignment reaches a member inside poll().
GivePartition(p, c) ==
    /\ status[c] = "polling" /\ ~closed[c]
    /\ owner' = [owner EXCEPT ![p] = c]
    /\ position' = [position EXCEPT ![p] = committed[p]]
    /\ UNCHANGED <<log, committed, status, memoryVars, handled>>

Assign(p, c) == owner[p] = None /\ GivePartition(p, c) /\ UNCHANGED faults

\* A rebalance while p has an owner.  A busy owner loses p when it exceeds
\* max.poll.interval.ms or its session: it goes on without knowing.
Rebalance(p, c) == owner[p] # None /\ GivePartition(p, c) /\ Fault

Release(c) == owner' = [p \in Partitions |-> IF owner[p] = c THEN None ELSE owner[p]]
-----------------------------------------------------------------------------
(***************************************************************************)
(* The life of a consumer process.                                         *)
(***************************************************************************)
Start(c) ==
    /\ status[c] = "stopped"
    /\ Become(c, "polling")
    /\ UNCHANGED <<brokerVars, memoryVars, handled, faults>>

\* The process or its EventConsumer is gone: it leaves the group and its
\* memory, the deduplication window included, is lost.
Vanish(c) ==
    /\ Become(c, "stopped")
    /\ Release(c)
    /\ current' = [current EXCEPT ![c] = None]
    /\ dedup' = [dedup EXCEPT ![c] = EmptyWindow]
    /\ closed' = [closed EXCEPT ![c] = FALSE]
    /\ processed' = [processed EXCEPT ![c] = 0]
    /\ mine' = [mine EXCEPT ![c] = {}]
    /\ UNCHANGED <<log, committed, position, handled>>

Crash(c) == status[c] # "stopped" /\ Vanish(c) /\ Fault

\* close() from another thread: the consumer leaves the group at once, the
\* thread inside run() notices when it next looks at _closed or the broker.
Close(c) ==
    /\ status[c] # "stopped" /\ ~closed[c]
    /\ closed' = [closed EXCEPT ![c] = TRUE]
    /\ Release(c)
    /\ Fault
    /\ UNCHANGED <<log, committed, position, status, current, dedup, processed,
                   handled, mine>>

\* Seeded fault: run() does not look at _closed.
LoopIgnoresClosed(c) == processed[c] = MaxEvents

LoopDone(c) == closed[c] \/ processed[c] = MaxEvents

\* run() returns and the with block closes the consumer.
LeaveLoop(c) ==
    /\ status[c] = "polling"
    /\ LoopDone(c)
    /\ Vanish(c)
    /\ UNCHANGED faults

\* An exception leaves run() and the with block.
Exit(c) ==
    /\ status[c] = "raised"
    /\ Vanish(c)
    /\ UNCHANGED faults

\* The caller catches the exception and calls run() or poll_once() again on
\* the same consumer.  Nothing seeks back: the fetch position stays.
Resume(c) ==
    /\ CallerResumes
    /\ status[c] = "raised"
    /\ Become(c, "polling")
    /\ current' = [current EXCEPT ![c] = None]
    /\ processed' = [processed EXCEPT ![c] = 0]
    /\ UNCHANGED <<brokerVars, dedup, closed, handled, mine, faults>>
-----------------------------------------------------------------------------
(***************************************************************************)
(* poll_once                                                               *)
(***************************************************************************)

\* poll() returns the next message of an assigned partition and moves the
\* fetch position past it, whatever becomes of the message.
Fetch(c, p) ==
    /\ status[c] = "polling"
    /\ ~LoopDone(c)
    /\ owner[p] = c
    /\ position[p] < Len(log[p])
    /\ position' = [position EXCEPT ![p] = @ + 1]
    /\ current' = [current EXCEPT ![c] = <<p, position[p] + 1>>]
    /\ UNCHANGED <<log, committed, owner, closed, processed, handled, mine>>

Fetched(p) == log[p][position[p] + 1]

\* poll() reports a broker error, or finds the consumer closed under it.
PollFails(c) ==
    /\ status[c] = "polling"
    /\ Become(c, "raised")
    /\ IF closed[c] THEN UNCHANGED faults ELSE Fault
    /\ UNCHANGED <<brokerVars, memoryVars, handled>>

\* _decode or validate raises: the message is malformed, or the schema
\* registry cannot be asked.
Reject(c, p) ==
    /\ Fetch(c, p)
    /\ IF IsValid(Fetched(p)) THEN Fault ELSE UNCHANGED faults
    /\ Become(c, "raised")
    /\ UNCHANGED dedup

\* Seeded fault: a duplicate is skipped without committing its offset.
SkipWithoutCommit(c, p) ==
    /\ Fetch(c, p)
    /\ IsValid(Fetched(p))
    /\ Seen(dedup[c], Fetched(p).key)
    /\ dedup' = [dedup EXCEPT ![c] = AfterSeen(@, Fetched(p).key)]
    /\ UNCHANGED <<status, faults>>

\* seen() answers True: the handler is skipped and the offset committed.
SkipDuplicate(c, p) ==
    /\ Fetch(c, p)
    /\ IsValid(Fetched(p))
    /\ Seen(dedup[c], Fetched(p).key)
    /\ dedup' = [dedup EXCEPT ![c] = AfterSeen(@, Fetched(p).key)]
    /\ Become(c, "committing")
    /\ UNCHANGED faults

\* Seeded fault: the key is recorded before the handler runs.
CallHandlerRecordedFirst(c, p) ==
    /\ Fetch(c, p)
    /\ IsValid(Fetched(p))
    /\ ~Seen(dedup[c], Fetched(p).key)
    /\ Become(c, "handling")
    /\ dedup' = [dedup EXCEPT ![c] = AfterRecord(@, Fetched(p).key, Capacity)]
    /\ UNCHANGED faults

CallHandler(c, p) ==
    /\ Fetch(c, p)
    /\ IsValid(Fetched(p))
    /\ ~Seen(dedup[c], Fetched(p).key)
    /\ Become(c, "handling")
    /\ UNCHANGED <<dedup, faults>>

\* Seeded fault: the key of a handled event is not recorded.
HandlerReturnsUnrecorded(c) ==
    /\ status[c] = "handling"
    /\ Become(c, "committing")
    /\ handled' = handled \cup {InHand(c).key}
    /\ mine' = [mine EXCEPT ![c] = @ \cup {InHand(c).key}]
    /\ UNCHANGED <<brokerVars, current, dedup, closed, processed, faults>>

\* The handler returns and the key is recorded, in memory, before the commit.
HandlerReturns(c) ==
    /\ status[c] = "handling"
    /\ Become(c, "committing")
    /\ handled' = handled \cup {InHand(c).key}
    /\ mine' = [mine EXCEPT ![c] = @ \cup {InHand(c).key}]
    /\ dedup' = [dedup EXCEPT ![c] = AfterRecord(@, InHand(c).key, Capacity)]
    /\ UNCHANGED <<brokerVars, current, closed, processed, faults>>

\* Seeded fault: a handler exception is swallowed and the offset committed.
HandlerRaisesSwallowed(c) ==
    /\ status[c] = "handling"
    /\ Become(c, "committing")
    /\ Fault
    /\ UNCHANGED <<brokerVars, memoryVars, handled>>

ExceptionFromHandler(c) ==
    /\ status[c] = "handling"
    /\ Become(c, "raised")
    /\ UNCHANGED <<brokerVars, memoryVars, handled>>

\* The exception leaves poll_once: nothing is recorded, nothing is committed.
HandlerRaises(c) == ExceptionFromHandler(c) /\ Fault

\* The broker accepts a commit only from the member p is assigned to.
MayCommit(c) == owner[current[c][1]] = c

CommitOffset(c) == committed' = [committed EXCEPT ![current[c][1]] = current[c][2]]

\* Seeded fault: a commit is not fenced by the group, as after assign() in place
\* of subscribe().
CommitUnfenced(c) ==
    /\ status[c] = "committing"
    /\ CommitOffset(c)
    /\ Become(c, "polling")
    /\ current' = [current EXCEPT ![c] = None]
    /\ processed' = IF MaxEvents = NoLimit THEN processed
                    ELSE [processed EXCEPT ![c] = @ + 1]
    /\ UNCHANGED <<log, owner, position, dedup, closed, handled, mine, faults>>

Commit(c) ==
    /\ status[c] = "committing"
    /\ MayCommit(c)
    /\ CommitOffset(c)
    /\ Become(c, "polling")
    /\ current' = [current EXCEPT ![c] = None]
    /\ processed' = IF MaxEvents = NoLimit THEN processed
                    ELSE [processed EXCEPT ![c] = @ + 1]
    /\ UNCHANGED <<log, owner, position, dedup, closed, handled, mine, faults>>

\* The commit is refused: p was given to another member, or the consumer was
\* closed.
CommitRefused(c) ==
    /\ status[c] = "committing"
    /\ ~MayCommit(c)
    /\ Become(c, "raised")
    /\ UNCHANGED <<brokerVars, memoryVars, handled, faults>>

\* The commit fails on the way: the request or only its answer is lost.
CommitFails(c) ==
    /\ status[c] = "committing"
    /\ \/ UNCHANGED committed
       \/ MayCommit(c) /\ CommitOffset(c)
    /\ Become(c, "raised")
    /\ Fault
    /\ UNCHANGED <<log, owner, position, memoryVars, handled>>
-----------------------------------------------------------------------------
PollOnce(c) == \E p \in Partitions :
                   Reject(c, p) \/ SkipDuplicate(c, p) \/ CallHandler(c, p)

HandlerEnds(c) == HandlerReturns(c) \/ HandlerRaises(c)

CommitEnds(c) == Commit(c) \/ CommitRefused(c) \/ CommitFails(c)

Next ==
    \/ \E p \in Partitions : \/ \E e \in Events : Publish(p, e)
                             \/ \E c \in Consumers : Assign(p, c) \/ Rebalance(p, c)
    \/ \E c \in Consumers :
        \/ Start(c) \/ Crash(c) \/ Close(c) \/ LeaveLoop(c) \/ Exit(c) \/ Resume(c)
        \/ PollOnce(c) \/ PollFails(c) \/ HandlerEnds(c) \/ CommitEnds(c)

Spec == Init /\ [][Next]_vars

\* A consumer that can take a step takes it: the loop does not pause, handlers
\* and broker calls end, a stopped process is started again and an unassigned
\* partition is given to some member.
Fairness ==
    /\ \A c \in Consumers :
        /\ WF_vars(Start(c))
        /\ WF_vars(LeaveLoop(c))
        /\ WF_vars(Exit(c) \/ Resume(c))
        /\ WF_vars(PollOnce(c))
        /\ WF_vars(HandlerEnds(c))
        /\ WF_vars(CommitEnds(c))
    /\ \A p \in Partitions : WF_vars(\E c \in Consumers : Assign(p, c))

FairSpec == Spec /\ Fairness
-----------------------------------------------------------------------------
(***************************************************************************)
(* Properties.                                                             *)
(***************************************************************************)

\* The state keeps its shape, and no window exceeds its capacity however often
\* the consumer records, hits and restarts (consumer.py 113-114).
TypeOK ==
    /\ log \in [Partitions -> Seq(Events)]
    /\ committed \in [Partitions -> Nat]
    /\ owner \in [Partitions -> Consumers \cup {None}]
    /\ position \in [Partitions -> Nat]
    /\ status \in [Consumers -> Statuses]
    /\ current \in [Consumers -> (Partitions \X Nat) \cup {None}]
    /\ dedup \in [Consumers -> Seq(Keys)]
    /\ \A c \in Consumers : Len(dedup[c]) <= Capacity
    /\ closed \in [Consumers -> BOOLEAN]
    /\ processed \in [Consumers -> Nat]
    /\ handled \subseteq Keys
    /\ mine \in [Consumers -> SUBSET Keys]
    /\ faults \in 0..MaxFaults

\* Why the properties below hold: four facts about every caller ...
Busy(c) == status[c] \in {"handling", "committing"}

\* A message in hand is a valid event of the log, handled by the time its
\* offset is to be committed.
InHandIsReady ==
    \A c \in Consumers : Busy(c) =>
        /\ current[c] # None
        /\ current[c][2] \in 1..Len(log[current[c][1]])
        /\ IsValid(InHand(c))
        /\ status[c] = "committing" => InHand(c).key \in handled

\* The owner of a partition is never behind the group, and what it has in hand
\* is the last message it fetched.
OwnerIsAhead ==
    \A p \in Partitions : owner[p] # None =>
        /\ committed[p] <= position[p]
        /\ Busy(owner[p]) /\ current[owner[p]][1] = p =>
              /\ current[owner[p]][2] = position[p]
              /\ committed[p] < position[p]

WindowKeysWereHandled == \A c \in Consumers : ToSet(dedup[c]) \subseteq handled

CommittedWithinLog == \A p \in Partitions : committed[p] <= Len(log[p])

CallerFreeInv == TypeOK /\ InHandIsReady /\ OwnerIsAhead /\ WindowKeysWereHandled
                        /\ CommittedWithinLog

\* ... and three that need a caller which gives its consumer up after an
\* exception: the group's offset and the fetch positions never drift apart.
StoppedOwnsNothing ==
    \A p \in Partitions : owner[p] # None => status[owner[p]] # "stopped"

InHandIsNext ==
    \A c \in Consumers : Busy(c) => current[c][2] <= committed[current[c][1]] + 1

PositionIsCommitted ==
    \A p \in Partitions :
        /\ owner[p] # None
        /\ \/ status[owner[p]] = "polling"
           \/ Busy(owner[p]) /\ current[owner[p]][1] # p
        => position[p] = committed[p]

\* At-least-once (consumer.py 33-36, 198-200): every event the group has
\* passed was valid and was handled by a call that returned.  No crash,
\* rebalance, refused commit or poison message lets an event slip by.
NoEventSkipped ==
    \A p \in Partitions : \A i \in 1..committed[p] :
        IsValid(log[p][i]) /\ log[p][i].key \in handled

ExitingCallerInv == /\ CallerFreeInv
                    /\ StoppedOwnsNothing
                    /\ InHandIsNext
                    /\ PositionIsCommitted
                    /\ NoEventSkipped

\* The group of consumers does what AtLeastOnceDelivery promises.
Delivery == INSTANCE AtLeastOnceDelivery
DeliversAtLeastOnce == Delivery!Spec

\* Whatever the caller does, the offset of an event is committed only after
\* that very event was handled or recognised as handled (consumer.py 33-36,
\* 226-230): the newly committed offset is that of a valid, handled event.
CommitFollowsSuccess ==
    [][ \A p \in Partitions : committed'[p] # committed[p] =>
            LET e == log[p][committed'[p]]
            IN  IsValid(e) /\ e.key \in handled ]_vars

\* The group never moves back, not even by a commit that a consumer sends
\* after it lost the partition.
CommittedNeverRetreats ==
    [][ \A p \in Partitions : committed'[p] >= committed[p] ]_vars

\* Within one process a handler runs again for a key it completed only when
\* the window was full enough to have evicted the key (consumer.py 83-92).
RepeatsOnlyAfterEviction ==
    \A c \in Consumers :
        status[c] = "handling" /\ InHand(c).key \in mine[c] => Len(dedup[c]) = Capacity

\* Once the producers pause, as MaxLog makes them, every event with nothing but
\* valid events before it is passed, unless another partition holds a malformed
\* one: its owner, sent away by the exception again and again, need not come to
\* this partition (consumer.py 212-217).
ValidPrefix(p, i) == i <= Len(log[p]) /\ \A j \in 1..i : IsValid(log[p][j])

CaughtUp(p) == \A i \in 1..MaxLog : ValidPrefix(p, i) => committed[p] >= i

Poisoned(p) == \E i \in 1..Len(log[p]) : ~IsValid(log[p][i])

EveryValidEventPassed ==
    \A p \in Partitions : []<>(CaughtUp(p) \/ \E q \in Partitions \ {p} : Poisoned(q))

\* close() ends run(), at the latest after the handler call in progress.
CloseEndsRun == \A c \in Consumers : closed[c] ~> status[c] = "stopped"
=============================================================================
